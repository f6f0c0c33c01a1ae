----------------------------- MODULE SignalMath -----------------------------
(***************************************************************************)
(* The arithmetic of which several components have a copy.                 *)
(*                                                                         *)
(* Rolling windows (shock_detector, strategy_research, temporal_agent):    *)
(* mean, standard deviation and z-score of integers, multiplied out so     *)
(* that they stay exact.                                                   *)
(*                                                                         *)
(* Sizing (the four agents): the Kelly fraction of a binary contract, a    *)
(* part of it, and a cap.  Prices are in units of 1 / scale, sizes in      *)
(* units of 1 / unit of the bankroll; an edge too small for the unit is    *)
(* rounded up to one, as the code never rounds a positive size to nothing. *)
(***************************************************************************)
EXTENDS Integers, Sequences, RustStd

Total(ds) == SumFunction(ds)
Squares(ds) == SumFunction([i \in DOMAIN ds |-> ds[i] * ds[i]])

\* n * (n - 1) times the sample variance of n values.
Spread(ds) == Len(ds) * Squares(ds) - Total(ds) * Total(ds)

\* n times the distance of d from the mean.
Deviation(ds, d) == Len(ds) * d - Total(ds)

\* |z-score of d| >= z, at least two values given.
Beyond(ds, d, z) ==
  Deviation(ds, d) * Deviation(ds, d) * (Len(ds) - 1) >= z * z * Len(ds) * Spread(ds)

\* A window of at most n values takes in d.
Push(ds, d, n) == Append(IF Len(ds) >= n THEN Tail(ds) ELSE ds, d)

----------------------------------------------------------------------------
\* What a unit bought, or sold, at a price can win.
Room(dir, price, scale) == IF dir = "Buy" THEN scale - price ELSE price

\* edge / room, one part in den of it, at most cap; none without room.
Sized(edge, room, den, unit, cap) ==
  IF edge <= 0 \/ room <= 0 THEN 0
  ELSE MinOf(cap, MaxOf(1, (edge * unit) \div (room * den)))
=============================================================================
