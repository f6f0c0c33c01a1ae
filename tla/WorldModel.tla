----------------------------- MODULE WorldModel -----------------------------
(***************************************************************************)
(* crates/world_model: beliefs about the markets, carried along            *)
(* dependencies when one of them changes, compared with the market price   *)
(* (WorldSignal) and with logical constraints (Inconsistency).             *)
(*                                                                         *)
(* Beliefs are kept as integer log-odds; Prob gives the probability of     *)
(* each, Scale being 1.0.  A dependency's weight times its confidence      *)
(* times the damping is in units of 1 / WeightScale.  Dependencies and     *)
(* constraints are only ever set up before the engine runs.                *)
(***************************************************************************)
EXTENDS Integers, Sequences, SequencesExt, FiniteSets, FiniteSetsExt, RustStd

CONSTANTS
  Markets,
  LogOdds,       \* the log-odds that events carry
  MaxLogOdds,    \* the clamp of log_odds_to_prob
  Prob(_),       \* the probability of a log-odds
  Scale, WeightScale,
  Dependencies,  \* a sequence of [parent, child, weight]
  Constraints,   \* a set of [kind, markets, tolerance]
  GraphUpdates,  \* the GraphUpdates received: [source, nodes]
  MaxHops,       \* max_propagation_hops
  Threshold,     \* propagation_threshold
  MinSignalEdge  \* min_signal_edge

VARIABLES
  state,   \* market -> [current, price]
  out,     \* the events published by the last step
  hist     \* market -> the belief that a reader of the events has

vars == <<state, out, hist>>

\* None for a price
Unpriced == 99
NewVariable(lo) == [current |-> lo, price |-> Unpriced]

Scaled(w, d) == IF w * d >= 0 THEN (w * d) \div WeightScale ELSE -((-(w * d)) \div WeightScale)
ClampLo(lo) == MaxOf(-MaxLogOdds, MinOf(lo, MaxLogOdds))

----------------------------------------------------------------------------
\* One queue entry of the breadth-first pass: the dependencies of its market
\* in order, each child moved at most once.
Expand(pass, entry) ==
  LET follow(acc, d) ==
        LET delta == Scaled(d.weight, entry.delta)
            known == d.child \in DOMAIN acc.vars
            lo == ClampLo(acc.vars[d.child].current + delta)
        IN IF d.parent # entry.market \/ d.child \in acc.visited \/ Magnitude(delta) < Threshold THEN acc
           ELSE [vars |-> IF known THEN [acc.vars EXCEPT ![d.child].current = lo] ELSE acc.vars,
                 updated |-> IF known THEN Insert(acc.updated, d.child, lo) ELSE acc.updated,
                 visited |-> acc.visited \cup {d.child},
                 queue |-> Append(acc.queue, [market |-> d.child, delta |-> delta, hop |-> entry.hop + 1])]
  IN FoldLeft(follow, pass, Dependencies)

RECURSIVE Bfs(_)
Bfs(pass) ==
  IF pass.queue = <<>> THEN pass
  ELSE LET entry == pass.queue[1]
           rest == [pass EXCEPT !.queue = Tail(@)]
       IN Bfs(IF entry.hop >= MaxHops THEN rest ELSE Expand(rest, entry))

\* Mutant: a change too small to go on is not reported either.
PropagateUpdate_Quiet(variables, source, old, new) ==
  LET pass == [vars |-> variables, updated |-> EmptyMap, visited |-> {source}, queue |-> <<>>]
  IN IF Magnitude(new - old) < Threshold THEN pass
     ELSE Bfs([pass EXCEPT !.updated = Insert(EmptyMap, source, new),
                           !.queue = <<[market |-> source, delta |-> new - old, hop |-> 0]>>])

\* The source is reported, moved or not.
PropagateUpdate(variables, source, old, new) ==
  LET pass == [vars |-> variables, updated |-> Insert(EmptyMap, source, new), visited |-> {source},
               queue |-> <<>>]
  IN IF Magnitude(new - old) < Threshold THEN pass
     ELSE Bfs([pass EXCEPT !.queue = <<[market |-> source, delta |-> new - old, hop |-> 0]>>])

----------------------------------------------------------------------------
Violation(c, p) ==
  LET last == p[Len(p)]
      inputs == {p[i] : i \in 1..(Len(p) - 1)}
  IN CASE c.kind \in {"exclusive", "sum"} -> Magnitude(FoldLeft(+, 0, p) - Scale)
       [] c.kind = "and" -> IF inputs = {} THEN 0 ELSE MaxOf(0, last - Min(inputs))
       [] c.kind = "or" -> IF inputs = {} THEN 0 ELSE MaxOf(0, Max(inputs) - last)

\* Constraints on a market without a belief are skipped.
CheckConstraints(variables) ==
  LET probs(c) == [i \in DOMAIN c.markets |-> Prob(variables[c.markets[i]].current)]
      checked == {c \in Constraints : \A i \in DOMAIN c.markets : c.markets[i] \in DOMAIN variables}
  IN {[kind |-> "Inconsistency", constraint |-> c.kind, magnitude |-> Violation(c, probs(c))]
        : c \in {d \in checked : Violation(d, probs(d)) > d.tolerance}}

CollectSignals(variables, updated) ==
  LET edge(m) == Prob(updated[m]) - Prob(variables[m].price)
      priced == {m \in DOMAIN updated : m \in DOMAIN variables /\ variables[m].price # Unpriced}
  IN {[kind |-> "WorldSignal", market |-> m, edge |-> edge(m)]
        : m \in {k \in priced : Magnitude(edge(k)) >= MinSignalEdge}}

Publish(source, pass) ==
  {[kind |-> "WorldProbability", source |-> source, updated |-> pass.updated]}
    \cup CollectSignals(pass.vars, pass.updated) \cup CheckConstraints(pass.vars)

\* What a reader of the events makes of an update.
Read(known, updated) ==
  [m \in DOMAIN known \cup DOMAIN updated |-> GetOr(updated, m, GetOr(known, m, 0))]

----------------------------------------------------------------------------
Init ==
  /\ state = EmptyMap
  /\ out = {}
  /\ hist = EmptyMap

\* A market not seen before starts at even odds.
OnPosterior(m, lo, price) ==
  LET v == GetOr(state, m, NewVariable(0))
      set == Insert(state, m, [current |-> lo, price |-> IF price = Unpriced THEN v.price ELSE price])
      pass == PropagateUpdate(set, m, v.current, lo)
  IN /\ state' = pass.vars
     /\ out' = Publish(m, pass)
     /\ hist' = Read(hist, pass.updated)

\* The implied probabilities become belief and market price; a source not
\* seen before ends the handler there.
OnGraphUpdate(u) ==
  LET set == [m \in DOMAIN state \cup DOMAIN u.nodes |->
                IF m \in DOMAIN u.nodes THEN [current |-> u.nodes[m], price |-> u.nodes[m]] ELSE state[m]]
      pass == PropagateUpdate(set, u.source, state[u.source].current, set[u.source].current)
      read == Read(hist, u.nodes)
  IN IF DOMAIN u.nodes = {} THEN out' = {} /\ UNCHANGED <<state, hist>>
     ELSE IF u.source \notin DOMAIN state
     THEN state' = set /\ out' = {} /\ hist' = read
     ELSE /\ state' = pass.vars
          /\ out' = Publish(u.source, pass)
          /\ hist' = Read(read, pass.updated)

\* A market price is the belief of a market without one.
OnMarketUpdate(m, lo) ==
  LET v == GetOr(state, m, NewVariable(lo))
  IN /\ state' = Insert(state, m, [v EXCEPT !.price = lo])
     /\ out' = CheckConstraints(Insert(state, m, [v EXCEPT !.price = lo]))
     /\ hist' = IF m \in DOMAIN hist THEN hist ELSE Insert(hist, m, lo)

Next ==
  \/ \E m \in Markets, lo \in LogOdds, price \in LogOdds \cup {Unpriced} : OnPosterior(m, lo, price)
  \/ \E u \in GraphUpdates : OnGraphUpdate(u)
  \/ \E m \in Markets, lo \in LogOdds : OnMarketUpdate(m, lo)

----------------------------------------------------------------------------
(***************************************************************************)
(* Properties.                                                             *)
(***************************************************************************)
\* Who reads the Posterior's outcome, the GraphUpdates and the first prices
\* from the bus knows every belief: the WorldProbability of a pass leaves
\* out no market that the pass moved, over cycles and diamonds too.
BeliefsArePublished == hist = [m \in DOMAIN state |-> state[m].current]
=============================================================================
