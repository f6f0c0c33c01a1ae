-------------------------- MODULE StrategyResearch --------------------------
(***************************************************************************)
(* crates/strategy_research: the research cycle.  A batch of hypotheses is *)
(* backtested by tasks of which at most MaxParallel run at a time; the     *)
(* engine collects them in the order it spawned them, and the registry     *)
(* keeps the best.  While a cycle runs the engine takes in nothing else.   *)
(*                                                                         *)
(* Backtest models one backtest; here its outcome is any metrics.  Ids are *)
(* <<cycle, index>>: the code draws random UUIDs.                          *)
(***************************************************************************)
EXTENDS Integers, Sequences, FiniteSets, FiniteSetsExt, RustStd

CONSTANTS
  BatchSize,    \* batch_size
  Outcomes,     \* what a backtest may give: [sharpe, max_drawdown, trades]
  MinSharpe,    \* min_sharpe
  MaxDrawdown,  \* max_drawdown
  MinTrades,    \* min_trades
  Capacity,     \* registry_capacity
  MaxParallel,  \* max_parallel_backtests
  MaxCycles     \* bound: the research cycles

\* registry_capacity and batch_size are usize.
ResearchConstants ==
  Capacity \in Nat /\ BatchSize \in Nat /\ \A o \in Outcomes : o.sharpe \in Int

VARIABLES
  state,   \* [cycle, tasks, next, registry]
  out,     \* the StrategyDiscovered events published by the last step
  hist     \* the candidates that met the criteria, with their Sharpe ratio

vars == <<state, out, hist>>

Waiting == [at |-> "waiting"]
Running == [at |-> "running"]

Init ==
  /\ state = [cycle |-> 0, tasks |-> <<>>, next |-> 1, registry |-> EmptyMap]
  /\ out = <<>>
  /\ hist = {}

Idle == state.next > Len(state.tasks)

StartCycle ==
  /\ Idle /\ state.cycle < MaxCycles
  /\ state' = [state EXCEPT !.cycle = @ + 1, !.next = 1,
                            !.tasks = [i \in 1..BatchSize |-> Waiting]]
  /\ out' = <<>> /\ UNCHANGED hist

At(where) == {i \in DOMAIN state.tasks : state.tasks[i].at = where}

\* A task gets a permit.
Acquire(i) ==
  /\ i \in At("waiting") /\ Cardinality(At("running")) < MaxParallel
  /\ state' = [state EXCEPT !.tasks[i] = Running]
  /\ out' = <<>> /\ UNCHANGED hist

\* The blocking task ends or panics; either way its permit is released.
Finish(i) ==
  /\ i \in At("running")
  /\ \/ \E o \in Outcomes : state' = [state EXCEPT !.tasks[i] = [at |-> "done", metrics |-> o]]
     \/ state' = [state EXCEPT !.tasks[i] = [at |-> "panicked"]]
  /\ out' = <<>> /\ UNCHANGED hist

MeetsPromotionCriteria(o) ==
  o.sharpe >= MinSharpe /\ o.max_drawdown <= MaxDrawdown /\ o.trades >= MinTrades

\* Mutant: a full registry drops any strategy that the candidate beats.
Worst_Any(registry, sharpe) ==
  {k \in DOMAIN registry : registry[k] < sharpe}

\* The strategies that a full registry may drop for the candidate.
Worst(registry, sharpe) ==
  {k \in DOMAIN registry : registry[k] < sharpe /\ \A j \in DOMAIN registry : registry[k] <= registry[j]}

\* A full registry takes a candidate only in place of a worse one.
TryInsert(registry, id, sharpe) ==
  IF Cardinality(DOMAIN registry) < Capacity THEN {Insert(registry, id, sharpe)}
  ELSE IF Worst(registry, sharpe) = {} THEN {registry}
  ELSE {Insert(RemoveAll(registry, {k}), id, sharpe) : k \in Worst(registry, sharpe)}

\* The engine awaits its tasks one after the other.
Collect ==
  /\ ~Idle
  /\ LET task == state.tasks[state.next]
         id == <<state.cycle, state.next>>
     IN \/ /\ task.at = "panicked" \/ (task.at = "done" /\ ~MeetsPromotionCriteria(task.metrics))
           /\ state' = [state EXCEPT !.next = @ + 1]
           /\ out' = <<>> /\ UNCHANGED hist
        \/ /\ task.at = "done" /\ MeetsPromotionCriteria(task.metrics)
           /\ \E r \in TryInsert(state.registry, id, task.metrics.sharpe) :
                /\ state' = [state EXCEPT !.next = @ + 1, !.registry = r]
                /\ out' = IF id \in DOMAIN r THEN <<[id |-> id, sharpe |-> r[id]]>> ELSE <<>>
           /\ hist' = hist \cup {[id |-> id, sharpe |-> task.metrics.sharpe]}

Next ==
  \/ StartCycle
  \/ \E i \in 1..BatchSize : Acquire(i) \/ Finish(i)
  \/ Collect

Spec == Init /\ [][Next]_vars

----------------------------------------------------------------------------
(***************************************************************************)
(* Properties.                                                             *)
(***************************************************************************)
\* The registry always holds the best strategies that ever met the criteria,
\* as many as it has room for, whatever the order in which tasks ended and
\* candidates pushed each other out.
RegistryKeepsTheBest ==
  LET kept == {c \in hist : c.id \in DOMAIN state.registry}
  IN /\ Cardinality(DOMAIN state.registry) = MinOf(Capacity, Cardinality(hist))
     /\ Cardinality(kept) = Cardinality(DOMAIN state.registry)
     /\ \A c \in hist \ kept, k \in kept : c.sharpe <= k.sharpe
=============================================================================
