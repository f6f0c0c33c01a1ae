---------------------------- MODULE MarketGraph ----------------------------
(***************************************************************************)
(* crates/market_graph: the dependency graph of the markets, and the task  *)
(* that pushes price changes through it.                                   *)
(*                                                                         *)
(* A market's node has the price last observed and the probability implied *)
(* by its neighbours.  A Market event that moves a price starts a breadth- *)
(* first pass over the outgoing edges under the engine's write lock: here  *)
(* one step per edge, with task saying how far the pass has got.           *)
(*                                                                         *)
(* Probabilities are ticks, Scale ticks being 1.0, and edges[<<a, b>>] is  *)
(* weight * confidence * damping_factor in units of 1 / WeightScale; edges *)
(* from RelationshipDiscovered do not decay.  Volumes, positions, tags and *)
(* times are left out: the pass does not read them.  The edges of a node   *)
(* are followed in any order: petgraph's is that of their insertion.       *)
(***************************************************************************)
EXTENDS Integers, Sequences, FiniteSets, Functions, RustStd

CONSTANTS
  Markets,
  Scale,                  \* ticks in 1.0
  Probs,                  \* the prices that Market events carry
  WeightScale,            \* units in a weight of 1.0
  Alike, Opposed,         \* how strong the positive and the negative weights of
                          \* discovered edges are, damped
  ChangeThreshold,        \* change_threshold, in ticks
  ConvergenceThreshold,   \* convergence_threshold, in ticks
  MaxDepth,               \* max_depth
  MaxEdges                \* bound on the edges discovered

\* The assumption on the constants, made in Standalone.
GraphConstants ==
  /\ IsFiniteSet(Markets)
  /\ Scale \in Nat \ {0} /\ Probs \subseteq 0..Scale
  /\ WeightScale \in Nat \ {0} /\ Alike \cup Opposed \subseteq 0..WeightScale
  /\ ChangeThreshold \in Nat /\ ConvergenceThreshold \in Nat \ {0}
  /\ MaxDepth \in Nat /\ MaxEdges \in Nat

VARIABLES
  state,     \* [nodes, edges, task]: market -> [current_prob, implied_prob],
             \* <<from, to>> -> weight, and where the task is
  out,       \* the GraphUpdate published by the last step
  hist       \* history: the nodes before the pass

vars == <<state, out, hist>>

Recv == [at |-> "recv"]
Nothing == [source |-> "", node_updates |-> EmptyMap]

Weights == Alike \cup {-w : w \in Opposed}

\* a * b / WeightScale, towards zero.
Weighted(a, b) == IF a * b >= 0 THEN (a * b) \div WeightScale
                                ELSE -((-(a * b)) \div WeightScale)

ClampProb(p) == MinOf(MaxOf(p, 0), Scale)

Dependents(m) == {e[2] : e \in {d \in DOMAIN state.edges : d[1] = m}}

----------------------------------------------------------------------------
(***************************************************************************)
(* The handlers of the run loop.                                           *)
(***************************************************************************)

Init ==
  /\ state = [nodes |-> EmptyMap, edges |-> EmptyMap, task |-> Recv]
  /\ out = Nothing /\ hist = EmptyMap

Idle == state.task = Recv
Passing == state.task.at = "propagate"

\* First sighting of a market: a node, and no GraphUpdate.
OnNewMarket(m, prob) ==
  /\ Idle /\ m \notin DOMAIN state.nodes
  /\ state' = [state EXCEPT !.nodes = Insert(@, m, [current_prob |-> prob, implied_prob |-> prob])]
  /\ out' = Nothing
  /\ UNCHANGED hist

\* A pass begins at m with the delta to push.
Seed(m, delta) ==
  [at      |-> "propagate", source |-> m,
   queue   |-> <<[node |-> m, delta |-> delta, depth |-> 0]>>,
   todo    |-> {},           \* edges of Head(queue) yet to follow
   open    |-> FALSE,        \* Head(queue) has been taken up
   changes |-> EmptyMap]     \* node_probs: market -> [old, new]

Drift(m, prob) == prob - state.nodes[m].implied_prob

\* update_and_propagate starts a pass if the step from the last price and the
\* distance to the implied probability both reach the threshold.
Starts(m, prob) ==
  /\ Magnitude(prob - state.nodes[m].current_prob) >= ChangeThreshold
  /\ Magnitude(Drift(m, prob)) >= ChangeThreshold

\* Event::Market of a known market: the price is recorded, and if a pass starts
\* it is the source's implied probability too.
OnKnownMarket(m, prob) ==
  /\ Idle /\ m \in DOMAIN state.nodes
  /\ IF Starts(m, prob)
     THEN /\ state' = [state EXCEPT
               !.nodes[m] = [current_prob |-> prob, implied_prob |-> prob],
               !.task     = Seed(m, Drift(m, prob))]
          /\ hist' = state.nodes
     ELSE /\ state' = [state EXCEPT !.nodes[m].current_prob = prob]
          /\ UNCHANGED hist
  /\ out' = Nothing

\* Event::RelationshipDiscovered: add or update an edge if both ends are known.
OnRelationship(from, to, weight) ==
  /\ Idle
  /\ Cardinality(DOMAIN state.edges \cup {<<from, to>>}) <= MaxEdges
  /\ state' = IF {from, to} \subseteq DOMAIN state.nodes
              THEN [state EXCEPT !.edges = Insert(@, <<from, to>>, weight)] ELSE state
  /\ out' = Nothing
  /\ UNCHANGED hist

\* The next task of the queue is taken up, or dropped at the depth limit.
TakeUp ==
  LET job == Head(state.task.queue)
  IN  /\ Passing /\ ~state.task.open /\ state.task.queue # <<>>
      /\ state' = [state EXCEPT
           !.task.open = TRUE,
           !.task.todo = IF job.depth >= MaxDepth THEN {} ELSE Dependents(job.node)]
      /\ out' = Nothing
      /\ UNCHANGED hist

\* Mutant: the old probability of a change is that of its last hop.
Noted_LastHop(changes, to, old, new) == Insert(changes, to, [old |-> old, new |-> new])

\* node_probs keeps the first old and the last new probability of a node.
Noted(changes, to, old, new) ==
  Insert(changes, to, [old |-> IF to \in DOMAIN changes THEN changes[to].old ELSE old,
                       new |-> new])

NewImplied(to, change) == ClampProb(state.nodes[to].implied_prob + change)

\* One outgoing edge of the task taken up.
Follow(to) ==
  LET job    == Head(state.task.queue)
      change == Weighted(state.edges[<<job.node, to>>], job.delta)
      old    == state.nodes[to].implied_prob
      new    == NewImplied(to, change)
  IN  /\ Passing /\ to \in state.task.todo
      /\ IF Magnitude(change) < ConvergenceThreshold \/ Magnitude(new - old) < ConvergenceThreshold
         THEN state' = [state EXCEPT !.task.todo = @ \ {to}]
         ELSE state' = [state EXCEPT
                !.nodes[to].implied_prob = new,
                !.task.todo    = @ \ {to},
                !.task.changes = Noted(@, to, old, new),
                !.task.queue   = Append(@, [node |-> to, delta |-> new - old, depth |-> job.depth + 1])]
      /\ out' = Nothing
      /\ UNCHANGED hist

\* The task taken up is done.
Drop ==
  /\ Passing /\ state.task.open /\ state.task.todo = {}
  /\ state' = [state EXCEPT !.task.open = FALSE, !.task.queue = Tail(@)]
  /\ out' = Nothing
  /\ UNCHANGED hist

\* The queue is empty: a GraphUpdate tells of the nodes that were updated.
Publish ==
  /\ Passing /\ state.task.queue = <<>>
  /\ out' = IF state.task.changes = EmptyMap THEN Nothing
            ELSE [source |-> state.task.source, node_updates |-> state.task.changes]
  /\ state' = [state EXCEPT !.task = Recv]
  /\ hist' = EmptyMap

Next ==
  \/ \E m \in Markets, prob \in Probs : OnNewMarket(m, prob) \/ OnKnownMarket(m, prob)
  \/ \E from, to \in Markets, weight \in Weights : from # to /\ OnRelationship(from, to, weight)
  \/ TakeUp
  \/ \E to \in Markets : Follow(to)
  \/ Drop
  \/ Publish

Spec == Init /\ [][Next]_vars

----------------------------------------------------------------------------
(***************************************************************************)
(* Properties.                                                             *)
(***************************************************************************)

Node == [current_prob : 0..Scale, implied_prob : 0..Scale]

\* Every probability stays in [0, 1], whatever is added along the edges; edges
\* join known markets; the pass works on the nodes of the graph.
TypeOK ==
  LET task == state.task
  IN  /\ IsMap(state.nodes, Markets, Node)
      /\ IsMap(state.edges, (DOMAIN state.nodes) \X (DOMAIN state.nodes), Weights)
      /\ task.at \in {"recv", "propagate"}
      /\ Passing =>
           /\ task.source \in DOMAIN state.nodes /\ DOMAIN hist = DOMAIN state.nodes
           /\ \A i \in DOMAIN task.queue : /\ task.queue[i].node \in DOMAIN state.nodes
                                           /\ task.queue[i].delta \in (-Scale)..Scale
                                           /\ task.queue[i].depth \in 0..MaxDepth
           /\ task.open => task.queue # <<>>
           /\ task.todo # {} => task.open /\ task.todo \subseteq Dependents(Head(task.queue).node)
           /\ IsMap(task.changes, DOMAIN state.nodes, [old : 0..Scale, new : 0..Scale])

\* The markets within n hops of m.
Within(m) == LET f[n \in 0..MaxDepth] ==
                   IF n = 0 THEN {m}
                   ELSE f[n - 1] \cup UNION {Dependents(k) : k \in f[n - 1]}
             IN  f

\* A pass tells the truth, and all of it: when it ends, every market but the
\* source has the implied probability it had before the pass or is reported,
\* with the one it had before and the one it has now, however many paths and
\* cycles led to it; and it lies within MaxDepth hops of the source.
UpdateIsComplete ==
  Publish =>
    \A m \in (DOMAIN state.nodes) \ {state.task.source} :
      IF m \in DOMAIN out'.node_updates
      THEN /\ out'.node_updates[m] = [old |-> hist[m].implied_prob,
                                      new |-> state.nodes[m].implied_prob]
           /\ m \in Within(state.task.source)[MaxDepth]
      ELSE state.nodes[m].implied_prob = hist[m].implied_prob

\* The source of a pass is ground truth unless a cycle leads back to it.
SourceIsGroundTruth ==
  LET m == state.task.source
  IN  Publish /\ (\A k \in Within(m)[MaxDepth] : m \notin Dependents(k)) =>
        /\ state.nodes[m].implied_prob = state.nodes[m].current_prob
        /\ m \notin DOMAIN out'.node_updates
=============================================================================
