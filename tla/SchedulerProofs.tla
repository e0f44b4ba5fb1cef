-------------------------- MODULE SchedulerProofs --------------------------
(***************************************************************************)
(* Proofs about modules WorkQueue and Scheduler, for every set of graphs   *)
(* over any finite set of nodes: what a step leaves in flight, what a      *)
(* success stands for, what is spent, which nodes may run and which nodes  *)
(* are decided when a run is over.  Then proofs about the leases of the    *)
(* same crate (module Leases), which share no state with the scheduler.    *)
(***************************************************************************)
EXTENDS Scheduler, Leases, FiniteSetTheorems, WellFoundedInduction, TLAPS

-----------------------------------------------------------------------------
(***************************************************************************)
(* The operators of the work queue return queues, and none of them but     *)
(* mark_in_progress adds a node to the nodes in flight.                    *)
(***************************************************************************)

\* r is a queue with at most the nodes in flight that q has.
Shrinks(r, q) == r \in Queues /\ r.in_progress \subseteq q.in_progress

LEMMA EdgesType ==
    ASSUME NEW g \in Graphs
    PROVE  /\ g.edges \subseteq EdgeType
           /\ IsFiniteSet(g.edges)
           /\ \A e \in g.edges : e.from \in Nodes /\ e.to \in Nodes /\ e.ix \in Nat
BY GraphsAssumption DEF EdgeType

LEMMA TargetsType ==
    ASSUME NEW g \in Graphs, NEW edges \in SUBSET g.edges
    PROVE  Targets(edges) \subseteq Nodes
BY EdgesType DEF Targets

LEMMA NewQueueType ==
    ASSUME NEW g \in Graphs
    PROVE  NewQueue(g) \in Queues /\ NewQueue(g).in_progress = {}
BY DEF NewQueue, Queues

LEMMA ActivateShrinks ==
    ASSUME NEW g \in Graphs, NEW q \in Queues, NEW from \in Nodes,
           NEW targets \in SUBSET Nodes
    PROVE  Shrinks(Activate(g, q, from, targets), q)
<1> DEFINE new == {t \in targets : <<from, t>> \notin q.activated}
           satisfied == [n \in Nodes |-> q.satisfied[n] + IF n \in new THEN 1 ELSE 0]
           more == {t \in new : /\ satisfied[t] = total_incoming[g][t]
                                /\ t \notin q.completed \union q.failed}
           q1 == [q EXCEPT !.activated = @ \union ({from} \X new)]
           q2 == [q1 EXCEPT !.satisfied = satisfied]
<1>1. q.satisfied \in [Nodes -> Nat]
  BY DEF Queues
<1>2. satisfied \in [Nodes -> Nat] /\ more \in SUBSET Nodes
  BY <1>1
<1>3. {from} \X new \in SUBSET (Nodes \X Nodes)
  OBVIOUS
<1>4. q1 \in Queues /\ q1.in_progress = q.in_progress
  <2> HIDE DEF new
  <2> QED BY <1>3 DEF Queues
<1>5. q2 \in Queues /\ q2.in_progress = q.in_progress
  <2> HIDE DEF q1, satisfied
  <2> QED BY <1>2, <1>4 DEF Queues
<1>6. Activate(g, q, from, targets) = [q2 EXCEPT !.ready = @ \union more]
  BY DEF Activate
<1> HIDE DEF q2, more
<1> QED BY <1>2, <1>5, <1>6 DEF Queues, Shrinks

LEMMA ActivateEdgesShrinks ==
    ASSUME NEW g \in Graphs, NEW q \in Queues, NEW from \in Nodes,
           NEW targets \in SUBSET Nodes
    PROVE  Shrinks(activate_edges(g, q, from, targets), q)
<1> DEFINE back == {t \in targets : <<from, t>> \in back_edges[g]}
           r == Activate(g, q, from, targets \ back)
<1>1. Shrinks(r, q)
  BY ActivateShrinks
<1>2. activate_edges(g, q, from, targets) = [r EXCEPT !.ready = @ \union back]
  BY DEF activate_edges
<1>3. back \in SUBSET Nodes
  OBVIOUS
<1> HIDE DEF r, back
<1> QED BY <1>1, <1>2, <1>3 DEF Shrinks, Queues

LEMMA MarkConditionalShrinks ==
    ASSUME NEW q \in Queues, NEW n \in Nodes
    PROVE  /\ Shrinks(mark_conditional_completed(q, n), q)
           /\ n \notin mark_conditional_completed(q, n).in_progress
<1> DEFINE q1 == [q EXCEPT !.completed = @ \union {n}]
           q2 == [q1 EXCEPT !.in_progress = @ \ {n}]
<1>1. q1 \in Queues /\ q1.in_progress = q.in_progress
  BY DEF Queues
<1>2. q2 \in Queues /\ q2.in_progress = q.in_progress \ {n}
  <2> HIDE DEF q1
  <2> QED BY <1>1 DEF Queues
<1>3. mark_conditional_completed(q, n) = [q2 EXCEPT !.ready = @ \ {n}]
  BY DEF mark_conditional_completed
<1> HIDE DEF q2
<1> QED BY <1>2, <1>3 DEF Queues, Shrinks

LEMMA MarkCompletedShrinks ==
    ASSUME NEW g \in Graphs, NEW q \in Queues, NEW n \in Nodes
    PROVE  /\ Shrinks(mark_completed(g, q, n), q)
           /\ n \notin mark_completed(g, q, n).in_progress
<1> DEFINE r == mark_conditional_completed(q, n)
<1>1. Shrinks(r, q) /\ n \notin r.in_progress
  BY MarkConditionalShrinks
<1>2. Targets(outgoing(g, n)) \in SUBSET Nodes
  BY TargetsType DEF outgoing
<1>3. Shrinks(try_activate_downstream(g, r, n), r)
  <2> HIDE DEF r
  <2>1. CASE n \in selective_sources(g)
    BY <1>1, <2>1 DEF try_activate_downstream, Shrinks
  <2>2. CASE n \notin selective_sources(g)
    BY <1>1, <1>2, <2>2, ActivateShrinks DEF try_activate_downstream, Shrinks
  <2> QED BY <2>1, <2>2
<1> QED BY <1>1, <1>3 DEF mark_completed, Shrinks

LEMMA MarkFailedShrinks ==
    ASSUME NEW q \in Queues, NEW nodes \in SUBSET Nodes
    PROVE  /\ Shrinks(mark_failed(q, nodes), q)
           /\ mark_failed(q, nodes).in_progress \intersect nodes = {}
<1> DEFINE q1 == [q EXCEPT !.failed = @ \union nodes]
           q2 == [q1 EXCEPT !.in_progress = @ \ nodes]
<1>1. q1 \in Queues /\ q1.in_progress = q.in_progress
  BY DEF Queues
<1>2. q2 \in Queues /\ q2.in_progress = q.in_progress \ nodes
  <2> HIDE DEF q1
  <2> QED BY <1>1 DEF Queues
<1>3. mark_failed(q, nodes) = [q2 EXCEPT !.ready = @ \ nodes]
  BY DEF mark_failed
<1> HIDE DEF q2
<1> QED BY <1>2, <1>3 DEF Queues, Shrinks

LEMMA MarkInProgressType ==
    ASSUME NEW q \in Queues, NEW nodes \in SUBSET Nodes
    PROVE  /\ mark_in_progress(q, nodes) \in Queues
           /\ mark_in_progress(q, nodes).in_progress = q.in_progress \union nodes
<1> DEFINE q1 == [q EXCEPT !.in_progress = @ \union nodes]
<1>1. q1 \in Queues /\ q1.in_progress = q.in_progress \union nodes
  BY DEF Queues
<1>2. mark_in_progress(q, nodes) = [q1 EXCEPT !.ready = @ \ nodes]
  BY DEF mark_in_progress
<1> HIDE DEF q1
<1> QED BY <1>1, <1>2 DEF Queues

LEMMA StillSatisfiedType ==
    ASSUME NEW g \in Graphs, NEW q, NEW l, NEW n
    PROVE  StillSatisfied(g, q, l, n) \in Nat
<1> DEFINE counted == {e \in incoming(g, n) :
                         /\ e.from \in q.completed \ ResetSoFar(g, l, n)
                         /\ <<e.from, n>> \in q.activated}
<1>1. counted \subseteq g.edges /\ IsFiniteSet(g.edges)
  BY EdgesType DEF incoming
<1>2. IsFiniteSet(counted)
  BY <1>1, FS_Subset
<1> QED BY <1>2, FS_CardinalityType DEF StillSatisfied

LEMMA ResetLoopBodyShrinks ==
    ASSUME NEW g \in Graphs, NEW q \in Queues, NEW l
    PROVE  Shrinks(reset_loop_body(g, q, l), q)
<1> DEFINE body == Targets(BodyEdges(g, l))
           satisfied == [n \in Nodes |-> IF n \in body THEN StillSatisfied(g, q, l, n)
                                                       ELSE q.satisfied[n]]
           more == {n \in body : /\ StillSatisfied(g, q, l, n) = total_incoming[g][n]
                                 /\ StillSatisfied(g, q, l, n) > 0}
           q1 == [q EXCEPT !.completed = @ \ body]
           q2 == [q1 EXCEPT !.in_progress = @ \ body]
           q3 == [q2 EXCEPT !.failed = @ \ body]
           q4 == [q3 EXCEPT !.satisfied = satisfied]
<1>1. body \in SUBSET Nodes
  BY TargetsType DEF BodyEdges, outgoing
<1>2. satisfied \in [Nodes -> Nat]
  <2>1. q.satisfied \in [Nodes -> Nat]
    BY DEF Queues
  <2> QED BY <2>1, StillSatisfiedType
<1>3. more \in SUBSET Nodes
  BY <1>1
<1>4. q1 \in Queues /\ q1.in_progress = q.in_progress
  BY DEF Queues
<1>5. q2 \in Queues /\ q2.in_progress = q.in_progress \ body
  <2> HIDE DEF q1, body
  <2> QED BY <1>4 DEF Queues
<1>6. q3 \in Queues /\ q3.in_progress = q.in_progress \ body
  <2> HIDE DEF q2, body
  <2> QED BY <1>5 DEF Queues
<1>7. q4 \in Queues /\ q4.in_progress = q.in_progress \ body
  <2> HIDE DEF q3, body, satisfied
  <2> QED BY <1>2, <1>6 DEF Queues
<1>8. reset_loop_body(g, q, l) = [q4 EXCEPT !.ready = (@ \ body) \union more]
  BY DEF reset_loop_body
<1> HIDE DEF q4, body, more
<1> QED BY <1>3, <1>7, <1>8 DEF Queues, Shrinks

LEMMA ResetReadyShrinks ==
    ASSUME NEW q \in Queues, NEW n \in Nodes
    PROVE  Shrinks(reset_ready(q, n), q)
<1> DEFINE q1 == [q EXCEPT !.completed = @ \ {n}]
           q2 == [q1 EXCEPT !.in_progress = @ \ {n}]
           q3 == [q2 EXCEPT !.failed = @ \ {n}]
<1>1. q1 \in Queues /\ q1.in_progress = q.in_progress
  BY DEF Queues
<1>2. q2 \in Queues /\ q2.in_progress = q.in_progress \ {n}
  <2> HIDE DEF q1
  <2> QED BY <1>1 DEF Queues
<1>3. q3 \in Queues /\ q3.in_progress = q.in_progress \ {n}
  <2> HIDE DEF q2
  <2> QED BY <1>2 DEF Queues
<1>4. reset_ready(q, n) = [q3 EXCEPT !.ready = @ \union {n}]
  BY DEF reset_ready
<1> HIDE DEF q3
<1> QED BY <1>3, <1>4 DEF Queues, Shrinks

LEMMA LessRelated ==
    ASSUME NEW x \in Nat, NEW y \in Nat, x < y
    PROVE  <<x, y>> \in OpToRel(<, Nat)
BY Zenon DEF OpToRel

LEMMA LeastExists ==
    ASSUME NEW S \in SUBSET Nat, S # {}
    PROVE  \E i \in S : \A j \in S : i <= j
<1>1. PICK i \in S : \A j \in S : ~(<<j, i>> \in OpToRel(<, Nat))
  BY NatLessThanWellFounded, WFMin, Zenon
<1>2. ASSUME NEW j \in S, j < i PROVE FALSE
  <2>1. i \in Nat /\ j \in Nat
    OBVIOUS
  <2>2. <<j, i>> \in OpToRel(<, Nat)
    BY <1>2, <2>1, LessRelated, Zenon
  <2> QED BY <1>1, <2>2, Zenon
<1> QED BY <1>2

\* Back-edges lead to loop heads.
LEMMA BackEdgesToLoops ==
    ASSUME NEW g \in Graphs, NEW from, NEW to, <<from, to>> \in back_edges[g]
    PROVE  g.kind[to] = "Loop"
BY DEF back_edges, IsBackEdge

\* A node with an outgoing back-edge has a first one, whose target is a loop head.
LEMMA LoopBackTargetType ==
    ASSUME NEW g \in Graphs, NEW n \in Nodes, has_loop_back_edge(g, n)
    PROVE  /\ loop_back_target(g, n) \in Nodes
           /\ g.kind[loop_back_target(g, n)] = "Loop"
<1> DEFINE back == {e \in outgoing(g, n) : <<n, e.to>> \in back_edges[g]}
           ixs == {e.ix : e \in back}
<1>1. back # {} /\ back \subseteq g.edges
  BY DEF has_loop_back_edge, outgoing
<1>2. ixs # {} /\ ixs \subseteq Nat
  BY <1>1, EdgesType
<1>3. PICK i \in ixs : \A j \in ixs : i <= j
  <2> HIDE DEF ixs
  <2> QED BY <1>2, LeastExists
<1>5. \E e \in back : \A d \in back : e.ix <= d.ix
  BY <1>3
<1>6. (CHOOSE e \in back : \A d \in back : e.ix <= d.ix) \in back
  <2> HIDE DEF back
  <2> QED BY <1>5
<1> QED BY <1>1, <1>6, EdgesType, BackEdgesToLoops DEF loop_back_target

-----------------------------------------------------------------------------
(***************************************************************************)
(* The scheduler.                                                          *)
(***************************************************************************)
LEMMA InitInv == Init => SchedInv
<1> SUFFICES ASSUME Init PROVE SchedInv
  OBVIOUS
<1>1. queue \in Queues /\ queue.in_progress = {}
  BY NewQueueType DEF Init
<1>2. Todo = {} /\ results \in [Todo -> NodeExecutionResult \union {InFlight}]
  BY DEF Init, Todo
<1>3. /\ node_states \in [Nodes -> States]
      /\ outputs \in [Nodes -> Outputs \union {"absent"}]
      /\ loop_iterations \in [Nodes -> Nat]
  BY DEF Init, States
<1>4. with_envelope \in BOOLEAN /\ by_id \in BOOLEAN /\ cancelled \in BOOLEAN
  BY Zenon DEF Init
<1>5. current_iterations \in 0..MaxEnvelopeIterations
  BY SchedulerAssumption DEF Init
<1>6. TypeOK
  BY <1>1, <1>2, <1>3, <1>4, <1>5 DEF Init, TypeOK
<1>7. NothingLeftInFlight
  BY <1>1 DEF Init, NothingLeftInFlight
<1> QED BY <1>6, <1>7 DEF SchedInv

\* What TypeOK says of a result that is next to be applied.
LEMMA NextResult ==
    ASSUME TypeOK, NEW n \in Nodes, IsNext(n)
    PROVE  /\ n \in Todo /\ pc = "batch"
           /\ results[n].state \in {"Succeeded", "Failed", "Running"}
           /\ results[n].usage \in Nat
           /\ results[n].output \in Outputs
<1>1. Usages \subseteq Nat
  BY SchedulerAssumption
<1> QED BY <1>1 DEF TypeOK, IsNext, NodeExecutionResult, InFlight, Outputs

\* The counters of the accounting stay natural numbers.
LEMMA AccountType ==
    ASSUME TypeOK, NEW n \in Nodes, IsNext(n), Account(n)
    PROVE  total' \in Nat /\ spent' \in Nat
BY NextResult DEF TypeOK, Account

LEMMA RecordOutputType ==
    ASSUME TypeOK, NEW n \in Nodes, IsNext(n), RecordOutput(n)
    PROVE  outputs' \in [Nodes -> Outputs \union {"absent"}]
BY NextResult DEF TypeOK, RecordOutput

\* A step that applies the next result and takes its node out of flight.
LEMMA AppliedInv ==
    ASSUME SchedInv, NEW n \in Nodes, IsNext(n), Applied(n), Account(n),
           Shrinks(queue', queue), n \notin queue'.in_progress,
           node_states' \in [Nodes -> States],
           outputs' \in [Nodes -> Outputs \union {"absent"}],
           loop_iterations' \in [Nodes -> Nat],
           current_iterations' \in 0..MaxEnvelopeIterations
    PROVE  SchedInv'
<1>1. Todo' = Todo \ {n} /\ results' = [m \in Todo \ {n} |-> results[m]]
  BY DEF Applied, Todo
<1>2. Todo \subseteq batch_ids /\ results \in [Todo -> NodeExecutionResult \union {InFlight}]
  BY DEF SchedInv, TypeOK
<1>3. results' \in [Todo' -> NodeExecutionResult \union {InFlight}]
  <2> HIDE DEF Todo
  <2> QED BY <1>1, <1>2
<1>4. pc' \in {"head", "batch"} /\ (pc' = "head" => Todo = {n})
  BY DEF Applied
<1>5. TypeOK'
  <2>1. UNCHANGED <<graph, with_envelope, batch_ids, by_id, cancelled, outcome, used>>
    BY DEF Applied
  <2>2. queue' \in Queues /\ total' \in Nat /\ spent' \in Nat
    BY AccountType DEF SchedInv, Shrinks
  <2>3. Todo' \subseteq batch_ids'
    BY <1>1, <1>2, <2>1
  <2> QED BY <1>3, <1>4, <2>1, <2>2, <2>3 DEF SchedInv, TypeOK
<1>6. NothingLeftInFlight'
  <2>1. queue.in_progress \subseteq Todo
    BY NextResult DEF SchedInv, NothingLeftInFlight
  <2>2. queue'.in_progress \subseteq Todo'
    BY <1>1, <2>1 DEF Shrinks
  <2> QED BY <1>1, <1>4, <2>2 DEF NothingLeftInFlight
<1> QED BY <1>5, <1>6 DEF SchedInv

LEMMA ApplyConditionalInv ==
    ASSUME SchedInv, NEW n \in Nodes, ApplyConditional(n)
    PROVE  SchedInv'
<1> DEFINE matched == {e \in outgoing(graph, n) : e.condition \in {"none", results[n].output}}
           marked == mark_conditional_completed(queue, n)
<1>0. TypeOK /\ queue \in Queues /\ graph \in Graphs
  BY DEF SchedInv, TypeOK
<1>1. IsNext(n) /\ Account(n) /\ Applied(n) /\ RecordOutput(n)
  BY DEF ApplyConditional, ApplyResult
<1>2. Shrinks(marked, queue) /\ n \notin marked.in_progress
  BY <1>0, MarkConditionalShrinks
<1>3. Targets(matched) \in SUBSET Nodes
  BY <1>0, TargetsType DEF outgoing
<1>4. queue' = activate_edges(graph, marked, n, Targets(matched))
  BY DEF ApplyConditional
<1>5. Shrinks(queue', queue) /\ n \notin queue'.in_progress
  <2> HIDE DEF marked, matched
  <2> QED BY <1>0, <1>2, <1>3, <1>4, ActivateEdgesShrinks DEF Shrinks
<1>6. node_states' \in [Nodes -> States]
  BY <1>0 DEF ApplyConditional, TypeOK, States
<1>7. /\ loop_iterations' \in [Nodes -> Nat]
      /\ current_iterations' \in 0..MaxEnvelopeIterations
  BY <1>0 DEF ApplyConditional, TypeOK
<1> QED BY <1>0, <1>1, <1>5, <1>6, <1>7, AppliedInv, RecordOutputType

LEMMA ApplyLoopContinueInv ==
    ASSUME SchedInv, NEW n \in Nodes, ApplyLoopContinue(n)
    PROVE  SchedInv'
<1> DEFINE body == Targets(BodyEdges(graph, n))
           completed == mark_completed(graph, queue, n)
           reset == reset_loop_body(graph, completed, n)
<1>0. TypeOK /\ queue \in Queues /\ graph \in Graphs
  BY DEF SchedInv, TypeOK
<1>1. IsNext(n) /\ Account(n) /\ Applied(n) /\ RecordOutput(n)
  BY DEF ApplyLoopContinue, ApplyResult
<1>2. Shrinks(completed, queue) /\ n \notin completed.in_progress
  BY <1>0, MarkCompletedShrinks
<1>3. Shrinks(reset, completed)
  BY <1>0, <1>2, ResetLoopBodyShrinks DEF Shrinks
<1>4. body \in SUBSET Nodes
  BY <1>0, TargetsType DEF BodyEdges, outgoing
<1>5. queue' = activate_edges(graph, reset, n, body)
  BY DEF ApplyLoopContinue
<1>6. Shrinks(queue', queue) /\ n \notin queue'.in_progress
  <2> HIDE DEF completed, reset, body
  <2> QED BY <1>0, <1>2, <1>3, <1>4, <1>5, ActivateEdgesShrinks DEF Shrinks
<1>7. node_states' \in [Nodes -> States]
  BY <1>0 DEF ApplyLoopContinue, TypeOK, States
<1>8. loop_iterations' \in [Nodes -> Nat]
  BY <1>0 DEF ApplyLoopContinue, TypeOK
<1>9. current_iterations' \in 0..MaxEnvelopeIterations
  BY <1>0, SchedulerAssumption DEF ApplyLoopContinue, IterationsLeft, TypeOK
<1> QED BY <1>0, <1>1, <1>6, <1>7, <1>8, <1>9, AppliedInv, RecordOutputType

LEMMA ApplyLoopExitInv ==
    ASSUME SchedInv, NEW n \in Nodes, ApplyLoopExit(n)
    PROVE  SchedInv'
<1> DEFINE exits == Targets(ExitEdges(graph, n))
           completed == mark_completed(graph, queue, n)
<1>0. TypeOK /\ queue \in Queues /\ graph \in Graphs
  BY DEF SchedInv, TypeOK
<1>1. IsNext(n) /\ Account(n) /\ Applied(n) /\ RecordOutput(n)
  BY DEF ApplyLoopExit, ApplyResult
<1>2. Shrinks(completed, queue) /\ n \notin completed.in_progress
  BY <1>0, MarkCompletedShrinks
<1>3. exits \in SUBSET Nodes
  BY <1>0, TargetsType DEF ExitEdges, outgoing
<1>4. queue' = activate_edges(graph, completed, n, exits)
  BY DEF ApplyLoopExit
<1>5. Shrinks(queue', queue) /\ n \notin queue'.in_progress
  <2> HIDE DEF completed, exits
  <2> QED BY <1>0, <1>2, <1>3, <1>4, ActivateEdgesShrinks DEF Shrinks
<1>6. node_states' \in [Nodes -> States]
  BY <1>0 DEF ApplyLoopExit, TypeOK, States
<1>7. /\ loop_iterations' \in [Nodes -> Nat]
      /\ current_iterations' \in 0..MaxEnvelopeIterations
  BY <1>0 DEF ApplyLoopExit, TypeOK
<1> QED BY <1>0, <1>1, <1>5, <1>6, <1>7, AppliedInv, RecordOutputType

LEMMA ApplyTaskInv ==
    ASSUME SchedInv, NEW n \in Nodes, ApplyTask(n)
    PROVE  SchedInv'
<1>0. TypeOK /\ queue \in Queues /\ graph \in Graphs
  BY DEF SchedInv, TypeOK
<1>1. IsNext(n) /\ Account(n) /\ Applied(n) /\ RecordOutput(n)
  BY DEF ApplyTask, ApplyResult
<1>2. Shrinks(queue', queue) /\ n \notin queue'.in_progress
  BY <1>0, MarkCompletedShrinks DEF ApplyTask
<1>3. node_states' \in [Nodes -> States]
  BY <1>0 DEF ApplyTask, TypeOK, States
<1>4. /\ loop_iterations' \in [Nodes -> Nat]
      /\ current_iterations' \in 0..MaxEnvelopeIterations
  BY <1>0 DEF ApplyTask, TypeOK
<1> QED BY <1>0, <1>1, <1>2, <1>3, <1>4, AppliedInv, RecordOutputType

LEMMA ApplyLoopBackInv ==
    ASSUME SchedInv, NEW n \in Nodes, ApplyLoopBack(n)
    PROVE  SchedInv'
<1> DEFINE l == loop_back_target(graph, n)
           completed == mark_completed(graph, queue, n)
           reset == reset_loop_body(graph, completed, l)
           ready == reset_ready(reset, l)
<1>0. TypeOK /\ queue \in Queues /\ graph \in Graphs
  BY DEF SchedInv, TypeOK
<1>1. IsNext(n) /\ Account(n) /\ Applied(n) /\ RecordOutput(n)
  BY DEF ApplyLoopBack, ApplyResult
<1>2. l \in Nodes
  BY <1>0, LoopBackTargetType DEF ApplyLoopBack, Rearms
<1>3. Shrinks(completed, queue) /\ n \notin completed.in_progress
  BY <1>0, MarkCompletedShrinks
<1>4. Shrinks(reset, completed)
  BY <1>0, <1>3, ResetLoopBodyShrinks DEF Shrinks
<1>5. Shrinks(ready, reset)
  <2> HIDE DEF l, reset
  <2> QED BY <1>2, <1>4, ResetReadyShrinks DEF Shrinks
<1>6. queue' = activate_edges(graph, ready, n, {l})
  BY DEF ApplyLoopBack
<1>7. Shrinks(queue', queue) /\ n \notin queue'.in_progress
  <2> HIDE DEF l, completed, reset, ready
  <2> QED BY <1>0, <1>2, <1>3, <1>4, <1>5, <1>6, ActivateEdgesShrinks DEF Shrinks
<1>8. node_states' \in [Nodes -> States]
  BY <1>0 DEF ApplyLoopBack, TypeOK, States
<1>9. loop_iterations' \in [Nodes -> Nat]
  <2>1. loop_iterations' = [loop_iterations EXCEPT ![l] = @ + 1]
    BY DEF ApplyLoopBack
  <2> HIDE DEF l
  <2> QED BY <1>0, <1>2, <2>1 DEF TypeOK
<1>10. current_iterations' \in 0..MaxEnvelopeIterations
  BY <1>0 DEF ApplyLoopBack, TypeOK
<1> QED BY <1>0, <1>1, <1>7, <1>8, <1>9, <1>10, AppliedInv, RecordOutputType

LEMMA ApplyFailureInv ==
    ASSUME SchedInv, NEW n \in Nodes, ApplyFailure(n)
    PROVE  SchedInv'
<1>0. TypeOK /\ queue \in Queues /\ graph \in Graphs
  BY DEF SchedInv, TypeOK
<1>1. IsNext(n) /\ Account(n) /\ Applied(n)
  BY DEF ApplyFailure, ApplyResult
<1>2. Cascade(n) \union {n} \in SUBSET Nodes
  BY DEF Cascade
<1>3. queue' = mark_failed(queue, Cascade(n) \union {n})
  BY DEF ApplyFailure
<1>4. Shrinks(queue', queue) /\ n \notin queue'.in_progress
  BY <1>0, <1>2, <1>3, MarkFailedShrinks
<1>5. node_states' \in [Nodes -> States]
  BY <1>0 DEF ApplyFailure, TypeOK, States
<1>6. /\ outputs' \in [Nodes -> Outputs \union {"absent"}]
      /\ loop_iterations' \in [Nodes -> Nat]
      /\ current_iterations' \in 0..MaxEnvelopeIterations
  BY <1>0 DEF ApplyFailure, TypeOK
<1> QED BY <1>1, <1>4, <1>5, <1>6, AppliedInv

LEMMA ApplyBreachInv ==
    ASSUME SchedInv, NEW n \in Nodes, ApplyBreach(n)
    PROVE  SchedInv'
<1> DEFINE kept == [node_states EXCEPT ![n] = results[n].state]
           siblings == {m \in batch_ids : ~IsTerminal(kept[m])}
<1>0. TypeOK
  BY DEF SchedInv
<1>1. IsNext(n) /\ Account(n) /\ pc' = "done"
  BY DEF ApplyBreach
<1>2. kept \in [Nodes -> States]
  BY <1>0, <1>1, NextResult DEF TypeOK, States
<1>3. node_states' = [m \in Nodes |-> CASE m \in siblings      -> "Failed"
                                        [] IsTerminal(kept[m]) -> kept[m]
                                        [] OTHER               -> "Skipped"]
  BY DEF ApplyBreach
<1>4. node_states' \in [Nodes -> States]
  <2> HIDE DEF kept, siblings
  <2> QED BY <1>2, <1>3 DEF States
<1>5. outputs' \in [Nodes -> Outputs \union {"absent"}]
  BY <1>0, <1>1, RecordOutputType DEF ApplyBreach, TypeOK
<1>6. results' = << >> /\ Todo' = {}
  BY DEF ApplyBreach, Todo
<1>7. results' \in [Todo' -> NodeExecutionResult \union {InFlight}]
  BY <1>6
<1>8. TypeOK'
  BY <1>0, <1>1, <1>4, <1>5, <1>6, <1>7, AccountType DEF TypeOK, ApplyBreach
<1> QED BY <1>1, <1>8 DEF SchedInv, NothingLeftInFlight

LEMMA ApplyLoopIterationLimitInv ==
    ASSUME SchedInv, NEW n \in Nodes, ApplyLoopIterationLimit(n)
    PROVE  SchedInv'
<1>0. TypeOK /\ queue \in Queues /\ graph \in Graphs
  BY DEF SchedInv, TypeOK
<1>1. IsNext(n) /\ Account(n) /\ RecordOutput(n) /\ pc' = "done"
  BY DEF ApplyLoopIterationLimit, ApplyResult
<1>2. queue' \in Queues
  BY <1>0, MarkCompletedShrinks DEF ApplyLoopIterationLimit, Shrinks
<1>3. results' = << >> /\ Todo' = {}
  BY DEF ApplyLoopIterationLimit, Todo
<1>4. results' \in [Todo' -> NodeExecutionResult \union {InFlight}]
  BY <1>3
<1>5. node_states' \in [Nodes -> States]
  BY <1>0 DEF ApplyLoopIterationLimit, TypeOK, States
<1>6. outcome' \in {"success", "failure"}
  BY DEF ApplyLoopIterationLimit, Verdict
<1>7. TypeOK'
  BY <1>0, <1>1, <1>2, <1>3, <1>4, <1>5, <1>6, AccountType, RecordOutputType
     DEF TypeOK, ApplyLoopIterationLimit
<1> QED BY <1>1, <1>7 DEF SchedInv, NothingLeftInFlight

LEMMA DispatchBatchInv ==
    ASSUME SchedInv, DispatchBatch
    PROVE  SchedInv'
<1> DEFINE batch == get_ready(queue, node_states, MaxConcurrent)
<1>0. TypeOK /\ queue \in Queues
  BY DEF SchedInv, TypeOK
<1>1. batch \in SUBSET Nodes
  <2>1. Eligible(queue, node_states) \in SUBSET Nodes
    BY <1>0 DEF Eligible, Queues
  <2> QED BY <2>1 DEF get_ready
<1>2. /\ queue' = mark_in_progress(queue, batch)
      /\ batch_ids' = batch /\ results' = [n \in batch |-> InFlight]
      /\ pc = "head" /\ pc' = "batch"
      /\ by_id' = IsTruncated(queue, node_states, MaxConcurrent)
  BY DEF DispatchBatch
<1>3. node_states' \in [Nodes -> States]
  BY <1>0 DEF DispatchBatch, TypeOK, States
<1>4. by_id' \in BOOLEAN
  BY <1>2 DEF IsTruncated
<1> HIDE DEF batch
<1>5. Todo' = batch /\ results' \in [Todo' -> NodeExecutionResult \union {InFlight}]
  BY <1>2 DEF Todo
<1>6. queue' \in Queues /\ queue'.in_progress = queue.in_progress \union batch
  BY <1>0, <1>1, <1>2, MarkInProgressType
<1>7. TypeOK'
  BY <1>0, <1>1, <1>2, <1>3, <1>4, <1>5, <1>6 DEF TypeOK, DispatchBatch
<1>8. NothingLeftInFlight'
  BY <1>2, <1>5, <1>6 DEF SchedInv, NothingLeftInFlight
<1> QED BY <1>7, <1>8 DEF SchedInv

LEMMA NodeFinishesInv ==
    ASSUME SchedInv, NEW n \in Nodes, NodeFinishes(n)
    PROVE  SchedInv'
<1>0. TypeOK
  BY DEF SchedInv
<1>1. PICK state \in {"Succeeded", "Failed"}, usage \in Usages :
        \E output \in IF state = "Succeeded" THEN NodeOutputs(graph, n) ELSE {"none"} :
          /\ results' = [results EXCEPT ![n] =
                           [state |-> state, usage |-> usage, output |-> output]]
          /\ used' = used + usage
  BY DEF NodeFinishes
<1>2. PICK output \in Outputs :
        results' = [results EXCEPT ![n] =
                      [state |-> state, usage |-> usage, output |-> output]]
  BY <1>1 DEF NodeOutputs, Outputs
<1>3. Todo' = Todo /\ results' \in [Todo -> NodeExecutionResult \union {InFlight}]
  <2>1. [state |-> state, usage |-> usage, output |-> output] \in NodeExecutionResult
    BY DEF NodeExecutionResult
  <2>2. results \in [Todo -> NodeExecutionResult \union {InFlight}]
    BY <1>0 DEF TypeOK
  <2> QED BY <1>2, <2>1, <2>2 DEF Todo
<1>4. used' \in Nat
  BY <1>0, <1>1, SchedulerAssumption DEF TypeOK
<1>5. UNCHANGED <<graph, with_envelope, pc, queue, node_states, outputs,
                  batch_ids, by_id, loop_iterations, total, spent,
                  current_iterations, cancelled, outcome>>
  BY DEF NodeFinishes
<1> HIDE DEF Todo
<1> QED BY <1>3, <1>4, <1>5 DEF SchedInv, TypeOK, NothingLeftInFlight

LEMMA NodeCancelledInv ==
    ASSUME SchedInv, NEW n \in Nodes, NodeCancelled(n)
    PROVE  SchedInv'
<1>1. Todo' = Todo /\ results' \in [Todo -> NodeExecutionResult \union {InFlight}]
  <2>1. CancelledByClient \in NodeExecutionResult
    BY SchedulerAssumption DEF CancelledByClient, NodeExecutionResult, Outputs
  <2>2. results \in [Todo -> NodeExecutionResult \union {InFlight}]
    BY DEF SchedInv, TypeOK
  <2> QED BY <2>1, <2>2 DEF Todo, NodeCancelled
<1>2. UNCHANGED <<graph, with_envelope, pc, queue, node_states, outputs,
                  batch_ids, by_id, loop_iterations, total, spent,
                  current_iterations, cancelled, outcome, used>>
  BY DEF NodeCancelled
<1> HIDE DEF Todo
<1> QED BY <1>1, <1>2 DEF SchedInv, TypeOK, NothingLeftInFlight

\* Steps that leave the queue and the results alone.
LEMMA ControlInv ==
    ASSUME SchedInv, CancelRequest \/ AbortCancelled \/ FinishRun \/ UNCHANGED vars
    PROVE  SchedInv'
<1>1. UNCHANGED <<queue, results>> /\ (pc' = pc \/ pc' = "done") /\ Todo' = Todo
  BY DEF CancelRequest, AbortCancelled, FinishRun, vars, Todo
<1>2. outcome' \in {"none", "cancelled", "breached", "success", "failure"}
  BY DEF CancelRequest, AbortCancelled, FinishRun, Verdict, vars, SchedInv, TypeOK
<1>3. cancelled' \in BOOLEAN
  BY DEF CancelRequest, AbortCancelled, FinishRun, vars, SchedInv, TypeOK
<1>4. UNCHANGED <<graph, with_envelope, node_states, outputs, batch_ids, by_id,
                  loop_iterations, total, spent, current_iterations, used>>
  BY DEF CancelRequest, AbortCancelled, FinishRun, vars
<1> HIDE DEF Todo
<1> QED BY <1>1, <1>2, <1>3, <1>4 DEF SchedInv, TypeOK, NothingLeftInFlight

LEMMA StepInv == SchedInv /\ [Next]_vars => SchedInv'
<1> SUFFICES ASSUME SchedInv, [Next]_vars PROVE SchedInv'
  OBVIOUS
<1>1. ASSUME NEW n \in Nodes, Apply(n) PROVE SchedInv'
  BY <1>1, ApplyBreachInv, ApplyConditionalInv, ApplyLoopContinueInv,
     ApplyLoopIterationLimitInv, ApplyLoopExitInv, ApplyTaskInv, ApplyLoopBackInv,
     ApplyFailureInv DEF Apply
<1>2. CASE ExecutorStep
  BY <1>2, NodeFinishesInv, NodeCancelledInv DEF ExecutorStep
<1>3. CASE SchedulerStep
  BY <1>1, <1>3, DispatchBatchInv, ControlInv DEF SchedulerStep
<1>4. CASE CancelRequest \/ Terminated \/ UNCHANGED vars
  BY <1>4, ControlInv DEF Terminated
<1> QED BY <1>2, <1>3, <1>4 DEF Next

\* Types, and no node is lost in flight, in every state of every run.
THEOREM SchedulerInvariance == Spec => []SchedInv
BY InitInv, StepInv, PTL DEF Spec

\* The scheduler's state stays in its type.
THEOREM SchedulerTypes == Spec => []TypeOK
<1>1. SchedInv => TypeOK
  BY DEF SchedInv
<1> QED BY <1>1, SchedulerInvariance, PTL

\* At the loop head nothing is in flight, so the poll of lib.rs:211 is never
\* entered, whatever the graph, loops included.
THEOREM NothingLost == Spec => []NothingLeftInFlight
<1>1. SchedInv => NothingLeftInFlight
  BY DEF SchedInv
<1> QED BY <1>1, SchedulerInvariance, PTL

-----------------------------------------------------------------------------
(***************************************************************************)
(* A successful outcome is earned.  Nodes are skipped only by a breach, a  *)
(* node is Succeeded only with its output in place, and the envelope is    *)
(* within its ceiling until a breach ends the run.                         *)
(***************************************************************************)
OutputsPresent == \A n \in Nodes : node_states[n] = "Succeeded" => outputs[n] # "absent"
NoneSkipped == outcome # "breached" => \A n \in Nodes : node_states[n] # "Skipped"
WithinCeiling == outcome # "breached" /\ with_envelope => spent <= MaxCost
Undecided == pc # "done" => outcome = "none"
SuccessMeansAll ==
    outcome = "success" => \A n \in Nodes : node_states[n] \in {"Succeeded", "Skipped"}

EarnedInv == /\ OutputsPresent /\ NoneSkipped /\ WithinCeiling
             /\ Undecided /\ SuccessMeansAll

LEMMA EarnedInit == Init => EarnedInv
BY SchedulerAssumption DEF Init, EarnedInv, OutputsPresent, NoneSkipped, WithinCeiling,
   Undecided, SuccessMeansAll

\* Accounting a result that does not breach stays within the ceiling.
LEMMA AccountWithin ==
    ASSUME TypeOK, EarnedInv, NEW n \in Nodes, IsNext(n), Account(n), ~Breaches(n),
           UNCHANGED with_envelope
    PROVE  with_envelope' => spent' <= MaxCost
<1>1. results[n].usage \in Nat /\ pc = "batch" /\ spent \in Nat
  BY NextResult DEF TypeOK
<1>2. with_envelope => spent <= MaxCost
  BY <1>1 DEF EarnedInv, WithinCeiling, Undecided
<1> QED BY <1>1, <1>2, SchedulerAssumption DEF Account, Breaches

\* Applying a successful result: the node gets its output, and no node becomes
\* Succeeded or Skipped otherwise.
LEMMA EarnedApplied ==
    ASSUME TypeOK, EarnedInv, NEW n \in Nodes, IsNext(n), Account(n), ~Breaches(n),
           Applied(n), RecordOutput(n),
           \A m \in Nodes \ {n} : \/ node_states'[m] = node_states[m]
                                  \/ node_states'[m] \in {"Pending", "Failed"},
           node_states'[n] # "Skipped"
    PROVE  EarnedInv'
<1>1. outcome = "none" /\ outcome' = "none" /\ pc' # "done" /\ UNCHANGED with_envelope
  BY NextResult DEF EarnedInv, Undecided, Applied
<1>2. outputs'[n] # "absent" /\ \A m \in Nodes \ {n} : outputs'[m] = outputs[m]
  BY NextResult DEF RecordOutput, TypeOK, Outputs, Labels, Decisions
<1>3. OutputsPresent'
  BY <1>2 DEF EarnedInv, OutputsPresent
<1>4. NoneSkipped'
  BY <1>1 DEF EarnedInv, NoneSkipped
<1>5. WithinCeiling'
  BY <1>1, AccountWithin DEF WithinCeiling
<1> QED BY <1>1, <1>3, <1>4, <1>5 DEF EarnedInv, Undecided, SuccessMeansAll

LEMMA EarnedStep == SchedInv /\ EarnedInv /\ [Next]_vars => EarnedInv'
<1> SUFFICES ASSUME TypeOK, EarnedInv, [Next]_vars PROVE EarnedInv'
  BY DEF SchedInv
<1>0. node_states \in [Nodes -> States] /\ outputs \in [Nodes -> Outputs \union {"absent"}]
  BY DEF TypeOK
<1>1. ASSUME NEW n \in Nodes,
             \/ ApplyConditional(n) \/ ApplyLoopContinue(n) \/ ApplyLoopExit(n)
             \/ ApplyTask(n) \/ ApplyLoopBack(n)
      PROVE  EarnedInv'
  <2>1. /\ IsNext(n) /\ Account(n) /\ ~Breaches(n) /\ Applied(n) /\ RecordOutput(n)
    BY <1>1 DEF ApplyConditional, ApplyLoopContinue, ApplyLoopExit, ApplyTask,
                ApplyLoopBack, ApplyResult
  <2>2. /\ \A m \in Nodes \ {n} : \/ node_states'[m] = node_states[m]
                                  \/ node_states'[m] \in {"Pending", "Failed"}
        /\ node_states'[n] # "Skipped"
    BY <1>0, <1>1 DEF ApplyConditional, ApplyLoopContinue, ApplyLoopExit, ApplyTask,
                ApplyLoopBack
  <2> QED BY <2>1, <2>2, EarnedApplied
<1>2. ASSUME NEW n \in Nodes, ApplyFailure(n) PROVE EarnedInv'
  <2>1. IsNext(n) /\ Account(n) /\ ~Breaches(n) /\ Applied(n) /\ outputs' = outputs
    BY <1>2 DEF ApplyFailure, ApplyResult
  <2>2. \A m \in Nodes : node_states'[m] = node_states[m] \/ node_states'[m] = "Failed"
    BY <1>0, <1>2 DEF ApplyFailure
  <2>3. outcome = "none" /\ outcome' = "none" /\ pc' # "done" /\ UNCHANGED with_envelope
    BY <2>1, NextResult DEF EarnedInv, Undecided, Applied
  <2>4. with_envelope' => spent' <= MaxCost
    BY <2>1, <2>3, AccountWithin
  <2> QED BY <2>1, <2>2, <2>3, <2>4 DEF EarnedInv, OutputsPresent, NoneSkipped,
             WithinCeiling, Undecided, SuccessMeansAll
<1>3. ASSUME NEW n \in Nodes, ApplyLoopIterationLimit(n) PROVE EarnedInv'
  <2>1. /\ IsNext(n) /\ Account(n) /\ ~Breaches(n) /\ RecordOutput(n)
        /\ pc' = "done" /\ UNCHANGED with_envelope
        /\ node_states' = [node_states EXCEPT ![n] = "Succeeded"]
        /\ outcome' = Verdict(node_states')
    BY <1>3 DEF ApplyLoopIterationLimit, ApplyResult
  <2>2. outputs'[n] # "absent" /\ \A m \in Nodes \ {n} : outputs'[m] = outputs[m]
    BY <2>1, NextResult DEF RecordOutput, TypeOK, Outputs, Labels, Decisions
  <2>3. OutputsPresent'
    BY <1>0, <2>1, <2>2 DEF EarnedInv, OutputsPresent
  <2>4. outcome = "none"
    BY <2>1, NextResult DEF EarnedInv, Undecided
  <2>5. NoneSkipped'
    BY <1>0, <2>1, <2>4 DEF EarnedInv, NoneSkipped
  <2>6. WithinCeiling'
    BY <2>1, AccountWithin DEF WithinCeiling
  <2>7. SuccessMeansAll'
    BY <2>1 DEF SuccessMeansAll, Verdict
  <2> QED BY <2>1, <2>3, <2>5, <2>6, <2>7 DEF EarnedInv, Undecided
<1>4. ASSUME NEW n \in Nodes, ApplyBreach(n) PROVE EarnedInv'
  <2> DEFINE kept == [node_states EXCEPT ![n] = results[n].state]
             siblings == {m \in batch_ids : ~IsTerminal(kept[m])}
  <2>1. /\ IsNext(n) /\ pc' = "done" /\ outcome' = "breached"
        /\ node_states' = [m \in Nodes |-> CASE m \in siblings      -> "Failed"
                                             [] IsTerminal(kept[m]) -> kept[m]
                                             [] OTHER               -> "Skipped"]
        /\ IF results[n].state = "Succeeded" THEN RecordOutput(n) ELSE UNCHANGED outputs
    BY <1>4 DEF ApplyBreach
  <2>2. \A m \in Nodes : node_states'[m] = "Succeeded" => kept[m] = "Succeeded"
    <3> HIDE DEF kept, siblings
    <3> QED BY <2>1
  <2>3. \A m \in Nodes \ {n} : kept[m] = node_states[m] /\ outputs'[m] = outputs[m]
    BY <1>0, <2>1 DEF RecordOutput
  <2>4. kept[n] = results[n].state
    BY <1>0
  <2>5. results[n].state = "Succeeded" => outputs'[n] # "absent"
    BY <2>1, NextResult DEF RecordOutput, TypeOK, Outputs, Labels, Decisions
  <2>6. OutputsPresent'
    <3> HIDE DEF kept
    <3> QED BY <2>2, <2>3, <2>4, <2>5 DEF EarnedInv, OutputsPresent
  <2> QED BY <2>1, <2>6 DEF EarnedInv, NoneSkipped, WithinCeiling, Undecided,
             SuccessMeansAll
<1>5. CASE FinishRun
  BY <1>5 DEF FinishRun, Verdict, EarnedInv, OutputsPresent, NoneSkipped, WithinCeiling,
              Undecided, SuccessMeansAll
<1>6. CASE DispatchBatch
  BY <1>0, <1>6 DEF DispatchBatch, EarnedInv, OutputsPresent, NoneSkipped, WithinCeiling,
              Undecided, SuccessMeansAll
<1>7. CASE AbortCancelled \/ CancelRequest \/ ExecutorStep \/ UNCHANGED vars
  <2>1. UNCHANGED <<node_states, outputs, spent, with_envelope>>
    BY <1>7 DEF AbortCancelled, CancelRequest, ExecutorStep, NodeFinishes, NodeCancelled, vars
  <2>2. \/ UNCHANGED <<pc, outcome>>
        \/ pc = "head" /\ pc' = "done" /\ outcome' = "cancelled"
    BY <1>7 DEF AbortCancelled, CancelRequest, ExecutorStep, NodeFinishes, NodeCancelled, vars
  <2> QED BY <2>1, <2>2 DEF EarnedInv, OutputsPresent, NoneSkipped, WithinCeiling,
              Undecided, SuccessMeansAll
<1> QED BY <1>1, <1>2, <1>3, <1>4, <1>5, <1>6, <1>7
        DEF Next, SchedulerStep, Apply, Terminated

\* A run that reports success ran every node, has every output, and stayed
\* within its envelope (lib.rs:331-385, 578-593).
THEOREM SuccessEarned == Spec => []SuccessIsEarned
<1>1. EarnedInv => SuccessIsEarned
  BY DEF EarnedInv, SuccessIsEarned, OutputsPresent, NoneSkipped, WithinCeiling,
     SuccessMeansAll
<1> QED BY <1>1, EarnedInit, EarnedStep, SchedulerInvariance, PTL DEF Spec

-----------------------------------------------------------------------------
(***************************************************************************)
(* Re-arming.  The remaining nodes of a batch are Running, unless a loop   *)
(* that closed an iteration has reset them.                                *)
(***************************************************************************)
InLoop(n) == \E l \in Nodes : /\ graph.kind[l] = "Loop"
                              /\ n \in {l} \union Targets(BodyEdges(graph, l))
BatchRuns == pc = "batch" => \A n \in Todo : node_states[n] = "Running" \/ InLoop(n)

LEMMA CascadeNotStarted ==
    ASSUME graph \in Graphs, NEW n, NEW m \in Cascade(n)
    PROVE  m \in Nodes /\ NotStarted(m)
<1> DEFINE S == {k \in Nodes : NotStarted(k)}
<1>1. CascadeClosed(n, S)
  BY EdgesType DEF CascadeClosed
<1> QED BY <1>1 DEF Cascade

\* What a step does to the states: a decided node changes only in a loop.
Keeps == \A n \in Nodes : IsTerminal(node_states[n]) /\ node_states'[n] # node_states[n] => InLoop(n)

\* Applying a result of the batch: the states of its other nodes stay, or are
\* reset by a loop, or fail before they have started.
LEMMA ApplyKeeps ==
    ASSUME SchedInv, BatchRuns, NEW n \in Nodes, Apply(n)
    PROVE  Keeps /\ BatchRuns'
<1>0. /\ node_states \in [Nodes -> States] /\ graph \in Graphs /\ pc = "batch" /\ n \in Todo
      /\ Todo \subseteq Nodes /\ graph' = graph
      /\ ~IsTerminal(node_states[n]) \/ InLoop(n)
  BY DEF SchedInv, TypeOK, BatchRuns, Apply, ApplyBreach, ApplyConditional, ApplyLoopContinue,
         ApplyLoopIterationLimit, ApplyLoopExit, ApplyTask, ApplyLoopBack, ApplyFailure,
         ApplyResult, Applied, IsNext, IsTerminal
<1> USE DEF Keeps
<1>1. ASSUME Applied(n),
             \A m \in Nodes \ {n} : \/ node_states'[m] = node_states[m]
                                    \/ InLoop(m)
                                    \/ node_states[m] \in {"None", "Pending"}
      PROVE  Keeps /\ BatchRuns'
  <2>1. Todo' = Todo \ {n}
    BY <1>1 DEF Applied, Todo
  <2>2. \A m : InLoop(m)' <=> InLoop(m)
    BY <1>0 DEF InLoop
  <2>3. \A m \in Todo' : node_states'[m] = "Running" \/ InLoop(m)
    BY <1>0, <1>1, <2>1 DEF BatchRuns
  <2> QED BY <1>0, <1>1, <2>2, <2>3 DEF BatchRuns, IsTerminal
<1>2. CASE ApplyConditional(n) \/ ApplyTask(n) \/ ApplyLoopExit(n)
  BY <1>0, <1>1, <1>2 DEF ApplyConditional, ApplyTask, ApplyLoopExit
<1>3. CASE ApplyLoopContinue(n)
  <2>1. \A m \in Targets(BodyEdges(graph, n)) : InLoop(m)
    BY <1>3 DEF ApplyLoopContinue, InLoop
  <2> QED BY <1>0, <1>1, <1>3, <2>1 DEF ApplyLoopContinue
<1>4. CASE ApplyLoopBack(n)
  <2> DEFINE l == loop_back_target(graph, n)
  <2>1. l \in Nodes /\ graph.kind[l] = "Loop"
    BY <1>0, <1>4, LoopBackTargetType DEF ApplyLoopBack, Rearms
  <2>2. \A m \in Targets(BodyEdges(graph, l)) \union {l} : InLoop(m)
    BY <2>1 DEF InLoop
  <2> QED BY <1>0, <1>1, <1>4, <2>2 DEF ApplyLoopBack
<1>5. CASE ApplyFailure(n)
  <2>1. \A m \in Cascade(n) : node_states[m] \in {"None", "Pending"}
    BY <1>0, CascadeNotStarted DEF NotStarted
  <2>2. Applied(n)
    BY <1>5 DEF ApplyFailure
  <2>3. \A m \in Nodes \ {n} : node_states'[m] = node_states[m] \/ m \in Cascade(n)
    BY <1>5 DEF ApplyFailure
  <2> QED BY <1>1, <2>1, <2>2, <2>3
<1>6. CASE ApplyLoopIterationLimit(n)
  <2>1. pc' = "done" /\ \A m \in Nodes \ {n} : node_states'[m] = node_states[m]
    BY <1>0, <1>6 DEF ApplyLoopIterationLimit
  <2> QED BY <1>0, <2>1 DEF BatchRuns
<1>7. CASE ApplyBreach(n)
  <2> DEFINE kept == [node_states EXCEPT ![n] = results[n].state]
             siblings == {m \in batch_ids : ~IsTerminal(kept[m])}
  <2>1. /\ node_states' = [m \in Nodes |-> CASE m \in siblings      -> "Failed"
                                             [] IsTerminal(kept[m]) -> kept[m]
                                             [] OTHER               -> "Skipped"]
        /\ pc' = "done"
    BY <1>7 DEF ApplyBreach
  <2>2. \A m \in Nodes \ {n} : kept[m] = node_states[m]
    BY <1>0
  <2>3. \A m \in Nodes : IsTerminal(kept[m]) => node_states'[m] = kept[m]
    <3> HIDE DEF kept
    <3> QED BY <2>1
  <2> HIDE DEF kept
  <2>4. \A m \in Nodes \ {n} : IsTerminal(node_states[m]) => node_states'[m] = node_states[m]
    BY <2>2, <2>3
  <2> QED BY <1>0, <2>1, <2>4 DEF BatchRuns
<1> QED BY <1>2, <1>3, <1>4, <1>5, <1>6, <1>7 DEF Apply

LEMMA BatchRunsStep ==
    ASSUME SchedInv, BatchRuns, [Next]_vars
    PROVE  Keeps /\ BatchRuns'
<1>0. node_states \in [Nodes -> States] /\ Todo \subseteq Nodes
  BY DEF SchedInv, TypeOK
<1>1. CASE DispatchBatch
  <2> DEFINE batch == get_ready(queue, node_states, MaxConcurrent)
  <2>1. batch \subseteq Eligible(queue, node_states)
    BY DEF get_ready
  <2>2. \A m \in batch : ~IsTerminal(node_states[m])
    BY <2>1 DEF Eligible
  <2>3. /\ node_states' = [m \in Nodes |-> IF m \in batch THEN "Running" ELSE node_states[m]]
        /\ Todo' = batch
    BY <1>1 DEF DispatchBatch, Todo
  <2>4. batch \subseteq Nodes
    BY <2>1 DEF Eligible, SchedInv, TypeOK, Queues
  <2> HIDE DEF batch
  <2> QED BY <1>0, <2>2, <2>3, <2>4 DEF Keeps, BatchRuns
<1>2. ASSUME NEW n \in Nodes, Apply(n)
      PROVE  Keeps /\ BatchRuns'
  BY <1>2, ApplyKeeps
<1>3. CASE CancelRequest \/ ExecutorStep \/ AbortCancelled \/ FinishRun \/ UNCHANGED vars
  <2>1. UNCHANGED <<node_states, graph>> /\ Todo' = Todo /\ (pc' = pc \/ pc' = "done")
    BY <1>3 DEF CancelRequest, ExecutorStep, AbortCancelled, FinishRun, vars, NodeFinishes,
                NodeCancelled, Todo, SchedInv, TypeOK
  <2>2. \A m : InLoop(m)' <=> InLoop(m)
    BY <2>1 DEF InLoop
  <2> QED BY <2>1, <2>2 DEF Keeps, BatchRuns
<1> QED BY <1>1, <1>2, <1>3 DEF Next, SchedulerStep, Terminated

\* What a batch has left to apply is Running, in the executor's hands, unless a
\* loop took it back.
THEOREM BatchRunsInvariant == Spec => []BatchRuns
<1>1. Init => BatchRuns
  BY DEF Init, BatchRuns
<1>2. SchedInv /\ BatchRuns /\ [Next]_vars => BatchRuns'
  BY BatchRunsStep
<1> QED BY <1>1, <1>2, SchedulerInvariance, PTL DEF Spec

\* A node that has Succeeded, Failed or been Skipped is decided for good, unless
\* it is a loop head or a node of a loop's body (lib.rs:540-568: the cascade and
\* the late results of a batch overwrite no other node).
THEOREM OnlyLoopsRearm == Spec => RearmsOnlyLoops
<1> DEFINE A == \A n \in Nodes :
                   IsTerminal(node_states[n]) /\ node_states'[n] # node_states[n] =>
                      \E l \in Nodes : /\ graph.kind[l] = "Loop"
                                       /\ n \in {l} \union Targets(BodyEdges(graph, l))
<1>1. SchedInv /\ BatchRuns /\ [Next]_vars => [A]_vars
  BY BatchRunsStep DEF Keeps, InLoop
<1> QED BY <1>1, SchedulerInvariance, BatchRunsInvariant, PTL DEF Spec, RearmsOnlyLoops

-----------------------------------------------------------------------------
(***************************************************************************)
(* Spend.  What has been used and is not in the totals yet is the usage of *)
(* the results still to be applied; there are at most MaxConcurrent of     *)
(* them, so an envelope is overspent by one batch at most.                 *)
(***************************************************************************)
UsageUnits(r) == UNION {{m} \X (1..r[m].usage) : m \in DOMAIN r}

LEMMA RowUnits ==
    ASSUME NEW n, NEW k \in Nat
    PROVE  IsFiniteSet({n} \X (1..k)) /\ Cardinality({n} \X (1..k)) = k
<1>1. IsFiniteSet({n}) /\ Cardinality({n}) = 1
  BY FS_Singleton
<1>2. IsFiniteSet(1..k) /\ Cardinality(1..k) = k
  <2>1. 1 \in Int /\ k \in Int
    OBVIOUS
  <2>2. IsFiniteSet(1..k) /\ Cardinality(1..k) = IF 1 > k THEN 0 ELSE k - 1 + 1
    BY <2>1, FS_Interval, Zenon
  <2> QED BY <2>2
<1>3. /\ IsFiniteSet({n} \X (1..k))
      /\ Cardinality({n} \X (1..k)) = Cardinality({n}) * Cardinality(1..k)
  BY <1>1, <1>2, FS_Product, Zenon
<1> QED BY <1>1, <1>2, <1>3

\* Adding the usage of one more execution.
LEMMA AddRow ==
    ASSUME NEW units, IsFiniteSet(units), NEW row, IsFiniteSet(row), units \cap row = {}
    PROVE  /\ IsFiniteSet(units \union row)
           /\ Cardinality(units) \in Nat
           /\ Cardinality(units \union row) = Cardinality(units) + Cardinality(row)
<1>1. Cardinality(units \cap row) = 0
  BY FS_EmptySet
<1>2. Cardinality(units) \in Nat /\ Cardinality(row) \in Nat
  BY FS_CardinalityType
<1>3. /\ IsFiniteSet(units \union row)
      /\ Cardinality(units \union row) =
           Cardinality(units) + Cardinality(row) - Cardinality(units \cap row)
  BY FS_Union
<1> QED BY <1>1, <1>2, <1>3

\* get_ready with nothing in flight returns at most max_concurrent nodes.
LEMMA BatchSize ==
    ASSUME NEW q \in Queues, q.in_progress = {}, NEW states
    PROVE  /\ IsFiniteSet(get_ready(q, states, MaxConcurrent))
           /\ Cardinality(get_ready(q, states, MaxConcurrent)) <= MaxConcurrent
<1> DEFINE E == Eligible(q, states)
           batch == get_ready(q, states, MaxConcurrent)
<1>1. E \subseteq Nodes /\ IsFiniteSet(E)
  <2>1. E \in SUBSET Nodes
    BY DEF Eligible, Queues
  <2> QED BY <2>1, NodesAssumption, FS_Subset
<1>2. Available(q, MaxConcurrent) = MaxConcurrent
  BY SchedulerAssumption, FS_EmptySet DEF Available
<1>3. CASE IsTruncated(q, states, MaxConcurrent)
  <2> DEFINE below(n) == Cardinality({m \in E : m < n})
             rank == [n \in batch |-> below(n)]
  <2>1. batch = {n \in E : Cardinality({m \in E : m < n}) < MaxConcurrent}
    BY <1>2, <1>3 DEF get_ready
  <2> HIDE DEF batch, E
  <2>2. \A n : IsFiniteSet({m \in E : m < n}) /\ Cardinality({m \in E : m < n}) \in Nat
    <3> TAKE n
    <3>1. {m \in E : m < n} \in SUBSET E
      OBVIOUS
    <3> QED BY <1>1, <3>1, FS_Subset, FS_CardinalityType
  <2>3. /\ \A n \in batch : below(n) \in 0..(MaxConcurrent - 1)
        /\ rank \in [batch -> 0..(MaxConcurrent - 1)]
    <3>1. \A n \in batch : below(n) \in Nat /\ below(n) < MaxConcurrent
      BY <2>1, <2>2
    <3> HIDE DEF below
    <3> QED BY <3>1, SchedulerAssumption
  <2>4. \A m, n \in batch : m < n => rank[m] < rank[n]
    <3> SUFFICES ASSUME NEW m \in batch, NEW n \in batch, m < n PROVE rank[m] < rank[n]
      OBVIOUS
    <3> DEFINE M == {i \in E : i < m}
               N == {i \in E : i < n}
    <3>0. m \in E /\ m \in Nat /\ n \in Nat /\ E \subseteq Nat
      BY <1>1, <2>1, NodesAssumption
    <3>1. M \in SUBSET N /\ m \in N /\ m \notin M
      <4>1. \A i \in E : i \in Nat
        BY <3>0
      <4>2. \A i \in E : i < m => i < n
        BY <3>0, <4>1
      <4>3. ~(m < m)
        BY <3>0
      <4> QED BY <3>0, <4>2, <4>3
    <3>2. IsFiniteSet(N) /\ Cardinality(M) \in Nat /\ Cardinality(N) \in Nat
      BY <2>2
    <3>3. rank[m] = Cardinality(M) /\ rank[n] = Cardinality(N)
      OBVIOUS
    <3> HIDE DEF M, N
    <3>4. Cardinality(M) <= Cardinality(N) /\ Cardinality(M) # Cardinality(N)
      BY <3>1, <3>2, FS_Subset
    <3> HIDE DEF rank
    <3> QED BY <3>2, <3>3, <3>4
  <2>5. \A m, n \in batch : rank[m] = rank[n] => m = n
    <3>1. batch \subseteq Nat /\ rank \in [batch -> Nat]
      <4>1. batch \subseteq Nat
        BY <1>1, <2>1, NodesAssumption
      <4> HIDE DEF below
      <4> QED BY <2>3, <4>1, SchedulerAssumption
    <3> HIDE DEF rank
    <3> QED BY <2>4, <3>1
  <2> HIDE DEF rank
  <2>6. rank \in Injection(batch, 0..(MaxConcurrent - 1))
    BY <2>3, <2>5, Zenon DEF Injection, IsInjective
  <2>7. /\ IsFiniteSet(0..(MaxConcurrent - 1))
        /\ Cardinality(0..(MaxConcurrent - 1)) = MaxConcurrent
    <3> DEFINE k == MaxConcurrent - 1
    <3>1. 0 \in Int /\ k \in Int /\ ~(0 > k) /\ k - 0 + 1 = MaxConcurrent
      BY SchedulerAssumption
    <3> HIDE DEF k
    <3>2. IsFiniteSet(0..k) /\ Cardinality(0..k) = IF 0 > k THEN 0 ELSE k - 0 + 1
      BY <3>1, FS_Interval, Zenon
    <3>3. IsFiniteSet(0..k) /\ Cardinality(0..k) = MaxConcurrent
      BY <3>1, <3>2
    <3> QED BY <3>3 DEF k
  <2>8. IsFiniteSet(batch) /\ Cardinality(batch) <= Cardinality(0..(MaxConcurrent - 1))
    <3> DEFINE T == 0..(MaxConcurrent - 1)
    <3>1. rank \in Injection(batch, T) /\ IsFiniteSet(T)
      BY <2>6, <2>7
    <3> HIDE DEF T, batch
    <3>2. IsFiniteSet(batch) /\ Cardinality(batch) <= Cardinality(T)
      BY <3>1, FS_Injection, Zenon
    <3> QED BY <3>2 DEF T
  <2> QED BY <2>7, <2>8 DEF batch
<1>4. CASE ~IsTruncated(q, states, MaxConcurrent)
  <2>1. batch = E
    BY <1>4 DEF get_ready
  <2>2. ~(Cardinality(E) > MaxConcurrent)
    BY <1>2, <1>4 DEF IsTruncated
  <2> HIDE DEF E
  <2> QED BY <1>1, <2>1, <2>2, FS_CardinalityType, SchedulerAssumption
<1> QED BY <1>3, <1>4

UsedAccounted == /\ used = total + Cardinality(UsageUnits(results))
                 /\ with_envelope => spent = total
Going == pc # "done"
OneBatch == IsFiniteSet(Todo) /\ Cardinality(Todo) <= MaxConcurrent

SpendInv ==
    /\ IsFiniteSet(UsageUnits(results))
    /\ OneBatch
    /\ pc = "head" => Todo = {}
    /\ pc # "done" => UsedAccounted
    /\ OverspendBounded

\* What is in flight or unapplied fits in one batch.
LEMMA UnitsBound ==
    ASSUME TypeOK, IsFiniteSet(Todo), Cardinality(Todo) <= MaxConcurrent
    PROVE  /\ Cardinality(UsageUnits(results)) \in Nat
           /\ Cardinality(UsageUnits(results)) <= MaxConcurrent * MaxUsage
<1> DEFINE U == UsageUnits(results)
<1>1. \A m \in Todo : results[m].usage \in 0..MaxUsage
  <2>1. \A m \in Todo : results[m] \in NodeExecutionResult \/ results[m] = InFlight
    BY DEF TypeOK
  <2>2. \A r \in NodeExecutionResult : r.usage \in 0..MaxUsage
    BY SchedulerAssumption DEF NodeExecutionResult
  <2>3. InFlight.usage \in 0..MaxUsage
    BY SchedulerAssumption DEF InFlight
  <2> QED BY <2>1, <2>2, <2>3
<1>2. U \in SUBSET (Todo \X (1..MaxUsage))
  BY <1>1, SchedulerAssumption DEF UsageUnits, Todo
<1>3. IsFiniteSet(1..MaxUsage) /\ Cardinality(1..MaxUsage) = MaxUsage
  <2>1. 1 \in Int /\ MaxUsage \in Int
    BY SchedulerAssumption
  <2>2. /\ IsFiniteSet(1..MaxUsage)
        /\ Cardinality(1..MaxUsage) = IF 1 > MaxUsage THEN 0 ELSE MaxUsage - 1 + 1
    BY <2>1, FS_Interval, Zenon
  <2> QED BY <2>2, SchedulerAssumption
<1>4. /\ IsFiniteSet(Todo \X (1..MaxUsage))
      /\ Cardinality(Todo \X (1..MaxUsage)) = Cardinality(Todo) * MaxUsage
  <2>1. /\ IsFiniteSet(Todo \X (1..MaxUsage))
        /\ Cardinality(Todo \X (1..MaxUsage)) = Cardinality(Todo) * Cardinality(1..MaxUsage)
    BY <1>3, FS_Product, Zenon
  <2> QED BY <1>3, <2>1
<1> HIDE DEF U
<1>5. IsFiniteSet(U) /\ Cardinality(U) <= Cardinality(Todo) * MaxUsage
  BY <1>2, <1>4, FS_Subset
<1>6. Cardinality(U) \in Nat /\ Cardinality(Todo) \in Nat
  BY <1>5, FS_CardinalityType
<1>7. Cardinality(Todo) * MaxUsage <= MaxConcurrent * MaxUsage
  BY <1>6, SchedulerAssumption
<1>8. Cardinality(U) <= MaxConcurrent * MaxUsage
  BY <1>5, <1>6, <1>7, SchedulerAssumption
<1> QED BY <1>6, <1>8 DEF U

\* While the run goes on, the bound follows from the rest.
LEMMA BoundFollows ==
    TypeOK /\ EarnedInv /\ Going /\ OneBatch /\ UsedAccounted => OverspendBounded
<1> SUFFICES ASSUME TypeOK, EarnedInv, Going, OneBatch, UsedAccounted
             PROVE  OverspendBounded
  OBVIOUS
<1> DEFINE c == Cardinality(UsageUnits(results))
           bound == MaxConcurrent * MaxUsage
<1>1. c \in Nat /\ c <= bound
  BY UnitsBound DEF OneBatch
<1>2. bound \in Nat /\ MaxCost \in Nat /\ total \in Nat
  BY SchedulerAssumption DEF TypeOK
<1>3. with_envelope => total <= MaxCost
  BY DEF EarnedInv, WithinCeiling, Undecided, UsedAccounted, Going
<1>4. used = total + c
  BY DEF UsedAccounted
<1> HIDE DEF c, bound
<1>5. with_envelope => used <= MaxCost + bound
  BY <1>1, <1>2, <1>3, <1>4
<1> QED BY <1>5 DEF OverspendBounded, bound

LEMMA UnitsOf ==
    ASSUME NEW r, NEW t
    PROVE  t \in UsageUnits(r) <=> \E m \in DOMAIN r : t \in {m} \X (1..r[m].usage)
BY DEF UsageUnits

LEMMA SpendInit == Init => SpendInv
<1> SUFFICES ASSUME Init PROVE SpendInv
  OBVIOUS
<1>1. Todo = {} /\ UsageUnits(results) = {}
  BY DEF Init, Todo, UsageUnits
<1>2. IsFiniteSet({}) /\ Cardinality({}) = 0
  BY FS_EmptySet
<1>3. 0 <= MaxCost + MaxConcurrent * MaxUsage
  <2>1. MaxCost \in Nat /\ MaxConcurrent * MaxUsage \in Nat
    BY SchedulerAssumption
  <2> HIDE DEF SchedulerAssumption
  <2> QED BY <2>1
<1> HIDE DEF Todo
<1>4. 0 <= MaxConcurrent
  BY SchedulerAssumption
<1>5. OneBatch
  BY <1>1, <1>2, <1>4 DEF OneBatch
<1>6. UsedAccounted /\ OverspendBounded
  <2>1. Cardinality(UsageUnits(results)) = 0
    BY <1>1, <1>2, Zenon
  <2> QED BY <1>3, <2>1 DEF Init, UsedAccounted, OverspendBounded
<1> QED BY <1>1, <1>2, <1>5, <1>6 DEF SpendInv

\* Applying a result moves its usage into the totals.
LEMMA SpendApplied ==
    ASSUME TypeOK, SpendInv, TypeOK', EarnedInv',
           NEW n \in Nodes, IsNext(n), Account(n), Applied(n)
    PROVE  SpendInv'
<1> DEFINE k == results[n].usage
           rest == UsageUnits(results')
<1>1. n \in Todo /\ pc = "batch" /\ k \in Nat
  BY NextResult
<1>2. /\ Todo' = Todo \ {n} /\ results' = [m \in Todo \ {n} |-> results[m]]
      /\ pc' = IF Todo = {n} THEN "head" ELSE "batch"
      /\ UNCHANGED <<with_envelope, used>>
  BY DEF Applied, Todo
<1>3. UsageUnits(results) = rest \union ({n} \X (1..k))
  <2>1. \A t : t \in UsageUnits(results) <=> \E m \in Todo : t \in {m} \X (1..results[m].usage)
    BY UnitsOf DEF Todo
  <2>2. DOMAIN results' = Todo \ {n} /\ \A m \in Todo \ {n} : results'[m] = results[m]
    BY <1>2
  <2>3. \A t : t \in rest <=> \E m \in Todo \ {n} : t \in {m} \X (1..results'[m].usage)
    BY <2>2, UnitsOf
  <2>4. \A t : t \in UsageUnits(results) <=> t \in rest \/ t \in {n} \X (1..k)
    BY <1>1, <2>1, <2>2, <2>3
  <2> HIDE DEF rest, k
  <2> QED BY <2>4
<1>4. rest \cap ({n} \X (1..k)) = {}
  <2>1. n \notin DOMAIN results'
    BY <1>2
  <2> QED BY <2>1 DEF UsageUnits
<1>5. IsFiniteSet(rest)
  <2>1. rest \in SUBSET UsageUnits(results)
    BY <1>3
  <2> QED BY <2>1, FS_Subset DEF SpendInv
<1> HIDE DEF rest
<1>6. Cardinality(rest) \in Nat /\ Cardinality(UsageUnits(results)) = Cardinality(rest) + k
  <2> DEFINE row == {n} \X (1..k)
  <2> HIDE DEF k
  <2>1. IsFiniteSet(row) /\ Cardinality(row) = k
    BY <1>1, RowUnits
  <2>2. UsageUnits(results) = rest \union row /\ rest \cap row = {}
    BY <1>3, <1>4
  <2> HIDE DEF row
  <2>3. /\ Cardinality(rest) \in Nat
        /\ Cardinality(rest \union row) = Cardinality(rest) + Cardinality(row)
    BY <1>5, <2>1, <2>2, AddRow
  <2> QED BY <2>1, <2>2, <2>3
<1>7. total' = total + k /\ spent' = (IF with_envelope THEN spent + k ELSE spent)
  BY DEF Account
<1>8. used = total + Cardinality(UsageUnits(results)) /\ (with_envelope => spent = total)
  BY <1>1 DEF SpendInv, UsedAccounted
<1>9. total \in Nat /\ spent \in Nat
  BY DEF TypeOK
<1> HIDE DEF k
<1>10. used' = total' + Cardinality(rest) /\ (with_envelope' => spent' = total')
  BY <1>1, <1>2, <1>6, <1>7, <1>8, <1>9
<1>11. IsFiniteSet(Todo') /\ Cardinality(Todo') <= MaxConcurrent
  <2>1. IsFiniteSet(Todo) /\ Cardinality(Todo) <= MaxConcurrent /\ Todo' \in SUBSET Todo
    BY <1>2 DEF SpendInv, OneBatch
  <2>2. IsFiniteSet(Todo') /\ Cardinality(Todo') <= Cardinality(Todo)
    BY <2>1, FS_Subset
  <2>3. Cardinality(Todo) \in Nat /\ Cardinality(Todo') \in Nat
    BY <2>1, <2>2, FS_CardinalityType
  <2> HIDE DEF Todo
  <2> QED BY <2>1, <2>2, <2>3, SchedulerAssumption
<1>12. UsedAccounted' /\ OneBatch' /\ OverspendBounded'
  <2>1. Going'
    BY <1>2 DEF Going
  <2>2. UsedAccounted'
    BY <1>10 DEF UsedAccounted, rest
  <2>3. OneBatch'
    BY <1>11 DEF OneBatch
  <2> QED BY <2>1, <2>2, <2>3, BoundFollows, PTL
<1>13. pc' = "head" => Todo' = {}
  BY <1>2
<1>14. UsageUnits(results)' = rest
  BY DEF rest
<1> HIDE DEF Todo
<1> QED BY <1>5, <1>12, <1>13, <1>14 DEF SpendInv

\* A step that ends the run and changes neither what is used nor the ceiling.
LEMMA SpendDone ==
    ASSUME SpendInv, pc' = "done", UNCHANGED <<with_envelope, used>>,
           results' = results \/ results' = << >>
    PROVE  SpendInv'
<1>1. OverspendBounded'
  BY DEF SpendInv, OverspendBounded, UsedAccounted, OneBatch
<1>2. CASE results' = results
  BY <1>1, <1>2 DEF SpendInv, Todo, OneBatch
<1>3. CASE results' = << >>
  <2>1. Todo' = {} /\ UsageUnits(results') = {}
    BY <1>3 DEF Todo, UsageUnits
  <2>2. IsFiniteSet({}) /\ Cardinality({}) = 0 /\ 0 <= MaxConcurrent
    BY FS_EmptySet, SchedulerAssumption
  <2> HIDE DEF Todo
  <2> QED BY <1>1, <2>1, <2>2 DEF SpendInv, OneBatch
<1> QED BY <1>2, <1>3

LEMMA SpendFinishes ==
    ASSUME TypeOK, SpendInv, TypeOK', EarnedInv', NEW n \in Nodes, NodeFinishes(n)
    PROVE  SpendInv'
<1>1. /\ pc = "batch" /\ n \in Todo /\ results[n] = InFlight
      /\ UNCHANGED <<pc, with_envelope, total, spent>>
  BY DEF NodeFinishes
<1>2. PICK state \in {"Succeeded", "Failed"}, k \in Usages :
        \E output \in IF state = "Succeeded" THEN NodeOutputs(graph, n) ELSE {"none"} :
          /\ results' = [results EXCEPT ![n] = [state |-> state, usage |-> k, output |-> output]]
          /\ used' = used + k
  BY DEF NodeFinishes
<1>3. PICK output :
        results' = [results EXCEPT ![n] = [state |-> state, usage |-> k, output |-> output]]
  BY <1>2
<1>4. k \in Nat /\ used' = used + k
  BY <1>2, SchedulerAssumption
<1>5. /\ Todo' = Todo /\ DOMAIN results' = Todo
      /\ results'[n].usage = k /\ results[n].usage = 0
      /\ \A m \in Todo \ {n} : results'[m] = results[m]
  <2>1. results'[n] = [state |-> state, usage |-> k, output |-> output]
    BY <1>1, <1>3 DEF Todo
  <2> QED BY <1>1, <1>3, <2>1 DEF Todo, InFlight
<1> DEFINE old == UsageUnits(results)
<1>6. /\ UsageUnits(results') = old \union ({n} \X (1..k))
      /\ old \cap ({n} \X (1..k)) = {}
  <2>1. \A t : t \in old <=> \E m \in Todo : t \in {m} \X (1..results[m].usage)
    BY UnitsOf DEF Todo
  <2>2. \A t : t \in UsageUnits(results') <=> \E m \in Todo : t \in {m} \X (1..results'[m].usage)
    BY <1>5, UnitsOf
  <2>3. 1..results[n].usage = {}
    BY <1>5
  <2>4. \A t : t \in old <=> \E m \in Todo \ {n} : t \in {m} \X (1..results[m].usage)
    BY <2>1, <2>3
  <2> HIDE DEF old, Todo
  <2>5. \A t : t \in UsageUnits(results') <=> t \in old \/ t \in {n} \X (1..k)
    BY <1>1, <1>5, <2>2, <2>4
  <2>6. \A t \in old : t \notin {n} \X (1..k)
    BY <2>4
  <2> QED BY <2>5, <2>6
<1>7. IsFiniteSet(old) /\ used = total + Cardinality(old) /\ (with_envelope => spent = total)
  BY <1>1 DEF SpendInv, UsedAccounted
<1> HIDE DEF old
<1>8. /\ IsFiniteSet(UsageUnits(results')) /\ Cardinality(old) \in Nat
      /\ Cardinality(UsageUnits(results')) = Cardinality(old) + k
  <2> DEFINE row == {n} \X (1..k)
  <2>1. IsFiniteSet(row) /\ Cardinality(row) = k
    BY <1>4, RowUnits
  <2>2. UsageUnits(results') = old \union row /\ old \cap row = {}
    BY <1>6
  <2> HIDE DEF row
  <2>3. /\ IsFiniteSet(old \union row) /\ Cardinality(old) \in Nat
        /\ Cardinality(old \union row) = Cardinality(old) + Cardinality(row)
    BY <1>7, <2>1, <2>2, AddRow
  <2> QED BY <2>1, <2>2, <2>3
<1>9. total \in Nat
  BY DEF TypeOK
<1>10. used' = total' + Cardinality(UsageUnits(results')) /\ (with_envelope' => spent' = total')
  BY <1>1, <1>4, <1>7, <1>8, <1>9
<1>11. UsedAccounted' /\ OneBatch'
  BY <1>5, <1>10 DEF SpendInv, UsedAccounted, OneBatch
<1>12. OverspendBounded'
  <2>1. Going'
    BY <1>1 DEF Going
  <2> QED BY <1>11, <2>1, BoundFollows, PTL
<1> HIDE DEF Todo
<1> QED BY <1>1, <1>8, <1>11, <1>12 DEF SpendInv

\* Steps that change no usage keep the spend as it is.
LEMMA SpendKept ==
    ASSUME SpendInv, DOMAIN results' = DOMAIN results,
           \A m \in DOMAIN results : results'[m].usage = results[m].usage,
           UNCHANGED <<pc, with_envelope, total, spent, used>>
    PROVE  SpendInv'
<1>1. Todo' = Todo
  BY DEF Todo
<1>2. UsageUnits(results') = UsageUnits(results)
  <2>1. \A t : t \in UsageUnits(results') <=> t \in UsageUnits(results)
    BY UnitsOf
  <2> QED BY <2>1
<1> HIDE DEF Todo
<1> QED BY <1>1, <1>2 DEF SpendInv, OverspendBounded, UsedAccounted, OneBatch

LEMMA SpendDispatch ==
    ASSUME SchedInv, SpendInv, TypeOK', EarnedInv', DispatchBatch
    PROVE  SpendInv'
<1> DEFINE batch == get_ready(queue, node_states, MaxConcurrent)
<1>1. /\ results' = [m \in batch |-> InFlight] /\ pc = "head" /\ pc' = "batch"
      /\ UNCHANGED <<with_envelope, total, spent, used>>
  BY DEF DispatchBatch
<1>2. queue \in Queues /\ queue.in_progress = {}
  BY <1>1 DEF SchedInv, TypeOK, NothingLeftInFlight
<1>3. IsFiniteSet(batch) /\ Cardinality(batch) <= MaxConcurrent
  BY <1>2, BatchSize
<1> HIDE DEF batch
<1>4. Todo' = batch /\ \A m \in batch : results'[m].usage = 0
  BY <1>1 DEF Todo, InFlight
<1>5. UsageUnits(results) = {} /\ UsageUnits(results') = {}
  <2>1. Todo = {}
    BY <1>1 DEF SpendInv
  <2>2. \A t : t \notin UsageUnits(results)
    BY <2>1, UnitsOf DEF Todo
  <2>3. \A m \in batch : 1..results'[m].usage = {}
    BY <1>4
  <2>4. \A t : t \notin UsageUnits(results')
    BY <1>4, <2>3, UnitsOf DEF Todo
  <2> QED BY <2>2, <2>4
<1>6. IsFiniteSet({}) /\ Cardinality({}) = 0
  BY FS_EmptySet
<1>7. used' = total' + Cardinality(UsageUnits(results')) /\ (with_envelope' => spent' = total')
  BY <1>1, <1>5 DEF SpendInv, UsedAccounted
<1> HIDE DEF Todo
<1>8. UsedAccounted' /\ OneBatch'
  BY <1>3, <1>4, <1>7 DEF UsedAccounted, OneBatch
<1>9. OverspendBounded'
  <2>1. Going'
    BY <1>1 DEF Going
  <2> QED BY <1>8, <2>1, BoundFollows, PTL
<1> QED BY <1>1, <1>5, <1>6, <1>8, <1>9 DEF SpendInv

LEMMA SpendStep == SchedInv /\ EarnedInv /\ SpendInv /\ [Next]_vars => SpendInv'
<1> SUFFICES ASSUME SchedInv, EarnedInv, SpendInv, [Next]_vars PROVE SpendInv'
  OBVIOUS
<1>0. TypeOK /\ TypeOK' /\ EarnedInv'
  BY StepInv, EarnedStep DEF SchedInv
<1>1. ASSUME NEW n \in Nodes, Apply(n) PROVE SpendInv'
  <2>1. CASE \/ ApplyConditional(n) \/ ApplyLoopContinue(n) \/ ApplyLoopExit(n)
             \/ ApplyTask(n) \/ ApplyLoopBack(n) \/ ApplyFailure(n)
    <3>1. IsNext(n) /\ Account(n) /\ Applied(n)
      BY <2>1 DEF ApplyConditional, ApplyLoopContinue, ApplyLoopExit, ApplyTask,
                  ApplyLoopBack, ApplyFailure, ApplyResult
    <3> QED BY <1>0, <3>1, SpendApplied
  <2>2. CASE ApplyLoopIterationLimit(n) \/ ApplyBreach(n)
    <3>1. pc' = "done" /\ results' = << >> /\ UNCHANGED <<with_envelope, used>>
      BY <2>2 DEF ApplyLoopIterationLimit, ApplyBreach
    <3> QED BY <3>1, SpendDone
  <2> QED BY <1>1, <2>1, <2>2 DEF Apply
<1>2. CASE AbortCancelled \/ FinishRun
  <2>1. pc' = "done" /\ results' = results /\ UNCHANGED <<with_envelope, used>>
    BY <1>2 DEF AbortCancelled, FinishRun
  <2> QED BY <2>1, SpendDone
<1>3. CASE DispatchBatch
  BY <1>0, <1>3, SpendDispatch
<1>4. ASSUME NEW n \in Nodes, NodeFinishes(n) PROVE SpendInv'
  BY <1>0, <1>4, SpendFinishes
<1>5. ASSUME NEW n \in Nodes, NodeCancelled(n) PROVE SpendInv'
  <2>1. /\ results' = [results EXCEPT ![n] = CancelledByClient] /\ results[n] = InFlight
        /\ UNCHANGED <<pc, with_envelope, total, spent, used>>
    BY <1>5 DEF NodeCancelled
  <2>2. /\ DOMAIN results' = DOMAIN results
        /\ \A m \in DOMAIN results : results'[m].usage = results[m].usage
    BY <2>1 DEF CancelledByClient, InFlight
  <2> QED BY <2>1, <2>2, SpendKept
<1>6. CASE CancelRequest \/ UNCHANGED vars
  BY <1>6, SpendKept DEF CancelRequest, vars
<1> QED BY <1>1, <1>2, <1>3, <1>4, <1>5, <1>6 DEF Next, SchedulerStep, ExecutorStep, Terminated

\* At the loop head the totals are exactly what was used, failed executions
\* included, and an envelope is exceeded by at most one batch (lib.rs:303-330).
THEOREM SpendIsAccounted == Spec => []SpendAccounted
<1>1. TypeOK /\ SpendInv => SpendAccounted
  <2> SUFFICES ASSUME TypeOK, SpendInv PROVE SpendAccounted
    OBVIOUS
  <2>1. ASSUME pc = "head" PROVE Cardinality(UsageUnits(results)) = 0
    <3>1. Todo = {}
      BY <2>1 DEF SpendInv
    <3>2. \A t : t \notin UsageUnits(results)
      BY <3>1, UnitsOf DEF Todo
    <3>3. UsageUnits(results) = {}
      BY <3>2
    <3> QED BY <3>3, FS_EmptySet, Zenon
  <2> QED BY <2>1 DEF SpendInv, UsedAccounted, SpendAccounted, AccountingExact, TypeOK
<1>2. Spec => [](TypeOK /\ SpendInv)
  BY EarnedInit, EarnedStep, SpendInit, SpendStep, InitInv, StepInv, SchedulerTypes, PTL DEF Spec
<1> QED BY <1>1, <1>2, PTL

-----------------------------------------------------------------------------
(***************************************************************************)
(* Graphs without a Loop node.  A node becomes ready when as many sources  *)
(* have activated it as it has incoming edges, and only an edge that has   *)
(* delivered its output activates; so a node that is ready, running or     *)
(* done had every input delivered, and nothing runs behind a failure.      *)
(***************************************************************************)

\* The edges over which an output has been handed: the source succeeded, its
\* output is there, and a Conditional chose the branch.
Chosen(e) == graph.kind[e.from] = "Conditional" => e.condition \in {"none", outputs[e.from]}
Delivered == {e \in graph.edges : /\ node_states[e.from] = "Succeeded"
                                  /\ outputs[e.from] # "absent"
                                  /\ Chosen(e)}
Sources(activated, n) == {f \in Nodes : <<f, n>> \in activated}

NonePending == \A n \in Nodes : node_states[n] # "Pending"
RunningInBatch == \A n \in Nodes : node_states[n] = "Running" => pc = "batch" /\ n \in Todo
RunInv == LoopFree => NonePending /\ RunningInBatch

ActivatedDelivered ==
    \A f, t \in Nodes : <<f, t>> \in queue.activated =>
        \E e \in Delivered : e.from = f /\ e.to = t
SatisfiedCounts == \A n \in Nodes : queue.satisfied[n] = Cardinality(Sources(queue.activated, n))
ReadyMet == \A n \in queue.ready : incoming(graph, n) \subseteq Delivered
StartedMet == \A n \in Nodes : node_states[n] \in {"Running", "Succeeded"} =>
                  incoming(graph, n) \subseteq Delivered
DepInv == LoopFree => ActivatedDelivered /\ SatisfiedCounts /\ ReadyMet /\ StartedMet

Lost(n) == node_states[n] \in {"Failed", "Skipped"}
FailureSpreads == LoopFree => \A e \in graph.edges : Lost(e.from) => Lost(e.to)

QueueAgrees == /\ \A n \in queue.completed : node_states[n] = "Succeeded"
               /\ \A n \in queue.failed : node_states[n] = "Failed"
ReadyWhenSatisfied ==
    \A n \in Nodes :
        node_states[n] = "None" /\ queue.satisfied[n] = total_incoming[graph][n] => n \in queue.ready
SuccessActivates ==
    outcome # "breached" => \A e \in Delivered : <<e.from, e.to>> \in queue.activated
AgreeInv == LoopFree => QueueAgrees /\ ReadyWhenSatisfied /\ SuccessActivates

\* Without Loop nodes there are no back-edges: every incoming edge gates.
LEMMA NoBackEdges ==
    ASSUME graph \in Graphs, LoopFree
    PROVE  /\ \A f, t : <<f, t>> \notin back_edges[graph]
           /\ \A n \in Nodes : total_incoming[graph][n] = Cardinality(incoming(graph, n))
           /\ \A n \in Nodes : ~InLoop(n) /\ ~Rearms(n)
<1>1. \A e \in graph.edges : ~IsBackEdge(graph, e)
  BY EdgesType DEF LoopFree, IsBackEdge
<1>2. back_edges[graph] = {}
  BY <1>1 DEF back_edges
<1>3. \A n \in Nodes : GatingEdges(graph, n) = incoming(graph, n)
  BY <1>2 DEF GatingEdges
<1>4. \A n \in Nodes : total_incoming[graph][n] = Cardinality(incoming(graph, n))
  BY <1>3 DEF total_incoming
<1>5. \A n \in Nodes : ~InLoop(n) /\ ~Rearms(n)
  BY <1>2 DEF InLoop, LoopFree, Rearms, has_loop_back_edge
<1> QED BY <1>2, <1>4, <1>5

\* As many activating sources as incoming edges: every edge has delivered.
LEMMA AllDelivered ==
    ASSUME NEW g \in Graphs, NEW n \in Nodes, NEW activated, NEW D \in SUBSET g.edges,
           \A f \in Nodes : <<f, n>> \in activated => \E e \in D : e.from = f /\ e.to = n,
           Cardinality(Sources(activated, n)) = Cardinality(incoming(g, n))
    PROVE  incoming(g, n) \subseteq D
<1> DEFINE S == Sources(activated, n)
           T == incoming(g, n)
           by == [f \in S |-> CHOOSE e \in D : e.from = f /\ e.to = n]
<1>1. \A f \in S : by[f] \in D /\ by[f].from = f /\ by[f].to = n
  BY DEF Sources
<1>2. \A f \in S : by[f] \in T
  BY <1>1 DEF incoming
<1>3. by \in [S -> T]
  BY <1>2
<1>4. IsFiniteSet(T)
  <2>1. T \in SUBSET g.edges
    BY DEF incoming
  <2> QED BY <2>1, EdgesType, FS_Subset
<1>9. Cardinality(S) = Cardinality(T)
  OBVIOUS
<1> HIDE DEF by, S, T
<1>5. by \in Injection(S, T)
  <2>1. \A a, b \in S : by[a] = by[b] => a = b
    BY <1>1
  <2> QED BY <1>3, <2>1, Zenon DEF Injection, IsInjective
<1>6. by \in Surjection(S, T)
  BY <1>4, <1>5, <1>9, FS_Injection, Zenon
<1>7. \A e \in T : \E f \in S : by[f] = e
  BY <1>6, Zenon DEF Surjection
<1>8. T \subseteq D
  BY <1>1, <1>7
<1> QED BY <1>8 DEF T

\* Conversely, when every edge has activated and no two share a source.
LEMMA AllActivated ==
    ASSUME NEW g \in Graphs, NEW n \in Nodes, NEW activated,
           \A f \in Nodes : <<f, n>> \in activated => \E e \in incoming(g, n) : e.from = f,
           \A e \in incoming(g, n) : <<e.from, n>> \in activated,
           \A d, e \in incoming(g, n) : d.from = e.from => d = e
    PROVE  Cardinality(Sources(activated, n)) = Cardinality(incoming(g, n))
<1> DEFINE S == Sources(activated, n)
           T == incoming(g, n)
           source == [e \in T |-> e.from]
<1>0. \A e \in T : e.from \in Nodes
  BY EdgesType DEF incoming
<1>1. source \in [T -> S]
  BY <1>0 DEF Sources
<1>2. \A f \in S : \E e \in T : source[e] = f
  BY DEF Sources
<1>3. \A d, e \in T : source[d] = source[e] => d = e
  OBVIOUS
<1>4. IsFiniteSet(T)
  <2>1. T \in SUBSET g.edges
    BY DEF incoming
  <2> QED BY <2>1, EdgesType, FS_Subset
<1> HIDE DEF source, S, T
<1>5. source \in Surjection(T, S) /\ source \in Injection(T, S)
  BY <1>1, <1>2, <1>3, Zenon DEF Surjection, Injection, IsInjective
<1>6. Cardinality(S) = Cardinality(T)
  BY <1>4, <1>5, FS_Surjection
<1> QED BY <1>6 DEF S, T

\* The fields of the queue after an activation.
LEMMA ActivateFields ==
    ASSUME NEW g \in Graphs, NEW q \in Queues, NEW from \in Nodes, NEW targets \in SUBSET Nodes
    PROVE  LET new == {t \in targets : <<from, t>> \notin q.activated}
               r == Activate(g, q, from, targets)
           IN /\ r.completed = q.completed /\ r.failed = q.failed
              /\ r.activated = q.activated \union ({from} \X new)
              /\ r.satisfied = [n \in Nodes |-> q.satisfied[n] + IF n \in new THEN 1 ELSE 0]
              /\ r.ready = q.ready \union {t \in new : /\ r.satisfied[t] = total_incoming[g][t]
                                                       /\ t \notin q.completed \union q.failed}
<1> DEFINE new == {t \in targets : <<from, t>> \notin q.activated}
           satisfied == [n \in Nodes |-> q.satisfied[n] + IF n \in new THEN 1 ELSE 0]
           more == {t \in new : /\ satisfied[t] = total_incoming[g][t]
                                /\ t \notin q.completed \union q.failed}
           pairs == {from} \X new
           r == Activate(g, q, from, targets)
<1>1. r = [q EXCEPT !.activated = @ \union pairs, !.satisfied = satisfied,
                    !.ready = @ \union more]
  BY DEF Activate
<1> HIDE DEF r, more, satisfied, pairs, new
<1>2. /\ r.completed = q.completed /\ r.failed = q.failed
      /\ r.activated = q.activated \union pairs
      /\ r.satisfied = satisfied
      /\ r.ready = q.ready \union more
  BY <1>1 DEF Queues
<1> QED BY <1>2 DEF r, more, satisfied, pairs, new

LEMMA MarkFields ==
    ASSUME NEW q \in Queues, NEW n \in Nodes
    PROVE  LET r == mark_conditional_completed(q, n)
           IN /\ r.completed = q.completed \union {n} /\ r.failed = q.failed
              /\ r.activated = q.activated /\ r.satisfied = q.satisfied
              /\ r.ready = q.ready \ {n}
BY DEF mark_conditional_completed, Queues

\* The edges over which the success of n hands its output.
Matched(n) == {e \in outgoing(graph, n) :
                 graph.kind[n] = "Conditional" => e.condition \in {"none", results[n].output}}
NewTargets(n) == {t \in Targets(Matched(n)) : <<n, t>> \notin queue.activated}
Succeeds(n) == ApplyConditional(n) \/ ApplyTask(n)

\* A success without loops: the queue activates the matched edges of n.
LEMMA SucceedsQueue ==
    ASSUME SchedInv, LoopFree, NEW n \in Nodes, Succeeds(n)
    PROVE  LET new == NewTargets(n)
           IN /\ queue'.completed = queue.completed \union {n}
              /\ queue'.failed = queue.failed
              /\ queue'.activated = queue.activated \union ({n} \X new)
              /\ queue'.satisfied =
                   [m \in Nodes |-> queue.satisfied[m] + IF m \in new THEN 1 ELSE 0]
              /\ queue'.ready = (queue.ready \ {n}) \union
                   {t \in new : /\ queue'.satisfied[t] = total_incoming[graph][t]
                                /\ t \notin (queue.completed \union {n}) \union queue.failed}
<1> DEFINE r == mark_conditional_completed(queue, n)
           targets == Targets(Matched(n))
<1>0. graph \in Graphs /\ queue \in Queues
  BY DEF SchedInv, TypeOK
<1>1. r \in Queues
  BY <1>0, MarkConditionalShrinks DEF Shrinks
<1>2. /\ r.completed = queue.completed \union {n} /\ r.failed = queue.failed
      /\ r.activated = queue.activated /\ r.satisfied = queue.satisfied
      /\ r.ready = queue.ready \ {n}
  BY <1>0, MarkFields
<1>3. targets \in SUBSET Nodes
  BY <1>0, TargetsType DEF Matched, outgoing
<1> DEFINE q == Activate(graph, r, n, targets)
<1>4. q \in Queues
  <2> HIDE DEF r, targets
  <2> QED BY <1>0, <1>1, <1>3, ActivateShrinks DEF Shrinks
<1>5. queue' = q
  <2>1. CASE ApplyConditional(n)
    <3> DEFINE matched == {e \in outgoing(graph, n) : e.condition \in {"none", results[n].output}}
    <3>1. graph.kind[n] = "Conditional" /\ queue' = activate_edges(graph, r, n, Targets(matched))
      BY <2>1 DEF ApplyConditional
    <3>2. matched = Matched(n)
      BY <3>1 DEF Matched
    <3>3. queue' = activate_edges(graph, r, n, targets)
      BY <3>1, <3>2
    <3>4. {t \in targets : <<n, t>> \in back_edges[graph]} = {} /\ targets \ {} = targets
      BY <1>0, NoBackEdges
    <3> HIDE DEF targets, r
    <3>5. queue' = [q EXCEPT !.ready = @ \union {}]
      BY <3>3, <3>4 DEF activate_edges
    <3> HIDE DEF q
    <3> QED BY <1>4, <3>5 DEF Queues
  <2>2. CASE ApplyTask(n)
    <3>1. graph.kind[n] = "Task" /\ queue' = mark_completed(graph, queue, n)
      BY <2>2 DEF ApplyTask
    <3>2. n \notin selective_sources(graph) /\ Matched(n) = outgoing(graph, n)
      BY <3>1 DEF selective_sources, Matched
    <3> HIDE DEF r
    <3> QED BY <3>1, <3>2 DEF mark_completed, try_activate_downstream, r
  <2> QED BY <2>1, <2>2 DEF Succeeds
<1>6. NewTargets(n) = {t \in targets : <<n, t>> \notin r.activated}
  BY <1>2 DEF NewTargets
<1> HIDE DEF r, targets
<1>7. /\ q.completed = r.completed /\ q.failed = r.failed
      /\ q.activated = r.activated \union ({n} \X NewTargets(n))
      /\ q.satisfied = [m \in Nodes |-> r.satisfied[m] + IF m \in NewTargets(n) THEN 1 ELSE 0]
      /\ q.ready = r.ready \union
           {t \in NewTargets(n) : /\ q.satisfied[t] = total_incoming[graph][t]
                                  /\ t \notin r.completed \union r.failed}
  BY <1>0, <1>1, <1>3, <1>6, ActivateFields
<1> HIDE DEF q
<1> QED BY <1>2, <1>5, <1>7

\* What every step of a run without loops does.
Quiet == /\ UNCHANGED <<graph, queue, node_states, outputs>> /\ Todo' = Todo
         /\ pc' = pc \/ (pc = "head" /\ pc' = "done")
         /\ outcome' = outcome \/ pc = "head"

LEMMA LoopFreeStep ==
    ASSUME SchedInv, LoopFree, [Next]_vars
    PROVE  /\ LoopFree' /\ graph' = graph
           /\ \/ \E n \in Nodes : Succeeds(n) \/ ApplyFailure(n) \/ ApplyBreach(n)
              \/ DispatchBatch
              \/ Quiet
<1>0. graph \in Graphs /\ results \in [Todo -> NodeExecutionResult \union {InFlight}]
  BY DEF SchedInv, TypeOK
<1>1. ASSUME NEW n \in Nodes, Apply(n)
      PROVE  graph' = graph /\ (Succeeds(n) \/ ApplyFailure(n) \/ ApplyBreach(n))
  <2>1. ~Rearms(n) /\ graph.kind[n] # "Loop"
    BY <1>0, NoBackEdges DEF LoopFree
  <2>2. ApplyConditional(n) \/ ApplyTask(n) \/ ApplyFailure(n) \/ ApplyBreach(n)
    BY <1>1, <2>1 DEF Apply, ApplyLoopContinue, ApplyLoopIterationLimit, ApplyLoopExit,
                      ApplyLoopBack
  <2> QED BY <2>2 DEF Succeeds, ApplyConditional, ApplyTask, ApplyFailure, ApplyBreach, Applied
<1>2. ASSUME CancelRequest \/ ExecutorStep \/ AbortCancelled \/ FinishRun \/ UNCHANGED vars
      PROVE  Quiet
  BY <1>0, <1>2 DEF CancelRequest, ExecutorStep, AbortCancelled, FinishRun, vars, NodeFinishes,
              NodeCancelled, Todo, Quiet
<1>3. ASSUME DispatchBatch PROVE graph' = graph
  BY <1>3 DEF DispatchBatch
<1>4. graph' = graph
  BY <1>1, <1>2, <1>3 DEF Next, SchedulerStep, Terminated, Quiet
<1>5. \/ \E n \in Nodes : Succeeds(n) \/ ApplyFailure(n) \/ ApplyBreach(n)
      \/ DispatchBatch
      \/ Quiet
  BY <1>1, <1>2, <1>3 DEF Next, SchedulerStep, Terminated
<1> QED BY <1>4, <1>5 DEF LoopFree

\* A success, in terms of the states and outputs.
LEMMA SucceedsStates ==
    ASSUME TypeOK, NEW n \in Nodes, Succeeds(n)
    PROVE  /\ n \in Todo /\ pc = "batch" /\ Todo' = Todo \ {n}
           /\ pc' = IF Todo = {n} THEN "head" ELSE "batch"
           /\ node_states' = [node_states EXCEPT ![n] = "Succeeded"]
           /\ outputs' = [outputs EXCEPT ![n] = results[n].output]
           /\ results[n].output \in Outputs
           /\ UNCHANGED <<graph, outcome>>
<1>1. IsNext(n) /\ Applied(n) /\ RecordOutput(n)
  BY DEF Succeeds, ApplyConditional, ApplyTask, ApplyResult
<1> QED BY <1>1, NextResult DEF Succeeds, ApplyConditional, ApplyTask, Applied, RecordOutput, Todo

LEMMA FailureStates ==
    ASSUME TypeOK, NEW n \in Nodes, ApplyFailure(n)
    PROVE  /\ n \in Todo /\ pc = "batch" /\ Todo' = Todo \ {n}
           /\ pc' = IF Todo = {n} THEN "head" ELSE "batch"
           /\ node_states' = [m \in Nodes |-> IF m \in Cascade(n) \union {n}
                                              THEN "Failed" ELSE node_states[m]]
           /\ queue' = mark_failed(queue, Cascade(n) \union {n})
           /\ UNCHANGED <<graph, outputs, outcome>>
<1>1. IsNext(n) /\ Applied(n)
  BY DEF ApplyFailure, ApplyResult
<1> QED BY <1>1, NextResult DEF ApplyFailure, Applied, Todo

\* A breach decides every node: those decided before stay as they are, and the
\* node that breached takes the state of its result.
LEMMA BreachStates ==
    ASSUME TypeOK, NEW n \in Nodes, ApplyBreach(n)
    PROVE  /\ n \in Todo /\ pc = "batch" /\ pc' = "done" /\ outcome' = "breached"
           /\ \A m \in Nodes \ {n} : IF IsTerminal(node_states[m])
                                     THEN node_states'[m] = node_states[m]
                                     ELSE node_states'[m] \in {"Failed", "Skipped"}
           /\ node_states'[n] = results[n].state /\ results[n].state \in {"Succeeded", "Failed"}
           /\ \A m \in Nodes \ {n} : outputs'[m] = outputs[m]
           /\ node_states'[n] = "Succeeded" => outputs'[n] # "absent"
           /\ UNCHANGED <<graph, queue>>
<1> DEFINE kept == [node_states EXCEPT ![n] = results[n].state]
           siblings == {m \in batch_ids : ~IsTerminal(kept[m])}
<1>1. /\ IsNext(n) /\ pc' = "done" /\ outcome' = "breached" /\ UNCHANGED <<graph, queue>>
      /\ node_states' = [m \in Nodes |-> CASE m \in siblings      -> "Failed"
                                           [] IsTerminal(kept[m]) -> kept[m]
                                           [] OTHER               -> "Skipped"]
      /\ IF results[n].state = "Succeeded" THEN RecordOutput(n) ELSE UNCHANGED outputs
  BY DEF ApplyBreach
<1>2. n \in Todo /\ pc = "batch" /\ results[n].output \in Outputs
  BY <1>1, NextResult
<1>3. results[n].state \in {"Succeeded", "Failed"}
  BY <1>1, <1>2 DEF TypeOK, IsNext, NodeExecutionResult
<1>4. /\ kept[n] = results[n].state
      /\ \A m \in Nodes \ {n} : kept[m] = node_states[m]
  BY DEF TypeOK
<1>5. \A m \in Nodes : IF IsTerminal(kept[m]) THEN node_states'[m] = kept[m]
                                              ELSE node_states'[m] \in {"Failed", "Skipped"}
  <2> HIDE DEF kept
  <2> QED BY <1>1
<1>6. /\ \A m \in Nodes \ {n} : outputs'[m] = outputs[m]
      /\ results[n].state = "Succeeded" => outputs'[n] # "absent"
  BY <1>1, <1>2 DEF TypeOK, RecordOutput, Outputs, Labels, Decisions
<1> HIDE DEF kept, siblings
<1>7. node_states'[n] = results[n].state
  BY <1>3, <1>4, <1>5 DEF IsTerminal
<1> QED BY <1>1, <1>2, <1>3, <1>4, <1>5, <1>6, <1>7

LEMMA DispatchStates ==
    ASSUME SchedInv, DispatchBatch
    PROVE  \E batch \in SUBSET queue.ready :
             /\ batch \subseteq Nodes \ (queue.completed \union queue.failed)
             /\ \A m \in batch : ~IsTerminal(node_states[m])
             /\ node_states' = [m \in Nodes |-> IF m \in batch THEN "Running" ELSE node_states[m]]
             /\ queue' = mark_in_progress(queue, batch)
             /\ Todo' = batch /\ pc = "head" /\ pc' = "batch"
             /\ UNCHANGED <<graph, outputs, outcome>>
<1> DEFINE batch == get_ready(queue, node_states, MaxConcurrent)
<1>1. batch \subseteq Eligible(queue, node_states)
  BY DEF get_ready
<1>2. /\ batch \in SUBSET queue.ready
      /\ batch \subseteq Nodes \ (queue.completed \union queue.failed)
      /\ \A m \in batch : ~IsTerminal(node_states[m])
  BY <1>1 DEF Eligible, SchedInv, TypeOK, Queues
<1>3. /\ node_states' = [m \in Nodes |-> IF m \in batch THEN "Running" ELSE node_states[m]]
      /\ queue' = mark_in_progress(queue, batch)
      /\ Todo' = batch /\ pc = "head" /\ pc' = "batch" /\ UNCHANGED <<graph, outputs, outcome>>
  BY DEF DispatchBatch, Todo
<1> HIDE DEF batch
<1> QED BY <1>2, <1>3

LEMMA GraphFrozen ==
    ASSUME [Next]_vars
    PROVE  graph' = graph /\ (LoopFree' <=> LoopFree)
<1>1. graph' = graph
  BY DEF Next, CancelRequest, ExecutorStep, NodeFinishes, NodeCancelled, SchedulerStep,
         AbortCancelled, FinishRun, DispatchBatch, Apply, ApplyBreach, ApplyConditional,
         ApplyLoopContinue, ApplyLoopIterationLimit, ApplyLoopExit, ApplyTask, ApplyLoopBack,
         ApplyFailure, Applied, Terminated, vars
<1> QED BY <1>1 DEF LoopFree

\* Nothing waits as Pending, and only the nodes of the batch are Running.
LEMMA RunStep == SchedInv /\ BatchRuns /\ RunInv /\ [Next]_vars => RunInv'
<1> SUFFICES ASSUME SchedInv, BatchRuns, RunInv, [Next]_vars, LoopFree'
             PROVE  NonePending' /\ RunningInBatch'
  BY DEF RunInv
<1>0. LoopFree /\ TypeOK /\ node_states \in [Nodes -> States]
  BY GraphFrozen DEF SchedInv, TypeOK
<1>1. NonePending /\ RunningInBatch
  BY <1>0 DEF RunInv
<1>2. CASE \E n \in Nodes : Succeeds(n)
  <2>1. PICK n \in Nodes : Succeeds(n)
    BY <1>2
  <2> QED BY <1>0, <1>1, <2>1, SucceedsStates DEF NonePending, RunningInBatch
<1>3. CASE \E n \in Nodes : ApplyFailure(n)
  <2>1. PICK n \in Nodes : ApplyFailure(n)
    BY <1>3
  <2>2. \A m \in Nodes : \/ m # n /\ node_states'[m] = node_states[m]
                         \/ node_states'[m] = "Failed"
    BY <1>0, <2>1, FailureStates
  <2> QED BY <1>0, <1>1, <2>1, <2>2, FailureStates DEF NonePending, RunningInBatch
<1>4. CASE \E n \in Nodes : ApplyBreach(n)
  <2>1. PICK n \in Nodes : ApplyBreach(n)
    BY <1>4
  <2>2. \A m \in Nodes : node_states'[m] \in {"Succeeded", "Failed", "Skipped"}
    BY <1>0, <2>1, BreachStates DEF IsTerminal
  <2> QED BY <2>2 DEF NonePending, RunningInBatch
<1>5. CASE DispatchBatch
  <2>1. pc = "head" /\ pc' = "batch" /\ \A m \in Nodes :
           \/ node_states'[m] = "Running" /\ m \in Todo'
           \/ node_states'[m] = node_states[m]
    BY <1>5, DispatchStates
  <2> QED BY <1>1, <2>1 DEF NonePending, RunningInBatch
<1>6. CASE Quiet
  BY <1>1, <1>6 DEF Quiet, NonePending, RunningInBatch
<1> QED BY <1>0, <1>2, <1>3, <1>4, <1>5, <1>6, LoopFreeStep

LEMMA RunInit == Init => RunInv
BY DEF Init, RunInv, NonePending, RunningInBatch

\* In a run without loops nothing is Pending (lib.rs:239 goes straight to Running) and
\* what is Running has a result still to be applied.
THEOREM RunInvariant == Spec => []RunInv
BY RunInit, RunStep, SchedulerInvariance, BatchRunsInvariant, PTL DEF Spec

\* In a run without loops the node whose result is applied was Running.
LEMMA AppliedWasRunning ==
    ASSUME SchedInv, BatchRuns, LoopFree, pc = "batch", NEW n \in Todo
    PROVE  node_states[n] = "Running"
<1>1. graph \in Graphs /\ n \in Nodes
  BY DEF SchedInv, TypeOK
<1> QED BY <1>1, NoBackEdges DEF BatchRuns

\* A success is final, and its output is not overwritten.
LEMMA SuccessFinal ==
    ASSUME SchedInv, BatchRuns, LoopFree, [Next]_vars,
           NEW m \in Nodes, node_states[m] = "Succeeded"
    PROVE  node_states'[m] = "Succeeded" /\ outputs'[m] = outputs[m]
<1>0. /\ TypeOK /\ node_states \in [Nodes -> States] /\ graph \in Graphs
      /\ outputs \in [Nodes -> Outputs \union {"absent"}]
  BY DEF SchedInv, TypeOK
<1>1. CASE \E n \in Nodes : Succeeds(n)
  <2>1. PICK n \in Nodes : Succeeds(n)
    BY <1>1
  <2>2. m # n
    BY <1>0, <2>1, SucceedsStates, AppliedWasRunning
  <2> QED BY <1>0, <2>1, <2>2, SucceedsStates
<1>2. CASE \E n \in Nodes : ApplyFailure(n)
  <2>1. PICK n \in Nodes : ApplyFailure(n)
    BY <1>2
  <2>2. m # n
    BY <1>0, <2>1, FailureStates, AppliedWasRunning
  <2>3. m \notin Cascade(n)
    BY <1>0, CascadeNotStarted DEF NotStarted
  <2> QED BY <1>0, <2>1, <2>2, <2>3, FailureStates
<1>3. CASE \E n \in Nodes : ApplyBreach(n)
  <2>1. PICK n \in Nodes : ApplyBreach(n)
    BY <1>3
  <2>2. m # n
    BY <1>0, <2>1, BreachStates, AppliedWasRunning
  <2> QED BY <1>0, <2>1, <2>2, BreachStates DEF IsTerminal
<1>4. CASE DispatchBatch
  <2>1. \/ node_states'[m] = node_states[m]
        \/ ~IsTerminal(node_states[m])
    BY <1>4, DispatchStates
  <2>2. outputs' = outputs
    BY <1>4, DispatchStates
  <2> QED BY <2>1, <2>2 DEF IsTerminal
<1>5. CASE Quiet
  BY <1>5 DEF Quiet
<1> QED BY <1>1, <1>2, <1>3, <1>4, <1>5, LoopFreeStep

LEMMA DeliveredGrows ==
    ASSUME SchedInv, BatchRuns, LoopFree, [Next]_vars
    PROVE  Delivered \subseteq Delivered'
<1>1. graph' = graph /\ \A e \in graph.edges : e.from \in Nodes
  BY GraphFrozen, EdgesType DEF SchedInv, TypeOK
<1>2. \A e \in Delivered : node_states'[e.from] = "Succeeded" /\ outputs'[e.from] = outputs[e.from]
  BY <1>1, SuccessFinal DEF Delivered
<1> QED BY <1>1, <1>2 DEF Delivered, Chosen

\* A success delivers over the matched edges, and counts each source once.
LEMMA SucceedsDelivers ==
    ASSUME SchedInv, BatchRuns, LoopFree, DepInv, [Next]_vars, NEW n \in Nodes, Succeeds(n)
    PROVE  ActivatedDelivered' /\ SatisfiedCounts'
<1> DEFINE new == NewTargets(n)
<1>0. /\ TypeOK /\ graph \in Graphs /\ graph' = graph
      /\ queue.activated \in SUBSET (Nodes \X Nodes) /\ queue.satisfied \in [Nodes -> Nat]
      /\ outputs \in [Nodes -> Outputs \union {"absent"}] /\ node_states \in [Nodes -> States]
  BY GraphFrozen DEF SchedInv, TypeOK, Queues
<1>1. /\ queue'.activated = queue.activated \union ({n} \X new)
      /\ queue'.satisfied = [m \in Nodes |-> queue.satisfied[m] + IF m \in new THEN 1 ELSE 0]
  BY SucceedsQueue
<1>2. \A t \in new : \E e \in Delivered' : e.from = n /\ e.to = t
  <2> SUFFICES ASSUME NEW t \in new PROVE \E e \in Delivered' : e.from = n /\ e.to = t
    OBVIOUS
  <2>1. PICK e \in Matched(n) : e.to = t
    BY DEF NewTargets, Targets
  <2>2. /\ e \in graph.edges /\ e.from = n
        /\ graph.kind[n] = "Conditional" => e.condition \in {"none", results[n].output}
    BY DEF Matched, outgoing
  <2>3. /\ node_states'[n] = "Succeeded" /\ outputs'[n] = results[n].output
        /\ results[n].output \in Outputs
    BY <1>0, SucceedsStates
  <2>4. results[n].output # "absent"
    BY <2>3 DEF Outputs, Labels, Decisions
  <2>5. e \in Delivered'
    BY <1>0, <2>2, <2>3, <2>4 DEF Delivered, Chosen
  <2> QED BY <2>1, <2>2, <2>5
<1>3. ActivatedDelivered'
  <2> SUFFICES ASSUME NEW f \in Nodes, NEW t \in Nodes, <<f, t>> \in queue'.activated
               PROVE  \E e \in Delivered' : e.from = f /\ e.to = t
    BY DEF ActivatedDelivered
  <2> HIDE DEF new
  <2>1. <<f, t>> \in queue.activated \/ (f = n /\ t \in new)
    BY <1>1
  <2>2. CASE <<f, t>> \in queue.activated
    BY <2>2, DeliveredGrows DEF DepInv, ActivatedDelivered
  <2> QED BY <1>2, <2>1, <2>2
<1>4. SatisfiedCounts'
  <2> SUFFICES ASSUME NEW m \in Nodes
               PROVE  queue'.satisfied[m] = Cardinality(Sources(queue'.activated, m))
    BY DEF SatisfiedCounts
  <2> DEFINE S == Sources(queue.activated, m)
  <2>1. IsFiniteSet(S) /\ Cardinality(S) \in Nat /\ queue.satisfied[m] = Cardinality(S)
    <3>1. S \in SUBSET Nodes
      BY DEF Sources
    <3>2. IsFiniteSet(S)
      BY <3>1, NodesAssumption, FS_Subset
    <3> QED BY <3>2, FS_CardinalityType DEF DepInv, SatisfiedCounts
  <2>2. CASE m \in new
    <3>1. n \notin S
      BY <2>2 DEF NewTargets, Sources
    <3>2. Sources(queue'.activated, m) = S \union {n}
      <4> HIDE DEF new
      <4> QED BY <1>1, <2>2 DEF Sources
    <3> HIDE DEF S, new
    <3>3. Cardinality(S \union {n}) = Cardinality(S) + 1
      BY <2>1, <3>1, FS_AddElement
    <3> QED BY <1>1, <2>1, <2>2, <3>2, <3>3
  <2>3. CASE m \notin new
    <3>1. Sources(queue'.activated, m) = S
      <4> HIDE DEF new
      <4> QED BY <1>1, <2>3 DEF Sources
    <3> HIDE DEF S, new
    <3> QED BY <1>1, <2>1, <2>3, <3>1
  <2> QED BY <2>2, <2>3
<1> QED BY <1>3, <1>4

\* Steps that leave the activations alone and add nothing to the ready set.
LEMMA DepKept ==
    ASSUME SchedInv, BatchRuns, LoopFree, DepInv, [Next]_vars,
           UNCHANGED <<queue.activated, queue.satisfied>>, queue'.ready \subseteq queue.ready,
           \A m \in Nodes : node_states'[m] \in {"Running", "Succeeded"} =>
              node_states[m] \in {"Running", "Succeeded"} \/ m \in queue.ready
    PROVE  DepInv'
<1>0. /\ Delivered \subseteq Delivered' /\ graph' = graph
      /\ ActivatedDelivered /\ SatisfiedCounts /\ ReadyMet /\ StartedMet
  BY DeliveredGrows, GraphFrozen DEF DepInv
<1>1. ActivatedDelivered'
  BY <1>0 DEF ActivatedDelivered
<1>2. SatisfiedCounts'
  BY <1>0 DEF SatisfiedCounts
<1>3. ReadyMet'
  BY <1>0 DEF ReadyMet
<1>4. StartedMet'
  BY <1>0 DEF StartedMet, ReadyMet
<1> QED BY <1>1, <1>2, <1>3, <1>4 DEF DepInv

LEMMA DepStep == SchedInv /\ BatchRuns /\ DepInv /\ [Next]_vars => DepInv'
<1> SUFFICES ASSUME SchedInv, BatchRuns, DepInv, [Next]_vars, LoopFree PROVE DepInv'
  BY GraphFrozen DEF DepInv
<1>0. /\ TypeOK /\ node_states \in [Nodes -> States] /\ graph \in Graphs /\ graph' = graph
      /\ queue \in Queues
  BY GraphFrozen DEF SchedInv, TypeOK
<1>1. ASSUME NEW n \in Nodes, Succeeds(n) PROVE DepInv'
  <2> DEFINE new == NewTargets(n)
  <2>1. ActivatedDelivered' /\ SatisfiedCounts' /\ Delivered \subseteq Delivered'
    BY <1>1, SucceedsDelivers, DeliveredGrows
  <2>2. queue'.ready = (queue.ready \ {n}) \union
          {t \in new : /\ queue'.satisfied[t] = total_incoming[graph][t]
                       /\ t \notin (queue.completed \union {n}) \union queue.failed}
    BY <1>1, SucceedsQueue
  <2>3. new \subseteq Nodes
    BY <1>0, TargetsType DEF NewTargets, Matched, outgoing
  <2>4. ASSUME NEW t \in new, queue'.satisfied[t] = total_incoming[graph][t]
        PROVE  incoming(graph, t) \subseteq Delivered'
    <3>1. t \in Nodes /\ Delivered' \in SUBSET graph.edges
      BY <1>0, <2>3 DEF Delivered
    <3>2. \A f \in Nodes : <<f, t>> \in queue'.activated => \E e \in Delivered' : e.from = f /\ e.to = t
      BY <2>1, <3>1 DEF ActivatedDelivered
    <3>3. Cardinality(Sources(queue'.activated, t)) = Cardinality(incoming(graph, t))
      BY <1>0, <2>1, <2>4, <3>1, NoBackEdges DEF SatisfiedCounts
    <3> QED BY <1>0, <3>1, <3>2, <3>3, AllDelivered
  <2>5. ReadyMet'
    <3> HIDE DEF new
    <3> QED BY <1>0, <2>1, <2>2, <2>4 DEF DepInv, ReadyMet
  <2>6. StartedMet'
    <3>1. \A m \in Nodes : node_states'[m] \in {"Running", "Succeeded"} =>
                             node_states[m] \in {"Running", "Succeeded"}
      BY <1>0, <1>1, SucceedsStates, AppliedWasRunning
    <3> QED BY <1>0, <2>1, <3>1 DEF DepInv, StartedMet
  <2> QED BY <2>1, <2>5, <2>6 DEF DepInv
<1>2. ASSUME NEW n \in Nodes, ApplyFailure(n) PROVE DepInv'
  <2>1. queue' = mark_failed(queue, Cascade(n) \union {n})
    BY <1>0, <1>2, FailureStates
  <2>2. UNCHANGED <<queue.activated, queue.satisfied>> /\ queue'.ready \subseteq queue.ready
    <3> DEFINE nodes == Cascade(n) \union {n}
    <3>1. queue' = mark_failed(queue, nodes)
      BY <2>1
    <3> HIDE DEF nodes
    <3> QED BY <1>0, <3>1 DEF mark_failed, Queues
  <2>3. \A m \in Nodes : node_states'[m] = "Failed" \/ node_states'[m] = node_states[m]
    BY <1>0, <1>2, FailureStates
  <2> QED BY <2>2, <2>3, DepKept
<1>3. ASSUME NEW n \in Nodes, ApplyBreach(n) PROVE DepInv'
  <2>1. queue' = queue
    BY <1>0, <1>3, BreachStates
  <2>2. node_states[n] = "Running"
    BY <1>0, <1>3, BreachStates, AppliedWasRunning
  <2>3. \A m \in Nodes \ {n} : node_states'[m] \in {"Failed", "Skipped"} \/ node_states'[m] = node_states[m]
    BY <1>0, <1>3, BreachStates
  <2> QED BY <2>1, <2>2, <2>3, DepKept
<1>4. CASE DispatchBatch
  <2>1. PICK batch \in SUBSET queue.ready :
          /\ node_states' = [m \in Nodes |-> IF m \in batch THEN "Running" ELSE node_states[m]]
          /\ queue' = mark_in_progress(queue, batch)
    BY <1>4, DispatchStates
  <2>2. UNCHANGED <<queue.activated, queue.satisfied>> /\ queue'.ready \subseteq queue.ready
    BY <1>0, <2>1 DEF mark_in_progress, Queues
  <2>3. \A m \in Nodes : m \in queue.ready \/ node_states'[m] = node_states[m]
    BY <1>0, <2>1
  <2> QED BY <2>2, <2>3, DepKept
<1>5. CASE Quiet
  <2>1. UNCHANGED <<queue, node_states>>
    BY <1>5 DEF Quiet
  <2> QED BY <2>1, DepKept
<1> QED BY <1>1, <1>2, <1>3, <1>4, <1>5, LoopFreeStep

LEMMA DepInit == Init => DepInv
<1> SUFFICES ASSUME Init, LoopFree PROVE DepInv
  BY DEF DepInv
<1>1. /\ graph \in Graphs /\ queue.activated = {} /\ queue.satisfied = [n \in Nodes |-> 0]
      /\ queue.ready = {n \in Nodes : total_incoming[graph][n] = 0}
      /\ node_states = [n \in Nodes |-> "None"]
  BY DEF Init, NewQueue
<1>2. \A n \in queue.ready : incoming(graph, n) = {}
  <2> SUFFICES ASSUME NEW n \in queue.ready PROVE incoming(graph, n) = {}
    OBVIOUS
  <2>1. Cardinality(incoming(graph, n)) = 0
    BY <1>1, NoBackEdges
  <2>2. incoming(graph, n) \in SUBSET graph.edges
    BY DEF incoming
  <2>3. IsFiniteSet(incoming(graph, n))
    BY <1>1, <2>2, EdgesType, FS_Subset
  <2> QED BY <2>1, <2>3, FS_EmptySet
<1>3. \A n \in Nodes : Sources(queue.activated, n) = {}
  BY <1>1 DEF Sources
<1>4. SatisfiedCounts
  BY <1>1, <1>3, FS_EmptySet DEF SatisfiedCounts
<1> QED BY <1>1, <1>2, <1>4 DEF DepInv, ActivatedDelivered, ReadyMet, StartedMet

\* In a run without loops a ready, running or finished node had all its inputs
\* delivered.
THEOREM DepInvariant == Spec => []DepInv
BY DepInit, DepStep, SchedulerInvariance, BatchRunsInvariant, PTL DEF Spec

\* A node runs only when every predecessor has succeeded, its output is there,
\* and a Conditional predecessor chose the branch (lib.rs:257-272,
\* work_queue.rs:150-190), for any graph without Loop nodes, cyclic ones and
\* parallel edges included.
THEOREM RunsAfterDependencies == Spec => []DependenciesMet
<1>1. DepInv => DependenciesMet
  BY DEF DepInv, StartedMet, DependenciesMet, Delivered, Chosen
<1> QED BY <1>1, DepInvariant, PTL

-----------------------------------------------------------------------------
(***************************************************************************)
(* Nothing is left behind a failure.                                       *)
(***************************************************************************)
LEMMA CascadeIsClosed ==
    ASSUME graph \in Graphs, NEW n
    PROVE  CascadeClosed(n, Cascade(n))
<1> SUFFICES ASSUME NEW e \in graph.edges, e.from \in Cascade(n) \union {n}, e.to # n,
                    NotStarted(e.to)
             PROVE  e.to \in Cascade(n)
  BY DEF CascadeClosed
<1>1. e.to \in Nodes
  BY EdgesType
<1>2. ASSUME NEW S \in SUBSET Nodes, CascadeClosed(n, S) PROVE e.to \in S
  <2>1. e.from \in S \union {n}
    BY <1>2 DEF Cascade
  <2> QED BY <1>2, <2>1 DEF CascadeClosed
<1> QED BY <1>1, <1>2 DEF Cascade

\* An edge into a node that runs or succeeded comes from a success.
LEMMA StartedAfterSuccess ==
    ASSUME DepInv, LoopFree, TypeOK, NEW e \in graph.edges,
           node_states[e.to] \in {"Running", "Succeeded"}
    PROVE  node_states[e.from] = "Succeeded"
<1>1. e.to \in Nodes /\ e \in incoming(graph, e.to)
  BY EdgesType DEF TypeOK, incoming
<1> QED BY <1>1 DEF DepInv, StartedMet, Delivered

LEMMA SpreadStep == SchedInv /\ BatchRuns /\ RunInv /\ DepInv /\ FailureSpreads /\ [Next]_vars
                       => FailureSpreads'
<1> SUFFICES ASSUME SchedInv, BatchRuns, RunInv, DepInv, FailureSpreads, [Next]_vars, LoopFree,
                    NEW e \in graph.edges, Lost(e.from)'
             PROVE  Lost(e.to)'
  BY GraphFrozen DEF FailureSpreads
<1> DEFINE f == e.from
           t == e.to
<1>0. /\ TypeOK /\ node_states \in [Nodes -> States] /\ graph \in Graphs /\ NonePending
      /\ f \in Nodes /\ t \in Nodes
  BY EdgesType DEF SchedInv, TypeOK, RunInv
<1>1. Lost(f) => Lost(t)
  BY DEF FailureSpreads
<1>2. node_states[t] \in {"Running", "Succeeded"} => node_states[f] = "Succeeded"
  BY <1>0, StartedAfterSuccess
<1> HIDE DEF f, t
<1>3. Lost(f)' => Lost(t)'
  <2>1. ASSUME NEW n \in Nodes, Succeeds(n), Lost(f)' PROVE Lost(t)'
    <3>1. f # n /\ Lost(f)
      BY <1>0, <2>1, SucceedsStates DEF Lost
    <3>2. t # n
      BY <1>0, <1>1, <2>1, <3>1, SucceedsStates, AppliedWasRunning DEF Lost
    <3> QED BY <1>0, <1>1, <2>1, <3>1, <3>2, SucceedsStates DEF Lost
  <2>2. ASSUME NEW n \in Nodes, ApplyFailure(n), Lost(f)' PROVE Lost(t)'
    <3> DEFINE C == Cascade(n)
    <3>1. node_states' = [m \in Nodes |-> IF m \in C \union {n} THEN "Failed" ELSE node_states[m]]
      BY <1>0, <2>2, FailureStates
    <3>2. node_states[n] = "Running"
      BY <1>0, <2>2, FailureStates, AppliedWasRunning
    <3>3. \A m \in C : node_states[m] \in {"None", "Pending"}
      BY <1>0, CascadeNotStarted DEF NotStarted
    <3>4. f \in C \union {n} /\ t # n /\ node_states[t] \in {"None", "Pending"} => t \in C
      BY <1>0, CascadeIsClosed DEF CascadeClosed, NotStarted, f, t
    <3> HIDE DEF C
    <3>5. CASE f \in C \union {n}
      <4>1. node_states[f] # "Succeeded"
        BY <3>2, <3>3, <3>5
      <4>2. node_states[t] \in {"None", "Pending", "Failed", "Skipped"}
        BY <1>0, <1>2, <4>1 DEF States
      <4>3. CASE t \in C \union {n}
        BY <1>0, <3>1, <4>3 DEF Lost
      <4>4. CASE t \notin C \union {n}
        BY <1>0, <3>1, <3>4, <3>5, <4>2, <4>4 DEF Lost
      <4> QED BY <4>3, <4>4
    <3>6. CASE f \notin C \union {n}
      <4>1. Lost(f)
        BY <1>0, <2>2, <3>1, <3>6 DEF Lost
      <4> QED BY <1>0, <1>1, <3>1, <4>1 DEF Lost
    <3> QED BY <3>5, <3>6
  <2>3. ASSUME NEW n \in Nodes, ApplyBreach(n), Lost(f)' PROVE Lost(t)'
    <3>1. node_states[n] = "Running"
      BY <1>0, <2>3, BreachStates, AppliedWasRunning
    <3>2. node_states[f] # "Succeeded"
      BY <1>0, <2>3, <3>1, BreachStates DEF Lost, IsTerminal
    <3>3. t # n /\ node_states[t] # "Succeeded"
      BY <1>2, <3>1, <3>2
    <3> QED BY <1>0, <2>3, <3>3, BreachStates DEF Lost, IsTerminal
  <2>4. ASSUME DispatchBatch, Lost(f)' PROVE Lost(t)'
    <3>1. \A m \in Nodes : \/ node_states'[m] = node_states[m]
                           \/ node_states'[m] = "Running" /\ ~IsTerminal(node_states[m])
      BY <2>4, DispatchStates
    <3> QED BY <1>0, <1>1, <2>4, <3>1 DEF Lost, IsTerminal
  <2>5. ASSUME Quiet, Lost(f)' PROVE Lost(t)'
    BY <1>1, <2>5 DEF Quiet, Lost
  <2> QED BY <2>1, <2>2, <2>3, <2>4, <2>5, LoopFreeStep
<1> QED BY <1>3 DEF f, t

LEMMA SpreadInit == Init => FailureSpreads
BY EdgesType DEF Init, FailureSpreads, Lost

\* In a run without loops a node that failed or was skipped has taken all its direct
\* successors with it, whatever order a batch is applied in (lib.rs:540-568).
THEOREM SpreadInvariant == Spec => []FailureSpreads
BY SpreadInit, SpreadStep, SchedulerInvariance, BatchRunsInvariant, RunInvariant,
   DepInvariant, PTL DEF Spec

\* The nodes a depth-first walk reaches from a failed node lie in the set of
\* lost nodes, which is closed under the edges.
LEMMA SpreadContains == TypeOK /\ FailureSpreads => FailureContained
<1> SUFFICES ASSUME TypeOK, FailureSpreads, LoopFree, NEW n \in Nodes, node_states[n] = "Failed",
                    NEW m \in Reachable(graph, n)
             PROVE  Lost(m)
  BY DEF FailureContained, Lost
<1> DEFINE S == {k \in Nodes : Lost(k)}
<1>1. ClosedUnder(graph, S)
  BY EdgesType DEF TypeOK, FailureSpreads, ClosedUnder
<1>2. Targets(outgoing(graph, n)) \subseteq S
  BY EdgesType DEF TypeOK, FailureSpreads, Targets, outgoing, Lost
<1>3. S \in SUBSET Nodes
  OBVIOUS
<1>4. m \in S
  <2> HIDE DEF S
  <2> QED BY <1>1, <1>2, <1>3 DEF Reachable
<1> QED BY <1>4

-----------------------------------------------------------------------------
(***************************************************************************)
(* No node is forgotten: the queue agrees with the states, and a node with *)
(* as many activations as incoming edges is ready until it starts.         *)
(***************************************************************************)
LEMMA MarkFailedFields ==
    ASSUME NEW q \in Queues, NEW nodes \in SUBSET Nodes
    PROVE  LET r == mark_failed(q, nodes)
           IN /\ r.completed = q.completed /\ r.failed = q.failed \union nodes
              /\ r.activated = q.activated /\ r.satisfied = q.satisfied
              /\ r.ready = q.ready \ nodes
BY DEF mark_failed, Queues

LEMMA MarkInProgressFields ==
    ASSUME NEW q \in Queues, NEW nodes \in SUBSET Nodes
    PROVE  LET r == mark_in_progress(q, nodes)
           IN /\ r.completed = q.completed /\ r.failed = q.failed
              /\ r.activated = q.activated /\ r.satisfied = q.satisfied
              /\ r.ready = q.ready \ nodes
BY DEF mark_in_progress, Queues

LEMMA AgreeStep == SchedInv /\ EarnedInv /\ BatchRuns /\ AgreeInv /\ [Next]_vars => AgreeInv'
<1> SUFFICES ASSUME SchedInv, EarnedInv, BatchRuns, AgreeInv, [Next]_vars, LoopFree
             PROVE  QueueAgrees' /\ ReadyWhenSatisfied' /\ SuccessActivates'
  BY GraphFrozen DEF AgreeInv
<1>0. /\ TypeOK /\ node_states \in [Nodes -> States] /\ graph \in Graphs /\ graph' = graph
      /\ queue \in Queues /\ outputs \in [Nodes -> Outputs \union {"absent"}]
      /\ queue.completed \subseteq Nodes /\ queue.failed \subseteq Nodes
      /\ \A e \in graph.edges : e.from \in Nodes /\ e.to \in Nodes
  BY GraphFrozen, EdgesType DEF SchedInv, TypeOK, Queues
<1>1. QueueAgrees /\ ReadyWhenSatisfied /\ SuccessActivates
  BY DEF AgreeInv
<1>2. ASSUME NEW n \in Nodes, Succeeds(n)
      PROVE  QueueAgrees' /\ ReadyWhenSatisfied' /\ SuccessActivates'
  <2> DEFINE new == NewTargets(n)
  <2>1. /\ queue'.completed = queue.completed \union {n} /\ queue'.failed = queue.failed
        /\ queue'.activated = queue.activated \union ({n} \X new)
        /\ queue'.satisfied = [m \in Nodes |-> queue.satisfied[m] + IF m \in new THEN 1 ELSE 0]
        /\ queue'.ready = (queue.ready \ {n}) \union
             {t \in new : /\ queue'.satisfied[t] = total_incoming[graph][t]
                          /\ t \notin (queue.completed \union {n}) \union queue.failed}
    BY <1>2, SucceedsQueue
  <2>2. /\ node_states[n] = "Running" /\ node_states' = [node_states EXCEPT ![n] = "Succeeded"]
        /\ outputs' = [outputs EXCEPT ![n] = results[n].output] /\ outcome' = outcome
    BY <1>0, <1>2, SucceedsStates, AppliedWasRunning
  <2>3. \A t \in new : t \in Nodes
    BY <1>0, TargetsType DEF NewTargets, Matched, outgoing
  <2>4. \A e \in graph.edges : e \in Matched(n) =>
            <<n, e.to>> \in queue.activated \/ e.to \in new
    BY DEF NewTargets, Targets
  <2>5. queue.satisfied \in [Nodes -> Nat]
    BY <1>0 DEF Queues
  <2> HIDE DEF new
  <2>6. QueueAgrees'
    BY <1>0, <1>1, <2>1, <2>2 DEF QueueAgrees
  <2>7. ReadyWhenSatisfied'
    <3> SUFFICES ASSUME NEW m \in Nodes, node_states'[m] = "None",
                        queue'.satisfied[m] = total_incoming[graph][m]
                 PROVE  m \in queue'.ready
      BY <1>0 DEF ReadyWhenSatisfied
    <3>1. m # n /\ node_states[m] = "None"
      BY <1>0, <2>2
    <3>2. m \notin queue.completed /\ m \notin queue.failed
      BY <1>1, <3>1 DEF QueueAgrees
    <3>3. CASE m \in new
      BY <2>1, <3>1, <3>2, <3>3
    <3>4. CASE m \notin new
      <4>1. queue'.satisfied[m] = queue.satisfied[m]
        BY <2>1, <2>5, <3>4
      <4>2. m \in queue.ready
        BY <1>1, <3>1, <4>1 DEF ReadyWhenSatisfied
      <4> QED BY <2>1, <3>1, <4>2
    <3> QED BY <3>3, <3>4
  <2>8. SuccessActivates'
    <3> SUFFICES ASSUME outcome # "breached", NEW e \in Delivered'
                 PROVE  <<e.from, e.to>> \in queue'.activated
      BY <2>2 DEF SuccessActivates
    <3>1. /\ e \in graph.edges /\ node_states'[e.from] = "Succeeded" /\ outputs'[e.from] # "absent"
          /\ graph.kind[e.from] = "Conditional" => e.condition \in {"none", outputs'[e.from]}
      BY <1>0 DEF Delivered, Chosen
    <3>2. CASE e.from = n
      <4>1. e \in Matched(n)
        BY <1>0, <2>2, <3>1, <3>2 DEF Matched, outgoing
      <4> QED BY <2>1, <2>4, <3>1, <3>2, <4>1
    <3>3. CASE e.from # n
      <4>1. e \in Delivered
        BY <1>0, <2>2, <3>1, <3>3 DEF Delivered, Chosen
      <4> QED BY <1>1, <2>1, <4>1 DEF SuccessActivates
    <3> QED BY <3>2, <3>3
  <2> QED BY <2>6, <2>7, <2>8
<1>3. ASSUME NEW n \in Nodes, ApplyFailure(n)
      PROVE  QueueAgrees' /\ ReadyWhenSatisfied' /\ SuccessActivates'
  <2> DEFINE nodes == Cascade(n) \union {n}
  <2>1. /\ node_states' = [m \in Nodes |-> IF m \in nodes THEN "Failed" ELSE node_states[m]]
        /\ queue' = mark_failed(queue, nodes) /\ UNCHANGED <<outputs, outcome>>
    BY <1>0, <1>3, FailureStates
  <2>2. nodes \in SUBSET Nodes
    BY DEF Cascade
  <2>3. \A m \in nodes : node_states[m] \in {"None", "Pending", "Running"}
    <3>1. node_states[n] = "Running"
      BY <1>0, <1>3, FailureStates, AppliedWasRunning
    <3> QED BY <1>0, <3>1, CascadeNotStarted DEF NotStarted
  <2> HIDE DEF nodes
  <2>4. /\ queue'.completed = queue.completed /\ queue'.failed = queue.failed \union nodes
        /\ queue'.activated = queue.activated /\ queue'.satisfied = queue.satisfied
        /\ queue'.ready = queue.ready \ nodes
    BY <1>0, <2>1, <2>2, MarkFailedFields
  <2>5. QueueAgrees'
    BY <1>0, <1>1, <2>1, <2>2, <2>3, <2>4 DEF QueueAgrees
  <2>6. ReadyWhenSatisfied'
    BY <1>0, <1>1, <2>1, <2>4 DEF ReadyWhenSatisfied
  <2>7. Delivered' \subseteq Delivered
    BY <1>0, <2>1 DEF Delivered, Chosen
  <2>8. SuccessActivates'
    BY <1>1, <2>1, <2>4, <2>7 DEF SuccessActivates
  <2> QED BY <2>5, <2>6, <2>8
<1>4. ASSUME NEW n \in Nodes, ApplyBreach(n)
      PROVE  QueueAgrees' /\ ReadyWhenSatisfied' /\ SuccessActivates'
  <2>1. /\ \A m \in Nodes \ {n} : IsTerminal(node_states[m]) => node_states'[m] = node_states[m]
        /\ \A m \in Nodes : node_states'[m] # "None"
        /\ queue' = queue /\ outcome' = "breached"
    BY <1>0, <1>4, BreachStates DEF IsTerminal
  <2>2. node_states[n] = "Running"
    BY <1>0, <1>4, BreachStates, AppliedWasRunning
  <2> QED BY <1>0, <1>1, <2>1, <2>2 DEF QueueAgrees, ReadyWhenSatisfied, SuccessActivates, IsTerminal
<1>5. ASSUME DispatchBatch
      PROVE  QueueAgrees' /\ ReadyWhenSatisfied' /\ SuccessActivates'
  <2>1. PICK batch \in SUBSET queue.ready :
          /\ batch \subseteq Nodes \ (queue.completed \union queue.failed)
          /\ \A m \in batch : ~IsTerminal(node_states[m])
          /\ node_states' = [m \in Nodes |-> IF m \in batch THEN "Running" ELSE node_states[m]]
          /\ queue' = mark_in_progress(queue, batch)
          /\ UNCHANGED <<outputs, outcome>>
    BY <1>5, DispatchStates
  <2>2. /\ queue'.completed = queue.completed /\ queue'.failed = queue.failed
        /\ queue'.activated = queue.activated /\ queue'.satisfied = queue.satisfied
        /\ queue'.ready = queue.ready \ batch
    BY <1>0, <2>1, MarkInProgressFields
  <2>3. QueueAgrees'
    BY <1>0, <1>1, <2>1, <2>2 DEF QueueAgrees
  <2>4. ReadyWhenSatisfied'
    BY <1>0, <1>1, <2>1, <2>2 DEF ReadyWhenSatisfied
  <2>5. Delivered' \subseteq Delivered
    BY <1>0, <2>1 DEF Delivered, Chosen
  <2>6. SuccessActivates'
    BY <1>1, <2>1, <2>2, <2>5 DEF SuccessActivates
  <2> QED BY <2>3, <2>4, <2>6
<1>6. ASSUME Quiet
      PROVE  QueueAgrees' /\ ReadyWhenSatisfied' /\ SuccessActivates'
  <2>1. UNCHANGED <<graph, queue, node_states, outputs>>
    BY <1>6 DEF Quiet
  <2>2. outcome' # "breached" => outcome # "breached"
    BY <1>6 DEF Quiet, EarnedInv, Undecided
  <2>3. Delivered' = Delivered
    BY <2>1 DEF Delivered, Chosen
  <2> QED BY <1>1, <2>1, <2>2, <2>3 DEF QueueAgrees, ReadyWhenSatisfied, SuccessActivates
<1> QED BY <1>2, <1>3, <1>4, <1>5, <1>6, LoopFreeStep

LEMMA AgreeInit == Init => AgreeInv
<1> SUFFICES ASSUME Init PROVE QueueAgrees /\ ReadyWhenSatisfied /\ SuccessActivates
  BY DEF AgreeInv
<1>1. /\ graph \in Graphs /\ queue.completed = {} /\ queue.failed = {}
      /\ queue.satisfied = [n \in Nodes |-> 0]
      /\ queue.ready = {n \in Nodes : total_incoming[graph][n] = 0}
      /\ node_states = [n \in Nodes |-> "None"]
  BY DEF Init, NewQueue
<1>2. Delivered = {}
  BY <1>1, EdgesType DEF Delivered
<1> QED BY <1>1, <1>2 DEF QueueAgrees, ReadyWhenSatisfied, SuccessActivates

\* An empty batch with nothing in flight means that no node is eligible.
LEMMA EmptyBatch ==
    ASSUME NEW q \in Queues, q.in_progress = {}, NEW states,
           get_ready(q, states, MaxConcurrent) = {}
    PROVE  Eligible(q, states) = {}
<1> DEFINE E == Eligible(q, states)
<1> SUFFICES ASSUME E # {} PROVE FALSE
  OBVIOUS
<1>1. E \in SUBSET Nat
  BY NodesAssumption DEF Eligible, Queues
<1>2. Available(q, MaxConcurrent) = MaxConcurrent
  BY SchedulerAssumption, FS_EmptySet DEF Available
<1>3. IsTruncated(q, states, MaxConcurrent)
  BY DEF get_ready
<1>4. \A n \in E : ~(Cardinality({m \in E : m < n}) < MaxConcurrent)
  BY <1>2, <1>3 DEF get_ready
<1> HIDE DEF E
<1>5. PICK i \in E : \A j \in E : i <= j
  BY <1>1, LeastExists
<1>6. {m \in E : m < i} = {}
  <2>1. i \in Nat /\ \A m \in E : m \in Nat
    BY <1>1
  <2>2. \A m \in E : ~(m < i)
    BY <1>5, <2>1
  <2> QED BY <2>2
<1>7. Cardinality({m \in E : m < i}) = 0
  BY <1>6, FS_EmptySet
<1>8. 0 < MaxConcurrent
  BY SchedulerAssumption
<1> QED BY <1>4, <1>5, <1>7, <1>8

\* A run that stops by itself has a reason for every node it did not run.
LEMMA FinishForgetsNone ==
    ASSUME SchedInv, EarnedInv, RunInv, DepInv, FailureSpreads, AgreeInv, LoopFree, FinishRun,
           NEW n \in Nodes, node_states[n] = "None"
    PROVE  \E e \in incoming(graph, n) :
              \/ node_states[e.from] = "None"
              \/ /\ graph.kind[e.from] = "Conditional"
                 /\ e.condition \notin {"none", outputs[e.from]}
              \/ \E d \in incoming(graph, n) : d # e /\ d.from = e.from
<1> SUFFICES ASSUME \A e \in incoming(graph, n) :
                      /\ node_states[e.from] # "None"
                      /\ Chosen(e)
                      /\ \A d \in incoming(graph, n) : d.from = e.from => d = e
             PROVE  FALSE
  BY DEF Chosen
<1>0. /\ graph \in Graphs /\ queue \in Queues /\ node_states \in [Nodes -> States] /\ pc = "head"
      /\ NonePending /\ RunningInBatch /\ outcome = "none" /\ queue.in_progress = {}
  BY DEF SchedInv, TypeOK, FinishRun, RunInv, EarnedInv, Undecided, NothingLeftInFlight
<1>1. n \notin queue.completed /\ n \notin queue.failed /\ ~IsTerminal(node_states[n])
  BY DEF AgreeInv, QueueAgrees, IsTerminal
<1>2. Stalled
  BY <1>1 DEF FinishRun, is_done
<1>3. n \notin queue.ready
  BY <1>0, <1>1, <1>2, EmptyBatch DEF Stalled, Eligible
<1>4. ASSUME NEW e \in incoming(graph, n) PROVE e \in Delivered /\ <<e.from, n>> \in queue.activated
  <2>1. e \in graph.edges /\ e.to = n /\ e.from \in Nodes
    BY <1>0, EdgesType DEF incoming
  <2>2. ~Lost(e.from)
    BY <2>1 DEF FailureSpreads, Lost
  <2>3. node_states[e.from] = "Succeeded"
    BY <1>0, <2>1, <2>2 DEF NonePending, RunningInBatch, Lost, States
  <2>4. e \in Delivered
    BY <2>1, <2>3 DEF Delivered, EarnedInv, OutputsPresent
  <2> QED BY <1>0, <2>1, <2>4 DEF AgreeInv, SuccessActivates
<1>5. \A f \in Nodes : <<f, n>> \in queue.activated => \E e \in incoming(graph, n) : e.from = f
  BY DEF DepInv, ActivatedDelivered, Delivered, incoming
<1>6. Cardinality(Sources(queue.activated, n)) = Cardinality(incoming(graph, n))
  BY <1>0, <1>4, <1>5, AllActivated
<1>7. queue.satisfied[n] = total_incoming[graph][n]
  BY <1>0, <1>6, NoBackEdges DEF DepInv, SatisfiedCounts
<1> QED BY <1>3, <1>7 DEF AgreeInv, ReadyWhenSatisfied

LEMMA ForgottenStep ==
    /\ SchedInv /\ EarnedInv /\ RunInv /\ DepInv /\ FailureSpreads /\ AgreeInv
    /\ NoNodeForgotten /\ [Next]_vars
    => NoNodeForgotten'
<1> SUFFICES ASSUME SchedInv, EarnedInv, RunInv, DepInv, FailureSpreads, AgreeInv,
                    NoNodeForgotten, [Next]_vars, LoopFree, outcome' \in {"success", "failure"}
             PROVE  NoNodeForgotten'
  BY GraphFrozen DEF NoNodeForgotten
<1>1. CASE FinishRun
  <2>1. UNCHANGED <<graph, node_states, outputs>>
    BY <1>1 DEF FinishRun
  <2> QED BY <1>1, <2>1, FinishForgetsNone DEF NoNodeForgotten
<1>2. CASE UNCHANGED vars
  BY <1>2 DEF NoNodeForgotten, LoopFree, vars
<1>3. CASE ~FinishRun /\ ~UNCHANGED vars
  <2>1. (pc # "done" /\ outcome' = outcome) \/ outcome' \in {"cancelled", "breached"}
    <3>1. ASSUME NEW n \in Nodes, Apply(n)
          PROVE  (pc # "done" /\ outcome' = outcome) \/ outcome' = "breached"
      <4>1. graph.kind[n] # "Loop"
        BY DEF LoopFree
      <4> QED BY <3>1, <4>1 DEF Apply, ApplyBreach, ApplyConditional, ApplyLoopContinue,
                 ApplyLoopIterationLimit, ApplyLoopExit, ApplyTask, ApplyLoopBack, ApplyFailure,
                 ApplyResult, IsNext, Applied
    <3>2. ASSUME DispatchBatch \/ CancelRequest \/ ExecutorStep
          PROVE  pc # "done" /\ outcome' = outcome
      BY <3>2 DEF DispatchBatch, CancelRequest, ExecutorStep, NodeFinishes, NodeCancelled
    <3>3. ASSUME AbortCancelled PROVE outcome' = "cancelled"
      BY <3>3 DEF AbortCancelled
    <3> QED BY <1>3, <3>1, <3>2, <3>3 DEF Next, SchedulerStep, Terminated
  <2> QED BY <2>1 DEF EarnedInv, Undecided
<1> QED BY <1>1, <1>2, <1>3

\* In a run without loops nothing downstream of a failure is left undecided
\* (lib.rs:540-568), a run that stops by itself has a reason for every node it
\* did not run (lib.rs:205-213), and a run that returned a result leaves no node
\* Running (lib.rs:348).
THEOREM NodesAreSettled == Spec => []NodesSettled
<1>1. Init => NoNodeForgotten
  BY DEF Init, NoNodeForgotten
<1>2. EarnedInv /\ RunInv => NoPhantomRunning
  <2> SUFFICES ASSUME EarnedInv, RunInv, LoopFree, outcome \in {"breached", "success", "failure"},
                      NEW n \in Nodes
               PROVE  node_states[n] # "Running"
    BY DEF NoPhantomRunning
  <2> QED BY DEF EarnedInv, Undecided, RunInv, RunningInBatch
<1>3. Spec => [](SchedInv /\ EarnedInv /\ BatchRuns /\ RunInv /\ DepInv /\ FailureSpreads)
  BY EarnedInit, EarnedStep, SchedulerInvariance, BatchRunsInvariant, RunInvariant, DepInvariant,
     SpreadInvariant, PTL DEF Spec
<1>4. Spec => []AgreeInv
  BY <1>3, AgreeInit, AgreeStep, PTL DEF Spec
<1>5. Spec => []NoNodeForgotten
  BY <1>1, <1>3, <1>4, ForgottenStep, PTL DEF Spec
<1>6. /\ SchedInv /\ EarnedInv /\ RunInv /\ FailureSpreads /\ NoNodeForgotten
      => NodesSettled
  BY <1>2, SpreadContains DEF NodesSettled, SchedInv
<1> QED BY <1>3, <1>5, <1>6, PTL

-----------------------------------------------------------------------------
(***************************************************************************)
(* Leases, for any tasks, workers, callers and clock.                      *)
(*                                                                         *)
(* Exclusivity does not rest on comparing expiry times: the inductive      *)
(* reason is that the manager keeps at most one record per task, since a   *)
(* grant either prunes, replaces or is refused by the record it meets.     *)
(***************************************************************************)

\* A grant in progress is a grant call, a renewal in progress a renew call.
LEMMA CallTypes ==
    ASSUME LeaseTypeOK, NEW c \in Callers
    PROVE  /\ calls[c].op = "grant" => calls[c] \in GrantCall
           /\ calls[c].op = "renew" => calls[c] \in RenewCall
BY DEF LeaseTypeOK, GrantCall, RenewCall, Idle

\* The clamp on requested TTLs (leases.rs:117-124).
LEMMA TtlClamped ==
    ASSUME NEW ttl \in Ttls
    PROVE  BoundedTtl(ttl) \in 1..MaxTtl
BY LeaseAssumption DEF BoundedTtl

\* Pruning keeps typed records and epochs, and what it keeps still agrees.
LEMMA Pruning ==
    ASSUME LeaseInv, NEW now \in Nat
    PROVE  /\ Live(now) \subseteq leases
           /\ PrunedEpochs(now) \in [Tasks -> Nat]
           /\ \A l \in Live(now) : PrunedEpochs(now)[l.task] = l.epoch
           /\ \A t \in Tasks : OfTask(Live(now), t) = {} => PrunedEpochs(now)[t] = 0
<1> USE DEF LeaseInv, LeaseTypeOK, ExecutionLease
<1>1. Live(now) \subseteq leases
  BY DEF Live
<1>2. PrunedEpochs(now) \in [Tasks -> Nat]
  BY DEF PrunedEpochs
<1>3. ASSUME NEW l \in Live(now)
      PROVE  PrunedEpochs(now)[l.task] = l.epoch
  <2>1. l \in leases /\ ~is_expired(l, now) /\ l.task \in Tasks
    BY DEF Live
  <2>2. \A k \in leases : k.task = l.task => k = l
    BY <2>1 DEF OneRecordPerTask
  <2>3. PrunedEpochs(now)[l.task] = epochs[l.task]
    BY <2>1, <2>2 DEF PrunedEpochs
  <2> QED BY <2>1, <2>3 DEF EpochsAgree
<1>4. ASSUME NEW t \in Tasks, OfTask(Live(now), t) = {}
      PROVE  PrunedEpochs(now)[t] = 0
  <2>1. CASE OfTask(leases, t) = {}
    BY <2>1 DEF PrunedEpochs, EpochsAgree, OfTask
  <2>2. CASE OfTask(leases, t) # {}
    BY <1>4, <2>2 DEF PrunedEpochs, Live, OfTask
  <2> QED BY <2>1, <2>2
<1> QED BY <1>1, <1>2, <1>3, <1>4

LEMMA LeaseInitInv == LeaseInit => LeaseInv
BY LeaseAssumption DEF LeaseInit, LeaseInv, LeaseTypeOK, OneRecordPerTask, EpochsAgree, Bounded,
   OfTask, Idle

LEMMA GrantRejectInv ==
    ASSUME LeaseInv, NEW c \in Callers, GrantReject(c)
    PROVE  LeaseInv'
<1> DEFINE now == calls[c].now
<1>1. now \in Nat /\ calls[c] \in GrantCall
  BY CallTypes DEF LeaseInv, GrantReject, GrantCall
<1>2. leases' = Live(now) /\ leases' \subseteq leases
  BY <1>1, Pruning DEF GrantReject
<1>3. LeaseTypeOK'
  BY <1>1, <1>2, Pruning DEF LeaseInv, LeaseTypeOK, GrantReject
<1>4. OneRecordPerTask'
  BY <1>2 DEF LeaseInv, OneRecordPerTask
<1>5. EpochsAgree'
  BY <1>1, <1>2, Pruning DEF EpochsAgree, GrantReject, OfTask
<1>6. Bounded'
  BY <1>2 DEF LeaseInv, Bounded, GrantReject, LeaseTypeOK, Idle
<1> QED BY <1>3, <1>4, <1>5, <1>6 DEF LeaseInv

LEMMA GrantLeaseInv ==
    ASSUME LeaseInv, NEW c \in Callers, GrantLease(c)
    PROVE  LeaseInv'
<1> DEFINE call == calls[c]
           kept == Live(call.now)
           epoch == PrunedEpochs(call.now)[call.task] + 1
           lease == [task |-> call.task, worker |-> call.worker, epoch |-> epoch,
                     granted_at |-> call.now, ttl |-> BoundedTtl(call.ttl),
                     is_revoked |-> FALSE, created_at |-> call.now,
                     renewal_count |-> 0]
<1>1. /\ call.now \in Nat /\ call.task \in Tasks /\ call.worker \in Workers
      /\ call.ttl \in Ttls /\ call.op = "grant"
  BY CallTypes DEF LeaseInv, GrantLease, GrantCall
<1>2. /\ leases' = (kept \ WithKey(kept, call.task, call.worker)) \union {lease}
      /\ epochs' = [PrunedEpochs(call.now) EXCEPT ![call.task] = epoch]
      /\ calls' = [calls EXCEPT ![c] = Idle]
      /\ clock' = clock
      /\ ~Conflict(call)
  BY DEF GrantLease
<1>3. /\ kept \subseteq leases
      /\ PrunedEpochs(call.now) \in [Tasks -> Nat]
      /\ \A l \in kept : PrunedEpochs(call.now)[l.task] = l.epoch
      /\ \A t \in Tasks : OfTask(kept, t) = {} => PrunedEpochs(call.now)[t] = 0
  BY <1>1, Pruning
<1>4. epoch \in Nat
  BY <1>1, <1>3
<1>5. /\ lease \in ExecutionLease /\ lease.ttl \in 1..MaxTtl
      /\ lease.task = call.task
  <2>1. BoundedTtl(call.ttl) \in 1..MaxTtl
    BY <1>1, TtlClamped
  <2>2. 0 \in 0..MaxRenewals
    BY LeaseAssumption
  <2> HIDE DEF epoch, call
  <2> QED BY <1>1, <1>4, <2>1, <2>2 DEF ExecutionLease
\* Without a conflict the records of the task that are left are the worker's
\* own, and the new record replaces them.
<1>6. \A l \in leases' : l = lease \/ (l \in kept /\ l.task # call.task)
  <2> SUFFICES ASSUME NEW l \in kept, l \notin WithKey(kept, call.task, call.worker)
               PROVE  l.task # call.task
    BY <1>2
  <2> QED BY <1>2 DEF Conflict, OfTask, WithKey
<1>7. LeaseTypeOK'
  <2>1. leases' \subseteq ExecutionLease
    BY <1>3, <1>5, <1>6 DEF LeaseInv, LeaseTypeOK
  <2>3. epochs' \in [Tasks -> Nat]
    BY <1>2, <1>3, <1>4
  <2> QED BY <1>2, <2>1, <2>3 DEF LeaseInv, LeaseTypeOK
<1>8. OneRecordPerTask'
  <2> HIDE DEF lease, kept, call
  <2> QED BY <1>3, <1>5, <1>6 DEF LeaseInv, OneRecordPerTask
<1>9. EpochsAgree'
  <2>1. ASSUME NEW l \in leases'
        PROVE  epochs'[l.task] = l.epoch
    <3>1. CASE l = lease
      BY <1>1, <1>2, <1>3, <3>1
    <3>2. CASE l \in kept /\ l.task # call.task
      BY <1>1, <1>2, <1>3, <3>2 DEF LeaseInv, LeaseTypeOK, ExecutionLease
    <3> QED BY <1>6, <3>1, <3>2
  <2>2. ASSUME NEW t \in Tasks, OfTask(leases', t) = {}
        PROVE  epochs'[t] = 0
    <3>1. lease \in leases' /\ lease.task = call.task
      BY <1>2
    <3>2. t # call.task
      BY <2>2, <3>1 DEF OfTask
    <3>3. OfTask(kept, t) = {}
      BY <1>2, <2>2, <3>2 DEF OfTask, WithKey
    <3> QED BY <1>2, <1>3, <3>2, <3>3
  <2> QED BY <2>1, <2>2 DEF EpochsAgree
<1>10. Bounded'
  <2>1. \A d \in Callers : calls'[d].op = "grant" => calls'[d].now <= clock'
    BY <1>2 DEF LeaseInv, LeaseTypeOK, Bounded, Idle
  <2>2. ASSUME NEW l \in leases'
        PROVE  l.granted_at < l.created_at + MaxLifetime /\ l.ttl \in 1..MaxTtl
    <3>1. CASE l = lease
      BY <1>1, <1>5, <3>1, LeaseAssumption
    <3>2. CASE l \in kept
      BY <1>3, <3>2 DEF LeaseInv, Bounded
    <3> QED BY <1>6, <3>1, <3>2
  <2> QED BY <2>1, <2>2 DEF Bounded
<1> QED BY <1>7, <1>8, <1>9, <1>10 DEF LeaseInv

\* A step that replaces one record by another of the same key keeps the rest
\* as it was.
LEMMA RenewLeaseInv ==
    ASSUME LeaseInv, NEW c \in Callers, RenewLease(c)
    PROVE  LeaseInv'
<1>1. PICK lease \in WithKey(leases, calls[c].task, calls[c].worker) :
          /\ CanRenew(lease)
          /\ leases' = (leases \ {lease}) \union
                         {[lease EXCEPT !.renewal_count = @ + 1,
                                        !.epoch = @ + 1,
                                        !.granted_at = clock]}
          /\ epochs' = [epochs EXCEPT ![lease.task] = lease.epoch + 1]
  BY DEF RenewLease
<1> DEFINE renewed == [lease EXCEPT !.renewal_count = @ + 1, !.epoch = @ + 1,
                                    !.granted_at = clock]
<1>2. lease \in leases /\ lease \in ExecutionLease
  BY DEF WithKey, LeaseInv, LeaseTypeOK
<1>3. /\ renewed \in ExecutionLease
      /\ renewed.task = lease.task /\ renewed.epoch = lease.epoch + 1
      /\ renewed.ttl = lease.ttl /\ renewed.created_at = lease.created_at
      /\ renewed.granted_at = clock
  <2>1. /\ clock \in Nat /\ lease.epoch + 1 \in Nat
        /\ lease.renewal_count + 1 \in 0..MaxRenewals
    BY <1>1, <1>2, LeaseAssumption DEF ExecutionLease, LeaseInv, LeaseTypeOK, CanRenew
  <2> DEFINE counted == [lease EXCEPT !.renewal_count = @ + 1]
             raised == [counted EXCEPT !.epoch = @ + 1]
  <2>2. /\ counted \in ExecutionLease
        /\ counted.task = lease.task /\ counted.epoch = lease.epoch
        /\ counted.ttl = lease.ttl /\ counted.created_at = lease.created_at
    BY <1>2, <2>1 DEF ExecutionLease
  <2>3. /\ raised \in ExecutionLease
        /\ raised.task = lease.task /\ raised.epoch = lease.epoch + 1
        /\ raised.ttl = lease.ttl /\ raised.created_at = lease.created_at
    <3> HIDE DEF counted
    <3> QED BY <2>1, <2>2 DEF ExecutionLease
  <2>4. renewed = [raised EXCEPT !.granted_at = clock]
    OBVIOUS
  <2> HIDE DEF renewed, raised
  <2> QED BY <2>1, <2>3, <2>4 DEF ExecutionLease
<1>4. \A l \in leases' : l = renewed \/ (l \in leases /\ l.task # lease.task)
  BY <1>1, <1>2 DEF LeaseInv, OneRecordPerTask
<1>5. calls' = [calls EXCEPT ![c] = Idle] /\ clock' = clock
  BY DEF RenewLease
<1>6. LeaseTypeOK'
  <2>1. leases' \subseteq ExecutionLease
    BY <1>3, <1>4 DEF LeaseInv, LeaseTypeOK
  <2>2. epochs' \in [Tasks -> Nat]
    BY <1>1, <1>2 DEF LeaseInv, LeaseTypeOK, ExecutionLease
  <2> QED BY <1>5, <2>1, <2>2 DEF LeaseInv, LeaseTypeOK
<1>7. OneRecordPerTask'
  <2> SUFFICES ASSUME NEW x \in leases', NEW y \in leases', x.task = y.task
               PROVE  x = y
    BY DEF OneRecordPerTask
  <2>1. renewed.task = lease.task
    BY <1>3
  <2> HIDE DEF renewed
  <2> QED BY <1>4, <2>1 DEF LeaseInv, OneRecordPerTask
<1>8. EpochsAgree'
  <2>1. \A l \in leases' : epochs'[l.task] = l.epoch
    BY <1>1, <1>2, <1>3, <1>4 DEF LeaseInv, EpochsAgree, LeaseTypeOK, ExecutionLease
  <2>2. ASSUME NEW t \in Tasks, OfTask(leases', t) = {}
        PROVE  epochs'[t] = 0
    <3>1. t # lease.task
      BY <1>1, <1>3, <2>2 DEF OfTask
    <3>2. OfTask(leases, t) = {}
      BY <1>1, <2>2, <3>1 DEF OfTask
    <3> QED BY <1>1, <3>1, <3>2 DEF LeaseInv, EpochsAgree, LeaseTypeOK
  <2> QED BY <2>1, <2>2 DEF EpochsAgree
<1>9. Bounded'
  <2>1. clock < lease.created_at + MaxLifetime
    BY <1>1, <1>2, LeaseAssumption DEF CanRenew, ExecutionLease, LeaseInv, LeaseTypeOK
  <2>2. \A l \in leases' : l.granted_at < l.created_at + MaxLifetime /\ l.ttl \in 1..MaxTtl
    BY <1>2, <1>3, <1>4, <2>1 DEF LeaseInv, Bounded
  <2>3. \A d \in Callers : calls'[d].op = "grant" => calls'[d].now <= clock'
    BY <1>5 DEF LeaseInv, LeaseTypeOK, Bounded, Idle
  <2> QED BY <2>2, <2>3 DEF Bounded
<1> QED BY <1>6, <1>7, <1>8, <1>9 DEF LeaseInv

LEMMA RevokeLeaseInv ==
    ASSUME LeaseInv, NEW t \in Tasks, NEW w \in Workers, RevokeLease(t, w)
    PROVE  LeaseInv'
<1>1. PICK lease \in WithKey(leases, t, w) :
          leases' = (leases \ {lease}) \union {[lease EXCEPT !.is_revoked = TRUE]}
  BY DEF RevokeLease
<1> DEFINE revoked == [lease EXCEPT !.is_revoked = TRUE]
<1>2. lease \in leases /\ lease \in ExecutionLease
  BY DEF WithKey, LeaseInv, LeaseTypeOK
<1>3. /\ revoked \in ExecutionLease
      /\ revoked.task = lease.task /\ revoked.epoch = lease.epoch
      /\ revoked.ttl = lease.ttl /\ revoked.created_at = lease.created_at
      /\ revoked.granted_at = lease.granted_at
  BY <1>2 DEF ExecutionLease
<1>4. \A l \in leases' : l = revoked \/ (l \in leases /\ l.task # lease.task)
  BY <1>1, <1>2 DEF LeaseInv, OneRecordPerTask
<1>5. UNCHANGED <<epochs, clock, calls>>
  BY DEF RevokeLease
<1>6. LeaseTypeOK'
  BY <1>3, <1>4, <1>5 DEF LeaseInv, LeaseTypeOK
<1>7. OneRecordPerTask'
  BY <1>3, <1>4 DEF LeaseInv, OneRecordPerTask
<1>8. EpochsAgree'
  <2>1. \A l \in leases' : epochs'[l.task] = l.epoch
    BY <1>2, <1>3, <1>4, <1>5 DEF LeaseInv, EpochsAgree
  <2>2. ASSUME NEW u \in Tasks, OfTask(leases', u) = {}
        PROVE  epochs'[u] = 0
    <3>1. u # lease.task
      BY <1>1, <1>3, <2>2 DEF OfTask
    <3>2. OfTask(leases, u) = {}
      BY <1>1, <2>2, <3>1 DEF OfTask
    <3> QED BY <1>5, <3>2 DEF LeaseInv, EpochsAgree
  <2> QED BY <2>1, <2>2 DEF EpochsAgree
<1>9. Bounded'
  BY <1>2, <1>3, <1>4, <1>5 DEF LeaseInv, Bounded
<1> QED BY <1>6, <1>7, <1>8, <1>9 DEF LeaseInv

\* The steps that leave the manager's maps alone.
LEMMA QuietStepsInv ==
    ASSUME LeaseInv,
           \/ Tick
           \/ \E c \in Callers, t \in Tasks, w \in Workers :
                 RenewBegin(c, t, w) \/ \E ttl \in Ttls : GrantBegin(c, t, w, ttl)
           \/ \E c \in Callers : RenewReject(c)
           \/ UNCHANGED lease_vars
    PROVE  LeaseInv'
<1>1. CASE Tick
  BY <1>1 DEF Tick, LeaseInv, LeaseTypeOK, OneRecordPerTask, EpochsAgree, Bounded,
     GrantCall, RenewCall, Idle
<1>2. ASSUME NEW c \in Callers, NEW t \in Tasks, NEW w \in Workers, NEW ttl \in Ttls,
             GrantBegin(c, t, w, ttl)
      PROVE  LeaseInv'
  <2>1. [op |-> "grant", task |-> t, worker |-> w, ttl |-> ttl, now |-> clock] \in GrantCall
    BY DEF GrantCall, LeaseInv, LeaseTypeOK
  <2>2. LeaseTypeOK'
    BY <1>2, <2>1 DEF GrantBegin, LeaseInv, LeaseTypeOK
  <2>3. Bounded'
    BY <1>2 DEF GrantBegin, LeaseInv, LeaseTypeOK, Bounded
  <2> QED BY <1>2, <2>2, <2>3 DEF GrantBegin, LeaseInv, OneRecordPerTask, EpochsAgree
<1>3. ASSUME NEW c \in Callers, NEW t \in Tasks, NEW w \in Workers, RenewBegin(c, t, w)
      PROVE  LeaseInv'
  <2>1. LeaseTypeOK'
    BY <1>3 DEF RenewBegin, LeaseInv, LeaseTypeOK, RenewCall
  <2>2. Bounded'
    BY <1>3 DEF RenewBegin, LeaseInv, LeaseTypeOK, Bounded
  <2> QED BY <1>3, <2>1, <2>2 DEF RenewBegin, LeaseInv, OneRecordPerTask, EpochsAgree
<1>4. ASSUME NEW c \in Callers, RenewReject(c)
      PROVE  LeaseInv'
  <2>1. LeaseTypeOK' /\ Bounded'
    BY <1>4 DEF RenewReject, LeaseInv, LeaseTypeOK, Bounded, Idle
  <2> QED BY <1>4, <2>1 DEF RenewReject, LeaseInv, OneRecordPerTask, EpochsAgree
<1>5. CASE UNCHANGED lease_vars
  BY <1>5 DEF lease_vars, LeaseInv, LeaseTypeOK, OneRecordPerTask, EpochsAgree, Bounded
<1> QED BY <1>1, <1>2, <1>3, <1>4, <1>5

LEMMA LeaseStepInv == LeaseInv /\ [LeaseNext]_lease_vars => LeaseInv'
BY GrantRejectInv, GrantLeaseInv, RenewLeaseInv, RevokeLeaseInv, QuietStepsInv DEF LeaseNext

\* Types, one record per task, agreement of epochs and records, and bounded
\* lifetimes hold in every state.
THEOREM LeaseInvariance == LeaseSpec => []LeaseInv
BY LeaseInitInv, LeaseStepInv, PTL DEF LeaseSpec

\* Single-worker exclusivity (leases.rs:98-114).
THEOREM Exclusivity == LeaseSpec => []SingleWorker
<1>1. LeaseInv => SingleWorker
  BY DEF LeaseInv, OneRecordPerTask, SingleWorker
<1> QED BY <1>1, LeaseInvariance, PTL

\* The manager never holds two records of one task (leases.rs:83, 146).
THEOREM OneRecord == LeaseSpec => []OneRecordPerTask
<1>1. LeaseInv => OneRecordPerTask
  BY DEF LeaseInv
<1> QED BY <1>1, LeaseInvariance, PTL

\* The epoch map agrees with the records (leases.rs:91-96, 129, 192).
THEOREM EpochAgreement == LeaseSpec => []EpochsAgree
<1>1. LeaseInv => EpochsAgree
  BY DEF LeaseInv
<1> QED BY <1>1, LeaseInvariance, PTL

\* No lease outlives MaxLifetime + MaxTtl (leases.rs:117-124, 184).
THEOREM Mortality == LeaseSpec => []LeaseMortal
<1>1. LeaseInv => LeaseMortal
  <2> SUFFICES ASSUME LeaseInv, NEW l \in leases, ~is_expired(l, clock)
               PROVE  clock < l.created_at + MaxLifetime + MaxTtl
    BY DEF LeaseMortal
  <2>1. /\ l \in ExecutionLease /\ clock \in Nat
        /\ l.granted_at < l.created_at + MaxLifetime /\ l.ttl \in 1..MaxTtl
    BY DEF LeaseInv, LeaseTypeOK, Bounded
  <2>2. clock < l.granted_at + l.ttl
    BY <2>1, LeaseAssumption DEF is_expired, ExecutionLease
  <2> QED BY <2>1, <2>2, LeaseAssumption DEF ExecutionLease
<1> QED BY <1>1, LeaseInvariance, PTL

\* An epoch is forgotten only when its lease is no longer active.
LEMMA PruneForgetsExpired ==
    ASSUME LeaseInv, NEW c \in Callers, calls[c].op = "grant", NEW t \in Tasks,
           PrunedEpochs(calls[c].now)[t] # epochs[t], NEW l \in OfTask(leases, t)
    PROVE  is_expired(l, clock)
<1>1. calls[c].now \in Nat /\ calls[c].now <= clock /\ clock \in Nat
  BY CallTypes DEF LeaseInv, LeaseTypeOK, Bounded, GrantCall
<1>2. l \in leases /\ l \in ExecutionLease /\ l.task = t
  BY DEF OfTask, LeaseInv, LeaseTypeOK
<1>3. PICK k \in leases : k.task = t /\ is_expired(k, calls[c].now)
  BY <1>2 DEF PrunedEpochs
<1>4. k = l
  BY <1>2, <1>3 DEF LeaseInv, OneRecordPerTask
<1> QED BY <1>1, <1>2, <1>3, <1>4 DEF is_expired, ExecutionLease

\* The epoch of a task with an active lease never goes down.
THEOREM EpochHeld == LeaseSpec => EpochHeldWhileActive
<1> DEFINE Held == \A t \in Tasks : epochs'[t] < epochs[t] =>
                      \A l \in OfTask(leases, t) : is_expired(l, clock)
<1>1. ASSUME LeaseInv, LeaseNext
      PROVE  Held
  <2> SUFFICES ASSUME NEW t \in Tasks, epochs'[t] < epochs[t], NEW l \in OfTask(leases, t)
               PROVE  is_expired(l, clock)
    OBVIOUS
  <2>0. epochs \in [Tasks -> Nat]
    BY <1>1 DEF LeaseInv, LeaseTypeOK
  <2>1. ASSUME NEW c \in Callers, GrantReject(c)
        PROVE  is_expired(l, clock)
    BY <1>1, <2>0, <2>1, PruneForgetsExpired DEF GrantReject
  <2>2. ASSUME NEW c \in Callers, GrantLease(c)
        PROVE  is_expired(l, clock)
    <3>1. /\ calls[c].now \in Nat /\ calls[c].task \in Tasks
          /\ calls[c].op = "grant"
      BY <1>1, <2>2, CallTypes DEF LeaseInv, GrantLease, GrantCall
    <3>2. PrunedEpochs(calls[c].now) \in [Tasks -> Nat]
      BY <1>1, <3>1, Pruning
    <3>3. epochs' = [PrunedEpochs(calls[c].now) EXCEPT ![calls[c].task] =
                       PrunedEpochs(calls[c].now)[calls[c].task] + 1]
      BY <2>2 DEF GrantLease
    <3>4. PrunedEpochs(calls[c].now)[t] # epochs[t]
      BY <2>0, <3>1, <3>2, <3>3
    <3> QED BY <1>1, <3>1, <3>4, PruneForgetsExpired
  <2>3. ASSUME NEW c \in Callers, RenewLease(c)
        PROVE  is_expired(l, clock)
    <3>1. PICK lease \in WithKey(leases, calls[c].task, calls[c].worker) :
              epochs' = [epochs EXCEPT ![lease.task] = lease.epoch + 1]
      BY <2>3 DEF RenewLease
    <3>2. lease \in ExecutionLease /\ epochs[lease.task] = lease.epoch
      BY <1>1 DEF WithKey, LeaseInv, LeaseTypeOK, EpochsAgree
    <3> QED BY <2>0, <3>1, <3>2 DEF ExecutionLease
  <2>4. CASE UNCHANGED epochs
    BY <2>0, <2>4
  <2> QED BY <1>1, <2>1, <2>2, <2>3, <2>4
          DEF LeaseNext, Tick, RenewBegin, GrantBegin, RenewReject, RevokeLease
<1>2. LeaseInv /\ [LeaseNext]_lease_vars => [Held]_lease_vars
  BY <1>1
<1> QED BY <1>2, LeaseInvariance, PTL DEF LeaseSpec, EpochHeldWhileActive

-----------------------------------------------------------------------------
(* The refinement of LeaseService, by the active leases.                   *)

Active(S, t, now) == {l \in OfTask(S, t) : ~is_expired(l, now)}

\* A task has no holder, or the worker of its only record.
LEMMA HolderOf ==
    ASSUME LeaseInv, NEW l \in leases
    PROVE  ActiveHolders[l.task] = IF is_expired(l, clock) THEN {} ELSE {l.worker}
<1>1. l.task \in Tasks /\ \A k \in leases : k.task = l.task => k = l
  BY DEF LeaseInv, LeaseTypeOK, ExecutionLease, OneRecordPerTask
<1>2. OfTask(leases, l.task) = {l}
  BY <1>1 DEF OfTask
<1> QED BY <1>1, <1>2 DEF ActiveHolders

\* A step after which every task has the holders it had, or none, releases.
LEMMA OnlyReleases ==
    ASSUME \A t \in Tasks : ActiveHolders'[t] \in {ActiveHolders[t], {}}
    PROVE  Service!Next
<1> DEFINE gone == {t \in Tasks : ActiveHolders'[t] = {}}
<1>1. ActiveHolders' = [t \in Tasks |-> IF t \in gone THEN {} ELSE ActiveHolders[t]]
  <2>1. ActiveHolders' = [t \in Tasks |-> ActiveHolders'[t]]
    BY DEF ActiveHolders
  <2> QED BY <2>1
<1>2. Service!Release(gone)
  BY <1>1 DEF Service!Release
<1> QED BY <1>2 DEF Service!Next

\* A step that keeps the active leases of every task, or ends some, releases.
LEMMA SameActive ==
    ASSUME NEW t \in Tasks, Active(leases, t, clock)' = Active(leases, t, clock)
    PROVE  ActiveHolders'[t] = ActiveHolders[t]
BY DEF ActiveHolders, Active

LEMMA TickReleases ==
    ASSUME LeaseInv, LeaseInv', Tick
    PROVE  Service!Next
<1> SUFFICES ASSUME NEW t \in Tasks
             PROVE  ActiveHolders'[t] \in {ActiveHolders[t], {}}
  BY OnlyReleases
<1>1. leases' = leases
  BY DEF Tick
<1>2. CASE OfTask(leases, t) = {}
  BY <1>1, <1>2 DEF ActiveHolders
<1>3. ASSUME NEW l \in leases, l.task = t
      PROVE  ActiveHolders'[t] \in {ActiveHolders[t], {}}
  <2>1. ActiveHolders[t] = IF is_expired(l, clock) THEN {} ELSE {l.worker}
    BY <1>3, HolderOf
  <2>2. ActiveHolders'[t] \in {{}, {l.worker}}
    <3>1. \A k \in leases : k.task = t => k = l
      BY <1>3 DEF LeaseInv, OneRecordPerTask
    <3>2. OfTask(leases, t)' = {l}
      BY <1>1, <1>3, <3>1 DEF OfTask
    <3> QED BY <3>2 DEF ActiveHolders
  <2>3. is_expired(l, clock) => ActiveHolders'[t] = {}
    <3>1. is_expired(l, clock) => is_expired(l, clock')
      BY LeaseAssumption DEF is_expired, Tick, LeaseInv, LeaseTypeOK, ExecutionLease
    <3>2. OfTask(leases, t)' = {l}
      BY <1>1, <1>3 DEF OfTask, LeaseInv, OneRecordPerTask
    <3> QED BY <3>1, <3>2 DEF ActiveHolders
  <2> QED BY <2>1, <2>2, <2>3
<1> QED BY <1>2, <1>3 DEF OfTask

\* Pruning by an old reading of the clock keeps what is active now.
LEMMA PruningKeepsActive ==
    ASSUME LeaseInv, NEW c \in Callers, calls[c].op = "grant", NEW t
    PROVE  Active(Live(calls[c].now), t, clock) = Active(leases, t, clock)
<1>1. calls[c].now \in Nat /\ calls[c].now <= clock /\ clock \in Nat
  BY CallTypes DEF LeaseInv, LeaseTypeOK, Bounded, GrantCall
<1>2. \A l \in leases : ~is_expired(l, clock) => ~is_expired(l, calls[c].now)
  BY <1>1, LeaseAssumption DEF is_expired, LeaseInv, LeaseTypeOK, ExecutionLease
<1> QED BY <1>2 DEF Active, OfTask, Live

LEMMA RejectKeeps ==
    ASSUME LeaseInv, NEW c \in Callers, GrantReject(c)
    PROVE  Service!Next
<1>1. \A t \in Tasks : Active(leases, t, clock)' = Active(leases, t, clock)
  BY PruningKeepsActive DEF GrantReject, Active, OfTask
<1> QED BY <1>1, SameActive, OnlyReleases

LEMMA GrantAcquires ==
    ASSUME LeaseInv, NEW c \in Callers, GrantLease(c)
    PROVE  Service!Next
<1> DEFINE call == calls[c]
           kept == Live(call.now)
<1>1. /\ call.op = "grant" /\ call.now \in Nat /\ call.task \in Tasks
      /\ call.worker \in Workers /\ clock' = clock
  BY CallTypes DEF LeaseInv, GrantLease, GrantCall
<1>2. PICK lease : /\ lease.task = call.task /\ lease.worker = call.worker
                   /\ leases' = (kept \ WithKey(kept, call.task, call.worker)) \union {lease}
  BY DEF GrantLease
<1>3. \A l \in OfTask(kept, call.task) : l.worker = call.worker
  BY DEF GrantLease, Conflict
<1>4. ASSUME NEW t \in Tasks, t # call.task
      PROVE  ActiveHolders'[t] = ActiveHolders[t]
  <2>1. OfTask(leases', t) = OfTask(kept, t)
    BY <1>2, <1>4 DEF OfTask, WithKey
  <2>2. Active(leases', t, clock) = Active(kept, t, clock)
    BY <2>1 DEF Active
  <2>3. Active(kept, t, clock) = Active(leases, t, clock)
    BY <1>1, PruningKeepsActive
  <2> QED BY <1>1, <2>2, <2>3, SameActive DEF Active, OfTask
<1>5. ActiveHolders[call.task] \subseteq {call.worker}
  <2>1. \A l \in Active(leases, call.task, clock) : l \in OfTask(kept, call.task)
    BY <1>1, PruningKeepsActive DEF Active
  <2> QED BY <1>1, <1>3, <2>1 DEF ActiveHolders, Active
<1>6. ActiveHolders'[call.task] \in {{}, {call.worker}}
  <2>1. OfTask(leases', call.task) = {lease}
    BY <1>2, <1>3 DEF OfTask, WithKey
  <2> QED BY <1>1, <1>2, <2>1 DEF ActiveHolders, OfTask
<1>7. CASE ActiveHolders'[call.task] = {}
  BY <1>4, <1>7, OnlyReleases
<1>8. CASE ActiveHolders'[call.task] = {call.worker}
  <2>1. ActiveHolders' = [ActiveHolders EXCEPT ![call.task] = {call.worker}]
    BY <1>4, <1>8 DEF ActiveHolders
  <2>2. Service!Acquire(call.task, call.worker)
    BY <1>5, <2>1 DEF Service!Acquire
  <2> QED BY <1>1, <2>2 DEF Service!Next
<1> QED BY <1>6, <1>7, <1>8

\* A renewal keeps its worker, and only an active lease is renewed.
LEMMA RenewKeeps ==
    ASSUME LeaseInv, LeaseInv', NEW c \in Callers, RenewLease(c)
    PROVE  Service!Next
<1>1. PICK l \in WithKey(leases, calls[c].task, calls[c].worker) :
          /\ CanRenew(l)
          /\ leases' = (leases \ {l}) \union
                         {[l EXCEPT !.renewal_count = @ + 1, !.epoch = @ + 1,
                                    !.granted_at = clock]}
  BY DEF RenewLease
<1> DEFINE new == [l EXCEPT !.renewal_count = @ + 1, !.epoch = @ + 1, !.granted_at = clock]
<1>2. l \in leases /\ l \in ExecutionLease /\ clock \in Nat /\ clock' = clock
  BY DEF WithKey, LeaseInv, LeaseTypeOK, RenewLease
<1>3. /\ new.task = l.task /\ new.worker = l.worker /\ new.is_revoked = l.is_revoked
      /\ new.ttl = l.ttl /\ new.granted_at = clock
  BY <1>2 DEF ExecutionLease
<1>4. ~is_expired(l, clock) /\ ~is_expired(new, clock)
  BY <1>1, <1>2, <1>3 DEF CanRenew, is_expired, ExecutionLease
<1>5. leases' = (leases \ {l}) \union {new}
  BY <1>1
<1> HIDE DEF new
<1> SUFFICES ASSUME NEW t \in Tasks
             PROVE  ActiveHolders'[t] = ActiveHolders[t]
  BY OnlyReleases
<1>6. CASE t = l.task
  <2>1. OfTask(leases', t) = {new}
    BY <1>2, <1>3, <1>5, <1>6 DEF OfTask, LeaseInv, OneRecordPerTask
  <2>2. ActiveHolders'[t] = {new.worker}
    BY <1>2, <1>4, <2>1 DEF ActiveHolders, OfTask
  <2> QED BY <1>2, <1>3, <1>4, <1>6, <2>2, HolderOf
<1>7. CASE t # l.task
  <2>1. OfTask(leases', t) = OfTask(leases, t)
    BY <1>2, <1>3, <1>5, <1>7 DEF OfTask
  <2> QED BY <1>2, <2>1 DEF ActiveHolders, OfTask
<1> QED BY <1>6, <1>7

LEMMA RevokeReleases ==
    ASSUME LeaseInv, NEW t \in Tasks, NEW w \in Workers, RevokeLease(t, w)
    PROVE  Service!Next
<1>1. PICK l \in WithKey(leases, t, w) :
          leases' = (leases \ {l}) \union {[l EXCEPT !.is_revoked = TRUE]}
  BY DEF RevokeLease
<1> DEFINE new == [l EXCEPT !.is_revoked = TRUE]
<1>2. l \in leases /\ l \in ExecutionLease /\ clock' = clock /\ l.task = t
  BY DEF WithKey, LeaseInv, LeaseTypeOK, RevokeLease
<1>3. new.task = t /\ is_expired(new, clock)
  BY <1>2 DEF ExecutionLease, is_expired
<1>4. leases' = (leases \ {l}) \union {new}
  BY <1>1
<1> HIDE DEF new
<1> SUFFICES ASSUME NEW u \in Tasks
             PROVE  ActiveHolders'[u] \in {ActiveHolders[u], {}}
  BY OnlyReleases
<1>5. CASE u = t
  <2>1. OfTask(leases', u) = {new}
    BY <1>2, <1>3, <1>4, <1>5 DEF OfTask, LeaseInv, OneRecordPerTask
  <2> QED BY <1>2, <1>3, <2>1 DEF ActiveHolders, OfTask
<1>6. CASE u # t
  <2>1. OfTask(leases', u) = OfTask(leases, u)
    BY <1>2, <1>3, <1>4, <1>6 DEF OfTask
  <2> QED BY <1>2, <2>1 DEF ActiveHolders, OfTask
<1> QED BY <1>5, <1>6

\* The lease manager implements the service (leases.rs:71, 157, 206): seen
\* through the active leases, its steps hand a free task to one worker, release
\* tasks, or change nothing, whatever clock reading a grant started from.
THEOREM Refinement == LeaseSpec => ImplementsService
<1>1. LeaseInit => Service!Init
  BY DEF LeaseInit, Service!Init, ActiveHolders, OfTask
<1>2. LeaseInv /\ LeaseInv' /\ [LeaseNext]_lease_vars => [Service!Next]_ActiveHolders
  <2> SUFFICES ASSUME LeaseInv, LeaseInv', [LeaseNext]_lease_vars
               PROVE  [Service!Next]_ActiveHolders
    OBVIOUS
  <2>1. ASSUME UNCHANGED <<leases, clock>>
        PROVE  UNCHANGED ActiveHolders
    BY <2>1 DEF ActiveHolders, OfTask
  <2>2. CASE LeaseNext
    <3>1. CASE Tick
      BY <3>1, TickReleases
    <3>2. ASSUME NEW c \in Callers, GrantReject(c) \/ GrantLease(c) \/ RenewLease(c)
          PROVE  Service!Next
      BY <3>2, RejectKeeps, GrantAcquires, RenewKeeps
    <3>3. ASSUME NEW c \in Callers, RenewReject(c)
          PROVE  UNCHANGED ActiveHolders
      BY <2>1, <3>3 DEF RenewReject
    <3>4. ASSUME NEW c \in Callers, NEW t \in Tasks, NEW w \in Workers,
                 RenewBegin(c, t, w) \/ \E ttl \in Ttls : GrantBegin(c, t, w, ttl)
          PROVE  UNCHANGED ActiveHolders
      BY <2>1, <3>4 DEF RenewBegin, GrantBegin
    <3>5. ASSUME NEW t \in Tasks, NEW w \in Workers, RevokeLease(t, w)
          PROVE  Service!Next
      BY <3>5, RevokeReleases
    <3> QED BY <2>2, <3>1, <3>2, <3>3, <3>4, <3>5 DEF LeaseNext
  <2>3. CASE UNCHANGED lease_vars
    BY <2>1, <2>3 DEF lease_vars
  <2> QED BY <2>2, <2>3
<1> QED BY <1>1, <1>2, LeaseInvariance, PTL DEF LeaseSpec, ImplementsService, Service!Spec
=============================================================================
