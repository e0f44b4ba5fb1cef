----------------------------- MODULE WorkQueue -----------------------------
(***************************************************************************)
(* The ready-node bookkeeping of the DAG scheduler                         *)
(* (crates/fusion-scheduler/src/work_queue.rs): operators over a frozen    *)
(* execution graph g and a queue record q.  Every operator that takes a    *)
(* queue returns the queue the corresponding &mut self method leaves.      *)
(*                                                                         *)
(* A graph g is a record of a node kind per node, a set of edges, the      *)
(* loop cap of every node and the position of every node in graph.nodes.   *)
(* An edge carries its index in graph.edges: parallel edges are distinct   *)
(* elements, and "the first edge" is the one of least index.  Node ids are *)
(* naturals because get_ready sorts by id.                                 *)
(***************************************************************************)
EXTENDS Naturals, FiniteSets

CONSTANTS Nodes,        \* node ids of the graph
          Graphs        \* the execution graphs the scheduler may be given

Kinds == {"Loop", "Conditional", "Task"}
Conditions == {"none", "exit", "loop", "true", "false"}

\* One edge of graph.edges.
EdgeType == [ix : Nat, from : Nodes, to : Nodes, condition : Conditions]

ASSUME NodesAssumption == Nodes \subseteq Nat /\ IsFiniteSet(Nodes)
ASSUME GraphsAssumption ==
    \A g \in Graphs :
       /\ g.kind \in [Nodes -> Kinds]
       /\ g.edges \subseteq EdgeType
       /\ IsFiniteSet(g.edges)
       /\ \A d, e \in g.edges : d.ix = e.ix => d = e
       /\ g.max_iterations \in [Nodes -> Nat]
       /\ g.position \in [Nodes -> Nat]
       /\ \A m, n \in Nodes : g.position[m] = g.position[n] => m = n

-----------------------------------------------------------------------------
(***************************************************************************)
(* The adjacency WorkQueue::new derives from the graph.                    *)
(***************************************************************************)
outgoing(g, n) == {e \in g.edges : e.from = n}
incoming(g, n) == {e \in g.edges : e.to = n}
Targets(edges) == {e.to : e \in edges}

selective_sources(g) == {n \in Nodes : g.kind[n] \in {"Loop", "Conditional"}}

\* The nodes a depth-first walk from n meets: members of every set that holds
\* the successors of n and is closed under the edges.
ClosedUnder(g, S) == \A e \in g.edges : e.from \in S => e.to \in S
Reachable(g, n) ==
    {m \in Nodes : \A S \in SUBSET Nodes :
        Targets(outgoing(g, n)) \subseteq S /\ ClosedUnder(g, S) => m \in S}

\* Iteration back-edges: into a Loop head from itself or from its own body,
\* or marked "loop".
IsBackEdge(g, e) ==
    /\ g.kind[e.to] = "Loop"
    /\ \/ e.from = e.to
       \/ e.from \in Reachable(g, e.to)
       \/ e.condition = "loop"
back_edges ==
    [g \in Graphs |-> {<<e.from, e.to>> : e \in {d \in g.edges : IsBackEdge(g, d)}}]

\* The edges that gate the readiness of n.
GatingEdges(g, n) == {e \in incoming(g, n) : <<e.from, e.to>> \notin back_edges[g]}

\* Faulty variant: a join waits for one input only.
total_incoming_first ==
    [g \in Graphs |-> [n \in Nodes |-> IF GatingEdges(g, n) = {} THEN 0 ELSE 1]]

total_incoming ==
    [g \in Graphs |-> [n \in Nodes |-> Cardinality(GatingEdges(g, n))]]

NewQueue(g) ==
    [completed   |-> {},
     in_progress |-> {},
     failed      |-> {},
     ready       |-> {n \in Nodes : total_incoming[g][n] = 0},
     activated   |-> {},
     satisfied   |-> [n \in Nodes |-> 0]]

Queues ==
    [completed : SUBSET Nodes, in_progress : SUBSET Nodes, failed : SUBSET Nodes,
     ready : SUBSET Nodes, activated : SUBSET (Nodes \X Nodes),
     satisfied : [Nodes -> Nat]]

-----------------------------------------------------------------------------
(***************************************************************************)
(* Edge activation.  An edge pair counts once; the target becomes ready    *)
(* when the number of satisfied pairs reaches the number of gating edges.  *)
(***************************************************************************)
Activate(g, q, from, targets) ==
    LET new == {t \in targets : <<from, t>> \notin q.activated}
        satisfied == [n \in Nodes |-> q.satisfied[n] + IF n \in new THEN 1 ELSE 0]
    IN [q EXCEPT
          !.activated = @ \union ({from} \X new),
          !.satisfied = satisfied,
          !.ready = @ \union {t \in new : /\ satisfied[t] = total_incoming[g][t]
                                          /\ t \notin q.completed \union q.failed}]

try_activate_downstream(g, q, from) ==
    IF from \in selective_sources(g) THEN q
    ELSE Activate(g, q, from, Targets(outgoing(g, from)))

\* activate_edge(from, to) for every to in targets: a back-edge only re-readies
\* its loop head, every other edge is activated as above.
activate_edges(g, q, from, targets) ==
    LET back == {t \in targets : <<from, t>> \in back_edges[g]}
        r == Activate(g, q, from, targets \ back)
    IN [r EXCEPT !.ready = @ \union back]

-----------------------------------------------------------------------------

IsTerminal(state) == state \in {"Succeeded", "Failed", "Skipped"}

\* Eligible nodes of get_ready, before truncation.
Eligible(q, node_states) ==
    {n \in q.ready \ (q.completed \union q.in_progress \union q.failed) :
        ~IsTerminal(node_states[n])}

Available(q, max_concurrent) ==
    LET cap == IF max_concurrent = 0 THEN 1 ELSE max_concurrent
        busy == Cardinality(q.in_progress)
    IN IF busy >= cap THEN 0 ELSE cap - busy

IsTruncated(q, node_states, max_concurrent) ==
    Cardinality(Eligible(q, node_states)) > Available(q, max_concurrent)

\* get_ready: all eligible nodes, or, when they exceed the free slots, the
\* ones of least id.
get_ready(q, node_states, max_concurrent) ==
    LET eligible == Eligible(q, node_states)
    IN IF IsTruncated(q, node_states, max_concurrent)
       THEN {n \in eligible :
               Cardinality({m \in eligible : m < n}) < Available(q, max_concurrent)}
       ELSE eligible

mark_in_progress(q, nodes) ==
    [q EXCEPT !.in_progress = @ \union nodes, !.ready = @ \ nodes]

\* Faulty variant: the node stays in flight.
mark_conditional_completed_busy(q, n) ==
    [q EXCEPT !.completed = @ \union {n}, !.ready = @ \ {n}]

mark_conditional_completed(q, n) ==
    [q EXCEPT !.completed = @ \union {n},
              !.in_progress = @ \ {n},
              !.ready = @ \ {n}]

mark_completed(g, q, n) ==
    try_activate_downstream(g, mark_conditional_completed(q, n), n)

mark_failed(q, nodes) ==
    [q EXCEPT !.failed = @ \union nodes,
              !.in_progress = @ \ nodes,
              !.ready = @ \ nodes]

is_done(q, node_states) ==
    \A n \in Nodes : \/ n \in q.completed \union q.failed
                     \/ IsTerminal(node_states[n])

-----------------------------------------------------------------------------
(***************************************************************************)
(* Loops.  The body of a loop head, as the scheduler computes it, is the   *)
(* targets of the head's edges that are not marked "exit".                 *)
(***************************************************************************)
BodyEdges(g, l) == {e \in outgoing(g, l) : e.condition # "exit"}
ExitEdges(g, l) == {e \in outgoing(g, l) : e.condition = "exit"}

\* reset_loop_body walks the body in edge order: when it counts the satisfied
\* inputs of n, the members met so far are no longer completed.
ResetSoFar(g, l, n) ==
    {d.to : d \in {d \in BodyEdges(g, l) :
                     \E e \in BodyEdges(g, l) : e.to = n /\ d.ix <= e.ix}}

StillSatisfied(g, q, l, n) ==
    Cardinality({e \in incoming(g, n) :
                   /\ e.from \in q.completed \ ResetSoFar(g, l, n)
                   /\ <<e.from, n>> \in q.activated})

reset_loop_body(g, q, l) ==
    LET body == Targets(BodyEdges(g, l))
    IN [q EXCEPT
          !.completed = @ \ body,
          !.in_progress = @ \ body,
          !.failed = @ \ body,
          !.satisfied = [n \in Nodes |-> IF n \in body
                                         THEN StillSatisfied(g, q, l, n)
                                         ELSE q.satisfied[n]],
          !.ready = (@ \ body) \union
                    {n \in body : /\ StillSatisfied(g, q, l, n) = total_incoming[g][n]
                                  /\ StillSatisfied(g, q, l, n) > 0}]

reset_ready(q, n) ==
    [q EXCEPT !.completed = @ \ {n},
              !.in_progress = @ \ {n},
              !.failed = @ \ {n},
              !.ready = @ \union {n}]

has_loop_back_edge(g, n) == \E e \in outgoing(g, n) : <<n, e.to>> \in back_edges[g]

\* The target of the first outgoing back-edge.
loop_back_target(g, n) ==
    LET back == {e \in outgoing(g, n) : <<n, e.to>> \in back_edges[g]}
    IN (CHOOSE e \in back : \A d \in back : e.ix <= d.ix).to
=============================================================================
