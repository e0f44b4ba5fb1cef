--------------------------- MODULE ExecutionPlane ---------------------------
(***************************************************************************)
(* The execution plane behind POST /v1/executions: requests that open a    *)
(* session, read the policy registry, compile their workflow, have the     *)
(* scheduler run it and replay the outcome as events; the policy registry  *)
(* an administrator changes meanwhile; the bounded broadcast bus; and the  *)
(* projection listener that stores events and writes checkpoints.          *)
(*                                                                         *)
(* Every emit is a step of its own: executions publish in parallel and the *)
(* listener receives while they do.  The scheduler and the node runtime    *)
(* are modelled in modules of their own (Scheduler, NodeRuntime); here a   *)
(* run is the choice of an outcome they allow.                             *)
(***************************************************************************)
EXTENDS Compiler

CONSTANTS
    Execs,        \* concurrent requests
    Nothing,      \* no workflow: the request is never made
    Submissions,  \* what the requests may submit: functions from Execs
    Disturbed,    \* the submissions explored amid registry changes and faults
    Observed,     \* the submissions explored with the listener alongside
    Rules,        \* the rules an administrator may declare
    Registries,   \* the registries an execution may start with
    CAPACITY,     \* capacity of the broadcast channel
    MaxWrites,    \* bound on the writes under way at a time
    MaxChanges,   \* bound on the changes of the registry
    MaxFaults     \* bound on the writes that fail and the clients that leave

ASSUME PlaneAssumption ==
    /\ CAPACITY \in Nat \ {0} /\ MaxWrites \in Nat \ {0}
    /\ MaxChanges \in Nat /\ MaxFaults \in Nat
    /\ \A s \in Submissions : \A e \in Execs : s[e] # Nothing => IsWorkflow(s[e])
    /\ IsFiniteSet(Rules) /\ Registries \subseteq SUBSET Rules
    /\ \A r \in Rules : r.priority \in Nat

VARIABLES
    workflow,   \* the submitted workflow of each request
    pc,         \* where each execution is
    rules,      \* the policy registry
    held,       \* history: rules in the registry ever since the request came
    policy_ir,  \* the policy snapshot of an execution
    graph,      \* its compiled graph
    states,     \* the state the scheduler left each node in, by its id
    order,      \* topological_order, as far as it is still to be replayed
    seq,        \* its event counter
    response,   \* what the client was answered
    emitted,    \* history: the events of the execution
    channel,    \* the events the bus retains, oldest first
    published,  \* events sent so far
    position,   \* events received or skipped by the listener so far
    lag_total,  \* events the listener knows it lost
    dispatched, \* history: the events the listener dispatched
    writing,    \* events handed to the blocking threads and not yet written
    stored,     \* the event file of each execution
    saved,      \* saved_sequence_numbers of the checkpoint projection
    checkpoints,\* the checkpoint files
    faults,     \* injected faults so far
    changes     \* registry changes so far

exec == <<pc, policy_ir, graph, states, order, seq, response, emitted>>
bus == <<channel, published>>
listener == <<position, lag_total, dispatched, writing, stored, saved, checkpoints>>
vars == <<workflow, pc, rules, held, policy_ir, graph, states, order, seq, response,
          emitted, channel, published, position, lag_total, dispatched, writing, stored,
          saved, checkpoints, faults, changes>>

Event(e, n, kind, node) == [exec |-> e, seq |-> n, kind |-> kind, node |-> node]
NoNode == 0
NoGraph == [nodes |-> <<>>, edges |-> <<>>, subgraphs |-> <<>>]

Init ==
    /\ workflow \in Submissions
    /\ pc = [e \in Execs |-> "new"]
    /\ rules \in Registries
    /\ held = [e \in Execs |-> {}]
    /\ policy_ir = [e \in Execs |-> {}]
    /\ graph = [e \in Execs |-> NoGraph]
    /\ states = [e \in Execs |-> <<>>]
    /\ order = [e \in Execs |-> <<>>]
    /\ seq = [e \in Execs |-> 0]
    /\ response = [e \in Execs |-> "none"]
    /\ emitted = [e \in Execs |-> <<>>]
    /\ channel = <<>> /\ published = 0
    /\ position = 0 /\ lag_total = 0 /\ dispatched = {}
    /\ writing = {} /\ stored = [e \in Execs |-> <<>>]
    /\ saved = {} /\ checkpoints = {}
    /\ faults = 0 /\ changes = 0

-----------------------------------------------------------------------------
(* The bus: a ring of CAPACITY events; sending never waits.                *)

Publish(event) ==
    /\ channel' = IF Len(channel) = CAPACITY THEN Append(Tail(channel), event)
                  ELSE Append(channel, event)
    /\ published' = published + 1

\* emit: the counter grows before the event is sent.
emit(e, kind, node) ==
    /\ seq' = [seq EXCEPT ![e] = @ + 1]
    /\ Publish(Event(e, seq[e] + 1, kind, node))
    /\ emitted' = [emitted EXCEPT ![e] = Append(@, [kind |-> kind, node |-> node])]

\* Bounds: only some submissions are disturbed, and only so often.
CanFail == workflow \in Disturbed /\ faults < MaxFaults

Goto(e, place) == pc' = [pc EXCEPT ![e] = place]
Answer(e, what) == Goto(e, "done") /\ response' = [response EXCEPT ![e] = what]

-----------------------------------------------------------------------------
(* execute_typed_with_cancellation                                         *)

\* The session is opened; WorkflowStarted is emitted.
Submit(e) ==
    /\ pc[e] = "new" /\ workflow[e] # Nothing
    /\ emit(e, "WorkflowStarted", NoNode)
    /\ held' = [held EXCEPT ![e] = rules]
    /\ Goto(e, "policy")
    /\ UNCHANGED <<workflow, rules, policy_ir, graph, states, order, response, listener,
                   faults, changes>>

\* Opening the session fails: nothing is emitted.
SessionFails(e) ==
    /\ pc[e] = "new" /\ workflow[e] # Nothing /\ CanFail
    /\ Answer(e, "internal")
    /\ faults' = faults + 1
    /\ UNCHANGED <<workflow, rules, held, policy_ir, graph, states, order, seq, emitted, bus,
                   listener, changes>>

\* Faulty variant: a compiler built without the registry's rules is reused.
ReadPolicy_cached(e) ==
    /\ pc[e] = "policy"
    /\ policy_ir' = [policy_ir EXCEPT ![e] = {}]
    /\ Goto(e, "compile")
    /\ UNCHANGED <<workflow, rules, held, graph, states, order, seq, emitted, response, bus, listener,
                   faults, changes>>

\* policy_registry.policy_ir(): a consistent snapshot of the rules; a rule that
\* does not parse rejects the request.
ReadPolicy(e) ==
    /\ pc[e] = "policy"
    /\ IF \E r \in rules : r.malformed
       THEN /\ Answer(e, "policy")
            /\ UNCHANGED policy_ir
       ELSE /\ policy_ir' = [policy_ir EXCEPT ![e] = rules]
            /\ Goto(e, "compile")
            /\ UNCHANGED response
    /\ UNCHANGED <<workflow, rules, held, graph, states, order, seq, emitted, bus, listener,
                   faults, changes>>

\* The compiler's passes; a refusal of any of them is answered without an event.
Compile(e) ==
    /\ pc[e] = "compile"
    /\ \E result \in {RunPasses(workflow[e], policy_ir[e], can_afford) : can_afford \in BOOLEAN} :
         IF result.ok
         THEN /\ graph' = [graph EXCEPT ![e] = lower_to_graph(result.ir)]
              /\ emit(e, "WorkflowCompiled", NoNode)
              /\ Goto(e, "schedule")
              /\ UNCHANGED response
         ELSE /\ Answer(e, result.pass)
              /\ UNCHANGED <<graph, seq, emitted, bus>>
    /\ UNCHANGED <<workflow, rules, held, policy_ir, states, order, listener, faults, changes>>

-----------------------------------------------------------------------------
(* topological_order: Kahn's algorithm with the ready nodes on a stack,    *)
(* over the indices of the node list; all edges count, loops included.     *)

\* The index of an id is that of the last node with it.
IndexOf(g, n) == Max({i \in DOMAIN g.nodes : g.nodes[i].id = n})
Source(g, x) == IndexOf(g, g.edges[x].from)
Target(g, x) == IndexOf(g, g.edges[x].to)
Indegree(g, j) == Cardinality({x \in DOMAIN g.edges : Target(g, x) = j})

\* Faulty variant: a successor is ready as soon as one of its inputs is done.
Freed_eager(g, out, degree) ==
    {x \in out : \A y \in out : Target(g, y) = Target(g, x) => y =< x}

\* Of the edges out of a popped node those with which its successors lose their
\* last incoming edge.
Freed(g, out, degree) ==
    {x \in out : /\ degree[Target(g, x)] = 0
                 /\ \A y \in out : Target(g, y) = Target(g, x) => y =< x}

\* One iteration: the node popped from the stack is done, its successors lose the
\* edges from it, and those left without any are pushed.
PopReady(g, st) ==
    LET i == Last(st.ready)
        out == {x \in DOMAIN g.edges : Source(g, x) = i}
        degree == [j \in DOMAIN g.nodes |->
                      st.degree[j] - Cardinality({x \in out : Target(g, x) = j})]
        freed == InOrder(Freed(g, out, degree))
    IN  IF st.ready = <<>> THEN st
        ELSE [degree |-> degree, done |-> Append(st.done, i),
              ready |-> Front(st.ready) \o [k \in DOMAIN freed |-> Target(g, freed[k])]]

topological_order(g) ==
    LET degree == [j \in DOMAIN g.nodes |-> Indegree(g, j)]
        pops[n \in 0 .. Len(g.nodes)] ==
            IF n = 0 THEN [degree |-> degree, done |-> <<>>,
                           ready |-> InOrder({j \in DOMAIN g.nodes : degree[j] = 0})]
            ELSE PopReady(g, pops[n - 1])
        found == pops[Len(g.nodes)].done
    IN  IF Len(found) = Len(g.nodes) THEN found ELSE [i \in DOMAIN g.nodes |-> i]

-----------------------------------------------------------------------------
(* The scheduler's outcomes.  The plane gives it no budget envelope and a  *)
(* token nobody cancels, so a node has succeeded, has failed by itself,    *)
(* was failed with "dependency failed" since one it waits for failed, or   *)
(* is still pending when nothing can start any more.                       *)

NodeStates == {"Succeeded", "Failed", "Dependency failed", "Pending"}
Ran(state) == state \in {"Succeeded", "Failed"}
IsFailed(state) == state \in {"Failed", "Dependency failed"}
Looping(g) == Forward(g) # DOMAIN g.edges

\* The end of a conditional edge or of a loop's edge may never be activated; nor is
\* a node ready that two parallel edges enter from one node, or that waits for such.
MayWait(g, outcome, n) ==
    \E i \in Incoming(g, n) :
        \/ outcome[g.edges[i].from] = "Pending"
        \/ \E k \in DOMAIN g.nodes : /\ g.nodes[k].id = g.edges[i].from
                                     /\ g.nodes[k].kind \in {"Conditional", "Loop"}
        \/ \E j \in Incoming(g, n) \ {i} : g.edges[j].from = g.edges[i].from

\* All edges gate: what ran waited for what it depends on to succeed, and a failure
\* fails what is reached from it.  In a graph with back edges, where nodes are
\* re-armed after they ended, every combination is admitted (the Scheduler module
\* has those runs in detail).
Outcomes(g) ==
    {o \in [Ids(g) -> NodeStates] : Looping(g) \/
        /\ \A i \in DOMAIN g.edges : Ran(o[g.edges[i].to]) => o[g.edges[i].from] = "Succeeded"
        /\ LET failed == {n \in Ids(g) : o[n] = "Failed"}
           IN  \A n \in Ids(g) : o[n] = "Dependency failed" => n \in Reach(g, failed)
        /\ \A n \in Ids(g) : o[n] = "Pending" => MayWait(g, o, n)}

Succeeds(outcome) == \A n \in DOMAIN outcome : outcome[n] = "Succeeded"

\* scheduler.run_with_cancellation, and the order the outcome is replayed in.
Run(e) ==
    /\ pc[e] = "schedule"
    /\ \E outcome \in Outcomes(graph[e]), replay \in {topological_order(graph[e])} :
         /\ states' = [states EXCEPT ![e] = outcome]
         /\ order' = [order EXCEPT ![e] = replay]
         /\ Goto(e, IF Succeeds(outcome) THEN "scheduled" ELSE "failed")
    /\ UNCHANGED <<workflow, rules, held, policy_ir, graph, seq, emitted, response, bus, listener,
                   faults, changes>>

\* The run itself is refused: no event follows.
RunRefused(e) ==
    /\ pc[e] = "schedule" /\ CanFail
    /\ Answer(e, "scheduling")
    /\ faults' = faults + 1
    /\ UNCHANGED <<workflow, rules, held, policy_ir, graph, states, order, seq, emitted, bus,
                   listener, changes>>

\* The first failed node in the replay order, or none.
FirstFailed(e) ==
    LET failed == {i \in DOMAIN order[e] : IsFailed(states[e][graph[e].nodes[order[e][i]].id])}
    IN  IF failed = {} THEN NoNode ELSE graph[e].nodes[order[e][Min(failed)]].id

ReportNodeFailed(e) ==
    /\ pc[e] = "failed"
    /\ emit(e, "NodeFailed", FirstFailed(e))
    /\ Goto(e, "failing")
    /\ UNCHANGED <<workflow, rules, held, policy_ir, graph, states, order, response, listener,
                   faults, changes>>

ReportFailure(e) ==
    /\ pc[e] = "failing"
    /\ emit(e, "WorkflowFailed", FirstFailed(e))
    /\ Answer(e, "upstream")
    /\ UNCHANGED <<workflow, rules, held, policy_ir, graph, states, order, listener,
                   faults, changes>>

\* The three events of the next node of a successful run.
ReplayNode(e, at, kind, next) ==
    /\ pc[e] = at /\ order[e] # <<>>
    /\ emit(e, kind, graph[e].nodes[Head(order[e])].id)
    /\ Goto(e, next)
    /\ order' = [order EXCEPT ![e] = IF at = "started" THEN Tail(@) ELSE @]
    /\ UNCHANGED <<workflow, rules, held, policy_ir, graph, states, response, listener,
                   faults, changes>>

Replay(e) ==
    \/ ReplayNode(e, "scheduled", "NodeScheduled", "starting")
    \/ ReplayNode(e, "starting", "NodeStarted", "started")
    \/ ReplayNode(e, "started", "NodeFinished", "scheduled")

Complete(e) ==
    /\ pc[e] = "scheduled" /\ order[e] = <<>>
    /\ emit(e, "WorkflowCompleted", NoNode)
    /\ Answer(e, "ok")
    /\ UNCHANGED <<workflow, rules, held, policy_ir, graph, states, order, listener,
                   faults, changes>>

\* The client disconnects while the handler waits, for the resource manager or
\* for the scheduler's run: its future is dropped.
ClientGone(e) ==
    /\ pc[e] \in {"compile", "schedule"} /\ CanFail
    /\ Answer(e, "dropped")
    /\ faults' = faults + 1
    /\ UNCHANGED <<workflow, rules, held, policy_ir, graph, states, order, seq, emitted, bus,
                   listener, changes>>

-----------------------------------------------------------------------------
(* The policy registry.                                                    *)

\* What an execution that has not read the registry can still rely on.
Without(dropped) ==
    [e \in Execs |-> IF pc[e] \in {"new", "policy"} THEN held[e] \ dropped ELSE held[e]]

\* A declaration replaces the one with its id.
apply_policy(r) ==
    LET replaced == {q \in rules : q.id = r.id /\ q # r}
    IN  /\ workflow \in Disturbed /\ changes < MaxChanges
        /\ rules' = (rules \ replaced) \union {r}
        /\ held' = Without(replaced)
        /\ changes' = changes + 1
        /\ UNCHANGED <<workflow, exec, bus, listener, faults>>

remove_policy(r) ==
    /\ workflow \in Disturbed /\ changes < MaxChanges /\ r \in rules
    /\ rules' = rules \ {r}
    /\ held' = Without({r})
    /\ changes' = changes + 1
    /\ UNCHANGED <<workflow, exec, bus, listener, faults>>

-----------------------------------------------------------------------------
(* The projection listener.                                                *)

\* Bound: with the other submissions the listener wakes up when all is answered.
Awake == workflow \in Observed \/ \A e \in Execs : workflow[e] # Nothing => pc[e] = "done"

Retained == published - Len(channel)  \* events that left the ring

\* Faulty variant: the listener ends when it lags.
Lagged_ends == Awake /\ position < Retained /\ UNCHANGED vars

\* recv finds its next event overwritten: it is told how many it lost and goes
\* on with the oldest one retained.
Lagged ==
    /\ Awake /\ position < Retained
    /\ lag_total' = lag_total + (Retained - position)
    /\ position' = Retained
    /\ UNCHANGED <<workflow, rules, held, exec, bus, dispatched, writing, stored, saved,
                   checkpoints, faults, changes>>

\* The event store opens the execution's file for appending and writes the event.
\* The file is dropped without a flush: the write is left to a blocking thread.
Store(event, fails) == writing' = IF fails THEN writing ELSE writing \union {event}

\* Faulty variant: a checkpoint replaces the execution's previous one.
Checkpoint_latest(event, fails) ==
    IF event.kind = "NodeFinished" /\ event.seq \notin saved
    THEN /\ saved' = saved \union {event.seq}
         /\ checkpoints' = IF fails THEN checkpoints
                           ELSE {c \in checkpoints : c.exec # event.exec} \union {event}
    ELSE UNCHANGED <<saved, checkpoints>>

\* The checkpoint projection (EveryNode): the sequence number is marked before
\* the file is written, and it is the only thing duplicates are told by.
Checkpoint(event, fails) ==
    IF event.kind = "NodeFinished" /\ event.seq \notin saved
    THEN /\ saved' = saved \union {event.seq}
         /\ checkpoints' = IF fails THEN checkpoints ELSE checkpoints \union {event}
    ELSE UNCHANGED <<saved, checkpoints>>

\* Bound: the writes left behind at a time, one where nothing is disturbed.
Behind == IF workflow \in Disturbed THEN MaxWrites ELSE 1

\* recv returns the next event and every projection handles it in turn; the
\* failure of one is logged and the others go on.
Dispatch ==
    /\ Awake /\ position >= Retained /\ position < published
    /\ Cardinality(writing) < Behind
    /\ \E fails \in {{}} \union (IF CanFail THEN {{"store"}, {"checkpoint"}} ELSE {}) :
         LET event == channel[position - Retained + 1]
         IN  /\ faults + Cardinality(fails) =< MaxFaults
             /\ faults' = faults + Cardinality(fails)
             /\ Store(event, "store" \in fails)
             /\ Checkpoint(event, "checkpoint" \in fails)
             /\ dispatched' = dispatched \union {event}
    /\ position' = position + 1
    /\ UNCHANGED <<workflow, rules, held, exec, bus, lag_total, stored, changes>>

\* A blocking thread appends an event to its file, in any order with the others.
WriteLands(event) ==
    /\ event \in writing
    /\ writing' = writing \ {event}
    /\ stored' = [stored EXCEPT ![event.exec] = Append(@, event)]
    /\ UNCHANGED <<workflow, rules, held, exec, bus, position, lag_total, dispatched, saved,
                   checkpoints, faults, changes>>

\* ... or fails to, and nobody is told.
WriteIsLost(event) ==
    /\ event \in writing /\ CanFail
    /\ writing' = writing \ {event}
    /\ faults' = faults + 1
    /\ UNCHANGED <<workflow, rules, held, exec, bus, position, lag_total, dispatched, stored,
                   saved, checkpoints, changes>>

-----------------------------------------------------------------------------
Works(e) ==
    \/ ReadPolicy(e) \/ Compile(e) \/ Run(e) \/ ReportNodeFailed(e) \/ ReportFailure(e)
    \/ Replay(e) \/ Complete(e)

Listens == Lagged \/ Dispatch
Writes == \E event \in writing : WriteLands(event)

Next ==
    \/ \E e \in Execs : \/ Submit(e) \/ SessionFails(e) \/ Works(e) \/ RunRefused(e)
                        \/ ClientGone(e)
    \/ \E r \in Rules : apply_policy(r) \/ remove_policy(r)
    \/ Listens \/ Writes
    \/ \E event \in writing : WriteIsLost(event)

\* The listener is a task of its own that is run when it can, and so are the blocking
\* threads; clients, administrators, faults and the executions are free.
Spec == Init /\ [][Next]_vars /\ WF_vars(Listens) /\ WF_vars(Writes)
-----------------------------------------------------------------------------
\* Every variable keeps its shape: the listener is never ahead of the bus, and the
\* bus retains no more than its capacity.
TypeOK ==
    /\ \A e \in Execs : seq[e] = Len(emitted[e])
    /\ Len(channel) =< CAPACITY /\ position \in 0 .. published
    /\ rules \subseteq Rules /\ \A e \in Execs : held[e] \subseteq Rules
    /\ writing \subseteq dispatched

Terminal == {"WorkflowCompleted", "WorkflowFailed"}
Kind(e, i) == emitted[e][i].kind
Distinct(g) == \A i, j \in DOMAIN g.nodes : g.nodes[i].id = g.nodes[j].id => i = j
FinishedAt(e, n) ==
    {i \in DOMAIN emitted[e] : emitted[e][i] = [kind |-> "NodeFinished", node |-> n]}

\* The events tell the same story as the answer (execution.rs:324): an execution
\* answered ok ends in WorkflowCompleted, one answered as failed in NodeFailed and
\* WorkflowFailed naming the same node, and no other has a terminal event.
OutcomeTold ==
    \A e \in Execs :
        LET n == Len(emitted[e])
            ends == {i \in DOMAIN emitted[e] : Kind(e, i) \in Terminal}
        IN  CASE response[e] = "ok" -> ends = {n} /\ Kind(e, n) = "WorkflowCompleted"
              [] response[e] = "upstream" ->
                    /\ ends = {n} /\ Kind(e, n) = "WorkflowFailed"
                    /\ Kind(e, n - 1) = "NodeFailed"
                    /\ emitted[e][n].node = emitted[e][n - 1].node
              [] OTHER -> ends = {}

\* An execution answered ok finished every node exactly once (an id as often as there
\* are nodes with it: no pass rejects duplicates).  One answered as failed names a
\* node the scheduler left failed if there is any, and one that failed by itself,
\* never one that was only failed with it, in a graph without back edges and duplicate
\* ids; with back edges the replay falls back to the order of the nodes, and a dependent
\* may be named (execution.rs:315, lib.rs:558).
NodesTold ==
    \A e \in Execs :
        LET nodes == graph[e].nodes
            failed == {n \in DOMAIN states[e] : IsFailed(states[e][n])}
            named == emitted[e][Len(emitted[e])].node
        IN  /\ response[e] = "ok" => \A m \in Ids(graph[e]) :
                  Cardinality(FinishedAt(e, m)) = Cardinality({i \in DOMAIN nodes : nodes[i].id = m})
            /\ response[e] = "upstream" => named \in IF failed = {} THEN {NoNode} ELSE failed
            /\ (response[e] = "upstream" /\ failed # {} /\ Distinct(graph[e]) /\ ~Looping(graph[e]))
                  => states[e][named] = "Failed"

\* The replay respects the dependencies: in a graph without loops and without
\* duplicate ids a node's NodeFinished comes after that of every node it waits for,
\* although nodes are popped from a stack (execution.rs:203).
FinishedAfterInputs ==
    \A e \in Execs :
        (Distinct(graph[e]) /\ ~Looping(graph[e])) =>
            \A i \in DOMAIN graph[e].edges :
                \A k \in FinishedAt(e, graph[e].edges[i].to) :
                    \E j \in FinishedAt(e, graph[e].edges[i].from) : j < k

\* The event file of an execution holds events the execution emitted, each with the
\* number, kind and node it was emitted with and none twice, although blocking threads
\* append in any order: load_events, which sorts by number, gets back the order of
\* emission.  As long as nothing fails, all that was dispatched is in the file or
\* being written (storage.rs:38, 71).
StoredOnce ==
    /\ \A e \in Execs : \A i \in DOMAIN stored[e] :
          LET ev == stored[e][i]
          IN  /\ ev.exec = e /\ ev.seq \in DOMAIN emitted[e]
              /\ emitted[e][ev.seq] = [kind |-> ev.kind, node |-> ev.node]
    /\ \A e \in Execs : \A i, j \in DOMAIN stored[e] :
          stored[e][i].seq = stored[e][j].seq => i = j
    /\ faults = 0 => \A ev \in dispatched :
          ev \in writing \/ \E i \in DOMAIN stored[ev.exec] : stored[ev.exec][i] = ev

\* What the listener did not dispatch it knows it lost: dispatched and skipped
\* events add up to those it is past (projection.rs:53).
LossAccounted == Cardinality(dispatched) + lag_total = position

\* A checkpoint is that of a node completion the listener saw, and there is one for
\* each sequence number at most.  As long as nothing fails, a completion without one
\* has the number of another execution's that has one: the projection tells duplicates
\* by the number alone, so concurrent executions hide each other's nodes
\* (checkpoint.rs:42; RepeatsSkippedOnly is what it does not provide).
CheckpointsExplained ==
    /\ \A c \in checkpoints : c \in dispatched /\ c.kind = "NodeFinished"
    /\ \A c, d \in checkpoints : c.seq = d.seq => c = d
    /\ faults = 0 =>
          \A ev \in dispatched : ev.kind = "NodeFinished" =>
              \/ ev \in checkpoints
              \/ \E c \in checkpoints : c.seq = ev.seq /\ c.exec # ev.exec

\* "Enforce idempotency: skip duplicate event sequence numbers" (checkpoint.rs:41): as
\* long as nothing fails, a completion is skipped only if its checkpoint is there.
RepeatsSkippedOnly ==
    faults = 0 => \A ev \in dispatched : ev.kind = "NodeFinished" => ev \in checkpoints

\* A rule that was in the registry when the request came, and stayed until the
\* registry was read, binds the nodes of the workflow: none it denies is in a compiled
\* graph and every one it holds for approval waits for a gate (execution.rs:277,
\* lib.rs:1049).  The subgraphs are made after the policy pass, so their nodes are
\* under no rule of their own; each calls the model of the node it was made from, which
\* the pass has seen, or a model the client lists as a consensus member, which it has
\* not (strategy_expansion.rs:127; EveryNodePermitted is what that breaks).
PolicyEnforced ==
    \A e \in Execs : \A i \in DOMAIN graph[e].nodes :
        LET node == graph[e].nodes[i]
            sub == graph[e].subgraphs[i]
        IN  /\ \A r \in held[e] : (node.id < GateOf(0) /\ Matches(r, node)) =>
                  /\ r.effect # "deny"
                  /\ r.effect = "approval" => Guarded(graph[e], node.id)
            /\ \A c \in sub.nodes :
                  sub.model[c] \in {node.model} \union
                      IF node.strategy = "Consensus" /\ IsArray(node) THEN ToSet(node.list) ELSE {}

\* A node of a subgraph as the policy pass would see it: the configuration of the
\* node it was made from, and the model it was given.
ChildNode(node, model) == [node EXCEPT !.kind = "Generate", !.model = model]

\* "Every node must satisfy all applicable policies" (Law 2,
\* docs/implementation/security-hardening-v0.13.1.md:33): neither does a node of a
\* strategy's subgraph match a rule that denies it.
EveryNodePermitted ==
    \A e \in Execs : \A i \in DOMAIN graph[e].subgraphs : \A r \in held[e] :
        LET sub == graph[e].subgraphs[i]
        IN  \A c \in sub.nodes :
                Matches(r, ChildNode(graph[e].nodes[i], sub.model[c])) => r.effect # "deny"

\* The reference the three-colour search is compared with: some of the nodes each
\* have a forward edge to another of them.
Cyclic(ir) ==
    \E set \in (SUBSET Ids(ir)) \ {{}} : \A n \in set :
        \E i \in Forward(ir) : ir.edges[i].from = n /\ ir.edges[i].to \in set

\* The iterative search refuses exactly the workflows with a cycle outside the
\* loops' back edges (lib.rs:311), also where elimination removes the cycle later on,
\* and no later pass makes one.
CyclesRejectedExactly ==
    \A e \in Execs :
        /\ response[e] = "cycle" => Cyclic(workflow[e])
        /\ graph[e] # NoGraph => ~Cyclic(workflow[e]) /\ ~Cyclic(graph[e])

\* What the passes validated still holds of the graph they produce: its edges join
\* its nodes and its control-flow nodes keep their arity, although dead nodes are
\* removed and gates inserted after the validation (lib.rs:972).  Workflows in
\* which a loop's back edge enters an entry point are excepted: elimination does
\* not count such a node as an entry and may remove a part others wait for.
CompiledWellFormed ==
    \A e \in {f \in Execs : graph[f] # NoGraph} :
        (\A i \in DOMAIN workflow[e].edges :
            workflow[e].edges[i].condition = "loop" =>
                \E j \in Forward(workflow[e]) :
                    workflow[e].edges[j].to = workflow[e].edges[i].to) =>
        EdgesKnown(graph[e]) /\ KindsOk(graph[e])

\* The nodes of a subgraph that some of its nodes lead to.
After(sub, set) == {n \in sub.nodes : \E m \in set : <<m, n>> \in sub.edges}

RunsToExit(sub, size) ==
    /\ IsFiniteSet(sub.nodes) /\ Cardinality(sub.nodes) =< size
    /\ {sub.entry, sub.exit} \subseteq sub.nodes
    /\ sub.entry \notin After(sub, sub.nodes) /\ After(sub, {sub.exit}) = {}
    /\ \A set \in (SUBSET sub.nodes) \ {{}} : After(sub, set) \subseteq set => sub.exit \in set

\* Every strategy's subgraph can run to its exit: it is bounded, has one exit every
\* inner node leads to, and an entry nothing precedes (strategy_expansion.rs:46).
SubgraphsRun ==
    \A e \in Execs : \A i \in DOMAIN graph[e].subgraphs :
        LET sub == graph[e].subgraphs[i]
        IN  sub.nodes # {} =>
                RunsToExit(sub, Max({MAX_CONSENSUS_MEMBERS + 1, MAX_CHAIN_STEPS, 3}))

\* The replay visits nodes of the graph only (execution.rs:182).
ReplaysNodes == \A e \in Execs : ToSet(order[e]) \subseteq DOMAIN graph[e].nodes

\* What observers are told of an execution is what happened: the outcome, and the
\* nodes in an order the graph allows.
EventsFaithful == OutcomeTold /\ NodesTold /\ FinishedAfterInputs /\ ReplaysNodes

\* What the projections hold is explained by the events that were sent: each once,
\* with every loss counted and every checkpoint belonging to a finished node.
ProjectionsFaithful == TypeOK /\ StoredOnce /\ LossAccounted /\ CheckpointsExplained

\* The compiler lets through exactly what can run: it refuses the cyclic workflows
\* only, and what it produces is well formed and has subgraphs that reach their exit.
CompilerSound == CyclesRejectedExactly /\ CompiledWellFormed /\ SubgraphsRun

\* The listener catches up once nothing more is sent, also after it lagged behind:
\* no event stays in the bus unseen (projection.rs:33).
ListenerCatchesUp == <>[](Awake => position = published)
=============================================================================
