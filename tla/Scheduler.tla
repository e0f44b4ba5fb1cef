----------------------------- MODULE Scheduler -----------------------------
(***************************************************************************)
(* DefaultScheduler::run_inner (crates/fusion-scheduler/src/lib.rs): one   *)
(* run of an execution graph.  The scheduler task alternates between the   *)
(* loop head, where it dispatches a batch of ready nodes, and the batch,   *)
(* where the executor runs the nodes concurrently (join_all) and the       *)
(* results are then applied one by one, in batch order, with no await in   *)
(* between.  The client may cancel at any time.                            *)
(*                                                                         *)
(* Data abstraction: a node's usage is one number (cost and tokens are the *)
(* two dimensions of module BudgetEnvelope); the output of a node is the   *)
(* branch label a Conditional emits, "continue" or "stop" for a Loop head  *)
(* (a JSON true or anything else), and "none" for any other node, whose    *)
(* output the scheduler only passes on.                                    *)
(***************************************************************************)
EXTENDS WorkQueue, Integers

CONSTANTS MaxConcurrent,     \* DefaultScheduler.max_concurrent
          MaxCost,           \* BudgetEnvelope.max_cost / max_tokens
          MaxEnvelopeIterations, \* BudgetEnvelope.max_iterations
          Usages,            \* usage a node execution may report; 0 is "no usage"
          MaxUsage           \* no execution reports more

ASSUME SchedulerAssumption ==
    /\ MaxConcurrent \in Nat \ {0}     \* config validation rejects 0
    /\ MaxCost \in Nat
    /\ MaxEnvelopeIterations \in Nat
    /\ MaxUsage \in Nat
    /\ Usages \subseteq 0..MaxUsage /\ 0 \in Usages

VARIABLES graph,             \* the graph of this run, frozen
          with_envelope,     \* a budget envelope was passed to the run
          pc,                \* "head", "batch" or "done"
          queue,             \* the WorkQueue
          node_states,       \* "None": no entry in the map
          outputs,           \* "absent": no entry in the map
          batch_ids,         \* the nodes of the batch being run
          by_id,             \* the batch is in id order (else in graph order)
          results,           \* results of batch nodes not yet applied
          loop_iterations,   \* loop-backs taken per loop head
          total,             \* total_cost / total_tokens of the outcome
          spent,             \* the envelope's counter
          current_iterations,\* the envelope's iteration counter
          cancelled,         \* the client's cancellation token
          outcome,           \* how the run ended
          used               \* history: usage of every execution so far

vars == <<graph, with_envelope, pc, queue, node_states, outputs, batch_ids,
          by_id, results, loop_iterations, total, spent, current_iterations,
          cancelled, outcome, used>>

States == {"None", "Pending", "Running", "Succeeded", "Failed", "Skipped"}
Labels == {"true", "false"}
Decisions == {"continue", "stop"}
Outputs == Labels \union Decisions \union {"none"}

\* What an executor may emit for a node of graph g: a Conditional a label, a
\* Loop head its continue decision.
NodeOutputs(g, n) == CASE g.kind[n] = "Conditional" -> Labels
                       [] g.kind[n] = "Loop"        -> Decisions
                       [] OTHER                     -> {"none"}

NodeExecutionResult == [state : {"Succeeded", "Failed"}, usage : Usages, output : Outputs]
InFlight == [state |-> "Running", usage |-> 0, output |-> "none"]
CancelledByClient == [state |-> "Failed", usage |-> 0, output |-> "none"]

\* Nodes of the batch whose result has not been applied yet.
Todo == DOMAIN results

TypeOK ==
    /\ graph \in Graphs
    /\ with_envelope \in BOOLEAN
    /\ pc \in {"head", "batch", "done"}
    /\ queue \in Queues
    /\ node_states \in [Nodes -> States]
    /\ outputs \in [Nodes -> Outputs \union {"absent"}]
    /\ batch_ids \subseteq Nodes
    /\ by_id \in BOOLEAN
    /\ Todo \subseteq batch_ids
    /\ results \in [Todo -> NodeExecutionResult \union {InFlight}]
    /\ loop_iterations \in [Nodes -> Nat]
    /\ total \in Nat
    /\ spent \in Nat
    /\ current_iterations \in 0..MaxEnvelopeIterations
    /\ cancelled \in BOOLEAN
    /\ outcome \in {"none", "cancelled", "breached", "success", "failure"}
    /\ used \in Nat

Init ==
    /\ graph \in Graphs
    /\ with_envelope \in BOOLEAN
    /\ pc = "head"
    /\ queue = NewQueue(graph)
    /\ node_states = [n \in Nodes |-> "None"]
    /\ outputs = [n \in Nodes |-> "absent"]
    /\ batch_ids = {}
    /\ by_id = FALSE
    /\ results = << >>
    /\ loop_iterations = [n \in Nodes |-> 0]
    /\ total = 0
    /\ spent = 0
    /\ current_iterations = 0
    /\ cancelled = FALSE
    /\ outcome = "none"
    /\ used = 0

-----------------------------------------------------------------------------
(***************************************************************************)
(* The client and the executor.                                            *)
(***************************************************************************)
CancelRequest ==
    /\ pc # "done"
    /\ ~cancelled
    /\ cancelled' = TRUE
    /\ UNCHANGED <<graph, with_envelope, pc, queue, node_states, outputs,
                   batch_ids, by_id, results, loop_iterations, total, spent,
                   current_iterations, outcome, used>>

\* The biased select! polls the token first: once it is cancelled no pending
\* execution is polled to completion any more.
NodeFinishes(n) ==
    /\ pc = "batch"
    /\ n \in Todo /\ results[n] = InFlight
    /\ ~cancelled
    /\ \E state \in {"Succeeded", "Failed"}, usage \in Usages :
       \E output \in IF state = "Succeeded" THEN NodeOutputs(graph, n) ELSE {"none"} :
          /\ results' = [results EXCEPT ![n] =
                           [state |-> state, usage |-> usage, output |-> output]]
          /\ used' = used + usage
    /\ UNCHANGED <<graph, with_envelope, pc, queue, node_states, outputs,
                   batch_ids, by_id, loop_iterations, total, spent,
                   current_iterations, cancelled, outcome>>

NodeCancelled(n) ==
    /\ pc = "batch"
    /\ n \in Todo /\ results[n] = InFlight
    /\ cancelled
    /\ results' = [results EXCEPT ![n] = CancelledByClient]
    /\ UNCHANGED <<graph, with_envelope, pc, queue, node_states, outputs,
                   batch_ids, by_id, loop_iterations, total, spent,
                   current_iterations, cancelled, outcome, used>>

-----------------------------------------------------------------------------
(***************************************************************************)
(* The loop head.                                                          *)
(***************************************************************************)
AbortCancelled ==
    /\ pc = "head"
    /\ cancelled
    /\ pc' = "done"
    /\ outcome' = "cancelled"
    /\ UNCHANGED <<graph, with_envelope, queue, node_states, outputs, batch_ids,
                   by_id, results, loop_iterations, total, spent,
                   current_iterations, cancelled, used>>

\* Faulty variant: nodes that never ran do not count.
Verdict_lenient(states) ==
    IF \A n \in Nodes : states[n] # "Failed" THEN "success" ELSE "failure"

\* Line 579: the run succeeds when every node ended Succeeded or Skipped.
Verdict(states) ==
    IF \A n \in Nodes : states[n] \in {"Succeeded", "Skipped"}
    THEN "success" ELSE "failure"

Stalled == /\ get_ready(queue, node_states, MaxConcurrent) = {}
           /\ queue.in_progress = {}

\* Faulty variant: a stalled run polls for ever.
FinishRun_polls ==
    /\ pc = "head"
    /\ ~cancelled
    /\ IF is_done(queue, node_states)
       THEN /\ pc' = "done"
            /\ outcome' = Verdict(node_states)
            /\ UNCHANGED <<graph, with_envelope, queue, node_states, outputs,
                           batch_ids, by_id, results, loop_iterations, total,
                           spent, current_iterations, cancelled, used>>
       ELSE Stalled /\ UNCHANGED vars

\* Every node is done, or nothing is ready and nothing is in flight.
FinishRun ==
    /\ pc = "head"
    /\ ~cancelled
    /\ is_done(queue, node_states) \/ Stalled
    /\ pc' = "done"
    /\ outcome' = Verdict(node_states)
    /\ UNCHANGED <<graph, with_envelope, queue, node_states, outputs, batch_ids,
                   by_id, results, loop_iterations, total, spent,
                   current_iterations, cancelled, used>>

DispatchBatch ==
    /\ pc = "head"
    /\ ~cancelled
    /\ ~is_done(queue, node_states)
    /\ LET batch == get_ready(queue, node_states, MaxConcurrent)
       IN /\ batch # {}
          /\ queue' = mark_in_progress(queue, batch)
          /\ node_states' = [n \in Nodes |-> IF n \in batch THEN "Running"
                                                            ELSE node_states[n]]
          /\ batch_ids' = batch
          /\ results' = [n \in batch |-> InFlight]
    /\ by_id' = IsTruncated(queue, node_states, MaxConcurrent)
    /\ pc' = "batch"
    /\ UNCHANGED <<graph, with_envelope, outputs, loop_iterations, total, spent,
                   current_iterations, cancelled, outcome, used>>

-----------------------------------------------------------------------------
(***************************************************************************)
(* Applying the results of a batch.                                        *)
(***************************************************************************)
Before(m, n) == IF by_id THEN m < n ELSE graph.position[m] < graph.position[n]

\* join_all has returned and n is the next result of the batch.
IsNext(n) ==
    /\ pc = "batch"
    /\ n \in Todo
    /\ \A m \in Todo : results[m] # InFlight
    /\ \A m \in Todo \ {n} : Before(n, m)

Breaches(n) == /\ with_envelope
               /\ results[n].usage > 0
               /\ spent + results[n].usage > MaxCost

\* Faulty variant: failed nodes are not accounted.
Account_success(n) ==
    LET usage == IF results[n].state = "Succeeded" THEN results[n].usage ELSE 0
    IN /\ total' = total + usage
       /\ spent' = IF with_envelope THEN spent + usage ELSE spent

\* Accounting runs for any result that carries usage.
Account(n) ==
    /\ total' = total + results[n].usage
    /\ spent' = IF with_envelope THEN spent + results[n].usage ELSE spent

Applied(n) ==
    /\ results' = [m \in Todo \ {n} |-> results[m]]
    /\ pc' = IF Todo = {n} THEN "head" ELSE "batch"
    /\ UNCHANGED <<graph, with_envelope, batch_ids, by_id, cancelled, outcome, used>>

\* Applies a result that does not breach the envelope.
ApplyResult(n, state) ==
    /\ IsNext(n)
    /\ ~Breaches(n)
    /\ results[n].state = state
    /\ Account(n)

RecordOutput(n) == outputs' = [outputs EXCEPT ![n] = results[n].output]

\* Every Running or unvisited node is closed before the run returns.
ApplyBreach(n) ==
    /\ IsNext(n)
    /\ Breaches(n)
    /\ Account(n)
    /\ LET kept == [node_states EXCEPT ![n] = results[n].state]
           siblings == {m \in batch_ids : ~IsTerminal(kept[m])}
       IN node_states' = [m \in Nodes |->
                            CASE m \in siblings        -> "Failed"
                              [] IsTerminal(kept[m])   -> kept[m]
                              [] OTHER                 -> "Skipped"]
    /\ IF results[n].state = "Succeeded" THEN RecordOutput(n) ELSE UNCHANGED outputs
    /\ results' = << >>
    /\ pc' = "done"
    /\ outcome' = "breached"
    /\ UNCHANGED <<graph, with_envelope, queue, batch_ids, by_id,
                   loop_iterations, current_iterations, cancelled, used>>

ApplyConditional(n) ==
    /\ graph.kind[n] = "Conditional"
    /\ ApplyResult(n, "Succeeded")
    /\ Applied(n)
    /\ RecordOutput(n)
    /\ node_states' = [node_states EXCEPT ![n] = "Succeeded"]
    /\ LET matched == {e \in outgoing(graph, n) :
                         e.condition \in {"none", results[n].output}}
       IN queue' = activate_edges(graph, mark_conditional_completed(queue, n),
                                  n, Targets(matched))
    /\ UNCHANGED <<loop_iterations, current_iterations>>

\* increment_iteration would not fail.
IterationsLeft == with_envelope => current_iterations < MaxEnvelopeIterations

ApplyLoopContinue(n) ==
    /\ graph.kind[n] = "Loop"
    /\ ApplyResult(n, "Succeeded")
    /\ results[n].output = "continue"
    /\ IterationsLeft
    /\ Applied(n)
    /\ RecordOutput(n)
    /\ LET body == Targets(BodyEdges(graph, n))
           completed == mark_completed(graph, queue, n)
       IN /\ node_states' = [m \in Nodes |->
                               CASE m \in body -> "Pending"
                                 [] m = n      -> "Succeeded"
                                 [] OTHER      -> node_states[m]]
          /\ queue' = activate_edges(graph, reset_loop_body(graph, completed, n),
                                     n, body)
    /\ current_iterations' = IF with_envelope THEN current_iterations + 1
                                              ELSE current_iterations
    /\ UNCHANGED loop_iterations

\* break 'sched_loop: the remaining results of the batch are dropped.
ApplyLoopIterationLimit(n) ==
    /\ graph.kind[n] = "Loop"
    /\ ApplyResult(n, "Succeeded")
    /\ results[n].output = "continue"
    /\ ~IterationsLeft
    /\ RecordOutput(n)
    /\ node_states' = [node_states EXCEPT ![n] = "Succeeded"]
    /\ queue' = mark_completed(graph, queue, n)
    /\ results' = << >>
    /\ pc' = "done"
    /\ outcome' = Verdict(node_states')
    /\ UNCHANGED <<graph, with_envelope, batch_ids, by_id, loop_iterations,
                   current_iterations, cancelled, used>>

ApplyLoopExit(n) ==
    /\ graph.kind[n] = "Loop"
    /\ ApplyResult(n, "Succeeded")
    /\ results[n].output = "stop"
    /\ Applied(n)
    /\ RecordOutput(n)
    /\ node_states' = [node_states EXCEPT ![n] = "Succeeded"]
    /\ queue' = activate_edges(graph, mark_completed(graph, queue, n), n,
                               Targets(ExitEdges(graph, n)))
    /\ UNCHANGED <<loop_iterations, current_iterations>>

\* The node closes an iteration of a loop that has iterations left.
Rearms(n) ==
    /\ has_loop_back_edge(graph, n)
    /\ LET l == loop_back_target(graph, n)
       IN loop_iterations[l] < graph.max_iterations[l]

ApplyTask(n) ==
    /\ graph.kind[n] = "Task"
    /\ ApplyResult(n, "Succeeded")
    /\ ~Rearms(n)
    /\ Applied(n)
    /\ RecordOutput(n)
    /\ node_states' = [node_states EXCEPT ![n] = "Succeeded"]
    /\ queue' = mark_completed(graph, queue, n)
    /\ UNCHANGED <<loop_iterations, current_iterations>>

ApplyLoopBack(n) ==
    /\ graph.kind[n] = "Task"
    /\ ApplyResult(n, "Succeeded")
    /\ Rearms(n)
    /\ Applied(n)
    /\ RecordOutput(n)
    /\ LET l == loop_back_target(graph, n)
           body == Targets(BodyEdges(graph, l))
           reset == reset_loop_body(graph, mark_completed(graph, queue, n), l)
       IN /\ loop_iterations' = [loop_iterations EXCEPT ![l] = @ + 1]
          /\ node_states' = [m \in Nodes |->
                               CASE m \in body \union {l} -> "Pending"
                                 [] m = n                 -> "Succeeded"
                                 [] OTHER                 -> node_states[m]]
          /\ queue' = activate_edges(graph, reset_ready(reset, l), n, {l})
    /\ UNCHANGED current_iterations

\* The downstream nodes a failure of n reaches through nodes that have not
\* started.
NotStarted(m) == node_states[m] \in {"None", "Pending"}
CascadeClosed(n, S) ==
    \A e \in graph.edges :
        e.from \in S \union {n} /\ e.to # n /\ NotStarted(e.to) => e.to \in S
\* Faulty variant: only direct dependents fail.
Cascade_direct(n) == {m \in Targets(outgoing(graph, n)) : NotStarted(m)}

\* Faulty variant: decided nodes fail too.
Cascade_overwrites(n) == Reachable(graph, n)

Cascade(n) == {m \in Nodes : \A S \in SUBSET Nodes : CascadeClosed(n, S) => m \in S}

ApplyFailure(n) ==
    /\ ApplyResult(n, "Failed")
    /\ Applied(n)
    /\ LET downstream == Cascade(n)
       IN /\ node_states' = [m \in Nodes |-> IF m \in downstream \union {n}
                                             THEN "Failed" ELSE node_states[m]]
          /\ queue' = mark_failed(queue, downstream \union {n})
    /\ UNCHANGED <<outputs, loop_iterations, current_iterations>>

Apply(n) ==
    \/ ApplyBreach(n)
    \/ ApplyConditional(n)
    \/ ApplyLoopContinue(n)
    \/ ApplyLoopIterationLimit(n)
    \/ ApplyLoopExit(n)
    \/ ApplyTask(n)
    \/ ApplyLoopBack(n)
    \/ ApplyFailure(n)

-----------------------------------------------------------------------------
ExecutorStep == \E n \in Nodes : NodeFinishes(n) \/ NodeCancelled(n)
SchedulerStep == \/ AbortCancelled
                 \/ FinishRun
                 \/ DispatchBatch
                 \/ \E n \in Nodes : Apply(n)

\* A run that has returned stays as it is.
Terminated == pc = "done" /\ UNCHANGED vars

Next == CancelRequest \/ ExecutorStep \/ SchedulerStep \/ Terminated

\* The scheduler task is polled whenever it can run, and every node execution
\* ends (the executor bounds provider calls by timeouts); clients need not
\* cancel.
Spec == Init /\ [][Next]_vars /\ WF_vars(SchedulerStep) /\ WF_vars(ExecutorStep)
-----------------------------------------------------------------------------
(***************************************************************************)
(* Properties.  Those about order and containment are stated for graphs    *)
(* without a Loop node, which the compiler guarantees to be acyclic.       *)
(***************************************************************************)
LoopFree == \A n \in Nodes : graph.kind[n] # "Loop"

\* At the loop head no node is left in flight, and while a batch is applied
\* only its remaining nodes can be: the 2 ms poll of the loop head
\* (lib.rs:211) is never entered, so it can never spin on a lost node.
NothingLeftInFlight ==
    /\ pc = "head" => queue.in_progress = {}
    /\ pc = "batch" => queue.in_progress \subseteq Todo

\* A node runs only when every predecessor has succeeded, its output is there
\* to be handed over (lib.rs:257-272), and a Conditional predecessor chose
\* the branch.
DependenciesMet ==
    LoopFree => \A n \in Nodes : node_states[n] = "Running" =>
        \A e \in incoming(graph, n) :
            /\ node_states[e.from] = "Succeeded"
            /\ outputs[e.from] # "absent"
            /\ graph.kind[e.from] = "Conditional" =>
                  e.condition \in {"none", outputs[e.from]}

\* Nothing downstream of a failed node ever starts, and once the failure has
\* been applied nothing downstream is left un-decided: the cascade
\* (lib.rs:540-568) stops at nodes that have started, which therefore must
\* not exist behind a failure.
FailureContained ==
    LoopFree => \A n \in Nodes : node_states[n] = "Failed" =>
        \A m \in Reachable(graph, n) : node_states[m] \in {"Failed", "Skipped"}

\* A decided node is never re-opened, except a loop head and the nodes the
\* head's body edges lead to.
RearmsOnlyLoops ==
    [][\A n \in Nodes :
         IsTerminal(node_states[n]) /\ node_states'[n] # node_states[n] =>
            \E l \in Nodes : /\ graph.kind[l] = "Loop"
                             /\ n \in {l} \union Targets(BodyEdges(graph, l))]_vars

\* When a loop-free run ends by itself, a node that never ran was not
\* forgotten: one of its inputs never ran either, or is a Conditional that
\* chose another branch, or it has parallel edges from one source, which
\* activate once but count twice (work_queue.rs:114-118, 169-171).
NoNodeForgotten ==
    LoopFree /\ outcome \in {"success", "failure"} =>
        \A n \in Nodes : node_states[n] = "None" =>
            \E e \in incoming(graph, n) :
                \/ node_states[e.from] = "None"
                \/ /\ graph.kind[e.from] = "Conditional"
                   /\ e.condition \notin {"none", outputs[e.from]}
                \/ \E d \in incoming(graph, n) : d # e /\ d.from = e.from

\* At the loop head the totals hold every execution's usage, once.
AccountingExact ==
    pc = "head" => total = used /\ (with_envelope => spent = total)

\* An envelope bounds the real spend: the run stops at the first breach, so
\* what is used exceeds the ceiling by at most one batch.
OverspendBounded ==
    with_envelope => used <= MaxCost + MaxConcurrent * MaxUsage

\* A run reported successful ran every node and stayed within the envelope.
SuccessIsEarned ==
    outcome = "success" =>
        /\ \A n \in Nodes : node_states[n] = "Succeeded" /\ outputs[n] # "absent"
        /\ with_envelope => spent <= MaxCost

\* A run of a graph without loops that returned a result leaves no node Running: a
\* breach closes the siblings of the batch ("must not linger as phantom Running",
\* lib.rs:348).  A loop that exceeds the envelope's iterations returns without
\* closing them (lib.rs:436).
NoPhantomRunning ==
    LoopFree /\ outcome \in {"breached", "success", "failure"} =>
        \A n \in Nodes : node_states[n] # "Running"

\* The inductive invariant of the scheduler: types, and no node lost in flight.
SchedInv == TypeOK /\ NothingLeftInFlight

\* A failure reaches what is behind it and nothing else is left over: after a run
\* every node is decided, or there is a reason why it never ran (lib.rs:348, 540).
NodesSettled == FailureContained /\ NoNodeForgotten /\ NoPhantomRunning

\* Spend is accounted exactly and exceeds the envelope by one batch at most, failed
\* nodes included (lib.rs:303).
SpendAccounted == AccountingExact /\ OverspendBounded

\* Every run returns.
RunReturns == <>(pc = "done")
=============================================================================
