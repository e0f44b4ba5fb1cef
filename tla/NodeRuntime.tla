---------------------------- MODULE NodeRuntime ----------------------------
(***************************************************************************)
(* The execution of nodes by ProviderExecutor                              *)
(* (crates/fusion-runtime/src/lib.rs), behind the host's DefaultExecutor   *)
(* (src/executor/node_exec.rs): dispatch on the kind of a node, attempts,  *)
(* fallback, the tool loop with its gates, approval gates, prebuilt        *)
(* subgraphs, and the accounting with the resource manager.                *)
(*                                                                         *)
(* The scheduler runs the top-level nodes concurrently and may drop an     *)
(* execution while it awaits.  The nodes of a subgraph run one at a time;  *)
(* subgraphs inside subgraphs are left out.  Usage is in tokens; 0 stands  *)
(* for a response without usage.  Where a cache is configured              *)
(* (SemanticCache), the provider adapter asks it first and stores the      *)
(* answers with content.                                                   *)
(***************************************************************************)
EXTENDS SemanticCache

CONSTANTS Nodes,              \* a set of numbers, in the order of the graph
          Shapes,             \* kinds, subgraphs and tool lists of the nodes
          max_tool_iterations, allow_auto_exec,
          Tools, Registered, Permitted,
          Quota, Estimate

Kinds == {"llm", "gate", "control", "subgraph"}

ASSUME RuntimeAssumption ==
    /\ Nodes \subseteq Nat /\ IsFiniteSet(Nodes) /\ Callers = Nodes
    /\ max_tool_iterations \in Nat \ {0}
    /\ allow_auto_exec \in BOOLEAN
    /\ Registered \subseteq Tools /\ Permitted \subseteq Tools
    /\ Quota \in Nat /\ Estimate \in Nat
    /\ \A s \in Shapes : /\ s.kind \in [Nodes -> Kinds]
                         /\ s.top \subseteq Nodes
                         /\ s.inner \in [s.top -> SUBSET (Nodes \ s.top)]
                         /\ \A m, n \in s.top : m # n => s.inner[m] \intersect s.inner[n] = {}
                         /\ \A n \in Nodes \ s.top : s.kind[n] # "subgraph"
                         /\ s.edges \subseteq UNION {s.inner[n] \X s.inner[n] : n \in s.top}
                         /\ s.allowlist \in [Nodes -> SUBSET Tools]
                         /\ s.fallback \in BOOLEAN /\ s.approved \subseteq Nodes
                         /\ s.malformed \subseteq Nodes /\ s.cached \in BOOLEAN
                         /\ s.requests \subseteq SUBSET Tools \* tools an answer asks for
                         /\ DOMAIN s.prompt = Nodes /\ s.max_retries \in Nat
                         /\ s.usages \subseteq Nat \* tokens of an answer
                         /\ \E u \in s.usages : \A v \in s.usages : v <= u

VARIABLES shape,
          exec,       \* node to the state of its execution
          result,     \* node to its NodeExecutionResult
          spent,      \* tokens recorded by the resource manager
          asked,      \* history: provider calls of each node
          answered,   \* history: usage of the answers to each node
          ran,        \* history: tools run for each node
          dropped     \* history: an execution was dropped

vars == <<shape, exec, result, spent, asked, answered, ran, dropped, cache>>
history == <<asked, answered, ran, dropped>>

Top == shape.top
Fresh == [pc |-> "idle", attempts |-> 0, fallback |-> FALSE, iteration |-> 0,
          usage |-> 0, calls |-> {}, batch |-> {}]
Pending == [state |-> "Pending", usage |-> 0]

Init ==
    /\ shape \in Shapes
    /\ exec = [n \in Nodes |-> Fresh] /\ result = [n \in Nodes |-> Pending]
    /\ spent = 0
    /\ asked = [n \in Nodes |-> 0] /\ answered = [n \in Nodes |-> 0]
    /\ ran = [n \in Nodes |-> {}] /\ dropped = FALSE
    /\ CacheInit

Set(n, e) == exec' = [exec EXCEPT ![n] = e]
Ends(n, state, usage) ==
    /\ Set(n, [exec[n] EXCEPT !.pc = "done"])
    /\ result' = [result EXCEPT ![n] = [state |-> state, usage |-> usage]]
Fails(n) == Ends(n, "Failed", 0)
Ended(n) == exec[n].pc = "done"

\* Dispatch on the kind; an LLM node has max_retries + 1 attempts.
Entered(n) ==
    [Fresh EXCEPT !.pc = IF shape.kind[n] = "llm" THEN "attempt" ELSE shape.kind[n],
                  !.attempts = IF shape.kind[n] = "llm" THEN shape.max_retries + 1 ELSE 0]

Start(n) ==
    /\ n \in Top /\ exec[n].pc = "idle"
    /\ Set(n, Entered(n))
    /\ UNCHANGED <<shape, cache, result, spent, history>>

\* The scheduler drops the execution of a top-level node, with what runs in it.
Drop(n) ==
    /\ n \in Top /\ exec[n].pc \notin {"idle", "done", "dropped"}
    /\ exec' = [m \in Nodes |->
         IF m = n \/ (shape.kind[n] = "subgraph" /\ m \in shape.inner[n] /\ ~Ended(m))
         THEN [exec[m] EXCEPT !.pc = "dropped"] ELSE exec[m]]
    /\ Abandon({m \in Nodes : exec'[m].pc = "dropped"})
    /\ dropped' = TRUE
    /\ UNCHANGED <<shape, result, spent, asked, answered, ran>>

-----------------------------------------------------------------------------
(* Nodes without a provider. *)

GateDecides(n) ==
    /\ exec[n].pc = "gate"
    /\ Ends(n, IF n \in shape.approved THEN "Succeeded" ELSE "Failed", 0)
    /\ UNCHANGED <<shape, cache, spent, history>>

ControlPasses(n) ==
    /\ exec[n].pc = "control"
    /\ Ends(n, "Succeeded", 0)
    /\ UNCHANGED <<shape, cache, spent, history>>

-----------------------------------------------------------------------------
(* Subgraphs: batches of ready nodes, each run to its end in turn. *)

Completed(n) == {i \in shape.inner[n] : Ended(i) /\ result[i].state = "Succeeded"}

ReadyInner(n) == {i \in shape.inner[n] \ Completed(n) :
                    \A e \in shape.edges : e[2] = i => e[1] \in Completed(n)}

\* The sum of a function over a finite set, counted one by one.
Units(amount, S) == UNION {{n} \X (1..amount[n]) : n \in S}
Total(amount, S) == Cardinality(Units(amount, S))
Reported == [n \in Nodes |-> result[n].usage]

First(S) == CHOOSE i \in S : \A j \in S : i <= j

SubgraphBatch(n) ==
    /\ exec[n].pc = "subgraph" /\ exec[n].batch = {}
    /\ IF Completed(n) = shape.inner[n]
       THEN Ends(n, "Succeeded", Total(Reported, shape.inner[n]))
       ELSE IF ReadyInner(n) = {} THEN Fails(n)
       ELSE Set(n, [exec[n] EXCEPT !.batch = ReadyInner(n)]) /\ UNCHANGED result
    /\ UNCHANGED <<shape, cache, spent, history>>

\* A failed inner node fails the subgraph, and its usage is not reported.
SubgraphStep(n) ==
    /\ exec[n].pc = "subgraph" /\ exec[n].batch # {}
    /\ LET i == First(exec[n].batch)
       IN  CASE exec[i].pc = "idle" -> Set(i, Entered(i)) /\ UNCHANGED result
             [] Ended(i) /\ result[i].state = "Succeeded" ->
                  Set(n, [exec[n] EXCEPT !.batch = @ \ {i}]) /\ UNCHANGED result
             [] Ended(i) /\ result[i].state = "Failed" -> Fails(n)
             [] OTHER -> FALSE
    /\ UNCHANGED <<shape, cache, spent, history>>

-----------------------------------------------------------------------------
(* Attempts of an LLM node. *)

\* Faulty variant: the fallback is tried again when it fails.
AttemptBegins_again(n) ==
    LET e == exec[n]
    IN  /\ e.pc = "attempt"
        /\ IF e.attempts > 0 \/ shape.fallback
           THEN /\ Set(n, [e EXCEPT !.pc = "afford", !.iteration = 0,
                             !.attempts = IF @ > 0 THEN @ - 1 ELSE 0])
                /\ UNCHANGED result
           ELSE Fails(n)
        /\ UNCHANGED <<shape, cache, spent, history>>

\* The next attempt, then one with the fallback model; a malformed
\* configuration ends the node at once.
AttemptBegins(n) ==
    LET e == exec[n]
        again == e.attempts > 0
    IN  /\ e.pc = "attempt"
        /\ IF (again \/ (shape.fallback /\ ~e.fallback)) /\ n \notin shape.malformed
           THEN /\ Set(n, [e EXCEPT !.pc = "afford", !.iteration = 0,
                             !.attempts = IF again THEN @ - 1 ELSE 0,
                             !.fallback = ~again])
                /\ UNCHANGED result
           ELSE Fails(n)
        /\ UNCHANGED <<shape, cache, spent, history>>

AttemptFails(n) == Set(n, [exec[n] EXCEPT !.pc = "attempt", !.calls = {}])

can_afford(n) == spent + Estimate <= Quota

\* Every provider call is preceded by the check of the quota.
CheckQuota(n) ==
    /\ exec[n].pc = "afford"
    /\ IF can_afford(n)
       THEN Set(n, [exec[n] EXCEPT !.pc = IF shape.cached THEN "lookup" ELSE "calling"])
       ELSE AttemptFails(n)
    /\ asked' = [asked EXCEPT ![n] = IF can_afford(n) THEN @ + 1 ELSE @]
    /\ UNCHANGED <<shape, cache, result, spent, answered, ran, dropped>>

\* Model, messages and sampling parameters of the request: the prompt, the
\* rounds gone through and whether the fallback model is asked.
cache_key(n) == <<shape.prompt[n], exec[n].iteration, exec[n].fallback>>

BeginLookup(n) ==
    /\ exec[n].pc = "lookup" /\ LookupBegins(n, cache_key(n))
    /\ UNCHANGED <<shape, exec, result, spent, history>>

CacheMisses(n) ==
    /\ exec[n].pc = "lookup" /\ LookupMisses(n)
    /\ Set(n, [exec[n] EXCEPT !.pc = "calling"])
    /\ UNCHANGED <<shape, result, spent, history>>

\* A hit is an answer without tool calls, with the usage it was stored with.
CacheHits(n, usage) ==
    /\ exec[n].pc = "lookup" /\ LookupHits(n, usage)
    /\ Set(n, [exec[n] EXCEPT !.pc = "recording", !.usage = usage, !.calls = {}])
    /\ answered' = [answered EXCEPT ![n] = @ + usage]
    /\ UNCHANGED <<shape, result, spent, asked, ran, dropped>>

ProviderFails(n) ==
    /\ exec[n].pc = "calling"
    /\ AttemptFails(n)
    /\ UNCHANGED <<shape, cache, result, spent, history>>

\* With a cache, an answer whose content is not blank is stored first.
ProviderAnswers(n, usage, calls) ==
    /\ exec[n].pc = "calling"
    /\ \E next \in {"recording"} \union (IF shape.cached THEN {"storing"} ELSE {}) :
         Set(n, [exec[n] EXCEPT !.pc = next, !.usage = usage, !.calls = calls])
    /\ answered' = [answered EXCEPT ![n] = @ + usage]
    /\ UNCHANGED <<shape, cache, result, spent, asked, ran, dropped>>

BeginPut(n) ==
    /\ exec[n].pc = "storing" /\ PutBegins(n, cache_key(n), exec[n].usage)
    /\ UNCHANGED <<shape, exec, result, spent, history>>

EndPut(n) ==
    /\ exec[n].pc = "storing" /\ (InsertEntry(n) \/ PutSkipped(n))
    /\ Set(n, [exec[n] EXCEPT !.pc = "recording"])
    /\ UNCHANGED <<shape, result, spent, history>>

InCache(n) == CacheStep(n) /\ UNCHANGED <<shape, exec, result, spent, history>>
Expiry(l) == EntryExpires(l) /\ UNCHANGED <<shape, exec, result, spent, history>>

\* After the recording: the answer is final, or the loop is exhausted, or
\* tools may not be run, or they are run.
AfterRecording(n) ==
    LET e == exec[n]
    IN  IF e.calls = {} THEN Ends(n, "Succeeded", e.usage)
        ELSE /\ IF e.iteration = max_tool_iterations \/ ~allow_auto_exec
                THEN AttemptFails(n)
                ELSE Set(n, [e EXCEPT !.pc = "tools"])
             /\ UNCHANGED result

\* Faulty variant: only a final answer is recorded.
RecordUsage_final(n) ==
    /\ exec[n].pc = "recording"
    /\ spent' = IF exec[n].calls = {} THEN spent + exec[n].usage ELSE spent
    /\ AfterRecording(n)
    /\ UNCHANGED <<shape, cache, history>>

RecordUsage(n) ==
    /\ exec[n].pc = "recording"
    /\ spent' = spent + exec[n].usage
    /\ AfterRecording(n)
    /\ UNCHANGED <<shape, cache, history>>

\* Faulty variant: the declared list is taken as it is.
tool_allowlist_declared(n) == shape.allowlist[n]

\* The host narrows the list of a node it hands to the runtime; the nodes of
\* a subgraph reach the runtime inside it.
tool_allowlist(n) ==
    IF n \in Top THEN shape.allowlist[n] \intersect Registered \intersect Permitted
    ELSE shape.allowlist[n]

\* The calls of one answer are taken in turn; a call that is not allowed or not
\* registered is answered with an error entry.
RunTool(n) ==
    /\ exec[n].pc = "tools" /\ exec[n].calls # {}
    /\ LET t == CHOOSE t \in exec[n].calls : TRUE
       IN  /\ Set(n, [exec[n] EXCEPT !.calls = @ \ {t}])
           /\ ran' = [ran EXCEPT ![n] =
                @ \union ({t} \intersect tool_allowlist(n) \intersect Registered)]
    /\ UNCHANGED <<shape, cache, result, spent, asked, answered, dropped>>

NextRound(n) ==
    /\ exec[n].pc = "tools" /\ exec[n].calls = {}
    /\ Set(n, [exec[n] EXCEPT !.pc = "afford", !.iteration = @ + 1])
    /\ UNCHANGED <<shape, cache, result, spent, history>>

Step(n) ==
    \/ GateDecides(n) \/ ControlPasses(n) \/ SubgraphBatch(n) \/ SubgraphStep(n)
    \/ AttemptBegins(n) \/ CheckQuota(n) \/ ProviderFails(n)
    \/ \E u \in shape.usages, calls \in shape.requests : ProviderAnswers(n, u, calls)
    \/ BeginLookup(n) \/ CacheMisses(n) \/ \E u \in shape.usages : CacheHits(n, u)
    \/ BeginPut(n) \/ EndPut(n) \/ InCache(n)
    \/ RecordUsage(n) \/ RunTool(n) \/ NextRound(n)

Next ==
    \/ \E n \in Nodes : Start(n) \/ Drop(n) \/ Step(n)
    \/ \E l \in Labels : Expiry(l)

\* Provider and tool calls end.
Spec == Init /\ [][Next]_vars /\ \A n \in Nodes : WF_vars(Step(n))

-----------------------------------------------------------------------------
TypeOK ==
    /\ shape \in Shapes
    /\ \A n \in Nodes :
         /\ exec[n].pc \in {"idle", "gate", "control", "subgraph", "attempt", "afford",
                            "lookup", "calling", "storing", "recording", "tools", "done",
                            "dropped"}
         /\ exec[n].attempts \in 0..shape.max_retries + 1
         /\ exec[n].iteration \in 0..max_tool_iterations
         /\ exec[n].batch \subseteq Nodes \ Top
         /\ result[n].state \in {"Pending", "Succeeded", "Failed"}
    /\ spent \in Nat
    /\ CacheTypeOK

\* Every answer, cached ones included, is charged once, whichever attempt, round,
\* fallback or subgraph it belongs to and however the node ends; only a dropped execution may lose
\* the answer it was about to record (lib.rs:541).
ChargedExactly ==
    LET pending == [n \in Nodes |-> IF exec[n].pc \in {"storing", "recording"}
                                    THEN exec[n].usage ELSE 0]
    IN  ~dropped => spent + Total(pending, Nodes) = Total(answered, Nodes)

\* What the scheduler is told never exceeds what the quota was charged: a node
\* reports the usage of its last answer, a subgraph the sum over its nodes
\* (lib.rs:385, 747).
ReportedWithinCharged ==
    Total(Reported, Top) <= spent

\* Retries, rounds and the fallback are bounded together.
CallsBounded ==
    \A n \in Nodes : asked[n] <= (shape.max_retries + 2) * (max_tool_iterations + 1)

MostUsage == CHOOSE u \in shape.usages : \A v \in shape.usages : v <= u

\* The quota is checked before and charged after each call, so concurrent nodes
\* can exceed it: by one answer each.
OvercommitBounded ==
    LET room == IF Quota >= Estimate THEN Quota - Estimate ELSE 0
    IN  spent <= room + MostUsage * Cardinality({n \in Nodes : asked[n] > 0})

\* A node of a subgraph starts after its predecessors have succeeded, behind a
\* gate only when it was approved, and a subgraph succeeds only when all of its
\* nodes have (lib.rs:393, 660).
SubgraphInOrder ==
    /\ \A e \in shape.edges : exec[e[2]].pc \notin {"idle", "dropped"} =>
          /\ result[e[1]].state = "Succeeded"
          /\ shape.kind[e[1]] = "gate" => e[1] \in shape.approved
    /\ \A n \in Top : shape.kind[n] = "subgraph" /\ result[n].state = "Succeeded" =>
          \A i \in shape.inner[n] : /\ result[i].state = "Succeeded"
                                    /\ shape.kind[i] = "llm" => asked[i] > 0

\* The tools that run for a node the host hands to the runtime are registered and
\* permitted by the operator, whatever list the node declares and in every attempt
\* (node_exec.rs:75).  The nodes inside a subgraph are not such nodes.
ToolsPermitted == \A n \in Top : ran[n] \subseteq Registered \intersect Permitted

\* The cache holds no more than its capacity, and one entry more for every put
\* that began while another was under way: overlapping puts choose the same entry
\* to evict (semantic_cache.rs:247).
CacheBounded == Cardinality(Labels) <= max_entries + overlaps

\* When no operation is under way and no execution was dropped, every entry can be
\* found through the index, and a label that no entry has, which shadows the entries
\* near it, is one the index failed to remove (semantic_cache.rs:201, 229, 275).
IndexAgrees ==
    ~dropped /\ (\A c \in Callers : op[c] = NoCacheOp) =>
        LET linked == {i.label : i \in index}
        IN  Labels \subseteq linked /\ linked \subseteq Labels \union unremoved

\* Usage is accounted through retries, rounds, fallback, subgraphs and the cache:
\* charged once, never reported above what was charged, in a bounded number of
\* calls, and over the quota by one answer for each node at most.
UsageAccounted ==
    ChargedExactly /\ ReportedWithinCharged /\ CallsBounded /\ OvercommitBounded

\* What node_exec.rs:75-79 says of the narrowing, that it is enforced on every
\* execution path: also inside a subgraph, only registered tools run that the
\* operator permits.
ToolsPermittedEverywhere == \A n \in Nodes : ran[n] \subseteq Registered \intersect Permitted

\* Nothing runs that was not let through: no node of a subgraph before its
\* predecessors or behind a closed gate, and no tool the operator does not permit for
\* a node the host hands over (lib.rs:393, 660; node_exec.rs:75).
OnlyPermittedRuns == SubgraphInOrder /\ ToolsPermitted

\* Entries and index of the cache stay consistent although they are changed under
\* separate locks, and the capacity is exceeded by overlapping puts only.
CacheInv == TypeOK /\ CacheBounded /\ IndexAgrees

\* The execution of a node ends, unless it is dropped.
ExecutionEnds ==
    \A n \in Nodes : (exec[n].pc # "idle" ~> exec[n].pc \in {"done", "dropped"})
=============================================================================
