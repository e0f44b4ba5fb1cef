# FusionRouter: TLA+ models, checks and proofs

FusionRouter is an LLM gateway: it accepts OpenAI- and Anthropic-style requests,
turns each into a workflow, compiles the workflow to an execution graph, and runs
the graph against model providers under a budget. This directory models the
parts of it whose correctness depends on interleavings, failures and limits.
Line numbers refer to the repository at the modelled commit; `src/` is the root
of the repository.

## 1. The system

### How a request travels

1. The middleware checks the API key and the client's rate. `server/handlers`
   parse the request and reserve its estimate in the daily quota
   (`resource/mod.rs`, guarded by `resource/guard.rs`).
2. A chat request is planned and run by `server/pipeline.rs`; a workflow sent to
   the execution plane (`server/execution.rs`) is compiled by `fusion-compiler`
   under the policies in force, run by `fusion-scheduler`, and reported as events
   on a bounded bus that projections listen to.
3. The scheduler runs the graph in batches. Each node is executed by
   `fusion-runtime` (through `executor/fusion_bridge.rs`): attempts, fallback,
   rounds of tools, gates and subgraphs. A provider is called through its target
   in `providers/registry.rs`, guarded by the target's circuit breaker, and an
   answer may come from the semantic cache instead.
4. A request that may be streamed natively bypasses the scheduler: the handler
   opens the provider's stream and wraps it in `MeteredStream`
   (`resource/cancelling_stream.rs`), which charges a `BudgetEnvelope` and
   reports the measured usage when it ends.
5. When the request is over the estimate is released and the measured usage
   recorded.

Beside requests run: reloads of the configuration on SIGHUP, the cleanup of rate
buckets, the listener of the event bus, agent runs with their persisted state,
and the session stores with checkpoint and resume.

### Inventory

| Component | State | Operations | What is hard | What makes it correct |
|---|---|---|---|---|
| Scheduler, `fusion-scheduler/src/lib.rs` | node states, outputs, totals, loop counts | dispatch, apply result, cascade, loop back, breach, cancel | concurrent batch, partial failure, loops, early exits | dependency order, contained failures, nothing forgotten, exact accounting, return |
| Work queue, `work_queue.rs` | ready, in-progress, completed, failed, activated edges | get_ready, mark_*, activate_edge, reset_* | truncation, parallel and back edges, re-arming | a node is ready iff its inputs are there |
| Leases, `leases.rs` | leases, epochs, clock | grant, renew, revoke | stale clock, two critical sections, failover | one worker per task, growing epochs, bounded lifetime |
| Circuit breaker, `providers/circuit_breaker.rs` | state, counts, time stamp, probe mark | can_execute, record_success, record_failure | five atomics, dropped callers | opens on failures, never locks out |
| Provider registry, `providers/registry.rs` | targets, prefixes, default | complete, stream, reload | reload under traffic | a route is always found |
| Resource manager and guard, `resource/` | used cost and tokens | try_reserve, release, record_usage, guard drop | spawned releases, several exits | balance, no over-commitment, one release |
| Metered stream, meter, envelope | meter totals, charged totals, finish hook | poll, cancel, drop, finish | five ways to end, estimates corrected later | one report, within budget, exact charges |
| Node runtime, `fusion-runtime/src/lib.rs` | attempts, tool rounds, subgraph results | retry, fallback, tools, gates, subgraphs | usage of failed attempts, dropped executions | every answer charged once, bounded calls, permitted tools |
| Semantic cache, `cache/semantic_cache.rs` | entries, vector index | lookup, put, expiry, eviction | three locks taken one after the other | capacity, entries and index agree |
| Compiler, `fusion-compiler/src/lib.rs` | none (pure) | validation, policy, expansion, lowering | loops and branches, strategy sizes | rejects exactly what cannot run, output meets the scheduler's assumptions |
| Execution plane, `server/execution.rs` | events of a run | policy, compile, run, replay of events | dropped clients, policy changed on the way | events tell what was answered |
| Event bus and projections, `events/` | ring of events, listener position, stores | publish, receive, lag, store, checkpoint | overwritten events, failing writes | losses are counted, order is kept |
| Policies and features | registered rules, flags | register, clear, reload | changed under a request | a decision is made on one registry |
| Agent state and runner, `fusion-agent-state` | stored state, log, budget | merge, validate, commit, tool, cancel | crash between commit and effect | the store conforms, the log is in step, effects follow commits |
| Rate limiter, `middleware/rate_limit.rs` | buckets | check, cleanup, update | cap on buckets, cleanup and reload race | never over burst and rate, cap holds |
| Configuration manager, `config/manager.rs` | generation, staged values | read, validate, prepare, commit, publish | failing prepare, torn file, concurrent reloads | all or nothing, last signal wins |
| Sessions, `session/`, `lifecycle` | sessions, snapshots | checkpoint, resume, list, delete | two stores, checks before locks, crash in a delete | ownership, freshness, deletion is final |
| Everything else | | | | listed in `PROJECT.json` with the reason it is not modelled |

## 2. Modules

| Module | Models | Kind |
|---|---|---|
| `WorkQueue` | `work_queue.rs`: the queue as a record, one operator per method | operators |
| `Scheduler`, `SchedulerProofs` | `DefaultScheduler::run_inner`, one run of one graph | state machine over `WorkQueue`, proofs |
| `LeaseService` | what the lease manager promises: a task goes to a worker only when no other may act on it | abstract specification |
| `Leases`, proved in `SchedulerProofs` | `leases.rs`; implements `LeaseService` | state machine, proofs |
| `CircuitBreaker`, proved in `AdmissionProofs` | `circuit_breaker.rs` as driven by `registry.rs` | state machine, proofs |
| `QuotaLedger`, proved in `AdmissionProofs` | `resource/mod.rs`, `guard.rs` as driven by `handlers/chat.rs` and `pipeline.rs` | state machine, proofs |
| `BudgetEnvelope` | `BudgetEnvelope` of `fusion-types` | operators |
| `MeteredStream`, `MeteredStreamProofs` | `cancelling_stream.rs` and `stream_meter.rs` over `BudgetEnvelope` | state machine, proofs |
| `SemanticCache` | lookup and put of `semantic_cache.rs`, one action per lock | actions, composed into `NodeRuntime` |
| `NodeRuntime`, `NodeRuntimeProofs` | `fusion-runtime` and the provider adapter, several nodes on one quota and one cache | state machine over `SemanticCache`, proofs of both |
| `Compiler` | the mandatory passes, the policy pass, strategy expansion and lowering | operators |
| `ExecutionPlane`, `PlaneProofs` | `execution.rs`, the policy registry, the event bus, the listener and its projections | state machine over `Compiler`, proofs of both |
| `AgentState` | merge patch and schema check | operators |
| `AgentRunner`, `AgentRunnerProofs` | the runner's loop, the SQLite store, the retrying model adapter | state machine over `AgentState`, proofs |
| `RateLimiter`, proved in `AdmissionProofs` | `rate_limit.rs` | state machine, proofs |
| `ConfigReload`, `ConfigReloadProofs` | `manager.rs`, its five subscribers, the routing of a request | state machine, proofs |
| `Sessions`, `SessionsProofs` | both session stores, checkpoint and resume | state machine, proofs |
| `MCGuards` | `CircuitBreaker`, `QuotaLedger`, `RateLimiter` and `AgentRunner` in one run | for TLC |
| `MCGrants` | `Leases` and `MeteredStream` in one run | for TLC |
| the other `MC*` | instances: graphs, shapes, workflows, configurations, symmetry | for TLC |

`MCGuards` and `MCGrants` put components side by side that share no state. A behaviour
has one of them as its `focus`, chosen in the initial state, and the others rest in an
initial state, so each is explored by itself as it would be in a run of its own, and a
property of one says nothing new where another is the focus.

A specification is called `Spec`, or after its component (`LeaseSpec`, `LedgerSpec`,
`BreakerSpec`, `LimiterSpec`, `AgentSpec`) where one module covers several components.

Definitions introduced by the comment *Faulty variant* are mutated forms of the
definition that follows them. No specification uses them; substituting one for
its original must make a named property fail, which shows that the property
depends on that piece of code (`PROJECT.json`, "mutants").

### Scheduler and WorkQueue

`run_inner` is one task. Its loop head and its batch are the values of `pc`.
At the head it returns (`AbortCancelled`, `FinishRun`) or dispatches
(`DispatchBatch`, which includes `get_ready` with its truncation and
`mark_in_progress`). During the batch the nodes end in any order
(`NodeFinishes`), or by cancellation (`NodeCancelled`); when all have ended
(`join_all`) the results are applied in batch order, one action per kind of
result: `ApplyTask`, `ApplyLoopBack`, `ApplyConditional`, `ApplyLoopContinue`,
`ApplyLoopExit`, `ApplyLoopIterationLimit`, `ApplyFailure` (with the whole
cascade) and `ApplyBreach`. Every Apply action contains the accounting that
precedes it in the code. Cost and tokens are one number here (both dimensions
are in `BudgetEnvelope`); outputs are what the scheduler looks at: a branch
label, a loop decision, or nothing. The poll of 2 ms (`lib.rs:211`) is
`FinishRun`'s guard `Stalled`, and `NothingLeftInFlight` shows that it is never
entered. The error NODE_NOT_FOUND of the re-arming cannot occur, since queue and
graph have the same nodes, and is left out. `MaxUsage` bounds what one execution
may use, which `OverspendBounded` speaks about.

### Leases and LeaseService

A grant reads the clock before it takes the write lock, so it is two actions
(`GrantBegin`, then `GrantLease` or `GrantReject`) with a clock reading that may
be stale; a renewal is a read of the owner (`RenewBegin`) and a renewal under
the write lock (`RenewLease` or `RenewReject`). Pruning and the removal of
epochs are part of the grant. `Tick` is the wall clock. Keys are (execution,
node) pairs, abstracted to tasks. `LeaseService` has a holder per task and
forgets how leases are stored. The refinement mapping is `ActiveHolders`: the
workers that may act on a task are those with an unexpired lease of it, so expiry
maps to the loss of a holder.

### CircuitBreaker

One action per access to a shared field. The read guard of `last_failure_time`
is held from the cooldown check to the end of `can_execute`, which
`FailureStamp` respects. Callers in `StreamCallers` use `chat_stream`: a
connected stream records a success and its first failing item a failure.
A caller's future may be dropped while the provider is awaited, as the
scheduler's `select!` on cancellation does. Two histories count failures in a row:
`bad` those with no recorded success in between, which is what the breaker counts, and
`failing` the requests that ended in failure, streams that broke off included, which is
what the comment at `registry.rs:264` speaks of.

### QuotaLedger

Requests are admitted atomically (`TryReserve`), run, and end by success,
failure or as a stream. Dropping the guard and the stream's finish hook spawn
tasks; `ReleaseTask` and `RecordTask` run in any order. Subtraction saturates as
in the code. A sum over requests is the number of units they stand for
(`Total`), so that the balance can be proved by counting. The advisory `can_afford` and the guard's synchronous fallback
without a runtime are left out.

### BudgetEnvelope and MeteredStream

An envelope is a record of two saturating counters; the ceiling check follows
the commit, as in `record_and_check`. `MeteredStream` has one action for each
way a poll ends (`PollChunk`, `PollBreach`, `PollError`, `PollEnd`,
`PollCancelled`) and for `Drop`; each contains the meter, the charge or refund,
the release and the finish hook in the code's order. Content chunks carry
estimated tokens, usage chunks the provider's figures. A cost is the sum of two
parts that each saturate and whose addition wraps (`stream_meter.rs:100`), with
`CounterMax` in place of `u64::MAX`. The path of the poisoned
meter lock is left out.

### NodeRuntime and SemanticCache

A *shape* is what is handed to the runtime: the kinds of the nodes, the subgraph's
edges, allowlists, whether there is a fallback and a cache. Each node has its own
`pc`: `AttemptBegins` is the head of the retry loop, then `CheckQuota` (advisory),
the cache (`BeginLookup` ... `CacheMisses` or `CacheHits`), the provider
(`ProviderAnswers` or `ProviderFails`), `BeginPut` ... `EndPut`, the recording of
the usage and the round of tools. `Drop` is the scheduler's cancellation of a
node. `SemanticCache` takes its index lock and its entry lock one after the
other, so each stretch under one lock, or up to an await, is an action, and the nodes interleave
inside `lookup` and `put_with_usage`. Similarity is abstracted to equality of
prompts: an embedding is a model of external behaviour, and what the cache does
after the search does not depend on the distance. Every call of the index may fail; a
failed removal is only logged, so the entry goes and its label stays (`RemoveFromIndex`,
`unremoved`). The four kinds of node that call a model are one (`llm`), since they
share the path through the runtime. Several nodes may be subgraphs,
each with inner nodes and edges of its own; a subgraph inside a subgraph, which the
code would run recursively, is left out. The usage of an answer is one number: the code
adds a subgraph's up as prompt plus completion tokens (`lib.rs:439`, `:466`) and takes
the provider's `total_tokens` elsewhere (`:556`), which may differ if a provider
reports inconsistent figures. Sums of usage are numbers of units, as in
`QuotaLedger`.

### Compiler and ExecutionPlane

`Compiler` translates the passes that decide which workflow runs and as what:
limits, control-flow validation, cycle detection, policy, dead-node elimination,
strategy expansion, lowering. A property may be unset, a number or not a number,
since the conversions treat the three differently. A filter over nodes or edges keeps
the elements at certain positions in their order (`Kept`, `InOrder`); the gates that
the policy pass inserts come after all nodes, under identifiers that no submitted
node uses (`GateOf`). The search for cycles has one state (`Search`: colours, stack,
verdict) and one iteration for both of its loops (`Advance`: walk the next edge of the
top node, blacken it, or start at a white root); `three_color_cycle_detect` makes
`Iterations` of them, which the proof shows to be enough. `topological_order` pops one
ready node per iteration: the decrements of its successors are one subtraction, and a
successor is pushed at the last edge that frees it (`Freed`), as in the code. An id
stands for the last node that has it (`IndexOf`), since ids may repeat. `ExecutionPlane` is one
request per member of `Execs`; `Submit` emits WorkflowStarted, `ReadPolicy` takes
the registry as it is then, `Compile` applies the passes, `Run` is the scheduler
(at the level its own module justifies: a state per node), and the `Report*`
and `Replay` actions emit the events. The plane gives the scheduler no envelope and a
token nobody cancels, so `Outcomes` has any number of nodes that failed by themselves,
their dependents failed with "dependency failed", and nodes left pending behind an edge
that is never activated. A node's subgraph carries the model of each of its nodes:
that of the node it was made from or, for a consensus, those the client lists as
`members`. A declared policy replaces the one with its id. The bus is a ring of
`CAPACITY` events; `Lagged` is the receiver's error that counts what was overwritten;
`Dispatch` hands one event to the projections, whose writes may fail. The event store
drops its `tokio::fs::File` without a flush (`storage.rs:71`), so a write is handed to a
blocking thread (`writing`) and lands later, in any order with others (`WriteLands`), or
fails unseen (`WriteIsLost`); `MaxWrites` bounds those under way at a time.

### AgentState and AgentRunner

Values are absent, a scalar of a type, or an object of leaf fields, which is what
the merge and the schema check tell apart. The runner's loop has one action per
await; `Crash` loses the process, its event log and its token count and keeps the
SQLite row, `Open` reopens under any schema version of the skill.

### RateLimiter

The check holds the gate over its two map accesses (`CheckStarts`,
`CheckDecides`); the cleanup does not take the gate; a reload swaps the limits at
any point. Time and refill are whole units; `MaxRate` and `MaxBurst` are the
largest settings a configuration may hold.

### ConfigReload

`Edit` changes the file, `Sighup` starts a reload, `TornRead` is a read of a file
being written, with the one retry of the code, and `ReadFails` a read that ends in an I/O
error, which is not retried (`manager.rs:83`, `:92`). The task that waits for SIGHUP is
spawned before authentication and rate limits are registered (`main.rs:333`, `:510`), so
these two join by `Subscribe`, the limits only if limiting is on; a reload holds the list
from its first `prepare` to its last commit. `Prepare` stages one subscriber
after another; after a refusal what the earlier ones have staged stays, until the
next reload replaces it. The commit is one action per
store that the code changes separately, since requests read between them.

### Sessions

`backend` is fixed by `Init` to memory or SQLite, and each operation has the
steps of its store: the in-memory store checks under a read lock and writes under
another, the SQLite store runs statements under one mutex but deletes in two
statements. `Crash` keeps the rows of the SQLite store. The clock is the wall clock
(`checkpoint.rs:12`): `Tick` moves it ahead or sets it back. `rows` holds the snapshots of
each session in the order they were stored; a row carries its stamp and which calls had
begun when it was stored, so that what a resume returns is compared with the others by
the order of events and not by their stamps.

## 3. Runs

A checked property is often a conjunction of named parts; the parts are
definitions of their own, each with its comment, and are listed in brackets.

| Run | Properties | Bounds | States |
|---|---|---|---|
| `scheduler` | `SchedInv` (types, `NothingLeftInFlight`), `DependenciesMet`, `NodesSettled` (`FailureContained`, `NoNodeForgotten`, `NoPhantomRunning`), `SpendAccounted` (`AccountingExact`, `OverspendBounded`), `SuccessIsEarned`, `RearmsOnlyLoops`, `RunReturns` | all acyclic graphs on 4 nodes, with a Conditional, or with parallel edges; 5 loop graphs; batches of 3; usage 0 or 2, ceiling 2, 2 envelope iterations | 187,304 |
| `guards` | breaker: `BreakerInv` (types, `ProbeHasOwner`, `StampPending`), `RepeatedFailuresOpen`, `AdmitsAgain` (`KeepsAdmitting`) | a completion and a stream at once, thresholds 2, futures dropped | 358,854 in all |
| | quota: `LedgerInv` (types, `ReleasedOnce`, `LedgerBalances`, `ReservedWithinQuota`), `ReservationReturned` | 3 requests, quota smaller than the sum of the estimates | |
| | agent: `AgentInv` (types, `StoreConforms`, `OverrunByOneAnswer`), `CommitsAccounted` (`EffectsFollowCommits`, `LogInStep`), `AgentReturns` | 2 steps, 1 retry, 3 commits over all runs, two schema versions | |
| | rates: `LimiterInv` (types, `BucketsCapped`), `AdmissionBounded` | 2 clients on a map for 1, three limits, clock to 4 | |
| `grants` | leases: `LeaseInv` (types, one record per task, agreeing epochs, `Bounded`), `SingleWorker`, `EpochHeldWhileActive`, `ImplementsService` (refinement of `LeaseService`) | one task, two workers, two callers that grant, renew and revoke at once; clock and epochs up to 5, TTL clamp 2, lifetime 2 | 463,780 in all |
| | stream: `ReportedOnce` (types, `FinishedOnce`, `ReportComplete`), `DeliveredWithinBudget`, `NeverUndercharged` | up to 4 chunks, four pricings, counters with a small maximum so that saturation and a wrapped cost happen | |
| `reload` | `ServesLastSignal` (types, `SettledAgreement`, `LastSignalWins`), `NoRoutingGap`, `ReloadReturns` | 2 concurrent reloads, 2 edits among 7 configurations, 1 unreadable file (`MaxErrors`), registration at any point | 383,016 |
| `runtime` | `UsageAccounted` (`ChargedExactly`, `ReportedWithinCharged`, `CallsBounded`, `OvercommitBounded`), `OnlyPermittedRuns` (`SubgraphInOrder`, `ToolsPermitted`), `CacheInv` (types, `CacheBounded`, `IndexAgrees`), `ExecutionEnds` | 11 shapes of up to 3 nodes, 1 tool round, cache for 1 entry, index calls that fail | 194,056 |
| `plane` | `EventsFaithful` (`OutcomeTold`, `NodesTold`, `FinishedAfterInputs`, `ReplaysNodes`), `ProjectionsFaithful` (types, `StoredOnce`, `LossAccounted`, `CheckpointsExplained`), `PolicyEnforced`, `CompilerSound` (`CyclesRejectedExactly`, `CompiledWellFormed`, `SubgraphsRun`), `ListenerCatchesUp` | all graphs of 3 nodes with up to 3 edges, every control kind and strategy, 2 concurrent requests, ring of 2, 2 writes under way (`MaxWrites`), one fault | 704,601 |
| `sessions` | `StoreInv` (types, `CheckpointsKept`, `NoDanglingRows`), `ResumesRight` (`OwnersSeeTheirOwn`, `ResumeNotStale`), `DeletedStaysDeleted` | 2 callers, 2 principals, 1 session, 3 calls, 1 crash, a clock of 2 values set ahead and back, both stores | 1,612,440 |
| `session_stores` | **violated**: `StoresBehaveIdentically` | as `sessions` | stops at the violation |
| `breaker_streams` | **violated**: `StreamFailuresOpen` | the breaker of `guards` | stops at the violation |
| `subgraph_tools` | **violated**: `ToolsPermittedEverywhere` | as `runtime` | stops at the violation |
| `member_models` | **violated**: `EveryNodePermitted` | as `plane` | stops at the violation |
| `checkpoint_numbers` | **violated**: `RepeatsSkippedOnly` | as `plane` | stops at the violation |

Four nodes are enough for a chain behind a join, a diamond, and two independent
branches; a batch of 3 makes truncation and mid-batch exits happen. Two workers,
two callers and one task suffice for exclusivity, since the code looks at one
task's records at a time; the theorems cover any number of tasks. The clock
reaches past two full lifetimes, so that expiry, pruning and failover all happen.
Counters have a small maximum in place of `u64::MAX`. A ring of 2 events and a
cache of one entry are the smallest that overflow while two actors work on
them. Three nodes make every cycle shape of the compiler's checks (self loop, two
and three nodes, a cycle beside a chain).

Deadlock is checked except where the modelled program ends: the cfg then says so.

### Fairness

- Scheduler: the task makes progress and every provider call ends (the HTTP
  client always has a timeout, `transport/http.rs:17`); cancellation is never
  assumed.
- Circuit breaker: requests keep coming, each caller that can take a step takes
  one, and time passes. No fairness on a particular result of a call.
- Quota ledger: spawned tasks run and executions end, which tokio and the
  request timeouts give.
- Node runtime: each node's task is polled; the provider's answer or failure is a
  step of it, by the same timeout. The drop of an execution is not assumed.
- Agent: the runner's task is polled; crashes and cancellation are not assumed.
- Reload: a reload that was begun is polled (weak fairness). The reload lock it awaits is
  released because the holder is polled too, and since the signals of the model are
  bounded by the edits and errors, the lock is not taken over and over by others.
- Plane: the listener task and the blocking threads that write event files. Requests may
  stop at any step, as a dropped client makes them.
- Leases, rate limiter, metered stream and sessions: only safety is checked. The session
  stores use `std::sync::Mutex` and parking_lot locks, which promise no fair turn.

### What the violated runs show

Each states what a line of the repository says of the program; the findings in
`PROJECT.json` quote it. The passing runs state beside it what does hold.

- `session_stores`: `session/store/sqlite.rs:266` builds a snapshot with session and
  snapshot id exchanged, so what a listing hands out cannot be found under the id it
  carries, and differs from what the in-memory store answers.
- `breaker_streams`: a stream that connects records a success, which resets the failure
  count (`registry.rs:280`), so streams that connect and then break off never open the
  breaker, against the comment at `registry.rs:264`. `RepeatedFailuresOpen` is about
  failures without a recorded success in between.
- `subgraph_tools`: the operator's tool list narrows the node handed over
  (`node_exec.rs:80`) and not the nodes of its subgraph, against "every execution path" in
  the comment above it. `ToolsPermitted` is about the nodes handed over.
- `member_models`: a consensus takes the models its members list
  (`strategy_expansion.rs:132`) after the policy pass has looked at the node's own model
  only, so a denied model can be in a compiled graph, against Law 2 of
  `docs/implementation/security-hardening-v0.13.1.md`. `PolicyEnforced` says which models
  the nodes of a subgraph may have.
- `checkpoint_numbers`: the checkpoint projection tells duplicates by sequence number alone
  (`checkpoint.rs:42`), and each execution counts from one, so a completion is skipped
  that is no duplicate. `CheckpointsExplained` says that the number of a skipped
  completion is that of another execution's checkpoint.

### Further deviations

Met while modelling; the models exhibit them, and the properties are stated so
that they say what does hold.

Scheduler and leases
- The exit at a loop's iteration limit does not repair the siblings left Running
  (`lib.rs:451`) as the exit at a breach does (comment at `:348`);
  `NoPhantomRunning` is about the other exits.
- Only the direct successors of a loop head are re-armed (`work_queue.rs:254`): a
  loop whose body has two nodes in a row is repeated at most once, whatever its
  `max_iterations`.
- Results that arrived in the same batch as a breach or an iteration limit are
  dropped with their usage (`AccountingExact` is therefore stated at the loop
  head, and `OverspendBounded` over what was really used).
- The cascade of a failed loop body stops at the loop head that has succeeded
  before, so its exit target may stay undecided (`FailureContained` is stated
  for graphs without loops); with two back edges a body node can re-arm the head
  after the head has stopped and its exit target has started (`lib.rs:484`).
  `RearmsOnlyLoops` says which nodes are re-armed and does not exclude this.
- Lease epochs restart after pruning (`leases.rs:91`, against `:63`):
  `EpochHeldWhileActive` is what holds, and it is weaker than `:63` on purpose.

Providers, quota, streams
- A probe whose future is dropped is never given back (`circuit_breaker.rs:58`):
  the provider stays locked out. `ProbeHasOwner` and `KeepsAdmitting` are stated
  for histories without such a drop, so no property covers that hazard.
- A request that fails is refunded and what it consumed is not recorded
  (`chat.rs:423`); the release is spawned, so usage can be recorded before the
  estimate is given back (`guard.rs:55`), against the order `chat.rs:537` announces.
- The HTTP transport maps every error of a request, timeouts included, to
  `Network` (`transport/http.rs:78`), which its `send` retries; the comments at
  `:293` and `:318` say that timeouts are never retried, and only the stdio
  transport ever reports `Timeout`. A call that times out can thus be billed once
  per attempt, which the models of the callers see as one failed call.
- A breaching chunk is charged by the poll and again by the finish hook
  (`cancelling_stream.rs:109`, `:198`); a usage report that raises tokens and
  lowers cost is charged and not refunded (`:100`); chunks after an upstream
  error reach the client unmetered (`:157`).
- The two parts of a stream's cost saturate, their sum does not
  (`stream_meter.rs:100`): at the end of the range it wraps in a release build, and
  the envelope is then charged the small value. `DeliveredWithinBudget` is about
  the cost the meter computes.

Runtime and cache
- A node reports only its last answer's usage; the quota is charged for each.
  `ReportedWithinCharged` relates the two.
- A retry after a round of tools runs the tools again.
- The host attaches no resource manager to its `ProviderExecutor`.
- Overlapping puts choose the same victim, so the cache outgrows its capacity and
  does not shrink back (`semantic_cache.rs:257`): `CacheBounded` counts the
  overlaps. A put that is dropped half-way, and a removal from the index that fails
  (`:201`, `:275`), leave a label in the index without an entry, which shadows entries near
  it: `IndexAgrees` excepts the first and names the second.
- A cache hit is charged like a provider's answer. An answer with content and tool
  calls is cached as content only, and the key ignores the tools
  (`fusion_bridge.rs:163`), so a later hit is a final answer. `main.rs` does not
  call `with_cache`.

Plane, compiler, events
- Policy, compilation and scheduling errors, and dropped clients, leave
  WorkflowStarted without a terminal event.
- The nodes of a strategy's subgraph are made after the policy pass and are under no rule
  of their own.
- In a graph with back edges the failure event may name a node that only failed with
  another (`execution.rs:315`): `NodesTold` is about the others there.
- An event file need not be in the order of emission, and a lost write is not told to
  anyone; `load_events` sorts by number, and `StoredOnce` is what it relies on.
- The checkpoint projection marks an event before it is written. The checkpoint and event
  store projections are registered by `tests/runtime_events_tests.rs` only; the server
  wires in the logging projection, and `src/bin/fusion.rs` reads the store.
  The handler's cancellation token is never cancelled.
- Dead-node elimination counts a loop's back edge as incoming; a graph with a loop
  has no topological order, and the replay of events falls back to index order.
- Chain `steps` above the maximum are clamped while `stages` are rejected
  (`strategy_compiler.rs:200`); the model clamps both, and a consensus has one size for
  its count and its members. Duplicate node ids are not rejected.

Configuration, rates, agent, sessions
- Connectors configured at startup are registered at the first reload only;
  feature flags removed from the file keep their overridden state.
- A reload that comes before authentication or limits are registered publishes a
  configuration they do not serve until the next one: `SettledAgreement` excepts it.
- During a commit an unprefixed model may be routed to the old default while the
  prefixes are new; connectors are cleared and then registered one by one.
- The refusal at the bucket cap returns the status 429 where the caller expects
  seconds to wait. The cleanup forgets a throttled client when two intervals
  refill less than a burst, and reads its interval once.
- A commit of agent state has no log entry when the tool is then refused or fails,
  or when the budget is exceeded at the end of the step (comment at
  `runner.rs:156`): `LogInStep` excepts these exits. A null nested under a new key is stored.
- In the memory store a save that races a delete leaves a snapshot of an absent
  session, and an unowned save for an absent session is accepted where SQLite's
  foreign key refuses it; the stores order listings by insertion and by time
  stamp; the SQLite delete is two statements without a transaction; `load_session`
  answers None on a database error. Production uses the in-memory store.
- The SQLite store orders by a wall-clock stamp in milliseconds (`sqlite.rs:232`), so a
  resume may pass over a later checkpoint of the same millisecond, or after the clock was
  set back; `ResumeNotStale` names these two cases and shows that there is no other, and
  none in the in-memory store.

## 4. Proofs

All for every value of the constants allowed by the modules' assumptions: any
number of nodes, tasks, requests, callers or clients, any graph, chunk, price,
schema, patch or configuration. The bounds of the runs (`MaxItems`, `MaxClock`,
`MaxCommits`, ...) are constants too, so a theorem holds for each of them. A fact
is first checked by TLC, with the inductive invariant as the invariant of the run,
and then proved.

| Proved | Theorem | By the inductive invariant |
|---|---|---|
| `LeaseInv`, `SingleWorker`, `EpochHeldWhileActive` | `LeaseInvariance`, `Exclusivity`, `EpochHeld` | `LeaseInv` |
| `ImplementsService` | `Refinement` | `LeaseInv` |
| `BreakerInv`, `RepeatedFailuresOpen` | `BreakerInvariance`, `FailuresOpen` | `BreakerInv`, `CountInv` |
| `SchedInv`, `SuccessIsEarned` | `SchedulerInvariance`, `SuccessEarned` | `SchedInv`, with outputs and ceiling |
| `RearmsOnlyLoops` | `OnlyLoopsRearm` | `BatchRuns` |
| `SpendAccounted` | `SpendIsAccounted` | `SpendInv` |
| `DependenciesMet` | `RunsAfterDependencies` | `RunInv`, `DepInv` |
| `NodesSettled` | `NodesAreSettled` | `FailureSpreads`, `AgreeInv` |
| `LedgerInv` | `LedgerBooked` | `BookInv` |
| `ReportedOnce`, `DeliveredWithinBudget`, `NeverUndercharged` | `FinishReportsOnce`, `ClientWithinBudget`, `EnvelopeCovers` | `StreamInv` |
| `LimiterInv`, `AdmissionBounded` | `BucketsWithinCap`, `AdmissionsBounded` | `CapInv`, `RateInv` |
| `AgentInv`, `CommitsAccounted` | `StateConforms`, `CommitsAreAccounted` | `RunnerInv` |
| `ServesLastSignal`, `NoRoutingGap` | `LastSignalIsServed`, `RoutesStay` | `ReloadInv` |
| `StoreInv`, `ResumesRight`, `DeletedStaysDeleted` | `StoreConsistent`, `ResumeIsRight`, `DeletesAreFinal` | `SessionsInv` |
| `UsageAccounted`, `OnlyPermittedRuns` | `UsageIsAccounted`, `PermittedRuns` | `NodesInv`, with `MoneyInv` or `OrderInv` |
| `CacheInv` | `CacheIsConsistent` | `CachesInv` |
| `ProjectionsFaithful` | `ProjectionsAreFaithful` | `ProjectionInv` |
| `PolicyEnforced` | `PolicyIsEnforced` | `PolicyInv` |
| `CompilerSound` | `CompilerIsSound`; without its proviso on loops, `CompiledEdgesKnown`, `SubgraphsRunToExit` | `SoundInv`, `PolicyInv` |
| `EventsFaithful` | `EventsAreFaithful`; `OutcomeIsTold` | `ReplayInv`, `SoundInv`, `OutcomeInv` |

**Leases** (`SchedulerProofs`). `LeaseInv` is inductive as it stands: types, one
record per task, agreement of epochs, and `Bounded` (no pending grant holds a clock
reading from the future, and a record was last granted within its lifetime, for a
clamped TTL). `OneRecord`, `EpochAgreement`, `Mortality` and the action property
`EpochHeld` follow. Exclusivity alone is not inductive: a grant with a stale clock
prunes less than it could, so one needs that there is one record per task at all,
whatever its expiry, and the replacement of a record under its key keeps that only
if the conflict check has excluded the others. `Refinement` maps every action to a
step of `LeaseService` or a stutter: a grant hands over a task whose active lease
is the same worker's or nobody's, ticks and revocations release tasks, and a
renewal changes no holder.

**Circuit breaker** (`AdmissionProofs`). `BreakerInvariance` has three parts:
`TypeCorrect`; `ProbeOwned`, for histories in which no request was dropped while a
probe was out; `OpenStamped`, by the stronger `StampPending`: an open breaker
without a time stamp has a caller about to write it. `CountInv` says
that while calls fail one after the other with nobody beside them no success is
being recorded, that the counter holds all these failures but one still to be
counted, and that a breaker left closed at its threshold has a caller about to trip
or to clear it. Failures that follow a recorded success, as those of a stream that
connected, are outside it (run `breaker_streams`).

**Scheduler** (`SchedulerProofs`). `SchedulerInvariance` and `NothingLost` hold for
every graph, cyclic ones and loops included; so do `SuccessEarned`,
`OnlyLoopsRearm` and `SpendIsAccounted`. Spending counts the units of usage of the
results not yet applied (`UsageUnits`): what was used is the totals plus these, and
a rank of the batch maps its nodes injectively into `1..MaxConcurrent`, which bounds
the overspend by a batch. `RunsAfterDependencies` needs no order on the graph: a
node becomes ready when as many edges were activated as it has incoming ones, the
edges activated are from distinct sources that delivered (`ActivatedDelivered`,
`SatisfiedCounts`), and a set of sources as large as the set of incoming edges
leaves none out. `NodesAreSettled` rests on two facts: direct successors of a lost
node are lost (`FailureSpreads`; the cascade returns a set closed under
successors), and what a walk reaches from a failed node lies in every such closed
set, so no induction over paths is needed; and a node that was not started although its
inputs delivered would be ready (`AgreeInv`), so a run cannot end by itself.

**Quota ledger** (`AdmissionProofs`). `BookInv` adds to the balance which spawned
tasks are still to run: a reservation is outstanding until its one release, so the
subtraction never saturates and each step moves the two sums by one request's
amount.

**Metered stream** (`MeteredStreamProofs`). `StreamInv`: the meter stands for the
chunks received (the first usage report, or the estimates, counted by cardinality),
the envelope for the meter as of the last charge, and the hook is armed exactly while
nothing was reported. What is delivered is within the ceilings because as long as
the hook is armed the envelope is, and it covers the meter.

**Rate limiter** (`AdmissionProofs`). `CapInv`: one check holds the gate, and has
a bucket or room for one, which a cleanup can only add to. `RateInv` is an
accounting argument: admissions since any moment plus the tokens held are at most a
burst plus the refill since; a forgotten bucket was full again, by the proviso that
two intervals refill it.

**Agent** (`AgentRunnerProofs`). `RunnerInv` says what a step in progress has
checked (turns, room in the log, budget before the tool) and that between a commit
and its entry the log ends where the committed transition starts. `MergeType` shows
that a merge yields a state, with no null at the top level.

**Reload** (`ConfigReloadProofs`). `ReloadInv` follows the position of a commit
through its nine stores: those before it serve the new configuration, the slots
after it still hold what this reload staged, and the routes are entirely the old or
entirely the new. A subscriber that is not registered has nothing staged, and keeps the
startup's values until a configuration was published that went to it (`applied`). What a refused reload left staged is harmless because the next
one overwrites every slot before it commits. A signal is not lost because it is
pending, about to be read, carried, served with nothing older still carried, or the file could
not be read since (`unread`).

**Sessions** (`SessionsProofs`). The properties speak about answers, so `SessionsInv`
has to follow a call through its steps on either store: what it has checked and still
relies on (`InFlight`), what is known of an answer when it is given (`Answered`), and
how stored snapshots relate to the calls begun before them (`RowsInv`), and their
stamps to the setbacks of the clock (`StampsInv`). In the in-memory
store the last row is the latest stored, whatever the order in which the saves began and
whatever the clock shows; in SQLite a row begun later with a smaller stamp proves that the
clock was set back between the two beginnings, since stamps only fall there; a delete is final because a session's identifier is never used
again and nothing brings its rows back except an unowned save that the code lets
through, which the property excepts.

**Node runtime and cache** (`NodeRuntimeProofs`). `NodeOK` is what is true of one node
whatever the others do: the calls made and those its attempts and rounds still allow
stay within the limit. `OrderInv` says that the batch of a subgraph holds nodes whose
inputs have succeeded, and that a node that was started came through such a batch.
`MoneyInv` relates the sums: what was answered is what was charged plus what is not
yet recorded (`Unrecorded`); what the nodes report is within what was charged; and
the overcommitment is bounded by the nodes that came through the advisory check
(`Through`), each for one answer, by an injection of units. The cache has an invariant
over its callers only: labels are fresh and apart (`LabelsInv`), every entry is in the
index unless its caller is between the two locks, and a label without an entry is about
to be removed or could not be (`AgreeInv`), and the size is within
the capacity plus the overlaps (`SizeInv`). The last is the delicate one: when a put
ends while others are under way it may be the one whose victim another has removed,
so `SizeInv` says that there is room for every put under way, or for every put but one.

**Plane and compiler** (`PlaneProofs`). Events are numbered along the ring, and again
from those dispatched to those retained; what was dispatched is in its file, being
written, or lost by a fault, and each event is in one place only, whatever the order the
blocking threads append in. For the policy: a rule held since the request came is in the registry,
hence in the snapshot that is taken, hence enforced by the graph that is compiled from
it (`Bound`). That the compiler enforces it is proved for every workflow: among the
rules that match a node there is a strictest one, since they are finitely many, and
neither dead-node elimination nor lowering loses the gate or the denial. The theorem binds
the nodes of the workflow; of the nodes of subgraphs it says which models they may call.
A pipeline's exit is reached because the largest index reached could otherwise be
extended by an edge. Where an induction over the size of a finite set was needed (the
order of the positions a filter keeps, maxima, iterations), it is done by a least
counterexample, since the library's induction theorems cannot be used. `OutcomeInv` follows the
terminal event of a run: at most one, that it is not emitted before the answer is
known, and that its kind is the answer's. The node a failed run names is the first
failed one of the replay order: in a graph without loops what feeds it comes before it,
so it cannot have failed with another.

**Cycle search** (`PlaneProofs`, `SearchIsExact`). `Searching` says: the nodes of the
stack are the grey ones and each was entered by a walked edge from the one below it
(`Stacked`); every other edge walked from a grey node leads to a black one (`Walked`);
and edges from black nodes lead to black nodes, among which there is no whole cycle
(`BlackDone`). A walk to a grey node therefore closes a cycle along the stack, and
black nodes all over leave none. `Left`, the white nodes, the nodes not black and the
edges not walked, falls with every iteration and starts within `Iterations`, so the
search has ended by then. The reference `Cyclic` is about sets that lead into
themselves; that a finite set fed from itself contains one that leads into itself too
is `FedMakesCycle`. `SoundInv` then takes the verdict through the passes: the live
nodes are closed under what they lead to, so elimination keeps the edges out of them
and, if the loops return to entered nodes, those into them; gates are entered by
nothing, so they are on no cycle.

**Order and replay** (`PlaneProofs`, `OrderFound`). `Lined` is the invariant of the
ready stack: a node's degree counts the edges from nodes not done, it is done or ready
exactly when there are none, never twice, and after all that feeds it. If the stack
runs dry early, every node left is fed by another, which is a cycle. The order is thus
a permutation of the nodes in any case, also by the fallback to index order, and
respects the edges when there is no cycle or loop. `ReplayInv` places the events: two
come before the replay and three per node, so the `b`-th node of the order is finished
by the event at `At(b)`, and no other event finishes one. Exactly-once is a bijection
between the positions, the order and the nodes with an id.

Assumptions on constants are those of the code: positive limits, finite sets of
nodes, edges and policy rules, natural numbers as priorities (`u32`), a token count of
a stream that fits the counter (a report holds two `u32`), configurations that start
valid. Those about the model's own encoding are that marks such as `Gone` and `Free`
are none of the owners or callers, and that submitted nodes have identifiers below
those of the gates.

Only model-checked:
- liveness (`RunReturns`, `AdmitsAgain`, `ReservationReturned`, `AgentReturns`,
  `ReloadReturns`, `ExecutionEnds`, `ListenerCatchesUp`): outside the
  prover, which does not handle fairness.

Every safety property of a passing run is stated by a theorem.

## 5. Not modelled

- The validator of the neutral IR, the capability resolver and `ProviderRouter`
  have no caller in the server; the optional optimisation passes only have their
  names logged.
- The planner, strategies and requirement analysis are pure text analysis and
  scoring: they choose a workflow and do not decide whether it is run correctly.
- Providers' HTTP adapters, transport, tools, connectors and WASM plugins are I/O
  and external libraries.
- Telemetry, release gates, developer tools, evaluation binaries and the user
  interface do not take part in serving requests. They are more than half of the
  repository's lines, which bounds how much of it these models can cover.
- The branch of the replay for a node that did not succeed in a successful run
  (`execution.rs:410`, WorkflowFailed without NodeFailed) is unreachable: the scheduler
  reports success only when every node has succeeded.

`PROJECT.json` lists every component with its reason.

## 6. What is left

1. An abstract session store that both back ends implement apart from the finding, and
   an abstract ledger of outstanding reservations that `QuotaLedger` implements.
