---------------------------- MODULE AgentRunner ----------------------------
(***************************************************************************)
(* The long-horizon agent loop (AgentRunner::run_until and step,           *)
(* crates/fusion-agent-state/src/runner.rs) over the SQLite store          *)
(* (persistence.rs), with the host's model and tool adapters (RouterLlm    *)
(* and RouterTools, src/agent/host.rs).                                    *)
(*                                                                         *)
(* The process may crash between any two steps; the row of the store       *)
(* survives, the event log and the token count do not.  After a restart    *)
(* the store may be opened with another schema.  The caller's token may be *)
(* cancelled by another thread at any time.                                *)
(***************************************************************************)
EXTENDS AgentState, Sequences

CONSTANTS Initial,        \* the state a fresh store is opened with
          SkillSchemas,   \* the schemas of the skill versions in use
          Patches,        \* the patches a model proposes
          max_steps, max_tokens, max_retries,
          InputTokens,    \* tokens of the bounded model input
          Outputs,        \* completion tokens a provider reports
          Predicted,      \* the runner's guess where usage is unknown (12)
          MaxCommits      \* bound: commits in a behaviour

ASSUME AgentAssumption ==
    /\ Initial \in ExecutionState
    /\ SkillSchemas \subseteq Schemas
    /\ Patches \subseteq StatePatch
    /\ max_steps \in Nat /\ max_tokens \in Nat /\ max_retries \in Nat
    /\ InputTokens \in Nat /\ Outputs \subseteq Nat /\ Predicted \in Nat
    /\ MaxCommits \in Nat

VARIABLES row,          \* the canonical state in the table; << >>: no row
          schema,       \* schema of the open store; << >>: the process is down
          place,        \* where the runner is
          iterations,   \* turns of run_until's loop
          attempt,      \* provider attempts of this step
          step,         \* the proposed transition, with the state before it
          log,          \* the event log
          total_tokens,
          cancelled,    \* the caller's token
          result,       \* what the last run_until returned
          failed,       \* history: a run of this process returned an error
          commits,      \* history: committed transitions
          effects       \* history: transitions whose tool was run

agent_vars == <<row, schema, place, iterations, attempt, step, log, total_tokens,
          cancelled, result, failed, commits, effects>>
runner == <<place, iterations, attempt, step, log, total_tokens, cancelled,
            result, failed>>
counted == <<commits, effects>>

IsOpen == schema # << >>
NoStep == << >>
Entry(s) == [prev |-> s.prev, next |-> s.next]

AgentInit ==
    /\ row = << >> /\ schema = << >>
    /\ place = "idle" /\ iterations = 0 /\ attempt = 0 /\ step = NoStep
    /\ log = << >> /\ total_tokens = 0 /\ cancelled = FALSE
    /\ result = "none" /\ failed = FALSE
    /\ commits = 0 /\ effects = 0

Return(r) ==
    /\ place' = "idle" /\ result' = r /\ step' = NoStep /\ attempt' = 0
    /\ failed' = (failed \/ r = "error")
    /\ UNCHANGED iterations

-----------------------------------------------------------------------------
(* The store. *)

\* Opening validates the initial state, and an existing row as well.
Open(s) ==
    /\ ~IsOpen
    /\ validate_against_schema(Initial, s)
    /\ row # << >> => validate_against_schema(row, s)
    /\ schema' = s
    /\ row' = IF row = << >> THEN Initial ELSE row
    /\ UNCHANGED <<runner, counted>>

Crash ==
    /\ IsOpen
    /\ schema' = << >>
    /\ place' = "idle" /\ iterations' = 0 /\ attempt' = 0 /\ step' = NoStep
    /\ log' = << >> /\ total_tokens' = 0 /\ cancelled' = FALSE /\ result' = "none"
    /\ failed' = FALSE
    /\ UNCHANGED <<row, counted>>

-----------------------------------------------------------------------------
(* The loop. *)

RunUntil ==
    /\ IsOpen /\ place = "idle"
    /\ place' = "head" /\ iterations' = 0 /\ cancelled' = FALSE /\ result' = "none"
    /\ UNCHANGED <<row, schema, attempt, step, log, total_tokens, failed, counted>>

Cancel ==
    /\ place # "idle" /\ ~cancelled
    /\ cancelled' = TRUE
    /\ UNCHANGED <<row, schema, place, iterations, attempt, step, log, total_tokens,
                   result, failed, counted>>

\* The loop returns: cancelled, done, or out of turns; or the step refuses to
\* start because the log is full.
LoopReturns ==
    /\ place = "head"
    /\ \/ iterations = max_steps /\ Return("exhausted")
       \/ iterations < max_steps /\ cancelled /\ Return("cancelled")
       \/ iterations < max_steps /\ ~cancelled /\ Return("done")
       \/ iterations < max_steps /\ ~cancelled /\ Len(log) + 1 > max_steps /\ Return("error")
    /\ UNCHANGED <<row, schema, log, total_tokens, cancelled, counted>>

StepStarts ==
    /\ place = "head" /\ iterations < max_steps /\ ~cancelled
    /\ Len(log) + 1 <= max_steps
    /\ commits < MaxCommits
    /\ place' = "asking" /\ attempt' = 0
    /\ UNCHANGED <<row, schema, iterations, step, log, total_tokens, cancelled,
                   result, failed, counted>>

\* Faulty variant: the attempts are not bounded.
ProviderFails_forever ==
    /\ place = "asking"
    /\ attempt' = (attempt + 1) % (max_retries + 1)
    /\ UNCHANGED <<row, schema, place, iterations, step, log, total_tokens, cancelled,
                   result, failed, counted>>

\* The provider fails; the adapter retries, then gives up.
ProviderFails ==
    /\ place = "asking"
    /\ IF attempt < max_retries
       THEN /\ attempt' = attempt + 1
            /\ UNCHANGED <<place, iterations, step, result, failed>>
       ELSE Return("error")
    /\ UNCHANGED <<row, schema, log, total_tokens, cancelled, counted>>

\* The answer does not parse.
Malformed ==
    /\ place = "asking"
    /\ Return("error")
    /\ UNCHANGED <<row, schema, log, total_tokens, cancelled, counted>>

Proposes(patch, output) ==
    /\ place = "asking"
    /\ step' = [patch |-> patch, output |-> output, prev |-> row, next |-> row]
    /\ place' = "proposed"
    /\ UNCHANGED <<row, schema, iterations, attempt, log, total_tokens, cancelled,
                   result, failed, counted>>

CommitFails == \/ MergeFails(row, step.patch)
               \/ ~validate_against_schema(merge_state(row, step.patch), schema)

\* Cancelled before the commit, or the patch is refused: nothing changes.
StepRefused ==
    /\ place = "proposed"
    /\ cancelled \/ CommitFails
    /\ Return(IF cancelled THEN "cancelled" ELSE "error")
    /\ UNCHANGED <<row, schema, log, total_tokens, cancelled, counted>>

\* Faulty variant: the merged state is stored without another check.
Commit_unchecked ==
    /\ place = "proposed" /\ ~cancelled /\ ~MergeFails(row, step.patch)
    /\ row' = merge_state(row, step.patch)
    /\ step' = [step EXCEPT !.prev = row, !.next = row']
    /\ commits' = commits + 1
    /\ place' = "committed"
    /\ UNCHANGED <<schema, iterations, attempt, log, total_tokens, cancelled,
                   result, failed, effects>>

Commit ==
    /\ place = "proposed" /\ ~cancelled /\ ~CommitFails
    /\ row' = merge_state(row, step.patch)
    /\ step' = [step EXCEPT !.prev = row, !.next = row']
    /\ commits' = commits + 1
    /\ place' = "committed"
    /\ UNCHANGED <<schema, iterations, attempt, log, total_tokens, cancelled,
                   result, failed, effects>>

OverBudget == total_tokens + InputTokens + Predicted > max_tokens

\* Faulty variant: the cancelled transition is not logged.
CancelledBeforeTool_silent ==
    /\ place = "committed" /\ cancelled
    /\ Return("cancelled")
    /\ UNCHANGED <<row, schema, log, total_tokens, cancelled, counted>>

\* Cancelled after the commit: the transition is logged, its tool is not run.
CancelledBeforeTool ==
    /\ place = "committed" /\ cancelled
    /\ log' = Append(log, Entry(step))
    /\ Return("cancelled")
    /\ UNCHANGED <<row, schema, total_tokens, cancelled, counted>>

BudgetRefusesTool ==
    /\ place = "committed" /\ ~cancelled /\ OverBudget
    /\ Return("error")
    /\ UNCHANGED <<row, schema, log, total_tokens, cancelled, counted>>

ToolCalled ==
    /\ place = "committed" /\ ~cancelled /\ ~OverBudget
    /\ place' = "tool"
    /\ UNCHANGED <<row, schema, iterations, attempt, step, log, total_tokens,
                   cancelled, result, failed, counted>>

-----------------------------------------------------------------------------
(* The tool adapter and the end of the step. *)

\* Usage is counted after the tool; over the ceiling the step fails, without
\* an entry in the log.
EndStep ==
    LET spent == total_tokens + InputTokens + step.output
    IN  /\ total_tokens' = spent
        /\ IF spent > max_tokens
           THEN Return("error") /\ UNCHANGED log
           ELSE /\ log' = Append(log, Entry(step))
                /\ place' = "head" /\ iterations' = iterations + 1 /\ step' = NoStep
                /\ UNCHANGED <<attempt, result, failed>>

\* A gate (allowlist, approval, resources, registry) refuses: the model is
\* told so in the observation.
ToolDenied ==
    /\ place = "tool"
    /\ EndStep
    /\ UNCHANGED <<row, schema, cancelled, counted>>

ToolRuns ==
    /\ place = "tool"
    /\ effects' = effects + 1
    /\ EndStep
    /\ UNCHANGED <<row, schema, cancelled, commits>>

\* The tool fails, after part of its work; the step fails with it.
ToolFails ==
    /\ place = "tool"
    /\ effects' = effects + 1
    /\ Return("error")
    /\ UNCHANGED <<row, schema, log, total_tokens, cancelled, commits>>

RunnerStep ==
    \/ LoopReturns \/ StepStarts
    \/ ProviderFails \/ Malformed \/ \E p \in Patches, o \in Outputs : Proposes(p, o)
    \/ StepRefused \/ Commit
    \/ CancelledBeforeTool \/ BudgetRefusesTool \/ ToolCalled
    \/ ToolDenied \/ ToolRuns \/ ToolFails

AgentNext == \/ \E s \in SkillSchemas : Open(s)
        \/ Crash \/ RunUntil \/ Cancel \/ RunnerStep

\* Awaited provider and tool calls end; nothing else is assumed.
AgentSpec == AgentInit /\ [][AgentNext]_agent_vars /\ WF_agent_vars(RunnerStep)

-----------------------------------------------------------------------------
AgentTypeOK ==
    /\ row \in ExecutionState \union {<< >>}
    /\ schema \in SkillSchemas \union {<< >>}
    /\ place \in {"idle", "head", "asking", "proposed", "committed", "tool"}
    /\ iterations \in 0..max_steps
    /\ attempt \in 0..max_retries
    /\ Len(log) <= max_steps
    /\ total_tokens \in Nat
    /\ cancelled \in BOOLEAN
    /\ result \in {"none", "done", "cancelled", "exhausted", "error"}
    /\ failed \in BOOLEAN
    /\ commits \in 0..MaxCommits

\* The canonical state conforms to the schema of the store that is open,
\* through merges, refused patches, crashes and changes of the schema
\* (persistence.rs:33, 89; "fail closed on drift").
StoreConforms == IsOpen => validate_against_schema(row, schema)

\* A tool runs only for a committed transition, and at most once for each
\* ("action_executes_only_after_state_commit", lib.rs:549).
EffectsFollowCommits ==
    /\ effects <= commits
    /\ place \in {"committed", "tool"} => effects < commits

\* As long as no run has failed, the log is in step with the store: each entry
\* starts where the one before it ended, and the last leads to the stored
\* state; a cancelled transition is logged for that (runner.rs:156).
LogInStep ==
    IsOpen /\ ~failed /\ place \in {"idle", "head", "asking", "proposed"} /\ log # << >> =>
        /\ \A i \in 1..Len(log) - 1 : log[i].next = log[i + 1].prev
        /\ log[Len(log)].next = row

\* The ceiling on tokens is passed by one answer at most, since the check
\* before each tool call assumes Predicted tokens for it.
OverrunByOneAnswer ==
    \A o \in Outputs : (\A p \in Outputs : p <= o) => total_tokens <= max_tokens + o

\* What is stored conforms and what is spent stays near the ceiling, across crashes
\* and reopening (persistence.rs:45, runner.rs:184).
AgentInv == AgentTypeOK /\ StoreConforms /\ OverrunByOneAnswer

\* Commits, effects and log entries stay in step through cancellation and crashes
\* between them (runner.rs:149).
CommitsAccounted == EffectsFollowCommits /\ LogInStep

\* A run returns, whatever the provider and the tools answer.
AgentReturns == place # "idle" ~> place = "idle"
=============================================================================
