------------------------- MODULE AgentRunnerProofs -------------------------
(***************************************************************************)
(* Proofs about module AgentRunner, for any keys, fields, schemas, patches *)
(* and limits.                                                             *)
(*                                                                         *)
(* The properties of the runs say what is true between two steps of the    *)
(* loop; the invariant below also says what a step in progress has checked *)
(* (there is room in the log, the budget admits the tool) and where its    *)
(* transition starts and ends.                                             *)
(***************************************************************************)
EXTENDS AgentRunner, SequenceTheorems, TLAPS

Entries == [prev : ExecutionState, next : ExecutionState]
Steps == [patch : Patches, output : Outputs, prev : ExecutionState, next : ExecutionState]

InStep == place \in {"asking", "proposed", "committed", "tool"}
Proposed == place \in {"proposed", "committed", "tool"}
Unlogged == place \in {"committed", "tool"}

\* The types AgentTypeOK leaves open: the log is a sequence of transitions, a step that
\* was proposed is one, and an open store has a row.
ShapeOK ==
    /\ log \in Seq(Entries)
    /\ effects \in Nat
    /\ Proposed => step \in Steps
    /\ IsOpen => row \in ExecutionState

\* A store that is down has no runner and no log.
DownIsIdle == ~IsOpen => place = "idle" /\ log = << >>

\* A step has checked the turns, the room in the log and, before its commit, the bound
\* on commits (runner.rs:129, 218).
StepHasRoom ==
    /\ InStep => iterations < max_steps /\ Len(log) + 1 <= max_steps
    /\ place \in {"asking", "proposed"} => commits < MaxCommits

\* A tool is called within the budget (runner.rs:170).
ToolWithinBudget == place = "tool" => ~OverBudget

\* Each entry of the log starts where the one before it ended.
Chained == \A i \in 1..Len(log) - 1 : log[i].next = log[i + 1].prev
EndsIn(s) == log # << >> => log[Len(log)].next = s

\* The log leads to the row or, between a commit and its entry, to the state the
\* committed transition starts from.
LogLeads ==
    ~failed =>
        /\ Chained
        /\ IsOpen /\ ~Unlogged => EndsIn(row)
        /\ Unlogged => EndsIn(step.prev) /\ step.next = row

RunnerInv ==
    /\ AgentTypeOK /\ ShapeOK
    /\ DownIsIdle /\ StepHasRoom /\ ToolWithinBudget /\ LogLeads
    /\ StoreConforms /\ OverrunByOneAnswer /\ EffectsFollowCommits

-----------------------------------------------------------------------------
(* The merge. *)

LEMMA MergeFieldsType ==
    ASSUME NEW b \in [Fields -> Leaves], NEW p \in [Fields -> Leaves]
    PROVE  MergeFields(b, p) \in [Fields -> Leaves]
<1>1. \A f \in Fields : b[f] \in Leaves /\ p[f] \in Leaves /\ "absent" \in Leaves
  BY DEF Leaves
<1>2. \A f \in Fields : (CASE p[f] = "absent" -> b[f]
                           [] p[f] = "null"   -> "absent"
                           [] OTHER           -> p[f]) \in Leaves
  BY <1>1
<1> QED BY <1>2 DEF MergeFields

\* A merged value is a value of a state: null never stays at the top level.
LEMMA MergeValueType ==
    ASSUME NEW b \in StateValues, NEW p \in PatchValues
    PROVE  MergeValue(b, p) \in StateValues
<1>1. CASE p.type = "absent"
  BY <1>1 DEF MergeValue
<1>2. CASE p.type = "null"
  <2>1. Absent \in StateValues
    BY DEF Absent, StateValues, PatchValues, JsonScalar, Leaves
  <2> QED BY <1>2, <2>1 DEF MergeValue
<1>3. CASE p.type = "object" /\ b.type = "object"
  <2>1. \A v \in PatchValues : v.type = "object" => v \in JsonObjects
    BY DEF PatchValues, JsonScalar, Leaves
  <2>2. b \in JsonObjects /\ p \in JsonObjects
    BY <1>3, <2>1 DEF StateValues
  <2>3. MergeFields(b.fields, p.fields) \in [Fields -> Leaves]
    BY <2>2, MergeFieldsType DEF JsonObjects
  <2>4. [p EXCEPT !.fields = MergeFields(b.fields, p.fields)] \in JsonObjects
    BY <2>2, <2>3 DEF JsonObjects
  <2>5. \A v \in JsonObjects : v \in StateValues
    BY DEF JsonObjects, StateValues, PatchValues, JsonScalar
  <2> QED BY <1>3, <2>4, <2>5 DEF MergeValue
<1>4. CASE p.type \notin {"absent", "null"} /\ ~(p.type = "object" /\ b.type = "object")
  <2>1. p # JsonScalar("null")
    BY <1>4 DEF JsonScalar
  <2> QED BY <1>4, <2>1 DEF MergeValue, StateValues
<1> QED BY <1>1, <1>2, <1>3, <1>4

LEMMA MergeType ==
    ASSUME NEW s \in ExecutionState, NEW p \in StatePatch
    PROVE  merge_state(s, p) \in ExecutionState
<1>1. \A k \in Keys : MergeValue(s[k], p[k]) \in StateValues
  BY MergeValueType DEF ExecutionState, StatePatch
<1> QED BY <1>1 DEF merge_state, ExecutionState

-----------------------------------------------------------------------------
(* The log. *)

LEMMA LogEntries ==
    ASSUME NEW l \in Seq(Entries), NEW e \in Entries
    PROVE  /\ Append(l, e) \in Seq(Entries)
           /\ Len(Append(l, e)) = Len(l) + 1
           /\ Append(l, e)[Len(l) + 1] = e
           /\ \A i \in 1..Len(l) : Append(l, e)[i] = l[i]
           /\ Len(l) \in Nat /\ (l # << >> => Len(l) # 0)
BY AppendProperties, EmptySeq

\* Appending a transition that starts where the log ends keeps the chain and moves
\* its end.
LEMMA LogGrows ==
    ASSUME log \in Seq(Entries), Chained, NEW e \in Entries, EndsIn(e.prev),
           log' = Append(log, e)
    PROVE  Chained' /\ EndsIn(e.next)'
<1>1. /\ Len(log') = Len(log) + 1 /\ Len(log) \in Nat
      /\ log'[Len(log) + 1] = e
      /\ \A i \in 1..Len(log) : log'[i] = log[i]
      /\ log # << >> => Len(log) # 0
      /\ log = << >> => Len(log) = 0
  BY LogEntries
<1>2. Chained'
  <2> SUFFICES ASSUME NEW i \in 1..Len(log') - 1
               PROVE  log'[i].next = log'[i + 1].prev
    BY DEF Chained
  <2>1. i \in 1..Len(log) /\ log'[i] = log[i]
    BY <1>1
  <2>2. CASE i = Len(log)
    <3>1. log # << >> /\ log[Len(log)].next = e.prev
      BY <1>1, <2>1 DEF EndsIn
    <3> QED BY <1>1, <2>1, <2>2, <3>1
  <2>3. CASE i # Len(log)
    <3>1. i \in 1..Len(log) - 1 /\ i + 1 \in 1..Len(log)
      BY <1>1, <2>1, <2>3
    <3>2. log[i].next = log[i + 1].prev
      BY <3>1 DEF Chained
    <3> QED BY <1>1, <2>1, <3>1, <3>2
  <2> QED BY <2>2, <2>3
<1>3. EndsIn(e.next)'
  BY <1>1 DEF EndsIn
<1> QED BY <1>2, <1>3

-----------------------------------------------------------------------------
(* The steps. *)

LEMMA RunnerInit == AgentInit => RunnerInv
<1> SUFFICES ASSUME AgentInit PROVE RunnerInv
  OBVIOUS
<1>0. 0 \in 0..max_steps /\ 0 \in 0..max_retries /\ 0 \in 0..MaxCommits /\ 0 <= max_steps /\ 0 \in Nat
  BY AgentAssumption
<1>1. log = << >> /\ log \in Seq(Entries) /\ Len(log) = 0
  BY EmptySeq DEF AgentInit
<1>2. AgentTypeOK
  BY <1>0, <1>1, Zenon DEF AgentInit, AgentTypeOK
<1>3. ShapeOK /\ DownIsIdle /\ StoreConforms
  BY <1>1 DEF AgentInit, ShapeOK, DownIsIdle, StoreConforms, IsOpen, Proposed
<1>4. StepHasRoom /\ ToolWithinBudget /\ EffectsFollowCommits
  BY <1>1 DEF AgentInit, StepHasRoom, ToolWithinBudget, EffectsFollowCommits, InStep
<1>5. LogLeads
  BY <1>1 DEF AgentInit, LogLeads, Chained, EndsIn, IsOpen, Unlogged
<1>6. OverrunByOneAnswer
  BY AgentAssumption DEF AgentInit, OverrunByOneAnswer
<1> QED BY <1>2, <1>3, <1>4, <1>5, <1>6 DEF RunnerInv

LEMMA OpenStep ==
    ASSUME RunnerInv, NEW s \in SkillSchemas, Open(s)
    PROVE  RunnerInv'
<1> USE DEF Open, runner, counted
<1>1. place = "idle" /\ log = << >> /\ place' = "idle" /\ log' = << >>
  BY DEF RunnerInv, DownIsIdle
<1>2. row' \in ExecutionState /\ validate_against_schema(row', s)
  BY AgentAssumption DEF RunnerInv, AgentTypeOK
<1>3. AgentTypeOK'
  BY <1>1, <1>2 DEF RunnerInv, AgentTypeOK
<1>4. ShapeOK' /\ DownIsIdle' /\ StoreConforms'
  BY <1>1, <1>2 DEF RunnerInv, ShapeOK, DownIsIdle, StoreConforms, IsOpen, Proposed
<1>5. StepHasRoom' /\ ToolWithinBudget' /\ EffectsFollowCommits'
  BY <1>1 DEF RunnerInv, StepHasRoom, ToolWithinBudget, EffectsFollowCommits, InStep
<1>6. Len(log') = 0
  BY <1>1, EmptySeq
<1>7. LogLeads'
  BY <1>1, <1>6 DEF LogLeads, Chained, EndsIn, Unlogged
<1>8. OverrunByOneAnswer'
  BY DEF RunnerInv, OverrunByOneAnswer
<1> QED BY <1>3, <1>4, <1>5, <1>7, <1>8 DEF RunnerInv

LEMMA CrashStep ==
    ASSUME RunnerInv, Crash
    PROVE  RunnerInv'
<1> USE DEF Crash, counted
<1>0. 0 \in 0..max_steps /\ 0 \in 0..max_retries /\ 0 <= max_steps /\ 0 \in Nat
  BY AgentAssumption
<1>1. log' = << >> /\ log' \in Seq(Entries) /\ Len(log') = 0
  BY EmptySeq
<1>2. AgentTypeOK'
  BY <1>0, <1>1, Zenon DEF RunnerInv, AgentTypeOK
<1>3. ShapeOK' /\ DownIsIdle' /\ StoreConforms'
  BY <1>1 DEF RunnerInv, ShapeOK, DownIsIdle, StoreConforms, IsOpen, Proposed
<1>4. StepHasRoom' /\ ToolWithinBudget' /\ EffectsFollowCommits'
  BY DEF RunnerInv, StepHasRoom, ToolWithinBudget, EffectsFollowCommits, InStep
<1>5. LogLeads'
  BY <1>1 DEF LogLeads, Chained, EndsIn, Unlogged
<1>6. OverrunByOneAnswer'
  BY AgentAssumption DEF OverrunByOneAnswer
<1> QED BY <1>2, <1>3, <1>4, <1>5, <1>6 DEF RunnerInv

\* What a step keeps that leaves the store, the log and the accounts alone, and whose
\* place stays on the same side of the commit.
LEMMA StoreUntouched ==
    ASSUME RunnerInv, IsOpen,
           UNCHANGED <<row, schema, log, total_tokens, commits, effects>>
    PROVE  /\ log' \in Seq(Entries) /\ effects' \in Nat /\ row' \in ExecutionState
           /\ DownIsIdle' /\ StoreConforms' /\ OverrunByOneAnswer'
           /\ IsOpen'
<1>1. IsOpen'
  BY DEF IsOpen
<1>2. log' \in Seq(Entries) /\ effects' \in Nat /\ row' \in ExecutionState
  BY DEF RunnerInv, ShapeOK
<1>3. DownIsIdle'
  BY <1>1 DEF DownIsIdle
<1>4. StoreConforms' /\ OverrunByOneAnswer'
  BY DEF RunnerInv, StoreConforms, OverrunByOneAnswer
<1> QED BY <1>1, <1>2, <1>3, <1>4

\* A step that returns with the store and the log as they are: before a commit any
\* return does, after it only an error.
LEMMA ReturnStep ==
    ASSUME RunnerInv, place # "idle",
           NEW r \in {"done", "cancelled", "exhausted", "error"}, Return(r),
           Unlogged => r = "error",
           UNCHANGED <<row, schema, log, total_tokens, cancelled, commits, effects>>
    PROVE  RunnerInv'
<1> USE DEF Return
<1>1. IsOpen
  BY DEF RunnerInv, DownIsIdle
<1>2. /\ log' \in Seq(Entries) /\ effects' \in Nat /\ row' \in ExecutionState
      /\ DownIsIdle' /\ StoreConforms' /\ OverrunByOneAnswer'
  BY <1>1, StoreUntouched
<1>3. AgentTypeOK'
  <2>1. 0 \in 0..max_retries
    BY AgentAssumption
  <2>2. failed' \in BOOLEAN /\ place' = "idle"
    BY DEF RunnerInv, AgentTypeOK
  <2> QED BY <2>1, <2>2, Zenon DEF RunnerInv, AgentTypeOK
<1>4. ShapeOK'
  BY <1>2 DEF ShapeOK, Proposed
<1>5. StepHasRoom' /\ ToolWithinBudget'
  BY DEF StepHasRoom, ToolWithinBudget, InStep
<1>6. EffectsFollowCommits'
  BY DEF RunnerInv, EffectsFollowCommits
<1>7. LogLeads'
  <2> SUFFICES ASSUME ~failed'
               PROVE  Chained' /\ EndsIn(row)'
    BY DEF LogLeads, Unlogged
  <2>1. ~failed /\ ~Unlogged
    OBVIOUS
  <2> QED BY <1>1, <2>1 DEF RunnerInv, LogLeads, Chained, EndsIn
<1> QED BY <1>2, <1>3, <1>4, <1>5, <1>6, <1>7 DEF RunnerInv

LEMMA RunUntilStep ==
    ASSUME RunnerInv, RunUntil
    PROVE  RunnerInv'
<1> USE DEF RunUntil, counted
<1>1. /\ log' \in Seq(Entries) /\ effects' \in Nat /\ row' \in ExecutionState
      /\ DownIsIdle' /\ StoreConforms' /\ OverrunByOneAnswer'
  BY StoreUntouched
<1>2. AgentTypeOK'
  <2>1. 0 \in 0..max_steps
    BY AgentAssumption
  <2> QED BY <2>1, Zenon DEF RunnerInv, AgentTypeOK
<1>3. ShapeOK'
  BY <1>1 DEF ShapeOK, Proposed
<1>4. StepHasRoom' /\ ToolWithinBudget' /\ EffectsFollowCommits'
  BY DEF RunnerInv, StepHasRoom, ToolWithinBudget, InStep, EffectsFollowCommits
<1>5. LogLeads'
  BY DEF RunnerInv, LogLeads, Chained, EndsIn, Unlogged
<1> QED BY <1>1, <1>2, <1>3, <1>4, <1>5 DEF RunnerInv

LEMMA CancelStep ==
    ASSUME RunnerInv, Cancel
    PROVE  RunnerInv'
<1> USE DEF Cancel, counted
<1>1. AgentTypeOK'
  BY Zenon DEF RunnerInv, AgentTypeOK
<1>2. ShapeOK' /\ DownIsIdle' /\ StoreConforms'
  BY DEF RunnerInv, ShapeOK, DownIsIdle, StoreConforms, IsOpen, Proposed
<1>3. StepHasRoom' /\ ToolWithinBudget' /\ EffectsFollowCommits'
  BY DEF RunnerInv, StepHasRoom, ToolWithinBudget, OverBudget, InStep, EffectsFollowCommits
<1>4. LogLeads'
  BY DEF RunnerInv, LogLeads, Chained, EndsIn, Unlogged, IsOpen
<1>5. OverrunByOneAnswer'
  BY DEF RunnerInv, OverrunByOneAnswer
<1> QED BY <1>1, <1>2, <1>3, <1>4, <1>5 DEF RunnerInv

LEMMA LoopReturnsStep ==
    ASSUME RunnerInv, LoopReturns
    PROVE  RunnerInv'
<1>1. PICK r \in {"done", "cancelled", "exhausted", "error"} : Return(r)
  BY DEF LoopReturns
<1>2. place # "idle" /\ ~Unlogged
  BY DEF LoopReturns, Unlogged
<1> QED BY <1>1, <1>2, ReturnStep DEF LoopReturns, counted

LEMMA StepStartsStep ==
    ASSUME RunnerInv, StepStarts
    PROVE  RunnerInv'
<1> USE DEF StepStarts, counted
<1>1. IsOpen
  BY DEF RunnerInv, DownIsIdle
<1>2. /\ log' \in Seq(Entries) /\ effects' \in Nat /\ row' \in ExecutionState
      /\ DownIsIdle' /\ StoreConforms' /\ OverrunByOneAnswer'
  BY <1>1, StoreUntouched
<1>3. AgentTypeOK'
  <2>1. 0 \in 0..max_retries
    BY AgentAssumption
  <2> QED BY <2>1, Zenon DEF RunnerInv, AgentTypeOK
<1>4. ShapeOK'
  BY <1>2 DEF ShapeOK, Proposed
<1>5. StepHasRoom' /\ ToolWithinBudget' /\ EffectsFollowCommits'
  BY DEF RunnerInv, StepHasRoom, ToolWithinBudget, InStep, EffectsFollowCommits
<1>6. LogLeads'
  BY <1>1 DEF RunnerInv, LogLeads, Chained, EndsIn, Unlogged
<1> QED BY <1>2, <1>3, <1>4, <1>5, <1>6 DEF RunnerInv

LEMMA ProviderFailsStep ==
    ASSUME RunnerInv, ProviderFails
    PROVE  RunnerInv'
<1> USE DEF ProviderFails, counted
<1>1. CASE attempt < max_retries
  <2>1. IsOpen
    BY DEF RunnerInv, DownIsIdle
  <2>2. /\ log' \in Seq(Entries) /\ effects' \in Nat /\ row' \in ExecutionState
        /\ DownIsIdle' /\ StoreConforms' /\ OverrunByOneAnswer'
    BY <1>1, <2>1, StoreUntouched
  <2>3. AgentTypeOK'
    <3>1. attempt' \in 0..max_retries
      BY <1>1, AgentAssumption DEF RunnerInv, AgentTypeOK
    <3> QED BY <1>1, <3>1, Zenon DEF RunnerInv, AgentTypeOK
  <2>4. ShapeOK'
    BY <1>1, <2>2 DEF ShapeOK, Proposed
  <2>5. StepHasRoom' /\ ToolWithinBudget' /\ EffectsFollowCommits'
    BY <1>1 DEF RunnerInv, StepHasRoom, ToolWithinBudget, InStep, EffectsFollowCommits
  <2>6. LogLeads'
    BY <1>1, <2>1 DEF RunnerInv, LogLeads, Chained, EndsIn, Unlogged
  <2> QED BY <2>2, <2>3, <2>4, <2>5, <2>6 DEF RunnerInv
<1>2. CASE ~(attempt < max_retries)
  BY <1>2, ReturnStep DEF Unlogged
<1> QED BY <1>1, <1>2

LEMMA ProposesStep ==
    ASSUME RunnerInv, NEW p \in Patches, NEW o \in Outputs, Proposes(p, o)
    PROVE  RunnerInv'
<1> USE DEF Proposes, counted
<1>1. IsOpen
  BY DEF RunnerInv, DownIsIdle
<1>2. /\ log' \in Seq(Entries) /\ effects' \in Nat /\ row' \in ExecutionState
      /\ DownIsIdle' /\ StoreConforms' /\ OverrunByOneAnswer'
  BY <1>1, StoreUntouched
<1>3. AgentTypeOK'
  BY Zenon DEF RunnerInv, AgentTypeOK
<1>4. step' \in Steps
  BY <1>2 DEF Steps
<1>5. ShapeOK'
  BY <1>2, <1>4 DEF ShapeOK
<1>6. StepHasRoom' /\ ToolWithinBudget' /\ EffectsFollowCommits'
  BY DEF RunnerInv, StepHasRoom, ToolWithinBudget, InStep, EffectsFollowCommits
<1>7. LogLeads'
  BY <1>1 DEF RunnerInv, LogLeads, Chained, EndsIn, Unlogged
<1> QED BY <1>2, <1>3, <1>5, <1>6, <1>7 DEF RunnerInv

LEMMA CommitStep ==
    ASSUME RunnerInv, Commit
    PROVE  RunnerInv'
<1> USE DEF Commit
<1>1. IsOpen /\ IsOpen' /\ row \in ExecutionState /\ step \in Steps
  BY DEF RunnerInv, DownIsIdle, ShapeOK, IsOpen, Proposed
<1>2. row' \in ExecutionState /\ validate_against_schema(row', schema')
  <2>1. step.patch \in StatePatch
    BY <1>1, AgentAssumption DEF Steps
  <2> QED BY <1>1, <2>1, MergeType DEF CommitFails
<1>3. step' \in Steps /\ step'.prev = row /\ step'.next = row'
  <2> DEFINE after == [step EXCEPT !.prev = row]
  <2>1. after \in Steps /\ after.prev = row
    BY <1>1 DEF Steps
  <2>2. step' = [after EXCEPT !.next = row']
    OBVIOUS
  <2> HIDE DEF after
  <2> QED BY <1>2, <2>1, <2>2 DEF Steps
<1>4. AgentTypeOK'
  <2>1. commits' \in 0..MaxCommits
    BY AgentAssumption DEF RunnerInv, AgentTypeOK, StepHasRoom
  <2> QED BY <1>2, <2>1, Zenon DEF RunnerInv, AgentTypeOK
<1>5. ShapeOK' /\ DownIsIdle' /\ StoreConforms'
  BY <1>1, <1>2, <1>3 DEF RunnerInv, ShapeOK, DownIsIdle, StoreConforms
<1>6. StepHasRoom' /\ ToolWithinBudget'
  BY DEF RunnerInv, StepHasRoom, ToolWithinBudget, InStep
<1>7. EffectsFollowCommits'
  BY AgentAssumption DEF RunnerInv, AgentTypeOK, ShapeOK, EffectsFollowCommits
<1>8. LogLeads'
  <2> SUFFICES ASSUME ~failed
               PROVE  Chained' /\ EndsIn(step.prev)' /\ step'.next = row'
    BY DEF LogLeads, Unlogged
  <2>1. Chained /\ EndsIn(row)
    BY <1>1 DEF RunnerInv, LogLeads, Unlogged
  <2> QED BY <1>3, <2>1 DEF Chained, EndsIn
<1>9. OverrunByOneAnswer'
  BY DEF RunnerInv, OverrunByOneAnswer
<1> QED BY <1>4, <1>5, <1>6, <1>7, <1>8, <1>9 DEF RunnerInv

\* The committed transition as an entry of the log.
LEMMA EntryLogged ==
    ASSUME RunnerInv, Unlogged, log' = Append(log, Entry(step)), UNCHANGED <<row, failed>>
    PROVE  /\ log' \in Seq(Entries) /\ Len(log') = Len(log) + 1 /\ Len(log') <= max_steps
           /\ ~failed => Chained' /\ EndsIn(row)'
<1>1. step \in Steps /\ log \in Seq(Entries)
  BY DEF RunnerInv, ShapeOK, Unlogged, Proposed
<1>2. /\ Entry(step) \in Entries
      /\ Entry(step).prev = step.prev /\ Entry(step).next = step.next
  BY <1>1 DEF Entry, Entries, Steps
<1>3. log' \in Seq(Entries) /\ Len(log') = Len(log) + 1
  BY <1>1, <1>2, LogEntries
<1>4. Len(log) + 1 <= max_steps
  BY DEF RunnerInv, StepHasRoom, InStep, Unlogged
<1>5. ASSUME ~failed PROVE Chained' /\ EndsIn(row)'
  <2>1. Chained /\ EndsIn(step.prev) /\ step.next = row
    BY <1>5 DEF RunnerInv, LogLeads
  <2> DEFINE e == Entry(step)
  <2>2. e \in Entries /\ EndsIn(e.prev) /\ log' = Append(log, e) /\ e.next = row
    BY <1>2, <2>1
  <2> HIDE DEF e
  <2>3. Chained' /\ (log' # << >> => log'[Len(log')].next = e.next)
    BY <1>1, <2>1, <2>2, LogGrows DEF EndsIn
  <2> QED BY <2>2, <2>3 DEF EndsIn
<1> QED BY <1>3, <1>4, <1>5

LEMMA CancelledBeforeToolStep ==
    ASSUME RunnerInv, CancelledBeforeTool
    PROVE  RunnerInv'
<1> USE DEF CancelledBeforeTool, Return, counted
<1>1. IsOpen /\ IsOpen' /\ Unlogged /\ failed \in BOOLEAN
  BY DEF RunnerInv, DownIsIdle, IsOpen, Unlogged, AgentTypeOK
<1>2. failed' = failed
  BY <1>1
<1>3. /\ log' \in Seq(Entries) /\ Len(log') <= max_steps
      /\ ~failed => Chained' /\ EndsIn(row)'
  BY <1>1, <1>2, EntryLogged
<1>4. AgentTypeOK'
  <2>1. 0 \in 0..max_retries
    BY AgentAssumption
  <2> QED BY <1>1, <1>2, <1>3, <2>1, Zenon DEF RunnerInv, AgentTypeOK
<1>5. ShapeOK' /\ DownIsIdle' /\ StoreConforms'
  BY <1>1, <1>3 DEF RunnerInv, ShapeOK, Proposed, DownIsIdle, StoreConforms
<1>6. StepHasRoom' /\ ToolWithinBudget' /\ EffectsFollowCommits'
  BY DEF RunnerInv, StepHasRoom, ToolWithinBudget, InStep, EffectsFollowCommits
<1>7. LogLeads'
  BY <1>2, <1>3 DEF LogLeads, Unlogged
<1>8. OverrunByOneAnswer'
  BY DEF RunnerInv, OverrunByOneAnswer
<1> QED BY <1>4, <1>5, <1>6, <1>7, <1>8 DEF RunnerInv

LEMMA ToolCalledStep ==
    ASSUME RunnerInv, ToolCalled
    PROVE  RunnerInv'
<1> USE DEF ToolCalled, counted
<1>1. AgentTypeOK'
  BY Zenon DEF RunnerInv, AgentTypeOK
<1>2. ShapeOK' /\ DownIsIdle' /\ StoreConforms'
  BY DEF RunnerInv, ShapeOK, DownIsIdle, StoreConforms, IsOpen, Proposed
<1>3. StepHasRoom' /\ ToolWithinBudget' /\ EffectsFollowCommits'
  BY DEF RunnerInv, StepHasRoom, ToolWithinBudget, OverBudget, InStep, EffectsFollowCommits
<1>4. LogLeads'
  BY DEF RunnerInv, LogLeads, Chained, EndsIn, Unlogged, IsOpen
<1>5. OverrunByOneAnswer'
  BY DEF RunnerInv, OverrunByOneAnswer
<1> QED BY <1>1, <1>2, <1>3, <1>4, <1>5 DEF RunnerInv

\* The end of a step whose tool was called, with the tool's effect or without.
LEMMA EndStepStep ==
    ASSUME RunnerInv, place = "tool", EndStep, effects' \in {effects, effects + 1},
           UNCHANGED <<row, schema, cancelled, commits>>
    PROVE  RunnerInv'
<1> DEFINE spent == total_tokens + InputTokens + step.output
<1>1. /\ IsOpen /\ IsOpen' /\ Unlogged /\ step \in Steps /\ row \in ExecutionState
      /\ step.output \in Outputs /\ step.output \in Nat /\ total_tokens \in Nat
      /\ iterations \in Nat /\ iterations < max_steps /\ commits \in Nat /\ effects \in Nat
  <2>1. IsOpen /\ IsOpen' /\ Unlogged /\ step \in Steps /\ row \in ExecutionState
    BY DEF RunnerInv, DownIsIdle, IsOpen, Unlogged, ShapeOK, Proposed
  <2>2. step.output \in Outputs /\ step.output \in Nat
    BY <2>1, AgentAssumption DEF Steps
  <2>3. /\ total_tokens \in Nat /\ iterations \in 0..max_steps /\ commits \in 0..MaxCommits
        /\ effects \in Nat /\ iterations < max_steps
    BY Zenon DEF RunnerInv, AgentTypeOK, ShapeOK, StepHasRoom, InStep
  <2> QED BY <2>1, <2>2, <2>3
<1>2. effects' \in Nat /\ effects' <= commits'
  BY <1>1 DEF RunnerInv, EffectsFollowCommits
<1>3. total_tokens' = spent /\ spent \in Nat
  BY <1>1, AgentAssumption DEF EndStep
<1>4. OverrunByOneAnswer'
  <2> SUFFICES ASSUME NEW o \in Outputs, \A p \in Outputs : p <= o
               PROVE  spent <= max_tokens + o
    BY <1>3 DEF OverrunByOneAnswer
  <2>1. step.output <= o /\ o \in Nat
    BY <1>1, AgentAssumption
  <2>2. total_tokens + InputTokens + Predicted <= max_tokens
    BY <1>1, AgentAssumption DEF RunnerInv, ToolWithinBudget, OverBudget
  <2> QED BY <1>1, <2>1, <2>2, AgentAssumption
<1>5. DownIsIdle' /\ StoreConforms'
  BY <1>1 DEF RunnerInv, DownIsIdle, StoreConforms
<1>6. place' \in {"idle", "head"}
  BY DEF EndStep, Return
<1>7. StepHasRoom' /\ ToolWithinBudget' /\ EffectsFollowCommits'
  BY <1>2, <1>6 DEF StepHasRoom, ToolWithinBudget, InStep, EffectsFollowCommits
<1>8. /\ log' \in Seq(Entries) /\ Len(log') <= max_steps
      /\ iterations' \in 0..max_steps /\ attempt' \in 0..max_retries
      /\ result' \in {"none", "done", "cancelled", "exhausted", "error"}
      /\ failed' \in BOOLEAN
      /\ ~failed' => Chained' /\ EndsIn(row)'
  <2>1. CASE spent > max_tokens
    <3>1. Return("error") /\ log' = log
      BY <2>1 DEF EndStep
    <3>2. failed' = TRUE /\ attempt' = 0 /\ iterations' = iterations /\ result' = "error"
      BY <3>1 DEF Return
    <3>3. 0 \in 0..max_retries
      BY AgentAssumption
    <3> QED BY <3>1, <3>2, <3>3 DEF RunnerInv, AgentTypeOK, ShapeOK
  <2>2. CASE ~(spent > max_tokens)
    <3>1. /\ log' = Append(log, Entry(step))
          /\ iterations' = iterations + 1
          /\ UNCHANGED <<attempt, result, failed>>
      BY <2>2 DEF EndStep
    <3>2. /\ log' \in Seq(Entries) /\ Len(log') <= max_steps
          /\ ~failed => Chained' /\ EndsIn(row)'
      BY <1>1, <3>1, EntryLogged
    <3>3. iterations' \in 0..max_steps
      BY <1>1, <3>1, AgentAssumption
    <3> QED BY <3>1, <3>2, <3>3 DEF RunnerInv, AgentTypeOK
  <2> QED BY <2>1, <2>2
<1>9. AgentTypeOK'
  <2>1. total_tokens' \in Nat
    BY <1>3
  <2> QED BY <1>6, <1>8, <2>1, Zenon DEF RunnerInv, AgentTypeOK
<1>10. ShapeOK'
  BY <1>1, <1>2, <1>6, <1>8 DEF ShapeOK, Proposed
<1>11. LogLeads'
  BY <1>6, <1>8 DEF LogLeads, Unlogged
<1> QED BY <1>4, <1>5, <1>7, <1>9, <1>10, <1>11 DEF RunnerInv

LEMMA ToolFailsStep ==
    ASSUME RunnerInv, ToolFails
    PROVE  RunnerInv'
<1> USE DEF ToolFails, Return
<1>1. /\ IsOpen /\ IsOpen' /\ row \in ExecutionState
      /\ commits \in Nat /\ effects \in Nat /\ effects < commits
  <2>1. IsOpen /\ IsOpen' /\ row \in ExecutionState
    BY DEF RunnerInv, DownIsIdle, IsOpen, ShapeOK
  <2>2. commits \in 0..MaxCommits /\ effects \in Nat /\ effects < commits
    BY Zenon DEF RunnerInv, AgentTypeOK, ShapeOK, EffectsFollowCommits
  <2> QED BY <2>1, <2>2
<1>2. AgentTypeOK'
  <2>1. 0 \in 0..max_retries
    BY AgentAssumption
  <2>2. failed'
    OBVIOUS
  <2>3. failed' \in BOOLEAN
    BY <2>2, Zenon DEF Return, ToolFails
  <2> QED BY <2>1, <2>3, Zenon DEF RunnerInv, AgentTypeOK
<1>3. effects' \in Nat /\ effects' <= commits'
  BY <1>1
<1>4. ShapeOK' /\ DownIsIdle' /\ StoreConforms'
  BY <1>1, <1>3 DEF RunnerInv, ShapeOK, DownIsIdle, StoreConforms, Proposed
<1>5. StepHasRoom' /\ ToolWithinBudget' /\ EffectsFollowCommits' /\ LogLeads'
  BY <1>3 DEF StepHasRoom, ToolWithinBudget, EffectsFollowCommits, LogLeads, InStep
<1>6. OverrunByOneAnswer'
  BY DEF RunnerInv, OverrunByOneAnswer
<1> QED BY <1>2, <1>4, <1>5, <1>6 DEF RunnerInv

LEMMA RunnerUnchanged ==
    ASSUME RunnerInv, UNCHANGED agent_vars
    PROVE  RunnerInv'
<1> USE DEF agent_vars
<1>1. AgentTypeOK' /\ ShapeOK' /\ DownIsIdle'
  BY DEF RunnerInv, AgentTypeOK, ShapeOK, DownIsIdle, IsOpen, Proposed
<1>2. StepHasRoom' /\ ToolWithinBudget' /\ EffectsFollowCommits'
  BY DEF RunnerInv, StepHasRoom, ToolWithinBudget, OverBudget, InStep, EffectsFollowCommits
<1>3. LogLeads' /\ StoreConforms' /\ OverrunByOneAnswer'
  BY DEF RunnerInv, LogLeads, Chained, EndsIn, Unlogged, IsOpen, StoreConforms,
         OverrunByOneAnswer
<1> QED BY <1>1, <1>2, <1>3 DEF RunnerInv

LEMMA RunnerNext == RunnerInv /\ [AgentNext]_agent_vars => RunnerInv'
<1> SUFFICES ASSUME RunnerInv, [AgentNext]_agent_vars
             PROVE  RunnerInv'
  OBVIOUS
<1>1. CASE \E s \in SkillSchemas : Open(s)
  BY <1>1, OpenStep
<1>2. CASE Crash
  BY <1>2, CrashStep
<1>3. CASE RunUntil
  BY <1>3, RunUntilStep
<1>4. CASE Cancel
  BY <1>4, CancelStep
<1>5. CASE LoopReturns
  BY <1>5, LoopReturnsStep
<1>6. CASE StepStarts
  BY <1>6, StepStartsStep
<1>7. CASE ProviderFails
  BY <1>7, ProviderFailsStep
<1>8. CASE Malformed
  BY <1>8, ReturnStep DEF Malformed, Unlogged, counted
<1>9. CASE \E p \in Patches, o \in Outputs : Proposes(p, o)
  BY <1>9, ProposesStep
<1>10. CASE StepRefused
  <2>1. PICK r \in {"cancelled", "error"} : Return(r)
    BY <1>10 DEF StepRefused
  <2> QED BY <1>10, <2>1, ReturnStep DEF StepRefused, Unlogged, counted
<1>11. CASE Commit
  BY <1>11, CommitStep
<1>12. CASE CancelledBeforeTool
  BY <1>12, CancelledBeforeToolStep
<1>13. CASE BudgetRefusesTool
  BY <1>13, ReturnStep DEF BudgetRefusesTool, counted
<1>14. CASE ToolCalled
  BY <1>14, ToolCalledStep
<1>15. CASE ToolDenied
  BY <1>15, EndStepStep DEF ToolDenied, counted
<1>16. CASE ToolRuns
  BY <1>16, EndStepStep DEF ToolRuns
<1>17. CASE ToolFails
  BY <1>17, ToolFailsStep
<1>18. CASE UNCHANGED agent_vars
  BY <1>18, RunnerUnchanged
<1> QED BY <1>1, <1>2, <1>3, <1>4, <1>5, <1>6, <1>7, <1>8, <1>9, <1>10, <1>11, <1>12,
           <1>13, <1>14, <1>15, <1>16, <1>17, <1>18 DEF AgentNext, RunnerStep

-----------------------------------------------------------------------------
\* The strengthened invariant of the agent loop (AgentRunner::step, runner.rs:117).
THEOREM RunnerInvariant == AgentSpec => []RunnerInv
BY RunnerInit, RunnerNext, PTL DEF AgentSpec

\* The stored state always conforms to the schema the store is open with, and the
\* token ceiling is passed by one answer at most, whatever the model proposes and
\* wherever the process crashes (persistence.rs:45, runner.rs:170, 184).
THEOREM StateConforms == AgentSpec => []AgentInv
<1>1. RunnerInv => AgentInv
  BY DEF RunnerInv, AgentInv
<1> QED BY <1>1, RunnerInvariant, PTL

\* A tool runs at most once for each committed transition, and never before it; and
\* while no run has failed the log is a chain that ends in the stored state, through
\* cancellation between the commit and the tool (runner.rs:149, 156).
THEOREM CommitsAreAccounted == AgentSpec => []CommitsAccounted
<1>1. RunnerInv => CommitsAccounted
  <2> SUFFICES ASSUME RunnerInv PROVE LogInStep
    BY DEF RunnerInv, CommitsAccounted
  <2> SUFFICES ASSUME IsOpen, ~failed, place \in {"idle", "head", "asking", "proposed"},
                      log # << >>
               PROVE  Chained /\ log[Len(log)].next = row
    BY DEF LogInStep, Chained
  <2> QED BY DEF RunnerInv, LogLeads, EndsIn, Unlogged
<1> QED BY <1>1, RunnerInvariant, PTL
=============================================================================
