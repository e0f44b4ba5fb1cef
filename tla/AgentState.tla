----------------------------- MODULE AgentState -----------------------------
(***************************************************************************)
(* The canonical execution state of an agent and its patches               *)
(* (crates/fusion-agent-state/src/lib.rs): the merge operator and the      *)
(* schema check.                                                           *)
(*                                                                         *)
(* A JSON value is abstracted to its type and, for an object, the types of *)
(* its fields; values of one type are not told apart.  A state or a patch  *)
(* is a function from top-level keys to values, "absent" for a missing     *)
(* key.  Two levels are enough for every case of merge_state: its          *)
(* recursion repeats the top level one level down.                         *)
(***************************************************************************)
EXTENDS Naturals

CONSTANTS Keys, Fields

Leaves == {"absent", "null", "integer", "string"}
NoFields == [f \in Fields |-> "absent"]
JsonScalar(t) == [type |-> t, fields |-> NoFields]
Absent == JsonScalar("absent")
JsonObjects == [type : {"object"}, fields : [Fields -> Leaves]]
PatchValues == {JsonScalar(t) : t \in Leaves} \union JsonObjects
StatePatch == [Keys -> PatchValues]
StateValues == (PatchValues \ {JsonScalar("null")})
ExecutionState == [Keys -> StateValues]

\* An object patch onto a scalar is ambiguous.
MergeFails(base, patch) ==
    \E k \in Keys : /\ patch[k].type = "object"
                    /\ base[k].type \notin {"absent", "object"}

MergeFields(base, patch) ==
    [f \in Fields |-> CASE patch[f] = "absent" -> base[f]
                        [] patch[f] = "null"   -> "absent"
                        [] OTHER               -> patch[f]]

\* null deletes, a missing key stays, objects merge, anything else replaces
\* (an object under a new key is inserted as it is, with its nulls).
MergeValue(base, patch) ==
    CASE patch.type = "absent" -> base
      [] patch.type = "null"   -> Absent
      [] patch.type = "object" /\ base.type = "object" ->
            [patch EXCEPT !.fields = MergeFields(base.fields, patch.fields)]
      [] OTHER                 -> patch

merge_state(base, patch) == [k \in Keys |-> MergeValue(base[k], patch[k])]

\* A schema: the declared properties with their types, the required keys and
\* whether undeclared keys are allowed.
Schemas == [properties : [Keys -> {"undeclared", "integer", "string", "object"}],
            required : SUBSET Keys, additional : BOOLEAN]

validate_against_schema(state, schema) ==
    /\ \A k \in schema.required : state[k] # Absent
    /\ \A k \in Keys : state[k] # Absent =>
         IF schema.properties[k] = "undeclared" THEN schema.additional
         ELSE state[k].type = schema.properties[k]
=============================================================================
