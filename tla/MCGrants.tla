------------------------------ MODULE MCGrants ------------------------------
(***************************************************************************)
(* What is handed out for a while: the lease of a task and the budget of a *)
(* stream.  They share no state, so each is explored by itself, as the     *)
(* focus of a behaviour, while the other rests in an initial state.        *)
(*                                                                         *)
(* Two workers contend for a task through two concurrent callers.  Streams *)
(* have a few chunks; the usage reports are above, below and sideways of   *)
(* what the content chunks are estimated at: more tokens for less money    *)
(* under the second price, less tokens for more money under the third.     *)
(* Under the fourth the cost of a report overflows.                        *)
(***************************************************************************)
EXTENDS Leases, MeteredStream, TLC

VARIABLE focus

grant_vars == <<lease_vars, vars, focus>>

SomeReports == {[prompt |-> 4, completion |-> 1], [prompt |-> 0, completion |-> 1],
                [prompt |-> 3, completion |-> 0]}
Free == [input |-> 0, output |-> 0]
SomePrices == {Free, [input |-> 1000, output |-> 2500],
               [input |-> 3000, output |-> 1000], [input |-> 5000, output |-> 1000]}

GrantsInit ==
    /\ focus \in {"lease", "stream"}
    /\ LeaseInit /\ Init
    /\ focus = "stream" \/ (price = Free /\ ~has_envelope)

GrantsNext ==
    \/ focus = "lease" /\ LeaseNext /\ UNCHANGED <<vars, focus>>
    \/ focus = "stream" /\ Next /\ UNCHANGED <<lease_vars, focus>>

GrantsSpec == GrantsInit /\ [][GrantsNext]_grant_vars

Symmetry == Permutations(Workers) \union Permutations(Callers)
=============================================================================
