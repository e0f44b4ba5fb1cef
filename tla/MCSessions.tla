----------------------------- MODULE MCSessions -----------------------------
(***************************************************************************)
(* Model checking of Sessions: two callers, two owners, one session, three *)
(* calls, a clock that shows one of two milliseconds and one crash, on     *)
(* either store.  Only invariants are checked, so callers and owners may   *)
(* be exchanged.                                                           *)
(***************************************************************************)
EXTENDS Sessions

CONSTANTS c1, c2, alice, bob, anyone

MCCallers == {c1, c2}
MCOwners == {alice, bob}
Symmetry == Permutations(MCCallers) \union Permutations(MCOwners)
=============================================================================
