---------------------------- MODULE LeaseService ----------------------------
(***************************************************************************)
(* What the lease manager promises the executions that use it: a worker    *)
(* gets a task only while nobody else has it, and it keeps the task until  *)
(* the task is released, by expiry or by revocation.  Nothing is said of   *)
(* clocks, epochs, records or calls in progress.                           *)
(***************************************************************************)
CONSTANTS Tasks, Workers

VARIABLE holders  \* the workers that may act on each task

Init == holders = [t \in Tasks |-> {}]

Acquire(t, w) ==
    /\ holders[t] \subseteq {w}
    /\ holders' = [holders EXCEPT ![t] = {w}]

\* Leases of several tasks may run out at the same moment.
Release(set) ==
    holders' = [t \in Tasks |-> IF t \in set THEN {} ELSE holders[t]]

Next ==
    \/ \E t \in Tasks, w \in Workers : Acquire(t, w)
    \/ \E set \in SUBSET Tasks : Release(set)

Spec == Init /\ [][Next]_holders
=============================================================================
