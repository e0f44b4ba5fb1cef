---------------------------- MODULE QuotaLedger ----------------------------
(***************************************************************************)
(* The daily quota: DefaultResourceManager (src/resource/mod.rs), the RAII *)
(* ResourceGuard (src/resource/guard.rs) and the part of the chat handler  *)
(* that reserves, refunds and records (process_request and                 *)
(* native_stream_sse, src/server/handlers/chat.rs).                        *)
(*                                                                         *)
(* Every manager operation is one critical section under reserve_lock.  A  *)
(* dropped guard does not release: it spawns a task that will, and the     *)
(* finish hook of a stream spawns a task that records the measured usage.  *)
(* Spawned tasks run in any order on the multi-threaded runtime.  Cost and *)
(* tokens move together in every operation and are one amount here.        *)
(***************************************************************************)
EXTENDS Naturals, FiniteSets

CONSTANTS Requests,
          MaxDaily,      \* quota.max_daily_cost / max_daily_tokens
          Estimates,     \* estimated cost of a compiled graph
          Actuals        \* measured usage of an execution

ASSUME LedgerAssumption ==
    /\ IsFiniteSet(Requests)
    /\ MaxDaily \in Nat
    /\ Estimates \subseteq Nat
    /\ Actuals \subseteq Nat

VARIABLES used,       \* used_cost / used_tokens
          phase,      \* where the handler of each request is
          estimate,   \* the amount the request's guard holds
          actual,     \* what the request really consumed
          spawned,    \* tasks handed to the runtime: <<kind, request>>
          released,   \* requests whose reservation was given back
          recorded    \* requests whose usage was recorded

ledger_vars == <<used, phase, estimate, actual, spawned, released, recorded>>

Phases == {"new", "rejected", "executing", "recording", "streaming", "ended"}

LedgerTypeOK ==
    /\ used \in Nat
    /\ phase \in [Requests -> Phases]
    /\ estimate \in [Requests -> Nat]
    /\ actual \in [Requests -> Nat]
    /\ spawned \subseteq {"release", "record"} \X Requests
    /\ released \subseteq Requests
    /\ recorded \subseteq Requests

LedgerInit ==
    /\ used = 0
    /\ phase = [r \in Requests |-> "new"]
    /\ estimate = [r \in Requests |-> 0]
    /\ actual = [r \in Requests |-> 0]
    /\ spawned = {}
    /\ released = {}
    /\ recorded = {}

-----------------------------------------------------------------------------
PhaseMoves(r, from, to) == phase[r] \in from /\ phase' = [phase EXCEPT ![r] = to]

can_afford(e) == used + e <= MaxDaily

\* try_apply: both the check and the booking under the lock.
TryReserve(r, e) ==
    /\ IF can_afford(e)
       THEN /\ PhaseMoves(r, {"new"}, "executing")
            /\ used' = used + e
            /\ estimate' = [estimate EXCEPT ![r] = e]
       ELSE /\ PhaseMoves(r, {"new"}, "rejected")
            /\ UNCHANGED <<used, estimate>>
    /\ UNCHANGED <<actual, spawned, released, recorded>>

\* ResourceGuard::drop without commit.
DropGuard(r) == <<"release", r>>

\* The graph ran and its response was built: the guard is dropped and the
\* handler goes on to record_usage.
ExecutionSucceeds(r, a) ==
    /\ PhaseMoves(r, {"executing"}, "recording")
    /\ actual' = [actual EXCEPT ![r] = a]
    /\ spawned' = spawned \union {DropGuard(r)}
    /\ UNCHANGED <<used, estimate, released, recorded>>

HandlerRecords(r) ==
    /\ PhaseMoves(r, {"recording"}, "ended")
    /\ used' = used + actual[r]
    /\ recorded' = recorded \union {r}
    /\ UNCHANGED <<estimate, actual, spawned, released>>

\* Faulty variant: the guard is committed.
ExecutionFails_leaks(r, a) ==
    /\ PhaseMoves(r, {"executing"}, "ended")
    /\ actual' = [actual EXCEPT ![r] = a]
    /\ UNCHANGED <<used, estimate, spawned, released, recorded>>

\* The scheduler returned an error, the response builder rejected an
\* unsuccessful result, the upstream stream did not start, or the client
\* disconnected and the handler future was dropped: the ? operator or the drop
\* leaves with the guard only.
ExecutionFails(r, a) ==
    /\ PhaseMoves(r, {"executing"}, "ended")
    /\ actual' = [actual EXCEPT ![r] = a]
    /\ spawned' = spawned \union {DropGuard(r)}
    /\ UNCHANGED <<used, estimate, released, recorded>>

\* Faulty variant: the handler drops the guard as well.
StreamStarts_drops(r) ==
    /\ PhaseMoves(r, {"executing"}, "streaming")
    /\ spawned' = spawned \union {DropGuard(r)}
    /\ UNCHANGED <<used, estimate, actual, released, recorded>>

\* A single-node graph streams natively: the guard moves into the stream.
StreamStarts(r) ==
    /\ PhaseMoves(r, {"executing"}, "streaming")
    /\ UNCHANGED <<used, estimate, actual, spawned, released, recorded>>

\* The stream completes, fails, is cancelled or is dropped: release_guard, then
\* the finish hook, each of which only spawns.
StreamFinishes(r, a) ==
    /\ PhaseMoves(r, {"streaming"}, "ended")
    /\ actual' = [actual EXCEPT ![r] = a]
    /\ spawned' = spawned \union {DropGuard(r), <<"record", r>>}
    /\ UNCHANGED <<used, estimate, released, recorded>>

\* resource_manager.release, saturating at zero.
ReleaseTask(r) ==
    /\ <<"release", r>> \in spawned
    /\ spawned' = spawned \ {<<"release", r>>}
    /\ used' = IF used >= estimate[r] THEN used - estimate[r] ELSE 0
    /\ released' = released \union {r}
    /\ UNCHANGED <<phase, estimate, actual, recorded>>

RecordTask(r) ==
    /\ <<"record", r>> \in spawned
    /\ spawned' = spawned \ {<<"record", r>>}
    /\ used' = used + actual[r]
    /\ recorded' = recorded \union {r}
    /\ UNCHANGED <<phase, estimate, actual, released>>

Handler(r) ==
    \/ \E e \in Estimates : TryReserve(r, e)
    \/ \E a \in Actuals : \/ ExecutionSucceeds(r, a)
                          \/ ExecutionFails(r, a)
                          \/ StreamFinishes(r, a)
    \/ StreamStarts(r)
    \/ HandlerRecords(r)

Runtime(r) == ReleaseTask(r) \/ RecordTask(r)

LedgerNext == \E r \in Requests : Handler(r) \/ Runtime(r)

\* Spawned tasks are run and a handler that has started is driven to its end
\* (or dropped); clients need not send requests.
LedgerSpec ==
    /\ LedgerInit /\ [][LedgerNext]_ledger_vars
    /\ \A r \in Requests : /\ WF_ledger_vars(Runtime(r))
                           /\ WF_ledger_vars(phase[r] # "new" /\ Handler(r))

-----------------------------------------------------------------------------
Outstanding == {r \in Requests : phase[r] \notin {"new", "rejected"}} \ released
\* The sum of the amounts of S, counted unit by unit.
Units(amount, S) == UNION {{r} \X (1..amount[r]) : r \in S}
Total(amount, S) == Cardinality(Units(amount, S))

\* The ledger balances in every interleaving of handlers and spawned tasks: the
\* counter is what outstanding reservations hold plus what was recorded, so the
\* saturating subtraction never swallows anything.
LedgerBalances ==
    used = Total(estimate, Outstanding) + Total(actual, recorded)

\* Admission never over-commits: what is reserved and not yet given back stays
\* within the quota however late the releases run.
ReservedWithinQuota == Total(estimate, Outstanding) <= MaxDaily

\* A reservation is given back once: the release of a request is spawned at
\* most once, after which it holds nothing.
ReleasedOnce == \A r \in released : <<"release", r>> \notin spawned

\* Booking is right whatever the order of the spawned tasks: reservations come back
\* once, the counter balances, and admission never over-commits (guard.rs:55,
\* mod.rs:48).
LedgerInv == LedgerTypeOK /\ ReleasedOnce /\ LedgerBalances /\ ReservedWithinQuota

\* No reservation leaks: every admitted request gives its estimate back.
ReservationReturned ==
    \A r \in Requests : (phase[r] = "executing") ~> (r \in released)
=============================================================================
