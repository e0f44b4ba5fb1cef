--------------------------- MODULE CircuitBreaker ---------------------------
(***************************************************************************)
(* The circuit breaker of a provider target                                *)
(* (src/providers/circuit_breaker.rs) and the requests that go through it  *)
(* (ProviderRegistry::chat_completion and chat_stream,                     *)
(* src/providers/registry.rs).                                             *)
(*                                                                         *)
(* The breaker's fields are separate atomics and locks, so can_execute,    *)
(* record_success and record_failure are sequences of steps, one per       *)
(* access to shared state, interleaved with those of other callers.        *)
(* can_execute holds the read guard of last_failure_time from the check of *)
(* the cooldown to its end.  A request future may be dropped while the     *)
(* provider call is awaited (the scheduler's select! on cancellation).     *)
(***************************************************************************)
EXTENDS Naturals, FiniteSets

CONSTANTS Callers,
          failure_threshold, success_threshold,
          StreamCallers  \* callers of chat_stream (the others: chat_completion)

ASSUME BreakerAssumption ==
    /\ failure_threshold \in Nat \ {0}
    /\ success_threshold \in Nat \ {0}
    /\ StreamCallers \subseteq Callers

VARIABLES state,            \* CircuitState
          failure_count,
          success_count,
          last_failure,     \* "none", "recent" (in cooldown) or "past"
          probe_in_flight,
          pc,               \* where each caller is
          bad,              \* history: calls failed in a row, none beside another
          failing,          \* history: requests that ended in failure in a row, none
                            \* beside another; a stream that breaks off is one
          dropped           \* history: a request was dropped while a probe was out

shared == <<state, failure_count, success_count, last_failure, probe_in_flight>>
history == <<bad, failing, dropped>>
breaker_vars == <<shared, pc, history>>

\* can_execute: check, cooldown, open_to_half, clear_success, set_probe, try_probe;
\* record_success: ok, ok_half, ok_close, ok_clear_failures, ok_clear_probe, ok_closed;
\* record_failure: err, err_open, err_stamp, err_clear_probe, err_count, err_trip,
\* err_trip_stamp; streaming: the connected stream is being consumed.
Places == {"idle", "check", "cooldown", "open_to_half", "clear_success",
           "set_probe", "try_probe", "calling",
           "ok", "ok_half", "ok_close", "ok_clear_failures", "ok_clear_probe",
           "ok_closed", "streaming",
           "err", "err_open", "err_stamp", "err_clear_probe", "err_count",
           "err_trip", "err_trip_stamp"}

BreakerTypeOK ==
    /\ state \in {"Closed", "Open", "HalfOpen"}
    /\ failure_count \in Nat
    /\ success_count \in Nat
    /\ last_failure \in {"none", "recent", "past"}
    /\ probe_in_flight \in BOOLEAN
    /\ pc \in [Callers -> Places]
    /\ bad \in 0..failure_threshold
    /\ failing \in 0..failure_threshold
    /\ dropped \in BOOLEAN

BreakerInit ==
    /\ state = "Closed"
    /\ failure_count = 0
    /\ success_count = 0
    /\ last_failure = "none"
    /\ probe_in_flight = FALSE
    /\ pc = [c \in Callers |-> "idle"]
    /\ bad = 0
    /\ failing = 0
    /\ dropped = FALSE

-----------------------------------------------------------------------------
Goto(c, from, to) == pc[c] = from /\ pc' = [pc EXCEPT ![c] = to]

\* The cooldown of the last recorded failure elapses.
CooldownElapses ==
    /\ last_failure = "recent"
    /\ last_failure' = "past"
    /\ UNCHANGED <<state, failure_count, success_count, probe_in_flight, pc, history>>

Request(c) == Goto(c, "idle", "check") /\ UNCHANGED <<shared, history>>

(* can_execute *)
ReadState(c) ==
    /\ Goto(c, "check", CASE state = "Closed"   -> "calling"
                          [] state = "Open"     -> "cooldown"
                          [] state = "HalfOpen" -> "try_probe")
    /\ UNCHANGED <<shared, history>>

CheckCooldown(c) ==
    /\ Goto(c, "cooldown", IF last_failure = "past" THEN "open_to_half" ELSE "idle")
    /\ UNCHANGED <<shared, history>>

EnterHalfOpen(c) ==
    /\ Goto(c, "open_to_half", "clear_success")
    /\ state' = "HalfOpen"
    /\ UNCHANGED <<failure_count, success_count, last_failure, probe_in_flight, history>>

ClearSuccesses(c) ==
    /\ Goto(c, "clear_success", "set_probe")
    /\ success_count' = 0
    /\ UNCHANGED <<state, failure_count, last_failure, probe_in_flight, history>>

SetProbe(c) ==
    /\ Goto(c, "set_probe", "calling")
    /\ probe_in_flight' = TRUE
    /\ UNCHANGED <<state, failure_count, success_count, last_failure, history>>

TryProbe(c) ==
    /\ Goto(c, "try_probe", IF probe_in_flight THEN "idle" ELSE "calling")
    /\ probe_in_flight' = TRUE
    /\ UNCHANGED <<state, failure_count, success_count, last_failure, history>>

(* The provider call. *)
CallSucceeds(c) ==
    /\ Goto(c, "calling", "ok")
    /\ bad' = 0
    /\ failing' = IF c \in StreamCallers THEN failing ELSE 0
    /\ UNCHANGED <<shared, dropped>>

\* What is known of n failures in a row when one more is seen: nothing if
\* another request is in progress.
Worse(c, n) ==
    IF \E d \in Callers \ {c} : pc[d] # "idle" THEN 0
    ELSE IF n < failure_threshold THEN n + 1 ELSE n

CallFails(c) ==
    /\ Goto(c, "calling", "err")
    /\ bad' = Worse(c, bad)
    /\ failing' = Worse(c, failing)
    /\ UNCHANGED <<shared, dropped>>

CallDropped(c) ==
    /\ Goto(c, "calling", "idle")
    /\ dropped' = (dropped \/ probe_in_flight)
    /\ UNCHANGED <<shared, bad, failing>>

\* A connected stream ends well (or is dropped), or yields its first error.
StreamEnds(c) ==
    /\ Goto(c, "streaming", "idle")
    /\ failing' = 0
    /\ UNCHANGED <<shared, bad, dropped>>

StreamErrors(c) ==
    /\ Goto(c, "streaming", "err")
    /\ bad' = Worse(c, bad)
    /\ failing' = Worse(c, failing)
    /\ UNCHANGED <<shared, dropped>>

AfterSuccess(c) == IF c \in StreamCallers THEN "streaming" ELSE "idle"

(* record_success *)
SuccessReadState(c) ==
    /\ Goto(c, "ok", CASE state = "HalfOpen" -> "ok_half"
                       [] state = "Closed"   -> "ok_closed"
                       [] state = "Open"     -> AfterSuccess(c))
    /\ UNCHANGED <<shared, history>>

SuccessCount(c) ==
    /\ Goto(c, "ok_half", IF success_count + 1 >= success_threshold
                          THEN "ok_close" ELSE "ok_clear_probe")
    /\ success_count' = success_count + 1
    /\ UNCHANGED <<state, failure_count, last_failure, probe_in_flight, history>>

SuccessClose(c) ==
    /\ Goto(c, "ok_close", "ok_clear_failures")
    /\ state' = "Closed"
    /\ UNCHANGED <<failure_count, success_count, last_failure, probe_in_flight, history>>

SuccessClearFailures(c) ==
    /\ \/ Goto(c, "ok_clear_failures", "ok_clear_probe")
       \/ Goto(c, "ok_closed", AfterSuccess(c))
    /\ failure_count' = 0
    /\ UNCHANGED <<state, success_count, last_failure, probe_in_flight, history>>

\* Faulty variant: the mark is not lifted.
SuccessClearProbe_keeps(c) ==
    Goto(c, "ok_clear_probe", AfterSuccess(c)) /\ UNCHANGED <<shared, history>>

SuccessClearProbe(c) ==
    /\ Goto(c, "ok_clear_probe", AfterSuccess(c))
    /\ probe_in_flight' = FALSE
    /\ UNCHANGED <<state, failure_count, success_count, last_failure, history>>

(* record_failure *)
FailureReadState(c) ==
    /\ Goto(c, "err", CASE state = "HalfOpen" -> "err_open"
                        [] state = "Closed"   -> "err_count"
                        [] state = "Open"     -> "idle")
    /\ UNCHANGED <<shared, history>>

FailureOpen(c) ==
    /\ \/ Goto(c, "err_open", "err_stamp")
       \/ Goto(c, "err_trip", "err_trip_stamp")
    /\ state' = "Open"
    /\ UNCHANGED <<failure_count, success_count, last_failure, probe_in_flight, history>>

\* The write lock of last_failure_time waits for the readers in can_execute.
NoCooldownReader ==
    \A c \in Callers : pc[c] \notin {"open_to_half", "clear_success", "set_probe"}

\* Faulty variant: no failure time is written.
FailureStamp_none(c) ==
    /\ \/ Goto(c, "err_stamp", "err_clear_probe")
       \/ Goto(c, "err_trip_stamp", "idle")
    /\ UNCHANGED <<shared, history>>

FailureStamp(c) ==
    /\ NoCooldownReader
    /\ \/ Goto(c, "err_stamp", "err_clear_probe")
       \/ Goto(c, "err_trip_stamp", "idle")
    /\ last_failure' = "recent"
    /\ UNCHANGED <<state, failure_count, success_count, probe_in_flight, history>>

FailureClearProbe(c) ==
    /\ Goto(c, "err_clear_probe", "idle")
    /\ probe_in_flight' = FALSE
    /\ UNCHANGED <<state, failure_count, success_count, last_failure, history>>

\* Faulty variant: off by one.
FailureCount_late(c) ==
    /\ Goto(c, "err_count", IF failure_count >= failure_threshold
                            THEN "err_trip" ELSE "idle")
    /\ failure_count' = failure_count + 1
    /\ UNCHANGED <<state, success_count, last_failure, probe_in_flight, history>>

FailureCount(c) ==
    /\ Goto(c, "err_count", IF failure_count + 1 >= failure_threshold
                            THEN "err_trip" ELSE "idle")
    /\ failure_count' = failure_count + 1
    /\ UNCHANGED <<state, success_count, last_failure, probe_in_flight, history>>

Step(c) ==
    \/ Request(c)
    \/ ReadState(c) \/ CheckCooldown(c) \/ EnterHalfOpen(c) \/ ClearSuccesses(c)
    \/ SetProbe(c) \/ TryProbe(c)
    \/ CallSucceeds(c) \/ CallFails(c) \/ CallDropped(c)
    \/ StreamEnds(c) \/ StreamErrors(c)
    \/ SuccessReadState(c) \/ SuccessCount(c) \/ SuccessClose(c)
    \/ SuccessClearFailures(c) \/ SuccessClearProbe(c)
    \/ FailureReadState(c) \/ FailureOpen(c) \/ FailureStamp(c)
    \/ FailureClearProbe(c) \/ FailureCount(c)

BreakerNext == CooldownElapses \/ \E c \in Callers : Step(c)

\* Requests keep coming, a caller that can run does, time passes.
BreakerSpec ==
    /\ BreakerInit /\ [][BreakerNext]_breaker_vars
    /\ WF_breaker_vars(CooldownElapses)
    /\ \A c \in Callers : WF_breaker_vars(Step(c))

-----------------------------------------------------------------------------
Quiet == \A c \in Callers : pc[c] = "idle"
\* The caller has been admitted, or is about to be, and has not finished
\* recording its result.
MayLiftProbe(c) ==
    pc[c] \in {"clear_success", "set_probe", "calling",
               "ok", "ok_half", "ok_close", "ok_clear_failures", "ok_clear_probe",
               "err", "err_open", "err_stamp", "err_clear_probe"}

\* A half-open breaker that refuses everyone is waiting for somebody: while a
\* probe is marked in flight (circuit_breaker.rs:47, 58), some caller has yet
\* to record its result, which lifts the mark or leaves the state.  A probe
\* dropped while it is awaited is excepted: nothing lifts its mark.
ProbeHasOwner ==
    ~dropped /\ state = "HalfOpen" /\ probe_in_flight => \E c \in Callers : MayLiftProbe(c)

\* The breaker never locks a provider out for good, unless a request was dropped
\* while a probe was out: with requests coming in, calls are admitted again and
\* again ("circuit breaker resets after cooldown",
\* docs/superpowers/specs/2026-07-26-reliability-engineering.md:29).
KeepsAdmitting == []<>(\E c \in Callers : pc[c] = "calling") \/ <>dropped

\* When the breaker opens it has a failure time to cool down from as soon as
\* the calls in flight are over: it can leave the open state.
OpenHasStamp == Quiet /\ state = "Open" => last_failure # "none"

\* An open breaker without a failure time has a caller that is about to
\* write one.
StampPending ==
    state = "Open" /\ last_failure = "none" =>
        \E c \in Callers : pc[c] \in {"err_stamp", "err_trip_stamp"}

\* The inductive invariant of the breaker: whatever the order of the accesses to its
\* separate fields, a refusing breaker is waiting for somebody or for the time to
\* pass (circuit_breaker.rs:38, 47, 85).
BreakerInv == BreakerTypeOK /\ ProbeHasOwner /\ StampPending

\* Repeated failures open the circuit (circuit_breaker.rs:88): after
\* failure_threshold calls that failed one after the other, with no other request
\* beside them and no recorded success in between, the breaker is not closed.
\* Connecting a stream records a success (registry.rs:280), so a stream that
\* connects and then breaks off is one failure after a success here.
RepeatedFailuresOpen == Quiet /\ bad >= failure_threshold => state # "Closed"

\* What the comment at registry.rs:264-268 says of streams: failures that arrive in
\* the middle of a stream open the circuit like any other provider failure.  After
\* failure_threshold requests that ended in failure one after the other, whether the
\* call failed or the connected stream broke off, the breaker is not closed.
StreamFailuresOpen == Quiet /\ failing >= failure_threshold => state # "Closed"
=============================================================================
