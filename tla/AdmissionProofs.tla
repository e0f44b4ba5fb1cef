-------------------------- MODULE AdmissionProofs --------------------------
(***************************************************************************)
(* Proofs about what stands between a request and a provider: the circuit  *)
(* breaker (module CircuitBreaker), the daily quota (module QuotaLedger)   *)
(* and the rate limiter (module RateLimiter), each for every value of its  *)
(* constants.  The three share no state; their theorems are independent.   *)
(***************************************************************************)
EXTENDS CircuitBreaker, QuotaLedger, RateLimiter, FiniteSetTheorems, TLAPS

-----------------------------------------------------------------------------
(***************************************************************************)
(* The circuit breaker, for any number of callers and any thresholds.      *)
(***************************************************************************)

\* A caller moves from place to place.
LEMMA Moves ==
    ASSUME BreakerTypeOK, NEW c \in Callers, NEW from, NEW to \in Places, Goto(c, from, to)
    PROVE  pc' \in [Callers -> Places]
BY DEF BreakerTypeOK, Goto

LEMMA BreakerInitType == BreakerInit => BreakerTypeOK
<1> SUFFICES ASSUME BreakerInit PROVE BreakerTypeOK
  OBVIOUS
<1>1. /\ bad \in 0..failure_threshold /\ failing \in 0..failure_threshold
      /\ failure_count \in Nat /\ success_count \in Nat
  BY BreakerAssumption DEF BreakerInit
<1>2. probe_in_flight \in BOOLEAN
  BY Zenon DEF BreakerInit
<1>2a. dropped \in BOOLEAN
  BY Zenon DEF BreakerInit
<1>3. pc \in [Callers -> Places]
  BY DEF BreakerInit, Places
<1> QED BY <1>1, <1>2, <1>2a, <1>3 DEF BreakerInit, BreakerTypeOK

LEMMA BreakerTypeStep == BreakerTypeOK /\ [BreakerNext]_breaker_vars => BreakerTypeOK'
<1> SUFFICES ASSUME BreakerTypeOK, [BreakerNext]_breaker_vars PROVE BreakerTypeOK'
  OBVIOUS
<1> USE DEF BreakerTypeOK
<1>1. CASE CooldownElapses
  BY <1>1 DEF CooldownElapses, history
<1>2. ASSUME NEW c \in Callers, Request(c) PROVE BreakerTypeOK'
  <2>1. pc' \in [Callers -> Places]
    BY <1>2, Moves DEF Request, Places
  <2> QED BY <1>2, <2>1, BreakerAssumption DEF Request, shared, history
<1>3. ASSUME NEW c \in Callers, ReadState(c) PROVE BreakerTypeOK'
  <2>1. pc' \in [Callers -> Places]
    BY <1>3, Moves DEF ReadState, Places
  <2> QED BY <1>3, <2>1, BreakerAssumption DEF ReadState, shared, history
<1>4. ASSUME NEW c \in Callers, CheckCooldown(c) PROVE BreakerTypeOK'
  <2>1. pc' \in [Callers -> Places]
    BY <1>4, Moves DEF CheckCooldown, Places
  <2> QED BY <1>4, <2>1, BreakerAssumption DEF CheckCooldown, shared, history
<1>5. ASSUME NEW c \in Callers, EnterHalfOpen(c) PROVE BreakerTypeOK'
  <2>1. pc' \in [Callers -> Places]
    BY <1>5, Moves DEF EnterHalfOpen, Places
  <2> QED BY <1>5, <2>1, BreakerAssumption DEF EnterHalfOpen, shared, history
<1>6. ASSUME NEW c \in Callers, ClearSuccesses(c) PROVE BreakerTypeOK'
  <2>1. pc' \in [Callers -> Places]
    BY <1>6, Moves DEF ClearSuccesses, Places
  <2> QED BY <1>6, <2>1, BreakerAssumption DEF ClearSuccesses, shared, history
<1>7. ASSUME NEW c \in Callers, SetProbe(c) PROVE BreakerTypeOK'
  <2>1. pc' \in [Callers -> Places]
    BY <1>7, Moves DEF SetProbe, Places
  <2> QED BY <1>7, <2>1, BreakerAssumption DEF SetProbe, shared, history
<1>8. ASSUME NEW c \in Callers, TryProbe(c) PROVE BreakerTypeOK'
  <2>1. pc' \in [Callers -> Places]
    BY <1>8, Moves DEF TryProbe, Places
  <2> QED BY <1>8, <2>1, BreakerAssumption DEF TryProbe, shared, history
<1>9. ASSUME NEW c \in Callers, CallSucceeds(c) PROVE BreakerTypeOK'
  <2>1. pc' \in [Callers -> Places]
    BY <1>9, Moves DEF CallSucceeds, Places
  <2> QED BY <1>9, <2>1, BreakerAssumption DEF CallSucceeds, shared, history
<1>10. ASSUME NEW c \in Callers, CallFails(c) PROVE BreakerTypeOK'
  <2>1. pc' \in [Callers -> Places]
    BY <1>10, Moves DEF CallFails, Places
  <2> QED BY <1>10, <2>1, BreakerAssumption DEF CallFails, shared, history, Worse
<1>11. ASSUME NEW c \in Callers, CallDropped(c) PROVE BreakerTypeOK'
  <2>1. pc' \in [Callers -> Places]
    BY <1>11, Moves DEF CallDropped, Places
  <2> QED BY <1>11, <2>1, BreakerAssumption DEF CallDropped, shared, history
<1>12. ASSUME NEW c \in Callers, StreamEnds(c) PROVE BreakerTypeOK'
  <2>1. pc' \in [Callers -> Places]
    BY <1>12, Moves DEF StreamEnds, Places
  <2> QED BY <1>12, <2>1, BreakerAssumption DEF StreamEnds, shared, history
<1>13. ASSUME NEW c \in Callers, StreamErrors(c) PROVE BreakerTypeOK'
  <2>1. pc' \in [Callers -> Places]
    BY <1>13, Moves DEF StreamErrors, Places
  <2> QED BY <1>13, <2>1, BreakerAssumption DEF StreamErrors, shared, history, Worse
<1>14. ASSUME NEW c \in Callers, SuccessReadState(c) PROVE BreakerTypeOK'
  <2>1. pc' \in [Callers -> Places]
    BY <1>14, Moves DEF SuccessReadState, Places, AfterSuccess
  <2> QED BY <1>14, <2>1, BreakerAssumption DEF SuccessReadState, shared, history
<1>15. ASSUME NEW c \in Callers, SuccessCount(c) PROVE BreakerTypeOK'
  <2>1. pc' \in [Callers -> Places]
    BY <1>15, Moves DEF SuccessCount, Places
  <2> QED BY <1>15, <2>1, BreakerAssumption DEF SuccessCount, shared, history
<1>16. ASSUME NEW c \in Callers, SuccessClose(c) PROVE BreakerTypeOK'
  <2>1. pc' \in [Callers -> Places]
    BY <1>16, Moves DEF SuccessClose, Places
  <2> QED BY <1>16, <2>1, BreakerAssumption DEF SuccessClose, shared, history
<1>17. ASSUME NEW c \in Callers, SuccessClearFailures(c) PROVE BreakerTypeOK'
  <2>1. pc' \in [Callers -> Places]
    BY <1>17, Moves DEF SuccessClearFailures, Places, AfterSuccess
  <2> QED BY <1>17, <2>1, BreakerAssumption DEF SuccessClearFailures, shared, history
<1>18. ASSUME NEW c \in Callers, SuccessClearProbe(c) PROVE BreakerTypeOK'
  <2>1. pc' \in [Callers -> Places]
    BY <1>18, Moves DEF SuccessClearProbe, Places, AfterSuccess
  <2> QED BY <1>18, <2>1, BreakerAssumption DEF SuccessClearProbe, shared, history
<1>19. ASSUME NEW c \in Callers, FailureReadState(c) PROVE BreakerTypeOK'
  <2>1. pc' \in [Callers -> Places]
    BY <1>19, Moves DEF FailureReadState, Places
  <2> QED BY <1>19, <2>1, BreakerAssumption DEF FailureReadState, shared, history
<1>20. ASSUME NEW c \in Callers, FailureOpen(c) PROVE BreakerTypeOK'
  <2>1. pc' \in [Callers -> Places]
    BY <1>20, Moves DEF FailureOpen, Places
  <2> QED BY <1>20, <2>1, BreakerAssumption DEF FailureOpen, shared, history
<1>21. ASSUME NEW c \in Callers, FailureStamp(c) PROVE BreakerTypeOK'
  <2>1. pc' \in [Callers -> Places]
    BY <1>21, Moves DEF FailureStamp, Places
  <2> QED BY <1>21, <2>1, BreakerAssumption DEF FailureStamp, shared, history
<1>22. ASSUME NEW c \in Callers, FailureClearProbe(c) PROVE BreakerTypeOK'
  <2>1. pc' \in [Callers -> Places]
    BY <1>22, Moves DEF FailureClearProbe, Places
  <2> QED BY <1>22, <2>1, BreakerAssumption DEF FailureClearProbe, shared, history
<1>23. ASSUME NEW c \in Callers, FailureCount(c) PROVE BreakerTypeOK'
  <2>1. pc' \in [Callers -> Places]
    BY <1>23, Moves DEF FailureCount, Places
  <2> QED BY <1>23, <2>1, BreakerAssumption DEF FailureCount, shared, history
<1>24. CASE UNCHANGED breaker_vars
  BY <1>24 DEF breaker_vars, shared, history
<1> QED BY <1>1, <1>2, <1>3, <1>4, <1>5, <1>6, <1>7, <1>8, <1>9, <1>10,
           <1>11, <1>12, <1>13, <1>14, <1>15, <1>16, <1>17, <1>18,
           <1>19, <1>20, <1>21, <1>22, <1>23, <1>24
        DEF BreakerNext, Step

\* Every field of the breaker and every caller stays in its type.
THEOREM TypeCorrect == BreakerSpec => []BreakerTypeOK
BY BreakerInitType, BreakerTypeStep, PTL DEF BreakerSpec

\* A caller that leaves the places from which it lifts the probe mark has
\* lifted it, or has seen the breaker leave the half-open state.
LEMMA ProbeStep == BreakerTypeOK /\ ProbeHasOwner /\ [BreakerNext]_breaker_vars => ProbeHasOwner'
<1> SUFFICES ASSUME BreakerTypeOK, ProbeHasOwner, [BreakerNext]_breaker_vars PROVE ProbeHasOwner'
  OBVIOUS
<1> USE DEF BreakerTypeOK, Goto, shared, history, ProbeHasOwner, MayLiftProbe
<1>1. CASE CooldownElapses
  BY <1>1 DEF CooldownElapses
<1>2. ASSUME NEW c \in Callers, \/ Request(c) \/ ReadState(c) \/ CheckCooldown(c)
                                \/ EnterHalfOpen(c) \/ ClearSuccesses(c)
                                \/ SetProbe(c) \/ TryProbe(c)
      PROVE  ProbeHasOwner'
  <2>1. CASE Request(c) \/ ReadState(c) \/ CheckCooldown(c)
    BY <2>1 DEF Request, ReadState, CheckCooldown
  <2>2. CASE EnterHalfOpen(c) \/ ClearSuccesses(c) \/ SetProbe(c)
    BY <2>2 DEF EnterHalfOpen, ClearSuccesses, SetProbe
  <2>3. CASE TryProbe(c)
    BY <2>3 DEF TryProbe
  <2> QED BY <1>2, <2>1, <2>2, <2>3
<1>3. ASSUME NEW c \in Callers, \/ CallSucceeds(c) \/ CallFails(c) \/ CallDropped(c)
                                \/ StreamEnds(c) \/ StreamErrors(c)
      PROVE  ProbeHasOwner'
  BY <1>3 DEF CallSucceeds, CallFails, CallDropped, StreamEnds, StreamErrors
<1>4. ASSUME NEW c \in Callers, \/ SuccessReadState(c) \/ SuccessCount(c)
                                \/ SuccessClose(c) \/ SuccessClearFailures(c)
                                \/ SuccessClearProbe(c)
      PROVE  ProbeHasOwner'
  BY <1>4 DEF SuccessReadState, SuccessCount, SuccessClose, SuccessClearFailures,
              SuccessClearProbe, AfterSuccess
<1>5. ASSUME NEW c \in Callers, \/ FailureReadState(c) \/ FailureOpen(c)
                                \/ FailureStamp(c) \/ FailureClearProbe(c)
                                \/ FailureCount(c)
      PROVE  ProbeHasOwner'
  BY <1>5 DEF FailureReadState, FailureOpen, FailureStamp, FailureClearProbe,
              FailureCount
<1>6. CASE UNCHANGED breaker_vars
  BY <1>6 DEF breaker_vars, shared, history
<1> QED BY <1>1, <1>2, <1>3, <1>4, <1>5, <1>6 DEF BreakerNext, Step

\* As long as no request was dropped while a probe was out, a probe mark always
\* has a caller that will lift it (circuit_breaker.rs:47, 58, 72, 87).
THEOREM ProbeOwned == BreakerSpec => []ProbeHasOwner
<1>1. BreakerInit => BreakerTypeOK /\ ProbeHasOwner
  BY BreakerInitType DEF BreakerInit, ProbeHasOwner
<1> QED BY <1>1, BreakerTypeStep, ProbeStep, PTL DEF BreakerSpec

LEMMA StampStep == BreakerTypeOK /\ StampPending /\ [BreakerNext]_breaker_vars => StampPending'
<1> SUFFICES ASSUME BreakerTypeOK, StampPending, [BreakerNext]_breaker_vars PROVE StampPending'
  OBVIOUS
<1> USE DEF BreakerTypeOK, Goto, shared, history, StampPending
<1>1. CASE CooldownElapses
  BY <1>1 DEF CooldownElapses
<1>2. ASSUME NEW c \in Callers, \/ Request(c) \/ ReadState(c) \/ CheckCooldown(c)
                                \/ EnterHalfOpen(c) \/ ClearSuccesses(c)
                                \/ SetProbe(c) \/ TryProbe(c)
      PROVE  StampPending'
  BY <1>2 DEF Request, ReadState, CheckCooldown, EnterHalfOpen, ClearSuccesses,
              SetProbe, TryProbe
<1>3. ASSUME NEW c \in Callers, \/ CallSucceeds(c) \/ CallFails(c) \/ CallDropped(c)
                                \/ StreamEnds(c) \/ StreamErrors(c)
      PROVE  StampPending'
  BY <1>3 DEF CallSucceeds, CallFails, CallDropped, StreamEnds, StreamErrors
<1>4. ASSUME NEW c \in Callers, \/ SuccessReadState(c) \/ SuccessCount(c)
                                \/ SuccessClose(c) \/ SuccessClearFailures(c)
                                \/ SuccessClearProbe(c)
      PROVE  StampPending'
  BY <1>4 DEF SuccessReadState, SuccessCount, SuccessClose, SuccessClearFailures,
              SuccessClearProbe, AfterSuccess
<1>5. ASSUME NEW c \in Callers, \/ FailureReadState(c) \/ FailureOpen(c)
                                \/ FailureStamp(c) \/ FailureClearProbe(c)
                                \/ FailureCount(c)
      PROVE  StampPending'
  BY <1>5 DEF FailureReadState, FailureOpen, FailureStamp, FailureClearProbe,
              FailureCount
<1>6. CASE UNCHANGED breaker_vars
  BY <1>6 DEF breaker_vars, shared, history
<1> QED BY <1>1, <1>2, <1>3, <1>4, <1>5, <1>6 DEF BreakerNext, Step

\* A breaker that is open with no call in flight has a failure time to cool
\* down from (circuit_breaker.rs:41-44, 85-86, 92-93).
THEOREM OpenStamped == BreakerSpec => []OpenHasStamp
<1>1. BreakerInit => BreakerTypeOK /\ StampPending
  BY BreakerInitType DEF BreakerInit, StampPending
<1>2. BreakerTypeOK /\ StampPending => OpenHasStamp
  BY DEF StampPending, OpenHasStamp, Quiet
<1> QED BY <1>1, <1>2, BreakerTypeStep, StampStep, PTL DEF BreakerSpec

\* Types, owned probes and pending time stamps together, in every state.
THEOREM BreakerInvariance == BreakerSpec => []BreakerInv
<1>1. BreakerInit => BreakerInv
  BY BreakerInitType DEF BreakerInit, BreakerInv, ProbeHasOwner, StampPending
<1>2. BreakerInv /\ [BreakerNext]_breaker_vars => BreakerInv'
  BY BreakerTypeStep, ProbeStep, StampStep DEF BreakerInv
<1> QED BY <1>1, <1>2, PTL DEF BreakerSpec

-----------------------------------------------------------------------------
(* Repeated failures open the breaker.  bad > 0 says that the last calls     *)
(* failed with nobody beside them: so nobody is recording a success, which   *)
(* is what would clear the count or close the breaker, and at most one       *)
(* failure is still to be recorded.                                          *)

Succeeding(c) == pc[c] \in {"ok", "ok_half", "ok_close", "ok_clear_failures",
                            "ok_clear_probe", "ok_closed"}
Failing(c) == pc[c] \in {"err", "err_open", "err_stamp", "err_clear_probe", "err_count",
                         "err_trip", "err_trip_stamp"}
Uncounted == \E c \in Callers : pc[c] \in {"err", "err_count"}

FailuresAlone ==
    bad > 0 => /\ \A c \in Callers : ~Succeeding(c)
               /\ \A c, d \in Callers : Failing(c) /\ Failing(d) => c = d

FailuresCounted ==
    bad > 0 /\ state = "Closed" =>
        IF Uncounted THEN failure_count + 1 >= bad ELSE failure_count >= bad

\* A closed breaker with too many failures is being opened, or is being cleared
\* after it was closed.
TripPending ==
    state = "Closed" /\ failure_count >= failure_threshold =>
        \E c \in Callers : pc[c] \in {"err_trip", "ok_clear_failures"}

CountInv == BreakerTypeOK /\ FailuresAlone /\ FailuresCounted /\ TripPending

LEMMA CountStep == CountInv /\ [BreakerNext]_breaker_vars => CountInv'
<1> SUFFICES ASSUME CountInv, [BreakerNext]_breaker_vars PROVE CountInv'
  OBVIOUS
<1>0. BreakerTypeOK /\ BreakerTypeOK'
  BY BreakerTypeStep DEF CountInv
<1> SUFFICES FailuresAlone' /\ FailuresCounted' /\ TripPending'
  BY <1>0 DEF CountInv
<1> USE <1>0, BreakerAssumption
    DEF CountInv, BreakerTypeOK, Goto, shared, history, FailuresAlone, FailuresCounted,
        TripPending, Uncounted, Succeeding, Failing
<1>1. CASE CooldownElapses
  BY <1>1 DEF CooldownElapses
<1>2. ASSUME NEW c \in Callers, \/ Request(c) \/ ReadState(c) \/ CheckCooldown(c)
                                \/ EnterHalfOpen(c) \/ ClearSuccesses(c)
                                \/ SetProbe(c) \/ TryProbe(c)
      PROVE  FailuresAlone' /\ FailuresCounted' /\ TripPending'
  <2>1. bad' = bad /\ failure_count' = failure_count /\ (state' = state \/ state' = "HalfOpen")
    BY <1>2 DEF Request, ReadState, CheckCooldown, EnterHalfOpen, ClearSuccesses,
                SetProbe, TryProbe
  <2>2. /\ pc[c] \in {"idle", "check", "cooldown", "open_to_half", "clear_success",
                      "set_probe", "try_probe"}
        /\ pc'[c] \in {"check", "cooldown", "open_to_half", "clear_success", "set_probe",
                       "try_probe", "calling", "idle"}
        /\ \A d \in Callers \ {c} : pc'[d] = pc[d]
    BY <1>2 DEF Request, ReadState, CheckCooldown, EnterHalfOpen, ClearSuccesses,
                SetProbe, TryProbe
  <2> QED BY <2>1, <2>2
<1>3. ASSUME NEW c \in Callers, CallSucceeds(c) \/ CallDropped(c) \/ StreamEnds(c)
      PROVE  FailuresAlone' /\ FailuresCounted' /\ TripPending'
  <2>1. /\ state' = state /\ failure_count' = failure_count /\ (bad' = 0 \/ bad' = bad)
        /\ pc[c] \in {"calling", "streaming"} /\ pc'[c] \in {"ok", "idle"}
        /\ pc'[c] = "ok" => bad' = 0
        /\ \A d \in Callers \ {c} : pc'[d] = pc[d]
    BY <1>3 DEF CallSucceeds, CallDropped, StreamEnds
  <2> QED BY <2>1
<1>4. ASSUME NEW c \in Callers, CallFails(c) \/ StreamErrors(c)
      PROVE  FailuresAlone' /\ FailuresCounted' /\ TripPending'
  <2>1. /\ state' = state /\ failure_count' = failure_count /\ bad' = Worse(c, bad)
        /\ pc[c] \in {"calling", "streaming"} /\ pc'[c] = "err"
        /\ \A d \in Callers \ {c} : pc'[d] = pc[d]
    BY <1>4 DEF CallFails, StreamErrors
  <2>2. CASE \E d \in Callers \ {c} : pc[d] # "idle"
    <3>1. bad' = 0
      BY <2>1, <2>2 DEF Worse
    <3> QED BY <2>1, <3>1
  <2>3. CASE \A d \in Callers \ {c} : pc[d] = "idle"
    <3>1. bad' <= bad + 1
      BY <2>1, <2>3 DEF Worse
    <3>2. ~Uncounted /\ Uncounted'
      BY <2>1, <2>3
    <3> QED BY <2>1, <2>3, <3>1, <3>2
  <2> QED BY <2>2, <2>3
<1>5. ASSUME NEW c \in Callers, \/ SuccessReadState(c) \/ SuccessCount(c)
                                \/ SuccessClose(c) \/ SuccessClearFailures(c)
                                \/ SuccessClearProbe(c)
      PROVE  FailuresAlone' /\ FailuresCounted' /\ TripPending'
  <2>1. Succeeding(c) /\ bad = 0 /\ bad' = 0
    BY <1>5 DEF SuccessReadState, SuccessCount, SuccessClose, SuccessClearFailures,
                SuccessClearProbe
  <2>2. TripPending'
    BY <1>5 DEF SuccessReadState, SuccessCount, SuccessClose, SuccessClearFailures,
                SuccessClearProbe, AfterSuccess
  <2> QED BY <2>1, <2>2
<1>6. ASSUME NEW c \in Callers, \/ FailureReadState(c) \/ FailureOpen(c)
                                \/ FailureStamp(c) \/ FailureClearProbe(c)
      PROVE  FailuresAlone' /\ FailuresCounted' /\ TripPending'
  <2>1. /\ bad' = bad /\ failure_count' = failure_count
        /\ state' = "Closed" => state = "Closed"
        /\ Failing(c) /\ \A d \in Callers \ {c} : pc'[d] = pc[d]
        /\ pc'[c] \in {"err_open", "err_count", "idle", "err_stamp", "err_trip_stamp",
                       "err_clear_probe"}
    BY <1>6 DEF FailureReadState, FailureOpen, FailureStamp, FailureClearProbe
  <2>2. state' = "Closed" => /\ pc[c] # "err_trip"
                             /\ pc[c] \in {"err", "err_count"} => pc'[c] = "err_count"
    BY <1>6 DEF FailureReadState, FailureOpen, FailureStamp, FailureClearProbe
  <2> QED BY <2>1, <2>2
<1>7. ASSUME NEW c \in Callers, FailureCount(c)
      PROVE  FailuresAlone' /\ FailuresCounted' /\ TripPending'
  <2>1. /\ state' = state /\ failure_count' = failure_count + 1 /\ bad' = bad
        /\ pc[c] = "err_count" /\ \A d \in Callers \ {c} : pc'[d] = pc[d]
        /\ pc'[c] = IF failure_count + 1 >= failure_threshold THEN "err_trip" ELSE "idle"
    BY <1>7 DEF FailureCount
  <2>2. FailuresAlone' /\ FailuresCounted'
    BY <2>1
  <2>3. TripPending'
    BY <2>1
  <2> QED BY <2>2, <2>3
<1>8. CASE UNCHANGED breaker_vars
  BY <1>8 DEF breaker_vars, shared, history
<1> QED BY <1>1, <1>2, <1>3, <1>4, <1>5, <1>6, <1>7, <1>8 DEF BreakerNext, Step

\* Repeated failures open the circuit (circuit_breaker.rs:88), for every threshold
\* and however the requests before and between them were interleaved.
THEOREM FailuresOpen == BreakerSpec => []RepeatedFailuresOpen
<1>1. BreakerInit => CountInv
  <2>1. BreakerInit => BreakerTypeOK
    BY BreakerInitType
  <2> QED BY <2>1, BreakerAssumption
          DEF BreakerInit, CountInv, FailuresAlone, FailuresCounted, TripPending
<1>2. CountInv => RepeatedFailuresOpen
  BY BreakerAssumption DEF CountInv, BreakerTypeOK, FailuresCounted, TripPending, Uncounted,
                           RepeatedFailuresOpen, Quiet
<1> QED BY <1>1, <1>2, CountStep, PTL DEF BreakerSpec

-----------------------------------------------------------------------------
(***************************************************************************)
(* The quota ledger, for any number of requests, any quota and any         *)
(* estimates and measured usage.                                           *)
(***************************************************************************)

(* Sums. *)

LEMMA UnitsOf ==
    ASSUME NEW amount, NEW S, NEW t
    PROVE  t \in Units(amount, S) <=> \E r \in S : t \in {r} \X (1..amount[r])
BY DEF Units

\* Only the amounts of the members count.
LEMMA SameUnits ==
    ASSUME NEW f, NEW g, NEW S, \A r \in S : f[r] = g[r]
    PROVE  Units(f, S) = Units(g, S)
BY DEF Units

LEMMA AddUnits ==
    ASSUME NEW amount, NEW S, IsFiniteSet(Units(amount, S)),
           NEW r, r \notin S, amount[r] \in Nat
    PROVE  /\ IsFiniteSet(Units(amount, S \union {r}))
           /\ Total(amount, S \union {r}) = Total(amount, S) + amount[r]
<1> DEFINE n == amount[r]
           old == Units(amount, S)
           new == {r} \X (1..n)
<1>1. Units(amount, S \union {r}) = old \union new
  <2>1. \A t : t \in Units(amount, S \union {r}) <=> t \in old \/ t \in new
    BY UnitsOf
  <2> QED BY <2>1
<1>2. IsFiniteSet(new) /\ Cardinality(new) = n
  <2>1. IsFiniteSet({r}) /\ Cardinality({r}) = 1
    BY FS_Singleton
  <2>2. IsFiniteSet(1..n) /\ Cardinality(1..n) = n
    <3>1. 1 \in Int /\ n \in Int
      OBVIOUS
    <3>2. IsFiniteSet(1..n) /\ Cardinality(1..n) = IF 1 > n THEN 0 ELSE n - 1 + 1
      BY <3>1, FS_Interval, Zenon
    <3> QED BY <3>2
  <2>3. IsFiniteSet(new) /\ Cardinality(new) = Cardinality({r}) * Cardinality(1..n)
    BY <2>1, <2>2, FS_Product, Zenon
  <2> QED BY <2>1, <2>2, <2>3
<1>3. old \cap new = {}
  BY DEF Units
<1>4. Cardinality(old) \in Nat
  BY FS_CardinalityType
<1>5. /\ IsFiniteSet(old \union new)
      /\ Cardinality(old \union new) =
           Cardinality(old) + Cardinality(new) - Cardinality(old \cap new)
  BY <1>2, FS_Union
<1>6. Cardinality(old \cap new) = 0
  BY <1>3, FS_EmptySet
<1>7. n \in Nat /\ Total(amount, S) = Cardinality(old)
  BY DEF Total
<1> HIDE DEF n, old, new
<1>8. /\ IsFiniteSet(Units(amount, S \union {r}))
      /\ Total(amount, S \union {r}) = Total(amount, S) + n
  <2>1. /\ IsFiniteSet(Units(amount, S \union {r}))
        /\ Total(amount, S \union {r}) =
             Cardinality(old) + Cardinality(new) - Cardinality(old \cap new)
    BY <1>1, <1>5, Zenon DEF Total
  <2> QED BY <1>2, <1>4, <1>6, <1>7, <2>1
<1> QED BY <1>8 DEF n

LEMMA DropUnits ==
    ASSUME NEW amount, NEW S, IsFiniteSet(Units(amount, S)),
           NEW r \in S, amount[r] \in Nat
    PROVE  /\ IsFiniteSet(Units(amount, S \ {r}))
           /\ Total(amount, S \ {r}) \in Nat
           /\ Total(amount, S) = Total(amount, S \ {r}) + amount[r]
<1>1. Units(amount, S \ {r}) \subseteq Units(amount, S)
  BY DEF Units
<1>2. IsFiniteSet(Units(amount, S \ {r}))
  BY <1>1, FS_Subset
<1>3. (S \ {r}) \union {r} = S
  OBVIOUS
<1> QED BY <1>2, <1>3, AddUnits, FS_CardinalityType DEF Total

-----------------------------------------------------------------------------
(* The inductive invariant. *)

Task(kind, r) == <<kind, r>> \in spawned

\* A task is spawned once, when the handler leaves the phase before it, and
\* it has its effect once.
TasksInv ==
    \A r \in Requests :
        /\ phase[r] \in {"new", "rejected", "executing", "streaming"} =>
               r \notin released /\ ~Task("release", r)
        /\ phase[r] # "ended" => r \notin recorded /\ ~Task("record", r)
        /\ Task("release", r) => r \notin released
        /\ Task("record", r) => r \notin recorded

\* The sums are over finitely many units, or Total would be any value.
SumsInv == /\ IsFiniteSet(Units(estimate, Outstanding))
           /\ IsFiniteSet(Units(actual, recorded))

BookInv == LedgerTypeOK /\ TasksInv /\ SumsInv /\ LedgerBalances /\ ReservedWithinQuota

LEMMA TotalTypes ==
    ASSUME SumsInv
    PROVE  Total(estimate, Outstanding) \in Nat /\ Total(actual, recorded) \in Nat
BY FS_CardinalityType DEF SumsInv, Total

\* A step that books nothing: the sums stay what they are.
LEMMA NothingBooked ==
    ASSUME BookInv, TasksInv', LedgerTypeOK', UNCHANGED <<used, estimate, released, recorded>>,
           Outstanding' = Outstanding, \A r \in recorded : actual'[r] = actual[r]
    PROVE  BookInv'
<1>1. Units(actual, recorded)' = Units(actual, recorded)
  BY SameUnits
<1>2. Units(estimate, Outstanding)' = Units(estimate, Outstanding)
  OBVIOUS
<1> QED BY <1>1, <1>2 DEF BookInv, SumsInv, LedgerBalances, ReservedWithinQuota, Total

\* A step that only records the usage of r.
LEMMA UsageBooked ==
    ASSUME BookInv, TasksInv', LedgerTypeOK', NEW r \in Requests, r \notin recorded,
           UNCHANGED <<estimate, actual>>, Outstanding' = Outstanding,
           recorded' = recorded \union {r}, used' = used + actual[r]
    PROVE  BookInv'
<1>1. actual[r] \in Nat /\ used \in Nat
  BY DEF BookInv, LedgerTypeOK
<1>2. /\ IsFiniteSet(Units(actual, recorded \union {r}))
      /\ Total(actual, recorded \union {r}) = Total(actual, recorded) + actual[r]
  BY <1>1, AddUnits DEF BookInv, SumsInv
<1>3. /\ Units(actual, recorded)' = Units(actual, recorded \union {r})
      /\ Total(actual, recorded)' = Total(actual, recorded \union {r})
      /\ Units(estimate, Outstanding)' = Units(estimate, Outstanding)
      /\ Total(estimate, Outstanding)' = Total(estimate, Outstanding)
  BY DEF Total
<1>4. Total(estimate, Outstanding) \in Nat /\ Total(actual, recorded) \in Nat
  BY TotalTypes DEF BookInv
<1> QED BY <1>1, <1>2, <1>3, <1>4 DEF BookInv, SumsInv, LedgerBalances, ReservedWithinQuota

LEMMA ReserveStep ==
    ASSUME BookInv, NEW r \in Requests, NEW e \in Estimates, TryReserve(r, e)
    PROVE  BookInv'
<1>1. phase[r] = "new" /\ r \notin released /\ e \in Nat /\ used \in Nat
  BY LedgerAssumption DEF TryReserve, PhaseMoves, BookInv, TasksInv, LedgerTypeOK
<1>2. TasksInv'
  BY <1>1 DEF BookInv, LedgerTypeOK, TasksInv, Task, TryReserve, PhaseMoves, Phases
<1>3. LedgerTypeOK'
  BY <1>1 DEF BookInv, LedgerTypeOK, TryReserve, PhaseMoves, Phases
<1>4. CASE can_afford(e)
  <2>1. /\ used' = used + e /\ estimate' = [estimate EXCEPT ![r] = e]
        /\ phase' = [phase EXCEPT ![r] = "executing"]
        /\ UNCHANGED <<actual, spawned, released, recorded>>
    BY <1>4 DEF TryReserve, PhaseMoves
  <2>2. Outstanding' = Outstanding \union {r} /\ r \notin Outstanding
    BY <1>1, <2>1 DEF Outstanding, BookInv, LedgerTypeOK
  <2>3. \A s \in Outstanding : estimate'[s] = estimate[s]
    BY <2>1, <2>2 DEF Outstanding, BookInv, LedgerTypeOK
  <2>4. estimate'[r] = e
    BY <2>1 DEF BookInv, LedgerTypeOK
  <2>5. Units(estimate', Outstanding) = Units(estimate, Outstanding)
    BY <2>3, SameUnits
  <2>6. /\ IsFiniteSet(Units(estimate', Outstanding \union {r}))
        /\ Total(estimate', Outstanding \union {r}) = Total(estimate', Outstanding) + e
    BY <1>1, <2>2, <2>4, <2>5, AddUnits DEF BookInv, SumsInv
  <2>7. Total(estimate', Outstanding) = Total(estimate, Outstanding)
    BY <2>5 DEF Total
  <2>8. /\ Units(estimate, Outstanding)' = Units(estimate', Outstanding \union {r})
        /\ Total(estimate, Outstanding)' = Total(estimate', Outstanding \union {r})
        /\ Units(actual, recorded)' = Units(actual, recorded)
        /\ Total(actual, recorded)' = Total(actual, recorded)
    BY <2>1, <2>2 DEF Total
  <2>9. Total(estimate, Outstanding) \in Nat /\ Total(actual, recorded) \in Nat
    BY TotalTypes DEF BookInv
  <2>10. SumsInv' /\ LedgerBalances'
    BY <1>1, <2>1, <2>6, <2>7, <2>8, <2>9 DEF BookInv, SumsInv, LedgerBalances
  <2>11. ReservedWithinQuota'
    <3>1. used + e <= MaxDaily /\ MaxDaily \in Nat
      BY <1>4, LedgerAssumption DEF can_afford
    <3> QED BY <1>1, <2>6, <2>7, <2>8, <2>9, <3>1
            DEF BookInv, LedgerBalances, ReservedWithinQuota
  <2> QED BY <1>2, <1>3, <2>10, <2>11 DEF BookInv
<1>5. CASE ~can_afford(e)
  <2>1. UNCHANGED <<used, estimate, actual, released, recorded>>
    BY <1>5 DEF TryReserve
  <2>2. Outstanding' = Outstanding
    BY <1>1, <1>5 DEF TryReserve, PhaseMoves, Outstanding, BookInv, LedgerTypeOK
  <2> QED BY <1>2, <1>3, <2>1, <2>2, NothingBooked
<1> QED BY <1>4, <1>5

\* The handler's other steps move the request on, note what it consumed and
\* spawn tasks.
LEMMA HandlerStep ==
    ASSUME BookInv, NEW r \in Requests, NEW a \in Nat,
           \/ ExecutionSucceeds(r, a) \/ ExecutionFails(r, a)
           \/ StreamFinishes(r, a) \/ StreamStarts(r)
    PROVE  BookInv'
<1> USE DEF PhaseMoves, DropGuard
<1>1. phase[r] \in {"executing", "streaming"} /\ r \notin recorded
      /\ phase'[r] \in {"recording", "ended", "streaming"}
      /\ phase' = [phase EXCEPT ![r] = phase'[r]]
      /\ UNCHANGED <<used, estimate, released, recorded>>
  BY DEF ExecutionSucceeds, ExecutionFails, StreamFinishes, StreamStarts, BookInv, LedgerTypeOK, TasksInv
<1>2. LedgerTypeOK'
  BY <1>1 DEF ExecutionSucceeds, ExecutionFails, StreamFinishes, StreamStarts, BookInv, LedgerTypeOK, Phases
<1>3. TasksInv'
  <2>1. CASE StreamStarts(r)
    BY <2>1 DEF StreamStarts, BookInv, LedgerTypeOK, TasksInv, Task
  <2>2. CASE ExecutionSucceeds(r, a)
    BY <2>2 DEF ExecutionSucceeds, BookInv, LedgerTypeOK, TasksInv, Task
  <2>3. CASE ExecutionFails(r, a)
    BY <2>3 DEF ExecutionFails, BookInv, LedgerTypeOK, TasksInv, Task
  <2>4. CASE StreamFinishes(r, a)
    BY <2>4 DEF StreamFinishes, BookInv, LedgerTypeOK, TasksInv, Task
  <2> QED BY <2>1, <2>2, <2>3, <2>4
<1>4. Outstanding' = Outstanding
  BY <1>1 DEF Outstanding, BookInv, LedgerTypeOK
<1>5. \A s \in recorded : actual'[s] = actual[s]
  BY <1>1 DEF ExecutionSucceeds, ExecutionFails, StreamFinishes, StreamStarts, BookInv, LedgerTypeOK
<1> QED BY <1>1, <1>2, <1>3, <1>4, <1>5, NothingBooked

LEMMA RecordsStep ==
    ASSUME BookInv, NEW r \in Requests, HandlerRecords(r) \/ RecordTask(r)
    PROVE  BookInv'
<1>1. /\ r \notin recorded /\ UNCHANGED <<estimate, actual, released>>
      /\ recorded' = recorded \union {r} /\ used' = used + actual[r]
  BY DEF HandlerRecords, RecordTask, PhaseMoves, BookInv, TasksInv, Task
<1>2. LedgerTypeOK'
  BY DEF HandlerRecords, RecordTask, PhaseMoves, BookInv, LedgerTypeOK, Phases
<1>3. TasksInv'
  BY DEF HandlerRecords, RecordTask, PhaseMoves, BookInv, LedgerTypeOK, TasksInv, Task
<1>4. Outstanding' = Outstanding
  BY DEF HandlerRecords, RecordTask, PhaseMoves, BookInv, LedgerTypeOK, Outstanding
<1> QED BY <1>1, <1>2, <1>3, <1>4, UsageBooked

LEMMA ReleaseStep ==
    ASSUME BookInv, NEW r \in Requests, ReleaseTask(r)
    PROVE  BookInv'
<1>1. /\ r \in Outstanding /\ used \in Nat /\ estimate[r] \in Nat
      /\ UNCHANGED <<phase, estimate, actual, recorded>>
  BY DEF ReleaseTask, BookInv, LedgerTypeOK, TasksInv, Task, Outstanding
<1>2. Outstanding' = Outstanding \ {r}
  BY DEF ReleaseTask, BookInv, LedgerTypeOK, Outstanding
<1>3. /\ IsFiniteSet(Units(estimate, Outstanding \ {r}))
      /\ Total(estimate, Outstanding \ {r}) \in Nat
      /\ Total(estimate, Outstanding) = Total(estimate, Outstanding \ {r}) + estimate[r]
  BY <1>1, DropUnits DEF BookInv, SumsInv
<1>4. Total(actual, recorded) \in Nat
  BY TotalTypes DEF BookInv
<1>5. used' = used - estimate[r]
  BY <1>1, <1>3, <1>4 DEF ReleaseTask, BookInv, LedgerBalances
<1>6. /\ Units(estimate, Outstanding)' = Units(estimate, Outstanding \ {r})
      /\ Total(estimate, Outstanding)' = Total(estimate, Outstanding \ {r})
      /\ Units(actual, recorded)' = Units(actual, recorded)
      /\ Total(actual, recorded)' = Total(actual, recorded)
  BY <1>1, <1>2 DEF Total
<1>7. SumsInv' /\ LedgerBalances' /\ ReservedWithinQuota'
  BY <1>1, <1>3, <1>4, <1>5, <1>6, LedgerAssumption
     DEF BookInv, SumsInv, LedgerBalances, ReservedWithinQuota
<1>8. used' \in Nat
  BY <1>1, <1>3, <1>4, <1>5 DEF BookInv, LedgerBalances
<1>9. LedgerTypeOK'
  BY <1>8 DEF ReleaseTask, BookInv, LedgerTypeOK
<1>10. TasksInv'
  BY DEF ReleaseTask, BookInv, LedgerTypeOK, TasksInv, Task
<1> QED BY <1>7, <1>9, <1>10 DEF BookInv

LEMMA BookInit == LedgerInit => BookInv
<1> SUFFICES ASSUME LedgerInit PROVE BookInv
  OBVIOUS
<1>1. LedgerTypeOK /\ TasksInv
  BY DEF LedgerInit, LedgerTypeOK, Phases, TasksInv, Task
<1>2. Units(estimate, Outstanding) = {} /\ Units(actual, recorded) = {}
  BY DEF LedgerInit, Units, Outstanding
<1>3. IsFiniteSet({}) /\ Cardinality({}) = 0
  BY FS_EmptySet
<1> QED BY <1>1, <1>2, <1>3, LedgerAssumption
        DEF LedgerInit, BookInv, SumsInv, LedgerBalances, ReservedWithinQuota, Total

LEMMA BookStep ==
    ASSUME BookInv, [LedgerNext]_ledger_vars
    PROVE  BookInv'
<1>1. ASSUME NEW r \in Requests, NEW e \in Estimates, TryReserve(r, e)
      PROVE  BookInv'
  BY <1>1, ReserveStep
<1>2. ASSUME NEW r \in Requests, NEW a \in Actuals,
             ExecutionSucceeds(r, a) \/ ExecutionFails(r, a) \/ StreamFinishes(r, a)
      PROVE  BookInv'
  BY <1>2, LedgerAssumption, HandlerStep
<1>3. ASSUME NEW r \in Requests, StreamStarts(r)
      PROVE  BookInv'
  <2>1. 0 \in Nat
    OBVIOUS
  <2> QED BY <1>3, <2>1, HandlerStep
<1>4. ASSUME NEW r \in Requests, HandlerRecords(r) \/ RecordTask(r)
      PROVE  BookInv'
  BY <1>4, RecordsStep
<1>5. ASSUME NEW r \in Requests, ReleaseTask(r)
      PROVE  BookInv'
  BY <1>5, ReleaseStep
<1>6. CASE UNCHANGED ledger_vars
  <2>1. LedgerTypeOK' /\ TasksInv' /\ Outstanding' = Outstanding
    BY <1>6 DEF ledger_vars, BookInv, LedgerTypeOK, TasksInv, Task, Outstanding
  <2> QED BY <1>6, <2>1, NothingBooked DEF ledger_vars
<1> QED BY <1>1, <1>2, <1>3, <1>4, <1>5, <1>6 DEF LedgerNext, Handler, Runtime

\* Tasks are spawned once and have their effect once, and the books balance.
THEOREM BookInvariant == LedgerSpec => []BookInv
BY BookInit, BookStep, PTL DEF LedgerSpec

-----------------------------------------------------------------------------

\* Whatever the order in which handlers and the tasks they spawned run, each
\* reservation is given back once, the used counter is what outstanding
\* reservations hold plus the recorded usage (so release never saturates), and
\* admission stays within the quota (guard.rs:55, mod.rs:48).
THEOREM LedgerBooked == LedgerSpec => []LedgerInv
<1>1. BookInv => LedgerInv
  BY DEF BookInv, LedgerInv, TasksInv, Task, ReleasedOnce, LedgerTypeOK
<1> QED BY <1>1, BookInvariant, PTL

-----------------------------------------------------------------------------
(***************************************************************************)
(* The rate limiter, for any clients, settings and times.                  *)
(*                                                                         *)
(* The cap holds because the gate lets one check at a time go on, and a    *)
(* check goes on only for a client with a bucket or with room for one; a   *)
(* cleanup can only make room.  The bound on admissions is an accounting   *)
(* argument: what a client was let through since any moment, together with *)
(* what it could still spend, never exceeds a burst and the refill since   *)
(* that moment.                                                            *)
(***************************************************************************)

(* Sums of admissions. *)

LEMMA AdmissionsOf ==
    ASSUME NEW f, NEW P, NEW x
    PROVE  x \in Admissions(f, P) <=> \E t \in P : x \in {t} \X (1..f[t])
BY DEF Admissions

LEMMA SameAdmissions ==
    ASSUME NEW f, NEW g, NEW P, \A t \in P : f[t] = g[t]
    PROVE  Admissions(f, P) = Admissions(g, P)
BY DEF Admissions

LEMMA NoAdmissions ==
    ASSUME NEW f, NEW P, \A t \in P : f[t] = 0
    PROVE  Admissions(f, P) = {} /\ Cardinality(Admissions(f, P)) = 0
<1>1. Admissions(f, P) = {}
  BY DEF Admissions
<1> QED BY <1>1, FS_EmptySet

LEMMA SubAdmissions ==
    ASSUME NEW f, NEW P, NEW Q, P \subseteq Q, IsFiniteSet(Admissions(f, Q))
    PROVE  /\ IsFiniteSet(Admissions(f, P))
           /\ Cardinality(Admissions(f, P)) \in Nat /\ Cardinality(Admissions(f, Q)) \in Nat
           /\ Cardinality(Admissions(f, P)) <= Cardinality(Admissions(f, Q))
<1>1. Admissions(f, P) \subseteq Admissions(f, Q)
  BY DEF Admissions
<1> QED BY <1>1, FS_Subset, FS_CardinalityType

LEMMA OneMoreAdmission ==
    ASSUME NEW f, NEW g, NEW P, NEW t \in P, f[t] \in Nat, g[t] = f[t] + 1,
           \A u \in P : u # t => g[u] = f[u], IsFiniteSet(Admissions(f, P))
    PROVE  /\ IsFiniteSet(Admissions(g, P))
           /\ Cardinality(Admissions(g, P)) = Cardinality(Admissions(f, P)) + 1
<1> DEFINE new == <<t, f[t] + 1>>
<1>1. f[t] \in Nat /\ g[t] = f[t] + 1 /\ \A u \in P : u # t => g[u] = f[u]
  OBVIOUS
<1>2. {t} \X (1..g[t]) = ({t} \X (1..f[t])) \union {new}
  BY <1>1
<1>3. \A x : x \in Admissions(g, P) <=> x \in Admissions(f, P) \/ x = new
  <2> SUFFICES ASSUME NEW x
               PROVE  x \in Admissions(g, P) <=> x \in Admissions(f, P) \/ x = new
    OBVIOUS
  <2>1. x \in Admissions(g, P) <=> \E u \in P : x \in {u} \X (1..g[u])
    BY AdmissionsOf
  <2>2. x \in Admissions(f, P) <=> \E u \in P : x \in {u} \X (1..f[u])
    BY AdmissionsOf
  <2>3. \A u \in P : u # t => {u} \X (1..g[u]) = {u} \X (1..f[u])
    BY <1>1
  <2> HIDE DEF new
  <2> QED BY <2>1, <2>2, <2>3, <1>2
<1>4. Admissions(g, P) = Admissions(f, P) \union {new}
  BY <1>3
<1>5. new \notin Admissions(f, P)
  BY <1>1, AdmissionsOf
<1>6. /\ IsFiniteSet(Admissions(f, P) \union {new})
      /\ Cardinality(Admissions(f, P) \union {new}) = Cardinality(Admissions(f, P)) + 1
  BY <1>5, FS_AddElement
<1> QED BY <1>4, <1>6, Zenon

-----------------------------------------------------------------------------
(* The values of the state. *)

LEMMA LimitTypes ==
    ASSUME NEW l \in Limits
    PROVE  /\ l.rate \in Nat /\ l.rate <= MaxRate /\ l.burst \in Nat /\ l.burst <= MaxBurst
           /\ l # NoCheck
BY RateAssumption DEF NoCheck

LEMMA BucketTypes ==
    ASSUME NEW b \in Buckets, clock \in Nat
    PROVE  /\ b # NoBucket /\ b.tokens \in Nat
           /\ b.last_refill \in 0..clock /\ b.last_access \in 0..clock
BY DEF Buckets, NoBucket

-----------------------------------------------------------------------------
(* The cap on the buckets. *)

\* One check at a time, and only with a bucket or with room for one.
GateInv ==
    /\ \A c, d \in Clients : checking[c] # NoCheck /\ checking[d] # NoCheck => c = d
    /\ IsFiniteSet(Tracked) /\ Cardinality(Tracked) <= MAX_BUCKETS
    /\ \A c \in Clients : checking[c] # NoCheck => c \in Tracked \/ Cardinality(Tracked) < MAX_BUCKETS

CapInv == LimiterTypeOK /\ GateInv

\* The bucket a check works on, and what it leaves.
Before(c) == IF c \in Tracked THEN buckets[c] ELSE NewBucket(checking[c])
After(c) == LET b == refill_tokens(Before(c))
            IN  [b EXCEPT !.last_access = clock,
                          !.tokens = IF b.tokens >= 1 THEN @ - 1 ELSE @]
Passes(c) == refill_tokens(Before(c)).tokens >= 1

LEMMA Decides ==
    ASSUME LimiterTypeOK, NEW c \in Clients, CheckDecides(c)
    PROVE  /\ checking[c] # NoCheck
           /\ buckets' = [buckets EXCEPT ![c] = After(c)]
           /\ admitted' = [admitted EXCEPT ![c][clock] = IF Passes(c) THEN @ + 1 ELSE @]
           /\ checking' = [checking EXCEPT ![c] = NoCheck]
           /\ UNCHANGED <<limits, clock>>
BY DEF CheckDecides, After, Before, Passes

Spent(c) == IF Passes(c) THEN 1 ELSE 0

LEMMA DecideTypes ==
    ASSUME LimiterTypeOK, NEW c \in Clients, checking[c] # NoCheck
    PROVE  /\ Before(c) \in Buckets /\ After(c) \in Buckets
           /\ After(c).last_refill = clock /\ After(c).last_access = clock
           /\ (clock - Before(c).last_refill) * limits.rate \in Nat
           /\ After(c).tokens + Spent(c) <=
                  Before(c).tokens + (clock - Before(c).last_refill) * limits.rate
           /\ After(c).tokens + Spent(c) <= MaxBurst
           /\ Spent(c) \in {0, 1}
<1> DEFINE b == Before(c)
           added == (clock - b.last_refill) * limits.rate
           r == refill_tokens(b)
<1>1. /\ clock \in Nat /\ limits \in Limits /\ limits.rate \in Nat /\ limits.burst \in Nat
      /\ limits.burst <= MaxBurst /\ MaxBurst \in Nat
  BY LimitTypes, RateAssumption DEF LimiterTypeOK
<1>2. b \in Buckets
  <2>1. CASE c \in Tracked
    BY <2>1 DEF Before, Tracked, LimiterTypeOK
  <2>2. CASE c \notin Tracked
    <3>1. checking[c] \in Limits
      BY DEF LimiterTypeOK
    <3>2. checking[c].burst \in Nat
      BY <3>1, LimitTypes
    <3> QED BY <1>1, <2>2, <3>2 DEF Before, NewBucket, Buckets
  <2> QED BY <2>1, <2>2
<1>3. /\ b.tokens \in Nat /\ b.last_refill \in 0..clock /\ b.last_access \in 0..clock
      /\ clock - b.last_refill \in Nat
  BY <1>1, <1>2, BucketTypes
<1>4. added \in Nat
  BY <1>1, <1>3
<1> HIDE DEF b
<1>5. ASSUME NEW n \in Nat, NEW k \in Nat
      PROVE  [b EXCEPT !.tokens = n, !.last_refill = k] =
                  [tokens |-> n, last_refill |-> k, last_access |-> b.last_access]
  <2> DEFINE x == [b EXCEPT !.tokens = n]
             y == [x EXCEPT !.last_refill = k]
             All == [tokens : Nat, last_refill : Nat, last_access : Nat]
  <2>1. b \in All
    BY <1>1, <1>2 DEF Buckets
  <2>2. x \in All /\ x.tokens = n /\ x.last_access = b.last_access
    BY <2>1
  <2> HIDE DEF x
  <2>3. y \in All /\ y.tokens = n /\ y.last_refill = k /\ y.last_access = b.last_access
    BY <2>2
  <2> HIDE DEF y
  <2>4. y = [tokens |-> n, last_refill |-> k, last_access |-> b.last_access]
    BY <2>3
  <2> QED BY <2>4 DEF x, y
<1>6. r = [tokens |-> Least(b.tokens + added, limits.burst), last_refill |-> clock,
           last_access |-> b.last_access]
  <2>1. b.tokens + added \in Nat
    BY <1>3, <1>4
  <2>2. Least(b.tokens + added, limits.burst) \in Nat
    BY <1>1, <2>1 DEF Least
  <2> QED BY <1>1, <1>5, <2>2 DEF refill_tokens
<1> HIDE DEF added
<1>7. r.tokens \in Nat /\ r.tokens <= b.tokens + added /\ r.tokens <= limits.burst
  BY <1>1, <1>3, <1>4, <1>6 DEF Least
<1>8. Passes(c) <=> r.tokens >= 1
  BY DEF Passes, b
<1>9. After(c) = [r EXCEPT !.last_access = clock, !.tokens = IF r.tokens >= 1 THEN @ - 1 ELSE @]
  BY DEF After, b
<1> HIDE DEF r
<1>10. After(c) = [tokens |-> IF r.tokens >= 1 THEN r.tokens - 1 ELSE r.tokens,
                   last_refill |-> clock, last_access |-> clock]
  BY <1>6, <1>9
<1>11. Spent(c) \in {0, 1} /\ After(c).tokens + Spent(c) = r.tokens /\ After(c).tokens \in Nat
  BY <1>7, <1>8, <1>10 DEF Spent
<1>12. After(c) \in Buckets
  BY <1>1, <1>7, <1>10 DEF Buckets
<1> QED BY <1>1, <1>2, <1>3, <1>4, <1>7, <1>10, <1>11, <1>12 DEF added, b

LEMMA LimiterTypeStep ==
    ASSUME LimiterTypeOK, [LimiterNext]_limiter_vars
    PROVE  LimiterTypeOK'
<1>1. clock \in Nat /\ MaxClock \in Nat
  BY RateAssumption DEF LimiterTypeOK
<1>2. ASSUME NEW c \in Clients, CheckStarts(c)
      PROVE  LimiterTypeOK'
  BY <1>2 DEF CheckStarts, LimiterTypeOK, Buckets
<1>3. ASSUME NEW c \in Clients, CheckDecides(c)
      PROVE  LimiterTypeOK'
  <2>1. After(c) \in Buckets
    BY <1>3, Decides, DecideTypes
  <2>2. /\ buckets' = [buckets EXCEPT ![c] = After(c)]
        /\ admitted' = [admitted EXCEPT ![c][clock] = IF Passes(c) THEN @ + 1 ELSE @]
        /\ checking' = [checking EXCEPT ![c] = NoCheck]
        /\ UNCHANGED <<limits, clock>>
    BY <1>3, Decides
  <2>3. admitted' \in [Clients -> [0..MaxClock -> Nat]]
    BY <1>1, <2>2 DEF LimiterTypeOK
  <2> QED BY <2>1, <2>2, <2>3 DEF LimiterTypeOK, Buckets
<1>4. CASE Cleanup
  BY <1>4 DEF Cleanup, LimiterTypeOK, Buckets
<1>5. CASE Tick
  <2>1. clock' \in 0..MaxClock /\ \A t \in 0..clock : t \in 0..clock'
    BY <1>1, <1>5 DEF Tick
  <2>2. Buckets \subseteq Buckets'
    BY <2>1 DEF Buckets
  <2> QED BY <1>5, <2>1, <2>2 DEF Tick, LimiterTypeOK
<1>6. ASSUME NEW cfg \in Limits, update_config(cfg)
      PROVE  LimiterTypeOK'
  BY <1>6 DEF update_config, LimiterTypeOK, Buckets
<1>7. CASE UNCHANGED limiter_vars
  BY <1>7 DEF limiter_vars, LimiterTypeOK, Buckets
<1> QED BY <1>2, <1>3, <1>4, <1>5, <1>6, <1>7 DEF LimiterNext

LEMMA GateStep ==
    ASSUME CapInv, [LimiterNext]_limiter_vars
    PROVE  GateInv'
<1> USE DEF CapInv
<1>1. \A l \in Limits : l # NoCheck
  BY LimitTypes
<1>2. ASSUME NEW c \in Clients, CheckStarts(c)
      PROVE  GateInv'
  <2>1. Tracked' = Tracked
    BY <1>2 DEF CheckStarts, Tracked
  <2> QED BY <1>2, <2>1 DEF CheckStarts, GateInv, GateFree, LimiterTypeOK
<1>3. ASSUME NEW c \in Clients, CheckDecides(c)
      PROVE  GateInv'
  <2>1. /\ checking[c] # NoCheck /\ checking' = [checking EXCEPT ![c] = NoCheck]
        /\ buckets' = [buckets EXCEPT ![c] = After(c)] /\ clock' = clock
    BY <1>3, Decides
  <2>2. After(c) # NoBucket
    BY <2>1, DecideTypes, BucketTypes, RateAssumption DEF LimiterTypeOK
  <2>3. Tracked' = Tracked \union {c}
    BY <2>1, <2>2 DEF Tracked, LimiterTypeOK
  <2>4. \A d \in Clients : checking'[d] = NoCheck
    BY <2>1 DEF GateInv, LimiterTypeOK
  <2>5. IsFiniteSet(Tracked) /\ Cardinality(Tracked) \in Nat
    BY FS_CardinalityType DEF GateInv
  <2>6. IsFiniteSet(Tracked)' /\ (Cardinality(Tracked) <= MAX_BUCKETS)'
    <3>1. CASE c \in Tracked
      <4>1. Tracked' = Tracked
        BY <2>3, <3>1
      <4> QED BY <4>1 DEF GateInv
    <3>2. CASE c \notin Tracked
      <4>1. /\ IsFiniteSet(Tracked \union {c})
            /\ Cardinality(Tracked \union {c}) = Cardinality(Tracked) + 1
        BY <2>5, <3>2, FS_AddElement
      <4>2. Cardinality(Tracked) < MAX_BUCKETS
        BY <2>1, <3>2 DEF GateInv
      <4> QED BY <2>3, <2>5, <4>1, <4>2, RateAssumption
    <3> QED BY <3>1, <3>2
  <2> QED BY <2>4, <2>6 DEF GateInv
<1>4. CASE Cleanup
  <2>1. Tracked' \subseteq Tracked
    BY <1>4 DEF Cleanup, Tracked, LimiterTypeOK
  <2>2. /\ IsFiniteSet(Tracked') /\ Cardinality(Tracked') <= Cardinality(Tracked)
        /\ Cardinality(Tracked) \in Nat /\ Cardinality(Tracked') \in Nat
        /\ Tracked' # Tracked => Cardinality(Tracked') < Cardinality(Tracked)
    BY <2>1, FS_Subset, FS_CardinalityType DEF GateInv
  <2>3. checking' = checking
    BY <1>4 DEF Cleanup
  <2>4. ASSUME NEW c \in Clients, checking'[c] # NoCheck
        PROVE  c \in Tracked' \/ Cardinality(Tracked') < MAX_BUCKETS
    <3>1. c \in Tracked \/ Cardinality(Tracked) < MAX_BUCKETS
      BY <2>3, <2>4 DEF GateInv
    <3>2. CASE c \in Tracked /\ c \notin Tracked'
      BY <2>2, <3>2, RateAssumption DEF GateInv
    <3>3. CASE Cardinality(Tracked) < MAX_BUCKETS
      BY <2>2, <3>3, RateAssumption
    <3> QED BY <3>1, <3>2, <3>3
  <2> QED BY <2>2, <2>3, <2>4, RateAssumption DEF GateInv
<1>5. CASE UNCHANGED <<buckets, checking>>
  <2>1. Tracked' = Tracked
    BY <1>5 DEF Tracked
  <2> QED BY <1>5, <2>1 DEF GateInv
<1> QED BY <1>2, <1>3, <1>4, <1>5 DEF LimiterNext, Tick, update_config, limiter_vars

LEMMA CapInit == LimiterInit => CapInv
<1> SUFFICES ASSUME LimiterInit PROVE CapInv
  OBVIOUS
<1>1. Tracked = {}
  BY DEF LimiterInit, Tracked
<1>2. IsFiniteSet(Tracked) /\ Cardinality(Tracked) = 0
  BY <1>1, FS_EmptySet
<1>3. LimiterTypeOK
  BY RateAssumption DEF LimiterInit, LimiterTypeOK
<1> QED BY <1>2, <1>3, RateAssumption DEF LimiterInit, CapInv, GateInv

\* One check at a time holds the gate, and it has a bucket or room for one.
THEOREM CapInvariant == LimiterSpec => []CapInv
<1>1. CapInv /\ [LimiterNext]_limiter_vars => CapInv'
  BY LimiterTypeStep, GateStep DEF CapInv
<1> QED BY CapInit, <1>1, PTL DEF LimiterSpec

\* The map of buckets is well formed and within MAX_BUCKETS at every moment of
\* a check, a cleanup and a reload: the decision and the insert are atomic under
\* the gate (rate_limit.rs:109), and a cleanup in between only removes buckets.
THEOREM BucketsWithinCap == LimiterSpec => []LimiterInv
<1>1. CapInv => LimiterInv
  BY DEF CapInv, GateInv, LimiterInv, BucketsCapped
<1> QED BY <1>1, CapInvariant, PTL

-----------------------------------------------------------------------------
(* The bound on admissions. *)

LEMMA Multiples ==
    ASSUME NEW a \in Nat, NEW b \in Nat, NEW m \in Nat
    PROVE  /\ a * m \in Nat /\ b * m \in Nat
           /\ (a + b) * m = a * m + b * m
           /\ a <= b => a * m <= b * m
OBVIOUS

Since(passed, from) == Cardinality(Admissions(passed, from..MaxClock))
Allowed(from, to) == MaxBurst + (to - from) * MaxRate

\* Two cleanup intervals refill every bucket.
Refills == \A l \in Limits : 2 * Interval * l.rate >= l.burst

\* Nothing was admitted after the last check, nor in the future.
QuietInv ==
    /\ \A c \in Clients : IsFiniteSet(Admissions(admitted[c], 0..MaxClock))
    /\ \A c \in Clients, t \in 0..MaxClock : t > clock => admitted[c][t] = 0
    /\ \A c \in Tracked : buckets[c].last_access = buckets[c].last_refill
    /\ \A c \in Tracked, t \in 0..MaxClock : t > buckets[c].last_refill => admitted[c][t] = 0

\* What a client was let through since a moment and what its bucket holds come
\* to no more than is allowed up to the last refill.
HeldInv ==
    \A c \in Tracked : \A from \in 0..buckets[c].last_refill :
        Since(admitted[c], from) + buckets[c].tokens <= Allowed(from, buckets[c].last_refill)

\* A client without a bucket may be given a full one at once.
FreshInv ==
    \A c \in Clients \ Tracked, from \in 0..clock, l \in Limits :
        Since(admitted[c], from) + l.burst <= Allowed(from, clock)

PeriodInv ==
    \A c \in Clients, from, to \in 0..MaxClock :
        from <= to => Admitted(c, from, to) <= Allowed(from, to)

RateInv == /\ LimiterTypeOK /\ QuietInv
           /\ Refills => HeldInv /\ FreshInv /\ PeriodInv

LEMMA SinceTypes ==
    ASSUME QuietInv, NEW c \in Clients, NEW from \in Nat
    PROVE  /\ Since(admitted[c], from) \in Nat
           /\ IsFiniteSet(Admissions(admitted[c], from..MaxClock))
<1>1. from..MaxClock \subseteq 0..MaxClock
  BY RateAssumption
<1> QED BY <1>1, SubAdmissions DEF QuietInv, Since

LEMMA AllowedTypes ==
    ASSUME NEW from \in Nat, NEW k \in Nat, NEW to \in Nat, from <= k, k <= to
    PROVE  /\ Allowed(from, k) \in Nat /\ Allowed(from, to) \in Nat
           /\ Allowed(from, to) = Allowed(from, k) + (to - k) * MaxRate
           /\ Allowed(from, k) <= Allowed(from, to)
<1> DEFINE a == k - from
           b == to - k
<1>1. a \in Nat /\ b \in Nat /\ a + b = to - from /\ MaxRate \in Nat /\ MaxBurst \in Nat
  BY RateAssumption
<1> HIDE DEF a, b
<1>2. a * MaxRate \in Nat /\ b * MaxRate \in Nat /\ (a + b) * MaxRate = a * MaxRate + b * MaxRate
  BY <1>1, Multiples
<1>3. /\ Allowed(from, k) = MaxBurst + a * MaxRate
      /\ Allowed(from, to) = MaxBurst + (a + b) * MaxRate
      /\ (to - k) * MaxRate = b * MaxRate
  BY <1>1 DEF Allowed, a, b
<1> QED BY <1>1, <1>2, <1>3

\* The history after a check.
LEMMA NextSince ==
    ASSUME LimiterTypeOK, QuietInv, NEW c \in Clients, CheckDecides(c)
    PROVE  /\ \A d \in Clients : d # c => admitted'[d] = admitted[d]
           /\ \A t \in 0..MaxClock : t # clock => admitted'[c][t] = admitted[c][t]
           /\ IsFiniteSet(Admissions(admitted'[c], 0..MaxClock))
           /\ \A from \in 0..clock : Since(admitted'[c], from) = Since(admitted[c], from) + Spent(c)
<1>1. /\ admitted' = [admitted EXCEPT ![c][clock] = IF Passes(c) THEN @ + 1 ELSE @]
      /\ checking[c] # NoCheck
  BY Decides
<1>2. clock \in 0..MaxClock /\ clock \in Nat /\ MaxClock \in Nat
      /\ admitted[c] \in [0..MaxClock -> Nat]
  BY RateAssumption DEF LimiterTypeOK
<1>3. admitted'[c] = [admitted[c] EXCEPT ![clock] = IF Passes(c) THEN @ + 1 ELSE @]
  BY <1>1 DEF LimiterTypeOK
<1>4. \A d \in Clients : d # c => admitted'[d] = admitted[d]
  BY <1>1 DEF LimiterTypeOK
<1>5. \A t \in 0..MaxClock : t # clock => admitted'[c][t] = admitted[c][t]
  BY <1>2, <1>3
<1>6. CASE Passes(c)
  <2>1. admitted'[c] = [admitted[c] EXCEPT ![clock] = @ + 1] /\ Spent(c) = 1
    BY <1>3, <1>6 DEF Spent
  <2>2. ASSUME NEW from \in 0..clock
        PROVE  /\ IsFiniteSet(Admissions(admitted'[c], from..MaxClock))
               /\ Since(admitted'[c], from) = Since(admitted[c], from) + 1
    <3>1. clock \in from..MaxClock /\ from..MaxClock \subseteq 0..MaxClock
      BY <1>2
    <3>2. IsFiniteSet(Admissions(admitted[c], from..MaxClock))
      BY <1>2, SinceTypes
    <3> DEFINE f == admitted[c]
               g == admitted'[c]
               P == from..MaxClock
               t == clock
    <3>3. t \in P /\ f[t] \in Nat /\ g[t] = f[t] + 1 /\ IsFiniteSet(Admissions(f, P))
      BY <1>2, <2>1, <3>1, <3>2
    <3>4. \A u \in P : u # t => g[u] = f[u]
      BY <1>5, <3>1
    <3> HIDE DEF P, f, g, t
    <3>5. /\ IsFiniteSet(Admissions(g, P))
          /\ Cardinality(Admissions(g, P)) = Cardinality(Admissions(f, P)) + 1
      BY <3>3, <3>4, OneMoreAdmission
    <3> QED BY <3>5 DEF Since, P, f, g
  <2>3. 0 \in 0..clock
    BY <1>2
  <2> QED BY <1>4, <1>5, <2>1, <2>2, <2>3
<1>7. CASE ~Passes(c)
  <2>1. admitted'[c] = admitted[c] /\ Spent(c) = 0
    BY <1>2, <1>3, <1>7 DEF Spent
  <2>2. \A from \in 0..clock : Since(admitted[c], from) \in Nat
    BY <1>2, SinceTypes
  <2> QED BY <1>4, <1>5, <2>1, <2>2 DEF QuietInv
<1> QED BY <1>6, <1>7

\* After a check, its client's bucket and history are within what is allowed
\* up to now.
LEMMA NextHeld ==
    ASSUME RateInv, Refills, NEW c \in Clients, CheckDecides(c), NEW from \in 0..clock
    PROVE  Since(admitted'[c], from) + After(c).tokens <= Allowed(from, clock)
<1> DEFINE b == Before(c)
           s == Since(admitted[c], from)
           paid == After(c).tokens + Spent(c)
           added == (clock - b.last_refill) * limits.rate
<1>1. /\ b \in Buckets /\ After(c) \in Buckets /\ checking[c] # NoCheck
      /\ added \in Nat /\ paid <= b.tokens + added /\ paid <= MaxBurst /\ Spent(c) \in {0, 1}
  BY Decides, DecideTypes DEF RateInv
<1>2. /\ clock \in Nat /\ from \in Nat /\ from <= clock /\ clock <= clock /\ s \in Nat
      /\ MaxBurst \in Nat /\ MaxRate \in Nat
  <2>1. /\ clock \in Nat /\ from \in Nat /\ from <= clock /\ clock <= clock
        /\ MaxBurst \in Nat /\ MaxRate \in Nat
    BY RateAssumption DEF RateInv, LimiterTypeOK
  <2> QED BY <2>1, SinceTypes DEF RateInv
<1>3. /\ b.tokens \in Nat /\ After(c).tokens \in Nat
      /\ b.last_refill \in Nat /\ b.last_refill <= clock
  BY <1>1, <1>2, BucketTypes
<1>4. Since(admitted'[c], from) = s + Spent(c)
  BY NextSince DEF RateInv
<1> SUFFICES s + paid <= Allowed(from, clock)
  BY <1>1, <1>2, <1>3, <1>4
<1>5. paid \in Nat
  BY <1>1, <1>3
<1>6. CASE c \in Tracked /\ from <= b.last_refill
  <2>1. s + b.tokens <= Allowed(from, b.last_refill)
    BY <1>2, <1>3, <1>6 DEF RateInv, HeldInv, Before
  <2>2. /\ Allowed(from, clock) = Allowed(from, b.last_refill) + (clock - b.last_refill) * MaxRate
        /\ Allowed(from, b.last_refill) \in Nat
    <3> DEFINE k == b.last_refill
    <3>1. k \in Nat /\ from \in Nat /\ clock \in Nat /\ from <= k /\ k <= clock
      BY <1>2, <1>3, <1>6
    <3> HIDE DEF k
    <3>2. /\ Allowed(from, clock) = Allowed(from, k) + (clock - k) * MaxRate
          /\ Allowed(from, k) \in Nat
      BY <3>1, AllowedTypes
    <3> QED BY <3>2 DEF k
  <2>3. added <= (clock - b.last_refill) * MaxRate /\ (clock - b.last_refill) * MaxRate \in Nat
    <3>1. limits.rate \in Nat /\ limits.rate <= MaxRate
      BY LimitTypes DEF RateInv, LimiterTypeOK
    <3>2. clock - b.last_refill \in Nat
      BY <1>2, <1>3
    <3>3. /\ limits.rate * (clock - b.last_refill) <= MaxRate * (clock - b.last_refill)
          /\ MaxRate * (clock - b.last_refill) \in Nat
      BY <1>2, <3>1, <3>2, Multiples
    <3> QED BY <1>2, <3>1, <3>2, <3>3
  <2> HIDE DEF paid, added, s, b
  <2> QED BY <1>1, <1>2, <1>3, <1>5, <2>1, <2>2, <2>3
<1>7. CASE c \in Tracked /\ ~(from <= b.last_refill)
  <2>1. \A t \in from..MaxClock : admitted[c][t] = 0
    <3> TAKE t \in from..MaxClock
    <3>1. t \in 0..MaxClock /\ t > b.last_refill
      BY <1>2, <1>3, <1>7, RateAssumption
    <3> QED BY <3>1, <1>7 DEF RateInv, QuietInv, Before
  <2>2. s = 0
    BY <2>1, NoAdmissions DEF Since
  <2>3. Allowed(from, clock) >= MaxBurst
    <3>1. (clock - from) * MaxRate \in Nat
      BY <1>2
    <3> QED BY <1>2, <3>1 DEF Allowed
  <2>4. Allowed(from, clock) \in Nat
    BY <1>2, AllowedTypes
  <2> HIDE DEF paid, s
  <2> QED BY <1>1, <1>2, <1>5, <2>2, <2>3, <2>4
<1>8. CASE c \notin Tracked
  <2>1. checking[c] \in Limits
    BY <1>1 DEF RateInv, LimiterTypeOK
  <2>2. b.tokens = checking[c].burst /\ b.last_refill = clock
    BY <1>8 DEF Before, NewBucket
  <2>3. s + checking[c].burst <= Allowed(from, clock)
    BY <1>8, <2>1 DEF RateInv, FreshInv
  <2>4. limits.rate \in Nat
    BY LimitTypes DEF RateInv, LimiterTypeOK
  <2>5. added = 0
    BY <1>2, <2>2, <2>4
  <2>6. Allowed(from, clock) \in Nat
    BY <1>2, AllowedTypes
  <2> HIDE DEF paid, added, s, b
  <2> QED BY <1>1, <1>2, <1>3, <1>5, <2>2, <2>3, <2>5, <2>6
<1> QED BY <1>6, <1>7, <1>8

LEMMA RateDecides ==
    ASSUME RateInv, NEW c \in Clients, CheckDecides(c)
    PROVE  RateInv'
<1>1. LimiterTypeOK'
  BY LimiterTypeStep DEF RateInv, LimiterNext
<1>2. /\ buckets' = [buckets EXCEPT ![c] = After(c)] /\ clock' = clock
      /\ After(c) \in Buckets /\ After(c) # NoBucket
      /\ After(c).last_refill = clock /\ After(c).last_access = clock
  BY Decides, DecideTypes, BucketTypes, RateAssumption DEF RateInv, LimiterTypeOK
<1>3. /\ \A d \in Clients : d # c => admitted'[d] = admitted[d]
      /\ \A t \in 0..MaxClock : t # clock => admitted'[c][t] = admitted[c][t]
      /\ IsFiniteSet(Admissions(admitted'[c], 0..MaxClock))
  BY NextSince DEF RateInv
<1>4. /\ Tracked' = Tracked \union {c} /\ buckets'[c] = After(c)
      /\ \A d \in Clients : d # c => buckets'[d] = buckets[d]
  BY <1>2 DEF Tracked, RateInv, LimiterTypeOK
<1>5. clock \in 0..MaxClock /\ clock \in Nat /\ MaxClock \in Nat
  BY RateAssumption DEF RateInv, LimiterTypeOK
<1>6. QuietInv'
  <2>1. ASSUME NEW d \in Clients
        PROVE  /\ IsFiniteSet(Admissions(admitted'[d], 0..MaxClock))
               /\ \A t \in 0..MaxClock : t > clock => admitted'[d][t] = 0
    BY <1>3, <1>5 DEF RateInv, QuietInv
  <2>2. ASSUME NEW d \in Tracked'
        PROVE  /\ buckets'[d].last_access = buckets'[d].last_refill
               /\ \A t \in 0..MaxClock : t > buckets'[d].last_refill => admitted'[d][t] = 0
    <3>1. CASE d = c
      BY <1>2, <1>4, <2>1, <3>1
    <3>2. CASE d # c
      <4>1. d \in Tracked /\ d \in Clients
        BY <1>4, <3>2 DEF Tracked
      <4> QED BY <1>3, <1>4, <3>2, <4>1 DEF RateInv, QuietInv
    <3> QED BY <3>1, <3>2
  <2> QED BY <1>2, <2>1, <2>2 DEF QuietInv
<1>7. ASSUME Refills
      PROVE  HeldInv' /\ FreshInv' /\ PeriodInv'
  <2>1. \A from \in 0..clock : Since(admitted'[c], from) + After(c).tokens <= Allowed(from, clock)
    BY <1>7, NextHeld
  <2>2. HeldInv'
    <3>1. ASSUME NEW d \in Tracked', NEW from \in 0..buckets'[d].last_refill
          PROVE  Since(admitted'[d], from) + buckets'[d].tokens <= Allowed(from, buckets'[d].last_refill)
      <4>1. CASE d = c
        BY <1>2, <1>4, <2>1, <3>1, <4>1
      <4>2. CASE d # c
        <5>1. d \in Tracked /\ d \in Clients
          BY <1>4, <3>1, <4>2 DEF Tracked
        <5> QED BY <1>3, <1>4, <1>7, <3>1, <4>2, <5>1 DEF RateInv, HeldInv
      <4> QED BY <4>1, <4>2
    <3> QED BY <3>1 DEF HeldInv
  <2>3. FreshInv'
    <3>1. ASSUME NEW d \in Clients \ Tracked', NEW from \in 0..clock, NEW l \in Limits
          PROVE  Since(admitted'[d], from) + l.burst <= Allowed(from, clock)
      <4>1. d \in Clients \ Tracked /\ d # c
        BY <1>4
      <4> QED BY <1>3, <1>7, <4>1 DEF RateInv, FreshInv
    <3> QED BY <1>2, <3>1 DEF FreshInv
  <2>4. PeriodInv'
    <3> SUFFICES ASSUME NEW d \in Clients, NEW from \in 0..MaxClock, NEW to \in 0..MaxClock,
                        from <= to
                 PROVE  Cardinality(Admissions(admitted'[d], from..to)) <= Allowed(from, to)
      BY DEF PeriodInv, Admitted
    <3>1. Cardinality(Admissions(admitted[d], from..to)) <= Allowed(from, to)
      BY <1>7 DEF RateInv, PeriodInv, Admitted
    <3>2. CASE d # c
      BY <1>3, <3>1, <3>2
    <3>3. CASE d = c /\ ~(from <= clock /\ clock <= to)
      <4>1. \A t \in from..to : admitted'[c][t] = admitted[c][t]
        BY <1>3, <1>5, <3>3
      <4>2. Admissions(admitted'[c], from..to) = Admissions(admitted[c], from..to)
        BY <4>1, SameAdmissions
      <4> QED BY <3>1, <3>3, <4>2
    <3>4. CASE d = c /\ from <= clock /\ clock <= to
      <4>1. from..to \subseteq from..MaxClock /\ from..MaxClock \subseteq 0..MaxClock
            /\ from \in 0..clock /\ from \in Nat /\ to \in Nat
        BY <1>5, <3>4
      <4>2. IsFiniteSet(Admissions(admitted'[c], from..MaxClock))
        BY <1>3, <4>1, SubAdmissions
      <4>3. /\ Cardinality(Admissions(admitted'[c], from..to)) <= Since(admitted'[c], from)
            /\ Cardinality(Admissions(admitted'[c], from..to)) \in Nat
            /\ Since(admitted'[c], from) \in Nat
        BY <4>1, <4>2, SubAdmissions DEF Since
      <4>4. Since(admitted'[c], from) + After(c).tokens <= Allowed(from, clock)
        BY <2>1, <4>1
      <4>5. After(c).tokens \in Nat
        BY <1>2, <1>5, BucketTypes
      <4>6. /\ Allowed(from, clock) \in Nat /\ Allowed(from, to) \in Nat
            /\ Allowed(from, clock) <= Allowed(from, to)
        BY <1>5, <3>4, <4>1, AllowedTypes
      <4> QED BY <3>4, <4>3, <4>4, <4>5, <4>6
    <3> QED BY <3>2, <3>3, <3>4
  <2> QED BY <2>2, <2>3, <2>4
<1> QED BY <1>1, <1>6, <1>7 DEF RateInv

\* A bucket is forgotten once the refill since its last use makes up for a full
\* one.
LEMMA RateCleans ==
    ASSUME RateInv, Cleanup
    PROVE  RateInv'
<1>1. LimiterTypeOK'
  BY LimiterTypeStep DEF RateInv, LimiterNext
<1>2. UNCHANGED <<clock, admitted>> /\ clock \in Nat
  BY RateAssumption DEF Cleanup, RateInv, LimiterTypeOK
<1>3. \A d \in Tracked' : d \in Tracked /\ buckets'[d] = buckets[d]
  BY DEF Cleanup, Tracked, RateInv, LimiterTypeOK
<1>4. \A d \in Clients \ Tracked' : d \in Tracked => IsStale(buckets[d])
  BY DEF Cleanup, Tracked, RateInv, LimiterTypeOK
<1>5. QuietInv'
  BY <1>2, <1>3 DEF RateInv, QuietInv
<1>6. ASSUME Refills
      PROVE  HeldInv' /\ FreshInv' /\ PeriodInv'
  <2>1. HeldInv'
    BY <1>2, <1>3, <1>6 DEF RateInv, HeldInv
  <2>2. PeriodInv'
    BY <1>2, <1>6 DEF RateInv, PeriodInv, Admitted
  <2>3. ASSUME NEW d \in Clients \ Tracked', NEW from \in 0..clock, NEW l \in Limits
        PROVE  Since(admitted[d], from) + l.burst <= Allowed(from, clock)
    <3>1. CASE d \notin Tracked
      BY <1>6, <3>1 DEF RateInv, FreshInv
    <3>2. CASE d \in Tracked
      <4> DEFINE k == buckets[d].last_refill
                 idle == clock - k
      <4>1. /\ buckets[d].tokens \in Nat /\ k \in Nat /\ k <= clock
            /\ buckets[d].last_access = k /\ from \in Nat /\ from <= clock /\ clock <= clock
        BY <1>2, <3>2, BucketTypes DEF RateInv, LimiterTypeOK, QuietInv, Tracked
      <4>2. idle \in Nat /\ idle >= 2 * Interval /\ Interval \in Nat
        BY <1>2, <1>4, <3>2, <4>1, RateAssumption DEF IsStale
      <4>3. /\ l.burst \in Nat /\ l.rate \in Nat /\ l.rate <= MaxRate
            /\ MaxRate \in Nat /\ MaxBurst \in Nat /\ l.burst <= MaxBurst
        BY LimitTypes, RateAssumption
      <4>4. l.burst <= idle * MaxRate /\ idle * MaxRate \in Nat
        <5>1. l.burst <= 2 * Interval * l.rate
          BY <1>6 DEF Refills
        <5> HIDE DEF idle
        <5> DEFINE two == 2 * Interval
        <5>2. two \in Nat /\ two <= idle
          BY <4>2
        <5> HIDE DEF two
        <5>3. two * l.rate <= idle * l.rate /\ two * l.rate \in Nat /\ idle * l.rate \in Nat
          BY <4>2, <4>3, <5>2, Multiples
        <5>4. l.rate * idle <= MaxRate * idle /\ MaxRate * idle \in Nat
          BY <4>2, <4>3, Multiples
        <5>5. l.rate * idle = idle * l.rate /\ MaxRate * idle = idle * MaxRate
          BY <4>2, <4>3
        <5>6. l.burst <= two * l.rate
          BY <5>1 DEF two
        <5> QED BY <4>3, <5>3, <5>4, <5>5, <5>6
      <4>5. Since(admitted[d], from) \in Nat
        BY <4>1, SinceTypes DEF RateInv
      <4>6. CASE from <= k
        <5>1. Since(admitted[d], from) + buckets[d].tokens <= Allowed(from, k)
          BY <1>6, <3>2, <4>1, <4>6 DEF RateInv, HeldInv
        <5>2. Allowed(from, clock) = Allowed(from, k) + idle * MaxRate /\ Allowed(from, k) \in Nat
          BY <1>2, <4>1, <4>6, AllowedTypes
        <5> HIDE DEF idle, k
        <5> QED BY <4>1, <4>3, <4>4, <4>5, <5>1, <5>2
      <4>7. CASE ~(from <= k)
        <5>1. \A t \in from..MaxClock : admitted[d][t] = 0
          <6> TAKE t \in from..MaxClock
          <6>1. t \in 0..MaxClock /\ t > k
            BY <4>1, <4>7, RateAssumption
          <6> QED BY <3>2, <6>1 DEF RateInv, QuietInv
        <5>2. Since(admitted[d], from) = 0
          BY <5>1, NoAdmissions DEF Since
        <5>3. (clock - from) * MaxRate \in Nat
          BY <1>2, <4>1, <4>3
        <5> QED BY <4>3, <5>2, <5>3 DEF Allowed
      <4> QED BY <4>6, <4>7
    <3> QED BY <3>1, <3>2
  <2>4. FreshInv'
    BY <1>2, <2>3 DEF FreshInv
  <2> QED BY <2>1, <2>2, <2>4
<1> QED BY <1>1, <1>5, <1>6 DEF RateInv

LEMMA RateTicks ==
    ASSUME RateInv, Tick
    PROVE  RateInv'
<1>1. LimiterTypeOK'
  BY LimiterTypeStep DEF RateInv, LimiterNext
<1>2. /\ clock' = clock + 1 /\ UNCHANGED <<buckets, admitted>> /\ Tracked' = Tracked
      /\ clock \in Nat /\ clock' \in Nat /\ clock' <= MaxClock /\ MaxClock \in Nat
  BY RateAssumption DEF Tick, Tracked, RateInv, LimiterTypeOK
<1>3. QuietInv'
  BY <1>2 DEF RateInv, QuietInv
<1>4. ASSUME Refills
      PROVE  HeldInv' /\ FreshInv' /\ PeriodInv'
  <2>1. HeldInv' /\ PeriodInv'
    BY <1>2, <1>4 DEF RateInv, HeldInv, PeriodInv, Admitted
  <2>2. ASSUME NEW d \in Clients \ Tracked, NEW from \in 0..clock', NEW l \in Limits
        PROVE  Since(admitted[d], from) + l.burst <= Allowed(from, clock')
    <3>1. from \in Nat /\ MaxRate \in Nat /\ MaxBurst \in Nat
          /\ l.burst \in Nat /\ l.burst <= MaxBurst
      BY <1>2, LimitTypes, RateAssumption
    <3>2. CASE from <= clock
      <4>1. Since(admitted[d], from) + l.burst <= Allowed(from, clock)
        BY <1>2, <1>4, <3>1, <3>2 DEF RateInv, FreshInv
      <4>2. clock <= clock'
        BY <1>2
      <4>3. /\ Allowed(from, clock) <= Allowed(from, clock')
            /\ Allowed(from, clock) \in Nat /\ Allowed(from, clock') \in Nat
        BY <1>2, <3>1, <3>2, <4>2, AllowedTypes
      <4>4. Since(admitted[d], from) \in Nat
        BY <3>1, SinceTypes DEF RateInv
      <4> QED BY <3>1, <4>1, <4>3, <4>4
    <3>3. CASE ~(from <= clock)
      <4>1. \A t \in from..MaxClock : admitted[d][t] = 0
        BY <1>2, <3>1, <3>3 DEF RateInv, QuietInv
      <4>2. Since(admitted[d], from) = 0
        BY <4>1, NoAdmissions DEF Since
      <4>3. from = clock'
        BY <1>2, <3>1, <3>3
      <4>4. Allowed(from, clock') = MaxBurst
        BY <1>2, <3>1, <4>3 DEF Allowed
      <4> QED BY <3>1, <4>2, <4>4
    <3> QED BY <3>2, <3>3
  <2>3. FreshInv'
    BY <1>2, <2>2 DEF FreshInv
  <2> QED BY <2>1, <2>3
<1> QED BY <1>1, <1>3, <1>4 DEF RateInv

LEMMA RateStep ==
    ASSUME RateInv, [LimiterNext]_limiter_vars
    PROVE  RateInv'
<1>1. LimiterTypeOK'
  BY LimiterTypeStep DEF RateInv
<1>2. CASE UNCHANGED <<buckets, clock, admitted>>
  <2>1. Tracked' = Tracked
    BY <1>2 DEF Tracked
  <2>2. QuietInv' /\ (HeldInv => HeldInv') /\ (FreshInv => FreshInv') /\ (PeriodInv => PeriodInv')
    BY <1>2, <2>1 DEF RateInv, QuietInv, HeldInv, FreshInv, PeriodInv, Admitted
  <2> QED BY <1>1, <2>2 DEF RateInv
<1>3. ASSUME NEW c \in Clients, CheckDecides(c)
      PROVE  RateInv'
  BY <1>3, RateDecides
<1> QED BY <1>2, <1>3, RateCleans, RateTicks DEF LimiterNext, CheckStarts, update_config, limiter_vars

LEMMA RateInit == LimiterInit => RateInv
<1> SUFFICES ASSUME LimiterInit PROVE RateInv
  OBVIOUS
<1>1. LimiterTypeOK
  BY CapInit DEF CapInv
<1>2. Tracked = {} /\ MaxClock \in Nat /\ MaxRate \in Nat /\ MaxBurst \in Nat
  BY RateAssumption DEF LimiterInit, Tracked
<1>3. ASSUME NEW c \in Clients, NEW P, P \subseteq 0..MaxClock
      PROVE  /\ Admissions(admitted[c], P) = {} /\ Cardinality(Admissions(admitted[c], P)) = 0
             /\ IsFiniteSet(Admissions(admitted[c], P))
  <2>1. \A t \in P : admitted[c][t] = 0
    BY <1>3 DEF LimiterInit
  <2> QED BY <2>1, NoAdmissions, FS_EmptySet
<1>4. QuietInv
  BY <1>2, <1>3 DEF QuietInv, LimiterInit
<1>5. FreshInv
  <2> SUFFICES ASSUME NEW c \in Clients, NEW from \in 0..clock, NEW l \in Limits
               PROVE  Since(admitted[c], from) + l.burst <= Allowed(from, clock)
    BY DEF FreshInv
  <2>1. from = 0 /\ clock = 0
    BY DEF LimiterInit
  <2>2. Since(admitted[c], from) = 0
    BY <1>3, <2>1 DEF Since
  <2> QED BY <1>2, <2>1, <2>2, LimitTypes DEF Allowed
<1>6. PeriodInv
  <2> SUFFICES ASSUME NEW c \in Clients, NEW from \in 0..MaxClock, NEW to \in 0..MaxClock,
                      from <= to
               PROVE  Cardinality(Admissions(admitted[c], from..to)) <= Allowed(from, to)
    BY DEF PeriodInv, Admitted
  <2>1. from..to \subseteq 0..MaxClock /\ (to - from) * MaxRate \in Nat
    BY <1>2
  <2>2. Cardinality(Admissions(admitted[c], from..to)) = 0
    BY <1>3, <2>1
  <2> QED BY <1>2, <2>1, <2>2 DEF Allowed
<1>7. HeldInv
  BY <1>2 DEF HeldInv
<1> QED BY <1>1, <1>4, <1>5, <1>6, <1>7 DEF RateInv

\* In every period a client is let through at most one burst and the refill of
\* the period, whatever reloads change the settings and whichever cleanups forget
\* its bucket, provided that two cleanup intervals refill a bucket anyway
\* (rate_limit.rs:83, 99).
THEOREM AdmissionsBounded == LimiterSpec => []AdmissionBounded
<1>1. RateInv => AdmissionBounded
  <2> SUFFICES ASSUME RateInv PROVE AdmissionBounded
    OBVIOUS
  <2>1. 0..clock \subseteq 0..MaxClock
    BY RateAssumption DEF RateInv, LimiterTypeOK
  <2> QED BY <2>1 DEF RateInv, PeriodInv, AdmissionBounded, Refills, Allowed
<1> QED BY <1>1, RateInit, RateStep, PTL DEF LimiterSpec
=============================================================================
