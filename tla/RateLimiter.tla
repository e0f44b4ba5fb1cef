---------------------------- MODULE RateLimiter ----------------------------
(***************************************************************************)
(* The token buckets of src/middleware/rate_limit.rs.                      *)
(*                                                                         *)
(* check_rate holds the gate for the whole check; it loads the settings    *)
(* once for a new bucket and again to refill, and a reload may store other *)
(* settings in between.  The cleanup task does not take the gate.  Time is *)
(* in units in which every rate is a whole number of tokens.               *)
(***************************************************************************)
EXTENDS Integers, FiniteSets

CONSTANTS Clients,
          Limits,        \* the settings a configuration may hold: [rate, burst]
          MaxRate,       \* no configuration has a larger rate
          MaxBurst,      \* or a larger burst
          MAX_BUCKETS,
          Interval,      \* cleanup interval, read once when the task starts
          MaxClock       \* bound: time

ASSUME RateAssumption ==
    /\ MaxRate \in Nat /\ MaxBurst \in Nat
    /\ Limits \subseteq [rate : 0..MaxRate, burst : 1..MaxBurst]
    /\ MAX_BUCKETS \in Nat /\ Interval \in Nat \ {0} /\ MaxClock \in Nat

VARIABLES limits,      \* the settings in force
          buckets,     \* client to bucket, or NoBucket
          checking,    \* client to the settings its check loaded, or NoCheck
          clock,
          admitted     \* history: requests let through, by client and time

limiter_vars == <<limits, buckets, checking, clock, admitted>>

NoBucket == << >>
NoCheck == << >>
Tracked == {c \in Clients : buckets[c] # NoBucket}

LimiterInit ==
    /\ limits \in Limits
    /\ buckets = [c \in Clients |-> NoBucket]
    /\ checking = [c \in Clients |-> NoCheck]
    /\ clock = 0
    /\ admitted = [c \in Clients |-> [t \in 0..MaxClock |-> 0]]

Least(a, b) == IF a < b THEN a ELSE b

\* Faulty variant: checks of different clients run side by side.
GateFree_always == TRUE

GateFree == \A c \in Clients : checking[c] = NoCheck

\* A new client is refused when the map is full; otherwise the check goes on.
CheckStarts(c) ==
    /\ GateFree /\ checking[c] = NoCheck
    /\ c \in Tracked \/ Cardinality(Tracked) < MAX_BUCKETS
    /\ checking' = [checking EXCEPT ![c] = limits]
    /\ UNCHANGED <<limits, buckets, clock, admitted>>

NewBucket(cfg) == [tokens |-> cfg.burst, last_refill |-> clock, last_access |-> clock]

\* Faulty variant: the refill does not stop at the burst size.
refill_tokens_unbounded(b) ==
    [b EXCEPT !.tokens = @ + (clock - b.last_refill) * limits.rate, !.last_refill = clock]

refill_tokens(b) ==
    [b EXCEPT !.tokens = Least(@ + (clock - b.last_refill) * limits.rate, limits.burst),
              !.last_refill = clock]

CheckDecides(c) ==
    /\ checking[c] # NoCheck
    /\ LET b == refill_tokens(IF c \in Tracked THEN buckets[c] ELSE NewBucket(checking[c]))
           ok == b.tokens >= 1
       IN  /\ buckets' = [buckets EXCEPT ![c] =
                 [b EXCEPT !.last_access = clock, !.tokens = IF ok THEN @ - 1 ELSE @]]
           /\ admitted' = [admitted EXCEPT ![c][clock] = IF ok THEN @ + 1 ELSE @]
    /\ checking' = [checking EXCEPT ![c] = NoCheck]
    /\ UNCHANGED <<limits, clock>>

\* Two intervals without a request.
IsStale(b) == clock >= b.last_access + 2 * Interval

Cleanup ==
    /\ \E c \in Tracked : IsStale(buckets[c])
    /\ buckets' = [c \in Clients |->
                     IF c \in Tracked /\ IsStale(buckets[c]) THEN NoBucket ELSE buckets[c]]
    /\ UNCHANGED <<limits, checking, clock, admitted>>

Tick == /\ clock < MaxClock
        /\ clock' = clock + 1
        /\ UNCHANGED <<limits, buckets, checking, admitted>>

\* A reload stores other settings and leaves the buckets alone.
update_config(cfg) ==
    /\ cfg # limits
    /\ limits' = cfg
    /\ UNCHANGED <<buckets, checking, clock, admitted>>

LimiterNext == \/ \E c \in Clients : CheckStarts(c) \/ CheckDecides(c)
        \/ Cleanup \/ Tick
        \/ \E cfg \in Limits : update_config(cfg)

LimiterSpec == LimiterInit /\ [][LimiterNext]_limiter_vars

-----------------------------------------------------------------------------
Buckets == [tokens : Nat, last_refill : 0..clock, last_access : 0..clock]
LimiterTypeOK ==
    /\ limits \in Limits
    /\ buckets \in [Clients -> Buckets \union {NoBucket}]
    /\ checking \in [Clients -> Limits \union {NoCheck}]
    /\ clock \in 0..MaxClock
    /\ admitted \in [Clients -> [0..MaxClock -> Nat]]

\* However checks, cleanups and reloads interleave, the map of buckets stays
\* within its cap ("the bucket-cap decision and the insert are atomic",
\* rate_limit.rs:109).
BucketsCapped == Cardinality(Tracked) <= MAX_BUCKETS

\* The bucket map is well formed and within its cap at every moment of a check, a
\* cleanup and a reload.
LimiterInv == LimiterTypeOK /\ BucketsCapped

\* The requests of client c let through from one moment to another, counted
\* one by one.
Admissions(passed, period) == UNION {{t} \X (1..passed[t]) : t \in period}
Admitted(c, from, to) == Cardinality(Admissions(admitted[c], from..to))

\* In every period a client gets at most one burst and what the rate adds in
\* that period, through changes of the settings and forgotten buckets, as long
\* as two cleanup intervals are enough to refill a bucket anyway
\* (rate_limit.rs:83, 99).
AdmissionBounded ==
    (\A l \in Limits : 2 * Interval * l.rate >= l.burst) =>
        \A c \in Clients, from, to \in 0..clock :
            from <= to => Admitted(c, from, to) <= MaxBurst + (to - from) * MaxRate
=============================================================================
