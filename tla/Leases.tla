------------------------------- MODULE Leases -------------------------------
(***************************************************************************)
(* ExecutionLeaseManager (crates/fusion-scheduler/src/leases.rs): leases   *)
(* on the nodes of executions, "single-worker lease exclusivity".          *)
(*                                                                         *)
(* Concurrent callers share the manager.  grant_lease reads the clock      *)
(* before it takes the write lock, and renew_lease reads the owner under a *)
(* read lock that it drops before renewing: each is two steps here, and    *)
(* any other call or tick may fall between them.  revoke_lease is one      *)
(* critical section.  A pair (execution_id, node_id) is one element of     *)
(* Tasks; the lease key adds the worker, who is also the lease's owner.    *)
(***************************************************************************)
EXTENDS Naturals, FiniteSets

CONSTANTS Tasks, Workers, Callers,
          Ttls,             \* TTLs callers request; 0 asks for the default
          DefaultTtl,       \* DEFAULT_LEASE_TTL_MS
          MaxTtl,           \* MAX_LEASE_TTL_MS
          MaxLifetime,      \* MAX_LEASE_ABSOLUTE_LIFETIME_MS
          MaxRenewals,      \* DEFAULT_MAX_RENEWALS
          MaxTime,          \* bound: last reading of the clock
          MaxEpoch          \* bound: epochs issued per task

ASSUME LeaseAssumption ==
    /\ Ttls \subseteq Nat
    /\ MaxTtl \in Nat \ {0}
    /\ DefaultTtl \in 1..MaxTtl
    /\ MaxLifetime \in Nat \ {0}
    /\ MaxRenewals \in Nat
    /\ MaxTime \in Nat
    /\ MaxEpoch \in Nat

VARIABLES leases,    \* the set of lease records, one per key (task, worker)
          epochs,    \* epoch per task; 0: no entry
          clock,     \* milliseconds since the epoch, as callers read it
          calls      \* the call each caller is in the middle of

lease_vars == <<leases, epochs, clock, calls>>

ExecutionLease ==
    [task : Tasks, worker : Workers, epoch : Nat, granted_at : Nat, ttl : 1..MaxTtl,
     is_revoked : BOOLEAN, created_at : Nat, renewal_count : 0..MaxRenewals]

Idle == [op |-> "idle"]
GrantCall == [op : {"grant"}, task : Tasks, worker : Workers, ttl : Ttls, now : Nat]
RenewCall == [op : {"renew"}, task : Tasks, worker : Workers]

LeaseTypeOK ==
    /\ leases \subseteq ExecutionLease
    /\ epochs \in [Tasks -> Nat]
    /\ clock \in Nat
    /\ calls \in [Callers -> GrantCall \union RenewCall \union {Idle}]

LeaseInit ==
    /\ leases = {}
    /\ epochs = [t \in Tasks |-> 0]
    /\ clock = 0
    /\ calls = [c \in Callers |-> Idle]

-----------------------------------------------------------------------------
is_expired(lease, now) ==
    \/ lease.is_revoked
    \/ lease.ttl > 0 /\ now >= lease.granted_at + lease.ttl

\* The lower clamp, MIN_LEASE_TTL_MS, is 1: any non-zero request meets it.
BoundedTtl(ttl) == IF ttl = 0 THEN DefaultTtl
                   ELSE IF ttl > MaxTtl THEN MaxTtl ELSE ttl

OfTask(S, t) == {l \in S : l.task = t}
WithKey(S, t, w) == {l \in S : l.task = t /\ l.worker = w}

Tick ==
    /\ clock < MaxTime
    /\ clock' = clock + 1
    /\ UNCHANGED <<leases, epochs, calls>>

GrantBegin(c, t, w, ttl) ==
    /\ calls[c] = Idle
    /\ calls' = [calls EXCEPT ![c] = [op |-> "grant", task |-> t, worker |-> w,
                                      ttl |-> ttl, now |-> clock]]
    /\ UNCHANGED <<leases, epochs, clock>>

\* What the opportunistic pruning leaves: the live leases, and the epochs of
\* tasks none of whose leases were pruned.
Live(now) == {l \in leases : ~is_expired(l, now)}
\* Faulty variant: forgets the epochs of live leases.
PrunedEpochs_live(now) ==
    [t \in Tasks |-> IF OfTask(leases, t) # {} THEN 0 ELSE epochs[t]]

PrunedEpochs(now) ==
    [t \in Tasks |-> IF \E l \in leases : l.task = t /\ is_expired(l, now)
                     THEN 0 ELSE epochs[t]]

\* Faulty variant: looks at the worker's own lease.
Conflict_own(call) == WithKey(Live(call.now), call.task, call.worker) # {}

\* An active lease of another worker on the same task.
Conflict(call) == \E l \in OfTask(Live(call.now), call.task) : l.worker # call.worker

GrantReject(c) ==
    /\ calls[c].op = "grant"
    /\ Conflict(calls[c])
    /\ leases' = Live(calls[c].now)
    /\ epochs' = PrunedEpochs(calls[c].now)
    /\ calls' = [calls EXCEPT ![c] = Idle]
    /\ UNCHANGED clock

GrantLease(c) ==
    /\ calls[c].op = "grant"
    /\ ~Conflict(calls[c])
    /\ LET call == calls[c]
           kept == Live(call.now)
           epoch == PrunedEpochs(call.now)[call.task] + 1
           lease == [task |-> call.task, worker |-> call.worker, epoch |-> epoch,
                     granted_at |-> call.now, ttl |-> BoundedTtl(call.ttl),
                     is_revoked |-> FALSE, created_at |-> call.now,
                     renewal_count |-> 0]
       IN /\ epoch <= MaxEpoch
          /\ leases' = (kept \ WithKey(kept, call.task, call.worker)) \union {lease}
          /\ epochs' = [PrunedEpochs(call.now) EXCEPT ![call.task] = epoch]
    /\ calls' = [calls EXCEPT ![c] = Idle]
    /\ UNCHANGED clock

\* renew_lease found the key under the read lock; without it the call returns
\* at once.
RenewBegin(c, t, w) ==
    /\ calls[c] = Idle
    /\ WithKey(leases, t, w) # {}
    /\ calls' = [calls EXCEPT ![c] = [op |-> "renew", task |-> t, worker |-> w]]
    /\ UNCHANGED <<leases, epochs, clock>>

\* Faulty variant: no lifetime cap.
CanRenew_forever(lease) ==
    /\ ~is_expired(lease, clock)
    /\ lease.renewal_count < MaxRenewals
    /\ lease.epoch < MaxEpoch

CanRenew(lease) ==
    /\ ~is_expired(lease, clock)
    /\ lease.renewal_count < MaxRenewals
    /\ clock - lease.created_at < MaxLifetime
    /\ lease.epoch < MaxEpoch

\* renew_lease_by, called by the lease's owner: the clock is read under the
\* lock.
RenewLease(c) ==
    /\ calls[c].op = "renew"
    /\ \E lease \in WithKey(leases, calls[c].task, calls[c].worker) :
          /\ CanRenew(lease)
          /\ leases' = (leases \ {lease}) \union
                         {[lease EXCEPT !.renewal_count = @ + 1,
                                        !.epoch = @ + 1,
                                        !.granted_at = clock]}
          /\ epochs' = [epochs EXCEPT ![lease.task] = lease.epoch + 1]
    /\ calls' = [calls EXCEPT ![c] = Idle]
    /\ UNCHANGED clock

RenewReject(c) ==
    /\ calls[c].op = "renew"
    /\ \A lease \in WithKey(leases, calls[c].task, calls[c].worker) : ~CanRenew(lease)
    /\ calls' = [calls EXCEPT ![c] = Idle]
    /\ UNCHANGED <<leases, epochs, clock>>

RevokeLease(t, w) ==
    /\ \E lease \in WithKey(leases, t, w) :
          leases' = (leases \ {lease}) \union {[lease EXCEPT !.is_revoked = TRUE]}
    /\ UNCHANGED <<epochs, clock, calls>>

LeaseNext ==
    \/ Tick
    \/ \E c \in Callers :
         \/ GrantReject(c) \/ GrantLease(c) \/ RenewLease(c) \/ RenewReject(c)
         \/ \E t \in Tasks, w \in Workers :
              \/ RenewBegin(c, t, w)
              \/ \E ttl \in Ttls : GrantBegin(c, t, w, ttl)
    \/ \E t \in Tasks, w \in Workers : RevokeLease(t, w)

LeaseSpec == LeaseInit /\ [][LeaseNext]_lease_vars

-----------------------------------------------------------------------------
\* Invariant 12, single-worker lease exclusivity (leases.rs:98): at any time
\* at most one worker has an active lease on a task, whatever clock reading
\* the grants in progress started from.
SingleWorker ==
    \A x, y \in leases :
        /\ x.task = y.task
        /\ ~is_expired(x, clock) /\ ~is_expired(y, clock)
        => x.worker = y.worker

\* The manager never keeps two records for one task, even expired ones: each
\* grant prunes or replaces the record it supersedes (leases.rs:83, 146).
OneRecordPerTask == \A x, y \in leases : x.task = y.task => x = y

\* The epoch map and the lease records agree: the epoch of a task is the one
\* its record carries, and a task without a record has no epoch
\* (leases.rs:91-96, 129, 192).
EpochsAgree ==
    /\ \A l \in leases : epochs[l.task] = l.epoch
    /\ \A t \in Tasks : OfTask(leases, t) = {} => epochs[t] = 0

\* Grants in progress carry a clock reading that is not in the future, and a
\* record was last granted less than MaxLifetime after its creation, for a
\* TTL between 1 and MaxTtl.
Bounded ==
    /\ \A c \in Callers : calls[c].op = "grant" => calls[c].now <= clock
    /\ \A l \in leases : /\ l.granted_at < l.created_at + MaxLifetime
                         /\ l.ttl \in 1..MaxTtl

\* The inductive invariant of the leases: one record for each task, carrying the
\* task's epoch, whatever the renewals and stale grants in progress
\* (leases.rs:83, 157).
LeaseInv == LeaseTypeOK /\ OneRecordPerTask /\ EpochsAgree /\ Bounded

\* No lease is immortal: the renewal cap and the clamp on the TTL bound how
\* long after its creation a lease can be active (leases.rs:117-124, 184).
LeaseMortal ==
    \A l \in leases : ~is_expired(l, clock) => clock < l.created_at + MaxLifetime + MaxTtl

\* As long as a task's lease is active its epoch only grows: an epoch is
\* forgotten only together with a lease that is no longer active.
EpochHeldWhileActive ==
    [][\A t \in Tasks : epochs'[t] < epochs[t] =>
          \A l \in OfTask(leases, t) : is_expired(l, clock)]_lease_vars

\* The workers with an active lease on each task.
ActiveHolders == [t \in Tasks |-> {l.worker : l \in {m \in OfTask(leases, t) : ~is_expired(m, clock)}}]
Service == INSTANCE LeaseService WITH holders <- ActiveHolders

\* The manager implements the service: seen through the active leases, every step,
\* a grant decided on an old reading of the clock included, hands a free task to
\* one worker, releases tasks, or changes nothing (leases.rs:71).
ImplementsService == Service!Spec
=============================================================================
