------------------------------ MODULE Sessions ------------------------------
(***************************************************************************)
(* Execution sessions and their checkpoints: the LifecycleManager that     *)
(* creates sessions, the CheckpointEngine and the ResumeEngine, and the    *)
(* two stores they may be given, InMemorySessionStore and                  *)
(* SqliteSessionStore.                                                     *)
(*                                                                         *)
(* One store is modelled; `backend' says which of the two it is, so every  *)
(* property is checked of both.  The in-memory store guards its two maps   *)
(* with two locks: the owner test of an operation and its effect are two   *)
(* steps, and another caller's operation may come between them.  The       *)
(* SQLite store runs each operation under the mutex of its one connection  *)
(* and survives a crash of the process, but deletes a session with two     *)
(* statements and no transaction.                                          *)
(*                                                                         *)
(* A snapshot is abstracted to its identity, its session and its wall      *)
(* clock stamp; the saved execution state is opaque to the stores.         *)
(***************************************************************************)
EXTENDS Naturals, Sequences, FiniteSets, SequencesExt

CONSTANTS
    Callers,     \* concurrent users of the store
    Owners,      \* owners a session can have
    Anyone,      \* the owner argument None: no ownership test
    MaxSessions, \* bound on the sessions created
    MaxCalls,    \* bound on the operations begun
    MaxTime,     \* bound on the wall clock, in milliseconds
    MaxCrashes   \* bound on the crashes of the process

Free == "free"
Gone == "absent"

ASSUME SessionsAssumption ==
    /\ Anyone \notin Owners /\ Gone \notin Owners /\ Free \notin Callers
    /\ MaxSessions \in Nat /\ MaxCalls \in Nat /\ MaxTime \in Nat
    /\ MaxCrashes \in Nat

VARIABLES
    backend,  \* "memory" or "sqlite"
    sessions, \* the session table: the owner of each session, or Gone
    rows,     \* the snapshots of each session, in the order they were stored
    lock,     \* the caller holding the SQLite connection, or Free
    call,     \* the operation each caller is in
    now,      \* SystemTime::now in milliseconds, which may be set back
    calls,    \* operations begun so far (also gives fresh snapshot identifiers)
    owned,    \* history: the owner each session was created with
    acked,    \* history: snapshots whose save returned Ok
    doomed,   \* history: sessions for which a delete has begun
    gone,     \* history: sessions whose delete returned Ok
    setbacks, \* history: the numbers of operations begun when the clock went back
    crashes   \* crashes so far

store == <<sessions, rows>>
history == <<owned, acked, doomed, gone, setbacks>>
vars == <<backend, sessions, rows, lock, call, now, calls, owned, acked,
          doomed, gone, setbacks, crashes>>

Sids == 1 .. Len(sessions)
Idle == [op |-> "idle"]

\* A snapshot as the store keeps it: its identifier, which is the number of the
\* operation that made it, its session and its time stamp; `seen' is history, the
\* number of operations that had begun when it was stored.
Row(id, sid, at, seen) == [id |-> id, sid |-> sid, at |-> at, seen |-> seen]

-----------------------------------------------------------------------------
(* Results: how a call leaves its caller.                                  *)

Returns(c, result) ==
    call' = [call EXCEPT ![c] = [op |-> "done", was |-> @.op, sid |-> @.sid,
                                 owner |-> @.owner, late |-> @.late,
                                 result |-> result]]

NotFound == [kind |-> "err"]
Done     == [kind |-> "ok"]

\* The owner test every owner-scoped operation begins with: no test when the
\* caller names no owner, and an absent session is reported like a foreign one.
Permitted(sid, owner) == owner = Anyone \/ sessions[sid] = owner

-----------------------------------------------------------------------------
(* What list_checkpoints returns.  The memory store keeps insertion order; *)
(* the SQLite store orders by timestamp, rows of the same millisecond in   *)
(* any order, and rebuilds each record from its columns.                   *)

\* Faulty variant: the query lists the newest first.
ByTimestamp_newestFirst(sid) ==
    LET mine == ToSet(rows[sid])
    IN  {s \in [1 .. Cardinality(mine) -> mine] :
            /\ \A i, j \in DOMAIN s : s[i] = s[j] => i = j
            /\ \A i, j \in DOMAIN s : i < j => s[i].at >= s[j].at}

ByTimestamp(sid) ==
    LET mine == ToSet(rows[sid])
    IN  {s \in [1 .. Cardinality(mine) -> mine] :
            /\ \A i, j \in DOMAIN s : s[i] = s[j] => i = j
            /\ \A i, j \in DOMAIN s : i < j => s[i].at =< s[j].at}

\* The record handed to the caller.  The SQLite store reads the columns
\* (snapshot_id, session_id, ...) into a tuple it then names (sid, ssid, ...)
\* and parses `ssid' as the snapshot's id and `sid' as its session's.
Rebuilt(r) ==
    IF backend = "memory"
    THEN [session_id |-> <<"session", r.sid>>, snapshot_id |-> <<"snap", r.id>>,
          row |-> r]
    ELSE [session_id |-> <<"snap", r.id>>, snapshot_id |-> <<"session", r.sid>>,
          row |-> r]

Listings(sid) == IF backend = "memory" THEN {rows[sid]} ELSE ByTimestamp(sid)

-----------------------------------------------------------------------------
Init ==
    /\ backend \in {"memory", "sqlite"}
    /\ sessions = <<>> /\ rows = <<>> /\ lock = Free
    /\ call = [c \in Callers |-> Idle]
    /\ now = 0 /\ calls = 0
    /\ owned = <<>> /\ acked = {} /\ doomed = {} /\ gone = {} /\ setbacks = {}
    /\ crashes = 0

\* LifecycleManager::create_session: a fresh identifier, one insert.
create_session(c, o) ==
    /\ call[c].op \in {"idle", "done"} /\ lock = Free
    /\ Len(sessions) < MaxSessions
    /\ sessions' = Append(sessions, o)
    /\ rows' = Append(rows, <<>>)
    /\ owned' = Append(owned, o)
    /\ UNCHANGED <<backend, lock, call, now, calls, acked, doomed, gone,
                   setbacks, crashes>>

\* A caller begins an operation on an existing or a deleted session.  A
\* checkpoint gets its identifier and its timestamp here, before the store
\* is asked to save it.
Begin(c, op, sid, owner, ver) ==
    /\ call[c].op \in {"idle", "done"}
    /\ calls < MaxCalls
    /\ call' = [call EXCEPT ![c] =
           [op |-> op, sid |-> sid, owner |-> owner, late |-> sid \in gone,
            pc |-> "start", ver |-> ver,
            snap |-> IF op = "checkpoint"
                     THEN [id |-> calls + 1, at |-> now] ELSE [id |-> 0, at |-> 0]]]
    /\ calls' = calls + 1
    /\ UNCHANGED <<backend, sessions, rows, lock, now, owned, acked, doomed,
                   gone, setbacks, crashes>>

\* What the history remembers of a save that was answered Ok.
Acked(c) == [id |-> call[c].snap.id, sid |-> call[c].sid]

At(c, op, pc) == call[c].op = op /\ call[c].pc = pc
Goto(c, pc) == call' = [call EXCEPT ![c].pc = pc]

-----------------------------------------------------------------------------
(* save_snapshot                                                           *)

\* The in-memory store tests the owner under the read lock of the session
\* map and releases it.
CheckSave(c) ==
    /\ backend = "memory" /\ At(c, "checkpoint", "start")
    /\ IF Permitted(call[c].sid, call[c].owner)
       THEN Goto(c, "write")
       ELSE Returns(c, NotFound)
    /\ UNCHANGED <<backend, store, lock, now, calls, history, crashes>>

\* The snapshot is appended to those of its session.
Stores(c) ==
    rows' = [rows EXCEPT ![call[c].sid] =
                Append(@, Row(call[c].snap.id, call[c].sid, call[c].snap.at, calls))]

\* Faulty variant of the write: the caller is answered before the push.
WriteSave_early(c) ==
    /\ backend = "memory" /\ At(c, "checkpoint", "write")
    /\ acked' = acked \union {Acked(c)}
    /\ Returns(c, Done)
    /\ UNCHANGED <<backend, store, lock, now, calls, owned, doomed, gone, setbacks,
                   crashes>>

\* ... and then pushes the snapshot, whatever became of the session.
WriteSave(c) ==
    /\ backend = "memory" /\ At(c, "checkpoint", "write")
    /\ Stores(c)
    /\ acked' = acked \union {Acked(c)}
    /\ Returns(c, Done)
    /\ UNCHANGED <<backend, sessions, lock, now, calls, owned, doomed, gone,
                   setbacks, crashes>>

\* The SQLite store does both under the connection's mutex, and the foreign
\* key refuses a snapshot of an absent session.
SqliteSave(c) ==
    /\ backend = "sqlite" /\ At(c, "checkpoint", "start") /\ lock = Free
    /\ IF /\ Permitted(call[c].sid, call[c].owner)
          /\ sessions[call[c].sid] # Gone
       THEN /\ Stores(c)
            /\ acked' = acked \union {Acked(c)}
            /\ Returns(c, Done)
       ELSE /\ Returns(c, NotFound)
            /\ UNCHANGED <<rows, acked>>
    /\ UNCHANGED <<backend, sessions, lock, now, calls, owned, doomed, gone,
                   setbacks, crashes>>

-----------------------------------------------------------------------------
(* resume_session: load_session, the version test, list_checkpoints.       *)

\* Faulty variant: the session is not looked up first.
LoadSession_skipped(c) ==
    /\ At(c, "resume", "start") /\ lock = Free
    /\ Goto(c, "list")
    /\ UNCHANGED <<backend, store, lock, now, calls, history, crashes>>

LoadSession(c) ==
    /\ At(c, "resume", "start") /\ lock = Free
    /\ IF /\ sessions[call[c].sid] # Gone
          /\ Permitted(call[c].sid, call[c].owner)
          /\ call[c].ver
       THEN Goto(c, "list")
       ELSE Returns(c, NotFound)
    /\ UNCHANGED <<backend, store, lock, now, calls, history, crashes>>

\* The in-memory list tests the owner under one lock and reads under another.
CheckList(c) ==
    /\ backend = "memory" /\ At(c, "resume", "list")
    /\ IF Permitted(call[c].sid, call[c].owner)
       THEN Goto(c, "read")
       ELSE Returns(c, NotFound)
    /\ UNCHANGED <<backend, store, lock, now, calls, history, crashes>>

\* The last of the listed checkpoints is the one resumed from.
Resumed(c) ==
    \E s \in Listings(call[c].sid) :
        Returns(c, IF s = <<>> THEN NotFound
                   ELSE [kind |-> "snapshot", snapshot |-> Rebuilt(Last(s)),
                         among |-> ToSet(s)])

ReadList(c) ==
    /\ backend = "memory" /\ At(c, "resume", "read")
    /\ Resumed(c)
    /\ UNCHANGED <<backend, store, lock, now, calls, history, crashes>>

SqliteList(c) ==
    /\ backend = "sqlite" /\ At(c, "resume", "list") /\ lock = Free
    /\ IF Permitted(call[c].sid, call[c].owner)
       THEN Resumed(c)
       ELSE Returns(c, NotFound)
    /\ UNCHANGED <<backend, store, lock, now, calls, history, crashes>>

-----------------------------------------------------------------------------
(* delete_session                                                          *)

CheckDelete(c) ==
    /\ backend = "memory" /\ At(c, "delete", "start")
    /\ IF Permitted(call[c].sid, call[c].owner)
       THEN Goto(c, "remove") /\ doomed' = doomed \union {call[c].sid}
       ELSE Returns(c, NotFound) /\ UNCHANGED doomed
    /\ UNCHANGED <<backend, store, lock, now, calls, owned, acked, gone, setbacks,
                   crashes>>

\* Both write locks are taken, then both maps lose the session.
RemoveBoth(c) ==
    /\ backend = "memory" /\ At(c, "delete", "remove")
    /\ sessions' = [sessions EXCEPT ![call[c].sid] = Gone]
    /\ rows' = [rows EXCEPT ![call[c].sid] = <<>>]
    /\ gone' = gone \union {call[c].sid}
    /\ Returns(c, Done)
    /\ UNCHANGED <<backend, lock, now, calls, owned, acked, doomed, setbacks, crashes>>

\* The first statement of the SQLite delete: the snapshots.
DeleteRows(c) ==
    /\ backend = "sqlite" /\ At(c, "delete", "start") /\ lock = Free
    /\ IF Permitted(call[c].sid, call[c].owner)
       THEN /\ rows' = [rows EXCEPT ![call[c].sid] = <<>>]
            /\ doomed' = doomed \union {call[c].sid}
            /\ lock' = c
            /\ Goto(c, "session")
       ELSE /\ Returns(c, NotFound)
            /\ UNCHANGED <<rows, doomed, lock>>
    /\ UNCHANGED <<backend, sessions, now, calls, owned, acked, gone, setbacks, crashes>>

\* The second statement: the session itself; the mutex is released.
DeleteSession(c) ==
    /\ At(c, "delete", "session") /\ lock = c
    /\ sessions' = [sessions EXCEPT ![call[c].sid] = Gone]
    /\ gone' = gone \union {call[c].sid}
    /\ lock' = Free
    /\ Returns(c, Done)
    /\ UNCHANGED <<backend, rows, now, calls, owned, acked, doomed, setbacks, crashes>>

\* A statement of the SQLite store fails: the error is returned (load_session
\* reports it as an absent session) and the guard of the mutex is dropped.  A
\* delete may by then have lost its snapshots and not its session.
SqliteFails(c) ==
    /\ backend = "sqlite" /\ call[c].op \in {"checkpoint", "resume", "delete"}
    /\ lock \in {Free, c}
    /\ lock' = Free
    /\ Returns(c, NotFound)
    /\ UNCHANGED <<backend, store, now, calls, history, crashes>>

-----------------------------------------------------------------------------
(* The environment.                                                        *)

\* The wall clock jumps ahead, or is set back.
Tick ==
    /\ \E t \in 0 .. MaxTime \ {now} : now' = t
    /\ setbacks' = IF now' < now THEN setbacks \union {calls} ELSE setbacks
    /\ UNCHANGED <<backend, store, lock, call, calls, owned, acked, doomed, gone, crashes>>

\* The process dies and is restarted: the memory store is empty again, the
\* SQLite store is what its committed statements made it.
Crash ==
    /\ crashes < MaxCrashes
    /\ crashes' = crashes + 1
    /\ call' = [c \in Callers |-> Idle]
    /\ lock' = Free
    /\ IF backend = "memory"
       THEN /\ sessions' = [s \in Sids |-> Gone]
            /\ rows' = [s \in Sids |-> <<>>] /\ acked' = {} /\ gone' = Sids
       ELSE UNCHANGED <<sessions, rows, acked, gone>>
    /\ UNCHANGED <<backend, now, calls, owned, doomed, setbacks>>

\* What a caller can ask.  Only a resume names a version.
Asks(c) ==
    \E sid \in Sids, owner \in Owners \union {Anyone} :
        \/ \E op \in {"checkpoint", "delete"} : Begin(c, op, sid, owner, TRUE)
        \/ \E ver \in BOOLEAN : Begin(c, "resume", sid, owner, ver)

\* A caller goes on with the operation it is in.
Proceeds(c) ==
    \/ CheckSave(c) \/ WriteSave(c) \/ SqliteSave(c)
    \/ LoadSession(c) \/ CheckList(c) \/ ReadList(c) \/ SqliteList(c)
    \/ CheckDelete(c) \/ RemoveBoth(c) \/ DeleteRows(c) \/ DeleteSession(c)
    \/ SqliteFails(c)

Next ==
    \/ \E c \in Callers : (\E o \in Owners : create_session(c, o)) \/ Asks(c) \/ Proceeds(c)
    \/ Tick
    \/ Crash

Spec == Init /\ [][Next]_vars

-----------------------------------------------------------------------------
\* Every variable keeps its shape: at most one caller holds the connection, and
\* only the SQLite store has one to hold.
TypeOK ==
    /\ backend \in {"memory", "sqlite"}
    /\ sessions \in Seq(Owners \union {Gone})
    /\ DOMAIN rows = Sids
    /\ \A sid \in Sids : \A i \in DOMAIN rows[sid] : rows[sid][i].id \in 1 .. calls
    /\ lock \in Callers \union {Free}
    /\ lock # Free => backend = "sqlite" /\ At(lock, "delete", "session")
    /\ acked \subseteq [id : 1 .. calls, sid : Sids]
    /\ doomed \subseteq Sids /\ gone \subseteq Sids /\ setbacks \subseteq 0 .. calls
    /\ now \in 0 .. MaxTime

Resumption(c) == call[c].op = "done" /\ call[c].result.kind = "snapshot"

\* A resume that names an owner only ever returns a checkpoint of the session it
\* asked for, and only if that session was created for that owner, although the
\* in-memory store lets go of the session map between the test and the read
\* (memory.rs:76, sqlite.rs:216).
OwnersSeeTheirOwn ==
    \A c \in Callers : Resumption(c) =>
        /\ call[c].result.snapshot.row.sid = call[c].sid
        /\ call[c].owner \in {Anyone, owned[call[c].sid]}

\* A resume passes over a checkpoint that was begun after the returned one had been
\* stored in two cases only, both of the SQLite store, which orders by wall clock
\* (sqlite.rs:232): the two have the same millisecond, or the clock was set back
\* between the beginnings of the two.  The in-memory store, which keeps the order of
\* storing, never does, whatever the clock shows (checkpoint.rs:49, 70).
ResumeNotStale ==
    \A c \in Callers : Resumption(c) =>
        LET a == call[c].result.snapshot.row
        IN  \A r \in call[c].result.among : r.id > a.seen =>
                /\ backend = "sqlite"
                /\ \/ r.at = a.at
                   \/ r.at < a.at /\ \E k \in setbacks : a.id <= k /\ k < r.id

\* Once a delete has returned Ok, no operation begun afterwards finds the session:
\* a resume fails, and so does a checkpoint that names its owner, even when a
\* racing in-memory save has left a snapshot behind (memory.rs:66).
DeletedStaysDeleted ==
    \A c \in Callers :
        (call[c].op = "done" /\ call[c].late) =>
            \/ call[c].result = NotFound
            \/ call[c].was = "delete" /\ call[c].owner = Anyone
            \/ call[c].was = "checkpoint" /\ call[c].owner = Anyone /\ backend = "memory"

\* A checkpoint whose save was answered Ok is in the store until a delete of its
\* session begins; with SQLite also across crashes of the process.
CheckpointsKept ==
    \A a \in acked :
        \/ \E i \in DOMAIN rows[a.sid] : rows[a.sid][i].id = a.id
        \/ a.sid \in doomed

\* An SQLite snapshot always belongs to a session of the table, also when a crash
\* falls between the two statements of a delete (sqlite.rs:319).
NoDanglingRows ==
    backend = "sqlite" => \A sid \in Sids : rows[sid] # <<>> => sessions[sid] # Gone

\* The store is consistent in every interleaving and after every crash: what was
\* acknowledged is there, and nothing belongs to a session that is gone.
StoreInv == TypeOK /\ CheckpointsKept /\ NoDanglingRows

\* What a resume returns belongs to the caller and is the latest checkpoint, up to
\* what the clock cannot tell apart.
ResumesRight == OwnersSeeTheirOwn /\ ResumeNotStale

\* "InMemorySessionStore and SqliteSessionStore behave identically": the resumed
\* snapshot names, whichever store is used, the session that was asked for.
StoresBehaveIdentically ==
    \A c \in Callers : Resumption(c) =>
        call[c].result.snapshot.session_id = <<"session", call[c].sid>>
=============================================================================
