--------------------------- MODULE SessionsProofs ---------------------------
(***************************************************************************)
(* Proofs about the session stores, for any number of callers, owners,     *)
(* sessions, calls and crashes and on either store: what was acknowledged  *)
(* is kept and nothing dangles, a resume returns the caller's own and the  *)
(* latest as far as the clock can tell, and what was deleted stays so.     *)
(*                                                                         *)
(* None of these is inductive.  The invariant adds what a caller between   *)
(* two steps has established and still relies on (InFlight), what is known *)
(* of every answer (Answered), in which order snapshots were begun and     *)
(* stored (RowsInv), and that their stamps follow the order in which they  *)
(* were begun as long as the clock is not set back (StampsInv).            *)
(***************************************************************************)
EXTENDS Sessions, SequenceTheorems, FiniteSetTheorems, TLAPS

Rows == [id : Nat, sid : Nat, at : Nat, seen : Nat]

Busies == [op : {"checkpoint", "resume", "delete"}, sid : Nat, owner : Owners \union {Anyone},
           late : BOOLEAN, pc : {"start", "write", "list", "read", "remove", "session"},
           ver : BOOLEAN, snap : [id : Nat, at : Nat]]

\* The tables and the history, and the order of the snapshots: one is stored no
\* earlier than it was begun, and after those stored before it.
RowsInv ==
    /\ backend \in {"memory", "sqlite"} /\ now \in 0 .. MaxTime /\ calls \in Nat
    /\ setbacks \subseteq 0 .. calls
    /\ sessions \in Seq(Owners \union {Gone}) /\ owned \in Seq(Owners)
    /\ rows \in Seq(Seq(Rows)) /\ Len(rows) = Len(sessions) /\ Len(owned) = Len(sessions)
    /\ \A s \in Sids : \A i \in 1 .. Len(rows[s]) :
          /\ rows[s][i].sid = s /\ rows[s][i].id \in 1 .. calls
          /\ rows[s][i].id <= rows[s][i].seen /\ rows[s][i].seen <= calls
    /\ \A s \in Sids : \A i, j \in 1 .. Len(rows[s]) :
          i <= j => rows[s][i].seen <= rows[s][j].seen

\* A session keeps its owner until it is gone, and is gone for good.
HistoryInv ==
    /\ \A s \in Sids : sessions[s] \in {owned[s], Gone}
    /\ gone \subseteq Sids /\ doomed \subseteq Sids
    /\ \A s \in gone : sessions[s] = Gone
    /\ acked \subseteq [id : 1 .. calls, sid : Sids]

\* A checkpoint that is stored or under way was the m-th operation and has stamp t.
Stamped(m, t) ==
    \/ \E s \in Sids : \E i \in 1 .. Len(rows[s]) : rows[s][i].id = m /\ rows[s][i].at = t
    \/ \E c \in Callers : /\ call[c].op = "checkpoint"
                          /\ call[c].snap.id = m /\ call[c].snap.at = t

\* The clock was not set back, at any of B, between the m-th and the n-th operation.
Steady(m, n, B) == \A k \in B : ~(m <= k /\ k < n)

\* Stamps follow the order of the operations as long as the clock is not set back.
StampsInv ==
    /\ \A m, n, t, u \in Nat :
          Stamped(m, t) /\ Stamped(n, u) /\ m < n /\ Steady(m, n, setbacks) => t <= u
    /\ \A m, t \in Nat : Stamped(m, t) => m <= calls /\ (Steady(m, calls + 1, setbacks) => t <= now)

\* What is known of a snapshot r that was listed beside the one resumed, a.
Fresher(a, r) ==
    r.id > a.seen =>
        /\ backend = "sqlite"
        /\ r.at = a.at \/ (r.at < a.at /\ \E k \in setbacks : a.id <= k /\ k < r.id)

\* What a caller between two steps of an operation relies on.
InFlight(c) ==
    LET o == call[c]
    IN  /\ o.sid \in Sids
        /\ o.op = "checkpoint" => o.snap.id \in 1 .. calls
        /\ o.late => o.sid \in gone
        /\ o.op = "resume" /\ o.pc # "start" => ~o.late /\ o.owner \in {Anyone, owned[o.sid]}
        /\ o.op = "checkpoint" /\ o.pc = "write" /\ o.late => o.owner = Anyone
        /\ o.op = "delete" /\ o.pc # "start" =>
              o.sid \in doomed /\ (o.late => o.owner = Anyone)
        /\ o.op = "delete" /\ o.pc = "session" =>
              lock = c /\ backend = "sqlite" /\ rows[o.sid] = <<>>

\* What is known of an answer.
Answered(c) ==
    LET o == call[c]
    IN  /\ o.sid \in Sids
        /\ o.result.kind = "snapshot" =>
              /\ o.result.snapshot.row.sid = o.sid
              /\ o.owner \in {Anyone, owned[o.sid]}
              /\ \A r \in o.result.among : Fresher(o.result.snapshot.row, r)
        /\ o.late =>
              \/ o.result = NotFound
              \/ o.was = "delete" /\ o.owner = Anyone
              \/ o.was = "checkpoint" /\ o.owner = Anyone /\ backend = "memory"

CallInv(c) ==
    \/ call[c] = Idle
    \/ call[c] \in Busies /\ InFlight(c)
    \/ call[c].op = "done" /\ Answered(c)

LockInv ==
    /\ lock \in Callers \union {Free}
    /\ lock # Free => /\ backend = "sqlite" /\ call[lock] \in Busies
                      /\ At(lock, "delete", "session")

SessionsInv ==
    /\ RowsInv /\ HistoryInv /\ LockInv /\ StampsInv /\ CheckpointsKept /\ NoDanglingRows
    /\ DOMAIN call = Callers /\ \A c \in Callers : CallInv(c)

-----------------------------------------------------------------------------
LEMMA SessionsInit == Init => SessionsInv
<1> SUFFICES ASSUME Init PROVE SessionsInv
  OBVIOUS
<1>1. RowsInv /\ HistoryInv
  BY SessionsAssumption DEF Init, RowsInv, HistoryInv, Sids, Rows
<1>2. LockInv /\ CheckpointsKept /\ NoDanglingRows
  BY DEF Init, LockInv, CheckpointsKept, NoDanglingRows, Sids
<1>3. DOMAIN call = Callers /\ \A c \in Callers : CallInv(c)
  BY DEF Init, CallInv
<1>4. StampsInv
  BY DEF Init, StampsInv, Stamped, Sids, Idle
<1> QED BY <1>1, <1>2, <1>3, <1>4 DEF SessionsInv

\* A step that stamps nothing keeps the order of the stamps.
LEMMA StampsKept ==
    ASSUME StampsInv, UNCHANGED <<now, calls, setbacks>>,
           \A m, t \in Nat : Stamped(m, t)' => Stamped(m, t)
    PROVE  StampsInv'
<1>1. now' = now /\ calls' = calls /\ setbacks' = setbacks
  OBVIOUS
<1> QED BY <1>1 DEF StampsInv

\* The caller has no other stamp than before.
Keeps(c) ==
    call'[c].op = "checkpoint" => call[c].op = "checkpoint" /\ call'[c].snap = call[c].snap

LEMMA CallerKeeps ==
    ASSUME SessionsInv, NEW c \in Callers, NEW r, call' = [call EXCEPT ![c] = r], Keeps(c),
           UNCHANGED <<now, calls, setbacks>>, Sids' = Sids,
           \A s \in Sids : rows'[s] = rows[s] \/ rows'[s] = <<>>
    PROVE  StampsInv'
<1>1. ASSUME NEW m \in Nat, NEW t \in Nat, Stamped(m, t)' PROVE Stamped(m, t)
  <2>1. ASSUME NEW d \in Callers, call'[d].op = "checkpoint"
        PROVE  call[d].op = "checkpoint" /\ call'[d].snap = call[d].snap
    <3>1. CASE d = c
      BY <2>1, <3>1 DEF Keeps
    <3>2. CASE d # c
      BY <2>1, <3>2 DEF SessionsInv
    <3> QED BY <3>1, <3>2
  <2>2. ASSUME NEW s \in Sids, NEW i \in 1 .. Len(rows'[s]) PROVE rows'[s] = rows[s]
    BY <2>2
  <2>3. CASE \E d \in Callers : /\ call'[d].op = "checkpoint"
                                /\ call'[d].snap.id = m /\ call'[d].snap.at = t
    BY <2>1, <2>3 DEF Stamped
  <2>4. CASE \E s \in Sids : \E i \in 1 .. Len(rows'[s]) : rows'[s][i].id = m /\ rows'[s][i].at = t
    BY <2>2, <2>4 DEF Stamped
  <2> QED BY <1>1, <2>3, <2>4 DEF Stamped
<1> QED BY <1>1, StampsKept DEF SessionsInv

\* A caller that does nothing keeps what it relies on while the others go on: no
\* session disappears from the tables, time and history grow, and the holder of
\* the connection keeps it, with the snapshots of its session deleted.
LEMMA CallKept ==
    ASSUME NEW c \in Callers, CallInv(c), call'[c] = call[c], backend' = backend,
           Sids \subseteq Sids', \A s \in Sids : owned'[s] = owned[s],
           calls \in Nat, calls' \in Nat, calls <= calls', setbacks \subseteq setbacks',
           gone \subseteq gone', doomed \subseteq doomed',
           lock = c => lock' = c,
           \A s \in Sids : rows[s] = <<>> /\ lock = c => rows'[s] = <<>>
    PROVE  CallInv(c)'
<1>1. CASE call[c] = Idle
  BY <1>1 DEF CallInv
<1>2. CASE call[c] \in Busies /\ InFlight(c)
  <2>1. call[c].snap.at \in Nat /\ call[c].snap.id \in Nat
    BY <1>2 DEF Busies
  <2>2. InFlight(c)'
    BY <1>2, <2>1 DEF InFlight
  <2> QED BY <1>2, <2>2 DEF CallInv
<1>3. CASE call[c].op = "done" /\ Answered(c)
  <2>1. Answered(c)'
    BY <1>3 DEF Answered, NotFound, Fresher
  <2> QED BY <1>3, <2>1 DEF CallInv
<1> QED BY <1>1, <1>2, <1>3 DEF CallInv

\* What every step keeps and what it only lets grow.
Grows ==
    /\ backend' = backend /\ Sids \subseteq Sids'
    /\ \A s \in Sids : owned'[s] = owned[s]
    /\ setbacks \subseteq setbacks'
    /\ calls \in Nat /\ calls' \in Nat /\ calls <= calls'
    /\ gone \subseteq gone' /\ doomed \subseteq doomed'

LEMMA OthersKept ==
    ASSUME SessionsInv, Grows, NEW c \in Callers, NEW r, call' = [call EXCEPT ![c] = r],
           \A d \in Callers : d # c /\ lock = d =>
               lock' = d /\ \A s \in Sids : rows[s] = <<>> => rows'[s] = <<>>,
           CallInv(c)'
    PROVE  DOMAIN call' = Callers /\ \A d \in Callers : CallInv(d)'
<1>1. DOMAIN call' = Callers
  BY DEF SessionsInv
<1>2. ASSUME NEW d \in Callers, d # c PROVE CallInv(d)'
  <2>1. call'[d] = call[d] /\ CallInv(d)
    BY <1>2 DEF SessionsInv
  <2> QED BY <1>2, <2>1, CallKept DEF Grows
<1> QED BY <1>1, <1>2

\* A step that only moves its caller, and may doom a session.
LEMMA OnlyMoves ==
    ASSUME SessionsInv, NEW c \in Callers, NEW r, call' = [call EXCEPT ![c] = r],
           UNCHANGED <<backend, store, lock, now, calls, owned, acked, gone, setbacks>>,
           doomed \subseteq doomed', doomed' \subseteq Sids, lock # c,
           CallInv(c)', Keeps(c)
    PROVE  SessionsInv'
<1> USE DEF store
<1>1. RowsInv' /\ HistoryInv'
  <2>1. RowsInv /\ HistoryInv
    BY DEF SessionsInv
  <2> QED BY <2>1 DEF RowsInv, HistoryInv, Sids
<1>2. LockInv'
  BY DEF SessionsInv, LockInv, At
<1>3. CheckpointsKept' /\ NoDanglingRows'
  BY DEF SessionsInv, CheckpointsKept, NoDanglingRows, Sids
<1>4. Grows
  BY DEF SessionsInv, RowsInv, Grows, Sids
<1>5. DOMAIN call' = Callers /\ \A d \in Callers : CallInv(d)'
  BY <1>4, OthersKept
<1>6. StampsInv'
  <2>1. Sids' = Sids
    BY DEF Sids
  <2> QED BY <2>1, CallerKeeps
<1> QED BY <1>1, <1>2, <1>3, <1>5, <1>6 DEF SessionsInv

\* A caller in an operation, and the two ways its step leaves it.
LEMMA BusyCall ==
    ASSUME SessionsInv, NEW c \in Callers, call[c].op \in {"checkpoint", "resume", "delete"}
    PROVE  /\ call[c] \in Busies /\ InFlight(c) /\ call[c].sid \in Sids
           /\ call[c].sid \in Nat /\ call[c].late \in BOOLEAN
           /\ call[c].snap.id \in Nat /\ call[c].snap.at \in Nat
           /\ sessions[call[c].sid] \in {owned[call[c].sid], Gone}
           /\ call[c].late => sessions[call[c].sid] = Gone
           /\ lock = c => call[c].op = "delete" /\ call[c].pc = "session"
<1>1. call[c] \in Busies /\ InFlight(c)
  BY DEF SessionsInv, CallInv, Idle
<1>2. call[c].sid \in Sids /\ call[c].late \in BOOLEAN /\ call[c].sid \in Nat
      /\ call[c].snap.id \in Nat /\ call[c].snap.at \in Nat
  BY <1>1 DEF InFlight, Busies
<1>3. /\ sessions[call[c].sid] \in {owned[call[c].sid], Gone}
      /\ call[c].late => sessions[call[c].sid] = Gone
  BY <1>1, <1>2 DEF SessionsInv, HistoryInv, InFlight
<1>4. lock = c => call[c].op = "delete" /\ call[c].pc = "session"
  BY SessionsAssumption DEF SessionsInv, LockInv, At
<1> QED BY <1>1, <1>2, <1>3, <1>4

DoneAs(c, result) ==
    [op |-> "done", was |-> call[c].op, sid |-> call[c].sid, owner |-> call[c].owner,
     late |-> call[c].late, result |-> result]

LEMMA ReturnsAs ==
    ASSUME SessionsInv, NEW c \in Callers, NEW result, Returns(c, result)
    PROVE  call' = [call EXCEPT ![c] = DoneAs(c, result)] /\ call'[c] = DoneAs(c, result)
BY DEF SessionsInv, Returns, DoneAs

LEMMA GotoAs ==
    ASSUME SessionsInv, NEW c \in Callers, NEW pc, Goto(c, pc)
    PROVE  /\ call' = [call EXCEPT ![c] = [call[c] EXCEPT !.pc = pc]]
           /\ call'[c] = [call[c] EXCEPT !.pc = pc]
BY DEF SessionsInv, Goto

\* An error can always be answered.
LEMMA RefusedCall ==
    ASSUME SessionsInv, NEW c \in Callers, call[c].op \in {"checkpoint", "resume", "delete"},
           Returns(c, NotFound), Sids' = Sids
    PROVE  CallInv(c)' /\ Keeps(c)
<1>1. call'[c] = DoneAs(c, NotFound)
  BY ReturnsAs
<1>2. call[c].sid \in Sids
  BY BusyCall
<1> QED BY <1>1, <1>2 DEF CallInv, Answered, DoneAs, NotFound, Keeps

\* A caller goes on to its next step with what the step has established.
LEMMA MovedCall ==
    ASSUME SessionsInv, NEW c \in Callers, call[c].op \in {"checkpoint", "resume", "delete"},
           NEW pc \in {"start", "write", "list", "read", "remove", "session"}, Goto(c, pc),
           InFlight(c)'
    PROVE  CallInv(c)' /\ Keeps(c)
<1>1. call'[c] = [call[c] EXCEPT !.pc = pc] /\ call[c] \in Busies
  BY GotoAs, BusyCall
<1>2. call'[c] \in Busies /\ Keeps(c)
  BY <1>1 DEF Busies, Keeps
<1> QED BY <1>2 DEF CallInv

-----------------------------------------------------------------------------
(* The steps that only move their caller. *)

LEMMA CheckSaveInv == ASSUME SessionsInv, NEW c \in Callers, CheckSave(c) PROVE SessionsInv'
<1>1. call[c].op = "checkpoint" /\ call[c].pc = "start" /\ UNCHANGED <<backend, store, lock, now, calls, history>>
  BY DEF CheckSave, At
<1>2. UNCHANGED <<backend, sessions, rows, lock, now, calls, owned, acked, gone, doomed, setbacks>>
  BY <1>1 DEF store, history
<1>3. doomed \subseteq Sids /\ lock # c /\ Sids' = Sids
  BY <1>1, <1>2, BusyCall DEF SessionsInv, HistoryInv, Sids
<1>4. CASE Permitted(call[c].sid, call[c].owner) /\ Goto(c, "write")
  <2>1. call'[c] = [call[c] EXCEPT !.pc = "write"] /\ call[c] \in Busies /\ InFlight(c)
    BY <1>1, <1>4, GotoAs, BusyCall
  <2>2. call[c].late => call[c].owner = Anyone
    <3>1. call[c].late => sessions[call[c].sid] = Gone
      BY <1>1, BusyCall
    <3>2. call[c].owner \in Owners \union {Anyone}
      BY <2>1 DEF Busies
    <3> QED BY <1>4, <3>1, <3>2, SessionsAssumption DEF Permitted
  <2>3. InFlight(c)'
    BY <1>1, <1>2, <2>1, <2>2 DEF InFlight, Busies, Sids
  <2>4. CallInv(c)' /\ Keeps(c)
    BY <1>1, <1>4, <2>3, MovedCall
  <2> QED BY <1>2, <1>3, <1>4, <2>4, GotoAs, OnlyMoves DEF store
<1>5. CASE Returns(c, NotFound)
  <2>1. CallInv(c)' /\ Keeps(c)
    BY <1>1, <1>3, <1>5, RefusedCall
  <2> QED BY <1>2, <1>3, <1>5, <2>1, ReturnsAs, OnlyMoves DEF store
<1> QED BY <1>4, <1>5 DEF CheckSave

LEMMA LoadSessionInv == ASSUME SessionsInv, NEW c \in Callers, LoadSession(c) PROVE SessionsInv'
<1>1. call[c].op = "resume" /\ call[c].pc = "start" /\ UNCHANGED <<backend, store, lock, now, calls, history>>
  BY DEF LoadSession, At
<1>2. UNCHANGED <<backend, sessions, rows, lock, now, calls, owned, acked, gone, doomed, setbacks>>
  BY <1>1 DEF store, history
<1>3. doomed \subseteq Sids /\ lock # c /\ Sids' = Sids
  BY <1>1, <1>2, BusyCall DEF SessionsInv, HistoryInv, Sids
<1>4. CASE /\ sessions[call[c].sid] # Gone /\ Permitted(call[c].sid, call[c].owner)
           /\ Goto(c, "list")
  <2>1. call'[c] = [call[c] EXCEPT !.pc = "list"] /\ call[c] \in Busies /\ InFlight(c)
    BY <1>1, <1>4, GotoAs, BusyCall
  <2>2. ~call[c].late /\ call[c].owner \in {Anyone, owned[call[c].sid]}
    BY <1>1, <1>4, BusyCall DEF Permitted
  <2>3. InFlight(c)'
    BY <1>1, <1>2, <2>1, <2>2 DEF InFlight, Busies, Sids
  <2>4. CallInv(c)' /\ Keeps(c)
    BY <1>1, <1>4, <2>3, MovedCall
  <2> QED BY <1>2, <1>3, <1>4, <2>4, GotoAs, OnlyMoves DEF store
<1>5. CASE Returns(c, NotFound)
  <2>1. CallInv(c)' /\ Keeps(c)
    BY <1>1, <1>3, <1>5, RefusedCall
  <2> QED BY <1>2, <1>3, <1>5, <2>1, ReturnsAs, OnlyMoves DEF store
<1> QED BY <1>4, <1>5 DEF LoadSession

LEMMA CheckListInv == ASSUME SessionsInv, NEW c \in Callers, CheckList(c) PROVE SessionsInv'
<1>1. call[c].op = "resume" /\ call[c].pc = "list" /\ UNCHANGED <<backend, store, lock, now, calls, history>>
  BY DEF CheckList, At
<1>2. UNCHANGED <<backend, sessions, rows, lock, now, calls, owned, acked, gone, doomed, setbacks>>
  BY <1>1 DEF store, history
<1>3. doomed \subseteq Sids /\ lock # c /\ Sids' = Sids
  BY <1>1, <1>2, BusyCall DEF SessionsInv, HistoryInv, Sids
<1>4. CASE Goto(c, "read")
  <2>1. call'[c] = [call[c] EXCEPT !.pc = "read"] /\ call[c] \in Busies /\ InFlight(c)
    BY <1>1, <1>4, GotoAs, BusyCall
  <2>2. InFlight(c)'
    BY <1>1, <1>2, <2>1 DEF InFlight, Busies, Sids
  <2>3. CallInv(c)' /\ Keeps(c)
    BY <1>1, <1>4, <2>2, MovedCall
  <2> QED BY <1>2, <1>3, <1>4, <2>3, GotoAs, OnlyMoves DEF store
<1>5. CASE Returns(c, NotFound)
  <2>1. CallInv(c)' /\ Keeps(c)
    BY <1>1, <1>3, <1>5, RefusedCall
  <2> QED BY <1>2, <1>3, <1>5, <2>1, ReturnsAs, OnlyMoves DEF store
<1> QED BY <1>4, <1>5 DEF CheckList

LEMMA CheckDeleteInv == ASSUME SessionsInv, NEW c \in Callers, CheckDelete(c) PROVE SessionsInv'
<1>1. call[c].op = "delete" /\ call[c].pc = "start"
      /\ UNCHANGED <<backend, sessions, rows, lock, now, calls, owned, acked, gone, setbacks>>
  BY DEF CheckDelete, At, store
<1>2. call[c].sid \in Sids /\ doomed \subseteq Sids /\ lock # c /\ Sids' = Sids
  BY <1>1, BusyCall DEF SessionsInv, HistoryInv, Sids
<1>3. CASE /\ Permitted(call[c].sid, call[c].owner) /\ Goto(c, "remove")
           /\ doomed' = doomed \union {call[c].sid}
  <2>1. call'[c] = [call[c] EXCEPT !.pc = "remove"] /\ call[c] \in Busies /\ InFlight(c)
    BY <1>1, <1>3, GotoAs, BusyCall
  <2>2. call[c].late => call[c].owner = Anyone
    <3>1. call[c].late => sessions[call[c].sid] = Gone
      BY <1>1, BusyCall
    <3>2. call[c].owner \in Owners \union {Anyone}
      BY <2>1 DEF Busies
    <3> QED BY <1>3, <3>1, <3>2, SessionsAssumption DEF Permitted
  <2>3. InFlight(c)'
    BY <1>1, <1>3, <2>1, <2>2 DEF InFlight, Busies, Sids
  <2>4. CallInv(c)' /\ Keeps(c)
    BY <1>1, <1>3, <2>3, MovedCall
  <2> QED BY <1>1, <1>2, <1>3, <2>4, GotoAs, OnlyMoves DEF store
<1>4. CASE Returns(c, NotFound) /\ UNCHANGED doomed
  <2>1. CallInv(c)' /\ Keeps(c)
    BY <1>1, <1>2, <1>4, RefusedCall
  <2> QED BY <1>1, <1>2, <1>4, <2>1, ReturnsAs, OnlyMoves DEF store
<1> QED BY <1>3, <1>4 DEF CheckDelete

\* The listed snapshots are those of the session, and one that was begun after the
\* last of them had been stored is behind it by the clock only.
LEMMA LastListed ==
    ASSUME SessionsInv, NEW sid \in Sids, NEW s \in Listings(sid), s # <<>>
    PROVE  /\ Last(s).sid = sid
           /\ \A r \in ToSet(s) : Fresher(Last(s), r)
<1>1. /\ rows[sid] \in Seq(Rows) /\ Len(rows[sid]) \in Nat /\ DOMAIN rows[sid] = 1 .. Len(rows[sid])
      /\ \A i \in 1 .. Len(rows[sid]) :
            /\ rows[sid][i] \in Rows /\ rows[sid][i].sid = sid
            /\ rows[sid][i].id <= rows[sid][i].seen
      /\ \A i, j \in 1 .. Len(rows[sid]) : i <= j => rows[sid][i].seen <= rows[sid][j].seen
  <2>1. RowsInv
    BY DEF SessionsInv
  <2>2. rows[sid] \in Seq(Rows)
    BY <2>1 DEF RowsInv, Sids
  <2>3. \A i \in 1 .. Len(rows[sid]) : rows[sid][i] \in Rows
    BY <2>2
  <2> QED BY <2>1, <2>2, <2>3 DEF RowsInv
<1>2. CASE backend = "memory"
  <2>1. s = rows[sid]
    BY <1>2 DEF Listings
  <2>2. Len(s) \in 1 .. Len(s)
    BY <1>1, <2>1
  <2>3. ASSUME NEW i \in 1 .. Len(s) PROVE Fresher(s[Len(s)], s[i])
    <3>1. s[i] \in Rows /\ s[Len(s)] \in Rows /\ s[i].seen <= s[Len(s)].seen /\ s[i].id <= s[i].seen
      BY <1>1, <2>1, <2>2
    <3> QED BY <3>1 DEF Rows, Fresher
  <2> QED BY <1>1, <2>1, <2>2, <2>3 DEF Last, ToSet
<1>3. CASE backend # "memory"
  <2> DEFINE mine == ToSet(rows[sid])
             K == Cardinality(mine)
  <2>1. /\ s \in [1 .. K -> mine]
        /\ \A i, j \in DOMAIN s : i < j => s[i].at =< s[j].at
    BY <1>3 DEF Listings, ByTimestamp
  <2>2. K \in Nat
    <3>1. IsFiniteSet(1 .. Len(rows[sid]))
      BY <1>1, FS_Interval
    <3>2. rows[sid] \in Surjection(1 .. Len(rows[sid]), mine)
      BY <1>1 DEF Surjection, ToSet
    <3> HIDE DEF mine
    <3>3. IsFiniteSet(mine)
      BY <3>1, <3>2, FS_Surjection
    <3> QED BY <3>3, FS_CardinalityType
  <2>3. \A r \in mine : r \in Rows /\ r.sid = sid /\ r.id <= r.seen /\ Stamped(r.id, r.at)
    BY <1>1 DEF ToSet, Stamped
  <2> HIDE DEF mine, K
  <2>4. s \in Seq(mine) /\ Len(s) = K /\ DOMAIN s = 1 .. K
    BY <2>1, <2>2
  <2>5. K \in 1 .. K
    BY <2>2, <2>4
  <2>6. ASSUME NEW i \in 1 .. K PROVE Fresher(s[K], s[i])
    <3> DEFINE a == s[K]
               q == s[i]
    <3>1. /\ q \in Rows /\ a \in Rows /\ a.id <= a.seen
          /\ Stamped(q.id, q.at) /\ Stamped(a.id, a.at)
      BY <2>1, <2>3, <2>5
    <3>2. q.at <= a.at
      BY <2>1, <2>2, <2>4, <2>5, <3>1 DEF Rows
    <3>3. q.id \in Nat /\ q.at \in Nat /\ a.id \in Nat /\ a.at \in Nat /\ a.seen \in Nat
      BY <3>1 DEF Rows
    <3>4. backend = "sqlite"
      BY <1>3 DEF SessionsInv, RowsInv
    <3> HIDE DEF a, q
    <3>5. ASSUME q.id > a.seen, q.at < a.at
          PROVE  \E k \in setbacks : a.id <= k /\ k < q.id
      <4>1. a.id < q.id
        BY <3>1, <3>3, <3>5
      <4>2. ~(a.at <= q.at)
        BY <3>3, <3>5
      <4>3. ~Steady(a.id, q.id, setbacks)
        BY <3>1, <3>3, <4>1, <4>2 DEF SessionsInv, StampsInv
      <4> QED BY <4>3 DEF Steady
    <3>6. q.at = a.at \/ q.at < a.at
      BY <3>2, <3>3
    <3>7. Fresher(a, q)
      BY <3>4, <3>5, <3>6 DEF Fresher
    <3> QED BY <3>7 DEF a, q
  <2> QED BY <2>1, <2>3, <2>4, <2>5, <2>6 DEF Last, ToSet
<1> QED BY <1>2, <1>3

LEMMA ResumedCall ==
    ASSUME SessionsInv, NEW c \in Callers, call[c].op = "resume", call[c].pc # "start",
           Resumed(c), UNCHANGED <<backend, store, lock, now, calls, history>>
    PROVE  SessionsInv'
<1>1. UNCHANGED <<backend, sessions, rows, lock, now, calls, owned, acked, gone, doomed, setbacks>>
  BY DEF store, history
<1>2. doomed \subseteq Sids /\ lock # c /\ Sids' = Sids
  BY <1>1, BusyCall DEF SessionsInv, HistoryInv, Sids
<1> DEFINE o == call[c]
           Found(s) == [kind |-> "snapshot", snapshot |-> Rebuilt(Last(s)), among |-> ToSet(s)]
<1>3. PICK s \in Listings(o.sid) : Returns(c, IF s = <<>> THEN NotFound ELSE Found(s))
  BY DEF Resumed
<1>4. o \in Busies /\ InFlight(c) /\ o.sid \in Sids
  BY BusyCall
<1>5. CASE s = <<>>
  <2>1. Returns(c, NotFound)
    BY <1>3, <1>5
  <2>2. CallInv(c)' /\ Keeps(c)
    BY <1>2, <2>1, RefusedCall
  <2> QED BY <1>1, <1>2, <2>1, <2>2, ReturnsAs, OnlyMoves DEF store
<1>6. CASE s # <<>>
  <2>1. Returns(c, Found(s))
    BY <1>3, <1>6
  <2>2. call' = [call EXCEPT ![c] = DoneAs(c, Found(s))] /\ call'[c] = DoneAs(c, Found(s))
    BY <2>1, ReturnsAs
  <2>3. Last(s).sid = o.sid /\ \A r \in ToSet(s) : Fresher(Last(s), r)
    BY <1>4, <1>6, LastListed
  <2>4. ~o.late /\ o.owner \in {Anyone, owned[o.sid]}
    BY <1>4 DEF InFlight
  <2>5. Rebuilt(Last(s)).row = Last(s)
    BY DEF Rebuilt
  <2>6. call'[c].op = "done" /\ call'[c].sid = o.sid /\ call'[c].owner = o.owner
        /\ call'[c].late = o.late /\ call'[c].result = Found(s)
    BY <2>2 DEF DoneAs
  <2>6a. \A r \in ToSet(s) : Fresher(Last(s), r)'
    BY <1>1, <2>3 DEF Fresher
  <2>7. Answered(c)'
    BY <1>1, <1>2, <1>4, <2>3, <2>4, <2>5, <2>6, <2>6a DEF Answered
  <2>8. CallInv(c)' /\ Keeps(c)
    BY <2>6, <2>7 DEF CallInv, Keeps
  <2> QED BY <1>1, <1>2, <2>2, <2>8, OnlyMoves DEF store
<1> QED BY <1>5, <1>6

LEMMA ReadListInv == ASSUME SessionsInv, NEW c \in Callers, ReadList(c) PROVE SessionsInv'
BY ResumedCall DEF ReadList, At

LEMMA SqliteListInv == ASSUME SessionsInv, NEW c \in Callers, SqliteList(c) PROVE SessionsInv'
<1>1. call[c].op = "resume" /\ call[c].pc = "list" /\ UNCHANGED <<backend, store, lock, now, calls, history>>
  BY DEF SqliteList, At
<1>2. UNCHANGED <<backend, sessions, rows, lock, now, calls, owned, acked, gone, doomed, setbacks>>
  BY <1>1 DEF store, history
<1>3. doomed \subseteq Sids /\ lock # c /\ Sids' = Sids
  BY <1>1, <1>2, BusyCall DEF SessionsInv, HistoryInv, Sids
<1>4. CASE Resumed(c)
  BY <1>1, <1>4, ResumedCall
<1>5. CASE Returns(c, NotFound)
  <2>1. CallInv(c)' /\ Keeps(c)
    BY <1>1, <1>3, <1>5, RefusedCall
  <2> QED BY <1>2, <1>3, <1>5, <2>1, ReturnsAs, OnlyMoves DEF store
<1> QED BY <1>4, <1>5 DEF SqliteList

-----------------------------------------------------------------------------
(* The steps that change the store. *)

\* A snapshot is stored: it is the latest of its session's and acknowledged.
LEMMA StoredInv ==
    ASSUME SessionsInv, NEW c \in Callers, call[c].op = "checkpoint", Stores(c),
           acked' = acked \union {Acked(c)}, Returns(c, Done),
           UNCHANGED <<backend, sessions, lock, now, calls, owned, doomed, gone, setbacks>>,
           lock = Free,
           backend = "sqlite" => sessions[call[c].sid] # Gone,
           call[c].late => call[c].owner = Anyone /\ backend = "memory"
    PROVE  SessionsInv'
<1> DEFINE sid == call[c].sid
           r == Row(call[c].snap.id, sid, call[c].snap.at, calls)
<1>1. /\ call[c] \in Busies /\ InFlight(c) /\ sid \in Sids /\ sid \in Nat
      /\ call[c].snap.id \in Nat /\ call[c].snap.at \in Nat
      /\ call[c].snap.id \in 1 .. calls
  BY BusyCall DEF InFlight
<1>2. RowsInv /\ HistoryInv /\ calls \in Nat
  BY DEF SessionsInv, RowsInv
<1>3. r \in Rows /\ r.sid = sid /\ r.id \in 1 .. calls /\ r.id <= r.seen /\ r.seen = calls
      /\ r.id = call[c].snap.id /\ r.at = call[c].snap.at
  BY <1>1, <1>2 DEF Row, Rows
<1>4. rows' = [rows EXCEPT ![sid] = Append(rows[sid], r)] /\ rows[sid] \in Seq(Rows)
      /\ rows \in Seq(Seq(Rows)) /\ sid \in 1 .. Len(rows)
  BY <1>1, <1>2 DEF Stores, RowsInv, Sids
<1> HIDE DEF r
<1>5. /\ rows' \in Seq(Seq(Rows)) /\ Len(rows') = Len(rows)
      /\ rows'[sid] = Append(rows[sid], r) /\ \A s \in 1 .. Len(rows) : s # sid => rows'[s] = rows[s]
  BY <1>3, <1>4
<1>6. /\ Len(rows'[sid]) = Len(rows[sid]) + 1 /\ rows'[sid][Len(rows[sid]) + 1] = r
      /\ Len(rows[sid]) \in Nat
      /\ \A i \in 1 .. Len(rows[sid]) : rows'[sid][i] = rows[sid][i]
  BY <1>3, <1>4, <1>5
<1>7. Sids' = Sids
  BY DEF Sids
<1>8. RowsInv'
  <2>1. ASSUME NEW s \in Sids, NEW i \in 1 .. Len(rows'[s])
        PROVE  /\ rows'[s][i].sid = s /\ rows'[s][i].id \in 1 .. calls
               /\ rows'[s][i].id <= rows'[s][i].seen /\ rows'[s][i].seen <= calls
    <3>1. CASE s # sid
      <4>1. rows'[s] = rows[s]
        BY <1>2, <1>5, <3>1 DEF RowsInv, Sids
      <4> QED BY <1>2, <4>1 DEF RowsInv
    <3>2. CASE s = sid /\ i \in 1 .. Len(rows[sid])
      <4>1. /\ rows[sid][i].sid = sid /\ rows[sid][i].id \in 1 .. calls
            /\ rows[sid][i].id <= rows[sid][i].seen /\ rows[sid][i].seen <= calls
        BY <1>1, <1>2, <3>2 DEF RowsInv
      <4>2. rows'[s][i] = rows[sid][i]
        BY <1>6, <3>2
      <4> QED BY <3>2, <4>1, <4>2
    <3>3. CASE s = sid /\ i = Len(rows[sid]) + 1
      <4>1. rows'[s][i] = r
        BY <1>6, <3>3
      <4> QED BY <1>2, <1>3, <3>3, <4>1
    <3> QED BY <1>6, <3>1, <3>2, <3>3
  <2>2. ASSUME NEW s \in Sids, NEW i \in 1 .. Len(rows'[s]), NEW j \in 1 .. Len(rows'[s]), i <= j
        PROVE  rows'[s][i].seen <= rows'[s][j].seen
    <3>1. CASE s # sid
      <4>1. rows'[s] = rows[s]
        BY <1>2, <1>5, <3>1 DEF RowsInv, Sids
      <4> QED BY <1>2, <2>2, <4>1 DEF RowsInv
    <3>2. CASE s = sid /\ j \in 1 .. Len(rows[sid])
      <4>1. i \in 1 .. Len(rows[sid])
        BY <1>6, <2>2, <3>2
      <4> QED BY <1>2, <1>6, <2>2, <3>2, <4>1 DEF RowsInv
    <3>3. CASE s = sid /\ j = Len(rows[sid]) + 1
      <4>1. rows'[s][i].seen <= calls
        BY <2>1
      <4> QED BY <1>3, <1>6, <3>3, <4>1
    <3> QED BY <1>6, <3>1, <3>2, <3>3
  <2> QED BY <1>2, <1>5, <1>7, <2>1, <2>2 DEF RowsInv
<1>9. HistoryInv'
  BY <1>1, <1>2, <1>7 DEF HistoryInv, Acked
<1>10. CheckpointsKept'
  <2>1. ASSUME NEW a \in acked PROVE (\E i \in DOMAIN rows'[a.sid] : rows'[a.sid][i].id = a.id) \/ a.sid \in doomed
    <3>1. a.sid \in Sids
      BY <1>2 DEF HistoryInv
    <3>2. \/ \E i \in DOMAIN rows[a.sid] : rows[a.sid][i].id = a.id
          \/ a.sid \in doomed
      BY DEF SessionsInv, CheckpointsKept
    <3>3. a.sid # sid => rows'[a.sid] = rows[a.sid]
      BY <1>2, <1>5, <3>1 DEF RowsInv, Sids
    <3>4. DOMAIN rows[sid] = 1 .. Len(rows[sid]) /\ DOMAIN rows'[sid] = 1 .. (Len(rows[sid]) + 1)
      BY <1>3, <1>4, <1>5, <1>6
    <3>5. DOMAIN rows[sid] \subseteq DOMAIN rows'[sid]
      BY <1>6, <3>4
    <3>6. CASE a.sid # sid
      BY <3>2, <3>3, <3>6
    <3>7. CASE a.sid = sid
      BY <1>6, <3>2, <3>4, <3>5, <3>7
    <3> QED BY <3>6, <3>7
  <2>2. \E i \in DOMAIN rows'[sid] : rows'[sid][i].id = Acked(c).id
    <3>1. Len(rows[sid]) + 1 \in DOMAIN rows'[sid]
      BY <1>3, <1>4, <1>5, <1>6
    <3> QED BY <1>3, <1>6, <3>1 DEF Acked
  <2> QED BY <2>1, <2>2 DEF CheckpointsKept, Acked
<1>11. NoDanglingRows'
  BY <1>2, <1>5, <1>7 DEF SessionsInv, NoDanglingRows, RowsInv, Sids
<1>12. LockInv'
  BY DEF SessionsInv, LockInv
<1>13. call' = [call EXCEPT ![c] = DoneAs(c, Done)] /\ call'[c] = DoneAs(c, Done)
  BY ReturnsAs
<1>14. CallInv(c)'
  BY <1>1, <1>7, <1>13 DEF CallInv, Answered, DoneAs, Done
<1>15. Grows
  BY <1>2, <1>7 DEF Grows, RowsInv
<1>16. DOMAIN call' = Callers /\ \A d \in Callers : CallInv(d)'
  BY <1>13, <1>14, <1>15, OthersKept, SessionsAssumption
<1>17. StampsInv'
  <2>1. ASSUME NEW m \in Nat, NEW t \in Nat, Stamped(m, t)' PROVE Stamped(m, t)
    <3>1. ASSUME NEW d \in Callers, call'[d].op = "checkpoint" PROVE call'[d] = call[d]
      BY <1>13, <3>1 DEF SessionsInv, DoneAs
    <3>2. ASSUME NEW s \in Sids, NEW i \in 1 .. Len(rows'[s]), rows'[s][i].id = m, rows'[s][i].at = t
          PROVE  Stamped(m, t)
      <4>1. CASE s # sid
        <5>1. rows'[s] = rows[s]
          BY <1>2, <1>5, <4>1 DEF RowsInv, Sids
        <5> QED BY <3>2, <5>1 DEF Stamped
      <4>2. CASE s = sid /\ i \in 1 .. Len(rows[sid])
        BY <1>6, <3>2, <4>2 DEF Stamped
      <4>3. CASE s = sid /\ i = Len(rows[sid]) + 1
        BY <1>3, <1>6, <3>2, <4>3 DEF Stamped
      <4> QED BY <1>6, <3>2, <4>1, <4>2, <4>3
    <3> QED BY <1>7, <2>1, <3>1, <3>2 DEF Stamped
  <2> QED BY <2>1, StampsKept DEF SessionsInv
<1> QED BY <1>8, <1>9, <1>10, <1>11, <1>12, <1>16, <1>17 DEF SessionsInv

LEMMA WriteSaveInv == ASSUME SessionsInv, NEW c \in Callers, WriteSave(c) PROVE SessionsInv'
<1>1. call[c].op = "checkpoint" /\ call[c].pc = "write" /\ backend = "memory"
  BY DEF WriteSave, At
<1>2. InFlight(c)
  BY <1>1, BusyCall
<1>3. call[c].late => call[c].owner = Anyone
  BY <1>1, <1>2 DEF InFlight
<1>4. lock = Free
  BY <1>1 DEF SessionsInv, LockInv
<1> QED BY <1>1, <1>3, <1>4, StoredInv DEF WriteSave

LEMMA SqliteSaveInv == ASSUME SessionsInv, NEW c \in Callers, SqliteSave(c) PROVE SessionsInv'
<1>1. call[c].op = "checkpoint" /\ call[c].pc = "start" /\ lock = Free
      /\ UNCHANGED <<backend, sessions, lock, now, calls, owned, doomed, gone, setbacks>>
  BY DEF SqliteSave, At
<1>2. doomed \subseteq Sids /\ lock # c /\ Sids' = Sids
  BY <1>1, BusyCall DEF SessionsInv, HistoryInv, Sids
<1>3. CASE /\ sessions[call[c].sid] # Gone /\ Stores(c) /\ acked' = acked \union {Acked(c)}
           /\ Returns(c, Done)
  <2>1. ~call[c].late
    BY <1>1, <1>3, BusyCall
  <2> QED BY <1>1, <1>3, <2>1, StoredInv
<1>4. CASE Returns(c, NotFound) /\ UNCHANGED <<rows, acked>>
  <2>1. CallInv(c)' /\ Keeps(c)
    BY <1>1, <1>2, <1>4, RefusedCall
  <2> QED BY <1>1, <1>2, <1>4, <2>1, ReturnsAs, OnlyMoves DEF store
<1> QED BY <1>3, <1>4 DEF SqliteSave

\* The snapshots of a session are deleted.
LEMMA EmptiedRows ==
    ASSUME RowsInv, NEW sid \in Sids, rows' = [rows EXCEPT ![sid] = <<>>],
           UNCHANGED <<backend, now, calls, owned, setbacks>>,
           sessions' \in Seq(Owners \union {Gone}), Len(sessions') = Len(sessions)
    PROVE  /\ RowsInv' /\ Sids' = Sids /\ rows'[sid] = <<>>
           /\ \A s \in Sids : s # sid => rows'[s] = rows[s]
<1>1. /\ Sids' = Sids /\ sid \in 1 .. Len(rows) /\ rows \in Seq(Seq(Rows)) /\ Sids = 1 .. Len(rows)
      /\ Len(rows) = Len(sessions)
  BY DEF Sids, RowsInv
<1>2. <<>> \in Seq(Rows)
  OBVIOUS
<1>3. /\ rows' \in Seq(Seq(Rows)) /\ Len(rows') = Len(rows) /\ rows'[sid] = <<>>
      /\ \A s \in Sids : s # sid => rows'[s] = rows[s]
  BY <1>1, <1>2
<1>4. Len(rows'[sid]) = 0
  BY <1>3
<1>5. RowsInv'
  BY <1>1, <1>3, <1>4 DEF RowsInv
<1> QED BY <1>1, <1>3, <1>5

\* A session leaves the table.
LEMMA GoneSession ==
    ASSUME RowsInv, NEW sid \in Sids, sessions' = [sessions EXCEPT ![sid] = Gone]
    PROVE  /\ sessions' \in Seq(Owners \union {Gone}) /\ Len(sessions') = Len(sessions)
           /\ sessions'[sid] = Gone /\ Sids' = Sids
           /\ \A s \in Sids : s # sid => sessions'[s] = sessions[s]
<1>1. sid \in 1 .. Len(sessions) /\ sessions \in Seq(Owners \union {Gone})
  BY DEF RowsInv, Sids
<1> QED BY <1>1 DEF Sids

LEMMA RemoveBothInv == ASSUME SessionsInv, NEW c \in Callers, RemoveBoth(c) PROVE SessionsInv'
<1> DEFINE sid == call[c].sid
<1>1. /\ call[c].op = "delete" /\ call[c].pc = "remove" /\ backend = "memory"
      /\ sessions' = [sessions EXCEPT ![sid] = Gone] /\ rows' = [rows EXCEPT ![sid] = <<>>]
      /\ gone' = gone \union {sid} /\ Returns(c, Done)
      /\ UNCHANGED <<backend, lock, now, calls, owned, acked, doomed, setbacks>>
  BY DEF RemoveBoth, At
<1>2. call[c] \in Busies /\ InFlight(c) /\ sid \in Sids /\ RowsInv /\ HistoryInv
  BY <1>1, BusyCall DEF SessionsInv
<1>3. sid \in doomed /\ (call[c].late => call[c].owner = Anyone)
  BY <1>1, <1>2 DEF InFlight
<1>4. /\ sessions' \in Seq(Owners \union {Gone}) /\ Len(sessions') = Len(sessions)
      /\ sessions'[sid] = Gone /\ Sids' = Sids
      /\ \A s \in Sids : s # sid => sessions'[s] = sessions[s]
  BY <1>1, <1>2, GoneSession
<1>5. RowsInv' /\ rows'[sid] = <<>> /\ \A s \in Sids : s # sid => rows'[s] = rows[s]
  BY <1>1, <1>2, <1>4, EmptiedRows
<1>6. HistoryInv'
  BY <1>1, <1>2, <1>4 DEF HistoryInv
<1>7. CheckpointsKept'
  <2>1. \A a \in acked : a.sid \in Sids
    BY <1>2 DEF HistoryInv
  <2> QED BY <1>1, <1>3, <1>5, <2>1 DEF SessionsInv, CheckpointsKept
<1>8. NoDanglingRows' /\ LockInv' /\ lock = Free
  BY <1>1 DEF SessionsInv, NoDanglingRows, LockInv
<1>9. call' = [call EXCEPT ![c] = DoneAs(c, Done)] /\ call'[c] = DoneAs(c, Done)
  BY <1>1, ReturnsAs
<1>10. CallInv(c)'
  BY <1>1, <1>2, <1>3, <1>4, <1>9 DEF CallInv, Answered, DoneAs, Done
<1>11. Grows
  BY <1>1, <1>2, <1>4 DEF Grows, RowsInv
<1>12. DOMAIN call' = Callers /\ \A d \in Callers : CallInv(d)'
  BY <1>8, <1>9, <1>10, <1>11, OthersKept, SessionsAssumption
<1>13. StampsInv'
  <2>1. Keeps(c)
    BY <1>9 DEF Keeps, DoneAs
  <2>2. \A s \in Sids : rows'[s] = rows[s] \/ rows'[s] = <<>>
    BY <1>5
  <2> QED BY <1>1, <1>4, <1>9, <2>1, <2>2, CallerKeeps
<1> QED BY <1>5, <1>6, <1>7, <1>8, <1>12, <1>13 DEF SessionsInv

LEMMA DeleteRowsInv == ASSUME SessionsInv, NEW c \in Callers, DeleteRows(c) PROVE SessionsInv'
<1> DEFINE sid == call[c].sid
<1>1. /\ call[c].op = "delete" /\ call[c].pc = "start" /\ backend = "sqlite" /\ lock = Free
      /\ UNCHANGED <<backend, sessions, now, calls, owned, acked, gone, setbacks>>
  BY DEF DeleteRows, At
<1>2. call[c] \in Busies /\ InFlight(c) /\ sid \in Sids /\ RowsInv /\ HistoryInv
  BY <1>1, BusyCall DEF SessionsInv
<1>3. CASE /\ Permitted(sid, call[c].owner) /\ rows' = [rows EXCEPT ![sid] = <<>>]
           /\ doomed' = doomed \union {sid} /\ lock' = c /\ Goto(c, "session")
  <2>1. sessions' \in Seq(Owners \union {Gone}) /\ Len(sessions') = Len(sessions)
    BY <1>1, <1>2 DEF RowsInv
  <2>2. /\ RowsInv' /\ Sids' = Sids /\ rows'[sid] = <<>>
        /\ \A s \in Sids : s # sid => rows'[s] = rows[s]
    BY <1>1, <1>2, <1>3, <2>1, EmptiedRows
  <2>3. HistoryInv'
    BY <1>1, <1>2, <1>3, <2>2 DEF HistoryInv
  <2>4. CheckpointsKept'
    <3>1. \A a \in acked : a.sid \in Sids
      BY <1>2 DEF HistoryInv
    <3> QED BY <1>1, <1>3, <2>2, <3>1 DEF SessionsInv, CheckpointsKept
  <2>5. NoDanglingRows'
    BY <1>1, <2>2 DEF SessionsInv, NoDanglingRows
  <2>6. /\ call' = [call EXCEPT ![c] = [call[c] EXCEPT !.pc = "session"]]
        /\ call'[c] = [call[c] EXCEPT !.pc = "session"]
    BY <1>3, GotoAs
  <2>7. LockInv'
    BY <1>1, <1>2, <1>3, <2>6 DEF LockInv, At, Busies
  <2>8. call[c].late => call[c].owner = Anyone
    <3>1. call[c].late => sessions[sid] = Gone
      BY <1>1, BusyCall
    <3>2. call[c].owner \in Owners \union {Anyone}
      BY <1>2 DEF Busies
    <3> QED BY <1>3, <3>1, <3>2, SessionsAssumption DEF Permitted
  <2>9. InFlight(c)'
    BY <1>1, <1>2, <1>3, <2>2, <2>6, <2>8 DEF InFlight, Busies
  <2>10. CallInv(c)' /\ Keeps(c)
    BY <1>1, <1>3, <2>9, MovedCall
  <2>13. StampsInv'
    BY <1>1, <2>2, <2>6, <2>10, CallerKeeps
  <2>11. Grows
    BY <1>1, <1>2, <1>3, <2>2 DEF Grows, RowsInv
  <2>12. DOMAIN call' = Callers /\ \A d \in Callers : CallInv(d)'
    BY <1>1, <2>6, <2>10, <2>11, OthersKept, SessionsAssumption
  <2> QED BY <2>2, <2>3, <2>4, <2>5, <2>7, <2>12, <2>13 DEF SessionsInv
<1>4. CASE Returns(c, NotFound) /\ UNCHANGED <<rows, doomed, lock>>
  <2>1. doomed \subseteq Sids /\ lock # c /\ Sids' = Sids
    BY <1>1, <1>2, BusyCall DEF HistoryInv, Sids
  <2>2. CallInv(c)' /\ Keeps(c)
    BY <1>1, <1>4, <2>1, RefusedCall
  <2> QED BY <1>1, <1>4, <2>1, <2>2, ReturnsAs, OnlyMoves DEF store
<1> QED BY <1>3, <1>4 DEF DeleteRows

LEMMA DeleteSessionInv == ASSUME SessionsInv, NEW c \in Callers, DeleteSession(c) PROVE SessionsInv'
<1> DEFINE sid == call[c].sid
<1>1. /\ call[c].op = "delete" /\ call[c].pc = "session" /\ lock = c /\ lock' = Free
      /\ sessions' = [sessions EXCEPT ![sid] = Gone]
      /\ gone' = gone \union {sid} /\ Returns(c, Done)
      /\ UNCHANGED <<backend, rows, now, calls, owned, acked, doomed, setbacks>>
  BY DEF DeleteSession, At
<1>2. call[c] \in Busies /\ InFlight(c) /\ sid \in Sids /\ RowsInv /\ HistoryInv
  BY <1>1, BusyCall DEF SessionsInv
<1>3. /\ sid \in doomed /\ (call[c].late => call[c].owner = Anyone)
      /\ rows[sid] = <<>> /\ backend = "sqlite"
  BY <1>1, <1>2 DEF InFlight
<1>4. /\ sessions' \in Seq(Owners \union {Gone}) /\ Len(sessions') = Len(sessions)
      /\ sessions'[sid] = Gone /\ Sids' = Sids
      /\ \A s \in Sids : s # sid => sessions'[s] = sessions[s]
  BY <1>1, <1>2, GoneSession
<1>5. RowsInv'
  BY <1>1, <1>2, <1>4 DEF RowsInv
<1>6. HistoryInv'
  BY <1>1, <1>2, <1>4 DEF HistoryInv
<1>7. CheckpointsKept'
  BY <1>1 DEF SessionsInv, CheckpointsKept
<1>8. NoDanglingRows' /\ LockInv'
  BY <1>1, <1>3, <1>4 DEF SessionsInv, NoDanglingRows, LockInv
<1>9. call' = [call EXCEPT ![c] = DoneAs(c, Done)] /\ call'[c] = DoneAs(c, Done)
  BY <1>1, ReturnsAs
<1>10. CallInv(c)'
  BY <1>1, <1>2, <1>3, <1>4, <1>9 DEF CallInv, Answered, DoneAs, Done
<1>11. Grows
  BY <1>1, <1>2, <1>4 DEF Grows, RowsInv
<1>12. DOMAIN call' = Callers /\ \A d \in Callers : CallInv(d)'
  BY <1>1, <1>9, <1>10, <1>11, OthersKept
<1>13. StampsInv'
  <2>1. Keeps(c)
    BY <1>9 DEF Keeps, DoneAs
  <2> QED BY <1>1, <1>4, <1>9, <2>1, CallerKeeps
<1> QED BY <1>5, <1>6, <1>7, <1>8, <1>12, <1>13 DEF SessionsInv

\* A failed statement hands the connection back, also the second of a delete.
LEMMA SqliteFailsInv == ASSUME SessionsInv, NEW c \in Callers, SqliteFails(c) PROVE SessionsInv'
<1>1. /\ call[c].op \in {"checkpoint", "resume", "delete"} /\ lock \in {Free, c} /\ lock' = Free
      /\ Returns(c, NotFound)
      /\ UNCHANGED <<backend, sessions, rows, now, calls, owned, acked, doomed, gone, setbacks>>
  BY DEF SqliteFails, store, history
<1>2. RowsInv' /\ HistoryInv' /\ CheckpointsKept' /\ NoDanglingRows' /\ Sids' = Sids
  BY <1>1 DEF SessionsInv, RowsInv, HistoryInv, CheckpointsKept, NoDanglingRows, Sids
<1>3. LockInv'
  BY <1>1 DEF LockInv
<1>4. Grows
  BY <1>1, <1>2 DEF SessionsInv, Grows, RowsInv
<1>5. CallInv(c)' /\ Keeps(c)
  BY <1>1, <1>2, RefusedCall
<1>8. StampsInv'
  BY <1>1, <1>2, <1>5, ReturnsAs, CallerKeeps
<1>6. call' = [call EXCEPT ![c] = DoneAs(c, NotFound)]
  BY <1>1, ReturnsAs
<1>7. DOMAIN call' = Callers /\ \A d \in Callers : CallInv(d)'
  BY <1>1, <1>4, <1>5, <1>6, OthersKept, SessionsAssumption
<1> QED BY <1>2, <1>3, <1>7, <1>8 DEF SessionsInv

-----------------------------------------------------------------------------
(* New sessions, new calls, time and crashes. *)

LEMMA CreateInv ==
    ASSUME SessionsInv, NEW c \in Callers, NEW o \in Owners, create_session(c, o)
    PROVE  SessionsInv'
<1>1. /\ sessions' = Append(sessions, o) /\ rows' = Append(rows, <<>>) /\ owned' = Append(owned, o)
      /\ UNCHANGED <<backend, lock, call, now, calls, acked, doomed, gone, setbacks>>
  BY DEF create_session
<1>2. RowsInv /\ HistoryInv
  BY DEF SessionsInv
<1> DEFINE n == Len(sessions)
<1>3. /\ n \in Nat /\ sessions \in Seq(Owners \union {Gone}) /\ rows \in Seq(Seq(Rows)) /\ owned \in Seq(Owners)
      /\ Len(rows) = n /\ Len(owned) = n /\ Sids = 1 .. n /\ <<>> \in Seq(Rows)
  BY <1>2 DEF RowsInv, Sids
<1> HIDE DEF n
<1>4. /\ sessions' \in Seq(Owners \union {Gone}) /\ rows' \in Seq(Seq(Rows)) /\ owned' \in Seq(Owners)
      /\ Len(sessions') = n + 1 /\ Len(rows') = n + 1 /\ Len(owned') = n + 1
      /\ sessions'[n + 1] = o /\ rows'[n + 1] = <<>> /\ owned'[n + 1] = o
      /\ \A s \in Sids : sessions'[s] = sessions[s] /\ rows'[s] = rows[s] /\ owned'[s] = owned[s]
  BY <1>1, <1>3 DEF n
<1>5. Sids' = Sids \union {n + 1} /\ n + 1 \notin Sids /\ Len(rows'[n + 1]) = 0
  <2>1. Sids' = 1 .. n + 1 /\ Sids = 1 .. n /\ n \in Nat
    BY <1>3, <1>4 DEF Sids
  <2>2. Len(rows'[n + 1]) = 0
    BY <1>4
  <2> QED BY <2>1, <2>2
<1>6. RowsInv'
  <2>1. ASSUME NEW s \in Sids', NEW i \in 1 .. Len(rows'[s])
        PROVE  s \in Sids /\ rows'[s] = rows[s]
    BY <1>4, <1>5
  <2>2. \A s \in Sids' : \A i \in 1 .. Len(rows'[s]) :
          /\ rows'[s][i].sid = s /\ rows'[s][i].id \in 1 .. calls
          /\ rows'[s][i].id <= rows'[s][i].seen /\ rows'[s][i].seen <= calls
    <3> SUFFICES ASSUME NEW s \in Sids', NEW i \in 1 .. Len(rows'[s])
                 PROVE  /\ rows'[s][i].sid = s /\ rows'[s][i].id \in 1 .. calls
                        /\ rows'[s][i].id <= rows'[s][i].seen /\ rows'[s][i].seen <= calls
      OBVIOUS
    <3>1. s \in Sids /\ rows'[s] = rows[s]
      BY <2>1
    <3> QED BY <1>2, <3>1 DEF RowsInv
  <2>3. \A s \in Sids' : \A i, j \in 1 .. Len(rows'[s]) :
          i <= j => rows'[s][i].seen <= rows'[s][j].seen
    <3> SUFFICES ASSUME NEW s \in Sids', NEW i \in 1 .. Len(rows'[s]), NEW j \in 1 .. Len(rows'[s]), i <= j
                 PROVE  rows'[s][i].seen <= rows'[s][j].seen
      OBVIOUS
    <3>1. s \in Sids /\ rows'[s] = rows[s]
      BY <2>1
    <3> QED BY <1>2, <3>1 DEF RowsInv
  <2> QED BY <1>1, <1>2, <1>4, <2>2, <2>3 DEF RowsInv
<1>7. HistoryInv'
  BY <1>1, <1>2, <1>4, <1>5 DEF HistoryInv
<1>8. CheckpointsKept'
  <2>1. \A a \in acked : a.sid \in Sids
    BY <1>2 DEF HistoryInv
  <2>2. \A a \in acked : rows'[a.sid] = rows[a.sid]
    BY <1>4, <2>1
  <2> QED BY <1>1, <2>2 DEF SessionsInv, CheckpointsKept
<1>9. NoDanglingRows'
  BY <1>1, <1>4, <1>5 DEF SessionsInv, NoDanglingRows
<1>10. LockInv'
  BY <1>1 DEF SessionsInv, LockInv, At
<1>11. Grows
  <2>1. calls \in Nat
    BY <1>2 DEF RowsInv
  <2>2. Sids \subseteq Sids'
    BY <1>5
  <2>3. \A s \in Sids : owned'[s] = owned[s]
    BY <1>4
  <2>4. UNCHANGED <<backend, now, calls, gone, doomed, setbacks>>
    BY <1>1
  <2> QED BY <2>1, <2>2, <2>3, <2>4 DEF Grows
<1>12. ASSUME NEW d \in Callers PROVE CallInv(d)'
  <2>1. CallInv(d) /\ call'[d] = call[d]
    BY <1>1 DEF SessionsInv
  <2> QED BY <1>1, <1>4, <1>11, <2>1, CallKept DEF Grows
<1>13. StampsInv'
  <2>1. ASSUME NEW m \in Nat, NEW t \in Nat, Stamped(m, t)' PROVE Stamped(m, t)
    <3>1. ASSUME NEW s \in Sids', NEW i \in 1 .. Len(rows'[s])
          PROVE  s \in Sids /\ rows'[s] = rows[s]
      BY <1>4, <1>5, <3>1
    <3>2. CASE \E s \in Sids' : \E i \in 1 .. Len(rows'[s]) : rows'[s][i].id = m /\ rows'[s][i].at = t
      BY <3>1, <3>2 DEF Stamped
    <3>3. CASE \E d \in Callers : call[d].op = "checkpoint" /\ call[d].snap.id = m /\ call[d].snap.at = t
      BY <3>3 DEF Stamped
    <3> QED BY <1>1, <2>1, <3>2, <3>3 DEF Stamped
  <2> QED BY <1>1, <2>1, StampsKept DEF SessionsInv
<1> QED BY <1>1, <1>6, <1>7, <1>8, <1>9, <1>10, <1>12, <1>13 DEF SessionsInv

LEMMA BeginInv ==
    ASSUME SessionsInv, NEW c \in Callers, NEW op \in {"checkpoint", "resume", "delete"},
           NEW sid \in Sids, NEW owner \in Owners \union {Anyone}, NEW ver \in BOOLEAN,
           Begin(c, op, sid, owner, ver)
    PROVE  SessionsInv'
<1> DEFINE snap == IF op = "checkpoint" THEN [id |-> calls + 1, at |-> now] ELSE [id |-> 0, at |-> 0]
           o == [op |-> op, sid |-> sid, owner |-> owner, late |-> sid \in gone, pc |-> "start",
                 ver |-> ver, snap |-> snap]
<1>1. /\ call[c].op \in {"idle", "done"} /\ call' = [call EXCEPT ![c] = o] /\ calls' = calls + 1
      /\ UNCHANGED <<backend, sessions, rows, lock, now, owned, acked, doomed, gone, setbacks>>
  BY DEF Begin
<1>2. RowsInv /\ HistoryInv /\ calls \in Nat /\ now \in Nat /\ Sids' = Sids
  <2>1. RowsInv /\ HistoryInv /\ Sids' = Sids
    BY <1>1 DEF SessionsInv, Sids
  <2>2. calls \in Nat /\ now \in 0 .. MaxTime
    BY <2>1 DEF RowsInv
  <2>3. now \in Nat
    BY <2>2, SessionsAssumption
  <2> QED BY <2>1, <2>2, <2>3
<1>3. /\ snap \in [id : Nat, at : Nat]
      /\ op = "checkpoint" => snap.id \in 1 .. calls' /\ snap.id = calls + 1 /\ snap.at = now
  <2>1. calls' = calls + 1
    BY <1>1
  <2> QED BY <1>2, <2>1
<1>4. sid \in Nat /\ (sid \in gone) \in BOOLEAN
  BY <1>2 DEF Sids, RowsInv
<1> HIDE DEF snap
<1>5. o \in Busies
  BY <1>3, <1>4 DEF Busies
<1>6. /\ o.op = op /\ o.sid = sid /\ o.owner = owner /\ (o.late <=> sid \in gone)
      /\ o.pc = "start" /\ o.snap = snap
  OBVIOUS
<1>7. call'[c] = o
  BY <1>1 DEF SessionsInv
<1> HIDE DEF o
<1>8. InFlight(c)'
  BY <1>1, <1>2, <1>3, <1>6, <1>7 DEF InFlight
<1>9. CallInv(c)'
  BY <1>5, <1>7, <1>8 DEF CallInv
<1>10. lock # c
  BY <1>1, SessionsAssumption DEF SessionsInv, LockInv, At
<1>11. RowsInv'
  <2>1. 1 .. calls \subseteq 1 .. calls' /\ 0 .. calls \subseteq 0 .. calls'
    BY <1>1, <1>2
  <2>2. ASSUME NEW s \in Sids, NEW i \in 1 .. Len(rows[s]) PROVE rows[s][i].seen <= calls'
    <3>1. rows[s] \in Seq(Rows)
      BY <1>2 DEF RowsInv, Sids
    <3>2. rows[s][i] \in Rows
      BY <3>1
    <3>3. rows[s][i].seen <= calls /\ rows[s][i].seen \in Nat
      BY <1>2, <3>2 DEF RowsInv, Rows
    <3> QED BY <1>1, <1>2, <3>3
  <2> QED BY <1>1, <1>2, <2>1, <2>2 DEF RowsInv
<1>12. HistoryInv'
  BY <1>1, <1>2 DEF HistoryInv
<1>13. CheckpointsKept' /\ NoDanglingRows'
  BY <1>1, <1>2 DEF SessionsInv, CheckpointsKept, NoDanglingRows
<1>14. LockInv'
  BY <1>1, <1>10 DEF SessionsInv, LockInv, At
<1>15. Grows
  BY <1>1, <1>2 DEF Grows
<1>16. DOMAIN call' = Callers /\ \A d \in Callers : CallInv(d)'
  BY <1>1, <1>9, <1>15, OthersKept
<1>17. StampsInv'
  <2>1. ASSUME NEW m \in Nat, NEW t \in Nat, Stamped(m, t)'
        PROVE  Stamped(m, t) \/ (m = calls + 1 /\ t = now)
    <3>1. CASE \E s \in Sids : \E i \in 1 .. Len(rows[s]) : rows[s][i].id = m /\ rows[s][i].at = t
      BY <3>1 DEF Stamped
    <3>2. ASSUME NEW d \in Callers, call'[d].op = "checkpoint",
                 call'[d].snap.id = m, call'[d].snap.at = t
          PROVE  Stamped(m, t) \/ (m = calls + 1 /\ t = now)
      <4>1. CASE d = c
        BY <1>3, <1>6, <1>7, <3>2, <4>1
      <4>2. CASE d # c
        <5>1. call'[d] = call[d]
          BY <1>1, <4>2 DEF SessionsInv
        <5> QED BY <3>2, <5>1 DEF Stamped
      <4> QED BY <4>1, <4>2
    <3> QED BY <1>1, <1>2, <2>1, <3>1, <3>2 DEF Stamped
  <2>2. StampsInv
    BY DEF SessionsInv
  <2>3. ASSUME NEW m \in Nat, NEW n \in Nat, NEW t \in Nat, NEW u \in Nat,
               Stamped(m, t)', Stamped(n, u)', m < n, Steady(m, n, setbacks)
        PROVE  t <= u
    <3>1. CASE Stamped(m, t) /\ Stamped(n, u)
      BY <2>2, <2>3, <3>1 DEF StampsInv
    <3>2. CASE Stamped(m, t) /\ n = calls + 1 /\ u = now
      BY <2>2, <2>3, <3>2 DEF StampsInv
    <3>3. CASE m = calls + 1 /\ t = now
      <4>1. n = calls + 1 \/ n <= calls
        BY <2>1, <2>2, <2>3 DEF StampsInv
      <4> QED BY <1>2, <2>3, <3>3, <4>1
    <3> QED BY <2>1, <2>3, <3>1, <3>2, <3>3
  <2>4. ASSUME NEW m \in Nat, NEW t \in Nat, Stamped(m, t)', Steady(m, calls + 2, setbacks)
        PROVE  t <= now
    <3>1. CASE Stamped(m, t)
      <4>1. Steady(m, calls + 1, setbacks)
        BY <1>2, <2>4 DEF Steady, RowsInv
      <4> QED BY <2>2, <3>1, <4>1 DEF StampsInv
    <3>2. CASE t = now
      BY <1>2, <3>2
    <3> QED BY <2>1, <2>4, <3>1, <3>2
  <2>5. ASSUME NEW m \in Nat, NEW t \in Nat, Stamped(m, t)' PROVE m <= calls + 1
    <3>1. Stamped(m, t) => m <= calls
      BY <2>2 DEF StampsInv
    <3> QED BY <1>2, <2>1, <2>5, <3>1
  <2>6. calls' + 1 = calls + 2 /\ calls' = calls + 1 /\ now' = now /\ setbacks' = setbacks
    BY <1>1, <1>2
  <2> QED BY <2>3, <2>4, <2>5, <2>6 DEF StampsInv
<1> QED BY <1>11, <1>12, <1>13, <1>14, <1>16, <1>17 DEF SessionsInv

LEMMA TickInv == SessionsInv /\ Tick => SessionsInv'
<1> SUFFICES ASSUME SessionsInv, Tick PROVE SessionsInv'
  OBVIOUS
<1>1. /\ now' \in 0 .. MaxTime
      /\ setbacks' = IF now' < now THEN setbacks \union {calls} ELSE setbacks
      /\ UNCHANGED <<backend, sessions, rows, lock, call, calls, owned, acked, doomed, gone>>
  BY DEF Tick, store
<1>2. /\ RowsInv /\ HistoryInv /\ now \in Nat /\ Sids' = Sids /\ calls \in Nat /\ MaxTime \in Nat
      /\ now' \in Nat /\ setbacks \subseteq 0 .. calls
  BY <1>1, SessionsAssumption DEF SessionsInv, RowsInv, Sids
<1>3. setbacks' \subseteq 0 .. calls /\ setbacks \subseteq setbacks'
  BY <1>1, <1>2
<1>4. RowsInv'
  BY <1>1, <1>2, <1>3 DEF RowsInv
<1>5. HistoryInv' /\ CheckpointsKept' /\ NoDanglingRows' /\ LockInv'
  BY <1>1, <1>2 DEF SessionsInv, HistoryInv, CheckpointsKept, NoDanglingRows, LockInv, At
<1>6. ASSUME NEW d \in Callers PROVE CallInv(d)'
  <2>1. CallInv(d) /\ call'[d] = call[d]
    BY <1>1 DEF SessionsInv
  <2> QED BY <1>1, <1>2, <1>3, <2>1, CallKept
<1>7. StampsInv'
  <2>1. StampsInv /\ \A m, t : Stamped(m, t)' <=> Stamped(m, t)
    BY <1>1, <1>2 DEF SessionsInv, Stamped
  <2>2. \A m, n \in Nat : Steady(m, n, setbacks') => Steady(m, n, setbacks)
    BY <1>3 DEF Steady
  <2>3. ASSUME NEW m \in Nat, NEW t \in Nat, Stamped(m, t), Steady(m, calls + 1, setbacks')
        PROVE  t <= now'
    <3>1. m <= calls /\ t <= now
      BY <1>2, <2>1, <2>2, <2>3 DEF StampsInv
    <3>2. CASE now' < now
      <4>1. calls \in setbacks'
        BY <1>1, <3>2
      <4>2. ~(m <= calls /\ calls < calls + 1)
        BY <2>3, <4>1 DEF Steady
      <4> QED BY <1>2, <3>1, <4>2
    <3>3. CASE ~(now' < now)
      BY <1>2, <3>1, <3>3
    <3> QED BY <3>2, <3>3
  <2>4. ASSUME NEW m \in Nat, NEW t \in Nat, Stamped(m, t) PROVE m <= calls
    BY <2>1, <2>4 DEF StampsInv
  <2>5. ASSUME NEW m \in Nat, NEW n \in Nat, NEW t \in Nat, NEW u \in Nat,
               Stamped(m, t), Stamped(n, u), m < n, Steady(m, n, setbacks')
        PROVE  t <= u
    BY <2>1, <2>2, <2>5 DEF StampsInv
  <2>6. calls' = calls
    BY <1>1
  <2> QED BY <2>1, <2>3, <2>4, <2>5, <2>6 DEF StampsInv
<1> QED BY <1>1, <1>4, <1>5, <1>6, <1>7 DEF SessionsInv

\* The process dies: the callers are gone, the memory store is empty, the SQLite
\* store is what its statements made it.
LEMMA CrashInv == SessionsInv /\ Crash => SessionsInv'
<1> SUFFICES ASSUME SessionsInv, Crash PROVE SessionsInv'
  OBVIOUS
<1>1. /\ call' = [c \in Callers |-> Idle] /\ lock' = Free
      /\ UNCHANGED <<backend, now, calls, owned, doomed, setbacks>>
  BY DEF Crash
<1>2. LockInv' /\ DOMAIN call' = Callers /\ \A c \in Callers : CallInv(c)'
  BY <1>1 DEF LockInv, CallInv
<1>3. RowsInv /\ HistoryInv
  BY DEF SessionsInv
<1>6. \A c \in Callers : call'[c].op # "checkpoint"
  BY <1>1 DEF Idle
<1>4. CASE /\ backend = "memory" /\ sessions' = [s \in Sids |-> Gone]
           /\ rows' = [s \in Sids |-> <<>>] /\ acked' = {} /\ gone' = Sids
  <2> DEFINE n == Len(sessions)
  <2>1. n \in Nat /\ Sids = 1 .. n /\ Len(owned) = n
    BY <1>3 DEF RowsInv, Sids
  <2>2. sessions' \in Seq(Owners \union {Gone}) /\ Len(sessions') = n /\ \A s \in 1 .. n : sessions'[s] = Gone
    BY <1>4, <2>1
  <2>3. <<>> \in Seq(Rows) /\ Len(<<>>) = 0
    OBVIOUS
  <2>4. rows' \in Seq(Seq(Rows)) /\ Len(rows') = n /\ \A s \in 1 .. n : rows'[s] = <<>> /\ Len(rows'[s]) = 0
    BY <1>4, <2>1, <2>3
  <2>5. Sids' = Sids
    BY <2>1, <2>2 DEF Sids
  <2> HIDE DEF n
  <2>6. RowsInv'
    BY <1>1, <1>3, <2>1, <2>2, <2>4, <2>5 DEF RowsInv
  <2>7. HistoryInv'
    BY <1>1, <1>3, <1>4, <2>1, <2>2, <2>5 DEF HistoryInv
  <2>8. CheckpointsKept' /\ NoDanglingRows'
    BY <1>1, <1>4 DEF CheckpointsKept, NoDanglingRows
  <2>9. StampsInv'
    <3>1. ASSUME NEW s \in Sids', NEW i \in 1 .. Len(rows'[s]) PROVE FALSE
      BY <2>1, <2>4, <2>5
    <3>2. \A m, t \in Nat : Stamped(m, t)' => Stamped(m, t)
      BY <1>6, <3>1 DEF Stamped
    <3> QED BY <1>1, <3>2, StampsKept DEF SessionsInv
  <2> QED BY <1>2, <2>6, <2>7, <2>8, <2>9 DEF SessionsInv
<1>5. CASE UNCHANGED <<sessions, rows, acked, gone>>
  <2>1. Sids' = Sids
    BY <1>5 DEF Sids
  <2>2. \A m, t \in Nat : Stamped(m, t)' => Stamped(m, t)
    BY <1>5, <1>6, <2>1 DEF Stamped
  <2>3. StampsInv'
    BY <1>1, <2>2, StampsKept DEF SessionsInv
  <2> QED BY <1>1, <1>2, <1>5, <2>1, <2>3
          DEF SessionsInv, RowsInv, HistoryInv, CheckpointsKept, NoDanglingRows, Sids
<1> QED BY <1>4, <1>5 DEF Crash

-----------------------------------------------------------------------------
LEMMA SessionsStep == SessionsInv /\ [Next]_vars => SessionsInv'
<1> SUFFICES ASSUME SessionsInv, [Next]_vars PROVE SessionsInv'
  OBVIOUS
<1>1. ASSUME NEW c \in Callers, NEW o \in Owners, create_session(c, o) PROVE SessionsInv'
  BY <1>1, CreateInv
<1>2. ASSUME NEW c \in Callers, Asks(c) PROVE SessionsInv'
  BY <1>2, BeginInv DEF Asks
<1>3. ASSUME NEW c \in Callers, Proceeds(c) PROVE SessionsInv'
  <2>1. CASE CheckSave(c) \/ WriteSave(c) \/ SqliteSave(c)
    BY <2>1, CheckSaveInv, WriteSaveInv, SqliteSaveInv
  <2>2. CASE LoadSession(c) \/ CheckList(c) \/ ReadList(c) \/ SqliteList(c)
    BY <2>2, LoadSessionInv, CheckListInv, ReadListInv, SqliteListInv
  <2>3. CASE CheckDelete(c) \/ RemoveBoth(c) \/ DeleteRows(c) \/ DeleteSession(c)
    BY <2>3, CheckDeleteInv, RemoveBothInv, DeleteRowsInv, DeleteSessionInv
  <2>4. CASE SqliteFails(c)
    BY <2>4, SqliteFailsInv
  <2> QED BY <1>3, <2>1, <2>2, <2>3, <2>4 DEF Proceeds
<1>4. CASE Tick \/ Crash
  BY <1>4, TickInv, CrashInv
<1>5. CASE UNCHANGED vars
  <2>1. RowsInv' /\ HistoryInv'
    BY <1>5 DEF vars, SessionsInv, RowsInv, HistoryInv, Sids
  <2>2. \A m, t \in Nat : Stamped(m, t)' => Stamped(m, t)
    BY <1>5 DEF vars, Stamped, Sids
  <2>3. StampsInv'
    BY <1>5, <2>2, StampsKept DEF vars, SessionsInv
  <2> QED BY <1>5, <2>1, <2>3 DEF vars, SessionsInv, LockInv, CheckpointsKept, NoDanglingRows,
                            CallInv, InFlight, Answered, Fresher, Sids, At
<1> QED BY <1>1, <1>2, <1>3, <1>4, <1>5 DEF Next

\* Whatever the callers do to each other between their steps, and wherever the
\* process dies, the tables, the history and what each caller relies on stay
\* consistent, on either store.
THEOREM SessionsInvariant == Spec => []SessionsInv
BY SessionsInit, SessionsStep, PTL DEF Spec

\* What was acknowledged is in the store until a delete of its session begins, in
\* SQLite across crashes too, and no SQLite snapshot is without its session, also
\* when a delete is cut short between its two statements (sqlite.rs:319).
THEOREM StoreConsistent == Spec => []StoreInv
<1>1. SessionsInv => StoreInv
  <2> SUFFICES ASSUME SessionsInv PROVE StoreInv
    OBVIOUS
  <2>1. RowsInv /\ HistoryInv /\ LockInv /\ CheckpointsKept /\ NoDanglingRows
    BY DEF SessionsInv
  <2>2. DOMAIN rows = Sids
    BY <2>1 DEF RowsInv, Sids
  <2>3. \A sid \in Sids : \A i \in DOMAIN rows[sid] : rows[sid][i].id \in 1 .. calls
    <3> SUFFICES ASSUME NEW sid \in Sids, NEW i \in DOMAIN rows[sid] PROVE rows[sid][i].id \in 1 .. calls
      OBVIOUS
    <3>1. rows[sid] \in Seq(Rows)
      BY <2>1 DEF RowsInv, Sids
    <3>2. i \in 1 .. Len(rows[sid])
      BY <3>1
    <3> QED BY <2>1, <3>2 DEF RowsInv
  <2>4. TypeOK
    BY <2>1, <2>2, <2>3 DEF TypeOK, RowsInv, HistoryInv, LockInv
  <2> QED BY <2>1, <2>4 DEF StoreInv
<1> QED BY <1>1, SessionsInvariant, PTL

\* A resume returns a checkpoint of the session it asked for, to its owner only.  The
\* in-memory store never passes over one that was begun after the returned one had been
\* stored; SQLite does so only if both have the same millisecond or the clock was set
\* back between the two (memory.rs:76, sqlite.rs:216, 232; checkpoint.rs:12).
THEOREM ResumeIsRight == Spec => []ResumesRight
<1>1. SessionsInv => ResumesRight
  BY DEF SessionsInv, CallInv, Idle, Busies, Answered, ResumesRight, OwnersSeeTheirOwn,
         ResumeNotStale, Resumption, Fresher
<1> QED BY <1>1, SessionsInvariant, PTL

\* Once a delete has returned Ok no operation begun afterwards finds the session,
\* whatever a racing save left behind (memory.rs:66).
THEOREM DeletesAreFinal == Spec => []DeletedStaysDeleted
<1>1. SessionsInv => DeletedStaysDeleted
  BY DEF SessionsInv, CallInv, Idle, Busies, Answered, DeletedStaysDeleted
<1> QED BY <1>1, SessionsInvariant, PTL
=============================================================================
