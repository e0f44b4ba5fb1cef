---------------------------- MODULE PlaneProofs ----------------------------
(***************************************************************************)
(* Proofs about the execution plane, for any number of executions, any     *)
(* workflows, registries and capacity of the bus, and any number of        *)
(* registry changes and faults: what the projections hold is explained by  *)
(* the events that were sent; a rule that was in force when a request came *)
(* binds the graph that is compiled for it; the compiler refuses exactly   *)
(* the cyclic workflows; and the events of an execution tell its answer    *)
(* and its nodes, each once and in an order the graph allows.              *)
(***************************************************************************)
EXTENDS ExecutionPlane, FunctionTheorems, FiniteSetTheorems, NaturalsInduction, TLAPS

Sequence(s) == \E S : s \in Seq(S)

\* The events of one execution are numbered in the order they were sent: along
\* the ring, and from what was dispatched to what is still to be received.
RingInv ==
    /\ published \in Nat /\ Sequence(channel)
    /\ Len(channel) <= CAPACITY /\ Len(channel) <= published
    /\ seq \in [Execs -> Nat]
    /\ \A i \in 1 .. Len(channel) :
          channel[i].exec \in Execs /\ channel[i].seq \in 1 .. seq[channel[i].exec]
    /\ \A i, j \in 1 .. Len(channel) :
          (i < j /\ channel[i].exec = channel[j].exec) => channel[i].seq < channel[j].seq

DispatchedInv ==
    /\ position \in 0 .. published /\ lag_total \in Nat
    /\ IsFiniteSet(dispatched) /\ Cardinality(dispatched) + lag_total = position
    /\ \A ev \in dispatched : ev.exec \in Execs /\ ev.seq \in 1 .. seq[ev.exec]
    /\ \A ev \in dispatched : \A i \in 1 .. Len(channel) :
          (Retained + i > position /\ channel[i].exec = ev.exec) => ev.seq < channel[i].seq
    /\ \A ev, ew \in dispatched : (ev.exec = ew.exec /\ ev.seq = ew.seq) => ev = ew

\* A file holds events of its execution that were dispatched and are no longer being
\* written, no number twice.
FileOk(file, e, seen, pending) ==
    /\ Sequence(file)
    /\ \A i \in 1 .. Len(file) : file[i] \in seen /\ file[i] \notin pending /\ file[i].exec = e
    /\ \A i, j \in 1 .. Len(file) : file[i].seq = file[j].seq => i = j

InFile(file, ev) == \E i \in 1 .. Len(file) : file[i] = ev

\* The files hold what was dispatched.
FilesInv ==
    /\ writing \subseteq dispatched
    /\ \A e \in Execs : FileOk(stored[e], e, dispatched, writing)
    /\ stored = [e \in Execs |-> stored[e]]
    /\ checkpoints \subseteq dispatched
    /\ \A c \in checkpoints : c.kind = "NodeFinished" /\ c.seq \in saved
    /\ \A c, d \in checkpoints : c.seq = d.seq => c = d
    /\ faults \in Nat
    /\ faults = 0 =>
          /\ \A ev \in dispatched : ev \in writing \/ InFile(stored[ev.exec], ev)
          /\ \A ev \in dispatched : ev.kind = "NodeFinished" => ev.seq \in saved
          /\ \A n \in saved : \E c \in checkpoints : c.seq = n

\* An event is the one its execution emitted under its number.
SentAs(log, ev) == log[ev.exec][ev.seq] = [kind |-> ev.kind, node |-> ev.node]

CountInv ==
    /\ \A e \in Execs : Sequence(emitted[e]) /\ seq[e] = Len(emitted[e])
    /\ emitted = [e \in Execs |-> emitted[e]]
    /\ \A i \in 1 .. Len(channel) : SentAs(emitted, channel[i])
    /\ \A ev \in dispatched : SentAs(emitted, ev)

RulesInv == rules \subseteq Rules /\ held \in [Execs -> SUBSET Rules]

ProjectionInv == RingInv /\ DispatchedInv /\ FilesInv /\ CountInv /\ RulesInv

-----------------------------------------------------------------------------
(* Sequences. *)

LEMMA EmptySequence == Sequence(<<>>) /\ Len(<<>>) = 0
<1>1. <<>> \in Seq({})
  OBVIOUS
<1> QED BY <1>1 DEF Sequence

LEMMA AppendSequence ==
    ASSUME NEW s, Sequence(s), NEW x
    PROVE  /\ Sequence(Append(s, x)) /\ Len(s) \in Nat /\ Len(Append(s, x)) = Len(s) + 1
           /\ \A i \in 1 .. Len(s) : Append(s, x)[i] = s[i]
           /\ Append(s, x)[Len(s) + 1] = x
<1>1. PICK S : s \in Seq(S)
  BY DEF Sequence
<1>2. s \in Seq(S \union {x})
  BY <1>1
<1>3. Append(s, x) \in Seq(S \union {x}) /\ Len(Append(s, x)) = Len(s) + 1 /\ Len(s) \in Nat
  BY <1>2
<1>4. \A i \in 1 .. Len(s) : Append(s, x)[i] = s[i]
  BY <1>2
<1>5. Append(s, x)[Len(s) + 1] = x
  BY <1>2
<1> QED BY <1>3, <1>4, <1>5 DEF Sequence

LEMMA TailSequence ==
    ASSUME NEW s, Sequence(s), Len(s) > 0
    PROVE  /\ Sequence(Tail(s)) /\ Len(s) \in Nat /\ Len(Tail(s)) = Len(s) - 1
           /\ \A i \in 1 .. Len(s) - 1 : Tail(s)[i] = s[i + 1]
<1>1. PICK S : s \in Seq(S)
  BY DEF Sequence
<1>2. s # <<>>
  BY <1>1
<1>3. Tail(s) \in Seq(S) /\ Len(Tail(s)) = Len(s) - 1 /\ Len(s) \in Nat
  BY <1>1, <1>2
<1>4. \A i \in 1 .. Len(s) - 1 : Tail(s)[i] = s[i + 1]
  BY <1>1, <1>2
<1> QED BY <1>3, <1>4 DEF Sequence

\* Publishing shifts the ring by the event it drops, if any.
LEMMA PublishShifts ==
    ASSUME RingInv, NEW ev, Publish(ev)
    PROVE  \E d \in {0, 1} :
              /\ Sequence(channel') /\ Len(channel) \in Nat
              /\ Len(channel') = Len(channel) + 1 - d
              /\ Len(channel') <= CAPACITY /\ Len(channel') <= published'
              /\ Retained' = Retained + d
              /\ \A i \in 1 .. Len(channel') - 1 : channel'[i] = channel[i + d]
              /\ channel'[Len(channel')] = ev
              /\ published' = published + 1
<1>0. CAPACITY \in Nat \ {0}
  BY PlaneAssumption
<1>1. CASE Len(channel) = CAPACITY
  <2>1. channel' = Append(Tail(channel), ev) /\ published' = published + 1
    BY <1>1 DEF Publish
  <2> DEFINE t == Tail(channel)
  <2>2. /\ Sequence(t) /\ Len(channel) \in Nat /\ Len(t) = Len(channel) - 1
        /\ \A i \in 1 .. Len(channel) - 1 : t[i] = channel[i + 1]
    BY <1>0, <1>1, TailSequence DEF RingInv
  <2>3. channel' = Append(t, ev)
    BY <2>1
  <2> HIDE DEF t
  <2>4. /\ Sequence(channel') /\ Len(channel') = Len(t) + 1
        /\ \A i \in 1 .. Len(t) : channel'[i] = t[i]
        /\ channel'[Len(t) + 1] = ev
    BY <2>2, <2>3, AppendSequence
  <2>5. Retained' = Retained + 1
    <3>1. Len(channel') = Len(channel) /\ published \in Nat
      BY <2>2, <2>4 DEF RingInv
    <3>2. published' = published + 1 /\ Len(channel) \in Nat
      BY <2>1, <2>2
    <3> QED BY <3>1, <3>2 DEF Retained
  <2> WITNESS 1 \in {0, 1}
  <2> QED BY <1>0, <1>1, <2>1, <2>2, <2>4, <2>5 DEF RingInv
<1>2. CASE Len(channel) # CAPACITY
  <2>1. channel' = Append(channel, ev) /\ published' = published + 1
    BY <1>2 DEF Publish
  <2>4. /\ Sequence(channel') /\ Len(channel) \in Nat /\ Len(channel') = Len(channel) + 1
        /\ \A i \in 1 .. Len(channel) : channel'[i] = channel[i]
        /\ channel'[Len(channel) + 1] = ev
    BY <2>1, AppendSequence DEF RingInv
  <2>5. Retained' = Retained + 0
    BY <2>1, <2>4 DEF Retained, RingInv
  <2> WITNESS 0 \in {0, 1}
  <2> QED BY <1>0, <1>2, <2>1, <2>4, <2>5 DEF RingInv
<1> QED BY <1>1, <1>2

-----------------------------------------------------------------------------
(* An event is sent. *)

LEMMA EmitKeeps ==
    ASSUME ProjectionInv, NEW e \in Execs, NEW kind, NEW node, emit(e, kind, node),
           UNCHANGED listener, UNCHANGED faults
    PROVE  RingInv' /\ DispatchedInv' /\ FilesInv' /\ CountInv'
<1> DEFINE ev == Event(e, seq[e] + 1, kind, node)
<1>1. /\ ev.exec = e /\ ev.seq = seq[e] + 1
      /\ ev.kind = kind /\ ev.node = node
  BY DEF Event
<1>2. Publish(ev)
  BY DEF emit
<1> HIDE DEF ev
<1>3. PICK d \in {0, 1} :
              /\ Sequence(channel') /\ Len(channel) \in Nat
              /\ Len(channel') = Len(channel) + 1 - d
              /\ Len(channel') <= CAPACITY /\ Len(channel') <= published'
              /\ Retained' = Retained + d
              /\ \A i \in 1 .. Len(channel') - 1 : channel'[i] = channel[i + d]
              /\ channel'[Len(channel')] = ev
              /\ published' = published + 1
  BY <1>2, PublishShifts DEF ProjectionInv
<1> DEFINE n == Len(channel')
<1>5. seq' = [seq EXCEPT ![e] = @ + 1] /\ seq \in [Execs -> Nat]
  BY DEF emit, ProjectionInv, RingInv
<1>6. seq' \in [Execs -> Nat] /\ seq'[e] = seq[e] + 1 /\ \A f \in Execs : seq[f] <= seq'[f]
  BY <1>5
<1>7. UNCHANGED <<position, lag_total, dispatched, writing, stored, saved, checkpoints>>
  BY DEF listener
<1>4. /\ n \in Nat /\ channel'[n] = ev
       /\ \A i \in 1 .. n : i < n => (i + d \in 1 .. Len(channel) /\ channel'[i] = channel[i + d])
  <2>1. n \in Nat /\ d \in Nat /\ Len(channel) \in Nat /\ n = Len(channel) + 1 - d
    BY <1>3
  <2> QED BY <1>3, <2>1
<1>8. RingInv'
  <2>1. ASSUME NEW i \in 1 .. n
        PROVE  channel'[i].exec \in Execs /\ channel'[i].seq \in 1 .. seq'[channel'[i].exec]
    <3>1. CASE i = n
      BY <3>1, <1>1, <1>3, <1>5, <1>6
    <3>2. CASE i < n
      <4>1. i + d \in 1 .. Len(channel) /\ channel'[i] = channel[i + d]
        BY <3>2, <1>4
      <4>2. channel[i + d].exec \in Execs /\ channel[i + d].seq \in 1 .. seq[channel[i + d].exec]
        BY <4>1 DEF ProjectionInv, RingInv
      <4> QED BY <4>1, <4>2, <1>5, <1>6
    <3> QED BY <3>1, <3>2, <1>3
  <2>2. ASSUME NEW i \in 1 .. n, NEW j \in 1 .. n, i < j, channel'[i].exec = channel'[j].exec
        PROVE  channel'[i].seq < channel'[j].seq
    <3>1. i < n /\ i + d \in 1 .. Len(channel) /\ channel'[i] = channel[i + d]
      BY <2>2, <1>4
    <3>2. channel[i + d].exec \in Execs /\ channel[i + d].seq \in 1 .. seq[channel[i + d].exec]
      BY <3>1 DEF ProjectionInv, RingInv
    <3>3. CASE j = n
      <4>1. channel'[j].exec = e /\ channel'[j].seq = seq[e] + 1
        BY <3>3, <1>1, <1>4
      <4>2. channel'[i].exec = e /\ channel'[i].seq \in 1 .. seq[e] /\ seq[e] \in Nat
        BY <2>2, <3>1, <3>2, <4>1, <1>5
      <4> QED BY <4>1, <4>2
    <3>4. CASE j < n
      <4>1. j + d \in 1 .. Len(channel) /\ channel'[j] = channel[j + d] /\ i + d < j + d
        BY <2>2, <3>4, <1>4
      <4> QED BY <2>2, <3>1, <4>1 DEF ProjectionInv, RingInv
    <3> QED BY <3>3, <3>4, <1>3
  <2>3. published' \in Nat
    BY <1>3 DEF ProjectionInv, RingInv
  <2> QED BY <1>3, <1>6, <2>1, <2>2, <2>3 DEF RingInv
<1>9. DispatchedInv'
  <2>1. position' \in 0 .. published' /\ lag_total' \in Nat
    BY <1>3, <1>7 DEF ProjectionInv, DispatchedInv, RingInv
  <2>2. IsFiniteSet(dispatched') /\ Cardinality(dispatched') + lag_total' = position'
    BY <1>7 DEF ProjectionInv, DispatchedInv
  <2>3. ASSUME NEW w \in dispatched PROVE w.exec \in Execs /\ w.seq \in 1 .. seq'[w.exec]
    <3>1. w.exec \in Execs /\ w.seq \in 1 .. seq[w.exec]
      BY DEF ProjectionInv, DispatchedInv
    <3> QED BY <3>1, <1>5, <1>6
  <2>4. ASSUME NEW w \in dispatched, NEW i \in 1 .. n,
               Retained' + i > position', channel'[i].exec = w.exec
        PROVE  w.seq < channel'[i].seq
    <3>1. w.exec \in Execs /\ w.seq \in 1 .. seq[w.exec]
      BY DEF ProjectionInv, DispatchedInv
    <3>2. CASE i = n
      <4>1. channel'[i].exec = e /\ channel'[i].seq = seq[e] + 1
        BY <3>2, <1>1, <1>4
      <4>2. w.seq \in 1 .. seq[e] /\ seq[e] \in Nat
        BY <2>4, <3>1, <4>1, <1>5
      <4> QED BY <4>1, <4>2
    <3>3. CASE i < n
      <4>1. i + d \in 1 .. Len(channel) /\ channel'[i] = channel[i + d]
        BY <3>3, <1>4
      <4>2. Retained + (i + d) > position
        BY <2>4, <1>3, <1>7 DEF Retained, ProjectionInv, RingInv
      <4> QED BY <2>4, <4>1, <4>2 DEF ProjectionInv, DispatchedInv
    <3> QED BY <3>2, <3>3, <1>3
  <2>5. \A w, x \in dispatched' : (w.exec = x.exec /\ w.seq = x.seq) => w = x
    BY <1>7 DEF ProjectionInv, DispatchedInv
  <2> QED BY <1>7, <2>1, <2>2, <2>3, <2>4, <2>5 DEF DispatchedInv
<1>10. FilesInv'
  BY <1>7 DEF ProjectionInv, FilesInv
<1>11. CountInv'
  <2> DEFINE x == [kind |-> kind, node |-> node]
  <2>1. emitted' = [emitted EXCEPT ![e] = Append(@, x)] /\ emitted = [f \in Execs |-> emitted[f]]
    BY DEF emit, ProjectionInv, CountInv
  <2> HIDE DEF x
  <2>2. emitted'[e] = Append(emitted[e], x) /\ \A f \in Execs \ {e} : emitted'[f] = emitted[f]
    BY <2>1
  <2>3. emitted' = [f \in Execs |-> emitted'[f]]
    BY <2>1
  <2>4. /\ Sequence(emitted'[e]) /\ Len(emitted'[e]) = Len(emitted[e]) + 1
        /\ \A i \in 1 .. Len(emitted[e]) : emitted'[e][i] = emitted[e][i]
        /\ emitted'[e][Len(emitted[e]) + 1] = x
    BY <2>2, AppendSequence DEF ProjectionInv, CountInv
  <2>5. ASSUME NEW f \in Execs PROVE Sequence(emitted'[f]) /\ seq'[f] = Len(emitted'[f])
    <3>1. CASE f = e
      BY <3>1, <2>4, <1>6 DEF ProjectionInv, CountInv
    <3>2. CASE f # e
      BY <3>2, <2>2, <1>5 DEF ProjectionInv, CountInv
    <3> QED BY <3>1, <3>2
  <2>6. ASSUME NEW w, w.exec \in Execs, w.seq \in 1 .. seq[w.exec], SentAs(emitted, w)
        PROVE  SentAs(emitted', w)
    <3>1. seq[w.exec] = Len(emitted[w.exec])
      BY <2>6 DEF ProjectionInv, CountInv
    <3>2. emitted'[w.exec][w.seq] = emitted[w.exec][w.seq]
      BY <2>6, <3>1, <2>2, <2>4
    <3> QED BY <2>6, <3>2 DEF SentAs
  <2>7. ASSUME NEW i \in 1 .. n PROVE SentAs(emitted', channel'[i])
    <3>1. CASE i = n
      <4>1. channel'[i] = ev /\ seq[e] = Len(emitted[e])
        BY <3>1, <1>4 DEF ProjectionInv, CountInv
      <4>2. emitted'[ev.exec][ev.seq] = x /\ x = [kind |-> ev.kind, node |-> ev.node]
        BY <4>1, <2>4, <1>1 DEF x
      <4> QED BY <4>1, <4>2 DEF SentAs
    <3>2. CASE i < n
      <4>1. i + d \in 1 .. Len(channel) /\ channel'[i] = channel[i + d]
        BY <3>2, <1>4
      <4>2. channel[i + d].exec \in Execs /\ channel[i + d].seq \in 1 .. seq[channel[i + d].exec]
        BY <4>1 DEF ProjectionInv, RingInv
      <4>3. SentAs(emitted, channel[i + d])
        BY <4>1 DEF ProjectionInv, CountInv
      <4> QED BY <4>1, <4>2, <4>3, <2>6
    <3> QED BY <3>1, <3>2, <1>4
  <2>8. ASSUME NEW w \in dispatched' PROVE SentAs(emitted', w)
    <3>1. w \in dispatched
      BY <1>7
    <3>2. w.exec \in Execs /\ w.seq \in 1 .. seq[w.exec]
      BY <3>1 DEF ProjectionInv, DispatchedInv
    <3>3. SentAs(emitted, w)
      BY <3>1 DEF ProjectionInv, CountInv
    <3> QED BY <3>2, <3>3, <2>6
  <2> QED BY <2>3, <2>5, <2>7, <2>8 DEF CountInv
<1> QED BY <1>8, <1>9, <1>10, <1>11

-----------------------------------------------------------------------------
(* The listener. *)

LEMMA LaggedKeeps ==
    ASSUME ProjectionInv, Lagged
    PROVE  RingInv' /\ DispatchedInv' /\ FilesInv' /\ CountInv'
<1>1. /\ position < Retained /\ lag_total' = lag_total + (Retained - position)
      /\ position' = Retained
      /\ UNCHANGED <<channel, published, seq, emitted, dispatched, writing, stored, saved,
                     checkpoints, faults>>
  BY DEF Lagged, bus, exec
<1>2. Retained \in 0 .. published /\ Retained' = Retained /\ position \in Nat /\ lag_total \in Nat
  <2>1. Len(channel) \in Nat
    BY AppendSequence DEF ProjectionInv, RingInv
  <2> QED BY <1>1, <2>1 DEF Retained, ProjectionInv, RingInv, DispatchedInv
<1>3. RingInv' /\ FilesInv' /\ CountInv'
  BY <1>1 DEF ProjectionInv, RingInv, FilesInv, CountInv
<1>4. IsFiniteSet(dispatched) /\ Cardinality(dispatched) \in Nat
  BY FS_CardinalityType DEF ProjectionInv, DispatchedInv
<1>5. Cardinality(dispatched') + lag_total' = position' /\ lag_total' \in Nat
  BY <1>1, <1>2, <1>4 DEF ProjectionInv, DispatchedInv
<1>6. ASSUME NEW ev \in dispatched, NEW i \in 1 .. Len(channel),
             Retained + i > Retained, channel[i].exec = ev.exec
      PROVE  ev.seq < channel[i].seq
  <2>1. Retained + i > position
    BY <1>1, <1>2
  <2> QED BY <1>6, <2>1 DEF ProjectionInv, DispatchedInv
<1>7. DispatchedInv'
  BY <1>1, <1>2, <1>4, <1>5, <1>6 DEF ProjectionInv, DispatchedInv
<1> QED BY <1>3, <1>7

LEMMA DispatchKeeps ==
    ASSUME ProjectionInv, Dispatch
    PROVE  RingInv' /\ DispatchedInv' /\ FilesInv' /\ CountInv'
<1> DEFINE k == position - Retained + 1
           ev == channel[k]
<1>1. /\ position >= Retained /\ position < published /\ position' = position + 1
      /\ UNCHANGED <<channel, published, seq, emitted, lag_total, stored>>
  BY DEF Dispatch, bus, exec
<1>2. PICK fails \in {{}, {"store"}, {"checkpoint"}} :
        /\ faults' = faults + Cardinality(fails)
        /\ Store(ev, "store" \in fails)
        /\ Checkpoint(ev, "checkpoint" \in fails)
        /\ dispatched' = dispatched \union {ev}
  BY DEF Dispatch
<1>3. Len(channel) \in Nat
  BY AppendSequence DEF ProjectionInv, RingInv
<1>4. k \in 1 .. Len(channel) /\ Retained + k = position + 1 /\ Retained \in Nat
      /\ Retained' = Retained /\ position \in Nat
  BY <1>1, <1>3 DEF Retained, ProjectionInv, RingInv, DispatchedInv
<1>5. ev.exec \in Execs /\ ev.seq \in 1 .. seq[ev.exec]
  BY <1>4 DEF ProjectionInv, RingInv
<1>6. \A w \in dispatched : w.exec = ev.exec => w.seq < ev.seq
  BY <1>4 DEF ProjectionInv, DispatchedInv
<1>7. ASSUME NEW i \in 1 .. Len(channel), Retained + i > position + 1, channel[i].exec = ev.exec
      PROVE  ev.seq < channel[i].seq
  <2>1. k < i
    BY <1>4, <1>7
  <2> QED BY <1>4, <1>7, <2>1 DEF ProjectionInv, RingInv
<1> HIDE DEF ev, k
<1>8. ev \notin dispatched
  BY <1>5, <1>6
<1>9. Cardinality(fails) \in Nat /\ (Cardinality(fails) = 0 => fails = {})
  <2>1. Cardinality({}) = 0 /\ Cardinality({"store"}) = 1 /\ Cardinality({"checkpoint"}) = 1
    BY FS_EmptySet, FS_Singleton, Zenon
  <2>2. fails = {} \/ Cardinality(fails) = 1
    BY <2>1
  <2> QED BY <2>1, <2>2
<1>0. SentAs(emitted, ev)
  BY <1>4 DEF ev, ProjectionInv, CountInv
<1>10. RingInv' /\ CountInv'
  <2>1. RingInv'
    BY <1>1 DEF ProjectionInv, RingInv
  <2>2. \A w \in dispatched' : SentAs(emitted, w)
    BY <1>0, <1>2 DEF ProjectionInv, CountInv
  <2> QED BY <1>1, <2>1, <2>2 DEF ProjectionInv, CountInv
<1>11. DispatchedInv'
  <2>1. IsFiniteSet(dispatched') /\ Cardinality(dispatched') = Cardinality(dispatched) + 1
        /\ Cardinality(dispatched) \in Nat
    BY <1>2, <1>8, FS_AddElement, FS_CardinalityType DEF ProjectionInv, DispatchedInv
  <2>2. position' \in 0 .. published' /\ lag_total' \in Nat
        /\ Cardinality(dispatched') + lag_total' = position'
    <3>1. Cardinality(dispatched) + lag_total = position /\ lag_total \in Nat /\ published \in Nat
      BY DEF ProjectionInv, DispatchedInv, RingInv
    <3> QED BY <1>1, <1>4, <2>1, <3>1
  <2>3. \A w \in dispatched' : w.exec \in Execs /\ w.seq \in 1 .. seq'[w.exec]
    BY <1>1, <1>2, <1>5 DEF ProjectionInv, DispatchedInv
  <2>4. ASSUME NEW w \in dispatched', NEW i \in 1 .. Len(channel'),
               Retained' + i > position', channel'[i].exec = w.exec
        PROVE  w.seq < channel'[i].seq
    <3>1. i \in 1 .. Len(channel) /\ Retained + i > position + 1 /\ channel[i].exec = w.exec
      BY <1>1, <1>4, <2>4
    <3>2. CASE w = ev
      BY <3>1, <3>2, <1>1, <1>7
    <3>3. CASE w \in dispatched
      <4>1. Retained + i > position
        BY <3>1, <1>4
      <4> QED BY <3>1, <3>3, <4>1, <1>1 DEF ProjectionInv, DispatchedInv
    <3> QED BY <3>2, <3>3, <1>2
  <2>5. ASSUME NEW w \in dispatched', NEW x \in dispatched', w.exec = x.exec, w.seq = x.seq
        PROVE  w = x
    <3>1. CASE w \in dispatched /\ x \in dispatched
      BY <2>5, <3>1 DEF ProjectionInv, DispatchedInv
    <3>2. CASE w = ev /\ x \in dispatched
      BY <2>5, <3>2, <1>5, <1>6
    <3>3. CASE x = ev /\ w \in dispatched
      BY <2>5, <3>3, <1>5, <1>6
    <3> QED BY <3>1, <3>2, <3>3, <1>2
  <2> QED BY <2>1, <2>2, <2>3, <2>4, <2>5 DEF DispatchedInv
<1>12. writing \subseteq dispatched /\ writing' \in {writing, writing \union {ev}}
  BY <1>2 DEF Store, ProjectionInv, FilesInv
<1>13. \A e \in Execs : FileOk(stored'[e], e, dispatched', writing')
  <2>1. \A e \in Execs : FileOk(stored[e], e, dispatched, writing)
    BY DEF ProjectionInv, FilesInv
  <2>2. stored' = stored
    BY <1>1
  <2> QED BY <2>1, <2>2, <1>2, <1>8, <1>12 DEF FileOk
<1>14. /\ checkpoints' \subseteq dispatched'
       /\ \A c \in checkpoints' : c.kind = "NodeFinished" /\ c.seq \in saved'
       /\ \A c, d \in checkpoints' : c.seq = d.seq => c = d
  BY <1>2 DEF ProjectionInv, FilesInv, Checkpoint
<1>15. faults' \in Nat /\ (faults' = 0 => (faults = 0 /\ fails = {}))
  BY <1>2, <1>9 DEF ProjectionInv, FilesInv
<1>16. ASSUME faults' = 0
       PROVE  /\ \A w \in dispatched' : w \in writing' \/ InFile(stored'[w.exec], w)
              /\ \A w \in dispatched' : w.kind = "NodeFinished" => w.seq \in saved'
              /\ \A n \in saved' : \E c \in checkpoints' : c.seq = n
  <2>1. /\ \A w \in dispatched : w \in writing \/ InFile(stored[w.exec], w)
        /\ \A w \in dispatched : w.kind = "NodeFinished" => w.seq \in saved
        /\ \A n \in saved : \E c \in checkpoints : c.seq = n
        /\ fails = {}
    BY <1>15, <1>16 DEF ProjectionInv, FilesInv
  <2>2. Checkpoint(ev, FALSE)
    <3>1. ("checkpoint" \in fails) = FALSE
      BY <2>1
    <3> QED BY <1>2, <3>1, Zenon
  <2>3. writing' = writing \union {ev}
    BY <1>2, <2>1 DEF Store
  <2>4. \A w \in dispatched' : w \in writing' \/ InFile(stored'[w.exec], w)
    BY <1>1, <1>2, <2>1, <2>3
  <2> QED BY <1>2, <2>1, <2>2, <2>4 DEF Checkpoint
<1>17. stored' = [e \in Execs |-> stored'[e]] /\ writing' \subseteq dispatched'
  BY <1>1, <1>2, <1>12 DEF ProjectionInv, FilesInv
<1>18. FilesInv'
  BY <1>13, <1>14, <1>15, <1>16, <1>17 DEF FilesInv
<1> QED BY <1>10, <1>11, <1>18

-----------------------------------------------------------------------------
(* The blocking threads. *)

LEMMA WriteLandsKeeps ==
    ASSUME ProjectionInv, NEW ev \in writing, WriteLands(ev)
    PROVE  RingInv' /\ DispatchedInv' /\ FilesInv' /\ CountInv'
<1>1. /\ UNCHANGED <<channel, published, position, lag_total, seq, emitted, dispatched, saved,
                     checkpoints, faults>>
      /\ writing' = writing \ {ev}
      /\ stored' = [stored EXCEPT ![ev.exec] = Append(@, ev)]
  BY DEF WriteLands, bus, exec
<1>2. RingInv' /\ CountInv'
  BY <1>1 DEF ProjectionInv, RingInv, CountInv
<1>3. DispatchedInv'
  BY <1>1 DEF ProjectionInv, DispatchedInv, Retained
<1>4. ev \in dispatched /\ ev.exec \in Execs /\ stored = [e \in Execs |-> stored[e]]
  BY DEF ProjectionInv, FilesInv, DispatchedInv
<1> DEFINE s == stored[ev.exec]
           t == Append(s, ev)
<1>5. FileOk(s, ev.exec, dispatched, writing)
  BY <1>4 DEF ProjectionInv, FilesInv
<1>6. stored'[ev.exec] = t /\ \A e \in Execs : e # ev.exec => stored'[e] = stored[e]
  BY <1>1, <1>4
<1>7. stored' = [e \in Execs |-> stored'[e]]
  BY <1>1, <1>4
<1>8. /\ Sequence(t) /\ Len(s) \in Nat /\ Len(t) = Len(s) + 1
      /\ \A i \in 1 .. Len(s) : t[i] = s[i]
      /\ t[Len(s) + 1] = ev
  BY <1>5, AppendSequence DEF FileOk
<1> HIDE DEF s, t
<1>9. \A i \in 1 .. Len(s) : s[i] \in dispatched /\ s[i] \notin writing /\ s[i].exec = ev.exec
  BY <1>5 DEF FileOk
<1>10. \A i \in 1 .. Len(s) : s[i].seq # ev.seq
  BY <1>4, <1>9 DEF ProjectionInv, DispatchedInv
<1>11. FileOk(t, ev.exec, dispatched, writing')
  <2>1. \A i \in 1 .. Len(t) : t[i] \in dispatched /\ t[i] \notin writing' /\ t[i].exec = ev.exec
    BY <1>1, <1>4, <1>8, <1>9
  <2>2. ASSUME NEW i \in 1 .. Len(t), NEW j \in 1 .. Len(t), t[i].seq = t[j].seq PROVE i = j
    BY <2>2, <1>5, <1>8, <1>10 DEF FileOk
  <2> QED BY <1>8, <2>1, <2>2 DEF FileOk
<1>12. \A e \in Execs : FileOk(stored'[e], e, dispatched, writing')
  <2>1. \A e \in Execs : FileOk(stored[e], e, dispatched, writing')
    BY <1>1 DEF ProjectionInv, FilesInv, FileOk
  <2> QED BY <2>1, <1>6, <1>11
<1>13. ASSUME faults = 0, NEW w \in dispatched
       PROVE  w \in writing' \/ InFile(stored'[w.exec], w)
  <2>1. w \in writing \/ InFile(stored[w.exec], w)
    BY <1>13 DEF ProjectionInv, FilesInv
  <2>2. w.exec \in Execs
    BY DEF ProjectionInv, DispatchedInv
  <2>3. CASE w = ev
    <3>1. Len(s) + 1 \in 1 .. Len(t) /\ t[Len(s) + 1] = w
      BY <2>3, <1>8
    <3> QED BY <2>3, <3>1, <1>6 DEF InFile
  <2>4. CASE w \in writing /\ w # ev
    BY <2>4, <1>1
  <2>5. CASE InFile(stored[w.exec], w) /\ w.exec = ev.exec
    <3>1. PICK i \in 1 .. Len(s) : s[i] = w
      BY <2>5 DEF InFile, s
    <3>2. i \in 1 .. Len(t) /\ t[i] = w
      BY <3>1, <1>8
    <3> QED BY <2>5, <3>2, <1>6 DEF InFile
  <2>6. CASE InFile(stored[w.exec], w) /\ w.exec # ev.exec
    BY <2>2, <2>6, <1>6
  <2> QED BY <2>1, <2>3, <2>4, <2>5, <2>6
<1>14. FilesInv'
  BY <1>1, <1>7, <1>12, <1>13 DEF ProjectionInv, FilesInv
<1> QED BY <1>2, <1>3, <1>14

LEMMA WriteIsLostKeeps ==
    ASSUME ProjectionInv, NEW ev \in writing, WriteIsLost(ev)
    PROVE  RingInv' /\ DispatchedInv' /\ FilesInv' /\ CountInv'
<1>1. /\ UNCHANGED <<channel, published, position, lag_total, seq, emitted, dispatched, stored,
                     saved, checkpoints>>
      /\ writing' = writing \ {ev} /\ faults' = faults + 1
  BY DEF WriteIsLost, bus, exec
<1>2. RingInv' /\ CountInv'
  BY <1>1 DEF ProjectionInv, RingInv, CountInv
<1>3. DispatchedInv'
  BY <1>1 DEF ProjectionInv, DispatchedInv, Retained
<1>4. faults' \in Nat /\ faults' # 0
  BY <1>1 DEF ProjectionInv, FilesInv
<1>5. \A e \in Execs : FileOk(stored[e], e, dispatched, writing')
  BY <1>1 DEF ProjectionInv, FilesInv, FileOk
<1>6. FilesInv'
  BY <1>1, <1>4, <1>5 DEF ProjectionInv, FilesInv
<1> QED BY <1>2, <1>3, <1>6

-----------------------------------------------------------------------------
(* Steps that send nothing and receive nothing. *)

LEMMA QuietKeeps ==
    ASSUME ProjectionInv, UNCHANGED <<seq, emitted, bus, listener>>,
           faults' \in {faults, faults + 1}
    PROVE  RingInv' /\ DispatchedInv' /\ FilesInv' /\ CountInv'
<1>1. UNCHANGED <<seq, emitted, channel, published, position, lag_total, dispatched, writing,
                  stored, saved, checkpoints>>
  BY DEF bus, listener
<1>2. RingInv' /\ CountInv'
  BY <1>1 DEF ProjectionInv, RingInv, CountInv
<1>3. DispatchedInv'
  BY <1>1 DEF ProjectionInv, DispatchedInv, Retained
<1>4. faults' \in Nat /\ (faults' = 0 => faults = 0)
  BY DEF ProjectionInv, FilesInv
<1>5. FilesInv'
  BY <1>1, <1>4 DEF ProjectionInv, FilesInv
<1> QED BY <1>2, <1>3, <1>5

-----------------------------------------------------------------------------
(* What the projections hold. *)

LEMMA ProjectionStart == Init => ProjectionInv
<1> SUFFICES ASSUME Init PROVE ProjectionInv
  OBVIOUS
<1>1. RingInv
  BY EmptySequence, PlaneAssumption DEF Init, RingInv
<1>2. DispatchedInv
  <2>1. IsFiniteSet(dispatched) /\ Cardinality(dispatched) = 0
    BY FS_EmptySet DEF Init
  <2> QED BY <2>1 DEF Init, DispatchedInv
<1>3. FilesInv
  <2>1. \A e \in Execs : FileOk(stored[e], e, dispatched, writing)
    BY EmptySequence DEF Init, FileOk
  <2> QED BY <2>1 DEF Init, FilesInv
<1>4. CountInv
  BY EmptySequence DEF Init, CountInv
<1>5. RulesInv
  BY PlaneAssumption DEF Init, RulesInv
<1> QED BY <1>1, <1>2, <1>3, <1>4, <1>5 DEF ProjectionInv

\* The registry changes by the rules an administrator may declare, and the rules an
\* execution is held to come from it.
LEMMA RulesStep ==
    ASSUME RulesInv, [Next]_vars
    PROVE  RulesInv'
<1> USE DEF RulesInv
<1>1. ASSUME NEW e \in Execs, Submit(e) PROVE RulesInv'
  BY <1>1 DEF Submit
<1>2. ASSUME NEW r \in Rules, apply_policy(r) PROVE RulesInv'
  BY <1>2 DEF apply_policy, Without
<1>3. ASSUME NEW r \in Rules, remove_policy(r) PROVE RulesInv'
  BY <1>3 DEF remove_policy, Without
<1>4. ASSUME UNCHANGED <<rules, held>> PROVE RulesInv'
  BY <1>4
<1>5. ASSUME NEW e \in Execs, SessionFails(e) \/ RunRefused(e) \/ ClientGone(e)
      PROVE UNCHANGED <<rules, held>>
  BY <1>5 DEF SessionFails, RunRefused, ClientGone
<1>6. ASSUME NEW e \in Execs, Works(e) PROVE UNCHANGED <<rules, held>>
  BY <1>6 DEF Works, ReadPolicy, Compile, Run, ReportNodeFailed, ReportFailure, Replay,
              ReplayNode, Complete
<1>7. ASSUME Listens PROVE UNCHANGED <<rules, held>>
  BY <1>7 DEF Listens, Lagged, Dispatch
<1>8. ASSUME NEW ev \in writing, WriteLands(ev) \/ WriteIsLost(ev) PROVE UNCHANGED <<rules, held>>
  BY <1>8 DEF WriteLands, WriteIsLost
<1>9. CASE UNCHANGED vars
  BY <1>4, <1>9 DEF vars
<1> QED BY <1>1, <1>2, <1>3, <1>4, <1>5, <1>6, <1>7, <1>8, <1>9 DEF Next, Writes

LEMMA CompileKeeps ==
    ASSUME ProjectionInv, NEW e \in Execs, Compile(e)
    PROVE  RingInv' /\ DispatchedInv' /\ FilesInv' /\ CountInv'
<1>1. UNCHANGED <<listener, faults>>
  BY DEF Compile
<1>2. emit(e, "WorkflowCompiled", NoNode) \/ UNCHANGED <<seq, emitted, bus>>
  BY DEF Compile
<1>3. CASE emit(e, "WorkflowCompiled", NoNode)
  BY <1>1, <1>3, EmitKeeps
<1>4. CASE UNCHANGED <<seq, emitted, bus>>
  BY <1>1, <1>4, QuietKeeps
<1> QED BY <1>2, <1>3, <1>4

LEMMA WorksKeeps ==
    ASSUME ProjectionInv, NEW e \in Execs, Works(e)
    PROVE  RingInv' /\ DispatchedInv' /\ FilesInv' /\ CountInv'
<1>1. CASE ReadPolicy(e)
  BY <1>1, QuietKeeps DEF ReadPolicy
<1>2. CASE Compile(e)
  BY <1>2, CompileKeeps
<1>3. CASE Run(e)
  BY <1>3, QuietKeeps DEF Run
<1>4. CASE ReportNodeFailed(e)
  BY <1>4, EmitKeeps DEF ReportNodeFailed
<1>5. CASE ReportFailure(e)
  BY <1>5, EmitKeeps DEF ReportFailure
<1>6. ASSUME NEW at, NEW kind, NEW next, ReplayNode(e, at, kind, next)
      PROVE  RingInv' /\ DispatchedInv' /\ FilesInv' /\ CountInv'
  BY <1>6, EmitKeeps DEF ReplayNode
<1>7. CASE Replay(e)
  BY <1>6, <1>7 DEF Replay
<1>8. CASE Complete(e)
  BY <1>8, EmitKeeps DEF Complete
<1> QED BY <1>1, <1>2, <1>3, <1>4, <1>5, <1>7, <1>8 DEF Works

LEMMA ProjectionStep ==
    ASSUME ProjectionInv, [Next]_vars
    PROVE  ProjectionInv'
<1>0. RulesInv'
  BY RulesStep DEF ProjectionInv
<1> SUFFICES RingInv' /\ DispatchedInv' /\ FilesInv' /\ CountInv'
  BY <1>0 DEF ProjectionInv
<1>1. ASSUME NEW e \in Execs, Submit(e)
      PROVE  RingInv' /\ DispatchedInv' /\ FilesInv' /\ CountInv'
  BY <1>1, EmitKeeps DEF Submit
<1>2. ASSUME NEW e \in Execs, SessionFails(e) \/ RunRefused(e) \/ ClientGone(e)
      PROVE  RingInv' /\ DispatchedInv' /\ FilesInv' /\ CountInv'
  BY <1>2, QuietKeeps DEF SessionFails, RunRefused, ClientGone
<1>3. ASSUME NEW e \in Execs, Works(e)
      PROVE  RingInv' /\ DispatchedInv' /\ FilesInv' /\ CountInv'
  BY <1>3, WorksKeeps
<1>4. ASSUME NEW r \in Rules, apply_policy(r) \/ remove_policy(r)
      PROVE  RingInv' /\ DispatchedInv' /\ FilesInv' /\ CountInv'
  BY <1>4, QuietKeeps DEF apply_policy, remove_policy, exec
<1>5. CASE Listens
  BY <1>5, LaggedKeeps, DispatchKeeps DEF Listens
<1>6. ASSUME NEW ev \in writing, WriteLands(ev) \/ WriteIsLost(ev)
      PROVE  RingInv' /\ DispatchedInv' /\ FilesInv' /\ CountInv'
  BY <1>6, WriteLandsKeeps, WriteIsLostKeeps
<1>7. CASE UNCHANGED vars
  BY <1>7, QuietKeeps DEF vars, bus, listener
<1> QED BY <1>1, <1>2, <1>3, <1>4, <1>5, <1>6, <1>7 DEF Next, Writes

\* The listener's state stays explained by the events, whatever is lost, fails to be
\* written or is sent meanwhile (projection.rs:33, checkpoint.rs:42).
THEOREM ProjectionsInvariant == Spec => []ProjectionInv
<1>1. ProjectionInv /\ [Next]_vars => ProjectionInv'
  BY ProjectionStep
<1> QED BY ProjectionStart, <1>1, PTL DEF Spec

LEMMA ProjectionInvSuffices == ProjectionInv => ProjectionsFaithful
<1> SUFFICES ASSUME ProjectionInv PROVE ProjectionsFaithful
  OBVIOUS
<1>1. TypeOK
  BY DEF ProjectionInv, RingInv, DispatchedInv, FilesInv, CountInv, RulesInv, TypeOK
<1>2. StoredOnce
  <2>1. ASSUME NEW e \in Execs PROVE DOMAIN stored[e] = 1 .. Len(stored[e])
    BY DEF ProjectionInv, FilesInv, FileOk, Sequence
  <2>2. ASSUME NEW e \in Execs PROVE DOMAIN emitted[e] = 1 .. seq[e]
    BY DEF ProjectionInv, CountInv, Sequence
  <2>3. ASSUME NEW e \in Execs, NEW i \in DOMAIN stored[e]
        PROVE  /\ stored[e][i].exec = e /\ stored[e][i].seq \in DOMAIN emitted[e]
               /\ emitted[e][stored[e][i].seq] = [kind |-> stored[e][i].kind, node |-> stored[e][i].node]
    <3>1. stored[e][i] \in dispatched /\ stored[e][i].exec = e
      BY <2>1 DEF ProjectionInv, FilesInv, FileOk
    <3>2. stored[e][i].seq \in 1 .. seq[e] /\ SentAs(emitted, stored[e][i])
      BY <3>1 DEF ProjectionInv, DispatchedInv, CountInv
    <3> QED BY <3>1, <3>2, <2>2 DEF SentAs
  <2>4. ASSUME NEW e \in Execs, NEW i \in DOMAIN stored[e], NEW j \in DOMAIN stored[e],
               stored[e][i].seq = stored[e][j].seq
        PROVE  i = j
    BY <2>1, <2>4 DEF ProjectionInv, FilesInv, FileOk
  <2>5. ASSUME faults = 0, NEW ev \in dispatched
        PROVE  ev \in writing \/ \E i \in DOMAIN stored[ev.exec] : stored[ev.exec][i] = ev
    <3>1. ev.exec \in Execs
      BY DEF ProjectionInv, DispatchedInv
    <3>2. ev \in writing \/ InFile(stored[ev.exec], ev)
      BY <2>5 DEF ProjectionInv, FilesInv
    <3> QED BY <3>1, <3>2, <2>1 DEF InFile
  <2> QED BY <2>3, <2>4, <2>5 DEF StoredOnce
<1>3. LossAccounted
  BY DEF ProjectionInv, DispatchedInv, LossAccounted
<1>4. ASSUME faults = 0, NEW ev \in dispatched, ev.kind = "NodeFinished"
      PROVE  ev \in checkpoints \/ \E c \in checkpoints : c.seq = ev.seq /\ c.exec # ev.exec
  <2>1. PICK c \in checkpoints : c.seq = ev.seq
    BY <1>4 DEF ProjectionInv, FilesInv
  <2>2. c \in dispatched
    BY DEF ProjectionInv, FilesInv
  <2>3. c.exec = ev.exec => c = ev
    BY <2>1, <2>2 DEF ProjectionInv, DispatchedInv
  <2> QED BY <2>1, <2>3
<1>5. CheckpointsExplained
  <2>1. /\ \A c \in checkpoints : c \in dispatched /\ c.kind = "NodeFinished"
        /\ \A c, d \in checkpoints : c.seq = d.seq => c = d
    BY DEF ProjectionInv, FilesInv
  <2> QED BY <1>4, <2>1 DEF CheckpointsExplained
<1> QED BY <1>1, <1>2, <1>3, <1>5 DEF ProjectionsFaithful

\* However many executions publish while the listener receives, and however far
\* it falls behind: the event files hold events as they were emitted and none twice,
\* in whatever order the writes land; every event the listener is past was dispatched
\* or counted as lost; and while no write fails every finished node it saw has a
\* checkpoint, or another execution's node of the same number has (projection.rs:29,
\* storage.rs:71, checkpoint.rs:42).
THEOREM ProjectionsAreFaithful == Spec => []ProjectionsFaithful
BY ProjectionsInvariant, ProjectionInvSuffices, PTL

-----------------------------------------------------------------------------
(* Finite sets of naturals: induction over their size is by the least     *)
(* size of a counterexample.                                               *)

LEMMA LessRelated == \A m, n \in Nat : m < n => <<m, n>> \in OpToRel(<, Nat)
BY DEF OpToRel

LEMMA LeastExists ==
    ASSUME NEW S \in SUBSET Nat, S # {}
    PROVE  \E i \in S : \A j \in S : i <= j
<1>1. PICK i \in S : \A j \in S : ~(<<j, i>> \in OpToRel(<, Nat))
  BY NatLessThanWellFounded, WFMin, Zenon
<1>2. ASSUME NEW j \in S, j < i PROVE FALSE
  <2>1. i \in Nat /\ j \in Nat
    OBVIOUS
  <2>2. <<j, i>> \in OpToRel(<, Nat)
    BY <1>2, <2>1, LessRelated, Zenon
  <2> QED BY <1>1, <2>2, Zenon
<1> QED BY <1>2

HasMax(S) == \E m \in S : \A i \in S : i <= m

LEMMA FiniteMax ==
    ASSUME NEW S \in SUBSET Nat, IsFiniteSet(S), S # {}
    PROVE  HasMax(S)
<1> SUFFICES ASSUME ~HasMax(S) PROVE FALSE
  OBVIOUS
<1> DEFINE Bad(T) == T \in SUBSET Nat /\ IsFiniteSet(T) /\ T # {} /\ ~HasMax(T)
           Sizes == {n \in Nat : \E T : Bad(T) /\ Cardinality(T) = n}
<1>1. Cardinality(S) \in Sizes
  BY FS_CardinalityType
<1>2. PICK n \in Sizes : \A k \in Sizes : n <= k
  <2>1. Sizes \in SUBSET Nat /\ Sizes # {}
    BY <1>1
  <2> HIDE DEF Sizes
  <2> QED BY <2>1, LeastExists
<1>3. PICK T : Bad(T) /\ Cardinality(T) = n
  BY <1>2
<1>4. PICK x \in T : TRUE
  BY <1>3
<1> DEFINE U == T \ {x}
<1>5. IsFiniteSet(U) /\ Cardinality(U) = n - 1 /\ n \in Nat /\ Cardinality(U) \in Nat
  BY <1>3, <1>4, FS_RemoveElement, FS_CardinalityType
<1>6. Cardinality(U) \notin Sizes
  BY <1>2, <1>5
<1>7. ~Bad(U)
  BY <1>5, <1>6
<1>8. CASE U = {}
  <2>1. T = {x}
    BY <1>4, <1>8
  <2> QED BY <1>3, <2>1 DEF HasMax
<1>9. CASE HasMax(U)
  <2>1. PICK m \in U : \A i \in U : i <= m
    BY <1>9 DEF HasMax
  <2>2. x \in Nat /\ m \in Nat /\ m \in T /\ \A i \in T : i \in Nat /\ (i = x \/ i <= m)
    BY <1>3, <2>1
  <2>3. CASE x <= m
    BY <1>3, <2>2, <2>3 DEF HasMax
  <2>4. CASE m <= x
    BY <1>3, <1>4, <2>2, <2>4 DEF HasMax
  <2> QED BY <2>2, <2>3, <2>4
<1> QED BY <1>3, <1>5, <1>7, <1>8, <1>9

Increasing(at) == \A i, j \in DOMAIN at : i < j => at[i] < at[j]
HasOrder(I) == \E at \in Bijection(1 .. Cardinality(I), I) : Increasing(at)

LEMMA EnumerationOf ==
    ASSUME NEW k \in Nat, NEW I, NEW g \in Bijection(1 .. k, I)
    PROVE  g \in [1 .. k -> I] /\ \A i \in I : \E j \in 1 .. k : g[j] = i
BY Fun_BijectionProperties

LEMMA OrderExists ==
    ASSUME NEW I \in SUBSET Nat, IsFiniteSet(I)
    PROVE  HasOrder(I)
<1> SUFFICES ASSUME ~HasOrder(I) PROVE FALSE
  OBVIOUS
<1> DEFINE Bad(T) == T \in SUBSET Nat /\ IsFiniteSet(T) /\ ~HasOrder(T)
           Sizes == {n \in Nat : \E T : Bad(T) /\ Cardinality(T) = n}
<1>1. Cardinality(I) \in Sizes
  BY FS_CardinalityType
<1>2. PICK n \in Sizes : \A k \in Sizes : n <= k
  <2>1. Sizes \in SUBSET Nat /\ Sizes # {}
    BY <1>1
  <2> HIDE DEF Sizes
  <2> QED BY <2>1, LeastExists
<1>3. PICK T : Bad(T) /\ Cardinality(T) = n
  BY <1>2
<1>4. CASE T = {}
  <2>1. Cardinality(T) = 0
    BY <1>4, FS_EmptySet
  <2> DEFINE f == [i \in 1 .. Cardinality(T) |-> i]
  <2>2. f \in [1 .. Cardinality(T) -> T] /\ DOMAIN f = {}
    BY <1>4, <2>1
  <2> HIDE DEF f
  <2>3. f \in Bijection(1 .. Cardinality(T), T)
    BY <1>4, <2>1, <2>2, Fun_IsBij
  <2>4. Increasing(f)
    BY <2>2 DEF Increasing
  <2> QED BY <1>3, <2>3, <2>4 DEF HasOrder
<1>5. CASE T # {}
  <2>1. PICK m \in T : \A i \in T : i <= m
    BY <1>3, <1>5, FiniteMax DEF HasMax
  <2> DEFINE U == T \ {m}
  <2>2. IsFiniteSet(U) /\ Cardinality(U) = n - 1 /\ n \in Nat /\ Cardinality(U) \in Nat
    BY <1>3, <2>1, FS_RemoveElement, FS_CardinalityType
  <2>3. Cardinality(U) \notin Sizes
    <3> SUFFICES ASSUME Cardinality(U) \in Sizes PROVE FALSE
      OBVIOUS
    <3>1. n <= Cardinality(U)
      BY <1>2
    <3> QED BY <2>2, <3>1
  <2>4. HasOrder(U)
    BY <1>3, <2>2, <2>3
  <2>5. PICK g \in Bijection(1 .. Cardinality(U), U) : Increasing(g)
    BY <2>4 DEF HasOrder
  <2>6. g \in [1 .. n - 1 -> U] /\ \A u \in U : \E k \in 1 .. n - 1 : g[k] = u
    <3> HIDE DEF U
    <3>1. g \in [1 .. Cardinality(U) -> U]
          /\ \A u \in U : \E k \in 1 .. Cardinality(U) : g[k] = u
      <4>1. g \in Bijection(1 .. Cardinality(U), U)
        BY <2>5
      <4> QED BY <2>2, <4>1, EnumerationOf
    <3> QED BY <2>2, <3>1
  <2>7. \A i, j \in 1 .. n - 1 : i < j => g[i] < g[j]
    BY <2>5, <2>6 DEF Increasing
  <2> DEFINE f == [k \in 1 .. n |-> IF k = n THEN m ELSE g[k]]
  <2>8. /\ f[n] = m /\ \A k \in 1 .. n - 1 : f[k] = g[k] /\ f[k] \in U
        /\ n >= 1 /\ DOMAIN f = 1 .. n
    BY <2>2, <2>6
  <2>9. f \in [1 .. n -> T]
    BY <2>1, <2>6
  <2> HIDE DEF f
  <2>10. \A u \in U : u \in Nat /\ u < m
    BY <1>3, <2>1
  <2>11. \A i, j \in 1 .. n : i < j => f[i] < f[j]
    <3> SUFFICES ASSUME NEW i \in 1 .. n, NEW j \in 1 .. n, i < j PROVE f[i] < f[j]
      OBVIOUS
    <3>1. i \in 1 .. n - 1
      BY <2>2
    <3>2. CASE j = n
      BY <3>1, <3>2, <2>8, <2>10
    <3>3. CASE j \in 1 .. n - 1
      BY <3>1, <3>3, <2>7, <2>8
    <3> QED BY <3>2, <3>3, <2>2
  <2>12. \A t \in T : \E k \in 1 .. n : f[k] = t
    BY <2>2, <2>6, <2>8
  <2>13. \A i, j \in 1 .. n : f[i] = f[j] => i = j
    <3> SUFFICES ASSUME NEW i \in 1 .. n, NEW j \in 1 .. n, i < j PROVE f[i] # f[j]
      BY <2>2
    <3>1. f[i] \in Nat /\ f[j] \in Nat /\ f[i] < f[j]
      BY <2>9, <2>11, <1>3
    <3> QED BY <3>1
  <2>14. f \in Bijection(1 .. n, T)
    BY <2>9, <2>12, <2>13, Fun_IsBij
  <2> QED BY <1>3, <2>8, <2>11, <2>14 DEF HasOrder, Increasing
<1> QED BY <1>4, <1>5

LEMMA InOrderOf ==
    ASSUME NEW I \in SUBSET Nat, IsFiniteSet(I)
    PROVE  /\ Cardinality(I) \in Nat
           /\ InOrder(I) \in [1 .. Cardinality(I) -> I]
           /\ \A i \in I : \E k \in 1 .. Cardinality(I) : InOrder(I)[k] = i
<1>1. \E at \in Bijection(1 .. Cardinality(I), I) : \A i, j \in DOMAIN at : i < j => at[i] < at[j]
  BY OrderExists DEF HasOrder, Increasing
<1>2. InOrder(I) \in Bijection(1 .. Cardinality(I), I)
  BY <1>1 DEF InOrder
<1> QED BY <1>2, FS_CardinalityType, EnumerationOf

\* What a filter keeps of a sequence: a sequence of the elements at the positions.
LEMMA KeptOf ==
    ASSUME NEW s, Sequence(s), NEW I \in SUBSET DOMAIN s
    PROVE  /\ Sequence(Kept(s, I))
           /\ \A k \in DOMAIN Kept(s, I) : \E i \in I : Kept(s, I)[k] = s[i]
           /\ \A i \in I : \E k \in DOMAIN Kept(s, I) : Kept(s, I)[k] = s[i]
<1>1. PICK S : s \in Seq(S)
  BY DEF Sequence
<1>2. DOMAIN s = 1 .. Len(s) /\ Len(s) \in Nat /\ \A i \in DOMAIN s : s[i] \in S
  BY <1>1
<1>3. I \in SUBSET Nat /\ IsFiniteSet(I)
  <2>1. IsFiniteSet(1 .. Len(s))
    BY <1>2, FS_Interval
  <2> QED BY <1>2, <2>1, FS_Subset
<1> DEFINE n == Cardinality(I)
           at == InOrder(I)
<1>4. n \in Nat /\ at \in [1 .. n -> I] /\ \A i \in I : \E k \in 1 .. n : at[k] = i
  BY <1>3, InOrderOf
<1>5. Kept(s, I) = [k \in DOMAIN at |-> s[at[k]]]
  BY DEF Kept
<1> HIDE DEF n, at
<1>6. Kept(s, I) = [k \in 1 .. n |-> s[at[k]]]
  BY <1>4, <1>5
<1>7. Kept(s, I) \in Seq(S)
  BY <1>2, <1>4, <1>6
<1>8. DOMAIN Kept(s, I) = 1 .. n /\ \A k \in 1 .. n : Kept(s, I)[k] = s[at[k]]
  BY <1>6
<1>9. Sequence(Kept(s, I))
  BY <1>7 DEF Sequence
<1> QED BY <1>4, <1>8, <1>9

-----------------------------------------------------------------------------
(* The policy pass. *)

LEMMA Ranks ==
    \A x : /\ Rank(x) \in 0 .. 2
           /\ Rank(x) = 2 <=> x = "deny"
           /\ Rank(x) >= 1 <=> x \in {"deny", "approval"}
BY DEF Rank

\* Some matching rule takes precedence over all the others.
LEMMA PrecedenceExists ==
    ASSUME NEW hits \in SUBSET Rules, hits # {}
    PROVE  \E r \in hits : \A q \in hits :
              \/ Rank(r.effect) > Rank(q.effect)
              \/ Rank(r.effect) = Rank(q.effect) /\ r.priority >= q.priority
<1>0. IsFiniteSet(hits) /\ \A q \in hits : q.priority \in Nat
  BY PlaneAssumption, FS_Subset
<1>1. PICK top \in hits : \A q \in hits : Rank(q.effect) <= Rank(top.effect)
  <2>1. CASE \E q \in hits : Rank(q.effect) = 2
    BY <2>1, Ranks
  <2>2. CASE \A q \in hits : Rank(q.effect) # 2
    <3>1. CASE \E q \in hits : Rank(q.effect) = 1
      BY <2>2, <3>1, Ranks
    <3>2. CASE \A q \in hits : Rank(q.effect) # 1
      BY <2>2, <3>2, Ranks
    <3> QED BY <3>1, <3>2
  <2> QED BY <2>1, <2>2
<1> DEFINE tops == {q \in hits : Rank(q.effect) = Rank(top.effect)}
           priorities == {q.priority : q \in tops}
           f == [q \in tops |-> q.priority]
<1>2. IsFiniteSet(tops)
  BY <1>0, FS_Subset
<1>3. f \in Surjection(tops, priorities)
  <2>1. f \in [tops -> priorities] /\ \A p \in priorities : \E q \in tops : f[q] = p
    OBVIOUS
  <2> HIDE DEF f, tops, priorities
  <2> QED BY <2>1, Fun_IsSurj
<1>4. IsFiniteSet(priorities)
  <2> HIDE DEF f, tops, priorities
  <2> QED BY <1>2, <1>3, FS_Surjection
<1>5. priorities \in SUBSET Nat /\ priorities # {}
  BY <1>0, <1>1
<1>6. PICK p \in priorities : \A k \in priorities : k <= p
  <2> HIDE DEF priorities
  <2> QED BY <1>4, <1>5, FiniteMax DEF HasMax
<1>7. PICK r \in tops : r.priority = p
  BY <1>6
<1>8. ASSUME NEW q \in hits
      PROVE  \/ Rank(r.effect) > Rank(q.effect)
             \/ Rank(r.effect) = Rank(q.effect) /\ r.priority >= q.priority
  <2>1. Rank(r.effect) = Rank(top.effect) /\ Rank(q.effect) <= Rank(top.effect)
    BY <1>1, <1>7
  <2>2. CASE q \in tops
    BY <1>0, <1>6, <1>7, <2>1, <2>2
  <2>3. CASE q \notin tops
    <3>1. Rank(q.effect) # Rank(top.effect)
      BY <2>3
    <3> QED BY <2>1, <3>1, Ranks
  <2> QED BY <2>2, <2>3
<1> QED BY <1>7, <1>8

\* No weaker rule hides a stricter one, whatever their priorities.
LEMMA StrictestRule ==
    ASSUME NEW R \in SUBSET Rules, NEW node, NEW r \in R, Matches(r, node)
    PROVE  /\ r.effect = "deny" => evaluate_matching_rule(R, node) = "deny"
           /\ r.effect = "approval" => evaluate_matching_rule(R, node) \in {"deny", "approval"}
<1> DEFINE hits == {q \in R : Matches(q, node)}
           Beats(p) == \A q \in hits :
                          \/ Rank(p.effect) > Rank(q.effect)
                          \/ Rank(p.effect) = Rank(q.effect) /\ p.priority >= q.priority
           best == CHOOSE p \in hits : Beats(p)
<1>1. hits \in SUBSET Rules /\ r \in hits
  OBVIOUS
<1>2. evaluate_matching_rule(R, node) = best.effect
  BY <1>1 DEF evaluate_matching_rule
<1> HIDE DEF hits
<1>3. \E p \in hits : Beats(p)
  BY <1>1, PrecedenceExists
<1>4. best \in hits /\ Beats(best)
  BY <1>3
<1>5. Rank(best.effect) >= Rank(r.effect)
  BY <1>1, <1>4, Ranks
<1> HIDE DEF best
<1>6. r.effect = "deny" => best.effect = "deny"
  BY <1>5, Ranks
<1>7. r.effect = "approval" => best.effect \in {"deny", "approval"}
  BY <1>5, Ranks
<1> QED BY <1>2, <1>6, <1>7

\* What the passes hand on: sequences of nodes and edges, the nodes with ids below
\* those of the gates.
Handed(ir) ==
    /\ Sequence(ir.nodes) /\ Sequence(ir.edges)
    /\ \A i \in DOMAIN ir.nodes : ir.nodes[i].id \in 1 .. GateOf(0) - 1

\* A node is a record, and its list is a sequence if it has one.
NodeOk(n) == IsNode(n) /\ (IsArray(n) => Sequence(n.list))

\* What a set of rules asks of a graph.
Enforced(g, R) ==
    \A i \in DOMAIN g.nodes : \A r \in R :
        (g.nodes[i].id < GateOf(0) /\ Matches(r, g.nodes[i])) =>
            /\ r.effect # "deny"
            /\ r.effect = "approval" => Guarded(g, g.nodes[i].id)

LEMMA ConcatSequence ==
    ASSUME NEW s, Sequence(s), NEW t, Sequence(t), NEW u, u = s \o t
    PROVE  /\ Len(s) \in Nat /\ Len(t) \in Nat /\ DOMAIN s = 1 .. Len(s) /\ DOMAIN t = 1 .. Len(t)
           /\ DOMAIN u = 1 .. Len(s) + Len(t)
           /\ \A i \in 1 .. Len(s) : u[i] = s[i]
           /\ \A i \in 1 .. Len(t) : u[Len(s) + i] = t[i]
<1>1. PICK S : s \in Seq(S)
  BY DEF Sequence
<1>2. PICK T : t \in Seq(T)
  BY DEF Sequence
<1>3. s \in Seq(S \union T) /\ t \in Seq(S \union T)
  BY <1>1, <1>2
<1>4. /\ Len(s) \in Nat /\ Len(t) \in Nat /\ DOMAIN s = 1 .. Len(s) /\ DOMAIN t = 1 .. Len(t)
      /\ s \o t \in Seq(S \union T) /\ Len(s \o t) = Len(s) + Len(t)
  BY <1>3
<1>5. \A i \in 1 .. Len(s) : (s \o t)[i] = s[i]
  BY <1>3
<1>6. \A i \in 1 .. Len(t) : (s \o t)[Len(s) + i] = t[i]
  BY <1>3
<1>7. DOMAIN (s \o t) = 1 .. Len(s) + Len(t)
  BY <1>4
<1> QED BY <1>4, <1>5, <1>6, <1>7

LEMMA MappedSequence ==
    ASSUME NEW s, Sequence(s)
    PROVE  /\ Sequence([k \in DOMAIN s |-> ApprovalGate(s[k].id)])
           /\ Sequence([k \in DOMAIN s |-> IREdge(GateOf(s[k].id), s[k].id, Unset)])
<1>1. PICK S : s \in Seq(S)
  BY DEF Sequence
<1>2. DOMAIN s = 1 .. Len(s) /\ Len(s) \in Nat
  BY <1>1
<1>3. [k \in DOMAIN s |-> ApprovalGate(s[k].id)] \in Seq({ApprovalGate(s[k].id) : k \in DOMAIN s})
  BY <1>2
<1>4. [k \in DOMAIN s |-> IREdge(GateOf(s[k].id), s[k].id, Unset)]
        \in Seq({IREdge(GateOf(s[k].id), s[k].id, Unset) : k \in DOMAIN s})
  BY <1>2
<1> QED BY <1>3, <1>4 DEF Sequence

\* The policy pass refuses what a rule denies, gives a gate to what a rule holds for
\* approval, and joins each gate to its node.
LEMMA PolicyPassEnforces ==
    ASSUME NEW ir, Handed(ir), EdgesKnown(ir), NEW R \in SUBSET Rules,
           PolicyCompilerPass(ir, R).ok
    PROVE  LET out == PolicyCompilerPass(ir, R).ir
           IN  /\ Enforced(out, R) /\ EdgesKnown(out)
               /\ (\A i \in DOMAIN ir.nodes : NodeOk(ir.nodes[i])) =>
                     \A i \in DOMAIN out.nodes : NodeOk(out.nodes[i])
<1> DEFINE effect(i) == evaluate_matching_rule(R, ir.nodes[i])
           I == {i \in DOMAIN ir.nodes : effect(i) = "approval" /\ ~Guarded(ir, ir.nodes[i].id)}
           new == Kept(ir.nodes, I)
           gates == [k \in DOMAIN new |-> ApprovalGate(new[k].id)]
           links == [k \in DOMAIN new |-> IREdge(GateOf(new[k].id), new[k].id, Unset)]
           out == [nodes |-> ir.nodes \o gates, edges |-> ir.edges \o links]
<1>1. PolicyCompilerPass(ir, R).ir = out /\ \A i \in DOMAIN ir.nodes : effect(i) # "deny"
  <2>1. CASE \E i \in DOMAIN ir.nodes : effect(i) = "deny"
    BY <2>1 DEF PolicyCompilerPass, Err
  <2>2. CASE ~ \E i \in DOMAIN ir.nodes : effect(i) = "deny"
    BY <2>2 DEF PolicyCompilerPass, Ok
  <2> QED BY <2>1, <2>2
<1> HIDE DEF effect
<1>2. Sequence(ir.nodes) /\ Sequence(ir.edges)
      /\ \A i \in DOMAIN ir.nodes : ir.nodes[i].id \in 1 .. GateOf(0) - 1
  BY DEF Handed
<1>3. /\ Sequence(new)
      /\ \A k \in DOMAIN new : \E i \in I : new[k] = ir.nodes[i]
      /\ \A i \in I : \E k \in DOMAIN new : new[k] = ir.nodes[i]
  <2>1. I \in SUBSET DOMAIN ir.nodes
    OBVIOUS
  <2> HIDE DEF I
  <2> QED BY <1>2, <2>1, KeptOf
<1>4. I \subseteq DOMAIN ir.nodes
      /\ \A i \in DOMAIN ir.nodes : effect(i) = "approval" => (i \in I \/ Guarded(ir, ir.nodes[i].id))
  OBVIOUS
<1> HIDE DEF new, I
<1>5. Sequence(gates) /\ Sequence(links)
  BY <1>3, MappedSequence
<1>6. DOMAIN gates = DOMAIN new /\ DOMAIN links = DOMAIN new
      /\ \A k \in DOMAIN new : /\ gates[k].id = GateOf(new[k].id) /\ gates[k].kind = "Gate"
                               /\ links[k].from = GateOf(new[k].id) /\ links[k].to = new[k].id
  BY DEF ApprovalGate, IRNode, IREdge
<1>20. \A k \in DOMAIN new : NodeOk(gates[k])
  BY DEF ApprovalGate, IRNode, IsNode, NodeOk, IsArray
<1> HIDE DEF gates, links
<1>7. \A k \in DOMAIN new : new[k].id \in 1 .. GateOf(0) - 1
  BY <1>2, <1>3, <1>4
<1>8. out.nodes = ir.nodes \o gates /\ out.edges = ir.edges \o links
  OBVIOUS
<1> HIDE DEF out
<1>9. /\ Len(ir.nodes) \in Nat /\ DOMAIN ir.nodes = 1 .. Len(ir.nodes)
      /\ Len(gates) \in Nat /\ DOMAIN gates = 1 .. Len(gates)
      /\ DOMAIN out.nodes = 1 .. Len(ir.nodes) + Len(gates)
      /\ \A i \in 1 .. Len(ir.nodes) : out.nodes[i] = ir.nodes[i]
      /\ \A i \in 1 .. Len(gates) : out.nodes[Len(ir.nodes) + i] = gates[i]
  BY <1>2, <1>5, <1>8, ConcatSequence
<1>10. /\ Len(ir.edges) \in Nat /\ DOMAIN ir.edges = 1 .. Len(ir.edges)
       /\ Len(links) \in Nat /\ DOMAIN links = 1 .. Len(links)
       /\ DOMAIN out.edges = 1 .. Len(ir.edges) + Len(links)
       /\ \A i \in 1 .. Len(ir.edges) : out.edges[i] = ir.edges[i]
       /\ \A i \in 1 .. Len(links) : out.edges[Len(ir.edges) + i] = links[i]
  BY <1>2, <1>5, <1>8, ConcatSequence
<1>11. \A i \in DOMAIN ir.nodes : i \in DOMAIN out.nodes /\ out.nodes[i] = ir.nodes[i]
  BY <1>9
<1>12. \A i \in DOMAIN ir.edges : i \in DOMAIN out.edges /\ out.edges[i] = ir.edges[i]
  BY <1>10
<1>13. ASSUME NEW k \in DOMAIN new
       PROVE  \E i \in DOMAIN out.nodes : out.nodes[i].id = GateOf(new[k].id) /\ out.nodes[i].kind = "Gate"
  <2>1. Len(ir.nodes) + k \in DOMAIN out.nodes /\ out.nodes[Len(ir.nodes) + k] = gates[k]
    BY <1>6, <1>9
  <2> QED BY <1>6, <2>1
<1>14. ASSUME NEW n, Guarded(ir, n) PROVE Guarded(out, n)
  BY <1>11, <1>12, <1>14 DEF Guarded, IsGate
<1>15. ASSUME NEW k \in DOMAIN new PROVE Guarded(out, new[k].id)
  <2>1. Len(ir.edges) + k \in DOMAIN out.edges /\ out.edges[Len(ir.edges) + k] = links[k]
    BY <1>6, <1>10
  <2>2. IsGate(out, links[k].from)
    BY <1>6, <1>13 DEF IsGate
  <2> QED BY <1>6, <2>1, <2>2 DEF Guarded
<1>16. ASSUME NEW i \in DOMAIN out.nodes, NEW r \in R,
              out.nodes[i].id < GateOf(0), Matches(r, out.nodes[i])
       PROVE  r.effect # "deny" /\ (r.effect = "approval" => Guarded(out, out.nodes[i].id))
  <2>1. i \in DOMAIN ir.nodes
    <3> SUFFICES ASSUME i \notin 1 .. Len(ir.nodes) PROVE FALSE
      BY <1>9
    <3>1. PICK k \in 1 .. Len(gates) : i = Len(ir.nodes) + k
      <4>1. i - Len(ir.nodes) \in 1 .. Len(gates) /\ i = Len(ir.nodes) + (i - Len(ir.nodes))
        BY <1>9
      <4> QED BY <4>1
    <3>2. out.nodes[i].id = GateOf(new[k].id) /\ new[k].id \in 1 .. GateOf(0) - 1
      BY <1>6, <1>7, <1>9, <3>1
    <3>3. GateOf(0) = 100 /\ GateOf(new[k].id) = 100 + new[k].id
      BY DEF GateOf
    <3> QED BY <1>16, <3>2, <3>3
  <2>2. out.nodes[i] = ir.nodes[i] /\ Matches(r, ir.nodes[i])
    BY <1>11, <1>16, <2>1
  <2>3. r.effect # "deny"
    BY <1>1, <2>1, <2>2, StrictestRule DEF effect
  <2>4. ASSUME r.effect = "approval" PROVE Guarded(out, out.nodes[i].id)
    <3>1. effect(i) = "approval"
      BY <1>1, <2>1, <2>2, <2>4, StrictestRule DEF effect
    <3>2. CASE i \in I
      <4>1. PICK k \in DOMAIN new : new[k] = ir.nodes[i]
        BY <1>3, <3>2
      <4> QED BY <1>15, <2>2, <4>1
    <3>3. CASE Guarded(ir, ir.nodes[i].id)
      BY <1>14, <2>2, <3>3
    <3> QED BY <1>4, <2>1, <3>1, <3>2, <3>3
  <2> QED BY <2>3, <2>4
<1>17. Enforced(out, R)
  BY <1>16 DEF Enforced
<1>18. ASSUME NEW i \in DOMAIN out.edges
       PROVE  {out.edges[i].from, out.edges[i].to} \subseteq Ids(out)
  <2>1. Ids(ir) \subseteq Ids(out)
    BY <1>11 DEF Ids
  <2>2. CASE i \in 1 .. Len(ir.edges)
    BY <1>10, <2>1, <2>2 DEF EdgesKnown
  <2>3. CASE i \notin 1 .. Len(ir.edges)
    <3>1. PICK k \in 1 .. Len(links) : i = Len(ir.edges) + k
      <4>1. i - Len(ir.edges) \in 1 .. Len(links) /\ i = Len(ir.edges) + (i - Len(ir.edges))
        BY <1>10, <2>3
      <4> QED BY <4>1
    <3>2. k \in DOMAIN new /\ out.edges[i].from = GateOf(new[k].id) /\ out.edges[i].to = new[k].id
      BY <1>6, <1>10, <3>1
    <3>3. GateOf(new[k].id) \in Ids(out)
      BY <1>13, <3>2 DEF Ids
    <3>4. new[k].id \in Ids(ir)
      BY <1>3, <1>4, <3>2 DEF Ids
    <3> QED BY <2>1, <3>2, <3>3, <3>4
  <2> QED BY <2>2, <2>3
<1>19. EdgesKnown(out)
  BY <1>18 DEF EdgesKnown
<1>21. ASSUME \A i \in DOMAIN ir.nodes : NodeOk(ir.nodes[i]), NEW i \in DOMAIN out.nodes
       PROVE  NodeOk(out.nodes[i])
  <2>1. CASE i \in 1 .. Len(ir.nodes)
    BY <1>9, <1>21, <2>1
  <2>2. CASE i \notin 1 .. Len(ir.nodes)
    <3>1. i - Len(ir.nodes) \in 1 .. Len(gates) /\ i = Len(ir.nodes) + (i - Len(ir.nodes))
      BY <1>9, <2>2
    <3> QED BY <1>6, <1>9, <1>20, <3>1
  <2> QED BY <2>1, <2>2
<1> QED BY <1>1, <1>17, <1>19, <1>21

-----------------------------------------------------------------------------
(* The passes before it. *)

LEMMA WorkflowHanded ==
    ASSUME NEW w, IsWorkflow(w)
    PROVE  Handed(w) /\ \A i \in DOMAIN w.nodes : NodeOk(w.nodes[i])
<1>1. Handed(w)
  BY DEF IsWorkflow, Handed, Sequence
<1>2. ASSUME NEW i \in DOMAIN w.nodes PROVE NodeOk(w.nodes[i])
  BY DEF IsWorkflow, NodeOk, Sequence
<1> QED BY <1>1, <1>2

\* Dead nodes are removed with every edge they are an end of.
LEMMA EliminationHands ==
    ASSUME NEW w, Handed(w), EdgesKnown(w), \A i \in DOMAIN w.nodes : NodeOk(w.nodes[i])
    PROVE  LET live == DeadNodeEliminationPass(w)
           IN  /\ live.ok /\ Handed(live.ir) /\ EdgesKnown(live.ir)
               /\ \A i \in DOMAIN live.ir.nodes : NodeOk(live.ir.nodes[i])
<1>1. CASE w.edges = <<>> \/ Entries(w) = {}
  BY <1>1 DEF DeadNodeEliminationPass, Ok
<1>2. CASE ~(w.edges = <<>> \/ Entries(w) = {})
  <2> DEFINE live == Reach(w, Entries(w))
             I == {i \in DOMAIN w.nodes : w.nodes[i].id \in live}
             J == {i \in DOMAIN w.edges : {w.edges[i].from, w.edges[i].to} \subseteq live}
             out == Restricted(w, live)
  <2>1. DeadNodeEliminationPass(w).ok /\ DeadNodeEliminationPass(w).ir = out
    BY <1>2 DEF DeadNodeEliminationPass, Ok
  <2>2. live \subseteq Ids(w)
    BY DEF Reach
  <2> HIDE DEF live
  <2>3. out.nodes = Kept(w.nodes, I) /\ out.edges = Kept(w.edges, J)
    BY DEF Restricted
  <2>4. /\ Sequence(out.nodes)
        /\ \A k \in DOMAIN out.nodes : \E i \in I : out.nodes[k] = w.nodes[i]
        /\ \A i \in I : \E k \in DOMAIN out.nodes : out.nodes[k] = w.nodes[i]
    <3>1. I \in SUBSET DOMAIN w.nodes /\ Sequence(w.nodes)
      BY DEF Handed
    <3> HIDE DEF I, out
    <3> QED BY <2>3, <3>1, KeptOf
  <2>5. /\ Sequence(out.edges)
        /\ \A k \in DOMAIN out.edges : \E i \in J : out.edges[k] = w.edges[i]
    <3>1. J \in SUBSET DOMAIN w.edges /\ Sequence(w.edges)
      BY DEF Handed
    <3> HIDE DEF J, out
    <3> QED BY <2>3, <3>1, KeptOf
  <2> HIDE DEF out
  <2>6. live \subseteq Ids(out)
    <3> SUFFICES ASSUME NEW n \in live PROVE n \in Ids(out)
      OBVIOUS
    <3>1. PICK i \in DOMAIN w.nodes : w.nodes[i].id = n
      BY <2>2 DEF Ids
    <3>2. PICK k \in DOMAIN out.nodes : out.nodes[k] = w.nodes[i]
      BY <2>4, <3>1
    <3> QED BY <3>1, <3>2 DEF Ids
  <2>7. EdgesKnown(out)
    BY <2>5, <2>6 DEF EdgesKnown
  <2>8. Handed(out) /\ \A i \in DOMAIN out.nodes : NodeOk(out.nodes[i])
    BY <2>4, <2>5 DEF Handed
  <2> QED BY <2>1, <2>7, <2>8
<1> QED BY <1>1, <1>2

LEMMA ResolutionHands ==
    ASSUME NEW w, Handed(w), EdgesKnown(w), \A i \in DOMAIN w.nodes : NodeOk(w.nodes[i])
    PROVE  LET resolved == ModelResolutionPass(w)
           IN  /\ resolved.ok /\ Handed(resolved.ir) /\ EdgesKnown(resolved.ir)
               /\ \A i \in DOMAIN resolved.ir.nodes : NodeOk(resolved.ir.nodes[i])
<1> DEFINE node(i) == IF w.nodes[i].kind \in ControlKinds \/ w.nodes[i].model # Unset THEN w.nodes[i]
                      ELSE [w.nodes[i] EXCEPT !.model = DEFAULT_MODEL]
           nodes == [i \in DOMAIN w.nodes |-> node(i)]
           out == [nodes |-> nodes, edges |-> w.edges]
<1>1. ModelResolutionPass(w) = Ok(out)
  BY DEF ModelResolutionPass
<1>2. ASSUME NEW i \in DOMAIN w.nodes PROVE node(i).id = w.nodes[i].id /\ NodeOk(node(i))
  <2> DEFINE n == w.nodes[i]
             m == [n EXCEPT !.model = DEFAULT_MODEL]
  <2>1. n = IRNode(n.id, n.kind, n.strategy, n.size, n.list, n.model, n.capability, n.max_iterations)
        /\ NodeOk(n)
    BY DEF NodeOk, IsNode
  <2> HIDE DEF n
  <2>2. m.id = n.id /\ m.list = n.list /\ IsNode(m)
    BY <2>1 DEF IRNode, IsNode
  <2>3. NodeOk(m)
    BY <2>1, <2>2 DEF NodeOk, IsArray
  <2> QED BY <2>1, <2>2, <2>3 DEF n
<1> HIDE DEF node
<1>3. PICK S : w.nodes \in Seq(S)
  BY DEF Handed, Sequence
<1>4. nodes \in Seq({node(i) : i \in DOMAIN w.nodes}) /\ DOMAIN nodes = DOMAIN w.nodes
      /\ \A i \in DOMAIN w.nodes : nodes[i].id = w.nodes[i].id /\ NodeOk(nodes[i])
  BY <1>2, <1>3
<1>5. out.nodes = nodes /\ out.edges = w.edges
  OBVIOUS
<1> HIDE DEF nodes, out
<1>6. Ids(out) = Ids(w)
  BY <1>4, <1>5 DEF Ids
<1>7. EdgesKnown(out)
  BY <1>5, <1>6 DEF EdgesKnown
<1>8. Handed(out)
  BY <1>4, <1>5 DEF Handed, Sequence
<1>9. \A i \in DOMAIN out.nodes : NodeOk(out.nodes[i])
  BY <1>4, <1>5
<1> QED BY <1>1, <1>7, <1>8, <1>9 DEF Ok

\* What an accepted workflow is lowered from: what the passes before the policy
\* pass hand on, unless there are rules.
LEMMA PassesHand ==
    ASSUME NEW w, IsWorkflow(w), NEW R, NEW b \in BOOLEAN, RunPasses(w, R, b).ok
    PROVE  \E ir : /\ Handed(ir) /\ EdgesKnown(ir) /\ \A i \in DOMAIN ir.nodes : NodeOk(ir.nodes[i])
                   /\ \/ R = {} /\ RunPasses(w, R, b).ir = ir
                      \/ /\ PolicyCompilerPass(ir, R).ok
                         /\ RunPasses(w, R, b).ir = PolicyCompilerPass(ir, R).ir
<1> DEFINE bounded   == ConstraintValidationPass(w)
           validated == Then(bounded, ControlFlowValidationPass(bounded.ir))
           lowered   == Then(validated, StrategyLoweringPass(validated.ir))
           live      == Then(lowered, DeadNodeEliminationPass(lowered.ir))
           resolved  == Then(live, ModelResolutionPass(live.ir))
           priced    == Then(resolved, BudgetOptimisationPass(resolved.ir, b))
           all       == IF R = {} THEN priced ELSE Then(priced, PolicyCompilerPass(priced.ir, R))
<1>1. RunPasses(w, R, b) = all
  BY DEF RunPasses
<1>2. bounded.ok => bounded.ir = w
  BY DEF ConstraintValidationPass, Ok, Err
<1> HIDE DEF bounded
<1>3. validated.ok => bounded.ok /\ validated.ir = w /\ EdgesKnown(w)
  BY <1>2 DEF ControlFlowValidationPass, Then, Ok, Err
<1> HIDE DEF validated
<1>4. lowered.ok => validated.ok /\ lowered.ir = w /\ EdgesKnown(w)
  BY <1>3 DEF StrategyLoweringPass, Then, Ok, Err
<1> HIDE DEF lowered
<1>5. Handed(w) /\ \A i \in DOMAIN w.nodes : NodeOk(w.nodes[i])
  BY WorkflowHanded
<1>6. live.ok => /\ Handed(live.ir) /\ EdgesKnown(live.ir)
                 /\ \A i \in DOMAIN live.ir.nodes : NodeOk(live.ir.nodes[i])
  BY <1>4, <1>5, EliminationHands DEF Then
<1> HIDE DEF live
<1>7. resolved.ok => /\ Handed(resolved.ir) /\ EdgesKnown(resolved.ir)
                     /\ \A i \in DOMAIN resolved.ir.nodes : NodeOk(resolved.ir.nodes[i])
  BY <1>6, ResolutionHands DEF Then
<1> HIDE DEF resolved
<1>8. priced.ok => /\ Handed(priced.ir) /\ EdgesKnown(priced.ir)
                   /\ \A i \in DOMAIN priced.ir.nodes : NodeOk(priced.ir.nodes[i])
  BY <1>7 DEF BudgetOptimisationPass, Then, Ok, Err
<1> HIDE DEF priced
<1>9. CASE R = {}
  BY <1>1, <1>8, <1>9
<1>10. CASE R # {}
  <2>1. priced.ok /\ all = PolicyCompilerPass(priced.ir, R)
    BY <1>1, <1>10 DEF Then
  <2> QED BY <1>1, <1>8, <2>1
<1> QED BY <1>9, <1>10

\* What is known of every compiled graph.
Expanded(g) ==
    /\ DOMAIN g.subgraphs = DOMAIN g.nodes
    /\ \A i \in DOMAIN g.nodes :
          NodeOk(g.nodes[i]) /\ g.subgraphs[i] = expanded_subgraph(g.nodes[i])
Compiled(g, R) == Enforced(g, R) /\ EdgesKnown(g) /\ Expanded(g)

LEMMA CompilerCompiles ==
    ASSUME NEW w, IsWorkflow(w), NEW R \in SUBSET Rules, NEW b \in BOOLEAN,
           RunPasses(w, R, b).ok
    PROVE  Compiled(lower_to_graph(RunPasses(w, R, b).ir), R)
<1> DEFINE ir == RunPasses(w, R, b).ir
           g == lower_to_graph(ir)
<1>1. Enforced(ir, R) /\ EdgesKnown(ir) /\ \A i \in DOMAIN ir.nodes : NodeOk(ir.nodes[i])
  <2>1. PICK h : /\ Handed(h) /\ EdgesKnown(h) /\ \A i \in DOMAIN h.nodes : NodeOk(h.nodes[i])
                 /\ \/ R = {} /\ ir = h
                    \/ PolicyCompilerPass(h, R).ok /\ ir = PolicyCompilerPass(h, R).ir
    BY PassesHand
  <2>2. CASE R = {} /\ ir = h
    BY <2>1, <2>2 DEF Enforced
  <2>3. CASE PolicyCompilerPass(h, R).ok /\ ir = PolicyCompilerPass(h, R).ir
    BY <2>1, <2>3, PolicyPassEnforces
  <2> QED BY <2>1, <2>2, <2>3
<1> HIDE DEF ir
<1>2. /\ g.nodes = ir.nodes /\ g.edges = ir.edges
      /\ g.subgraphs = [i \in DOMAIN ir.nodes |-> expanded_subgraph(ir.nodes[i])]
  BY DEF lower_to_graph
<1> HIDE DEF g
<1>3. Expanded(g)
  BY <1>1, <1>2 DEF Expanded
<1>4. Ids(g) = Ids(ir)
  BY <1>2 DEF Ids
<1>5. EdgesKnown(g)
  BY <1>1, <1>2, <1>4 DEF EdgesKnown
<1>6. Enforced(g, R)
  BY <1>1, <1>2 DEF Enforced, Guarded, IsGate
<1> QED BY <1>3, <1>5, <1>6 DEF Compiled, g, ir

LEMMA FewerRules ==
    ASSUME NEW g, NEW R, NEW Q \in SUBSET R, Compiled(g, R)
    PROVE  Compiled(g, Q)
BY DEF Compiled, Enforced

LEMMA NothingCompiled ==
    ASSUME NEW R
    PROVE  Compiled(NoGraph, R)
BY DEF Compiled, Enforced, EdgesKnown, Expanded, NoGraph

-----------------------------------------------------------------------------
(* The rules an execution is held to. *)

Early == {"new", "policy", "compile"}

\* What an execution is held to is in the registry until it reads the registry, and
\* in its snapshot until it compiles.
Bound(e) ==
    /\ pc[e] = "new" => held[e] = {}
    /\ pc[e] # "new" => workflow[e] # Nothing
    /\ pc[e] = "policy" => held[e] \subseteq rules
    /\ pc[e] = "compile" => held[e] \subseteq policy_ir[e] /\ policy_ir[e] \subseteq Rules
    /\ pc[e] \in Early => graph[e] = NoGraph
    /\ Compiled(graph[e], held[e])

PolicyInv ==
    /\ RulesInv /\ workflow \in Submissions
    /\ pc = [e \in Execs |-> pc[e]] /\ policy_ir = [e \in Execs |-> policy_ir[e]]
    /\ graph = [e \in Execs |-> graph[e]]
    /\ \A e \in Execs : Bound(e)

LEMMA PolicyStart == Init => PolicyInv
<1> SUFFICES ASSUME Init PROVE PolicyInv
  OBVIOUS
<1>1. RulesInv
  BY ProjectionStart DEF ProjectionInv
<1>2. ASSUME NEW e \in Execs PROVE Bound(e)
  BY NothingCompiled DEF Init, Bound, Early
<1> QED BY <1>1, <1>2 DEF Init, PolicyInv

\* A step of one execution leaves the others as they are.
LEMMA BoundOthers ==
    ASSUME PolicyInv, NEW e \in Execs, NEW f \in Execs, f # e,
           pc'[f] = pc[f], held'[f] = held[f], policy_ir'[f] = policy_ir[f], graph'[f] = graph[f],
           UNCHANGED <<workflow, rules>>
    PROVE  Bound(f)'
BY DEF PolicyInv, Bound

LEMMA SubmitBinds ==
    ASSUME PolicyInv, RulesInv', NEW e \in Execs, Submit(e)
    PROVE  PolicyInv'
<1>1. /\ pc[e] = "new" /\ workflow[e] # Nothing
      /\ held' = [held EXCEPT ![e] = rules] /\ pc' = [pc EXCEPT ![e] = "policy"]
      /\ UNCHANGED <<workflow, rules, policy_ir, graph>>
  BY DEF Submit, Goto
<1>2. pc = [f \in Execs |-> pc[f]] /\ held \in [Execs -> SUBSET Rules]
  BY DEF PolicyInv, RulesInv
<1>3. /\ pc'[e] = "policy" /\ held'[e] = rules
      /\ \A f \in Execs \ {e} : pc'[f] = pc[f] /\ held'[f] = held[f]
      /\ pc' = [f \in Execs |-> pc'[f]]
  BY <1>1, <1>2
<1>4. Bound(e)'
  BY <1>1, <1>3, NothingCompiled DEF PolicyInv, Bound, Early
<1>5. ASSUME NEW f \in Execs, f # e PROVE Bound(f)'
  BY <1>1, <1>3, <1>5, BoundOthers
<1> QED BY <1>1, <1>3, <1>4, <1>5 DEF PolicyInv

\* Once the graph is compiled, or the request answered, nothing bears on it.
LEMMA LaterStepBinds ==
    ASSUME PolicyInv, RulesInv', NEW e \in Execs, NEW place, place \notin Early,
           workflow[e] # Nothing, Goto(e, place),
           UNCHANGED <<workflow, rules, held, policy_ir, graph>>
    PROVE  PolicyInv'
<1>1. pc' = [pc EXCEPT ![e] = place] /\ pc = [f \in Execs |-> pc[f]]
  BY DEF Goto, PolicyInv
<1>2. /\ pc'[e] = place /\ \A f \in Execs \ {e} : pc'[f] = pc[f]
      /\ pc' = [f \in Execs |-> pc'[f]]
  BY <1>1
<1>3. Bound(e)'
  BY <1>2 DEF PolicyInv, Bound, Early
<1>4. ASSUME NEW f \in Execs, f # e PROVE Bound(f)'
  BY <1>2, <1>4, BoundOthers
<1> QED BY <1>2, <1>3, <1>4 DEF PolicyInv

LEMMA ReadPolicyBinds ==
    ASSUME PolicyInv, RulesInv', NEW e \in Execs, ReadPolicy(e)
    PROVE  PolicyInv'
<1>1. pc[e] = "policy" /\ workflow[e] # Nothing /\ UNCHANGED <<workflow, rules, held, graph>>
  BY DEF ReadPolicy, PolicyInv, Bound
<1>2. CASE \E r \in rules : r.malformed
  <2>1. Goto(e, "done") /\ UNCHANGED policy_ir
    BY <1>2 DEF ReadPolicy, Answer
  <2> QED BY <1>1, <2>1, LaterStepBinds DEF Early
<1>3. CASE ~ \E r \in rules : r.malformed
  <2>1. policy_ir' = [policy_ir EXCEPT ![e] = rules] /\ pc' = [pc EXCEPT ![e] = "compile"]
    BY <1>3 DEF ReadPolicy, Goto
  <2>2. pc = [f \in Execs |-> pc[f]] /\ policy_ir = [f \in Execs |-> policy_ir[f]]
    BY DEF PolicyInv
  <2>3. /\ pc'[e] = "compile" /\ policy_ir'[e] = rules
        /\ \A f \in Execs \ {e} : pc'[f] = pc[f] /\ policy_ir'[f] = policy_ir[f]
        /\ pc' = [f \in Execs |-> pc'[f]] /\ policy_ir' = [f \in Execs |-> policy_ir'[f]]
    BY <2>1, <2>2
  <2>4. Bound(e)'
    BY <1>1, <2>3 DEF PolicyInv, RulesInv, Bound, Early
  <2>5. ASSUME NEW f \in Execs, f # e PROVE Bound(f)'
    BY <1>1, <2>3, <2>5, BoundOthers
  <2> QED BY <1>1, <2>3, <2>4, <2>5 DEF PolicyInv
<1> QED BY <1>2, <1>3

LEMMA CompileBinds ==
    ASSUME PolicyInv, RulesInv', NEW e \in Execs, Compile(e)
    PROVE  PolicyInv'
<1>1. /\ pc[e] = "compile" /\ workflow[e] # Nothing
      /\ UNCHANGED <<workflow, rules, held, policy_ir>>
      /\ held[e] \subseteq policy_ir[e] /\ policy_ir[e] \subseteq Rules
  BY DEF Compile, PolicyInv, Bound
<1>2. IsWorkflow(workflow[e])
  BY <1>1, PlaneAssumption DEF PolicyInv
<1>3. PICK b \in BOOLEAN :
        LET result == RunPasses(workflow[e], policy_ir[e], b)
        IN  \/ /\ result.ok /\ Goto(e, "schedule")
               /\ graph' = [graph EXCEPT ![e] = lower_to_graph(result.ir)]
            \/ Goto(e, "done") /\ UNCHANGED graph
  BY DEF Compile, Answer
<1> DEFINE result == RunPasses(workflow[e], policy_ir[e], b)
           g == lower_to_graph(result.ir)
<1>4. CASE Goto(e, "done") /\ UNCHANGED graph
  BY <1>1, <1>4, LaterStepBinds DEF Early
<1>5. CASE result.ok /\ Goto(e, "schedule") /\ graph' = [graph EXCEPT ![e] = g]
  <2>1. Compiled(g, held[e])
    <3>1. Compiled(g, policy_ir[e])
      BY <1>1, <1>2, <1>5, CompilerCompiles
    <3> HIDE DEF g
    <3> QED BY <1>1, <3>1, FewerRules
  <2> HIDE DEF g, result
  <2>2. /\ pc' = [pc EXCEPT ![e] = "schedule"] /\ pc = [f \in Execs |-> pc[f]]
        /\ graph' = [graph EXCEPT ![e] = g] /\ graph = [f \in Execs |-> graph[f]]
    BY <1>5 DEF PolicyInv, Goto
  <2>3. /\ pc'[e] = "schedule" /\ graph'[e] = g
        /\ \A f \in Execs \ {e} : pc'[f] = pc[f] /\ graph'[f] = graph[f]
        /\ pc' = [f \in Execs |-> pc'[f]] /\ graph' = [f \in Execs |-> graph'[f]]
    BY <2>2
  <2>4. Bound(e)'
    BY <1>1, <2>1, <2>3 DEF Bound, Early
  <2>5. ASSUME NEW f \in Execs, f # e PROVE Bound(f)'
    BY <1>1, <2>3, <2>5, BoundOthers
  <2> QED BY <1>1, <2>3, <2>4, <2>5 DEF PolicyInv
<1> QED BY <1>3, <1>4, <1>5

LEMMA RegistryBinds ==
    ASSUME PolicyInv, RulesInv', NEW r \in Rules, apply_policy(r) \/ remove_policy(r)
    PROVE  PolicyInv'
<1>1. UNCHANGED <<workflow, pc, policy_ir, graph>>
  BY DEF apply_policy, remove_policy, exec
<1>2. ASSUME NEW gone, held' = Without(gone), rules \ gone \subseteq rules', NEW e \in Execs
      PROVE  Bound(e)'
  <2>1. /\ pc'[e] = pc[e] /\ graph'[e] = graph[e]
        /\ held'[e] = IF pc[e] \in {"new", "policy"} THEN held[e] \ gone ELSE held[e]
    BY <1>1, <1>2 DEF Without
  <2>2. Compiled(graph'[e], held'[e])
    <3>1. held'[e] \in SUBSET held[e] /\ Compiled(graph[e], held[e])
      BY <2>1 DEF PolicyInv, Bound
    <3> QED BY <2>1, <3>1, FewerRules
  <2> QED BY <1>1, <1>2, <2>1, <2>2 DEF PolicyInv, Bound, Early
<1>3. \E gone : held' = Without(gone) /\ rules \ gone \subseteq rules'
  BY DEF apply_policy, remove_policy
<1> QED BY <1>1, <1>2, <1>3 DEF PolicyInv

LEMMA PolicyStep ==
    ASSUME PolicyInv, [Next]_vars
    PROVE  PolicyInv'
<1>0. RulesInv'
  BY RulesStep DEF PolicyInv
<1>1. ASSUME NEW e \in Execs, Submit(e) PROVE PolicyInv'
  BY <1>0, <1>1, SubmitBinds
<1>2. ASSUME NEW e \in Execs, SessionFails(e) \/ RunRefused(e) \/ ClientGone(e) PROVE PolicyInv'
  <2>1. /\ workflow[e] # Nothing /\ Goto(e, "done")
        /\ UNCHANGED <<workflow, rules, held, policy_ir, graph>>
    BY <1>2 DEF SessionFails, RunRefused, ClientGone, Answer, PolicyInv, Bound
  <2> QED BY <1>0, <2>1, LaterStepBinds DEF Early
<1>3. ASSUME NEW e \in Execs, Works(e) PROVE PolicyInv'
  <2>1. CASE ReadPolicy(e)
    BY <1>0, <2>1, ReadPolicyBinds
  <2>2. CASE Compile(e)
    BY <1>0, <2>2, CompileBinds
  <2>3. CASE Run(e) \/ ReportNodeFailed(e) \/ ReportFailure(e) \/ Replay(e) \/ Complete(e)
    <3>1. /\ pc[e] # "new" /\ UNCHANGED <<workflow, rules, held, policy_ir, graph>>
          /\ \E place \in {"scheduled", "failed", "failing", "starting", "started", "done"} :
                Goto(e, place)
      BY <2>3 DEF Run, ReportNodeFailed, ReportFailure, Replay, ReplayNode, Complete, Answer
    <3>2. workflow[e] # Nothing
      BY <3>1 DEF PolicyInv, Bound
    <3> QED BY <1>0, <3>1, <3>2, LaterStepBinds DEF Early
  <2> QED BY <1>3, <2>1, <2>2, <2>3 DEF Works
<1>4. ASSUME NEW r \in Rules, apply_policy(r) \/ remove_policy(r) PROVE PolicyInv'
  BY <1>0, <1>4, RegistryBinds
<1>5. CASE Listens \/ UNCHANGED vars \/ \E ev \in writing : WriteLands(ev) \/ WriteIsLost(ev)
  <2>1. UNCHANGED <<workflow, pc, rules, held, policy_ir, graph>>
    BY <1>5 DEF Listens, Lagged, Dispatch, WriteLands, WriteIsLost, exec, vars
  <2> QED BY <1>0, <2>1 DEF PolicyInv, Bound
<1> QED BY <1>1, <1>2, <1>3, <1>4, <1>5 DEF Next, Writes

\* What was in force when a request came still binds its snapshot and its graph,
\* whatever the administrator changes later (execution.rs:277, lib.rs:1049).
THEOREM PolicyInvariant == Spec => []PolicyInv
<1>1. PolicyInv /\ [Next]_vars => PolicyInv'
  BY PolicyStep
<1> QED BY PolicyStart, <1>1, PTL DEF Spec

\* What the control-flow validation found of the edges survives the removal of dead
\* nodes and the insertion of gates: no edge of a compiled graph lacks an end
\* (lib.rs:972, lib.rs:1094).
EdgesJoinNodes == \A e \in Execs : EdgesKnown(graph[e])

\* No compiled graph has a dangling edge.
THEOREM CompiledEdgesKnown == Spec => []EdgesJoinNodes
<1>1. PolicyInv => EdgesJoinNodes
  BY DEF PolicyInv, Bound, Compiled, EdgesJoinNodes
<1> QED BY PolicyInvariant, <1>1, PTL

-----------------------------------------------------------------------------
(* The subgraphs of the strategies. *)

LEMMA ImageSize ==
    ASSUME NEW k \in Nat, NEW f, DOMAIN f = 1 .. k, NEW S, S = {f[i] : i \in 1 .. k}
    PROVE  IsFiniteSet(S) /\ Cardinality(S) \in Nat /\ Cardinality(S) <= k
<1> DEFINE h == [i \in 1 .. k |-> f[i]]
<1>1. h \in Surjection(1 .. k, S)
  <2>1. h \in [1 .. k -> S] /\ \A x \in S : \E i \in 1 .. k : h[i] = x
    OBVIOUS
  <2> HIDE DEF h
  <2> QED BY <2>1, Fun_IsSurj
<1>2. IsFiniteSet(1 .. k) /\ Cardinality(1 .. k) = k
  BY FS_Interval
<1> HIDE DEF h
<1>3. IsFiniteSet(S) /\ Cardinality(S) <= Cardinality(1 .. k)
  BY <1>1, <1>2, FS_Surjection
<1> QED BY <1>2, <1>3, FS_CardinalityType

LEMMA FanInRuns ==
    ASSUME NEW role, NEW k \in Nat \ {0}, NEW models, Len(models) = k, NEW last, NEW own,
           \A i \in 1 .. k : Child(role, i) # last
    PROVE  RunsToExit(FanIn(role, models, last, own), k + 1)
<1> DEFINE f == [i \in 1 .. k |-> Child(role, i)]
           S == {f[i] : i \in 1 .. k}
           sub == FanIn(role, models, last, own)
<1>1. IsFiniteSet(S) /\ Cardinality(S) \in Nat /\ Cardinality(S) <= k
  <2>1. DOMAIN f = 1 .. k
    OBVIOUS
  <2> HIDE DEF f
  <2> QED BY <2>1, ImageSize
<1>2. /\ sub.nodes = S \union {last} /\ sub.edges = {<<f[i], last>> : i \in 1 .. k}
      /\ sub.entry = f[1] /\ sub.exit = last /\ last \notin S /\ f[1] \in S
  BY DEF FanIn
<1>3. IsFiniteSet(sub.nodes) /\ Cardinality(sub.nodes) <= k + 1
  <2> HIDE DEF S, sub
  <2>1. IsFiniteSet(S \union {last}) /\ Cardinality(S \union {last}) = Cardinality(S) + 1
    BY <1>1, <1>2, FS_AddElement
  <2> QED BY <1>1, <1>2, <2>1
<1> HIDE DEF f, sub
<1>4. ASSUME NEW x, NEW y PROVE <<x, y>> \in sub.edges <=> (x \in S /\ y = last)
  BY <1>2
<1> HIDE DEF S
<1>5. sub.entry \notin After(sub, sub.nodes) /\ After(sub, {sub.exit}) = {}
  BY <1>2, <1>4 DEF After
<1>6. ASSUME NEW set \in (SUBSET sub.nodes) \ {{}}, After(sub, set) \subseteq set
      PROVE  sub.exit \in set
  <2>1. PICK x \in set : TRUE
    BY <1>6
  <2>2. CASE x = last
    BY <1>2, <2>1, <2>2
  <2>3. CASE x \in S
    BY <1>2, <1>4, <1>6, <2>1, <2>3 DEF After
  <2> QED BY <1>2, <2>1, <2>2, <2>3
<1> QED BY <1>2, <1>3, <1>5, <1>6 DEF RunsToExit, sub

LEMMA PipelineRuns ==
    ASSUME NEW c, NEW own, NEW k \in Nat \ {0}, Sequence(c), Len(c) = k,
           \A i, j \in 1 .. k : c[i] = c[j] => i = j
    PROVE  RunsToExit(Pipeline(c, own), k)
<1> DEFINE sub == Pipeline(c, own)
<1>0. PICK C : c \in Seq(C)
  BY DEF Sequence
<1>1. /\ DOMAIN c = 1 .. k /\ c # <<>>
  BY <1>0
<1>2. /\ sub.nodes = {c[i] : i \in 1 .. k} /\ sub.edges = {<<c[i], c[i + 1]>> : i \in 1 .. k - 1}
      /\ sub.entry = c[1] /\ sub.exit = c[k]
  BY <1>0, <1>1 DEF Pipeline, ToSet, Last
<1> HIDE DEF sub
<1>3. IsFiniteSet(sub.nodes) /\ Cardinality(sub.nodes) <= k
  <2>1. k \in Nat /\ DOMAIN c = 1 .. k /\ sub.nodes = {c[i] : i \in 1 .. k}
    BY <1>1, <1>2
  <2> QED BY <2>1, ImageSize
<1>4. ASSUME NEW i \in 1 .. k, NEW j \in 1 .. k
      PROVE  <<c[i], c[j]>> \in sub.edges <=> (j = i + 1)
  <2>1. ASSUME <<c[i], c[j]>> \in sub.edges PROVE j = i + 1
    <3>0. <<c[i], c[j]>> \in {<<c[m], c[m + 1]>> : m \in 1 .. k - 1}
      BY <1>2, <2>1
    <3>1. PICK m \in 1 .. k - 1 : <<c[i], c[j]>> = <<c[m], c[m + 1]>>
      BY <3>0
    <3>2. c[i] = c[m] /\ c[j] = c[m + 1] /\ m \in 1 .. k /\ m + 1 \in 1 .. k
      BY <3>1
    <3> QED BY <3>2
  <2>2. ASSUME j = i + 1 PROVE <<c[i], c[j]>> \in sub.edges
    <3>1. i \in 1 .. k - 1
      BY <2>2
    <3> QED BY <1>2, <2>2, <3>1
  <2> QED BY <2>1, <2>2
<1>5. sub.entry \notin After(sub, sub.nodes)
  <2> SUFFICES ASSUME NEW i \in 1 .. k, <<c[i], c[1]>> \in sub.edges PROVE FALSE
    BY <1>2 DEF After
  <2>1. 1 \in 1 .. k
    OBVIOUS
  <2> QED BY <1>4, <2>1
<1>6. After(sub, {sub.exit}) = {}
  <2> SUFFICES ASSUME NEW j \in 1 .. k, <<c[k], c[j]>> \in sub.edges PROVE FALSE
    BY <1>2 DEF After
  <2>1. k \in 1 .. k
    OBVIOUS
  <2> QED BY <1>4, <2>1
<1>7. ASSUME NEW set \in (SUBSET sub.nodes) \ {{}}, After(sub, set) \subseteq set
      PROVE  sub.exit \in set
  <2> DEFINE I == {i \in 1 .. k : c[i] \in set}
  <2>1. I \in SUBSET Nat /\ I # {} /\ IsFiniteSet(I)
    <3>1. IsFiniteSet(1 .. k)
      <4>1. 1 \in Int /\ k \in Int
        OBVIOUS
      <4> QED BY <4>1, FS_Interval
    <3>2. I \subseteq 1 .. k /\ I # {}
      BY <1>2, <1>7
    <3> HIDE DEF I
    <3>3. IsFiniteSet(I)
      BY <3>1, <3>2, FS_Subset
    <3> QED BY <3>2, <3>3
  <2>2. PICK m \in I : \A i \in I : i <= m
    <3> HIDE DEF I
    <3> QED BY <2>1, FiniteMax DEF HasMax
  <2>3. CASE m = k
    BY <1>2, <2>2, <2>3
  <2>4. CASE m < k
    <3>1. m \in 1 .. k /\ m + 1 \in 1 .. k /\ c[m] \in set
      BY <2>2, <2>4
    <3>2. <<c[m], c[m + 1]>> \in sub.edges
      BY <1>4, <3>1
    <3>3. c[m + 1] \in After(sub, set)
      BY <1>2, <3>1, <3>2 DEF After
    <3>4. m + 1 \in I
      BY <1>7, <3>1, <3>3
    <3> QED BY <2>2, <3>1, <3>4
  <2> QED BY <2>2, <2>3, <2>4
<1>8. {sub.entry, sub.exit} \subseteq sub.nodes
  BY <1>2
<1> QED BY <1>3, <1>5, <1>6, <1>7, <1>8 DEF RunsToExit, sub

LEMMA RunsMore ==
    ASSUME NEW sub, NEW k \in Nat, NEW m \in Nat, k <= m, RunsToExit(sub, k)
    PROVE  RunsToExit(sub, m)
<1>1. Cardinality(sub.nodes) \in Nat
  BY FS_CardinalityType DEF RunsToExit
<1> QED BY <1>1 DEF RunsToExit

LargestSubgraph == Max({MAX_CONSENSUS_MEMBERS + 1, MAX_CHAIN_STEPS, 3})

LEMMA LargestBounds ==
    /\ LargestSubgraph \in Nat /\ LargestSubgraph >= MAX_CONSENSUS_MEMBERS + 1
    /\ LargestSubgraph >= MAX_CHAIN_STEPS /\ LargestSubgraph >= 3
<1> DEFINE S == {MAX_CONSENSUS_MEMBERS + 1, MAX_CHAIN_STEPS, 3}
<1>1. MAX_CONSENSUS_MEMBERS \in Nat /\ MAX_CHAIN_STEPS \in Nat
  BY CompilerAssumption
<1>2. \E x \in S : \A y \in S : x >= y
  BY <1>1
<1>3. Max(S) \in S /\ \A y \in S : Max(S) >= y
  BY <1>2 DEF Max
<1> QED BY <1>1, <1>3 DEF LargestSubgraph

LEMMA ChainRuns ==
    ASSUME NEW node, NodeOk(node)
    PROVE  RunsToExit(expand_chain(node), LargestSubgraph)
<1> DEFINE k == resolved_chain_steps(node)
           c == [i \in 1 .. k |-> Child("step", i)]
<1>0. IsArray(node) => Len(node.list) \in Nat
  BY DEF NodeOk, Sequence
<1>1. k \in Nat \ {0} /\ (k <= MAX_CHAIN_STEPS \/ k = 2) /\ MAX_CHAIN_STEPS \in Nat
  BY <1>0, CompilerAssumption DEF resolved_chain_steps, Clamp
<1> HIDE DEF k
<1>2. c \in Seq({Child("step", i) : i \in 1 .. k}) /\ Len(c) = k
  BY <1>1
<1>3. \A i, j \in 1 .. k : c[i] = c[j] => i = j
  BY DEF Child
<1>4. expand_chain(node) = Pipeline(c, node.model)
  BY DEF expand_chain, k
<1> HIDE DEF c
<1>5. RunsToExit(Pipeline(c, node.model), k)
  BY <1>1, <1>2, <1>3, PipelineRuns DEF Sequence
<1>6. k \in Nat /\ k <= LargestSubgraph /\ LargestSubgraph \in Nat
  BY <1>1, LargestBounds
<1> QED BY <1>4, <1>5, <1>6, RunsMore

\* A consensus has a member at least and not more than the maximum, and each has the
\* node's own model or a model of the list.
LEMMA MembersOf ==
    ASSUME NEW node, NodeOk(node)
    PROVE  LET models == ConsensusModels(node)
           IN  /\ Len(models) \in 1 .. MAX_CONSENSUS_MEMBERS
               /\ \A i \in 1 .. Len(models) :
                     models[i] = node.model \/ (IsArray(node) /\ models[i] \in ToSet(node.list))
<1> DEFINE count == Clamp(IF node.size \in Nat THEN node.size ELSE 3, 1, MAX_CONSENSUS_MEMBERS)
           I == {i \in DOMAIN node.list : node.list[i] # Mistyped}
           members == IF IsArray(node) THEN Kept(node.list, I) ELSE <<>>
           own == [i \in 1 .. count |-> node.model]
           last == Clamp(Len(members), 1, MAX_CONSENSUS_MEMBERS)
<1>0. MAX_CONSENSUS_MEMBERS \in Nat \ {0}
  BY CompilerAssumption
<1>1. ConsensusModels(node) = IF members = <<>> THEN own ELSE SubSeq(members, 1, last)
  BY DEF ConsensusModels
<1>2. count \in 1 .. MAX_CONSENSUS_MEMBERS
  BY <1>0 DEF Clamp
<1>3. Sequence(members)
  <2>1. CASE IsArray(node)
    <3>1. I \in SUBSET DOMAIN node.list /\ Sequence(node.list)
      BY <2>1 DEF NodeOk
    <3> HIDE DEF I
    <3>2. Sequence(Kept(node.list, I))
      BY <3>1, KeptOf
    <3> QED BY <2>1, <3>2
  <2>2. CASE ~IsArray(node)
    BY <2>2, EmptySequence
  <2> QED BY <2>1, <2>2
<1>4. ASSUME NEW k \in DOMAIN members, IsArray(node) PROVE members[k] \in ToSet(node.list)
  <2>1. I \in SUBSET DOMAIN node.list /\ Sequence(node.list)
    BY <1>4 DEF NodeOk
  <2>2. k \in DOMAIN Kept(node.list, I) /\ members[k] = Kept(node.list, I)[k]
    BY <1>4
  <2> HIDE DEF I
  <2>3. PICK i \in I : Kept(node.list, I)[k] = node.list[i]
    BY <2>1, <2>2, KeptOf
  <2> QED BY <2>1, <2>2, <2>3 DEF ToSet
<1>5. members # <<>> => IsArray(node)
  OBVIOUS
<1> HIDE DEF members, count
<1>6. CASE members = <<>>
  <2>1. own \in Seq({node.model}) /\ Len(own) = count
    BY <1>2
  <2>2. \A i \in 1 .. count : own[i] = node.model
    OBVIOUS
  <2> HIDE DEF own
  <2> QED BY <1>1, <1>2, <1>6, <2>1, <2>2
<1>7. CASE members # <<>>
  <2>1. PICK S : members \in Seq(S)
    BY <1>3 DEF Sequence
  <2>2. Len(members) \in Nat \ {0} /\ DOMAIN members = 1 .. Len(members)
    BY <1>7, <2>1
  <2>3. last \in 1 .. MAX_CONSENSUS_MEMBERS /\ last \in 1 .. Len(members)
    BY <1>0, <2>2 DEF Clamp
  <2> HIDE DEF last
  <2>4. /\ Len(SubSeq(members, 1, last)) = last
        /\ \A i \in 1 .. last : SubSeq(members, 1, last)[i] = members[i]
    BY <2>1, <2>2, <2>3
  <2>5. \A i \in 1 .. last : members[i] \in ToSet(node.list)
    BY <1>4, <1>5, <1>7, <2>2, <2>3
  <2> QED BY <1>1, <1>5, <1>7, <2>3, <2>4, <2>5
<1> QED BY <1>6, <1>7

LEMMA ConsensusRuns ==
    ASSUME NEW node, NodeOk(node)
    PROVE  RunsToExit(expand_consensus(node), LargestSubgraph)
<1> DEFINE models == ConsensusModels(node)
           k == Len(models)
<1>1. k \in Nat \ {0} /\ k <= MAX_CONSENSUS_MEMBERS /\ MAX_CONSENSUS_MEMBERS \in Nat
  BY CompilerAssumption, MembersOf
<1>2. expand_consensus(node) = FanIn("gen", models, Child("judge", 0), node.model)
  BY DEF expand_consensus
<1> HIDE DEF models
<1>3. \A i \in 1 .. k : Child("gen", i) # Child("judge", 0)
  BY DEF Child
<1>4. RunsToExit(expand_consensus(node), k + 1)
  BY <1>1, <1>2, <1>3, FanInRuns
<1>5. k + 1 \in Nat /\ k + 1 <= LargestSubgraph /\ LargestSubgraph \in Nat
  BY <1>1, LargestBounds
<1> QED BY <1>4, <1>5, RunsMore

LEMMA FixedRun ==
    ASSUME NEW node
    PROVE  /\ RunsToExit(expand_reflection(node), LargestSubgraph)
           /\ RunsToExit(expand_react(node), LargestSubgraph)
           /\ RunsToExit(expand_debate(node), LargestSubgraph)
           /\ RunsToExit(expand_fusion(node), LargestSubgraph)
<1> DEFINE own == node.model
<1>0. LargestSubgraph \in Nat /\ LargestSubgraph >= 3
  BY LargestBounds
<1>1. ASSUME NEW x, NEW y, x # y PROVE RunsToExit(Pipeline(<<x, y>>, own), LargestSubgraph)
  <2> DEFINE c == <<x, y>>
  <2>1. c \in Seq({x, y}) /\ Len(c) = 2 /\ c[1] = x /\ c[2] = y
    OBVIOUS
  <2> HIDE DEF c
  <2>2. \A i, j \in 1 .. 2 : c[i] = c[j] => i = j
    BY <1>1, <2>1
  <2>3. RunsToExit(Pipeline(c, own), 2)
    <3>1. Sequence(c)
      BY <2>1 DEF Sequence
    <3>2. PICK k \in Nat \ {0} : k = 2
      OBVIOUS
    <3>3. Len(c) = k /\ \A i, j \in 1 .. k : c[i] = c[j] => i = j
      BY <2>1, <2>2, <3>2
    <3>4. RunsToExit(Pipeline(c, own), k)
      BY <3>1, <3>3, PipelineRuns
    <3> QED BY <3>2, <3>4
  <2> QED BY <1>0, <2>3, RunsMore DEF c
<1>2. ASSUME NEW x, NEW y, NEW z, x # y, y # z, x # z
      PROVE  RunsToExit(Pipeline(<<x, y, z>>, own), LargestSubgraph)
  <2> DEFINE c == <<x, y, z>>
  <2>1. c \in Seq({x, y, z}) /\ Len(c) = 3 /\ c[1] = x /\ c[2] = y /\ c[3] = z
    OBVIOUS
  <2> HIDE DEF c
  <2>2. \A i, j \in 1 .. 3 : c[i] = c[j] => i = j
    BY <1>2, <2>1
  <2>3. RunsToExit(Pipeline(c, own), 3)
    <3>1. Sequence(c)
      BY <2>1 DEF Sequence
    <3>2. PICK k \in Nat \ {0} : k = 3
      OBVIOUS
    <3>3. Len(c) = k /\ \A i, j \in 1 .. k : c[i] = c[j] => i = j
      BY <2>1, <2>2, <3>2
    <3>4. RunsToExit(Pipeline(c, own), k)
      BY <3>1, <3>3, PipelineRuns
    <3> QED BY <3>2, <3>4
  <2> QED BY <1>0, <2>3, RunsMore DEF c
<1>3. Child("generator", 0) # Child("reviewer", 0) /\ Child("reason", 0) # Child("tool", 0)
  BY DEF Child
<1>4. /\ Child("proposer", 0) # Child("opposer", 0) /\ Child("opposer", 0) # Child("judge", 0)
      /\ Child("proposer", 0) # Child("judge", 0)
  BY DEF Child
<1>5. RunsToExit(FanIn("candidate", <<own, own>>, Child("merger", 0), own), LargestSubgraph)
  <2> DEFINE two == <<own, own>>
  <2>1. \A i \in 1 .. 2 : Child("candidate", i) # Child("merger", 0)
    BY DEF Child
  <2>2. PICK k \in Nat \ {0} : k = 2 /\ Len(two) = k
    OBVIOUS
  <2> HIDE DEF two
  <2>3. \A i \in 1 .. k : Child("candidate", i) # Child("merger", 0)
    BY <2>1, <2>2
  <2>4. RunsToExit(FanIn("candidate", two, Child("merger", 0), own), k + 1)
    BY <2>2, <2>3, FanInRuns
  <2>5. k + 1 \in Nat /\ k + 1 <= LargestSubgraph
    BY <1>0, <2>2
  <2> QED BY <1>0, <2>4, <2>5, RunsMore DEF two
<1> QED BY <1>1, <1>2, <1>3, <1>4, <1>5 DEF expand_reflection, expand_react, expand_debate, expand_fusion

LEMMA ExpansionRuns ==
    ASSUME NEW node, NodeOk(node)
    PROVE  expanded_subgraph(node).nodes = {} \/ RunsToExit(expanded_subgraph(node), LargestSubgraph)
BY ChainRuns, ConsensusRuns, FixedRun DEF expanded_subgraph

LEMMA PolicyInvRuns == PolicyInv => SubgraphsRun
<1> SUFFICES ASSUME PolicyInv, NEW e \in Execs, NEW i \in DOMAIN graph[e].subgraphs,
                    graph[e].subgraphs[i].nodes # {}
             PROVE  RunsToExit(graph[e].subgraphs[i], LargestSubgraph)
  BY DEF SubgraphsRun, LargestSubgraph
<1>1. PICK node : graph[e].subgraphs[i] = expanded_subgraph(node) /\ NodeOk(node)
  BY DEF PolicyInv, Bound, Compiled, Expanded
<1> QED BY <1>1, ExpansionRuns

\* For every strategy, any configured size and any limits: the subgraph is bounded,
\* its entry waits for nothing, and whatever has run leads on to its only exit
\* (strategy_expansion.rs:46).
THEOREM SubgraphsRunToExit == Spec => []SubgraphsRun
BY PolicyInvariant, PolicyInvRuns, PTL

-----------------------------------------------------------------------------
(* What the rules bind. *)

Listed(node) == IF node.strategy = "Consensus" /\ IsArray(node) THEN ToSet(node.list) ELSE {}

LEMMA PipelineModels ==
    ASSUME NEW children, NEW own, NEW c \in Pipeline(children, own).nodes
    PROVE  Pipeline(children, own).model[c] = own
BY DEF Pipeline

LEMMA FanInModels ==
    ASSUME NEW role, NEW models, NEW last, NEW own, NEW c \in FanIn(role, models, last, own).nodes
    PROVE  \/ FanIn(role, models, last, own).model[c] = own
           \/ \E i \in 1 .. Len(models) : FanIn(role, models, last, own).model[c] = models[i]
<1> DEFINE nodes == {Child(role, i) : i \in 1 .. Len(models)} \union {last}
           sub == FanIn(role, models, last, own)
<1>1. c \in nodes /\ sub.model = [d \in nodes |-> IF d = last THEN own ELSE models[d[2]]]
  BY DEF FanIn
<1>2. sub.model[c] = IF c = last THEN own ELSE models[c[2]]
  <2> HIDE DEF nodes, sub
  <2> QED BY <1>1
<1>3. CASE c = last
  BY <1>2, <1>3
<1>4. CASE c # last
  <2>1. PICK i \in 1 .. Len(models) : c = Child(role, i)
    BY <1>1, <1>4
  <2>2. c[2] = i
    BY <2>1 DEF Child
  <2> QED BY <1>2, <1>4, <2>2
<1> QED BY <1>3, <1>4

\* A node of a subgraph calls the model of the node it was made from, or one listed.
LEMMA ExpansionModels ==
    ASSUME NEW node, NodeOk(node), NEW c \in expanded_subgraph(node).nodes
    PROVE  expanded_subgraph(node).model[c] \in {node.model} \union Listed(node)
<1> DEFINE sub == expanded_subgraph(node)
<1>1. CASE node.strategy = "Consensus"
  <2> DEFINE models == ConsensusModels(node)
  <2>1. sub = FanIn("gen", models, Child("judge", 0), node.model)
    BY <1>1 DEF expanded_subgraph, expand_consensus
  <2>2. \A i \in 1 .. Len(models) :
            models[i] = node.model \/ (IsArray(node) /\ models[i] \in ToSet(node.list))
    BY MembersOf
  <2> HIDE DEF models, sub
  <2>3. c \in sub.nodes
    BY DEF sub
  <2>4. sub.model[c] = node.model \/ \E i \in 1 .. Len(models) : sub.model[c] = models[i]
    BY <2>1, <2>3, FanInModels
  <2> QED BY <1>1, <2>2, <2>4 DEF sub, Listed
<1>2. CASE node.strategy = "Fusion"
  <2> DEFINE models == <<node.model, node.model>>
  <2>1. sub = FanIn("candidate", models, Child("merger", 0), node.model)
    BY <1>2 DEF expanded_subgraph, expand_fusion
  <2>2. Len(models) = 2 /\ \A i \in 1 .. 2 : models[i] = node.model
    OBVIOUS
  <2> HIDE DEF models, sub
  <2>3. c \in sub.nodes
    BY DEF sub
  <2>4. sub.model[c] = node.model \/ \E i \in 1 .. Len(models) : sub.model[c] = models[i]
    BY <2>1, <2>3, FanInModels
  <2> QED BY <2>2, <2>4 DEF sub
<1>3. CASE node.strategy \in {"Reflection", "ReAct", "Debate", "Chain"}
  <2>1. \E children : sub = Pipeline(children, node.model)
    BY <1>3 DEF expanded_subgraph, expand_reflection, expand_react, expand_debate, expand_chain
  <2> QED BY <2>1, PipelineModels
<1>4. CASE node.strategy \notin {"Consensus", "Fusion", "Reflection", "ReAct", "Debate", "Chain"}
  BY <1>4 DEF expanded_subgraph
<1> QED BY <1>1, <1>2, <1>3, <1>4

LEMMA PolicyInvSuffices == PolicyInv => PolicyEnforced
<1> SUFFICES ASSUME PolicyInv, NEW e \in Execs, NEW i \in DOMAIN graph[e].nodes
             PROVE  LET node == graph[e].nodes[i]
                        sub == graph[e].subgraphs[i]
                    IN  /\ \A r \in held[e] : (node.id < GateOf(0) /\ Matches(r, node)) =>
                              /\ r.effect # "deny"
                              /\ r.effect = "approval" => Guarded(graph[e], node.id)
                        /\ \A c \in sub.nodes : sub.model[c] \in {node.model} \union Listed(node)
  BY DEF PolicyEnforced, Listed
<1>1. Enforced(graph[e], held[e]) /\ Expanded(graph[e])
  BY DEF PolicyInv, Bound, Compiled
<1>2. NodeOk(graph[e].nodes[i]) /\ graph[e].subgraphs[i] = expanded_subgraph(graph[e].nodes[i])
  BY <1>1 DEF Expanded
<1>3. ASSUME NEW c \in graph[e].subgraphs[i].nodes
      PROVE  graph[e].subgraphs[i].model[c] \in {graph[e].nodes[i].model} \union Listed(graph[e].nodes[i])
  BY <1>2, ExpansionModels
<1> QED BY <1>1, <1>3 DEF Enforced

\* Whatever an administrator changes meanwhile, whatever the workflow and however
\* many rules match a node with whatever priorities: a rule in force from the
\* request on until the registry was read is enforced on the nodes of the workflow,
\* and the only models that enter the graph behind the policy pass are those a client
\* lists as members of a consensus (execution.rs:277, policy.rs:80, lib.rs:1049,
\* strategy_expansion.rs:127).
THEOREM PolicyIsEnforced == Spec => []PolicyEnforced
BY PolicyInvariant, PolicyInvSuffices, PTL

-----------------------------------------------------------------------------
(* The events and the answer. *)

Ends(em) == {i \in DOMAIN em : em[i].kind \in Terminal}

Told(answer, em) ==
    LET n == Len(em)
    IN  CASE answer = "ok" -> Ends(em) = {n} /\ em[n].kind = "WorkflowCompleted"
          [] answer = "upstream" ->
                /\ Ends(em) = {n} /\ em[n].kind = "WorkflowFailed"
                /\ em[n - 1].kind = "NodeFailed" /\ em[n].node = em[n - 1].node
          [] OTHER -> Ends(em) = {}

\* Until it is answered an execution has no terminal event; between the two events
\* of a failure the first is the last one sent.
Outcome(e) ==
    /\ Sequence(emitted[e])
    /\ pc[e] # "done" => response[e] = "none" /\ Ends(emitted[e]) = {}
    /\ pc[e] = "failing" =>
          LET n == Len(emitted[e])
          IN  n > 0 /\ emitted[e][n].kind = "NodeFailed" /\ emitted[e][n].node = FirstFailed(e)
    /\ Told(response[e], emitted[e])

PerExecution ==
    /\ pc = [e \in Execs |-> pc[e]] /\ response = [e \in Execs |-> response[e]]
    /\ emitted = [e \in Execs |-> emitted[e]] /\ order = [e \in Execs |-> order[e]]
    /\ states = [e \in Execs |-> states[e]] /\ graph = [e \in Execs |-> graph[e]]

OutcomeInv == PerExecution /\ \A e \in Execs : Outcome(e)

OthersKept(e) ==
    \A f \in Execs \ {e} :
        /\ pc'[f] = pc[f] /\ response'[f] = response[f] /\ emitted'[f] = emitted[f]
        /\ order'[f] = order[f] /\ states'[f] = states[f] /\ graph'[f] = graph[f]

\* An execution changes nothing of the others.
LEMMA PerExecutionStep ==
    ASSUME PerExecution, NEW e \in Execs,
           pc' = pc \/ \E x : pc' = [pc EXCEPT ![e] = x],
           response' = response \/ \E x : response' = [response EXCEPT ![e] = x],
           emitted' = emitted \/ \E x : emitted' = [emitted EXCEPT ![e] = x],
           order' = order \/ \E x : order' = [order EXCEPT ![e] = x],
           states' = states \/ \E x : states' = [states EXCEPT ![e] = x],
           graph' = graph \/ \E x : graph' = [graph EXCEPT ![e] = x]
    PROVE  PerExecution' /\ OthersKept(e)
<1>1. ASSUME NEW f, f = [d \in Execs |-> f[d]], NEW g, g = f \/ \E x : g = [f EXCEPT ![e] = x]
      PROVE  g = [d \in Execs |-> g[d]] /\ \A d \in Execs \ {e} : g[d] = f[d]
  BY <1>1
<1>2. pc' = [d \in Execs |-> pc'[d]] /\ \A d \in Execs \ {e} : pc'[d] = pc[d]
  BY <1>1 DEF PerExecution
<1>3. response' = [d \in Execs |-> response'[d]] /\ \A d \in Execs \ {e} : response'[d] = response[d]
  BY <1>1 DEF PerExecution
<1>4. emitted' = [d \in Execs |-> emitted'[d]] /\ \A d \in Execs \ {e} : emitted'[d] = emitted[d]
  BY <1>1 DEF PerExecution
<1>5. order' = [d \in Execs |-> order'[d]] /\ \A d \in Execs \ {e} : order'[d] = order[d]
  BY <1>1 DEF PerExecution
<1>6. states' = [d \in Execs |-> states'[d]] /\ \A d \in Execs \ {e} : states'[d] = states[d]
  BY <1>1 DEF PerExecution
<1>7. graph' = [d \in Execs |-> graph'[d]] /\ \A d \in Execs \ {e} : graph'[d] = graph[d]
  BY <1>1 DEF PerExecution
<1> QED BY <1>2, <1>3, <1>4, <1>5, <1>6, <1>7 DEF PerExecution, OthersKept

LEMMA OthersTold ==
    ASSUME OutcomeInv, NEW e \in Execs, OthersKept(e), NEW f \in Execs, f # e
    PROVE  Outcome(f)'
<1>1. /\ pc'[f] = pc[f] /\ response'[f] = response[f] /\ emitted'[f] = emitted[f]
      /\ order'[f] = order[f] /\ states'[f] = states[f] /\ graph'[f] = graph[f]
  BY DEF OthersKept
<1>2. FirstFailed(f)' = FirstFailed(f)
  BY <1>1 DEF FirstFailed
<1>3. Outcome(f)
  BY DEF OutcomeInv
<1>4. Sequence(emitted'[f]) /\ Told(response'[f], emitted'[f])
  BY <1>1, <1>3 DEF Outcome
<1>5. pc'[f] # "done" => response'[f] = "none" /\ Ends(emitted'[f]) = {}
  BY <1>1, <1>3 DEF Outcome
<1> QED BY <1>1, <1>2, <1>3, <1>4, <1>5 DEF Outcome

LEMMA AppendEnds ==
    ASSUME NEW s, Sequence(s), NEW x
    PROVE  /\ x.kind \notin Terminal => Ends(Append(s, x)) = Ends(s)
           /\ x.kind \in Terminal => Ends(Append(s, x)) = Ends(s) \union {Len(s) + 1}
<1> DEFINE t == Append(s, x)
<1>1. /\ Sequence(t) /\ Len(s) \in Nat /\ Len(t) = Len(s) + 1
      /\ \A i \in 1 .. Len(s) : t[i] = s[i]
      /\ t[Len(s) + 1] = x
  BY AppendSequence
<1> HIDE DEF t
<1>2. DOMAIN s = 1 .. Len(s) /\ DOMAIN t = 1 .. Len(t)
  BY <1>1 DEF Sequence
<1>3. DOMAIN t = DOMAIN s \union {Len(s) + 1} /\ \A i \in DOMAIN s : t[i] = s[i]
  BY <1>1, <1>2
<1>4. Len(s) + 1 \notin DOMAIN s
  BY <1>1, <1>2
<1> QED BY <1>1, <1>3, <1>4 DEF Ends, t

\* An event that ends nothing leaves the story open.
LEMMA EmitGoesOn ==
    ASSUME OutcomeInv, NEW e \in Execs, NEW kind, kind \notin Terminal, NEW node,
           emit(e, kind, node), pc[e] # "done",
           NEW place, place \notin {"done", "failing"}, Goto(e, place), UNCHANGED response,
           PerExecution' /\ OthersKept(e)
    PROVE  OutcomeInv'
<1> DEFINE x == [kind |-> kind, node |-> node]
<1>1. emitted'[e] = Append(emitted[e], x) /\ pc'[e] = place /\ response'[e] = response[e]
  BY DEF emit, Goto, OutcomeInv, PerExecution
<1>2. x.kind \notin Terminal
  OBVIOUS
<1> HIDE DEF x
<1>3. Sequence(emitted[e]) /\ response[e] = "none" /\ Ends(emitted[e]) = {}
  BY DEF OutcomeInv, Outcome
<1>4. Sequence(emitted'[e]) /\ Ends(emitted'[e]) = {}
  BY <1>1, <1>2, <1>3, AppendSequence, AppendEnds
<1>5. Outcome(e)'
  BY <1>1, <1>3, <1>4 DEF Outcome, Told
<1>6. ASSUME NEW f \in Execs, f # e PROVE Outcome(f)'
  BY <1>6, OthersTold
<1> QED BY <1>5, <1>6 DEF OutcomeInv

\* An answer that tells of no outcome comes with no event.
LEMMA QuietAnswer ==
    ASSUME OutcomeInv, NEW e \in Execs, pc[e] # "done", NEW what, what \notin {"ok", "upstream"},
           Answer(e, what), UNCHANGED emitted, PerExecution' /\ OthersKept(e)
    PROVE  OutcomeInv'
<1>1. pc'[e] = "done" /\ response'[e] = what /\ emitted'[e] = emitted[e]
  BY DEF Answer, Goto, OutcomeInv, PerExecution
<1>2. Outcome(e)'
  BY <1>1 DEF OutcomeInv, Outcome, Told
<1>3. ASSUME NEW f \in Execs, f # e PROVE Outcome(f)'
  BY <1>3, OthersTold
<1> QED BY <1>2, <1>3 DEF OutcomeInv

LEMMA QuietMove ==
    ASSUME OutcomeInv, NEW e \in Execs, pc[e] # "done", NEW place, place \notin {"done", "failing"},
           Goto(e, place), UNCHANGED <<emitted, response>>, PerExecution' /\ OthersKept(e)
    PROVE  OutcomeInv'
<1>1. pc'[e] = place /\ response'[e] = response[e] /\ emitted'[e] = emitted[e]
  BY DEF Goto, OutcomeInv, PerExecution
<1>2. Outcome(e)'
  BY <1>1 DEF OutcomeInv, Outcome, Told
<1>3. ASSUME NEW f \in Execs, f # e PROVE Outcome(f)'
  BY <1>3, OthersTold
<1> QED BY <1>2, <1>3 DEF OutcomeInv

\* No pass is named like an answer that tells of an outcome.
LEMMA RefusalsNamed ==
    ASSUME NEW w, IsWorkflow(w), NEW R, NEW b \in BOOLEAN, ~RunPasses(w, R, b).ok
    PROVE  RunPasses(w, R, b).pass \in {"constraint", "edges", "kinds", "cycle", "strategy",
                                         "budget", "policy"}
<1> DEFINE Names == {"constraint", "edges", "kinds", "cycle", "strategy", "budget", "policy"}
           bounded   == ConstraintValidationPass(w)
           validated == Then(bounded, ControlFlowValidationPass(bounded.ir))
           lowered   == Then(validated, StrategyLoweringPass(validated.ir))
           live      == Then(lowered, DeadNodeEliminationPass(lowered.ir))
           resolved  == Then(live, ModelResolutionPass(live.ir))
           priced    == Then(resolved, BudgetOptimisationPass(resolved.ir, b))
           all       == IF R = {} THEN priced ELSE Then(priced, PolicyCompilerPass(priced.ir, R))
<1>1. RunPasses(w, R, b) = all
  BY DEF RunPasses
<1>2. bounded.ok \/ bounded.pass \in Names
  BY DEF ConstraintValidationPass, Ok, Err
<1> HIDE DEF bounded
<1>3. validated.ok \/ validated.pass \in Names
  BY <1>2 DEF ControlFlowValidationPass, Then, Ok, Err
<1> HIDE DEF validated
<1>4. lowered.ok \/ lowered.pass \in Names
  BY <1>3 DEF StrategyLoweringPass, Then, Ok, Err
<1> HIDE DEF lowered
<1>5. live.ok \/ live.pass \in Names
  BY <1>4 DEF DeadNodeEliminationPass, Then, Ok
<1> HIDE DEF live
<1>6. resolved.ok \/ resolved.pass \in Names
  BY <1>5 DEF ModelResolutionPass, Then, Ok
<1> HIDE DEF resolved
<1>7. priced.ok \/ priced.pass \in Names
  BY <1>6 DEF BudgetOptimisationPass, Then, Ok, Err
<1> HIDE DEF priced
<1>8. all.ok \/ all.pass \in Names
  BY <1>7 DEF PolicyCompilerPass, Then, Ok, Err
<1> QED BY <1>1, <1>8

LEMMA FailureTold ==
    ASSUME OutcomeInv, NEW e \in Execs, ReportFailure(e), PerExecution' /\ OthersKept(e)
    PROVE  OutcomeInv'
<1> DEFINE s == emitted[e]
           x == [kind |-> "WorkflowFailed", node |-> FirstFailed(e)]
           t == Append(s, x)
<1>1. pc[e] = "failing" /\ emitted'[e] = t /\ pc'[e] = "done" /\ response'[e] = "upstream"
  BY DEF ReportFailure, emit, Answer, Goto, OutcomeInv, PerExecution
<1>2. /\ Sequence(s) /\ Ends(s) = {} /\ Len(s) > 0
      /\ s[Len(s)].kind = "NodeFailed" /\ s[Len(s)].node = FirstFailed(e)
  BY <1>1 DEF OutcomeInv, Outcome
<1>3. x.kind = "WorkflowFailed" /\ x.kind \in Terminal /\ x.node = FirstFailed(e)
  BY DEF Terminal
<1> HIDE DEF s, x
<1>4. /\ Sequence(t) /\ Len(s) \in Nat /\ Len(t) = Len(s) + 1
      /\ \A i \in 1 .. Len(s) : t[i] = s[i]
      /\ t[Len(s) + 1] = x
  BY <1>2, AppendSequence
<1>5. Ends(t) = {Len(t)}
  BY <1>2, <1>3, <1>4, AppendEnds
<1> HIDE DEF t
<1>6. t[Len(t)] = x /\ t[Len(t) - 1] = s[Len(s)]
  BY <1>2, <1>4
<1>7. Told("upstream", t)
  BY <1>2, <1>3, <1>5, <1>6 DEF Told
<1>8. Outcome(e)'
  BY <1>1, <1>4, <1>7 DEF Outcome
<1>9. ASSUME NEW f \in Execs, f # e PROVE Outcome(f)'
  BY <1>9, OthersTold
<1> QED BY <1>8, <1>9 DEF OutcomeInv

LEMMA CompletionTold ==
    ASSUME OutcomeInv, NEW e \in Execs, Complete(e), PerExecution' /\ OthersKept(e)
    PROVE  OutcomeInv'
<1> DEFINE s == emitted[e]
           x == [kind |-> "WorkflowCompleted", node |-> NoNode]
           t == Append(s, x)
<1>1. pc[e] = "scheduled" /\ emitted'[e] = t /\ pc'[e] = "done" /\ response'[e] = "ok"
  BY DEF Complete, emit, Answer, Goto, OutcomeInv, PerExecution
<1>2. Sequence(s) /\ Ends(s) = {}
  BY <1>1 DEF OutcomeInv, Outcome
<1>3. x.kind = "WorkflowCompleted" /\ x.kind \in Terminal
  BY DEF Terminal
<1> HIDE DEF s, x
<1>4. /\ Sequence(t) /\ Len(s) \in Nat /\ Len(t) = Len(s) + 1
      /\ t[Len(s) + 1] = x
  BY <1>2, AppendSequence
<1>5. Ends(t) = {Len(t)}
  BY <1>2, <1>3, <1>4, AppendEnds
<1> HIDE DEF t
<1>6. Told("ok", t)
  BY <1>3, <1>4, <1>5 DEF Told
<1>7. Outcome(e)'
  BY <1>1, <1>4, <1>6 DEF Outcome
<1>8. ASSUME NEW f \in Execs, f # e PROVE Outcome(f)'
  BY <1>8, OthersTold
<1> QED BY <1>7, <1>8 DEF OutcomeInv

LEMMA NodeFailureTold ==
    ASSUME OutcomeInv, NEW e \in Execs, ReportNodeFailed(e), PerExecution' /\ OthersKept(e)
    PROVE  OutcomeInv'
<1> DEFINE s == emitted[e]
           x == [kind |-> "NodeFailed", node |-> FirstFailed(e)]
           t == Append(s, x)
<1>1. /\ pc[e] = "failed" /\ emitted'[e] = t /\ pc'[e] = "failing" /\ response'[e] = response[e]
      /\ UNCHANGED <<graph, states, order>>
  BY DEF ReportNodeFailed, emit, Goto, OutcomeInv, PerExecution
<1>2. Sequence(s) /\ Ends(s) = {} /\ response[e] = "none"
  BY <1>1 DEF OutcomeInv, Outcome
<1>3. x.kind = "NodeFailed" /\ x.kind \notin Terminal /\ x.node = FirstFailed(e)
  BY DEF Terminal
<1>4. FirstFailed(e)' = FirstFailed(e)
  BY <1>1 DEF FirstFailed
<1> HIDE DEF s, x
<1>5. /\ Sequence(t) /\ Len(s) \in Nat /\ Len(t) = Len(s) + 1
      /\ t[Len(s) + 1] = x
  BY <1>2, AppendSequence
<1>6. Ends(t) = {}
  BY <1>2, <1>3, AppendEnds
<1> HIDE DEF t
<1>7. Told("none", t)
  BY <1>6 DEF Told
<1>8. Len(t) > 0 /\ t[Len(t)] = x
  BY <1>5
<1>9. Outcome(e)'
  BY <1>1, <1>2, <1>3, <1>4, <1>5, <1>6, <1>7, <1>8 DEF Outcome
<1>10. ASSUME NEW f \in Execs, f # e PROVE Outcome(f)'
  BY <1>10, OthersTold
<1> QED BY <1>9, <1>10 DEF OutcomeInv

LEMMA CompileTold ==
    ASSUME OutcomeInv, PolicyInv, NEW e \in Execs, Compile(e), PerExecution' /\ OthersKept(e)
    PROVE  OutcomeInv'
<1>1. pc[e] = "compile" /\ IsWorkflow(workflow[e])
  BY PlaneAssumption DEF Compile, PolicyInv, Bound
<1>2. PICK b \in BOOLEAN :
        LET result == RunPasses(workflow[e], policy_ir[e], b)
        IN  \/ result.ok /\ emit(e, "WorkflowCompiled", NoNode) /\ Goto(e, "schedule") /\ UNCHANGED response
            \/ ~result.ok /\ Answer(e, result.pass) /\ UNCHANGED emitted
  BY DEF Compile
<1> DEFINE result == RunPasses(workflow[e], policy_ir[e], b)
<1>3. CASE emit(e, "WorkflowCompiled", NoNode) /\ Goto(e, "schedule") /\ UNCHANGED response
  BY <1>1, <1>3, EmitGoesOn DEF Terminal
<1>4. CASE ~result.ok /\ Answer(e, result.pass) /\ UNCHANGED emitted
  <2>1. result.pass \notin {"ok", "upstream"}
    BY <1>1, <1>4, RefusalsNamed
  <2> HIDE DEF result
  <2> QED BY <1>1, <1>4, <2>1, QuietAnswer
<1> QED BY <1>2, <1>3, <1>4

\* Each step of an execution is one of its own.
LEMMA OwnStep ==
    ASSUME PerExecution, NEW e \in Execs,
           \/ Submit(e) \/ SessionFails(e) \/ Works(e) \/ RunRefused(e) \/ ClientGone(e)
    PROVE  PerExecution' /\ OthersKept(e)
<1> USE DEF Goto, Answer, emit
<1>1. CASE Submit(e)
  BY <1>1, PerExecutionStep DEF Submit
<1>2. CASE SessionFails(e) \/ RunRefused(e) \/ ClientGone(e)
  BY <1>2, PerExecutionStep DEF SessionFails, RunRefused, ClientGone
<1>3. CASE ReadPolicy(e)
  <2>1. /\ \E x : pc' = [pc EXCEPT ![e] = x]
        /\ response' = response \/ \E x : response' = [response EXCEPT ![e] = x]
        /\ UNCHANGED <<emitted, order, states, graph>>
    BY <1>3 DEF ReadPolicy
  <2> QED BY <2>1, PerExecutionStep
<1>4. CASE Compile(e)
  <2>1. /\ \E x : pc' = [pc EXCEPT ![e] = x]
        /\ response' = response \/ \E x : response' = [response EXCEPT ![e] = x]
        /\ emitted' = emitted \/ \E x : emitted' = [emitted EXCEPT ![e] = x]
        /\ graph' = graph \/ \E x : graph' = [graph EXCEPT ![e] = x]
        /\ UNCHANGED <<order, states>>
    BY <1>4 DEF Compile
  <2> QED BY <2>1, PerExecutionStep
<1>5. CASE Run(e)
  <2>1. /\ \E x : pc' = [pc EXCEPT ![e] = x]
        /\ \E x : states' = [states EXCEPT ![e] = x]
        /\ \E x : order' = [order EXCEPT ![e] = x]
        /\ UNCHANGED <<emitted, response, graph>>
    BY <1>5 DEF Run
  <2> QED BY <2>1, PerExecutionStep
<1>6. CASE ReportNodeFailed(e) \/ ReportFailure(e)
  BY <1>6, PerExecutionStep DEF ReportNodeFailed, ReportFailure
<1>7. ASSUME NEW at, NEW kind, NEW next, ReplayNode(e, at, kind, next)
      PROVE  PerExecution' /\ OthersKept(e)
  <2>1. /\ \E x : pc' = [pc EXCEPT ![e] = x]
        /\ \E x : emitted' = [emitted EXCEPT ![e] = x]
        /\ \E x : order' = [order EXCEPT ![e] = x]
        /\ UNCHANGED <<states, response, graph>>
    BY <1>7 DEF ReplayNode
  <2> QED BY <2>1, PerExecutionStep
<1>8. CASE Replay(e)
  BY <1>7, <1>8 DEF Replay
<1>9. CASE Complete(e)
  BY <1>9, PerExecutionStep DEF Complete
<1> QED BY <1>1, <1>2, <1>3, <1>4, <1>5, <1>6, <1>8, <1>9 DEF Works

LEMMA OutcomeStart == Init => OutcomeInv
<1> SUFFICES ASSUME Init PROVE OutcomeInv
  OBVIOUS
<1>1. ASSUME NEW e \in Execs PROVE Outcome(e)
  <2>1. Ends(<<>>) = {}
    BY DEF Ends
  <2>2. emitted[e] = <<>> /\ pc[e] = "new" /\ response[e] = "none"
    BY DEF Init
  <2> QED BY <2>1, <2>2, EmptySequence DEF Outcome, Told
<1> QED BY <1>1 DEF Init, OutcomeInv, PerExecution

LEMMA OutcomeStep ==
    ASSUME OutcomeInv, PolicyInv, [Next]_vars
    PROVE  OutcomeInv'
<1>0. ASSUME NEW e \in Execs, Submit(e) \/ SessionFails(e) \/ Works(e) \/ RunRefused(e) \/ ClientGone(e)
      PROVE  PerExecution' /\ OthersKept(e)
  BY <1>0, OwnStep DEF OutcomeInv
<1>1. ASSUME NEW e \in Execs, Submit(e) PROVE OutcomeInv'
  <2>1. /\ emit(e, "WorkflowStarted", NoNode) /\ Goto(e, "policy") /\ UNCHANGED response
        /\ pc[e] # "done"
    BY <1>1 DEF Submit
  <2> QED BY <1>0, <1>1, <2>1, EmitGoesOn DEF Terminal
<1>2. ASSUME NEW e \in Execs, SessionFails(e) \/ RunRefused(e) \/ ClientGone(e) PROVE OutcomeInv'
  <2>1. /\ pc[e] # "done" /\ UNCHANGED emitted
        /\ \E what \in {"internal", "scheduling", "dropped"} : Answer(e, what)
    BY <1>2 DEF SessionFails, RunRefused, ClientGone
  <2> QED BY <1>0, <1>2, <2>1, QuietAnswer
<1>3. ASSUME NEW e \in Execs, Works(e) PROVE OutcomeInv'
  <2>0. PerExecution' /\ OthersKept(e)
    BY <1>0, <1>3
  <2>1. CASE ReadPolicy(e)
    <3>1. /\ pc[e] = "policy" /\ UNCHANGED emitted
          /\ Answer(e, "policy") \/ (Goto(e, "compile") /\ UNCHANGED response)
      BY <2>1 DEF ReadPolicy
    <3>2. CASE Answer(e, "policy")
      BY <2>0, <3>1, <3>2, QuietAnswer
    <3>3. CASE Goto(e, "compile") /\ UNCHANGED response
      BY <2>0, <3>1, <3>3, QuietMove
    <3> QED BY <3>1, <3>2, <3>3
  <2>2. CASE Compile(e)
    BY <2>0, <2>2, CompileTold
  <2>3. CASE Run(e)
    <3>1. /\ pc[e] = "schedule" /\ UNCHANGED <<emitted, response>>
          /\ \E place \in {"scheduled", "failed"} : Goto(e, place)
      BY <2>3 DEF Run
    <3> QED BY <2>0, <3>1, QuietMove
  <2>4. CASE ReportNodeFailed(e)
    BY <2>0, <2>4, NodeFailureTold
  <2>5. CASE ReportFailure(e)
    BY <2>0, <2>5, FailureTold
  <2>6. ASSUME NEW at \in {"scheduled", "starting", "started"}, NEW kind, kind \notin Terminal,
               NEW next \in {"scheduled", "starting", "started"}, ReplayNode(e, at, kind, next)
        PROVE  OutcomeInv'
    <3>1. /\ pc[e] # "done" /\ Goto(e, next) /\ UNCHANGED response
          /\ emit(e, kind, graph[e].nodes[Head(order[e])].id)
      BY <2>6 DEF ReplayNode
    <3> QED BY <2>0, <2>6, <3>1, EmitGoesOn
  <2>7. CASE Replay(e)
    BY <2>6, <2>7 DEF Replay, Terminal
  <2>8. CASE Complete(e)
    BY <2>0, <2>8, CompletionTold
  <2> QED BY <1>3, <2>1, <2>2, <2>3, <2>4, <2>5, <2>7, <2>8 DEF Works
<1>4. CASE UNCHANGED exec
  <2>1. UNCHANGED <<pc, response, emitted, order, states, graph>>
    BY <1>4 DEF exec
  <2>2. PerExecution'
    BY <2>1 DEF OutcomeInv, PerExecution
  <2>3. ASSUME NEW e \in Execs PROVE Outcome(e)'
    <3>1. FirstFailed(e)' = FirstFailed(e)
      BY <2>1 DEF FirstFailed
    <3> QED BY <2>1, <3>1 DEF OutcomeInv, Outcome
  <2> QED BY <2>2, <2>3 DEF OutcomeInv
<1>5. ASSUME NEW r \in Rules, apply_policy(r) \/ remove_policy(r) PROVE UNCHANGED exec
  BY <1>5 DEF apply_policy, remove_policy
<1>6. ASSUME Listens \/ UNCHANGED vars \/ \E ev \in writing : WriteLands(ev) \/ WriteIsLost(ev)
      PROVE  UNCHANGED exec
  BY <1>6 DEF Listens, Lagged, Dispatch, WriteLands, WriteIsLost, vars, exec
<1> QED BY <1>1, <1>2, <1>3, <1>4, <1>5, <1>6 DEF Next, Writes

\* Until it is answered no execution has a terminal event, and the answer is told by
\* its last one (execution.rs:314, execution.rs:324).
THEOREM OutcomeInvariant == Spec => []OutcomeInv
<1>1. OutcomeInv /\ PolicyInv /\ [Next]_vars => OutcomeInv'
  BY OutcomeStep
<1> QED BY OutcomeStart, PolicyInvariant, <1>1, PTL DEF Spec

LEMMA OutcomeInvSuffices == OutcomeInv => OutcomeTold
<1> SUFFICES ASSUME OutcomeInv PROVE OutcomeTold
  OBVIOUS
<1>1. \A e \in Execs : Told(response[e], emitted[e])
  BY DEF OutcomeInv, Outcome
<1> QED BY <1>1 DEF OutcomeTold, Told, Ends, Kind

\* However an execution ends, refused by any pass, dropped, failed or completed, and
\* whatever the others do: it has a terminal event exactly when its outcome was
\* answered, the last one it sends and of that outcome (execution.rs:314).
THEOREM OutcomeIsTold == Spec => []OutcomeTold
BY OutcomeInvariant, OutcomeInvSuffices, PTL

-----------------------------------------------------------------------------
(* Iterations: a recursive function over 0 .. N exists, and what holds at  *)
(* its start and is kept by each step holds along it.                      *)

LEMMA Induction ==
    ASSUME NEW N \in Nat, NEW T, 0 \in T, \A n \in 1 .. N : n - 1 \in T => n \in T
    PROVE  \A n \in 0 .. N : n \in T
<1> SUFFICES ASSUME NEW n \in 0 .. N, n \notin T PROVE FALSE
  OBVIOUS
<1> DEFINE S == {k \in 0 .. N : k \notin T}
<1>1. S \in SUBSET Nat /\ n \in S
  OBVIOUS
<1>2. PICK i \in S : \A j \in S : i <= j
  <2> HIDE DEF S
  <2> QED BY <1>1, LeastExists
<1>3. i \in 1 .. N /\ i - 1 \in 0 .. N /\ ~(i <= i - 1)
  BY <1>2
<1>4. i - 1 \in T
  BY <1>2, <1>3
<1> QED BY <1>2, <1>3, <1>4

Iterates(f, N, S, start, step) ==
    f \in [0 .. N -> S] /\ f[0] = start /\ \A n \in 1 .. N : f[n] = step[f[n - 1]]

LEMMA IterationExists ==
    ASSUME NEW S, NEW start \in S, NEW step \in [S -> S], NEW N \in Nat
    PROVE  \E f : Iterates(f, N, S, start, step)
<1> DEFINE Good(k, f) == f \in [0 .. k -> S] /\ f[0] = start /\ \A n \in 1 .. k : f[n] = step[f[n - 1]]
           T == {k \in 0 .. N : \E f : Good(k, f)}
<1>1. 0 \in T
  <2> DEFINE f == [n \in 0 .. 0 |-> start]
  <2>1. Good(0, f)
    OBVIOUS
  <2>2. \E h : Good(0, h)
    <3> HIDE DEF f, Good
    <3> QED BY <2>1
  <2> QED BY <2>2
<1>2. ASSUME NEW n \in 1 .. N, n - 1 \in T PROVE n \in T
  <2>1. PICK f : Good(n - 1, f)
    BY <1>2
  <2> DEFINE g == [k \in 0 .. n |-> IF k = n THEN step[f[n - 1]] ELSE f[k]]
  <2>2. \A k \in 0 .. n : k # n => k \in 0 .. n - 1
    OBVIOUS
  <2>3. n - 1 \in 0 .. n - 1 /\ f[n - 1] \in S
    BY <2>1
  <2>4. g \in [0 .. n -> S]
    BY <2>1, <2>2, <2>3
  <2>5. g[0] = start
    BY <2>1
  <2>6. \A k \in 1 .. n : g[k] = step[g[k - 1]]
    <3> SUFFICES ASSUME NEW k \in 1 .. n PROVE g[k] = step[g[k - 1]]
      OBVIOUS
    <3>1. k \in 0 .. n /\ k - 1 \in 0 .. n /\ k - 1 # n
      OBVIOUS
    <3>2. g[k - 1] = f[k - 1]
      BY <3>1
    <3>3. CASE k = n
      BY <3>1, <3>2, <3>3
    <3>4. CASE k # n
      <4>1. k \in 1 .. n - 1 /\ g[k] = f[k]
        BY <3>1, <3>4
      <4> QED BY <2>1, <3>2, <4>1
    <3> QED BY <3>3, <3>4
  <2>7. Good(n, g)
    BY <2>4, <2>5, <2>6
  <2>8. \E h : Good(n, h)
    <3> HIDE DEF g, Good
    <3> QED BY <2>7
  <2> QED BY <2>8
<1>3. N \in T
  <2> HIDE DEF T
  <2> QED BY <1>1, <1>2, Induction
<1>4. PICK f : Good(N, f)
  BY <1>3
<1>5. Iterates(f, N, S, start, step)
  BY <1>4 DEF Iterates
<1> QED BY <1>5

-----------------------------------------------------------------------------
(* Cycles. *)

\* In a finite set in which every node has a predecessor, some nodes have successors
\* among themselves: those of a smallest such set.
Fed(ir, U) == \A n \in U : \E x \in Forward(ir) : ir.edges[x].to = n /\ ir.edges[x].from \in U

LEMMA FedMakesCycle ==
    ASSUME NEW ir, NEW V \in SUBSET Ids(ir), V # {}, IsFiniteSet(V), Fed(ir, V)
    PROVE  Cyclic(ir)
<1> DEFINE Ok0(U) == U \in SUBSET Ids(ir) /\ U # {} /\ IsFiniteSet(U) /\ Fed(ir, U)
           Sizes == {n \in Nat : \E U : Ok0(U) /\ Cardinality(U) = n}
<1>1. Cardinality(V) \in Sizes
  BY FS_CardinalityType
<1>2. PICK n \in Sizes : \A k \in Sizes : n <= k
  <2>1. Sizes \in SUBSET Nat /\ Sizes # {}
    BY <1>1
  <2> HIDE DEF Sizes
  <2> QED BY <2>1, LeastExists
<1>3. PICK U : Ok0(U) /\ Cardinality(U) = n
  BY <1>2
<1>4. ASSUME NEW u \in U, \A x \in Forward(ir) : ir.edges[x].from = u => ir.edges[x].to \notin U
      PROVE  FALSE
  <2> DEFINE W == U \ {u}
  <2>1. IsFiniteSet(W) /\ Cardinality(W) = n - 1 /\ n \in Nat /\ Cardinality(W) \in Nat
    BY <1>3, FS_RemoveElement, FS_CardinalityType
  <2>2. Fed(ir, W)
    <3> SUFFICES ASSUME NEW w \in W
                 PROVE  \E x \in Forward(ir) : ir.edges[x].to = w /\ ir.edges[x].from \in W
      BY DEF Fed
    <3>1. PICK x \in Forward(ir) : ir.edges[x].to = w /\ ir.edges[x].from \in U
      BY <1>3 DEF Fed
    <3>2. ir.edges[x].from # u
      BY <1>4, <3>1
    <3> QED BY <3>1, <3>2
  <2>3. W # {}
    <3>1. PICK x \in Forward(ir) : ir.edges[x].to = u /\ ir.edges[x].from \in U
      BY <1>3 DEF Fed
    <3>2. ir.edges[x].from # u
      BY <1>4, <3>1
    <3> QED BY <3>1, <3>2
  <2>4. Ok0(W)
    BY <1>3, <2>1, <2>2, <2>3
  <2>5. Cardinality(W) \in Sizes
    BY <2>1, <2>4
  <2> QED BY <1>2, <2>1, <2>5
<1>5. \A u \in U : \E x \in Forward(ir) : ir.edges[x].from = u /\ ir.edges[x].to \in U
  BY <1>4
<1> QED BY <1>3, <1>5 DEF Cyclic

-----------------------------------------------------------------------------
(* The depth-first search.  The grey nodes are those on the stack, each    *)
(* led to by the one below it; an edge that was walked leads to a black    *)
(* node or to the next one on the stack; and the black nodes are closed    *)
(* under the edges and hold no cycle.                                      *)

Colours == {"white", "grey", "black"}
Frames(ir) == [node : Ids(ir), left : SUBSET Forward(ir)]

Stacked(ir, c, s) ==
    /\ c \in [Ids(ir) -> Colours] /\ s \in Seq(Frames(ir))
    /\ \A n \in Ids(ir) : c[n] = "grey" => \E k \in 1 .. Len(s) : s[k].node = n
    /\ \A j, k \in 1 .. Len(s) : s[j].node = s[k].node => j = k
    /\ \A k \in 1 .. Len(s) : c[s[k].node] = "grey" /\ s[k].left \subseteq Outgoing(ir, s[k].node)
    /\ \A k \in 1 .. Len(s) - 1 :
          \E x \in Forward(ir) : ir.edges[x].from = s[k].node /\ ir.edges[x].to = s[k + 1].node

Walked(ir, c, s) ==
    \A k \in 1 .. Len(s) : \A x \in Forward(ir) :
        ir.edges[x].from = s[k].node /\ x \notin s[k].left =>
            \/ c[ir.edges[x].to] = "black"
            \/ k < Len(s) /\ ir.edges[x].to = s[k + 1].node

CycleIn(ir, C) ==
    /\ C \in (SUBSET Ids(ir)) \ {{}}
    /\ \A n \in C : \E x \in Forward(ir) : ir.edges[x].from = n /\ ir.edges[x].to \in C

BlackDone(ir, c) ==
    /\ \A x \in Forward(ir) : c[ir.edges[x].from] = "black" => c[ir.edges[x].to] = "black"
    /\ \A C : CycleIn(ir, C) => \E n \in C : c[n] # "black"

Searching(ir, c, s) == Stacked(ir, c, s) /\ Walked(ir, c, s) /\ BlackDone(ir, c)

LEMMA ForwardKnown ==
    ASSUME NEW ir, EdgesKnown(ir)
    PROVE  \A x \in Forward(ir) : ir.edges[x].from \in Ids(ir) /\ ir.edges[x].to \in Ids(ir)
BY DEF EdgesKnown, Forward

LEMMA TopAndRest ==
    ASSUME NEW S, NEW s \in Seq(S), s # <<>>
    PROVE  /\ Len(s) \in Nat \ {0} /\ Last(s) = s[Len(s)] /\ Last(s) \in S
           /\ Front(s) \in Seq(S) /\ Len(Front(s)) = Len(s) - 1
           /\ \A k \in 1 .. Len(s) - 1 : Front(s)[k] = s[k]
<1>1. Len(s) \in Nat \ {0} /\ \A k \in 1 .. Len(s) : s[k] \in S
  OBVIOUS
<1>2. Front(s) = SubSeq(s, 1, Len(s) - 1) /\ Last(s) = s[Len(s)]
  BY DEF Front, Last
<1>3. SubSeq(s, 1, Len(s) - 1) = [k \in 1 .. Len(s) - 1 |-> s[k]]
  BY <1>1
<1>4. \A k \in 1 .. Len(s) - 1 : s[k] \in S
  BY <1>1
<1>5. [k \in 1 .. Len(s) - 1 |-> s[k]] \in Seq(S) /\ Len([k \in 1 .. Len(s) - 1 |-> s[k]]) = Len(s) - 1
  BY <1>1, <1>4
<1>6. \A k \in 1 .. Len(s) - 1 : Front(s)[k] = s[k]
  BY <1>2, <1>3
<1>7. Front(s) \in Seq(S) /\ Len(Front(s)) = Len(s) - 1
  BY <1>2, <1>3, <1>5, Zenon
<1>8. Len(s) \in 1 .. Len(s)
  BY <1>1
<1>9. Last(s) \in S
  BY <1>1, <1>2, <1>8, Zenon
<1> QED BY <1>1, <1>2, <1>6, <1>7, <1>9, Zenon

\* A node without edges left is black, and so are its successors.
LEMMA NodeBlackened ==
    ASSUME NEW ir, EdgesKnown(ir), NEW c, NEW s, Searching(ir, c, s), s # <<>>,
           Last(s).left = {}
    PROVE  Searching(ir, [c EXCEPT ![Last(s).node] = "black"], Front(s))
<1> DEFINE n == Len(s)
           top == s[n].node
           t == Front(s)
           b == [c EXCEPT ![top] = "black"]
<1>1. s \in Seq(Frames(ir)) /\ c \in [Ids(ir) -> Colours]
  BY DEF Searching, Stacked
<1>2. /\ n \in Nat \ {0} /\ Last(s) = s[n] /\ s[n] \in Frames(ir)
      /\ t \in Seq(Frames(ir)) /\ Len(t) = n - 1 /\ \A k \in 1 .. n - 1 : t[k] = s[k]
  <2>1. Len(s) \in Nat \ {0} /\ Last(s) = s[Len(s)] /\ Last(s) \in Frames(ir)
    BY <1>1, TopAndRest
  <2>2. Front(s) \in Seq(Frames(ir)) /\ Len(Front(s)) = Len(s) - 1
    BY <1>1, TopAndRest
  <2>3. \A k \in 1 .. Len(s) - 1 : Front(s)[k] = s[k]
    BY <1>1, TopAndRest, Zenon
  <2> QED BY <2>1, <2>2, <2>3, Zenon
<1>3. top \in Ids(ir) /\ c[top] = "grey" /\ n \in 1 .. n
  BY <1>2 DEF Searching, Stacked, Frames
<1>4. /\ b \in [Ids(ir) -> Colours] /\ b[top] = "black"
      /\ \A m \in Ids(ir) : m # top => b[m] = c[m]
  BY <1>1, <1>3 DEF Colours
<1> HIDE DEF t, b
<1>5. \A k \in 1 .. n - 1 : t[k].node # top /\ k \in 1 .. n /\ t[k].node \in Ids(ir)
  <2> SUFFICES ASSUME NEW k \in 1 .. n - 1 PROVE t[k].node # top /\ k \in 1 .. n /\ t[k].node \in Ids(ir)
    OBVIOUS
  <2>1. k \in 1 .. n /\ k # n /\ t[k] = s[k] /\ s[k] \in Frames(ir)
    BY <1>1, <1>2
  <2> QED BY <1>3, <2>1 DEF Searching, Stacked, Frames
<1>6. Stacked(ir, b, t)
  <2>1. \A m \in Ids(ir) : b[m] = "grey" => \E k \in 1 .. Len(t) : t[k].node = m
    <3> SUFFICES ASSUME NEW m \in Ids(ir), b[m] = "grey" PROVE \E k \in 1 .. Len(t) : t[k].node = m
      OBVIOUS
    <3>1. m # top /\ c[m] = "grey"
      BY <1>4
    <3>2. PICK k \in 1 .. n : s[k].node = m
      BY <3>1 DEF Searching, Stacked
    <3>3. k \in 1 .. n - 1
      BY <1>2, <3>1, <3>2
    <3> QED BY <1>2, <3>2, <3>3
  <2>2. \A j, k \in 1 .. Len(t) : t[j].node = t[k].node => j = k
    BY <1>2, <1>5 DEF Searching, Stacked
  <2>3. \A k \in 1 .. Len(t) : b[t[k].node] = "grey" /\ t[k].left \subseteq Outgoing(ir, t[k].node)
    BY <1>2, <1>4, <1>5 DEF Searching, Stacked
  <2>4. \A k \in 1 .. Len(t) - 1 :
          \E x \in Forward(ir) : ir.edges[x].from = t[k].node /\ ir.edges[x].to = t[k + 1].node
    <3> SUFFICES ASSUME NEW k \in 1 .. Len(t) - 1
                 PROVE  \E x \in Forward(ir) : ir.edges[x].from = t[k].node /\ ir.edges[x].to = t[k + 1].node
      OBVIOUS
    <3>1. k \in 1 .. Len(s) - 1 /\ t[k] = s[k] /\ t[k + 1] = s[k + 1]
      BY <1>2
    <3> QED BY <3>1 DEF Searching, Stacked
  <2> QED BY <1>2, <1>4, <2>1, <2>2, <2>3, <2>4 DEF Stacked
<1>7. Walked(ir, b, t)
  <2> SUFFICES ASSUME NEW k \in 1 .. Len(t), NEW x \in Forward(ir),
                      ir.edges[x].from = t[k].node, x \notin t[k].left
               PROVE  \/ b[ir.edges[x].to] = "black"
                      \/ k < Len(t) /\ ir.edges[x].to = t[k + 1].node
    BY DEF Walked
  <2>1. k \in 1 .. n - 1 /\ k \in 1 .. n /\ t[k] = s[k] /\ ir.edges[x].to \in Ids(ir)
    BY <1>2, <1>5, ForwardKnown
  <2>2. CASE c[ir.edges[x].to] = "black"
    BY <1>4, <2>1, <2>2
  <2>3. CASE ir.edges[x].to = s[k + 1].node
    <3>1. CASE k + 1 = n
      BY <1>4, <2>3, <3>1
    <3>2. CASE k + 1 # n
      <4>1. k + 1 \in 1 .. n - 1 /\ k < Len(t)
        BY <1>2, <2>1, <3>2
      <4> QED BY <1>2, <2>3, <4>1
    <3> QED BY <3>1, <3>2
  <2> QED BY <2>1, <2>2, <2>3 DEF Searching, Walked
<1>8. \A x \in Forward(ir) : ir.edges[x].from = top => c[ir.edges[x].to] = "black"
  BY <1>2, <1>3 DEF Searching, Walked
<1>9. BlackDone(ir, b)
  <2>1. \A x \in Forward(ir) : b[ir.edges[x].from] = "black" => b[ir.edges[x].to] = "black"
    BY <1>4, <1>8, ForwardKnown DEF Searching, BlackDone
  <2>2. ASSUME NEW C, CycleIn(ir, C), \A m \in C : b[m] = "black" PROVE FALSE
    <3> DEFINE E == C \ {top}
    <3>1. C \subseteq Ids(ir)
      BY <2>2 DEF CycleIn
    <3>2. \A m \in E : m \in Ids(ir) /\ c[m] = "black"
      BY <1>4, <2>2, <3>1
    <3>3. ASSUME NEW m \in C
          PROVE  \E x \in Forward(ir) : ir.edges[x].from = m /\ ir.edges[x].to \in E
      <4>1. PICK x \in Forward(ir) : ir.edges[x].from = m /\ ir.edges[x].to \in C
        BY <2>2 DEF CycleIn
      <4>2. c[ir.edges[x].to] = "black"
        BY <1>8, <3>2, <4>1 DEF Searching, BlackDone
      <4> QED BY <1>3, <4>1, <4>2
    <3>4. E # {} /\ E \subseteq Ids(ir)
      BY <2>2, <3>1, <3>3 DEF CycleIn
    <3>5. CycleIn(ir, E)
      BY <3>3, <3>4 DEF CycleIn
    <3> HIDE DEF E
    <3> QED BY <3>2, <3>5 DEF Searching, BlackDone
  <2> QED BY <2>1, <2>2 DEF BlackDone
<1> QED BY <1>2, <1>6, <1>7, <1>9 DEF Searching, t, b

\* The stack with its top frame past the edge x.
Resumed(s, x) == Append(Front(s), [node |-> Last(s).node, left |-> Last(s).left \ {x}])

Past(ir, c, s, x, t) ==
    /\ Len(s) \in Nat \ {0} /\ Last(s) = s[Len(s)]
    /\ Len(t) = Len(s) /\ \A k \in 1 .. Len(s) - 1 : t[k] = s[k]
    /\ t[Len(s)].node = s[Len(s)].node /\ t[Len(s)].left = s[Len(s)].left \ {x}
    /\ x \in Forward(ir) /\ ir.edges[x].from = s[Len(s)].node
    /\ ir.edges[x].from \in Ids(ir) /\ ir.edges[x].to \in Ids(ir)
    /\ Stacked(ir, c, t)

LEMMA EdgeWalked ==
    ASSUME NEW ir, EdgesKnown(ir), NEW c, NEW s, Searching(ir, c, s), s # <<>>,
           NEW x \in Last(s).left
    PROVE  Past(ir, c, s, x, Resumed(s, x))
<1> DEFINE n == Len(s)
           top == [node |-> s[n].node, left |-> s[n].left \ {x}]
           t == Resumed(s, x)
<1>1. s \in Seq(Frames(ir)) /\ c \in [Ids(ir) -> Colours]
  BY DEF Searching, Stacked
<1>2. /\ n \in Nat \ {0} /\ Last(s) = s[n] /\ s[n] \in Frames(ir)
      /\ Front(s) \in Seq(Frames(ir)) /\ Len(Front(s)) = n - 1 /\ \A k \in 1 .. n - 1 : Front(s)[k] = s[k]
  <2>1. Len(s) \in Nat \ {0} /\ Last(s) = s[Len(s)] /\ Last(s) \in Frames(ir)
    BY <1>1, TopAndRest
  <2>2. Front(s) \in Seq(Frames(ir)) /\ Len(Front(s)) = Len(s) - 1
    BY <1>1, TopAndRest
  <2>3. \A k \in 1 .. Len(s) - 1 : Front(s)[k] = s[k]
    BY <1>1, TopAndRest, Zenon
  <2> QED BY <2>1, <2>2, <2>3, Zenon
<1>3. top \in Frames(ir) /\ top.node = s[n].node /\ top.left = s[n].left \ {x} /\ n \in 1 .. n
  BY <1>2 DEF Frames
<1>4. t = Append(Front(s), top)
  BY <1>2 DEF Resumed
<1> HIDE DEF top, t
<1>5. t \in Seq(Frames(ir)) /\ Len(t) = n /\ t[n] = top /\ \A k \in 1 .. n - 1 : t[k] = s[k]
  BY <1>2, <1>3, <1>4
<1>6. x \in Forward(ir) /\ ir.edges[x].from = s[n].node
  <2>1. x \in s[n].left /\ s[n].left \subseteq Forward(ir)
    BY <1>2 DEF Frames
  <2>2. s[n].left \subseteq Outgoing(ir, s[n].node)
    BY <1>3 DEF Searching, Stacked
  <2> QED BY <2>1, <2>2 DEF Outgoing
<1>7. \A k \in 1 .. n : t[k].node = s[k].node /\ t[k].left \subseteq s[k].left
  BY <1>2, <1>3, <1>5
<1>8. Stacked(ir, c, t)
  <2>1. \A m \in Ids(ir) : c[m] = "grey" => \E k \in 1 .. n : t[k].node = m
    <3> SUFFICES ASSUME NEW m \in Ids(ir), c[m] = "grey" PROVE \E k \in 1 .. n : t[k].node = m
      OBVIOUS
    <3>1. PICK k \in 1 .. n : s[k].node = m
      BY DEF Searching, Stacked
    <3> QED BY <1>7, <3>1
  <2>2. \A j, k \in 1 .. n : t[j].node = t[k].node => j = k
    BY <1>7 DEF Searching, Stacked
  <2>3. \A k \in 1 .. n : c[t[k].node] = "grey" /\ t[k].left \subseteq Outgoing(ir, t[k].node)
    BY <1>7 DEF Searching, Stacked
  <2>4. \A k \in 1 .. n - 1 :
          \E y \in Forward(ir) : ir.edges[y].from = t[k].node /\ ir.edges[y].to = t[k + 1].node
    <3> SUFFICES ASSUME NEW k \in 1 .. n - 1
                 PROVE  \E y \in Forward(ir) : ir.edges[y].from = t[k].node /\ ir.edges[y].to = t[k + 1].node
      OBVIOUS
    <3>1. k \in 1 .. Len(s) - 1 /\ t[k].node = s[k].node /\ t[k + 1].node = s[k + 1].node
      BY <1>2, <1>7
    <3>2. PICK y \in Forward(ir) : ir.edges[y].from = s[k].node /\ ir.edges[y].to = s[k + 1].node
      BY <3>1 DEF Searching, Stacked
    <3> QED BY <3>1, <3>2
  <2> QED BY <1>1, <1>5, <2>1, <2>2, <2>3, <2>4 DEF Stacked
<1>9. Past(ir, c, s, x, t)
  BY <1>2, <1>3, <1>5, <1>6, <1>8, ForwardKnown DEF Past
<1> QED BY <1>9 DEF t

LEMMA WalksToGrey ==
    ASSUME NEW ir, EdgesKnown(ir), NEW c, NEW s, Searching(ir, c, s), s # <<>>,
           NEW x \in Last(s).left, c[ir.edges[x].to] = "grey"
    PROVE  Cyclic(ir)
<1> DEFINE n == Len(s)
           next == ir.edges[x].to
<1>1. n \in Nat \ {0} /\ x \in Forward(ir) /\ ir.edges[x].from = s[n].node /\ next \in Ids(ir)
  BY EdgeWalked DEF Past
<1>2. PICK first \in 1 .. n : s[first].node = next
  BY <1>1 DEF Searching, Stacked
<1> DEFINE C == {s[k].node : k \in first .. n}
<1>3. \A k \in 1 .. n : s[k].node \in Ids(ir)
  <2>1. s \in Seq(Frames(ir))
    BY DEF Searching, Stacked
  <2>2. \A k \in 1 .. n : s[k] \in Frames(ir)
    BY <2>1
  <2> QED BY <2>2 DEF Frames
<1>4. C \in (SUBSET Ids(ir)) \ {{}}
  <2>1. \A k \in first .. n : k \in 1 .. n
    BY <1>1, <1>2
  <2>2. s[first].node \in C
    BY <1>1, <1>2
  <2> QED BY <1>3, <2>1, <2>2
<1>5. ASSUME NEW k \in first .. n
      PROVE  \E y \in Forward(ir) : ir.edges[y].from = s[k].node /\ ir.edges[y].to \in C
  <2>1. CASE k = n
    <3>1. next \in C
      BY <1>1, <1>2
    <3> QED BY <1>1, <2>1, <3>1
  <2>2. CASE k # n
    <3>1. k \in 1 .. Len(s) - 1 /\ k + 1 \in first .. n
      BY <1>1, <1>2, <2>2
    <3>2. PICK y \in Forward(ir) : ir.edges[y].from = s[k].node /\ ir.edges[y].to = s[k + 1].node
      BY <3>1 DEF Searching, Stacked
    <3> QED BY <3>1, <3>2
  <2> QED BY <2>1, <2>2
<1>6. \A m \in C : \E y \in Forward(ir) : ir.edges[y].from = m /\ ir.edges[y].to \in C
  BY <1>5
<1> HIDE DEF C
<1> QED BY <1>4, <1>6 DEF Cyclic

\* An edge to a black node leaves the colours and the stack as they are.
LEMMA WalksToBlack ==
    ASSUME NEW ir, EdgesKnown(ir), NEW c, NEW s, Searching(ir, c, s), s # <<>>,
           NEW x \in Last(s).left, c[ir.edges[x].to] = "black", NEW t,
           t = Resumed(s, x)
    PROVE  Searching(ir, c, t)
<1> DEFINE n == Len(s)
<1>1. /\ n \in Nat \ {0} /\ Len(t) = n /\ \A k \in 1 .. n - 1 : t[k] = s[k]
      /\ t[n].node = s[n].node /\ t[n].left = s[n].left \ {x} /\ Stacked(ir, c, t)
  BY EdgeWalked DEF Past
<1>2. Walked(ir, c, t)
  <2> SUFFICES ASSUME NEW k \in 1 .. n, NEW y \in Forward(ir),
                      ir.edges[y].from = t[k].node, y \notin t[k].left
               PROVE  c[ir.edges[y].to] = "black" \/ (k < n /\ ir.edges[y].to = t[k + 1].node)
    BY <1>1 DEF Walked
  <2>1. CASE k = n
    <3>1. CASE y = x
      BY <3>1
    <3>2. CASE y # x
      <4>1. ir.edges[y].from = s[n].node /\ y \notin s[n].left /\ n \in 1 .. n
        BY <1>1, <2>1, <3>2
      <4> QED BY <1>1, <4>1 DEF Searching, Walked
    <3> QED BY <3>1, <3>2
  <2>2. CASE k # n
    <3>1. k \in 1 .. n - 1 /\ t[k] = s[k] /\ k + 1 \in 1 .. n /\ t[k + 1].node = s[k + 1].node
      <4>1. k \in 1 .. n - 1 /\ k + 1 \in 1 .. n /\ (k + 1 = n \/ k + 1 \in 1 .. n - 1)
        BY <1>1, <2>2
      <4> QED BY <1>1, <4>1
    <3> QED BY <3>1 DEF Searching, Walked
  <2> QED BY <2>1, <2>2
<1> QED BY <1>1, <1>2 DEF Searching

\* An edge to a white node puts it on the stack.
LEMMA WalksToWhite ==
    ASSUME NEW ir, EdgesKnown(ir), NEW c, NEW s, Searching(ir, c, s), s # <<>>,
           NEW x \in Last(s).left, c[ir.edges[x].to] = "white", NEW t,
           t = Resumed(s, x)
    PROVE  Searching(ir, [c EXCEPT ![ir.edges[x].to] = "grey"], Append(t, Frame(ir, ir.edges[x].to)))
<1> DEFINE n == Len(s)
           next == ir.edges[x].to
           b == [c EXCEPT ![next] = "grey"]
           u == Append(t, Frame(ir, next))
<1>1. /\ n \in Nat \ {0} /\ Len(t) = n /\ \A k \in 1 .. n - 1 : t[k] = s[k]
      /\ t[n].node = s[n].node /\ t[n].left = s[n].left \ {x} /\ Stacked(ir, c, t)
      /\ x \in Forward(ir) /\ ir.edges[x].from = s[n].node /\ next \in Ids(ir)
  BY EdgeWalked DEF Past
<1>2. Frame(ir, next) \in Frames(ir) /\ Frame(ir, next).node = next
      /\ Frame(ir, next).left = Outgoing(ir, next) \intersect Forward(ir)
  BY <1>1 DEF Frame, Frames
<1>3. t \in Seq(Frames(ir)) /\ c \in [Ids(ir) -> Colours]
  BY <1>1 DEF Stacked
<1>4. u \in Seq(Frames(ir)) /\ Len(u) = n + 1 /\ u[n + 1] = Frame(ir, next)
      /\ \A k \in 1 .. n : u[k] = t[k]
  BY <1>1, <1>2, <1>3
<1>5. /\ b \in [Ids(ir) -> Colours] /\ b[next] = "grey"
      /\ \A m \in Ids(ir) : m # next => b[m] = c[m]
  BY <1>1, <1>3 DEF Colours
<1> HIDE DEF u, b
<1>6. \A k \in 1 .. n : t[k].node \in Ids(ir) /\ t[k].node # next /\ c[t[k].node] = "grey"
                        /\ t[k].left \subseteq Outgoing(ir, t[k].node)
  <2> SUFFICES ASSUME NEW k \in 1 .. n
               PROVE  t[k].node \in Ids(ir) /\ t[k].node # next /\ c[t[k].node] = "grey"
                      /\ t[k].left \subseteq Outgoing(ir, t[k].node)
    OBVIOUS
  <2>1. c[t[k].node] = "grey" /\ t[k].left \subseteq Outgoing(ir, t[k].node)
    BY <1>1 DEF Stacked
  <2>2. t[k] \in Frames(ir)
    BY <1>1, <1>3
  <2> QED BY <2>1, <2>2 DEF Frames
<1>7. Stacked(ir, b, u)
  <2>1. ASSUME NEW m \in Ids(ir), b[m] = "grey" PROVE \E k \in 1 .. n + 1 : u[k].node = m
    <3>1. CASE m = next
      BY <1>1, <1>2, <1>4, <3>1
    <3>2. CASE m # next
      <4>1. c[m] = "grey"
        BY <1>5, <2>1, <3>2
      <4>2. PICK k \in 1 .. n : t[k].node = m
        BY <1>1, <4>1 DEF Stacked
      <4>3. k \in 1 .. n + 1 /\ u[k].node = m
        BY <1>1, <1>4, <4>2
      <4> QED BY <4>3
    <3> QED BY <3>1, <3>2
  <2>2. ASSUME NEW j \in 1 .. n + 1, NEW k \in 1 .. n + 1, u[j].node = u[k].node PROVE j = k
    <3>1. /\ j \in 1 .. n => u[j].node = t[j].node /\ t[j].node # next
          /\ k \in 1 .. n => u[k].node = t[k].node /\ t[k].node # next
          /\ u[n + 1].node = next
      BY <1>2, <1>4, <1>6
    <3>2. (j \in 1 .. n \/ j = n + 1) /\ (k \in 1 .. n \/ k = n + 1)
      BY <1>1
    <3>3. CASE j \in 1 .. n /\ k \in 1 .. n
      <4>1. t[j].node = t[k].node /\ j \in 1 .. Len(t) /\ k \in 1 .. Len(t)
        BY <1>1, <2>2, <3>1, <3>3
      <4>2. \A p, q \in 1 .. Len(t) : t[p].node = t[q].node => p = q
        BY <1>1 DEF Stacked
      <4> QED BY <4>1, <4>2
    <3> QED BY <2>2, <3>1, <3>2, <3>3
  <2>3. ASSUME NEW k \in 1 .. n + 1
        PROVE  b[u[k].node] = "grey" /\ u[k].left \subseteq Outgoing(ir, u[k].node)
    <3>1. CASE k = n + 1
      BY <1>2, <1>4, <1>5, <3>1
    <3>2. CASE k \in 1 .. n
      BY <1>4, <1>5, <1>6, <3>2
    <3> QED BY <1>1, <3>1, <3>2
  <2>4. ASSUME NEW k \in 1 .. n
        PROVE  \E y \in Forward(ir) : ir.edges[y].from = u[k].node /\ ir.edges[y].to = u[k + 1].node
    <3>1. CASE k = n
      <4>1. u[k] = t[k] /\ t[k].node = s[n].node /\ u[k + 1].node = next
        BY <1>1, <1>2, <1>4, <3>1
      <4> QED BY <1>1, <4>1
    <3>2. CASE k # n
      <4>1. k \in 1 .. Len(t) - 1 /\ u[k] = t[k] /\ u[k + 1] = t[k + 1]
        BY <1>1, <1>4, <3>2
      <4>2. PICK y \in Forward(ir) : ir.edges[y].from = t[k].node /\ ir.edges[y].to = t[k + 1].node
        BY <1>1, <4>1 DEF Stacked
      <4> QED BY <4>1, <4>2
    <3> QED BY <3>1, <3>2
  <2>5. Len(u) - 1 = n
    BY <1>1, <1>4
  <2> QED BY <1>4, <1>5, <2>1, <2>2, <2>3, <2>4, <2>5 DEF Stacked
<1>8. Walked(ir, b, u)
  <2> SUFFICES ASSUME NEW k \in 1 .. n + 1, NEW y \in Forward(ir),
                      ir.edges[y].from = u[k].node, y \notin u[k].left
               PROVE  b[ir.edges[y].to] = "black" \/ (k < n + 1 /\ ir.edges[y].to = u[k + 1].node)
    BY <1>4 DEF Walked
  <2>0. ir.edges[y].to \in Ids(ir) /\ (c[ir.edges[y].to] = "black" => b[ir.edges[y].to] = "black")
    BY <1>5, ForwardKnown
  <2>1. CASE k = n + 1
    <3>1. ir.edges[y].from = next /\ y \notin Outgoing(ir, next)
      BY <1>2, <1>4, <2>1
    <3> QED BY <3>1 DEF Outgoing, Forward
  <2>2. CASE k = n
    <3>1. CASE y = x
      BY <1>1, <1>2, <1>4, <2>2, <3>1
    <3>2. CASE y # x
      <4>1. ir.edges[y].from = s[n].node /\ y \notin s[n].left /\ n \in 1 .. n
        BY <1>1, <1>4, <2>2, <3>2
      <4> QED BY <1>1, <2>0, <4>1 DEF Searching, Walked
    <3> QED BY <3>1, <3>2
  <2>3. CASE k # n /\ k # n + 1
    <3>1. k \in 1 .. n - 1 /\ u[k] = s[k] /\ k + 1 \in 1 .. n /\ u[k + 1].node = s[k + 1].node
      <4>1. k \in 1 .. n - 1 /\ k \in 1 .. n /\ k + 1 \in 1 .. n /\ (k + 1 = n \/ k + 1 \in 1 .. n - 1)
        BY <1>1, <2>3
      <4> QED BY <1>1, <1>4, <4>1
    <3>2. c[ir.edges[y].to] = "black" \/ (k < n /\ ir.edges[y].to = s[k + 1].node)
      BY <3>1 DEF Searching, Walked
    <3> QED BY <1>1, <2>0, <3>1, <3>2
  <2> QED BY <2>1, <2>2, <2>3
<1>9. BlackDone(ir, b)
  <2>1. \A m \in Ids(ir) : b[m] = "black" <=> c[m] = "black"
    BY <1>5
  <2>2. \A C : CycleIn(ir, C) => C \subseteq Ids(ir)
    BY DEF CycleIn
  <2>3. BlackDone(ir, c)
    BY DEF Searching
  <2> QED BY <2>1, <2>2, <2>3, ForwardKnown DEF BlackDone
<1> QED BY <1>7, <1>8, <1>9 DEF Searching, u, b

\* A search starts from a white root.
LEMMA RootStarts ==
    ASSUME NEW ir, EdgesKnown(ir), NEW c, Searching(ir, c, <<>>), NEW r \in Ids(ir), c[r] = "white"
    PROVE  Searching(ir, [c EXCEPT ![r] = "grey"], <<Frame(ir, r)>>)
<1> DEFINE b == [c EXCEPT ![r] = "grey"]
           u == <<Frame(ir, r)>>
<1>1. c \in [Ids(ir) -> Colours] /\ \A m \in Ids(ir) : c[m] # "grey"
  BY DEF Searching, Stacked
<1>2. Frame(ir, r) \in Frames(ir) /\ Frame(ir, r).node = r
      /\ Frame(ir, r).left = Outgoing(ir, r) \intersect Forward(ir)
  BY DEF Frame, Frames
<1>3. u \in Seq(Frames(ir)) /\ Len(u) = 1 /\ u[1] = Frame(ir, r)
  BY <1>2
<1>4. /\ b \in [Ids(ir) -> Colours] /\ b[r] = "grey"
      /\ \A m \in Ids(ir) : m # r => b[m] = c[m]
  BY <1>1 DEF Colours
<1> HIDE DEF u, b
<1>5. Stacked(ir, b, u)
  BY <1>1, <1>2, <1>3, <1>4 DEF Stacked
<1>6. Walked(ir, b, u)
  BY <1>2, <1>3 DEF Walked, Outgoing, Forward
<1>7. BlackDone(ir, b)
  <2>1. \A m \in Ids(ir) : b[m] = "black" <=> c[m] = "black"
    BY <1>4
  <2>2. \A C : CycleIn(ir, C) => C \subseteq Ids(ir)
    BY DEF CycleIn
  <2>3. BlackDone(ir, c)
    BY DEF Searching
  <2> QED BY <2>1, <2>2, <2>3, ForwardKnown DEF BlackDone
<1> QED BY <1>5, <1>6, <1>7 DEF Searching, u, b

\* What is left of the search: the white nodes, those not black, and the edges not
\* walked.  Every iteration takes something away.
White(ir, c) == {n \in Ids(ir) : c[n] = "white"}
NotBlack(ir, c) == {n \in Ids(ir) : c[n] # "black"}
Unwalked(ir, c, s) ==
    {x \in Forward(ir) : c[ir.edges[x].from] = "white" \/ \E k \in 1 .. Len(s) : x \in s[k].left}
Left(ir, c, s) ==
    Cardinality(White(ir, c)) + Cardinality(NotBlack(ir, c)) + Cardinality(Unwalked(ir, c, s))

Finite(ir) == Sequence(ir.nodes) /\ Sequence(ir.edges)

LEMMA FiniteIds ==
    ASSUME NEW ir, Finite(ir)
    PROVE  /\ IsFiniteSet(Ids(ir)) /\ Cardinality(Ids(ir)) \in Nat
           /\ IsFiniteSet(Forward(ir)) /\ Cardinality(Forward(ir)) <= Len(ir.edges)
           /\ Len(ir.edges) \in Nat /\ Cardinality(Forward(ir)) \in Nat
           /\ Len(ir.nodes) \in Nat /\ DOMAIN ir.nodes = 1 .. Len(ir.nodes)
           /\ DOMAIN ir.edges = 1 .. Len(ir.edges)
           /\ IsFiniteSet(DOMAIN ir.nodes) /\ Cardinality(DOMAIN ir.nodes) = Len(ir.nodes)
           /\ IsFiniteSet(DOMAIN ir.edges) /\ Cardinality(DOMAIN ir.edges) = Len(ir.edges)
<1>1. PICK S : ir.nodes \in Seq(S)
  BY DEF Finite, Sequence
<1>2. PICK T : ir.edges \in Seq(T)
  BY DEF Finite, Sequence
<1>3. /\ Len(ir.nodes) \in Nat /\ DOMAIN ir.nodes = 1 .. Len(ir.nodes)
      /\ Len(ir.edges) \in Nat /\ DOMAIN ir.edges = 1 .. Len(ir.edges)
  BY <1>1, <1>2
<1>4. /\ IsFiniteSet(DOMAIN ir.nodes) /\ Cardinality(DOMAIN ir.nodes) = Len(ir.nodes)
      /\ IsFiniteSet(DOMAIN ir.edges) /\ Cardinality(DOMAIN ir.edges) = Len(ir.edges)
  <2>1. \A n \in Nat : IsFiniteSet(1 .. n) /\ Cardinality(1 .. n) = n
    <3> SUFFICES ASSUME NEW n \in Nat PROVE IsFiniteSet(1 .. n) /\ Cardinality(1 .. n) = n
      OBVIOUS
    <3> QED BY FS_Interval
  <2> QED BY <1>3, <2>1
<1> DEFINE f == [i \in DOMAIN ir.nodes |-> ir.nodes[i].id]
<1>5. f \in Surjection(DOMAIN ir.nodes, Ids(ir))
  <2>1. f \in [DOMAIN ir.nodes -> Ids(ir)] /\ \A n \in Ids(ir) : \E i \in DOMAIN ir.nodes : f[i] = n
    BY DEF Ids
  <2> HIDE DEF f
  <2> QED BY <2>1, Fun_IsSurj
<1>6. IsFiniteSet(Ids(ir))
  <2> HIDE DEF f
  <2> QED BY <1>4, <1>5, FS_Surjection
<1>7. Forward(ir) \in SUBSET DOMAIN ir.edges
  BY DEF Forward
<1>8. IsFiniteSet(Forward(ir)) /\ Cardinality(Forward(ir)) <= Len(ir.edges)
  BY <1>4, <1>7, FS_Subset
<1> QED BY <1>3, <1>4, <1>6, <1>8, FS_CardinalityType

LEMMA LessLeft ==
    ASSUME NEW S, IsFiniteSet(S), NEW T \in SUBSET S
    PROVE  /\ Cardinality(T) \in Nat /\ Cardinality(S) \in Nat /\ Cardinality(T) <= Cardinality(S)
           /\ T # S => Cardinality(T) < Cardinality(S)
<1>1. IsFiniteSet(T) /\ Cardinality(T) <= Cardinality(S) /\ (Cardinality(S) = Cardinality(T) => S = T)
  BY FS_Subset
<1>2. Cardinality(T) \in Nat /\ Cardinality(S) \in Nat
  BY <1>1, FS_CardinalityType
<1> QED BY <1>1, <1>2

LEMMA LeftNat ==
    ASSUME NEW ir, Finite(ir), NEW c, NEW s
    PROVE  /\ IsFiniteSet(White(ir, c)) /\ IsFiniteSet(NotBlack(ir, c)) /\ IsFiniteSet(Unwalked(ir, c, s))
           /\ Cardinality(White(ir, c)) \in Nat /\ Cardinality(NotBlack(ir, c)) \in Nat
           /\ Cardinality(Unwalked(ir, c, s)) \in Nat /\ Left(ir, c, s) \in Nat
<1>1. White(ir, c) \in SUBSET Ids(ir) /\ NotBlack(ir, c) \in SUBSET Ids(ir)
      /\ Unwalked(ir, c, s) \in SUBSET Forward(ir)
  BY DEF White, NotBlack, Unwalked
<1>2. IsFiniteSet(White(ir, c)) /\ IsFiniteSet(NotBlack(ir, c)) /\ IsFiniteSet(Unwalked(ir, c, s))
  BY <1>1, FiniteIds, FS_Subset
<1>3. Cardinality(White(ir, c)) \in Nat /\ Cardinality(NotBlack(ir, c)) \in Nat
           /\ Cardinality(Unwalked(ir, c, s)) \in Nat
  BY <1>2, FS_CardinalityType
<1> QED BY <1>2, <1>3 DEF Left

LEMMA LeftShrinks ==
    ASSUME NEW ir, Finite(ir), NEW c, NEW s, NEW b, NEW t,
           White(ir, b) \subseteq White(ir, c), NotBlack(ir, b) \subseteq NotBlack(ir, c),
           Unwalked(ir, b, t) \subseteq Unwalked(ir, c, s),
           \/ White(ir, b) # White(ir, c) \/ NotBlack(ir, b) # NotBlack(ir, c)
           \/ Unwalked(ir, b, t) # Unwalked(ir, c, s)
    PROVE  Left(ir, b, t) < Left(ir, c, s)
<1>1. /\ Cardinality(White(ir, b)) \in Nat /\ Cardinality(White(ir, c)) \in Nat
      /\ Cardinality(White(ir, b)) <= Cardinality(White(ir, c))
      /\ White(ir, b) # White(ir, c) => Cardinality(White(ir, b)) < Cardinality(White(ir, c))
  BY LeftNat, LessLeft
<1>2. /\ Cardinality(NotBlack(ir, b)) \in Nat /\ Cardinality(NotBlack(ir, c)) \in Nat
      /\ Cardinality(NotBlack(ir, b)) <= Cardinality(NotBlack(ir, c))
      /\ NotBlack(ir, b) # NotBlack(ir, c) => Cardinality(NotBlack(ir, b)) < Cardinality(NotBlack(ir, c))
  BY LeftNat, LessLeft
<1>3. /\ Cardinality(Unwalked(ir, b, t)) \in Nat /\ Cardinality(Unwalked(ir, c, s)) \in Nat
      /\ Cardinality(Unwalked(ir, b, t)) <= Cardinality(Unwalked(ir, c, s))
      /\ Unwalked(ir, b, t) # Unwalked(ir, c, s) =>
            Cardinality(Unwalked(ir, b, t)) < Cardinality(Unwalked(ir, c, s))
  BY LeftNat, LessLeft
<1> QED BY <1>1, <1>2, <1>3 DEF Left

LEMMA MinIsIn ==
    ASSUME NEW S \in SUBSET Nat, S # {}
    PROVE  Min(S) \in S /\ \A y \in S : Min(S) <= y
BY LeastExists DEF Min

SearchStates(ir) ==
    {d \in [colour : [Ids(ir) -> Colours], stack : Seq(Frames(ir)), cyclic : BOOLEAN] :
        IF d.cyclic THEN Cyclic(ir) ELSE Searching(ir, d.colour, d.stack)}
Over(ir, d) == d.cyclic \/ (d.stack = <<>> /\ White(ir, d.colour) = {})

Ongoing(c, s) == [colour |-> c, stack |-> s, cyclic |-> FALSE]

LEMMA SearchingState ==
    ASSUME NEW ir, NEW c, NEW s, Searching(ir, c, s)
    PROVE  /\ Ongoing(c, s) \in SearchStates(ir)
           /\ Ongoing(c, s).colour = c /\ Ongoing(c, s).stack = s
BY DEF Searching, Stacked, SearchStates, Ongoing

LEMMA Visits ==
    ASSUME NEW ir, EdgesKnown(ir), Finite(ir), NEW c, NEW s, Searching(ir, c, s), s # <<>>,
           NEW d, d = Ongoing(c, s)
    PROVE  /\ Visit(ir, d) \in SearchStates(ir)
           /\ Visit(ir, d).cyclic \/ Left(ir, Visit(ir, d).colour, Visit(ir, d).stack) < Left(ir, c, s)
<1>0. d.colour = c /\ d.stack = s
  BY DEF Ongoing
<1>1. /\ s \in Seq(Frames(ir)) /\ c \in [Ids(ir) -> Colours]
      /\ Len(s) \in Nat \ {0} /\ Last(s) = s[Len(s)] /\ Last(s) \in Frames(ir)
      /\ Front(s) \in Seq(Frames(ir)) /\ Len(Front(s)) = Len(s) - 1
      /\ \A k \in 1 .. Len(s) - 1 : Front(s)[k] = s[k]
  <2>1. s \in Seq(Frames(ir)) /\ c \in [Ids(ir) -> Colours]
    BY DEF Searching, Stacked
  <2> QED BY <2>1, TopAndRest
<1> DEFINE n == Len(s)
<1>2. CASE Last(s).left = {}
  <2> DEFINE top == Last(s).node
             b == [c EXCEPT ![top] = "black"]
             t == Front(s)
  <2>1. Visit(ir, d) = Ongoing(b, t)
    BY <1>0, <1>2 DEF Visit, Search, Ongoing
  <2>2. Searching(ir, b, t)
    BY <1>2, NodeBlackened
  <2>3. top \in Ids(ir) /\ c[top] = "grey"
    BY <1>1 DEF Frames, Searching, Stacked
  <2>4. b[top] = "black" /\ \A m \in Ids(ir) : m # top => b[m] = c[m]
    BY <1>1, <2>3
  <2> HIDE DEF b, t
  <2>5. White(ir, b) = White(ir, c)
    BY <2>3, <2>4 DEF White
  <2>6. NotBlack(ir, b) \subseteq NotBlack(ir, c) /\ top \in NotBlack(ir, c) /\ top \notin NotBlack(ir, b)
    BY <2>3, <2>4 DEF NotBlack
  <2>7. Unwalked(ir, b, t) \subseteq Unwalked(ir, c, s)
    <3> SUFFICES ASSUME NEW x \in Unwalked(ir, b, t) PROVE x \in Unwalked(ir, c, s)
      OBVIOUS
    <3>1. x \in Forward(ir) /\ ir.edges[x].from \in Ids(ir)
      BY ForwardKnown DEF Unwalked
    <3>2. CASE b[ir.edges[x].from] = "white"
      BY <2>3, <2>4, <3>1, <3>2 DEF Unwalked
    <3>3. CASE \E k \in 1 .. Len(t) : x \in t[k].left
      <4>1. PICK k \in 1 .. Len(t) : x \in t[k].left
        BY <3>3
      <4>2. k \in 1 .. n /\ x \in s[k].left
        BY <1>1, <4>1 DEF t
      <4> QED BY <3>1, <4>2 DEF Unwalked
    <3> QED BY <3>2, <3>3 DEF Unwalked
  <2>8. Left(ir, b, t) < Left(ir, c, s)
    BY <2>5, <2>6, <2>7, LeftShrinks
  <2>9. Visit(ir, d) \in SearchStates(ir) /\ Visit(ir, d).colour = b /\ Visit(ir, d).stack = t
    BY <2>1, <2>2, SearchingState
  <2> QED BY <2>8, <2>9
<1>3. CASE Last(s).left # {}
  <2> DEFINE x == Min(Last(s).left)
             next == ir.edges[x].to
             t == Resumed(s, x)
  <2>1. x \in Last(s).left
    <3>1. Last(s).left \in SUBSET Nat
      <4>1. Last(s).left \in SUBSET Forward(ir)
        BY <1>1 DEF Frames
      <4>2. Forward(ir) \in SUBSET Nat
        BY FiniteIds DEF Forward
      <4> QED BY <4>1, <4>2
    <3> QED BY <1>3, <3>1, MinIsIn
  <2> HIDE DEF x
  <2>2. Past(ir, c, s, x, t)
    BY <2>1, EdgeWalked
  <2>3. next \in Ids(ir) /\ c[next] \in Colours /\ t \in Seq(Frames(ir)) /\ n \in 1 .. n /\ Len(t) = n
        /\ x \in Forward(ir) /\ ir.edges[x].from = s[n].node
    BY <1>1, <2>2 DEF Past, Stacked
  <2>4. \A k \in 1 .. n : t[k].node = s[k].node /\ t[k].left \subseteq s[k].left
    <3> SUFFICES ASSUME NEW k \in 1 .. n PROVE t[k].node = s[k].node /\ t[k].left \subseteq s[k].left
      OBVIOUS
    <3>1. CASE k = n
      BY <2>2, <3>1 DEF Past
    <3>2. CASE k # n
      <4>1. k \in 1 .. n - 1
        BY <1>1, <3>2
      <4> QED BY <2>2, <4>1 DEF Past
    <3> QED BY <3>1, <3>2
  <2>5. CASE c[next] = "grey"
    <3>1. Visit(ir, d) = [colour |-> c, stack |-> t, cyclic |-> TRUE]
      BY <1>0, <1>3, <2>5 DEF Visit, Resumed, Search, Ongoing, x
    <3>2. Cyclic(ir)
      BY <2>1, <2>5, WalksToGrey
    <3> HIDE DEF t
    <3> QED BY <1>1, <2>3, <3>1, <3>2 DEF SearchStates
  <2>6. CASE c[next] = "white"
    <3> DEFINE b == [c EXCEPT ![next] = "grey"]
               u == Append(t, Frame(ir, next))
    <3>1. Visit(ir, d) = Ongoing(b, u)
      BY <1>0, <1>3, <2>6 DEF Visit, Resumed, Search, Ongoing, x
    <3>2. Searching(ir, b, u)
      BY <2>1, <2>6, WalksToWhite
    <3>3. b[next] = "grey" /\ \A m \in Ids(ir) : m # next => b[m] = c[m]
      BY <1>1, <2>3
    <3>4. Len(u) = n + 1 /\ u[n + 1].left \subseteq Outgoing(ir, next) /\ \A k \in 1 .. n : u[k] = t[k]
      <4>1. Frame(ir, next) \in Frames(ir)
        BY <2>3 DEF Frame, Frames
      <4>2. Len(u) = n + 1 /\ u[n + 1] = Frame(ir, next) /\ \A k \in 1 .. n : u[k] = t[k]
        <5> HIDE DEF t
        <5> QED BY <1>1, <2>3, <4>1
      <4> HIDE DEF u
      <4> QED BY <4>2 DEF Frame
    <3> HIDE DEF b, u, t
    <3>5. White(ir, b) \subseteq White(ir, c) /\ next \in White(ir, c) /\ next \notin White(ir, b)
      BY <2>3, <2>6, <3>3 DEF White
    <3>6. NotBlack(ir, b) = NotBlack(ir, c)
      BY <2>3, <2>6, <3>3 DEF NotBlack
    <3>7. Unwalked(ir, b, u) \subseteq Unwalked(ir, c, s)
      <4> SUFFICES ASSUME NEW y \in Unwalked(ir, b, u) PROVE y \in Unwalked(ir, c, s)
        OBVIOUS
      <4>1. y \in Forward(ir) /\ ir.edges[y].from \in Ids(ir)
        BY ForwardKnown DEF Unwalked
      <4>2. CASE b[ir.edges[y].from] = "white"
        BY <2>6, <3>3, <4>1, <4>2 DEF Unwalked
      <4>3. CASE \E k \in 1 .. Len(u) : y \in u[k].left
        <5>1. PICK k \in 1 .. n + 1 : y \in u[k].left
          BY <3>4, <4>3
        <5>2. CASE k = n + 1
          <6>1. ir.edges[y].from = next
            BY <3>4, <5>1, <5>2 DEF Outgoing
          <6> QED BY <2>6, <4>1, <6>1 DEF Unwalked
        <5>3. CASE k \in 1 .. n
          <6>1. y \in s[k].left
            BY <2>4, <3>4, <5>1, <5>3
          <6> QED BY <4>1, <5>3, <6>1 DEF Unwalked
        <5> QED BY <1>1, <5>2, <5>3
      <4> QED BY <4>2, <4>3 DEF Unwalked
    <3>8. Left(ir, b, u) < Left(ir, c, s)
      BY <3>5, <3>6, <3>7, LeftShrinks
    <3>9. Visit(ir, d) \in SearchStates(ir) /\ Visit(ir, d).colour = b /\ Visit(ir, d).stack = u
      BY <3>1, <3>2, SearchingState
    <3> QED BY <3>8, <3>9
  <2>7. CASE c[next] = "black"
    <3>1. Visit(ir, d) = Ongoing(c, t)
      BY <1>0, <1>3, <2>7 DEF Visit, Resumed, Search, Ongoing, x
    <3>2. Searching(ir, c, t)
      BY <2>1, <2>7, WalksToBlack
    <3> HIDE DEF t
    <3>3. Unwalked(ir, c, t) \subseteq Unwalked(ir, c, s)
      <4> SUFFICES ASSUME NEW y \in Unwalked(ir, c, t) PROVE y \in Unwalked(ir, c, s)
        OBVIOUS
      <4>1. y \in Forward(ir)
        BY DEF Unwalked
      <4>2. CASE c[ir.edges[y].from] = "white"
        BY <4>1, <4>2 DEF Unwalked
      <4>3. CASE \E k \in 1 .. Len(t) : y \in t[k].left
        BY <2>3, <2>4, <4>1, <4>3 DEF Unwalked
      <4> QED BY <4>2, <4>3 DEF Unwalked
    <3>4. x \in Unwalked(ir, c, s)
      BY <1>1, <2>1, <2>3 DEF Unwalked
    <3>5. x \notin Unwalked(ir, c, t)
      <4>1. c[ir.edges[x].from] = "grey"
        BY <2>3 DEF Searching, Stacked
      <4>2. ASSUME NEW k \in 1 .. n, x \in t[k].left PROVE FALSE
        <5>1. ir.edges[x].from = t[k].node
          BY <2>3, <3>2, <4>2 DEF Searching, Stacked, Outgoing
        <5>2. k = n
          BY <2>3, <2>4, <5>1 DEF Searching, Stacked
        <5> QED BY <2>2, <4>2, <5>2 DEF Past
      <4> QED BY <2>3, <4>1, <4>2 DEF Unwalked
    <3>6. Left(ir, c, t) < Left(ir, c, s)
      BY <3>3, <3>4, <3>5, LeftShrinks
    <3>7. Visit(ir, d) \in SearchStates(ir) /\ Visit(ir, d).colour = c /\ Visit(ir, d).stack = t
      BY <3>1, <3>2, SearchingState
    <3> QED BY <3>6, <3>7
  <2> QED BY <2>3, <2>5, <2>6, <2>7 DEF Colours
<1> QED BY <1>2, <1>3

\* An iteration stays in the search and comes closer to its end.
Progress(ir, d, a) ==
    /\ a \in SearchStates(ir)
    /\ Over(ir, d) => a = d
    /\ ~Over(ir, d) => a.cyclic \/ Left(ir, a.colour, a.stack) < Left(ir, d.colour, d.stack)

LEMMA Advances ==
    ASSUME NEW ir, EdgesKnown(ir), Finite(ir), NEW d \in SearchStates(ir)
    PROVE  Progress(ir, d, Advance(ir, d))
<1> DEFINE a == Advance(ir, d)
<1> HIDE DEF a
<1> SUFFICES Progress(ir, d, a)
  BY DEF a
<1> DEFINE c == d.colour
           s == d.stack
           white == {n \in DOMAIN c : c[n] = "white"}
<1>1. c \in [Ids(ir) -> Colours] /\ s \in Seq(Frames(ir)) /\ d.cyclic \in BOOLEAN
  BY DEF SearchStates
<1>2. white = White(ir, c)
  BY <1>1 DEF White
<1>3. CASE d.cyclic
  BY <1>3 DEF Advance, Over, a, Progress
<1>4. CASE ~d.cyclic /\ s # <<>>
  <2>1. Searching(ir, c, s) /\ d = Ongoing(c, s)
    BY <1>4 DEF SearchStates, Ongoing
  <2>2. a = Visit(ir, d)
    BY <1>4 DEF Advance, a
  <2>3. a \in SearchStates(ir) /\ (a.cyclic \/ Left(ir, a.colour, a.stack) < Left(ir, c, s))
    BY <1>4, <2>1, <2>2, Visits
  <2> QED BY <1>4, <2>3 DEF Over, Progress
<1>5. CASE ~d.cyclic /\ s = <<>> /\ white = {}
  BY <1>2, <1>5 DEF Advance, Over, a, Progress
<1>6. CASE ~d.cyclic /\ s = <<>> /\ white # {}
  <2> DEFINE r == CHOOSE n \in white : TRUE
             b == [c EXCEPT ![r] = "grey"]
             u == <<Frame(ir, r)>>
  <2>1. Searching(ir, c, <<>>)
    BY <1>6 DEF SearchStates
  <2>2. r \in white
    BY <1>6
  <2>3. a = Ongoing(b, u)
    BY <1>6 DEF Advance, Search, Ongoing, a
  <2> HIDE DEF r
  <2>4. r \in Ids(ir) /\ c[r] = "white"
    BY <1>1, <2>2
  <2>5. Searching(ir, b, u)
    BY <2>1, <2>4, RootStarts
  <2>6. b[r] = "grey" /\ \A m \in Ids(ir) : m # r => b[m] = c[m]
    BY <1>1, <2>4
  <2>7. Len(u) = 1 /\ u[1].left \subseteq Outgoing(ir, r)
    <3>1. Len(u) = 1 /\ u[1] = Frame(ir, r)
      OBVIOUS
    <3> HIDE DEF u
    <3> QED BY <3>1 DEF Frame
  <2> HIDE DEF b, u
  <2>8. White(ir, b) \subseteq White(ir, c) /\ r \in White(ir, c) /\ r \notin White(ir, b)
    BY <2>4, <2>6 DEF White
  <2>9. NotBlack(ir, b) = NotBlack(ir, c)
    BY <2>4, <2>6 DEF NotBlack
  <2>10. Unwalked(ir, b, u) \subseteq Unwalked(ir, c, s)
    <3> SUFFICES ASSUME NEW y \in Unwalked(ir, b, u) PROVE y \in Unwalked(ir, c, s)
      OBVIOUS
    <3>1. y \in Forward(ir) /\ ir.edges[y].from \in Ids(ir)
      BY ForwardKnown DEF Unwalked
    <3>2. CASE b[ir.edges[y].from] = "white"
      BY <2>4, <2>6, <3>1, <3>2 DEF Unwalked
    <3>3. CASE \E k \in 1 .. Len(u) : y \in u[k].left
      <4>1. y \in u[1].left
        BY <2>7, <3>3
      <4>2. ir.edges[y].from = r
        BY <2>7, <4>1 DEF Outgoing
      <4> QED BY <2>4, <3>1, <4>2 DEF Unwalked
    <3> QED BY <3>2, <3>3 DEF Unwalked
  <2>11. Left(ir, b, u) < Left(ir, c, s)
    BY <2>8, <2>9, <2>10, LeftShrinks
  <2>12. a \in SearchStates(ir) /\ a.colour = b /\ a.stack = u
    BY <2>3, <2>5, SearchingState
  <2>13. ~Over(ir, d)
    BY <1>2, <1>6 DEF Over
  <2> QED BY <2>11, <2>12, <2>13 DEF Progress
<1> QED BY <1>1, <1>3, <1>4, <1>5, <1>6

\* A search that is over has decided the question.
LEMMA OverDecides ==
    ASSUME NEW ir, EdgesKnown(ir), NEW d \in SearchStates(ir), Over(ir, d)
    PROVE  d.cyclic <=> Cyclic(ir)
<1>1. CASE d.cyclic
  BY <1>1 DEF SearchStates
<1>2. CASE ~d.cyclic
  <2>1. Searching(ir, d.colour, <<>>) /\ White(ir, d.colour) = {}
    BY <1>2 DEF SearchStates, Over
  <2>2. \A n \in Ids(ir) : d.colour[n] = "black"
    <3> SUFFICES ASSUME NEW n \in Ids(ir) PROVE d.colour[n] = "black"
      OBVIOUS
    <3>1. d.colour[n] \in Colours
      BY <2>1 DEF Searching, Stacked
    <3>2. d.colour[n] # "grey"
      BY <2>1 DEF Searching, Stacked
    <3>3. d.colour[n] # "white"
      BY <2>1 DEF White
    <3> QED BY <3>1, <3>2, <3>3 DEF Colours
  <2>3. ASSUME Cyclic(ir) PROVE FALSE
    <3>1. PICK C : CycleIn(ir, C)
      BY <2>3 DEF Cyclic, CycleIn
    <3> QED BY <2>1, <2>2, <3>1 DEF Searching, BlackDone, CycleIn
  <2> QED BY <1>2, <2>3
<1> QED BY <1>1, <1>2

LEMMA FreshSearch ==
    ASSUME NEW ir, EdgesKnown(ir), Finite(ir), NEW c \in [Ids(ir) -> {"white"}]
    PROVE  /\ Ongoing(c, <<>>) \in SearchStates(ir)
           /\ Iterations(ir) \in Nat /\ Left(ir, c, <<>>) <= Iterations(ir)
<1>1. c \in [Ids(ir) -> Colours] /\ \A n \in Ids(ir) : c[n] = "white"
  BY DEF Colours
<1>2. Stacked(ir, c, <<>>) /\ Walked(ir, c, <<>>)
  BY <1>1 DEF Stacked, Walked
<1>3. BlackDone(ir, c)
  BY <1>1, ForwardKnown DEF BlackDone, CycleIn
<1>4. Ongoing(c, <<>>) \in SearchStates(ir)
  BY <1>2, <1>3, SearchingState DEF Searching
<1>5. White(ir, c) = Ids(ir) /\ NotBlack(ir, c) = Ids(ir) /\ Unwalked(ir, c, <<>>) = Forward(ir)
  BY <1>1, ForwardKnown DEF White, NotBlack, Unwalked
<1>6. /\ Cardinality(Ids(ir)) \in Nat /\ Cardinality(Forward(ir)) \in Nat /\ Len(ir.edges) \in Nat
      /\ Cardinality(Forward(ir)) <= Len(ir.edges)
  BY FiniteIds
<1>7. Left(ir, c, <<>>) = Cardinality(Ids(ir)) + Cardinality(Ids(ir)) + Cardinality(Forward(ir))
  BY <1>5 DEF Left
<1>8. Iterations(ir) = 2 * Cardinality(Ids(ir)) + Len(ir.edges)
  BY DEF Iterations
<1> QED BY <1>4, <1>6, <1>7, <1>8

\* The search finds a cycle exactly if there is one.
LEMMA SearchIsExact ==
    ASSUME NEW ir, EdgesKnown(ir), Finite(ir)
    PROVE  three_color_cycle_detect(ir) <=> Cyclic(ir)
<1> DEFINE N == Iterations(ir)
           S == SearchStates(ir)
           c0 == [n \in Ids(ir) |-> "white"]
           start == Ongoing(c0, <<>>)
           Follows(f) == f = [k \in 0 .. N |-> IF k = 0 THEN start ELSE Advance(ir, f[k - 1])]
           search == CHOOSE f : Follows(f)
<1>1. three_color_cycle_detect(ir) = search[N].cyclic
  BY DEF three_color_cycle_detect, Search, Ongoing
<1>2. start \in S /\ N \in Nat /\ Left(ir, c0, <<>>) <= N
  <2>1. c0 \in [Ids(ir) -> {"white"}]
    OBVIOUS
  <2> HIDE DEF c0
  <2> QED BY <2>1, FreshSearch
<1>3. start.colour = c0 /\ start.stack = <<>>
  BY DEF Ongoing
<1> HIDE DEF N, S, c0, start
<1>4. Follows(search)
  <2> DEFINE step == [d \in S |-> Advance(ir, d)]
  <2>1. step \in [S -> S]
    <3>1. ASSUME NEW d \in S PROVE Advance(ir, d) \in S
      <4>1. Progress(ir, d, Advance(ir, d))
        BY Advances DEF S
      <4> QED BY <4>1 DEF Progress, S
    <3> QED BY <3>1
  <2>2. PICK f : Iterates(f, N, S, start, step)
    <3> HIDE DEF step
    <3>1. \E f : Iterates(f, N, S, start, step)
      BY <1>2, <2>1, IterationExists
    <3> QED BY <3>1
  <2>3. ASSUME NEW n \in 1 .. N PROVE n - 1 \in 0 .. N /\ f[n] = Advance(ir, f[n - 1])
    <3>1. n - 1 \in 0 .. N
      BY <1>2
    <3>2. f[n - 1] \in S /\ f[n] = step[f[n - 1]]
      <4> HIDE DEF step
      <4> QED BY <2>2, <3>1 DEF Iterates
    <3> QED BY <3>1, <3>2
  <2>4. \A k \in 0 .. N : f[k] = IF k = 0 THEN start ELSE Advance(ir, f[k - 1])
    <3>1. f[0] = start
      BY <2>2 DEF Iterates
    <3>2. \A k \in 0 .. N : k # 0 => k \in 1 .. N
      BY <1>2
    <3> QED BY <2>3, <3>1, <3>2
  <2>5. Follows(f)
    BY <2>2, <2>4 DEF Iterates
  <2> HIDE DEF Follows
  <2> QED BY <2>5
<1> HIDE DEF search
<1>5. search[0] = start /\ \A n \in 1 .. N : search[n] = Advance(ir, search[n - 1])
  <2>1. 0 \in 0 .. N /\ \A n \in 1 .. N : n \in 0 .. N /\ n # 0
    BY <1>2
  <2> QED BY <1>4, <2>1
<1> DEFINE L(d) == Left(ir, d.colour, d.stack)
           Good(n) == search[n] \in S /\ (Over(ir, search[n]) \/ L(search[n]) <= N - n)
           T == {n \in 0 .. N : Good(n)}
<1>6. 0 \in T
  <2>1. L(search[0]) = Left(ir, c0, <<>>)
    BY <1>3, <1>5
  <2>2. Left(ir, c0, <<>>) <= N - 0 /\ 0 \in 0 .. N
    BY <1>2
  <2> HIDE DEF L
  <2> QED BY <1>2, <1>5, <2>1, <2>2
<1>7. ASSUME NEW n \in 1 .. N, n - 1 \in T PROVE n \in T
  <2> DEFINE d == search[n - 1]
             a == search[n]
  <2>1. d \in S /\ (Over(ir, d) \/ L(d) <= N - (n - 1)) /\ a = Advance(ir, d)
    BY <1>5, <1>7
  <2> HIDE DEF d, a
  <2>2. /\ a \in S /\ (Over(ir, d) => a = d)
        /\ ~Over(ir, d) => a.cyclic \/ L(a) < L(d)
    <3>1. Progress(ir, d, Advance(ir, d))
      BY <2>1, Advances DEF S
    <3> QED BY <2>1, <3>1 DEF Progress, S
  <2>3. L(a) \in Nat /\ L(d) \in Nat
    BY LeftNat
  <2>4. Over(ir, a) \/ L(a) <= N - n
    BY <1>2, <2>1, <2>2, <2>3 DEF Over
  <2> QED BY <2>2, <2>4 DEF a
<1>8. N \in T
  <2> HIDE DEF T
  <2> QED BY <1>2, <1>6, <1>7, Induction
<1> DEFINE d == search[N]
<1>9. d \in S /\ (Over(ir, d) \/ L(d) <= 0)
  BY <1>2, <1>8
<1> HIDE DEF d
<1>10. Over(ir, d)
  <2> SUFFICES ASSUME L(d) <= 0 PROVE Over(ir, d)
    BY <1>9
  <2>1. CASE d.cyclic
    BY <2>1 DEF Over
  <2>2. CASE ~d.cyclic
    <3>1. White(ir, d.colour) = {} /\ NotBlack(ir, d.colour) = {}
      <4>1. /\ Cardinality(White(ir, d.colour)) \in Nat /\ Cardinality(NotBlack(ir, d.colour)) \in Nat
            /\ Cardinality(Unwalked(ir, d.colour, d.stack)) \in Nat
            /\ IsFiniteSet(White(ir, d.colour)) /\ IsFiniteSet(NotBlack(ir, d.colour))
        BY LeftNat
      <4>2. Cardinality(White(ir, d.colour)) = 0 /\ Cardinality(NotBlack(ir, d.colour)) = 0
        BY <4>1 DEF Left
      <4> QED BY <4>1, <4>2, FS_EmptySet
    <3>2. Searching(ir, d.colour, d.stack)
      BY <1>9, <2>2 DEF S, SearchStates
    <3>3. d.stack = <<>>
      <4> SUFFICES ASSUME d.stack # <<>> PROVE FALSE
        OBVIOUS
      <4>1. d.stack \in Seq(Frames(ir))
        BY <3>2 DEF Searching, Stacked
      <4>2. Len(d.stack) \in Nat \ {0} /\ Last(d.stack) = d.stack[Len(d.stack)] /\ Last(d.stack) \in Frames(ir)
        BY <4>1, TopAndRest
      <4>3. d.stack[Len(d.stack)].node \in Ids(ir) /\ Len(d.stack) \in 1 .. Len(d.stack)
        BY <4>2 DEF Frames
      <4>4. d.colour[d.stack[Len(d.stack)].node] = "grey"
        BY <3>2, <4>3 DEF Searching, Stacked
      <4> QED BY <3>1, <4>3, <4>4 DEF NotBlack
    <3> QED BY <3>1, <3>3 DEF Over
  <2> QED BY <2>1, <2>2
<1>11. d.cyclic <=> Cyclic(ir)
  BY <1>9, <1>10, OverDecides DEF S
<1> QED BY <1>1, <1>11 DEF d

-----------------------------------------------------------------------------
(* What the passes keep of what was validated. *)

\* Every back edge enters a node that some forward edge enters too.
LoopsReturn(ir) ==
    \A i \in DOMAIN ir.edges : ir.edges[i].condition = "loop" =>
        \E j \in Forward(ir) : ir.edges[j].to = ir.edges[i].to

\* All the positions in order are the sequence itself.
LEMMA AllKept ==
    ASSUME NEW s, Sequence(s)
    PROVE  Kept(s, DOMAIN s) = s
<1>1. PICK S : s \in Seq(S)
  BY DEF Sequence
<1>2. DOMAIN s = 1 .. Len(s) /\ Len(s) \in Nat
  BY <1>1
<1> DEFINE n == Len(s)
           D == DOMAIN s
           at == InOrder(D)
<1>3. IsFiniteSet(1 .. n) /\ Cardinality(1 .. n) = n
  <2> SUFFICES ASSUME NEW k \in Nat PROVE IsFiniteSet(1 .. k) /\ Cardinality(1 .. k) = k
    BY <1>2
  <2> QED BY FS_Interval
<1>4. at \in Bijection(1 .. n, 1 .. n) /\ \A i, j \in DOMAIN at : i < j => at[i] < at[j]
  <2>1. \E a \in Bijection(1 .. Cardinality(D), D) : \A i, j \in DOMAIN a : i < j => a[i] < a[j]
    <3>1. D \in SUBSET Nat /\ IsFiniteSet(D)
      BY <1>2, <1>3
    <3> HIDE DEF D
    <3> QED BY <3>1, OrderExists DEF HasOrder, Increasing
  <2>2. at \in Bijection(1 .. Cardinality(D), D) /\ \A i, j \in DOMAIN at : i < j => at[i] < at[j]
    BY <2>1 DEF InOrder
  <2> QED BY <1>2, <1>3, <2>2
<1>5. Kept(s, D) = [k \in DOMAIN at |-> s[at[k]]]
  BY DEF Kept
<1> HIDE DEF at
<1>6. at \in [1 .. n -> 1 .. n] /\ \A i \in 1 .. n : \E j \in 1 .. n : at[j] = i
  <2> HIDE DEF n
  <2>1. n \in Nat
    BY <1>2 DEF n
  <2> QED BY <1>4, <2>1, EnumerationOf, ZenonT(60)
<1>7. \A i \in 1 .. n : at[i] = i
  <2> SUFFICES ASSUME NEW k \in 1 .. n, at[k] # k PROVE FALSE
    OBVIOUS
  <2> DEFINE B == {i \in 1 .. n : at[i] # i}
  <2>1. B \in SUBSET Nat /\ k \in B
    BY <1>2
  <2>2. PICK i \in B : \A j \in B : i <= j
    <3> HIDE DEF B
    <3> QED BY <2>1, LeastExists
  <2>3. \A j \in 1 .. n : j < i => at[j] = j
    BY <1>2, <2>2
  <2>4. PICK j \in 1 .. n : at[j] = i
    BY <1>6, <2>2
  <2>5. i < j
    BY <1>2, <2>2, <2>3, <2>4
  <2>6. at[i] \in 1 .. n /\ at[i] < i
    BY <1>2, <1>4, <1>6, <2>2, <2>4, <2>5
  <2>7. at[at[i]] = at[i]
    BY <2>3, <2>6
  <2>8. at[at[i]] < at[i]
    BY <1>4, <1>6, <2>2, <2>6
  <2> QED BY <1>2, <2>6, <2>7, <2>8
<1>8. Kept(s, D) = [k \in 1 .. n |-> s[k]]
  BY <1>5, <1>6, <1>7
<1> QED BY <1>1, <1>2, <1>8

\* What is reached is closed under the edges.
LEMMA ReachCloses ==
    ASSUME NEW ir, EdgesKnown(ir), NEW from \in SUBSET Ids(ir)
    PROVE  /\ from \subseteq Reach(ir, from) /\ Reach(ir, from) \subseteq Ids(ir)
           /\ Closed(ir.edges, Reach(ir, from))
<1>1. from \subseteq Reach(ir, from) /\ Reach(ir, from) \subseteq Ids(ir)
  BY DEF Reach
<1>2. ASSUME NEW i \in DOMAIN ir.edges, ir.edges[i].from \in Reach(ir, from)
      PROVE  ir.edges[i].to \in Reach(ir, from)
  <2>1. ir.edges[i].to \in Ids(ir)
    BY DEF EdgesKnown
  <2>2. ASSUME NEW set \in SUBSET Ids(ir), from \subseteq set, Closed(ir.edges, set)
        PROVE  ir.edges[i].to \in set
    <3>1. ir.edges[i].from \in set
      BY <1>2, <2>2 DEF Reach
    <3> QED BY <2>2, <3>1 DEF Closed
  <2> QED BY <2>1, <2>2 DEF Reach
<1> QED BY <1>1, <1>2 DEF Closed

\* Without cycles everything with an edge is reached from the entries.
LEMMA AllEdgesLive ==
    ASSUME NEW w, Finite(w), EdgesKnown(w), ~Cyclic(w), LoopsReturn(w),
           NEW i \in DOMAIN w.edges
    PROVE  {w.edges[i].from, w.edges[i].to} \subseteq Reach(w, Entries(w))
<1> DEFINE live == Reach(w, Entries(w))
           Linked(n) == Incoming(w, n) # {} \/ Outgoing(w, n) # {}
           U == {n \in Ids(w) : Linked(n) /\ n \notin live}
<1>1. Entries(w) \subseteq live /\ live \subseteq Ids(w) /\ Closed(w.edges, live)
  <2>1. Entries(w) \in SUBSET Ids(w)
    BY DEF Entries
  <2> QED BY <2>1, ReachCloses
<1> HIDE DEF live
<1>2. Fed(w, U)
  <2> SUFFICES ASSUME NEW n \in U
               PROVE  \E x \in Forward(w) : w.edges[x].to = n /\ w.edges[x].from \in U
    BY DEF Fed
  <2>1. n \in Ids(w) /\ Linked(n) /\ n \notin live
    OBVIOUS
  <2>2. Incoming(w, n) # {}
    BY <1>1, <2>1 DEF Entries
  <2>3. PICK y \in DOMAIN w.edges : w.edges[y].to = n
    BY <2>2 DEF Incoming
  <2>4. PICK x \in Forward(w) : w.edges[x].to = n
    BY <2>3 DEF LoopsReturn, Forward
  <2>5. x \in DOMAIN w.edges /\ w.edges[x].from \in Ids(w)
    BY <2>4 DEF Forward, EdgesKnown
  <2>6. w.edges[x].from \notin live
    BY <1>1, <2>1, <2>4, <2>5 DEF Closed
  <2>7. Linked(w.edges[x].from)
    BY <2>5 DEF Outgoing
  <2> QED BY <2>4, <2>5, <2>6, <2>7
<1>3. U \in SUBSET Ids(w) /\ IsFiniteSet(U)
  BY FiniteIds, FS_Subset
<1>4. U = {}
  <2> HIDE DEF U
  <2> QED BY <1>2, <1>3, FedMakesCycle
<1>5. w.edges[i].from \in Ids(w) /\ w.edges[i].to \in Ids(w)
  BY DEF EdgesKnown
<1>6. Linked(w.edges[i].from) /\ Linked(w.edges[i].to)
  BY DEF Outgoing, Incoming
<1> HIDE DEF Linked
<1> QED BY <1>4, <1>5, <1>6 DEF live

\* A workflow keeps its lack of cycles when it loses nodes and edges.
LEMMA FewerEdges ==
    ASSUME NEW w, NEW out, ~Cyclic(w), Ids(out) \subseteq Ids(w),
           \A k \in DOMAIN out.edges : \E i \in DOMAIN w.edges : out.edges[k] = w.edges[i]
    PROVE  ~Cyclic(out)
<1> SUFFICES ASSUME Cyclic(out) PROVE FALSE
  OBVIOUS
<1>1. PICK C : CycleIn(out, C)
  BY DEF Cyclic, CycleIn
<1>2. CycleIn(w, C)
  <2>1. C \in (SUBSET Ids(w)) \ {{}}
    BY <1>1 DEF CycleIn
  <2>2. ASSUME NEW n \in C
        PROVE  \E x \in Forward(w) : w.edges[x].from = n /\ w.edges[x].to \in C
    <3>1. PICK k \in Forward(out) : out.edges[k].from = n /\ out.edges[k].to \in C
      BY <1>1 DEF CycleIn
    <3>2. PICK x \in DOMAIN w.edges : out.edges[k] = w.edges[x]
      BY <3>1 DEF Forward
    <3>3. x \in Forward(w)
      BY <3>1, <3>2 DEF Forward
    <3> QED BY <3>1, <3>2, <3>3
  <2> QED BY <2>1, <2>2 DEF CycleIn
<1> QED BY <1>2 DEF Cyclic, CycleIn

\* What the validated workflow promises of a graph made of it.
Sound(w, g) == Finite(g) /\ EdgesKnown(g) /\ ~Cyclic(g) /\ (LoopsReturn(w) => KindsOk(g))

\* The arity a node asks for is kept where its edges are.
LEMMA KindOkKept ==
    ASSUME NEW ir, NEW out, NEW node, NEW node2,
           node2.id = node.id, node2.kind = node.kind, node2.max_iterations = node.max_iterations,
           IsFiniteSet(DOMAIN out.edges),
           \A i \in DOMAIN ir.edges : i \in DOMAIN out.edges /\ out.edges[i] = ir.edges[i],
           KindOk(ir, node)
    PROVE  KindOk(out, node2)
<1> DEFINE a == Outgoing(ir, node.id)
           b == Outgoing(out, node.id)
           c == Incoming(ir, node.id)
           d == Incoming(out, node.id)
<1>1. a \subseteq b /\ c \subseteq d /\ (\A i \in a : out.edges[i] = ir.edges[i])
      /\ b \subseteq DOMAIN out.edges /\ d \subseteq DOMAIN out.edges
  BY DEF Outgoing, Incoming
<1>2. CASE node.kind = "Conditional"
  <2>1. \E i \in a : ir.edges[i].condition # Unset
    BY <1>2 DEF KindOk
  <2>2. \E i \in b : out.edges[i].condition # Unset
    <3> HIDE DEF a, b
    <3> QED BY <1>1, <2>1
  <2> QED BY <1>2, <2>2 DEF KindOk
<1>3. CASE node.kind = "Loop"
  <2>1. a # {} /\ node.max_iterations
    BY <1>3 DEF KindOk
  <2>2. b # {} /\ node2.max_iterations
    <3> HIDE DEF a, b
    <3> QED BY <1>1, <2>1
  <2> QED BY <1>3, <2>2 DEF KindOk
<1>4. CASE node.kind = "Split"
  <2>1. Cardinality(a) >= 2
    BY <1>4 DEF KindOk
  <2>2. Cardinality(b) >= 2
    <3> HIDE DEF a, b
    <3>1. IsFiniteSet(b)
      BY <1>1, FS_Subset
    <3>2. Cardinality(a) \in Nat /\ Cardinality(b) \in Nat /\ Cardinality(a) <= Cardinality(b)
      BY <1>1, <3>1, LessLeft
    <3> QED BY <2>1, <3>2
  <2> QED BY <1>4, <2>2 DEF KindOk
<1>5. CASE node.kind = "Join"
  <2>1. Cardinality(c) >= 2
    BY <1>5 DEF KindOk
  <2>2. Cardinality(d) >= 2
    <3> HIDE DEF c, d
    <3>1. IsFiniteSet(d)
      BY <1>1, FS_Subset
    <3>2. Cardinality(c) \in Nat /\ Cardinality(d) \in Nat /\ Cardinality(c) <= Cardinality(d)
      BY <1>1, <3>1, LessLeft
    <3> QED BY <2>1, <3>2
  <2> QED BY <1>5, <2>2 DEF KindOk
<1>6. CASE node.kind = "Barrier"
  <2>1. a # {} /\ c # {}
    BY <1>6 DEF KindOk
  <2>2. b # {} /\ d # {}
    <3> HIDE DEF a, b, c, d
    <3> QED BY <1>1, <2>1
  <2> QED BY <1>6, <2>2 DEF KindOk
<1>7. CASE node.kind \notin {"Conditional", "Loop", "Split", "Join", "Barrier"}
  BY <1>7 DEF KindOk
<1> QED BY <1>2, <1>3, <1>4, <1>5, <1>6, <1>7
LEMMA JoinedSequence ==
    ASSUME NEW s, Sequence(s), NEW t, Sequence(t)
    PROVE  Sequence(s \o t)
<1>1. PICK S : s \in Seq(S)
  BY DEF Sequence
<1>2. PICK T : t \in Seq(T)
  BY DEF Sequence
<1>3. s \in Seq(S \union T) /\ t \in Seq(S \union T)
  BY <1>1, <1>2
<1>4. s \o t \in Seq(S \union T)
  BY <1>3
<1> QED BY <1>4 DEF Sequence

\* Dead-node elimination keeps what was validated; where every back edge returns to
\* a node inside, nothing with an edge is dead.
LEMMA EliminationSound ==
    ASSUME NEW w, Handed(w), EdgesKnown(w), KindsOk(w), ~Cyclic(w),
           \A i \in DOMAIN w.nodes : NodeOk(w.nodes[i])
    PROVE  Sound(w, DeadNodeEliminationPass(w).ir)
<1> DEFINE out == DeadNodeEliminationPass(w).ir
<1>1. Handed(out) /\ EdgesKnown(out)
  BY EliminationHands
<1>2. Finite(out) /\ Finite(w)
  <2> HIDE DEF out
  <2> QED BY <1>1 DEF Handed, Finite
<1>3. CASE w.edges = <<>> \/ Entries(w) = {}
  <2>1. out = w
    BY <1>3 DEF DeadNodeEliminationPass, Ok
  <2> HIDE DEF out
  <2>2. Sound(w, out)
    BY <1>2, <2>1 DEF Sound
  <2> QED BY <2>2 DEF out
<1>4. CASE ~(w.edges = <<>> \/ Entries(w) = {})
  <2> DEFINE live == Reach(w, Entries(w))
             I == {i \in DOMAIN w.nodes : w.nodes[i].id \in live}
             J == {i \in DOMAIN w.edges : {w.edges[i].from, w.edges[i].to} \subseteq live}
  <2>1. out = Restricted(w, live)
    BY <1>4 DEF DeadNodeEliminationPass, Ok
  <2>2. out.nodes = Kept(w.nodes, I) /\ out.edges = Kept(w.edges, J)
    BY <2>1 DEF Restricted
  <2> HIDE DEF out
  <2>3. \A k \in DOMAIN out.nodes : \E i \in DOMAIN w.nodes : out.nodes[k] = w.nodes[i]
    <3>1. I \in SUBSET DOMAIN w.nodes /\ Sequence(w.nodes)
      BY DEF Handed
    <3> HIDE DEF I
    <3> QED BY <2>2, <3>1, KeptOf
  <2>4. \A k \in DOMAIN out.edges : \E i \in DOMAIN w.edges : out.edges[k] = w.edges[i]
    <3>1. J \in SUBSET DOMAIN w.edges /\ Sequence(w.edges)
      BY DEF Handed
    <3> HIDE DEF J
    <3> QED BY <2>2, <3>1, KeptOf
  <2>5. Ids(out) \subseteq Ids(w)
    BY <2>3 DEF Ids
  <2>6. ~Cyclic(out)
    BY <2>4, <2>5, FewerEdges
  <2>7. ASSUME LoopsReturn(w) PROVE KindsOk(out)
    <3>1. J = DOMAIN w.edges
      <4>1. ASSUME NEW i \in DOMAIN w.edges PROVE i \in J
        BY <1>2, <2>7, AllEdgesLive
      <4> HIDE DEF live
      <4> QED BY <4>1
    <3>2. out.edges = w.edges
      BY <2>2, <3>1, AllKept DEF Handed
    <3>3. IsFiniteSet(DOMAIN out.edges)
      BY <1>2, FiniteIds
    <3>4. ASSUME NEW k \in DOMAIN out.nodes PROVE KindOk(out, out.nodes[k])
      <4>1. PICK i \in DOMAIN w.nodes : out.nodes[k] = w.nodes[i]
        BY <2>3
      <4>2. KindOk(w, w.nodes[i])
        BY DEF KindsOk
      <4> QED BY <3>2, <3>3, <4>1, <4>2, KindOkKept
    <3> QED BY <3>4 DEF KindsOk
  <2>8. Sound(w, out)
    BY <1>1, <1>2, <2>6, <2>7 DEF Sound
  <2> QED BY <2>8 DEF out
<1> QED BY <1>3, <1>4

\* Resolving the models changes neither.
LEMMA ResolutionSound ==
    ASSUME NEW w, NEW ir, Sound(w, ir), Handed(ir), \A i \in DOMAIN ir.nodes : NodeOk(ir.nodes[i])
    PROVE  Sound(w, ModelResolutionPass(ir).ir)
<1> DEFINE node(i) == IF ir.nodes[i].kind \in ControlKinds \/ ir.nodes[i].model # Unset THEN ir.nodes[i]
                      ELSE [ir.nodes[i] EXCEPT !.model = DEFAULT_MODEL]
           nodes == [i \in DOMAIN ir.nodes |-> node(i)]
           out == ModelResolutionPass(ir).ir
<1>1. out.nodes = nodes /\ out.edges = ir.edges
  BY DEF ModelResolutionPass, Ok
<1>2. ASSUME NEW i \in DOMAIN ir.nodes
      PROVE  /\ node(i).id = ir.nodes[i].id /\ node(i).kind = ir.nodes[i].kind
             /\ node(i).max_iterations = ir.nodes[i].max_iterations
  <2> DEFINE n == ir.nodes[i]
  <2>1. n = IRNode(n.id, n.kind, n.strategy, n.size, n.list, n.model, n.capability, n.max_iterations)
    BY DEF NodeOk, IsNode
  <2> HIDE DEF n
  <2> DEFINE m == [n EXCEPT !.model = DEFAULT_MODEL]
  <2>2. m.id = n.id /\ m.kind = n.kind /\ m.max_iterations = n.max_iterations
    BY <2>1 DEF IRNode
  <2> HIDE DEF m
  <2> QED BY <2>2 DEF n, m
<1>3. DOMAIN nodes = DOMAIN ir.nodes /\ \A i \in DOMAIN nodes : nodes[i] = node(i)
  OBVIOUS
<1> HIDE DEF node
<1>4. Handed(out) /\ EdgesKnown(out)
  BY ResolutionHands DEF Sound
<1> HIDE DEF nodes, out
<1>5. Finite(out)
  BY <1>4 DEF Handed, Finite
<1>6. Ids(out) \subseteq Ids(ir)
  BY <1>1, <1>2, <1>3 DEF Ids
<1>7. ~Cyclic(out)
  BY <1>1, <1>6, FewerEdges DEF Sound
<1>8. ASSUME LoopsReturn(w) PROVE KindsOk(out)
  <2>1. IsFiniteSet(DOMAIN out.edges)
    BY <1>5, FiniteIds
  <2>2. ASSUME NEW i \in DOMAIN out.nodes PROVE KindOk(out, out.nodes[i])
    <3>1. KindOk(ir, ir.nodes[i])
      BY <1>1, <1>3, <1>8 DEF Sound, KindsOk
    <3> QED BY <1>1, <1>2, <1>3, <2>1, <3>1, KindOkKept
  <2> QED BY <2>2 DEF KindsOk
<1>9. Sound(w, out)
  BY <1>4, <1>5, <1>7, <1>8 DEF Sound
<1> QED BY <1>9 DEF out

\* A gate has nothing before it, so it closes no cycle; other nodes only gain edges.
LEMMA PolicySound ==
    ASSUME NEW w, NEW ir, Sound(w, ir), Handed(ir), NEW R \in SUBSET Rules,
           PolicyCompilerPass(ir, R).ok
    PROVE  Sound(w, PolicyCompilerPass(ir, R).ir)
<1> DEFINE effect(i) == evaluate_matching_rule(R, ir.nodes[i])
           I == {i \in DOMAIN ir.nodes : effect(i) = "approval" /\ ~Guarded(ir, ir.nodes[i].id)}
           new == Kept(ir.nodes, I)
           gates == [k \in DOMAIN new |-> ApprovalGate(new[k].id)]
           links == [k \in DOMAIN new |-> IREdge(GateOf(new[k].id), new[k].id, Unset)]
           out == PolicyCompilerPass(ir, R).ir
<1>1. out.nodes = ir.nodes \o gates /\ out.edges = ir.edges \o links
  <2>1. CASE \E i \in DOMAIN ir.nodes : effect(i) = "deny"
    BY <2>1 DEF PolicyCompilerPass, Err
  <2>2. CASE ~ \E i \in DOMAIN ir.nodes : effect(i) = "deny"
    BY <2>2 DEF PolicyCompilerPass, Ok
  <2> QED BY <2>1, <2>2
<1>2. EdgesKnown(out)
  BY PolicyPassEnforces DEF Sound
<1> HIDE DEF out, effect
<1>3. Sequence(ir.nodes) /\ Sequence(ir.edges)
      /\ \A i \in DOMAIN ir.nodes : ir.nodes[i].id \in 1 .. GateOf(0) - 1
  BY DEF Handed
<1>4. Sequence(new) /\ \A k \in DOMAIN new : \E i \in DOMAIN ir.nodes : new[k] = ir.nodes[i]
  <2>1. I \in SUBSET DOMAIN ir.nodes
    OBVIOUS
  <2> HIDE DEF I
  <2> QED BY <1>3, <2>1, KeptOf
<1> HIDE DEF new, I
<1>5. Sequence(gates) /\ Sequence(links)
  BY <1>4, MappedSequence
<1>6. DOMAIN gates = DOMAIN new /\ DOMAIN links = DOMAIN new
      /\ \A k \in DOMAIN new : /\ gates[k].id = GateOf(new[k].id) /\ gates[k].kind = "Gate"
                               /\ links[k].from = GateOf(new[k].id) /\ links[k].to = new[k].id
  BY DEF ApprovalGate, IRNode, IREdge
<1> HIDE DEF gates, links
<1>7. ASSUME NEW k \in DOMAIN new PROVE new[k].id \in Ids(ir) /\ GateOf(new[k].id) \notin Ids(ir)
  <2>1. new[k].id \in 1 .. GateOf(0) - 1 /\ new[k].id \in Ids(ir)
    BY <1>3, <1>4 DEF Ids
  <2>2. GateOf(0) = 100 /\ GateOf(new[k].id) = 100 + new[k].id
    BY DEF GateOf
  <2>3. \A n \in Ids(ir) : n \in 1 .. GateOf(0) - 1
    BY <1>3 DEF Ids
  <2> QED BY <2>1, <2>2, <2>3
<1>8. /\ Len(ir.nodes) \in Nat /\ DOMAIN ir.nodes = 1 .. Len(ir.nodes)
      /\ Len(gates) \in Nat /\ DOMAIN gates = 1 .. Len(gates)
      /\ DOMAIN out.nodes = 1 .. Len(ir.nodes) + Len(gates)
      /\ \A i \in 1 .. Len(ir.nodes) : out.nodes[i] = ir.nodes[i]
      /\ \A i \in 1 .. Len(gates) : out.nodes[Len(ir.nodes) + i] = gates[i]
  BY <1>1, <1>3, <1>5, ConcatSequence
<1>9. /\ Len(ir.edges) \in Nat /\ DOMAIN ir.edges = 1 .. Len(ir.edges)
      /\ Len(links) \in Nat /\ DOMAIN links = 1 .. Len(links)
      /\ DOMAIN out.edges = 1 .. Len(ir.edges) + Len(links)
      /\ \A i \in 1 .. Len(ir.edges) : out.edges[i] = ir.edges[i]
      /\ \A i \in 1 .. Len(links) : out.edges[Len(ir.edges) + i] = links[i]
  BY <1>1, <1>3, <1>5, ConcatSequence
<1>10. Finite(out)
  <2>1. Sequence(ir.nodes \o gates) /\ Sequence(ir.edges \o links)
    BY <1>3, <1>5, JoinedSequence
  <2> QED BY <1>1, <2>1 DEF Finite
<1>11. ASSUME NEW i \in DOMAIN out.edges
       PROVE  \/ i \in DOMAIN ir.edges /\ out.edges[i] = ir.edges[i]
              \/ out.edges[i].from \notin Ids(ir) /\ out.edges[i].to \in Ids(ir)
  <2>1. CASE i \in 1 .. Len(ir.edges)
    BY <1>9, <2>1
  <2>2. CASE i \notin 1 .. Len(ir.edges)
    <3>1. PICK k \in 1 .. Len(links) : i = Len(ir.edges) + k
      <4>1. i - Len(ir.edges) \in 1 .. Len(links) /\ i = Len(ir.edges) + (i - Len(ir.edges))
        BY <1>9, <2>2
      <4> QED BY <4>1
    <3>2. k \in DOMAIN new /\ out.edges[i] = links[k]
      BY <1>6, <1>9, <3>1
    <3>3. out.edges[i].from = GateOf(new[k].id) /\ out.edges[i].to = new[k].id
      BY <1>6, <3>2
    <3> QED BY <1>7, <3>2, <3>3
  <2> QED BY <2>1, <2>2
<1>12. ~Cyclic(out)
  <2> SUFFICES ASSUME Cyclic(out) PROVE FALSE
    OBVIOUS
  <2>1. PICK C : CycleIn(out, C)
    BY DEF Cyclic, CycleIn
  <2> DEFINE D == C \intersect Ids(ir)
  <2>2. ASSUME NEW n \in C
        PROVE  \E x \in Forward(out) : /\ out.edges[x].from = n /\ out.edges[x].to \in D
                                       /\ n \in D => x \in Forward(ir) /\ out.edges[x] = ir.edges[x]
    <3>1. PICK x \in Forward(out) : out.edges[x].from = n /\ out.edges[x].to \in C
      BY <2>1 DEF CycleIn
    <3>2. x \in DOMAIN out.edges
      BY DEF Forward
    <3>3. CASE x \in DOMAIN ir.edges /\ out.edges[x] = ir.edges[x]
      <4>1. out.edges[x].to \in Ids(ir)
        BY <3>3 DEF Sound, EdgesKnown
      <4>2. x \in Forward(ir)
        BY <3>3 DEF Forward
      <4> QED BY <3>1, <3>3, <4>1, <4>2
    <3>4. CASE out.edges[x].from \notin Ids(ir) /\ out.edges[x].to \in Ids(ir)
      BY <3>1, <3>4
    <3> QED BY <1>11, <3>2, <3>3, <3>4
  <2>3. D # {}
    BY <2>1, <2>2 DEF CycleIn
  <2>4. CycleIn(ir, D)
    <3>1. ASSUME NEW n \in D
          PROVE  \E x \in Forward(ir) : ir.edges[x].from = n /\ ir.edges[x].to \in D
      <4>1. PICK x \in Forward(out) :
               /\ out.edges[x].from = n /\ out.edges[x].to \in D
               /\ n \in D => x \in Forward(ir) /\ out.edges[x] = ir.edges[x]
        BY <2>2
      <4> QED BY <4>1
    <3> HIDE DEF D
    <3>2. D \in (SUBSET Ids(ir)) \ {{}}
      BY <2>3 DEF D
    <3> QED BY <3>1, <3>2 DEF CycleIn
  <2> QED BY <2>4 DEF Sound, Cyclic, CycleIn
<1>13. ASSUME LoopsReturn(w) PROVE KindsOk(out)
  <2>1. IsFiniteSet(DOMAIN out.edges)
    BY <1>10, FiniteIds
  <2>2. \A i \in DOMAIN ir.edges : i \in DOMAIN out.edges /\ out.edges[i] = ir.edges[i]
    BY <1>9
  <2>3. ASSUME NEW i \in DOMAIN out.nodes PROVE KindOk(out, out.nodes[i])
    <3>1. CASE i \in 1 .. Len(ir.nodes)
      <4>1. out.nodes[i] = ir.nodes[i] /\ KindOk(ir, ir.nodes[i])
        BY <1>8, <1>13, <3>1 DEF Sound, KindsOk
      <4> QED BY <2>1, <2>2, <4>1, KindOkKept
    <3>2. CASE i \notin 1 .. Len(ir.nodes)
      <4>1. PICK k \in 1 .. Len(gates) : i = Len(ir.nodes) + k
        <5>1. i - Len(ir.nodes) \in 1 .. Len(gates) /\ i = Len(ir.nodes) + (i - Len(ir.nodes))
          BY <1>8, <3>2
        <5> QED BY <5>1
      <4>2. out.nodes[i] = gates[k]
        BY <1>8, <4>1
      <4>3. k \in DOMAIN gates
        BY <1>8, <4>1
      <4>4. out.nodes[i].kind = "Gate"
        BY <1>6, <4>2, <4>3
      <4> QED BY <4>4 DEF KindOk
    <3> QED BY <3>1, <3>2
  <2> QED BY <2>3 DEF KindsOk
<1>14. Sound(w, out)
  BY <1>2, <1>10, <1>12, <1>13 DEF Sound
<1> QED BY <1>14 DEF out

\* What an accepted workflow was validated for holds of the graph it is lowered to,
\* and none is refused for a cycle it does not have.
LEMMA PassesSound ==
    ASSUME NEW w, IsWorkflow(w), NEW R \in SUBSET Rules, NEW b \in BOOLEAN
    PROVE  /\ RunPasses(w, R, b).ok => Sound(w, RunPasses(w, R, b).ir) /\ ~Cyclic(w)
           /\ ~RunPasses(w, R, b).ok /\ RunPasses(w, R, b).pass = "cycle" => Cyclic(w)
<1> DEFINE bounded   == ConstraintValidationPass(w)
           validated == Then(bounded, ControlFlowValidationPass(bounded.ir))
           lowered   == Then(validated, StrategyLoweringPass(validated.ir))
           live      == Then(lowered, DeadNodeEliminationPass(lowered.ir))
           resolved  == Then(live, ModelResolutionPass(live.ir))
           priced    == Then(resolved, BudgetOptimisationPass(resolved.ir, b))
           all       == IF R = {} THEN priced ELSE Then(priced, PolicyCompilerPass(priced.ir, R))
           Fair(result) == ~result.ok /\ result.pass = "cycle" => Cyclic(w)
<1>1. RunPasses(w, R, b) = all
  BY DEF RunPasses
<1>2. Handed(w) /\ Finite(w) /\ \A i \in DOMAIN w.nodes : NodeOk(w.nodes[i])
  BY WorkflowHanded DEF Handed, Finite
<1>3. (bounded.ok => bounded.ir = w) /\ Fair(bounded)
  BY DEF ConstraintValidationPass, Ok, Err
<1> HIDE DEF bounded
<1>4. /\ validated.ok => validated.ir = w /\ EdgesKnown(w) /\ KindsOk(w) /\ ~Cyclic(w)
      /\ Fair(validated)
  <2>1. CASE ~bounded.ok
    BY <1>3, <2>1 DEF Then
  <2>2. CASE bounded.ok
    <3>1. validated = ControlFlowValidationPass(w)
      BY <1>3, <2>2 DEF Then
    <3>2. CASE ~EdgesKnown(w) \/ ~KindsOk(w)
      BY <3>1, <3>2 DEF ControlFlowValidationPass, Ok, Err
    <3>3. CASE EdgesKnown(w) /\ KindsOk(w)
      <4>1. three_color_cycle_detect(w) <=> Cyclic(w)
        BY <1>2, <3>3, SearchIsExact
      <4> QED BY <3>1, <3>3, <4>1 DEF ControlFlowValidationPass, Ok, Err
    <3> QED BY <3>2, <3>3
  <2> QED BY <2>1, <2>2
<1> HIDE DEF validated
<1>5. /\ lowered.ok => lowered.ir = w /\ EdgesKnown(w) /\ KindsOk(w) /\ ~Cyclic(w)
      /\ Fair(lowered)
  BY <1>4 DEF StrategyLoweringPass, Then, Ok, Err
<1> HIDE DEF lowered
<1>6. /\ live.ok => /\ Sound(w, live.ir) /\ Handed(live.ir) /\ ~Cyclic(w)
                    /\ \A i \in DOMAIN live.ir.nodes : NodeOk(live.ir.nodes[i])
      /\ Fair(live)
  <2>1. CASE ~lowered.ok
    BY <1>5, <2>1 DEF Then
  <2>2. CASE lowered.ok
    <3>1. live = DeadNodeEliminationPass(w)
      BY <1>5, <2>2 DEF Then
    <3> HIDE DEF live
    <3> QED BY <1>2, <1>5, <2>2, <3>1, EliminationHands, EliminationSound
  <2> QED BY <2>1, <2>2
<1> HIDE DEF live
<1>7. (resolved.ok => Sound(w, resolved.ir) /\ Handed(resolved.ir) /\ ~Cyclic(w)) /\ Fair(resolved)
  <2>1. CASE ~live.ok
    BY <1>6, <2>1 DEF Then
  <2>2. CASE live.ok
    <3>1. resolved = ModelResolutionPass(live.ir)
      BY <2>2 DEF Then
    <3>2. EdgesKnown(live.ir)
      BY <1>6, <2>2 DEF Sound
    <3> HIDE DEF resolved
    <3> QED BY <1>6, <2>2, <3>1, <3>2, ResolutionHands, ResolutionSound
  <2> QED BY <2>1, <2>2
<1> HIDE DEF resolved
<1>8. (priced.ok => Sound(w, priced.ir) /\ Handed(priced.ir) /\ ~Cyclic(w)) /\ Fair(priced)
  BY <1>7 DEF BudgetOptimisationPass, Then, Ok, Err
<1> HIDE DEF priced
<1>9. (all.ok => Sound(w, all.ir) /\ ~Cyclic(w)) /\ Fair(all)
  <2>1. CASE R = {} \/ ~priced.ok
    BY <1>8, <2>1 DEF Then
  <2>2. CASE R # {} /\ priced.ok
    <3>1. all = PolicyCompilerPass(priced.ir, R)
      BY <2>2 DEF Then
    <3> HIDE DEF all
    <3>2. Fair(all)
      <4>1. PolicyCompilerPass(priced.ir, R).ok \/ PolicyCompilerPass(priced.ir, R).pass = "policy"
        BY DEF PolicyCompilerPass, Ok, Err
      <4> QED BY <3>1, <4>1
    <3> QED BY <1>8, <2>2, <3>1, <3>2, PolicySound
  <2> QED BY <2>1, <2>2
<1> HIDE DEF all
<1> QED BY <1>1, <1>9

LEMMA LoweringSound ==
    ASSUME NEW w, NEW ir, Sound(w, ir)
    PROVE  Sound(w, lower_to_graph(ir))
<1> DEFINE g == lower_to_graph(ir)
<1>1. g.nodes = ir.nodes /\ g.edges = ir.edges
  BY DEF lower_to_graph
<1> HIDE DEF g
<1>2. Ids(g) = Ids(ir) /\ Forward(g) = Forward(ir)
  BY <1>1 DEF Ids, Forward
<1>3. Finite(g) /\ EdgesKnown(g)
  BY <1>1, <1>2 DEF Sound, Finite, EdgesKnown
<1>4. ~Cyclic(g)
  BY <1>1, <1>2, FewerEdges DEF Sound
<1>5. LoopsReturn(w) => KindsOk(g)
  <2>1. \A n : Outgoing(g, n) = Outgoing(ir, n) /\ Incoming(g, n) = Incoming(ir, n)
    BY <1>1 DEF Outgoing, Incoming
  <2>2. \A node : KindOk(ir, node) <=> KindOk(g, node)
    BY <1>1, <2>1 DEF KindOk
  <2> QED BY <1>1, <2>2 DEF Sound, KindsOk
<1>6. Sound(w, g)
  BY <1>3, <1>4, <1>5 DEF Sound
<1> QED BY <1>6 DEF g

LEMMA NothingSound ==
    ASSUME NEW w
    PROVE  Sound(w, NoGraph)
<1>1. NoGraph.nodes = <<>> /\ NoGraph.edges = <<>>
  BY DEF NoGraph
<1>2. Ids(NoGraph) = {} /\ EdgesKnown(NoGraph) /\ KindsOk(NoGraph)
  BY <1>1 DEF Ids, EdgesKnown, KindsOk
<1>3. Finite(NoGraph)
  BY <1>1, EmptySequence DEF Finite
<1>4. ~Cyclic(NoGraph)
  BY <1>2 DEF Cyclic
<1> QED BY <1>2, <1>3, <1>4 DEF Sound

-----------------------------------------------------------------------------
(* The compiler over all executions. *)

SoundFor(e) ==
    /\ Sound(workflow[e], graph[e])
    /\ response[e] = "cycle" => Cyclic(workflow[e])
    /\ graph[e] # NoGraph => ~Cyclic(workflow[e])

SoundInv == PerExecution /\ \A e \in Execs : SoundFor(e)

LEMMA SoundStart == Init => SoundInv
<1> SUFFICES ASSUME Init PROVE SoundInv
  OBVIOUS
<1>1. PerExecution
  BY OutcomeStart DEF OutcomeInv
<1>2. ASSUME NEW e \in Execs PROVE SoundFor(e)
  BY NothingSound DEF Init, SoundFor
<1> QED BY <1>1, <1>2 DEF SoundInv

LEMMA CompileSound ==
    ASSUME SoundInv, PolicyInv, NEW e \in Execs, Compile(e)
    PROVE  SoundFor(e)'
<1>1. /\ pc[e] = "compile" /\ UNCHANGED workflow /\ IsWorkflow(workflow[e])
      /\ policy_ir[e] \in SUBSET Rules
  BY PlaneAssumption DEF Compile, PolicyInv, Bound
<1>2. PICK b \in BOOLEAN :
        LET result == RunPasses(workflow[e], policy_ir[e], b)
        IN  \/ /\ result.ok /\ UNCHANGED response
               /\ graph' = [graph EXCEPT ![e] = lower_to_graph(result.ir)]
            \/ ~result.ok /\ Answer(e, result.pass) /\ UNCHANGED graph
  BY DEF Compile
<1> DEFINE result == RunPasses(workflow[e], policy_ir[e], b)
           g == lower_to_graph(result.ir)
<1>3. CASE result.ok /\ UNCHANGED response /\ graph' = [graph EXCEPT ![e] = g]
  <2>1. Sound(workflow[e], g) /\ ~Cyclic(workflow[e])
    BY <1>1, <1>3, PassesSound, LoweringSound
  <2> HIDE DEF g, result
  <2>2. graph'[e] = g
    BY <1>3 DEF SoundInv, PerExecution
  <2> QED BY <1>1, <1>3, <2>1, <2>2 DEF SoundInv, SoundFor
<1>4. CASE ~result.ok /\ Answer(e, result.pass) /\ UNCHANGED graph
  <2>1. result.pass = "cycle" => Cyclic(workflow[e])
    BY <1>1, <1>4, PassesSound
  <2> HIDE DEF result
  <2>2. response'[e] = result.pass
    BY <1>4 DEF SoundInv, PerExecution, Answer
  <2> QED BY <1>1, <1>4, <2>1, <2>2 DEF SoundInv, SoundFor
<1> QED BY <1>2, <1>3, <1>4

LEMMA SoundStep ==
    ASSUME SoundInv, PolicyInv, [Next]_vars
    PROVE  SoundInv'
<1>1. ASSUME NEW e \in Execs, Submit(e) \/ SessionFails(e) \/ Works(e) \/ RunRefused(e) \/ ClientGone(e)
      PROVE  SoundInv'
  <2>1. PerExecution' /\ OthersKept(e)
    BY <1>1, OwnStep DEF SoundInv
  <2>2. UNCHANGED workflow
    BY <1>1 DEF Submit, SessionFails, Works, RunRefused, ClientGone, ReadPolicy, Compile, Run,
                ReportNodeFailed, ReportFailure, Replay, ReplayNode, Complete
  <2>3. ASSUME NEW f \in Execs, f # e PROVE SoundFor(f)'
    BY <2>1, <2>2, <2>3 DEF SoundInv, SoundFor, OthersKept
  <2>4. CASE Compile(e)
    BY <2>1, <2>3, <2>4, CompileSound DEF SoundInv
  <2>5. CASE ~Compile(e)
    <3>1. /\ UNCHANGED graph
          /\ \/ UNCHANGED response
             \/ \E what \in {"internal", "policy", "scheduling", "upstream", "ok", "dropped"} : Answer(e, what)
      BY <1>1, <2>5 DEF Submit, SessionFails, Works, RunRefused, ClientGone, ReadPolicy, Run,
                ReportNodeFailed, ReportFailure, Replay, ReplayNode, Complete
    <3>2. graph'[e] = graph[e] /\ (response'[e] = response[e] \/ response'[e] # "cycle")
      BY <3>1 DEF SoundInv, PerExecution, Answer
    <3>3. SoundFor(e)'
      BY <2>2, <3>2 DEF SoundInv, SoundFor
    <3> QED BY <2>1, <2>3, <3>3 DEF SoundInv
  <2> QED BY <2>4, <2>5
<1>2. CASE UNCHANGED <<workflow, exec>>
  BY <1>2 DEF SoundInv, SoundFor, PerExecution, exec
<1>3. ASSUME NEW r \in Rules, apply_policy(r) \/ remove_policy(r) PROVE UNCHANGED <<workflow, exec>>
  BY <1>3 DEF apply_policy, remove_policy
<1>4. ASSUME Listens \/ UNCHANGED vars \/ \E ev \in writing : WriteLands(ev) \/ WriteIsLost(ev)
      PROVE  UNCHANGED <<workflow, exec>>
  BY <1>4 DEF Listens, Lagged, Dispatch, WriteLands, WriteIsLost, vars, exec
<1> QED BY <1>1, <1>2, <1>3, <1>4 DEF Next, Writes

\* Every graph an execution holds has edges between its nodes only, no cycle of forward
\* edges and, if the loops return to entered nodes, the arities that were validated;
\* a workflow refused for a cycle has one (lib.rs:311, lib.rs:972).
THEOREM SoundInvariant == Spec => []SoundInv
<1>1. SoundInv /\ PolicyInv /\ [Next]_vars => SoundInv'
  BY SoundStep
<1> QED BY SoundStart, PolicyInvariant, <1>1, PTL DEF Spec

LEMMA SoundInvSuffices == SoundInv /\ PolicyInv => CompilerSound
<1> SUFFICES ASSUME SoundInv, PolicyInv PROVE CompilerSound
  OBVIOUS
<1>1. CyclesRejectedExactly
  BY DEF SoundInv, SoundFor, Sound, CyclesRejectedExactly
<1>2. CompiledWellFormed
  BY DEF SoundInv, SoundFor, Sound, LoopsReturn, CompiledWellFormed
<1>3. SubgraphsRun
  BY PolicyInvRuns
<1> QED BY <1>1, <1>2, <1>3 DEF CompilerSound

\* Whatever is submitted: the iterative depth-first search refuses exactly the
\* workflows with a cycle of forward edges (within the iterations the code can make:
\* each node pushed and popped once, each edge walked once), no compiled graph has
\* one, and edges, arities and subgraphs are as validated although nodes are removed
\* and gates inserted afterwards (lib.rs:311, lib.rs:972, lib.rs:1094).
THEOREM CompilerIsSound == Spec => []CompilerSound
BY SoundInvariant, PolicyInvariant, SoundInvSuffices, PTL

-----------------------------------------------------------------------------
(* topological_order.  What is done or ready is each there once; a node is *)
(* done or ready exactly when nothing undone feeds it; and each done node  *)
(* comes after all that feeds it.                                          *)

LEMMA MaxIsIn ==
    ASSUME NEW S \in SUBSET Nat, IsFiniteSet(S), S # {}
    PROVE  Max(S) \in S /\ \A y \in S : y <= Max(S)
<1>1. \E m \in S : \A y \in S : m >= y
  <2>1. PICK m \in S : \A y \in S : y <= m
    BY FiniteMax DEF HasMax
  <2> QED BY <2>1
<1>2. Max(S) \in S /\ \A y \in S : Max(S) >= y
  BY <1>1 DEF Max
<1> QED BY <1>2

LEMMA EndsIndexed ==
    ASSUME NEW g, Finite(g), EdgesKnown(g), NEW x \in DOMAIN g.edges
    PROVE  /\ Source(g, x) \in DOMAIN g.nodes /\ g.nodes[Source(g, x)].id = g.edges[x].from
           /\ Target(g, x) \in DOMAIN g.nodes /\ g.nodes[Target(g, x)].id = g.edges[x].to
<1>1. ASSUME NEW n \in Ids(g) PROVE IndexOf(g, n) \in DOMAIN g.nodes /\ g.nodes[IndexOf(g, n)].id = n
  <2> DEFINE S == {i \in DOMAIN g.nodes : g.nodes[i].id = n}
  <2>1. S \in SUBSET Nat /\ IsFiniteSet(S) /\ S # {}
    <3>1. DOMAIN g.nodes = 1 .. Len(g.nodes) /\ Len(g.nodes) \in Nat /\ IsFiniteSet(DOMAIN g.nodes)
      BY FiniteIds
    <3>2. S # {}
      BY DEF Ids
    <3>3. S \in SUBSET DOMAIN g.nodes
      OBVIOUS
    <3> HIDE DEF S
    <3> QED BY <3>1, <3>2, <3>3, FS_Subset
  <2>2. IndexOf(g, n) = Max(S)
    BY DEF IndexOf
  <2>3. Max(S) \in S
    <3> HIDE DEF S
    <3> QED BY <2>1, MaxIsIn
  <2> QED BY <2>2, <2>3
<1>2. g.edges[x].from \in Ids(g) /\ g.edges[x].to \in Ids(g)
  BY DEF EdgesKnown
<1> QED BY <1>1, <1>2 DEF Source, Target

OneToOne(s) == \A j, k \in 1 .. Len(s) : s[j] = s[k] => j = k
Among(s, j) == \E k \in 1 .. Len(s) : s[k] = j

\* The edges into a node from what is not done.
Waits(g, done, j) == {x \in DOMAIN g.edges : Target(g, x) = j /\ ~Among(done, Source(g, x))}
Served(g, done) ==
    \A b \in 1 .. Len(done) : \A x \in DOMAIN g.edges :
        Target(g, x) = done[b] => \E a \in 1 .. b - 1 : done[a] = Source(g, x)

Lined(g, done, ready, degree) ==
    /\ OneToOne(done) /\ OneToOne(ready)
    /\ \A j \in DOMAIN g.nodes : ~(Among(done, j) /\ Among(ready, j))
    /\ \A j \in DOMAIN g.nodes : degree[j] = Cardinality(Waits(g, done, j))
    /\ \A j \in DOMAIN g.nodes : Waits(g, done, j) = {} <=> Among(done, j) \/ Among(ready, j)
    /\ Served(g, done)

KahnStates(g) ==
    {st \in [degree : [DOMAIN g.nodes -> Nat], done : Seq(DOMAIN g.nodes), ready : Seq(DOMAIN g.nodes)] :
        Lined(g, st.done, st.ready, st.degree)}

LEMMA AppendAmong ==
    ASSUME NEW S, NEW s \in Seq(S), NEW i \in S
    PROVE  /\ Append(s, i) \in Seq(S) /\ Len(Append(s, i)) = Len(s) + 1 /\ Len(s) \in Nat
           /\ \A k \in 1 .. Len(s) : Append(s, i)[k] = s[k]
           /\ Append(s, i)[Len(s) + 1] = i
           /\ \A j : Among(Append(s, i), j) <=> Among(s, j) \/ j = i
           /\ OneToOne(s) /\ ~Among(s, i) => OneToOne(Append(s, i))
<1> DEFINE t == Append(s, i)
<1>1. /\ t \in Seq(S) /\ Len(t) = Len(s) + 1 /\ Len(s) \in Nat
      /\ (\A k \in 1 .. Len(s) : t[k] = s[k]) /\ t[Len(s) + 1] = i
  OBVIOUS
<1> HIDE DEF t
<1>2. \A k \in 1 .. Len(t) : k \in 1 .. Len(s) \/ k = Len(s) + 1
  BY <1>1
<1>3. ASSUME NEW j PROVE Among(t, j) <=> Among(s, j) \/ j = i
  <2>1. ASSUME Among(t, j) PROVE Among(s, j) \/ j = i
    BY <1>1, <1>2, <2>1 DEF Among
  <2>2. ASSUME Among(s, j) PROVE Among(t, j)
    BY <1>1, <2>2 DEF Among
  <2>3. ASSUME j = i PROVE Among(t, j)
    BY <1>1, <2>3 DEF Among
  <2> QED BY <2>1, <2>2, <2>3
<1>4. ASSUME OneToOne(s), ~Among(s, i) PROVE OneToOne(t)
  BY <1>1, <1>2, <1>4 DEF OneToOne, Among
<1> QED BY <1>1, <1>3, <1>4 DEF t

\* The edges out of a node, and those of them that enter another.
Out(g, i) == {x \in DOMAIN g.edges : Source(g, x) = i}
Between(g, i, j) == {x \in Out(g, i) : Target(g, x) = j}

LEMMA WaitsShrink ==
    ASSUME NEW g, Finite(g), NEW a \in Seq(DOMAIN g.nodes), NEW i \in DOMAIN g.nodes, ~Among(a, i),
           NEW j
    PROVE  /\ Waits(g, Append(a, i), j) = Waits(g, a, j) \ Between(g, i, j)
           /\ Between(g, i, j) \subseteq Waits(g, a, j)
           /\ Cardinality(Waits(g, a, j)) \in Nat /\ Cardinality(Waits(g, Append(a, i), j)) \in Nat
           /\ Cardinality(Waits(g, Append(a, i), j)) =
                Cardinality(Waits(g, a, j)) - Cardinality(Between(g, i, j))
           /\ IsFiniteSet(Waits(g, Append(a, i), j))
<1> DEFINE W == Waits(g, a, j)
           V == Waits(g, Append(a, i), j)
           B == Between(g, i, j)
<1>1. \A k : Among(Append(a, i), k) <=> Among(a, k) \/ k = i
  BY AppendAmong
<1>2. V = W \ B /\ B \subseteq W
  BY <1>1 DEF Waits, Between, Out
<1>3. IsFiniteSet(W)
  <2>1. W \in SUBSET DOMAIN g.edges
    BY DEF Waits
  <2> HIDE DEF W
  <2> QED BY <2>1, FiniteIds, FS_Subset
<1> HIDE DEF W, V, B
<1>4. IsFiniteSet(V) /\ Cardinality(V) = Cardinality(W) - Cardinality(W \cap B)
  BY <1>2, <1>3, FS_Difference
<1>5. W \cap B = B
  BY <1>2
<1>6. Cardinality(W) \in Nat /\ Cardinality(V) \in Nat
  BY <1>3, <1>4, FS_CardinalityType
<1> QED BY <1>2, <1>4, <1>5, <1>6 DEF W, V, B

LEMMA InOrderOnce ==
    ASSUME NEW I \in SUBSET Nat, IsFiniteSet(I)
    PROVE  /\ InOrder(I) \in Seq(I) /\ OneToOne(InOrder(I))
           /\ \A i : Among(InOrder(I), i) <=> i \in I
           /\ DOMAIN InOrder(I) = 1 .. Len(InOrder(I)) /\ Len(InOrder(I)) \in Nat
<1> DEFINE at == InOrder(I)
           n == Cardinality(I)
<1>1. \E b \in Bijection(1 .. Cardinality(I), I) : \A i, j \in DOMAIN b : i < j => b[i] < b[j]
  BY OrderExists DEF HasOrder, Increasing
<1>2. /\ at \in Bijection(1 .. n, I)
      /\ \A i, j \in DOMAIN at : i < j => at[i] < at[j]
  BY <1>1 DEF InOrder
<1>3. n \in Nat /\ at \in [1 .. n -> I] /\ \A i \in I : \E k \in 1 .. n : at[k] = i
  BY InOrderOf
<1> HIDE DEF at, n
<1>4. at \in Seq(I) /\ Len(at) = n /\ DOMAIN at = 1 .. n
  BY <1>3
<1>5. OneToOne(at)
  <2> SUFFICES ASSUME NEW j \in 1 .. n, NEW k \in 1 .. n, at[j] = at[k], j # k PROVE FALSE
    BY <1>4 DEF OneToOne
  <2>1. at[j] \in Nat /\ at[k] \in Nat
    BY <1>3
  <2>2. j < k \/ k < j
    BY <1>3
  <2>3. at[j] < at[k] \/ at[k] < at[j]
    BY <1>2, <1>4, <2>2
  <2> QED BY <2>1, <2>3
<1>6. \A i : Among(at, i) <=> i \in I
  BY <1>3, <1>4 DEF Among
<1> QED BY <1>3, <1>4, <1>5, <1>6 DEF at

\* What is pushed: the successors left without an edge, each once.
Pushed(g, out, degree) ==
    LET freed == InOrder(Freed(g, out, degree)) IN [k \in DOMAIN freed |-> Target(g, freed[k])]

LEMMA PushedOnce ==
    ASSUME NEW g, Finite(g), EdgesKnown(g), NEW out \in SUBSET DOMAIN g.edges,
           NEW degree \in [DOMAIN g.nodes -> Nat]
    PROVE  /\ Pushed(g, out, degree) \in Seq(DOMAIN g.nodes) /\ OneToOne(Pushed(g, out, degree))
           /\ \A j : Among(Pushed(g, out, degree), j) <=>
                        \E x \in out : Target(g, x) = j /\ degree[j] = 0
<1> DEFINE F == Freed(g, out, degree)
           at == InOrder(F)
           p == Pushed(g, out, degree)
           Last0(x) == \A y \in out : Target(g, y) = Target(g, x) => y =< x
<1>1. DOMAIN g.edges \in SUBSET Nat /\ IsFiniteSet(DOMAIN g.edges)
  BY FiniteIds
<1>2. F = {x \in out : degree[Target(g, x)] = 0 /\ Last0(x)}
  BY DEF Freed
<1>3. F \in SUBSET Nat /\ IsFiniteSet(F) /\ F \subseteq out
  <2>1. F \subseteq out
    BY <1>2
  <2> HIDE DEF F
  <2> QED BY <1>1, <2>1, FS_Subset
<1>4. p = [k \in DOMAIN at |-> Target(g, at[k])]
  BY DEF Pushed
<1> HIDE DEF F, p, Last0
<1>5. /\ at \in Seq(F) /\ OneToOne(at) /\ \A i : Among(at, i) <=> i \in F
      /\ DOMAIN at = 1 .. Len(at) /\ Len(at) \in Nat
  BY <1>3, InOrderOnce
<1> HIDE DEF at
<1>6. ASSUME NEW k \in 1 .. Len(at) PROVE at[k] \in F /\ at[k] \in DOMAIN g.edges /\ Target(g, at[k]) \in DOMAIN g.nodes
  <2>1. at[k] \in F
    BY <1>5
  <2>2. at[k] \in DOMAIN g.edges
    BY <1>3, <2>1
  <2>3. Target(g, at[k]) \in DOMAIN g.nodes
    BY <2>2, EndsIndexed
  <2> QED BY <2>1, <2>2, <2>3
<1>7. p \in Seq(DOMAIN g.nodes) /\ Len(p) = Len(at) /\ \A k \in 1 .. Len(at) : p[k] = Target(g, at[k])
  <2> DEFINE n == Len(at)
             t(k) == Target(g, at[k])
  <2>1. n \in Nat /\ p = [k \in 1 .. n |-> t(k)] /\ \A k \in 1 .. n : t(k) \in DOMAIN g.nodes
    BY <1>4, <1>5, <1>6
  <2> HIDE DEF n, t
  <2>2. p \in Seq(DOMAIN g.nodes) /\ Len(p) = n /\ \A k \in 1 .. n : p[k] = t(k)
    BY <2>1
  <2> QED BY <2>2 DEF n, t
<1>8. OneToOne(p)
  <2> SUFFICES ASSUME NEW j \in 1 .. Len(at), NEW k \in 1 .. Len(at), p[j] = p[k] PROVE j = k
    BY <1>7 DEF OneToOne
  <2>1. Target(g, at[j]) = Target(g, at[k])
    BY <1>7
  <2>2. at[j] \in out /\ at[k] \in out /\ Last0(at[j]) /\ Last0(at[k])
    BY <1>2, <1>6
  <2>3. at[j] \in Nat /\ at[k] \in Nat /\ at[j] =< at[k] /\ at[k] =< at[j]
    BY <1>1, <2>1, <2>2 DEF Last0
  <2>4. at[j] = at[k]
    BY <2>3
  <2> QED BY <1>5, <2>4 DEF OneToOne
<1>9. ASSUME NEW j, Among(p, j) PROVE \E x \in out : Target(g, x) = j /\ degree[j] = 0
  <2>1. PICK k \in 1 .. Len(at) : p[k] = j
    BY <1>7, <1>9 DEF Among
  <2> QED BY <1>2, <1>6, <1>7, <2>1
<1>10. ASSUME NEW j, NEW x \in out, Target(g, x) = j, degree[j] = 0 PROVE Among(p, j)
  <2> DEFINE S == {y \in out : Target(g, y) = j}
  <2>1. S \in SUBSET Nat /\ IsFiniteSet(S) /\ S # {}
    <3>1. S \in SUBSET DOMAIN g.edges /\ x \in S
      BY <1>10
    <3> HIDE DEF S
    <3> QED BY <1>1, <3>1, FS_Subset
  <2>2. PICK m \in S : \A y \in S : y <= m
    <3> HIDE DEF S
    <3> QED BY <2>1, FiniteMax DEF HasMax
  <2>3. m \in F
    BY <1>2, <1>10, <2>2 DEF Last0
  <2>4. PICK k \in 1 .. Len(at) : at[k] = m
    BY <1>5, <2>3 DEF Among
  <2> QED BY <1>7, <2>2, <2>4 DEF Among
<1> QED BY <1>7, <1>8, <1>9, <1>10 DEF p

\* A sequence without its last element, and another after it.
LEMMA JoinedOnce ==
    ASSUME NEW S, NEW r \in Seq(S), r # <<>>, NEW p \in Seq(S)
    PROVE  /\ Front(r) \o p \in Seq(S)
           /\ \A j : Among(Front(r) \o p, j) <=> (\E k \in 1 .. Len(r) - 1 : r[k] = j) \/ Among(p, j)
           /\ (/\ OneToOne(r) /\ OneToOne(p)
               /\ \A j : ~(Among(r, j) /\ Among(p, j))) => OneToOne(Front(r) \o p)
<1> DEFINE f == Front(r)
           q == f \o p
           n == Len(r) - 1
<1>1. f \in Seq(S) /\ Len(f) = n /\ n \in Nat /\ (\A k \in 1 .. n : f[k] = r[k]) /\ n <= Len(r) /\ Len(r) \in Nat
  BY TopAndRest
<1> HIDE DEF f, n
<1>2. /\ q \in Seq(S) /\ Len(q) = n + Len(p) /\ Len(p) \in Nat
      /\ (\A k \in 1 .. n : q[k] = r[k]) /\ \A k \in 1 .. Len(p) : q[n + k] = p[k]
  BY <1>1
<1> HIDE DEF q
<1>3. ASSUME NEW k \in 1 .. Len(q)
      PROVE  \/ k \in 1 .. n /\ q[k] = r[k]
             \/ k - n \in 1 .. Len(p) /\ q[k] = p[k - n] /\ k \notin 1 .. n
  <2>1. CASE k \in 1 .. n
    BY <1>2, <2>1
  <2>2. CASE k \notin 1 .. n
    <3>1. k - n \in 1 .. Len(p) /\ k = n + (k - n)
      BY <1>1, <1>2, <2>2
    <3> QED BY <1>2, <2>2, <3>1
  <2> QED BY <2>1, <2>2
<1>4. ASSUME NEW j PROVE Among(q, j) <=> (\E k \in 1 .. n : r[k] = j) \/ Among(p, j)
  <2>1. ASSUME Among(q, j) PROVE (\E k \in 1 .. n : r[k] = j) \/ Among(p, j)
    BY <1>3, <2>1 DEF Among
  <2>2. ASSUME NEW k \in 1 .. n, r[k] = j PROVE Among(q, j)
    <3>1. k \in 1 .. Len(q) /\ q[k] = j
      BY <1>1, <1>2, <2>2
    <3> QED BY <3>1 DEF Among
  <2>3. ASSUME NEW k \in 1 .. Len(p), p[k] = j PROVE Among(q, j)
    <3>1. n + k \in 1 .. Len(q) /\ q[n + k] = j
      BY <1>1, <1>2, <2>3
    <3> QED BY <3>1 DEF Among
  <2> QED BY <2>1, <2>2, <2>3 DEF Among
<1>5. ASSUME OneToOne(r), OneToOne(p), \A j : ~(Among(r, j) /\ Among(p, j)),
             NEW k \in 1 .. Len(q), NEW l \in 1 .. Len(q), q[k] = q[l]
      PROVE  k = l
  <2>0. \A m \in 1 .. n : m \in 1 .. Len(r) /\ Among(r, r[m])
    BY <1>1 DEF Among
  <2>1. CASE k \in 1 .. n /\ l \in 1 .. n
    BY <1>2, <1>5, <2>0, <2>1 DEF OneToOne
  <2>2. CASE k \in 1 .. n /\ l \notin 1 .. n
    <3>1. l - n \in 1 .. Len(p) /\ q[l] = p[l - n] /\ q[k] = r[k]
      BY <1>3, <2>2
    <3>2. Among(p, q[l]) /\ Among(r, q[k])
      BY <2>0, <2>2, <3>1 DEF Among
    <3> QED BY <1>5, <3>2
  <2>3. CASE k \notin 1 .. n /\ l \in 1 .. n
    <3>1. k - n \in 1 .. Len(p) /\ q[k] = p[k - n] /\ q[l] = r[l]
      BY <1>3, <2>3
    <3>2. Among(p, q[k]) /\ Among(r, q[l])
      BY <2>0, <2>3, <3>1 DEF Among
    <3> QED BY <1>5, <3>2
  <2>4. CASE k \notin 1 .. n /\ l \notin 1 .. n
    <3>1. k - n \in 1 .. Len(p) /\ l - n \in 1 .. Len(p) /\ p[k - n] = p[l - n]
      BY <1>3, <1>5, <2>4
    <3>2. k - n = l - n
      BY <1>5, <3>1 DEF OneToOne
    <3> QED BY <1>1, <3>2
  <2> QED BY <2>1, <2>2, <2>3, <2>4
<1>6. (OneToOne(r) /\ OneToOne(p) /\ \A j : ~(Among(r, j) /\ Among(p, j))) => OneToOne(q)
  BY <1>5 DEF OneToOne
<1> QED BY <1>2, <1>4, <1>6 DEF q, f, n
\* Popping a node keeps the line.
LEMMA PopLines ==
    ASSUME NEW g, Finite(g), EdgesKnown(g), NEW a \in Seq(DOMAIN g.nodes), NEW r \in Seq(DOMAIN g.nodes),
           NEW c \in [DOMAIN g.nodes -> Nat], Lined(g, a, r, c), r # <<>>,
           NEW d \in [DOMAIN g.nodes -> Nat],
           \A j \in DOMAIN g.nodes : d[j] = Cardinality(Waits(g, Append(a, Last(r)), j))
    PROVE  Lined(g, Append(a, Last(r)), Front(r) \o Pushed(g, Out(g, Last(r)), d), d)
<1> DEFINE D == DOMAIN g.nodes
           i == Last(r)
           b == Append(a, i)
           p == Pushed(g, Out(g, i), d)
           q == Front(r) \o p
<1>1. i \in D /\ Len(r) \in Nat \ {0} /\ i = r[Len(r)]
  BY TopAndRest
<1>2. Among(r, i) /\ ~Among(a, i) /\ Waits(g, a, i) = {}
  <2>1. Among(r, i)
    BY <1>1 DEF Among
  <2> QED BY <1>1, <2>1 DEF Lined
<1> HIDE DEF i
<1>3. /\ b \in Seq(D) /\ Len(b) = Len(a) + 1 /\ Len(a) \in Nat
      /\ (\A k \in 1 .. Len(a) : b[k] = a[k]) /\ b[Len(a) + 1] = i
      /\ (\A j : Among(b, j) <=> Among(a, j) \/ j = i) /\ OneToOne(b)
  <2>1. OneToOne(a)
    BY DEF Lined
  <2> HIDE DEF D
  <2>2. a \in Seq(D) /\ i \in D
    BY <1>1 DEF D
  <2> HIDE DEF b
  <2>3. /\ b \in Seq(D) /\ Len(b) = Len(a) + 1 /\ Len(a) \in Nat
        /\ (\A k \in 1 .. Len(a) : b[k] = a[k]) /\ b[Len(a) + 1] = i
    BY <2>2 DEF b
  <2>4. ASSUME NEW j PROVE Among(b, j) <=> Among(a, j) \/ j = i
    BY <2>2, AppendAmong DEF b
  <2>5. OneToOne(b)
    BY <1>2, <2>1, <2>2, AppendAmong DEF b
  <2> QED BY <2>3, <2>4, <2>5
<1>4. ASSUME NEW j
      PROVE  /\ Waits(g, b, j) = Waits(g, a, j) \ Between(g, i, j)
             /\ Between(g, i, j) \subseteq Waits(g, a, j) /\ IsFiniteSet(Waits(g, b, j))
  BY <1>1, <1>2, WaitsShrink
<1>5. ASSUME NEW j \in D PROVE d[j] = Cardinality(Waits(g, b, j)) /\ (d[j] = 0 <=> Waits(g, b, j) = {})
  <2>1. d[j] = Cardinality(Waits(g, b, j))
    BY DEF i
  <2>2. Cardinality(Waits(g, b, j)) = 0 <=> Waits(g, b, j) = {}
    BY <1>4, FS_EmptySet
  <2> QED BY <2>1, <2>2
<1> HIDE DEF b
<1>6. /\ p \in Seq(D) /\ OneToOne(p)
      /\ \A j : Among(p, j) <=> \E x \in Out(g, i) : Target(g, x) = j /\ d[j] = 0
  <2>1. Out(g, i) \in SUBSET DOMAIN g.edges
    BY DEF Out
  <2> QED BY <2>1, PushedOnce
<1> HIDE DEF p
<1>7. ASSUME NEW j PROVE Among(p, j) <=> (j \in D /\ Between(g, i, j) # {} /\ Waits(g, b, j) = {})
  <2>1. ASSUME NEW x \in Out(g, i) PROVE Target(g, x) \in D
    BY EndsIndexed DEF Out
  <2>2. Among(p, j) <=> (j \in D /\ Between(g, i, j) # {} /\ d[j] = 0)
    BY <1>6, <2>1 DEF Between
  <2> QED BY <1>5, <2>2
<1>8. ASSUME NEW j PROVE ~(Among(r, j) /\ Among(p, j)) /\ ~(Among(a, j) /\ Among(p, j))
  <2> SUFFICES ASSUME Among(p, j) PROVE ~Among(r, j) /\ ~Among(a, j)
    OBVIOUS
  <2>1. j \in D /\ Waits(g, a, j) # {}
    BY <1>4, <1>7
  <2> QED BY <2>1 DEF Lined
<1>9. /\ q \in Seq(D) /\ OneToOne(q)
      /\ \A j : Among(q, j) <=> (\E k \in 1 .. Len(r) - 1 : r[k] = j) \/ Among(p, j)
  <2>1. OneToOne(r)
    BY DEF Lined
  <2> QED BY <1>6, <1>8, <2>1, JoinedOnce
<1> HIDE DEF q
<1>10. ASSUME NEW j PROVE (\E k \in 1 .. Len(r) - 1 : r[k] = j) <=> (Among(r, j) /\ j # i)
  <2>1. ASSUME NEW k \in 1 .. Len(r) - 1, r[k] = j PROVE Among(r, j) /\ j # i
    <3>1. k \in 1 .. Len(r) /\ Len(r) \in 1 .. Len(r) /\ k # Len(r)
      BY <1>1
    <3>2. Among(r, j)
      BY <2>1, <3>1 DEF Among
    <3>3. j # i
      BY <1>1, <2>1, <3>1 DEF Lined, OneToOne
    <3> QED BY <3>2, <3>3
  <2>2. ASSUME Among(r, j), j # i PROVE \E k \in 1 .. Len(r) - 1 : r[k] = j
    <3>1. PICK k \in 1 .. Len(r) : r[k] = j
      BY <2>2 DEF Among
    <3>2. k # Len(r)
      BY <1>1, <2>2, <3>1
    <3> QED BY <1>1, <3>1, <3>2
  <2> QED BY <2>1, <2>2
<1>11. ASSUME NEW j \in D PROVE ~(Among(b, j) /\ Among(q, j))
  <2> SUFFICES ASSUME Among(b, j), Among(q, j) PROVE FALSE
    OBVIOUS
  <2>1. CASE Among(p, j)
    <3>1. ~Among(a, j) /\ ~Among(r, j)
      BY <1>8, <2>1
    <3> QED BY <1>2, <1>3, <3>1
  <2>2. CASE Among(r, j) /\ j # i
    BY <1>3, <2>2 DEF Lined
  <2> QED BY <1>9, <1>10, <2>1, <2>2
<1>12. ASSUME NEW j \in D PROVE Waits(g, b, j) = {} <=> Among(b, j) \/ Among(q, j)
  <2>1. Among(b, j) \/ Among(q, j) <=> Among(a, j) \/ Among(r, j) \/ Among(p, j)
    BY <1>2, <1>3, <1>9, <1>10
  <2>2. Waits(g, a, j) = {} <=> Among(a, j) \/ Among(r, j)
    BY DEF Lined
  <2>3. CASE Waits(g, a, j) = {}
    BY <1>4, <2>1, <2>2, <2>3
  <2>4. CASE Waits(g, a, j) # {}
    BY <1>4, <1>7, <2>1, <2>2, <2>4
  <2> QED BY <2>3, <2>4
<1>13. Served(g, b)
  <2> SUFFICES ASSUME NEW l \in 1 .. Len(b), NEW x \in DOMAIN g.edges, Target(g, x) = b[l]
               PROVE  \E k \in 1 .. l - 1 : b[k] = Source(g, x)
    BY DEF Served
  <2>1. CASE l \in 1 .. Len(a)
    <3>1. Target(g, x) = a[l]
      BY <1>3, <2>1
    <3>2. PICK k \in 1 .. l - 1 : a[k] = Source(g, x)
      BY <2>1, <3>1 DEF Lined, Served
    <3>3. k \in 1 .. Len(a)
      BY <1>3, <2>1
    <3> QED BY <1>3, <3>2, <3>3
  <2>2. CASE l = Len(a) + 1
    <3>1. Target(g, x) = i
      BY <1>3, <2>2
    <3>2. Among(a, Source(g, x))
      BY <1>2, <3>1 DEF Waits
    <3>3. PICK k \in 1 .. Len(a) : a[k] = Source(g, x)
      BY <3>2 DEF Among
    <3>4. k \in 1 .. l - 1 /\ b[k] = Source(g, x)
      BY <1>3, <2>2, <3>3
    <3> QED BY <3>4
  <2>3. l \in 1 .. Len(a) \/ l = Len(a) + 1
    <3>1. Len(b) = Len(a) + 1 /\ Len(a) \in Nat
      BY <1>3
    <3> QED BY <3>1
  <2> QED BY <2>1, <2>2, <2>3
<1>14. Lined(g, b, q, d)
  BY <1>3, <1>5, <1>9, <1>11, <1>12, <1>13 DEF Lined
<1> QED BY <1>14 DEF b, q, p, i

\* An iteration keeps the line and pops a node unless none is ready.
Popped(g, st, new) ==
    /\ new \in KahnStates(g)
    /\ st.ready = <<>> => new = st
    /\ st.ready # <<>> => Len(new.done) = Len(st.done) + 1

LEMMA Pops ==
    ASSUME NEW g, Finite(g), EdgesKnown(g), NEW st \in KahnStates(g)
    PROVE  Popped(g, st, PopReady(g, st))
<1> DEFINE new == PopReady(g, st)
<1>1. CASE st.ready = <<>>
  <2>1. new = st
    BY <1>1 DEF PopReady
  <2> QED BY <1>1, <2>1 DEF Popped
<1>2. CASE st.ready # <<>>
  <2> DEFINE D == DOMAIN g.nodes
             a == st.done
             r == st.ready
             c == st.degree
             i == Last(r)
             d == [j \in D |-> c[j] - Cardinality(Between(g, i, j))]
             p == Pushed(g, Out(g, i), d)
  <2>1. a \in Seq(D) /\ r \in Seq(D) /\ c \in [D -> Nat] /\ Lined(g, a, r, c) /\ r # <<>>
    BY <1>2 DEF KahnStates
  <2>2. new = [degree |-> d, done |-> Append(a, i), ready |-> Front(r) \o p]
    BY <1>2 DEF PopReady, Pushed, Out, Between
  <2> HIDE DEF a, r, c, new
  <2>3. i \in D /\ ~Among(a, i)
    <3>1. i \in D /\ Len(r) \in Nat \ {0} /\ i = r[Len(r)]
      BY <2>1, TopAndRest
    <3>2. Among(r, i)
      BY <3>1 DEF Among
    <3> QED BY <2>1, <3>1, <3>2 DEF Lined
  <2>4. ASSUME NEW j \in D
        PROVE  d[j] = Cardinality(Waits(g, Append(a, i), j)) /\ d[j] \in Nat
    <3>1. c[j] = Cardinality(Waits(g, a, j))
      BY <2>1 DEF Lined
    <3>2. /\ Cardinality(Waits(g, Append(a, i), j)) = Cardinality(Waits(g, a, j)) - Cardinality(Between(g, i, j))
          /\ Cardinality(Waits(g, Append(a, i), j)) \in Nat
      <4> HIDE DEF i
      <4> QED BY <2>1, <2>3, WaitsShrink
    <3> QED BY <3>1, <3>2
  <2>5. d \in [D -> Nat]
    BY <2>4
  <2> HIDE DEF d
  <2>6. Lined(g, Append(a, i), Front(r) \o p, d)
    BY <2>1, <2>4, <2>5, PopLines
  <2> HIDE DEF i
  <2>7. p \in Seq(D)
    <3>1. Out(g, i) \in SUBSET DOMAIN g.edges
      BY DEF Out
    <3> QED BY <2>5, <3>1, PushedOnce
  <2> HIDE DEF p
  <2>8. Append(a, i) \in Seq(D) /\ Len(Append(a, i)) = Len(a) + 1
    BY <2>1, <2>3
  <2>9. Front(r) \o p \in Seq(D)
    BY <2>1, <2>7, JoinedOnce
  <2> DEFINE b == Append(a, i)
             q == Front(r) \o p
  <2> HIDE DEF b, q
  <2>10. new = [degree |-> d, done |-> b, ready |-> q] /\ b \in Seq(D) /\ q \in Seq(D) /\ Lined(g, b, q, d)
    BY <2>2, <2>6, <2>8, <2>9 DEF b, q
  <2>11. new \in KahnStates(g) /\ new.done = b
    BY <2>5, <2>10 DEF KahnStates
  <2>12. Len(new.done) = Len(st.done) + 1
    BY <2>8, <2>11 DEF a, b
  <2>13. Popped(g, st, new)
    BY <1>2, <2>11, <2>12 DEF Popped
  <2> QED BY <2>13 DEF new
<1> QED BY <1>1, <1>2

\* Before the first iteration nothing is done and the nodes without edges are ready.
FirstLine(g) ==
    LET degree == [j \in DOMAIN g.nodes |-> Indegree(g, j)]
    IN  [degree |-> degree, done |-> <<>>, ready |-> InOrder({j \in DOMAIN g.nodes : degree[j] = 0})]

LEMMA StartLines ==
    ASSUME NEW g, Finite(g), EdgesKnown(g)
    PROVE  FirstLine(g) \in KahnStates(g) /\ Len(FirstLine(g).done) = 0
<1> DEFINE D == DOMAIN g.nodes
           c == [j \in D |-> Indegree(g, j)]
           I == {j \in D : c[j] = 0}
           r == InOrder(I)
           first == FirstLine(g)
<1>1. first = [degree |-> c, done |-> <<>>, ready |-> r]
  BY DEF FirstLine
<1>2. ASSUME NEW j \in D
      PROVE  /\ c[j] = Cardinality(Waits(g, <<>>, j)) /\ c[j] \in Nat
             /\ c[j] = 0 <=> Waits(g, <<>>, j) = {}
  <2>1. Waits(g, <<>>, j) = {x \in DOMAIN g.edges : Target(g, x) = j}
    BY DEF Waits, Among
  <2>2. c[j] = Cardinality(Waits(g, <<>>, j))
    BY <2>1 DEF Indegree
  <2>3. IsFiniteSet(Waits(g, <<>>, j))
    <3>1. Waits(g, <<>>, j) \in SUBSET DOMAIN g.edges
      BY DEF Waits
    <3> QED BY <3>1, FiniteIds, FS_Subset
  <2>4. Cardinality(Waits(g, <<>>, j)) \in Nat
        /\ (Cardinality(Waits(g, <<>>, j)) = 0 <=> Waits(g, <<>>, j) = {})
    BY <2>3, FS_CardinalityType, FS_EmptySet
  <2> QED BY <2>2, <2>4
<1>3. c \in [D -> Nat]
  BY <1>2
<1> HIDE DEF c
<1>4. I \in SUBSET Nat /\ IsFiniteSet(I) /\ I \subseteq D
  <2>1. I \subseteq D
    OBVIOUS
  <2> HIDE DEF I
  <2> QED BY <2>1, FiniteIds, FS_Subset
<1>5. \A j \in D : j \in I <=> c[j] = 0
  OBVIOUS
<1> HIDE DEF I, first
<1>6. r \in Seq(I) /\ OneToOne(r) /\ \A j : Among(r, j) <=> j \in I
  BY <1>4, InOrderOnce
<1> HIDE DEF r
<1>7. r \in Seq(D)
  BY <1>4, <1>6
<1>8. \A j : ~Among(<<>>, j)
  BY DEF Among
<1>9. OneToOne(<<>>) /\ Served(g, <<>>)
  BY DEF OneToOne, Served
<1>10. Lined(g, <<>>, r, c)
  BY <1>2, <1>5, <1>6, <1>8, <1>9 DEF Lined
<1>11. <<>> \in Seq(D) /\ Len(<<>>) = 0
  OBVIOUS
<1> DEFINE none == <<>>
<1> HIDE DEF none, D
<1>12. none \in Seq(D) /\ Lined(g, none, r, c) /\ first = [degree |-> c, done |-> none, ready |-> r]
  BY <1>1, <1>10, <1>11 DEF none
<1>13. first \in KahnStates(g) /\ first.done = none
  BY <1>3, <1>7, <1>12 DEF KahnStates, D
<1> QED BY <1>11, <1>13 DEF first, none

\* An order of all the nodes, each once.
Permutes(g, T) ==
    /\ T \in Seq(DOMAIN g.nodes) /\ Len(T) = Len(g.nodes) /\ OneToOne(T)
    /\ \A j \in DOMAIN g.nodes : Among(T, j)

LEMMA FullLine ==
    ASSUME NEW g, Finite(g), NEW T \in Seq(DOMAIN g.nodes), OneToOne(T)
    PROVE  (\A j \in DOMAIN g.nodes : Among(T, j)) <=> Len(T) = Len(g.nodes)
<1> DEFINE n == Len(T)
           D == DOMAIN g.nodes
<1>1. n \in Nat /\ T \in [1 .. n -> D] /\ \A j, k \in 1 .. n : T[j] = T[k] => j = k
  BY DEF OneToOne
<1>2. T \in Injection(1 .. n, D)
  <2> HIDE DEF n, D
  <2> QED BY <1>1, Fun_IsInj
<1>3. IsFiniteSet(D) /\ Cardinality(D) = Len(g.nodes)
  BY FiniteIds
<1>4. Cardinality(1 .. n) = n
  <2> SUFFICES ASSUME NEW k \in Nat PROVE Cardinality(1 .. k) = k
    BY <1>1
  <2> QED BY FS_Interval
<1>5. n = Cardinality(D) <=> T \in Surjection(1 .. n, D)
  <2> HIDE DEF n, D
  <2>1. Cardinality(1 .. n) = Cardinality(D) <=> T \in Surjection(1 .. n, D)
    BY <1>2, <1>3, FS_Injection
  <2> QED BY <1>4, <2>1
<1>6. T \in Surjection(1 .. n, D) <=> \A j \in D : \E k \in 1 .. n : T[k] = j
  <2> HIDE DEF n, D
  <2>1. ASSUME T \in Surjection(1 .. n, D) PROVE \A j \in D : \E k \in 1 .. n : T[k] = j
    BY <2>1 DEF Surjection
  <2>2. ASSUME \A j \in D : \E k \in 1 .. n : T[k] = j PROVE T \in Surjection(1 .. n, D)
    BY <1>1, <2>2, Fun_IsSurj
  <2> QED BY <2>1, <2>2
<1> QED BY <1>3, <1>5, <1>6 DEF Among

\* The order found is one of all the nodes, and without cycles or loops each node
\* comes after all that feeds it: if nothing is ready before all is done, what is
\* left waits for itself.
Respects(g, T) ==
    \A x \in DOMAIN g.edges : \A b \in 1 .. Len(T) :
        T[b] = Target(g, x) => \E a \in 1 .. b - 1 : T[a] = Source(g, x)

LEMMA OrderFound ==
    ASSUME NEW g, Finite(g), EdgesKnown(g)
    PROVE  /\ Permutes(g, topological_order(g))
           /\ ~Cyclic(g) /\ Forward(g) = DOMAIN g.edges => Respects(g, topological_order(g))
<1> DEFINE N == Len(g.nodes)
           D == DOMAIN g.nodes
           S == KahnStates(g)
           start == FirstLine(g)
           Follows(f) == f = [n \in 0 .. N |-> IF n = 0 THEN start ELSE PopReady(g, f[n - 1])]
           pops == CHOOSE f : Follows(f)
           T == topological_order(g)
           done == pops[N].done
<1>1. T = IF Len(done) = N THEN done ELSE [i \in D |-> i]
  BY DEF topological_order, FirstLine
<1>2. start \in S /\ Len(start.done) = 0 /\ N \in Nat
  BY StartLines, FiniteIds
<1> HIDE DEF N, S, start
<1>3. Follows(pops)
  <2> DEFINE step == [d \in S |-> PopReady(g, d)]
  <2>1. step \in [S -> S]
    <3>1. ASSUME NEW d \in S PROVE PopReady(g, d) \in S
      <4>1. Popped(g, d, PopReady(g, d))
        BY Pops DEF S
      <4> QED BY <4>1 DEF Popped, S
    <3> QED BY <3>1
  <2>2. PICK f : Iterates(f, N, S, start, step)
    <3> HIDE DEF step
    <3>1. \E f : Iterates(f, N, S, start, step)
      BY <1>2, <2>1, IterationExists
    <3> QED BY <3>1
  <2>3. ASSUME NEW n \in 1 .. N PROVE n - 1 \in 0 .. N /\ f[n] = PopReady(g, f[n - 1])
    <3>1. n - 1 \in 0 .. N
      BY <1>2
    <3>2. f[n - 1] \in S /\ f[n] = step[f[n - 1]]
      <4> HIDE DEF step
      <4> QED BY <2>2, <3>1 DEF Iterates
    <3> QED BY <3>1, <3>2
  <2>4. \A k \in 0 .. N : f[k] = IF k = 0 THEN start ELSE PopReady(g, f[k - 1])
    <3>1. f[0] = start
      BY <2>2 DEF Iterates
    <3>2. \A k \in 0 .. N : k # 0 => k \in 1 .. N
      BY <1>2
    <3> QED BY <2>3, <3>1, <3>2
  <2>5. Follows(f)
    BY <2>2, <2>4 DEF Iterates
  <2> HIDE DEF Follows
  <2> QED BY <2>5
<1> HIDE DEF pops, T
<1>4. pops[0] = start /\ \A n \in 1 .. N : pops[n] = PopReady(g, pops[n - 1])
  <2>1. 0 \in 0 .. N /\ \A n \in 1 .. N : n \in 0 .. N /\ n # 0
    BY <1>2
  <2> QED BY <1>3, <2>1
<1> DEFINE Good(n) == pops[n] \in S /\ (pops[n].ready = <<>> \/ Len(pops[n].done) = n)
           G == {n \in 0 .. N : Good(n)}
<1>5. 0 \in G
  BY <1>2, <1>4
<1>6. ASSUME NEW n \in 1 .. N, n - 1 \in G PROVE n \in G
  <2> DEFINE d == pops[n - 1]
             a == pops[n]
  <2>1. d \in S /\ (d.ready = <<>> \/ Len(d.done) = n - 1) /\ a = PopReady(g, d)
    BY <1>4, <1>6
  <2> HIDE DEF d, a
  <2>2. Popped(g, d, a)
    BY <2>1, Pops DEF S
  <2>3. a \in S /\ (a.ready = <<>> \/ Len(a.done) = n)
    <3>1. CASE d.ready = <<>>
      BY <2>1, <2>2, <3>1 DEF Popped
    <3>2. CASE d.ready # <<>>
      BY <2>1, <2>2, <3>2 DEF Popped, S
    <3> QED BY <3>1, <3>2
  <2> QED BY <2>3 DEF a
<1>7. N \in G
  <2> HIDE DEF G
  <2> QED BY <1>2, <1>5, <1>6, Induction
<1> DEFINE st == pops[N]
<1>8. /\ done \in Seq(D) /\ Lined(g, done, st.ready, st.degree)
      /\ st.ready = <<>> \/ Len(done) = N
  BY <1>7 DEF KahnStates, S
<1>9. OneToOne(done) /\ Served(g, done)
  BY <1>8 DEF Lined
<1> HIDE DEF done
<1>10. D = 1 .. N
  BY FiniteIds DEF N
<1>11. Permutes(g, T)
  <2>1. CASE Len(done) = N
    <3>1. T = done
      BY <1>1, <2>1
    <3> QED BY <1>8, <1>9, <2>1, <3>1, FullLine DEF Permutes, N
  <2>2. CASE Len(done) # N
    <3>1. T = [i \in 1 .. N |-> i]
      BY <1>1, <1>10, <2>2
    <3>2. T \in Seq(1 .. N) /\ Len(T) = N /\ \A i \in 1 .. N : T[i] = i
      BY <1>2, <3>1
    <3>3. OneToOne(T) /\ \A j \in 1 .. N : Among(T, j)
      BY <3>2 DEF OneToOne, Among
    <3> QED BY <1>10, <3>2, <3>3 DEF Permutes, N
  <2> QED BY <2>1, <2>2
<1>12. ASSUME ~Cyclic(g), Forward(g) = DOMAIN g.edges PROVE Respects(g, T)
  <2>1. Len(done) = N
    <3> SUFFICES ASSUME Len(done) # N PROVE FALSE
      OBVIOUS
    <3> DEFINE U == {j \in D : ~Among(done, j)}
               V == {g.nodes[j].id : j \in U}
    <3>1. U # {}
      BY <1>8, <1>9, FullLine DEF N
    <3>2. ASSUME NEW j \in U PROVE \E x \in DOMAIN g.edges : Target(g, x) = j /\ Source(g, x) \in U
      <4>1. st.ready = <<>>
        BY <1>8
      <4>2. ~Among(st.ready, j)
        BY <4>1 DEF Among
      <4>3. Waits(g, done, j) # {}
        BY <1>8, <4>2 DEF Lined
      <4>4. PICK x \in DOMAIN g.edges : Target(g, x) = j /\ ~Among(done, Source(g, x))
        BY <4>3 DEF Waits
      <4>5. Source(g, x) \in D
        BY EndsIndexed
      <4> QED BY <4>4, <4>5
    <3>3. Fed(g, V)
      <4> SUFFICES ASSUME NEW v \in V
                   PROVE  \E x \in Forward(g) : g.edges[x].to = v /\ g.edges[x].from \in V
        BY DEF Fed
      <4>1. PICK j \in U : g.nodes[j].id = v
        OBVIOUS
      <4>2. PICK x \in DOMAIN g.edges : Target(g, x) = j /\ Source(g, x) \in U
        BY <3>2
      <4>3. g.nodes[Source(g, x)].id = g.edges[x].from /\ g.nodes[Target(g, x)].id = g.edges[x].to
        BY EndsIndexed
      <4>4. g.edges[x].to = v /\ g.edges[x].from \in V
        BY <4>1, <4>2, <4>3
      <4> QED BY <1>12, <4>4
    <3>4. V \in SUBSET Ids(g) /\ V # {}
      BY <3>1 DEF Ids
    <3>5. IsFiniteSet(V)
      BY <3>4, FiniteIds, FS_Subset
    <3> HIDE DEF V
    <3> QED BY <1>12, <3>3, <3>4, <3>5, FedMakesCycle
  <2>2. T = done
    BY <1>1, <2>1
  <2> QED BY <1>9, <2>2 DEF Served, Respects
<1> QED BY <1>11, <1>12 DEF T

-----------------------------------------------------------------------------
(* The replay.  Two events come before it and each node has three, so the  *)
(* b-th node of the order is finished by the event at position At(b).      *)

At(b) == 2 + 3 * b
Finishes(em) == {i \in DOMAIN em : em[i].kind = "NodeFinished"}

\* The first p nodes of the order are told, and no others.
NodesSent(g, em, p) ==
    LET T == topological_order(g)
    IN  /\ Finishes(em) = {At(b) : b \in 1 .. p}
        /\ \A b \in 1 .. p : em[At(b)] = [kind |-> "NodeFinished", node |-> g.nodes[T[b]].id]

\* What is still to be replayed is the rest of the order.
Remains(T, o) ==
    /\ \E S : o \in Seq(S)
    /\ Len(o) <= Len(T) /\ \A k \in 1 .. Len(o) : o[k] = T[Len(T) - Len(o) + k]

Replaying(g, o, em, extra) ==
    LET p == Len(topological_order(g)) - Len(o)
    IN  Remains(topological_order(g), o) /\ NodesSent(g, em, p) /\ Len(em) = At(p) + extra

Quiet(o, em) == o = <<>> /\ Finishes(em) = {}
FailedRun(g, st, o, em) ==
    o = topological_order(g) /\ Finishes(em) = {} /\ st \in Outcomes(g)
FirstIn(g, st, o) ==
    LET failed == {i \in DOMAIN o : IsFailed(st[g.nodes[o[i]].id])}
    IN  IF failed = {} THEN NoNode ELSE g.nodes[o[Min(failed)]].id

Answered(answer, g, st, o, em) ==
    /\ answer = "ok" => o = <<>> /\ NodesSent(g, em, Len(topological_order(g)))
    /\ answer = "upstream" => FailedRun(g, st, o, em) /\ em[Len(em)].node = FirstIn(g, st, o)
    /\ answer \notin {"ok", "upstream"} => Quiet(o, em)

Story(place, answer, g, st, o, em) ==
    /\ Sequence(em)
    /\ place \in {"new", "policy", "compile", "schedule", "failed", "failing", "scheduled", "starting",
                  "started", "done"}
    /\ place = "new" => Quiet(o, em) /\ Len(em) = 0
    /\ place \in {"policy", "compile"} => Quiet(o, em) /\ Len(em) = 1
    /\ place = "schedule" => Quiet(o, em) /\ Len(em) = 2
    /\ place \in {"failed", "failing"} => FailedRun(g, st, o, em)
    /\ place = "scheduled" => Replaying(g, o, em, 0)
    /\ place = "starting" => Replaying(g, o, em, 1)
    /\ place = "started" => Replaying(g, o, em, 2)
    /\ place = "done" => Answered(answer, g, st, o, em)

StoryOf(e) == Story(pc[e], response[e], graph[e], states[e], order[e], emitted[e])
ReplayInv == PerExecution /\ \A e \in Execs : StoryOf(e)

LEMMA SentEvent ==
    ASSUME NEW em, Sequence(em), NEW x
    PROVE  /\ Sequence(Append(em, x)) /\ Len(em) \in Nat /\ Len(Append(em, x)) = Len(em) + 1
           /\ Append(em, x)[Len(em) + 1] = x /\ DOMAIN em = 1 .. Len(em)
           /\ \A i \in DOMAIN em : Append(em, x)[i] = em[i]
           /\ x.kind # "NodeFinished" => Finishes(Append(em, x)) = Finishes(em)
           /\ x.kind = "NodeFinished" => Finishes(Append(em, x)) = Finishes(em) \union {Len(em) + 1}
<1> DEFINE t == Append(em, x)
<1>1. /\ Sequence(t) /\ Len(em) \in Nat /\ Len(t) = Len(em) + 1
      /\ \A i \in 1 .. Len(em) : t[i] = em[i]
      /\ t[Len(em) + 1] = x
  BY AppendSequence
<1> HIDE DEF t
<1>2. DOMAIN em = 1 .. Len(em) /\ DOMAIN t = 1 .. Len(t)
  BY <1>1 DEF Sequence
<1>3. DOMAIN t = DOMAIN em \union {Len(em) + 1} /\ \A i \in DOMAIN em : t[i] = em[i]
  BY <1>1, <1>2
<1>4. Len(em) + 1 \notin DOMAIN em
  BY <1>1, <1>2
<1>5. x.kind # "NodeFinished" => Finishes(t) = Finishes(em)
  BY <1>1, <1>3, <1>4 DEF Finishes
<1>6. x.kind = "NodeFinished" => Finishes(t) = Finishes(em) \union {Len(em) + 1}
  BY <1>1, <1>3, <1>4 DEF Finishes
<1> QED BY <1>1, <1>2, <1>3, <1>5, <1>6 DEF t

LEMMA EventKept ==
    ASSUME NEW em, Sequence(em), NEW x, NEW i \in DOMAIN em
    PROVE  Append(em, x)[i] = em[i]
<1>1. DOMAIN em = 1 .. Len(em)
  BY DEF Sequence
<1>2. \A k \in 1 .. Len(em) : Append(em, x)[k] = em[k]
  BY AppendSequence
<1> QED BY <1>1, <1>2

LEMMA OtherEventSent ==
    ASSUME NEW em, Sequence(em), NEW x, x.kind # "NodeFinished", NEW g, NEW p, NodesSent(g, em, p)
    PROVE  NodesSent(g, Append(em, x), p)
<1>1. \A b \in 1 .. p : At(b) \in DOMAIN em
  BY DEF NodesSent, Finishes
<1>2. Finishes(Append(em, x)) = Finishes(em)
  BY SentEvent, Zenon
<1>3. ASSUME NEW i \in DOMAIN em PROVE Append(em, x)[i] = em[i]
  BY <1>3, EventKept
<1> QED BY <1>1, <1>2, <1>3 DEF NodesSent

LEMMA FinishSent ==
    ASSUME NEW em, Sequence(em), NEW g, NEW p \in Nat, NodesSent(g, em, p), Len(em) = At(p) + 2,
           NEW x, x = [kind |-> "NodeFinished", node |-> g.nodes[topological_order(g)[p + 1]].id]
    PROVE  NodesSent(g, Append(em, x), p + 1) /\ Len(Append(em, x)) = At(p + 1)
<1> DEFINE t == Append(em, x)
<1>1. \A b \in 1 .. p : At(b) \in DOMAIN em
  BY DEF NodesSent, Finishes
<1>2. /\ Finishes(t) = Finishes(em) \union {Len(em) + 1} /\ (\A i \in DOMAIN em : t[i] = em[i])
      /\ t[Len(em) + 1] = x /\ Len(t) = Len(em) + 1
  <2>1. x.kind = "NodeFinished"
    OBVIOUS
  <2>2. Finishes(t) = Finishes(em) \union {Len(em) + 1}
    BY <2>1, SentEvent, Zenon
  <2>3. \A i \in DOMAIN em : t[i] = em[i]
    <3>1. ASSUME NEW i \in DOMAIN em, NEW z PROVE Append(em, z)[i] = em[i]
      BY <3>1, EventKept
    <3> QED BY <3>1
  <2>4. t[Len(em) + 1] = x
    BY SentEvent, Zenon
  <2>5. Len(t) = Len(em) + 1
    BY SentEvent, Zenon
  <2> HIDE DEF t
  <2> QED BY <2>2, <2>3, <2>4, <2>5
<1>3. Len(em) + 1 = At(p + 1)
  BY DEF At
<1>4. 1 .. p + 1 = (1 .. p) \union {p + 1}
  OBVIOUS
<1> HIDE DEF t
<1>5. Finishes(t) = {At(b) : b \in 1 .. p + 1}
  BY <1>2, <1>3, <1>4 DEF NodesSent
<1>6. \A b \in 1 .. p + 1 : t[At(b)] = [kind |-> "NodeFinished", node |-> g.nodes[topological_order(g)[b]].id]
  <2> SUFFICES ASSUME NEW b \in 1 .. p + 1
               PROVE  t[At(b)] = [kind |-> "NodeFinished", node |-> g.nodes[topological_order(g)[b]].id]
    OBVIOUS
  <2>1. CASE b = p + 1
    BY <1>2, <1>3, <2>1
  <2>2. CASE b \in 1 .. p
    <3>1. t[At(b)] = em[At(b)]
      BY <1>1, <1>2, <2>2
    <3> QED BY <2>2, <3>1 DEF NodesSent
  <2> QED BY <1>4, <2>1, <2>2
<1>7. NodesSent(g, t, p + 1) /\ Len(t) = At(p + 1)
  BY <1>2, <1>3, <1>5, <1>6 DEF NodesSent
<1> QED BY <1>7 DEF t

LEMMA RemainsLess ==
    ASSUME NEW T, NEW D, T \in Seq(D), NEW o, Remains(T, o), o # <<>>, NEW p, p = Len(T) - Len(o)
    PROVE  /\ p \in Nat /\ Head(o) = T[p + 1] /\ Remains(T, Tail(o)) /\ Len(T) - Len(Tail(o)) = p + 1
<1>1. PICK S : o \in Seq(S)
  BY DEF Remains
<1>2. /\ Len(o) \in Nat \ {0} /\ Len(T) \in Nat /\ Len(o) <= Len(T)
      /\ Head(o) = o[1] /\ Tail(o) \in Seq(S) /\ Len(Tail(o)) = Len(o) - 1
      /\ \A k \in 1 .. Len(o) - 1 : Tail(o)[k] = o[k + 1]
  BY <1>1 DEF Remains
<1>3. \A k \in 1 .. Len(o) : o[k] = T[p + k]
  BY DEF Remains
<1> DEFINE t == Tail(o)
<1> HIDE DEF t
<1>4. t \in Seq(S) /\ Len(t) = Len(o) - 1 /\ \A k \in 1 .. Len(t) : t[k] = T[Len(T) - Len(t) + k]
  <2>1. ASSUME NEW k \in 1 .. Len(o) - 1 PROVE t[k] = T[Len(T) - (Len(o) - 1) + k]
    <3>1. k + 1 \in 1 .. Len(o) /\ p + (k + 1) = Len(T) - (Len(o) - 1) + k
      BY <1>2
    <3> QED BY <1>2, <1>3, <3>1 DEF t
  <2> QED BY <1>2, <2>1 DEF t
<1>5. Remains(T, t)
  BY <1>2, <1>4 DEF Remains
<1>6. p \in Nat /\ Len(T) - Len(t) = p + 1 /\ Head(o) = T[p + 1]
  BY <1>2, <1>3, <1>4
<1> QED BY <1>5, <1>6 DEF t
-----------------------------------------------------------------------------
(* Each step goes on with the story. *)

LEMMA OthersStory ==
    ASSUME ReplayInv, NEW e \in Execs, PerExecution' /\ OthersKept(e), StoryOf(e)'
    PROVE  ReplayInv'
<1>1. ASSUME NEW f \in Execs, f # e PROVE StoryOf(f)'
  BY <1>1 DEF ReplayInv, StoryOf, OthersKept
<1> QED BY <1>1 DEF ReplayInv

LEMMA SubmitStory ==
    ASSUME ReplayInv, NEW e \in Execs, Submit(e)
    PROVE  StoryOf(e)'
<1> DEFINE x == [kind |-> "WorkflowStarted", node |-> NoNode]
           em == emitted[e]
<1>1. /\ pc[e] = "new" /\ pc'[e] = "policy" /\ emitted'[e] = Append(em, x)
      /\ order'[e] = order[e]
  BY DEF Submit, emit, Goto, ReplayInv, PerExecution
<1>2. x.kind # "NodeFinished"
  OBVIOUS
<1> HIDE DEF x, em
<1>3. Sequence(em) /\ Quiet(order[e], em) /\ Len(em) = 0
  BY <1>1 DEF ReplayInv, StoryOf, Story, em
<1>4. Sequence(Append(em, x)) /\ Len(Append(em, x)) = 1 /\ Finishes(Append(em, x)) = Finishes(em)
  <2>1. Sequence(Append(em, x))
    BY <1>3, SentEvent, Zenon
  <2>2. Len(Append(em, x)) = Len(em) + 1
    BY <1>3, SentEvent, Zenon
  <2>3. Finishes(Append(em, x)) = Finishes(em)
    BY <1>2, <1>3, SentEvent, Zenon
  <2> QED BY <1>3, <2>1, <2>2, <2>3
<1> QED BY <1>1, <1>3, <1>4 DEF StoryOf, Story, Quiet

\* An answer without an outcome comes before anything is replayed.
LEMMA RefusedStory ==
    ASSUME ReplayInv, NEW e \in Execs, pc[e] \in {"new", "policy", "compile", "schedule"},
           NEW what, what \notin {"ok", "upstream"}, Answer(e, what),
           UNCHANGED <<emitted, order>>
    PROVE  StoryOf(e)'
<1>1. pc'[e] = "done" /\ response'[e] = what
  BY DEF Answer, Goto, ReplayInv, PerExecution
<1>2. Sequence(emitted[e]) /\ Quiet(order[e], emitted[e])
  BY DEF ReplayInv, StoryOf, Story
<1> QED BY <1>1, <1>2 DEF StoryOf, Story, Answered

LEMMA ReadPolicyStory ==
    ASSUME ReplayInv, NEW e \in Execs, ReadPolicy(e)
    PROVE  StoryOf(e)'
<1>1. pc[e] = "policy" /\ UNCHANGED <<emitted, order>>
  BY DEF ReadPolicy
<1>2. CASE \E r \in rules : r.malformed
  <2>1. Answer(e, "policy")
    BY <1>2 DEF ReadPolicy
  <2> QED BY <1>1, <2>1, RefusedStory
<1>3. CASE ~ \E r \in rules : r.malformed
  <2>1. pc'[e] = "compile"
    BY <1>3 DEF ReadPolicy, Goto, ReplayInv, PerExecution
  <2>2. Sequence(emitted[e]) /\ Quiet(order[e], emitted[e]) /\ Len(emitted[e]) = 1
    BY <1>1 DEF ReplayInv, StoryOf, Story
  <2> QED BY <1>1, <2>1, <2>2 DEF StoryOf, Story
<1> QED BY <1>2, <1>3

LEMMA CompileStory ==
    ASSUME ReplayInv, PolicyInv, NEW e \in Execs, Compile(e)
    PROVE  StoryOf(e)'
<1>1. pc[e] = "compile" /\ IsWorkflow(workflow[e]) /\ UNCHANGED order
  BY PlaneAssumption DEF Compile, PolicyInv, Bound
<1>2. PICK b \in BOOLEAN :
        LET result == RunPasses(workflow[e], policy_ir[e], b)
        IN  \/ emit(e, "WorkflowCompiled", NoNode) /\ Goto(e, "schedule")
            \/ ~result.ok /\ Answer(e, result.pass) /\ UNCHANGED emitted
  BY DEF Compile
<1> DEFINE result == RunPasses(workflow[e], policy_ir[e], b)
<1>3. CASE emit(e, "WorkflowCompiled", NoNode) /\ Goto(e, "schedule")
  <2> DEFINE x == [kind |-> "WorkflowCompiled", node |-> NoNode]
             em == emitted[e]
  <2>1. pc'[e] = "schedule" /\ emitted'[e] = Append(em, x)
    BY <1>3 DEF emit, Goto, ReplayInv, PerExecution
  <2>2. x.kind # "NodeFinished"
    OBVIOUS
  <2> HIDE DEF x, em
  <2>3. Sequence(em) /\ Quiet(order[e], em) /\ Len(em) = 1
    BY <1>1 DEF ReplayInv, StoryOf, Story, em
  <2>4. Sequence(Append(em, x)) /\ Len(Append(em, x)) = 2 /\ Finishes(Append(em, x)) = Finishes(em)
    <3>1. Sequence(Append(em, x))
      BY <2>3, SentEvent, Zenon
    <3>2. Len(Append(em, x)) = Len(em) + 1
      BY <2>3, SentEvent, Zenon
    <3>3. Finishes(Append(em, x)) = Finishes(em)
      BY <2>2, <2>3, SentEvent, Zenon
    <3> QED BY <2>3, <3>1, <3>2, <3>3
  <2> QED BY <1>1, <2>1, <2>3, <2>4 DEF StoryOf, Story, Quiet
<1>4. CASE ~result.ok /\ Answer(e, result.pass) /\ UNCHANGED emitted
  <2>1. result.pass \notin {"ok", "upstream"}
    BY <1>1, <1>4, RefusalsNamed
  <2> HIDE DEF result
  <2> QED BY <1>1, <1>4, <2>1, RefusedStory
<1> QED BY <1>2, <1>3, <1>4

LEMMA RunStory ==
    ASSUME ReplayInv, SoundInv, NEW e \in Execs, Run(e)
    PROVE  StoryOf(e)'
<1> DEFINE g == graph[e]
           T == topological_order(g)
           em == emitted[e]
<1>1. PICK outcome \in Outcomes(g) :
        /\ states' = [states EXCEPT ![e] = outcome] /\ order' = [order EXCEPT ![e] = T]
        /\ Goto(e, IF Succeeds(outcome) THEN "scheduled" ELSE "failed")
  BY DEF Run
<1>2. /\ pc[e] = "schedule" /\ pc'[e] \in {"scheduled", "failed"} /\ emitted'[e] = em
      /\ order'[e] = T /\ states'[e] = outcome /\ graph'[e] = g
  BY <1>1 DEF Run, Goto, ReplayInv, PerExecution
<1>3. Sequence(em) /\ Finishes(em) = {} /\ Len(em) = 2
  BY <1>2 DEF ReplayInv, StoryOf, Story, Quiet
<1>4. outcome \in Outcomes(g)
  BY <1>1
<1>5. T \in Seq(DOMAIN g.nodes)
  <2>1. Finite(g) /\ EdgesKnown(g)
    BY DEF SoundInv, SoundFor, Sound
  <2> QED BY <2>1, OrderFound DEF Permutes
<1>6. Replaying(g, T, em, 0)
  <2> HIDE DEF T
  <2>1. Len(T) \in Nat /\ Remains(T, T)
    BY <1>5 DEF Remains
  <2>2. Len(T) - Len(T) = 0 /\ 1 .. 0 = {} /\ At(0) = 2
    BY <2>1 DEF At
  <2>3. NodesSent(g, em, 0)
    BY <1>3, <2>2 DEF NodesSent
  <2> QED BY <1>3, <2>1, <2>2, <2>3 DEF Replaying, T
<1> HIDE DEF T, g
<1>7. FailedRun(g, outcome, T, em)
  BY <1>3, <1>4 DEF FailedRun, T
<1> QED BY <1>2, <1>3, <1>6, <1>7 DEF StoryOf, Story

LEMMA NodeFailedStory ==
    ASSUME ReplayInv, NEW e \in Execs, ReportNodeFailed(e)
    PROVE  StoryOf(e)'
<1> DEFINE x == [kind |-> "NodeFailed", node |-> FirstFailed(e)]
           em == emitted[e]
<1>1. /\ pc[e] = "failed" /\ pc'[e] = "failing" /\ emitted'[e] = Append(em, x)
      /\ order'[e] = order[e] /\ graph'[e] = graph[e] /\ states'[e] = states[e]
  BY DEF ReportNodeFailed, emit, Goto, ReplayInv, PerExecution
<1>2. x.kind # "NodeFinished"
  OBVIOUS
<1> HIDE DEF x, em
<1>3. Sequence(em) /\ FailedRun(graph[e], states[e], order[e], em)
  BY <1>1 DEF ReplayInv, StoryOf, Story, em
<1>4. Sequence(Append(em, x)) /\ Finishes(Append(em, x)) = Finishes(em)
  BY <1>2, <1>3, SentEvent
<1> QED BY <1>1, <1>3, <1>4 DEF StoryOf, Story, FailedRun

LEMMA FailureStory ==
    ASSUME ReplayInv, NEW e \in Execs, ReportFailure(e)
    PROVE  StoryOf(e)'
<1> DEFINE x == [kind |-> "WorkflowFailed", node |-> FirstFailed(e)]
           em == emitted[e]
<1>1. /\ pc[e] = "failing" /\ pc'[e] = "done" /\ response'[e] = "upstream" /\ emitted'[e] = Append(em, x)
      /\ order'[e] = order[e] /\ graph'[e] = graph[e] /\ states'[e] = states[e]
  BY DEF ReportFailure, emit, Goto, Answer, ReplayInv, PerExecution
<1>2. x.kind # "NodeFinished" /\ x.node = FirstIn(graph[e], states[e], order[e])
  BY DEF FirstIn, FirstFailed
<1> HIDE DEF x, em
<1>3. Sequence(em) /\ FailedRun(graph[e], states[e], order[e], em)
  BY <1>1 DEF ReplayInv, StoryOf, Story, em
<1>4. /\ Sequence(Append(em, x)) /\ Finishes(Append(em, x)) = Finishes(em)
      /\ Append(em, x)[Len(Append(em, x))] = x
  <2>1. Sequence(Append(em, x))
    BY <1>3, SentEvent, Zenon
  <2>2. Finishes(Append(em, x)) = Finishes(em)
    BY <1>2, <1>3, SentEvent, Zenon
  <2>3. Len(Append(em, x)) = Len(em) + 1
    BY <1>3, SentEvent, Zenon
  <2>4. Append(em, x)[Len(em) + 1] = x
    BY <1>3, SentEvent, Zenon
  <2> QED BY <2>1, <2>2, <2>3, <2>4
<1>5. Answered("upstream", graph[e], states[e], order[e], Append(em, x))
  BY <1>2, <1>3, <1>4 DEF Answered, FailedRun
<1> QED BY <1>1, <1>4, <1>5 DEF StoryOf, Story

LEMMA ReplayStory ==
    ASSUME ReplayInv, SoundInv, NEW e \in Execs, Replay(e)
    PROVE  StoryOf(e)'
<1> DEFINE g == graph[e]
           T == topological_order(g)
           o == order[e]
           em == emitted[e]
           p == Len(T) - Len(o)
           x(kind) == [kind |-> kind, node |-> g.nodes[Head(o)].id]
<1>1. T \in Seq(DOMAIN g.nodes)
  <2>1. Finite(g) /\ EdgesKnown(g)
    BY DEF SoundInv, SoundFor, Sound
  <2> QED BY <2>1, OrderFound DEF Permutes
<1>2. o # <<>> /\ graph'[e] = g /\ Sequence(em)
  BY DEF Replay, ReplayNode, ReplayInv, PerExecution, StoryOf, Story
<1>3. CASE ReplayNode(e, "scheduled", "NodeScheduled", "starting")
  <2> DEFINE y == x("NodeScheduled")
  <2>1. /\ pc[e] = "scheduled" /\ pc'[e] = "starting" /\ emitted'[e] = Append(em, y) /\ order'[e] = o
    BY <1>3 DEF ReplayNode, emit, Goto, ReplayInv, PerExecution
  <2>2. y.kind # "NodeFinished"
    OBVIOUS
  <2>3. Replaying(g, o, em, 0)
    BY <2>1 DEF ReplayInv, StoryOf, Story
  <2> HIDE DEF y, em, o, g
  <2>4. Sequence(Append(em, y)) /\ Replaying(g, o, Append(em, y), 1)
    <3>1. Sequence(Append(em, y)) /\ Len(Append(em, y)) = Len(em) + 1 /\ Len(em) \in Nat
      BY <1>2, SentEvent
    <3>2. NodesSent(g, em, p) /\ Len(em) = At(p) + 0 /\ Remains(T, o)
      BY <2>3 DEF Replaying
    <3>3. NodesSent(g, Append(em, y), p)
      BY <1>2, <2>2, <3>2, OtherEventSent
    <3>4. p \in Nat
      BY <1>1, <1>2, <3>2, RemainsLess
    <3>5. Len(Append(em, y)) = At(p) + 1
      BY <3>1, <3>2, <3>4 DEF At
    <3> QED BY <3>1, <3>2, <3>3, <3>5 DEF Replaying
  <2> QED BY <1>2, <2>1, <2>4 DEF StoryOf, Story
<1>4. CASE ReplayNode(e, "starting", "NodeStarted", "started")
  <2> DEFINE y == x("NodeStarted")
  <2>1. /\ pc[e] = "starting" /\ pc'[e] = "started" /\ emitted'[e] = Append(em, y) /\ order'[e] = o
    BY <1>4 DEF ReplayNode, emit, Goto, ReplayInv, PerExecution
  <2>2. y.kind # "NodeFinished"
    OBVIOUS
  <2>3. Replaying(g, o, em, 1)
    BY <2>1 DEF ReplayInv, StoryOf, Story
  <2> HIDE DEF y, em, o, g
  <2>4. Sequence(Append(em, y)) /\ Replaying(g, o, Append(em, y), 2)
    <3>1. Sequence(Append(em, y)) /\ Len(Append(em, y)) = Len(em) + 1 /\ Len(em) \in Nat
      BY <1>2, SentEvent
    <3>2. NodesSent(g, em, p) /\ Len(em) = At(p) + 1 /\ Remains(T, o)
      BY <2>3 DEF Replaying
    <3>3. NodesSent(g, Append(em, y), p)
      BY <1>2, <2>2, <3>2, OtherEventSent
    <3>4. p \in Nat
      BY <1>1, <1>2, <3>2, RemainsLess
    <3>5. Len(Append(em, y)) = At(p) + 2
      BY <3>1, <3>2, <3>4 DEF At
    <3> QED BY <3>1, <3>2, <3>3, <3>5 DEF Replaying
  <2> QED BY <1>2, <2>1, <2>4 DEF StoryOf, Story
<1>5. CASE ReplayNode(e, "started", "NodeFinished", "scheduled")
  <2> DEFINE y == x("NodeFinished")
  <2>1. /\ pc[e] = "started" /\ pc'[e] = "scheduled" /\ emitted'[e] = Append(em, y) /\ order'[e] = Tail(o)
    BY <1>5 DEF ReplayNode, emit, Goto, ReplayInv, PerExecution
  <2>2. Replaying(g, o, em, 2)
    BY <2>1 DEF ReplayInv, StoryOf, Story
  <2>3. y = [kind |-> "NodeFinished", node |-> g.nodes[Head(o)].id]
    OBVIOUS
  <2> HIDE DEF y, em, o, g
  <2>4. Sequence(Append(em, y)) /\ Replaying(g, Tail(o), Append(em, y), 0)
    <3>1. Sequence(Append(em, y))
      BY <1>2, SentEvent
    <3>2. NodesSent(g, em, p) /\ Len(em) = At(p) + 2 /\ Remains(T, o)
      BY <2>2 DEF Replaying
    <3>3. p \in Nat /\ Head(o) = T[p + 1] /\ Remains(T, Tail(o)) /\ Len(T) - Len(Tail(o)) = p + 1
      BY <1>1, <1>2, <3>2, RemainsLess
    <3>4. y = [kind |-> "NodeFinished", node |-> g.nodes[T[p + 1]].id]
      BY <2>3, <3>3
    <3>5. NodesSent(g, Append(em, y), p + 1) /\ Len(Append(em, y)) = At(p + 1)
      <4> HIDE DEF p
      <4> QED BY <1>2, <3>2, <3>3, <3>4, FinishSent
    <3>6. At(p + 1) + 0 = At(p + 1)
      BY <3>3 DEF At
    <3> QED BY <3>1, <3>3, <3>5, <3>6 DEF Replaying
  <2> QED BY <1>2, <2>1, <2>4 DEF StoryOf, Story
<1> QED BY <1>3, <1>4, <1>5 DEF Replay

LEMMA CompleteStory ==
    ASSUME ReplayInv, SoundInv, NEW e \in Execs, Complete(e)
    PROVE  StoryOf(e)'
<1> DEFINE x == [kind |-> "WorkflowCompleted", node |-> NoNode]
           em == emitted[e]
           g == graph[e]
           T == topological_order(g)
<1>1. /\ pc[e] = "scheduled" /\ pc'[e] = "done" /\ response'[e] = "ok" /\ emitted'[e] = Append(em, x)
      /\ order[e] = <<>> /\ order'[e] = <<>> /\ graph'[e] = g
  BY DEF Complete, emit, Goto, Answer, ReplayInv, PerExecution
<1>2. x.kind # "NodeFinished"
  OBVIOUS
<1>3. Sequence(em) /\ Replaying(g, <<>>, em, 0)
  BY <1>1 DEF ReplayInv, StoryOf, Story
<1>4. Len(T) \in Nat
  <2>1. Finite(g) /\ EdgesKnown(g)
    BY DEF SoundInv, SoundFor, Sound
  <2>2. T \in Seq(DOMAIN g.nodes)
    BY <2>1, OrderFound DEF Permutes
  <2> HIDE DEF T
  <2> QED BY <2>2
<1> HIDE DEF x, em, g
<1>5. NodesSent(g, em, Len(T))
  <2>1. Len(T) - Len(<<>>) = Len(T)
    BY <1>4
  <2> QED BY <1>3, <2>1 DEF Replaying
<1>6. NodesSent(g, Append(em, x), Len(T)) /\ Sequence(Append(em, x))
  BY <1>2, <1>3, <1>5, OtherEventSent, SentEvent
<1>7. Answered("ok", g, states'[e], <<>>, Append(em, x))
  BY <1>6 DEF Answered
<1> QED BY <1>1, <1>6, <1>7 DEF StoryOf, Story

LEMMA ReplayStart == Init => ReplayInv
<1> SUFFICES ASSUME Init PROVE ReplayInv
  OBVIOUS
<1>1. ASSUME NEW e \in Execs PROVE StoryOf(e)
  <2>1. pc[e] = "new" /\ emitted[e] = <<>> /\ order[e] = <<>>
    BY DEF Init
  <2>2. Finishes(<<>>) = {}
    BY DEF Finishes
  <2> QED BY <2>1, <2>2, EmptySequence DEF StoryOf, Story, Quiet
<1>2. PerExecution
  BY OutcomeStart DEF OutcomeInv
<1> QED BY <1>1, <1>2 DEF ReplayInv

LEMMA ReplayStep ==
    ASSUME ReplayInv, PolicyInv, SoundInv, [Next]_vars
    PROVE  ReplayInv'
<1>1. ASSUME NEW e \in Execs, Submit(e) \/ SessionFails(e) \/ Works(e) \/ RunRefused(e) \/ ClientGone(e)
      PROVE  ReplayInv'
  <2>1. PerExecution' /\ OthersKept(e)
    BY <1>1, OwnStep DEF ReplayInv
  <2>2. CASE Submit(e)
    BY <2>1, <2>2, SubmitStory, OthersStory
  <2>3. CASE SessionFails(e) \/ RunRefused(e) \/ ClientGone(e)
    <3>1. /\ pc[e] \in {"new", "policy", "compile", "schedule"} /\ UNCHANGED <<emitted, order>>
          /\ \E what \in {"internal", "scheduling", "dropped"} : Answer(e, what)
      BY <2>3 DEF SessionFails, RunRefused, ClientGone
    <3>2. StoryOf(e)'
      BY <3>1, RefusedStory
    <3> QED BY <2>1, <3>2, OthersStory
  <2>4. CASE ReadPolicy(e)
    BY <2>1, <2>4, ReadPolicyStory, OthersStory
  <2>5. CASE Compile(e)
    BY <2>1, <2>5, CompileStory, OthersStory
  <2>6. CASE Run(e)
    BY <2>1, <2>6, RunStory, OthersStory
  <2>7. CASE ReportNodeFailed(e)
    BY <2>1, <2>7, NodeFailedStory, OthersStory
  <2>8. CASE ReportFailure(e)
    BY <2>1, <2>8, FailureStory, OthersStory
  <2>9. CASE Replay(e)
    BY <2>1, <2>9, ReplayStory, OthersStory
  <2>10. CASE Complete(e)
    BY <2>1, <2>10, CompleteStory, OthersStory
  <2> QED BY <1>1, <2>2, <2>3, <2>4, <2>5, <2>6, <2>7, <2>8, <2>9, <2>10 DEF Works
<1>2. CASE UNCHANGED exec
  BY <1>2 DEF ReplayInv, StoryOf, PerExecution, exec
<1>3. ASSUME NEW r \in Rules, apply_policy(r) \/ remove_policy(r) PROVE UNCHANGED exec
  BY <1>3 DEF apply_policy, remove_policy
<1>4. ASSUME Listens \/ UNCHANGED vars \/ \E ev \in writing : WriteLands(ev) \/ WriteIsLost(ev)
      PROVE  UNCHANGED exec
  BY <1>4 DEF Listens, Lagged, Dispatch, WriteLands, WriteIsLost, vars, exec
<1> QED BY <1>1, <1>2, <1>3, <1>4 DEF Next, Writes

\* At each point of the replay exactly the first nodes of the topological order are
\* told, at their own positions, and the rest is still to come (execution.rs:324).
THEOREM ReplayInvariant == Spec => []ReplayInv
<1>1. ReplayInv /\ PolicyInv /\ SoundInv /\ [Next]_vars => ReplayInv'
  BY ReplayStep
<1> QED BY ReplayStart, PolicyInvariant, SoundInvariant, <1>1, PTL DEF Spec

-----------------------------------------------------------------------------
(* What the story tells. *)

LEMMA OrderKnown ==
    ASSUME SoundInv, NEW e \in Execs
    PROVE  /\ Finite(graph[e]) /\ EdgesKnown(graph[e]) /\ ~Cyclic(graph[e])
           /\ Permutes(graph[e], topological_order(graph[e]))
           /\ Forward(graph[e]) = DOMAIN graph[e].edges => Respects(graph[e], topological_order(graph[e]))
<1>1. Finite(graph[e]) /\ EdgesKnown(graph[e]) /\ ~Cyclic(graph[e])
  BY DEF SoundInv, SoundFor, Sound
<1> QED BY <1>1, OrderFound

LEMMA SentSoFar ==
    ASSUME ReplayInv, SoundInv, NEW e \in Execs
    PROVE  \E p \in 0 .. Len(topological_order(graph[e])) : NodesSent(graph[e], emitted[e], p)
<1> DEFINE g == graph[e]
           T == topological_order(g)
           em == emitted[e]
           o == order[e]
<1>1. Len(T) \in Nat
  <2>1. T \in Seq(DOMAIN g.nodes)
    BY OrderKnown DEF Permutes
  <2> HIDE DEF T
  <2> QED BY <2>1
<1>2. CASE Finishes(em) = {}
  <2>1. 1 .. 0 = {}
    OBVIOUS
  <2>2. NodesSent(g, em, 0)
    BY <1>2, <2>1 DEF NodesSent
  <2> QED BY <1>1, <2>2
<1>3. CASE \E extra : Replaying(g, o, em, extra)
  <2>1. NodesSent(g, em, Len(T) - Len(o)) /\ Remains(T, o)
    BY <1>3 DEF Replaying
  <2>2. Len(T) - Len(o) \in 0 .. Len(T)
    <3> HIDE DEF T, o
    <3> QED BY <1>1, <2>1 DEF Remains
  <2> QED BY <2>1, <2>2
<1>4. CASE NodesSent(g, em, Len(T))
  BY <1>1, <1>4
<1>5. StoryOf(e)
  BY DEF ReplayInv
<1>6. CASE pc[e] \in {"scheduled", "starting", "started"}
  BY <1>3, <1>5, <1>6 DEF StoryOf, Story
<1>7. CASE pc[e] \in {"new", "policy", "compile", "schedule", "failed", "failing"}
  BY <1>2, <1>5, <1>7 DEF StoryOf, Story, Quiet, FailedRun
<1>8. CASE pc[e] = "done"
  <2>1. Answered(response[e], g, states[e], o, em)
    BY <1>5, <1>8 DEF StoryOf, Story
  <2> QED BY <1>2, <1>4, <2>1 DEF Answered, Quiet, FailedRun
<1>9. pc[e] \in {"new", "policy", "compile", "schedule", "failed", "failing", "scheduled", "starting",
                 "started", "done"}
  BY <1>5 DEF StoryOf, Story
<1> QED BY <1>6, <1>7, <1>8, <1>9

\* Each node of the order is told at its own position.
LEMMA TellsEach ==
    ASSUME NEW g, Finite(g), Permutes(g, topological_order(g)), NEW em,
           NodesSent(g, em, Len(topological_order(g))), NEW m
    PROVE  Cardinality({i \in DOMAIN em : em[i] = [kind |-> "NodeFinished", node |-> m]})
             = Cardinality({i \in DOMAIN g.nodes : g.nodes[i].id = m})
<1> DEFINE T == topological_order(g)
           n == Len(T)
           B == {b \in 1 .. n : g.nodes[T[b]].id = m}
           F == {i \in DOMAIN em : em[i] = [kind |-> "NodeFinished", node |-> m]}
           N == {i \in DOMAIN g.nodes : g.nodes[i].id = m}
           told == [b \in B |-> At(b)]
           node == [b \in B |-> T[b]]
<1>1. /\ T \in Seq(DOMAIN g.nodes) /\ (\A j, k \in 1 .. n : T[j] = T[k] => j = k)
      /\ \A j \in DOMAIN g.nodes : \E k \in 1 .. n : T[k] = j
  BY DEF Permutes, OneToOne, Among
<1>2. /\ {i \in DOMAIN em : em[i].kind = "NodeFinished"} = {At(b) : b \in 1 .. n}
      /\ \A b \in 1 .. n : em[At(b)] = [kind |-> "NodeFinished", node |-> g.nodes[T[b]].id]
  BY DEF NodesSent, Finishes
<1> HIDE DEF T
<1>3. n \in Nat /\ \A b \in 1 .. n : T[b] \in DOMAIN g.nodes
  BY <1>1
<1>4. IsFiniteSet(B)
  <2>1. IsFiniteSet(1 .. n)
    <3> SUFFICES ASSUME NEW k \in Nat PROVE IsFiniteSet(1 .. k)
      BY <1>3
    <3> QED BY FS_Interval
  <2>2. B \subseteq 1 .. n
    OBVIOUS
  <2> HIDE DEF B, n
  <2> QED BY <2>1, <2>2, FS_Subset
<1>5. \A b \in B : At(b) \in F
  BY <1>2
<1>6. ASSUME NEW i \in F PROVE \E b \in B : At(b) = i
  <2>1. PICK b \in 1 .. n : i = At(b)
    BY <1>2, <1>6
  <2>2. g.nodes[T[b]].id = m
    <3>1. em[i] = [kind |-> "NodeFinished", node |-> g.nodes[T[b]].id]
      BY <1>2, <2>1
    <3>2. em[i].node = m /\ em[i].node = g.nodes[T[b]].id
      BY <3>1, <1>6
    <3> QED BY <3>2
  <2> QED BY <2>1, <2>2
<1>7. \A a, b \in B : At(a) = At(b) => a = b
  BY <1>3 DEF At
<1>8. \A b \in B : T[b] \in N
  BY <1>3
<1>9. \A i \in N : \E b \in B : T[b] = i
  BY <1>1
<1>10. \A a, b \in B : T[a] = T[b] => a = b
  BY <1>1
<1> HIDE DEF B, F, N
<1>11. ExistsBijection(B, F)
  <2>1. told \in [B -> F] /\ (\A a, b \in B : told[a] = told[b] => a = b)
        /\ \A i \in F : \E b \in B : told[b] = i
    BY <1>5, <1>6, <1>7
  <2> HIDE DEF told
  <2>2. told \in Bijection(B, F)
    BY <2>1, Fun_IsBij
  <2> QED BY <2>2 DEF ExistsBijection
<1>12. ExistsBijection(B, N)
  <2>1. node \in [B -> N] /\ (\A a, b \in B : node[a] = node[b] => a = b)
        /\ \A i \in N : \E b \in B : node[b] = i
    BY <1>8, <1>9, <1>10
  <2> HIDE DEF node
  <2>2. node \in Bijection(B, N)
    BY <2>1, Fun_IsBij
  <2> QED BY <2>2 DEF ExistsBijection
<1>13. Cardinality(F) = Cardinality(B) /\ Cardinality(N) = Cardinality(B)
  BY <1>4, <1>11, <1>12, FS_Bijection
<1> QED BY <1>13 DEF F, N

NamesFailed(id, st) ==
    LET failed == {n \in DOMAIN st : IsFailed(st[n])}
    IN  id \in IF failed = {} THEN {NoNode} ELSE failed

\* The first failed node of the order, if there is any.
LEMMA FirstOfFailed ==
    ASSUME NEW g, NEW T, Permutes(g, T), NEW st, DOMAIN st = Ids(g),
           NEW n \in DOMAIN st, IsFailed(st[n])
    PROVE  \E k \in 1 .. Len(T) :
               /\ FirstIn(g, st, T) = g.nodes[T[k]].id /\ g.nodes[T[k]].id \in DOMAIN st
               /\ IsFailed(st[g.nodes[T[k]].id])
               /\ \A b \in 1 .. Len(T) : IsFailed(st[g.nodes[T[b]].id]) => k <= b
<1> DEFINE places == {i \in DOMAIN T : IsFailed(st[g.nodes[T[i]].id])}
<1>1. /\ DOMAIN T = 1 .. Len(T) /\ Len(T) \in Nat
      /\ \A i \in DOMAIN T : T[i] \in DOMAIN g.nodes
  BY DEF Permutes
<1>2. places # {}
  <2>1. PICK j \in DOMAIN g.nodes : g.nodes[j].id = n
    BY DEF Ids
  <2>2. PICK k \in 1 .. Len(T) : T[k] = j
    BY DEF Permutes, Among
  <2> QED BY <1>1, <2>1, <2>2
<1>3. Min(places) \in places /\ \A b \in places : Min(places) <= b
  <2>1. places \in SUBSET Nat
    BY <1>1
  <2> HIDE DEF places
  <2> QED BY <1>2, <2>1, MinIsIn
<1>4. FirstIn(g, st, T) = g.nodes[T[Min(places)]].id
  BY <1>2 DEF FirstIn
<1>5. g.nodes[T[Min(places)]].id \in DOMAIN st
  BY <1>1, <1>3 DEF Ids
<1> DEFINE k == Min(places)
<1>6. k \in 1 .. Len(T) /\ IsFailed(st[g.nodes[T[k]].id])
  BY <1>1, <1>3
<1>7. ASSUME NEW b \in 1 .. Len(T), IsFailed(st[g.nodes[T[b]].id]) PROVE k <= b
  BY <1>1, <1>3, <1>7
<1> HIDE DEF k
<1> QED BY <1>4, <1>5, <1>6, <1>7 DEF k

LEMMA FailedNamed ==
    ASSUME NEW g, NEW T, Permutes(g, T), NEW st, DOMAIN st = Ids(g)
    PROVE  NamesFailed(FirstIn(g, st, T), st)
<1> DEFINE failed == {n \in DOMAIN st : IsFailed(st[n])}
<1>1. CASE failed = {}
  <2>1. {i \in DOMAIN T : IsFailed(st[g.nodes[T[i]].id])} = {}
    <3> SUFFICES ASSUME NEW i \in DOMAIN T, IsFailed(st[g.nodes[T[i]].id]) PROVE FALSE
      OBVIOUS
    <3>1. g.nodes[T[i]].id \in DOMAIN st
      BY DEF Permutes, Ids
    <3> QED BY <1>1, <3>1
  <2> QED BY <1>1, <2>1 DEF FirstIn, NamesFailed
<1>2. CASE failed # {}
  <2>1. PICK n \in DOMAIN st : IsFailed(st[n])
    BY <1>2
  <2>2. FirstIn(g, st, T) \in failed
    BY <2>1, FirstOfFailed
  <2> QED BY <1>2, <2>2 DEF NamesFailed
<1> QED BY <1>1, <1>2

\* Where each node comes after all that feeds it, the first failed node of the order
\* has failed by itself: a node failed with another comes after one that failed.
LEMMA CulpritNamed ==
    ASSUME NEW g, Finite(g), EdgesKnown(g), Distinct(g), ~Looping(g),
           NEW T, Permutes(g, T), Respects(g, T), NEW st \in Outcomes(g),
           NEW n \in DOMAIN st, IsFailed(st[n])
    PROVE  st[FirstIn(g, st, T)] = "Failed"
<1> DEFINE own == {m \in Ids(g) : st[m] = "Failed"}
           Id(b) == g.nodes[T[b]].id
           S == {m \in Ids(g) : \E b \in 1 .. Len(T) : Id(b) = m /\ \E a \in 1 .. b : Id(a) \in own}
<1>1. DOMAIN st = Ids(g) /\ \A m \in Ids(g) : st[m] = "Dependency failed" => m \in Reach(g, own)
  BY DEF Outcomes
<1>2. PICK k \in 1 .. Len(T) : /\ FirstIn(g, st, T) = Id(k) /\ Id(k) \in DOMAIN st /\ IsFailed(st[Id(k)])
                               /\ \A b \in 1 .. Len(T) : IsFailed(st[Id(b)]) => k <= b
  BY <1>1, FirstOfFailed
<1>3. Len(T) \in Nat /\ \A b \in 1 .. Len(T) : T[b] \in DOMAIN g.nodes
  BY DEF Permutes
<1>4. own \subseteq S
  <2> SUFFICES ASSUME NEW m \in own PROVE m \in S
    OBVIOUS
  <2>1. PICK j \in DOMAIN g.nodes : g.nodes[j].id = m
    BY DEF Ids
  <2>2. PICK b \in 1 .. Len(T) : T[b] = j
    BY DEF Permutes, Among
  <2>3. Id(b) = m /\ b \in 1 .. b
    BY <1>3, <2>1, <2>2
  <2> HIDE DEF own
  <2> QED BY <2>3 DEF own
<1>5. Closed(g.edges, S)
  <2> SUFFICES ASSUME NEW x \in DOMAIN g.edges, g.edges[x].from \in S PROVE g.edges[x].to \in S
    BY DEF Closed
  <2>1. /\ Source(g, x) \in DOMAIN g.nodes /\ g.nodes[Source(g, x)].id = g.edges[x].from
        /\ Target(g, x) \in DOMAIN g.nodes /\ g.nodes[Target(g, x)].id = g.edges[x].to
    BY EndsIndexed
  <2>2. PICK c \in 1 .. Len(T) : T[c] = Target(g, x)
    BY <2>1 DEF Permutes, Among
  <2>3. PICK d \in 1 .. c - 1 : T[d] = Source(g, x)
    BY <2>2 DEF Respects
  <2>4. PICK b \in 1 .. Len(T) : Id(b) = g.edges[x].from /\ \E a \in 1 .. b : Id(a) \in own
    OBVIOUS
  <2>5. d \in 1 .. Len(T) /\ d < c
    BY <1>3, <2>3
  <2>6. T[b] = T[d]
    BY <1>3, <2>1, <2>3, <2>4, <2>5 DEF Distinct
  <2>7. b = d
    BY <2>5, <2>6 DEF Permutes, OneToOne
  <2>8. PICK a \in 1 .. b : Id(a) \in own
    BY <2>4
  <2>9. a \in 1 .. c
    BY <1>3, <2>5, <2>7
  <2>10. Id(c) = g.edges[x].to /\ g.edges[x].to \in Ids(g)
    BY <2>1, <2>2 DEF Ids
  <2> HIDE DEF own
  <2> QED BY <2>8, <2>9, <2>10
<1>6. CASE st[Id(k)] = "Failed"
  BY <1>2, <1>6
<1>7. CASE st[Id(k)] = "Dependency failed"
  <2>1. Id(k) \in S
    <3>1. Id(k) \in Reach(g, own)
      BY <1>1, <1>2, <1>7
    <3>2. S \in SUBSET Ids(g)
      OBVIOUS
    <3> HIDE DEF S, own
    <3> QED BY <1>4, <1>5, <3>1, <3>2 DEF Reach
  <2>2. PICK b \in 1 .. Len(T) : Id(b) = Id(k) /\ \E a \in 1 .. b : Id(a) \in own
    BY <2>1
  <2>3. T[b] = T[k]
    BY <1>3, <2>2 DEF Distinct
  <2>4. b = k
    BY <2>3 DEF Permutes, OneToOne
  <2>5. PICK a \in 1 .. k : Id(a) \in own
    BY <2>2, <2>4
  <2>6. a \in 1 .. Len(T) /\ a <= k
    BY <1>3, <2>5
  <2>7. IsFailed(st[Id(a)])
    BY <2>5 DEF IsFailed
  <2>8. k <= a
    BY <1>2, <2>6, <2>7
  <2>9. a = k
    BY <1>3, <2>6, <2>8
  <2> QED BY <1>7, <2>5, <2>9
<1> QED BY <1>2, <1>6, <1>7 DEF IsFailed

LEMMA TellsNodes ==
    ASSUME ReplayInv, SoundInv, OutcomeInv
    PROVE  NodesTold
<1> SUFFICES ASSUME NEW e \in Execs
             PROVE  /\ response[e] = "ok" => \A m \in Ids(graph[e]) :
                          Cardinality(FinishedAt(e, m))
                            = Cardinality({i \in DOMAIN graph[e].nodes : graph[e].nodes[i].id = m})
                    /\ response[e] = "upstream" =>
                          NamesFailed(emitted[e][Len(emitted[e])].node, states[e])
                    /\ \A n \in DOMAIN states[e] :
                          response[e] = "upstream" /\ Distinct(graph[e]) /\ ~Looping(graph[e])
                            /\ IsFailed(states[e][n])
                          => states[e][emitted[e][Len(emitted[e])].node] = "Failed"
  BY DEF NodesTold, NamesFailed
<1> DEFINE g == graph[e]
           T == topological_order(g)
<1>1. Finite(g) /\ Permutes(g, T)
  BY OrderKnown
<1>2. response[e] \in {"ok", "upstream"} => Answered(response[e], g, states[e], order[e], emitted[e])
  <2>1. response[e] \in {"ok", "upstream"} => pc[e] = "done"
    BY DEF OutcomeInv, Outcome
  <2> QED BY <2>1 DEF ReplayInv, StoryOf, Story
<1>3. ASSUME response[e] = "ok", NEW m \in Ids(graph[e])
      PROVE  Cardinality(FinishedAt(e, m)) = Cardinality({i \in DOMAIN g.nodes : g.nodes[i].id = m})
  <2>1. NodesSent(g, emitted[e], Len(T))
    BY <1>2, <1>3 DEF Answered
  <2> HIDE DEF g
  <2> QED BY <1>1, <2>1, TellsEach DEF FinishedAt
<1>4. ASSUME response[e] = "upstream"
      PROVE  /\ states[e] \in Outcomes(g) /\ DOMAIN states[e] = Ids(g)
             /\ emitted[e][Len(emitted[e])].node = FirstIn(g, states[e], T)
  <2>1. /\ states[e] \in Outcomes(g) /\ order[e] = T
        /\ emitted[e][Len(emitted[e])].node = FirstIn(g, states[e], order[e])
    BY <1>2, <1>4 DEF Answered, FailedRun
  <2>2. DOMAIN states[e] = Ids(g)
    BY <2>1 DEF Outcomes
  <2> HIDE DEF T
  <2> QED BY <2>1, <2>2
<1> HIDE DEF T
<1>5. ASSUME response[e] = "upstream"
      PROVE  NamesFailed(emitted[e][Len(emitted[e])].node, states[e])
  <2> HIDE DEF g
  <2> QED BY <1>1, <1>4, <1>5, FailedNamed
<1>6. ASSUME response[e] = "upstream", Distinct(g), ~Looping(g),
             NEW n \in DOMAIN states[e], IsFailed(states[e][n])
      PROVE  states[e][emitted[e][Len(emitted[e])].node] = "Failed"
  <2>1. Finite(g) /\ EdgesKnown(g) /\ Permutes(g, T) /\ Respects(g, T)
    BY <1>6, OrderKnown DEF Looping, T
  <2>2. states[e][FirstIn(g, states[e], T)] = "Failed"
    <3> HIDE DEF g
    <3> QED BY <1>4, <1>6, <2>1, CulpritNamed
  <2> QED BY <1>4, <1>6, <2>2
<1> QED BY <1>3, <1>5, <1>6

LEMMA TellsInOrder ==
    ASSUME ReplayInv, SoundInv
    PROVE  FinishedAfterInputs
<1> SUFFICES ASSUME NEW e \in Execs, Distinct(graph[e]), ~Looping(graph[e]),
                    NEW x \in DOMAIN graph[e].edges, NEW k \in FinishedAt(e, graph[e].edges[x].to)
             PROVE  \E j \in FinishedAt(e, graph[e].edges[x].from) : j < k
  BY DEF FinishedAfterInputs
<1> DEFINE g == graph[e]
           em == emitted[e]
           T == topological_order(g)
<1>1. Finite(g) /\ EdgesKnown(g) /\ Permutes(g, T) /\ Respects(g, T)
  BY OrderKnown DEF Looping
<1>2. PICK p \in 0 .. Len(T) : NodesSent(g, em, p)
  BY SentSoFar
<1>3. /\ {i \in DOMAIN em : em[i].kind = "NodeFinished"} = {At(b) : b \in 1 .. p}
      /\ \A b \in 1 .. p : em[At(b)] = [kind |-> "NodeFinished", node |-> g.nodes[T[b]].id]
  BY <1>2 DEF NodesSent, Finishes
<1>4. k \in DOMAIN em /\ em[k] = [kind |-> "NodeFinished", node |-> g.edges[x].to]
  BY DEF FinishedAt
<1>5. /\ Source(g, x) \in DOMAIN g.nodes /\ g.nodes[Source(g, x)].id = g.edges[x].from
      /\ Target(g, x) \in DOMAIN g.nodes /\ g.nodes[Target(g, x)].id = g.edges[x].to
  <2>1. x \in DOMAIN g.edges
    OBVIOUS
  <2> HIDE DEF g
  <2> QED BY <1>1, <2>1, EndsIndexed
<1>6. \A b \in 1 .. Len(T) : T[b] \in DOMAIN g.nodes
  <2>1. T \in Seq(DOMAIN g.nodes)
    BY <1>1 DEF Permutes
  <2> HIDE DEF T
  <2> QED BY <2>1
<1>7. Len(T) \in Nat
  <2>1. T \in Seq(DOMAIN g.nodes)
    BY <1>1 DEF Permutes
  <2> HIDE DEF T
  <2> QED BY <2>1
<1>8. PICK b \in 1 .. p : k = At(b)
  <2>1. em[k].kind = "NodeFinished"
    BY <1>4
  <2> QED BY <1>3, <1>4, <2>1
<1> HIDE DEF T
<1>9. b \in 1 .. Len(T) /\ p \in Nat /\ p <= Len(T)
  BY <1>2, <1>7, <1>8
<1>10. T[b] = Target(g, x)
  <2>1. em[k] = [kind |-> "NodeFinished", node |-> g.nodes[T[b]].id]
    BY <1>3, <1>8
  <2>2. em[k].node = g.nodes[T[b]].id /\ em[k].node = g.edges[x].to
    BY <1>4, <2>1
  <2>3. T[b] \in DOMAIN g.nodes
    BY <1>6, <1>9
  <2> QED BY <1>5, <2>2, <2>3 DEF Distinct
<1>11. PICK a \in 1 .. b - 1 : T[a] = Source(g, x)
  BY <1>1, <1>9, <1>10 DEF Respects
<1>12. a \in 1 .. p /\ a < b /\ At(a) < At(b)
  BY <1>8, <1>9, <1>11 DEF At
<1>13. At(a) \in FinishedAt(e, g.edges[x].from)
  <2>1. em[At(a)] = [kind |-> "NodeFinished", node |-> g.edges[x].from]
    BY <1>3, <1>5, <1>11, <1>12
  <2>2. At(a) \in DOMAIN em
    BY <1>3, <1>12
  <2> QED BY <2>1, <2>2 DEF FinishedAt
<1> QED BY <1>8, <1>12, <1>13

LEMMA TellsKnown ==
    ASSUME ReplayInv, SoundInv
    PROVE  ReplaysNodes
<1> SUFFICES ASSUME NEW e \in Execs PROVE ToSet(order[e]) \subseteq DOMAIN graph[e].nodes
  BY DEF ReplaysNodes
<1> DEFINE g == graph[e]
           T == topological_order(g)
           o == order[e]
<1>1. T \in Seq(DOMAIN g.nodes)
  BY OrderKnown DEF Permutes
<1>2. CASE o = <<>>
  BY <1>2 DEF ToSet
<1>3. CASE o = T
  <2> HIDE DEF T
  <2> QED BY <1>1, <1>3 DEF ToSet
<1>4. CASE Remains(T, o)
  <2> HIDE DEF T, o
  <2>1. Sequence(o)
    BY <1>4 DEF Remains, Sequence
  <2>2. ASSUME NEW k \in DOMAIN o PROVE o[k] \in DOMAIN g.nodes
    <3>1. k \in 1 .. Len(o) /\ Len(o) \in Nat /\ Len(T) \in Nat /\ Len(o) <= Len(T)
      BY <1>1, <1>4, <2>1, <2>2 DEF Remains, Sequence
    <3>2. Len(T) - Len(o) + k \in 1 .. Len(T) /\ o[k] = T[Len(T) - Len(o) + k]
      BY <1>4, <3>1 DEF Remains
    <3> QED BY <1>1, <3>2
  <2>3. ToSet(o) \subseteq DOMAIN g.nodes
    <3>1. ToSet(o) = {o[k] : k \in DOMAIN o}
      BY DEF ToSet
    <3> QED BY <2>2, <3>1
  <2> QED BY <2>3 DEF o
<1>5. StoryOf(e)
  BY DEF ReplayInv
<1>6. CASE pc[e] \in {"scheduled", "starting", "started"}
  BY <1>4, <1>5, <1>6 DEF StoryOf, Story, Replaying
<1>7. CASE pc[e] \in {"new", "policy", "compile", "schedule", "failed", "failing"}
  BY <1>2, <1>3, <1>5, <1>7 DEF StoryOf, Story, Quiet, FailedRun
<1>8. CASE pc[e] = "done"
  <2>1. Answered(response[e], g, states[e], o, emitted[e])
    BY <1>5, <1>8 DEF StoryOf, Story
  <2> QED BY <1>2, <1>3, <2>1 DEF Answered, Quiet, FailedRun
<1>9. pc[e] \in {"new", "policy", "compile", "schedule", "failed", "failing", "scheduled", "starting",
                 "started", "done"}
  BY <1>5 DEF StoryOf, Story
<1> QED BY <1>6, <1>7, <1>8, <1>9

LEMMA ReplayInvSuffices == ReplayInv /\ SoundInv /\ OutcomeInv => EventsFaithful
BY OutcomeInvSuffices, TellsNodes, TellsInOrder, TellsKnown DEF EventsFaithful

\* Whatever is submitted and however executions, faults and the listener interleave:
\* an execution answered ok has told the completion of every node exactly once, each
\* after those of all it waits for although ready nodes are popped from a stack; one
\* answered as failed names a failed node, however many failed and failed others with
\* them, and, but for back edges and duplicate ids, one that failed by itself; and the
\* terminal event is that of the answer (execution.rs:182, 314, 324, lib.rs:558).
THEOREM EventsAreFaithful == Spec => []EventsFaithful
BY ReplayInvariant, SoundInvariant, OutcomeInvariant, ReplayInvSuffices, PTL
=============================================================================
