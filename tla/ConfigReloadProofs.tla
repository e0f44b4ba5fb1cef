------------------------ MODULE ConfigReloadProofs ------------------------
(***************************************************************************)
(* Proofs about module ConfigReload, for any callers and configurations.   *)
(*                                                                         *)
(* The reload lock lets one caller at a time read, prepare and commit.     *)
(* What a commit takes over is what this reload has staged, because every  *)
(* prepare overwrites what a failed reload may have left; so the           *)
(* invariant follows the position of the commit: the components before it  *)
(* serve the new configuration, the slots after it still hold it, and the  *)
(* routes change from the old providers to the new ones in one step.       *)
(***************************************************************************)
EXTENDS ConfigReload, TLAPS

Names == {"features", "auth", "limits", "connectors", "providers"}
AllConnectors == UNION {cfg.connectors : cfg \in Configs}
Offers == [gen : Nat, config : Configs]
Reloads == [pc : {"idle", "waiting", "reading", "rereading", "prepare", "commit"},
            gen : Nat, config : Configs \union {None}, next : Nat,
            todo : SUBSET AllConnectors, result : {"none", "ok", "error"}]

Holds(c) == reload[c].pc \notin {"idle", "waiting"}
Carries(c) == reload[c].pc \in {"prepare", "commit"}
Offer(c) == [gen |-> reload[c].gen, config |-> reload[c].config]

Types ==
    /\ file \in Configs /\ edits \in 0..MaxEdits /\ errors \in 0..MaxErrors
    /\ pending \subseteq Callers
    /\ lock \in Callers \union {NoLock}
    /\ reload \in [Callers -> Reloads]
    /\ generation \in Nat /\ generation >= 1
    /\ snapshot \in [generation : Nat, config : Configs]
    /\ snapshot.generation >= 1 /\ snapshot.generation <= generation
    /\ staged \in [Names -> Offers \union {None}]
    /\ features \in [Features -> BOOLEAN]
    /\ Early \subseteq subscribed /\ Early \subseteq applied

\* The lock is held by the caller that reads, prepares or commits (manager.rs:78).
LockHeld == \A c \in Callers : lock = c <=> Holds(c)

\* A caller that has read the file carries that configuration and the latest
\* generation.
CarriesLatest ==
    \A c \in Callers : Carries(c) =>
        /\ reload[c].config \in Configs
        /\ reload[c].gen = generation /\ generation > 1

\* The registered subscribers asked so far have staged what the caller carries.
PreparedSoFar ==
    \A c \in Callers : reload[c].pc = "prepare" =>
        /\ reload[c].next \in 1..6
        /\ \A i \in 1..5 : i < reload[c].next /\ Subscribers[i] \in subscribed =>
                              staged[Subscribers[i]] = Offer(c)

FeaturesFollow(cfg) ==
    \A f \in Features : cfg.features[f] # "unset" => features[f] = (cfg.features[f] = "on")
DefaultFollows(cfg, g) ==
    cfg.providers # {} => default_target = Target(select_default_provider_name(cfg.providers), g)
ConnectorsFollow(cfg) == connectors = cfg.connectors /\ capability_map = cfg.connectors

\* What a commit has not taken over yet is still staged ...
StillStaged(c) ==
    /\ reload[c].next <= 1 => staged["features"] = Offer(c)
    /\ reload[c].next <= 2 /\ "auth" \in subscribed => staged["auth"] = Offer(c)
    /\ reload[c].next <= 3 /\ "limits" \in subscribed => staged["limits"] = Offer(c)
    /\ reload[c].next <= 4 => staged["connectors"] = Offer(c)
    /\ reload[c].next <= 9 => staged["providers"] = Offer(c)

\* ... and what it has taken over is served; the routes are those of the published
\* configuration until they are those of the new one.
TakenOver(c) ==
    LET cfg == reload[c].config
        g   == reload[c].gen
        k   == reload[c].next
    IN  /\ k > 1 => FeaturesFollow(cfg)
        /\ k > 2 /\ "auth" \in subscribed => auth = cfg.auth
        /\ k > 3 /\ "limits" \in subscribed => limits = cfg.limits
        /\ k = 5 => connectors = {} /\ reload[c].todo = cfg.connectors
        /\ k = 6 => connectors \union reload[c].todo = cfg.connectors /\ capability_map = connectors
        /\ k > 6 => ConnectorsFollow(cfg)
        /\ k <= 7 => prefixes = TargetsOf(snapshot.config, snapshot.generation)
        /\ k > 7 => prefixes = TargetsOf(cfg, g)
        /\ k > 8 => targets = TargetsOf(cfg, g)
        /\ k > 9 => DefaultFollows(cfg, g)

CommitFollows ==
    \A c \in Callers : reload[c].pc = "commit" =>
        reload[c].next \in 1..10 /\ StillStaged(c) /\ TakenOver(c)

\* Outside a commit every component serves the published configuration if its
\* subscriber was registered when that was published.
Serves(cfg, g) ==
    /\ FeaturesFollow(cfg)
    /\ "auth" \in applied => auth = cfg.auth
    /\ "limits" \in applied => limits = cfg.limits
    /\ prefixes = TargetsOf(cfg, g) /\ targets = TargetsOf(cfg, g)
    /\ g > 1 => DefaultFollows(cfg, g) /\ ConnectorsFollow(cfg)
NoCommit == \A c \in Callers : reload[c].pc # "commit"
SettledServes == NoCommit => Serves(snapshot.config, snapshot.generation)

\* The last signal is still to be taken, or to be read, or is being carried; or it has
\* been dealt with, and nothing older can be published any more.
SignalAhead ==
    \/ pending # {}
    \/ \E c \in Callers : reload[c].pc \in {"waiting", "reading", "rereading"}
    \/ \E c \in Callers : Carries(c) /\ reload[c].config = signal
SignalServed ==
    /\ snapshot.config = signal \/ Refused(signal)
    /\ \A c \in Callers : Carries(c) => reload[c].config = signal
SignalKept == signal # None => signal = file /\ (SignalAhead \/ SignalServed \/ unread)

ReloadInv ==
    /\ Types /\ LockHeld /\ CarriesLatest /\ PreparedSoFar
    /\ CommitFollows /\ SettledServes /\ SignalKept

-----------------------------------------------------------------------------
(* Sequences, records and the lock. *)

LEMMA SubscriberNames ==
    /\ Len(Subscribers) = 5
    /\ Subscribers[1] = "features" /\ Subscribers[2] = "auth" /\ Subscribers[3] = "limits"
    /\ Subscribers[4] = "connectors" /\ Subscribers[5] = "providers"
    /\ DOMAIN Subscribers = 1..5
    /\ \A i \in 1..5 : Subscribers[i] \in Names
<1>1. \A i \in 1..5 : i = 1 \/ i = 2 \/ i = 3 \/ i = 4 \/ i = 5
  OBVIOUS
<1> QED BY <1>1 DEF Subscribers, Names

LEMMA CommitNames ==
    /\ Len(Commits) = 9
    /\ \A k \in 1..9 : /\ Commits[k] = "features" <=> k = 1
                       /\ Commits[k] = "auth" <=> k = 2
                       /\ Commits[k] = "limits" <=> k = 3
                       /\ Commits[k] = "connectors" <=> k = 4
                       /\ Commits[k] = "capability_map" <=> k = 5
                       /\ Commits[k] = "register" <=> k = 6
                       /\ Commits[k] = "prefixes" <=> k = 7
                       /\ Commits[k] = "targets" <=> k = 8
                       /\ Commits[k] = "default" <=> k = 9
<1>1. \A k \in 1..9 : k = 1 \/ k = 2 \/ k = 3 \/ k = 4 \/ k = 5 \/ k = 6 \/ k = 7 \/ k = 8 \/ k = 9
  OBVIOUS
<1> QED BY <1>1 DEF Commits

LEMMA OffersAreStaged == \A o \in Offers : o # None
BY DEF Offers, None

LEMMA IdleShape ==
    /\ Idle \in Reloads /\ Idle.pc = "idle"
    /\ [Idle EXCEPT !.pc = "waiting"] \in Reloads
    /\ [Idle EXCEPT !.pc = "waiting"].pc = "waiting"
    /\ \A r \in {"none", "ok", "error"} : /\ [Idle EXCEPT !.result = r] \in Reloads
                                         /\ [Idle EXCEPT !.result = r].pc = "idle"
BY DEF Idle, Reloads

\* The lock: while one caller is past it, every other is before it.
LEMMA OneHolder ==
    ASSUME LockHeld, NEW c \in Callers, NEW d \in Callers, Holds(c), Holds(d)
    PROVE  c = d
BY DEF LockHeld

LEMMA CarriersHold ==
    ASSUME NEW c
    PROVE  Carries(c) => Holds(c)
BY DEF Carries, Holds

-----------------------------------------------------------------------------
(* The initial state. *)

LEMMA ReloadInit == Init => ReloadInv
<1> SUFFICES ASSUME Init PROVE ReloadInv
  OBVIOUS
<1>1. \A c \in Callers : reload[c] = Idle /\ reload[c].pc = "idle"
  BY IdleShape DEF Init
<1>2. \A c \in Callers : ~Holds(c) /\ ~Carries(c)
  BY <1>1 DEF Holds, Carries
<1>3. \A f \in Features : DefaultFeatures[f] \in BOOLEAN
  BY ReloadAssumption
<1>4. features \in [Features -> BOOLEAN] /\ FeaturesFollow(Started)
  BY <1>3 DEF Init, apply_config, FeaturesFollow
<1>5. Names = {Subscribers[i] : i \in DOMAIN Subscribers}
  <2>1. \A i \in 1..5 : i = 1 \/ i = 2 \/ i = 3 \/ i = 4 \/ i = 5
    OBVIOUS
  <2> QED BY <2>1, SubscriberNames DEF Names
<1>6. staged \in [Names -> Offers \union {None}]
  BY <1>5 DEF Init
<1>7. /\ snapshot \in [generation : Nat, config : Configs]
      /\ snapshot.generation = 1 /\ snapshot.config = Started
  BY ReloadAssumption DEF Init
<1>8. reload \in [Callers -> Reloads]
  BY IdleShape DEF Init
<1>9. Types
  <2>1. Early \subseteq subscribed /\ Early \subseteq applied
    BY <1>5 DEF Init, Early, Names
  <2> QED BY <1>4, <1>6, <1>7, <1>8, <2>1, ReloadAssumption DEF Init, Types
<1>10. LockHeld /\ CarriesLatest
  BY <1>2, ReloadAssumption DEF Init, LockHeld, CarriesLatest, NoLock
<1>11. PreparedSoFar /\ CommitFollows
  BY <1>1 DEF PreparedSoFar, CommitFollows
<1>12. Serves(Started, 1)
  BY <1>4 DEF Init, Serves
<1>13. SettledServes /\ SignalKept
  BY <1>7, <1>12 DEF Init, SettledServes, SignalKept
<1> QED BY <1>9, <1>10, <1>11, <1>13 DEF ReloadInv

-----------------------------------------------------------------------------
(* What a step leaves alone. *)

LEMMA SetOne ==
    ASSUME reload \in [Callers -> Reloads], NEW c \in Callers, NEW r \in Reloads, Set(c, r)
    PROVE  /\ reload' \in [Callers -> Reloads] /\ reload'[c] = r
           /\ \A d \in Callers : d # c => reload'[d] = reload[d]
BY DEF Set

\* The commit of a caller, where neither it nor anything it reads or writes moves.
LEMMA CommitFrame ==
    ASSUME NEW d, reload'[d] = reload[d], UNCHANGED <<staged, snapshot, subscribed, served>>,
           StillStaged(d), TakenOver(d)
    PROVE  StillStaged(d)' /\ TakenOver(d)'
<1>1. StillStaged(d)'
  BY DEF StillStaged, Offer
<1>2. TakenOver(d)'
  BY DEF TakenOver, served, FeaturesFollow, ConnectorsFollow, DefaultFollows
<1> QED BY <1>1, <1>2

LEMMA ServesFrame ==
    ASSUME UNCHANGED <<snapshot, applied, served>>, Serves(snapshot.config, snapshot.generation)
    PROVE  Serves(snapshot.config, snapshot.generation)'
BY DEF Serves, served, FeaturesFollow, ConnectorsFollow, DefaultFollows

\* A step of a caller outside the commit phase leaves what is served alone; it stages
\* something only under the lock, and then no other caller commits.
LEMMA OutsideCommit ==
    ASSUME ReloadInv, NEW c \in Callers, NEW r \in Reloads, Set(c, r),
           reload[c].pc # "commit", r.pc # "commit",
           UNCHANGED <<snapshot, applied, subscribed, served>>, Holds(c) \/ UNCHANGED staged
    PROVE  CommitFollows' /\ SettledServes'
<1>1. \A d \in Callers : d # c => reload'[d] = reload[d]
  BY SetOne DEF ReloadInv, Types
<1>2. reload'[c].pc # "commit"
  BY SetOne DEF ReloadInv, Types
<1>3. CommitFollows'
  <2> SUFFICES ASSUME NEW d \in Callers, reload'[d].pc = "commit"
               PROVE  reload'[d].next \in 1..10 /\ StillStaged(d)' /\ TakenOver(d)'
    BY DEF CommitFollows
  <2>1. d # c /\ reload'[d] = reload[d] /\ Holds(d)
    BY <1>1, <1>2 DEF Holds
  <2>2. UNCHANGED staged
    BY <2>1, OneHolder DEF ReloadInv
  <2>3. reload[d].next \in 1..10 /\ StillStaged(d) /\ TakenOver(d)
    BY <2>1 DEF ReloadInv, CommitFollows
  <2> QED BY <2>1, <2>2, <2>3, CommitFrame
<1>4. SettledServes'
  <2> SUFFICES ASSUME NoCommit' PROVE Serves(snapshot.config, snapshot.generation)'
    BY DEF SettledServes
  <2>1. NoCommit
    BY <1>1 DEF NoCommit
  <2> QED BY <2>1, ServesFrame DEF ReloadInv, SettledServes
<1> QED BY <1>3, <1>4

LEMMA TypesFrame ==
    ASSUME Types, NEW c \in Callers, NEW r \in Reloads, Set(c, r),
           lock' \in Callers \union {NoLock}, pending' \subseteq Callers,
           UNCHANGED <<file, edits, snapshot, applied, subscribed, features>>,
           errors' = errors \/ errors' \in 0..MaxErrors,
           generation' \in Nat, generation' >= generation,
           staged' \in [Names -> Offers \union {None}]
    PROVE  Types'
<1>1. reload' \in [Callers -> Reloads]
  BY SetOne DEF Types
<1>2. /\ snapshot' \in [generation : Nat, config : Configs]
      /\ snapshot'.generation \in Nat /\ snapshot'.generation >= 1
      /\ snapshot'.generation <= generation
  BY DEF Types
<1>3. generation \in Nat /\ generation >= 1
  BY DEF Types
<1>4. generation' >= 1 /\ snapshot'.generation <= generation'
  BY <1>2, <1>3
<1> QED BY <1>1, <1>2, <1>4 DEF Types

-----------------------------------------------------------------------------
(* The operator. *)

LEMMA ReloadFrame ==
    ASSUME ReloadInv, UNCHANGED <<subscribed, reloadState, served>>
    PROVE  /\ LockHeld' /\ CarriesLatest' /\ PreparedSoFar' /\ CommitFollows' /\ SettledServes'
<1> USE DEF reloadState
<1>1. LockHeld' /\ CarriesLatest' /\ PreparedSoFar'
  BY DEF ReloadInv, LockHeld, Holds, CarriesLatest, Carries, PreparedSoFar, Offer
<1>2. CommitFollows'
  BY CommitFrame DEF ReloadInv, CommitFollows
<1>3. SettledServes'
  BY ServesFrame DEF ReloadInv, SettledServes, NoCommit
<1> QED BY <1>1, <1>2, <1>3

LEMMA EditStep ==
    ASSUME ReloadInv, NEW cfg \in Configs, Edit(cfg)
    PROVE  ReloadInv'
<1>1. LockHeld' /\ CarriesLatest' /\ PreparedSoFar' /\ CommitFollows' /\ SettledServes'
  BY ReloadFrame DEF Edit
<1>2. Types'
  <2>1. edits' \in 0..MaxEdits
    BY ReloadAssumption DEF ReloadInv, Types, Edit
  <2> QED BY <2>1 DEF ReloadInv, Types, Edit, reloadState, served
<1>3. SignalKept'
  BY DEF Edit, SignalKept
<1> QED BY <1>1, <1>2, <1>3 DEF ReloadInv

LEMMA SighupStep ==
    ASSUME ReloadInv, NEW c \in Callers, Sighup(c)
    PROVE  ReloadInv'
<1>1. LockHeld' /\ CarriesLatest' /\ PreparedSoFar' /\ CommitFollows' /\ SettledServes'
  BY ReloadFrame DEF Sighup
<1>2. Types'
  BY DEF ReloadInv, Types, Sighup, reloadState, served
<1>3. SignalKept'
  BY DEF Sighup, SignalKept, SignalAhead
<1> QED BY <1>1, <1>2, <1>3 DEF ReloadInv

\* A subscriber is registered while no reload prepares or commits.
LEMMA SubscribeStep ==
    ASSUME ReloadInv, NEW s, Subscribe(s)
    PROVE  ReloadInv'
<1>1. /\ UNCHANGED <<file, edits, signal, unread, errors, pending, reloadState, served>>
      /\ subscribed \subseteq subscribed'
      /\ \A c \in Callers : reload'[c] = reload[c] /\ reload[c].pc \notin {"prepare", "commit"}
  BY DEF Subscribe, reloadState
<1>2. Types'
  BY <1>1 DEF ReloadInv, Types, reloadState, served
<1>3. LockHeld' /\ CarriesLatest'
  BY <1>1 DEF ReloadInv, LockHeld, Holds, CarriesLatest, Carries, reloadState
<1>4. PreparedSoFar' /\ CommitFollows'
  BY <1>1 DEF PreparedSoFar, CommitFollows
<1>5. SettledServes'
  BY <1>1, ServesFrame DEF ReloadInv, SettledServes, NoCommit, reloadState
<1>6. SignalKept'
  BY <1>1 DEF ReloadInv, SignalKept, SignalAhead, SignalServed, Carries, Refused, reloadState
<1> QED BY <1>2, <1>3, <1>4, <1>5, <1>6 DEF ReloadInv

-----------------------------------------------------------------------------
(* Up to the lock. *)

LEMMA BeginStep ==
    ASSUME ReloadInv, NEW c \in Callers, Begin(c)
    PROVE  ReloadInv'
<1> DEFINE r == [Idle EXCEPT !.pc = "waiting"]
<1>1. r \in Reloads /\ r.pc = "waiting" /\ Set(c, r)
  BY IdleShape DEF Begin
<1> HIDE DEF r
<1>2. /\ reload' \in [Callers -> Reloads] /\ reload'[c] = r
      /\ \A d \in Callers : d # c => reload'[d] = reload[d]
  BY <1>1, SetOne DEF ReloadInv, Types
<1>3. CommitFollows' /\ SettledServes'
  BY <1>1, OutsideCommit DEF Begin
<1>4. Types'
  <2>1. /\ lock' \in Callers \union {NoLock} /\ pending' \subseteq Callers
        /\ generation' \in Nat /\ generation' >= generation
        /\ staged' \in [Names -> Offers \union {None}]
    BY DEF ReloadInv, Types, Begin
  <2> QED BY <1>1, <2>1, TypesFrame DEF ReloadInv, Begin, served
<1>5. LockHeld'
  BY <1>1, <1>2 DEF ReloadInv, LockHeld, Holds, Begin
<1>6. CarriesLatest' /\ PreparedSoFar'
  BY <1>1, <1>2 DEF ReloadInv, CarriesLatest, Carries, PreparedSoFar, Offer, Begin
<1>7. SignalKept'
  BY <1>1, <1>2 DEF ReloadInv, SignalKept, SignalAhead, Begin
<1> QED BY <1>3, <1>4, <1>5, <1>6, <1>7 DEF ReloadInv

LEMMA AcquireStep ==
    ASSUME ReloadInv, NEW c \in Callers, Acquire(c)
    PROVE  ReloadInv'
<1> DEFINE r == [reload[c] EXCEPT !.pc = "reading"]
<1>1. r \in Reloads /\ r.pc = "reading" /\ Set(c, r)
  BY DEF Acquire, ReloadInv, Types, Reloads
<1> HIDE DEF r
<1>2. /\ reload' \in [Callers -> Reloads] /\ reload'[c] = r
      /\ \A d \in Callers : d # c => reload'[d] = reload[d]
  BY <1>1, SetOne DEF ReloadInv, Types
<1>3. CommitFollows' /\ SettledServes'
  BY <1>1, OutsideCommit DEF Acquire
<1>4. Types'
  <2>1. /\ lock' \in Callers \union {NoLock} /\ pending' \subseteq Callers
        /\ generation' \in Nat /\ generation' >= generation
        /\ staged' \in [Names -> Offers \union {None}]
    BY DEF ReloadInv, Types, Acquire
  <2> QED BY <1>1, <2>1, TypesFrame DEF ReloadInv, Acquire, served
<1>5. LockHeld'
  <2>1. \A d \in Callers : ~Holds(d)
    BY ReloadAssumption DEF ReloadInv, LockHeld, Acquire, NoLock
  <2> QED BY <1>1, <1>2, <2>1 DEF LockHeld, Holds, Acquire
<1>6. CarriesLatest' /\ PreparedSoFar'
  BY <1>1, <1>2 DEF ReloadInv, CarriesLatest, Carries, PreparedSoFar, Offer, Acquire
<1>7. SignalKept'
  BY <1>1, <1>2 DEF ReloadInv, SignalKept, SignalAhead, Acquire
<1> QED BY <1>3, <1>4, <1>5, <1>6, <1>7 DEF ReloadInv

-----------------------------------------------------------------------------
(* Reading and preparing. *)

\* A step of the holder after which it still holds the lock, outside the commit phase:
\* the others are before the lock, so only what the holder carries is in question.
LEMMA HolderStep ==
    ASSUME ReloadInv, NEW c \in Callers, NEW r \in Reloads, Set(c, r), Holds(c),
           reload[c].pc # "commit", r.pc \notin {"idle", "waiting", "commit"},
           UNCHANGED <<file, edits, signal, subscribed, pending, lock, snapshot, applied, served>>,
           errors' = errors \/ errors' \in 0..MaxErrors,
           generation' \in Nat, generation' >= generation,
           staged' \in [Names -> Offers \union {None}],
           r.pc = "prepare" =>
               /\ r.config \in Configs /\ r.gen = generation' /\ generation' > 1
               /\ r.next \in 1..6
               /\ \A i \in 1..5 : i < r.next /\ Subscribers[i] \in subscribed =>
                      staged'[Subscribers[i]] = [gen |-> r.gen, config |-> r.config],
           SignalKept'
    PROVE  ReloadInv'
<1>1. /\ reload' \in [Callers -> Reloads] /\ reload'[c] = r
      /\ \A d \in Callers : d # c => reload'[d] = reload[d]
  BY SetOne DEF ReloadInv, Types
<1>2. CommitFollows' /\ SettledServes'
  BY OutsideCommit
<1>3. Types'
  <2>1. lock' \in Callers \union {NoLock} /\ pending' \subseteq Callers
    BY DEF ReloadInv, Types
  <2> QED BY <2>1, TypesFrame DEF ReloadInv, served
<1>4. LockHeld'
  BY <1>1 DEF ReloadInv, LockHeld, Holds
<1>5. \A d \in Callers : d # c => ~Holds(d) /\ ~Carries(d) /\ reload[d].pc # "prepare"
  BY OneHolder, CarriersHold DEF ReloadInv, Holds
<1>6. CarriesLatest'
  BY <1>1, <1>5 DEF CarriesLatest, Carries
<1>7. PreparedSoFar'
  BY <1>1, <1>5 DEF PreparedSoFar, Offer
<1> QED BY <1>2, <1>3, <1>4, <1>6, <1>7 DEF ReloadInv

\* A reload that fails: the configuration it read, or the file as it is, is refused,
\* or the file was not read.
LEMMA FailsStep ==
    ASSUME ReloadInv, NEW c \in Callers, Fails(c), Holds(c), reload[c].pc # "commit",
           \/ unread'
           \/ UNCHANGED unread /\ Refused(IF Carries(c) THEN reload[c].config ELSE file),
           errors' = errors \/ errors' \in 0..MaxErrors,
           UNCHANGED <<file, edits, signal, subscribed, pending, generation, snapshot, applied,
                       staged, served>>
    PROVE  ReloadInv'
<1> DEFINE r == [Idle EXCEPT !.result = "error"]
<1>1. r \in Reloads /\ r.pc = "idle" /\ Set(c, r) /\ lock' = NoLock
  BY IdleShape DEF Fails
<1> HIDE DEF r
<1>2. /\ reload' \in [Callers -> Reloads] /\ reload'[c] = r
      /\ \A d \in Callers : d # c => reload'[d] = reload[d]
  BY <1>1, SetOne DEF ReloadInv, Types
<1>3. CommitFollows' /\ SettledServes'
  BY <1>1, OutsideCommit
<1>4. Types'
  <2>1. /\ lock' \in Callers \union {NoLock} /\ pending' \subseteq Callers
        /\ generation' \in Nat /\ generation' >= generation
        /\ staged' \in [Names -> Offers \union {None}]
    BY <1>1 DEF ReloadInv, Types
  <2> QED BY <1>1, <2>1, TypesFrame DEF ReloadInv, served
<1>5. \A d \in Callers : d # c => ~Holds(d) /\ ~Carries(d) /\ reload[d].pc # "prepare"
  BY OneHolder, CarriersHold DEF ReloadInv, Holds
<1>6. LockHeld'
  BY <1>1, <1>2, <1>5, ReloadAssumption DEF LockHeld, Holds, NoLock
<1>7. \A d \in Callers : ~Carries(d)' /\ reload'[d].pc # "prepare"
  BY <1>1, <1>2, <1>5 DEF Carries
<1>8. CarriesLatest' /\ PreparedSoFar'
  BY <1>7 DEF CarriesLatest, PreparedSoFar
<1>9. SignalKept'
  <2> SUFFICES ASSUME signal' # None, ~unread'
               PROVE  signal' = file' /\ (SignalAhead' \/ SignalServed')
    BY DEF ReloadInv, SignalKept
  <2>1. /\ signal = file /\ (SignalAhead \/ SignalServed)
        /\ Refused(IF Carries(c) THEN reload[c].config ELSE file)
    BY DEF ReloadInv, SignalKept
  <2>2. CASE Refused(signal) \/ snapshot.config = signal
    BY <1>7, <2>1, <2>2 DEF SignalServed, Refused
  <2>3. CASE ~Refused(signal) /\ snapshot.config # signal
    <3>1. Carries(c) /\ reload[c].config # signal
      BY <2>1, <2>3
    <3>2. SignalAhead
      BY <2>1, <2>3 DEF SignalServed
    <3>3. \/ pending # {}
          \/ \E d \in Callers : d # c /\ reload[d].pc \in {"waiting", "reading", "rereading"}
      BY <1>5, <3>1, <3>2 DEF SignalAhead, Carries
    <3> QED BY <1>2, <2>1, <3>3 DEF SignalAhead
  <2> QED BY <2>2, <2>3
<1> QED BY <1>3, <1>4, <1>6, <1>8, <1>9 DEF ReloadInv

LEMMA TornReadStep ==
    ASSUME ReloadInv, NEW c \in Callers, TornRead(c)
    PROVE  ReloadInv'
<1>1. Holds(c) /\ reload[c].pc # "commit" /\ ~Carries(c)
  BY DEF TornRead, Holds, Carries
<1>2. CASE reload[c].pc = "reading"
  <2> DEFINE r == [reload[c] EXCEPT !.pc = "rereading"]
  <2>1. r \in Reloads /\ r.pc = "rereading" /\ Set(c, r) /\ UNCHANGED lock
    BY <1>2 DEF TornRead, ReloadInv, Types, Reloads
  <2> HIDE DEF r
  <2>2. reload'[c] = r
    BY <2>1, SetOne DEF ReloadInv, Types
  <2>3. SignalKept'
    BY <2>1, <2>2 DEF ReloadInv, SignalKept, SignalAhead, TornRead
  <2>4. /\ generation' \in Nat /\ generation' >= generation
        /\ staged' \in [Names -> Offers \union {None}]
    BY DEF ReloadInv, Types, TornRead
  <2> QED BY <1>1, <2>1, <2>3, <2>4, HolderStep DEF TornRead
<1>3. CASE reload[c].pc # "reading"
  <2>1. Fails(c) /\ Refused(file)
    BY <1>3 DEF TornRead, Refused
  <2> QED BY <1>1, <2>1, FailsStep DEF TornRead
<1> QED BY <1>2, <1>3

LEMMA ReadFailsStep ==
    ASSUME ReloadInv, NEW c \in Callers, ReadFails(c)
    PROVE  ReloadInv'
<1>1. Holds(c) /\ reload[c].pc # "commit" /\ Fails(c) /\ unread'
  BY DEF ReadFails, Holds
<1>2. errors' \in 0..MaxErrors
  BY ReloadAssumption DEF ReadFails, ReloadInv, Types
<1> QED BY <1>1, <1>2, FailsStep DEF ReadFails

LEMMA ReadStep ==
    ASSUME ReloadInv, NEW c \in Callers, Read(c)
    PROVE  ReloadInv'
<1>1. Holds(c) /\ reload[c].pc # "commit" /\ ~Carries(c)
  BY DEF Read, Holds, Carries
<1>2. CASE file.valid
  <2> DEFINE r1 == [reload[c] EXCEPT !.pc = "prepare"]
             r2 == [r1 EXCEPT !.gen = generation + 1]
             r3 == [r2 EXCEPT !.config = file]
             r  == [r3 EXCEPT !.next = 1]
  <2>1. /\ generation \in Nat /\ generation >= 1 /\ file \in Configs /\ reload[c] \in Reloads
        /\ generation' = generation + 1 /\ UNCHANGED lock
    BY <1>2 DEF ReloadInv, Types, Read
  <2>2. Set(c, r)
    BY <1>2 DEF Read
  <2>3. r1 \in Reloads /\ r1.pc = "prepare"
    BY <2>1 DEF Reloads
  <2> HIDE DEF r1
  <2>4. r2 \in Reloads /\ r2.pc = "prepare" /\ r2.gen = generation + 1
    BY <2>1, <2>3 DEF Reloads
  <2> HIDE DEF r2
  <2>5. r3 \in Reloads /\ r3.pc = "prepare" /\ r3.gen = generation + 1 /\ r3.config = file
    BY <2>1, <2>4 DEF Reloads
  <2> HIDE DEF r3
  <2>6. /\ r \in Reloads /\ r.pc = "prepare" /\ r.gen = generation + 1 /\ r.config = file
        /\ r.next = 1
    BY <2>5 DEF Reloads
  <2> HIDE DEF r
  <2>7. reload'[c] = r
    BY <2>2, <2>6, SetOne DEF ReloadInv, Types
  <2>8. SignalKept'
    <3> SUFFICES ASSUME signal' # None
                 PROVE  signal' = file' /\ SignalAhead'
      BY DEF SignalKept
    <3>1. signal = file
      BY DEF ReloadInv, SignalKept, Read
    <3>2. Carries(c)' /\ reload'[c].config = signal'
      BY <2>6, <2>7, <3>1 DEF Carries, Read
    <3> QED BY <3>1, <3>2 DEF SignalAhead, Read
  <2>9. /\ generation' \in Nat /\ generation' >= generation /\ generation' > 1
        /\ staged' \in [Names -> Offers \union {None}]
    BY <2>1 DEF ReloadInv, Types, Read
  <2>10. /\ r.config \in Configs /\ r.gen = generation' /\ generation' > 1 /\ r.next \in 1..6
         /\ \A i \in 1..5 : ~(i < r.next)
    BY <2>1, <2>6, <2>9
  <2> QED BY <1>1, <2>1, <2>2, <2>6, <2>8, <2>9, <2>10, HolderStep DEF Read
<1>3. CASE ~file.valid
  <2>1. Fails(c) /\ Refused(file)
    BY <1>3 DEF Read, Refused
  <2> QED BY <1>1, <1>3, <2>1, FailsStep DEF Read
<1> QED BY <1>2, <1>3

LEMMA PrepareStep ==
    ASSUME ReloadInv, NEW c \in Callers, Prepare(c)
    PROVE  ReloadInv'
<1> DEFINE s == Subscribers[reload[c].next]
<1>1. /\ Holds(c) /\ reload[c].pc = "prepare" /\ Carries(c) /\ reload[c] \in Reloads
      /\ reload[c].next \in 1..5 /\ reload[c].config \in Configs
      /\ reload[c].gen = generation /\ generation > 1 /\ generation \in Nat
  BY SubscriberNames DEF Prepare, ReloadInv, Holds, Carries, PreparedSoFar, CarriesLatest, Types
<1>2. CASE s \in subscribed /\ PrepareFails(s, reload[c].config)
  <2>1. Fails(c) /\ UNCHANGED staged
    BY <1>2 DEF Prepare
  <2>2. Refused(reload[c].config)
    BY <1>1, <1>2, SubscriberNames DEF Refused
  <2> QED BY <1>1, <2>1, <2>2, FailsStep DEF Prepare
<1>3. CASE ~(s \in subscribed /\ PrepareFails(s, reload[c].config))
  <2> DEFINE r == [reload[c] EXCEPT !.next = @ + 1]
  <2>1. /\ Set(c, r) /\ UNCHANGED lock
        /\ staged' = IF s \in subscribed THEN [staged EXCEPT ![s] = Offer(c)] ELSE staged
    BY <1>3 DEF Prepare, Offer
  <2>2. /\ r \in Reloads /\ r.pc = "prepare" /\ r.next = reload[c].next + 1
        /\ r.gen = reload[c].gen /\ r.config = reload[c].config
    BY <1>1 DEF Reloads
  <2> HIDE DEF r
  <2>3. reload'[c] = r
    BY <2>1, <2>2, SetOne DEF ReloadInv, Types
  <2>4. Offer(c) \in Offers /\ s \in Names
    BY <1>1, SubscriberNames DEF Offer, Offers
  <2>5. staged \in [Names -> Offers \union {None}]
    BY DEF ReloadInv, Types
  <2>6. /\ staged' \in [Names -> Offers \union {None}] /\ (s \in subscribed => staged'[s] = Offer(c))
        /\ \A t \in Names : t # s => staged'[t] = staged[t]
    BY <2>1, <2>4, <2>5
  <2>7. \A i \in 1..5 : i < r.next /\ Subscribers[i] \in subscribed => staged'[Subscribers[i]] = Offer(c)
    <3> SUFFICES ASSUME NEW i \in 1..5, i < r.next, Subscribers[i] \in subscribed
                 PROVE  staged'[Subscribers[i]] = Offer(c)
      OBVIOUS
    <3>1. CASE i = reload[c].next
      BY <2>6, <3>1
    <3>2. CASE i # reload[c].next
      <4>1. i < reload[c].next
        BY <1>1, <2>2, <3>2
      <4>2. staged[Subscribers[i]] = Offer(c) /\ Subscribers[i] \in Names
        BY <1>1, <4>1, SubscriberNames DEF ReloadInv, PreparedSoFar
      <4>3. Subscribers[i] = s => staged'[s] = Offer(c)
        BY <2>6
      <4> QED BY <2>6, <4>2, <4>3
    <3> QED BY <3>1, <3>2
  <2>8. SignalKept'
    BY <1>1, <2>1, <2>2, <2>3, SetOne
       DEF ReloadInv, Types, SignalKept, SignalAhead, SignalServed, Carries, Refused, Prepare
  <2>9. generation' = generation /\ r.next \in 1..6
    BY <1>1, <2>2 DEF Prepare
  <2>10. Offer(c) = [gen |-> r.gen, config |-> r.config]
    BY <2>2 DEF Offer
  <2>11. /\ UNCHANGED <<file, edits, signal, subscribed, pending, lock, snapshot, applied, served>>
         /\ errors' = errors
    BY <2>1 DEF Prepare
  <2>12. \A i \in 1..5 : i < r.next /\ Subscribers[i] \in subscribed =>
            staged'[Subscribers[i]] = [gen |-> r.gen, config |-> r.config]
    BY <2>7, <2>10
  <2>13. Set(c, r) /\ Holds(c) /\ reload[c].pc # "commit"
    BY <1>1, <2>1
  <2>14. /\ generation' \in Nat /\ generation' >= generation
         /\ r.config \in Configs /\ r.gen = generation' /\ generation' > 1
    BY <1>1, <2>2, <2>9
  <2> HIDE DEF s
  <2> QED BY <2>2, <2>6, <2>8, <2>9, <2>11, <2>12, <2>13, <2>14, HolderStep
<1> QED BY <1>2, <1>3

-----------------------------------------------------------------------------
(* The commit phase. *)

\* A step of the committing caller is right when what it leaves staged and what it has
\* taken over are.
LEMMA CommitMove ==
    ASSUME ReloadInv, NEW c \in Callers, NEW r \in Reloads, Set(c, r), Carries(c),
           r.pc = "commit", r.gen = reload[c].gen, r.config = reload[c].config,
           r.next \in 1..10,
           staged' \in [Names -> Offers \union {None}], features' \in [Features -> BOOLEAN],
           UNCHANGED outside, StillStaged(c)', TakenOver(c)'
    PROVE  ReloadInv'
<1> USE DEF outside
<1>1. /\ reload' \in [Callers -> Reloads] /\ reload'[c] = r
      /\ \A d \in Callers : d # c => reload'[d] = reload[d]
  BY SetOne DEF ReloadInv, Types
<1>2. Types'
  BY <1>1 DEF ReloadInv, Types
<1>3. Holds(c)
  BY CarriersHold
<1>4. LockHeld'
  BY <1>1, <1>3 DEF ReloadInv, LockHeld, Holds
<1>5. \A d \in Callers : d # c => ~Holds(d) /\ ~Carries(d)
  BY <1>3, OneHolder, CarriersHold DEF ReloadInv
<1>6. \A d \in Callers : d # c => /\ reload'[d].pc \notin {"prepare", "commit"}
                                 /\ ~Carries(d)'
  BY <1>1, <1>5 DEF Carries
<1>7. CarriesLatest'
  BY <1>1, <1>6 DEF ReloadInv, CarriesLatest
<1>8. PreparedSoFar' /\ CommitFollows'
  BY <1>1, <1>6 DEF PreparedSoFar, CommitFollows
<1>9. SettledServes'
  BY <1>1 DEF SettledServes, NoCommit
<1>10. SignalKept'
  <2> SUFFICES ASSUME signal' # None, ~unread'
               PROVE  signal' = file' /\ (SignalAhead' \/ SignalServed')
    BY DEF ReloadInv, SignalKept
  <2>1. signal = file /\ (SignalAhead \/ SignalServed)
    BY DEF ReloadInv, SignalKept
  <2>2. Carries(c)' /\ reload'[c].config = reload[c].config
    BY <1>1 DEF Carries
  <2>3. CASE SignalAhead
    <3>1. CASE pending # {}
      BY <2>1, <3>1 DEF SignalAhead
    <3>2. CASE \E d \in Callers : reload[d].pc \in {"waiting", "reading", "rereading"}
      <4>1. PICK d \in Callers : reload[d].pc \in {"waiting", "reading", "rereading"}
        BY <3>2
      <4>2. d # c
        BY <4>1 DEF Carries
      <4> QED BY <1>1, <2>1, <4>1, <4>2 DEF SignalAhead
    <3>3. CASE \E d \in Callers : Carries(d) /\ reload[d].config = signal
      <4>1. reload[c].config = signal
        BY <1>5, <3>3
      <4> QED BY <2>1, <2>2, <4>1 DEF SignalAhead
    <3> QED BY <2>3, <3>1, <3>2, <3>3 DEF SignalAhead
  <2>4. CASE SignalServed
    <3>1. snapshot.config = signal \/ Refused(signal)
      BY <2>4 DEF SignalServed
    <3>2. \A d \in Callers : Carries(d)' => reload'[d].config = signal
      BY <1>6, <2>2, <2>4 DEF SignalServed
    <3> QED BY <2>1, <3>1, <3>2 DEF SignalServed
  <2> QED BY <2>1, <2>3, <2>4
<1> QED BY <1>2, <1>4, <1>7, <1>8, <1>9, <1>10 DEF ReloadInv

LEMMA PreparedStep ==
    ASSUME ReloadInv, NEW c \in Callers, Prepared(c)
    PROVE  ReloadInv'
<1> DEFINE r1 == [reload[c] EXCEPT !.pc = "commit"]
           r  == [r1 EXCEPT !.next = 1]
<1>1. /\ Carries(c) /\ Holds(c) /\ reload[c].pc = "prepare" /\ reload[c] \in Reloads
      /\ reload[c].next = 6
  BY SubscriberNames DEF Prepared, Carries, Holds, ReloadInv, Types, PreparedSoFar
<1>2. Set(c, r)
  BY DEF Prepared
<1>3. /\ r1 \in Reloads /\ r1.pc = "commit" /\ r1.gen = reload[c].gen
      /\ r1.config = reload[c].config
  BY <1>1 DEF Reloads
<1> HIDE DEF r1
<1>4. /\ r \in Reloads /\ r.pc = "commit" /\ r.gen = reload[c].gen
      /\ r.config = reload[c].config /\ r.next = 1
  BY <1>3 DEF Reloads
<1> HIDE DEF r
<1>5. reload'[c] = r
  BY <1>2, <1>4, SetOne DEF ReloadInv, Types
<1>6. StillStaged(c)'
  <2>1. \A i \in 1..5 : Subscribers[i] \in subscribed => staged[Subscribers[i]] = Offer(c)
    BY <1>1 DEF ReloadInv, PreparedSoFar
  <2>2. /\ staged["features"] = Offer(c) /\ ("auth" \in subscribed => staged["auth"] = Offer(c))
        /\ ("limits" \in subscribed => staged["limits"] = Offer(c))
        /\ staged["connectors"] = Offer(c) /\ staged["providers"] = Offer(c)
    BY <2>1, SubscriberNames DEF ReloadInv, Types, Early
  <2>3. Offer(c)' = Offer(c) /\ staged' = staged /\ subscribed' = subscribed
    BY <1>4, <1>5 DEF Offer, Prepared
  <2> QED BY <2>2, <2>3 DEF StillStaged
<1>7. TakenOver(c)'
  <2>1. NoCommit
    BY <1>1, OneHolder DEF ReloadInv, NoCommit, Holds
  <2>2. prefixes = TargetsOf(snapshot.config, snapshot.generation)
    BY <2>1 DEF ReloadInv, SettledServes, Serves
  <2> QED BY <1>4, <1>5, <2>2 DEF TakenOver, Prepared, served
<1>8. /\ staged' \in [Names -> Offers \union {None}] /\ features' \in [Features -> BOOLEAN]
      /\ UNCHANGED outside
  BY DEF ReloadInv, Types, Prepared, served, outside
<1> QED BY <1>1, <1>2, <1>4, <1>6, <1>7, <1>8, CommitMove

\* The committing caller, with what it may still take.
LEMMA Committing ==
    ASSUME ReloadInv, NEW c \in Callers, NEW s, At(c, s)
    PROVE  /\ reload[c] \in Reloads /\ reload[c].pc = "commit" /\ Carries(c)
           /\ reload[c].next \in 1..9 /\ Commits[reload[c].next] = s
           /\ reload[c].config \in Configs
           /\ Offer(c) \in Offers /\ Offer(c) # None
           /\ Offer(c).config = reload[c].config /\ Offer(c).gen = reload[c].gen
           /\ StillStaged(c) /\ TakenOver(c)
<1>1. /\ reload[c] \in Reloads /\ reload[c].pc = "commit" /\ Carries(c)
      /\ Commits[reload[c].next] = s /\ StillStaged(c) /\ TakenOver(c)
      /\ reload[c].next \in 1..10 /\ reload[c].next <= 9 /\ reload[c].config \in Configs
  BY CommitNames DEF At, ReloadInv, Types, CommitFollows, Carries, CarriesLatest
<1>2. /\ Offer(c) \in Offers /\ Offer(c).config = reload[c].config
      /\ Offer(c).gen = reload[c].gen
  BY <1>1 DEF Offer, Offers, Reloads
<1> QED BY <1>1, <1>2, OffersAreStaged

\* The commit moves on by one.
LEMMA DoneMoves ==
    ASSUME ReloadInv, NEW c \in Callers, NEW s, At(c, s), Done(c)
    PROVE  \E r \in Reloads :
              /\ Set(c, r) /\ reload'[c] = r /\ r.pc = "commit"
              /\ r.gen = reload[c].gen /\ r.config = reload[c].config
              /\ r.next = reload[c].next + 1 /\ r.next \in 1..10
              /\ r.todo = reload[c].todo /\ Offer(c)' = Offer(c)
<1> DEFINE r == [reload[c] EXCEPT !.next = @ + 1]
<1>1. reload[c] \in Reloads /\ reload[c].next \in 1..9 /\ reload[c].pc = "commit"
  BY Committing
<1>2. /\ r \in Reloads /\ r.pc = "commit" /\ r.gen = reload[c].gen
      /\ r.config = reload[c].config /\ r.next = reload[c].next + 1
      /\ r.todo = reload[c].todo /\ Set(c, r)
  BY <1>1 DEF Reloads, Done
<1> HIDE DEF r
<1>3. reload'[c] = r
  BY <1>2, SetOne DEF ReloadInv, Types
<1>4. Offer(c)' = Offer(c) /\ r.next \in 1..10
  BY <1>1, <1>2, <1>3 DEF Offer
<1> QED BY <1>2, <1>3, <1>4

LEMMA TakeOne ==
    ASSUME staged \in [Names -> Offers \union {None}], NEW s \in Names, Take(s)
    PROVE  /\ staged' \in [Names -> Offers \union {None}]
           /\ \A t \in Names : t # s => staged'[t] = staged[t]
BY DEF Take

LEMMA ApplyFeatures ==
    ASSUME features \in [Features -> BOOLEAN], NEW cfg, features' = apply_config(features, cfg)
    PROVE  features' \in [Features -> BOOLEAN] /\ FeaturesFollow(cfg)'
<1>1. \A f \in Features : features[f] \in BOOLEAN
  OBVIOUS
<1> QED BY <1>1 DEF apply_config, FeaturesFollow

LEMMA CommitFeaturesStep ==
    ASSUME ReloadInv, NEW c \in Callers, CommitFeatures(c)
    PROVE  ReloadInv'
<1>1. At(c, "features") /\ Done(c) /\ Take("features")
  BY DEF CommitFeatures
<1>2. /\ reload[c].pc = "commit" /\ Carries(c) /\ Commits[reload[c].next] = "features"
      /\ reload[c].next \in 1..9 /\ Offer(c) # None /\ Offer(c).config = reload[c].config
      /\ StillStaged(c) /\ TakenOver(c)
  BY <1>1, Committing
<1>3. reload[c].next = 1
  BY <1>2, CommitNames
<1>4. PICK r \in Reloads :
          /\ Set(c, r) /\ reload'[c] = r /\ r.pc = "commit"
          /\ r.gen = reload[c].gen /\ r.config = reload[c].config
          /\ r.next = reload[c].next + 1 /\ r.next \in 1..10
          /\ r.todo = reload[c].todo /\ Offer(c)' = Offer(c)
  BY <1>1, DoneMoves
<1>5. /\ staged' \in [Names -> Offers \union {None}]
      /\ \A t \in Names : t # "features" => staged'[t] = staged[t]
  BY <1>1, TakeOne DEF ReloadInv, Types, Names
<1>6. PICK cfg : cfg = reload[c].config
  OBVIOUS
<1>7. features' \in [Features -> BOOLEAN] /\ FeaturesFollow(cfg)'
  <2>1. features' = apply_config(features, cfg)
    BY <1>2, <1>3, <1>6 DEF CommitFeatures, StillStaged
  <2> QED BY <2>1, ApplyFeatures DEF ReloadInv, Types
<1>8. StillStaged(c)'
  BY <1>2, <1>3, <1>4, <1>5 DEF StillStaged, Names, outside, CommitFeatures
<1>9. FeaturesFollow(reload[c].config)'
  BY <1>4, <1>6, <1>7 DEF FeaturesFollow
<1>10. TakenOver(c)'
  BY <1>2, <1>3, <1>4, <1>9 DEF TakenOver, CommitFeatures, outside
<1> QED BY <1>2, <1>4, <1>5, <1>7, <1>8, <1>10, CommitMove DEF CommitFeatures

LEMMA CommitAuthStep ==
    ASSUME ReloadInv, NEW c \in Callers, CommitAuth(c)
    PROVE  ReloadInv'
<1>1. At(c, "auth") /\ Done(c) /\ Take("auth")
  BY DEF CommitAuth
<1>2. /\ reload[c].pc = "commit" /\ Carries(c) /\ Commits[reload[c].next] = "auth"
      /\ reload[c].next \in 1..9 /\ Offer(c) # None
      /\ Offer(c).config = reload[c].config /\ Offer(c).gen = reload[c].gen
      /\ StillStaged(c) /\ TakenOver(c)
  BY <1>1, Committing
<1>3. reload[c].next = 2
  BY <1>2, CommitNames
<1>4. PICK r \in Reloads :
          /\ Set(c, r) /\ reload'[c] = r /\ r.pc = "commit"
          /\ r.gen = reload[c].gen /\ r.config = reload[c].config
          /\ r.next = reload[c].next + 1 /\ r.next \in 1..10
          /\ r.todo = reload[c].todo /\ Offer(c)' = Offer(c)
  BY <1>1, DoneMoves
<1>5. /\ staged' \in [Names -> Offers \union {None}]
      /\ \A t \in Names : t # "auth" => staged'[t] = staged[t]
  BY <1>1, TakeOne DEF ReloadInv, Types, Names
<1>6. "auth" \in subscribed => auth' = reload[c].config.auth
  BY <1>2, <1>3 DEF StillStaged, CommitAuth
<1>7. features' = features /\ features' \in [Features -> BOOLEAN]
  BY DEF ReloadInv, Types, CommitAuth
<1>8. StillStaged(c)'
  BY <1>2, <1>3, <1>4, <1>5 DEF StillStaged, Names, outside, CommitAuth
<1>9. TakenOver(c)'
  BY <1>2, <1>3, <1>4, <1>6, <1>7
     DEF TakenOver, CommitAuth, outside, FeaturesFollow, ConnectorsFollow, DefaultFollows
<1> QED BY <1>2, <1>4, <1>5, <1>7, <1>8, <1>9, CommitMove DEF CommitAuth

LEMMA CommitLimitsStep ==
    ASSUME ReloadInv, NEW c \in Callers, CommitLimits(c)
    PROVE  ReloadInv'
<1>1. At(c, "limits") /\ Done(c) /\ Take("limits")
  BY DEF CommitLimits
<1>2. /\ reload[c].pc = "commit" /\ Carries(c) /\ Commits[reload[c].next] = "limits"
      /\ reload[c].next \in 1..9 /\ Offer(c) # None
      /\ Offer(c).config = reload[c].config /\ Offer(c).gen = reload[c].gen
      /\ StillStaged(c) /\ TakenOver(c)
  BY <1>1, Committing
<1>3. reload[c].next = 3
  BY <1>2, CommitNames
<1>4. PICK r \in Reloads :
          /\ Set(c, r) /\ reload'[c] = r /\ r.pc = "commit"
          /\ r.gen = reload[c].gen /\ r.config = reload[c].config
          /\ r.next = reload[c].next + 1 /\ r.next \in 1..10
          /\ r.todo = reload[c].todo /\ Offer(c)' = Offer(c)
  BY <1>1, DoneMoves
<1>5. /\ staged' \in [Names -> Offers \union {None}]
      /\ \A t \in Names : t # "limits" => staged'[t] = staged[t]
  BY <1>1, TakeOne DEF ReloadInv, Types, Names
<1>6. "limits" \in subscribed => limits' = reload[c].config.limits
  BY <1>2, <1>3 DEF StillStaged, CommitLimits
<1>7. features' = features /\ features' \in [Features -> BOOLEAN]
  BY DEF ReloadInv, Types, CommitLimits
<1>8. StillStaged(c)'
  BY <1>2, <1>3, <1>4, <1>5 DEF StillStaged, Names, outside
<1>9. TakenOver(c)'
  BY <1>2, <1>3, <1>4, <1>6, <1>7
     DEF TakenOver, CommitLimits, outside, FeaturesFollow, ConnectorsFollow, DefaultFollows
<1> QED BY <1>2, <1>4, <1>5, <1>7, <1>8, <1>9, CommitMove DEF CommitLimits

LEMMA ClearCapabilityMapStep ==
    ASSUME ReloadInv, NEW c \in Callers, ClearCapabilityMap(c)
    PROVE  ReloadInv'
<1>1. At(c, "capability_map") /\ Done(c)
  BY DEF ClearCapabilityMap
<1>2. /\ reload[c].pc = "commit" /\ Carries(c) /\ Commits[reload[c].next] = "capability_map"
      /\ reload[c].next \in 1..9 /\ Offer(c) # None
      /\ Offer(c).config = reload[c].config /\ Offer(c).gen = reload[c].gen
      /\ StillStaged(c) /\ TakenOver(c)
  BY <1>1, Committing
<1>3. reload[c].next = 5
  BY <1>2, CommitNames
<1>4. PICK r \in Reloads :
          /\ Set(c, r) /\ reload'[c] = r /\ r.pc = "commit"
          /\ r.gen = reload[c].gen /\ r.config = reload[c].config
          /\ r.next = reload[c].next + 1 /\ r.next \in 1..10
          /\ r.todo = reload[c].todo /\ Offer(c)' = Offer(c)
  BY <1>1, DoneMoves
<1>5. staged' = staged /\ staged' \in [Names -> Offers \union {None}]
  BY DEF ReloadInv, Types, ClearCapabilityMap
<1>6. capability_map' = {} /\ connectors' = connectors
  BY DEF ClearCapabilityMap
<1>7. features' = features /\ features' \in [Features -> BOOLEAN]
  BY DEF ReloadInv, Types, ClearCapabilityMap
<1>8. StillStaged(c)'
  BY <1>2, <1>3, <1>4, <1>5 DEF StillStaged, Names, outside
<1>9. TakenOver(c)'
  BY <1>2, <1>3, <1>4, <1>6, <1>7
     DEF TakenOver, ClearCapabilityMap, outside, FeaturesFollow, ConnectorsFollow, DefaultFollows
<1> QED BY <1>2, <1>4, <1>5, <1>7, <1>8, <1>9, CommitMove DEF ClearCapabilityMap

LEMMA CommitPrefixesStep ==
    ASSUME ReloadInv, NEW c \in Callers, CommitPrefixes(c)
    PROVE  ReloadInv'
<1>1. At(c, "prefixes") /\ Done(c)
  BY DEF CommitPrefixes
<1>2. /\ reload[c].pc = "commit" /\ Carries(c) /\ Commits[reload[c].next] = "prefixes"
      /\ reload[c].next \in 1..9 /\ Offer(c) # None
      /\ Offer(c).config = reload[c].config /\ Offer(c).gen = reload[c].gen
      /\ StillStaged(c) /\ TakenOver(c)
  BY <1>1, Committing
<1>3. reload[c].next = 7
  BY <1>2, CommitNames
<1>4. PICK r \in Reloads :
          /\ Set(c, r) /\ reload'[c] = r /\ r.pc = "commit"
          /\ r.gen = reload[c].gen /\ r.config = reload[c].config
          /\ r.next = reload[c].next + 1 /\ r.next \in 1..10
          /\ r.todo = reload[c].todo /\ Offer(c)' = Offer(c)
  BY <1>1, DoneMoves
<1>5. staged' = staged /\ staged' \in [Names -> Offers \union {None}]
  BY DEF ReloadInv, Types, CommitPrefixes
<1>6. prefixes' = TargetsOf(reload[c].config, reload[c].gen)
  BY <1>2, <1>3 DEF StillStaged, CommitPrefixes
<1>7. features' = features /\ features' \in [Features -> BOOLEAN]
  BY DEF ReloadInv, Types, CommitPrefixes
<1>8. StillStaged(c)'
  BY <1>2, <1>3, <1>4, <1>5 DEF StillStaged, Names, outside
<1>9. TakenOver(c)'
  BY <1>2, <1>3, <1>4, <1>6, <1>7
     DEF TakenOver, CommitPrefixes, outside, FeaturesFollow, ConnectorsFollow, DefaultFollows
<1> QED BY <1>2, <1>4, <1>5, <1>7, <1>8, <1>9, CommitMove DEF CommitPrefixes

LEMMA CommitTargetsStep ==
    ASSUME ReloadInv, NEW c \in Callers, CommitTargets(c)
    PROVE  ReloadInv'
<1>1. At(c, "targets") /\ Done(c)
  BY DEF CommitTargets
<1>2. /\ reload[c].pc = "commit" /\ Carries(c) /\ Commits[reload[c].next] = "targets"
      /\ reload[c].next \in 1..9 /\ Offer(c) # None
      /\ Offer(c).config = reload[c].config /\ Offer(c).gen = reload[c].gen
      /\ StillStaged(c) /\ TakenOver(c)
  BY <1>1, Committing
<1>3. reload[c].next = 8
  BY <1>2, CommitNames
<1>4. PICK r \in Reloads :
          /\ Set(c, r) /\ reload'[c] = r /\ r.pc = "commit"
          /\ r.gen = reload[c].gen /\ r.config = reload[c].config
          /\ r.next = reload[c].next + 1 /\ r.next \in 1..10
          /\ r.todo = reload[c].todo /\ Offer(c)' = Offer(c)
  BY <1>1, DoneMoves
<1>5. staged' = staged /\ staged' \in [Names -> Offers \union {None}]
  BY DEF ReloadInv, Types, CommitTargets
<1>6. targets' = TargetsOf(reload[c].config, reload[c].gen)
  BY <1>2, <1>3 DEF StillStaged, CommitTargets
<1>7. features' = features /\ features' \in [Features -> BOOLEAN]
  BY DEF ReloadInv, Types, CommitTargets
<1>8. StillStaged(c)'
  BY <1>2, <1>3, <1>4, <1>5 DEF StillStaged, Names, outside
<1>9. TakenOver(c)'
  BY <1>2, <1>3, <1>4, <1>6, <1>7
     DEF TakenOver, CommitTargets, outside, FeaturesFollow, ConnectorsFollow, DefaultFollows
<1> QED BY <1>2, <1>4, <1>5, <1>7, <1>8, <1>9, CommitMove DEF CommitTargets

LEMMA CommitDefaultStep ==
    ASSUME ReloadInv, NEW c \in Callers, CommitDefault(c)
    PROVE  ReloadInv'
<1>1. At(c, "default") /\ Done(c) /\ Take("providers")
  BY DEF CommitDefault
<1>2. /\ reload[c].pc = "commit" /\ Carries(c) /\ Commits[reload[c].next] = "default"
      /\ reload[c].next \in 1..9 /\ Offer(c) # None
      /\ Offer(c).config = reload[c].config /\ Offer(c).gen = reload[c].gen
      /\ StillStaged(c) /\ TakenOver(c)
  BY <1>1, Committing
<1>3. reload[c].next = 9
  BY <1>2, CommitNames
<1>4. PICK r \in Reloads :
          /\ Set(c, r) /\ reload'[c] = r /\ r.pc = "commit"
          /\ r.gen = reload[c].gen /\ r.config = reload[c].config
          /\ r.next = reload[c].next + 1 /\ r.next \in 1..10
          /\ r.todo = reload[c].todo /\ Offer(c)' = Offer(c)
  BY <1>1, DoneMoves
<1>5. /\ staged' \in [Names -> Offers \union {None}]
      /\ \A t \in Names : t # "providers" => staged'[t] = staged[t]
  BY <1>1, TakeOne DEF ReloadInv, Types, Names
<1>6. reload[c].config.providers # {} =>
          default_target' = Target(select_default_provider_name(reload[c].config.providers),
                                   reload[c].gen)
  BY <1>2, <1>3 DEF StillStaged, CommitDefault
<1>7. features' = features /\ features' \in [Features -> BOOLEAN]
  BY DEF ReloadInv, Types, CommitDefault
<1>8. StillStaged(c)'
  BY <1>2, <1>3, <1>4, <1>5 DEF StillStaged, Names, outside
<1>9. TakenOver(c)'
  BY <1>2, <1>3, <1>4, <1>6, <1>7
     DEF TakenOver, CommitDefault, outside, FeaturesFollow, ConnectorsFollow, DefaultFollows
<1> QED BY <1>2, <1>4, <1>5, <1>7, <1>8, <1>9, CommitMove DEF CommitDefault

\* Clearing the connectors remembers which ones to register.
LEMMA ClearConnectorsStep ==
    ASSUME ReloadInv, NEW c \in Callers, ClearConnectors(c)
    PROVE  ReloadInv'
<1> DEFINE r1 == [reload[c] EXCEPT !.next = @ + 1]
           r  == [r1 EXCEPT !.todo = reload[c].config.connectors]
<1>1. At(c, "connectors") /\ Take("connectors")
  BY DEF ClearConnectors
<1>2. /\ reload[c] \in Reloads /\ reload[c].pc = "commit" /\ Carries(c)
      /\ Commits[reload[c].next] = "connectors" /\ reload[c].config \in Configs
      /\ reload[c].next \in 1..9 /\ Offer(c) # None /\ Offer(c).config = reload[c].config
      /\ StillStaged(c) /\ TakenOver(c)
  BY <1>1, Committing
<1>3. reload[c].next = 4
  BY <1>2, CommitNames
<1>4. staged["connectors"] = Offer(c) /\ staged["connectors"] # None
  BY <1>2, <1>3 DEF StillStaged
<1>5. connectors' = {} /\ Set(c, r)
  BY <1>2, <1>4 DEF ClearConnectors
<1>6. /\ r1 \in Reloads /\ r1.pc = "commit" /\ r1.gen = reload[c].gen
      /\ r1.config = reload[c].config /\ r1.next = 5
  BY <1>2, <1>3 DEF Reloads
<1> HIDE DEF r1
<1>7. reload[c].config.connectors \subseteq AllConnectors
  BY <1>2 DEF AllConnectors
<1>8. /\ r \in Reloads /\ r.pc = "commit" /\ r.gen = reload[c].gen
      /\ r.config = reload[c].config /\ r.next = 5 /\ r.todo = reload[c].config.connectors
  BY <1>6, <1>7 DEF Reloads
<1> HIDE DEF r
<1>9. reload'[c] = r
  BY <1>5, <1>8, SetOne DEF ReloadInv, Types
<1>10. Offer(c)' = Offer(c) /\ r.next \in 1..10
  BY <1>8, <1>9 DEF Offer
<1>11. /\ staged' \in [Names -> Offers \union {None}]
       /\ \A t \in Names : t # "connectors" => staged'[t] = staged[t]
  BY <1>1, TakeOne DEF ReloadInv, Types, Names
<1>12. features' = features /\ features' \in [Features -> BOOLEAN]
  BY DEF ReloadInv, Types, ClearConnectors
<1>13. StillStaged(c)'
  BY <1>2, <1>3, <1>8, <1>9, <1>10, <1>11 DEF StillStaged, Names, outside
<1>14. TakenOver(c)'
  BY <1>2, <1>3, <1>5, <1>8, <1>9, <1>12
     DEF TakenOver, ClearConnectors, outside, FeaturesFollow, ConnectorsFollow, DefaultFollows
<1> QED BY <1>2, <1>5, <1>8, <1>10, <1>11, <1>12, <1>13, <1>14, CommitMove DEF ClearConnectors

LEMMA RegisterConnectorStep ==
    ASSUME ReloadInv, NEW c \in Callers, RegisterConnector(c)
    PROVE  ReloadInv'
<1>1. At(c, "register")
  BY DEF RegisterConnector
<1>2. /\ reload[c] \in Reloads /\ reload[c].pc = "commit" /\ Carries(c)
      /\ Commits[reload[c].next] = "register"
      /\ reload[c].next \in 1..9 /\ StillStaged(c) /\ TakenOver(c)
  BY <1>1, Committing
<1>3. reload[c].next = 6
  BY <1>2, CommitNames
<1>4. /\ connectors \union reload[c].todo = reload[c].config.connectors
      /\ capability_map = connectors
  BY <1>2, <1>3 DEF TakenOver
<1>5. staged' = staged /\ staged' \in [Names -> Offers \union {None}]
  BY DEF ReloadInv, Types, RegisterConnector
<1>6. features' = features /\ features' \in [Features -> BOOLEAN]
  BY DEF ReloadInv, Types, RegisterConnector
<1>7. CASE reload[c].todo = {}
  <2>1. Done(c) /\ UNCHANGED <<connectors, capability_map>>
    BY <1>7 DEF RegisterConnector
  <2>2. PICK r \in Reloads :
            /\ Set(c, r) /\ reload'[c] = r /\ r.pc = "commit"
            /\ r.gen = reload[c].gen /\ r.config = reload[c].config
            /\ r.next = reload[c].next + 1 /\ r.next \in 1..10
            /\ r.todo = reload[c].todo /\ Offer(c)' = Offer(c)
    BY <1>1, <2>1, DoneMoves
  <2>3. StillStaged(c)'
    BY <1>2, <1>3, <1>5, <2>2 DEF StillStaged
  <2>4. connectors' = reload[c].config.connectors /\ capability_map' = reload[c].config.connectors
    BY <1>4, <1>7, <2>1
  <2>5. TakenOver(c)'
    BY <1>2, <1>3, <1>6, <2>2, <2>4
       DEF TakenOver, RegisterConnector, outside, FeaturesFollow, ConnectorsFollow, DefaultFollows
  <2> QED BY <1>2, <1>5, <1>6, <2>2, <2>3, <2>5, CommitMove DEF RegisterConnector
<1>8. CASE reload[c].todo # {}
  <2>1. PICK n \in reload[c].todo :
            /\ connectors' = connectors \union {n}
            /\ capability_map' = capability_map \union {n}
            /\ Set(c, [reload[c] EXCEPT !.todo = @ \ {n}])
    BY <1>8 DEF RegisterConnector
  <2> DEFINE r == [reload[c] EXCEPT !.todo = @ \ {n}]
  <2>2. /\ r \in Reloads /\ r.pc = "commit" /\ r.gen = reload[c].gen
        /\ r.config = reload[c].config /\ r.next = 6 /\ r.todo = reload[c].todo \ {n}
        /\ Set(c, r)
    BY <1>2, <1>3, <2>1 DEF Reloads
  <2> HIDE DEF r
  <2>3. reload'[c] = r
    BY <2>2, SetOne DEF ReloadInv, Types
  <2>4. Offer(c)' = Offer(c) /\ r.next \in 1..10
    BY <2>2, <2>3 DEF Offer
  <2>5. StillStaged(c)'
    BY <1>2, <1>3, <1>5, <2>2, <2>3, <2>4 DEF StillStaged
  <2>6. connectors' \union r.todo = reload[c].config.connectors /\ capability_map' = connectors'
    BY <1>4, <2>1, <2>2
  <2>7. TakenOver(c)'
    BY <1>2, <1>3, <1>6, <2>2, <2>3, <2>6
       DEF TakenOver, RegisterConnector, outside, FeaturesFollow, ConnectorsFollow, DefaultFollows
  <2> QED BY <1>2, <1>5, <1>6, <2>2, <2>4, <2>5, <2>7, CommitMove DEF RegisterConnector
<1> QED BY <1>7, <1>8

\* A reload that ends: every component serves what it publishes.
LEMMA PublishStep ==
    ASSUME ReloadInv, NEW c \in Callers, Publish(c)
    PROVE  ReloadInv'
<1> DEFINE r == [Idle EXCEPT !.result = "ok"]
<1>1. r \in Reloads /\ r.pc = "idle" /\ Set(c, r) /\ lock' = NoLock
  BY IdleShape DEF Publish
<1> HIDE DEF r
<1>2. /\ reload' \in [Callers -> Reloads] /\ reload'[c] = r
      /\ \A d \in Callers : d # c => reload'[d] = reload[d]
  BY <1>1, SetOne DEF ReloadInv, Types
<1>3. /\ Carries(c) /\ Holds(c) /\ reload[c].pc = "commit"
      /\ reload[c].next = 10 /\ TakenOver(c)
      /\ reload[c].config \in Configs /\ reload[c].gen = generation /\ generation > 1
      /\ generation \in Nat
  BY CommitNames DEF Publish, Carries, Holds, ReloadInv, CommitFollows, CarriesLatest, Types
<1>4. /\ snapshot' = [generation |-> generation, config |-> reload[c].config]
      /\ generation' = generation
  BY <1>3 DEF Publish
<1>5. /\ snapshot' \in [generation : Nat, config : Configs]
      /\ snapshot'.generation = generation /\ snapshot'.config = reload[c].config
  BY <1>3, <1>4
<1>6. Types'
  <2>1. snapshot'.generation >= 1 /\ snapshot'.generation <= generation' /\ generation' >= 1
    BY <1>3, <1>4, <1>5
  <2> QED BY <1>1, <1>2, <1>4, <1>5, <2>1 DEF ReloadInv, Types, Publish, served
<1>7. \A d \in Callers : d # c => ~Holds(d) /\ ~Carries(d)
  BY <1>3, OneHolder, CarriersHold DEF ReloadInv
<1>8. \A d \in Callers : ~Holds(d)' /\ ~Carries(d)'
                        /\ reload'[d].pc \notin {"prepare", "commit"}
  BY <1>1, <1>2, <1>7 DEF Holds, Carries
<1>9. LockHeld'
  BY <1>1, <1>8, ReloadAssumption DEF LockHeld, NoLock
<1>10. CarriesLatest' /\ PreparedSoFar' /\ CommitFollows'
  BY <1>8 DEF CarriesLatest, PreparedSoFar, CommitFollows
<1>11. SettledServes'
  <2>1. /\ FeaturesFollow(reload[c].config) /\ ConnectorsFollow(reload[c].config)
        /\ "auth" \in subscribed => auth = reload[c].config.auth
        /\ "limits" \in subscribed => limits = reload[c].config.limits
        /\ prefixes = TargetsOf(reload[c].config, generation)
        /\ targets = TargetsOf(reload[c].config, generation)
        /\ DefaultFollows(reload[c].config, generation)
    BY <1>3 DEF TakenOver
  <2>2. Serves(snapshot.config, snapshot.generation)'
    BY <1>5, <2>1 DEF Serves, Publish, served, FeaturesFollow, ConnectorsFollow, DefaultFollows
  <2> QED BY <2>2 DEF SettledServes
<1>12. SignalKept'
  <2> SUFFICES ASSUME signal' # None, ~unread'
               PROVE  signal' = file' /\ (SignalAhead' \/ SignalServed')
    BY DEF ReloadInv, SignalKept, Publish
  <2>1. signal = file /\ (SignalAhead \/ SignalServed) /\ UNCHANGED <<signal, file, pending>>
    BY DEF ReloadInv, SignalKept, Publish
  <2>2. CASE reload[c].config = signal
    BY <1>5, <1>8, <2>1, <2>2 DEF SignalServed
  <2>3. CASE reload[c].config # signal
    <3>1. SignalAhead
      BY <1>3, <2>1, <2>3 DEF SignalServed
    <3>2. \/ pending # {}
          \/ \E d \in Callers : d # c /\ reload[d].pc \in {"waiting", "reading", "rereading"}
      BY <1>3, <1>7, <2>3, <3>1 DEF SignalAhead
    <3> QED BY <1>2, <2>1, <3>2 DEF SignalAhead
  <2> QED BY <2>2, <2>3
<1> QED BY <1>6, <1>9, <1>10, <1>11, <1>12 DEF ReloadInv

-----------------------------------------------------------------------------
LEMMA ReloadStepInv ==
    ASSUME ReloadInv, NEW c \in Callers, ReloadStep(c)
    PROVE  ReloadInv'
<1>1. CASE Begin(c)
  BY <1>1, BeginStep
<1>2. CASE Acquire(c)
  BY <1>2, AcquireStep
<1>3. CASE TornRead(c)
  BY <1>3, TornReadStep
<1>4. CASE Read(c) \/ ReadFails(c)
  BY <1>4, ReadStep, ReadFailsStep
<1>5. CASE Prepare(c)
  BY <1>5, PrepareStep
<1>6. CASE Prepared(c)
  BY <1>6, PreparedStep
<1>7. CASE CommitFeatures(c)
  BY <1>7, CommitFeaturesStep
<1>8. CASE CommitAuth(c)
  BY <1>8, CommitAuthStep
<1>9. CASE CommitLimits(c)
  BY <1>9, CommitLimitsStep
<1>10. CASE ClearConnectors(c)
  BY <1>10, ClearConnectorsStep
<1>11. CASE ClearCapabilityMap(c)
  BY <1>11, ClearCapabilityMapStep
<1>12. CASE RegisterConnector(c)
  BY <1>12, RegisterConnectorStep
<1>13. CASE CommitPrefixes(c)
  BY <1>13, CommitPrefixesStep
<1>14. CASE CommitTargets(c)
  BY <1>14, CommitTargetsStep
<1>15. CASE CommitDefault(c)
  BY <1>15, CommitDefaultStep
<1>16. CASE Publish(c)
  BY <1>16, PublishStep
<1> QED BY <1>1, <1>2, <1>3, <1>4, <1>5, <1>6, <1>7, <1>8, <1>9,
           <1>10, <1>11, <1>12, <1>13, <1>14, <1>15, <1>16
        DEF ReloadStep

LEMMA ReloadNext == ReloadInv /\ [Next]_vars => ReloadInv'
<1> SUFFICES ASSUME ReloadInv, [Next]_vars
             PROVE  ReloadInv'
  OBVIOUS
<1>1. CASE \E cfg \in Configs : Edit(cfg)
  BY <1>1, EditStep
<1>2. CASE \E c \in Callers : Sighup(c)
  BY <1>2, SighupStep
<1>3. CASE \E c \in Callers : ReloadStep(c)
  BY <1>3, ReloadStepInv
<1>4. CASE \E s \in {"auth", "limits"} : Subscribe(s)
  BY <1>4, SubscribeStep
<1>5. CASE UNCHANGED vars
  <2>1. LockHeld' /\ CarriesLatest' /\ PreparedSoFar' /\ CommitFollows' /\ SettledServes'
    BY <1>5, ReloadFrame DEF vars
  <2>2. Types'
    BY <1>5 DEF ReloadInv, Types, vars, reloadState, served
  <2>3. SignalKept'
    BY <1>5 DEF ReloadInv, SignalKept, SignalAhead, SignalServed, Carries, Refused, vars,
                reloadState
  <2> QED BY <2>1, <2>2, <2>3 DEF ReloadInv
<1> QED BY <1>1, <1>2, <1>3, <1>4, <1>5 DEF Next

\* The strengthened invariant of the reload (ConfigManager::reload, manager.rs:73).
THEOREM ReloadInvariant == Spec => []ReloadInv
BY ReloadInit, ReloadNext, PTL DEF Spec

-----------------------------------------------------------------------------
(* What follows from it. *)

LEMMA TargetNames ==
    ASSUME NEW cfg, NEW g
    PROVE  {t.name : t \in TargetsOf(cfg, g)} = cfg.providers
<1>1. \A n \in cfg.providers : Target(n, g) \in TargetsOf(cfg, g) /\ Target(n, g).name = n
  BY DEF TargetsOf, Target
<1>2. \A t \in TargetsOf(cfg, g) : t.name \in cfg.providers
  BY DEF TargetsOf, Target
<1> QED BY <1>1, <1>2

LEMMA OneTarget ==
    ASSUME NEW cfg, NEW g, NEW n \in cfg.providers
    PROVE  {t \in TargetsOf(cfg, g) : t.name = n} = {Target(n, g)}
<1>1. Target(n, g) \in TargetsOf(cfg, g) /\ Target(n, g).name = n
  BY DEF TargetsOf, Target
<1>2. \A t \in TargetsOf(cfg, g) : t.name = n => t = Target(n, g)
  BY DEF TargetsOf, Target
<1> QED BY <1>1, <1>2

\* Outside a commit every component serves the published configuration, whichever
\* reloads were refused half-way and whatever they left staged; and once every signal
\* has been acted on, that is the configuration of the last one unless it was refused
\* or could not be read (manager.rs:78, 115).  A component whose subscriber was not
\* registered yet when the configuration was published is excepted (main.rs:333, 510).
THEOREM LastSignalIsServed == Spec => []ServesLastSignal
<1>1. ReloadInv => ServesLastSignal
  <2> SUFFICES ASSUME ReloadInv PROVE ServesLastSignal
    OBVIOUS
  <2>1. TypeOK
    BY DEF ReloadInv, TypeOK, Types, LockHeld, Holds
  <2>2. SettledAgreement
    <3> SUFFICES ASSUME NoCommit PROVE Applies(snapshot.config)
      BY DEF SettledAgreement, NoCommit
    <3>1. Serves(snapshot.config, snapshot.generation)
      BY DEF ReloadInv, SettledServes
    <3>2. {t.name : t \in targets} = snapshot.config.providers /\ prefixes = targets
      BY <3>1, TargetNames DEF Serves
    <3> QED BY <3>1, <3>2 DEF Serves, Applies, FeaturesFollow, DefaultFollows, ConnectorsFollow
  <2>3. LastSignalWins
    <3> SUFFICES ASSUME signal # None, pending = {}, \A c \in Callers : reload[c].pc = "idle"
                 PROVE  snapshot.config = signal \/ Refused(signal) \/ unread
      BY DEF LastSignalWins
    <3>1. ~SignalAhead
      BY DEF SignalAhead, Carries
    <3> QED BY <3>1 DEF ReloadInv, SignalKept, SignalServed
  <2> QED BY <2>1, <2>2, <2>3 DEF ServesLastSignal
<1> QED BY <1>1, ReloadInvariant, PTL

\* In every state of a commit, a provider that the old and the new configuration both
\* name is routed to its own target and to no other (registry.rs:393).
THEOREM RoutesStay == Spec => []NoRoutingGap
<1>1. ReloadInv => NoRoutingGap
  <2> SUFFICES ASSUME ReloadInv, NEW c \in Callers, NEW n \in snapshot.config.providers,
                      reload[c].pc = "commit", n \in reload[c].config.providers
               PROVE  \E g \in 1..generation : get_matching_targets(n) = {Target(n, g)}
    BY DEF NoRoutingGap
  <2>1. /\ reload[c].next \in 1..10 /\ TakenOver(c)
        /\ reload[c].gen = generation /\ generation > 1 /\ generation \in Nat
        /\ snapshot.generation \in 1..generation
        /\ snapshot.config \in Configs /\ reload[c].config \in Configs
    BY DEF ReloadInv, CommitFollows, CarriesLatest, Carries, Types
  <2>2. PICK cfg \in Configs, g \in 1..generation :
            n \in cfg.providers /\ prefixes = TargetsOf(cfg, g)
    <3>1. CASE reload[c].next <= 7
      BY <2>1, <3>1 DEF TakenOver
    <3>2. CASE reload[c].next > 7
      BY <2>1, <3>2 DEF TakenOver
    <3> QED BY <2>1, <3>1, <3>2
  <2>3. {t \in prefixes : t.name = n} = {Target(n, g)}
    BY <2>2, OneTarget
  <2>4. get_matching_targets(n) = {Target(n, g)}
    BY <2>3 DEF get_matching_targets
  <2> QED BY <2>4
<1> QED BY <1>1, ReloadInvariant, PTL
=============================================================================
