---------------------------- MODULE ConfigReload ----------------------------
(***************************************************************************)
(* Reloading the configuration: ConfigManager::reload                      *)
(* (src/config/manager.rs) and its subscribers in the order of their       *)
(* priorities: feature flags, authentication, rate limits, connectors and  *)
(* the provider registry.                                                  *)
(*                                                                         *)
(* A configuration is a record of what the subscribers take from it.  A    *)
(* request may read any component between two steps of a commit.  A        *)
(* provider target is its name and the generation it was built for.        *)
(***************************************************************************)
EXTENDS Naturals, Sequences, FiniteSets

CONSTANTS Callers,       \* tasks that reload (main.rs starts one, on SIGHUP)
          Configs,       \* configurations a file may hold
          Started,       \* the configuration at startup
          Features, DefaultFeatures,
          MaxEdits,      \* bound: edits of the file
          MaxErrors      \* bound: reads of the file that fail

ASSUME ReloadAssumption ==
    /\ Started \in Configs /\ Started.parses /\ Started.valid
    /\ DefaultFeatures \in [Features -> BOOLEAN]
    /\ MaxEdits \in Nat /\ MaxErrors \in Nat
    /\ "free" \notin Callers

VARIABLES file,          \* the configuration file
          edits, signal, \* history: edits; the file at the last SIGHUP
          pending,       \* callers with a SIGHUP to act on
          lock,          \* reload_lock
          reload,        \* what each caller is doing
          generation, snapshot, staged,
          subscribed,    \* the registered subscribers
          applied,       \* history: those the published configuration went to
          unread,        \* history: a read failed since the last SIGHUP
          errors,        \* history: reads that failed
          features, auth, limits, connectors, capability_map,
          prefixes, targets, default_target

reloadState == <<lock, reload, generation, snapshot, applied, staged>>
served == <<features, auth, limits, connectors, capability_map, prefixes, targets, default_target>>
vars == <<file, edits, signal, unread, errors, subscribed, pending, reloadState, served>>

None == << >>
NoLock == "free"
Idle == [pc |-> "idle", gen |-> 0, config |-> None, next |-> 0, todo |-> {}, result |-> "none"]

Subscribers == <<"features", "auth", "limits", "connectors", "providers">>
\* The commits in order, split where a request can see the result of a part.
Commits == <<"features", "auth", "limits", "connectors", "capability_map", "register",
             "prefixes", "targets", "default">>

\* Provider names are numbers in their lexicographic order; the target that
\* startup makes the default has a name of its own.
StartupDefault == 0
Target(n, gen) == [name |-> n, gen |-> gen]
TargetsOf(cfg, gen) == {Target(n, gen) : n \in cfg.providers}
select_default_provider_name(names) == CHOOSE n \in names : \A m \in names : n <= m

apply_config(states, cfg) ==
    [f \in Features |-> IF cfg.features[f] = "unset" THEN states[f] ELSE cfg.features[f] = "on"]

\* The task that waits for SIGHUP is started before authentication and the rate
\* limits are registered; the latter only are if limiting is on.
Early == {"features", "connectors", "providers"}

\* Startup fills every component but the connectors from the configuration.
Init ==
    /\ file = Started /\ edits = 0 /\ signal = None /\ pending = {}
    /\ unread = FALSE /\ errors = 0
    /\ subscribed = Early /\ applied = {Subscribers[i] : i \in DOMAIN Subscribers}
    /\ lock = NoLock /\ reload = [c \in Callers |-> Idle]
    /\ generation = 1 /\ snapshot = [generation |-> 1, config |-> Started]
    /\ staged = [s \in {Subscribers[i] : i \in DOMAIN Subscribers} |-> None]
    /\ features = apply_config(DefaultFeatures, Started)
    /\ auth = Started.auth /\ limits = Started.limits
    /\ connectors = {} /\ capability_map = {}
    /\ prefixes = TargetsOf(Started, 1) /\ targets = TargetsOf(Started, 1)
    /\ default_target = Target(StartupDefault, 1)

-----------------------------------------------------------------------------
(* The operator. *)

Edit(cfg) ==
    /\ edits < MaxEdits /\ file # cfg
    /\ file' = cfg /\ edits' = edits + 1 /\ signal' = None
    /\ UNCHANGED <<unread, errors, subscribed, pending, reloadState, served>>

Sighup(c) ==
    /\ c \notin pending /\ (signal # file \/ unread)
    /\ pending' = pending \union {c}
    /\ signal' = file /\ unread' = FALSE
    /\ UNCHANGED <<file, edits, errors, subscribed, reloadState, served>>

-----------------------------------------------------------------------------
(* The rest of the startup. *)

\* register_subscriber: a reload that prepares or commits holds the list.
Subscribe(s) ==
    /\ s \in {"auth", "limits"} \ subscribed
    /\ s = "limits" => "auth" \in subscribed
    /\ \A c \in Callers : reload[c].pc \notin {"prepare", "commit"}
    /\ subscribed' = subscribed \union {s}
    /\ UNCHANGED <<file, edits, signal, unread, errors, pending, reloadState, served>>

-----------------------------------------------------------------------------
(* reload(). *)

Set(c, r) == reload' = [reload EXCEPT ![c] = r]
Fails(c) == /\ Set(c, [Idle EXCEPT !.result = "error"])
            /\ lock' = NoLock

\* The signal is taken from the stream and reload() is called.
Begin(c) ==
    /\ c \in pending /\ reload[c].pc = "idle"
    /\ pending' = pending \ {c}
    /\ Set(c, [Idle EXCEPT !.pc = "waiting"])
    /\ UNCHANGED <<file, edits, signal, unread, errors, subscribed, lock, generation, snapshot,
                   applied,
                   staged, served>>

Acquire(c) ==
    /\ reload[c].pc = "waiting" /\ lock = NoLock
    /\ lock' = c
    /\ Set(c, [reload[c] EXCEPT !.pc = "reading"])
    /\ UNCHANGED <<file, edits, signal, unread, errors, subscribed, pending, generation, snapshot,
                   applied, staged, served>>

\* Faulty variant: the file is read until it parses.
TornRead_forever(c) ==
    /\ reload[c].pc \in {"reading", "rereading"} /\ ~file.parses
    /\ Set(c, [reload[c] EXCEPT !.pc = IF @ = "reading" THEN "rereading" ELSE "reading"])
    /\ UNCHANGED <<file, edits, signal, unread, errors, subscribed, pending, lock, generation,
                   snapshot, applied, staged, served>>

\* The first parse failure is retried after a pause, the second is an error.
TornRead(c) ==
    /\ reload[c].pc \in {"reading", "rereading"} /\ ~file.parses
    /\ IF reload[c].pc = "reading"
       THEN Set(c, [reload[c] EXCEPT !.pc = "rereading"]) /\ UNCHANGED lock
       ELSE Fails(c)
    /\ UNCHANGED <<file, edits, signal, unread, errors, subscribed, pending, generation, snapshot,
                   applied, staged, served>>

\* The file cannot be read: an error at once, also for the second read.
ReadFails(c) ==
    /\ reload[c].pc \in {"reading", "rereading"} /\ errors < MaxErrors
    /\ Fails(c)
    /\ unread' = TRUE /\ errors' = errors + 1
    /\ UNCHANGED <<file, edits, signal, subscribed, pending, generation, snapshot, applied,
                   staged, served>>

Read(c) ==
    /\ reload[c].pc \in {"reading", "rereading"} /\ file.parses
    /\ IF file.valid
       THEN /\ generation' = generation + 1
            /\ Set(c, [reload[c] EXCEPT !.pc = "prepare", !.gen = generation + 1,
                                        !.config = file, !.next = 1])
            /\ UNCHANGED lock
       ELSE Fails(c) /\ UNCHANGED generation
    /\ UNCHANGED <<file, edits, signal, unread, errors, subscribed, pending, snapshot, applied, staged,
                   served>>

\* Authentication enabled without a usable key, a connector of an unknown type
\* and a provider without a resolvable key are refused.
PrepareFails(s, cfg) ==
    \/ s = "auth" /\ cfg.auth = "blank"
    \/ s = "connectors" /\ cfg.unknown_connector
    \/ s = "providers" /\ cfg.missing_key

\* Faulty variant: what an earlier reload has staged is kept.
Prepare_keeps(c) ==
    LET r == reload[c]
        s == Subscribers[r.next]
    IN  /\ r.pc = "prepare" /\ r.next <= Len(Subscribers)
        /\ IF s \in subscribed /\ PrepareFails(s, r.config)
           THEN Fails(c) /\ UNCHANGED staged
           ELSE /\ staged' = IF s \in subscribed /\ staged[s] = None
                             THEN [staged EXCEPT ![s] = [gen |-> r.gen, config |-> r.config]]
                             ELSE staged
                /\ Set(c, [r EXCEPT !.next = @ + 1])
                /\ UNCHANGED lock
        /\ UNCHANGED <<file, edits, signal, unread, errors, subscribed, pending, generation,
                       snapshot, applied, served>>

\* One registered subscriber stages the new configuration; the first that refuses
\* ends the reload and what the others have staged stays.
Prepare(c) ==
    LET r == reload[c]
        s == Subscribers[r.next]
    IN  /\ r.pc = "prepare" /\ r.next <= Len(Subscribers)
        /\ IF s \in subscribed /\ PrepareFails(s, r.config)
           THEN Fails(c) /\ UNCHANGED staged
           ELSE /\ staged' = IF s \in subscribed
                             THEN [staged EXCEPT ![s] = [gen |-> r.gen, config |-> r.config]]
                             ELSE staged
                /\ Set(c, [r EXCEPT !.next = @ + 1])
                /\ UNCHANGED lock
        /\ UNCHANGED <<file, edits, signal, unread, errors, subscribed, pending, generation,
                       snapshot, applied, served>>

Prepared(c) ==
    /\ reload[c].pc = "prepare" /\ reload[c].next > Len(Subscribers)
    /\ Set(c, [reload[c] EXCEPT !.pc = "commit", !.next = 1])
    /\ UNCHANGED <<file, edits, signal, unread, errors, subscribed, pending, lock, generation,
                   snapshot, applied, staged, served>>

-----------------------------------------------------------------------------
(* The commits of the subscribers; one that is not registered has nothing  *)
(* staged and takes nothing over.                                          *)

At(c, step) == /\ reload[c].pc = "commit" /\ reload[c].next <= Len(Commits)
               /\ Commits[reload[c].next] = step
Done(c) == Set(c, [reload[c] EXCEPT !.next = @ + 1])
Take(s) == staged' = [staged EXCEPT ![s] = None]
outside == <<file, edits, signal, unread, errors, subscribed, pending, lock, generation, snapshot, applied>>

\* A flag that the new configuration does not mention keeps its state.
CommitFeatures(c) ==
    /\ At(c, "features") /\ Done(c) /\ Take("features")
    /\ features' = IF staged["features"] = None THEN features
                   ELSE apply_config(features, staged["features"].config)
    /\ UNCHANGED <<outside, limits, auth, connectors, capability_map, prefixes, targets,
                   default_target>>

CommitAuth(c) ==
    /\ At(c, "auth") /\ Done(c) /\ Take("auth")
    /\ auth' = IF staged["auth"] = None THEN auth ELSE staged["auth"].config.auth
    /\ UNCHANGED <<outside, limits, features, connectors, capability_map, prefixes,
                   targets, default_target>>

CommitLimits(c) ==
    /\ At(c, "limits") /\ Done(c) /\ Take("limits")
    /\ limits' = IF staged["limits"] = None THEN limits ELSE staged["limits"].config.limits
    /\ UNCHANGED <<outside, features, auth, connectors, capability_map, prefixes, targets,
                   default_target>>

\* The connectors are cleared, then their capability map, and the new ones are
\* registered one by one.
ClearConnectors(c) ==
    /\ At(c, "connectors") /\ Take("connectors")
    /\ IF staged["connectors"] = None
       THEN Done(c) /\ UNCHANGED connectors
       ELSE /\ connectors' = {}
            /\ Set(c, [reload[c] EXCEPT !.next = @ + 1,
                                        !.todo = staged["connectors"].config.connectors])
    /\ UNCHANGED <<outside, limits, features, auth, capability_map, prefixes, targets,
                   default_target>>

ClearCapabilityMap(c) ==
    /\ At(c, "capability_map") /\ Done(c)
    /\ capability_map' = {}
    /\ UNCHANGED <<outside, limits, staged, features, auth, connectors, prefixes, targets,
                   default_target>>

RegisterConnector(c) ==
    /\ At(c, "register")
    /\ IF reload[c].todo = {}
       THEN Done(c) /\ UNCHANGED <<connectors, capability_map>>
       ELSE \E n \in reload[c].todo :
              /\ connectors' = connectors \union {n}
              /\ capability_map' = capability_map \union {n}
              /\ Set(c, [reload[c] EXCEPT !.todo = @ \ {n}])
    /\ UNCHANGED <<outside, limits, staged, features, auth, prefixes, targets, default_target>>

\* Faulty variant: the prefixes are cleared and refilled with the targets.
CommitPrefixes_clears(c) ==
    /\ At(c, "prefixes") /\ Done(c)
    /\ prefixes' = {}
    /\ UNCHANGED <<outside, limits, staged, features, auth, connectors, capability_map,
                   targets, default_target>>

\* The registry replaces the prefixes at once, ...
CommitPrefixes(c) ==
    /\ At(c, "prefixes") /\ Done(c)
    /\ prefixes' = IF staged["providers"] = None THEN prefixes
                   ELSE TargetsOf(staged["providers"].config, staged["providers"].gen)
    /\ UNCHANGED <<outside, limits, staged, features, auth, connectors, capability_map,
                   targets, default_target>>

CommitTargets(c) ==
    /\ At(c, "targets") /\ Done(c)
    /\ targets' = IF staged["providers"] = None THEN targets
                  ELSE TargetsOf(staged["providers"].config, staged["providers"].gen)
    /\ UNCHANGED <<outside, limits, staged, features, auth, connectors, capability_map,
                   prefixes, default_target>>

\* ... and the default target after them; without providers the old one stays.
CommitDefault(c) ==
    LET s == staged["providers"]
    IN  /\ At(c, "default") /\ Done(c) /\ Take("providers")
        /\ default_target' = IF s = None THEN default_target
                             ELSE IF s.config.providers = {} THEN default_target
                             ELSE Target(select_default_provider_name(s.config.providers), s.gen)
        /\ UNCHANGED <<outside, limits, features, auth, connectors, capability_map,
                       prefixes, targets>>

Publish(c) ==
    LET r == reload[c]
    IN  /\ r.pc = "commit" /\ r.next > Len(Commits)
        /\ snapshot' = [generation |-> r.gen, config |-> r.config]
        /\ applied' = subscribed
        /\ generation' = r.gen
        /\ lock' = NoLock
        /\ Set(c, [Idle EXCEPT !.result = "ok"])
        /\ UNCHANGED <<file, edits, signal, unread, errors, subscribed, pending, staged, served>>

ReloadStep(c) ==
    \/ Begin(c) \/ Acquire(c) \/ TornRead(c) \/ ReadFails(c) \/ Read(c)
    \/ Prepare(c) \/ Prepared(c)
    \/ CommitFeatures(c) \/ CommitAuth(c) \/ CommitLimits(c)
    \/ ClearConnectors(c) \/ ClearCapabilityMap(c) \/ RegisterConnector(c)
    \/ CommitPrefixes(c) \/ CommitTargets(c) \/ CommitDefault(c) \/ Publish(c)

Next == \/ \E cfg \in Configs : Edit(cfg)
        \/ \E s \in {"auth", "limits"} : Subscribe(s)
        \/ \E c \in Callers : Sighup(c) \/ ReloadStep(c)

\* The reload task is scheduled and its file reads end.
Spec == /\ Init /\ [][Next]_vars
        /\ \A c \in Callers : WF_vars(ReloadStep(c))

-----------------------------------------------------------------------------
TypeOK ==
    /\ file \in Configs /\ edits \in 0..MaxEdits /\ errors \in 0..MaxErrors
    /\ pending \subseteq Callers
    /\ lock \in Callers \union {NoLock}
    /\ \A c \in Callers : lock = c <=> (reload[c].pc \notin {"idle", "waiting"})
    /\ snapshot.generation <= generation
    /\ Early \subseteq subscribed /\ Early \subseteq applied
    /\ features \in [Features -> BOOLEAN]

\* What the components serve is what a configuration asks for.
Applies(cfg) ==
    /\ \A f \in Features : cfg.features[f] # "unset" => features[f] = (cfg.features[f] = "on")
    /\ "auth" \in applied => auth = cfg.auth
    /\ "limits" \in applied => limits = cfg.limits
    /\ {t.name : t \in targets} = cfg.providers
    /\ prefixes = targets
    /\ cfg.providers # {} /\ snapshot.generation > 1 =>
          default_target = Target(select_default_provider_name(cfg.providers),
                                  snapshot.generation)
    /\ snapshot.generation > 1 =>
          connectors = cfg.connectors /\ capability_map = cfg.connectors

\* Outside the commit phase every component serves the published
\* configuration: a reload applies to all of them or, whichever subscriber
\* refuses and whatever earlier reloads have left staged, to none
\* (manager.rs:32, 115).  Excepted are authentication and limits after a reload that
\* came before their registration: they keep the startup's values until the next one
\* although the new configuration is published (main.rs:333, 510).
SettledAgreement ==
    (\A c \in Callers : reload[c].pc # "commit") => Applies(snapshot.config)

\* The targets tried for a model of provider n.
get_matching_targets(n) ==
    LET matched == {t \in prefixes : t.name = n}
    IN  IF matched = {} /\ Cardinality(prefixes) <= 1 THEN {default_target} ELSE matched

\* At every moment of a reload, a provider that the published configuration
\* and the one being committed both name has a route, to its own target
\* ("readers never observe a prefix-to-target mismatch", registry.rs:393).
NoRoutingGap ==
    \A c \in Callers, n \in snapshot.config.providers :
        reload[c].pc = "commit" /\ n \in reload[c].config.providers =>
            \E g \in 1..generation : get_matching_targets(n) = {Target(n, g)}

Refused(cfg) == ~cfg.parses \/ ~cfg.valid
                \/ \E i \in DOMAIN Subscribers : PrepareFails(Subscribers[i], cfg)

\* When every signal has been acted upon and the file was not edited since the
\* last one, the configuration served is that file, unless it was refused or
\* could not be read: a SIGHUP that arrives in the middle of a reload is not lost.
LastSignalWins ==
    /\ signal # None /\ pending = {}
    /\ \A c \in Callers : reload[c].pc = "idle"
    => snapshot.config = signal \/ Refused(signal) \/ unread

\* What is served is one configuration, that of the last signal unless it was
\* refused, whichever reloads overlapped or failed half-way (manager.rs:72, 115).
ServesLastSignal == TypeOK /\ SettledAgreement /\ LastSignalWins

\* A reload returns, whatever the file holds.
ReloadReturns == \A c \in Callers : (reload[c].pc # "idle" ~> reload[c].pc = "idle")
=============================================================================
