--------------------------- MODULE SemanticCache ---------------------------
(***************************************************************************)
(* The response cache in front of a provider (src/cache/semantic_cache.rs, *)
(* used by src/executor/fusion_bridge.rs): a map of entries and a nearest- *)
(* neighbour index over the embeddings of their keys, each behind a lock   *)
(* of its own.  A lookup and a put take the locks one after another and    *)
(* await in between, so operations of several callers interleave there.    *)
(*                                                                         *)
(* The embedder and the index are libraries: a search finds a label of the *)
(* same key if the index has one, some label otherwise, and only the same  *)
(* key is similar enough for a hit; every call of theirs may fail.         *)
(***************************************************************************)
EXTENDS Naturals, FiniteSets

CONSTANTS Callers, max_entries

ASSUME CacheAssumption == max_entries \in Nat \ {0}

VARIABLES entries,     \* label to entry
          index,       \* the labels in the index, with their keys
          next_label,
          op,          \* what each caller is doing in the cache
          overlaps,    \* history: puts begun while another was under way
          unremoved    \* history: labels the index failed to remove

cache == <<entries, index, next_label, op, overlaps, unremoved>>

Labels == DOMAIN entries
NoCacheOp == [at |-> "none", key |-> << >>, label |-> 0, usage |-> 0, oldest |-> {}]
CacheInit ==
    /\ entries = << >> /\ index = {} /\ next_label = 0
    /\ op = [c \in Callers |-> NoCacheOp] /\ overlaps = 0 /\ unremoved = {}

At(c, place) == op[c].at = place
Moves(c, o) == op' = [op EXCEPT ![c] = o]
Goes(c, place) == Moves(c, [op[c] EXCEPT !.at = place])
Leaves(c) == Moves(c, NoCacheOp)
Without(S) == [l \in Labels \ S |-> entries[l]]

\* A failed removal is only logged: the label stays in the index.
RemoveFromIndex(S) ==
    \/ index' = {i \in index : i.label \notin S} /\ UNCHANGED unremoved
    \/ unremoved' = unremoved \union S /\ UNCHANGED index

Putting(c) == op[c].at \in {"add", "choose", "unlink_oldest", "insert"}

-----------------------------------------------------------------------------
(* lookup *)

LookupBegins(c, key) ==
    /\ At(c, "none") /\ Labels # {}
    /\ Moves(c, [NoCacheOp EXCEPT !.at = "search", !.key = key])
    /\ UNCHANGED <<entries, index, next_label, overlaps, unremoved>>

Nearest(key) ==
    LET same == {i \in index : i.key = key} IN IF same # {} THEN same ELSE index

SearchIndex(c) ==
    /\ At(c, "search")
    /\ \E i \in Nearest(op[c].key) : Moves(c, [op[c] EXCEPT !.at = "read", !.label = i.label])
    /\ UNCHANGED <<entries, index, next_label, overlaps, unremoved>>

Found(c) == op[c].label \in Labels

ReadExpired(c) ==
    /\ At(c, "read") /\ Found(c) /\ entries[op[c].label].expired
    /\ Goes(c, "evict")
    /\ UNCHANGED <<entries, index, next_label, overlaps, unremoved>>

\* Faulty variant: the label of an expired entry stays in the index.
EvictExpired_keepsLabel(c) ==
    /\ At(c, "evict") /\ Found(c)
    /\ entries' = Without({op[c].label}) /\ Goes(c, "miss")
    /\ UNCHANGED <<index, next_label, overlaps, unremoved>>

EvictExpired(c) ==
    /\ At(c, "evict") /\ Found(c)
    /\ entries' = Without({op[c].label}) /\ Goes(c, "unlink")
    /\ UNCHANGED <<index, next_label, overlaps, unremoved>>

UnlinkExpired(c) ==
    /\ At(c, "unlink")
    /\ RemoveFromIndex({op[c].label}) /\ Goes(c, "miss")
    /\ UNCHANGED <<entries, next_label, overlaps>>

\* No hit: the embedding or the search failed, there is nothing to find, the
\* entry found is gone or of another key, or it had expired.
LookupMisses(c) ==
    /\ \/ op[c].at \in {"none", "search", "miss"}
       \/ At(c, "evict") /\ ~Found(c)
       \/ At(c, "read") /\ (Found(c) => /\ ~entries[op[c].label].expired
                                        /\ entries[op[c].label].key # op[c].key)
    /\ Leaves(c)
    /\ UNCHANGED <<entries, index, next_label, overlaps, unremoved>>

LookupHits(c, usage) ==
    /\ At(c, "read") /\ Found(c) /\ ~entries[op[c].label].expired
    /\ entries[op[c].label].key = op[c].key /\ usage = entries[op[c].label].usage
    /\ Leaves(c)
    /\ UNCHANGED <<entries, index, next_label, overlaps, unremoved>>

-----------------------------------------------------------------------------
(* put_with_usage *)

PutBegins(c, key, usage) ==
    /\ At(c, "none")
    /\ Moves(c, [NoCacheOp EXCEPT !.at = "add", !.key = key, !.usage = usage,
                                  !.label = next_label])
    /\ next_label' = next_label + 1
    /\ overlaps' = IF \E d \in Callers : Putting(d) THEN overlaps + 1 ELSE overlaps
    /\ UNCHANGED <<entries, index, unremoved>>

AddToIndex(c) ==
    /\ At(c, "add")
    /\ index' = index \union {[label |-> op[c].label, key |-> op[c].key]}
    /\ Goes(c, "choose")
    /\ UNCHANGED <<entries, next_label, overlaps, unremoved>>

\* The entry with the smallest label, when the cache is full.
ChooseOldest(c) ==
    /\ At(c, "choose")
    /\ IF Cardinality(Labels) >= max_entries
       THEN Moves(c, [op[c] EXCEPT !.at = "unlink_oldest",
                        !.oldest = {CHOOSE l \in Labels : \A k \in Labels : l <= k}])
       ELSE Goes(c, "insert")
    /\ UNCHANGED <<entries, index, next_label, overlaps, unremoved>>

UnlinkOldest(c) ==
    /\ At(c, "unlink_oldest")
    /\ RemoveFromIndex(op[c].oldest) /\ Goes(c, "insert")
    /\ UNCHANGED <<entries, next_label, overlaps>>

InsertEntry(c) ==
    /\ At(c, "insert")
    /\ entries' = [l \in (Labels \ op[c].oldest) \union {op[c].label} |->
          IF l = op[c].label
          THEN [key |-> op[c].key, usage |-> op[c].usage, expired |-> FALSE]
          ELSE entries[l]]
    /\ Leaves(c)
    /\ UNCHANGED <<index, next_label, overlaps, unremoved>>

\* The embedding or the add failed: the entry is skipped.
PutSkipped(c) ==
    /\ op[c].at \in {"none", "add"} /\ Leaves(c)
    /\ UNCHANGED <<entries, index, next_label, overlaps, unremoved>>

-----------------------------------------------------------------------------
\* What a task that was spawned for the index does there: the labels of the
\* callers D that it adds, and the ones it removes.
Adding(D) == {[label |-> op[c].label, key |-> op[c].key] : c \in {d \in D : At(d, "add")}}
Removing(D) ==
    {op[c].label : c \in {d \in D : At(d, "unlink")}}
    \union UNION {op[c].oldest : c \in {d \in D : At(d, "unlink_oldest")}}

\* The callers C are dropped where they await.  A task that was spawned for
\* the index still runs, and for the callers D it succeeds; nothing after it runs.
Abandon(C) ==
    \E D \in SUBSET {c \in C : op[c].at \in {"add", "unlink", "unlink_oldest"}} :
        /\ index' = {i \in index \union Adding(D) : i.label \notin Removing(D)}
        /\ op' = [c \in Callers |-> IF c \in C THEN NoCacheOp ELSE op[c]]
        /\ UNCHANGED <<entries, next_label, overlaps, unremoved>>

\* An entry reaches its time to live.
EntryExpires(l) ==
    /\ l \in Labels /\ ~entries[l].expired
    /\ entries' = [entries EXCEPT ![l].expired = TRUE]
    /\ UNCHANGED <<index, next_label, op, overlaps, unremoved>>

CacheStep(c) ==
    \/ SearchIndex(c) \/ ReadExpired(c) \/ EvictExpired(c) \/ UnlinkExpired(c)
    \/ AddToIndex(c) \/ ChooseOldest(c) \/ UnlinkOldest(c)

CacheTypeOK ==
    /\ \A l \in Labels \union {i.label : i \in index} : l < next_label
    /\ \A i, j \in index : i.label = j.label => i = j
=============================================================================
