--------------------------------- MODULE LRU ---------------------------------
(***************************************************************************)
(* The bounded, dated cache: effect/cache/lru.go, with the store and the   *)
(* operations in front of it (memory.go, operations.go).                   *)
(*                                                                         *)
(* A cache is its entries, the most recently used first, and its index     *)
(* from a subject to keys.  The map from keys to list elements is the      *)
(* order itself: a key occurs in it once.                                  *)
(***************************************************************************)
EXTENDS Integers, Sequences, SequencesExt, Functions, Selection

NoName == ""

Entry(key, about, value, until) ==
    [key |-> key, about |-> about, value |-> value, until |-> until]

NewLRU(most) ==
    [most |-> IF most < 1 THEN 1 ELSE most, order |-> <<>>, about |-> <<>>]

KeysOf(cache) == {cache.order[i].key : i \in DOMAIN cache.order}
PlaceOf(cache, key) == CHOOSE i \in DOMAIN cache.order : cache.order[i].key = key
EntryOf(cache, key) == cache.order[PlaceOf(cache, key)]
Others(cache, key) == RemoveAt(cache.order, PlaceOf(cache, key))

\* The index without a key of a subject; a subject without keys is forgotten.
Unlisted(about, subject, key) ==
    IF subject \notin DOMAIN about THEN about
    ELSE LET keys == about[subject] \ {key}
         IN  IF keys = {} THEN Restrict(about, DOMAIN about \ {subject})
             ELSE [about EXCEPT ![subject] = keys]

\* FAULT: a new key of a subject replaces its other ones.
ListedAlone(about, subject, key) ==
    IF subject = NoName THEN about
    ELSE [s \in DOMAIN about \cup {subject} |-> IF s = subject THEN {key} ELSE about[s]]

Listed(about, subject, key) ==
    IF subject = NoName THEN about
    ELSE IF subject \in DOMAIN about THEN [about EXCEPT ![subject] = @ \cup {key}]
    ELSE [s \in DOMAIN about \cup {subject} |-> IF s = subject THEN {key} ELSE about[s]]

drop(cache, key) ==
    [cache EXCEPT !.order = Others(cache, key),
                  !.about = Unlisted(@, EntryOf(cache, key).about, key)]

IsStale(entry, time) == time > entry.until

\* FAULT: a read is not a use.
GetWithoutUse(cache, key, time) ==
    IF key \notin KeysOf(cache) THEN [cache |-> cache, found |-> FALSE, value |-> 0]
    ELSE IF IsStale(EntryOf(cache, key), time)
    THEN [cache |-> drop(cache, key), found |-> FALSE, value |-> 0]
    ELSE [cache |-> cache, found |-> TRUE, value |-> EntryOf(cache, key).value]

Get(cache, key, time) ==
    LET entry == EntryOf(cache, key)
    IN  IF key \notin KeysOf(cache) THEN [cache |-> cache, found |-> FALSE, value |-> 0]
        ELSE IF IsStale(entry, time)
        THEN [cache |-> drop(cache, key), found |-> FALSE, value |-> 0]
        ELSE [cache |-> [cache EXCEPT !.order = <<entry>> \o Others(cache, key)],
              found |-> TRUE, value |-> entry.value]

\* At most one entry is over the bound after a Put.
Evicted(cache) ==
    IF Len(cache.order) > cache.most THEN drop(cache, Last(cache.order).key) ELSE cache

IsStorable(key, fresh) == key # NoName /\ fresh > 0

Put(cache, key, about, value, fresh, time) ==
    LET free == IF key \in KeysOf(cache) THEN drop(cache, key) ELSE cache
        entry == Entry(key, about, value, time + fresh)
    IN  IF ~IsStorable(key, fresh) THEN cache
        ELSE Evicted([free EXCEPT !.order = <<entry>> \o @, !.about = Listed(@, about, key)])

\* Each key of the subject is dropped, and its entry's subject forgets it; no
\* subject of the index is without keys.
Invalidate(cache, subject) ==
    LET listed == IF subject \in DOMAIN cache.about THEN cache.about[subject] ELSE {}
        dropped == listed \cap KeysOf(cache)
        Left(s) == cache.about[s] \ {k \in dropped : EntryOf(cache, k).about = s}
        subjects == {s \in DOMAIN cache.about \ {subject} : Left(s) # {}}
    IN  [cache EXCEPT !.order = Only(@, {e \in ToSet(@) : e.key \notin dropped}),
                      !.about = [s \in subjects |-> Left(s)]]
=============================================================================
