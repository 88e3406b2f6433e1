----------------------------- MODULE TxIdCache -----------------------------
(***************************************************************************)
(* The bounded tx-hash -> tx-id cache shared by the coordinator            *)
(* (pgBlockWorker, which calls add) and the TxIn writer (pgTxInWriter,      *)
(* which calls check).  Its implementation (newTxIdCache, add, check) is   *)
(* not among the repository's source files, so this module follows the     *)
(* spec, section 4.3: LRU eviction, add returns the id already stored for  *)
(* a known hash, check bumps recency and counts a miss.                    *)
(*                                                                         *)
(* A cache value is a sequence of entries ordered by recency: the head is  *)
(* the least recently used entry, the last element the most recent one.   *)
(* Each operation is atomic (the spec requires the cache to be safe for    *)
(* one concurrent reader and one concurrent writer).                       *)
(***************************************************************************)
EXTENDS Naturals, Sequences, SequencesExt

CONSTANTS CacheSize,   \* capacity requested by NewPGWriter(connstr, cacheSize)
          Null         \* the nil *int64 returned by check on a miss

ASSUME CacheSize \in Nat \ {0}

\* newTxIdCache(cacheSize): an empty cache.
EmptyCache == <<>>

\* The position of hash h in cache c, or 0 when h is not cached.
Slot(c, h) == IF \E k \in DOMAIN c : c[k].hash = h
              THEN CHOOSE k \in DOMAIN c : c[k].hash = h
              ELSE 0

\* Move the entry at position k to the most-recent end.
Bump(c, k) == Append(RemoveAt(c, k), c[k])

\* add(hash, id, outputs): a known hash keeps its entry, is bumped and its
\* stored id returned; an unknown one is inserted as most recent, the least
\* recently used entry is evicted when the capacity is exceeded, and id is
\* returned.  The result is [cache |-> new cache, ret |-> returned id].
CacheAdd(c, h, id, outs) ==
    LET k == Slot(c, h)
        c1 == Append(c, [hash |-> h, id |-> id, outs |-> outs])
    IN  IF k # 0
        THEN [cache |-> Bump(c, k), ret |-> c[k].id]
        ELSE [cache |-> IF Len(c1) > CacheSize THEN Tail(c1) ELSE c1,
              ret   |-> id]

\* check(hash): on a hit the entry is bumped and its id returned, on a miss
\* Null is returned and the miss counter goes up.
CacheCheck(c, h) ==
    LET k == Slot(c, h)
    IN  IF k # 0
        THEN [cache |-> Bump(c, k), ret |-> c[k].id, miss |-> 0]
        ELSE [cache |-> c, ret |-> Null, miss |-> 1]

\* The hashes a cache value holds.
Cached(c) == {c[k].hash : k \in DOMAIN c}

=============================================================================
