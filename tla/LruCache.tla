------------------------------ MODULE LruCache ------------------------------
(***************************************************************************)
(* The record cache of cache/lru_cache.cpp as operators on its list_ of    *)
(* key-value entries, most recently used first.  Database constructs it    *)
(* without an eviction policy, so the victim is the last entry.            *)
(***************************************************************************)
EXTENDS Naturals, SequencesExt

CONSTANT RecordCacheSize    \* capacity_

\* With capacity 0 the code would read the first element of an empty vector.
ASSUME RecordCacheAssumption == RecordCacheSize \in Nat \ {0}

Entry(k, v) == [key |-> k, value |-> v]

HasKey(list, k) == \E i \in DOMAIN list : list[i].key = k

PositionOf(list, k) == CHOOSE i \in DOMAIN list : list[i].key = k

CachedValue(list, k) == list[PositionOf(list, k)].value

\* LruCache::get on a hit: the entry moves to the front.
CacheTouch(list, k) == <<list[PositionOf(list, k)]>> \o RemoveAt(list, PositionOf(list, k))

\* LruCache::put
CachePut(list, k, v) ==
    IF HasKey(list, k) THEN <<Entry(k, v)>> \o RemoveAt(list, PositionOf(list, k))
    ELSE IF Len(list) >= RecordCacheSize THEN <<Entry(k, v)>> \o RemoveAt(list, Len(list))
    ELSE <<Entry(k, v)>> \o list
=============================================================================
