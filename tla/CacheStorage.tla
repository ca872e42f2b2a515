---------------------------- MODULE CacheStorage ----------------------------
(* The object storage of crates/hllset-storage: a backend (MemoryStorage, or *)
(* SledStorage, which leaves pins and collection to the trait's defaults)    *)
(* used directly, and through the LRU and TTL cache of CacheStorage.  A key  *)
(* names its data, so a store is the set of its keys; the time of an entry   *)
(* is its age in ticks.                                                      *)
EXTENDS Integers, Sequences, FiniteSets, SequencesExt, FiniteSetsExt

CONSTANTS Keys,
          MaxEntries,   \* CacheStorage::max_entries, 0 included
          Ttl           \* CacheStorage::ttl; ages are capped there

ASSUME CacheLimits == MaxEntries \in Nat /\ Ttl \in Nat

VARIABLES backend,      \* the keys the backend holds
          pinned,       \* MemoryStorage::pinned
          collects,     \* the backend implements pin, unpin and gc
          entries,      \* CacheStorage::cache: key -> age
          lru,          \* CacheStorage::lru, most recent first
          unheld        \* history: for how long the backend lacks a key

storage_vars == <<backend, pinned, collects, entries, lru, unheld>>

StorageInit ==
    /\ backend = {} /\ pinned = {} /\ collects \in BOOLEAN
    /\ entries = <<>> /\ lru = <<>>
    /\ unheld = [k \in Keys |-> Ttl]

touch(l, k) == <<k>> \o RemoveFirst(l, k)

\* The backend becomes B: what it held so far was held until now.
Holds(B) ==
    /\ backend' = B
    /\ unheld' = [k \in Keys |-> IF k \in B \cup backend THEN 0 ELSE unheld[k]]

\* k is cached afresh and touched, the tail of the queue is evicted.
Cached(k) ==
    LET l    == touch(lru, k)
        size == Cardinality(DOMAIN entries \cup {k})
        kept == SubSeq(l, 1, Len(l) - Max({0, size - MaxEntries}))
    IN  /\ lru' = kept
        /\ entries' = [m \in (DOMAIN entries \cup {k}) \cap ToSet(kept) |->
                          IF m = k THEN 0 ELSE entries[m]]

Live(k) == k \in DOMAIN entries /\ entries[k] < Ttl

-----------------------------------------------------------------------------
(* The backend used directly.                                                *)

RawPut(k) == Holds(backend \cup {k}) /\ UNCHANGED <<pinned, collects, entries, lru>>

RawDelete(k) == Holds(backend \ {k}) /\ UNCHANGED <<pinned, collects, entries, lru>>

Pin(k) == /\ collects /\ pinned' = pinned \cup {k}
          /\ UNCHANGED <<backend, collects, entries, lru, unheld>>

Unpin(k) == /\ collects /\ pinned' = pinned \ {k}
            /\ UNCHANGED <<backend, collects, entries, lru, unheld>>

Gc == /\ collects /\ Holds(backend \cap pinned)
      /\ UNCHANGED <<pinned, collects, entries, lru>>

-----------------------------------------------------------------------------
(* Through the cache.  Its pin, unpin and gc are the trait's: they do nothing. *)

CachePut(k) == Holds(backend \cup {k}) /\ Cached(k) /\ UNCHANGED <<pinned, collects>>

\* What get answers: {} for None.
Got(k) == IF Live(k) \/ k \in backend THEN {k} ELSE {}

\* Mutation of CacheGet: a hit renews the entry.
CacheGetRenews(k) ==
    /\ \/ Live(k) /\ Cached(k)
       \/ ~Live(k) /\ k \in backend /\ Cached(k)
       \/ ~Live(k) /\ k \notin backend /\ UNCHANGED <<entries, lru>>
    /\ UNCHANGED <<backend, pinned, collects, unheld>>

\* A hit is touched, a miss fetched; an expired entry the backend lacks stays.
CacheGet(k) ==
    /\ \/ Live(k) /\ lru' = touch(lru, k) /\ UNCHANGED entries
       \/ ~Live(k) /\ k \in backend /\ Cached(k)
       \/ ~Live(k) /\ k \notin backend /\ UNCHANGED <<entries, lru>>
    /\ UNCHANGED <<backend, pinned, collects, unheld>>

CacheHas(k) == k \in DOMAIN entries \cup backend

CacheDelete(k) ==
    /\ Holds(backend \ {k})
    /\ entries' = [m \in DOMAIN entries \ {k} |-> entries[m]]
    /\ lru' = RemoveFirst(lru, k)
    /\ UNCHANGED <<pinned, collects>>

CacheList(keys) == (DOMAIN entries \cup backend) \cap keys

Tick == /\ entries' = [k \in DOMAIN entries |-> Min({entries[k] + 1, Ttl})]
        /\ unheld' = [k \in Keys |-> IF k \in backend THEN 0 ELSE Min({unheld[k] + 1, Ttl})]
        /\ UNCHANGED <<backend, pinned, collects, lru>>

StorageNext ==
    \/ Gc \/ Tick
    \/ \E k \in Keys : \/ RawPut(k) \/ RawDelete(k) \/ Pin(k) \/ Unpin(k)
                       \/ CachePut(k) \/ CacheGet(k) \/ CacheDelete(k)

-----------------------------------------------------------------------------
\* The cache is a faithful redundancy: what get answers the backend holds, or
\* held less than a TTL ago; what the backend holds is always found, and listed.
\* has and list promise more than get returns only for an expired entry.  The
\* queue names exactly the cached keys, once each, and no more than fit.
CacheFaithful ==
    /\ \A k \in Keys :
          /\ Got(k) # {} => k \in backend \/ unheld[k] < Ttl
          /\ k \in backend => Got(k) # {} /\ k \in CacheList(Keys)
          /\ CacheHas(k) /\ Got(k) = {} => k \in DOMAIN entries /\ entries[k] = Ttl
    /\ ToSet(lru) = DOMAIN entries
    /\ Len(lru) = Cardinality(DOMAIN entries)
    /\ Len(lru) <= MaxEntries
=============================================================================
