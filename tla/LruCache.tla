------------------------------ MODULE LruCache ------------------------------
(***************************************************************************)
(* The least-recently-used cache built on uthash, lru.c of the previous    *)
(* parser.  A program looks a key up and adds it when it is not found      *)
(* (mod_http.ok.c:44).  The entry of a key is the element that has the     *)
(* key: a program that asks first never has two.                           *)
(***************************************************************************)
EXTENDS UtHash

CONSTANT MAX_CACHE_SIZE

ASSUME LruAssumption == MAX_CACHE_SIZE \in Nat

VARIABLES cache,       \* the table the global pointer leads to
          allocated,   \* entries allocated and not freed
          recent       \* history: the keys a cache of this size must hold, oldest first

lruVars == <<cache, hash, allocated, recent>>

NoCache == cache = Empty /\ allocated = {} /\ recent = <<>>
LruInit == HashInit /\ NoCache

Find(k) == HASH_FIND(cache, k, hash[k])

LeaveInPlace(local, e) == local

\* An entry found goes to the end of the list.
MoveToEnd(local, e) == HASH_ADD_KEYPTR(HASH_DELETE(local, e), e, hash[KeyOf(e)])

\* History: what was used before e is used again.
LessRecent(e) ==
    IF \E p \in DOMAIN recent : recent[p] = e
    THEN LET p == CHOOSE p \in DOMAIN recent : recent[p] = e
         IN  SubSeq(recent, 1, p - 1) \o SubSeq(recent, p + 1, Len(recent))
    ELSE recent

lru_find_in_cache(e) ==
    /\ Find(KeyOf(e)) = e
    /\ cache.num_buckets <= MaxBuckets
    /\ cache' = MoveToEnd(cache, e)
    /\ recent' = Append(LessRecent(e), e)
    /\ UNCHANGED <<hash, allocated>>

\* A lookup that misses returns NULL.
lru_find_miss(e) ==
    /\ Find(KeyOf(e)) = Nil
    /\ UNCHANGED lruVars

\* HASH_ITER to the first element, which is the oldest, and out of the loop.
Oldest(local) == local.head

MustPrune(local) == HASH_COUNT(local) >= MAX_CACHE_SIZE

\* the entries freed when the cache is pruned
Freed(local) == {Oldest(local)}

lru_add_to_cache(e) ==
    LET added == HASH_ADD_KEYPTR(cache, e, hash[KeyOf(e)])
        all == Append(recent, e)
    IN /\ Find(KeyOf(e)) = Nil
       /\ e \notin allocated
       /\ cache.num_buckets <= MaxBuckets
       /\ IF MustPrune(added)
          THEN /\ cache' = HASH_DELETE(added, Oldest(added))
               /\ allocated' = (allocated \cup {e}) \ Freed(added)
          ELSE /\ cache' = added
               /\ allocated' = allocated \cup {e}
       /\ recent' = IF Len(all) >= MAX_CACHE_SIZE THEN Tail(all) ELSE all
       /\ UNCHANGED hash

LruNext == \E e \in Elem : lru_find_in_cache(e) \/ lru_find_miss(e) \/ lru_add_to_cache(e)

LruSpec == LruInit /\ [][LruNext]_lruVars
-----------------------------------------------------------------------------
\* What the cache holds, and in which order, is what the last lookups and
\* additions leave in a cache that drops the least recently used entry when
\* it reaches MAX_CACHE_SIZE, across deletions, expansions and table frees.
InOrderOfUse == AppOrder(cache) = recent

\* Every entry in memory can still be found: entries are neither lost nor
\* freed while the table refers to them.
NoEntryLost == \A e \in Elem : e \in allocated <=> Find(KeyOf(e)) = e

\* lru.c:23-56: the cache holds the most recently used keys, fewer
\* than MAX_CACHE_SIZE of them, in the order of use; what is pruned is freed, and only
\* that; and the links of the table stay sound.
HoldsMostRecent == InOrderOfUse /\ NoEntryLost /\ HASH_FSCK(cache)
=============================================================================
