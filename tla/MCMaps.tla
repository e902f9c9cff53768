------------------------------- MODULE MCMaps -------------------------------
(***************************************************************************)
(* The maps of the program for TLC: UtHash, LruCache, AhTable, HatTrie and *)
(* AtomicHash.  Every behaviour is one of one map with one kind of client, *)
(* which says which; the others are Off, or a cache or an atomic hash that *)
(* nobody calls.                                                           *)
(***************************************************************************)
EXTENDS UtHashUse, LruCache, AtomicHash, SequencesExt

CONSTANTS t1, t2                \* threads that share an atomic hash

VARIABLES which,
          table, heap, root, m, behind, failed, dict            \* AhTable, HatTrie

Off == "off"
uthVars == <<t, dst, el, tmp, iterating, order, picked, seen, start>>
ahtVars == <<table>>
hatVars == <<heap, root, m, behind>>

UthOff == t = Off /\ dst = Off /\ el = Off /\ tmp = Off /\ iterating = Off /\ order = Off
             /\ picked = Off /\ seen = Off /\ start = Off
AhtOff == table = Off
HatOff == heap = Off /\ root = Off /\ m = Off /\ behind = Off

-----------------------------------------------------------------------------
(* uthash.h: elements are numbered, the key of an element is its number.   *)
(* With a threshold of one, buckets expand most; with a second table, the  *)
(* program selects into it.                                                *)
MCKeyOf(e) == e
\* Two elements in a row have the same rank: stability shows.
MCRank(e) == 3 - (e \div 2)

Dense == INSTANCE UtHashUse WITH Hashes <- {0, 4}, HASH_BKT_CAPACITY_THRESH <- 1,
           MayClear <- FALSE, MaxBuckets <- 8
Chosen == INSTANCE UtHashUse WITH Elem <- {1, 2, 3}, Hashes <- {0, 1}, MaySelect <- TRUE

-----------------------------------------------------------------------------
(* hat-trie: keys on both sides of ShortLen, <<1, 2>> and <<2, 1>> always  *)
(* in one slot; strings with their NUL, as _aget and _aset pass them;      *)
(* arrays of bytes, one being a prefix of another.                         *)
Mixed == {<<>>, <<3>>, <<1, 2>>, <<2, 1>>}
SumOf(k) == FoldLeft(LAMBDA a, b : a + b, 0, k)
Strings == {<<0>>, <<1, 0>>, <<2, 0>>, <<1, 2, 0>>, <<1, 2, 2, 0>>}
Bytes == {<<1>>, <<1, 0>>, <<1, 1>>, <<1, 1, 1>>, <<2>>}

Cleared == INSTANCE AhTable WITH Keys <- Mixed \ {<<3>>}, Values <- {1}, Hash <- SumOf, ShortLen <- 2,
             InitialSize <- 1, MaxLoad <- 2, MaxSlots <- 4, MayClear <- TRUE
Counted == INSTANCE AhTable WITH Keys <- Mixed, Values <- {1}, Hash <- SumOf, ShortLen <- 2,
             InitialSize <- 1, MaxLoad <- 2, MaxSlots <- 4, MayClear <- FALSE

OfStrings == INSTANCE HatTrie WITH Keys <- Strings, Values <- {1}, MaxChar <- 2, MAX_BUCKET_SIZE <- 2,
             AfterKey <- {0, 1, 2}, MayClear <- FALSE, MaxCount <- 3, MaxPrefix <- 3
OfBytes == INSTANCE HatTrie WITH Keys <- Bytes, Values <- {1}, MaxChar <- 2, MAX_BUCKET_SIZE <- 2,
             AfterKey <- {0, 1, 2}, MayClear <- TRUE, MaxCount <- 3, MaxPrefix <- 1

-----------------------------------------------------------------------------
(* atomic_hash: the two keys share their only seat, and there is one seat  *)
(* in the collision array.  Calls of all kinds at the same time, with      *)
(* hooks that ask for removal or with times to live; once NodesSound is    *)
(* lost to a stale hold the behaviour is not followed any further.         *)
OneSeat(k) == <<1>>
OneExtra == <<9>>
Removing == [ops |-> {"add", "get", "del"}, hook_removes |-> TRUE, ttls |-> {0}, calls |-> 2, time |-> 0]
Expiring == [ops |-> {"add", "del"}, hook_removes |-> FALSE, ttls |-> {1}, calls |-> 2, time |-> 1]
AtomicClients == {Removing, Expiring}
AtomIdle == client = Removing /\ AtomicInit

\* Threads look alike.
Symmetry == Permutations(Threads)

-----------------------------------------------------------------------------
MCInit ==
    \/ /\ NoCache /\ AhtOff /\ HatOff /\ AtomIdle /\ failed = Off /\ dict = Off
       /\ \/ which = "uthash" /\ Init
          \/ which = "uthash dense" /\ Dense!Init
          \/ which = "uthash select" /\ Chosen!Init
    \/ UthOff /\ AhtOff /\ HatOff /\ AtomIdle /\ failed = Off /\ dict = Off /\ which = "lru" /\ LruInit
    \/ /\ UthOff /\ NoCache /\ HatOff /\ AtomIdle /\ hash = Off
       /\ \/ which = "ahtable cleared" /\ Cleared!Init
          \/ which = "ahtable" /\ Counted!Init
    \/ /\ UthOff /\ NoCache /\ AhtOff /\ AtomIdle /\ hash = Off
       /\ \/ which = "hattrie" /\ OfStrings!Init
          \/ which = "hattrie bytes" /\ OfBytes!Init
    \/ /\ UthOff /\ NoCache /\ AhtOff /\ HatOff /\ hash = Off /\ failed = Off /\ dict = Off
       /\ which = "atomic" /\ AtomicInit

MCNext ==
    /\ UNCHANGED which
    /\ \/ /\ UNCHANGED <<lruVars, ahtVars, hatVars, atomicVars, failed, dict>>
          /\ \/ which = "uthash" /\ Next
             \/ which = "uthash dense" /\ Dense!Next
             \/ which = "uthash select" /\ Chosen!Next
       \/ which = "lru" /\ LruNext /\ UNCHANGED <<uthVars, ahtVars, hatVars, atomicVars, failed, dict>>
       \/ /\ UNCHANGED <<uthVars, lruVars, hatVars, atomicVars>>
          /\ \/ which = "ahtable cleared" /\ Cleared!Next
             \/ which = "ahtable" /\ Counted!Next
       \/ /\ UNCHANGED <<uthVars, lruVars, ahtVars, atomicVars>>
          /\ \/ which = "hattrie" /\ OfStrings!Next
             \/ which = "hattrie bytes" /\ OfBytes!Next
       \/ /\ UNCHANGED <<uthVars, lruVars, ahtVars, hatVars, failed, dict>>
          /\ which = "atomic" /\ ~stale /\ AtomicNext

MCSpec == MCInit /\ [][MCNext]_<<which, uthVars, lruVars, ahtVars, hatVars, failed, dict, atomicVars>>

-----------------------------------------------------------------------------
\* uthash.h: after any calls the table passes HASH_FSCK, HASH_FIND finds exactly
\* what was added, the application order is the order of insertion (or the
\* stable sort of it), no chain is longer than its bucket's allowance, and
\* HASH_ITER visits every element once though its body deletes elements.
UtHashSound ==
    /\ which = "uthash" => Fsck /\ InsertionOrder /\ FindExact /\ ChainsBounded /\ IterationComplete
    /\ which = "uthash dense" => Dense!Fsck /\ Dense!FindExact
    /\ which = "uthash select" => Chosen!Fsck /\ Chosen!FsckDst

\* ahtable.c: a table finds what was stored under a key whatever expansions,
\* deletions and reloads came between; as long as it is not cleared its count is
\* exact and its iterators visit every entry; a file cut short is refused.
\* (ahtable_clear leaves the count as it was, ahtable.c:176.)
AhTableSound ==
    /\ which = "ahtable cleared" => Cleared!TypeOK /\ Cleared!FindsWhatWasStored
    /\ which = "ahtable" => /\ Counted!FindsWhatWasStored /\ Counted!SizeIsCount
                            /\ Counted!IterationComplete /\ Counted!CutFileRefused

\* hat-trie.c: a trie of strings finds what was stored, counts it and iterates
\* over it, whatever splits and deletions came between, and no assert fails; an
\* iteration over a prefix meets what it should exactly if the prefix does not
\* lead below the first node, or leads to a pure bucket.  With arrays of bytes as
\* keys all this holds until a key is looked up that ends on a trie node; after
\* that the lookups still agree, and freeing the trie frees every node once.
HatTrieSound ==
    /\ which = "hattrie" => /\ OfStrings!TypeOK /\ OfStrings!AssertionsHold
                            /\ OfStrings!FindsWhatWasStored /\ OfStrings!SizeIsCount
                            /\ OfStrings!IterationComplete /\ OfStrings!PrefixIterationComplete
    /\ which = "hattrie bytes" => /\ OfBytes!FreesEveryNodeOnce /\ OfBytes!LookupsAgree
                                  /\ ~behind => /\ OfBytes!AssertionsHold /\ OfBytes!FindsWhatWasStored
                                                /\ OfBytes!IterationComplete
=============================================================================
