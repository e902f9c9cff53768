------------------------------ MODULE HatTrie -------------------------------
(***************************************************************************)
(* The hat-trie behind every associative array of the server, the route    *)
(* table included (src/lib/hat-trie/src/hat-trie.c).  Trie nodes map a     *)
(* byte to a child; a child is another trie node or a bucket of key        *)
(* suffixes that is shared by a range c0 .. c1 of bytes (hybrid) or belongs*)
(* to one byte, which its keys then leave out (pure).  A bucket that is    *)
(* full is split before the next insertion.                                *)
(*                                                                         *)
(* Nodes have addresses, since the code tells by the address whether       *)
(* neighbouring bytes share a bucket.  A bucket's table is the map that    *)
(* AhTable is shown to be.  Keys are sequences of bytes 0 .. MaxChar; the  *)
(* byte in memory behind a key is in AfterKey.                             *)
(***************************************************************************)
EXTENDS Naturals, Integers, Sequences, SequencesExt, FiniteSets, TLC

CONSTANTS
    Keys,           \* the keys a client uses
    Values,         \* the words a client stores
    MaxChar,        \* NODE_MAXCHAR
    MAX_BUCKET_SIZE,
    AfterKey,       \* the bytes that may follow a key in memory
    MayClear,       \* does a client call hattrie_clear?
    MaxCount,       \* bound: no clearing once m exceeds it (clearing keeps m)
    MaxPrefix       \* longest prefix a client iterates over

VARIABLES
    heap,           \* the nodes, by address
    root,           \* T->root
    m,              \* T->m
    failed,         \* an assert() of the code failed
    dict,           \* what the client stored, kept by Dictionary
    behind          \* history: a key was looked up that ends on a trie node, and
                    \* the byte behind it was read

vars == <<heap, root, m, failed, dict, behind>>

D == INSTANCE Dictionary

Char == 0 .. MaxChar
IsTrie(h, n) == h[n].type = "trie"
Without(f, k) == [x \in DOMAIN f \ {k} |-> f[x]]

\* malloc: an address that is not in use.
New(h) == CHOOSE a \in 1 .. Cardinality(DOMAIN h) + 1 :
            a \notin DOMAIN h /\ \A b \in 1 .. a - 1 : b \in DOMAIN h

alloc_trie_node(child) ==
    [type |-> "trie", hasval |-> FALSE, val |-> 0, xs |-> [c \in Char |-> child]]
BucketType(c0, c1) == IF c0 = c1 THEN "pure" ELSE "hybrid"
Bucket(c0, c1, map) == [type |-> BucketType(c0, c1), c0 |-> c0, c1 |-> c1, map |-> map]

\* An empty trie: the root at 1 with one hybrid bucket at 2.
hattrie_create == (1 :> alloc_trie_node(2)) @@ (2 :> Bucket(0, MaxChar, <<>>))

(***************************************************************************)
(* mem is the key with the byte behind it, i the bytes consumed, l the     *)
(* bytes left.  With brk = 0 the walk reads the byte behind the key.       *)
(***************************************************************************)
RECURSIVE hattrie_consume(_, _, _, _, _, _)
hattrie_consume(h, p, mem, i, l, brk) ==
    LET n == h[p].xs[mem[i + 1]]
    IN  IF IsTrie(h, n) /\ l > brk
        THEN hattrie_consume(h, n, mem, i + 1, l - 1, brk)
        ELSE [parent |-> p, node |-> n, i |-> i, l |-> l]

NULL == 0
\* The node of a key, or NULL, and how much of the key is left in it.
hattrie_find(h, r, key) ==
    IF key = <<>> THEN [node |-> r, rest |-> <<>>]
    ELSE LET w == hattrie_consume(h, r, key, 0, Len(key), 1)
             rest == SubSeq(key, w.i + 1, Len(key))
         IN  [node |-> IF IsTrie(h, w.node) /\ ~h[w.node].hasval THEN NULL ELSE w.node,
              rest |-> IF h[w.node].type = "pure" THEN Tail(rest) ELSE rest]

NoValue == -1
hattrie_tryget(h, r, key) ==
    LET f == hattrie_find(h, r, key)
    IN  IF f.node = NULL THEN NoValue
        ELSE IF IsTrie(h, f.node) THEN h[f.node].val
        ELSE IF f.rest \in DOMAIN h[f.node].map THEN h[f.node].map[f.rest]
        ELSE NoValue

(***************************************************************************)
(* hattrie_split: a pure bucket gets a trie node above it and becomes      *)
(* hybrid; a hybrid one is replaced by two, for the bytes up to j and for  *)
(* the bytes after it.                                                     *)
(***************************************************************************)
Abs(x) == IF x < 0 THEN -x ELSE x
CountOf(b, c) == Cardinality({k \in DOMAIN b.map : k[1] = c})

RECURSIVE SplitPoint(_, _, _)
SplitPoint(b, j, left_m) ==
    LET all_m == Cardinality(DOMAIN b.map)
        right_m == all_m - left_m
        cs == CountOf(b, j + 1)
        d == Abs((left_m + cs) - (right_m - cs))
    IN  IF j + 1 < b.c1 /\ d <= left_m - right_m /\ left_m + cs < all_m
        THEN SplitPoint(b, j + 1, left_m + cs)
        ELSE j

SplitPure(h, parent, node) ==
    LET b == h[node]
        t == New(h)
        has == <<>> \in DOMAIN b.map
        above == [alloc_trie_node(node) EXCEPT !.hasval = has, !.val = IF has THEN b.map[<<>>] ELSE 0]
    IN  [h EXCEPT ![parent].xs[b.c0] = t, ![node] = Bucket(0, MaxChar, Without(b.map, <<>>))]
            @@ (t :> above)

\* The keys of a bucket that start with a byte of c0 .. c1, as they are kept there.
Share(b, c0, c1) ==
    LET ks == {k \in DOMAIN b.map : k[1] \in c0 .. c1}
    IN  IF BucketType(c0, c1) = "pure" THEN [s \in {Tail(k) : k \in ks} |-> b.map[<<c0>> \o s]]
                                       ELSE [k \in ks |-> b.map[k]]

SplitHybrid(h, parent, node) ==
    LET b == h[node]
        j == SplitPoint(b, b.c0, CountOf(b, b.c0))
        left == New(h)
        right == New(h @@ (left :> {}))
        xs == [c \in Char |-> IF c \in b.c0 .. j THEN left
                              ELSE IF c \in j + 1 .. b.c1 THEN right ELSE h[parent].xs[c]]
    IN  Without([h EXCEPT ![parent].xs = xs]
            @@ (left :> Bucket(b.c0, j, Share(b, b.c0, j)))
            @@ (right :> Bucket(j + 1, b.c1, Share(b, j + 1, b.c1))), node)

hattrie_split(h, parent, node) ==
    IF h[node].type = "pure" THEN SplitPure(h, parent, node) ELSE SplitHybrid(h, parent, node)

(***************************************************************************)
(* hattrie_get.  The result is the heap, how many keys it added, and where *)
(* the value is: in the trie node at, or in the bucket at under the key    *)
(* sub; ok is FALSE when assert(len > 0) fails.                            *)
(***************************************************************************)
Place(h, added, at, sub) == [ok |-> TRUE, heap |-> h, added |-> added, at |-> at, sub |-> sub]

hattrie_useval(h, n) ==
    Place([h EXCEPT ![n].hasval = TRUE], IF h[n].hasval THEN 0 ELSE 1, n, <<>>)

ahtable_get(h, b, sub) ==
    Place([h EXCEPT ![b].map = @ @@ (sub :> 0)], IF sub \in DOMAIN h[b].map THEN 0 ELSE 1, b, sub)

RECURSIVE GetFrom(_, _, _)
GetFrom(h, w, mem) ==
    LET b == h[w.node]
        sub == SubSeq(mem, w.i + 1, Len(mem) - 1)
    IN  IF w.l = 0 /\ b.type = "trie" THEN hattrie_useval(h, w.node)
        ELSE IF w.l = 0 /\ b.type = "hybrid" THEN hattrie_useval(h, w.parent)
        ELSE IF Cardinality(DOMAIN b.map) >= MAX_BUCKET_SIZE
        THEN LET s == hattrie_split(h, w.parent, w.node)
             IN  GetFrom(s, hattrie_consume(s, w.parent, mem, w.i, w.l, 0), mem)
        ELSE IF w.l = 0 THEN [ok |-> FALSE, heap |-> h]
        ELSE ahtable_get(h, w.node, IF b.type = "pure" THEN Tail(sub) ELSE sub)

hattrie_get(h, r, key, after) ==
    LET mem == Append(key, after)
    IN  IF key = <<>>
        THEN Place([h EXCEPT ![r].hasval = TRUE], 0, r, <<>>)
        ELSE GetFrom(h, hattrie_consume(h, r, mem, 0, Len(key), 0), mem)

\* *hattrie_get(...) = v
StoreAt(g, v) ==
    IF IsTrie(g.heap, g.at) THEN [g.heap EXCEPT ![g.at].val = v]
                            ELSE [g.heap EXCEPT ![g.at].map[g.sub] = v]

(***************************************************************************)
(* Operations of a client.                                                 *)
(***************************************************************************)
Get(key, after) ==
    LET g == hattrie_get(heap, root, key, after)
    IN  /\ ~failed
        /\ failed' = ~g.ok
        /\ behind' = (behind \/ ~g.ok \/ (key # <<>> /\ IsTrie(g.heap, g.at)))
        /\ UNCHANGED root
        /\ IF ~g.ok THEN UNCHANGED <<heap, m, dict>>
           ELSE /\ m' = m + g.added
                /\ \/ heap' = g.heap /\ D!Get(key)
                   \/ \E v \in Values : heap' = StoreAt(g, v) /\ D!Set(key, v)

\* hattrie_del: the value of a trie node is cleared, a bucket loses the key.
DelKeepsMark(key) ==
    LET f == hattrie_find(heap, root, key)
        inTrie == f.node # NULL /\ IsTrie(heap, f.node)
        inBucket == f.node # NULL /\ ~inTrie /\ f.rest \in DOMAIN heap[f.node].map
    IN  /\ ~failed
        /\ heap' = IF inTrie THEN [heap EXCEPT ![f.node].hasval = FALSE]
                   ELSE IF inBucket THEN [heap EXCEPT ![f.node].map[f.rest] = 0]
                   ELSE heap
        /\ m' = IF inBucket \/ (inTrie /\ heap[f.node].hasval) THEN m - 1 ELSE m
        /\ D!Del(key)
        /\ UNCHANGED <<root, failed, behind>>
Del(key) ==
    LET f == hattrie_find(heap, root, key)
        inTrie == f.node # NULL /\ IsTrie(heap, f.node)
        inBucket == f.node # NULL /\ ~inTrie /\ f.rest \in DOMAIN heap[f.node].map
        counted == inBucket \/ (inTrie /\ heap[f.node].hasval)
    IN  /\ ~failed
        /\ heap' = IF inTrie /\ counted THEN [heap EXCEPT ![f.node].hasval = FALSE, ![f.node].val = 0]
                   ELSE IF inBucket THEN [heap EXCEPT ![f.node].map = Without(@, f.rest)]
                   ELSE heap
        /\ m' = IF counted THEN m - 1 ELSE m
        /\ D!Del(key)
        /\ UNCHANGED <<root, failed, behind>>

hattrie_clear ==
    /\ MayClear /\ m <= MaxCount
    /\ ~failed
    /\ heap' = hattrie_create
    /\ root' = 1
    /\ D!Clear
    /\ UNCHANGED <<m, failed, behind>>

Init ==
    /\ heap = hattrie_create
    /\ root = 1
    /\ m = 0
    /\ failed = FALSE /\ behind = FALSE
    /\ D!Init

Next ==
    \/ \E key \in Keys : Del(key) \/ \E after \in AfterKey : Get(key, after)
    \/ hattrie_clear

Spec == Init /\ [][Next]_vars
-----------------------------------------------------------------------------
(***************************************************************************)
(* Walks over the whole trie: freeing it, and iteration.                   *)
(***************************************************************************)
\* The children that hattrie_free_node and node_sizeof visit: a bucket that
\* several bytes share is recognised by its neighbour having the same address.
DistinctChildren(h, n) ==
    {c \in Char : c = 0 \/ h[n].xs[c] # h[n].xs[c - 1]}

RECURSIVE hattrie_free_node(_, _)
hattrie_free_node(h, n) ==
    IF ~IsTrie(h, n) THEN <<n>>
    ELSE LET cs == SetToSortSeq(DistinctChildren(h, n), <)
         IN  FlattenSeq([i \in DOMAIN cs |-> hattrie_free_node(h, h[n].xs[cs[i]])]) \o <<n>>

\* ahtable's order of keys: by bytes, a prefix first.
KeyBefore(a, b) ==
    \/ IsStrictPrefix(a, b)
    \/ \E i \in 1 .. Len(a) : /\ i <= Len(b) /\ a[i] < b[i]
                              /\ \A j \in 1 .. i - 1 : a[j] = b[j]

Sorted(map) ==
    LET ks == DOMAIN map
    IN  [i \in 1 .. Cardinality(ks) |->
            LET k == CHOOSE k \in ks : Cardinality({x \in ks : KeyBefore(x, k)}) = i - 1
            IN  [key |-> k, val |-> map[k]]]

(***************************************************************************)
(* An iterator: the bytes above the current node (the buffer key up to     *)
(* level), the value of the node itself if it has one (nil), the entries   *)
(* left in the current bucket, the nodes still to visit.  bad records that *)
(* the code used a NULL node or iterator or the level 0 - 1.               *)
(***************************************************************************)
pushchar(it, level, c) ==
    [it EXCEPT !.level = level,
               !.key = IF level = 0 THEN @
                       ELSE [i \in 1 .. (IF level > Len(@) THEN level ELSE Len(@)) |->
                                IF i = level THEN c ELSE @[i]]]

hattrie_iter_nextnode(h, it) ==
    LET top == Head(it.stack)
        n == h[top.node]
        popped == [it EXCEPT !.stack = Tail(@)]
        cs == SetToSortSeq({c \in Char : c = MaxChar \/ n.xs[c] # n.xs[c + 1]}, <)
        children == [i \in DOMAIN cs |-> [node |-> n.xs[cs[i]], c |-> cs[i], level |-> top.level + 1]]
    IN  IF it.stack = <<>> THEN it
        ELSE IF top.node = NULL THEN [popped EXCEPT !.bad = TRUE]
        ELSE IF n.type = "trie"
        THEN [pushchar(popped, top.level, top.c) EXCEPT
                !.nil = IF n.hasval THEN <<n.val>> ELSE @, !.stack = children \o @]
        ELSE IF n.type = "pure"
        THEN [pushchar(popped, top.level, top.c) EXCEPT !.bucket = Sorted(n.map)]
        ELSE IF top.level = 0 THEN [popped EXCEPT !.bad = TRUE]
        ELSE [popped EXCEPT !.level = top.level - 1, !.bucket = Sorted(n.map)]

iter_finished(it) == it.stack = <<>> /\ it.bucket = <<>> /\ it.nil = <<>>

RECURSIVE hattrie_iter_continue(_, _)
hattrie_iter_continue(h, it) ==
    IF it.bad \/ it.bucket # <<>> \/ it.nil # <<>> \/ it.stack = <<>> THEN it
    ELSE hattrie_iter_continue(h, hattrie_iter_nextnode(h, it))

\* Without an entry the code follows a NULL iterator: see PrefixBad.
PrefixBad(it) == it.level < Len(it.prefix) /\ it.nil = <<>> /\ it.bucket = <<>>
prefix_satisfied(it) ==
    LET p == it.prefix
        sub == Head(it.bucket).key
    IN  IF it.level >= Len(p) THEN SubSeq(it.key, 1, Len(p)) = p
        ELSE /\ it.nil = <<>>
             /\ SubSeq(it.key, 1, it.level) = SubSeq(p, 1, it.level)
             /\ IsPrefix(SubSeq(p, it.level + 1, Len(p)), sub)

iter_satisfied(it) == iter_finished(it) \/ it.prefix = <<>> \/ prefix_satisfied(it)

RECURSIVE hattrie_iter_next(_, _)
hattrie_iter_next(h, it) ==
    LET stepped == IF it.bucket # <<>> THEN [it EXCEPT !.bucket = Tail(@)]
                   ELSE IF it.nil # <<>> THEN hattrie_iter_nextnode(h, [it EXCEPT !.nil = <<>>])
                   ELSE it
        next == hattrie_iter_continue(h, stepped)
    IN  IF it.bad \/ iter_finished(it) THEN it
        ELSE IF next.bad \/ iter_satisfied(next) THEN next
        ELSE hattrie_iter_next(h, next)

iter_begin_with_prefix(h, r, prefix) ==
    LET f == hattrie_find(h, r, prefix)
        fromRoot == prefix = <<>> \/ f.rest = prefix
        first == hattrie_iter_continue(h,
            [key |-> <<>>, level |-> 0, nil |-> <<>>, bucket |-> <<>>, bad |-> FALSE,
             prefix |-> f.rest,
             stack |-> <<[node |-> IF fromRoot THEN r ELSE f.node, c |-> 0, level |-> 0]>>])
    IN  IF first.bad \/ first.prefix = <<>> THEN first
        ELSE IF PrefixBad(first) THEN [first EXCEPT !.bad = TRUE]
        ELSE IF prefix_satisfied(first) THEN first
        ELSE hattrie_iter_next(h, first)

\* What hattrie_iter_key and hattrie_iter_val return: the key without the prefix.
iter_entry(it) ==
    LET sub == IF it.nil # <<>> THEN <<>> ELSE Head(it.bucket).key
        whole == SubSeq(it.key, 1, it.level) \o sub
    IN  [key |-> SubSeq(whole, Len(it.prefix) + 1, Len(whole)),
         val |-> IF it.nil # <<>> THEN it.nil[1] ELSE Head(it.bucket).val]

RECURSIVE Iterate(_, _)
Iterate(h, it) ==
    IF it.bad THEN <<[key |-> <<>>, val |-> NoValue]>>
    ELSE IF iter_finished(it) THEN <<>>
    ELSE <<iter_entry(it)>> \o Iterate(h, hattrie_iter_next(h, it))
-----------------------------------------------------------------------------
(***************************************************************************)
(* Properties                                                              *)
(***************************************************************************)
TypeOK ==
    /\ root \in DOMAIN heap
    /\ m \in Int
    /\ failed \in BOOLEAN
    /\ \A n \in DOMAIN heap : IF IsTrie(heap, n)
         THEN heap[n].xs \in [Char -> DOMAIN heap]
         ELSE heap[n].c0 \in Char /\ heap[n].c1 \in heap[n].c0 .. MaxChar

\* hattrie_tryget finds each key that was stored, with the last value stored
\* through hattrie_get, and no other key, however the buckets were split.
FindsWhatWasStored ==
    \A k \in Keys : hattrie_tryget(heap, root, k) = IF k \in DOMAIN dict THEN dict[k] ELSE NoValue

\* hattrie_size is the number of stored keys.
SizeIsCount == m = Cardinality(DOMAIN dict)

\* assert(len > 0) in hattrie_get never fails.
AssertionsHold == ~failed

\* Freeing the trie frees every node once: the test for a shared bucket by the
\* neighbour's address neither misses a node nor meets one twice, and splitting
\* leaves no node behind.
FreesEveryNodeOnce ==
    LET f == hattrie_free_node(heap, root)
    IN  ToSet(f) = DOMAIN heap /\ Len(f) = Cardinality(DOMAIN heap)

\* The ordered iterator returns every key once, with its value, in order.
IterationComplete ==
    Iterate(heap, iter_begin_with_prefix(heap, root, <<>>)) = Sorted(dict)

\* Iteration and lookup agree on what is in the trie, whatever keys were used.
LookupsAgree ==
    LET e == ToSet(Iterate(heap, iter_begin_with_prefix(heap, root, <<>>)))
    IN  \A k \in Keys \ {<<>>} : hattrie_tryget(heap, root, k) =
            IF \E x \in e : x.key = k THEN (CHOOSE x \in e : x.key = k).val ELSE NoValue

\* A prefix that leads to a node below the root's children which is not a
\* pure bucket: the iterator starts there, and misses what comes above
\* (hat-trie.c:661-668), or follows NULL.
StartsTooLow(p) ==
    LET f == hattrie_find(heap, root, p)
    IN  f.rest # p /\ (f.node = NULL \/ heap[f.node].type # "pure")

\* Iterating over a prefix of stored keys returns what follows it in each of
\* these keys, exactly if it does not start too low.
PrefixIterationComplete ==
    \A k \in DOMAIN dict : \A len \in 1 .. MaxPrefix :
        LET p == SubSeq(k, 1, len)
            found == Iterate(heap, iter_begin_with_prefix(heap, root, p))
            with == {x \in DOMAIN dict : IsPrefix(p, x)}
            all == Sorted([s \in {SubSeq(x, len + 1, Len(x)) : x \in with} |-> dict[p \o s]])
        IN  len <= Len(k) => (found = all <=> ~StartsTooLow(p))
=============================================================================
