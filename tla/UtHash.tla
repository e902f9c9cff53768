------------------------------- MODULE UtHash -------------------------------
(***************************************************************************)
(* The hash table of uthash.h, macro by macro, on the links themselves:    *)
(* every element is in a bucket chain (hh_prev, hh_next) and in one list   *)
(* in insertion order (prev, next), a table keeps counts of both, and the  *)
(* buckets double when a chain grows too long.  A table is a record; its   *)
(* hh fields are functions on the elements.                                *)
(***************************************************************************)
EXTENDS Naturals, Sequences, FiniteSets

CONSTANTS Elem,        \* elements a caller may have allocated
          KeyOf(_),    \* the key stored in an element
          Hashes,      \* the hash values
          HASH_INITIAL_NUM_BUCKETS,
          HASH_BKT_CAPACITY_THRESH,
          MaxBuckets   \* bound: no call once the table is larger than this

ASSUME SizesAssumption ==
    /\ HASH_INITIAL_NUM_BUCKETS \in {1, 2, 4, 8, 16, 32}
    /\ HASH_BKT_CAPACITY_THRESH \in Nat \ {0}
    /\ Elem \subseteq Nat \ {0} /\ IsFiniteSet(Elem)
    /\ Hashes \subseteq Nat

VARIABLE hash          \* the hash function: any function of the keys, chosen once

HashInit == hash \in [{KeyOf(e) : e \in Elem} -> Hashes]

\* Elements are addresses; no element is at NULL.
Nil == 0

\* The pointers met by following link from e, one more than there are elements.
Met(link, e) ==
    LET met[k \in 0 .. Cardinality(Elem)] ==
            IF k = 0 THEN e ELSE LET p == met[k - 1] IN IF p = Nil THEN Nil ELSE link[p]
    IN  met

\* The sequence of elements met.  A chain that has a cycle is cut after one too many.
Walk(link, e) ==
    LET met == Met(link, e)
    IN  [i \in 1 .. Cardinality({k \in DOMAIN met : met[k] # Nil}) |-> met[i - 1]]

AppOrder(t) == Walk(t.next, t.head)

\* link with its value at e, when e is an element, replaced by v
SetLink(link, e, v) == IF e = Nil THEN link ELSE [link EXCEPT ![e] = v]

NoBuckets(n) == [b \in 0..(n - 1) |-> [hh_head |-> Nil, count |-> 0, expand_mult |-> 0]]

NoLinks == [e \in Elem |-> Nil]

\* head == NULL: there is no table, only handles.
Empty == [head |-> Nil, tail |-> Nil, num_buckets |-> 0, num_items |-> 0,
          ineff_expands |-> 0, noexpand |-> FALSE, buckets |-> NoBuckets(0),
          hashv |-> [e \in Elem |-> 0],
          prev |-> NoLinks, next |-> NoLinks, hh_prev |-> NoLinks, hh_next |-> NoLinks]

HASH_MAKE_TABLE(t) ==
    [t EXCEPT !.tail = t.head, !.num_buckets = HASH_INITIAL_NUM_BUCKETS,
              !.num_items = 0, !.ineff_expands = 0, !.noexpand = FALSE,
              !.buckets = NoBuckets(HASH_INITIAL_NUM_BUCKETS)]

\* hashv & (num_bkts - 1), num_bkts being a power of two
HASH_TO_BKT(hashv, num_bkts) == hashv % num_bkts

\* ceil(n / b)
Ceil(n, b) == (n \div b) + (IF n % b # 0 THEN 1 ELSE 0)

\* Buckets are emptied in order, each from its head.
Chained(t) ==
    LET chained[b \in 0 .. t.num_buckets] ==
            IF b = 0 THEN <<>> ELSE chained[b - 1] \o Walk(t.hh_next, t.buckets[b - 1].hh_head)
    IN  chained[t.num_buckets]

\* expand_mult of a new bucket that now has count items
Mult(bk, count, ideal) == IF count > ideal THEN count \div ideal ELSE bk.expand_mult

\* The loop body of HASH_EXPAND_BUCKETS for an element e, with r.t.buckets already the
\* new array; r.nonideal counts the misplaced items.
Rehash(r, e, ideal) ==
    LET b == HASH_TO_BKT(r.t.hashv[e], r.t.num_buckets)
        bk == r.t.buckets[b]
        count == bk.count + 1
    IN  [t |-> [r.t EXCEPT !.buckets[b] = [hh_head |-> e, count |-> count,
                                           expand_mult |-> Mult(bk, count, ideal)],
                           !.hh_prev = SetLink([@ EXCEPT ![e] = Nil], bk.hh_head, e),
                           !.hh_next[e] = bk.hh_head],
         nonideal |-> IF count > ideal THEN r.nonideal + 1 ELSE r.nonideal]

HASH_EXPAND_BUCKETS(t) ==
    LET n == 2 * t.num_buckets
        es == Chained(t)
        rehashed[i \in 0 .. Len(es)] ==
            IF i = 0 THEN [t |-> [t EXCEPT !.buckets = NoBuckets(n), !.num_buckets = n], nonideal |-> 0]
            ELSE Rehash(rehashed[i - 1], es[i], Ceil(t.num_items, n))
        r == rehashed[Len(es)]
        ineff == IF r.nonideal > t.num_items \div 2 THEN t.ineff_expands + 1 ELSE 0
    IN  [r.t EXCEPT !.ineff_expands = ineff, !.noexpand = @ \/ ineff > 1]

\* A bucket with count items may still take one without an expansion.
HasRoom(bk) == bk.count < (bk.expand_mult + 1) * HASH_BKT_CAPACITY_THRESH

HASH_ADD_TO_BKT(t, b, e) ==
    LET bk == t.buckets[b]
        s == [t EXCEPT !.buckets[b] = [bk EXCEPT !.hh_head = e, !.count = bk.count + 1],
                       !.hh_prev = SetLink([t.hh_prev EXCEPT ![e] = Nil], bk.hh_head, e),
                       !.hh_next[e] = bk.hh_head]
    IN IF HasRoom(s.buckets[b]) \/ t.noexpand THEN s ELSE HASH_EXPAND_BUCKETS(s)

\* Into the list in insertion order, behind the table's tail.
Append_(t, e) ==
    IF t.head = Nil
    THEN HASH_MAKE_TABLE([t EXCEPT !.head = e, !.prev[e] = Nil, !.next[e] = Nil])
    ELSE [t EXCEPT !.next = [[@ EXCEPT ![e] = Nil] EXCEPT ![t.tail] = e],
                   !.prev[e] = t.tail, !.tail = e]

HASH_ADD_KEYPTR(t, e, hashv) ==
    LET s == Append_(t, e)
    IN HASH_ADD_TO_BKT([s EXCEPT !.num_items = @ + 1, !.hashv[e] = hashv],
                       HASH_TO_BKT(hashv, s.num_buckets), e)

\* The first element of the bucket's chain whose key is k; Nil if none.
HASH_FIND(t, k, hashv) ==
    IF t.head = Nil THEN Nil
    ELSE LET c == Walk(t.hh_next, t.buckets[HASH_TO_BKT(hashv, t.num_buckets)].hh_head)
             hits == {i \in DOMAIN c : KeyOf(c[i]) = k}
         IN IF hits = {} THEN Nil
            ELSE c[CHOOSE i \in hits : \A j \in hits : i <= j]

\* e is no longer counted, nor the first of the bucket
WithoutItem(bk, e, after) ==
    [bk EXCEPT !.count = bk.count - 1, !.hh_head = IF bk.hh_head = e THEN after ELSE bk.hh_head]

\* without the link back
HASH_DEL_IN_BKTNoPrev(t, b, e) ==
    [t EXCEPT !.buckets[b] = WithoutItem(t.buckets[b], e, t.hh_next[e]),
              !.hh_next = SetLink(t.hh_next, t.hh_prev[e], t.hh_next[e])]

HASH_DEL_IN_BKT(t, b, e) ==
    [t EXCEPT !.buckets[b] = WithoutItem(t.buckets[b], e, t.hh_next[e]),
              !.hh_next = SetLink(t.hh_next, t.hh_prev[e], t.hh_next[e]),
              !.hh_prev = SetLink(t.hh_prev, t.hh_next[e], t.hh_prev[e])]

\* the table's tail once e is taken out
TailWithout(t, e) == IF t.tail = e THEN t.prev[e] ELSE t.tail

\* The caller frees e afterwards or adds it again: its handle is forgotten.
Forget(t, e) ==
    [t EXCEPT !.prev[e] = Nil, !.next[e] = Nil, !.hh_prev[e] = Nil,
              !.hh_next[e] = Nil, !.hashv[e] = 0]

\* e is taken out of the list in insertion order.
Unlink(t, e) ==
    [t EXCEPT !.tail = TailWithout(t, e),
              !.next = SetLink(t.next, t.prev[e], t.next[e]),
              !.head = IF t.prev[e] = Nil THEN t.next[e] ELSE t.head,
              !.prev = SetLink(t.prev, t.next[e], t.prev[e]),
              !.num_items = t.num_items - 1]

HASH_DELETE(t, e) ==
    IF t.prev[e] = Nil /\ t.next[e] = Nil
    THEN Empty
    ELSE Forget(HASH_DEL_IN_BKT(Unlink(t, e), HASH_TO_BKT(t.hashv[e], t.num_buckets), e), e)

HASH_CLEAR(t) == Empty

HASH_COUNT(t) == IF t.head = Nil THEN 0 ELSE t.num_items

(***************************************************************************)
(* HASH_FSCK, what HASH_DEBUG builds check after every change.             *)
(***************************************************************************)
BackLinked(c, prev) == \A i \in DOMAIN c : prev[c[i]] = (IF i = 1 THEN Nil ELSE c[i - 1])

HASH_FSCK(t) ==
    t.head # Nil =>
        /\ \A b \in 0..(t.num_buckets - 1) :
              LET c == Walk(t.hh_next, t.buckets[b].hh_head)
              IN BackLinked(c, t.hh_prev) /\ t.buckets[b].count = Len(c)
        /\ Len(Chained(t)) = t.num_items
        /\ BackLinked(AppOrder(t), t.prev)
        /\ Len(AppOrder(t)) = t.num_items
=============================================================================
