----------------------------- MODULE UtHashSort -----------------------------
(***************************************************************************)
(* The two macros of uthash.h that walk a whole table: HASH_SRT, which     *)
(* sorts the list in insertion order, and HASH_SELECT, which puts some of  *)
(* the elements into a second table.                                       *)
(***************************************************************************)
EXTENDS UtHash

(***************************************************************************)
(* HASH_SRT: Tatham's merge sort of the insertion-order list, in place.    *)
(* s holds the sorter's pointers p, q, tail and list, the remaining run    *)
(* lengths psize and qsize, and the links it rewrites.                     *)
(***************************************************************************)
\* q advances over at most n elements; the number passed is psize.
RECURSIVE SkipRun(_, _, _, _)
SkipRun(next, q, n, psize) ==
    IF n = 0 \/ q = Nil THEN [q |-> q, psize |-> psize]
    ELSE SkipRun(next, next[q], n - 1, psize + 1)

\* The run the next element is taken from: equal elements come from p.
TakesQ(s, gt) ==
    \/ s.psize = 0
    \/ s.qsize > 0 /\ s.q # Nil /\ gt[s.p, s.q]

\* One merge of two runs, element by element.
RECURSIVE MergeRuns(_, _)
MergeRuns(s, gt) ==
    IF s.psize = 0 /\ (s.qsize = 0 \/ s.q = Nil) THEN s
    ELSE LET takesQ == TakesQ(s, gt)
             e == IF takesQ THEN s.q ELSE s.p
         IN MergeRuns([s EXCEPT
                !.q = IF takesQ THEN s.next[s.q] ELSE @,
                !.qsize = IF takesQ THEN @ - 1 ELSE @,
                !.p = IF takesQ THEN @ ELSE s.next[s.p],
                !.psize = IF takesQ THEN @ ELSE @ - 1,
                !.next = SetLink(@, s.tail, e),
                !.list = IF s.tail = Nil THEN e ELSE @,
                !.prev = [@ EXCEPT ![e] = s.tail],
                !.tail = e], gt)

\* One pass: all pairs of runs of length insize.
RECURSIVE Pass(_, _, _, _)
Pass(s, insize, nmerges, gt) ==
    IF s.p = Nil THEN [s EXCEPT !.next[s.tail] = Nil, !.nmerges = nmerges]
    ELSE LET r == SkipRun(s.next, s.p, insize, 0)
             m == MergeRuns([s EXCEPT !.q = r.q, !.psize = r.psize, !.qsize = insize], gt)
         IN Pass([m EXCEPT !.p = m.q], insize, nmerges + 1, gt)

RECURSIVE Passes(_, _, _)
Passes(s, insize, gt) ==
    LET r == Pass([s EXCEPT !.p = s.list, !.list = Nil, !.tail = Nil], insize, 0, gt)
    IN IF r.nmerges <= 1 THEN r ELSE Passes(r, 2 * insize, gt)

\* gt[a, b] is cmpfcn(a, b) > 0.
HASH_SRT(t, gt) ==
    IF t.head = Nil THEN t
    ELSE LET r == Passes([p |-> Nil, q |-> Nil, psize |-> 0, qsize |-> 0, nmerges |-> 0,
                          list |-> t.head, tail |-> Nil,
                          prev |-> t.prev, next |-> t.next], 1, gt)
         IN [t EXCEPT !.head = r.list, !.tail = r.tail, !.prev = r.prev, !.next = r.next]

(***************************************************************************)
(* HASH_SELECT: the elements of t in cond also enter dst, through a second *)
(* handle.  last is _last_elt, the element linked before this one.         *)
(***************************************************************************)
LinkAfter(dst, last, e) ==
    [dst EXCEPT !.prev[e] = last, !.next = SetLink([@ EXCEPT ![e] = Nil], last, e)]

RECURSIVE SelectFrom(_, _, _, _, _)
SelectFrom(dst, t, es, cond, last) ==
    IF es = <<>> THEN dst
    ELSE LET e == Head(es)
             linked == [LinkAfter(dst, last, e) EXCEPT !.hashv[e] = t.hashv[e]]
             made == IF dst.head = Nil
                     THEN HASH_MAKE_TABLE([linked EXCEPT !.head = e])
                     ELSE linked
             added == HASH_ADD_TO_BKT(made, HASH_TO_BKT(t.hashv[e], made.num_buckets), e)
         IN IF e \notin cond THEN SelectFrom(dst, t, Tail(es), cond, last)
            ELSE SelectFrom([added EXCEPT !.num_items = @ + 1], t, Tail(es), cond, e)

HASH_SELECT(dst, t, cond) ==
    IF t.head = Nil THEN dst ELSE SelectFrom(dst, t, Chained(t), cond, Nil)
=============================================================================
