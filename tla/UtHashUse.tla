----------------------------- MODULE UtHashUse ------------------------------
(***************************************************************************)
(* A program that uses a uthash table as uthash.h intends: it adds         *)
(* elements with distinct keys, deletes, sorts, selects into a second      *)
(* table, clears, and walks the table with HASH_ITER, deleting the element *)
(* it stands on when it likes.  The hash function is any function, chosen  *)
(* once: every pattern of collisions is met.                               *)
(***************************************************************************)
EXTENDS UtHashSort

CONSTANTS Rank(_),      \* the order HASH_SORT's comparison function sees
          MayClear,     \* the program calls HASH_CLEAR and HASH_SORT
          MaySelect     \* the program calls HASH_SELECT, and adds to what it got

VARIABLES t, dst,
          el, tmp,      \* HASH_ITER's cursors
          iterating,
          order,        \* history: the elements in insertion order
          picked,       \* history: HASH_SELECT put "one" element into dst, or
                        \* "more", or more and the program "added" to them
          seen, start   \* history: elements visited, and the order at the start

vars == <<t, dst, hash, el, tmp, iterating, order, picked, seen, start>>

Gt == [p \in Elem \X Elem |-> Rank(p[1]) > Rank(p[2])]

Init ==
    /\ HashInit
    /\ t = Empty /\ dst = Empty
    /\ el = Nil /\ tmp = Nil /\ iterating = FALSE
    /\ order = <<>> /\ picked = "one" /\ seen = <<>> /\ start = <<>>

Cursor == <<el, tmp, iterating, seen, start>>

Members(s) == {s[i] : i \in DOMAIN s}
Without(s, e) == SelectSeq(s, LAMBDA x : x # e)
DstMembers == Members(AppOrder(dst))

Add(e) ==
    /\ ~iterating
    /\ e \notin Members(order) /\ e \notin DstMembers
    /\ \A x \in Members(order) : KeyOf(x) # KeyOf(e)
    /\ t.num_buckets <= MaxBuckets
    /\ t' = HASH_ADD_KEYPTR(t, e, hash[KeyOf(e)])
    /\ order' = Append(order, e)
    /\ UNCHANGED <<dst, hash, picked, Cursor>>

Delete(e) ==
    /\ ~iterating
    /\ e \in Members(order)
    /\ t' = HASH_DELETE(t, e)
    /\ order' = Without(order, e)
    /\ UNCHANGED <<dst, hash, picked, Cursor>>

Clear ==
    /\ MayClear /\ ~iterating
    /\ t' = HASH_CLEAR(t)
    /\ order' = <<>>
    /\ UNCHANGED <<dst, hash, picked, Cursor>>

\* How many elements of s come before its i-th in a stable sort.
Before(s, i) ==
    Cardinality({j \in DOMAIN s :
        \/ Rank(s[j]) < Rank(s[i])
        \/ Rank(s[j]) = Rank(s[i]) /\ j < i})

StablySorted(s) ==
    [n \in DOMAIN s |-> s[CHOOSE i \in DOMAIN s : Before(s, i) = n - 1]]

Sort ==
    /\ MayClear /\ ~iterating
    /\ t' = HASH_SRT(t, Gt)
    /\ order' = StablySorted(order)
    /\ UNCHANGED <<dst, hash, picked, Cursor>>

Select(cond) ==
    /\ MaySelect /\ ~iterating
    /\ dst.head = Nil
    /\ dst' = HASH_SELECT(dst, t, cond)
    /\ picked' = IF Cardinality(cond \cap Members(order)) > 1 THEN "more" ELSE "one"
    /\ UNCHANGED <<t, hash, order, Cursor>>

DeleteFromDst(e) ==
    /\ picked # "added" /\ e \in DstMembers
    /\ dst' = HASH_DELETE(dst, e)
    /\ UNCHANGED <<t, hash, order, picked, Cursor>>

\* What a table is good for that was added to after it got more than one
\* element from HASH_SELECT is not followed further.
AddToDst(e) ==
    /\ dst.head # Nil /\ picked # "added"
    /\ e \notin DstMembers
    /\ dst' = HASH_ADD_KEYPTR(dst, e, hash[KeyOf(e)])
    /\ picked' = IF picked = "more" THEN "added" ELSE "one"
    /\ UNCHANGED <<t, hash, order, Cursor>>

\* tmp is read before the body runs: the body may delete el.
NextOf(e) == IF e = Nil THEN Nil ELSE t.next[e]

IterBegin ==
    /\ ~iterating /\ order # <<>>
    /\ iterating' = TRUE
    /\ el' = t.head /\ tmp' = NextOf(t.head)
    /\ seen' = <<>> /\ start' = order
    /\ UNCHANGED <<t, dst, hash, order, picked>>

\* The loop's body, which may delete el, and its step.
IterBody ==
    /\ iterating /\ el # Nil
    /\ \/ UNCHANGED <<t, order>>
       \/ /\ t' = HASH_DELETE(t, el)
          /\ order' = Without(order, el)
    /\ seen' = Append(seen, el)
    /\ el' = tmp
    /\ tmp' = IF tmp = Nil THEN Nil ELSE t'.next[tmp]
    /\ UNCHANGED <<dst, hash, picked, iterating, start>>

IterEnd ==
    /\ iterating /\ el = Nil
    /\ iterating' = FALSE
    /\ seen' = <<>> /\ start' = <<>>
    /\ UNCHANGED <<t, dst, hash, order, picked, el, tmp>>

Next ==
    \/ \E e \in Elem : Add(e) \/ Delete(e) \/ DeleteFromDst(e) \/ AddToDst(e)
    \/ Clear \/ Sort
    \/ \E cond \in SUBSET Elem : Select(cond)
    \/ IterBegin \/ IterBody \/ IterEnd

Spec == Init /\ [][Next]_vars
-----------------------------------------------------------------------------
\* What HASH_FSCK checks holds after every operation on the table: bucket
\* chains and the insertion-order list are linked both ways, and both
\* agree with the counts of the buckets and of the table (uthash.h:256).
Fsck == HASH_FSCK(t)

\* The same for a table filled by HASH_SELECT (uthash.h:819), through deletions
\* and additions, until something is added to a table that got more than one
\* element: its tail is still the first one (uthash.h:806).
FsckDst == picked # "added" => HASH_FSCK(dst)

\* The list from head is the order of insertion or of the last stable sort,
\* whatever was deleted, expanded or sorted meanwhile, and the table's tail
\* is its last element: the next addition goes behind all the others.
InsertionOrder ==
    /\ AppOrder(t) = order
    /\ order # <<>> => t.tail = order[Len(order)]

\* A lookup finds the element that has the key, and nothing when no element
\* of the table has it, however the keys collide and the buckets doubled.
FindExact ==
    \A e \in Elem : HASH_FIND(t, KeyOf(e), hash[KeyOf(e)]) =
                        (IF e \in Members(order) THEN e ELSE Nil)

\* "By expanding buckets the hash keeps a bound on the chain length"
\* (uthash.h:625), unless expansion has been given up as useless.
ChainsBounded ==
    t.noexpand \/ \A b \in DOMAIN t.buckets : HasRoom(t.buckets[b])

\* A HASH_ITER loop whose body deletes the elements it stands on meets every
\* element of the table once, in order.
IterationComplete ==
    iterating => seen \o (IF el = Nil THEN <<>> ELSE <<el>> \o Walk(t.next, tmp)) = start
=============================================================================
