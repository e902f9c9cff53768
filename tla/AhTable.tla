------------------------------ MODULE AhTable -------------------------------
(***************************************************************************)
(* The array hash table of the hat-trie (src/lib/hat-trie/src/ahtable.c),  *)
(* which holds the buckets of the route table.  A slot is an array of      *)
(* bytes: the length of a key in one byte or two, the key, the value, then *)
(* the next entry.  Every search, deletion and iteration walks these       *)
(* arrays by the lengths it decodes, and slot_sizes, not the allocation,   *)
(* says where a slot ends.  Lengths are scaled: ShortLen stands for 128    *)
(* and a byte has 2 * ShortLen values; a value occupies one cell.          *)
(***************************************************************************)
EXTENDS Naturals, Sequences, SequencesExt, FiniteSets

CONSTANTS
    Keys,           \* the keys a client uses, sequences of bytes
    Values,         \* the words a client stores
    Hash(_),        \* murmurhash3
    ShortLen,       \* 128: shorter keys have a length of one byte
    InitialSize,    \* ahtable_initial_size
    MaxLoad,        \* ahtable_max_load_factor
    MaxSlots,       \* bound: the table is not expanded beyond
    MayClear        \* does a client call ahtable_clear?

VARIABLES
    table,          \* ahtable_t: n, m, max_m, slots, slot_sizes
    failed,         \* an assert() of the code failed
    dict            \* what the client stored, kept by Dictionary

vars == <<table, failed, dict>>

D == INSTANCE Dictionary

Byte == 2 * ShortLen
ValueSize == 1

(***************************************************************************)
(* The bytes of an entry.  p is the offset of an entry in the slot s.      *)
(***************************************************************************)
keylen(s, p) ==
    IF s[p + 1] % 2 = 1 THEN (s[p + 1] + Byte * s[p + 2]) \div 2
                        ELSE s[p + 1] \div 2

LenSize(k) == IF k < ShortLen THEN 1 ELSE 2

LenBytes(len) ==
    IF len < ShortLen
    THEN <<(2 * len) % Byte>>
    ELSE LET w == (2 * len + 1) % (Byte * Byte) IN <<w % Byte, w \div Byte>>

ins_key(s, key) == s \o LenBytes(Len(key)) \o key \o <<0>>

EntrySize(s, p) == LenSize(keylen(s, p)) + keylen(s, p) + ValueSize
KeyAt(s, p) ==
    LET k == keylen(s, p)
        from == p + LenSize(k)
    IN  SubSeq(s, from + 1, from + k)
ValAt(s, p) == p + EntrySize(s, p)      \* the index of the value's cell

\* The offset of the entry of key in a slot of the given size, or size.
RECURSIVE Find(_, _, _, _)
Find(s, size, key, p) ==
    IF p >= size THEN size
    ELSE IF keylen(s, p) = Len(key) /\ KeyAt(s, p) = key THEN p
    ELSE Find(s, size, key, p + EntrySize(s, p))

SlotOf(t, key) == Hash(key) % t.n
Search(t, key) ==
    LET i == SlotOf(t, key) IN Find(t.slots[i], t.slot_sizes[i], key, 0)
Found(t, key) == Search(t, key) < t.slot_sizes[SlotOf(t, key)]

ahtable_create_n(n) ==
    [n |-> n, m |-> 0, max_m |-> MaxLoad * n,
     slots |-> [i \in 0 .. n - 1 |-> <<>>],
     slot_sizes |-> [i \in 0 .. n - 1 |-> 0]]

(***************************************************************************)
(* Iteration.  The unsorted iterator is the slot i and the offset s in it; *)
(* it is finished when i reaches n.  The sorted one sorts table->m         *)
(* pointers, of which it has only set as many as there are entries.        *)
(***************************************************************************)
NonEmptyFrom(t, i) ==
    CHOOSE j \in i .. t.n :
        /\ j = t.n \/ t.slot_sizes[j] > 0
        /\ \A x \in i .. j - 1 : t.slot_sizes[x] = 0

iter_begin(t) == [i |-> NonEmptyFrom(t, 0), s |-> 0]
iter_finished(t, it) == it.i >= t.n
iter_key(t, it) == KeyAt(t.slots[it.i], it.s)
iter_val(t, it) == t.slots[it.i][ValAt(t.slots[it.i], it.s)]

iter_next(t, it) ==
    LET s == it.s + EntrySize(t.slots[it.i], it.s)
    IN  IF s >= t.slot_sizes[it.i]
        THEN [i |-> NonEmptyFrom(t, it.i + 1), s |-> 0]
        ELSE [it EXCEPT !.s = s]

RECURSIVE EntriesFrom(_, _)
EntriesFrom(t, it) ==
    IF iter_finished(t, it) THEN <<>>
    ELSE <<[key |-> iter_key(t, it), val |-> iter_val(t, it)]>>
            \o EntriesFrom(t, iter_next(t, it))
Entries(t) == EntriesFrom(t, iter_begin(t))

\* memcmp on the common length, then the shorter key first.
cmpkey(a, b) ==
    \/ \E i \in 1 .. Len(a) : i <= Len(b) /\ a[i] < b[i] /\ \A j \in 1 .. i - 1 : a[j] = b[j]
    \/ Len(a) < Len(b) /\ \A i \in 1 .. Len(a) : a[i] = b[i]

InOrder(e) ==
    [i \in 1 .. Len(e) |-> CHOOSE x \in ToSet(e) :
        Cardinality({y \in ToSet(e) : cmpkey(y.key, x.key)}) = i - 1]
Garbage == [key |-> <<>>, val |-> "uninitialized"]
sorted_iter_begin(t) ==
    LET e == Entries(t) IN IF t.m = Len(e) THEN InOrder(e) ELSE <<Garbage>>

(***************************************************************************)
(* ahtable_expand: the slots of twice the number are filled in the order   *)
(* of the iterator.  It asserts that it has met table->m entries.          *)
(***************************************************************************)
ExpandAsserts(t) == Len(Entries(t)) = t.m

ahtable_expand(t) ==
    LET n == 2 * t.n
        Bytes(e) == LenBytes(Len(e.key)) \o e.key \o <<e.val>>
        InSlot(i) == SelectSeq(Entries(t), LAMBDA e : Hash(e.key) % n = i)
        slots == [i \in 0 .. n - 1 |->
                    FlattenSeq([j \in DOMAIN InSlot(i) |-> Bytes(InSlot(i)[j])])]
    IN  [t EXCEPT !.n = n, !.max_m = MaxLoad * n, !.slots = slots,
                  !.slot_sizes = [i \in 0 .. n - 1 |-> Len(slots[i])]]

(***************************************************************************)
(* Operations.  A client that looks a key up may store a value through the *)
(* pointer it gets, which the next operation invalidates.                  *)
(***************************************************************************)
Store(t, key, v) ==
    LET i == SlotOf(t, key)
    IN  [t EXCEPT !.slots[i][ValAt(t.slots[i], Search(t, key))] = v]

\* realloc to the new size, then the entry at the former end of the slot.
Insert(t, key) ==
    LET i == SlotOf(t, key)
        s == ins_key(SubSeq(t.slots[i], 1, t.slot_sizes[i]), key)
    IN  [t EXCEPT !.m = @ + 1, !.slots[i] = s, !.slot_sizes[i] = Len(s)]

get_key(t, key) == IF Found(t, key) THEN t ELSE Insert(t, key)

\* The table that ahtable_get leaves.  At capacity the table is expanded
\* first, whether or not the key is there.
AfterGet(t, key) == get_key(IF t.m >= t.max_m THEN ahtable_expand(t) ELSE t, key)

ahtable_get(key) ==
    /\ ~failed
    /\ table.m >= table.max_m => 2 * table.n <= MaxSlots
    /\ failed' = (table.m >= table.max_m /\ ~ExpandAsserts(table))
    /\ IF failed' THEN UNCHANGED <<table, dict>>
       ELSE \/ table' = AfterGet(table, key) /\ D!Get(key)
            \/ \E v \in Values :
                  table' = Store(AfterGet(table, key), key, v) /\ D!Set(key, v)

ahtable_delLosesNext(key) ==
    LET i == SlotOf(table, key)
        p == Search(table, key)
        w == EntrySize(table.slots[i], p)
    IN  /\ ~failed
        /\ D!Del(key)
        /\ UNCHANGED failed
        /\ table' = IF Found(table, key)
                    THEN [table EXCEPT !.slots[i] = SubSeq(@, 1, p) \o SubSeq(@, p + w + 1, Len(@)),
                                       !.slot_sizes[i] = p, !.m = @ - 1]
                    ELSE table
\* memmove of what follows the entry; the allocation keeps its size.
ahtable_del(key) ==
    LET i == SlotOf(table, key)
        size == table.slot_sizes[i]
        p == Search(table, key)
        w == EntrySize(table.slots[i], p)
        Moved(s) == [x \in 1 .. Len(s) |-> IF x > p /\ x + w <= size THEN s[x + w] ELSE s[x]]
    IN  /\ ~failed
        /\ D!Del(key)
        /\ UNCHANGED failed
        /\ table' = IF Found(table, key)
                    THEN [table EXCEPT !.slots[i] = Moved(@), !.slot_sizes[i] = size - w,
                                       !.m = @ - 1]
                    ELSE table

ahtable_clear ==
    /\ MayClear
    /\ ~failed
    /\ table' = [ahtable_create_n(InitialSize) EXCEPT !.m = table.m, !.max_m = table.max_m]
    /\ D!Clear
    /\ UNCHANGED failed

(***************************************************************************)
(* A saved table is a sequence of words: n, m, max_m, then for each slot   *)
(* its size and its bytes.  Loading reads them back and gives up with NULL *)
(* at the first word that is missing.                                      *)
(***************************************************************************)
ahtable_save(t) ==
    LET Slot(i) == <<t.slot_sizes[i]>> \o SubSeq(t.slots[i], 1, t.slot_sizes[i])
    IN  <<t.n, t.m, t.max_m>> \o FlattenSeq([i \in 1 .. t.n |-> Slot(i - 1)])

NULL == [n |-> 0]
RECURSIVE LoadSlots(_, _, _)
LoadSlots(t, file, i) ==
    IF i = t.n THEN t
    ELSE IF file = <<>> \/ Len(Tail(file)) < Head(file) THEN NULL
    ELSE LET size == Head(file)
         IN  LoadSlots([t EXCEPT !.slot_sizes[i] = size, !.slots[i] = SubSeq(file, 2, size + 1)],
                       SubSeq(file, size + 2, Len(file)), i + 1)

ahtable_load(file) ==
    IF Len(file) < 3 THEN NULL
    ELSE LoadSlots([ahtable_create_n(file[1]) EXCEPT !.m = file[2], !.max_m = file[3]],
                   SubSeq(file, 4, Len(file)), 0)

Reload ==
    /\ ~failed
    /\ table' = ahtable_load(ahtable_save(table))
    /\ UNCHANGED <<failed, dict>>

Init ==
    /\ table = ahtable_create_n(InitialSize)
    /\ failed = FALSE
    /\ D!Init

Next ==
    \/ \E key \in Keys : ahtable_get(key) \/ ahtable_del(key)
    \/ ahtable_clear
    \/ Reload

Spec == Init /\ [][Next]_vars
-----------------------------------------------------------------------------
(***************************************************************************)
(* Properties                                                              *)
(***************************************************************************)
TypeOK ==
    /\ table.n \in InitialSize .. MaxSlots
    /\ DOMAIN table.slots = 0 .. table.n - 1
    /\ \A i \in 0 .. table.n - 1 : table.slot_sizes[i] \in 0 .. Len(table.slots[i])
    /\ failed \in BOOLEAN

Contents == [k \in {key \in Keys : Found(table, key)} |->
                LET i == SlotOf(table, k) IN table.slots[i][ValAt(table.slots[i], Search(table, k))]]

\* The table is a map: after any sequence of lookups, stores, deletions with
\* their memmove, expansions and reloads, searching the byte arrays finds each
\* key that was stored, with the last value stored, and no other.
FindsWhatWasStored == Contents = dict

\* ahtable_size is the number of keys stored, and so ahtable_expand's
\* assert(m == table->m) never fails.
SizeIsCount == table.m = Cardinality(DOMAIN dict) /\ ~failed

\* Both iterators return every stored key once with its value, and the sorted
\* one in the order of cmpkey, over slots that deletions have shortened.
IterationComplete ==
    LET e == Entries(table)
        s == sorted_iter_begin(table)
    IN  /\ Len(e) = Cardinality(DOMAIN dict)
        /\ ToSet(e) = {[key |-> k, val |-> dict[k]] : k \in DOMAIN dict}
        /\ ToSet(s) = ToSet(e) /\ Len(s) = Len(e)
        /\ \A i \in 1 .. Len(s) - 1 : cmpkey(s[i].key, s[i + 1].key)

\* A file that was cut short, at any word, is refused; the whole file is not.
CutFileRefused ==
    LET file == ahtable_save(table)
    IN  \A len \in 0 .. Len(file) : (ahtable_load(SubSeq(file, 1, len)) = NULL) <=> (len < Len(file))
=============================================================================
