-------------------------- MODULE SharedTableProofs -------------------------
(***************************************************************************)
(* The route table without a lock, for any routes, paths and workers: it   *)
(* is safe to use as long as no insertion and look-up overlap.             *)
(***************************************************************************)
EXTENDS SharedTable, FiniteSetTheorems, TLAPS

-----------------------------------------------------------------------------
(* A step of a worker that no other disturbs keeps what it relies on.      *)

LEMMA LoneFacts ==
  ASSUME RoutesOK, NEW w \in Worker, LoneInv(w)
  PROVE  /\ Len(mem) \in Nat \ {0} /\ Len(mem) \notin freed /\ Len(mem) \in DOMAIN mem
         /\ Current \in Seq(Entry) /\ Len(Current) \in Nat /\ DOMAIN Current = 1 .. Len(Current)
         /\ size \in Nat /\ m \in Nat /\ Len(Registered) \in Nat /\ Len(Registered) <= size
         /\ tpc[w] \in Label /\ gets[w] \in Nat /\ s[w] \in [b : Nat, o : Nat]
         /\ s[w].o \in Nat
<1>2. mem \in Seq(Seq(Entry)) /\ mem # <<>>
  BY DEF LoneInv, TableTypes
<1>3. Len(mem) \in Nat \ {0} /\ Len(mem) \in DOMAIN mem
  BY <1>2
<1>4. Current \in Seq(Entry)
  BY <1>2, <1>3 DEF Current
<1>5. Len(Current) \in Nat /\ DOMAIN Current = 1 .. Len(Current)
  BY <1>4
<1>6. Len(mem) \notin freed
  <2>1. freed \subseteq 1 .. Len(mem) - 1
    BY DEF LoneInv, BlockInv
  <2>2. Len(mem) \notin 1 .. Len(mem) - 1
    BY <1>3
  <2> QED
    BY <2>1, <2>2
<1>7. /\ size \in Nat /\ m \in Nat /\ Len(Registered) \in Nat /\ Len(Registered) <= size
  BY DEF LoneInv, TableTypes, BlockInv, RoutesOK
<1>8. tpc[w] \in Label /\ gets[w] \in Nat /\ s[w] \in [b : Nat, o : Nat]
  BY DEF LoneInv, TableTypes
<1> QED
  BY <1>3, <1>4, <1>5, <1>6, <1>7, <1>8

LEMMA LoneInit == ASSUME RoutesOK, NEW w \in Worker, TableInit PROVE LoneInv(w)
<1>1. /\ Len(Registered) \in Nat /\ DOMAIN Registered = 1 .. Len(Registered)
      /\ \A i \in DOMAIN Registered : Registered[i] \in AnyPath
      /\ \A i, j \in DOMAIN Registered : Registered[i] = Registered[j] => i = j
  BY DEF RoutesOK
<1> DEFINE B == [i \in 1 .. Len(Registered) |-> RouteEntry(i)]
<1>2. mem = <<B>>
  BY <1>1 DEF TableInit, RouteEntry
<1>3. \A i \in 1 .. Len(Registered) : RouteEntry(i) \in Entry
  BY <1>1 DEF RouteEntry, Entry
<1>4. B \in Seq(Entry) /\ Len(B) = Len(Registered)
  BY <1>1, <1>3
<1> HIDE DEF B
<1>5. mem \in Seq(Seq(Entry)) /\ mem # <<>> /\ Len(mem) = 1 /\ Current = B
  BY <1>2, <1>4 DEF Current
<1>6. tpc[w] = "idle" /\ gets[w] = 0
  BY DEF TableInit
<1>7. TableTypes
  <2>1. [b |-> 1, o |-> 0] \in [b : Nat, o : Nat]
    OBVIOUS
  <2> QED
    BY <1>1, <1>5, <2>1 DEF TableInit, TableTypes, Label, RoutesOK
<1>8. BlockInv(w)
  BY <1>1, <1>4, <1>5, <1>6 DEF TableInit, BlockInv, At, Extra
<1>9. EntriesInv(w)
  <2>1. size = Len(Registered) /\ size + Extra(w, {"size"}) = size
    BY <1>1, <1>6 DEF TableInit, Extra, At
  <2>2. \A i \in 1 .. size : Current[i] = RouteEntry(i) /\ i <= Len(Registered)
    BY <1>1, <1>5, <2>1 DEF B
  <2>3. \A i \in 1 .. size : Current[i].k = Registered[i]
    <3> SUFFICES ASSUME NEW i \in 1 .. size PROVE Current[i].k = Registered[i]
      OBVIOUS
    <3>1. Current[i] = [k |-> Registered[i], a |-> Registered[i]]
      BY <2>2 DEF RouteEntry
    <3> QED
      BY <3>1
  <2> QED
    BY <1>1, <2>1, <2>2, <2>3 DEF EntriesInv, Right
<1>10. LookupInv(w)
  BY <1>6 DEF LookupInv, ResultInv, At
<1> QED
  BY <1>7, <1>8, <1>9, <1>10 DEF LoneInv, TableInit

(* Steps that leave the table and the worker's claim on it alone. *)
Before == {"idle", "expand", "hash", "scan", "miss", "realloc", "use"}
Between == {"load", "store"}

LEMMA QuietTable ==
  ASSUME NEW w \in Worker, LoneInv(w), UNCHANGED <<slot, size, m, mem, freed>>,
         \/ tpc[w] \in Before /\ tpc'[w] \in Before
         \/ tpc[w] \in Between /\ tpc'[w] \in Between
  PROVE  BlockInv(w)' /\ EntriesInv(w)' /\ UNCHANGED Current
<1>1. UNCHANGED Current
  BY DEF Current
<1>2. /\ Extra(w, {"size"})' = Extra(w, {"size"}) /\ Extra(w, {"ins", "size"})' = Extra(w, {"ins", "size"})
      /\ Extra(w, {"assign", "load", "store", "ins", "size"})'
           = Extra(w, {"assign", "load", "store", "ins", "size"})
      /\ ~At(w, {"swap", "assign"}) /\ ~At(w, {"swap", "assign"})'
  BY DEF Before, Between, Extra, At
<1>3. BlockInv(w)'
  BY <1>1, <1>2 DEF LoneInv, BlockInv
<1>4. EntriesInv(w)'
  BY <1>1, <1>2 DEF LoneInv, EntriesInv
<1> QED
  BY <1>1, <1>3, <1>4

LEMMA GetKeeps == ASSUME RoutesOK, NEW w \in Worker, LoneInv(w), Get(w) PROVE LoneInv(w)'
<1>0. TableTypes /\ ~bad /\ gets[w] \in Nat
  BY LoneFacts DEF LoneInv
<1>1. PICK k \in Asked : key' = [key EXCEPT ![w] = k]
  BY DEF Get
<1>2. PICK l \in {"expand", "hash"} : tpc' = [tpc EXCEPT ![w] = l]
  BY DEF Get, Goto
<1>3. /\ tpc[w] = "idle" /\ gets' = [gets EXCEPT ![w] = @ + 1]
      /\ UNCHANGED <<slot, size, m, max_m, mem, freed, s, ns, r, tmp, res, bad>>
  BY DEF Get, table, heap
<1>4. tpc'[w] = l /\ key'[w] = k /\ k \in AnyPath
  BY <1>0, <1>1, <1>2 DEF TableTypes, AnyPath
<1>5. TableTypes'
  <2>1. tpc' \in [Worker -> Label] /\ key' \in [Worker -> AnyPath \cup {None}] /\ gets' \in [Worker -> Nat]
    BY <1>0, <1>1, <1>2, <1>3, <1>4 DEF TableTypes, Label
  <2> QED
    BY <1>0, <1>3, <2>1 DEF TableTypes
<1>6. BlockInv(w)' /\ EntriesInv(w)'
  BY <1>3, <1>4, QuietTable DEF Before
<1>7. LookupInv(w)'
  BY <1>4 DEF LookupInv, ResultInv, At
<1> QED
  BY <1>0, <1>3, <1>5, <1>6, <1>7 DEF LoneInv

LEMMA ExpandKeeps == ASSUME RoutesOK, NEW w \in Worker, LoneInv(w), Expand(w) PROVE LoneInv(w)'
<1>0. /\ TableTypes /\ BlockInv(w) /\ EntriesInv(w) /\ LookupInv(w)
      /\ Len(mem) \in Nat \ {0} /\ Len(mem) \notin freed /\ size \in Nat /\ Current \in Seq(Entry)
      /\ mem \in Seq(Seq(Entry))
  BY LoneFacts DEF LoneInv, TableTypes
<1> DEFINE C == Copied(Current, size)
<1>1. /\ tpc[w] = "expand" /\ tpc' = [tpc EXCEPT ![w] = "swap"]
      /\ bad' = (slot \in freed \/ size > Len(mem[slot]))
      /\ mem' = Append(mem, Copied(mem[slot], size)) /\ freed' = freed \cup {slot}
      /\ r' = [r EXCEPT ![w] = Len(mem')]
      /\ UNCHANGED <<slot, size, m, max_m, key, s, ns, tmp, res, gets>>
  BY DEF Expand, Goto, table
<1>2. slot = Len(mem) /\ Len(Current) = size /\ m = size
  BY <1>0, <1>1 DEF BlockInv, At, Extra
<1>3. mem' = Append(mem, C) /\ ~bad' /\ freed' = freed \cup {Len(mem)}
  <2>1. mem[slot] = Current /\ ~(size > Len(Current)) /\ slot \notin freed
    BY <1>0, <1>2 DEF Current
  <2> QED
    BY <1>1, <1>2, <2>1
<1>4. C \in Seq(Entry) /\ Len(C) = size /\ \A i \in 1 .. size : C[i] = Current[i]
  <2>1. \A i \in 1 .. size : i <= Len(Current) /\ Current[i] \in Entry
    BY <1>0, <1>2
  <2>2. C = [i \in 1 .. size |-> IF i <= Len(Current) THEN Current[i] ELSE Unwritten]
    BY DEF Copied
  <2>3. C \in [1 .. size -> Entry]
    BY <2>1, <2>2
  <2> QED
    BY <1>0, <2>1, <2>2, <2>3
<1> HIDE DEF C
<1>5. mem' \in Seq(Seq(Entry)) /\ mem' # <<>> /\ Len(mem') = Len(mem) + 1 /\ Current' = C
  BY <1>0, <1>3, <1>4 DEF Current
<1>6. tpc'[w] = "swap" /\ r'[w] = Len(mem') /\ Len(mem') \in Nat
  BY <1>0, <1>1, <1>5 DEF TableTypes
<1>7. TableTypes'
  <2>1. tpc' \in [Worker -> Label] /\ r' \in [Worker -> Nat]
    BY <1>0, <1>1, <1>6 DEF TableTypes, Label
  <2> QED
    BY <1>0, <1>1, <1>5, <2>1 DEF TableTypes
<1>8. BlockInv(w)'
  <2>1. freed' \subseteq 1 .. Len(mem') - 1
    <3>1. freed \subseteq 1 .. Len(mem) - 1 /\ Len(mem') - 1 = Len(mem)
      BY <1>0, <1>5 DEF BlockInv
    <3>2. 1 .. Len(mem) - 1 \subseteq 1 .. Len(mem) /\ Len(mem) \in 1 .. Len(mem)
      BY <1>0
    <3> QED
      BY <1>3, <3>1, <3>2
  <2> QED
    BY <1>0, <1>1, <1>2, <1>4, <1>5, <1>6, <2>1 DEF BlockInv, At, Extra
<1>9. EntriesInv(w)'
  <2>1. Extra(w, {"size"}) = 0 /\ Extra(w, {"size"})' = 0 /\ size' = size /\ size + 0 = size
    BY <1>0, <1>1, <1>6 DEF Extra, At
  <2> QED
    BY SMTT(60), <1>0, <1>4, <1>5, <2>1 DEF EntriesInv
<1>10. LookupInv(w)'
  BY <1>0, <1>1, <1>6 DEF LookupInv, ResultInv, At
<1> QED
  BY <1>3, <1>7, <1>8, <1>9, <1>10 DEF LoneInv

LEMMA SwapKeeps == ASSUME RoutesOK, NEW w \in Worker, LoneInv(w), Swap(w) PROVE LoneInv(w)'
<1>0. TableTypes /\ BlockInv(w) /\ EntriesInv(w) /\ LookupInv(w) /\ ~bad /\ size \in Nat
  BY LoneFacts DEF LoneInv
<1>1. /\ tpc[w] = "swap" /\ tpc' = [tpc EXCEPT ![w] = "hash"] /\ slot' = r[w]
      /\ size' = Len(mem[r[w]]) /\ max_m' = 2 * max_m
      /\ UNCHANGED <<m, mem, freed, key, s, ns, r, tmp, res, gets, bad>>
  BY DEF Swap, Goto, heap, locals
<1>2. r[w] = Len(mem) /\ Len(Current) = size
  BY <1>0, <1>1 DEF BlockInv, At, Extra
<1>3. slot' = Len(mem) /\ size' = size /\ Current' = Current
  BY <1>1, <1>2 DEF Current
<1>4. tpc'[w] = "hash"
  BY <1>0, <1>1 DEF TableTypes
<1>5. TableTypes'
  <2>1. tpc' \in [Worker -> Label] /\ max_m' \in Nat
    BY <1>0, <1>1 DEF TableTypes, Label
  <2> QED
    BY <1>0, <1>1, <1>3, <2>1 DEF TableTypes
<1>6. BlockInv(w)' /\ EntriesInv(w)'
  BY <1>0, <1>1, <1>3, <1>4 DEF BlockInv, EntriesInv, At, Extra
<1>7. LookupInv(w)'
  BY <1>0, <1>1, <1>4 DEF LookupInv, ResultInv, At
<1> QED
  BY <1>0, <1>1, <1>5, <1>6, <1>7 DEF LoneInv

LEMMA HashKeeps == ASSUME RoutesOK, NEW w \in Worker, LoneInv(w), Hash(w) PROVE LoneInv(w)'
<1>0. TableTypes /\ BlockInv(w) /\ LookupInv(w) /\ ~bad /\ size \in Nat /\ Len(mem) \in Nat
  BY LoneFacts DEF LoneInv
<1>1. /\ tpc[w] = "hash" /\ tpc' = [tpc EXCEPT ![w] = "scan"]
      /\ s' = [s EXCEPT ![w] = [b |-> slot, o |-> 0]]
      /\ UNCHANGED <<slot, size, m, max_m, mem, freed, key, ns, r, tmp, res, gets, bad>>
  BY DEF Hash, Goto, table, heap
<1>2. slot = Len(mem)
  BY <1>0, <1>1 DEF BlockInv, At
<1>3. tpc'[w] = "scan" /\ s'[w] = [b |-> Len(mem), o |-> 0] /\ [b |-> slot, o |-> 0] \in [b : Nat, o : Nat]
  BY <1>0, <1>1, <1>2 DEF TableTypes
<1>4. TableTypes'
  <2>1. tpc' \in [Worker -> Label] /\ s' \in [Worker -> [b : Nat, o : Nat]]
    BY <1>0, <1>1, <1>3 DEF TableTypes, Label
  <2> QED
    BY <1>0, <1>1, <2>1 DEF TableTypes
<1>5. BlockInv(w)' /\ EntriesInv(w)' /\ UNCHANGED Current
  BY <1>1, <1>3, QuietTable DEF Before
<1>6. s'[w].b = Len(mem') /\ s'[w].o = 0 /\ 1 .. 0 = {}
  BY <1>1, <1>3
<1>7. LookupInv(w)'
  BY <1>0, <1>1, <1>3, <1>6 DEF LookupInv, ResultInv, At, Absent
<1> QED
  BY <1>0, <1>1, <1>4, <1>5, <1>7 DEF LoneInv

LEMMA ScanKeeps == ASSUME RoutesOK, NEW w \in Worker, LoneInv(w), Scan(w) PROVE LoneInv(w)'
<1>0. /\ TableTypes /\ BlockInv(w) /\ LookupInv(w) /\ ~bad /\ size \in Nat
      /\ Len(mem) \in Nat /\ Len(mem) \notin freed
      /\ s[w] \in [b : Nat, o : Nat] /\ s[w].o \in Nat
  BY LoneFacts DEF LoneInv
<1>1. /\ tpc[w] = "scan"
      /\ UNCHANGED <<slot, size, m, max_m, mem, freed, key, ns, r, tmp, res, gets>>
  BY DEF Scan, table, heap
<1>2. /\ slot = Len(mem) /\ Len(Current) = size /\ s[w].b = Len(mem) /\ s[w].o <= size
      /\ Absent(w, s[w].o) /\ key[w] \in Asked
  BY <1>0, <1>1 DEF BlockInv, LookupInv, ResultInv, At, Extra
<1>3. Within(w) = {s[w].o < size}
  BY <1>2 DEF Within
<1>4. CASE ~(s[w].o < size)
  <2>1. tpc' = [tpc EXCEPT ![w] = "miss"] /\ UNCHANGED <<s, bad>>
    BY <1>3, <1>4 DEF Scan, Goto
  <2>2. tpc'[w] = "miss" /\ tpc' \in [Worker -> Label]
    BY <1>0, <2>1 DEF TableTypes, Label
  <2>3. s[w].o = size
    BY <1>0, <1>2, <1>4
  <2>4. BlockInv(w)' /\ EntriesInv(w)' /\ UNCHANGED Current
    BY <1>1, <2>2, QuietTable DEF Before
  <2>5. TableTypes'
    BY <1>0, <1>1, <2>1, <2>2 DEF TableTypes
  <2>6. LookupInv(w)'
    BY <1>1, <1>2, <2>1, <2>2, <2>3, <2>4 DEF LookupInv, ResultInv, At, Absent
  <2> QED
    BY <1>0, <2>1, <2>4, <2>5, <2>6 DEF LoneInv
<1>5. CASE s[w].o < size
  <2>1. ~Invalid(s[w]) /\ mem[s[w].b] = Current
    BY <1>0, <1>2, <1>5 DEF Invalid, Current
  <2>2. CASE Current[s[w].o + 1].k = key[w]
    <3>1. tpc' = [tpc EXCEPT ![w] = "use"] /\ UNCHANGED <<s, bad>>
      BY <1>3, <1>5, <2>1, <2>2 DEF Scan, Goto, Matches
    <3>2. tpc'[w] = "use" /\ tpc' \in [Worker -> Label]
      BY <1>0, <3>1 DEF TableTypes, Label
    <3>3. BlockInv(w)' /\ EntriesInv(w)' /\ UNCHANGED Current
      BY <1>1, <3>2, QuietTable DEF Before
    <3>4. TableTypes'
      BY <1>0, <1>1, <3>1, <3>2 DEF TableTypes
    <3>5. LookupInv(w)'
      BY <1>1, <1>2, <1>5, <2>2, <3>1, <3>2, <3>3 DEF LookupInv, ResultInv, At
    <3> QED
      BY <1>0, <3>1, <3>3, <3>4, <3>5 DEF LoneInv
  <2>3. CASE Current[s[w].o + 1].k # key[w]
    <3>1. s' = [s EXCEPT ![w].o = @ + 1] /\ UNCHANGED <<tpc, bad>>
      BY <1>3, <1>5, <2>1, <2>3 DEF Scan, Goto, Matches
    <3>2. s[w].o + 1 \in Nat
      BY <1>0
    <3>3. s' \in [Worker -> [b : Nat, o : Nat]]
      BY <1>0, <3>1, <3>2 DEF TableTypes
    <3>4. s'[w].b = Len(mem) /\ s'[w].o = s[w].o + 1 /\ s[w].o + 1 <= size
      BY <1>0, <1>2, <1>5, <3>1, <3>2 DEF TableTypes
    <3>5. BlockInv(w)' /\ EntriesInv(w)' /\ UNCHANGED Current
      BY <1>1, <3>1, QuietTable DEF Before
    <3>6. TableTypes'
      BY <1>0, <1>1, <3>1, <3>3 DEF TableTypes
    <3>7. \A i \in 1 .. s[w].o + 1 : Current[i].k # key[w]
      <4>1. \A i \in 1 .. s[w].o + 1 : i \in 1 .. s[w].o \/ i = s[w].o + 1
        BY <1>0
      <4> QED
        BY <1>2, <2>3, <4>1 DEF Absent
    <3>8. LookupInv(w)'
      BY <1>1, <1>2, <3>1, <3>4, <3>5, <3>7 DEF LookupInv, ResultInv, At, Absent
    <3> QED
      BY <1>0, <3>1, <3>5, <3>6, <3>8 DEF LoneInv
  <2> QED
    BY <2>2, <2>3
<1> QED
  BY <1>4, <1>5

LEMMA MissKeeps == ASSUME RoutesOK, NEW w \in Worker, LoneInv(w), Miss(w) PROVE LoneInv(w)'
<1>0. TableTypes /\ BlockInv(w) /\ LookupInv(w) /\ ~bad /\ size \in Nat
  BY LoneFacts DEF LoneInv
<1>1. /\ tpc[w] = "miss" /\ tpc' = [tpc EXCEPT ![w] = "realloc"]
      /\ ns' = [ns EXCEPT ![w] = size + 1]
      /\ UNCHANGED <<slot, size, m, max_m, mem, freed, key, s, r, tmp, res, gets, bad>>
  BY DEF Miss, Goto, table, heap
<1>2. tpc'[w] = "realloc" /\ ns'[w] = size + 1 /\ size + 1 \in Nat
  BY <1>0, <1>1 DEF TableTypes
<1>3. TableTypes'
  <2>1. tpc' \in [Worker -> Label] /\ ns' \in [Worker -> Nat]
    BY <1>0, <1>1, <1>2 DEF TableTypes, Label
  <2> QED
    BY <1>0, <1>1, <2>1 DEF TableTypes
<1>4. BlockInv(w)' /\ EntriesInv(w)' /\ UNCHANGED Current
  BY <1>1, <1>2, QuietTable DEF Before
<1>5. LookupInv(w)'
  BY <1>0, <1>1, <1>2, <1>4 DEF LookupInv, ResultInv, At, Absent
<1> QED
  BY <1>0, <1>1, <1>3, <1>4, <1>5 DEF LoneInv

LEMMA ReallocKeeps == ASSUME RoutesOK, NEW w \in Worker, LoneInv(w), Realloc(w) PROVE LoneInv(w)'
<1>0. /\ TableTypes /\ BlockInv(w) /\ EntriesInv(w) /\ LookupInv(w)
      /\ Len(mem) \in Nat \ {0} /\ Len(mem) \notin freed /\ size \in Nat /\ Current \in Seq(Entry)
      /\ mem \in Seq(Seq(Entry))
  BY LoneFacts DEF LoneInv, TableTypes
<1> DEFINE C == Block(Current, size + 1)
<1>1. /\ tpc[w] = "realloc" /\ tpc' = [tpc EXCEPT ![w] = "assign"] /\ bad' = (slot \in freed)
      /\ mem' = Append(mem, Block(mem[slot], ns[w])) /\ freed' = freed \cup {slot}
      /\ r' = [r EXCEPT ![w] = Len(mem')]
      /\ UNCHANGED <<slot, size, m, max_m, key, s, ns, tmp, res, gets>>
  BY DEF Realloc, Goto, table
<1>2. /\ slot = Len(mem) /\ Len(Current) = size /\ m = size /\ ns[w] = size + 1 /\ Absent(w, size)
      /\ key[w] \in Asked
  BY <1>0, <1>1 DEF BlockInv, LookupInv, ResultInv, At, Extra
<1>3. mem' = Append(mem, C) /\ ~bad' /\ freed' = freed \cup {Len(mem)}
  BY <1>0, <1>1, <1>2 DEF Current
<1>4. C \in Seq(Entry) /\ Len(C) = size + 1 /\ \A i \in 1 .. size : C[i] = Current[i]
  <2>1. Unwritten \in Entry
    BY DEF Unwritten, Entry, None
  <2>2. \A i \in 1 .. size + 1 : i <= size => i \in 1 .. Len(Current)
    BY <1>0, <1>2
  <2>3. \A i \in 1 .. size + 1 : (IF i <= Len(Current) THEN Current[i] ELSE Unwritten) \in Entry
    BY <1>0, <1>2, <2>1, <2>2
  <2>4. size + 1 \in Nat
    BY <1>0
  <2>5. C = [i \in 1 .. size + 1 |-> IF i <= Len(Current) THEN Current[i] ELSE Unwritten]
    BY DEF Block, Copied
  <2>6. C \in [1 .. size + 1 -> Entry]
    BY <2>3, <2>5
  <2>7. C \in Seq(Entry) /\ Len(C) = size + 1
    BY <2>4, <2>6
  <2>8. \A i \in 1 .. size : i \in 1 .. size + 1 /\ i <= Len(Current)
    BY <1>0, <1>2
  <2> QED
    BY <2>5, <2>7, <2>8
<1> HIDE DEF C
<1>5. mem' \in Seq(Seq(Entry)) /\ mem' # <<>> /\ Len(mem') = Len(mem) + 1 /\ Current' = C
  BY <1>0, <1>3, <1>4 DEF Current
<1>6. tpc'[w] = "assign" /\ r'[w] = Len(mem') /\ Len(mem') \in Nat
  BY <1>0, <1>1, <1>5 DEF TableTypes
<1>7. TableTypes'
  <2>1. tpc' \in [Worker -> Label] /\ r' \in [Worker -> Nat]
    BY <1>0, <1>1, <1>6 DEF TableTypes, Label
  <2> QED
    BY <1>0, <1>1, <1>5, <2>1 DEF TableTypes
<1>8. BlockInv(w)'
  <2>1. freed' \subseteq 1 .. Len(mem') - 1
    <3>1. freed \subseteq 1 .. Len(mem) - 1 /\ Len(mem') - 1 = Len(mem)
      BY <1>0, <1>5 DEF BlockInv
    <3>2. 1 .. Len(mem) - 1 \subseteq 1 .. Len(mem) /\ Len(mem) \in 1 .. Len(mem)
      BY <1>0
    <3> QED
      BY <1>3, <3>1, <3>2
  <2> QED
    BY <1>0, <1>1, <1>2, <1>4, <1>5, <1>6, <2>1 DEF BlockInv, At, Extra
<1>9. EntriesInv(w)'
  <2>1. Extra(w, {"size"}) = 0 /\ Extra(w, {"size"})' = 0 /\ size' = size /\ size + 0 = size
    BY <1>0, <1>1, <1>6 DEF Extra, At
  <2>2. \A i \in 1 .. size : Current'[i] = Current[i]
    BY <1>4, <1>5
  <2>3. /\ \A i \in 1 .. size : Right(Current[i], i)
        /\ \A i, j \in 1 .. size : Current[i].k = Current[j].k => i = j
    BY <1>0, <2>1 DEF EntriesInv
  <2>4. /\ \A i \in 1 .. size : Right(Current'[i], i)
        /\ \A i, j \in 1 .. size : Current'[i].k = Current'[j].k => i = j
    BY ONLY <2>2, <2>3
  <2> QED
    BY <2>1, <2>4 DEF EntriesInv, Right, RouteEntry
<1>10. LookupInv(w)'
  BY <1>0, <1>1, <1>2, <1>4, <1>5, <1>6 DEF LookupInv, ResultInv, At, Absent
<1> QED
  BY <1>3, <1>7, <1>8, <1>9, <1>10 DEF LoneInv

LEMMA AssignKeeps == ASSUME RoutesOK, NEW w \in Worker, LoneInv(w), Assign(w) PROVE LoneInv(w)'
<1>0. TableTypes /\ BlockInv(w) /\ EntriesInv(w) /\ LookupInv(w) /\ ~bad /\ size \in Nat
  BY LoneFacts DEF LoneInv
<1>1. /\ tpc[w] = "assign" /\ tpc' = [tpc EXCEPT ![w] = "load"] /\ slot' = r[w]
      /\ UNCHANGED <<size, m, max_m, mem, freed, key, s, ns, r, tmp, res, gets, bad>>
  BY DEF Assign, Goto, heap, locals
<1>2. tpc'[w] = "load" /\ Current' = Current
  BY <1>0, <1>1 DEF TableTypes, Current
<1>3. TableTypes'
  <2>1. tpc' \in [Worker -> Label]
    BY <1>0, <1>1 DEF TableTypes, Label
  <2> QED
    BY <1>0, <1>1, <2>1 DEF TableTypes
<1>4. BlockInv(w)' /\ EntriesInv(w)'
  BY <1>0, <1>1, <1>2 DEF BlockInv, EntriesInv, At, Extra
<1>5. LookupInv(w)'
  BY <1>0, <1>1, <1>2 DEF LookupInv, ResultInv, At, Absent
<1> QED
  BY <1>0, <1>1, <1>3, <1>4, <1>5 DEF LoneInv

LEMMA LoadKeeps == ASSUME RoutesOK, NEW w \in Worker, LoneInv(w), Load(w) PROVE LoneInv(w)'
<1>0. TableTypes /\ BlockInv(w) /\ LookupInv(w) /\ ~bad /\ size \in Nat /\ m \in Nat
  BY LoneFacts DEF LoneInv
<1>1. /\ tpc[w] = "load" /\ tpc' = [tpc EXCEPT ![w] = "store"]
      /\ tmp' = [tmp EXCEPT ![w] = m]
      /\ UNCHANGED <<slot, size, m, max_m, mem, freed, key, s, ns, r, res, gets, bad>>
  BY DEF Load, Goto, table, heap
<1>2. tpc'[w] = "store" /\ tmp'[w] = m /\ m = size
  BY <1>0, <1>1 DEF TableTypes, BlockInv, At, Extra
<1>3. TableTypes'
  <2>1. tpc' \in [Worker -> Label] /\ tmp' \in [Worker -> Nat]
    BY <1>0, <1>1 DEF TableTypes, Label
  <2> QED
    BY <1>0, <1>1, <2>1 DEF TableTypes
<1>4. BlockInv(w)' /\ EntriesInv(w)' /\ UNCHANGED Current
  BY <1>1, <1>2, QuietTable DEF Between
<1>5. LookupInv(w)'
  BY <1>0, <1>1, <1>2, <1>4 DEF LookupInv, ResultInv, At, Absent
<1> QED
  BY <1>0, <1>1, <1>3, <1>4, <1>5 DEF LoneInv

LEMMA StoreKeeps == ASSUME RoutesOK, NEW w \in Worker, LoneInv(w), Store(w) PROVE LoneInv(w)'
<1>0. TableTypes /\ BlockInv(w) /\ EntriesInv(w) /\ LookupInv(w) /\ ~bad /\ size \in Nat
  BY LoneFacts DEF LoneInv
<1>1. /\ tpc[w] = "store" /\ tpc' = [tpc EXCEPT ![w] = "ins"] /\ m' = tmp[w] + 1
      /\ UNCHANGED <<slot, size, max_m, mem, freed, key, s, ns, r, tmp, res, gets, bad>>
  BY DEF Store, Goto, heap, locals
<1>2. tpc'[w] = "ins" /\ Current' = Current /\ m' = size + 1
  BY <1>0, <1>1 DEF TableTypes, Current, LookupInv, ResultInv, At
<1>3. TableTypes'
  <2>1. tpc' \in [Worker -> Label] /\ m' \in Nat
    BY <1>0, <1>1, <1>2 DEF TableTypes, Label
  <2> QED
    BY <1>0, <1>1, <2>1 DEF TableTypes
<1>4. BlockInv(w)' /\ EntriesInv(w)'
  BY <1>0, <1>1, <1>2 DEF BlockInv, EntriesInv, At, Extra
<1>5. LookupInv(w)'
  BY <1>0, <1>1, <1>2 DEF LookupInv, ResultInv, At, Absent
<1> QED
  BY <1>0, <1>1, <1>3, <1>4, <1>5 DEF LoneInv

LEMMA InsKeyKeeps == ASSUME RoutesOK, NEW w \in Worker, LoneInv(w), InsKey(w) PROVE LoneInv(w)'
<1>0. /\ TableTypes /\ BlockInv(w) /\ EntriesInv(w) /\ LookupInv(w) /\ ~bad
      /\ Len(mem) \in Nat \ {0} /\ Len(mem) \notin freed /\ Len(mem) \in DOMAIN mem
      /\ size \in Nat /\ Current \in Seq(Entry) /\ mem \in Seq(Seq(Entry))
      /\ Len(Registered) \in Nat /\ Len(Registered) <= size
  BY LoneFacts DEF LoneInv, TableTypes
<1> DEFINE e == [k |-> key[w], a |-> None]
           p == [b |-> Len(mem), o |-> size]
           C == [Current EXCEPT ![size + 1] = e]
<1>1. /\ tpc[w] = "ins" /\ UNCHANGED <<slot, size, m, max_m, freed, key, ns, r, tmp, res, gets>>
  BY DEF InsKey, table
<1>2. /\ slot = Len(mem) /\ Len(Current) = size + 1 /\ m = size + 1 /\ ns[w] = size + 1
      /\ Absent(w, size) /\ key[w] \in Asked
  BY <1>0, <1>1 DEF BlockInv, LookupInv, ResultInv, At, Extra
<1>3. ~Invalid(p)
  BY <1>0, <1>2 DEF Invalid, Current
<1>4. /\ mem' = [mem EXCEPT ![Len(mem)] = C]
      /\ s' = [s EXCEPT ![w] = p] /\ tpc' = [tpc EXCEPT ![w] = "size"] /\ bad' = bad
  BY <1>2, <1>3 DEF InsKey, Goto, Current
<1>5. /\ e \in Entry /\ size + 1 \in 1 .. Len(Current) /\ p \in [b : Nat, o : Nat]
      /\ e.k = key[w] /\ e.a = None
  BY <1>0, <1>2 DEF Entry, AnyPath
<1>6. /\ C \in Seq(Entry) /\ Len(C) = size + 1 /\ C[size + 1] = e
      /\ \A i \in 1 .. size : C[i] = Current[i]
  <2>1. \A i \in 1 .. size : i \in 1 .. Len(Current) /\ i # size + 1
    BY <1>0, <1>2
  <2> QED
    BY <1>0, <1>2, <1>5, <2>1
<1>7. p.b = Len(mem) /\ p.o = size
  OBVIOUS
<1> HIDE DEF C, e, p
<1>8. mem' \in Seq(Seq(Entry)) /\ Len(mem') = Len(mem) /\ mem' # <<>> /\ Current' = C
  <2>1. mem' \in Seq(Seq(Entry)) /\ Len(mem') = Len(mem)
    BY <1>0, <1>4, <1>6
  <2>2. mem'[Len(mem)] = C
    BY <1>0, <1>4
  <2> QED
    BY <1>0, <2>1, <2>2 DEF Current
<1>9. tpc'[w] = "size" /\ s'[w] = p
  BY <1>0, <1>4 DEF TableTypes
<1>10. TableTypes'
  <2>1. tpc' \in [Worker -> Label] /\ s' \in [Worker -> [b : Nat, o : Nat]]
    BY <1>0, <1>4, <1>5 DEF TableTypes, Label
  <2> QED
    BY <1>0, <1>1, <1>8, <2>1 DEF TableTypes
<1>11. BlockInv(w)'
  BY <1>0, <1>1, <1>2, <1>6, <1>8, <1>9 DEF BlockInv, At, Extra
<1>12. EntriesInv(w)'
  <2>1. Extra(w, {"size"}) = 0 /\ Extra(w, {"size"})' = 1 /\ size' = size /\ size + 0 = size
    BY <1>0, <1>1, <1>9 DEF Extra, At
  <2>2. /\ \A i \in 1 .. size : Right(Current[i], i)
        /\ \A i, j \in 1 .. size : Current[i].k = Current[j].k => i = j
    BY <1>0, <2>1 DEF EntriesInv
  <2>3. \A i \in 1 .. size + 1 : i \in 1 .. size \/ i = size + 1
    BY <1>0
  <2>4. key[w] \notin Routes
    <3> SUFFICES ASSUME NEW i \in DOMAIN Registered, Registered[i] = key[w] PROVE FALSE
      BY DEF Routes
    <3>1. i \in 1 .. Len(Registered) /\ i \in 1 .. size /\ i <= Len(Registered)
      BY <1>0 DEF RoutesOK
    <3>2. Current[i] = [k |-> Registered[i], a |-> Registered[i]]
      BY <2>2, <3>1 DEF Right, RouteEntry
    <3>3. Current[i].k = key[w]
      BY <3>2
    <3> QED
      BY <1>2, <3>1, <3>3 DEF Absent
  <2>5. Right(C[size + 1], size + 1)
    <3>1. ~(size + 1 <= Len(Registered))
      BY <1>0
    <3> QED
      BY <1>5, <1>6, <2>4, <3>1 DEF Right
  <2>6. \A i \in 1 .. size + 1 : Right(C[i], i)
    BY <1>6, <2>2, <2>3, <2>5
  <2>7. \A i, j \in 1 .. size + 1 : C[i].k = C[j].k => i = j
    <3> SUFFICES ASSUME NEW i \in 1 .. size + 1, NEW j \in 1 .. size + 1, C[i].k = C[j].k PROVE i = j
      OBVIOUS
    <3>1. CASE i \in 1 .. size /\ j \in 1 .. size
      BY <1>6, <2>2, <3>1
    <3>2. CASE i = size + 1 /\ j \in 1 .. size
      BY <1>2, <1>5, <1>6, <3>2 DEF Absent
    <3>3. CASE j = size + 1 /\ i \in 1 .. size
      BY <1>2, <1>5, <1>6, <3>3 DEF Absent
    <3> QED
      BY <2>3, <3>1, <3>2, <3>3
  <2> QED
    BY <1>8, <2>1, <2>6, <2>7 DEF EntriesInv
<1>13. LookupInv(w)'
  BY <1>1, <1>2, <1>6, <1>7, <1>8, <1>9 DEF LookupInv, ResultInv, At, e
<1> QED
  BY <1>0, <1>4, <1>10, <1>11, <1>12, <1>13 DEF LoneInv

LEMMA SetSizeKeeps == ASSUME RoutesOK, NEW w \in Worker, LoneInv(w), SetSize(w) PROVE LoneInv(w)'
<1>0. /\ TableTypes /\ BlockInv(w) /\ EntriesInv(w) /\ LookupInv(w) /\ ~bad /\ size \in Nat
      /\ Len(Registered) \in Nat /\ Len(Registered) <= size
  BY LoneFacts DEF LoneInv
<1>1. /\ tpc[w] = "size" /\ tpc' = [tpc EXCEPT ![w] = "use"] /\ size' = ns[w]
      /\ UNCHANGED <<slot, m, max_m, mem, freed, key, s, ns, r, tmp, res, gets, bad>>
  BY DEF SetSize, Goto, heap, locals
<1>2. /\ ns[w] = size + 1 /\ s[w].o = size /\ s[w].b = Len(mem) /\ key[w] \in Asked
      /\ Current[size + 1] = [k |-> key[w], a |-> None] /\ Len(Current) = size + 1 /\ m = size + 1
  BY <1>0, <1>1 DEF LookupInv, ResultInv, BlockInv, At, Extra
<1>3. tpc'[w] = "use" /\ Current' = Current /\ size' = size + 1
  BY <1>0, <1>1, <1>2 DEF TableTypes, Current
<1>4. TableTypes'
  <2>1. tpc' \in [Worker -> Label] /\ size' \in Nat
    BY <1>0, <1>1, <1>3 DEF TableTypes, Label
  <2> QED
    BY <1>0, <1>1, <2>1 DEF TableTypes
<1>5. BlockInv(w)'
  BY <1>0, <1>1, <1>2, <1>3 DEF BlockInv, At, Extra
<1>6. EntriesInv(w)'
  <2>1. size + Extra(w, {"size"}) = size + 1 /\ size' + Extra(w, {"size"})' = size + 1
    BY <1>0, <1>1, <1>3 DEF Extra, At
  <2> QED
    BY <1>0, <1>3, <2>1 DEF EntriesInv
<1>7. LookupInv(w)'
  <2>1. s'[w].o < size' /\ Current'[s'[w].o + 1].k = key'[w]
    BY <1>0, <1>1, <1>2, <1>3
  <2> QED
    BY <1>1, <1>2, <1>3, <2>1 DEF LookupInv, ResultInv, At
<1> QED
  BY <1>0, <1>1, <1>4, <1>5, <1>6, <1>7 DEF LoneInv

(* An entry of the table holds the action of its key. *)
LEMMA RightAction ==
  ASSUME RoutesOK, NEW e, NEW i \in Nat, i > 0, Right(e, i) PROVE e.a = Action(e.k)
<1>1. CASE i <= Len(Registered)
  <2>1. i \in DOMAIN Registered
    BY <1>1 DEF RoutesOK
  <2>2. e = [k |-> Registered[i], a |-> Registered[i]]
    BY <1>1 DEF Right, RouteEntry
  <2>3. e.k = Registered[i] /\ e.a = Registered[i]
    BY <2>2
  <2> QED
    BY <2>1, <2>3 DEF Action
<1>2. CASE ~(i <= Len(Registered))
  BY <1>2 DEF Right, Routes, Action
<1> QED
  BY <1>1, <1>2

LEMMA UseKeeps == ASSUME RoutesOK, NEW w \in Worker, LoneInv(w), Use(w) PROVE LoneInv(w)'
<1>0. /\ TableTypes /\ BlockInv(w) /\ EntriesInv(w) /\ LookupInv(w) /\ ~bad /\ size \in Nat
      /\ Len(mem) \in Nat /\ Len(mem) \notin freed /\ s[w].o \in Nat
  BY LoneFacts DEF LoneInv
<1>1. tpc[w] = "use" /\ UNCHANGED <<slot, size, m, max_m, mem, freed, key, s, ns, r, tmp, gets>>
  BY DEF Use, table, heap, locals
<1>2. /\ s[w].b = Len(mem) /\ s[w].o < size /\ Current[s[w].o + 1].k = key[w]
      /\ Len(Current) = size /\ key[w] \in Asked
  BY <1>0, <1>1 DEF LookupInv, ResultInv, BlockInv, At, Extra
<1>3. ~Invalid(s[w]) /\ mem[s[w].b] = Current
  BY <1>0, <1>2 DEF Invalid, Current
<1>4. Current[s[w].o + 1].a = Action(key[w])
  <2>1. s[w].o + 1 \in 1 .. size /\ s[w].o + 1 \in Nat /\ s[w].o + 1 > 0
    BY <1>0, <1>2
  <2>2. size + Extra(w, {"size"}) = size
    BY <1>0, <1>1 DEF Extra, At
  <2>3. Right(Current[s[w].o + 1], s[w].o + 1)
    BY <1>0, <2>1, <2>2 DEF EntriesInv
  <2> QED
    BY <1>2, <2>1, <2>3, RightAction
<1>5. /\ res' = [res EXCEPT ![w] = Action(key[w])]
      /\ tpc' = [tpc EXCEPT ![w] = "idle"] /\ bad' = bad
  BY <1>3, <1>4 DEF Use, Goto
<1>6. tpc'[w] = "idle" /\ res'[w] = Action(key[w]) /\ Action(key[w]) \in AnyPath \cup {None}
  BY <1>0, <1>2, <1>5 DEF TableTypes, Action, AnyPath
<1>7. TableTypes'
  <2>1. tpc' \in [Worker -> Label] /\ res' \in [Worker -> AnyPath \cup {None}]
    BY <1>0, <1>5, <1>6 DEF TableTypes, Label
  <2> QED
    BY <1>0, <1>1, <2>1 DEF TableTypes
<1>8. BlockInv(w)' /\ EntriesInv(w)'
  BY <1>1, <1>6, QuietTable DEF Before
<1>9. LookupInv(w)'
  BY <1>1, <1>2, <1>6 DEF LookupInv, ResultInv, At, Action
<1> QED
  BY <1>0, <1>5, <1>7, <1>8, <1>9 DEF LoneInv

LEMMA WorkerKeeps == ASSUME RoutesOK, NEW w \in Worker, LoneInv(w), TableStep(w) PROVE LoneInv(w)'
BY GetKeeps, ExpandKeeps, SwapKeeps, HashKeeps, ScanKeeps, MissKeeps, ReallocKeeps,
   AssignKeeps, LoadKeeps, StoreKeeps, InsKeyKeeps, SetSizeKeeps, UseKeeps DEF TableStep

-----------------------------------------------------------------------------
(* The other workers.                                                      *)

(* A step leaves the locals of the others alone, and the table too unless  *)
(* the worker writes.                                                      *)
LEMMA OthersKeep ==
  ASSUME TableTypes, NEW w \in Worker, NEW v \in Worker, v # w, TableStep(w)
  PROVE  /\ tpc'[v] = tpc[v] /\ key'[v] = key[v] /\ s'[v] = s[v] /\ ns'[v] = ns[v]
         /\ r'[v] = r[v] /\ tmp'[v] = tmp[v] /\ res'[v] = res[v] /\ gets'[v] = gets[v]
         /\ ~Writes(w) => UNCHANGED <<slot, size, m, max_m, mem, freed>>
<1> USE DEF table, heap, locals, Goto, TableTypes
<1>1. CASE Get(w) \/ Hash(w) \/ Miss(w) \/ Use(w)
  BY <1>1 DEF Get, Hash, Miss, Use
<1>2. CASE Scan(w)
  <2>1. tpc' \in {tpc, [tpc EXCEPT ![w] = "miss"], [tpc EXCEPT ![w] = "use"]}
        /\ s' \in {s, [s EXCEPT ![w].o = @ + 1]}
        /\ UNCHANGED <<slot, size, m, max_m, mem, freed, key, ns, r, tmp, res, gets>>
    BY <1>2 DEF Scan
  <2> QED
    BY <2>1
<1>3. CASE Expand(w) \/ Swap(w) \/ Realloc(w) \/ Assign(w)
  BY <1>3 DEF Expand, Swap, Realloc, Assign, Writes
<1>4. CASE Load(w) \/ Store(w) \/ InsKey(w) \/ SetSize(w)
  BY <1>4 DEF Load, Store, InsKey, SetSize, Writes
<1> QED
  BY <1>1, <1>2, <1>3, <1>4 DEF TableStep

(* What is the same to two workers when neither writes. *)
LEMMA SameTable ==
  ASSUME NEW w \in Worker, NEW v \in Worker, LoneInv(w)', ~Writes(w)', Idle(v)', ResultInv(v)'
  PROVE  LoneInv(v)'
<1>1. /\ ~At(w, {"swap", "assign"})' /\ ~At(v, {"swap", "assign"})'
      /\ Extra(w, {"assign", "load", "store", "ins", "size"})'
           = Extra(v, {"assign", "load", "store", "ins", "size"})'
      /\ Extra(w, {"ins", "size"})' = Extra(v, {"ins", "size"})'
      /\ Extra(w, {"size"})' = Extra(v, {"size"})'
  BY DEF Writes, Idle, At, Extra
<1>2. BlockInv(v)' /\ EntriesInv(v)'
  BY <1>1 DEF LoneInv, BlockInv, EntriesInv
<1>3. LookupInv(v)'
  BY DEF LookupInv, Idle, At
<1> QED
  BY <1>2, <1>3 DEF LoneInv

(* A worker to which nothing happens. *)
LEMMA BystanderKeeps ==
  ASSUME NEW v \in Worker, LoneInv(v), TableTypes', ~bad',
         UNCHANGED <<slot, size, m, max_m, mem, freed>>,
         tpc'[v] = tpc[v], key'[v] = key[v], s'[v] = s[v], ns'[v] = ns[v],
         r'[v] = r[v], tmp'[v] = tmp[v], res'[v] = res[v], gets'[v] = gets[v]
  PROVE  LoneInv(v)'
<1>1. BlockInv(v)' /\ EntriesInv(v)'
  BY DEF LoneInv, BlockInv, EntriesInv, At, Extra, Current
<1>2. LookupInv(v)'
  BY DEF LoneInv, LookupInv, ResultInv, At, Absent, Current
<1> QED
  BY <1>1, <1>2 DEF LoneInv

LEMMA TableInitInv == ASSUME RoutesOK, TableInit PROVE TableInv
<1>1. ASSUME NEW w \in Worker PROVE ResultInv(w) /\ LoneInv(w)
  BY <1>1, LoneInit DEF LoneInv, LookupInv
<1>2. ~bad /\ ~Racing
  BY DEF TableInit, Racing, Idle
<1>3. TableTypes
  BY <1>1 DEF RoutesOK, LoneInv
<1> QED
  BY <1>1, <1>2, <1>3 DEF TableInv

LEMMA TableStepInv == ASSUME RoutesOK, TableInv, [TableNext]_tableVars PROVE TableInv'
<1>1. CASE UNCHANGED tableVars
  <2>1. UNCHANGED <<slot, size, m, max_m, mem, freed, tpc, key, s, ns, r, tmp, res, gets, bad, raced>>
    BY <1>1 DEF tableVars, table, heap, locals
  <2>2. CASE raced
    BY <2>1, <2>2 DEF TableInv
  <2>3. CASE ~raced
    <3>1. /\ TableTypes /\ ~bad /\ ~Racing
          /\ \A w \in Worker : ResultInv(w) /\ (Undisturbed(w) => LoneInv(w))
      BY <2>3 DEF TableInv
    <3>2. TableTypes' /\ ~bad'
      BY <2>1, <3>1 DEF TableTypes
    <3>3. ~Racing' /\ \A w \in Worker : Undisturbed(w)' => Undisturbed(w)
      BY <2>1, <3>1 DEF Racing, Undisturbed, Writes, Idle
    <3>4. \A w \in Worker : ResultInv(w)'
      BY <2>1, <3>1 DEF ResultInv, At
    <3>5. \A w \in Worker : Undisturbed(w)' => LoneInv(w)'
      BY <2>1, <3>1, <3>2, <3>3, BystanderKeeps
    <3> QED
      BY <3>2, <3>3, <3>4, <3>5 DEF TableInv
  <2> QED
    BY <2>2, <2>3
<1>2. CASE TableNext /\ raced'
  BY <1>2 DEF TableInv
<1>3. ASSUME TableNext, ~raced' PROVE TableInv'
  <2>0. /\ TableTypes /\ ~bad /\ ~Racing /\ ~Racing'
        /\ \A w \in Worker : ResultInv(w) /\ (Undisturbed(w) => LoneInv(w))
    BY <1>3 DEF TableNext, TableInv
  <2>1. PICK w \in Worker : TableStep(w)
    BY <1>3 DEF TableNext
  <2>2. Undisturbed(w)
    <3> SUFFICES ASSUME NEW v \in Worker, v # w, Writes(v) PROVE FALSE
      BY DEF Undisturbed
    <3>1. Idle(w)
      BY <2>0 DEF Racing
    <3>2. Get(w)
      BY <2>1, <3>1 DEF Idle, TableStep, Expand, Swap, Hash, Scan, Miss, Realloc, Assign, Load,
                        Store, InsKey, SetSize, Use
    <3>3. ~Idle(w)'
      BY <2>0, <3>2 DEF Get, Goto, Idle, TableTypes
    <3>4. Writes(v)'
      BY <2>0, <2>1, OthersKeep DEF Writes
    <3> QED
      BY <2>0, <3>3, <3>4 DEF Racing
  <2>3. LoneInv(w)'
    BY <2>0, <2>1, <2>2, WorkerKeeps
  <2>4. TableTypes' /\ ~bad'
    BY <2>3 DEF LoneInv
  <2>5. ASSUME NEW v \in Worker PROVE ResultInv(v)'
    <3>1. CASE v = w
      BY <2>3, <3>1 DEF LoneInv, LookupInv
    <3>2. CASE v # w
      <4>1. ResultInv(v)
        BY <2>0
      <4>2. tpc'[v] = tpc[v] /\ key'[v] = key[v] /\ res'[v] = res[v] /\ gets'[v] = gets[v]
        BY <2>0, <2>1, <3>2, OthersKeep
      <4> QED
        BY <4>1, <4>2 DEF ResultInv, At
    <3> QED
      BY <3>1, <3>2
  <2>6. ASSUME NEW v \in Worker, Undisturbed(v)' PROVE LoneInv(v)'
    <3>1. CASE v = w
      BY <2>3, <3>1
    <3>2. CASE v # w /\ Writes(w)
      <4>1. Idle(v)
        BY <2>0, <3>2 DEF Racing
      <4>2. Idle(v)'
        BY <2>0, <2>1, <3>2, <4>1, OthersKeep DEF Idle
      <4>3. ~Writes(w)'
        BY <2>6, <3>2 DEF Undisturbed
      <4> QED
        BY <2>3, <2>5, <4>2, <4>3, SameTable
    <3>3. CASE v # w /\ ~Writes(w)
      <4>1. ASSUME NEW u \in Worker, u # v PROVE ~Writes(u)
        <5>1. CASE u = w
          BY <3>3, <5>1
        <5>2. CASE u # w
          <6>1. ~Writes(u)'
            BY <2>6, <4>1 DEF Undisturbed
          <6> QED
            BY <2>0, <2>1, <5>2, <6>1, OthersKeep DEF Writes
        <5> QED
          BY <5>1, <5>2
      <4>2. LoneInv(v)
        BY <2>0, <4>1 DEF Undisturbed
      <4> QED
        BY <2>0, <2>1, <2>4, <3>3, <4>2, OthersKeep, BystanderKeeps
    <3> QED
      BY <3>1, <3>2, <3>3
  <2> QED
    BY <2>0, <2>4, <2>5, <2>6 DEF TableInv
<1> QED
  BY <1>1, <1>2, <1>3

(* As many different keys as entries. *)
LEMMA KeysCounted ==
  ASSUME NEW n \in Nat, NEW f, \A i, j \in 1 .. n : f[i] = f[j] => i = j
  PROVE  Cardinality({f[i] : i \in 1 .. n}) = n
<1> DEFINE T == {f[i] : i \in 1 .. n}
           g == [i \in 1 .. n |-> f[i]]
<1>1. g \in Bijection(1 .. n, T)
  BY DEF Bijection, Injection, Surjection, IsInjective
<1>2. ExistsBijection(1 .. n, T)
  BY <1>1 DEF ExistsBijection
<1>3. IsFiniteSet(1 .. n) /\ Cardinality(1 .. n) = n
  BY FS_Interval
<1>4. Cardinality(T) = Cardinality(1 .. n)
  BY <1>2, <1>3, FS_Bijection
<1> QED
  BY <1>3, <1>4

(* ahtable.c:241, 296-350: any number of workers look up any paths, routed *)
(* or not, through any number of insertions and expansions.  Until the     *)
(* look-up of one overlaps an insertion or expansion of another, nobody    *)
(* touches memory that moved, everyone gets the action of the path asked   *)
(* for, and table->m is the number of keys in the table.                   *)
THEOREM SafeUntilRace ==
  ASSUME RoutesOK PROVE TableSpec => [](NoBadAccess /\ OwnActionUntilRace /\ CountIsExact)
<1>1. ASSUME RoutesOK, TableInv PROVE NoBadAccess /\ OwnActionUntilRace /\ CountIsExact
  <2> USE <1>1
  <2>1. NoBadAccess /\ OwnActionUntilRace
    BY DEF TableInv, ResultInv, NoBadAccess, OwnActionUntilRace, OwnAction, Idle, At
  <2>2. ASSUME ~raced, \A w \in Worker : Idle(w)
        PROVE  m = size /\ Cardinality({mem[slot][i].k : i \in 1 .. size}) = size
    <3>0. PICK w \in Worker : TRUE
      BY DEF RoutesOK
    <3>1. LoneInv(w) /\ size \in Nat
      BY <2>2 DEF TableInv, Undisturbed, Writes, Idle, TableTypes
    <3>2. m = size /\ slot = Len(mem) /\ size + Extra(w, {"size"}) = size
      BY <2>2, <3>1 DEF LoneInv, BlockInv, Idle, At, Extra
    <3>3. \A i, j \in 1 .. size : mem[slot][i].k = mem[slot][j].k => i = j
      BY <3>1, <3>2 DEF LoneInv, EntriesInv, Current
    <3> DEFINE f == [i \in 1 .. size |-> mem[slot][i].k]
    <3>4. \A i, j \in 1 .. size : f[i] = f[j] => i = j
      BY <3>3
    <3>5. {f[i] : i \in 1 .. size} = {mem[slot][i].k : i \in 1 .. size}
      OBVIOUS
    <3> HIDE DEF f
    <3>6. Cardinality({f[i] : i \in 1 .. size}) = size
      BY <3>1, <3>4, KeysCounted
    <3> QED
      BY <3>2, <3>5, <3>6
  <2> QED
    BY <2>1, <2>2 DEF CountIsExact
<1>2. TableInit => TableInv
  BY TableInitInv
<1>3. TableInv /\ [TableNext]_tableVars => TableInv'
  BY TableStepInv
<1> QED
  BY <1>1, <1>2, <1>3, PTL DEF TableSpec

(* main.c:264-301 with one worker, ahtable.c:296-350: a single worker      *)
(* never races, so it may look up any path at any time.                    *)
THEOREM AloneIsSafe ==
  ASSUME RoutesOK, NEW l, Worker = {l} PROVE TableSpec => [](~bad /\ OwnAction)
<1>1. TableInit => ~raced
  BY DEF TableInit
<1>2. ~raced /\ [TableNext]_tableVars => ~raced'
  BY DEF TableNext, Racing, tableVars
<1>3. ~raced /\ NoBadAccess /\ OwnActionUntilRace => ~bad /\ OwnAction
  BY DEF NoBadAccess, OwnActionUntilRace
<1>4. TableSpec => [](NoBadAccess /\ OwnActionUntilRace /\ CountIsExact)
  BY SafeUntilRace
<1> QED
  BY <1>1, <1>2, <1>3, <1>4, PTL DEF TableSpec
=============================================================================
