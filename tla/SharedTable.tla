----------------------------- MODULE SharedTable ----------------------------
(***************************************************************************)
(* The one route table under all workers.  http_on_data_default looks a    *)
(* path up with _aget, which is hattrie_get and in the end get_key of the  *)
(* array hash table with insert_missing set: a path nobody registered is   *)
(* inserted, by the worker that met it, into the table the others search.  *)
(* Nothing is locked, so each access to the table is a step of its own.    *)
(*                                                                         *)
(* All paths are in one slot of the table, which is a block of memory that *)
(* realloc may move; an entry is a key with its value, the route's action  *)
(* or None.  (AhTable has the bytes of the entries and the other slots.)   *)
(* Access to a freed block, or behind the end of one, is undefined: it     *)
(* sets bad, and what follows is not modelled.                             *)
(***************************************************************************)
EXTENDS Naturals, FiniteSets, Sequences

CONSTANTS
    Worker,
    Registered,   \* sequence of the paths with an action, as registered
    Asked,        \* the paths clients ask for
    Capacity,     \* max_m of the table at first
    MaxGets       \* bound: lookups of a worker

VARIABLES
    slot, size,   \* table->slots[i], table->slot_sizes[i] in entries
    m, max_m,     \* table->m, table->max_m
    mem, freed,   \* the blocks malloc gave out, and those freed since
    tpc, key,      \* per worker: control point, the path it looks up
    s, ns, r, tmp,\* and locals: cursor, new_size, what realloc returned, m
    res, gets,    \* and the action it got; how many lookups it started
    bad,          \* memory was accessed that is not the table's
    raced         \* history: a worker wrote while another was looking up

table == <<slot, size, m, max_m>>
heap == <<mem, freed>>
locals == <<key, s, ns, r, tmp>>
tableVars == <<table, heap, tpc, locals, res, gets, bad, raced>>

None == "none"
Unwritten == [k |-> "junk", a |-> None]
Action(k) == IF \E i \in DOMAIN Registered : Registered[i] = k THEN k ELSE None

TableInit ==
    /\ slot = 1 /\ size = Len(Registered)
    /\ m = Len(Registered) /\ max_m = Capacity
    /\ mem = <<[i \in DOMAIN Registered |-> [k |-> Registered[i], a |-> Registered[i]]]>>
    /\ freed = {}
    /\ tpc = [w \in Worker |-> "idle"] /\ key = [w \in Worker |-> None]
    /\ s = [w \in Worker |-> [b |-> 1, o |-> 0]]
    /\ ns = [w \in Worker |-> 0] /\ r = [w \in Worker |-> 1] /\ tmp = [w \in Worker |-> 0]
    /\ res = [w \in Worker |-> None] /\ gets = [w \in Worker |-> 0]
    /\ bad = FALSE /\ raced = FALSE

Goto(w, l) == tpc' = [tpc EXCEPT ![w] = l]
Invalid(p) == p.b \in freed \/ p.o >= Len(mem[p.b])

-----------------------------------------------------------------------------

AtCapacity == m >= max_m

Get(w) ==
    /\ tpc[w] = "idle" /\ gets[w] < MaxGets
    /\ \E k \in Asked : key' = [key EXCEPT ![w] = k]
    /\ gets' = [gets EXCEPT ![w] = @ + 1]
    /\ Goto(w, IF AtCapacity THEN "expand" ELSE "hash")
    /\ UNCHANGED <<table, heap, s, ns, r, tmp, res, bad>>

(* A new block with the first n entries of an old one. *)
Copied(old, n) == [i \in 1 .. n |-> IF i <= Len(old) THEN old[i] ELSE Unwritten]

(* ahtable_expand up to the free of the old slots *)
Expand(w) ==
    /\ tpc[w] = "expand"
    /\ bad' = (slot \in freed \/ size > Len(mem[slot]))
    /\ mem' = Append(mem, Copied(mem[slot], size))
    /\ freed' = freed \cup {slot}
    /\ r' = [r EXCEPT ![w] = Len(mem')]
    /\ Goto(w, "swap")
    /\ UNCHANGED <<table, key, s, ns, tmp, res, gets>>

(* and from there *)
Swap(w) ==
    /\ tpc[w] = "swap"
    /\ slot' = r[w] /\ size' = Len(mem[r[w]]) /\ max_m' = 2 * max_m
    /\ Goto(w, "hash")
    /\ UNCHANGED <<m, heap, locals, res, gets, bad>>

Hash(w) ==
    /\ tpc[w] = "hash"
    /\ s' = [s EXCEPT ![w] = [b |-> slot, o |-> 0]]
    /\ Goto(w, "scan")
    /\ UNCHANGED <<table, heap, key, ns, r, tmp, res, gets, bad>>

(* Mutant: takes the first entry of the right length. *)
MatchesLength(e, k) == TRUE

(* keylen, memcmp *)
Matches(e, k) == e.k = k

(* The difference of pointers into two blocks can be anything. *)
Within(w) == IF s[w].b = slot THEN {s[w].o < size} ELSE BOOLEAN

(* One turn of the while loop. *)
Scan(w) ==
    /\ tpc[w] = "scan"
    /\ \E more \in Within(w) :
        IF ~more THEN Goto(w, "miss") /\ UNCHANGED <<s, bad>>
        ELSE IF Invalid(s[w]) THEN bad' = TRUE /\ UNCHANGED <<s, tpc>>
        ELSE IF Matches(mem[s[w].b][s[w].o + 1], key[w])
        THEN Goto(w, "use") /\ UNCHANGED <<s, bad>>
        ELSE s' = [s EXCEPT ![w].o = @ + 1] /\ UNCHANGED <<tpc, bad>>
    /\ UNCHANGED <<table, heap, key, ns, r, tmp, res, gets>>

Miss(w) ==
    /\ tpc[w] = "miss"
    /\ ns' = [ns EXCEPT ![w] = size + 1]
    /\ Goto(w, "realloc")
    /\ UNCHANGED <<table, heap, key, s, r, tmp, res, gets, bad>>

Shorter(a, b) == IF a < b THEN a ELSE b

(* Mutant: allocates what the slot held before. *)
BlockOfSameSize(old, n) == SubSeq(old, 1, Shorter(n - 1, Len(old)))

(* What realloc returns: the old contents as far as they fit. *)
Block(old, n) == Copied(old, n)

(* realloc_or_die(table->slots[i], new_size) *)
Realloc(w) ==
    /\ tpc[w] = "realloc"
    /\ bad' = (slot \in freed)
    /\ mem' = Append(mem, Block(mem[slot], ns[w]))
    /\ freed' = freed \cup {slot}
    /\ r' = [r EXCEPT ![w] = Len(mem')]
    /\ Goto(w, "assign")
    /\ UNCHANGED <<table, key, s, ns, tmp, res, gets>>

Assign(w) ==
    /\ tpc[w] = "assign"
    /\ slot' = r[w]
    /\ Goto(w, "load")
    /\ UNCHANGED <<size, m, max_m, heap, locals, res, gets, bad>>

(* ++table->m is a load and a store *)
Load(w) ==
    /\ tpc[w] = "load"
    /\ tmp' = [tmp EXCEPT ![w] = m]
    /\ Goto(w, "store")
    /\ UNCHANGED <<table, heap, key, s, ns, r, res, gets, bad>>

Store(w) ==
    /\ tpc[w] = "store"
    /\ m' = tmp[w] + 1
    /\ Goto(w, "ins")
    /\ UNCHANGED <<slot, size, max_m, heap, locals, res, gets, bad>>

(* ins_key(table->slots[i] + table->slot_sizes[i], ...) with a value of 0 *)
InsKey(w) ==
    /\ tpc[w] = "ins"
    /\ LET p == [b |-> slot, o |-> size]
       IN  IF Invalid(p) THEN bad' = TRUE /\ UNCHANGED <<mem, s, tpc>>
           ELSE /\ mem' = [mem EXCEPT ![p.b][p.o + 1] = [k |-> key[w], a |-> None]]
                /\ s' = [s EXCEPT ![w] = p]
                /\ Goto(w, "size") /\ UNCHANGED bad
    /\ UNCHANGED <<table, freed, key, ns, r, tmp, res, gets>>

SetSize(w) ==
    /\ tpc[w] = "size"
    /\ size' = ns[w]
    /\ Goto(w, "use")
    /\ UNCHANGED <<slot, m, max_m, heap, locals, res, gets, bad>>

(* *hattrie_get(...): the caller reads through the pointer it got. *)
Use(w) ==
    /\ tpc[w] = "use"
    /\ IF Invalid(s[w]) THEN bad' = TRUE /\ UNCHANGED <<res, tpc>>
       ELSE /\ res' = [res EXCEPT ![w] = mem[s[w].b][s[w].o + 1].a]
            /\ Goto(w, "idle") /\ UNCHANGED bad
    /\ UNCHANGED <<table, heap, locals, gets>>

TableStep(w) ==
    \/ Get(w) \/ Expand(w) \/ Swap(w) \/ Hash(w) \/ Scan(w)
    \/ Miss(w) \/ Realloc(w) \/ Assign(w) \/ Load(w) \/ Store(w) \/ InsKey(w) \/ SetSize(w)
    \/ Use(w)

Idle(w) == tpc[w] = "idle"

(* A worker writes from the expansion or the realloc on, to the new size. *)
Writes(w) == tpc[w] \in {"expand", "swap", "realloc", "assign", "load", "store", "ins", "size"}
Racing == \E v, w \in Worker : v # w /\ Writes(v) /\ ~Idle(w)

TableNext ==
    /\ ~bad /\ \E w \in Worker : TableStep(w)
    /\ raced' = (raced \/ Racing')

TableSpec == TableInit /\ [][TableNext]_tableVars

-----------------------------------------------------------------------------
(* assoc_array_impl_hattrie.h:25, ahtable.c:296-350: a worker reads or     *)
(* writes a slot that another one moved or freed only after a path that    *)
(* was not there was inserted during a look-up of another worker.  Any     *)
(* number of look-ups at a time that find their path, and insertions at    *)
(* times when the other workers look up nothing, are safe.                 *)
NoBadAccess == bad => raced

(* mod_http.c:467-483: a path is answered with "No action defined against  *)
(* route" only if no action was registered for it, and with its own action *)
(* if there is one, whatever other workers look up meanwhile.              *)
OwnAction == \A w \in Worker : Idle(w) /\ gets[w] > 0 => res[w] = Action(key[w])

(* This does hold until an insertion and a look-up overlap, although       *)
(* workers look up and insert in turn, in one table.                       *)
OwnActionUntilRace == ~raced => OwnAction

(* ahtable.h:83, ahtable.c:241: "assert(m == table->m)": when no lookup is *)
(* under way, table->m is the number of keys an iteration meets, all of    *)
(* them different, until an insertion and a look-up overlap.               *)
CountIsExact ==
    ~raced /\ (\A w \in Worker : Idle(w)) =>
        /\ m = size
        /\ Cardinality({mem[slot][i].k : i \in 1 .. size}) = size

-----------------------------------------------------------------------------
(* Why the properties hold until a race: the inductive invariant.          *)

Routes == {Registered[i] : i \in DOMAIN Registered}
AnyPath == Asked \cup Routes
RoutesOK ==
    /\ Worker # {}
    /\ Registered \in Seq(AnyPath) /\ Capacity \in Nat
    /\ \A i, j \in DOMAIN Registered : Registered[i] = Registered[j] => i = j

Label == {"idle", "expand", "swap", "hash", "scan", "miss", "realloc", "assign", "load",
          "store", "ins", "size", "use"}

RouteEntry(i) == [k |-> Registered[i], a |-> Registered[i]]
Entry == [k : AnyPath \cup {"junk"}, a : AnyPath \cup {None}]

TableTypes ==
    /\ tpc \in [Worker -> Label]
    /\ key \in [Worker -> AnyPath \cup {None}] /\ s \in [Worker -> [b : Nat, o : Nat]]
    /\ ns \in [Worker -> Nat] /\ r \in [Worker -> Nat] /\ tmp \in [Worker -> Nat]
    /\ res \in [Worker -> AnyPath \cup {None}] /\ gets \in [Worker -> Nat]
    /\ mem \in Seq(Seq(Entry)) /\ mem # <<>> /\ size \in Nat /\ m \in Nat /\ max_m \in Nat

(* The table as worker w left it, where no other worker writes. *)
At(w, labels) == tpc[w] \in labels
Extra(w, labels) == IF At(w, labels) THEN 1 ELSE 0

(* The table is the newest block; the older ones were freed. *)
Current == mem[Len(mem)]

(* What the table holds: the routes first, then paths without an action. *)
Right(e, i) ==
    IF i <= Len(Registered) THEN e = RouteEntry(i) ELSE e.k \notin Routes /\ e.a = None

BlockInv(w) ==
    /\ freed \subseteq 1 .. Len(mem) - 1
    /\ IF At(w, {"swap", "assign"}) THEN r[w] = Len(mem) ELSE slot = Len(mem)
    /\ Len(Current) = size + Extra(w, {"assign", "load", "store", "ins", "size"})
    /\ Len(Registered) <= size
    /\ m = size + Extra(w, {"ins", "size"})

EntriesInv(w) ==
    LET n == size + Extra(w, {"size"})
    IN  /\ \A i \in 1 .. n : Right(Current[i], i)
        /\ \A i, j \in 1 .. n : Current[i].k = Current[j].k => i = j

Absent(w, n) == \A i \in 1 .. n : Current[i].k # key[w]

ResultInv(w) ==
    /\ ~At(w, {"idle"}) \/ gets[w] > 0 => key[w] \in Asked
    /\ At(w, {"idle"}) /\ gets[w] > 0 => res[w] = Action(key[w])

LookupInv(w) ==
    /\ ResultInv(w)
    /\ At(w, {"scan", "use", "size"}) => s[w].b = Len(mem)
    /\ At(w, {"scan"}) => s[w].o <= size /\ Absent(w, s[w].o)
    /\ At(w, {"miss", "realloc", "assign", "load", "store", "ins"}) => Absent(w, size)
    /\ At(w, {"realloc", "assign", "load", "store", "ins", "size"}) => ns[w] = size + 1
    /\ At(w, {"store"}) => tmp[w] = size
    /\ At(w, {"size"}) => s[w].o = size /\ Current[size + 1] = [k |-> key[w], a |-> None]
    /\ At(w, {"use"}) => s[w].o < size /\ Current[s[w].o + 1].k = key[w]

LoneInv(w) == TableTypes /\ BlockInv(w) /\ EntriesInv(w) /\ LookupInv(w) /\ ~bad

(* Without a race there is one writer at most, and it is alone; to every   *)
(* worker but those beside a writer the table is as if it had it alone.    *)
Undisturbed(w) == \A v \in Worker : v # w => ~Writes(v)

TableInv ==
    \/ raced
    \/ /\ TableTypes /\ ~bad /\ ~Racing
       /\ \A w \in Worker : ResultInv(w) /\ (Undisturbed(w) => LoneInv(w))
=============================================================================
