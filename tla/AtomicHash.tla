----------------------------- MODULE AtomicHash -----------------------------
(***************************************************************************)
(* The lock-free hash table of src/lib/atomic_hash/src/atomic_hash.c.      *)
(* Threads add, get and delete keys at the same time.  A key has a few     *)
(* seats, words that hold the index of a node or NNULL, and falls back on  *)
(* the seats of a small collision array.  A node is held by exchanging the *)
(* first word x of its hash value for 0, and released by putting it back;  *)
(* its second word y is 0 once it has been wiped.  While a node is on the  *)
(* free list, x holds the index of the next one.                           *)
(*                                                                         *)
(* A step is one access to shared memory, where the two words of a hash    *)
(* value, and they with the expiry in valid_ttl, count as one; nodes have  *)
(* the indices 0 .. Nodes - 1, and the link to node 0 is the word 0, as in *)
(* the code.                                                               *)
(***************************************************************************)
EXTENDS Integers, Sequences, FiniteSets

CONSTANTS
    Threads,
    Nodes,          \* bound: nodes of the memory pool
    Keys,           \* hash values y of the keys, positive
    Main(_),        \* the seats of a key in the two hash tables
    Extra,          \* the seats of the collision array, MINTAB of them
    Clients         \* what the program does, as records:
                    \* ops          the operations it calls, of "add", "get", "del"
                    \* hook_removes may the hook of get and add return PLEASE_REMOVE_HASH_NODE?
                    \* ttls         initial times to live, 0 for ever
                    \* calls, time  bounds: operations of a thread, and the clock

ASSUME AtomicAssumption ==
    /\ Nodes \in Nat \ {0}
    /\ Keys # {} /\ Keys \subseteq Nat \ {0}
    /\ \A k \in Keys : Main(k) \in Seq(Nat)
    /\ Extra \in Seq(Nat)
    /\ \A i, j \in 1 .. Len(Extra) : Extra[i] = Extra[j] => i = j
    /\ \A k \in Keys : \A i \in 1 .. Len(Main(k)), j \in 1 .. Len(Extra) : Main(k)[i] # Extra[j]
    /\ IsFiniteSet(Threads)
    /\ \A c \in Clients : /\ c.ops \subseteq {"add", "get", "del"} /\ c.hook_removes \in BOOLEAN
                          /\ c.ttls \subseteq Nat /\ c.calls \in Nat /\ c.time \in Nat

VARIABLES
    x, y, expire, data,     \* node_t, by index
    seat,                   \* the words of ht[0], ht[1] and ht[2]
    ncur,                   \* h->ht[NMHT].ncur
    freelist,               \* h->freelist: mi and rfn
    th,                     \* locals of each thread's call
    left,                   \* operations each thread may still start
    clock,
    client,
    stale                   \* history: a call came to hold a node that had left its seat

node == <<x, y, expire, data>>
atomicVars == <<x, y, expire, data, seat, ncur, freelist, th, left, clock, client, stale>>

NNULL == -1
Index == 0 .. Nodes - 1
\* The hash of a key: its first word; it differs from 0, NNULL and every link.
hx(k) == Nodes + k
\* collect_hash_pos and the collision array.
Path(k) == Main(k) \o Extra
InExtra(k, j) == j > Len(Main(k))
Seats == UNION {{Path(k)[j] : j \in 1 .. Len(Path(k))} : k \in Keys}

Idle == [pc |-> "idle", op |-> "none", k |-> 0, j |-> 1, mi |-> NNULL, ni |-> NNULL, cnt |-> 0,
         now |-> 0, vx |-> 0, vy |-> 0, ttl |-> 0, purpose |-> "op", then |-> "idle",
         n |-> [mi |-> NNULL, rfn |-> 0], link |-> 0]

AtomicInit ==
    /\ client \in Clients
    /\ x = [i \in Index |-> IF i = Nodes - 1 THEN NNULL ELSE i + 1]
    /\ y = [i \in Index |-> 0]
    /\ expire = [i \in Index |-> 0]
    /\ data = [i \in Index |-> 0]
    /\ seat = [s \in Seats |-> NNULL]
    /\ ncur = 0
    /\ freelist = [mi |-> 0, rfn |-> 0]
    /\ th = [t \in Threads |-> Idle]
    /\ left = [t \in Threads |-> client.calls]
    /\ clock = 0
    /\ stale = FALSE

At(t, pc) == th[t].pc = pc
\* Thread t goes on with its locals changed to l.
Go(t, l) == th' = [th EXCEPT ![t] = l]
\* The next seat of the first pass.
Next1(l) == [l EXCEPT !.pc = "scan", !.j = @ + 1]
Jump(l, to) == IF to = "next" THEN Next1(l) ELSE IF to = "idle" THEN Idle ELSE [l EXCEPT !.pc = to]

\* A call of atomic_hash_add, atomic_hash_get or atomic_hash_del; now = nowms().
Call(t, op, k, ttl) ==
    /\ At(t, "idle") /\ left[t] > 0
    /\ left' = [left EXCEPT ![t] = @ - 1]
    /\ Go(t, [Idle EXCEPT !.pc = "scan", !.op = op, !.k = k, !.now = clock,
                          !.ttl = IF op = "add" THEN ttl ELSE 0])
    /\ UNCHANGED <<node, seat, ncur, freelist, clock>>

(***************************************************************************)
(* The pass over the seats.  How far it goes into the collision array      *)
(* depends on ncur: add takes it once and counts down the nodes it meets,  *)
(* get compares the nodes it has met with it each time, del tests it once. *)
(***************************************************************************)
Scan(t) ==
    LET l == th[t]
        extra == InExtra(l.k, l.j)
        entering == l.j = Len(Main(l.k)) + 1
        cnt == IF l.op = "add" /\ entering THEN ncur ELSE l.cnt
        stop == \/ l.j > Len(Path(l.k))
                \/ extra /\ l.op = "add" /\ cnt = 0
                \/ extra /\ l.op = "get" /\ cnt >= ncur
                \/ entering /\ l.op = "del" /\ ncur = 0
        mi == seat[Path(l.k)[l.j]]
        met == CASE ~extra -> cnt
                 [] l.op = "add" -> cnt - 1
                 [] l.op = "get" -> cnt + 1
                 [] l.op = "del" -> cnt
    IN  /\ At(t, "scan")
        /\ IF stop
           THEN Go(t, IF l.op = "add" THEN [l EXCEPT !.pc = "new", !.j = 1] ELSE Idle)
           ELSE IF mi = NNULL THEN Go(t, [Next1(l) EXCEPT !.cnt = cnt])
           ELSE Go(t, [l EXCEPT !.pc = "ttl", !.mi = mi, !.cnt = met])
        /\ UNCHANGED <<node, seat, ncur, freelist, left, clock>>

\* valid_ttl before it holds the node.
Expired(i, now) == expire[i] # 0 /\ expire[i] <= now
Ttl(t) ==
    LET l == th[t]
    IN  /\ At(t, "ttl")
        /\ Go(t, IF Expired(l.mi, l.now) /\ x[l.mi] # 0 /\ y[l.mi] # 0
                 THEN [l EXCEPT !.pc = "hold", !.purpose = "ttl", !.vx = x[l.mi], !.vy = y[l.mi]]
                 ELSE [l EXCEPT !.pc = "equal"])
        /\ UNCHANGED <<node, seat, ncur, freelist, left, clock>>

likely_equal(t) ==
    LET l == th[t]
    IN  /\ At(t, "equal")
        /\ Go(t, IF y[l.mi] = l.k
                 THEN [l EXCEPT !.pc = "hold", !.purpose = "op", !.vx = hx(l.k), !.vy = l.k]
                 ELSE Next1(l))
        /\ UNCHANGED <<node, seat, ncur, freelist, left, clock>>

(***************************************************************************)
(* hold_bucket_otherwise_return_0 and unhold_bucket.                       *)
(***************************************************************************)
Hold(t) ==
    LET l == th[t]
    IN  /\ At(t, "hold")
        /\ x' = IF x[l.mi] = l.vx THEN [x EXCEPT ![l.mi] = 0] ELSE x
        /\ Go(t, [l EXCEPT !.pc = IF x[l.mi] = l.vx THEN "held" ELSE "retry"])
        /\ UNCHANGED <<y, expire, data, seat, ncur, freelist, left, clock>>

\* The CAS failed: whatever x is now unless it is v.x again, this returns 0,
\* also when another thread holds the node.
Retry(t) ==
    LET l == th[t]
    IN  /\ At(t, "retry")
        /\ Go(t, IF x[l.mi] # l.vx THEN Next1(l) ELSE [l EXCEPT !.pc = "wait"])
        /\ UNCHANGED <<node, seat, ncur, freelist, left, clock>>

\* Wait for the release; give up when the node is wiped or after MAXSPIN.
Wait(t) ==
    LET l == th[t]
    IN  /\ At(t, "wait")
        /\ IF x[l.mi] # 0 THEN Go(t, [l EXCEPT !.pc = "hold"]) ELSE Go(t, Next1(l))
        /\ UNCHANGED <<node, seat, ncur, freelist, left, clock>>

Held(t) ==
    LET l == th[t]
    IN  /\ At(t, "held")
        /\ Go(t, IF y[l.mi] # l.vy \/ y[l.mi] = 0
                 THEN [l EXCEPT !.pc = "unhold", !.then = "next"]
                 ELSE [l EXCEPT !.pc = IF l.purpose = "ttl" THEN "reexpire"
                                       ELSE IF l.op = "del" THEN "take" ELSE "check"])
        /\ UNCHANGED <<node, seat, ncur, freelist, left, clock>>

Unhold(t) ==
    LET l == th[t]
    IN  /\ At(t, "unhold")
        /\ Go(t, IF y[l.mi] = 0 THEN Jump(l, l.then) ELSE [l EXCEPT !.pc = "unholdcas"])
        /\ UNCHANGED <<node, seat, ncur, freelist, left, clock>>

UnholdCas(t) ==
    LET l == th[t]
    IN  /\ At(t, "unholdcas")
        /\ x' = IF x[l.mi] = 0 THEN [x EXCEPT ![l.mi] = l.vx] ELSE x
        /\ Go(t, IF x[l.mi] = 0 THEN Jump(l, l.then) ELSE [l EXCEPT !.pc = "unhold"])
        /\ UNCHANGED <<y, expire, data, seat, ncur, freelist, left, clock>>

(***************************************************************************)
(* With the node held: valid_ttl, try_get, try_dup, try_del.               *)
(***************************************************************************)
Reexpire(t) ==
    LET l == th[t]
    IN  /\ At(t, "reexpire")
        /\ Go(t, IF Expired(l.mi, l.now) THEN [l EXCEPT !.pc = "take"]
                 ELSE [l EXCEPT !.pc = "unhold", !.then = "equal"])
        /\ UNCHANGED <<node, seat, ncur, freelist, left, clock>>

CheckSeat(t) ==
    LET l == th[t]
    IN  /\ At(t, "check")
        /\ Go(t, IF seat[Path(l.k)[l.j]] = l.mi THEN [l EXCEPT !.pc = "hook"]
                 ELSE [l EXCEPT !.pc = "unhold", !.then = "next"])
        /\ UNCHANGED <<node, seat, ncur, freelist, left, clock>>

\* if (p->expire > 0 && result > 0) p->expire = result + nowms ().
Prolonged(i) ==
    \/ UNCHANGED expire
    \/ \E d \in client.ttls \ {0} : expire[i] > 0 /\ expire' = [expire EXCEPT ![i] = clock + d]

\* The hook is given p->data; it may ask for removal or change the expiry.
Hook(t) ==
    LET l == th[t]
        done == IF l.op = "add" /\ l.ni # NNULL THEN "giveback" ELSE "idle"
    IN  /\ At(t, "hook")
        /\ \/ /\ Go(t, [l EXCEPT !.pc = "unhold", !.then = done])
              /\ Prolonged(l.mi)
           \/ client.hook_removes /\ Go(t, [l EXCEPT !.pc = "take"]) /\ UNCHANGED expire
        /\ UNCHANGED <<x, y, data, seat, ncur, freelist, left, clock>>

\* cas (seat, mi, NNULL); a removal that lost the seat gives up, except that of
\* try_get and try_dup, which wipes the node anyway.
Take(t) ==
    LET l == th[t]
        s == Path(l.k)[l.j]
        mine == seat[s] = l.mi
    IN  /\ At(t, "take")
        /\ seat' = IF mine THEN [seat EXCEPT ![s] = NNULL] ELSE seat
        /\ Go(t, IF mine /\ InExtra(l.k, l.j) THEN [l EXCEPT !.pc = "uncount"]
                 ELSE IF mine \/ (l.purpose = "op" /\ l.op # "del") THEN [l EXCEPT !.pc = "wipe"]
                 ELSE [l EXCEPT !.pc = "unhold", !.then = "next"])
        /\ UNCHANGED <<node, ncur, freelist, left, clock>>

\* atomic_sub1 (h->ht[idx].ncur), of which the model keeps the collision array's.
Uncount(t) ==
    /\ At(t, "uncount")
    /\ ncur' = ncur - 1
    /\ Go(t, [th[t] EXCEPT !.pc = "wipe"])
    /\ UNCHANGED <<node, seat, freelist, left, clock>>

WipeInto(i) ==
    /\ x' = [x EXCEPT ![i] = 0]
    /\ y' = [y EXCEPT ![i] = 0]
    /\ expire' = [expire EXCEPT ![i] = 0]
    /\ data' = [data EXCEPT ![i] = 0]

\* A node that add found expired is kept for the new key.
Wipe(t) ==
    LET l == th[t]
    IN  /\ At(t, "wipe")
        /\ WipeInto(l.mi)
        /\ Go(t, IF l.purpose = "ttl" /\ l.op = "add" /\ l.ni = NNULL
                 THEN [Next1(l) EXCEPT !.ni = l.mi]
                 ELSE [l EXCEPT !.pc = "free",
                                !.then = IF l.op = "del" \/ l.purpose = "ttl" THEN "next"
                                         ELSE IF l.op = "add" /\ l.ni # NNULL THEN "giveback"
                                         ELSE "idle"])
        /\ UNCHANGED <<seat, ncur, freelist, left, clock>>

(***************************************************************************)
(* free_node and new_node: a stack with a counter against reuse.           *)
(***************************************************************************)
\* hash_value_exists: the node kept for the new key goes back.
GiveBack(t) ==
    LET l == th[t]
    IN  /\ At(t, "giveback")
        /\ Go(t, [l EXCEPT !.pc = "free", !.mi = l.ni, !.then = "idle"])
        /\ UNCHANGED <<node, seat, ncur, freelist, left, clock>>

FreeUnlinked(t) ==
    LET l == th[t]
    IN  /\ At(t, "free")
        /\ Go(t, [l EXCEPT !.pc = "freecas", !.n = freelist])
        /\ UNCHANGED <<node, seat, ncur, freelist, left, clock>>
Free(t) ==
    LET l == th[t]
    IN  /\ At(t, "free")
        /\ x' = [x EXCEPT ![l.mi] = freelist.mi]
        /\ Go(t, [l EXCEPT !.pc = "freecas", !.n = freelist])
        /\ UNCHANGED <<y, expire, data, seat, ncur, freelist, left, clock>>

FreeCas(t) ==
    LET l == th[t]
    IN  /\ At(t, "freecas")
        /\ freelist' = IF freelist = l.n THEN [mi |-> l.mi, rfn |-> l.n.rfn + 1] ELSE freelist
        /\ Go(t, IF freelist = l.n THEN Jump(l, l.then) ELSE [l EXCEPT !.pc = "free"])
        /\ UNCHANGED <<node, seat, ncur, left, clock>>

\* The pool is exhausted when the list is empty: new_mem_block returns NULL.
New(t) ==
    LET l == th[t]
    IN  /\ At(t, "new")
        /\ Go(t, IF l.ni # NNULL THEN [l EXCEPT !.pc = "set"]
                 ELSE IF freelist.mi = NNULL THEN Idle
                 ELSE [l EXCEPT !.pc = "newlink", !.n = freelist])
        /\ UNCHANGED <<node, seat, ncur, freelist, left, clock>>

NewLink(t) ==
    LET l == th[t]
    IN  /\ At(t, "newlink")
        /\ Go(t, [l EXCEPT !.pc = "newcas", !.link = x[l.n.mi]])
        /\ UNCHANGED <<node, seat, ncur, freelist, left, clock>>

NewCas(t) ==
    LET l == th[t]
    IN  /\ At(t, "newcas")
        /\ freelist' = IF freelist = l.n THEN [mi |-> l.link, rfn |-> l.n.rfn + 1] ELSE freelist
        /\ Go(t, IF freelist = l.n THEN [l EXCEPT !.pc = "set", !.ni = l.n.mi]
                 ELSE [l EXCEPT !.pc = "new"])
        /\ UNCHANGED <<node, seat, ncur, left, clock>>

(***************************************************************************)
(* The second pass of add: set_hash_node, then try_add on empty seats.     *)
(***************************************************************************)
SetNode(t) ==
    LET l == th[t]
    IN  /\ At(t, "set")
        /\ x' = [x EXCEPT ![l.ni] = hx(l.k)]
        /\ y' = [y EXCEPT ![l.ni] = l.k]
        /\ Go(t, [l EXCEPT !.pc = "setdata"])
        /\ UNCHANGED <<expire, data, seat, ncur, freelist, left, clock>>

SetData(t) ==
    LET l == th[t]
    IN  /\ At(t, "setdata")
        /\ expire' = [expire EXCEPT ![l.ni] = IF l.ttl > 0 THEN l.ttl + l.now ELSE 0]
        /\ data' = [data EXCEPT ![l.ni] = l.k]
        /\ Go(t, [l EXCEPT !.pc = "addscan", !.j = 1])
        /\ UNCHANGED <<x, y, seat, ncur, freelist, left, clock>>

AddScan(t) ==
    LET l == th[t]
        full == l.j = Len(Main(l.k)) + 1 /\ ncur >= Len(Extra)
    IN  /\ At(t, "addscan")
        /\ Go(t, IF l.j > Len(Path(l.k)) \/ full THEN [l EXCEPT !.pc = "nosit"]
                 ELSE IF seat[Path(l.k)[l.j]] = NNULL THEN [l EXCEPT !.pc = "addx"]
                 ELSE [l EXCEPT !.j = @ + 1])
        /\ UNCHANGED <<node, seat, ncur, freelist, left, clock>>

\* try_add: x = p->v.x, which is taken to be the hash's ...
AddReadX(t) ==
    LET l == th[t]
    IN  /\ At(t, "addx")
        /\ Go(t, [l EXCEPT !.pc = "addhold", !.vx = x[l.ni]])
        /\ UNCHANGED <<node, seat, ncur, freelist, left, clock>>

\* ... p->v.x = 0 ...
AddHold(t) ==
    LET l == th[t]
    IN  /\ At(t, "addhold")
        /\ x' = [x EXCEPT ![l.ni] = 0]
        /\ Go(t, [l EXCEPT !.pc = "addcas"])
        /\ UNCHANGED <<y, expire, data, seat, ncur, freelist, left, clock>>

\* ... and the seat is taken, or p->v.x = x and the next seat is tried.
AddCas(t) ==
    LET l == th[t]
        s == Path(l.k)[l.j]
        won == seat[s] = NNULL
    IN  /\ At(t, "addcas")
        /\ seat' = IF won THEN [seat EXCEPT ![s] = l.ni] ELSE seat
        /\ x' = IF won THEN x ELSE [x EXCEPT ![l.ni] = l.vx]
        /\ Go(t, IF ~won THEN [l EXCEPT !.pc = "addscan", !.j = @ + 1]
                 ELSE [l EXCEPT !.pc = IF InExtra(l.k, l.j) THEN "addcount" ELSE "addhook"])
        /\ UNCHANGED <<y, expire, data, ncur, freelist, left, clock>>

\* atomic_add1 (h->ht[idx].ncur).
AddCount(t) ==
    /\ At(t, "addcount")
    /\ ncur' = ncur + 1
    /\ Go(t, [th[t] EXCEPT !.pc = "addhook"])
    /\ UNCHANGED <<node, seat, freelist, left, clock>>

\* on_add: keep the node (p->v.x = x) or remove it again.
AddHook(t) ==
    LET l == th[t]
    IN  /\ At(t, "addhook")
        /\ \/ /\ x' = [x EXCEPT ![l.ni] = l.vx]
              /\ Prolonged(l.ni)
              /\ Go(t, Idle)
           \/ /\ client.hook_removes
              /\ Go(t, [l EXCEPT !.pc = "take", !.mi = l.ni, !.ni = NNULL, !.purpose = "op"])
              /\ UNCHANGED <<x, expire>>
        /\ UNCHANGED <<y, data, seat, ncur, freelist, left, clock>>

\* No seat is left.
NoSit(t) ==
    LET l == th[t]
    IN  /\ At(t, "nosit")
        /\ WipeInto(l.ni)
        /\ Go(t, [l EXCEPT !.pc = "free", !.mi = l.ni, !.then = "idle"])
        /\ UNCHANGED <<seat, ncur, freelist, left, clock>>

Tick ==
    /\ clock < client.time
    /\ clock' = clock + 1
    /\ UNCHANGED <<node, seat, ncur, freelist, th, left>>

Step(t) ==
    \/ Scan(t) \/ Ttl(t) \/ likely_equal(t)
    \/ Hold(t) \/ Retry(t) \/ Wait(t) \/ Held(t) \/ Unhold(t) \/ UnholdCas(t)
    \/ Reexpire(t) \/ CheckSeat(t) \/ Hook(t) \/ Take(t) \/ Uncount(t) \/ Wipe(t) \/ GiveBack(t)
    \/ Free(t) \/ FreeCas(t) \/ New(t) \/ NewLink(t) \/ NewCas(t)
    \/ SetNode(t) \/ SetData(t) \/ AddScan(t) \/ AddReadX(t) \/ AddHold(t) \/ AddCas(t)
    \/ AddCount(t) \/ AddHook(t) \/ NoSit(t)

\* The ABA of the seats: between reading the seat and holding the node (Scan and
\* Hold) the node was removed and taken for a new key with the same hash.
StaleHold(t) == At(t, "hold") /\ th'[t].pc = "held" /\ seat[Path(th[t].k)[th[t].j]] # th[t].mi

AtomicNext ==
    /\ UNCHANGED client
    /\ \/ \E t \in Threads :
             \/ Step(t)
             \/ \E op \in client.ops, k \in Keys, ttl \in client.ttls : Call(t, op, k, ttl)
       \/ Tick
    /\ stale' = (stale \/ \E t \in Threads : StaleHold(t))

AtomicSpec == AtomicInit /\ [][AtomicNext]_atomicVars
-----------------------------------------------------------------------------
(***************************************************************************)
(* Properties                                                              *)
(***************************************************************************)
Quiet == \A t \in Threads : At(t, "idle")
InSeats == {seat[s] : s \in Seats} \ {NNULL}

\* The nodes met from the head of the free list on, and what is met after Nodes of them.
FreeWalk ==
    LET walk[k \in 0 .. Nodes] ==
            IF k = 0 THEN freelist.mi
            ELSE LET mi == walk[k - 1] IN IF mi \in Index THEN x[mi] ELSE NNULL
    IN  walk
FreeNodes == {FreeWalk[k] : k \in 0 .. Nodes} \ {NNULL}

\* The free list (new_node and free_node, atomic_hash.c:397) is a chain through the
\* pool that ends, and no node in a seat is on it: none is handed out twice.
FreeListSound == FreeWalk[Nodes] = NNULL /\ FreeNodes \subseteq Index /\ FreeNodes \cap InSeats = {}

\* A hook that is called for a key is given data of this key, though the node was
\* found before it was held (try_get, atomic_hash.c:447).
OwnData == \A t \in Threads : At(t, "hook") => data[th[t].mi] = th[t].k

\* Between calls every node is in a seat or on the free list: no removal, expiry
\* or failed add loses one (valid_ttl, atomic_hash.c:555, and the end of add).
NoNodeLost == Quiet => Index = InSeats \cup FreeNodes

\* Between calls ncur, which ends the passes over the collision array, counts its
\* used seats, though it is changed after the seat.
SeatsCounted == Quiet => ncur = Cardinality({j \in 1 .. Len(Extra) : seat[Extra[j]] # NNULL})

\* Between calls no node that is in a seat is held: a held node is found by nobody
\* (unhold_bucket, atomic_hash.c:61, and try_add).
NoneStaysHeld == Quiet => \A i \in InSeats : x[i] = hx(y[i])

\* atomic_hash.c:377-760, with adds, gets, deletions and expiries in any interleaving:
\* no node is free and in a seat at once, a callback gets the data of the key it was
\* called for, and once no call runs every node is in a seat or free, none is still
\* held and the count is right; all this until a call holds a node that was removed
\* and taken for the same hash since the call read the seat.  The compare-and-swap of
\* hold_bucket_otherwise_return_0 (atomic_hash.c:62) does not see that, and the add
\* under way and the call then both write the node.
NodesSound == stale \/ (FreeListSound /\ OwnData /\ NoNodeLost /\ SeatsCounted /\ NoneStaysHeld)
=============================================================================
