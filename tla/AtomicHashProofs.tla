-------------------------- MODULE AtomicHashProofs --------------------------
(***************************************************************************)
(* The nodes of an atomic hash are sound for any number of threads, nodes, *)
(* keys and seats, whatever the calls are and however they interleave,     *)
(* until a call holds a node that has left its seat.                       *)
(***************************************************************************)
EXTENDS AtomicHash, TLAPS, FiniteSetTheorems, WellFoundedInduction

Pos == Nat \ {0}
Link == Index \cup {NNULL}
ListHead == [mi : Link, rfn : Nat]
Ops == {"add", "get", "del"}

Found == {"ttl", "equal"}
Wanted == {"hold", "retry", "wait"}
Holding == {"held", "reexpire", "check", "hook", "unhold", "unholdcas"}
Clearing == {"uncount", "wipe"}
Freeing == {"free", "freecas"}
Popping == {"newlink", "newcas"}
Building == {"set", "setdata", "addscan", "addx", "addhold", "addcas", "nosit"}
Placed == {"addcount", "addhook"}
Pcs == {"idle", "scan", "take", "giveback", "new"} \cup Found \cup Wanted \cup Holding \cup Clearing
         \cup Freeing \cup Popping \cup Building \cup Placed

Locals == [pc : Pcs, op : Ops \cup {"none"}, k : Nat, j : Pos, mi : Link, ni : Link,
           cnt : Int, now : Nat, vx : Int, vy : Int, ttl : Nat, purpose : {"op", "ttl"},
           then : {"idle", "next", "equal", "giveback"}, n : ListHead, link : Int]

\* The nodes only this call knows of, and the node in a seat that it holds.
Kept(l) == IF l.pc \in Placed THEN {} ELSE {l.ni} \ {NNULL}
Dropped(l) == IF l.pc \in Clearing \cup Freeing THEN {l.mi} ELSE {}
Owned(l) == Kept(l) \cup Dropped(l)
Holds(l) == IF l.pc \in Holding \cup {"take"} THEN {l.mi} ELSE IF l.pc \in Placed THEN {l.ni} ELSE {}

AtomicTypeOK ==
    /\ x \in [Index -> Int] /\ y \in [Index -> Nat] /\ data \in [Index -> Nat] /\ expire \in [Index -> Nat]
    /\ seat \in [Seats -> Link]
    /\ ncur \in Nat /\ clock \in Nat
    /\ freelist \in ListHead
    /\ th \in [Threads -> Locals]
    /\ client \in Clients

\* The part of a head of the free list that was read earlier.
Read(n) == n.rfn <= freelist.rfn /\ (n.rfn = freelist.rfn => n = freelist)

InPass(l) == l.j <= Len(Path(l.k))
Seat(l) == Path(l.k)[l.j]

\* What is true of the locals of a call ...
LocalsOK(l) ==
    /\ l.pc # "idle" => l.k \in Keys /\ l.op \in Ops
    /\ l.pc = "idle" => l.ni = NNULL
    /\ l.ni # NNULL => l.op = "add"
    /\ l.pc \in Found \cup Wanted \cup Holding \cup {"take"} => l.mi \in Index /\ InPass(l)
    /\ l.pc \in Wanted \cup Holding => l.vy \in Keys /\ l.vx = hx(l.vy) /\ (l.purpose = "op" => l.vy = l.k)
    /\ l.pc \in {"check", "hook"} => l.purpose = "op"
    /\ l.pc \in {"unhold", "unholdcas"} =>
         (l.then = "idle" => l.ni = NNULL) /\ (l.then = "giveback" => l.ni # NNULL)
    /\ l.pc \in Clearing => l.mi \in Index /\ l.ni # l.mi
    /\ l.pc \in Freeing => /\ l.mi \in Index /\ l.then # "equal"
                           /\ l.then = "idle" => l.ni \in {NNULL, l.mi}
                           /\ l.then # "idle" => l.ni # l.mi
                           /\ l.then = "giveback" => l.ni # NNULL
    /\ l.pc \in {"giveback"} \cup Building \cup Placed => l.ni # NNULL
    /\ l.pc \in {"new"} \cup Popping => l.op = "add"
    /\ l.pc \in Popping => l.ni = NNULL /\ l.n.mi \in Index
    /\ l.pc \in {"addx", "addhold", "addcas"} \cup Placed => InPass(l)
    /\ l.pc \in {"addhold", "addcas"} \cup Placed => l.vx = hx(l.k)
    /\ l.pc = "addcount" => InExtra(l.k, l.j)

\* ... and of the nodes and the seat that it knows of.
KnownOK(l) ==
    /\ l.pc \in Holding => y[l.mi] = l.vy
    /\ l.pc \in Holding \cup {"take"} => x[l.mi] = 0 /\ seat[Seat(l)] = l.mi
    /\ l.pc \notin Building \cup Placed /\ l.ni # NNULL => y[l.ni] = 0
    /\ l.pc \in Freeing => y[l.mi] = 0
    /\ l.pc = "freecas" => x[l.mi] = l.n.mi
    /\ l.pc \in Building \ {"set", "addcas"} => x[l.ni] = hx(l.k)
    /\ l.pc \in (Building \ {"set"}) \cup Placed => y[l.ni] = l.k
    /\ l.pc \in (Building \ {"set", "setdata"}) \cup Placed => data[l.ni] = l.k
    /\ l.pc \in {"addcas"} \cup Placed => x[l.ni] = 0
    /\ l.pc \in Placed => seat[Seat(l)] = l.ni

HeadOK(l) ==
    /\ l.pc \in Popping \cup {"freecas"} => Read(l.n)
    /\ l.pc = "newcas" => (freelist = l.n => l.link = x[l.n.mi])

CallOK(l) == LocalsOK(l) /\ KnownOK(l) /\ HeadOK(l)
CallsOK == \A t \in Threads : CallOK(th[t])
Apart ==
    \A t, u \in Threads : t # u => /\ Owned(th[t]) \cap Owned(th[u]) = {}
                                   /\ Holds(th[t]) \cap Holds(th[u]) = {}
OwnedUnseated == \A t \in Threads : Owned(th[t]) \cap InSeats = {}
OneSeatEach == \A r, s \in Seats : seat[r] = seat[s] /\ seat[r] # NNULL => r = s
NodesOK == \A i \in Index : y[i] # 0 => y[i] \in Keys /\ x[i] \in {0, hx(y[i])}
SeatedOK ==
    \A i \in InSeats : /\ y[i] \in Keys /\ data[i] = y[i]
                       /\ x[i] = 0 => \E t \in Threads : i \in Holds(th[t])

\* ncur counts the seats of the collision array whose node has been counted, and the
\* removals that have yet to count down.
Adding(i) == \E t \in Threads : At(t, "addcount") /\ th[t].ni = i
Settled == {e \in 1 .. Len(Extra) : seat[Extra[e]] # NNULL /\ ~Adding(seat[Extra[e]])}
Leaving == {t \in Threads : At(t, "uncount")}
CountOK == ncur = Cardinality(Settled) + Cardinality(Leaving)

\* The free list, its head last.
IsChain(c, n) ==
    /\ n \in Nat /\ c \in [1 .. n -> Index]
    /\ \A i, j \in 1 .. n : c[i] = c[j] => i = j
    /\ freelist.mi = IF n = 0 THEN NNULL ELSE c[n]
    /\ \A i \in 1 .. n : x[c[i]] = IF i = 1 THEN NNULL ELSE c[i - 1]
Listed(c, n) == {c[i] : i \in 1 .. n}
AllKept(c, n) ==
    /\ Listed(c, n) \cap InSeats = {}
    /\ \A t \in Threads : Listed(c, n) \cap Owned(th[t]) = {}
    /\ \A i \in Index : i \in Listed(c, n) \/ i \in InSeats \/ \E t \in Threads : i \in Owned(th[t])
Pool == \E n \in Nat : \E c \in [1 .. n -> Index] : IsChain(c, n) /\ AllKept(c, n)

AtomicInv ==
    /\ AtomicTypeOK /\ CallsOK /\ Apart /\ OwnedUnseated /\ OneSeatEach /\ NodesOK /\ SeatedOK
    /\ Pool /\ CountOK
-----------------------------------------------------------------------------
(* The seats.                                                              *)

LEMMA SeatOfPath ==
  ASSUME NEW k \in Keys, NEW j \in Nat \ {0}, j <= Len(Path(k))
  PROVE  /\ Len(Main(k)) \in Nat /\ Len(Extra) \in Nat
         /\ Path(k)[j] \in Seats
         /\ IF InExtra(k, j) THEN /\ j - Len(Main(k)) \in 1 .. Len(Extra)
                                  /\ Path(k)[j] = Extra[j - Len(Main(k))]
            ELSE \A i \in 1 .. Len(Extra) : Path(k)[j] # Extra[i]
<1>1. Main(k) \in Seq(Nat) /\ Extra \in Seq(Nat)
  BY AtomicAssumption
<1>2. Len(Main(k)) \in Nat /\ Len(Extra) \in Nat /\ Len(Path(k)) = Len(Main(k)) + Len(Extra)
  BY <1>1 DEF Path
<1>3. j \in 1 .. Len(Path(k))
  BY <1>2
<1>4. Path(k)[j] \in Seats
  BY <1>3 DEF Seats
<1>5. Path(k)[j] = IF j <= Len(Main(k)) THEN Main(k)[j] ELSE Extra[j - Len(Main(k))]
  BY <1>1, <1>2, <1>3 DEF Path
<1>6. CASE InExtra(k, j)
  <2>1. j - Len(Main(k)) \in 1 .. Len(Extra) /\ ~(j <= Len(Main(k)))
    BY <1>2, <1>3, <1>6 DEF InExtra
  <2> QED
    BY <2>1, <1>2, <1>4, <1>5, <1>6
<1>7. CASE ~InExtra(k, j)
  <2>1. j \in 1 .. Len(Main(k))
    BY <1>2, <1>3, <1>7 DEF InExtra
  <2>2. \A i \in 1 .. Len(Extra) : Main(k)[j] # Extra[i]
    BY <2>1, AtomicAssumption
  <2> QED
    BY <2>1, <2>2, <1>2, <1>4, <1>5, <1>7
<1> QED
  BY <1>6, <1>7

LEMMA SeatOfExtra ==
  /\ Len(Extra) \in Nat
  /\ \A i \in 1 .. Len(Extra) : Extra[i] \in Seats
<1>1. PICK k \in Keys : TRUE
  BY AtomicAssumption
<1>2. Main(k) \in Seq(Nat) /\ Extra \in Seq(Nat)
  BY AtomicAssumption
<1>3. Len(Main(k)) \in Nat /\ Len(Extra) \in Nat /\ Len(Path(k)) = Len(Main(k)) + Len(Extra)
  BY <1>2 DEF Path
<1>4. ASSUME NEW i \in 1 .. Len(Extra) PROVE Extra[i] \in Seats
  <2>1. Len(Main(k)) + i \in 1 .. Len(Path(k)) /\ Path(k)[Len(Main(k)) + i] = Extra[i]
    BY <1>2, <1>3 DEF Path
  <2> QED
    BY <2>1, <1>1 DEF Seats
<1> QED
  BY <1>3, <1>4

LEMMA HashOK == \A k \in Keys : hx(k) \in Int /\ hx(k) # 0 /\ k \in Nat /\ k # 0
<1>1. Nodes \in Nat /\ Keys \subseteq Nat \ {0}
  BY AtomicAssumption
<1> QED
  BY <1>1 DEF hx

LEMMA HashesDiffer == \A k, h \in Keys : hx(k) = hx(h) => k = h
<1>1. Nodes \in Nat /\ Keys \subseteq Nat \ {0}
  BY AtomicAssumption
<1> QED
  BY <1>1 DEF hx

LEMMA NoIndex == NNULL \notin Index /\ NNULL \in Link /\ Index \subseteq Link /\ Link \ {NNULL} = Index
<1>1. Nodes \in Nat
  BY AtomicAssumption
<1>2. NNULL \notin Index
  BY <1>1 DEF Index, NNULL
<1> QED
  BY <1>2 DEF Link

-----------------------------------------------------------------------------
(* What the invariant says of one call, its nodes and the free list.       *)

LEMMA OfCall ==
  ASSUME AtomicInv, NEW t \in Threads
  PROVE  /\ th[t] \in Locals /\ CallOK(th[t]) /\ clock \in Nat /\ ncur \in Nat
         /\ x \in [Index -> Int] /\ y \in [Index -> Nat] /\ data \in [Index -> Nat]
         /\ expire \in [Index -> Nat] /\ seat \in [Seats -> Link] /\ freelist \in ListHead
         /\ client \in Clients
BY DEF AtomicInv, AtomicTypeOK, CallsOK

LEMMA SeatsOK ==
  ASSUME AtomicInv
  PROVE  /\ InSeats \subseteq Index
         /\ \A i \in InSeats : y[i] \in Keys /\ y[i] # 0 /\ data[i] = y[i] /\ (x[i] = hx(y[i]) \/ x[i] = 0)
<1>1. seat \in [Seats -> Link] /\ SeatedOK /\ NodesOK
  BY DEF AtomicInv, AtomicTypeOK
<1>2. InSeats \subseteq Index
  BY <1>1 DEF InSeats, Link
<1>3. \A i \in InSeats : y[i] \in Keys /\ y[i] # 0 /\ data[i] = y[i]
  BY <1>1, HashOK DEF SeatedOK
<1> QED
  BY <1>1, <1>2, <1>3 DEF NodesOK

(* The seat a call is at. *)
LEMMA SeatOfCall ==
  ASSUME NEW l \in Locals, l.k \in Keys, InPass(l)
  PROVE  Seat(l) \in Seats /\ l.j \in Nat \ {0} /\ l.j <= Len(Path(l.k))
<1>1. l.j \in Nat \ {0} /\ l.j <= Len(Path(l.k))
  BY DEF Locals, Pos, InPass
<1> QED
  BY <1>1, SeatOfPath DEF Seat

LEMMA NotIdle ==
  ASSUME NEW l \in Locals, LocalsOK(l),
         l.pc \in Found \cup Wanted \cup Holding \cup {"take"} \cup Placed \cup Clearing \cup Freeing
                    \cup Popping \cup Building \cup {"scan", "new", "giveback"}
  PROVE  l.k \in Keys /\ l.op \in Ops
<1>1. l.pc # "idle"
  BY DEF Found, Wanted, Holding, Placed, Clearing, Freeing, Popping, Building
<1> QED
  BY <1>1 DEF LocalsOK

LEMMA OwnedIndex ==
  ASSUME AtomicInv, NEW t \in Threads
  PROVE  /\ Owned(th[t]) \subseteq Index /\ Holds(th[t]) \subseteq InSeats
         /\ \A i \in Holds(th[t]) : x[i] = 0
<1>0. PICK l : l = th[t]
  OBVIOUS
<1>1. l \in Locals /\ LocalsOK(l) /\ KnownOK(l) /\ seat \in [Seats -> Link]
  BY <1>0, OfCall DEF CallOK
<1>2. Owned(l) \subseteq Index
  <2>1. l.mi \in Link /\ l.ni \in Link
    BY <1>1 DEF Locals
  <2>2. l.pc \in Clearing \cup Freeing => l.mi \in Index
    BY <1>1 DEF LocalsOK
  <2> QED
    BY <2>1, <2>2, NoIndex DEF Owned, Kept, Dropped
<1>3. CASE l.pc \in Holding \cup {"take"}
  <2>1. l.mi \in Index /\ InPass(l) /\ l.k \in Keys
    BY <1>1, <1>3, NotIdle DEF LocalsOK
  <2>2. x[l.mi] = 0 /\ seat[Seat(l)] = l.mi
    BY <1>1, <1>3 DEF KnownOK
  <2>3. Seat(l) \in Seats
    BY <2>1, <1>1, SeatOfCall
  <2>4. l.mi \in InSeats
    BY <2>1, <2>2, <2>3, NoIndex DEF InSeats
  <2> QED
    BY <2>2, <2>4, <1>0, <1>2, <1>3 DEF Holds
<1>4. CASE l.pc \in Placed
  <2>1. l.ni \in Index /\ InPass(l) /\ l.k \in Keys
    BY <1>1, <1>4, NotIdle, NoIndex DEF LocalsOK, Locals
  <2>2. x[l.ni] = 0 /\ seat[Seat(l)] = l.ni
    BY <1>1, <1>4 DEF KnownOK
  <2>3. Seat(l) \in Seats
    BY <2>1, <1>1, SeatOfCall
  <2>4. l.ni \in InSeats
    BY <2>1, <2>2, <2>3, NoIndex DEF InSeats
  <2>5. l.pc \notin Holding \cup {"take"}
    BY <1>4 DEF Placed, Holding
  <2> QED
    BY <2>2, <2>4, <2>5, <1>0, <1>2, <1>4 DEF Holds
<1>5. CASE l.pc \notin Holding \cup {"take"} \cup Placed
  BY <1>0, <1>2, <1>5 DEF Holds
<1> QED
  BY <1>3, <1>4, <1>5

(* The head of the free list is nobody's node. *)
LEMMA HeadFree ==
  ASSUME AtomicInv
  PROVE  freelist.mi \notin InSeats /\ \A t \in Threads : freelist.mi \notin Owned(th[t])
<1>1. PICK n \in Nat : \E c \in [1 .. n -> Index] : IsChain(c, n) /\ AllKept(c, n)
  BY DEF AtomicInv, Pool
<1>2. PICK c \in [1 .. n -> Index] : IsChain(c, n) /\ AllKept(c, n)
  BY <1>1
<1>3. NNULL \notin InSeats /\ NNULL \notin Index
  BY NoIndex DEF InSeats
<1>4. CASE n = 0
  <2>1. freelist.mi = NNULL
    BY <1>2, <1>4 DEF IsChain
  <2>2. \A t \in Threads : Owned(th[t]) \subseteq Index
    BY OwnedIndex
  <2> QED
    BY <2>1, <2>2, <1>3
<1>5. CASE n # 0
  <2>1. freelist.mi \in Listed(c, n)
    BY <1>2, <1>5 DEF IsChain, Listed
  <2> QED
    BY <2>1, <1>2 DEF AllKept
<1> QED
  BY <1>4, <1>5

-----------------------------------------------------------------------------
(* A step of t that writes the node w, which no other call owns or holds,  *)
(* the seats or the head of the free list.                                 *)
Write(t, m, w) ==
    /\ m \in Locals /\ th' = [th EXCEPT ![t] = m]
    /\ x' \in [Index -> Int] /\ y' \in [Index -> Nat] /\ data' \in [Index -> Nat]
    /\ expire' \in [Index -> Nat] /\ seat' \in [Seats -> Link] /\ ncur' \in Nat
    /\ clock' \in Nat /\ freelist' \in ListHead /\ UNCHANGED client
    /\ \A i \in Index \ {w} : x'[i] = x[i] /\ y'[i] = y[i] /\ data'[i] = data[i]
Frame(t, w) ==
    /\ \A u \in Threads \ {t} : w \notin Owned(th[u]) /\ w \notin Holds(th[u])
    /\ \A s \in Seats : seat[s] \in Index \ {w} => seat'[s] = seat[s]
    /\ \/ freelist' = freelist /\ w # freelist.mi
       \/ freelist'.rfn > freelist.rfn

LEMMA WriteType ==
  ASSUME AtomicInv, NEW t \in Threads, NEW m, NEW w, Write(t, m, w)
  PROVE  AtomicTypeOK' /\ th'[t] = m /\ \A u \in Threads \ {t} : th'[u] = th[u]
<1>1. th \in [Threads -> Locals] /\ client \in Clients
  BY DEF AtomicInv, AtomicTypeOK
<1>2. th' \in [Threads -> Locals] /\ th'[t] = m /\ \A u \in Threads \ {t} : th'[u] = th[u]
  BY <1>1 DEF Write
<1> QED
  BY <1>1, <1>2 DEF AtomicTypeOK, Write

(* What the other calls rely on stays: the counter of the free list tells a head that *)
(* was read from the same node at the head again.                                     *)
LEMMA OthersKept ==
  ASSUME AtomicInv, NEW t \in Threads, NEW m, NEW w, Write(t, m, w), Frame(t, w),
         NEW u \in Threads \ {t}
  PROVE  CallOK(th[u])'
<1>1. PICK l : l = th[u]
  OBVIOUS
<1>2. th'[u] = l /\ w \notin Owned(l) /\ w \notin Holds(l)
  BY <1>1, WriteType DEF Frame
<1>3. l \in Locals /\ LocalsOK(l) /\ KnownOK(l) /\ HeadOK(l) /\ freelist \in ListHead
  BY <1>1, OfCall DEF CallOK
<1>4. \A i \in Index \ {w} : x'[i] = x[i] /\ y'[i] = y[i] /\ data'[i] = data[i]
  BY DEF Write
<1>5. Owned(l) \subseteq Index /\ Holds(l) \subseteq Index
  BY <1>1, OwnedIndex, SeatsOK
<1>6. \A i \in Owned(l) \cup Holds(l) : x'[i] = x[i] /\ y'[i] = y[i] /\ data'[i] = data[i]
  BY <1>2, <1>4, <1>5
<1>7. LocalsOK(l)'
  BY <1>3 DEF LocalsOK, InPass, hx
<1>8. l.pc \in Holding \cup {"take"} \cup Placed =>
        Seat(l) \in Seats /\ (seat[Seat(l)] \in Index \ {w} => seat'[Seat(l)] = seat[Seat(l)])
  <2> SUFFICES ASSUME l.pc \in Holding \cup {"take"} \cup Placed
               PROVE  Seat(l) \in Seats
    BY DEF Frame
  <2>1. l.k \in Keys /\ InPass(l)
    BY <1>3, NotIdle DEF LocalsOK
  <2> QED
    BY <2>1, <1>3, SeatOfCall
<1>9. KnownOK(l)'
  <2>1. /\ l.pc \in Holding => y'[l.mi] = l.vy
        /\ l.pc \in Holding \cup {"take"} => x'[l.mi] = 0 /\ seat'[Seat(l)] = l.mi
    <3> SUFFICES ASSUME l.pc \in Holding \cup {"take"}
                 PROVE  (l.pc \in Holding => y'[l.mi] = l.vy) /\ x'[l.mi] = 0 /\ seat'[Seat(l)] = l.mi
      OBVIOUS
    <3>1. l.mi \in Holds(l)
      BY DEF Holds
    <3>2. l.mi \in Index \ {w}
      BY <3>1, <1>2, <1>5
    <3>3. x[l.mi] = 0 /\ seat[Seat(l)] = l.mi /\ (l.pc \in Holding => y[l.mi] = l.vy)
      BY <1>3 DEF KnownOK
    <3> QED
      BY <3>2, <3>3, <1>4, <1>8
  <2>2. l.pc \notin Building \cup Placed /\ l.ni # NNULL => y'[l.ni] = 0
    <3> SUFFICES ASSUME l.pc \notin Building \cup Placed, l.ni # NNULL PROVE y'[l.ni] = 0
      OBVIOUS
    <3>1. l.ni \in Owned(l)
      BY DEF Owned, Kept
    <3> QED
      BY <3>1, <1>3, <1>6 DEF KnownOK
  <2>3. l.pc \in Freeing => y'[l.mi] = 0 /\ (l.pc = "freecas" => x'[l.mi] = l.n.mi)
    <3> SUFFICES ASSUME l.pc \in Freeing PROVE y'[l.mi] = 0 /\ (l.pc = "freecas" => x'[l.mi] = l.n.mi)
      OBVIOUS
    <3>1. l.mi \in Owned(l)
      BY DEF Owned, Dropped
    <3> QED
      BY <3>1, <1>3, <1>6 DEF KnownOK
  <2>4. l.pc \in Building \cup Placed => l.ni \in Owned(l) \cup Holds(l) /\ l.ni # NNULL
    <3>1. l.pc \in Building \cup Placed => l.ni # NNULL
      BY <1>3 DEF LocalsOK
    <3>2. l.pc \in Placed => l.pc \notin Holding \cup {"take"}
      BY DEF Placed, Holding
    <3>3. l.pc \in Building => l.pc \notin Placed
      BY DEF Placed, Building
    <3> QED
      BY <3>1, <3>2, <3>3 DEF Owned, Kept, Holds
  <2>5. /\ l.pc \in Building \ {"set", "addcas"} => x'[l.ni] = hx(l.k)
        /\ l.pc \in (Building \ {"set"}) \cup Placed => y'[l.ni] = l.k
        /\ l.pc \in (Building \ {"set", "setdata"}) \cup Placed => data'[l.ni] = l.k
        /\ l.pc \in {"addcas"} \cup Placed => x'[l.ni] = 0
    <3>1. "addcas" \in Building
      BY DEF Building
    <3> SUFFICES ASSUME l.pc \in Building \cup Placed
                 PROVE  /\ l.pc \in Building \ {"set", "addcas"} => x'[l.ni] = hx(l.k)
                        /\ l.pc \in (Building \ {"set"}) \cup Placed => y'[l.ni] = l.k
                        /\ l.pc \in (Building \ {"set", "setdata"}) \cup Placed => data'[l.ni] = l.k
                        /\ l.pc \in {"addcas"} \cup Placed => x'[l.ni] = 0
      BY <3>1
    <3>2. x'[l.ni] = x[l.ni] /\ y'[l.ni] = y[l.ni] /\ data'[l.ni] = data[l.ni]
      BY <2>4, <1>6
    <3> QED
      BY <3>2, <1>3 DEF KnownOK
  <2>6. l.pc \in Placed => seat'[Seat(l)] = l.ni
    <3> SUFFICES ASSUME l.pc \in Placed PROVE seat'[Seat(l)] = l.ni
      OBVIOUS
    <3>1. seat[Seat(l)] = l.ni
      BY <1>3 DEF KnownOK
    <3>2. l.ni \in Index \ {w}
      BY <2>4, <1>2, <1>5
    <3> QED
      BY <3>1, <3>2, <1>8
  <2>7. l.pc = "freecas" => l.pc \in Freeing
    BY DEF Freeing
  <2> QED
    BY <2>1, <2>2, <2>3, <2>5, <2>6, <2>7 DEF KnownOK, Seat, hx
<1>10. HeadOK(l)'
  <2>1. l.n.rfn \in Nat /\ freelist.rfn \in Nat /\ freelist'.rfn \in Nat
    BY <1>3 DEF Locals, ListHead, Write
  <2>2. /\ Read(l.n) => Read(l.n)'
        /\ (freelist' = l.n /\ Read(l.n)) => freelist = l.n /\ w # freelist.mi
    BY <2>1 DEF Frame, Read
  <2>3. l.pc = "newcas" => l.pc \in Popping /\ l.n.mi \in Index
    BY <1>3 DEF LocalsOK, Popping
  <2>4. l.pc = "newcas" => (freelist' = l.n => l.link = x'[l.n.mi])
    BY <2>2, <2>3, <1>3, <1>4 DEF HeadOK
  <2> QED
    BY <2>2, <2>4, <1>3 DEF HeadOK
<1> QED
  BY <1>2, <1>7, <1>9, <1>10 DEF CallOK

LEMMA CallsKept ==
  ASSUME AtomicInv, NEW t \in Threads, NEW m, NEW w, Write(t, m, w), Frame(t, w), CallOK(m)'
  PROVE  CallsOK'
<1>1. th'[t] = m
  BY WriteType
<1>2. CallOK(th[t])'
  BY <1>1
<1> QED
  BY <1>2, OthersKept DEF CallsOK

(* The counts stay when the call of t is not about to change ncur. *)
NotCounting(l) == l.pc \notin {"addcount", "uncount"}
LEMMA SameCount ==
  ASSUME AtomicInv, NEW t \in Threads, NEW m, NEW w, Write(t, m, w),
         NotCounting(th[t]), NotCounting(m), UNCHANGED <<seat, ncur>>
  PROVE  CountOK'
<1>1. th'[t] = m /\ \A u \in Threads \ {t} : th'[u] = th[u]
  BY WriteType
<1>2. \A i : Adding(i)' <=> Adding(i)
  BY <1>1 DEF Adding, At, NotCounting
<1>3. Leaving' = Leaving
  BY <1>1 DEF Leaving, At, NotCounting
<1>4. Settled' = Settled
  BY <1>2 DEF Settled
<1> QED
  BY <1>3, <1>4 DEF AtomicInv, CountOK

(* The list and who has which node, when the nodes on the list are not written and    *)
(* every call keeps what it owns.                                                     *)
LEMMA PoolKept ==
  ASSUME AtomicInv, NEW t \in Threads, NEW w,
         w \in InSeats \/ w = NNULL \/ w \in Owned(th[t]),
         \A i \in Index \ {w} : x'[i] = x[i],
         \A u \in Threads : Owned(th'[u]) = Owned(th[u]),
         UNCHANGED <<seat, freelist>>
  PROVE  Pool'
<1>1. PICK n \in Nat : \E c \in [1 .. n -> Index] : IsChain(c, n) /\ AllKept(c, n)
  BY DEF AtomicInv, Pool
<1>2. PICK c \in [1 .. n -> Index] : IsChain(c, n) /\ AllKept(c, n)
  BY <1>1
<1>3. w \notin Listed(c, n)
  BY <1>2, NoIndex DEF AllKept, Listed
<1>4. \A i \in 1 .. n : x'[c[i]] = x[c[i]]
  BY <1>3 DEF Listed
<1>5. IsChain(c, n)'
  BY <1>2, <1>4 DEF IsChain
<1>6. InSeats' = InSeats
  BY DEF InSeats
<1>7. AllKept(c, n)'
  BY <1>2, <1>6 DEF AllKept
<1> QED
  BY <1>5, <1>7 DEF Pool

(* Steps that change the locals of one call, and perhaps an expiry or the count. *)
LEMMA CountStep ==
  ASSUME AtomicInv, UNCHANGED client, NEW t \in Threads, NEW m \in Locals,
         th' = [th EXCEPT ![t] = m],
         UNCHANGED <<x, y, data, seat, freelist>>, expire' \in [Index -> Nat], clock' \in Nat,
         LocalsOK(m), KnownOK(m), HeadOK(m), Owned(m) = Owned(th[t]), Holds(m) = Holds(th[t]),
         ncur' \in Nat, CountOK'
  PROVE  AtomicInv'
<1>0. AtomicTypeOK /\ Apart /\ OwnedUnseated /\ OneSeatEach /\ NodesOK /\ SeatedOK
  BY DEF AtomicInv
<1>1. Write(t, m, NNULL)
  BY <1>0 DEF Write, AtomicTypeOK
<1>2. AtomicTypeOK' /\ th'[t] = m /\ \A u \in Threads \ {t} : th'[u] = th[u]
  BY <1>1, WriteType
<1>3. \A u \in Threads : Owned(th'[u]) = Owned(th[u]) /\ Holds(th'[u]) = Holds(th[u])
  BY <1>2
<1>4. InSeats' = InSeats /\ NNULL \notin InSeats
  BY DEF InSeats
<1>5. CallsOK'
  <2>1. \A u \in Threads : Owned(th[u]) \subseteq Index /\ Holds(th[u]) \subseteq Index
    BY OwnedIndex, SeatsOK
  <2>2. -2 \notin Index /\ freelist.mi # -2
    BY <1>0, AtomicAssumption DEF AtomicTypeOK, ListHead, Link, Index, NNULL
  <2>3. Frame(t, -2)
    BY <2>1, <2>2 DEF Frame
  <2>4. Write(t, m, -2)
    BY <1>0 DEF Write, AtomicTypeOK
  <2>5. CallOK(m)'
    BY DEF CallOK, LocalsOK, KnownOK, HeadOK, Read, InPass, Seat, hx
  <2> QED
    BY <2>3, <2>4, <2>5, CallsKept
<1>6. Apart' /\ OwnedUnseated' /\ OneSeatEach' /\ NodesOK'
  BY <1>0, <1>3, <1>4 DEF Apart, OwnedUnseated, OneSeatEach, NodesOK, hx
<1>7. SeatedOK'
  BY <1>0, <1>3, <1>4 DEF SeatedOK
<1>8. Pool'
  BY <1>3, PoolKept
<1> QED
  BY <1>2, <1>5, <1>6, <1>7, <1>8 DEF AtomicInv

LEMMA LocalStep ==
  ASSUME AtomicInv, UNCHANGED client, NEW t \in Threads, NEW m \in Locals,
         th' = [th EXCEPT ![t] = m],
         UNCHANGED <<x, y, data, seat, ncur, freelist>>, expire' \in [Index -> Nat], clock' \in Nat,
         LocalsOK(m), KnownOK(m), HeadOK(m), Owned(m) = Owned(th[t]), Holds(m) = Holds(th[t]),
         NotCounting(th[t]), NotCounting(m)
  PROVE  AtomicInv'
<1>0. AtomicTypeOK
  BY DEF AtomicInv
<1>1. Write(t, m, NNULL)
  BY <1>0 DEF Write, AtomicTypeOK
<1>2. CountOK' /\ ncur' \in Nat
  BY <1>0, <1>1, SameCount DEF AtomicTypeOK
<1> QED
  BY <1>2, CountStep

(* A write to a node that the call of t owns. *)
LEMMA OwnedWrite ==
  ASSUME AtomicInv, NEW t \in Threads, NEW m, NEW w, Write(t, m, w), CallOK(m)',
         w \in Owned(th[t]), Owned(m) = Owned(th[t]), Holds(m) = Holds(th[t]),
         NotCounting(th[t]), NotCounting(m),
         y'[w] # 0 => y'[w] \in Keys /\ x'[w] \in {0, hx(y'[w])},
         UNCHANGED <<seat, ncur, freelist>>
  PROVE  AtomicInv'
<1>0. AtomicTypeOK /\ Apart /\ OwnedUnseated /\ OneSeatEach /\ NodesOK /\ SeatedOK
  BY DEF AtomicInv
<1>1. AtomicTypeOK' /\ th'[t] = m /\ \A u \in Threads \ {t} : th'[u] = th[u]
  BY WriteType
<1>2. InSeats' = InSeats /\ InSeats \subseteq Index
  BY SeatsOK DEF InSeats
<1>3. w \notin InSeats /\ w # freelist.mi
  BY <1>0, HeadFree DEF OwnedUnseated
<1>4. \A u \in Threads \ {t} : w \notin Owned(th[u]) /\ w \notin Holds(th[u])
  BY <1>0, <1>3, OwnedIndex DEF Apart
<1>5. Frame(t, w)
  BY <1>3, <1>4 DEF Frame
<1>6. CallsOK'
  BY <1>5, CallsKept
<1>7. \A u \in Threads : Owned(th'[u]) = Owned(th[u]) /\ Holds(th'[u]) = Holds(th[u])
  BY <1>1
<1>8. Apart' /\ OwnedUnseated' /\ OneSeatEach'
  BY <1>0, <1>2, <1>7 DEF Apart, OwnedUnseated, OneSeatEach
<1>9. \A i \in Index \ {w} : x'[i] = x[i] /\ y'[i] = y[i] /\ data'[i] = data[i]
  BY DEF Write
<1>10. NodesOK'
  BY <1>0, <1>9 DEF NodesOK, hx
<1>11. SeatedOK'
  BY <1>0, <1>2, <1>3, <1>7, <1>9 DEF SeatedOK
<1>12. Pool'
  BY <1>7, <1>9, PoolKept
<1>13. CountOK'
  BY SameCount
<1> QED
  BY <1>1, <1>6, <1>8, <1>10, <1>11, <1>12, <1>13 DEF AtomicInv

(* The call of t takes or gives up the hold of a node in a seat. *)
LEMMA HeldWrite ==
  ASSUME AtomicInv, NEW t \in Threads, NEW m, NEW w \in InSeats, Write(t, m, w), CallOK(m)',
         Owned(m) = Owned(th[t]), NotCounting(th[t]), NotCounting(m),
         \/ x[w] # 0 /\ x'[w] = 0 /\ Holds(th[t]) = {} /\ Holds(m) = {w}
         \/ x'[w] = hx(y[w]) /\ Holds(th[t]) = {w} /\ Holds(m) = {},
         UNCHANGED <<y, data, seat, ncur, freelist>>
  PROVE  AtomicInv'
<1>0. AtomicTypeOK /\ Apart /\ OwnedUnseated /\ OneSeatEach /\ NodesOK /\ SeatedOK
  BY DEF AtomicInv
<1>1. AtomicTypeOK' /\ th'[t] = m /\ \A u \in Threads \ {t} : th'[u] = th[u]
  BY WriteType
<1>2. InSeats' = InSeats /\ InSeats \subseteq Index
  BY SeatsOK DEF InSeats
<1>3. w # freelist.mi
  BY HeadFree
<1>4. \A u \in Threads \ {t} : w \notin Owned(th[u])
  BY <1>0 DEF OwnedUnseated
<1>5. \A u \in Threads \ {t} : w \notin Holds(th[u])
  <2>1. CASE x[w] # 0
    BY <2>1, OwnedIndex
  <2>2. CASE Holds(th[t]) = {w}
    BY <2>2, <1>0 DEF Apart
  <2> QED
    BY <2>1, <2>2
<1>6. Frame(t, w)
  BY <1>3, <1>4, <1>5 DEF Frame
<1>7. CallsOK'
  BY <1>6, CallsKept
<1>8. \A u \in Threads : Owned(th'[u]) = Owned(th[u]) /\ (u # t => Holds(th'[u]) = Holds(th[u]))
  BY <1>1
<1>9. Holds(th'[t]) = Holds(m) /\ Holds(m) \subseteq {w}
  BY <1>1
<1>10. Apart' /\ OwnedUnseated' /\ OneSeatEach'
  BY <1>0, <1>2, <1>5, <1>8, <1>9 DEF Apart, OwnedUnseated, OneSeatEach
<1>11. \A i \in Index \ {w} : x'[i] = x[i]
  BY DEF Write
<1>12. NodesOK'
  <2>1. y[w] \in Keys /\ x'[w] \in {0, hx(y[w])}
    BY <1>0 DEF SeatedOK
  <2> QED
    BY <2>1, <1>0, <1>11 DEF NodesOK, hx
<1>13. SeatedOK'
  <2> SUFFICES ASSUME NEW i \in InSeats, x'[i] = 0 PROVE \E u \in Threads : i \in Holds(th'[u])
    BY <1>0, <1>2 DEF SeatedOK
  <2>1. CASE i = w
    <3>1. hx(y[w]) # 0
      BY <1>0, HashOK DEF SeatedOK
    <3> QED
      BY <2>1, <3>1, <1>1
  <2>2. CASE i # w
    <3>1. x'[i] = x[i]
      BY <2>2, <1>2, <1>11
    <3>2. PICK u \in Threads : i \in Holds(th[u])
      BY <3>1, <1>0 DEF SeatedOK
    <3>3. u # t
      BY <3>2, <2>2
    <3> QED
      BY <3>2, <3>3, <1>8
  <2> QED
    BY <2>1, <2>2
<1>14. Pool'
  BY <1>8, <1>11, PoolKept
<1>15. CountOK'
  BY SameCount
<1> QED
  BY <1>1, <1>7, <1>10, <1>12, <1>13, <1>14, <1>15 DEF AtomicInv

-----------------------------------------------------------------------------
(* Steps that write no shared memory.                                      *)

(* Two records of locals that differ in where the call is only. *)
Same(m, l) ==
    /\ m.op = l.op /\ m.k = l.k /\ m.j = l.j /\ m.mi = l.mi /\ m.ni = l.ni /\ m.now = l.now
    /\ m.vx = l.vx /\ m.vy = l.vy /\ m.ttl = l.ttl /\ m.purpose = l.purpose /\ m.n = l.n /\ m.link = l.link

LEMMA PcsOK ==
  /\ {"idle", "scan", "take", "giveback", "new"} \cup Found \cup Wanted \cup Holding \cup Clearing
       \cup Freeing \cup Popping \cup Building \cup Placed \subseteq Pcs
BY DEF Pcs

LEMMA PosOK == 1 \in Pos /\ \A j \in Pos : j + 1 \in Pos
BY DEF Pos

LEMMA SetPc ==
  ASSUME NEW l \in Locals, NEW p \in Pcs, NEW m, m = [l EXCEPT !.pc = p]
  PROVE  m \in Locals /\ m.pc = p /\ m.then = l.then /\ Same(m, l)
BY DEF Locals, Same

LEMMA IdleOK ==
  /\ Idle \in Locals /\ LocalsOK(Idle) /\ KnownOK(Idle) /\ HeadOK(Idle)
  /\ Owned(Idle) = {} /\ Holds(Idle) = {} /\ NotCounting(Idle) /\ Idle.pc = "idle" /\ Idle.ni = NNULL
<1>1. Idle \in Locals
  BY NoIndex DEF Idle, Locals, Pos, Pcs, ListHead
<1>2. Idle.pc = "idle" /\ Idle.ni = NNULL
  BY DEF Idle
<1>3. LocalsOK(Idle) /\ KnownOK(Idle) /\ HeadOK(Idle)
  BY <1>2 DEF LocalsOK, KnownOK, HeadOK, Found, Wanted, Holding, Clearing, Freeing, Popping, Building, Placed
<1>4. Owned(Idle) = {} /\ Holds(Idle) = {} /\ NotCounting(Idle)
  BY <1>2 DEF Owned, Kept, Dropped, Holds, NotCounting, Holding, Clearing, Freeing, Placed
<1> QED
  BY <1>1, <1>2, <1>3, <1>4

(* A call is back in its pass over the seats. *)
LEMMA ScanOK ==
  ASSUME NEW l, LocalsOK(l), KnownOK(l), l.pc # "idle", l.pc \notin Building \cup Placed,
         NEW m \in Locals, m.pc \in {"scan", "new"}, m.k = l.k, m.op = l.op, m.ni = l.ni,
         m.pc = "new" => m.op = "add"
  PROVE  /\ LocalsOK(m) /\ KnownOK(m) /\ HeadOK(m) /\ NotCounting(m)
         /\ Owned(m) = Kept(l) /\ Holds(m) = {}
<1>1. l.k \in Keys /\ l.op \in Ops /\ (l.ni # NNULL => l.op = "add")
  BY DEF LocalsOK
<1>2. l.ni # NNULL => y[l.ni] = 0
  BY DEF KnownOK
<1>3. /\ m.pc # "idle" /\ m.pc # "take" /\ m.pc # "giveback" /\ m.pc \notin Found /\ m.pc \notin Wanted
      /\ m.pc \notin Holding /\ m.pc \notin Clearing /\ m.pc \notin Freeing /\ m.pc \notin Popping
      /\ m.pc \notin Building /\ m.pc \notin Placed
      /\ m.pc \notin {"check", "hook", "unhold", "unholdcas", "freecas", "newcas", "addx", "addhold", "addcas"}
  BY DEF Found, Wanted, Holding, Clearing, Freeing, Popping, Building, Placed
<1>4. LocalsOK(m)
  BY <1>1, <1>3 DEF LocalsOK, Placed
<1>5. KnownOK(m) /\ HeadOK(m)
  BY <1>2, <1>3 DEF KnownOK, HeadOK
<1>6. Owned(m) = Kept(l) /\ Holds(m) = {} /\ NotCounting(m)
  BY <1>3 DEF Owned, Kept, Dropped, Holds, NotCounting, Placed, Clearing
<1> QED
  BY <1>4, <1>5, <1>6

LEMMA CallStep ==
  ASSUME AtomicInv, UNCHANGED client, NEW t \in Threads, NEW op \in client.ops, NEW k \in Keys,
         NEW ttl \in client.ttls, Call(t, op, k, ttl)
  PROVE  AtomicInv'
<1>0. /\ clock \in Nat /\ th[t] \in Locals /\ LocalsOK(th[t]) /\ op \in Ops /\ ttl \in Nat /\ k \in Nat
      /\ expire \in [Index -> Nat]
  BY OfCall, AtomicAssumption DEF CallOK, Ops
<1>1. PICK m : m = [Idle EXCEPT !.pc = "scan", !.op = op, !.k = k, !.now = clock,
                          !.ttl = IF op = "add" THEN ttl ELSE 0]
  OBVIOUS
<1>2. m \in Locals /\ m.pc = "scan" /\ m.op = op /\ m.k = k /\ m.ni = NNULL
  BY <1>0, <1>1, IdleOK DEF Locals, Pcs
<1>3. /\ LocalsOK(m) /\ KnownOK(m) /\ HeadOK(m) /\ Owned(m) = {} /\ Holds(m) = {} /\ NotCounting(m)
  BY <1>0, <1>2 DEF LocalsOK, KnownOK, HeadOK, Owned, Kept, Dropped, Holds, NotCounting, Found, Wanted,
                    Holding, Clearing, Freeing, Popping, Building, Placed
<1>4. th[t].pc = "idle" /\ th[t].ni = NNULL
  BY <1>0 DEF Call, At, LocalsOK
<1>5. Owned(th[t]) = {} /\ Holds(th[t]) = {} /\ NotCounting(th[t])
  BY <1>4 DEF Owned, Kept, Dropped, Holds, NotCounting, Holding, Clearing, Freeing, Placed
<1>6. th' = [th EXCEPT ![t] = m] /\ UNCHANGED <<x, y, expire, data, seat, ncur, freelist>> /\ clock' = clock
  BY <1>1 DEF Call, Go, node
<1> QED
  BY <1>0, <1>2, <1>3, <1>5, <1>6, LocalStep

(* A call ends that owns and holds nothing. *)
LEMMA EndStep ==
  ASSUME AtomicInv, UNCHANGED client, NEW t \in Threads, th' = [th EXCEPT ![t] = Idle],
         UNCHANGED <<x, y, expire, data, seat, ncur, freelist, clock>>,
         Owned(th[t]) = {}, Holds(th[t]) = {}, NotCounting(th[t])
  PROVE  AtomicInv'
<1>1. clock \in Nat /\ expire \in [Index -> Nat]
  BY OfCall
<1> QED
  BY <1>1, IdleOK, LocalStep

LEMMA ScanStep ==
  ASSUME AtomicInv, UNCHANGED client, NEW t \in Threads, Scan(t)
  PROVE  AtomicInv'
<1> DEFINE l == th[t]
           cnt == IF l.op = "add" /\ l.j = Len(Main(l.k)) + 1 THEN ncur ELSE l.cnt
           mi == seat[Path(l.k)[l.j]]
<1>1. /\ l \in Locals /\ LocalsOK(l) /\ KnownOK(l) /\ ncur \in Nat /\ seat \in [Seats -> Link]
      /\ clock \in Nat /\ expire \in [Index -> Nat]
  BY OfCall DEF CallOK
<1>2. l.pc = "scan" /\ l.pc \notin Building \cup Placed /\ l.pc # "idle"
  BY DEF Scan, At, Building, Placed
<1>3. l.k \in Keys /\ l.op \in Ops /\ l.j \in Nat \ {0} /\ l.j \in Pos
  BY <1>1, <1>2 DEF LocalsOK, Locals, Pos
<1>4. cnt \in Int
  BY <1>1 DEF Locals
<1>5. Owned(l) = Kept(l) /\ Holds(l) = {} /\ NotCounting(l)
  BY <1>2 DEF Owned, Dropped, Holds, NotCounting, Holding, Clearing, Freeing, Placed
<1>6. UNCHANGED <<x, y, expire, data, seat, ncur, freelist, clock>>
  BY <1>1 DEF Scan, node
<1>7. ASSUME NEW m \in Locals, m.pc \in {"scan", "new"}, m.k = l.k, m.op = l.op, m.ni = l.ni,
             m.pc = "new" => m.op = "add", th' = [th EXCEPT ![t] = m]
      PROVE  AtomicInv'
  <2>1. LocalsOK(m) /\ KnownOK(m) /\ HeadOK(m) /\ NotCounting(m) /\ Owned(m) = Kept(l) /\ Holds(m) = {}
    BY <1>1, <1>2, <1>7, ScanOK
  <2> QED
    BY <2>1, <1>1, <1>5, <1>6, <1>7, LocalStep
<1>8. CASE l.op # "add" /\ th' = [th EXCEPT ![t] = Idle]
  <2>1. l.ni = NNULL
    BY <1>1, <1>8 DEF LocalsOK
  <2>2. Owned(l) = {}
    BY <2>1, <1>5 DEF Kept
  <2> QED
    BY <2>2, <1>5, <1>6, <1>8, EndStep
<1>9. CASE l.op = "add" /\ th' = [th EXCEPT ![t] = [l EXCEPT !.pc = "new", !.j = 1]]
  <2>1. PICK m : m = [l EXCEPT !.pc = "new", !.j = 1]
    OBVIOUS
  <2>2. m \in Locals /\ m.pc = "new" /\ m.k = l.k /\ m.op = l.op /\ m.ni = l.ni
    BY <2>1, <1>1, PcsOK, PosOK DEF Locals
  <2> QED
    BY <2>1, <2>2, <1>7, <1>9
<1>10. CASE th' = [th EXCEPT ![t] = [Next1(l) EXCEPT !.cnt = cnt]]
  <2>1. PICK m : m = [Next1(l) EXCEPT !.cnt = cnt]
    OBVIOUS
  <2>2. m = [l EXCEPT !.pc = "scan", !.j = @ + 1, !.cnt = cnt]
    BY <2>1, <1>1 DEF Locals, Next1
  <2> HIDE DEF cnt
  <2>3. m \in Locals /\ m.pc = "scan" /\ m.k = l.k /\ m.op = l.op /\ m.ni = l.ni
    BY <2>2, <1>1, <1>3, <1>4, PcsOK, PosOK DEF Locals
  <2> QED
    BY <2>1, <2>3, <1>7, <1>10
<1>11. ASSUME NEW met \in Int, mi # NNULL, InPass(l),
             th' = [th EXCEPT ![t] = [l EXCEPT !.pc = "ttl", !.mi = mi, !.cnt = met]]
      PROVE  AtomicInv'
  <2>1. PICK m : m = [l EXCEPT !.pc = "ttl", !.mi = mi, !.cnt = met]
    OBVIOUS
  <2>2. mi \in Index /\ mi \in Link
    BY <1>1, <1>3, <1>11, SeatOfPath, NoIndex DEF InPass
  <2>3. m \in Locals /\ m.pc = "ttl" /\ m.k = l.k /\ m.op = l.op /\ m.ni = l.ni /\ m.mi = mi /\ m.j = l.j
    BY <2>1, <2>2, <1>1 DEF Locals, Pcs, Found
  <2>4. LocalsOK(m) /\ KnownOK(m) /\ HeadOK(m) /\ NotCounting(m)
    BY <2>2, <2>3, <1>1, <1>2, <1>3, <1>11
       DEF LocalsOK, KnownOK, HeadOK, InPass, NotCounting, Found, Wanted, Holding, Clearing, Freeing, Popping,
           Building, Placed
  <2>5. Owned(m) = Kept(l) /\ Holds(m) = {}
    BY <2>3, <1>2 DEF Owned, Kept, Dropped, Holds, Found, Holding, Clearing, Freeing, Placed
  <2> QED
    BY <2>1, <2>3, <2>4, <2>5, <1>1, <1>5, <1>6, <1>11, LocalStep
<1>12. \/ l.op # "add" /\ th' = [th EXCEPT ![t] = Idle]
       \/ l.op = "add" /\ th' = [th EXCEPT ![t] = [l EXCEPT !.pc = "new", !.j = 1]]
       \/ th' = [th EXCEPT ![t] = [Next1(l) EXCEPT !.cnt = cnt]]
       \/ /\ mi # NNULL /\ InPass(l)
          /\ \E met \in Int : th' = [th EXCEPT ![t] = [l EXCEPT !.pc = "ttl", !.mi = mi, !.cnt = met]]
  <2> DEFINE extra == InExtra(l.k, l.j)
             met == CASE ~extra -> cnt
                      [] l.op = "add" -> cnt - 1
                      [] l.op = "get" -> cnt + 1
                      [] l.op = "del" -> cnt
  <2>1. met \in Int
    BY <1>3, <1>4 DEF Ops
  <2>2. Main(l.k) \in Seq(Nat) /\ Extra \in Seq(Nat)
    BY <1>3, AtomicAssumption
  <2>3. Len(Path(l.k)) \in Nat
    BY <2>2 DEF Path
  <2>4. \/ l.op # "add" /\ th' = [th EXCEPT ![t] = Idle]
        \/ l.op = "add" /\ th' = [th EXCEPT ![t] = [l EXCEPT !.pc = "new", !.j = 1]]
        \/ th' = [th EXCEPT ![t] = [Next1(l) EXCEPT !.cnt = cnt]]
        \/ /\ mi # NNULL /\ ~(l.j > Len(Path(l.k)))
           /\ th' = [th EXCEPT ![t] = [l EXCEPT !.pc = "ttl", !.mi = mi, !.cnt = met]]
    BY Zenon DEF Scan, Go
  <2>5. ~(l.j > Len(Path(l.k))) => InPass(l)
    BY <2>3, <1>3 DEF InPass
  <2> HIDE DEF met, cnt, mi
  <2> QED
    BY <2>1, <2>4, <2>5, Zenon
<1> HIDE DEF l, cnt, mi
<1> QED
  BY <1>8, <1>9, <1>10, <1>11, <1>12

(* The steps of a call at a seat. *)
LEMMA AtSeat ==
  ASSUME NEW l \in Locals, LocalsOK(l), KnownOK(l), l.pc \in Found \cup Wanted \cup Holding \cup {"take"}
  PROVE  /\ l.k \in Keys /\ l.op \in Ops /\ l.mi \in Index /\ InPass(l) /\ (l.ni # NNULL => l.op = "add")
         /\ l.pc # "idle" /\ l.pc \notin Building \cup Placed /\ Owned(l) = Kept(l) /\ NotCounting(l)
         /\ l.pc \in Found \cup Wanted => Holds(l) = {}
         /\ l.pc \in Holding \cup {"take"} => Holds(l) = {l.mi}
         /\ l.ni # NNULL => y[l.ni] = 0
<1>1. l.pc # "idle" /\ l.pc \notin Building \cup Placed /\ l.pc \notin Freeing /\ l.pc \notin Clearing
  BY DEF Found, Wanted, Holding, Building, Freeing, Clearing, Placed
<1>2. l.pc \in Found \cup Wanted => l.pc \notin Holding \cup {"take"}
  BY DEF Found, Wanted, Holding
<1>3. l.k \in Keys /\ l.op \in Ops /\ l.mi \in Index /\ InPass(l) /\ (l.ni # NNULL => l.op = "add")
  BY <1>1 DEF LocalsOK
<1>4. Owned(l) = Kept(l) /\ NotCounting(l)
  BY <1>1 DEF Owned, Dropped, NotCounting, Placed, Clearing
<1>5. (l.pc \in Found \cup Wanted => Holds(l) = {}) /\ (l.pc \in Holding \cup {"take"} => Holds(l) = {l.mi})
  BY <1>1, <1>2 DEF Holds
<1>6. l.ni # NNULL => y[l.ni] = 0
  BY <1>1 DEF KnownOK
<1> QED
  BY <1>1, <1>3, <1>4, <1>5, <1>6

LEMMA PastSeat ==
  ASSUME NEW l \in Locals, LocalsOK(l), KnownOK(l), l.pc \in Found \cup Wanted \cup Holding,
         NEW m, m = Next1(l)
  PROVE  /\ m \in Locals /\ m.pc = "scan" /\ m.k = l.k /\ m.op = l.op /\ m.ni = l.ni
         /\ LocalsOK(m) /\ KnownOK(m) /\ HeadOK(m) /\ NotCounting(m) /\ Owned(m) = Owned(l) /\ Holds(m) = {}
<1>1. m \in Locals /\ m.pc = "scan" /\ m.k = l.k /\ m.op = l.op /\ m.ni = l.ni
  BY PcsOK, PosOK DEF Locals, Next1
<1>2. l.pc # "idle" /\ l.pc \notin Building \cup Placed /\ Owned(l) = Kept(l)
  BY AtSeat
<1>3. LocalsOK(m) /\ KnownOK(m) /\ HeadOK(m) /\ NotCounting(m) /\ Owned(m) = Kept(l) /\ Holds(m) = {}
  BY <1>1, <1>2, ScanOK
<1> QED
  BY <1>1, <1>2, <1>3

(* A call at a seat goes on at this seat. *)
LEMMA SeatMove ==
  ASSUME NEW l \in Locals, LocalsOK(l), KnownOK(l), l.pc \in Found \cup Wanted \cup Holding,
         NEW m \in Locals, Same(m, l), m.pc \in Found \cup Wanted \cup Holding \cup {"take"},
         m.pc \in Wanted \cup Holding => l.pc \in Wanted \cup Holding,
         m.pc \in Holding \cup {"take"} <=> l.pc \in Holding,
         m.pc \in {"check", "hook"} => m.purpose = "op",
         m.pc \in {"unhold", "unholdcas"} =>
           (m.then = "idle" => m.ni = NNULL) /\ (m.then = "giveback" => m.ni # NNULL)
  PROVE  /\ LocalsOK(m) /\ KnownOK(m) /\ HeadOK(m) /\ NotCounting(m)
         /\ Owned(m) = Owned(l) /\ Holds(m) = Holds(l)
<1>1. /\ m.pc # "idle" /\ m.pc # "giveback" /\ m.pc # "new" /\ m.pc \notin Clearing /\ m.pc \notin Freeing
      /\ m.pc \notin Popping /\ m.pc \notin Building /\ m.pc \notin Placed
      /\ m.pc \notin {"freecas", "newcas", "addx", "addhold", "addcas", "addcount", "uncount"}
  BY DEF Found, Wanted, Holding, Clearing, Freeing, Popping, Building, Placed
<1>2. /\ l.k \in Keys /\ l.op \in Ops /\ l.mi \in Index /\ InPass(l) /\ (l.ni # NNULL => l.op = "add")
      /\ l.pc \notin Building \cup Placed /\ Owned(l) = Kept(l)
      /\ l.pc \in Found \cup Wanted => Holds(l) = {}
      /\ l.pc \in Holding => Holds(l) = {l.mi}
      /\ l.ni # NNULL => y[l.ni] = 0
  BY AtSeat
<1>3. l.pc \in Wanted \cup Holding => l.vy \in Keys /\ l.vx = hx(l.vy) /\ (l.purpose = "op" => l.vy = l.k)
  BY DEF LocalsOK
<1>4. LocalsOK(m)
  BY <1>1, <1>2, <1>3 DEF LocalsOK, Same, InPass
<1>5. l.pc \in Holding => y[l.mi] = l.vy /\ x[l.mi] = 0 /\ seat[Seat(l)] = l.mi
  BY DEF KnownOK
<1>6. KnownOK(m) /\ HeadOK(m)
  BY <1>1, <1>2, <1>5 DEF KnownOK, HeadOK, Same, Seat
<1>7. Owned(m) = Owned(l) /\ NotCounting(m)
  BY <1>1, <1>2 DEF Owned, Kept, Dropped, Same, NotCounting
<1>8. m.pc \notin Holding \cup {"take"} => Holds(m) = {}
  BY <1>1 DEF Holds
<1>9. m.pc \in Holding \cup {"take"} => Holds(m) = {m.mi}
  BY DEF Holds
<1>10. m.mi = l.mi
  BY DEF Same
<1> QED
  BY <1>2, <1>4, <1>6, <1>7, <1>8, <1>9, <1>10

LEMMA TtlStep ==
  ASSUME AtomicInv, UNCHANGED client, NEW t \in Threads, Ttl(t)
  PROVE  AtomicInv'
<1>0. PICK l : l = th[t]
  OBVIOUS
<1>1. /\ l \in Locals /\ LocalsOK(l) /\ KnownOK(l) /\ clock \in Nat /\ expire \in [Index -> Nat]
      /\ x \in [Index -> Int] /\ y \in [Index -> Nat] /\ NodesOK
  BY <1>0, OfCall DEF CallOK, AtomicInv
<1>2. l.pc = "ttl" /\ l.pc \in Found
  BY <1>0 DEF Ttl, At, Found
<1>3. l.mi \in Index /\ Holds(l) = {} /\ NotCounting(l) /\ Owned(l) = Kept(l)
  BY <1>1, <1>2, AtSeat
<1>4. UNCHANGED <<x, y, expire, data, seat, ncur, freelist, clock>>
  BY DEF Ttl, node
<1>5. CASE th' = [th EXCEPT ![t] = [l EXCEPT !.pc = "equal"]]
  <2>1. PICK m : m = [l EXCEPT !.pc = "equal"]
    OBVIOUS
  <2>2. "equal" \in Pcs /\ "equal" \in Found
    BY PcsOK DEF Found
  <2>3. m \in Locals /\ m.pc = "equal" /\ Same(m, l)
    BY <2>1, <2>2, <1>1, SetPc
  <2>4. /\ LocalsOK(m) /\ KnownOK(m) /\ HeadOK(m) /\ NotCounting(m)
        /\ Owned(m) = Owned(l) /\ Holds(m) = Holds(l)
    BY <2>2, <2>3, <1>1, <1>2, SeatMove DEF Found, Wanted, Holding
  <2> QED
    BY <2>1, <2>3, <2>4, <1>0, <1>1, <1>3, <1>4, <1>5, LocalStep
<1>6. CASE /\ x[l.mi] # 0 /\ y[l.mi] # 0
           /\ th' = [th EXCEPT ![t] = [l EXCEPT !.pc = "hold", !.purpose = "ttl", !.vx = x[l.mi], !.vy = y[l.mi]]]
  <2>1. PICK m : m = [l EXCEPT !.pc = "hold", !.purpose = "ttl", !.vx = x[l.mi], !.vy = y[l.mi]]
    OBVIOUS
  <2>2. x[l.mi] \in Int /\ y[l.mi] \in Keys /\ y[l.mi] \in Int /\ x[l.mi] = hx(y[l.mi])
    BY <1>1, <1>3, <1>6, HashOK DEF NodesOK
  <2>3. "hold" \in Pcs
    BY PcsOK DEF Wanted
  <2>4. /\ m \in Locals /\ m.pc = "hold" /\ m.purpose = "ttl" /\ m.vx = x[l.mi] /\ m.vy = y[l.mi]
        /\ m.k = l.k /\ m.op = l.op /\ m.j = l.j /\ m.mi = l.mi /\ m.ni = l.ni
    BY <2>1, <2>2, <2>3, <1>1 DEF Locals
  <2>5. /\ l.k \in Keys /\ l.op \in Ops /\ InPass(l) /\ (l.ni # NNULL => l.op = "add")
        /\ (l.ni # NNULL => y[l.ni] = 0) /\ l.pc \notin Placed
    BY <1>1, <1>2, AtSeat
  <2>6. LocalsOK(m) /\ KnownOK(m) /\ HeadOK(m) /\ NotCounting(m)
    BY <2>2, <2>4, <2>5, <1>3
       DEF LocalsOK, KnownOK, HeadOK, InPass, NotCounting, Found, Wanted, Holding, Clearing, Freeing, Popping,
           Building, Placed
  <2>7. Owned(m) = Owned(l) /\ Holds(m) = {}
    BY <2>4, <2>5, <1>3 DEF Owned, Kept, Dropped, Holds, Wanted, Holding, Clearing, Freeing, Placed
  <2> QED
    BY <2>1, <2>4, <2>6, <2>7, <1>0, <1>1, <1>3, <1>4, <1>6, LocalStep
<1> QED
  BY <1>0, <1>5, <1>6, Zenon DEF Ttl, Go

LEMMA EqualStep ==
  ASSUME AtomicInv, UNCHANGED client, NEW t \in Threads, likely_equal(t)
  PROVE  AtomicInv'
<1>0. PICK l : l = th[t]
  OBVIOUS
<1>1. l \in Locals /\ LocalsOK(l) /\ KnownOK(l) /\ clock \in Nat /\ expire \in [Index -> Nat]
  BY <1>0, OfCall DEF CallOK
<1>2. l.pc = "equal" /\ l.pc \in Found
  BY <1>0 DEF likely_equal, At, Found
<1>3. /\ l.k \in Keys /\ l.op \in Ops /\ l.mi \in Index /\ InPass(l) /\ (l.ni # NNULL => l.op = "add")
      /\ (l.ni # NNULL => y[l.ni] = 0) /\ l.pc \notin Placed
      /\ Holds(l) = {} /\ NotCounting(l) /\ Owned(l) = Kept(l)
  BY <1>1, <1>2, AtSeat
<1>4. UNCHANGED <<x, y, expire, data, seat, ncur, freelist, clock>>
  BY DEF likely_equal, node
<1>5. CASE th' = [th EXCEPT ![t] = Next1(l)]
  <2>1. PICK m : m = Next1(l)
    OBVIOUS
  <2>2. /\ m \in Locals /\ LocalsOK(m) /\ KnownOK(m) /\ HeadOK(m) /\ NotCounting(m)
        /\ Owned(m) = Owned(l) /\ Holds(m) = {}
    BY <2>1, <1>1, <1>2, PastSeat
  <2> QED
    BY <2>1, <2>2, <1>0, <1>1, <1>3, <1>4, <1>5, LocalStep
<1>6. CASE th' = [th EXCEPT ![t] = [l EXCEPT !.pc = "hold", !.purpose = "op", !.vx = hx(l.k), !.vy = l.k]]
  <2>1. PICK m : m = [l EXCEPT !.pc = "hold", !.purpose = "op", !.vx = hx(l.k), !.vy = l.k]
    OBVIOUS
  <2>2. hx(l.k) \in Int /\ l.k \in Int
    BY <1>3, HashOK
  <2>3. "hold" \in Pcs
    BY PcsOK DEF Wanted
  <2>4. /\ m \in Locals /\ m.pc = "hold" /\ m.purpose = "op" /\ m.vx = hx(l.k) /\ m.vy = l.k
        /\ m.k = l.k /\ m.op = l.op /\ m.j = l.j /\ m.mi = l.mi /\ m.ni = l.ni
    BY <2>1, <2>2, <2>3, <1>1 DEF Locals
  <2>6. LocalsOK(m) /\ KnownOK(m) /\ HeadOK(m) /\ NotCounting(m)
    BY <2>4, <1>3
       DEF LocalsOK, KnownOK, HeadOK, InPass, NotCounting, Found, Wanted, Holding, Clearing, Freeing, Popping,
           Building, Placed
  <2>7. Owned(m) = Owned(l) /\ Holds(m) = {}
    BY <2>4, <1>3 DEF Owned, Kept, Dropped, Holds, Wanted, Holding, Clearing, Freeing, Placed
  <2> QED
    BY <2>1, <2>4, <2>6, <2>7, <1>0, <1>1, <1>3, <1>4, <1>6, LocalStep
<1> QED
  BY <1>0, <1>5, <1>6, Zenon DEF likely_equal, Go

LEMMA RetryStep ==
  ASSUME AtomicInv, UNCHANGED client, NEW t \in Threads,
         Retry(t) \/ Wait(t) \/ (Hold(t) /\ x[th[t].mi] # th[t].vx)
  PROVE  AtomicInv'
<1>0. PICK l : l = th[t]
  OBVIOUS
<1>1. l \in Locals /\ LocalsOK(l) /\ KnownOK(l) /\ clock \in Nat /\ expire \in [Index -> Nat]
  BY <1>0, OfCall DEF CallOK
<1>2. l.pc \in Wanted
  BY <1>0 DEF Retry, Wait, Hold, At, Wanted
<1>3. UNCHANGED <<x, y, expire, data, seat, ncur, freelist, clock>>
  BY DEF Retry, Wait, Hold, node
<1>4. Holds(l) = {} /\ NotCounting(l) /\ Owned(l) = Kept(l)
  BY <1>1, <1>2, AtSeat
<1>5. CASE th' = [th EXCEPT ![t] = Next1(l)]
  <2>1. PICK m : m = Next1(l)
    OBVIOUS
  <2>2. /\ m \in Locals /\ LocalsOK(m) /\ KnownOK(m) /\ HeadOK(m) /\ NotCounting(m)
        /\ Owned(m) = Owned(l) /\ Holds(m) = {}
    BY <2>1, <1>1, <1>2, PastSeat
  <2> QED
    BY <2>1, <2>2, <1>0, <1>1, <1>3, <1>4, <1>5, LocalStep
<1>6. ASSUME NEW p \in {"wait", "hold", "retry"}, th' = [th EXCEPT ![t] = [l EXCEPT !.pc = p]]
      PROVE  AtomicInv'
  <2>1. PICK m : m = [l EXCEPT !.pc = p]
    OBVIOUS
  <2>2. p \in Wanted /\ p \in Pcs
    BY PcsOK DEF Wanted
  <2>3. m \in Locals /\ m.pc = p /\ Same(m, l)
    BY <2>1, <2>2, <1>1, SetPc
  <2>4. /\ LocalsOK(m) /\ KnownOK(m) /\ HeadOK(m) /\ NotCounting(m)
        /\ Owned(m) = Owned(l) /\ Holds(m) = Holds(l)
    BY <2>2, <2>3, <1>1, <1>2, SeatMove DEF Found, Wanted, Holding
  <2> QED
    BY <2>1, <2>3, <2>4, <1>0, <1>1, <1>3, <1>4, <1>6, LocalStep
<1>7. \/ th' = [th EXCEPT ![t] = Next1(l)]
      \/ \E p \in {"wait", "hold", "retry"} : th' = [th EXCEPT ![t] = [l EXCEPT !.pc = p]]
  <2>1. CASE Retry(t) \/ Wait(t)
    BY <2>1, <1>0, Zenon DEF Retry, Wait, Go
  <2>2. CASE Hold(t) /\ x[l.mi] # l.vx
    <3>1. th' = [th EXCEPT ![t] = [l EXCEPT !.pc = "retry"]]
      BY <2>2, <1>0, Zenon DEF Hold, Go
    <3> QED
      BY <3>1
  <2> QED
    BY <2>1, <2>2, <1>0
<1> QED
  BY <1>5, <1>6, <1>7

(* A hook leaves an expiry. *)
LEMMA ExpiryOK ==
  ASSUME AtomicInv, NEW i, Prolonged(i)
  PROVE  expire' \in [Index -> Nat]
<1>1. clock \in Nat /\ expire \in [Index -> Nat] /\ client.ttls \subseteq Nat
  BY AtomicAssumption DEF AtomicInv, AtomicTypeOK
<1>2. ASSUME NEW d \in client.ttls \ {0}, expire' = [expire EXCEPT ![i] = clock + d]
      PROVE  expire' \in [Index -> Nat]
  <2>1. clock + d \in Nat
    BY <1>1
  <2> QED
    BY <2>1, <1>1, <1>2
<1> QED
  BY <1>1, <1>2 DEF Prolonged

LEMMA HeldStep ==
  ASSUME AtomicInv, UNCHANGED client, NEW t \in Threads,
         Held(t) \/ Unhold(t) \/ Reexpire(t) \/ CheckSeat(t) \/ Hook(t)
  PROVE  AtomicInv'
<1>0. PICK l : l = th[t]
  OBVIOUS
<1>1. l \in Locals /\ LocalsOK(l) /\ KnownOK(l) /\ clock \in Nat /\ expire \in [Index -> Nat] /\ client \in Clients
  BY <1>0, OfCall DEF CallOK
<1>2. l.pc \in Holding /\ l.pc # "unholdcas"
  BY <1>0 DEF Held, Unhold, Reexpire, CheckSeat, Hook, At, Holding
<1>3. l.mi \in Index /\ Holds(l) = {l.mi} /\ NotCounting(l) /\ Owned(l) = Kept(l) /\ (l.ni # NNULL => l.op = "add")
  BY <1>1, <1>2, AtSeat
<1>4. y[l.mi] = l.vy /\ y[l.mi] # 0
  BY <1>1, <1>2, HashOK DEF KnownOK, LocalsOK
<1>5. UNCHANGED <<x, y, data, seat, ncur, freelist, clock>> /\ expire' \in [Index -> Nat]
  <2>1. CASE ~Hook(t)
    BY <2>1, <1>1 DEF Held, Unhold, Reexpire, CheckSeat, node
  <2>2. CASE Hook(t)
    <3>1. UNCHANGED <<x, y, data, seat, ncur, freelist, clock>>
      BY <2>2 DEF Hook
    <3>2. CASE UNCHANGED expire
      BY <3>1, <3>2, <1>1
    <3>3. CASE Prolonged(l.mi)
      BY <3>1, <3>3, ExpiryOK
    <3> QED
      BY <2>2, <3>2, <3>3, <1>0 DEF Hook
  <2> QED
    BY <2>1, <2>2
<1>6. ASSUME NEW m \in Locals, m.pc \in Holding \cup {"take"}, Same(m, l), th' = [th EXCEPT ![t] = m],
             m.pc \in {"check", "hook"} => m.purpose = "op",
             m.pc \in {"unhold", "unholdcas"} =>
               (m.then = "idle" => m.ni = NNULL) /\ (m.then = "giveback" => m.ni # NNULL)
      PROVE  AtomicInv'
  <2>1. /\ LocalsOK(m) /\ KnownOK(m) /\ HeadOK(m) /\ NotCounting(m)
        /\ Owned(m) = Owned(l) /\ Holds(m) = Holds(l)
    BY <1>1, <1>2, <1>6, SeatMove
  <2> QED
    BY <2>1, <1>0, <1>1, <1>3, <1>5, <1>6, LocalStep
<1>7. ASSUME NEW p \in {"reexpire", "check", "hook", "take", "unholdcas"},
             p \in {"check", "hook"} => l.purpose = "op",
             p = "unholdcas" => l.pc = "unhold",
             th' = [th EXCEPT ![t] = [l EXCEPT !.pc = p]]
      PROVE  AtomicInv'
  <2>1. PICK m : m = [l EXCEPT !.pc = p]
    OBVIOUS
  <2>2. p \in Pcs /\ p \in Holding \cup {"take"}
    BY PcsOK DEF Holding
  <2>3. m \in Locals /\ m.pc = p /\ m.then = l.then /\ Same(m, l)
    BY <2>1, <2>2, <1>1, SetPc
  <2>4. p = "unholdcas" => (l.then = "idle" => l.ni = NNULL) /\ (l.then = "giveback" => l.ni # NNULL)
    BY <1>1, <1>7 DEF LocalsOK
  <2>5. m.purpose = l.purpose /\ m.ni = l.ni
    BY <2>3 DEF Same
  <2> QED
    BY <2>1, <2>2, <2>3, <2>4, <2>5, <1>6, <1>7
<1>8. ASSUME NEW q \in {"idle", "next", "equal", "giveback"},
             (q = "idle" => l.ni = NNULL) /\ (q = "giveback" => l.ni # NNULL),
             th' = [th EXCEPT ![t] = [l EXCEPT !.pc = "unhold", !.then = q]]
      PROVE  AtomicInv'
  <2>1. PICK m : m = [l EXCEPT !.pc = "unhold", !.then = q]
    OBVIOUS
  <2>2. "unhold" \in Pcs /\ "unhold" \in Holding
    BY PcsOK DEF Holding
  <2>3. m \in Locals /\ m.pc = "unhold" /\ m.then = q /\ Same(m, l)
    <3>1. l \in Locals /\ q \in {"idle", "next", "equal", "giveback"}
      BY <1>1
    <3> QED
      BY ONLY <3>1, <2>1, <2>2 DEF Locals, Same
  <2>4. m.ni = l.ni
    BY <2>3 DEF Same
  <2> QED
    BY <2>1, <2>2, <2>3, <2>4, <1>6, <1>8
<1>9. CASE Held(t)
  <2>1. l.purpose \in {"op", "ttl"}
    BY <1>1 DEF Locals
  <2>2. \/ th' = [th EXCEPT ![t] = [l EXCEPT !.pc = "unhold", !.then = "next"]]
        \/ l.purpose = "ttl" /\ th' = [th EXCEPT ![t] = [l EXCEPT !.pc = "reexpire"]]
        \/ th' = [th EXCEPT ![t] = [l EXCEPT !.pc = "take"]]
        \/ l.purpose # "ttl" /\ th' = [th EXCEPT ![t] = [l EXCEPT !.pc = "check"]]
    BY <1>0, <1>9, Zenon DEF Held, Go
  <2> QED
    BY <2>1, <2>2, <1>7, <1>8
<1>10. CASE Unhold(t)
  <2>1. l.pc = "unhold" /\ th' = [th EXCEPT ![t] = [l EXCEPT !.pc = "unholdcas"]]
    BY <1>0, <1>4, <1>10, Zenon DEF Unhold, Go, At
  <2> QED
    BY <2>1, <1>7
<1>11. CASE Reexpire(t)
  <2>1. \/ th' = [th EXCEPT ![t] = [l EXCEPT !.pc = "take"]]
        \/ th' = [th EXCEPT ![t] = [l EXCEPT !.pc = "unhold", !.then = "equal"]]
    BY <1>0, <1>11, Zenon DEF Reexpire, Go
  <2> QED
    BY <2>1, <1>7, <1>8
<1>12. CASE CheckSeat(t)
  <2>1. l.pc = "check" /\ l.purpose = "op"
    BY <1>0, <1>1, <1>12 DEF CheckSeat, At, LocalsOK
  <2>2. \/ th' = [th EXCEPT ![t] = [l EXCEPT !.pc = "hook"]]
        \/ th' = [th EXCEPT ![t] = [l EXCEPT !.pc = "unhold", !.then = "next"]]
    BY <1>0, <1>12, Zenon DEF CheckSeat, Go
  <2> QED
    BY <2>1, <2>2, <1>7, <1>8
<1>13. CASE Hook(t)
  <2>1. \/ l.ni # NNULL /\ th' = [th EXCEPT ![t] = [l EXCEPT !.pc = "unhold", !.then = "giveback"]]
        \/ l.ni = NNULL /\ th' = [th EXCEPT ![t] = [l EXCEPT !.pc = "unhold", !.then = "idle"]]
        \/ th' = [th EXCEPT ![t] = [l EXCEPT !.pc = "take"]]
    BY <1>0, <1>3, <1>13, Zenon DEF Hook, Go
  <2> QED
    BY <2>1, <1>7, <1>8
<1> QED
  BY <1>9, <1>10, <1>11, <1>12, <1>13

-----------------------------------------------------------------------------
(* The second half of add, and the steps that only read the free list.     *)

LEMMA GiveBackStep ==
  ASSUME AtomicInv, UNCHANGED client, NEW t \in Threads,
         GiveBack(t) \/ (FreeCas(t) /\ freelist # th[t].n)
  PROVE  AtomicInv'
<1>0. PICK l : l = th[t]
  OBVIOUS
<1>1. l \in Locals /\ LocalsOK(l) /\ KnownOK(l) /\ clock \in Nat /\ expire \in [Index -> Nat]
  BY <1>0, OfCall DEF CallOK
<1>2. UNCHANGED <<x, y, expire, data, seat, ncur, freelist, clock>>
  BY <1>0 DEF GiveBack, FreeCas, node
<1>3. CASE GiveBack(t)
  <2>1. l.pc = "giveback"
    BY <1>0, <1>3 DEF GiveBack, At
  <2>2. l.ni \in Index /\ l.ni # NNULL /\ l.op = "add" /\ l.k \in Keys /\ y[l.ni] = 0
    BY <2>1, <1>1, NoIndex DEF LocalsOK, KnownOK, Locals, Building, Placed
  <2>3. PICK m : m = [l EXCEPT !.pc = "free", !.mi = l.ni, !.then = "idle"]
    OBVIOUS
  <2>4. m \in Locals /\ m.pc = "free" /\ m.mi = l.ni /\ m.ni = l.ni /\ m.then = "idle" /\ m.k = l.k /\ m.op = l.op
    BY <2>3, <1>1 DEF Locals, Pcs, Freeing
  <2>5. LocalsOK(m) /\ KnownOK(m) /\ HeadOK(m) /\ NotCounting(m)
    BY <2>2, <2>4
       DEF LocalsOK, KnownOK, HeadOK, NotCounting, Ops, Found, Wanted, Holding, Clearing, Freeing, Popping,
           Building, Placed
  <2>6. Owned(m) = {l.ni} /\ Holds(m) = {}
    BY <2>2, <2>4 DEF Owned, Kept, Dropped, Holds, Holding, Clearing, Freeing, Placed
  <2>7. Owned(l) = {l.ni} /\ Holds(l) = {} /\ NotCounting(l)
    BY <2>1, <2>2 DEF Owned, Kept, Dropped, Holds, NotCounting, Holding, Clearing, Freeing, Placed
  <2>8. th' = [th EXCEPT ![t] = m]
    BY <2>3, <1>0, <1>3 DEF GiveBack, Go
  <2> QED
    BY <2>4, <2>5, <2>6, <2>7, <2>8, <1>0, <1>1, <1>2, LocalStep
<1>4. CASE FreeCas(t) /\ freelist # l.n
  <2>1. l.pc = "freecas" /\ l.pc \in Freeing
    BY <1>0, <1>4 DEF FreeCas, At, Freeing
  <2>2. PICK m : m = [l EXCEPT !.pc = "free"]
    OBVIOUS
  <2>3. "free" \in Pcs
    BY PcsOK DEF Freeing
  <2>4. m \in Locals /\ m.pc = "free" /\ m.then = l.then /\ Same(m, l)
    BY <2>2, <2>3, <1>1, SetPc
  <2>5. LocalsOK(m) /\ KnownOK(m) /\ HeadOK(m) /\ NotCounting(m) /\ NotCounting(l)
    BY <2>1, <2>4, <1>1
       DEF LocalsOK, KnownOK, HeadOK, NotCounting, Same, Found, Wanted, Holding, Clearing, Freeing, Popping,
           Building, Placed
  <2>6. Owned(m) = Owned(l) /\ Holds(m) = Holds(l)
    BY <2>1, <2>4 DEF Owned, Kept, Dropped, Holds, Same, Holding, Clearing, Freeing, Placed
  <2>7. th' = [th EXCEPT ![t] = m]
    BY <2>2, <1>0, <1>4 DEF FreeCas, Go
  <2> QED
    BY <2>4, <2>5, <2>6, <2>7, <1>0, <1>1, <1>2, LocalStep
<1> QED
  BY <1>0, <1>3, <1>4

LEMMA PopRead ==
  ASSUME AtomicInv, UNCHANGED client, NEW t \in Threads,
         New(t) \/ NewLink(t) \/ (NewCas(t) /\ freelist # th[t].n)
  PROVE  AtomicInv'
<1>0. PICK l : l = th[t]
  OBVIOUS
<1>1. /\ l \in Locals /\ LocalsOK(l) /\ KnownOK(l) /\ HeadOK(l) /\ clock \in Nat /\ expire \in [Index -> Nat]
      /\ freelist \in ListHead /\ x \in [Index -> Int]
  BY <1>0, OfCall DEF CallOK
<1>2. l.pc \in {"new", "newlink", "newcas"}
  BY <1>0 DEF New, NewLink, NewCas, At
<1>3. /\ l.k \in Keys /\ l.op = "add"
      /\ l.pc # "new" => l.ni = NNULL /\ l.n.mi \in Index
      /\ l.ni # NNULL => y[l.ni] = 0 /\ l.ni \in Index
  BY <1>1, <1>2, NoIndex DEF LocalsOK, KnownOK, Locals, Popping, Building, Placed
<1>4. Owned(l) = {l.ni} \ {NNULL} /\ Holds(l) = {} /\ NotCounting(l)
  BY <1>2 DEF Owned, Kept, Dropped, Holds, NotCounting, Holding, Clearing, Freeing, Placed
<1>5. UNCHANGED <<x, y, expire, data, seat, ncur, freelist, clock>>
  BY <1>0 DEF New, NewLink, NewCas, node
<1>6. ASSUME NEW m \in Locals, m.pc \in {"set", "new", "newlink", "newcas"},
             m.k = l.k, m.op = l.op, m.ni = l.ni, th' = [th EXCEPT ![t] = m],
             m.pc = "set" => m.ni # NNULL,
             m.pc \in Popping => m.ni = NNULL /\ m.n.mi \in Index /\ Read(m.n),
             m.pc = "newcas" => m.link = x[m.n.mi]
      PROVE  AtomicInv'
  <2>1. LocalsOK(m)
    BY <1>3, <1>6 DEF LocalsOK, Ops, Found, Wanted, Holding, Clearing, Freeing, Popping, Building, Placed
  <2>2. KnownOK(m)
    BY <1>3, <1>6 DEF KnownOK, Holding, Clearing, Freeing, Building, Placed
  <2>3. HeadOK(m)
    BY <1>6 DEF HeadOK, Popping
  <2>4. Owned(m) = {m.ni} \ {NNULL} /\ Holds(m) = {} /\ NotCounting(m)
    BY <1>6 DEF Owned, Kept, Dropped, Holds, NotCounting, Holding, Clearing, Freeing, Placed
  <2> QED
    BY <2>1, <2>2, <2>3, <2>4, <1>0, <1>1, <1>4, <1>5, <1>6, LocalStep
<1>7. CASE New(t)
  <2>1. CASE l.ni # NNULL
    <3>1. PICK m : m = [l EXCEPT !.pc = "set"]
      OBVIOUS
    <3>2. m \in Locals /\ m.pc = "set" /\ m.k = l.k /\ m.op = l.op /\ m.ni = l.ni
      BY <3>1, <1>1 DEF Locals, Pcs, Building
    <3>3. th' = [th EXCEPT ![t] = m]
      BY <3>1, <2>1, <1>0, <1>7 DEF New, Go
    <3> QED
      BY <3>2, <3>3, <2>1, <1>6 DEF Popping
  <2>2. CASE l.ni = NNULL /\ freelist.mi = NNULL
    <3>1. th' = [th EXCEPT ![t] = Idle]
      BY <1>0, <1>7, <2>2, Zenon DEF New, Go
    <3>2. Owned(l) = {}
      BY <2>2, <1>4
    <3> QED
      BY <3>1, <3>2, <1>0, <1>4, <1>5, EndStep
  <2>3. CASE l.ni = NNULL /\ freelist.mi # NNULL
    <3>1. PICK m : m = [l EXCEPT !.pc = "newlink", !.n = freelist]
      OBVIOUS
    <3>2. freelist.mi \in Index /\ freelist.rfn \in Nat
      BY <2>3, <1>1 DEF ListHead, Link
    <3>3. "newlink" \in Pcs
      BY PcsOK DEF Popping
    <3>4. /\ m \in Locals /\ m.pc = "newlink" /\ m.k = l.k /\ m.op = l.op /\ m.ni = l.ni /\ m.n = freelist
      BY <3>1, <3>3, <1>1 DEF Locals
    <3>5. Read(freelist)
      BY <3>2 DEF Read
    <3>6. th' = [th EXCEPT ![t] = m]
      BY <3>1, <1>0, <1>7, <2>3 DEF New, Go
    <3> QED
      BY <3>2, <3>4, <3>5, <3>6, <2>3, <1>6
  <2> QED
    BY <2>1, <2>2, <2>3
<1>8. CASE NewLink(t)
  <2>1. PICK m : m = [l EXCEPT !.pc = "newcas", !.link = x[l.n.mi]]
    OBVIOUS
  <2>2. l.pc = "newlink" /\ l.pc \in Popping
    BY <1>0, <1>8 DEF NewLink, At, Popping
  <2>3. l.n.mi \in Index /\ Read(l.n) /\ l.ni = NNULL
    BY <2>2, <1>1, <1>3 DEF HeadOK
  <2>4. "newcas" \in Pcs /\ x[l.n.mi] \in Int
    BY <2>3, <1>1, PcsOK DEF Popping
  <2>5. /\ m \in Locals /\ m.pc = "newcas" /\ m.k = l.k /\ m.op = l.op /\ m.ni = l.ni /\ m.n = l.n
        /\ m.link = x[l.n.mi]
    BY <2>1, <2>4, <1>1 DEF Locals
  <2>6. th' = [th EXCEPT ![t] = m]
    BY <2>1, <1>0, <1>8 DEF NewLink, Go
  <2> QED
    BY <2>3, <2>5, <2>6, <1>6
<1>9. CASE NewCas(t) /\ freelist # l.n
  <2>1. PICK m : m = [l EXCEPT !.pc = "new"]
    OBVIOUS
  <2>2. m \in Locals /\ m.pc = "new" /\ m.k = l.k /\ m.op = l.op /\ m.ni = l.ni
    BY <2>1, <1>1, PcsOK DEF Locals
  <2>3. th' = [th EXCEPT ![t] = m]
    BY <2>1, <1>0, <1>9 DEF NewCas, Go
  <2> QED
    BY <2>2, <2>3, <1>6 DEF Popping
<1> QED
  BY <1>0, <1>7, <1>8, <1>9

(* A call that has a node for its key. *)
LEMMA OfBuilder ==
  ASSUME NEW l \in Locals, LocalsOK(l), l.pc \in Building
  PROVE  /\ l.k \in Keys /\ l.op = "add" /\ l.ni \in Index /\ l.ni # NNULL
         /\ Owned(l) = {l.ni} /\ Holds(l) = {} /\ NotCounting(l)
<1>1. l.ni # NNULL /\ l.k \in Keys /\ l.op = "add"
  BY NotIdle DEF LocalsOK
<1>2. l.ni \in Index
  BY <1>1, NoIndex DEF Locals
<1>3. Owned(l) = {l.ni} /\ Holds(l) = {} /\ NotCounting(l)
  BY <1>1 DEF Owned, Kept, Dropped, Holds, NotCounting, Holding, Clearing, Freeing, Building, Placed
<1> QED
  BY <1>1, <1>2, <1>3

LEMMA BuilderOK ==
  ASSUME NEW m \in Locals, m.pc \in Building, m.k \in Keys, m.op = "add", m.ni \in Index,
         m.pc \in {"addx", "addhold", "addcas"} => InPass(m),
         m.pc \in {"addhold", "addcas"} => m.vx = hx(m.k)
  PROVE  /\ LocalsOK(m) /\ Owned(m) = {m.ni} /\ Holds(m) = {} /\ NotCounting(m)
<1>1. m.ni # NNULL
  BY NoIndex
<1>2. /\ m.pc # "idle" /\ m.pc # "take" /\ m.pc # "giveback" /\ m.pc # "new" /\ m.pc \notin Found
      /\ m.pc \notin Wanted /\ m.pc \notin Holding /\ m.pc \notin Clearing /\ m.pc \notin Freeing
      /\ m.pc \notin Popping /\ m.pc \notin Placed
      /\ m.pc \notin {"check", "hook", "unhold", "unholdcas", "addcount", "uncount"}
  BY DEF Found, Wanted, Holding, Clearing, Freeing, Popping, Building, Placed
<1>3. LocalsOK(m)
  BY <1>1, <1>2 DEF LocalsOK, Ops
<1>4. Owned(m) = {m.ni} /\ Holds(m) = {} /\ NotCounting(m)
  BY <1>1, <1>2 DEF Owned, Kept, Dropped, Holds, NotCounting
<1> QED
  BY <1>3, <1>4

LEMMA AddRead ==
  ASSUME AtomicInv, UNCHANGED client, NEW t \in Threads, AddScan(t) \/ AddReadX(t)
  PROVE  AtomicInv'
<1>0. PICK l : l = th[t]
  OBVIOUS
<1>1. /\ l \in Locals /\ LocalsOK(l) /\ KnownOK(l) /\ clock \in Nat /\ expire \in [Index -> Nat]
      /\ x \in [Index -> Int]
  BY <1>0, OfCall DEF CallOK
<1>2. l.pc \in {"addscan", "addx"} /\ l.pc \in Building
  BY <1>0 DEF AddScan, AddReadX, At, Building
<1>3. /\ l.k \in Keys /\ l.op = "add" /\ l.ni \in Index /\ l.ni # NNULL
      /\ Owned(l) = {l.ni} /\ Holds(l) = {} /\ NotCounting(l)
  BY <1>1, <1>2, OfBuilder
<1>4. x[l.ni] = hx(l.k) /\ y[l.ni] = l.k /\ data[l.ni] = l.k
  BY <1>1, <1>2 DEF KnownOK, Building
<1>5. UNCHANGED <<x, y, expire, data, seat, ncur, freelist, clock>>
  BY DEF AddScan, AddReadX, node
<1>6. ASSUME NEW m \in Locals, m.k = l.k, m.op = l.op, m.ni = l.ni,
             \/ m.pc \in {"nosit", "addscan"}
             \/ m.pc = "addx" /\ InPass(m)
             \/ m.pc = "addhold" /\ InPass(m) /\ m.vx = hx(m.k),
             th' = [th EXCEPT ![t] = m]
      PROVE  AtomicInv'
  <2>1. m.pc \in Building \ {"set", "setdata", "addcas"}
    BY <1>6 DEF Building
  <2>2. LocalsOK(m) /\ Owned(m) = {m.ni} /\ Holds(m) = {} /\ NotCounting(m)
    BY <2>1, <1>3, <1>6, BuilderOK
  <2>3. m.pc \notin Holding \cup {"take"} \cup Freeing \cup Placed \cup Popping \cup {"freecas", "newcas"}
    BY <2>1 DEF Building, Holding, Freeing, Placed, Popping
  <2>4. KnownOK(m) /\ HeadOK(m)
    BY <2>1, <2>3, <1>4, <1>6 DEF KnownOK, HeadOK
  <2> QED
    BY <2>2, <2>4, <1>0, <1>1, <1>3, <1>5, <1>6, LocalStep
<1>7. CASE AddReadX(t)
  <2>1. PICK m : m = [l EXCEPT !.pc = "addhold", !.vx = x[l.ni]]
    OBVIOUS
  <2>2. x[l.ni] \in Int /\ "addhold" \in Pcs
    BY <1>1, <1>3, PcsOK DEF Building
  <2>3. /\ m \in Locals /\ m.pc = "addhold" /\ m.k = l.k /\ m.op = l.op /\ m.ni = l.ni /\ m.j = l.j
        /\ m.vx = x[l.ni]
    BY <2>1, <2>2, <1>1 DEF Locals
  <2>4. InPass(l)
    BY <1>0, <1>1, <1>7 DEF LocalsOK, AddReadX, At
  <2>5. InPass(m) /\ m.vx = hx(m.k)
    BY <2>3, <2>4, <1>4 DEF InPass
  <2>6. th' = [th EXCEPT ![t] = m]
    BY <2>1, <1>0, <1>7 DEF AddReadX, Go
  <2> QED
    BY <2>3, <2>5, <2>6, <1>6
<1>8. CASE AddScan(t)
  <2>0. l.pc = "addscan"
    BY <1>0, <1>8 DEF AddScan, At
  <2>1. CASE th' = [th EXCEPT ![t] = [l EXCEPT !.pc = "nosit"]]
    <3>1. PICK m : m = [l EXCEPT !.pc = "nosit"]
      OBVIOUS
    <3>2. m \in Locals /\ m.pc = "nosit" /\ m.k = l.k /\ m.op = l.op /\ m.ni = l.ni
      BY <3>1, <1>1 DEF Locals, Pcs, Building
    <3> QED
      BY <3>1, <3>2, <2>1, <1>6
  <2>2. CASE InPass(l) /\ th' = [th EXCEPT ![t] = [l EXCEPT !.pc = "addx"]]
    <3>1. PICK m : m = [l EXCEPT !.pc = "addx"]
      OBVIOUS
    <3>2. m \in Locals /\ m.pc = "addx" /\ m.k = l.k /\ m.op = l.op /\ m.ni = l.ni /\ m.j = l.j
      BY <3>1, <1>1 DEF Locals, Pcs, Building
    <3>3. InPass(m)
      BY <3>2, <2>2 DEF InPass
    <3> QED
      BY <3>1, <3>2, <3>3, <2>2, <1>6
  <2>3. CASE th' = [th EXCEPT ![t] = [l EXCEPT !.j = @ + 1]]
    <3>1. PICK m : m = [l EXCEPT !.j = @ + 1]
      OBVIOUS
    <3>2. m \in Locals /\ m.pc = "addscan" /\ m.k = l.k /\ m.op = l.op /\ m.ni = l.ni
      BY <3>1, <2>0, <1>1, PosOK DEF Locals
    <3> QED
      BY <3>1, <3>2, <2>3, <1>6
  <2>4. Main(l.k) \in Seq(Nat) /\ Extra \in Seq(Nat) /\ l.j \in Nat
    BY <1>1, <1>3, AtomicAssumption DEF Locals, Pos
  <2>5. Len(Path(l.k)) \in Nat
    BY <2>4 DEF Path
  <2>6. ~(l.j > Len(Path(l.k))) => InPass(l)
    BY <2>4, <2>5 DEF InPass
  <2>7. \/ th' = [th EXCEPT ![t] = [l EXCEPT !.pc = "nosit"]]
        \/ ~(l.j > Len(Path(l.k))) /\ th' = [th EXCEPT ![t] = [l EXCEPT !.pc = "addx"]]
        \/ th' = [th EXCEPT ![t] = [l EXCEPT !.j = @ + 1]]
    BY <1>0, <1>8, Zenon DEF AddScan, Go
  <2> QED
    BY <2>1, <2>2, <2>3, <2>6, <2>7
<1> QED
  BY <1>7, <1>8

-----------------------------------------------------------------------------
(* Steps that write a node that the call owns.                             *)

LEMMA SetStep ==
  ASSUME AtomicInv, UNCHANGED client, NEW t \in Threads, SetNode(t) \/ SetData(t) \/ AddHold(t)
  PROVE  AtomicInv'
<1>0. PICK l : l = th[t]
  OBVIOUS
<1>1. /\ l \in Locals /\ LocalsOK(l) /\ KnownOK(l) /\ clock \in Nat /\ expire \in [Index -> Nat]
      /\ x \in [Index -> Int] /\ y \in [Index -> Nat] /\ data \in [Index -> Nat]
      /\ seat \in [Seats -> Link] /\ ncur \in Nat /\ freelist \in ListHead
  BY <1>0, OfCall DEF CallOK
<1>2. l.pc \in {"set", "setdata", "addhold"} /\ l.pc \in Building
  BY <1>0 DEF SetNode, SetData, AddHold, At, Building
<1>3. /\ l.k \in Keys /\ l.op = "add" /\ l.ni \in Index /\ l.ni # NNULL
      /\ Owned(l) = {l.ni} /\ Holds(l) = {} /\ NotCounting(l)
  BY <1>1, <1>2, OfBuilder
<1>4. hx(l.k) \in Int /\ l.k \in Nat
  BY <1>3, HashOK
<1>5. ASSUME NEW m \in Locals, m.pc \in {"setdata", "addscan", "addcas"}, m.k = l.k, m.op = l.op, m.ni = l.ni,
             th' = [th EXCEPT ![t] = m], m.pc = "addcas" => InPass(m) /\ m.vx = hx(m.k),
             x' \in [Index -> Int], y' \in [Index -> Nat], data' \in [Index -> Nat], expire' \in [Index -> Nat],
             \A i \in Index \ {l.ni} : x'[i] = x[i] /\ y'[i] = y[i] /\ data'[i] = data[i],
             y'[l.ni] = l.k, x'[l.ni] = IF m.pc = "addcas" THEN 0 ELSE hx(l.k),
             m.pc # "setdata" => data'[l.ni] = l.k,
             UNCHANGED <<seat, ncur, freelist, clock>>
      PROVE  AtomicInv'
  <2>1. m.pc \in Building \ {"set"}
    BY <1>5 DEF Building
  <2>2. LocalsOK(m) /\ Owned(m) = {m.ni} /\ Holds(m) = {} /\ NotCounting(m)
    BY <2>1, <1>3, <1>5, BuilderOK
  <2>3. m.pc \notin Holding \cup {"take"} \cup Freeing \cup Placed \cup Popping \cup {"freecas", "newcas"}
    BY <2>1 DEF Building, Holding, Freeing, Placed, Popping
  <2>4. KnownOK(m)'
    BY <2>1, <2>3, <1>5 DEF KnownOK, hx
  <2>5. CallOK(m)'
    BY <2>2, <2>3, <2>4 DEF CallOK, LocalsOK, HeadOK, InPass, hx
  <2>6. Write(t, m, l.ni)
    BY <1>1, <1>5 DEF Write
  <2>7. y'[l.ni] \in Keys /\ x'[l.ni] \in {0, hx(y'[l.ni])}
    BY <1>3, <1>5
  <2> QED
    BY <2>2, <2>5, <2>6, <2>7, <1>0, <1>3, <1>5, OwnedWrite
<1>6. CASE SetNode(t)
  <2>1. PICK m : m = [l EXCEPT !.pc = "setdata"]
    OBVIOUS
  <2>2. m \in Locals /\ m.pc = "setdata" /\ m.k = l.k /\ m.op = l.op /\ m.ni = l.ni
    BY <2>1, <1>1 DEF Locals, Pcs, Building
  <2>3. /\ th' = [th EXCEPT ![t] = m] /\ UNCHANGED <<expire, data, seat, ncur, freelist, clock>>
        /\ x' = [x EXCEPT ![l.ni] = hx(l.k)] /\ y' = [y EXCEPT ![l.ni] = l.k]
    BY <2>1, <1>0, <1>6 DEF SetNode, Go
  <2>4. x' \in [Index -> Int] /\ y' \in [Index -> Nat] /\ x'[l.ni] = hx(l.k) /\ y'[l.ni] = l.k
        /\ \A i \in Index \ {l.ni} : x'[i] = x[i] /\ y'[i] = y[i] /\ data'[i] = data[i]
    BY ONLY <2>3, <1>1, <1>3, <1>4
  <2> QED
    BY <2>2, <2>3, <2>4, <1>1, <1>5
<1>7. CASE SetData(t)
  <2>1. PICK m : m = [l EXCEPT !.pc = "addscan", !.j = 1]
    OBVIOUS
  <2>2. m \in Locals /\ m.pc = "addscan" /\ m.k = l.k /\ m.op = l.op /\ m.ni = l.ni
    BY <2>1, <1>1, PosOK DEF Locals, Pcs, Building
  <2>3. /\ th' = [th EXCEPT ![t] = m] /\ UNCHANGED <<x, y, seat, ncur, freelist, clock>>
        /\ expire' = [expire EXCEPT ![l.ni] = IF l.ttl > 0 THEN l.ttl + l.now ELSE 0]
        /\ data' = [data EXCEPT ![l.ni] = l.k]
    BY <2>1, <1>0, <1>7 DEF SetData, Go
  <2>4. l.ttl + l.now \in Nat
    BY <1>1 DEF Locals
  <2>5. expire' \in [Index -> Nat] /\ data' \in [Index -> Nat] /\ data'[l.ni] = l.k
        /\ \A i \in Index \ {l.ni} : data'[i] = data[i]
    BY ONLY <2>3, <2>4, <1>1, <1>3, <1>4
  <2>6. x[l.ni] = hx(l.k) /\ y[l.ni] = l.k
    <3>1. l.pc = "setdata"
      BY <1>0, <1>7 DEF SetData, At
    <3> QED
      BY <3>1, <1>1, <1>2 DEF KnownOK
  <2> QED
    BY <2>2, <2>3, <2>5, <2>6, <1>1, <1>5
<1>8. CASE AddHold(t)
  <2>1. PICK m : m = [l EXCEPT !.pc = "addcas"]
    OBVIOUS
  <2>2. m \in Locals /\ m.pc = "addcas" /\ m.k = l.k /\ m.op = l.op /\ m.ni = l.ni /\ m.vx = l.vx /\ m.j = l.j
    BY <2>1, <1>1 DEF Locals, Pcs, Building
  <2>3. /\ th' = [th EXCEPT ![t] = m] /\ UNCHANGED <<y, expire, data, seat, ncur, freelist, clock>>
        /\ x' = [x EXCEPT ![l.ni] = 0]
    BY <2>1, <1>0, <1>8 DEF AddHold, Go
  <2>4. x' \in [Index -> Int] /\ x'[l.ni] = 0 /\ \A i \in Index \ {l.ni} : x'[i] = x[i]
    BY ONLY <2>3, <1>1, <1>3
  <2>5. l.pc = "addhold"
    BY <1>0, <1>8 DEF AddHold, At
  <2>6. InPass(l) /\ l.vx = hx(l.k) /\ y[l.ni] = l.k /\ data[l.ni] = l.k
    BY <2>5, <1>1, <1>2 DEF KnownOK, LocalsOK
  <2>7. InPass(m) /\ m.vx = hx(m.k)
    BY <2>2, <2>6 DEF InPass
  <2> QED
    BY <2>2, <2>3, <2>4, <2>6, <2>7, <1>1, <1>5
<1> QED
  BY <1>6, <1>7, <1>8

(* A call that gives a node back. *)
LEMMA FreerOK ==
  ASSUME NEW m \in Locals, m.pc \in Freeing, m.k \in Keys, m.op \in Ops, m.ni # NNULL => m.op = "add",
         m.mi \in Index, m.then # "equal", m.then = "idle" => m.ni \in {NNULL, m.mi},
         m.then # "idle" => m.ni # m.mi, m.then = "giveback" => m.ni # NNULL
  PROVE  /\ LocalsOK(m) /\ Owned(m) = ({m.ni} \ {NNULL}) \cup {m.mi} /\ Holds(m) = {} /\ NotCounting(m)
         /\ m.pc \notin Holding \cup {"take"} \cup Placed \cup Building \cup Popping
<1>1. /\ m.pc # "idle" /\ m.pc # "take" /\ m.pc # "giveback" /\ m.pc # "new" /\ m.pc \notin Found
      /\ m.pc \notin Wanted /\ m.pc \notin Holding /\ m.pc \notin Clearing /\ m.pc \notin Building
      /\ m.pc \notin Popping /\ m.pc \notin Placed
      /\ m.pc \notin {"check", "hook", "unhold", "unholdcas", "addx", "addhold", "addcas", "addcount", "uncount"}
  BY DEF Found, Wanted, Holding, Clearing, Freeing, Popping, Building, Placed
<1>2. LocalsOK(m)
  BY <1>1 DEF LocalsOK
<1>3. Owned(m) = ({m.ni} \ {NNULL}) \cup {m.mi} /\ Holds(m) = {} /\ NotCounting(m)
  BY <1>1 DEF Owned, Kept, Dropped, Holds, NotCounting
<1> QED
  BY <1>1, <1>2, <1>3

LEMMA WipeStep ==
  ASSUME AtomicInv, UNCHANGED client, NEW t \in Threads, Wipe(t)
  PROVE  AtomicInv'
<1>0. PICK l : l = th[t]
  OBVIOUS
<1>1. /\ l \in Locals /\ LocalsOK(l) /\ KnownOK(l) /\ clock \in Nat /\ expire \in [Index -> Nat]
      /\ x \in [Index -> Int] /\ y \in [Index -> Nat] /\ data \in [Index -> Nat]
      /\ seat \in [Seats -> Link] /\ ncur \in Nat /\ freelist \in ListHead
  BY <1>0, OfCall DEF CallOK
<1>2. l.pc = "wipe" /\ l.pc \in Clearing /\ l.pc \notin Building \cup Placed /\ l.pc # "idle"
  BY <1>0 DEF Wipe, At, Clearing, Building, Placed
<1>3. /\ l.k \in Keys /\ l.op \in Ops /\ l.mi \in Index /\ l.ni # l.mi /\ (l.ni # NNULL => l.op = "add")
      /\ l.ni # NNULL => y[l.ni] = 0 /\ l.ni \in Index
  BY <1>1, <1>2, NoIndex DEF LocalsOK, KnownOK, Locals
<1>4. Owned(l) = ({l.ni} \ {NNULL}) \cup {l.mi} /\ Holds(l) = {} /\ NotCounting(l)
  BY <1>2 DEF Owned, Kept, Dropped, Holds, NotCounting, Holding, Clearing, Freeing, Placed
<1>5. /\ UNCHANGED <<seat, ncur, freelist, clock>>
      /\ x' = [x EXCEPT ![l.mi] = 0] /\ y' = [y EXCEPT ![l.mi] = 0]
      /\ expire' = [expire EXCEPT ![l.mi] = 0] /\ data' = [data EXCEPT ![l.mi] = 0]
  BY <1>0 DEF Wipe, WipeInto
<1>6. /\ x' \in [Index -> Int] /\ y' \in [Index -> Nat] /\ data' \in [Index -> Nat] /\ expire' \in [Index -> Nat]
      /\ y'[l.mi] = 0
      /\ \A i \in Index \ {l.mi} : x'[i] = x[i] /\ y'[i] = y[i] /\ data'[i] = data[i]
  BY ONLY <1>5, <1>1, <1>3
<1>7. ASSUME NEW m \in Locals, th' = [th EXCEPT ![t] = m], LocalsOK(m), KnownOK(m)', HeadOK(m)', NotCounting(m),
             Owned(m) = Owned(l), Holds(m) = {}
      PROVE  AtomicInv'
  <2>1. CallOK(m)'
    BY <1>7 DEF CallOK, LocalsOK, InPass, hx
  <2>2. Write(t, m, l.mi)
    BY <1>1, <1>5, <1>6, <1>7 DEF Write
  <2> QED
    BY <2>1, <2>2, <1>0, <1>4, <1>5, <1>6, <1>7, OwnedWrite
<1>8. CASE l.op = "add" /\ l.ni = NNULL /\ th' = [th EXCEPT ![t] = [Next1(l) EXCEPT !.ni = l.mi]]
  <2>1. PICK m : m = [Next1(l) EXCEPT !.ni = l.mi]
    OBVIOUS
  <2>2. m \in Locals /\ m.pc = "scan" /\ m.k = l.k /\ m.op = l.op /\ m.ni = l.mi
    BY <2>1, <1>1, <1>3, PcsOK, PosOK DEF Locals, Next1
  <2>3. LocalsOK(m) /\ NotCounting(m)
    BY <2>2, <1>3, <1>8
       DEF LocalsOK, NotCounting, Found, Wanted, Holding, Clearing, Freeing, Popping, Building, Placed
  <2>4. KnownOK(m)' /\ HeadOK(m)'
    BY <2>2, <1>6 DEF KnownOK, HeadOK, Holding, Freeing, Popping, Building, Placed
  <2>5. Owned(m) = Owned(l) /\ Holds(m) = {}
    BY <2>2, <1>3, <1>4, <1>8, NoIndex DEF Owned, Kept, Dropped, Holds, Holding, Clearing, Freeing, Placed
  <2> QED
    BY <2>1, <2>2, <2>3, <2>4, <2>5, <1>7, <1>8
<1>9. ASSUME NEW q \in {"next", "giveback", "idle"}, q = "giveback" => l.ni # NNULL, q = "idle" => l.ni = NNULL,
             th' = [th EXCEPT ![t] = [l EXCEPT !.pc = "free", !.then = q]]
      PROVE  AtomicInv'
  <2>1. PICK m : m = [l EXCEPT !.pc = "free", !.then = q]
    OBVIOUS
  <2>2. m \in Locals /\ m.pc = "free" /\ m.k = l.k /\ m.op = l.op /\ m.ni = l.ni /\ m.mi = l.mi /\ m.then = q
    BY ONLY <2>1, <1>1, q \in {"next", "giveback", "idle"} DEF Locals, Pcs, Freeing
  <2>3. m.pc \in Freeing /\ m.pc # "freecas" /\ m.pc # "newcas"
    BY <2>2 DEF Freeing
  <2>4. /\ LocalsOK(m) /\ Owned(m) = ({m.ni} \ {NNULL}) \cup {m.mi} /\ Holds(m) = {} /\ NotCounting(m)
        /\ m.pc \notin Holding \cup {"take"} \cup Placed \cup Building \cup Popping
    BY <2>2, <2>3, <1>3, <1>9, FreerOK
  <2>5. m.ni # NNULL => y'[m.ni] = 0
    BY <2>2, <1>3, <1>6
  <2>6. KnownOK(m)' /\ HeadOK(m)'
    BY <2>2, <2>3, <2>4, <2>5, <1>6 DEF KnownOK, HeadOK
  <2> QED
    BY <2>1, <2>2, <2>4, <2>6, <1>4, <1>7, <1>9
<1>10. \/ l.op = "add" /\ l.ni = NNULL /\ th' = [th EXCEPT ![t] = [Next1(l) EXCEPT !.ni = l.mi]]
       \/ th' = [th EXCEPT ![t] = [l EXCEPT !.pc = "free", !.then = "next"]]
       \/ l.ni # NNULL /\ th' = [th EXCEPT ![t] = [l EXCEPT !.pc = "free", !.then = "giveback"]]
       \/ l.ni = NNULL /\ th' = [th EXCEPT ![t] = [l EXCEPT !.pc = "free", !.then = "idle"]]
  BY <1>0, <1>3, Zenon DEF Wipe, Go
<1> QED
  BY <1>8, <1>9, <1>10

LEMMA FreeStep ==
  ASSUME AtomicInv, UNCHANGED client, NEW t \in Threads, Free(t)
  PROVE  AtomicInv'
<1>0. PICK l : l = th[t]
  OBVIOUS
<1>1. /\ l \in Locals /\ LocalsOK(l) /\ KnownOK(l) /\ clock \in Nat /\ expire \in [Index -> Nat]
      /\ x \in [Index -> Int] /\ y \in [Index -> Nat] /\ data \in [Index -> Nat]
      /\ seat \in [Seats -> Link] /\ ncur \in Nat /\ freelist \in ListHead
  BY <1>0, OfCall DEF CallOK
<1>2. l.pc = "free" /\ l.pc \in Freeing /\ l.pc \notin Building \cup Placed /\ l.pc # "idle"
  BY <1>0 DEF Free, At, Freeing, Building, Placed
<1>3. /\ l.k \in Keys /\ l.op \in Ops /\ l.mi \in Index /\ (l.ni # NNULL => l.op = "add")
      /\ l.then # "equal" /\ (l.then = "idle" => l.ni \in {NNULL, l.mi})
      /\ (l.then # "idle" => l.ni # l.mi) /\ (l.then = "giveback" => l.ni # NNULL)
      /\ (l.ni # NNULL => y[l.ni] = 0) /\ y[l.mi] = 0
  BY <1>1, <1>2 DEF LocalsOK, KnownOK
<1>4. Owned(l) = ({l.ni} \ {NNULL}) \cup {l.mi} /\ Holds(l) = {} /\ NotCounting(l)
  BY <1>1, <1>2, <1>3, FreerOK
<1>5. PICK m : m = [l EXCEPT !.pc = "freecas", !.n = freelist]
  OBVIOUS
<1>6. /\ UNCHANGED <<y, expire, data, seat, ncur, freelist, clock>>
      /\ x' = [x EXCEPT ![l.mi] = freelist.mi] /\ th' = [th EXCEPT ![t] = m]
  BY <1>0, <1>5 DEF Free, Go
<1>7. freelist.mi \in Int /\ freelist.rfn \in Nat
  BY <1>1, AtomicAssumption DEF ListHead, Link, Index, NNULL
<1>8. /\ x' \in [Index -> Int] /\ x'[l.mi] = freelist.mi
      /\ \A i \in Index \ {l.mi} : x'[i] = x[i]
  BY ONLY <1>6, <1>7, <1>1, <1>3
<1>9. /\ m \in Locals /\ m.pc = "freecas" /\ m.k = l.k /\ m.op = l.op /\ m.ni = l.ni /\ m.mi = l.mi
      /\ m.then = l.then /\ m.n = freelist
  BY ONLY <1>5, <1>1 DEF Locals, Pcs, Freeing
<1>10. /\ m.pc \in Freeing /\ m.pc # "newcas"
  BY <1>9 DEF Freeing
<1>11. /\ LocalsOK(m) /\ Owned(m) = ({m.ni} \ {NNULL}) \cup {m.mi} /\ Holds(m) = {} /\ NotCounting(m)
       /\ m.pc \notin Holding \cup {"take"} \cup Placed \cup Building \cup Popping
  BY <1>3, <1>9, <1>10, FreerOK
<1>12. KnownOK(m)'
  BY <1>3, <1>6, <1>8, <1>9, <1>10, <1>11 DEF KnownOK
<1>13. HeadOK(m)'
  BY <1>6, <1>7, <1>9, <1>10 DEF HeadOK, Read
<1>14. CallOK(m)'
  BY <1>11, <1>12, <1>13 DEF CallOK, LocalsOK, InPass, hx
<1>15. Write(t, m, l.mi)
  BY <1>1, <1>6, <1>8, <1>9 DEF Write
<1> QED
  BY <1>0, <1>3, <1>4, <1>6, <1>9, <1>11, <1>14, <1>15, OwnedWrite

LEMMA BackStep ==
  ASSUME AtomicInv, UNCHANGED client, NEW t \in Threads,
         NoSit(t) \/ (AddCas(t) /\ seat[Seat(th[t])] # NNULL)
  PROVE  AtomicInv'
<1>0. PICK l : l = th[t]
  OBVIOUS
<1>1. /\ l \in Locals /\ LocalsOK(l) /\ KnownOK(l) /\ clock \in Nat /\ expire \in [Index -> Nat]
      /\ x \in [Index -> Int] /\ y \in [Index -> Nat] /\ data \in [Index -> Nat]
      /\ seat \in [Seats -> Link] /\ ncur \in Nat /\ freelist \in ListHead
  BY <1>0, OfCall DEF CallOK
<1>2. l.pc \in {"nosit", "addcas"} /\ l.pc \in Building
  BY <1>0 DEF NoSit, AddCas, At, Building
<1>3. /\ l.k \in Keys /\ l.op = "add" /\ l.ni \in Index /\ l.ni # NNULL
      /\ Owned(l) = {l.ni} /\ Holds(l) = {} /\ NotCounting(l)
  BY <1>1, <1>2, OfBuilder
<1>4. hx(l.k) \in Int /\ l.k \in Nat
  BY <1>3, HashOK
<1>5. CASE NoSit(t)
  <2>1. PICK m : m = [l EXCEPT !.pc = "free", !.mi = l.ni, !.then = "idle"]
    OBVIOUS
  <2>2. m \in Locals /\ m.pc = "free" /\ m.mi = l.ni /\ m.ni = l.ni /\ m.then = "idle" /\ m.k = l.k /\ m.op = l.op
    BY <2>1, <1>1 DEF Locals, Pcs, Freeing
  <2>3. /\ UNCHANGED <<seat, ncur, freelist, clock>> /\ th' = [th EXCEPT ![t] = m]
        /\ x' = [x EXCEPT ![l.ni] = 0] /\ y' = [y EXCEPT ![l.ni] = 0]
        /\ expire' = [expire EXCEPT ![l.ni] = 0] /\ data' = [data EXCEPT ![l.ni] = 0]
    BY <2>1, <1>0, <1>5 DEF NoSit, WipeInto, Go
  <2>4. /\ x' \in [Index -> Int] /\ y' \in [Index -> Nat] /\ data' \in [Index -> Nat] /\ expire' \in [Index -> Nat]
        /\ y'[l.ni] = 0
        /\ \A i \in Index \ {l.ni} : x'[i] = x[i] /\ y'[i] = y[i] /\ data'[i] = data[i]
    BY ONLY <2>3, <1>1, <1>3
  <2>5. m.pc \in Freeing /\ m.pc # "freecas" /\ m.pc # "newcas" /\ m.op \in Ops
    BY <2>2, <1>3 DEF Freeing, Ops
  <2>6. /\ LocalsOK(m) /\ Owned(m) = ({m.ni} \ {NNULL}) \cup {m.mi} /\ Holds(m) = {} /\ NotCounting(m)
        /\ m.pc \notin Holding \cup {"take"} \cup Placed \cup Building \cup Popping
    BY <2>2, <2>5, <1>3, FreerOK
  <2>7. KnownOK(m)' /\ HeadOK(m)'
    BY <2>2, <2>4, <2>5, <2>6 DEF KnownOK, HeadOK
  <2>8. CallOK(m)'
    BY <2>6, <2>7 DEF CallOK, LocalsOK, InPass, hx
  <2>9. Write(t, m, l.ni)
    BY <2>2, <2>3, <2>4, <1>1 DEF Write
  <2>10. Owned(m) = {l.ni}
    BY <2>2, <2>6, <1>3
  <2> QED
    BY <2>3, <2>4, <2>6, <2>8, <2>9, <2>10, <1>0, <1>3, OwnedWrite
<1>6. CASE AddCas(t) /\ seat[Seat(l)] # NNULL
  <2>1. PICK m : m = [l EXCEPT !.pc = "addscan", !.j = @ + 1]
    OBVIOUS
  <2>2. m \in Locals /\ m.pc = "addscan" /\ m.ni = l.ni /\ m.k = l.k /\ m.op = l.op
    BY <2>1, <1>1, PosOK DEF Locals, Pcs, Building
  <2>3. /\ UNCHANGED <<y, expire, data, seat, ncur, freelist, clock>> /\ th' = [th EXCEPT ![t] = m]
        /\ x' = [x EXCEPT ![l.ni] = l.vx]
    BY <2>1, <1>0, <1>6 DEF AddCas, Go, Seat
  <2>4. l.pc = "addcas"
    BY <1>0, <1>6 DEF AddCas, At
  <2>5. l.vx = hx(l.k) /\ y[l.ni] = l.k /\ data[l.ni] = l.k
    BY <2>4, <1>1, <1>2 DEF LocalsOK, KnownOK
  <2>6. x' \in [Index -> Int] /\ x'[l.ni] = hx(l.k) /\ \A i \in Index \ {l.ni} : x'[i] = x[i]
    BY ONLY <2>3, <2>5, <1>1, <1>3, <1>4
  <2>7. m.pc \in Building
    BY <2>2 DEF Building
  <2>8. LocalsOK(m) /\ Owned(m) = {m.ni} /\ Holds(m) = {} /\ NotCounting(m)
    BY <2>2, <2>7, <1>3, BuilderOK
  <2>9. KnownOK(m)'
    BY <2>2, <2>3, <2>5, <2>6, <2>7 DEF KnownOK, hx, Holding, Freeing, Placed
  <2>10. HeadOK(m)'
    BY <2>2 DEF HeadOK, Popping
  <2>11. CallOK(m)'
    BY <2>8, <2>9, <2>10 DEF CallOK, LocalsOK, InPass, hx
  <2>12. Write(t, m, l.ni)
    BY <2>2, <2>3, <2>6, <1>1 DEF Write
  <2>13. y'[l.ni] \in Keys /\ x'[l.ni] \in {0, hx(y'[l.ni])}
    BY <2>3, <2>5, <2>6, <1>3
  <2> QED
    BY <2>2, <2>3, <2>8, <2>11, <2>12, <2>13, <1>0, <1>3, OwnedWrite
<1> QED
  BY <1>0, <1>5, <1>6

-----------------------------------------------------------------------------
(* Steps that hold a node in a seat or release it.                         *)

(* The node is where the call read it: this is what a stale hold lacks. *)
LEMMA HoldStep ==
  ASSUME AtomicInv, UNCHANGED client, NEW t \in Threads, Hold(t), x[th[t].mi] = th[t].vx,
         seat[Seat(th[t])] = th[t].mi
  PROVE  AtomicInv'
<1>0. PICK l : l = th[t]
  OBVIOUS
<1>1. /\ l \in Locals /\ LocalsOK(l) /\ KnownOK(l) /\ clock \in Nat /\ expire \in [Index -> Nat]
      /\ x \in [Index -> Int] /\ y \in [Index -> Nat] /\ data \in [Index -> Nat]
      /\ seat \in [Seats -> Link] /\ ncur \in Nat /\ freelist \in ListHead
  BY <1>0, OfCall DEF CallOK
<1>2. l.pc = "hold" /\ l.pc \in Wanted
  BY <1>0 DEF Hold, At, Wanted
<1>3. /\ l.k \in Keys /\ l.op \in Ops /\ l.mi \in Index /\ InPass(l) /\ (l.ni # NNULL => l.op = "add")
      /\ (l.ni # NNULL => y[l.ni] = 0) /\ l.pc \notin Placed
      /\ Holds(l) = {} /\ NotCounting(l) /\ Owned(l) = Kept(l)
  BY <1>1, <1>2, AtSeat
<1>4. l.vy \in Keys /\ l.vx = hx(l.vy) /\ (l.purpose = "op" => l.vy = l.k)
  BY <1>1, <1>2 DEF LocalsOK
<1>5. l.mi \in InSeats
  <2>1. Seat(l) \in Seats
    BY <1>1, <1>3, SeatOfCall
  <2> QED
    BY <2>1, <1>0, <1>3, NoIndex DEF InSeats
<1>6. y[l.mi] = l.vy /\ x[l.mi] # 0
  <2>1. y[l.mi] \in Keys /\ (x[l.mi] = hx(y[l.mi]) \/ x[l.mi] = 0)
    BY <1>5, SeatsOK
  <2>2. hx(l.vy) # 0 /\ x[l.mi] = hx(l.vy)
    BY <1>0, <1>4, HashOK
  <2> QED
    BY <2>1, <2>2, <1>4, HashesDiffer
<1>7. PICK m : m = [l EXCEPT !.pc = "held"]
  OBVIOUS
<1>8. "held" \in Pcs /\ "held" \in Holding
  BY PcsOK DEF Holding
<1>9. m \in Locals /\ m.pc = "held" /\ Same(m, l)
  BY <1>1, <1>7, <1>8, SetPc
<1>10. /\ UNCHANGED <<y, expire, data, seat, ncur, freelist, clock>> /\ th' = [th EXCEPT ![t] = m]
       /\ x' = [x EXCEPT ![l.mi] = 0]
  BY <1>0, <1>7 DEF Hold, Go
<1>11. x' \in [Index -> Int] /\ x'[l.mi] = 0 /\ \A i \in Index \ {l.mi} : x'[i] = x[i]
  BY ONLY <1>10, <1>1, <1>3
<1>12. LocalsOK(m)
  BY <1>3, <1>4, <1>9
     DEF LocalsOK, Same, InPass, Found, Wanted, Holding, Clearing, Freeing, Popping, Building, Placed
<1>13. KnownOK(m)'
  BY <1>0, <1>3, <1>6, <1>9, <1>10, <1>11 DEF KnownOK, Same, Seat, Holding, Freeing, Building, Placed
<1>14. HeadOK(m)' /\ NotCounting(m)
  BY <1>9 DEF HeadOK, NotCounting, Popping
<1>15. Owned(m) = Owned(l) /\ Holds(m) = {l.mi}
  BY <1>3, <1>8, <1>9 DEF Owned, Kept, Dropped, Holds, Same, Clearing, Freeing, Placed
<1>16. CallOK(m)'
  BY <1>12, <1>13, <1>14 DEF CallOK, LocalsOK, InPass, hx
<1>17. Write(t, m, l.mi)
  BY <1>1, <1>9, <1>10, <1>11 DEF Write
<1> QED
  BY <1>0, <1>3, <1>5, <1>6, <1>10, <1>11, <1>14, <1>15, <1>16, <1>17, HeldWrite

LEMMA UnholdStep ==
  ASSUME AtomicInv, UNCHANGED client, NEW t \in Threads, UnholdCas(t)
  PROVE  AtomicInv'
<1>0. PICK l : l = th[t]
  OBVIOUS
<1>1. /\ l \in Locals /\ LocalsOK(l) /\ KnownOK(l) /\ clock \in Nat /\ expire \in [Index -> Nat]
      /\ x \in [Index -> Int] /\ y \in [Index -> Nat] /\ data \in [Index -> Nat]
      /\ seat \in [Seats -> Link] /\ ncur \in Nat /\ freelist \in ListHead
  BY <1>0, OfCall DEF CallOK
<1>2. l.pc = "unholdcas" /\ l.pc \in Holding
  BY <1>0 DEF UnholdCas, At, Holding
<1>3. /\ l.k \in Keys /\ l.op \in Ops /\ l.mi \in Index /\ InPass(l) /\ (l.ni # NNULL => l.op = "add")
      /\ (l.ni # NNULL => y[l.ni] = 0) /\ l.pc \notin Placed
      /\ Holds(l) = {l.mi} /\ NotCounting(l) /\ Owned(l) = Kept(l)
  BY <1>1, <1>2, AtSeat
<1>4. /\ l.vy \in Keys /\ l.vx = hx(l.vy) /\ y[l.mi] = l.vy /\ x[l.mi] = 0
      /\ (l.then = "idle" => l.ni = NNULL) /\ (l.then = "giveback" => l.ni # NNULL)
  BY <1>1, <1>2 DEF LocalsOK, KnownOK
<1>5. hx(l.vy) \in Int
  BY <1>4, HashOK
<1>6. l.mi \in InSeats
  BY <1>0, <1>3, OwnedIndex
<1>7. PICK m : m = Jump(l, l.then)
  OBVIOUS
<1>8. /\ UNCHANGED <<y, expire, data, seat, ncur, freelist, clock>> /\ th' = [th EXCEPT ![t] = m]
      /\ x' = [x EXCEPT ![l.mi] = l.vx]
  BY <1>0, <1>4, <1>7 DEF UnholdCas, Go
<1>9. x' \in [Index -> Int] /\ x'[l.mi] = hx(l.vy) /\ \A i \in Index \ {l.mi} : x'[i] = x[i]
  BY ONLY <1>8, <1>1, <1>3, <1>4, <1>5
<1>10. m \in Locals /\ LocalsOK(m) /\ m.pc \in {"idle", "scan", "equal", "giveback"} /\ m.ni = l.ni
  <2>1. l.then \in {"idle", "next", "equal", "giveback"}
    BY <1>1 DEF Locals
  <2>2. CASE l.then = "idle"
    <3>1. m = Idle
      BY <2>2, <1>7 DEF Jump
    <3> QED
      BY <3>1, <2>2, <1>4, IdleOK
  <2>3. CASE l.then = "next"
    <3>1. m = Next1(l)
      BY <2>3, <1>7 DEF Jump
    <3> QED
      BY <3>1, <1>1, <1>2, PastSeat
  <2>4. CASE l.then \in {"equal", "giveback"}
    <3>1. m = [l EXCEPT !.pc = l.then]
      BY <2>4, <1>7 DEF Jump
    <3>2. l.then \in Pcs
      BY <2>4, PcsOK DEF Found
    <3>3. m \in Locals /\ m.pc = l.then /\ Same(m, l)
      BY <3>1, <3>2, <1>1, SetPc
    <3>4. LocalsOK(m)
      BY <3>3, <2>4, <1>3, <1>4
         DEF LocalsOK, Same, InPass, Found, Wanted, Holding, Clearing, Freeing, Popping, Building, Placed
    <3> QED
      BY <3>3, <3>4, <2>4 DEF Same
  <2> QED
    BY <2>1, <2>2, <2>3, <2>4
<1>11. /\ m.pc \notin Holding /\ m.pc # "take" /\ m.pc \notin Freeing /\ m.pc \notin Building /\ m.pc \notin Placed
       /\ m.pc \notin Popping /\ m.pc \notin Clearing /\ m.pc \notin {"freecas", "newcas", "addcas"}
       /\ NotCounting(m)
  BY <1>10 DEF NotCounting, Holding, Clearing, Freeing, Popping, Building, Placed
<1>12. KnownOK(m)' /\ HeadOK(m)'
  BY <1>3, <1>8, <1>10, <1>11 DEF KnownOK, HeadOK
<1>13. Owned(m) = Owned(l) /\ Holds(m) = {}
  BY <1>3, <1>10, <1>11 DEF Owned, Kept, Dropped, Holds
<1>14. CallOK(m)'
  BY <1>10, <1>12 DEF CallOK, LocalsOK, InPass, hx
<1>15. Write(t, m, l.mi)
  BY <1>1, <1>8, <1>9, <1>10 DEF Write
<1> QED
  BY <1>0, <1>3, <1>4, <1>6, <1>8, <1>9, <1>11, <1>13, <1>14, <1>15, HeldWrite

LEMMA OfPlaced ==
  ASSUME NEW l \in Locals, LocalsOK(l), KnownOK(l), l.pc \in Placed
  PROVE  /\ l.k \in Keys /\ l.op = "add" /\ l.ni \in Index /\ InPass(l) /\ l.vx = hx(l.k)
         /\ y[l.ni] = l.k /\ data[l.ni] = l.k /\ x[l.ni] = 0 /\ seat[Seat(l)] = l.ni
         /\ Owned(l) = {} /\ Holds(l) = {l.ni}
<1>1. /\ l.k \in Keys /\ l.op = "add" /\ l.ni \in Index /\ InPass(l) /\ l.vx = hx(l.k)
  BY NotIdle, NoIndex DEF LocalsOK, Locals
<1>2. y[l.ni] = l.k /\ data[l.ni] = l.k /\ x[l.ni] = 0 /\ seat[Seat(l)] = l.ni
  BY DEF KnownOK
<1>3. Owned(l) = {} /\ Holds(l) = {l.ni}
  BY DEF Owned, Kept, Dropped, Holds, Holding, Clearing, Freeing, Placed
<1> QED
  BY <1>1, <1>2, <1>3

LEMMA AddHookStep ==
  ASSUME AtomicInv, UNCHANGED client, NEW t \in Threads, AddHook(t)
  PROVE  AtomicInv'
<1>0. PICK l : l = th[t]
  OBVIOUS
<1>1. /\ l \in Locals /\ LocalsOK(l) /\ KnownOK(l) /\ clock \in Nat /\ expire \in [Index -> Nat]
      /\ x \in [Index -> Int] /\ y \in [Index -> Nat] /\ data \in [Index -> Nat]
      /\ seat \in [Seats -> Link] /\ ncur \in Nat /\ freelist \in ListHead
  BY <1>0, OfCall DEF CallOK
<1>2. l.pc = "addhook" /\ l.pc \in Placed /\ NotCounting(l)
  BY <1>0 DEF AddHook, At, Placed, NotCounting
<1>3. /\ l.k \in Keys /\ l.op = "add" /\ l.ni \in Index /\ InPass(l) /\ l.vx = hx(l.k)
      /\ y[l.ni] = l.k /\ data[l.ni] = l.k /\ x[l.ni] = 0 /\ seat[Seat(l)] = l.ni
      /\ Owned(l) = {} /\ Holds(l) = {l.ni}
  BY <1>1, <1>2, OfPlaced
<1>4. UNCHANGED <<y, data, seat, ncur, freelist, clock>>
  BY DEF AddHook
<1>5. CASE /\ x' = [x EXCEPT ![l.ni] = l.vx] /\ Prolonged(l.ni) /\ th' = [th EXCEPT ![t] = Idle]
  <2>1. hx(l.k) \in Int
    BY <1>3, HashOK
  <2>2. x' \in [Index -> Int] /\ x'[l.ni] = hx(l.k) /\ \A i \in Index \ {l.ni} : x'[i] = x[i]
    BY ONLY <2>1, <1>1, <1>3, <1>5
  <2>3. expire' \in [Index -> Nat]
    BY <1>5, ExpiryOK
  <2>4. Write(t, Idle, l.ni)
    BY <2>2, <2>3, <1>1, <1>4, <1>5, IdleOK DEF Write
  <2>5. CallOK(Idle)'
    BY IdleOK DEF CallOK, LocalsOK, KnownOK, HeadOK, InPass, hx, Holding, Freeing, Popping, Building, Placed
  <2>6. l.ni \in InSeats
    BY <1>0, <1>3, OwnedIndex
  <2> QED
    BY <2>2, <2>4, <2>5, <2>6, <1>0, <1>2, <1>3, <1>4, IdleOK, HeldWrite
<1>6. CASE /\ th' = [th EXCEPT ![t] = [l EXCEPT !.pc = "take", !.mi = l.ni, !.ni = NNULL, !.purpose = "op"]]
           /\ UNCHANGED <<x, expire>>
  <2>1. PICK m : m = [l EXCEPT !.pc = "take", !.mi = l.ni, !.ni = NNULL, !.purpose = "op"]
    OBVIOUS
  <2>2. /\ m \in Locals /\ m.pc = "take" /\ m.mi = l.ni /\ m.ni = NNULL /\ m.k = l.k /\ m.op = l.op /\ m.j = l.j
    BY <2>1, <1>1, NoIndex, PcsOK DEF Locals
  <2>3. LocalsOK(m) /\ NotCounting(m)
    BY <2>2, <1>3
       DEF LocalsOK, NotCounting, InPass, Ops, Found, Wanted, Holding, Clearing, Freeing, Popping, Building, Placed
  <2>4. KnownOK(m) /\ HeadOK(m)
    BY <2>2, <1>3 DEF KnownOK, HeadOK, Seat, Holding, Freeing, Popping, Building, Placed
  <2>5. Owned(m) = {} /\ Holds(m) = {l.ni}
    BY <2>2 DEF Owned, Kept, Dropped, Holds, Holding, Clearing, Freeing, Placed
  <2> QED
    BY <2>1, <2>2, <2>3, <2>4, <2>5, <1>0, <1>1, <1>2, <1>3, <1>4, <1>6, LocalStep
<1> QED
  BY <1>0, <1>5, <1>6, Zenon DEF AddHook, Go

-----------------------------------------------------------------------------
(* Steps that change ncur, or what it has to count.                        *)

LEMMA Counts ==
  /\ IsFiniteSet(Settled) /\ IsFiniteSet(Leaving)
  /\ Cardinality(Settled) \in Nat /\ Cardinality(Leaving) \in Nat
<1>1. IsFiniteSet(1 .. Len(Extra))
  BY SeatOfExtra, FS_Interval
<1>2. IsFiniteSet(Settled)
  BY <1>1, FS_Subset DEF Settled
<1>3. IsFiniteSet(Leaving)
  BY AtomicAssumption, FS_Subset DEF Leaving
<1> QED
  BY <1>2, <1>3, FS_CardinalityType

(* The seat a call is at, in the collision array or not. *)
LEMMA SeatIsExtra ==
  ASSUME NEW l \in Locals, l.k \in Keys, InPass(l)
  PROVE  /\ InExtra(l.k, l.j) => \E e \in 1 .. Len(Extra) : /\ Seat(l) = Extra[e]
                                                            /\ \A d \in 1 .. Len(Extra) : Extra[d] = Seat(l) => d = e
         /\ ~InExtra(l.k, l.j) => \A e \in 1 .. Len(Extra) : Extra[e] # Seat(l)
<1>1. l.j \in Nat \ {0} /\ l.j <= Len(Path(l.k))
  BY SeatOfCall
<1>2. IF InExtra(l.k, l.j) THEN /\ l.j - Len(Main(l.k)) \in 1 .. Len(Extra)
                                /\ Seat(l) = Extra[l.j - Len(Main(l.k))]
      ELSE \A i \in 1 .. Len(Extra) : Seat(l) # Extra[i]
  BY <1>1, SeatOfPath DEF Seat
<1>3. \A i, j \in 1 .. Len(Extra) : Extra[i] = Extra[j] => i = j
  BY AtomicAssumption
<1> QED
  BY <1>2, <1>3

(* A node that one call has placed is counted by no other. *)
LEMMA AddingHeld ==
  ASSUME AtomicInv, NEW t \in Threads, NEW i \in Holds(th[t]), Adding(i)
  PROVE  th[t].pc = "addcount"
<1>1. PICK u \in Threads : th[u].pc = "addcount" /\ th[u].ni = i
  BY DEF Adding, At
<1>2. i \in Holds(th[u])
  BY <1>1 DEF Holds, Holding, Placed
<1>3. t = u
  BY <1>2 DEF AtomicInv, Apart
<1> QED
  BY <1>1, <1>3

LEMMA UncountStep ==
  ASSUME AtomicInv, UNCHANGED client, NEW t \in Threads, Uncount(t)
  PROVE  AtomicInv'
<1>0. PICK l : l = th[t]
  OBVIOUS
<1>1. /\ l \in Locals /\ LocalsOK(l) /\ KnownOK(l) /\ clock \in Nat /\ expire \in [Index -> Nat]
      /\ ncur \in Nat /\ CountOK
  BY <1>0, OfCall DEF CallOK, AtomicInv
<1>2. l.pc = "uncount" /\ l.pc \in Clearing
  BY <1>0 DEF Uncount, At, Clearing
<1>3. PICK m : m = [l EXCEPT !.pc = "wipe"]
  OBVIOUS
<1>4. "wipe" \in Pcs
  BY PcsOK DEF Clearing
<1>5. m \in Locals /\ m.pc = "wipe" /\ Same(m, l)
  BY <1>1, <1>3, <1>4, SetPc
<1>6. /\ UNCHANGED <<x, y, expire, data, seat, freelist, clock>> /\ th' = [th EXCEPT ![t] = m]
      /\ ncur' = ncur - 1
  BY <1>0, <1>3 DEF Uncount, Go, node
<1>7. LocalsOK(m)
  BY <1>1, <1>2, <1>5
     DEF LocalsOK, Same, Found, Wanted, Holding, Clearing, Freeing, Popping, Building, Placed
<1>8. KnownOK(m) /\ HeadOK(m)
  BY <1>1, <1>2, <1>5 DEF KnownOK, HeadOK, Same, Holding, Clearing, Freeing, Popping, Building, Placed
<1>9. Owned(m) = Owned(l) /\ Holds(m) = Holds(l)
  BY <1>2, <1>5 DEF Owned, Kept, Dropped, Holds, Same, Holding, Clearing, Freeing, Placed
<1>10. th \in [Threads -> Locals]
  BY DEF AtomicInv, AtomicTypeOK
<1>11. th'[t] = m /\ \A u \in Threads \ {t} : th'[u] = th[u]
  BY <1>6, <1>10
<1>12. \A i : Adding(i)' <=> Adding(i)
  BY <1>0, <1>2, <1>5, <1>11 DEF Adding, At
<1>13. Settled' = Settled
  BY <1>6, <1>12 DEF Settled
<1>14. Leaving' = Leaving \ {t} /\ t \in Leaving
  BY <1>0, <1>2, <1>5, <1>11 DEF Leaving, At
<1>15. Cardinality(Leaving \ {t}) = Cardinality(Leaving) - 1 /\ Cardinality(Leaving \ {t}) \in Nat
  <2>1. IsFiniteSet(Leaving \ {t}) /\ Cardinality(Leaving \ {t}) = Cardinality(Leaving) - 1
    BY <1>14, Counts, FS_RemoveElement
  <2> QED
    BY <2>1, FS_CardinalityType
<1>16. CountOK' /\ ncur' \in Nat
  BY <1>1, <1>6, <1>13, <1>14, <1>15, Counts DEF CountOK
<1> QED
  BY <1>0, <1>1, <1>5, <1>6, <1>7, <1>8, <1>9, <1>16, CountStep

LEMMA AddCountStep ==
  ASSUME AtomicInv, UNCHANGED client, NEW t \in Threads, AddCount(t)
  PROVE  AtomicInv'
<1>0. PICK l : l = th[t]
  OBVIOUS
<1>1. /\ l \in Locals /\ LocalsOK(l) /\ KnownOK(l) /\ clock \in Nat /\ expire \in [Index -> Nat]
      /\ ncur \in Nat /\ CountOK /\ seat \in [Seats -> Link] /\ OneSeatEach
  BY <1>0, OfCall DEF CallOK, AtomicInv
<1>2. l.pc = "addcount" /\ l.pc \in Placed
  BY <1>0 DEF AddCount, At, Placed
<1>3. /\ l.k \in Keys /\ l.op = "add" /\ l.ni \in Index /\ InPass(l) /\ l.vx = hx(l.k)
      /\ y[l.ni] = l.k /\ data[l.ni] = l.k /\ x[l.ni] = 0 /\ seat[Seat(l)] = l.ni
      /\ Owned(l) = {} /\ Holds(l) = {l.ni}
  BY <1>1, <1>2, OfPlaced
<1>4. PICK m : m = [l EXCEPT !.pc = "addhook"]
  OBVIOUS
<1>5. "addhook" \in Pcs /\ "addhook" \in Placed
  BY PcsOK DEF Placed
<1>6. m \in Locals /\ m.pc = "addhook" /\ Same(m, l)
  BY <1>1, <1>4, <1>5, SetPc
<1>7. /\ UNCHANGED <<x, y, expire, data, seat, freelist, clock>> /\ th' = [th EXCEPT ![t] = m]
      /\ ncur' = ncur + 1
  BY <1>0, <1>4 DEF AddCount, Go, node
<1>8. LocalsOK(m)
  BY <1>1, <1>2, <1>6
     DEF LocalsOK, Same, InPass, Found, Wanted, Holding, Clearing, Freeing, Popping, Building, Placed
<1>9. KnownOK(m) /\ HeadOK(m)
  BY <1>3, <1>6 DEF KnownOK, HeadOK, Same, Seat, Holding, Freeing, Popping, Building, Placed
<1>10. Owned(m) = {} /\ Holds(m) = {l.ni}
  BY <1>6 DEF Owned, Kept, Dropped, Holds, Same, Holding, Clearing, Freeing, Placed
<1>11. th \in [Threads -> Locals]
  BY DEF AtomicInv, AtomicTypeOK
<1>12. th'[t] = m /\ \A u \in Threads \ {t} : th'[u] = th[u]
  BY <1>7, <1>11
<1>13. \A u \in Threads \ {t} : th[u].pc = "addcount" => th[u].ni # l.ni
  <2> SUFFICES ASSUME NEW u \in Threads \ {t}, th[u].pc = "addcount", th[u].ni = l.ni PROVE FALSE
    OBVIOUS
  <2>1. l.ni \in Holds(th[u])
    BY DEF Holds, Holding, Placed
  <2> QED
    BY <2>1, <1>0, <1>3 DEF AtomicInv, Apart
<1>14. \A i : Adding(i)' <=> Adding(i) /\ i # l.ni
  BY <1>0, <1>2, <1>6, <1>12, <1>13 DEF Adding, At
<1>15. Adding(l.ni)
  BY <1>0, <1>2 DEF Adding, At
<1>16. Leaving' = Leaving
  BY <1>0, <1>2, <1>6, <1>12 DEF Leaving, At
<1>17. InExtra(l.k, l.j)
  BY <1>1, <1>2 DEF LocalsOK
<1>18. PICK e \in 1 .. Len(Extra) : Seat(l) = Extra[e] /\ \A d \in 1 .. Len(Extra) : Extra[d] = Seat(l) => d = e
  BY <1>1, <1>3, <1>17, SeatIsExtra
<1>19. l.ni # NNULL
  BY <1>3, NoIndex
<1>20. \A d \in 1 .. Len(Extra) : seat[Extra[d]] = l.ni => d = e
  <2>1. \A d \in 1 .. Len(Extra) : Extra[d] \in Seats
    BY SeatOfExtra
  <2> QED
    BY <2>1, <1>1, <1>3, <1>18, <1>19 DEF OneSeatEach
<1>21. e \notin Settled
  BY <1>3, <1>15, <1>18 DEF Settled
<1>22. Settled' = Settled \cup {e}
  BY <1>3, <1>7, <1>14, <1>18, <1>19, <1>20 DEF Settled
<1>23. Cardinality(Settled \cup {e}) = Cardinality(Settled) + 1
  BY <1>21, Counts, FS_AddElement
<1>24. CountOK' /\ ncur' \in Nat
  BY <1>1, <1>7, <1>16, <1>22, <1>23, Counts DEF CountOK
<1> QED
  BY <1>0, <1>1, <1>3, <1>6, <1>7, <1>8, <1>9, <1>10, <1>24, CountStep

-----------------------------------------------------------------------------
(* Steps that change a seat.                                               *)

LEMMA TakeStep ==
  ASSUME AtomicInv, UNCHANGED client, NEW t \in Threads, Take(t)
  PROVE  AtomicInv'
<1>0. PICK l : l = th[t]
  OBVIOUS
<1>1. /\ l \in Locals /\ LocalsOK(l) /\ KnownOK(l) /\ clock \in Nat /\ expire \in [Index -> Nat]
      /\ x \in [Index -> Int] /\ y \in [Index -> Nat] /\ data \in [Index -> Nat]
      /\ seat \in [Seats -> Link] /\ ncur \in Nat /\ freelist \in ListHead
  BY <1>0, OfCall DEF CallOK
<1>2. Apart /\ OwnedUnseated /\ OneSeatEach /\ NodesOK /\ SeatedOK /\ Pool /\ CountOK
  BY DEF AtomicInv
<1>3. l.pc = "take"
  BY <1>0 DEF Take, At
<1>4. /\ l.k \in Keys /\ l.op \in Ops /\ l.mi \in Index /\ InPass(l) /\ (l.ni # NNULL => l.op = "add")
      /\ (l.ni # NNULL => y[l.ni] = 0) /\ x[l.mi] = 0 /\ seat[Seat(l)] = l.mi
  BY <1>1, <1>3 DEF LocalsOK, KnownOK, Building, Placed
<1>5. Owned(l) = {l.ni} \ {NNULL} /\ Holds(l) = {l.mi}
  BY <1>3 DEF Owned, Kept, Dropped, Holds, Holding, Clearing, Freeing, Placed
<1>6. PICK p : p = IF InExtra(l.k, l.j) THEN "uncount" ELSE "wipe"
  OBVIOUS
<1>7. PICK m : m = [l EXCEPT !.pc = p]
  OBVIOUS
<1>8. p \in Pcs /\ p \in Clearing
  BY <1>6, PcsOK DEF Clearing
<1>9. m \in Locals /\ m.pc = p /\ Same(m, l)
  BY <1>1, <1>7, <1>8, SetPc
<1>10. /\ UNCHANGED <<x, y, expire, data, ncur, freelist, clock>> /\ th' = [th EXCEPT ![t] = m]
       /\ seat' = [seat EXCEPT ![Seat(l)] = NNULL]
  BY <1>0, <1>4, <1>6, <1>7 DEF Take, Go, node, Seat
<1>11. Seat(l) \in Seats
  BY <1>1, <1>4, SeatOfCall
<1>12. /\ seat' \in [Seats -> Link] /\ seat'[Seat(l)] = NNULL
       /\ \A s \in Seats \ {Seat(l)} : seat'[s] = seat[s]
  BY ONLY <1>10, <1>11, <1>1, NoIndex
<1>13. l.mi \in InSeats
  BY <1>0, <1>5, OwnedIndex
<1>14. InSeats' = InSeats \ {l.mi}
  <2>1. \A s \in Seats : seat[s] = l.mi => s = Seat(l)
    BY <1>2, <1>4, <1>11, NoIndex DEF OneSeatEach
  <2>2. \A s \in Seats : seat'[s] = IF s = Seat(l) THEN NNULL ELSE seat[s]
    BY <1>12
  <2>3. InSeats' = {seat'[s] : s \in Seats} \ {NNULL} /\ InSeats = {seat[s] : s \in Seats} \ {NNULL}
    BY DEF InSeats
  <2> QED
    BY ONLY <2>1, <2>2, <2>3, <1>4
<1>15. l.ni # l.mi
  BY <1>0, <1>2, <1>4, <1>5, <1>13, NoIndex DEF OwnedUnseated
<1>16. LocalsOK(m)
  BY <1>4, <1>8, <1>9, <1>15
     DEF LocalsOK, Same, Found, Wanted, Holding, Clearing, Freeing, Popping, Building, Placed
<1>17. KnownOK(m)' /\ HeadOK(m)'
  BY <1>4, <1>8, <1>9, <1>10 DEF KnownOK, HeadOK, Same, Holding, Clearing, Freeing, Popping, Building, Placed
<1>18. Owned(m) = Owned(l) \cup {l.mi} /\ Holds(m) = {}
  BY <1>5, <1>8, <1>9 DEF Owned, Kept, Dropped, Holds, Same, Holding, Clearing, Freeing, Placed
<1>19. CallOK(m)'
  BY <1>16, <1>17 DEF CallOK, LocalsOK, InPass, hx
<1>20. Write(t, m, l.mi)
  BY <1>1, <1>9, <1>10, <1>12 DEF Write
<1>21. \A u \in Threads \ {t} : l.mi \notin Owned(th[u]) /\ l.mi \notin Holds(th[u])
  BY <1>0, <1>2, <1>5, <1>13 DEF Apart, OwnedUnseated
<1>22. Frame(t, l.mi)
  <2>1. l.mi # freelist.mi
    BY <1>13, HeadFree
  <2>2. \A s \in Seats : seat[s] \in Index \ {l.mi} => seat'[s] = seat[s]
    BY <1>4, <1>12
  <2> QED
    BY <2>1, <2>2, <1>10, <1>21 DEF Frame
<1>23. CallsOK'
  BY <1>19, <1>20, <1>22, CallsKept
<1>24. AtomicTypeOK' /\ th'[t] = m /\ \A u \in Threads \ {t} : th'[u] = th[u]
  BY <1>20, WriteType
<1>25. /\ \A u \in Threads \ {t} : Owned(th'[u]) = Owned(th[u]) /\ Holds(th'[u]) = Holds(th[u])
       /\ Owned(th'[t]) = Owned(th[t]) \cup {l.mi} /\ Holds(th'[t]) = {}
  BY <1>0, <1>18, <1>24
<1>26. Apart'
  <2> SUFFICES ASSUME NEW u \in Threads, NEW v \in Threads, u # v
               PROVE  Owned(th'[u]) \cap Owned(th'[v]) = {} /\ Holds(th'[u]) \cap Holds(th'[v]) = {}
    BY DEF Apart
  <2>1. Owned(th[u]) \cap Owned(th[v]) = {} /\ Holds(th[u]) \cap Holds(th[v]) = {}
    BY <1>2 DEF Apart
  <2> QED
    BY <2>1, <1>21, <1>25
<1>27. OwnedUnseated'
  BY <1>2, <1>14, <1>25 DEF OwnedUnseated
<1>28. OneSeatEach' /\ NodesOK'
  <2>1. OneSeatEach'
    <3> SUFFICES ASSUME NEW r \in Seats, NEW s \in Seats, seat'[r] = seat'[s], seat'[r] # NNULL PROVE r = s
      BY DEF OneSeatEach
    <3>1. seat'[r] = seat[r] /\ seat'[s] = seat[s]
      BY <1>12
    <3> QED
      BY <3>1, <1>2 DEF OneSeatEach
  <2> QED
    BY <2>1, <1>2, <1>10 DEF NodesOK, hx
<1>29. SeatedOK'
  <2> SUFFICES ASSUME NEW i \in InSeats \ {l.mi}
               PROVE  /\ y[i] \in Keys /\ data[i] = y[i]
                      /\ x[i] = 0 => \E u \in Threads : i \in Holds(th'[u])
    BY <1>10, <1>14 DEF SeatedOK
  <2>1. y[i] \in Keys /\ data[i] = y[i] /\ (x[i] = 0 => \E u \in Threads : i \in Holds(th[u]))
    BY <1>2 DEF SeatedOK
  <2>2. i \notin Holds(th[t])
    BY <1>0, <1>5
  <2> QED
    BY <2>1, <2>2, <1>25
<1>30. Pool'
  <2>1. PICK n \in Nat : \E c \in [1 .. n -> Index] : IsChain(c, n) /\ AllKept(c, n)
    BY <1>2 DEF Pool
  <2>2. PICK c \in [1 .. n -> Index] : IsChain(c, n) /\ AllKept(c, n)
    BY <2>1
  <2>3. IsChain(c, n)'
    BY <2>2, <1>10 DEF IsChain
  <2>4. l.mi \notin Listed(c, n)
    BY <2>2, <1>13 DEF AllKept
  <2>5. Listed(c, n) \cap InSeats' = {} /\ \A u \in Threads : Listed(c, n) \cap Owned(th'[u]) = {}
    BY <2>2, <2>4, <1>14, <1>25 DEF AllKept
  <2>6. ASSUME NEW i \in Index
        PROVE  i \in Listed(c, n) \/ i \in InSeats' \/ \E u \in Threads : i \in Owned(th'[u])
    BY <2>2, <1>14, <1>25 DEF AllKept
  <2>7. AllKept(c, n)'
    BY <2>5, <2>6 DEF AllKept, Listed
  <2> QED
    BY <2>3, <2>7 DEF Pool
<1>31. CountOK'
  <2>1. \A i : Adding(i)' <=> Adding(i)
    BY <1>0, <1>3, <1>8, <1>9, <1>24 DEF Adding, At, Clearing
  <2>2. CASE InExtra(l.k, l.j)
    <3>1. PICK e \in 1 .. Len(Extra) : Seat(l) = Extra[e] /\ \A d \in 1 .. Len(Extra) : Extra[d] = Seat(l) => d = e
      BY <2>2, <1>1, <1>4, SeatIsExtra
    <3>2. ~Adding(l.mi)
      BY <1>0, <1>3, <1>5, AddingHeld
    <3>3. e \in Settled
      BY <3>1, <3>2, <1>4, NoIndex DEF Settled
    <3>4. \A d \in 1 .. Len(Extra) : Extra[d] \in Seats
      BY SeatOfExtra
    <3>5. \A d \in 1 .. Len(Extra) : seat'[Extra[d]] = IF d = e THEN NNULL ELSE seat[Extra[d]]
      BY <3>1, <3>4, <1>12
    <3>6. Settled' = Settled \ {e}
      BY <2>1, <3>5 DEF Settled
    <3>7. m.pc = "uncount"
      BY <2>2, <1>6, <1>9
    <3>8. Leaving' = Leaving \cup {t} /\ t \notin Leaving
      BY <3>7, <1>0, <1>3, <1>24 DEF Leaving, At
    <3>9. /\ Cardinality(Settled \ {e}) = Cardinality(Settled) - 1
          /\ Cardinality(Leaving \cup {t}) = Cardinality(Leaving) + 1
      BY <3>3, <3>8, Counts, FS_RemoveElement, FS_AddElement
    <3> QED
      BY <3>6, <3>8, <3>9, <1>2, <1>10, Counts DEF CountOK
  <2>3. CASE ~InExtra(l.k, l.j)
    <3>1. \A e \in 1 .. Len(Extra) : Extra[e] # Seat(l) /\ Extra[e] \in Seats
      BY <2>3, <1>1, <1>4, SeatIsExtra, SeatOfExtra
    <3>2. \A e \in 1 .. Len(Extra) : seat'[Extra[e]] = seat[Extra[e]]
      BY <3>1, <1>12
    <3>3. Settled' = Settled
      BY <2>1, <3>2 DEF Settled
    <3>4. m.pc = "wipe"
      BY <2>3, <1>6, <1>9
    <3>5. Leaving' = Leaving
      BY <3>4, <1>0, <1>3, <1>24 DEF Leaving, At
    <3> QED
      BY <3>3, <3>5, <1>2, <1>10 DEF CountOK
  <2> QED
    BY <2>2, <2>3
<1> QED
  BY <1>23, <1>24, <1>26, <1>27, <1>28, <1>29, <1>30, <1>31 DEF AtomicInv

LEMMA AddCasStep ==
  ASSUME AtomicInv, UNCHANGED client, NEW t \in Threads, AddCas(t), seat[Seat(th[t])] = NNULL
  PROVE  AtomicInv'
<1>0. PICK l : l = th[t]
  OBVIOUS
<1>1. /\ l \in Locals /\ LocalsOK(l) /\ KnownOK(l) /\ clock \in Nat /\ expire \in [Index -> Nat]
      /\ x \in [Index -> Int] /\ y \in [Index -> Nat] /\ data \in [Index -> Nat]
      /\ seat \in [Seats -> Link] /\ ncur \in Nat /\ freelist \in ListHead
  BY <1>0, OfCall DEF CallOK
<1>2. Apart /\ OwnedUnseated /\ OneSeatEach /\ NodesOK /\ SeatedOK /\ Pool /\ CountOK
  BY DEF AtomicInv
<1>3. l.pc = "addcas" /\ l.pc \in Building
  BY <1>0 DEF AddCas, At, Building
<1>4. /\ l.k \in Keys /\ l.op = "add" /\ l.ni \in Index /\ l.ni # NNULL /\ Owned(l) = {l.ni} /\ Holds(l) = {}
  BY <1>1, <1>3, OfBuilder
<1>5. InPass(l) /\ l.vx = hx(l.k) /\ y[l.ni] = l.k /\ data[l.ni] = l.k /\ x[l.ni] = 0
  BY <1>1, <1>3 DEF LocalsOK, KnownOK
<1>6. PICK p : p = IF InExtra(l.k, l.j) THEN "addcount" ELSE "addhook"
  OBVIOUS
<1>7. PICK m : m = [l EXCEPT !.pc = p]
  OBVIOUS
<1>8. p \in Pcs /\ p \in Placed
  BY <1>6, PcsOK DEF Placed
<1>9. m \in Locals /\ m.pc = p /\ Same(m, l)
  BY <1>1, <1>7, <1>8, SetPc
<1>10. /\ UNCHANGED <<x, y, expire, data, ncur, freelist, clock>> /\ th' = [th EXCEPT ![t] = m]
       /\ seat' = [seat EXCEPT ![Seat(l)] = l.ni]
  BY <1>0, <1>6, <1>7 DEF AddCas, Go, Seat
<1>11. Seat(l) \in Seats /\ seat[Seat(l)] = NNULL
  BY <1>0, <1>1, <1>4, <1>5, SeatOfCall
<1>12. /\ seat' \in [Seats -> Link] /\ seat'[Seat(l)] = l.ni
       /\ \A s \in Seats \ {Seat(l)} : seat'[s] = seat[s]
  BY ONLY <1>10, <1>11, <1>1, <1>4, NoIndex
<1>13. l.ni \notin InSeats
  BY <1>0, <1>2, <1>4 DEF OwnedUnseated
<1>14. InSeats' = InSeats \cup {l.ni}
  <2>1. \A s \in Seats : seat'[s] = IF s = Seat(l) THEN l.ni ELSE seat[s]
    BY <1>12
  <2>2. InSeats' = {seat'[s] : s \in Seats} \ {NNULL} /\ InSeats = {seat[s] : s \in Seats} \ {NNULL}
    BY DEF InSeats
  <2> QED
    BY ONLY <2>1, <2>2, <1>4, <1>11
<1>15. LocalsOK(m)
  BY <1>4, <1>5, <1>6, <1>8, <1>9
     DEF LocalsOK, Same, InPass, Ops, Found, Wanted, Holding, Clearing, Freeing, Popping, Building, Placed
<1>16. KnownOK(m)' /\ HeadOK(m)'
  BY <1>5, <1>8, <1>9, <1>10, <1>12
     DEF KnownOK, HeadOK, Same, Seat, Holding, Clearing, Freeing, Popping, Building, Placed
<1>17. Owned(m) = {} /\ Holds(m) = {l.ni}
  BY <1>8, <1>9 DEF Owned, Kept, Dropped, Holds, Same, Holding, Clearing, Freeing, Placed
<1>18. CallOK(m)'
  BY <1>15, <1>16 DEF CallOK, LocalsOK, InPass, hx
<1>19. Write(t, m, l.ni)
  BY <1>1, <1>9, <1>10, <1>12 DEF Write
<1>20. \A u \in Threads \ {t} : l.ni \notin Owned(th[u]) /\ l.ni \notin Holds(th[u])
  BY <1>0, <1>2, <1>4, <1>13, OwnedIndex DEF Apart
<1>21. Frame(t, l.ni)
  <2>1. l.ni # freelist.mi
    BY <1>0, <1>4, HeadFree
  <2>2. \A s \in Seats : seat[s] \in Index \ {l.ni} => seat'[s] = seat[s]
    BY <1>11, <1>12, NoIndex
  <2> QED
    BY <2>1, <2>2, <1>10, <1>20 DEF Frame
<1>22. CallsOK'
  BY <1>18, <1>19, <1>21, CallsKept
<1>23. AtomicTypeOK' /\ th'[t] = m /\ \A u \in Threads \ {t} : th'[u] = th[u]
  BY <1>19, WriteType
<1>24. /\ \A u \in Threads \ {t} : Owned(th'[u]) = Owned(th[u]) /\ Holds(th'[u]) = Holds(th[u])
       /\ Owned(th'[t]) = {} /\ Holds(th'[t]) = {l.ni} /\ Owned(th[t]) = {l.ni} /\ Holds(th[t]) = {}
  BY <1>0, <1>4, <1>17, <1>23
<1>25. Apart'
  <2> SUFFICES ASSUME NEW u \in Threads, NEW v \in Threads, u # v
               PROVE  Owned(th'[u]) \cap Owned(th'[v]) = {} /\ Holds(th'[u]) \cap Holds(th'[v]) = {}
    BY DEF Apart
  <2>1. Owned(th[u]) \cap Owned(th[v]) = {} /\ Holds(th[u]) \cap Holds(th[v]) = {}
    BY <1>2 DEF Apart
  <2> QED
    BY <2>1, <1>20, <1>24
<1>26. OwnedUnseated'
  BY <1>2, <1>14, <1>20, <1>24 DEF OwnedUnseated
<1>27. OneSeatEach' /\ NodesOK'
  <2>1. OneSeatEach'
    <3> SUFFICES ASSUME NEW r \in Seats, NEW s \in Seats, seat'[r] = seat'[s], seat'[r] # NNULL PROVE r = s
      BY DEF OneSeatEach
    <3>1. \A q \in Seats : seat[q] # l.ni
      BY <1>4, <1>13 DEF InSeats
    <3>2. r = Seat(l) \/ seat'[r] = seat[r]
      BY <1>12
    <3>3. s = Seat(l) \/ seat'[s] = seat[s]
      BY <1>12
    <3> QED
      BY <3>1, <3>2, <3>3, <1>2, <1>12 DEF OneSeatEach
  <2> QED
    BY <2>1, <1>2, <1>10 DEF NodesOK, hx
<1>28. SeatedOK'
  <2> SUFFICES ASSUME NEW i \in InSeats \cup {l.ni}
               PROVE  /\ y[i] \in Keys /\ data[i] = y[i]
                      /\ x[i] = 0 => \E u \in Threads : i \in Holds(th'[u])
    BY <1>10, <1>14 DEF SeatedOK
  <2>1. CASE i = l.ni
    BY <2>1, <1>4, <1>5, <1>24
  <2>2. CASE i # l.ni
    <3>1. y[i] \in Keys /\ data[i] = y[i] /\ (x[i] = 0 => \E u \in Threads : i \in Holds(th[u]))
      BY <2>2, <1>2 DEF SeatedOK
    <3> QED
      BY <3>1, <1>24
  <2> QED
    BY <2>1, <2>2
<1>29. Pool'
  <2>1. PICK n \in Nat : \E c \in [1 .. n -> Index] : IsChain(c, n) /\ AllKept(c, n)
    BY <1>2 DEF Pool
  <2>2. PICK c \in [1 .. n -> Index] : IsChain(c, n) /\ AllKept(c, n)
    BY <2>1
  <2>3. IsChain(c, n)'
    BY <2>2, <1>10 DEF IsChain
  <2>4. l.ni \notin Listed(c, n)
    BY <2>2, <1>24 DEF AllKept
  <2>5. Listed(c, n) \cap InSeats' = {} /\ \A u \in Threads : Listed(c, n) \cap Owned(th'[u]) = {}
    BY <2>2, <2>4, <1>14, <1>24 DEF AllKept
  <2>6. ASSUME NEW i \in Index
        PROVE  i \in Listed(c, n) \/ i \in InSeats' \/ \E u \in Threads : i \in Owned(th'[u])
    BY <2>2, <1>14, <1>24 DEF AllKept
  <2>7. AllKept(c, n)'
    BY <2>5, <2>6 DEF AllKept, Listed
  <2> QED
    BY <2>3, <2>7 DEF Pool
<1>30. CountOK'
  <2>0. \A d \in 1 .. Len(Extra) : Extra[d] \in Seats /\ seat[Extra[d]] # l.ni
    BY <1>4, <1>13, SeatOfExtra DEF InSeats
  <2>1. Leaving' = Leaving
    BY <1>0, <1>3, <1>8, <1>9, <1>23 DEF Leaving, At, Placed
  <2>2. \A i : i # l.ni => (Adding(i)' <=> Adding(i))
    <3>1. m.ni = l.ni
      BY <1>9 DEF Same
    <3> QED
      BY <3>1, <1>0, <1>3, <1>23 DEF Adding, At
  <2>3. CASE InExtra(l.k, l.j)
    <3>1. PICK e \in 1 .. Len(Extra) : Seat(l) = Extra[e] /\ \A d \in 1 .. Len(Extra) : Extra[d] = Seat(l) => d = e
      BY <2>3, <1>1, <1>4, <1>5, SeatIsExtra
    <3>2. Adding(l.ni)'
      <4>1. m.ni = l.ni /\ m.pc = "addcount"
        BY <2>3, <1>6, <1>9 DEF Same
      <4> QED
        BY <4>1, <1>23 DEF Adding, At
    <3>3. \A d \in 1 .. Len(Extra) : seat'[Extra[d]] = IF d = e THEN l.ni ELSE seat[Extra[d]]
      BY <2>0, <3>1, <1>12
    <3>4. seat[Extra[e]] = NNULL
      BY <3>1, <1>11
    <3>5. Settled' = Settled
      BY <2>0, <2>2, <3>2, <3>3, <3>4 DEF Settled
    <3> QED
      BY <2>1, <3>5, <1>2, <1>10 DEF CountOK
  <2>4. CASE ~InExtra(l.k, l.j)
    <3>1. \A e \in 1 .. Len(Extra) : Extra[e] # Seat(l)
      BY <2>4, <1>1, <1>4, <1>5, SeatIsExtra
    <3>2. \A e \in 1 .. Len(Extra) : seat'[Extra[e]] = seat[Extra[e]]
      BY <2>0, <3>1, <1>12
    <3>3. Settled' = Settled
      BY <2>0, <2>2, <3>2 DEF Settled
    <3> QED
      BY <2>1, <3>3, <1>2, <1>10 DEF CountOK
  <2> QED
    BY <2>3, <2>4
<1> QED
  BY <1>22, <1>23, <1>25, <1>26, <1>27, <1>28, <1>29, <1>30 DEF AtomicInv

-----------------------------------------------------------------------------
(* Steps that change the free list.                                        *)

LEMMA FreeCasStep ==
  ASSUME AtomicInv, UNCHANGED client, NEW t \in Threads, FreeCas(t), freelist = th[t].n
  PROVE  AtomicInv'
<1>0. PICK l : l = th[t]
  OBVIOUS
<1>1. /\ l \in Locals /\ LocalsOK(l) /\ KnownOK(l) /\ clock \in Nat /\ expire \in [Index -> Nat]
      /\ x \in [Index -> Int] /\ y \in [Index -> Nat] /\ data \in [Index -> Nat]
      /\ seat \in [Seats -> Link] /\ ncur \in Nat /\ freelist \in ListHead
  BY <1>0, OfCall DEF CallOK
<1>2. Apart /\ OwnedUnseated /\ OneSeatEach /\ NodesOK /\ SeatedOK /\ Pool
  BY DEF AtomicInv
<1>3. l.pc = "freecas" /\ l.pc \in Freeing /\ l.pc # "idle" /\ l.pc \notin Building \cup Placed
  BY <1>0 DEF FreeCas, At, Freeing, Building, Placed
<1>4. /\ l.k \in Keys /\ l.op \in Ops /\ l.mi \in Index /\ (l.ni # NNULL => l.op = "add")
      /\ l.then # "equal" /\ (l.then = "idle" => l.ni \in {NNULL, l.mi})
      /\ (l.then # "idle" => l.ni # l.mi) /\ (l.then = "giveback" => l.ni # NNULL)
      /\ (l.ni # NNULL => y[l.ni] = 0) /\ x[l.mi] = freelist.mi
  BY <1>0, <1>1, <1>3 DEF LocalsOK, KnownOK
<1>5. Owned(l) = ({l.ni} \ {NNULL}) \cup {l.mi} /\ Holds(l) = {} /\ NotCounting(l)
  BY <1>1, <1>3, <1>4, FreerOK
<1>6. PICK m : m = Jump(l, l.then)
  OBVIOUS
<1>7. /\ th' = [th EXCEPT ![t] = m] /\ freelist' = [mi |-> l.mi, rfn |-> freelist.rfn + 1]
      /\ UNCHANGED <<x, y, expire, data, seat, ncur, clock>>
  BY <1>0, <1>6 DEF FreeCas, Go, node
<1>8. /\ m \in Locals /\ LocalsOK(m) /\ m.pc \in {"idle", "scan", "giveback"}
      /\ m.ni = IF l.then = "idle" THEN NNULL ELSE l.ni
  <2>1. l.then \in {"idle", "next", "equal", "giveback"}
    BY <1>1 DEF Locals
  <2>2. CASE l.then = "idle"
    <3>1. m = Idle
      BY <2>2, <1>6 DEF Jump
    <3> QED
      BY <3>1, <2>2, IdleOK
  <2>3. CASE l.then = "next"
    <3>1. m = Next1(l)
      BY <2>3, <1>6 DEF Jump
    <3>2. m \in Locals /\ m.pc = "scan" /\ m.k = l.k /\ m.op = l.op /\ m.ni = l.ni
      BY <3>1, <1>1, PcsOK, PosOK DEF Locals, Next1
    <3>3. LocalsOK(m)
      BY <3>2, <1>1, <1>3, ScanOK
    <3> QED
      BY <3>2, <3>3, <2>3
  <2>4. CASE l.then = "giveback"
    <3>1. m = [l EXCEPT !.pc = "giveback"]
      BY <2>4, <1>6 DEF Jump
    <3>2. m \in Locals /\ m.pc = "giveback" /\ Same(m, l)
      BY <3>1, <1>1, PcsOK, SetPc
    <3>3. LocalsOK(m)
      BY <3>2, <2>4, <1>4
         DEF LocalsOK, Same, Found, Wanted, Holding, Clearing, Freeing, Popping, Building, Placed
    <3> QED
      BY <3>2, <3>3, <2>4 DEF Same
  <2> QED
    BY <2>1, <2>2, <2>3, <2>4, <1>4
<1>9. /\ m.pc \notin Holding /\ m.pc # "take" /\ m.pc \notin Freeing /\ m.pc \notin Building /\ m.pc \notin Placed
      /\ m.pc \notin Popping /\ m.pc \notin Clearing /\ m.pc \notin {"freecas", "newcas", "addcas"}
      /\ NotCounting(m)
  BY <1>8 DEF NotCounting, Holding, Clearing, Freeing, Popping, Building, Placed
<1>10. KnownOK(m)' /\ HeadOK(m)'
  BY <1>4, <1>7, <1>8, <1>9 DEF KnownOK, HeadOK
<1>11. CallOK(m)'
  BY <1>8, <1>10 DEF CallOK, LocalsOK, InPass, hx
<1>12. Owned(m) = Owned(l) \ {l.mi} /\ Holds(m) = {}
  BY <1>4, <1>5, <1>8, <1>9 DEF Owned, Kept, Dropped, Holds
<1>13. freelist.rfn \in Nat /\ l.mi \in Link
  BY <1>1, <1>4, NoIndex DEF ListHead
<1>14. freelist' \in ListHead /\ freelist'.mi = l.mi /\ freelist'.rfn > freelist.rfn
  BY <1>7, <1>13 DEF ListHead
<1>15. Write(t, m, l.mi)
  BY <1>1, <1>7, <1>8, <1>14 DEF Write
<1>16. l.mi \notin InSeats /\ \A u \in Threads \ {t} : l.mi \notin Owned(th[u]) /\ l.mi \notin Holds(th[u])
  BY <1>0, <1>2, <1>5, OwnedIndex DEF Apart, OwnedUnseated
<1>17. Frame(t, l.mi)
  BY <1>7, <1>14, <1>16 DEF Frame
<1>18. CallsOK'
  BY <1>11, <1>15, <1>17, CallsKept
<1>19. AtomicTypeOK' /\ th'[t] = m /\ \A u \in Threads \ {t} : th'[u] = th[u]
  BY <1>15, WriteType
<1>20. InSeats' = InSeats
  BY <1>7 DEF InSeats
<1>21. /\ \A u \in Threads \ {t} : Owned(th'[u]) = Owned(th[u])
       /\ \A u \in Threads : Holds(th'[u]) = Holds(th[u])
       /\ Owned(th'[t]) = Owned(th[t]) \ {l.mi}
  BY <1>0, <1>5, <1>12, <1>19
<1>22. Apart' /\ OwnedUnseated'
  <2>1. \A u \in Threads : Owned(th'[u]) \subseteq Owned(th[u])
    BY <1>21
  <2> QED
    BY <2>1, <1>2, <1>20, <1>21 DEF Apart, OwnedUnseated
<1>23. OneSeatEach' /\ NodesOK' /\ SeatedOK'
  BY <1>2, <1>7, <1>20, <1>21 DEF OneSeatEach, NodesOK, SeatedOK, hx
<1>24. Pool'
  <2>1. PICK n \in Nat : \E c \in [1 .. n -> Index] : IsChain(c, n) /\ AllKept(c, n)
    BY <1>2 DEF Pool
  <2>2. PICK c \in [1 .. n -> Index] : IsChain(c, n) /\ AllKept(c, n)
    BY <2>1
  <2>3. PICK d : d = [i \in 1 .. n + 1 |-> IF i = n + 1 THEN l.mi ELSE c[i]]
    OBVIOUS
  <2>4. /\ d \in [1 .. n + 1 -> Index] /\ d[n + 1] = l.mi /\ n + 1 \in Nat
        /\ \A i \in 1 .. n : d[i] = c[i]
    BY <2>3, <1>4
  <2>5. l.mi \notin Listed(c, n)
    BY <2>2, <1>0, <1>5 DEF AllKept
  <2>6. \A i \in 1 .. n : c[i] # l.mi
    BY <2>5 DEF Listed
  <2>7. x[l.mi] = IF n = 0 THEN NNULL ELSE c[n]
    BY <2>2, <1>4 DEF IsChain
  <2>8. \A i, j \in 1 .. n + 1 : d[i] = d[j] => i = j
    <3> SUFFICES ASSUME NEW i \in 1 .. n + 1, NEW j \in 1 .. n + 1, d[i] = d[j] PROVE i = j
      OBVIOUS
    <3>1. (i = n + 1 \/ i \in 1 .. n) /\ (j = n + 1 \/ j \in 1 .. n)
      OBVIOUS
    <3> QED
      BY <3>1, <2>2, <2>4, <2>6 DEF IsChain
  <2>9. \A i \in 1 .. n + 1 : x[d[i]] = IF i = 1 THEN NNULL ELSE d[i - 1]
    <3> SUFFICES ASSUME NEW i \in 1 .. n + 1 PROVE x[d[i]] = IF i = 1 THEN NNULL ELSE d[i - 1]
      OBVIOUS
    <3>1. CASE i = n + 1
      <4>1. n # 0 => n \in 1 .. n
        OBVIOUS
      <4> QED
        BY <3>1, <4>1, <2>4, <2>7
    <3>2. CASE i \in 1 .. n
      <4>1. i # 1 => i - 1 \in 1 .. n
        BY <3>2
      <4>2. x[c[i]] = IF i = 1 THEN NNULL ELSE c[i - 1]
        BY <3>2, <2>2 DEF IsChain
      <4> QED
        BY <3>2, <4>1, <4>2, <2>4
    <3> QED
      BY <3>1, <3>2
  <2>10. IsChain(d, n + 1)'
    <3>1. n + 1 # 0
      OBVIOUS
    <3> QED
      BY <3>1, <2>4, <2>8, <2>9, <1>7, <1>14 DEF IsChain
  <2>11. Listed(d, n + 1) = Listed(c, n) \cup {l.mi}
    BY <2>4 DEF Listed
  <2>12. Listed(d, n + 1) \cap InSeats' = {} /\ \A u \in Threads : Listed(d, n + 1) \cap Owned(th'[u]) = {}
    BY <2>2, <2>11, <1>16, <1>20, <1>21 DEF AllKept
  <2>13. ASSUME NEW i \in Index
         PROVE  i \in Listed(d, n + 1) \/ i \in InSeats' \/ \E u \in Threads : i \in Owned(th'[u])
    BY <2>2, <2>11, <1>20, <1>21 DEF AllKept
  <2>14. AllKept(d, n + 1)'
    BY <2>12, <2>13 DEF AllKept, Listed
  <2> QED
    BY <2>4, <2>10, <2>14 DEF Pool
<1>25. CountOK'
  BY <1>0, <1>5, <1>7, <1>9, <1>15, SameCount
<1> QED
  BY <1>18, <1>19, <1>22, <1>23, <1>24, <1>25 DEF AtomicInv

LEMMA NewCasStep ==
  ASSUME AtomicInv, UNCHANGED client, NEW t \in Threads, NewCas(t), freelist = th[t].n
  PROVE  AtomicInv'
<1>0. PICK l : l = th[t]
  OBVIOUS
<1>1. /\ l \in Locals /\ LocalsOK(l) /\ HeadOK(l) /\ clock \in Nat /\ expire \in [Index -> Nat]
      /\ x \in [Index -> Int] /\ y \in [Index -> Nat] /\ data \in [Index -> Nat]
      /\ seat \in [Seats -> Link] /\ ncur \in Nat /\ freelist \in ListHead
  BY <1>0, OfCall DEF CallOK
<1>2. l.pc = "newcas" /\ l.pc \in Popping
  BY <1>0 DEF NewCas, At, Popping
<1>3. PICK w : w = freelist.mi
  OBVIOUS
<1>4. l.k \in Keys /\ l.op = "add" /\ l.n.mi = w /\ w \in Index /\ l.link = x[w] /\ l.ni = NNULL
  BY <1>0, <1>1, <1>2, <1>3, NotIdle DEF LocalsOK, HeadOK
<1>5. Owned(l) = {} /\ Holds(l) = {} /\ NotCounting(l)
  BY <1>2, <1>4 DEF Owned, Kept, Dropped, Holds, NotCounting, Holding, Clearing, Freeing, Placed
<1>6. PICK m : m = [l EXCEPT !.pc = "set", !.ni = w]
  OBVIOUS
<1>7. "set" \in Pcs /\ w \in Link
  BY <1>4, PcsOK, NoIndex DEF Building
<1>8. m \in Locals /\ m.pc = "set" /\ m.k = l.k /\ m.op = l.op /\ m.ni = w
  BY <1>1, <1>6, <1>7 DEF Locals
<1>9. /\ th' = [th EXCEPT ![t] = m] /\ freelist' = [mi |-> x[w], rfn |-> freelist.rfn + 1]
      /\ UNCHANGED <<x, y, expire, data, seat, ncur, clock>>
  BY <1>0, <1>4, <1>6 DEF NewCas, Go, node
<1>10. Apart /\ OwnedUnseated /\ OneSeatEach /\ NodesOK /\ SeatedOK /\ Pool
  BY DEF AtomicInv
<1>11. PICK n \in Nat : \E c \in [1 .. n -> Index] : IsChain(c, n) /\ AllKept(c, n)
  BY <1>10 DEF Pool
<1>12. PICK c \in [1 .. n -> Index] : IsChain(c, n) /\ AllKept(c, n)
  BY <1>11
<1>13. n # 0 /\ c[n] = w /\ n \in 1 .. n
  <2>1. n # 0
    BY <1>3, <1>4, <1>12, NoIndex DEF IsChain
  <2> QED
    BY <2>1, <1>3, <1>12 DEF IsChain
<1>14. PICK d : d = [i \in 1 .. n - 1 |-> c[i]]
  OBVIOUS
<1>15. /\ d \in [1 .. n - 1 -> Index] /\ n - 1 \in Nat
       /\ \A i \in 1 .. n - 1 : d[i] = c[i] /\ i \in 1 .. n
  BY <1>13, <1>14
<1>16. x[w] = IF n - 1 = 0 THEN NNULL ELSE d[n - 1]
  <2>1. x[c[n]] = IF n = 1 THEN NNULL ELSE c[n - 1]
    BY <1>12, <1>13 DEF IsChain
  <2>2. n - 1 # 0 => n # 1 /\ n - 1 \in 1 .. n - 1
    BY <1>13
  <2> QED
    BY <2>1, <2>2, <1>13, <1>15
<1>17. freelist.rfn \in Nat /\ x[w] \in Link
  <2>1. n - 1 # 0 => n - 1 \in 1 .. n - 1
    BY <1>13
  <2> QED
    BY <2>1, <1>1, <1>15, <1>16 DEF ListHead, Link
<1>18. freelist' \in ListHead /\ freelist'.mi = x[w] /\ freelist'.rfn > freelist.rfn
  BY <1>9, <1>17 DEF ListHead
<1>19. Write(t, m, w)
  BY <1>1, <1>8, <1>9, <1>18 DEF Write
<1>20. AtomicTypeOK' /\ th'[t] = m /\ \A u \in Threads \ {t} : th'[u] = th[u]
  BY <1>19, WriteType
<1>21. InSeats' = InSeats
  BY <1>9 DEF InSeats
<1>22. w \notin InSeats /\ \A u \in Threads : w \notin Owned(th[u]) /\ w \notin Holds(th[u])
  BY <1>3, HeadFree, OwnedIndex
<1>23. Frame(t, w)
  BY <1>9, <1>18, <1>22 DEF Frame
<1>24. m.pc \in Building /\ m.pc \notin {"addx", "addhold", "addcas"}
  BY <1>8 DEF Building
<1>25. LocalsOK(m) /\ Owned(m) = {w} /\ Holds(m) = {} /\ NotCounting(m)
  BY <1>4, <1>8, <1>24, BuilderOK
<1>26. KnownOK(m)' /\ HeadOK(m)'
  BY <1>8, <1>24 DEF KnownOK, HeadOK, Holding, Freeing, Popping, Placed
<1>27. CallOK(m)'
  BY <1>25, <1>26 DEF CallOK, LocalsOK, InPass, hx
<1>28. CallsOK'
  BY <1>19, <1>23, <1>27, CallsKept
<1>29. /\ \A u \in Threads \ {t} : Owned(th'[u]) = Owned(th[u])
       /\ \A u \in Threads : Holds(th'[u]) = Holds(th[u])
       /\ Owned(th'[t]) = {w} /\ Owned(th[t]) = {}
  BY <1>0, <1>5, <1>20, <1>25
<1>30. OwnedUnseated'
  BY <1>10, <1>21, <1>22, <1>29 DEF OwnedUnseated
<1>31. Apart'
  <2> SUFFICES ASSUME NEW u \in Threads, NEW v \in Threads, u # v
               PROVE  Owned(th'[u]) \cap Owned(th'[v]) = {} /\ Holds(th'[u]) \cap Holds(th'[v]) = {}
    BY DEF Apart
  <2>1. Owned(th[u]) \cap Owned(th[v]) = {} /\ Holds(th[u]) \cap Holds(th[v]) = {}
    BY <1>10 DEF Apart
  <2> QED
    BY <2>1, <1>22, <1>29
<1>32. OneSeatEach' /\ NodesOK' /\ SeatedOK'
  BY <1>9, <1>10, <1>21, <1>29 DEF OneSeatEach, NodesOK, SeatedOK, hx
<1>33. Pool'
  <2>1. \A i, j \in 1 .. n - 1 : d[i] = d[j] => i = j
    BY <1>12, <1>15 DEF IsChain
  <2>2. \A i \in 1 .. n - 1 : x[d[i]] = IF i = 1 THEN NNULL ELSE d[i - 1]
    <3> SUFFICES ASSUME NEW i \in 1 .. n - 1 PROVE x[d[i]] = IF i = 1 THEN NNULL ELSE d[i - 1]
      OBVIOUS
    <3>1. i # 1 => i - 1 \in 1 .. n - 1
      BY <1>15
    <3>2. x[c[i]] = IF i = 1 THEN NNULL ELSE c[i - 1]
      BY <1>12, <1>15 DEF IsChain
    <3> QED
      BY <3>1, <3>2, <1>15
  <2>3. IsChain(d, n - 1)'
    BY <2>1, <2>2, <1>9, <1>15, <1>16, <1>18 DEF IsChain
  <2>4. \A i \in 1 .. n - 1 : c[i] # w
    <3> SUFFICES ASSUME NEW i \in 1 .. n - 1, c[i] = w PROVE FALSE
      OBVIOUS
    <3>1. i = n
      BY <1>12, <1>13, <1>15 DEF IsChain
    <3> QED
      BY <3>1, <1>13
  <2>5. Listed(d, n - 1) = Listed(c, n) \ {w}
    <3>1. \A i \in 1 .. n : i \in 1 .. n - 1 \/ i = n
      BY <1>13
    <3> QED
      BY <2>4, <3>1, <1>13, <1>15 DEF Listed
  <2>6. Listed(d, n - 1) \cap InSeats' = {} /\ \A u \in Threads : Listed(d, n - 1) \cap Owned(th'[u]) = {}
    BY <2>5, <1>12, <1>21, <1>29 DEF AllKept
  <2>7. ASSUME NEW i \in Index
        PROVE  i \in Listed(d, n - 1) \/ i \in InSeats' \/ \E u \in Threads : i \in Owned(th'[u])
    BY <2>5, <1>12, <1>21, <1>29 DEF AllKept
  <2>8. AllKept(d, n - 1)'
    BY <2>6, <2>7 DEF AllKept, Listed
  <2> QED
    BY <2>3, <2>8, <1>15 DEF Pool
<1>34. CountOK'
  BY <1>0, <1>5, <1>9, <1>19, <1>25, SameCount
<1> QED
  BY <1>20, <1>28, <1>30, <1>31, <1>32, <1>33, <1>34 DEF AtomicInv

-----------------------------------------------------------------------------
(* The initial states, and every step.                                     *)

LEMMA AtomicStart ==
  ASSUME AtomicInit
  PROVE  AtomicInv
<1>1. Nodes \in Nat /\ Nodes # 0
  BY AtomicAssumption
<1>2. \A i \in Index : i \in Int /\ (i # Nodes - 1 => i + 1 \in Index)
  BY <1>1 DEF Index
<1>3. x \in [Index -> Int]
  BY <1>2 DEF AtomicInit, NNULL
<1>4. /\ y \in [Index -> Nat] /\ data \in [Index -> Nat] /\ expire \in [Index -> Nat] /\ seat \in [Seats -> Link]
      /\ \A i \in Index : y[i] = 0
  BY DEF AtomicInit, Link
<1>5. freelist \in ListHead /\ freelist.mi = 0 /\ freelist.rfn = 0
  BY <1>1 DEF AtomicInit, ListHead, Link, Index
<1>6. th \in [Threads -> Locals] /\ \A t \in Threads : th[t] = Idle
  BY IdleOK DEF AtomicInit
<1>7. AtomicTypeOK
  <2>1. client \in Clients /\ ncur \in Nat /\ clock \in Nat
    BY DEF AtomicInit
  <2> QED
    BY <2>1, <1>3, <1>4, <1>5, <1>6 DEF AtomicTypeOK
<1>8. InSeats = {}
  BY DEF AtomicInit, InSeats
<1>9. CallsOK /\ \A t \in Threads : Owned(th[t]) = {} /\ Holds(th[t]) = {}
  BY <1>6, IdleOK DEF CallsOK, CallOK
<1>10. Apart /\ OwnedUnseated /\ SeatedOK
  BY <1>8, <1>9 DEF Apart, OwnedUnseated, SeatedOK
<1>11. OneSeatEach /\ NodesOK
  <2>1. \A s \in Seats : seat[s] = NNULL
    BY DEF AtomicInit
  <2> QED
    BY <2>1, <1>4 DEF OneSeatEach, NodesOK
<1>12. Pool
  <2>1. PICK c : c = [i \in 1 .. Nodes |-> Nodes - i]
    OBVIOUS
  <2>2. c \in [1 .. Nodes -> Index] /\ \A i \in 1 .. Nodes : c[i] = Nodes - i
    BY <2>1, <1>1 DEF Index
  <2>3. \A i, j \in 1 .. Nodes : c[i] = c[j] => i = j
    BY <2>2, <1>1
  <2>4. freelist.mi = IF Nodes = 0 THEN NNULL ELSE c[Nodes]
    BY <2>2, <1>1, <1>5
  <2>5. ASSUME NEW i \in 1 .. Nodes PROVE x[c[i]] = IF i = 1 THEN NNULL ELSE c[i - 1]
    <3>1. x[c[i]] = IF c[i] = Nodes - 1 THEN NNULL ELSE c[i] + 1
      BY <2>2 DEF AtomicInit
    <3>2. c[i] = Nodes - 1 <=> i = 1
      BY <2>2, <1>1
    <3>3. i # 1 => c[i - 1] = c[i] + 1
      BY <2>2, <1>1
    <3> QED
      BY <3>1, <3>2, <3>3
  <2>6. IsChain(c, Nodes)
    BY <2>2, <2>3, <2>4, <2>5, <1>1 DEF IsChain
  <2>7. Index \subseteq Listed(c, Nodes)
    <3> SUFFICES ASSUME NEW i \in Index PROVE i \in Listed(c, Nodes)
      OBVIOUS
    <3>1. Nodes - i \in 1 .. Nodes /\ Nodes - (Nodes - i) = i
      BY <1>1 DEF Index
    <3> QED
      BY <3>1, <2>2 DEF Listed
  <2>8. AllKept(c, Nodes)
    BY <2>7, <1>8, <1>9 DEF AllKept
  <2> QED
    BY <2>2, <2>6, <2>8, <1>1 DEF Pool
<1>13. CountOK
  <2>1. \A e \in 1 .. Len(Extra) : seat[Extra[e]] = NNULL
    BY SeatOfExtra DEF AtomicInit
  <2>2. Settled = {}
    BY <2>1 DEF Settled
  <2>3. Leaving = {}
    BY <1>6, IdleOK DEF Leaving, At
  <2>4. Cardinality({}) = 0 /\ ncur = 0
    BY FS_EmptySet DEF AtomicInit
  <2> QED
    BY <2>2, <2>3, <2>4 DEF CountOK
<1> QED
  BY <1>7, <1>9, <1>10, <1>11, <1>12, <1>13 DEF AtomicInv

LEMMA NoStep ==
  ASSUME AtomicInv, UNCHANGED <<x, y, expire, data, seat, ncur, freelist, th, client>>, clock' \in Nat
  PROVE  AtomicInv'
<1>0. AtomicTypeOK /\ CallsOK /\ Apart /\ OwnedUnseated /\ OneSeatEach /\ NodesOK /\ SeatedOK /\ Pool /\ CountOK
  BY DEF AtomicInv
<1>1. InSeats' = InSeats
  BY DEF InSeats
<1>2. AtomicTypeOK' /\ Apart' /\ OwnedUnseated' /\ OneSeatEach' /\ NodesOK' /\ SeatedOK'
  BY <1>0, <1>1 DEF AtomicTypeOK, Apart, OwnedUnseated, OneSeatEach, NodesOK, SeatedOK, hx
<1>3. CallsOK'
  BY <1>0 DEF CallsOK, CallOK, LocalsOK, KnownOK, HeadOK, InPass, Seat, Read, hx
<1>4. Pool'
  BY <1>0, <1>1 DEF Pool, IsChain, AllKept
<1>5. CountOK'
  BY <1>0 DEF CountOK, Settled, Leaving, Adding, At
<1> QED
  BY <1>2, <1>3, <1>4, <1>5 DEF AtomicInv

LEMMA AtomicStep ==
  ASSUME stale \/ AtomicInv, [AtomicNext]_atomicVars
  PROVE  stale' \/ AtomicInv'
<1>0. stale => stale'
  BY DEF AtomicNext, atomicVars
<1> SUFFICES ASSUME AtomicInv, ~stale'
             PROVE  AtomicInv'
  BY <1>0
<1>1. CASE UNCHANGED atomicVars
  <2>1. UNCHANGED <<x, y, expire, data, seat, ncur, freelist, th, client>> /\ clock' \in Nat
    BY <1>1 DEF atomicVars, AtomicInv, AtomicTypeOK
  <2> QED
    BY <2>1, NoStep
<1>2. CASE AtomicNext
  <2>1. UNCHANGED client /\ \A t \in Threads : ~StaleHold(t)
    BY <1>2 DEF AtomicNext
  <2>2. CASE Tick
    <3>1. UNCHANGED <<x, y, expire, data, seat, ncur, freelist, th, client>> /\ clock' \in Nat
      BY <2>1, <2>2 DEF Tick, node, AtomicInv, AtomicTypeOK
    <3> QED
      BY <3>1, NoStep
  <2>3. ASSUME NEW t \in Threads, NEW op \in client.ops, NEW k \in Keys, NEW ttl \in client.ttls,
               Call(t, op, k, ttl)
        PROVE  AtomicInv'
    BY <2>1, <2>3, CallStep
  <2>4. ASSUME NEW t \in Threads, Step(t) PROVE AtomicInv'
    <3>1. CASE Scan(t) \/ Ttl(t) \/ likely_equal(t)
      BY <3>1, <2>1, ScanStep, TtlStep, EqualStep
    <3>2. CASE Hold(t)
      <4>1. CASE x[th[t].mi] # th[t].vx
        BY <3>2, <4>1, <2>1, RetryStep
      <4>2. CASE x[th[t].mi] = th[t].vx
        <5>1. th \in [Threads -> Locals] /\ th[t] \in Locals
          BY DEF AtomicInv, AtomicTypeOK
        <5>2. PICK m : m = [th[t] EXCEPT !.pc = "held"]
          OBVIOUS
        <5>3. m.pc = "held"
          BY <5>1, <5>2 DEF Locals
        <5>4. th' = [th EXCEPT ![t] = m]
          BY <3>2, <4>2, <5>2 DEF Hold, Go
        <5>5. th'[t].pc = "held" /\ At(t, "hold")
          BY <3>2, <5>1, <5>3, <5>4 DEF Hold
        <5>6. seat[Seat(th[t])] = th[t].mi
          BY <5>5, <2>1 DEF StaleHold, Seat
        <5> QED
          BY <3>2, <4>2, <5>6, <2>1, HoldStep
      <4> QED
        BY <4>1, <4>2
    <3>3. CASE Retry(t) \/ Wait(t)
      BY <3>3, <2>1, RetryStep
    <3>4. CASE Held(t) \/ Unhold(t) \/ Reexpire(t) \/ CheckSeat(t) \/ Hook(t)
      BY <3>4, <2>1, HeldStep
    <3>5. CASE UnholdCas(t) \/ AddHook(t)
      BY <3>5, <2>1, UnholdStep, AddHookStep
    <3>6. CASE New(t) \/ NewLink(t) \/ NewCas(t)
      BY <3>6, <2>1, PopRead, NewCasStep
    <3>7. CASE GiveBack(t) \/ Free(t) \/ FreeCas(t)
      BY <3>7, <2>1, GiveBackStep, FreeStep, FreeCasStep
    <3>8. CASE SetNode(t) \/ SetData(t) \/ AddHold(t)
      BY <3>8, <2>1, SetStep
    <3>9. CASE AddScan(t) \/ AddReadX(t)
      BY <3>9, <2>1, AddRead
    <3>10. CASE AddCas(t) \/ NoSit(t)
      BY <3>10, <2>1, AddCasStep, BackStep
    <3>11. CASE Take(t) \/ Wipe(t)
      BY <3>11, <2>1, TakeStep, WipeStep
    <3>12. CASE Uncount(t) \/ AddCount(t)
      BY <3>12, <2>1, UncountStep, AddCountStep
    <3> QED
      BY <2>4, <3>1, <3>2, <3>3, <3>4, <3>5, <3>6, <3>7, <3>8, <3>9, <3>10, <3>11, <3>12 DEF Step
  <2> QED
    BY <1>2, <2>2, <2>3, <2>4 DEF AtomicNext
<1> QED
  BY <1>1, <1>2

-----------------------------------------------------------------------------
(* What the invariant says of the free list.                               *)

(* A set of natural numbers that is not empty has a least element. *)
LEMMA LeastOne ==
  ASSUME NEW S \in SUBSET Nat, S # {}
  PROVE  \E a \in S : \A b \in S : a <= b
<1> DEFINE Less == {p \in Nat \X Nat : p[1] < p[2]}
<1>1. IsWellFoundedOn(Less, Nat)
  BY NatLessThanWellFounded DEF OpToRel
<1>2. \A a, b \in Nat : <<b, a>> \in Less <=> b < a
  OBVIOUS
<1> HIDE DEF Less
<1>3. PICK a \in S : \A b \in S : <<b, a>> \notin Less
  BY <1>1, WFMin
<1>4. ASSUME NEW b \in S PROVE a <= b
  <2>1. a \in Nat /\ b \in Nat
    OBVIOUS
  <2>2. ~(b < a)
    BY <2>1, <1>2, <1>3
  <2> QED BY <2>1, <2>2
<1> QED BY <1>4

(* Nodes cannot be more than there are. *)
LEMMA ChainFits ==
  ASSUME NEW n \in Nat, NEW c \in [1 .. n -> Index], \A i, j \in 1 .. n : c[i] = c[j] => i = j
  PROVE  n <= Nodes
<1>1. Nodes \in Nat /\ Nodes # 0
  BY AtomicAssumption
<1>2. IsFiniteSet(Index) /\ Cardinality(Index) = Nodes
  BY <1>1, FS_Interval DEF Index
<1>3. Cardinality(1 .. n) = n
  BY FS_Interval
<1>4. c \in Injection(1 .. n, Index)
  BY DEF Injection, IsInjective
<1>5. Cardinality(1 .. n) <= Cardinality(Index)
  BY <1>2, <1>4, FS_Injection
<1> QED
  BY <1>2, <1>3, <1>5

(* The walk along the free list meets the nodes of the chain, the last first. *)
LEMMA WalkOfChain ==
  ASSUME NEW n \in Nat, NEW c \in [1 .. n -> Index], IsChain(c, n)
  PROVE  /\ n <= Nodes
         /\ \A k \in 0 .. Nodes : FreeWalk[k] = IF k < n THEN c[n - k] ELSE NNULL
<1>1. Nodes \in Nat /\ Nodes # 0 /\ NNULL \notin Index
  BY AtomicAssumption DEF Index, NNULL
<1>2. n <= Nodes
  BY ChainFits DEF IsChain
<1> DEFINE Met(k) == IF k < n THEN c[n - k] ELSE NNULL
<1>3. Met(0) = freelist.mi
  <2>1. n # 0 <=> 0 < n
    OBVIOUS
  <2> QED
    BY <2>1 DEF IsChain
<1>4. \A k \in 1 .. Nodes : Met(k) = IF Met(k - 1) \in Index THEN x[Met(k - 1)] ELSE NNULL
  <2> SUFFICES ASSUME NEW k \in 1 .. Nodes
               PROVE  Met(k) = IF Met(k - 1) \in Index THEN x[Met(k - 1)] ELSE NNULL
    OBVIOUS
  <2>1. CASE k - 1 < n
    <3>1. n - (k - 1) \in 1 .. n /\ Met(k - 1) = c[n - (k - 1)]
      BY <2>1, <1>1
    <3>2. x[Met(k - 1)] = IF n - (k - 1) = 1 THEN NNULL ELSE c[(n - (k - 1)) - 1]
      BY <3>1 DEF IsChain
    <3>3. n - (k - 1) = 1 <=> ~(k < n)
      BY <2>1, <1>1
    <3>4. (n - (k - 1)) - 1 = n - k
      BY <1>1
    <3> QED
      BY <3>1, <3>2, <3>3, <3>4
  <2>2. CASE ~(k - 1 < n)
    <3>1. ~(k < n)
      BY <2>2, <1>1
    <3> QED
      BY <2>2, <3>1, <1>1
  <2> QED
    BY <2>1, <2>2
<1> DEFINE Walks(f) == f = [k \in 0 .. Nodes |-> IF k = 0 THEN freelist.mi
                                ELSE LET mi == f[k - 1] IN IF mi \in Index THEN x[mi] ELSE NNULL]
<1>5. \E f : Walks(f)
  <2> DEFINE g == [k \in 0 .. Nodes |-> Met(k)]
  <2>1. \A k \in 1 .. Nodes : k - 1 \in 0 .. Nodes /\ k # 0
    BY <1>1
  <2>2. \A k \in 1 .. Nodes : g[k - 1] = Met(k - 1)
    BY <2>1
  <2>3. \A k \in 0 .. Nodes : k = 0 \/ k \in 1 .. Nodes
    BY <1>1
  <2> HIDE DEF Met
  <2>4. \A k \in 0 .. Nodes : Met(k) = IF k = 0 THEN freelist.mi
                                ELSE LET mi == g[k - 1] IN IF mi \in Index THEN x[mi] ELSE NNULL
    <3> HIDE DEF g
    <3> QED
      BY <2>1, <2>2, <2>3, <1>3, <1>4
  <2>5. Walks(g)
    BY <2>4
  <2> HIDE DEF Walks, g
  <2> QED
    BY <2>5
<1>6. FreeWalk = CHOOSE f : Walks(f)
  BY DEF FreeWalk
<1>7. Walks(FreeWalk)
  <2> HIDE DEF Walks
  <2> QED
    BY <1>5, <1>6, Zenon
<1> HIDE DEF Met
<1>8. ASSUME \E k \in 0 .. Nodes : FreeWalk[k] # Met(k) PROVE FALSE
  <2> DEFINE S == {k \in 0 .. Nodes : FreeWalk[k] # Met(k)}
  <2>1. S \in SUBSET Nat /\ S # {}
    BY <1>1, <1>8
  <2>2. PICK k \in S : \A b \in S : k <= b
    <3> HIDE DEF S
    <3> QED
      BY <2>1, LeastOne
  <2>3. FreeWalk[0] = freelist.mi
    BY <1>1, <1>7
  <2>4. k # 0
    BY <2>3, <1>3
  <2>5. k \in 1 .. Nodes /\ k - 1 \in 0 .. Nodes /\ k - 1 \notin S
    BY <2>2, <2>4, <1>1
  <2>6. FreeWalk[k - 1] = Met(k - 1)
    BY <2>5
  <2>7. FreeWalk[k] = IF FreeWalk[k - 1] \in Index THEN x[FreeWalk[k - 1]] ELSE NNULL
    BY <2>4, <1>7
  <2> QED
    BY <2>5, <2>6, <2>7, <1>4
<1> QED
  BY <1>2, <1>8 DEF Met

LEMMA InvSound ==
  ASSUME AtomicInv
  PROVE  NodesSound
<1>1. AtomicTypeOK /\ CallsOK /\ Apart /\ OwnedUnseated /\ NodesOK /\ SeatedOK /\ Pool /\ CountOK
  BY DEF AtomicInv
<1>2. PICK n \in Nat : \E c \in [1 .. n -> Index] : IsChain(c, n) /\ AllKept(c, n)
  BY <1>1 DEF Pool
<1>3. PICK c \in [1 .. n -> Index] : IsChain(c, n) /\ AllKept(c, n)
  BY <1>2
<1>4. Nodes \in Nat /\ NNULL \notin Index
  BY AtomicAssumption DEF Index, NNULL
<1>5. n <= Nodes /\ \A k \in 0 .. Nodes : FreeWalk[k] = IF k < n THEN c[n - k] ELSE NNULL
  BY <1>3, WalkOfChain
<1>6. FreeWalk[Nodes] = NNULL
  BY <1>4, <1>5
<1>7. FreeNodes = Listed(c, n)
  <2>1. ASSUME NEW k \in 0 .. Nodes, FreeWalk[k] # NNULL PROVE FreeWalk[k] \in Listed(c, n)
    <3>1. n - k \in 1 .. n /\ FreeWalk[k] = c[n - k]
      BY <2>1, <1>5
    <3> QED
      BY <3>1 DEF Listed
  <2>2. ASSUME NEW i \in 1 .. n PROVE c[i] \in FreeNodes
    <3>1. n - i \in 0 .. Nodes /\ n - i < n /\ n - (n - i) = i
      BY <1>4, <1>5
    <3>2. FreeWalk[n - i] = c[i]
      BY <3>1, <1>5
    <3>3. c[i] # NNULL
      BY <1>4
    <3> QED
      BY <3>1, <3>2, <3>3 DEF FreeNodes
  <2>3. FreeNodes \subseteq Listed(c, n)
    BY <2>1 DEF FreeNodes
  <2> QED
    BY <2>2, <2>3 DEF Listed
<1>8. FreeListSound
  <2>1. Listed(c, n) \subseteq Index
    BY DEF Listed
  <2> QED
    BY <2>1, <1>3, <1>6, <1>7 DEF FreeListSound, AllKept
<1>9. OwnData
  <2> SUFFICES ASSUME NEW t \in Threads, th[t].pc = "hook" PROVE data[th[t].mi] = th[t].k
    BY DEF OwnData, At
  <2>1. PICK l : l = th[t]
    OBVIOUS
  <2>2. l.pc = "hook" /\ l.pc \in Holding /\ LocalsOK(l) /\ KnownOK(l)
    BY <2>1, OfCall DEF Holding, CallOK
  <2>3. l.purpose = "op" /\ l.vy = l.k /\ y[l.mi] = l.vy
    BY <2>2 DEF LocalsOK, KnownOK
  <2>4. l.mi \in InSeats
    BY <2>1, <2>2, OwnedIndex DEF Holds
  <2> QED
    BY <2>1, <2>3, <2>4, SeatsOK
<1>10. Quiet => \A t \in Threads : Owned(th[t]) = {} /\ Holds(th[t]) = {}
  <2> SUFFICES ASSUME NEW t \in Threads, th[t].pc = "idle" PROVE Owned(th[t]) = {} /\ Holds(th[t]) = {}
    BY DEF Quiet, At
  <2>1. th[t].ni = NNULL
    BY <1>1 DEF CallsOK, CallOK, LocalsOK
  <2> QED
    BY <2>1 DEF Owned, Kept, Dropped, Holds, Holding, Clearing, Freeing, Placed
<1>11. NoNodeLost
  <2> SUFFICES ASSUME Quiet PROVE Index = InSeats \cup FreeNodes
    BY DEF NoNodeLost
  <2>1. Index \subseteq InSeats \cup Listed(c, n)
    BY <1>3, <1>10 DEF AllKept
  <2>2. InSeats \subseteq Index /\ Listed(c, n) \subseteq Index
    BY SeatsOK DEF Listed
  <2> QED
    BY <2>1, <2>2, <1>7
<1>12. NoneStaysHeld
  <2> SUFFICES ASSUME Quiet, NEW i \in InSeats PROVE x[i] = hx(y[i])
    BY DEF NoneStaysHeld
  <2>1. x[i] # 0
    BY <1>1, <1>10 DEF SeatedOK
  <2> QED
    BY <2>1, SeatsOK
<1>13. SeatsCounted
  <2> SUFFICES ASSUME Quiet
               PROVE  ncur = Cardinality({j \in 1 .. Len(Extra) : seat[Extra[j]] # NNULL})
    BY DEF SeatsCounted
  <2>1. \A t \in Threads : th[t].pc = "idle"
    BY DEF Quiet, At
  <2>2. Leaving = {} /\ \A i : ~Adding(i)
    BY <2>1 DEF Leaving, Adding, At
  <2>3. Settled = {j \in 1 .. Len(Extra) : seat[Extra[j]] # NNULL}
    BY <2>2 DEF Settled
  <2>4. Cardinality(Leaving) = 0
    BY <2>2, FS_EmptySet
  <2> QED
    BY <2>3, <2>4, <1>1, Counts DEF CountOK
<1> QED
  BY <1>8, <1>9, <1>11, <1>12, <1>13 DEF NodesSound

(* atomic_hash.c:377-760, for any number of threads, nodes, keys and seats, adds, gets, *)
(* deletions and expiries in any interleaving: a node is free or in a seat or one       *)
(* call's, never two of them; a callback gets the data of its key; and once no call     *)
(* runs every node is in a seat or free, none is still held and ncur is right; until a  *)
(* call holds a node that has left its seat since the call read it.                     *)
THEOREM NodesOfPool == AtomicSpec => []NodesSound
<1>1. AtomicInit => stale \/ AtomicInv
  BY AtomicStart
<1>2. (stale \/ AtomicInv) /\ [AtomicNext]_atomicVars => (stale \/ AtomicInv)'
  BY AtomicStep
<1>3. stale \/ AtomicInv => NodesSound
  BY InvSound DEF NodesSound
<1> QED
  BY <1>1, <1>2, <1>3, PTL DEF AtomicSpec
=============================================================================
