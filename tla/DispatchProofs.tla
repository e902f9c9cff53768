--------------------------- MODULE DispatchProofs ---------------------------
(***************************************************************************)
(* Dispatch is memory safe for any number of hooks, descriptors, workers,  *)
(* clients and segments: the reference count is exact, a hook is freed     *)
(* when and only when its last holder lets go, and it stays with one       *)
(* worker.                                                                 *)
(***************************************************************************)
EXTENDS Dispatch, FiniteSetTheorems, TLAPS

-----------------------------------------------------------------------------
(* Counting a hook in a queue.                                             *)

LEMMA OccFinite ==
  ASSUME NEW S, NEW s \in Seq(S), NEW h
  PROVE  IsFiniteSet({i \in DOMAIN s : s[i] = h}) /\ Occ(s, h) \in Nat
<1>1. IsFiniteSet(1..Len(s))
  BY FS_Interval
<1>2. {i \in DOMAIN s : s[i] = h} \in SUBSET (1..Len(s))
  OBVIOUS
<1>3. IsFiniteSet({i \in DOMAIN s : s[i] = h})
  BY <1>1, <1>2, FS_Subset
<1> QED
  BY <1>3, FS_CardinalityType DEF Occ

LEMMA OccZero ==
  ASSUME NEW S, NEW s \in Seq(S), NEW h
  PROVE  Occ(s, h) = 0 <=> \A i \in DOMAIN s : s[i] # h
<1>1. Occ(s, h) = 0 <=> {i \in DOMAIN s : s[i] = h} = {}
  BY OccFinite, FS_EmptySet DEF Occ
<1> QED
  BY <1>1

LEMMA OccEmpty ==
  ASSUME NEW h PROVE Occ(<<>>, h) = 0
<1>1. {i \in DOMAIN <<>> : <<>>[i] = h} = {}
  OBVIOUS
<1> QED
  BY <1>1, FS_EmptySet DEF Occ

LEMMA OccAppend ==
  ASSUME NEW S, NEW s \in Seq(S), NEW e \in S, NEW h
  PROVE  Occ(Append(s, e), h) = Occ(s, h) + Bit(e = h)
<1> DEFINE A == {i \in DOMAIN s : s[i] = h}
           t == Append(s, e)
           B == {i \in DOMAIN t : t[i] = h}
           n == Len(s) + 1
<1>1. /\ Len(s) \in Nat /\ DOMAIN s = 1..Len(s) /\ DOMAIN t = 1..n
      /\ t[n] = e /\ \A i \in 1..Len(s) : t[i] = s[i]
  OBVIOUS
<1>2. IsFiniteSet(A) /\ n \notin A /\ Cardinality(A) \in Nat
  <2>1. n \notin A
    BY <1>1
  <2>2. IsFiniteSet(A) /\ Cardinality(A) \in Nat
    BY OccFinite DEF Occ
  <2> QED
    BY <2>1, <2>2
<1>3. CASE e = h
  <2>1. B = A \cup {n}
    BY <1>1, <1>3
  <2>2. Occ(t, h) = Cardinality(B) /\ Occ(s, h) = Cardinality(A)
    BY DEF Occ
  <2> HIDE DEF A, B
  <2> QED
    BY <1>2, <1>3, <2>1, <2>2, FS_AddElement DEF Bit
<1>4. CASE e # h
  <2>1. B = A
    BY <1>1, <1>4
  <2>2. Occ(t, h) = Cardinality(B) /\ Occ(s, h) = Cardinality(A)
    BY DEF Occ
  <2> HIDE DEF A, B
  <2> QED
    BY <1>2, <1>4, <2>1, <2>2 DEF Bit
<1> QED
  BY <1>3, <1>4

LEMMA OccTail ==
  ASSUME NEW S, NEW s \in Seq(S), s # <<>>, NEW h
  PROVE  Occ(s, h) = Occ(Tail(s), h) + Bit(Head(s) = h)
<1> DEFINE A == {i \in DOMAIN s : s[i] = h}
           t == Tail(s)
           B == {i \in DOMAIN t : t[i] = h}
           C == A \ {1}
           f == [i \in B |-> i + 1]
<1>1. /\ Len(s) \in Nat \ {0} /\ DOMAIN s = 1..Len(s) /\ DOMAIN t = 1..(Len(s) - 1)
      /\ Head(s) = s[1] /\ t \in Seq(S)
      /\ \A i \in 1..(Len(s) - 1) : t[i] = s[i + 1]
  OBVIOUS
<1>2. /\ IsFiniteSet(A) /\ Cardinality(A) \in Nat
      /\ IsFiniteSet(B) /\ Cardinality(B) \in Nat
  BY <1>1, OccFinite DEF Occ
<1>3. f \in Bijection(B, C)
  <2>1. f \in [B -> C]
    BY <1>1
  <2>2. \A i, j \in B : f[i] = f[j] => i = j
    BY <1>1
  <2>3. \A j \in C : \E i \in B : f[i] = j
    <3> SUFFICES ASSUME NEW j \in C PROVE \E i \in B : f[i] = j
      OBVIOUS
    <3>1. j - 1 \in B /\ f[j - 1] = j
      BY <1>1
    <3> QED
      BY <3>1
  <2> HIDE DEF f, B, C
  <2> QED
    BY <2>1, <2>2, <2>3 DEF Bijection, Injection, Surjection, IsInjective
<1>4. Cardinality(C) = Cardinality(B)
  <2>1. ExistsBijection(B, C)
    BY <1>3 DEF ExistsBijection
  <2> HIDE DEF B, C
  <2> QED
    BY <1>2, <2>1, FS_Bijection
<1>5. Cardinality(C) = IF 1 \in A THEN Cardinality(A) - 1 ELSE Cardinality(A)
  <2> HIDE DEF A
  <2> QED
    BY <1>2, FS_RemoveElement
<1>6. 1 \in A <=> Head(s) = h
  BY <1>1
<1>7. Cardinality(A) = Cardinality(B) + Bit(Head(s) = h)
  <2> HIDE DEF A, B, C
  <2> QED
    BY <1>2, <1>4, <1>5, <1>6 DEF Bit
<1> QED
  BY <1>7 DEF Occ

LEMMA AppendElement ==
  ASSUME NEW S, NEW s \in Seq(S), NEW e \in S, NEW i \in DOMAIN Append(s, e)
  PROVE  \/ i = Len(s) + 1 /\ Append(s, e)[i] = e
         \/ i \in DOMAIN s /\ Append(s, e)[i] = s[i]
OBVIOUS

LEMMA TailElement ==
  ASSUME NEW S, NEW s \in Seq(S), s # <<>>
  PROVE  /\ Tail(s) \in Seq(S)
         /\ \A i \in DOMAIN Tail(s) : i + 1 \in DOMAIN s /\ Tail(s)[i] = s[i + 1]
OBVIOUS

-----------------------------------------------------------------------------
(* The inductive invariant.                                                *)

LEMMA WorkerOfType ==
  ASSUME TypeOK, NEW h \in Hook PROVE WorkerOf(h) \in Worker
<1>1. fd[h] \in Nat
  BY ConstAssumption DEF TypeOK
<1>2. NWorkers \in Nat /\ NWorkers > 0
  BY ConstAssumption
<1> QED
  BY <1>1, <1>2 DEF WorkerOf, Worker

LEMMA QueueCount ==
  ASSUME TypeOK, NEW w \in Worker, NEW h \in Hook
  PROVE  Occ(q[w], h) \in Nat /\ (Occ(q[w], h) = 0 <=> ~Queued(w, h))
<1>1. q[w] \in Seq(Hook)
  BY DEF TypeOK
<1> QED
  BY <1>1, OccFinite, OccZero DEF Queued

LEMMA RegisteredLive ==
  ASSUME IndInv, NEW h \in Hook, Registered(h) PROVE h \in live
<1>1. fd[h] \in Fd /\ reg[fd[h]] = h /\ h # NoHook
  BY ConstAssumption DEF IndInv, TypeOK, Registered
<1> QED
  BY <1>1 DEF IndInv, EpollSet

LEMMA InitIndInv == Init => IndInv
<1> SUFFICES ASSUME Init PROVE IndInv
  OBVIOUS
<1> USE ConstAssumption DEF Init
<1>1. TypeOK
  <2>1. (CHOOSE f \in Fd : TRUE) \in Fd
    OBVIOUS
  <2>2. fd \in [Hook -> Fd]
    BY <2>1
  <2>3. q \in [Worker -> Seq(Hook)]
    OBVIOUS
  <2> QED
    BY <2>2, <2>3 DEF TypeOK
<1>2. RefcntExact
  BY DEF RefcntExact
<1>3. EpollSet /\ MainState
  BY DEF EpollSet, MainState
<1>4. WorkersState
  BY DEF WorkersState
<1> QED
  BY <1>1, <1>2, <1>3, <1>4 DEF IndInv

(* Steps that move no reference: the clients, EVQ_POLL, the end of the     *)
(* accept loop, recvmsg and sendmsg.                                       *)
LEMMA QuietInd ==
  ASSUME IndInv, TypeOK',
         UNCHANGED <<live, fd, refcnt, process, conn, owner, reg, q, wh, mh>>,
         \A f \in ready' : reg[f] # NoHook,
         \A h \in batch' \ {Listener} : Registered(h),
         mpc' = mpc \/ (mpc \notin {"drop", "ref", "put"} /\ mpc' \notin {"drop", "ref", "put"}),
         \A w \in Worker : (wpc'[w] = "wait") <=> (wpc[w] = "wait")
  PROVE  IndInv'
<1> USE DEF IndInv
<1>1. \A h : Registered(h)' <=> Registered(h)
  BY DEF Registered
<1>2. \A h \in Hook : References(h)' = References(h) /\ WorkerOf(h)' = WorkerOf(h)
  <2> SUFFICES ASSUME NEW h \in Hook
               PROVE  References(h)' = References(h) /\ WorkerOf(h)' = WorkerOf(h)
    OBVIOUS
  <2>1. WorkerOf(h)' = WorkerOf(h) /\ WorkerOf(h) \in Worker
    BY WorkerOfType DEF WorkerOf
  <2>2. MainsOwn(h)' <=> MainsOwn(h)
    BY <1>1 DEF MainsOwn
  <2>3. (mpc = "put" /\ mh = h)' <=> (mpc = "put" /\ mh = h)
    OBVIOUS
  <2>4. InWorkersHand(WorkerOf(h), h)' <=> InWorkersHand(WorkerOf(h), h)
    BY <2>1 DEF InWorkersHand
  <2> QED
    BY <2>1, <2>2, <2>3, <2>4 DEF References, Bit
<1>3. live \subseteq Hook
  BY DEF TypeOK
<1>4. RefcntExact'
  BY <1>2, <1>3 DEF RefcntExact
<1>5. EpollSet'
  BY DEF EpollSet
<1>6. MainState'
  BY <1>1 DEF MainState
<1>7. WorkersState'
  <2>1. \A h : WorkerOf(h)' = WorkerOf(h)
    BY DEF WorkerOf
  <2> QED
    BY <2>1 DEF WorkersState
<1> QED
  BY <1>4, <1>5, <1>6, <1>7

LEMMA ClientInd ==
  ASSUME IndInv, Client PROVE IndInv'
<1> USE DEF IndInv
<1>1. /\ UNCHANGED <<live, fd, refcnt, process, conn, owner, reg, q, wh, mh,
                     batch, bhup, mpc, wpc, nacc>>
      /\ ready' \subseteq ready \cup {f \in Fd : owner[f] # 0}
  BY DEF Client, ClientConnect, ClientSend, ClientClose, hooks, main, workers,
         Accepted, Talking, Conn
<1>2. TypeOK'
  <2>1. CASE ClientConnect
    BY <1>1, <2>1, ConstAssumption DEF TypeOK, ClientConnect
  <2>2. ASSUME NEW c \in Conn, ClientSend(c) PROVE TypeOK'
    BY <1>1, <2>2 DEF TypeOK, ClientSend, Accepted
  <2>3. ASSUME NEW c \in Conn, ClientClose(c) PROVE TypeOK'
    BY <1>1, <2>3 DEF TypeOK, ClientClose, Accepted
  <2> QED
    BY <2>1, <2>2, <2>3 DEF Client
<1>3. \A f \in ready' : reg[f] # NoHook
  BY <1>1 DEF EpollSet
<1>4. \A h \in batch' \ {Listener} : Registered(h)
  BY <1>1 DEF MainState
<1> QED
  BY <1>1, <1>2, <1>3, <1>4, QuietInd

LEMMA PollInd ==
  ASSUME IndInv, Poll PROVE IndInv'
<1> USE DEF IndInv
<1>1. /\ mpc = "poll" /\ mpc' = "event" /\ ready' = {}
      /\ batch' = {reg[f] : f \in Reported} \cup (IF nacc < nconn THEN {Listener} ELSE {})
      /\ bhup' = {reg[f] : f \in HungUp}
      /\ UNCHANGED <<nconn, nacc, sent, unread, hup, owner, reg,
                     live, fd, refcnt, process, conn, mh, q, wpc, wh>>
  BY DEF Poll, hooks, workers
<1>2. Reported \subseteq ready /\ HungUp \subseteq ready /\ ready \subseteq Fd
  BY DEF Reported, HungUp, TypeOK
<1>3. \A f \in ready : reg[f] \in Hook /\ Registered(reg[f])
  BY <1>2 DEF EpollSet, Registered, TypeOK
<1>4. TypeOK'
  <2>1. batch' \subseteq Hook \cup {Listener} /\ bhup' \subseteq Hook
    BY <1>1, <1>2, <1>3
  <2> QED
    BY <1>1, <2>1 DEF TypeOK
<1>5. \A h \in batch' \ {Listener} : Registered(h)
  BY <1>1, <1>2, <1>3
<1> QED
  BY <1>1, <1>4, <1>5, QuietInd

LEMMA OnConnectInd ==
  ASSUME IndInv, OnConnect PROVE IndInv'
<1> USE DEF IndInv
<1>1. /\ mpc = "event" /\ mpc' = "accept" /\ batch' = batch \ {Listener}
      /\ UNCHANGED <<nconn, nacc, sent, unread, hup, owner, reg, ready,
                     live, fd, refcnt, process, conn, bhup, mh, q, wpc, wh>>
  BY DEF OnConnect, kernel, hooks, workers
<1>2. TypeOK'
  BY <1>1 DEF TypeOK
<1>3. \A f \in ready' : reg[f] # NoHook
  BY <1>1 DEF EpollSet
<1>4. \A h \in batch' \ {Listener} : Registered(h)
  BY <1>1 DEF MainState
<1> QED
  BY <1>1, <1>2, <1>3, <1>4, QuietInd

LEMMA AcceptDoneInd ==
  ASSUME IndInv, AcceptDone PROVE IndInv'
<1> USE DEF IndInv
<1>1. /\ mpc = "accept" /\ mpc' \in {"poll", "event"}
      /\ UNCHANGED <<nconn, nacc, sent, unread, hup, owner, reg, ready,
                     live, fd, refcnt, process, conn, batch, bhup, mh, q, wpc, wh>>
  BY DEF AcceptDone, NextEvent, kernel, hooks, workers
<1>2. TypeOK'
  BY <1>1 DEF TypeOK
<1>3. \A f \in ready' : reg[f] # NoHook
  BY <1>1 DEF EpollSet
<1>4. \A h \in batch' \ {Listener} : Registered(h)
  BY <1>1 DEF MainState
<1> QED
  BY <1>1, <1>2, <1>3, <1>4, QuietInd

LEMMA RecvInd ==
  ASSUME IndInv, NEW w \in Worker, Recv(w) PROVE IndInv'
<1> USE DEF IndInv
<1>1. UNCHANGED <<nconn, nacc, sent, hup, owner, reg, ready, live, fd, refcnt, process, conn,
                  batch, bhup, mpc, mh, q, wh>>
  BY DEF Recv, hooks, main
<1>2. PICK pc \in {"send", "unref"} : wpc[w] = "recv" /\ wpc' = [wpc EXCEPT ![w] = pc]
  BY DEF Recv
<1>3. unread' \in [Conn -> Nat]
  <2> DEFINE c == owner[fd[wh[w]]]
  <2>1. CASE unread' = unread
    BY <2>1 DEF TypeOK
  <2>2. CASE c # 0 /\ unread' = [unread EXCEPT ![c] = @ - (IF unread[c] < RcvCap THEN unread[c] ELSE RcvCap)]
    <3> DEFINE n == IF unread[c] < RcvCap THEN unread[c] ELSE RcvCap
    <3>1. c \in Conn /\ unread[c] \in Nat
      BY <1>2, <2>2 DEF TypeOK
    <3>2. RcvCap \in Nat
      BY ConstAssumption
    <3>3. unread[c] - n \in Nat
      BY <3>1, <3>2
    <3>4. unread' = [unread EXCEPT ![c] = unread[c] - n]
      BY <2>2
    <3> HIDE DEF c, n
    <3> QED
      BY <3>1, <3>3, <3>4 DEF TypeOK
  <2> QED
    BY <2>1, <2>2 DEF Recv
<1>4. TypeOK'
  BY <1>1, <1>2, <1>3 DEF TypeOK
<1>5. \A v \in Worker : (wpc'[v] = "wait") <=> (wpc[v] = "wait")
  BY <1>2 DEF TypeOK
<1>6. \A f \in ready' : reg[f] # NoHook
  BY <1>1 DEF EpollSet
<1>7. \A h \in batch' \ {Listener} : Registered(h)
  BY <1>1 DEF MainState
<1> QED
  BY <1>1, <1>4, <1>5, <1>6, <1>7, QuietInd

LEMMA SendInd ==
  ASSUME IndInv, NEW w \in Worker, Send(w) PROVE IndInv'
<1> USE DEF IndInv
<1>1. /\ wpc[w] = "send" /\ wpc' = [wpc EXCEPT ![w] = "unref"]
      /\ UNCHANGED <<nconn, nacc, sent, unread, hup, owner, reg, ready,
                     live, fd, refcnt, process, conn, batch, bhup, mpc, mh, q, wh>>
  BY DEF Send, kernel, hooks, main
<1>2. TypeOK'
  BY <1>1 DEF TypeOK
<1>3. \A v \in Worker : (wpc'[v] = "wait") <=> (wpc[v] = "wait")
  BY <1>1 DEF TypeOK
<1>4. \A f \in ready' : reg[f] # NoHook
  BY <1>1 DEF EpollSet
<1>5. \A h \in batch' \ {Listener} : Registered(h)
  BY <1>1 DEF MainState
<1> QED
  BY <1>1, <1>2, <1>3, <1>4, <1>5, QuietInd

LEMMA StutterInd ==
  ASSUME IndInv, UNCHANGED vars PROVE IndInv'
<1> USE DEF IndInv
<1>1. UNCHANGED <<nconn, nacc, sent, unread, hup, owner, reg, ready,
                  live, fd, refcnt, process, conn, batch, bhup, mpc, mh, q, wpc, wh>>
  BY DEF vars, kernel, hooks, main, workers
<1>2. TypeOK'
  BY <1>1 DEF TypeOK
<1>3. \A f \in ready' : reg[f] # NoHook
  BY <1>1 DEF EpollSet
<1>4. \A h \in batch' \ {Listener} : Registered(h)
  BY <1>1 DEF MainState
<1> QED
  BY <1>1, <1>2, <1>3, <1>4, QuietInd

(* hook_ref: main's second reference, for the event in its hand. *)
LEMMA RefInd ==
  ASSUME IndInv, Ref PROVE IndInv'
<1> USE DEF IndInv
<1>1. /\ mpc = "ref" /\ mpc' = "put" /\ refcnt' = [refcnt EXCEPT ![mh] = @ + 1]
      /\ UNCHANGED <<nconn, nacc, sent, unread, hup, owner, reg, ready,
                     live, fd, process, conn, batch, bhup, mh, q, wpc, wh>>
  BY DEF Ref, kernel, workers
<1>2. mh \in Hook /\ live \subseteq Hook
  BY <1>1 DEF TypeOK
<1>3. TypeOK'
  <2>1. refcnt' \in [Hook -> Int]
    BY <1>1, <1>2 DEF TypeOK
  <2> QED
    BY <1>1, <2>1 DEF TypeOK
<1>4. \A h : /\ Registered(h)' <=> Registered(h)
             /\ WorkerOf(h)' = WorkerOf(h)
             /\ \A w : InWorkersHand(w, h)' <=> InWorkersHand(w, h)
  BY <1>1 DEF Registered, WorkerOf, InWorkersHand
<1>5. RefcntExact'
  <2> SUFFICES ASSUME NEW h \in live PROVE refcnt'[h] = References(h)' /\ refcnt'[h] > 0
    BY <1>1 DEF RefcntExact
  <2>1. refcnt[h] = References(h) /\ refcnt[h] > 0 /\ refcnt[h] \in Int
    BY <1>2 DEF RefcntExact, TypeOK
  <2>2. Occ(q[WorkerOf(h)], h) \in Nat
    BY <1>2, WorkerOfType, QueueCount
  <2>3. References(h)' = References(h) + Bit(mh = h)
    BY <1>1, <1>4, <2>2 DEF References, MainsOwn, Bit
  <2>4. refcnt'[h] = refcnt[h] + Bit(mh = h)
    BY <1>1, <1>2, <2>1 DEF Bit, TypeOK
  <2> QED
    BY <2>1, <2>3, <2>4 DEF Bit
<1>6. EpollSet'
  BY <1>1 DEF EpollSet
<1>7. MainState'
  BY <1>1, <1>4 DEF MainState
<1>8. WorkersState'
  BY <1>1, <1>4 DEF WorkersState
<1> QED
  BY <1>3, <1>5, <1>6, <1>7, <1>8

(* stailq_in_lf_spsc: the reference goes from main's hand to the queue. *)
LEMMA PutInd ==
  ASSUME IndInv, Put PROVE IndInv'
<1> USE DEF IndInv
<1> DEFINE x == WorkerOf(mh)
<1>1. /\ mpc = "put" /\ mpc' \in {"poll", "event"}
      /\ q' = [q EXCEPT ![x] = Append(q[x], mh)]
      /\ UNCHANGED <<nconn, nacc, sent, unread, hup, owner, reg, ready,
                     live, fd, refcnt, process, conn, batch, bhup, mh, wpc, wh>>
  BY DEF Put, NextEvent, kernel, hooks
<1>2. mh \in Hook /\ live \subseteq Hook /\ x \in Worker
  BY <1>1, WorkerOfType DEF TypeOK
<1>3. \A w \in Worker : q[w] \in Seq(Hook) /\ q'[w] = IF w = x THEN Append(q[x], mh) ELSE q[w]
  BY <1>1, <1>2 DEF TypeOK
<1>4. TypeOK'
  <2>1. q' \in [Worker -> Seq(Hook)]
    BY <1>1, <1>2, <1>3 DEF TypeOK
  <2> QED
    BY <1>1, <2>1 DEF TypeOK
<1>5. \A h : /\ Registered(h)' <=> Registered(h)
             /\ WorkerOf(h)' = WorkerOf(h)
             /\ \A w : InWorkersHand(w, h)' <=> InWorkersHand(w, h)
  BY <1>1 DEF Registered, WorkerOf, InWorkersHand
<1>6. RefcntExact'
  <2> SUFFICES ASSUME NEW h \in live PROVE refcnt'[h] = References(h)' /\ refcnt'[h] > 0
    BY <1>1 DEF RefcntExact
  <2> DEFINE y == WorkerOf(h)
  <2>1. y \in Worker /\ Occ(q[y], h) \in Nat
    BY <1>2, WorkerOfType, QueueCount
  <2>2. Occ(q'[y], h) = Occ(q[y], h) + Bit(mh = h)
    <3>1. CASE y = x
      BY <1>2, <1>3, <2>1, <3>1, OccAppend
    <3>2. CASE y # x
      BY <1>3, <2>1, <3>2 DEF Bit
    <3> QED
      BY <3>1, <3>2
  <2>3. References(h)' = References(h)
    <3>1. MainsOwn(h)' <=> MainsOwn(h)
      BY <1>1, <1>5 DEF MainsOwn
    <3>2. WorkerOf(h)' = y
      BY <1>5
    <3>3. Bit(mpc = "put" /\ mh = h) = Bit(mh = h) /\ Bit((mpc = "put" /\ mh = h)') = 0
      BY <1>1 DEF Bit
    <3>4. Bit(MainsOwn(h))' = Bit(MainsOwn(h)) /\ Bit(MainsOwn(h)) \in Nat
      BY <3>1 DEF Bit
    <3>5. Bit(InWorkersHand(y, h)') = Bit(InWorkersHand(y, h)) /\ Bit(InWorkersHand(y, h)) \in Nat
      BY <1>5 DEF Bit
    <3>6. Bit(mh = h) \in Nat
      BY DEF Bit
    <3>7. References(h)' = Bit(MainsOwn(h)') + Bit((mpc = "put" /\ mh = h)') + Occ(q'[y], h)
                             + Bit(InWorkersHand(y, h)')
      BY <3>2 DEF References
    <3>8. References(h) = Bit(MainsOwn(h)) + Bit(mpc = "put" /\ mh = h) + Occ(q[y], h)
                             + Bit(InWorkersHand(y, h))
      BY DEF References
    <3> HIDE DEF y
    <3> QED
      BY <2>1, <2>2, <3>3, <3>4, <3>5, <3>6, <3>7, <3>8
  <2> QED
    BY <1>1, <2>3 DEF RefcntExact
<1>7. EpollSet'
  BY <1>1 DEF EpollSet
<1>8. MainState'
  BY <1>1, <1>5 DEF MainState
<1>9. mh \in live /\ process[mh]
  BY <1>1, <1>2, RegisteredLive DEF MainState
<1>10. WorkersState'
  <2>1. ASSUME NEW w \in Worker, NEW i \in DOMAIN q'[w]
        PROVE  q'[w][i] \in live /\ WorkerOf(q'[w][i]) = w /\ process[q'[w][i]]
    <3>1. \/ w = x /\ q'[w][i] = mh
          \/ i \in DOMAIN q[w] /\ q'[w][i] = q[w][i]
      <4>1. CASE w = x
        <5>1. /\ q[x] \in Seq(Hook) /\ q'[w] = Append(q[x], mh)
              /\ i \in DOMAIN Append(q[x], mh)
          BY <1>2, <1>3, <2>1, <4>1
        <5>2. \/ Append(q[x], mh)[i] = mh
              \/ i \in DOMAIN q[x] /\ Append(q[x], mh)[i] = q[x][i]
          BY <1>2, <5>1, AppendElement
        <5> QED
          BY <4>1, <5>1, <5>2
      <4>2. CASE w # x
        BY <1>3, <2>1, <4>2
      <4> QED
        BY <4>1, <4>2
    <3> QED
      BY <1>9, <3>1 DEF WorkersState
  <2> QED
    BY <1>1, <1>5, <2>1 DEF WorkersState
<1> QED
  BY <1>4, <1>6, <1>7, <1>8, <1>10

(* stailq_out_lf_spsc: the reference goes from the queue to the worker. *)
LEMMA TakeInd ==
  ASSUME IndInv, NEW w \in Worker, Take(w) PROVE IndInv'
<1> USE DEF IndInv
<1> DEFINE t == Head(q[w])
<1>1. q[w] \in Seq(Hook) /\ q[w] # <<>>
  BY DEF Take, TypeOK
<1>2. t \in live /\ t \in Hook /\ WorkerOf(t) = w /\ process[t]
  <2>1. 1 \in DOMAIN q[w] /\ t = q[w][1] /\ t \in Hook
    BY <1>1
  <2> QED
    BY <2>1 DEF WorkersState
<1>3. /\ wpc[w] = "wait" /\ wpc' = [wpc EXCEPT ![w] = "recv"] /\ wh' = [wh EXCEPT ![w] = t]
      /\ q' = [q EXCEPT ![w] = Tail(q[w])]
      /\ UNCHANGED <<nconn, nacc, sent, unread, hup, owner, reg, ready,
                     live, fd, refcnt, process, conn, batch, bhup, mpc, mh>>
  BY <1>2 DEF Take, kernel, hooks, main
<1>4. \A v \in Worker :
        /\ q[v] \in Seq(Hook)
        /\ q'[v] = IF v = w THEN Tail(q[w]) ELSE q[v]
        /\ wpc'[v] = IF v = w THEN "recv" ELSE wpc[v]
        /\ wh'[v] = IF v = w THEN t ELSE wh[v]
  BY <1>3 DEF TypeOK
<1>5. TypeOK'
  <2>1. Tail(q[w]) \in Seq(Hook)
    BY <1>1
  <2>2. q' \in [Worker -> Seq(Hook)]
    BY <1>3, <2>1 DEF TypeOK
  <2>3. /\ wpc' \in [Worker -> {"wait", "recv", "send", "unref"}]
        /\ wh' \in [Worker -> Hook \cup {NoHook}]
        /\ \A v \in Worker : wpc'[v] # "wait" => wh'[v] \in Hook
    BY <1>2, <1>3, <1>4 DEF TypeOK
  <2> QED
    BY <1>3, <2>2, <2>3 DEF TypeOK
<1>6. \A h : (Registered(h)' <=> Registered(h)) /\ WorkerOf(h)' = WorkerOf(h)
  BY <1>3 DEF Registered, WorkerOf
<1>7. RefcntExact'
  <2> SUFFICES ASSUME NEW h \in live PROVE refcnt'[h] = References(h)' /\ refcnt'[h] > 0
    BY <1>3 DEF RefcntExact
  <2> DEFINE y == WorkerOf(h)
  <2>1. y \in Worker /\ Occ(q[y], h) \in Nat /\ h \in Hook
    BY WorkerOfType, QueueCount DEF TypeOK
  <2>2. (MainsOwn(h)' <=> MainsOwn(h)) /\ y' = y
    BY <1>3, <1>6 DEF MainsOwn
  <2>3. Occ(q[y], h) + Bit(InWorkersHand(y, h)) = Occ(q'[y], h) + Bit(InWorkersHand(y, h)')
    <3>1. CASE y = w
      <4>1. Tail(q[w]) \in Seq(Hook) /\ Occ(Tail(q[w]), h) \in Nat
        BY <1>1, TailElement, OccFinite
      <4>2. Occ(q[w], h) = Occ(Tail(q[w]), h) + Bit(t = h)
        BY <1>1, OccTail
      <4>3. ~InWorkersHand(w, h) /\ (InWorkersHand(w, h)' <=> t = h)
        BY <1>3, <1>4 DEF InWorkersHand
      <4> QED
        BY <1>4, <2>2, <3>1, <4>1, <4>2, <4>3 DEF Bit, InWorkersHand
    <3>2. CASE y # w
      <4>1. q'[y] = q[y] /\ (InWorkersHand(y, h)' <=> InWorkersHand(y, h))
        BY <1>4, <2>1, <2>2, <3>2 DEF InWorkersHand
      <4> QED
        BY <4>1 DEF Bit
    <3> QED
      BY <3>1, <3>2
  <2>4. References(h)' = References(h)
    <3>1. Occ(q'[y], h) \in Nat
      BY <1>5, <2>1, OccFinite DEF TypeOK
    <3>2. WorkerOf(h)' = y
      BY <1>3 DEF WorkerOf
    <3> QED
      BY <1>3, <2>1, <2>2, <2>3, <3>1, <3>2 DEF References, Bit
  <2> QED
    BY <1>3, <2>4 DEF RefcntExact
<1>8. EpollSet' /\ MainState'
  BY <1>3, <1>6 DEF EpollSet, MainState
<1>9. WorkersState'
  <2>1. \A h : WorkerOf(h)' = WorkerOf(h)
    BY <1>3 DEF WorkerOf
  <2>2. ASSUME NEW v \in Worker, NEW i \in DOMAIN q'[v]
        PROVE  q'[v][i] \in live /\ WorkerOf(q'[v][i]) = v /\ process[q'[v][i]]
    <3>1. PICK j \in DOMAIN q[v] : q'[v][i] = q[v][j]
      <4>1. CASE v = w
        <5>1. i + 1 \in DOMAIN q[w] /\ Tail(q[w])[i] = q[w][i + 1]
          BY <1>1, <1>4, <2>2, <4>1, TailElement
        <5> QED
          BY <1>4, <4>1, <5>1
      <4>2. CASE v # w
        BY <1>4, <2>2, <4>2
      <4> QED
        BY <4>1, <4>2
    <3> QED
      BY <3>1 DEF WorkersState
  <2> QED
    BY <1>2, <1>3, <1>4, <2>1, <2>2 DEF WorkersState
<1> QED
  BY <1>5, <1>7, <1>8, <1>9

(* The parts of the reference count are natural numbers. *)
LEMMA ReferencesParts ==
  ASSUME IndInv, NEW h \in live
  PROVE  /\ WorkerOf(h) \in Worker /\ h \in Hook
         /\ Bit(MainsOwn(h)) \in Nat /\ Bit(mpc = "put" /\ mh = h) \in Nat
         /\ Occ(q[WorkerOf(h)], h) \in Nat /\ Bit(InWorkersHand(WorkerOf(h), h)) \in Nat
         /\ refcnt[h] = References(h) /\ refcnt[h] \in Int /\ refcnt[h] > 0
<1>1. h \in Hook
  BY DEF IndInv, TypeOK
<1>2. WorkerOf(h) \in Worker
  BY <1>1, WorkerOfType DEF IndInv
<1>3. Occ(q[WorkerOf(h)], h) \in Nat
  BY <1>1, <1>2, QueueCount DEF IndInv
<1> QED
  BY <1>1, <1>2, <1>3 DEF IndInv, RefcntExact, TypeOK, Bit

(* hook_unref: a worker's reference is dropped; if it was the last, nobody *)
(* else can reach the hook.                                                *)
LEMMA UnrefInd ==
  ASSUME IndInv, NEW w \in Worker, Unref(w) PROVE IndInv'
<1> USE DEF IndInv
<1> DEFINE d == wh[w]
<1>1. /\ wpc[w] = "unref" /\ wpc' = [wpc EXCEPT ![w] = "wait"]
      /\ refcnt' = [refcnt EXCEPT ![d] = @ - 1]
      /\ live' = IF refcnt[d] = 1 THEN live \ {d} ELSE live
      /\ UNCHANGED <<nconn, nacc, sent, unread, hup, owner, reg, ready, fd, process, conn,
                     batch, bhup, mpc, mh, q, wh>>
  BY DEF Unref, DropRef, kernel, main
<1>2. d \in live /\ d \in Hook /\ WorkerOf(d) = w
  BY <1>1 DEF WorkersState, TypeOK
<1>3. \A v \in Worker : wpc'[v] = IF v = w THEN "wait" ELSE wpc[v]
  BY <1>1 DEF TypeOK
<1>4. TypeOK'
  <2>1. refcnt' \in [Hook -> Int]
    BY <1>1, <1>2 DEF TypeOK
  <2>2. wpc' \in [Worker -> {"wait", "recv", "send", "unref"}]
    BY <1>1 DEF TypeOK
  <2> QED
    BY <1>1, <1>3, <2>1, <2>2 DEF TypeOK
<1>5. \A h : (Registered(h)' <=> Registered(h)) /\ WorkerOf(h)' = WorkerOf(h)
  BY <1>1 DEF Registered, WorkerOf
<1>6. InWorkersHand(w, d) /\ Bit(InWorkersHand(WorkerOf(d), d)) = 1
  BY <1>1, <1>2 DEF InWorkersHand, Bit
<1>7. ASSUME refcnt[d] = 1
      PROVE  ~MainsOwn(d) /\ ~(mpc = "put" /\ mh = d) /\ ~Queued(w, d)
  <2> HIDE DEF d
  <2>1. /\ Bit(MainsOwn(d)) \in Nat /\ Bit(mpc = "put" /\ mh = d) \in Nat
        /\ Occ(q[w], d) \in Nat
        /\ 1 = Bit(MainsOwn(d)) + Bit(mpc = "put" /\ mh = d) + Occ(q[w], d) + 1
    BY <1>2, <1>6, <1>7, ReferencesParts DEF References
  <2>2. /\ Bit(MainsOwn(d)) = 0 /\ Bit(mpc = "put" /\ mh = d) = 0 /\ Occ(q[w], d) = 0
    BY <2>1
  <2> QED
    BY <1>2, <2>2, QueueCount DEF Bit
<1>8. RefcntExact'
  <2> SUFFICES ASSUME NEW h \in live' PROVE refcnt'[h] = References(h)' /\ refcnt'[h] > 0
    BY DEF RefcntExact
  <2>1. h \in live /\ h \in Hook /\ (h = d => refcnt[d] > 1)
    BY <1>1, <1>2, ReferencesParts
  <2>2. (MainsOwn(h)' <=> MainsOwn(h)) /\ WorkerOf(h)' = WorkerOf(h)
    BY <1>1, <1>5 DEF MainsOwn
  <2>3. InWorkersHand(WorkerOf(h), h)' <=> (InWorkersHand(WorkerOf(h), h) /\ h # d)
    BY <1>1, <1>2, <1>3, <2>1, <2>2, ReferencesParts DEF InWorkersHand
  <2>4. References(h)' = Bit(MainsOwn(h)) + Bit(mpc = "put" /\ mh = h)
                           + Occ(q[WorkerOf(h)], h) + Bit(InWorkersHand(WorkerOf(h), h)')
    BY <1>1, <2>2 DEF References, Bit
  <2>5. CASE h = d
    <3>1. refcnt'[h] = refcnt[h] - 1 /\ Bit(InWorkersHand(WorkerOf(h), h)') = 0
      BY <1>1, <1>2, <2>3, <2>5 DEF TypeOK, Bit
    <3>2. Bit(InWorkersHand(WorkerOf(h), h)) = 1
      BY <1>6, <2>5
    <3> QED
      BY <2>1, <2>4, <2>5, <3>1, <3>2, ReferencesParts DEF References
  <2>6. CASE h # d
    <3>1. refcnt'[h] = refcnt[h]
      BY <1>1, <2>1, <2>6 DEF TypeOK
    <3>2. Bit(InWorkersHand(WorkerOf(h), h)') = Bit(InWorkersHand(WorkerOf(h), h))
      BY <2>3, <2>6 DEF Bit
    <3> QED
      BY <2>1, <2>4, <3>1, <3>2, ReferencesParts DEF References
  <2> QED
    BY <2>5, <2>6
<1>9. \A h \in live : h # d \/ refcnt[d] # 1 => h \in live'
  BY <1>1
<1>10. EpollSet'
  <2>1. \A f \in Fd : reg[f] # NoHook => reg[f] \in live'
    <3> SUFFICES ASSUME NEW f \in Fd, reg[f] # NoHook PROVE reg[f] \in live'
      OBVIOUS
    <3>1. reg[f] \in live /\ fd[reg[f]] = f
      BY DEF EpollSet
    <3>2. reg[f] = d => refcnt[d] # 1
      BY <1>7, <3>1 DEF MainsOwn, Registered
    <3> QED
      BY <1>9, <3>1, <3>2
  <2> QED
    BY <1>1, <2>1 DEF EpollSet
<1>11. MainState'
  BY <1>1, <1>5, <1>7, <1>9 DEF MainState, MainsOwn
<1>12. WorkersState'
  <2>1. ASSUME NEW v \in Worker, NEW i \in DOMAIN q[v] PROVE q[v][i] \in live'
    <3>1. q[v][i] \in live /\ WorkerOf(q[v][i]) = v
      BY DEF WorkersState
    <3>2. q[v][i] = d => refcnt[d] # 1
      BY <1>2, <1>7, <3>1 DEF Queued
    <3> QED
      BY <1>9, <3>1, <3>2
  <2>2. ASSUME NEW v \in Worker, wpc'[v] # "wait" PROVE wh[v] \in live' /\ WorkerOf(wh[v]) = v
    <3>1. v # w /\ wpc[v] # "wait"
      BY <1>3, <2>2
    <3>2. wh[v] \in live /\ WorkerOf(wh[v]) = v
      BY <3>1 DEF WorkersState
    <3> QED
      BY <1>2, <1>9, <3>1, <3>2
  <2>3. \A h : WorkerOf(h)' = WorkerOf(h)
    BY <1>5
  <2> QED
    BY <1>1, <2>1, <2>2, <2>3 DEF WorkersState
<1> QED
  BY <1>4, <1>8, <1>10, <1>11, <1>12

(* hook_close, second half: main drops its own reference. *)
LEMMA CloseInd ==
  ASSUME IndInv, Close PROVE IndInv'
<1> USE DEF IndInv
<1>1. /\ mpc = "drop" /\ mpc' \in {"poll", "event"}
      /\ refcnt' = [refcnt EXCEPT ![mh] = @ - 1]
      /\ live' = IF refcnt[mh] = 1 THEN live \ {mh} ELSE live
      /\ UNCHANGED <<nconn, nacc, sent, unread, hup, owner, reg, ready, fd, process, conn,
                     batch, bhup, mh, q, wpc, wh>>
  BY DEF Close, DropRef, NextEvent, kernel, workers
<1>2. mh \in live /\ mh \in Hook /\ ~Registered(mh) /\ Bit(MainsOwn(mh)) = 1
  BY <1>1 DEF MainState, TypeOK, MainsOwn, Bit
<1>3. TypeOK'
  <2>1. refcnt' \in [Hook -> Int]
    BY <1>1, <1>2 DEF TypeOK
  <2> QED
    BY <1>1, <2>1 DEF TypeOK
<1>4. \A h : /\ Registered(h)' <=> Registered(h)
             /\ WorkerOf(h)' = WorkerOf(h)
             /\ \A w : InWorkersHand(w, h)' <=> InWorkersHand(w, h)
  BY <1>1 DEF Registered, WorkerOf, InWorkersHand
<1>5. ASSUME refcnt[mh] = 1
      PROVE  \A w \in Worker : ~Queued(w, mh) /\ ~InWorkersHand(w, mh)
  <2>1. /\ Occ(q[WorkerOf(mh)], mh) = 0 /\ Bit(InWorkersHand(WorkerOf(mh), mh)) = 0
        /\ WorkerOf(mh) \in Worker
    BY <1>2, <1>5, ReferencesParts DEF References
  <2>2. ~Queued(WorkerOf(mh), mh) /\ ~InWorkersHand(WorkerOf(mh), mh)
    BY <1>2, <2>1, QueueCount DEF Bit
  <2> QED
    BY <2>2 DEF WorkersState, Queued, InWorkersHand
<1>6. RefcntExact'
  <2> SUFFICES ASSUME NEW h \in live' PROVE refcnt'[h] = References(h)' /\ refcnt'[h] > 0
    BY DEF RefcntExact
  <2>1. h \in live /\ h \in Hook /\ (h = mh => refcnt[mh] > 1)
    BY <1>1, <1>2, ReferencesParts
  <2>2. MainsOwn(h)' <=> (MainsOwn(h) /\ h # mh)
    BY <1>1, <1>2, <1>4 DEF MainsOwn
  <2>3. References(h)' = Bit(MainsOwn(h)') + Bit(mpc = "put" /\ mh = h)
                           + Occ(q[WorkerOf(h)], h) + Bit(InWorkersHand(WorkerOf(h), h))
    BY <1>1, <1>4 DEF References, Bit
  <2>4. CASE h = mh
    <3>1. refcnt'[h] = refcnt[h] - 1 /\ Bit(MainsOwn(h)') = 0
      BY <1>1, <1>2, <2>2, <2>4 DEF TypeOK, Bit
    <3> QED
      BY <1>2, <2>1, <2>3, <2>4, <3>1, ReferencesParts DEF References
  <2>5. CASE h # mh
    <3>1. refcnt'[h] = refcnt[h] /\ Bit(MainsOwn(h)') = Bit(MainsOwn(h))
      BY <1>1, <2>1, <2>2, <2>5 DEF TypeOK, Bit
    <3> QED
      BY <2>1, <2>3, <3>1, ReferencesParts DEF References
  <2> QED
    BY <2>4, <2>5
<1>7. \A h \in live : h # mh \/ refcnt[mh] # 1 => h \in live'
  BY <1>1
<1>8. EpollSet'
  <2>1. \A f \in Fd : reg[f] # NoHook => reg[f] \in live' /\ reg[f] # mh
    BY <1>2, <1>7 DEF EpollSet, Registered
  <2> QED
    BY <1>1, <2>1 DEF EpollSet
<1>9. MainState'
  BY <1>1, <1>4 DEF MainState
<1>10. WorkersState'
  <2>1. ASSUME NEW v \in Worker, NEW i \in DOMAIN q[v] PROVE q[v][i] \in live'
    BY <1>5, <1>7, <2>1 DEF WorkersState, Queued
  <2>2. ASSUME NEW v \in Worker, wpc[v] # "wait" PROVE wh[v] \in live'
    BY <1>5, <1>7, <2>2 DEF WorkersState, InWorkersHand
  <2> QED
    BY <1>1, <1>4, <2>1, <2>2 DEF WorkersState
<1> QED
  BY <1>3, <1>6, <1>8, <1>9, <1>10

(* Two registered hooks have different descriptors. *)
LEMMA RegisteredOnce ==
  ASSUME NEW g, NEW h, Registered(g), Registered(h), fd[g] = fd[h] PROVE g = h
BY DEF Registered

(* on_data: close(fd) moves main's own reference into its hand; otherwise  *)
(* nothing moves.                                                          *)
LEMMA OnDataInd ==
  ASSUME IndInv, OnData PROVE IndInv'
<1> USE DEF IndInv
<1>1. PICK h \in batch \ {Listener} :
        /\ batch' = batch \ {h} /\ mh' = h
        /\ IF h \in bhup
           THEN /\ owner' = [owner EXCEPT ![fd[h]] = 0]
                /\ reg' = [reg EXCEPT ![fd[h]] = NoHook]
                /\ ready' = ready \ {fd[h]}
                /\ mpc' = "drop" /\ UNCHANGED process
           ELSE /\ process' = [process EXCEPT ![h] = TRUE]
                /\ mpc' = "ref" /\ UNCHANGED <<owner, reg, ready>>
  BY DEF OnData
<1>2. /\ mpc = "event"
      /\ UNCHANGED <<nconn, nacc, sent, unread, hup, live, fd, refcnt, conn, bhup, q, wpc, wh>>
  BY DEF OnData, workers
<1>3. h \in Hook /\ Registered(h) /\ fd[h] \in Fd /\ h # NoHook
  BY ConstAssumption DEF MainState, TypeOK
<1>4. h \in live
  BY <1>3, RegisteredLive
<1>5. \A g : /\ WorkerOf(g)' = WorkerOf(g)
             /\ \A w : InWorkersHand(w, g)' <=> InWorkersHand(w, g)
  BY <1>2 DEF WorkerOf, InWorkersHand
<1>6. TypeOK'
  <2>1. /\ owner' \in [Fd -> Conn \cup {0}] /\ reg' \in [Fd -> Hook \cup {NoHook}]
        /\ ready' \subseteq Fd
    BY <1>1 DEF TypeOK
  <2>2. process' \in [Hook -> BOOLEAN]
    BY <1>1 DEF TypeOK
  <2>3. mpc' \in {"drop", "ref"} /\ mh' \in Hook /\ batch' \subseteq batch
    BY <1>1, <1>3
  <2> QED
    BY <1>2, <2>1, <2>2, <2>3 DEF TypeOK
<1>7. \A g \in Hook : Registered(g)' <=> (Registered(g) /\ (g # h \/ h \notin bhup))
  <2>1. CASE h \in bhup
    <3>1. \A f \in Fd : reg'[f] = IF f = fd[h] THEN NoHook ELSE reg[f]
      BY <1>1, <2>1 DEF TypeOK
    <3> QED
      BY ZenonT(60), <1>2, <1>3, <2>1, <3>1, RegisteredOnce, ConstAssumption DEF Registered, TypeOK
  <2>2. CASE h \notin bhup
    BY <1>1, <1>2, <2>2 DEF Registered
  <2> QED
    BY <2>1, <2>2
<1>8. \A g \in Hook : process[g] => process'[g]
  BY <1>1 DEF TypeOK
<1>9. RefcntExact'
  <2> SUFFICES ASSUME NEW g \in live PROVE refcnt'[g] = References(g)' /\ refcnt'[g] > 0
    BY <1>2 DEF RefcntExact
  <2>1. g \in Hook
    BY DEF TypeOK
  <2>2. MainsOwn(g)' <=> MainsOwn(g)
    BY <1>1, <1>2, <1>3, <1>7, <2>1 DEF MainsOwn
  <2>3. Bit((mpc = "put" /\ mh = g)') = Bit(mpc = "put" /\ mh = g)
    BY <1>1, <1>2 DEF Bit
  <2>4. References(g)' = References(g)
    BY <1>2, <1>5, <2>2, <2>3 DEF References, Bit
  <2> QED
    BY <1>2, <2>4 DEF RefcntExact
<1>10. EpollSet'
  <2>1. CASE h \in bhup
    <3>1. \A f \in Fd : /\ reg'[f] = IF f = fd[h] THEN NoHook ELSE reg[f]
                        /\ owner'[f] = IF f = fd[h] THEN 0 ELSE owner[f]
      BY <1>1, <2>1 DEF TypeOK
    <3>2. ready' = ready \ {fd[h]} /\ ready \subseteq Fd
      BY <1>1, <2>1 DEF TypeOK
    <3> QED
      BY <1>2, <3>1, <3>2 DEF EpollSet
  <2>2. CASE h \notin bhup
    BY <1>1, <1>2, <2>2 DEF EpollSet
  <2> QED
    BY <2>1, <2>2
<1>11. MainState'
  <2>1. \A g \in batch' \ {Listener} : g \in Hook /\ Registered(g)'
    BY <1>1, <1>7 DEF MainState, TypeOK
  <2>2. mpc' = "drop" => mh' \in live' /\ ~Registered(mh)'
    <3>1. mpc' = "drop" => h \in bhup
      BY <1>1
    <3>2. Registered(mh)' <=> Registered(h)'
      BY <1>1 DEF Registered
    <3> QED
      BY <1>1, <1>2, <1>3, <1>4, <1>7, <3>1, <3>2
  <2>3. mpc' \in {"ref", "put"} => Registered(mh)' /\ process'[mh']
    <3>1. mpc' \in {"ref", "put"} => h \notin bhup /\ process'[h]
      BY <1>1, <1>3 DEF TypeOK
    <3>2. Registered(mh)' <=> Registered(h)'
      BY <1>1 DEF Registered
    <3> QED
      BY <1>1, <1>3, <1>7, <3>1, <3>2
  <2> QED
    BY <2>1, <2>2, <2>3 DEF MainState
<1>12. WorkersState'
  <2>1. ASSUME NEW w \in Worker, NEW i \in DOMAIN q[w] PROVE process'[q[w][i]]
    <3>1. q[w][i] \in live /\ process[q[w][i]]
      BY DEF WorkersState
    <3> QED
      BY <1>8, <3>1 DEF TypeOK
  <2> QED
    BY <1>2, <1>5, <2>1 DEF WorkersState
<1> QED
  BY <1>6, <1>9, <1>10, <1>11, <1>12

(* accept, hook_new, EVQ_ADD: the new hook has one holder, main. *)
LEMMA AcceptInd ==
  ASSUME IndInv, Accept PROVE IndInv'
<1> USE DEF IndInv
<1>1. /\ mpc = "accept" /\ nacc < nconn /\ nacc' = nacc + 1
      /\ UNCHANGED <<nconn, sent, unread, hup, batch, bhup, mpc, mh, q, wpc, wh>>
  BY DEF Accept, main, workers
<1>2. nacc' \in 0..nconn' /\ nacc + 1 \in Conn
  BY <1>1, ConstAssumption DEF TypeOK, Conn
<1>3. CASE UNCHANGED <<owner, reg, ready, hooks>>
  <2>1. UNCHANGED <<owner, reg, ready, live, fd, refcnt, process, conn>>
    BY <1>3 DEF hooks
  <2>2. TypeOK'
    BY <1>1, <1>2, <2>1 DEF TypeOK
  <2>3. \A f \in ready' : reg[f] # NoHook
    BY <2>1 DEF EpollSet
  <2>4. \A h \in batch' \ {Listener} : Registered(h)
    BY <1>1 DEF MainState
  <2> QED
    BY <1>1, <2>1, <2>2, <2>3, <2>4, QuietInd
<1>4. ASSUME NEW f \in FreeFd, NEW h \in Hook \ live,
             /\ owner' = [owner EXCEPT ![f] = nacc + 1]
             /\ reg' = [reg EXCEPT ![f] = h]
             /\ ready' = IF unread[nacc + 1] > 0 \/ hup[nacc + 1]
                         THEN ready \cup {f} ELSE ready
             /\ live' = live \cup {h}
             /\ fd' = [fd EXCEPT ![h] = f]
             /\ refcnt' = [refcnt EXCEPT ![h] = 1]
             /\ process' = [process EXCEPT ![h] = FALSE]
             /\ conn' = [conn EXCEPT ![h] = nacc + 1]
      PROVE  IndInv'
  <2>1. f \in Fd /\ owner[f] = 0 /\ reg[f] = NoHook /\ h # NoHook /\ h \in Hook
    BY <1>4, ConstAssumption DEF FreeFd, EpollSet
  <2>2. TypeOK'
    <3>1. owner' \in [Fd -> Conn \cup {0}] /\ reg' \in [Fd -> Hook \cup {NoHook}]
      BY <1>2, <1>4, <2>1 DEF TypeOK
    <3>2. ready' \subseteq Fd /\ live' \subseteq Hook
      BY <1>4, <2>1 DEF TypeOK
    <3>3. /\ fd' \in [Hook -> Fd] /\ refcnt' \in [Hook -> Int]
          /\ process' \in [Hook -> BOOLEAN] /\ conn' \in [Hook -> Conn \cup {0}]
      BY <1>2, <1>4, <2>1 DEF TypeOK
    <3> QED
      BY <1>1, <1>2, <3>1, <3>2, <3>3 DEF TypeOK
  <2>3. \A e \in Fd : /\ reg'[e] = IF e = f THEN h ELSE reg[e]
                      /\ owner'[e] = IF e = f THEN nacc + 1 ELSE owner[e]
    BY <1>4 DEF TypeOK
  <2>4. \A g \in Hook : /\ fd'[g] = IF g = h THEN f ELSE fd[g]
                        /\ refcnt'[g] = IF g = h THEN 1 ELSE refcnt[g]
                        /\ process'[g] = IF g = h THEN FALSE ELSE process[g]
                        /\ conn'[g] = IF g = h THEN nacc + 1 ELSE conn[g]
    BY <1>4 DEF TypeOK
  <2>5. \A g \in live : g # h /\ g \in Hook
    BY <1>4 DEF TypeOK
  <2>6. Registered(h)' /\ \A g \in live : Registered(g)' <=> Registered(g)
    <3>1. Registered(h)'
      BY <2>1, <2>3, <2>4 DEF Registered
    <3>2. ASSUME NEW g \in live PROVE Registered(g)' <=> Registered(g)
      <4>1. g # h /\ g # NoHook /\ g \in Hook /\ fd'[g] = fd[g] /\ fd[g] \in Fd
        BY <2>4, <2>5, ConstAssumption DEF TypeOK
      <4>2. reg'[fd[g]] = g <=> reg[fd[g]] = g
        BY <2>1, <2>3, <4>1
      <4> QED
        BY <4>1, <4>2 DEF Registered
    <3> QED
      BY <3>1, <3>2
  <2>7. \A g \in live : WorkerOf(g)' = WorkerOf(g)
    BY <2>4, <2>5 DEF WorkerOf
  <2>8. \A w \in Worker : ~Queued(w, h) /\ ~InWorkersHand(w, h)
    BY <2>5 DEF WorkersState, Queued, InWorkersHand
  <2>9. RefcntExact'
    <3>1. refcnt'[h] = References(h)' /\ refcnt'[h] > 0
      <4>1. WorkerOf(h)' \in Worker
        <5>1. f \in Nat
          BY <2>1, ConstAssumption
        <5>2. NWorkers \in Nat /\ NWorkers > 0
          BY ConstAssumption
        <5>3. WorkerOf(h)' = f % NWorkers
          BY <2>1, <2>4 DEF WorkerOf
        <5> QED
          BY <5>1, <5>2, <5>3 DEF Worker
      <4>2. Occ(q[WorkerOf(h)'], h) = 0
        BY <2>1, <2>8, <4>1, QueueCount
      <4>3. Bit(InWorkersHand(WorkerOf(h), h)') = 0
        BY <1>1, <2>8, <4>1 DEF InWorkersHand, Bit
      <4>4. Bit(MainsOwn(h)') = 1 /\ Bit((mpc = "put" /\ mh = h)') = 0
        BY <1>1, <2>6 DEF MainsOwn, Bit
      <4>5. References(h)' = Bit(MainsOwn(h)') + Bit((mpc = "put" /\ mh = h)')
                               + Occ(q[WorkerOf(h)'], h) + Bit(InWorkersHand(WorkerOf(h), h)')
        BY <1>1 DEF References
      <4>6. References(h)' = 1 + 0 + 0 + 0
        BY <4>2, <4>3, <4>4, <4>5, Zenon
      <4>7. refcnt'[h] = 1
        BY <2>1, <2>4
      <4> QED
        BY <4>6, <4>7
    <3>2. ASSUME NEW g \in live PROVE refcnt'[g] = References(g)' /\ refcnt'[g] > 0
      <4>1. References(g)' = References(g)
        BY <1>1, <2>6, <2>7 DEF References, MainsOwn, InWorkersHand, Bit
      <4> QED
        BY <2>4, <2>5, <4>1 DEF RefcntExact
    <3> QED
      BY <1>4, <3>1, <3>2 DEF RefcntExact
  <2>10. EpollSet'
    <3>1. \A e \in Fd : (owner'[e] = 0) <=> (reg'[e] = NoHook)
      BY <1>2, <2>1, <2>3 DEF EpollSet, Conn
    <3>2. ASSUME NEW e \in Fd, reg'[e] # NoHook
          PROVE  reg'[e] \in live' /\ fd'[reg'[e]] = e /\ conn'[reg'[e]] = owner'[e]
      <4>1. CASE e = f
        <5>1. reg'[e] = h /\ owner'[e] = nacc + 1
          BY <2>1, <2>3, <4>1
        <5>2. h \in live' /\ fd'[h] = f /\ conn'[h] = nacc + 1
          BY <1>4, <2>1, <2>4
        <5> QED
          BY <4>1, <5>1, <5>2
      <4>2. CASE e # f
        <5>1. reg'[e] = reg[e] /\ owner'[e] = owner[e] /\ reg[e] \in live
          BY <2>3, <3>2, <4>2 DEF EpollSet
        <5> QED
          BY <1>4, <2>4, <2>5, <3>2, <5>1 DEF EpollSet
      <4> QED
        BY <4>1, <4>2
    <3>3. \A e \in ready' : reg'[e] # NoHook
      BY <1>4, <2>1, <2>2, <2>3 DEF EpollSet, TypeOK
    <3> QED
      BY <3>1, <3>2, <3>3 DEF EpollSet
  <2>11. MainState'
    <3>1. ASSUME NEW g \in batch \ {Listener} PROVE Registered(g)'
      <4>1. g \in Hook /\ Registered(g)
        BY DEF MainState, TypeOK
      <4> QED
        BY <2>6, <4>1, RegisteredLive
    <3> QED
      BY <1>1, <3>1 DEF MainState
  <2>12. WorkersState'
    <3>1. ASSUME NEW w \in Worker, NEW i \in DOMAIN q[w]
          PROVE  /\ q[w][i] \in live' /\ WorkerOf(q[w][i])' = w /\ process'[q[w][i]]
      <4>1. q[w][i] \in live /\ WorkerOf(q[w][i]) = w /\ process[q[w][i]]
        BY DEF WorkersState
      <4>2. WorkerOf(q[w][i])' = fd'[q[w][i]] % NWorkers
        BY <1>1 DEF WorkerOf
      <4> QED
        BY <1>4, <2>4, <2>5, <4>1, <4>2 DEF WorkerOf
    <3>2. ASSUME NEW w \in Worker, wpc[w] # "wait"
          PROVE  wh[w] \in live' /\ WorkerOf(wh[w])' = w
      <4>1. wh[w] \in live /\ WorkerOf(wh[w]) = w
        BY <3>2 DEF WorkersState
      <4>2. WorkerOf(wh[w])' = fd'[wh[w]] % NWorkers
        BY <1>1 DEF WorkerOf
      <4> QED
        BY <1>4, <2>4, <2>5, <4>1, <4>2 DEF WorkerOf
    <3> QED
      BY <1>1, <3>1, <3>2 DEF WorkersState
  <2> QED
    BY <2>2, <2>9, <2>10, <2>11, <2>12
<1> QED
  BY <1>3, <1>4 DEF Accept

-----------------------------------------------------------------------------
(* Every reachable state satisfies the inductive invariant: the reference  *)
(* count of a hook is the number of its holders, epoll knows exactly the   *)
(* open connections, and a hook is only ever queued to its own worker.     *)
THEOREM Invariance == Safety => []IndInv
<1>1. IndInv /\ [Next]_vars => IndInv'
  <2> SUFFICES ASSUME IndInv, [Next]_vars PROVE IndInv'
    OBVIOUS
  <2>1. CASE Client
    BY <2>1, ClientInd
  <2>2. CASE MainStep
    BY <2>2, PollInd, OnConnectInd, AcceptInd, AcceptDoneInd, OnDataInd, CloseInd, RefInd, PutInd
    DEF MainStep
  <2>3. CASE \E w \in Worker : WorkerStep(w)
    BY <2>3, TakeInd, RecvInd, SendInd, UnrefInd DEF WorkerStep
  <2>4. CASE UNCHANGED vars
    BY <2>4, StutterInd
  <2> QED
    BY <2>1, <2>2, <2>3, <2>4 DEF Next
<1> QED
  BY <1>1, InitIndInv, PTL DEF Safety

(* The variables keep their types. *)
THEOREM TypeCorrect == Safety => []TypeOK
<1>1. IndInv => TypeOK
  BY DEF IndInv
<1> QED
  BY <1>1, Invariance, PTL

(* No thread, queue or event holds a freed hook: the reference main takes  *)
(* before it queues an event outlives the hook_close of a hang-up.         *)
THEOREM MemorySafe == Safety => []NoUseAfterFree
<1>1. ASSUME IndInv PROVE NoUseAfterFree
  <2> USE <1>1 DEF IndInv
  <2> SUFFICES ASSUME NEW h \in Hook, Held(h) PROVE h \in live
    BY DEF NoUseAfterFree
  <2>1. h # NoHook /\ h # Listener
    BY ConstAssumption
  <2>2. CASE \E f \in Fd : reg[f] = h
    BY <2>1, <2>2 DEF EpollSet
  <2>3. CASE h \in batch
    BY <2>1, <2>3, RegisteredLive DEF MainState
  <2>4. CASE InMainsHand(h)
    BY <2>4, RegisteredLive DEF InMainsHand, MainState
  <2>5. CASE \E w \in Worker : Queued(w, h) \/ InWorkersHand(w, h)
    BY <2>5 DEF Queued, InWorkersHand, WorkersState
  <2> QED
    BY <2>2, <2>3, <2>4, <2>5 DEF Held
<1> QED
  BY <1>1, Invariance, PTL

(* A live hook has a holder: the last reference dropped frees the hook. *)
THEOREM LeakFree == Safety => []NoHookLeaked
<1>1. ASSUME IndInv PROVE NoHookLeaked
  <2> SUFFICES ASSUME NEW h \in live, ~Held(h) PROVE FALSE
    BY DEF NoHookLeaked
  <2>1. h \in Hook /\ fd[h] \in Fd /\ WorkerOf(h) \in Worker
    BY <1>1, ReferencesParts DEF IndInv, TypeOK
  <2>2. /\ ~MainsOwn(h) /\ ~(mpc = "put" /\ mh = h) /\ ~Queued(WorkerOf(h), h)
        /\ ~InWorkersHand(WorkerOf(h), h)
    BY <2>1 DEF Held, MainsOwn, Registered, InMainsHand
  <2>3. /\ Bit(MainsOwn(h)) = 0 /\ Bit(mpc = "put" /\ mh = h) = 0
        /\ Bit(InWorkersHand(WorkerOf(h), h)) = 0
    BY <2>2 DEF Bit
  <2>4. Occ(q[WorkerOf(h)], h) = 0
    BY <1>1, <2>1, <2>2, QueueCount DEF IndInv
  <2>5. References(h) = 0 + 0 + 0 + 0
    BY <2>3, <2>4, Zenon DEF References
  <2>6. References(h) > 0
    BY <1>1, ReferencesParts
  <2> QED
    BY <2>5, <2>6
<1> QED
  BY <1>1, Invariance, PTL

(* fd % nworkers keeps a hook with one worker for its whole life. *)
THEOREM WorkerExclusive == Safety => []OneWorkerPerHook
<1>1. ASSUME IndInv PROVE OneWorkerPerHook
  <2> SUFFICES ASSUME NEW v \in Worker, NEW w \in Worker, NEW h \in Hook,
                      InWorkersHand(v, h) \/ Queued(v, h),
                      InWorkersHand(w, h) \/ Queued(w, h)
               PROVE  v = w
    BY DEF OneWorkerPerHook
  <2>1. WorkerOf(h) = v /\ WorkerOf(h) = w
    BY <1>1 DEF IndInv, WorkersState, InWorkersHand, Queued
  <2> QED
    BY <2>1
<1> QED
  BY <1>1, Invariance, PTL

(* Every event main has yet to handle is about an open connection and      *)
(* carries that connection's own hook.                                     *)
THEOREM EventsCurrent == Safety => []EventsAreCurrent
<1>1. ASSUME IndInv PROVE EventsAreCurrent
  <2> SUFFICES ASSUME NEW h \in batch \ {Listener}
               PROVE  Registered(h) /\ owner[fd[h]] = conn[h]
    BY DEF EventsAreCurrent
  <2>1. h \in Hook /\ Registered(h) /\ fd[h] \in Fd /\ h # NoHook
    BY <1>1, ConstAssumption DEF IndInv, MainState, TypeOK
  <2> QED
    BY <1>1, <2>1 DEF IndInv, EpollSet, Registered
<1> QED
  BY <1>1, Invariance, PTL
-----------------------------------------------------------------------------
(* No data is forgotten.                                                   *)

(* recvmsg takes all that is there if both buffers together can hold it. *)
LEMMA RecvDrains ==
  ASSUME IndInv, NEW w \in Worker, Recv(w)
  PROVE  /\ \A c \in Conn : unread'[c] <= unread[c] /\ unread'[c] \in Nat
         /\ \A c \in Conn : c = owner[fd[wh[w]]] /\ unread[c] <= RcvCap => unread'[c] = 0
<1> DEFINE d == owner[fd[wh[w]]]
           n == IF d = 0 THEN 0 ELSE IF unread[d] < RcvCap THEN unread[d] ELSE RcvCap
<1>1. wh[w] \in Hook /\ fd[wh[w]] \in Fd /\ d \in Conn \cup {0} /\ unread \in [Conn -> Nat]
  BY DEF IndInv, TypeOK, Recv
<1>2. RcvCap \in Nat /\ RcvCap > 0 /\ 0 \notin Conn
  BY ConstAssumption DEF Conn
<1>3. CASE n = 0
  <2>1. unread' = unread
    BY <1>3 DEF Recv
  <2>2. d \in Conn => unread[d] = 0
    BY <1>1, <1>2, <1>3
  <2> HIDE DEF d
  <2>3. d = owner[fd[wh[w]]]
    BY DEF d
  <2> QED
    BY <1>1, <2>1, <2>2, <2>3
<1>4. CASE n # 0
  <2>1. unread' = [unread EXCEPT ![d] = unread[d] - n]
    BY <1>4 DEF Recv
  <2>2. d \in Conn /\ d # 0 /\ unread[d] \in Nat
    BY <1>1, <1>4
  <2>3. unread[d] - n \in Nat /\ unread[d] - n <= unread[d] /\ (unread[d] <= RcvCap => unread[d] - n = 0)
    BY <1>2, <2>2
  <2> HIDE DEF d, n
  <2>4. d = owner[fd[wh[w]]]
    BY DEF d
  <2> QED
    BY <1>1, <2>1, <2>2, <2>3, <2>4
<1> QED
  BY <1>3, <1>4

(* The bounds and main's empty batch, apart from the data itself. *)
LEMMA DataBounds ==
  ASSUME IndInv, DataInv, [Next]_vars
  PROVE  /\ \A c \in Conn : unread'[c] <= sent'[c] /\ sent'[c] <= MaxSend
         /\ mpc' = "poll" => batch' = {}
<1> USE DEF IndInv
<1>1. /\ sent \in [Conn -> Nat] /\ unread \in [Conn -> Nat]
      /\ \A c \in Conn : unread[c] <= sent[c] /\ sent[c] <= MaxSend
      /\ mpc = "poll" => batch = {}
      /\ MaxSend \in Nat
  BY ConstAssumption DEF TypeOK, DataInv
<1>2. CASE Client
  <2>1. UNCHANGED <<batch, mpc>>
    BY <1>2 DEF Client, ClientConnect, ClientSend, ClientClose, main
  <2>2. CASE UNCHANGED <<sent, unread>>
    BY <1>1, <2>1, <2>2
  <2>3. ASSUME NEW c \in Conn, ClientSend(c)
        PROVE  \A d \in Conn : unread'[d] <= sent'[d] /\ sent'[d] <= MaxSend
    BY <1>1, <2>3 DEF ClientSend
  <2> QED
    BY <1>1, <1>2, <2>1, <2>2, <2>3 DEF Client, ClientConnect, ClientClose
<1>3. CASE MainStep
  <2>1. UNCHANGED <<sent, unread>>
    BY <1>3 DEF MainStep, Poll, OnConnect, Accept, AcceptDone, OnData, Close, Ref, Put, kernel
  <2>2. mpc' = "poll" => batch' = {}
    <3>1. CASE Poll \/ OnConnect \/ OnData \/ Ref
      BY <3>1 DEF Poll, OnConnect, OnData, Ref
    <3>2. CASE Accept
      BY <1>1, <3>2 DEF Accept, main
    <3>3. CASE AcceptDone \/ Close \/ Put
      BY <3>3 DEF AcceptDone, Close, Put, NextEvent
    <3> QED
      BY <1>3, <3>1, <3>2, <3>3 DEF MainStep
  <2> QED
    BY <1>1, <2>1, <2>2
<1>4. ASSUME NEW w \in Worker, WorkerStep(w)
      PROVE  /\ \A c \in Conn : unread'[c] <= sent'[c] /\ sent'[c] <= MaxSend
             /\ mpc' = "poll" => batch' = {}
  <2>1. UNCHANGED <<batch, mpc, sent>>
    BY <1>4 DEF WorkerStep, Take, Recv, Send, Unref, kernel, main
  <2>2. CASE unread' = unread
    BY <1>1, <2>1, <2>2
  <2>3. CASE Recv(w)
    <3>1. \A c \in Conn : unread'[c] <= unread[c] /\ unread'[c] \in Nat
      BY <2>3, RecvDrains
    <3> QED
      BY <1>1, <2>1, <3>1
  <2> QED
    BY <1>4, <2>2, <2>3 DEF WorkerStep, Take, Send, Unref, kernel
<1>5. CASE UNCHANGED vars
  BY <1>1, <1>5 DEF vars, kernel, main
<1> QED
  BY <1>2, <1>3, <1>4, <1>5 DEF Next
LEMMA AppendKeeps ==
  ASSUME NEW S, NEW s \in Seq(S), NEW e \in S
  PROVE  /\ Len(s) + 1 \in DOMAIN Append(s, e) /\ Append(s, e)[Len(s) + 1] = e
         /\ \A i \in DOMAIN s : i \in DOMAIN Append(s, e) /\ Append(s, e)[i] = s[i]
OBVIOUS

(* A step that leaves a descriptor, its hook and whoever will read from it *)
(* alone.                                                                  *)
LEMMA StillRead ==
  ASSUME NEW f \in Fd, WillBeRead(f), reg'[f] = reg[f],
         f \in ready => f \in ready',
         reg[f] \in batch => reg[f] \in batch',
         InMainsHand(reg[f]) => mpc' \in {"drop", "ref", "put"} /\ mh' = reg[f],
         UNCHANGED <<q, wh, wpc>>
  PROVE  WillBeRead(f)'
BY DEF WillBeRead, InMainsHand, Queued

LEMMA ClientData ==
  ASSUME IndInv, DataInv, Client, RcvCap >= MaxSend,
         NEW f \in Fd, owner'[f] # 0, unread'[owner'[f]] > 0
  PROVE  WillBeRead(f)'
<1>1. /\ UNCHANGED <<owner, reg, batch, mpc, mh, q, wh, wpc>> /\ ready \subseteq ready'
  BY DEF Client, ClientConnect, ClientSend, ClientClose, hooks, main, workers
<1>2. owner[f] \in Conn /\ unread \in [Conn -> Nat]
  BY <1>1 DEF IndInv, TypeOK
<1>3. CASE unread[owner[f]] > 0
  <2>1. WillBeRead(f)
    BY <1>1, <1>3 DEF DataInv, NoForgottenData
  <2> QED
    BY <1>1, <2>1, StillRead DEF InMainsHand
<1>4. CASE ~(unread[owner[f]] > 0)
  <2>1. PICK c \in Conn : ClientSend(c)
    BY <1>1, <1>2, <1>4 DEF Client, ClientConnect, ClientClose
  <2>2. c = owner[f]
    BY <1>1, <1>2, <1>4, <2>1 DEF ClientSend
  <2>3. f \in ready'
    BY <2>1, <2>2 DEF ClientSend, Accepted
  <2> QED
    BY <2>3 DEF WillBeRead
<1> QED
  BY <1>3, <1>4

LEMMA PollData ==
  ASSUME IndInv, DataInv, Poll, RcvCap >= MaxSend,
         NEW f \in Fd, owner'[f] # 0, unread'[owner'[f]] > 0
  PROVE  WillBeRead(f)'
<1>1. /\ mpc = "poll" /\ UNCHANGED <<owner, reg, unread, q, wh, wpc>>
      /\ {reg[e] : e \in Reported} \subseteq batch'
  BY DEF Poll, workers
<1>2. WillBeRead(f) /\ batch = {}
  BY <1>1 DEF DataInv, NoForgottenData
<1>3. CASE f \in ready
  <2>1. f \in Reported
    BY <1>1, <1>3 DEF Reported
  <2>2. reg'[f] \in batch'
    BY <1>1, <2>1
  <2> QED
    BY <2>2 DEF WillBeRead
<1>4. CASE f \notin ready
  <2>1. ~InMainsHand(reg[f])
    BY <1>1 DEF InMainsHand
  <2> QED
    BY <1>1, <1>2, <1>4, <2>1, StillRead
<1> QED
  BY <1>3, <1>4

(* A new descriptor is ready at once if its client sent before EVQ_ADD. *)
LEMMA AcceptData ==
  ASSUME IndInv, DataInv, Accept, RcvCap >= MaxSend,
         NEW f \in Fd, owner'[f] # 0, unread'[owner'[f]] > 0
  PROVE  WillBeRead(f)'
<1>1. UNCHANGED <<unread, batch, mpc, mh, q, wh, wpc>>
  BY DEF Accept, main, workers
<1>2. CASE UNCHANGED <<owner, reg, ready>>
  <2>1. WillBeRead(f)
    BY <1>1, <1>2 DEF DataInv, NoForgottenData
  <2> QED
    BY <1>1, <1>2, <2>1, StillRead DEF InMainsHand
<1>3. ASSUME NEW e \in FreeFd, NEW h \in Hook,
             owner' = [owner EXCEPT ![e] = nacc + 1], reg' = [reg EXCEPT ![e] = h],
             ready' = IF unread[nacc + 1] > 0 \/ hup[nacc + 1] THEN ready \cup {e} ELSE ready
      PROVE  WillBeRead(f)'
  <2>1. owner \in [Fd -> Conn \cup {0}] /\ reg \in [Fd -> Hook \cup {NoHook}] /\ e \in Fd
    BY DEF IndInv, TypeOK, FreeFd
  <2>2. CASE f = e
    <3>1. owner'[f] = nacc + 1
      BY <1>3, <2>1, <2>2
    <3>2. f \in ready'
      BY <1>1, <1>3, <2>2, <3>1
    <3> QED
      BY <3>2 DEF WillBeRead
  <2>3. CASE f # e
    <3>1. owner'[f] = owner[f] /\ reg'[f] = reg[f] /\ ready \subseteq ready'
      BY <1>3, <2>1, <2>3
    <3>2. WillBeRead(f)
      BY <1>1, <3>1 DEF DataInv, NoForgottenData
    <3> QED
      BY <1>1, <3>1, <3>2, StillRead DEF InMainsHand
  <2> QED
    BY <2>2, <2>3
<1> QED
  BY <1>2, <1>3 DEF Accept, hooks

LEMMA OnDataData ==
  ASSUME IndInv, DataInv, OnData, RcvCap >= MaxSend,
         NEW f \in Fd, owner'[f] # 0, unread'[owner'[f]] > 0
  PROVE  WillBeRead(f)'
<1>1. PICK h \in batch \ {Listener} :
        /\ batch' = batch \ {h} /\ mh' = h
        /\ IF h \in bhup
           THEN /\ owner' = [owner EXCEPT ![fd[h]] = 0]
                /\ reg' = [reg EXCEPT ![fd[h]] = NoHook]
                /\ ready' = ready \ {fd[h]}
                /\ mpc' = "drop" /\ UNCHANGED process
           ELSE /\ process' = [process EXCEPT ![h] = TRUE]
                /\ mpc' = "ref" /\ UNCHANGED <<owner, reg, ready>>
  BY DEF OnData
<1>2. mpc = "event" /\ UNCHANGED <<unread, q, wh, wpc>>
  BY DEF OnData, workers
<1>3. /\ owner \in [Fd -> Conn \cup {0}] /\ reg \in [Fd -> Hook \cup {NoHook}]
      /\ h \in Hook /\ fd[h] \in Fd /\ reg[fd[h]] = h /\ ~InMainsHand(reg[f])
  BY <1>1, <1>2 DEF IndInv, TypeOK, MainState, Registered, InMainsHand
<1>4. (h \in bhup => f # fd[h]) /\ owner'[f] = owner[f] /\ reg'[f] = reg[f]
  BY <1>1, <1>3
<1>5. WillBeRead(f)
  BY <1>2, <1>4 DEF DataInv, NoForgottenData
<1>6. CASE reg[f] = h
  <2>1. f = fd[h]
    BY <1>3, <1>6, ConstAssumption DEF IndInv, EpollSet
  <2>2. mpc' = "ref" /\ mh' = reg'[f]
    BY <1>1, <1>4, <1>6, <2>1
  <2> QED
    BY <2>2 DEF WillBeRead, InMainsHand
<1>7. CASE reg[f] # h
  <2>1. (reg[f] \in batch => reg[f] \in batch') /\ (f \in ready => f \in ready')
    BY <1>1, <1>4, <1>7
  <2> QED
    BY <1>2, <1>3, <1>4, <1>5, <2>1, StillRead
<1> QED
  BY <1>6, <1>7

LEMMA PutData ==
  ASSUME IndInv, DataInv, Put, RcvCap >= MaxSend,
         NEW f \in Fd, owner'[f] # 0, unread'[owner'[f]] > 0
  PROVE  WillBeRead(f)'
<1> DEFINE x == WorkerOf(mh)
<1>1. /\ mpc = "put" /\ q' = [q EXCEPT ![x] = Append(q[x], mh)]
      /\ UNCHANGED <<owner, reg, ready, unread, batch, wh, wpc>>
  BY DEF Put, kernel
<1>2. mh \in Hook /\ x \in Worker /\ q \in [Worker -> Seq(Hook)]
  BY <1>1, WorkerOfType DEF IndInv, TypeOK
<1>3. WillBeRead(f)
  BY <1>1 DEF DataInv, NoForgottenData
<1> HIDE DEF x
<1>4. \A w \in Worker : q[w] \in Seq(Hook) /\ q'[w] = IF w = x THEN Append(q[x], mh) ELSE q[w]
  BY <1>1, <1>2
<1>5. CASE InMainsHand(reg[f])
  <2>1. mh = reg[f] /\ q[x] \in Seq(Hook) /\ q'[x] = Append(q[x], mh)
    BY <1>2, <1>4, <1>5 DEF InMainsHand
  <2>2. Len(q[x]) + 1 \in DOMAIN q'[x] /\ q'[x][Len(q[x]) + 1] = mh
    BY <1>2, <2>1, AppendKeeps
  <2> QED
    BY <1>1, <1>2, <2>1, <2>2 DEF WillBeRead, Queued
<1>6. ASSUME NEW w \in Worker, Queued(w, reg[f]) PROVE WillBeRead(f)'
  <2>1. PICK i \in DOMAIN q[w] : q[w][i] = reg[f]
    BY <1>6 DEF Queued
  <2>2. i \in DOMAIN q'[w] /\ q'[w][i] = reg[f]
    <3>1. CASE w = x
      <4>1. q[w] \in Seq(Hook) /\ q'[w] = Append(q[w], mh)
        BY <1>4, <3>1
      <4> QED
        BY <1>2, <2>1, <4>1, AppendKeeps
    <3>2. CASE w # x
      BY <1>4, <2>1, <3>2
    <3> QED
      BY <3>1, <3>2
  <2> QED
    BY <1>1, <2>2 DEF WillBeRead, Queued
<1>7. CASE f \in ready \/ reg[f] \in batch \/ \E w \in Worker : wh[w] = reg[f] /\ wpc[w] = "recv"
  BY <1>1, <1>7 DEF WillBeRead
<1> QED
  BY <1>3, <1>5, <1>6, <1>7 DEF WillBeRead

LEMMA MainData ==
  ASSUME IndInv, DataInv, MainStep, RcvCap >= MaxSend,
         NEW f \in Fd, owner'[f] # 0, unread'[owner'[f]] > 0
  PROVE  WillBeRead(f)'
<1>1. CASE OnConnect \/ AcceptDone \/ Close \/ Ref
  <2>1. /\ UNCHANGED <<owner, reg, ready, unread, mh, q, wh, wpc>>
        /\ batch' = batch \ {Listener} \/ batch' = batch
        /\ mpc \in {"event", "accept", "drop"} \/ (mpc = "ref" /\ mpc' = "put")
    BY <1>1 DEF OnConnect, AcceptDone, Close, Ref, kernel, workers
  <2>2. WillBeRead(f) /\ reg[f] \in Hook /\ Registered(reg[f])
    BY <2>1 DEF DataInv, NoForgottenData, IndInv, EpollSet, TypeOK, Registered
  <2>3. reg[f] \in batch => reg[f] \in batch'
    BY <2>1, <2>2, ConstAssumption
  <2>4. InMainsHand(reg[f]) => mpc' \in {"drop", "ref", "put"} /\ mh' = reg[f]
    BY <2>1, <2>2 DEF InMainsHand, IndInv, MainState
  <2> QED
    BY <2>1, <2>2, <2>3, <2>4, StillRead
<1> QED
  BY <1>1, PollData, AcceptData, OnDataData, PutData DEF MainStep

LEMMA TakeData ==
  ASSUME IndInv, DataInv, NEW w \in Worker, Take(w), RcvCap >= MaxSend,
         NEW f \in Fd, owner'[f] # 0, unread'[owner'[f]] > 0
  PROVE  WillBeRead(f)'
<1>1. /\ wpc[w] = "wait" /\ q[w] # <<>>
      /\ q' = [q EXCEPT ![w] = Tail(q[w])]
      /\ wh' = [wh EXCEPT ![w] = Head(q[w])]
      /\ wpc' = [wpc EXCEPT ![w] = IF process[Head(q[w])] THEN "recv" ELSE "wait"]
      /\ UNCHANGED <<owner, reg, ready, unread, batch, mpc, mh>>
  BY DEF Take, kernel, main
<1>2. /\ q \in [Worker -> Seq(Hook)] /\ wh \in [Worker -> Hook \cup {NoHook}]
      /\ wpc \in [Worker -> {"wait", "recv", "send", "unref"}]
  BY DEF IndInv, TypeOK
<1>3. WillBeRead(f)
  BY <1>1 DEF DataInv, NoForgottenData
<1>4. Head(q[w]) = q[w][1] /\ 1 \in DOMAIN q[w]
  BY <1>1, <1>2
<1>5. wpc'[w] = "recv" /\ wh'[w] = q[w][1] /\ q'[w] = Tail(q[w])
  BY <1>1, <1>2, <1>4 DEF IndInv, WorkersState
<1>6. \A v \in Worker \ {w} : q'[v] = q[v] /\ wh'[v] = wh[v] /\ wpc'[v] = wpc[v]
  BY <1>1, <1>2
<1>7. ASSUME NEW v \in Worker, Queued(v, reg[f]) PROVE WillBeRead(f)'
  <2>1. PICK i \in DOMAIN q[v] : q[v][i] = reg[f]
    BY <1>7 DEF Queued
  <2>2. CASE v # w
    BY <1>1, <1>6, <2>1, <2>2 DEF WillBeRead, Queued
  <2>3. CASE v = w /\ i = 1
    BY <1>1, <1>5, <2>1, <2>3 DEF WillBeRead
  <2>4. CASE v = w /\ i # 1
    <3>1. q[w] \in Seq(Hook) /\ i \in 1..Len(q[w])
      BY <1>2, <2>1, <2>4
    <3>2. i - 1 \in DOMAIN Tail(q[w]) /\ Tail(q[w])[i - 1] = q[w][i]
      BY <1>1, <2>4, <3>1
    <3> QED
      BY <1>1, <1>5, <2>1, <2>4, <3>2 DEF WillBeRead, Queued
  <2> QED
    BY <2>2, <2>3, <2>4
<1>8. ASSUME NEW v \in Worker, wh[v] = reg[f], wpc[v] = "recv" PROVE WillBeRead(f)'
  <2>1. v # w
    BY <1>1, <1>8
  <2> QED
    BY <1>1, <1>6, <1>8, <2>1 DEF WillBeRead
<1>9. CASE f \in ready \/ reg[f] \in batch \/ InMainsHand(reg[f])
  BY <1>1, <1>9 DEF WillBeRead, InMainsHand
<1> QED
  BY <1>3, <1>7, <1>8, <1>9 DEF WillBeRead

(* recvmsg of another worker's hook, sendmsg, hook_unref; recvmsg of the   *)
(* hook itself leaves nothing unread.                                      *)
LEMMA WorkerData ==
  ASSUME IndInv, DataInv, NEW w \in Worker, WorkerStep(w), RcvCap >= MaxSend,
         NEW f \in Fd, owner'[f] # 0, unread'[owner'[f]] > 0
  PROVE  WillBeRead(f)'
<1>1. CASE Take(w)
  BY <1>1, TakeData
<1>2. CASE Recv(w) \/ Send(w) \/ Unref(w)
  <2>1. /\ UNCHANGED <<owner, reg, ready, batch, mpc, mh, q, wh>>
        /\ \A v \in Worker \ {w} : wpc'[v] = wpc[v]
    BY <1>2 DEF Recv, Send, Unref, kernel, main, IndInv, TypeOK
  <2>2. owner[f] \in Conn /\ unread \in [Conn -> Nat] /\ reg[f] \in Hook /\ fd[reg[f]] = f
    BY <2>1 DEF IndInv, TypeOK, EpollSet
  <2>3. unread[owner[f]] > 0
    <3>1. CASE Recv(w)
      BY <2>1, <2>2, <3>1, RecvDrains
    <3>2. CASE Send(w) \/ Unref(w)
      BY <2>1, <3>2 DEF Send, Unref, kernel
    <3> QED
      BY <1>2, <3>1, <3>2
  <2>4. WillBeRead(f)
    BY <2>1, <2>3 DEF DataInv, NoForgottenData
  <2>5. ~(wh[w] = reg[f] /\ wpc[w] = "recv")
    <3> SUFFICES ASSUME wh[w] = reg[f], wpc[w] = "recv" PROVE FALSE
      OBVIOUS
    <3>1. Recv(w)
      BY <1>2 DEF Send, Unref
    <3>2. unread[owner[f]] <= RcvCap
      BY <2>2, ConstAssumption DEF DataInv, IndInv, TypeOK
    <3>3. unread'[owner[f]] = 0
      BY <2>2, <3>1, <3>2, RecvDrains
    <3> QED
      BY <2>1, <3>3
  <2> QED
    BY <2>1, <2>4, <2>5 DEF WillBeRead, InMainsHand, Queued
<1> QED
  BY <1>1, <1>2 DEF WorkerStep

(* An edge is reported once, and yet no data an accepted client sent is    *)
(* left behind: EVQ_POLL, the batch, main's hand, the queue and the worker *)
(* hand its hook on without a gap, and recvmsg takes all there is, so long *)
(* as both buffers of the msghdr can hold what a client sends.             *)
THEOREM DataNotForgotten == Safety => []NoForgottenData
<1>1. Init => DataInv
  BY ConstAssumption DEF Init, DataInv, NoForgottenData
<1>2. IndInv /\ DataInv /\ [Next]_vars => DataInv'
  <2> SUFFICES ASSUME IndInv, DataInv, [Next]_vars PROVE DataInv'
    OBVIOUS
  <2>1. /\ \A c \in Conn : unread'[c] <= sent'[c] /\ sent'[c] <= MaxSend
        /\ mpc' = "poll" => batch' = {}
    BY DataBounds
  <2>2. ASSUME RcvCap >= MaxSend, NEW f \in Fd, owner'[f] # 0, unread'[owner'[f]] > 0
        PROVE  WillBeRead(f)'
    <3>1. CASE UNCHANGED vars
      <4>1. UNCHANGED <<owner, unread, reg, ready, batch, mpc, mh, q, wh, wpc>>
        BY <3>1 DEF vars, kernel, main, workers
      <4>2. WillBeRead(f)
        BY <2>2, <4>1 DEF DataInv, NoForgottenData
      <4> QED
        BY <4>1, <4>2, StillRead DEF InMainsHand
    <3> QED
      BY <2>2, <3>1, ClientData, MainData, WorkerData DEF Next
  <2> QED
    BY <2>1, <2>2 DEF DataInv, NoForgottenData
<1>3. DataInv => NoForgottenData
  BY DEF DataInv
<1> QED
  BY <1>1, <1>2, <1>3, Invariance, PTL DEF Safety
=============================================================================
