---------------------------- MODULE SocketProofs ----------------------------
(***************************************************************************)
(* Start-up for any number of addresses and any pattern of failing calls:  *)
(* no socket is leaked while iq->fd has room for them, and a start that    *)
(* reports success serves all it bound but what epoll_ctl refused.  Then,  *)
(* whatever calls fail or are interrupted, for any number of clients,      *)
(* descriptors, requests and signals: the worker is never asleep over a    *)
(* hook in its queue, answers to regular clients go out whole, and what    *)
(* ends the process is a signal to a waiting worker, or a hang-up of a     *)
(* client that is not regular.                                             *)
(***************************************************************************)
EXTENDS SocketSetup, Delivery, TLAPS

-----------------------------------------------------------------------------
(* Start-up.                                                               *)

LEMMA SetupInitInd == ASSUME ConstOK PROVE SetupInit => SetupInv
<1> SUFFICES ASSUME SetupInit PROVE SetupInv
  OBVIOUS
<1>1. SetupTypeOK
  BY ConstOK DEF ConstOK, SetupInit, SetupTypeOK, Addr
<1>2. SocketsInv
  <2>1. Len(iqfd) = 0 /\ Fits(0)
    BY ConstOK DEF ConstOK, SetupInit, Fits, IntSize
  <2> QED
    BY <2>1 DEF SetupInit, SocketsInv, Holding, Range
<1>3. DeployInv
  BY DEF SetupInit, DeployInv, Preparing
<1> QED
  BY <1>1, <1>2, <1>3 DEF SetupInv

(* What realloc adds to iq->fd is at its end. *)
LEMMA Stored ==
  ASSUME NEW fds \in Seq(Addr), NEW a \in Addr
  PROVE  /\ Append(fds, a) \in Seq(Addr) /\ DOMAIN Append(fds, a) = DOMAIN fds \cup {Len(fds) + 1}
         /\ Len(Append(fds, a)) = Len(fds) + 1 /\ Append(fds, a)[Len(fds) + 1] = a
         /\ \A k \in DOMAIN fds : Append(fds, a)[k] = fds[k] /\ k # Len(fds) + 1
OBVIOUS

LEMMA StoredNumbers == ASSUME SetupTypeOK PROVE \A k \in DOMAIN iqfd : iqfd[k] \in Nat
<1>1. Addr \subseteq Nat
  BY DEF Addr
<1>2. iqfd \in Seq(Addr)
  BY DEF SetupTypeOK
<1>3. \A k \in DOMAIN iqfd : iqfd[k] \in Addr
  BY <1>2
<1> QED
  BY <1>1, <1>3

LEMMA TypeStep == ASSUME ConstOK, SetupInv, SetupNext PROVE SetupTypeOK'
<1> USE DEF SetupInv
<1>1. MaxAddr \in Nat \ {0} /\ addrs \in Nat /\ i \in Nat /\ rp \in Nat
  BY DEF ConstOK, SetupTypeOK
<1>2. CASE LoadFails \/ ModuleStart \/ Cleanup
  BY <1>2 DEF LoadFails, ModuleStart, Cleanup, SetupTypeOK
<1>3. CASE Resolve
  BY <1>3, <1>1 DEF Resolve, SetupTypeOK, Addr
<1>4. CASE Socket
  <2>1. rp \in 1..addrs
    BY <1>4, <1>1 DEF Socket, SocketsInv
  <2>2. rp \in Addr /\ rp + 1 \in 0..(addrs + 1)
    BY <2>1, <1>1 DEF Addr, SetupTypeOK
  <2> QED
    BY <1>4, <2>2 DEF Socket, NextAddr, SetupTypeOK
<1>5. CASE Bind
  <2>1. rp + 1 \in 0..(addrs + 1)
    BY <1>5, <1>1 DEF Bind, SocketsInv, Holding
  <2> QED
    BY <1>5, <2>1 DEF Bind, NextAddr, SetupTypeOK
<1>6. CASE StoreFd
  <2>1. rp \in Addr /\ rp + 1 \in 0..(addrs + 1)
    BY <1>6, <1>1 DEF StoreFd, SocketsInv, Holding
  <2>2. iqfd' \in Seq(Addr) /\ i \in 1..(Len(iqfd') + 1)
    BY <1>6, <1>1, <2>1, Stored DEF StoreFd, SetupTypeOK
  <2>3. spc' \in {"socket", "undefined"} /\ rp' \in {rp, rp + 1} /\ open' \subseteq Addr
    BY <1>6 DEF StoreFd, NextAddr, SetupTypeOK
  <2>4. UNCHANGED <<family, ret, addrs, listening, i, hooked, refused, args>>
    BY <1>6 DEF StoreFd
  <2> QED
    BY <2>1, <2>2, <2>3, <2>4 DEF SetupTypeOK
<1>7. CASE PrepareDone \/ DeployDone
  BY <1>7 DEF PrepareDone, DeployDone, SetupTypeOK
<1>8. CASE Listen
  <2>1. iqfd[i] \in Addr
    BY <1>8, <1>1 DEF Listen, SetupTypeOK
  <2> QED
    BY <1>8, <2>1 DEF Listen, SetupTypeOK
<1>9. CASE AddHook
  <2>1. i \in 1..Len(iqfd)
    BY <1>9, <1>1 DEF AddHook, SetupTypeOK, DeployInv
  <2>2. iqfd[i] \in Addr /\ i + 1 \in 1..(Len(iqfd) + 1)
    BY <2>1 DEF SetupTypeOK
  <2> QED
    BY <1>9, <2>2 DEF AddHook, SetupTypeOK
<1> QED
  BY <1>2, <1>3, <1>4, <1>5, <1>6, <1>7, <1>8, <1>9 DEF SetupNext

LEMMA SocketsStep == ASSUME ConstOK, SetupInv, SetupNext PROVE SocketsInv'
<1> USE DEF SetupInv, Holding
<1>1. CASE LoadFails \/ ModuleStart \/ Cleanup \/ PrepareDone \/ DeployDone
  BY <1>1 DEF LoadFails, ModuleStart, Cleanup, PrepareDone, DeployDone, SocketsInv
<1>2. CASE Listen \/ AddHook
  BY <1>2 DEF Listen, AddHook, SocketsInv
<1>3. CASE Resolve
  BY <1>3 DEF Resolve, SocketsInv
<1>4. CASE Socket
  <2>1. rp \in Nat \ {0} /\ rp <= addrs /\ rp \in Addr
    BY <1>4 DEF Socket, SocketsInv, SetupTypeOK, Addr, ConstOK
  <2>2. \A k \in DOMAIN iqfd : iqfd[k] \in Nat
    BY StoredNumbers
  <2>3. CASE open' = open \cup {rp} /\ spc' = "bind" /\ UNCHANGED rp
    BY <1>4, <2>1, <2>3 DEF Socket, SocketsInv
  <2>4. CASE NextAddr /\ UNCHANGED open
    BY <1>4, <2>1, <2>2, <2>4 DEF Socket, NextAddr, SocketsInv
  <2> QED
    BY <1>4, <2>3, <2>4 DEF Socket
<1>5. CASE Bind
  <2>1. \A k \in DOMAIN iqfd : iqfd[k] \in Nat
    BY StoredNumbers
  <2>2. CASE spc' = "store" /\ UNCHANGED <<rp, open>>
    BY <1>5, <2>2 DEF Bind, SocketsInv
  <2>3. CASE open' = open \ {rp} /\ NextAddr
    <3>1. rp \in Nat \ {0} /\ rp \notin Range(iqfd)
      BY <1>5, <2>1 DEF Bind, SocketsInv, Range
    <3>2. open' = Range(iqfd)
      BY <1>5, <2>3, <3>1 DEF Bind, SocketsInv
    <3>3. \A k \in DOMAIN iqfd : iqfd[k] < rp + 1
      BY <1>5, <2>1, <3>1 DEF Bind, SocketsInv
    <3> QED
      BY <1>5, <2>3, <3>1, <3>2, <3>3 DEF Bind, NextAddr, SocketsInv
  <2> QED
    BY <1>5, <2>2, <2>3 DEF Bind
<1>6. CASE StoreFd
  <2>1. /\ rp \in Addr /\ rp \in Nat \ {0} /\ iqfd \in Seq(Addr) /\ rp <= addrs
        /\ \A k \in DOMAIN iqfd : iqfd[k] \in Nat /\ iqfd[k] < rp
        /\ open = Range(iqfd) \cup {rp} /\ addrs' = addrs
    BY <1>6, StoredNumbers DEF StoreFd, SocketsInv, SetupTypeOK
  <2>2. CASE Fits(Len(iqfd) + 1) /\ iqfd' = Append(iqfd, rp) /\ NextAddr /\ UNCHANGED open
    <3>1. \A k \in DOMAIN iqfd' : iqfd'[k] \in Nat /\ iqfd'[k] < rp + 1
      BY <2>1, <2>2, Stored
    <3>2. open' = Range(iqfd')
      BY <2>1, <2>2, Stored DEF Range
    <3>3. \A k, l \in DOMAIN iqfd' : iqfd'[k] = iqfd'[l] => k = l
      <4> SUFFICES ASSUME NEW k \in DOMAIN iqfd', NEW l \in DOMAIN iqfd', iqfd'[k] = iqfd'[l]
                   PROVE  k = l
        OBVIOUS
      <4>1. CASE k \in DOMAIN iqfd /\ l \in DOMAIN iqfd
        BY <2>1, <2>2, <4>1, Stored DEF SocketsInv
      <4>2. CASE k \notin DOMAIN iqfd \/ l \notin DOMAIN iqfd
        BY <2>1, <2>2, <4>2, Stored
      <4> QED
        BY <4>1, <4>2
    <3>4. Fits(Len(iqfd'))
      BY <2>1, <2>2, Stored
    <3> QED
      BY <2>1, <2>2, <3>1, <3>2, <3>3, <3>4 DEF SocketsInv, NextAddr
  <2>3. CASE open' = open \ {rp} /\ NextAddr /\ UNCHANGED iqfd
    <3>1. rp \notin Range(iqfd)
      BY <2>1 DEF Range
    <3>2. open' = Range(iqfd)
      BY <2>1, <2>3, <3>1
    <3>3. \A k \in DOMAIN iqfd : iqfd[k] < rp + 1
      BY <2>1
    <3> QED
      BY <2>1, <2>3, <3>2, <3>3 DEF SocketsInv, NextAddr
  <2>4. CASE spc' = "undefined" /\ UNCHANGED <<iqfd, rp, open>>
    BY <2>1, <2>4 DEF SocketsInv
  <2> QED
    BY <1>6, <2>2, <2>3, <2>4 DEF StoreFd
<1> QED
  BY <1>1, <1>2, <1>3, <1>4, <1>5, <1>6 DEF SetupNext

LEMMA DeployStep == ASSUME ConstOK, SetupInv, SetupNext PROVE DeployInv'
<1> USE DEF SetupInv
<1>1. CASE LoadFails \/ ModuleStart \/ Resolve \/ Socket \/ Bind
  BY <1>1 DEF LoadFails, ModuleStart, Resolve, Socket, Bind, NextAddr, DeployInv, Preparing
<1>2. CASE StoreFd
  <2>1. i = 1 /\ hooked = {} /\ refused = {} /\ listening = {} /\ ret = -1
    BY <1>2 DEF StoreFd, DeployInv, Preparing
  <2> QED
    BY <1>2, <2>1 DEF StoreFd, NextAddr, DeployInv, Preparing
<1>3. CASE PrepareDone
  BY <1>3 DEF PrepareDone, DeployInv, Preparing
<1>4. CASE Listen
  BY <1>4 DEF Listen, DeployInv, Preparing, SetupTypeOK
<1>5. CASE AddHook
  <2>1. i \in 1..Len(iqfd) /\ iqfd[i] \in listening
    BY <1>5 DEF AddHook, DeployInv, SetupTypeOK
  <2>2. iqfd[i] \notin hooked \cup refused
    BY <2>1 DEF DeployInv, SocketsInv, SetupTypeOK
  <2>3. CASE ret' = -1 /\ spc' = "cleanup" /\ UNCHANGED <<hooked, refused, i>>
    BY <1>5, <2>1, <2>3 DEF AddHook, DeployInv, Preparing, SetupTypeOK
  <2>4. CASE i' = i + 1 /\ spc' = "listen" /\ UNCHANGED ret
             /\ (\/ hooked' = hooked \cup {iqfd[i]} /\ UNCHANGED refused
                 \/ refused' = refused \cup {iqfd[i]} /\ UNCHANGED hooked)
    <3>1. UNCHANGED <<listening, iqfd, args>> /\ spc = "hook"
      BY <1>5 DEF AddHook
    <3>2. 1..(i' - 1) = 1..(i - 1) \cup {i}
      BY <2>1, <2>4 DEF SetupTypeOK
    <3>3. hooked' \cup refused' = (hooked \cup refused) \cup {iqfd[i]} /\ hooked' \cap refused' = {}
      BY <2>2, <2>4 DEF DeployInv
    <3>4. hooked' \cup refused' = {iqfd[k] : k \in 1..(i' - 1)}
      BY <3>2, <3>3 DEF DeployInv
    <3>5. hooked' \cup refused' \subseteq listening
      BY <2>1, <3>3 DEF DeployInv
    <3>6. listening \subseteq {iqfd[k] : k \in DOMAIN iqfd \cap 1..i'}
      <4>1. 1..i \subseteq 1..i'
        BY <2>1, <2>4
      <4> QED
        BY <4>1 DEF DeployInv
    <3> QED
      BY <2>4, <3>1, <3>3, <3>4, <3>5, <3>6 DEF DeployInv, Preparing
  <2> QED
    BY <1>5, <2>3, <2>4 DEF AddHook
<1>6. CASE DeployDone
  BY <1>6 DEF DeployDone, DeployInv, Preparing, SetupTypeOK
<1>7. CASE Cleanup
  BY <1>7 DEF Cleanup, DeployInv, Preparing, SetupTypeOK
<1> QED
  BY <1>1, <1>2, <1>3, <1>4, <1>5, <1>6, <1>7 DEF SetupNext

LEMMA SetupInvariance == ASSUME ConstOK PROVE SetupSafety => []SetupInv
<1>1. SetupInit => SetupInv
  BY SetupInitInd
<1>2. SetupInv /\ [SetupNext]_setupVars => SetupInv'
  <2>1. CASE SetupNext
    BY <2>1, TypeStep, SocketsStep, DeployStep DEF SetupInv
  <2>2. CASE UNCHANGED setupVars
    BY <2>2 DEF setupVars, SetupInv, SetupTypeOK, SocketsInv, DeployInv
  <2> QED
    BY <2>1, <2>2
<1> QED
  BY <1>1, <1>2, PTL DEF SetupSafety

-----------------------------------------------------------------------------
(* ioqueue_socket.c:307-371: whichever of socket, bind and realloc fail,   *)
(* for any list of addresses and any smallest block of the allocator, up   *)
(* to a store behind the block of iq->fd prepare leaves no socket open     *)
(* that iq->fd does not hold, and holds none twice.                        *)
THEOREM NothingLeaked == ASSUME ConstOK PROVE SetupSafety => [](SetupTypeOK /\ NoSocketLeaked)
<1>1. SetupInv => SetupTypeOK /\ NoSocketLeaked
  <2> SUFFICES ASSUME SetupInv PROVE NoSocketLeaked
    BY DEF SetupInv
  <2>1. IsInjective(iqfd)
    BY DEF SetupInv, SocketsInv, IsInjective
  <2> QED
    BY <2>1 DEF SetupInv, SocketsInv, NoSocketLeaked
<1> QED
  BY <1>1, SetupInvariance, PTL

(* ioqueue_socket.c:396-431: the event queue never has a socket that does  *)
(* not listen, and iq->fd never one that is closed, whatever failed.       *)
THEOREM EventQueueListens == ASSUME ConstOK PROVE SetupSafety => []HookedSocketsListen
<1>1. SetupInv => HookedSocketsListen
  <2> SUFFICES ASSUME SetupInv PROVE HookedSocketsListen
    OBVIOUS
  <2>1. listening \subseteq Range(iqfd)
    BY DEF SetupInv, DeployInv, Range
  <2>2. Range(iqfd) \subseteq open
    BY DEF SetupInv, SocketsInv
  <2> QED
    BY <2>1, <2>2 DEF SetupInv, DeployInv, HookedSocketsListen
<1> QED
  BY <1>1, SetupInvariance, PTL

(* mod_http.c:578-588, poll.h:17: after a start that reports success every *)
(* socket it bound listens, with args alive, and all but those epoll_ctl   *)
(* refused are in the event queue.                                         *)
THEOREM SuccessIsComplete == ASSUME ConstOK PROVE SetupSafety => []SuccessServesAll
<1>1. SetupInv => SuccessServesAll
  <2> SUFFICES ASSUME SetupInv, spc = "run", ret = 0
               PROVE  listening = open /\ hooked = open \ refused /\ args = "live"
    BY DEF SuccessServesAll
  <2>1. i = Len(iqfd) + 1 /\ iqfd \in Seq(Addr) /\ open = Range(iqfd)
    BY DEF SetupInv, SetupTypeOK, DeployInv, SocketsInv, Holding
  <2>2. 1..(i - 1) = DOMAIN iqfd
    BY <2>1
  <2>3. hooked \cup refused = Range(iqfd) /\ hooked \cap refused = {} /\ listening = Range(iqfd)
    BY <2>2 DEF SetupInv, DeployInv, Range
  <2>4. args = "live"
    BY DEF SetupInv, DeployInv, SetupTypeOK
  <2> QED
    BY <2>1, <2>3, <2>4
<1> QED
  BY <1>1, SetupInvariance, PTL

-----------------------------------------------------------------------------
(* The event loop.                                                         *)

LEMMA TimesNext == ASSUME NEW k \in Nat, NEW a \in Nat
                   PROVE  k * (a + 1) = k * a + k /\ k * a \in Nat
OBVIOUS

LEMMA LeastFacts ==
  ASSUME NEW a \in Nat, NEW b \in Nat
  PROVE  Least(a, b) \in Nat /\ Least(a, b) <= a /\ Least(a, b) <= b /\ (a <= b => Least(a, b) = a)
BY DEF Least

LEMMA PeerFacts ==
  ASSUME FdInv, NEW c
  PROVE  /\ Peer(c) \subseteq Held /\ Held \subseteq Client
         /\ \A d, e \in Peer(c) : d = e
BY DEF FdInv, Peer, Held

(* Next, action by action. *)
LEMMA Cases ==
  ASSUME Next
  PROVE  /\ died = "no"
         /\ \/ \E c \in Client : Connect(c) \/ Ask(c) \/ AskRest(c) \/ Read(c) \/ Hangup(c)
            \/ Poll \/ OnConnect \/ Accept \/ AcceptDone \/ OnData \/ In \/ Post
            \/ SemWait \/ OutNull \/ Out \/ Recv \/ RecvNothing \/ Send
            \/ PollInterrupted \/ AcceptInterrupted \/ SemWaitInterrupted
            \/ RecvInterrupted \/ SendInterrupted
BY DEF Next, Alive, ClientStep, MainStep, WorkerStep

LEMMA DeliveryInitInd == Init => IndInv
<1> SUFFICES ASSUME Init PROVE IndInv
  OBVIOUS
<1> USE ConstAssumption
<1>1. TypeOK
  <2>1. 0 \in 0 .. MaxAsk /\ 0 \in 0 .. MaxIntr /\ 0 \in 0 .. MaxFd
    OBVIOUS
  <2>2. backlog \in Seq(Client) /\ q \in Seq(Client)
    BY DEF Init
  <2> QED
    BY <2>1, <2>2 DEF Init, TypeOK
<1>2. AlertsCoverQueue
  <2>1. Len(q) = 0
    BY DEF Init
  <2> QED
    BY <2>1 DEF Init, AlertsCoverQueue, Bit
<1>3. BacklogInv /\ FdInv /\ HandsInv /\ SurvivesHangup
  BY DEF Init, BacklogInv, FdInv, Held, HandsInv, SurvivesHangup
<1>4. AnswerLen * 0 = 0
  OBVIOUS
<1>5. \A c \in Client : ClientInv(c)
  BY <1>4 DEF Init, ClientInv, OneAtATime, ResetIsLast, InHand
<1> QED
  BY <1>1, <1>2, <1>3, <1>5 DEF IndInv

LEMMA DeliveryTypeStep == ASSUME IndInv, Next PROVE TypeOK'
<1> USE DEF main, worker, clients, history
<1>0. TypeOK /\ HandsInv
  BY DEF IndInv
<1>1. ASSUME NEW c \in Client, Connect(c) PROVE TypeOK'
  <2>1. Append(backlog, c) \in Seq(Client)
    BY <1>0 DEF TypeOK
  <2> QED
    BY <1>0, <1>1, <2>1 DEF Connect, TypeOK
<1>2. ASSUME NEW c \in Client, Ask(c) PROVE TypeOK'
  <2>1. asked[c] + 1 \in 0 .. MaxAsk
    <3>1. asked[c] \in 0 .. MaxAsk /\ MaxAsk \in Nat
      BY <1>0, ConstAssumption DEF TypeOK
    <3>2. asked[c] < MaxAsk
      BY <1>2 DEF Ask
    <3> QED
      BY <3>1, <3>2
  <2>2. Watched(c) \subseteq Client
    BY DEF Watched
  <2>3. whole' \in [Client -> BOOLEAN]
    BY <1>0, <1>2 DEF Ask, TypeOK
  <2>4. loose' \subseteq Client
    BY <1>0, <1>2 DEF Ask, TypeOK
  <2>5. asked' \in [Client -> 0 .. MaxAsk] /\ unread' \in [Client -> BOOLEAN]
        /\ edge' \subseteq Client \cup {Listener}
    BY <1>0, <1>2, <2>1, <2>2 DEF Ask, TypeOK
  <2>6. UNCHANGED <<st, hup, fd, out, got, rst, backlog, main, q, sem, worker, intr, died, crossed, stray>>
    BY <1>2 DEF Ask
  <2> QED
    BY <1>0, <2>3, <2>4, <2>5, <2>6 DEF TypeOK
<1>3. ASSUME NEW c \in Client, AskRest(c) \/ Hangup(c) PROVE TypeOK'
  <2>1. Watched(c) \subseteq Client
    BY DEF Watched
  <2>2. CASE AskRest(c)
    BY <1>0, <2>1, <2>2 DEF AskRest, TypeOK
  <2>3. CASE Hangup(c)
    BY <1>0, <2>1, <2>3 DEF Hangup, TypeOK
  <2> QED
    BY <1>3, <2>2, <2>3
<1>4. ASSUME NEW c \in Client, Read(c) PROVE TypeOK'
  <2>1. got \in [Client -> Nat]
    BY <1>0 DEF TypeOK
  <2>2. got' \in [Client -> Nat]
    BY <1>4, <2>1 DEF Read
  <2> QED
    BY <1>0, <1>4, <2>2 DEF Read, TypeOK
<1>5. CASE Poll
  BY <1>0, <1>5 DEF Poll, TypeOK
<1>6. CASE OnConnect \/ AcceptDone
  BY <1>0, <1>6 DEF OnConnect, AcceptDone, NextEvent, TypeOK
<1>7. CASE Accept
  <2>1. backlog \in Seq(Client) /\ backlog # <<>>
    BY <1>0, <1>7 DEF Accept, TypeOK
  <2>2. Head(backlog) \in Client /\ Tail(backlog) \in Seq(Client)
    BY <2>1
  <2>3. fd' \in [Client -> 0 .. MaxFd]
    <3>1. PICK f \in FreeFds : fd' = [fd EXCEPT ![Head(backlog)] = f]
      BY <1>7 DEF Accept
    <3>2. f \in 0 .. MaxFd
      BY ConstAssumption DEF FreeFds
    <3> QED
      BY <1>0, <3>1, <3>2 DEF TypeOK
  <2>4. UNCHANGED <<hup, asked, whole, unread, out, got, rst, main, q, sem, worker, intr, died, history>>
    BY <1>7 DEF Accept
  <2>5. st' \in [Client -> {"away", "waiting", "open", "orphan", "closed"}]
        /\ edge' \subseteq Client \cup {Listener} /\ backlog' \in Seq(Client)
    BY <1>0, <1>7, <2>2 DEF Accept, Added, Refused, NotAdded, TypeOK
  <2> QED
    BY <1>0, <2>3, <2>4, <2>5 DEF TypeOK
<1>8. CASE OnData
  BY <1>0, <1>8 DEF OnData, NextEvent, TypeOK
<1>9. CASE SemWait \/ OutNull \/ RecvNothing
  <2>1. CASE SemWait
    <3>1. sem \in Nat /\ sem > 0 /\ sem' = sem - 1
      BY <1>0, <2>1 DEF SemWait, TypeOK
    <3>2. sem' \in Nat
      BY ONLY <3>1
    <3>3. wpc' = "out" /\ UNCHANGED <<clients, main, q, wc, ws, intr, died, history>>
      BY <2>1 DEF SemWait
    <3> QED
      BY <1>0, <3>2, <3>3 DEF TypeOK
  <2>2. CASE OutNull \/ RecvNothing
    BY <1>0, <2>2 DEF OutNull, RecvNothing, TypeOK
  <2> QED
    BY <1>9, <2>1, <2>2
<1>10. CASE Out
  <2>1. q \in Seq(Client) /\ q # <<>>
    BY <1>0, <1>10 DEF Out, TypeOK
  <2>2. Head(q) \in Client /\ Tail(q) \in Seq(Client)
    BY <2>1
  <2> QED
    BY <1>0, <1>10, <2>2 DEF Out, TypeOK
<1>11. CASE Recv
  <2>1. PICK d \in Client :
          /\ unread' = [unread EXCEPT ![d] = FALSE] /\ ws' = d /\ wpc' \in {"send", "wait"}
          /\ loose' \in {loose, loose \cup {d}}
    BY <1>11 DEF Recv, Peer, Held
  <2>2. UNCHANGED <<st, hup, fd, asked, whole, out, got, rst, backlog, edge, main, q, sem, wc, intr, died, crossed, stray>>
    BY <1>11 DEF Recv
  <2> QED
    BY <1>0, <2>1, <2>2 DEF TypeOK
<1>12. CASE Send
  <2>1. out' \in [Client -> Nat]
    <3> SUFFICES ASSUME NEW c \in Client PROVE out'[c] \in Nat
      BY <1>12 DEF Send
    <3>1. out[c] \in Nat /\ got[c] \in Nat /\ got[c] <= out[c] /\ out[c] - got[c] <= SndBuf
      BY <1>0 DEF IndInv, ClientInv, TypeOK
    <3>2. SndBuf - (out[c] - got[c]) \in Nat /\ AnswerLen \in Nat
      BY <3>1, ConstAssumption
    <3>3. out[c] + Least(AnswerLen, SndBuf - (out[c] - got[c])) \in Nat
      <4>1. Least(AnswerLen, SndBuf - (out[c] - got[c])) \in Nat
        BY ONLY <3>2, LeastFacts
      <4> QED
        BY ONLY <3>1, <4>1
    <3>4. out'[c] \in {out[c], out[c] + Least(AnswerLen, SndBuf - (out[c] - got[c]))}
      BY <1>12 DEF Send
    <3> QED
      BY <3>1, <3>3, <3>4
  <2>2. rst' \in [Client -> BOOLEAN] /\ died' \in {"no", "pipe", "null"} /\ crossed' \subseteq Client
    BY <1>0, <1>12 DEF Send, Peer, Held, TypeOK
  <2>3. UNCHANGED <<st, hup, fd, asked, whole, unread, got, backlog, edge, main, q, sem, wc, ws, intr, loose, stray>>
        /\ wpc' = "wait"
    BY <1>12 DEF Send
  <2> QED
    BY <1>0, <2>1, <2>2, <2>3 DEF TypeOK
<1>13. CASE PollInterrupted \/ AcceptInterrupted \/ SemWaitInterrupted
            \/ RecvInterrupted \/ SendInterrupted
  <2>1. intr \in 0 .. MaxIntr /\ MaxIntr \in Nat /\ intr < MaxIntr /\ intr' = intr + 1
        /\ stray \in Nat /\ stray' \in {stray, stray + 1}
    BY <1>0, <1>13, ConstAssumption
       DEF PollInterrupted, AcceptInterrupted, SemWaitInterrupted, RecvInterrupted,
           SendInterrupted, Interrupted, TypeOK
  <2>2. intr' \in 0 .. MaxIntr /\ stray' \in Nat
    BY ONLY <2>1
  <2> QED
    BY <1>0, <1>13, <2>2
       DEF PollInterrupted, AcceptInterrupted, SemWaitInterrupted, RecvInterrupted,
           SendInterrupted, TypeOK
<1>14. CASE In
  <2>1. Append(q, mc) \in Seq(Client)
    BY <1>0, <1>14 DEF In, HandsInv, TypeOK
  <2> QED
    BY <1>0, <1>14, <2>1 DEF In, TypeOK
<1>15. CASE Post
  <2>1. sem + 1 \in Nat
    BY <1>0 DEF TypeOK
  <2> QED
    BY <1>0, <1>15, <2>1 DEF Post, NextEvent, TypeOK
<1> QED
  BY <1>1, <1>2, <1>3, <1>4, <1>5, <1>6, <1>7, <1>8, <1>9, <1>10, <1>11, <1>12, <1>13,
     <1>14, <1>15, Cases

LEMMA AlertsStep == ASSUME IndInv, Next PROVE AlertsCoverQueue'
<1> USE DEF IndInv, main, worker, clients, history
<1>0. q \in Seq(Client) /\ sem \in Nat /\ Len(q) \in Nat /\ stray \in Nat /\ died = "no"
  BY Cases DEF TypeOK
<1>1. CASE In
  <2>1. Len(q') = Len(q) + 1
    BY <1>0, <1>1 DEF In, HandsInv
  <2> QED
    BY <1>0, <1>1, <2>1 DEF In, AlertsCoverQueue, Bit
<1>2. CASE Out
  <2>1. Len(q') = Len(q) - 1
    BY <1>0, <1>2 DEF Out
  <2> QED
    BY <1>0, <1>2, <2>1 DEF Out, AlertsCoverQueue, Bit
<1>3. CASE OutNull
  <2>1. Len(q) = 0
    BY <1>3 DEF OutNull
  <2>2. stray > 0
    BY <1>0, <1>3, <2>1 DEF OutNull, AlertsCoverQueue, Bit
  <2> QED
    BY <1>3, <2>2 DEF OutNull, AlertsCoverQueue
<1>4. CASE Post
  BY <1>0, <1>4 DEF Post, NextEvent, AlertsCoverQueue, Bit
<1>5. CASE SemWait \/ SemWaitInterrupted
  BY <1>0, <1>5 DEF SemWait, SemWaitInterrupted, AlertsCoverQueue, Bit
<1>6. CASE Recv \/ RecvNothing \/ Send \/ RecvInterrupted \/ SendInterrupted
  <2>1. wpc # "out" /\ wpc' # "out" /\ UNCHANGED <<q, sem, mpc, stray>> /\ died' # "null"
    BY <1>0, <1>6 DEF Recv, RecvNothing, Send, RecvInterrupted, SendInterrupted
  <2> QED
    BY <2>1 DEF AlertsCoverQueue, Bit
<1>7. CASE Poll \/ OnConnect \/ Accept \/ AcceptDone \/ OnData \/ PollInterrupted \/ AcceptInterrupted
  <2>1. mpc # "post" /\ mpc' # "post" /\ UNCHANGED <<q, sem, wpc, stray, died>>
    BY <1>7 DEF Poll, OnConnect, Accept, AcceptDone, OnData, NextEvent, PollInterrupted, AcceptInterrupted
  <2> QED
    BY <2>1 DEF AlertsCoverQueue, Bit
<1>8. ASSUME NEW c \in Client, Connect(c) \/ Ask(c) \/ AskRest(c) \/ Read(c) \/ Hangup(c)
      PROVE  AlertsCoverQueue'
  <2>1. UNCHANGED <<q, sem, mpc, wpc, stray, died>>
    BY <1>8 DEF Connect, Ask, AskRest, Read, Hangup
  <2> QED
    BY <2>1 DEF AlertsCoverQueue, Bit
<1> QED
  BY <1>1, <1>2, <1>3, <1>4, <1>5, <1>6, <1>7, <1>8, Cases

(* What changes the connections, and how. *)
Untouched == UNCHANGED <<backlog, st, fd>>

LEMMA ConnectionSteps ==
  ASSUME Next
  PROVE  \/ \E c \in Client : Connect(c)
         \/ Accept \/ OnData \/ Untouched
<1> USE DEF main, worker, clients
<1>1. ASSUME NEW c \in Client, Ask(c) \/ AskRest(c) \/ Read(c) \/ Hangup(c) PROVE Untouched
  BY <1>1 DEF Ask, AskRest, Read, Hangup, Untouched
<1>2. ASSUME Poll \/ OnConnect \/ AcceptDone \/ In \/ Post \/ PollInterrupted \/ AcceptInterrupted
      PROVE  Untouched
  BY <1>2 DEF Poll, OnConnect, AcceptDone, In, Post, PollInterrupted, AcceptInterrupted, Untouched
<1>3. ASSUME SemWait \/ OutNull \/ Out \/ Recv \/ RecvNothing \/ Send \/ SemWaitInterrupted
               \/ RecvInterrupted \/ SendInterrupted
      PROVE  Untouched
  BY <1>3 DEF SemWait, OutNull, Out, Recv, RecvNothing, Send, SemWaitInterrupted, RecvInterrupted,
              SendInterrupted, Untouched
<1> QED
  BY <1>1, <1>2, <1>3, Cases

LEMMA BacklogStep == ASSUME IndInv, Next PROVE BacklogInv'
<1> USE DEF main, worker, clients
<1>0. BacklogInv /\ backlog \in Seq(Client) /\ st \in [Client -> {"away", "waiting", "open", "orphan", "closed"}]
  BY DEF IndInv, TypeOK
<1>1. ASSUME NEW c \in Client, Connect(c) PROVE BacklogInv'
  <2>1. /\ backlog' = Append(backlog, c) /\ st' = [st EXCEPT ![c] = "waiting"] /\ st[c] = "away"
    BY <1>1 DEF Connect
  <2>2. \A k \in DOMAIN backlog : backlog[k] \in Client /\ backlog[k] # c
    BY <1>0, <2>1 DEF BacklogInv
  <2>3. DOMAIN backlog' = DOMAIN backlog \cup {Len(backlog) + 1}
    BY <1>0, <2>1
  <2>4. \A k \in DOMAIN backlog' : backlog'[k] = IF k \in DOMAIN backlog THEN backlog[k] ELSE c
    BY <1>0, <2>1
  <2> QED
    BY <1>0, <2>1, <2>2, <2>3, <2>4 DEF BacklogInv
<1>2. CASE Accept
  <2>1. /\ backlog # <<>> /\ backlog' = Tail(backlog)
        /\ \E s \in {"open", "closed", "orphan"} : st' = [st EXCEPT ![Head(backlog)] = s]
    BY <1>2 DEF Accept, Added, Refused, NotAdded
  <2>2. \A k \in DOMAIN backlog' : k + 1 \in DOMAIN backlog /\ backlog'[k] = backlog[k + 1] /\ k # 0
    BY <1>0, <2>1
  <2>3. 1 \in DOMAIN backlog /\ Head(backlog) = backlog[1] /\ Head(backlog) \in Client
    BY <1>0, <2>1
  <2>4. \A k \in DOMAIN backlog' : k \in Nat /\ backlog'[k] # Head(backlog)
    BY <1>0, <2>1, <2>2, <2>3 DEF BacklogInv
  <2> QED
    BY <1>0, <2>1, <2>2, <2>4 DEF BacklogInv
<1>3. CASE OnData
  <2>1. CASE UNCHANGED st
    BY <1>0, <1>3, <2>1 DEF OnData, BacklogInv
  <2>2. CASE ~UNCHANGED st
    <3>1. PICK c \in bhup \ {Listener} : st' = [st EXCEPT ![c] = "closed"] /\ backlog' = backlog
      BY <1>3, <2>2 DEF OnData
    <3>2. st[c] # "waiting"
      BY <3>1 DEF IndInv, HandsInv, Accepted
    <3>3. \A k \in DOMAIN backlog : backlog[k] # c /\ backlog[k] \in Client
      BY <1>0, <3>2 DEF BacklogInv
    <3> QED
      BY <1>0, <3>1, <3>3 DEF BacklogInv
  <2> QED
    BY <2>1, <2>2
<1>4. CASE Untouched
  BY <1>0, <1>4 DEF BacklogInv, Untouched
<1> QED
  BY <1>1, <1>2, <1>3, <1>4, ConnectionSteps

LEMMA FdStep == ASSUME IndInv, Next PROVE FdInv'
<1> USE DEF main, worker, clients
<1>0. FdInv /\ TypeOK /\ BacklogInv
  BY DEF IndInv
<1>1. ASSUME NEW c \in Client, Connect(c) PROVE FdInv'
  <2>1. Held' = Held /\ fd' = fd
    BY <1>0, <1>1 DEF Connect, Held, TypeOK
  <2> QED
    BY <1>0, <2>1 DEF FdInv
<1>2. CASE Accept
  <2>1. PICK f \in FreeFds : fd' = [fd EXCEPT ![Head(backlog)] = f]
    BY <1>2 DEF Accept
  <2>2. Head(backlog) \in Client
    BY <1>0, <1>2 DEF Accept, TypeOK
  <2>3. Held' \subseteq Held \cup {Head(backlog)}
    BY <1>0, <1>2, <2>2 DEF Accept, Added, Refused, NotAdded, Held, TypeOK
  <2>4. \A c \in Held : fd[c] # f /\ c \in Client
    BY DEF FreeFds, Held
  <2>5. \A c \in Client : fd'[c] = IF c = Head(backlog) THEN f ELSE fd[c]
    BY <1>0, <2>1 DEF TypeOK
  <2>6. Held' \subseteq Client
    BY DEF Held
  <2> QED
    BY <1>0, <2>3, <2>4, <2>5, <2>6 DEF FdInv
<1>3. CASE OnData
  <2>1. Held' \subseteq Held /\ fd' = fd
    BY <1>0, <1>3 DEF OnData, Held, TypeOK
  <2> QED
    BY <1>0, <2>1 DEF FdInv
<1>4. CASE Untouched
  BY <1>0, <1>4 DEF FdInv, Held, Untouched
<1> QED
  BY <1>1, <1>2, <1>3, <1>4, ConnectionSteps

-----------------------------------------------------------------------------
(* What the threads have in hand.                                          *)

LEMMA HandsStep == ASSUME IndInv, Next PROVE HandsInv'
<1> USE DEF main, worker, clients, history
<1>0. HandsInv /\ BacklogInv /\ TypeOK /\ FdInv
  BY DEF IndInv
<1>1. ASSUME NEW c \in Client, Connect(c) PROVE HandsInv'
  <2>1. \A x \in Client : (Accepted(x) => Accepted(x)') /\ (x \in Held <=> x \in Held')
    BY <1>0, <1>1 DEF Connect, Accepted, Held, TypeOK
  <2>2. \A x \in Client : st[x] = "closed" => st'[x] = "closed"
    BY <1>0, <1>1 DEF Connect, TypeOK
  <2>3. edge' \ {Listener} = edge \ {Listener}
        /\ UNCHANGED <<hup, fd, batch, bhup, mpc, mc, q, wpc, wc, ws>>
    BY <1>1 DEF Connect
  <2>4. \A x \in (edge' \cup batch' \cup bhup') \ {Listener} : Accepted(x)'
    BY <1>0, <2>1, <2>3 DEF HandsInv, TypeOK
  <2>5. \A k \in DOMAIN q : Accepted(q[k])'
    BY <1>0, <2>1, <2>3 DEF HandsInv, TypeOK
  <2>6. mpc = "in" => mc \in Client /\ Accepted(mc)'
    BY <1>0, <2>1, <2>3 DEF HandsInv
  <2>7. wpc \in {"recv", "send"} => wc \in Client /\ Accepted(wc)'
    BY <1>0, <2>1, <2>3 DEF HandsInv
  <2>8. wpc = "send" => /\ ws \in Client
                        /\ ws \in Held' => fd[ws] = fd[wc]
                        /\ ws \notin Held' => hup[ws] /\ st'[ws] = "closed"
    BY <1>0, <2>1, <2>2, <2>3 DEF HandsInv
  <2> QED
    BY <1>0, <2>3, <2>4, <2>5, <2>6, <2>7, <2>8 DEF HandsInv, Accepted
<1>2. ASSUME NEW c \in Client, Ask(c) \/ AskRest(c) \/ Hangup(c) PROVE HandsInv'
  <2>1. \A x \in Watched(c) : Accepted(x)
    BY DEF Watched, Accepted
  <2>2. \A x \in Client : hup[x] => hup'[x]
    BY <1>0, <1>2 DEF Ask, AskRest, Hangup, TypeOK
  <2>3. edge' = edge \cup Watched(c) /\ UNCHANGED <<st, fd, batch, bhup, mpc, mc, q, wpc, wc, ws>>
    BY <1>2 DEF Ask, AskRest, Hangup
  <2>4. \A x : Accepted(x)' <=> Accepted(x)
    BY <2>3 DEF Accepted
  <2>5. Held' = Held
    BY <2>3 DEF Held
  <2> QED
    BY <1>0, <2>1, <2>2, <2>3, <2>4, <2>5 DEF HandsInv, TypeOK
<1>3. ASSUME NEW c \in Client, Read(c) PROVE HandsInv'
  BY <1>0, <1>3 DEF Read, HandsInv, Held, Accepted
<1>4. CASE Poll
  <2>1. batch' \subseteq edge \cup {Listener} /\ bhup' \subseteq edge \ {Listener} /\ edge' = {}
        /\ (\A c \in bhup' : hup[c]) /\ mpc' = "event"
    BY <1>4 DEF Poll
  <2>2. UNCHANGED <<st, hup, fd, q, wpc, wc, ws>>
    BY <1>4 DEF Poll
  <2> QED
    BY <1>0, <2>1, <2>2 DEF HandsInv, Held, Accepted
<1>5. CASE OnConnect \/ AcceptDone \/ Post \/ PollInterrupted \/ AcceptInterrupted
  <2>1. batch' \subseteq batch /\ mpc' # "in" /\ UNCHANGED <<st, hup, fd, edge, bhup, q, wpc, wc, ws>>
    BY <1>5 DEF OnConnect, AcceptDone, Post, PollInterrupted, AcceptInterrupted, NextEvent
  <2> QED
    BY <1>0, <2>1 DEF HandsInv, Held, Accepted
<1>6. CASE In
  <2>1. mc \in Client /\ Accepted(mc) /\ q' = Append(q, mc) /\ q \in Seq(Client)
    BY <1>0, <1>6 DEF In, HandsInv, TypeOK
  <2>2. \A k \in DOMAIN q' : q'[k] = mc \/ (k \in DOMAIN q /\ q'[k] = q[k])
    BY <2>1
  <2>3. \A k \in DOMAIN q' : Accepted(q'[k])
    BY <1>0, <2>1, <2>2 DEF HandsInv
  <2>4. mpc' = "post" /\ UNCHANGED <<st, hup, fd, edge, batch, bhup, wpc, wc, ws>>
    BY <1>6 DEF In
  <2> QED
    BY <1>0, <2>3, <2>4 DEF HandsInv, Held, Accepted
<1>7. CASE Accept
  <2> DEFINE c == Head(backlog)
  <2>1. c \in Client /\ st[c] = "waiting"
    <3>1. backlog \in Seq(Client) /\ backlog # <<>>
      BY <1>0, <1>7 DEF Accept, TypeOK
    <3>2. 1 \in DOMAIN backlog /\ c = backlog[1] /\ c \in Client
      BY ONLY <3>1
    <3> QED
      BY <1>0, <3>2 DEF BacklogInv
  <2>2. UNCHANGED <<hup, batch, bhup, mpc, mc, q, wpc, wc, ws>>
    BY <1>7 DEF Accept
  <2>3. \A x \in Client : x # c => st'[x] = st[x] /\ fd'[x] = fd[x]
    BY <1>0, <1>7, <2>1 DEF Accept, Added, Refused, NotAdded, TypeOK
  <2>4. edge' = edge \/ (edge' = edge \cup {c} /\ st'[c] = "open") \/ edge' = edge \cup {}
    BY <1>0, <1>7, <2>1 DEF Accept, Added, Refused, NotAdded, TypeOK
  <2> HIDE DEF c
  <2>5. \A x \in Client : Accepted(x) => x # c /\ Accepted(x)'
    BY <2>1, <2>3 DEF Accepted
  <2>6. wpc = "send" => ws # c /\ (ws \in Held <=> ws \in Held')
    BY <1>0, <2>1, <2>3 DEF HandsInv, Held
  <2>7. \A x \in (edge' \cup batch' \cup bhup') \ {Listener} : Accepted(x)'
    BY <1>0, <2>1, <2>2, <2>4, <2>5 DEF HandsInv, TypeOK, Accepted
  <2>8. (\A k \in DOMAIN q : Accepted(q[k]))'
    <3>1. \A k \in DOMAIN q : q[k] \in Client
      BY <1>0 DEF TypeOK
    <3> QED
      BY <1>0, <2>2, <2>5, <3>1 DEF HandsInv, Accepted
  <2>9. wpc' = "send" => fd'[ws'] = fd[ws] /\ fd'[wc'] = fd[wc] /\ st'[ws'] = st[ws]
    BY <1>0, <2>2, <2>3, <2>5, <2>6 DEF HandsInv
  <2> QED
    BY <1>0, <2>2, <2>5, <2>6, <2>7, <2>8, <2>9 DEF HandsInv
<1>8. CASE OnData
  <2>1. PICK c \in batch \ {Listener} :
          /\ batch' = batch \ {c} /\ mc' = c /\ c \in Client
          /\ IF c \in bhup THEN st' = [st EXCEPT ![c] = "closed"] /\ edge' = edge \ {c} /\ NextEvent
             ELSE mpc' = "in" /\ UNCHANGED <<st, edge>>
    BY <1>0, <1>8 DEF OnData, TypeOK
  <2>2. UNCHANGED <<hup, fd, bhup, q, wpc, wc, ws>>
    BY <1>8 DEF OnData
  <2>3. Accepted(c)
    BY <1>0, <2>1 DEF HandsInv
  <2>4. CASE c \in bhup
    <3>1. hup[c] /\ mpc' # "in"
      BY <1>0, <2>1, <2>4 DEF HandsInv, NextEvent
    <3>2. \A x \in Client : (Accepted(x) => Accepted(x)') /\ (x # c => st'[x] = st[x]) /\ st'[c] = "closed"
      BY <1>0, <2>1, <2>4 DEF Accepted, TypeOK
    <3>3. \A x \in Client : x \in Held' <=> x \in Held /\ x # c
      BY <2>1, <3>2 DEF Held
    <3>4. \A x \in (edge' \cup batch' \cup bhup') \ {Listener} : Accepted(x)'
      BY <1>0, <2>1, <2>2, <2>4, <3>2 DEF HandsInv, TypeOK
    <3>5. (\A k \in DOMAIN q : Accepted(q[k]))'
      <4>1. \A k \in DOMAIN q : q[k] \in Client
        BY <1>0 DEF TypeOK
      <4> QED
        BY <1>0, <2>2, <3>2, <4>1 DEF HandsInv, Accepted
    <3>6. wpc = "send" => ws \in Client /\ (ws \in Held' => fd[ws] = fd[wc])
                          /\ (ws \notin Held' => hup[ws] /\ st'[ws] = "closed")
      BY <1>0, <3>1, <3>2, <3>3 DEF HandsInv
    <3> QED
      BY <1>0, <2>2, <3>1, <3>2, <3>4, <3>5, <3>6 DEF HandsInv
  <2>5. CASE c \notin bhup
    <3>1. batch' \subseteq batch /\ UNCHANGED <<st, hup, fd, edge, bhup, q, wpc, wc, ws>> /\ mc' = c
      BY <2>1, <2>2, <2>5
    <3> QED
      BY <1>0, <2>1, <2>3, <3>1 DEF HandsInv, Held, Accepted
  <2> QED
    BY <2>4, <2>5
<1>9. CASE SemWait \/ OutNull \/ SemWaitInterrupted \/ RecvNothing \/ Send
  <2>1. wpc' \in {"out", "wait"} /\ UNCHANGED <<st, hup, fd, edge, batch, bhup, mpc, mc, q>>
    BY <1>9 DEF SemWait, OutNull, SemWaitInterrupted, RecvNothing, Send
  <2> QED
    BY <1>0, <2>1 DEF HandsInv, Held, Accepted
<1>10. CASE Out
  <2>1. q \in Seq(Client) /\ q # <<>> /\ q' = Tail(q)
    BY <1>0, <1>10 DEF Out, TypeOK
  <2>2. /\ 1 \in DOMAIN q /\ Head(q) = q[1] /\ Head(q) \in Client
        /\ \A k \in DOMAIN q' : k + 1 \in DOMAIN q /\ q'[k] = q[k + 1]
    BY <2>1
  <2>3. wpc' = "recv" /\ wc' = Head(q) /\ UNCHANGED <<st, hup, fd, edge, batch, bhup, mpc, mc>>
    BY <1>10 DEF Out
  <2>4. Accepted(Head(q)) /\ \A k \in DOMAIN q' : Accepted(q'[k])
    BY <1>0, <2>2 DEF HandsInv
  <2> QED
    BY <1>0, <2>2, <2>3, <2>4 DEF HandsInv, Held, Accepted
<1>11. CASE Recv
  <2>1. PICK d \in Peer(wc) : ws' = d
    BY <1>11 DEF Recv
  <2>2. d \in Held /\ d \in Client /\ fd[d] = fd[wc]
    BY DEF Peer, Held
  <2>3. wpc = "recv" /\ UNCHANGED <<st, hup, fd, edge, batch, bhup, mpc, mc, q, wc>>
    BY <1>11 DEF Recv
  <2>4. Held' = Held /\ \A x : Accepted(x)' <=> Accepted(x)
    BY <2>3 DEF Held, Accepted
  <2> QED
    BY <1>0, <2>1, <2>2, <2>3, <2>4 DEF HandsInv
<1>12. CASE RecvInterrupted \/ SendInterrupted
  <2>1. UNCHANGED <<st, hup, fd, edge, batch, bhup, mpc, mc, q, wpc, wc, ws>>
    BY <1>12 DEF RecvInterrupted, SendInterrupted
  <2> QED
    BY <1>0, <2>1 DEF HandsInv, Held, Accepted
<1> QED
  BY <1>1, <1>2, <1>3, <1>4, <1>5, <1>6, <1>7, <1>8, <1>9, <1>10, <1>11, <1>12, Cases

-----------------------------------------------------------------------------
(* The answers to a client.                                                *)

Same(c) ==
    /\ hup'[c] = hup[c] /\ asked'[c] = asked[c] /\ whole'[c] = whole[c] /\ unread'[c] = unread[c]
    /\ out'[c] = out[c] /\ got'[c] = got[c] /\ rst'[c] = rst[c]
    /\ InHand(c)' <=> InHand(c)
    /\ Regular(c)' => Regular(c)

LEMMA SameKeeps ==
  ASSUME NEW c \in Client, ClientInv(c), Same(c)
  PROVE  ClientInv(c)'
BY DEF Same, ClientInv, OneAtATime, ResetIsLast

LEMMA ClientTypes ==
  ASSUME TypeOK, NEW c \in Client
  PROVE  /\ asked[c] \in Nat /\ got[c] \in Nat /\ out[c] \in Nat
         /\ hup[c] \in BOOLEAN /\ unread[c] \in BOOLEAN /\ whole[c] \in BOOLEAN /\ rst[c] \in BOOLEAN
         /\ AnswerLen \in Nat \ {0} /\ SndBuf \in Nat
BY ConstAssumption DEF TypeOK

(* Bytes of the answers up to a request. *)
LEMMA LastAnswer ==
  ASSUME NEW a \in Nat, a > 0, NEW l \in Nat
  PROVE  a - 1 \in Nat /\ l * a = l * (a - 1) + l /\ l * (a - 1) \in Nat
<1>1. a - 1 \in Nat /\ (a - 1) + 1 = a
  OBVIOUS
<1>2. l * ((a - 1) + 1) = l * (a - 1) + l /\ l * (a - 1) \in Nat
  BY <1>1, TimesNext
<1> QED
  BY <1>1, <1>2

LEMMA AskKeeps ==
  ASSUME IndInv, NEW c \in Client, NEW d \in Client, Ask(d)
  PROVE  ClientInv(c)'
<1> USE DEF main, worker, clients
<1>0. TypeOK /\ ClientInv(c)
  BY DEF IndInv
<1>1. CASE c # d
  <2>1. Same(c)
    BY <1>0, <1>1 DEF Ask, Same, Regular, InHand, TypeOK
  <2> QED
    BY <1>0, <2>1, SameKeeps
<1>2. CASE c = d
  <2>1. ~hup[c] /\ asked'[c] = asked[c] + 1 /\ unread'[c] = TRUE
    BY <1>0, <1>2 DEF Ask, TypeOK
  <2>2. UNCHANGED <<hup, out, got, rst, wpc, ws, crossed>> /\ loose \subseteq loose'
    BY DEF Ask
  <2>3. ~rst[c] /\ got[c] <= out[c] /\ out[c] - got[c] <= SndBuf
    BY <1>0, <2>1 DEF ClientInv, ResetIsLast
  <2>4. ASSUME Regular(c)' PROVE OneAtATime(c)'
    <3>1. Regular(c) /\ got[c] = AnswerLen * asked[c]
      BY <1>2, <2>2, <2>4 DEF Regular, Ask
    <3>2. OneAtATime(c)
      BY <1>0, <3>1 DEF ClientInv
    <3>3. ~(unread[c] \/ InHand(c))
      <4> SUFFICES ASSUME unread[c] \/ InHand(c) PROVE FALSE
        OBVIOUS
      <4>1. out[c] = AnswerLen * (asked[c] - 1) /\ got[c] = out[c] /\ asked[c] > 0
        BY <2>1, <3>2 DEF OneAtATime
      <4>2. AnswerLen * asked[c] = AnswerLen * (asked[c] - 1) + AnswerLen /\ AnswerLen * (asked[c] - 1) \in Nat
        BY <1>0, <4>1, ClientTypes, LastAnswer
      <4> QED
        BY <1>0, <3>1, <4>1, <4>2, ClientTypes
    <3>4. out[c] = AnswerLen * asked[c]
      <4>1. out[c] <= AnswerLen * asked[c]
        BY <3>2 DEF OneAtATime
      <4> QED
        BY <1>0, <2>3, <3>1, <4>1, ClientTypes
    <3>5. AnswerLen * (asked[c] + 1) = AnswerLen * asked[c] + AnswerLen /\ AnswerLen * asked[c] \in Nat
      BY <1>0, ClientTypes, TimesNext
    <3>6. asked'[c] - 1 = asked[c] /\ asked'[c] > 0 /\ asked[c] \in Nat
      BY <1>0, <2>1, ClientTypes
    <3>7. ~InHand(c)'
      BY <2>2, <3>3 DEF InHand
    <3>8. out'[c] <= AnswerLen * asked'[c]
      BY <1>0, <2>1, <2>2, <3>4, <3>5, ClientTypes
    <3> QED
      BY <2>1, <2>2, <3>1, <3>4, <3>6, <3>7, <3>8 DEF OneAtATime
  <2> QED
    BY <2>2, <2>3, <2>4 DEF ClientInv, ResetIsLast
<1> QED
  BY <1>1, <1>2

LEMMA AskRestKeeps ==
  ASSUME IndInv, NEW c \in Client, NEW d \in Client, AskRest(d)
  PROVE  ClientInv(c)'
<1> USE DEF main, worker, clients, history
<1>0. TypeOK /\ ClientInv(c)
  BY DEF IndInv
<1>1. CASE c # d
  <2>1. Same(c)
    BY <1>0, <1>1 DEF AskRest, Same, Regular, InHand, TypeOK
  <2> QED
    BY <1>0, <2>1, SameKeeps
<1>2. CASE c = d
  <2>1. ~hup[c] /\ ~whole[c] /\ whole'[c] = TRUE /\ unread'[c] = TRUE
    BY <1>0, <1>2 DEF AskRest, TypeOK
  <2>2. UNCHANGED <<hup, asked, out, got, rst, wpc, ws, loose, crossed>>
    BY DEF AskRest
  <2>3. Regular(c) => unread[c] = TRUE
    BY <1>0, <2>1, ClientTypes DEF ClientInv, OneAtATime
  <2>4. (Regular(c)' <=> Regular(c)) /\ (InHand(c)' <=> InHand(c))
    BY <2>2 DEF Regular, InHand
  <2> QED
    BY <1>0, <2>1, <2>2, <2>3, <2>4 DEF ClientInv, OneAtATime, ResetIsLast
<1> QED
  BY <1>1, <1>2

LEMMA ReadKeeps ==
  ASSUME IndInv, NEW c \in Client, NEW d \in Client, Read(d)
  PROVE  ClientInv(c)'
<1> USE DEF main, worker, clients, history
<1>0. TypeOK /\ ClientInv(c)
  BY DEF IndInv
<1>1. CASE c # d
  <2>1. Same(c)
    BY <1>0, <1>1 DEF Read, Same, Regular, InHand, TypeOK
  <2> QED
    BY <1>0, <2>1, SameKeeps
<1>2. CASE c = d
  <2>1. got[c] \in Nat /\ out[c] \in Nat /\ ~hup[c] /\ got[c] < out[c] /\ got'[c] = got[c] + 1 /\ SndBuf \in Nat
    BY <1>0, <1>2, ConstAssumption DEF Read, TypeOK
  <2>2. UNCHANGED <<hup, asked, whole, unread, out, rst, wpc, ws, loose, crossed>>
    BY DEF Read
  <2>3. (Regular(c)' <=> Regular(c)) /\ (InHand(c)' <=> InHand(c))
    BY <2>2 DEF Regular, InHand
  <2>4. got'[c] <= out'[c] /\ out'[c] - got'[c] <= SndBuf
    BY <1>0, <2>1, <2>2 DEF ClientInv
  <2>5. Regular(c) => ~(unread[c] \/ InHand(c))
    BY <1>0, <2>1 DEF ClientInv, OneAtATime
  <2> QED
    BY <1>0, <2>2, <2>3, <2>4, <2>5 DEF ClientInv, OneAtATime, ResetIsLast
<1> QED
  BY <1>1, <1>2

LEMMA HangupKeeps ==
  ASSUME IndInv, NEW c \in Client, NEW d \in Client, Hangup(d)
  PROVE  ClientInv(c)'
<1> USE DEF main, worker, clients, history
<1>0. TypeOK /\ ClientInv(c)
  BY DEF IndInv
<1>1. hup'[c] = (hup[c] \/ c = d) /\ hup[c] \in BOOLEAN
  BY <1>0 DEF Hangup, TypeOK
<1>2. UNCHANGED <<asked, whole, unread, out, got, rst, wpc, ws, loose, crossed>>
  BY DEF Hangup
<1>3. (Regular(c)' <=> Regular(c)) /\ (InHand(c)' <=> InHand(c))
  BY <1>2 DEF Regular, InHand
<1> QED
  BY <1>0, <1>1, <1>2, <1>3 DEF ClientInv, OneAtATime, ResetIsLast

LEMMA RecvKeeps ==
  ASSUME IndInv, NEW c \in Client, Recv
  PROVE  ClientInv(c)'
<1> USE DEF main, worker, clients
<1>0. TypeOK /\ ClientInv(c)
  BY DEF IndInv
<1>1. PICK d \in Client :
        /\ unread[d] /\ unread' = [unread EXCEPT ![d] = FALSE]
        /\ loose' = IF whole[d] THEN loose ELSE loose \cup {d}
        /\ ws' = d /\ (wpc' = "send" \/ (d \in loose' /\ wpc' = "wait"))
  BY DEF Recv, Peer, Held
<1>2. UNCHANGED <<hup, asked, whole, out, got, rst, crossed>> /\ wpc = "recv"
  BY DEF Recv
<1>3. (Regular(c)' => Regular(c)) /\ ~InHand(c)
  BY <1>1, <1>2 DEF Regular, InHand
<1>4. CASE c # d
  <2>1. unread'[c] = unread[c] /\ ~InHand(c)'
    BY <1>0, <1>1, <1>4 DEF InHand, TypeOK
  <2>2. Same(c)
    BY <1>2, <1>3, <2>1 DEF Same
  <2> QED
    BY <1>0, <2>2, SameKeeps
<1>5. CASE c = d
  <2>1. unread[c] /\ unread'[c] = FALSE
    BY <1>0, <1>1, <1>5 DEF TypeOK
  <2>2. Regular(c)' => whole[c] /\ InHand(c)' /\ Regular(c)
    BY <1>1, <1>3, <1>5 DEF Regular, InHand
  <2>3. Regular(c) => ~rst[c] /\ OneAtATime(c)
    BY <1>0, <2>1 DEF ClientInv, ResetIsLast
  <2>4. Regular(c)' => OneAtATime(c)'
    BY <1>2, <1>3, <2>1, <2>2, <2>3 DEF OneAtATime
  <2> QED
    BY <1>0, <1>2, <2>2, <2>3, <2>4 DEF ClientInv, ResetIsLast
<1> QED
  BY <1>4, <1>5

(* What a send does to the connection that has the descriptor. *)
LEMMA SentTo ==
  ASSUME TypeOK, Send, NEW c \in Client, ClientInv(c)
  PROVE  /\ c \notin Peer(wc) => out'[c] = out[c] /\ rst'[c] = rst[c]
         /\ c \in Peer(wc) /\ hup[c] => out'[c] = out[c] /\ rst'[c] = TRUE
         /\ c \in Peer(wc) /\ ~hup[c] =>
              /\ rst'[c] = rst[c] /\ out[c] <= out'[c] /\ out'[c] \in Nat
              /\ out'[c] - got[c] <= SndBuf /\ out'[c] <= out[c] + AnswerLen
              /\ got[c] = out[c] /\ AnswerLen <= SndBuf => out'[c] = out[c] + AnswerLen
<1> DEFINE room == SndBuf - (out[c] - got[c])
           n == Least(AnswerLen, room)
<1>1. out[c] \in Nat /\ got[c] \in Nat /\ got[c] <= out[c] /\ out[c] - got[c] <= SndBuf
      /\ AnswerLen \in Nat /\ SndBuf \in Nat /\ rst[c] \in BOOLEAN
  BY ClientTypes DEF ClientInv
<1>2. room \in Nat
  BY <1>1
<1>3. n \in Nat /\ n <= AnswerLen /\ n <= room /\ (AnswerLen <= room => n = AnswerLen)
  BY <1>1, <1>2, LeastFacts
<1>4. out'[c] = IF c \in Peer(wc) /\ ~hup[c] THEN out[c] + n ELSE out[c]
  BY DEF Send
<1>5. rst'[c] = (rst[c] \/ (c \in Peer(wc) /\ hup[c]))
  BY DEF Send
<1> HIDE DEF n
<1>6. CASE c \in Peer(wc) /\ ~hup[c]
  BY <1>1, <1>3, <1>4, <1>5, <1>6
<1>7. CASE ~(c \in Peer(wc) /\ ~hup[c])
  BY <1>1, <1>4, <1>5, <1>7
<1> QED
  BY <1>6, <1>7

LEMMA SendKeeps ==
  ASSUME IndInv, Send, NEW c \in Client
  PROVE  ClientInv(c)'
<1> USE DEF main, worker, clients
<1>0. TypeOK /\ HandsInv /\ ClientInv(c)
  BY DEF IndInv
<1>1. wpc = "send" /\ wpc' = "wait" /\ UNCHANGED <<hup, asked, whole, unread, got, loose>>
      /\ crossed' = crossed \cup (Peer(wc) \ {ws})
  BY DEF Send
<1>2. ~InHand(c)' /\ (Regular(c)' => Regular(c) /\ (c \in Peer(wc) => c = ws))
  BY <1>1 DEF InHand, Regular
<1>3. /\ asked[c] \in Nat /\ got[c] \in Nat /\ out[c] \in Nat
      /\ hup[c] \in BOOLEAN /\ unread[c] \in BOOLEAN /\ whole[c] \in BOOLEAN /\ rst[c] \in BOOLEAN
      /\ AnswerLen \in Nat \ {0} /\ SndBuf \in Nat
  BY <1>0, ClientTypes
<1>4. got[c] <= out[c] /\ out[c] - got[c] <= SndBuf
  BY <1>0 DEF ClientInv
<1>5. got[c] <= out'[c] /\ out'[c] - got[c] <= SndBuf /\ (rst'[c] => hup[c])
  <2>1. rst[c] => hup[c]
    BY <1>0 DEF ClientInv, ResetIsLast
  <2>2. CASE c \in Peer(wc) /\ ~hup[c]
    <3>1. rst'[c] = rst[c] /\ out[c] <= out'[c] /\ out'[c] \in Nat /\ out'[c] - got[c] <= SndBuf
      BY <1>0, <2>2, SentTo
    <3> QED
      BY <1>3, <1>4, <2>1, <2>2, <3>1
  <2>3. CASE ~(c \in Peer(wc) /\ ~hup[c])
    BY <1>0, <1>3, <1>4, <2>1, <2>3, SentTo
  <2> QED
    BY <2>2, <2>3
<1>6. CASE c # ws
  <2>1. CASE c \in Peer(wc)
    <3>1. ~Regular(c)'
      BY <1>2, <1>6, <2>1
    <3> QED
      BY <1>1, <1>5, <3>1 DEF ClientInv, ResetIsLast
  <2>2. CASE c \notin Peer(wc)
    <3>1. out'[c] = out[c] /\ rst'[c] = rst[c]
      BY <1>0, <2>2, SentTo
    <3>2. ~InHand(c)
      BY <1>6 DEF InHand
    <3>3. Same(c)
      BY <1>1, <1>2, <3>1, <3>2 DEF Same
    <3> QED
      BY <1>0, <3>3, SameKeeps
  <2> QED
    BY <2>1, <2>2
<1>7. CASE c = ws /\ Regular(c)
  <2>1. InHand(c) /\ OneAtATime(c)
    BY <1>0, <1>1, <1>7 DEF InHand, ClientInv
  <2>2. ~unread[c] /\ whole[c] /\ ~rst[c] /\ asked[c] > 0 /\ out[c] <= AnswerLen * asked[c]
    BY <1>0, <1>7, <2>1 DEF OneAtATime, ClientInv, ResetIsLast
  <2>3. CASE hup[c]
    <3>1. out'[c] = out[c]
      BY <1>0, <2>3, SentTo
    <3>2. OneAtATime(c)'
      BY <1>1, <1>2, <2>2, <2>3, <3>1 DEF OneAtATime
    <3> QED
      BY <1>1, <1>2, <1>5, <2>2, <2>3, <3>2 DEF ClientInv, ResetIsLast
  <2>4. CASE ~hup[c]
    <3>1. c \in Peer(wc)
      BY <1>0, <1>1, <1>7, <2>4 DEF HandsInv, Peer
    <3>2. out[c] = AnswerLen * (asked[c] - 1) /\ got[c] = out[c]
      BY <2>1, <2>4 DEF OneAtATime
    <3>3. AnswerLen * asked[c] = AnswerLen * (asked[c] - 1) + AnswerLen /\ AnswerLen * (asked[c] - 1) \in Nat
      BY <1>3, <2>2, LastAnswer
    <3>4. out'[c] \in Nat /\ out'[c] <= out[c] + AnswerLen /\ (AnswerLen <= SndBuf => out'[c] = out[c] + AnswerLen)
          /\ rst'[c] = rst[c]
      BY <1>0, <2>4, <3>1, <3>2, SentTo
    <3>5. out'[c] <= AnswerLen * asked[c] /\ (AnswerLen <= SndBuf => out'[c] = AnswerLen * asked[c])
      BY <1>3, <3>2, <3>3, <3>4
    <3>6. OneAtATime(c)'
      BY <1>1, <1>2, <2>2, <3>5 DEF OneAtATime
    <3> QED
      BY <1>1, <1>5, <2>2, <3>4, <3>6 DEF ClientInv, ResetIsLast
  <2> QED
    BY <1>3, <2>3, <2>4
<1>8. CASE c = ws /\ ~Regular(c)
  BY <1>1, <1>2, <1>5, <1>8 DEF ClientInv, ResetIsLast
<1> QED
  BY <1>6, <1>7, <1>8

LEMMA AnswersStep == ASSUME IndInv, Next PROVE \A c \in Client : ClientInv(c)'
<1> SUFFICES ASSUME NEW c \in Client PROVE ClientInv(c)'
  OBVIOUS
<1> USE DEF main, worker, clients, history
<1>0. ClientInv(c)
  BY DEF IndInv
<1>1. ASSUME NEW d \in Client, Ask(d) PROVE ClientInv(c)'
  BY <1>1, AskKeeps
<1>2. ASSUME NEW d \in Client, Read(d) PROVE ClientInv(c)'
  BY <1>2, ReadKeeps
<1>3. ASSUME NEW d \in Client, Hangup(d) PROVE ClientInv(c)'
  BY <1>3, HangupKeeps
<1>4. ASSUME NEW d \in Client, AskRest(d) PROVE ClientInv(c)'
  BY <1>4, AskRestKeeps
<1>5. CASE Recv
  BY <1>5, RecvKeeps
<1>6. CASE Send
  BY <1>6, SendKeeps
<1>7. CASE Same(c)
  BY <1>0, <1>7, SameKeeps
<1>8. ASSUME NEW d \in Client, Connect(d) PROVE Same(c)
  BY <1>8 DEF Connect, Same, Regular, InHand
<1>9. ASSUME Poll \/ OnConnect \/ Accept \/ AcceptDone \/ OnData \/ In \/ Post
               \/ PollInterrupted \/ AcceptInterrupted
      PROVE  Same(c)
  BY <1>9 DEF Poll, OnConnect, Accept, AcceptDone, OnData, In, Post, PollInterrupted,
              AcceptInterrupted, Same, Regular, InHand
<1>10. ASSUME SemWait \/ OutNull \/ Out \/ RecvNothing \/ SemWaitInterrupted \/ RecvInterrupted \/ SendInterrupted
      PROVE  Same(c)
  BY <1>10 DEF SemWait, OutNull, Out, RecvNothing, SemWaitInterrupted, RecvInterrupted,
               SendInterrupted, Same, Regular, InHand
<1> QED
  BY <1>1, <1>2, <1>3, <1>4, <1>5, <1>6, <1>7, <1>8, <1>9, <1>10, Cases

LEMMA SurvivesStep == ASSUME IndInv, Next PROVE SurvivesHangup'
<1> USE DEF main, worker, clients, history
<1>0. died = "no" /\ FdInv
  BY Cases DEF IndInv
<1>1. CASE Send
  <2> SUFFICES ASSUME died' = "pipe" PROVE \E c \in Client : hup'[c] /\ ~Regular(c)'
    BY DEF SurvivesHangup
  <2>1. PICK c \in Peer(wc) : rst[c]
    BY <1>0, <1>1 DEF Send
  <2>2. c \in Client /\ ClientInv(c)
    BY DEF IndInv, Peer, Held
  <2>3. hup[c] /\ hup' = hup
    BY <1>1, <2>1, <2>2 DEF ClientInv, ResetIsLast, Send
  <2>4. CASE c # ws
    BY <1>1, <2>2, <2>3, <2>4 DEF Send, Regular
  <2>5. CASE c = ws
    <3>1. ~Regular(c)
      BY <1>1, <2>1, <2>2, <2>5 DEF ClientInv, ResetIsLast, InHand, Send
    <3> QED
      BY <1>1, <2>2, <2>3, <3>1 DEF Send, Regular
  <2> QED
    BY <2>4, <2>5
<1>2. CASE died' # "pipe"
  BY <1>2 DEF SurvivesHangup
<1>3. ASSUME NEW c \in Client, Connect(c) \/ Ask(c) \/ AskRest(c) \/ Read(c) \/ Hangup(c)
      PROVE  died' # "pipe"
  BY <1>0, <1>3 DEF Connect, Ask, AskRest, Read, Hangup
<1>4. ASSUME Poll \/ OnConnect \/ Accept \/ AcceptDone \/ OnData \/ In \/ Post
               \/ PollInterrupted \/ AcceptInterrupted
      PROVE  died' # "pipe"
  BY <1>0, <1>4 DEF Poll, OnConnect, Accept, AcceptDone, OnData, In, Post, PollInterrupted, AcceptInterrupted
<1>5. ASSUME SemWait \/ OutNull \/ Out \/ Recv \/ RecvNothing \/ SemWaitInterrupted
               \/ RecvInterrupted \/ SendInterrupted
      PROVE  died' # "pipe"
  BY <1>0, <1>5 DEF SemWait, OutNull, Out, Recv, RecvNothing, SemWaitInterrupted, RecvInterrupted, SendInterrupted
<1> QED
  BY <1>1, <1>2, <1>3, <1>4, <1>5, Cases

-----------------------------------------------------------------------------
LEMMA DeliveryInvariance == Safety => []IndInv
<1>1. IndInv /\ [Next]_vars => IndInv'
  <2> SUFFICES ASSUME IndInv, [Next]_vars PROVE IndInv'
    OBVIOUS
  <2>1. CASE Next
    <3>1. TypeOK' /\ AlertsCoverQueue' /\ BacklogInv' /\ FdInv' /\ HandsInv' /\ SurvivesHangup'
      BY <2>1, DeliveryTypeStep, AlertsStep, BacklogStep, FdStep, HandsStep, SurvivesStep
    <3>2. \A c \in Client : ClientInv(c)'
      BY <2>1, AnswersStep
    <3> QED
      BY <3>1, <3>2 DEF IndInv
  <2>2. CASE UNCHANGED vars
    <3> USE <2>2 DEF vars, clients, main, worker, history
    <3>1. TypeOK' /\ AlertsCoverQueue' /\ BacklogInv'
      BY DEF IndInv, TypeOK, AlertsCoverQueue, BacklogInv
    <3>2. FdInv' /\ HandsInv' /\ SurvivesHangup'
      BY DEF IndInv, FdInv, HandsInv, Held, Accepted, SurvivesHangup, Regular
    <3>3. \A c \in Client : Same(c)
      BY DEF Same, Regular, InHand
    <3>4. \A c \in Client : ClientInv(c)'
      BY <3>3, SameKeeps DEF IndInv
    <3> QED
      BY <3>1, <3>2, <3>4 DEF IndInv
  <2> QED
    BY <2>1, <2>2
<1> QED
  BY <1>1, DeliveryInitInd, PTL DEF Safety

(* main.c:380, 461, main.h:207: a hook in the queue of the worker always   *)
(* has a wake-up to come; wake-ups and hooks differ by the waits a signal  *)
(* ended, and without one the worker never runs off the end of its queue.  *)
THEOREM WakeupsSuffice == Safety => [](TypeOK /\ AlertsCoverQueue)
BY DeliveryInvariance, PTL DEF IndInv

(* ioqueue_socket.c:76: only an answer to a client that hung up and whose  *)
(* requests came apart or on top of each other, or whose descriptor was    *)
(* written to through another hook, raises SIGPIPE: clients that ask one   *)
(* whole request at a time may leave at any moment.                        *)
THEOREM HangupIsSurvived == Safety => []SurvivesHangup
BY DeliveryInvariance, PTL DEF IndInv

(* main.h:213, mod_http.c:522: with room for one answer in the send buffer *)
(* the count that sendmsg returns need not be looked at, for regular       *)
(* clients.                                                                *)
THEOREM AnswersAreWhole == ASSUME AnswerLen <= SndBuf PROVE Safety => []AnswersWhole
<1>1. ASSUME IndInv, AnswerLen <= SndBuf PROVE AnswersWhole
  BY <1>1 DEF IndInv, ClientInv, OneAtATime, InHand, AnswersWhole
<1> QED
  BY <1>1, DeliveryInvariance, PTL
=============================================================================
