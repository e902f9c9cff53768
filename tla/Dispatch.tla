------------------------------ MODULE Dispatch ------------------------------
(***************************************************************************)
(* The event loop and its workers: ayubd_run and ayubd_worker (main.c),    *)
(* the socket callbacks on_connect and on_data and the HTTP data hook they *)
(* end in (ioqueue_socket.c, mod_http.c), and the reference count of hooks *)
(* (main.h).                                                               *)
(*                                                                         *)
(* Main owns one reference to the hook of every connection it accepted,    *)
(* and takes another for every event it queues to a worker; the last one   *)
(* to drop its reference frees the hook.  Main alone closes descriptors.   *)
(* The atomic counter, the queue and the system calls are the points where *)
(* the threads meet, so each is a step.  Each worker's queue with its      *)
(* semaphore is the FIFO that SpscQueue implements.                        *)
(*                                                                         *)
(* The kernel is modelled from how the code uses it: descriptors are given *)
(* out lowest first, a closed descriptor leaves the epoll set at once,     *)
(* connections are edge-triggered and the listening socket is              *)
(* level-triggered.  The events array has room for every descriptor        *)
(* (nevents is the process's open_max), so one EVQ_POLL takes every ready  *)
(* event; their order is left open.                                        *)
(***************************************************************************)
EXTENDS Integers, FiniteSets, Sequences

CONSTANTS
  Hook,         \* addresses calloc can return for a hook
  NoHook,
  Listener,     \* the hook of the listening socket
  Fd,           \* the descriptors accept can return
  NWorkers,     \* sys->nworkers
  RcvCap,       \* what one recvmsg can take: both buffers of the msghdr
  MaxConn,      \* bound: how many clients connect
  MaxSend       \* bound: how many segments a client sends

ASSUME ConstAssumption ==
  /\ Listener \notin Hook /\ NoHook \notin Hook
  /\ Fd \subseteq Nat /\ Fd # {}
  /\ NWorkers \in Nat \ {0} /\ RcvCap \in Nat \ {0}
  /\ MaxConn \in Nat /\ MaxSend \in Nat

VARIABLES
  nconn, nacc,       \* clients that connected; how many of them were accepted
  sent, unread, hup, \* per client: segments sent, segments not yet received,
                     \* whether it hung up
  owner, reg, ready, \* per descriptor: the connection it refers to (0: closed),
                     \* the hook registered with epoll; the epoll ready list
  live, fd, refcnt, process, conn,
                     \* the hooks: allocated ones, hp->fd, hp->refcnt, whether
                     \* hp->process is set; the connection it was made for
  batch, bhup, mpc, mh,
                     \* main: events not handled yet, those with a hang-up,
                     \* control point, the hook at hand
  q, wpc, wh         \* workers: queue, control point, the hook at hand

kernel == <<nconn, nacc, sent, unread, hup, owner, reg, ready>>
hooks == <<live, fd, refcnt, process, conn>>
main == <<batch, bhup, mpc, mh>>
workers == <<q, wpc, wh>>
vars == <<kernel, hooks, main, workers>>

Conn == 1..MaxConn
Worker == 0..(NWorkers - 1)

Init ==
  /\ nconn = 0 /\ nacc = 0
  /\ sent = [c \in Conn |-> 0] /\ unread = [c \in Conn |-> 0]
  /\ hup = [c \in Conn |-> FALSE]
  /\ owner = [f \in Fd |-> 0] /\ reg = [f \in Fd |-> NoHook] /\ ready = {}
  /\ live = {}
  /\ fd = [h \in Hook |-> CHOOSE f \in Fd : TRUE]
  /\ refcnt = [h \in Hook |-> 0]
  /\ process = [h \in Hook |-> FALSE] /\ conn = [h \in Hook |-> 0]
  /\ batch = {} /\ bhup = {} /\ mpc = "poll" /\ mh = NoHook
  /\ q = [w \in Worker |-> <<>>]
  /\ wpc = [w \in Worker |-> "wait"] /\ wh = [w \in Worker |-> NoHook]

-----------------------------------------------------------------------------
(* Clients and kernel.                                                     *)

Accepted(c) == {f \in Fd : owner[f] = c}

(* A client the server has not hung up on, and that has not hung up. *)
Talking(c) == c \in 1..nconn /\ ~hup[c] /\ (c > nacc \/ Accepted(c) # {})

ClientConnect ==
  /\ nconn < MaxConn
  /\ nconn' = nconn + 1
  /\ UNCHANGED <<nacc, sent, unread, hup, owner, reg, ready, hooks, main, workers>>

(* A new edge: the descriptor, if accepted, goes on the ready list. *)
ClientSend(c) ==
  /\ Talking(c) /\ sent[c] < MaxSend
  /\ sent' = [sent EXCEPT ![c] = @ + 1]
  /\ unread' = [unread EXCEPT ![c] = @ + 1]
  /\ ready' = ready \cup Accepted(c)
  /\ UNCHANGED <<nconn, nacc, hup, owner, reg, hooks, main, workers>>

ClientClose(c) ==
  /\ Talking(c)
  /\ hup' = [hup EXCEPT ![c] = TRUE]
  /\ ready' = ready \cup Accepted(c)
  /\ UNCHANGED <<nconn, nacc, sent, unread, owner, reg, hooks, main, workers>>

Client == ClientConnect \/ \E c \in Conn : ClientSend(c) \/ ClientClose(c)

(* What epoll reports: a queued descriptor only if there is something to   *)
(* report now, the listener as long as a client waits.                     *)
Reported == {f \in ready : unread[owner[f]] > 0 \/ hup[owner[f]]}
HungUp == {f \in ready : hup[owner[f]]}

-----------------------------------------------------------------------------
(* The main thread.                                                        *)

(* Back to the for loop over the events, or to EVQ_POLL. *)
NextEvent == mpc' = IF batch = {} THEN "poll" ELSE "event"

(* EVQ_POLL *)
Poll ==
  /\ mpc = "poll"
  /\ batch' = {reg[f] : f \in Reported} \cup (IF nacc < nconn THEN {Listener} ELSE {})
  /\ bhup' = {reg[f] : f \in HungUp}
  /\ batch' # {}
  /\ mpc' = "event" /\ ready' = {}
  /\ UNCHANGED <<nconn, nacc, sent, unread, hup, owner, reg, hooks, mh, workers>>

(* hp->ready(hp) on the listening socket: ioqueue_socket_on_connect *)
OnConnect ==
  /\ mpc = "event" /\ Listener \in batch
  /\ batch' = batch \ {Listener}
  /\ mpc' = "accept"
  /\ UNCHANGED <<kernel, hooks, bhup, mh, workers>>

FreeFd == {f \in Fd : owner[f] = 0}

(* One turn of the accept loop: hook_new, EVQ_ADD.  Data or a hang-up that *)
(* came before EVQ_ADD makes the descriptor ready at once.  Without memory *)
(* for the hook the connection is closed.                                  *)
Accept ==
  /\ mpc = "accept" /\ nacc < nconn
  /\ nacc' = nacc + 1
  /\ \E f \in FreeFd :
       /\ \A g \in FreeFd : f <= g
       /\ IF Hook \ live = {}
          THEN UNCHANGED <<owner, reg, ready, hooks>>
          ELSE \E h \in Hook \ live :
                 /\ owner' = [owner EXCEPT ![f] = nacc + 1]
                 /\ reg' = [reg EXCEPT ![f] = h]
                 /\ ready' = IF unread[nacc + 1] > 0 \/ hup[nacc + 1]
                             THEN ready \cup {f} ELSE ready
                 /\ live' = live \cup {h}
                 /\ fd' = [fd EXCEPT ![h] = f]
                 /\ refcnt' = [refcnt EXCEPT ![h] = 1]
                 /\ process' = [process EXCEPT ![h] = FALSE]
                 /\ conn' = [conn EXCEPT ![h] = nacc + 1]
  /\ UNCHANGED <<nconn, sent, unread, hup, main, workers>>

(* accept returns EAGAIN, or EMFILE when no descriptor is left. *)
AcceptDone ==
  /\ mpc = "accept" /\ (nacc = nconn \/ FreeFd = {})
  /\ NextEvent
  /\ UNCHANGED <<kernel, hooks, batch, bhup, mh, workers>>

(* Mutant: on_data installs hp->process but does not return 1 for that event. *)
OnDataFirstLost ==
  /\ mpc = "event"
  /\ \E h \in batch \ {Listener} :
       /\ batch' = batch \ {h} /\ mh' = h
       /\ IF h \in bhup
          THEN /\ owner' = [owner EXCEPT ![fd[h]] = 0]
               /\ reg' = [reg EXCEPT ![fd[h]] = NoHook]
               /\ ready' = ready \ {fd[h]}
               /\ mpc' = "drop" /\ UNCHANGED process
          ELSE /\ process' = [process EXCEPT ![h] = TRUE]
               /\ mpc' = IF process[h] THEN "ref"
                         ELSE IF batch \ {h} = {} THEN "poll" ELSE "event"
               /\ UNCHANGED <<owner, reg, ready>>
  /\ UNCHANGED <<nconn, nacc, sent, unread, hup, live, fd, refcnt, conn, bhup, workers>>

(* hp->ready(hp) on a connection, ioqueue_socket_on_data.  After a hang-up *)
(* it starts hook_close with close(fd), which also takes the descriptor    *)
(* out of epoll; otherwise it sees to it that the hook has a process       *)
(* function.                                                               *)
OnData ==
  /\ mpc = "event"
  /\ \E h \in batch \ {Listener} :
       /\ batch' = batch \ {h} /\ mh' = h
       /\ IF h \in bhup
          THEN /\ owner' = [owner EXCEPT ![fd[h]] = 0]
               /\ reg' = [reg EXCEPT ![fd[h]] = NoHook]
               /\ ready' = ready \ {fd[h]}
               /\ mpc' = "drop" /\ UNCHANGED process
          ELSE /\ process' = [process EXCEPT ![h] = TRUE]
               /\ mpc' = "ref" /\ UNCHANGED <<owner, reg, ready>>
  /\ UNCHANGED <<nconn, nacc, sent, unread, hup, live, fd, refcnt, conn, bhup, workers>>

(* Mutant: tests the count before the subtraction (fetch_sub for sub_fetch). *)
DropRefOldValue(h) ==
  /\ refcnt' = [refcnt EXCEPT ![h] = @ - 1]
  /\ live' = IF refcnt[h] = 0 THEN live \ {h} ELSE live
  /\ UNCHANGED <<fd, process, conn>>

(* hook_free: the thread that takes the count to 0 frees the hook. *)
DropRef(h) ==
  /\ refcnt' = [refcnt EXCEPT ![h] = @ - 1]
  /\ live' = IF refcnt[h] = 1 THEN live \ {h} ELSE live
  /\ UNCHANGED <<fd, process, conn>>

(* Mutant: closes the descriptor and forgets main's own reference. *)
CloseKeepsRef ==
  /\ mpc = "drop"
  /\ NextEvent
  /\ UNCHANGED <<kernel, hooks, batch, bhup, mh, workers>>

(* hook_close, second half *)
Close ==
  /\ mpc = "drop"
  /\ DropRef(mh)
  /\ NextEvent
  /\ UNCHANGED <<kernel, batch, bhup, mh, workers>>

(* Mutant: queues the hook without hook_ref. *)
RefSkipped ==
  /\ mpc = "ref"
  /\ mpc' = "put"
  /\ UNCHANGED <<kernel, hooks, batch, bhup, mh, workers>>

(* hook_ref(hp) *)
Ref ==
  /\ mpc = "ref"
  /\ refcnt' = [refcnt EXCEPT ![mh] = @ + 1]
  /\ mpc' = "put"
  /\ UNCHANGED <<kernel, live, fd, process, conn, batch, bhup, mh, workers>>

(* Mutant: spreads events over the workers by their place in the batch. *)
WorkerOfBatch(h) == Cardinality(batch) % NWorkers

(* hp->fd % sys->nworkers *)
WorkerOf(h) == fd[h] % NWorkers

(* stailq_in_lf_spsc, sem_post *)
Put ==
  /\ mpc = "put"
  /\ q' = [q EXCEPT ![WorkerOf(mh)] = Append(@, mh)]
  /\ NextEvent
  /\ UNCHANGED <<kernel, hooks, batch, bhup, mh, wpc, wh>>

MainStep == Poll \/ OnConnect \/ Accept \/ AcceptDone \/ OnData \/ Close \/ Ref \/ Put

-----------------------------------------------------------------------------
(* The workers.                                                            *)

(* sem_wait, stailq_out_lf_spsc; a hook without a process function is      *)
(* passed over.                                                            *)
Take(w) ==
  /\ wpc[w] = "wait" /\ q[w] # <<>>
  /\ q' = [q EXCEPT ![w] = Tail(@)]
  /\ wh' = [wh EXCEPT ![w] = Head(q[w])]
  /\ wpc' = [wpc EXCEPT ![w] = IF process[Head(q[w])] THEN "recv" ELSE "wait"]
  /\ UNCHANGED <<kernel, hooks, main>>

(* Mutant: offers recvmsg one buffer only. *)
RecvOneBuffer(w) ==
  /\ wpc[w] = "recv"
  /\ LET c == owner[fd[wh[w]]]
     IN IF c = 0 \/ (c # 0 /\ unread[c] = 0)
        THEN wpc' = [wpc EXCEPT ![w] = "unref"] /\ UNCHANGED unread
        ELSE /\ unread' = [unread EXCEPT ![c] = @ - 1]
             /\ \E pc \in {"send", "unref"} : wpc' = [wpc EXCEPT ![w] = pc]
  /\ UNCHANGED <<nconn, nacc, sent, hup, owner, reg, ready, hooks, main, q, wh>>

(* Mutant: the worker calls hook_close when it read nothing (the call that *)
(* process_data has commented out).                                        *)
RecvCloses(w) ==
  /\ wpc[w] = "recv"
  /\ LET f == fd[wh[w]]
         c == owner[f]
     IN IF c # 0 /\ unread[c] = 0
        THEN /\ owner' = [owner EXCEPT ![f] = 0] /\ reg' = [reg EXCEPT ![f] = NoHook]
             /\ ready' = ready \ {f}
             /\ DropRef(wh[w])
             /\ wpc' = [wpc EXCEPT ![w] = "unref"] /\ UNCHANGED unread
        ELSE /\ unread' = IF c = 0 THEN unread ELSE [unread EXCEPT ![c] = 0]
             /\ wpc' = [wpc EXCEPT ![w] = "unref"]
             /\ UNCHANGED <<owner, reg, ready, hooks>>
  /\ UNCHANGED <<nconn, nacc, sent, hup, main, q, wh>>

(* process_data, hook_on_data_test: recvmsg on whatever hp->fd refers to   *)
(* now.  EBADF, EAGAIN or end of file end the processing; data does too if *)
(* http_on_data_default finds nothing to answer.                           *)
Recv(w) ==
  /\ wpc[w] = "recv"
  /\ LET c == owner[fd[wh[w]]]
         n == IF c = 0 THEN 0 ELSE IF unread[c] < RcvCap THEN unread[c] ELSE RcvCap
     IN IF n = 0
        THEN /\ wpc' = [wpc EXCEPT ![w] = "unref"]
             /\ UNCHANGED unread
        ELSE /\ unread' = [unread EXCEPT ![c] = @ - n]
             /\ \E pc \in {"send", "unref"} : wpc' = [wpc EXCEPT ![w] = pc]
  /\ UNCHANGED <<nconn, nacc, sent, hup, owner, reg, ready, hooks, main, q, wh>>

(* sendmsg to whatever hp->fd refers to now *)
Send(w) ==
  /\ wpc[w] = "send"
  /\ wpc' = [wpc EXCEPT ![w] = "unref"]
  /\ UNCHANGED <<kernel, hooks, main, q, wh>>

(* hook_unref(s) *)
Unref(w) ==
  /\ wpc[w] = "unref"
  /\ DropRef(wh[w])
  /\ wpc' = [wpc EXCEPT ![w] = "wait"]
  /\ UNCHANGED <<kernel, main, q, wh>>

WorkerStep(w) == Take(w) \/ Recv(w) \/ Send(w) \/ Unref(w)

Next == Client \/ MainStep \/ \E w \in Worker : WorkerStep(w)

Safety == Init /\ [][Next]_vars

(* The threads run; the clients do as they please. *)
Spec == Safety /\ WF_vars(MainStep) /\ \A w \in Worker : WF_vars(WorkerStep(w))

-----------------------------------------------------------------------------
TypeOK ==
  /\ nconn \in 0..MaxConn /\ nacc \in 0..nconn
  /\ sent \in [Conn -> Nat] /\ unread \in [Conn -> Nat] /\ hup \in [Conn -> BOOLEAN]
  /\ owner \in [Fd -> Conn \cup {0}] /\ reg \in [Fd -> Hook \cup {NoHook}]
  /\ ready \subseteq Fd
  /\ live \subseteq Hook /\ fd \in [Hook -> Fd] /\ refcnt \in [Hook -> Int]
  /\ process \in [Hook -> BOOLEAN] /\ conn \in [Hook -> Conn \cup {0}]
  /\ batch \subseteq Hook \cup {Listener} /\ bhup \subseteq Hook
  /\ mpc \in {"poll", "event", "accept", "drop", "ref", "put"}
  /\ mh \in Hook \cup {NoHook} /\ (mpc \in {"drop", "ref", "put"} => mh \in Hook)
  /\ q \in [Worker -> Seq(Hook)]
  /\ wpc \in [Worker -> {"wait", "recv", "send", "unref"}]
  /\ wh \in [Worker -> Hook \cup {NoHook}]
  /\ \A w \in Worker : wpc[w] # "wait" => wh[w] \in Hook

(* Who may still dereference a hook: epoll, main, a queue, a worker. *)
Registered(h) == reg[fd[h]] = h
InMainsHand(h) == mpc \in {"drop", "ref", "put"} /\ mh = h
Queued(w, h) == \E i \in DOMAIN q[w] : q[w][i] = h
InWorkersHand(w, h) == wpc[w] # "wait" /\ wh[w] = h

Held(h) ==
  \/ (\E f \in Fd : reg[f] = h) \/ h \in batch \/ InMainsHand(h)
  \/ \E w \in Worker : Queued(w, h) \/ InWorkersHand(w, h)

(* main.c:376, 490 and main.h:280-283: "make sure main thread/worker       *)
(* thread doesn't free it accidentally".  No event, queue or thread holds  *)
(* a hook that was freed; as this is so at every moment, none can mistake  *)
(* a hook reallocated at the same address for its own either.              *)
NoUseAfterFree == \A h \in Hook : Held(h) => h \in live

(* main.h:280: a hook nobody holds any more has been freed: no order of    *)
(* hang-up, queued events and processing leaks it.                         *)
NoHookLeaked == \A h \in live : Held(h)

(* main.h:224: "hook_*alloc functions might require locking": the memory   *)
(* pool and the parser state of a hook have no lock, so while one worker   *)
(* processes a hook no other may have it or get it next.                   *)
OneWorkerPerHook ==
  \A v, w \in Worker : \A h \in Hook :
    (InWorkersHand(v, h) \/ Queued(v, h)) /\ (InWorkersHand(w, h) \/ Queued(w, h)) => v = w

(* main.c:368-374: events fetched by one EVQ_POLL are handled one by one,  *)
(* and handling one may close descriptors and accept connections that get  *)
(* their numbers.  The others are not outdated by that: each is still      *)
(* about the open connection its hook was made for, so main never closes   *)
(* someone else's socket.                                                  *)
EventsAreCurrent == \A h \in batch \ {Listener} : Registered(h) /\ owner[fd[h]] = conn[h]

(* A pending edge, event, queue entry or worker at its recvmsg. *)
WillBeRead(f) ==
  \/ f \in ready \/ reg[f] \in batch \/ InMainsHand(reg[f])
  \/ \E w \in Worker : Queued(w, reg[f]) \/ (wh[w] = reg[f] /\ wpc[w] = "recv")

(* ioqueue_socket.c:191 (EPOLLET) and main.c:426-490: an edge is reported  *)
(* once.  Data an accepted client sent is never left behind without a      *)
(* pending edge, event, queue entry or worker that will read it (as long   *)
(* as one recvmsg can take all of it).                                     *)
NoForgottenData ==
  RcvCap >= MaxSend =>
    \A f \in Fd : owner[f] # 0 /\ unread[owner[f]] > 0 => WillBeRead(f)

(* main.h:283 with main.c:481-490: after main closed a connection, its     *)
(* hook is freed in the end, whatever was still queued for it.             *)
ClosedHooksAreFreed ==
  \A h \in Hook : (h \in live /\ ~Registered(h)) ~> (h \notin live)

(* ioqueue_socket.c:110-150, main.c:426-490: what an accepted client sends *)
(* is read, or the connection is closed.                                   *)
DataIsRead ==
  \A f \in Fd : (owner[f] # 0 /\ unread[owner[f]] > 0) ~> (owner[f] = 0 \/ unread[owner[f]] = 0)

(* ioqueue_socket.c:82-83: "to be executed by worker thread so hp must be  *)
(* valid": the descriptor a worker receives from and answers to is the one *)
(* of the connection the hook was made for, or closed.                     *)
OwnSocket ==
  \A w \in Worker : wpc[w] \in {"recv", "send"} =>
    owner[fd[wh[w]]] \in {0, conn[wh[w]]}

-----------------------------------------------------------------------------
(* The inductive invariant behind the safety properties.                   *)

Bit(b) == IF b THEN 1 ELSE 0
Occ(s, h) == Cardinality({i \in DOMAIN s : s[i] = h})

(* The references to a hook: main's own until hook_close is through, the   *)
(* one taken for the event main is about to queue, one per queue entry and *)
(* one in the worker's hand.  Only the worker its descriptor selects can   *)
(* have any.                                                               *)
MainsOwn(h) == Registered(h) \/ (mpc = "drop" /\ mh = h)
References(h) ==
  Bit(MainsOwn(h)) + Bit(mpc = "put" /\ mh = h)
    + Occ(q[WorkerOf(h)], h) + Bit(InWorkersHand(WorkerOf(h), h))

RefcntExact == \A h \in live : refcnt[h] = References(h) /\ refcnt[h] > 0

(* Epoll knows exactly the open descriptors, each with its own hook. *)
EpollSet ==
  /\ \A f \in Fd : (owner[f] = 0) <=> (reg[f] = NoHook)
  /\ \A f \in Fd : reg[f] # NoHook =>
       reg[f] \in live /\ fd[reg[f]] = f /\ conn[reg[f]] = owner[f]
  /\ \A f \in ready : reg[f] # NoHook

MainState ==
  /\ \A h \in batch \ {Listener} : Registered(h)
  /\ mpc = "drop" => mh \in live /\ ~Registered(mh)
  /\ mpc \in {"ref", "put"} => Registered(mh) /\ process[mh]

WorkersState ==
  /\ \A w \in Worker : \A i \in DOMAIN q[w] :
       q[w][i] \in live /\ WorkerOf(q[w][i]) = w /\ process[q[w][i]]
  /\ \A w \in Worker : wpc[w] # "wait" => wh[w] \in live /\ WorkerOf(wh[w]) = w

IndInv == TypeOK /\ RefcntExact /\ EpollSet /\ MainState /\ WorkersState

(* What NoForgottenData rests on besides: no more is unread than a client  *)
(* can have sent, and EVQ_POLL overwrites no event that was not handled.   *)
DataInv ==
  /\ \A c \in Conn : unread[c] <= sent[c] /\ sent[c] <= MaxSend
  /\ mpc = "poll" => batch = {}
  /\ NoForgottenData
=============================================================================
