------------------------------ MODULE Delivery ------------------------------
(***************************************************************************)
(* What the event loop does when system calls fail: ayubd_run and one      *)
(* ayubd_worker (main.c) with on_connect, on_data, recvmsg and sendmsg     *)
(* (ioqueue_socket.c) and hook_on_data_test (mod_http.c), on a kernel that *)
(* runs out of descriptors, interrupts calls, refuses EVQ_ADD, has little  *)
(* room to send, and resets a connection whose client is gone.             *)
(*                                                                         *)
(* Dispatch has the hooks and their reference counts; here a connection    *)
(* stands for its hook, which keeps its descriptor after the connection is *)
(* closed, as the hook does.  All connections that ever had a descriptor   *)
(* have the same worker.  A request arrives whole or in two parts, at any  *)
(* time, and the client may send the next without waiting for the answer.  *)
(***************************************************************************)
EXTENDS Naturals, FiniteSets, Sequences

CONSTANTS
    Client,
    MaxFd,        \* descriptors left for connections (RLIMIT_NOFILE)
    AnswerLen,    \* bytes of an answer
    SndBuf,       \* bytes a socket's send buffer takes
    MaxAsk,       \* bound: requests of a client
    MaxIntr,      \* bound: system calls that a signal interrupts
    NoMemory,     \* may calloc fail?
    NoWatch       \* may EVQ_ADD fail?

ASSUME ConstAssumption ==
    /\ MaxFd \in Nat \ {0} /\ AnswerLen \in Nat \ {0} /\ SndBuf \in Nat
    /\ MaxAsk \in Nat /\ MaxIntr \in Nat /\ NoMemory \in BOOLEAN /\ NoWatch \in BOOLEAN

VARIABLES
    st, hup,      \* per client: its connection; whether it hung up
    fd,           \* and the descriptor accept gave its hook, 0 before
    asked, whole, \* requests sent; the last one was sent to its end
    unread,       \* data came that the server has not read
    out, got,     \* bytes of answers the kernel took; those the client has read
    rst,          \* the client's kernel answered a send with a reset
    backlog,      \* clients that wait for accept
    edge,         \* sockets with an event epoll has not reported
    batch, bhup, mpc, mc,   \* main: events at hand, control point, connection
    q, sem,       \* the worker's queue and its semaphore
    wpc, wc, ws,  \* the worker: control point, hook, whose data it read
    intr,         \* calls interrupted so far
    died,         \* what ended the process: "no", "pipe" (SIGPIPE), "null"
    loose,        \* history: clients of whom a read took part of a request,
                  \* or that did not wait for an answer
    crossed,      \* history: clients that were sent the answer to another
    stray         \* history: waits on the semaphore that a signal ended

clients == <<st, hup, fd, asked, whole, unread, out, got, rst, backlog, edge>>
main == <<batch, bhup, mpc, mc>>
worker == <<wpc, wc, ws>>
history == <<loose, crossed, stray>>
vars == <<clients, main, q, sem, worker, intr, died, history>>

Listener == "listener"
NoClient == "none"

Init ==
    /\ st = [c \in Client |-> "away"] /\ hup = [c \in Client |-> FALSE]
    /\ fd = [c \in Client |-> 0]
    /\ asked = [c \in Client |-> 0] /\ whole = [c \in Client |-> TRUE]
    /\ unread = [c \in Client |-> FALSE]
    /\ out = [c \in Client |-> 0] /\ got = [c \in Client |-> 0]
    /\ rst = [c \in Client |-> FALSE]
    /\ backlog = <<>> /\ edge = {}
    /\ batch = {} /\ bhup = {} /\ mpc = "poll" /\ mc = NoClient
    /\ q = <<>> /\ sem = 0 /\ wpc = "wait" /\ wc = NoClient /\ ws = NoClient
    /\ intr = 0 /\ died = "no"
    /\ loose = {} /\ crossed = {} /\ stray = 0

-----------------------------------------------------------------------------
(* The clients.                                                            *)

Held == {c \in Client : st[c] \in {"open", "orphan"}}
FreeFds == {f \in 1 .. MaxFd : \A c \in Held : fd[c] # f}
Watched(c) == IF st[c] = "open" THEN {c} ELSE {}

Connect(c) ==
    /\ st[c] = "away"
    /\ st' = [st EXCEPT ![c] = "waiting"]
    /\ backlog' = Append(backlog, c) /\ edge' = edge \cup {Listener}
    /\ UNCHANGED <<hup, fd, asked, whole, unread, out, got, rst, main, q, sem, worker, intr, died, history>>

(* A request, or the first part of one. *)
Ask(c) ==
    /\ st[c] \in {"waiting", "open", "orphan"} /\ ~hup[c]
    /\ asked[c] < MaxAsk /\ whole[c]
    /\ asked' = [asked EXCEPT ![c] = @ + 1]
    /\ \E w \in BOOLEAN : whole' = [whole EXCEPT ![c] = w]
    /\ unread' = [unread EXCEPT ![c] = TRUE]
    /\ loose' = IF got[c] = AnswerLen * asked[c] THEN loose ELSE loose \cup {c}
    /\ edge' = edge \cup Watched(c)
    /\ UNCHANGED <<st, hup, fd, out, got, rst, backlog, main, q, sem, worker, intr, died, crossed, stray>>

(* The rest of a request. *)
AskRest(c) ==
    /\ ~whole[c] /\ ~hup[c] /\ st[c] # "closed"
    /\ whole' = [whole EXCEPT ![c] = TRUE]
    /\ unread' = [unread EXCEPT ![c] = TRUE]
    /\ edge' = edge \cup Watched(c)
    /\ UNCHANGED <<st, hup, fd, asked, out, got, rst, backlog, main, q, sem, worker, intr, died, history>>

Read(c) ==
    /\ ~hup[c] /\ got[c] < out[c]
    /\ got' = [got EXCEPT ![c] = @ + 1]
    /\ UNCHANGED <<st, hup, fd, asked, whole, unread, out, rst, backlog, edge, main, q, sem, worker, intr, died, history>>

Hangup(c) ==
    /\ st[c] \in {"waiting", "open", "orphan"} /\ ~hup[c]
    /\ hup' = [hup EXCEPT ![c] = TRUE]
    /\ edge' = edge \cup Watched(c)
    /\ UNCHANGED <<st, fd, asked, whole, unread, out, got, rst, backlog, main, q, sem, worker, intr, died, history>>

ClientStep == \E c \in Client : Connect(c) \/ Ask(c) \/ AskRest(c) \/ Read(c) \/ Hangup(c)

-----------------------------------------------------------------------------
(* The main thread.                                                        *)

Interrupted == intr < MaxIntr /\ intr' = intr + 1

NextEvent == mpc' = IF batch' = {} THEN "poll" ELSE "event"

(* Mutant: the listening socket is edge-triggered, as the connections are. *)
ListenerReadyOnce == Listener \in edge /\ backlog # <<>>

(* The hook of the listening socket asks for EPOLLIN without EPOLLET. *)
ListenerReady == backlog # <<>>

(* EVQ_POLL *)
Poll ==
    /\ mpc = "poll"
    /\ LET reported == {c \in edge \ {Listener} : unread[c] \/ hup[c]}
       IN  /\ batch' = reported \cup (IF ListenerReady THEN {Listener} ELSE {})
           /\ bhup' = {c \in reported : hup[c]}
    /\ batch' # {}
    /\ edge' = {} /\ mpc' = "event"
    /\ UNCHANGED <<st, hup, fd, asked, whole, unread, out, got, rst, backlog, mc, q, sem, worker, intr, died, history>>

(* EVQ_POLL fails with EINTR: err_warn, continue. *)
PollInterrupted ==
    /\ mpc = "poll" /\ Interrupted
    /\ UNCHANGED <<clients, main, q, sem, worker, died, history>>

OnConnect ==
    /\ mpc = "event" /\ Listener \in batch
    /\ batch' = batch \ {Listener} /\ mpc' = "accept"
    /\ UNCHANGED <<clients, bhup, mc, q, sem, worker, intr, died, history>>

(* hook_new fails: close(connfd) *)
Refused(c) == st' = [st EXCEPT ![c] = "closed"] /\ UNCHANGED edge

(* EVQ_ADD; data or a hang-up that came earlier is reported at once. *)
Added(c) ==
    /\ st' = [st EXCEPT ![c] = "open"]
    /\ edge' = edge \cup (IF unread[c] \/ hup[c] THEN {c} ELSE {})

(* EVQ_CTL does not look at the result of epoll_ctl. *)
NotAdded(c) == st' = [st EXCEPT ![c] = "orphan"] /\ UNCHANGED edge

(* One turn of the accept loop; the kernel gives the lowest free number. *)
Accept ==
    /\ mpc = "accept" /\ backlog # <<>>
    /\ backlog' = Tail(backlog)
    /\ \E f \in FreeFds :
         /\ \A g \in FreeFds : f <= g
         /\ fd' = [fd EXCEPT ![Head(backlog)] = f]
    /\ LET c == Head(backlog)
       IN  Added(c) \/ (NoMemory /\ Refused(c)) \/ (NoWatch /\ NotAdded(c))
    /\ UNCHANGED <<hup, asked, whole, unread, out, got, rst, main, q, sem, worker, intr, died, history>>

AcceptInterrupted ==
    /\ mpc = "accept" /\ Interrupted
    /\ UNCHANGED <<clients, main, q, sem, worker, died, history>>

(* EAGAIN, or EMFILE while clients wait *)
AcceptDone ==
    /\ mpc = "accept" /\ (backlog = <<>> \/ FreeFds = {})
    /\ UNCHANGED batch /\ NextEvent
    /\ UNCHANGED <<clients, bhup, mc, q, sem, worker, intr, died, history>>

(* Mutant: data that came with the hang-up is read first. *)
OnDataFirst ==
    /\ mpc = "event"
    /\ \E c \in batch \ {Listener} :
         /\ batch' = batch \ {c} /\ mc' = c
         /\ IF c \in bhup /\ ~unread[c]
            THEN /\ st' = [st EXCEPT ![c] = "closed"]
                 /\ edge' = edge \ {c} /\ NextEvent
            ELSE mpc' = "in" /\ UNCHANGED <<st, edge>>
    /\ UNCHANGED <<hup, fd, asked, whole, unread, out, got, rst, backlog, bhup, q, sem, worker, intr, died, history>>

(* ioqueue_socket_on_data: hook_close after a hang-up, else to the worker *)
OnData ==
    /\ mpc = "event"
    /\ \E c \in batch \ {Listener} :
         /\ batch' = batch \ {c} /\ mc' = c
         /\ IF c \in bhup
            THEN /\ st' = [st EXCEPT ![c] = "closed"]
                 /\ edge' = edge \ {c} /\ NextEvent
            ELSE mpc' = "in" /\ UNCHANGED <<st, edge>>
    /\ UNCHANGED <<hup, fd, asked, whole, unread, out, got, rst, backlog, bhup, q, sem, worker, intr, died, history>>

(* stailq_in_lf_spsc *)
In ==
    /\ mpc = "in"
    /\ q' = Append(q, mc) /\ mpc' = "post"
    /\ UNCHANGED <<clients, batch, bhup, mc, sem, worker, intr, died, history>>

(* Mutant: wakes the worker only when the queue was empty. *)
PostFirst ==
    /\ mpc = "post"
    /\ sem' = (IF Len(q) <= 1 THEN sem + 1 ELSE sem) /\ UNCHANGED batch /\ NextEvent
    /\ UNCHANGED <<clients, bhup, mc, q, worker, intr, died, history>>

(* sem_post *)
Post ==
    /\ mpc = "post"
    /\ sem' = sem + 1 /\ UNCHANGED batch /\ NextEvent
    /\ UNCHANGED <<clients, bhup, mc, q, worker, intr, died, history>>

MainStep ==
    Poll \/ PollInterrupted \/ OnConnect \/ Accept \/ AcceptInterrupted \/ AcceptDone
         \/ OnData \/ In \/ Post

-----------------------------------------------------------------------------
(* The worker.                                                             *)

SemWait ==
    /\ wpc = "wait" /\ sem > 0
    /\ sem' = sem - 1 /\ wpc' = "out"
    /\ UNCHANGED <<clients, main, q, wc, ws, intr, died, history>>

(* sem_wait returns without a post when a signal interrupts it, and the    *)
(* worker looks into its queue all the same.                               *)
SemWaitInterrupted ==
    /\ wpc = "wait" /\ Interrupted
    /\ wpc' = "out" /\ stray' = stray + 1
    /\ UNCHANGED <<clients, main, q, sem, wc, ws, died, loose, crossed>>

(* stailq_out_lf_spsc *)
Out ==
    /\ wpc = "out" /\ q # <<>>
    /\ q' = Tail(q) /\ wc' = Head(q) /\ wpc' = "recv"
    /\ UNCHANGED <<clients, main, sem, ws, intr, died, history>>

(* stailq_empty_lf_spsc compares the divider with the successor of the     *)
(* last node, which is NULL: it does not see that the queue is empty, and  *)
(* the value is read through the NULL successor of the divider.            *)
OutNull ==
    /\ wpc = "out" /\ q = <<>>
    /\ died' = "null"
    /\ UNCHANGED <<clients, main, q, sem, worker, intr, history>>

(* The connection that has the descriptor of hook c now. *)
Peer(c) == {d \in Held : fd[d] = fd[c]}

(* Mutant: recvmsg is not called again. *)
RecvInterruptedGivesUp ==
    /\ wpc = "recv" /\ Interrupted
    /\ wpc' = "wait"
    /\ UNCHANGED <<clients, main, q, sem, wc, ws, died, history>>

(* DO_IOCALL: called again as long as a signal interrupts it *)
RecvInterrupted ==
    /\ wpc = "recv" /\ Interrupted
    /\ UNCHANGED <<clients, main, q, sem, worker, died, history>>

(* Mutant: hook_on_data_test without the test of n. *)
RecvUnchecked ==
    /\ wpc = "recv"
    /\ unread' = [c \in Client |-> unread[c] /\ c \notin Peer(wc)]
    /\ ws' = wc /\ wpc' = "send"
    /\ UNCHANGED <<st, hup, fd, asked, whole, out, got, rst, backlog, edge, main, q, sem, wc, intr, died, history>>

(* recvmsg.  A part of a request, or what follows a part, has an answer    *)
(* or not; HttpSession says when.                                          *)
Recv ==
    /\ wpc = "recv"
    /\ \E d \in Peer(wc) :
         /\ unread[d]
         /\ unread' = [unread EXCEPT ![d] = FALSE]
         /\ loose' = IF whole[d] THEN loose ELSE loose \cup {d}
         /\ ws' = d
         /\ wpc' = "send" \/ (d \in loose' /\ wpc' = "wait")
    /\ UNCHANGED <<st, hup, fd, asked, whole, out, got, rst, backlog, edge, main, q, sem, wc, intr, died, crossed, stray>>

(* n <= 0: nothing there, end of file, reset, EBADF *)
RecvNothing ==
    /\ wpc = "recv" /\ \A d \in Peer(wc) : ~unread[d]
    /\ wpc' = "wait"
    /\ UNCHANGED <<clients, main, q, sem, wc, ws, intr, died, history>>

(* Mutant: sendmsg is not called again. *)
SendInterruptedGivesUp ==
    /\ wpc = "send" /\ Interrupted
    /\ wpc' = "wait"
    /\ UNCHANGED <<clients, main, q, sem, wc, ws, died, history>>

(* DO_IOCALL *)
SendInterrupted ==
    /\ wpc = "send" /\ Interrupted
    /\ UNCHANGED <<clients, main, q, sem, worker, died, history>>

Least(a, b) == IF a < b THEN a ELSE b

(* sendmsg takes what the send buffer has room for; the count it returns   *)
(* is not compared with the length of the answer.  To a client that is     *)
(* gone the first send is answered with a reset and the next one raises    *)
(* SIGPIPE, which nothing handles.                                         *)
Send ==
    /\ wpc = "send" /\ wpc' = "wait"
    /\ out' = [c \in Client |-> IF c \in Peer(wc) /\ ~hup[c]
                                THEN out[c] + Least(AnswerLen, SndBuf - (out[c] - got[c]))
                                ELSE out[c]]
    /\ rst' = [c \in Client |-> rst[c] \/ (c \in Peer(wc) /\ hup[c])]
    /\ died' = IF \E c \in Peer(wc) : rst[c] THEN "pipe" ELSE died
    /\ crossed' = crossed \cup (Peer(wc) \ {ws})
    /\ UNCHANGED <<st, hup, fd, asked, whole, unread, got, backlog, edge, main, q, sem, wc, ws, intr, loose, stray>>

WorkerStep ==
    SemWait \/ SemWaitInterrupted \/ Out \/ OutNull \/ RecvInterrupted \/ Recv \/ RecvNothing
            \/ SendInterrupted \/ Send

(* All threads of a process that died stop, and its clients are alone. *)
Alive == died = "no"

Next == Alive /\ (ClientStep \/ MainStep \/ WorkerStep)

(* Interrupts come as they please and are no progress; fair is only that a *)
(* thread whose calls return runs.                                         *)
MainProgress == Alive /\ (Poll \/ OnConnect \/ Accept \/ AcceptDone \/ OnData \/ In \/ Post)
WorkerProgress == Alive /\ (SemWait \/ Out \/ OutNull \/ Recv \/ RecvNothing \/ Send)

Safety == Init /\ [][Next]_vars
Spec == Safety /\ WF_vars(MainProgress) /\ WF_vars(WorkerProgress)

-----------------------------------------------------------------------------
TypeOK ==
    /\ st \in [Client -> {"away", "waiting", "open", "orphan", "closed"}]
    /\ hup \in [Client -> BOOLEAN] /\ rst \in [Client -> BOOLEAN]
    /\ fd \in [Client -> 0 .. MaxFd]
    /\ asked \in [Client -> 0 .. MaxAsk] /\ whole \in [Client -> BOOLEAN]
    /\ unread \in [Client -> BOOLEAN]
    /\ out \in [Client -> Nat] /\ got \in [Client -> Nat]
    /\ backlog \in Seq(Client) /\ edge \subseteq Client \cup {Listener}
    /\ batch \subseteq Client \cup {Listener} /\ bhup \subseteq Client
    /\ mpc \in {"poll", "event", "accept", "in", "post"} /\ mc \in Client \cup {NoClient}
    /\ q \in Seq(Client) /\ sem \in Nat
    /\ wpc \in {"wait", "out", "recv", "send"}
    /\ wc \in Client \cup {NoClient} /\ ws \in Client \cup {NoClient}
    /\ intr \in 0 .. MaxIntr /\ died \in {"no", "pipe", "null"}
    /\ loose \subseteq Client /\ crossed \subseteq Client /\ stray \in Nat

Bit(b) == IF b THEN 1 ELSE 0

(* main.c:380, 461, main.h:207: every hook in the queue has a wake-up to   *)
(* come, so none is left behind while the worker sleeps; and there are     *)
(* more wake-ups than hooks only by as many as there were waits that a     *)
(* signal ended.  Each of these lets the worker run off the end of its     *)
(* queue in the end, and nothing else does.                                *)
AlertsCoverQueue ==
    /\ Len(q) + stray = sem + Bit(mpc = "post") + Bit(wpc = "out")
    /\ died = "null" => stray > 0

(* A client whose requests were read whole, that waited for each answer    *)
(* and was sent its own only.                                              *)
Regular(c) == c \notin loose \cup crossed

(* main.h:213 (DO_IOCALL), mod_http.c:522: whatever signals arrive, once a *)
(* request of a regular client was read and the worker is through with it, *)
(* the whole answer to it and to those before went out, unless the client  *)
(* is gone.  The send buffer must have room for an answer: a short count   *)
(* is not looked at.                                                       *)
AnswersWhole ==
    \A c \in Client :
        Regular(c) /\ ~unread[c] /\ ~hup[c] /\ ~(wpc = "send" /\ ws = c) => out[c] = AnswerLen * asked[c]

(* ioqueue_socket.c:76: sendmsg is called without MSG_NOSIGNAL, and no     *)
(* handler is set.  A client that leaves at any moment, and events of it   *)
(* that are still queued then, end the process only if the client's        *)
(* requests came apart or on top of each other, or its descriptor was      *)
(* written to through the hook of an earlier connection.                   *)
SurvivesHangup == died = "pipe" => \E c \in Client : hup[c] /\ ~Regular(c)

(* ioqueue_socket.c:173 with EPOLLIN of the listener at 426: a client that *)
(* accept left waiting for want of descriptors is accepted later, if       *)
(* descriptors become free again and again (and the process lives).        *)
WaitingAccepted ==
    \A c \in Client :
        []<>(FreeFds # {}) => (st[c] = "waiting" ~> st[c] # "waiting" \/ ~Alive)

(* main.h:213, main.c:329-386, 458-490: as long as the process lives, the  *)
(* request of an accepted regular client is answered, whichever calls are  *)
(* interrupted on its way.  (AlertsCoverQueue and SurvivesHangup say what  *)
(* ends the process.)                                                      *)
RequestAnswered ==
    \A c \in Client :
        (st[c] = "open" /\ unread[c]) ~>
            (hup[c] \/ ~Regular(c) \/ out[c] = AnswerLen * asked[c] \/ ~Alive)

(* ioqueue_socket.c:120-150: the descriptor of a client that hung up is    *)
(* free again, whatever was queued for it, as long as the process lives.   *)
(* (A connection that EVQ_ADD refused is not open in this sense: nobody    *)
(* learns of its hang-up.)                                                 *)
HangupFreesDescriptor ==
    \A c \in Client : (hup[c] /\ st[c] = "open") ~> (st[c] # "open" \/ ~Alive)

-----------------------------------------------------------------------------
(* The inductive invariant behind the safety properties.                   *)

InHand(c) == wpc = "send" /\ ws = c

(* One request at a time: a regular client asks the next when it has read  *)
(* all answers, so at most one is pending, and while it is, all sent was   *)
(* read.                                                                   *)
OneAtATime(c) ==
    /\ ~(unread[c] /\ InHand(c))
    /\ ~whole[c] => unread[c]
    /\ out[c] <= AnswerLen * asked[c]
    /\ unread[c] \/ InHand(c) =>
         /\ asked[c] > 0
         /\ ~hup[c] => out[c] = AnswerLen * (asked[c] - 1) /\ got[c] = out[c]
    /\ ~unread[c] /\ ~InHand(c) /\ ~hup[c] /\ AnswerLen <= SndBuf => out[c] = AnswerLen * asked[c]

(* A reset comes from an answer after the hang-up, the last one there is   *)
(* for a regular client.                                                   *)
ResetIsLast(c) == rst[c] => hup[c] /\ (Regular(c) => ~unread[c] /\ ~InHand(c))

ClientInv(c) ==
    /\ got[c] <= out[c] /\ out[c] - got[c] <= SndBuf
    /\ ResetIsLast(c) /\ (Regular(c) => OneAtATime(c))

(* Those who wait for accept wait once, and for nothing else. *)
BacklogInv ==
    /\ \A k \in DOMAIN backlog : st[backlog[k]] = "waiting"
    /\ \A k, l \in DOMAIN backlog : backlog[k] = backlog[l] => k = l

(* A descriptor belongs to one connection at a time. *)
FdInv == \A c, d \in Held : fd[c] = fd[d] => c = d

Accepted(c) == st[c] \in {"open", "closed"}

(* What the threads have in hand: events and hooks are about connections   *)
(* that were accepted, and the descriptor the answer goes to is that of    *)
(* the connection it was read from, as long as this is open.               *)
HandsInv ==
    /\ \A c \in (edge \cup batch \cup bhup) \ {Listener} : Accepted(c)
    /\ \A c \in bhup : hup[c]
    /\ \A k \in DOMAIN q : Accepted(q[k])
    /\ mpc = "in" => mc \in Client /\ Accepted(mc)
    /\ wpc \in {"recv", "send"} => wc \in Client /\ Accepted(wc)
    /\ wpc = "send" =>
         /\ ws \in Client
         /\ ws \in Held => fd[ws] = fd[wc]
         /\ ws \notin Held => hup[ws] /\ st[ws] = "closed"

IndInv ==
    /\ TypeOK /\ AlertsCoverQueue /\ BacklogInv /\ FdInv /\ HandsInv /\ SurvivesHangup
    /\ \A c \in Client : ClientInv(c)
=============================================================================
