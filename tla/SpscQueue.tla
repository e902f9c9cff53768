----------------------------- MODULE SpscQueue -----------------------------
(***************************************************************************)
(* The lock-free queue between the main thread and one worker              *)
(* (stailq_*_lf_spsc, main.h), with the semaphore that ayubd_run posts and *)
(* ayubd_worker waits on.                                                  *)
(*                                                                         *)
(* The queue is a singly linked list of malloc'ed nodes.  Main appends at  *)
(* the tail; the worker never unlinks a node, it moves the divider qdiv    *)
(* forward; main frees the nodes in front of the divider the next time it  *)
(* appends.  Nothing but the semaphore orders the two threads, so every    *)
(* load and store of shared memory is a step of its own.                   *)
(*                                                                         *)
(* Memory.  alloc is the set of nodes malloc handed out and nobody freed;  *)
(* malloc may hand out an address that was freed before.  stqh_first is    *)
(* next[QHead], so &stqh_first and &node->stqe_next are both named by the  *)
(* cell whose next field they point to.  qdiv is a plain variable written  *)
(* by the worker and read by main (a data race): on x86-64 the store may   *)
(* sit in the worker's store buffer, so main reads qdivMem, which follows  *)
(* qdiv with any delay up to the worker's next locked instruction.         *)
(***************************************************************************)
EXTENDS QueueHistory

CONSTANTS
  QHead,        \* the queue header, whose next field is stqh_first
  Garbage       \* the uninitialized val of the dummy node

ASSUME ConstAssumption ==
  /\ NULL \notin Node \cup Val
  /\ QHead \notin Node \cup {NULL}
  /\ Garbage \notin Val \cup {NULL}
  /\ Node # {}
  /\ MaxIn \in Nat

VARIABLES
  alloc, next, val,       \* the heap: live nodes and their two fields
  stqh_last,              \* the cell whose next field is the end of the list
  qdiv, qdivMem,          \* the divider as the worker and as main see it
  sem,                    \* the worker's semaphore
  mainPc, np, tnp,        \* main: control point, new node, node to trim
  workPc, lp,             \* worker: control point, the stqh_last it loaded
  log, ntrim              \* history: nodes linked so far, how many of them
                          \* were unlinked

heap == <<alloc, next, val>>
main == <<mainPc, np, tnp>>
work == <<workPc, lp>>
hist == <<log, ntrim, in, out>>
vars == <<heap, stqh_last, qdiv, qdivMem, sem, main, work, hist>>

Cell == Node \cup {QHead}

(* stailq_new_lf_spsc: header, divider and tail all stand at one dummy node. *)
Init ==
  \E d \in Node :
    /\ alloc = {d}
    /\ next = [c \in Cell |-> IF c = QHead THEN d ELSE NULL]
    /\ val = [n \in Node |-> Garbage]
    /\ stqh_last = d
    /\ qdiv = d /\ qdivMem = d
    /\ sem = 0
    /\ mainPc = "idle" /\ np = d /\ tnp = d
    /\ workPc = "wait" /\ lp = d
    /\ log = <<d>> /\ ntrim = 0 /\ in = <<>> /\ out = <<>>

-----------------------------------------------------------------------------
(* The main thread: stailq_in_lf_spsc, then sem_post.                      *)

(* np = malloc; np->val = v; np->next = NULL: the node is still private. *)
NewNode(v) ==
  /\ mainPc = "idle" /\ Len(in) < MaxIn
  /\ \E n \in Node \ alloc :
       /\ alloc' = alloc \cup {n}
       /\ val' = [val EXCEPT ![n] = v]
       /\ next' = [next EXCEPT ![n] = NULL]
       /\ np' = n
  /\ mainPc' = "link"
  /\ UNCHANGED <<stqh_last, qdiv, qdivMem, sem, tnp, work, hist>>

(* *(p)->stqh_last = np *)
LinkNode ==
  /\ mainPc = "link"
  /\ next' = [next EXCEPT ![stqh_last] = np]
  /\ mainPc' = "last"
  /\ log' = Append(log, np) /\ in' = Append(in, val[np])
  /\ UNCHANGED <<alloc, val, stqh_last, qdiv, qdivMem, sem, np, tnp, work, ntrim, out>>

(* (p)->stqh_last = &np->next *)
SetLast ==
  /\ mainPc = "last"
  /\ stqh_last' = np
  /\ mainPc' = "trim"
  /\ UNCHANGED <<heap, qdiv, qdivMem, sem, np, tnp, work, hist>>

(* Mutant: trims up to the tail instead of the divider. *)
TrimTestToTail ==
  /\ mainPc = "trim"
  /\ tnp' = next[QHead]
  /\ mainPc' = IF next[QHead] # stqh_last THEN "remove" ELSE "post"
  /\ UNCHANGED <<heap, stqh_last, qdiv, qdivMem, sem, np, work, hist>>

(* stailq_trim_lf_spsc: (tnp = STAILQ_FIRST(p)) != (d) *)
TrimTest ==
  /\ mainPc = "trim"
  /\ tnp' = next[QHead]
  /\ mainPc' = IF next[QHead] # qdivMem THEN "remove" ELSE "post"
  /\ UNCHANGED <<heap, stqh_last, qdiv, qdivMem, sem, np, work, hist>>

(* STAILQ_REMOVE_HEAD, which resets stqh_last if the list became empty. *)
TrimRemove ==
  /\ mainPc = "remove"
  /\ next' = [next EXCEPT ![QHead] = next[next[QHead]]]
  /\ stqh_last' = IF next[next[QHead]] = NULL THEN QHead ELSE stqh_last
  /\ mainPc' = "free"
  /\ ntrim' = ntrim + 1
  /\ UNCHANGED <<alloc, val, qdiv, qdivMem, sem, np, tnp, work, log, in, out>>

(* Mutant: unlinks without freeing. *)
TrimFreeForgotten ==
  /\ mainPc = "free"
  /\ mainPc' = "trim"
  /\ UNCHANGED <<heap, stqh_last, qdiv, qdivMem, sem, np, tnp, work, hist>>

(* DO_FREE(tnp), and around the loop again. *)
TrimFree ==
  /\ mainPc = "free"
  /\ alloc' = alloc \ {tnp}
  /\ mainPc' = "trim"
  /\ UNCHANGED <<next, val, stqh_last, qdiv, qdivMem, sem, np, tnp, work, hist>>

(* Mutant: a binary semaphore, which forgets a post while one is pending. *)
SemPostBinary ==
  /\ mainPc = "post"
  /\ sem' = 1
  /\ mainPc' = "idle"
  /\ UNCHANGED <<heap, stqh_last, qdiv, qdivMem, np, tnp, work, hist>>

(* sem_post(&sys->sem[x]) *)
SemPost ==
  /\ mainPc = "post"
  /\ sem' = sem + 1
  /\ mainPc' = "idle"
  /\ UNCHANGED <<heap, stqh_last, qdiv, qdivMem, np, tnp, work, hist>>

MainStep == LinkNode \/ SetLast \/ TrimTest \/ TrimRemove \/ TrimFree \/ SemPost

-----------------------------------------------------------------------------
(* The worker: sem_wait, then stailq_out_lf_spsc.                          *)

(* Mutant: waits for the token but does not use it up. *)
SemWaitSticky ==
  /\ workPc = "wait" /\ sem > 0
  /\ qdivMem' = qdiv
  /\ workPc' = "load"
  /\ UNCHANGED <<heap, sem, stqh_last, qdiv, main, lp, hist>>

(* sem_wait takes a token with a locked instruction, which drains the      *)
(* store buffer.                                                           *)
SemWait ==
  /\ workPc = "wait" /\ sem > 0
  /\ sem' = sem - 1
  /\ qdivMem' = qdiv
  /\ workPc' = "load"
  /\ UNCHANGED <<heap, stqh_last, qdiv, main, lp, hist>>

(* stailq_empty_lf_spsc, first load: (p)->stqh_last *)
LoadLast ==
  /\ workPc = "load"
  /\ lp' = stqh_last
  /\ workPc' = "test"
  /\ UNCHANGED <<heap, stqh_last, qdiv, qdivMem, sem, main, hist>>

(* stailq_empty_lf_spsc: (d) == *lp; if so the worker reports an empty     *)
(* queue and goes back to sem_wait with nothing.                           *)
SeesEmpty == qdiv = next[lp]

TestEmpty ==
  /\ workPc = "test"
  /\ workPc' = IF SeesEmpty THEN "wait" ELSE "advance"
  /\ UNCHANGED <<heap, stqh_last, qdiv, qdivMem, sem, main, lp, hist>>

(* Mutant: jumps to the last node. *)
AdvanceToTail ==
  /\ workPc = "advance"
  /\ qdiv' = lp
  /\ workPc' = "value"
  /\ UNCHANGED <<heap, stqh_last, qdivMem, sem, main, lp, hist>>

(* (d) = STAILQ_NEXT(d): the store is buffered, qdivMem keeps its value. *)
Advance ==
  /\ workPc = "advance"
  /\ qdiv' = next[qdiv]
  /\ workPc' = "value"
  /\ UNCHANGED <<heap, stqh_last, qdivMem, sem, main, lp, hist>>

(* (v) = (d)->val: the hook is out of the queue. *)
ReadValue ==
  /\ workPc = "value"
  /\ out' = Append(out, val[qdiv])
  /\ workPc' = "wait"
  /\ UNCHANGED <<heap, stqh_last, qdiv, qdivMem, sem, main, lp, log, ntrim, in>>

(* The store to qdiv leaves the worker's store buffer. *)
DrainDivider ==
  /\ qdivMem # qdiv
  /\ qdivMem' = qdiv
  /\ UNCHANGED <<heap, stqh_last, qdiv, sem, main, work, hist>>

WorkerStep == SemWait \/ LoadLast \/ TestEmpty \/ Advance \/ ReadValue \/ DrainDivider

Next == (\E v \in Val : NewNode(v)) \/ MainStep \/ WorkerStep

Safety == Init /\ [][Next]_vars

(* Both threads run; main starts another insertion only if an event asks for it. *)
Spec == Safety /\ WF_vars(MainStep) /\ WF_vars(WorkerStep)

-----------------------------------------------------------------------------
TypeOK ==
  /\ alloc \subseteq Node
  /\ next \in [Cell -> Node \cup {NULL}]
  /\ val \in [Node -> Val \cup {Garbage}]
  /\ stqh_last \in Cell
  /\ qdiv \in Node /\ qdivMem \in Node
  /\ sem \in Nat
  /\ mainPc \in {"idle", "link", "last", "trim", "remove", "free", "post"}
  /\ np \in Node /\ tnp \in Node
  /\ workPc \in {"wait", "load", "test", "advance", "value"}
  /\ lp \in Cell
  /\ log \in Seq(Node) /\ ntrim \in Nat
  /\ in \in Seq(Val) /\ out \in Seq(Val)

(* The nodes whose memory the next step of main, of the worker, touches. *)
MainTouches ==
  CASE mainPc = "link" -> {stqh_last} \ {QHead}
    [] mainPc = "remove" -> {next[QHead]}
    [] mainPc = "free" -> {tnp}
    [] OTHER -> {}

WorkerTouches ==
  CASE workPc = "test" -> {lp} \ {QHead}
    [] workPc \in {"advance", "value"} -> {qdiv}
    [] OTHER -> {}

(* main.h:199-208: main frees nodes while the worker walks the list with   *)
(* no lock.  Neither thread ever reads, writes or frees a node that is not *)
(* allocated, not even through an address that was freed and reused.       *)
NoUseAfterFree == MainTouches \cup WorkerTouches \subseteq alloc

(* main.c:465-466: a worker that was woken by the semaphore always finds a *)
(* hook: there is a node after the divider, and the test does not take the *)
(* queue for empty ("Q Empty, even though we were alerted!").  The test    *)
(* itself is no protection: *stqh_last is NULL on a list at rest, so only  *)
(* the count of the semaphore keeps the worker off the end of the list.    *)
NeverAlertedForNothing ==
  workPc = "test" => next[qdiv] # NULL /\ ~SeesEmpty

(* main.h:205: trimming keeps pace.  Between two insertions the nodes in   *)
(* memory are the ones still waiting, the divider's node and the ones the  *)
(* worker passed since main last looked: main holds on to no other.        *)
NoNodeLeaked ==
  mainPc = "idle" => alloc = {log[i] : i \in (ntrim + 1)..Len(log)}

-----------------------------------------------------------------------------
(* The inductive invariant behind these properties.  Positions are indices *)
(* of log; the nodes at positions ntrim+1..Len(log) form the linked list.  *)

Listed == (ntrim + 1)..Len(log)
Live == {log[i] : i \in Listed}
DivPos == Len(out) + (IF workPc = "value" THEN 2 ELSE 1)
DivMemPos == IF qdivMem = qdiv THEN DivPos ELSE DivPos - 1
Unposted == IF mainPc \in {"last", "trim", "remove", "free", "post"} THEN 1 ELSE 0
Claimed == IF workPc = "wait" THEN 0 ELSE 1

(* Every post stands for one linked hook; the worker holds a token from    *)
(* sem_wait until the hook is out.                                         *)
TokensMatchHooks == Len(in) = sem + Len(out) + Claimed + Unposted

(* The list is the tail of log, each node once, NULL-terminated. *)
ListShape ==
  /\ Len(log) = Len(in) + 1 /\ ntrim < Len(log)
  /\ \A i, j \in Listed : log[i] = log[j] => i = j
  /\ next[QHead] = log[ntrim + 1]
  /\ \A i \in Listed : next[log[i]] = IF i = Len(log) THEN NULL ELSE log[i + 1]
  /\ \A i \in Listed : i > 1 => val[log[i]] = in[i - 1]

(* The divider, as each thread sees it, stands in the list. *)
Divider ==
  /\ qdiv = log[DivPos] /\ qdivMem = log[DivMemPos]
  /\ ntrim < DivMemPos
  /\ workPc \in {"load", "test", "advance"} => qdivMem = qdiv

(* Main's private variables. *)
MainState ==
  /\ alloc = Live \cup (IF mainPc = "link" THEN {np} ELSE {})
                   \cup (IF mainPc = "free" THEN {tnp} ELSE {})
  /\ stqh_last = IF mainPc = "last" THEN log[Len(log) - 1] ELSE log[Len(log)]
  /\ mainPc = "link" => np \notin Live /\ next[np] = NULL /\ val[np] \in Val
  /\ mainPc = "last" => np = log[Len(log)]
  /\ mainPc = "remove" => ntrim + 1 < DivMemPos /\ tnp = log[ntrim + 1]
  /\ mainPc = "free" => tnp \notin Live

(* The tail a worker loaded is not behind the divider. *)
LoadedTail == workPc = "test" => \E j \in DivPos..Len(log) : lp = log[j]

IndInv ==
  /\ TypeOK
  /\ TokensMatchHooks
  /\ ListShape
  /\ Divider
  /\ MainState
  /\ LoadedTail
  /\ FifoOrder
=============================================================================
