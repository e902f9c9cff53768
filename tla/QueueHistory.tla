---------------------------- MODULE QueueHistory ----------------------------
(***************************************************************************)
(* What the two lock-free queues, stailq_*_lf_spsc (main.h) and lfq.c,     *)
(* have in common: nodes that malloc returns, and the history of what was  *)
(* put in and taken out, by which each is shown to be a Fifo.              *)
(***************************************************************************)
EXTENDS Naturals, Sequences

CONSTANTS
  Node,         \* addresses malloc can return for a node
  Val,          \* what is queued: main's hooks
  NULL,
  MaxIn         \* bound: how many values are put in

VARIABLES in, out       \* history: values put in, values taken out

(* main.h:206, 208: the worker takes the hooks in the order main queued    *)
(* them, each exactly once, and never the dummy node's uninitialized       *)
(* value; and so does lfq_out what lfq_in was given (lfq.c:54-85).         *)
FifoOrder ==
  /\ Len(out) <= Len(in)
  /\ \A i \in 1..Len(out) : out[i] = in[i]

(* main.c:358-380, 460-490: seen from ayubd_run and ayubd_worker the list  *)
(* and its semaphore are a FIFO queue, and every hook that was queued is   *)
(* taken in the end.  The same of lfq, where "no locking is used"          *)
(* (lfq.c:8).                                                              *)
Abstract == INSTANCE Fifo WITH put <- in, taken <- out
ImplementsFifo == Abstract!Spec
ImplementsFifoSafety == Abstract!Safety
=============================================================================
