-------------------------------- MODULE Fifo --------------------------------
(***************************************************************************)
(* What a worker's queue promises to ayubd_run and ayubd_worker: the hooks *)
(* one thread puts in are the hooks the other takes out, each once and in  *)
(* the order they were put in.  The queue is kept whole (put) and read at  *)
(* the position after what was taken.                                      *)
(***************************************************************************)
EXTENDS Naturals, Sequences

CONSTANT Val    \* what is queued: the hooks main hands to a worker

VARIABLES
  put,          \* everything put in, oldest first
  taken         \* everything taken out, oldest first

vars == <<put, taken>>

Init == put = <<>> /\ taken = <<>>

Put(v) == put' = Append(put, v) /\ UNCHANGED taken

Take ==
  /\ Len(taken) < Len(put)
  /\ taken' = Append(taken, put[Len(taken) + 1])
  /\ UNCHANGED put

Next == (\E v \in Val : Put(v)) \/ Take

Safety == Init /\ [][Next]_vars

(* A queue whose consumer keeps running hands out all it holds. *)
Spec == Safety /\ WF_vars(Take)
=============================================================================
