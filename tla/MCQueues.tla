------------------------------ MODULE MCQueues ------------------------------
(***************************************************************************)
(* SpscQueue and Lfq for TLC, the queue of the workers and the one it      *)
(* replaced.  In every behaviour one of the two runs, which says which;    *)
(* the other stays empty.  Both keep their history in in and out.          *)
(***************************************************************************)
EXTENDS SpscQueue, Lfq, TLC

VARIABLE which

spscOnly == <<heap, stqh_last, qdiv, qdivMem, sem, main, work, log, ntrim>>
lfqOnly == <<lfqHeap, queue, ppc, tmp, cpc, result, llog, lntrim, wild>>
allVars == <<which, spscOnly, lfqOnly, in, out>>

\* Both dummy nodes have the same address; the heaps are separate.
MCInit == which \in {"spsc", "lfq"} /\ Init /\ LfqInit /\ lalloc = alloc

InSpsc(A) == which = "spsc" /\ A /\ UNCHANGED <<which, lfqOnly>>
InLfq(A) == which = "lfq" /\ A /\ UNCHANGED <<which, spscOnly>>

MCSpec ==
  /\ MCInit /\ [][InSpsc(Next) \/ InLfq(LfqNext)]_allVars
  /\ WF_allVars(InSpsc(MainStep)) /\ WF_allVars(InSpsc(WorkerStep))
  /\ WF_allVars(InLfq(Producer)) /\ WF_allVars(InLfq(Consumer))
=============================================================================
