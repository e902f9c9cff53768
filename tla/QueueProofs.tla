---------------------------- MODULE QueueProofs -----------------------------
(***************************************************************************)
(* The two queues between threads are correct for any number of nodes and  *)
(* insertions.                                                             *)
(*                                                                         *)
(* SpscQueue: the inductive invariant IndInv holds of every reachable      *)
(* state, the safety properties follow from it, and every step of the      *)
(* linked list is a step of the abstract FIFO or leaves it alone.          *)
(*                                                                         *)
(* Lfq (lfq.c): no freed node is followed, no node is lost, and publishing *)
(* a node and advancing the divider are the steps of the abstract FIFO.    *)
(***************************************************************************)
EXTENDS SpscQueue, Lfq, Integers, TLAPS

-----------------------------------------------------------------------------
(* SpscQueue.                                                              *)

(* The queue as stailq_new_lf_spsc leaves it satisfies the invariant. *)
LEMMA InitIndInv == Init => IndInv
<1> SUFFICES ASSUME Init PROVE IndInv
  OBVIOUS
<1>1. PICK d \in Node :
        /\ alloc = {d}
        /\ next = [c \in Cell |-> IF c = QHead THEN d ELSE NULL]
        /\ val = [n \in Node |-> Garbage]
        /\ stqh_last = d
        /\ qdiv = d /\ qdivMem = d
        /\ sem = 0
        /\ mainPc = "idle" /\ np = d /\ tnp = d
        /\ workPc = "wait" /\ lp = d
        /\ log = <<d>> /\ ntrim = 0 /\ in = <<>> /\ out = <<>>
  BY DEF Init
<1>2. Len(log) = 1 /\ log[1] = d /\ Len(in) = 0 /\ Len(out) = 0
  BY <1>1
<1>3. Listed = {1} /\ Live = {d}
  BY <1>1, <1>2 DEF Listed, Live
<1>4. TypeOK
  BY <1>1, ConstAssumption DEF TypeOK, Cell
<1>5. TokensMatchHooks
  BY <1>1, <1>2 DEF TokensMatchHooks, Claimed, Unposted
<1>6. ListShape
  BY <1>1, <1>2, <1>3, ConstAssumption DEF ListShape, Cell
<1>7. Divider
  BY <1>1, <1>2 DEF Divider, DivPos, DivMemPos
<1>8. MainState
  BY <1>1, <1>2, <1>3 DEF MainState
<1>9. LoadedTail /\ FifoOrder
  BY <1>1, <1>2 DEF LoadedTail, FifoOrder
<1> QED
  BY <1>4, <1>5, <1>6, <1>7, <1>8, <1>9 DEF IndInv

(* np = malloc, np->val, np->next: the new node is in nobody's list. *)
LEMMA NewNodeInd ==
  ASSUME IndInv, NEW v \in Val, NewNode(v) PROVE IndInv'
<1> USE DEF IndInv
<1>1. PICK n \in Node \ alloc :
        /\ alloc' = alloc \cup {n}
        /\ val' = [val EXCEPT ![n] = v]
        /\ next' = [next EXCEPT ![n] = NULL]
        /\ np' = n
  BY DEF NewNode
<1>2. /\ mainPc = "idle" /\ mainPc' = "link"
      /\ UNCHANGED <<stqh_last, qdiv, qdivMem, sem, tnp, workPc, lp, log, ntrim, in, out>>
  BY DEF NewNode, work, hist
<1>3. alloc = Live /\ n \notin Live /\ n # QHead
  BY <1>1, <1>2, ConstAssumption DEF MainState
<1>4. UNCHANGED <<Listed, Live, DivPos, DivMemPos, Claimed, Unposted>>
  BY <1>2 DEF Listed, Live, DivPos, DivMemPos, Claimed, Unposted
<1>5. TypeOK'
  BY <1>1, <1>2 DEF TypeOK, Cell
<1>6. \A i \in Listed : log[i] \in Live /\ log[i] # n /\ log[i] \in Node
  BY <1>3 DEF Live, Listed, TypeOK
<1>7. ListShape'
  <2>1. \A i \in Listed : next'[log[i]] = next[log[i]] /\ val'[log[i]] = val[log[i]]
    BY <1>1, <1>6 DEF TypeOK, Cell
  <2>2. next'[QHead] = next[QHead]
    BY <1>1, <1>3 DEF TypeOK, Cell
  <2> QED
    BY <1>2, <1>4, <2>1, <2>2 DEF ListShape
<1>8. MainState'
  <2>1. next'[n] = NULL /\ val'[n] = v
    BY <1>1 DEF TypeOK, Cell
  <2> QED
    BY <1>1, <1>2, <1>3, <1>4, <2>1 DEF MainState
<1>9. TokensMatchHooks' /\ Divider' /\ LoadedTail' /\ FifoOrder'
  BY <1>2, <1>4 DEF TokensMatchHooks, Divider, LoadedTail, FifoOrder
<1> QED
  BY <1>5, <1>7, <1>8, <1>9

(* *(p)->stqh_last = np: the list grows by one node at the end. *)
LEMMA LinkNodeInd ==
  ASSUME IndInv, LinkNode PROVE IndInv'
<1> USE DEF IndInv
<1> DEFINE L == Len(log)
<1>1. /\ mainPc = "link" /\ mainPc' = "last"
      /\ next' = [next EXCEPT ![stqh_last] = np]
      /\ log' = Append(log, np) /\ in' = Append(in, val[np])
      /\ UNCHANGED <<alloc, val, stqh_last, qdiv, qdivMem, sem, np, tnp, workPc, lp, ntrim, out>>
  BY DEF LinkNode, work
<1>2. /\ L \in Nat /\ Len(in) \in Nat /\ Len(out) \in Nat /\ ntrim \in Nat
      /\ L = Len(in) + 1 /\ ntrim < L
  BY DEF TypeOK, ListShape
<1>3. /\ Len(log') = L + 1 /\ log'[L + 1] = np
      /\ \A i \in 1..L : log'[i] = log[i]
  BY <1>1, <1>2 DEF TypeOK
<1>4. /\ Len(in') = Len(in) + 1 /\ in'[L] = val[np]
      /\ \A i \in 1..Len(in) : in'[i] = in[i]
  BY <1>1, <1>2 DEF TypeOK
<1>5. stqh_last = log[L] /\ np \notin Live /\ next[np] = NULL /\ val[np] \in Val
  BY <1>1 DEF MainState
<1>6. /\ Listed' = Listed \cup {L + 1} /\ Listed \subseteq 1..L
      /\ L \in Listed /\ L + 1 \notin Listed
  BY <1>1, <1>2, <1>3 DEF Listed
<1>7. \A i \in Listed : log'[i] = log[i] /\ log[i] \in Live /\ log[i] # np /\ log[i] \in Node
  BY <1>3, <1>5, <1>6 DEF Live, TypeOK
<1>8. Live' = Live \cup {np}
  BY <1>3, <1>6, <1>7 DEF Live
<1>9. TypeOK'
  BY <1>1, <1>5 DEF TypeOK, Cell
<1>10. DivPos' = DivPos /\ DivMemPos' = DivMemPos /\ Claimed' = Claimed
  BY <1>1 DEF DivPos, DivMemPos, Claimed
<1>11. Unposted = 0 /\ Unposted' = 1 /\ Claimed \in {0, 1}
  BY <1>1 DEF Unposted, Claimed
<1>12. TokensMatchHooks'
  BY <1>1, <1>2, <1>4, <1>10, <1>11 DEF TokensMatchHooks, TypeOK
<1>13. ListShape'
  <2>1. \A i \in Listed : next'[log[i]] = IF i = L THEN np ELSE next[log[i]]
    BY <1>1, <1>5, <1>6, <1>7 DEF ListShape, TypeOK, Cell
  <2>2. next'[np] = NULL
    BY <1>1, <1>5, <1>6, <1>7 DEF TypeOK, Cell
  <2>3. next'[QHead] = next[QHead]
    BY <1>1, <1>5, <1>6, <1>7, ConstAssumption DEF TypeOK, Cell
  <2>4. \A i, j \in Listed' : log'[i] = log'[j] => i = j
    <3> SUFFICES ASSUME NEW i \in Listed', NEW j \in Listed', log'[i] = log'[j]
                 PROVE  i = j
      OBVIOUS
    <3>1. CASE i \in Listed /\ j \in Listed
      BY <3>1, <1>7 DEF ListShape
    <3>2. CASE i = L + 1 \/ j = L + 1
      BY <3>2, <1>3, <1>6, <1>7
    <3> QED
      BY <3>1, <3>2, <1>6
  <2>5. next'[QHead] = log'[ntrim' + 1]
    BY <1>1, <1>2, <1>3, <2>3 DEF ListShape
  <2>6. \A i \in Listed' : next'[log'[i]] = IF i = Len(log') THEN NULL ELSE log'[i + 1]
    <3> SUFFICES ASSUME NEW i \in Listed'
                 PROVE  next'[log'[i]] = IF i = Len(log') THEN NULL ELSE log'[i + 1]
      OBVIOUS
    <3>1. CASE i = L + 1
      BY <3>1, <1>3, <2>2
    <3>2. CASE i = L
      BY <3>2, <1>2, <1>3, <1>6, <1>7, <2>1
    <3>3. CASE i \in Listed /\ i # L
      <4>1. i + 1 \in 1..L /\ i # L + 1
        BY <3>3, <1>2, <1>6
      <4>2. next[log[i]] = log[i + 1]
        BY <3>3 DEF ListShape
      <4> QED
        BY <3>3, <4>1, <4>2, <1>3, <1>7, <2>1
    <3> QED
      BY <3>1, <3>2, <3>3, <1>6
  <2>7. \A i \in Listed' : i > 1 => val'[log'[i]] = in'[i - 1]
    BY <1>1, <1>2, <1>3, <1>4, <1>6, <1>7 DEF ListShape
  <2> QED
    <3>1. Len(log') = Len(in') + 1 /\ ntrim' < Len(log')
      BY <1>1, <1>2, <1>3, <1>4
    <3> QED
      BY <3>1, <2>4, <2>5, <2>6, <2>7 DEF ListShape
<1>14. DivPos \in 1..L /\ DivMemPos \in 1..L
  BY <1>1, <1>2 DEF TokensMatchHooks, DivPos, DivMemPos, Claimed, Divider, TypeOK, Unposted
<1>15. Divider'
  BY <1>1, <1>3, <1>10, <1>14 DEF Divider
<1>16. MainState'
  BY <1>1, <1>2, <1>3, <1>5, <1>8 DEF MainState
<1>17. LoadedTail'
  BY <1>1, <1>2, <1>3, <1>10, <1>14 DEF LoadedTail
<1>18. FifoOrder'
  BY <1>1, <1>2, <1>4 DEF FifoOrder
<1> QED
  BY <1>9, <1>12, <1>13, <1>15, <1>16, <1>17, <1>18

(* The steps that leave the list, the divider and the counts alone: moving *)
(* stqh_last to the new node, and testing the head against the divider.    *)
LEMMA SetLastInd ==
  ASSUME IndInv, SetLast PROVE IndInv'
<1> USE DEF IndInv
<1>1. /\ mainPc = "last" /\ mainPc' = "trim" /\ stqh_last' = np
      /\ UNCHANGED <<alloc, next, val, qdiv, qdivMem, sem, np, tnp, workPc, lp,
                     log, ntrim, in, out>>
  BY DEF SetLast, heap, work, hist
<1>2. UNCHANGED <<Listed, Live, DivPos, DivMemPos, Claimed, Unposted>>
  BY <1>1 DEF Listed, Live, DivPos, DivMemPos, Claimed, Unposted
<1>3. TypeOK'
  BY <1>1 DEF TypeOK, Cell
<1>4. MainState'
  BY <1>1, <1>2 DEF MainState
<1>5. TokensMatchHooks' /\ ListShape' /\ Divider' /\ LoadedTail' /\ FifoOrder'
  BY <1>1, <1>2 DEF TokensMatchHooks, ListShape, Divider, LoadedTail, FifoOrder
<1> QED
  BY <1>3, <1>4, <1>5

LEMMA TrimTestInd ==
  ASSUME IndInv, TrimTest PROVE IndInv'
<1> USE DEF IndInv
<1>1. /\ mainPc = "trim" /\ tnp' = next[QHead]
      /\ mainPc' = IF next[QHead] # qdivMem THEN "remove" ELSE "post"
      /\ UNCHANGED <<alloc, next, val, stqh_last, qdiv, qdivMem, sem, np, workPc, lp,
                     log, ntrim, in, out>>
  BY DEF TrimTest, heap, work, hist
<1>2. UNCHANGED <<Listed, Live, DivPos, DivMemPos, Claimed>> /\ Unposted' = Unposted
  BY <1>1 DEF Listed, Live, DivPos, DivMemPos, Claimed, Unposted
<1>3. next[QHead] = log[ntrim + 1] /\ log[ntrim + 1] \in Node
  BY DEF ListShape, TypeOK
<1>4. TypeOK'
  BY <1>1, <1>3 DEF TypeOK
<1>5. MainState'
  <2>1. mainPc' = "remove" => ntrim + 1 < DivMemPos
    BY <1>1, <1>3 DEF Divider, TypeOK, DivMemPos, DivPos
  <2> QED
    BY <1>1, <1>2, <1>3, <2>1 DEF MainState
<1>6. TokensMatchHooks' /\ ListShape' /\ Divider' /\ LoadedTail' /\ FifoOrder'
  BY <1>1, <1>2 DEF TokensMatchHooks, ListShape, Divider, LoadedTail, FifoOrder
<1> QED
  BY <1>4, <1>5, <1>6

(* STAILQ_REMOVE_HEAD: the head is in front of the divider, so the list    *)
(* never becomes empty and stqh_last is not reset.                         *)
LEMMA TrimRemoveInd ==
  ASSUME IndInv, TrimRemove PROVE IndInv'
<1> USE DEF IndInv
<1> DEFINE L == Len(log)
<1>1. /\ mainPc = "remove" /\ mainPc' = "free"
      /\ next' = [next EXCEPT ![QHead] = next[next[QHead]]]
      /\ stqh_last' = IF next[next[QHead]] = NULL THEN QHead ELSE stqh_last
      /\ ntrim' = ntrim + 1
      /\ UNCHANGED <<alloc, val, qdiv, qdivMem, sem, np, tnp, workPc, lp, log, in, out>>
  BY DEF TrimRemove, work
<1>2. /\ L \in Nat /\ Len(in) \in Nat /\ Len(out) \in Nat /\ ntrim \in Nat
      /\ L = Len(in) + 1
  BY DEF TypeOK, ListShape
<1>3. ntrim + 1 < DivMemPos /\ DivMemPos <= DivPos /\ DivPos <= L /\ tnp = log[ntrim + 1]
  BY <1>1, <1>2 DEF MainState, DivMemPos, DivPos, TokensMatchHooks, Claimed, Unposted, TypeOK
<1>4. ntrim + 2 \in Listed /\ ntrim + 1 \in Listed /\ DivMemPos \in Int /\ DivPos \in Int
  BY <1>2, <1>3 DEF Listed, DivMemPos, DivPos
<1>5. \A i \in Listed : log[i] \in Node /\ log[i] # QHead
  BY <1>2, ConstAssumption DEF Listed, TypeOK
<1>6. next[next[QHead]] = log[ntrim + 2] /\ log[ntrim + 2] # NULL
  <2>1. next[QHead] = log[ntrim + 1] /\ ntrim + 1 # L /\ (ntrim + 1) + 1 = ntrim + 2
    BY <1>2, <1>3, <1>4 DEF ListShape
  <2>2. next[log[ntrim + 1]] = log[ntrim + 2]
    BY <1>4, <2>1 DEF ListShape
  <2> QED
    BY <1>4, <1>5, <2>1, <2>2, ConstAssumption
<1>7. stqh_last' = stqh_last
  BY <1>1, <1>6
<1>8. Listed' = Listed \ {ntrim + 1} /\ Listed' \subseteq Listed
  BY <1>1, <1>2 DEF Listed
<1>9. Live' = Live \ {tnp} /\ tnp \in Live
  <2>1. tnp \in Live
    BY <1>3, <1>4 DEF Live
  <2>2. \A i \in Listed' : log[i] # tnp
    BY <1>3, <1>4, <1>8 DEF ListShape
  <2>3. Live' = {log[i] : i \in Listed'}
    BY <1>1 DEF Live
  <2>4. Live = {log[i] : i \in Listed' \cup {ntrim + 1}}
    BY <1>4, <1>8 DEF Live
  <2> QED
    BY <1>3, <2>1, <2>2, <2>3, <2>4
<1>10. TypeOK'
  BY <1>1, <1>4, <1>5, <1>6, <1>7 DEF TypeOK, Cell
<1>11. UNCHANGED <<DivPos, DivMemPos, Claimed>> /\ Unposted' = Unposted
  BY <1>1 DEF DivPos, DivMemPos, Claimed, Unposted
<1>12. TokensMatchHooks' /\ FifoOrder' /\ LoadedTail'
  BY <1>1, <1>11 DEF TokensMatchHooks, FifoOrder, LoadedTail
<1>13. ListShape'
  <2>1. next'[QHead] = log[ntrim + 2]
    BY <1>1, <1>6 DEF TypeOK, Cell
  <2>2. \A i \in Listed : next'[log[i]] = next[log[i]]
    BY <1>1, <1>5 DEF TypeOK, Cell
  <2>3. ntrim' < Len(log') /\ ntrim' + 1 = ntrim + 2
    BY <1>1, <1>2, <1>3, <1>4
  <2> QED
    BY <1>1, <1>2, <1>8, <2>1, <2>2, <2>3 DEF ListShape
<1>14. Divider'
  BY <1>1, <1>2, <1>3, <1>4, <1>11 DEF Divider
<1>15. MainState'
  BY <1>1, <1>7, <1>9 DEF MainState
<1> QED
  BY <1>10, <1>12, <1>13, <1>14, <1>15

(* DO_FREE(tnp): the node was unlinked, so no list position loses it. *)
LEMMA TrimFreeInd ==
  ASSUME IndInv, TrimFree PROVE IndInv'
<1> USE DEF IndInv
<1>1. /\ mainPc = "free" /\ mainPc' = "trim" /\ alloc' = alloc \ {tnp}
      /\ UNCHANGED <<next, val, stqh_last, qdiv, qdivMem, sem, np, tnp, workPc, lp,
                     log, ntrim, in, out>>
  BY DEF TrimFree, work, hist
<1>2. UNCHANGED <<Listed, Live, DivPos, DivMemPos, Claimed>> /\ Unposted' = Unposted
  BY <1>1 DEF Listed, Live, DivPos, DivMemPos, Claimed, Unposted
<1>3. TypeOK'
  BY <1>1 DEF TypeOK
<1>4. MainState'
  BY <1>1, <1>2 DEF MainState
<1>5. TokensMatchHooks' /\ ListShape' /\ Divider' /\ LoadedTail' /\ FifoOrder'
  BY <1>1, <1>2 DEF TokensMatchHooks, ListShape, Divider, LoadedTail, FifoOrder
<1> QED
  BY <1>3, <1>4, <1>5

(* sem_post: the hook linked last now has its token. *)
LEMMA SemPostInd ==
  ASSUME IndInv, SemPost PROVE IndInv'
<1> USE DEF IndInv
<1>1. /\ mainPc = "post" /\ mainPc' = "idle" /\ sem' = sem + 1
      /\ UNCHANGED <<alloc, next, val, stqh_last, qdiv, qdivMem, np, tnp, workPc, lp,
                     log, ntrim, in, out>>
  BY DEF SemPost, heap, work, hist
<1>2. UNCHANGED <<Listed, Live, DivPos, DivMemPos, Claimed>> /\ Unposted = 1 /\ Unposted' = 0
  BY <1>1 DEF Listed, Live, DivPos, DivMemPos, Claimed, Unposted
<1>3. TypeOK'
  BY <1>1 DEF TypeOK
<1>4. TokensMatchHooks'
  BY <1>1, <1>2 DEF TokensMatchHooks, TypeOK, Claimed
<1>5. MainState'
  BY <1>1, <1>2 DEF MainState
<1>6. ListShape' /\ Divider' /\ LoadedTail' /\ FifoOrder'
  BY <1>1, <1>2 DEF ListShape, Divider, LoadedTail, FifoOrder
<1> QED
  BY <1>3, <1>4, <1>5, <1>6

(* Where the worker's divider can be: never past the last linked node, and *)
(* once it holds a token, with at least one posted node still ahead.       *)
LEMMA DividerRange ==
  ASSUME IndInv
  PROVE  /\ DivPos \in Listed /\ DivMemPos \in Listed
         /\ workPc \in {"load", "test", "advance"} => DivPos + Unposted < Len(log)
<1> USE DEF IndInv
<1>1. /\ Len(log) = Len(in) + 1 /\ Len(log) \in Nat /\ Len(in) \in Nat /\ Len(out) \in Nat
      /\ sem \in Nat /\ ntrim \in Nat
  BY DEF TypeOK, ListShape
<1>2. Unposted \in {0, 1} /\ Claimed = IF workPc = "wait" THEN 0 ELSE 1
  BY DEF Unposted, Claimed
<1>3. ntrim < DivMemPos /\ DivMemPos <= DivPos
  BY <1>1 DEF Divider, DivMemPos, DivPos
<1>4. Len(in) = sem + Len(out) + Claimed + Unposted
  BY DEF TokensMatchHooks
<1> QED
  BY <1>1, <1>2, <1>3, <1>4 DEF Listed, DivPos, DivMemPos, TypeOK

(* sem_wait: a token is claimed, and the store buffer is empty. *)
LEMMA SemWaitInd ==
  ASSUME IndInv, SemWait PROVE IndInv'
<1> USE DEF IndInv
<1>1. /\ workPc = "wait" /\ workPc' = "load" /\ sem > 0 /\ sem' = sem - 1 /\ qdivMem' = qdiv
      /\ UNCHANGED <<alloc, next, val, stqh_last, qdiv, mainPc, np, tnp, lp,
                     log, ntrim, in, out>>
  BY DEF SemWait, heap, main, hist
<1>2. /\ UNCHANGED <<Listed, Live, DivPos, Unposted>>
      /\ Claimed = 0 /\ Claimed' = 1 /\ DivMemPos' = DivPos
  BY <1>1 DEF Listed, Live, DivPos, DivMemPos, Claimed, Unposted
<1>3. TypeOK'
  BY <1>1 DEF TypeOK
<1>4. TokensMatchHooks'
  BY <1>1, <1>2 DEF TokensMatchHooks, TypeOK, Unposted
<1>5. DivMemPos <= DivPos /\ DivMemPos \in Int /\ DivPos \in Int /\ ntrim \in Nat
  BY DEF DivMemPos, DivPos, TypeOK
<1>6. Divider'
  BY <1>1, <1>2, <1>5 DEF Divider
<1>7. MainState'
  BY <1>1, <1>2, <1>5 DEF MainState
<1>8. ListShape' /\ LoadedTail' /\ FifoOrder'
  BY <1>1, <1>2 DEF ListShape, LoadedTail, FifoOrder
<1> QED
  BY <1>3, <1>4, <1>6, <1>7, <1>8

(* Loading stqh_last: even while main is between the two stores of an      *)
(* insertion, the tail it finds is at or after the divider.                *)
LEMMA LoadLastInd ==
  ASSUME IndInv, LoadLast PROVE IndInv'
<1> USE DEF IndInv
<1>1. /\ workPc = "load" /\ workPc' = "test" /\ lp' = stqh_last
      /\ UNCHANGED <<alloc, next, val, stqh_last, qdiv, qdivMem, sem, mainPc, np, tnp,
                     log, ntrim, in, out>>
  BY DEF LoadLast, heap, main, hist
<1>2. UNCHANGED <<Listed, Live, DivPos, DivMemPos, Claimed, Unposted>>
  BY <1>1 DEF Listed, Live, DivPos, DivMemPos, Claimed, Unposted
<1>3. TypeOK'
  BY <1>1 DEF TypeOK
<1>4. LoadedTail'
  <2>1. /\ DivPos \in Listed /\ DivPos + Unposted < Len(log) /\ Len(log) \in Nat
        /\ ntrim \in Nat
    BY <1>1, DividerRange DEF TypeOK
  <2>2. CASE mainPc = "last"
    <3>1. stqh_last = log[Len(log) - 1] /\ Len(log) - 1 \in DivPos..Len(log)
      BY <2>1, <2>2 DEF MainState, Unposted, Listed
    <3> QED
      BY <3>1, <1>1, <1>2 DEF LoadedTail
  <2>3. CASE mainPc # "last"
    <3>1. stqh_last = log[Len(log)] /\ Len(log) \in DivPos..Len(log)
      BY <2>1, <2>3 DEF MainState, Unposted, Listed
    <3> QED
      BY <3>1, <1>1, <1>2 DEF LoadedTail
  <2> QED
    BY <2>2, <2>3
<1>5. TokensMatchHooks' /\ ListShape' /\ Divider' /\ MainState' /\ FifoOrder'
  BY <1>1, <1>2 DEF TokensMatchHooks, ListShape, Divider, MainState, FifoOrder
<1> QED
  BY <1>3, <1>4, <1>5

(* What follows the divider when the worker tests the queue. *)
LEMMA HookAhead ==
  ASSUME IndInv, workPc = "test" PROVE next[qdiv] # NULL /\ ~SeesEmpty
<1> USE DEF IndInv
<1>1. /\ DivPos \in Listed /\ DivPos < Len(log) /\ Len(log) \in Nat /\ ntrim \in Nat
      /\ DivPos + 1 \in Listed
  BY DividerRange DEF Unposted, Listed, TypeOK
<1>2. \A i \in Listed : log[i] \in Node /\ log[i] # NULL
  BY ConstAssumption DEF Listed, TypeOK
<1>3. next[qdiv] = log[DivPos + 1]
  BY <1>1 DEF ListShape, Divider
<1>4. PICK j \in DivPos..Len(log) : lp = log[j]
  BY DEF LoadedTail
<1>5. j \in Listed
  BY <1>1 DEF Listed
<1>6. CASE j = Len(log)
  BY <1>1, <1>2, <1>4, <1>5, <1>6 DEF ListShape, SeesEmpty, Divider
<1>7. CASE j # Len(log)
  <2>1. next[lp] = log[j + 1] /\ j + 1 \in Listed /\ j + 1 # DivPos
    BY <1>1, <1>4, <1>5, <1>7 DEF ListShape, Listed
  <2> QED
    BY <1>1, <1>2, <1>3, <2>1 DEF ListShape, SeesEmpty, Divider
<1> QED
  BY <1>2, <1>1, <1>3, <1>6, <1>7

LEMMA TestEmptyInd ==
  ASSUME IndInv, TestEmpty PROVE IndInv'
<1> USE DEF IndInv
<1>1. /\ workPc = "test" /\ workPc' = "advance"
      /\ UNCHANGED <<alloc, next, val, stqh_last, qdiv, qdivMem, sem, mainPc, np, tnp, lp,
                     log, ntrim, in, out>>
  BY HookAhead DEF TestEmpty, heap, main, hist
<1>2. UNCHANGED <<Listed, Live, DivPos, DivMemPos, Claimed, Unposted>>
  BY <1>1 DEF Listed, Live, DivPos, DivMemPos, Claimed, Unposted
<1>3. TypeOK'
  BY <1>1 DEF TypeOK
<1>4. TokensMatchHooks' /\ ListShape' /\ Divider' /\ MainState' /\ LoadedTail' /\ FifoOrder'
  BY <1>1, <1>2 DEF TokensMatchHooks, ListShape, Divider, MainState, LoadedTail, FifoOrder
<1> QED
  BY <1>3, <1>4

(* d = STAILQ_NEXT(d): one position forward, main still sees the old one. *)
LEMMA AdvanceInd ==
  ASSUME IndInv, Advance PROVE IndInv'
<1> USE DEF IndInv
<1>1. /\ workPc = "advance" /\ workPc' = "value" /\ qdiv' = next[qdiv]
      /\ UNCHANGED <<alloc, next, val, stqh_last, qdivMem, sem, mainPc, np, tnp, lp,
                     log, ntrim, in, out>>
  BY DEF Advance, heap, main, hist
<1>2. /\ DivPos \in Listed /\ DivPos < Len(log) /\ Len(log) \in Nat /\ ntrim \in Nat
      /\ DivPos + 1 \in Listed
  BY <1>1, DividerRange DEF Unposted, Listed, TypeOK
<1>3. UNCHANGED <<Listed, Live, Unposted, Claimed>> /\ DivPos' = DivPos + 1
  BY <1>1 DEF Listed, Live, DivPos, Claimed, Unposted, TypeOK
<1>4. qdiv' = log[DivPos + 1] /\ log[DivPos + 1] \in Node
  BY <1>1, <1>2 DEF ListShape, Divider, Listed, TypeOK
<1>5. qdivMem = qdiv /\ qdivMem = log[DivPos] /\ qdiv' # qdiv
  <2>1. DivPos # DivPos + 1
    BY <1>2 DEF Listed
  <2>2. log[DivPos] # log[DivPos + 1]
    BY <1>2, <2>1 DEF ListShape
  <2> QED
    BY <1>1, <1>4, <2>2 DEF Divider
<1>6. DivMemPos' = DivPos /\ DivMemPos = DivPos
  BY <1>1, <1>2, <1>3, <1>5 DEF DivMemPos, Listed
<1>7. TypeOK'
  BY <1>1, <1>4 DEF TypeOK
<1>8. Divider'
  BY <1>1, <1>2, <1>3, <1>4, <1>5, <1>6 DEF Divider
<1>9. MainState'
  BY <1>1, <1>3, <1>6 DEF MainState
<1>10. TokensMatchHooks' /\ ListShape' /\ LoadedTail' /\ FifoOrder'
  BY <1>1, <1>3 DEF TokensMatchHooks, ListShape, LoadedTail, FifoOrder
<1> QED
  BY <1>7, <1>8, <1>9, <1>10

(* The value behind the divider is the oldest hook not yet taken. *)
LEMMA ValueAtDivider ==
  ASSUME IndInv, workPc = "value"
  PROVE  Len(out) + 1 \in 1..Len(in) /\ val[qdiv] = in[Len(out) + 1]
<1> USE DEF IndInv
<1>1. /\ DivPos \in Listed /\ DivPos = Len(out) + 2 /\ Len(out) \in Nat /\ Len(in) \in Nat
      /\ Len(log) = Len(in) + 1 /\ ntrim \in Nat /\ Len(log) \in Nat
  BY DividerRange DEF DivPos, TypeOK, ListShape
<1>2. DivPos > 1 /\ DivPos - 1 = Len(out) + 1
  BY <1>1
<1>3. val[log[DivPos]] = in[DivPos - 1]
  BY <1>1, <1>2 DEF ListShape
<1> QED
  BY <1>1, <1>2, <1>3 DEF Divider, Listed

LEMMA ReadValueInd ==
  ASSUME IndInv, ReadValue PROVE IndInv'
<1> USE DEF IndInv
<1>1. /\ workPc = "value" /\ workPc' = "wait" /\ out' = Append(out, val[qdiv])
      /\ UNCHANGED <<alloc, next, val, stqh_last, qdiv, qdivMem, sem, mainPc, np, tnp, lp,
                     log, ntrim, in>>
  BY DEF ReadValue, heap, main
<1>2. Len(out) + 1 \in 1..Len(in) /\ val[qdiv] = in[Len(out) + 1] /\ val[qdiv] \in Val
  BY <1>1, ValueAtDivider DEF TypeOK
<1>3. /\ Len(out') = Len(out) + 1 /\ out'[Len(out) + 1] = in[Len(out) + 1]
      /\ \A i \in 1..Len(out) : out'[i] = out[i]
      /\ Len(out) \in Nat /\ out' \in Seq(Val)
  BY <1>1, <1>2 DEF TypeOK
<1>4. /\ UNCHANGED <<Listed, Live, DivPos, DivMemPos, Unposted>>
      /\ Claimed = 1 /\ Claimed' = 0
  BY <1>1, <1>3 DEF Listed, Live, DivPos, DivMemPos, Claimed, Unposted
<1>5. TypeOK'
  BY <1>1, <1>3 DEF TypeOK
<1>6. TokensMatchHooks'
  BY <1>1, <1>3, <1>4 DEF TokensMatchHooks, Unposted, TypeOK
<1>7. FifoOrder'
  BY <1>1, <1>2, <1>3 DEF FifoOrder, TypeOK
<1>8. ListShape' /\ Divider' /\ MainState' /\ LoadedTail'
  BY <1>1, <1>4 DEF ListShape, Divider, MainState, LoadedTail
<1> QED
  BY <1>5, <1>6, <1>7, <1>8

LEMMA DrainDividerInd ==
  ASSUME IndInv, DrainDivider PROVE IndInv'
<1> USE DEF IndInv
<1>1. /\ qdivMem' = qdiv
      /\ UNCHANGED <<alloc, next, val, stqh_last, qdiv, sem, mainPc, np, tnp, workPc, lp,
                     log, ntrim, in, out>>
  BY DEF DrainDivider, heap, main, work, hist
<1>2. UNCHANGED <<Listed, Live, DivPos, Unposted, Claimed>> /\ DivMemPos' = DivPos
  BY <1>1 DEF Listed, Live, DivPos, DivMemPos, Claimed, Unposted
<1>3. DivMemPos <= DivPos /\ DivMemPos \in Int /\ DivPos \in Int /\ ntrim \in Nat
  BY DEF DivMemPos, DivPos, TypeOK
<1>4. TypeOK'
  BY <1>1 DEF TypeOK
<1>5. Divider'
  BY <1>1, <1>2, <1>3 DEF Divider
<1>6. MainState'
  BY <1>1, <1>2, <1>3 DEF MainState
<1>7. TokensMatchHooks' /\ ListShape' /\ LoadedTail' /\ FifoOrder'
  BY <1>1, <1>2 DEF TokensMatchHooks, ListShape, LoadedTail, FifoOrder
<1> QED
  BY <1>4, <1>5, <1>6, <1>7

LEMMA StutterInd ==
  ASSUME IndInv, UNCHANGED vars PROVE IndInv'
<1>1. UNCHANGED <<alloc, next, val, stqh_last, qdiv, qdivMem, sem, mainPc, np, tnp,
                  workPc, lp, log, ntrim, in, out>>
  BY DEF vars, heap, main, work, hist
<1>2. UNCHANGED <<Listed, Live, DivPos, DivMemPos, Claimed, Unposted>>
  BY <1>1 DEF Listed, Live, DivPos, DivMemPos, Claimed, Unposted
<1>3. TypeOK'
  BY <1>1 DEF IndInv, TypeOK
<1> QED
  BY <1>1, <1>2, <1>3
  DEF IndInv, TokensMatchHooks, ListShape, Divider, MainState, LoadedTail, FifoOrder

-----------------------------------------------------------------------------
(* Every reachable state of the queue satisfies the inductive invariant:   *)
(* whatever main and the worker do, the nodes between the last trim and    *)
(* the tail form one list, the divider stands in it, and tokens and hooks  *)
(* match.                                                                  *)
THEOREM Invariance == Safety => []IndInv
<1>1. IndInv /\ [Next]_vars => IndInv'
  <2> SUFFICES ASSUME IndInv, [Next]_vars PROVE IndInv'
    OBVIOUS
  <2>1. CASE \E v \in Val : NewNode(v)
    BY <2>1, NewNodeInd
  <2>2. CASE MainStep
    BY <2>2, LinkNodeInd, SetLastInd, TrimTestInd, TrimRemoveInd, TrimFreeInd, SemPostInd
    DEF MainStep
  <2>3. CASE WorkerStep
    BY <2>3, SemWaitInd, LoadLastInd, TestEmptyInd, AdvanceInd, ReadValueInd, DrainDividerInd
    DEF WorkerStep
  <2>4. CASE UNCHANGED vars
    BY <2>4, StutterInd
  <2> QED
    BY <2>1, <2>2, <2>3, <2>4 DEF Next
<1> QED
  BY <1>1, InitIndInv, PTL DEF Safety

(* The variables keep their types: in particular the divider is never      *)
(* NULL and the worker never hands on the dummy node's garbage.            *)
THEOREM TypeCorrect == Safety => []TypeOK
<1>1. IndInv => TypeOK
  BY DEF IndInv
<1> QED
  BY <1>1, Invariance, PTL

(* stailq_trim_lf_spsc never frees a node the other thread, or main        *)
(* itself, is about to touch.                                              *)
THEOREM MemorySafe == Safety => []NoUseAfterFree
<1>1. ASSUME IndInv PROVE NoUseAfterFree
  <2> USE <1>1 DEF IndInv
  <2>1. Len(log) \in Nat /\ ntrim \in Nat /\ ntrim < Len(log)
    BY DEF TypeOK, ListShape
  <2>2. Live \subseteq alloc
    BY DEF MainState
  <2>3. \A i \in Listed : log[i] \in alloc
    BY <2>2 DEF Live
  <2>4. MainTouches \subseteq alloc
    <3>1. CASE mainPc = "link"
      <4>1. stqh_last = log[Len(log)] /\ Len(log) \in Listed
        BY <2>1, <3>1 DEF MainState, Listed
      <4> QED
        BY <2>3, <3>1, <4>1 DEF MainTouches
    <3>2. CASE mainPc = "remove"
      <4>1. next[QHead] = log[ntrim + 1] /\ ntrim + 1 \in Listed
        BY <2>1 DEF ListShape, Listed
      <4> QED
        BY <2>3, <3>2, <4>1 DEF MainTouches
    <3>3. CASE mainPc = "free"
      BY <3>3 DEF MainTouches, MainState
    <3>4. CASE mainPc \notin {"link", "remove", "free"}
      BY <3>4 DEF MainTouches
    <3> QED
      BY <3>1, <3>2, <3>3, <3>4
  <2>5. WorkerTouches \subseteq alloc
    <3>1. CASE workPc = "test"
      <4>1. PICK j \in DivPos..Len(log) : lp = log[j]
        BY <3>1 DEF LoadedTail
      <4>2. j \in Listed
        BY <2>1, DividerRange DEF Listed
      <4> QED
        BY <2>3, <3>1, <4>1, <4>2 DEF WorkerTouches
    <3>2. CASE workPc \in {"advance", "value"}
      <4>1. qdiv = log[DivPos] /\ DivPos \in Listed
        BY DividerRange DEF Divider
      <4> QED
        BY <2>3, <3>2, <4>1 DEF WorkerTouches
    <3>3. CASE workPc \notin {"test", "advance", "value"}
      BY <3>3 DEF WorkerTouches
    <3> QED
      BY <3>1, <3>2, <3>3
  <2> QED
    BY <2>4, <2>5 DEF NoUseAfterFree
<1> QED
  BY <1>1, Invariance, PTL

(* The message "Q Empty, even though we were alerted!" is dead code: a     *)
(* worker that got past sem_wait always has a hook to take.                *)
THEOREM AlertsAreReal == Safety => []NeverAlertedForNothing
<1>1. IndInv => NeverAlertedForNothing
  BY HookAhead DEF NeverAlertedForNothing
<1> QED
  BY <1>1, Invariance, PTL

(* The worker receives exactly a prefix of what main queued, in order. *)
THEOREM InOrder == Safety => []FifoOrder
<1>1. IndInv => FifoOrder
  BY DEF IndInv
<1> QED
  BY <1>1, Invariance, PTL

(* Between insertions the allocated nodes are the listed ones. *)
THEOREM MemoryAccounted == Safety => []NoNodeLeaked
<1>1. IndInv => NoNodeLeaked
  BY DEF IndInv, MainState, NoNodeLeaked, Live, Listed
<1> QED
  BY <1>1, Invariance, PTL

(* The linked list with its semaphore refines the abstract FIFO: linking a *)
(* node is Put, reading the value behind the divider is Take, every other  *)
(* step of either thread is invisible.                                     *)
THEOREM Refinement == Safety => ImplementsFifoSafety
<1>1. Init => Abstract!Init
  BY DEF Init, Abstract!Init
<1>2. IndInv /\ [Next]_vars => [Abstract!Next]_Abstract!vars
  <2> SUFFICES ASSUME IndInv, [Next]_vars
               PROVE  Abstract!Next \/ UNCHANGED <<in, out>>
    BY DEF Abstract!vars
  <2>1. CASE LinkNode
    <3>1. val[np] \in Val
      BY <2>1 DEF LinkNode, IndInv, MainState
    <3> QED
      BY <2>1, <3>1 DEF LinkNode, Abstract!Next, Abstract!Put
  <2>2. CASE ReadValue
    <3>1. workPc = "value" /\ out' = Append(out, val[qdiv]) /\ in' = in
      BY <2>2 DEF ReadValue
    <3>2. Len(out) < Len(in) /\ val[qdiv] = in[Len(out) + 1]
      BY <3>1, ValueAtDivider DEF IndInv, TypeOK
    <3> QED
      BY <3>1, <3>2 DEF Abstract!Next, Abstract!Take
  <2>3. CASE ~LinkNode /\ ~ReadValue
    BY <2>3 DEF Next, NewNode, MainStep, SetLast, TrimTest, TrimRemove, TrimFree, SemPost,
                WorkerStep, SemWait, LoadLast, TestEmpty, Advance, DrainDivider, hist, vars
  <2> QED
    BY <2>1, <2>2, <2>3
<1> QED
  BY <1>1, <1>2, Invariance, PTL DEF Safety, ImplementsFifoSafety, Abstract!Safety

-----------------------------------------------------------------------------
(* Lfq.                                                                    *)

(* The positions of the list.                                              *)

(* Lengths are numbers, and each position of the list holds a live node. *)
LEMMA Positions ==
  ASSUME LfqTypeOK, LfqShape, LfqDivider
  PROVE  /\ Len(llog) \in Nat /\ Len(in) \in Nat /\ Len(out) \in Nat /\ lntrim \in Nat
         /\ LfqDivPos \in Nat /\ LfqDivPos \in LfqListed /\ Len(llog) \in LfqListed /\ lntrim + 1 \in LfqListed
         /\ LfqListed \subseteq 1 .. Len(llog)
         /\ \A i \in LfqListed : llog[i] \in LfqLive /\ llog[i] \in Node /\ i \in Nat
<1>1. /\ Len(llog) \in Nat /\ Len(in) \in Nat /\ Len(out) \in Nat /\ lntrim \in Nat
      /\ llog \in Seq(Node)
  BY DEF LfqTypeOK
<1>2. /\ LfqDivPos \in Nat /\ LfqDivPos \in LfqListed /\ Len(llog) \in LfqListed /\ lntrim + 1 \in LfqListed
      /\ LfqListed \subseteq 1 .. Len(llog)
  BY <1>1 DEF LfqDivPos, LfqListed, LfqShape, LfqDivider
<1>3. \A i \in LfqListed : llog[i] \in LfqLive
  BY DEF LfqLive
<1>4. \A i \in LfqListed : llog[i] \in Node /\ i \in Nat
  BY <1>1, <1>2
<1> QED
  BY <1>1, <1>2, <1>3, <1>4

(* The nodes of the list are allocated. *)
LEMMA LiveAllocated == ASSUME LfqNoNodeLeaked PROVE LfqLive \subseteq lalloc
BY DEF LfqNoNodeLeaked, LfqLive

(* lfq_new: the three pointers stand at one dummy node. *)
LEMMA InitInd == LfqInit => LfqInv
<1> SUFFICES ASSUME LfqInit PROVE LfqInv
  OBVIOUS
<1>1. PICK n \in Node :
        /\ lalloc = {n} /\ link = [m \in Node |-> NULL] /\ value = [m \in Node |-> NULL]
        /\ first = n /\ divider = n /\ last = n
        /\ ppc = "idle" /\ tmp = NULL /\ cpc = "idle" /\ result = NULL
        /\ in = <<>> /\ out = <<>> /\ llog = <<n>> /\ lntrim = 0 /\ wild = FALSE
  BY DEF LfqInit
<1>2. Len(llog) = 1 /\ llog[1] = n /\ Len(in) = 0 /\ Len(out) = 0
  BY <1>1
<1>3. LfqListed = {1} /\ LfqLive = {n}
  BY <1>1, <1>2 DEF LfqListed, LfqLive
<1>4. LfqTypeOK
  <2>1. llog \in Seq(Node) /\ in \in Seq(Val) /\ out \in Seq(Val) /\ lntrim \in Nat
    BY <1>1
  <2> QED
    BY <1>1, <2>1 DEF LfqTypeOK
<1>5. LfqShape /\ LfqDivider /\ FifoOrder /\ InHand
  BY <1>1, <1>2, <1>3 DEF LfqShape, LfqDivider, LfqDivPos, FifoOrder, InHand
<1>6. LfqNoUseAfterFree /\ LfqNoNodeLeaked
  BY <1>1, <1>2, <1>3 DEF LfqNoUseAfterFree, LfqNoNodeLeaked, Chained, LfqLive
<1> QED
  BY <1>4, <1>5, <1>6 DEF LfqInv

-----------------------------------------------------------------------------
(* The producer.                                                           *)

(* lfq_node_new: the node comes from outside the list. *)
LEMMA NodeNewInd == ASSUME LfqInv, NEW v \in Val, NodeNew(v) PROVE LfqInv'
<1> USE DEF LfqInv
<1>1. PICK n \in Node \ lalloc :
        /\ lalloc' = lalloc \cup {n}
        /\ value' = [value EXCEPT ![n] = v] /\ link' = [link EXCEPT ![n] = NULL]
        /\ tmp' = n
  BY DEF NodeNew
<1>2. /\ ppc = "idle" /\ ppc' = "link"
      /\ UNCHANGED <<first, divider, last, cpc, result, in, out, llog, lntrim, wild>>
  BY DEF NodeNew, queue
<1>3. UNCHANGED <<LfqListed, LfqLive, LfqDivPos>>
  BY <1>2 DEF LfqListed, LfqLive, LfqDivPos
<1>4. lalloc = LfqLive /\ n \notin LfqLive
  BY <1>1, <1>2 DEF LfqNoNodeLeaked, LfqLive
<1>5. \A i \in LfqListed : llog[i] # n /\ llog[i] \in Node
  BY <1>4, Positions
<1>6. \A i \in LfqListed : value'[llog[i]] = value[llog[i]] /\ link'[llog[i]] = link[llog[i]]
  BY <1>1, <1>5 DEF LfqTypeOK
<1>7. value'[n] = v /\ link'[n] = NULL
  BY <1>1 DEF LfqTypeOK
<1>8. LfqTypeOK'
  BY <1>1, <1>2 DEF LfqTypeOK
<1>9. LfqShape' /\ LfqDivider' /\ FifoOrder' /\ LfqNoUseAfterFree'
  BY <1>2, <1>3, <1>6 DEF LfqShape, LfqDivider, FifoOrder, LfqNoUseAfterFree
<1>10. InHand'
  BY <1>1, <1>3, <1>4, <1>7 DEF InHand
<1>11. Chained'
  BY <1>2, <1>3, <1>6 DEF LfqNoNodeLeaked, Chained
<1>12. lalloc' = LfqLive' \cup {tmp'}
  BY <1>1, <1>3, <1>4
<1> QED
  BY <1>2, <1>8, <1>9, <1>10, <1>11, <1>12 DEF LfqNoNodeLeaked, LfqLive

(* q->last->link = node *)
LEMMA LinkInd == ASSUME LfqInv, Link PROVE LfqInv'
<1> USE DEF LfqInv
<1>1. /\ ppc = "link" /\ ppc' = "publish" /\ link' = [link EXCEPT ![last] = tmp]
      /\ UNCHANGED <<lalloc, value, first, divider, last, tmp, cpc, result, in, out, llog, lntrim>>
  BY DEF Link, queue
<1>2. UNCHANGED <<LfqListed, LfqLive, LfqDivPos>>
  BY <1>1 DEF LfqListed, LfqLive, LfqDivPos
<1>3. tmp \in Node \ LfqLive /\ value[tmp] \in Val /\ link[tmp] = NULL
  BY <1>1 DEF InHand
<1>4. last = llog[Len(llog)] /\ last \in LfqLive /\ last \in lalloc /\ last \in Node
  BY Positions, LiveAllocated DEF LfqShape
<1>5. wild' = FALSE
  BY <1>4 DEF Link, Touch, LfqNoUseAfterFree
<1>6. \A i \in LfqListed : i # Len(llog) => llog[i] # last /\ llog[i] \in Node
  BY <1>4, Positions DEF LfqShape
<1>7. \A i \in LfqListed : link'[llog[i]] = IF i < Len(llog) THEN link[llog[i]] ELSE tmp
  <2>1. \A i \in LfqListed : i <= Len(llog) /\ i \in Nat /\ Len(llog) \in Nat
    BY Positions DEF LfqListed
  <2> QED
    BY <1>1, <1>4, <1>6, <2>1 DEF LfqTypeOK
<1>8. LfqTypeOK'
  BY <1>1, <1>3, <1>5 DEF LfqTypeOK
<1>9. LfqShape' /\ LfqDivider' /\ FifoOrder' /\ LfqNoUseAfterFree'
  BY <1>1, <1>2, <1>5 DEF LfqShape, LfqDivider, FifoOrder, LfqNoUseAfterFree
<1>10. link'[tmp] = NULL
  BY <1>1, <1>3, <1>4 DEF LfqTypeOK
<1>11. InHand'
  BY <1>1, <1>2, <1>3, <1>10 DEF InHand
<1>12. Chained'
  BY <1>1, <1>2, <1>7 DEF LfqNoNodeLeaked, Chained
<1> QED
  BY <1>1, <1>2, <1>8, <1>9, <1>11, <1>12 DEF LfqNoNodeLeaked

(* q->last = q->last->link: the node joins the list. *)
LEMMA PublishInd == ASSUME LfqInv, Publish PROVE LfqInv'
<1> USE DEF LfqInv
<1> DEFINE L == Len(llog)
<1>0. /\ L \in Nat /\ Len(in) \in Nat /\ Len(out) \in Nat /\ lntrim \in Nat
      /\ L = Len(in) + 1 /\ lntrim < L /\ L \in LfqListed
  BY Positions DEF LfqShape
<1>1. /\ ppc = "publish" /\ ppc' = "trim" /\ last' = link[last]
      /\ in' = Append(in, value[link[last]]) /\ llog' = Append(llog, link[last])
      /\ UNCHANGED <<lalloc, value, link, first, divider, tmp, cpc, result, out, lntrim>>
  BY DEF Publish, lfqHeap
<1>2. last = llog[L] /\ last \in lalloc /\ link[last] = tmp
  BY <1>0, <1>1, Positions, LiveAllocated DEF LfqShape, LfqNoNodeLeaked, Chained
<1>3. tmp \in Node \ LfqLive /\ value[tmp] \in Val /\ link[tmp] = NULL
  BY <1>1 DEF InHand
<1>4. wild' = FALSE
  BY <1>2 DEF Publish, Touch, LfqNoUseAfterFree
<1>5. llog \in Seq(Node) /\ in \in Seq(Val) /\ llog' = Append(llog, tmp) /\ in' = Append(in, value[tmp])
  BY <1>1, <1>2 DEF LfqTypeOK
<1>6. /\ Len(llog') = L + 1 /\ llog'[L + 1] = tmp
      /\ \A i \in 1 .. L : llog'[i] = llog[i]
  BY <1>5
<1>7. /\ Len(in') = Len(in) + 1 /\ in'[L] = value[tmp]
      /\ \A i \in 1 .. Len(in) : in'[i] = in[i]
  BY <1>0, <1>3, <1>5
<1>8. LfqListed' = LfqListed \cup {L + 1} /\ L + 1 \notin LfqListed /\ LfqListed \subseteq 1 .. L
  BY <1>0, <1>1, <1>6 DEF LfqListed
<1>9. \A i \in LfqListed : llog'[i] = llog[i] /\ llog[i] \in LfqLive /\ llog[i] # tmp
  BY <1>3, <1>6, <1>8, Positions
<1>10. LfqLive' = LfqLive \cup {tmp}
  BY <1>6, <1>8, <1>9 DEF LfqLive
<1>11. LfqTypeOK'
  <2>1. llog' \in Seq(Node) /\ in' \in Seq(Val) /\ last' \in Node
    BY <1>1, <1>2, <1>3, <1>5
  <2> QED
    BY <1>1, <1>4, <2>1 DEF LfqTypeOK
<1>12. LfqShape'
  <2>1. Len(llog') = Len(in') + 1 /\ lntrim' < Len(llog') /\ last' = llog'[Len(llog')]
    BY <1>0, <1>1, <1>2, <1>6, <1>7
  <2>2. \A i, j \in LfqListed' : llog'[i] = llog'[j] => i = j
    <3> SUFFICES ASSUME NEW i \in LfqListed', NEW j \in LfqListed', llog'[i] = llog'[j] PROVE i = j
      OBVIOUS
    <3>1. CASE i \in LfqListed /\ j \in LfqListed
      BY <1>9, <3>1 DEF LfqShape
    <3>2. CASE i = L + 1 \/ j = L + 1
      BY <1>6, <1>8, <1>9, <3>2
    <3> QED
      BY <1>8, <3>1, <3>2
  <2>3. \A i \in LfqListed' : i > 1 => value'[llog'[i]] = in'[i - 1]
    <3> SUFFICES ASSUME NEW i \in LfqListed', i > 1 PROVE value'[llog'[i]] = in'[i - 1]
      OBVIOUS
    <3>1. CASE i = L + 1
      BY <1>0, <1>1, <1>6, <1>7, <3>1
    <3>2. CASE i \in LfqListed
      <4>1. i - 1 \in 1 .. Len(in)
        BY <1>0, <1>8, <3>2
      <4>2. value[llog[i]] = in[i - 1]
        BY <3>2 DEF LfqShape
      <4> QED
        BY <1>1, <1>7, <1>9, <3>2, <4>1, <4>2
    <3> QED
      BY <1>8, <3>1, <3>2
  <2> QED
    BY <2>1, <2>2, <2>3 DEF LfqShape
<1>13. LfqDivider'
  <2>1. LfqDivPos \in 1 .. L /\ LfqDivPos' = LfqDivPos /\ llog'[LfqDivPos] = llog[LfqDivPos] /\ LfqDivPos \in Nat
    BY <1>1, <1>6, <1>8, Positions DEF LfqDivPos
  <2>2. cpc = "advance" => in'[LfqDivPos] = in[LfqDivPos]
    BY <1>0, <1>7, <2>1 DEF LfqDivider
  <2> QED
    BY <1>0, <1>1, <1>6, <2>1, <2>2 DEF LfqDivider
<1>14. InHand' /\ LfqNoUseAfterFree'
  BY <1>1, <1>4 DEF InHand, LfqNoUseAfterFree
<1>15. FifoOrder'
  <2>1. 1 .. Len(out) \subseteq 1 .. Len(in)
    BY <1>0 DEF FifoOrder
  <2> QED
    BY <1>0, <1>1, <1>7, <2>1 DEF FifoOrder
<1>16. Chained'
  <2>1. first' = llog'[lntrim' + 1]
    BY <1>0, <1>1, <1>6 DEF LfqNoNodeLeaked, Chained
  <2>2. ASSUME NEW i \in LfqListed
        PROVE  link'[llog'[i]] = llog'[i + 1] /\ i < L + 1
    <3>1. i \in Nat /\ i <= L /\ (i < L => i + 1 \in 1 .. L)
      BY <1>0 DEF LfqListed
    <3>2. CASE i < L
      <4>1. link[llog[i]] = llog[i + 1]
        BY <3>2 DEF LfqNoNodeLeaked, Chained
      <4>2. llog'[i] = llog[i] /\ llog'[i + 1] = llog[i + 1] /\ link' = link
        BY <1>1, <1>6, <1>9, <3>1, <3>2
      <4>3. i < L + 1
        BY <1>0, <3>1
      <4> QED
        BY <4>1, <4>2, <4>3
    <3>3. CASE i = L
      BY <1>0, <1>1, <1>2, <1>6, <1>9, <3>3
    <3> QED
      BY <1>0, <3>1, <3>2, <3>3
  <2>3. link'[llog'[L + 1]] = NULL /\ ppc' # "publish"
    BY <1>1, <1>3, <1>6
  <2>4. \A i \in LfqListed' : link'[llog'[i]] = IF i < L + 1 THEN llog'[i + 1] ELSE NULL
    BY <1>0, <1>8, <2>2, <2>3
  <2> QED
    BY <1>6, <2>1, <2>3, <2>4 DEF Chained
<1>17. lalloc' = LfqLive'
  BY <1>1, <1>10 DEF LfqNoNodeLeaked, LfqLive
<1> QED
  BY <1>1, <1>11, <1>12, <1>13, <1>14, <1>15, <1>16, <1>17 DEF LfqNoNodeLeaked, LfqLive

(* The trimming loop takes first off the list, unless it is the divider. *)
LEMMA TrimInd == ASSUME LfqInv, Trim PROVE LfqInv'
<1> USE DEF LfqInv
<1>0. /\ Len(llog) \in Nat /\ Len(out) \in Nat /\ lntrim \in Nat /\ LfqDivPos \in Nat
      /\ lntrim + 1 \in LfqListed
  BY Positions
<1>1. ppc = "trim" /\ UNCHANGED <<lalloc, value, link, divider, last, cpc, result, in, out, llog>>
  BY DEF Trim, lfqHeap
<1>2. lalloc = LfqLive
  BY <1>1 DEF LfqNoNodeLeaked, LfqLive
<1>3. CASE first = divider
  <2>1. ppc' = "idle" /\ UNCHANGED <<first, tmp, lntrim, wild>>
    BY <1>3 DEF Trim
  <2>2. UNCHANGED <<LfqListed, LfqLive, LfqDivPos>>
    BY <1>1, <2>1 DEF LfqListed, LfqLive, LfqDivPos
  <2>3. LfqTypeOK' /\ LfqShape' /\ LfqDivider' /\ FifoOrder' /\ LfqNoUseAfterFree' /\ InHand'
    BY <1>1, <2>1, <2>2 DEF LfqTypeOK, LfqShape, LfqDivider, FifoOrder, LfqNoUseAfterFree, InHand
  <2>4. Chained'
    BY <1>1, <2>1, <2>2 DEF LfqNoNodeLeaked, Chained
  <2> QED
    BY <1>1, <1>2, <2>1, <2>2, <2>3, <2>4 DEF LfqNoNodeLeaked, LfqLive
<1>4. CASE first # divider
  <2>1. first' = link[first] /\ tmp' = first /\ ppc' = "free" /\ lntrim' = lntrim + 1 /\ Touch(first)
    BY <1>4 DEF Trim
  <2>2. first = llog[lntrim + 1] /\ first \in LfqLive /\ first \in Node
    BY <1>0, Positions DEF LfqNoNodeLeaked, Chained
  <2>3. lntrim + 1 < LfqDivPos /\ lntrim + 1 < Len(llog)
    <3>1. lntrim < LfqDivPos /\ LfqDivPos <= Len(llog) /\ divider = llog[LfqDivPos]
      BY DEF LfqDivider
    <3>2. lntrim + 1 # LfqDivPos
      BY <1>4, <2>2, <3>1
    <3> QED
      BY <1>0, <3>1, <3>2
  <2>4. first' = llog[lntrim + 2] /\ llog[lntrim + 2] \in Node
    <3>1. link[first] = llog[(lntrim + 1) + 1]
      BY <1>0, <2>2, <2>3 DEF LfqNoNodeLeaked, Chained
    <3>2. (lntrim + 1) + 1 = lntrim + 2 /\ lntrim + 2 \in LfqListed
      BY <1>0, <2>3 DEF LfqListed
    <3> QED
      BY <2>1, <3>1, <3>2, Positions
  <2>5. wild' = FALSE
    BY <1>2, <2>1, <2>2 DEF Touch, LfqNoUseAfterFree
  <2>6. LfqListed' = LfqListed \ {lntrim + 1} /\ LfqDivPos' = LfqDivPos
    BY <1>0, <1>1, <2>1 DEF LfqListed, LfqDivPos
  <2>7. LfqLive' = LfqLive \ {first}
    <3>1. \A i \in LfqListed : llog[i] = first <=> i = lntrim + 1
      BY <1>0, <2>2 DEF LfqShape
    <3> QED
      BY <1>1, <2>6, <3>1 DEF LfqLive
  <2>8. LfqTypeOK'
    <3>1. lntrim' \in Nat /\ first' \in Node /\ tmp' \in Node
      BY <1>0, <2>1, <2>2, <2>4
    <3> QED
      BY <1>1, <2>1, <2>5, <3>1 DEF LfqTypeOK
  <2>9. LfqShape'
    BY <1>0, <1>1, <2>1, <2>3, <2>6 DEF LfqShape
  <2>10. LfqDivider' /\ FifoOrder' /\ LfqNoUseAfterFree'
    BY <1>0, <1>1, <2>1, <2>3, <2>5, <2>6 DEF LfqDivider, FifoOrder, LfqNoUseAfterFree
  <2>11. InHand'
    BY <2>1, <2>2, <2>7 DEF InHand
  <2>12. Chained'
    <3>1. first' = llog'[lntrim' + 1]
      <4>1. lntrim' + 1 = lntrim + 2
        BY <1>0, <2>1
      <4> QED
        BY <1>1, <2>4, <4>1
    <3> QED
      BY <1>1, <2>1, <2>6, <3>1 DEF LfqNoNodeLeaked, Chained
  <2>13. lalloc' = LfqLive' \cup {tmp'}
    BY <1>1, <1>2, <2>1, <2>2, <2>7
  <2> QED
    BY <2>1, <2>8, <2>9, <2>10, <2>11, <2>12, <2>13 DEF LfqNoNodeLeaked, LfqLive
<1> QED
  BY <1>3, <1>4

(* DO_FREE(tmp) *)
LEMMA FreeInd == ASSUME LfqInv, Free PROVE LfqInv'
<1> USE DEF LfqInv
<1>1. /\ ppc = "free" /\ ppc' = "trim" /\ lalloc' = lalloc \ {tmp}
      /\ UNCHANGED <<value, link, first, divider, last, tmp, cpc, result, in, out, llog, lntrim, wild>>
  BY DEF Free, queue
<1>2. UNCHANGED <<LfqListed, LfqLive, LfqDivPos>>
  BY <1>1 DEF LfqListed, LfqLive, LfqDivPos
<1>3. lalloc' = LfqLive
  BY <1>1 DEF InHand, LfqNoNodeLeaked, LfqLive
<1>4. LfqTypeOK' /\ LfqShape' /\ LfqDivider' /\ FifoOrder' /\ LfqNoUseAfterFree' /\ InHand'
  BY <1>1, <1>2 DEF LfqTypeOK, LfqShape, LfqDivider, FifoOrder, LfqNoUseAfterFree, InHand
<1>5. Chained'
  BY <1>1, <1>2 DEF LfqNoNodeLeaked, Chained
<1> QED
  BY <1>1, <1>2, <1>3, <1>4, <1>5 DEF LfqNoNodeLeaked, LfqLive

-----------------------------------------------------------------------------
(* The consumer.                                                           *)

(* What a consumer inside lfq_out finds behind the divider. *)
LEMMA Behind ==
  ASSUME LfqInv, cpc # "idle"
  PROVE  /\ LfqDivPos + 1 \in LfqListed /\ divider \in lalloc
         /\ link[divider] = llog[LfqDivPos + 1] /\ link[divider] \in Node \cap lalloc
         /\ value[link[divider]] = in[LfqDivPos] /\ in[LfqDivPos] \in Val
         /\ Len(out) < Len(in)
<1> USE DEF LfqInv
<1>1. /\ LfqDivPos \in LfqListed /\ LfqDivPos < Len(llog) /\ LfqDivPos \in Nat /\ Len(llog) \in Nat
      /\ Len(in) \in Nat /\ Len(out) \in Nat /\ lntrim \in Nat /\ Len(llog) = Len(in) + 1
  BY Positions DEF LfqDivider, LfqShape
<1>2. LfqDivPos + 1 \in LfqListed /\ LfqDivPos + 1 > 1 /\ (LfqDivPos + 1) - 1 = LfqDivPos /\ LfqDivPos \in 1 .. Len(in)
  BY <1>1 DEF LfqListed, LfqDivPos
<1>3. divider = llog[LfqDivPos] /\ link[divider] = llog[LfqDivPos + 1]
  BY <1>1 DEF LfqDivider, LfqNoNodeLeaked, Chained
<1>4. \A i \in LfqListed : llog[i] \in Node \cap lalloc
  BY Positions, LiveAllocated
<1>5. value[llog[LfqDivPos + 1]] = in[LfqDivPos]
  BY <1>2 DEF LfqShape
<1>6. in[LfqDivPos] \in Val
  BY <1>2 DEF LfqTypeOK
<1> QED
  BY <1>1, <1>2, <1>3, <1>4, <1>5, <1>6 DEF LfqDivPos

LEMMA TestInd == ASSUME LfqInv, Test PROVE LfqInv'
<1> USE DEF LfqInv
<1>1. /\ cpc = "idle" /\ divider # last /\ cpc' = "read"
      /\ UNCHANGED <<lalloc, value, link, first, divider, last, ppc, tmp, result, in, out, llog, lntrim, wild>>
  BY DEF Test, lfqHeap, queue
<1>2. UNCHANGED <<LfqListed, LfqLive, LfqDivPos>>
  BY <1>1 DEF LfqListed, LfqLive, LfqDivPos
<1>3. LfqDivPos < Len(llog)
  <2>1. LfqDivPos \in Nat /\ Len(llog) \in Nat /\ LfqDivPos <= Len(llog)
    BY Positions DEF LfqDivider
  <2>2. LfqDivPos # Len(llog)
    BY <1>1 DEF LfqDivider, LfqShape
  <2> QED
    BY <2>1, <2>2
<1>4. LfqTypeOK' /\ LfqShape' /\ FifoOrder' /\ LfqNoUseAfterFree' /\ InHand'
  BY <1>1, <1>2 DEF LfqTypeOK, LfqShape, FifoOrder, LfqNoUseAfterFree, InHand
<1>5. LfqDivider'
  BY <1>1, <1>2, <1>3 DEF LfqDivider
<1>6. Chained'
  BY <1>1, <1>2 DEF LfqNoNodeLeaked, Chained
<1> QED
  BY <1>1, <1>2, <1>4, <1>5, <1>6 DEF LfqNoNodeLeaked, LfqLive

LEMMA ReadNextInd == ASSUME LfqInv, ReadNext PROVE LfqInv'
<1> USE DEF LfqInv
<1>1. /\ cpc = "read" /\ cpc' = "advance"
      /\ UNCHANGED <<lalloc, value, link, first, divider, last, ppc, tmp, in, out, llog, lntrim>>
  BY DEF ReadNext, lfqHeap, queue
<1>2. UNCHANGED <<LfqListed, LfqLive, LfqDivPos>>
  BY <1>1 DEF LfqListed, LfqLive, LfqDivPos
<1>3. wild' = FALSE /\ result' = in[LfqDivPos] /\ in[LfqDivPos] \in Val
  BY <1>1, Behind DEF ReadNext, LfqNoUseAfterFree
<1>4. LfqTypeOK' /\ LfqShape' /\ FifoOrder' /\ LfqNoUseAfterFree' /\ InHand'
  BY <1>1, <1>2, <1>3 DEF LfqTypeOK, LfqShape, FifoOrder, LfqNoUseAfterFree, InHand
<1>5. LfqDivider'
  BY <1>1, <1>2, <1>3 DEF LfqDivider
<1>6. Chained'
  BY <1>1, <1>2 DEF LfqNoNodeLeaked, Chained
<1> QED
  BY <1>1, <1>2, <1>4, <1>5, <1>6 DEF LfqNoNodeLeaked, LfqLive

LEMMA AdvanceDividerInd == ASSUME LfqInv, AdvanceDivider PROVE LfqInv'
<1> USE DEF LfqInv
<1>1. /\ cpc = "advance" /\ cpc' = "idle" /\ divider' = link[divider] /\ out' = Append(out, result)
      /\ UNCHANGED <<lalloc, value, link, first, last, ppc, tmp, result, in, llog, lntrim>>
  BY DEF AdvanceDivider, lfqHeap
<1>2. UNCHANGED <<LfqListed, LfqLive>>
  BY <1>1 DEF LfqListed, LfqLive
<1>3. wild' = FALSE
  BY <1>1, Behind DEF AdvanceDivider, Touch, LfqNoUseAfterFree
<1>4. result = in[LfqDivPos] /\ result \in Val
  BY <1>1, Behind DEF LfqDivider
<1>5. out \in Seq(Val) /\ Len(out) \in Nat /\ Len(in) \in Nat /\ lntrim \in Nat /\ Len(llog) \in Nat
  BY Positions DEF LfqTypeOK
<1>6. /\ out' \in Seq(Val) /\ Len(out') = Len(out) + 1 /\ out'[Len(out) + 1] = result
      /\ \A i \in 1 .. Len(out) : out'[i] = out[i]
  BY <1>1, <1>4, <1>5
<1>7. LfqDivPos' = LfqDivPos + 1 /\ LfqDivPos = Len(out) + 1
  BY <1>5, <1>6 DEF LfqDivPos
<1>8. LfqTypeOK'
  BY <1>1, <1>3, <1>6, Behind DEF LfqTypeOK
<1>9. FifoOrder'
  <2>1. Len(out') <= Len(in')
    BY <1>1, <1>5, <1>6, Behind
  <2>2. \A i \in 1 .. Len(out') : i \in 1 .. Len(out) \/ i = Len(out) + 1
    BY <1>5, <1>6
  <2>3. \A i \in 1 .. Len(out') : out'[i] = in'[i]
    BY <1>1, <1>4, <1>6, <1>7, <2>2 DEF FifoOrder
  <2> QED
    BY <2>1, <2>3 DEF FifoOrder
<1>10. LfqDivider'
  <2>1. LfqDivPos + 1 \in LfqListed
    BY <1>1, Behind
  <2>2. lntrim < LfqDivPos + 1 /\ LfqDivPos + 1 <= Len(llog)
    BY <1>5, <1>7, <2>1 DEF LfqListed
  <2>3. divider' = llog[LfqDivPos + 1]
    BY <1>1, Behind
  <2> QED
    BY <1>1, <1>7, <2>2, <2>3 DEF LfqDivider
<1>11. LfqShape' /\ LfqNoUseAfterFree' /\ InHand'
  BY <1>1, <1>2, <1>3 DEF LfqShape, LfqNoUseAfterFree, InHand
<1>12. Chained'
  BY <1>1, <1>2 DEF LfqNoNodeLeaked, Chained
<1> QED
  BY <1>1, <1>2, <1>8, <1>9, <1>10, <1>11, <1>12 DEF LfqNoNodeLeaked, LfqLive

-----------------------------------------------------------------------------
LEMMA LfqInvariance == LfqSafety => []LfqInv
<1>1. LfqInv /\ [LfqNext]_lfqVars => LfqInv'
  <2> SUFFICES ASSUME LfqInv, [LfqNext]_lfqVars PROVE LfqInv'
    OBVIOUS
  <2>1. CASE \E v \in Val : NodeNew(v)
    BY <2>1, NodeNewInd
  <2>2. CASE Producer
    BY <2>2, LinkInd, PublishInd, TrimInd, FreeInd DEF Producer
  <2>3. CASE Consumer
    BY <2>3, TestInd, ReadNextInd, AdvanceDividerInd DEF Consumer
  <2>4. CASE UNCHANGED lfqVars
    BY <2>4 DEF lfqVars, lfqHeap, queue, LfqInv, LfqTypeOK, LfqShape, LfqDivider, LfqDivPos, InHand, FifoOrder,
                LfqNoUseAfterFree, LfqNoNodeLeaked, Chained, LfqListed, LfqLive
  <2> QED
    BY <2>1, <2>2, <2>3, <2>4 DEF LfqNext
<1> QED
  BY <1>1, InitInd, PTL DEF LfqSafety

(* lfq.c:54-78: whatever the interleaving of lfq_in and lfq_out, no freed  *)
(* node is dereferenced, and what is allocated is what lfq_delete reaches  *)
(* from first and the one node in the producer's hand.                     *)
THEOREM ListIsSafe == LfqSafety => [](LfqTypeOK /\ LfqMemorySafe)
BY LfqInvariance, PTL DEF LfqInv, LfqMemorySafe

(* lfq.c:71-80: lfq_out returns what lfq_in was given, in that order, each *)
(* value once: publishing is Put, moving the divider is Take.              *)
THEOREM ListIsFifo == LfqSafety => ImplementsFifoSafety
<1>1. LfqInit => Abstract!Init
  BY DEF LfqInit, Abstract!Init
<1>2. LfqInv /\ [LfqNext]_lfqVars => [Abstract!Next]_Abstract!vars
  <2> SUFFICES ASSUME LfqInv, [LfqNext]_lfqVars PROVE Abstract!Next \/ UNCHANGED <<in, out>>
    BY DEF Abstract!vars
  <2>1. CASE Publish
    <3>1. link[last] = tmp /\ value[tmp] \in Val
      BY <2>1, Positions DEF Publish, LfqInv, InHand, LfqShape, LfqNoNodeLeaked, Chained
    <3> QED
      BY <2>1, <3>1 DEF Publish, Abstract!Next, Abstract!Put
  <2>2. CASE AdvanceDivider
    <3>1. cpc = "advance" /\ out' = Append(out, result) /\ in' = in
      BY <2>2 DEF AdvanceDivider
    <3>2. Len(out) < Len(in) /\ result = in[Len(out) + 1]
      BY <3>1, Behind DEF LfqInv, LfqDivider, LfqDivPos
    <3> QED
      BY <3>1, <3>2 DEF Abstract!Next, Abstract!Take
  <2>3. CASE ~Publish /\ ~AdvanceDivider
    BY <2>3 DEF LfqNext, NodeNew, Producer, Link, Trim, Free, Consumer, Test, ReadNext, lfqVars
  <2> QED
    BY <2>1, <2>2, <2>3
<1> QED
  BY <1>1, <1>2, LfqInvariance, PTL DEF LfqSafety, ImplementsFifoSafety, Abstract!Safety
=============================================================================
