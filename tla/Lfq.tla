-------------------------------- MODULE Lfq ---------------------------------
(***************************************************************************)
(* The lock-free queue of lfq.c, which one producer fills and one consumer *)
(* empties without a lock.  The list runs from first over divider to last; *)
(* the producer alone writes first and last and frees nodes, the consumer  *)
(* alone writes divider.  What lies up to divider has been consumed and is *)
(* trimmed by the next lfq_in.  Each access to a shared field is a step.   *)
(***************************************************************************)
EXTENDS QueueHistory

VARIABLES
    lalloc, value, link,    \* the heap
    first, divider, last,   \* struct lfq
    ppc, tmp,               \* producer: control point, node at hand
    cpc, result,            \* consumer: control point, what it read
    llog, lntrim,           \* history: nodes published so far, how many of
                            \* them first has passed
    wild                    \* history: a freed node was dereferenced

lfqHeap == <<lalloc, value, link>>
queue == <<first, divider, last>>
lfqVars == <<lfqHeap, queue, ppc, tmp, cpc, result, in, out, llog, lntrim, wild>>

LfqInit ==
    \E n \in Node :
        /\ lalloc = {n} /\ link = [m \in Node |-> NULL] /\ value = [m \in Node |-> NULL]
        /\ first = n /\ divider = n /\ last = n
        /\ ppc = "idle" /\ tmp = NULL /\ cpc = "idle" /\ result = NULL
        /\ in = <<>> /\ out = <<>> /\ llog = <<n>> /\ lntrim = 0 /\ wild = FALSE

Touch(n) == wild' = (wild \/ n \notin lalloc)

-----------------------------------------------------------------------------
(* lfq_node_new *)
NodeNew(v) ==
    /\ ppc = "idle" /\ Len(in) < MaxIn
    /\ \E n \in Node \ lalloc :
        /\ lalloc' = lalloc \cup {n}
        /\ value' = [value EXCEPT ![n] = v] /\ link' = [link EXCEPT ![n] = NULL]
        /\ tmp' = n
    /\ ppc' = "link"
    /\ UNCHANGED <<queue, cpc, result, in, out, llog, lntrim, wild>>

(* q->last->link = node *)
Link ==
    /\ ppc = "link"
    /\ Touch(last) /\ link' = [link EXCEPT ![last] = tmp]
    /\ ppc' = "publish"
    /\ UNCHANGED <<lalloc, value, queue, tmp, cpc, result, in, out, llog, lntrim>>

(* q->last = q->last->link: from here on the consumer can see it *)
Publish ==
    /\ ppc = "publish"
    /\ Touch(last) /\ last' = link[last]
    /\ in' = Append(in, value[link[last]]) /\ llog' = Append(llog, link[last])
    /\ ppc' = "trim"
    /\ UNCHANGED <<lfqHeap, first, divider, tmp, cpc, result, out, lntrim>>

(* Mutant: frees the divider as well, up to last. *)
TrimToLast ==
    /\ ppc = "trim"
    /\ IF first # last
       THEN first' = link[first] /\ tmp' = first /\ ppc' = "free" /\ lntrim' = lntrim + 1
       ELSE ppc' = "idle" /\ UNCHANGED <<first, tmp, lntrim>>
    /\ UNCHANGED <<lfqHeap, divider, last, cpc, result, in, out, llog, wild>>

(* while (q->first != q->divider) { tmp = q->first; q->first = ...; *)
Trim ==
    /\ ppc = "trim"
    /\ IF first # divider
       THEN /\ Touch(first) /\ first' = link[first] /\ tmp' = first /\ ppc' = "free"
            /\ lntrim' = lntrim + 1
       ELSE ppc' = "idle" /\ UNCHANGED <<first, tmp, lntrim, wild>>
    /\ UNCHANGED <<lfqHeap, divider, last, cpc, result, in, out, llog>>

(* DO_FREE(tmp) } *)
Free ==
    /\ ppc = "free"
    /\ lalloc' = lalloc \ {tmp} /\ ppc' = "trim"
    /\ UNCHANGED <<value, link, queue, tmp, cpc, result, in, out, llog, lntrim, wild>>

-----------------------------------------------------------------------------
(* lfq_out: the queue is empty if divider is last, and NULL is returned. *)
Test ==
    /\ cpc = "idle"
    /\ divider # last
    /\ cpc' = "read"
    /\ UNCHANGED <<lfqHeap, queue, ppc, tmp, result, in, out, llog, lntrim, wild>>

(* result = q->divider->link->value *)
ReadNext ==
    /\ cpc = "read"
    /\ wild' = (wild \/ divider \notin lalloc \/ link[divider] \notin lalloc)
    /\ result' = IF link[divider] \in Node THEN value[link[divider]] ELSE NULL
    /\ cpc' = "advance"
    /\ UNCHANGED <<lfqHeap, queue, ppc, tmp, in, out, llog, lntrim>>

(* q->divider = q->divider->link; return result *)
AdvanceDivider ==
    /\ cpc = "advance"
    /\ Touch(divider) /\ divider' = link[divider]
    /\ out' = Append(out, result)
    /\ cpc' = "idle"
    /\ UNCHANGED <<lfqHeap, first, last, ppc, tmp, result, in, llog, lntrim>>

Producer == Link \/ Publish \/ Trim \/ Free
Consumer == Test \/ ReadNext \/ AdvanceDivider
LfqNext == (\E v \in Val : NodeNew(v)) \/ Producer \/ Consumer

LfqSafety == LfqInit /\ [][LfqNext]_lfqVars

(* Both threads run; lfq_in is called as the producer pleases. *)
LfqSpec == LfqSafety /\ WF_lfqVars(Producer) /\ WF_lfqVars(Consumer)

-----------------------------------------------------------------------------
LfqTypeOK ==
    /\ lalloc \subseteq Node
    /\ value \in [Node -> Val \cup {NULL}] /\ link \in [Node -> Node \cup {NULL}]
    /\ first \in Node /\ divider \in Node /\ last \in Node
    /\ ppc \in {"idle", "link", "publish", "trim", "free"} /\ tmp \in Node \cup {NULL}
    /\ cpc \in {"idle", "read", "advance"} /\ result \in Val \cup {NULL}
    /\ in \in Seq(Val) /\ out \in Seq(Val)
    /\ llog \in Seq(Node) /\ lntrim \in Nat /\ wild \in BOOLEAN

(* The positions in llog of the nodes on the list. *)
LfqListed == (lntrim + 1) .. Len(llog)

(* What lfq_delete frees: first and what follows, link by link to NULL. *)
Chained ==
    /\ first = llog[lntrim + 1]
    /\ \A i \in LfqListed :
         link[llog[i]] = IF i < Len(llog) THEN llog[i + 1]
                        ELSE IF ppc = "publish" THEN tmp ELSE NULL

(* lfq.c:4 "safe for one producer, one consumer": the producer never frees *)
(* a node that the consumer, anywhere in lfq_out, is about to follow.      *)
LfqNoUseAfterFree == ~wild

(* lfq.c:40-51, 59-63: all that is allocated is on the list, or the node   *)
(* the producer has in hand, so trimming and lfq_delete free everything.   *)
LfqNoNodeLeaked ==
    /\ Chained
    /\ lalloc = {llog[i] : i \in LfqListed}
               \cup (IF ppc \in {"link", "publish", "free"} THEN {tmp} ELSE {})

(* lfq.c:41-65, 71-80: both at once: no step of the producer or of the     *)
(* consumer meets a freed node, and at all times every node that was not   *)
(* freed is in the list or in the producer's hand.                         *)
LfqMemorySafe == LfqNoUseAfterFree /\ LfqNoNodeLeaked

-----------------------------------------------------------------------------
(* The inductive invariant behind these properties.                        *)

LfqLive == {llog[i] : i \in LfqListed}
LfqDivPos == Len(out) + 1

(* The list is the tail of llog, each node once, with the values put in. *)
LfqShape ==
    /\ Len(llog) = Len(in) + 1 /\ lntrim < Len(llog)
    /\ last = llog[Len(llog)]
    /\ \A i, j \in LfqListed : llog[i] = llog[j] => i = j
    /\ \A i \in LfqListed : i > 1 => value[llog[i]] = in[i - 1]

(* The divider stands on the list; a consumer inside lfq_out has a node    *)
(* behind it, whose value it will have read.                               *)
LfqDivider ==
    /\ lntrim < LfqDivPos /\ LfqDivPos <= Len(llog) /\ divider = llog[LfqDivPos]
    /\ cpc # "idle" => LfqDivPos < Len(llog)
    /\ cpc = "advance" => result = in[LfqDivPos]

(* The node in the producer's hand is not on the list, the new one not yet *)
(* and the old one no more.                                                *)
InHand ==
    /\ ppc \in {"link", "publish", "free"} => tmp \in Node \ LfqLive
    /\ ppc \in {"link", "publish"} => value[tmp] \in Val /\ link[tmp] = NULL

LfqInv ==
    /\ LfqTypeOK /\ LfqShape /\ LfqDivider /\ InHand /\ FifoOrder
    /\ LfqNoUseAfterFree /\ LfqNoNodeLeaked
=============================================================================
