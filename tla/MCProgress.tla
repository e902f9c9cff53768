----------------------------- MODULE MCProgress -----------------------------
(***************************************************************************)
(* What the server owes its clients, for TLC: Delivery, where system calls *)
(* fail, and HttpSession with an orderly client, which waits for each      *)
(* answer and whose requests arrive whole.  In every behaviour one of the  *)
(* two runs, which says which; the other stays as it begins.               *)
(***************************************************************************)
EXTENDS Delivery, HttpSession

CONSTANTS get, verify, other      \* paths of HttpSession

VARIABLE which

\* No URL is cut.
MCCut == [p \in Path \cup {NoPath} |-> {p}]

\* The client is one of those AnswersAreOwn is about.
ASSUME MCAssumption == Orderly

allVars == <<which, vars, sessionVars>>

InDelivery(A) == which = "delivery" /\ A /\ UNCHANGED <<which, sessionVars>>
InHttp(A) == which = "http" /\ A /\ UNCHANGED <<which, vars>>

MCInit == which \in {"delivery", "http"} /\ Init /\ SessionInit

MCSpec ==
  /\ MCInit /\ [][InDelivery(Next) \/ InHttp(SessionNext)]_allVars
  /\ WF_allVars(InDelivery(MainProgress)) /\ WF_allVars(InDelivery(WorkerProgress))
  /\ WF_allVars(InHttp(Deliver)) /\ WF_allVars(InHttp(SessionStep))
=============================================================================
