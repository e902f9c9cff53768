------------------------------ MODULE MCServer ------------------------------
(***************************************************************************)
(* HttpSession, SocketSetup, SharedTable and Delivery for TLC: a           *)
(* connection is served whatever its client sends, the server starts,      *)
(* workers share the route table, and system calls fail.  In every         *)
(* behaviour one of them runs, which says which; the others stay as they   *)
(* begin.  Workers ask the table for any path; what is said of it ends     *)
(* with the first race, which is kept for ever, so the behaviours do too.  *)
(***************************************************************************)
EXTENDS HttpSession, SocketSetup, SharedTable, Delivery, TLC

CONSTANTS get, verify, other,   \* paths of HttpSession
          w1, w2,               \* workers of SharedTable
          p1, p2                \* clients of Delivery

VARIABLE which

\* A path that is not routed may be cut to one that is.
MCCut ==
  [p \in Path \cup {NoPath} |->
     CASE p = NoPath -> {NoPath}
       [] p = other -> {get, other}
       [] OTHER -> {other}]

\* The routes module_start registers.
MCRegistered == <<"/app/get", "/app/verify">>

\* What the theorems about these components assume is so here.
ASSUME MCAssumption == ConstOK /\ RoutesOK /\ AnswerLen <= SndBuf

\* The clients look alike, and so do the workers.
Symmetry == Permutations({p1, p2}) \cup Permutations(Worker)

MCInit ==
  /\ which \in {"http", "setup", "table", "delivery"}
  /\ SessionInit /\ SetupInit /\ TableInit /\ Init
  /\ which # "setup" => family = "ip"

MCNext ==
  /\ UNCHANGED which
  /\ \/ which = "http" /\ SessionNext /\ UNCHANGED <<setupVars, tableVars, vars>>
     \/ which = "setup" /\ SetupNext /\ UNCHANGED <<sessionVars, tableVars, vars>>
     \/ which = "table" /\ ~raced /\ TableNext /\ UNCHANGED <<sessionVars, setupVars, vars>>
     \/ which = "delivery" /\ Next /\ UNCHANGED <<sessionVars, setupVars, tableVars>>

MCSpec == MCInit /\ [][MCNext]_<<which, sessionVars, setupVars, tableVars, vars>>
=============================================================================
