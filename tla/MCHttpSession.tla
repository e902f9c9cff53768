--------------------------- MODULE MCHttpSession ---------------------------
(* HttpSession for TLC: the module's two routes and one more path.  A path *)
(* that is not routed may be cut to one that is.                           *)
EXTENDS HttpSession

CONSTANTS get, verify, other

MCCut ==
  [p \in Path \cup {NoPath} |->
     CASE p = NoPath -> {NoPath}
       [] p = other -> {get, other}
       [] OTHER -> {other}]
=============================================================================
