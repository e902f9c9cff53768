---------------------------- MODULE MCSharedTable ---------------------------
(* SharedTable for TLC: the two routes of mod_http, and others. *)
EXTENDS SharedTable, TLC

MCRoutes == <<"/app/get", "/app/verify">>
RoutePaths == {"/app/get", "/app/verify"}
AnyPaths == RoutePaths \cup {"/", "/other"}
WorkerSymmetry == Permutations(Worker)
=============================================================================
