----------------------------- MODULE MCDispatch -----------------------------
(* Dispatch for TLC: hook addresses are interchangeable. *)
EXTENDS Dispatch, TLC

HookSymmetry == Permutations(Hook)
=============================================================================
