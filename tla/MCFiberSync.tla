----------------------------- MODULE MCFiberSync -----------------------------
(* FiberSync instantiated for TLC. *)
EXTENDS FiberSync
=============================================================================
