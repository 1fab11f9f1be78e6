----------------------------- MODULE MCFiberTls -----------------------------
(* FiberTls instantiated for TLC. *)
EXTENDS FiberTls
=============================================================================
