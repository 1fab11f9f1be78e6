----------------------------- MODULE MCForkChild -----------------------------
(* ForkChild instantiated for TLC. *)
EXTENDS ForkChild
=============================================================================
