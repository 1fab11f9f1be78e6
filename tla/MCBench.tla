------------------------------ MODULE MCBench ------------------------------
(* OffloadBench instantiated for TLC. *)
EXTENDS OffloadBench
=============================================================================
