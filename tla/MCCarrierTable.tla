---------------------------- MODULE MCCarrierTable ----------------------------
(* Carrier instantiated for TLC, with more connections than table slots. *)
EXTENDS Carrier
=============================================================================
