------------------------------ MODULE MCCarrier ------------------------------
(* Carrier instantiated for TLC, with a table that suffices. *)
EXTENDS CarrierFits
=============================================================================
