----------------------------- MODULE CarrierFits -----------------------------
(***************************************************************************)
(* The carrier as long as its table suffices.  Slots of the table are not  *)
(* reused and the carrier does not look at the size of the table when it   *)
(* takes fibers in, so what it promises, it promises for a server that     *)
(* accepts at most MAXFIB connections in its lifetime (see TableFits).     *)
(***************************************************************************)
EXTENDS Carrier

ASSUME TableAssumption == N <= MAXFIB
=============================================================================
