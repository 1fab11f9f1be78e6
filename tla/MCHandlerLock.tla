---------------------------- MODULE MCHandlerLock ----------------------------
(* HandlerLock instantiated for TLC. *)
EXTENDS HandlerLock
=============================================================================
