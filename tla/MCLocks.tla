------------------------------ MODULE MCLocks ------------------------------
(***************************************************************************)
(* The runtime's locks side by side in one run: the mutex and condition    *)
(* variable of FiberSync ("sync"), or the detector and the handler lock    *)
(* of HandlerLock ("handler"); the other's variables keep one value.       *)
(***************************************************************************)
EXTENDS FiberSync, HandlerLock

VARIABLE app

locks == <<vars, hlVars, app>>

LocksInit ==
    /\ app \in {"sync", "handler"}
    /\ Init
    /\ HlInit /\ (app # "handler" => det_on /\ g_enforce /\ LOCKED)

OnlySync == app = "sync" /\ UNCHANGED <<app, hlVars>>
OnlyHandler == app = "handler" /\ UNCHANGED <<app, vars>>

\* A server of HandlerLock may come to rest, the loop of FiberSync may not.
HandlerRests == OnlyHandler /\ UNCHANGED hlVars

LocksNext == (OnlySync /\ Next) \/ (OnlyHandler /\ HlNext) \/ HandlerRests

\* Fairness of the two modules; f is a fiber of the one or of the other.
LocksFairness ==
    /\ WF_locks(OnlySync /\ CarrierStep)
    /\ \A f \in Fiber \cup HlFiber :
          /\ SF_locks(\/ OnlySync /\ f \in Fiber /\ SliceStep(f)
                      \/ OnlyHandler /\ f \in HlFiber /\ HlCarrierStep(f))
          /\ WF_locks(\/ OnlySync /\ f \in Fiber /\ SliceEnd(f)
                      \/ OnlyHandler /\ f \in HlFiber /\ HandlerStep(f))
    /\ \A t \in Thread : WF_locks(OnlySync /\ ThreadStep(t) /\ tat[t] # "idle")

LocksSpec == LocksInit /\ [][LocksNext]_locks /\ LocksFairness
=============================================================================
