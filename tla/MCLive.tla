------------------------------- MODULE MCLive -------------------------------
(***************************************************************************)
(* The carrier and the components with a liveness property, side by side   *)
(* in one run and in small instances: app says which of them this          *)
(* behaviour is about, the variables of the others keep their initial      *)
(* value.                                                                  *)
(***************************************************************************)
EXTENDS Carrier, RedisDet, Ngx, RemoteAccel, ForkChild, TcoServer, RwLock, SessSocket

VARIABLE app

live == <<vars, rdVars, ngVars, raVars, fkVars, tcVars, rwVars, ssVars, app>>

LiveInit ==
    /\ app \in {"carrier", "redis_detector", "nginx", "remote", "fork", "tco", "rwlock", "tls_sockets"}
    /\ Init
    /\ RdInit /\ (app # "redis_detector" => rdMode = "lock")
    /\ NgInit /\ (app # "nginx" => \A r \in NgReq : ngR[r].loc = "sync")
    /\ RaInit /\ (app # "remote" => raUp)
    /\ FkInit
    /\ TcInit /\ (app # "tco" => tcMode = "coro" /\ tcDev = "emu" /\ tcBefore = 0)
    /\ RwInit
    /\ SsInit

\* Everything but the named component's variables stays as it is.
OnlyCarrier == app = "carrier" /\ UNCHANGED <<app, rdVars, ngVars, raVars, fkVars, tcVars, rwVars, ssVars>>
OnlyRd == app = "redis_detector" /\ UNCHANGED <<app, vars, ngVars, raVars, fkVars, tcVars, rwVars, ssVars>>
OnlyNg == app = "nginx" /\ UNCHANGED <<app, vars, rdVars, raVars, fkVars, tcVars, rwVars, ssVars>>
OnlyRa == app = "remote" /\ UNCHANGED <<app, vars, rdVars, ngVars, fkVars, tcVars, rwVars, ssVars>>
OnlyFk == app = "fork" /\ UNCHANGED <<app, vars, rdVars, ngVars, raVars, tcVars, rwVars, ssVars>>
OnlyTc == app = "tco" /\ UNCHANGED <<app, vars, rdVars, ngVars, raVars, fkVars, rwVars, ssVars>>
OnlyRw == app = "rwlock" /\ UNCHANGED <<app, vars, rdVars, ngVars, raVars, fkVars, tcVars, ssVars>>
OnlySs == app = "tls_sockets" /\ UNCHANGED <<app, vars, rdVars, ngVars, raVars, fkVars, tcVars, rwVars>>

LiveNext ==
    \/ OnlyCarrier /\ Next
    \/ OnlyRd /\ RdNext
    \/ OnlyNg /\ NgNext
    \/ OnlyRa /\ RaNext
    \/ OnlyFk /\ FkNext
    \/ OnlyTc /\ TcNext
    \/ OnlyRw /\ RwNext
    \/ OnlySs /\ SsNext

\* Each component's threads and devices run; see the modules.
LiveServe ==
    \/ OnlyCarrier /\ CarrierStep
    \/ OnlyRd /\ RdServe
    \/ OnlyNg /\ NgServe
    \/ OnlyRa /\ RaStep
    \/ OnlyFk /\ FkServe
    \/ OnlyTc /\ TcSched
    \/ OnlyRw /\ RwVisit
    \/ OnlySs /\ SsMainThread

LiveFairness ==
    /\ WF_live(LiveServe) /\ WF_live(OnlyTc /\ TcUnits)
    /\ \A x \in Fiber : /\ WF_live(OnlyCarrier /\ Resume(x)) /\ WF_live(OnlyCarrier /\ SliceEnd(x))
                       /\ WF_live(OnlyCarrier /\ Complete(x))
    /\ \A x \in TcClient : WF_live(OnlyTc /\ TcThread(x)) /\ WF_live(OnlyTc /\ TcClientStep(x))
    /\ \A x \in RwFiber : WF_live(OnlyRw /\ RwComplete(x))
    /\ \A x \in RwAll : WF_live(OnlyRw /\ RwStep(x))
    /\ \A x \in SsServer : WF_live(OnlySs /\ SsServerThread(x))
    /\ \A x \in SsClient : WF_live(OnlySs /\ SsClientThread(x))

LiveSpec == LiveInit /\ [][LiveNext]_live /\ LiveFairness
=============================================================================
