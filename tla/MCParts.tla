------------------------------ MODULE MCParts ------------------------------
(***************************************************************************)
(* The components that do not interact with the carrier's model, side by   *)
(* side in one run: app says which of them this behaviour is about, the    *)
(* variables of the others keep a single initial value.                    *)
(***************************************************************************)
EXTENDS RedisDet, RedisPool, Ngx, Spoa, AccelSlots,
        RemoteAccel, FiberTls, ForkChild, Deadline, TcoServer,
        OpenLoop, OffloadBench, FiberContext, SharedState, AesGpu,
        RwLock, DetectorTest, SessSocket, SpecSerialize

VARIABLE app

parts == <<rdVars, rpVars, ngVars, spVars, asVars, raVars, ftVars, fkVars, dlVars, tcVars,
           olVars, obVars, fcVars, shVars, aeVars, rwVars, dtVars, ssVars, vars, app>>

\* Values for the configuration.
MCKeys == {[n \in 1..16 |-> 7 * (n - 1) + 1], [n \in 1..16 |-> 255]}
MCPageOf == [w \in 0..2 |-> w \div 2]
DlZero == [sec |-> 0, nsec |-> 0]
MCApps == {"redis_detector", "redis_pool", "nginx", "haproxy", "libaccel", "remote",
           "tls", "fork", "deadline", "tco", "openloop", "bench",
           "context", "shared", "aes", "rwlock", "detector_test", "tls_sockets", "serialize"}

PartsInit ==
    /\ app \in MCApps
    /\ RdInit /\ (app # "redis_detector" => rdMode = "lock")
    /\ RpInit
    /\ NgInit /\ (app # "nginx" => \A r \in NgReq : ngR[r].loc = "sync")
    /\ SpInit /\ (app # "haproxy" => spBase = CHOOSE x \in SpIds : TRUE)
    /\ AsInit /\ (app # "libaccel" => asLib = "emu")
    /\ RaInit /\ (app # "remote" => raUp)
    /\ FtInit /\ (app # "tls" => ftRt = "coop_saved")
    /\ FkInit
    /\ DlInit /\ (app # "deadline" => dlMono = DlZero /\ dlReal = DlZero)
    /\ TcInit /\ (app # "tco" => tcMode = "coro" /\ tcDev = "emu" /\ tcBefore = 0)
    /\ OlInit /\ (app # "openloop" => olMode = "coro")
    /\ ObInit /\ (app # "bench" => obLib = "accel_compare" /\ obMode = "coro")
    /\ FcInit /\ (app # "context" => fcArch = "x86_64")
    /\ ShInit /\ (app # "shared" => shPat = "counter" /\ shLocked)
    /\ AeInit
    /\ RwInit
    /\ DtInit /\ (app # "detector_test" => \A f \in DtFiber : dtWord[f] = CHOOSE w \in DtWord : TRUE)
    /\ SsInit
    /\ Init /\ (app # "serialize" => MODE = CHOOSE m \in Modes : TRUE)

\* Everything but the named component's variables stays as it is.
OnlyRd == app = "redis_detector" /\ UNCHANGED <<app, rpVars, ngVars, spVars, asVars, raVars, ftVars, fkVars, dlVars, tcVars,
                 olVars, obVars, fcVars, shVars, aeVars, rwVars, dtVars, ssVars, vars>>
OnlyRp == app = "redis_pool" /\ UNCHANGED <<app, rdVars, ngVars, spVars, asVars, raVars, ftVars, fkVars, dlVars, tcVars,
                 olVars, obVars, fcVars, shVars, aeVars, rwVars, dtVars, ssVars, vars>>
OnlyNg == app = "nginx" /\ UNCHANGED <<app, rdVars, rpVars, spVars, asVars, raVars, ftVars, fkVars, dlVars, tcVars,
                 olVars, obVars, fcVars, shVars, aeVars, rwVars, dtVars, ssVars, vars>>
OnlySp == app = "haproxy" /\ UNCHANGED <<app, rdVars, rpVars, ngVars, asVars, raVars, ftVars, fkVars, dlVars, tcVars,
                 olVars, obVars, fcVars, shVars, aeVars, rwVars, dtVars, ssVars, vars>>
OnlyAs == app = "libaccel" /\ UNCHANGED <<app, rdVars, rpVars, ngVars, spVars, raVars, ftVars, fkVars, dlVars, tcVars,
                 olVars, obVars, fcVars, shVars, aeVars, rwVars, dtVars, ssVars, vars>>
OnlyRa == app = "remote" /\ UNCHANGED <<app, rdVars, rpVars, ngVars, spVars, asVars, ftVars, fkVars, dlVars, tcVars,
                 olVars, obVars, fcVars, shVars, aeVars, rwVars, dtVars, ssVars, vars>>
OnlyFt == app = "tls" /\ UNCHANGED <<app, rdVars, rpVars, ngVars, spVars, asVars, raVars, fkVars, dlVars, tcVars,
                 olVars, obVars, fcVars, shVars, aeVars, rwVars, dtVars, ssVars, vars>>
OnlyFk == app = "fork" /\ UNCHANGED <<app, rdVars, rpVars, ngVars, spVars, asVars, raVars, ftVars, dlVars, tcVars,
                 olVars, obVars, fcVars, shVars, aeVars, rwVars, dtVars, ssVars, vars>>
OnlyDl == app = "deadline" /\ UNCHANGED <<app, rdVars, rpVars, ngVars, spVars, asVars, raVars, ftVars, fkVars, tcVars,
                 olVars, obVars, fcVars, shVars, aeVars, rwVars, dtVars, ssVars, vars>>
OnlyTc == app = "tco" /\ UNCHANGED <<app, rdVars, rpVars, ngVars, spVars, asVars, raVars, ftVars, fkVars, dlVars,
                 olVars, obVars, fcVars, shVars, aeVars, rwVars, dtVars, ssVars, vars>>
OnlyOl == app = "openloop" /\ UNCHANGED <<app, rdVars, rpVars, ngVars, spVars, asVars, raVars, ftVars, fkVars, dlVars,
                 tcVars, obVars, fcVars, shVars, aeVars, rwVars, dtVars, ssVars, vars>>
OnlyOb == app = "bench" /\ UNCHANGED <<app, rdVars, rpVars, ngVars, spVars, asVars, raVars, ftVars, fkVars, dlVars,
                 tcVars, olVars, fcVars, shVars, aeVars, rwVars, dtVars, ssVars, vars>>
OnlyFc == app = "context" /\ UNCHANGED <<app, rdVars, rpVars, ngVars, spVars, asVars, raVars, ftVars, fkVars, dlVars,
                 tcVars, olVars, obVars, shVars, aeVars, rwVars, dtVars, ssVars, vars>>
OnlySh == app = "shared" /\ UNCHANGED <<app, rdVars, rpVars, ngVars, spVars, asVars, raVars, ftVars, fkVars, dlVars,
                 tcVars, olVars, obVars, fcVars, aeVars, rwVars, dtVars, ssVars, vars>>
OnlyAe == app = "aes" /\ UNCHANGED <<app, rdVars, rpVars, ngVars, spVars, asVars, raVars, ftVars, fkVars, dlVars,
                 tcVars, olVars, obVars, fcVars, shVars, rwVars, dtVars, ssVars, vars>>
OnlyRw == app = "rwlock" /\ UNCHANGED <<app, rdVars, rpVars, ngVars, spVars, asVars, raVars, ftVars, fkVars, dlVars,
                 tcVars, olVars, obVars, fcVars, shVars, aeVars, dtVars, ssVars, vars>>
OnlyDt == app = "detector_test" /\ UNCHANGED <<app, rdVars, rpVars, ngVars, spVars, asVars, raVars, ftVars, fkVars, dlVars,
                 tcVars, olVars, obVars, fcVars, shVars, aeVars, rwVars, ssVars, vars>>
OnlySs == app = "tls_sockets" /\ UNCHANGED <<app, rdVars, rpVars, ngVars, spVars, asVars, raVars, ftVars, fkVars, dlVars,
                 tcVars, olVars, obVars, fcVars, shVars, aeVars, rwVars, dtVars, vars>>
OnlySerialize == app = "serialize" /\ UNCHANGED <<app, rdVars, rpVars, ngVars, spVars, asVars, raVars, ftVars, fkVars, dlVars,
                 tcVars, olVars, obVars, fcVars, shVars, aeVars, rwVars, dtVars, ssVars>>

PartsNext ==
    \/ OnlyRd /\ RdNext
    \/ OnlyRp /\ RpNext
    \/ OnlyNg /\ NgNext
    \/ OnlySp /\ SpNext
    \/ OnlyAs /\ AsNext
    \/ OnlyRa /\ RaNext
    \/ OnlyFt /\ FtNext
    \/ OnlyFk /\ FkNext
    \/ OnlyDl /\ DlNext
    \/ OnlyTc /\ TcNext
    \/ OnlyOl /\ OlNext
    \/ OnlyOb /\ ObNext
    \/ OnlyFc /\ FcNext
    \/ OnlySh /\ ShNext
    \/ OnlyAe /\ AeNext
    \/ OnlyRw /\ RwNext
    \/ OnlyDt /\ DtNext
    \/ OnlySs /\ SsNext
    \/ OnlySerialize /\ Next

\* The prototype's scheduler and its device run; see the module.
PartsFairness ==
    /\ WF_parts(OnlySerialize /\ SchedulerStep)
    /\ \A x \in Coro : WF_parts(OnlySerialize /\ Complete(x))

PartsSpec == PartsInit /\ [][PartsNext]_parts /\ PartsFairness
=============================================================================
