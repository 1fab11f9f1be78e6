\* The carrier with one fiber per socket, and the components with a liveness property.
CONSTANTS
    N = 2
    MAXFIB = 2
    MAXEV = 2
    Fd = {d1, d2}
    None = None
    Event = {"in"}
    Exclusive = TRUE
    RdClient = {c1, c2}
    RdSlot = {k1, k2}
    RdWorkers = 2
    RdMaxRmw = 3
    RdDropped = 1
    RdResetAnytime = FALSE
    NgReq = {r1, r2, r3}
    NgThreads = 1
    NgQueue = 1
    RaThread = {t1, t2}
    RaMaxCall = 2
    RaMaxCrash = 1
    FkConn = {c1, c2}
    TcClient = {c1, c2}
    TcMAXCONN = 2
    TcPipe = 1
    TcRounds = 1
    TcSock = 1
    RwFibers = 2
    RwThread = {t1}
    RwRounds = 1
    SsServer = {s1, s2}
    SsClient = {c1, c2}
    SsConns = 1
    SsCacheSize = 1
SPECIFICATION LiveSpec
INVARIANTS ParkedIsArmed
PROPERTIES
    ThreadsSpec ThreadsFairSpec RdAnswered NgFreed RaReturns FkServedUntilOffload
    TcRoundEnds RwFinish SsServersEnd
CHECK_DEADLOCK FALSE
