\* Small instances of the components; the README says why they are enough.
CONSTANTS
    RdClient = {c1, c2, c3}
    RdSlot = {k1, k2}
    RdWorkers = 2
    RdMaxRmw = 3
    RdDropped = 1
    RdResetAnytime = FALSE
    RpClient = {c1, c2, c3}
    RpWorker = {w1, w2}
    RpQN = 3
    RpMaxCmd = 4
    NgReq = {r1, r2, r3}
    NgThreads = 1
    NgQueue = 1
    SpConn = {c1, c2}
    SpWorker = {w1, w2}
    SpIds = {0, 239, 2287, 264431, 1000000}
    SpMaxNotify = 2
    AsThread = {t1, t2}
    AsNSLOT = 3
    AsBatch = 2
    AsMaxId = 4
    RaThread = {t1, t2}
    RaMaxCall = 3
    RaMaxCrash = 1
    FtFiber = {f1, f2}
    FtErrbuf = 2
    FtRaise = {0, 1, 4}
    FtRounds = 2
    FkConn = {c1, c2}
    DlBase = 4
    DlMs = 2
    DlMaxSec = 1
    TcClient = {c1, c2}
    TcMAXCONN = 2
    TcPipe = 2
    TcRounds = 2
    TcSock = 2
    OlPool = 2
    OlRING = 2
    OlCQN = 2
    OlArrivals = 4
    ObC = 2
    ObModes = {"busy", "block", "coro"}
    FcFiber = {f1, f2}
    FcTop = 24
    FcRounds = 1
    FcDepth = {0, 2}
    ShThread = {t1, t2}
    ShIters = 2
    ShQN = 2
    ShNBLOCK = 3
    ShBlocks = 2
    ShBare = {"counter", "stats", "queue", "cache"}
    AeKeys <- MCKeys
    AeBases = {0, 255}
    AeBlocks = 2
    AeThreads = 3
    RwFibers = 2
    RwThread = {t1}
    RwRounds = 1
    DtFiber = {f1, f2, f3}
    DtWord = {0, 1, 2}
    DtPageOf <- MCPageOf
    SsServer = {s1, s2}
    SsClient = {c1, c2}
    SsConns = 2
    SsCacheSize = 1
    C = 3
    Key = {k1, k2}
    N_ITERS = 2
    Modes = {"detect", "serial", "lock"}
SPECIFICATION PartsSpec
INVARIANTS
    RdAccounts RpServed NgReferences SpFrames AsExclusive RaResults FtKept DlOnTime
    TcReplies OlPlaces ObResultReady FcSwitches ShLockedIntact RwNoLost
PROPERTIES
    DtLostIsCaught AeStandard CommitsAreAtomic FallbackIsConflict Terminates
CHECK_DEADLOCK FALSE
