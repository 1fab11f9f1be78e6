\* Two fibers with OpenSSL errors in their queues.
CONSTANTS
    FtFiber = {f1, f2}
    FtErrbuf = 2
    FtRaise = {0, 1, 4}
    FtRounds = 1
SPECIFICATION FtSpec
INVARIANTS FtQueueKept
CHECK_DEADLOCK FALSE
