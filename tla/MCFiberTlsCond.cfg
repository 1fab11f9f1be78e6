\* Two fibers, one of them in a condition wait.
CONSTANTS
    FtFiber = {f1, f2}
    FtErrbuf = 2
    FtRaise = {0}
    FtRounds = 1
SPECIFICATION FtSpec
INVARIANTS FtCondKept
CHECK_DEADLOCK FALSE
