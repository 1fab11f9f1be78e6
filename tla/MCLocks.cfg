\* Three fibers and a real thread with timed waits; two handlers under every
\* combination of detector, enforcement and application mutex.
CONSTANTS
    N = 3
    Producers = {2}
    Thread = {t1}
    PENDN = 2
    MaxItems = 3
    Timed = TRUE
    Recursive = FALSE
    HlFiber = {1, 2}
    HlNoFib = 0
    MaxReq = 5
    MaxClk = 8
    Detect = {TRUE, FALSE}
    Enforce = {TRUE, FALSE}
    Locked = {TRUE, FALSE}
    Closing = TRUE
SPECIFICATION LocksSpec
INVARIANTS MonitorInv FiberSignalsReach NoLostUpdate LossIsDetected NoFalseAlarm
PROPERTIES WorkIsDone AnsweredUnlessEnforced
