\* Liveness under RT_ENFORCE.
CONSTANTS
    HlFiber = {f1, f2, f3}
    HlNoFib = HlNoFib
    MaxReq = 3
    MaxClk = 8
    Detect = {FALSE}
    Enforce = {TRUE}
    Locked = {FALSE}
    Closing = TRUE
SPECIFICATION HlFairSpec
PROPERTIES RequestAnswered
CHECK_DEADLOCK FALSE
