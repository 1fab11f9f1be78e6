\* Two connections of the coroutines' mode, and the device thread.
CONSTANTS
    ObC = 2
    ObModes = {"coro"}
SPECIFICATION ObSpec
INVARIANTS ObLatencyKept
CHECK_DEADLOCK FALSE
