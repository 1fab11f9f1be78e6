\* Two fibers and a recursive mutex.
CONSTANTS
    N = 2
    Producers = {1}
    Thread = {}
    PENDN = 2
    MaxItems = 2
    Timed = FALSE
    Recursive = TRUE
SPECIFICATION Spec
INVARIANTS MutualExclusion
