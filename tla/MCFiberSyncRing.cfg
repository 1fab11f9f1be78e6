\* A real thread signals a fiber through pend_ring.
CONSTANTS
    N = 1
    Producers = {}
    Thread = {t1}
    PENDN = 2
    MaxItems = 2
    Timed = FALSE
    Recursive = FALSE
SPECIFICATION Spec
INVARIANTS NoSleepingWithWork
