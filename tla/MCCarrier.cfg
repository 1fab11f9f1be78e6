\* Fibers may use each other's descriptors; two descriptors, so they are reused;
\* an event array of one, so that an event has to wait for a later pass.
CONSTANTS
    N = 2
    MAXFIB = 2
    MAXEV = 1
    Fd = {d1, d2}
    None = None
    Event = {"in", "out"}
    Exclusive = FALSE
SPECIFICATION Spec
INVARIANTS TypeOK ArmedIsParked DeviceOwnsBuffer NoFiberLost
