\* Three connections, one after the other or at once, and two slots.
CONSTANTS
    N = 3
    MAXFIB = 2
    MAXEV = 1
    Fd = {d1}
    None = None
    Event = {"in"}
    Exclusive = TRUE
SPECIFICATION Spec
INVARIANTS TableFits
