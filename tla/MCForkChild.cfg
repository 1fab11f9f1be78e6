\* A parent that has offloaded forks.
CONSTANTS
    FkConn = {c1, c2}
SPECIFICATION FkSpec
PROPERTIES FkServed
CHECK_DEADLOCK FALSE
