SPECIFICATION ClientSpec
CONSTANTS
    Closers = {"c1"}
INVARIANTS
    CloseReleases
CHECK_DEADLOCK FALSE
