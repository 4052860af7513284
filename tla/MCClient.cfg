\* Two calls of close(); two callers on a name in small letters and in capitals, six calls between them.
SPECIFICATION MCSpec
CONSTANTS
    Closers = {"c1", "c2"}
    Subscribers = {a, b}
    Names = {n}
    MaxListens = 6
INVARIANTS
    StoreOutlivesServer
    NobodyLeft
    Subscriptions
PROPERTIES
    EngineSpec
    EveryCallEnds
CHECK_DEADLOCK FALSE
