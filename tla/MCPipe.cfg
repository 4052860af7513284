\* A ring of two bytes under header words of three bits: nine bytes take them
\* round twice. Two slots and three instances that may spawn, three threads.
SPECIFICATION MCSpec
CONSTANTS
    Capacity = 2
    Span = 8
    MaxIO = 3
    MaxBytes = 9
    PoolSize = 2
    Args = {7, 8}
    MaxSpawns = 3
INVARIANTS
    NoDataRace
    NoLostWakeup
    NoLostStart
PROPERTIES
    ChannelSpec
    PipeDrains
    PoolSpec
    StartsRun
CHECK_DEADLOCK FALSE
