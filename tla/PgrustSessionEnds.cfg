\* The same with one notification, under fairness.
SPECIFICATION FairSpec
CONSTANTS
    InRing = 1
    OutRing = 2
    MaxCalls = 2
    MaxNotes = 1
    CanBlock = TRUE
PROPERTIES
    SessionEnds
CHECK_DEADLOCK FALSE
