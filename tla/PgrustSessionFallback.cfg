\* No notification is needed: a query and a raw call that overlap.
SPECIFICATION Spec
CONSTANTS
    InRing = 1
    OutRing = 2
    MaxCalls = 2
    MaxNotes = 0
    CanBlock = TRUE
INVARIANTS
    FallbackIsCorrect
CHECK_DEADLOCK FALSE
