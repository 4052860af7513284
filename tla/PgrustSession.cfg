\* A query of two messages and a raw call, or two of a kind; two notifications;
\* rings smaller than a message.
SPECIFICATION Spec
CONSTANTS
    InRing = 1
    OutRing = 2
    MaxCalls = 2
    MaxNotes = 2
    CanBlock = TRUE
INVARIANTS
    ReplyIntegrity
    NothingLeftOver
    NotesOnceAndInOrder
CHECK_DEADLOCK FALSE
