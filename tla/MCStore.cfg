\* Two pages, two attempts each, an image of two files. An arena of four
\* positions that grows by two, and a buffer of two.
SPECIFICATION MCSpec
CONSTANTS
    Pages = {p1, p2}
    Nobody = nobody
    Attempts = 2
    Files = 2
    MaxRows = 1
    Max = 4
    Bytes = {1, 2}
    Chunk = 2
    Buffer = 2
    MaxMeta = 1
INVARIANTS
    OverOwnsNothing
    MeasuredIsFresh
    BootsOnWhole
    AckedSurvives
    AnsweredIsWritten
    SlackIsTrimmed
PROPERTIES
    HandlesComeBack
    MetadataFollowsData
    PortSpec
CHECK_DEADLOCK FALSE
