\* Every lane with two rows. Two commits, one release of each, two syncs, each
\* from any of them or from any checkout, with anything packaged in between.
SPECIFICATION MCSpec
CONSTANTS
  NRows = 2
  Commits = {a, b}
  None = None
  MaxSyncs = 2
INVARIANTS NothingLeft ResultsAreTrue SyncedIsRecorded NeverMixed PublishedStoreIsSource
PROPERTY ALaneEnds
CHECK_DEADLOCK FALSE
