\* One sync that may be stopped, and packaging after it.
SPECIFICATION Spec
CONSTANTS
  Commits = {a, b}
  None = None
  MaxSyncs = 1
INVARIANTS BundledStoreIsSource
CHECK_DEADLOCK FALSE
