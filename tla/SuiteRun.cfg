\* Two clients of a scenario on each kind of engine, a ring of one unit and
\* frames of up to two, one fault of the guest at a time.
SPECIFICATION Spec
CONSTANTS
  NClients = 2
  Ring = 1
  MaxLoops = 2
  NColumns = 1
  Kinds = {"pglite", "wasqlite", "wire", "threads", "postmaster"}
INVARIANTS NeverOverlaps ReportsAreOwn LeavesNothing
PROPERTIES SuiteEnds
CHECK_DEADLOCK FALSE
