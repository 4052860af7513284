SPECIFICATION Spec
CONSTANTS
  Capacity = 2
  Span = 8
  MaxIO = 2
  MaxBytes = 2
INVARIANT EofOnlyWhenDrained
CHECK_DEADLOCK FALSE
