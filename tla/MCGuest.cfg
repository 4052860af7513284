\* Two sessions, a request each, a reply of two tokens through a ring of one;
\* two threads, a vectored write of two blocks each.
SPECIFICATION MCSpec
CONSTANTS
  Sessions = {s1, s2}
  Host = page
  Parts = 2
  RingSize = 1
  MaxRequests = 2
  Guests = {g1, g2}
  Blocks = 2
  MaxWrites = 1
INVARIANTS NobodySleepsThrough IdleParks WritesAreTold
PROPERTY EveryWaitEnds
CHECK_DEADLOCK FALSE
