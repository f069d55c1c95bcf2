CONSTANTS
  Jobs = {b1, b2, b3, s1}
  Streams = {s1}
  Leavers = {b1}
  MaxLimit = 2
  MaxQueued = 0
SPECIFICATION TimedSpec
INVARIANTS
  TicketsConsistent
  CountersExact
  OccupancyBound
PROPERTIES
  
  TimeoutBoundsWait
