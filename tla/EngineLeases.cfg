CONSTANTS
  Engines = {e1, e2, e3, e4}
  Users = {u1, u2}
  Configs = {c1, c2}
  NoEngine = NoEngine
  MaxFailures = 1
SPECIFICATION FairLeaseSpec
CHECK_DEADLOCK FALSE
INVARIANTS
  LeasesConsistent
  NoModelLeak
PROPERTIES
  LeasedStaysLoaded
  RetiredCloses
