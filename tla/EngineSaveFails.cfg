CONSTANTS
  Engines = {e1, e2}
  Users = {u1}
  Configs = {c1, c2}
  NoEngine = NoEngine
  MaxFailures = 1
SPECIFICATION LeaseSpec
CHECK_DEADLOCK FALSE
INVARIANTS
  SavedMeansLoaded
