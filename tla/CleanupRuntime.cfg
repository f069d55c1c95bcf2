CONSTANTS
  Users = {u1, u2}
  Models = {m1, m2}
  Workers = {w1, w2}
  NoModel = NoModel
  NoWorker = NoWorker
SPECIFICATION FairCleanupSpec
CHECK_DEADLOCK FALSE
INVARIANTS
  CleanupConsistent
  NoServerLeak
PROPERTIES
  KeepsItsServer
  LoadsEnd
