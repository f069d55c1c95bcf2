CONSTANTS
  Handlers = {h1, h2, h3}
  Uploads = {u1, u2, u3}
  DeleteAudio = FALSE
  OrderlyUploads = FALSE
  OrderlyJobs = TRUE
  MaxCrashes = 1
  Nobody = Nobody
SPECIFICATION SessionSpec
INVARIANTS
  NoOrphanRecording
PROPERTIES
  CompletedIsFinal
