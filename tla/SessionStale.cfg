CONSTANTS
  Handlers = {h1, h2}
  Uploads = {u1, u2}
  DeleteAudio = TRUE
  OrderlyUploads = TRUE
  OrderlyJobs = FALSE
  MaxCrashes = 0
  Nobody = Nobody
SPECIFICATION SessionSpec
INVARIANTS
  NoStaleResult
