CONSTANTS
  Handlers = {h1}
  Uploads = {u1, u2, u3}
  DeleteAudio = TRUE
  OrderlyUploads = TRUE
  OrderlyJobs = FALSE
  MaxCrashes = 2
  Nobody = Nobody
SPECIFICATION LiveSessionSpec
INVARIANTS
  
  NoStaleResult
  RecordingOnDisk
PROPERTIES
  ClaimEnds
