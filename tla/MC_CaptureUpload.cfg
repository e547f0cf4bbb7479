\* Any two of three bundles, one of them uploaded again by the user.
SPECIFICATION FairSpec
CONSTANTS
  u1 = u1
  u2 = u2
  u3 = u3
  j1 = j1
  j2 = j2
  s1 = s1
  s2 = s2
  Uploads = {u1, u2, u3}
  Jobs = {j1, j2}
  SessionIds = {s1, s2}
  JobOf <- BundleJobs
  SessionOf <- BundleIds
  Parts <- MeshAndPhotos
  NoSession = NoSession
  NoJob = NoJob
  MaxUploads = 2
  Retried = {u1}
  MaxRetries = 1
  MaxFaults = 1
INVARIANTS
  TypeOK
  RefsResolve
  FusesOwnBlobs
  CompleteMeansFused
PROPERTIES
  ImplementsIngest
  UploadEnds
CHECK_DEADLOCK FALSE
