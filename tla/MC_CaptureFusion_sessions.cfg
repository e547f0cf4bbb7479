\* Two sessions of one job fuse side by side, also before the first measurement.
SPECIFICATION Spec
CONSTANTS
  d1 = d1
  d2 = d2
  s1 = s1
  s2 = s2
  NoSession = NoSession
  Deliveries = {d1, d2}
  Sessions = {s1, s2}
  SessionOf <- TwoSessions
  Rmses = {0, 499}
  PriorConfidence = 9300
  CaptureAnyTime = TRUE
  MaxAttempts = 2
  MaxPipelineRows = 2
  MaxReleases = 0
  Faults <- KillFault
INVARIANTS
  FusedRefinesLidar
CHECK_DEADLOCK FALSE
