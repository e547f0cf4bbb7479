\* A second session after the first was fused.
SPECIFICATION Spec
CONSTANTS
  d1 = d1
  d2 = d2
  s1 = s1
  s2 = s2
  NoSession = NoSession
  Deliveries = {d1, d2}
  Sessions = {s1, s2}
  SessionOf <- TwoSessions
  Rmses = {0}
  PriorConfidence = 9300
  CaptureAnyTime = FALSE
  MaxAttempts = 3
  MaxPipelineRows = 1
  MaxReleases = 0
  Faults <- NoFaults
PROPERTIES
  SkippedMeansDone
CHECK_DEADLOCK FALSE
