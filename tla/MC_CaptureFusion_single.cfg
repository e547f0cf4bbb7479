\* One delivery, two pipeline rows, restarts and failing broadcasts.
SPECIFICATION FairSpec
CONSTANTS
  d1 = d1
  d2 = d2
  s1 = s1
  s2 = s2
  NoSession = NoSession
  Deliveries = {d1}
  Sessions = {s1}
  SessionOf <- OneDelivery
  Rmses = {0, 499, 500}
  PriorConfidence = 9300
  CaptureAnyTime = FALSE
  MaxAttempts = 3
  MaxPipelineRows = 2
  MaxReleases = 2
  Faults <- BroadcastFault
INVARIANTS
  TypeOK
  FusedOnce
  EndsVisibly
PROPERTIES
  EveryDeliveryEnds
  ImplementsTable
CHECK_DEADLOCK FALSE
