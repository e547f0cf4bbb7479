\* One delivery, restarts, failing broadcasts and reports.
SPECIFICATION FairSpec
CONSTANTS
  d1 = d1
  d2 = d2
  c1 = c1
  Original = d1
  Deliveries = {d1}
  Calls = {}
  MaxRuns = 2
  MaxAttempts = 3
  MaxReleases = 2
  MaxEdits = 0
  Faults <- BroadcastReportFaults
INVARIANTS
  TypeOK
  MeasuredOnce
  NoOrphanVlm
  ExhaustedIsTerminal
  NoRetryDefeated
PROPERTIES
  Settles
  ImplementsLifecycle
CHECK_DEADLOCK FALSE
