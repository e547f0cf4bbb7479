\* A restart between the commit and the report.
SPECIFICATION Spec
CONSTANTS
  d1 = d1
  d2 = d2
  c1 = c1
  Original = d1
  Deliveries = {d1}
  Calls = {}
  MaxRuns = 2
  MaxAttempts = 3
  MaxReleases = 1
  MaxEdits = 0
  Faults <- NoFaults
INVARIANTS
  ReadyHasReport
CHECK_DEADLOCK FALSE
