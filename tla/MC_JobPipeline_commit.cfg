\* The persist transaction fails on the last attempt.
SPECIFICATION Spec
CONSTANTS
  d1 = d1
  d2 = d2
  c1 = c1
  Original = d1
  Deliveries = {d1}
  Calls = {}
  MaxRuns = 2
  MaxAttempts = 3
  MaxReleases = 0
  MaxEdits = 0
  Faults <- CommitFault
INVARIANTS
  ExhaustedIsTerminal
CHECK_DEADLOCK FALSE
