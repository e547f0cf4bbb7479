\* A duplicate run and the terminal guard.
SPECIFICATION Spec
CONSTANTS
  d1 = d1
  d2 = d2
  c1 = c1
  Original = d1
  Deliveries = {d1, d2}
  Calls = {}
  MaxRuns = 2
  MaxAttempts = 3
  MaxReleases = 0
  MaxEdits = 0
  Faults <- NoFaults
PROPERTIES
  TerminalIsFinal
CHECK_DEADLOCK FALSE
