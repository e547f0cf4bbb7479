\* A second delivery or a direct re-run beside the delivery, with an edit of the
\* inputs, killed processes and failing commits.
SPECIFICATION Spec
CONSTANTS
  d1 = d1
  d2 = d2
  c1 = c1
  Original = d1
  Deliveries = {d1, d2}
  Calls = {c1}
  MaxRuns = 2
  MaxAttempts = 2
  MaxReleases = 0
  MaxEdits = 1
  Faults <- CommitKillFaults
INVARIANTS
  CallCoversItsInputs
  ReadyHasMeasurement
  HonestMeasurements
CHECK_DEADLOCK FALSE
