CONSTANTS
  N = 2
  MaxReruns = 1
  MaxIncidents = 2
  FaultKinds <- MCIdle
  MaxFaults = 1
  MaxResumes = 0
SPECIFICATION Spec
INVARIANTS EveryScoredRowJudged
CHECK_DEADLOCK FALSE
