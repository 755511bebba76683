CONSTANTS
  N = 2
  MaxReruns = 1
  MaxIncidents = 2
  FaultKinds <- MCPreSpawn
  MaxFaults = 3
  MaxResumes = 0
SPECIFICATION Spec
INVARIANTS DnfWasRetried
CHECK_DEADLOCK FALSE
