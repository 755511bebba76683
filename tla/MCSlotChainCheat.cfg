CONSTANTS
  N = 2
  MaxReruns = 1
  MaxIncidents = 2
  FaultKinds <- MCCheatStop
  MaxFaults = 3
  MaxResumes = 1
SPECIFICATION Spec
INVARIANTS CheatIsWhatReruns
CHECK_DEADLOCK FALSE
