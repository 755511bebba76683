CONSTANTS
  N = 2
  MaxReruns = 1
  MaxIncidents = 2
  FaultKinds <- MCSidecar
  MaxFaults = 3
  MaxResumes = 1
SPECIFICATION Spec
INVARIANTS ResumeRecreatesSidecar
CHECK_DEADLOCK FALSE
