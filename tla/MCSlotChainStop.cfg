CONSTANTS
  N = 3
  MaxReruns = 1
  MaxIncidents = 2
  FaultKinds <- MCNoCheat
  MaxFaults = 3
  MaxResumes = 2
SPECIFICATION Spec
INVARIANTS InventoryLoads
PROPERTIES ScoredIsStable LegSettles
CHECK_DEADLOCK FALSE
