CONSTANTS
  N = 2
  MaxReruns = 2
  MaxIncidents = 2
  FaultKinds <- MCNoStop
  MaxFaults = 4
  MaxResumes = 1
SPECIFICATION Spec
INVARIANTS InventoryLoads DispositionBeforeSignal ProbeNeverPastStop RejectedNeverScored RerunsEarned DnfExact
PROPERTIES ImplementsLedger LegSettles
CHECK_DEADLOCK FALSE
