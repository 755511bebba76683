CONSTANTS
  Schedulers = {launchd, operator}
  Pids = {p1, p2}
  MaxRuns = 2
  MaxFaults = 1
  NoOne = NoOne
SPECIFICATION ReviewSpec
INVARIANT NeverCompeting
CHECK_DEADLOCK FALSE
