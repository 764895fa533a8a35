SPECIFICATION Spec
CONSTANTS
  Procs = {p1, p2}
  Calls <- RacingCalls
  MaxRequests = 3
  MaxFaults = 0
PROPERTIES AbstractSpec
CHECK_DEADLOCK FALSE
