SPECIFICATION Spec
CONSTANTS
  Procs = {p1, p2}
  Calls <- RacingCalls
  MaxRequests = 5
  MaxFaults = 1
SYMMETRY Symmetric
INVARIANTS ChainOfCustody ApprovalHasFullHistory AuditIsHonest
CHECK_DEADLOCK FALSE
