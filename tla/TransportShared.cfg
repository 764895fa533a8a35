SPECIFICATION Spec
CONSTANTS
  t = t
  h1 = h1
  k1 = k1
  k2 = k2
  Tasks = {t}
  Verdicts = {"APPROVE"}
  Heads = {h1}
  Clerks = {k1, k2}
  MaxSecond = 1
  MaxRuns = 2
  MaxDecisions = 2
  MaxRequests = 1
SYMMETRY ClerkSymmetry
INVARIANTS TypeOK DecidedOnItsExecution OneAnswerPerRequest
PROPERTIES DecisionIsKept
CHECK_DEADLOCK FALSE
