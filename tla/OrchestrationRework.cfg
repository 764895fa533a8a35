SPECIFICATION Spec
CONSTANTS
  f1 = f1
  f2 = f2
  task_md = task_md
  ImplFiles = {f1}
  TaskFile = task_md
  MaxRework = 1
  Repairs = TRUE
  MaxCommits = 3
  MaxBundles = 2
  MaxDecisions = 2
  MaxHandoffs = 2
  MaxRuns = 4
  MaxFaults = 0
  Interference = {}
  MaxOps = 0
INVARIANTS ReworkIsExecuted
CHECK_DEADLOCK FALSE
