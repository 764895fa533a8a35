SPECIFICATION Spec
CONSTANTS
  a = a
  b = b
  task = task
  v0 = v0
  v1 = v1
  ImplFiles = {a}
  TaskFile = task
  Versions = {v0, v1}
  Branches = {"main", "feature"}
  Tracked = {"main", "feature"}
  MaxCommits = 4
  MaxRuns = 2
  MaxFaults = 0
  Interference = {"edit", "stage", "transition", "switch", "commit"}
  MaxIntrusions = 3
INVARIANTS MainIsNeverPushed
CHECK_DEADLOCK FALSE
