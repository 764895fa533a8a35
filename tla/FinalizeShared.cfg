SPECIFICATION SharedSpec
CONSTANTS
  a = a
  b = b
  task = task
  v0 = v0
  v1 = v1
  ImplFiles = {a}
  TaskFile = task
  Versions = {v0, v1}
  Branches = {"main", "feature", "fix"}
  Tracked = {"main", "feature"}
  MaxCommits = 3
  MaxRuns = 2
  MaxFaults = 1
  Interference = {"edit", "stage", "transition"}
  MaxIntrusions = 2
INVARIANTS PublishedAsApproved OneCommitPerApproval OnlyTheApprovedBranchMoves RecordsAreTrue
PROPERTIES MovesAreGranted GoodEvidencePublishes
CHECK_DEADLOCK FALSE
