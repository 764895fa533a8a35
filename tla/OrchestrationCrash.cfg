SPECIFICATION FairSpec
CONSTANTS
  f1 = f1
  f2 = f2
  task_md = task_md
  ImplFiles = {f1, f2}
  TaskFile = task_md
  MaxRework = 1
  Repairs = TRUE
  MaxCommits = 8
  MaxBundles = 5
  MaxDecisions = 5
  MaxHandoffs = 5
  MaxRuns = 5
  MaxFaults = 2
  Interference = {}
  MaxOps = 0
INVARIANTS TypeOK PublishedIsTrue WorkerIsNotRepeated ReleaseIsExecuted
PROPERTIES PreviewWritesNothing AbstractSpec ApprovalIsCarriedOut CommandsEnd
CHECK_DEADLOCK FALSE
