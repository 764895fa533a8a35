SPECIFICATION Spec
CONSTANTS
  f1 = f1
  f2 = f2
  task_md = task_md
  ImplFiles = {f1}
  TaskFile = task_md
  MaxRework = 1
  Repairs = FALSE
  MaxCommits = 4
  MaxBundles = 2
  MaxDecisions = 2
  MaxHandoffs = 2
  MaxRuns = 3
  MaxFaults = 0
  Interference = {"decide", "transition", "commit", "discard", "edit", "reconcile", "finalize"}
  MaxOps = 3
INVARIANTS PublishedWithAuthority FinalizationIsApproved NoDecisionIsReused DecisionsAreAppliedOnce CalledOwnerIsHeard PublishedRunsLeaveTheInbox
CHECK_DEADLOCK FALSE
