SPECIFICATION FairSpec
CONSTANTS
  f1 = f1
  f2 = f2
  Files = {f1}
  Scopes = {{}, {f1}}
  Branches = {"main", "work", "other"}
  Litter = {f1}
  MaxRepairs = 2
  MaxHead = 1
  MaxFaults = 1
INVARIANTS ReadyIsVerified FallbackStartsClean FirstRepairKeepsTheBase
PROPERTIES TerminationIsFinal GovernanceFailuresStop PipelineEnds
CHECK_DEADLOCK FALSE
