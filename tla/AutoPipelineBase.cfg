SPECIFICATION Spec
CONSTANTS
  f1 = f1
  f2 = f2
  Files = {f1, f2}
  Scopes = {{f1}}
  Branches = {"main", "work"}
  Litter = {}
  MaxRepairs = 2
  MaxHead = 1
  MaxFaults = 0
INVARIANTS ReadyOnItsBase
CHECK_DEADLOCK FALSE
