SPECIFICATION Spec
CONSTANTS
  a = a
  b = b
  Files = {a, b}
  PullFaults = {"offline"}
INVARIANTS
  QuietUpgradeCompletes
CHECK_DEADLOCK FALSE
