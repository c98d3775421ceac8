SPECIFICATION Spec
CONSTANTS
  a = a
  b = b
  Files = {a, b}
  PullFaults = {"offline", "conflict"}
INVARIANTS
  NeverBootHalfMerged
CHECK_DEADLOCK FALSE
