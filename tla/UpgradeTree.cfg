SPECIFICATION Spec
CONSTANTS
  a = a
  b = b
  Files = {a, b}
  PullFaults = {"offline", "conflict", "midway"}
INVARIANTS
  TypeOK
  HalfMergedBootOnlyOfPull
  LocalChangesKept
  VerdictHonest
  QuietUpgradeNeedsStaged
CHECK_DEADLOCK FALSE
