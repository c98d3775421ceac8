SPECIFICATION Spec
CONSTANTS
  r1 = r1
  r2 = r2
  r3 = r3
  Requests = {r1, r2, r3}
  None = None
  KillOutcomes = {"sent"}
  SpawnOutcomes = {"alive"}
PROPERTY
  NeverUpgradeUnderLiveServer
CHECK_DEADLOCK FALSE
