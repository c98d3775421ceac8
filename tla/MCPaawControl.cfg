SPECIFICATION FairSpec
CONSTANTS
  r1 = r1
  r2 = r2
  r3 = r3
  Requests = {r1, r2, r3}
  None = None
  KillOutcomes = {"sent", "throws", "errors"}
  SpawnOutcomes = {"alive", "enoent", "throws"}
INVARIANTS
  TypeOK
  OneLiveServer
  HandleOwnsServer
  ConfirmedStop
  OneTerminalEvent
  StatusAgreesWithHandle
  WaitersAccountedFor
PROPERTIES
  RestoreOnlyWhileDown
  UpgradeOverlapsOnlyItsBatch
  EveryRequestAnswered
  ImplementsContract
CHECK_DEADLOCK FALSE
