SPECIFICATION Spec
CONSTANTS
  root = root
  viewer = viewer
  i1 = i1
  i2 = i2
  Users = {root, viewer}
  Ips = {i1, i2}
  Logins = {a1, a2}
  Tokens = {t1, t2}
  Schedules = {3, 4}
  DefaultSchedule = 3
  Missing = Missing
  Corrupt = Corrupt
  None = None
  UserLimit = 1
  IpLimit = 2
  Window = 1
  DefaultAge = 2
  Scenarios <- MCScenarios
INVARIANTS
  TypeOK
  FailuresBounded
  InnocentAddressGetsIn
  SweptAtLogin
  FileAgreesWithMemory
PROPERTIES
  SprayIsStopped
  EnvStaysOut
CHECK_DEADLOCK FALSE
