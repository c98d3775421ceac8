SPECIFICATION FairSpec
CONSTANTS
  c1 = c1
  c2 = c2
  c3 = c3
  r1 = r1
  r2 = r2
  u1 = u1
  Children = {c1, c2, c3}
  Requests = {r1, r2}
  Uploads = {u1}
  Homes = {h1, h2}
  Servers = {s1, s2}
  Empty = Empty
  Torn = Torn
  None = None
  Scenarios <- MCScenarios
INVARIANTS
  TypeOK
  OneLiveChild
  LiveChildTracked
  NoExitedChildRegistered
  OneHome
  ExitTakesServerAlong
  SettingsPersist
PROPERTY
  NothingHangsUnlessStruck
CHECK_DEADLOCK FALSE
