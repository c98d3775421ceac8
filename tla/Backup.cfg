SPECIFICATION Spec
SYMMETRY Alike
VIEW Read
CONSTANTS
  db = db
  state = state
  Files = {db, state}
  NaN = NaN
  Limits <- ChosenLimits
  MaxHour = 2
  MaxVersion = 2
  MaxRequests = 3
INVARIANT
  TypeOK
PROPERTIES
  RetentionKeepsNewest
  PastArchivesStand
  RestoreBringsBackOtherHours
  OverwrittenDataIsSafe
CHECK_DEADLOCK FALSE
