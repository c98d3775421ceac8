SPECIFICATION Spec
CONSTANTS
  Versions = {1, 2, 3}
  AutoUpdate = {TRUE, FALSE}
INVARIANT
  TypeOK
PROPERTIES
  ImplementsStore
  UpdateSparesCurrent
  FailedUpdateStillStarts
