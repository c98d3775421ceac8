SPECIFICATION Spec
CONSTANTS
  Versions = {1, 2}
  AutoUpdate = {TRUE}
PROPERTY
  FailedStartRollsBack
