SPECIFICATION Spec
CONSTANTS
  Players = {0, 1}
  Size = 1
  timeout = 1
  MaxWords = 2
  MaxIncidents = 1
INVARIANTS
  AtMostOnce
  NothingLost
  SilenceNoticed
CHECK_DEADLOCK FALSE
