SPECIFICATION FairSpec
CONSTANTS
  Workers = {1, 2}
  Rom <- MCRom
  HeaderLen = 2
  MaxRetry = 1
  MaxUnplugs = 1
  Device = 1
  Room = 4
  Timeout = 3
  Texts <- MCTexts
  Sends = 4
  Counted = 2
  MaxRounds = 3
  MaxStarts = 2
INVARIANTS
  BootsTheRom
  EchoExact
PROPERTIES
  WorkersEnd
  RoundsEnd
CHECK_DEADLOCK FALSE
