SPECIFICATION FairSpec
CONSTANTS
  Clients = {1, 2}
  Kinds = {"async", "sync"}
  Modes = {"cable", "spi"}
  HeaderParts = 1
  RomParts = 1
  Tries = 3
  InitialWait = 2
  MainWait = 1
  MaxFinal = 3
  MaxIrqTimeout = 3
  MaxIncidents = 3
PROPERTIES
  SuccessMeansLoaded
  MultibootEnds
CHECK_DEADLOCK FALSE
