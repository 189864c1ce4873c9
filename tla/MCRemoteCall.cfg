SPECIFICATION FairSpec
CONSTANTS
  W = 3
  Words = {0, 5}
  Room = 7
  Timeout = 3
  Code <- MCCode
  RequestLen <- MCRequestLen
  ResponseLen <- MCResponseLen
  ChunkLen = 3
  MaxCalls = 2
  MaxStarts = 2
INVARIANTS
  MessagesIntact
  QuietBeforeCommand
PROPERTIES
  CallsReturn
CHECK_DEADLOCK FALSE
