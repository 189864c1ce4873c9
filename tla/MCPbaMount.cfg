SPECIFICATION MountSpec
CONSTANTS
  EntriesMax = 3
  BlockMax = 2
  BlockSize = 2
  U32 = 8
  Names = {abc, x}
  TestName = abc
  Bytes = {1}
  MaxID = 3
  Extents = {0, 3}
  Commands = {}
  ReadOffsets = {0, 1, 2}
  ReadSizes = {1, 4}
  abc = abc
  x = x
CHECK_DEADLOCK FALSE
INVARIANTS
  HeldLive
  NoFreedNode
  LinkCountCached
  ReadComplete
