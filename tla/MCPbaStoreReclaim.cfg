SPECIFICATION Spec
CONSTANTS
  EntriesMax = 3
  BlockMax = 2
  BlockSize = 2
  U32 = 4
  Names = {abc, x}
  TestName = abc
  Bytes = {1}
  MaxID = 4
  Extents = {0, 1}
  Commands = {"WRITE", "RECLAIM"}
  abc = abc
  x = x
CHECK_DEADLOCK FALSE
INVARIANTS
  ReclaimFreesBlocks
