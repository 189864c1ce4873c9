SPECIFICATION Spec
CONSTANTS
  EntriesMax = 3
  BlockMax = 3
  BlockSize = 2
  U32 = 3
  Names = {abc}
  TestName = abc
  Bytes = {1}
  MaxID = 3
  Extents = {0, 1, 3}
  Commands = {"STATVFS", "READDIR", "LOOKUP", "GETATTR", "CREATE", "WRITE", "READ", "MKDIR", "RM", "RECLAIM", "SETSIZE"}
  abc = abc
CHECK_DEADLOCK FALSE
INVARIANTS
  TypeOK
  IdsUnique
  AlignedReadExact
  SizesAgree
  BlocksCovered
  SparesBlank
PROPERTIES
  DeadStayDeadAlways
  OneFileChangesAlways
  ResizeKeepsBytesAlways
  WriteStaysInRangeAlways
VIEW StoreView
