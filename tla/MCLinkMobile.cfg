SPECIFICATION FairSpec
CONSTANTS
  Slots = {s1, s2, s3}
  Questions <- MCQuestions
  Uses <- MCUses
  QueueSize = 2
  Timeout = 2
  InitWait = 1
  InitTimeout = 3
  PingFrequency = 3
  MaxIncidents = 1
  s1 = s1
  s2 = s2
  s3 = s3
  q1 = q1
  q2 = q2
INVARIANTS
  OneTransferAtATime
  
CHECK_DEADLOCK FALSE
PROPERTIES
  WaitsReturn
  CallEndNoticed
