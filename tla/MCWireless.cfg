SPECIFICATION Spec
CONSTANTS
  Clients = {1}
  MAX_PACKET_IDS_SERVER = 4
  MAX_PACKET_IDS_CLIENT = 4
  Size = 1
  Transfer = 1
  Heartbeats = 2
  timeout = 1
  Budgets <- MCBudgets
INVARIANTS
  NoPacketLoss
  OneCommandAtATime
  LeaverNoticed
CHECK_DEADLOCK FALSE
