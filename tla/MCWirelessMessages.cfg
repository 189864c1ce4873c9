SPECIFICATION MessagesSpec
CONSTANTS
  Clients = {1, 2}
  MAX_PACKET_IDS_SERVER = 4
  MAX_PACKET_IDS_CLIENT = 4
  Size = 1
  Transfer = 1
  Heartbeats = 1
  Exchanges <- MCExchanges
INVARIANTS
  NoMessageLoss
  CountsAgree
