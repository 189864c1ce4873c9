SPECIFICATION FairSpec
CONSTANTS
  Size = 2
  MaxWords = 5
  Uses <- MCUses
INVARIANTS
  IncomingConsistent
PROPERTIES
  ImplementsPipe
  OutboundDelivered
  InboundDelivered
  ReadInOrder
