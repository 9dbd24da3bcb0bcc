SPECIFICATION FairSpec
CONSTANTS
  NoActor = NoActor
  Senders = {a0, a2}
  Reader = a1
  Size = 3
  Chunk = 2
  BodySizes = {1, 2}
  MaxMessages = 4
INVARIANTS TypeOK RingAccounting WriterAndReaderApart
PROPERTIES ImplementsChannel
CHECK_DEADLOCK FALSE
