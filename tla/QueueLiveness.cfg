SPECIFICATION FairSpec
CONSTANTS
  NoActor = NoActor
  Senders = {a0}
  Reader = a1
  Size = 2
  Chunk = 2
  BodySizes = {1, 2, 3}
  MaxMessages = 4
INVARIANTS FramingKept
PROPERTIES EveryMessageDelivered
CHECK_DEADLOCK FALSE
