SPECIFICATION FairSpec
CONSTANTS
  NoOne = NoOne
  N = 2
  Ops = {"sync"}
  MaxOps = 1
  Capacity = 4
  Decoders = {{"EXIT", "SOM", "SOM_RESULT", "OBJ_REF", "OBJ_RESULT"}}
PROPERTIES SyncSendReturns
CHECK_DEADLOCK FALSE
