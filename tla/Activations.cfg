\* The decoder as it is, and one that also knows the notifications, without which
\* no result of a synchronous send arrives.
SPECIFICATION FairSpec
CONSTANTS
  NoOne = NoOne
  N = 2
  Ops = {"yield", "async", "sync", "reference", "receive", "stop", "exit"}
  MaxOps = 3
  Capacity = 6
  Decoders = {{"EXIT", "SOM", "SOM_RESULT", "OBJ_REF", "OBJ_RESULT"},
              {"EXIT", "SOM", "SOM_RESULT", "OBJ_REF", "OBJ_RESULT", "NEW_REF"}}
INVARIANTS TypeOK InOnePlace OneAnswerPerCall
PROPERTIES DoneBeforeExit ReferenceWakes SyncSendAnswered ShutdownCompletes
CHECK_DEADLOCK FALSE
