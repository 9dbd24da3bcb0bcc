SPECIFICATION Spec
CONSTANTS
  Null = Null
  Size = 10
  Header = 2
  Buffer = 1
  Requests = {2, 3}
  MaxDepth = 2
INVARIANTS TypeOK HeapExact TableExact
CHECK_DEADLOCK FALSE
