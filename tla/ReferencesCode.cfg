SPECIFICATION ReferencesSpec
CONSTANTS
  o1 = o1
  o2 = o2
  Actors = {0, 1}
  Objects <- TwoObjects
  Owner <- OwnerOfTwo
  Ops = {"send", "return"}
  MaxOps = 3
INVARIANTS ReferencesTypeOK AbroadIsRegistered
CHECK_DEADLOCK FALSE
