SPECIFICATION Spec
CONSTANTS
  d1 = d1
  d2 = d2
  None = None
  Clients = {d1}
  DevTypes <- CombinedType
  BackendFails = FALSE
  MaxRegs = 1
  MaxNotes = 1
INVARIANTS ManagerEmptyAtDrop
CHECK_DEADLOCK FALSE
