SPECIFICATION FairSpec
CONSTANTS
  d1 = d1
  d2 = d2
  None = None
  Clients = {d1, d2}
  DevTypes <- InputType
  BackendFails = TRUE
  MaxRegs = 2
  MaxNotes = 1
PROPERTY ThreadsReturn
CHECK_DEADLOCK FALSE
