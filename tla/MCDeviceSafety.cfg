SPECIFICATION Spec
CONSTANTS
  d1 = d1
  d2 = d2
  None = None
  Clients = {d1, d2}
  DevTypes <- SingleTypes
  BackendFails = TRUE
  MaxRegs = 2
  MaxNotes = 1
INVARIANTS TypeOK CallbackCurrent EnabledWhenServers AckedRegistered NoDeadEntry
PROPERTIES NotifyAll
SYMMETRY Symmetry
CHECK_DEADLOCK FALSE
