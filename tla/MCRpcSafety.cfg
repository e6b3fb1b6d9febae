SPECIFICATION SafetySpec
CONSTANTS
  c1 = c1
  c2 = c2
  client = client
  server = server
  server2 = server2
  t1 = t1
  t2 = t2
  None = None
  Conns = {c1, c2}
  Loops = {client, server, server2}
  Threads = {t1, t2}
  Tokens = {0, 1}
  LoopOf <- ThreeLoops
  FailLoops = {server}
  Stoppable = {client}
  ReqCap = 1
  LoopCap = 2
  SockCap = 1
  SplitEvents = TRUE
  MaxCalls = 2
SYMMETRY Symmetry
INVARIANTS
  TypeOK
  OwnResponse
  InFlightOrder
  WriterOwned
  NothingForgotten
  NoLostWake
  EventsOwned
PROPERTY ImplementsRpc
CHECK_DEADLOCK FALSE
