SPECIFICATION LiveSpec
CONSTANTS
  c1 = c1
  c2 = c2
  client = client
  server = server
  server2 = server2
  t1 = t1
  t2 = t2
  None = None
  Conns = {c1}
  Loops = {client, server}
  Threads = {t1, t2}
  Tokens = {0}
  LoopOf <- TwoLoops
  FailLoops = {server}
  Stoppable = {client}
  ReqCap = 1
  LoopCap = 2
  SockCap = 1
  SplitEvents = FALSE
  MaxCalls = 1
PROPERTIES OperationsReturn LastDropCloses CloseSpreads
CHECK_DEADLOCK FALSE
