SPECIFICATION BoundSpec
CONSTANTS
  c1 = c1
  c2 = c2
  client = client
  server = server
  server2 = server2
  t1 = t1
  t2 = t2
  None = None
  Conns = {c1, c2}
  Loops = {client, server}
  Threads = {t1, t2}
  Tokens = {0, 1}
  LoopOf <- TwoLoops
  FailLoops = {}
  Stoppable = {}
  ReqCap = 1
  LoopCap = 1
  SockCap = 1
  SplitEvents = FALSE
  MaxCalls = 1
PROPERTY EveryCallReturns
CHECK_DEADLOCK FALSE
