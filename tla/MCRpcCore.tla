----------------------------- MODULE MCRpcCore -----------------------------
(* Instances of RpcCore for TLC. *)
EXTENDS RpcCore, TLC

CONSTANTS c1, c2, client, server, server2, t1, t2

\* One loop per process: the client's and the server's ...
TwoLoops == [e \in Ends |-> IF e[2] = "client" THEN client ELSE server]

\* ... or the client's and those of two servers, one for each connection.
ThreeLoops == [e \in Ends |-> IF e[2] = "client" THEN client
                              ELSE IF e[1] = c1 THEN server ELSE server2]

Symmetry == Permutations(Threads)

\* The state after the ends in bound have been bound, each under the slab key
\* it has in key, and the threads in owners have a Proxy of each connection
\* whose client end is among them.
StartWith(bound, key, owners) ==
  /\ conn = [e \in Ends |-> IF e \in bound THEN "open" ELSE "unbound"]
  /\ tok = [e \in Ends |-> IF e \in bound THEN key[e] ELSE None]
  /\ chan = [e \in Ends |-> <<>>]
  /\ out = [e \in Ends |-> <<>>]
  /\ wint = [e \in Ends |-> FALSE]
  /\ armed = [e \in Ends |-> FALSE]
  /\ reqs = [c \in Conns |-> <<>>]
  /\ infl = [c \in Conns |-> <<>>]
  /\ resp = [c \in Conns |-> <<>>]
  /\ proxies = [c \in Conns |-> IF ClientEnd(c) \in bound THEN owners ELSE {}]
  /\ lq = [l \in Loops |-> <<>>]
  /\ waker = [l \in Loops |-> FALSE]
  /\ lpc = [l \in Loops |-> "poll"]
  /\ batch = [l \in Loops |-> {}]
  /\ cur = [l \in Loops |-> Idle]
  /\ stopping = {}
  /\ pc = [t \in Threads |-> "idle"]
  /\ tgt = [t \in Threads |-> None]
  /\ seen = [t \in Threads |-> 0]
  /\ reply = [t \in Threads |-> "none"]
  /\ num = [t \in Threads |-> 0]
  /\ writer = [t \in Threads |-> FALSE]
  /\ item = [t \in Threads |-> {}]
  /\ served = [ct \in Conns \X Threads |-> <<>>]
  /\ lostWake = {}
  /\ staleDrop = {}

\* Both ends of every connection are bound, and t1 owns the only Proxy of each.
BoundInit == StartWith(Ends, [e \in Ends |-> IF e[1] = c1 THEN 0 ELSE 1], {t1})

BoundSpec == BoundInit /\ [][Next]_vars /\ Fairness

=============================================================================
