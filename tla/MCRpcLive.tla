----------------------------- MODULE MCRpcLive -----------------------------
(* The instance of RpcCore for its liveness properties: three scenarios over   *)
(* one connection, each with the freedom that its question needs.              *)
EXTENDS MCRpcCore

\* For liveness, one of: calls over a bound connection, whose server loop may
\* fail; calls by t1 while t2 stops the client's loop; binds while it is stopped.
VARIABLE scenario

LiveInit ==
  \/ scenario \in {"fail", "stop"} /\ BoundInit
  \/ scenario = "bind" /\ Init

Stopping == {t \in Threads : pc[t] \in {"stopKick", "join"}}

Within ==
  CASE scenario = "fail" -> Stopping = {}
    [] scenario = "stop" -> /\ t1 \notin Stopping
                            /\ num[t2] = 0
                            /\ lpc[server] # "exited"
    [] scenario = "bind" -> /\ \A t \in Threads : num[t] = 0
                            /\ lpc[server] # "exited"

LiveSpec ==
  /\ LiveInit
  /\ [][Next /\ UNCHANGED scenario /\ Within']_<<vars, scenario>>
  /\ Fairness

=============================================================================
