---------------------------- MODULE MCRpcSafety ----------------------------
(* The instance of RpcCore for its safety properties: four scenarios over a    *)
(* connection c1 and, in three of them, the client end of a second one.        *)
EXTENDS MCRpcCore

\* One of: binds, calls, clones and drops over c1 from nothing bound; c2 bound
\* once an end of c1 has closed, perhaps under its slab key; c2 bound with a
\* Proxy of c1 in each of two threads, whatever has become of c1; the client's
\* loop stopped under binds and calls.
VARIABLE scenario

\* c1 is bound, and so is the server end of c2, whose client end is not.
HalfBound(owners) ==
  StartWith(Ends \ {ClientEnd(c2)}, [e \in Ends |-> 0], owners)

SafetyInit ==
  \/ scenario = "calls" /\ Init
  \/ scenario \in {"reuse", "stop"} /\ \E t \in Threads : HalfBound({t})
  \/ scenario = "shared" /\ HalfBound(Threads)

Stopping == {t \in Threads : pc[t] \in {"stopKick", "join"}}
OneCallEach == \A t \in Threads : num[t] <= 1
NoClone == \A c \in Conns : Cardinality(proxies[c]) <= 1
NoDrop == \A t \in Threads : seen[t] = 0

Within ==
  CASE scenario = "calls" ->
         /\ Stopping = {}
         /\ num[t1] + num[t2] <= 3
         /\ num[t1] + num[t2] = 3 => NoDrop
         /\ lpc[server2] # "exited"
         /\ \A e \in Ends : /\ e[1] = c2 => conn[e] = "unbound"
                            /\ tok[e] # 1
    [] scenario = "reuse" ->
         /\ Stopping = {}
         /\ OneCallEach
         /\ NoClone
         /\ \A t \in Threads : seen[t] > 0 => tgt[t] = ClientEnd(c1)
         /\ conn[ClientEnd(c2)] # "unbound" =>
              "closed" \in {conn[ClientEnd(c1)], conn[ServerEnd(c1)]}
    [] scenario = "shared" ->
         /\ Stopping = {}
         /\ OneCallEach
         /\ NoDrop
         /\ conn[ClientEnd(c2)] # "unbound" => num[t1] + num[t2] = 2
    [] scenario = "stop" ->
         /\ OneCallEach
         /\ NoClone
         /\ NoDrop
         /\ Stopping \cap proxies[c1] = {}

SafetySpec ==
  SafetyInit /\ [][Next /\ UNCHANGED scenario /\ Within']_<<vars, scenario>>

=============================================================================
