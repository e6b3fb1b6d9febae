---------------------------- MODULE AbstractRpc ----------------------------
(***************************************************************************)
(* What a caller of Proxy::call may rely on (audioipc/src/rpccore.rs),     *)
(* with no queues, loops or sockets: a call is made, the server processes  *)
(* it at most once and in order, and it returns either the response to     *)
(* that call, which has then been processed, or an error, in which case it *)
(* may or may not have been, or may still be.                              *)
(***************************************************************************)
EXTENDS Integers, Sequences, Functions

CONSTANTS Conns, Threads, MaxCalls

VARIABLES
  num,     \* calls made by each thread
  busy,    \* threads inside call()
  served,  \* per connection and thread, the calls processed, in order
  result   \* what each thread's latest call returned ({} is Err)

vars == <<num, busy, served, result>>

Init ==
  /\ num = [t \in Threads |-> 0]
  /\ busy = {}
  /\ served = [ct \in Conns \X Threads |-> <<>>]
  /\ result = [t \in Threads |-> {}]

\* A call starts; it may also fail there and then.
Call(t) ==
  /\ t \notin busy
  /\ num[t] < MaxCalls
  /\ num' = [num EXCEPT ![t] = @ + 1]
  /\ busy' \in {busy, busy \cup {t}}
  /\ result' = [result EXCEPT ![t] = {}]
  /\ UNCHANGED served

\* The server of c runs call k of thread t, which it has not run before, after
\* the earlier calls of t that it has run.
Process(c, t, k) ==
  /\ k \in 1 .. num[t]
  /\ \A d \in Conns : k \notin Range(served[<<d, t>>])
  /\ \A j \in Range(served[<<c, t>>]) : j < k
  /\ served' = [served EXCEPT ![<<c, t>>] = Append(@, k)]
  /\ UNCHANGED <<num, busy, result>>

Return(t) ==
  /\ t \in busy
  /\ busy' = busy \ {t}
  /\ \/ UNCHANGED result
     \/ /\ \E c \in Conns : num[t] \in Range(served[<<c, t>>])
        /\ result' = [result EXCEPT ![t] = {<<t, num[t]>>}]
  /\ UNCHANGED <<num, served>>

Next ==
  \E t \in Threads :
    \/ Call(t)
    \/ Return(t)
    \/ \E c \in Conns, k \in 1 .. MaxCalls : Process(c, t, k)

Spec == Init /\ [][Next]_vars
=============================================================================
