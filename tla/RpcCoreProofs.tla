--------------------------- MODULE RpcCoreProofs ---------------------------
(***************************************************************************)
(* Theorems about RpcCore, for all sets of connections, loops and threads, *)
(* and all queue and socket capacities: type correctness, an event is only *)
(* ever handled for its own connection (EventsOwned), and responses arrive *)
(* in the order of ClientHandler.in_flight (InFlightOrder).                *)
(***************************************************************************)
EXTENDS RpcCore, SequenceTheorems, FiniteSetTheorems, TLAPS

-----------------------------------------------------------------------------
(* Ends, peers and sequences.                                               *)

LEMMA EndsFacts ==
  /\ \A c \in Conns : ClientEnd(c) \in Ends /\ ServerEnd(c) \in Ends
  /\ \A e \in Ends : /\ e[1] \in Conns
                     /\ Peer(e) \in Ends
                     /\ e[2] = "client" => e = ClientEnd(e[1]) /\ Peer(e) = ServerEnd(e[1])
                     /\ e[2] # "client" => e = ServerEnd(e[1]) /\ Peer(e) = ClientEnd(e[1])
  /\ \A c, d \in Conns : ClientEnd(c) # ServerEnd(d)
  /\ \A c, d \in Conns : ClientEnd(c) = ClientEnd(d) => c = d
  /\ \A c, d \in Conns : ServerEnd(c) = ServerEnd(d) => c = d
BY DEF Ends, Peer, ClientEnd, ServerEnd

-----------------------------------------------------------------------------
(* Types.                                                                   *)

EndPcs == {"bindKick", "asyncKick", "bindWait", "callWake", "callKick",
           "callWait", "dropRelease", "dropWake", "dropKick"}
HandlingPcs == {"recv", "flush", "send", "wouldBlock"}

\* Every operation in progress has a target of the right kind.
TargetOK ==
  /\ \A l \in Loops : lpc[l] \in HandlingPcs => cur[l].end \in Ends
  /\ \A t \in Threads : pc[t] \in EndPcs => tgt[t] \in Ends
  /\ \A t \in Threads : pc[t] \in {"stopKick", "join"} => tgt[t] \in Loops

EndTypes ==
  /\ conn \in [Ends -> {"unbound", "queued", "open", "closed"}]
  /\ chan \in [Ends -> Seq(Msg)]
  /\ out \in [Ends -> Seq(Msg)]
  /\ wint \in [Ends -> BOOLEAN]
  /\ armed \in [Ends -> BOOLEAN]
  /\ reqs \in [Conns -> Seq(Msg)]
  /\ infl \in [Conns -> Seq(Msg)]
  /\ resp \in [Conns -> Seq(Msg)]
  /\ writer \in [Threads -> BOOLEAN]

LEMMA CloseEndsTypes ==
  ASSUME NEW S, EndTypes, CloseEnds(S)
  PROVE  EndTypes'
BY DEF EndTypes, CloseEnds

LEMMA SetEof ==
  ASSUME NEW x \in [end : Ends \cup {None}, wake : BOOLEAN, eof : BOOLEAN],
         NEW b \in BOOLEAN
  PROVE  [x EXCEPT !.eof = b] \in [end : Ends \cup {None}, wake : BOOLEAN, eof : BOOLEAN]
OBVIOUS

LEMMA TypeInit == Init => TypeOK /\ TargetOK
BY ConstantsAssumption DEF Init, TypeOK, TargetOK, Idle, LoopPcs, ThreadPcs, EndPcs, HandlingPcs

LEMMA RequestTypes ==
  /\ \A e \in Ends, t \in Threads \cup {None} : AddReq(e, t) \in Requests
  /\ \A k \in Tokens \cup {None} : WakeReq(k) \in Requests
  /\ StopReq \in Requests
BY DEF AddReq, WakeReq, StopReq, Requests

LEMMA ThreadTypes ==
  ASSUME TypeOK, TargetOK, NEW t \in Threads, ThreadStep(t) \/ Begin(t)
  PROVE  TypeOK' /\ TargetOK'
<1> USE ConstantsAssumption DEF ThreadPcs, EndPcs, HandlingPcs
<1>1. CASE Kick(t)
  <2>1. waker' \in [Loops -> BOOLEAN]
    BY <1>1 DEF Kick, AfterKick, KickPcs, TypeOK, TargetOK
  <2>2. pc' \in [Threads -> ThreadPcs]
    BY <1>1 DEF Kick, AfterKick, KickPcs, TypeOK, TargetOK
  <2>3. tgt' \in [Threads -> Ends \cup Loops \cup {None}]
    BY <1>1 DEF Kick, AfterKick, KickPcs, TypeOK, TargetOK
  <2>4. TypeOK'
    BY <1>1, <2>1, <2>2, <2>3 DEF Kick, AfterKick, KickPcs, TypeOK, endVars, handVars, loopVars, threadVars, histVars
  <2>5. TargetOK'
    BY <1>1, EndsFacts DEF Kick, AfterKick, KickPcs, TypeOK, TargetOK, endVars, handVars, loopVars, threadVars, histVars
  <2> QED BY <2>4, <2>5
<1>2. CASE Wake(t)
  <2>1. lq' \in [Loops -> Seq(Requests)]
    BY <1>2, RequestTypes DEF Wake, PushTo, TypeOK, TargetOK
  <2>2. pc' \in [Threads -> ThreadPcs]
    BY <1>2, RequestTypes DEF Wake, PushTo, TypeOK, TargetOK
  <2>3. TypeOK'
    BY <1>2, <2>1, <2>2 DEF Wake, PushTo, TypeOK, endVars, handVars, loopVars, threadVars, histVars
  <2>4. TargetOK'
    BY <1>2, EndsFacts DEF Wake, PushTo, TypeOK, TargetOK, endVars, handVars, loopVars, threadVars, histVars
  <2> QED BY <2>3, <2>4
<1>3. CASE WakeDropped(t)
  <2>1. tgt[t] \in Ends /\ tgt[t][1] \in Conns
    BY <1>3, EndsFacts DEF TypeOK, TargetOK, WakeDropped
  <2>2. pc' \in [Threads -> ThreadPcs]
    BY <1>3, <2>1 DEF WakeDropped, TypeOK, TargetOK
  <2>3. tgt' \in [Threads -> Ends \cup Loops \cup {None}]
    BY <1>3, <2>1 DEF WakeDropped, TypeOK, TargetOK
  <2>4. lostWake' \in SUBSET Conns
    BY <1>3, <2>1 DEF WakeDropped, TypeOK, TargetOK
  <2>5. TypeOK'
    BY <1>3, <2>2, <2>3, <2>4 DEF WakeDropped, TypeOK, endVars, handVars, loopVars, threadVars, histVars
  <2>6. TargetOK'
    BY <1>3, EndsFacts DEF WakeDropped, TypeOK, TargetOK, endVars, handVars, loopVars, threadVars, histVars
  <2> QED BY <2>5, <2>6
<1>4. CASE BindReturn(t)
  <2>1. proxies' \in [Conns -> SUBSET Threads]
    BY <1>4 DEF BindReturn, TypeOK, TargetOK
  <2>2. pc' \in [Threads -> ThreadPcs]
    BY <1>4 DEF BindReturn, TypeOK, TargetOK
  <2>3. tgt' \in [Threads -> Ends \cup Loops \cup {None}]
    BY <1>4 DEF BindReturn, TypeOK, TargetOK
  <2>4. reply' \in [Threads -> {"none", "ok", "err"}]
    BY <1>4 DEF BindReturn, TypeOK, TargetOK
  <2>5. TypeOK'
    BY <1>4, <2>1, <2>2, <2>3, <2>4 DEF BindReturn, TypeOK, endVars, handVars, loopVars, threadVars, histVars
  <2>6. TargetOK'
    <3>1. /\ pc' = [pc EXCEPT ![t] = "idle"]
          /\ tgt' = [tgt EXCEPT ![t] = None]
          /\ UNCHANGED <<lpc, cur>>
      BY <1>4 DEF BindReturn, loopVars
    <3> QED BY <3>1 DEF TypeOK, TargetOK
  <2> QED BY <2>5, <2>6
<1>5. CASE CallReturn(t)
  <2>1. pc' \in [Threads -> ThreadPcs]
    BY <1>5 DEF CallReturn, TypeOK, TargetOK
  <2>2. tgt' \in [Threads -> Ends \cup Loops \cup {None}]
    BY <1>5 DEF CallReturn, TypeOK, TargetOK
  <2>3. TypeOK'
    BY <1>5, <2>1, <2>2 DEF CallReturn, TypeOK, endVars, handVars, loopVars, threadVars, histVars
  <2>4. TargetOK'
    BY <1>5, EndsFacts DEF CallReturn, TypeOK, TargetOK, endVars, handVars, loopVars, threadVars, histVars
  <2> QED BY <2>3, <2>4
<1>6. CASE DropRelease(t)
  <2>1. tgt[t] \in Ends /\ tgt[t][1] \in Conns
    BY <1>6, EndsFacts DEF TypeOK, TargetOK, DropRelease
  <2>2. proxies' \in [Conns -> SUBSET Threads]
    BY <1>6, <2>1 DEF DropRelease, TypeOK, TargetOK
  <2>3. staleDrop' \in SUBSET Conns
    BY <1>6, <2>1 DEF DropRelease, TypeOK, TargetOK
  <2>4. pc' \in [Threads -> ThreadPcs]
    BY <1>6, <2>1 DEF DropRelease, TypeOK, TargetOK
  <2>5. tgt' \in [Threads -> Ends \cup Loops \cup {None}]
    BY <1>6, <2>1 DEF DropRelease, TypeOK, TargetOK
  <2>6. seen' \in [Threads -> Nat]
    BY <1>6, <2>1 DEF DropRelease, TypeOK, TargetOK
  <2>7. TypeOK'
    BY <1>6, <2>2, <2>3, <2>4, <2>5, <2>6 DEF DropRelease, TypeOK, endVars, handVars, loopVars, threadVars, histVars
  <2>8. TargetOK'
    BY <1>6, EndsFacts DEF DropRelease, TypeOK, TargetOK, endVars, handVars, loopVars, threadVars, histVars
  <2> QED BY <2>7, <2>8
<1>7. CASE Join(t)
  <2>1. pc' \in [Threads -> ThreadPcs]
    BY <1>7 DEF Join, TypeOK, TargetOK
  <2>2. tgt' \in [Threads -> Ends \cup Loops \cup {None}]
    BY <1>7 DEF Join, TypeOK, TargetOK
  <2>3. TypeOK'
    BY <1>7, <2>1, <2>2 DEF Join, TypeOK, endVars, handVars, loopVars, threadVars, histVars
  <2>4. TargetOK'
    BY <1>7, EndsFacts DEF Join, TypeOK, TargetOK, endVars, handVars, loopVars, threadVars, histVars
  <2> QED BY <2>3, <2>4
<1>8. ASSUME NEW e \in Ends, NEW sync \in BOOLEAN, Bind(t, e, sync)
      PROVE TypeOK' /\ TargetOK'
  <2>1. lq' \in [Loops -> Seq(Requests)]
    <3> DEFINE r == AddReq(e, IF sync THEN t ELSE None)
               l == LoopOf[e]
    <3>1. lq' = [lq EXCEPT ![l] = Append(@, r)]
      BY <1>8 DEF Bind, PushTo
    <3>2. r \in Requests
      BY RequestTypes, ConstantsAssumption
    <3>3. lq \in [Loops -> Seq(Requests)]
      BY DEF TypeOK
    <3> HIDE DEF r, l
    <3>4. \A k \in Loops : Append(lq[k], r) \in Seq(Requests)
      BY <3>2, <3>3
    <3> QED BY <3>1, <3>3, <3>4
  <2>2. proxies' \in [Conns -> SUBSET Threads]
    <3>1. proxies' = IF e[2] = "client" THEN [proxies EXCEPT ![e[1]] = {t}] ELSE proxies
      BY <1>8 DEF Bind
    <3> QED BY <3>1 DEF TypeOK
  <2>3. pc' \in [Threads -> ThreadPcs]
    BY <1>8, RequestTypes DEF Bind, PushTo, TypeOK, TargetOK
  <2>4. tgt' \in [Threads -> Ends \cup Loops \cup {None}]
    BY <1>8, RequestTypes DEF Bind, PushTo, TypeOK, TargetOK
  <2>5. conn' \in [Ends -> {"unbound", "queued", "open", "closed"}]
    BY <1>8, RequestTypes DEF Bind, PushTo, TypeOK, TargetOK
  <2>6. TypeOK'
    BY <1>8, <2>1, <2>2, <2>3, <2>4, <2>5 DEF Bind, PushTo, TypeOK, endVars, handVars, loopVars, threadVars, histVars
  <2>7. TargetOK'
    <3>1. /\ pc' = [pc EXCEPT ![t] = IF sync THEN "bindKick" ELSE "asyncKick"]
          /\ tgt' = [tgt EXCEPT ![t] = e]
          /\ UNCHANGED <<lpc, cur>>
      BY <1>8 DEF Bind, loopVars
    <3> QED BY <3>1 DEF TypeOK, TargetOK
  <2> QED BY <2>6, <2>7
<1>9. ASSUME NEW e \in Ends, BindFails(t, e)
      PROVE TypeOK' /\ TargetOK'
  <2>1. EndTypes'
    BY <1>9, CloseEndsTypes DEF BindFails, TypeOK, EndTypes, endVars, handVars, loopVars, threadVars, histVars
  <2>2. TypeOK'
    BY <1>9, <2>1 DEF BindFails, TypeOK, endVars, handVars, loopVars, threadVars, histVars, EndTypes
  <2>3. TargetOK'
    BY <1>9, EndsFacts DEF BindFails, TypeOK, TargetOK, endVars, handVars, loopVars, threadVars, histVars
  <2> QED BY <2>2, <2>3
<1>10. ASSUME NEW l \in Stoppable, Stop(t, l)
      PROVE TypeOK' /\ TargetOK'
  <2>1. /\ stopping' \in SUBSET Loops
        /\ tgt' \in [Threads -> Ends \cup Loops \cup {None}]
    BY <1>10 DEF Stop, TypeOK
  <2>2. /\ pc' \in [Threads -> ThreadPcs]
        /\ lq' \in [Loops -> Seq(Requests)]
        /\ pc' = [pc EXCEPT ![t] = pc'[t]] /\ pc'[t] \in {"stopKick", "join"}
    <3>1. CASE CanPush(l)
      <4>1. /\ pc' = [pc EXCEPT ![t] = "stopKick"]
            /\ lq' = [lq EXCEPT ![l] = Append(@, StopReq)]
        BY <1>10, <3>1 DEF Stop, PushTo
      <4> QED BY <4>1, RequestTypes DEF TypeOK
    <3>2. CASE ~CanPush(l)
      <4>1. pc' = [pc EXCEPT ![t] = "join"] /\ lq' = lq
        BY <1>10, <3>2 DEF Stop
      <4> QED BY <4>1 DEF TypeOK
    <3> QED BY <3>1, <3>2
  <2>3. TypeOK'
    BY <1>10, <2>1, <2>2 DEF Stop, TypeOK, endVars, handVars, loopVars, threadVars, histVars
  <2>4. TargetOK'
    <3>1. tgt' = [tgt EXCEPT ![t] = l] /\ UNCHANGED <<lpc, cur>>
      BY <1>10 DEF Stop, loopVars
    <3> QED BY <2>2, <3>1 DEF TypeOK, TargetOK
  <2> QED BY <2>3, <2>4
<1>11. ASSUME NEW c \in Conns, Call(t, c)
      PROVE TypeOK' /\ TargetOK'
  <2>1. num' \in [Threads -> Nat]
    BY <1>11, EndsFacts DEF Call, Msg, TypeOK, TargetOK
  <2>2. item' \in [Threads -> SUBSET Msg]
    BY <1>11, EndsFacts DEF Call, Msg, TypeOK, TargetOK
  <2>3. reqs' \in [Conns -> Seq(Msg)]
    BY <1>11, EndsFacts DEF Call, Msg, TypeOK, TargetOK
  <2>4. writer' \in [Threads -> BOOLEAN]
    BY <1>11, EndsFacts DEF Call, Msg, TypeOK, TargetOK
  <2>5. pc' \in [Threads -> ThreadPcs]
    BY <1>11, EndsFacts DEF Call, Msg, TypeOK, TargetOK
  <2>6. tgt' \in [Threads -> Ends \cup Loops \cup {None}]
    BY <1>11, EndsFacts DEF Call, Msg, TypeOK, TargetOK
  <2>7. TypeOK'
    BY <1>11, <2>1, <2>2, <2>3, <2>4, <2>5, <2>6 DEF Call, Msg, TypeOK, endVars, handVars, loopVars, threadVars, histVars
  <2>8. TargetOK'
    <3>1. /\ pc' = [pc EXCEPT ![t] = "callWake"]
          /\ tgt' = [tgt EXCEPT ![t] = ClientEnd(c)]
          /\ UNCHANGED <<lpc, cur>>
      BY <1>11 DEF Call, loopVars
    <3> QED BY <3>1, EndsFacts DEF TypeOK, TargetOK
  <2> QED BY <2>7, <2>8
<1>12. ASSUME NEW c \in Conns, CallFails(t, c)
      PROVE TypeOK' /\ TargetOK'
  <2>1. num' \in [Threads -> Nat]
    BY <1>12 DEF CallFails, TypeOK, TargetOK
  <2>2. item' \in [Threads -> SUBSET Msg]
    BY <1>12 DEF CallFails, TypeOK, TargetOK
  <2>3. TypeOK'
    BY <1>12, <2>1, <2>2 DEF CallFails, TypeOK, endVars, handVars, loopVars, threadVars, histVars
  <2>4. TargetOK'
    BY <1>12, EndsFacts DEF CallFails, TypeOK, TargetOK, endVars, handVars, loopVars, threadVars, histVars
  <2> QED BY <2>3, <2>4
<1>13. ASSUME NEW c \in Conns, DropRead(t, c)
      PROVE TypeOK' /\ TargetOK'
  <2>1. Cardinality(proxies[c]) \in Nat
    BY <1>13, EndsFacts, FS_Subset, FS_CardinalityType DEF TypeOK, TargetOK
  <2>2. seen' \in [Threads -> Nat]
    BY <1>13, <2>1, EndsFacts DEF DropRead, LiveProxies, TypeOK, TargetOK
  <2>3. pc' \in [Threads -> ThreadPcs]
    BY <1>13, <2>1, EndsFacts DEF DropRead, TypeOK, TargetOK
  <2>4. tgt' \in [Threads -> Ends \cup Loops \cup {None}]
    BY <1>13, <2>1, EndsFacts DEF DropRead, TypeOK, TargetOK
  <2>5. TypeOK'
    BY <1>13, <2>2, <2>3, <2>4 DEF DropRead, TypeOK, endVars, handVars, loopVars, threadVars, histVars
  <2>6. TargetOK'
    BY <1>13, EndsFacts DEF DropRead, TypeOK, TargetOK, endVars, handVars, loopVars, threadVars, histVars
  <2> QED BY <2>5, <2>6
<1>14. ASSUME NEW c \in Conns, NEW u \in Threads, Clone(t, u, c)
      PROVE TypeOK' /\ TargetOK'
  <2>1. proxies' \in [Conns -> SUBSET Threads]
    BY <1>14 DEF Clone, TypeOK, TargetOK
  <2>2. TypeOK'
    BY <1>14, <2>1 DEF Clone, TypeOK, endVars, handVars, loopVars, threadVars, histVars
  <2>3. TargetOK'
    BY <1>14, EndsFacts DEF Clone, TypeOK, TargetOK, endVars, handVars, loopVars, threadVars, histVars
  <2> QED BY <2>2, <2>3
<1> QED BY <1>1, <1>2, <1>3, <1>4, <1>5, <1>6, <1>7, <1>8, <1>9, <1>10, <1>11, <1>12, <1>13, <1>14
        DEF ThreadStep, Begin

LEMMA RemoveTypes ==
  ASSUME TypeOK, TargetOK, NEW l \in Loops, RemoveConnection(l)
  PROVE  TypeOK' /\ TargetOK'
<1> USE ConstantsAssumption DEF LoopPcs, HandlingPcs, EndPcs, Idle
  <1>1. lpc' \in [Loops -> LoopPcs]
    BY TypeOK DEF RemoveConnection, FinishHandling, Resume, TypeOK, TargetOK
  <1>2. cur' \in [Loops -> [end : Ends \cup {None}, wake : BOOLEAN, eof : BOOLEAN]]
    BY TypeOK DEF RemoveConnection, FinishHandling, Resume, TypeOK, TargetOK
  <1>3. EndTypes'
    BY CloseEndsTypes DEF RemoveConnection, FinishHandling, Resume, TypeOK, EndTypes, endVars, handVars, loopVars, threadVars, histVars
  <1>4. TypeOK'
    BY <1>1, <1>2, <1>3 DEF RemoveConnection, FinishHandling, Resume, TypeOK, endVars, handVars, loopVars, threadVars, histVars, EndTypes
  <1>5. TargetOK'
    BY EndsFacts DEF RemoveConnection, FinishHandling, Resume, TypeOK, TargetOK, endVars, handVars, loopVars, threadVars, histVars
  <1> QED BY <1>4, <1>5

LEMMA LoopTypes ==
  ASSUME TypeOK, TargetOK, NEW l \in Loops, LoopStep(l) \/ PollFails(l)
  PROVE  TypeOK' /\ TargetOK'
<1> USE ConstantsAssumption DEF LoopPcs, HandlingPcs, EndPcs, Idle
<1>1. CASE Poll(l)
  <2>1. Ready(l) \subseteq Ends
    BY <1>1, EndsFacts DEF TypeOK, TargetOK, Ready, OpenOn
  <2>2. \A e \in Ends : Readable(e) \in BOOLEAN
    BY <1>1, EndsFacts, <2>1 DEF TypeOK, TargetOK, Readable
  <2>3. batch' \in [Loops -> SUBSET [end : Ends, readable : BOOLEAN]]
    <3>1. Events(l) \subseteq [end : Ends, readable : BOOLEAN]
      <4>1. \A e \in Ready(l) : \A b \in BOOLEAN :
              [end |-> e, readable |-> b] \in [end : Ends, readable : BOOLEAN]
        BY <2>1
      <4>2. CASE SplitEvents
        <5>1. \A ev \in Events(l) : \E e \in Ready(l), b \in BOOLEAN : ev = [end |-> e, readable |-> b]
          BY <4>2 DEF Events
        <5> QED BY <4>1, <5>1
      <4>3. CASE ~SplitEvents BY <2>1, <2>2, <4>1, <4>3 DEF Events
      <4> QED BY <4>2, <4>3
    <3> QED BY <1>1, <3>1 DEF Poll, TypeOK
  <2>4. armed' \in [Ends -> BOOLEAN]
    BY <1>1, <2>1, <2>2 DEF Poll, TypeOK, TargetOK
  <2>5. waker' \in [Loops -> BOOLEAN]
    BY <1>1, <2>1, <2>2 DEF Poll, TypeOK, TargetOK
  <2>6. lpc' \in [Loops -> LoopPcs]
    BY <1>1, <2>1, <2>2 DEF Poll, TypeOK, TargetOK
  <2>7. TypeOK'
    BY <1>1, <2>3, <2>4, <2>5, <2>6 DEF Poll, TypeOK, endVars, handVars, loopVars, threadVars, histVars
  <2>8. TargetOK'
    BY <1>1, EndsFacts DEF Poll, TypeOK, TargetOK, endVars, handVars, loopVars, threadVars, histVars
  <2> QED BY <2>7, <2>8
<1>2. CASE HandleEvent(l)
  <2>1. PICK ev \in batch[l], e \in Ends :
          /\ batch' = [batch EXCEPT ![l] = @ \ {ev}]
          /\ cur' = [cur EXCEPT ![l] = [end |-> e, wake |-> FALSE, eof |-> FALSE]]
          /\ lpc' = [lpc EXCEPT ![l] = IF ev.readable THEN "recv" ELSE "flush"]
    BY <1>2 DEF HandleEvent, OpenOn
  <2>2. batch' \in [Loops -> SUBSET [end : Ends, readable : BOOLEAN]]
    BY <2>1 DEF TypeOK
  <2>3. cur' \in [Loops -> [end : Ends \cup {None}, wake : BOOLEAN, eof : BOOLEAN]]
    BY <2>1 DEF TypeOK
  <2>4. lpc' \in [Loops -> LoopPcs]
    BY <2>1 DEF TypeOK
  <2>5. TypeOK'
    BY <1>2, <2>2, <2>3, <2>4 DEF HandleEvent, TypeOK, endVars, handVars, threadVars, histVars
  <2>6. TargetOK'
    <3>1. \A k \in Loops : lpc'[k] \in HandlingPcs => cur'[k].end \in Ends
      BY <2>1 DEF TypeOK, TargetOK
    <3> QED BY <1>2, <3>1 DEF HandleEvent, TargetOK, threadVars
  <2> QED BY <2>5, <2>6
<1>3. CASE EventsDone(l)
  <2>1. lpc' \in [Loops -> LoopPcs]
    BY <1>3 DEF EventsDone, TypeOK, TargetOK
  <2>2. TypeOK'
    BY <1>3, <2>1 DEF EventsDone, TypeOK, endVars, handVars, loopVars, threadVars, histVars
  <2>3. TargetOK'
    BY <1>3, EndsFacts DEF EventsDone, TypeOK, TargetOK, endVars, handVars, loopVars, threadVars, histVars
  <2> QED BY <2>2, <2>3
<1>4. CASE RecvResponse(l)
  <2> DEFINE e == cur[l].end
  <2>1. e \in Ends /\ e[1] \in Conns /\ Peer(e) \in Ends
    BY <1>4, EndsFacts DEF TypeOK, TargetOK, RecvResponse
  <2>2. Head(chan[e]) \in Msg
    BY <1>4, EndsFacts, <2>1 DEF TypeOK, TargetOK, RecvResponse, TakeFrame
  <2>3. chan' \in [Ends -> Seq(Msg)]
    <3>1. chan' = [chan EXCEPT ![e] = Tail(@)] /\ chan[e] # <<>>
      BY <1>4 DEF RecvResponse, TakeFrame
    <3> HIDE DEF e
    <3> QED BY <2>1, <3>1 DEF TypeOK
  <2>4. armed' \in [Ends -> BOOLEAN]
    BY <1>4, <2>1, <2>2 DEF RecvResponse, TakeFrame, TypeOK, TargetOK
  <2>5. infl' \in [Conns -> Seq(Msg)]
    <3>1. infl' = [infl EXCEPT ![e[1]] = Tail(@)] /\ infl[e[1]] # <<>>
      BY <1>4 DEF RecvResponse, Mismatch, TakeFrame
    <3> HIDE DEF e
    <3> QED BY <2>1, <3>1 DEF TypeOK
  <2>6. writer' \in [Threads -> BOOLEAN]
    BY <1>4, <2>1, <2>2 DEF RecvResponse, TakeFrame, TypeOK, TargetOK
  <2>7. item' \in [Threads -> SUBSET Msg]
    <3> DEFINE w == Head(infl[e[1]])[1]
               h == Head(chan[e])
    <3>1. item' = [item EXCEPT ![w] = {h}]
      BY <1>4 DEF RecvResponse
    <3>2. item \in [Threads -> SUBSET Msg]
      BY DEF TypeOK
    <3>3. h \in Msg
      BY <2>2
    <3> HIDE DEF w, h
    <3> QED BY <3>1, <3>2, <3>3
  <2>8. TypeOK'
    BY <1>4, <2>3, <2>4, <2>5, <2>6, <2>7 DEF RecvResponse, TakeFrame, TypeOK, endVars, handVars, loopVars, threadVars, histVars
  <2>9. TargetOK'
    BY <1>4, EndsFacts DEF RecvResponse, TakeFrame, TypeOK, TargetOK, endVars, handVars, loopVars, threadVars, histVars
  <2> QED BY <2>8, <2>9
<1>5. CASE RecvRequest(l)
  <2> DEFINE e == cur[l].end
  <2>1. e \in Ends /\ e[1] \in Conns /\ Peer(e) \in Ends
    BY <1>5, EndsFacts DEF TypeOK, TargetOK, RecvRequest
  <2>2. Head(chan[e]) \in Msg
    BY <1>5, EndsFacts, <2>1 DEF TypeOK, TargetOK, RecvRequest, TakeFrame
  <2>3. Head(chan[e])[1] \in Threads /\ Head(chan[e])[2] \in Nat
    BY <1>5, EndsFacts, <2>1, <2>2 DEF TypeOK, TargetOK, Msg
  <2>4. chan' \in [Ends -> Seq(Msg)]
    <3>1. chan' = [chan EXCEPT ![e] = Tail(@)] /\ chan[e] # <<>>
      BY <1>5 DEF RecvRequest, TakeFrame
    <3> HIDE DEF e
    <3> QED BY <2>1, <3>1 DEF TypeOK
  <2>5. armed' \in [Ends -> BOOLEAN]
    BY <1>5, <2>1, <2>2, <2>3 DEF RecvRequest, TakeFrame, TypeOK, TargetOK
  <2>6. resp' \in [Conns -> Seq(Msg)]
    <3>1. resp' = [resp EXCEPT ![e[1]] = Append(@, Head(chan[e]))]
      BY <1>5 DEF RecvRequest
    <3> HIDE DEF e
    <3> QED BY <2>1, <2>2, <3>1 DEF TypeOK
  <2>7. served' \in [Conns \X Threads -> Seq(Nat)]
    <3> DEFINE k == <<e[1], Head(chan[e])[1]>>
               n == Head(chan[e])[2]
    <3>1. served' = [served EXCEPT ![k] = Append(@, n)]
      BY <1>5 DEF RecvRequest
    <3>2. served \in [Conns \X Threads -> Seq(Nat)]
      BY DEF TypeOK
    <3>3. n \in Nat
      BY <2>3
    <3> HIDE DEF k, n
    <3>4. \A j \in Conns \X Threads : Append(served[j], n) \in Seq(Nat)
      BY <3>2, <3>3
    <3> QED BY <3>1, <3>2, <3>4
  <2>8. TypeOK'
    BY <1>5, <2>4, <2>5, <2>6, <2>7 DEF RecvRequest, TakeFrame, TypeOK, endVars, handVars, loopVars, threadVars, histVars
  <2>9. TargetOK'
    BY <1>5, EndsFacts DEF RecvRequest, TakeFrame, TypeOK, TargetOK, endVars, handVars, loopVars, threadVars, histVars
  <2> QED BY <2>8, <2>9
<1>6. CASE RecvDone(l)
  <2> DEFINE b == conn[Peer(cur[l].end)] = "closed"
             r == [cur[l] EXCEPT !.eof = b]
  <2>1. r \in [end : Ends \cup {None}, wake : BOOLEAN, eof : BOOLEAN]
    <3>1. b \in BOOLEAN OBVIOUS
    <3> HIDE DEF b
    <3>2. cur[l] \in [end : Ends \cup {None}, wake : BOOLEAN, eof : BOOLEAN]
      BY DEF TypeOK
    <3> QED BY <3>1, <3>2, SetEof
  <2>2. cur' = [cur EXCEPT ![l] = r]
    BY <1>6 DEF RecvDone
  <2>3. lpc' = [lpc EXCEPT ![l] = "flush"] /\ cur[l].end \in Ends
    BY <1>6 DEF RecvDone, TargetOK
  <2> HIDE DEF r
  <2>4. cur' \in [Loops -> [end : Ends \cup {None}, wake : BOOLEAN, eof : BOOLEAN]]
    BY <2>1, <2>2 DEF TypeOK
  <2>5. lpc' \in [Loops -> LoopPcs]
    BY <2>3 DEF TypeOK
  <2>6. TypeOK'
    BY <1>6, <2>4, <2>5 DEF RecvDone, TypeOK, endVars, handVars, threadVars, histVars
  <2>7. r.end \in Ends
    BY <2>3 DEF r, TypeOK
  <2>8. TargetOK'
    BY <1>6, <2>2, <2>3, <2>7 DEF RecvDone, TypeOK, TargetOK, threadVars
  <2> QED BY <2>6, <2>8
<1>7. CASE RecvFails(l)
  BY <1>7, RemoveTypes DEF RecvFails, TargetOK
<1>8. CASE FlushRequest(l)
  <2> DEFINE e == cur[l].end
  <2>1. e \in Ends /\ e[1] \in Conns
    BY <1>8, EndsFacts DEF TypeOK, TargetOK, FlushRequest
  <2>2. Head(reqs[e[1]]) \in Msg
    BY <1>8, EndsFacts, <2>1 DEF TypeOK, TargetOK, FlushRequest
  <2>3. reqs' \in [Conns -> Seq(Msg)]
    BY <1>8, <2>1, <2>2 DEF FlushRequest, TypeOK, TargetOK
  <2>4. infl' \in [Conns -> Seq(Msg)]
    BY <1>8, <2>1, <2>2 DEF FlushRequest, PushBack, TypeOK, TargetOK
  <2>5. out' \in [Ends -> Seq(Msg)]
    BY <1>8, <2>1, <2>2 DEF FlushRequest, TypeOK, TargetOK
  <2>6. TypeOK'
    BY <1>8, <2>3, <2>4, <2>5 DEF FlushRequest, TypeOK, endVars, handVars, loopVars, threadVars, histVars
  <2>7. TargetOK'
    BY <1>8, EndsFacts DEF FlushRequest, TypeOK, TargetOK, endVars, handVars, loopVars, threadVars, histVars
  <2> QED BY <2>6, <2>7
<1>9. CASE FlushResponse(l)
  <2> DEFINE e == cur[l].end
  <2>1. e \in Ends /\ e[1] \in Conns
    BY <1>9, EndsFacts DEF TypeOK, TargetOK, FlushResponse
  <2>2. Head(resp[e[1]]) \in Msg
    BY <1>9, EndsFacts, <2>1 DEF TypeOK, TargetOK, FlushResponse
  <2>3. resp' \in [Conns -> Seq(Msg)]
    BY <1>9, <2>1, <2>2 DEF FlushResponse, TypeOK, TargetOK
  <2>4. out' \in [Ends -> Seq(Msg)]
    BY <1>9, <2>1, <2>2 DEF FlushResponse, TypeOK, TargetOK
  <2>5. TypeOK'
    BY <1>9, <2>3, <2>4 DEF FlushResponse, TypeOK, endVars, handVars, loopVars, threadVars, histVars
  <2>6. TargetOK'
    BY <1>9, EndsFacts DEF FlushResponse, TypeOK, TargetOK, endVars, handVars, loopVars, threadVars, histVars
  <2> QED BY <2>5, <2>6
<1>10. CASE FlushDone(l)
  <2>1. lpc' \in [Loops -> LoopPcs]
    BY <1>10 DEF FlushDone, TypeOK, TargetOK
  <2>2. TypeOK'
    BY <1>10, <2>1 DEF FlushDone, TypeOK, endVars, handVars, loopVars, threadVars, histVars
  <2>3. TargetOK'
    BY <1>10, EndsFacts DEF FlushDone, TypeOK, TargetOK, endVars, handVars, loopVars, threadVars, histVars
  <2> QED BY <2>2, <2>3
<1>11. CASE FlushFails(l)
  BY <1>11, RemoveTypes DEF FlushFails, TargetOK
<1>12. CASE SendFrame(l)
  <2> DEFINE e == cur[l].end
  <2>1. e \in Ends /\ Peer(e) \in Ends
    BY <1>12, EndsFacts DEF TypeOK, TargetOK, SendFrame
  <2>2. Head(out[e]) \in Msg
    BY <1>12, EndsFacts, <2>1 DEF TypeOK, TargetOK, SendFrame
  <2>3. out' \in [Ends -> Seq(Msg)]
    BY <1>12, <2>1, <2>2 DEF SendFrame, TypeOK, TargetOK
  <2>4. chan' \in [Ends -> Seq(Msg)]
    BY <1>12, <2>1, <2>2 DEF SendFrame, TypeOK, TargetOK
  <2>5. armed' \in [Ends -> BOOLEAN]
    BY <1>12, <2>1, <2>2 DEF SendFrame, TypeOK, TargetOK
  <2>6. TypeOK'
    BY <1>12, <2>3, <2>4, <2>5 DEF SendFrame, TypeOK, endVars, handVars, loopVars, threadVars, histVars
  <2>7. TargetOK'
    BY <1>12, EndsFacts DEF SendFrame, TypeOK, TargetOK, endVars, handVars, loopVars, threadVars, histVars
  <2> QED BY <2>6, <2>7
<1>13. CASE SendBlocks(l)
  <2>1. lpc' \in [Loops -> LoopPcs]
    BY <1>13 DEF SendBlocks, TypeOK, TargetOK
  <2>2. TypeOK'
    BY <1>13, <2>1 DEF SendBlocks, TypeOK, endVars, handVars, loopVars, threadVars, histVars
  <2>3. TargetOK'
    BY <1>13, EndsFacts DEF SendBlocks, TypeOK, TargetOK, endVars, handVars, loopVars, threadVars, histVars
  <2> QED BY <2>2, <2>3
<1>14. CASE SendFails(l)
  BY <1>14, RemoveTypes DEF SendFails, TargetOK
<1>15. CASE SetWritable(l)
  <2>1. wint' \in [Ends -> BOOLEAN]
    BY <1>15 DEF SetWritable, FinishHandling, Resume, TypeOK, TargetOK
  <2>2. armed' \in [Ends -> BOOLEAN]
    BY <1>15 DEF SetWritable, FinishHandling, Resume, TypeOK, TargetOK
  <2>3. lpc' \in [Loops -> LoopPcs]
    BY <1>15 DEF SetWritable, FinishHandling, Resume, TypeOK, TargetOK
  <2>4. cur' \in [Loops -> [end : Ends \cup {None}, wake : BOOLEAN, eof : BOOLEAN]]
    BY <1>15 DEF SetWritable, FinishHandling, Resume, TypeOK, TargetOK
  <2>5. TypeOK'
    BY <1>15, <2>1, <2>2, <2>3, <2>4 DEF SetWritable, FinishHandling, Resume, TypeOK, endVars, handVars, loopVars, threadVars, histVars
  <2>6. TargetOK'
    BY <1>15, EndsFacts DEF SetWritable, FinishHandling, Resume, TypeOK, TargetOK, endVars, handVars, loopVars, threadVars, histVars
  <2> QED BY <2>5, <2>6
<1>16. CASE SendDone(l)
  <2>1. wint' \in [Ends -> BOOLEAN]
    BY <1>16 DEF SendDone, FinishHandling, Resume, TypeOK, TargetOK
  <2>2. armed' \in [Ends -> BOOLEAN]
    BY <1>16 DEF SendDone, FinishHandling, Resume, TypeOK, TargetOK
  <2>3. lpc' \in [Loops -> LoopPcs]
    BY <1>16 DEF SendDone, FinishHandling, Resume, TypeOK, TargetOK
  <2>4. cur' \in [Loops -> [end : Ends \cup {None}, wake : BOOLEAN, eof : BOOLEAN]]
    BY <1>16 DEF SendDone, FinishHandling, Resume, TypeOK, TargetOK
  <2>5. TypeOK'
    BY <1>16, <2>1, <2>2, <2>3, <2>4 DEF SendDone, FinishHandling, Resume, TypeOK, endVars, handVars, loopVars, threadVars, histVars
  <2>6. TargetOK'
    BY <1>16, EndsFacts DEF SendDone, FinishHandling, Resume, TypeOK, TargetOK, endVars, handVars, loopVars, threadVars, histVars
  <2> QED BY <2>5, <2>6
<1>17. CASE ConnectionDone(l)
  BY <1>17, RemoveTypes DEF ConnectionDone, TargetOK
<1>18. CASE AddConnection(l)
  <2>1. \A e \in Ends : Readable(e) \in BOOLEAN
    BY <1>18, EndsFacts DEF TypeOK, TargetOK, Readable
  <2>2. lq' \in [Loops -> Seq(Requests)]
    BY <1>18, <2>1 DEF AddConnection, PopRequest, TypeOK, TargetOK
  <2> DEFINE q == Head(lq[l]).end
  <2>3. tok' \in [Ends -> Tokens \cup {None}]
    <3>1. PICK k \in Tokens : tok' = [tok EXCEPT ![q] = k]
      BY <1>18 DEF AddConnection
    <3> HIDE DEF q
    <3> QED BY <3>1 DEF TypeOK
  <2>4. conn' \in [Ends -> {"unbound", "queued", "open", "closed"}]
    <3>1. conn' = [conn EXCEPT ![q] = "open"]
      BY <1>18 DEF AddConnection
    <3> HIDE DEF q
    <3> QED BY <3>1 DEF TypeOK
  <2>5. armed' \in [Ends -> BOOLEAN]
    <3> DEFINE b == Readable(q)
    <3>1. armed' = [armed EXCEPT ![q] = b]
      BY <1>18 DEF AddConnection
    <3>2. armed \in [Ends -> BOOLEAN] /\ (q \in Ends => b \in BOOLEAN)
      BY <2>1 DEF TypeOK
    <3> HIDE DEF q, b
    <3> QED BY <3>1, <3>2
  <2>6. reply' \in [Threads -> {"none", "ok", "err"}]
    BY <1>18, <2>1 DEF AddConnection, PopRequest, TypeOK, TargetOK
  <2>7. TypeOK'
    BY <1>18, <2>2, <2>3, <2>4, <2>5, <2>6 DEF AddConnection, PopRequest, TypeOK, endVars, handVars, loopVars, threadVars, histVars
  <2>8. TargetOK'
    BY <1>18, EndsFacts DEF AddConnection, PopRequest, TypeOK, TargetOK, endVars, handVars, loopVars, threadVars, histVars
  <2> QED BY <2>7, <2>8
<1>19. CASE AddConnectionFails(l)
  <2>1. lq' \in [Loops -> Seq(Requests)]
    BY <1>19 DEF AddConnectionFails, PopRequest, TypeOK, TargetOK
  <2>2. reply' \in [Threads -> {"none", "ok", "err"}]
    BY <1>19 DEF AddConnectionFails, PopRequest, TypeOK, TargetOK
  <2>3. EndTypes'
    BY <1>19, CloseEndsTypes DEF AddConnectionFails, PopRequest, TypeOK, EndTypes, endVars, handVars, loopVars, threadVars, histVars
  <2>4. TypeOK'
    BY <1>19, <2>1, <2>2, <2>3 DEF AddConnectionFails, PopRequest, TypeOK, endVars, handVars, loopVars, threadVars, histVars, EndTypes
  <2>5. TargetOK'
    BY <1>19, EndsFacts DEF AddConnectionFails, PopRequest, TypeOK, TargetOK, endVars, handVars, loopVars, threadVars, histVars
  <2> QED BY <2>4, <2>5
<1>20. CASE WakeConnection(l)
  <2>1. lq' \in [Loops -> Seq(Requests)]
    BY <1>20 DEF WakeConnection, PopRequest, OpenOn, TypeOK, TargetOK
  <2>2. lpc' \in [Loops -> LoopPcs]
    BY <1>20 DEF WakeConnection, PopRequest, OpenOn, TypeOK, TargetOK
  <2>3. cur' \in [Loops -> [end : Ends \cup {None}, wake : BOOLEAN, eof : BOOLEAN]]
    BY <1>20 DEF WakeConnection, PopRequest, OpenOn, TypeOK, TargetOK
  <2>4. TypeOK'
    BY <1>20, <2>1, <2>2, <2>3 DEF WakeConnection, PopRequest, OpenOn, TypeOK, endVars, handVars, loopVars, threadVars, histVars
  <2>5. TargetOK'
    BY <1>20, EndsFacts DEF WakeConnection, PopRequest, OpenOn, TypeOK, TargetOK, endVars, handVars, loopVars, threadVars, histVars
  <2> QED BY <2>4, <2>5
<1>21. CASE SpuriousWake(l)
  <2>1. lq' \in [Loops -> Seq(Requests)]
    BY <1>21 DEF SpuriousWake, PopRequest, TypeOK, TargetOK
  <2>2. TypeOK'
    BY <1>21, <2>1 DEF SpuriousWake, PopRequest, TypeOK, endVars, handVars, loopVars, threadVars, histVars
  <2>3. TargetOK'
    BY <1>21, EndsFacts DEF SpuriousWake, PopRequest, TypeOK, TargetOK, endVars, handVars, loopVars, threadVars, histVars
  <2> QED BY <2>2, <2>3
<1>25. CASE SpuriousEvent(l)
  <2>1. batch' \in [Loops -> SUBSET [end : Ends, readable : BOOLEAN]]
    BY <1>25 DEF SpuriousEvent, TypeOK
  <2>2. TypeOK'
    BY <1>25, <2>1 DEF SpuriousEvent, TypeOK, endVars, handVars, threadVars, histVars
  <2>3. TargetOK'
    BY <1>25, EndsFacts DEF SpuriousEvent, TypeOK, TargetOK, endVars, handVars, threadVars, histVars
  <2> QED BY <2>2, <2>3
<1>22. CASE Shutdown(l)
  <2>1. reply' \in [Threads -> {"none", "ok", "err"}]
    BY <1>22 DEF Shutdown, ExitLoop, TypeOK, TargetOK
  <2>2. lq' \in [Loops -> Seq(Requests)]
    BY <1>22 DEF Shutdown, ExitLoop, TypeOK, TargetOK
  <2>3. waker' \in [Loops -> BOOLEAN]
    BY <1>22 DEF Shutdown, ExitLoop, TypeOK, TargetOK
  <2>4. lpc' \in [Loops -> LoopPcs]
    BY <1>22 DEF Shutdown, ExitLoop, TypeOK, TargetOK
  <2>5. EndTypes'
    BY <1>22, CloseEndsTypes DEF Shutdown, ExitLoop, TypeOK, EndTypes, endVars, handVars, loopVars, threadVars, histVars
  <2>6. TypeOK'
    BY <1>22, <2>1, <2>2, <2>3, <2>4, <2>5 DEF Shutdown, ExitLoop, TypeOK, endVars, handVars, loopVars, threadVars, histVars, EndTypes
  <2>7. TargetOK'
    BY <1>22, EndsFacts DEF Shutdown, ExitLoop, TypeOK, TargetOK, endVars, handVars, loopVars, threadVars, histVars
  <2> QED BY <2>6, <2>7
<1>23. CASE RequestsDone(l)
  <2>1. lpc' \in [Loops -> LoopPcs]
    BY <1>23 DEF RequestsDone, TypeOK, TargetOK
  <2>2. TypeOK'
    BY <1>23, <2>1 DEF RequestsDone, TypeOK, endVars, handVars, loopVars, threadVars, histVars
  <2>3. TargetOK'
    BY <1>23, EndsFacts DEF RequestsDone, TypeOK, TargetOK, endVars, handVars, loopVars, threadVars, histVars
  <2> QED BY <2>2, <2>3
<1>24. CASE PollFails(l)
  <2>1. reply' \in [Threads -> {"none", "ok", "err"}]
    BY <1>24 DEF PollFails, ExitLoop, TypeOK, TargetOK
  <2>2. lq' \in [Loops -> Seq(Requests)]
    BY <1>24 DEF PollFails, ExitLoop, TypeOK, TargetOK
  <2>3. waker' \in [Loops -> BOOLEAN]
    BY <1>24 DEF PollFails, ExitLoop, TypeOK, TargetOK
  <2>4. lpc' \in [Loops -> LoopPcs]
    BY <1>24 DEF PollFails, ExitLoop, TypeOK, TargetOK
  <2>5. EndTypes'
    BY <1>24, CloseEndsTypes DEF PollFails, ExitLoop, TypeOK, EndTypes, endVars, handVars, loopVars, threadVars, histVars
  <2>6. TypeOK'
    BY <1>24, <2>1, <2>2, <2>3, <2>4, <2>5 DEF PollFails, ExitLoop, TypeOK, endVars, handVars, loopVars, threadVars, histVars, EndTypes
  <2>7. TargetOK'
    BY <1>24, EndsFacts DEF PollFails, ExitLoop, TypeOK, TargetOK, endVars, handVars, loopVars, threadVars, histVars
  <2> QED BY <2>6, <2>7
<1> QED BY <1>1, <1>2, <1>3, <1>4, <1>5, <1>6, <1>7, <1>8, <1>9, <1>10, <1>11, <1>12, <1>13, <1>14, <1>15, <1>16, <1>17, <1>18, <1>19, <1>20, <1>21, <1>22, <1>23, <1>24, <1>25
        DEF LoopStep

\* Every reachable state has the types TypeOK gives its variables, and every
\* operation in progress, of a thread or of a loop, has a target.
THEOREM TypeCorrect == Spec => [](TypeOK /\ TargetOK)
<1>1. Init => TypeOK /\ TargetOK BY TypeInit
<1>2. TypeOK /\ TargetOK /\ [Next]_vars => (TypeOK /\ TargetOK)'
  <2> SUFFICES ASSUME TypeOK, TargetOK, [Next]_vars
               PROVE  (TypeOK /\ TargetOK)'
    OBVIOUS
  <2>1. CASE Next BY <2>1, ThreadTypes, LoopTypes, ConstantsAssumption DEF Next
  <2>2. CASE UNCHANGED vars
    BY <2>2 DEF vars, endVars, handVars, loopVars, threadVars, histVars, TypeOK, TargetOK
  <2> QED BY <2>1, <2>2
<1> QED BY <1>1, <1>2, PTL DEF Spec

-----------------------------------------------------------------------------
(* Loops: what they handle is open, what they queue is waiting for them.    *)

\* A loop in handle_event or handle_wake works on an open connection of its
\* own, and on none otherwise; outside the event half of poll() no event of it
\* is left.
HandlerOK ==
  \A l \in Loops :
    /\ lpc[l] \in HandlingPcs => cur[l].end \in OpenOn(l)
    /\ lpc[l] \notin HandlingPcs => cur[l] = Idle
    /\ lpc[l] \in {"poll", "requests", "exited"} \/ cur[l].wake => batch[l] = {}

\* An AddConnection request is about an end that waits for this very loop, and
\* there is one per end.
QueueOK ==
  \A l \in Loops : \A i \in DOMAIN lq[l] :
    lq[l][i].op = "add" =>
      /\ conn[lq[l][i].end] = "queued"
      /\ LoopOf[lq[l][i].end] = l
      /\ \A j \in DOMAIN lq[l] :
           lq[l][j].op = "add" /\ lq[l][j].end = lq[l][i].end => i = j

\* An end that is not open has no Connection: nothing buffered, no interest
\* and no event; a closed one has no socket and no handler.
EmptyOK ==
  /\ \A e \in Ends : /\ conn[e] # "open" => out[e] = <<>> /\ ~wint[e] /\ ~armed[e]
                     /\ conn[e] = "closed" => chan[e] = <<>>
  /\ \A c \in Conns : /\ conn[ClientEnd(c)] # "open" => infl[c] = <<>>
                      /\ conn[ClientEnd(c)] = "closed" => reqs[c] = <<>>
                      /\ conn[ServerEnd(c)] # "open" => resp[c] = <<>>

\* The slab: one connection per key.
TokensOK == \A l \in Loops : \A e, f \in OpenOn(l) : tok[e] = tok[f] => e = f

\* A loop's events are of its own connections, past or present.
EventsHere == \A l \in Loops : \A ev \in batch[l] : LoopOf[ev.end] = l

SlabOK == TokensOK /\ EventsHere /\ EventsOwned

LoopInv == TypeOK /\ TargetOK /\ HandlerOK /\ QueueOK /\ EmptyOK /\ SlabOK

\* What LoopInv depends on beside types.
loopInvVars == <<conn, chan, out, wint, armed, handVars, loopVars, lq>>

LEMMA QuietLoop ==
  ASSUME HandlerOK, QueueOK, EmptyOK, UNCHANGED loopInvVars
  PROVE  HandlerOK' /\ QueueOK' /\ EmptyOK'
BY DEF HandlerOK, QueueOK, EmptyOK, OpenOn, loopInvVars, handVars, loopVars

LEMMA SameLoops ==
  ASSUME HandlerOK, UNCHANGED loopVars, \A l \in Loops : OpenOn(l)' = OpenOn(l)
  PROVE  HandlerOK'
BY DEF HandlerOK, loopVars

LEMMA PushOther ==
  ASSUME TypeOK, QueueOK, NEW l \in Loops, NEW r \in Requests, r.op # "add",
         PushTo(l, r), UNCHANGED conn
  PROVE  QueueOK'
<1> SUFFICES ASSUME NEW k \in Loops, NEW i \in DOMAIN lq'[k], lq'[k][i].op = "add"
             PROVE  /\ conn'[lq'[k][i].end] = "queued"
                    /\ LoopOf[lq'[k][i].end] = k
                    /\ \A j \in DOMAIN lq'[k] :
                         lq'[k][j].op = "add" /\ lq'[k][j].end = lq'[k][i].end => i = j
  BY DEF QueueOK
<1>1. \A j \in DOMAIN lq'[k] : lq'[k][j].op = "add" => j \in DOMAIN lq[k] /\ lq'[k][j] = lq[k][j]
  <2>1. CASE k = l BY <2>1 DEF PushTo, TypeOK
  <2>2. CASE k # l BY <2>2 DEF PushTo, TypeOK
  <2> QED BY <2>1, <2>2
<1> QED BY <1>1 DEF QueueOK

\* Taking the head off a queue; the end of an AddConnection may change state.
LEMMA PopAny ==
  ASSUME TypeOK, QueueOK, NEW l \in Loops, lq[l] # <<>>,
         lq' = [lq EXCEPT ![l] = Tail(@)],
         \A e \in Ends : conn'[e] # conn[e] =>
            Head(lq[l]).op = "add" /\ e = Head(lq[l]).end
  PROVE  QueueOK'
<1> DEFINE q == lq[l]
<1>1. q \in Seq(Requests) BY DEF TypeOK
<1>2. Head(q) = q[1] /\ 1 \in DOMAIN q BY <1>1
<1>3. \A j \in DOMAIN Tail(q) : j + 1 \in DOMAIN q /\ Tail(q)[j] = q[j + 1] /\ j + 1 # 1
  BY <1>1
<1>4. \A k \in Loops : \A i \in DOMAIN lq[k] : lq[k][i].op = "add" => lq[k][i].end \in Ends
  <2>1. \A r \in Requests : r.op = "add" => r.end \in Ends BY DEF Requests
  <2> QED BY <2>1, ElementOfSeq DEF TypeOK
<1>5. ASSUME NEW k \in Loops, k # l, NEW i \in DOMAIN lq[k], lq[k][i].op = "add"
      PROVE  conn'[lq[k][i].end] = "queued"
  BY <1>2, <1>4, <1>5 DEF QueueOK
<1>6. ASSUME NEW i \in DOMAIN Tail(q), Tail(q)[i].op = "add"
      PROVE  /\ conn'[Tail(q)[i].end] = "queued"
             /\ LoopOf[Tail(q)[i].end] = l
             /\ \A j \in DOMAIN Tail(q) :
                  Tail(q)[j].op = "add" /\ Tail(q)[j].end = Tail(q)[i].end => i = j
  <2> DEFINE n == i + 1
  <2>1. n \in DOMAIN q /\ Tail(q)[i] = q[n] /\ n # 1 BY <1>3
  <2>2. i \in Nat BY <1>1
  <2> HIDE DEF n
  <2>3. conn'[q[n].end] = "queued" /\ LoopOf[q[n].end] = l
    BY <1>2, <1>4, <1>6, <2>1 DEF QueueOK
  <2>4. ASSUME NEW j \in DOMAIN Tail(q), Tail(q)[j].op = "add", Tail(q)[j].end = Tail(q)[i].end
        PROVE  i = j
    <3>1. j + 1 \in DOMAIN q /\ Tail(q)[j] = q[j + 1] /\ j \in Nat BY <1>1, <1>3
    <3>2. n = j + 1 BY <1>6, <2>1, <2>4, <3>1 DEF QueueOK
    <3> QED BY <2>2, <3>1, <3>2 DEF n
  <2> QED BY <2>1, <2>3, <2>4
<1> DEFINE r == Tail(q)
<1>7. lq'[l] = r /\ \A k \in Loops : k # l => lq'[k] = lq[k] BY DEF TypeOK
<1>8. QueueOK' <=> \A k \in Loops : \A i \in DOMAIN lq'[k] :
    lq'[k][i].op = "add" =>
      /\ conn'[lq'[k][i].end] = "queued"
      /\ LoopOf[lq'[k][i].end] = k
      /\ \A j \in DOMAIN lq'[k] :
           lq'[k][j].op = "add" /\ lq'[k][j].end = lq'[k][i].end => i = j
  BY DEF QueueOK
<1>9. ASSUME NEW k \in Loops, NEW i \in DOMAIN lq'[k], lq'[k][i].op = "add"
      PROVE  /\ conn'[lq'[k][i].end] = "queued"
             /\ LoopOf[lq'[k][i].end] = k
             /\ \A j \in DOMAIN lq'[k] :
                  lq'[k][j].op = "add" /\ lq'[k][j].end = lq'[k][i].end => i = j
  <2>1. CASE k = l
    <3>1. \A n \in DOMAIN r : r[n].op = "add" =>
            /\ conn'[r[n].end] = "queued"
            /\ LoopOf[r[n].end] = l
            /\ \A j \in DOMAIN r : r[j].op = "add" /\ r[j].end = r[n].end => n = j
      BY <1>6
    <3> HIDE DEF r
    <3> QED BY <1>7, <1>9, <2>1, <3>1
  <2>2. CASE k # l BY <1>5, <1>7, <1>9, <2>2 DEF QueueOK
  <2> QED BY <2>1, <2>2
<1> QED BY <1>8, <1>9

LEMMA CloseEmpties ==
  ASSUME TypeOK, EmptyOK, NEW S, CloseEnds(S)
  PROVE  EmptyOK'
<1> USE EndsFacts
<1>1. \A e \in Ends : /\ conn'[e] # "open" => out'[e] = <<>> /\ ~wint'[e] /\ ~armed'[e]
                      /\ conn'[e] = "closed" => chan'[e] = <<>>
  BY DEF CloseEnds, EmptyOK, HangUp, TypeOK
<1>2. \A c \in Conns : /\ conn'[ClientEnd(c)] # "open" => infl'[c] = <<>>
                       /\ conn'[ClientEnd(c)] = "closed" => reqs'[c] = <<>>
                       /\ conn'[ServerEnd(c)] # "open" => resp'[c] = <<>>
  BY DEF CloseEnds, EmptyOK, TypeOK
<1> QED BY <1>1, <1>2 DEF EmptyOK

\* The ways a loop steps: the four actions that end in RemoveConnection, and
\* the two that end in ExitLoop, are taken together.
LoopKind(l) ==
  \/ Poll(l) \/ HandleEvent(l) \/ SpuriousEvent(l) \/ EventsDone(l)
  \/ RecvResponse(l) \/ RecvRequest(l) \/ RecvDone(l)
  \/ FlushRequest(l) \/ FlushResponse(l) \/ FlushDone(l)
  \/ SendFrame(l) \/ SendBlocks(l) \/ SetWritable(l) \/ SendDone(l)
  \/ lpc[l] \in HandlingPcs /\ RemoveConnection(l)
  \/ AddConnection(l) \/ AddConnectionFails(l)
  \/ WakeConnection(l) \/ SpuriousWake(l) \/ RequestsDone(l)
  \/ lpc[l] \in {"poll", "requests"} /\ ExitLoop(l)

LEMMA LoopKinds ==
  ASSUME NEW l, LoopStep(l) \/ PollFails(l)
  PROVE  LoopKind(l)
BY DEF LoopStep, LoopKind, RecvFails, FlushFails, SendFails, ConnectionDone, HandlingPcs,
       Shutdown, PollFails, PopRequest

LEMMA PushAdd ==
  ASSUME TypeOK, QueueOK, NEW e \in Ends, NEW to \in Threads \cup {None},
         conn[e] = "unbound", conn' = [conn EXCEPT ![e] = "queued"],
         PushTo(LoopOf[e], AddReq(e, to))
  PROVE  QueueOK'
<1> DEFINE l == LoopOf[e]
           q == lq[l]
           r == AddReq(e, to)
<1>1. l \in Loops /\ q \in Seq(Requests) /\ r \in Requests
  BY ConstantsAssumption, RequestTypes DEF TypeOK
<1>2. r.op = "add" /\ r.end = e BY DEF AddReq
<1>3. \A k \in Loops : \A i \in DOMAIN lq[k] :
        lq[k][i].op = "add" => lq[k][i].end # e /\ conn'[lq[k][i].end] = "queued"
  <2>1. \A x \in Requests : x.op = "add" => x.end \in Ends BY DEF Requests
  <2>2. \A k \in Loops : \A i \in DOMAIN lq[k] : lq[k][i].op = "add" => lq[k][i].end \in Ends
    BY <2>1, ElementOfSeq DEF TypeOK
  <2> QED BY <2>2 DEF QueueOK, TypeOK
<1>4. lq'[l] = Append(q, r) /\ \A k \in Loops : k # l => lq'[k] = lq[k]
  BY <1>1 DEF PushTo, TypeOK
<1> HIDE DEF r
<1>5. \A i \in DOMAIN lq'[l] : \/ i \in DOMAIN q /\ lq'[l][i] = q[i]
                               \/ i = Len(q) + 1 /\ lq'[l][i] = r
  BY <1>1, <1>4
<1> HIDE DEF q
<1>6. ASSUME NEW k \in Loops, NEW i \in DOMAIN lq'[k], lq'[k][i].op = "add"
      PROVE  /\ conn'[lq'[k][i].end] = "queued"
             /\ LoopOf[lq'[k][i].end] = k
             /\ \A j \in DOMAIN lq'[k] :
                  lq'[k][j].op = "add" /\ lq'[k][j].end = lq'[k][i].end => i = j
  <2>1. CASE k # l BY <1>3, <1>4, <1>6, <2>1 DEF QueueOK
  <2>2. CASE k = l /\ i \in DOMAIN q /\ lq'[k][i] = q[i]
    BY <1>2, <1>3, <1>5, <1>6, <2>2 DEF QueueOK, q
  <2>3. CASE k = l /\ i = Len(q) + 1 /\ lq'[k][i] = r
    <3>1. conn'[e] = "queued" BY DEF TypeOK
    <3> QED BY <1>2, <1>3, <1>5, <1>6, <2>3, <3>1 DEF q
  <2> QED BY <1>5, <2>1, <2>2, <2>3
<1> QED BY <1>6 DEF QueueOK

LEMMA ThreadLoopInv ==
  ASSUME LoopInv, NEW t \in Threads, ThreadStep(t) \/ Begin(t)
  PROVE  HandlerOK' /\ QueueOK' /\ EmptyOK'
<1> USE DEF LoopInv
<1>1. CASE Kick(t) \/ WakeDropped(t) \/ BindReturn(t) \/ CallReturn(t) \/ DropRelease(t) \/ Join(t)
  BY <1>1, QuietLoop DEF loopInvVars, endVars, Kick, WakeDropped, BindReturn, CallReturn,
     DropRelease, Join
<1>2. CASE Wake(t)
  <2>1. WakeReq(tok[tgt[t]]) \in Requests /\ LoopOf[tgt[t]] \in Loops
    BY <1>2, RequestTypes, ConstantsAssumption DEF Wake, TypeOK, TargetOK, EndPcs
  <2>2. QueueOK'
    BY <1>2, <2>1, PushOther DEF Wake, endVars, WakeReq
  <2>3. HandlerOK'
    BY <1>2, SameLoops DEF Wake, OpenOn, endVars
  <2>4. EmptyOK'
    BY <1>2 DEF Wake, EmptyOK, endVars, handVars
  <2> QED BY <2>2, <2>3, <2>4
<1>3. ASSUME NEW e \in Ends, NEW sync \in BOOLEAN, Bind(t, e, sync)
      PROVE  HandlerOK' /\ QueueOK' /\ EmptyOK'
  <2>1. QueueOK'
    BY <1>3, PushAdd DEF Bind
  <2>2. HandlerOK'
    BY <1>3, SameLoops DEF Bind, OpenOn, TypeOK
  <2>3. EmptyOK'
    BY <1>3, EndsFacts DEF Bind, EmptyOK, handVars, TypeOK
  <2> QED BY <2>1, <2>2, <2>3
<1>4. ASSUME NEW e \in Ends, BindFails(t, e)
      PROVE  HandlerOK' /\ QueueOK' /\ EmptyOK'
  <2>1. lq' = lq /\ conn[e] = "unbound" /\ conn' = [f \in Ends |-> IF f \in {e} THEN "closed" ELSE conn[f]]
    BY <1>4 DEF BindFails, CloseEnds
  <2>2. QueueOK'
    <3>1. \A x \in Requests : x.op = "add" => x.end \in Ends BY DEF Requests
    <3>2. \A k \in Loops : \A i \in DOMAIN lq[k] : lq[k][i].op = "add" => lq[k][i].end \in Ends
      BY <3>1, ElementOfSeq DEF TypeOK
    <3> QED BY <2>1, <3>2 DEF QueueOK
  <2>3. HandlerOK'
    BY <1>4, <2>1, SameLoops DEF BindFails, OpenOn, TypeOK
  <2>4. EmptyOK'
    BY <1>4, CloseEmpties DEF BindFails
  <2> QED BY <2>2, <2>3, <2>4
<1>5. ASSUME NEW l \in Stoppable, Stop(t, l)
      PROVE  HandlerOK' /\ QueueOK' /\ EmptyOK'
  <2>1. UNCHANGED <<endVars, handVars, loopVars>> /\ (PushTo(l, StopReq) \/ UNCHANGED lq)
    BY <1>5 DEF Stop
  <2>2. CASE UNCHANGED lq
    BY <2>1, <2>2, QuietLoop DEF loopInvVars, endVars
  <2>3. CASE PushTo(l, StopReq)
    <3>1. QueueOK'
      BY <2>1, <2>3, PushOther, RequestTypes, ConstantsAssumption DEF endVars, StopReq
    <3>2. HandlerOK'
      BY <2>1, SameLoops DEF OpenOn, endVars
    <3>3. EmptyOK'
      BY <2>1 DEF EmptyOK, endVars, handVars
    <3> QED BY <3>1, <3>2, <3>3
  <2> QED BY <2>1, <2>2, <2>3
<1>6. ASSUME NEW c \in Conns, Call(t, c)
      PROVE  HandlerOK' /\ QueueOK' /\ EmptyOK'
  <2>1. QueueOK' BY <1>6 DEF Call, QueueOK, endVars
  <2>2. HandlerOK' BY <1>6, SameLoops DEF Call, OpenOn, endVars
  <2>3. EmptyOK' BY <1>6, EndsFacts DEF Call, EmptyOK, endVars, TypeOK
  <2> QED BY <2>1, <2>2, <2>3
<1>7. ASSUME NEW c \in Conns, \/ CallFails(t, c) \/ DropRead(t, c)
                              \/ \E u \in Threads : Clone(t, u, c)
      PROVE  HandlerOK' /\ QueueOK' /\ EmptyOK'
  BY <1>7, QuietLoop DEF loopInvVars, endVars, CallFails, DropRead, Clone
<1> QED BY <1>1, <1>2, <1>3, <1>4, <1>5, <1>6, <1>7 DEF ThreadStep, Begin

\* An open end is handled by one loop, its own.
LEMMA HandledOwn ==
  ASSUME LoopInv, NEW l \in Loops, lpc[l] \in HandlingPcs
  PROVE  /\ cur[l].end \in Ends /\ conn[cur[l].end] = "open" /\ LoopOf[cur[l].end] = l
         /\ cur[l].end[1] \in Conns /\ Peer(cur[l].end) \in Ends
BY EndsFacts DEF LoopInv, HandlerOK, OpenOn

LEMMA RemoveLoopInv ==
  ASSUME LoopInv, NEW l \in Loops, lpc[l] \in HandlingPcs, RemoveConnection(l)
  PROVE  HandlerOK' /\ QueueOK' /\ EmptyOK'
<1> USE DEF LoopInv
<1> DEFINE e == cur[l].end
<1>1. e \in Ends /\ conn[e] = "open" /\ LoopOf[e] = l BY HandledOwn
<1>2. /\ lq' = lq /\ batch' = batch
      /\ conn' = [f \in Ends |-> IF f \in {e} THEN "closed" ELSE conn[f]]
      /\ lpc' = [lpc EXCEPT ![l] = Resume(l)]
      /\ cur' = [cur EXCEPT ![l] = Idle]
  BY DEF RemoveConnection, CloseEnds, FinishHandling
<1> HIDE DEF e
<1>3. QueueOK'
  <2>1. \A x \in Requests : x.op = "add" => x.end \in Ends BY DEF Requests
  <2>2. \A k \in Loops : \A i \in DOMAIN lq[k] : lq[k][i].op = "add" => lq[k][i].end \in Ends
    BY <2>1, ElementOfSeq DEF TypeOK
  <2> QED BY <1>1, <1>2, <2>2 DEF QueueOK
<1>4. EmptyOK' BY CloseEmpties DEF RemoveConnection
<1>5. \A k \in Loops : OpenOn(k)' = OpenOn(k) \ {e}
  BY <1>1, <1>2 DEF OpenOn
<1>6. \A k \in Loops : k # l => e \notin OpenOn(k)
  BY <1>1 DEF OpenOn
<1>7. HandlerOK'
  <2>1. /\ lpc'[l] \notin HandlingPcs /\ cur'[l] = Idle
        /\ \A k \in Loops : k # l => lpc'[k] = lpc[k] /\ cur'[k] = cur[k]
    BY <1>2 DEF TypeOK, Resume, HandlingPcs
  <2>2. lpc'[l] \in {"poll", "requests", "exited"} \/ cur'[l].wake => batch'[l] = {}
    BY <1>2, <2>1 DEF HandlerOK, Resume, Idle, TypeOK
  <2> QED BY <1>2, <1>5, <1>6, <2>1, <2>2 DEF HandlerOK
<1> QED BY <1>3, <1>4, <1>7

LEMMA ExitLoopInv ==
  ASSUME LoopInv, NEW l \in Loops, lpc[l] \in {"poll", "requests"}, ExitLoop(l)
  PROVE  HandlerOK' /\ QueueOK' /\ EmptyOK'
<1> USE DEF LoopInv
<1> DEFINE S == OpenOn(l) \cup {r.end : r \in QueuedAdds(l)}
<1>1. /\ lq' = [lq EXCEPT ![l] = <<>>] /\ batch' = batch /\ cur' = cur
      /\ conn' = [f \in Ends |-> IF f \in S THEN "closed" ELSE conn[f]]
      /\ lpc' = [lpc EXCEPT ![l] = "exited"]
      /\ CloseEnds(S)
  BY DEF ExitLoop, CloseEnds
<1>2. \A f \in S : LoopOf[f] = l
  BY DEF QueueOK, QueuedAdds, OpenOn, Range
<1> HIDE DEF S
<1>3. QueueOK'
  <2>1. \A x \in Requests : x.op = "add" => x.end \in Ends BY DEF Requests
  <2>2. \A k \in Loops : \A i \in DOMAIN lq[k] : lq[k][i].op = "add" => lq[k][i].end \in Ends
    BY <2>1, ElementOfSeq DEF TypeOK
  <2>3. \A k \in Loops : k # l => \A i \in DOMAIN lq[k] :
          lq[k][i].op = "add" => lq[k][i].end \notin S
    BY <1>2, <2>2 DEF QueueOK
  <2>4. DOMAIN lq'[l] = {} /\ \A k \in Loops : k # l => lq'[k] = lq[k]
    BY <1>1 DEF TypeOK
  <2> QED BY <1>1, <2>2, <2>3, <2>4 DEF QueueOK
<1>4. EmptyOK' BY <1>1, CloseEmpties
<1>5. \A k \in Loops : k # l => OpenOn(k)' = OpenOn(k)
  BY <1>1, <1>2 DEF OpenOn
<1>6. batch[l] = {} /\ cur[l] = Idle /\ lpc'[l] \notin HandlingPcs /\ lpc[l] \notin HandlingPcs
  BY <1>1 DEF HandlerOK, HandlingPcs, TypeOK
<1>7. HandlerOK' BY <1>1, <1>5, <1>6 DEF HandlerOK, TypeOK
<1> QED BY <1>3, <1>4, <1>7

LEMMA LoopLoopInv ==
  ASSUME LoopInv, NEW l \in Loops, LoopKind(l)
  PROVE  HandlerOK' /\ QueueOK' /\ EmptyOK'
<1> USE DEF LoopInv
<1>1. CASE Poll(l)
  <2>1. UNCHANGED <<conn, lq, cur>> /\ batch[l] = {} /\ cur[l] = Idle
    BY <1>1 DEF Poll, HandlerOK, HandlingPcs
  <2>2. QueueOK' BY <2>1 DEF QueueOK
  <2>3. EmptyOK' BY <1>1 DEF Poll, EmptyOK, handVars
  <2>4. \A k \in Loops : OpenOn(k)' = OpenOn(k) BY <2>1 DEF OpenOn
  <2>5. batch' = [batch EXCEPT ![l] = Events(l)] /\ lpc' = [lpc EXCEPT ![l] = "events"]
    BY <1>1 DEF Poll
  <2>6. HandlerOK'
    BY <2>1, <2>4, <2>5 DEF HandlerOK, TypeOK, HandlingPcs, Idle
  <2> QED BY <2>2, <2>3, <2>6
<1>2. CASE HandleEvent(l)
  <2>1. PICK ev \in batch[l], e \in OpenOn(l) :
         /\ batch' = [batch EXCEPT ![l] = @ \ {ev}]
         /\ cur' = [cur EXCEPT ![l] = [end |-> e, wake |-> FALSE, eof |-> FALSE]]
         /\ lpc' = [lpc EXCEPT ![l] = IF ev.readable THEN "recv" ELSE "flush"]
    BY <1>2 DEF HandleEvent
  <2>2. UNCHANGED <<conn, lq>> BY <1>2 DEF HandleEvent, endVars
  <2>3. QueueOK' BY <2>2 DEF QueueOK
  <2>4. EmptyOK' BY <1>2 DEF HandleEvent, EmptyOK, handVars, endVars
  <2>5. \A k \in Loops : OpenOn(k)' = OpenOn(k) BY <2>2 DEF OpenOn
  <2>6. HandlerOK' BY <2>1, <2>5 DEF HandlerOK, TypeOK, HandlingPcs
  <2> QED BY <2>3, <2>4, <2>6
<1>3. CASE EventsDone(l) \/ RequestsDone(l)
  <2>1. UNCHANGED <<endVars, handVars, lq, cur, batch>>
    BY <1>3 DEF EventsDone, RequestsDone
  <2>2. QueueOK' BY <2>1 DEF QueueOK, endVars
  <2>3. EmptyOK' BY <2>1 DEF EmptyOK, handVars, endVars
  <2>4. HandlerOK'
    <3>1. /\ lpc[l] \notin HandlingPcs /\ batch[l] = {}
          /\ \E p \in {"requests", "poll"} : lpc' = [lpc EXCEPT ![l] = p]
      BY <1>3 DEF EventsDone, RequestsDone, HandlerOK, HandlingPcs
    <3>2. \A k \in Loops : OpenOn(k)' = OpenOn(k) BY <2>1 DEF OpenOn, endVars
    <3> QED BY <2>1, <3>1, <3>2 DEF HandlerOK, TypeOK, HandlingPcs
  <2> QED BY <2>2, <2>3, <2>4
<1>4. CASE RecvResponse(l) \/ RecvRequest(l) \/ FlushRequest(l) \/ FlushResponse(l) \/ SendFrame(l)
  <2>1. lpc[l] \in HandlingPcs /\ UNCHANGED <<conn, lq, wint, loopVars>>
    BY <1>4 DEF RecvResponse, RecvRequest, FlushRequest, FlushResponse, SendFrame, HandlingPcs
  <2>2. QueueOK' BY <2>1 DEF QueueOK
  <2>3. HandlerOK' BY <2>1, SameLoops DEF OpenOn
  <2> DEFINE e == cur[l].end
  <2>4. /\ e \in Ends /\ conn[e] = "open" /\ e[1] \in Conns /\ Peer(e) \in Ends
        /\ e[2] = "client" => e = ClientEnd(e[1])
        /\ e[2] # "client" => e = ServerEnd(e[1])
    BY <2>1, HandledOwn, EndsFacts
  <2> HIDE DEF e
  <2>5. EmptyOK'
    <3>1. CASE RecvResponse(l)
      BY <2>4, <3>1, EndsFacts DEF e, EmptyOK, TypeOK, RecvResponse, TakeFrame
    <3>2. CASE RecvRequest(l)
      BY <2>4, <3>2, EndsFacts DEF e, EmptyOK, TypeOK, RecvRequest, TakeFrame
    <3>3. CASE FlushRequest(l)
      BY <2>4, <3>3, EndsFacts DEF e, EmptyOK, TypeOK, FlushRequest
    <3>4. CASE FlushResponse(l)
      BY <2>4, <3>4, EndsFacts DEF e, EmptyOK, TypeOK, FlushResponse
    <3>5. CASE SendFrame(l)
      BY <2>4, <3>5, EndsFacts DEF e, EmptyOK, TypeOK, SendFrame, handVars
    <3> QED BY <1>4, <3>1, <3>2, <3>3, <3>4, <3>5
  <2> QED BY <2>2, <2>3, <2>5
<1>5. CASE RecvDone(l) \/ FlushDone(l) \/ SendBlocks(l)
  <2>1. /\ UNCHANGED <<endVars, handVars, lq, batch>>
        /\ lpc[l] \in HandlingPcs
        /\ \E p \in HandlingPcs : lpc' = [lpc EXCEPT ![l] = p]
        /\ cur' = cur \/ \E b : cur' = [cur EXCEPT ![l].eof = b]
    BY <1>5 DEF RecvDone, FlushDone, SendBlocks, HandlingPcs
  <2>2. QueueOK' BY <2>1 DEF QueueOK, endVars
  <2>3. EmptyOK' BY <2>1 DEF EmptyOK, handVars, endVars
  <2>4. \A k \in Loops : /\ cur'[k].end = cur[k].end /\ cur'[k].wake = cur[k].wake
                         /\ k # l => cur'[k] = cur[k]
    BY <2>1 DEF TypeOK
  <2>5. \A k \in Loops : OpenOn(k)' = OpenOn(k) BY <2>1 DEF OpenOn, endVars
  <2>6. HandlerOK' BY <2>1, <2>4, <2>5 DEF HandlerOK, TypeOK, HandlingPcs
  <2> QED BY <2>2, <2>3, <2>6
<1>6. CASE SetWritable(l) \/ SendDone(l)
  <2>1. /\ UNCHANGED <<conn, chan, out, handVars, lq, batch>>
        /\ lpc[l] \in HandlingPcs
        /\ lpc' = [lpc EXCEPT ![l] = Resume(l)]
        /\ cur' = [cur EXCEPT ![l] = Idle]
    BY <1>6 DEF SetWritable, SendDone, FinishHandling, HandlingPcs
  <2>2. QueueOK' BY <2>1 DEF QueueOK
  <2>3. cur[l].end \in Ends /\ conn[cur[l].end] = "open" BY <2>1, HandledOwn
  <2>4. EmptyOK'
    BY <1>6, <2>3 DEF EmptyOK, handVars, SetWritable, SendDone, TypeOK
  <2>5. \A k \in Loops : OpenOn(k)' = OpenOn(k) BY <2>1 DEF OpenOn
  <2>6. HandlerOK'
    BY <2>1, <2>5 DEF HandlerOK, TypeOK, HandlingPcs, Resume, Idle
  <2> QED BY <2>2, <2>4, <2>6
<1>7. CASE lpc[l] \in HandlingPcs /\ RemoveConnection(l)
  BY <1>7, RemoveLoopInv
<1>8. CASE AddConnection(l) \/ AddConnectionFails(l)
  <2> DEFINE r == Head(lq[l])
  <2>1. lq[l] \in Seq(Requests) /\ lq[l] # <<>> /\ r.op = "add" /\ lq' = [lq EXCEPT ![l] = Tail(@)]
    BY <1>8 DEF AddConnection, AddConnectionFails, PopRequest, TypeOK
  <2>2. r.end \in Ends /\ conn[r.end] = "queued" /\ LoopOf[r.end] = l
    <3>1. r = lq[l][1] /\ 1 \in DOMAIN lq[l] /\ r \in Requests BY <2>1
    <3> QED BY <2>1, <3>1 DEF QueueOK, Requests
  <2>3. /\ conn'[r.end] \in {"open", "closed"}
        /\ \A f \in Ends : f # r.end => conn'[f] = conn[f]
    BY <1>8, <2>2 DEF AddConnection, AddConnectionFails, CloseEnds, TypeOK
  <2>4. QueueOK' BY <2>1, <2>3, PopAny
  <2>5. EmptyOK'
    <3>1. CASE AddConnection(l)
      BY <2>2, <3>1, EndsFacts DEF AddConnection, EmptyOK, TypeOK, handVars
    <3>2. CASE AddConnectionFails(l)
      BY <3>2, CloseEmpties DEF AddConnectionFails
    <3> QED BY <1>8, <3>1, <3>2
  <2> HIDE DEF r
  <2>6. \A k \in Loops : OpenOn(k) \subseteq OpenOn(k)'
    BY <2>2, <2>3 DEF OpenOn
  <2>7. UNCHANGED loopVars BY <1>8 DEF AddConnection, AddConnectionFails
  <2>8. HandlerOK' BY <2>6, <2>7 DEF HandlerOK, loopVars
  <2> QED BY <2>4, <2>5, <2>8
<1>9. CASE WakeConnection(l)
  <2>1. PICK e \in OpenOn(l) : cur' = [cur EXCEPT ![l] = [end |-> e, wake |-> TRUE, eof |-> FALSE]]
    BY <1>9 DEF WakeConnection
  <2>2. /\ lpc[l] = "requests" /\ lpc' = [lpc EXCEPT ![l] = "flush"]
        /\ UNCHANGED <<endVars, handVars, batch>> /\ batch[l] = {}
    BY <1>9 DEF WakeConnection, PopRequest, HandlerOK
  <2>3. QueueOK' BY <1>9, PopAny DEF WakeConnection, PopRequest, endVars
  <2>4. EmptyOK' BY <2>2 DEF EmptyOK, endVars, handVars
  <2>5. \A k \in Loops : OpenOn(k)' = OpenOn(k) BY <2>2 DEF OpenOn, endVars
  <2>6. HandlerOK' BY <2>1, <2>2, <2>5 DEF HandlerOK, TypeOK, HandlingPcs
  <2> QED BY <2>3, <2>4, <2>6
<1>10. CASE SpuriousWake(l)
  <2>1. QueueOK' BY <1>10, PopAny DEF SpuriousWake, PopRequest, endVars
  <2>2. EmptyOK' BY <1>10 DEF SpuriousWake, EmptyOK, endVars, handVars
  <2>3. HandlerOK' BY <1>10, SameLoops DEF SpuriousWake, OpenOn, endVars
  <2> QED BY <2>1, <2>2, <2>3
<1>11. CASE lpc[l] \in {"poll", "requests"} /\ ExitLoop(l)
  BY <1>11, ExitLoopInv
<1>12. CASE SpuriousEvent(l)
  <2>1. /\ UNCHANGED <<endVars, handVars, lq, lpc, cur>> /\ lpc[l] = "events"
        /\ \E ev \in batch[l] : batch' = [batch EXCEPT ![l] = @ \ {ev}]
    BY <1>12 DEF SpuriousEvent
  <2>2. QueueOK' BY <2>1 DEF QueueOK, endVars
  <2>3. EmptyOK' BY <2>1 DEF EmptyOK, handVars, endVars
  <2>4. \A k \in Loops : OpenOn(k)' = OpenOn(k) BY <2>1 DEF OpenOn, endVars
  <2>5. HandlerOK' BY <2>1, <2>4 DEF HandlerOK, TypeOK, HandlingPcs
  <2> QED BY <2>2, <2>3, <2>5
<1> QED BY <1>1, <1>2, <1>3, <1>4, <1>5, <1>6, <1>7, <1>8, <1>9, <1>10, <1>11, <1>12 DEF LoopKind

\* The request a loop takes off its queue.
LEMMA HeadRequest ==
  ASSUME LoopInv, NEW l \in Loops, PopRequest(l, "add")
  PROVE  LET r == Head(lq[l]) IN
         /\ r \in Range(lq[l]) /\ r.op = "add" /\ r.end \in Ends
         /\ r.to \in Threads \cup {None}
         /\ conn[r.end] = "queued" /\ LoopOf[r.end] = l
<1> USE DEF LoopInv
<1> DEFINE r == Head(lq[l])
<1>1. lq[l] \in Seq(Requests) /\ lq[l] # <<>> /\ r.op = "add" BY DEF PopRequest, TypeOK
<1>2. r = lq[l][1] /\ 1 \in DOMAIN lq[l] /\ r \in Requests BY <1>1
<1>3. r \in Range(lq[l]) BY <1>2 DEF Range
<1>4. r.end \in Ends /\ r.to \in Threads \cup {None} BY <1>1, <1>2 DEF Requests
<1> QED BY <1>1, <1>2, <1>3, <1>4 DEF QueueOK

\* The connections of a loop only grow by AddConnection.
LEMMA OpenShrinks ==
  ASSUME LoopInv, [Next]_vars, \A l \in Loops : ~AddConnection(l)
  PROVE  tok' = tok /\ \A k \in Loops : OpenOn(k)' \subseteq OpenOn(k)
<1> SUFFICES tok' = tok /\ \A e \in Ends : conn'[e] = "open" => conn[e] = "open"
  BY DEF OpenOn
<1>1. ASSUME NEW t \in Threads, ThreadStep(t) PROVE UNCHANGED <<tok, conn>>
  BY <1>1 DEF ThreadStep, Kick, Wake, WakeDropped, BindReturn, CallReturn, DropRelease, Join, endVars
<1>2. ASSUME NEW t \in Threads, Begin(t)
      PROVE  tok' = tok /\ \A e \in Ends : conn'[e] = "open" => conn[e] = "open"
  <2>1. ASSUME NEW e \in Ends, BindFails(t, e)
        PROVE  tok' = tok /\ \A f \in Ends : conn'[f] = "open" => conn[f] = "open"
    BY <2>1 DEF BindFails, CloseEnds
  <2>2. ASSUME NEW e \in Ends, NEW sync \in BOOLEAN, Bind(t, e, sync)
        PROVE  tok' = tok /\ \A f \in Ends : conn'[f] = "open" => conn[f] = "open"
    BY <2>2 DEF Bind, LoopInv, TypeOK
  <2>3. ASSUME NEW l \in Stoppable, Stop(t, l) PROVE UNCHANGED <<tok, conn>>
    BY <2>3 DEF Stop, endVars
  <2>4. ASSUME NEW c \in Conns, \/ Call(t, c) \/ CallFails(t, c) \/ DropRead(t, c)
                                \/ \E u \in Threads : Clone(t, u, c)
        PROVE  UNCHANGED <<tok, conn>>
    BY <2>4 DEF Call, CallFails, DropRead, Clone, endVars
  <2> QED BY <1>2, <2>1, <2>2, <2>3, <2>4 DEF Begin
<1>3. ASSUME NEW l \in Loops, LoopKind(l)
      PROVE  tok' = tok /\ \A e \in Ends : conn'[e] = "open" => conn[e] = "open"
  <2>1. CASE AddConnectionFails(l) \/ RemoveConnection(l) \/ ExitLoop(l)
    BY <2>1 DEF AddConnectionFails, RemoveConnection, ExitLoop, CloseEnds
  <2>2. CASE ~(AddConnectionFails(l) \/ RemoveConnection(l) \/ ExitLoop(l))
    <3>1. UNCHANGED <<tok, conn>>
      BY <1>3, <2>2 DEF LoopKind, Poll, HandleEvent, SpuriousEvent, EventsDone, RecvResponse, RecvRequest, RecvDone,
         FlushRequest, FlushResponse, FlushDone, SendFrame, SendBlocks, SetWritable, SendDone,
         WakeConnection, SpuriousWake, RequestsDone, endVars
    <3> QED BY <3>1
  <2> QED BY <2>1, <2>2
<1> QED BY <1>1, <1>2, <1>3, LoopKinds DEF Next, vars, endVars

\* Only Poll adds to what a loop has to handle.
LEMMA EventsShrink ==
  ASSUME TypeOK, [Next]_vars, \A l \in Loops : ~Poll(l)
  PROVE  \A k \in Loops : batch'[k] \subseteq batch[k]
<1>1. ASSUME NEW t \in Threads, ThreadStep(t) \/ Begin(t) PROVE batch' = batch
  <2>1. CASE ThreadStep(t)
    BY <2>1 DEF ThreadStep, Kick, Wake, WakeDropped, BindReturn, CallReturn, DropRelease, Join, loopVars
  <2>2. CASE Begin(t)
    BY <2>2 DEF Begin, Bind, BindFails, Stop, Call, CallFails, DropRead, Clone, loopVars
  <2> QED BY <1>1, <2>1, <2>2
<1>2. ASSUME NEW l \in Loops, LoopKind(l), ~Poll(l)
      PROVE  \A k \in Loops : batch'[k] \subseteq batch[k]
  <2>1. CASE HandleEvent(l) \/ SpuriousEvent(l)
    <3>1. \E ev \in batch[l] : batch' = [batch EXCEPT ![l] = @ \ {ev}]
      BY <2>1 DEF HandleEvent, SpuriousEvent
    <3> QED BY <3>1 DEF TypeOK
  <2>2. CASE EventsDone(l) \/ RecvDone(l) \/ FlushDone(l) \/ SendBlocks(l)
    BY <2>2 DEF EventsDone, RecvDone, FlushDone, SendBlocks
  <2>3. CASE SetWritable(l) \/ SendDone(l) \/ RemoveConnection(l)
    BY <2>3 DEF SetWritable, SendDone, RemoveConnection, FinishHandling
  <2>4. CASE RecvResponse(l) \/ RecvRequest(l) \/ FlushRequest(l) \/ FlushResponse(l) \/ SendFrame(l)
    BY <2>4 DEF RecvResponse, RecvRequest, FlushRequest, FlushResponse, SendFrame, loopVars
  <2>5. CASE AddConnection(l) \/ AddConnectionFails(l) \/ WakeConnection(l) \/ SpuriousWake(l)
    BY <2>5 DEF AddConnection, AddConnectionFails, WakeConnection, SpuriousWake, loopVars
  <2>6. CASE RequestsDone(l) \/ ExitLoop(l)
    BY <2>6 DEF RequestsDone, ExitLoop
  <2> QED BY <1>2, <2>1, <2>2, <2>3, <2>4, <2>5, <2>6 DEF LoopKind
<1>3. CASE UNCHANGED vars BY <1>3 DEF vars, loopVars
<1> QED BY <1>1, <1>2, <1>3, LoopKinds DEF Next

\* A new connection takes a key that is vacant and has no event left: the
\* events have been used up when the requests are handled.
LEMMA AddSlab ==
  ASSUME LoopInv, NEW l \in Loops, AddConnection(l)
  PROVE  SlabOK'
<1> USE DEF LoopInv, SlabOK
<1> DEFINE f == Head(lq[l]).end
<1>1. f \in Ends /\ conn[f] = "queued" /\ LoopOf[f] = l
  BY HeadRequest DEF AddConnection
<1>2. PICK k \in Tokens \ {tok[e] : e \in OpenOn(l)} : tok' = [tok EXCEPT ![f] = k]
  BY DEF AddConnection
<1>3. /\ conn' = [conn EXCEPT ![f] = "open"] /\ lpc[l] = "requests" /\ batch' = batch
  BY DEF AddConnection, PopRequest, loopVars
<1> HIDE DEF f
<1>4. OpenOn(l)' = OpenOn(l) \cup {f} /\ f \notin OpenOn(l)
  BY <1>1, <1>3 DEF OpenOn, TypeOK
<1>5. \A j \in Loops : j # l => OpenOn(j)' = OpenOn(j) /\ f \notin OpenOn(j)
  BY <1>1, <1>3 DEF OpenOn, TypeOK
<1>6. tok'[f] = k /\ \A e \in Ends : e # f => tok'[e] = tok[e] BY <1>1, <1>2 DEF TypeOK
<1>7. \A e \in OpenOn(l) : tok[e] # k /\ e \in Ends BY <1>2 DEF OpenOn
<1>8. TokensOK'
  <2> SUFFICES ASSUME NEW j \in Loops, NEW e \in OpenOn(j)', NEW g \in OpenOn(j)', tok'[e] = tok'[g]
               PROVE  e = g
    BY DEF TokensOK
  <2>1. CASE j = l BY <1>4, <1>6, <1>7, <2>1 DEF TokensOK
  <2>2. CASE j # l
    <3>1. e \in OpenOn(j) /\ g \in OpenOn(j) /\ e # f /\ g # f /\ e \in Ends /\ g \in Ends
      BY <1>5, <2>2 DEF OpenOn
    <3> QED BY <1>6, <3>1 DEF TokensOK
  <2> QED BY <2>1, <2>2
<1>9. EventsHere' BY <1>3 DEF EventsHere
<1>10. EventsOwned'
  <2> SUFFICES ASSUME NEW j \in Loops, NEW ev \in batch[j], NEW e \in OpenOn(j)',
                      tok'[e] = tok'[ev.end]
               PROVE  e = ev.end
    BY <1>3 DEF EventsOwned
  <2>1. j # l BY <1>3 DEF HandlerOK
  <2>2. e \in OpenOn(j) /\ e # f /\ e \in Ends BY <1>5, <2>1 DEF OpenOn
  <2>3. ev.end \in Ends /\ ev.end # f BY <1>1, <2>1 DEF EventsHere, TypeOK
  <2> QED BY <1>6, <2>2, <2>3 DEF EventsOwned
<1> QED BY <1>8, <1>9, <1>10

LEMMA PollSlab ==
  ASSUME LoopInv, NEW l \in Loops, Poll(l)
  PROVE  SlabOK'
<1> USE DEF LoopInv, SlabOK
<1>1. UNCHANGED <<conn, tok>> /\ batch' = [batch EXCEPT ![l] = Events(l)] BY DEF Poll
<1>2. \A k \in Loops : OpenOn(k)' = OpenOn(k) BY <1>1 DEF OpenOn
<1>3. \A ev \in Events(l) : ev.end \in OpenOn(l) BY DEF Events, Ready
<1>4. \A k \in Loops : batch'[k] = IF k = l THEN Events(l) ELSE batch[k] BY <1>1 DEF TypeOK
<1>5. TokensOK' BY <1>1, <1>2 DEF TokensOK
<1>6. EventsHere' BY <1>3, <1>4 DEF EventsHere, OpenOn
<1>7. EventsOwned' BY <1>1, <1>2, <1>3, <1>4 DEF EventsOwned, TokensOK
<1> QED BY <1>5, <1>6, <1>7

LEMMA SlabKept ==
  ASSUME LoopInv, [Next]_vars
  PROVE  SlabOK'
<1> USE DEF LoopInv, SlabOK
<1>1. CASE \E l \in Loops : AddConnection(l) BY <1>1, AddSlab
<1>2. CASE \E l \in Loops : Poll(l) BY <1>2, PollSlab
<1>3. CASE \A l \in Loops : ~AddConnection(l) /\ ~Poll(l)
  <2>1. /\ tok' = tok
        /\ \A k \in Loops : OpenOn(k)' \subseteq OpenOn(k) /\ batch'[k] \subseteq batch[k]
    BY <1>3, OpenShrinks, EventsShrink
  <2> QED BY <2>1 DEF TokensOK, EventsHere, EventsOwned
<1> QED BY <1>1, <1>2, <1>3

LEMMA LoopInvStep == LoopInv /\ [Next]_vars => LoopInv'
<1> SUFFICES ASSUME LoopInv, [Next]_vars
             PROVE  LoopInv'
  OBVIOUS
<1>1. CASE UNCHANGED vars
  <2>1. UNCHANGED loopInvVars /\ UNCHANGED vars
    BY <1>1 DEF vars, loopInvVars, endVars
  <2>2. TypeOK' /\ TargetOK'
    BY <1>1, <2>1 DEF LoopInv, vars, endVars, handVars, loopVars, threadVars, histVars, TypeOK, TargetOK
  <2> QED BY <2>1, <2>2, QuietLoop, SlabKept DEF LoopInv
<1>2. ASSUME NEW l \in Loops, LoopStep(l) \/ PollFails(l)
      PROVE  LoopInv'
  BY <1>2, LoopTypes, LoopKinds, LoopLoopInv, SlabKept DEF LoopInv
<1>3. ASSUME NEW t \in Threads, ThreadStep(t) \/ Begin(t)
      PROVE  LoopInv'
  BY <1>3, ThreadTypes, ThreadLoopInv, SlabKept DEF LoopInv
<1> QED BY <1>1, <1>2, <1>3 DEF Next

LEMMA LoopInvInit == Init => LoopInv
<1> SUFFICES ASSUME Init PROVE LoopInv
  OBVIOUS
<1>1. TypeOK /\ TargetOK BY TypeInit
<1>2. HandlerOK /\ SlabOK
  BY DEF Init, HandlerOK, HandlingPcs, SlabOK, TokensOK, EventsHere, EventsOwned, OpenOn
<1>3. QueueOK BY DEF Init, QueueOK
<1>4. EmptyOK BY EndsFacts DEF Init, EmptyOK
<1> QED BY <1>1, <1>2, <1>3, <1>4 DEF LoopInv

\* An event that outlives its connection is never taken for one of the
\* connection that next gets its slab key, since keys are handed out only when
\* the events of a poll have been used up; what a loop handles is an open
\* connection of its own; and an AddConnection request always finds an end that
\* waits for it (ipccore.rs, EventLoop::poll and add_connection).
THEOREM LoopsLive == Spec => [](EventsOwned /\ HandlerOK /\ QueueOK /\ EmptyOK)
<1>1. LoopInv => EventsOwned /\ HandlerOK /\ QueueOK /\ EmptyOK
  BY DEF LoopInv, SlabOK
<1> QED BY <1>1, LoopInvInit, LoopInvStep, PTL DEF Spec

-----------------------------------------------------------------------------
(* The order of ClientHandler.in_flight.                                    *)

LEMMA Requeue ==
  ASSUME NEW M, NEW y \in Seq(M), NEW z \in Seq(M), z # <<>>
  PROVE  /\ Append(y, Head(z)) \o Tail(z) = y \o z
         /\ Append(y, Head(z)) \in Seq(M) /\ Tail(z) \in Seq(M)
<1>1. Head(z) \in M /\ Tail(z) \in Seq(M) /\ z = <<Head(z)>> \o Tail(z)
  OBVIOUS
<1>2. Append(y, Head(z)) = y \o <<Head(z)>> /\ Append(y, Head(z)) \in Seq(M) /\ <<Head(z)>> \in Seq(M)
  BY <1>1
<1>3. (y \o <<Head(z)>>) \o Tail(z) = y \o (<<Head(z)>> \o Tail(z))
  BY <1>1, <1>2, ConcatAssociative
<1> QED BY <1>1, <1>2, <1>3

LEMMA TailOfConcat ==
  ASSUME NEW M, NEW x \in Seq(M), NEW y \in Seq(M), x # <<>>
  PROVE  Tail(x \o y) = Tail(x) \o y /\ x \o y # <<>> /\ Tail(x) \in Seq(M)
<1>1. x = <<Head(x)>> \o Tail(x) /\ Head(x) \in M /\ Tail(x) \in Seq(M) /\ <<Head(x)>> \in Seq(M)
  OBVIOUS
<1>2. x \o y = <<Head(x)>> \o (Tail(x) \o y)
  <2> DEFINE h == <<Head(x)>>
             r == Tail(x)
  <2>1. h \in Seq(M) /\ r \in Seq(M) /\ x = h \o r BY <1>1
  <2> HIDE DEF h, r
  <2>2. (h \o r) \o y = h \o (r \o y) BY <2>1, ConcatAssociative
  <2>3. x \o y = h \o (r \o y) BY <2>1, <2>2, Zenon
  <2> QED BY <2>3 DEF h, r
<1>3. Tail(x) \o y \in Seq(M) BY <1>1
<1>4. Tail(<<Head(x)>> \o (Tail(x) \o y)) = Tail(x) \o y
  BY <1>1, <1>3
<1>5. x \o y # <<>> BY ConcatEqualIffEmpty
<1> QED BY <1>1, <1>2, <1>4, <1>5

LEMMA AppendToConcat ==
  ASSUME NEW M, NEW x \in Seq(M), NEW y \in Seq(M), NEW m \in M
  PROVE  Append(x \o y, m) = x \o Append(y, m)
<1> DEFINE s == <<m>>
<1>1. s \in Seq(M) /\ x \o y \in Seq(M) OBVIOUS
<1>2. Append(x \o y, m) = (x \o y) \o s /\ Append(y, m) = y \o s
  BY <1>1, AppendIsConcat
<1> HIDE DEF s
<1>3. (x \o y) \o s = x \o (y \o s)
  BY <1>1, ConcatAssociative
<1> QED BY <1>2, <1>3, Zenon

\* Closing ends preserves the order: the buffers of a connection that stays
\* open at both ends are untouched, and so are the responses a client whose
\* server has closed has yet to read.
LEMMA CloseKeepsOrder ==
  ASSUME TypeOK, InFlightOrder, NEW S, CloseEnds(S)
  PROVE  InFlightOrder'
<1> SUFFICES ASSUME NEW c \in Conns, conn'[ClientEnd(c)] # "closed"
             PROVE  /\ conn'[ServerEnd(c)] # "closed" => infl'[c] = Pipeline(c)'
                    /\ \A i \in DOMAIN chan'[ClientEnd(c)] :
                         i \in DOMAIN infl'[c] /\ chan'[ClientEnd(c)][i] = infl'[c][i]
  BY DEF InFlightOrder
<1>1. ClientEnd(c) \in Ends /\ ServerEnd(c) \in Ends BY EndsFacts
<1>2. ClientEnd(c) \notin S /\ conn[ClientEnd(c)] # "closed"
  BY <1>1 DEF CloseEnds
<1>3. infl'[c] = infl[c] /\ chan'[ClientEnd(c)] = chan[ClientEnd(c)] /\ out'[ClientEnd(c)] = out[ClientEnd(c)]
  BY <1>1, <1>2 DEF CloseEnds
<1>4. ASSUME conn'[ServerEnd(c)] # "closed" PROVE infl'[c] = Pipeline(c)'
  <2>1. ServerEnd(c) \notin S /\ conn[ServerEnd(c)] # "closed"
    BY <1>1, <1>4 DEF CloseEnds
  <2>2. /\ chan'[ServerEnd(c)] = chan[ServerEnd(c)]
        /\ out'[ServerEnd(c)] = out[ServerEnd(c)]
        /\ resp'[c] = resp[c]
    BY <1>1, <2>1 DEF CloseEnds
  <2>3. Pipeline(c)' = Pipeline(c) BY <1>3, <2>2 DEF Pipeline
  <2> QED BY <1>2, <1>3, <2>1, <2>3 DEF InFlightOrder
<1> QED BY <1>2, <1>3, <1>4 DEF InFlightOrder

\* What a step has to show of the connections it touches.
OrderOf(c) ==
  conn[ClientEnd(c)] # "closed" =>
    /\ conn[ServerEnd(c)] # "closed" => infl[c] = Pipeline(c)
    /\ \A i \in DOMAIN chan[ClientEnd(c)] :
         i \in DOMAIN infl[c] /\ chan[ClientEnd(c)][i] = infl[c][i]

\* While both ends live, the prefix follows from the equation.
LEMMA PipelinePrefix ==
  ASSUME NEW M, NEW x \in Seq(M), NEW y \in Seq(M)
  PROVE  \A i \in DOMAIN x : i \in DOMAIN (x \o y) /\ x[i] = (x \o y)[i]
OBVIOUS

\* The pipeline as one sequence after another, for the steps at its near end.
\* Concatenation is kept opaque while it is re-associated.
Frames == Seq(Msg)
Cat(q, r) == q \o r

LEMMA CatIn == \A q, r \in Frames : Cat(q, r) \in Frames
BY ConcatProperties DEF Cat, Frames

LEMMA CatAssoc == \A q, r, s \in Frames : Cat(Cat(q, r), s) = Cat(q, Cat(r, s))
BY ConcatAssociative DEF Cat, Frames

LEMMA CatFive ==
  ASSUME NEW v \in Frames, NEW w \in Frames, NEW x \in Frames, NEW y \in Frames, NEW z \in Frames
  PROVE  Cat(Cat(Cat(Cat(v, w), x), y), z) = Cat(v, Cat(Cat(Cat(w, x), y), z))
<1>1. Cat(w, x) \in Frames BY CatIn
<1>2. Cat(Cat(w, x), y) \in Frames BY <1>1, CatIn
<1>3. Cat(Cat(v, w), x) = Cat(v, Cat(w, x)) BY CatAssoc
<1>4. Cat(Cat(v, Cat(w, x)), y) = Cat(v, Cat(Cat(w, x), y)) BY <1>1, CatAssoc
<1>5. Cat(Cat(v, Cat(Cat(w, x), y)), z) = Cat(v, Cat(Cat(Cat(w, x), y), z)) BY <1>2, CatAssoc
<1> QED BY <1>3, <1>4, <1>5

LEMMA SameOrder ==
  ASSUME InFlightOrder, UNCHANGED <<chan, out, infl, resp>>,
         \A e \in Ends : conn'[e] = "closed" <=> conn[e] = "closed"
  PROVE  InFlightOrder'
BY EndsFacts DEF InFlightOrder, Pipeline

\* A step of a loop at one end of c leaves the order of other connections.
LEMMA OneOrder ==
  ASSUME InFlightOrder, NEW c \in Conns, OrderOf(c)', UNCHANGED conn,
         \A e \in Ends : e[1] # c => chan'[e] = chan[e] /\ out'[e] = out[e],
         \A d \in Conns : d # c => infl'[d] = infl[d] /\ resp'[d] = resp[d]
  PROVE  InFlightOrder'
<1> SUFFICES ASSUME NEW d \in Conns, d # c PROVE OrderOf(d)'
  BY DEF InFlightOrder, OrderOf
<1>1. ClientEnd(d) \in Ends /\ ServerEnd(d) \in Ends /\ ClientEnd(d)[1] = d /\ ServerEnd(d)[1] = d
  BY EndsFacts DEF ClientEnd, ServerEnd
<1>2. Pipeline(d)' = Pipeline(d) BY <1>1 DEF Pipeline
<1>3. OrderOf(d) BY DEF InFlightOrder, OrderOf
<1> QED BY <1>1, <1>2, <1>3 DEF OrderOf

\* What follows the responses the client has yet to receive.
Rest(c) == out[ServerEnd(c)] \o resp[c] \o chan[ServerEnd(c)] \o out[ClientEnd(c)]

LEMMA PipelineRest ==
  ASSUME TypeOK, NEW c \in Conns
  PROVE  Pipeline(c) = chan[ClientEnd(c)] \o Rest(c) /\ Rest(c) \in Seq(Msg)
<1> DEFINE v == chan[ClientEnd(c)]
           w == out[ServerEnd(c)]
           x == resp[c]
           y == chan[ServerEnd(c)]
           z == out[ClientEnd(c)]
<1>1. v \in Frames /\ w \in Frames /\ x \in Frames /\ y \in Frames /\ z \in Frames
  BY EndsFacts DEF TypeOK, Frames
<1>2. Pipeline(c) = Cat(Cat(Cat(Cat(v, w), x), y), z) /\ Rest(c) = Cat(Cat(Cat(w, x), y), z)
  BY DEF Pipeline, Rest, Cat
<1> HIDE DEF v, w, x, y, z
<1>3. Pipeline(c) = Cat(v, Rest(c)) BY <1>1, <1>2, CatFive
<1>4. Rest(c) \in Frames BY <1>1, <1>2, CatIn
<1> QED BY <1>3, <1>4 DEF v, Cat, Frames

LEMMA PipelineRestNext ==
  ASSUME TypeOK', NEW c \in Conns
  PROVE  Pipeline(c)' = chan'[ClientEnd(c)] \o Rest(c)' /\ Rest(c)' \in Seq(Msg)
<1> DEFINE v == chan'[ClientEnd(c)]
           w == out'[ServerEnd(c)]
           x == resp'[c]
           y == chan'[ServerEnd(c)]
           z == out'[ClientEnd(c)]
<1>1. v \in Frames /\ w \in Frames /\ x \in Frames /\ y \in Frames /\ z \in Frames
  BY EndsFacts DEF TypeOK, Frames
<1>2. Pipeline(c)' = Cat(Cat(Cat(Cat(v, w), x), y), z) /\ Rest(c)' = Cat(Cat(Cat(w, x), y), z)
  BY DEF Pipeline, Rest, Cat
<1> HIDE DEF v, w, x, y, z
<1>3. Pipeline(c)' = Cat(v, Rest(c)') BY <1>1, <1>2, CatFive
<1>4. Rest(c)' \in Frames BY <1>1, <1>2, CatIn
<1> QED BY <1>3, <1>4 DEF v, Cat, Frames

\* An equation that still holds gives the prefix too.
LEMMA OrderFromEquation ==
  ASSUME TypeOK', NEW c \in Conns, infl'[c] = Pipeline(c)'
  PROVE  OrderOf(c)'
<1> DEFINE x == chan'[ClientEnd(c)]
           r == Rest(c)'
<1>1. x \in Seq(Msg) BY EndsFacts DEF TypeOK
<1>2. infl'[c] = x \o r /\ r \in Seq(Msg)
  BY PipelineRestNext
<1> HIDE DEF x, r
<1>3. \A i \in DOMAIN x : i \in DOMAIN (x \o r) /\ x[i] = (x \o r)[i]
  BY <1>1, <1>2, PipelinePrefix
<1> QED BY <1>2, <1>3 DEF OrderOf, x

LEMMA RecvResponseOrder ==
  ASSUME LoopInv, TypeOK', InFlightOrder, NEW l \in Loops, RecvResponse(l)
  PROVE  InFlightOrder'
<1> USE DEF LoopInv
<1>0. PICK c \in Conns : /\ cur[l].end = ClientEnd(c) /\ ClientEnd(c)[1] = c
                         /\ conn[ClientEnd(c)] = "open" /\ Peer(ClientEnd(c)) = ServerEnd(c)
  BY HandledOwn, EndsFacts DEF RecvResponse, HandlingPcs
<1> DEFINE e == ClientEnd(c)
           Z == ServerEnd(c)
           x == chan[e]
           y == infl[c]
<1>1. e \in Ends /\ Z \in Ends /\ Z # e /\ conn[e] = "open"
  BY <1>0, EndsFacts
<1>2. /\ x # <<>> /\ y # <<>>
      /\ chan' = [chan EXCEPT ![e] = Tail(x)]
      /\ infl' = [infl EXCEPT ![c] = Tail(y)]
      /\ UNCHANGED <<conn, out, resp>>
  BY <1>0 DEF RecvResponse, TakeFrame, Mismatch
<1>3. x \in Seq(Msg) /\ y \in Seq(Msg) BY <1>1 DEF TypeOK
<1>4. /\ conn[Z] # "closed" => y = Pipeline(c)
      /\ \A i \in DOMAIN x : i \in DOMAIN y /\ x[i] = y[i]
  BY <1>1 DEF InFlightOrder
<1> HIDE DEF e, Z
<1>5. chan'[e] = Tail(x) /\ infl'[c] = Tail(y) /\ chan'[Z] = chan[Z] /\ out' = out /\ resp' = resp
  BY <1>1, <1>2 DEF TypeOK
<1>6. ASSUME conn[Z] # "closed" PROVE infl'[c] = Pipeline(c)'
  <2> DEFINE r == Rest(c)
  <2>1. Pipeline(c) = x \o r /\ r \in Seq(Msg) BY <1>1, PipelineRest DEF e
  <2>2. Pipeline(c)' = Tail(x) \o r
    <3>1. Rest(c)' = Rest(c) BY <1>1, <1>5 DEF Rest, Z, e
    <3> QED BY <1>1, <1>5, <3>1, PipelineRestNext DEF e
  <2> HIDE DEF r, x
  <2>3. Tail(x \o r) = Tail(x) \o r BY <1>2, <1>3, <2>1, TailOfConcat
  <2> QED BY <1>4, <1>5, <1>6, <2>1, <2>2, <2>3, Zenon
<1>7. \A i \in DOMAIN chan'[e] : i \in DOMAIN infl'[c] /\ chan'[e][i] = infl'[c][i]
  <2>1. Len(x) <= Len(y)
    <3>1. Len(x) \in DOMAIN x BY <1>2, <1>3
    <3> QED BY <1>3, <1>4, <3>1
  <2>2. \A i \in DOMAIN Tail(x) : i \in DOMAIN Tail(y) /\ Tail(x)[i] = Tail(y)[i]
    <3> HIDE DEF x, y
    <3>1. Len(Tail(x)) = Len(x) - 1 /\ Len(Tail(y)) = Len(y) - 1
      BY <1>2, <1>3
    <3>2. \A i \in 1 .. Len(x) - 1 : Tail(x)[i] = x[i + 1] /\ i + 1 \in DOMAIN x
      BY <1>2, <1>3
    <3>3. \A i \in 1 .. Len(y) - 1 : Tail(y)[i] = y[i + 1]
      BY <1>2, <1>3
    <3>4. \A i \in 1 .. Len(x) - 1 : i \in 1 .. Len(y) - 1
      BY <1>3, <2>1
    <3>5. DOMAIN Tail(x) = 1 .. Len(x) - 1 /\ DOMAIN Tail(y) = 1 .. Len(y) - 1
      BY <1>2, <1>3, <3>1
    <3> QED BY <1>4, <3>2, <3>3, <3>4, <3>5
  <2> QED BY <1>5, <2>2
<1>8. OrderOf(c)' BY <1>1, <1>2, <1>6, <1>7 DEF OrderOf, Z, e
<1>9. \A f \in Ends : f[1] # c => chan'[f] = chan[f] /\ out'[f] = out[f]
  BY <1>0, <1>1, <1>2 DEF TypeOK, e
<1>10. \A d \in Conns : d # c => infl'[d] = infl[d] /\ resp'[d] = resp[d]
  BY <1>1, <1>2 DEF TypeOK
<1> QED BY <1>1, <1>2, <1>8, <1>9, <1>10, OneOrder

\* Passing a frame on from one stage of the pipeline to the one before it
\* changes nothing, and a frame that enters at the far end is its last.
LEMMA CatMoves ==
  /\ \A q, r, s \in Frames : s # <<>> => Cat(Cat(q, Append(r, Head(s))), Tail(s)) = Cat(Cat(q, r), s)
  /\ \A r, s \in Frames : s # <<>> => Cat(Append(r, Head(s)), Tail(s)) = Cat(r, s)
  /\ \A q, r \in Frames, m \in Msg : Cat(q, Append(r, m)) = Append(Cat(q, r), m)
<1>1. \A r, s \in Frames : s # <<>> => /\ Cat(Append(r, Head(s)), Tail(s)) = Cat(r, s)
                                       /\ Append(r, Head(s)) \in Frames /\ Tail(s) \in Frames
  BY Requeue DEF Cat, Frames
<1>2. ASSUME NEW q \in Frames, NEW r \in Frames, NEW s \in Frames, s # <<>>
      PROVE  Cat(Cat(q, Append(r, Head(s))), Tail(s)) = Cat(Cat(q, r), s)
  <2> DEFINE a == Append(r, Head(s))
             b == Tail(s)
  <2>1. Cat(a, b) = Cat(r, s) /\ a \in Frames /\ b \in Frames BY <1>1, <1>2
  <2> HIDE DEF a, b
  <2>2. Cat(Cat(q, a), b) = Cat(Cat(q, r), s) BY <2>1, CatAssoc
  <2> QED BY <2>2 DEF a, b
<1>3. \A q, r \in Frames, m \in Msg : Cat(q, Append(r, m)) = Append(Cat(q, r), m)
  BY AppendToConcat DEF Cat, Frames
<1> QED BY <1>1, <1>2, <1>3

Pipe(v, w, x, y, z) == Cat(Cat(Cat(Cat(v, w), x), y), z)

LEMMA PipeMoves ==
  \A v, w, x, y, z \in Frames :
    /\ w # <<>> => Pipe(Append(v, Head(w)), Tail(w), x, y, z) = Pipe(v, w, x, y, z)
    /\ x # <<>> => Pipe(v, Append(w, Head(x)), Tail(x), y, z) = Pipe(v, w, x, y, z)
    /\ y # <<>> => Pipe(v, w, Append(x, Head(y)), Tail(y), z) = Pipe(v, w, x, y, z)
    /\ z # <<>> => Pipe(v, w, x, Append(y, Head(z)), Tail(z)) = Pipe(v, w, x, y, z)
<1> TAKE v, w, x, y, z \in Frames
<1>1. Cat(v, w) \in Frames BY CatIn
<1>2. Cat(Cat(v, w), x) \in Frames BY <1>1, CatIn
<1>4. w # <<>> => Cat(Append(v, Head(w)), Tail(w)) = Cat(v, w)
  BY CatMoves
<1>5. x # <<>> => Cat(Cat(v, Append(w, Head(x))), Tail(x)) = Cat(Cat(v, w), x)
  BY CatMoves
<1>6. y # <<>> => Cat(Cat(Cat(v, w), Append(x, Head(y))), Tail(y)) = Cat(Cat(Cat(v, w), x), y)
  BY <1>1, CatMoves
<1>7. z # <<>> => Cat(Cat(Cat(Cat(v, w), x), Append(y, Head(z))), Tail(z)) = Cat(Cat(Cat(Cat(v, w), x), y), z)
  BY <1>2, CatMoves
<1> QED BY <1>4, <1>5, <1>6, <1>7 DEF Pipe

LEMMA PipeAppend ==
  \A m \in Msg : \A v, w, x, y, z \in Frames :
    Pipe(v, w, x, y, PushBack(z, m)) = PushBack(Pipe(v, w, x, y, z), m)
<1> TAKE m \in Msg
<1> TAKE v, w, x, y, z \in Frames
<1>1. Cat(v, w) \in Frames BY CatIn
<1>2. Cat(Cat(v, w), x) \in Frames BY <1>1, CatIn
<1>3. Cat(Cat(Cat(v, w), x), y) \in Frames BY <1>2, CatIn
<1> QED BY <1>3, CatMoves DEF Pipe, PushBack

LEMMA PipelineIs ==
  ASSUME NEW c \in Conns
  PROVE  /\ Pipeline(c) = Pipe(chan[ClientEnd(c)], out[ServerEnd(c)], resp[c],
                               chan[ServerEnd(c)], out[ClientEnd(c)])
         /\ Pipeline(c)' = Pipe(chan'[ClientEnd(c)], out'[ServerEnd(c)], resp'[c],
                                chan'[ServerEnd(c)], out'[ClientEnd(c)])
BY DEF Pipeline, Pipe, Cat

\* A step at one end of c that leaves the pipeline and in_flight as they are.
LEMMA SamePipeline ==
  ASSUME TypeOK', InFlightOrder, NEW c \in Conns, UNCHANGED <<conn, infl>>,
         conn[ServerEnd(c)] # "closed", Pipeline(c)' = Pipeline(c),
         \A e \in Ends : e[1] # c => chan'[e] = chan[e] /\ out'[e] = out[e],
         \A d \in Conns : d # c => resp'[d] = resp[d]
  PROVE  InFlightOrder'
<1>1. CASE conn[ClientEnd(c)] = "closed"
  BY <1>1, OneOrder DEF OrderOf
<1>2. CASE conn[ClientEnd(c)] # "closed"
  <2>1. infl'[c] = Pipeline(c)' BY <1>2 DEF InFlightOrder
  <2> QED BY <2>1, OrderFromEquation, OneOrder
<1> QED BY <1>1, <1>2

LEMMA RecvRequestOrder ==
  ASSUME LoopInv, TypeOK', InFlightOrder, NEW l \in Loops, RecvRequest(l)
  PROVE  InFlightOrder'
<1> USE DEF LoopInv
<1>1. PICK c \in Conns : /\ cur[l].end = ServerEnd(c) /\ ServerEnd(c)[1] = c
                         /\ conn[ServerEnd(c)] = "open"
  BY HandledOwn, EndsFacts DEF RecvRequest, HandlingPcs
<1> DEFINE C == ClientEnd(c)
           Z == ServerEnd(c)
<1>2. C \in Ends /\ Z \in Ends /\ C # Z /\ C[1] = c /\ Z[1] = c
  BY EndsFacts DEF ClientEnd, ServerEnd
<1>3. /\ chan[Z] # <<>>
      /\ chan' = [chan EXCEPT ![Z] = Tail(chan[Z])]
      /\ resp' = [resp EXCEPT ![c] = Append(resp[c], Head(chan[Z]))]
      /\ UNCHANGED <<conn, out, infl>>
  BY <1>1 DEF RecvRequest, TakeFrame
<1>4. /\ chan[C] \in Frames /\ out[Z] \in Frames /\ resp[c] \in Frames
      /\ chan[Z] \in Frames /\ out[C] \in Frames
  BY <1>2 DEF TypeOK, Frames
<1>5. /\ chan'[C] = chan[C] /\ chan'[Z] = Tail(chan[Z])
      /\ resp'[c] = Append(resp[c], Head(chan[Z])) /\ out' = out
      /\ \A e \in Ends : e[1] # c => chan'[e] = chan[e] /\ out'[e] = out[e]
      /\ \A d \in Conns : d # c => resp'[d] = resp[d]
  BY <1>2, <1>3 DEF TypeOK
<1> HIDE DEF C, Z
<1>6. Pipeline(c)' = Pipeline(c)
  <2> DEFINE v == chan[C]
             w == out[Z]
             x == resp[c]
             y == chan[Z]
             z == out[C]
  <2>1. v \in Frames /\ w \in Frames /\ x \in Frames /\ y \in Frames /\ z \in Frames
    BY <1>4
  <2>2. Pipeline(c) = Pipe(v, w, x, y, z) BY PipelineIs DEF C, Z
  <2>3. Pipeline(c)' = Pipe(v, w, Append(x, Head(y)), Tail(y), z)
    BY <1>5, PipelineIs DEF C, Z
  <2>4. y # <<>> BY <1>3
  <2> HIDE DEF v, w, x, y, z
  <2> QED BY <2>1, <2>2, <2>3, <2>4, PipeMoves
<1> QED BY <1>1, <1>3, <1>5, <1>6, SamePipeline

LEMMA FlushResponseOrder ==
  ASSUME LoopInv, TypeOK', InFlightOrder, NEW l \in Loops, FlushResponse(l)
  PROVE  InFlightOrder'
<1> USE DEF LoopInv
<1>1. PICK c \in Conns : /\ cur[l].end = ServerEnd(c) /\ ServerEnd(c)[1] = c
                         /\ conn[ServerEnd(c)] = "open"
  BY HandledOwn, EndsFacts DEF FlushResponse, HandlingPcs
<1> DEFINE C == ClientEnd(c)
           Z == ServerEnd(c)
<1>2. C \in Ends /\ Z \in Ends /\ C # Z /\ C[1] = c /\ Z[1] = c
  BY EndsFacts DEF ClientEnd, ServerEnd
<1>3. /\ resp[c] # <<>>
      /\ resp' = [resp EXCEPT ![c] = Tail(resp[c])]
      /\ out' = [out EXCEPT ![Z] = Append(out[Z], Head(resp[c]))]
      /\ UNCHANGED <<conn, chan, infl>>
  BY <1>1 DEF FlushResponse
<1>4. /\ chan[C] \in Frames /\ out[Z] \in Frames /\ resp[c] \in Frames
      /\ chan[Z] \in Frames /\ out[C] \in Frames
  BY <1>2 DEF TypeOK, Frames
<1>5. /\ out'[C] = out[C] /\ out'[Z] = Append(out[Z], Head(resp[c]))
      /\ resp'[c] = Tail(resp[c]) /\ chan' = chan
      /\ \A e \in Ends : e[1] # c => chan'[e] = chan[e] /\ out'[e] = out[e]
      /\ \A d \in Conns : d # c => resp'[d] = resp[d]
  BY <1>2, <1>3 DEF TypeOK
<1> HIDE DEF C, Z
<1>6. Pipeline(c)' = Pipeline(c)
  <2> DEFINE v == chan[C]
             w == out[Z]
             x == resp[c]
             y == chan[Z]
             z == out[C]
  <2>1. v \in Frames /\ w \in Frames /\ x \in Frames /\ y \in Frames /\ z \in Frames
    BY <1>4
  <2>2. Pipeline(c) = Pipe(v, w, x, y, z) BY PipelineIs DEF C, Z
  <2>3. Pipeline(c)' = Pipe(v, Append(w, Head(x)), Tail(x), y, z)
    BY <1>5, PipelineIs DEF C, Z
  <2>4. x # <<>> BY <1>3
  <2> HIDE DEF v, w, x, y, z
  <2> QED BY <2>1, <2>2, <2>3, <2>4, PipeMoves
<1> QED BY <1>1, <1>3, <1>5, <1>6, SamePipeline

LEMMA SendOrder ==
  ASSUME LoopInv, TypeOK', InFlightOrder, NEW l \in Loops, SendFrame(l)
  PROVE  InFlightOrder'
<1> USE DEF LoopInv
<1> DEFINE e == cur[l].end
<1>1. PICK c \in Conns : \/ e = ServerEnd(c) /\ Peer(e) = ClientEnd(c)
                         \/ e = ClientEnd(c) /\ Peer(e) = ServerEnd(c)
  BY HandledOwn, EndsFacts DEF SendFrame, HandlingPcs
<1>2. /\ conn[e] = "open" /\ conn[Peer(e)] # "closed" /\ out[e] # <<>>
      /\ out' = [out EXCEPT ![e] = Tail(out[e])]
      /\ chan' = [chan EXCEPT ![Peer(e)] = Append(chan[Peer(e)], Head(out[e]))]
      /\ UNCHANGED <<conn, infl, resp>>
  BY HandledOwn DEF SendFrame, handVars, HandlingPcs
<1> DEFINE C == ClientEnd(c)
           Z == ServerEnd(c)
<1>3. C \in Ends /\ Z \in Ends /\ C # Z /\ C[1] = c /\ Z[1] = c
  BY EndsFacts DEF ClientEnd, ServerEnd
<1>4. /\ chan[C] \in Frames /\ out[Z] \in Frames /\ resp[c] \in Frames
      /\ chan[Z] \in Frames /\ out[C] \in Frames
  BY <1>3 DEF TypeOK, Frames
<1>5. \A f \in Ends : f[1] # c => chan'[f] = chan[f] /\ out'[f] = out[f]
  BY <1>1, <1>2, <1>3 DEF TypeOK
<1> HIDE DEF e, C, Z
<1>6. Pipeline(c)' = Pipeline(c)
  <2> DEFINE v == chan[C]
             w == out[Z]
             x == resp[c]
             y == chan[Z]
             z == out[C]
  <2>0. /\ v \in Frames /\ w \in Frames /\ x \in Frames /\ y \in Frames /\ z \in Frames
        /\ Pipeline(c) = Pipe(v, w, x, y, z)
    BY <1>4, PipelineIs DEF C, Z
  <2>1. CASE e = Z /\ Peer(e) = C
    <3>1. /\ out'[C] = out[C] /\ out'[Z] = Tail(out[Z])
          /\ chan'[Z] = chan[Z] /\ chan'[C] = Append(chan[C], Head(out[Z]))
      BY <1>2, <1>3, <2>1 DEF TypeOK
    <3>2. Pipeline(c)' = Pipe(Append(v, Head(w)), Tail(w), x, y, z)
      BY <1>2, <3>1, PipelineIs DEF C, Z
    <3>3. w # <<>> BY <1>2, <2>1
    <3> HIDE DEF v, w, x, y, z
    <3> QED BY <2>0, <3>2, <3>3, PipeMoves
  <2>2. CASE e = C /\ Peer(e) = Z
    <3>1. /\ out'[Z] = out[Z] /\ out'[C] = Tail(out[C])
          /\ chan'[C] = chan[C] /\ chan'[Z] = Append(chan[Z], Head(out[C]))
      BY <1>2, <1>3, <2>2 DEF TypeOK
    <3>2. Pipeline(c)' = Pipe(v, w, x, Append(y, Head(z)), Tail(z))
      BY <1>2, <3>1, PipelineIs DEF C, Z
    <3>3. z # <<>> BY <1>2, <2>2
    <3> HIDE DEF v, w, x, y, z
    <3> QED BY <2>0, <3>2, <3>3, PipeMoves
  <2> QED BY <1>1, <2>1, <2>2 DEF C, Z
<1> QED BY <1>1, <1>2, <1>5, <1>6, SamePipeline DEF C, Z

LEMMA FlushRequestOrder ==
  ASSUME LoopInv, TypeOK', InFlightOrder, NEW l \in Loops, FlushRequest(l)
  PROVE  InFlightOrder'
<1> USE DEF LoopInv
<1>1. PICK c \in Conns : cur[l].end = ClientEnd(c) /\ ClientEnd(c)[1] = c /\ conn[ClientEnd(c)] = "open"
  BY HandledOwn, EndsFacts DEF FlushRequest, HandlingPcs
<1> DEFINE C == ClientEnd(c)
           Z == ServerEnd(c)
           m == Head(reqs[c])
<1>2. C \in Ends /\ Z \in Ends /\ C # Z /\ C[1] = c /\ Z[1] = c
  BY EndsFacts DEF ClientEnd, ServerEnd
<1>3. /\ reqs[c] # <<>>
      /\ infl' = [infl EXCEPT ![c] = Append(infl[c], m)]
      /\ out' = [out EXCEPT ![C] = Append(out[C], m)]
      /\ UNCHANGED <<conn, chan, resp>>
  BY <1>1 DEF FlushRequest, PushBack
<1>4. /\ chan[C] \in Frames /\ out[Z] \in Frames /\ resp[c] \in Frames
      /\ chan[Z] \in Frames /\ out[C] \in Frames /\ m \in Msg /\ infl[c] \in Frames
  BY <1>2, <1>3 DEF TypeOK, Frames
<1>5. /\ out'[C] = Append(out[C], m) /\ out'[Z] = out[Z]
      /\ infl'[c] = Append(infl[c], m)
      /\ \A e \in Ends : e[1] # c => chan'[e] = chan[e] /\ out'[e] = out[e]
      /\ \A d \in Conns : d # c => infl'[d] = infl[d] /\ resp'[d] = resp[d]
  BY <1>2, <1>3 DEF TypeOK
<1>6. /\ conn[Z] # "closed" => infl[c] = Pipeline(c)
      /\ \A i \in DOMAIN chan[C] : i \in DOMAIN infl[c] /\ chan[C][i] = infl[c][i]
  BY <1>1 DEF InFlightOrder
<1> HIDE DEF C, Z, m
<1>7. Pipeline(c)' = Append(Pipeline(c), m)
  <2> DEFINE v == chan[C]
             w == out[Z]
             x == resp[c]
             y == chan[Z]
             z == out[C]
  <2>1. v \in Frames /\ w \in Frames /\ x \in Frames /\ y \in Frames /\ z \in Frames
    BY <1>4
  <2>2. Pipeline(c) = Pipe(v, w, x, y, z) BY PipelineIs DEF C, Z
  <2>3. Pipeline(c)' = Pipe(v, w, x, y, Append(z, m))
    BY <1>3, <1>5, PipelineIs DEF C, Z
  <2> HIDE DEF v, w, x, y, z
  <2>4. Pipe(v, w, x, y, PushBack(z, m)) = PushBack(Pipe(v, w, x, y, z), m)
    BY <1>4, <2>1, PipeAppend
  <2> QED BY <2>2, <2>3, <2>4 DEF PushBack
<1>8. conn[Z] # "closed" => infl'[c] = Pipeline(c)'
  BY <1>5, <1>6, <1>7
<1>9. \A i \in DOMAIN chan[C] : i \in DOMAIN infl'[c] /\ chan[C][i] = infl'[c][i]
  <2> DEFINE q == infl[c]
  <2>1. q \in Seq(Msg) /\ infl'[c] = Append(q, m) BY <1>4, <1>5 DEF Frames
  <2> HIDE DEF q
  <2>2. \A i \in DOMAIN q : i \in DOMAIN Append(q, m) /\ Append(q, m)[i] = q[i]
    BY <2>1
  <2> QED BY <1>6, <2>1, <2>2 DEF q
<1>10. OrderOf(c)' BY <1>3, <1>8, <1>9 DEF OrderOf, C, Z
<1> QED BY <1>3, <1>5, <1>10, OneOrder

LEMMA OrderStep ==
  ASSUME LoopInv, TypeOK', InFlightOrder, [Next]_vars
  PROVE  InFlightOrder'
<1> USE DEF LoopInv
<1>1. CASE UNCHANGED vars
  BY <1>1, SameOrder DEF vars, endVars, handVars
<1>2. ASSUME NEW t \in Threads, ThreadStep(t)
      PROVE  InFlightOrder'
  <2>1. UNCHANGED <<conn, chan, out, infl, resp>>
    BY <1>2 DEF ThreadStep, Kick, Wake, WakeDropped, BindReturn, CallReturn, DropRelease, Join,
       endVars, handVars
  <2> QED BY <2>1, SameOrder
<1>3. ASSUME NEW t \in Threads, Begin(t)
      PROVE  InFlightOrder'
  <2>1. ASSUME NEW e \in Ends, BindFails(t, e) PROVE InFlightOrder'
    BY <2>1, CloseKeepsOrder DEF BindFails
  <2>2. ASSUME NEW e \in Ends, NEW sync \in BOOLEAN, Bind(t, e, sync) PROVE InFlightOrder'
    BY <2>2, SameOrder DEF Bind, handVars, TypeOK
  <2>3. ASSUME NEW l \in Stoppable, Stop(t, l) PROVE InFlightOrder'
    BY <2>3, SameOrder DEF Stop, endVars, handVars
  <2>4. ASSUME NEW c \in Conns, \/ Call(t, c) \/ CallFails(t, c) \/ DropRead(t, c)
                                \/ \E u \in Threads : Clone(t, u, c)
        PROVE  InFlightOrder'
    BY <2>4, SameOrder DEF Call, CallFails, DropRead, Clone, endVars, handVars
  <2> QED BY <1>3, <2>1, <2>2, <2>3, <2>4 DEF Begin
<1>4. ASSUME NEW l \in Loops, LoopStep(l) \/ PollFails(l)
      PROVE  InFlightOrder'
  <2>1. LoopKind(l) BY <1>4, LoopKinds
  <2>2. CASE \/ Poll(l) \/ HandleEvent(l) \/ SpuriousEvent(l) \/ EventsDone(l) \/ RecvDone(l) \/ FlushDone(l)
             \/ SendBlocks(l) \/ SetWritable(l) \/ SendDone(l) \/ WakeConnection(l)
             \/ SpuriousWake(l) \/ RequestsDone(l)
    BY <2>2, SameOrder DEF Poll, HandleEvent, SpuriousEvent, EventsDone, RecvDone, FlushDone, SendBlocks,
       SetWritable, SendDone, WakeConnection, SpuriousWake, RequestsDone, endVars, handVars
  <2>3. CASE RecvResponse(l) BY <2>3, RecvResponseOrder
  <2>4. CASE RecvRequest(l) BY <2>4, RecvRequestOrder
  <2>5. CASE FlushRequest(l) BY <2>5, FlushRequestOrder
  <2>6. CASE FlushResponse(l) BY <2>6, FlushResponseOrder
  <2>7. CASE SendFrame(l) BY <2>7, SendOrder
  <2>8. CASE lpc[l] \in HandlingPcs /\ RemoveConnection(l)
    BY <2>8, CloseKeepsOrder DEF RemoveConnection
  <2>9. CASE AddConnection(l)
    <3>1. conn[Head(lq[l]).end] = "queued"
      <4>1. Head(lq[l]) = lq[l][1] /\ 1 \in DOMAIN lq[l]
        BY <2>9 DEF AddConnection, PopRequest, TypeOK
      <4> QED BY <2>9, <4>1 DEF AddConnection, PopRequest, QueueOK
    <3> QED BY <2>9, <3>1, SameOrder DEF AddConnection, handVars, TypeOK
  <2>10. CASE AddConnectionFails(l)
    BY <2>10, CloseKeepsOrder DEF AddConnectionFails
  <2>11. CASE lpc[l] \in {"poll", "requests"} /\ ExitLoop(l)
    BY <2>11, CloseKeepsOrder DEF ExitLoop
  <2> QED BY <2>1, <2>2, <2>3, <2>4, <2>5, <2>6, <2>7, <2>8, <2>9, <2>10, <2>11 DEF LoopKind
<1> QED BY <1>1, <1>2, <1>3, <1>4 DEF Next

LEMMA OrderInit == Init => InFlightOrder
<1> SUFFICES ASSUME Init, NEW c \in Conns PROVE infl[c] = Pipeline(c) /\ DOMAIN chan[ClientEnd(c)] = {}
  BY DEF InFlightOrder
<1>1. Pipeline(c) = <<>> \o <<>> \o <<>> \o <<>> \o <<>> BY EndsFacts DEF Init, Pipeline
<1>2. <<>> \o <<>> = <<>> BY ConcatEmptySeq
<1> QED BY <1>1, <1>2, EndsFacts DEF Init

\* Responses arrive in the order of ClientHandler.in_flight: whatever the two
\* loops, the sockets and the callers do, in_flight is exactly what is on its
\* way between the two handlers, in order, so popping its front pairs a response
\* with its own request.
THEOREM ResponsesInOrder == Spec => []InFlightOrder
<1>1. LoopInv /\ InFlightOrder /\ [Next]_vars => LoopInv' /\ InFlightOrder'
  <2>1. LoopInv /\ [Next]_vars => LoopInv' BY LoopInvStep
  <2>2. LoopInv' => TypeOK' BY DEF LoopInv
  <2> QED BY <2>1, <2>2, OrderStep
<1>2. Init => LoopInv /\ InFlightOrder BY LoopInvInit, OrderInit
<1> QED BY <1>1, <1>2, PTL DEF Spec

-----------------------------------------------------------------------------
(* Sequences without duplicates.                                            *)

Distinct(q) == \A i, j \in DOMAIN q : q[i] = q[j] => i = j

LEMMA RangeOfAppend ==
  ASSUME NEW M, NEW q \in Seq(M), NEW m \in M
  PROVE  /\ Range(Append(q, m)) = Range(q) \cup {m}
         /\ Distinct(q) /\ m \notin Range(q) => Distinct(Append(q, m))
<1> DEFINE r == Append(q, m)
<1>1. /\ \A i \in DOMAIN q : i \in DOMAIN r /\ r[i] = q[i]
      /\ Len(q) + 1 \in DOMAIN r /\ r[Len(q) + 1] = m
      /\ \A i \in DOMAIN r : i \in DOMAIN q \/ i = Len(q) + 1
  OBVIOUS
<1> HIDE DEF r
<1>2. Range(r) = Range(q) \cup {m} BY <1>1 DEF Range
<1>3. Distinct(q) /\ m \notin Range(q) => Distinct(r) BY <1>1 DEF Range, Distinct
<1> QED BY <1>2, <1>3 DEF r

LEMMA RangeOfTail ==
  ASSUME NEW M, NEW q \in Seq(M), q # <<>>
  PROVE  /\ Head(q) \in Range(q) /\ Range(Tail(q)) \subseteq Range(q)
         /\ Range(q) = Range(Tail(q)) \cup {Head(q)}
         /\ Distinct(q) => Distinct(Tail(q)) /\ Head(q) \notin Range(Tail(q))
<1> DEFINE r == Tail(q)
<1>1. /\ Head(q) = q[1] /\ 1 \in DOMAIN q
      /\ \A i \in DOMAIN r : i \in Nat /\ i + 1 \in DOMAIN q /\ r[i] = q[i + 1] /\ i + 1 # 1
      /\ \A i \in DOMAIN q : i # 1 => i - 1 \in DOMAIN r /\ r[i - 1] = q[i]
  OBVIOUS
<1> HIDE DEF r
<1>2. Head(q) \in Range(q) BY <1>1 DEF Range
<1>3. Range(r) \subseteq Range(q) BY <1>1 DEF Range
<1>4. Range(q) \subseteq Range(r) \cup {Head(q)} BY <1>1 DEF Range
<1>5. ASSUME Distinct(q) PROVE Distinct(r)
  <2> SUFFICES ASSUME NEW i \in DOMAIN r, NEW j \in DOMAIN r, r[i] = r[j] PROVE i = j
    BY DEF Distinct
  <2>1. i + 1 = j + 1 BY <1>1, <1>5 DEF Distinct
  <2> QED BY <1>1, <2>1
<1>6. ASSUME Distinct(q) PROVE Head(q) \notin Range(r)
  BY <1>1, <1>6 DEF Range, Distinct
<1> QED BY <1>2, <1>3, <1>4, <1>5, <1>6 DEF r

LEMMA DistinctConcat ==
  ASSUME NEW M, NEW q \in Seq(M), NEW r \in Seq(M)
  PROVE  /\ Range(q \o r) = Range(q) \cup Range(r)
         /\ Distinct(q) /\ Distinct(r) /\ Range(q) \cap Range(r) = {} => Distinct(q \o r)
<1> DEFINE s == q \o r
           n == Len(q)
<1>1. /\ \A i \in DOMAIN q : i \in DOMAIN s /\ s[i] = q[i]
      /\ \A i \in DOMAIN r : i + n \in DOMAIN s /\ s[i + n] = r[i]
      /\ \A i \in DOMAIN s : i \in DOMAIN q \/ (i - n \in DOMAIN r /\ s[i] = r[i - n])
      /\ \A i \in DOMAIN s : i \in Nat
      /\ n \in Nat
  OBVIOUS
<1> HIDE DEF s, n
<1>2. Range(s) \subseteq Range(q) \cup Range(r) BY <1>1 DEF Range
<1>3. Range(q) \cup Range(r) \subseteq Range(s) BY <1>1 DEF Range
<1>4. ASSUME Distinct(q), Distinct(r), Range(q) \cap Range(r) = {}
      PROVE  Distinct(s)
  <2> SUFFICES ASSUME NEW i \in DOMAIN s, NEW j \in DOMAIN s, s[i] = s[j] PROVE i = j
    BY DEF Distinct
  <2>1. CASE i \in DOMAIN q /\ j \in DOMAIN q BY <1>1, <1>4, <2>1 DEF Distinct
  <2>2. CASE i \notin DOMAIN q /\ j \notin DOMAIN q
    <3>1. i - n = j - n BY <1>1, <1>4, <2>2 DEF Distinct
    <3> QED BY <1>1, <3>1
  <2>3. CASE i \in DOMAIN q /\ j \notin DOMAIN q
    <3>1. s[i] \in Range(q) /\ s[j] \in Range(r) BY <1>1, <2>3 DEF Range
    <3> QED BY <1>4, <3>1
  <2>4. CASE i \notin DOMAIN q /\ j \in DOMAIN q
    <3>1. s[j] \in Range(q) /\ s[i] \in Range(r) BY <1>1, <2>4 DEF Range
    <3> QED BY <1>4, <3>1
  <2> QED BY <2>1, <2>2, <2>3, <2>4
<1> QED BY <1>2, <1>3, <1>4 DEF s

=============================================================================
