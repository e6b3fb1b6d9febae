----------------------------- MODULE RpcWakeups -----------------------------
(***************************************************************************)
(* Nothing that reaches an event loop is forgotten: NothingForgotten of    *)
(* RpcCore, proved for all sets of connections, loops and threads and all  *)
(* capacities.  A wake, a queued request, data to read and room to write   *)
(* each leave a trace - a signalled waker, an armed edge, a fetched event, *)
(* a queued wake, a thread about to send one - until they are handled.     *)
(***************************************************************************)
EXTENDS RpcCoreProofs

BindPcs == {"bindKick", "bindWait"}

\* A loop that has exited took its queue and its connections with it.
ExitedOK == \A l \in Loops : lpc[l] = "exited" => lq[l] = <<>> /\ OpenOn(l) = {}

\* Until its end is registered, or its registration has failed, the only Proxy
\* of a connection is that of the thread inside bind_client, so nothing can be
\* asked of it.
FreshOK ==
  \A c \in Conns :
    /\ conn[ClientEnd(c)] \in {"unbound", "queued"} => reqs[c] = <<>>
    /\ conn[ClientEnd(c)] = "unbound" => proxies[c] = {}
    /\ conn[ClientEnd(c)] = "queued" =>
         \E t \in Threads : proxies[c] = {t} /\ pc[t] \in BindPcs /\ tgt[t] = ClientEnd(c)

\* A binder that an AddConnection request is to answer is waiting for it.
BinderOK ==
  \A l \in Loops : \A r \in Range(lq[l]) :
    r.op = "add" /\ r.to # None => pc[r.to] \in BindPcs /\ tgt[r.to] = r.end

\* A reply is for a binder, and means that its end has left the queue.
ReplyOK ==
  \A t \in Threads :
    /\ pc[t] \notin BindPcs => reply[t] = "none"
    /\ reply[t] = "err" => conn[tgt[t]] = "closed"
    /\ reply[t] = "ok" => conn[tgt[t]] \in {"open", "closed"}

BindOK == FreshOK /\ BinderOK /\ ReplyOK

\* What Proxy::drop drops is a Proxy.
DropOK == \A t \in Threads : pc[t] = "dropRelease" => tgt[t][2] = "client"

-----------------------------------------------------------------------------
(* What a step leaves alone.                                                *)

LEMMA OtherLoops ==
  ASSUME TypeOK, NEW l \in Loops, LoopKind(l), NEW k \in Loops, k # l
  PROVE  /\ lpc'[k] = lpc[k] /\ cur'[k] = cur[k] /\ batch'[k] = batch[k] /\ lq'[k] = lq[k]
         /\ lpc[l] # "exited"
<1>1. CASE Poll(l) \/ HandleEvent(l) \/ SpuriousEvent(l) \/ EventsDone(l)
  BY <1>1 DEF Poll, HandleEvent, SpuriousEvent, EventsDone, TypeOK
<1>2. CASE RecvResponse(l) \/ RecvRequest(l) \/ RecvDone(l)
  BY <1>2 DEF RecvResponse, RecvRequest, RecvDone, loopVars, TypeOK
<1>3. CASE FlushRequest(l) \/ FlushResponse(l) \/ FlushDone(l)
  BY <1>3 DEF FlushRequest, FlushResponse, FlushDone, loopVars, TypeOK
<1>4. CASE SendFrame(l) \/ SendBlocks(l) \/ SetWritable(l) \/ SendDone(l)
  BY <1>4 DEF SendFrame, SendBlocks, SetWritable, SendDone, FinishHandling, loopVars, TypeOK
<1>5. CASE lpc[l] \in HandlingPcs /\ RemoveConnection(l)
  BY <1>5 DEF RemoveConnection, FinishHandling, HandlingPcs, TypeOK
<1>6. CASE AddConnection(l) \/ AddConnectionFails(l) \/ SpuriousWake(l)
  BY <1>6 DEF AddConnection, AddConnectionFails, SpuriousWake, PopRequest, loopVars, TypeOK
<1>7. CASE WakeConnection(l) \/ RequestsDone(l)
  BY <1>7 DEF WakeConnection, RequestsDone, PopRequest, TypeOK
<1>8. CASE lpc[l] \in {"poll", "requests"} /\ ExitLoop(l)
  BY <1>8 DEF ExitLoop, TypeOK
<1> QED BY <1>1, <1>2, <1>3, <1>4, <1>5, <1>6, <1>7, <1>8 DEF LoopKind

\* What threads do to the queues of loops.
LEMMA ThreadQueues ==
  ASSUME LoopInv, NEW t \in Threads, ThreadStep(t) \/ Begin(t)
  PROVE  /\ UNCHANGED loopVars
         /\ lq' = lq \/ \E l \in Loops, r \in Requests : CanPush(l) /\ PushTo(l, r)
<1>1. CASE Kick(t) \/ WakeDropped(t) \/ BindReturn(t) \/ CallReturn(t) \/ DropRelease(t) \/ Join(t)
  BY <1>1 DEF Kick, WakeDropped, BindReturn, CallReturn, DropRelease, Join
<1>2. CASE Wake(t)
  <2>1. WakeReq(tok[tgt[t]]) \in Requests /\ LoopOf[tgt[t]] \in Loops
    BY <1>2, RequestTypes, ConstantsAssumption DEF Wake, LoopInv, TypeOK, TargetOK, EndPcs
  <2> QED BY <1>2, <2>1 DEF Wake
<1>3. ASSUME NEW e \in Ends, NEW sync \in BOOLEAN, Bind(t, e, sync)
      PROVE  /\ UNCHANGED loopVars
             /\ \E l \in Loops, r \in Requests : CanPush(l) /\ PushTo(l, r)
  BY <1>3, RequestTypes, ConstantsAssumption DEF Bind
<1>4. ASSUME NEW e \in Ends, BindFails(t, e) PROVE UNCHANGED <<loopVars, lq>>
  BY <1>4 DEF BindFails
<1>5. ASSUME NEW l \in Stoppable, Stop(t, l)
      PROVE  /\ UNCHANGED loopVars
             /\ lq' = lq \/ \E k \in Loops, r \in Requests : CanPush(k) /\ PushTo(k, r)
  BY <1>5, RequestTypes, ConstantsAssumption DEF Stop
<1>6. ASSUME NEW c \in Conns, \/ Call(t, c) \/ CallFails(t, c) \/ DropRead(t, c)
                              \/ \E u \in Threads : Clone(t, u, c)
      PROVE  UNCHANGED <<loopVars, lq>>
  BY <1>6 DEF Call, CallFails, DropRead, Clone
<1> QED BY <1>1, <1>2, <1>3, <1>4, <1>5, <1>6 DEF ThreadStep, Begin

-----------------------------------------------------------------------------
(* The slab.                                                                *)

\* AddConnection is the only step that opens a connection, and it is none of a
\* loop that has exited.
LEMMA ExitedStep ==
  ASSUME LoopInv, ExitedOK, [Next]_vars
  PROVE  ExitedOK'
<1> USE DEF LoopInv
<1>1. CASE \E l \in Loops : AddConnection(l)
  <2>1. PICK l \in Loops : AddConnection(l) BY <1>1
  <2>2. Head(lq[l]).end \in Ends /\ LoopOf[Head(lq[l]).end] = l
    BY <2>1, HeadRequest DEF AddConnection
  <2>3. /\ conn' = [conn EXCEPT ![Head(lq[l]).end] = "open"] /\ lpc' = lpc /\ lpc[l] = "requests"
        /\ lq' = [lq EXCEPT ![l] = Tail(@)]
    BY <2>1 DEF AddConnection, PopRequest, loopVars
  <2>4. \A j \in Loops : j # l => OpenOn(j)' = OpenOn(j)
    BY <2>2, <2>3 DEF OpenOn, TypeOK
  <2> QED BY <2>3, <2>4 DEF ExitedOK, TypeOK
<1>2. CASE \A l \in Loops : ~AddConnection(l)
  <2>1. tok' = tok /\ \A k \in Loops : OpenOn(k)' \subseteq OpenOn(k) BY <1>2, OpenShrinks
  <2>3. CASE UNCHANGED vars
    <3>1. UNCHANGED <<lpc, lq>> BY <2>3 DEF vars, loopVars
    <3>2. \A k \in Loops : OpenOn(k) = {} => OpenOn(k)' = {} BY <2>1
    <3> QED BY <3>1, <3>2 DEF ExitedOK
  <2>4. ASSUME NEW t \in Threads, ThreadStep(t) \/ Begin(t) PROVE ExitedOK'
    <3>1. /\ lpc' = lpc
          /\ lq' = lq \/ \E l \in Loops, r \in Requests : CanPush(l) /\ PushTo(l, r)
      BY <2>4, ThreadQueues DEF loopVars
    <3> QED BY <2>1, <3>1 DEF ExitedOK, CanPush, LoopGone, PushTo, TypeOK
  <2>5. ASSUME NEW l \in Loops, LoopKind(l) PROVE ExitedOK'
    <3>1. \A k \in Loops : k # l => lpc'[k] = lpc[k] /\ lq'[k] = lq[k] BY <2>5, OtherLoops
    <3>2. lpc'[l] = "exited" => lq'[l] = <<>> /\ OpenOn(l)' = {}
      <4>1. CASE ExitLoop(l)
        BY <4>1 DEF ExitLoop, CloseEnds, OpenOn, TypeOK
      <4>2. CASE ~ExitLoop(l)
        <5>1. lpc'[l] # "exited"
          <6>1. CASE Poll(l) \/ HandleEvent(l) \/ SpuriousEvent(l) \/ EventsDone(l) \/ WakeConnection(l) \/ RequestsDone(l)
            BY <6>1 DEF Poll, HandleEvent, SpuriousEvent, EventsDone, WakeConnection, RequestsDone, TypeOK
          <6>2. CASE RecvDone(l) \/ FlushDone(l) \/ SendBlocks(l)
            BY <6>2 DEF RecvDone, FlushDone, SendBlocks, TypeOK
          <6>3. CASE SetWritable(l) \/ SendDone(l) \/ RemoveConnection(l)
            BY <6>3 DEF SetWritable, SendDone, RemoveConnection, FinishHandling, Resume, TypeOK
          <6>4. CASE RecvResponse(l) \/ RecvRequest(l) \/ FlushRequest(l) \/ FlushResponse(l) \/ SendFrame(l)
            BY <6>4 DEF RecvResponse, RecvRequest, FlushRequest, FlushResponse, SendFrame, loopVars
          <6>5. CASE AddConnectionFails(l) \/ SpuriousWake(l)
            BY <6>5 DEF AddConnectionFails, SpuriousWake, PopRequest, loopVars
          <6> QED BY <1>2, <2>5, <4>2, <6>1, <6>2, <6>3, <6>4, <6>5 DEF LoopKind
        <5> QED BY <5>1
      <4> QED BY <4>1, <4>2
    <3> QED BY <2>1, <3>1, <3>2 DEF ExitedOK
  <2> QED BY <2>3, <2>4, <2>5, LoopKinds DEF Next
<1> QED BY <1>1, <1>2

-----------------------------------------------------------------------------
(* Binding.                                                                 *)

\* A step that binds nothing: binders stay where they are, connections at most
\* close, and what is not yet registered is left alone.
LEMMA BindFrame ==
  ASSUME LoopInv, BindOK, reply' = reply,
         \A t \in Threads : pc'[t] \in BindPcs <=> pc[t] \in BindPcs,
         \A t \in Threads : pc[t] \in BindPcs => tgt'[t] = tgt[t],
         \A e \in Ends : conn'[e] \in {conn[e], "closed"},
         \A c \in Conns : conn[ClientEnd(c)] \in {"unbound", "queued"} =>
                            reqs'[c] \in {reqs[c], <<>>} /\ proxies'[c] = proxies[c],
         \A l \in Loops : \A r \in Range(lq'[l]) : r.op = "add" => r \in Range(lq[l])
  PROVE  BindOK'
<1>1. FreshOK' BY EndsFacts DEF BindOK, FreshOK
<1>2. BinderOK'
  <2>1. ASSUME NEW l \in Loops, NEW r \in Range(lq[l]), r.op = "add", r.to # None
        PROVE  r.to \in Threads
    <3>1. r \in Requests BY <2>1, ElementOfSeq DEF LoopInv, TypeOK, Range
    <3> QED BY <2>1, <3>1 DEF Requests
  <2> QED BY <2>1 DEF BindOK, BinderOK
<1>3. ReplyOK'
  <2>1. \A t \in Threads : reply[t] # "none" => tgt[t] \in Ends /\ pc[t] \in BindPcs
    BY DEF BindOK, ReplyOK, LoopInv, TargetOK, BindPcs, EndPcs
  <2>2. \A t \in Threads : reply[t] # "none" => tgt'[t] = tgt[t] /\ conn'[tgt[t]] \in {conn[tgt[t]], "closed"}
    BY <2>1
  <2> QED BY <2>2 DEF BindOK, ReplyOK
<1> QED BY <1>1, <1>2, <1>3 DEF BindOK

\* Nobody outside bind_client has a Proxy of what is not registered.
LEMMA ProxyBound ==
  ASSUME BindOK, NEW t \in Threads, pc[t] \notin BindPcs, NEW c \in Conns, t \in proxies[c]
  PROVE  conn[ClientEnd(c)] \notin {"unbound", "queued"}
BY DEF BindOK, FreshOK

LEMMA ThreadBind ==
  ASSUME LoopInv, BindOK, NEW t \in Threads,
         \/ Kick(t) \/ WakeDropped(t) \/ CallReturn(t) \/ DropRelease(t) \/ Join(t) \/ Wake(t)
  PROVE  BindOK'
<1> USE DEF LoopInv
<1>1. /\ UNCHANGED <<conn, reqs, reply>>
      /\ \A u \in Threads : pc'[u] \in BindPcs <=> pc[u] \in BindPcs
      /\ \A u \in Threads : pc[u] \in BindPcs => tgt'[u] = tgt[u]
  BY DEF Kick, WakeDropped, CallReturn, DropRelease, Join, Wake, endVars, handVars, BindPcs, KickPcs,
     AfterKick, TypeOK
<1>2. \A c \in Conns : conn[ClientEnd(c)] \in {"unbound", "queued"} => proxies'[c] = proxies[c]
  <2>1. CASE DropRelease(t)
    <3>1. /\ proxies' = [proxies EXCEPT ![tgt[t][1]] = @ \ {t}] /\ pc[t] \notin BindPcs
          /\ tgt[t] \in Ends /\ tgt[t][1] \in Conns
      BY <2>1, EndsFacts DEF DropRelease, BindPcs, TargetOK, EndPcs
    <3>2. \A c \in Conns : conn[ClientEnd(c)] \in {"unbound", "queued"} => t \notin proxies[c]
      BY <3>1, ProxyBound
    <3> QED BY <3>1, <3>2 DEF TypeOK
  <2>2. CASE ~DropRelease(t)
    BY <2>2 DEF Kick, WakeDropped, CallReturn, Join, Wake
  <2> QED BY <2>1, <2>2
<1>3. \A l \in Loops : \A r \in Range(lq'[l]) : r.op = "add" => r \in Range(lq[l])
  <2>1. CASE Wake(t)
    <3> DEFINE k == LoopOf[tgt[t]]
    <3>1. PICK w \in Requests : w.op = "wake" /\ lq' = [lq EXCEPT ![k] = Append(@, w)]
      <4>1. WakeReq(tok[tgt[t]]) \in Requests /\ WakeReq(tok[tgt[t]]).op = "wake"
        BY <2>1, RequestTypes DEF Wake, TargetOK, EndPcs, TypeOK, WakeReq
      <4> QED BY <2>1, <4>1 DEF Wake, PushTo
    <3>2. k \in Loops BY <2>1, ConstantsAssumption DEF Wake, TargetOK, EndPcs
    <3> HIDE DEF k
    <3>3. lq[k] \in Seq(Requests) /\ lq'[k] = PushBack(lq[k], w) /\ \A l \in Loops : l # k => lq'[l] = lq[l]
      BY <3>1, <3>2 DEF TypeOK, PushBack
    <3>4. Range(PushBack(lq[k], w)) = Range(lq[k]) \cup {w}
      BY <3>3, RangeOfAppend DEF PushBack
    <3> QED BY <3>1, <3>3, <3>4
  <2>2. CASE ~Wake(t)
    BY <2>2 DEF Kick, WakeDropped, CallReturn, DropRelease, Join
  <2> QED BY <2>1, <2>2
<1> QED BY <1>1, <1>2, <1>3, BindFrame

\* The binder's answer: its end has left the queue.
LEMMA BindReturnBind ==
  ASSUME LoopInv, BindOK, NEW t \in Threads, BindReturn(t)
  PROVE  BindOK'
<1> USE DEF LoopInv
<1>1. /\ pc[t] = "bindWait" /\ reply[t] # "none"
      /\ pc' = [pc EXCEPT ![t] = "idle"] /\ tgt' = [tgt EXCEPT ![t] = None]
      /\ reply' = [reply EXCEPT ![t] = "none"]
      /\ UNCHANGED <<conn, reqs, lq>>
  BY DEF BindReturn, endVars, handVars
<1>2. tgt[t] \in Ends /\ tgt[t][1] \in Conns BY <1>1, EndsFacts DEF TargetOK, EndPcs
<1>3. conn[tgt[t]] \in {"open", "closed"} /\ (reply[t] = "err" => conn[tgt[t]] = "closed")
  BY <1>1 DEF BindOK, ReplyOK, TypeOK
<1>4. \A u \in Threads : u # t => pc'[u] = pc[u] /\ tgt'[u] = tgt[u] /\ reply'[u] = reply[u]
  BY <1>1 DEF TypeOK
<1>5. pc'[t] \notin BindPcs /\ reply'[t] = "none" BY <1>1 DEF TypeOK, BindPcs
<1>6. \A c \in Conns : conn[ClientEnd(c)] \in {"unbound", "queued"} => proxies'[c] = proxies[c]
  <2>1. CASE reply[t] = "err" /\ tgt[t][2] = "client"
    <3>1. tgt[t] = ClientEnd(tgt[t][1]) BY <1>2, <2>1, EndsFacts
    <3>2. proxies' = [proxies EXCEPT ![tgt[t][1]] = @ \ {t}] BY <2>1 DEF BindReturn
    <3> QED BY <1>2, <1>3, <3>1, <3>2 DEF TypeOK
  <2>2. CASE ~(reply[t] = "err" /\ tgt[t][2] = "client")
    BY <2>2 DEF BindReturn
  <2> QED BY <2>1, <2>2
<1>7. FreshOK'
  <2> SUFFICES ASSUME NEW c \in Conns
               PROVE  /\ conn[ClientEnd(c)] \in {"unbound", "queued"} => reqs[c] = <<>>
                      /\ conn[ClientEnd(c)] = "unbound" => proxies'[c] = {}
                      /\ conn[ClientEnd(c)] = "queued" =>
                           \E u \in Threads : proxies'[c] = {u} /\ pc'[u] \in BindPcs /\ tgt'[u] = ClientEnd(c)
    BY <1>1 DEF FreshOK
  <2>1. ASSUME conn[ClientEnd(c)] = "queued"
        PROVE  \E u \in Threads : proxies'[c] = {u} /\ pc'[u] \in BindPcs /\ tgt'[u] = ClientEnd(c)
    <3>1. PICK u \in Threads : proxies[c] = {u} /\ pc[u] \in BindPcs /\ tgt[u] = ClientEnd(c)
      BY <2>1 DEF BindOK, FreshOK
    <3>2. u # t BY <1>3, <2>1, <3>1
    <3> QED BY <1>4, <1>6, <2>1, <3>1, <3>2
  <2> QED BY <1>6, <2>1 DEF BindOK, FreshOK
<1>8. BinderOK'
  <2> SUFFICES ASSUME NEW l \in Loops, NEW r \in Range(lq[l]), r.op = "add", r.to # None
               PROVE  pc'[r.to] \in BindPcs /\ tgt'[r.to] = r.end
    BY <1>1 DEF BinderOK
  <2>1. pc[r.to] \in BindPcs /\ tgt[r.to] = r.end BY DEF BindOK, BinderOK
  <2>2. conn[r.end] = "queued" BY DEF QueueOK, Range
  <2>3. r.to \in Threads
    <3>1. r \in Requests BY ElementOfSeq DEF TypeOK, Range
    <3> QED BY <3>1 DEF Requests
  <2>4. r.to # t BY <1>3, <2>1, <2>2
  <2> QED BY <1>4, <2>1, <2>3, <2>4
<1>9. ReplyOK' BY <1>1, <1>4, <1>5 DEF BindOK, ReplyOK
<1> QED BY <1>7, <1>8, <1>9 DEF BindOK

LEMMA BeginBind ==
  ASSUME LoopInv, BindOK, NEW t \in Threads, NEW e \in Ends, NEW sync \in BOOLEAN, Bind(t, e, sync)
  PROVE  BindOK'
<1> USE DEF LoopInv
<1> DEFINE k == LoopOf[e]
           to == IF sync THEN t ELSE None
<1>1. /\ pc[t] = "idle" /\ conn[e] = "unbound" /\ (e[2] = "client" => sync)
      /\ lq' = [lq EXCEPT ![k] = Append(@, AddReq(e, to))]
      /\ conn' = [conn EXCEPT ![e] = "queued"]
      /\ proxies' = IF e[2] = "client" THEN [proxies EXCEPT ![e[1]] = {t}] ELSE proxies
      /\ pc' = [pc EXCEPT ![t] = IF sync THEN "bindKick" ELSE "asyncKick"]
      /\ tgt' = [tgt EXCEPT ![t] = e]
      /\ UNCHANGED <<reply, reqs>>
  BY DEF Bind, PushTo, handVars
<1>2. /\ k \in Loops /\ to \in Threads \cup {None} /\ e[1] \in Conns
      /\ e[2] = "client" => e = ClientEnd(e[1])
  BY ConstantsAssumption, EndsFacts
<1>3. pc[t] \notin BindPcs /\ reply[t] = "none" BY <1>1 DEF BindOK, ReplyOK, BindPcs
<1>4. \A u \in Threads : u # t => pc'[u] = pc[u] /\ tgt'[u] = tgt[u]
  BY <1>1 DEF TypeOK
<1>5. pc'[t] = (IF sync THEN "bindKick" ELSE "asyncKick") /\ tgt'[t] = e BY <1>1 DEF TypeOK
<1>6. conn'[e] = "queued" /\ \A f \in Ends : f # e => conn'[f] = conn[f] BY <1>1 DEF TypeOK
<1>7. FreshOK'
  <2> SUFFICES ASSUME NEW c \in Conns
               PROVE  /\ conn'[ClientEnd(c)] \in {"unbound", "queued"} => reqs[c] = <<>>
                      /\ conn'[ClientEnd(c)] = "unbound" => proxies'[c] = {}
                      /\ conn'[ClientEnd(c)] = "queued" =>
                           \E u \in Threads : proxies'[c] = {u} /\ pc'[u] \in BindPcs /\ tgt'[u] = ClientEnd(c)
    BY <1>1 DEF FreshOK
  <2>1. CASE e = ClientEnd(c)
    <3>1. e[2] = "client" /\ e[1] = c BY <2>1 DEF ClientEnd
    <3>2. proxies'[c] = {t} BY <1>1, <3>1 DEF TypeOK
    <3>3. pc'[t] \in BindPcs BY <1>1, <1>5, <3>1 DEF BindPcs
    <3> QED BY <1>1, <1>5, <1>6, <2>1, <3>2, <3>3 DEF BindOK, FreshOK
  <2>2. CASE e # ClientEnd(c)
    <3>1. conn'[ClientEnd(c)] = conn[ClientEnd(c)] BY <1>6, <2>2, EndsFacts
    <3>2. proxies'[c] = proxies[c] BY <1>1, <1>2, <2>2 DEF TypeOK
    <3>3. ASSUME conn[ClientEnd(c)] = "queued"
          PROVE  \E u \in Threads : proxies[c] = {u} /\ pc'[u] \in BindPcs /\ tgt'[u] = ClientEnd(c)
      <4>1. PICK u \in Threads : proxies[c] = {u} /\ pc[u] \in BindPcs /\ tgt[u] = ClientEnd(c)
        BY <3>3 DEF BindOK, FreshOK
      <4> QED BY <1>3, <1>4, <4>1
    <3> QED BY <3>1, <3>2, <3>3 DEF BindOK, FreshOK
  <2> QED BY <2>1, <2>2
<1>8. BinderOK'
  <2> SUFFICES ASSUME NEW l \in Loops, NEW r \in Range(lq'[l]), r.op = "add", r.to # None
               PROVE  pc'[r.to] \in BindPcs /\ tgt'[r.to] = r.end
    BY DEF BinderOK
  <2>1. PICK w \in Requests : w = AddReq(e, to) BY <1>2, RequestTypes
  <2>2. lq[k] \in Seq(Requests) /\ lq'[k] = PushBack(lq[k], w) /\ \A j \in Loops : j # k => lq'[j] = lq[j]
    BY <1>1, <1>2, <2>1 DEF TypeOK, PushBack
  <2>3. Range(PushBack(lq[k], w)) = Range(lq[k]) \cup {w} BY <2>2, RangeOfAppend DEF PushBack
  <2>4. r \in Range(lq[l]) \/ r = w BY <2>2, <2>3
  <2>5. CASE r = w
    <3>1. r.to = to /\ r.end = e BY <2>1, <2>5 DEF AddReq
    <3>2. sync /\ r.to = t BY <3>1
    <3> QED BY <1>5, <3>1, <3>2 DEF BindPcs
  <2>6. CASE r \in Range(lq[l])
    <3>1. pc[r.to] \in BindPcs /\ tgt[r.to] = r.end BY <2>6 DEF BindOK, BinderOK
    <3>2. r.to \in Threads
      <4>1. r \in Requests BY <2>6, ElementOfSeq DEF TypeOK, Range
      <4> QED BY <4>1 DEF Requests
    <3> QED BY <1>3, <1>4, <3>1, <3>2
  <2> QED BY <2>4, <2>5, <2>6
<1>9. ReplyOK'
  <2> SUFFICES ASSUME NEW u \in Threads
               PROVE  /\ pc'[u] \notin BindPcs => reply[u] = "none"
                      /\ reply[u] = "err" => conn'[tgt'[u]] = "closed"
                      /\ reply[u] = "ok" => conn'[tgt'[u]] \in {"open", "closed"}
    BY <1>1 DEF ReplyOK
  <2>1. CASE u = t BY <1>3, <2>1
  <2>2. CASE u # t
    <3>1. reply[u] # "none" => tgt[u] \in Ends /\ tgt[u] # e
      BY <1>1 DEF BindOK, ReplyOK, TargetOK, BindPcs, EndPcs, TypeOK
    <3> QED BY <1>4, <1>6, <2>2, <3>1 DEF BindOK, ReplyOK
  <2> QED BY <2>1, <2>2
<1> QED BY <1>7, <1>8, <1>9 DEF BindOK

LEMMA QueuedRequest ==
  ASSUME LoopInv, BindOK, NEW l \in Loops, NEW r \in Range(lq[l]), r.op = "add"
  PROVE  /\ r.end \in Ends /\ conn[r.end] = "queued" /\ LoopOf[r.end] = l
         /\ r.to \in Threads \cup {None}
         /\ r.to # None => pc[r.to] \in BindPcs /\ tgt[r.to] = r.end
<1>1. r \in Requests BY ElementOfSeq DEF LoopInv, TypeOK, Range
<1> QED BY <1>1 DEF Requests, LoopInv, QueueOK, Range, BindOK, BinderOK

\* Registration, successful or not, takes an end off the queue, and answers its
\* binder if it has one.
LEMMA AddBind ==
  ASSUME LoopInv, BindOK, NEW l \in Loops, AddConnection(l) \/ AddConnectionFails(l)
  PROVE  BindOK'
<1> USE DEF LoopInv
<1>1. PICK r \in Range(lq[l]) : r = Head(lq[l]) /\ r.op = "add"
  BY HeadRequest DEF AddConnection, AddConnectionFails
<1>2. /\ r.end \in Ends /\ conn[r.end] = "queued" /\ LoopOf[r.end] = l
      /\ r.to \in Threads \cup {None}
      /\ r.to # None => pc[r.to] \in BindPcs /\ tgt[r.to] = r.end
  BY <1>1, QueuedRequest
<1>3. /\ UNCHANGED <<proxies, pc, tgt>>
      /\ lq[l] # <<>> /\ lq' = [lq EXCEPT ![l] = Tail(@)]
      /\ \A c \in Conns : reqs'[c] \in {reqs[c], <<>>}
      /\ \A f \in Ends : f # r.end => conn'[f] = conn[f]
  BY <1>1 DEF AddConnection, AddConnectionFails, PopRequest, CloseEnds, handVars, TypeOK
<1>4. \/ /\ conn'[r.end] = "open"
         /\ reply' = IF r.to = None THEN reply ELSE [reply EXCEPT ![r.to] = "ok"]
      \/ /\ conn'[r.end] = "closed"
         /\ reply' = IF r.to = None THEN reply ELSE [reply EXCEPT ![r.to] = "err"]
  BY <1>1, <1>2 DEF AddConnection, AddConnectionFails, CloseEnds, TypeOK
<1>5. FreshOK'
  <2> SUFFICES ASSUME NEW c \in Conns, conn'[ClientEnd(c)] \in {"unbound", "queued"}
               PROVE  /\ reqs'[c] = <<>>
                      /\ conn'[ClientEnd(c)] = "unbound" => proxies[c] = {}
                      /\ conn'[ClientEnd(c)] = "queued" =>
                           \E u \in Threads : proxies[c] = {u} /\ pc[u] \in BindPcs /\ tgt[u] = ClientEnd(c)
    BY <1>3 DEF FreshOK
  <2>1. ClientEnd(c) # r.end BY <1>4
  <2>2. conn'[ClientEnd(c)] = conn[ClientEnd(c)] BY <1>3, <2>1, EndsFacts
  <2> QED BY <1>3, <2>2 DEF BindOK, FreshOK
<1>6. BinderOK'
  <2>1. \A k \in Loops : Range(lq'[k]) \subseteq Range(lq[k])
    <3>1. lq[l] \in Seq(Requests) /\ lq'[l] = Tail(lq[l]) /\ \A k \in Loops : k # l => lq'[k] = lq[k]
      BY <1>3 DEF TypeOK
    <3>2. Range(Tail(lq[l])) \subseteq Range(lq[l]) BY <1>3, <3>1, RangeOfTail
    <3> QED BY <3>1, <3>2
  <2> QED BY <1>3, <2>1 DEF BindOK, BinderOK
<1>7. ReplyOK'
  <2> SUFFICES ASSUME NEW u \in Threads
               PROVE  /\ pc[u] \notin BindPcs => reply'[u] = "none"
                      /\ reply'[u] = "err" => conn'[tgt[u]] = "closed"
                      /\ reply'[u] = "ok" => conn'[tgt[u]] \in {"open", "closed"}
    BY <1>3 DEF ReplyOK
  <2>1. CASE u = r.to
    <3>1. u # None BY ConstantsAssumption
    <3> QED BY <1>2, <1>4, <2>1, <3>1 DEF TypeOK
  <2>2. CASE u # r.to
    <3>1. reply'[u] = reply[u] BY <1>2, <1>4, <2>2 DEF TypeOK
    <3>2. reply[u] # "none" => tgt[u] \in Ends /\ tgt[u] # r.end
      BY <1>2 DEF BindOK, ReplyOK, TargetOK, BindPcs, EndPcs, TypeOK
    <3> QED BY <1>3, <3>1, <3>2 DEF BindOK, ReplyOK
  <2> QED BY <2>1, <2>2
<1> QED BY <1>5, <1>6, <1>7 DEF BindOK

\* An exiting loop answers every binder whose request it still had.
LEMMA ExitBind ==
  ASSUME LoopInv, BindOK, NEW l \in Loops, ExitLoop(l)
  PROVE  BindOK'
<1> USE DEF LoopInv
<1> DEFINE S == OpenOn(l) \cup {r.end : r \in QueuedAdds(l)}
<1>1. /\ UNCHANGED <<proxies, pc, tgt>>
      /\ lq' = [lq EXCEPT ![l] = <<>>]
      /\ \A c \in Conns : reqs'[c] \in {reqs[c], <<>>}
      /\ \A f \in Ends : conn'[f] = IF f \in S THEN "closed" ELSE conn[f]
      /\ reply' = [t \in Threads |-> IF \E r \in QueuedAdds(l) : r.to = t THEN "err" ELSE reply[t]]
  BY DEF ExitLoop, CloseEnds
<1> HIDE DEF S
<1>2. FreshOK' BY <1>1, EndsFacts DEF BindOK, FreshOK
<1>3. BinderOK'
  <2>1. \A k \in Loops : Range(lq'[k]) \subseteq Range(lq[k])
    BY <1>1 DEF Range, TypeOK
  <2> QED BY <1>1, <2>1 DEF BindOK, BinderOK
<1>4. ReplyOK'
  <2> SUFFICES ASSUME NEW u \in Threads
               PROVE  /\ pc[u] \notin BindPcs => reply'[u] = "none"
                      /\ reply'[u] = "err" => conn'[tgt[u]] = "closed"
                      /\ reply'[u] = "ok" => conn'[tgt[u]] \in {"open", "closed"}
    BY <1>1 DEF ReplyOK
  <2>1. CASE \E r \in QueuedAdds(l) : r.to = u
    <3>1. PICK r \in QueuedAdds(l) : r.to = u BY <2>1
    <3>2. r.end \in Ends /\ pc[u] \in BindPcs /\ tgt[u] = r.end
      BY <3>1, QueuedRequest, ConstantsAssumption DEF QueuedAdds
    <3>3. r.end \in S BY DEF S
    <3> QED BY <1>1, <2>1, <3>2, <3>3
  <2>2. CASE ~\E r \in QueuedAdds(l) : r.to = u
    <3>1. reply'[u] = reply[u] BY <1>1, <2>2
    <3>2. reply[u] # "none" => tgt[u] \in Ends
      BY DEF BindOK, ReplyOK, TargetOK, BindPcs, EndPcs, TypeOK
    <3> QED BY <1>1, <3>1, <3>2 DEF BindOK, ReplyOK, TypeOK
  <2> QED BY <2>1, <2>2
<1> QED BY <1>2, <1>3, <1>4 DEF BindOK

LEMMA BindStep ==
  ASSUME LoopInv, BindOK, [Next]_vars
  PROVE  BindOK'
<1> USE DEF LoopInv
<1>1. CASE UNCHANGED vars
  BY <1>1, BindFrame DEF vars, endVars, handVars, threadVars
<1>2. ASSUME NEW t \in Threads, ThreadStep(t) PROVE BindOK'
  BY <1>2, ThreadBind, BindReturnBind DEF ThreadStep
<1>3. ASSUME NEW t \in Threads, Begin(t) PROVE BindOK'
  <2>1. ASSUME NEW e \in Ends, BindFails(t, e) PROVE BindOK'
    BY <2>1, BindFrame DEF BindFails, CloseEnds, threadVars
  <2>2. ASSUME NEW e \in Ends, NEW sync \in BOOLEAN, Bind(t, e, sync) PROVE BindOK'
    BY <2>2, BeginBind
  <2>3. ASSUME NEW l \in Stoppable, Stop(t, l) PROVE BindOK'
    <3>1. /\ UNCHANGED <<conn, reqs, reply, proxies>> /\ pc[t] = "idle"
          /\ tgt' = [tgt EXCEPT ![t] = l]
          /\ \E p \in {"stopKick", "join"} : pc' = [pc EXCEPT ![t] = p]
          /\ lq' = lq \/ lq' = [lq EXCEPT ![l] = PushBack(@, StopReq)]
      BY <2>3 DEF Stop, PushTo, PushBack, endVars, handVars
    <3>2. l \in Loops /\ lq[l] \in Seq(Requests) /\ StopReq \in Requests /\ StopReq.op = "stop"
      BY ConstantsAssumption, RequestTypes DEF TypeOK, StopReq
    <3>3. Range(PushBack(lq[l], StopReq)) = Range(lq[l]) \cup {StopReq}
      BY <3>2, RangeOfAppend DEF PushBack
    <3>4. \A k \in Loops : \A r \in Range(lq'[k]) : r.op = "add" => r \in Range(lq[k])
      BY <3>1, <3>2, <3>3 DEF TypeOK
    <3>5. /\ \A u \in Threads : pc'[u] \in BindPcs <=> pc[u] \in BindPcs
          /\ \A u \in Threads : pc[u] \in BindPcs => tgt'[u] = tgt[u]
      BY <3>1 DEF TypeOK, BindPcs
    <3> QED BY <3>1, <3>4, <3>5, BindFrame
  <2>4. ASSUME NEW c \in Conns, \/ Call(t, c) \/ CallFails(t, c) \/ DropRead(t, c)
                                \/ \E u \in Threads : Clone(t, u, c)
        PROVE  BindOK'
    <3>1. t \in proxies[c] /\ pc[t] = "idle" /\ UNCHANGED <<conn, lq, reply>>
      BY <2>4 DEF Call, CallFails, DropRead, Clone, endVars, threadVars
    <3>2. conn[ClientEnd(c)] \notin {"unbound", "queued"} BY <3>1, ProxyBound DEF BindPcs
    <3>3. \A d \in Conns : d # c => reqs'[d] = reqs[d] /\ proxies'[d] = proxies[d]
      BY <2>4 DEF Call, CallFails, DropRead, Clone, handVars, TypeOK
    <3>4. /\ \A u \in Threads : pc'[u] \in BindPcs <=> pc[u] \in BindPcs
          /\ \A u \in Threads : pc[u] \in BindPcs => tgt'[u] = tgt[u]
      BY <2>4 DEF Call, CallFails, DropRead, Clone, threadVars, TypeOK, BindPcs
    <3> QED BY <3>1, <3>2, <3>3, <3>4, BindFrame
  <2> QED BY <1>3, <2>1, <2>2, <2>3, <2>4 DEF Begin
<1>4. ASSUME NEW l \in Loops, LoopKind(l) PROVE BindOK'
  <2>1. CASE \/ Poll(l) \/ HandleEvent(l) \/ SpuriousEvent(l) \/ EventsDone(l) \/ RecvResponse(l) \/ RecvRequest(l)
             \/ RecvDone(l) \/ FlushResponse(l) \/ FlushDone(l) \/ SendFrame(l) \/ SendBlocks(l)
             \/ SetWritable(l) \/ SendDone(l) \/ RequestsDone(l)
    BY <2>1, BindFrame DEF Poll, HandleEvent, SpuriousEvent, EventsDone, RecvResponse, RecvRequest, RecvDone,
       FlushResponse, FlushDone, SendFrame, SendBlocks, SetWritable, SendDone, RequestsDone,
       endVars, handVars, threadVars
  <2>2. CASE WakeConnection(l) \/ SpuriousWake(l)
    <3>1. /\ UNCHANGED <<conn, reqs, reply, proxies, pc, tgt>>
          /\ lq[l] # <<>> /\ lq' = [lq EXCEPT ![l] = Tail(@)]
      BY <2>2 DEF WakeConnection, SpuriousWake, PopRequest, endVars, handVars, threadVars
    <3>2. lq[l] \in Seq(Requests) /\ lq'[l] = Tail(lq[l]) /\ \A k \in Loops : k # l => lq'[k] = lq[k]
      BY <3>1 DEF TypeOK
    <3>3. Range(Tail(lq[l])) \subseteq Range(lq[l]) BY <3>1, <3>2, RangeOfTail
    <3>4. \A k \in Loops : Range(lq'[k]) \subseteq Range(lq[k]) BY <3>2, <3>3
    <3> QED BY <3>1, <3>4, BindFrame
  <2>3. CASE FlushRequest(l)
    <3>1. PICK c \in Conns : cur[l].end = ClientEnd(c) /\ ClientEnd(c)[1] = c /\ conn[ClientEnd(c)] = "open"
      BY <2>3, HandledOwn, EndsFacts DEF FlushRequest, HandlingPcs
    <3>2. \A d \in Conns : d # c => reqs'[d] = reqs[d]
      BY <2>3, <3>1 DEF FlushRequest, TypeOK
    <3>3. UNCHANGED <<conn, proxies, lq, pc, tgt, reply>>
      BY <2>3 DEF FlushRequest, threadVars
    <3> QED BY <3>1, <3>2, <3>3, BindFrame
  <2>4. CASE RemoveConnection(l)
    BY <2>4, BindFrame DEF RemoveConnection, CloseEnds, threadVars
  <2>5. CASE AddConnection(l) \/ AddConnectionFails(l) BY <2>5, AddBind
  <2>6. CASE ExitLoop(l) BY <2>6, ExitBind
  <2> QED BY <1>4, <2>1, <2>2, <2>3, <2>4, <2>5, <2>6 DEF LoopKind
<1> QED BY <1>1, <1>2, <1>3, <1>4, LoopKinds DEF Next

LEMMA DropStep ==
  ASSUME LoopInv, DropOK, [Next]_vars
  PROVE  DropOK'
<1> USE DEF LoopInv
<1>1. CASE UNCHANGED <<pc, tgt>> BY <1>1 DEF DropOK
\* A step of t that is not the first half of Proxy::drop.
<1> DEFINE Aside(t) == /\ pc'[t] # "dropRelease"
                       /\ \A u \in Threads : u # t => pc'[u] = pc[u] /\ tgt'[u] = tgt[u]
<1>2. ASSUME NEW t \in Threads, ThreadStep(t) PROVE DropOK'
  <2>1. Aside(t)
    <3>1. CASE Kick(t) BY <3>1 DEF Kick, KickPcs, AfterKick, TypeOK
    <3>2. CASE Wake(t) \/ WakeDropped(t) BY <3>2 DEF Wake, WakeDropped, TypeOK
    <3>3. CASE BindReturn(t) \/ CallReturn(t) \/ DropRelease(t) \/ Join(t)
      BY <3>3 DEF BindReturn, CallReturn, DropRelease, Join, TypeOK
    <3> QED BY <1>2, <3>1, <3>2, <3>3 DEF ThreadStep
  <2> QED BY <2>1 DEF DropOK
<1>3. ASSUME NEW t \in Threads, Begin(t) PROVE DropOK'
  <2>1. ASSUME NEW e \in Ends, BindFails(t, e) PROVE DropOK'
    BY <1>1, <2>1 DEF BindFails, threadVars
  <2>2. ASSUME NEW e \in Ends, NEW sync \in BOOLEAN, Bind(t, e, sync) PROVE DropOK'
    <3>1. Aside(t) BY <2>2 DEF Bind, TypeOK
    <3> QED BY <3>1 DEF DropOK
  <2>3. ASSUME NEW l \in Stoppable, Stop(t, l) PROVE DropOK'
    <3>1. Aside(t) BY <2>3 DEF Stop, TypeOK
    <3> QED BY <3>1 DEF DropOK
  <2>4. ASSUME NEW c \in Conns, Call(t, c) PROVE DropOK'
    <3>1. Aside(t) BY <2>4 DEF Call, TypeOK
    <3> QED BY <3>1 DEF DropOK
  <2>5. ASSUME NEW c \in Conns, CallFails(t, c) \/ \E u \in Threads : Clone(t, u, c) PROVE DropOK'
    BY <1>1, <2>5 DEF CallFails, Clone, threadVars
  <2>6. ASSUME NEW c \in Conns, DropRead(t, c) PROVE DropOK'
    <3>1. /\ tgt'[t] = ClientEnd(c)
          /\ \A u \in Threads : u # t => pc'[u] = pc[u] /\ tgt'[u] = tgt[u]
      BY <2>6 DEF DropRead, TypeOK
    <3> QED BY <3>1 DEF DropOK, ClientEnd
  <2> QED BY <1>3, <2>1, <2>2, <2>3, <2>4, <2>5, <2>6 DEF Begin
<1>4. ASSUME NEW l \in Loops, LoopKind(l) PROVE UNCHANGED <<pc, tgt>>
  BY <1>4 DEF LoopKind, Poll, HandleEvent, SpuriousEvent, EventsDone, RecvResponse, RecvRequest, RecvDone,
     FlushRequest, FlushResponse, FlushDone, SendFrame, SendBlocks, SetWritable, SendDone,
     RemoveConnection, AddConnection, AddConnectionFails, WakeConnection, SpuriousWake,
     RequestsDone, ExitLoop, threadVars
<1> QED BY <1>1, <1>2, <1>3, <1>4, LoopKinds DEF Next, vars, threadVars

-----------------------------------------------------------------------------
(* Readiness of the sockets.                                                *)

\* Data or EOF on e leads to recv_inbound.
ReadOK(e) ==
  conn[e] = "open" /\ Readable(e) =>
    \/ armed[e]
    \/ [end |-> e, readable |-> TRUE] \in batch[LoopOf[e]]
    \/ Handling(LoopOf[e], e, {"recv"})
    \/ cur[LoopOf[e]].end = e /\ cur[LoopOf[e]].eof

\* Room for what e has left to send leads to send_outbound.
WriteOK(e) ==
  conn[e] = "open" /\ out[e] # <<>> /\ cur[LoopOf[e]].end # e =>
    wint[e] /\ (armed[e] \/ HasEvent(LoopOf[e], e) \/ ~Writable(e))

\* What a ServerHandler has answered leads to flush_outbound.
RespOK(e) ==
  e[2] = "server" /\ resp[e[1]] # <<>> => Handling(LoopOf[e], e, {"recv", "flush"})

\* Within handle_event: EOF is for good, and a send that would block either
\* still would, or has its writable edge already.
BlockedOK(e) ==
  LET l == LoopOf[e] IN
  cur[l].end = e =>
    /\ cur[l].eof => conn[Peer(e)] = "closed"
    /\ lpc[l] = "wouldBlock" => ~cur[l].eof /\ (wint[e] => armed[e] \/ ~Writable(e))

IoOK(e) == ReadOK(e) /\ WriteOK(e) /\ RespOK(e) /\ BlockedOK(e)

\* The loop of e does not move on with e, nor its handler.
StaysPut(e) ==
  LET l == LoopOf[e] IN
  /\ cur'[l].end = e <=> cur[l].end = e
  /\ cur[l].end = e => cur'[l].eof = cur[l].eof /\ lpc'[l] = lpc[l]
  /\ \A ev \in batch[l] : ev.end = e => ev \in batch'[l]
  /\ out'[e] = out[e] /\ wint'[e] = wint[e]
  /\ e[2] = "server" => resp'[e[1]] = resp[e[1]]

\* Such a step keeps IoOK(e) if it leaves the socket of e as it was ...
LEMMA IoSame ==
  ASSUME LoopInv, NEW e \in Ends, IoOK(e), StaysPut(e),
         conn'[e] = conn[e], chan'[e] = chan[e], chan'[Peer(e)] = chan[Peer(e)],
         conn'[Peer(e)] = "closed" <=> conn[Peer(e)] = "closed",
         armed[e] => armed'[e]
  PROVE  IoOK(e)'
<1> DEFINE l == LoopOf[e]
<1>1. ReadOK(e)' BY DEF IoOK, ReadOK, StaysPut, Readable, Handling
<1>2. WriteOK(e)' BY DEF IoOK, WriteOK, StaysPut, Writable, HasEvent
<1>3. RespOK(e)' BY DEF IoOK, RespOK, StaysPut, Handling
<1>4. BlockedOK(e)' BY DEF IoOK, BlockedOK, StaysPut, Writable
<1> QED BY <1>1, <1>2, <1>3, <1>4 DEF IoOK

\* ... or gives e an edge ...
LEMMA IoArmed ==
  ASSUME LoopInv, NEW e \in Ends, IoOK(e), StaysPut(e), armed'[e],
         conn'[e] = conn[e],
         conn[Peer(e)] = "closed" => conn'[Peer(e)] = "closed"
  PROVE  IoOK(e)'
<1>1. ReadOK(e)' BY DEF ReadOK
<1>2. WriteOK(e)' BY DEF IoOK, WriteOK, StaysPut
<1>3. RespOK(e)' BY DEF IoOK, RespOK, StaysPut, Handling
<1>4. BlockedOK(e)' BY DEF IoOK, BlockedOK, StaysPut
<1> QED BY <1>1, <1>2, <1>3, <1>4 DEF IoOK

\* ... and any step does that leaves e unregistered or closed.
LEMMA IoClosed ==
  ASSUME LoopInv', NEW e \in Ends, conn'[e] # "open"
  PROVE  IoOK(e)'
<1>1. ReadOK(e)' /\ WriteOK(e)' BY DEF ReadOK, WriteOK
<1>2. RespOK(e)' BY EndsFacts DEF RespOK, LoopInv, EmptyOK
<1>3. cur'[LoopOf[e]].end # e
  BY ConstantsAssumption DEF LoopInv, HandlerOK, OpenOn, Idle
<1>4. BlockedOK(e)' BY <1>3 DEF BlockedOK
<1> QED BY <1>1, <1>2, <1>4 DEF IoOK

LEMMA PeerFacts ==
  ASSUME NEW e \in Ends
  PROVE  Peer(e) \in Ends /\ Peer(e) # e /\ Peer(Peer(e)) = e /\ Peer(e)[1] = e[1] /\ e[1] \in Conns
BY DEF Ends, Peer

\* Closing ends: those that stay open have the hang-up edge of a closed peer.
LEMMA IoCloses ==
  ASSUME LoopInv, LoopInv', NEW S, CloseEnds(S), NEW e \in Ends, IoOK(e),
         LET l == LoopOf[e] IN
         /\ e \notin S => (cur'[l].end = e <=> cur[l].end = e)
         /\ e \notin S /\ cur[l].end = e => cur'[l].eof = cur[l].eof /\ lpc'[l] = lpc[l]
         /\ e \notin S => \A ev \in batch[l] : ev.end = e => ev \in batch'[l]
  PROVE  IoOK(e)'
<1> DEFINE p == Peer(e)
<1>1. p \in Ends /\ p # e /\ e[1] \in Conns /\ (e[2] = "server" => e = ServerEnd(e[1]))
  BY PeerFacts, EndsFacts DEF Ends
<1> HIDE DEF p
<1>2. CASE e \in S
  BY <1>2, IoClosed DEF CloseEnds
<1>3. CASE e \notin S
  <2>1. /\ conn'[e] = conn[e] /\ chan'[e] = chan[e] /\ out'[e] = out[e] /\ wint'[e] = wint[e]
        /\ armed'[e] <=> armed[e] \/ HangUp(S, e)
        /\ e[2] = "server" => resp'[e[1]] = resp[e[1]]
        /\ conn[p] = "closed" => conn'[p] = "closed"
    <3>1. conn'[e] = conn[e] /\ chan'[e] = chan[e] /\ out'[e] = out[e]
      BY ONLY CloseEnds(S), e \in Ends, <1>3 DEF CloseEnds
    <3>2. wint'[e] = wint[e]
      <4>1. wint[e] \in BOOLEAN BY DEF LoopInv, TypeOK
      <4>2. wint'[e] = (wint[e] /\ e \notin S)
        BY ONLY CloseEnds(S), e \in Ends DEF CloseEnds
      <4> QED BY ONLY <1>3, <4>1, <4>2
    <3>3. armed'[e] <=> armed[e] \/ HangUp(S, e)
      BY ONLY CloseEnds(S), e \in Ends, <1>3 DEF CloseEnds
    <3>4. e[2] = "server" => resp'[e[1]] = resp[e[1]]
      BY ONLY CloseEnds(S), <1>1, <1>3 DEF CloseEnds
    <3>5. conn[p] = "closed" => conn'[p] = "closed"
      BY ONLY CloseEnds(S), <1>1 DEF CloseEnds
    <3> QED BY ONLY <3>1, <3>2, <3>3, <3>4, <3>5
  <2>2. StaysPut(e) BY <1>3, <2>1 DEF StaysPut
  <2>3. CASE p \in S
    <3>1. CASE conn[e] = "open" BY <2>1, <2>2, <2>3, <3>1, IoArmed DEF HangUp, p
    <3>2. CASE conn[e] # "open" BY <2>1, <3>2, IoClosed
    <3> QED BY <3>1, <3>2
  <2>4. CASE p \notin S
    <3>1. chan'[p] = chan[p] /\ conn'[p] = conn[p] BY <1>1, <2>4 DEF CloseEnds
    <3> QED BY <2>1, <2>2, <3>1, IoSame DEF p
  <2> QED BY <2>3, <2>4
<1> QED BY <1>2, <1>3

LEMMA IdleLoop ==
  ASSUME LoopInv, NEW l \in Loops, lpc[l] \notin HandlingPcs
  PROVE  \A e \in Ends : cur[l].end # e
BY ConstantsAssumption DEF LoopInv, HandlerOK, Idle

\* A thread leaves every socket that is registered as it was.
LEMMA IoThread ==
  ASSUME LoopInv, LoopInv', NEW t \in Threads, ThreadStep(t) \/ Begin(t),
         NEW e \in Ends, IoOK(e)
  PROVE  IoOK(e)'
<1>1. UNCHANGED loopVars BY ThreadQueues
<1>2. CASE UNCHANGED <<endVars, resp>>
  BY <1>1, <1>2, IoSame DEF endVars, loopVars, StaysPut
<1>3. ASSUME NEW f \in Ends, BindFails(t, f) PROVE IoOK(e)'
  BY <1>1, <1>3, IoCloses DEF BindFails, loopVars
<1>4. ASSUME NEW f \in Ends, NEW sync \in BOOLEAN, Bind(t, f, sync) PROVE IoOK(e)'
  <2>1. /\ UNCHANGED <<chan, out, wint, armed, resp>>
        /\ conn[f] = "unbound" /\ conn' = [conn EXCEPT ![f] = "queued"]
    BY <1>4 DEF Bind, handVars
  <2>2. CASE e = f BY <2>1, <2>2, IoClosed DEF LoopInv, TypeOK
  <2>3. CASE e # f
    <3>1. conn'[e] = conn[e] /\ (conn'[Peer(e)] = "closed" <=> conn[Peer(e)] = "closed")
      BY <2>1, <2>3, PeerFacts DEF LoopInv, TypeOK
    <3> QED BY <1>1, <2>1, <3>1, IoSame DEF loopVars, StaysPut
  <2> QED BY <2>2, <2>3
<1>5. CASE ThreadStep(t)
  <2>1. UNCHANGED <<endVars, resp>>
    BY <1>5 DEF ThreadStep, Kick, Wake, WakeDropped, BindReturn, CallReturn, DropRelease, Join, handVars
  <2> QED BY <1>2, <2>1
<1>6. CASE Begin(t)
  <2>1. ASSUME NEW l \in Stoppable, Stop(t, l) PROVE UNCHANGED <<endVars, resp>>
    BY <2>1 DEF Stop, handVars
  <2>2. ASSUME NEW c \in Conns, \/ Call(t, c) \/ CallFails(t, c) \/ DropRead(t, c)
                                \/ \E u \in Threads : Clone(t, u, c)
        PROVE  UNCHANGED <<endVars, resp>>
    BY <2>2 DEF Call, CallFails, DropRead, Clone, handVars
  <2> QED BY <1>2, <1>3, <1>4, <1>6, <2>1, <2>2 DEF Begin
<1> QED BY <1>5, <1>6

\* poll takes every edge, and leaves an event for each that matters.
LEMMA IoPoll ==
  ASSUME LoopInv, LoopInv', NEW l \in Loops, Poll(l), NEW e \in Ends, IoOK(e)
  PROVE  IoOK(e)'
<1> USE DEF LoopInv
<1>1. /\ UNCHANGED <<conn, chan, out, wint, resp, cur>>
      /\ lpc[l] = "poll" /\ lpc' = [lpc EXCEPT ![l] = "events"]
      /\ batch' = [batch EXCEPT ![l] = Events(l)]
      /\ armed' = [f \in Ends |-> armed[f] /\ LoopOf[f] # l]
  BY DEF Poll, handVars
<1>2. LoopOf[e] \in Loops BY ConstantsAssumption
<1>3. \A f \in Ends : cur[l].end # f BY <1>1, IdleLoop DEF HandlingPcs
<1>4. CASE LoopOf[e] # l
  <2>1. armed'[e] <=> armed[e] BY <1>1, <1>4 DEF TypeOK
  <2>2. StaysPut(e) BY <1>1, <1>2, <1>4 DEF StaysPut, TypeOK
  <2> QED BY <1>1, <2>1, <2>2, IoSame
<1>5. CASE LoopOf[e] = l
  <2>1. batch[l] = {} BY <1>1 DEF HandlerOK
  <2>2. batch'[l] = Events(l) BY <1>1 DEF TypeOK
  <2>3. Readable(e)' = Readable(e) /\ Writable(e)' = Writable(e) /\ conn'[e] = conn[e]
    BY <1>1 DEF Readable, Writable
  <2>4. e \in Ready(l) => /\ Readable(e) => [end |-> e, readable |-> TRUE] \in batch'[l]
                         /\ \E ev \in batch'[l] : ev.end = e
    <3> SUFFICES ASSUME e \in Ready(l)
                 PROVE  /\ Readable(e) => [end |-> e, readable |-> TRUE] \in Events(l)
                        /\ \E ev \in Events(l) : ev.end = e
      BY <2>2
    <3>1. CASE SplitEvents
      <4>1. Readable(e) => [end |-> e, readable |-> TRUE] \in Events(l) BY <3>1 DEF Events
      <4>2. ~Readable(e) => [end |-> e, readable |-> FALSE] \in Events(l) BY <3>1 DEF Events, Ready
      <4> QED BY <4>1, <4>2
    <3>2. CASE ~SplitEvents
      <4>1. [end |-> e, readable |-> Readable(e)] \in Events(l) BY <3>2 DEF Events
      <4>2. Readable(e) => Readable(e) = TRUE BY DEF Readable
      <4> QED BY <4>1, <4>2
    <3> QED BY <3>1, <3>2
  <2>5. ReadOK(e)'
    <3> SUFFICES ASSUME conn[e] = "open", Readable(e)
                 PROVE  [end |-> e, readable |-> TRUE] \in batch'[l]
      BY <1>5, <2>3 DEF ReadOK
    <3>1. armed[e] BY <1>3, <1>5, <2>1 DEF IoOK, ReadOK, Handling
    <3>2. e \in Ready(l) BY <1>5, <3>1 DEF Ready, OpenOn
    <3> QED BY <2>4, <3>2
  <2>6. WriteOK(e)'
    <3> SUFFICES ASSUME conn[e] = "open", out[e] # <<>>
                 PROVE  wint[e] /\ ((\E ev \in batch'[l] : ev.end = e) \/ ~Writable(e))
      BY <1>1, <1>5, <2>3 DEF WriteOK, HasEvent
    <3>1. wint[e] /\ (armed[e] \/ ~Writable(e))
      BY <1>3, <1>5, <2>1 DEF IoOK, WriteOK, HasEvent
    <3>2. CASE ~Writable(e) BY <3>1, <3>2
    <3>3. CASE Writable(e)
      <4>1. e \in Ready(l) BY <1>5, <3>1, <3>3 DEF Ready, OpenOn
      <4> QED BY <2>4, <3>1, <4>1
    <3> QED BY <3>2, <3>3
  <2>7. RespOK(e)' BY <1>1, <1>3, <1>5 DEF IoOK, RespOK, Handling
  <2>8. BlockedOK(e)' BY <1>1, <1>3, <1>5 DEF BlockedOK
  <2> QED BY <2>5, <2>6, <2>7, <2>8 DEF IoOK
<1> QED BY <1>4, <1>5

\* What a loop does with one connection f does not concern the others, unless
\* it moves frames: those of other loops, and those it has no hold of.
LEMMA IoApart ==
  ASSUME LoopInv, NEW l \in Loops, LoopKind(l), NEW e \in Ends, IoOK(e),
         out'[e] = out[e], wint'[e] = wint[e], e[2] = "server" => resp'[e[1]] = resp[e[1]],
         LoopOf[e] = l => /\ cur[l].end # e /\ cur'[l].end # e
                          /\ \A ev \in batch[l] : ev.end = e => ev \in batch'[l]
  PROVE  StaysPut(e)
<1>1. LoopOf[e] \in Loops BY ConstantsAssumption
<1>2. CASE LoopOf[e] = l BY <1>2 DEF StaysPut
<1>3. CASE LoopOf[e] # l
  <2>1. /\ lpc'[LoopOf[e]] = lpc[LoopOf[e]] /\ cur'[LoopOf[e]] = cur[LoopOf[e]]
        /\ batch'[LoopOf[e]] = batch[LoopOf[e]]
    BY <1>1, <1>3, OtherLoops DEF LoopInv
  <2> QED BY <2>1 DEF StaysPut
<1> QED BY <1>2, <1>3

\* The connection an event is handled for is the one it was fetched for.
LEMMA HandlesOwn ==
  ASSUME LoopInv, NEW l \in Loops, HandleEvent(l)
  PROVE  \E ev \in batch[l] :
           /\ ev.end \in OpenOn(l)
           /\ batch' = [batch EXCEPT ![l] = @ \ {ev}]
           /\ cur' = [cur EXCEPT ![l] = [end |-> ev.end, wake |-> FALSE, eof |-> FALSE]]
           /\ lpc' = [lpc EXCEPT ![l] = IF ev.readable THEN "recv" ELSE "flush"]
BY DEF HandleEvent, LoopInv, SlabOK, EventsOwned

LEMMA IoHandle ==
  ASSUME LoopInv, LoopInv', NEW l \in Loops, HandleEvent(l), NEW e \in Ends, IoOK(e)
  PROVE  IoOK(e)'
<1> USE DEF LoopInv
<1>1. PICK ev \in batch[l] :
         /\ ev.end \in OpenOn(l)
         /\ batch' = [batch EXCEPT ![l] = @ \ {ev}]
         /\ cur' = [cur EXCEPT ![l] = [end |-> ev.end, wake |-> FALSE, eof |-> FALSE]]
         /\ lpc' = [lpc EXCEPT ![l] = IF ev.readable THEN "recv" ELSE "flush"]
  BY HandlesOwn
<1>2. UNCHANGED <<endVars, resp>> /\ lpc[l] = "events" BY DEF HandleEvent, handVars
<1>3. \A f \in Ends : cur[l].end # f BY <1>2, IdleLoop DEF HandlingPcs
<1>5. ev.end \in Ends /\ LoopOf[ev.end] = l /\ ev.readable \in BOOLEAN
  BY <1>1 DEF OpenOn, TypeOK
<1>6. CASE e # ev.end
  <2>1. StaysPut(e)
    BY <1>1, <1>2, <1>3, <1>6, IoApart DEF LoopKind, endVars, TypeOK
  <2> QED BY <1>2, <2>1, IoSame DEF endVars
<1>7. CASE e = ev.end
  <2>1. cur'[l].end = e /\ ~cur'[l].eof /\ lpc'[l] = (IF ev.readable THEN "recv" ELSE "flush")
    BY <1>1, <1>7 DEF TypeOK
  <2>2. ReadOK(e)'
    <3>1. CASE ev.readable
      BY <1>5, <1>7, <2>1, <3>1 DEF ReadOK, Handling
    <3>2. CASE ~ev.readable
      <4>1. [end |-> e, readable |-> TRUE] \in batch[l] => [end |-> e, readable |-> TRUE] \in batch'[l]
        BY <1>1, <3>2 DEF TypeOK
      <4> QED BY <1>2, <1>3, <1>5, <1>7, <4>1 DEF IoOK, ReadOK, Handling, Readable, endVars
    <3> QED BY <3>1, <3>2
  <2>3. WriteOK(e)' BY <1>5, <1>7, <2>1 DEF WriteOK
  <2>4. RespOK(e)' BY <1>5, <1>7, <2>1 DEF RespOK, Handling
  <2>5. BlockedOK(e)' BY <1>5, <1>7, <2>1 DEF BlockedOK
  <2> QED BY <2>2, <2>3, <2>4, <2>5 DEF IoOK
<1> QED BY <1>6, <1>7

\* An event that is ignored was about an end that is no longer open.
LEMMA IoSpurious ==
  ASSUME LoopInv, LoopInv', NEW l \in Loops, SpuriousEvent(l), NEW e \in Ends, IoOK(e)
  PROVE  IoOK(e)'
<1> USE DEF LoopInv
<1>1. PICK ev \in batch[l] : /\ \A f \in OpenOn(l) : tok[f] # tok[ev.end]
                            /\ batch' = [batch EXCEPT ![l] = @ \ {ev}]
  BY DEF SpuriousEvent
<1>2. UNCHANGED <<endVars, resp, lpc, cur>> /\ lpc[l] = "events" BY DEF SpuriousEvent, handVars
<1>3. CASE conn[e] # "open" BY <1>2, <1>3, IoClosed DEF endVars
<1>4. CASE conn[e] = "open"
  <2>1. LoopOf[e] \in Loops /\ (LoopOf[e] = l => ev.end # e)
    BY <1>1, <1>4, ConstantsAssumption DEF OpenOn
  <2>2. \A f \in batch[LoopOf[e]] : f.end = e => f \in batch'[LoopOf[e]]
    BY <1>1, <2>1 DEF TypeOK
  <2>3. StaysPut(e) BY <1>2, <2>2 DEF StaysPut, endVars
  <2> QED BY <1>2, <2>3, IoSame DEF endVars
<1> QED BY <1>3, <1>4

LEMMA IoWake ==
  ASSUME LoopInv, LoopInv', NEW l \in Loops, WakeConnection(l), NEW e \in Ends, IoOK(e)
  PROVE  IoOK(e)'
<1> USE DEF LoopInv
<1>1. PICK f \in OpenOn(l) : cur' = [cur EXCEPT ![l] = [end |-> f, wake |-> TRUE, eof |-> FALSE]]
  BY DEF WakeConnection
<1>2. /\ UNCHANGED <<endVars, resp, batch>> /\ lpc[l] = "requests"
      /\ lpc' = [lpc EXCEPT ![l] = "flush"]
  BY DEF WakeConnection, PopRequest, handVars
<1>3. \A g \in Ends : cur[l].end # g BY <1>2, IdleLoop DEF HandlingPcs
<1>4. f \in Ends /\ LoopOf[f] = l BY DEF OpenOn
<1>5. cur'[l].end = f /\ ~cur'[l].eof /\ lpc'[l] = "flush" BY <1>1, <1>2 DEF TypeOK
<1>6. CASE e # f
  <2>1. StaysPut(e) BY <1>2, <1>3, <1>5, <1>6, IoApart DEF LoopKind, endVars
  <2> QED BY <1>2, <2>1, IoSame DEF endVars
<1>7. CASE e = f
  <2>1. ReadOK(e)'
    BY <1>2, <1>3, <1>4, <1>7 DEF IoOK, ReadOK, Handling, Readable, endVars
  <2>2. WriteOK(e)' BY <1>4, <1>5, <1>7 DEF WriteOK
  <2>3. RespOK(e)' BY <1>4, <1>5, <1>7 DEF RespOK, Handling
  <2>4. BlockedOK(e)' BY <1>4, <1>5, <1>7 DEF BlockedOK
  <2> QED BY <2>1, <2>2, <2>3, <2>4 DEF IoOK
<1> QED BY <1>6, <1>7

\* The steps of handle_event that move no frame.
LEMMA IoQuiet ==
  ASSUME LoopInv, LoopInv', NEW l \in Loops, RecvDone(l) \/ FlushDone(l) \/ SendBlocks(l),
         NEW e \in Ends, IoOK(e)
  PROVE  IoOK(e)'
<1> USE DEF LoopInv
<1> DEFINE f == cur[l].end
<1>1. /\ UNCHANGED <<endVars, resp, batch>> /\ lpc[l] \in HandlingPcs
      /\ \A k \in Loops : cur'[k].end = cur[k].end
  <2>1. /\ UNCHANGED <<endVars, resp, batch>> /\ lpc[l] \in HandlingPcs
        /\ cur' = cur \/ \E b : cur' = [cur EXCEPT ![l].eof = b]
    BY DEF RecvDone, FlushDone, SendBlocks, handVars, HandlingPcs
  <2>2. cur \in [Loops -> [end : Ends \cup {None}, wake : BOOLEAN, eof : BOOLEAN]] BY DEF TypeOK
  <2> HIDE DEF LoopInv
  <2>3. \A k \in Loops : cur'[k].end = cur[k].end BY <2>1, <2>2
  <2> QED BY <2>1, <2>3
<1>2. f \in Ends /\ conn[f] = "open" /\ LoopOf[f] = l BY <1>1, HandledOwn
<1>3. LoopKind(l) BY DEF LoopKind
<1>4. CASE e # f
  <2>1. StaysPut(e) BY <1>1, <1>3, <1>4, IoApart DEF endVars
  <2> QED BY <1>1, <2>1, IoSame DEF endVars
<1>5. CASE e = f
  <2>0. cur'[l].end = e /\ LoopOf[e] = l BY <1>1, <1>2, <1>5
  <2>1. Readable(e)' = Readable(e) /\ Writable(e)' = Writable(e)
    BY <1>1 DEF Readable, Writable, endVars
  <2>2. WriteOK(e)' BY <2>0 DEF WriteOK
  <2>3. CASE RecvDone(l)
    <3>1. cur'[l].eof = (conn[Peer(e)] = "closed") /\ lpc'[l] = "flush" /\ chan[e] = <<>>
      BY <1>5, <2>3 DEF RecvDone, TypeOK
    <3>2. ReadOK(e)' BY <1>2, <1>5, <2>0, <2>1, <3>1 DEF ReadOK, Readable
    <3>3. RespOK(e)' BY <2>0, <3>1 DEF RespOK, Handling
    <3>4. BlockedOK(e)' BY <1>1, <2>0, <3>1 DEF BlockedOK, endVars
    <3> QED BY <2>2, <3>2, <3>3, <3>4 DEF IoOK
  <2>4. CASE FlushDone(l)
    <3>1. /\ cur' = cur /\ lpc[l] = "flush" /\ lpc'[l] = "send"
          /\ e[2] = "server" => resp[e[1]] = <<>>
      BY <1>5, <2>4 DEF FlushDone, TypeOK
    <3>2. ReadOK(e)'
      BY <1>1, <2>0, <2>1, <3>1 DEF IoOK, ReadOK, Handling, endVars
    <3>3. RespOK(e)' BY <1>1, <3>1 DEF RespOK
    <3>4. BlockedOK(e)' BY <1>1, <2>0, <3>1 DEF IoOK, BlockedOK, endVars
    <3> QED BY <2>2, <3>2, <3>3, <3>4 DEF IoOK
  <2>5. CASE SendBlocks(l)
    <3>1. /\ cur' = cur /\ lpc[l] = "send" /\ lpc'[l] = "wouldBlock"
          /\ conn[Peer(e)] # "closed" /\ Len(chan[Peer(e)]) >= SockCap
      BY <1>5, <2>5 DEF SendBlocks, TypeOK
    <3>2. ReadOK(e)'
      BY <1>1, <2>0, <2>1, <3>1 DEF IoOK, ReadOK, Handling, endVars
    <3>3. RespOK(e)' BY <1>1, <2>0, <3>1 DEF IoOK, RespOK, Handling
    <3>4. ~Writable(e)
      <4>1. Len(chan[Peer(e)]) \in Nat BY PeerFacts DEF TypeOK
      <4>2. SockCap \in Nat \ {0} BY ConstantsAssumption
      <4> QED BY <3>1, <4>1, <4>2 DEF Writable
    <3>5. BlockedOK(e)' BY <1>1, <2>0, <2>1, <3>1, <3>4 DEF IoOK, BlockedOK, endVars
    <3> QED BY <2>2, <3>2, <3>3, <3>5 DEF IoOK
  <2> QED BY <2>3, <2>4, <2>5
<1> QED BY <1>4, <1>5

\* The end of handle_event: interest in WRITABLE is set, or given up.
LEMMA IoFinish ==
  ASSUME LoopInv, LoopInv', NEW l \in Loops, SetWritable(l) \/ SendDone(l),
         NEW e \in Ends, IoOK(e)
  PROVE  IoOK(e)'
<1> USE DEF LoopInv
<1> DEFINE f == cur[l].end
<1>1. /\ UNCHANGED <<conn, chan, out, resp, batch>> /\ lpc[l] \in {"send", "wouldBlock"}
      /\ cur' = [cur EXCEPT ![l] = Idle] /\ lpc' = [lpc EXCEPT ![l] = Resume(l)]
  BY DEF SetWritable, SendDone, FinishHandling, handVars
<1>2. f \in Ends /\ conn[f] = "open" /\ LoopOf[f] = l BY <1>1, HandledOwn DEF HandlingPcs
<1>3. LoopKind(l) BY DEF LoopKind
<1>4. cur'[l].end \notin Ends BY <1>1, ConstantsAssumption DEF TypeOK, Idle
<1>5. CASE e # f
  <2>1. wint'[e] = wint[e] /\ armed'[e] = armed[e]
    BY <1>2, <1>5 DEF SetWritable, SendDone, TypeOK
  <2>2. StaysPut(e) BY <1>1, <1>3, <1>4, <1>5, <2>1, IoApart
  <2> QED BY <1>1, <2>1, <2>2, IoSame
<1>6. CASE e = f
  <2>1. Readable(e)' = Readable(e) /\ Writable(e)' = Writable(e)
    BY <1>1 DEF Readable, Writable
  <2>2. RespOK(e)' BY <1>1, <1>2, <1>6 DEF IoOK, RespOK, Handling
  <2>3. BlockedOK(e)' BY <1>2, <1>4, <1>6 DEF BlockedOK
  <2>4. armed[e] => armed'[e]
    BY <1>2, <1>6 DEF SetWritable, SendDone, TypeOK
  <2>5. ~cur[l].eof
    BY <1>2, <1>6 DEF IoOK, BlockedOK, SetWritable, SendDone
  <2>6. ReadOK(e)'
    BY <1>1, <1>2, <1>6, <2>1, <2>4, <2>5 DEF IoOK, ReadOK, Handling
  <2>7. WriteOK(e)'
    <3>1. CASE SendDone(l) BY <1>1, <1>6, <3>1 DEF SendDone, WriteOK
    <3>2. CASE SetWritable(l)
      <4>1. /\ lpc[l] = "wouldBlock" /\ wint'[e]
            /\ armed'[e] <=> armed[e] \/ (~wint[e] /\ (Readable(e) \/ Writable(e)))
        BY <1>2, <1>6, <3>2 DEF SetWritable, TypeOK
      <4>2. wint[e] => armed[e] \/ ~Writable(e)
        BY <1>2, <1>6, <4>1 DEF IoOK, BlockedOK
      <4>3. armed'[e] \/ ~Writable(e) BY <4>1, <4>2
      <4> QED BY <2>1, <4>1, <4>3 DEF WriteOK
    <3> QED BY <3>1, <3>2
  <2> QED BY <2>2, <2>3, <2>6, <2>7 DEF IoOK
<1> QED BY <1>5, <1>6

\* Taking a frame makes room, which the peer hears of if it asked.
LEMMA IoRecv ==
  ASSUME LoopInv, LoopInv', NEW l \in Loops, RecvResponse(l) \/ RecvRequest(l),
         NEW e \in Ends, IoOK(e)
  PROVE  IoOK(e)'
<1> USE DEF LoopInv
<1> DEFINE f == cur[l].end
<1>1. /\ UNCHANGED <<conn, out, wint, loopVars>> /\ lpc[l] = "recv" /\ TakeFrame(f)
      /\ f[2] = "client" => resp' = resp
      /\ f[2] = "server" => \E m : resp' = [resp EXCEPT ![f[1]] = m]
  BY DEF RecvResponse, RecvRequest
<1>2. f \in Ends /\ conn[f] = "open" /\ LoopOf[f] = l BY <1>1, HandledOwn DEF HandlingPcs
<1>3. LoopKind(l) BY DEF LoopKind
<1> HIDE DEF f
<1>4. /\ chan[f] # <<>> /\ chan' = [chan EXCEPT ![f] = Tail(@)]
      /\ \A g \in Ends : g # Peer(f) => armed'[g] = armed[g]
      /\ armed'[Peer(f)] <=>
           \/ armed[Peer(f)]
           \/ /\ conn[Peer(f)] = "open" /\ wint[Peer(f)]
              /\ 4 * (Len(chan[f]) - 1) <= SockCap
  BY <1>1, <1>2, PeerFacts DEF TakeFrame, TypeOK
<1>5. \A g \in Ends : g # f => chan'[g] = chan[g] BY <1>4 DEF TypeOK
<1>6. e # f /\ e[2] = "server" => resp'[e[1]] = resp[e[1]]
  <2>1. e # f /\ e[2] = "server" => e[1] # f[1] \/ f[2] = "client"
    BY <1>2, EndsFacts
  <2> QED BY <1>1, <1>2, <2>1, PeerFacts DEF TypeOK, Ends
<1>7. CASE e = f
  <2>1. armed'[e] = armed[e] BY <1>2, <1>4, <1>7, PeerFacts
  <2>2. ReadOK(e)' BY <1>1, <1>2, <1>7 DEF ReadOK, Handling, loopVars, f
  <2>3. WriteOK(e)' BY <1>1, <1>2, <1>7 DEF WriteOK, loopVars, f
  <2>4. RespOK(e)' BY <1>1, <1>2, <1>7 DEF RespOK, Handling, loopVars, f
  <2>5. BlockedOK(e)' BY <1>1, <1>2, <1>7 DEF IoOK, BlockedOK, loopVars, f
  <2> QED BY <2>2, <2>3, <2>4, <2>5 DEF IoOK
<1>8. CASE e # f /\ e # Peer(f)
  <2>1. StaysPut(e) BY <1>1, <1>6, <1>8 DEF StaysPut, loopVars
  <2>2. Peer(e) # f BY <1>8, PeerFacts
  <2> QED BY <1>1, <1>4, <1>5, <1>8, <2>1, <2>2, PeerFacts, IoSame
<1>9. CASE e = Peer(f)
  <2>1. StaysPut(e) /\ Peer(e) = f /\ e # f BY <1>1, <1>2, <1>6, <1>9, PeerFacts DEF StaysPut, loopVars
  <2>2. CASE conn[e] # "open" BY <1>1, <2>2, IoClosed
  <2>3. CASE armed'[e] BY <1>1, <2>1, <2>3, IoArmed
  <2>4. CASE conn[e] = "open" /\ ~armed'[e]
    <3>1. chan[f] \in Seq(Msg) /\ SockCap \in Nat BY <1>2, ConstantsAssumption DEF TypeOK
    <3>2. chan'[f] = Tail(chan[f]) BY <1>2, <1>4 DEF TypeOK
    <3>3. Len(chan'[f]) = Len(chan[f]) - 1
      <4>1. \A s \in Seq(Msg) : s # <<>> => Len(Tail(s)) = Len(s) - 1 OBVIOUS
      <4> QED BY <1>4, <3>1, <3>2, <4>1
    <3>4. ~armed[e] /\ (wint[e] => ~(4 * (Len(chan[f]) - 1) <= SockCap))
      BY <1>4, <1>9, <2>4
    <3>5. wint[e] => ~Writable(e)'
      BY <1>1, <1>2, <2>1, <3>3, <3>4 DEF Writable
    <3>6. wint'[e] = wint[e] /\ conn'[e] = conn[e] /\ out'[e] = out[e] BY <1>1
    <3>7. Readable(e)' <=> Readable(e) BY <1>1, <1>5, <2>1 DEF Readable
    <3>8. ReadOK(e)' BY <1>1, <2>4, <3>4, <3>7 DEF IoOK, ReadOK, Handling, loopVars
    <3>9. WriteOK(e)' BY <1>1, <2>4, <3>5, <3>6 DEF IoOK, WriteOK, loopVars
    <3>10. RespOK(e)' BY <2>1 DEF IoOK, RespOK, StaysPut, Handling
    <3>11. BlockedOK(e)' BY <1>1, <3>5 DEF IoOK, BlockedOK, loopVars
    <3> QED BY <3>8, <3>9, <3>10, <3>11 DEF IoOK
  <2> QED BY <2>2, <2>3, <2>4
<1> QED BY <1>7, <1>8, <1>9

\* Frames put into the outbound buffer, or sent.
LEMMA IoFlush ==
  ASSUME LoopInv, LoopInv', NEW l \in Loops, FlushRequest(l) \/ FlushResponse(l),
         NEW e \in Ends, IoOK(e)
  PROVE  IoOK(e)'
<1> USE DEF LoopInv
<1> DEFINE f == cur[l].end
<1>1. /\ UNCHANGED <<conn, chan, wint, armed, loopVars>> /\ lpc[l] = "flush"
      /\ \E q : out' = [out EXCEPT ![f] = q]
      /\ resp' = resp \/ (f[2] = "server" /\ \E m : resp' = [resp EXCEPT ![f[1]] = m])
  BY DEF FlushRequest, FlushResponse
<1>2. f \in Ends /\ conn[f] = "open" /\ LoopOf[f] = l BY <1>1, HandledOwn DEF HandlingPcs
<1> HIDE DEF f
<1>3. \A g \in Ends : g # f => out'[g] = out[g] BY <1>1 DEF TypeOK
<1>4. CASE e = f
  <2>1. ReadOK(e)' BY <1>1, <1>4 DEF IoOK, ReadOK, Readable, Handling, loopVars
  <2>2. WriteOK(e)' BY <1>1, <1>2, <1>4 DEF WriteOK, loopVars, f
  <2>3. RespOK(e)' BY <1>1, <1>2, <1>4 DEF RespOK, Handling, loopVars, f
  <2>4. BlockedOK(e)' BY <1>1, <1>4 DEF IoOK, BlockedOK, Writable, loopVars
  <2> QED BY <2>1, <2>2, <2>3, <2>4 DEF IoOK
<1>5. CASE e # f
  <2>1. e[2] = "server" => resp'[e[1]] = resp[e[1]]
    <3>1. f[2] = "server" /\ e[2] = "server" => e[1] # f[1] BY <1>2, <1>5, EndsFacts
    <3> QED BY <1>1, <3>1, PeerFacts DEF TypeOK
  <2>2. StaysPut(e) BY <1>1, <1>3, <1>5, <2>1 DEF StaysPut, loopVars
  <2> QED BY <1>1, <2>2, IoSame
<1> QED BY <1>4, <1>5

LEMMA IoSend ==
  ASSUME LoopInv, LoopInv', NEW l \in Loops, SendFrame(l), NEW e \in Ends, IoOK(e)
  PROVE  IoOK(e)'
<1> USE DEF LoopInv
<1> DEFINE f == cur[l].end
<1>1. /\ UNCHANGED <<conn, wint, loopVars, resp>> /\ lpc[l] = "send"
      /\ out' = [out EXCEPT ![f] = Tail(@)]
      /\ \E q : chan' = [chan EXCEPT ![Peer(f)] = q]
      /\ armed' = [armed EXCEPT ![Peer(f)] = @ \/ conn[Peer(f)] = "open"]
  BY DEF SendFrame, handVars
<1>2. f \in Ends /\ conn[f] = "open" /\ LoopOf[f] = l BY <1>1, HandledOwn DEF HandlingPcs
<1> HIDE DEF f
<1>3. /\ \A g \in Ends : g # f => out'[g] = out[g]
      /\ \A g \in Ends : g # Peer(f) => chan'[g] = chan[g] /\ armed'[g] = armed[g]
      /\ armed'[Peer(f)] <=> armed[Peer(f)] \/ conn[Peer(f)] = "open"
  BY <1>1, <1>2, PeerFacts DEF TypeOK
<1>4. CASE e = f
  <2>1. chan'[e] = chan[e] /\ armed'[e] = armed[e] BY <1>2, <1>3, <1>4, PeerFacts
  <2>2. ReadOK(e)' BY <1>1, <1>4, <2>1 DEF IoOK, ReadOK, Readable, Handling, loopVars
  <2>3. WriteOK(e)' BY <1>1, <1>2, <1>4 DEF WriteOK, loopVars, f
  <2>4. RespOK(e)' BY <1>1, <1>4 DEF IoOK, RespOK, Handling, loopVars
  <2>5. BlockedOK(e)' BY <1>1, <1>2, <1>4 DEF IoOK, BlockedOK, loopVars, f
  <2> QED BY <2>2, <2>3, <2>4, <2>5 DEF IoOK
<1>5. CASE e # f
  <2>1. StaysPut(e) BY <1>1, <1>3, <1>5 DEF StaysPut, loopVars
  <2>2. CASE conn[e] # "open" BY <1>1, <2>2, IoClosed
  <2>3. CASE e = Peer(f) /\ conn[e] = "open" BY <1>1, <1>3, <2>1, <2>3, IoArmed
  <2>4. CASE e # Peer(f)
    <3>1. Peer(e) # Peer(f) BY <1>2, <1>5, PeerFacts
    <3> QED BY <1>1, <1>3, <2>1, <2>4, <3>1, PeerFacts, IoSame
  <2> QED BY <2>2, <2>3, <2>4
<1> QED BY <1>4, <1>5

\* A new connection has its edge if there is something to read already.
LEMMA IoAdd ==
  ASSUME LoopInv, LoopInv', NEW l \in Loops, AddConnection(l), NEW e \in Ends, IoOK(e)
  PROVE  IoOK(e)'
<1> USE DEF LoopInv
<1> DEFINE f == Head(lq[l]).end
<1>1. f \in Ends /\ conn[f] = "queued" /\ LoopOf[f] = l BY HeadRequest DEF AddConnection
<1>2. /\ conn' = [conn EXCEPT ![f] = "open"]
      /\ armed' = [armed EXCEPT ![f] = Readable(f)]
      /\ UNCHANGED <<chan, out, wint, resp, loopVars>>
  BY DEF AddConnection, handVars
<1> HIDE DEF f
<1>3. \A g \in Ends : conn'[g] = "closed" <=> conn[g] = "closed" BY <1>1, <1>2 DEF TypeOK
<1>4. CASE e # f
  <2>1. StaysPut(e) BY <1>2 DEF StaysPut, loopVars
  <2> QED BY <1>1, <1>2, <1>3, <1>4, <2>1, PeerFacts, IoSame DEF TypeOK
<1>5. CASE e = f
  <2>1. Readable(e)' = Readable(e) BY <1>2, <1>3, PeerFacts DEF Readable
  <2>2. armed'[e] = Readable(e) /\ out'[e] = <<>> /\ cur'[l].end # e
    <3>1. cur[l].end # e BY <1>1, <1>5, ConstantsAssumption DEF HandlerOK, OpenOn, Idle
    <3> QED BY <1>1, <1>2, <1>5, <3>1 DEF TypeOK, EmptyOK, loopVars
  <2>3. ReadOK(e)' BY <2>1, <2>2 DEF ReadOK
  <2>4. WriteOK(e)' BY <2>2 DEF WriteOK
  <2>5. RespOK(e)' BY <1>2 DEF IoOK, RespOK, Handling, loopVars
  <2>6. BlockedOK(e)' BY <1>1, <1>5, <2>2 DEF BlockedOK
  <2> QED BY <2>3, <2>4, <2>5, <2>6 DEF IoOK
<1> QED BY <1>4, <1>5

LEMMA IoStep ==
  ASSUME LoopInv, LoopInv', [Next]_vars, \A e \in Ends : IoOK(e)
  PROVE  \A e \in Ends : IoOK(e)'
<1> SUFFICES ASSUME NEW e \in Ends PROVE IoOK(e)'
  OBVIOUS
<1>0. IoOK(e) OBVIOUS
<1>1. CASE UNCHANGED vars
  BY <1>0, <1>1, IoSame DEF vars, endVars, handVars, loopVars, StaysPut
<1>2. ASSUME NEW t \in Threads, ThreadStep(t) \/ Begin(t) PROVE IoOK(e)'
  BY <1>0, <1>2, IoThread
<1>3. ASSUME NEW l \in Loops, LoopKind(l) PROVE IoOK(e)'
  <2>0. CASE SpuriousEvent(l) BY <1>0, <2>0, IoSpurious
  <2>1. CASE EventsDone(l) \/ SpuriousWake(l) \/ RequestsDone(l)
    <3>1. UNCHANGED <<endVars, resp, cur, batch>> /\ lpc[l] \notin HandlingPcs
      BY <2>1 DEF EventsDone, SpuriousWake, RequestsDone, PopRequest, handVars, loopVars, HandlingPcs
    <3>2. cur[l].end # e BY <3>1, IdleLoop
    <3>3. StaysPut(e) BY <1>0, <1>3, <3>1, <3>2, IoApart DEF endVars
    <3> QED BY <1>0, <3>1, <3>3, IoSame DEF endVars
  <2>2. CASE lpc[l] \in HandlingPcs /\ RemoveConnection(l)
    <3>1. CloseEnds({cur[l].end}) /\ batch' = batch /\ cur'[l].end \notin Ends
      BY <2>2, ConstantsAssumption DEF RemoveConnection, FinishHandling, Idle, LoopInv, TypeOK
    <3>2. LoopOf[e] \in Loops BY ConstantsAssumption
    <3>3. LoopOf[e] # l => cur'[LoopOf[e]] = cur[LoopOf[e]] /\ lpc'[LoopOf[e]] = lpc[LoopOf[e]]
      BY <1>3, <3>2, OtherLoops DEF LoopInv
    <3> QED BY <1>0, <3>1, <3>3, IoCloses
  <2>3. CASE AddConnectionFails(l)
    BY <1>0, <2>3, IoCloses DEF AddConnectionFails, loopVars
  <2>4. CASE lpc[l] \in {"poll", "requests"} /\ ExitLoop(l)
    <3>1. PICK S : CloseEnds(S) BY <2>4 DEF ExitLoop
    <3>2. UNCHANGED <<cur, batch>> /\ cur[l].end # e
      BY <2>4, IdleLoop DEF ExitLoop, HandlingPcs
    <3>3. LoopOf[e] \in Loops BY ConstantsAssumption
    <3>4. LoopOf[e] # l => lpc'[LoopOf[e]] = lpc[LoopOf[e]]
      BY <1>3, <3>3, OtherLoops DEF LoopInv
    <3> QED BY <1>0, <3>1, <3>2, <3>4, IoCloses
  <2> QED BY <1>0, <1>3, <2>0, <2>1, <2>2, <2>3, <2>4, IoPoll, IoHandle, IoWake, IoQuiet, IoFinish, IoRecv,
             IoFlush, IoSend, IoAdd DEF LoopKind
<1> QED BY <1>1, <1>2, <1>3, LoopKinds DEF Next

-----------------------------------------------------------------------------
(* Queues of loops and their wakers.                                        *)

LEMMA PushKeeps ==
  ASSUME TypeOK, NEW l \in Loops, NEW r \in Requests, PushTo(l, r)
  PROVE  /\ \A k \in Loops : \A i \in DOMAIN lq[k] : i \in DOMAIN lq'[k] /\ lq'[k][i] = lq[k][i]
         /\ \E i \in DOMAIN lq'[l] : lq'[l][i] = r
         /\ \A k \in Loops : k # l => lq'[k] = lq[k]
<1>1. /\ lq[l] \in Seq(Requests) /\ lq'[l] = PushBack(lq[l], r)
      /\ \A k \in Loops : k # l => lq'[k] = lq[k]
  BY DEF PushTo, PushBack, TypeOK
<1>2. \A q \in Seq(Requests) :
        /\ \A i \in DOMAIN q : i \in DOMAIN PushBack(q, r) /\ PushBack(q, r)[i] = q[i]
        /\ \E i \in DOMAIN PushBack(q, r) : PushBack(q, r)[i] = r
  <2>1. \A q \in Seq(Requests) :
          /\ \A i \in DOMAIN q : i \in DOMAIN Append(q, r) /\ Append(q, r)[i] = q[i]
          /\ Len(q) + 1 \in DOMAIN Append(q, r) /\ Append(q, r)[Len(q) + 1] = r
    OBVIOUS
  <2> QED BY <2>1 DEF PushBack
<1> QED BY <1>1, <1>2

\* A loop goes to sleep only on an empty queue.
LEMMA SleepsEmpty ==
  ASSUME LoopInv, NEW l \in Loops, LoopKind(l), lpc'[l] = "poll"
  PROVE  lq'[l] = <<>>
<1> USE DEF LoopInv
<1>1. CASE Poll(l) \/ HandleEvent(l) \/ SpuriousEvent(l) \/ EventsDone(l) \/ WakeConnection(l)
  BY <1>1 DEF Poll, HandleEvent, SpuriousEvent, EventsDone, WakeConnection, TypeOK
<1>2. CASE RecvResponse(l) \/ RecvRequest(l) \/ FlushRequest(l) \/ FlushResponse(l) \/ SendFrame(l)
  BY <1>2 DEF RecvResponse, RecvRequest, FlushRequest, FlushResponse, SendFrame, loopVars
<1>3. CASE RecvDone(l) \/ FlushDone(l) \/ SendBlocks(l)
  BY <1>3 DEF RecvDone, FlushDone, SendBlocks, TypeOK
<1>4. CASE SetWritable(l) \/ SendDone(l) \/ RemoveConnection(l)
  BY <1>4 DEF SetWritable, SendDone, RemoveConnection, FinishHandling, Resume, TypeOK
<1>5. CASE AddConnection(l) \/ AddConnectionFails(l) \/ SpuriousWake(l)
  BY <1>5 DEF AddConnection, AddConnectionFails, SpuriousWake, PopRequest, loopVars
<1>6. CASE ExitLoop(l) BY <1>6 DEF ExitLoop, TypeOK
<1>7. CASE RequestsDone(l) BY <1>7 DEF RequestsDone
<1> QED BY <1>1, <1>2, <1>3, <1>4, <1>5, <1>6, <1>7 DEF LoopKind

\* What a loop's step leaves of threads and of other loops' wakers.
LEMMA LoopAlone ==
  ASSUME LoopInv, NEW l \in Loops, LoopKind(l)
  PROVE  /\ UNCHANGED <<pc, tgt, proxies, histVars>>
         /\ \A k \in Loops : k # l => waker'[k] = waker[k]
<1>1. CASE \/ Poll(l) \/ HandleEvent(l) \/ SpuriousEvent(l) \/ EventsDone(l) \/ RecvResponse(l) \/ RecvRequest(l)
           \/ RecvDone(l) \/ FlushRequest(l) \/ FlushResponse(l) \/ FlushDone(l) \/ SendFrame(l)
           \/ SendBlocks(l) \/ SetWritable(l) \/ SendDone(l)
  BY <1>1 DEF Poll, HandleEvent, SpuriousEvent, EventsDone, RecvResponse, RecvRequest, RecvDone, FlushRequest,
     FlushResponse, FlushDone, SendFrame, SendBlocks, SetWritable, SendDone, threadVars, LoopInv, TypeOK
<1>2. CASE \/ RemoveConnection(l) \/ AddConnection(l) \/ AddConnectionFails(l) \/ WakeConnection(l)
           \/ SpuriousWake(l) \/ RequestsDone(l)
  BY <1>2 DEF RemoveConnection, AddConnection, AddConnectionFails, WakeConnection, SpuriousWake,
     RequestsDone, threadVars
<1>3. CASE ExitLoop(l) BY <1>3 DEF ExitLoop, LoopInv, TypeOK
<1> QED BY <1>1, <1>2, <1>3 DEF LoopKind

\* What a thread's step does to the queues, the wakers and itself.
LEMMA ThreadKicks ==
  ASSUME LoopInv, NEW t \in Threads, ThreadStep(t) \/ Begin(t)
  PROVE  /\ \A u \in Threads : u # t => pc'[u] = pc[u] /\ tgt'[u] = tgt[u]
         /\ \/ lq' = lq /\ waker' = waker /\ pc[t] \notin KickPcs
            \/ waker' = waker /\ pc[t] \notin KickPcs /\ pc'[t] \in KickPcs
               /\ \E r \in Requests : PushTo(TargetLoop(t)', r)
               /\ TargetLoop(t)' \in Loops
            \/ lq' = lq /\ waker' = [waker EXCEPT ![TargetLoop(t)] = TRUE] /\ TargetLoop(t) \in Loops
            \/ UNCHANGED <<pc, tgt, lq, waker>>
<1> USE DEF LoopInv
<1>0. \A e \in Ends : e \notin Loops BY ConstantsAssumption
<1>1. CASE Kick(t)
  <2>1. TargetLoop(t) \in Loops
    BY <1>1, ConstantsAssumption DEF Kick, KickPcs, TargetOK, EndPcs, TargetLoop
  <2> QED BY <1>1, <2>1 DEF Kick, TypeOK
<1>2. CASE Wake(t)
  <2>1. /\ tgt[t] \in Ends /\ tgt' = tgt /\ waker' = waker
        /\ pc[t] \in {"callWake", "dropWake"}
        /\ \E p \in {"callKick", "dropKick"} : pc' = [pc EXCEPT ![t] = p]
        /\ PushTo(LoopOf[tgt[t]], WakeReq(tok[tgt[t]]))
    BY <1>2 DEF Wake, TargetOK, EndPcs
  <2>2. TargetLoop(t)' = LoopOf[tgt[t]] BY <1>0, <2>1 DEF TargetLoop
  <2>3. WakeReq(tok[tgt[t]]) \in Requests /\ LoopOf[tgt[t]] \in Loops
    BY <2>1, RequestTypes, ConstantsAssumption DEF TypeOK
  <2>4. pc'[t] \in KickPcs /\ pc[t] \notin KickPcs /\ \A u \in Threads : u # t => pc'[u] = pc[u]
    BY <2>1 DEF KickPcs, TypeOK
  <2> QED BY <2>1, <2>2, <2>3, <2>4
<1>3. CASE WakeDropped(t) \/ BindReturn(t) \/ CallReturn(t) \/ DropRelease(t) \/ Join(t)
  BY <1>3 DEF WakeDropped, BindReturn, CallReturn, DropRelease, Join, KickPcs, TypeOK
<1>4. ASSUME NEW e \in Ends, BindFails(t, e) PROVE UNCHANGED <<pc, tgt, lq, waker>>
  BY <1>4 DEF BindFails, threadVars
<1>5. ASSUME NEW e \in Ends, NEW sync \in BOOLEAN, Bind(t, e, sync)
      PROVE  /\ \A u \in Threads : u # t => pc'[u] = pc[u] /\ tgt'[u] = tgt[u]
             /\ waker' = waker /\ pc[t] \notin KickPcs /\ pc'[t] \in KickPcs
             /\ \E r \in Requests : PushTo(TargetLoop(t)', r)
             /\ TargetLoop(t)' \in Loops
  <2>1. /\ pc[t] = "idle" /\ waker' = waker /\ tgt' = [tgt EXCEPT ![t] = e]
        /\ pc' = [pc EXCEPT ![t] = IF sync THEN "bindKick" ELSE "asyncKick"]
        /\ PushTo(LoopOf[e], AddReq(e, IF sync THEN t ELSE None))
    BY <1>5 DEF Bind
  <2>2. tgt'[t] = e /\ \A u \in Threads : u # t => tgt'[u] = tgt[u] BY <2>1 DEF TypeOK
  <2>3. TargetLoop(t)' = LoopOf[e] BY <1>0, <2>2 DEF TargetLoop
  <2>4. AddReq(e, IF sync THEN t ELSE None) \in Requests /\ LoopOf[e] \in Loops
    BY RequestTypes, ConstantsAssumption
  <2>5. pc'[t] \in KickPcs /\ pc[t] \notin KickPcs /\ \A u \in Threads : u # t => pc'[u] = pc[u]
    BY <2>1 DEF KickPcs, TypeOK
  <2> QED BY <2>1, <2>2, <2>3, <2>4, <2>5
<1>6. ASSUME NEW l \in Stoppable, Stop(t, l)
      PROVE  /\ \A u \in Threads : u # t => pc'[u] = pc[u] /\ tgt'[u] = tgt[u]
             /\ waker' = waker /\ pc[t] \notin KickPcs
             /\ \/ lq' = lq
                \/ /\ pc'[t] \in KickPcs
                   /\ \E r \in Requests : PushTo(TargetLoop(t)', r)
                   /\ TargetLoop(t)' \in Loops
  <2>1. /\ pc[t] = "idle" /\ waker' = waker /\ tgt' = [tgt EXCEPT ![t] = l]
        /\ \E p : pc' = [pc EXCEPT ![t] = p]
        /\ lq' = lq \/ (pc' = [pc EXCEPT ![t] = "stopKick"] /\ PushTo(l, StopReq))
    BY <1>6 DEF Stop
  <2>2. tgt'[t] = l /\ \A u \in Threads : u # t => tgt'[u] = tgt[u] /\ pc'[u] = pc[u]
    BY <2>1 DEF TypeOK
  <2>3. l \in Loops /\ StopReq \in Requests BY ConstantsAssumption, RequestTypes
  <2>4. TargetLoop(t)' = l BY <2>2, <2>3 DEF TargetLoop
  <2>5. pc[t] \notin KickPcs /\ (lq' = lq \/ (pc'[t] \in KickPcs /\ PushTo(l, StopReq)))
    BY <2>1 DEF KickPcs, TypeOK
  <2> QED BY <2>1, <2>2, <2>3, <2>4, <2>5
<1>7. ASSUME NEW c \in Conns, \/ Call(t, c) \/ CallFails(t, c) \/ DropRead(t, c)
                              \/ \E u \in Threads : Clone(t, u, c)
      PROVE  /\ \A u \in Threads : u # t => pc'[u] = pc[u] /\ tgt'[u] = tgt[u]
             /\ lq' = lq /\ waker' = waker /\ pc[t] \notin KickPcs
  BY <1>7 DEF Call, CallFails, DropRead, Clone, threadVars, KickPcs, TypeOK
<1> QED BY <1>1, <1>2, <1>3, <1>4, <1>5, <1>6, <1>7 DEF ThreadStep, Begin

LEMMA SleepStep ==
  ASSUME LoopInv, NoSleepingLoop, [Next]_vars
  PROVE  NoSleepingLoop'
<1> USE DEF LoopInv
<1>1. CASE UNCHANGED vars
  BY <1>1 DEF vars, threadVars, loopVars, NoSleepingLoop, TargetLoop
<1>2. ASSUME NEW t \in Threads, ThreadStep(t) \/ Begin(t) PROVE NoSleepingLoop'
  <2>1. lpc' = lpc BY <1>2, ThreadQueues DEF loopVars
  <2>2. \A u \in Threads : u # t => pc'[u] = pc[u] /\ tgt'[u] = tgt[u] BY <1>2, ThreadKicks
  <2>3. \A u \in Threads : u # t => TargetLoop(u)' = TargetLoop(u) BY <2>2 DEF TargetLoop
  <2>4. CASE lq' = lq /\ waker' = waker /\ pc[t] \notin KickPcs
    BY <2>1, <2>2, <2>3, <2>4 DEF NoSleepingLoop
  <2>5. CASE waker' = waker /\ pc[t] \notin KickPcs /\ pc'[t] \in KickPcs
             /\ \E r \in Requests : PushTo(TargetLoop(t)', r)
             /\ TargetLoop(t)' \in Loops
    <3>1. \A k \in Loops : k # TargetLoop(t)' => lq'[k] = lq[k] BY <2>5, PushKeeps
    <3> QED BY <2>1, <2>2, <2>3, <2>5, <3>1 DEF NoSleepingLoop
  <2>6. CASE lq' = lq /\ waker' = [waker EXCEPT ![TargetLoop(t)] = TRUE] /\ TargetLoop(t) \in Loops
    <3> SUFFICES ASSUME NEW k \in Loops, lq'[k] # <<>>, lpc'[k] = "poll"
                 PROVE  waker'[k] \/ \E u \in Threads : pc'[u] \in KickPcs /\ TargetLoop(u)' = k
      BY DEF NoSleepingLoop
    <3>1. CASE TargetLoop(t) = k
      <4>1. waker'[k] = TRUE BY <2>6, <3>1 DEF TypeOK
      <4> QED BY <4>1
    <3>2. CASE TargetLoop(t) # k
      <4>1. waker'[k] = waker[k] BY <2>6, <3>2 DEF TypeOK
      <4>2. waker[k] \/ \E u \in Threads : pc[u] \in KickPcs /\ TargetLoop(u) = k
        BY <2>1, <2>6 DEF NoSleepingLoop
      <4> QED BY <2>2, <2>3, <3>2, <4>1, <4>2
    <3> QED BY <3>1, <3>2
  <2>7. CASE UNCHANGED <<pc, tgt, lq, waker>>
    BY <2>1, <2>7 DEF NoSleepingLoop, TargetLoop
  <2> QED BY <1>2, <2>4, <2>5, <2>6, <2>7, ThreadKicks
<1>3. ASSUME NEW l \in Loops, LoopKind(l) PROVE NoSleepingLoop'
  <2>1. \A k \in Loops : k # l => lpc'[k] = lpc[k] /\ lq'[k] = lq[k] /\ waker'[k] = waker[k]
    BY <1>3, OtherLoops, LoopAlone
  <2>2. lpc'[l] = "poll" => lq'[l] = <<>> BY <1>3, SleepsEmpty
  <2>3. UNCHANGED <<pc, tgt>> BY <1>3, LoopAlone
  <2> QED BY <2>1, <2>2, <2>3 DEF NoSleepingLoop, TargetLoop
<1> QED BY <1>1, <1>2, <1>3, LoopKinds DEF Next

-----------------------------------------------------------------------------
(* Wakes.                                                                   *)

\* The ClientHandler of c has something to do, which it should hear of.
NeedsWake(c) ==
  /\ conn[ClientEnd(c)] = "open"
  /\ c \notin lostWake
  /\ reqs[c] # <<>> \/ (proxies[c] = {} /\ c \notin staleDrop)

\* It is about to hear of it: from a thread, or from its loop.
ThreadWakes(c) ==
  \E t \in Threads : pc[t] \in {"callWake", "dropWake"} /\ tgt[t] = ClientEnd(c)
WakeQueued(c) ==
  LET l == LoopOf[ClientEnd(c)] IN
  \E i \in DOMAIN lq[l] : lq[l][i] = WakeReq(tok[ClientEnd(c)])
InHand(c) ==
  LET l == LoopOf[ClientEnd(c)] IN
  HasEvent(l, ClientEnd(c)) \/ Handling(l, ClientEnd(c), {"recv", "flush"})

WakeOK(c) == NeedsWake(c) => ThreadWakes(c) \/ WakeQueued(c) \/ InHand(c)

LEMMA WakeEach == NoLostWake <=> \A c \in Conns : WakeOK(c)
BY DEF NoLostWake, WakeOK, NeedsWake, ThreadWakes, WakeQueued, InHand

\* A step of a thread leaves what a loop has in hand or in its queue.
LEMMA WakeThreadFrame ==
  ASSUME LoopInv, NEW t \in Threads, ThreadStep(t) \/ Begin(t), NEW c \in Conns,
         conn[ClientEnd(c)] = "open"
  PROVE  /\ tok' = tok
         /\ WakeQueued(c) => WakeQueued(c)'
         /\ InHand(c) => InHand(c)'
<1> USE DEF LoopInv
<1>1. UNCHANGED loopVars BY ThreadQueues
<1>2. tok' = tok
  BY DEF ThreadStep, Begin, Kick, Wake, WakeDropped, BindReturn, CallReturn, DropRelease, Join,
     BindFails, Bind, Stop, Call, CallFails, DropRead, Clone, endVars
<1>3. \A k \in Loops : \A i \in DOMAIN lq[k] : i \in DOMAIN lq'[k] /\ lq'[k][i] = lq[k][i]
  BY ThreadQueues, PushKeeps
<1>4. LoopOf[ClientEnd(c)] \in Loops BY ConstantsAssumption, EndsFacts
<1> QED BY <1>1, <1>2, <1>3, <1>4 DEF WakeQueued, InHand, HasEvent, Handling, loopVars

\* A step of a thread that asks for nothing on c and wakes nobody.
LEMMA WakeFrame ==
  ASSUME LoopInv, NEW t \in Threads, ThreadStep(t) \/ Begin(t), NEW c \in Conns, WakeOK(c),
         conn'[ClientEnd(c)] = "open" => conn[ClientEnd(c)] = "open",
         lostWake \subseteq lostWake', staleDrop \subseteq staleDrop',
         reqs'[c] # <<>> => reqs[c] # <<>>,
         proxies'[c] = {} => proxies[c] = {},
         pc[t] \in {"callWake", "dropWake"} => tgt[t] # ClientEnd(c)
  PROVE  WakeOK(c)'
<1>1. NeedsWake(c)' => NeedsWake(c) BY DEF NeedsWake
<1>2. ThreadWakes(c) => ThreadWakes(c)'
  <2>1. \A u \in Threads : u # t => pc'[u] = pc[u] /\ tgt'[u] = tgt[u] BY ThreadKicks
  <2> QED BY <2>1 DEF ThreadWakes
<1>3. NeedsWake(c) => (WakeQueued(c) => WakeQueued(c)') /\ (InHand(c) => InHand(c)')
  BY WakeThreadFrame DEF NeedsWake
<1> QED BY <1>1, <1>2, <1>3 DEF WakeOK

LEMMA WakeThreadStep ==
  ASSUME LoopInv, ExitedOK, BindOK, DropOK, NEW t \in Threads, ThreadStep(t),
         NEW c \in Conns, WakeOK(c)
  PROVE  WakeOK(c)'
<1> USE DEF LoopInv
<1> DEFINE e == ClientEnd(c)
<1>0. e \in Ends /\ LoopOf[e] \in Loops BY EndsFacts, ConstantsAssumption
<1>1. CASE Kick(t) \/ CallReturn(t) \/ Join(t)
  BY <1>1, WakeFrame DEF Kick, CallReturn, Join, KickPcs, endVars, handVars, histVars
<1>2. CASE Wake(t)
  <2>1. CASE tgt[t] = e
    <3>1. WakeReq(tok[e]) \in Requests BY <1>0, RequestTypes DEF TypeOK
    <3>2. PushTo(LoopOf[e], WakeReq(tok[e])) /\ tok' = tok BY <1>2, <2>1 DEF Wake, endVars
    <3>3. WakeQueued(c)' BY <1>0, <3>1, <3>2, PushKeeps DEF WakeQueued
    <3> QED BY <3>3 DEF WakeOK
  <2>2. CASE tgt[t] # e
    BY <1>2, <2>2, WakeFrame DEF Wake, endVars, handVars, histVars
  <2> QED BY <2>1, <2>2
<1>3. CASE WakeDropped(t)
  <2>1. /\ UNCHANGED <<conn, reqs, proxies, staleDrop>>
        /\ lostWake' = IF LoopGone(LoopOf[tgt[t]]) THEN lostWake ELSE lostWake \cup {tgt[t][1]}
    BY <1>3 DEF WakeDropped, endVars, handVars
  <2>2. CASE tgt[t] = e
    <3>1. tgt[t][1] = c BY <2>2 DEF ClientEnd
    <3>2. LoopGone(LoopOf[e]) => conn[e] # "open"
      BY <1>0 DEF LoopGone, ExitedOK, OpenOn
    <3> QED BY <2>1, <2>2, <3>1, <3>2 DEF WakeOK, NeedsWake
  <2>3. CASE tgt[t] # e
    BY <1>3, <2>1, <2>3, WakeFrame
  <2> QED BY <2>2, <2>3
<1>4. CASE BindReturn(t)
  <2>1. UNCHANGED <<conn, reqs, histVars>> /\ pc[t] = "bindWait"
    BY <1>4 DEF BindReturn, endVars, handVars
  <2>2. CASE proxies'[c] = proxies[c]
    BY <1>4, <2>1, <2>2, WakeFrame DEF histVars
  <2>3. CASE proxies'[c] # proxies[c]
    <3>1. reply[t] = "err" /\ tgt[t][2] = "client" /\ tgt[t] \in Ends
      BY <1>4, <2>3 DEF BindReturn, TargetOK, EndPcs
    <3>2. tgt[t] = ClientEnd(tgt[t][1]) /\ tgt[t][1] \in Conns BY <3>1, EndsFacts
    <3>3. proxies' = [proxies EXCEPT ![tgt[t][1]] = @ \ {t}] BY <1>4, <3>1 DEF BindReturn
    <3>4. tgt[t][1] = c BY <2>3, <3>2, <3>3 DEF TypeOK
    <3>5. conn[e] = "closed" BY <3>1, <3>2, <3>4 DEF BindOK, ReplyOK
    <3> QED BY <2>1, <3>5 DEF WakeOK, NeedsWake
  <2> QED BY <2>2, <2>3
<1>5. CASE DropRelease(t)
  <2> DEFINE d == tgt[t][1]
  <2>1. /\ UNCHANGED <<conn, reqs, lostWake>> /\ pc[t] = "dropRelease"
        /\ proxies' = [proxies EXCEPT ![d] = @ \ {t}]
        /\ staleDrop' = IF seen[t] = Cardinality(proxies[d]) THEN staleDrop ELSE staleDrop \cup {d}
        /\ pc' = [pc EXCEPT ![t] = IF seen[t] = 1 THEN "dropWake" ELSE "idle"]
        /\ tgt' = [tgt EXCEPT ![t] = IF seen[t] = 1 THEN @ ELSE None]
    BY <1>5 DEF DropRelease, endVars, handVars
  <2>2. tgt[t] \in Ends /\ tgt[t] = ClientEnd(d) /\ d \in Conns
    BY <2>1, EndsFacts DEF DropOK, TargetOK, EndPcs
  <2>3. staleDrop \subseteq staleDrop' BY <2>1
  <2>4. CASE proxies'[c] = {} => proxies[c] = {}
    BY <1>5, <2>1, <2>3, <2>4, WakeFrame
  <2>5. CASE proxies'[c] = {} /\ proxies[c] # {}
    <3>1. d = c BY <2>1, <2>2, <2>5 DEF TypeOK
    <3>2. proxies[c] = {t} BY <2>1, <2>2, <2>5, <3>1 DEF TypeOK
    <3>3. Cardinality(proxies[c]) = 1 BY <3>2, FS_Singleton
    <3>4. CASE seen[t] = 1
      <4>1. pc'[t] = "dropWake" /\ tgt'[t] = e BY <2>1, <2>2, <3>1, <3>4 DEF TypeOK
      <4>2. ThreadWakes(c)' BY <4>1 DEF ThreadWakes
      <4> QED BY <4>2 DEF WakeOK
    <3>5. CASE seen[t] # 1
      <4>1. c \in staleDrop' BY <2>1, <3>1, <3>3, <3>5
      <4>2. NeedsWake(c)' => NeedsWake(c) BY <2>1, <4>1 DEF NeedsWake
      <4>3. ThreadWakes(c) => ThreadWakes(c)'
        <5>1. \A u \in Threads : u # t => pc'[u] = pc[u] /\ tgt'[u] = tgt[u] BY <1>5, ThreadKicks
        <5> QED BY <2>1, <5>1 DEF ThreadWakes
      <4>4. NeedsWake(c) => (WakeQueued(c) => WakeQueued(c)') /\ (InHand(c) => InHand(c)')
        BY <1>5, WakeThreadFrame DEF NeedsWake
      <4> QED BY <4>2, <4>3, <4>4 DEF WakeOK
    <3> QED BY <3>4, <3>5
  <2> QED BY <2>4, <2>5
<1> QED BY <1>1, <1>2, <1>3, <1>4, <1>5 DEF ThreadStep

LEMMA WakeBegin ==
  ASSUME LoopInv, NEW t \in Threads, Begin(t), NEW c \in Conns, WakeOK(c)
  PROVE  WakeOK(c)'
<1> USE DEF LoopInv
<1> DEFINE e == ClientEnd(c)
<1>0. e \in Ends BY EndsFacts
<1>1. ASSUME NEW f \in Ends, BindFails(t, f) PROVE WakeOK(c)'
  BY <1>0, <1>1, WakeFrame DEF BindFails, CloseEnds, histVars
<1>2. ASSUME NEW f \in Ends, NEW sync \in BOOLEAN, Bind(t, f, sync) PROVE WakeOK(c)'
  <2>1. /\ pc[t] = "idle" /\ conn[f] = "unbound" /\ UNCHANGED <<reqs, histVars>>
        /\ conn' = [conn EXCEPT ![f] = "queued"]
        /\ proxies' = IF f[2] = "client" THEN [proxies EXCEPT ![f[1]] = {t}] ELSE proxies
    BY <1>2 DEF Bind, handVars
  <2>2. proxies'[c] = {} => proxies[c] = {} BY <2>1, EndsFacts DEF TypeOK
  <2>3. conn'[e] = "open" => conn[e] = "open" BY <1>0, <2>1 DEF TypeOK
  <2> QED BY <1>2, <2>1, <2>2, <2>3, WakeFrame DEF histVars
<1>3. ASSUME NEW l \in Stoppable, Stop(t, l) PROVE WakeOK(c)'
  BY <1>3, WakeFrame DEF Stop, endVars, handVars, histVars
<1>4. ASSUME NEW d \in Conns, Call(t, d) PROVE WakeOK(c)'
  <2>1. /\ UNCHANGED <<conn, proxies, histVars>> /\ pc[t] = "idle"
        /\ \E q : reqs' = [reqs EXCEPT ![d] = q]
        /\ pc' = [pc EXCEPT ![t] = "callWake"] /\ tgt' = [tgt EXCEPT ![t] = ClientEnd(d)]
    BY <1>4 DEF Call, endVars
  <2>2. CASE d = c
    <3>1. pc'[t] = "callWake" /\ tgt'[t] = e BY <2>1, <2>2 DEF TypeOK
    <3> QED BY <3>1 DEF WakeOK, ThreadWakes
  <2>3. CASE d # c
    <3>1. reqs'[c] = reqs[c] BY <2>1, <2>3 DEF TypeOK
    <3> QED BY <1>4, <2>1, <3>1, WakeFrame DEF histVars
  <2> QED BY <2>2, <2>3
<1>5. ASSUME NEW d \in Conns, CallFails(t, d) \/ DropRead(t, d) PROVE WakeOK(c)'
  BY <1>5, WakeFrame DEF CallFails, DropRead, endVars, handVars, histVars
<1>6. ASSUME NEW d \in Conns, NEW u \in Threads, Clone(t, u, d) PROVE WakeOK(c)'
  <2>1. proxies[c] \subseteq proxies'[c] BY <1>6 DEF Clone, TypeOK
  <2>2. UNCHANGED <<conn, reqs, histVars>> /\ pc[t] = "idle" BY <1>6 DEF Clone, endVars, handVars
  <2>3. proxies'[c] = {} => proxies[c] = {} BY <2>1
  <2> QED BY <1>6, <2>2, <2>3, WakeFrame DEF histVars
<1> QED BY <1>1, <1>2, <1>3, <1>4, <1>5, <1>6 DEF Begin

\* A step of a loop on which the ClientHandler of c is not due to be flushed,
\* or which leaves it where it was.
LEMMA WakeLoopFrame ==
  ASSUME LoopInv, NEW l \in Loops, LoopKind(l), NEW c \in Conns, WakeOK(c),
         conn'[ClientEnd(c)] = "open" => conn[ClientEnd(c)] = "open",
         reqs'[c] # <<>> => reqs[c] # <<>>,
         NeedsWake(c) => /\ WakeQueued(c) => WakeQueued(c)' \/ InHand(c)'
                         /\ InHand(c) => InHand(c)'
  PROVE  WakeOK(c)'
<1>1. UNCHANGED <<pc, tgt, proxies, histVars>> BY LoopAlone
<1>2. NeedsWake(c)' => NeedsWake(c) BY <1>1 DEF NeedsWake, histVars
<1>3. ThreadWakes(c) => ThreadWakes(c)' BY <1>1 DEF ThreadWakes
<1> QED BY <1>2, <1>3 DEF WakeOK

\* Taking a request that wakes another connection, or none, off the queue.
LEMMA PopWakes ==
  ASSUME TypeOK, NEW l \in Loops, lq[l] # <<>>, lq' = [lq EXCEPT ![l] = Tail(@)],
         NEW c \in Conns, LoopOf[ClientEnd(c)] = l, tok'[ClientEnd(c)] = tok[ClientEnd(c)],
         Head(lq[l]) # WakeReq(tok[ClientEnd(c)]), WakeQueued(c)
  PROVE  WakeQueued(c)'
<1> DEFINE r == WakeReq(tok[ClientEnd(c)])
<1>1. lq[l] \in Seq(Requests) /\ lq'[l] = Tail(lq[l]) BY DEF TypeOK
<1>2. r \in Range(lq[l]) BY DEF WakeQueued, Range
<1>3. r' = r BY DEF WakeReq
<1> HIDE DEF r
<1>4. r \in Range(Tail(lq[l])) BY <1>1, <1>2, RangeOfTail DEF r
<1>5. \E j \in DOMAIN lq'[l] : lq'[l][j] = r BY <1>1, <1>4 DEF Range
<1> QED BY <1>3, <1>5 DEF WakeQueued, r

LEMMA WakeOther ==
  ASSUME LoopInv, NEW l \in Loops, LoopKind(l), NEW c \in Conns, WakeOK(c),
         LoopOf[ClientEnd(c)] # l
  PROVE  WakeOK(c)'
<1> USE DEF LoopInv
<1> DEFINE e == ClientEnd(c)
           k == LoopOf[e]
<1>1. e \in Ends /\ k \in Loops BY EndsFacts, ConstantsAssumption
<1>2. lpc'[k] = lpc[k] /\ cur'[k] = cur[k] /\ batch'[k] = batch[k] /\ lq'[k] = lq[k]
  BY <1>1, OtherLoops
<1>3. /\ conn'[e] = "open" => conn[e] = "open"
      /\ tok'[e] = tok[e]
  <2>1. CASE AddConnection(l)
    <3>1. Head(lq[l]).end \in Ends /\ LoopOf[Head(lq[l]).end] = l BY <2>1, HeadRequest DEF AddConnection
    <3> QED BY <1>1, <2>1, <3>1 DEF AddConnection, TypeOK
  <2>2. CASE ~AddConnection(l)
    <3>1. CASE AddConnectionFails(l) \/ RemoveConnection(l) \/ ExitLoop(l)
      BY <1>1, <3>1 DEF AddConnectionFails, RemoveConnection, ExitLoop, CloseEnds
    <3>2. CASE ~(AddConnectionFails(l) \/ RemoveConnection(l) \/ ExitLoop(l))
      <4>1. UNCHANGED <<tok, conn>>
        BY <2>2, <3>2 DEF LoopKind, Poll, HandleEvent, SpuriousEvent, EventsDone, RecvResponse, RecvRequest, RecvDone,
           FlushRequest, FlushResponse, FlushDone, SendFrame, SendBlocks, SetWritable, SendDone,
           WakeConnection, SpuriousWake, RequestsDone, endVars
      <4> QED BY <4>1
    <3> QED BY <3>1, <3>2
  <2> QED BY <2>1, <2>2
<1>4. reqs'[c] # <<>> => reqs[c] # <<>>
  <2>1. CASE FlushRequest(l)
    <3>1. cur[l].end \in Ends /\ LoopOf[cur[l].end] = l /\ cur[l].end[2] = "client"
      BY <2>1, HandledOwn DEF FlushRequest, HandlingPcs
    <3>2. cur[l].end[1] # c /\ cur[l].end[1] \in Conns BY <3>1, EndsFacts
    <3> QED BY <2>1, <3>2 DEF FlushRequest, TypeOK
  <2>2. CASE AddConnectionFails(l) \/ RemoveConnection(l) \/ ExitLoop(l)
    BY <2>2 DEF AddConnectionFails, RemoveConnection, ExitLoop, CloseEnds
  <2>3. CASE ~(FlushRequest(l) \/ AddConnectionFails(l) \/ RemoveConnection(l) \/ ExitLoop(l))
    <3>1. reqs' = reqs
      BY <2>3 DEF LoopKind, Poll, HandleEvent, SpuriousEvent, EventsDone, RecvResponse, RecvRequest, RecvDone,
         FlushResponse, FlushDone, SendFrame, SendBlocks, SetWritable, SendDone, AddConnection,
         WakeConnection, SpuriousWake, RequestsDone, handVars
    <3> QED BY <3>1
  <2> QED BY <2>1, <2>2, <2>3
<1> HIDE DEF k
<1>5. (WakeQueued(c) => WakeQueued(c)') /\ (InHand(c) => InHand(c)')
  BY <1>2, <1>3 DEF WakeQueued, InHand, HasEvent, Handling, k
<1> QED BY <1>3, <1>4, <1>5, WakeLoopFrame

LEMMA WakeOwn ==
  ASSUME LoopInv, TokensOK, BindOK, NEW l \in Loops, LoopKind(l), NEW c \in Conns, WakeOK(c),
         LoopOf[ClientEnd(c)] = l
  PROVE  WakeOK(c)'
<1> USE DEF LoopInv
<1> DEFINE e == ClientEnd(c)
<1>1. e \in Ends /\ e[2] = "client" /\ e[1] = c BY EndsFacts DEF ClientEnd
<1> USE DEF WakeQueued, InHand, HasEvent, Handling
<1>2. CASE Poll(l)
  <2>1. UNCHANGED <<conn, tok, reqs, lq>> /\ batch[l] = {} /\ lpc[l] = "poll"
    BY <1>2 DEF Poll, HandlerOK, handVars
  <2> QED BY <1>2, <2>1, WakeLoopFrame
<1>3. CASE HandleEvent(l)
  <2>1. PICK ev \in batch[l] :
           /\ batch' = [batch EXCEPT ![l] = @ \ {ev}]
           /\ cur' = [cur EXCEPT ![l] = [end |-> ev.end, wake |-> FALSE, eof |-> FALSE]]
           /\ lpc' = [lpc EXCEPT ![l] = IF ev.readable THEN "recv" ELSE "flush"]
    BY <1>3, HandlesOwn
  <2>2. UNCHANGED <<conn, tok, reqs, lq>> /\ lpc[l] = "events" BY <1>3 DEF HandleEvent, endVars, handVars
  <2>3. batch'[l] = batch[l] \ {ev} /\ cur'[l].end = ev.end /\ lpc'[l] \in {"recv", "flush"}
    BY <2>1 DEF TypeOK
  <2> QED BY <1>3, <2>2, <2>3, WakeLoopFrame
<1>4. CASE EventsDone(l) \/ RequestsDone(l)
  BY <1>4, WakeLoopFrame DEF EventsDone, RequestsDone, endVars, handVars
<1>5. CASE RecvResponse(l) \/ RecvRequest(l) \/ FlushResponse(l) \/ SendFrame(l)
  BY <1>5, WakeLoopFrame DEF RecvResponse, RecvRequest, FlushResponse, SendFrame, loopVars, handVars
<1>6. CASE FlushRequest(l)
  <2>1. UNCHANGED <<conn, tok, lq, loopVars>> BY <1>6 DEF FlushRequest
  <2>2. reqs'[c] # <<>> => reqs[c] # <<>>
    <3>1. cur[l].end[1] \in Conns /\ reqs[cur[l].end[1]] # <<>>
      BY <1>6, HandledOwn DEF FlushRequest, HandlingPcs
    <3> QED BY <1>6, <3>1 DEF FlushRequest, TypeOK
  <2> QED BY <1>6, <2>1, <2>2, WakeLoopFrame DEF loopVars
<1>7. CASE RecvDone(l) \/ SendBlocks(l)
  <2>1. UNCHANGED <<conn, tok, reqs, lq, batch>>
    BY <1>7 DEF RecvDone, SendBlocks, endVars, handVars
  <2>2. CASE RecvDone(l)
    <3>1. lpc'[l] = "flush" BY <2>2 DEF RecvDone, TypeOK
    <3>2. cur'[l].end = cur[l].end
      <4>1. cur \in [Loops -> [end : Ends \cup {None}, wake : BOOLEAN, eof : BOOLEAN]] BY DEF TypeOK
      <4>2. \E b : cur' = [cur EXCEPT ![l].eof = b] BY <2>2 DEF RecvDone
      <4> QED BY <4>1, <4>2
    <3> QED BY <1>7, <2>1, <3>1, <3>2, WakeLoopFrame
  <2>3. CASE SendBlocks(l)
    BY <1>7, <2>1, <2>3, WakeLoopFrame DEF SendBlocks
  <2> QED BY <1>7, <2>2, <2>3
<1>8. CASE FlushDone(l)
  <2>1. UNCHANGED <<conn, tok, reqs, lq, batch, cur>> /\ lpc[l] = "flush"
    BY <1>8 DEF FlushDone, endVars, handVars
  <2>2. CASE cur[l].end = e
    <3>1. proxies[c] # {} /\ reqs[c] = <<>> BY <1>1, <1>8, <2>2 DEF FlushDone
    <3> QED BY <1>8, <2>1, <3>1, LoopAlone DEF WakeOK, NeedsWake
  <2>3. CASE cur[l].end # e
    BY <1>8, <2>1, <2>3, WakeLoopFrame
  <2> QED BY <2>2, <2>3
<1>9. CASE SetWritable(l) \/ SendDone(l)
  BY <1>9, WakeLoopFrame DEF SetWritable, SendDone, FinishHandling, handVars
<1>10. CASE lpc[l] \in HandlingPcs /\ RemoveConnection(l)
  <2>1. /\ UNCHANGED <<tok, lq, batch>>
        /\ conn' = [f \in Ends |-> IF f \in {cur[l].end} THEN "closed" ELSE conn[f]]
        /\ reqs'[c] # <<>> => reqs[c] # <<>>
    BY <1>10 DEF RemoveConnection, CloseEnds, FinishHandling
  <2>2. CASE cur[l].end = e
    BY <1>1, <2>1, <2>2 DEF WakeOK, NeedsWake
  <2>3. CASE cur[l].end # e
    BY <1>1, <1>10, <2>1, <2>3, WakeLoopFrame
  <2> QED BY <2>2, <2>3
<1>11. CASE AddConnection(l) \/ AddConnectionFails(l)
  <2> DEFINE r == Head(lq[l])
  <2>1. /\ r.op = "add" /\ r.end \in Ends /\ conn[r.end] = "queued"
        /\ lq[l] # <<>> /\ lq' = [lq EXCEPT ![l] = Tail(@)]
    BY <1>11, HeadRequest DEF AddConnection, AddConnectionFails, PopRequest
  <2>2. /\ UNCHANGED loopVars
        /\ \A f \in Ends : f # r.end => conn'[f] = conn[f] /\ tok'[f] = tok[f]
        /\ reqs'[c] # <<>> => reqs[c] # <<>>
    BY <1>11 DEF AddConnection, AddConnectionFails, CloseEnds, handVars, TypeOK
  <2> HIDE DEF r
  <2>3. CASE r.end = e
    <3>1. reqs[c] = <<>> /\ proxies[c] # {} BY <2>1, <2>3 DEF BindOK, FreshOK
    <3>2. proxies' = proxies BY <1>11, LoopAlone
    <3> QED BY <2>2, <3>1, <3>2 DEF WakeOK, NeedsWake
  <2>4. CASE r.end # e
    <3>1. WakeReq(tok[e]) \in Requests /\ WakeReq(tok[e]) # r
      BY <1>1, <2>1, RequestTypes DEF TypeOK, WakeReq
    <3>2. WakeQueued(c) => WakeQueued(c)'
      BY <1>1, <2>1, <2>2, <2>4, <3>1, PopWakes DEF r
    <3> QED BY <1>1, <1>11, <2>2, <2>4, <3>2, WakeLoopFrame DEF loopVars
  <2> QED BY <2>3, <2>4
<1>15. CASE SpuriousEvent(l)
  <2>1. PICK ev \in batch[l] : /\ \A f \in OpenOn(l) : tok[f] # tok[ev.end]
                              /\ batch' = [batch EXCEPT ![l] = @ \ {ev}]
    BY <1>15 DEF SpuriousEvent
  <2>2. UNCHANGED <<conn, tok, reqs, lq, lpc, cur>> BY <1>15 DEF SpuriousEvent, endVars, handVars
  <2>3. NeedsWake(c) => ev.end # e BY <1>1, <2>1 DEF NeedsWake, OpenOn
  <2>4. NeedsWake(c) /\ HasEvent(l, e) => \E x \in batch'[l] : x.end = e
    BY <2>1, <2>3 DEF TypeOK
  <2> QED BY <1>15, <2>2, <2>4, WakeLoopFrame
<1>12. CASE SpuriousWake(l)
  <2>1. /\ UNCHANGED <<conn, tok, reqs, loopVars>> /\ lq[l] # <<>> /\ lq' = [lq EXCEPT ![l] = Tail(@)]
        /\ \A f \in OpenOn(l) : tok[f] # Head(lq[l]).tok
    BY <1>12 DEF SpuriousWake, PopRequest, endVars, handVars
  <2>2. NeedsWake(c) => Head(lq[l]) # WakeReq(tok[e])
    BY <1>1, <2>1 DEF NeedsWake, OpenOn, WakeReq
  <2>3. WakeReq(tok[e]) \in Requests BY <1>1, RequestTypes DEF TypeOK
  <2>4. NeedsWake(c) => (WakeQueued(c) => WakeQueued(c)')
    BY <2>1, <2>2, <2>3, PopWakes
  <2> QED BY <1>12, <2>1, <2>4, WakeLoopFrame DEF loopVars
<1>13. CASE WakeConnection(l)
  <2>1. PICK f \in OpenOn(l) :
           /\ tok[f] = Head(lq[l]).tok
           /\ cur' = [cur EXCEPT ![l] = [end |-> f, wake |-> TRUE, eof |-> FALSE]]
    BY <1>13 DEF WakeConnection
  <2>2. /\ UNCHANGED <<conn, tok, reqs, batch>> /\ lq[l] # <<>> /\ lq' = [lq EXCEPT ![l] = Tail(@)]
        /\ lpc[l] = "requests" /\ lpc' = [lpc EXCEPT ![l] = "flush"]
    BY <1>13 DEF WakeConnection, PopRequest, endVars, handVars
  <2>3. cur'[l].end = f /\ lpc'[l] = "flush" BY <2>1, <2>2 DEF TypeOK
  <2>4. WakeReq(tok[e]) \in Requests BY <1>1, RequestTypes DEF TypeOK
  <2>5. CASE f = e
    BY <2>3, <2>5 DEF WakeOK
  <2>6. CASE f # e
    <3>1. NeedsWake(c) => Head(lq[l]) # WakeReq(tok[e])
      BY <1>1, <2>1, <2>6 DEF NeedsWake, OpenOn, TokensOK, WakeReq
    <3>2. NeedsWake(c) => (WakeQueued(c) => WakeQueued(c)') BY <2>2, <2>4, <3>1, PopWakes
    <3> QED BY <1>13, <2>2, <3>2, WakeLoopFrame
  <2> QED BY <2>5, <2>6
<1>14. CASE lpc[l] \in {"poll", "requests"} /\ ExitLoop(l)
  <2>1. conn'[e] # "open" BY <1>1, <1>14 DEF ExitLoop, CloseEnds, OpenOn
  <2> QED BY <2>1 DEF WakeOK, NeedsWake
<1> QED BY <1>2, <1>3, <1>4, <1>5, <1>6, <1>7, <1>8, <1>9, <1>10, <1>11, <1>12, <1>13, <1>14, <1>15 DEF LoopKind

LEMMA WakeStep ==
  ASSUME LoopInv, ExitedOK, TokensOK, BindOK, DropOK, NoLostWake, [Next]_vars
  PROVE  NoLostWake'
<1> SUFFICES ASSUME NEW c \in Conns PROVE WakeOK(c)'
  BY DEF NoLostWake, WakeOK, NeedsWake, ThreadWakes, WakeQueued, InHand
<1>0. WakeOK(c) BY WakeEach
<1>1. CASE UNCHANGED vars
  BY <1>0, <1>1 DEF vars, endVars, handVars, loopVars, threadVars, histVars, WakeOK, NeedsWake, ThreadWakes,
     WakeQueued, InHand, HasEvent, Handling
<1>2. ASSUME NEW t \in Threads, ThreadStep(t) \/ Begin(t) PROVE WakeOK(c)'
  BY <1>0, <1>2, WakeThreadStep, WakeBegin
<1>3. ASSUME NEW l \in Loops, LoopKind(l) PROVE WakeOK(c)'
  BY <1>0, <1>3, WakeOther, WakeOwn
<1> QED BY <1>1, <1>2, <1>3, LoopKinds DEF Next

-----------------------------------------------------------------------------
(* Nothing is forgotten.                                                    *)

WakeInv ==
  /\ LoopInv
  /\ ExitedOK /\ TokensOK /\ BindOK /\ DropOK
  /\ \A e \in Ends : IoOK(e)
  /\ NoSleepingLoop /\ NoLostWake

LEMMA WakeInvInit == Init => WakeInv
<1> SUFFICES ASSUME Init PROVE WakeInv
  OBVIOUS
<1>1. LoopInv BY LoopInvInit
<1>2. ExitedOK /\ TokensOK BY LoopInvInit DEF Init, ExitedOK, OpenOn, LoopInv, SlabOK
<1>3. BindOK BY EndsFacts DEF Init, BindOK, FreshOK, BinderOK, ReplyOK, Range
<1>4. DropOK BY DEF Init, DropOK
<1>5. \A e \in Ends : IoOK(e)
  <2> SUFFICES ASSUME NEW e \in Ends PROVE IoOK(e)
    OBVIOUS
  <2>1. ReadOK(e) /\ WriteOK(e) BY DEF Init, ReadOK, WriteOK
  <2>2. RespOK(e) BY PeerFacts DEF Init, RespOK
  <2>3. BlockedOK(e) BY ConstantsAssumption DEF Init, BlockedOK, Idle
  <2> QED BY <2>1, <2>2, <2>3 DEF IoOK
<1>6. NoSleepingLoop BY DEF Init, NoSleepingLoop
<1>7. NoLostWake BY EndsFacts DEF Init, NoLostWake
<1> QED BY <1>1, <1>2, <1>3, <1>4, <1>5, <1>6, <1>7 DEF WakeInv

LEMMA WakeInvStep == WakeInv /\ [Next]_vars => WakeInv'
<1> SUFFICES ASSUME WakeInv, [Next]_vars PROVE WakeInv'
  OBVIOUS
<1> USE DEF WakeInv
<1>1. LoopInv' BY LoopInvStep
<1>2. ExitedOK' /\ TokensOK' BY <1>1, ExitedStep DEF LoopInv, SlabOK
<1>3. BindOK' BY BindStep
<1>4. DropOK' BY DropStep
<1>5. \A e \in Ends : IoOK(e)' BY <1>1, IoStep
<1>6. NoSleepingLoop' BY SleepStep
<1>7. NoLostWake' BY WakeStep
<1> QED BY <1>1, <1>2, <1>3, <1>4, <1>5, <1>6, <1>7

\* What IoOK says of each end is what NothingForgotten says of sockets.
LEMMA IoForgetsNothing ==
  ASSUME \A e \in Ends : IoOK(e)
  PROVE  NoLostReadable /\ NoLostWritable
BY DEF IoOK, ReadOK, WriteOK, RespOK, NoLostReadable, NoLostWritable

\* A loop forgets nothing that reached it: a request queued for a sleeping loop
\* comes with a wake-up, and data, EOF and room to send on an open socket have
\* an edge armed, an event fetched, or the handler at work on them, whether the
\* poller gives one event or two for a socket (ipccore.rs, EventLoop::poll).
THEOREM NothingLost == Spec => []NothingForgotten
<1>1. WakeInv => NothingForgotten
  BY IoForgetsNothing DEF WakeInv, NothingForgotten
<1> QED BY <1>1, WakeInvInit, WakeInvStep, PTL DEF Spec

\* The wakes among them, through every reuse of slab keys: a ClientHandler that
\* has a call to send, or no Proxy left to serve, is about to be flushed - a wake
\* for it is queued, or a thread is on its way to queue one - unless the loop's
\* queue was full (lostWake) or two drops missed each other (staleDrop).
\* (rpccore.rs, Proxy::wake_connection)
THEOREM WakesKept == Spec => []NoLostWake
<1>1. WakeInv => NoLostWake BY DEF WakeInv
<1> QED BY <1>1, WakeInvInit, WakeInvStep, PTL DEF Spec

\* The slab keeps one connection per key, a loop that has exited has neither
\* requests nor connections, and whoever waits in bind is waited for.
THEOREM SlabsSound == Spec => [](ExitedOK /\ TokensOK /\ BindOK)
<1>1. WakeInv => ExitedOK /\ TokensOK /\ BindOK BY DEF WakeInv
<1> QED BY <1>1, WakeInvInit, WakeInvStep, PTL DEF Spec

=============================================================================
