------------------------------ MODULE RpcCalls ------------------------------
(***************************************************************************)
(* The promises RpcCore makes to a caller, proved for all sets of          *)
(* connections, loops and threads and all capacities: every                *)
(* CompletionWriter has one owner (WriterOwned), a call returns the        *)
(* response to that very call (OwnResponse), and the proxies, handlers,    *)
(* loops and sockets implement AbstractRpc (ImplementsRpc).                *)
(***************************************************************************)
EXTENDS RpcCoreProofs

-----------------------------------------------------------------------------
(* CompletionWriters.                                                       *)

\* WriterOwned as an invariant over the set of writers a handler owns: each is
\* the current call of a thread still inside call() on that connection, none is
\* listed twice, and no outstanding writer is without an owner.
OwnerOf(c) ==
  /\ \A m \in Owned(c) : /\ m[2] = num[m[1]]
                         /\ writer[m[1]]
                         /\ pc[m[1]] \in CallPcs
                         /\ tgt[m[1]] = ClientEnd(c)
  /\ Distinct(infl[c])
  /\ Distinct(reqs[c])
  /\ Range(infl[c]) \cap Range(reqs[c]) = {}

HasOwner(t) == writer[t] => \E c \in Conns : <<t, num[t]>> \in Owned(c)

OwnedOK ==
  /\ \A c \in Conns : OwnerOf(c)
  /\ \A t \in Threads : HasOwner(t)

LEMMA OwnedMsgs ==
  ASSUME TypeOK, NEW c \in Conns, NEW m \in Owned(c)
  PROVE  m = <<m[1], m[2]>> /\ m[1] \in Threads /\ m[2] \in Nat /\ m \in Msg
<1>1. infl[c] \in Seq(Msg) /\ reqs[c] \in Seq(Msg) BY DEF TypeOK
<1>2. m \in Msg BY <1>1, ElementOfSeq DEF Owned, Range
<1> QED BY <1>2 DEF Msg

LEMMA OwnedIsWriterOwned ==
  ASSUME TypeOK, OwnedOK
  PROVE  WriterOwned
<1>1. ASSUME NEW c \in Conns
      PROVE  Range(Writers(c)) = Owned(c) /\ Distinct(Writers(c))
  <2>1. infl[c] \in Seq(Msg) /\ reqs[c] \in Seq(Msg) BY DEF TypeOK
  <2> QED BY <2>1, DistinctConcat DEF OwnedOK, OwnerOf, Owned, Writers
<1>2. ASSUME NEW c \in Conns, NEW i \in DOMAIN Writers(c)
      PROVE  LET t == Writers(c)[i][1] IN
             /\ Writers(c)[i] = <<t, num[t]>>
             /\ writer[t]
             /\ pc[t] \in {"callWake", "callKick", "callWait"}
             /\ tgt[t] = ClientEnd(c)
             /\ \A j \in DOMAIN Writers(c) : Writers(c)[j] = Writers(c)[i] => i = j
  <2> DEFINE m == Writers(c)[i]
  <2>1. m \in Owned(c) BY <1>1 DEF Range
  <2>2. \A j \in DOMAIN Writers(c) : Writers(c)[j] = m => i = j BY <1>1 DEF Distinct
  <2> HIDE DEF m
  <2>3. m = <<m[1], m[2]>> BY <2>1, OwnedMsgs
  <2>4. m[2] = num[m[1]] /\ writer[m[1]] /\ pc[m[1]] \in CallPcs /\ tgt[m[1]] = ClientEnd(c)
    BY <2>1 DEF OwnedOK, OwnerOf
  <2> QED BY <2>2, <2>3, <2>4 DEF m, CallPcs
<1> QED BY <1>1, <1>2 DEF WriterOwned, OwnedOK, HasOwner

\* A step that touches no writer and takes nobody with a writer out of call().
LEMMA QuietOwned ==
  ASSUME OwnedOK, TypeOK, UNCHANGED <<infl, reqs, num, writer>>,
         \A t \in Threads : writer[t] /\ pc[t] \in CallPcs => pc'[t] \in CallPcs /\ tgt'[t] = tgt[t]
  PROVE  OwnedOK'
<1>1. ASSUME NEW c \in Conns PROVE OwnerOf(c)'
  BY OwnedMsgs DEF OwnedOK, OwnerOf, Owned
<1> QED BY <1>1 DEF OwnedOK, HasOwner, Owned

\* Dropping handlers releases exactly the callers whose writers they owned.
LEMMA CloseOwned ==
  ASSUME OwnedOK, TypeOK, NEW S, CloseEnds(S), UNCHANGED <<num, pc, tgt>>
  PROVE  OwnedOK'
<1>1. ASSUME NEW c \in Conns PROVE OwnerOf(c)'
  <2>1. CASE ClientEnd(c) \in S
    <3>1. infl'[c] = <<>> /\ reqs'[c] = <<>> BY <2>1 DEF CloseEnds
    <3> QED BY <3>1 DEF OwnerOf, Owned, Range, Distinct
  <2>2. CASE ClientEnd(c) \notin S
    <3>1. infl'[c] = infl[c] /\ reqs'[c] = reqs[c] BY <2>2 DEF CloseEnds
    <3>2. ASSUME NEW m \in Owned(c) PROVE writer'[m[1]]
      <4>1. m = <<m[1], m[2]>> /\ m[1] \in Threads BY OwnedMsgs
      <4>2. writer[m[1]] /\ tgt[m[1]] = ClientEnd(c) BY DEF OwnedOK, OwnerOf
      <4>3. \A d \in Conns : <<m[1], num[m[1]]>> \in Owned(d) => tgt[m[1]] = ClientEnd(d)
        BY DEF OwnedOK, OwnerOf
      <4> QED BY <2>2, <4>1, <4>2, <4>3, EndsFacts DEF CloseEnds
    <3> QED BY <3>1, <3>2 DEF OwnedOK, OwnerOf, Owned
  <2> QED BY <2>1, <2>2
<1>2. ASSUME NEW t \in Threads, writer'[t] PROVE \E c \in Conns : <<t, num[t]>> \in Owned(c)'
  <2>1. writer[t] BY <1>2 DEF CloseEnds
  <2>2. PICK c \in Conns : <<t, num[t]>> \in Owned(c) BY <2>1 DEF OwnedOK, HasOwner
  <2>3. ClientEnd(c) \notin S BY <1>2, <2>2 DEF CloseEnds
  <2>4. Owned(c)' = Owned(c) BY <2>3 DEF CloseEnds, Owned
  <2> QED BY <2>2, <2>4
<1> QED BY <1>1, <1>2 DEF OwnedOK, HasOwner

\* A thread that is not inside call() has no writer outstanding.
LEMMA IdleOwnsNothing ==
  ASSUME OwnedOK, TypeOK, NEW t \in Threads, pc[t] \notin CallPcs
  PROVE  ~writer[t] /\ \A c \in Conns : \A m \in Owned(c) : m[1] # t
BY DEF OwnedOK, OwnerOf, HasOwner

LEMMA CallOwned ==
  ASSUME OwnedOK, TypeOK, NEW t \in Threads, NEW c \in Conns, Call(t, c)
  PROVE  OwnedOK'
<1> DEFINE m == <<t, num[t] + 1>>
<1>1. /\ pc[t] = "idle" /\ infl' = infl
      /\ reqs' = [reqs EXCEPT ![c] = Append(reqs[c], m)]
      /\ num' = [num EXCEPT ![t] = num[t] + 1]
      /\ writer' = [writer EXCEPT ![t] = TRUE]
      /\ pc' = [pc EXCEPT ![t] = "callWake"]
      /\ tgt' = [tgt EXCEPT ![t] = ClientEnd(c)]
  BY DEF Call
<1>2. \A d \in Conns : \A n \in Owned(d) : n[1] # t
  BY <1>1, IdleOwnsNothing DEF CallPcs
<1>3. m \in Msg /\ m[1] = t /\ m[2] = num'[t] BY <1>1 DEF TypeOK, Msg
<1>4. reqs[c] \in Seq(Msg) /\ reqs'[c] = Append(reqs[c], m)
  BY <1>1 DEF TypeOK
<1>5. \A d \in Conns : d # c => reqs'[d] = reqs[d] BY <1>1 DEF TypeOK
<1>6. num'[t] = num[t] + 1 /\ writer'[t] /\ pc'[t] \in CallPcs /\ tgt'[t] = ClientEnd(c)
  BY <1>1 DEF TypeOK, CallPcs
<1>7. \A u \in Threads : u # t => num'[u] = num[u] /\ writer'[u] = writer[u] /\ pc'[u] = pc[u] /\ tgt'[u] = tgt[u]
  BY <1>1 DEF TypeOK
<1> HIDE DEF m
<1>8. m \notin Range(reqs[c]) /\ m \notin Range(infl[c]) BY <1>2, <1>3 DEF Owned
<1>9. Range(reqs'[c]) = Range(reqs[c]) \cup {m} /\ (Distinct(reqs[c]) => Distinct(reqs'[c]))
  BY <1>3, <1>4, <1>8, RangeOfAppend
<1>10. Owned(c)' = Owned(c) \cup {m} /\ \A d \in Conns : d # c => Owned(d)' = Owned(d)
  BY <1>1, <1>5, <1>9 DEF Owned
<1>11. ASSUME NEW d \in Conns PROVE OwnerOf(d)'
  <2>1. ASSUME NEW n \in Owned(d)
        PROVE  n[2] = num'[n[1]] /\ writer'[n[1]] /\ pc'[n[1]] \in CallPcs /\ tgt'[n[1]] = ClientEnd(d)
    <3>1. n[1] \in Threads /\ n[1] # t BY <1>2, OwnedMsgs
    <3> QED BY <1>7, <3>1 DEF OwnedOK, OwnerOf
  <2>2. Distinct(infl[d]) /\ Distinct(reqs[d]) /\ Range(infl[d]) \cap Range(reqs[d]) = {}
    BY DEF OwnedOK, OwnerOf
  <2>3. CASE d = c
    BY <1>1, <1>3, <1>6, <1>8, <1>9, <1>10, <2>1, <2>2, <2>3 DEF OwnerOf
  <2>4. CASE d # c
    BY <1>1, <1>5, <1>10, <2>1, <2>2, <2>4 DEF OwnerOf
  <2> QED BY <2>3, <2>4
<1>12. ASSUME NEW u \in Threads PROVE HasOwner(u)'
  <2>1. CASE u = t
    <3>1. <<u, num'[u]>> \in Owned(c)' BY <1>6, <1>10, <2>1 DEF m
    <3> QED BY <3>1 DEF HasOwner
  <2>2. CASE u # t BY <1>7, <1>10, <2>2 DEF OwnedOK, HasOwner
  <2> QED BY <2>1, <2>2
<1> QED BY <1>11, <1>12 DEF OwnedOK

LEMMA CallFailsOwned ==
  ASSUME OwnedOK, TypeOK, NEW t \in Threads, NEW c \in Conns, CallFails(t, c)
  PROVE  OwnedOK'
<1>1. /\ pc[t] = "idle" /\ UNCHANGED <<infl, reqs, writer, pc, tgt>>
      /\ num' = [num EXCEPT ![t] = num[t] + 1]
  BY DEF CallFails, handVars
<1>2. ~writer[t] /\ \A d \in Conns : \A n \in Owned(d) : n[1] # t
  BY <1>1, IdleOwnsNothing DEF CallPcs
<1>3. \A u \in Threads : u # t => num'[u] = num[u] BY <1>1 DEF TypeOK
<1>4. \A d \in Conns : Owned(d)' = Owned(d) BY <1>1 DEF Owned
<1>5. ASSUME NEW d \in Conns PROVE OwnerOf(d)'
  <2>1. \A n \in Owned(d) : num'[n[1]] = num[n[1]] BY <1>2, <1>3, OwnedMsgs
  <2> QED BY <1>1, <1>4, <2>1 DEF OwnedOK, OwnerOf
<1>6. ASSUME NEW u \in Threads PROVE HasOwner(u)'
  BY <1>1, <1>2, <1>3, <1>4 DEF OwnedOK, HasOwner
<1> QED BY <1>5, <1>6 DEF OwnedOK

\* produce() moves a writer from the queue to in_flight.
LEMMA FlushOwned ==
  ASSUME LoopInv, OwnedOK, NEW l \in Loops, FlushRequest(l)
  PROVE  OwnedOK'
<1> USE DEF LoopInv
<1>1. PICK c \in Conns : cur[l].end = ClientEnd(c) /\ ClientEnd(c)[1] = c
  BY HandledOwn, EndsFacts DEF FlushRequest, HandlingPcs
<1> DEFINE m == Head(reqs[c])
<1>2. /\ reqs[c] # <<>>
      /\ reqs' = [reqs EXCEPT ![c] = Tail(reqs[c])]
      /\ infl' = [infl EXCEPT ![c] = Append(infl[c], m)]
      /\ UNCHANGED <<num, writer, pc, tgt>>
  BY <1>1 DEF FlushRequest, PushBack, threadVars
<1>3. /\ infl[c] \in Seq(Msg) /\ reqs[c] \in Seq(Msg) /\ m \in Msg
      /\ infl'[c] = Append(infl[c], m) /\ reqs'[c] = Tail(reqs[c])
      /\ \A d \in Conns : d # c => infl'[d] = infl[d] /\ reqs'[d] = reqs[d]
  BY <1>2 DEF TypeOK
<1> HIDE DEF m
<1>4. /\ Distinct(infl[c]) /\ Distinct(reqs[c]) /\ Range(infl[c]) \cap Range(reqs[c]) = {}
  BY DEF OwnedOK, OwnerOf
<1>5. /\ m \in Range(reqs[c])
      /\ Range(reqs[c]) = Range(reqs'[c]) \cup {m}
      /\ Distinct(reqs'[c]) /\ m \notin Range(reqs'[c])
  BY <1>2, <1>3, <1>4, RangeOfTail DEF m
<1>6. /\ Range(infl'[c]) = Range(infl[c]) \cup {m}
      /\ Distinct(infl'[c])
  BY <1>3, <1>4, <1>5, RangeOfAppend
<1>7. \A d \in Conns : Owned(d)' = Owned(d) BY <1>3, <1>5, <1>6 DEF Owned
<1>8. ASSUME NEW d \in Conns PROVE OwnerOf(d)'
  <2>1. CASE d = c BY <1>2, <1>4, <1>5, <1>6, <1>7, <2>1 DEF OwnedOK, OwnerOf
  <2>2. CASE d # c BY <1>2, <1>3, <1>7, <2>2 DEF OwnedOK, OwnerOf
  <2> QED BY <2>1, <2>2
<1> QED BY <1>2, <1>7, <1>8 DEF OwnedOK, HasOwner

\* consume() completes the oldest writer in flight, which leaves its handler.
LEMMA RecvOwned ==
  ASSUME LoopInv, OwnedOK, NEW l \in Loops, RecvResponse(l)
  PROVE  OwnedOK'
<1> USE DEF LoopInv
<1>1. PICK c \in Conns : cur[l].end = ClientEnd(c) /\ ClientEnd(c)[1] = c
  BY HandledOwn, EndsFacts DEF RecvResponse, HandlingPcs
<1> DEFINE m == Head(infl[c])
<1>2. /\ infl[c] # <<>>
      /\ infl' = [infl EXCEPT ![c] = Tail(infl[c])]
      /\ writer' = [writer EXCEPT ![m[1]] = FALSE]
      /\ UNCHANGED <<reqs, num, pc, tgt>>
  BY <1>1 DEF RecvResponse, Mismatch, TakeFrame, threadVars
<1>3. /\ infl[c] \in Seq(Msg) /\ m \in Msg /\ infl'[c] = Tail(infl[c])
      /\ \A d \in Conns : d # c => infl'[d] = infl[d]
  BY <1>2 DEF TypeOK
<1> HIDE DEF m
<1>4. Distinct(infl[c]) /\ Range(infl[c]) \cap Range(reqs[c]) = {}
  BY DEF OwnedOK, OwnerOf
<1>5. /\ m \in Range(infl[c])
      /\ Range(infl[c]) = Range(infl'[c]) \cup {m}
      /\ Distinct(infl'[c]) /\ m \notin Range(infl'[c])
  BY <1>2, <1>3, <1>4, RangeOfTail DEF m
<1>6. m \in Owned(c) /\ m \notin Owned(c)' /\ Owned(c) = Owned(c)' \cup {m}
  BY <1>2, <1>4, <1>5 DEF Owned
<1>7. \A d \in Conns : d # c => Owned(d)' = Owned(d) BY <1>2, <1>3 DEF Owned
<1>8. m = <<m[1], num[m[1]]>> /\ m[1] \in Threads /\ tgt[m[1]] = ClientEnd(c)
  BY <1>6, OwnedMsgs DEF OwnedOK, OwnerOf
\* Nobody else's entry is the same thread's.
<1>9. \A d \in Conns : \A n \in Owned(d)' : n[1] # m[1]
  <2> SUFFICES ASSUME NEW d \in Conns, NEW n \in Owned(d)', n[1] = m[1] PROVE FALSE
    OBVIOUS
  <2>1. n \in Owned(d) BY <1>6, <1>7
  <2>2. tgt[n[1]] = ClientEnd(d) /\ n = <<n[1], num[n[1]]>>
    BY <2>1, OwnedMsgs DEF OwnedOK, OwnerOf
  <2>3. d = c /\ n = m BY <1>8, <2>2, EndsFacts
  <2> QED BY <1>6, <2>3
<1>10. /\ ~writer'[m[1]] /\ \A t \in Threads : t # m[1] => writer'[t] = writer[t]
  BY <1>2, <1>8 DEF TypeOK
<1>11. ASSUME NEW d \in Conns PROVE OwnerOf(d)'
  <2>1. ASSUME NEW n \in Owned(d)'
        PROVE  n[2] = num'[n[1]] /\ writer'[n[1]] /\ pc'[n[1]] \in CallPcs /\ tgt'[n[1]] = ClientEnd(d)
    <3>1. n \in Owned(d) BY <1>6, <1>7
    <3>2. n[1] \in Threads /\ n[1] # m[1] BY <1>9, <3>1, OwnedMsgs
    <3> QED BY <1>2, <1>10, <3>1, <3>2 DEF OwnedOK, OwnerOf
  <2>2. Distinct(infl'[d]) /\ Distinct(reqs'[d]) /\ Range(infl'[d]) \cap Range(reqs'[d]) = {}
    BY <1>2, <1>3, <1>5 DEF OwnedOK, OwnerOf
  <2> QED BY <2>1, <2>2 DEF OwnerOf
<1>12. ASSUME NEW t \in Threads, writer'[t]
       PROVE  \E d \in Conns : <<t, num'[t]>> \in Owned(d)'
  <2>1. t # m[1] /\ writer[t] BY <1>10, <1>12
  <2>2. PICK d \in Conns : <<t, num[t]>> \in Owned(d) BY <2>1 DEF OwnedOK, HasOwner
  <2>3. <<t, num[t]>> # m BY <2>1
  <2>4. <<t, num[t]>> \in Owned(d)' BY <1>6, <1>7, <2>2, <2>3
  <2> QED BY <1>2, <2>4
<1> QED BY <1>11, <1>12 DEF OwnedOK, HasOwner

LEMMA OwnedStep ==
  ASSUME LoopInv, OwnedOK, [Next]_vars
  PROVE  OwnedOK'
<1> USE DEF LoopInv
<1>1. CASE UNCHANGED vars
  BY <1>1, QuietOwned DEF vars, handVars, threadVars
<1>2. ASSUME NEW t \in Threads, ThreadStep(t)
      PROVE  OwnedOK'
  <2>1. UNCHANGED <<infl, reqs, num, writer>>
    BY <1>2 DEF ThreadStep, Kick, Wake, WakeDropped, BindReturn, CallReturn, DropRelease, Join,
       handVars
  <2>2. ASSUME NEW u \in Threads, writer[u], pc[u] \in CallPcs
        PROVE  pc'[u] \in CallPcs /\ tgt'[u] = tgt[u]
    BY <1>2, <2>2 DEF ThreadStep, Kick, Wake, WakeDropped, BindReturn, CallReturn, DropRelease, Join,
       CallPcs, KickPcs, AfterKick, TypeOK
  <2> QED BY <2>1, <2>2, QuietOwned
<1>3. ASSUME NEW t \in Threads, Begin(t)
      PROVE  OwnedOK'
  <2>1. ASSUME NEW e \in Ends, BindFails(t, e) PROVE OwnedOK'
    BY <2>1, CloseOwned DEF BindFails, threadVars
  <2>2. ASSUME NEW e \in Ends, NEW sync \in BOOLEAN, Bind(t, e, sync) PROVE OwnedOK'
    BY <2>2, QuietOwned DEF Bind, handVars, TypeOK, CallPcs
  <2>3. ASSUME NEW l \in Stoppable, Stop(t, l) PROVE OwnedOK'
    BY <2>3, QuietOwned DEF Stop, handVars, TypeOK, CallPcs
  <2>4. ASSUME NEW c \in Conns, DropRead(t, c) \/ \E u \in Threads : Clone(t, u, c)
        PROVE  OwnedOK'
    BY <2>4, QuietOwned DEF DropRead, Clone, handVars, threadVars, TypeOK, CallPcs
  <2>5. ASSUME NEW c \in Conns, Call(t, c) PROVE OwnedOK'
    BY <2>5, CallOwned
  <2>6. ASSUME NEW c \in Conns, CallFails(t, c) PROVE OwnedOK'
    BY <2>6, CallFailsOwned
  <2> QED BY <1>3, <2>1, <2>2, <2>3, <2>4, <2>5, <2>6 DEF Begin
<1>4. ASSUME NEW l \in Loops, LoopStep(l) \/ PollFails(l)
      PROVE  OwnedOK'
  <2>1. LoopKind(l) BY <1>4, LoopKinds
  <2>2. CASE \/ Poll(l) \/ HandleEvent(l) \/ SpuriousEvent(l) \/ EventsDone(l) \/ RecvRequest(l) \/ RecvDone(l)
             \/ FlushResponse(l) \/ FlushDone(l) \/ SendFrame(l) \/ SendBlocks(l)
             \/ SetWritable(l) \/ SendDone(l) \/ AddConnection(l) \/ WakeConnection(l)
             \/ SpuriousWake(l) \/ RequestsDone(l)
    BY <2>2, QuietOwned DEF Poll, HandleEvent, SpuriousEvent, EventsDone, RecvRequest, RecvDone, FlushResponse,
       FlushDone, SendFrame, SendBlocks, SetWritable, SendDone, AddConnection, WakeConnection,
       SpuriousWake, RequestsDone, handVars, threadVars
  <2>3. CASE RecvResponse(l) BY <2>3, RecvOwned
  <2>4. CASE FlushRequest(l) BY <2>4, FlushOwned
  <2>5. CASE lpc[l] \in HandlingPcs /\ RemoveConnection(l)
    BY <2>5, CloseOwned DEF RemoveConnection, threadVars
  <2>6. CASE AddConnectionFails(l) BY <2>6, CloseOwned DEF AddConnectionFails
  <2>7. CASE lpc[l] \in {"poll", "requests"} /\ ExitLoop(l)
    BY <2>7, CloseOwned DEF ExitLoop
  <2> QED BY <2>1, <2>2, <2>3, <2>4, <2>5, <2>6, <2>7 DEF LoopKind
<1> QED BY <1>1, <1>2, <1>3, <1>4 DEF Next

LEMMA OwnedInit == Init => OwnedOK
BY DEF Init, OwnedOK, OwnerOf, HasOwner, Owned, Range, Distinct

\* The "Safety" argument of CompletionWriter's `unsafe impl Send`: a writer, a
\* raw pointer into a caller's stack frame, exists once, in the handler of the
\* connection the caller is still calling on, whatever closes or fails; and no
\* caller waits for a writer that nobody has.
THEOREM WritersOwned == Spec => []WriterOwned
<1>1. LoopInv /\ OwnedOK /\ [Next]_vars => LoopInv' /\ OwnedOK'
  BY LoopInvStep, OwnedStep
<1>2. Init => LoopInv /\ OwnedOK BY LoopInvInit, OwnedInit
<1>3. LoopInv /\ OwnedOK => WriterOwned BY OwnedIsWriterOwned DEF LoopInv
<1> QED BY <1>1, <1>2, <1>3, PTL DEF Spec

-----------------------------------------------------------------------------
(* A call returns the response to that very call.                           *)

LEMMA ResponseStep ==
  ASSUME LoopInv, OwnedOK, InFlightOrder, OwnResponse, [Next]_vars
  PROVE  OwnResponse'
<1> USE DEF LoopInv
<1>1. CASE UNCHANGED <<item, num>>
  BY <1>1 DEF OwnResponse
<1>2. ASSUME NEW t \in Threads, NEW c \in Conns, Call(t, c) \/ CallFails(t, c)
      PROVE  OwnResponse'
  BY <1>2 DEF Call, CallFails, OwnResponse, TypeOK
<1>3. ASSUME NEW l \in Loops, RecvResponse(l)
      PROVE  OwnResponse'
  <2>1. PICK c \in Conns : cur[l].end = ClientEnd(c) /\ ClientEnd(c)[1] = c /\ conn[ClientEnd(c)] = "open"
    BY <1>3, HandledOwn, EndsFacts DEF RecvResponse, HandlingPcs
  <2> DEFINE m == Head(infl[c])
             e == ClientEnd(c)
  <2>2. /\ infl[c] # <<>> /\ chan[e] # <<>> /\ num' = num
        /\ item' = [item EXCEPT ![m[1]] = {Head(chan[e])}]
    BY <1>3, <2>1 DEF RecvResponse, Mismatch, TakeFrame, threadVars
  <2>3. e \in Ends /\ infl[c] \in Seq(Msg) /\ chan[e] \in Seq(Msg) BY EndsFacts DEF TypeOK
  <2>4. m = Head(chan[e])
    <3>1. 1 \in DOMAIN chan[e] BY <2>2, <2>3
    <3>2. 1 \in DOMAIN infl[c] /\ chan[e][1] = infl[c][1] BY <2>1, <3>1 DEF InFlightOrder
    <3> QED BY <2>2, <2>3, <3>2
  <2>5. m \in Owned(c) BY <2>2, <2>3, RangeOfTail DEF Owned
  <2> HIDE DEF m
  <2>6. m = <<m[1], num[m[1]]>> /\ m[1] \in Threads
    BY <2>5, OwnedMsgs DEF OwnedOK, OwnerOf
  <2> QED BY <2>2, <2>4, <2>6 DEF OwnResponse, TypeOK
<1>4. \/ UNCHANGED <<item, num>>
      \/ \E t \in Threads, c \in Conns : Call(t, c) \/ CallFails(t, c)
      \/ \E l \in Loops : RecvResponse(l)
  <2>1. ASSUME NEW t \in Threads, ThreadStep(t) PROVE UNCHANGED <<item, num>>
    BY <2>1 DEF ThreadStep, Kick, Wake, WakeDropped, BindReturn, CallReturn, DropRelease, Join
  <2>2. ASSUME NEW t \in Threads, Begin(t)
        PROVE  \/ UNCHANGED <<item, num>>
               \/ \E c \in Conns : Call(t, c) \/ CallFails(t, c)
    BY <2>2 DEF Begin, BindFails, Bind, Stop, DropRead, Clone, threadVars
  <2>3. ASSUME NEW l \in Loops, LoopKind(l) PROVE UNCHANGED <<item, num>> \/ RecvResponse(l)
    BY <2>3 DEF LoopKind, Poll, HandleEvent, SpuriousEvent, EventsDone, RecvRequest, RecvDone, FlushRequest,
       FlushResponse, FlushDone, SendFrame, SendBlocks, SetWritable, SendDone, RemoveConnection,
       AddConnection, AddConnectionFails, WakeConnection, SpuriousWake, RequestsDone, ExitLoop,
       threadVars
  <2> QED BY <2>1, <2>2, <2>3, LoopKinds DEF Next, vars, threadVars
<1> QED BY <1>1, <1>2, <1>3, <1>4

\* What a call returns is the server's response to that very call: consume()
\* pairs responses with requests by position alone, and what makes that right
\* is the order of in_flight together with the ownership of its writers.
THEOREM CallsAnswered == Spec => []OwnResponse
<1> DEFINE I == LoopInv /\ OwnedOK /\ InFlightOrder /\ OwnResponse
<1>1. I /\ [Next]_vars => I'
  <2>1. LoopInv /\ [Next]_vars => LoopInv' BY LoopInvStep
  <2>2. LoopInv' => TypeOK' BY DEF LoopInv
  <2> QED BY <2>1, <2>2, OrderStep, OwnedStep, ResponseStep
<1>2. Init => I
  BY LoopInvInit, OwnedInit, OrderInit DEF Init, OwnResponse
<1> QED BY <1>1, <1>2, PTL DEF Spec

-----------------------------------------------------------------------------
(* RpcCore implements AbstractRpc.                                          *)

\* The requests of c that its server has yet to process, oldest first: those it
\* has to receive, those the client has to send, and those in its queue.
ToServe(c) ==
  IF conn[ServerEnd(c)] = "closed" THEN <<>>
  ELSE Cat(Cat(chan[ServerEnd(c)], out[ClientEnd(c)]), reqs[c])

OncePerThread(q) == \A i, j \in DOMAIN q : q[i][1] = q[j][1] => i = j

\* A request that is yet to be processed has not been, on any connection, and
\* comes after the calls of its thread that have been.
PendingOK(c, m) ==
  /\ m[2] \in 1 .. num[m[1]]
  /\ \A d \in Conns : m[2] \notin Range(served[<<d, m[1]>>])
  /\ \A j \in Range(served[<<c, m[1]>>]) : j < m[2]

ToServeOK ==
  /\ \A c \in Conns : \A m \in Range(ToServe(c)) : PendingOK(c, m)
  /\ \A c \in Conns : OncePerThread(ToServe(c))
  /\ \A c, d \in Conns : c # d => Range(ToServe(c)) \cap Range(ToServe(d)) = {}

\* The server's answers that the client has yet to receive.
Answers(c) == Range(chan[ClientEnd(c)]) \cup Range(out[ServerEnd(c)]) \cup Range(resp[c])

\* What was processed has been called, and what was answered was processed.
ServedOK ==
  /\ \A t \in Threads : num[t] <= MaxCalls
  /\ \A c \in Conns, t \in Threads : Range(served[<<c, t>>]) \subseteq 1 .. num[t]
  /\ \A c \in Conns : \A m \in Answers(c) : m[2] \in Range(served[<<c, m[1]>>])
  /\ \A t \in Threads : item[t] # {} =>
       \E c \in Conns : num[t] \in Range(served[<<c, t>>])

LEMMA ToServeIn ==
  ASSUME TypeOK, NEW c \in Conns
  PROVE  /\ ToServe(c) \in Seq(Msg)
         /\ chan[ServerEnd(c)] \in Frames /\ out[ClientEnd(c)] \in Frames /\ reqs[c] \in Frames
<1>1. chan[ServerEnd(c)] \in Frames /\ out[ClientEnd(c)] \in Frames /\ reqs[c] \in Frames
  BY EndsFacts DEF TypeOK, Frames
<1>2. <<>> \in Seq(Msg) OBVIOUS
<1> QED BY <1>1, <1>2, CatIn DEF ToServe, Frames

LEMMA ToServeMsgs ==
  ASSUME TypeOK, NEW c \in Conns, NEW m \in Range(ToServe(c))
  PROVE  m = <<m[1], m[2]>> /\ m[1] \in Threads /\ m[2] \in Nat /\ m \in Msg
<1>1. m \in Msg BY ToServeIn, ElementOfSeq DEF Range
<1> QED BY <1>1 DEF Msg

\* A step that only takes requests away: none is processed, none is made.
LEMMA FewerToServe ==
  ASSUME ToServeOK, UNCHANGED <<num, served>>,
         \A c \in Conns : /\ Range(ToServe(c)') \subseteq Range(ToServe(c))
                          /\ OncePerThread(ToServe(c)) => OncePerThread(ToServe(c)')
  PROVE  ToServeOK'
<1>1. ASSUME NEW c \in Conns, NEW m \in Range(ToServe(c)') PROVE PendingOK(c, m)'
  <2>1. PendingOK(c, m) BY <1>1 DEF ToServeOK
  <2> QED BY <2>1 DEF PendingOK
<1>2. \A c, d \in Conns : c # d => Range(ToServe(c)') \cap Range(ToServe(d)') = {}
  BY DEF ToServeOK
<1> QED BY <1>1, <1>2 DEF ToServeOK

LEMMA SameToServe ==
  ASSUME ToServeOK, UNCHANGED <<num, served>>, \A c \in Conns : ToServe(c)' = ToServe(c)
  PROVE  ToServeOK'
BY FewerToServe

LEMMA QuietToServe ==
  ASSUME ToServeOK, UNCHANGED <<num, served, chan, out, reqs>>,
         \A e \in Ends : conn'[e] = "closed" <=> conn[e] = "closed"
  PROVE  ToServeOK'
<1>1. ASSUME NEW c \in Conns PROVE ToServe(c)' = ToServe(c)
  BY EndsFacts DEF ToServe
<1> QED BY <1>1, SameToServe

LEMMA PrefixOncePerThread ==
  ASSUME NEW x \in Frames, NEW y \in Frames
  PROVE  /\ Range(x) \subseteq Range(Cat(x, y))
         /\ OncePerThread(Cat(x, y)) => OncePerThread(x)
<1>1. \A i \in DOMAIN x : i \in DOMAIN Cat(x, y) /\ x[i] = Cat(x, y)[i]
  BY PipelinePrefix DEF Frames, Cat
<1> QED BY <1>1 DEF Range, OncePerThread

LEMMA CloseToServe ==
  ASSUME TypeOK, ToServeOK, NEW S, CloseEnds(S), UNCHANGED <<num, served>>
  PROVE  ToServeOK'
<1>1. ASSUME NEW c \in Conns
      PROVE  /\ Range(ToServe(c)') \subseteq Range(ToServe(c))
             /\ OncePerThread(ToServe(c)) => OncePerThread(ToServe(c)')
  <2> DEFINE Z == ServerEnd(c)
             C == ClientEnd(c)
  <2>1. Z \in Ends /\ C \in Ends BY EndsFacts
  <2>2. CASE conn'[Z] = "closed"
    <3>1. ToServe(c)' = <<>> BY <2>2 DEF ToServe
    <3> QED BY <3>1 DEF Range, OncePerThread
  <2>3. CASE conn'[Z] # "closed"
    <3>1. Z \notin S /\ conn[Z] # "closed" /\ chan'[Z] = chan[Z] BY <2>1, <2>3 DEF CloseEnds
    <3>2. CASE C \notin S
      <4>1. out'[C] = out[C] /\ reqs'[c] = reqs[c] BY <2>1, <3>2 DEF CloseEnds
      <4>2. ToServe(c)' = ToServe(c) BY <2>3, <3>1, <4>1 DEF ToServe
      <4> QED BY <4>2
    <3>3. CASE C \in S
      <4>1. out'[C] = <<>> /\ reqs'[c] = <<>> BY <2>1, <3>3 DEF CloseEnds
      <4> DEFINE x == chan[Z]
                 y == out[C]
                 z == reqs[c]
      <4>2. x \in Frames /\ y \in Frames /\ z \in Frames /\ <<>> \in Frames
        BY ToServeIn DEF Frames
      <4>3. ToServe(c)' = Cat(Cat(x, <<>>), <<>>) BY <2>3, <3>1, <4>1 DEF ToServe
      <4>4. ToServe(c) = Cat(x, Cat(y, z)) BY <3>1, <4>2, CatAssoc DEF ToServe
      <4> HIDE DEF x, y, z
      <4>5. Cat(x, <<>>) = x BY <4>2, ConcatEmptySeq DEF Frames, Cat
      <4>6. Cat(y, z) \in Frames BY <4>2, CatIn
      <4> QED BY <4>2, <4>3, <4>4, <4>5, <4>6, PrefixOncePerThread
    <3> QED BY <3>2, <3>3
  <2> QED BY <2>2, <2>3
<1> QED BY <1>1, FewerToServe

\* The client's end of the pipeline only passes requests on.
LEMMA FlushToServe ==
  ASSUME LoopInv, ToServeOK, NEW l \in Loops, FlushRequest(l)
  PROVE  ToServeOK'
<1> USE DEF LoopInv
<1>1. PICK c \in Conns : cur[l].end = ClientEnd(c) /\ ClientEnd(c)[1] = c
  BY HandledOwn, EndsFacts DEF FlushRequest, HandlingPcs
<1> DEFINE x == chan[ServerEnd(c)]
           y == out[ClientEnd(c)]
           z == reqs[c]
<1>2. x \in Frames /\ y \in Frames /\ z \in Frames BY ToServeIn
<1>3. /\ z # <<>>
      /\ reqs' = [reqs EXCEPT ![c] = Tail(z)]
      /\ out' = [out EXCEPT ![ClientEnd(c)] = Append(y, Head(z))]
      /\ UNCHANGED <<conn, chan, num, served>>
  BY <1>1 DEF FlushRequest, threadVars
<1>4. reqs'[c] = Tail(z) /\ out'[ClientEnd(c)] = Append(y, Head(z))
  BY <1>3, EndsFacts DEF TypeOK
<1>5. \A d \in Conns : d # c => reqs'[d] = reqs[d] /\ out'[ClientEnd(d)] = out[ClientEnd(d)]
  BY <1>3, EndsFacts DEF TypeOK
<1>6. ToServe(c)' = ToServe(c)
  <2>1. CASE conn[ServerEnd(c)] = "closed" BY <1>3, <2>1 DEF ToServe
  <2>2. CASE conn[ServerEnd(c)] # "closed"
    <3>1. ToServe(c)' = Cat(Cat(x, Append(y, Head(z))), Tail(z)) BY <1>3, <1>4, <2>2 DEF ToServe
    <3>2. ToServe(c) = Cat(Cat(x, y), z) BY <2>2 DEF ToServe
    <3>3. z # <<>> BY <1>3
    <3> HIDE DEF x, y, z
    <3> QED BY <1>2, <3>1, <3>2, <3>3, CatMoves
  <2> QED BY <2>1, <2>2
<1>7. \A d \in Conns : d # c => ToServe(d)' = ToServe(d) BY <1>3, <1>5 DEF ToServe
<1> QED BY <1>3, <1>6, <1>7, SameToServe

LEMMA SendToServe ==
  ASSUME LoopInv, ToServeOK, NEW l \in Loops, SendFrame(l)
  PROVE  ToServeOK'
<1> USE DEF LoopInv
<1> DEFINE e == cur[l].end
<1>1. PICK c \in Conns : \/ e = ServerEnd(c) /\ Peer(e) = ClientEnd(c)
                         \/ e = ClientEnd(c) /\ Peer(e) = ServerEnd(c)
  BY HandledOwn, EndsFacts DEF SendFrame, HandlingPcs
<1>2. /\ out[e] # <<>>
      /\ out' = [out EXCEPT ![e] = Tail(out[e])]
      /\ chan' = [chan EXCEPT ![Peer(e)] = Append(chan[Peer(e)], Head(out[e]))]
      /\ UNCHANGED <<conn, reqs, num, served>>
  BY DEF SendFrame, handVars, threadVars
<1> HIDE DEF e
<1> DEFINE x == chan[ServerEnd(c)]
           y == out[ClientEnd(c)]
           z == reqs[c]
<1>3. x \in Frames /\ y \in Frames /\ z \in Frames BY ToServeIn
<1>4. \A d \in Conns : d # c => chan'[ServerEnd(d)] = chan[ServerEnd(d)] /\ out'[ClientEnd(d)] = out[ClientEnd(d)]
  BY <1>1, <1>2, EndsFacts DEF TypeOK
<1>5. ToServe(c)' = ToServe(c)
  <2>1. CASE e = ServerEnd(c)
    <3>1. chan'[ServerEnd(c)] = x /\ out'[ClientEnd(c)] = y
      BY <1>1, <1>2, <2>1, EndsFacts DEF TypeOK
    <3> QED BY <1>2, <3>1 DEF ToServe
  <2>2. CASE e = ClientEnd(c) /\ Peer(e) = ServerEnd(c)
    <3>1. /\ chan'[ServerEnd(c)] = Append(x, Head(y)) /\ out'[ClientEnd(c)] = Tail(y)
          /\ y # <<>>
      BY <1>2, <2>2, EndsFacts DEF TypeOK
    <3>2. CASE conn[ServerEnd(c)] = "closed" BY <1>2, <3>2 DEF ToServe
    <3>3. CASE conn[ServerEnd(c)] # "closed"
      <4>1. ToServe(c)' = Cat(Cat(Append(x, Head(y)), Tail(y)), z) BY <1>2, <3>1, <3>3 DEF ToServe
      <4>2. ToServe(c) = Cat(Cat(x, y), z) BY <3>3 DEF ToServe
      <4> HIDE DEF x, y, z
      <4> QED BY <1>3, <3>1, <4>1, <4>2, CatMoves
    <3> QED BY <3>2, <3>3
  <2> QED BY <1>1, <2>1, <2>2
<1>6. \A d \in Conns : d # c => ToServe(d)' = ToServe(d) BY <1>2, <1>4 DEF ToServe
<1> QED BY <1>2, <1>5, <1>6, SameToServe

\* While both ends live, every request on its way belongs to a waiting caller.
LEMMA ToServeOwned ==
  ASSUME TypeOK, InFlightOrder, NEW c \in Conns,
         conn[ClientEnd(c)] # "closed", conn[ServerEnd(c)] # "closed"
  PROVE  Range(ToServe(c)) \subseteq Owned(c)
<1> DEFINE v == chan[ClientEnd(c)]
           w == out[ServerEnd(c)]
           x == resp[c]
           y == chan[ServerEnd(c)]
           z == out[ClientEnd(c)]
<1>1. v \in Frames /\ w \in Frames /\ x \in Frames /\ y \in Frames /\ z \in Frames /\ reqs[c] \in Frames
  BY EndsFacts DEF TypeOK, Frames
<1>2. infl[c] = Pipe(v, w, x, y, z) BY PipelineIs DEF InFlightOrder
<1>3. ToServe(c) = Cat(Cat(y, z), reqs[c]) BY DEF ToServe
<1> HIDE DEF v, w, x, y, z
<1>4. \A q, r \in Frames : Range(Cat(q, r)) = Range(q) \cup Range(r)
  BY DistinctConcat DEF Cat, Frames
<1>5. Cat(y, z) \in Frames /\ Cat(v, w) \in Frames /\ Cat(Cat(v, w), x) \in Frames
      /\ Cat(Cat(Cat(v, w), x), y) \in Frames
  BY <1>1, CatIn
<1>6. Range(ToServe(c)) = Range(y) \cup Range(z) \cup Range(reqs[c])
  BY <1>1, <1>3, <1>4, <1>5
<1>7. Range(y) \cup Range(z) \subseteq Range(infl[c])
  BY <1>1, <1>2, <1>4, <1>5 DEF Pipe
<1> QED BY <1>6, <1>7 DEF Owned

LEMMA AppendOncePerThread ==
  ASSUME NEW q \in Seq(Msg), NEW m \in Msg, OncePerThread(q), \A n \in Range(q) : n[1] # m[1]
  PROVE  OncePerThread(Append(q, m))
<1> DEFINE r == Append(q, m)
<1>1. /\ \A i \in DOMAIN q : i \in DOMAIN r /\ r[i] = q[i]
      /\ r[Len(q) + 1] = m
      /\ \A i \in DOMAIN r : i \in DOMAIN q \/ i = Len(q) + 1
  OBVIOUS
<1> HIDE DEF r
<1> QED BY <1>1 DEF r, Range, OncePerThread

LEMMA CallToServe ==
  ASSUME LoopInv, OwnedOK, InFlightOrder, ToServeOK, ServedOK,
         NEW t \in Threads, NEW c \in Conns, Call(t, c)
  PROVE  ToServeOK'
<1> USE DEF LoopInv
<1>0. PICK m \in Msg : m = <<t, num[t] + 1>>
  <2>1. num[t] \in Nat BY DEF TypeOK
  <2>2. <<t, num[t] + 1>> \in Msg BY <2>1 DEF Msg
  <2> QED BY <2>2
<1>1. /\ pc[t] = "idle" /\ conn[ClientEnd(c)] # "closed"
      /\ reqs' = [reqs EXCEPT ![c] = Append(reqs[c], m)]
      /\ num' = [num EXCEPT ![t] = num[t] + 1]
      /\ UNCHANGED <<conn, chan, out, served>>
  BY <1>0 DEF Call, endVars
<1>2. /\ m \in Msg /\ m[1] = t /\ m[2] = num[t] + 1 /\ num'[t] = num[t] + 1 /\ num[t] \in Nat
      /\ \A u \in Threads : u # t => num'[u] = num[u]
      /\ reqs'[c] = Append(reqs[c], m) /\ \A d \in Conns : d # c => reqs'[d] = reqs[d]
  BY <1>0, <1>1 DEF TypeOK
<1>4. \A d \in Conns : d # c => ToServe(d)' = ToServe(d) BY <1>1, <1>2 DEF ToServe
<1>5. \A d \in Conns : \A n \in Range(ToServe(d)) : PendingOK(d, n) /\ PendingOK(d, n)' /\ n # m
  <2> TAKE d \in Conns
  <2> TAKE n \in Range(ToServe(d))
  <2>1. PendingOK(d, n) BY DEF ToServeOK
  <2>2. n[1] \in Threads /\ n[2] \in Nat /\ num[n[1]] \in Nat BY ToServeMsgs DEF TypeOK
  <2>3. num[n[1]] <= num'[n[1]] /\ num'[n[1]] \in Nat BY <1>2, <2>2
  <2>4. n # m BY <1>2, <2>1 DEF PendingOK
  <2> QED BY <1>1, <2>1, <2>2, <2>3, <2>4 DEF PendingOK
<1>6. PendingOK(c, m)'
  <2>1. \A d \in Conns : Range(served[<<d, t>>]) \subseteq 1 .. num[t] BY DEF ServedOK
  <2>2. num[t] + 1 \in 1 .. num[t] + 1 /\ \A j \in 1 .. num[t] : j < num[t] + 1 BY <1>2
  <2>3. \A d \in Conns : \A j \in Range(served[<<d, t>>]) : j < num[t] + 1 BY <2>1, <2>2
  <2>4. \A d \in Conns : num[t] + 1 \notin Range(served[<<d, t>>])
    <3>1. num[t] + 1 \notin 1 .. num[t] BY <1>2
    <3> QED BY <2>1, <3>1
  <2> QED BY <1>1, <1>2, <2>2, <2>3, <2>4 DEF PendingOK
<1>7. CASE conn[ServerEnd(c)] = "closed"
  <2>1. ToServe(c)' = ToServe(c) BY <1>1, <1>7 DEF ToServe
  <2> QED BY <1>4, <1>5, <2>1 DEF ToServeOK
<1>8. CASE conn[ServerEnd(c)] # "closed"
  <2> DEFINE a == Cat(chan[ServerEnd(c)], out[ClientEnd(c)])
             z == reqs[c]
             q == ToServe(c)
  <2>1. a \in Frames /\ z \in Frames /\ q \in Seq(Msg) BY ToServeIn, CatIn
  <2>2. q = Cat(a, z) BY <1>8 DEF ToServe
  <2>3. ToServe(c)' = Cat(a, Append(z, m)) BY <1>1, <1>2, <1>8 DEF ToServe
  <2>4. \A n \in Range(q) : n[1] # t
    BY <1>1, <1>8, ToServeOwned, IdleOwnsNothing DEF CallPcs
  <2>5. OncePerThread(q) BY DEF ToServeOK
  <2> HIDE DEF a, z, q
  <2>6. ToServe(c)' = Append(q, m)
    <3>1. Cat(a, Append(z, m)) = Append(Cat(a, z), m) BY <2>1, CatMoves
    <3> QED BY <2>2, <2>3, <3>1
  <2>7. Range(ToServe(c)') = Range(q) \cup {m} BY <2>1, <2>6, RangeOfAppend
  <2>8. OncePerThread(ToServe(c)') BY <1>2, <2>1, <2>4, <2>5, <2>6, AppendOncePerThread
  <2>9. ASSUME NEW d \in Conns, NEW n \in Range(ToServe(d)') PROVE PendingOK(d, n)'
    <3>1. CASE d = c BY <1>5, <1>6, <2>7, <2>9, <3>1 DEF q
    <3>2. CASE d # c BY <1>4, <1>5, <2>9, <3>2
    <3> QED BY <3>1, <3>2
  <2>10. \A d \in Conns : OncePerThread(ToServe(d)') BY <1>4, <2>8 DEF ToServeOK
  <2>11. \A d \in Conns : d # c => Range(ToServe(d)') \cap Range(ToServe(c)') = {}
    BY <1>4, <1>5, <2>7 DEF ToServeOK, q
  <2> QED BY <1>4, <2>9, <2>10, <2>11 DEF ToServeOK
<1> QED BY <1>7, <1>8

LEMMA CallFailsToServe ==
  ASSUME TypeOK, ToServeOK, NEW t \in Threads, NEW c \in Conns, CallFails(t, c)
  PROVE  ToServeOK'
<1>1. /\ num' = [num EXCEPT ![t] = num[t] + 1]
      /\ UNCHANGED <<conn, chan, out, reqs, served>>
  BY DEF CallFails, endVars, handVars
<1>2. \A d \in Conns : ToServe(d)' = ToServe(d) BY <1>1 DEF ToServe
<1>3. ASSUME NEW d \in Conns, NEW n \in Range(ToServe(d)) PROVE PendingOK(d, n)'
  <2>1. PendingOK(d, n) BY DEF ToServeOK
  <2>2. n[1] \in Threads /\ n[2] \in Nat /\ num[n[1]] \in Nat BY ToServeMsgs DEF TypeOK
  <2>3. num[n[1]] <= num'[n[1]] /\ num'[n[1]] \in Nat BY <1>1, <2>2 DEF TypeOK
  <2> QED BY <1>1, <2>1, <2>2, <2>3 DEF PendingOK
<1> QED BY <1>2, <1>3 DEF ToServeOK

\* process() runs the oldest request the server has received.
LEMMA RequestServed ==
  ASSUME LoopInv, ToServeOK, NEW l \in Loops, RecvRequest(l)
  PROVE  \E c \in Conns : \E m \in Msg :
           /\ m = <<m[1], m[2]>> /\ m[1] \in Threads /\ m[2] \in Nat
           /\ m \in Range(ToServe(c)) /\ PendingOK(c, m)
           /\ served' = [served EXCEPT ![<<c, m[1]>>] = Append(served[<<c, m[1]>>], m[2])]
           /\ resp' = [resp EXCEPT ![c] = Append(resp[c], m)]
           /\ chan' = [chan EXCEPT ![ServerEnd(c)] = Tail(chan[ServerEnd(c)])]
           /\ \A d \in Conns : d # c => ToServe(d)' = ToServe(d)
           /\ Range(ToServe(c)') \subseteq Range(ToServe(c)) \ {m}
           /\ OncePerThread(ToServe(c)')
           /\ \A n \in Range(ToServe(c)') : n[1] # m[1]
<1> USE DEF LoopInv
<1>1. PICK c \in Conns : /\ cur[l].end = ServerEnd(c) /\ ServerEnd(c)[1] = c
                         /\ conn[ServerEnd(c)] = "open"
  BY HandledOwn, EndsFacts DEF RecvRequest, HandlingPcs
<1> DEFINE x == chan[ServerEnd(c)]
           y == out[ClientEnd(c)]
           z == reqs[c]
           q == ToServe(c)
<1>2. x \in Frames /\ y \in Frames /\ z \in Frames /\ q \in Seq(Msg) BY ToServeIn
<1>3. /\ x # <<>>
      /\ chan' = [chan EXCEPT ![ServerEnd(c)] = Tail(x)]
      /\ resp' = [resp EXCEPT ![c] = Append(resp[c], Head(x))]
      /\ served' = [served EXCEPT ![<<c, Head(x)[1]>>] = Append(served[<<c, Head(x)[1]>>], Head(x)[2])]
      /\ UNCHANGED <<conn, out, reqs>>
  BY <1>1 DEF RecvRequest, TakeFrame
<1>4. chan'[ServerEnd(c)] = Tail(x) /\ \A d \in Conns : d # c => chan'[ServerEnd(d)] = chan[ServerEnd(d)]
  BY <1>3, EndsFacts DEF TypeOK
<1>5. PICK m \in Msg : m = Head(x) BY <1>2, <1>3 DEF Frames
<1>6. q # <<>> /\ Head(q) = m /\ ToServe(c)' = Tail(q)
  <2>1. ToServe(c)' = Cat(Cat(Tail(x), y), z) BY <1>1, <1>3, <1>4 DEF ToServe
  <2>2. q = Cat(x, Cat(y, z)) BY <1>1, <1>2, CatAssoc DEF ToServe
  <2>3. Tail(x) \in Frames BY <1>2, <1>3 DEF Frames
  <2>4. x # <<>> /\ m = Head(x) BY <1>3, <1>5
  <2> HIDE DEF x, y, z, q
  <2>5. ToServe(c)' = Cat(Tail(x), Cat(y, z)) BY <1>2, <2>1, <2>3, CatAssoc
  <2>6. Cat(y, z) \in Frames BY <1>2, CatIn
  <2>7. PICK w \in Frames : w = Cat(y, z) BY <2>6
  <2>8. /\ Tail(Cat(x, w)) = Cat(Tail(x), w) /\ Cat(x, w) # <<>>
    BY <1>2, <2>4, TailOfConcat DEF Cat, Frames
  <2>9. Head(Cat(x, w)) = Head(x)
    BY <1>2, <2>4 DEF Cat, Frames
  <2> QED BY <2>2, <2>4, <2>5, <2>7, <2>8, <2>9
<1>7. OncePerThread(q) /\ m \in Range(q) /\ PendingOK(c, m)
  <2>1. Head(q) \in Range(q) BY <1>2, <1>6, RangeOfTail
  <2> QED BY <1>6, <2>1 DEF ToServeOK
<1> HIDE DEF q
<1>8. /\ OncePerThread(Tail(q))
      /\ \A n \in Range(Tail(q)) : n \in Range(q) /\ n[1] # m[1]
  <2> DEFINE r == Tail(q)
  <2>1. /\ Head(q) = q[1] /\ 1 \in DOMAIN q
        /\ \A i \in DOMAIN r : i \in Nat /\ i + 1 \in DOMAIN q /\ r[i] = q[i + 1] /\ i + 1 # 1
    BY <1>2, <1>6
  <2> HIDE DEF r
  <2>2. ASSUME NEW i \in DOMAIN r PROVE r[i] \in Range(q) /\ r[i][1] # m[1]
    BY <1>6, <1>7, <2>1 DEF Range, OncePerThread
  <2>3. ASSUME NEW i \in DOMAIN r, NEW j \in DOMAIN r, r[i][1] = r[j][1] PROVE i = j
    <3>1. i + 1 = j + 1 BY <1>7, <2>1, <2>3 DEF OncePerThread
    <3> QED BY <2>1, <3>1
  <2>4. OncePerThread(r) BY <2>3 DEF OncePerThread
  <2>5. \A n \in Range(r) : n \in Range(q) /\ n[1] # m[1] BY <2>2 DEF Range
  <2> QED BY <2>4, <2>5 DEF r
<1>9. \A d \in Conns : d # c => ToServe(d)' = ToServe(d) BY <1>3, <1>4 DEF ToServe
<1>10. m = <<m[1], m[2]>> /\ m[1] \in Threads /\ m[2] \in Nat BY DEF Msg
<1> QED BY <1>3, <1>5, <1>6, <1>7, <1>8, <1>9, <1>10 DEF q

LEMMA RecvToServe ==
  ASSUME LoopInv, ToServeOK, NEW l \in Loops, RecvRequest(l)
  PROVE  ToServeOK'
<1> USE DEF LoopInv
<1>1. PICK c \in Conns, m \in Msg :
           /\ m = <<m[1], m[2]>> /\ m[1] \in Threads /\ m[2] \in Nat
           /\ m \in Range(ToServe(c)) /\ PendingOK(c, m)
           /\ served' = [served EXCEPT ![<<c, m[1]>>] = Append(served[<<c, m[1]>>], m[2])]
           /\ \A d \in Conns : d # c => ToServe(d)' = ToServe(d)
           /\ Range(ToServe(c)') \subseteq Range(ToServe(c)) \ {m}
           /\ OncePerThread(ToServe(c)')
           /\ \A n \in Range(ToServe(c)') : n[1] # m[1]
  BY RequestServed
<1>2. num' = num BY DEF RecvRequest, threadVars
<1>3. \A d \in Conns : Range(ToServe(d)') \subseteq Range(ToServe(d)) BY <1>1
<1>4. ASSUME NEW d \in Conns, NEW n \in Range(ToServe(d)') PROVE PendingOK(d, n)'
  <2>1. PendingOK(d, n) /\ n[1] \in Threads /\ n = <<n[1], n[2]>>
    BY <1>3, <1>4, ToServeMsgs DEF ToServeOK
  <2>2. CASE n[1] # m[1]
    <3>1. \A b \in Conns : served'[<<b, n[1]>>] = served[<<b, n[1]>>]
      BY <1>1, <2>1, <2>2 DEF TypeOK
    <3> QED BY <1>2, <2>1, <3>1 DEF PendingOK
  <2>3. CASE n[1] = m[1]
    <3>1. d # c BY <1>1, <1>4, <2>3
    <3>2. n # m BY <1>1, <1>3, <1>4, <3>1 DEF ToServeOK
    <3>3. n[2] # m[2] BY <1>1, <2>1, <2>3, <3>2
    <3> DEFINE q == served[<<c, n[1]>>]
               r == served'[<<c, n[1]>>]
    <3>4. \A b \in Conns : b # c => served'[<<b, n[1]>>] = served[<<b, n[1]>>]
      BY <1>1, <2>1, <2>3 DEF TypeOK
    <3>5. q \in Seq(Nat) /\ r = Append(q, m[2])
      BY <1>1, <2>1, <2>3 DEF TypeOK
    <3> HIDE DEF q, r
    <3>6. Range(r) = Range(q) \cup {m[2]}
      <4>1. Range(Append(q, m[2])) = Range(q) \cup {m[2]} BY <1>1, <3>5, RangeOfAppend
      <4> QED BY <3>5, <4>1, Zenon
    <3>7. \A b \in Conns : n[2] \notin Range(served'[<<b, n[1]>>])
      <4>1. \A b \in Conns : n[2] \notin Range(served[<<b, n[1]>>]) BY <2>1 DEF PendingOK
      <4>2. n[2] \notin Range(r) BY <3>3, <3>6, <4>1 DEF q
      <4> QED BY <3>4, <4>1, <4>2 DEF r
    <3>8. \A j \in Range(served'[<<d, n[1]>>]) : j < n[2]
      BY <2>1, <3>1, <3>4 DEF PendingOK
    <3> QED BY <1>2, <2>1, <3>7, <3>8 DEF PendingOK
  <2> QED BY <2>2, <2>3
<1>5. \A d \in Conns : OncePerThread(ToServe(d)') BY <1>1 DEF ToServeOK
<1>6. \A d, b \in Conns : d # b => Range(ToServe(d)') \cap Range(ToServe(b)') = {}
  BY <1>3 DEF ToServeOK
<1> QED BY <1>4, <1>5, <1>6 DEF ToServeOK

LEMMA ToServeStep ==
  ASSUME LoopInv, OwnedOK, InFlightOrder, ToServeOK, ServedOK, [Next]_vars
  PROVE  ToServeOK'
<1> USE DEF LoopInv
<1>1. CASE UNCHANGED vars
  BY <1>1, QuietToServe DEF vars, endVars, handVars, threadVars
<1>2. ASSUME NEW t \in Threads, ThreadStep(t)
      PROVE  ToServeOK'
  BY <1>2, QuietToServe DEF ThreadStep, Kick, Wake, WakeDropped, BindReturn, CallReturn,
     DropRelease, Join, endVars, handVars
<1>3. ASSUME NEW t \in Threads, Begin(t)
      PROVE  ToServeOK'
  <2>1. ASSUME NEW e \in Ends, BindFails(t, e) PROVE ToServeOK'
    BY <2>1, CloseToServe DEF BindFails, threadVars
  <2>2. ASSUME NEW e \in Ends, NEW sync \in BOOLEAN, Bind(t, e, sync) PROVE ToServeOK'
    BY <2>2, QuietToServe DEF Bind, handVars, TypeOK
  <2>3. ASSUME NEW l \in Stoppable, Stop(t, l) PROVE ToServeOK'
    BY <2>3, QuietToServe DEF Stop, endVars, handVars
  <2>4. ASSUME NEW c \in Conns, DropRead(t, c) \/ \E u \in Threads : Clone(t, u, c)
        PROVE  ToServeOK'
    BY <2>4, QuietToServe DEF DropRead, Clone, endVars, handVars, threadVars
  <2>5. ASSUME NEW c \in Conns, Call(t, c) PROVE ToServeOK'
    BY <2>5, CallToServe
  <2>6. ASSUME NEW c \in Conns, CallFails(t, c) PROVE ToServeOK'
    BY <2>6, CallFailsToServe
  <2> QED BY <1>3, <2>1, <2>2, <2>3, <2>4, <2>5, <2>6 DEF Begin
<1>4. ASSUME NEW l \in Loops, LoopStep(l) \/ PollFails(l)
      PROVE  ToServeOK'
  <2>1. LoopKind(l) BY <1>4, LoopKinds
  <2>2. CASE \/ Poll(l) \/ HandleEvent(l) \/ SpuriousEvent(l) \/ EventsDone(l) \/ RecvDone(l) \/ FlushDone(l)
             \/ SendBlocks(l) \/ SetWritable(l) \/ SendDone(l) \/ WakeConnection(l)
             \/ SpuriousWake(l) \/ RequestsDone(l)
    BY <2>2, QuietToServe DEF Poll, HandleEvent, SpuriousEvent, EventsDone, RecvDone, FlushDone, SendBlocks,
       SetWritable, SendDone, WakeConnection, SpuriousWake, RequestsDone, endVars, handVars, threadVars
  <2>3. CASE RecvResponse(l) \/ FlushResponse(l)
    <3>1. PICK c \in Conns : \/ RecvResponse(l) /\ cur[l].end = ClientEnd(c)
                             \/ FlushResponse(l) /\ cur[l].end = ServerEnd(c)
      BY <2>3, HandledOwn, EndsFacts DEF RecvResponse, FlushResponse, HandlingPcs
    <3>2. \A d \in Conns : chan'[ServerEnd(d)] = chan[ServerEnd(d)] /\ out'[ClientEnd(d)] = out[ClientEnd(d)]
      <4>1. CASE RecvResponse(l) /\ cur[l].end = ClientEnd(c)
        BY <4>1, EndsFacts DEF RecvResponse, TakeFrame, TypeOK
      <4>2. CASE FlushResponse(l) /\ cur[l].end = ServerEnd(c)
        BY <4>2, EndsFacts DEF FlushResponse, TypeOK
      <4> QED BY <3>1, <4>1, <4>2
    <3>3. UNCHANGED <<conn, reqs, num, served>>
      BY <2>3 DEF RecvResponse, FlushResponse, threadVars
    <3>4. \A d \in Conns : ToServe(d)' = ToServe(d) BY <3>2, <3>3 DEF ToServe
    <3> QED BY <3>3, <3>4, SameToServe
  <2>4. CASE RecvRequest(l) BY <2>4, RecvToServe
  <2>5. CASE FlushRequest(l) BY <2>5, FlushToServe
  <2>6. CASE SendFrame(l) BY <2>6, SendToServe
  <2>7. CASE lpc[l] \in HandlingPcs /\ RemoveConnection(l)
    BY <2>7, CloseToServe DEF RemoveConnection, threadVars
  <2>8. CASE AddConnection(l)
    <3>1. conn[Head(lq[l]).end] = "queued"
      <4>1. Head(lq[l]) = lq[l][1] /\ 1 \in DOMAIN lq[l]
        BY <2>8 DEF AddConnection, PopRequest, TypeOK
      <4> QED BY <2>8, <4>1 DEF AddConnection, PopRequest, QueueOK
    <3> QED BY <2>8, <3>1, QuietToServe DEF AddConnection, handVars, TypeOK
  <2>9. CASE AddConnectionFails(l) BY <2>9, CloseToServe DEF AddConnectionFails
  <2>10. CASE lpc[l] \in {"poll", "requests"} /\ ExitLoop(l) BY <2>10, CloseToServe DEF ExitLoop
  <2> QED BY <2>1, <2>2, <2>3, <2>4, <2>5, <2>6, <2>7, <2>8, <2>9, <2>10 DEF LoopKind
<1> QED BY <1>1, <1>2, <1>3, <1>4 DEF Next

LEMMA QuietServed ==
  ASSUME ServedOK, UNCHANGED <<num, served, item>>,
         \A c \in Conns : Answers(c)' \subseteq Answers(c)
  PROVE  ServedOK'
BY DEF ServedOK

LEMMA SameAnswers ==
  ASSUME UNCHANGED <<chan, out, resp>>, NEW c \in Conns
  PROVE  Answers(c)' = Answers(c)
BY DEF Answers

LEMMA CloseAnswers ==
  ASSUME NEW S, CloseEnds(S), NEW c \in Conns
  PROVE  Answers(c)' \subseteq Answers(c)
<1>1. \A e \in Ends : /\ chan'[e] = chan[e] \/ chan'[e] = <<>>
                      /\ out'[e] = out[e] \/ out'[e] = <<>>
  BY DEF CloseEnds
<1>2. resp'[c] = resp[c] \/ resp'[c] = <<>> BY DEF CloseEnds
<1>3. Range(<<>>) = {} BY DEF Range
<1> QED BY <1>1, <1>2, <1>3, EndsFacts DEF Answers

\* A counted call has no answer yet, and changes nobody else's.
LEMMA CountServed ==
  ASSUME TypeOK, ServedOK, NEW t \in Threads, num[t] < MaxCalls,
         num' = [num EXCEPT ![t] = @ + 1], item' = [item EXCEPT ![t] = {}],
         UNCHANGED <<chan, out, resp, served>>
  PROVE  ServedOK'
<1>1. \A c \in Conns : Answers(c)' = Answers(c) BY SameAnswers
<1>2. \A u \in Threads : num[u] \in Nat /\ num'[u] \in Nat /\ num[u] <= num'[u] /\ num'[u] <= MaxCalls
  BY ConstantsAssumption DEF TypeOK, ServedOK
<1>3. \A u \in Threads : 1 .. num[u] \subseteq 1 .. num'[u] BY <1>2
<1>4. \A u \in Threads : item'[u] # {} => item[u] # {} /\ num'[u] = num[u]
  BY DEF TypeOK
<1> QED BY <1>1, <1>2, <1>3, <1>4 DEF ServedOK

\* An answer taken from one buffer of the server's and put in the next.
LEMMA MoveAnswer ==
  ASSUME LoopInv, ServedOK, NEW l \in Loops, FlushResponse(l) \/ SendFrame(l)
  PROVE  ServedOK'
<1> USE DEF LoopInv
<1> DEFINE e == cur[l].end
<1>1. PICK c \in Conns : \/ e = ServerEnd(c) /\ Peer(e) = ClientEnd(c) /\ e[1] = c
                         \/ SendFrame(l) /\ e = ClientEnd(c) /\ Peer(e) = ServerEnd(c)
  BY HandledOwn, EndsFacts DEF SendFrame, FlushResponse, HandlingPcs
<1>2. UNCHANGED <<num, served, item>>
  BY DEF SendFrame, FlushResponse, threadVars
<1>3. CASE SendFrame(l)
  <2>1. /\ out[e] # <<>> /\ resp' = resp
        /\ out' = [out EXCEPT ![e] = Tail(out[e])]
        /\ chan' = [chan EXCEPT ![Peer(e)] = Append(chan[Peer(e)], Head(out[e]))]
    BY <1>3 DEF SendFrame, handVars
  <2>2. CASE e = ClientEnd(c) /\ Peer(e) = ServerEnd(c)
    <3>1. \A d \in Conns : Answers(d)' = Answers(d)
      BY <2>1, <2>2, EndsFacts DEF Answers, TypeOK
    <3> QED BY <1>2, <3>1, QuietServed
  <2>3. CASE e = ServerEnd(c) /\ Peer(e) = ClientEnd(c)
    <3>1. \A d \in Conns : d # c => Answers(d)' = Answers(d)
      BY <2>1, <2>3, EndsFacts DEF Answers, TypeOK
    <3> DEFINE q == out[ServerEnd(c)]
               r == chan[ClientEnd(c)]
    <3>2. q \in Seq(Msg) /\ q # <<>> /\ r \in Seq(Msg)
      BY <2>1, <2>3, EndsFacts DEF TypeOK
    <3>3. out'[ServerEnd(c)] = Tail(q) /\ chan'[ClientEnd(c)] = PushBack(r, Head(q)) /\ resp' = resp
      BY <2>1, <2>3, EndsFacts DEF TypeOK, PushBack
    <3> HIDE DEF q, r
    <3>4. /\ Range(Tail(q)) \subseteq Range(q)
          /\ Range(PushBack(r, Head(q))) \subseteq Range(r) \cup Range(q)
      BY <3>2, RangeOfTail, RangeOfAppend DEF PushBack
    <3>5. Answers(c)' \subseteq Answers(c) BY <3>3, <3>4 DEF Answers, q, r
    <3> QED BY <1>2, <3>1, <3>5, QuietServed
  <2> QED BY <1>1, <2>2, <2>3
<1>4. CASE FlushResponse(l)
  <2>0. e = ServerEnd(c) /\ e[1] = c
    BY <1>1, <1>4, EndsFacts DEF FlushResponse, ClientEnd
  <2>1. /\ resp[c] # <<>> /\ chan' = chan
        /\ resp' = [resp EXCEPT ![c] = Tail(resp[c])]
        /\ out' = [out EXCEPT ![e] = Append(out[e], Head(resp[c]))]
    BY <1>4, <2>0 DEF FlushResponse
  <2>2. \A d \in Conns : d # c => Answers(d)' = Answers(d)
    BY <2>0, <2>1, EndsFacts DEF Answers, TypeOK
  <2> DEFINE q == resp[c]
             r == out[ServerEnd(c)]
  <2>3. q \in Seq(Msg) /\ q # <<>> /\ r \in Seq(Msg)
    BY <2>1, EndsFacts DEF TypeOK
  <2>4. resp'[c] = Tail(q) /\ out'[ServerEnd(c)] = PushBack(r, Head(q)) /\ chan' = chan
    BY <2>0, <2>1, EndsFacts DEF TypeOK, PushBack
  <2> HIDE DEF q, r
  <2>5. /\ Range(Tail(q)) \subseteq Range(q)
        /\ Range(PushBack(r, Head(q))) \subseteq Range(r) \cup Range(q)
    BY <2>3, RangeOfTail, RangeOfAppend DEF PushBack
  <2>6. Answers(c)' \subseteq Answers(c) BY <2>4, <2>5 DEF Answers, q, r
  <2> QED BY <1>2, <2>2, <2>6, QuietServed
<1> QED BY <1>3, <1>4

\* The client takes an answer: what it returns has been processed.
LEMMA TakeAnswer ==
  ASSUME LoopInv, OwnedOK, InFlightOrder, ServedOK, NEW l \in Loops, RecvResponse(l)
  PROVE  /\ ServedOK'
         /\ UNCHANGED <<num, served, pc>>
         /\ \E t \in Threads : pc[t] \in CallPcs /\ \A u \in Threads : u # t => item'[u] = item[u]
<1> USE DEF LoopInv
<1>1. PICK c \in Conns : cur[l].end = ClientEnd(c) /\ ClientEnd(c)[1] = c /\ conn[ClientEnd(c)] = "open"
  BY HandledOwn, EndsFacts DEF RecvResponse, HandlingPcs
<1> DEFINE q == chan[ClientEnd(c)]
<1>2. /\ infl[c] # <<>> /\ q # <<>> /\ UNCHANGED <<num, served, out, resp, pc>>
      /\ item' = [item EXCEPT ![Head(infl[c])[1]] = {Head(q)}]
      /\ chan' = [chan EXCEPT ![ClientEnd(c)] = Tail(q)]
  BY <1>1 DEF RecvResponse, Mismatch, TakeFrame, threadVars
<1>3. ClientEnd(c) \in Ends /\ infl[c] \in Seq(Msg) /\ q \in Seq(Msg) BY EndsFacts DEF TypeOK
<1>4. PICK m \in Msg : m = Head(q) BY <1>2, <1>3
<1>5. Head(infl[c]) = m
  <2>1. 1 \in DOMAIN q BY <1>2, <1>3
  <2>2. 1 \in DOMAIN infl[c] /\ q[1] = infl[c][1] BY <1>1, <2>1 DEF InFlightOrder
  <2> QED BY <1>2, <1>3, <1>4, <2>2
<1>6. m \in Owned(c) BY <1>2, <1>3, <1>5, RangeOfTail DEF Owned
<1>7. m[2] = num[m[1]] /\ m[1] \in Threads /\ pc[m[1]] \in CallPcs
  BY <1>6, OwnedMsgs DEF OwnedOK, OwnerOf
<1>8. m \in Answers(c) /\ Range(Tail(q)) \subseteq Range(q)
  BY <1>2, <1>3, <1>4, RangeOfTail DEF Answers
<1>9. chan'[ClientEnd(c)] = Tail(q) /\ \A d \in Conns : d # c => chan'[ClientEnd(d)] = chan[ClientEnd(d)]
  BY <1>2, <1>3, EndsFacts DEF TypeOK
<1> HIDE DEF q
<1>10. \A d \in Conns : Answers(d)' \subseteq Answers(d)
  BY <1>2, <1>8, <1>9 DEF Answers, q
<1>11. \A u \in Threads : u # m[1] => item'[u] = item[u]
  BY <1>2, <1>5 DEF TypeOK
<1>12. num[m[1]] \in Range(served[<<c, m[1]>>])
  BY <1>7, <1>8 DEF ServedOK
<1>13. \A u \in Threads : item'[u] # {} => \E d \in Conns : num[u] \in Range(served[<<d, u>>])
  BY <1>11, <1>12 DEF ServedOK
<1>14. ServedOK' BY <1>2, <1>10, <1>13 DEF ServedOK
<1> QED BY <1>2, <1>7, <1>11, <1>14

\* The server takes a request: it is called, and answered once processed.
LEMMA TakeRequest ==
  ASSUME LoopInv, ToServeOK, ServedOK, NEW l \in Loops, RecvRequest(l)
  PROVE  ServedOK'
<1> USE DEF LoopInv
<1>1. PICK c \in Conns, m \in Msg :
           /\ m = <<m[1], m[2]>> /\ m[1] \in Threads /\ m[2] \in Nat
           /\ PendingOK(c, m)
           /\ served' = [served EXCEPT ![<<c, m[1]>>] = Append(served[<<c, m[1]>>], m[2])]
           /\ resp' = [resp EXCEPT ![c] = Append(resp[c], m)]
           /\ chan' = [chan EXCEPT ![ServerEnd(c)] = Tail(chan[ServerEnd(c)])]
  BY RequestServed
<1>2. UNCHANGED <<num, item, out>> BY DEF RecvRequest, threadVars
<1> DEFINE s == served[<<c, m[1]>>]
<1>3. /\ s \in Seq(Nat) /\ served'[<<c, m[1]>>] = PushBack(s, m[2])
      /\ \A d \in Conns, t \in Threads : <<d, t>> # <<c, m[1]>> => served'[<<d, t>>] = served[<<d, t>>]
  BY <1>1 DEF TypeOK, PushBack
<1>4. resp[c] \in Seq(Msg) /\ resp'[c] = PushBack(resp[c], m) /\ \A d \in Conns : d # c => resp'[d] = resp[d]
  BY <1>1 DEF TypeOK, PushBack
<1> HIDE DEF s
<1>5. Range(served'[<<c, m[1]>>]) = Range(s) \cup {m[2]}
  <2>0. Range(Append(s, m[2])) = Range(s) \cup {m[2]}
    <3>1. s \in Seq(Nat) /\ m[2] \in Nat BY <1>1, <1>3
    <3> QED BY <3>1, RangeOfAppend
  <2>1. Range(PushBack(s, m[2])) = Range(s) \cup {m[2]} BY <2>0 DEF PushBack
  <2> QED BY <1>3, <2>1, Zenon
<1>6. Range(resp'[c]) = Range(resp[c]) \cup {m}
  <2>1. Range(PushBack(resp[c], m)) = Range(resp[c]) \cup {m} BY <1>4, RangeOfAppend DEF PushBack
  <2> QED BY <1>4, <2>1, Zenon
<1>7. \A d \in Conns, t \in Threads :
        /\ Range(served[<<d, t>>]) \subseteq Range(served'[<<d, t>>])
        /\ Range(served'[<<d, t>>]) \subseteq 1 .. num[t]
  <2> TAKE d \in Conns, t \in Threads
  <2>1. Range(served[<<d, t>>]) \subseteq 1 .. num[t] BY DEF ServedOK
  <2>2. CASE <<d, t>> = <<c, m[1]>>
    <3>1. m[2] \in 1 .. num[t] BY <1>1, <2>2 DEF PendingOK
    <3> QED BY <1>5, <2>1, <2>2, <3>1 DEF s
  <2>3. CASE <<d, t>> # <<c, m[1]>> BY <1>3, <2>1, <2>3
  <2> QED BY <2>2, <2>3
<1>8. \A d \in Conns : \A n \in Answers(d)' : n[1] \in Threads /\ n[2] \in Range(served'[<<d, n[1]>>])
  <2> TAKE d \in Conns
  <2> TAKE n \in Answers(d)'
  <2>1. chan'[ClientEnd(d)] = chan[ClientEnd(d)]
    BY <1>1, EndsFacts DEF TypeOK
  <2>2. n \in Answers(d) \/ (d = c /\ n = m)
    BY <1>2, <1>4, <1>6, <2>1 DEF Answers
  <2>3. ASSUME n \in Answers(d) PROVE n[1] \in Threads
    <3>1. chan[ClientEnd(d)] \in Seq(Msg) /\ out[ServerEnd(d)] \in Seq(Msg) /\ resp[d] \in Seq(Msg)
      BY EndsFacts DEF TypeOK
    <3>2. n \in Msg BY <2>3, <3>1, ElementOfSeq DEF Answers, Range
    <3> QED BY <3>2 DEF Msg
  <2>4. ASSUME n \in Answers(d) PROVE n[2] \in Range(served[<<d, n[1]>>])
    BY <2>4 DEF ServedOK
  <2> QED BY <1>1, <1>5, <1>7, <2>2, <2>3, <2>4
<1> QED BY <1>2, <1>7, <1>8 DEF ServedOK

LEMMA ServedStep ==
  ASSUME LoopInv, OwnedOK, InFlightOrder, ToServeOK, ServedOK, [Next]_vars
  PROVE  ServedOK'
<1> USE DEF LoopInv
<1>1. CASE UNCHANGED vars
  BY <1>1, QuietServed, SameAnswers DEF vars, endVars, handVars, threadVars
<1>2. ASSUME NEW t \in Threads, ThreadStep(t)
      PROVE  ServedOK'
  BY <1>2, QuietServed, SameAnswers DEF ThreadStep, Kick, Wake, WakeDropped, BindReturn, CallReturn,
     DropRelease, Join, endVars, handVars
<1>3. ASSUME NEW t \in Threads, Begin(t)
      PROVE  ServedOK'
  <2>1. ASSUME NEW e \in Ends, BindFails(t, e) PROVE ServedOK'
    BY <2>1, QuietServed, CloseAnswers DEF BindFails, threadVars
  <2>2. ASSUME NEW e \in Ends, NEW sync \in BOOLEAN, Bind(t, e, sync) PROVE ServedOK'
    BY <2>2, QuietServed, SameAnswers DEF Bind, handVars
  <2>3. ASSUME NEW l \in Stoppable, Stop(t, l) PROVE ServedOK'
    BY <2>3, QuietServed, SameAnswers DEF Stop, endVars, handVars
  <2>4. ASSUME NEW c \in Conns, DropRead(t, c) \/ \E u \in Threads : Clone(t, u, c)
        PROVE  ServedOK'
    BY <2>4, QuietServed, SameAnswers DEF DropRead, Clone, endVars, handVars, threadVars
  <2>5. ASSUME NEW c \in Conns, Call(t, c) \/ CallFails(t, c) PROVE ServedOK'
    BY <2>5, CountServed DEF Call, CallFails, endVars, handVars
  <2> QED BY <1>3, <2>1, <2>2, <2>3, <2>4, <2>5 DEF Begin
<1>4. ASSUME NEW l \in Loops, LoopStep(l) \/ PollFails(l)
      PROVE  ServedOK'
  <2>1. LoopKind(l) BY <1>4, LoopKinds
  <2>2. CASE \/ Poll(l) \/ HandleEvent(l) \/ SpuriousEvent(l) \/ EventsDone(l) \/ RecvDone(l) \/ FlushDone(l)
             \/ SendBlocks(l) \/ SetWritable(l) \/ SendDone(l) \/ WakeConnection(l)
             \/ SpuriousWake(l) \/ RequestsDone(l) \/ AddConnection(l)
    BY <2>2, QuietServed, SameAnswers DEF Poll, HandleEvent, SpuriousEvent, EventsDone, RecvDone, FlushDone,
       SendBlocks, SetWritable, SendDone, WakeConnection, SpuriousWake, RequestsDone, AddConnection,
       endVars, handVars, threadVars
  <2>3. CASE FlushRequest(l)
    <3>1. PICK c \in Conns : cur[l].end = ClientEnd(c)
      BY <2>3, HandledOwn, EndsFacts DEF FlushRequest, HandlingPcs
    <3>2. UNCHANGED <<num, served, item, chan, resp>> /\ \A d \in Conns : out'[ServerEnd(d)] = out[ServerEnd(d)]
      BY <2>3, <3>1, EndsFacts DEF FlushRequest, threadVars, TypeOK
    <3>3. \A d \in Conns : Answers(d)' = Answers(d) BY <3>2 DEF Answers
    <3> QED BY <3>2, <3>3, QuietServed
  <2>4. CASE RecvRequest(l) BY <2>4, TakeRequest
  <2>5. CASE RecvResponse(l) BY <2>5, TakeAnswer
  <2>6. CASE SendFrame(l) \/ FlushResponse(l) BY <2>6, MoveAnswer
  <2>7. CASE lpc[l] \in HandlingPcs /\ RemoveConnection(l)
    BY <2>7, QuietServed, CloseAnswers DEF RemoveConnection, threadVars
  <2>8. CASE AddConnectionFails(l) BY <2>8, QuietServed, CloseAnswers DEF AddConnectionFails
  <2>9. CASE lpc[l] \in {"poll", "requests"} /\ ExitLoop(l)
    BY <2>9, QuietServed, CloseAnswers DEF ExitLoop
  <2> QED BY <2>1, <2>2, <2>3, <2>4, <2>5, <2>6, <2>7, <2>8, <2>9 DEF LoopKind
<1> QED BY <1>1, <1>2, <1>3, <1>4 DEF Next

LEMMA ServeInit == Init => ToServeOK /\ ServedOK
<1> SUFFICES ASSUME Init PROVE ToServeOK /\ ServedOK
  OBVIOUS
<1>1. ASSUME NEW c \in Conns PROVE ToServe(c) = <<>>
  <2>1. ToServe(c) = (<<>> \o <<>>) \o <<>> BY EndsFacts DEF Init, ToServe, Cat
  <2> QED BY <2>1, ConcatEmptySeq
<1>2. Range(<<>>) = {} BY DEF Range
<1>3. ToServeOK BY <1>1, <1>2 DEF ToServeOK, OncePerThread
<1>4. \A c \in Conns : Answers(c) = {} BY <1>2, EndsFacts DEF Init, Answers
<1>5. \A c \in Conns, t \in Threads : Range(served[<<c, t>>]) = {} BY <1>2 DEF Init
<1>6. \A t \in Threads : num[t] <= MaxCalls BY ConstantsAssumption DEF Init
<1> QED BY <1>3, <1>4, <1>5, <1>6 DEF ServedOK, Init

LEMMA RefinedInit == Init => Rpc!Init
BY DEF Init, Rpc!Init, CallPcs

LEMMA RefinedStutter ==
  ASSUME UNCHANGED <<num, served>>,
         \A t \in Threads : pc'[t] \in CallPcs <=> pc[t] \in CallPcs,
         \A t \in Threads : pc[t] \notin CallPcs => item'[t] = item[t]
  PROVE  UNCHANGED Rpc!vars
BY DEF Rpc!vars

\* Each step of a call maps to the step of AbstractRpc that it is there for.
LEMMA RefinedStep ==
  ASSUME LoopInv, OwnedOK, InFlightOrder, ToServeOK, ServedOK, OwnResponse, [Next]_vars
  PROVE  [Rpc!Next]_Rpc!vars
<1> USE DEF LoopInv
<1>1. CASE UNCHANGED vars
  BY <1>1, RefinedStutter DEF vars, threadVars
<1>2. ASSUME NEW t \in Threads, CallReturn(t)
      PROVE  Rpc!Return(t)
  <2>1. /\ pc[t] = "callWait" /\ pc' = [pc EXCEPT ![t] = "idle"]
        /\ UNCHANGED <<num, item, served>>
    BY <1>2 DEF CallReturn
  <2>2. /\ \A u \in Threads : u # t => pc'[u] = pc[u]
        /\ pc[t] \in CallPcs /\ pc'[t] \notin CallPcs
    BY <2>1 DEF TypeOK, CallPcs
  <2> DEFINE busy == {u \in Threads : pc[u] \in CallPcs}
             result == [u \in Threads |-> IF pc[u] \in CallPcs THEN {} ELSE item[u]]
  <2>3. t \in busy /\ busy' = busy \ {t} BY <2>2
  <2>4. result' = [result EXCEPT ![t] = item[t]] BY <2>1, <2>2
  <2>5. result[t] = {} BY <2>2
  <2>6. \/ result' = result
        \/ /\ \E c \in Conns : num[t] \in Range(served[<<c, t>>])
           /\ result' = [result EXCEPT ![t] = {<<t, num[t]>>}]
    <3>1. CASE item[t] = {} BY <2>4, <2>5, <3>1
    <3>2. CASE item[t] # {}
      <4>1. item[t] = {<<t, num[t]>>} BY <3>2 DEF OwnResponse
      <4>2. \E c \in Conns : num[t] \in Range(served[<<c, t>>]) BY <3>2 DEF ServedOK
      <4> QED BY <2>4, <4>1, <4>2
    <3> QED BY <3>1, <3>2
  <2>7. UNCHANGED <<num, served>> BY <2>1
  <2> QED BY <2>3, <2>6, <2>7 DEF Rpc!Return, Rpc!Range, Range
<1>3. ASSUME NEW t \in Threads, NEW c \in Conns, Call(t, c) \/ CallFails(t, c)
      PROVE  Rpc!Call(t)
  <2>1. /\ pc[t] = "idle" /\ num[t] < MaxCalls /\ served' = served
        /\ num' = [num EXCEPT ![t] = @ + 1]
        /\ item' = [item EXCEPT ![t] = {}]
        /\ pc' = pc \/ pc' = [pc EXCEPT ![t] = "callWake"]
    BY <1>3 DEF Call, CallFails
  <2> DEFINE busy == {u \in Threads : pc[u] \in CallPcs}
             result == [u \in Threads |-> IF pc[u] \in CallPcs THEN {} ELSE item[u]]
  <2>2. \A u \in Threads : u # t => pc'[u] = pc[u] /\ item'[u] = item[u] BY <2>1 DEF TypeOK
  <2>3. item'[t] = {} BY <2>1 DEF TypeOK
  <2>4. t \notin busy BY <2>1 DEF CallPcs
  <2>5. busy' \in {busy, busy \cup {t}} BY <2>1, <2>2, <2>4
  <2>6. result' = [result EXCEPT ![t] = {}] BY <2>2, <2>3
  <2> QED BY <2>1, <2>4, <2>5, <2>6 DEF Rpc!Call
<1>4. ASSUME NEW l \in Loops, RecvRequest(l)
      PROVE  \E t \in Threads, c \in Conns, k \in 1 .. MaxCalls : Rpc!Process(c, t, k)
  <2>1. PICK c \in Conns, m \in Msg :
           /\ m[1] \in Threads /\ m[2] \in Nat /\ PendingOK(c, m)
           /\ served' = [served EXCEPT ![<<c, m[1]>>] = Append(served[<<c, m[1]>>], m[2])]
    BY <1>4, RequestServed
  <2>2. UNCHANGED <<num, item, pc>> BY <1>4 DEF RecvRequest, threadVars
  <2>3. m[2] \in 1 .. MaxCalls
    <3>1. num[m[1]] \in Nat /\ num[m[1]] <= MaxCalls /\ m[2] \in 1 .. num[m[1]]
      BY <2>1 DEF TypeOK, ServedOK, PendingOK
    <3> QED BY <3>1, ConstantsAssumption
  <2>4. Rpc!Process(c, m[1], m[2])
    <3>1. \A d \in Conns : Rpc!Range(served[<<d, m[1]>>]) = Range(served[<<d, m[1]>>])
      BY DEF Rpc!Range, Range
    <3> QED BY <2>1, <2>2, <3>1 DEF Rpc!Process, PendingOK
  <2> QED BY <2>1, <2>3, <2>4
<1>5. ASSUME NEW t \in Threads, ThreadStep(t), ~CallReturn(t)
      PROVE  UNCHANGED Rpc!vars
  <2>1. UNCHANGED <<num, served, item>> /\ \A u \in Threads : u # t => pc'[u] = pc[u]
    BY <1>5 DEF ThreadStep, Kick, Wake, WakeDropped, BindReturn, DropRelease, Join, TypeOK
  <2>2. pc'[t] \in CallPcs <=> pc[t] \in CallPcs
    BY <1>5 DEF ThreadStep, Kick, Wake, WakeDropped, BindReturn, DropRelease, Join, TypeOK,
       CallPcs, KickPcs, AfterKick
  <2> QED BY <2>1, <2>2, RefinedStutter
<1>6. ASSUME NEW t \in Threads, Begin(t), ~\E c \in Conns : Call(t, c) \/ CallFails(t, c)
      PROVE  UNCHANGED Rpc!vars
  <2>1. UNCHANGED <<num, served, item>>
    BY <1>6 DEF Begin, BindFails, Bind, Stop, DropRead, Clone, threadVars
  <2>2. \A u \in Threads : pc'[u] \in CallPcs <=> pc[u] \in CallPcs
    <3>1. \/ pc' = pc
          \/ pc[t] = "idle" /\ \E p \in ThreadPcs \ CallPcs : pc' = [pc EXCEPT ![t] = p]
      BY <1>6 DEF Begin, BindFails, Bind, Stop, DropRead, Clone, threadVars, CallPcs, ThreadPcs
    <3> QED BY <3>1 DEF TypeOK, CallPcs
  <2> QED BY <2>1, <2>2, RefinedStutter
<1>7. ASSUME NEW l \in Loops, LoopKind(l), ~RecvRequest(l)
      PROVE  UNCHANGED Rpc!vars
  <2>1. CASE RecvResponse(l) BY <2>1, TakeAnswer, RefinedStutter
  <2>2. CASE ~RecvResponse(l)
    <3>1. UNCHANGED <<num, served, item, pc>>
      BY <1>7, <2>2 DEF LoopKind, Poll, HandleEvent, SpuriousEvent, EventsDone, RecvDone, FlushRequest,
         FlushResponse, FlushDone, SendFrame, SendBlocks, SetWritable, SendDone, RemoveConnection,
         AddConnection, AddConnectionFails, WakeConnection, SpuriousWake, RequestsDone, ExitLoop,
         threadVars
    <3> QED BY <3>1, RefinedStutter
  <2> QED BY <2>1, <2>2
<1> QED BY <1>1, <1>2, <1>3, <1>4, <1>5, <1>6, <1>7, LoopKinds DEF Next, Rpc!Next

\* The proxies, handlers, loops and sockets implement AbstractRpc: whatever is
\* queued, in flight, closed or failing, a call is processed at most once and
\* in the order its thread made it, and it returns an error or the answer to
\* itself, which has then been processed.
THEOREM CallsRefine == Spec => ImplementsRpc
<1> DEFINE I == LoopInv /\ OwnedOK /\ InFlightOrder /\ OwnResponse /\ ToServeOK /\ ServedOK
<1>1. I /\ [Next]_vars => I'
  <2>1. LoopInv /\ [Next]_vars => LoopInv' BY LoopInvStep
  <2>2. LoopInv' => TypeOK' BY DEF LoopInv
  <2> QED BY <2>1, <2>2, OrderStep, OwnedStep, ResponseStep, ToServeStep, ServedStep
<1>2. Init => I
  BY LoopInvInit, OwnedInit, OrderInit, ServeInit DEF Init, OwnResponse
<1>3. I /\ [Next]_vars => [Rpc!Next]_Rpc!vars BY RefinedStep
<1>4. Init => Rpc!Init BY RefinedInit
<1> QED BY <1>1, <1>2, <1>3, <1>4, PTL DEF Spec, ImplementsRpc, Rpc!Spec

=============================================================================
