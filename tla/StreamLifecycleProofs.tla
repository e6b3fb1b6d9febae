----------------------- MODULE StreamLifecycleProofs -----------------------
(***************************************************************************)
(* Theorems about StreamLifecycle, for all sets of streams, tokens,        *)
(* watchers and devices, and whichever process dies: type correctness, no  *)
(* callback after a stream's drop (NoCallbackAfterDrop), none without its  *)
(* ServerStream (CallbacksSound), no stale device_changed callback         *)
(* (NoStaleDeviceChange), tokens that name their own stream (OwnToken) and *)
(* devices that are the chosen ones (ChosenDevice).                        *)
(***************************************************************************)
EXTENDS StreamLifecycle, SequenceTheorems, TLAPS

-----------------------------------------------------------------------------
(* The inductive invariant.                                                 *)

Serving == spc \notin {"dropall", "gone"}
Busy == spc \in {"init", "op", "opwait", "drop"}
Final == {"new", "done", "failed"}
Asking == {"create", "init", "op", "unregister", "destroy"}

\* The ends of the context's connection, and when a context may have streams.
LinkOK ==
  /\ link.server = "closed" => ~Serving
  /\ ~Serving => link.server # "open"
  /\ ~Serving /\ link.server = "none" => srv \in {"stopping", "down"} \/ "server" \in dead
  /\ link.server = "none" <=> link.client = "none"
  /\ link.client = "none" => cpc = "new"
  /\ link.client = "closed" /\ "client" \notin dead => cpc \in {"joinCallback", "dropped"}
  /\ "server" \in dead => spc = "gone"
  /\ cpc \in {"new", "connect", "query"} => \A s \in Streams : upc[s] = "new"
  /\ cpc \in {"disconnect", "joinRpc", "joinCallback", "dropped"}
       => \A s \in Streams : upc[s] \in Final

\* r is the call that stream s is in.
Asks(s, r) ==
  \/ upc[s] = "create" /\ r.op = "create"
  \/ /\ r.key = token[s]
     /\ \/ upc[s] = "init" /\ r.op = "init"
        \/ upc[s] = "op" /\ r.op = "op"
        \/ upc[s] = "op" /\ r.op = "register" /\ devcb[s] = "set"
        \/ upc[s] = "unregister" /\ r.op = "unregister"
        \/ upc[s] = "destroy" /\ r.op = "destroy"

ContextOps == {"connect", "query", "enumerate", "disconnect", "promote"}

Pends(s, r) == Asks(s, r) /\ ans[s] = None

\* A request is that of a stream still waiting for its answer, or the
\* context's; a stream has one at most, queued or being processed.
RequestOK ==
  /\ \A i \in DOMAIN rpcq :
       \/ rpcq[i].from \in {"ctx", "loop"} /\ rpcq[i].op \in ContextOps
       \/ rpcq[i].from \in Streams /\ Pends(rpcq[i].from, rpcq[i])
  /\ \A i, j \in DOMAIN rpcq :
       rpcq[i].from = rpcq[j].from /\ rpcq[i].from \in Streams => i = j
  /\ Busy => /\ cur.from \in Streams /\ Pends(cur.from, cur)
             /\ \A i \in DOMAIN rpcq : rpcq[i].from # cur.from
             /\ spc = "init" => cur.op = "init"
             /\ spc = "op" => cur.op \in StreamOps
             /\ spc = "opwait" => cur.op = "op"
             /\ spc = "drop" => cur.op = "destroy"

\* The slab holds one ServerStream per stream, in the state the request being
\* processed has brought it to.
SlabOK ==
  /\ \A j, k \in Keys : slab[j].of = slab[k].of /\ slab[j].of # None => j = k
  /\ \A k \in Keys : (slab[k].of = None) <=> (slab[k] = Vacant)
  /\ \A k \in Keys : slab[k] # Vacant => ready
  /\ \A k \in Keys : slab[k].connected =>
       slab[k].stream \in {"some", "dropping"} /\ pipe[slab[k].of] \in {"client", "closed"}
  /\ Busy => /\ slab[cur.key].of = cur.from
             /\ spc = "init" => slab[cur.key].stream = "init"
             /\ spc \in {"op", "opwait"} => slab[cur.key].stream = "some"
             /\ spc = "drop" => slab[cur.key].stream = "dropping"

\* What the server has not yet created.
Uncreated(s) ==
  upc[s] = "new" \/ (upc[s] = "create" /\ ans[s] = None) =>
    Holds(s) = {} /\ pipe[s] = "none"

Owns(s, k, state) == Holds(s) = {k} /\ slab[k].stream = state

Current(s) == Busy /\ cur.from = s

\* The ServerStream of s, by where its client is.
Phase(s) ==
  /\ upc[s] = "create" /\ ans[s] \in Keys => Owns(s, ans[s], "none")
  /\ upc[s] = "init" /\ ans[s] = None =>
       Owns(s, token[s], IF Current(s) THEN "init" ELSE "none")
  /\ upc[s] = "init" /\ ans[s] = "ok" => Owns(s, token[s], "some")
  /\ upc[s] \in {"bind", "live", "op", "unregister"} => Owns(s, token[s], "some")
  /\ upc[s] = "destroy" /\ ans[s] = None =>
       Owns(s, token[s], IF Current(s) THEN "dropping" ELSE "some")
  /\ upc[s] = "destroy" /\ ans[s] # None => Holds(s) = {}
  /\ upc[s] \in {"join", "done"} => Holds(s) = {}

\* A cubeb thread that waits for the client has a connected ServerStream.
Calling(s) ==
  "wait" \in {apc[s], dpc[s]} => \E k \in Keys : slab[k].of = s /\ slab[k].connected

Runs(s) == {kind \in Kinds : <<s, kind>> \in ucb}

\* The CallbackServer of s, by where its client is.
Server(s) ==
  /\ upc[s] \in {"new", "create", "init"} => cbserver[s] = "none"
  /\ upc[s] = "bind" => cbserver[s] = "queued"
  /\ upc[s] \in {"live", "op", "unregister", "destroy", "join"}
       => cbserver[s] \in {"bound", "dropped"}
  /\ upc[s] = "done" => cbserver[s] = "dropped"
  /\ upc[s] = "failed" => cbserver[s] \in {"none", "dropped"}
  /\ Runs(s) # {} => cbserver[s] = "bound"

\* The device_changed calls of s: in its connection, running, answered.
DeviceAsked(s) == {i \in DOMAIN cbq[s] : cbq[s][i] = "device"}
DeviceRuns(s) == <<s, "device">> \in ucb
DeviceAnswered(s) == <<s, "device">> \in cbreply
NoDevice(s) == DeviceAsked(s) = {} /\ ~DeviceRuns(s)

\* The server has taken the callback back.
Cleared(s) == devcb[s] = "off" \/ (upc[s] = "unregister" /\ ans[s] = "ok")

\* There is one device_changed call at a time, for a device thread that waits
\* for it; once the callback is cleared there is none, nor will there be.
DeviceCalls(s) ==
  /\ "server" \notin dead =>
       /\ dpc[s] = "idle" => NoDevice(s) /\ ~DeviceAnswered(s)
       /\ \A i, j \in DeviceAsked(s) : i = j
       /\ DeviceAsked(s) # {} => ~DeviceRuns(s) /\ ~DeviceAnswered(s)
       /\ DeviceRuns(s) => ~DeviceAnswered(s)
  /\ Cleared(s) => NoDevice(s) /\ \A k \in Holds(s) : ~slab[k].notify

\* OnlyConnected, of one stream.
Given(s) == cbq[s] # <<>> \/ Runs(s) # {} => pipe[s] \in {"client", "closed"}

StreamInv(s) ==
  /\ Uncreated(s)
  /\ Serving => Phase(s)
  /\ Calling(s)
  /\ Server(s)
  /\ DeviceCalls(s)
  /\ Given(s)

StreamsOK == \A s \in Streams : StreamInv(s)

\* The devices listed and chosen are in the map.
KnownOK ==
  /\ \A p \in known : p[1] + 1 \in DOMAIN devidmap /\ devidmap[p[1] + 1] = p[2]
  /\ \A k \in Keys : slab[k].stream \in {"init", "some"} =>
       slab[k].device = choice[slab[k].of][2]

LifeInv == TypeOK /\ LinkOK /\ RequestOK /\ SlabOK /\ StreamsOK /\ KnownOK

-----------------------------------------------------------------------------
(* What a step that leaves a stream alone does not disturb.                 *)

\* A step keeps the ServerStream of s, the callbacks of s that run, and where
\* its client is.
SlabSame(s) == \A k \in Keys : slab[k].of = s \/ slab'[k].of = s => slab'[k] = slab[k]
RunsSame(s) == \A kind \in Kinds : <<s, kind>> \in ucb' <=> <<s, kind>> \in ucb
AnswersSame(s) == <<s, "device">> \in cbreply' <=> <<s, "device">> \in cbreply
AsksSame(s) ==
  upc'[s] = upc[s] /\ token'[s] = token[s] /\ devcb'[s] = devcb[s] /\ ans'[s] = ans[s]

\* A step is none of the business of s.
Untouched(s) ==
  /\ SlabSame(s) /\ RunsSame(s) /\ AnswersSame(s) /\ AsksSame(s)
  /\ cbserver'[s] = cbserver[s]
  /\ cbq'[s] = cbq[s]
  /\ pipe'[s] = pipe[s]
  /\ apc'[s] = apc[s]
  /\ dpc'[s] = dpc[s]
  /\ Current(s)' = Current(s)
  /\ Serving' => Serving
  /\ dead \subseteq dead'

LEMMA HoldsSame ==
  ASSUME NEW s \in Streams, SlabSame(s)
  PROVE  Holds(s)' = Holds(s)
BY DEF SlabSame, Holds

LEMMA OwnsSame ==
  ASSUME NEW s \in Streams, SlabSame(s), NEW k, NEW state, Owns(s, k, state)
  PROVE  Owns(s, k, state)'
<1>1. Holds(s)' = {k}
  BY HoldsSame DEF Owns
<1>2. k \in Keys /\ slab[k].of = s
  BY DEF Owns, Holds
<1> QED BY <1>1, <1>2 DEF Owns, SlabSame

LEMMA UncreatedSame ==
  ASSUME NEW s \in Streams, Uncreated(s), SlabSame(s), AsksSame(s), pipe'[s] = pipe[s]
  PROVE  Uncreated(s)'
BY HoldsSame DEF Uncreated, AsksSame

LEMMA PhaseSame ==
  ASSUME NEW s \in Streams, Phase(s), SlabSame(s), AsksSame(s), Current(s)' = Current(s)
  PROVE  Phase(s)'
<1> DEFINE a == ans[s]
           k == token[s]
<1>1. upc'[s] = upc[s] /\ token'[s] = k /\ ans'[s] = a
  BY DEF AsksSame
<1>2. \A n, state : Owns(s, n, state) => Holds(s)' = {n} /\ slab'[n].stream = state
  BY HoldsSame DEF Owns, SlabSame, Holds
<1>3. Holds(s)' = Holds(s)
  BY HoldsSame
<1>4. upc[s] = "create" /\ a \in Keys => Owns(s, ans[s], "none")'
  BY <1>1, <1>2 DEF Phase, Owns
<1>5. upc[s] = "init" /\ a = None =>
        Owns(s, token[s], IF Current(s) THEN "init" ELSE "none")'
  BY <1>1, <1>2 DEF Phase, Owns
<1>6. upc[s] = "init" /\ a = "ok" => Owns(s, token[s], "some")'
  BY <1>1, <1>2 DEF Phase, Owns
<1>7. upc[s] \in {"bind", "live", "op", "unregister"} => Owns(s, token[s], "some")'
  BY <1>1, <1>2 DEF Phase, Owns
<1>8. upc[s] = "destroy" /\ a = None =>
        Owns(s, token[s], IF Current(s) THEN "dropping" ELSE "some")'
  BY <1>1, <1>2 DEF Phase, Owns
<1>9. /\ upc[s] = "destroy" /\ a # None => Holds(s)' = {}
      /\ upc[s] \in {"join", "done"} => Holds(s)' = {}
  BY <1>3 DEF Phase
<1> QED BY <1>1, <1>4, <1>5, <1>6, <1>7, <1>8, <1>9 DEF Phase

LEMMA CallingSame ==
  ASSUME NEW s \in Streams, Calling(s), SlabSame(s), apc'[s] = apc[s], dpc'[s] = dpc[s]
  PROVE  Calling(s)'
BY DEF Calling, SlabSame

LEMMA ServerSame ==
  ASSUME NEW s \in Streams, Server(s), RunsSame(s), upc'[s] = upc[s], cbserver'[s] = cbserver[s]
  PROVE  Server(s)'
<1>1. Runs(s)' = Runs(s)
  BY DEF Runs, RunsSame
<1> QED BY <1>1 DEF Server

LEMMA DeviceCallsSame ==
  ASSUME NEW s \in Streams, DeviceCalls(s), SlabSame(s), RunsSame(s), AnswersSame(s),
         AsksSame(s), cbq'[s] = cbq[s], dpc'[s] = dpc[s], dead \subseteq dead'
  PROVE  DeviceCalls(s)'
<1>1. /\ DeviceAsked(s)' = DeviceAsked(s)
      /\ DeviceRuns(s)' = DeviceRuns(s)
      /\ DeviceAnswered(s)' = DeviceAnswered(s)
      /\ Cleared(s)' = Cleared(s)
      /\ NoDevice(s)' = NoDevice(s)
  BY DEF DeviceAsked, DeviceRuns, DeviceAnswered, Cleared, NoDevice, RunsSame, AnswersSame,
         AsksSame, Kinds
<1>2. \A k \in Holds(s) : ~slab[k].notify => ~slab'[k].notify
  BY DEF Holds, SlabSame
<1> QED BY <1>1, <1>2, HoldsSame DEF DeviceCalls

LEMMA GivenSame ==
  ASSUME NEW s \in Streams, Given(s), RunsSame(s), cbq'[s] = cbq[s], pipe'[s] = pipe[s]
  PROVE  Given(s)'
BY DEF Given, Runs, RunsSame

LEMMA UntouchedStays ==
  ASSUME NEW s \in Streams, StreamInv(s), Untouched(s)
  PROVE  StreamInv(s)'
<1>1. Uncreated(s)'
  BY UncreatedSame DEF StreamInv, Untouched
<1>2. Serving' => Phase(s)'
  BY PhaseSame DEF StreamInv, Untouched
<1>3. Calling(s)'
  BY CallingSame DEF StreamInv, Untouched
<1>4. Server(s)'
  BY ServerSame DEF StreamInv, Untouched, AsksSame
<1>5. DeviceCalls(s)'
  BY DeviceCallsSame DEF StreamInv, Untouched
<1>6. Given(s)'
  BY GivenSame DEF StreamInv, Untouched
<1> QED BY <1>1, <1>2, <1>3, <1>4, <1>5, <1>6 DEF StreamInv

\* A step that concerns one stream.
LEMMA OneStream ==
  ASSUME NEW s \in Streams, StreamsOK, StreamInv(s)', \A t \in Streams \ {s} : Untouched(t)
  PROVE  StreamsOK'
BY UntouchedStays DEF StreamsOK

\* A step that concerns none.
LEMMA NoStream ==
  ASSUME StreamsOK, \A t \in Streams : Untouched(t)
  PROVE  StreamsOK'
BY UntouchedStays DEF StreamsOK

-----------------------------------------------------------------------------
(* Requests.                                                                *)

\* What only another caller than s, if that is a stream, may not change.
OthersAsk(s) == \A t \in Streams \ {s} : AsksSame(t)

\* The server has no request of s.
Quiet(s) == (\A i \in DOMAIN rpcq : rpcq[i].from # s) /\ ~Current(s)

LEMMA QuietStream ==
  ASSUME NEW s \in Streams, RequestOK, upc[s] \notin Asking \/ ans[s] # None
  PROVE  Quiet(s)
BY StreamAssumption DEF RequestOK, Quiet, Current, Pends, Asks, Asking

LEMMA PendsSame ==
  ASSUME NEW s \in Streams, AsksSame(s), NEW r, Pends(s, r)
  PROVE  Pends(s, r)'
BY DEF Pends, Asks, AsksSame

LEMMA RequestMoves ==
  ASSUME NEW s, Quiet(s) \/ s = None, RequestOK, OthersAsk(s), UNCHANGED <<rpcq, spc, cur>>
  PROVE  RequestOK'
BY StreamAssumption DEF RequestOK, Quiet, OthersAsk, Busy, Current, Pends, Asks, AsksSame

LEMMA RequestSent ==
  ASSUME NEW s \in Streams, Quiet(s), RequestOK, OthersAsk(s), UNCHANGED <<spc, cur>>,
         TypeOK, NEW r \in Requests, r.from = s, rpcq' = Append(rpcq, r), Pends(s, r)'
  PROVE  RequestOK'
<1>1. rpcq \in Seq(Requests)
  BY DEF TypeOK
<1>2. /\ DOMAIN rpcq' = 1..(Len(rpcq) + 1) /\ DOMAIN rpcq = 1..Len(rpcq)
      /\ \A i \in DOMAIN rpcq : rpcq'[i] = rpcq[i]
      /\ rpcq'[Len(rpcq) + 1] = r /\ Len(rpcq) \in Nat
  BY <1>1
<1>3. \A i \in DOMAIN rpcq' : i \in DOMAIN rpcq \/ i = Len(rpcq) + 1
  BY <1>2
<1>4. \A i \in DOMAIN rpcq :
        \/ rpcq[i].from \in {"ctx", "loop"} /\ rpcq[i].op \in ContextOps
        \/ rpcq[i].from \in Streams \ {s} /\ Pends(rpcq[i].from, rpcq[i])'
  BY <1>2 DEF RequestOK, Quiet, OthersAsk, Pends, Asks, AsksSame
<1>5. \A i \in DOMAIN rpcq' :
        \/ rpcq'[i].from \in {"ctx", "loop"} /\ rpcq'[i].op \in ContextOps
        \/ rpcq'[i].from \in Streams /\ Pends(rpcq[i].from, rpcq[i])'
  BY <1>2, <1>3, <1>4 DEF Pends, Asks
<1>6. \A i, j \in DOMAIN rpcq' :
        rpcq'[i].from = rpcq'[j].from /\ rpcq'[i].from \in Streams => i = j
  BY <1>2, <1>3 DEF RequestOK, Quiet
<1>7. Busy' => Busy /\ cur.from # s
  BY DEF Busy, Quiet, Current
<1>8. Busy' => \A i \in DOMAIN rpcq' : rpcq'[i].from # cur'.from
  BY <1>2, <1>3, <1>7 DEF RequestOK
<1>9. Busy' => cur'.from \in Streams /\ Pends(cur.from, cur)'
  BY <1>7 DEF RequestOK, OthersAsk, Pends, Asks, AsksSame
<1> QED BY <1>5, <1>6, <1>7, <1>8, <1>9 DEF RequestOK

LEMMA ContextRequest ==
  ASSUME NEW c \in {"ctx", "loop"}, RequestOK, OthersAsk(None), UNCHANGED <<spc, cur>>,
         TypeOK, NEW r \in Requests, r.from = c, r.op \in ContextOps, rpcq' = Append(rpcq, r)
  PROVE  RequestOK'
<1>1. rpcq \in Seq(Requests)
  BY DEF TypeOK
<1>2. /\ DOMAIN rpcq' = 1..(Len(rpcq) + 1) /\ DOMAIN rpcq = 1..Len(rpcq)
      /\ \A i \in DOMAIN rpcq : rpcq'[i] = rpcq[i]
      /\ rpcq'[Len(rpcq) + 1] = r /\ Len(rpcq) \in Nat
  BY <1>1
<1>3. \A i \in DOMAIN rpcq' : i \in DOMAIN rpcq \/ i = Len(rpcq) + 1
  BY <1>2
<1>4. \A t \in Streams : AsksSame(t)
  BY StreamAssumption DEF OthersAsk
<1>5. \A i \in DOMAIN rpcq :
        \/ rpcq[i].from \in {"ctx", "loop"} /\ rpcq[i].op \in ContextOps
        \/ rpcq[i].from \in Streams /\ Pends(rpcq[i].from, rpcq[i])'
  BY <1>2, <1>4 DEF RequestOK, Pends, Asks, AsksSame
<1>6. \A i \in DOMAIN rpcq' :
        \/ rpcq'[i].from \in {"ctx", "loop"} /\ rpcq'[i].op \in ContextOps
        \/ rpcq'[i].from \in Streams /\ Pends(rpcq[i].from, rpcq[i])'
  BY <1>2, <1>3, <1>5 DEF Pends, Asks
<1>7. \A i, j \in DOMAIN rpcq' :
        rpcq'[i].from = rpcq'[j].from /\ rpcq'[i].from \in Streams => i = j
  BY <1>2, <1>3, StreamAssumption DEF RequestOK
<1>8. Busy' => \A i \in DOMAIN rpcq' : rpcq'[i].from # cur'.from
  BY <1>2, <1>3, StreamAssumption DEF RequestOK, Busy
<1>9. Busy' => cur'.from \in Streams /\ Pends(cur.from, cur)'
  BY <1>4 DEF RequestOK, Busy, Pends, Asks, AsksSame
<1> QED BY <1>6, <1>7, <1>8, <1>9 DEF RequestOK, Busy

\* The RPC thread takes the head of the queue.
LEMMA HeadFacts ==
  ASSUME TypeOK, RequestOK, rpcq # <<>>
  PROVE  /\ Head(rpcq) \in Requests
         /\ rpcq' = Tail(rpcq) =>
              /\ rpcq' \in Seq(Requests)
              /\ \A i \in DOMAIN rpcq' : i + 1 \in DOMAIN rpcq /\ rpcq'[i] = rpcq[i + 1]
         /\ \/ Head(rpcq).from \in {"ctx", "loop"} /\ Head(rpcq).op \in ContextOps
            \/ Head(rpcq).from \in Streams /\ Pends(Head(rpcq).from, Head(rpcq))
         /\ \A i \in DOMAIN Tail(rpcq) :
              Head(rpcq).from \in Streams => rpcq[i + 1].from # Head(rpcq).from
<1>1. rpcq \in Seq(Requests)
  BY DEF TypeOK
<1>2. /\ Head(rpcq) = rpcq[1] /\ 1 \in DOMAIN rpcq /\ Head(rpcq) \in Requests
      /\ Tail(rpcq) \in Seq(Requests)
      /\ \A i \in DOMAIN Tail(rpcq) : i + 1 \in DOMAIN rpcq /\ Tail(rpcq)[i] = rpcq[i + 1]
                                      /\ i + 1 # 1
  BY <1>1
<1> QED BY <1>2 DEF RequestOK

LEMMA RequestAnswered ==
  ASSUME TypeOK, RequestOK, rpcq # <<>>, rpcq' = Tail(rpcq), ~Busy, UNCHANGED <<spc, cur>>,
         OthersAsk(Head(rpcq).from)
  PROVE  RequestOK'
<1> DEFINE h == Head(rpcq).from
<1>1. /\ \A i \in DOMAIN rpcq' : i + 1 \in DOMAIN rpcq /\ rpcq'[i] = rpcq[i + 1]
      /\ rpcq' \in Seq(Requests)
      /\ \A i \in DOMAIN rpcq' : h \in Streams => rpcq'[i].from # h
  BY HeadFacts
<1>2. \A i \in DOMAIN rpcq' :
        \/ rpcq'[i].from \in {"ctx", "loop"} /\ rpcq'[i].op \in ContextOps
        \/ rpcq'[i].from \in Streams \ {h} /\ Pends(rpcq'[i].from, rpcq'[i])
  BY <1>1 DEF RequestOK
<1>3. \A i \in DOMAIN rpcq' :
        \/ rpcq'[i].from \in {"ctx", "loop"} /\ rpcq'[i].op \in ContextOps
        \/ rpcq'[i].from \in Streams /\ Pends(rpcq[i].from, rpcq[i])'
  BY <1>2 DEF Pends, Asks, OthersAsk, AsksSame
<1>4. \A i \in DOMAIN rpcq' : i \in Nat
  BY <1>1
<1>5. \A i, j \in DOMAIN rpcq' :
        rpcq'[i].from = rpcq'[j].from /\ rpcq'[i].from \in Streams => i = j
  <2> SUFFICES ASSUME NEW i \in DOMAIN rpcq', NEW j \in DOMAIN rpcq',
                      rpcq'[i].from = rpcq'[j].from, rpcq'[i].from \in Streams
               PROVE  i = j
    OBVIOUS
  <2>1. i + 1 = j + 1
    BY <1>1 DEF RequestOK
  <2> QED BY <2>1, <1>4
<1> QED BY <1>3, <1>5 DEF RequestOK, Busy

LEMMA RequestEntered ==
  ASSUME TypeOK, RequestOK, rpcq # <<>>, NEW label, Enter(label), OthersAsk(None),
         Head(rpcq).from \in Streams,
         \/ label = "init" /\ Head(rpcq).op = "init"
         \/ label = "op" /\ Head(rpcq).op \in StreamOps
         \/ label = "drop" /\ Head(rpcq).op = "destroy"
  PROVE  RequestOK'
<1> DEFINE h == Head(rpcq).from
<1>1. /\ \A i \in DOMAIN rpcq' : i + 1 \in DOMAIN rpcq /\ rpcq'[i] = rpcq[i + 1]
      /\ rpcq' \in Seq(Requests)
      /\ \A i \in DOMAIN rpcq' : rpcq'[i].from # h
      /\ Pends(h, Head(rpcq))
    BY HeadFacts, StreamAssumption DEF Enter
<1>2. \A t \in Streams : AsksSame(t)
  BY StreamAssumption DEF OthersAsk
<1>3. \A i \in DOMAIN rpcq' :
        \/ rpcq'[i].from \in {"ctx", "loop"} /\ rpcq'[i].op \in ContextOps
        \/ rpcq'[i].from \in Streams /\ Pends(rpcq[i].from, rpcq[i])'
  BY <1>1, <1>2 DEF Pends, Asks, AsksSame, RequestOK
<1>4. \A i \in DOMAIN rpcq' : i \in Nat
  BY <1>1
<1>5. \A i, j \in DOMAIN rpcq' :
        rpcq'[i].from = rpcq'[j].from /\ rpcq'[i].from \in Streams => i = j
  <2> SUFFICES ASSUME NEW i \in DOMAIN rpcq', NEW j \in DOMAIN rpcq',
                      rpcq'[i].from = rpcq'[j].from, rpcq'[i].from \in Streams
               PROVE  i = j
    OBVIOUS
  <2>1. i + 1 = j + 1
    BY <1>1 DEF RequestOK
  <2> QED BY <2>1, <1>4
<1>6. cur' = Head(rpcq) /\ spc' = label
  BY DEF Enter
<1>7. /\ cur'.from \in Streams /\ Pends(cur.from, cur)'
      /\ \A i \in DOMAIN rpcq' : rpcq'[i].from # cur'.from
  BY <1>1, <1>2, <1>6 DEF Pends, Asks, AsksSame
<1>8. /\ spc' = "init" => cur'.op = "init"
      /\ spc' = "op" => cur'.op \in StreamOps
      /\ spc' = "opwait" => cur'.op = "op"
      /\ spc' = "drop" => cur'.op = "destroy"
  BY <1>6
<1> QED BY <1>3, <1>5, <1>7, <1>8 DEF RequestOK

\* The request it works on is answered.
LEMMA RequestOver ==
  ASSUME RequestOK, Busy, Idle, UNCHANGED rpcq, OthersAsk(cur.from)
  PROVE  RequestOK'
BY DEF RequestOK, Busy, Idle, OthersAsk, Pends, Asks, AsksSame

-----------------------------------------------------------------------------
(* The client's application threads.                                        *)

allVars == <<clientVars, loopVars, netVars, serverVars, lifeVars>>

\* While a stream is in use the context is, and its connection is closed by the
\* server only.
LEMMA InUse ==
  ASSUME TypeOK, LinkOK, NEW s \in Streams, "client" \notin dead,
         upc[s] \notin Final \/ cpc = "live"
  PROVE  /\ cpc \in {"live", "list"}
         /\ link.client # "closed"
         /\ "closed" \in {link.client, link.server} => ~Serving
BY DEF TypeOK, LinkOK, Final

LEMMA SendCases ==
  ASSUME TypeOK, NEW c \in Callers, NEW op, NEW key, Send(c, op, key),
         [from |-> c, op |-> op, key |-> key] \in Requests
  PROVE  /\ rpcq' \in Seq(Requests)
         /\ ans' \in [Callers -> Keys \cup {None, "ok", "err"}]
         /\ \A d \in Callers \ {c} : ans'[d] = ans[d]
         /\ \/ "closed" \in {link.client, link.server} /\ ans'[c] = "err" /\ rpcq' = rpcq
            \/ ans'[c] = None /\ rpcq' = Append(rpcq, [from |-> c, op |-> op, key |-> key])
<1>1. rpcq \in Seq(Requests) /\ ans \in [Callers -> Keys \cup {None, "ok", "err"}]
  BY DEF TypeOK
<1> DEFINE r == [from |-> c, op |-> op, key |-> key]
<1>2. CASE "closed" \in {link.client, link.server}
  <2>1. ans' = [ans EXCEPT ![c] = "err"] /\ rpcq' = rpcq
    BY <1>2 DEF Send
  <2> QED BY <1>1, <1>2, <2>1
<1>3. CASE "closed" \notin {link.client, link.server}
  <2>1. ans' = [ans EXCEPT ![c] = None] /\ rpcq' = Append(rpcq, r)
    BY <1>3 DEF Send
  <2>2. r \in Requests
    OBVIOUS
  <2> HIDE DEF r
  <2>3. Append(rpcq, r) \in Seq(Requests)
    BY <1>1, <2>2
  <2> QED BY <1>1, <2>1, <2>3 DEF r
<1> QED BY <1>2, <1>3

\* A call of a stream is queued and waits, or has failed and the server serves no
\* more.
LEMMA StreamSends ==
  ASSUME TypeOK, LinkOK, RequestOK, NEW s \in Streams, "client" \notin dead,
         upc[s] \notin Final \/ cpc = "live", Quiet(s),
         NEW op, NEW key, Send(s, op, key), UNCHANGED <<spc, cur>>,
         [from |-> s, op |-> op, key |-> key] \in Requests,
         \A t \in Streams \ {s} :
           upc'[t] = upc[t] /\ token'[t] = token[t] /\ devcb'[t] = devcb[t],
         Asks(s, [from |-> s, op |-> op, key |-> key])'
  PROVE  /\ RequestOK'
         /\ OthersAsk(s)
         /\ ans'[s] = None \/ (ans'[s] = "err" /\ ~Serving)
<1> DEFINE r == [from |-> s, op |-> op, key |-> key]
<1>1. /\ \A d \in Callers \ {s} : ans'[d] = ans[d]
      /\ \/ "closed" \in {link.client, link.server} /\ ans'[s] = "err" /\ rpcq' = rpcq
         \/ ans'[s] = None /\ rpcq' = Append(rpcq, r)
  BY SendCases DEF Callers
<1>2. OthersAsk(s)
  BY <1>1 DEF OthersAsk, AsksSame, Callers
<1>3. CASE "closed" \in {link.client, link.server} /\ ans'[s] = "err" /\ rpcq' = rpcq
  BY <1>2, <1>3, InUse, RequestMoves
<1>4. CASE ans'[s] = None /\ rpcq' = Append(rpcq, r)
  <2>1. Pends(s, r)'
    BY <1>4 DEF Pends
  <2>2. r \in Requests /\ r.from = s
    OBVIOUS
  <2> HIDE DEF r
  <2>3. RequestOK'
    BY <1>2, <1>4, <2>1, <2>2, RequestSent
  <2> QED BY <1>2, <1>4, <2>3
<1> QED BY <1>1, <1>3, <1>4

\* What a step of the application thread of s leaves alone.
ClientMove(s) ==
  /\ OthersAsk(s)
  /\ \A t \in Streams \ {s} : cbserver'[t] = cbserver[t]
  /\ upc[s] # "new" => UNCHANGED choice
  /\ \A t \in Streams \ {s} : choice'[t] = choice[t]
  /\ UNCHANGED <<ucb, cbq, cbreply, pipe, serverVars, link, dead, cpc, ready, known, devidmap>>

LEMMA ClientMoves ==
  ASSUME LifeInv, NEW s \in Streams, ClientMove(s), "client" \notin dead,
         upc[s] \notin Final \/ cpc = "live",
         TypeOK', RequestOK', Uncreated(s)', Serving => Phase(s)', Server(s)',
         Cleared(s)' => NoDevice(s) /\ \A k \in Holds(s) : ~slab[k].notify
  PROVE  LifeInv'
<1> USE DEF LifeInv, ClientMove, serverVars
<1>1. LinkOK'
  BY InUse DEF LinkOK, OthersAsk, AsksSame, Serving
<1>2. SlabOK'
  BY DEF SlabOK, Busy
<1>3. \A t \in Streams : SlabSame(t) /\ RunsSame(t)
  BY DEF SlabSame, RunsSame
<1>4. KnownOK'
  <2>1. upc[s] = "new" => Holds(s) = {}
    BY DEF StreamsOK, StreamInv, Uncreated
  <2>2. \A k \in Keys : slab[k].stream \in {"init", "some"} =>
          slab[k].of \in Streams /\ choice'[slab[k].of] = choice[slab[k].of]
    <3> SUFFICES ASSUME NEW k \in Keys, slab[k].stream \in {"init", "some"}
                 PROVE  slab[k].of \in Streams /\ choice'[slab[k].of] = choice[slab[k].of]
      OBVIOUS
    <3>1. slab[k].of \in Streams \cup {None}
      BY DEF TypeOK
    <3>2. slab[k].of # None
      BY DEF SlabOK, Vacant, Created0
    <3> QED BY <2>1, <3>1, <3>2 DEF Holds
  <2> QED BY <2>2 DEF KnownOK
<1>5. StreamInv(s)'
  <2>1. Calling(s)' /\ Given(s)'
    BY <1>3 DEF StreamsOK, StreamInv, Calling, Given, Runs
  <2>2. DeviceCalls(s)'
    <3>1. DeviceCalls(s)
      BY DEF StreamsOK, StreamInv
    <3>2. /\ DeviceAsked(s)' = DeviceAsked(s)
          /\ DeviceRuns(s)' = DeviceRuns(s)
          /\ DeviceAnswered(s)' = DeviceAnswered(s)
          /\ NoDevice(s)' = NoDevice(s)
          /\ Holds(s)' = Holds(s)
      BY DEF DeviceAsked, DeviceRuns, DeviceAnswered, NoDevice, Holds
    <3> QED BY <3>1, <3>2 DEF DeviceCalls
  <2>3. Serving' = Serving
    BY DEF Serving
  <2> QED BY <2>1, <2>2, <2>3 DEF StreamInv
<1>6. \A t \in Streams \ {s} : Untouched(t)
  BY <1>3 DEF Untouched, OthersAsk, AnswersSame, Current, Busy, Serving
<1> QED BY <1>1, <1>2, <1>4, <1>5, <1>6, OneStream

LEMMA ClientTypes ==
  ASSUME TypeOK,
         upc' \in [Streams -> ClientPcs],
         token' \in [Streams -> Keys \cup {None}],
         devcb' \in [Streams -> {"set", "clearing", "off"}],
         cbserver' \in [Streams -> {"none", "queued", "bound", "dropped"}],
         choice' \in [Streams -> known],
         rpcq' \in Seq(Requests),
         ans' \in [Callers -> Keys \cup {None, "ok", "err"}],
         UNCHANGED <<lpc, ucb, cbq, cbreply, pipe, serverVars, cpc, known, lists, link,
                     ready, devidmap, srv, dead>>
  PROVE  TypeOK'
BY DEF TypeOK, serverVars

LEMMA SameTypes ==
  ASSUME TypeOK
  PROVE  /\ token \in [Streams -> Keys \cup {None}]
         /\ devcb \in [Streams -> {"set", "clearing", "off"}]
         /\ cbserver \in [Streams -> {"none", "queued", "bound", "dropped"}]
         /\ choice \in [Streams -> known]
         /\ rpcq \in Seq(Requests)
         /\ ans \in [Callers -> Keys \cup {None, "ok", "err"}]
         /\ upc \in [Streams -> ClientPcs]
BY DEF TypeOK

LEMMA GotoFacts ==
  ASSUME TypeOK, NEW s \in Streams, NEW label \in ClientPcs, Goto(s, label)
  PROVE  /\ upc' \in [Streams -> ClientPcs]
         /\ upc'[s] = label
         /\ \A t \in Streams \ {s} : upc'[t] = upc[t]
BY DEF TypeOK, Goto

LEMMA TakeFacts ==
  ASSUME TypeOK, NEW c \in Callers, Take(c)
  PROVE  /\ ans' \in [Callers -> Keys \cup {None, "ok", "err"}]
         /\ ans'[c] = None
         /\ \A d \in Callers \ {c} : ans'[d] = ans[d]
BY DEF TypeOK, Take

LEMMA StreamCreateStep ==
  ASSUME LifeInv, NEW s \in Streams, StreamCreate(s)
  PROVE  LifeInv'
<1> USE DEF LifeInv
<1> DEFINE r == [from |-> s, op |-> "create", key |-> None]
<1>1. /\ "client" \notin dead /\ upc[s] = "new" /\ cpc = "live"
      /\ Send(s, "create", None) /\ Goto(s, "create")
      /\ UNCHANGED <<token, devcb, lpc, cbserver, ucb, cbq, cbreply, pipe, serverVars, cpc,
                     known, lists, link, ready, devidmap, srv, dead>>
  BY DEF StreamCreate, Alive, loopVars
<1>2. PICK d \in known : choice' = [choice EXCEPT ![s] = d]
  BY DEF StreamCreate
<1>3. /\ upc' \in [Streams -> ClientPcs] /\ upc'[s] = "create"
      /\ \A t \in Streams \ {s} : upc'[t] = upc[t]
  BY <1>1, GotoFacts DEF ClientPcs
<1>4. r \in Requests /\ s \in Callers
  BY DEF Requests, Callers
<1>5. rpcq' \in Seq(Requests) /\ ans' \in [Callers -> Keys \cup {None, "ok", "err"}]
  BY <1>1, <1>4, SendCases
<1>6. choice' \in [Streams -> known]
  BY <1>2, SameTypes
<1>7. TypeOK'
  BY <1>1, <1>3, <1>5, <1>6, SameTypes, ClientTypes
<1>8. Quiet(s)
  BY <1>1, QuietStream DEF Asking
<1>9. Asks(s, r)'
  BY <1>3 DEF Asks
<1>10. RequestOK' /\ OthersAsk(s) /\ (ans'[s] = None \/ (ans'[s] = "err" /\ ~Serving))
  BY <1>1, <1>3, <1>4, <1>8, <1>9, StreamSends DEF serverVars
<1>11. ClientMove(s)
  BY <1>1, <1>2, <1>10, SameTypes DEF ClientMove
<1>12. StreamInv(s)
  BY DEF StreamsOK
<1>13. Uncreated(s)' /\ Server(s)' /\ Holds(s)' = {}
  BY <1>1, <1>3, <1>12 DEF StreamInv, Uncreated, Server, Runs, Holds, serverVars
<1>14. Serving => Phase(s)'
  BY <1>3, <1>10, StreamAssumption DEF Phase
<1>15. Cleared(s)' => NoDevice(s) /\ \A k \in Holds(s) : ~slab[k].notify
  BY <1>1, <1>3, <1>12 DEF StreamInv, DeviceCalls, Cleared
<1> QED BY <1>1, <1>7, <1>10, <1>11, <1>13, <1>14, <1>15, ClientMoves

LEMMA StreamCreatedStep ==
  ASSUME LifeInv, NEW s \in Streams, StreamCreated(s)
  PROVE  LifeInv'
<1> USE DEF LifeInv
<1> DEFINE k == ans[s]
           r == [from |-> s, op |-> "init", key |-> k]
<1>1. /\ "client" \notin dead /\ upc[s] = "create" /\ k \in Keys
      /\ token' = [token EXCEPT ![s] = k]
      /\ Send(s, "init", k) /\ Goto(s, "init")
      /\ UNCHANGED <<devcb, lpc, cbserver, ucb, cbq, cbreply, pipe, serverVars, cpc, choice,
                     known, lists, link, ready, devidmap, srv, dead>>
  BY DEF StreamCreated, Alive, Created, loopVars, lifeVars, ctxVars
<1>2. k # None
  BY <1>1, StreamAssumption
<1>3. /\ upc' \in [Streams -> ClientPcs] /\ upc'[s] = "init"
      /\ \A t \in Streams \ {s} : upc'[t] = upc[t]
  BY <1>1, GotoFacts DEF ClientPcs
<1>4. r \in Requests /\ s \in Callers
  BY <1>1 DEF Requests, Callers
<1>5. rpcq' \in Seq(Requests) /\ ans' \in [Callers -> Keys \cup {None, "ok", "err"}]
  BY <1>1, <1>4, SendCases
<1>6. token' \in [Streams -> Keys \cup {None}] /\ token'[s] = k
      /\ \A t \in Streams \ {s} : token'[t] = token[t]
  BY <1>1, SameTypes
<1>7. TypeOK'
  BY <1>1, <1>3, <1>5, <1>6, SameTypes, ClientTypes
<1>8. Quiet(s)
  BY <1>1, <1>2, QuietStream
<1>10. RequestOK' /\ OthersAsk(s) /\ (ans'[s] = None \/ (ans'[s] = "err" /\ ~Serving))
  <2>1. \A n : n = k => (Asks(s, [from |-> s, op |-> "init", key |-> n])')
    BY <1>3, <1>6 DEF Asks
  <2>2. PICK n : n = k
    OBVIOUS
  <2> HIDE DEF k
  <2>3. Asks(s, [from |-> s, op |-> "init", key |-> n])'
    BY <2>1, <2>2
  <2>4. Send(s, "init", n) /\ [from |-> s, op |-> "init", key |-> n] \in Requests
    BY <1>1, <1>4, <2>2
  <2> QED BY <1>1, <1>3, <1>6, <1>8, <2>3, <2>4, StreamSends DEF serverVars, Final
<1>11. ClientMove(s)
  BY <1>1, <1>10 DEF ClientMove
<1>12. StreamInv(s)
  BY DEF StreamsOK
<1>13. Uncreated(s)' /\ Server(s)'
  BY <1>1, <1>3, <1>12 DEF StreamInv, Uncreated, Server, Runs
<1>14. ~Current(s) /\ Current(s)' = Current(s) /\ Holds(s)' = Holds(s)
  BY <1>1, <1>8 DEF Quiet, Current, Busy, Holds, serverVars
<1>15. Serving => Phase(s)'
  BY <1>1, <1>3, <1>6, <1>10, <1>12, <1>14, StreamAssumption
  DEF StreamInv, Phase, Owns, serverVars
<1>16. Cleared(s)' => NoDevice(s) /\ \A j \in Holds(s) : ~slab[j].notify
  BY <1>1, <1>3, <1>12 DEF StreamInv, DeviceCalls, Cleared
<1> QED BY <1>1, <1>7, <1>10, <1>11, <1>13, <1>15, <1>16, ClientMoves DEF Final

\* A call on a live stream: start, stop, (un)register_device_changed_callback,
\* destroy.
LEMMA LiveCall ==
  ASSUME LifeInv, NEW s \in Streams, Alive(s, "live"),
         NEW op \in StreamOps \cup {"destroy"}, NEW label \in {"op", "unregister", "destroy"},
         Send(s, op, token[s]), Goto(s, label),
         NEW d \in {"set", "clearing", "off"}, devcb' = [devcb EXCEPT ![s] = d],
         UNCHANGED <<token, lpc, cbserver, ucb, cbq, cbreply, pipe, serverVars, cpc, choice,
                     known, lists, link, ready, devidmap, srv, dead>>,
         \/ label = "op" /\ op = "op" /\ d = devcb[s]
         \/ label = "op" /\ op = "register" /\ d = "set"
         \/ label = "unregister" /\ op = "unregister" /\ d = "clearing"
         \/ label = "destroy" /\ op = "destroy" /\ d = devcb[s]
  PROVE  LifeInv'
<1> USE DEF LifeInv
<1>1. "client" \notin dead /\ upc[s] = "live"
  BY DEF Alive
<1>2. StreamInv(s)
  BY DEF StreamsOK
<1>3. /\ upc' \in [Streams -> ClientPcs] /\ upc'[s] = label
      /\ \A t \in Streams \ {s} : upc'[t] = upc[t]
  BY GotoFacts DEF ClientPcs
<1>4. PICK k : k = token[s]
  OBVIOUS
<1>5. k \in Keys \cup {None}
  BY <1>4, SameTypes
<1>6. [from |-> s, op |-> op, key |-> k] \in Requests /\ s \in Callers
  BY <1>5 DEF Requests, Callers, StreamOps
<1>7. Send(s, op, k)
  BY <1>4
<1>8. rpcq' \in Seq(Requests) /\ ans' \in [Callers -> Keys \cup {None, "ok", "err"}]
  BY <1>6, <1>7, SendCases
<1>9. /\ devcb' \in [Streams -> {"set", "clearing", "off"}] /\ devcb'[s] = d
      /\ \A t \in Streams \ {s} : devcb'[t] = devcb[t]
  BY SameTypes
<1>10. TypeOK'
  BY <1>3, <1>8, <1>9, SameTypes, ClientTypes
<1>11. Quiet(s)
  BY <1>1, QuietStream DEF Asking
<1>12. Asks(s, [from |-> s, op |-> op, key |-> k])'
  BY <1>3, <1>4, <1>9 DEF Asks
<1>13. RequestOK' /\ OthersAsk(s) /\ (ans'[s] = None \/ (ans'[s] = "err" /\ ~Serving))
  BY <1>1, <1>3, <1>6, <1>7, <1>9, <1>11, <1>12, StreamSends DEF serverVars, Final
<1>14. ClientMove(s)
  BY <1>13 DEF ClientMove
<1>15. Uncreated(s)' /\ Server(s)'
  BY <1>1, <1>2, <1>3 DEF StreamInv, Uncreated, Server, Runs
<1>16. ~Current(s) /\ Current(s)' = Current(s) /\ Holds(s)' = Holds(s)
  BY <1>11 DEF Quiet, Current, Busy, Holds, serverVars
<1>17. Serving => Phase(s)'
  BY <1>1, <1>2, <1>3, <1>13, <1>16 DEF StreamInv, Phase, Owns, serverVars
<1>18. Cleared(s)' => NoDevice(s) /\ \A j \in Holds(s) : ~slab[j].notify
  BY <1>1, <1>2, <1>3, <1>9, <1>13, StreamAssumption DEF StreamInv, DeviceCalls, Cleared
<1> QED BY <1>1, <1>10, <1>13, <1>14, <1>15, <1>17, <1>18, ClientMoves DEF Final

LEMMA LiveCallStep ==
  ASSUME LifeInv, NEW s \in Streams,
         StreamOp(s) \/ RegisterDeviceChanged(s) \/ UnregisterDeviceChanged(s) \/ StreamDestroy(s)
  PROVE  LifeInv'
<1> USE DEF loopVars, lifeVars, ctxVars, Alive
<1>1. devcb \in [Streams -> {"set", "clearing", "off"}]
  BY SameTypes DEF LifeInv
<1>2. PICK d \in {"set", "clearing", "off"} : devcb[s] = d /\ devcb = [devcb EXCEPT ![s] = d]
  BY <1>1
<1>3. CASE StreamOp(s)
  BY <1>2, <1>3, LiveCall DEF StreamOp, StreamOps
<1>4. CASE RegisterDeviceChanged(s)
  BY <1>4, LiveCall DEF RegisterDeviceChanged, StreamOps
<1>5. CASE UnregisterDeviceChanged(s)
  BY <1>5, LiveCall DEF UnregisterDeviceChanged, StreamOps
<1>6. CASE StreamDestroy(s)
  BY <1>2, <1>6, LiveCall DEF StreamDestroy, StreamOps
<1> QED BY <1>3, <1>4, <1>5, <1>6

\* A call of a stream returns, with the answer a, and its thread goes on; in
\* StreamInit the CallbackServer is sent to the callback loop.
LEMMA Returned ==
  ASSUME LifeInv, NEW s \in Streams, "client" \notin dead, upc[s] \in Asking, ans[s] # None,
         Take(s), NEW label \in {"bind", "live", "join", "failed"}, Goto(s, label),
         NEW b \in {"none", "queued", "bound", "dropped"}, cbserver' = [cbserver EXCEPT ![s] = b],
         NEW d \in {"set", "clearing", "off"}, devcb' = [devcb EXCEPT ![s] = d],
         UNCHANGED <<token, lpc, ucb, rpcq, cbq, cbreply, pipe, serverVars, lifeVars>>,
         \/ /\ upc[s] \in {"create", "init"} /\ label = "failed"
            /\ b = cbserver[s] /\ d = devcb[s]
         \/ /\ upc[s] = "init" /\ ans[s] = "ok" /\ label = "bind"
            /\ b = "queued" /\ d = devcb[s]
         \/ /\ upc[s] = "op" /\ label = "live"
            /\ b = cbserver[s] /\ d = devcb[s]
         \/ /\ upc[s] = "unregister" /\ label = "live"
            /\ b = cbserver[s] /\ (d = devcb[s] \/ ans[s] = "ok")
         \/ /\ upc[s] = "destroy" /\ label = "join"
            /\ b = cbserver[s] /\ d = devcb[s]
  PROVE  LifeInv'
<1> USE DEF LifeInv
<1>1. /\ UNCHANGED <<cpc, choice, known, lists, link, ready, devidmap, srv, dead>>
      /\ upc[s] \notin Final
  BY DEF lifeVars, ctxVars, Asking, Final
<1>2. StreamInv(s)
  BY DEF StreamsOK
<1>3. /\ upc' \in [Streams -> ClientPcs] /\ upc'[s] = label
      /\ \A t \in Streams \ {s} : upc'[t] = upc[t]
  BY GotoFacts DEF ClientPcs
<1>4. /\ ans' \in [Callers -> Keys \cup {None, "ok", "err"}] /\ ans'[s] = None
      /\ \A t \in Streams \ {s} : ans'[t] = ans[t]
  BY TakeFacts DEF Callers
<1>5. /\ devcb' \in [Streams -> {"set", "clearing", "off"}] /\ devcb'[s] = d
      /\ \A t \in Streams \ {s} : devcb'[t] = devcb[t]
  BY SameTypes
<1>6. /\ cbserver' \in [Streams -> {"none", "queued", "bound", "dropped"}] /\ cbserver'[s] = b
      /\ \A t \in Streams \ {s} : cbserver'[t] = cbserver[t]
  BY SameTypes
<1>7. TypeOK'
  BY <1>1, <1>3, <1>4, <1>5, <1>6, SameTypes, ClientTypes
<1>8. Quiet(s) /\ OthersAsk(s)
  BY <1>3, <1>4, <1>5, QuietStream DEF OthersAsk, AsksSame
<1>9. RequestOK'
  BY <1>8, RequestMoves DEF serverVars
<1>10. ClientMove(s)
  BY <1>1, <1>6, <1>8 DEF ClientMove
<1>11. Uncreated(s)' /\ Server(s)'
  BY <1>2, <1>3, <1>6 DEF StreamInv, Uncreated, Server, Runs
<1>12. Holds(s)' = Holds(s)
  BY DEF Holds, serverVars
<1>13. Serving => Phase(s)'
  BY <1>2, <1>3, <1>4, <1>12 DEF StreamInv, Phase, Owns, serverVars
<1>14. Cleared(s)' => NoDevice(s) /\ \A j \in Holds(s) : ~slab[j].notify
  BY <1>2, <1>3, <1>5 DEF StreamInv, DeviceCalls, Cleared
<1> QED BY <1>1, <1>7, <1>9, <1>10, <1>11, <1>13, <1>14, ClientMoves

LEMMA ReturnStep ==
  ASSUME LifeInv, NEW s \in Streams,
         \/ MapFails(s) \/ InitError(s) \/ StreamInitialized(s) \/ StreamOpReturn(s)
         \/ UnregisterReturn(s) \/ StreamDestroyed(s)
  PROVE  LifeInv'
<1> USE DEF Alive, Asking, loopVars, wireVars
<1>1. /\ devcb \in [Streams -> {"set", "clearing", "off"}]
      /\ cbserver \in [Streams -> {"none", "queued", "bound", "dropped"}]
  BY SameTypes DEF LifeInv
<1>2. PICK d \in {"set", "clearing", "off"} : devcb[s] = d /\ devcb = [devcb EXCEPT ![s] = d]
  BY <1>1
<1>3. PICK b \in {"none", "queued", "bound", "dropped"} :
        cbserver[s] = b /\ cbserver = [cbserver EXCEPT ![s] = b]
  BY <1>1
<1>4. CASE MapFails(s)
  BY <1>2, <1>3, <1>4, StreamAssumption, Returned DEF MapFails, Created
<1>5. CASE InitError(s)
  BY <1>2, <1>3, <1>5, StreamAssumption, Returned DEF InitError
<1>6. CASE StreamInitialized(s)
  BY <1>2, <1>6, StreamAssumption, Returned DEF StreamInitialized, BindBlocks
<1>7. CASE StreamOpReturn(s)
  BY <1>2, <1>3, <1>7, Returned DEF StreamOpReturn
<1>8. CASE UnregisterReturn(s)
  <2>1. PICK c \in {"set", "clearing", "off"} :
          /\ devcb' = [devcb EXCEPT ![s] = c]
          /\ c = devcb[s] \/ ans[s] = "ok"
    BY <1>2, <1>8 DEF UnregisterReturn
  <2> QED BY <1>3, <1>8, <2>1, Returned DEF UnregisterReturn
<1>9. CASE StreamDestroyed(s)
  BY <1>2, <1>3, <1>9, Returned DEF StreamDestroyed
<1> QED BY <1>4, <1>5, <1>6, <1>7, <1>8, <1>9

\* ClientStream::drop has seen its CallbackServer dropped.
LEMMA StreamDroppedStep ==
  ASSUME LifeInv, NEW s \in Streams, StreamDropped(s)
  PROVE  LifeInv'
<1> USE DEF LifeInv
<1>1. /\ "client" \notin dead /\ upc[s] = "join" /\ cbserver[s] = "dropped"
      /\ Goto(s, "done")
      /\ UNCHANGED <<token, devcb, cbserver, lpc, ucb, rpcq, ans, cbq, cbreply, pipe, serverVars,
                     cpc, choice, known, lists, link, ready, devidmap, srv, dead>>
  BY DEF StreamDropped, Alive, ShutdownSeen, loopVars, netVars, wireVars, lifeVars, ctxVars
<1>2. StreamInv(s)
  BY DEF StreamsOK
<1>3. /\ upc' \in [Streams -> ClientPcs] /\ upc'[s] = "done"
      /\ \A t \in Streams \ {s} : upc'[t] = upc[t]
  BY <1>1, GotoFacts DEF ClientPcs
<1>4. TypeOK'
  BY <1>1, <1>3, SameTypes, ClientTypes
<1>5. Quiet(s) /\ OthersAsk(s)
  BY <1>1, <1>3, QuietStream DEF OthersAsk, AsksSame, Asking
<1>6. RequestOK'
  BY <1>1, <1>5, RequestMoves DEF serverVars
<1>7. ClientMove(s)
  BY <1>1, <1>5 DEF ClientMove
<1>8. Uncreated(s)' /\ Server(s)'
  BY <1>1, <1>2, <1>3 DEF StreamInv, Uncreated, Server, Runs
<1>9. Holds(s)' = Holds(s)
  BY <1>1 DEF Holds, serverVars
<1>10. Serving => Phase(s)'
  BY <1>1, <1>2, <1>3, <1>9 DEF StreamInv, Phase, Owns
<1>11. Cleared(s)' => NoDevice(s) /\ \A j \in Holds(s) : ~slab[j].notify
  BY <1>1, <1>2, <1>3 DEF StreamInv, DeviceCalls, Cleared
<1> QED BY <1>1, <1>4, <1>6, <1>7, <1>8, <1>10, <1>11, ClientMoves DEF Final

-----------------------------------------------------------------------------
(* The client's callback loop.                                              *)

\* What a step of the callback loop about s leaves alone.
LoopMove(s) ==
  /\ UNCHANGED <<clientVars, lpc, rpcq, ans, serverVars, lifeVars>>
  /\ \A t \in Streams \ {s} : /\ cbserver'[t] = cbserver[t]
                              /\ cbq'[t] = cbq[t]
                              /\ pipe'[t] = pipe[t]
                              /\ RunsSame(t) /\ AnswersSame(t)
  /\ pipe'[s] = pipe[s] \/ (pipe'[s] = "closed" /\ upc[s] \notin {"new", "create"})

LEMMA LoopMoves ==
  ASSUME LifeInv, NEW s \in Streams, LoopMove(s), TypeOK', Server(s)', DeviceCalls(s)', Given(s)'
  PROVE  LifeInv'
<1> USE DEF LifeInv, LoopMove, clientVars, serverVars, lifeVars, ctxVars
<1>1. LinkOK' /\ KnownOK'
  BY DEF LinkOK, KnownOK, Serving
<1>2. \A t \in Streams : AsksSame(t) /\ SlabSame(t) /\ Current(t)' = Current(t)
  BY DEF AsksSame, SlabSame, Current, Busy
<1>3. RequestOK'
  BY <1>2, RequestMoves DEF OthersAsk
<1>4. SlabOK'
  <2>1. \A k \in Keys : slab[k].connected => slab[k].of \in Streams
    BY DEF TypeOK, SlabOK, Vacant, Created0
  <2>2. \A t \in Streams : pipe[t] \in {"client", "closed"} => pipe'[t] \in {"client", "closed"}
    BY Zenon
  <2> QED BY <2>1, <2>2 DEF SlabOK, Busy
<1>5. StreamInv(s)'
  <2>1. StreamInv(s)
    BY DEF StreamsOK
  <2>2. Uncreated(s)'
    BY <1>2, <2>1, HoldsSame DEF StreamInv, Uncreated
  <2>3. Serving' => Phase(s)'
    BY <1>2, <2>1, PhaseSame DEF StreamInv, Serving
  <2>4. Calling(s)'
    BY <1>2, <2>1, CallingSame DEF StreamInv
  <2> QED BY <2>2, <2>3, <2>4 DEF StreamInv
<1>6. \A t \in Streams \ {s} : Untouched(t)
  BY <1>2 DEF Untouched, Serving
<1> QED BY <1>1, <1>3, <1>4, <1>5, <1>6, OneStream

LEMMA LoopTypes ==
  ASSUME TypeOK, UNCHANGED <<clientVars, lpc, rpcq, ans, serverVars, lifeVars>>,
         cbserver' \in [Streams -> {"none", "queued", "bound", "dropped"}],
         ucb' \subseteq Calls,
         cbq' \in [Streams -> Seq(Kinds)],
         cbreply' \subseteq Calls,
         pipe' \in [Streams -> {"none", "server", "client", "closed"}]
  PROVE  TypeOK'
BY DEF TypeOK, clientVars, serverVars, lifeVars, ctxVars

LEMMA WireTypes ==
  ASSUME TypeOK
  PROVE  /\ cbserver \in [Streams -> {"none", "queued", "bound", "dropped"}]
         /\ ucb \subseteq Calls
         /\ cbq \in [Streams -> Seq(Kinds)]
         /\ cbreply \subseteq Calls
         /\ pipe \in [Streams -> {"none", "server", "client", "closed"}]
BY DEF TypeOK

\* The loop takes a call out of the connection.
LEMMA CallTaken ==
  ASSUME TypeOK, NEW s \in Streams, cbq[s] # <<>>, cbq' = [cbq EXCEPT ![s] = Tail(@)]
  PROVE  /\ cbq' \in [Streams -> Seq(Kinds)]
         /\ Head(cbq[s]) \in Kinds
         /\ \A t \in Streams \ {s} : cbq'[t] = cbq[t]
         /\ DeviceAsked(s)' # {} => DeviceAsked(s) # {}
         /\ (\A i, j \in DeviceAsked(s) : i = j) =>
              /\ \A i, j \in DeviceAsked(s)' : i = j
              /\ Head(cbq[s]) = "device" => DeviceAsked(s)' = {}
         /\ Head(cbq[s]) = "device" => DeviceAsked(s) # {}
<1> DEFINE q == cbq[s]
<1>1. q \in Seq(Kinds) /\ cbq \in [Streams -> Seq(Kinds)]
  BY WireTypes
<1>2. /\ Tail(q) \in Seq(Kinds) /\ Head(q) = q[1] /\ 1 \in DOMAIN q
      /\ \A i \in DOMAIN Tail(q) : i \in Nat /\ i + 1 \in DOMAIN q /\ i + 1 # 1
                                   /\ Tail(q)[i] = q[i + 1]
      /\ q[1] \in Kinds
  BY <1>1
<1>3. cbq'[s] = Tail(q) /\ \A t \in Streams \ {s} : cbq'[t] = cbq[t]
  BY <1>1
<1>4. \A i \in DeviceAsked(s)' : i \in Nat /\ i + 1 \in DeviceAsked(s) /\ i + 1 # 1
  BY <1>2, <1>3 DEF DeviceAsked
<1>5. Head(q) = "device" => 1 \in DeviceAsked(s)
  BY <1>2 DEF DeviceAsked
<1>6. (\A i, j \in DeviceAsked(s) : i = j) => \A i, j \in DeviceAsked(s)' : i = j
  <2> SUFFICES ASSUME \A i, j \in DeviceAsked(s) : i = j,
                      NEW i \in DeviceAsked(s)', NEW j \in DeviceAsked(s)'
               PROVE  i = j
    OBVIOUS
  <2>1. i + 1 = j + 1
    BY <1>4
  <2> QED BY <1>4, <2>1
<1>7. (\A i, j \in DeviceAsked(s) : i = j) /\ Head(q) = "device" => DeviceAsked(s)' = {}
  BY <1>4, <1>5
<1>8. cbq' \in [Streams -> Seq(Kinds)]
  BY <1>1, <1>2
<1> QED BY <1>2, <1>3, <1>4, <1>5, <1>6, <1>7, <1>8

LEMMA BindServerStep ==
  ASSUME LifeInv, NEW s \in Streams, BindServer(s)
  PROVE  LifeInv'
<1> USE DEF LifeInv
<1>1. StreamInv(s)
  BY DEF StreamsOK
<1>2. /\ "client" \notin dead /\ ucb = {} /\ cbserver[s] = "queued"
      /\ cbserver' = [cbserver EXCEPT ![s] = "bound"]
      /\ UNCHANGED <<token, devcb, lpc, ucb, rpcq, ans, cbq, cbreply, pipe, serverVars,
                     cpc, choice, known, lists, link, ready, devidmap, srv, dead>>
  BY DEF BindServer, LoopFree, netVars, wireVars, lifeVars, ctxVars
<1>3. upc[s] = "bind"
  BY <1>1, <1>2, SameTypes DEF StreamInv, Server, ClientPcs
<1>4. upc' = [upc EXCEPT ![s] = "live"]
  BY <1>3 DEF BindServer
<1>5. /\ upc' \in [Streams -> ClientPcs] /\ upc'[s] = "live"
      /\ \A t \in Streams \ {s} : upc'[t] = upc[t]
  BY <1>4, GotoFacts DEF ClientPcs, Goto
<1>6. /\ cbserver' \in [Streams -> {"none", "queued", "bound", "dropped"}]
      /\ cbserver'[s] = "bound"
      /\ \A t \in Streams \ {s} : cbserver'[t] = cbserver[t]
  BY <1>2, SameTypes
<1>7. TypeOK'
  BY <1>2, <1>5, <1>6, SameTypes, ClientTypes
<1>8. Quiet(s) /\ OthersAsk(s)
  BY <1>2, <1>3, <1>5, QuietStream DEF OthersAsk, AsksSame, Asking
<1>9. RequestOK'
  BY <1>2, <1>8, RequestMoves DEF serverVars
<1>10. ClientMove(s)
  BY <1>2, <1>6, <1>8 DEF ClientMove
<1>11. Uncreated(s)' /\ Server(s)'
  BY <1>1, <1>2, <1>5, <1>6 DEF StreamInv, Uncreated, Server, Runs
<1>12. Holds(s)' = Holds(s)
  BY <1>2 DEF Holds, serverVars
<1>13. Serving => Phase(s)'
  BY <1>1, <1>2, <1>3, <1>5, <1>12 DEF StreamInv, Phase, Owns, serverVars
<1>14. Cleared(s)' => NoDevice(s) /\ \A j \in Holds(s) : ~slab[j].notify
  BY <1>1, <1>2, <1>5 DEF StreamInv, DeviceCalls, Cleared
<1> QED BY <1>2, <1>3, <1>7, <1>9, <1>10, <1>11, <1>13, <1>14, ClientMoves DEF Final

LEMMA DeviceChangeIgnoredStep ==
  ASSUME LifeInv, NEW s \in Streams, DeviceChangeIgnored(s)
  PROVE  LifeInv'
<1> USE DEF LifeInv
<1>1. /\ cbq[s] # <<>> /\ Head(cbq[s]) = "device"
      /\ cbq' = [cbq EXCEPT ![s] = Tail(@)]
      /\ cbreply' \subseteq cbreply \cup {<<s, "device">>} /\ cbreply \subseteq cbreply'
      /\ UNCHANGED <<clientVars, lpc, cbserver, ucb, rpcq, ans, pipe, serverVars, lifeVars>>
  BY DEF DeviceChangeIgnored, NullCallback, loopVars
<1>2. StreamInv(s)
  BY DEF StreamsOK
<1>3. TypeOK'
  BY <1>1, WireTypes, CallTaken, LoopTypes DEF Calls, Kinds
<1>4. Server(s)' /\ Given(s)'
  BY <1>1, <1>2 DEF StreamInv, Server, Given, Runs, clientVars
<1>5. DeviceCalls(s)'
  <2>1. /\ DeviceRuns(s)' = DeviceRuns(s)
        /\ Cleared(s)' = Cleared(s)
        /\ Holds(s)' = Holds(s)
        /\ UNCHANGED <<dead, dpc, slab>>
    BY <1>1 DEF DeviceRuns, Cleared, Holds, clientVars, serverVars, lifeVars
  <2>2. DeviceAsked(s) # {}
    BY <1>1, CallTaken
  <2>3. "server" \notin dead => DeviceAsked(s)' = {} /\ ~DeviceRuns(s) /\ dpc[s] # "idle"
    BY <1>1, <1>2, <2>2, CallTaken DEF StreamInv, DeviceCalls, NoDevice
  <2>4. ~Cleared(s)
    BY <1>2, <2>2 DEF StreamInv, DeviceCalls, NoDevice
  <2> QED BY <2>1, <2>3, <2>4 DEF DeviceCalls
<1>6. LoopMove(s)
  BY <1>1, CallTaken DEF LoopMove, RunsSame, AnswersSame
<1> QED BY <1>3, <1>4, <1>5, <1>6, LoopMoves

LEMMA CallbackBeginStep ==
  ASSUME LifeInv, NEW s \in Streams, CallbackBegin(s)
  PROVE  LifeInv'
<1> USE DEF LifeInv
<1> DEFINE h == Head(cbq[s])
<1>1. /\ cbq[s] # <<>> /\ ucb = {} /\ cbserver[s] = "bound"
      /\ h = "device" => devcb[s] = "set"
      /\ cbq' = [cbq EXCEPT ![s] = Tail(@)]
      /\ ucb' = {<<s, h>>}
      /\ UNCHANGED <<clientVars, lpc, cbserver, rpcq, ans, cbreply, pipe, serverVars, lifeVars>>
  BY DEF CallbackBegin, NullCallback, LoopFree
<1>2. StreamInv(s)
  BY DEF StreamsOK
<1>3. h \in Kinds
  BY <1>1, CallTaken
<1>4. TypeOK'
  BY <1>1, <1>3, WireTypes, CallTaken, LoopTypes DEF Calls
<1>5. Server(s)'
  BY <1>1, <1>2 DEF StreamInv, Server, clientVars
<1>6. Given(s)'
  BY <1>1, <1>2 DEF StreamInv, Given
<1>7. DeviceCalls(s)'
  <2>1. /\ DeviceRuns(s)' <=> h = "device"
        /\ ~DeviceRuns(s)
        /\ Cleared(s)' = Cleared(s)
        /\ DeviceAnswered(s)' = DeviceAnswered(s)
        /\ Holds(s)' = Holds(s)
        /\ UNCHANGED <<dead, dpc, slab>>
    BY <1>1 DEF DeviceRuns, DeviceAnswered, Cleared, Holds, clientVars, serverVars, lifeVars
  <2>2. DeviceCalls(s)
    BY <1>2 DEF StreamInv
  <2>3. CASE h = "device"
    <3>1. DeviceAsked(s) # {}
      BY <1>1, <2>3, CallTaken
    <3>2. "server" \notin dead =>
            DeviceAsked(s)' = {} /\ ~DeviceAnswered(s) /\ dpc[s] # "idle"
      BY <1>1, <2>2, <2>3, <3>1, CallTaken DEF DeviceCalls, NoDevice
    <3>3. ~Cleared(s)
      BY <2>2, <3>1 DEF DeviceCalls, NoDevice
    <3> QED BY <2>1, <3>2, <3>3 DEF DeviceCalls
  <2>4. CASE h # "device"
    <3>1. ~DeviceRuns(s)'
      BY <2>1, <2>4
    <3>2. DeviceAsked(s)' # {} => DeviceAsked(s) # {}
      BY <1>1, CallTaken
    <3>3. (\A i, j \in DeviceAsked(s) : i = j) => \A i, j \in DeviceAsked(s)' : i = j
      BY <1>1, CallTaken
    <3>4. NoDevice(s) => NoDevice(s)'
      BY <3>1, <3>2 DEF NoDevice
    <3> QED BY <2>1, <2>2, <3>1, <3>2, <3>3, <3>4 DEF DeviceCalls
  <2> QED BY <2>3, <2>4
<1>8. LoopMove(s)
  BY <1>1, CallTaken DEF LoopMove, RunsSame, AnswersSame
<1> QED BY <1>4, <1>5, <1>6, <1>7, <1>8, LoopMoves

LEMMA CallbackServerDropStep ==
  ASSUME LifeInv, NEW s \in Streams, CallbackServerDrop(s)
  PROVE  LifeInv'
<1> USE DEF LifeInv
<1>1. /\ ucb = {} /\ cbserver[s] = "bound" /\ cbq[s] = <<>>
      /\ cbserver' = [cbserver EXCEPT ![s] = "dropped"]
      /\ pipe' = [pipe EXCEPT ![s] = "closed"]
      /\ UNCHANGED <<clientVars, lpc, ucb, rpcq, ans, cbq, cbreply, serverVars, lifeVars>>
  BY DEF CallbackServerDrop, LoopFree
<1>2. StreamInv(s)
  BY DEF StreamsOK
<1>3. upc[s] \notin {"new", "create"}
  BY <1>1, <1>2 DEF StreamInv, Server
<1>4. TypeOK'
  BY <1>1, WireTypes, LoopTypes
<1>5. cbserver'[s] = "dropped" /\ pipe'[s] = "closed"
  BY <1>1, WireTypes
<1>6. Server(s)' /\ Given(s)'
  BY <1>1, <1>2, <1>5 DEF StreamInv, Server, Given, Runs, clientVars
<1>7. DeviceCalls(s)'
  BY <1>1, <1>2, DeviceCallsSame
  DEF StreamInv, SlabSame, RunsSame, AnswersSame, AsksSame, clientVars, serverVars, lifeVars
<1>8. LoopMove(s)
  BY <1>1, <1>3, <1>5, WireTypes DEF LoopMove, RunsSame, AnswersSame
<1> QED BY <1>4, <1>6, <1>7, <1>8, LoopMoves

LEMMA BindServerFailsStep ==
  ASSUME LifeInv, NEW s \in Streams, BindServerFails(s)
  PROVE  LifeInv'
<1> USE DEF LifeInv
<1>1. /\ "client" \notin dead /\ ucb = {} /\ upc[s] = "bind" /\ cbserver[s] = "queued"
      /\ cbserver' = [cbserver EXCEPT ![s] = "dropped"]
      /\ pipe' = [pipe EXCEPT ![s] = "closed"]
      /\ cbq' = [cbq EXCEPT ![s] = <<>>]
      /\ cbreply' = cbreply \cup Pending(s)
      /\ Goto(s, "failed")
      /\ UNCHANGED <<token, devcb, lpc, ucb, rpcq, ans, serverVars, cpc, choice, known, lists,
                     link, ready, devidmap, srv, dead>>
  BY DEF BindServerFails, LoopFree, lifeVars, ctxVars
<1>2. StreamInv(s)
  BY DEF StreamsOK
<1>3. /\ upc' \in [Streams -> ClientPcs] /\ upc'[s] = "failed"
      /\ \A t \in Streams \ {s} : upc'[t] = upc[t]
  BY <1>1, GotoFacts DEF ClientPcs
<1>4. /\ cbserver'[s] = "dropped" /\ pipe'[s] = "closed" /\ cbq'[s] = <<>>
      /\ cbserver' \in [Streams -> {"none", "queued", "bound", "dropped"}]
      /\ pipe' \in [Streams -> {"none", "server", "client", "closed"}]
      /\ cbq' \in [Streams -> Seq(Kinds)]
      /\ \A t \in Streams \ {s} : /\ cbserver'[t] = cbserver[t]
                                  /\ pipe'[t] = pipe[t] /\ cbq'[t] = cbq[t]
  BY <1>1, WireTypes
<1>5. Pending(s) \subseteq Calls /\ \A m \in Pending(s) : m[1] = s
  BY WireTypes DEF Pending, Calls
<1>6. TypeOK'
  BY <1>1, <1>3, <1>4, <1>5, WireTypes DEF TypeOK, serverVars
<1>7. LinkOK'
  BY <1>1, <1>3, InUse DEF LinkOK, Serving, serverVars, Final
<1>8. Quiet(s) /\ OthersAsk(s)
  BY <1>1, <1>3, QuietStream DEF OthersAsk, AsksSame, Asking
<1>9. RequestOK'
  BY <1>1, <1>8, RequestMoves DEF serverVars
<1>10. SlabOK'
  <2>1. \A k \in Keys : slab[k].connected => slab[k].of \in Streams
    BY DEF TypeOK, SlabOK, Vacant, Created0
  <2>2. \A t \in Streams : pipe[t] \in {"client", "closed"} => pipe'[t] \in {"client", "closed"}
    BY <1>4, Zenon
  <2> QED BY <1>1, <2>1, <2>2 DEF SlabOK, Busy, serverVars
<1>11. KnownOK'
  BY <1>1 DEF KnownOK, serverVars
<1>12. Uncreated(s)' /\ Calling(s)' /\ Server(s)' /\ Given(s)' /\ (Serving' => Phase(s)')
  BY <1>1, <1>2, <1>3, <1>4
  DEF StreamInv, Uncreated, Calling, Server, Given, Runs, Phase, serverVars
<1>13. DeviceCalls(s)'
  <2>1. DeviceAsked(s)' = {} /\ ~DeviceRuns(s)' /\ Holds(s)' = Holds(s)
    BY <1>1, <1>4 DEF DeviceAsked, DeviceRuns, Holds, serverVars
  <2>2. Cleared(s)' => Cleared(s)
    BY <1>1, <1>3 DEF Cleared
  <2>3. DeviceAsked(s) = {} => (DeviceAnswered(s)' <=> DeviceAnswered(s))
    BY <1>1, WireTypes DEF DeviceAsked, DeviceAnswered, Pending
  <2> QED BY <1>1, <1>2, <2>1, <2>2, <2>3 DEF StreamInv, DeviceCalls, NoDevice, serverVars
<1>14. StreamInv(s)'
  BY <1>12, <1>13 DEF StreamInv
<1>15. \A t \in Streams \ {s} : Untouched(t)
  BY <1>1, <1>4, <1>5, <1>8
  DEF Untouched, OthersAsk, SlabSame, RunsSame, AnswersSame, Current, Busy, Serving, serverVars
<1> QED BY <1>6, <1>7, <1>9, <1>10, <1>11, <1>14, <1>15, OneStream

\* The callback returns, and the server has its answer.
LEMMA CallbackEndStep ==
  ASSUME LifeInv, CallbackEnd
  PROVE  LifeInv'
<1> USE DEF LifeInv
<1>1. /\ ucb' = {} /\ cbreply \subseteq cbreply' /\ cbreply' \subseteq cbreply \cup ucb
      /\ UNCHANGED <<clientVars, lpc, cbserver, rpcq, ans, cbq, pipe, serverVars, lifeVars>>
  BY DEF CallbackEnd
<1>2. TypeOK'
  BY <1>1, WireTypes, LoopTypes
<1>3. LinkOK' /\ KnownOK' /\ SlabOK'
  BY <1>1 DEF LinkOK, KnownOK, SlabOK, Serving, Busy, serverVars, lifeVars, ctxVars, clientVars
<1>4. \A t \in Streams : AsksSame(t) /\ SlabSame(t) /\ Current(t)' = Current(t)
  BY <1>1 DEF AsksSame, SlabSame, Current, Busy, serverVars, clientVars
<1>5. RequestOK'
  BY <1>1, <1>4, RequestMoves DEF OthersAsk, serverVars
<1>6. ASSUME NEW t \in Streams
      PROVE  StreamInv(t)'
  <2>1. StreamInv(t)
    BY DEF StreamsOK
  <2>2. Uncreated(t)' /\ Calling(t)'
    BY <1>1, <1>4, <2>1, UncreatedSame, CallingSame DEF StreamInv, serverVars
  <2>3. Serving' => Phase(t)'
    BY <1>1, <1>4, <2>1, PhaseSame DEF StreamInv, Serving, serverVars
  <2>4. Server(t)' /\ Given(t)'
    BY <1>1, <2>1 DEF StreamInv, Server, Given, Runs, clientVars
  <2>5. DeviceCalls(t)'
    <3>1. /\ DeviceAsked(t)' = DeviceAsked(t) /\ ~DeviceRuns(t)'
          /\ Cleared(t)' = Cleared(t) /\ Holds(t)' = Holds(t)
          /\ UNCHANGED <<dead, dpc, slab>>
      BY <1>1 DEF DeviceAsked, DeviceRuns, Cleared, Holds, clientVars, serverVars, lifeVars
    <3>2. DeviceAnswered(t)' => DeviceAnswered(t) \/ DeviceRuns(t)
      BY <1>1 DEF DeviceAnswered, DeviceRuns
    <3>3. DeviceAsked(t)' # {} /\ "server" \notin dead => ~DeviceAnswered(t)'
      BY <2>1, <3>1, <3>2 DEF StreamInv, DeviceCalls
    <3> QED BY <2>1, <3>1, <3>2, <3>3 DEF StreamInv, DeviceCalls, NoDevice
  <2> QED BY <2>2, <2>3, <2>4, <2>5 DEF StreamInv
<1> QED BY <1>2, <1>3, <1>5, <1>6 DEF StreamsOK

-----------------------------------------------------------------------------
(* The context, its connection and the server.                              *)

\* A step of the context, of the embedder or of the callback loop's own calls:
\* no stream takes part.
ContextMove ==
  /\ UNCHANGED <<clientVars, cbserver, ucb, cbq, cbreply, pipe, slab, apc, dpc, choice>>
  /\ \A t \in Streams : ans'[t] = ans[t]
  /\ \A t \in Streams : Current(t)' = Current(t)
  /\ Serving' => Serving
  /\ dead \subseteq dead'

LEMMA ContextMoves ==
  ASSUME LifeInv, ContextMove, TypeOK', LinkOK', RequestOK',
         Busy' => Busy /\ UNCHANGED <<spc, cur>>, ready => ready', UNCHANGED <<known, devidmap>>
  PROVE  LifeInv'
<1> USE DEF LifeInv, ContextMove
<1>1. SlabOK'
  <2>1. /\ \A j, k \in Keys : slab'[j].of = slab'[k].of /\ slab'[j].of # None => j = k
        /\ \A k \in Keys : (slab'[k].of = None) <=> (slab'[k] = Vacant)
        /\ \A k \in Keys : slab'[k] # Vacant => ready'
        /\ \A k \in Keys : slab'[k].connected =>
             slab'[k].stream \in {"some", "dropping"} /\ pipe'[slab'[k].of] \in {"client", "closed"}
    BY DEF SlabOK
  <2>2. Busy' => /\ slab'[cur'.key].of = cur'.from
                 /\ spc' = "init" => slab'[cur'.key].stream = "init"
                 /\ spc' \in {"op", "opwait"} => slab'[cur'.key].stream = "some"
                 /\ spc' = "drop" => slab'[cur'.key].stream = "dropping"
    BY DEF SlabOK
  <2> QED BY <2>1, <2>2 DEF SlabOK, Vacant, Created0
<1>2. KnownOK'
  BY DEF KnownOK
<1>3. \A t \in Streams : Untouched(t)
  BY DEF Untouched, SlabSame, RunsSame, AnswersSame, AsksSame, clientVars
<1> QED BY <1>1, <1>2, <1>3, NoStream

ContextPcs == {"new", "connect", "query", "live", "list", "disconnect", "joinRpc",
               "joinCallback", "dropped"}

LEMMA ContextTypes ==
  ASSUME TypeOK,
         UNCHANGED <<clientVars, cbserver, ucb, cbq, cbreply, pipe, cur, slab, sconn, apc, dpc,
                     known, choice, devidmap>>,
         lpc' \in {"none", "start", "promote", "run", "exited"},
         rpcq' \in Seq(Requests),
         ans' \in [Callers -> Keys \cup {None, "ok", "err"}],
         spc' \in {"idle", "init", "op", "opwait", "drop", "dropall", "gone"},
         cpc' \in ContextPcs,
         lists' \in 0..MaxLists,
         link' \in [{"client", "server"} -> {"none", "open", "closed"}],
         ready' \in BOOLEAN,
         srv' \in {"none", "up", "stopping", "down"},
         dead' \subseteq {"client", "server"}
  PROVE  TypeOK'
BY DEF TypeOK, clientVars, ContextPcs

LEMMA LifeTypes ==
  ASSUME TypeOK
  PROVE  /\ lpc \in {"none", "start", "promote", "run", "exited"}
         /\ spc \in {"idle", "init", "op", "opwait", "drop", "dropall", "gone"}
         /\ cpc \in ContextPcs
         /\ lists \in 0..MaxLists
         /\ link \in [{"client", "server"} -> {"none", "open", "closed"}]
         /\ ready \in BOOLEAN
         /\ srv \in {"none", "up", "stopping", "down"}
         /\ dead \subseteq {"client", "server"}
BY DEF TypeOK, ContextPcs

\* What the two steps of a call of the context do to the requests.
LEMMA ContextSends ==
  ASSUME TypeOK, RequestOK, NEW c \in {"ctx", "loop"}, NEW op \in ContextOps, Send(c, op, None),
         UNCHANGED <<clientVars, spc, cur>>
  PROVE  /\ RequestOK'
         /\ rpcq' \in Seq(Requests) /\ ans' \in [Callers -> Keys \cup {None, "ok", "err"}]
         /\ \A t \in Streams : ans'[t] = ans[t]
<1> DEFINE r == [from |-> c, op |-> op, key |-> None]
<1>1. r \in Requests /\ c \in Callers
  BY DEF Requests, Callers, ContextOps
<1>2. /\ rpcq' \in Seq(Requests) /\ ans' \in [Callers -> Keys \cup {None, "ok", "err"}]
      /\ \A d \in Callers \ {c} : ans'[d] = ans[d]
      /\ rpcq' = rpcq \/ rpcq' = Append(rpcq, r)
  BY <1>1, SendCases
<1>3. \A t \in Streams : ans'[t] = ans[t]
  BY <1>2, StreamAssumption DEF Callers
<1>4. OthersAsk(None)
  BY <1>3 DEF OthersAsk, AsksSame, clientVars
<1>5. r.from = c /\ r.op \in ContextOps
  OBVIOUS
<1> HIDE DEF r
<1>6. RequestOK'
  BY <1>1, <1>2, <1>4, <1>5, RequestMoves, ContextRequest
<1> QED BY <1>2, <1>3, <1>6

LEMMA ContextTakes ==
  ASSUME TypeOK, RequestOK, NEW c \in {"ctx", "loop"}, Take(c),
         UNCHANGED <<clientVars, rpcq, spc, cur>>
  PROVE  /\ RequestOK'
         /\ ans' \in [Callers -> Keys \cup {None, "ok", "err"}]
         /\ \A t \in Streams : ans'[t] = ans[t]
<1>1. /\ ans' \in [Callers -> Keys \cup {None, "ok", "err"}]
      /\ \A t \in Streams : ans'[t] = ans[t]
  BY TakeFacts, StreamAssumption DEF Callers
<1>2. OthersAsk(None)
  BY <1>1 DEF OthersAsk, AsksSame, clientVars
<1> QED BY <1>1, <1>2, RequestMoves

LEMMA LoopCallStep ==
  ASSUME LifeInv, LoopStart \/ LoopPromoted
  PROVE  LifeInv'
<1> USE DEF LifeInv
<1>1. /\ UNCHANGED <<clientVars, cbserver, ucb, cbq, cbreply, pipe, serverVars, cpc, known,
                     choice, lists, link, ready, devidmap, srv, dead>>
      /\ lpc' \in {"promote", "run"}
      /\ Send("loop", "promote", None) \/ (Take("loop") /\ UNCHANGED rpcq)
  BY DEF LoopStart, LoopPromoted, wireVars, lifeVars, ctxVars
<1>2. /\ RequestOK' /\ rpcq' \in Seq(Requests)
      /\ ans' \in [Callers -> Keys \cup {None, "ok", "err"}]
      /\ \A t \in Streams : ans'[t] = ans[t]
  BY <1>1, ContextSends, ContextTakes, SameTypes DEF ContextOps, serverVars
<1>3. TypeOK'
  BY <1>1, <1>2, ContextTypes, LifeTypes DEF serverVars
<1>4. LinkOK' /\ ContextMove
  BY <1>1, <1>2 DEF LinkOK, ContextMove, Serving, Current, Busy, serverVars, clientVars
<1> QED BY <1>1, <1>2, <1>3, <1>4, ContextMoves DEF serverVars, Busy

LEMMA ContextCallStep ==
  ASSUME LifeInv, ContextInit \/ ContextConnected \/ EnumerateDevices \/ ContextDrop
  PROVE  LifeInv'
<1> USE DEF LifeInv
<1>1. PICK from \in ContextPcs, op \in ContextOps, to \in ContextPcs :
        /\ ContextCall(from, op, to)
        /\ \/ from = "new" /\ to = "connect" /\ link.client # "none"
           \/ from = "connect" /\ to = "query"
           \/ from = "live" /\ to = "list"
           \/ from = "live" /\ to = "disconnect" /\ \A s \in Streams : upc[s] \in Final
  BY DEF ContextInit, ContextConnected, EnumerateDevices, ContextDrop, ContextPcs, ContextOps,
         Final
<1>2. /\ "client" \notin dead /\ cpc = from /\ cpc' = to /\ Send("ctx", op, None)
      /\ UNCHANGED <<clientVars, lpc, cbserver, ucb, cbq, cbreply, pipe, serverVars, known,
                     choice, link, ready, devidmap, srv, dead>>
  BY <1>1 DEF ContextCall, ContextAt, loopVars
<1>3. lists' \in 0..MaxLists
  BY StreamAssumption, LifeTypes
  DEF ContextInit, ContextConnected, EnumerateDevices, ContextDrop
<1>4. /\ RequestOK' /\ rpcq' \in Seq(Requests)
      /\ ans' \in [Callers -> Keys \cup {None, "ok", "err"}]
      /\ \A t \in Streams : ans'[t] = ans[t]
  BY <1>2, ContextSends DEF serverVars
<1>5. TypeOK'
  BY <1>2, <1>3, <1>4, ContextTypes, LifeTypes DEF serverVars
<1>6. LinkOK'
  BY <1>1, <1>2 DEF LinkOK, Serving, Final, serverVars, clientVars
<1>7. ContextMove
  BY <1>2, <1>4 DEF ContextMove, Serving, Current, Busy, serverVars, clientVars
<1> QED BY <1>2, <1>4, <1>5, <1>6, <1>7, ContextMoves DEF serverVars, Busy

LEMMA ContextReturnStep ==
  ASSUME LifeInv, ContextCreated \/ ContextCreateFails \/ EnumerateReturn \/ ContextDisconnected
  PROVE  LifeInv'
<1> USE DEF LifeInv
<1>1. /\ "client" \notin dead /\ Take("ctx")
      /\ \/ cpc = "query" /\ cpc' \in {"live", "joinRpc"}
         \/ cpc = "list" /\ cpc' = "live"
         \/ cpc = "disconnect" /\ cpc' = "joinRpc"
      /\ lpc' = lpc \/ lpc' = "start"
      /\ UNCHANGED <<clientVars, cbserver, ucb, rpcq, cbq, cbreply, pipe, serverVars, known,
                     choice, lists, link, ready, devidmap, srv, dead>>
  BY DEF ContextCreated, ContextCreateFails, EnumerateReturn, ContextDisconnected, ContextAt,
         loopVars, wireVars, ctxVars
<1>2. /\ RequestOK' /\ ans' \in [Callers -> Keys \cup {None, "ok", "err"}]
      /\ \A t \in Streams : ans'[t] = ans[t]
  BY <1>1, ContextTakes DEF serverVars
<1>3. TypeOK'
  BY <1>1, <1>2, ContextTypes, LifeTypes, SameTypes DEF serverVars, ContextPcs
<1>4. LinkOK'
  BY <1>1 DEF LinkOK, Serving, Final, serverVars, clientVars
<1>5. ContextMove
  BY <1>1, <1>2 DEF ContextMove, Serving, Current, Busy, serverVars, clientVars
<1> QED BY <1>1, <1>2, <1>3, <1>4, <1>5, ContextMoves DEF serverVars, Busy

\* The calls that fail: a stream's only while it has one.
LEMMA FailCallsFacts ==
  ASSUME TypeOK, FailCalls
  PROVE  /\ ans' \in [Callers -> Keys \cup {None, "ok", "err"}]
         /\ \A s \in Streams : IF upc[s] \in Asking /\ ans[s] = None
                                 THEN ans'[s] = "err" ELSE ans'[s] = ans[s]
<1>1. \A s \in Streams : Waiting(s) <=> upc[s] \in Asking
  BY StreamAssumption DEF Waiting, Asking
<1>2. Streams \subseteq Callers /\ ans \in [Callers -> Keys \cup {None, "ok", "err"}]
  BY SameTypes DEF Callers
<1>3. \A c \in Callers : ans'[c] = IF Waiting(c) /\ ans[c] = None THEN "err" ELSE ans[c]
  BY DEF FailCalls
<1>4. ans' = [c \in Callers |-> ans'[c]]
  BY DEF FailCalls
<1>5. ans' \in [Callers -> Keys \cup {None, "ok", "err"}]
  BY <1>2, <1>3, <1>4
<1> QED BY <1>1, <1>2, <1>3, <1>5

LEMMA ContextDropStep ==
  ASSUME LifeInv, RpcThreadJoined \/ CallbackThreadJoined
  PROVE  LifeInv'
<1> USE DEF LifeInv
<1>1. UNCHANGED <<clientVars, cbserver, ucb, rpcq, cbq, cbreply, pipe, serverVars, known, choice,
                  lists, ready, devidmap, srv, dead>>
  BY DEF RpcThreadJoined, CallbackThreadJoined, loopVars, netVars, wireVars, ctxVars
<1>2. /\ "client" \notin dead
      /\ \/ cpc = "joinRpc" /\ cpc' \in {"joinCallback", "dropped"}
            /\ link' = [link EXCEPT !.client = "closed"]
         \/ cpc = "joinCallback" /\ cpc' = "dropped" /\ link' = link
  BY DEF RpcThreadJoined, CallbackThreadJoined, ContextAt
<1>3. /\ ans' \in [Callers -> Keys \cup {None, "ok", "err"}]
      /\ \A t \in Streams : ans'[t] = ans[t]
  <2>1. CASE CallbackThreadJoined
    BY <2>1, SameTypes DEF CallbackThreadJoined, netVars
  <2>2. CASE RpcThreadJoined
    <3>1. \A s \in Streams : upc[s] \notin Asking
      BY <2>2 DEF RpcThreadJoined, ContextAt, LinkOK, Final, Asking
    <3> QED BY <2>2, <3>1, FailCallsFacts DEF RpcThreadJoined
  <2> QED BY <2>1, <2>2
<1>4. lpc' = lpc \/ lpc' = "exited"
  BY DEF RpcThreadJoined, CallbackThreadJoined, loopVars
<1>5. RequestOK'
  BY <1>1, <1>3, RequestMoves DEF OthersAsk, AsksSame, clientVars, serverVars
<1>6. link' \in [{"client", "server"} -> {"none", "open", "closed"}]
  BY <1>2, LifeTypes
<1>7. TypeOK'
  BY <1>1, <1>2, <1>3, <1>4, <1>6, ContextTypes, LifeTypes, SameTypes DEF serverVars, ContextPcs
<1>8. LinkOK'
  BY <1>1, <1>2, LifeTypes DEF LinkOK, Serving, Final, serverVars, clientVars
<1>9. ContextMove
  BY <1>1, <1>3 DEF ContextMove, Serving, Current, Busy, serverVars, clientVars
<1> QED BY <1>1, <1>5, <1>7, <1>8, <1>9, ContextMoves DEF serverVars, Busy

LEMMA EmbedderStep ==
  ASSUME LifeInv, ServerStart \/ NewClient \/ ServerStop \/ ServerStopped \/ ContextReady
  PROVE  LifeInv'
<1> USE DEF LifeInv
<1>1. /\ UNCHANGED <<clientVars, lpc, cbserver, ucb, rpcq, ans, cbq, cbreply, pipe, serverVars,
                     known, choice, lists, cpc, devidmap, dead>>
      /\ srv' \in {"none", "up", "stopping", "down"}
      /\ srv \in {"stopping", "down"} => srv' \in {"stopping", "down"}
      /\ ready' \in BOOLEAN /\ (ready => ready')
      /\ \/ link' = link
         \/ link.server = "none" /\ link' = [client |-> "open", server |-> "open"]
            /\ "server" \notin dead /\ srv = "up"
  <2> USE DEF Up, loopVars, netVars, wireVars, ctxVars
  <2>1. CASE ServerStart \/ ServerStop \/ ServerStopped
    BY <2>1, LifeTypes DEF ServerStart, ServerStop, ServerStopped
  <2>2. CASE NewClient
    BY <2>2, LifeTypes DEF NewClient
  <2>3. CASE ContextReady
    BY <2>3, LifeTypes DEF ContextReady
  <2> QED BY <2>1, <2>2, <2>3
<1>2. RequestOK'
  BY <1>1, RequestMoves DEF OthersAsk, AsksSame, clientVars, serverVars
<1>3. link' \in [{"client", "server"} -> {"none", "open", "closed"}]
  BY <1>1, LifeTypes
<1>4. TypeOK'
  BY <1>1, <1>3, ContextTypes, LifeTypes, SameTypes DEF serverVars
<1>5. LinkOK'
  BY <1>1, LifeTypes DEF LinkOK, Serving, Final, serverVars, clientVars
<1>6. ContextMove
  BY <1>1 DEF ContextMove, Serving, Current, Busy, serverVars, clientVars
<1> QED BY <1>1, <1>2, <1>4, <1>5, <1>6, ContextMoves DEF serverVars, Busy

-----------------------------------------------------------------------------
(* The server's RPC thread.                                                 *)

ServerStreams == [of : Streams \cup {None}, stream : {"none", "init", "some", "dropping"},
                  connected : BOOLEAN, notify : BOOLEAN, device : Devices \cup {0}]

LEMMA ServerTypes ==
  ASSUME TypeOK, UNCHANGED <<clientVars, loopVars, lifeVars>>,
         rpcq' \in Seq(Requests),
         ans' \in [Callers -> Keys \cup {None, "ok", "err"}],
         cbq' \in [Streams -> Seq(Kinds)],
         cbreply' \subseteq Calls,
         pipe' \in [Streams -> {"none", "server", "client", "closed"}],
         spc' \in {"idle", "init", "op", "opwait", "drop", "dropall", "gone"},
         cur' \in Requests,
         slab' \in [Keys -> ServerStreams],
         sconn' \in [Streams -> {"none", "open", "closed"}],
         apc' \in [Streams -> {"idle", "wait"}],
         dpc' \in [Streams -> {"idle", "wait"}]
  PROVE  TypeOK'
BY DEF TypeOK, ServerStreams, clientVars, loopVars, lifeVars, ctxVars

LEMMA ServerFacts ==
  ASSUME TypeOK
  PROVE  /\ rpcq \in Seq(Requests)
         /\ ans \in [Callers -> Keys \cup {None, "ok", "err"}]
         /\ cbq \in [Streams -> Seq(Kinds)]
         /\ cbreply \subseteq Calls
         /\ pipe \in [Streams -> {"none", "server", "client", "closed"}]
         /\ spc \in {"idle", "init", "op", "opwait", "drop", "dropall", "gone"}
         /\ cur \in Requests
         /\ slab \in [Keys -> ServerStreams]
         /\ sconn \in [Streams -> {"none", "open", "closed"}]
         /\ apc \in [Streams -> {"idle", "wait"}]
         /\ dpc \in [Streams -> {"idle", "wait"}]
BY DEF TypeOK, ServerStreams

LEMMA NoRequestType ==
  /\ NoRequest \in Requests
  /\ Vacant \in ServerStreams /\ Vacant.of = None
  /\ Vacant.stream = "none" /\ ~Vacant.connected /\ ~Vacant.notify
BY DEF NoRequest, Requests, Vacant, Created0, ServerStreams

\* What a step of the server about the stream s leaves alone.
ServerMove(s) ==
  /\ UNCHANGED <<clientVars, loopVars, lifeVars>>
  /\ \A t \in Streams \ {s} :
       /\ ans'[t] = ans[t] /\ cbq'[t] = cbq[t] /\ pipe'[t] = pipe[t]
       /\ apc'[t] = apc[t] /\ dpc'[t] = dpc[t]
       /\ AnswersSame(t) /\ SlabSame(t)
       /\ Current(t)' = Current(t)
  /\ Serving' <=> Serving
  /\ spc = "gone" => spc' = "gone"

LEMMA ServerMoves ==
  ASSUME LifeInv, NEW s \in Streams, ServerMove(s),
         TypeOK', RequestOK', SlabOK', KnownOK',
         Uncreated(s)', Serving => Phase(s)', Calling(s)', DeviceCalls(s)', Given(s)'
  PROVE  LifeInv'
<1> USE DEF LifeInv, ServerMove, clientVars, loopVars, lifeVars, ctxVars
<1>1. LinkOK'
  <2>1. UNCHANGED <<link, cpc, dead, srv, upc>> /\ LinkOK /\ (Serving' <=> Serving)
      /\ spc = "gone" => spc' = "gone"
    OBVIOUS
  <2> QED BY <2>1 DEF LinkOK
<1>2. StreamInv(s)'
  <2>1. Server(s)'
    BY ServerSame DEF StreamsOK, StreamInv, RunsSame
  <2> QED BY <2>1 DEF StreamInv
<1>3. \A t \in Streams \ {s} : Untouched(t)
  BY DEF Untouched, RunsSame, AsksSame
<1> QED BY <1>1, <1>2, <1>3, OneStream

\* One ServerStream changes and stays its stream's.
LEMMA SlabChanged ==
  ASSUME TypeOK, SlabOK, NEW s \in Streams, NEW k \in Keys, slab[k].of = s,
         NEW v \in ServerStreams, v.of = s,
         slab' = [slab EXCEPT ![k] = v], UNCHANGED ready,
         v.connected => v.stream \in {"some", "dropping"} /\ pipe'[s] \in {"client", "closed"},
         \A t \in Streams \ {s} : pipe'[t] = pipe[t],
         Busy' => /\ cur'.key = k /\ cur'.from = s
                  /\ spc' = "init" => v.stream = "init"
                  /\ spc' \in {"op", "opwait"} => v.stream = "some"
                  /\ spc' = "drop" => v.stream = "dropping"
  PROVE  /\ SlabOK'
         /\ slab' \in [Keys -> ServerStreams]
         /\ slab'[k] = v /\ \A j \in Keys \ {k} : slab'[j] = slab[j]
         /\ \A t \in Streams : Holds(t)' = Holds(t)
         /\ \A t \in Streams \ {s} : SlabSame(t)
<1>1. slab \in [Keys -> ServerStreams]
  BY ServerFacts
<1>2. /\ slab' \in [Keys -> ServerStreams]
      /\ slab'[k] = v /\ \A j \in Keys \ {k} : slab'[j] = slab[j]
  BY <1>1
<1>3. \A j \in Keys : slab'[j].of = slab[j].of
  BY <1>2
<1>4. v # Vacant /\ slab[k] # Vacant
  BY StreamAssumption, NoRequestType
<1>5. /\ \A i, j \in Keys : slab'[i].of = slab'[j].of /\ slab'[i].of # None => i = j
      /\ \A j \in Keys : (slab'[j].of = None) <=> (slab'[j] = Vacant)
      /\ \A j \in Keys : slab'[j] # Vacant => ready'
  BY <1>2, <1>3, <1>4 DEF SlabOK
<1>6. \A j \in Keys : slab'[j].connected =>
        slab'[j].stream \in {"some", "dropping"} /\ pipe'[slab'[j].of] \in {"client", "closed"}
  <2> SUFFICES ASSUME NEW j \in Keys, slab'[j].connected
               PROVE  slab'[j].stream \in {"some", "dropping"} /\
                      pipe'[slab'[j].of] \in {"client", "closed"}
    OBVIOUS
  <2>1. CASE j = k
    BY <1>2, <2>1
  <2>2. CASE j # k
    <3>1. /\ slab[j].stream \in {"some", "dropping"} /\ pipe[slab[j].of] \in {"client", "closed"}
          /\ slab'[j] = slab[j]
      BY <1>2, <2>2 DEF SlabOK
    <3>2. slab[j].of # s /\ slab[j].of \in Streams \cup {None} /\ slab[j].of # None
      BY <1>1, <2>2, <3>1, StreamAssumption, NoRequestType DEF SlabOK, ServerStreams
    <3> QED BY <3>1, <3>2
  <2> QED BY <2>1, <2>2
<1>7. Vacant' = Vacant
  BY DEF Vacant, Created0
<1>8. SlabOK'
  BY <1>2, <1>5, <1>6, <1>7 DEF SlabOK
<1>9. \A t \in Streams : Holds(t)' = Holds(t)
  BY <1>3 DEF Holds
<1>10. \A t \in Streams \ {s} : SlabSame(t)
  BY <1>2, <1>3 DEF SlabSame
<1> QED BY <1>2, <1>8, <1>9, <1>10

\* streams.remove
LEMMA SlabRemoved ==
  ASSUME TypeOK, SlabOK, NEW s \in Streams, NEW k \in Keys, slab[k].of = s, Remove(k),
         UNCHANGED ready, ~Busy'
  PROVE  /\ SlabOK'
         /\ slab' \in [Keys -> ServerStreams]
         /\ slab'[k] = Vacant /\ \A j \in Keys \ {k} : slab'[j] = slab[j]
         /\ Holds(s) = {k} /\ Holds(s)' = {}
         /\ \A t \in Streams \ {s} : SlabSame(t)
         /\ sconn' \in [Streams -> {"none", "open", "closed"}]
         /\ pipe' \in [Streams -> {"none", "server", "client", "closed"}]
         /\ \A t \in Streams \ {s} : pipe'[t] = pipe[t]
         /\ pipe'[s] = IF pipe[s] = "server" THEN "closed" ELSE pipe[s]
<1>1. /\ slab \in [Keys -> ServerStreams]
      /\ sconn \in [Streams -> {"none", "open", "closed"}]
      /\ pipe \in [Streams -> {"none", "server", "client", "closed"}]
  BY ServerFacts
<1>2. /\ slab' = [slab EXCEPT ![k] = Vacant]
      /\ sconn' = [sconn EXCEPT ![s] = "closed"]
      /\ pipe' = [pipe EXCEPT ![s] = IF @ = "server" THEN "closed" ELSE @]
  BY DEF Remove
<1>3. /\ slab' \in [Keys -> ServerStreams]
      /\ slab'[k] = Vacant /\ \A j \in Keys \ {k} : slab'[j] = slab[j]
  BY <1>1, <1>2, NoRequestType
<1>4. /\ sconn' \in [Streams -> {"none", "open", "closed"}]
      /\ pipe' \in [Streams -> {"none", "server", "client", "closed"}]
      /\ \A t \in Streams \ {s} : pipe'[t] = pipe[t]
      /\ pipe'[s] = IF pipe[s] = "server" THEN "closed" ELSE pipe[s]
  BY <1>1, <1>2
<1>5. Holds(s) = {k}
  BY StreamAssumption DEF Holds, SlabOK
<1>6. Holds(s)' = {}
  BY <1>3, <1>5, NoRequestType, StreamAssumption DEF Holds
<1>7. \A t \in Streams \ {s} : SlabSame(t)
  BY <1>3, NoRequestType, StreamAssumption DEF SlabSame
<1>8. /\ \A i, j \in Keys : slab'[i].of = slab'[j].of /\ slab'[i].of # None => i = j
      /\ \A j \in Keys : (slab'[j].of = None) <=> (slab'[j] = Vacant)
      /\ \A j \in Keys : slab'[j] # Vacant => ready'
  BY <1>3, NoRequestType DEF SlabOK
<1>9. \A j \in Keys : slab'[j].connected =>
        slab'[j].stream \in {"some", "dropping"} /\ pipe'[slab'[j].of] \in {"client", "closed"}
  <2> SUFFICES ASSUME NEW j \in Keys, slab'[j].connected
               PROVE  slab'[j].stream \in {"some", "dropping"} /\
                      pipe'[slab'[j].of] \in {"client", "closed"}
    OBVIOUS
  <2>1. j # k
    BY <1>3, NoRequestType
  <2>2. /\ slab[j].stream \in {"some", "dropping"} /\ pipe[slab[j].of] \in {"client", "closed"}
        /\ slab'[j] = slab[j]
    BY <1>3, <2>1 DEF SlabOK
  <2>3. slab[j].of # s /\ slab[j].of \in Streams \cup {None} /\ slab[j].of # None
    BY <1>1, <2>1, <2>2, StreamAssumption, NoRequestType DEF SlabOK, ServerStreams
  <2> QED BY <1>4, <2>2, <2>3
<1>10. Vacant' = Vacant
  BY DEF Vacant, Created0
<1>11. SlabOK'
  BY <1>8, <1>9, <1>10 DEF SlabOK
<1> QED BY <1>3, <1>4, <1>5, <1>6, <1>7, <1>11

LEMMA KnownSame ==
  ASSUME KnownOK, NEW k \in Keys, \A j \in Keys \ {k} : slab'[j] = slab[j],
         UNCHANGED <<known, devidmap, choice>>,
         slab'[k].stream \in {"init", "some"} => slab'[k].device = choice[slab'[k].of][2]
  PROVE  KnownOK'
BY DEF KnownOK

\* The head of the queue, when it is the call of a stream.
LEMMA HeadCall ==
  ASSUME LifeInv, spc = "idle", rpcq # <<>>,
         Head(rpcq).op \in {"create", "init", "destroy"} \cup StreamOps \/
           Head(rpcq).from \notin {"ctx", "loop"}
  PROVE  /\ Head(rpcq).from \in Streams
         /\ Pends(Head(rpcq).from, Head(rpcq))
         /\ StreamInv(Head(rpcq).from)
         /\ Phase(Head(rpcq).from)
         /\ Head(rpcq) \in Requests
<1> USE DEF LifeInv
<1>1. Head(rpcq).from \in Streams /\ Pends(Head(rpcq).from, Head(rpcq)) /\ Head(rpcq) \in Requests
  BY HeadFacts DEF StreamOps, ContextOps
<1>2. Serving
  BY DEF Serving
<1> QED BY <1>1, <1>2 DEF StreamsOK, StreamInv

\* What is processed is answered at once.
LEMMA Answered ==
  ASSUME TypeOK, RequestOK, rpcq # <<>>, NEW a \in Keys \cup {"ok", "err"},
         Reply(Head(rpcq).from, a), rpcq' = Tail(rpcq), spc = "idle",
         UNCHANGED <<clientVars, spc, cur>>
  PROVE  /\ RequestOK'
         /\ rpcq' \in Seq(Requests)
         /\ ans' \in [Callers -> Keys \cup {None, "ok", "err"}]
         /\ Head(rpcq).from \in Callers => ans'[Head(rpcq).from] = a
         /\ \A t \in Streams \ {Head(rpcq).from} : ans'[t] = ans[t]
<1>1. ans \in [Callers -> Keys \cup {None, "ok", "err"}]
  BY SameTypes
<1>2. PICK h : h = Head(rpcq).from
  OBVIOUS
<1>3. ans' = [ans EXCEPT ![h] = a]
  BY <1>2 DEF Reply
<1>4. /\ ans' \in [Callers -> Keys \cup {None, "ok", "err"}]
      /\ h \in Callers => ans'[h] = a
      /\ \A t \in Streams \ {h} : ans'[t] = ans[t]
  BY <1>1, <1>3 DEF Callers
<1>5. OthersAsk(Head(rpcq).from)
  BY <1>2, <1>4 DEF OthersAsk, AsksSame, clientVars
<1>6. RequestOK'
  BY <1>5, RequestAnswered DEF Busy
<1>7. rpcq' \in Seq(Requests)
  BY HeadFacts
<1> QED BY <1>2, <1>4, <1>6, <1>7

\* Nothing about the streams but one's answer changes.
OnlyAnswers ==
  UNCHANGED <<clientVars, loopVars, cbq, cbreply, pipe, serverVars, lifeVars>>

LEMMA ProcessStreamCreateStep ==
  ASSUME LifeInv, ProcessStreamCreate
  PROVE  LifeInv'
<1> USE DEF LifeInv
<1>1. PICK s : s = Head(rpcq).from
  OBVIOUS
<1>2. /\ Up /\ spc = "idle" /\ rpcq # <<>> /\ Head(rpcq).op = "create" /\ ready
      /\ rpcq' = Tail(rpcq)
      /\ UNCHANGED <<clientVars, loopVars, cbq, cbreply, spc, cur, apc, dpc, lifeVars>>
  BY DEF ProcessStreamCreate, Next1
<1>3. PICK k \in Keys : /\ slab[k] = Vacant
                        /\ slab' = [slab EXCEPT ![k] = Created0(s)]
                        /\ sconn' = [sconn EXCEPT ![s] = "open"]
                        /\ pipe' = [pipe EXCEPT ![s] = "server"]
                        /\ Reply(s, k)
  BY <1>1 DEF ProcessStreamCreate, VacantKey
<1>4. /\ s \in Streams /\ s # None /\ StreamInv(s) /\ upc[s] = "create" /\ ans[s] = None
  BY <1>1, <1>2, HeadCall, StreamAssumption DEF Pends, Asks
<1>5. Holds(s) = {} /\ pipe[s] = "none"
  BY <1>4 DEF StreamInv, Uncreated
<1>6. /\ RequestOK' /\ rpcq' \in Seq(Requests)
      /\ ans' \in [Callers -> Keys \cup {None, "ok", "err"}]
      /\ ans'[s] = k
      /\ \A t \in Streams \ {s} : ans'[t] = ans[t]
  BY <1>1, <1>2, <1>3, <1>4, Answered DEF Callers
<1>7. /\ Created0(s) \in ServerStreams /\ Created0(s) # Vacant
      /\ Created0(s).of = s /\ Created0(s).stream = "none"
      /\ ~Created0(s).connected /\ ~Created0(s).notify
  BY <1>4 DEF Created0, ServerStreams, Vacant
<1>8. /\ slab' \in [Keys -> ServerStreams]
      /\ slab'[k] = Created0(s) /\ \A j \in Keys \ {k} : slab'[j] = slab[j]
      /\ sconn' \in [Streams -> {"none", "open", "closed"}]
      /\ pipe' \in [Streams -> {"none", "server", "client", "closed"}]
      /\ pipe'[s] = "server" /\ \A t \in Streams \ {s} : pipe'[t] = pipe[t]
  BY <1>3, <1>4, <1>7, ServerFacts
<1>9. TypeOK'
  BY <1>2, <1>6, <1>8, ServerFacts, ServerTypes
<1>10. \A j \in Keys : slab[j].of # s
  BY <1>5 DEF Holds
<1>11. Holds(s)' = {k}
  BY <1>7, <1>8, <1>10 DEF Holds
<1>12. \A t \in Streams \ {s} : SlabSame(t)
  BY <1>3, <1>7, <1>8, StreamAssumption, NoRequestType DEF SlabSame
<1>13. SlabOK'
  <2>1. Vacant' = Vacant /\ ready' /\ ~Busy'
    BY <1>2 DEF Vacant, Created0, lifeVars, Busy
  <2>2. /\ \A i, j \in Keys : slab'[i].of = slab'[j].of /\ slab'[i].of # None => i = j
        /\ \A j \in Keys : (slab'[j].of = None) <=> (slab'[j] = Vacant)
    BY <1>4, <1>7, <1>8, <1>10 DEF SlabOK
  <2>3. \A j \in Keys : slab'[j].connected =>
          slab'[j].stream \in {"some", "dropping"} /\ pipe'[slab'[j].of] \in {"client", "closed"}
    <3> SUFFICES ASSUME NEW j \in Keys, slab'[j].connected
                 PROVE  slab'[j].stream \in {"some", "dropping"} /\
                        pipe'[slab'[j].of] \in {"client", "closed"}
      OBVIOUS
    <3>1. j # k /\ slab'[j] = slab[j]
      BY <1>7, <1>8
    <3>2. slab[j].stream \in {"some", "dropping"} /\ pipe[slab[j].of] \in {"client", "closed"}
      BY <3>1 DEF SlabOK
    <3>3. slab[j].of \in Streams \ {s}
      BY <1>10, <3>2, ServerFacts, NoRequestType DEF SlabOK, ServerStreams
    <3> QED BY <1>8, <3>1, <3>2, <3>3
  <2> QED BY <2>1, <2>2, <2>3 DEF SlabOK
<1>14. KnownOK'
  BY <1>2, <1>7, <1>8, KnownSame DEF lifeVars, ctxVars
<1>15. upc'[s] = "create" /\ Current(s)' = Current(s)
  BY <1>2, <1>4 DEF clientVars, Current, Busy
<1>16. Uncreated(s)' /\ Phase(s)'
  BY <1>3, <1>6, <1>7, <1>8, <1>11, <1>15, StreamAssumption DEF Uncreated, Phase, Owns
<1>17. Calling(s)'
  BY <1>2, <1>4, <1>10 DEF StreamInv, Calling
<1>18. DeviceCalls(s)'
  <2>1. /\ DeviceAsked(s)' = DeviceAsked(s) /\ DeviceRuns(s)' = DeviceRuns(s)
        /\ DeviceAnswered(s)' = DeviceAnswered(s) /\ NoDevice(s)' = NoDevice(s)
        /\ UNCHANGED <<dead, dpc>>
    BY <1>2 DEF DeviceAsked, DeviceRuns, DeviceAnswered, NoDevice, loopVars, lifeVars
  <2>2. Cleared(s)' => Cleared(s)
    BY <1>2, <1>15 DEF Cleared, clientVars
  <2>3. \A j \in Holds(s)' : ~slab'[j].notify
    BY <1>7, <1>8, <1>11
  <2> QED BY <1>4, <2>1, <2>2, <2>3 DEF StreamInv, DeviceCalls
<1>19. Given(s)'
  BY <1>2, <1>4, <1>5 DEF StreamInv, Given, Runs, loopVars
<1>20. ServerMove(s)
  BY <1>2, <1>6, <1>8, <1>12
  DEF ServerMove, AnswersSame, Current, Busy, Serving
<1> QED BY <1>4, <1>6, <1>9, <1>13, <1>14, <1>16, <1>17, <1>18, <1>19, <1>20, ServerMoves

\* A refused request: none that a live ServerStream is asked.
LEMMA RefusedStep ==
  ASSUME LifeInv, ProcessStreamCreateFails \/ ContextFails
  PROVE  LifeInv'
<1> USE DEF LifeInv
<1>1. PICK s : s = Head(rpcq).from
  OBVIOUS
<1>2. /\ Up /\ spc = "idle" /\ rpcq # <<>> /\ Reply(s, "err")
      /\ rpcq' = Tail(rpcq)
      /\ Head(rpcq).op = "create" \/ ~ready
      /\ OnlyAnswers
  BY <1>1 DEF ProcessStreamCreateFails, ContextFails, Next1, Refuse, OnlyAnswers, serverVars
<1>3. /\ RequestOK' /\ rpcq' \in Seq(Requests)
      /\ ans' \in [Callers -> Keys \cup {None, "ok", "err"}]
      /\ s \in Callers => ans'[s] = "err"
      /\ \A t \in Streams \ {s} : ans'[t] = ans[t]
  BY <1>1, <1>2, Answered DEF OnlyAnswers, serverVars
<1>4. TypeOK'
  BY <1>2, <1>3, ServerFacts, ServerTypes DEF OnlyAnswers, serverVars
<1>5. SlabOK' /\ KnownOK' /\ LinkOK'
  BY <1>2 DEF OnlyAnswers, SlabOK, KnownOK, LinkOK, Serving, Busy, clientVars,
             serverVars, lifeVars, ctxVars
<1>6. \A t \in Streams : SlabSame(t) /\ RunsSame(t) /\ AnswersSame(t) /\ Current(t)' = Current(t)
  BY <1>2 DEF OnlyAnswers, SlabSame, RunsSame, AnswersSame, Current, Busy, loopVars, serverVars
<1>7. \A t \in Streams \ {s} : Untouched(t)
  BY <1>2, <1>3, <1>6
  DEF OnlyAnswers, Untouched, AsksSame, Serving, clientVars, loopVars, serverVars, lifeVars
<1>8. CASE s \in {"ctx", "loop"}
  BY <1>3, <1>4, <1>5, <1>7, <1>8, StreamAssumption, NoStream
<1>9. CASE s \notin {"ctx", "loop"}
  <2>1. s \in Streams /\ Pends(s, Head(rpcq)) /\ StreamInv(s) /\ Phase(s)
    BY <1>1, <1>2, <1>9, HeadCall
  <2>2. upc[s] = "create"
    <3>1. CASE Head(rpcq).op = "create"
      BY <2>1, <3>1 DEF Pends, Asks
    <3>2. CASE ~ready
      <4>1. \A k \in Keys : slab[k].of # s
        BY <2>1, <3>2, NoRequestType, StreamAssumption DEF SlabOK
      <4>2. Holds(s) = {}
        BY <4>1 DEF Holds
      <4> QED BY <2>1, <4>2 DEF Pends, Asks, Phase, Owns
    <3> QED BY <1>2, <3>1, <3>2
  <2>3. ans'[s] = "err" /\ upc'[s] = "create"
    BY <1>2, <1>3, <2>1, <2>2 DEF Callers, OnlyAnswers, clientVars
  <2>4. StreamInv(s)'
    <3>1. Uncreated(s)' /\ Phase(s)'
      BY <2>3, StreamAssumption DEF Uncreated, Phase
    <3>2. Calling(s)' /\ Server(s)' /\ Given(s)'
      BY <1>2, <2>1, <1>6, CallingSame, ServerSame, GivenSame
      DEF StreamInv, OnlyAnswers, clientVars, loopVars, serverVars
    <3>3. DeviceCalls(s)'
      <4>1. /\ DeviceAsked(s)' = DeviceAsked(s) /\ DeviceRuns(s)' = DeviceRuns(s)
            /\ DeviceAnswered(s)' = DeviceAnswered(s) /\ NoDevice(s)' = NoDevice(s)
            /\ Holds(s)' = Holds(s) /\ UNCHANGED <<dead, dpc, slab>>
        BY <1>2 DEF OnlyAnswers, DeviceAsked, DeviceRuns, DeviceAnswered, NoDevice, Holds,
                    loopVars, serverVars, lifeVars
      <4>2. Cleared(s)' => Cleared(s)
        BY <1>2, <2>3 DEF Cleared, OnlyAnswers, clientVars
      <4> QED BY <2>1, <4>1, <4>2 DEF StreamInv, DeviceCalls
    <3> QED BY <3>1, <3>2, <3>3 DEF StreamInv
  <2> QED BY <1>3, <1>4, <1>5, <1>7, <2>1, <2>4, OneStream
<1> QED BY <1>8, <1>9

LEMMA ProcessPlainStep ==
  ASSUME LifeInv, ProcessPlain
  PROVE  LifeInv'
<1> USE DEF LifeInv
<1>1. PICK c : c = Head(rpcq).from
  OBVIOUS
<1>2. /\ spc = "idle" /\ rpcq # <<>> /\ Reply(c, "ok") /\ rpcq' = Tail(rpcq)
      /\ Head(rpcq).op \in {"connect", "query", "disconnect", "promote"}
      /\ OnlyAnswers
  BY <1>1 DEF ProcessPlain, Next1, OnlyAnswers
<1>3. c \in {"ctx", "loop"}
  BY <1>1, <1>2, HeadCall DEF Pends, Asks
<1>4. /\ RequestOK' /\ rpcq' \in Seq(Requests)
      /\ ans' \in [Callers -> Keys \cup {None, "ok", "err"}]
      /\ \A t \in Streams \ {c} : ans'[t] = ans[t]
  BY <1>1, <1>2, Answered DEF OnlyAnswers, serverVars
<1>5. TypeOK'
  BY <1>2, <1>4, ServerFacts, ServerTypes DEF OnlyAnswers, serverVars
<1>6. ContextMove
  BY <1>2, <1>3, <1>4, StreamAssumption
  DEF OnlyAnswers, ContextMove, Current, Busy, Serving, loopVars, serverVars, lifeVars, ctxVars
<1>7. LinkOK'
  BY <1>2 DEF OnlyAnswers, LinkOK, Serving, clientVars, serverVars, lifeVars
<1> QED BY <1>2, <1>4, <1>5, <1>6, <1>7, ContextMoves
    DEF OnlyAnswers, serverVars, lifeVars, ctxVars, Busy

\* DevIdMap: what was in the map stays at its index, and the handle is that of
\* the device.
LEMMA HandleMade ==
  ASSUME NEW m \in Seq(Devices \cup {0}), NEW d \in Devices
  PROVE  LET r == MakeHandle(m, d) IN
         /\ r[1] \in Seq(Devices \cup {0}) /\ Len(m) <= Len(r[1])
         /\ \A i \in DOMAIN m : i \in DOMAIN r[1] /\ r[1][i] = m[i]
         /\ r[2] \in 0..Len(r[1])
         /\ r[2] + 1 \in DOMAIN r[1] /\ r[1][r[2] + 1] = d
<1> DEFINE devices == IF \E i \in DOMAIN m : m[i] = d THEN m ELSE Append(m, d)
           j == CHOOSE i \in DOMAIN devices : devices[i] = d
<1>1. MakeHandle(m, d) = <<devices, j - 1>>
  BY DEF MakeHandle
<1>2. /\ devices \in Seq(Devices \cup {0}) /\ Len(m) <= Len(devices)
      /\ \A i \in DOMAIN m : i \in DOMAIN devices /\ devices[i] = m[i]
      /\ \E i \in DOMAIN devices : devices[i] = d
  <2>1. CASE \E i \in DOMAIN m : m[i] = d
    <3>1. devices = m
      BY <2>1
    <3> QED BY <2>1, <3>1
  <2>2. CASE ~\E i \in DOMAIN m : m[i] = d
    <3>1. devices = Append(m, d)
      BY <2>2
    <3>2. /\ Append(m, d) \in Seq(Devices \cup {0}) /\ Len(m) <= Len(Append(m, d))
          /\ \A i \in DOMAIN m : i \in DOMAIN Append(m, d) /\ Append(m, d)[i] = m[i]
          /\ Len(m) + 1 \in DOMAIN Append(m, d) /\ Append(m, d)[Len(m) + 1] = d
      OBVIOUS
    <3> QED BY <3>1, <3>2
  <2> QED BY <2>1, <2>2
<1> HIDE DEF devices
<1>3. j \in DOMAIN devices /\ devices[j] = d
  BY <1>2
<1>4. DOMAIN devices = 1..Len(devices) /\ Len(devices) \in Nat
  BY <1>2
<1> HIDE DEF j
<1>5. (j - 1) + 1 = j /\ j - 1 \in 0..Len(devices)
  BY <1>3, <1>4
<1>6. MakeHandle(m, d)[1] = devices /\ MakeHandle(m, d)[2] = j - 1
  BY <1>1
<1> QED BY <1>2, <1>3, <1>5, <1>6

LEMMA ProcessEnumerateStep ==
  ASSUME LifeInv, ProcessEnumerate
  PROVE  LifeInv'
<1> USE DEF LifeInv
<1>1. /\ spc = "idle" /\ rpcq # <<>> /\ rpcq' = Tail(rpcq) /\ Head(rpcq).op = "enumerate"
      /\ UNCHANGED <<clientVars, loopVars, cbq, cbreply, pipe, serverVars, cpc, choice, lists,
                     link, ready, srv, dead>>
  BY DEF ProcessEnumerate, Next1
<1>2. Head(rpcq).from \in {"ctx", "loop"}
  BY <1>1, HeadCall DEF Pends, Asks
<1>3. ans \in [Callers -> Keys \cup {None, "ok", "err"}]
  BY SameTypes
<1>4. /\ ans' \in [Callers -> Keys \cup {None, "ok", "err"}]
      /\ \A t \in Streams : ans'[t] = ans[t]
  <2>1. PICK a \in {"ok", "err"} : ans' = [ans EXCEPT !["ctx"] = a]
    BY DEF ProcessEnumerate, Reply
  <2> QED BY <1>3, <2>1, StreamAssumption DEF Callers
<1>5. RequestOK' /\ rpcq' \in Seq(Requests)
  <2>1. OthersAsk(Head(rpcq).from)
    BY <1>1, <1>4 DEF OthersAsk, AsksSame, clientVars
  <2> QED BY <1>1, <2>1, HeadFacts, RequestAnswered DEF Busy, serverVars
<1>6. /\ devidmap' \in Seq(Devices \cup {0})
      /\ known \subseteq known'
      /\ known' \subseteq (0..Len(devidmap')) \X (Devices \cup {0})
      /\ \A p \in known' : p[1] + 1 \in DOMAIN devidmap' /\ devidmap'[p[1] + 1] = p[2]
  <2>1. /\ devidmap \in Seq(Devices \cup {0})
        /\ known \subseteq (0..Len(devidmap)) \X (Devices \cup {0})
    BY DEF TypeOK
  <2>2. CASE UNCHANGED <<devidmap, known>>
    BY <2>1, <2>2 DEF KnownOK
  <2>3. ASSUME NEW d \in Devices, devidmap' = MakeHandle(devidmap, d)[1],
               known' = known \cup {<<MakeHandle(devidmap, d)[2], d>>}
        PROVE  /\ devidmap' \in Seq(Devices \cup {0})
               /\ known \subseteq known'
               /\ known' \subseteq (0..Len(devidmap')) \X (Devices \cup {0})
               /\ \A p \in known' : p[1] + 1 \in DOMAIN devidmap' /\ devidmap'[p[1] + 1] = p[2]
    <3>1. PICK m, h : m = MakeHandle(devidmap, d)[1] /\ h = MakeHandle(devidmap, d)[2]
      OBVIOUS
    <3>2. /\ m \in Seq(Devices \cup {0}) /\ Len(devidmap) <= Len(m)
          /\ \A i \in DOMAIN devidmap : i \in DOMAIN m /\ m[i] = devidmap[i]
          /\ h \in 0..Len(m) /\ h + 1 \in DOMAIN m /\ m[h + 1] = d
      BY <2>1, <3>1, HandleMade
    <3>3. devidmap' = m /\ known' = known \cup {<<h, d>>}
      BY <2>3, <3>1
    <3>4. known' \subseteq (0..Len(m)) \X (Devices \cup {0})
      <4>1. Len(devidmap) \in Nat /\ Len(m) \in Nat
        BY <2>1, <3>2
      <4>2. 0..Len(devidmap) \subseteq 0..Len(m)
        BY <3>2, <4>1
      <4> QED BY <2>1, <3>2, <3>3, <4>2
    <3>5. \A p \in known' : p[1] + 1 \in DOMAIN m /\ m[p[1] + 1] = p[2]
      BY <3>2, <3>3 DEF KnownOK
    <3> QED BY <3>2, <3>3, <3>4, <3>5
  <2> QED BY <2>2, <2>3 DEF ProcessEnumerate
<1>7. TypeOK'
  BY <1>1, <1>4, <1>5, <1>6 DEF TypeOK, clientVars, loopVars, serverVars
<1>8. \A t \in Streams : Untouched(t)
  BY <1>1, <1>4
  DEF Untouched, SlabSame, RunsSame, AnswersSame, AsksSame, Current, Busy, Serving, clientVars,
      loopVars, serverVars
<1>9. LinkOK' /\ SlabOK'
  BY <1>1 DEF LinkOK, SlabOK, Serving, Busy, clientVars, serverVars
<1>10. KnownOK'
  BY <1>1, <1>6 DEF KnownOK, serverVars
<1> QED BY <1>5, <1>7, <1>8, <1>9, <1>10, NoStream


\* What the head's stream has at the server.
LEMMA HeadOwns ==
  ASSUME LifeInv, spc = "idle", rpcq # <<>>, Head(rpcq).op \in {"init", "destroy"} \cup StreamOps
  PROVE  /\ Head(rpcq).key \in Keys
         /\ slab[Head(rpcq).key].of = Head(rpcq).from
         /\ Contains(Head(rpcq).key)
         /\ slab[Head(rpcq).key].stream = IF Head(rpcq).op = "init" THEN "none" ELSE "some"
         /\ upc[Head(rpcq).from] = IF Head(rpcq).op = "init" THEN "init" ELSE
              IF Head(rpcq).op = "destroy" THEN "destroy" ELSE
              IF Head(rpcq).op = "unregister" THEN "unregister" ELSE "op"
         /\ token[Head(rpcq).from] = Head(rpcq).key
<1>1. PICK s, k, op : s = Head(rpcq).from /\ k = Head(rpcq).key /\ op = Head(rpcq).op
  OBVIOUS
<1>2. s \in Streams /\ s # None /\ Pends(s, Head(rpcq)) /\ Phase(s)
  BY <1>1, HeadCall, StreamAssumption
<1>3. op \in {"init", "destroy", "op", "register", "unregister"}
  BY <1>1 DEF StreamOps
<1>4. /\ token[s] = k /\ ans[s] = None
      /\ upc[s] = IF op = "init" THEN "init" ELSE
           IF op = "destroy" THEN "destroy" ELSE
           IF op = "unregister" THEN "unregister" ELSE "op"
  BY <1>1, <1>2, <1>3 DEF Pends, Asks
<1>5. ~Current(s)
  BY DEF Current, Busy
<1>6. Owns(s, k, IF op = "init" THEN "none" ELSE "some")
  BY <1>2, <1>3, <1>4, <1>5 DEF Phase
<1>7. k \in Keys /\ slab[k].of = s /\ slab[k].stream = IF op = "init" THEN "none" ELSE "some"
  BY <1>6 DEF Owns, Holds
<1>8. Contains(k)
  BY <1>2, <1>7, NoRequestType DEF Contains
<1> QED BY <1>1, <1>4, <1>7, <1>8

\* The request at the head, of s, whose ServerStream at k becomes v, is one whose
\* work goes on in a later step.
Works(label, s, k, v) ==
  /\ spc = "idle" /\ rpcq # <<>> /\ Head(rpcq).op \in {"init", "destroy"} \cup StreamOps
  /\ Enter(label)
  /\ s = Head(rpcq).from /\ k = Head(rpcq).key
  /\ v \in ServerStreams /\ slab' = [slab EXCEPT ![k] = v]
  /\ v.of = s /\ v.connected = slab[k].connected /\ v.notify = slab[k].notify
  /\ v.device = IF label = "init" THEN choice[s][2] ELSE slab[k].device
  /\ \/ label = "init" /\ Head(rpcq).op = "init" /\ v.stream = "init"
     \/ label = "op" /\ Head(rpcq).op \in StreamOps /\ v.stream = "some"
     \/ label = "drop" /\ Head(rpcq).op = "destroy" /\ v.stream = "dropping"
  /\ UNCHANGED <<clientVars, loopVars, ans, cbq, cbreply, pipe, sconn, apc, dpc, lifeVars>>

LEMMA Entered ==
  ASSUME LifeInv, NEW label, NEW s, NEW k, NEW v, Works(label, s, k, v)
  PROVE  LifeInv'
<1> USE DEF LifeInv, Works
<1>1. /\ s \in Streams /\ s # None /\ StreamInv(s) /\ Head(rpcq) \in Requests
      /\ Pends(s, Head(rpcq))
  BY HeadCall, StreamAssumption
<1>2. /\ k \in Keys /\ slab[k].of = s /\ token[s] = k
      /\ slab[k].stream = IF label = "init" THEN "none" ELSE "some"
      /\ label = "init" => upc[s] = "init"
      /\ label = "op" => upc[s] \in {"op", "unregister"}
      /\ label = "drop" => upc[s] = "destroy"
  BY HeadOwns DEF StreamOps
<1>3. cur' = Head(rpcq) /\ spc' = label /\ rpcq' = Tail(rpcq)
  BY DEF Enter
<1>4. \A t \in Streams : AsksSame(t)
  BY DEF AsksSame, clientVars
<1>5. RequestOK' /\ rpcq' \in Seq(Requests)
  BY <1>1, <1>3, <1>4, HeadFacts, RequestEntered DEF OthersAsk
<1>6. v.connected => v.stream \in {"some", "dropping"} /\ pipe'[s] \in {"client", "closed"}
  BY <1>2 DEF SlabOK
<1>7. Busy' => /\ cur'.key = k /\ cur'.from = s
               /\ spc' = "init" => v.stream = "init"
               /\ spc' \in {"op", "opwait"} => v.stream = "some"
               /\ spc' = "drop" => v.stream = "dropping"
  BY <1>3
<1>8. UNCHANGED ready /\ \A t \in Streams \ {s} : pipe'[t] = pipe[t]
  BY DEF lifeVars
<1>9. /\ SlabOK'
      /\ slab' \in [Keys -> ServerStreams]
      /\ slab'[k] = v /\ \A j \in Keys \ {k} : slab'[j] = slab[j]
      /\ \A t \in Streams : Holds(t)' = Holds(t)
      /\ \A t \in Streams \ {s} : SlabSame(t)
  BY <1>1, <1>2, <1>6, <1>7, <1>8, SlabChanged
<1>10. TypeOK'
  BY <1>1, <1>3, <1>5, <1>9, ServerFacts, ServerTypes
<1>11. KnownOK'
  <2>1. v.stream \in {"init", "some"} => v.device = choice[s][2]
    BY <1>2 DEF KnownOK
  <2> QED BY <1>2, <1>9, <2>1, KnownSame DEF lifeVars, ctxVars
<1>12. Uncreated(s)'
  BY <1>1, <1>2, <1>9 DEF StreamInv, Uncreated, clientVars
<1>13. Phase(s)'
  <2>1. Current(s)' /\ Serving /\ UNCHANGED <<upc, token, ans>> /\ ans[s] = None
    BY <1>1, <1>3 DEF Current, Busy, Serving, clientVars, Pends
  <2>2. Holds(s)' = {k}
    BY <1>1, <1>2, <1>9 DEF Holds, SlabOK
  <2> QED BY <1>2, <1>9, <2>1, <2>2, StreamAssumption DEF Phase, Owns
<1>14. Calling(s)'
  BY <1>1, <1>2, <1>9 DEF StreamInv, Calling
<1>15. DeviceCalls(s)'
  <2>1. /\ DeviceAsked(s)' = DeviceAsked(s) /\ DeviceRuns(s)' = DeviceRuns(s)
        /\ DeviceAnswered(s)' = DeviceAnswered(s) /\ NoDevice(s)' = NoDevice(s)
        /\ Cleared(s)' = Cleared(s) /\ UNCHANGED <<dead, dpc>>
    BY DEF DeviceAsked, DeviceRuns, DeviceAnswered, NoDevice, Cleared, clientVars, loopVars,
           lifeVars
  <2>2. \A j \in Holds(s) : slab'[j].notify = slab[j].notify
    BY <1>9 DEF Holds
  <2> QED BY <1>1, <1>9, <2>1, <2>2 DEF StreamInv, DeviceCalls
<1>16. Given(s)'
  BY <1>1 DEF StreamInv, Given, Runs, loopVars
<1>17. \A t \in Streams \ {s} : Current(t)' = Current(t)
  BY <1>1, <1>3 DEF Current, Busy
<1>18. ServerMove(s)
  <2>1. Serving /\ Serving' /\ spc # "gone"
    BY <1>3 DEF Serving
  <2>2. \A t \in Streams : AnswersSame(t)
    BY DEF AnswersSame
  <2> QED BY <1>9, <1>17, <2>1, <2>2 DEF ServerMove
<1> QED BY <1>1, <1>5, <1>9, <1>10, <1>11, <1>12, <1>13, <1>14, <1>15, <1>16, <1>18, ServerMoves

LEMMA ProcessStreamInitStep ==
  ASSUME LifeInv, ProcessStreamInit
  PROVE  LifeInv'
<1> USE DEF LifeInv
<1>1. PICK s, k : s = Head(rpcq).from /\ k = Head(rpcq).key
  OBVIOUS
<1>2. /\ spc = "idle" /\ rpcq # <<>> /\ Head(rpcq).op = "init"
      /\ UNCHANGED <<clientVars, loopVars, cbq, cbreply, pipe, sconn, apc, dpc, lifeVars>>
  BY DEF ProcessStreamInit, Next1
<1>3. /\ k \in Keys /\ slab[k].of = s /\ Contains(k) /\ slab[k].stream = "none" /\ s \in Streams
  BY <1>1, <1>2, HeadOwns, HeadCall
<1>4. PICK h : h = HandleToId(choice[s][1])
  OBVIOUS
<1>5. /\ slab' = [slab EXCEPT ![k].stream = "init", ![k].device = h]
      /\ Enter("init") /\ UNCHANGED ans
  BY <1>1, <1>3, <1>4 DEF ProcessStreamInit
<1>6. h = choice[s][2] /\ h \in Devices \cup {0}
  <2>1. choice[s] \in known /\ known \subseteq (0..Len(devidmap)) \X (Devices \cup {0})
    BY <1>3 DEF TypeOK
  <2> QED BY <1>4, <2>1 DEF KnownOK, HandleToId
<1>7. PICK v : v = [slab[k] EXCEPT !.stream = "init", !.device = h]
  OBVIOUS
<1>8. slab[k] \in ServerStreams
  BY <1>3, ServerFacts
<1>9. /\ v \in ServerStreams /\ v.of = s /\ v.stream = "init" /\ v.device = h
      /\ v.connected = slab[k].connected /\ v.notify = slab[k].notify
  BY <1>3, <1>6, <1>7, <1>8 DEF ServerStreams
<1>10. slab' = [slab EXCEPT ![k] = v]
  BY <1>3, <1>5, <1>7, ServerFacts
<1>11. Works("init", s, k, v)
  BY <1>1, <1>2, <1>5, <1>6, <1>9, <1>10 DEF Works
<1> QED BY <1>11, Entered

LEMMA ProcessStreamOpStep ==
  ASSUME LifeInv, ProcessStreamOp
  PROVE  LifeInv'
<1> USE DEF LifeInv
<1>1. PICK s, k, v : s = Head(rpcq).from /\ k = Head(rpcq).key /\ v = slab[k]
  OBVIOUS
<1>2. /\ spc = "idle" /\ rpcq # <<>> /\ Head(rpcq).op \in StreamOps
      /\ UNCHANGED <<clientVars, loopVars, cbq, cbreply, pipe, sconn, apc, dpc, lifeVars>>
  BY DEF ProcessStreamOp, Next1
<1>3. "init" \notin StreamOps
  BY DEF StreamOps
<1>4. /\ k \in Keys /\ slab[k].of = s /\ Contains(k) /\ slab[k].stream = "some"
  BY <1>1, <1>2, <1>3, HeadOwns
<1>5. UNCHANGED <<ans, slab>> /\ Enter("op")
  BY <1>1, <1>4 DEF ProcessStreamOp
<1>6. v \in ServerStreams /\ slab' = [slab EXCEPT ![k] = v]
  BY <1>1, <1>4, <1>5, ServerFacts
<1>7. Works("op", s, k, v)
  BY <1>1, <1>2, <1>4, <1>5, <1>6 DEF Works
<1> QED BY <1>7, Entered

LEMMA ProcessStreamDestroyStep ==
  ASSUME LifeInv, ProcessStreamDestroy
  PROVE  LifeInv'
<1> USE DEF LifeInv
<1>1. PICK s, k : s = Head(rpcq).from /\ k = Head(rpcq).key
  OBVIOUS
<1>2. /\ spc = "idle" /\ rpcq # <<>> /\ Head(rpcq).op = "destroy"
      /\ UNCHANGED <<clientVars, loopVars, cbq, cbreply, pipe, sconn, apc, dpc, lifeVars>>
  BY DEF ProcessStreamDestroy, Next1
<1>3. /\ k \in Keys /\ slab[k].of = s /\ Contains(k) /\ slab[k].stream = "some"
  BY <1>1, <1>2, HeadOwns
<1>4. /\ slab' = [slab EXCEPT ![k].stream = "dropping"]
      /\ Enter("drop") /\ UNCHANGED ans
  BY <1>1, <1>3 DEF ProcessStreamDestroy
<1>5. PICK v : v = [slab[k] EXCEPT !.stream = "dropping"]
  OBVIOUS
<1>6. slab[k] \in ServerStreams
  BY <1>3, ServerFacts
<1>7. /\ v \in ServerStreams /\ v.of = s /\ v.stream = "dropping" /\ v.device = slab[k].device
      /\ v.connected = slab[k].connected /\ v.notify = slab[k].notify
  BY <1>3, <1>5, <1>6 DEF ServerStreams
<1>8. slab' = [slab EXCEPT ![k] = v]
  BY <1>3, <1>4, <1>5, ServerFacts
<1>9. Works("drop", s, k, v)
  BY <1>1, <1>2, <1>4, <1>7, <1>8 DEF Works
<1> QED BY <1>9, Entered

\* The request being processed, its stream and its ServerStream.
LEMMA CurrentFacts ==
  ASSUME LifeInv, Busy, NEW s, s = cur.from, NEW k, k = cur.key
  PROVE  /\ s \in Streams /\ s # None /\ k \in Keys /\ slab[k].of = s /\ token[s] = k
         /\ ans[s] = None /\ StreamInv(s) /\ Holds(s) = {k}
         /\ spc = "init" => upc[s] = "init" /\ slab[k].stream = "init"
         /\ spc \in {"op", "opwait"} => slab[k].stream = "some"
         /\ spc \in {"op", "opwait"} /\ cur.op = "op" => upc[s] = "op"
         /\ spc = "op" /\ cur.op = "register" => upc[s] = "op" /\ devcb[s] = "set"
         /\ spc = "op" /\ cur.op = "unregister" => upc[s] = "unregister"
         /\ spc = "op" => cur.op \in StreamOps
         /\ spc = "opwait" => cur.op = "op"
         /\ spc = "drop" => upc[s] = "destroy" /\ slab[k].stream = "dropping"
<1> USE DEF LifeInv
<1>1. /\ s \in Streams /\ s # None /\ Pends(s, cur) /\ slab[k].of = s /\ StreamInv(s)
      /\ spc = "init" => cur.op = "init" /\ slab[k].stream = "init"
      /\ spc = "op" => cur.op \in StreamOps /\ slab[k].stream = "some"
      /\ spc = "opwait" => cur.op = "op" /\ slab[k].stream = "some"
      /\ spc = "drop" => cur.op = "destroy" /\ slab[k].stream = "dropping"
  BY StreamAssumption DEF RequestOK, SlabOK, StreamsOK
<1>2. /\ token[s] = k /\ ans[s] = None
      /\ spc = "init" => upc[s] = "init"
      /\ spc \in {"op", "opwait"} /\ cur.op = "op" => upc[s] = "op"
      /\ spc = "op" /\ cur.op = "register" => upc[s] = "op" /\ devcb[s] = "set"
      /\ spc = "op" /\ cur.op = "unregister" => upc[s] = "unregister"
      /\ spc = "drop" => upc[s] = "destroy"
      /\ upc[s] \in {"init", "op", "unregister", "destroy"}
  BY <1>1 DEF Pends, Asks, StreamOps, Busy
<1>3. Phase(s)
  BY <1>1 DEF StreamInv, Serving, Busy
<1>4. Holds(s) = {k}
  BY <1>2, <1>3 DEF Phase, Owns
<1>5. k \in Keys
  BY <1>4 DEF Holds
<1> QED BY <1>1, <1>2, <1>4, <1>5

\* The request is answered, with a.
Over(s, a) ==
  /\ Busy /\ s = cur.from /\ a \in {"ok", "err"}
  /\ Reply(s, a) /\ Idle
  /\ UNCHANGED <<clientVars, loopVars, rpcq, cbq, apc, dpc, lifeVars>>
  /\ cbreply' \subseteq cbreply /\ \A t \in Streams : AnswersSame(t)

LEMMA OverFacts ==
  ASSUME LifeInv, NEW s, NEW a, Over(s, a)
  PROVE  /\ RequestOK' /\ cur' \in Requests /\ spc' = "idle" /\ ~Busy'
         /\ ans' \in [Callers -> Keys \cup {None, "ok", "err"}]
         /\ ans'[s] = a /\ a # None
         /\ Serving /\ Serving' /\ spc # "gone" /\ ~Current(s)'
         /\ \A t \in Streams \ {s} : ans'[t] = ans[t] /\ Current(t)' = Current(t)
<1> USE DEF LifeInv
<1>1. s \in Streams
  BY CurrentFacts DEF Over
<1>2. cur' = NoRequest /\ spc' = "idle" /\ ~Busy'
  BY DEF Over, Idle, Busy
<1>3. ans' = [ans EXCEPT ![s] = a] /\ a \in {"ok", "err"} /\ a # None
  BY StreamAssumption DEF Over, Reply
<1>4. /\ ans' \in [Callers -> Keys \cup {None, "ok", "err"}]
      /\ ans'[s] = a /\ \A t \in Streams \ {s} : ans'[t] = ans[t]
  BY <1>1, <1>3, SameTypes DEF Callers
<1>5. OthersAsk(cur.from)
  BY <1>4 DEF OthersAsk, AsksSame, Over, clientVars
<1>6. RequestOK'
  BY <1>5, RequestOver DEF Over
<1>7. /\ Serving /\ Serving' /\ spc # "gone" /\ ~Current(s)'
      /\ \A t \in Streams \ {s} : Current(t)' = Current(t)
  BY <1>2 DEF Over, Busy, Serving, Current
<1> QED BY <1>2, <1>3, <1>4, <1>6, <1>7, NoRequestType

\* Over, and the ServerStream is one in use.
Kept(s, a, k, v) ==
  /\ Over(s, a) /\ k = cur.key /\ spc \in {"init", "op", "opwait"}
  /\ v \in ServerStreams /\ slab' = [slab EXCEPT ![k] = v] /\ UNCHANGED sconn
  /\ v.of = s /\ v.stream = "some" /\ v.device = slab[k].device
  /\ slab[k].connected => v.connected
  /\ v.connected => pipe'[s] \in {"client", "closed"}
  /\ pipe' \in [Streams -> {"none", "server", "client", "closed"}]
  /\ \A t \in Streams \ {s} : pipe'[t] = pipe[t]
  /\ pipe'[s] = pipe[s] \/ pipe'[s] \in {"client", "closed"}
  /\ spc = "init" => a = "ok"
  /\ spc # "init" /\ cur.op = "unregister" /\ a = "ok" => ~v.notify /\ NoDevice(s)
  /\ v.notify => slab[k].notify \/ devcb[s] = "set"

LEMMA KeptStep ==
  ASSUME LifeInv, NEW s, NEW a, NEW k, NEW v, Kept(s, a, k, v)
  PROVE  LifeInv'
<1> USE DEF LifeInv
<1>1. Over(s, a) /\ Busy /\ s = cur.from /\ k = cur.key
  BY DEF Kept, Over
<1>2. /\ s \in Streams /\ s # None /\ k \in Keys /\ slab[k].of = s /\ token[s] = k
      /\ ans[s] = None /\ StreamInv(s) /\ Holds(s) = {k}
      /\ spc = "init" => upc[s] = "init" /\ slab[k].stream = "init"
      /\ spc \in {"op", "opwait"} => slab[k].stream = "some"
      /\ spc # "init" => upc[s] \in {"op", "unregister"}
      /\ spc # "init" /\ upc[s] = "unregister" => cur.op = "unregister"
    BY <1>1, CurrentFacts DEF StreamOps, Kept
<1>3. /\ RequestOK' /\ cur' \in Requests /\ spc' = "idle" /\ ~Busy'
      /\ ans' \in [Callers -> Keys \cup {None, "ok", "err"}]
      /\ ans'[s] = a /\ a # None
      /\ Serving /\ Serving' /\ spc # "gone" /\ ~Current(s)'
      /\ \A t \in Streams \ {s} : ans'[t] = ans[t] /\ Current(t)' = Current(t)
  BY <1>1, OverFacts
<1>4. /\ UNCHANGED <<clientVars, loopVars, rpcq, cbq, apc, dpc, lifeVars>>
      /\ cbreply' \subseteq cbreply /\ \A t \in Streams : AnswersSame(t)
  BY <1>1 DEF Over
<1>5. /\ v \in ServerStreams /\ v.of = s /\ slab' = [slab EXCEPT ![k] = v] /\ UNCHANGED ready
      /\ v.connected => v.stream \in {"some", "dropping"} /\ pipe'[s] \in {"client", "closed"}
      /\ \A t \in Streams \ {s} : pipe'[t] = pipe[t]
  BY <1>4 DEF Kept, lifeVars
<1>6. /\ SlabOK'
      /\ slab' \in [Keys -> ServerStreams]
      /\ slab'[k] = v /\ \A j \in Keys \ {k} : slab'[j] = slab[j]
      /\ \A t \in Streams : Holds(t)' = Holds(t)
      /\ \A t \in Streams \ {s} : SlabSame(t)
  BY <1>2, <1>3, <1>5, SlabChanged
<1>7. TypeOK'
  <2>1. /\ pipe' \in [Streams -> {"none", "server", "client", "closed"}]
        /\ UNCHANGED <<rpcq, cbq, apc, dpc, sconn>> /\ cbreply' \subseteq Calls
    BY <1>4, ServerFacts DEF Kept
  <2> QED BY <1>3, <1>4, <1>6, <2>1, ServerFacts, ServerTypes
<1>8. KnownOK'
  <2>1. v.device = choice[s][2]
    BY <1>2 DEF KnownOK, Kept
  <2> QED BY <1>2, <1>4, <1>5, <1>6, <2>1, KnownSame DEF lifeVars, ctxVars
<1>9. UNCHANGED <<upc, token, devcb, dead>>
  BY <1>4 DEF clientVars, lifeVars
<1>10. Uncreated(s)' /\ Phase(s)'
  <2>1. upc[s] \in {"init", "op", "unregister"} /\ (upc[s] = "init" => a = "ok")
    BY <1>2 DEF Kept
  <2>2. Holds(s)' = {k} /\ slab'[k].stream = "some" /\ token'[s] = k
    BY <1>2, <1>6, <1>9 DEF Kept
  <2> QED BY <1>3, <1>9, <2>1, <2>2 DEF Uncreated, Phase, Owns
<1>11. Calling(s)'
  BY <1>2, <1>4, <1>5, <1>6 DEF StreamInv, Calling, Holds, Kept
<1>12. DeviceCalls(s)'
  <2>1. /\ DeviceAsked(s)' = DeviceAsked(s) /\ DeviceRuns(s)' = DeviceRuns(s)
        /\ DeviceAnswered(s)' = DeviceAnswered(s) /\ NoDevice(s)' = NoDevice(s)
        /\ UNCHANGED <<dead, dpc>>
    BY <1>2, <1>4 DEF DeviceAsked, DeviceRuns, DeviceAnswered, NoDevice, AnswersSame, loopVars,
                      lifeVars
  <2>2. Cleared(s)' => NoDevice(s) /\ ~v.notify
    <3>1. CASE devcb[s] = "off"
      BY <1>2, <3>1 DEF StreamInv, DeviceCalls, Cleared, Kept
    <3>2. CASE upc[s] = "unregister" /\ a = "ok"
      BY <1>2, <3>2 DEF Kept
    <3> QED BY <1>3, <1>9, <3>1, <3>2 DEF Cleared
  <2> QED BY <1>2, <1>6, <2>1, <2>2 DEF StreamInv, DeviceCalls
<1>13. Given(s)'
  BY <1>2, <1>4 DEF StreamInv, Given, Runs, Kept, loopVars
<1>14. ServerMove(s)
  <2>1. \A t \in Streams \ {s} : pipe'[t] = pipe[t]
    BY <1>5
  <2> QED BY <1>3, <1>4, <1>6, <2>1 DEF ServerMove
<1> QED BY <1>2, <1>3, <1>6, <1>7, <1>8, <1>10, <1>11, <1>12, <1>13, <1>14, ServerMoves

\* Over, and the ServerStream is removed.
LEMMA RemovedStep ==
  ASSUME LifeInv, NEW s, NEW a, NEW k, Over(s, a), k = cur.key, Remove(k),
         \/ spc = "init" /\ a = "err"
         \/ spc = "drop" /\ StreamStopped(k)
  PROVE  LifeInv'
<1> USE DEF LifeInv
<1>1. Busy /\ s = cur.from
  BY DEF Over
<1>2. /\ s \in Streams /\ s # None /\ k \in Keys /\ slab[k].of = s
      /\ StreamInv(s) /\ Holds(s) = {k}
      /\ spc = "init" => upc[s] = "init" /\ slab[k].stream = "init"
      /\ spc = "drop" => upc[s] = "destroy"
    BY <1>1, CurrentFacts
<1>3. /\ RequestOK' /\ cur' \in Requests /\ spc' = "idle" /\ ~Busy'
      /\ ans' \in [Callers -> Keys \cup {None, "ok", "err"}]
      /\ ans'[s] = a /\ a # None
      /\ Serving /\ Serving' /\ spc # "gone" /\ ~Current(s)'
      /\ \A t \in Streams \ {s} : ans'[t] = ans[t] /\ Current(t)' = Current(t)
  BY OverFacts
<1>4. /\ UNCHANGED <<clientVars, loopVars, rpcq, cbq, apc, dpc, lifeVars>>
      /\ cbreply' \subseteq cbreply /\ \A t \in Streams : AnswersSame(t)
  BY DEF Over
<1>5. UNCHANGED ready
  BY <1>4 DEF lifeVars
<1>6. /\ SlabOK'
      /\ slab' \in [Keys -> ServerStreams]
      /\ slab'[k] = Vacant /\ \A j \in Keys \ {k} : slab'[j] = slab[j]
      /\ Holds(s)' = {}
      /\ \A t \in Streams \ {s} : SlabSame(t)
      /\ sconn' \in [Streams -> {"none", "open", "closed"}]
      /\ pipe' \in [Streams -> {"none", "server", "client", "closed"}]
      /\ \A t \in Streams \ {s} : pipe'[t] = pipe[t]
      /\ pipe'[s] = IF pipe[s] = "server" THEN "closed" ELSE pipe[s]
  BY <1>2, <1>3, <1>5, SlabRemoved
<1>7. TypeOK'
  <2>1. UNCHANGED <<rpcq, cbq, apc, dpc>> /\ cbreply' \subseteq Calls
    BY <1>4, ServerFacts
  <2> QED BY <1>3, <1>4, <1>6, <2>1, ServerFacts, ServerTypes
<1>8. KnownOK'
  BY <1>2, <1>4, <1>6, KnownSame, NoRequestType DEF lifeVars, ctxVars
<1>9. UNCHANGED <<upc, token, devcb, dead>>
  BY <1>4 DEF clientVars, lifeVars
<1>10. Uncreated(s)' /\ Phase(s)'
  BY <1>2, <1>3, <1>6, <1>9 DEF Uncreated, Phase
<1>11. apc[s] = "idle" /\ dpc[s] = "idle"
  <2>1. CASE spc = "init"
    <3>1. \A j \in Keys : slab[j].of = s => ~slab[j].connected
      BY <1>2, <2>1 DEF SlabOK, Holds
    <3>2. ~("wait" \in {apc[s], dpc[s]})
      BY <1>2, <3>1 DEF StreamInv, Calling
    <3> QED BY <1>2, <3>2, ServerFacts
  <2>2. CASE spc = "drop"
    BY <1>2, <2>2 DEF StreamStopped
  <2> QED BY <2>1, <2>2
<1>12. Calling(s)'
  BY <1>4, <1>11 DEF Calling
<1>13. DeviceCalls(s)'
  <2>1. /\ DeviceAsked(s)' = DeviceAsked(s) /\ DeviceRuns(s)' = DeviceRuns(s)
        /\ DeviceAnswered(s)' = DeviceAnswered(s) /\ NoDevice(s)' = NoDevice(s)
        /\ UNCHANGED <<dead, dpc>>
    BY <1>2, <1>4 DEF DeviceAsked, DeviceRuns, DeviceAnswered, NoDevice, AnswersSame, loopVars,
                      lifeVars
  <2>2. Cleared(s)' => Cleared(s)
    BY <1>2, <1>9 DEF Cleared
  <2> QED BY <1>2, <1>6, <2>1, <2>2 DEF StreamInv, DeviceCalls
<1>14. Given(s)'
  BY <1>2, <1>4, <1>6 DEF StreamInv, Given, Runs, loopVars
<1>15. ServerMove(s)
  BY <1>3, <1>4, <1>6 DEF ServerMove
<1> QED BY <1>2, <1>3, <1>6, <1>7, <1>8, <1>10, <1>12, <1>13, <1>14, <1>15, ServerMoves

LEMMA StreamInitOkStep ==
  ASSUME LifeInv, StreamInitOk
  PROVE  LifeInv'
<1> USE DEF LifeInv
<1>1. PICK s, k : s = cur.from /\ k = cur.key
  OBVIOUS
<1>2. Busy /\ spc = "init"
  BY DEF StreamInitOk, Busy
<1>3. s \in Streams /\ k \in Keys /\ slab[k].of = s /\ slab[k].stream = "init"
  BY <1>1, <1>2, CurrentFacts
<1>4. /\ slab' = [slab EXCEPT ![k].stream = "some", ![k].connected = TRUE]
      /\ pipe' = [pipe EXCEPT ![s] = IF "client" \in dead THEN "closed" ELSE "client"]
      /\ Reply(s, "ok") /\ Idle
      /\ UNCHANGED <<clientVars, loopVars, rpcq, cbq, cbreply, sconn, apc, dpc, lifeVars>>
  BY <1>1 DEF StreamInitOk
<1>5. PICK v : v = [slab[k] EXCEPT !.stream = "some", !.connected = TRUE]
  OBVIOUS
<1>6. slab[k] \in ServerStreams /\ slab \in [Keys -> ServerStreams]
  BY <1>3, ServerFacts
<1>7. /\ v \in ServerStreams /\ v.of = s /\ v.stream = "some" /\ v.device = slab[k].device
      /\ v.connected /\ v.notify = slab[k].notify
  BY <1>3, <1>5, <1>6 DEF ServerStreams
<1>8. slab' = [slab EXCEPT ![k] = v]
  BY <1>3, <1>4, <1>5, <1>6
<1>9. /\ pipe' \in [Streams -> {"none", "server", "client", "closed"}]
      /\ pipe'[s] \in {"client", "closed"}
      /\ \A t \in Streams \ {s} : pipe'[t] = pipe[t]
  BY <1>3, <1>4, ServerFacts
<1>10. Over(s, "ok")
  BY <1>1, <1>2, <1>4 DEF Over, AnswersSame
<1>11. Kept(s, "ok", k, v)
  BY <1>1, <1>2, <1>4, <1>7, <1>8, <1>9, <1>10 DEF Kept
<1> QED BY <1>11, KeptStep

LEMMA StreamOpDoneStep ==
  ASSUME LifeInv, StreamOpDone \/ StateCallbackReturn
  PROVE  LifeInv'
<1> USE DEF LifeInv
<1>1. PICK s, k, v : s = cur.from /\ k = cur.key /\ v = slab[k]
  OBVIOUS
<1>2. Busy /\ spc \in {"op", "opwait"} /\ cur.op = "op"
  <2>1. CASE StreamOpDone
    BY <2>1 DEF StreamOpDone, Busy
  <2>2. CASE StateCallbackReturn
    BY <2>2 DEF StateCallbackReturn, Busy, RequestOK
  <2> QED BY <2>1, <2>2
<1>3. s \in Streams /\ k \in Keys /\ v.of = s /\ v.stream = "some"
  BY <1>1, <1>2, CurrentFacts
<1>4. PICK a \in {"ok", "err"} : Reply(s, a)
  BY <1>1 DEF StreamOpDone, StateCallbackReturn
<1>5. /\ UNCHANGED <<clientVars, loopVars, rpcq, cbq, pipe, slab, sconn, apc, dpc, lifeVars>>
      /\ Idle /\ (cbreply' = cbreply \/ cbreply' = cbreply \ {<<s, "state">>})
  BY <1>1 DEF StreamOpDone, StateCallbackReturn
<1>6. \A t \in Streams : AnswersSame(t)
  BY <1>5 DEF AnswersSame
<1>7. Over(s, a)
  BY <1>1, <1>2, <1>4, <1>5, <1>6 DEF Over
<1>8. /\ v \in ServerStreams /\ slab' = [slab EXCEPT ![k] = v]
      /\ v.connected => pipe'[s] \in {"client", "closed"}
      /\ pipe' \in [Streams -> {"none", "server", "client", "closed"}]
  BY <1>1, <1>3, <1>5, ServerFacts DEF SlabOK
<1>9. Kept(s, a, k, v)
  BY <1>1, <1>2, <1>3, <1>5, <1>7, <1>8 DEF Kept
<1> QED BY <1>9, KeptStep

LEMMA DeviceChangedSetStep ==
  ASSUME LifeInv, DeviceChangedSet
  PROVE  LifeInv'
<1> USE DEF LifeInv
<1>1. PICK s, k : s = cur.from /\ k = cur.key
  OBVIOUS
<1>2. Busy /\ spc = "op" /\ cur.op # "op" /\ dpc[s] = "idle" /\ Up
  BY <1>1 DEF DeviceChangedSet, Busy, CallbackUnlocked
<1>3. /\ s \in Streams /\ k \in Keys /\ slab[k].of = s /\ slab[k].stream = "some" /\ StreamInv(s)
      /\ cur.op = "register" => devcb[s] = "set"
  BY <1>1, <1>2, CurrentFacts
<1>4. /\ UNCHANGED <<clientVars, loopVars, rpcq, cbq, cbreply, pipe, sconn, apc, dpc, lifeVars>>
      /\ Idle
  BY DEF DeviceChangedSet
<1>5. PICK a \in {"ok", "err"} :
        /\ Reply(s, a)
        /\ IF a = "ok" THEN slab' = [slab EXCEPT ![k].notify = (cur.op = "register")]
                       ELSE slab' = slab
  BY <1>1 DEF DeviceChangedSet
<1>6. PICK v : v = IF a = "ok" THEN [slab[k] EXCEPT !.notify = (cur.op = "register")]
                               ELSE slab[k]
  OBVIOUS
<1>7. slab[k] \in ServerStreams /\ slab \in [Keys -> ServerStreams]
  BY <1>3, ServerFacts
<1>8. /\ v \in ServerStreams /\ v.of = s /\ v.stream = "some" /\ v.device = slab[k].device
      /\ v.connected = slab[k].connected
      /\ a = "ok" => (v.notify <=> cur.op = "register")
      /\ a = "err" => v.notify = slab[k].notify
      /\ slab' = [slab EXCEPT ![k] = v]
  <2>1. CASE a = "ok"
    <3>1. v = [slab[k] EXCEPT !.notify = (cur.op = "register")]
      BY <1>6, <2>1
    <3>2. (cur.op = "register") \in BOOLEAN
      OBVIOUS
    <3>3. /\ v \in ServerStreams /\ v.of = s /\ v.stream = "some" /\ v.device = slab[k].device
          /\ v.connected = slab[k].connected /\ (v.notify <=> cur.op = "register")
      BY <1>3, <1>7, <3>1, <3>2 DEF ServerStreams
    <3>4. slab' = [slab EXCEPT ![k] = v]
      BY <1>3, <1>5, <1>7, <2>1, <3>1
    <3> QED BY <2>1, <3>3, <3>4
  <2>2. CASE a = "err"
    BY <1>3, <1>5, <1>6, <1>7, <2>2
  <2> QED BY <1>5, <2>1, <2>2
<1>9. Over(s, a)
  BY <1>1, <1>2, <1>4, <1>5 DEF Over, AnswersSame
<1>10. NoDevice(s)
  BY <1>2, <1>3 DEF StreamInv, DeviceCalls, Up
<1>11. v.connected => pipe'[s] \in {"client", "closed"}
  BY <1>3, <1>4, <1>8 DEF SlabOK
<1>12. /\ cur.op = "unregister" /\ a = "ok" => ~v.notify /\ NoDevice(s)
       /\ v.notify => slab[k].notify \/ devcb[s] = "set"
  <2>1. cur.op = "unregister" => cur.op # "register"
    OBVIOUS
  <2> QED BY <1>3, <1>5, <1>8, <1>10, <2>1
<1>13. Kept(s, a, k, v)
  BY <1>1, <1>2, <1>4, <1>8, <1>9, <1>11, <1>12, ServerFacts DEF Kept
<1> QED BY <1>13, KeptStep

LEMMA StreamRemovedStep ==
  ASSUME LifeInv, StreamInitFails \/ StreamDestroyDone
  PROVE  LifeInv'
<1> USE DEF LifeInv
<1>1. PICK s, k : s = cur.from /\ k = cur.key
  OBVIOUS
<1>2. PICK a \in {"ok", "err"} :
        /\ \/ spc = "init" /\ a = "err"
           \/ spc = "drop" /\ StreamStopped(k)
        /\ Reply(s, a)
  BY <1>1 DEF StreamInitFails, StreamDestroyDone
<1>3. Remove(k)
  BY <1>1 DEF StreamInitFails, StreamDestroyDone, Remove
<1>4. /\ UNCHANGED <<clientVars, loopVars, rpcq, cbq, cbreply, apc, dpc, lifeVars>>
      /\ Idle
  BY DEF StreamInitFails, StreamDestroyDone
<1>5. Over(s, a)
  BY <1>1, <1>2, <1>4 DEF Over, AnswersSame, Busy
<1> QED BY <1>1, <1>2, <1>3, <1>5, RemovedStep

-----------------------------------------------------------------------------
(* Calls to the client.                                                     *)

\* What a step of a call of s to the client leaves alone.
CallMove(s) ==
  /\ UNCHANGED <<clientVars, loopVars, rpcq, ans, pipe, cur, slab, sconn, lifeVars>>
  /\ \A t \in Streams \ {s} :
       cbq'[t] = cbq[t] /\ apc'[t] = apc[t] /\ dpc'[t] = dpc[t] /\ AnswersSame(t)
  /\ spc' = spc \/ (spc = "op" /\ spc' = "opwait" /\ cur.op = "op")
  /\ cbq' \in [Streams -> Seq(Kinds)]
  /\ cbreply' \subseteq Calls
  /\ apc' \in [Streams -> {"idle", "wait"}]
  /\ dpc' \in [Streams -> {"idle", "wait"}]

LEMMA CallMoves ==
  ASSUME LifeInv, NEW s \in Streams, CallMove(s), Calling(s)', DeviceCalls(s)', Given(s)'
  PROVE  LifeInv'
<1> USE DEF LifeInv
<1>1. /\ UNCHANGED <<clientVars, loopVars, rpcq, ans, pipe, cur, slab, sconn, lifeVars>>
      /\ spc' = spc \/ (spc = "op" /\ spc' = "opwait" /\ cur.op = "op")
      /\ Busy' = Busy /\ (Serving' <=> Serving) /\ (spc = "gone" => spc' = "gone")
  BY DEF CallMove, Busy, Serving
<1>2. spc' \in {"idle", "init", "op", "opwait", "drop", "dropall", "gone"}
  BY <1>1, ServerFacts
<1>3. TypeOK'
  BY <1>1, <1>2, ServerFacts, ServerTypes DEF CallMove
<1>4. \A t \in Streams : AsksSame(t)
  BY <1>1 DEF AsksSame, clientVars
<1>5. RequestOK'
  <2>1. \A t \in Streams : \A r : Pends(t, r) => Pends(t, r)'
    BY <1>4, PendsSame
  <2> QED BY <1>1, <2>1 DEF RequestOK, Busy, StreamOps, Pends, Asks, clientVars
<1>6. SlabOK'
  <2>1. UNCHANGED ready
    BY <1>1 DEF lifeVars
  <2> QED BY <1>1, <2>1 DEF SlabOK, Busy
<1>7. KnownOK'
  BY <1>1 DEF KnownOK, lifeVars, ctxVars
<1>8. \A t \in Streams : SlabSame(t) /\ Current(t)' = Current(t)
  BY <1>1 DEF SlabSame, Current
<1>9. Uncreated(s)' /\ (Serving => Phase(s)')
  BY <1>1, <1>4, <1>8, UncreatedSame, PhaseSame DEF StreamsOK, StreamInv
<1>10. ServerMove(s)
  BY <1>1, <1>8 DEF ServerMove, CallMove
<1> QED BY <1>3, <1>5, <1>6, <1>7, <1>9, <1>10, ServerMoves

\* A call is sent: it is the last in its connection.
LEMMA CallSent ==
  ASSUME TypeOK, NEW s \in Streams, NEW kind \in Kinds, cbq' = [cbq EXCEPT ![s] = Append(@, kind)]
  PROVE  /\ cbq' \in [Streams -> Seq(Kinds)]
         /\ \A t \in Streams \ {s} : cbq'[t] = cbq[t]
         /\ kind # "device" => DeviceAsked(s)' = DeviceAsked(s)
         /\ DeviceAsked(s) = {} => \A i, j \in DeviceAsked(s)' : i = j
<1> DEFINE q == cbq[s]
<1>1. q \in Seq(Kinds) /\ cbq \in [Streams -> Seq(Kinds)]
  BY WireTypes
<1>2. /\ Append(q, kind) \in Seq(Kinds)
      /\ DOMAIN Append(q, kind) = 1..(Len(q) + 1) /\ DOMAIN q = 1..Len(q) /\ Len(q) \in Nat
      /\ \A i \in DOMAIN q : Append(q, kind)[i] = q[i]
      /\ Append(q, kind)[Len(q) + 1] = kind
  BY <1>1
<1>3. cbq'[s] = Append(q, kind) /\ \A t \in Streams \ {s} : cbq'[t] = cbq[t]
  BY <1>1
<1>4. cbq' \in [Streams -> Seq(Kinds)]
  BY <1>1, <1>2
<1>5. \A i \in DOMAIN Append(q, kind) : i \in DOMAIN q \/ i = Len(q) + 1
  BY <1>2
<1>6. DOMAIN q \subseteq DOMAIN Append(q, kind)
  BY <1>2
<1>7. kind # "device" => DeviceAsked(s)' = DeviceAsked(s)
  BY <1>2, <1>3, <1>5, <1>6 DEF DeviceAsked
<1>8. \A i \in DeviceAsked(s)' : i \in DeviceAsked(s) \/ i = Len(q) + 1
  BY <1>2, <1>3, <1>5 DEF DeviceAsked
<1> QED BY <1>3, <1>4, <1>7, <1>8

LEMMA StateCallbackStep ==
  ASSUME LifeInv, StateCallback
  PROVE  LifeInv'
<1> USE DEF LifeInv
<1>1. PICK s, k : s = cur.from /\ k = cur.key
  OBVIOUS
<1>2. /\ Busy /\ spc = "op" /\ cur.op = "op" /\ spc' = "opwait"
      /\ slab[k].connected
      /\ cbq' = [cbq EXCEPT ![s] = Append(@, "state")]
      /\ UNCHANGED <<clientVars, loopVars, rpcq, ans, cbreply, pipe, cur, slab, sconn, apc, dpc,
                     lifeVars>>
  BY <1>1 DEF StateCallback, Busy, Connected
<1>3. s \in Streams /\ k \in Keys /\ slab[k].of = s /\ StreamInv(s)
  BY <1>1, <1>2, CurrentFacts
<1>4. /\ cbq' \in [Streams -> Seq(Kinds)] /\ DeviceAsked(s)' = DeviceAsked(s)
      /\ \A t \in Streams \ {s} : cbq'[t] = cbq[t]
  BY <1>2, <1>3, CallSent DEF Kinds
<1>5. CallMove(s)
  BY <1>2, <1>4, ServerFacts DEF CallMove, AnswersSame
<1>6. Calling(s)'
  BY <1>2, <1>3 DEF StreamInv, Calling
<1>7. Given(s)'
  BY <1>2, <1>3 DEF SlabOK, Given
<1>8. DeviceCalls(s)'
  BY <1>2, <1>3, <1>4
  DEF StreamInv, DeviceCalls, DeviceRuns, DeviceAnswered, NoDevice, Cleared, Holds, clientVars,
      loopVars, lifeVars
<1> QED BY <1>3, <1>5, <1>6, <1>7, <1>8, CallMoves

LEMMA DataCallbackStep ==
  ASSUME LifeInv, NEW k \in Keys, DataCallback(k)
  PROVE  LifeInv'
<1> USE DEF LifeInv
<1>1. PICK s : s = slab[k].of
  OBVIOUS
<1>2. /\ slab[k].connected
      /\ cbq' = [cbq EXCEPT ![s] = Append(@, "data")]
      /\ apc' = [apc EXCEPT ![s] = "wait"]
      /\ UNCHANGED <<clientVars, loopVars, rpcq, ans, cbreply, pipe, spc, cur, slab, sconn, dpc,
                     lifeVars>>
  BY <1>1 DEF DataCallback, Connected
<1>3. s \in Streams /\ StreamInv(s)
  <2>1. slab[k] \in ServerStreams /\ slab[k] # Vacant
    BY <1>2, ServerFacts, NoRequestType
  <2> QED BY <1>1, <2>1 DEF SlabOK, ServerStreams, StreamsOK
<1>4. /\ cbq' \in [Streams -> Seq(Kinds)] /\ DeviceAsked(s)' = DeviceAsked(s)
      /\ \A t \in Streams \ {s} : cbq'[t] = cbq[t]
  BY <1>2, <1>3, CallSent DEF Kinds
<1>5. CallMove(s)
  BY <1>2, <1>4, ServerFacts DEF CallMove, AnswersSame
<1>6. Calling(s)'
  BY <1>1, <1>2 DEF Calling
<1>7. Given(s)'
  BY <1>1, <1>2 DEF SlabOK, Given
<1>8. DeviceCalls(s)'
  BY <1>2, <1>3, <1>4
  DEF StreamInv, DeviceCalls, DeviceRuns, DeviceAnswered, NoDevice, Cleared, Holds, clientVars,
      loopVars, lifeVars
<1> QED BY <1>3, <1>5, <1>6, <1>7, <1>8, CallMoves

LEMMA DataCallbackReturnStep ==
  ASSUME LifeInv, NEW s \in Streams, DataCallbackReturn(s)
  PROVE  LifeInv'
<1> USE DEF LifeInv
<1>1. /\ cbreply' = cbreply \ {<<s, "data">>}
      /\ apc' = [apc EXCEPT ![s] = "idle"]
      /\ UNCHANGED <<clientVars, loopVars, rpcq, ans, cbq, pipe, spc, cur, slab, sconn, dpc,
                     lifeVars>>
  BY DEF DataCallbackReturn
<1>2. StreamInv(s)
  BY DEF StreamsOK
<1>3. apc' \in [Streams -> {"idle", "wait"}] /\ apc'[s] = "idle"
      /\ \A t \in Streams \ {s} : apc'[t] = apc[t]
  BY <1>1, ServerFacts
<1>4. \A t \in Streams : AnswersSame(t)
  BY <1>1 DEF AnswersSame
<1>5. CallMove(s)
  BY <1>1, <1>3, <1>4, ServerFacts DEF CallMove
<1>6. Calling(s)' /\ Given(s)'
  BY <1>1, <1>2, <1>3 DEF StreamInv, Calling, Given, Runs, loopVars
<1>7. DeviceCalls(s)'
  BY <1>1, <1>2, <1>4
  DEF StreamInv, DeviceCalls, DeviceAsked, DeviceRuns, DeviceAnswered, NoDevice, Cleared, Holds,
      AnswersSame, clientVars, loopVars, lifeVars
<1> QED BY <1>5, <1>6, <1>7, CallMoves

LEMMA DeviceChangeStep ==
  ASSUME LifeInv, NEW k \in Keys, DeviceChange(k)
  PROVE  LifeInv'
<1> USE DEF LifeInv
<1>1. PICK s : s = slab[k].of
  OBVIOUS
<1>2. /\ slab[k].connected /\ slab[k].notify /\ dpc[s] = "idle" /\ "server" \notin dead
      /\ cbq' = [cbq EXCEPT ![s] = Append(@, "device")]
      /\ dpc' = [dpc EXCEPT ![s] = "wait"]
      /\ UNCHANGED <<clientVars, loopVars, rpcq, ans, cbreply, pipe, spc, cur, slab, sconn, apc,
                     lifeVars>>
  BY <1>1 DEF DeviceChange, Connected, DeviceCall, Up
<1>3. s \in Streams /\ StreamInv(s)
  <2>1. slab[k] \in ServerStreams /\ slab[k] # Vacant
    BY <1>2, ServerFacts, NoRequestType
  <2> QED BY <1>1, <2>1 DEF SlabOK, ServerStreams, StreamsOK
<1>4. NoDevice(s) /\ ~DeviceAnswered(s)
  BY <1>2, <1>3 DEF StreamInv, DeviceCalls
<1>5. ~Cleared(s)
  BY <1>1, <1>2, <1>3 DEF StreamInv, DeviceCalls, Holds
<1>6. /\ cbq' \in [Streams -> Seq(Kinds)]
      /\ \A i, j \in DeviceAsked(s)' : i = j
      /\ \A t \in Streams \ {s} : cbq'[t] = cbq[t]
  BY <1>2, <1>3, <1>4, CallSent DEF Kinds, NoDevice
<1>7. /\ dpc' \in [Streams -> {"idle", "wait"}] /\ dpc'[s] = "wait"
      /\ \A t \in Streams \ {s} : dpc'[t] = dpc[t]
  BY <1>2, <1>3, ServerFacts
<1>8. CallMove(s)
  BY <1>2, <1>6, <1>7, ServerFacts DEF CallMove, AnswersSame
<1>9. Calling(s)'
  BY <1>1, <1>2 DEF Calling
<1>10. Given(s)'
  BY <1>1, <1>2 DEF SlabOK, Given
<1>11. DeviceCalls(s)'
  <2>1. ~DeviceRuns(s)' /\ ~DeviceAnswered(s)' /\ ~Cleared(s)'
    BY <1>2, <1>4, <1>5 DEF DeviceRuns, DeviceAnswered, NoDevice, Cleared, clientVars, loopVars
  <2> QED BY <1>6, <1>7, <2>1 DEF DeviceCalls
<1> QED BY <1>3, <1>8, <1>9, <1>10, <1>11, CallMoves

LEMMA DeviceChangeReturnStep ==
  ASSUME LifeInv, NEW s \in Streams, DeviceChangeReturn(s)
  PROVE  LifeInv'
<1> USE DEF LifeInv
<1>1. /\ <<s, "device">> \in cbreply /\ "server" \notin dead
      /\ cbreply' = cbreply \ {<<s, "device">>}
      /\ dpc' = [dpc EXCEPT ![s] = "idle"]
      /\ UNCHANGED <<clientVars, loopVars, rpcq, ans, cbq, pipe, spc, cur, slab, sconn, apc,
                     lifeVars>>
  BY DEF DeviceChangeReturn, Up
<1>2. StreamInv(s)
  BY DEF StreamsOK
<1>3. dpc' \in [Streams -> {"idle", "wait"}] /\ dpc'[s] = "idle"
      /\ \A t \in Streams \ {s} : dpc'[t] = dpc[t]
  BY <1>1, ServerFacts
<1>4. \A t \in Streams \ {s} : AnswersSame(t)
  BY <1>1 DEF AnswersSame
<1>5. CallMove(s)
  BY <1>1, <1>3, <1>4, ServerFacts DEF CallMove
<1>6. Calling(s)' /\ Given(s)'
  BY <1>1, <1>2, <1>3 DEF StreamInv, Calling, Given, Runs, loopVars
<1>7. DeviceCalls(s)'
  <2>1. NoDevice(s)
    BY <1>1, <1>2 DEF StreamInv, DeviceCalls, DeviceAnswered, NoDevice
  <2>2. DeviceAsked(s)' = {} /\ ~DeviceRuns(s)' /\ ~DeviceAnswered(s)'
    BY <1>1, <2>1 DEF NoDevice, DeviceAsked, DeviceRuns, DeviceAnswered, loopVars
  <2>3. Cleared(s)' = Cleared(s) /\ Holds(s)' = Holds(s) /\ slab' = slab
    BY <1>1 DEF Cleared, Holds, clientVars
  <2> QED BY <1>2, <2>2, <2>3 DEF StreamInv, DeviceCalls, NoDevice
<1> QED BY <1>5, <1>6, <1>7, CallMoves

-----------------------------------------------------------------------------
(* The end of the connection.                                               *)

LEMMA DisconnectStep ==
  ASSUME LifeInv, Disconnect \/ DropAllDone
  PROVE  LifeInv'
<1> USE DEF LifeInv
<1>1. /\ UNCHANGED <<clientVars, loopVars, netVars, cur, slab, sconn, apc, dpc, cpc, ctxVars,
                     ready, devidmap, srv, dead>>
      /\ "server" \notin dead
      /\ \/ /\ spc = "idle" /\ spc' = "dropall"
            /\ link = [client |-> "closed", server |-> "open"]
            /\ link' = [link EXCEPT !.server = "closed"]
         \/ spc = "dropall" /\ spc' = "gone" /\ UNCHANGED link
  BY DEF Disconnect, DropAllDone, Up, lifeVars
<1>2. UNCHANGED <<lpc, rpcq, ans, lists>>
  BY <1>1 DEF loopVars, netVars, wireVars, ctxVars
<1>3. link' \in [{"client", "server"} -> {"none", "open", "closed"}]
  BY <1>1, LifeTypes
<1>4. spc' \in {"idle", "init", "op", "opwait", "drop", "dropall", "gone"}
  BY <1>1
<1>5. TypeOK'
  BY <1>1, <1>2, <1>3, <1>4, ContextTypes, LifeTypes, SameTypes
  DEF loopVars, netVars, wireVars, ctxVars
<1>6. ~Busy' /\ ~Busy /\ ~Serving'
  BY <1>1 DEF Busy, Serving
<1>7. LinkOK'
  <2>1. CASE spc = "idle"
    <3>1. link'.server = "closed" /\ link'.client = "closed" /\ spc' = "dropall"
      BY <1>1, <2>1
    <3> QED BY <1>1, <1>6, <2>1, <3>1 DEF LinkOK, clientVars
  <2>2. CASE spc = "dropall"
    BY <1>1, <1>6, <2>2 DEF LinkOK, Serving, clientVars
  <2> QED BY <1>1, <2>1, <2>2
<1>8. \A t \in Streams : AsksSame(t)
  BY <1>1, <1>2 DEF AsksSame, clientVars
<1>9. RequestOK'
  BY <1>2, <1>6, <1>8 DEF RequestOK, Pends, Asks, AsksSame
<1>10. ContextMove
  BY <1>1, <1>6 DEF ContextMove, Current, loopVars, netVars, wireVars, ctxVars
<1> QED BY <1>1, <1>5, <1>6, <1>7, <1>9, <1>10, ContextMoves DEF ctxVars

\* The calls of the streams fail.
LEMMA CallsFail ==
  ASSUME NEW s \in Streams, StreamInv(s), ~Serving',
         ans'[s] = ans[s] \/ (ans[s] = None /\ ans'[s] = "err"),
         UNCHANGED <<clientVars, loopVars, cbq, cbreply, pipe, slab, apc, dpc, dead>>
  PROVE  StreamInv(s)'
<1>1. /\ UNCHANGED <<upc, token, devcb, cbserver, ucb>> /\ Holds(s)' = Holds(s)
  BY DEF clientVars, loopVars, Holds
<1>2. Uncreated(s)'
  BY <1>1, StreamAssumption DEF StreamInv, Uncreated
<1>3. Calling(s)' /\ Server(s)' /\ Given(s)'
  BY <1>1 DEF StreamInv, Calling, Server, Given, Runs
<1>4. DeviceCalls(s)'
  <2>1. /\ DeviceAsked(s)' = DeviceAsked(s) /\ DeviceRuns(s)' = DeviceRuns(s)
        /\ DeviceAnswered(s)' = DeviceAnswered(s) /\ NoDevice(s)' = NoDevice(s)
    BY <1>1 DEF DeviceAsked, DeviceRuns, DeviceAnswered, NoDevice
  <2>2. Cleared(s)' => Cleared(s)
    BY <1>1 DEF Cleared
  <2> QED BY <1>1, <2>1, <2>2 DEF StreamInv, DeviceCalls
<1> QED BY <1>2, <1>3, <1>4 DEF StreamInv

LEMMA RpcLoopExitStep ==
  ASSUME LifeInv, RpcLoopExit
  PROVE  LifeInv'
<1> USE DEF LifeInv
<1>1. /\ UNCHANGED <<clientVars, lpc, loopVars, cbq, cbreply, pipe, cur, slab, sconn, apc, dpc, cpc,
                     lists, ctxVars, known, choice, ready, devidmap, srv, dead>>
      /\ "server" \notin dead /\ srv = "stopping" /\ spc = "idle" /\ spc' = "dropall"
      /\ link' = [link EXCEPT !.server = IF @ = "none" THEN @ ELSE "closed"]
      /\ FailCalls /\ rpcq' = <<>>
  BY DEF RpcLoopExit, PipeFirst, Up, loopVars, ctxVars
<1>2. ~Busy' /\ ~Busy /\ ~Serving'
  BY <1>1 DEF Busy, Serving
<1>3. /\ ans' \in [Callers -> Keys \cup {None, "ok", "err"}]
      /\ \A s \in Streams : ans'[s] = ans[s] \/ (ans[s] = None /\ ans'[s] = "err")
  BY <1>1, FailCallsFacts
<1>4. link' \in [{"client", "server"} -> {"none", "open", "closed"}]
      /\ link'.client = link.client
      /\ link'.server = IF link.server = "none" THEN "none" ELSE "closed"
  BY <1>1, LifeTypes
<1>5. rpcq' \in Seq(Requests) /\ DOMAIN rpcq' = {}
  BY <1>1
<1>6. TypeOK'
  BY <1>1, <1>3, <1>4, <1>5, ContextTypes, LifeTypes DEF loopVars, ctxVars
<1>7. LinkOK'
  BY <1>1, <1>2, <1>4 DEF LinkOK, clientVars
<1>8. RequestOK' /\ SlabOK' /\ KnownOK'
  BY <1>1, <1>2, <1>5 DEF RequestOK, SlabOK, KnownOK
<1>9. StreamsOK'
  BY <1>1, <1>2, <1>3, CallsFail DEF StreamsOK
<1> QED BY <1>6, <1>7, <1>8, <1>9

\* The ServerStreams are dropped when there is no more connection.
LEMMA DropOneStep ==
  ASSUME LifeInv, NEW k \in Keys, DropOne(k)
  PROVE  LifeInv'
<1> USE DEF LifeInv
<1>1. PICK s : s = slab[k].of
  OBVIOUS
<1>2. /\ spc = "dropall" /\ slab[k] # Vacant
      /\ UNCHANGED <<clientVars, loopVars, rpcq, ans, cbq, cbreply, spc, cur, apc, dpc, lifeVars>>
  BY DEF DropOne
<1>3. /\ s \in Streams /\ s # None /\ StreamInv(s) /\ slab[k] \in ServerStreams
      /\ Holds(s) = {k}
  <2>1. slab[k] \in ServerStreams /\ slab[k].of # None
    BY <1>2, ServerFacts DEF SlabOK
  <2>2. s \in Streams
    BY <1>1, <2>1 DEF ServerStreams
  <2> QED BY <1>1, <2>1, <2>2 DEF SlabOK, StreamsOK, Holds
<1>4. ~Busy' /\ ~Busy /\ ~Serving /\ ~Serving' /\ UNCHANGED ready
  BY <1>2 DEF Busy, Serving, lifeVars
<1>5. RequestOK'
  BY <1>2, RequestMoves DEF OthersAsk, AsksSame, clientVars
<1>6. /\ SlabOK' /\ slab' \in [Keys -> ServerStreams]
      /\ \A j \in Keys \ {k} : slab'[j] = slab[j]
      /\ slab'[k].stream \in {"none", "dropping"}
      /\ \A t \in Streams \ {s} : SlabSame(t)
      /\ sconn' \in [Streams -> {"none", "open", "closed"}]
      /\ pipe' \in [Streams -> {"none", "server", "client", "closed"}]
      /\ \A t \in Streams \ {s} : pipe'[t] = pipe[t]
      /\ pipe'[s] = pipe[s] \/ pipe'[s] = "closed"
      /\ Calling(s)'
      /\ (\A j \in Holds(s) : ~slab[j].notify) => \A j \in Holds(s)' : ~slab'[j].notify
  <2>1. CASE slab[k].stream = "some"
    <3>1. slab' = [slab EXCEPT ![k].stream = "dropping"] /\ UNCHANGED <<sconn, pipe>>
      BY <2>1 DEF DropOne
    <3>2. PICK v : v = [slab[k] EXCEPT !.stream = "dropping"]
      OBVIOUS
    <3>3. /\ v \in ServerStreams /\ v.of = s /\ v.stream = "dropping"
          /\ v.connected = slab[k].connected /\ v.notify = slab[k].notify
      BY <1>1, <1>3, <3>2 DEF ServerStreams
    <3>4. slab' = [slab EXCEPT ![k] = v]
      BY <3>1, <3>2, ServerFacts
    <3>5. v.connected => v.stream \in {"some", "dropping"} /\ pipe'[s] \in {"client", "closed"}
      BY <1>1, <3>1, <3>3 DEF SlabOK
    <3>6. \A t \in Streams \ {s} : pipe'[t] = pipe[t]
      BY <3>1
    <3>7. /\ SlabOK'
          /\ slab' \in [Keys -> ServerStreams]
          /\ slab'[k] = v /\ \A j \in Keys \ {k} : slab'[j] = slab[j]
          /\ \A t \in Streams : Holds(t)' = Holds(t)
          /\ \A t \in Streams \ {s} : SlabSame(t)
      BY <1>1, <1>3, <1>4, <3>3, <3>4, <3>5, <3>6, SlabChanged
    <3>8. Calling(s)'
      BY <1>1, <1>2, <1>3, <3>3, <3>7 DEF StreamInv, Calling, Holds
    <3>9. (\A j \in Holds(s) : ~slab[j].notify) => \A j \in Holds(s)' : ~slab'[j].notify
      BY <1>3, <3>3, <3>7
    <3> QED BY <3>1, <3>3, <3>6, <3>7, <3>8, <3>9, ServerFacts
  <2>2. CASE slab[k].stream # "some"
    <3>1. StreamStopped(k) /\ Remove(k)
      BY <2>2 DEF DropOne
    <3>2. /\ SlabOK'
          /\ slab' \in [Keys -> ServerStreams]
          /\ slab'[k] = Vacant /\ \A j \in Keys \ {k} : slab'[j] = slab[j]
          /\ Holds(s)' = {}
          /\ \A t \in Streams \ {s} : SlabSame(t)
          /\ sconn' \in [Streams -> {"none", "open", "closed"}]
          /\ pipe' \in [Streams -> {"none", "server", "client", "closed"}]
          /\ \A t \in Streams \ {s} : pipe'[t] = pipe[t]
          /\ pipe'[s] = IF pipe[s] = "server" THEN "closed" ELSE pipe[s]
      BY <1>1, <1>3, <1>4, <3>1, SlabRemoved
    <3>3. Calling(s)'
      BY <1>1, <1>2, <3>1 DEF StreamStopped, Calling
    <3> QED BY <3>2, <3>3, NoRequestType
  <2> QED BY <2>1, <2>2
<1>7. TypeOK'
  BY <1>2, <1>6, ServerFacts, ServerTypes
<1>8. KnownOK'
  BY <1>2, <1>6, KnownSame DEF lifeVars, ctxVars
<1>9. Uncreated(s)'
  BY <1>2, <1>3 DEF StreamInv, Uncreated, clientVars
<1>10. DeviceCalls(s)'
  BY <1>2, <1>3, <1>6
  DEF StreamInv, DeviceCalls, DeviceAsked, DeviceRuns, DeviceAnswered, NoDevice, Cleared,
      clientVars, loopVars, lifeVars
<1>11. Given(s)'
  BY <1>2, <1>3, <1>6 DEF StreamInv, Given, Runs, loopVars
<1>12. ServerMove(s)
  BY <1>2, <1>4, <1>6 DEF ServerMove, AnswersSame, Current
<1> QED BY <1>3, <1>4, <1>5, <1>6, <1>7, <1>8, <1>9, <1>10, <1>11, <1>12, ServerMoves

-----------------------------------------------------------------------------
(* Crashes.                                                                 *)

LEMMA ClientDiesStep ==
  ASSUME LifeInv, ClientDies
  PROVE  LifeInv'
<1> USE DEF LifeInv
<1>1. /\ dead' = dead \cup {"client"}
      /\ link' = [link EXCEPT !.client = IF @ = "none" THEN @ ELSE "closed"]
      /\ pipe' = [s \in Streams |-> IF pipe[s] = "client" THEN "closed" ELSE pipe[s]]
      /\ cbreply \subseteq cbreply' /\ cbreply' \subseteq cbreply \cup AbandonedCalls
      /\ cbq' = [s \in Streams |-> <<>>]
      /\ ucb' = {}
      /\ UNCHANGED <<clientVars, lpc, cbserver, rpcq, ans, serverVars, cpc, known, choice, lists,
                     ready, devidmap, srv>>
  BY DEF ClientDies, ctxVars
<1>2. /\ link' \in [{"client", "server"} -> {"none", "open", "closed"}]
      /\ link'.server = link.server
      /\ link'.client = IF link.client = "none" THEN "none" ELSE "closed"
  BY <1>1, LifeTypes
<1>3. AbandonedCalls \subseteq Calls
  <2>1. \A s \in Streams : Pending(s) \subseteq Calls
    BY WireTypes DEF Pending, Calls
  <2> QED BY <2>1, WireTypes DEF AbandonedCalls
<1>4. /\ pipe' \in [Streams -> {"none", "server", "client", "closed"}]
      /\ \A s \in Streams : pipe'[s] = IF pipe[s] = "client" THEN "closed" ELSE pipe[s]
  BY <1>1, WireTypes
<1>5. cbq' \in [Streams -> Seq(Kinds)] /\ \A s \in Streams : cbq'[s] = <<>>
  BY <1>1
<1>6. TypeOK'
  <2>1. dead' \subseteq {"client", "server"} /\ cbreply' \subseteq Calls /\ ucb' \subseteq Calls
    BY <1>1, <1>3, LifeTypes, WireTypes
  <2> QED BY <1>1, <1>2, <1>4, <1>5, <2>1 DEF TypeOK, clientVars, serverVars
<1>7. LinkOK'
  BY <1>1, <1>2 DEF LinkOK, Serving, clientVars, serverVars
<1>8. \A t \in Streams : AsksSame(t) /\ SlabSame(t) /\ Current(t)' = Current(t)
  BY <1>1 DEF AsksSame, SlabSame, Current, Busy, clientVars, serverVars
<1>9. RequestOK'
  BY <1>1, <1>8, RequestMoves DEF OthersAsk, serverVars
<1>10. SlabOK'
  <2>1. \A k \in Keys : slab[k].connected => slab[k].of \in Streams
    BY DEF TypeOK, SlabOK, Vacant, Created0
  <2>2. \A t \in Streams : pipe[t] \in {"client", "closed"} => pipe'[t] \in {"client", "closed"}
    BY <1>4
  <2> QED BY <1>1, <2>1, <2>2 DEF SlabOK, Busy, serverVars
<1>11. KnownOK'
  BY <1>1 DEF KnownOK, serverVars
<1>12. ASSUME NEW s \in Streams
       PROVE  StreamInv(s)'
  <2>1. StreamInv(s)
    BY DEF StreamsOK
  <2>2. Uncreated(s)'
    BY <1>4, <1>8, <2>1, HoldsSame DEF StreamInv, Uncreated, AsksSame
  <2>3. Calling(s)' /\ (Serving' => Phase(s)')
    BY <1>1, <1>8, <2>1, CallingSame, PhaseSame DEF StreamInv, Serving, serverVars
  <2>4. Server(s)' /\ Given(s)'
    BY <1>1, <1>5, <2>1 DEF StreamInv, Server, Given, Runs, clientVars
  <2>5. DeviceCalls(s)'
    <3>1. /\ DeviceAsked(s)' = {} /\ ~DeviceRuns(s)' /\ Cleared(s)' = Cleared(s)
          /\ Holds(s)' = Holds(s) /\ UNCHANGED <<dpc, slab>>
          /\ "server" \notin dead' => "server" \notin dead
      BY <1>1, <1>5 DEF DeviceAsked, DeviceRuns, Cleared, Holds, clientVars, serverVars
    <3>2. DeviceAnswered(s)' => DeviceAnswered(s) \/ ~NoDevice(s)
      <4>1. ASSUME <<s, "device">> \in AbandonedCalls
            PROVE  ~NoDevice(s)
        <5>1. CASE <<s, "device">> \in ucb
          BY <5>1 DEF NoDevice, DeviceRuns
        <5>2. CASE \E t \in Streams : <<s, "device">> \in Pending(t)
          <6>1. PICK i \in 1..Len(cbq[s]) : cbq[s][i] = "device"
            BY <5>2 DEF Pending
          <6>2. i \in DeviceAsked(s)
            BY <6>1, WireTypes DEF DeviceAsked
          <6> QED BY <6>2 DEF NoDevice
        <5> QED BY <4>1, <5>1, <5>2 DEF AbandonedCalls
      <4> QED BY <1>1, <4>1 DEF DeviceAnswered
    <3> QED BY <2>1, <3>1, <3>2 DEF StreamInv, DeviceCalls, NoDevice
  <2> QED BY <2>2, <2>3, <2>4, <2>5 DEF StreamInv
<1> QED BY <1>6, <1>7, <1>9, <1>10, <1>11, <1>12 DEF StreamsOK

LEMMA ServerDiesStep ==
  ASSUME LifeInv, ServerDies
  PROVE  LifeInv'
<1> USE DEF LifeInv
<1>1. /\ dead' = dead \cup {"server"}
      /\ link' = [link EXCEPT !.server = IF @ = "none" THEN @ ELSE "closed"]
      /\ sconn' = [s \in Streams |-> IF sconn[s] = "open" THEN "closed" ELSE sconn[s]]
      /\ pipe' = [s \in Streams |-> IF pipe[s] = "server" THEN "closed" ELSE pipe[s]]
      /\ FailCalls /\ rpcq' = <<>> /\ cbreply' = {} /\ spc' = "gone" /\ cur' = NoRequest
      /\ slab' = [k \in Keys |-> Vacant]
      /\ apc' = [s \in Streams |-> "idle"] /\ dpc' = [s \in Streams |-> "idle"]
      /\ UNCHANGED <<upc, token, devcb, lpc, cbserver, ucb, cbq, cpc, known, choice, lists,
                     ready, devidmap, srv>>
  BY DEF ServerDies, ctxVars, clientVars, loopVars
<1>2. /\ link' \in [{"client", "server"} -> {"none", "open", "closed"}]
      /\ link'.client = link.client
      /\ link'.server = IF link.server = "none" THEN "none" ELSE "closed"
  BY <1>1, LifeTypes
<1>3. /\ pipe' \in [Streams -> {"none", "server", "client", "closed"}]
      /\ \A s \in Streams : pipe'[s] = IF pipe[s] = "server" THEN "closed" ELSE pipe[s]
      /\ sconn' \in [Streams -> {"none", "open", "closed"}]
  BY <1>1, ServerFacts
<1>4. /\ slab' \in [Keys -> ServerStreams] /\ \A k \in Keys : slab'[k] = Vacant
      /\ apc' \in [Streams -> {"idle", "wait"}] /\ dpc' \in [Streams -> {"idle", "wait"}]
      /\ \A s \in Streams : apc'[s] = "idle" /\ dpc'[s] = "idle"
  BY <1>1, NoRequestType
<1>5. /\ ans' \in [Callers -> Keys \cup {None, "ok", "err"}]
      /\ \A s \in Streams : IF upc[s] \in Asking /\ ans[s] = None
                              THEN ans'[s] = "err" ELSE ans'[s] = ans[s]
  BY <1>1, FailCallsFacts
<1>6. rpcq' \in Seq(Requests) /\ DOMAIN rpcq' = {} /\ cur' \in Requests
  BY <1>1, NoRequestType
<1>7. TypeOK'
  <2>1. dead' \subseteq {"client", "server"} /\ cbreply' \subseteq Calls
    BY <1>1, LifeTypes
  <2> QED BY <1>1, <1>2, <1>3, <1>4, <1>5, <1>6, <2>1 DEF TypeOK, ServerStreams
<1>8. ~Busy' /\ ~Serving'
  BY <1>1 DEF Busy, Serving
<1>9. LinkOK'
  BY <1>1, <1>2, <1>8 DEF LinkOK
<1>10. RequestOK' /\ KnownOK'
  BY <1>1, <1>4, <1>6, <1>8, NoRequestType DEF RequestOK, KnownOK
<1>11. SlabOK'
  <2>1. Vacant' = Vacant
    BY DEF Vacant, Created0
  <2> QED BY <1>4, <1>8, <2>1, NoRequestType DEF SlabOK
<1>12. ASSUME NEW s \in Streams
       PROVE  StreamInv(s)'
  <2>1. StreamInv(s)
    BY DEF StreamsOK
  <2>2. Holds(s)' = {}
    BY <1>4, NoRequestType, StreamAssumption DEF Holds
  <2>3. Uncreated(s)'
    BY <1>1, <1>3, <1>5, <2>1, <2>2, StreamAssumption DEF StreamInv, Uncreated, Asking
  <2>4. Calling(s)' /\ Server(s)' /\ Given(s)'
    BY <1>1, <1>3, <1>4, <2>1 DEF StreamInv, Calling, Server, Given, Runs
  <2>5. DeviceCalls(s)'
    <3>1. Cleared(s)' => Cleared(s)
      BY <1>1, <1>5, StreamAssumption DEF Cleared
    <3>2. NoDevice(s)' = NoDevice(s) /\ "server" \in dead'
      BY <1>1 DEF NoDevice, DeviceAsked, DeviceRuns
    <3> QED BY <2>1, <2>2, <3>1, <3>2 DEF StreamInv, DeviceCalls
  <2> QED BY <1>8, <2>3, <2>4, <2>5 DEF StreamInv
<1> QED BY <1>7, <1>9, <1>10, <1>11, <1>12 DEF StreamsOK

-----------------------------------------------------------------------------
(* The theorems.                                                            *)

LEMMA LifeInit ==
  ASSUME Init
  PROVE  LifeInv
<1>1. /\ upc = [s \in Streams |-> "new"]
      /\ token = [s \in Streams |-> None]
      /\ devcb = [s \in Streams |-> "off"]
      /\ lpc = "none"
      /\ cbserver = [s \in Streams |-> "none"]
      /\ ucb = {}
      /\ rpcq = <<>>
      /\ ans = [c \in Callers |-> None]
      /\ cbq = [s \in Streams |-> <<>>]
      /\ cbreply = {}
      /\ pipe = [s \in Streams |-> "none"]
      /\ spc = "idle"
      /\ cur = NoRequest
      /\ slab = [k \in Keys |-> Vacant]
      /\ sconn = [s \in Streams |-> "none"]
      /\ apc = [s \in Streams |-> "idle"]
      /\ dpc = [s \in Streams |-> "idle"]
      /\ cpc = "new"
      /\ known = {Default}
      /\ choice = [s \in Streams |-> Default]
      /\ lists = 0
      /\ link = [client |-> "none", server |-> "none"]
      /\ ready = FALSE
      /\ devidmap = <<0>>
      /\ srv = "none"
      /\ dead = {}
  BY DEF Init
<1>2. NoRequest \in Requests /\ slab \in [Keys -> ServerStreams]
  BY <1>1, NoRequestType
<1>3. /\ devidmap \in Seq(Devices \cup {0}) /\ DOMAIN devidmap = {1} /\ devidmap[1] = 0
      /\ Len(devidmap) = 1
  BY <1>1
<1>4. known \subseteq (0..Len(devidmap)) \X (Devices \cup {0}) /\ choice \in [Streams -> known]
  BY <1>1, <1>3 DEF Default
<1>5. rpcq \in Seq(Requests) /\ cbq \in [Streams -> Seq(Kinds)]
  BY <1>1
<1>6. lists \in 0..MaxLists
  BY <1>1, StreamAssumption
<1>7. TypeOK
  <2>1. /\ upc \in [Streams -> ClientPcs]
        /\ token \in [Streams -> Keys \cup {None}]
        /\ devcb \in [Streams -> {"set", "clearing", "off"}]
        /\ cbserver \in [Streams -> {"none", "queued", "bound", "dropped"}]
        /\ ans \in [Callers -> Keys \cup {None, "ok", "err"}]
        /\ pipe \in [Streams -> {"none", "server", "client", "closed"}]
    BY <1>1 DEF ClientPcs
  <2>2. /\ sconn \in [Streams -> {"none", "open", "closed"}]
        /\ apc \in [Streams -> {"idle", "wait"}]
        /\ dpc \in [Streams -> {"idle", "wait"}]
        /\ link \in [{"client", "server"} -> {"none", "open", "closed"}]
        /\ ucb \subseteq Calls /\ cbreply \subseteq Calls /\ dead \subseteq {"client", "server"}
    BY <1>1
  <2>3. /\ lpc \in {"none", "start", "promote", "run", "exited"}
        /\ spc \in {"idle", "init", "op", "opwait", "drop", "dropall", "gone"}
        /\ cpc \in {"new", "connect", "query", "live", "list", "disconnect", "joinRpc",
                    "joinCallback", "dropped"}
        /\ srv \in {"none", "up", "stopping", "down"}
        /\ ready \in BOOLEAN /\ cur \in Requests
    BY <1>1, <1>2
  <2> QED BY <1>2, <1>3, <1>4, <1>5, <1>6, <2>1, <2>2, <2>3 DEF TypeOK, ServerStreams
<1>8. LinkOK
  BY <1>1 DEF LinkOK, Serving
<1>9. RequestOK
  BY <1>1 DEF RequestOK, Busy
<1>10. \A k \in Keys : slab[k] = Vacant
  BY <1>1
<1>11. SlabOK
  BY <1>1, <1>10, NoRequestType DEF SlabOK, Busy
<1>12. KnownOK
  BY <1>1, <1>3, <1>10, NoRequestType DEF KnownOK, Default
<1>13. ASSUME NEW s \in Streams
       PROVE  StreamInv(s)
  <2>1. Holds(s) = {}
    BY <1>10, NoRequestType, StreamAssumption DEF Holds
  <2> QED BY <1>1, <2>1
      DEF StreamInv, Uncreated, Phase, Calling, Server, DeviceCalls, Given, Runs, DeviceAsked,
          DeviceRuns, DeviceAnswered, NoDevice
<1> QED BY <1>7, <1>8, <1>9, <1>11, <1>12, <1>13 DEF LifeInv, StreamsOK

LEMMA LifeStutter ==
  ASSUME LifeInv, UNCHANGED vars
  PROVE  LifeInv'
<1>1. UNCHANGED <<upc, token, devcb, lpc, cbserver, ucb, rpcq, ans, cbq, cbreply, pipe, spc, cur,
                  slab, sconn, apc, dpc, cpc, known, choice, lists, link, ready, devidmap, srv,
                  dead>>
  BY DEF vars, clientVars, loopVars, netVars, wireVars, serverVars, lifeVars, ctxVars
<1> HIDE DEF vars
<1>2. TypeOK'
  BY <1>1 DEF LifeInv, TypeOK
<1>3. LinkOK' /\ SlabOK' /\ KnownOK'
  BY <1>1 DEF LifeInv, LinkOK, SlabOK, KnownOK, Serving, Busy
<1>4. RequestOK'
  BY <1>1, RequestMoves DEF LifeInv, OthersAsk, AsksSame
<1>5. \A t \in Streams : Untouched(t)
  BY <1>1 DEF Untouched, SlabSame, RunsSame, AnswersSame, AsksSame, Current, Busy, Serving
<1> QED BY <1>2, <1>3, <1>4, <1>5, NoStream DEF LifeInv

LEMMA LifeStep ==
  ASSUME LifeInv, [Next]_vars
  PROVE  LifeInv'
<1>1. CASE UNCHANGED vars
  BY <1>1, LifeStutter
<1>2. ASSUME NEW s \in Streams, AppStep(s)
      PROVE  LifeInv'
  BY <1>2, StreamCreatedStep, ReturnStep, StreamDroppedStep DEF AppStep
<1>3. ASSUME NEW s \in Streams, LoopStep(s)
      PROVE  LifeInv'
  BY <1>3, BindServerStep, BindServerFailsStep, DeviceChangeIgnoredStep, CallbackBeginStep,
     CallbackServerDropStep DEF LoopStep
<1>4. ASSUME NEW s \in Streams,
             \/ StreamCreate(s) \/ StreamOp(s) \/ RegisterDeviceChanged(s)
             \/ UnregisterDeviceChanged(s) \/ StreamDestroy(s)
      PROVE  LifeInv'
  BY <1>4, StreamCreateStep, LiveCallStep
<1>5. ASSUME NEW s \in Streams, DataCallbackReturn(s) \/ DeviceChangeReturn(s)
      PROVE  LifeInv'
  BY <1>5, DataCallbackReturnStep, DeviceChangeReturnStep
<1>6. CASE LoopStart \/ LoopPromoted \/ CallbackEnd
  BY <1>6, LoopCallStep, CallbackEndStep
<1>7. CASE ContextInit \/ EnumerateDevices \/ ContextDrop \/ ContextStep
  BY <1>7, ContextCallStep, ContextReturnStep, ContextDropStep DEF ContextStep
<1>8. CASE ServerStart \/ NewClient \/ ServerStop \/ ServerStopped
  BY <1>8, EmbedderStep
<1>9. CASE RpcThreadStep
  <2>1. CASE ProcessStreamCreate \/ ProcessStreamCreateFails \/ ContextReady \/ ContextFails
             \/ ProcessPlain \/ ProcessEnumerate
    BY <2>1, ProcessStreamCreateStep, RefusedStep, EmbedderStep, ProcessPlainStep,
       ProcessEnumerateStep
  <2>2. CASE ProcessStreamInit \/ StreamInitOk \/ StreamInitFails
    BY <2>2, ProcessStreamInitStep, StreamInitOkStep, StreamRemovedStep
  <2>3. CASE ProcessStreamOp \/ StreamOpDone \/ DeviceChangedSet \/ StateCallbackReturn
    BY <2>3, ProcessStreamOpStep, StreamOpDoneStep, DeviceChangedSetStep
  <2>4. CASE ProcessStreamDestroy \/ StreamDestroyDone
    BY <2>4, ProcessStreamDestroyStep, StreamRemovedStep
  <2>5. CASE Disconnect \/ (\E k \in Keys : DropOne(k)) \/ DropAllDone \/ RpcLoopExit
    BY <2>5, DisconnectStep, DropOneStep, RpcLoopExitStep
  <2> QED BY <1>9, <2>1, <2>2, <2>3, <2>4, <2>5 DEF RpcThreadStep
<1>10. CASE StateCallback
  BY <1>10, StateCallbackStep
<1>11. ASSUME NEW k \in Keys, DataCallback(k) \/ DeviceChange(k)
       PROVE  LifeInv'
  BY <1>11, DataCallbackStep, DeviceChangeStep
<1>12. CASE ClientDies \/ ServerDies
  BY <1>12, ClientDiesStep, ServerDiesStep
<1> QED BY <1>1, <1>2, <1>3, <1>4, <1>5, <1>6, <1>7, <1>8, <1>9, <1>10, <1>11, <1>12 DEF Next

LEMMA LifeInvariant == Spec => []LifeInv
<1>1. Init => LifeInv
  BY LifeInit
<1>2. LifeInv /\ [Next]_vars => LifeInv'
  BY LifeStep
<1> QED BY <1>1, <1>2, PTL DEF Spec

\* Type correctness.  In particular the token a ClientStream keeps is a slab key,
\* never an error taken for one: ClientStream::init returns before it if
\* StreamCreate failed (client/src/stream.rs, send_recv!).
THEOREM TypeCorrect == Spec => []TypeOK
<1>1. LifeInv => TypeOK
  BY DEF LifeInv
<1> QED BY <1>1, LifeInvariant, PTL

\* Once ClientStream::drop or a failed init has returned, no callback of the
\* stream runs or can start, whatever the server does and however it ends: the
\* wait on shutdown_rx (client/src/stream.rs).
THEOREM CallbacksEnd == Spec => []NoCallbackAfterDrop
<1>1. LifeInv => NoCallbackAfterDrop
  <2> SUFFICES ASSUME LifeInv, NEW s \in Streams, upc[s] \in {"done", "failed"}
               PROVE  /\ cbserver[s] \notin {"queued", "bound"}
                      /\ \A kind \in Kinds : <<s, kind>> \notin ucb
    BY DEF NoCallbackAfterDrop
  <2>1. Server(s)
    BY DEF LifeInv, StreamsOK, StreamInv
  <2>2. cbserver[s] \notin {"queued", "bound"}
    BY <2>1 DEF Server
  <2>3. Runs(s) = {}
    BY <2>1, <2>2 DEF Server
  <2> QED BY <2>2, <2>3 DEF Runs
<1> QED BY <1>1, LifeInvariant, PTL

\* A cubeb thread or the RPC thread that waits in a callback has its
\* ServerStreamCallbacks still (server/src/server.rs, ServerStream::drop: "stream
\* must be dropped before cbs"), and no callback is sent before the client has its
\* end of the pipe (ServerStreamCallbacks.connected).
THEOREM CallbacksHold == Spec => []CallbacksSound
<1>1. LifeInv => CallbacksAlive
  <2> SUFFICES ASSUME LifeInv, NEW s \in Streams,
                      "wait" \in {apc[s], dpc[s]} \/ (spc = "opwait" /\ cur.from = s)
               PROVE  \E k \in Keys : slab[k].of = s
    BY DEF CallbacksAlive
  <2>1. CASE "wait" \in {apc[s], dpc[s]}
    BY <2>1 DEF LifeInv, StreamsOK, StreamInv, Calling
  <2>2. CASE spc = "opwait" /\ cur.from = s
    <3>1. Busy
      BY <2>2 DEF Busy
    <3>2. PICK k : k = cur.key
      OBVIOUS
    <3> QED BY <2>2, <3>1, <3>2, CurrentFacts
  <2> QED BY <2>1, <2>2
<1>2. LifeInv => OnlyConnected
  <2> SUFFICES ASSUME LifeInv, NEW s \in Streams, Pending(s) # {} \/ (\E m \in ucb : m[1] = s)
               PROVE  pipe[s] \in {"client", "closed"}
    BY DEF OnlyConnected
  <2>1. Given(s) /\ ucb \subseteq Calls /\ cbq[s] \in Seq(Kinds)
    BY WireTypes DEF LifeInv, StreamsOK, StreamInv
  <2>2. CASE Pending(s) # {}
    <3>1. cbq[s] # <<>>
      BY <2>1, <2>2 DEF Pending
    <3> QED BY <2>1, <3>1 DEF Given
  <2>3. CASE \E m \in ucb : m[1] = s
    <3>1. PICK m \in ucb : m[1] = s
      BY <2>3
    <3>2. PICK kind \in Kinds : m = <<s, kind>>
      BY <2>1, <3>1 DEF Calls
    <3>3. kind \in Runs(s)
      BY <3>1, <3>2 DEF Runs
    <3> QED BY <2>1, <3>3 DEF Given
  <2> QED BY <2>2, <2>3
<1>3. LifeInv => CallbacksSound
  BY <1>1, <1>2 DEF CallbacksSound
<1> QED BY <1>3, LifeInvariant, PTL

\* Once the server has acknowledged the unregistration of a device_changed
\* callback, the old one does not run any more, though the callback loop calls a
\* copy of it without the lock (client/src/stream.rs:149).
THEOREM ClearedIsIdle == Spec => []NoStaleDeviceChange
<1>1. LifeInv => NoStaleDeviceChange
  BY DEF LifeInv, StreamsOK, StreamInv, DeviceCalls, Cleared, NoDevice, DeviceRuns,
         NoStaleDeviceChange
<1> QED BY <1>1, LifeInvariant, PTL

\* While the context's connection is open, a stream's token names its own
\* ServerStream, initialised, from StreamCreate to StreamDestroy, whatever other
\* streams reuse slab entries (server/src/server.rs, CubebServer.streams).
THEOREM TokenIsOwn == Spec => []OwnToken
<1>1. LifeInv => OwnToken
  <2> SUFFICES ASSUME LifeInv, NEW s \in Streams, "closed" \notin {link.client, link.server}
               PROVE  /\ upc[s] \in {"bind", "live", "op", "unregister"} =>
                           Holds(s) = {token[s]} /\ slab[token[s]].stream = "some"
                      /\ upc[s] = "init" /\ ans[s] = None => Holds(s) = {token[s]}
                      /\ upc[s] = "destroy" /\ ans[s] = None => Holds(s) = {token[s]}
                      /\ upc[s] \in {"join", "done"} => Holds(s) = {}
    BY DEF OwnToken
  <2>1. CASE link.server = "none"
    BY <2>1 DEF LifeInv, LinkOK
  <2>2. CASE link.server = "open"
    BY <2>2 DEF LifeInv, LinkOK, StreamsOK, StreamInv, Phase, Owns
  <2>3. link.server \in {"none", "open", "closed"}
    BY LifeTypes DEF LifeInv
  <2> QED BY <2>1, <2>2, <2>3
<1> QED BY <1>1, LifeInvariant, PTL

\* cubeb opens a stream on the device its client chose, for any list of devices
\* and any number of enumerations: a DevIdMap handle names one devid for ever.
THEOREM DeviceIsChosen == Spec => []ChosenDevice
<1>1. LifeInv => ChosenDevice
  BY DEF LifeInv, KnownOK, ChosenDevice
<1> QED BY <1>1, LifeInvariant, PTL
=============================================================================
