------------------------------ MODULE RpcCore ------------------------------
(***************************************************************************)
(* The RPC core of audioipc: the Proxy / ClientHandler / ServerHandler of  *)
(* audioipc/src/rpccore.rs running on the EventLoop and Connection of      *)
(* audioipc/src/ipccore.rs.                                                *)
(*                                                                         *)
(* A connection c in Conns is a socket pair: its client end <<c,"client">> *)
(* is driven by a ClientHandler, its server end <<c,"server">> by a        *)
(* ServerHandler.  Each end is served by one EventLoop, LoopOf[e].         *)
(* Threads bind ends to loops, call, clone and drop Proxies, and stop      *)
(* loops.  A step of a loop or of a thread touches one shared object       *)
(* (queue, waker, socket, Weak count), so every interleaving of the real   *)
(* threads is a behaviour here.                                            *)
(*                                                                         *)
(* Messages are whole frames: <<t, k>> stands both for the k-th request of *)
(* thread t and for the server's response to it.                           *)
(***************************************************************************)
EXTENDS Integers, Sequences, FiniteSets, Functions

CONSTANTS
  Conns,      \* socket pairs
  Loops,      \* event loop threads (EventLoopThread)
  Threads,    \* application threads
  Tokens,     \* slab keys; the slab grows, so one is always vacant
  LoopOf,     \* the loop each end is bound to
  FailLoops,  \* loops whose poll() and register() may return an error
  Stoppable,  \* loops whose EventLoopThread may be dropped
  ReqCap,     \* RPC_CLIENT_INITIAL_PROXIES (32): capacity of a RequestQueue
  LoopCap,    \* EVENT_LOOP_INITIAL_CLIENTS (64): capacity of a loop's queue
  SockCap,    \* frames the kernel buffers in each direction
  SplitEvents, \* the poller gives readable and writable as separate events
              \* (kqueue, mio's NamedPipe), or one event for both (epoll)
  MaxCalls,   \* bound on the calls each thread makes
  None        \* absence of an end, a loop or a binding thread

Ends == Conns \X {"client", "server"}
Peer(e) == <<e[1], IF e[2] = "client" THEN "server" ELSE "client">>
ClientEnd(c) == <<c, "client">>
ServerEnd(c) == <<c, "server">>
Msg == Threads \X Nat

ASSUME ConstantsAssumption ==
  /\ LoopOf \in [Ends -> Loops]
  /\ FailLoops \subseteq Loops
  /\ Stoppable \subseteq Loops
  /\ ReqCap \in Nat \ {0}
  /\ LoopCap \in Nat \ {0}
  /\ SockCap \in Nat \ {0}
  /\ SplitEvents \in BOOLEAN
  /\ MaxCalls \in Nat
  /\ IsFiniteSet(Threads)
  /\ Ends \cap Loops = {}
  /\ None \notin Ends \cup Loops \cup Threads

VARIABLES
  \* Connection, per end
  conn,      \* "unbound" (a bare Pipe) | "queued" | "open" | "closed"
  tok,       \* slab key given on registration; a Proxy keeps it for good
  chan,      \* kernel buffer of frames this end has yet to receive
  out,       \* Connection.outbound
  wint,      \* Connection.interest contains WRITABLE
  armed,     \* an edge-triggered readiness event is pending in the poller
  \* handlers, per connection
  reqs,      \* ClientHandler.requests (the RequestQueue)
  infl,      \* ClientHandler.in_flight
  resp,      \* ServerHandler.in_flight
  proxies,   \* the threads owning a Proxy: the Weak count of the RequestQueue
  \* EventLoop, per loop
  lq,        \* EventLoop.requests
  waker,     \* the Waker has been signalled since the last poll
  lpc,       \* where the loop thread is
  batch,     \* events returned by the last poll and not yet handled
  cur,       \* the connection in handle_event / handle_wake
  stopping,  \* loops whose EventLoopThread is being, or has been, dropped
  \* threads
  pc,        \* where the thread is in its current operation
  tgt,       \* the end or loop the operation is about
  seen,      \* Proxy::drop's last_proxy
  reply,     \* what add_connection's mpsc channel holds
  num,       \* calls made so far
  writer,    \* Completion.writer of the current call
  item,      \* Completion.item of the latest call ({} is Option::None)
  \* history
  served,    \* per connection and thread, the calls process() has run, in order
  lostWake,  \* connections with a wake dropped because the loop's queue was full
  staleDrop  \* connections with a Proxy::drop that acted on an outdated count

endVars    == <<conn, tok, chan, out, wint, armed>>
handVars   == <<reqs, infl, resp>>
loopVars   == <<lpc, batch, cur>>
threadVars == <<pc, tgt, seen, reply, num>>
histVars   == <<lostWake, staleDrop>>
vars == <<endVars, handVars, proxies, lq, waker, loopVars, stopping,
          threadVars, writer, item, served, histVars>>

Idle == [end |-> None, wake |-> FALSE, eof |-> FALSE]

Init ==
  /\ conn = [e \in Ends |-> "unbound"]
  /\ tok = [e \in Ends |-> None]
  /\ chan = [e \in Ends |-> <<>>]
  /\ out = [e \in Ends |-> <<>>]
  /\ wint = [e \in Ends |-> FALSE]
  /\ armed = [e \in Ends |-> FALSE]
  /\ reqs = [c \in Conns |-> <<>>]
  /\ infl = [c \in Conns |-> <<>>]
  /\ resp = [c \in Conns |-> <<>>]
  /\ proxies = [c \in Conns |-> {}]
  /\ lq = [l \in Loops |-> <<>>]
  /\ waker = [l \in Loops |-> FALSE]
  /\ lpc = [l \in Loops |-> "poll"]
  /\ batch = [l \in Loops |-> {}]
  /\ cur = [l \in Loops |-> Idle]
  /\ stopping = {}
  /\ pc = [t \in Threads |-> "idle"]
  /\ tgt = [t \in Threads |-> None]
  /\ seen = [t \in Threads |-> 0]
  /\ reply = [t \in Threads |-> "none"]
  /\ num = [t \in Threads |-> 0]
  /\ writer = [t \in Threads |-> FALSE]
  /\ item = [t \in Threads |-> {}]
  /\ served = [ct \in Conns \X Threads |-> <<>>]
  /\ lostWake = {}
  /\ staleDrop = {}

-----------------------------------------------------------------------------
(* The poller, and closing connections.                                     *)

\* Readiness of a socket: data or EOF to read, room to write.  A UNIX stream
\* socket reports itself writable once three quarters of its buffer is free.
Readable(e) == chan[e] # <<>> \/ conn[Peer(e)] = "closed"
Writable(e) == 4 * Len(chan[Peer(e)]) <= SockCap \/ conn[Peer(e)] = "closed"

OpenOn(l) == {e \in Ends : conn[e] = "open" /\ LoopOf[e] = l}

\* The sockets the poller reports: pending edges whose condition still holds.
Ready(l) == {e \in OpenOn(l) : armed[e] /\ (Readable(e) \/ (wint[e] /\ Writable(e)))}

\* The calls whose CompletionWriter a ClientHandler drops when it is dropped:
\* those in flight, and those in its queue, of which it is the only owner.
OwnedInFlightOnly(c) == Range(infl[c])   \* mutant
Owned(c) == Range(infl[c]) \cup Range(reqs[c])

\* Closing the ends S gives e a hang-up edge.
NoHangUp(S, e) == FALSE   \* mutant
HangUp(S, e) == Peer(e) \in S /\ conn[e] = "open"

\* Close a set of ends: shut down and drop their Pipes, Drivers and Handlers.
\* Every CompletionWriter they own is dropped, which releases its caller; the
\* other end of each socket gets a hang-up edge.
CloseEnds(S) ==
  /\ conn' = [e \in Ends |-> IF e \in S THEN "closed" ELSE conn[e]]
  /\ chan' = [e \in Ends |-> IF e \in S THEN <<>> ELSE chan[e]]
  /\ out' = [e \in Ends |-> IF e \in S THEN <<>> ELSE out[e]]
  /\ wint' = [e \in Ends |-> wint[e] /\ e \notin S]
  /\ armed' = [e \in Ends |->
       e \notin S /\ (armed[e] \/ HangUp(S, e))]
  /\ reqs' = [c \in Conns |-> IF ClientEnd(c) \in S THEN <<>> ELSE reqs[c]]
  /\ infl' = [c \in Conns |-> IF ClientEnd(c) \in S THEN <<>> ELSE infl[c]]
  /\ resp' = [c \in Conns |-> IF ServerEnd(c) \in S THEN <<>> ELSE resp[c]]
  /\ writer' = [t \in Threads |-> writer[t] /\
       \A c \in Conns : ClientEnd(c) \in S => <<t, num[t]>> \notin Owned(c)]

-----------------------------------------------------------------------------
(* EventLoopHandle: what threads ask of a loop.                             *)

LoopGone(l) == lpc[l] = "exited"

\* RequestQueueSender::push succeeds: the loop's queue exists and has room.
CanPush(l) == ~LoopGone(l) /\ Len(lq[l]) < LoopCap

\* Requests on a loop's queue.  One shape of record for the three kinds.
AddReq(e, t) == [op |-> "add", end |-> e, tok |-> None, to |-> t]
WakeReq(k) == [op |-> "wake", end |-> None, tok |-> k, to |-> None]
StopReq == [op |-> "stop", end |-> None, tok |-> None, to |-> None]

TargetLoop(t) == IF tgt[t] \in Loops THEN tgt[t] ELSE LoopOf[tgt[t]]

\* RequestQueueSender::push onto a loop's queue, for thread t.
PushTo(l, r) == lq' = [lq EXCEPT ![l] = Append(@, r)]

\* bind_client, bind_server (sync) and bind_server_async up to the push.  The
\* Proxy of bind_client exists, and counts, from here on.
Bind(t, e, sync) ==
  /\ pc[t] = "idle"
  /\ conn[e] = "unbound"
  /\ e[2] = "client" => sync
  /\ CanPush(LoopOf[e])
  /\ PushTo(LoopOf[e], AddReq(e, IF sync THEN t ELSE None))
  /\ conn' = [conn EXCEPT ![e] = "queued"]
  /\ proxies' = IF e[2] = "client" THEN [proxies EXCEPT ![e[1]] = {t}] ELSE proxies
  /\ pc' = [pc EXCEPT ![t] = IF sync THEN "bindKick" ELSE "asyncKick"]
  /\ tgt' = [tgt EXCEPT ![t] = e]
  /\ UNCHANGED <<tok, chan, out, wint, armed, handVars, waker, loopVars,
                 stopping, seen, reply, num, writer, item, served, histVars>>

\* The push fails: the Pipe, its Driver and any Proxy are dropped.
BindFails(t, e) ==
  /\ pc[t] = "idle"
  /\ conn[e] = "unbound"
  /\ ~CanPush(LoopOf[e])
  /\ CloseEnds({e})
  /\ UNCHANGED <<tok, proxies, lq, waker, loopVars, stopping, threadVars, item,
                 served, histVars>>

\* rx.recv() returns: a token, an error, or a disconnect when the loop died.
\* A failed bind_client drops its Proxy, which has no loop handle to wake.
BindReturn(t) ==
  /\ pc[t] = "bindWait"
  /\ reply[t] # "none"
  /\ proxies' = IF reply[t] = "err" /\ tgt[t][2] = "client"
                  THEN [proxies EXCEPT ![tgt[t][1]] = @ \ {t}] ELSE proxies
  /\ pc' = [pc EXCEPT ![t] = "idle"]
  /\ tgt' = [tgt EXCEPT ![t] = None]
  /\ reply' = [reply EXCEPT ![t] = "none"]
  /\ UNCHANGED <<endVars, handVars, lq, waker, loopVars, stopping, seen, num,
                 writer, item, served, histVars>>

KickPcs == {"callKick", "dropKick", "bindKick", "asyncKick", "stopKick"}
AfterKick(p) == CASE p = "callKick" -> "callWait"
                  [] p = "bindKick" -> "bindWait"
                  [] p = "stopKick" -> "join"
                  [] OTHER -> "idle"

\* Waker::wake, after the push it announces.
Kick(t) ==
  /\ pc[t] \in KickPcs
  /\ waker' = [waker EXCEPT ![TargetLoop(t)] = TRUE]
  /\ pc' = [pc EXCEPT ![t] = AfterKick(pc[t])]
  /\ tgt' = [tgt EXCEPT ![t] = IF AfterKick(pc[t]) = "idle" THEN None ELSE @]
  /\ UNCHANGED <<endVars, handVars, proxies, lq, loopVars, stopping, seen,
                 reply, num, writer, item, served, histVars>>

\* EventLoopHandle::wake_connection for the Proxy in use.
Wake(t) ==
  /\ pc[t] \in {"callWake", "dropWake"}
  /\ CanPush(LoopOf[tgt[t]])
  /\ PushTo(LoopOf[tgt[t]], WakeReq(tok[tgt[t]]))
  /\ pc' = [pc EXCEPT ![t] = IF @ = "callWake" THEN "callKick" ELSE "dropKick"]
  /\ UNCHANGED <<endVars, handVars, proxies, waker, loopVars, stopping, tgt,
                 seen, reply, num, writer, item, served, histVars>>

\* A push that fails, because the loop is gone or its queue is full, is ignored.
WakeDropped(t) ==
  /\ pc[t] \in {"callWake", "dropWake"}
  /\ ~CanPush(LoopOf[tgt[t]])
  /\ pc' = [pc EXCEPT ![t] = IF @ = "callWake" THEN "callWait" ELSE "idle"]
  /\ tgt' = [tgt EXCEPT ![t] = IF pc[t] = "callWake" THEN @ ELSE None]
  /\ lostWake' = IF LoopGone(LoopOf[tgt[t]])
                   THEN lostWake ELSE lostWake \cup {tgt[t][1]}
  /\ UNCHANGED <<endVars, handVars, proxies, lq, waker, loopVars, stopping,
                 seen, reply, num, writer, item, served, staleDrop>>

\* EventLoopThread::drop: ask for shutdown (a failure is only logged), join.
Stop(t, l) ==
  /\ pc[t] = "idle"
  /\ l \notin stopping
  /\ stopping' = stopping \cup {l}
  /\ tgt' = [tgt EXCEPT ![t] = l]
  /\ IF CanPush(l)
       THEN pc' = [pc EXCEPT ![t] = "stopKick"] /\ PushTo(l, StopReq)
       ELSE pc' = [pc EXCEPT ![t] = "join"] /\ UNCHANGED lq
  /\ UNCHANGED <<endVars, handVars, proxies, waker, loopVars, seen, reply, num,
                 writer, item, served, histVars>>

Join(t) ==
  /\ pc[t] = "join"
  /\ LoopGone(tgt[t])
  /\ pc' = [pc EXCEPT ![t] = "idle"]
  /\ tgt' = [tgt EXCEPT ![t] = None]
  /\ UNCHANGED <<endVars, handVars, proxies, lq, waker, loopVars, stopping,
                 seen, reply, num, writer, item, served, histVars>>

-----------------------------------------------------------------------------
(* Proxy and RequestQueueSender: calls, clones and drops.                   *)

\* Proxy::call up to the push: a Completion, its writer, and the request on
\* the ClientHandler's queue.
Call(t, c) ==
  /\ pc[t] = "idle"
  /\ t \in proxies[c]
  /\ num[t] < MaxCalls
  /\ conn[ClientEnd(c)] # "closed"
  /\ Len(reqs[c]) < ReqCap
  /\ reqs' = [reqs EXCEPT ![c] = Append(@, <<t, num[t] + 1>>)]
  /\ num' = [num EXCEPT ![t] = @ + 1]
  /\ item' = [item EXCEPT ![t] = {}]
  /\ writer' = [writer EXCEPT ![t] = TRUE]
  /\ pc' = [pc EXCEPT ![t] = "callWake"]
  /\ tgt' = [tgt EXCEPT ![t] = ClientEnd(c)]
  /\ UNCHANGED <<endVars, infl, resp, proxies, lq, waker, loopVars, stopping,
                 seen, reply, served, histVars>>

\* The push fails, as the handler has been dropped or its queue is full; the
\* request is dropped, writer and all, and call returns the error.
CallFails(t, c) ==
  /\ pc[t] = "idle"
  /\ t \in proxies[c]
  /\ num[t] < MaxCalls
  /\ conn[ClientEnd(c)] = "closed" \/ Len(reqs[c]) >= ReqCap
  /\ num' = [num EXCEPT ![t] = @ + 1]
  /\ item' = [item EXCEPT ![t] = {}]
  /\ UNCHANGED <<endVars, handVars, proxies, lq, waker, loopVars, stopping, pc,
                 tgt, seen, reply, writer, served, histVars>>

\* Completion::wait returns once the writer is gone: Ok if it stored an item.
CallReturn(t) ==
  /\ pc[t] = "callWait"
  /\ ~writer[t]
  /\ pc' = [pc EXCEPT ![t] = "idle"]
  /\ tgt' = [tgt EXCEPT ![t] = None]
  /\ UNCHANGED <<endVars, handVars, proxies, lq, waker, loopVars, stopping,
                 seen, reply, num, writer, item, served, histVars>>

\* Proxy::clone by t, the clone being handed to u.
Clone(t, u, c) ==
  /\ pc[t] = "idle"
  /\ t \in proxies[c]
  /\ u \notin proxies[c]
  /\ proxies' = [proxies EXCEPT ![c] = @ \cup {u}]
  /\ UNCHANGED <<endVars, handVars, lq, waker, loopVars, stopping, threadVars,
                 writer, item, served, histVars>>

\* RequestQueueSender::live_proxies: the Weak count, 0 once the handler is gone.
LiveProxiesUnderflow(c) == Cardinality(proxies[c]) - 2   \* mutant
LiveProxies(c) == IF conn[ClientEnd(c)] = "closed" THEN 0 ELSE Cardinality(proxies[c])

\* Proxy::drop reads live_proxies() ...
DropRead(t, c) ==
  /\ pc[t] = "idle"
  /\ t \in proxies[c]
  /\ seen' = [seen EXCEPT ![t] = LiveProxies(c)]
  /\ pc' = [pc EXCEPT ![t] = "dropRelease"]
  /\ tgt' = [tgt EXCEPT ![t] = ClientEnd(c)]
  /\ UNCHANGED <<endVars, handVars, proxies, lq, waker, loopVars, stopping,
                 reply, num, writer, item, served, histVars>>

\* ... then drops `requests`, and wakes the connection if it had read 1.
DropRelease(t) ==
  /\ pc[t] = "dropRelease"
  /\ LET c == tgt[t][1] IN
     /\ proxies' = [proxies EXCEPT ![c] = @ \ {t}]
     /\ staleDrop' = IF seen[t] = Cardinality(proxies[c])
                       THEN staleDrop ELSE staleDrop \cup {c}
  /\ pc' = [pc EXCEPT ![t] = IF seen[t] = 1 THEN "dropWake" ELSE "idle"]
  /\ tgt' = [tgt EXCEPT ![t] = IF seen[t] = 1 THEN @ ELSE None]
  /\ seen' = [seen EXCEPT ![t] = 0]
  /\ UNCHANGED <<endVars, handVars, lq, waker, loopVars, stopping, reply, num,
                 writer, item, served, lostWake>>

-----------------------------------------------------------------------------
(* EventLoop::poll and the Connection methods it calls.                     *)

\* The events of the ready sockets: one for each, or one for each readiness.
Events(l) ==
  IF SplitEvents
    THEN {[end |-> e, readable |-> TRUE] : e \in {f \in Ready(l) : Readable(f)}}
           \cup {[end |-> e, readable |-> FALSE] :
                    e \in {f \in Ready(l) : wint[f] /\ Writable(f)}}
    ELSE {[end |-> e, readable |-> Readable(e)] : e \in Ready(l)}

\* Poll::poll blocks until the waker is signalled or a socket has an event,
\* and takes all of them.
Poll(l) ==
  /\ lpc[l] = "poll"
  /\ waker[l] \/ Ready(l) # {}
  /\ batch' = [batch EXCEPT ![l] = Events(l)]
  /\ armed' = [e \in Ends |-> armed[e] /\ LoopOf[e] # l]
  /\ waker' = [waker EXCEPT ![l] = FALSE]
  /\ lpc' = [lpc EXCEPT ![l] = "events"]
  /\ UNCHANGED <<conn, tok, chan, out, wint, handVars, proxies, lq, cur,
                 stopping, threadVars, writer, item, served, histVars>>

\* An event bears the token its socket was registered with: start handle_event
\* of the connection in that slot, with recv_inbound if it is_readable ...
HandleEvent(l) ==
  /\ lpc[l] = "events"
  /\ \E ev \in batch[l], e \in OpenOn(l) :
       /\ tok[e] = tok[ev.end]
       /\ batch' = [batch EXCEPT ![l] = @ \ {ev}]
       /\ cur' = [cur EXCEPT ![l] = [end |-> e, wake |-> FALSE, eof |-> FALSE]]
       /\ lpc' = [lpc EXCEPT ![l] = IF ev.readable THEN "recv" ELSE "flush"]
  /\ UNCHANGED <<endVars, handVars, proxies, lq, waker, stopping, threadVars,
                 writer, item, served, histVars>>

\* ... and nothing if an earlier event had that connection removed.
SpuriousEvent(l) ==
  /\ lpc[l] = "events"
  /\ \E ev \in batch[l] :
       /\ \A e \in OpenOn(l) : tok[e] # tok[ev.end]
       /\ batch' = [batch EXCEPT ![l] = @ \ {ev}]
  /\ UNCHANGED <<endVars, handVars, proxies, lq, waker, lpc, cur, stopping,
                 threadVars, writer, item, served, histVars>>

EventsDoneEarly(l) ==   \* mutant: requests handled before the last event
  /\ lpc[l] = "events"
  /\ lpc' = [lpc EXCEPT ![l] = "requests"]
  /\ UNCHANGED <<endVars, handVars, proxies, lq, waker, batch, cur, stopping,
                 threadVars, writer, item, served, histVars>>

EventsDone(l) ==
  /\ lpc[l] = "events"
  /\ batch[l] = {}
  /\ lpc' = [lpc EXCEPT ![l] = "requests"]
  /\ UNCHANGED <<endVars, handVars, proxies, lq, waker, batch, cur, stopping,
                 threadVars, writer, item, served, histVars>>

\* Where the loop resumes once it is finished with a connection.
Resume(l) == IF cur[l].wake THEN "requests" ELSE "events"

FinishHandling(l) ==
  /\ lpc' = [lpc EXCEPT ![l] = Resume(l)]
  /\ cur' = [cur EXCEPT ![l] = Idle]
  /\ UNCHANGED batch

\* The connection is done or failed: remove it from the slab and shut it down.
RemoveConnection(l) ==
  /\ CloseEnds({cur[l].end})
  /\ FinishHandling(l)
  /\ UNCHANGED <<tok, proxies, lq, waker, stopping, threadVars, item, served,
                 histVars>>

\* A response no request is in flight for: "request/response mismatch".
Mismatch(e) == chan[e] # <<>> /\ e[2] = "client" /\ infl[e[1]] = <<>>

TakeFrameTwice(e) ==   \* mutant: the frame stays in the inbound buffer
  chan[e] # <<>> /\ UNCHANGED <<chan, armed>>

TakeFrameQuietly(e) ==   \* mutant: no writable edge
  chan[e] # <<>> /\ chan' = [chan EXCEPT ![e] = Tail(@)] /\ UNCHANGED armed

\* recv_inbound takes a frame off the socket, which may give the other end a
\* writable edge.
TakeFrame(e) ==
  /\ chan[e] # <<>>
  /\ chan' = [chan EXCEPT ![e] = Tail(@)]
  /\ armed' = [armed EXCEPT ![Peer(e)] = @ \/
       (/\ conn[Peer(e)] = "open"
        /\ wint[Peer(e)]
        /\ 4 * (Len(chan[e]) - 1) <= SockCap)]

\* ClientHandler::consume: the oldest in-flight request gets the response.
RecvResponse(l) ==
  LET e == cur[l].end
      w == Head(infl[e[1]])[1] IN
  /\ lpc[l] = "recv"
  /\ e[2] = "client"
  /\ ~Mismatch(e)
  /\ TakeFrame(e)
  /\ infl' = [infl EXCEPT ![e[1]] = Tail(@)]
  /\ item' = [item EXCEPT ![w] = {Head(chan[e])}]
  /\ writer' = [writer EXCEPT ![w] = FALSE]
  /\ UNCHANGED <<conn, tok, out, wint, reqs, resp, proxies, lq, waker, loopVars,
                 stopping, threadVars, served, histVars>>

\* ServerHandler::consume: process the request and queue the response.
RecvRequest(l) ==
  LET e == cur[l].end
      m == Head(chan[e]) IN
  /\ lpc[l] = "recv"
  /\ e[2] = "server"
  /\ TakeFrame(e)
  /\ resp' = [resp EXCEPT ![e[1]] = Append(@, m)]
  /\ served' = [served EXCEPT ![<<e[1], m[1]>>] = Append(@, m[2])]
  /\ UNCHANGED <<conn, tok, out, wint, reqs, infl, proxies, lq, waker, loopVars,
                 stopping, threadVars, writer, item, histVars>>

RecvDoneEarly(l) ==   \* mutant: recv_inbound does not read until WouldBlock
  /\ lpc[l] = "recv"
  /\ cur' = [cur EXCEPT ![l].eof = FALSE]
  /\ lpc' = [lpc EXCEPT ![l] = "flush"]
  /\ UNCHANGED <<endVars, handVars, proxies, lq, waker, batch, stopping,
                 threadVars, writer, item, served, histVars>>

\* recv_msg would block, or reports EOF ...
RecvDone(l) ==
  LET e == cur[l].end IN
  /\ lpc[l] = "recv"
  /\ chan[e] = <<>>
  /\ cur' = [cur EXCEPT ![l].eof = conn[Peer(e)] = "closed"]
  /\ lpc' = [lpc EXCEPT ![l] = "flush"]
  /\ UNCHANGED <<endVars, handVars, proxies, lq, waker, batch, stopping,
                 threadVars, writer, item, served, histVars>>

\* ... or recv_inbound fails: a peer that closed with unread data makes
\* recv_msg report ECONNRESET, and consume may find a mismatch.
RecvFails(l) ==
  LET e == cur[l].end IN
  /\ lpc[l] = "recv"
  /\ Mismatch(e) \/ (chan[e] = <<>> /\ conn[Peer(e)] = "closed")
  /\ RemoveConnection(l)

\* in_flight.push_back
PushFront(q, m) == <<m>> \o q   \* mutant
PushBack(q, m) == Append(q, m)

\* flush_outbound: produce() hands over the next request ...
FlushRequest(l) ==
  LET e == cur[l].end
      c == e[1] IN
  /\ lpc[l] = "flush"
  /\ e[2] = "client"
  /\ proxies[c] # {}
  /\ reqs[c] # <<>>
  /\ reqs' = [reqs EXCEPT ![c] = Tail(@)]
  /\ infl' = [infl EXCEPT ![c] = PushBack(@, Head(reqs[c]))]
  /\ out' = [out EXCEPT ![e] = Append(@, Head(reqs[c]))]
  /\ UNCHANGED <<conn, tok, chan, wint, armed, resp, proxies, lq, waker,
                 loopVars, stopping, threadVars, writer, item, served, histVars>>

\* ... or the next response ...
FlushResponse(l) ==
  LET e == cur[l].end
      c == e[1] IN
  /\ lpc[l] = "flush"
  /\ e[2] = "server"
  /\ resp[c] # <<>>
  /\ resp' = [resp EXCEPT ![c] = Tail(@)]
  /\ out' = [out EXCEPT ![e] = Append(@, Head(resp[c]))]
  /\ UNCHANGED <<conn, tok, chan, wint, armed, reqs, infl, proxies, lq, waker,
                 loopVars, stopping, threadVars, writer, item, served, histVars>>

FlushDoneEarly(l) ==   \* mutant: requests may be left in the queue
  /\ lpc[l] = "flush"
  /\ cur[l].end[2] = "server" => resp[cur[l].end[1]] = <<>>
  /\ lpc' = [lpc EXCEPT ![l] = "send"]
  /\ UNCHANGED <<endVars, handVars, proxies, lq, waker, batch, cur, stopping,
                 threadVars, writer, item, served, histVars>>

\* ... or has none left ...
FlushDone(l) ==
  LET e == cur[l].end
      c == e[1] IN
  /\ lpc[l] = "flush"
  /\ IF e[2] = "client" THEN proxies[c] # {} /\ reqs[c] = <<>>
                        ELSE resp[c] = <<>>
  /\ lpc' = [lpc EXCEPT ![l] = "send"]
  /\ UNCHANGED <<endVars, handVars, proxies, lq, waker, batch, cur, stopping,
                 threadVars, writer, item, served, histVars>>

\* ... or fails, since check_live_proxies finds no Proxy left.
FlushFails(l) ==
  LET e == cur[l].end IN
  /\ lpc[l] = "flush"
  /\ e[2] = "client"
  /\ proxies[e[1]] = {}
  /\ RemoveConnection(l)

\* send_outbound: send_msg succeeds ...
SendFrame(l) ==
  LET e == cur[l].end
      p == Peer(e) IN
  /\ lpc[l] = "send"
  /\ out[e] # <<>>
  /\ conn[p] # "closed"
  /\ Len(chan[p]) < SockCap
  /\ out' = [out EXCEPT ![e] = Tail(@)]
  /\ chan' = [chan EXCEPT ![p] = Append(@, Head(out[e]))]
  /\ armed' = [armed EXCEPT ![p] = @ \/ conn[p] = "open"]
  /\ UNCHANGED <<conn, tok, wint, handVars, proxies, lq, waker, loopVars,
                 stopping, threadVars, writer, item, served, histVars>>

\* ... or would block ...
SendBlocks(l) ==
  LET e == cur[l].end
      p == Peer(e) IN
  /\ lpc[l] = "send"
  /\ out[e] # <<>>
  /\ conn[p] # "closed"
  /\ Len(chan[p]) >= SockCap
  /\ lpc' = [lpc EXCEPT ![l] = "wouldBlock"]
  /\ UNCHANGED <<endVars, handVars, proxies, lq, waker, batch, cur, stopping,
                 threadVars, writer, item, served, histVars>>

\* ... or fails with EPIPE.
SendFails(l) ==
  LET e == cur[l].end IN
  /\ lpc[l] = "send"
  /\ out[e] # <<>>
  /\ conn[Peer(e)] = "closed"
  /\ RemoveConnection(l)

\* set_writable after a send that would block.  Registering a new interest
\* gives an edge if the socket is ready at that moment.
SetWritable(l) ==
  LET e == cur[l].end IN
  /\ lpc[l] = "wouldBlock"
  /\ wint' = [wint EXCEPT ![e] = TRUE]
  /\ armed' = [armed EXCEPT ![e] = @ \/ (~wint[e] /\ (Readable(e) \/ Writable(e)))]
  /\ FinishHandling(l)
  /\ UNCHANGED <<conn, tok, chan, out, handVars, proxies, lq, waker, stopping,
                 threadVars, writer, item, served, histVars>>

\* The outbound buffer is empty: clear_writable ...
SendDone(l) ==
  LET e == cur[l].end IN
  /\ lpc[l] = "send"
  /\ out[e] = <<>>
  /\ ~cur[l].eof
  /\ wint' = [wint EXCEPT ![e] = FALSE]
  /\ armed' = [armed EXCEPT ![e] = @ \/ (wint[e] /\ Readable(e))]
  /\ FinishHandling(l)
  /\ UNCHANGED <<conn, tok, chan, out, handVars, proxies, lq, waker, stopping,
                 threadVars, writer, item, served, histVars>>

\* ... and the connection is done if recv_inbound had reached EOF.
ConnectionDone(l) ==
  /\ lpc[l] = "send"
  /\ out[cur[l].end] = <<>>
  /\ cur[l].eof
  /\ RemoveConnection(l)

-----------------------------------------------------------------------------
(* EventLoop::poll's second half: the requests threads have queued.         *)

PopRequest(l, op) ==
  /\ lpc[l] = "requests"
  /\ lq[l] # <<>>
  /\ Head(lq[l]).op = op

\* AddConnection: take a vacant slab key, register, and answer the binder.  An
\* end that is already readable gets its edge on registration.
AddConnection(l) ==
  LET r == Head(lq[l]) IN
  /\ PopRequest(l, "add")
  /\ lq' = [lq EXCEPT ![l] = Tail(@)]
  /\ \E k \in Tokens \ {tok[e] : e \in OpenOn(l)} :
       tok' = [tok EXCEPT ![r.end] = k]
  /\ conn' = [conn EXCEPT ![r.end] = "open"]
  /\ armed' = [armed EXCEPT ![r.end] = Readable(r.end)]
  /\ reply' = IF r.to = None THEN reply ELSE [reply EXCEPT ![r.to] = "ok"]
  /\ UNCHANGED <<chan, out, wint, handVars, proxies, waker, loopVars, stopping,
                 pc, tgt, seen, num, writer, item, served, histVars>>

\* Registration fails: the Pipe and its Driver are dropped.
AddConnectionFails(l) ==
  LET r == Head(lq[l]) IN
  /\ l \in FailLoops
  /\ PopRequest(l, "add")
  /\ lq' = [lq EXCEPT ![l] = Tail(@)]
  /\ CloseEnds({r.end})
  /\ reply' = IF r.to = None THEN reply ELSE [reply EXCEPT ![r.to] = "err"]
  /\ UNCHANGED <<tok, proxies, waker, loopVars, stopping, pc, tgt, seen, num,
                 item, served, histVars>>

\* WakeConnection: handle_wake on whichever connection now has the token ...
WakeConnection(l) ==
  /\ PopRequest(l, "wake")
  /\ lq' = [lq EXCEPT ![l] = Tail(@)]
  /\ \E e \in OpenOn(l) :
       /\ tok[e] = Head(lq[l]).tok
       /\ cur' = [cur EXCEPT ![l] = [end |-> e, wake |-> TRUE, eof |-> FALSE]]
  /\ lpc' = [lpc EXCEPT ![l] = "flush"]
  /\ UNCHANGED <<endVars, handVars, proxies, waker, batch, stopping, threadVars,
                 writer, item, served, histVars>>

\* ... and nothing if none has: "token not found in slab".
SpuriousWake(l) ==
  /\ PopRequest(l, "wake")
  /\ \A e \in OpenOn(l) : tok[e] # Head(lq[l]).tok
  /\ lq' = [lq EXCEPT ![l] = Tail(@)]
  /\ UNCHANGED <<endVars, handVars, proxies, waker, loopVars, stopping,
                 threadVars, writer, item, served, histVars>>

\* The AddConnection requests dropped with a loop's queue.
NoQueuedAdds(l) == {}   \* mutant: the queue outlives the loop
QueuedAdds(l) == {r \in Range(lq[l]) : r.op = "add"}

\* The loop thread ends and drops its EventLoop: every connection, registered
\* or still queued, is closed, and a binder waiting for an answer is released.
ExitLoop(l) ==
  LET adds == QueuedAdds(l) IN
  /\ CloseEnds(OpenOn(l) \cup {r.end : r \in adds})
  /\ reply' = [t \in Threads |-> IF \E r \in adds : r.to = t
                                   THEN "err" ELSE reply[t]]
  /\ lq' = [lq EXCEPT ![l] = <<>>]
  /\ waker' = [waker EXCEPT ![l] = FALSE]
  /\ lpc' = [lpc EXCEPT ![l] = "exited"]
  /\ UNCHANGED <<tok, proxies, batch, cur, stopping, pc, tgt, seen, num, item,
                 served, histVars>>

Shutdown(l) == PopRequest(l, "stop") /\ ExitLoop(l)

PollFails(l) == l \in FailLoops /\ lpc[l] = "poll" /\ ExitLoop(l)

RequestsDoneEarly(l) ==   \* mutant: one request per poll
  /\ lpc[l] = "requests"
  /\ lpc' = [lpc EXCEPT ![l] = "poll"]
  /\ UNCHANGED <<endVars, handVars, proxies, lq, waker, batch, cur, stopping,
                 threadVars, writer, item, served, histVars>>

RequestsDone(l) ==
  /\ lpc[l] = "requests"
  /\ lq[l] = <<>>
  /\ lpc' = [lpc EXCEPT ![l] = "poll"]
  /\ UNCHANGED <<endVars, handVars, proxies, lq, waker, batch, cur, stopping,
                 threadVars, writer, item, served, histVars>>

-----------------------------------------------------------------------------
LoopStep(l) ==
  \/ Poll(l) \/ HandleEvent(l) \/ SpuriousEvent(l) \/ EventsDone(l)
  \/ RecvResponse(l) \/ RecvRequest(l) \/ RecvDone(l) \/ RecvFails(l)
  \/ FlushRequest(l) \/ FlushResponse(l) \/ FlushDone(l) \/ FlushFails(l)
  \/ SendFrame(l) \/ SendBlocks(l) \/ SendFails(l)
  \/ SetWritable(l) \/ SendDone(l) \/ ConnectionDone(l)
  \/ AddConnection(l) \/ AddConnectionFails(l)
  \/ WakeConnection(l) \/ SpuriousWake(l) \/ Shutdown(l) \/ RequestsDone(l)

\* A thread continuing an operation it has begun.
ThreadStep(t) ==
  \/ Kick(t) \/ Wake(t) \/ WakeDropped(t) \/ BindReturn(t) \/ CallReturn(t)
  \/ DropRelease(t) \/ Join(t)

\* A thread beginning an operation.
Begin(t) ==
  \/ \E e \in Ends : BindFails(t, e) \/ \E sync \in BOOLEAN : Bind(t, e, sync)
  \/ \E l \in Stoppable : Stop(t, l)
  \/ \E c \in Conns : \/ Call(t, c)
                      \/ CallFails(t, c)
                      \/ DropRead(t, c)
                      \/ \E u \in Threads : Clone(t, u, c)

Next ==
  \/ \E l \in Loops : LoopStep(l) \/ PollFails(l)
  \/ \E t \in Threads : ThreadStep(t) \/ Begin(t)

Spec == Init /\ [][Next]_vars

\* Loop threads and threads inside an operation keep being scheduled; nobody
\* has to begin an operation, and nothing has to fail.
Fairness ==
  /\ \A l \in Loops : WF_vars(LoopStep(l))
  /\ \A t \in Threads : WF_vars(ThreadStep(t))

FairSpec == Spec /\ Fairness

-----------------------------------------------------------------------------
LoopPcs == {"poll", "events", "recv", "flush", "send", "wouldBlock",
            "requests", "exited"}
ThreadPcs == {"idle", "bindKick", "asyncKick", "bindWait", "callWake",
              "callKick", "callWait", "dropRelease", "dropWake", "dropKick",
              "stopKick", "join"}
Requests ==
  [op : {"add"}, end : Ends, tok : {None}, to : Threads \cup {None}]
    \cup [op : {"wake"}, end : {None}, tok : Tokens \cup {None}, to : {None}]
    \cup [op : {"stop"}, end : {None}, tok : {None}, to : {None}]

\* Every variable has the type its comment gives.
TypeOK ==
  /\ conn \in [Ends -> {"unbound", "queued", "open", "closed"}]
  /\ tok \in [Ends -> Tokens \cup {None}]
  /\ chan \in [Ends -> Seq(Msg)]
  /\ out \in [Ends -> Seq(Msg)]
  /\ wint \in [Ends -> BOOLEAN]
  /\ armed \in [Ends -> BOOLEAN]
  /\ reqs \in [Conns -> Seq(Msg)]
  /\ infl \in [Conns -> Seq(Msg)]
  /\ resp \in [Conns -> Seq(Msg)]
  /\ proxies \in [Conns -> SUBSET Threads]
  /\ lq \in [Loops -> Seq(Requests)]
  /\ waker \in [Loops -> BOOLEAN]
  /\ lpc \in [Loops -> LoopPcs]
  /\ batch \in [Loops -> SUBSET [end : Ends, readable : BOOLEAN]]
  /\ cur \in [Loops -> [end : Ends \cup {None}, wake : BOOLEAN, eof : BOOLEAN]]
  /\ stopping \in SUBSET Loops
  /\ pc \in [Threads -> ThreadPcs]
  /\ tgt \in [Threads -> Ends \cup Loops \cup {None}]
  /\ seen \in [Threads -> Nat]
  /\ reply \in [Threads -> {"none", "ok", "err"}]
  /\ num \in [Threads -> Nat]
  /\ writer \in [Threads -> BOOLEAN]
  /\ item \in [Threads -> SUBSET Msg]
  /\ served \in [Conns \X Threads -> Seq(Nat)]
  /\ lostWake \in SUBSET Conns
  /\ staleDrop \in SUBSET Conns

-----------------------------------------------------------------------------
(* Safety.                                                                  *)

\* A call returns only the server's response to that very call
\* (ClientHandler::consume pairs responses with requests by position alone).
OwnResponse == \A t \in Threads : item[t] \subseteq {<<t, num[t]>>}

\* ClientHandler.in_flight lists exactly the calls between the two handlers, in
\* the order their responses will arrive: what the client has yet to receive,
\* what the server has to send, has answered, has to receive, and what the
\* client has to send.  After the server closed, what is left to receive is
\* still a prefix of it.
Pipeline(c) == chan[ClientEnd(c)] \o out[ServerEnd(c)] \o resp[c]
                 \o chan[ServerEnd(c)] \o out[ClientEnd(c)]

InFlightOrder ==
  \A c \in Conns : conn[ClientEnd(c)] # "closed" =>
    /\ conn[ServerEnd(c)] # "closed" => infl[c] = Pipeline(c)
    /\ \A i \in DOMAIN chan[ClientEnd(c)] :
         i \in DOMAIN infl[c] /\ chan[ClientEnd(c)][i] = infl[c][i]

\* The calls whose CompletionWriter the handler of c owns, oldest first.
Writers(c) == infl[c] \o reqs[c]

\* The "Safety" argument of CompletionWriter's `unsafe impl Send`: a handler
\* owns a writer only for the current call of a thread that is still inside
\* call() on that connection, each writer exists once, and a call whose writer
\* is outstanding has it in a handler.
WriterOwned ==
  /\ \A c \in Conns : \A i \in DOMAIN Writers(c) :
       LET t == Writers(c)[i][1] IN
       /\ Writers(c)[i] = <<t, num[t]>>
       /\ writer[t]
       /\ pc[t] \in {"callWake", "callKick", "callWait"}
       /\ tgt[t] = ClientEnd(c)
       /\ \A j \in DOMAIN Writers(c) : Writers(c)[j] = Writers(c)[i] => i = j
  /\ \A t \in Threads : writer[t] =>
       \E c \in Conns : <<t, num[t]>> \in Range(Writers(c))

Handling(l, e, where) == cur[l].end = e /\ lpc[l] \in where
HasEvent(l, e) == \E ev \in batch[l] : ev.end = e

\* A ClientHandler with something to do - a queued request, or no Proxy left -
\* is about to be flushed: a thread is about to wake it, the wake is queued, or
\* the loop has yet to reach produce() in handling it.  The exceptions are a
\* wake dropped on a full queue and a Proxy::drop that saw an outdated count.
NoLostWake ==
  \A c \in Conns :
    LET e == ClientEnd(c)
        l == LoopOf[e] IN
    /\ conn[e] = "open"
    /\ c \notin lostWake
    /\ reqs[c] # <<>> \/ (proxies[c] = {} /\ c \notin staleDrop)
    => \/ \E t \in Threads : pc[t] \in {"callWake", "dropWake"} /\ tgt[t] = e
       \/ \E i \in DOMAIN lq[l] : lq[l][i] = WakeReq(tok[e])
       \/ HasEvent(l, e)
       \/ Handling(l, e, {"recv", "flush"})

\* A loop about to block in poll has no request queued, unless its waker has
\* been signalled or a thread is about to signal it (push comes before wake).
NoSleepingLoop ==
  \A l \in Loops : lq[l] # <<>> /\ lpc[l] = "poll" =>
    \/ waker[l]
    \/ \E t \in Threads : pc[t] \in KickPcs /\ TargetLoop(t) = l

\* Edge-triggered readiness is never lost: data or EOF on an open socket has an
\* event pending, fetched, or being handled by recv_inbound ...
NoLostReadable ==
  \A e \in Ends : conn[e] = "open" /\ Readable(e) =>
    \/ armed[e]
    \/ [end |-> e, readable |-> TRUE] \in batch[LoopOf[e]]
    \/ Handling(LoopOf[e], e, {"recv"})
    \/ cur[LoopOf[e]].end = e /\ cur[LoopOf[e]].eof

\* ... and unsent output outside handle_event/handle_wake is registered for
\* WRITABLE, with an event pending or fetched unless the socket is full.  A
\* response is never left in ServerHandler.in_flight.
NoLostWritable ==
  \A e \in Ends :
    LET l == LoopOf[e] IN
    /\ conn[e] = "open" /\ out[e] # <<>> /\ cur[l].end # e =>
         wint[e] /\ (armed[e] \/ HasEvent(l, e) \/ ~Writable(e))
    /\ e[2] = "server" /\ resp[e[1]] # <<>> => Handling(l, e, {"recv", "flush"})

\* Nothing that arrived at a loop - a request, data, room to send - is forgotten
\* by it, which would block the thread that waits for it for ever.
NothingForgotten == NoSleepingLoop /\ NoLostReadable /\ NoLostWritable

\* An event that outlives its connection, removed because of an earlier event
\* of the same poll, is ignored: no connection has taken over its slab key, so
\* it is never handled as an event of another one.
EventsOwned ==
  \A l \in Loops : \A ev \in batch[l], e \in OpenOn(l) :
    tok[e] = tok[ev.end] => e = ev.end

-----------------------------------------------------------------------------
(* Liveness, under FairSpec.                                                *)

CallPcs == {"callWake", "callKick", "callWait"}

\* Every call returns, unless its wake was dropped on a full loop queue or
\* nobody ever binds the server end.
CallReturns ==
  \A t \in Threads, c \in Conns :
    (pc[t] \in CallPcs /\ tgt[t] = ClientEnd(c)) ~>
      (pc[t] \notin CallPcs \/ c \in lostWake \/ conn[ServerEnd(c)] = "unbound")

\* Once its last Proxy is dropped a ClientHandler is dropped, barring a lost
\* wake and a drop that saw an outdated count.
LastDropCloses ==
  \A c \in Conns :
    (conn[ClientEnd(c)] = "open" /\ proxies[c] = {}) ~>
      (conn[ClientEnd(c)] = "closed" \/ c \in lostWake \cup staleDrop)

\* When one end of a connection closes, so does the other.
CloseSpreads ==
  \A e \in Ends : (conn[Peer(e)] = "closed" /\ conn[e] = "open") ~> conn[e] = "closed"

\* add_connection's rx.recv() always returns.
BindReturns ==
  \A t \in Threads : pc[t] \in {"bindKick", "bindWait"} ~> pc[t] = "idle"

\* EventLoopThread::drop returns once its Shutdown request has been queued.
StopReturns == \A t \in Threads : pc[t] = "stopKick" ~> pc[t] = "idle"

\* No blocking operation of Proxy, EventLoopHandle or EventLoopThread hangs,
\* whichever loop fails or is stopped meanwhile.
OperationsReturn == CallReturns /\ BindReturns /\ StopReturns

-----------------------------------------------------------------------------
(* What the source's comments say without those exceptions.                 *)

\* "A ClientHandler normally lives until the last Proxy is dropped"
\* (rpccore.rs, Proxy): dropping the last Proxy, from whatever threads, ends it.
HandlerEndsWithLastProxy ==
  \A c \in Conns :
    (conn[ClientEnd(c)] = "open" /\ proxies[c] = {}) ~> conn[ClientEnd(c)] = "closed"

\* "A Proxy `call` arranges for the supplied request to be transmitted"
\* (rpccore.rs, Proxy): a call that is waiting returns, given a server.
EveryCallReturns ==
  \A t \in Threads, c \in Conns :
    (pc[t] \in CallPcs /\ tgt[t] = ClientEnd(c)) ~>
      (pc[t] \notin CallPcs \/ conn[ServerEnd(c)] = "unbound")

-----------------------------------------------------------------------------
(* What callers may rely on: see AbstractRpc.                               *)

Rpc == INSTANCE AbstractRpc WITH
  busy <- {t \in Threads : pc[t] \in CallPcs},
  result <- [t \in Threads |-> IF pc[t] \in CallPcs THEN {} ELSE item[t]]

\* The proxies, handlers, loops and sockets together implement a remote
\* procedure call that runs at most once and answers the call it was made for.
ImplementsRpc == Rpc!Spec
=============================================================================
