--------------------------- MODULE StreamLifecycle ---------------------------
(***************************************************************************)
(* The life of one client context and its streams: ClientContext           *)
(* (client/src/context.rs), ClientStream and CallbackServer                *)
(* (client/src/stream.rs) against ServerWrapper (server/src/lib.rs),       *)
(* CubebServer, DevIdMap, ServerStream and ServerStreamCallbacks           *)
(* (server/src/server.rs).                                                 *)
(*                                                                         *)
(* Actors: the client's threads, one that makes and drops the context and  *)
(* one per stream; its callback loop; the embedder that starts and stops   *)
(* the server; the server's RPC thread; and for each stream a cubeb audio  *)
(* thread and the cubeb thread that notices that its device has changed.   *)
(* Each of them blocks: the client's threads on the RPC thread and on the  *)
(* threads they join, the callback loop on the RPC thread when it starts   *)
(* (promote_thread), the RPC thread on the callback loop (a state callback *)
(* made by cubeb from start or stop) and on cubeb's threads (destroying a  *)
(* stream, changing its device_changed callback), cubeb's threads on the   *)
(* callback loop.                                                          *)
(*                                                                         *)
(* Requests arrive in the order they were sent and are answered one by     *)
(* one, or fail once the peer is gone: RpcCore shows this of Proxy::call.  *)
(***************************************************************************)
EXTENDS Integers, Sequences

CONSTANTS
  Streams,   \* ClientStream objects, each created and destroyed once
  Keys,      \* slab keys: the tokens
  Watchers,  \* the streams that may use a device_changed callback
  Devices,   \* cubeb_devids the backend may list
  MaxLists,  \* bound on the device enumerations
  Crashes,   \* processes that may die: a subset of {"client", "server"}
  None

ASSUME StreamAssumption ==
  /\ Crashes \subseteq {"client", "server"}
  /\ Watchers \subseteq Streams
  /\ None \notin Streams \cup Keys \cup {"ctx", "loop", "ok", "err"}
  /\ {"ctx", "loop"} \cap Streams = {}
  /\ Devices \subseteq Nat \ {0}
  /\ MaxLists \in Nat
  /\ "err" \notin Keys

VARIABLES
  \* client: the application threads and the ClientStream
  upc,      \* [Streams -> client program counter]
  token,    \* ClientStream.token
  devcb,    \* device_change_cb: "set" | "clearing" (null, the server has not
            \* acknowledged) | "off" (null)
  \* client: the callback loop and its CallbackServers
  lpc,      \* "none" | "start" | "promote" (waiting for the server) | "run" |
            \* "exited"
  cbserver, \* "none" | "queued" (AddConnection sent) | "bound" | "dropped"
  ucb,      \* the user callback in progress: {} or {<<stream, kind>>}
  \* between them
  rpcq,     \* requests to the server's RPC thread, in order
  ans,      \* the answer to a thread's request: None, "ok", "err" or a token
  cbq,      \* callback requests in each stream's callback connection, in order
  cbreply,  \* callback calls that have been answered or have failed
  pipe,     \* the client end of the callback pipe: "none" | "server" (held in
            \* ServerStream.client_pipe) | "client" | "closed"
  \* server
  spc,      \* "idle" | "init" | "op" | "opwait" | "drop" | "dropall" | "gone"
  cur,      \* the request being processed
  slab,     \* CubebServer.streams: [Keys -> the ServerStream, or Vacant]
  sconn,    \* the server end of the callback pipe: "none" | "open" | "closed"
  apc,      \* the audio thread is in data_callback: "idle" | "wait"
  dpc,      \* the device thread is in device_change_callback: "idle" | "wait"
  \* the context, its connection and the server
  cpc,      \* the thread that makes, uses and drops the ClientContext
  known,    \* devices the client has been told of: <<handle, devid>>
  choice,   \* the device a stream is to open
  lists,    \* device enumerations so far (for MaxLists)
  link,     \* the ends of the context's connection: "none" | "open" | "closed"
  ready,    \* CubebContextState.context is Ok
  devidmap, \* CubebServer.devidmap
  srv,      \* ServerWrapper: "none" | "up" | "stopping" | "down"
  dead      \* processes that have died

clientVars == <<upc, token, devcb>>
loopVars   == <<lpc, cbserver, ucb>>
wireVars   == <<rpcq, cbq, cbreply, pipe>>
netVars    == <<wireVars, ans>>
serverVars == <<spc, cur, slab, sconn, apc, dpc>>
ctxVars    == <<known, choice, lists>>
lifeVars   == <<cpc, ctxVars, link, ready, devidmap, srv, dead>>
vars == <<clientVars, loopVars, netVars, serverVars, lifeVars>>

\* ServerStream: whose it is; its cubeb stream ("none", "init" while cubeb's
\* stream_init runs, "some", "dropping"); cbs.connected; whether cubeb has its
\* device_changed callback; the cubeb_devid it was opened on.
Created0(s) == [of |-> s, stream |-> "none", connected |-> FALSE, notify |-> FALSE,
                device |-> 0]
Vacant == Created0(None)
NoRequest == [from |-> None, op |-> "none", key |-> None]

\* Threads of the client that call the server.
Callers == Streams \cup {"ctx", "loop"}

\* The null devid, for the default device, is its own handle.
Default == <<0, 0>>

Init ==
  /\ upc = [s \in Streams |-> "new"]
  /\ token = [s \in Streams |-> None]
  /\ devcb = [s \in Streams |-> "off"]
  /\ lpc = "none"
  /\ cbserver = [s \in Streams |-> "none"]
  /\ ucb = {}
  /\ rpcq = <<>>
  /\ ans = [c \in Callers |-> None]
  /\ cbq = [s \in Streams |-> <<>>]
  /\ cbreply = {}
  /\ pipe = [s \in Streams |-> "none"]
  /\ spc = "idle"
  /\ cur = NoRequest
  /\ slab = [k \in Keys |-> Vacant]
  /\ sconn = [s \in Streams |-> "none"]
  /\ apc = [s \in Streams |-> "idle"]
  /\ dpc = [s \in Streams |-> "idle"]
  /\ cpc = "new"
  /\ known = {Default}
  /\ choice = [s \in Streams |-> Default]
  /\ lists = 0
  /\ link = [client |-> "none", server |-> "none"]
  /\ ready = FALSE
  /\ devidmap = <<0>>
  /\ srv = "none"
  /\ dead = {}

-----------------------------------------------------------------------------
(* The client's application threads.                                        *)

\* Proxy::call: queue the request, or fail at once if the server is gone or
\* this process's RPC loop has exited.
Send(c, op, key) ==
  IF "closed" \in {link.client, link.server}
    THEN /\ ans' = [ans EXCEPT ![c] = "err"]
         /\ UNCHANGED rpcq
    ELSE /\ rpcq' = Append(rpcq, [from |-> c, op |-> op, key |-> key])
         /\ ans' = [ans EXCEPT ![c] = None]

\* It returns with its answer.
Take(c) == ans' = [ans EXCEPT ![c] = None]

Goto(s, label) == upc' = [upc EXCEPT ![s] = label]

Alive(s, label) == "client" \notin dead /\ upc[s] = label

StreamCreate(s) ==
  /\ cpc = "live"
  /\ Alive(s, "new")
  /\ \E d \in known : choice' = [choice EXCEPT ![s] = d]
  /\ Send(s, "create", None)
  /\ Goto(s, "create")
  /\ UNCHANGED <<token, devcb, loopVars, cbq, cbreply, pipe, serverVars, cpc, known,
                 lists, link, ready, devidmap, srv, dead>>

\* send_recv!: the answer is the response expected, and not an error.
CreatedMutant(s) == ans[s] # None   \* mutant: an error taken for a token
Created(s) == ans[s] \in Keys

\* The stream exists at the server: map the shared memory and go on to
\* StreamInit.
StreamCreated(s) ==
  /\ Alive(s, "create")
  /\ Created(s)
  /\ token' = [token EXCEPT ![s] = ans[s]]
  /\ Send(s, "init", ans[s])
  /\ Goto(s, "init")
  /\ UNCHANGED <<devcb, loopVars, cbq, cbreply, pipe, serverVars, lifeVars>>

\* SharedMem::from or the duplex buffer fails; no StreamDestroy is sent.
MapFails(s) ==
  /\ Alive(s, "create")
  /\ Created(s)
  /\ Take(s)
  /\ Goto(s, "failed")
  /\ UNCHANGED <<token, devcb, loopVars, wireVars, serverVars, lifeVars>>

\* StreamCreate or StreamInit returned an error.
InitError(s) ==
  /\ "client" \notin dead
  /\ upc[s] \in {"create", "init"}
  /\ ans[s] = "err"
  /\ Take(s)
  /\ Goto(s, "failed")
  /\ UNCHANGED <<token, devcb, loopVars, wireVars, serverVars, lifeVars>>

\* bind_server blocks until the callback loop has added the connection.
BindBlocksMutant == "live"   \* mutant: bind_server_async
BindBlocks == "bind"

StreamInitialized(s) ==
  /\ Alive(s, "init")
  /\ ans[s] = "ok"
  /\ Take(s)
  /\ cbserver' = [cbserver EXCEPT ![s] = "queued"]
  /\ Goto(s, BindBlocks)
  /\ UNCHANGED <<token, devcb, lpc, ucb, wireVars, serverVars, lifeVars>>

\* start, stop, position, ... and what they return.
StreamOp(s) ==
  /\ Alive(s, "live")
  /\ Send(s, "op", token[s])
  /\ Goto(s, "op")
  /\ UNCHANGED <<token, devcb, loopVars, cbq, cbreply, pipe, serverVars, lifeVars>>

StreamOpReturn(s) ==
  /\ Alive(s, "op")
  /\ ans[s] # None
  /\ Take(s)
  /\ Goto(s, "live")
  /\ UNCHANGED <<token, devcb, loopVars, wireVars, serverVars, lifeVars>>

\* register_device_changed_callback: the callback is stored before the server is
\* asked for it, and cleared before the server is asked to stop.
RegisterDeviceChanged(s) ==
  /\ s \in Watchers
  /\ Alive(s, "live")
  /\ devcb' = [devcb EXCEPT ![s] = "set"]
  /\ Send(s, "register", token[s])
  /\ Goto(s, "op")
  /\ UNCHANGED <<token, loopVars, cbq, cbreply, pipe, serverVars, lifeVars>>

UnregisterDeviceChanged(s) ==
  /\ s \in Watchers
  /\ Alive(s, "live")
  /\ devcb' = [devcb EXCEPT ![s] = "clearing"]
  /\ Send(s, "unregister", token[s])
  /\ Goto(s, "unregister")
  /\ UNCHANGED <<token, loopVars, cbq, cbreply, pipe, serverVars, lifeVars>>

UnregisterReturn(s) ==
  /\ Alive(s, "unregister")
  /\ ans[s] # None
  /\ Take(s)
  /\ devcb' = [devcb EXCEPT ![s] = IF ans[s] = "ok" THEN "off" ELSE @]
  /\ Goto(s, "live")
  /\ UNCHANGED <<token, loopVars, wireVars, serverVars, lifeVars>>

\* ClientStream::drop: StreamDestroy, whose outcome is ignored, ...
StreamDestroy(s) ==
  /\ Alive(s, "live")
  /\ Send(s, "destroy", token[s])
  /\ Goto(s, "destroy")
  /\ UNCHANGED <<token, devcb, loopVars, cbq, cbreply, pipe, serverVars, lifeVars>>

StreamDestroyed(s) ==
  /\ Alive(s, "destroy")
  /\ ans[s] # None
  /\ Take(s)
  /\ Goto(s, "join")
  /\ UNCHANGED <<token, devcb, loopVars, wireVars, serverVars, lifeVars>>

\* ... then shutdown_rx.recv(): an error once the CallbackServer is dropped.
ShutdownSeenMutant(s) == TRUE   \* mutant: recv() left out
ShutdownSeen(s) == cbserver[s] = "dropped"

StreamDropped(s) ==
  /\ Alive(s, "join")
  /\ ShutdownSeen(s)
  /\ Goto(s, "done")
  /\ UNCHANGED <<token, devcb, loopVars, netVars, serverVars, lifeVars>>

-----------------------------------------------------------------------------
(* The client's callback loop.                                              *)

\* Before its first poll: promote_thread calls the server.
LoopStart ==
  /\ "client" \notin dead
  /\ lpc = "start"
  /\ Send("loop", "promote", None)
  /\ lpc' = "promote"
  /\ UNCHANGED <<clientVars, cbserver, ucb, cbq, cbreply, pipe, serverVars, lifeVars>>

LoopPromoted ==
  /\ "client" \notin dead
  /\ lpc = "promote"
  /\ ans["loop"] # None
  /\ Take("loop")
  /\ lpc' = "run"
  /\ UNCHANGED <<clientVars, cbserver, ucb, wireVars, serverVars, lifeVars>>

\* The callback calls waiting in s's connection.
Pending(s) == {<<s, cbq[s][i]>> : i \in 1..Len(cbq[s])}

LoopFree == "client" \notin dead /\ lpc = "run" /\ ucb = {}

\* AddConnection: the application thread's bind_server returns.
BindServer(s) ==
  /\ LoopFree
  /\ cbserver[s] = "queued"
  /\ cbserver' = [cbserver EXCEPT ![s] = "bound"]
  /\ upc' = [upc EXCEPT ![s] = IF @ = "bind" THEN "live" ELSE @]
  /\ UNCHANGED <<token, devcb, lpc, ucb, netVars, serverVars, lifeVars>>

\* AddConnection fails and drops the server and its pipe; init returns an error
\* and, again, sends no StreamDestroy.
BindServerFails(s) ==
  /\ LoopFree
  /\ cbserver[s] = "queued"
  /\ upc[s] = "bind"
  /\ cbserver' = [cbserver EXCEPT ![s] = "dropped"]
  /\ pipe' = [pipe EXCEPT ![s] = "closed"]
  /\ cbq' = [cbq EXCEPT ![s] = <<>>]
  /\ cbreply' = cbreply \cup Pending(s)
  /\ Goto(s, "failed")
  /\ UNCHANGED <<token, devcb, lpc, ucb, rpcq, ans, serverVars, lifeVars>>

\* DeviceChange with a null callback is answered at once.
NullCallback(s) == Head(cbq[s]) = "device" /\ devcb[s] # "set"

DeviceChangeIgnored(s) ==
  /\ LoopFree
  /\ cbserver[s] = "bound"
  /\ cbq[s] # <<>>
  /\ NullCallback(s)
  /\ cbq' = [cbq EXCEPT ![s] = Tail(@)]
  /\ cbreply' = IF sconn[s] = "open" THEN cbreply \cup {<<s, "device">>} ELSE cbreply
  /\ UNCHANGED <<clientVars, loopVars, rpcq, ans, pipe, serverVars, lifeVars>>

\* CallbackServer::process runs the user's callback, the device_changed one as
\* copied before the lock on it was released, ...
CallbackBegin(s) ==
  /\ LoopFree
  /\ cbserver[s] = "bound"
  /\ cbq[s] # <<>>
  /\ ~NullCallback(s)
  /\ cbq' = [cbq EXCEPT ![s] = Tail(@)]
  /\ ucb' = {<<s, Head(cbq[s])>>}
  /\ UNCHANGED <<clientVars, lpc, cbserver, rpcq, ans, cbreply, pipe, serverVars, lifeVars>>

\* ... and answers, if the server still has its end of the pipe.
CallbackEnd ==
  /\ "client" \notin dead
  /\ ucb # {}
  /\ ucb' = {}
  /\ cbreply' = cbreply \cup {m \in ucb : sconn[m[1]] = "open"}
  /\ UNCHANGED <<clientVars, lpc, cbserver, rpcq, ans, cbq, pipe, serverVars, lifeVars>>

\* The loop has read up to the end of file: the CallbackServer is dropped.
CallbackServerDrop(s) ==
  /\ LoopFree
  /\ cbserver[s] = "bound"
  /\ sconn[s] = "closed"
  /\ cbq[s] = <<>>
  /\ cbserver' = [cbserver EXCEPT ![s] = "dropped"]
  /\ pipe' = [pipe EXCEPT ![s] = "closed"]
  /\ UNCHANGED <<clientVars, lpc, ucb, rpcq, ans, cbq, cbreply, serverVars, lifeVars>>

-----------------------------------------------------------------------------
(* The server's RPC thread: CubebServer::process_msg.                        *)

Up == "server" \notin dead

\* process runs the request once with_local_context has a cubeb context.
Next1(op) == Up /\ spc = "idle" /\ rpcq # <<>> /\ Head(rpcq).op = op /\ ready

Reply(c, a) == ans' = [ans EXCEPT ![c] = a]

\* The request is over.
Idle == spc' = "idle" /\ cur' = NoRequest

\* Work on the head of the queue goes on in a later step.
Enter(label) == spc' = label /\ cur' = Head(rpcq) /\ rpcq' = Tail(rpcq)

VacantKeyMutant(k) == TRUE   \* mutant
VacantKey(k) == slab[k] = Vacant

ProcessStreamCreate ==
  /\ Next1("create")
  /\ LET s == Head(rpcq).from IN
       \E k \in {k \in Keys : VacantKey(k)} :
         /\ slab' = [slab EXCEPT ![k] = Created0(s)]
         /\ sconn' = [sconn EXCEPT ![s] = "open"]
         /\ pipe' = [pipe EXCEPT ![s] = "server"]
         /\ Reply(s, k)
  /\ rpcq' = Tail(rpcq)
  /\ UNCHANGED <<clientVars, loopVars, cbq, cbreply, spc, cur, apc, dpc, lifeVars>>

\* Parameters refused, no shared memory, no pipe, or bind_client failed.
ProcessStreamCreateFails ==
  /\ Next1("create")
  /\ Reply(Head(rpcq).from, "err")
  /\ rpcq' = Tail(rpcq)
  /\ UNCHANGED <<clientVars, loopVars, cbq, cbreply, pipe, serverVars, lifeVars>>

\* Requests that change nothing: ClientConnect, ContextGetBackendId and its
\* like, ClientDisconnect, PromoteThreadToRealTime.
ProcessPlain ==
  /\ \E op \in {"connect", "query", "disconnect", "promote"} : Next1(op)
  /\ Reply(Head(rpcq).from, "ok")
  /\ rpcq' = Tail(rpcq)
  /\ UNCHANGED <<clientVars, loopVars, cbq, cbreply, pipe, serverVars, lifeVars>>

\* streams.contains(token): an invalid token is answered with an error.
Contains(k) == slab[k] # Vacant

Refuse ==
  /\ Reply(Head(rpcq).from, "err")
  /\ rpcq' = Tail(rpcq)
  /\ UNCHANGED <<spc, cur, slab>>

\* DevIdMap: the index of a devid in the vector, which a new one is added to.
MakeHandleMutant(m, d) == <<Append(m, d), Len(m) - 1>>   \* mutant: the length before the push
MakeHandle(m, d) ==
  LET devices == IF \E i \in DOMAIN m : m[i] = d THEN m ELSE Append(m, d)
      i == CHOOSE i \in DOMAIN devices : devices[i] = d
  IN <<devices, i - 1>>

HandleToId(h) == devidmap[h + 1]

\* ContextGetDeviceEnumeration, which may fail; a list of several devices is
\* that many enumerations of one.
ProcessEnumerate ==
  /\ Next1("enumerate")
  /\ \/ \E d \in Devices :
          LET r == MakeHandle(devidmap, d) IN
          /\ devidmap' = r[1]
          /\ known' = known \cup {<<r[2], d>>}
          /\ Reply("ctx", "ok")
     \/ /\ Reply("ctx", "err")
        /\ UNCHANGED <<devidmap, known>>
  /\ rpcq' = Tail(rpcq)
  /\ UNCHANGED <<clientVars, loopVars, cbq, cbreply, pipe, serverVars, cpc, choice,
                 lists, link, ready, srv, dead>>

\* process_stream_init up to cubeb's stream_init, which may already run the
\* audio thread.
ProcessStreamInit ==
  /\ Next1("init")
  /\ LET k == Head(rpcq).key IN
       IF Contains(k) /\ slab[k].stream = "none"
         THEN /\ slab' = [slab EXCEPT ![k].stream = "init",
                                     ![k].device = HandleToId(choice[Head(rpcq).from][1])]
              /\ Enter("init")
              /\ UNCHANGED ans
         ELSE Refuse
  /\ UNCHANGED <<clientVars, loopVars, cbq, cbreply, pipe, sconn, apc, dpc, lifeVars>>

StreamInitOk ==
  /\ Up
  /\ spc = "init"
  /\ slab' = [slab EXCEPT ![cur.key].stream = "some", ![cur.key].connected = TRUE]
  /\ pipe' = [pipe EXCEPT ![cur.from] = IF "client" \in dead THEN "closed" ELSE "client"]
  /\ Reply(cur.from, "ok")
  /\ Idle
  /\ UNCHANGED <<clientVars, loopVars, rpcq, cbq, cbreply, sconn, apc, dpc, lifeVars>>

\* streams.remove: the last Proxies go, and with them the server's end of the
\* pipe; a client end still held in the ServerStream closes too.
Remove(k) ==
  LET s == slab[k].of IN
  /\ slab' = [slab EXCEPT ![k] = Vacant]
  /\ sconn' = [sconn EXCEPT ![s] = "closed"]
  /\ pipe' = [pipe EXCEPT ![s] = IF @ = "server" THEN "closed" ELSE @]

StreamInitFails ==
  /\ Up
  /\ spc = "init"
  /\ apc[cur.from] = "idle"
  /\ Remove(cur.key)
  /\ Reply(cur.from, "err")
  /\ Idle
  /\ UNCHANGED <<clientVars, loopVars, rpcq, cbq, cbreply, apc, dpc, lifeVars>>

\* try_stream! and the call of the cubeb stream's method.
StreamOps == {"op", "register", "unregister"}

ProcessStreamOp ==
  /\ \E op \in StreamOps : Next1(op)
  /\ IF Contains(Head(rpcq).key)
       THEN Enter("op") /\ UNCHANGED <<ans, slab>>
       ELSE Refuse
  /\ UNCHANGED <<clientVars, loopVars, cbq, cbreply, pipe, sconn, apc, dpc, lifeVars>>

StreamOpDone ==
  /\ Up
  /\ spc = "op"
  /\ cur.op = "op"
  /\ \E a \in {"ok", "err"} : Reply(cur.from, a)
  /\ Idle
  /\ UNCHANGED <<clientVars, loopVars, rpcq, cbq, cbreply, pipe, slab, sconn, apc, dpc, lifeVars>>

\* cubeb changes its callback when it is not inside it: the backends hold one
\* lock for both.
CallbackUnlocked(s) == dpc[s] = "idle"

\* The stream's register_device_changed_callback, which may fail.
DeviceChangedSet ==
  /\ Up
  /\ spc = "op"
  /\ cur.op # "op"
  /\ CallbackUnlocked(cur.from)
  /\ \/ /\ slab' = [slab EXCEPT ![cur.key].notify = (cur.op = "register")]
        /\ Reply(cur.from, "ok")
     \/ /\ Reply(cur.from, "err")
        /\ UNCHANGED slab
  /\ Idle
  /\ UNCHANGED <<clientVars, loopVars, rpcq, cbq, cbreply, pipe, sconn, apc, dpc, lifeVars>>

\* ServerStreamCallbacks checks `connected` before it calls the client.
ConnectedMutant(k) == TRUE   \* mutant
Connected(k) == slab[k].connected

\* cubeb calls state_callback on this thread, from within start or stop; on a
\* thread of its own it is a DataCallback.
StateCallback ==
  /\ Up
  /\ spc = "op"
  /\ cur.op = "op"
  /\ Connected(cur.key)
  /\ pipe[cur.from] # "closed"
  /\ cbq' = [cbq EXCEPT ![cur.from] = Append(@, "state")]
  /\ spc' = "opwait"
  /\ UNCHANGED <<clientVars, loopVars, rpcq, ans, cbreply, pipe, cur, slab, sconn, apc, dpc, lifeVars>>

\* The callback returns, and then the method.
StateCallbackReturn ==
  /\ Up
  /\ spc = "opwait"
  /\ <<cur.from, "state">> \in cbreply
  /\ cbreply' = cbreply \ {<<cur.from, "state">>}
  /\ \E a \in {"ok", "err"} : Reply(cur.from, a)
  /\ Idle
  /\ UNCHANGED <<clientVars, loopVars, rpcq, cbq, pipe, slab, sconn, apc, dpc, lifeVars>>

\* StreamDestroy: drop(stream) in ServerStream::drop; cubeb stops the audio
\* thread and waits for the callback it may be in.
ProcessStreamDestroy ==
  /\ Next1("destroy")
  /\ IF Contains(Head(rpcq).key)
       THEN /\ slab' = [slab EXCEPT ![Head(rpcq).key].stream = "dropping"]
            /\ Enter("drop")
            /\ UNCHANGED ans
       ELSE Refuse
  /\ UNCHANGED <<clientVars, loopVars, cbq, cbreply, pipe, sconn, apc, dpc, lifeVars>>

StreamStoppedMutant(k) == TRUE   \* mutant: cbs dropped before the stream
StreamStopped(k) == apc[slab[k].of] = "idle" /\ dpc[slab[k].of] = "idle"

\* Then the ServerStreamCallbacks are dropped.
StreamDestroyDone ==
  /\ Up
  /\ spc = "drop"
  /\ StreamStopped(cur.key)
  /\ Remove(cur.key)
  /\ Reply(cur.from, "ok")
  /\ Idle
  /\ UNCHANGED <<clientVars, loopVars, rpcq, cbq, cbreply, apc, dpc, lifeVars>>

\* The client's end of file, once its requests are processed: the connection is
\* dropped, its pipe first, then the CubebServer with its streams, one after the
\* other.
Disconnect ==
  /\ Up
  /\ link = [client |-> "closed", server |-> "open"]
  /\ spc = "idle"
  /\ rpcq = <<>>
  /\ link' = [link EXCEPT !.server = "closed"]
  /\ spc' = "dropall"
  /\ UNCHANGED <<clientVars, loopVars, netVars, cur, slab, sconn, apc, dpc, cpc, ctxVars,
                 ready, devidmap, srv, dead>>

DropOne(k) ==
  /\ Up
  /\ spc = "dropall"
  /\ slab[k] # Vacant
  /\ \A j \in Keys \ {k} : slab[j].stream # "dropping"
  /\ IF slab[k].stream = "some"
       THEN /\ slab' = [slab EXCEPT ![k].stream = "dropping"]
            /\ UNCHANGED <<sconn, pipe>>
       ELSE /\ StreamStopped(k)
            /\ Remove(k)
  /\ UNCHANGED <<clientVars, loopVars, rpcq, ans, cbq, cbreply, spc, cur, apc, dpc, lifeVars>>

DropAllDone ==
  /\ Up
  /\ spc = "dropall"
  /\ \A k \in Keys : slab[k] = Vacant
  /\ spc' = "gone"
  /\ UNCHANGED <<clientVars, loopVars, netVars, cur, slab, sconn, apc, dpc, lifeVars>>

-----------------------------------------------------------------------------
(* The server: audioipc2_server_start, new_client and stop, and the cubeb    *)
(* context of its RPC thread.                                                *)

ServerStart ==
  /\ Up
  /\ srv = "none"
  /\ srv' = "up"
  /\ UNCHANGED <<clientVars, loopVars, netVars, serverVars, cpc, ctxVars, link, ready,
                 devidmap, dead>>

\* A connected pair of pipes: one end bound to the RPC thread's loop with a
\* CubebServer, the other given to the client.
NewClient ==
  /\ Up
  /\ srv = "up"
  /\ link.server = "none"
  /\ link' = [client |-> "open", server |-> "open"]
  /\ UNCHANGED <<clientVars, loopVars, netVars, serverVars, cpc, ctxVars, ready, devidmap,
                 srv, dead>>

\* with_local_context: cubeb is initialised for the first request, and again
\* for each one until that succeeds.
ContextReady ==
  /\ Up
  /\ spc = "idle"
  /\ rpcq # <<>>
  /\ ~ready
  /\ ready' = TRUE
  /\ UNCHANGED <<clientVars, loopVars, netVars, serverVars, cpc, ctxVars, link, devidmap,
                 srv, dead>>

ContextFails ==
  /\ Up
  /\ spc = "idle"
  /\ rpcq # <<>>
  /\ ~ready
  /\ Refuse
  /\ UNCHANGED <<clientVars, loopVars, cbq, cbreply, pipe, sconn, apc, dpc, lifeVars>>

\* The client's threads whose calls fail when the connection closes.
Waiting(c) ==
  CASE c = "ctx"  -> cpc \in {"connect", "query", "list", "disconnect"}
    [] c = "loop" -> lpc = "promote"
    [] OTHER      -> upc[c] \in {"create", "init", "op", "unregister", "destroy"}

FailCallsMutant == UNCHANGED ans   \* mutant: in_flight_requests not dropped
FailCalls ==
  ans' = [c \in Callers |-> IF Waiting(c) /\ ans[c] = None THEN "err" ELSE ans[c]]

\* audioipc2_server_stop drops the ServerWrapper, its RPC thread first.
ServerStop ==
  /\ Up
  /\ srv = "up"
  /\ srv' = "stopping"
  /\ UNCHANGED <<clientVars, loopVars, netVars, serverVars, cpc, ctxVars, link, ready,
                 devidmap, dead>>

\* EventLoop::drop shuts every connection down before it drops any of them, and
\* with them their drivers.
PipeFirstMutant == UNCHANGED <<link, ans, rpcq>>   \* mutant: the pipe outlives the driver
PipeFirst ==
  /\ link' = [link EXCEPT !.server = IF @ = "none" THEN @ ELSE "closed"]
  /\ FailCalls
  /\ rpcq' = <<>>

\* The RPC thread's loop exits between two requests and its connections are
\* dropped; the requests it has not processed are lost.
RpcLoopExit ==
  /\ Up
  /\ srv = "stopping"
  /\ spc = "idle"
  /\ PipeFirst
  /\ spc' = "dropall"
  /\ UNCHANGED <<clientVars, loopVars, cbq, cbreply, pipe, cur, slab, sconn, apc, dpc, cpc,
                 ctxVars, ready, devidmap, srv, dead>>

\* The RPC thread is joined, then the callback and device collection threads,
\* whose loops wait for nobody.
ServerStopped ==
  /\ Up
  /\ srv = "stopping"
  /\ spc = "gone"
  /\ srv' = "down"
  /\ UNCHANGED <<clientVars, loopVars, netVars, serverVars, cpc, ctxVars, link, ready,
                 devidmap, dead>>

-----------------------------------------------------------------------------
(* The client's context: ContextOps::init, what uses it, and its drop.       *)

ContextAt(label) == "client" \notin dead /\ cpc = label

\* A thread that is done with one call and makes the next.
ContextCall(from, op, to) ==
  /\ ContextAt(from)
  /\ Send("ctx", op, None)
  /\ cpc' = to
  /\ UNCHANGED <<clientVars, loopVars, cbq, cbreply, pipe, serverVars, known, choice, link,
                 ready, devidmap, srv, dead>>

\* The RPC thread is started and the connection bound; then ClientConnect, whose
\* errors are ignored, as are those of ContextGetBackendId.
ContextInit ==
  /\ link.client # "none"
  /\ ContextCall("new", "connect", "connect")
  /\ UNCHANGED lists

ContextConnected ==
  /\ ans["ctx"] # None
  /\ ContextCall("connect", "query", "query")
  /\ UNCHANGED lists

\* The callback thread is started.
ContextCreated ==
  /\ ContextAt("query")
  /\ ans["ctx"] # None
  /\ Take("ctx")
  /\ lpc' = "start"
  /\ cpc' = "live"
  /\ UNCHANGED <<clientVars, cbserver, ucb, wireVars, serverVars, ctxVars, link, ready,
                 devidmap, srv, dead>>

\* It cannot be: init returns an error and drops the RPC thread.
ContextCreateFails ==
  /\ ContextAt("query")
  /\ ans["ctx"] # None
  /\ Take("ctx")
  /\ cpc' = "joinRpc"
  /\ UNCHANGED <<clientVars, loopVars, wireVars, serverVars, ctxVars, link, ready, devidmap,
                 srv, dead>>

EnumerateDevices ==
  /\ lists < MaxLists
  /\ lists' = lists + 1
  /\ ContextCall("live", "enumerate", "list")

\* What is not an enumeration changes nothing at the server either.
EnumerateReturn ==
  /\ ContextAt("list")
  /\ ans["ctx"] # None
  /\ Take("ctx")
  /\ cpc' = "live"
  /\ UNCHANGED <<clientVars, loopVars, wireVars, serverVars, ctxVars, link, ready, devidmap,
                 srv, dead>>

\* ClientContext::drop, when its streams are gone: ClientDisconnect, ...
ContextDrop ==
  /\ \A s \in Streams : upc[s] \in {"new", "done", "failed"}
  /\ ContextCall("live", "disconnect", "disconnect")
  /\ UNCHANGED lists

ContextDisconnected ==
  /\ ContextAt("disconnect")
  /\ ans["ctx"] # None
  /\ Take("ctx")
  /\ cpc' = "joinRpc"
  /\ UNCHANGED <<clientVars, loopVars, wireVars, serverVars, ctxVars, link, ready, devidmap,
                 srv, dead>>

\* ... then its fields: the RPC loop exits, its connection closes and fails the
\* callback loop's call, if that has not been answered, ...
RpcThreadJoined ==
  /\ ContextAt("joinRpc")
  /\ link' = [link EXCEPT !.client = "closed"]
  /\ FailCalls
  /\ cpc' = IF lpc = "none" THEN "dropped" ELSE "joinCallback"
  /\ UNCHANGED <<clientVars, loopVars, rpcq, cbq, cbreply, pipe, serverVars, ctxVars, ready,
                 devidmap, srv, dead>>

\* ... and the callback loop, between two callbacks.
CallbackThreadJoined ==
  /\ ContextAt("joinCallback")
  /\ LoopFree
  /\ lpc' = "exited"
  /\ cpc' = "dropped"
  /\ UNCHANGED <<clientVars, cbserver, ucb, netVars, serverVars, ctxVars, link, ready,
                 devidmap, srv, dead>>

-----------------------------------------------------------------------------
(* cubeb's threads: data_callback, state_callback, device_change_callback.  *)
(* A callback before the stream is connected, or once the client has closed *)
(* the pipe, fails and changes nothing.                                     *)

\* data_callback, or state_callback when cubeb calls it on a thread of its own:
\* each checks `connected`, calls the client and waits.
DataCallback(k) ==
  LET s == slab[k].of IN
  /\ Up
  /\ slab[k].stream \in {"init", "some"}
  /\ apc[s] = "idle"
  /\ Connected(k)
  /\ pipe[s] # "closed"
  /\ cbq' = [cbq EXCEPT ![s] = Append(@, "data")]
  /\ apc' = [apc EXCEPT ![s] = "wait"]
  /\ UNCHANGED <<clientVars, loopVars, rpcq, ans, cbreply, pipe, spc, cur, slab, sconn,
                 dpc, lifeVars>>

DataCallbackReturn(s) ==
  /\ Up
  /\ apc[s] = "wait"
  /\ <<s, "data">> \in cbreply
  /\ cbreply' = cbreply \ {<<s, "data">>}
  /\ apc' = [apc EXCEPT ![s] = "idle"]
  /\ UNCHANGED <<clientVars, loopVars, rpcq, ans, cbq, pipe, spc, cur, slab, sconn, dpc,
                 lifeVars>>

\* device_change_callback, on whatever thread cubeb notices the change: it calls
\* the client and waits.
DeviceCallMutant == "idle"   \* mutant: the answer is not waited for
DeviceCall == "wait"

DeviceChange(k) ==
  LET s == slab[k].of IN
  /\ Up
  /\ slab[k].stream = "some"
  /\ slab[k].notify
  /\ dpc[s] = "idle"
  /\ Connected(k)
  /\ pipe[s] # "closed"
  /\ <<s, "device">> \notin Pending(s)   \* bound: one at a time
  /\ cbq' = [cbq EXCEPT ![s] = Append(@, "device")]
  /\ dpc' = [dpc EXCEPT ![s] = DeviceCall]
  /\ UNCHANGED <<clientVars, loopVars, rpcq, ans, cbreply, pipe, spc, cur, slab, sconn,
                 apc, lifeVars>>

DeviceChangeReturn(s) ==
  /\ Up
  /\ dpc[s] = "wait"
  /\ <<s, "device">> \in cbreply
  /\ cbreply' = cbreply \ {<<s, "device">>}
  /\ dpc' = [dpc EXCEPT ![s] = "idle"]
  /\ UNCHANGED <<clientVars, loopVars, rpcq, ans, cbq, pipe, spc, cur, slab, sconn, apc,
                 lifeVars>>

-----------------------------------------------------------------------------
(* Crashes.                                                                 *)

\* Calls to the client that fail when its pipes close.
AbandonedCallsMutant == {}   \* mutant: the CompletionWriter is not dropped
AbandonedCalls == ucb \cup UNION {Pending(s) : s \in Streams}

\* The client process dies: its pipes close and calls to it fail.
ClientDies ==
  /\ "client" \in Crashes \ dead
  /\ dead' = dead \cup {"client"}
  /\ link' = [link EXCEPT !.client = IF @ = "none" THEN @ ELSE "closed"]
  /\ pipe' = [s \in Streams |-> IF pipe[s] = "client" THEN "closed" ELSE pipe[s]]
  /\ cbreply' = cbreply \cup {m \in AbandonedCalls : sconn[m[1]] = "open"}
  /\ cbq' = [s \in Streams |-> <<>>]
  /\ ucb' = {}
  /\ UNCHANGED <<clientVars, lpc, cbserver, rpcq, ans, serverVars, cpc, ctxVars, ready,
                 devidmap, srv>>

\* The server process dies: its pipes close and calls to it fail.  Callback
\* requests already in the client's pipes stay there.
ServerDies ==
  /\ "server" \in Crashes \ dead
  /\ dead' = dead \cup {"server"}
  /\ link' = [link EXCEPT !.server = IF @ = "none" THEN @ ELSE "closed"]
  /\ sconn' = [s \in Streams |-> IF sconn[s] = "open" THEN "closed" ELSE sconn[s]]
  /\ pipe' = [s \in Streams |-> IF pipe[s] = "server" THEN "closed" ELSE pipe[s]]
  /\ FailCalls
  /\ rpcq' = <<>>
  /\ cbreply' = {}
  /\ spc' = "gone"
  /\ cur' = NoRequest
  /\ slab' = [k \in Keys |-> Vacant]
  /\ apc' = [s \in Streams |-> "idle"]
  /\ dpc' = [s \in Streams |-> "idle"]
  /\ UNCHANGED <<clientVars, loopVars, cbq, cpc, ctxVars, ready, devidmap, srv>>

-----------------------------------------------------------------------------

Kinds == {"data", "state", "device"}

AppStep(s) ==
  \/ StreamCreated(s)
  \/ MapFails(s)
  \/ InitError(s)
  \/ StreamInitialized(s)
  \/ StreamOpReturn(s)
  \/ UnregisterReturn(s)
  \/ StreamDestroyed(s)
  \/ StreamDropped(s)

LoopStep(s) ==
  \/ BindServer(s)
  \/ BindServerFails(s)
  \/ DeviceChangeIgnored(s)
  \/ CallbackBegin(s)
  \/ CallbackServerDrop(s)

RpcThreadStep ==
  \/ ProcessStreamCreate
  \/ ProcessStreamCreateFails
  \/ ContextReady
  \/ ContextFails
  \/ ProcessPlain
  \/ ProcessEnumerate
  \/ ProcessStreamInit
  \/ StreamInitOk
  \/ StreamInitFails
  \/ ProcessStreamOp
  \/ StreamOpDone
  \/ DeviceChangedSet
  \/ StateCallbackReturn
  \/ ProcessStreamDestroy
  \/ StreamDestroyDone
  \/ Disconnect
  \/ \E k \in Keys : DropOne(k)
  \/ DropAllDone
  \/ RpcLoopExit

ContextStep ==
  \/ ContextConnected
  \/ ContextCreated
  \/ ContextCreateFails
  \/ EnumerateReturn
  \/ ContextDisconnected
  \/ RpcThreadJoined
  \/ CallbackThreadJoined

Next ==
  \/ \E s \in Streams :
       \/ StreamCreate(s)
       \/ StreamOp(s)
       \/ RegisterDeviceChanged(s)
       \/ UnregisterDeviceChanged(s)
       \/ StreamDestroy(s)
       \/ AppStep(s)
       \/ LoopStep(s)
       \/ DataCallbackReturn(s)
       \/ DeviceChangeReturn(s)
  \/ LoopStart
  \/ LoopPromoted
  \/ CallbackEnd
  \/ ContextInit
  \/ EnumerateDevices
  \/ ContextDrop
  \/ ContextStep
  \/ ServerStart
  \/ NewClient
  \/ ServerStop
  \/ ServerStopped
  \/ RpcThreadStep
  \/ StateCallback
  \/ \E k \in Keys : DataCallback(k) \/ DeviceChange(k)
  \/ ClientDies
  \/ ServerDies

Spec == Init /\ [][Next]_vars

\* Every thread goes on as long as it can, cubeb's functions and the user's
\* callbacks return.  Each poll of the callback loop serves every connection
\* that is ready, so none waits for ever while others are served: strong
\* fairness for each connection; and for the lock cubeb takes to change its
\* device_changed callback.  Each poll also looks at the loop's own requests, so
\* the RPC thread sees that it is to stop however many requests of clients
\* arrive: strong fairness for RpcLoopExit.  Nobody has to create, use or destroy a context or a
\* stream or to stop the server, and cubeb need not call back.
Fairness ==
  /\ \A s \in Streams : /\ WF_vars(AppStep(s))
                        /\ SF_vars(LoopStep(s))
                        /\ WF_vars(DataCallbackReturn(s))
                        /\ WF_vars(DeviceChangeReturn(s))
  /\ WF_vars(LoopStart)
  /\ WF_vars(LoopPromoted)
  /\ WF_vars(ContextStep)
  /\ WF_vars(ServerStopped)
  /\ WF_vars(CallbackEnd)
  /\ WF_vars(RpcThreadStep)
  /\ SF_vars(DeviceChangedSet)
  /\ SF_vars(RpcLoopExit)

FairSpec == Spec /\ Fairness

-----------------------------------------------------------------------------
(* Properties *)

ClientPcs == {"new", "create", "init", "bind", "live", "op", "unregister", "destroy",
              "join", "done", "failed"}
Calls == Streams \X Kinds
Requests == [from : Callers \cup {None},
             op : {"connect", "query", "enumerate", "disconnect", "promote", "create",
                   "init", "destroy", "none"} \cup StreamOps,
             key : Keys \cup {None}]

\* Type correctness: in particular a ClientStream's token is a slab key, never
\* an error taken for one (ClientStream::init).
TypeOK ==
  /\ upc \in [Streams -> ClientPcs]
  /\ token \in [Streams -> Keys \cup {None}]
  /\ devcb \in [Streams -> {"set", "clearing", "off"}]
  /\ lpc \in {"none", "start", "promote", "run", "exited"}
  /\ cbserver \in [Streams -> {"none", "queued", "bound", "dropped"}]
  /\ ucb \subseteq Calls
  /\ rpcq \in Seq(Requests)
  /\ ans \in [Callers -> Keys \cup {None, "ok", "err"}]
  /\ cbq \in [Streams -> Seq(Kinds)]
  /\ cbreply \subseteq Calls
  /\ pipe \in [Streams -> {"none", "server", "client", "closed"}]
  /\ spc \in {"idle", "init", "op", "opwait", "drop", "dropall", "gone"}
  /\ cur \in Requests
  /\ slab \in [Keys -> [of : Streams \cup {None},
                       stream : {"none", "init", "some", "dropping"},
                       connected : BOOLEAN, notify : BOOLEAN,
                       device : Devices \cup {0}]]
  /\ sconn \in [Streams -> {"none", "open", "closed"}]
  /\ apc \in [Streams -> {"idle", "wait"}]
  /\ dpc \in [Streams -> {"idle", "wait"}]
  /\ cpc \in {"new", "connect", "query", "live", "list", "disconnect", "joinRpc",
              "joinCallback", "dropped"}
  /\ known \subseteq (0..Len(devidmap)) \X (Devices \cup {0})
  /\ choice \in [Streams -> known]
  /\ lists \in 0..MaxLists
  /\ link \in [{"client", "server"} -> {"none", "open", "closed"}]
  /\ ready \in BOOLEAN
  /\ devidmap \in Seq(Devices \cup {0})
  /\ srv \in {"none", "up", "stopping", "down"}
  /\ dead \subseteq {"client", "server"}

\* Once ClientStream::drop or a failed init has returned, no user callback of
\* the stream is running and none can start, even if the server died in the
\* middle of one.  (client/src/stream.rs, the wait on shutdown_rx.)
NoCallbackAfterDrop ==
  \A s \in Streams : "client" \notin dead /\ upc[s] \in {"done", "failed"} =>
    /\ cbserver[s] \notin {"queued", "bound"}
    /\ \A kind \in Kinds : <<s, kind>> \notin ucb

\* A cubeb thread inside a callback still has its ServerStreamCallbacks: "stream
\* must be dropped before cbs" (server/src/server.rs, ServerStream::drop).
CallbacksAlive ==
  \A s \in Streams :
    "wait" \in {apc[s], dpc[s]} \/ (spc = "opwait" /\ cur.from = s)
      => \E k \in Keys : slab[k].of = s

\* No callback is sent before the server has given the client its end of the
\* pipe (server/src/server.rs, ServerStreamCallbacks.connected).
OnlyConnected ==
  \A s \in Streams :
    Pending(s) # {} \/ (\E m \in ucb : m[1] = s) => pipe[s] \in {"client", "closed"}

\* What a callback in progress relies on, at both ends, is there.
CallbacksSound == CallbacksAlive /\ OnlyConnected

\* Once the server has acknowledged that the device_changed callback is cleared,
\* the old one does not run any more, though the callback loop calls a copy of
\* it without the lock (client/src/stream.rs:149).  It rests on the whole chain:
\* cubeb waits for its callback, that for the client's answer, and the answer
\* comes after the user's callback.
NoStaleDeviceChange ==
  \A s \in Streams : "client" \notin dead /\ devcb[s] = "off" =>
    <<s, "device">> \notin ucb

Holds(s) == {k \in Keys : slab[k].of = s}

\* A stream's token names its own ServerStream, initialised, for as long as the
\* client may use it, whatever other streams come, fail and go, until the context's
\* connection closes; and after StreamDestroy the server keeps nothing of it.
OwnToken ==
  \A s \in Streams : "closed" \notin {link.client, link.server} =>
    /\ upc[s] \in {"bind", "live", "op", "unregister"} =>
         Holds(s) = {token[s]} /\ slab[token[s]].stream = "some"
    /\ upc[s] = "init" /\ ans[s] = None => Holds(s) = {token[s]}
    /\ upc[s] = "destroy" /\ ans[s] = None => Holds(s) = {token[s]}
    /\ upc[s] \in {"join", "done"} => Holds(s) = {}

\* The device a stream is opened on is the one the client chose from the list it
\* was given, though handles are made for one list after another while streams
\* are being created ("a unique stable value", server/src/server.rs, DevIdMap).
ChosenDevice ==
  \A k \in Keys : slab[k].stream \in {"init", "some"} =>
    slab[k].device = choice[slab[k].of][2]

\* Nothing of the server runs any more: no cubeb thread is in a callback, no
\* stream is left, and every pipe is closed, so that no call of the client can
\* wait for it.
StoppedClean ==
  srv = "down" /\ dead = {} =>
    /\ \A k \in Keys : slab[k] = Vacant
    /\ \A s \in Streams : apc[s] = "idle" /\ dpc[s] = "idle" /\ sconn[s] # "open"
    /\ link.server # "open"
    /\ \A c \in Callers : Waiting(c) => ans[c] # None

\* Every call of the application returns: creating, using and destroying a
\* stream, with callbacks under way and whichever process dies.  (The callback
\* loop, the RPC thread and the audio threads wait for one another.)
StreamCallsReturn ==
  \A s \in Streams :
    upc[s] \in {"create", "init", "bind", "op", "unregister", "destroy", "join"}
      ~> upc[s] \in {"live", "done", "failed"} \/ "client" \in dead

\* Making, using and dropping the context returns too, though its drop joins the
\* callback loop, which may still be waiting for the server.
ContextCallsReturn ==
  cpc \in {"connect", "query", "list", "disconnect", "joinRpc", "joinCallback"}
    ~> cpc \in {"live", "dropped"} \/ "client" \in dead

\* audioipc2_server_stop returns and leaves nothing behind, though the RPC thread
\* it joins waits for cubeb's threads, those for the client's callback loop, and
\* that, if it has just started, for the RPC thread.
ServerStopReturns ==
  srv = "stopping" ~> (srv = "down" /\ StoppedClean) \/ "server" \in dead

\* cubeb's threads never stay blocked in a callback.
CallbacksReturn ==
  /\ \A s \in Streams : apc[s] = "wait" ~> apc[s] = "idle"
  /\ \A s \in Watchers : dpc[s] = "wait" ~> dpc[s] = "idle"

\* Application threads, callback loop, RPC thread and cubeb's threads, each of
\* which blocks on others across both processes, all get on.
ThreadsReturn == StreamCallsReturn /\ ContextCallsReturn /\ CallbacksReturn

\* When the client is gone, dead or its context dropped, the server frees all its
\* streams, those a failed init left behind included.
Reclaimed ==
  link.client = "closed" ~> (\A k \in Keys : slab[k] = Vacant) /\ spc = "gone"

=============================================================================
