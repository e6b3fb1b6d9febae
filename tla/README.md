# audioipc: TLA+ models, checks and proofs

audioipc lets a sandboxed client process use the audio library cubeb in a
server process. Requests travel over a socket pair as RPCs; audio data travels
through a shared memory area, signalled by RPCs in the other direction. This
directory models the parts that have state and threads, checks them with TLC on
small instances, and proves some of the results for all instances with TLAPS.

Source paths below are relative to `src/`.

## Inventory

| Part | Code | State | Operations | Talks to |
|---|---|---|---|---|
| RPC core | `audioipc/src/rpccore.rs` | request queue (Arc, its Weak count is the number of proxies), in-flight queues of both handlers, `Completion` per call | `Proxy::call`, `clone`, `drop`; `consume` and `produce` of `ClientHandler` and `ServerHandler` | event loop (wake), peer (frames) |
| Event loop | `audioipc/src/ipccore.rs` | slab of connections, bounded request queue, waker, poll registrations; per connection outbound buffer and interest | `add_connection`, `wake_connection`, `shutdown`, `poll`, `handle_event`, `handle_wake`, `recv_inbound`, `flush_outbound`, `send_outbound`, thread start and drop | sockets, handlers, every thread with a handle |
| Platform pipes | `audioipc/src/sys/` | kernel buffers, queues of handles and bytes (`ConnectionBuffer`), control buffer | `send_msg`, `recv_msg`, `cmsg` encoding; duplication into the peer on Windows | event loop |
| Codec, messages | `audioipc/src/codec.rs`, `messages.rs` | decoder position, `RemoteHandle`s not yet sent | `encode`, `decode`, handle association, `mark_sent`, `frame_size_in_bytes` | connection |
| Shared memory | `audioipc/src/shm.rs` | mapping and its size | `new`, `from`, `get_slice`, `get_mut_slice` | both sides of a stream |
| Streams, client | `client/src/stream.rs` | token, `CallbackServer` with area, duplex buffer and user callbacks, shutdown channel | `init`, `start` ... `drop`; data, state and device_changed callbacks | server by RPC, callback loop |
| Streams, server | `server/src/server.rs` | slab of `ServerStream` (cubeb stream, `ServerStreamCallbacks`, client pipe) | `process_stream_create`, `process_stream_init`, stream methods, destroy; `data_callback`, `state_callback`, `device_change_callback` | cubeb, client's callback loop |
| Device collection | `server/src/server.rs`, `client/src/context.rs` | list of registered servers under a mutex, cubeb's registrations, client callbacks under a mutex | register, unregister, notify, `CubebServer::drop` | cubeb's threads, clients |
| Client context | `client/src/context.rs`, `lib.rs` | RPC and callback threads, the context's proxy | `init`, queries, `register_device_collection_changed`, `drop` | server |
| Server start and stop | `server/src/lib.rs` | three event loop threads, joined in order; cubeb context of the RPC thread | `audioipc2_server_start`, `..._new_client`, `..._stop`, `with_local_context` | event loops |
| Device id map | `server/src/server.rs` | vector of device ids, one per client | `make_handle` on enumeration, `handle_to_id` on stream creation | streams, server |
| Test tools, benches | `ipctest/`, `audioipc/benches/` | - | - | - |

What is hard to get right here:

* **Lost wake-ups.** A call is pushed on one queue, the wake-up on another, and
  the poller is edge-triggered: a frame, an edge or a wake-up that nobody looks
  at any more blocks a caller for ever. Both queues are bounded.
* **Matching by order.** Nothing in a response says which request it answers;
  first in, first out through five queues is all there is.
* **Ownership as protocol.** A handler ends when the Weak count of its queue
  says that no proxy is left; a blocked caller is released when the last owner
  of its `CompletionWriter` is dropped, wherever that happens.
* **Threads waiting in a ring.** Application thread, client callback loop,
  server RPC thread and cubeb's audio threads each block on others, some with a
  mutex held.
* **Destruction under callbacks.** Streams, callbacks and registrations are
  destroyed while other threads are inside them or about to enter, and either
  process may die at any moment.
* **Handles beside the bytes.** A descriptor is received with the first byte of
  the write after it was queued, not with its message; only the order of two
  queues pairs them, while writes are split, blocked and retried.
* **Stopping in the middle.** The server's stop and the context's drop join
  threads that may at that moment be waiting for each other across processes.
* **Sizes from the other side.** The area's size, the latency and frame counts
  are computed from numbers the client chose.

Correctness, part by part: every call gets its own response or an error and
returns (RPC core); no request, edge or wake-up is forgotten, closing spreads
(event loop); no callback runs once its stream's drop has returned, callbacks
find their data alive, tokens never name another stream, everybody makes
progress (streams); a stream is opened on the device that was chosen (device id
map); contexts can be dropped and servers stopped at any time, leaving nothing
behind; every message arrives whole, once, in order and with its own handle,
and no handle leaks (pipes, codec); registered clients are notified, replaced callbacks are no
longer used, nothing registered stays behind (device collection); every slice
lies in the area (data transfer). `PROJECT.json` lists the hazards with their
lines and the properties aimed at each.

## Modules

| Module | Models | Run from |
|---|---|---|
| `AbstractRpc` | what a caller of `Proxy::call` may rely on | refined by `RpcCore` |
| `RpcCore` | `rpccore.rs` on `ipccore.rs` | `MCRpcSafety`, `MCRpcLive` (on `MCRpcCore`) |
| `AbstractChannel` | what one direction of a connection promises | refined by `HandleTransfer` |
| `HandleTransfer` | `codec.rs`, `sys/`, handles of `messages.rs` | itself |
| `DeviceCollection` | device collection notifications, both sides | `MCDeviceCollection` |
| `StreamLifecycle` | a client context, its streams and the server they live in | `MCStreamLifecycle` |
| `DataTransfer` | parameters, sizes and one stream's data callbacks, both sides | itself |
| `RpcCoreProofs`, `RpcCalls`, `RpcWakeups` | theorems about `RpcCore`: the loops, the calls, the wake-ups | - |
| `HandleTransferProofs`, `HandleOrder` | theorems about `HandleTransfer`: bytes and ownership, pairing of handles | - |
| `DeviceCollectionProofs`, `StreamLifecycleProofs`, `DataTransferProofs` | theorems about the module they are named after | - |

`DeviceCollection` and `StreamLifecycle` stand on `RpcCore`: they use an RPC as
a request answered in order, or failing once the peer is gone, which is what
`ImplementsRpc`, `CallReturns` and `CloseSpreads` say of it. `RpcCore` in turn
uses a connection as two queues of whole frames with their handles, which is what
`ChannelSpec` says of `HandleTransfer`. Definitions named
`...Mutant`, or commented as mutants, are wrong variants of the definition that
follows them; `PROJECT.json` pairs each with the property that notices it.

### RpcCore

A connection is a socket pair with a client end (`ClientHandler`) and a server
end (`ServerHandler`), each served by the loop `LoopOf` gives it. A message
`<<t, k>>` is the k-th request of thread t, and the response to it, as one
frame. A frame is in the kernel's buffer or not; `HandleTransfer` has the bytes.

A loop's program counter `lpc` follows `EventLoop::poll`: `poll` -> `events`
(each event: `recv` until it would block, `flush`, `send`) -> `requests` ->
`poll`. Every step touches one shared object. `handle_wake` is the same path
entered at `flush`. Threads do the same for `Proxy::call` (`callWake`,
`callKick`, `callWait`), `Proxy::drop` (`dropRelease`, `dropWake`, `dropKick`),
binding and stopping; a push and the `Waker::wake` after it are two steps.

| Code | Model |
|---|---|
| `ClientHandler.requests`, its Weak count | `reqs`, `proxies` |
| `ClientHandler.in_flight`, `ServerHandler.in_flight` | `infl`, `resp` |
| `Connection.outbound`, `interest` | `out`, `wint` |
| kernel buffer, pending edge | `chan`, `armed` |
| `EventLoop.requests`, `Waker` | `lq`, `waker` |
| `Completion.item`, `.writer` | `item`, `writer` |

Edges are as mio gives them: data or hang-up arriving, room appearing
while WRITABLE is wanted, and re-registration with the condition already true.
What one poll delivers for a socket depends on the poller (`SplitEvents`): epoll
makes one event of everything that is ready; kqueue and mio's `NamedPipe` make
readable and writable two events of one token, in either order. The first may have
the connection removed, and then the loop finds nothing under the token of the
second (`SpuriousEvent`). One flag per socket (`armed`) stands for the edges of both
kinds, and a poll delivers each event whose condition holds. Two flags would give
the same: before the loop polls again the handler has read until nothing is
readable and written until nothing is writable or left, so a condition that holds
at a poll has become true since and has an edge of its own.
`CloseEnds` is the drop of a pipe, its driver and its handler with all that is
in them. A peer that closed with unread data may give ECONNRESET or EOF.

### HandleTransfer

One direction of a connection, from the `Handler` that produces items to the one
that consumes them, on either platform (`platform`). The sender is the server:
only `ClientMessage` has associated handles. A byte is `<<item, position>>`, and
the handle of item i is i, so a frame read out of step or a handle given to the
wrong item shows.

| Code | Model |
|---|---|
| `outbound.buf`, `outbound.handles`, `inbound.handles` of the sender | `outbuf`, `outhandles`, `selfhandles` |
| `Pipe.cmsg` of the sender | `cmsg` |
| `inbound.buf`, `inbound.handles` of the receiver | `inbuf`, `inhandles` |
| `LengthDelimitedCodec.state` | `decoder` |
| where `handle_event` is in `send_outbound` | `sending` |
| bytes in the kernel and the descriptors attached to them | `wire` |
| handles open in each process | `sopen`, `ropen` |

`SendUnix` takes any number of bytes and attaches all queued handles to the first
one, as `sendmsg` does; `RecvMsg` takes any number of bytes but never those of
two `sendmsg` that both carried handles, as `recvmsg` does. `SendWindows` writes the whole
buffer once the previous write is complete; the handle was duplicated into the
peer when its item was encoded (`DuplicateToTarget`) and is closed there again if it is
dropped unsent (`DropUnsent`). Either end may close at any moment. The control
buffer `cmsg` is the one that a blocked send leaves filled, and that a read at
the sending end decodes (`ReadRequest`).

### DeviceCollection

Threads: each client's application thread and RPC loop, the server's RPC
thread (`jpc`, `job`) and one backend thread per direction (`npc`). The
manager's mutex (`lock`) is held across `internal_register` and across the
RPC to each client, as in the code; the client's `callbacks` mutex is held while
the user callback runs (`running`). `CubebServer::drop` makes its two
`unregister` calls in turn. The backend may refuse either direction.

### StreamLifecycle

One client context in one server. Threads:

| Thread | State | Steps |
|---|---|---|
| application, context | `cpc`, `lists`, `known` | `ContextInit` ... `ContextCreated`, enumeration, `ContextDrop`, the two joins |
| application, one per stream | `upc`, `token`, `devcb`, `choice` | `StreamCreate` ... `StreamDropped`, operations, registering device_changed |
| client callback loop | `lpc`, `cbserver`, `ucb` | start with promotion by the server, `BindServer`, callbacks |
| server RPC thread | `spc`, `cur`, `slab`, `devidmap` | one request at a time, the drop of all streams with the connection |
| cubeb, per stream | `apc`, `dpc` | data and device_changed callbacks |
| whoever runs the server | `srv` | `ServerStart`, `NewClient`, `ServerStop`, `ServerStopped` |

`pipe` says who holds the client end of the callback pipe: the `ServerStream`
until `StreamInit` succeeds, then the client. `link` is the context's own
connection. cubeb may call a data, state or device_changed callback at any time after
`stream_init` begins, and a state callback also from inside start or stop on
the RPC thread (`StateCallback`). On a thread of cubeb's own a state callback takes
the steps of a data callback, with the same `connected` check and the same
blocking call, and is a `DataCallback` too; what is left out is a state callback on a
third thread while data and device_changed callbacks of the same stream run. Destroying a stream waits for the callbacks in progress, and
changing its device_changed callback for that one (external behaviour, taken from
how `ServerStream::drop` relies on it). Either process may die between any two
steps. Every error return of the two `init`s is a step, the ones that send no
`StreamDestroy` included; `ContextReady` and `ContextFails` are the attempt to get
a cubeb context that `with_local_context` repeats for each request.

A call is one entry in `rpcq` and one answer in `ans`, taken by its caller
(`Take`). When a process dies or a connection closes, `FailCalls` and
`AbandonedCalls` answer what is outstanding with an error, as the drop of
`CompletionWriter` does. The RPC loop's exit shuts every connection down before it
drops any of them (`PipeFirst`, from `EventLoop::drop`), so a callback being waited
for in another process can end before the stream's destruction waits for it. The
order of `Connection`'s fields, pipe before driver, would do the same for one
connection at a time.

### DataTransfer

One stream, with the parameters a client may send, valid or not. Numbers are
exact; buffers hold a tag for what was last put in them. `process_stream_create`
(validation, area size), `process_stream_init` (clamp), then data callbacks: server
side, client side, user callback, return. `AreaBytes` and the rest are computed
with unbounded integers, and `AreaHoldsLatency` says that they stay below 2^31, so
the u32 arithmetic of the code does not wrap. Frame counts are 0, 1, the
latency, the count that just fits and the one that does not; the user's callback
returns a negative number, 0, all frames or one too many.

## Runs

| Run | Checks | Bounds |
|---|---|---|
| `rpc_safety` | Types, `OwnResponse`, `InFlightOrder`, `WriterOwned`, `NothingForgotten` (`NoSleepingLoop`, `NoLostReadable`, `NoLostWritable`: no request or readiness edge is lost), `NoLostWake`, `EventsOwned`, and `ImplementsRpc` (refinement of `AbstractRpc`) | readable and writable events apart, 2 threads, 3 loops of which one server's may fail, one of four scenarios: 1 connection from nothing bound, 3 calls in all, no drop after the third; a second connection bound once an end of the first has closed, so that its token is reused, 1 call per thread; a second connection bound with a proxy of the first in both threads, no drops; the client's loop stopped with binds and calls queued and in flight |
| `rpc_live` | `OperationsReturn` (`CallReturns`, `BindReturns`, `StopReturns`), `LastDropCloses`, `CloseSpreads` | three scenarios: calls over a bound connection, one per thread, where the server's loop may fail; one thread's call while the other stops the client's loop; binds from nothing while that loop is stopped |
| `device_safety` | `CallbackCurrent`, `EnabledWhenServers`, `AckedRegistered`, `NoDeadEntry`, `NotifyAll` | 2 clients, 2 registrations each, 1 notification per direction |
| `device_live` | `ThreadsReturn` (`RegisterReturns`, `NotifyReturns`) | the same, one device type |
| `stream_lifecycle` | `NoCallbackAfterDrop`, `CallbacksSound` (`CallbacksAlive`, `OnlyConnected`), `NoStaleDeviceChange`, `OwnToken`, `ChosenDevice`; `ThreadsReturn` (`StreamCallsReturn`, `ContextCallsReturn`, `CallbacksReturn`), `ServerStopReturns` (with `StoppedClean`), `Reclaimed` | three setups: two streams over 2 tokens, the server may die; one stream with a device_changed callback, either process may die and the server may be stopped; one stream on one of 2 devices, 2 enumerations |
| `handle_transfer` | `Framed`, `HandlesOwned`, `HandlesOutstanding`; `AllDelivered`, `HandlesReleased`; `ChannelSpec` (refinement of `AbstractChannel`, which includes `OwnHandle`) | both platforms, 3 items of 1 or 2 bytes with 2 bytes of header, a socket of 4 bytes, no send that blocks with a handle queued |
| `data_transfer` | `AreaHoldsLatency`, `ClampDefined`, `SlicesInBounds`, `InputIntact` | rates and channels at and beyond each limit, 2 callbacks |

The bounds, and why they are enough for the cases of interest:

* `ReqCap = 1`, `SockCap = 1` reach a full request queue and a full socket with
  two calls. The code has 32 entries and kernel-sized buffers; the guards are
  the same. `LoopCap` is 2 where a full loop queue should be rare and 3 or 4
  where it should not happen, 64 in the code.
* `SplitEvents` is on in `rpc_safety`, where the order of events matters, and off in
  `rpc_live`, where one event does the work of both.
* `MaxCalls = 2` lets a call follow one that failed or is being answered;
  two threads are enough for a race of two drops, two calls, or a bind and a
  stop.
* In `MCStreamLifecycle`, two streams over two tokens let one be created, fail or
  go while the other is alive, so that a token is reused and two callers, two
  callbacks and the callback loop's start-up meet at the RPC thread. Tokens run out
  in the model and then only `ProcessStreamCreateFails` applies; the code's slab
  grows instead. The setups are kept apart to keep the state space small: server
  stop and device lists are each checked with one stream and the shared threads,
  not with two streams at once. What a setup excludes is never a step that
  fairness asks for.
* `MaxLists = 2` and two devices let the second list add to, repeat or drop what the
  first one gave while a stream is being created on it.
* In `MCHandleTransfer`, frames of 3 and 4 bytes over a socket of 4 give reads and
  writes that end in the header, in the payload and beyond the item, and all three
  items buffered at once with up to three handles. Nothing but `MaxItems` limits
  the items under way, as nothing in the code does. `QueueLimit` (16 in the code) is 3
  there, so that no queue overflows, and 2 in `MCHandleQueueFull`, so that one may; what
  the program does after the failed assertion is not modelled. `MaxBlocked = 0` says that no send blocks with handles queued:
  what happens then is the subject of `handle_retry`, with 1.
* Two registrations per client allow a callback to be replaced or removed
  while notified; `MaxNotes = 1` per direction still gives two concurrent
  notifications.
* Behaviours end when the bounds are used up, and a program may stop using the
  library: deadlock checking is off, and "everyone waits for everyone" is
  checked as the liveness of each blocking operation instead.

The symmetry sets (threads, clients) are used for safety runs only.

### Fairness

* Loop threads and threads inside an operation keep running: `WF` of their
  steps. Starting an operation, failing and dying are never forced.
* `StreamLifecycle` has `SF` for each connection of the callback loop, since one
  `poll` handles every connection with an event before it polls again: the loop
  cannot serve one connection for ever and pass by another. For the same reason
  `RpcLoopExit` has `SF`: each poll drains the loop's own requests, however many
  requests of clients arrive. `DeviceChangedSet` has `SF` because the lock under
  which cubeb changes a callback is released after every callback.
* In `HandleTransfer` both loops serve a connection that is ready, which
  `NoLostReadable` and `NoLostWritable` show for `RpcCore`.
* User callbacks and cubeb's functions return. Without that nothing here could
  be live, and the code has no timeout for it.
* In `DeviceCollection` `WF` is enough for the mutex because registrations and
  notifications are bounded; Rust's mutex promises no more.

### Disagreements between the code and what it says

These five runs check a statement made in the repository and end in a
counterexample.

| Run | Statement | What happens |
|---|---|---|
| `proxy_drop_race` | "A ClientHandler normally lives until the last Proxy is dropped" (`rpccore.rs:146`) | Two proxies dropped at once both read a count of 2 before either is gone; neither wakes the connection and the handler stays. |
| `wake_lost` | "blocks awaiting the response" (`rpccore.rs:143`) | The loop's queue is full of other connections' requests; the wake-up is dropped silently and the call's request is never sent. |
| `handle_retry` | "`send_msg` adjusts the length of the `ConnectionBuffer` members based on the size of the successful send operation" (`sys/unix/mod.rs:95`), "dequeue a handle from the connection and update the item's handle" (`ipccore.rs:655`) | A Unix send that would block leaves its handles in the control buffer, and the next try encodes them behind those again. The peer gets each twice and gives the second copy to a later item. |
| `handle_queue_full` | `assert!(self.handles.len() < self.handles.capacity())` (`sys/mod.rs:58`) | Every request that can be read is handled before the one `flush_outbound` of the event (`ipccore.rs:463`), which queues the handle of each response before any is sent. With more `StreamCreate` requests read at once than the queue holds (17) the assertion fails; a peer may have 32 requests queued and any number in flight. |
| `manager_drop` | `assert!(self.servers.lock().unwrap().is_empty())` (`server.rs:111`) | An entry registered for INPUT and OUTPUT in one call is not removed by `CubebServer::drop`'s two separate calls. |

Three smaller points have no run of their own. A shutdown request that finds the
loop's queue full is only logged, and the join after it waits for a loop that
was not told to stop (`ipccore.rs:787`): the model does the same, and no property
covers it, since `StopReturns` speaks of requests that were queued. A data callback for no frames on a stream with output is refused
for its empty output slice before the code that skips the RPC and returns 0
(`server.rs:255` and `266`). On Windows a handle whose bytes were written
but never read stays open in the peer's process (`sys/windows/mod.rs:97`), which is
why `HandlesReleased` speaks of Unix alone there.

The passing properties exclude these cases, through the history
variables `staleDrop` and `lostWake`, device types of one direction,
`MaxBlocked` and `QueueLimit`. `staleDrop` is a little wider than its case: it has
each connection of which a `Proxy::drop` acted on a count that was outdated by
then, also where the clone or drop in between did no harm.

## Proofs

Every safety invariant that a run checks, both refinements and the action property
`NotifyAll` are proved by TLAPS for all values of the constants that meet the
module's assumption; three of them under one more condition, which the runs meet
and which the tables name. The invariants on which the theorems rest are made of
named parts, and the comment of each says what it is for. A theorem is
`Spec => []P` with `P` as listed, unless more is said.

### `RpcCore` (from `ConstantsAssumption`)

Any sets of connections and loops, any finite set of threads, any assignment of
ends to loops, any capacities of queues and sockets, any set of loops that fail
or are stopped. That an end and a loop are different things is part of the
assumption, since a thread's target is one or the other.

| Theorem | States | Rests on |
|---|---|---|
| `RpcCoreProofs!TypeCorrect` | `TypeOK`, `TargetOK` | Types alone are not inductive: a thread that wakes, binds or joins must have an end or a loop to do it to, else `TargetLoop` is meaningless |
| `LoopsLive` | `EventsOwned`, `HandlerOK`, `QueueOK`, `EmptyOK` | `LoopInv`: slab keys are given out only while requests are handled, when the batch is empty, and the open connections of a loop have different keys (`TokensOK`), so an event whose connection is gone finds its key vacant. Where a loop is in `poll` decides what its `cur` and its queue may hold (`HandlerOK`, `QueueOK`), and a closed end has nothing left (`EmptyOK`) |
| `ResponsesInOrder` | `InFlightOrder` | `LoopInv`: a frame moves only between open ends |
| `RpcCalls!WritersOwned` | `WriterOwned` | `OwnedOK`: what each handler owns is the current call of a thread still inside `call`, listed once, and no writer is without owner |
| `CallsAnswered` | `OwnResponse` | `LoopInv`, `OwnedOK` and `InFlightOrder`: the head of `in_flight` is the request the arriving response answers |
| `CallsRefine` | `ImplementsRpc` | the same, with what the server has been asked and has served (`ToServeOK`, `ServedOK`): every step is a `Call`, `Process`, `Return` of `AbstractRpc` or a stutter |
| `RpcWakeups!NothingLost`, `WakesKept` | `NothingForgotten`, `NoLostWake` | `WakeInv` |
| `SlabsSound` | `ExitedOK`, `TokensOK`, `BindOK` | `WakeInv` |

`WakeInv` is what the argument about lost wake-ups needs beside `NoLostWake` and
the three parts of `NothingForgotten`. A wake names a slab key, so the open connections of a loop
must have different keys (`TokensOK`), and nothing may be asked of a connection
before it has one (`BindOK`); a loop that has exited must have taken its
queue with it (`ExitedOK`). Edges are per socket (`IoOK`): data, room or
hang-up on an open end has an edge armed, an event fetched, or the handler at a
point from which it will still try.

### `HandleTransfer` (from `TransferAssumption`)

Both platforms, any lengths of items and header, any socket size, any number of
items, however many under way at once, and of blocked sends.

| Theorem | States | Rests on |
|---|---|---|
| `HandleTransferProofs!TypeCorrect`, `FramesIntact`, `HandlesSafe` | `TypeOK`, `Framed`, `HandlesOwned` | `TransferInv`: `inbuf`, `wire` and `outbuf` together are one piece of the stream of encoded items, from the decoder's position to the last byte produced (`StreamOK`); which handles are not yet sent (`UnsentOK`) and who has which open (`OpenOK`) |
| `HandleOrder!HandlesPaired` | `Unblocked => OwnHandle` | `OrderOK` |
| `HandlesPairedWindows` | `platform = "windows" => OwnHandle` | `TransferInv`; no restriction on sends |
| `QueuesBounded` | `Unblocked => HandlesOutstanding`, and with it `HandleQueuesBounded` as long as no more than `QueueLimit` items with handles are undelivered | both: through the two queues the handles are in the order of their items, each an undelivered one, so there are no more of them (`IncBound`) |
| `ChannelImplemented` | `NeverBlocked => (Spec => ChannelSpec)` | both, step by step: initial states, and each step a step of `AbstractChannel` or a stutter |

`OrderOK` is why pairing by order works on Unix: through `outhandles`, the wire and
`inhandles` the handles are in the order of their items, and none is behind a
byte of its own item. It holds until a `sendmsg` blocks with handles queued
(`Unblocked`: `blocked = 0`). After that the pairing can really fail, as
`handle_retry` shows, so the theorems that depend on it name this condition;
`ChannelImplemented` takes it for the whole behaviour (`NeverBlocked`:
`MaxBlocked = 0`, as `handle_transfer` does). `Framed`, `HandlesOwned` and types
hold regardless.

### `DeviceCollection` (from `DeviceCollectionAssumption`)

Any set of clients, any device types that may be registered in one call, any
number of registrations and notifications, with and without backend failures.

| Theorem | States |
|---|---|
| `TypeCorrect`, `CallbacksCurrent`, `BackendEnabled`, `RegistrationsKept` | `TypeOK`, `CallbackCurrent`, `EnabledWhenServers`, `AckedRegistered` |
| `MutexOwned` | the manager's mutex belongs to the thread inside it: RPC thread or a notifying one, never two |
| `EveryoneNotified` | `NotifyAll`, an action property |
| `DropUnregisters` | `OneDirection /\ Spec => []NoDeadEntry` |
| `ManagerEmptied` | `OneDirection /\ Spec => []ManagerEmptyAtDrop`: the assertion in the manager's drop |

`DeviceInv` says who holds the mutex (`LockOK`), that a request at the server
is the one its client waits for (`ReqOK`) and so is the one being worked on
(`JobOK`), that cubeb's callback is registered for both directions while an entry
is left, whoever holds the mutex (`EnabledOK`) and however far a call to the backend
has got (`BackendOK`), and whom a notification has told so far
(`NotifyOK`). `OneDirection` is `DevTypes \subseteq {{}, {"input"}, {"output"}}`,
as in the run: without it `NoDeadEntry` and `ManagerEmptyAtDrop` are false
(`manager_drop`). `internal_register` removes with `Vec::retain`, a filter over a
sequence of any length. Since the library's induction theorems cannot be used, what
it keeps is proved by a least counterexample, from the well-foundedness of `<` on
the natural numbers.

### `StreamLifecycle` (from `StreamAssumption`)

Any set of streams, slab tokens, devices and watched streams; either process may
die, or neither. The assumption says that names do not clash: `None`
differs from the answers and from streams, tokens and devices.

| Theorem | States |
|---|---|
| `TypeCorrect` | `TypeOK` |
| `CallbacksEnd` | `NoCallbackAfterDrop` |
| `CallbacksHold` | `CallbacksSound` |
| `ClearedIsIdle` | `NoStaleDeviceChange` |
| `TokenIsOwn` | `OwnToken` |
| `DeviceIsChosen` | `ChosenDevice` |

All come from one invariant, `LifeInv`, since the reason that a callback is safe is
spread over both processes. `LinkOK`: which ends of the connection can be open
given what the threads of both sides are doing, and that a context with streams
is connected. `RequestOK`: a request in the queue, or being processed, is that of
the stream which waits for it, once. `SlabOK`: one slab entry per stream, in the
state the request being processed has brought it to. `StreamsOK`, for each stream:
what its `ServerStream` is, by where its client is (`Phase`, as long as the RPC
thread serves; nothing is left to say when it is dropping everything); what its
`CallbackServer` is (`Server`); that a cubeb thread in a callback has a connected
`ServerStream` (`Calling`); that the client holds its end of the pipe before
anything is sent on it (`Given`); and that a device_changed call is in one place at
a time - queued, running or answered - and nowhere once the callback is taken back
(`DeviceCalls`). `KnownOK`: every handle the client knows is one
that the server's map gave, and means the same device still.

### `DataTransfer` (from `DataTransferAssumption`)

Any natural numbers as rates, channel counts, latencies and configured sizes.

`AreaSufficient`, `ClampSafe` and `SlicesSafe` state `AreaHoldsLatency`,
`ClampDefined` and `SlicesInBounds`; `AnyCallbackSafe` proves the three
when cubeb asks for any number of frames and the user returns any integer, where
the run enumerates the boundaries. The argument: validation bounds a frame
by 1020 bytes and the rate by 768000 (`FrameSizeBound`, `CreateBounds`), so one
second of the larger frame at the larger rate, rounded up, holds a second of
either direction and stays below 2^31 (`AreaBound`); from 1000 Hz on, 5 ms rounded up to
a power of two is at most a second (`LatencyBound`). The inductive
invariant `IInv` adds to the properties that every accepted phase is
validated, that the area is the estimate unless configured, that the
latency is clamped, and that no callback has returned before the stream is
initialised. `DuplexInputIntact` states `InputIntact`: by the phase of a callback,
`BufferOK` says which of its buffers hold this callback's input.
`TypeCorrect` states `TypeOK`.

### Only model-checked

* All liveness: `OperationsReturn`, `LastDropCloses`, `CloseSpreads`,
  `ThreadsReturn` of both modules, `ServerStopReturns`, `Reclaimed`,
  `AllDelivered`, `HandlesReleased`. The prover handles neither fairness nor
  `ENABLED`. `StoppedClean`, the safety part of `ServerStopReturns`, has no theorem
  of its own either.
* `OwnHandle` on Unix once a send has blocked with handles queued, and the other
  four statements that a run refutes: they are false, and a run shows it.

## Not modelled

* The layout of messages: bincode, the header's two fields, endianness. `decode` is
  modelled by how many bytes it takes and which.
* Mapping and unmapping of shared memory (`shm.rs`): system calls; who wrote
  the area last, and its bounds, are in `DataTransfer`.
* Requests of a stream or a context that only forward one cubeb function (latency,
  position, volume, rate, backend id): one operation stands for them all.
* Overlapped I/O inside mio's named pipe: external; a write is under way or
  complete.
* Several clients of one server, except in `DeviceCollection`: their streams and
  maps are separate, and they share the RPC thread as two streams do.
* Thread priorities, except that the callback loop's start-up waits for its
  promotion; logging; test tools and benches.

## Plan

The model is complete in the sense of the list above: `RpcCore` with
`AbstractRpc`, `HandleTransfer` with `AbstractChannel` below it, `StreamLifecycle`,
`DeviceCollection` and `DataTransfer` on top. The safety invariants are proved.
What is left to prove:

1. `StoppedClean` (`StreamLifecycle`): needs an invariant about the order of the
   joins in `audioipc2_server_stop` and about which pipes are closed by then.
2. `ManagerEmptyAtDrop` for types of both directions fails; a theorem about
   which entries then remain would say how far the damage goes.
3. Safety kernels of the liveness properties: that whoever waits is waited for
   (the binder's part is `BindOK`), e.g. that a stream's `shutdown_rx` always has a
   `CallbackServer` whose drop will signal it.
