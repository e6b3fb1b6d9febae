--------------------------- MODULE HandleTransfer ---------------------------
(***************************************************************************)
(* One direction of a connection: items with or without a platform handle, *)
(* framed by LengthDelimitedCodec (codec.rs), buffered in ConnectionBuffer *)
(* (sys/mod.rs) and carried by Pipe (sys/unix, sys/windows).  The sender   *)
(* is the server: only ClientMessage has associated handles.               *)
(*                                                                         *)
(* Sent and received bytes may be split anywhere.  On Unix a handle goes   *)
(* beside the bytes, attached to the first byte of the sendmsg that        *)
(* follows its push_handle: often a byte of an earlier item.  On Windows   *)
(* it is duplicated into the receiving process before the item is encoded, *)
(* and its value travels inside the item.                                  *)
(*                                                                         *)
(* A byte is <<item, position>>; the handle of item i is i itself, so that *)
(* a handle given to the wrong item shows.                                 *)
(***************************************************************************)
EXTENDS Integers, Sequences, FiniteSets, SequencesExt

CONSTANTS
  Platforms,     \* subset of {"unix", "windows"}
  Lengths,       \* encoded lengths an item may have
  HeaderLen,     \* HEADER_LEN: MAGIC and the length
  WireSize,      \* bytes a Unix socket buffers
  QueueLimit,    \* HANDLE_QUEUE_LIMIT
  MaxItems,      \* bound: items sent
  MaxBlocked,    \* bound: sends that block while handles are queued
  NoHandle

ASSUME TransferAssumption ==
  /\ Platforms \subseteq {"unix", "windows"}
  /\ Lengths \subseteq Nat \ {0}
  /\ HeaderLen \in Nat \ {0}
  /\ WireSize \in Nat \ {0}
  /\ {QueueLimit, MaxItems, MaxBlocked} \subseteq Nat
  /\ NoHandle \notin Nat

VARIABLES
  platform,
  \* the sending Connection
  sent,       \* items produced by its Handler: [id, len, handle]
  outbuf,     \* outbound.buf
  outhandles, \* outbound.handles: the RemoteHandles not yet sent
  cmsg,       \* Pipe.cmsg: handles encoded for the next sendmsg
  selfhandles,\* inbound.handles of the sending end itself
  sconn,      \* "open" | "closed"
  sending,    \* "idle" | "loop" (in send_outbound) | "writable" (waiting for
              \* the event, with WRITABLE interest)
  blocked,    \* sends that blocked with handles queued, so far
  \* the kernel
  wire,       \* bytes under way: [byte, fds], fds being those attached to it
  \* the receiving Connection
  inbuf,      \* inbound.buf
  inhandles,  \* inbound.handles
  decoder,    \* codec state: Length, or the n of Data(n)
  rconn,      \* "open" | "closed"
  delivered,  \* items given to its Handler, with the handle each received
  \* the processes' handle tables
  sopen,      \* handles open in the sending process
  ropen       \* [handle -> how many times it is open in the receiving process]

senderVars   == <<sent, outbuf, outhandles, cmsg, selfhandles, sconn, sending,
                  blocked>>
receiverVars == <<inbuf, inhandles, decoder, rconn, delivered>>
vars == <<platform, senderVars, wire, receiverVars, sopen, ropen>>

\* State::Length; an item has at least one byte.
Length == 0

Ids == 1..MaxItems
Item == [id : Ids, len : Lengths, handle : Ids \cup {NoHandle}]

Init ==
  /\ platform \in Platforms
  /\ sent = <<>>
  /\ outbuf = <<>>
  /\ outhandles = <<>>
  /\ cmsg = <<>>
  /\ selfhandles = <<>>
  /\ sconn = "open"
  /\ sending = "idle"
  /\ blocked = 0
  /\ wire = <<>>
  /\ inbuf = <<>>
  /\ inhandles = <<>>
  /\ decoder = Length
  /\ rconn = "open"
  /\ delivered = <<>>
  /\ sopen = {}
  /\ ropen = [h \in Ids |-> 0]

\* s without its first n elements (BytesMut::advance).
Advance(s, n) == SubSeq(s, n + 1, Len(s))

HasHandle(item) == item.handle # NoHandle

-----------------------------------------------------------------------------
(* The sending Connection.                                                  *)

\* LengthDelimitedCodec::encode: MAGIC, length, payload.
Encode(item) == [k \in 1..(HeaderLen + item.len) |-> <<item.id, k>>]

\* The next item of the Handler; it answers one of the peer's requests.
Produced(len, withHandle) ==
  [id |-> Len(sent) + 1, len |-> len,
   handle |-> IF withHandle THEN Len(sent) + 1 ELSE NoHandle]

\* The bound apart, nothing limits how many items one pass of flush_outbound
\* produces: recv_inbound has handled every request it could read before it.
CanProduce ==
  /\ sconn = "open"
  /\ Len(sent) < MaxItems

\* RemoteHandle::send_to_target: DuplicateHandle into the peer process.
DuplicateToTargetMutant(item) == UNCHANGED ropen   \* mutant: not duplicated
DuplicateToTarget(item) ==
  ropen' = IF platform = "windows" /\ HasHandle(item)
             THEN [ropen EXCEPT ![item.handle] = @ + 1] ELSE ropen

\* recv_msg at the sending end: a request without handles comes in, but decode
\* and clear find in cmsg whatever a blocked send left there.
ReadRequest ==
  /\ selfhandles' = selfhandles \o cmsg
  /\ cmsg' = <<>>

\* One turn of FramedDriver::flush_outbound: take_handle, encode, push_handle.
\* In handle_event it comes after the read of the request that the item answers
\* and before send_outbound.
FlushItem(item) ==
  /\ sent' = Append(sent, item)
  /\ DuplicateToTarget(item)
  /\ outbuf' = outbuf \o Encode(item)
  /\ IF HasHandle(item)
       THEN /\ outhandles' = Append(outhandles, item.handle)
            /\ sopen' = sopen \cup {item.handle}
       ELSE UNCHANGED <<outhandles, sopen>>
  /\ ReadRequest
  /\ sending' = "loop"
  /\ UNCHANGED <<platform, sconn, blocked, wire, receiverVars>>

FlushOutbound ==
  /\ CanProduce
  /\ \E len \in Lengths, withHandle \in BOOLEAN : FlushItem(Produced(len, withHandle))

\* RemoteHandle::drop of the unsent handles: each is closed here and, if it has
\* been duplicated, in the peer process too.
DropUnsentMutant ==   \* mutant: forgotten, not dropped
  /\ outhandles' = <<>>
  /\ cmsg' = <<>>
  /\ selfhandles' = <<>>
  /\ UNCHANGED <<sopen, ropen>>
DropUnsent ==
  /\ sopen' = sopen \ ToSet(outhandles)
  /\ ropen' = IF platform = "windows"
                THEN [h \in Ids |-> IF h \in ToSet(outhandles) THEN ropen[h] - 1
                                                               ELSE ropen[h]]
                ELSE ropen
  /\ outhandles' = <<>>
  /\ cmsg' = <<>>
  /\ selfhandles' = <<>>

\* The connection is removed from the sender's loop: end of file or an error
\* from the peer, an item that cannot be encoded or whose handle cannot be
\* duplicated (its handle is closed with the others), or shutdown.
CloseSender ==
  /\ sconn = "open"
  /\ sconn' = "closed"
  /\ outbuf' = <<>>
  /\ sending' = "idle"
  /\ DropUnsent
  /\ UNCHANGED <<platform, sent, blocked, wire, receiverVars>>

\* The handles given to sendmsg: send_msg encodes the queued ones behind what
\* a blocked send left in cmsg.
Encoded == cmsg \o outhandles

\* bytes as the kernel takes them: the handles go with the first one.
Segment(bytes, fds) ==
  [i \in 1..Len(bytes) |-> [byte |-> bytes[i], fds |-> IF i = 1 THEN fds ELSE <<>>]]

\* sendmsg takes n bytes: the queued handles are sent, and closed here.
DiscardSentMutant == outhandles   \* mutant
DiscardSent == <<>>

SendUnix(n) ==
  /\ Len(wire) + n <= WireSize
  /\ wire' = wire \o Segment(SubSeq(outbuf, 1, n), Encoded)
  /\ outbuf' = Advance(outbuf, n)
  /\ outhandles' = DiscardSent
  /\ cmsg' = <<>>
  /\ sopen' = sopen \ ToSet(outhandles)

\* NamedPipe::write takes the whole buffer; mark_sent gives up the handles in
\* the peer process.
MarkSentMutant ==   \* mutant: dropped without mark_sent
  [h \in Ids |-> IF h \in ToSet(outhandles) THEN ropen[h] - 1 ELSE ropen[h]]
MarkSent == ropen

SendWindows(n) ==
  /\ n = Len(outbuf)
  /\ wire' = wire \o Segment(outbuf, <<>>)
  /\ outbuf' = <<>>
  /\ outhandles' = <<>>
  /\ sopen' = sopen \ ToSet(outhandles)
  /\ UNCHANGED cmsg

\* send_outbound: send until the buffer is empty, then clear WRITABLE.
SendMsg ==
  /\ sconn = "open"
  /\ rconn = "open"
  /\ sending = "loop"
  /\ \E n \in 1..Len(outbuf) :
       \/ /\ platform = "unix"
          /\ SendUnix(n)
          /\ UNCHANGED ropen
       \/ /\ platform = "windows"
          /\ SendWindows(n)
          /\ ropen' = MarkSent
  /\ sending' = IF outbuf' = <<>> THEN "idle" ELSE "loop"
  /\ UNCHANGED <<platform, sent, selfhandles, sconn, blocked, receiverVars>>

\* No room in the socket; on Windows, the previous write is not complete.
NoRoom == IF platform = "unix" THEN Len(wire) = WireSize ELSE wire # <<>>

\* set_writable.
SetWritableMutant == "idle"   \* mutant
SetWritable == "writable"

\* The send would block: the handles stay queued and, on Unix, stay encoded.
SendBlocked ==
  /\ sconn = "open"
  /\ rconn = "open"
  /\ sending = "loop"
  /\ NoRoom
  /\ IF platform = "unix" /\ outhandles # <<>>
       THEN /\ blocked < MaxBlocked
            /\ blocked' = blocked + 1
            /\ cmsg' = Encoded
       ELSE UNCHANGED <<blocked, cmsg>>
  /\ sending' = SetWritable
  /\ UNCHANGED <<platform, sent, outbuf, outhandles, selfhandles, sconn, wire,
                 receiverVars, sopen, ropen>>

\* The WRITABLE event, with or without a request to read first: handle_event
\* gets to send_outbound again.
WritableEvent ==
  /\ sconn = "open"
  /\ sending = "writable"
  /\ ~NoRoom
  /\ sending' = "loop"
  /\ ReadRequest \/ UNCHANGED <<selfhandles, cmsg>>
  /\ UNCHANGED <<platform, sent, outbuf, outhandles, sconn, blocked, wire,
                 receiverVars, sopen, ropen>>

-----------------------------------------------------------------------------
(* The receiving Connection.  recv_inbound reads again only when decode has *)
(* found no further item.                                                   *)

HeaderReady == decoder = Length /\ Len(inbuf) >= HeaderLen
DataReadyMutant == decoder # Length /\ Len(inbuf) > decoder   \* mutant
DataReady   == decoder # Length /\ Len(inbuf) >= decoder
Decoding    == HeaderReady \/ DataReady

\* The bytes among the first n of the wire that have fds attached.
Carriers(n) == {i \in 1..n : wire[i].fds # <<>>}

\* recvmsg stops before it would have to merge two sets of fds.
OneSet(n) == \A i, j \in Carriers(n) : i = j

\* The fds that come with the first n bytes.
FdsOf(n) == IF Carriers(n) = {} THEN <<>> ELSE wire[CHOOSE i \in Carriers(n) : TRUE].fds

\* How often h is among the handles hs.
Count(h, hs) == Cardinality({i \in 1..Len(hs) : hs[i] = h})

\* push_handle, one after the other.
PushHandlesMutant(fds) == fds \o inhandles   \* mutant: push_front
PushHandles(fds) == inhandles \o fds

RecvMsg ==
  /\ rconn = "open"
  /\ ~Decoding
  /\ \E n \in 1..Len(wire) :
       /\ OneSet(n)
       /\ inbuf' = inbuf \o [i \in 1..n |-> wire[i].byte]
       /\ inhandles' = PushHandles(FdsOf(n))
       /\ ropen' = [h \in Ids |-> ropen[h] + Count(h, FdsOf(n))]
       /\ wire' = Advance(wire, n)
  /\ UNCHANGED <<platform, senderVars, decoder, rconn, delivered, sopen>>

\* decode_length: the item whose length field is read.
DecodeLength ==
  /\ rconn = "open"
  /\ HeaderReady
  /\ decoder' = sent[inbuf[1][1]].len
  /\ inbuf' = Advance(inbuf, HeaderLen)
  /\ UNCHANGED <<platform, senderVars, wire, inhandles, rconn, delivered, sopen, ropen>>

\* State::Length again once an item is complete.
DecoderResetMutant(n) == n   \* mutant: the state is not reset
DecoderReset(n) == Length

\* decode_data, then set_local_handle: on Unix the first handle of the queue, on
\* Windows the value in the item.
LocalHandle(item) ==
  CASE ~HasHandle(item)                          -> NoHandle
    [] HasHandle(item) /\ platform = "windows"   -> item.handle
    [] HasHandle(item) /\ platform = "unix"      ->
         IF inhandles = <<>> THEN NoHandle ELSE Head(inhandles)

PopHandleMutant(item) == inhandles   \* mutant: front() for pop_front()
PopHandle(item) ==
  IF HasHandle(item) /\ platform = "unix" /\ inhandles # <<>>
    THEN Tail(inhandles) ELSE inhandles

ProcessInbound ==
  /\ rconn = "open"
  /\ DataReady
  /\ LET item == sent[inbuf[1][1]] IN
       /\ delivered' = Append(delivered, [item EXCEPT !.handle = LocalHandle(item)])
       /\ inhandles' = PopHandle(item)
  /\ inbuf' = Advance(inbuf, decoder)
  /\ decoder' = DecoderReset(decoder)
  /\ UNCHANGED <<platform, senderVars, wire, rconn, sopen, ropen>>

\* The connection is removed from the receiver's loop: end of file, with or
\* without part of an item read, an error from the Handler, or shutdown.
\* RemoteHandle::drop closes the handles still queued.
CloseReceiver ==
  /\ rconn = "open"
  /\ rconn' = "closed"
  /\ ropen' = [h \in Ids |-> ropen[h] - Count(h, inhandles)]
  /\ inhandles' = <<>>
  /\ inbuf' = <<>>
  /\ wire' = <<>>
  /\ UNCHANGED <<platform, senderVars, decoder, delivered, sopen>>

-----------------------------------------------------------------------------

\* The peer's end is seen closed: end of file, once all bytes are read.
SenderSeesClose == rconn = "closed" /\ CloseSender
ReceiverSeesClose == sconn = "closed" /\ wire = <<>> /\ ~Decoding /\ CloseReceiver

SenderStep == SendMsg \/ SendBlocked \/ WritableEvent \/ SenderSeesClose
ReceiverStep == RecvMsg \/ DecodeLength \/ ProcessInbound \/ ReceiverSeesClose

Next ==
  \/ FlushOutbound
  \/ CloseSender
  \/ CloseReceiver
  \/ SenderStep
  \/ ReceiverStep

Spec == Init /\ [][Next]_vars

\* Both loops serve a connection that is ready (RpcCore: NoLostReadable,
\* NoLostWritable); nobody has to produce an item or close the connection.
FairSpec == Spec /\ WF_vars(SenderStep) /\ WF_vars(ReceiverStep)

-----------------------------------------------------------------------------
(* Properties *)

Byte == Ids \X Nat
Cell == [byte : Byte, fds : Seq(Ids)]

\* Type correctness.
TypeOK ==
  /\ platform \in Platforms
  /\ sent \in Seq(Item)
  /\ outbuf \in Seq(Byte)
  /\ outhandles \in Seq(Ids)
  /\ cmsg \in Seq(Ids)
  /\ selfhandles \in Seq(Ids)
  /\ sconn \in {"open", "closed"}
  /\ sending \in {"idle", "loop", "writable"}
  /\ blocked \in 0..MaxBlocked
  /\ wire \in Seq(Cell)
  /\ inbuf \in Seq(Byte)
  /\ inhandles \in Seq(Ids)
  /\ decoder \in {Length} \cup Lengths
  /\ rconn \in {"open", "closed"}
  /\ delivered \in Seq(Item)
  /\ sopen \subseteq Ids
  /\ ropen \in [Ids -> Nat]

\* However the bytes are split, decode_length reads at the start of a frame (its
\* assertion on MAGIC holds) and decode_data deserialises exactly the payload of
\* the item whose length it read.  (codec.rs:94, 117)
Framed ==
  /\ HeaderReady => inbuf[1][2] = 1
  /\ DataReady =>
       LET i == inbuf[1][1] IN
       /\ decoder = sent[i].len
       /\ \A k \in 1..decoder : inbuf[k] = <<i, HeaderLen + k>>

\* Every item is delivered with the handle it was sent with, none with a stale
\* or missing one: "dequeue a handle from the connection and update the item's
\* handle" (ipccore.rs:655) pairs items and handles by their order alone.
OwnHandle == \A i \in 1..Len(delivered) : delivered[i].handle = sent[i].handle

\* A handle the receiver's Handler owns is open there: neither the sender nor a
\* dropped buffer has closed it.  On Unix nothing else is open but the handles
\* queued, so none is leaked or closed twice.  (messages.rs, RemoteHandle.)
HandlesOwned ==
  /\ \A i \in 1..Len(delivered) :
       HasHandle(delivered[i]) => ropen[delivered[i].handle] >= 1
  /\ platform = "unix" =>
       \A h \in Ids : ropen[h] = Count(h, inhandles)
                                 + Cardinality({i \in 1..Len(delivered) :
                                                  delivered[i].handle = h})

\* push_handle's assertion: never more than QueueLimit handles are queued at
\* either end.  Nothing in the code makes it so: a peer may have more requests
\* outstanding.  (The model goes on where the program panics.)  (sys/mod.rs:58)
HandleQueuesBounded ==
  Len(outhandles) <= QueueLimit /\ Len(inhandles) <= QueueLimit

\* The items sent with a handle that the receiver's Handler does not have yet.
Undelivered == {i \in 1..Len(sent) : i > Len(delivered) /\ HasHandle(sent[i])}

\* Each handle queued at either end belongs to an undelivered item of its own,
\* so push_handle's assertion can fail only when more than QueueLimit responses
\* with handles are under way at once: no handle stays behind its item, whichever
\* byte it went with.  (sys/mod.rs:58, sys/unix/mod.rs:118, ipccore.rs:655)
HandlesOutstanding ==
  Len(outhandles) + Len(inhandles) <= Cardinality(Undelivered)

\* Every item is delivered, or the connection closes.
AllDelivered ==
  \A n \in Ids : Len(sent) >= n
    ~> Len(delivered) >= n \/ "closed" \in {sconn, rconn}

\* When one end closes so does the other, and then the sending process has no
\* handle of the connection left open, and the receiving one (on Unix) only
\* those of delivered items.
HandlesReleased ==
  "closed" \in {sconn, rconn}
    ~> /\ {sconn, rconn} = {"closed"}
       /\ sopen = {}
       /\ platform = "unix" =>
            \A h \in Ids : ropen[h] > 0 => \E i \in 1..Len(delivered) : delivered[i].handle = h

\* The connection implements AbstractChannel.
Channel == INSTANCE AbstractChannel WITH open <- (rconn = "open")
ChannelSpec == Channel!Spec

=============================================================================
