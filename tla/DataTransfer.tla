---------------------------- MODULE DataTransfer ----------------------------
(***************************************************************************)
(* One stream's numbers and buffers: validation, the size of the shared    *)
(* memory area and the latency at the server (validate_stream_params,      *)
(* process_stream_create, process_stream_init), then data callbacks        *)
(* through that area: ServerStreamCallbacks::data_callback and             *)
(* CallbackServer::process.                                                *)
(*                                                                         *)
(* Input and output share the area: the server puts the input there, the   *)
(* client the output, and a duplex client copies the input away first.     *)
(* The contents of a buffer are abstracted to what was last put in it.     *)
(***************************************************************************)
EXTENDS Integers, FiniteSets

CONSTANTS
  Channels, Rates,   \* values clients ask for
  Latencies,
  Overrides,         \* the server's configured shm_area_size, 0 for none
  MaxCallbacks       \* bound on data callbacks

SampleSizes == {2, 4}       \* S16 and FLOAT32, little or big endian
NoParams == [size |-> 0, channels |-> 0, rate |-> 0]
StreamParams == [size : SampleSizes, channels : Channels, rate : Rates] \cup {NoParams}

ASSUME DataTransferAssumption ==
  /\ Channels \subseteq Nat
  /\ Rates \subseteq Nat
  /\ Latencies \subseteq Nat
  /\ Overrides \subseteq Nat
  /\ MaxCallbacks \in Nat

VARIABLES
  input, output,   \* StreamCreateParams: parameters, or NoParams
  request,         \* latency_frames
  override,        \* CubebServer.shm_area_size
  phase,           \* "create" | "init" | "ready" | "client" | "user" | "reply" | "refused"
  area,            \* shm_area_size
  latency,         \* the latency given to cubeb
  nframes,         \* of the callback in progress
  shm,             \* what the area holds: "stale" | "input" | "output"
  duplex,          \* what duplex_input holds
  read,            \* what the user's callback read as its input: "none" if it has not
  resp,            \* frames in the CallbackResp; Error is -1
  result,          \* the last callback's return value
  calls

vars == <<input, output, request, override, phase, area, latency, nframes, shm,
          duplex, read, resp, result, calls>>
config == <<input, output, request, override>>

Has(p) == p # NoParams
FrameSize(p) == p.size * p.channels          \* frame_size_in_bytes
CubebError == -1

Larger(a, b) == IF a > b THEN a ELSE b
Smaller(a, b) == IF a < b THEN a ELSE b

Init ==
  /\ input \in StreamParams
  /\ output \in StreamParams
  /\ request \in Latencies
  /\ override \in Overrides
  /\ phase = "create"
  /\ area = 0
  /\ latency = 0
  /\ nframes = 0
  /\ shm = "stale"
  /\ duplex = "stale"
  /\ read = "none"
  /\ resp = 0
  /\ result = 0
  /\ calls = 0

-----------------------------------------------------------------------------
(* StreamCreate and StreamInit at the server.                               *)

MinRateMutant == 1   \* mutant
MinRate == 1000
MaxRate == 768000
MaxChannels == 255

ValidParams(p) ==
  /\ p.channels \in 1..MaxChannels
  /\ p.rate \in MinRate..MaxRate

\* Rate and format of a duplex stream must agree.
ValidDuplex == input.rate = output.rate /\ input.size = output.size

ValidCreate ==
  /\ Has(input) \/ Has(output)
  /\ Has(input) => ValidParams(input)
  /\ Has(output) => ValidParams(output)
  /\ Has(input) /\ Has(output) => ValidDuplex

\* One second of audio in u32 arithmetic, rounded up to 64 kB.
AreaBytesMutant == Larger(input.rate, output.rate) * FrameSize(output)   \* mutant
AreaBytes == Larger(input.rate, output.rate) * Larger(FrameSize(input), FrameSize(output))

RoundUp64kMutant(n) == (n \div 65536) * 65536   \* mutant: rounds down
RoundUp64k(n) == ((n + 65535) \div 65536) * 65536

ProcessStreamCreate ==
  /\ phase = "create"
  /\ IF ValidCreate
       THEN /\ area' = IF override = 0 THEN RoundUp64k(AreaBytes) ELSE override
            /\ phase' = "init"
       ELSE /\ phase' = "refused"
            /\ UNCHANGED area
  /\ UNCHANGED <<config, latency, nframes, shm, duplex, read, resp, result, calls>>

\* 1 << (32 - (v - 1).leading_zeros()): the least power of two not below v.
\* Rates are validated, so v is at most 3840.
PowersOfTwo == {1, 2, 4, 8, 16, 32, 64, 128, 256, 512, 1024, 2048, 4096}
RoundUpPow2(v) == CHOOSE p \in PowersOfTwo : v <= p /\ (p = 1 \/ p < 2 * v)

StreamRate == IF Has(output) THEN output.rate ELSE input.rate
MinLatency == RoundUpPow2((5 * StreamRate) \div 1000)
MaxLatency == StreamRate

ProcessStreamInit ==
  /\ phase = "init"
  /\ latency' = Smaller(Larger(request, MinLatency), MaxLatency)   \* clamp
  /\ phase' = "ready"
  /\ UNCHANGED <<config, area, nframes, shm, duplex, read, resp, result, calls>>

-----------------------------------------------------------------------------
(* ServerStreamCallbacks::data_callback, on cubeb's audio thread.           *)

\* cubeb's buffers hold n frames, and the callback returns r without a call.
Return(r) ==
  /\ result' = r
  /\ phase' = "ready"
  /\ calls' = calls + 1

InputFits(n) == Has(input) => n * FrameSize(input) <= area

OutputFitsMutant(n) == TRUE   \* mutant: no check of the output size
OutputFits(n) == Has(output) => n > 0 /\ n * FrameSize(output) <= area

\* The input is in the area before the output is checked.  What the buffers
\* hold from earlier callbacks is stale.
DataCallback(n) ==
  /\ phase = "ready"
  /\ calls < MaxCallbacks
  /\ nframes' = n
  /\ shm' = IF Has(input) /\ InputFits(n) THEN "input" ELSE "stale"
  /\ duplex' = "stale"
  /\ read' = "none"
  /\ IF ~InputFits(n) \/ ~OutputFits(n)
       THEN Return(CubebError)
       ELSE IF n = 0
              THEN Return(0)
              ELSE phase' = "client" /\ UNCHANGED <<result, calls>>
  /\ UNCHANGED <<config, area, latency, resp>>

\* The client's answer: frames, or an error, which is returned to cubeb.
FramesValidMutant(f) == f <= nframes   \* mutant: negative counts accepted
FramesValid(f) ==
  /\ f \in 0..nframes
  /\ f * FrameSize(output) <= Smaller(nframes * FrameSize(output), area)

DataCallbackReturn ==
  /\ phase = "reply"
  /\ IF FramesValid(resp)
       THEN Return(resp)
       ELSE Return(CubebError)
  /\ UNCHANGED <<config, area, latency, nframes, shm, duplex, read, resp>>

-----------------------------------------------------------------------------
(* CallbackServer::process, on the client's callback loop.                  *)

IsDuplex == Has(input) /\ Has(output)

ClientFits == nframes * Larger(FrameSize(input), FrameSize(output)) <= area

DuplexCopyMutant == duplex   \* mutant: no copy
DuplexCopy == IF IsDuplex THEN shm ELSE duplex

ClientData ==
  /\ phase = "client"
  /\ IF ClientFits
       THEN /\ phase' = "user"
            /\ duplex' = DuplexCopy
            /\ UNCHANGED resp
       ELSE /\ phase' = "reply"
            /\ resp' = CubebError
            /\ UNCHANGED duplex
  /\ UNCHANGED <<config, area, latency, nframes, shm, read, result, calls>>

\* The user's callback reads its input and writes its output, in any order, ...
UserReads ==
  /\ phase = "user"
  /\ Has(input)
  /\ read' = IF IsDuplex THEN duplex ELSE shm
  /\ UNCHANGED <<config, phase, area, latency, nframes, shm, duplex, resp, result, calls>>

UserWrites ==
  /\ phase = "user"
  /\ Has(output)
  /\ shm' = "output"
  /\ UNCHANGED <<config, phase, area, latency, nframes, duplex, read, resp, result, calls>>

\* ... and returns any number of frames.
UserReturns(f) ==
  /\ phase = "user"
  /\ resp' = f
  /\ phase' = "reply"
  /\ UNCHANGED <<config, area, latency, nframes, shm, duplex, read, result, calls>>

-----------------------------------------------------------------------------

\* Frame counts of interest: none, one, the latency, and what just fits or
\* just does not fit in the area.
FrameCounts ==
  LET fit == area \div Larger(FrameSize(input), FrameSize(output))
  IN {0, 1, latency, fit, fit + 1}

Next ==
  \/ ProcessStreamCreate
  \/ ProcessStreamInit
  \/ phase = "ready" /\ \E n \in FrameCounts : DataCallback(n)
  \/ ClientData
  \/ UserReads
  \/ UserWrites
  \/ \E f \in {-2, 0, nframes, nframes + 1} : UserReturns(f)
  \/ DataCallbackReturn

Spec == Init /\ [][Next]_vars

-----------------------------------------------------------------------------
(* Properties *)

I32Max == 2147483647
Contents == {"stale", "input", "output", "none"}

\* Type correctness: in particular a callback returns a count or CUBEB_ERROR,
\* never another negative number of the client's (data_callback).
TypeOK ==
  /\ input \in StreamParams
  /\ output \in StreamParams
  /\ request \in Latencies
  /\ override \in Overrides
  /\ phase \in {"create", "init", "ready", "client", "user", "reply", "refused"}
  /\ area \in Nat
  /\ latency \in Nat
  /\ nframes \in Nat
  /\ shm \in Contents
  /\ duplex \in Contents
  /\ read \in Contents
  /\ resp \in Int
  /\ result \in Nat \cup {CubebError}
  /\ calls \in 0..MaxCallbacks

\* The area the server estimates holds the latency it asks of cubeb, in both
\* directions, and its size fits in u32 arithmetic: "Stream latency is capped
\* at 1s in process_stream_init" (server/src/server.rs).
AreaHoldsLatency ==
  phase \in {"ready", "client", "user", "reply"} /\ override = 0 =>
    /\ latency * FrameSize(input) <= area
    /\ latency * FrameSize(output) <= area
    /\ area < I32Max

\* clamp(min_latency, max_latency) does not panic: min_latency <= max_latency,
\* and round_up_pow2's argument is at least 1.
ClampDefined ==
  phase = "init" => (5 * StreamRate) \div 1000 >= 1 /\ MinLatency <= MaxLatency

\* Every slice of the area taken on either side lies within it, the client's
\* assertions on the duplex copy (input_nbytes > 0, capacity) hold, and cubeb
\* is never told of more frames than it asked for.
SlicesInBounds ==
  /\ phase \in {"client", "user"} =>
       /\ nframes * FrameSize(input) <= area
       /\ nframes * FrameSize(output) <= area
       /\ IsDuplex => nframes * FrameSize(input) > 0
  /\ phase = "ready" => result \in 0..nframes \cup {CubebError}

\* A duplex callback reads the input of this callback, although the output is
\* written to the same area before it has read it.
InputIntact == read \in {"none", "input"}

=============================================================================
