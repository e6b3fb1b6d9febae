------------------------- MODULE DataTransferProofs -------------------------
(***************************************************************************)
(* Proofs about DataTransfer, for every set of rates, channel counts,      *)
(* latencies and configured area sizes a client or a server may use.       *)
(*                                                                         *)
(* A client chooses the parameters, so the run's small sets are not the    *)
(* point: what has to hold is that validation leaves only parameters for   *)
(* which the server's arithmetic is safe.                                  *)
(***************************************************************************)
EXTENDS DataTransfer, TLAPS

MaxFrameSize == 1020   \* 255 channels of 4 bytes

\* An interval by its bounds: MinRate..MaxRate is too large to be enumerated.
LEMMA IntervalBounds ==
  ASSUME NEW a \in Nat, NEW b \in Nat, NEW x \in a..b
  PROVE  x \in Nat /\ a <= x /\ x <= b
BY SMT

\* Parameters are numbers.
LEMMA ParamsNat ==
  ASSUME NEW p \in StreamParams
  PROVE  p.rate \in Nat /\ p.channels \in Nat /\ p.size \in Nat
<1>1. CASE p = NoParams
  BY <1>1, SMT DEF NoParams
<1>2. CASE p \in [size : SampleSizes, channels : Channels, rate : Rates]
  <2>1. p.rate \in Rates /\ p.channels \in Channels /\ p.size \in SampleSizes
    BY <1>2, SMT
  <2>2. p.size \in Nat
    BY <2>1, SMT DEF SampleSizes
  <2> QED BY <2>1, <2>2, DataTransferAssumption
<1> QED BY <1>1, <1>2 DEF StreamParams

\* The absent direction has frames of no bytes, a present one of 2 or 4 bytes a
\* channel.
LEMMA ParamsCases ==
  ASSUME NEW p \in StreamParams
  PROVE  IF Has(p) THEN p.size \in {2, 4} ELSE p.size = 0 /\ p.channels = 0 /\ p.rate = 0
<1>1. CASE p = NoParams
  BY <1>1, SMT DEF NoParams, Has
<1>2. CASE p # NoParams
  <2>1. p \in [size : SampleSizes, channels : Channels, rate : Rates]
    BY <1>2 DEF StreamParams
  <2>2. p.size \in {2, 4}
    BY <2>1, SMT DEF SampleSizes
  <2> QED BY <2>2, <1>2 DEF Has
<1> QED BY <1>1, <1>2

LEMMA SampleProduct ==
  ASSUME NEW s \in {2, 4}, NEW c \in 1..255
  PROVE  s * c \in 1..1020
<1>1. CASE s = 2
  BY <1>1, SMT
<1>2. CASE s = 4
  BY <1>2, SMT
<1> QED BY <1>1, <1>2

\* Validated (or absent) parameters: at most 255 channels of 4 bytes.
LEMMA FrameSizeBound ==
  ASSUME NEW p \in StreamParams, Has(p) => ValidParams(p)
  PROVE  /\ FrameSize(p) \in Nat
         /\ FrameSize(p) <= MaxFrameSize
         /\ p.rate \in Nat
         /\ p.rate <= MaxRate
         /\ Has(p) => MinRate <= p.rate /\ 0 < FrameSize(p)
<1>1. CASE ~Has(p)
  <2>1. p.size = 0 /\ p.channels = 0 /\ p.rate = 0
    BY <1>1, ParamsCases
  <2>2. FrameSize(p) = 0
    BY <2>1, SMT DEF FrameSize
  <2>3. 0 <= MaxFrameSize /\ 0 <= MaxRate
    BY SMT DEF MaxFrameSize, MaxRate
  <2>4. 0 \in Nat
    BY SMT
  <2> QED BY <1>1, <2>1, <2>2, <2>3, <2>4
<1>2. CASE Has(p)
  <2>1. p.channels \in 1..MaxChannels /\ p.rate \in MinRate..MaxRate
    BY <1>2 DEF ValidParams
  <2>2. p.size \in {2, 4}
    BY <1>2, ParamsCases
  <2>3. p.channels \in 1..255
    BY <2>1, SMT DEF MaxChannels
  <2>4. p.size * p.channels \in 1..1020
    BY <2>2, <2>3, SampleProduct
  <2> DEFINE f == FrameSize(p)
  <2>5. f \in 1..1020
    BY <2>4 DEF FrameSize
  <2> HIDE DEF f
  <2>6. f \in Nat /\ f <= MaxFrameSize /\ 0 < f
    BY <2>5, SMT DEF MaxFrameSize
  <2>7. MinRate \in Nat /\ MaxRate \in Nat
    BY SMT DEF MinRate, MaxRate
  <2>8. p.rate \in Nat /\ MinRate <= p.rate /\ p.rate <= MaxRate
    BY <2>1, <2>7, IntervalBounds
  <2> QED BY <2>6, <2>8 DEF f
<1> QED BY <1>1, <1>2

\* A product of naturals grows with each factor.
LEMMA ProductMonotone ==
  ASSUME NEW a \in Nat, NEW b \in Nat, NEW c \in Nat, NEW d \in Nat,
         a <= b, c <= d
  PROVE  a * c <= b * d /\ a * c \in Nat /\ b * d \in Nat
<1>1. a * c \in Nat /\ b * d \in Nat /\ b * c \in Nat
  BY SMT
<1>2. a * c <= b * c
  <2>1. b - a \in Nat
    BY SMT
  <2>2. (b - a) * c \in Nat
    BY <2>1, SMT
  <2>3. (b - a) * c = b * c - a * c
    BY SMT
  <2> QED BY <2>2, <2>3, <1>1, SMT
<1>3. b * c <= b * d
  <2>1. d - c \in Nat
    BY SMT
  <2>2. b * (d - c) \in Nat
    BY <2>1, SMT
  <2>3. b * (d - c) = b * d - b * c
    BY SMT
  <2> QED BY <2>2, <2>3, <1>1, SMT
<1> QED BY <1>1, <1>2, <1>3, SMT

\* round_up_pow2 on the arguments it gets: a power of two, at least v and less
\* than 2v (or 1).
LEMMA Pow2Exists ==
  ASSUME NEW v \in Nat, 1 <= v, v <= 3840
  PROVE  /\ RoundUpPow2(v) \in PowersOfTwo
         /\ v <= RoundUpPow2(v)
         /\ RoundUpPow2(v) = 1 \/ RoundUpPow2(v) < 2 * v
<1>1. \E p \in PowersOfTwo : v <= p /\ (p = 1 \/ p < 2 * v)
  <2>1. CASE v <= 16
    BY <2>1, SMT DEF PowersOfTwo
  <2>2. CASE v > 16 /\ v <= 256
    BY <2>2, SMT DEF PowersOfTwo
  <2>3. CASE v > 256
    BY <2>3, SMT DEF PowersOfTwo
  <2> QED BY <2>1, <2>2, <2>3, SMT
<1> HIDE DEF PowersOfTwo
<1> QED BY <1>1, SMT DEF RoundUpPow2

\* Rounding up to 64 kB adds less than 64 kB.
LEMMA RoundUpBound ==
  ASSUME NEW n \in Nat
  PROVE  RoundUp64k(n) \in Nat /\ n <= RoundUp64k(n) /\ RoundUp64k(n) <= n + 65535
BY SMT DEF RoundUp64k

\* What validate_stream_params leaves: at most a second of 1020-byte frames.
LEMMA CreateBounds ==
  ASSUME input \in StreamParams, output \in StreamParams, ValidCreate
  PROVE  /\ FrameSize(input) \in Nat
         /\ FrameSize(output) \in Nat
         /\ StreamRate \in Nat
         /\ MinRate <= StreamRate
         /\ StreamRate <= MaxRate
         /\ Larger(input.rate, output.rate) \in Nat
         /\ StreamRate <= Larger(input.rate, output.rate)
         /\ Larger(input.rate, output.rate) <= MaxRate
         /\ Larger(FrameSize(input), FrameSize(output)) \in Nat
         /\ 0 < Larger(FrameSize(input), FrameSize(output))
         /\ Larger(FrameSize(input), FrameSize(output)) <= MaxFrameSize
         /\ IsDuplex => 0 < FrameSize(input)
<1> DEFINE fi == FrameSize(input)
           fo == FrameSize(output)
           ri == input.rate
           ro == output.rate
<1>1. Has(input) => ValidParams(input)
  BY DEF ValidCreate
<1>2. Has(output) => ValidParams(output)
  BY DEF ValidCreate
<1>3. /\ fi \in Nat /\ fi <= MaxFrameSize
      /\ ri \in Nat /\ ri <= MaxRate
      /\ Has(input) => MinRate <= ri /\ 0 < fi
  BY <1>1, FrameSizeBound
<1>4. /\ fo \in Nat /\ fo <= MaxFrameSize
      /\ ro \in Nat /\ ro <= MaxRate
      /\ Has(output) => MinRate <= ro /\ 0 < fo
  BY <1>2, FrameSizeBound
<1>5. Has(input) \/ Has(output)
  BY DEF ValidCreate
<1>6. StreamRate = IF Has(output) THEN ro ELSE ri
  BY DEF StreamRate
<1>7. MinRate \in Nat /\ MaxRate \in Nat /\ MaxFrameSize \in Nat
  BY SMT DEF MinRate, MaxRate, MaxFrameSize
<1>9. IsDuplex => Has(input)
  BY DEF IsDuplex
<1> HIDE DEF fi, fo, ri, ro
<1>10. /\ Larger(ri, ro) \in Nat /\ Larger(ri, ro) <= MaxRate
       /\ ri <= Larger(ri, ro) /\ ro <= Larger(ri, ro)
       /\ Larger(fi, fo) \in Nat /\ Larger(fi, fo) <= MaxFrameSize
       /\ fi <= Larger(fi, fo) /\ fo <= Larger(fi, fo)
  BY <1>3, <1>4, <1>7, SMT DEF Larger
<1>11. CASE Has(output)
  <2>1. StreamRate = ro /\ MinRate <= ro /\ 0 < fo
    BY <1>4, <1>6, <1>11
  <2>2. 0 < Larger(fi, fo)
    BY <1>4, <1>10, <2>1, SMT
  <2> QED BY <2>1, <2>2, <1>3, <1>4, <1>9, <1>10 DEF fi, fo, ri, ro
<1>12. CASE ~Has(output)
  <2>1. StreamRate = ri /\ MinRate <= ri /\ 0 < fi
    BY <1>3, <1>5, <1>6, <1>12
  <2>2. 0 < Larger(fi, fo)
    BY <1>3, <1>10, <2>1, SMT
  <2> QED BY <2>1, <2>2, <1>3, <1>4, <1>9, <1>10 DEF fi, fo, ri, ro
<1> QED BY <1>11, <1>12

\* The estimated area holds a second of the larger frame and stays below 2^31.
LEMMA AreaBound ==
  ASSUME input \in StreamParams, output \in StreamParams, ValidCreate
  PROVE  /\ RoundUp64k(AreaBytes) \in Nat
         /\ RoundUp64k(AreaBytes) < I32Max
         /\ StreamRate * FrameSize(input) <= RoundUp64k(AreaBytes)
         /\ StreamRate * FrameSize(output) <= RoundUp64k(AreaBytes)
<1> DEFINE rate == Larger(input.rate, output.rate)
           size == Larger(FrameSize(input), FrameSize(output))
           fi == FrameSize(input)
           fo == FrameSize(output)
<1>0. /\ fi \in Nat /\ fo \in Nat
      /\ rate \in Nat /\ rate <= MaxRate /\ StreamRate \in Nat /\ StreamRate <= rate
      /\ size \in Nat /\ size <= MaxFrameSize
  BY CreateBounds
<1>1. AreaBytes = rate * size
  BY DEF AreaBytes
<1>2. size = Larger(fi, fo)
  OBVIOUS
<1> HIDE DEF rate, size, fi, fo
<1>3. rate <= 768000 /\ size <= 1020
  BY <1>0, SMT DEF MaxFrameSize, MaxRate
<1>4. fi <= size /\ fo <= size
  BY <1>0, <1>2, SMT DEF Larger
<1>5. rate * size <= 768000 * 1020 /\ rate * size \in Nat
  BY <1>0, <1>3, ProductMonotone, SMT
<1>6. StreamRate * fi <= rate * size /\ StreamRate * fi \in Nat
  BY <1>0, <1>4, ProductMonotone, SMT
<1>7. StreamRate * fo <= rate * size /\ StreamRate * fo \in Nat
  BY <1>0, <1>4, ProductMonotone, SMT
<1> DEFINE up == RoundUp64k(rate * size)
<1>8. up \in Nat /\ rate * size <= up /\ up <= rate * size + 65535
  BY <1>5, RoundUpBound, SMT
<1> HIDE DEF up
<1>9. up < I32Max /\ StreamRate * fi <= up /\ StreamRate * fo <= up
  BY <1>5, <1>6, <1>7, <1>8, SMT DEF I32Max
<1> QED BY <1>1, <1>8, <1>9 DEF up, fi, fo

\* clamp's bounds are in order for every validated rate.
LEMMA LatencyBound ==
  ASSUME input \in StreamParams, output \in StreamParams, ValidCreate
  PROVE  /\ (5 * StreamRate) \div 1000 >= 1
         /\ MinLatency \in Nat
         /\ MinLatency <= MaxLatency
         /\ MaxLatency \in Nat
<1> DEFINE rate == StreamRate
           v == (5 * rate) \div 1000
<1>0. rate \in Nat /\ MinRate <= rate /\ rate <= MaxRate
  BY CreateBounds
<1> HIDE DEF rate
<1>1. rate \in Nat /\ 1000 <= rate /\ rate <= 768000
  BY <1>0, SMT DEF MinRate, MaxRate
<1>2. v \in Nat /\ 1 <= v /\ v <= 3840 /\ 2 * v <= rate
  BY <1>1, SMT
<1>3. MinLatency = RoundUpPow2(v) /\ MaxLatency = rate
  BY DEF MinLatency, MaxLatency, rate
<1> DEFINE m == RoundUpPow2(v)
<1> HIDE DEF v
<1>4. /\ m \in PowersOfTwo
      /\ v <= m
      /\ m = 1 \/ m < 2 * v
  BY <1>2, Pow2Exists, SMT
<1> HIDE DEF m
<1>5. m \in Nat
  BY <1>4, SMT DEF PowersOfTwo
<1>6. m <= rate /\ rate \in Nat /\ v >= 1
  BY <1>1, <1>2, <1>4, <1>5, SMT
<1> QED BY <1>3, <1>5, <1>6, SMT DEF v, m, rate
-----------------------------------------------------------------------------
(* The inductive invariant.                                                 *)

\* Every phase but the first and the refusal has passed validation, the area is
\* the estimate unless the server is configured with a size, and the latency is
\* clamped; the slices of a callback lie in the area.
Accepted == phase \in {"init", "ready", "client", "user", "reply"}
Running == phase \in {"ready", "client", "user", "reply"}

NumbersOK ==
  /\ input \in StreamParams
  /\ output \in StreamParams
  /\ request \in Nat
  /\ override \in Nat
  /\ area \in Nat
  /\ latency \in Nat
  /\ nframes \in Nat

Validated == Accepted => ValidCreate
AreaEstimated == Accepted /\ override = 0 => area = RoundUp64k(AreaBytes)
LatencyClamped == Running => latency <= MaxLatency
NotYetCalled == phase \in {"create", "init"} => result = 0

IInv ==
  /\ NumbersOK
  /\ Validated
  /\ AreaEstimated
  /\ LatencyClamped
  /\ NotYetCalled
  /\ SlicesInBounds

LEMMA InitInv == Init => IInv
<1> SUFFICES ASSUME Init PROVE IInv
  OBVIOUS
<1> USE DEF Init
<1>1. NumbersOK
  <2>1. request \in Nat /\ override \in Nat
    BY DataTransferAssumption
  <2>2. area \in Nat /\ latency \in Nat /\ nframes \in Nat
    BY SMT
  <2> QED BY <2>1, <2>2 DEF NumbersOK
<1>2. phase = "create" /\ result = 0
  OBVIOUS
<1> QED BY <1>1, <1>2, SMT DEF IInv, Validated, AreaEstimated, LatencyClamped, NotYetCalled,
          SlicesInBounds, Accepted, Running

\* What depends on the parameters alone does not change.
LEMMA ConfigUnchanged ==
  ASSUME UNCHANGED config
  PROVE  /\ ValidCreate' = ValidCreate
         /\ AreaBytes' = AreaBytes
         /\ StreamRate' = StreamRate
         /\ MaxLatency' = MaxLatency
         /\ FrameSize(input)' = FrameSize(input)
         /\ FrameSize(output)' = FrameSize(output)
         /\ IsDuplex' = IsDuplex
         /\ input' = input /\ output' = output /\ request' = request /\ override' = override
BY DEF config, ValidCreate, ValidDuplex, ValidParams, Has, AreaBytes, Larger, StreamRate,
       MaxLatency, FrameSize, IsDuplex

LEMMA CreatePreserves ==
  ASSUME IInv, ProcessStreamCreate
  PROVE  IInv'
<1>1. UNCHANGED config /\ phase = "create" /\ UNCHANGED <<latency, nframes, result>>
  BY DEF ProcessStreamCreate
<1>2. input \in StreamParams /\ output \in StreamParams /\ area \in Nat /\ override \in Nat
  BY DEF IInv, NumbersOK
<1>3. CASE ValidCreate
  <2>1. phase' = "init" /\ area' = IF override = 0 THEN RoundUp64k(AreaBytes) ELSE override
    BY <1>3 DEF ProcessStreamCreate
  <2>2. RoundUp64k(AreaBytes) \in Nat
    BY <1>2, <1>3, AreaBound
  <2>3. area' \in Nat
    BY <1>2, <2>1, <2>2
  <2>4. NumbersOK'
    BY <1>1, <2>3, ConfigUnchanged DEF IInv, NumbersOK
  <2>5. Validated'
    BY <1>1, <1>3, ConfigUnchanged DEF Validated
  <2>6. AreaEstimated'
    BY <1>1, <2>1, ConfigUnchanged DEF AreaEstimated, RoundUp64k
  <2>7. LatencyClamped' /\ SlicesInBounds'
    BY <2>1 DEF LatencyClamped, Running, SlicesInBounds
  <2>8. NotYetCalled'
    BY <1>1 DEF IInv, NotYetCalled
  <2> QED BY <2>4, <2>5, <2>6, <2>7, <2>8 DEF IInv
<1>4. CASE ~ValidCreate
  <2>1. phase' = "refused" /\ area' = area
    BY <1>4 DEF ProcessStreamCreate
  <2>2. NumbersOK'
    BY <1>1, <2>1, ConfigUnchanged DEF IInv, NumbersOK
  <2> QED BY <2>1, <2>2 DEF IInv, Validated, AreaEstimated, LatencyClamped, NotYetCalled,
            SlicesInBounds, Accepted, Running
<1> QED BY <1>3, <1>4

LEMMA InitStreamPreserves ==
  ASSUME IInv, ProcessStreamInit
  PROVE  IInv'
<1>1. /\ UNCHANGED config /\ phase = "init" /\ phase' = "ready"
      /\ UNCHANGED <<area, nframes, result>>
      /\ latency' = Smaller(Larger(request, MinLatency), MaxLatency)
  BY DEF ProcessStreamInit
<1>2. input \in StreamParams /\ output \in StreamParams /\ request \in Nat /\ nframes \in Nat
  BY DEF IInv, NumbersOK
<1>3. ValidCreate
  BY <1>1 DEF IInv, Validated, Accepted
<1>4. MinLatency \in Nat /\ MaxLatency \in Nat
  BY <1>2, <1>3, LatencyBound
<1> DEFINE m == MinLatency
           x == MaxLatency
<1> HIDE DEF m, x
<1>5. Smaller(Larger(request, m), x) \in Nat /\ Smaller(Larger(request, m), x) <= x
  <2>1. m \in Nat /\ x \in Nat
    BY <1>4 DEF m, x
  <2> QED BY <1>2, <2>1, SMT DEF Smaller, Larger
<1>6. latency' \in Nat /\ latency' <= MaxLatency
  BY <1>1, <1>5 DEF m, x
<1>7. NumbersOK'
  BY <1>1, <1>6, ConfigUnchanged DEF IInv, NumbersOK
<1>8. Validated'
  BY <1>1, <1>3, ConfigUnchanged DEF Validated
<1>9. AreaEstimated'
  BY <1>1, ConfigUnchanged DEF IInv, AreaEstimated, Accepted, RoundUp64k
<1>10. LatencyClamped'
  BY <1>1, <1>6, ConfigUnchanged DEF LatencyClamped
<1>11. NotYetCalled'
  BY <1>1 DEF NotYetCalled
<1>12. SlicesInBounds'
  <2>1. result' = 0
    BY <1>1 DEF IInv, NotYetCalled
  <2>2. 0 \in 0..nframes
    BY <1>2, SMT
  <2> QED BY <1>1, <2>1, <2>2 DEF SlicesInBounds
<1> QED BY <1>7, <1>8, <1>9, <1>10, <1>11, <1>12 DEF IInv

\* Within a running stream only the callback's own variables change.
LEMMA RunningPreserves ==
  ASSUME IInv, UNCHANGED config, UNCHANGED <<area, latency>>,
         Running, Running', nframes' \in Nat, SlicesInBounds'
  PROVE  IInv'
<1>1. NumbersOK'
  BY ConfigUnchanged DEF IInv, NumbersOK
<1>2. Accepted /\ phase' \notin {"create", "init"}
  BY DEF Running, Accepted
<1>3. Validated'
  BY <1>2, ConfigUnchanged DEF IInv, Validated
<1>4. AreaEstimated'
  BY <1>2, ConfigUnchanged DEF IInv, AreaEstimated, RoundUp64k
<1>5. LatencyClamped'
  BY ConfigUnchanged DEF IInv, LatencyClamped
<1>6. NotYetCalled'
  BY <1>2 DEF NotYetCalled
<1> QED BY <1>1, <1>3, <1>4, <1>5, <1>6 DEF IInv

LEMMA FrameCountsNat ==
  ASSUME IInv, ValidCreate
  PROVE  FrameCounts \subseteq Nat
<1> DEFINE size == Larger(FrameSize(input), FrameSize(output))
           fit == area \div size
<1>1. input \in StreamParams /\ output \in StreamParams /\ area \in Nat /\ latency \in Nat
  BY DEF IInv, NumbersOK
<1>2. size \in Nat /\ 0 < size
  BY <1>1, CreateBounds
<1> HIDE DEF size
<1>3. fit \in Nat
  BY <1>1, <1>2, SMT
<1>4. FrameCounts = {0, 1, latency, fit, fit + 1}
  BY DEF FrameCounts, size
<1> HIDE DEF fit
<1> QED BY <1>1, <1>3, <1>4, SMT

\* data_callback makes the call only with both directions' frames in the area.
LEMMA CallbackPreserves ==
  ASSUME IInv, NEW n \in Nat, DataCallback(n)
  PROVE  IInv'
<1>1. UNCHANGED config /\ UNCHANGED <<area, latency>> /\ phase = "ready" /\ nframes' = n
  BY DEF DataCallback
<1>2. ValidCreate /\ Running
  BY <1>1 DEF IInv, Validated, Accepted, Running
<1>3. n \in Nat
  OBVIOUS
<1>4. input \in StreamParams /\ output \in StreamParams /\ area \in Nat
  BY DEF IInv, NumbersOK
<1>5. CASE ~InputFits(n) \/ ~OutputFits(n)
  <2>1. phase' = "ready" /\ result' = CubebError
    BY <1>5 DEF DataCallback, Return
  <2>2. SlicesInBounds' /\ Running'
    BY <2>1 DEF SlicesInBounds, Running
  <2> QED BY <1>1, <1>2, <1>3, <2>2, RunningPreserves
<1>6. CASE InputFits(n) /\ OutputFits(n) /\ n = 0
  <2>1. phase' = "ready" /\ result' = 0
    BY <1>6 DEF DataCallback, Return
  <2>2. 0 \in 0..n
    BY <1>3, SMT
  <2>3. SlicesInBounds' /\ Running'
    BY <1>1, <2>1, <2>2 DEF SlicesInBounds, Running
  <2> QED BY <1>1, <1>2, <1>3, <2>3, RunningPreserves
<1>7. CASE InputFits(n) /\ OutputFits(n) /\ n # 0
  <2>1. phase' = "client"
    BY <1>7 DEF DataCallback
  <2>2. FrameSize(input) \in Nat /\ FrameSize(output) \in Nat
    BY <1>2, <1>4, CreateBounds
  <2>3. ~Has(input) => FrameSize(input) = 0
    BY <1>4, ParamsCases, SMT DEF FrameSize
  <2>4. ~Has(output) => FrameSize(output) = 0
    BY <1>4, ParamsCases, SMT DEF FrameSize
  <2>5. n * 0 <= area
    BY <1>3, <1>4, SMT
  <2>6. n * FrameSize(input) <= area
    BY <1>7, <2>3, <2>5 DEF InputFits
  <2>7. n * FrameSize(output) <= area
    BY <1>7, <2>4, <2>5 DEF OutputFits
  <2>8. IsDuplex => 0 < FrameSize(input)
    BY <1>2, <1>4, CreateBounds
  <2>9. IsDuplex => n * FrameSize(input) > 0
    <3> DEFINE f == FrameSize(input)
    <3>1. SUFFICES ASSUME f \in Nat, 0 < f PROVE n * f > 0
      BY <2>2, <2>8
    <3> HIDE DEF f
    <3>2. 1 \in Nat /\ 1 <= n /\ 1 <= f
      BY <1>3, <1>7, <3>1, SMT
    <3>3. 1 * 1 <= n * f /\ n * f \in Nat
      BY <1>3, <3>1, <3>2, ProductMonotone
    <3> QED BY <3>3, SMT
  <2>10. SlicesInBounds' /\ Running'
    BY <1>1, <2>1, <2>6, <2>7, <2>9, ConfigUnchanged DEF SlicesInBounds, Running
  <2> QED BY <1>1, <1>2, <1>3, <2>10, RunningPreserves
<1> QED BY <1>5, <1>6, <1>7

\* The client's steps keep the number of frames and the area.
LEMMA ClientPreserves ==
  ASSUME IInv, UNCHANGED config, UNCHANGED <<area, latency, nframes>>,
         phase \in {"client", "user"}, phase' \in {"user", "reply"}
  PROVE  IInv'
<1>1. Running /\ Running'
  BY DEF Running
<1>2. nframes' \in Nat
  BY DEF IInv, NumbersOK
<1>3. SlicesInBounds'
  BY ConfigUnchanged DEF IInv, SlicesInBounds
<1> QED BY <1>1, <1>2, <1>3, RunningPreserves

\* The frames the client reports are checked before cubeb is told.
LEMMA ReturnPreserves ==
  ASSUME IInv, DataCallbackReturn
  PROVE  IInv'
<1>1. /\ UNCHANGED config /\ UNCHANGED <<area, latency, nframes>>
      /\ phase = "reply" /\ phase' = "ready"
  BY DEF DataCallbackReturn, Return
<1>2. result' \in 0..nframes \cup {CubebError}
  <2>1. CASE FramesValid(resp)
    BY <2>1 DEF DataCallbackReturn, Return, FramesValid
  <2>2. CASE ~FramesValid(resp)
    BY <2>2 DEF DataCallbackReturn, Return
  <2> QED BY <2>1, <2>2
<1>3. SlicesInBounds' /\ Running /\ Running'
  BY <1>1, <1>2 DEF SlicesInBounds, Running, CubebError
<1>4. nframes' \in Nat
  BY <1>1 DEF IInv, NumbersOK
<1> QED BY <1>1, <1>3, <1>4, RunningPreserves

\* Next enumerates the frame counts at the boundaries; cubeb may ask for any
\* number of frames, and the user's callback may return any number.
AnyNext ==
  \/ ProcessStreamCreate
  \/ ProcessStreamInit
  \/ \E n \in Nat : DataCallback(n)
  \/ ClientData
  \/ UserReads
  \/ UserWrites
  \/ \E f \in Int : UserReturns(f)
  \/ DataCallbackReturn

AnySpec == Init /\ [][AnyNext]_vars

LEMMA AnyStepInv ==
  ASSUME IInv, [AnyNext]_vars
  PROVE  IInv'
<1>1. CASE ProcessStreamCreate
  BY <1>1, CreatePreserves
<1>2. CASE ProcessStreamInit
  BY <1>2, InitStreamPreserves
<1>3. ASSUME NEW n \in Nat, DataCallback(n) PROVE IInv'
  BY <1>3, CallbackPreserves
<1>4. CASE ClientData
  <2>1. /\ UNCHANGED config /\ UNCHANGED <<area, latency, nframes>>
        /\ phase = "client" /\ phase' \in {"user", "reply"}
    BY <1>4 DEF ClientData
  <2> QED BY <2>1, ClientPreserves
<1>5. CASE UserReads
  <2>1. /\ UNCHANGED config /\ UNCHANGED <<area, latency, nframes>>
        /\ phase = "user" /\ phase' = "user"
    BY <1>5 DEF UserReads
  <2> QED BY <2>1, ClientPreserves
<1>6. CASE UserWrites
  <2>1. /\ UNCHANGED config /\ UNCHANGED <<area, latency, nframes>>
        /\ phase = "user" /\ phase' = "user"
    BY <1>6 DEF UserWrites
  <2> QED BY <2>1, ClientPreserves
<1>7. ASSUME NEW f \in Int, UserReturns(f) PROVE IInv'
  <2>1. /\ UNCHANGED config /\ UNCHANGED <<area, latency, nframes>>
        /\ phase = "user" /\ phase' = "reply"
    BY <1>7 DEF UserReturns
  <2> QED BY <2>1, ClientPreserves
<1>8. CASE DataCallbackReturn
  BY <1>8, ReturnPreserves
<1>9. CASE UNCHANGED vars
  <2>1. UNCHANGED config /\ UNCHANGED <<phase, area, latency, nframes, result>>
    BY <1>9 DEF vars, config
  <2> QED BY <2>1, ConfigUnchanged DEF IInv, NumbersOK, Validated, AreaEstimated, Accepted,
             RoundUp64k, LatencyClamped, Running, NotYetCalled, SlicesInBounds
<1> QED BY <1>1, <1>2, <1>3, <1>4, <1>5, <1>6, <1>7, <1>8, <1>9 DEF AnyNext

LEMMA NextIsAny ==
  ASSUME IInv, Next
  PROVE  AnyNext
<1>1. ASSUME phase = "ready", NEW n \in FrameCounts, DataCallback(n) PROVE AnyNext
  <2>1. ValidCreate
    BY <1>1 DEF IInv, Validated, Accepted
  <2>2. n \in Nat
    BY <1>1, <2>1, FrameCountsNat
  <2> QED BY <1>1, <2>2 DEF AnyNext
<1>2. ASSUME NEW f \in {-2, 0, nframes, nframes + 1}, UserReturns(f) PROVE AnyNext
  <2>1. f \in Int
    BY <1>2, SMT DEF IInv, NumbersOK
  <2> QED BY <1>2, <2>1 DEF AnyNext
<1> QED BY <1>1, <1>2 DEF Next, AnyNext

LEMMA StepInv ==
  ASSUME IInv, [Next]_vars
  PROVE  IInv'
BY NextIsAny, AnyStepInv

LEMMA InvImplies ==
  ASSUME IInv
  PROVE  AreaHoldsLatency /\ ClampDefined /\ SlicesInBounds
<1>1. input \in StreamParams /\ output \in StreamParams /\ latency \in Nat
  BY DEF IInv, NumbersOK
<1>2. AreaHoldsLatency
  <2> SUFFICES ASSUME Running, override = 0
               PROVE  /\ latency * FrameSize(input) <= area
                      /\ latency * FrameSize(output) <= area
                      /\ area < I32Max
    BY DEF AreaHoldsLatency, Running
  <2>1. ValidCreate /\ area = RoundUp64k(AreaBytes) /\ latency <= StreamRate
    BY DEF IInv, Validated, AreaEstimated, LatencyClamped, MaxLatency, Accepted, Running
  <2>2. /\ area \in Nat /\ area < I32Max
        /\ StreamRate * FrameSize(input) <= area
        /\ StreamRate * FrameSize(output) <= area
    BY <1>1, <2>1, AreaBound
  <2> DEFINE fi == FrameSize(input)
             fo == FrameSize(output)
  <2>3. fi \in Nat /\ fo \in Nat /\ StreamRate \in Nat
    BY <1>1, <2>1, CreateBounds
  <2> HIDE DEF fi, fo
  <2>4. fi <= fi /\ fo <= fo
    BY <2>3, SMT
  <2>5. /\ latency * fi <= StreamRate * fi /\ latency * fi \in Nat /\ StreamRate * fi \in Nat
        /\ latency * fo <= StreamRate * fo /\ latency * fo \in Nat /\ StreamRate * fo \in Nat
    BY <1>1, <2>1, <2>3, <2>4, ProductMonotone
  <2>6. StreamRate * fi <= area /\ StreamRate * fo <= area
    BY <2>2 DEF fi, fo
  <2>7. latency * fi <= area /\ latency * fo <= area
    BY <2>2, <2>5, <2>6, SMT
  <2> QED BY <2>2, <2>7 DEF fi, fo
<1>3. ClampDefined
  BY <1>1, LatencyBound DEF IInv, Validated, Accepted, ClampDefined
<1>4. SlicesInBounds
  BY DEF IInv
<1> QED BY <1>2, <1>3, <1>4

\* For every rate, channel count and latency a client may ask for: the shared
\* memory area the server estimates (estimate of process_stream_create) holds
\* the latency it asks of cubeb, and its size fits in 31 bits.
THEOREM AreaSufficient == Spec => []AreaHoldsLatency
<1>1. IInv => AreaHoldsLatency
  BY InvImplies
<1> QED BY <1>1, InitInv, StepInv, PTL DEF Spec

\* process_stream_init's clamp has its bounds in order for every accepted rate.
THEOREM ClampSafe == Spec => []ClampDefined
<1>1. IInv => ClampDefined
  BY InvImplies
<1> QED BY <1>1, InitInv, StepInv, PTL DEF Spec

\* No slice of the area is out of bounds, whatever the client's parameters, the
\* configured size of the area and the frames of a callback, and cubeb is never
\* told of more frames than it asked for.
THEOREM SlicesSafe == Spec => []SlicesInBounds
<1>1. IInv => SlicesInBounds
  BY InvImplies
<1> QED BY <1>1, InitInv, StepInv, PTL DEF Spec

\* The same for every number of frames cubeb may ask for and every number the
\* user's callback may return, not only those at the boundaries.
THEOREM AnyCallbackSafe ==
  AnySpec => [](AreaHoldsLatency /\ ClampDefined /\ SlicesInBounds)
<1>1. IInv => AreaHoldsLatency /\ ClampDefined /\ SlicesInBounds
  BY InvImplies
<1> QED BY <1>1, InitInv, AnyStepInv, PTL DEF AnySpec

-----------------------------------------------------------------------------
(* The contents of the buffers *)

\* Where the input of the callback in progress is.
BufferOK ==
  /\ phase = "client" /\ Has(input) => shm = "input"
  /\ phase = "user" /\ IsDuplex => duplex = "input"
  /\ phase = "user" /\ Has(input) /\ ~Has(output) => shm = "input"
  /\ InputIntact

LEMMA BufferInit == Init => BufferOK
BY DEF Init, BufferOK, InputIntact

LEMMA BufferStep ==
  ASSUME BufferOK, [AnyNext]_vars
  PROVE  BufferOK'
<1> USE DEF BufferOK, InputIntact
<1>1. CASE ProcessStreamCreate \/ ProcessStreamInit
  <2>1. UNCHANGED read /\ phase' \notin {"client", "user"}
    BY <1>1 DEF ProcessStreamCreate, ProcessStreamInit
  <2> QED BY <2>1
<1>2. ASSUME NEW n \in Nat, DataCallback(n) PROVE BufferOK'
  <2>1. UNCHANGED config /\ read' = "none"
    BY <1>2 DEF DataCallback
  <2>2. Has(input)' = Has(input)
    BY <2>1 DEF Has, config
  <2>3. CASE ~InputFits(n) \/ ~OutputFits(n) \/ n = 0
    <3>1. phase' = "ready"
      BY <1>2, <2>3 DEF DataCallback, Return
    <3> QED BY <2>1, <3>1
  <2>4. CASE InputFits(n) /\ OutputFits(n) /\ n # 0
    <3>1. phase' = "client" /\ (Has(input) => shm' = "input")
      BY <1>2, <2>4 DEF DataCallback
    <3> QED BY <2>1, <2>2, <3>1
  <2> QED BY <2>3, <2>4
<1>3. CASE ClientData
  <2>1. UNCHANGED config /\ UNCHANGED <<shm, read>> /\ phase = "client"
    BY <1>3 DEF ClientData
  <2>2. Has(input)' = Has(input) /\ Has(output)' = Has(output) /\ IsDuplex' = IsDuplex
    BY <2>1 DEF Has, config, IsDuplex
  <2>3. CASE ClientFits
    <3>1. phase' = "user" /\ (IsDuplex => duplex' = shm)
      BY <1>3, <2>3 DEF ClientData, DuplexCopy
    <3> QED BY <2>1, <2>2, <3>1 DEF IsDuplex
  <2>4. CASE ~ClientFits
    <3>1. phase' = "reply"
      BY <1>3, <2>4 DEF ClientData
    <3> QED BY <2>1, <3>1
  <2> QED BY <2>3, <2>4
<1>4. CASE UserReads
  <2>1. /\ UNCHANGED config /\ UNCHANGED <<phase, shm, duplex>> /\ phase = "user"
        /\ Has(input) /\ read' = IF IsDuplex THEN duplex ELSE shm
    BY <1>4 DEF UserReads
  <2>2. Has(input)' = Has(input) /\ Has(output)' = Has(output) /\ IsDuplex' = IsDuplex
    BY <2>1 DEF Has, config, IsDuplex
  <2>3. read' = "input"
    BY <2>1 DEF IsDuplex
  <2> QED BY <2>1, <2>2, <2>3
<1>5. CASE UserWrites
  <2>1. /\ UNCHANGED config /\ UNCHANGED <<phase, duplex, read>> /\ phase = "user"
        /\ Has(output)
    BY <1>5 DEF UserWrites
  <2>2. Has(output)' = Has(output) /\ IsDuplex' = IsDuplex
    BY <2>1 DEF Has, config, IsDuplex
  <2> QED BY <2>1, <2>2
<1>6. ASSUME NEW f \in Int, UserReturns(f) PROVE BufferOK'
  <2>1. phase' = "reply" /\ UNCHANGED read
    BY <1>6 DEF UserReturns
  <2> QED BY <2>1
<1>7. CASE DataCallbackReturn
  <2>1. phase' = "ready" /\ UNCHANGED read
    BY <1>7 DEF DataCallbackReturn, Return
  <2> QED BY <2>1
<1>8. CASE UNCHANGED vars
  BY <1>8 DEF vars, Has, IsDuplex
<1> QED BY <1>1, <1>2, <1>3, <1>4, <1>5, <1>6, <1>7, <1>8 DEF AnyNext

\* A duplex callback reads this callback's input, although the output goes to
\* the same area, in whatever order the user's callback reads and writes.
\* (CallbackServer::process, the copy to duplex_input)
THEOREM DuplexInputIntact == Spec => []InputIntact
<1>1. IInv /\ BufferOK /\ [Next]_vars => BufferOK'
  BY NextIsAny, BufferStep
<1>2. BufferOK => InputIntact
  BY DEF BufferOK
<1> QED BY <1>1, <1>2, BufferInit, InitInv, StepInv, PTL DEF Spec

-----------------------------------------------------------------------------
(* Type correctness *)

InCall == phase \in {"client", "user", "reply"}

\* A callback in progress is not counted yet.
CountOK == calls \in 0..MaxCallbacks /\ (InCall => calls < MaxCallbacks)

LEMMA CountInit == Init => CountOK
<1> SUFFICES ASSUME Init PROVE CountOK
  OBVIOUS
<1>1. MaxCallbacks \in Nat
  BY DataTransferAssumption
<1>2. calls = 0 /\ phase = "create"
  BY DEF Init
<1> QED BY <1>1, <1>2 DEF CountOK, InCall

LEMMA CountStep ==
  ASSUME CountOK, [AnyNext]_vars
  PROVE  CountOK'
<1>1. MaxCallbacks \in Nat
  BY DataTransferAssumption
<1>2. CASE calls' = calls /\ (InCall' => InCall)
  BY <1>2 DEF CountOK
<1>3. CASE (calls' = calls \/ (calls' = calls + 1 /\ ~InCall')) /\ calls < MaxCallbacks
  BY <1>1, <1>3 DEF CountOK
<1>4. CASE ProcessStreamCreate \/ ProcessStreamInit
  BY <1>2, <1>4 DEF ProcessStreamCreate, ProcessStreamInit, InCall
<1>5. ASSUME NEW n \in Nat, DataCallback(n) PROVE CountOK'
  BY <1>3, <1>5 DEF DataCallback, Return, InCall
<1>6. CASE ClientData
  BY <1>2, <1>6 DEF ClientData, InCall
<1>7. CASE UserReads \/ UserWrites
  BY <1>2, <1>7 DEF UserReads, UserWrites, InCall
<1>8. ASSUME NEW f \in Int, UserReturns(f) PROVE CountOK'
  BY <1>2, <1>8 DEF UserReturns, InCall
<1>9. CASE DataCallbackReturn
  <2>1. calls' = calls + 1 /\ ~InCall' /\ InCall
    BY <1>9 DEF DataCallbackReturn, Return, InCall
  <2> QED BY <1>3, <2>1 DEF CountOK
<1>10. CASE UNCHANGED vars
  BY <1>2, <1>10 DEF vars, InCall
<1> QED BY <1>4, <1>5, <1>6, <1>7, <1>8, <1>9, <1>10 DEF AnyNext

\* The values of the other variables.
ValuesOK ==
  /\ request \in Latencies /\ override \in Overrides
  /\ phase \in {"create", "init", "ready", "client", "user", "reply", "refused"}
  /\ shm \in Contents /\ duplex \in Contents /\ read \in Contents
  /\ resp \in Int /\ result \in Nat \cup {CubebError}

LEMMA ValuesInit == Init => ValuesOK
<1> SUFFICES ASSUME Init PROVE ValuesOK
  OBVIOUS
<1>1. /\ request \in Latencies /\ override \in Overrides /\ phase = "create"
      /\ shm = "stale" /\ duplex = "stale" /\ read = "none" /\ resp = 0 /\ result = 0
  BY DEF Init
<1>2. resp \in Int /\ result \in Nat
  BY <1>1
<1> QED BY <1>1, <1>2 DEF ValuesOK, Contents

LEMMA ValuesStep ==
  ASSUME IInv, ValuesOK, [AnyNext]_vars
  PROVE  ValuesOK'
<1> USE DEF ValuesOK
<1>1. CASE ProcessStreamCreate
  BY <1>1 DEF ProcessStreamCreate, config
<1>2. CASE ProcessStreamInit
  BY <1>2 DEF ProcessStreamInit, config
<1>3. ASSUME NEW n \in Nat, DataCallback(n) PROVE ValuesOK'
  <2>1. UNCHANGED config /\ UNCHANGED resp /\ duplex' = "stale" /\ read' = "none"
        /\ shm' \in {"input", "stale"}
    BY <1>3 DEF DataCallback
  <2>2. phase' \in {"ready", "client"} /\ result' \in {CubebError, 0, result}
    BY <1>3 DEF DataCallback, Return
  <2>3. result' \in Nat \cup {CubebError}
    BY <2>2
  <2> QED BY <2>1, <2>2, <2>3 DEF config, Contents
<1>4. CASE ClientData
  <2>1. UNCHANGED config /\ UNCHANGED <<shm, read, result>> /\ phase' \in {"user", "reply"}
        /\ duplex' \in {shm, duplex} /\ resp' \in {resp, CubebError}
    BY <1>4 DEF ClientData, DuplexCopy
  <2>2. resp' \in Int
    BY <2>1 DEF CubebError
  <2> QED BY <2>1, <2>2 DEF config
<1>5. CASE UserReads
  BY <1>5 DEF UserReads, config
<1>6. CASE UserWrites
  BY <1>6 DEF UserWrites, config, Contents
<1>7. ASSUME NEW f \in Int, UserReturns(f) PROVE ValuesOK'
  BY <1>7 DEF UserReturns, config
<1>8. CASE DataCallbackReturn
  <2>1. UNCHANGED config /\ UNCHANGED <<shm, duplex, read, resp>> /\ phase' = "ready"
    BY <1>8 DEF DataCallbackReturn, Return
  <2>2. result' \in Nat \cup {CubebError}
    <3>1. CASE FramesValid(resp)
      <4>1. result' = resp /\ resp \in 0..nframes
        BY <1>8, <3>1 DEF DataCallbackReturn, Return, FramesValid
      <4>2. nframes \in Nat
        BY DEF IInv, NumbersOK
      <4> QED BY <4>1, <4>2
    <3>2. CASE ~FramesValid(resp)
      BY <1>8, <3>2 DEF DataCallbackReturn, Return
    <3> QED BY <3>1, <3>2
  <2> QED BY <2>1, <2>2 DEF config
<1>9. CASE UNCHANGED vars
  BY <1>9 DEF vars
<1> QED BY <1>1, <1>2, <1>3, <1>4, <1>5, <1>6, <1>7, <1>8, <1>9 DEF AnyNext

\* Type correctness: in particular data_callback returns a count of frames or
\* CUBEB_ERROR, whatever number the client sends.
THEOREM TypeCorrect == Spec => []TypeOK
<1>1. IInv /\ CountOK /\ [Next]_vars => CountOK'
  BY NextIsAny, CountStep
<1>2. IInv /\ ValuesOK /\ [Next]_vars => ValuesOK'
  BY NextIsAny, ValuesStep
<1>3. IInv /\ CountOK /\ ValuesOK => TypeOK
  BY DEF IInv, NumbersOK, CountOK, ValuesOK, TypeOK
<1> QED BY <1>1, <1>2, <1>3, CountInit, ValuesInit, InitInv, StepInv, PTL DEF Spec

=============================================================================
