------------------------ MODULE HandleTransferProofs ------------------------
(***************************************************************************)
(* Proofs about HandleTransfer: for both platforms, any lengths of items,  *)
(* any splitting of the bytes and any number of items and handles.         *)
(*                                                                         *)
(* The inductive invariant describes what is between the two Handlers: the *)
(* bytes (StreamOK), the handles not yet sent (UnsentOK) and who has each  *)
(* handle open (OpenOK).                                                   *)
(***************************************************************************)
EXTENDS HandleTransfer, FiniteSetTheorems, FunctionTheorems, SequenceTheorems,
        WellFoundedInduction, TLAPS

BytesOf(w) == [j \in 1..Len(w) |-> w[j].byte]

\* The bytes between the two Handlers, the oldest first.
Bytes == (inbuf \o BytesOf(wire)) \o outbuf

\* The last position of item i of items.
FrameEnd(items, i) == HeaderLen + items[i].len

\* The byte that comes after b in the stream of items.
NextByte(items, b) ==
  IF b[2] < FrameEnd(items, b[1]) THEN <<b[1], b[2] + 1>> ELSE <<b[1] + 1, 1>>

Whole(items, b) == b[1] \in 1..Len(items) /\ b[2] \in 1..FrameEnd(items, b[1])

\* s is a piece of the stream of items.
Chain(items, s) ==
  /\ \A j \in 1..Len(s) : Whole(items, s[j])
  /\ \A j \in 1..(Len(s) - 1) : s[j + 1] = NextByte(items, s[j])

\* The items whose bytes are in s.
Items(s) == {s[j][1] : j \in 1..Len(s)}

\* The item being received is the next one to be delivered.
Current == Len(delivered) + 1

\* The bytes under way are the piece of the stream from where the decoder is
\* to the last byte produced, as long as neither end is closed.
StreamOK ==
  /\ Len(delivered) <= Len(sent)
  /\ Len(sent) <= MaxItems
  /\ \A i \in 1..Len(sent) : sent[i].id = i /\ sent[i].handle \in {i, NoHandle}
  /\ rconn = "open" =>
       /\ Chain(sent, Bytes)
       /\ decoder # Length =>
            Len(delivered) < Len(sent) /\ decoder = sent[Current].len
       /\ Bytes # <<>> =>
            Bytes[1] = <<Current, IF decoder = Length THEN 1 ELSE HeaderLen + 1>>
       /\ sconn = "open" =>
            IF Bytes = <<>> THEN decoder = Length /\ Len(delivered) = Len(sent)
            ELSE Bytes[Len(Bytes)] = <<Len(sent), FrameEnd(sent, Len(sent))>>
  /\ rconn = "closed" => inbuf = <<>> /\ wire = <<>> /\ inhandles = <<>>

\* A handle that waits to be sent belongs to an item that is not delivered.
Own(items, c, h) == h \in c..Len(items) /\ items[h].handle = h

\* Strictly increasing.
Inc(s) == \A i, j \in 1..Len(s) : i < j => s[i] < s[j]

\* The handles not yet sent: those of items of which no byte is sent.
UnsentOK ==
  /\ \A i \in 1..Len(outhandles) : Own(sent, Current, outhandles[i])
  /\ Items(inbuf \o BytesOf(wire)) \cap ToSet(outhandles) = {}
  /\ Inc(outhandles)

\* The items of d that have handle h.
Holders(d, h) == {i \in 1..Len(d) : d[i].handle = h}

\* The handles of the receiving process.
OpenOK ==
  /\ platform = "unix" =>
       \A h \in Ids :
         ropen[h] = Count(h, inhandles) + Cardinality(Holders(delivered, h))
  /\ platform = "windows" =>
       /\ cmsg = <<>> /\ inhandles = <<>>
       /\ \A j \in 1..Len(wire) : wire[j].fds = <<>>
       /\ \A i \in 1..Len(outhandles) : ropen[outhandles[i]] >= 1
       /\ \A i \in 1..Len(delivered) :
            delivered[i].handle = sent[i].handle
            /\ (HasHandle(sent[i]) => ropen[i] >= 1)
       /\ rconn = "open" =>
            \A h \in Items(Bytes) : HasHandle(sent[h]) => ropen[h] >= 1

TransferInv == TypeOK /\ StreamOK /\ UnsentOK /\ OpenOK

-----------------------------------------------------------------------------
(* Sequences *)

\* A header and an item have at least one byte each.
LEMMA Positive ==
  /\ HeaderLen \in Nat /\ HeaderLen >= 1
  /\ \A len \in Lengths : len \in Nat /\ len >= 1
<1>1. Lengths \subseteq Nat \ {0} /\ HeaderLen \in Nat \ {0}
  BY TransferAssumption
<1>2. \A n \in Nat \ {0} : n \in Nat /\ n >= 1
  OBVIOUS
<1> QED
  BY <1>1, <1>2

\* A non-empty set of naturals has a least element.
LEMMA NatMin ==
  ASSUME NEW T, T \subseteq Nat, T # {}
  PROVE  \E x \in T : \A y \in T : ~(y < x)
<1>1. IsWellFoundedOn(OpToRel(<, Nat), Nat)
  BY NatLessThanWellFounded
<1>2. \E x \in T : \A y \in T : ~(<<y, x>> \in OpToRel(<, Nat))
  BY <1>1, WFMin
<1> QED
  BY <1>2 DEF OpToRel

\* The first n elements and the others.
LEMMA Split ==
  ASSUME NEW M, NEW s \in Seq(M), NEW n \in 0..Len(s)
  PROVE  /\ SubSeq(s, 1, n) \in Seq(M) /\ Len(SubSeq(s, 1, n)) = n
         /\ \A i \in 1..n : SubSeq(s, 1, n)[i] = s[i]
         /\ Advance(s, n) \in Seq(M) /\ Len(Advance(s, n)) = Len(s) - n
         /\ \A i \in 1..(Len(s) - n) : Advance(s, n)[i] = s[n + i]
         /\ SubSeq(s, 1, n) \o Advance(s, n) = s
<1>1. n \in Int /\ n <= Len(s) /\ n >= 0 /\ n + 1 \in Int /\ 1 \in Int /\ Len(s) \in Int
  OBVIOUS
<1>2. /\ SubSeq(s, 1, n) \in Seq(M) /\ Len(SubSeq(s, 1, n)) = n
      /\ \A i \in 1..n : SubSeq(s, 1, n)[i] = s[i]
  <2>1. \A i \in 1..n : s[i] \in M
    BY <1>1
  <2> QED
    BY <1>1, <2>1, SubSeqProperties
<1>3. /\ Advance(s, n) \in Seq(M) /\ Len(Advance(s, n)) = Len(s) - n
      /\ \A i \in 1..(Len(s) - n) : Advance(s, n)[i] = s[n + i]
  <2>1. \A i \in (n + 1)..Len(s) : s[i] \in M
    BY <1>1
  <2>2. /\ Advance(s, n) \in Seq(M)
        /\ Len(Advance(s, n)) = IF n + 1 <= Len(s) THEN Len(s) - (n + 1) + 1 ELSE 0
        /\ \A i \in 1..(Len(s) - (n + 1) + 1) : Advance(s, n)[i] = s[(n + 1) + i - 1]
    BY <1>1, <2>1, SubSeqProperties DEF Advance
  <2>3. Len(s) - (n + 1) + 1 = Len(s) - n
    BY <1>1
  <2>4. Len(Advance(s, n)) = Len(s) - n
    BY <1>1, <2>2
  <2>5. ASSUME NEW i \in 1..(Len(s) - n)
        PROVE  Advance(s, n)[i] = s[n + i]
    <3>1. (n + 1) + i - 1 = n + i
      BY <1>1
    <3>2. Advance(s, n)[i] = s[(n + 1) + i - 1]
      BY <2>2, <2>3
    <3> QED
      BY <3>1, <3>2
  <2> QED
    BY <2>2, <2>4, <2>5
<1>4. SubSeq(s, 1, n) \o Advance(s, n) = s
  <2> DEFINE a == SubSeq(s, 1, n)
             b == Advance(s, n)
  <2>1. /\ a \o b \in Seq(M) /\ Len(a \o b) = Len(s)
        /\ \A i \in 1..Len(s) : (a \o b)[i] = IF i <= n THEN a[i] ELSE b[i - n]
    BY <1>1, <1>2, <1>3, ConcatProperties
  <2>2. \A i \in 1..Len(s) : (a \o b)[i] = s[i]
    <3>1. TAKE i \in 1..Len(s)
    <3>2. CASE i <= n
      BY <2>1, <3>2, <1>1, <1>2
    <3>3. CASE ~(i <= n)
      <4>1. i - n \in 1..(Len(s) - n) /\ n + (i - n) = i
        BY <3>3, <1>1
      <4> QED
        BY <2>1, <3>3, <4>1, <1>3
    <3> QED
      BY <3>2, <3>3
  <2> QED
    BY <2>1, <2>2, SeqEqual
<1> QED
  BY <1>2, <1>3, <1>4

\* Taking from the front of a concatenation.
LEMMA AdvanceCat ==
  ASSUME NEW M, NEW s \in Seq(M), NEW t \in Seq(M), NEW n \in 0..Len(s)
  PROVE  Advance(s \o t, n) = Advance(s, n) \o t
<1> DEFINE u == s \o t
           v == Advance(s, n)
           a == Advance(u, n)
           b == v \o t
<1>1. u \in Seq(M) /\ Len(u) = Len(s) + Len(t)
      /\ \A i \in 1..(Len(s) + Len(t)) :
           u[i] = IF i <= Len(s) THEN s[i] ELSE t[i - Len(s)]
  BY ConcatProperties
<1>2. Len(s) \in Nat /\ Len(t) \in Nat /\ n \in Nat /\ n <= Len(s)
  OBVIOUS
<1>3. v \in Seq(M) /\ Len(v) = Len(s) - n
      /\ \A i \in 1..(Len(s) - n) : v[i] = s[n + i]
  BY Split
<1> HIDE DEF u, v
<1>4. n \in 0..Len(u)
  BY <1>1, <1>2
<1>5. a \in Seq(M) /\ Len(a) = Len(u) - n
      /\ \A i \in 1..(Len(u) - n) : a[i] = u[n + i]
  BY <1>1, <1>4, Split
<1>6. b \in Seq(M) /\ Len(b) = Len(v) + Len(t)
      /\ \A i \in 1..(Len(v) + Len(t)) :
           b[i] = IF i <= Len(v) THEN v[i] ELSE t[i - Len(v)]
  BY <1>3, ConcatProperties
<1> HIDE DEF a, b
<1>7. Len(a) = Len(b)
  BY <1>1, <1>2, <1>3, <1>5, <1>6
<1>8. ASSUME NEW i \in 1..Len(a)
      PROVE  a[i] = b[i]
  <2>1. /\ n + i \in 1..(Len(s) + Len(t)) /\ i \in 1..(Len(v) + Len(t))
        /\ i \in 1..(Len(u) - n)
    BY <1>1, <1>2, <1>3, <1>5
  <2>2. CASE n + i <= Len(s)
    <3>1. i \in 1..(Len(s) - n) /\ i <= Len(v)
      BY <2>2, <1>2, <1>3
    <3> QED
      BY <2>1, <2>2, <3>1, <1>1, <1>3, <1>5, <1>6
  <2>3. CASE ~(n + i <= Len(s))
    <3>1. ~(i <= Len(v)) /\ n + i - Len(s) = i - Len(v)
      BY <2>3, <1>2, <1>3
    <3>2. a[i] = t[n + i - Len(s)]
      <4>1. a[i] = u[n + i]
        BY <2>1, <1>5
      <4>2. u[n + i] = t[(n + i) - Len(s)]
        BY <2>1, <2>3, <1>1
      <4> QED
        BY <4>1, <4>2
    <3>3. b[i] = t[i - Len(v)]
      BY <2>1, <3>1, <1>6
    <3> QED
      BY <3>1, <3>2, <3>3
  <2> QED
    BY <2>2, <2>3
<1>9. a = b
  BY <1>5, <1>6, <1>7, <1>8, SeqEqual
<1> QED
  BY <1>9 DEF a, b, u, v

\* Where the elements of three concatenated sequences are.
LEMMA CatThree ==
  ASSUME NEW M, NEW s \in Seq(M), NEW t \in Seq(M), NEW u \in Seq(M)
  PROVE  /\ (s \o t) \o u \in Seq(M)
         /\ Len((s \o t) \o u) = Len(s) + Len(t) + Len(u)
         /\ \A i \in 1..Len(s) : ((s \o t) \o u)[i] = s[i]
         /\ \A i \in 1..Len(t) : ((s \o t) \o u)[Len(s) + i] = t[i]
         /\ \A i \in 1..Len(u) : ((s \o t) \o u)[Len(s) + Len(t) + i] = u[i]
<1>1. s \o t \in Seq(M) /\ Len(s \o t) = Len(s) + Len(t)
      /\ \A i \in 1..(Len(s) + Len(t)) :
           (s \o t)[i] = IF i <= Len(s) THEN s[i] ELSE t[i - Len(s)]
  BY ConcatProperties
<1>2. (s \o t) \o u \in Seq(M) /\ Len((s \o t) \o u) = Len(s \o t) + Len(u)
      /\ \A i \in 1..(Len(s \o t) + Len(u)) :
           ((s \o t) \o u)[i] = IF i <= Len(s \o t) THEN (s \o t)[i]
                                ELSE u[i - Len(s \o t)]
  BY <1>1, ConcatProperties
<1>3. Len(s) \in Nat /\ Len(t) \in Nat /\ Len(u) \in Nat
  OBVIOUS
<1>4. \A i \in 1..Len(s) : i \in 1..(Len(s \o t) + Len(u)) /\ i <= Len(s \o t)
                           /\ i \in 1..(Len(s) + Len(t)) /\ i <= Len(s)
  BY <1>1, <1>3
<1>5. \A i \in 1..Len(t) : /\ Len(s) + i \in 1..(Len(s \o t) + Len(u))
                           /\ Len(s) + i <= Len(s \o t)
                           /\ Len(s) + i \in 1..(Len(s) + Len(t))
                           /\ ~(Len(s) + i <= Len(s)) /\ Len(s) + i - Len(s) = i
  BY <1>1, <1>3
<1>6. \A i \in 1..Len(u) : /\ Len(s) + Len(t) + i \in 1..(Len(s \o t) + Len(u))
                           /\ ~(Len(s) + Len(t) + i <= Len(s \o t))
                           /\ Len(s) + Len(t) + i - Len(s \o t) = i
  BY <1>1, <1>3
<1>7. \A i \in 1..Len(s) : ((s \o t) \o u)[i] = s[i]
  BY <1>1, <1>2, <1>4
<1>8. \A i \in 1..Len(t) : ((s \o t) \o u)[Len(s) + i] = t[i]
  BY <1>1, <1>2, <1>5
<1>9. \A i \in 1..Len(u) : ((s \o t) \o u)[Len(s) + Len(t) + i] = u[i]
  BY <1>2, <1>6
<1> QED
  BY <1>1, <1>2, <1>7, <1>8, <1>9

-----------------------------------------------------------------------------
(* The stream of the items' bytes *)

\* A piece of a piece of the stream.
LEMMA ChainSplit ==
  ASSUME NEW items, NEW s \in Seq(Byte), Chain(items, s), NEW n \in 0..Len(s)
  PROVE  Chain(items, Advance(s, n)) /\ Chain(items, SubSeq(s, 1, n))
<1> DEFINE a == SubSeq(s, 1, n)
           b == Advance(s, n)
<1>1. /\ Len(a) = n /\ \A i \in 1..n : a[i] = s[i]
      /\ Len(b) = Len(s) - n /\ \A i \in 1..(Len(s) - n) : b[i] = s[n + i]
  BY Split
<1>2. n \in Nat /\ n <= Len(s) /\ Len(s) \in Nat
  OBVIOUS
<1> HIDE DEF a, b
<1>3. Chain(items, a)
  <2>1. \A j \in 1..n : j \in 1..Len(s)
    BY <1>2
  <2>2. \A j \in 1..(n - 1) : j \in 1..(Len(s) - 1) /\ j \in 1..n /\ j + 1 \in 1..n
    BY <1>2
  <2> QED
    BY <1>1, <2>1, <2>2 DEF Chain
<1>4. Chain(items, b)
  <2>1. \A j \in 1..(Len(s) - n) : n + j \in 1..Len(s)
    BY <1>2
  <2>2. ASSUME NEW j \in 1..(Len(b) - 1)
        PROVE  b[j + 1] = NextByte(items, b[j])
    <3>1. /\ n + j \in 1..(Len(s) - 1) /\ j \in 1..(Len(s) - n)
          /\ j + 1 \in 1..(Len(s) - n) /\ n + (j + 1) = (n + j) + 1
      BY <1>1, <1>2
    <3>2. b[j + 1] = s[(n + j) + 1] /\ b[j] = s[n + j]
      BY <1>1, <3>1
    <3> QED
      BY <3>1, <3>2 DEF Chain
  <2>3. \A j \in 1..Len(b) : Whole(items, b[j])
    BY <1>1, <2>1 DEF Chain
  <2> QED
    BY <2>2, <2>3 DEF Chain
<1> QED
  BY <1>3, <1>4 DEF a, b

\* Two pieces that meet make one.
LEMMA ChainJoin ==
  ASSUME NEW items, NEW s \in Seq(Byte), NEW t \in Seq(Byte),
         Chain(items, s), Chain(items, t),
         s # <<>> /\ t # <<>> => t[1] = NextByte(items, s[Len(s)])
  PROVE  Chain(items, s \o t)
<1> DEFINE u == s \o t
<1>1. u \in Seq(Byte) /\ Len(u) = Len(s) + Len(t)
      /\ \A i \in 1..(Len(s) + Len(t)) :
           u[i] = IF i <= Len(s) THEN s[i] ELSE t[i - Len(s)]
  BY ConcatProperties
<1>2. Len(s) \in Nat /\ Len(t) \in Nat /\ (s = <<>> <=> Len(s) = 0)
      /\ (t = <<>> <=> Len(t) = 0)
  OBVIOUS
<1> HIDE DEF u
<1>3. ASSUME NEW j \in 1..Len(u)
      PROVE  Whole(items, u[j])
  <2>1. CASE j <= Len(s)
    <3>1. j \in 1..Len(s) /\ u[j] = s[j]
      BY <2>1, <1>1, <1>2
    <3> QED
      BY <3>1 DEF Chain
  <2>2. CASE ~(j <= Len(s))
    <3>1. j - Len(s) \in 1..Len(t) /\ u[j] = t[j - Len(s)]
      BY <2>2, <1>1, <1>2
    <3> QED
      BY <3>1 DEF Chain
  <2> QED
    BY <2>1, <2>2
<1>4. ASSUME NEW j \in 1..(Len(u) - 1)
      PROVE  u[j + 1] = NextByte(items, u[j])
  <2>0. j \in 1..(Len(s) + Len(t)) /\ j + 1 \in 1..(Len(s) + Len(t))
    BY <1>1, <1>2
  <2>1. CASE j + 1 <= Len(s)
    <3>1. j \in 1..(Len(s) - 1) /\ u[j + 1] = s[j + 1] /\ u[j] = s[j]
      BY <2>0, <2>1, <1>1, <1>2
    <3> QED
      BY <3>1 DEF Chain
  <2>2. CASE j = Len(s)
    <3>1. u[j] = s[Len(s)] /\ u[j + 1] = t[(j + 1) - Len(s)] /\ (j + 1) - Len(s) = 1
      BY <2>0, <2>2, <1>1, <1>2
    <3>2. s # <<>> /\ t # <<>>
      BY <2>0, <2>2, <1>1, <1>2
    <3> QED
      BY <3>1, <3>2
  <2>3. CASE ~(j <= Len(s))
    <3>1. j - Len(s) \in 1..(Len(t) - 1) /\ (j + 1) - Len(s) = (j - Len(s)) + 1
      BY <2>3, <1>1, <1>2
    <3>2. ~(j + 1 <= Len(s))
      BY <2>3, <1>2
    <3>3. u[j] = t[j - Len(s)]
      BY <2>0, <2>3, <1>1
    <3>4. u[j + 1] = t[(j + 1) - Len(s)]
      BY <2>0, <3>2, <1>1
    <3> QED
      BY <3>1, <3>3, <3>4 DEF Chain
  <2> QED
    BY <2>1, <2>2, <2>3, <1>2
<1> QED
  BY <1>3, <1>4 DEF Chain, u

\* A piece that starts in an item goes on with that item's bytes.
LEMMA ChainRun ==
  ASSUME NEW items, NEW s \in Seq(Byte), Chain(items, s),
         NEW i \in Nat, NEW k \in Nat, s # <<>>, s[1] = <<i, k>>,
         NEW n \in 1..Len(s), FrameEnd(items, i) \in Nat, k + n - 1 <= FrameEnd(items, i)
  PROVE  \A j \in 1..n : s[j] = <<i, k + j - 1>>
<1> DEFINE T == {j \in 1..n : s[j] # <<i, k + j - 1>>}
<1>1. SUFFICES ASSUME T # {} PROVE FALSE
  OBVIOUS
<1>2. T \subseteq Nat
  OBVIOUS
<1>3. PICK j \in T : \A l \in T : ~(l < j)
  BY <1>1, <1>2, NatMin
<1>4. j \in 1..n /\ s[j] # <<i, k + j - 1>>
  OBVIOUS
<1>5. j # 1
  <2>1. k + 1 - 1 = k
    OBVIOUS
  <2> QED
    BY <1>4, <2>1
<1>6. j - 1 \in 1..n /\ j - 1 < j /\ j - 1 \in 1..(Len(s) - 1) /\ (j - 1) + 1 = j
  BY <1>4, <1>5
<1>7. s[j - 1] = <<i, k + (j - 1) - 1>>
  <2>1. j - 1 \notin T
    BY <1>3, <1>6
  <2> QED
    BY <1>6, <2>1
<1>8. k + (j - 1) - 1 < FrameEnd(items, i)
  BY <1>4
<1>9. s[(j - 1) + 1] = NextByte(items, s[j - 1])
  BY <1>6 DEF Chain
<1>10. s[j] = <<i, k + (j - 1) - 1 + 1>>
  BY <1>6, <1>7, <1>8, <1>9 DEF NextByte
<1>11. k + (j - 1) - 1 + 1 = k + j - 1
  BY <1>4
<1> QED
  BY <1>4, <1>10, <1>11

\* A piece never goes back to an earlier item.
LEMMA ChainMono ==
  ASSUME NEW items, NEW s \in Seq(Byte), Chain(items, s), s # <<>>
  PROVE  \A j \in 1..Len(s) : s[1][1] <= s[j][1]
<1> DEFINE T == {j \in 1..Len(s) : ~(s[1][1] <= s[j][1])}
<1>1. SUFFICES ASSUME T # {} PROVE FALSE
  OBVIOUS
<1>2. T \subseteq Nat
  OBVIOUS
<1>3. PICK j \in T : \A l \in T : ~(l < j)
  BY <1>1, <1>2, NatMin
<1>4. j \in 1..Len(s) /\ ~(s[1][1] <= s[j][1])
  OBVIOUS
<1>5. \A l \in 1..Len(s) : s[l] \in Byte /\ s[l][1] \in Nat
  BY DEF Byte, Ids
<1>6. j # 1
  BY <1>4, <1>5
<1>7. j - 1 \in 1..Len(s) /\ j - 1 < j /\ j - 1 \in 1..(Len(s) - 1) /\ (j - 1) + 1 = j
  BY <1>4, <1>6
<1>8. s[1][1] <= s[j - 1][1]
  <2>1. j - 1 \notin T
    BY <1>3, <1>7
  <2> QED
    BY <1>7, <2>1
<1>9. s[j] = NextByte(items, s[j - 1])
  BY <1>7 DEF Chain
<1>10. s[j][1] = s[j - 1][1] \/ s[j][1] = s[j - 1][1] + 1
  BY <1>9 DEF NextByte
<1> QED
  BY <1>4, <1>5, <1>7, <1>8, <1>10

\* The items sent before keep their bytes.
LEMMA ChainExtend ==
  ASSUME NEW items \in Seq(Item), NEW item \in Item, NEW s, Chain(items, s)
  PROVE  Chain(Append(items, item), s)
<1> DEFINE more == Append(items, item)
<1>1. Len(more) = Len(items) + 1 /\ Len(items) \in Nat
      /\ \A i \in 1..Len(items) : more[i] = items[i]
  OBVIOUS
<1> HIDE DEF more
<1>2. \A i \in 1..Len(items) : i \in 1..Len(more) /\ FrameEnd(more, i) = FrameEnd(items, i)
  BY <1>1 DEF FrameEnd
<1>3. \A b : Whole(items, b) => Whole(more, b) /\ NextByte(more, b) = NextByte(items, b)
  BY <1>2 DEF Whole, NextByte
<1>4. \A j \in 1..Len(s) : Whole(more, s[j])
  BY <1>3 DEF Chain
<1>5. \A j \in 1..(Len(s) - 1) : Whole(items, s[j]) \/ ~(j \in 1..Len(s))
  BY DEF Chain
<1> QED
  BY <1>1, <1>3, <1>4 DEF Chain, more

\* The frame of the last item is a piece of the stream.
LEMMA EncodeChain ==
  ASSUME NEW items \in Seq(Item), items # <<>>, items[Len(items)].id = Len(items)
  PROVE  LET f == Encode(items[Len(items)])
             n == FrameEnd(items, Len(items))
         IN  /\ f \in Seq(Byte) /\ Chain(items, f)
             /\ n \in Nat /\ n >= 2 /\ Len(f) = n /\ f # <<>>
             /\ f[1] = <<Len(items), 1>>
             /\ f[n] = <<Len(items), n>>
<1> DEFINE l == Len(items)
           n == FrameEnd(items, l)
           f == Encode(items[l])
<1>1. l \in Nat /\ l >= 1 /\ l \in 1..l /\ items[l] \in Item
  OBVIOUS
<1>2. n \in Nat /\ n >= 2 /\ items[l].id = l /\ l \in Ids
  <2>1. items[l].id = l /\ items[l].id \in Ids /\ items[l].len \in Lengths
    BY <1>1 DEF Item
  <2>2. items[l].len \in Nat /\ items[l].len >= 1
    BY <2>1, Positive
  <2>3. items[l].len \in Nat /\ items[l].len >= 1 /\ HeaderLen \in Nat /\ HeaderLen >= 1
    BY <2>2, Positive
  <2> QED
    BY <2>1, <2>3 DEF FrameEnd
<1>3. f = [k \in 1..n |-> <<l, k>>]
  BY <1>2 DEF Encode, FrameEnd
<1> HIDE DEF n, f, l
<1>4. f \in Seq(Byte)
  <2>1. \A k \in 1..n : <<l, k>> \in Byte
    BY <1>2 DEF Byte
  <2> QED
    BY <1>2, <1>3, <2>1, IsASeq
<1>5. Len(f) = n
  BY <1>2, <1>3
<1>6. \A k \in 1..n : f[k] = <<l, k>>
  BY <1>3
<1>7. Chain(items, f)
  <2>1. ASSUME NEW j \in 1..n PROVE Whole(items, f[j])
    <3>1. f[j][1] = l /\ f[j][2] = j
      BY <1>6
    <3> QED
      BY <1>1, <3>1 DEF Whole, n, l
  <2>2. ASSUME NEW j \in 1..(n - 1) PROVE f[j + 1] = NextByte(items, f[j])
    <3>1. j \in 1..n /\ j + 1 \in 1..n /\ j < n
      BY <1>2
    <3>2. f[j][1] = l /\ f[j][2] = j /\ f[j + 1] = <<l, j + 1>>
      BY <1>6, <3>1
    <3> QED
      BY <3>1, <3>2 DEF NextByte, n
  <2> QED
    BY <1>5, <2>1, <2>2 DEF Chain
<1>8. 1 \in 1..n /\ n \in 1..n
  BY <1>2
<1>9. f # <<>>
  BY <1>2, <1>5
<1> QED
  BY <1>2, <1>4, <1>5, <1>6, <1>7, <1>8, <1>9 DEF n, f, l

\* The types of the three parts, and where their bytes are in Bytes.
LEMMA Parts ==
  ASSUME NEW in \in Seq(Byte), NEW w \in Seq(Cell), NEW out \in Seq(Byte)
  PROVE  LET all == (in \o BytesOf(w)) \o out
         IN  /\ BytesOf(w) \in Seq(Byte)
             /\ Len(BytesOf(w)) = Len(w)
             /\ \A j \in 1..Len(w) : BytesOf(w)[j] = w[j].byte
             /\ all \in Seq(Byte)
             /\ Len(all) = Len(in) + Len(w) + Len(out)
             /\ \A j \in 1..Len(in) : all[j] = in[j]
             /\ \A j \in 1..Len(w) : all[Len(in) + j] = w[j].byte
             /\ \A j \in 1..Len(out) : all[Len(in) + Len(w) + j] = out[j]
<1>1. \A j \in 1..Len(w) : w[j].byte \in Byte
  <2>1. \A j \in 1..Len(w) : w[j] \in Cell
    OBVIOUS
  <2> QED
    BY <2>1 DEF Cell
<1>2. Len(w) \in Nat
  OBVIOUS
<1>3. BytesOf(w) \in Seq(Byte) /\ Len(BytesOf(w)) = Len(w)
      /\ \A j \in 1..Len(w) : BytesOf(w)[j] = w[j].byte
  BY <1>1, <1>2, IsASeq DEF BytesOf
<1> DEFINE b == BytesOf(w)
           all == (in \o b) \o out
<1> HIDE DEF b
<1>4. b \in Seq(Byte) /\ Len(b) = Len(w) /\ \A j \in 1..Len(w) : b[j] = w[j].byte
  BY <1>3 DEF b
<1>5. /\ all \in Seq(Byte)
      /\ Len(all) = Len(in) + Len(b) + Len(out)
      /\ \A j \in 1..Len(in) : all[j] = in[j]
      /\ \A j \in 1..Len(b) : all[Len(in) + j] = b[j]
      /\ \A j \in 1..Len(out) : all[Len(in) + Len(b) + j] = out[j]
  <2>1. in \in Seq(Byte) /\ b \in Seq(Byte) /\ out \in Seq(Byte)
    BY <1>4
  <2> QED
    BY <2>1, CatThree
<1> HIDE DEF all
<1>6. /\ all \in Seq(Byte)
      /\ Len(all) = Len(in) + Len(w) + Len(out)
      /\ \A j \in 1..Len(in) : all[j] = in[j]
      /\ \A j \in 1..Len(w) : all[Len(in) + j] = w[j].byte
      /\ \A j \in 1..Len(out) : all[Len(in) + Len(w) + j] = out[j]
  BY <1>4, <1>5
<1> QED
  BY <1>3, <1>6 DEF all, b

-----------------------------------------------------------------------------
(* Counting handles *)

\* Where h is in hs.
Places(h, hs) == {i \in 1..Len(hs) : hs[i] = h}

LEMMA PlacesFinite ==
  ASSUME NEW M, NEW hs \in Seq(M), NEW h
  PROVE  IsFiniteSet(Places(h, hs)) /\ Cardinality(Places(h, hs)) \in Nat
<1>1. Len(hs) \in Int /\ 1 \in Int
  OBVIOUS
<1>2. IsFiniteSet(1..Len(hs))
  BY <1>1, FS_Interval
<1>3. Places(h, hs) \in SUBSET (1..Len(hs))
  BY DEF Places
<1>4. IsFiniteSet(Places(h, hs))
  BY <1>2, <1>3, FS_Subset
<1> QED
  BY <1>4, FS_CardinalityType

LEMMA CountType ==
  ASSUME NEW M, NEW hs \in Seq(M), NEW h
  PROVE  Count(h, hs) \in Nat
BY PlacesFinite DEF Count, Places

LEMMA CountEmpty ==
  \A h : Count(h, <<>>) = 0
<1>1. ASSUME NEW h PROVE Count(h, <<>>) = 0
  <2>1. {i \in 1..Len(<<>>) : <<>>[i] = h} = {}
    OBVIOUS
  <2> QED
    BY <2>1, FS_EmptySet DEF Count
<1> QED
  BY <1>1

LEMMA CountCat ==
  ASSUME NEW M, NEW a \in Seq(M), NEW b \in Seq(M), NEW h
  PROVE  Count(h, a \o b) = Count(h, a) + Count(h, b)
<1> DEFINE c == a \o b
           A == Places(h, a)
           B == Places(h, b)
           C == {Len(a) + i : i \in B}
           f == [i \in B |-> Len(a) + i]
<1>1. c \in Seq(M) /\ Len(c) = Len(a) + Len(b)
      /\ \A i \in 1..(Len(a) + Len(b)) :
           c[i] = IF i <= Len(a) THEN a[i] ELSE b[i - Len(a)]
  BY ConcatProperties
<1>2. Len(a) \in Nat /\ Len(b) \in Nat
  OBVIOUS
<1>3. A \subseteq 1..Len(a) /\ B \subseteq 1..Len(b)
      /\ (\A i \in 1..Len(a) : i \in A <=> a[i] = h)
      /\ (\A i \in 1..Len(b) : i \in B <=> b[i] = h)
  BY DEF Places
<1>4. IsFiniteSet(A) /\ IsFiniteSet(B)
      /\ Cardinality(A) \in Nat /\ Cardinality(B) \in Nat
  BY PlacesFinite
<1>5. Count(h, a) = Cardinality(A) /\ Count(h, b) = Cardinality(B)
      /\ Count(h, c) = Cardinality(Places(h, c))
  BY DEF Count, Places
<1> HIDE DEF A, B
<1>6. f \in Bijection(B, C)
  <2>1. f \in [B -> C]
    OBVIOUS
  <2>2. \A i, j \in B : f[i] = f[j] => i = j
    <3>1. \A i, j \in B : i \in Nat /\ j \in Nat
      BY <1>3
    <3>2. \A i \in B : f[i] = Len(a) + i
      OBVIOUS
    <3> QED
      BY <1>2, <3>1, <3>2
  <2>3. \A k \in C : \E i \in B : f[i] = k
    OBVIOUS
  <2> HIDE DEF f, C
  <2> QED
    BY <2>1, <2>2, <2>3, Fun_IsBij
<1>7. IsFiniteSet(C) /\ Cardinality(C) = Cardinality(B)
  <2>1. ExistsBijection(B, C)
    <3> HIDE DEF f, C
    <3> QED
      BY <1>6, Fun_ExistsBij
  <2> HIDE DEF C
  <2> QED
    BY <1>4, <2>1, FS_Bijection
<1>8. A \cap C = {}
  BY <1>2, <1>3
<1>9. Places(h, c) = A \cup C
  <2>1. ASSUME NEW i \in Places(h, c) PROVE i \in A \cup C
    <3>1. i \in 1..(Len(a) + Len(b)) /\ c[i] = h
      BY <1>1 DEF Places
    <3>2. CASE i <= Len(a)
      <4>1. i \in 1..Len(a) /\ a[i] = h
        BY <3>1, <3>2, <1>1, <1>2
      <4> QED
        BY <4>1, <1>3
    <3>3. CASE ~(i <= Len(a))
      <4>1. i - Len(a) \in 1..Len(b) /\ b[i - Len(a)] = h /\ i = Len(a) + (i - Len(a))
        BY <3>1, <3>3, <1>1, <1>2
      <4>2. i - Len(a) \in B
        BY <4>1, <1>3
      <4> QED
        BY <4>1, <4>2
    <3> QED
      BY <3>2, <3>3
  <2>2. ASSUME NEW i \in A PROVE i \in Places(h, c)
    <3>1. i \in 1..Len(a) /\ a[i] = h
      BY <1>3
    <3>2. i \in 1..(Len(a) + Len(b)) /\ i <= Len(a)
      BY <3>1, <1>2
    <3>3. c[i] = h
      BY <3>1, <3>2, <1>1
    <3> QED
      BY <1>1, <3>2, <3>3 DEF Places
  <2>3. ASSUME NEW i \in C PROVE i \in Places(h, c)
    <3>1. PICK k \in B : i = Len(a) + k
      OBVIOUS
    <3>2. k \in 1..Len(b) /\ b[k] = h
      BY <1>3
    <3>3. i \in 1..(Len(a) + Len(b)) /\ ~(i <= Len(a)) /\ i - Len(a) = k
      BY <3>1, <3>2, <1>2
    <3>4. c[i] = h
      BY <3>2, <3>3, <1>1
    <3> QED
      BY <1>1, <3>3, <3>4 DEF Places
  <2> QED
    BY <2>1, <2>2, <2>3
<1>10. Cardinality(Places(h, c)) = Cardinality(A) + Cardinality(B)
  <2> HIDE DEF C, c
  <2>1. Cardinality(A \cup C) = Cardinality(A) + Cardinality(C) - Cardinality(A \cap C)
    BY <1>4, <1>7, FS_Union
  <2>2. Cardinality(A \cap C) = 0
    BY <1>8, FS_EmptySet
  <2> QED
    BY <1>4, <1>7, <1>9, <2>1, <2>2
<1> QED
  BY <1>5, <1>10

\* One more element.
LEMMA CountOne ==
  ASSUME NEW x, NEW h
  PROVE  Count(h, <<x>>) = IF x = h THEN 1 ELSE 0
<1>1. CASE x = h
  <2>1. {i \in 1..Len(<<x>>) : <<x>>[i] = h} = {1}
    BY <1>1
  <2> QED
    BY <1>1, <2>1, FS_Singleton DEF Count
<1>2. CASE x # h
  <2>1. {i \in 1..Len(<<x>>) : <<x>>[i] = h} = {}
    BY <1>2
  <2> QED
    BY <1>2, <2>1, FS_EmptySet DEF Count
<1> QED
  BY <1>1, <1>2

\* The first element and the others.
LEMMA CountTail ==
  ASSUME NEW M, NEW s \in Seq(M), s # <<>>, NEW h
  PROVE  Count(h, s) = (IF Head(s) = h THEN 1 ELSE 0) + Count(h, Tail(s))
<1>1. s = <<Head(s)>> \o Tail(s) /\ <<Head(s)>> \in Seq(M) /\ Tail(s) \in Seq(M)
  OBVIOUS
<1> DEFINE x == Head(s)
           t == Tail(s)
<1> HIDE DEF x, t
<1>2. s = <<x>> \o t /\ <<x>> \in Seq(M) /\ t \in Seq(M)
  BY <1>1 DEF x, t
<1>3. Count(h, s) = Count(h, <<x>>) + Count(h, t)
  BY <1>2, CountCat
<1> QED
  BY <1>3, CountOne DEF x, t

LEMMA HoldersAppend ==
  ASSUME NEW M, NEW d \in Seq(M), NEW x \in M, NEW h
  PROVE  /\ Cardinality(Holders(d, h)) \in Nat
         /\ Cardinality(Holders(Append(d, x), h))
              = Cardinality(Holders(d, h)) + (IF x.handle = h THEN 1 ELSE 0)
<1> DEFINE e == Append(d, x)
           S == Holders(d, h)
           n == Len(d) + 1
<1>1. Len(e) = n /\ Len(d) \in Nat /\ n \in Nat /\ e[n] = x
      /\ \A i \in 1..Len(d) : e[i] = d[i]
  OBVIOUS
<1>2. S \subseteq 1..Len(d) /\ n \notin S
  BY <1>1 DEF Holders
<1>3. IsFiniteSet(S)
  <2>1. IsFiniteSet(1..Len(d))
    BY <1>1, FS_Interval
  <2> QED
    BY <1>2, <2>1, FS_Subset
<1>4. Cardinality(S) \in Nat
  BY <1>3, FS_CardinalityType
<1>5. CASE x.handle = h
  <2>1. Holders(e, h) = S \cup {n}
    <3>1. \A i \in 1..n : i \in 1..Len(d) \/ i = n
      BY <1>1
    <3>2. \A i \in 1..Len(d) : i \in 1..n
      BY <1>1
    <3>3. n \in 1..n
      BY <1>1
    <3> HIDE DEF e, n
    <3> QED
      BY <1>1, <1>5, <3>1, <3>2, <3>3 DEF Holders
  <2> HIDE DEF S, n, e
  <2>2. Cardinality(S \cup {n}) = Cardinality(S) + 1
    BY <1>2, <1>3, FS_AddElement
  <2> QED
    BY <1>4, <1>5, <2>1, <2>2 DEF S, e
<1>6. CASE x.handle # h
  <2>1. Holders(e, h) = S
    <3>1. \A i \in 1..n : i \in 1..Len(d) \/ i = n
      BY <1>1
    <3>2. \A i \in 1..Len(d) : i \in 1..n
      BY <1>1
    <3> HIDE DEF e, n
    <3> QED
      BY <1>1, <1>6, <3>1, <3>2 DEF Holders
  <2> QED
    BY <1>4, <1>6, <2>1
<1> QED
  BY <1>5, <1>6

-----------------------------------------------------------------------------
(* The parts of a step *)

\* The item that FlushOutbound produces.
LEMMA ProducedItem ==
  ASSUME TypeOK, CanProduce, NEW len \in Lengths, NEW withHandle \in BOOLEAN
  PROVE  LET item == Produced(len, withHandle)
         IN  /\ item \in Item
             /\ item.id = Len(sent) + 1 /\ item.id \in Ids
             /\ item.handle \in {Len(sent) + 1, NoHandle}
             /\ Len(sent) \in Nat /\ Len(sent) + 1 <= MaxItems
<1>1. Len(sent) \in Nat /\ sent \in Seq(Item)
  BY DEF TypeOK
<1>2. MaxItems \in Nat
  BY TransferAssumption
<1>3. Len(sent) + 1 \in Ids /\ Len(sent) + 1 <= MaxItems
  BY <1>1, <1>2 DEF CanProduce, Ids
<1>4. Produced(len, withHandle).handle \in {Len(sent) + 1, NoHandle}
  BY DEF Produced
<1>5. Produced(len, withHandle) \in Item
  BY <1>3 DEF Produced, Item
<1> QED
  BY <1>1, <1>3, <1>4, <1>5 DEF Produced

LEMMA EncodeType ==
  ASSUME NEW item \in Item
  PROVE  Encode(item) \in Seq(Byte)
<1>1. item.id \in Ids /\ item.len \in Lengths
  BY DEF Item
<1> DEFINE n == HeaderLen + item.len
<1>2. n \in Nat
  BY <1>1, Positive
<1>3. \A k \in 1..n : <<item.id, k>> \in Byte
  BY <1>1, <1>2 DEF Byte
<1>4. Encode(item) = [k \in 1..n |-> <<item.id, k>>]
  BY DEF Encode
<1> HIDE DEF n
<1> QED
  BY <1>2, <1>3, <1>4, IsASeq

\* The bytes and the handles of one sendmsg.
LEMMA SegmentParts ==
  ASSUME NEW bytes \in Seq(Byte), NEW fds \in Seq(Ids)
  PROVE  /\ Segment(bytes, fds) \in Seq(Cell)
         /\ Len(Segment(bytes, fds)) = Len(bytes)
         /\ \A i \in 1..Len(bytes) :
              /\ Segment(bytes, fds)[i].byte = bytes[i]
              /\ Segment(bytes, fds)[i].fds = IF i = 1 THEN fds ELSE <<>>
         /\ BytesOf(Segment(bytes, fds)) = bytes
<1> DEFINE g == Segment(bytes, fds)
<1>1. Len(bytes) \in Nat
  OBVIOUS
<1>2. g = [i \in 1..Len(bytes) |->
             [byte |-> bytes[i], fds |-> IF i = 1 THEN fds ELSE <<>>]]
  BY DEF Segment
<1>3. \A i \in 1..Len(bytes) :
        [byte |-> bytes[i], fds |-> IF i = 1 THEN fds ELSE <<>>] \in Cell
  <2>1. <<>> \in Seq(Ids)
    OBVIOUS
  <2>2. TAKE i \in 1..Len(bytes)
  <2>3. bytes[i] \in Byte
    OBVIOUS
  <2>4. (IF i = 1 THEN fds ELSE <<>>) \in Seq(Ids)
    BY <2>1
  <2> QED
    BY <2>3, <2>4 DEF Cell
<1>4. g \in Seq(Cell) /\ Len(g) = Len(bytes)
  BY <1>1, <1>2, <1>3, IsASeq
<1>5. \A i \in 1..Len(bytes) :
        g[i].byte = bytes[i] /\ g[i].fds = IF i = 1 THEN fds ELSE <<>>
  BY <1>2
<1>6. BytesOf(g) = bytes
  <2> HIDE DEF g
  <2>1. BytesOf(g) \in Seq(Byte) /\ Len(BytesOf(g)) = Len(g)
        /\ \A i \in 1..Len(g) : BytesOf(g)[i] = g[i].byte
    BY <1>4, Parts
  <2> QED
    BY <1>4, <1>5, <2>1, SeqEqual
<1> QED
  BY <1>4, <1>5, <1>6

\* What one recvmsg of n bytes takes from the wire.
LEMMA Received ==
  ASSUME NEW w \in Seq(Cell), NEW n \in 0..Len(w)
  PROVE  /\ [i \in 1..n |-> w[i].byte] \in Seq(Byte)
         /\ Len([i \in 1..n |-> w[i].byte]) = n
         /\ Advance(w, n) \in Seq(Cell)
         /\ BytesOf(w) = [i \in 1..n |-> w[i].byte] \o BytesOf(Advance(w, n))
<1> DEFINE a == [i \in 1..n |-> w[i].byte]
           v == Advance(w, n)
           b == BytesOf(v)
           c == a \o b
<1>1. n \in Nat /\ n <= Len(w) /\ Len(w) \in Nat
  OBVIOUS
<1>2. v \in Seq(Cell) /\ Len(v) = Len(w) - n
      /\ \A i \in 1..(Len(w) - n) : v[i] = w[n + i]
  BY Split
<1>3. BytesOf(w) \in Seq(Byte) /\ Len(BytesOf(w)) = Len(w)
      /\ \A i \in 1..Len(w) : BytesOf(w)[i] = w[i].byte
  <2>1. <<>> \in Seq(Byte)
    OBVIOUS
  <2> QED
    BY <2>1, Parts
<1> HIDE DEF v
<1>4. b \in Seq(Byte) /\ Len(b) = Len(v) /\ \A i \in 1..Len(v) : b[i] = v[i].byte
  <2>1. <<>> \in Seq(Byte)
    OBVIOUS
  <2> QED
    BY <1>2, <2>1, Parts
<1>5. a \in Seq(Byte) /\ Len(a) = n /\ \A i \in 1..n : a[i] = w[i].byte
  <2>1. \A i \in 1..n : w[i].byte \in Byte
    <3>1. \A i \in 1..n : w[i] \in Cell
      BY <1>1
    <3> QED
      BY <3>1 DEF Cell
  <2> QED
    BY <1>1, <2>1, IsASeq
<1> HIDE DEF a, b
<1>6. c \in Seq(Byte) /\ Len(c) = Len(a) + Len(b)
      /\ \A i \in 1..(Len(a) + Len(b)) : c[i] = IF i <= Len(a) THEN a[i] ELSE b[i - Len(a)]
  <2>1. a \in Seq(Byte) /\ b \in Seq(Byte)
    BY <1>4, <1>5
  <2> HIDE DEF Byte
  <2> QED
    BY <2>1, ConcatProperties
<1> HIDE DEF c
<1>7. Len(c) = Len(w)
  BY <1>1, <1>2, <1>4, <1>5, <1>6
<1>8. ASSUME NEW i \in 1..Len(w) PROVE c[i] = BytesOf(w)[i]
  <2>1. i \in 1..(Len(a) + Len(b))
    BY <1>6, <1>7
  <2>2. CASE i <= n
    BY <1>3, <1>5, <1>6, <2>1, <2>2
  <2>3. CASE ~(i <= n)
    <3>1. i - n \in 1..(Len(w) - n) /\ n + (i - n) = i
      BY <2>3, <1>1
    <3>2. c[i] = b[i - n]
      BY <1>5, <1>6, <2>1, <2>3
    <3>3. b[i - n] = v[i - n].byte /\ v[i - n] = w[i]
      BY <1>2, <1>4, <3>1
    <3> QED
      BY <1>3, <3>2, <3>3
  <2> QED
    BY <2>2, <2>3
<1>9. c = BytesOf(w)
  BY <1>3, <1>6, <1>7, <1>8, SeqEqual
<1> QED
  BY <1>2, <1>5, <1>9 DEF a, b, c, v

LEMMA FdsType ==
  ASSUME TypeOK, NEW n \in 0..Len(wire)
  PROVE  FdsOf(n) \in Seq(Ids)
<1>1. CASE Carriers(n) = {}
  BY <1>1 DEF FdsOf
<1>2. CASE Carriers(n) # {}
  <2>1. (CHOOSE i \in Carriers(n) : TRUE) \in Carriers(n)
    BY <1>2
  <2>2. PICK i \in Carriers(n) : FdsOf(n) = wire[i].fds
    BY <1>2, <2>1 DEF FdsOf
  <2>3. i \in 1..Len(wire)
    BY DEF Carriers
  <2>4. wire[i] \in Cell
    BY <2>3 DEF TypeOK
  <2> QED
    BY <2>2, <2>4 DEF Cell
<1> QED
  BY <1>1, <1>2

\* The receiver has the first bytes of the next item to be delivered.
LEMMA HeadItem ==
  ASSUME TypeOK, StreamOK, rconn = "open", inbuf # <<>>
  PROVE  /\ Current \in 1..Len(sent) /\ sent[Current] \in Item
         /\ inbuf[1] = <<Current, IF decoder = Length THEN 1 ELSE HeaderLen + 1>>
         /\ inbuf[1][1] = Current
         /\ Bytes # <<>> /\ Bytes[1] = inbuf[1]
<1>1. /\ inbuf \in Seq(Byte) /\ wire \in Seq(Cell) /\ outbuf \in Seq(Byte)
      /\ sent \in Seq(Item)
  BY DEF TypeOK
<1>2. Len(inbuf) \in Nat /\ Len(inbuf) >= 1 /\ Len(wire) \in Nat /\ Len(outbuf) \in Nat
  BY <1>1
<1>3. Len(Bytes) = Len(inbuf) + Len(wire) + Len(outbuf) /\ Bytes[1] = inbuf[1]
      /\ Bytes \in Seq(Byte)
  BY <1>1, <1>2, Parts DEF Bytes
<1>4. 1 \in 1..Len(Bytes) /\ Bytes # <<>>
  BY <1>2, <1>3
<1>5. Bytes[1] = <<Current, IF decoder = Length THEN 1 ELSE HeaderLen + 1>>
  BY <1>4 DEF StreamOK
<1>6. Whole(sent, Bytes[1])
  BY <1>4 DEF StreamOK, Chain
<1>7. Current \in 1..Len(sent)
  BY <1>5, <1>6 DEF Whole
<1> QED
  BY <1>1, <1>3, <1>4, <1>5, <1>7

-----------------------------------------------------------------------------
(* Type correctness *)

LEMMA TypeInit ==
  Init => TypeOK
<1>1. MaxBlocked \in Nat
  BY TransferAssumption
<1> QED
  BY <1>1 DEF Init, TypeOK

LEMMA CloseSenderType ==
  ASSUME TransferInv, CloseSender
  PROVE  TypeOK'
<1> USE DEF TransferInv
<1>1. ropen' \in [Ids -> Nat]
  <2>1. CASE platform = "windows"
    <3>1. ropen' = [h \in Ids |-> IF h \in ToSet(outhandles) THEN ropen[h] - 1
                                                             ELSE ropen[h]]
      BY <2>1 DEF CloseSender, DropUnsent
    <3>2. ASSUME NEW h \in Ids, h \in ToSet(outhandles)
          PROVE  ropen[h] >= 1
      <4>1. PICK i \in 1..Len(outhandles) : h = outhandles[i]
        BY <3>2 DEF ToSet
      <4> QED
        BY <2>1, <4>1 DEF OpenOK
    <3>3. \A h \in Ids : ropen[h] \in Nat
      BY DEF TypeOK
    <3>4. \A h \in Ids : (IF h \in ToSet(outhandles) THEN ropen[h] - 1
                                                     ELSE ropen[h]) \in Nat
      BY <3>2, <3>3
    <3> QED
      BY <3>1, <3>4
  <2>2. CASE platform # "windows"
    BY <2>2 DEF CloseSender, DropUnsent, TypeOK
  <2> QED
    BY <2>1, <2>2
<1>2. sopen' \subseteq Ids
  BY DEF CloseSender, DropUnsent, TypeOK
<1> QED
  BY <1>1, <1>2 DEF CloseSender, DropUnsent, TypeOK, receiverVars

LEMMA CloseReceiverType ==
  ASSUME TransferInv, CloseReceiver
  PROVE  TypeOK'
<1> USE DEF TransferInv
<1>1. ropen' = [h \in Ids |-> ropen[h] - Count(h, inhandles)]
  BY DEF CloseReceiver
<1>2. \A h \in Ids : ropen[h] \in Nat /\ Count(h, inhandles) \in Nat
  BY CountType DEF TypeOK
<1>3. \A h \in Ids : Cardinality(Holders(delivered, h)) \in Nat
  <2>1. ASSUME NEW h \in Ids
        PROVE  Cardinality(Holders(delivered, h)) \in Nat
    <3>1. delivered \in Seq(Item)
      BY DEF TypeOK
    <3>3. IsFiniteSet(1..Len(delivered))
      BY <3>1, FS_Interval
    <3>4. Holders(delivered, h) \in SUBSET (1..Len(delivered))
      BY DEF Holders
    <3>5. IsFiniteSet(Holders(delivered, h))
      BY <3>3, <3>4, FS_Subset
    <3> QED
      BY <3>5, FS_CardinalityType
  <2> QED
    BY <2>1
<1>4. \A h \in Ids : ropen[h] - Count(h, inhandles) \in Nat
  <2>1. CASE platform = "unix"
    BY <1>2, <1>3, <2>1 DEF OpenOK
  <2>2. CASE platform # "unix"
    <3>1. platform = "windows"
      BY <2>2, TransferAssumption DEF TypeOK
    <3>2. \A h \in Ids : Count(h, inhandles) = 0
      BY <3>1, CountEmpty DEF OpenOK
    <3> QED
      BY <1>2, <3>2
  <2> QED
    BY <2>1, <2>2
<1>5. ropen' \in [Ids -> Nat]
  BY <1>1, <1>4
<1> QED
  BY <1>5 DEF CloseReceiver, TypeOK, senderVars

LEMMA FlushType ==
  ASSUME TransferInv, FlushOutbound
  PROVE  TypeOK'
<1> USE DEF TransferInv
<1>1. PICK len \in Lengths, withHandle \in BOOLEAN :
        CanProduce /\ FlushItem(Produced(len, withHandle))
  BY DEF FlushOutbound
<1> DEFINE item == Produced(len, withHandle)
<1>2. item \in Item
  BY <1>1, ProducedItem
<1> HIDE DEF item
<1>3. FlushItem(item)
  BY <1>1 DEF item
<1>4. sent' \in Seq(Item)
  BY <1>2, <1>3 DEF FlushItem, TypeOK
<1>5. outbuf' \in Seq(Byte)
  <2>1. Encode(item) \in Seq(Byte) /\ outbuf \in Seq(Byte)
    BY <1>2, EncodeType DEF TypeOK
  <2>2. outbuf' = outbuf \o Encode(item)
    BY <1>3 DEF FlushItem
  <2> QED
    BY <2>1, <2>2
<1>6. HasHandle(item) => item.handle \in Ids
  BY <1>2 DEF HasHandle, Item
<1>7. outhandles' \in Seq(Ids)
  <2>1. outhandles \in Seq(Ids)
    BY DEF TypeOK
  <2>2. CASE HasHandle(item)
    <3>1. outhandles' = Append(outhandles, item.handle)
      BY <1>3, <2>2 DEF FlushItem
    <3> QED
      BY <1>6, <2>1, <2>2, <3>1
  <2>3. CASE ~HasHandle(item)
    BY <1>3, <2>1, <2>3 DEF FlushItem
  <2> QED
    BY <2>2, <2>3
<1>8. sopen' \subseteq Ids
  BY <1>3, <1>6 DEF FlushItem, TypeOK
<1>9. ropen' \in [Ids -> Nat]
  <2>1. DuplicateToTarget(item) /\ ropen \in [Ids -> Nat]
    BY <1>3 DEF FlushItem, TypeOK
  <2>2. CASE platform = "windows" /\ HasHandle(item)
    <3>1. ropen' = [ropen EXCEPT ![item.handle] = @ + 1]
      BY <2>1, <2>2 DEF DuplicateToTarget
    <3> QED
      BY <1>6, <2>1, <2>2, <3>1
  <2>3. CASE ~(platform = "windows" /\ HasHandle(item))
    BY <2>1, <2>3 DEF DuplicateToTarget
  <2> QED
    BY <2>2, <2>3
<1>10. selfhandles' \in Seq(Ids) /\ cmsg' \in Seq(Ids)
  BY <1>3 DEF FlushItem, ReadRequest, TypeOK
<1> QED
  BY <1>3, <1>4, <1>5, <1>7, <1>8, <1>9, <1>10 DEF FlushItem, TypeOK, receiverVars

LEMMA SendType ==
  ASSUME TransferInv, SendMsg
  PROVE  TypeOK'
<1> USE DEF TransferInv
<1>1. PICK n \in 1..Len(outbuf) :
        \/ platform = "unix" /\ SendUnix(n) /\ UNCHANGED ropen
        \/ platform = "windows" /\ SendWindows(n) /\ ropen' = MarkSent
  BY DEF SendMsg
<1>2. outbuf \in Seq(Byte) /\ outhandles \in Seq(Ids) /\ cmsg \in Seq(Ids)
      /\ wire \in Seq(Cell) /\ sopen \subseteq Ids
  BY DEF TypeOK
<1>3. outbuf' \in Seq(Byte) /\ wire' \in Seq(Cell) /\ outhandles' \in Seq(Ids)
      /\ cmsg' \in Seq(Ids) /\ sopen' \subseteq Ids /\ ropen' = ropen
  <2>1. CASE SendUnix(n) /\ UNCHANGED ropen
    <3>1. n \in 0..Len(outbuf)
      BY <1>2
    <3>2. SubSeq(outbuf, 1, n) \in Seq(Byte) /\ Advance(outbuf, n) \in Seq(Byte)
      BY <1>2, <3>1, Split
    <3>3. Encoded \in Seq(Ids)
      BY <1>2 DEF Encoded
    <3>4. Segment(SubSeq(outbuf, 1, n), Encoded) \in Seq(Cell)
      BY <3>2, <3>3, SegmentParts
    <3>5. wire' = wire \o Segment(SubSeq(outbuf, 1, n), Encoded)
      BY <2>1 DEF SendUnix
    <3>6. wire' \in Seq(Cell)
      BY <1>2, <3>4, <3>5
    <3> QED
      BY <1>2, <2>1, <3>2, <3>6 DEF SendUnix, DiscardSent
  <2>2. CASE SendWindows(n) /\ ropen' = MarkSent
    <3>1. <<>> \in Seq(Ids)
      OBVIOUS
    <3>2. Segment(outbuf, <<>>) \in Seq(Cell)
      BY <1>2, <3>1, SegmentParts
    <3>3. wire' = wire \o Segment(outbuf, <<>>)
      BY <2>2 DEF SendWindows
    <3>4. wire' \in Seq(Cell)
      BY <1>2, <3>2, <3>3
    <3> QED
      BY <1>2, <2>2, <3>4 DEF SendWindows, MarkSent
  <2> QED
    BY <1>1, <2>1, <2>2
<1>4. sending' \in {"idle", "loop", "writable"}
  BY DEF SendMsg
<1> QED
  BY <1>3, <1>4 DEF SendMsg, TypeOK, receiverVars

LEMMA BlockedType ==
  ASSUME TransferInv, SendBlocked
  PROVE  TypeOK'
<1> USE DEF TransferInv
<1>1. MaxBlocked \in Nat
  BY TransferAssumption
<1>2. blocked' \in 0..MaxBlocked
  BY <1>1 DEF SendBlocked, TypeOK
<1>3. cmsg' \in Seq(Ids)
  <2>1. Encoded \in Seq(Ids)
    BY DEF Encoded, TypeOK
  <2> QED
    BY <2>1 DEF SendBlocked, TypeOK
<1> QED
  BY <1>2, <1>3 DEF SendBlocked, SetWritable, TypeOK, receiverVars

LEMMA WritableType ==
  ASSUME TransferInv, WritableEvent
  PROVE  TypeOK'
<1>1. selfhandles' \in Seq(Ids) /\ cmsg' \in Seq(Ids)
  <2>1. selfhandles \in Seq(Ids) /\ cmsg \in Seq(Ids)
    BY DEF TransferInv, TypeOK
  <2>2. CASE ReadRequest
    BY <2>1, <2>2 DEF ReadRequest
  <2>3. CASE UNCHANGED <<selfhandles, cmsg>>
    BY <2>1, <2>3
  <2> QED
    BY <2>2, <2>3 DEF WritableEvent
<1> QED
  BY <1>1 DEF WritableEvent, TypeOK, TransferInv, receiverVars

LEMMA RecvType ==
  ASSUME TransferInv, RecvMsg
  PROVE  TypeOK'
<1> USE DEF TransferInv
<1>1. PICK n \in 1..Len(wire) :
        /\ inbuf' = inbuf \o [i \in 1..n |-> wire[i].byte]
        /\ inhandles' = PushHandles(FdsOf(n))
        /\ ropen' = [h \in Ids |-> ropen[h] + Count(h, FdsOf(n))]
        /\ wire' = Advance(wire, n)
  BY DEF RecvMsg
<1>2. inbuf \in Seq(Byte) /\ wire \in Seq(Cell) /\ inhandles \in Seq(Ids)
  BY DEF TypeOK
<1>3. n \in 0..Len(wire)
  BY <1>2
<1>4. FdsOf(n) \in Seq(Ids)
  BY <1>3, FdsType
<1>5. inhandles' \in Seq(Ids)
  BY <1>1, <1>2, <1>4 DEF PushHandles
<1> DEFINE b == [i \in 1..n |-> wire[i].byte]
<1>6. b \in Seq(Byte) /\ wire' \in Seq(Cell)
  BY <1>1, <1>2, <1>3, Received
<1>7. inbuf' = inbuf \o b
  BY <1>1
<1> HIDE DEF b
<1>8. inbuf' \in Seq(Byte)
  BY <1>2, <1>6, <1>7
<1>9. \A h \in Ids : ropen[h] + Count(h, FdsOf(n)) \in Nat
  <2>1. \A h \in Ids : ropen[h] \in Nat /\ Count(h, FdsOf(n)) \in Nat
    BY <1>4, CountType DEF TypeOK
  <2> QED
    BY <2>1
<1>10. ropen' \in [Ids -> Nat]
  BY <1>1, <1>9
<1> QED
  BY <1>5, <1>6, <1>8, <1>10 DEF RecvMsg, TypeOK, senderVars

LEMMA DecodeType ==
  ASSUME TransferInv, DecodeLength
  PROVE  TypeOK'
<1> USE DEF TransferInv
<1>1. inbuf \in Seq(Byte) /\ Len(inbuf) >= HeaderLen /\ rconn = "open"
  BY DEF TypeOK, DecodeLength, HeaderReady
<1>2. HeaderLen \in 0..Len(inbuf) /\ inbuf # <<>>
  BY <1>1, Positive
<1>3. inbuf' \in Seq(Byte)
  BY <1>1, <1>2, Split DEF DecodeLength
<1>4. sent[inbuf[1][1]] \in Item
  BY <1>1, <1>2, HeadItem
<1>5. decoder' \in Lengths
  BY <1>4 DEF DecodeLength, Item
<1> QED
  BY <1>3, <1>5 DEF DecodeLength, TypeOK, senderVars

LEMMA ProcessType ==
  ASSUME TransferInv, ProcessInbound
  PROVE  TypeOK'
<1> USE DEF TransferInv
<1>1. inbuf \in Seq(Byte) /\ inhandles \in Seq(Ids) /\ delivered \in Seq(Item)
      /\ decoder \in Lengths /\ Len(inbuf) >= decoder /\ rconn = "open"
  BY DEF TypeOK, ProcessInbound, DataReady
<1>2. decoder \in 0..Len(inbuf) /\ inbuf # <<>>
  BY <1>1, Positive
<1>3. inbuf' \in Seq(Byte)
  BY <1>1, <1>2, Split DEF ProcessInbound
<1> DEFINE item == sent[inbuf[1][1]]
<1>4. item \in Item
  BY <1>1, <1>2, HeadItem
<1>5. delivered' = Append(delivered, [item EXCEPT !.handle = LocalHandle(item)])
      /\ inhandles' = PopHandle(item)
  BY DEF ProcessInbound
<1> HIDE DEF item
<1>6. LocalHandle(item) \in Ids \cup {NoHandle}
  <2>1. platform \in {"unix", "windows"}
    BY TransferAssumption DEF TypeOK
  <2>2. inhandles # <<>> => Head(inhandles) \in Ids
    BY <1>1
  <2>3. item.handle \in Ids \cup {NoHandle}
    BY <1>4 DEF Item
  <2>4. CASE ~HasHandle(item)
    BY <2>4 DEF LocalHandle
  <2>5. CASE HasHandle(item) /\ platform = "windows"
    BY <2>3, <2>5 DEF LocalHandle
  <2>6. CASE HasHandle(item) /\ platform = "unix"
    BY <2>2, <2>6 DEF LocalHandle
  <2> QED
    BY <2>1, <2>4, <2>5, <2>6
<1>7. [item EXCEPT !.handle = LocalHandle(item)] \in Item
  BY <1>4, <1>6 DEF Item
<1>8. delivered' \in Seq(Item)
  BY <1>1, <1>5, <1>7
<1>9. inhandles' \in Seq(Ids)
  BY <1>1, <1>5 DEF PopHandle
<1>10. decoder' = Length
  BY DEF ProcessInbound, DecoderReset
<1> QED
  BY <1>3, <1>8, <1>9, <1>10 DEF ProcessInbound, TypeOK, senderVars

LEMMA TypeStep ==
  ASSUME TransferInv, [Next]_vars
  PROVE  TypeOK'
<1>1. CASE UNCHANGED vars
  BY <1>1 DEF TransferInv, TypeOK, vars, senderVars, receiverVars
<1>2. CASE Next
  BY <1>2, FlushType, CloseSenderType, CloseReceiverType, SendType, BlockedType,
     WritableType, RecvType, DecodeType, ProcessType
     DEF Next, SenderStep, ReceiverStep, SenderSeesClose, ReceiverSeesClose
<1> QED
  BY <1>1, <1>2

-----------------------------------------------------------------------------
(* The bytes between the Handlers, step by step *)

\* The first part of a piece of the stream.
LEMMA ChainPrefix ==
  ASSUME NEW items, NEW s \in Seq(Byte), NEW t \in Seq(Byte), Chain(items, s \o t)
  PROVE  Chain(items, s)
<1> DEFINE u == s \o t
<1>1. Len(u) = Len(s) + Len(t)
      /\ \A i \in 1..(Len(s) + Len(t)) :
           u[i] = IF i <= Len(s) THEN s[i] ELSE t[i - Len(s)]
  BY ConcatProperties
<1>2. Len(s) \in Nat /\ Len(t) \in Nat
  OBVIOUS
<1>3. Chain(items, u)
  OBVIOUS
<1> HIDE DEF u
<1>4. \A j \in 1..Len(s) : j \in 1..Len(u) /\ u[j] = s[j]
  BY <1>1, <1>2
<1>5. \A j \in 1..(Len(s) - 1) : j \in 1..Len(s) /\ j + 1 \in 1..Len(s)
                                 /\ j \in 1..(Len(u) - 1)
  BY <1>1, <1>2
<1> QED
  BY <1>3, <1>4, <1>5 DEF Chain

\* Bytes put on the wire.
LEMMA BytesCat ==
  ASSUME NEW v \in Seq(Cell), NEW w \in Seq(Cell)
  PROVE  /\ BytesOf(v) \in Seq(Byte) /\ BytesOf(w) \in Seq(Byte)
         /\ BytesOf(v \o w) = BytesOf(v) \o BytesOf(w)
<1> DEFINE c == v \o w
           a == BytesOf(v)
           b == BytesOf(w)
           d == BytesOf(c)
           e == a \o b
<1>1. <<>> \in Seq(Byte) /\ Len(v) \in Nat /\ Len(w) \in Nat
  OBVIOUS
<1>2. c \in Seq(Cell) /\ Len(c) = Len(v) + Len(w)
      /\ \A i \in 1..(Len(v) + Len(w)) :
           c[i] = IF i <= Len(v) THEN v[i] ELSE w[i - Len(v)]
  <2> HIDE DEF Cell
  <2> QED
    BY ConcatProperties
<1> HIDE DEF c
<1>3. /\ a \in Seq(Byte) /\ Len(a) = Len(v) /\ \A i \in 1..Len(v) : a[i] = v[i].byte
      /\ b \in Seq(Byte) /\ Len(b) = Len(w) /\ \A i \in 1..Len(w) : b[i] = w[i].byte
      /\ d \in Seq(Byte) /\ Len(d) = Len(c) /\ \A i \in 1..Len(c) : d[i] = c[i].byte
  BY <1>1, <1>2, Parts
<1> HIDE DEF a, b, d
<1>4. e \in Seq(Byte) /\ Len(e) = Len(a) + Len(b)
      /\ \A i \in 1..(Len(a) + Len(b)) : e[i] = IF i <= Len(a) THEN a[i] ELSE b[i - Len(a)]
  <2>1. a \in Seq(Byte) /\ b \in Seq(Byte)
    BY <1>3
  <2> HIDE DEF Byte
  <2> QED
    BY <2>1, ConcatProperties
<1> HIDE DEF e
<1>5. Len(d) = Len(e)
  BY <1>2, <1>3, <1>4
<1>6. ASSUME NEW i \in 1..Len(d) PROVE d[i] = e[i]
  <2>1. i \in 1..(Len(v) + Len(w)) /\ i \in 1..Len(c) /\ i \in 1..(Len(a) + Len(b))
    BY <1>2, <1>3
  <2>2. CASE i <= Len(v)
    BY <1>1, <1>2, <1>3, <1>4, <2>1, <2>2
  <2>3. CASE ~(i <= Len(v))
    <3>1. i - Len(v) \in 1..Len(w)
      BY <1>1, <2>1, <2>3
    <3> QED
      BY <1>2, <1>3, <1>4, <2>1, <2>3, <3>1
  <2> QED
    BY <2>2, <2>3
<1>7. d = e
  BY <1>3, <1>4, <1>5, <1>6, SeqEqual
<1> QED
  BY <1>3, <1>7 DEF a, b, d, e, c

\* Concatenation, as an operator the provers do not expand by themselves.
Cat(s, t) == s \o t

LEMMA CatAssociative ==
  /\ \A s, t \in Seq(Byte) : Cat(s, t) \in Seq(Byte)
  /\ \A s, t, u \in Seq(Byte) : Cat(Cat(s, t), u) = Cat(s, Cat(t, u))
<1>1. \A s, t, u \in Seq(Byte) : (s \o t) \o u = s \o (t \o u)
  BY ConcatAssociative
<1> QED
  BY <1>1 DEF Cat

\* Moving the boundary between the parts leaves the bytes as they are.
LEMMA Regroup ==
  \A s, t, u, v \in Seq(Byte) :
    /\ Cat(Cat(s, Cat(t, u)), v) = Cat(Cat(s, t), Cat(u, v))
    /\ Cat(Cat(Cat(s, t), u), v) = Cat(Cat(s, Cat(t, u)), v)
<1>1. /\ \A s, t \in Seq(Byte) : Cat(s, t) \in Seq(Byte)
      /\ \A s, t, u \in Seq(Byte) : Cat(Cat(s, t), u) = Cat(s, Cat(t, u))
  BY CatAssociative
<1>2. TAKE s, t, u, v \in Seq(Byte)
<1>3. Cat(Cat(s, t), u) = Cat(s, Cat(t, u)) /\ Cat(s, t) \in Seq(Byte)
  BY <1>1
<1>4. Cat(Cat(Cat(s, t), u), v) = Cat(Cat(s, t), Cat(u, v))
  BY <1>1, <1>3
<1> QED
  BY <1>3, <1>4

LEMMA BytesType ==
  ASSUME TypeOK
  PROVE  /\ inbuf \in Seq(Byte) /\ BytesOf(wire) \in Seq(Byte) /\ outbuf \in Seq(Byte)
         /\ wire \in Seq(Cell) /\ Len(BytesOf(wire)) = Len(wire)
         /\ inbuf \o BytesOf(wire) \in Seq(Byte)
         /\ Bytes \in Seq(Byte) /\ Len(Bytes) = Len(inbuf) + Len(wire) + Len(outbuf)
         /\ Len(Bytes) \in Nat /\ (Bytes = <<>> <=> Len(Bytes) = 0)
<1>1. inbuf \in Seq(Byte) /\ outbuf \in Seq(Byte) /\ wire \in Seq(Cell)
  BY DEF TypeOK
<1>2. BytesOf(wire) \in Seq(Byte) /\ Len(BytesOf(wire)) = Len(wire)
      /\ Bytes \in Seq(Byte) /\ Len(Bytes) = Len(inbuf) + Len(wire) + Len(outbuf)
  BY <1>1, Parts DEF Bytes
<1>3. inbuf \o BytesOf(wire) \in Seq(Byte)
  <2> HIDE DEF Byte
  <2> QED
    BY <1>1, <1>2
<1>4. Len(Bytes) \in Nat /\ (Bytes = <<>> <=> Len(Bytes) = 0)
  <2> HIDE DEF Bytes, Byte
  <2> QED
    BY <1>2
<1> QED
  BY <1>1, <1>2, <1>3, <1>4

LEMMA SendBytes ==
  ASSUME TypeOK, SendMsg
  PROVE  Bytes' = Bytes
<1>1. PICK n \in 1..Len(outbuf) :
        \/ platform = "unix" /\ SendUnix(n) /\ UNCHANGED ropen
        \/ platform = "windows" /\ SendWindows(n) /\ ropen' = MarkSent
  BY DEF SendMsg
<1>2. inbuf' = inbuf
  BY DEF SendMsg, receiverVars
<1>3. /\ inbuf \in Seq(Byte) /\ BytesOf(wire) \in Seq(Byte) /\ outbuf \in Seq(Byte)
      /\ wire \in Seq(Cell)
  BY BytesType
<1>4. \E a, b \in Seq(Byte) : \E fds \in Seq(Ids) :
        outbuf = a \o b /\ outbuf' = b /\ wire' = wire \o Segment(a, fds)
  <2>1. CASE SendUnix(n)
    <3>1. n \in 0..Len(outbuf)
      BY <1>3
    <3>2. SubSeq(outbuf, 1, n) \in Seq(Byte) /\ Advance(outbuf, n) \in Seq(Byte)
          /\ SubSeq(outbuf, 1, n) \o Advance(outbuf, n) = outbuf
      BY <1>3, <3>1, Split
    <3>3. Encoded \in Seq(Ids)
      BY DEF Encoded, TypeOK
    <3>4. outbuf' = Advance(outbuf, n)
          /\ wire' = wire \o Segment(SubSeq(outbuf, 1, n), Encoded)
      BY <2>1 DEF SendUnix
    <3> QED
      BY <3>2, <3>3, <3>4
  <2>2. CASE SendWindows(n)
    <3>1. <<>> \in Seq(Ids) /\ <<>> \in Seq(Byte)
      OBVIOUS
    <3>2. outbuf = outbuf \o <<>>
      BY <1>3, ConcatEmptySeq
    <3>3. outbuf' = <<>> /\ wire' = wire \o Segment(outbuf, <<>>)
      BY <2>2 DEF SendWindows
    <3> QED
      BY <1>3, <3>1, <3>2, <3>3
  <2> QED
    BY <1>1, <2>1, <2>2
<1>5. PICK a \in Seq(Byte), b \in Seq(Byte), fds \in Seq(Ids) :
        outbuf = a \o b /\ outbuf' = b /\ wire' = wire \o Segment(a, fds)
  BY <1>4
<1>6. Segment(a, fds) \in Seq(Cell) /\ BytesOf(Segment(a, fds)) = a
  BY SegmentParts
<1>7. BytesOf(wire') = BytesOf(wire) \o a
  BY <1>3, <1>5, <1>6, BytesCat
<1> DEFINE w == BytesOf(wire)
<1>8. Cat(Cat(inbuf, Cat(w, a)), b) = Cat(Cat(inbuf, w), Cat(a, b))
  BY <1>3, Regroup
<1>9. Bytes = Cat(Cat(inbuf, w), Cat(a, b))
  BY <1>5 DEF Bytes, Cat
<1>10. Bytes' = Cat(Cat(inbuf, Cat(w, a)), b)
  BY <1>2, <1>5, <1>7 DEF Bytes, Cat
<1> QED
  BY <1>8, <1>9, <1>10

LEMMA RecvBytes ==
  ASSUME TypeOK, RecvMsg
  PROVE  Bytes' = Bytes
<1>1. PICK n \in 1..Len(wire) :
        /\ inbuf' = inbuf \o [i \in 1..n |-> wire[i].byte]
        /\ wire' = Advance(wire, n)
  BY DEF RecvMsg
<1>2. outbuf' = outbuf
  BY DEF RecvMsg, senderVars
<1>3. inbuf \in Seq(Byte) /\ outbuf \in Seq(Byte) /\ wire \in Seq(Cell)
  BY BytesType
<1>4. n \in 0..Len(wire)
  BY <1>3
<1> DEFINE a == [i \in 1..n |-> wire[i].byte]
           v == Advance(wire, n)
<1>5. a \in Seq(Byte) /\ v \in Seq(Cell) /\ BytesOf(wire) = a \o BytesOf(v)
  BY <1>3, <1>4, Received
<1>6. inbuf' = inbuf \o a /\ wire' = v
  BY <1>1
<1> HIDE DEF a, v
<1>7. BytesOf(v) \in Seq(Byte)
  BY <1>5, BytesCat
<1> DEFINE w == BytesOf(v)
<1>8. Cat(Cat(Cat(inbuf, a), w), outbuf) = Cat(Cat(inbuf, Cat(a, w)), outbuf)
  BY <1>3, <1>5, <1>7, Regroup
<1>9. Bytes = Cat(Cat(inbuf, Cat(a, w)), outbuf)
  BY <1>5 DEF Bytes, Cat
<1>10. Bytes' = Cat(Cat(Cat(inbuf, a), w), outbuf)
  BY <1>2, <1>6 DEF Bytes, Cat
<1> QED
  BY <1>8, <1>9, <1>10

\* Taking bytes from inbound.buf.
LEMMA AdvanceBytes ==
  ASSUME TypeOK, NEW n \in 0..Len(inbuf), inbuf' = Advance(inbuf, n),
         UNCHANGED <<wire, outbuf>>
  PROVE  Bytes' = Advance(Bytes, n)
<1>1. /\ inbuf \in Seq(Byte) /\ BytesOf(wire) \in Seq(Byte) /\ outbuf \in Seq(Byte)
      /\ inbuf \o BytesOf(wire) \in Seq(Byte)
  BY BytesType
<1> DEFINE w == BytesOf(wire)
           u == inbuf \o w
<1>2. Len(u) = Len(inbuf) + Len(w) /\ Len(inbuf) \in Nat /\ Len(w) \in Nat
  <2> HIDE DEF w, Byte
  <2> QED
    BY <1>1, ConcatProperties DEF w
<1>3. n \in 0..Len(u)
  <2> HIDE DEF u
  <2> QED
    BY <1>2
<1>4. Advance(u, n) = Advance(inbuf, n) \o w
  BY <1>1, AdvanceCat
<1>5. Advance(u \o outbuf, n) = Advance(u, n) \o outbuf
  <2> HIDE DEF u
  <2> QED
    BY <1>1, <1>3, AdvanceCat DEF u
<1> QED
  BY <1>4, <1>5 DEF Bytes

\* A step that only moves bytes from one part to the next.
LEMMA StreamSame ==
  ASSUME TypeOK, StreamOK, Bytes' = Bytes, rconn = "open",
         UNCHANGED <<sent, delivered, decoder, sconn, rconn>>
  PROVE  StreamOK'
BY DEF StreamOK, Current

LEMMA StreamInit ==
  Init => StreamOK
<1> SUFFICES ASSUME Init PROVE StreamOK
  OBVIOUS
<1>1. MaxItems \in Nat
  BY TransferAssumption
<1>2. sent = <<>> /\ delivered = <<>> /\ inbuf = <<>> /\ wire = <<>> /\ outbuf = <<>>
      /\ decoder = Length /\ rconn = "open"
  BY DEF Init
<1>3. TypeOK
  BY TypeInit
<1>4. Bytes = <<>>
  <2>1. Len(Bytes) = Len(inbuf) + Len(wire) + Len(outbuf) /\ (Bytes = <<>> <=> Len(Bytes) = 0)
    BY <1>3, BytesType
  <2> QED
    BY <1>2, <2>1
<1>5. Chain(sent, Bytes)
  BY <1>4 DEF Chain
<1> QED
  BY <1>1, <1>2, <1>4, <1>5 DEF StreamOK

LEMMA FlushStream ==
  ASSUME TypeOK, StreamOK, FlushOutbound, TypeOK'
  PROVE  StreamOK'
<1>1. PICK len \in Lengths, withHandle \in BOOLEAN :
        CanProduce /\ FlushItem(Produced(len, withHandle))
  BY DEF FlushOutbound
<1> DEFINE item == Produced(len, withHandle)
           l == Len(sent)
<1>2. item \in Item /\ item.id = l + 1 /\ item.handle \in {l + 1, NoHandle}
      /\ l \in Nat /\ l + 1 <= MaxItems
  BY <1>1, ProducedItem
<1> HIDE DEF item
<1>3. /\ sent' = Append(sent, item) /\ outbuf' = outbuf \o Encode(item)
      /\ UNCHANGED <<inbuf, wire, inhandles, decoder, rconn, delivered, sconn>>
  BY <1>1 DEF FlushItem, receiverVars, item
<1>4. sent \in Seq(Item) /\ sent' \in Seq(Item) /\ delivered \in Seq(Item)
  BY DEF TypeOK
<1>5. Len(sent') = l + 1 /\ sent'[l + 1] = item /\ (\A i \in 1..l : sent'[i] = sent[i])
      /\ sent' # <<>>
  BY <1>3, <1>4
<1>6. Len(delivered) <= l /\ Len(delivered) \in Nat
      /\ \A i \in 1..l : sent[i].id = i /\ sent[i].handle \in {i, NoHandle}
  BY <1>4 DEF StreamOK
<1>7. \A i \in 1..(l + 1) : sent'[i].id = i /\ sent'[i].handle \in {i, NoHandle}
  <2>1. \A i \in 1..(l + 1) : i \in 1..l \/ i = l + 1
    BY <1>2
  <2> QED
    BY <1>2, <1>5, <1>6, <2>1
<1>8. Len(delivered') <= Len(sent') /\ Len(sent') <= MaxItems
  BY <1>2, <1>3, <1>5, <1>6
<1>9. CASE rconn = "closed"
  <2>1. inbuf' = <<>> /\ wire' = <<>> /\ inhandles' = <<>> /\ rconn' = "closed"
    BY <1>3, <1>9 DEF StreamOK
  <2> QED
    BY <1>5, <1>7, <1>8, <2>1 DEF StreamOK
<1>10. CASE rconn = "open"
  <2> DEFINE e == Encode(item)
             n == FrameEnd(sent', l + 1)
             B == Bytes
  <2>1. /\ e \in Seq(Byte) /\ Chain(sent', e) /\ n \in Nat /\ n >= 2 /\ Len(e) = n
        /\ e # <<>> /\ e[1] = <<l + 1, 1>> /\ e[n] = <<l + 1, n>>
    <3>1. sent'[Len(sent')].id = Len(sent')
      BY <1>2, <1>5
    <3>2. /\ Encode(sent'[Len(sent')]) \in Seq(Byte) /\ Chain(sent', Encode(sent'[Len(sent')]))
          /\ FrameEnd(sent', Len(sent')) \in Nat /\ FrameEnd(sent', Len(sent')) >= 2
          /\ Len(Encode(sent'[Len(sent')])) = FrameEnd(sent', Len(sent'))
          /\ Encode(sent'[Len(sent')]) # <<>>
          /\ Encode(sent'[Len(sent')])[1] = <<Len(sent'), 1>>
          /\ Encode(sent'[Len(sent')])[FrameEnd(sent', Len(sent'))]
               = <<Len(sent'), FrameEnd(sent', Len(sent'))>>
      BY <1>4, <1>5, <3>1, EncodeChain
    <3> QED
      BY <1>5, <3>2
  <2>2. B \in Seq(Byte) /\ Len(B) \in Nat /\ (B = <<>> <=> Len(B) = 0)
        /\ inbuf \o BytesOf(wire) \in Seq(Byte) /\ outbuf \in Seq(Byte)
    BY BytesType
  <2> HIDE DEF e, n
  <2>3. Bytes' = B \o e
    <3> DEFINE u == inbuf \o BytesOf(wire)
    <3>1. B = Cat(u, outbuf) /\ Bytes' = Cat(u, Cat(outbuf, e))
      BY <1>3 DEF Bytes, Cat, e
    <3> HIDE DEF B, u
    <3>2. u \in Seq(Byte) /\ outbuf \in Seq(Byte) /\ e \in Seq(Byte)
      BY <2>1, <2>2 DEF u
    <3>3. Cat(Cat(u, outbuf), e) = Cat(u, Cat(outbuf, e))
      BY <3>2, CatAssociative
    <3>4. Bytes' = Cat(B, e)
      BY <3>1, <3>3
    <3> QED
      BY <3>4 DEF Cat
  <2>4. /\ Chain(sent, B)
        /\ decoder # Length => Len(delivered) < l /\ decoder = sent[Current].len
        /\ B # <<>> => B[1] = <<Current, IF decoder = Length THEN 1 ELSE HeaderLen + 1>>
        /\ IF B = <<>> THEN decoder = Length /\ Len(delivered) = l
           ELSE B[Len(B)] = <<l, FrameEnd(sent, l)>>
    <3>1. sconn = "open"
      BY <1>1 DEF CanProduce
    <3> QED
      BY <1>10, <3>1 DEF StreamOK
  <2> HIDE DEF B
  <2>5. Chain(sent', B)
    BY <1>2, <1>3, <1>4, <2>4, ChainExtend
  <2>6. B # <<>> => e[1] = NextByte(sent', B[Len(B)])
    <3>1. SUFFICES ASSUME B # <<>> PROVE e[1] = NextByte(sent', B[Len(B)])
      OBVIOUS
    <3>2. Len(B) \in 1..Len(B)
      BY <2>2, <3>1
    <3>3. B[Len(B)] = <<l, FrameEnd(sent, l)>> /\ Whole(sent, B[Len(B)])
      BY <2>4, <3>1, <3>2 DEF Chain
    <3>4. l \in 1..l /\ FrameEnd(sent, l) \in 1..FrameEnd(sent, l)
      BY <3>3 DEF Whole
    <3>5. FrameEnd(sent', l) = FrameEnd(sent, l)
      BY <1>5, <3>4 DEF FrameEnd
    <3>6. ~(FrameEnd(sent, l) < FrameEnd(sent', l))
      BY <3>4, <3>5
    <3> QED
      BY <2>1, <3>3, <3>6 DEF NextByte
  <2>7. Chain(sent', B \o e)
    BY <2>1, <2>2, <2>5, <2>6, ChainJoin
  <2>8. /\ Len(B \o e) = Len(B) + n /\ B \o e # <<>>
        /\ (B \o e)[Len(B) + n] = <<l + 1, n>>
        /\ (B \o e)[1] = IF B = <<>> THEN <<l + 1, 1>> ELSE B[1]
    <3> HIDE DEF Byte
    <3>1. /\ B \o e \in Seq(Byte) /\ Len(B \o e) = Len(B) + Len(e)
          /\ \A i \in 1..(Len(B) + Len(e)) :
               (B \o e)[i] = IF i <= Len(B) THEN B[i] ELSE e[i - Len(B)]
      <4>1. B \in Seq(Byte) /\ e \in Seq(Byte)
        BY <2>1, <2>2
      <4> QED
        BY <4>1, ConcatProperties
    <3>2. Len(B) + n \in 1..(Len(B) + Len(e)) /\ ~(Len(B) + n <= Len(B))
          /\ (Len(B) + n) - Len(B) = n /\ 1 \in 1..(Len(B) + Len(e))
      BY <2>1, <2>2
    <3>3. (B \o e)[Len(B) + n] = <<l + 1, n>>
      BY <2>1, <3>1, <3>2
    <3>4. CASE B = <<>>
      <4>1. ~(1 <= Len(B)) /\ 1 - Len(B) = 1
        BY <2>2, <3>4
      <4>2. (B \o e)[1] = e[1]
        BY <3>1, <3>2, <4>1
      <4> QED
        BY <2>1, <3>1, <3>2, <3>3, <3>4, <4>2
    <3>5. CASE B # <<>>
      <4>1. 1 <= Len(B)
        BY <2>2, <3>5
      <4>2. (B \o e)[1] = B[1]
        BY <3>1, <3>2, <4>1
      <4> QED
        BY <2>1, <3>1, <3>2, <3>3, <3>5, <4>2
    <3> QED
      BY <3>4, <3>5
  <2>9. Current' = Current /\ decoder' = decoder /\ rconn' = "open"
        /\ Len(delivered') = Len(delivered)
    BY <1>3, <1>10 DEF Current
  <2>10. decoder # Length => Len(delivered) < l + 1 /\ decoder = sent'[Current].len
    <3>1. SUFFICES ASSUME decoder # Length
                   PROVE  Len(delivered) < l + 1 /\ decoder = sent'[Current].len
      OBVIOUS
    <3>2. Len(delivered) < l /\ decoder = sent[Current].len
      BY <2>4, <3>1
    <3>3. Current \in 1..l
      BY <1>2, <1>6, <3>2 DEF Current
    <3> QED
      BY <1>2, <1>5, <1>6, <3>2, <3>3
  <2>11. (B \o e)[1] = <<Current, IF decoder = Length THEN 1 ELSE HeaderLen + 1>>
    <3>1. CASE B = <<>>
      <4>1. decoder = Length /\ Current = l + 1
        BY <2>4, <3>1 DEF Current
      <4> QED
        BY <2>8, <3>1, <4>1
    <3>2. CASE B # <<>>
      BY <2>4, <2>8, <3>2
    <3> QED
      BY <3>1, <3>2
  <2>12. (B \o e)[Len(B \o e)] = <<Len(sent'), FrameEnd(sent', Len(sent'))>>
    BY <1>5, <2>8 DEF n
  <2> QED
    BY <1>5, <1>7, <1>8, <2>3, <2>7, <2>8, <2>9, <2>10, <2>11, <2>12 DEF StreamOK
<1> QED
  BY <1>9, <1>10 DEF TypeOK

LEMMA CloseSenderStream ==
  ASSUME TypeOK, StreamOK, CloseSender
  PROVE  StreamOK'
<1>1. UNCHANGED <<sent, wire, inbuf, inhandles, decoder, rconn, delivered>>
      /\ outbuf' = <<>> /\ sconn' = "closed"
  BY DEF CloseSender, receiverVars
<1>2. CASE rconn = "closed"
  BY <1>1, <1>2 DEF StreamOK
<1>3. CASE rconn = "open"
  <2> DEFINE u == inbuf \o BytesOf(wire)
  <2>1. u \in Seq(Byte) /\ outbuf \in Seq(Byte)
    BY BytesType
  <2>2. Bytes = u \o outbuf
    BY DEF Bytes
  <2>3. Bytes' = u
    <3>1. Bytes' = u \o <<>>
      BY <1>1 DEF Bytes
    <3> HIDE DEF u
    <3> QED
      BY <2>1, <3>1, ConcatEmptySeq
  <2> HIDE DEF u
  <2>4. Chain(sent, u)
    <3>1. Chain(sent, u \o outbuf)
      BY <1>3, <2>2 DEF StreamOK
    <3> QED
      BY <2>1, <3>1, ChainPrefix
  <2>5. u # <<>> => Bytes # <<>> /\ Bytes[1] = u[1]
    <3> HIDE DEF Byte
    <3>1. Len(u) \in Nat /\ Len(outbuf) \in Nat /\ (u = <<>> <=> Len(u) = 0)
      BY <2>1
    <3>2. Len(u \o outbuf) = Len(u) + Len(outbuf)
          /\ \A i \in 1..(Len(u) + Len(outbuf)) :
               (u \o outbuf)[i] = IF i <= Len(u) THEN u[i] ELSE outbuf[i - Len(u)]
      BY <2>1, ConcatProperties
    <3>3. u # <<>> => 1 \in 1..(Len(u) + Len(outbuf)) /\ 1 <= Len(u)
                      /\ Len(u) + Len(outbuf) > 0
      BY <3>1
    <3> QED
      BY <2>2, <3>2, <3>3
  <2>6. u # <<>> => u[1] = <<Current, IF decoder = Length THEN 1 ELSE HeaderLen + 1>>
    BY <1>3, <2>5 DEF StreamOK
  <2> QED
    BY <1>1, <1>3, <2>3, <2>4, <2>6 DEF StreamOK, Current
<1> QED
  BY <1>2, <1>3 DEF TypeOK

LEMMA CloseReceiverStream ==
  ASSUME TypeOK, StreamOK, CloseReceiver
  PROVE  StreamOK'
BY DEF StreamOK, CloseReceiver, senderVars

\* The bytes of the item being received.
LEMMA ItemBytes ==
  ASSUME TypeOK, StreamOK, rconn = "open", inbuf # <<>>, NEW k \in Nat,
         k = IF decoder = Length THEN 1 ELSE HeaderLen + 1,
         NEW n \in 1..Len(Bytes), k + n - 1 <= FrameEnd(sent, Current)
  PROVE  \A j \in 1..n : Bytes[j] = <<Current, k + j - 1>>
<1>1. Current \in Nat /\ sent[Current] \in Item /\ Bytes # <<>> /\ Bytes[1] = <<Current, k>>
  <2>1. delivered \in Seq(Item)
    BY DEF TypeOK
  <2>2. Current \in Nat
    BY <2>1 DEF Current
  <2> QED
    BY <2>2, HeadItem
<1>2. FrameEnd(sent, Current) \in Nat
  <2>1. sent[Current].len \in Nat /\ HeaderLen \in Nat
    BY <1>1, Positive DEF Item
  <2> QED
    BY <2>1 DEF FrameEnd
<1>3. Bytes \in Seq(Byte) /\ Chain(sent, Bytes)
  BY BytesType DEF StreamOK
<1> DEFINE B == Bytes
           i == Current
<1> HIDE DEF B, i
<1>4. /\ B \in Seq(Byte) /\ Chain(sent, B) /\ i \in Nat /\ B # <<>> /\ B[1] = <<i, k>>
      /\ n \in 1..Len(B) /\ FrameEnd(sent, i) \in Nat /\ k + n - 1 <= FrameEnd(sent, i)
  BY <1>1, <1>2, <1>3 DEF B, i
<1>5. \A j \in 1..n : B[j] = <<i, k + j - 1>>
  BY <1>4, ChainRun
<1> QED
  BY <1>5 DEF B, i

\* What is left of the bytes when the first n are taken.
LEMMA LeftBytes ==
  ASSUME TypeOK, StreamOK, rconn = "open", NEW n \in 1..Len(inbuf),
         inbuf' = Advance(inbuf, n), UNCHANGED <<wire, outbuf>>
  PROVE  /\ n \in 1..Len(Bytes) /\ Len(Bytes) \in Nat
         /\ Chain(sent, Bytes')
         /\ Len(Bytes') = Len(Bytes) - n
         /\ Bytes' = <<>> <=> Len(Bytes) = n
         /\ Bytes' # <<>> => /\ n + 1 \in 1..Len(Bytes) /\ n \in 1..(Len(Bytes) - 1)
                             /\ Bytes'[1] = Bytes[n + 1]
                             /\ Bytes'[Len(Bytes')] = Bytes[Len(Bytes)]
<1> DEFINE B == Bytes
           C == Advance(B, n)
<1>1. /\ B \in Seq(Byte) /\ Len(B) = Len(inbuf) + Len(wire) + Len(outbuf)
      /\ inbuf \in Seq(Byte) /\ wire \in Seq(Cell) /\ outbuf \in Seq(Byte)
  BY BytesType
<1>2. Len(inbuf) \in Nat /\ Len(wire) \in Nat /\ Len(outbuf) \in Nat /\ n \in Nat
  BY <1>1
<1>3. n \in 0..Len(inbuf)
  BY <1>2
<1>4. Bytes' = C
  BY <1>3, AdvanceBytes
<1>5. Chain(sent, B)
  BY DEF StreamOK
<1> HIDE DEF B
<1>6. n \in 1..Len(B) /\ n \in 0..Len(B) /\ Len(B) \in Nat
  BY <1>1, <1>2
<1>7. Chain(sent, C)
  BY <1>1, <1>5, <1>6, ChainSplit
<1>8. C \in Seq(Byte) /\ Len(C) = Len(B) - n
      /\ \A i \in 1..(Len(B) - n) : C[i] = B[n + i]
  BY <1>1, <1>6, Split
<1> HIDE DEF C
<1>9. C = <<>> <=> Len(C) = 0
  <2> HIDE DEF Byte
  <2> QED
    BY <1>8
<1>10. C # <<>> => n + 1 \in 1..Len(B) /\ n \in 1..(Len(B) - 1)
                   /\ C[1] = B[n + 1] /\ C[Len(C)] = B[Len(B)]
  <2>1. SUFFICES ASSUME C # <<>>
                 PROVE  n + 1 \in 1..Len(B) /\ n \in 1..(Len(B) - 1)
                        /\ C[1] = B[n + 1] /\ C[Len(C)] = B[Len(B)]
    OBVIOUS
  <2>2. Len(B) - n >= 1
    BY <1>6, <1>8, <1>9, <2>1
  <2>3. 1 \in 1..(Len(B) - n) /\ Len(B) - n \in 1..(Len(B) - n)
        /\ n + (Len(B) - n) = Len(B)
    BY <1>6, <2>2
  <2>4. C[1] = B[n + 1] /\ C[Len(B) - n] = B[n + (Len(B) - n)]
    BY <1>8, <2>3
  <2> QED
    BY <1>6, <1>8, <2>2, <2>3, <2>4
<1> QED
  BY <1>4, <1>6, <1>7, <1>8, <1>9, <1>10 DEF B

LEMMA DecodeStream ==
  ASSUME TypeOK, StreamOK, DecodeLength
  PROVE  StreamOK'
<1>1. /\ rconn = "open" /\ decoder = Length /\ Len(inbuf) >= HeaderLen
      /\ decoder' = sent[inbuf[1][1]].len /\ inbuf' = Advance(inbuf, HeaderLen)
      /\ UNCHANGED <<sent, outbuf, wire, inhandles, rconn, delivered, sconn>>
  BY DEF DecodeLength, HeaderReady, senderVars
<1>2. HeaderLen \in Nat /\ HeaderLen >= 1 /\ inbuf \in Seq(Byte)
  BY Positive DEF TypeOK
<1>3. HeaderLen \in 1..Len(inbuf) /\ inbuf # <<>>
  BY <1>1, <1>2
<1>4. Current \in 1..Len(sent) /\ sent[Current] \in Item /\ inbuf[1][1] = Current
  BY <1>1, <1>3, HeadItem
<1>5. decoder' = sent[Current].len /\ decoder' \in Nat /\ decoder' >= 1
  BY <1>1, <1>4, Positive DEF Item
<1> DEFINE B == Bytes
<1>6. /\ HeaderLen \in 1..Len(B) /\ Len(B) \in Nat
      /\ Chain(sent, Bytes')
      /\ Bytes' = <<>> <=> Len(B) = HeaderLen
      /\ Bytes' # <<>> => /\ HeaderLen + 1 \in 1..Len(B)
                          /\ Bytes'[1] = B[HeaderLen + 1]
                          /\ Bytes'[Len(Bytes')] = B[Len(B)]
  BY <1>1, <1>3, LeftBytes
<1>7. ASSUME NEW n \in 1..Len(B), n <= HeaderLen + 1
      PROVE  B[n] = <<Current, n>>
  <2>1. 1 + n - 1 <= FrameEnd(sent, Current) /\ n \in 1..n /\ 1 + n - 1 = n
    BY <1>2, <1>5, <1>6, <1>7 DEF FrameEnd
  <2>2. \A j \in 1..n : B[j] = <<Current, 1 + j - 1>>
    BY <1>1, <1>3, <2>1, ItemBytes
  <2> QED
    BY <2>1, <2>2
<1>8. /\ Len(delivered) <= Len(sent) /\ Len(sent) <= MaxItems
      /\ \A i \in 1..Len(sent) : sent[i].id = i /\ sent[i].handle \in {i, NoHandle}
      /\ sconn = "open" /\ B # <<>> =>
           B[Len(B)] = <<Len(sent), FrameEnd(sent, Len(sent))>>
  BY <1>1 DEF StreamOK
<1>9. Current' = Current /\ decoder' # Length /\ Len(delivered) < Len(sent)
  <2>1. Len(delivered) \in Nat /\ Len(sent) \in Nat
    BY DEF TypeOK
  <2> QED
    BY <1>1, <1>4, <1>5, <2>1 DEF Current, Length
<1>10. Bytes' # <<>> => Bytes'[1] = <<Current, HeaderLen + 1>>
  BY <1>2, <1>6, <1>7
<1>11. ~(sconn = "open" /\ Bytes' = <<>>)
  <2>1. SUFFICES ASSUME sconn = "open", Bytes' = <<>> PROVE FALSE
    OBVIOUS
  <2>2. Len(B) = HeaderLen /\ B # <<>>
    BY <1>1, <1>3, <1>6, <2>1, HeadItem
  <2>3. B[HeaderLen] = <<Current, HeaderLen>>
    BY <1>2, <1>6, <1>7
  <2>4. Current = Len(sent) /\ HeaderLen = FrameEnd(sent, Len(sent))
    BY <1>8, <2>1, <2>2, <2>3
  <2> QED
    BY <1>2, <1>5, <2>4 DEF FrameEnd
<1>12. sconn = "open" => Bytes'[Len(Bytes')] = <<Len(sent), FrameEnd(sent, Len(sent))>>
  <2>1. SUFFICES ASSUME sconn = "open"
                 PROVE  Bytes'[Len(Bytes')] = <<Len(sent), FrameEnd(sent, Len(sent))>>
    OBVIOUS
  <2>2. Bytes' # <<>> /\ B # <<>>
    BY <1>1, <1>3, <1>11, <2>1, HeadItem
  <2> QED
    BY <1>6, <1>8, <2>1, <2>2
<1> HIDE DEF B
<1> QED
  BY <1>1, <1>5, <1>6, <1>8, <1>9, <1>10, <1>11, <1>12 DEF StreamOK

\* The bytes of an item are taken, and those left are of later items.
LEMMA ProcessBytes ==
  ASSUME TypeOK, StreamOK, ProcessInbound
  PROVE  /\ rconn = "open" /\ decoder \in 1..Len(inbuf) /\ inbuf # <<>>
         /\ Current \in 1..Len(sent) /\ sent[Current] \in Item /\ inbuf[1][1] = Current
         /\ Chain(sent, Bytes')
         /\ Bytes' # <<>> => /\ Bytes'[1] = <<Current + 1, 1>>
                             /\ Bytes'[Len(Bytes')] = Bytes[Len(Bytes)]
         /\ Bytes' = <<>> => Bytes[Len(Bytes)] = <<Current, FrameEnd(sent, Current)>>
<1>1. /\ rconn = "open" /\ decoder # Length /\ Len(inbuf) >= decoder
      /\ inbuf' = Advance(inbuf, decoder) /\ UNCHANGED <<wire, outbuf>>
  BY DEF ProcessInbound, DataReady, senderVars
<1>2. decoder \in Nat /\ decoder >= 1 /\ inbuf \in Seq(Byte)
  BY <1>1, Positive DEF TypeOK
<1>3. decoder \in 1..Len(inbuf) /\ inbuf # <<>>
  BY <1>1, <1>2
<1>4. Current \in 1..Len(sent) /\ sent[Current] \in Item /\ inbuf[1][1] = Current
  BY <1>1, <1>3, HeadItem
<1>5. decoder = sent[Current].len
  BY <1>1 DEF StreamOK
<1> DEFINE B == Bytes
           n == FrameEnd(sent, Current)
<1>6. n = HeaderLen + decoder /\ HeaderLen \in Nat /\ n \in Nat
  BY <1>2, <1>5, Positive DEF FrameEnd
<1>7. /\ decoder \in 1..Len(B) /\ Len(B) \in Nat
      /\ Chain(sent, Bytes')
      /\ Bytes' = <<>> <=> Len(B) = decoder
      /\ Bytes' # <<>> => /\ decoder + 1 \in 1..Len(B) /\ decoder \in 1..(Len(B) - 1)
                          /\ Bytes'[1] = B[decoder + 1]
                          /\ Bytes'[Len(Bytes')] = B[Len(B)]
  BY <1>1, <1>3, LeftBytes
<1>8. B[decoder] = <<Current, n>>
  <2>1. (HeaderLen + 1) + decoder - 1 = n /\ HeaderLen + 1 \in Nat
        /\ (HeaderLen + 1) + decoder - 1 <= n /\ decoder \in 1..decoder
    BY <1>2, <1>6
  <2>2. \A j \in 1..decoder : B[j] = <<Current, (HeaderLen + 1) + j - 1>>
    <3> HIDE DEF n
    <3> QED
      BY <1>1, <1>3, <1>7, <2>1, ItemBytes DEF n
  <2> QED
    BY <2>1, <2>2
<1>9. Bytes' # <<>> => Bytes'[1] = <<Current + 1, 1>>
  <2>1. SUFFICES ASSUME Bytes' # <<>> PROVE Bytes'[1] = <<Current + 1, 1>>
    OBVIOUS
  <2>2. B[decoder + 1] = NextByte(sent, B[decoder])
    <3>1. Chain(sent, B)
      BY <1>1 DEF StreamOK
    <3> HIDE DEF B
    <3> QED
      BY <1>7, <2>1, <3>1 DEF Chain
  <2>3. ~(n < FrameEnd(sent, Current))
    BY <1>6
  <2>4. NextByte(sent, B[decoder]) = <<Current + 1, 1>>
    BY <1>8, <2>3 DEF NextByte
  <2> QED
    BY <1>7, <2>1, <2>2, <2>4
<1> QED
  BY <1>1, <1>3, <1>4, <1>7, <1>8, <1>9

LEMMA ProcessStream ==
  ASSUME TypeOK, StreamOK, ProcessInbound
  PROVE  StreamOK'
<1>1. /\ rconn = "open" /\ decoder' = Length /\ decoder # Length
      /\ Len(delivered') = Len(delivered) + 1
      /\ UNCHANGED <<sent, rconn, sconn>>
  BY DEF ProcessInbound, DataReady, DecoderReset, senderVars, TypeOK
<1>2. /\ Current \in 1..Len(sent)
      /\ Chain(sent, Bytes')
      /\ Bytes' # <<>> => /\ Bytes'[1] = <<Current + 1, 1>>
                          /\ Bytes'[Len(Bytes')] = Bytes[Len(Bytes)]
      /\ Bytes' = <<>> => Bytes[Len(Bytes)] = <<Current, FrameEnd(sent, Current)>>
      /\ Bytes # <<>>
  BY ProcessBytes, HeadItem
<1>3. Current' = Current + 1 /\ Len(delivered') = Current
  BY <1>1 DEF Current
<1>4. /\ Len(sent) <= MaxItems
      /\ \A i \in 1..Len(sent) : sent[i].id = i /\ sent[i].handle \in {i, NoHandle}
      /\ sconn = "open" => Bytes[Len(Bytes)] = <<Len(sent), FrameEnd(sent, Len(sent))>>
  BY <1>1, <1>2 DEF StreamOK
<1>5. Len(delivered') <= Len(sent)
  BY <1>2, <1>3
<1>6. sconn = "open" =>
        IF Bytes' = <<>> THEN Len(delivered') = Len(sent)
        ELSE Bytes'[Len(Bytes')] = <<Len(sent), FrameEnd(sent, Len(sent))>>
  BY <1>2, <1>3, <1>4
<1> QED
  BY <1>1, <1>2, <1>3, <1>4, <1>5, <1>6 DEF StreamOK

LEMMA StreamStep ==
  ASSUME TypeOK, StreamOK, [Next]_vars, TypeOK'
  PROVE  StreamOK'
<1>1. CASE UNCHANGED vars
  <2>1. UNCHANGED <<sent, delivered, decoder, sconn, rconn, inbuf, wire, outbuf, inhandles>>
    BY <1>1 DEF vars, senderVars, receiverVars
  <2>2. Bytes' = Bytes
    BY <2>1 DEF Bytes
  <2> QED
    BY <2>1, <2>2 DEF StreamOK, Current
<1>2. CASE FlushOutbound
  BY <1>2, FlushStream
<1>3. CASE CloseSender
  BY <1>3, CloseSenderStream
<1>4. CASE CloseReceiver
  BY <1>4, CloseReceiverStream
<1>5. CASE SendMsg
  BY <1>5, SendBytes, StreamSame DEF SendMsg, receiverVars
<1>6. CASE SendBlocked \/ WritableEvent
  <2>1. UNCHANGED <<sent, delivered, decoder, sconn, rconn, inbuf, wire, outbuf, inhandles>>
    BY <1>6 DEF SendBlocked, WritableEvent, receiverVars
  <2>2. Bytes' = Bytes
    BY <2>1 DEF Bytes
  <2> QED
    BY <2>1, <2>2 DEF StreamOK, Current
<1>7. CASE RecvMsg
  BY <1>7, RecvBytes, StreamSame DEF RecvMsg, senderVars
<1>8. CASE DecodeLength
  BY <1>8, DecodeStream
<1>9. CASE ProcessInbound
  BY <1>9, ProcessStream
<1> QED
  BY <1>1, <1>2, <1>3, <1>4, <1>5, <1>6, <1>7, <1>8, <1>9
     DEF Next, SenderStep, ReceiverStep, SenderSeesClose, ReceiverSeesClose

\* The decoder finds the frames where they are.  (codec.rs:94, 117)
LEMMA FramedLemma ==
  ASSUME TypeOK, StreamOK
  PROVE  Framed
<1>1. ASSUME HeaderReady PROVE inbuf[1][2] = 1
  <2>1. decoder = Length /\ Len(inbuf) >= 1
    BY <1>1, Positive DEF HeaderReady, TypeOK
  <2>2. inbuf # <<>>
    BY <2>1
  <2>3. rconn = "open"
    BY <2>2 DEF StreamOK, TypeOK
  <2> QED
    BY <2>1, <2>2, <2>3, HeadItem
<1>2. ASSUME DataReady
      PROVE  LET i == inbuf[1][1] IN
             /\ decoder = sent[i].len
             /\ \A k \in 1..decoder : inbuf[k] = <<i, HeaderLen + k>>
  <2>1. decoder # Length /\ decoder \in Nat /\ decoder >= 1 /\ Len(inbuf) >= decoder
        /\ inbuf \in Seq(Byte) /\ HeaderLen \in Nat
    BY <1>2, Positive DEF DataReady, TypeOK
  <2>2. inbuf # <<>>
    BY <2>1
  <2>3. rconn = "open"
    BY <2>2 DEF StreamOK, TypeOK
  <2>4. inbuf[1][1] = Current /\ decoder = sent[Current].len
    BY <2>1, <2>2, <2>3, HeadItem DEF StreamOK
  <2>5. /\ Len(Bytes) = Len(inbuf) + Len(wire) + Len(outbuf)
        /\ \A j \in 1..Len(inbuf) : Bytes[j] = inbuf[j]
        /\ Len(inbuf) \in Nat /\ Len(wire) \in Nat /\ Len(outbuf) \in Nat
    <3>1. inbuf \in Seq(Byte) /\ wire \in Seq(Cell) /\ outbuf \in Seq(Byte)
      BY DEF TypeOK
    <3> QED
      BY <3>1, Parts DEF Bytes
  <2>6. decoder \in 1..Len(Bytes)
    BY <2>1, <2>5
  <2>7. HeaderLen + 1 \in Nat /\ (HeaderLen + 1) + decoder - 1 <= FrameEnd(sent, Current)
    BY <2>1, <2>4 DEF FrameEnd
  <2>8. \A k \in 1..decoder : Bytes[k] = <<Current, (HeaderLen + 1) + k - 1>>
    BY <2>1, <2>2, <2>3, <2>6, <2>7, ItemBytes
  <2>9. \A k \in 1..decoder : k \in 1..Len(inbuf) /\ (HeaderLen + 1) + k - 1 = HeaderLen + k
    BY <2>1
  <2> QED
    BY <2>4, <2>5, <2>8, <2>9
<1> QED
  BY <1>1, <1>2 DEF Framed

-----------------------------------------------------------------------------
(* Items and handles *)

LEMMA ItemsCat ==
  ASSUME NEW s \in Seq(Byte), NEW t \in Seq(Byte)
  PROVE  Items(s \o t) = Items(s) \cup Items(t)
<1> DEFINE u == s \o t
<1>1. Len(u) = Len(s) + Len(t)
      /\ \A i \in 1..(Len(s) + Len(t)) :
           u[i] = IF i <= Len(s) THEN s[i] ELSE t[i - Len(s)]
  BY ConcatProperties
<1>2. Len(s) \in Nat /\ Len(t) \in Nat
  OBVIOUS
<1> HIDE DEF u
<1>3. ASSUME NEW j \in 1..Len(u) PROVE u[j][1] \in Items(s) \cup Items(t)
  <2>1. CASE j <= Len(s)
    <3>1. j \in 1..Len(s) /\ u[j] = s[j]
      BY <2>1, <1>1, <1>2
    <3> QED
      BY <3>1 DEF Items
  <2>2. CASE ~(j <= Len(s))
    <3>1. j - Len(s) \in 1..Len(t) /\ u[j] = t[j - Len(s)]
      BY <2>2, <1>1, <1>2
    <3> QED
      BY <3>1 DEF Items
  <2> QED
    BY <2>1, <2>2
<1>4. ASSUME NEW j \in 1..Len(s) PROVE s[j][1] \in Items(u)
  <2>1. j \in 1..Len(u) /\ u[j] = s[j]
    BY <1>1, <1>2
  <2> QED
    BY <2>1 DEF Items
<1>5. ASSUME NEW j \in 1..Len(t) PROVE t[j][1] \in Items(u)
  <2>1. Len(s) + j \in 1..Len(u) /\ ~(Len(s) + j <= Len(s)) /\ (Len(s) + j) - Len(s) = j
    BY <1>1, <1>2
  <2>2. u[Len(s) + j] = t[j]
    BY <2>1, <1>1
  <2> QED
    BY <2>1, <2>2 DEF Items
<1>6. Items(u) \subseteq Items(s) \cup Items(t)
  BY <1>3 DEF Items
<1>7. Items(s) \subseteq Items(u) /\ Items(t) \subseteq Items(u)
  BY <1>4, <1>5 DEF Items
<1> QED
  BY <1>6, <1>7 DEF u

LEMMA ItemsAdvance ==
  ASSUME NEW s \in Seq(Byte), NEW n \in 0..Len(s)
  PROVE  Items(Advance(s, n)) \subseteq Items(s)
<1> DEFINE b == Advance(s, n)
<1>1. Len(b) = Len(s) - n /\ \A i \in 1..(Len(s) - n) : b[i] = s[n + i]
  BY Split
<1>2. n \in Nat /\ n <= Len(s) /\ Len(s) \in Nat
  OBVIOUS
<1> HIDE DEF b
<1>3. ASSUME NEW j \in 1..Len(b) PROVE b[j][1] \in Items(s)
  <2>1. n + j \in 1..Len(s) /\ b[j] = s[n + j]
    BY <1>1, <1>2
  <2> QED
    BY <2>1 DEF Items
<1>4. Items(b) \subseteq Items(s)
  BY <1>3 DEF Items
<1> QED
  BY <1>4 DEF b

LEMMA ItemsEmpty ==
  Items(<<>>) = {}
BY DEF Items

LEMMA ItemsEncode ==
  ASSUME NEW item \in Item
  PROVE  Items(Encode(item)) \subseteq {item.id}
<1> DEFINE n == HeaderLen + item.len
<1>1. n \in Nat
  BY Positive DEF Item
<1>2. Encode(item) = [k \in 1..n |-> <<item.id, k>>]
  BY DEF Encode
<1> HIDE DEF n
<1>3. Len(Encode(item)) = n /\ \A k \in 1..n : Encode(item)[k] = <<item.id, k>>
  BY <1>1, <1>2
<1>4. \A k \in 1..Len(Encode(item)) : Encode(item)[k][1] = item.id
  BY <1>3
<1> QED
  BY <1>4 DEF Items

\* The bytes of a piece that starts in item c are of items from c on.
LEMMA ItemsFrom ==
  ASSUME NEW items, NEW s \in Seq(Byte), Chain(items, s), NEW c \in Nat,
         s # <<>> => s[1][1] = c
  PROVE  \A h \in Items(s) : h \in 1..Len(items) /\ c <= h
<1>1. CASE s = <<>>
  BY <1>1, ItemsEmpty
<1>2. CASE s # <<>>
  <2>1. \A j \in 1..Len(s) : s[1][1] <= s[j][1]
    BY <1>2, ChainMono
  <2>2. \A j \in 1..Len(s) : s[j][1] \in 1..Len(items)
    BY DEF Chain, Whole
  <2> QED
    BY <1>2, <2>1, <2>2 DEF Items
<1> QED
  BY <1>1, <1>2

\* Where the bytes of Bytes are.
LEMMA ItemsBytes ==
  ASSUME TypeOK
  PROVE  /\ Items(Bytes) = Items(inbuf \o BytesOf(wire)) \cup Items(outbuf)
         /\ Items(inbuf \o BytesOf(wire)) = Items(inbuf) \cup Items(BytesOf(wire))
<1>1. /\ inbuf \in Seq(Byte) /\ BytesOf(wire) \in Seq(Byte) /\ outbuf \in Seq(Byte)
      /\ inbuf \o BytesOf(wire) \in Seq(Byte)
  BY BytesType
<1> DEFINE w == BytesOf(wire)
           u == inbuf \o w
<1>2. Bytes = u \o outbuf
  BY DEF Bytes
<1>3. Items(u) = Items(inbuf) \cup Items(w)
  <2> HIDE DEF w
  <2> QED
    BY <1>1, ItemsCat DEF w
<1>4. Items(u \o outbuf) = Items(u) \cup Items(outbuf)
  <2> HIDE DEF u
  <2> QED
    BY <1>1, ItemsCat DEF u
<1> QED
  BY <1>2, <1>3, <1>4

\* The items under way are those not yet delivered.
LEMMA ItemsUnderWay ==
  ASSUME TypeOK, StreamOK
  PROVE  /\ rconn = "open" => Items(Bytes) \subseteq Current..Len(sent)
         /\ Items(inbuf \o BytesOf(wire)) \subseteq Current..Len(sent)
<1>1. Current \in Nat /\ Len(sent) \in Nat
  BY DEF TypeOK, Current
<1>2. CASE rconn = "open"
  <2>1. Bytes \in Seq(Byte)
    BY BytesType
  <2>2. Chain(sent, Bytes) /\ (Bytes # <<>> => Bytes[1][1] = Current)
    BY <1>2 DEF StreamOK
  <2>3. \A h \in Items(Bytes) : h \in 1..Len(sent) /\ Current <= h
    BY <1>1, <2>1, <2>2, ItemsFrom
  <2>4. Items(Bytes) \subseteq Current..Len(sent)
    BY <1>1, <2>3
  <2> QED
    BY <2>4, ItemsBytes
<1>3. CASE rconn = "closed"
  <2>1. inbuf = <<>> /\ wire = <<>>
    BY <1>3 DEF StreamOK
  <2>2. inbuf \o BytesOf(wire) = <<>>
    <3>1. BytesOf(<<>>) = <<>>
      BY DEF BytesOf
    <3> QED
      BY <2>1, <3>1
  <2> QED
    BY <1>3, <2>2, ItemsEmpty
<1> QED
  BY <1>2, <1>3 DEF TypeOK

\* A step that takes bytes from the front.
LEMMA ItemsTaken ==
  ASSUME TypeOK, NEW n \in 0..Len(inbuf), inbuf' = Advance(inbuf, n),
         UNCHANGED <<wire, outbuf>>, TypeOK'
  PROVE  /\ Items(inbuf') \subseteq Items(inbuf)
         /\ Items(Bytes') \subseteq Items(Bytes)
         /\ Items((inbuf \o BytesOf(wire))') \subseteq Items(inbuf \o BytesOf(wire))
<1>1. /\ inbuf \in Seq(Byte) /\ BytesOf(wire) \in Seq(Byte) /\ outbuf \in Seq(Byte)
      /\ inbuf' \in Seq(Byte)
  BY BytesType DEF TypeOK
<1>2. Items(inbuf') \subseteq Items(inbuf)
  BY <1>1, ItemsAdvance
<1> DEFINE w == BytesOf(wire)
<1>3. BytesOf(wire') = w
  OBVIOUS
<1>4. (inbuf \o BytesOf(wire))' = inbuf' \o w
  BY <1>3
<1>5. Items(inbuf' \o w) = Items(inbuf') \cup Items(w)
      /\ Items(inbuf \o w) = Items(inbuf) \cup Items(w)
  <2> HIDE DEF w
  <2> QED
    BY <1>1, ItemsCat DEF w
<1>6. Items((inbuf \o BytesOf(wire))') \subseteq Items(inbuf \o BytesOf(wire))
  BY <1>2, <1>4, <1>5
<1>7. Items(Bytes') \subseteq Items(Bytes)
  <2>1. Bytes' = Advance(Bytes, n)
    BY AdvanceBytes
  <2>2. Bytes \in Seq(Byte) /\ Len(Bytes) = Len(inbuf) + Len(wire) + Len(outbuf)
        /\ Len(inbuf) \in Nat /\ Len(wire) \in Nat /\ Len(outbuf) \in Nat
    BY BytesType
  <2>3. n \in 0..Len(Bytes)
    BY <2>2
  <2> QED
    BY <2>1, <2>2, <2>3, ItemsAdvance
<1> QED
  BY <1>2, <1>6, <1>7

\* What FlushOutbound adds.
LEMMA FlushParts ==
  ASSUME TypeOK, StreamOK, FlushOutbound
  PROVE  \E item \in Item :
           /\ item.id = Len(sent) + 1 /\ item.handle \in {Len(sent) + 1, NoHandle}
           /\ Len(sent) \in Nat /\ Len(sent') = Len(sent) + 1
           /\ sent'[Len(sent) + 1] = item
           /\ \A i \in 1..Len(sent) : sent'[i] = sent[i]
           /\ Bytes' = Bytes \o Encode(item)
           /\ CanProduce /\ FlushItem(item)
<1>1. PICK len \in Lengths, withHandle \in BOOLEAN :
        CanProduce /\ FlushItem(Produced(len, withHandle))
  BY DEF FlushOutbound
<1> DEFINE item == Produced(len, withHandle)
           e == Encode(item)
           u == inbuf \o BytesOf(wire)
<1>2. item \in Item /\ item.id = Len(sent) + 1 /\ item.handle \in {Len(sent) + 1, NoHandle}
      /\ Len(sent) \in Nat
  BY <1>1, ProducedItem
<1> HIDE DEF item
<1>3. /\ sent' = Append(sent, item) /\ outbuf' = outbuf \o e
      /\ UNCHANGED <<inbuf, wire>>
  BY <1>1 DEF FlushItem, receiverVars, item
<1>4. Len(sent') = Len(sent) + 1 /\ sent'[Len(sent) + 1] = item
      /\ \A i \in 1..Len(sent) : sent'[i] = sent[i]
  BY <1>3 DEF TypeOK
<1>5. u \in Seq(Byte) /\ outbuf \in Seq(Byte) /\ e \in Seq(Byte)
  BY <1>2, BytesType, EncodeType
<1>6. Bytes = Cat(u, outbuf) /\ Bytes' = Cat(u, Cat(outbuf, e))
  BY <1>3 DEF Bytes, Cat
<1> HIDE DEF u, e
<1>7. Cat(Cat(u, outbuf), e) = Cat(u, Cat(outbuf, e))
  BY <1>5, CatAssociative
<1>8. Bytes' = Bytes \o e
  BY <1>6, <1>7 DEF Cat
<1> QED
  BY <1>1, <1>2, <1>4, <1>8 DEF e, item

\* What one recvmsg moves from the wire to inbound.buf.
LEMMA RecvItems ==
  ASSUME TypeOK, RecvMsg
  PROVE  Items((inbuf \o BytesOf(wire))') = Items(inbuf \o BytesOf(wire))
<1>1. PICK n \in 1..Len(wire) :
        /\ inbuf' = inbuf \o [i \in 1..n |-> wire[i].byte]
        /\ wire' = Advance(wire, n)
  BY DEF RecvMsg
<1>2. inbuf \in Seq(Byte) /\ wire \in Seq(Cell)
  BY BytesType
<1>3. n \in 0..Len(wire)
  BY <1>2
<1> DEFINE a == [i \in 1..n |-> wire[i].byte]
           v == Advance(wire, n)
           w == BytesOf(v)
<1>4. a \in Seq(Byte) /\ v \in Seq(Cell) /\ BytesOf(wire) = a \o w
  BY <1>2, <1>3, Received
<1>5. (inbuf \o BytesOf(wire))' = Cat(Cat(inbuf, a), w)
      /\ inbuf \o BytesOf(wire) = Cat(inbuf, Cat(a, w))
  BY <1>1, <1>4 DEF Cat
<1> HIDE DEF a, v
<1>6. w \in Seq(Byte)
  BY <1>4, BytesCat
<1>7. Cat(Cat(inbuf, a), w) = Cat(inbuf, Cat(a, w))
  BY <1>2, <1>4, <1>6, CatAssociative
<1> QED
  BY <1>5, <1>7

LEMMA UnsentInit ==
  Init => UnsentOK
<1> SUFFICES ASSUME Init PROVE UnsentOK
  OBVIOUS
<1>1. outhandles = <<>>
  BY DEF Init
<1>2. ToSet(outhandles) = {}
  BY <1>1 DEF ToSet
<1> QED
  BY <1>1, <1>2 DEF UnsentOK, Inc

LEMMA UnsentEmpty ==
  ASSUME TypeOK, UnsentOK, outhandles' = <<>>, UNCHANGED <<sent, delivered>>
  PROVE  UnsentOK'
<1>1. ToSet(outhandles') = {}
  BY DEF ToSet
<1> QED
  BY <1>1 DEF UnsentOK, Inc

\* A step that gives the receiver no byte of another item.
LEMMA UnsentSame ==
  ASSUME TypeOK, UnsentOK, UNCHANGED <<sent, outhandles, delivered>>,
         Items((inbuf \o BytesOf(wire))') \subseteq Items(inbuf \o BytesOf(wire))
  PROVE  UnsentOK'
<1>1. Items((inbuf \o BytesOf(wire))') \cap ToSet(outhandles') = {}
  BY DEF UnsentOK
<1> QED
  BY <1>1 DEF UnsentOK, Own, Current

LEMMA UnsentFlush ==
  ASSUME TypeOK, StreamOK, UnsentOK, FlushOutbound, TypeOK'
  PROVE  UnsentOK'
<1> DEFINE l == Len(sent)
           m == Len(outhandles)
<1>1. PICK item \in Item :
           /\ item.id = Len(sent) + 1 /\ item.handle \in {Len(sent) + 1, NoHandle}
           /\ Len(sent) \in Nat /\ Len(sent') = Len(sent) + 1
           /\ sent'[Len(sent) + 1] = item
           /\ \A i \in 1..Len(sent) : sent'[i] = sent[i]
           /\ CanProduce /\ FlushItem(item)
  BY FlushParts
<1>2. /\ UNCHANGED <<inbuf, wire, delivered>>
      /\ HasHandle(item) => outhandles' = Append(outhandles, item.handle)
      /\ ~HasHandle(item) => outhandles' = outhandles
  BY <1>1 DEF FlushItem, receiverVars
<1>3. Len(delivered) \in Nat /\ m \in Nat
  <2>1. delivered \in Seq(Item) /\ outhandles \in Seq(Ids)
    BY DEF TypeOK
  <2> QED
    BY <2>1
<1>4. Current' = Current /\ Current \in Nat /\ Current >= 1 /\ Current <= l + 1
  <2>1. Len(delivered) <= l
    BY DEF StreamOK
  <2> QED
    BY <1>1, <1>2, <1>3, <2>1 DEF Current
<1>5. \A h : Own(sent, Current, h) => h \in 1..l /\ Own(sent', Current, h)
  BY <1>1, <1>4 DEF Own
<1>6. \A i \in 1..m : Own(sent, Current, outhandles[i])
  BY DEF UnsentOK
<1>7. Items(inbuf \o BytesOf(wire)) \subseteq 1..l
  <2>1. Items(inbuf \o BytesOf(wire)) \subseteq Current..l
    BY ItemsUnderWay
  <2> QED
    BY <1>1, <1>3, <2>1 DEF Current
<1>8. (inbuf \o BytesOf(wire))' = inbuf \o BytesOf(wire)
  BY <1>2
<1>9. CASE ~HasHandle(item)
  <2>1. outhandles' = outhandles
    BY <1>2, <1>9
  <2> QED
    BY <1>4, <1>5, <1>6, <1>8, <2>1 DEF UnsentOK
<1>10. CASE HasHandle(item)
  <2>1. item.handle = l + 1 /\ l + 1 \in Ids
    <3>1. item.handle \in Ids \cup {NoHandle}
      BY DEF Item
    <3> QED
      BY <1>1, <1>10, <3>1 DEF HasHandle
  <2>2. outhandles' = Append(outhandles, l + 1) /\ outhandles \in Seq(Ids)
    BY <1>2, <1>10, <2>1 DEF TypeOK
  <2>3. Len(outhandles') = m + 1 /\ outhandles'[m + 1] = l + 1
        /\ \A i \in 1..m : outhandles'[i] = outhandles[i]
    BY <2>1, <2>2
  <2>4. \A i \in 1..(m + 1) : i \in 1..m \/ i = m + 1
    BY <1>3
  <2>5. Own(sent', Current, l + 1)
    <3>1. l + 1 \in Current..(l + 1)
      BY <1>1, <1>4
    <3> QED
      BY <1>1, <1>4, <2>1, <3>1 DEF Own
  <2>6. \A i \in 1..Len(outhandles') : Own(sent', Current, outhandles'[i])
    BY <1>5, <1>6, <2>3, <2>4, <2>5
  <2>7. Inc(outhandles')
    <3>1. SUFFICES ASSUME NEW i \in 1..(m + 1), NEW j \in 1..(m + 1), i < j
                   PROVE  outhandles'[i] < outhandles'[j]
      BY <2>3 DEF Inc
    <3>2. i \in 1..m
      BY <1>3, <3>1
    <3>3. outhandles[i] \in 1..l
      BY <1>5, <1>6, <3>2
    <3>4. CASE j = m + 1
      BY <1>1, <2>3, <3>2, <3>3, <3>4
    <3>5. CASE j \in 1..m
      BY <2>3, <3>1, <3>2, <3>5 DEF UnsentOK, Inc
    <3> QED
      BY <2>4, <3>4, <3>5
  <2>8. Items(inbuf \o BytesOf(wire)) \cap ToSet(outhandles') = {}
    <3>1. ToSet(outhandles') = {outhandles'[i] : i \in 1..(m + 1)}
          /\ ToSet(outhandles) = {outhandles[i] : i \in 1..m}
      <4>1. outhandles' \in Seq(Ids) /\ outhandles \in Seq(Ids)
        BY DEF TypeOK
      <4>2. DOMAIN outhandles' = 1..(m + 1) /\ DOMAIN outhandles = 1..m
        BY <2>3, <4>1
      <4> QED
        BY <4>2 DEF ToSet
    <3>2. ToSet(outhandles') \subseteq ToSet(outhandles) \cup {l + 1}
      BY <2>3, <2>4, <3>1
    <3>3. l + 1 \notin 1..l
      BY <1>1
    <3> QED
      BY <1>7, <3>2, <3>3 DEF UnsentOK
  <2> QED
    BY <1>4, <1>8, <2>6, <2>7, <2>8 DEF UnsentOK
<1> QED
  BY <1>9, <1>10

LEMMA UnsentProcess ==
  ASSUME TypeOK, StreamOK, UnsentOK, ProcessInbound, TypeOK'
  PROVE  UnsentOK'
<1>1. /\ rconn = "open" /\ decoder \in 1..Len(inbuf) /\ inbuf # <<>>
      /\ inbuf[1][1] = Current
  BY ProcessBytes
<1>2. /\ UNCHANGED <<sent, outhandles, wire, outbuf>> /\ inbuf' = Advance(inbuf, decoder)
      /\ Len(delivered') = Len(delivered) + 1
  BY DEF ProcessInbound, senderVars, TypeOK
<1>3. inbuf \in Seq(Byte) /\ Len(delivered) \in Nat /\ Len(sent) \in Nat
      /\ outhandles \in Seq(Ids)
  <2>1. inbuf \in Seq(Byte) /\ delivered \in Seq(Item) /\ sent \in Seq(Item)
        /\ outhandles \in Seq(Ids)
    BY DEF TypeOK
  <2> QED
    BY <2>1
<1>4. decoder \in 0..Len(inbuf) /\ 1 \in 1..Len(inbuf)
  BY <1>1, <1>3
<1>5. Items((inbuf \o BytesOf(wire))') \subseteq Items(inbuf \o BytesOf(wire))
  BY <1>2, <1>4, ItemsTaken
<1>6. Current \notin ToSet(outhandles)
  <2>1. Current \in Items(inbuf)
    BY <1>1, <1>4 DEF Items
  <2>2. Current \in Items(inbuf \o BytesOf(wire))
    BY <2>1, ItemsBytes
  <2> QED
    BY <2>2 DEF UnsentOK
<1>7. \A i \in 1..Len(outhandles) : Own(sent', Current', outhandles[i])
  <2>1. TAKE i \in 1..Len(outhandles)
  <2>2. outhandles[i] # Current
    <3>1. outhandles[i] \in ToSet(outhandles)
      BY <1>3 DEF ToSet
    <3> QED
      BY <1>6, <3>1
  <2>3. Own(sent, Current, outhandles[i])
    BY DEF UnsentOK
  <2>4. outhandles[i] \in (Current + 1)..Len(sent) /\ Current' = Current + 1
    BY <1>2, <1>3, <2>2, <2>3 DEF Own, Current
  <2> QED
    BY <1>2, <2>3, <2>4 DEF Own
<1> QED
  BY <1>2, <1>5, <1>7 DEF UnsentOK

LEMMA UnsentStep ==
  ASSUME TypeOK, StreamOK, UnsentOK, [Next]_vars, TypeOK'
  PROVE  UnsentOK'
<1>1. CASE UNCHANGED vars
  <2>1. UNCHANGED <<sent, outhandles, delivered, inbuf, wire>>
    BY <1>1 DEF vars, senderVars, receiverVars
  <2>2. (inbuf \o BytesOf(wire))' = inbuf \o BytesOf(wire)
    BY <2>1
  <2> QED
    BY <2>1, <2>2, UnsentSame
<1>2. CASE FlushOutbound
  BY <1>2, UnsentFlush
<1>3. CASE CloseSender
  BY <1>3, UnsentEmpty DEF CloseSender, DropUnsent, receiverVars
<1>4. CASE CloseReceiver
  <2>1. UNCHANGED <<sent, outhandles, delivered>> /\ inbuf' = <<>> /\ wire' = <<>>
    BY <1>4 DEF CloseReceiver, senderVars
  <2>2. (inbuf \o BytesOf(wire))' = <<>>
    <3>1. BytesOf(<<>>) = <<>>
      BY DEF BytesOf
    <3> QED
      BY <2>1, <3>1
  <2>3. Items((inbuf \o BytesOf(wire))') \subseteq Items(inbuf \o BytesOf(wire))
    BY <2>2, ItemsEmpty
  <2> QED
    BY <2>1, <2>3, UnsentSame
<1>5. CASE SendMsg
  <2>1. outhandles' = <<>>
    BY <1>5 DEF SendMsg, SendUnix, SendWindows, DiscardSent
  <2> QED
    BY <1>5, <2>1, UnsentEmpty DEF SendMsg, receiverVars
<1>6. CASE SendBlocked \/ WritableEvent
  <2>1. UNCHANGED <<sent, outhandles, delivered, inbuf, wire>>
    BY <1>6 DEF SendBlocked, WritableEvent, receiverVars
  <2>2. (inbuf \o BytesOf(wire))' = inbuf \o BytesOf(wire)
    BY <2>1
  <2> QED
    BY <2>1, <2>2, UnsentSame
<1>7. CASE RecvMsg
  BY <1>7, RecvItems, UnsentSame DEF RecvMsg, senderVars
<1>8. CASE DecodeLength
  <2>1. UNCHANGED <<sent, outhandles, delivered, wire, outbuf>>
        /\ inbuf' = Advance(inbuf, HeaderLen) /\ Len(inbuf) >= HeaderLen
    BY <1>8 DEF DecodeLength, HeaderReady, senderVars
  <2>2. HeaderLen \in 0..Len(inbuf)
    BY <2>1, Positive DEF TypeOK
  <2>3. Items((inbuf \o BytesOf(wire))') \subseteq Items(inbuf \o BytesOf(wire))
    BY <2>1, <2>2, ItemsTaken
  <2> QED
    BY <2>1, <2>3, UnsentSame
<1>9. CASE ProcessInbound
  BY <1>9, UnsentProcess
<1> QED
  BY <1>1, <1>2, <1>3, <1>4, <1>5, <1>6, <1>7, <1>8, <1>9
     DEF Next, SenderStep, ReceiverStep, SenderSeesClose, ReceiverSeesClose

-----------------------------------------------------------------------------
(* The handles of the receiving process, step by step *)

OpenUnix ==
  \A h \in Ids : ropen[h] = Count(h, inhandles) + Cardinality(Holders(delivered, h))

OpenWindows ==
  /\ cmsg = <<>> /\ inhandles = <<>>
  /\ \A j \in 1..Len(wire) : wire[j].fds = <<>>
  /\ \A i \in 1..Len(outhandles) : ropen[outhandles[i]] >= 1
  /\ \A i \in 1..Len(delivered) :
       delivered[i].handle = sent[i].handle /\ (HasHandle(sent[i]) => ropen[i] >= 1)
  /\ rconn = "open" => \A h \in Items(Bytes) : HasHandle(sent[h]) => ropen[h] >= 1

LEMMA OpenParts ==
  /\ OpenOK <=> /\ platform = "unix" => OpenUnix
                /\ platform = "windows" => OpenWindows
  /\ OpenOK' <=> /\ platform' = "unix" => OpenUnix'
                 /\ platform' = "windows" => OpenWindows'
BY DEF OpenOK, OpenUnix, OpenWindows

LEMMA OpenInit ==
  Init => OpenOK
<1> SUFFICES ASSUME Init PROVE OpenOK
  OBVIOUS
<1>1. sent = <<>> /\ delivered = <<>> /\ outhandles = <<>> /\ cmsg = <<>>
      /\ inhandles = <<>> /\ wire = <<>> /\ inbuf = <<>> /\ outbuf = <<>>
      /\ ropen = [h \in Ids |-> 0]
  BY DEF Init
<1>2. OpenUnix
  <2>1. \A h : Holders(delivered, h) = {}
    BY <1>1 DEF Holders
  <2>2. \A h : Cardinality(Holders(delivered, h)) = 0
    BY <2>1, FS_EmptySet
  <2> QED
    BY <1>1, <2>2, CountEmpty DEF OpenUnix
<1>3. OpenWindows
  <2>1. TypeOK
    BY TypeInit
  <2>2. Bytes = <<>>
    <3>1. Len(Bytes) = Len(inbuf) + Len(wire) + Len(outbuf) /\ (Bytes = <<>> <=> Len(Bytes) = 0)
      BY <2>1, BytesType
    <3> QED
      BY <1>1, <3>1
  <2>3. Items(Bytes) = {}
    BY <2>2, ItemsEmpty
  <2> QED
    BY <1>1, <2>3 DEF OpenWindows
<1> QED
  BY <1>2, <1>3, OpenParts

\* A step at the sending end.
LEMMA OpenUnixSame ==
  ASSUME OpenUnix, UNCHANGED <<inhandles, delivered, ropen>>
  PROVE  OpenUnix'
BY DEF OpenUnix

LEMMA OpenFlush ==
  ASSUME TransferInv, FlushOutbound, TypeOK'
  PROVE  OpenOK'
<1> USE DEF TransferInv
<1> DEFINE l == Len(sent)
           m == Len(outhandles)
<1>1. PICK item \in Item :
           /\ item.id = Len(sent) + 1 /\ item.handle \in {Len(sent) + 1, NoHandle}
           /\ Len(sent) \in Nat /\ Len(sent') = Len(sent) + 1
           /\ sent'[Len(sent) + 1] = item
           /\ \A i \in 1..Len(sent) : sent'[i] = sent[i]
           /\ Bytes' = Bytes \o Encode(item)
           /\ CanProduce /\ FlushItem(item)
  BY FlushParts
<1>2. /\ UNCHANGED <<platform, inhandles, wire, delivered, rconn>> /\ cmsg' = <<>>
      /\ HasHandle(item) => outhandles' = Append(outhandles, item.handle)
      /\ ~HasHandle(item) => outhandles' = outhandles
      /\ DuplicateToTarget(item)
  BY <1>1 DEF FlushItem, receiverVars, ReadRequest
<1>3. ASSUME platform = "unix" PROVE OpenUnix'
  <2>1. ropen' = ropen
    BY <1>2, <1>3 DEF DuplicateToTarget
  <2> QED
    BY <1>2, <1>3, <2>1, OpenParts, OpenUnixSame
<1>4. ASSUME platform = "windows" PROVE OpenWindows'
  <2>1. OpenWindows
    BY <1>4, OpenParts
  <2>2. ropen \in [Ids -> Nat] /\ outhandles \in Seq(Ids)
    BY DEF TypeOK
  <2>3. HasHandle(item) => item.handle = l + 1 /\ l + 1 \in Ids
    <3>1. item.handle \in Ids \cup {NoHandle}
      BY DEF Item
    <3> QED
      BY <1>1, <3>1 DEF HasHandle
  <2>4. (\A h \in Ids : ropen'[h] >= ropen[h]) /\ (HasHandle(item) => ropen'[l + 1] >= 1)
    <3>1. CASE HasHandle(item)
      <4>1. ropen' = [ropen EXCEPT ![l + 1] = @ + 1]
        BY <1>2, <1>4, <2>3, <3>1 DEF DuplicateToTarget
      <4>2. ropen'[l + 1] = ropen[l + 1] + 1 /\ ropen[l + 1] \in Nat
        BY <2>2, <2>3, <3>1, <4>1
      <4>3. \A h \in Ids : h # l + 1 => ropen'[h] = ropen[h]
        BY <2>2, <4>1
      <4>4. \A h \in Ids : ropen[h] \in Nat
        BY <2>2
      <4>5. ASSUME NEW h \in Ids PROVE ropen'[h] >= ropen[h]
        BY <4>2, <4>3, <4>4
      <4> QED
        BY <4>2, <4>5
    <3>2. CASE ~HasHandle(item)
      <4>1. ropen' = ropen
        BY <1>2, <3>2 DEF DuplicateToTarget
      <4>2. \A h \in Ids : ropen[h] \in Nat
        BY <2>2
      <4> QED
        BY <3>2, <4>1, <4>2
    <3> QED
      BY <3>1, <3>2
  <2>5. \A h \in Ids : ropen[h] \in Nat /\ ropen'[h] \in Nat
    <3>1. ropen' \in [Ids -> Nat]
      BY DEF TypeOK
    <3> QED
      BY <2>2, <3>1
  <2>6. \A h \in 1..l : h \in Ids /\ sent'[h] = sent[h]
    <3>1. l <= MaxItems /\ MaxItems \in Nat
      BY TransferAssumption DEF StreamOK
    <3> QED
      BY <1>1, <3>1 DEF Ids
  <2>7. \A i \in 1..Len(outhandles') : ropen'[outhandles'[i]] >= 1
    <3>1. ASSUME NEW i \in 1..m PROVE ropen'[outhandles[i]] >= 1
      <4>1. outhandles[i] \in Ids /\ ropen[outhandles[i]] >= 1
        BY <2>1, <2>2 DEF OpenWindows
      <4> QED
        BY <2>4, <2>5, <4>1
    <3>2. CASE ~HasHandle(item)
      BY <1>2, <3>1, <3>2
    <3>3. CASE HasHandle(item)
      <4>1. outhandles' = Append(outhandles, l + 1)
        BY <1>2, <2>3, <3>3
      <4>2. Len(outhandles') = m + 1 /\ outhandles'[m + 1] = l + 1
            /\ (\A i \in 1..m : outhandles'[i] = outhandles[i]) /\ m \in Nat
        BY <2>2, <2>3, <3>3, <4>1
      <4>3. \A i \in 1..(m + 1) : i \in 1..m \/ i = m + 1
        BY <4>2
      <4> QED
        BY <2>4, <3>1, <3>3, <4>2, <4>3
    <3> QED
      BY <3>2, <3>3
  <2>8. ASSUME NEW i \in 1..Len(delivered')
        PROVE  delivered'[i].handle = sent'[i].handle
               /\ (HasHandle(sent'[i]) => ropen'[i] >= 1)
    <3>1. i \in 1..l /\ i \in 1..Len(delivered)
      <4>1. Len(delivered) <= l /\ Len(delivered) \in Nat
        BY DEF StreamOK, TypeOK
      <4> QED
        BY <1>1, <1>2, <4>1
    <3>2. delivered[i].handle = sent[i].handle /\ (HasHandle(sent[i]) => ropen[i] >= 1)
      BY <2>1, <3>1 DEF OpenWindows
    <3> QED
      BY <1>2, <2>4, <2>5, <2>6, <3>1, <3>2
  <2>9. ASSUME rconn' = "open", NEW h \in Items(Bytes'), HasHandle(sent'[h])
        PROVE  ropen'[h] >= 1
    <3>1. rconn = "open"
      BY <1>2, <2>9
    <3>2. Items(Bytes') = Items(Bytes) \cup Items(Encode(item))
      <4>1. Bytes \in Seq(Byte) /\ Encode(item) \in Seq(Byte)
        BY BytesType, EncodeType
      <4> QED
        BY <1>1, <4>1, ItemsCat
    <3>3. h \in Items(Bytes) \/ h = l + 1
      BY <1>1, <3>2, ItemsEncode
    <3>4. CASE h = l + 1
      BY <1>1, <2>4, <2>9, <3>4
    <3>5. CASE h \in Items(Bytes)
      <4>1. h \in 1..l
        <5>1. Items(Bytes) \subseteq Current..l
          BY <3>1, ItemsUnderWay
        <5>2. delivered \in Seq(Item)
          BY DEF TypeOK
        <5> QED
          BY <1>1, <3>5, <5>1, <5>2 DEF Current
      <4>2. ropen[h] >= 1
        BY <2>1, <2>6, <2>9, <3>1, <3>5, <4>1 DEF OpenWindows
      <4> QED
        BY <2>4, <2>5, <2>6, <4>1, <4>2
    <3> QED
      BY <3>3, <3>4, <3>5
  <2>10. cmsg' = <<>> /\ inhandles' = <<>> /\ \A j \in 1..Len(wire') : wire'[j].fds = <<>>
    BY <1>2, <2>1 DEF OpenWindows
  <2> QED
    BY <2>7, <2>8, <2>9, <2>10 DEF OpenWindows
<1> QED
  BY <1>2, <1>3, <1>4, OpenParts

LEMMA OpenCloseSender ==
  ASSUME TransferInv, CloseSender, TypeOK'
  PROVE  OpenOK'
<1> USE DEF TransferInv
<1>1. /\ UNCHANGED <<platform, sent, wire, inbuf, inhandles, delivered, rconn>>
      /\ outhandles' = <<>> /\ cmsg' = <<>> /\ outbuf' = <<>>
  BY DEF CloseSender, DropUnsent, receiverVars
<1>2. ASSUME platform = "unix" PROVE OpenUnix'
  <2>1. ropen' = ropen
    BY <1>2 DEF CloseSender, DropUnsent
  <2> QED
    BY <1>1, <1>2, <2>1, OpenParts, OpenUnixSame
<1>3. ASSUME platform = "windows" PROVE OpenWindows'
  <2>1. OpenWindows
    BY <1>3, OpenParts
  <2>2. ropen' = [h \in Ids |-> IF h \in ToSet(outhandles) THEN ropen[h] - 1 ELSE ropen[h]]
    BY <1>3 DEF CloseSender, DropUnsent
  <2>3. \A h \in Ids : h \notin ToSet(outhandles) => ropen'[h] = ropen[h]
    BY <2>2
  <2>4. Len(sent) \in Nat /\ Len(sent) <= MaxItems /\ Len(delivered) \in Nat
        /\ Len(delivered) <= Len(sent) /\ MaxItems \in Nat
    <3>1. MaxItems \in Nat
      BY TransferAssumption
    <3>2. sent \in Seq(Item) /\ delivered \in Seq(Item)
      BY DEF TypeOK
    <3> QED
      BY <3>1, <3>2 DEF StreamOK
  <2>5. ASSUME NEW i \in 1..Len(delivered')
        PROVE  delivered'[i].handle = sent'[i].handle
               /\ (HasHandle(sent'[i]) => ropen'[i] >= 1)
    <3>1. i \in 1..Len(delivered) /\ i \in Ids /\ i < Current
      BY <1>1, <2>4 DEF Ids, Current
    <3>2. delivered[i].handle = sent[i].handle /\ (HasHandle(sent[i]) => ropen[i] >= 1)
      BY <2>1, <3>1 DEF OpenWindows
    <3>3. i \notin ToSet(outhandles)
      <4>1. SUFFICES ASSUME i \in ToSet(outhandles) PROVE FALSE
        OBVIOUS
      <4>2. PICK k \in 1..Len(outhandles) : i = outhandles[k]
        <5>1. outhandles \in Seq(Ids)
          BY DEF TypeOK
        <5> QED
          BY <4>1, <5>1 DEF ToSet
      <4>3. outhandles[k] \in Current..Len(sent)
        BY DEF UnsentOK, Own
      <4> QED
        BY <2>4, <3>1, <4>2, <4>3 DEF Current
    <3> QED
      BY <1>1, <2>3, <3>1, <3>2, <3>3
  <2>6. ASSUME rconn' = "open", NEW h \in Items(Bytes'), HasHandle(sent'[h])
        PROVE  ropen'[h] >= 1
    <3> DEFINE u == inbuf \o BytesOf(wire)
    <3>1. Bytes' = u
      <4>1. Bytes' = u \o <<>>
        BY <1>1 DEF Bytes
      <4>2. u \in Seq(Byte)
        BY BytesType
      <4> HIDE DEF u
      <4> QED
        BY <4>1, <4>2, ConcatEmptySeq
    <3>2. h \in Items(u)
      BY <2>6, <3>1
    <3>3. h \in Items(Bytes) /\ h \notin ToSet(outhandles)
      BY <3>2, ItemsBytes DEF UnsentOK
    <3>4. h \in Ids
      <4>1. h \in Current..Len(sent)
        BY <3>2, ItemsUnderWay
      <4> QED
        BY <2>4, <4>1 DEF Ids, Current
    <3>5. ropen[h] >= 1
      BY <1>1, <2>1, <2>6, <3>3 DEF OpenWindows
    <3> QED
      BY <2>3, <3>3, <3>4, <3>5
  <2>7. inhandles' = <<>> /\ \A j \in 1..Len(wire') : wire'[j].fds = <<>>
    BY <1>1, <2>1 DEF OpenWindows
  <2>8. \A i \in 1..Len(outhandles') : ropen'[outhandles'[i]] >= 1
    BY <1>1
  <2> QED
    BY <1>1, <2>5, <2>6, <2>7, <2>8 DEF OpenWindows
<1> QED
  BY <1>1, <1>2, <1>3, OpenParts

LEMMA OpenSend ==
  ASSUME TransferInv, SendMsg
  PROVE  OpenOK'
<1> USE DEF TransferInv
<1>1. PICK n \in 1..Len(outbuf) :
        \/ platform = "unix" /\ SendUnix(n) /\ UNCHANGED ropen
        \/ platform = "windows" /\ SendWindows(n) /\ ropen' = MarkSent
  BY DEF SendMsg
<1>2. UNCHANGED <<platform, sent, inhandles, delivered, rconn, ropen>> /\ outhandles' = <<>>
  BY <1>1 DEF SendMsg, receiverVars, MarkSent, SendUnix, SendWindows, DiscardSent
<1>3. ASSUME platform = "unix" PROVE OpenUnix'
  BY <1>2, <1>3, OpenParts, OpenUnixSame
<1>4. ASSUME platform = "windows" PROVE OpenWindows'
  <2>1. OpenWindows
    BY <1>4, OpenParts
  <2>2. SendWindows(n)
    BY <1>1, <1>4
  <2>3. cmsg' = cmsg /\ wire' = wire \o Segment(outbuf, <<>>)
    BY <2>2 DEF SendWindows
  <2>4. Bytes' = Bytes
    BY SendBytes
  <2>5. \A j \in 1..Len(wire') : wire'[j].fds = <<>>
    <3> DEFINE g == Segment(outbuf, <<>>)
    <3>1. outbuf \in Seq(Byte) /\ wire \in Seq(Cell) /\ <<>> \in Seq(Ids)
      BY DEF TypeOK
    <3>2. g \in Seq(Cell) /\ \A i \in 1..Len(g) : g[i].fds = <<>>
      <4>1. /\ g \in Seq(Cell) /\ Len(g) = Len(outbuf)
            /\ \A i \in 1..Len(outbuf) : g[i].fds = IF i = 1 THEN <<>> ELSE <<>>
        BY <3>1, SegmentParts
      <4> HIDE DEF g
      <4> QED
        BY <4>1
    <3> HIDE DEF g, Cell
    <3>3. /\ Len(wire \o g) = Len(wire) + Len(g)
          /\ \A i \in 1..(Len(wire) + Len(g)) :
               (wire \o g)[i] = IF i <= Len(wire) THEN wire[i] ELSE g[i - Len(wire)]
      BY <3>1, <3>2, ConcatProperties
    <3>4. Len(wire) \in Nat /\ Len(g) \in Nat
      BY <3>1, <3>2
    <3>5. \A j \in 1..Len(wire) : wire[j].fds = <<>>
      BY <2>1 DEF OpenWindows
    <3>6. ASSUME NEW j \in 1..Len(wire \o g) PROVE (wire \o g)[j].fds = <<>>
      <4>1. CASE j <= Len(wire)
        <5>1. j \in 1..Len(wire) /\ (wire \o g)[j] = wire[j]
          BY <3>3, <3>4, <4>1
        <5> QED
          BY <3>5, <5>1
      <4>2. CASE ~(j <= Len(wire))
        <5>1. j - Len(wire) \in 1..Len(g) /\ (wire \o g)[j] = g[j - Len(wire)]
          BY <3>3, <3>4, <4>2
        <5> QED
          BY <3>2, <5>1
      <4> QED
        BY <4>1, <4>2
    <3> QED
      BY <2>3, <3>6 DEF g
  <2> QED
    BY <1>2, <2>1, <2>3, <2>4, <2>5 DEF OpenWindows
<1> QED
  BY <1>2, <1>3, <1>4, OpenParts

LEMMA OpenWait ==
  ASSUME TransferInv, SendBlocked \/ WritableEvent
  PROVE  OpenOK'
<1> USE DEF TransferInv
<1>1. UNCHANGED <<platform, sent, inhandles, delivered, rconn, ropen, outhandles, wire, inbuf,
                  outbuf>>
  BY DEF SendBlocked, WritableEvent, receiverVars
<1>2. platform = "windows" => cmsg' = cmsg \/ cmsg' = <<>>
  BY DEF SendBlocked, WritableEvent, ReadRequest
<1>3. Bytes' = Bytes
  BY <1>1 DEF Bytes
<1>4. ASSUME platform = "unix" PROVE OpenUnix'
  BY <1>1, <1>4, OpenParts, OpenUnixSame
<1>5. ASSUME platform = "windows" PROVE OpenWindows'
  BY <1>1, <1>2, <1>3, <1>5, OpenParts DEF OpenWindows
<1> QED
  BY <1>1, <1>4, <1>5, OpenParts

LEMMA OpenRecv ==
  ASSUME TransferInv, RecvMsg
  PROVE  OpenOK'
<1> USE DEF TransferInv
<1>1. PICK n \in 1..Len(wire) :
        /\ inhandles' = PushHandles(FdsOf(n))
        /\ ropen' = [h \in Ids |-> ropen[h] + Count(h, FdsOf(n))]
        /\ wire' = Advance(wire, n)
  BY DEF RecvMsg
<1>2. UNCHANGED <<platform, sent, delivered, rconn, outhandles, cmsg>>
  BY DEF RecvMsg, senderVars
<1>3. wire \in Seq(Cell) /\ inhandles \in Seq(Ids) /\ ropen \in [Ids -> Nat]
      /\ outhandles \in Seq(Ids)
  BY DEF TypeOK
<1>4. n \in 0..Len(wire)
  BY <1>3
<1>5. FdsOf(n) \in Seq(Ids)
  BY <1>4, FdsType
<1>6. ASSUME platform = "unix" PROVE OpenUnix'
  <2>1. OpenUnix
    BY <1>6, OpenParts
  <2>2. ASSUME NEW h \in Ids
        PROVE  ropen'[h] = Count(h, inhandles') + Cardinality(Holders(delivered', h))
    <3>1. Count(h, inhandles') = Count(h, inhandles) + Count(h, FdsOf(n))
      BY <1>1, <1>3, <1>5, CountCat DEF PushHandles
    <3>2. Count(h, inhandles) \in Nat /\ Count(h, FdsOf(n)) \in Nat
      BY <1>3, <1>5, CountType
    <3>3. ropen[h] = Count(h, inhandles) + Cardinality(Holders(delivered, h))
      BY <2>1 DEF OpenUnix
    <3>4. Cardinality(Holders(delivered, h)) \in Nat
      <4>1. delivered \in Seq(Item)
        BY DEF TypeOK
      <4>2. IsFiniteSet(1..Len(delivered))
        BY <4>1, FS_Interval
      <4>3. Holders(delivered, h) \in SUBSET (1..Len(delivered))
        BY DEF Holders
      <4>4. IsFiniteSet(Holders(delivered, h))
        BY <4>2, <4>3, FS_Subset
      <4> QED
        BY <4>4, FS_CardinalityType
    <3>5. ropen'[h] = ropen[h] + Count(h, FdsOf(n))
      BY <1>1
    <3> QED
      BY <1>2, <3>1, <3>2, <3>3, <3>4, <3>5
  <2> QED
    BY <2>2 DEF OpenUnix
<1>7. ASSUME platform = "windows" PROVE OpenWindows'
  <2>1. OpenWindows
    BY <1>7, OpenParts
  <2>2. Carriers(n) = {}
    BY <1>4, <2>1 DEF Carriers, OpenWindows
  <2>3. FdsOf(n) = <<>>
    BY <2>2 DEF FdsOf
  <2>4. inhandles' = <<>>
    <3>1. inhandles' = <<>> \o <<>>
      BY <1>1, <2>1, <2>3 DEF PushHandles, OpenWindows
    <3> QED
      BY <3>1
  <2>5. \A h \in Ids : ropen'[h] = ropen[h]
    <3>1. \A h \in Ids : Count(h, FdsOf(n)) = 0 /\ ropen[h] \in Nat
      BY <1>3, <2>3, CountEmpty
    <3> QED
      BY <1>1, <3>1
  <2>6. ropen' = ropen
    <3>1. ropen' \in [Ids -> Nat]
      <4>1. \A h \in Ids : ropen[h] + Count(h, FdsOf(n)) \in Nat
        BY <1>3, <2>3, CountEmpty
      <4> QED
        BY <1>1, <4>1
    <3> QED
      BY <1>3, <2>5, <3>1
  <2>7. Bytes' = Bytes
    BY RecvBytes
  <2>8. \A j \in 1..Len(wire') : wire'[j].fds = <<>>
    <3> DEFINE v == Advance(wire, n)
    <3>1. Len(v) = Len(wire) - n /\ \A i \in 1..(Len(wire) - n) : v[i] = wire[n + i]
      BY <1>3, <1>4, Split
    <3>2. \A i \in 1..(Len(wire) - n) : n + i \in 1..Len(wire)
      BY <1>3, <1>4
    <3>3. wire' = v
      BY <1>1
    <3> HIDE DEF v
    <3> QED
      BY <2>1, <3>1, <3>2, <3>3 DEF OpenWindows
  <2> QED
    BY <1>2, <2>1, <2>4, <2>6, <2>7, <2>8 DEF OpenWindows
<1> QED
  BY <1>2, <1>6, <1>7, OpenParts

LEMMA OpenDecode ==
  ASSUME TransferInv, DecodeLength, TypeOK'
  PROVE  OpenOK'
<1> USE DEF TransferInv
<1>1. /\ UNCHANGED <<platform, sent, inhandles, delivered, rconn, ropen, outhandles, wire,
                     outbuf, cmsg>>
      /\ inbuf' = Advance(inbuf, HeaderLen) /\ Len(inbuf) >= HeaderLen
  BY DEF DecodeLength, HeaderReady, senderVars
<1>2. HeaderLen \in 0..Len(inbuf)
  <2>1. inbuf \in Seq(Byte)
    BY DEF TypeOK
  <2> QED
    BY <1>1, <2>1, Positive
<1>3. Items(Bytes') \subseteq Items(Bytes)
  BY <1>1, <1>2, ItemsTaken
<1>4. ASSUME platform = "unix" PROVE OpenUnix'
  BY <1>1, <1>4, OpenParts, OpenUnixSame
<1>5. ASSUME platform = "windows" PROVE OpenWindows'
  <2>1. OpenWindows
    BY <1>5, OpenParts
  <2> QED
    BY <1>1, <1>3, <2>1 DEF OpenWindows
<1> QED
  BY <1>1, <1>4, <1>5, OpenParts

LEMMA OpenProcess ==
  ASSUME TransferInv, ProcessInbound, TypeOK'
  PROVE  OpenOK'
<1> USE DEF TransferInv
<1>1. /\ rconn = "open" /\ decoder \in 1..Len(inbuf) /\ inbuf # <<>>
      /\ Current \in 1..Len(sent) /\ sent[Current] \in Item /\ inbuf[1][1] = Current
  BY ProcessBytes
<1> DEFINE item == sent[Current]
           x == [item EXCEPT !.handle = LocalHandle(item)]
<1>2. /\ UNCHANGED <<platform, sent, rconn, ropen, outhandles, wire, outbuf, cmsg>>
      /\ inbuf' = Advance(inbuf, decoder)
      /\ delivered' = Append(delivered, x) /\ inhandles' = PopHandle(item)
  BY <1>1 DEF ProcessInbound, senderVars
<1>3. inhandles \in Seq(Ids) /\ delivered \in Seq(Item) /\ inbuf \in Seq(Byte)
  BY DEF TypeOK
<1>4. x.handle = LocalHandle(item)
  BY <1>1 DEF Item
<1>5. x \in Item
  <2>1. delivered' \in Seq(Item) /\ Len(delivered) + 1 \in 1..Len(delivered')
        /\ delivered'[Len(delivered) + 1] = x
    <3>1. delivered' \in Seq(Item)
      BY DEF TypeOK
    <3> HIDE DEF x
    <3> QED
      BY <1>2, <1>3, <3>1
  <2> QED
    BY <2>1
<1> HIDE DEF x, item
<1>6. ASSUME platform = "unix" PROVE OpenUnix'
  <2>1. OpenUnix
    BY <1>6, OpenParts
  <2>2. ASSUME NEW h \in Ids
        PROVE  ropen'[h] = Count(h, inhandles') + Cardinality(Holders(delivered', h))
    <3>1. /\ Cardinality(Holders(delivered, h)) \in Nat
          /\ Cardinality(Holders(delivered', h))
               = Cardinality(Holders(delivered, h)) + (IF x.handle = h THEN 1 ELSE 0)
      BY <1>2, <1>3, <1>5, HoldersAppend
    <3>2. ropen[h] = Count(h, inhandles) + Cardinality(Holders(delivered, h))
      BY <2>1 DEF OpenUnix
    <3>3. CASE HasHandle(item) /\ inhandles # <<>>
      <4>1. x.handle = Head(inhandles) /\ inhandles' = Tail(inhandles)
        BY <1>2, <1>4, <1>6, <3>3 DEF LocalHandle, PopHandle
      <4>2. Count(h, inhandles) = (IF Head(inhandles) = h THEN 1 ELSE 0) + Count(h, Tail(inhandles))
        BY <1>3, <3>3, CountTail
      <4>3. Count(h, Tail(inhandles)) \in Nat
        <5>1. Tail(inhandles) \in Seq(Ids)
          BY <1>3, <3>3
        <5> QED
          BY <5>1, CountType
      <4>4. CASE Head(inhandles) = h
        BY <1>2, <3>1, <3>2, <4>1, <4>2, <4>3, <4>4
      <4>5. CASE Head(inhandles) # h
        BY <1>2, <3>1, <3>2, <4>1, <4>2, <4>3, <4>5
      <4> QED
        BY <4>4, <4>5
    <3>4. CASE ~(HasHandle(item) /\ inhandles # <<>>)
      <4>1. x.handle = NoHandle /\ inhandles' = inhandles
        BY <1>2, <1>4, <1>6, <3>4 DEF LocalHandle, PopHandle
      <4>2. x.handle # h
        <5>1. NoHandle \notin Nat
          BY TransferAssumption
        <5>2. h \in Nat
          BY DEF Ids
        <5> QED
          BY <4>1, <5>1, <5>2
      <4>3. Count(h, inhandles) \in Nat
        BY <1>3, CountType
      <4> QED
        BY <1>2, <3>1, <3>2, <4>1, <4>2, <4>3
    <3> QED
      BY <3>3, <3>4
  <2> QED
    BY <2>2 DEF OpenUnix
<1>7. ASSUME platform = "windows" PROVE OpenWindows'
  <2>1. OpenWindows
    BY <1>7, OpenParts
  <2>2. decoder \in 0..Len(inbuf)
    BY <1>1, <1>3
  <2>3. Items(Bytes') \subseteq Items(Bytes)
    BY <1>2, <2>2, ItemsTaken
  <2>4. inhandles' = <<>>
    BY <1>2, <1>7, <2>1 DEF PopHandle, OpenWindows
  <2>5. x.handle = item.handle
    BY <1>4, <1>7 DEF LocalHandle, HasHandle
  <2>6. HasHandle(item) => ropen[Current] >= 1
    <3>1. 1 \in 1..Len(inbuf)
      BY <1>1, <1>3
    <3>2. Current \in Items(inbuf)
      BY <1>1, <3>1 DEF Items
    <3>3. Current \in Items(Bytes)
      BY <3>2, ItemsBytes
    <3> QED
      BY <1>1, <2>1, <3>3 DEF OpenWindows, item
  <2>7. Len(delivered') = Current /\ delivered'[Current] = x
        /\ (\A i \in 1..Len(delivered) : delivered'[i] = delivered[i])
        /\ (\A i \in 1..Current : i \in 1..Len(delivered) \/ i = Current)
    <3>1. Len(delivered) \in Nat
      BY <1>3
    <3> QED
      BY <1>2, <1>3, <1>5, <3>1 DEF Current
  <2>8. ASSUME NEW i \in 1..Len(delivered')
        PROVE  delivered'[i].handle = sent'[i].handle
               /\ (HasHandle(sent'[i]) => ropen'[i] >= 1)
    <3>1. CASE i = Current
      BY <1>2, <2>5, <2>6, <2>7, <3>1 DEF item
    <3>2. CASE i \in 1..Len(delivered)
      BY <1>2, <2>1, <2>7, <3>2 DEF OpenWindows
    <3> QED
      BY <2>7, <3>1, <3>2
  <2> QED
    BY <1>2, <2>1, <2>3, <2>4, <2>8 DEF OpenWindows
<1> QED
  BY <1>2, <1>6, <1>7, OpenParts

LEMMA OpenCloseReceiver ==
  ASSUME TransferInv, CloseReceiver
  PROVE  OpenOK'
<1> USE DEF TransferInv
<1>1. /\ UNCHANGED <<platform, sent, delivered, outhandles, cmsg>>
      /\ rconn' = "closed" /\ inhandles' = <<>> /\ wire' = <<>>
      /\ ropen' = [h \in Ids |-> ropen[h] - Count(h, inhandles)]
  BY DEF CloseReceiver, senderVars
<1>2. inhandles \in Seq(Ids) /\ ropen \in [Ids -> Nat]
  BY DEF TypeOK
<1>3. ASSUME platform = "unix" PROVE OpenUnix'
  <2>1. OpenUnix
    BY <1>3, OpenParts
  <2>2. ASSUME NEW h \in Ids
        PROVE  ropen'[h] = Count(h, inhandles') + Cardinality(Holders(delivered', h))
    <3>1. Count(h, inhandles) \in Nat /\ Count(h, inhandles') = 0
      BY <1>1, <1>2, CountType, CountEmpty
    <3>2. ropen[h] = Count(h, inhandles) + Cardinality(Holders(delivered, h))
      BY <2>1 DEF OpenUnix
    <3>3. ropen'[h] = ropen[h] - Count(h, inhandles) /\ ropen[h] \in Nat
      BY <1>1, <1>2
    <3>4. Cardinality(Holders(delivered, h)) \in Nat
      <4>1. delivered \in Seq(Item)
        BY DEF TypeOK
      <4>2. IsFiniteSet(1..Len(delivered))
        BY <4>1, FS_Interval
      <4>3. Holders(delivered, h) \in SUBSET (1..Len(delivered))
        BY DEF Holders
      <4>4. IsFiniteSet(Holders(delivered, h))
        BY <4>2, <4>3, FS_Subset
      <4> QED
        BY <4>4, FS_CardinalityType
    <3> QED
      BY <1>1, <3>1, <3>2, <3>3, <3>4
  <2> QED
    BY <2>2 DEF OpenUnix
<1>4. ASSUME platform = "windows" PROVE OpenWindows'
  <2>1. OpenWindows
    BY <1>4, OpenParts
  <2>2. ropen' = ropen
    <3>1. \A h \in Ids : Count(h, inhandles) = 0
      BY <2>1, CountEmpty DEF OpenWindows
    <3>2. \A h \in Ids : ropen[h] - Count(h, inhandles) = ropen[h]
      BY <1>2, <3>1
    <3>3. ropen' = [h \in Ids |-> ropen[h]]
      BY <1>1, <3>2
    <3> QED
      BY <1>2, <3>3
  <2>3. \A j \in 1..Len(wire') : wire'[j].fds = <<>>
    BY <1>1
  <2> QED
    BY <1>1, <2>1, <2>2, <2>3 DEF OpenWindows
<1> QED
  BY <1>1, <1>3, <1>4, OpenParts

LEMMA OpenStep ==
  ASSUME TransferInv, [Next]_vars, TypeOK'
  PROVE  OpenOK'
<1> USE DEF TransferInv
<1>1. CASE UNCHANGED vars
  <2>1. UNCHANGED <<platform, sent, inhandles, delivered, rconn, ropen, outhandles, wire,
                    inbuf, outbuf, cmsg>>
    BY <1>1 DEF vars, senderVars, receiverVars
  <2>2. Bytes' = Bytes
    BY <2>1 DEF Bytes
  <2> QED
    BY <2>1, <2>2 DEF OpenOK
<1>2. CASE Next
  BY <1>2, OpenFlush, OpenCloseSender, OpenSend, OpenWait, OpenRecv, OpenDecode,
     OpenProcess, OpenCloseReceiver
     DEF Next, SenderStep, ReceiverStep, SenderSeesClose, ReceiverSeesClose
<1> QED
  BY <1>1, <1>2

-----------------------------------------------------------------------------
(* Theorems for both platforms, whether or not sends block *)

LEMMA TransferInductive ==
  Spec => []TransferInv
<1>1. Init => TransferInv
  BY TypeInit, StreamInit, UnsentInit, OpenInit DEF TransferInv
<1>2. TransferInv /\ [Next]_vars => TransferInv'
  <2> SUFFICES ASSUME TransferInv, [Next]_vars PROVE TransferInv'
    OBVIOUS
  <2>1. TypeOK /\ StreamOK /\ UnsentOK
    BY DEF TransferInv
  <2>2. TypeOK'
    BY TypeStep
  <2>3. StreamOK'
    BY <2>1, <2>2, StreamStep
  <2>4. UnsentOK'
    BY <2>1, <2>2, UnsentStep
  <2>5. OpenOK'
    BY <2>2, OpenStep
  <2> QED
    BY <2>2, <2>3, <2>4, <2>5 DEF TransferInv
<1> QED
  BY <1>1, <1>2, PTL DEF Spec

\* Every variable keeps its type; in particular no handle of the receiving
\* process is closed more often than it was opened (RemoteHandle::drop).
THEOREM TypeCorrect ==
  Spec => []TypeOK
<1>1. TransferInv => TypeOK
  BY DEF TransferInv
<1> QED
  BY <1>1, TransferInductive, PTL

\* However the bytes are split into sends and receives, the decoder of
\* codec.rs reads every length at the start of a frame and every payload whole.
THEOREM FramesIntact ==
  Spec => []Framed
<1>1. TransferInv => Framed
  BY FramedLemma DEF TransferInv
<1> QED
  BY <1>1, TransferInductive, PTL

\* The handles that the receiving Handler was given are open; on Unix nothing
\* else is open but what is queued in inbound.handles.  (messages.rs, RemoteHandle.)
THEOREM HandlesSafe ==
  Spec => []HandlesOwned
<1>1. TransferInv => HandlesOwned
  <2> SUFFICES ASSUME TransferInv PROVE HandlesOwned
    OBVIOUS
  <2>1. TypeOK /\ StreamOK /\ OpenOK
    BY DEF TransferInv
  <2>2. delivered \in Seq(Item) /\ inhandles \in Seq(Ids) /\ sent \in Seq(Item)
        /\ platform \in {"unix", "windows"}
    BY <2>1, TransferAssumption DEF TypeOK
  <2>3. ASSUME NEW i \in 1..Len(delivered), HasHandle(delivered[i])
        PROVE  ropen[delivered[i].handle] >= 1
    <3> DEFINE h == delivered[i].handle
    <3>1. h \in Ids
      <4>1. delivered[i] \in Item
        BY <2>2
      <4> QED
        BY <2>3, <4>1 DEF HasHandle, Item
    <3>2. CASE platform = "unix"
      <4>1. ropen[h] = Count(h, inhandles) + Cardinality(Holders(delivered, h))
        BY <2>1, <3>1, <3>2 DEF OpenOK
      <4>2. Count(h, inhandles) \in Nat
        BY <2>2, CountType
      <4>3. i \in Holders(delivered, h)
        BY DEF Holders
      <4>4. IsFiniteSet(Holders(delivered, h))
        <5>1. IsFiniteSet(1..Len(delivered))
          BY <2>2, FS_Interval
        <5>2. Holders(delivered, h) \in SUBSET (1..Len(delivered))
          BY DEF Holders
        <5> QED
          BY <5>1, <5>2, FS_Subset
      <4> HIDE DEF h
      <4>5. Cardinality(Holders(delivered, h)) \in Nat /\ Cardinality(Holders(delivered, h)) # 0
        BY <4>3, <4>4, FS_CardinalityType, FS_EmptySet
      <4> QED
        BY <4>1, <4>2, <4>5 DEF h
    <3>3. CASE platform = "windows"
      <4>1. delivered[i].handle = sent[i].handle /\ (HasHandle(sent[i]) => ropen[i] >= 1)
        BY <2>1, <3>3 DEF OpenOK
      <4>2. i \in 1..Len(sent)
        <5>1. Len(delivered) <= Len(sent) /\ Len(delivered) \in Nat /\ Len(sent) \in Nat
          BY <2>1, <2>2 DEF StreamOK
        <5> QED
          BY <5>1
      <4>3. sent[i].handle \in {i, NoHandle}
        BY <2>1, <4>2 DEF StreamOK
      <4> QED
        BY <2>3, <4>1, <4>3 DEF HasHandle
    <3> QED
      BY <2>2, <3>2, <3>3
  <2>4. platform = "unix" =>
          \A h \in Ids : ropen[h] = Count(h, inhandles)
                                    + Cardinality({i \in 1..Len(delivered) :
                                                     delivered[i].handle = h})
    BY <2>1 DEF OpenOK, Holders
  <2> QED
    BY <2>3, <2>4 DEF HandlesOwned
<1> QED
  BY <1>1, TransferInductive, PTL

=============================================================================
