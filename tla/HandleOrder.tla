----------------------------- MODULE HandleOrder -----------------------------
(***************************************************************************)
(* Proofs about HandleTransfer: which item is delivered with which handle, *)
(* and how many handles are ever queued.                                   *)
(*                                                                         *)
(* On Unix items and handles travel apart, and set_local_handle pairs them *)
(* by their order alone.  OrderOK says why that is enough: the handles are *)
(* in the order of their items, and none is behind a byte of its own item. *)
(* It holds until a sendmsg blocks with handles queued (variable blocked): *)
(* then Pipe.cmsg encodes them once more (run handle_retry).               *)
(***************************************************************************)
EXTENDS HandleTransferProofs

\* The queues of handles under way and of the bytes beside them, the receiver's
\* first: inbound, one for every byte on the wire, outbound.
Rear == Len(wire) + 1

At(j) == ToSet(IF j = 0 THEN inhandles ELSE
               IF j \in 1..Len(wire) THEN wire[j].fds ELSE outhandles)

ItemsAt(j) == IF j = 0 THEN Items(inbuf) ELSE
              IF j \in 1..Len(wire) THEN {wire[j].byte[1]} ELSE Items(outbuf)

\* Handles keep the order of their items, and none is behind a byte of its item.
OrderUnix ==
  /\ \A j \in 0..Rear : \A h \in At(j) : Own(sent, Current, h)
  /\ \A j, k \in 0..Rear : j < k => \A g \in At(j), h \in At(k) : g < h
  /\ Inc(inhandles) /\ \A j \in 1..Len(wire) : Inc(wire[j].fds)
  /\ \A j \in 0..Rear : \A h \in ItemsAt(j) :
       HasHandle(sent[h]) => \E k \in 0..j : h \in At(k)

\* While no send has blocked with handles queued (Unblocked).
OrderOK ==
  /\ cmsg = <<>>
  /\ \A i \in 1..Len(delivered) : delivered[i] = sent[i]
  /\ platform = "unix" /\ rconn = "open" => OrderUnix

Unblocked == blocked = 0
NeverBlocked == MaxBlocked = 0

-----------------------------------------------------------------------------
(* Sequences of handles *)

LEMMA ElementsOf ==
  ASSUME NEW M, NEW s \in Seq(M)
  PROVE  ToSet(s) = {s[i] : i \in 1..Len(s)}
<1>1. DOMAIN s = 1..Len(s)
  OBVIOUS
<1> QED
  BY <1>1 DEF ToSet

LEMMA IncCat ==
  ASSUME NEW a \in Seq(Ids), NEW b \in Seq(Ids), Inc(a), Inc(b),
         \A g \in ToSet(a), h \in ToSet(b) : g < h
  PROVE  Inc(a \o b) /\ ToSet(a \o b) = ToSet(a) \cup ToSet(b)
<1> DEFINE c == a \o b
<1>1. c \in Seq(Ids) /\ Len(c) = Len(a) + Len(b)
      /\ \A i \in 1..(Len(a) + Len(b)) :
           c[i] = IF i <= Len(a) THEN a[i] ELSE b[i - Len(a)]
  BY ConcatProperties
<1>2. Len(a) \in Nat /\ Len(b) \in Nat
  OBVIOUS
<1>3. ToSet(a) = {a[i] : i \in 1..Len(a)} /\ ToSet(b) = {b[i] : i \in 1..Len(b)}
      /\ ToSet(c) = {c[i] : i \in 1..Len(c)}
  BY <1>1, ElementsOf
<1> HIDE DEF c
<1>4. \A i \in 1..Len(c) :
        \/ i \in 1..Len(a) /\ c[i] = a[i]
        \/ i > Len(a) /\ i - Len(a) \in 1..Len(b) /\ c[i] = b[i - Len(a)]
  <2>1. TAKE i \in 1..Len(c)
  <2>2. CASE i <= Len(a)
    <3>1. i \in 1..Len(a) /\ i \in 1..(Len(a) + Len(b))
      BY <1>1, <1>2, <2>2
    <3> QED
      BY <1>1, <2>2, <3>1
  <2>3. CASE ~(i <= Len(a))
    <3>1. i \in 1..(Len(a) + Len(b)) /\ i > Len(a) /\ i - Len(a) \in 1..Len(b)
      BY <1>1, <1>2, <2>3
    <3> QED
      BY <1>1, <2>3, <3>1
  <2> QED
    BY <2>2, <2>3
<1>5. Inc(c)
  <2>1. SUFFICES ASSUME NEW i \in 1..Len(c), NEW j \in 1..Len(c), i < j
                 PROVE  c[i] < c[j]
    BY DEF Inc
  <2>2. CASE i \in 1..Len(a) /\ c[i] = a[i]
    <3>1. CASE j \in 1..Len(a) /\ c[j] = a[j]
      BY <2>1, <2>2, <3>1 DEF Inc
    <3>2. CASE j > Len(a) /\ j - Len(a) \in 1..Len(b) /\ c[j] = b[j - Len(a)]
      <4>1. c[i] \in ToSet(a) /\ c[j] \in ToSet(b)
        BY <1>3, <2>2, <3>2
      <4> QED
        BY <4>1
    <3> QED
      BY <1>4, <3>1, <3>2
  <2>3. CASE i > Len(a) /\ i - Len(a) \in 1..Len(b) /\ c[i] = b[i - Len(a)]
    <3>1. j > Len(a) /\ ~(j \in 1..Len(a)) /\ i - Len(a) < j - Len(a)
      BY <1>1, <1>2, <2>1, <2>3
    <3>2. j - Len(a) \in 1..Len(b) /\ c[j] = b[j - Len(a)]
      BY <1>4, <3>1
    <3> QED
      BY <2>3, <3>1, <3>2 DEF Inc
  <2> QED
    BY <1>4, <2>2, <2>3
<1>6. ToSet(c) \subseteq ToSet(a) \cup ToSet(b)
  BY <1>3, <1>4
<1>7. ToSet(a) \subseteq ToSet(c)
  <2>1. \A i \in 1..Len(a) : i \in 1..Len(c) /\ c[i] = a[i]
    BY <1>1, <1>2
  <2> QED
    BY <1>3, <2>1
<1>8. ToSet(b) \subseteq ToSet(c)
  <2>1. ASSUME NEW i \in 1..Len(b)
        PROVE  Len(a) + i \in 1..Len(c) /\ c[Len(a) + i] = b[i]
    <3>1. Len(a) + i \in 1..(Len(a) + Len(b)) /\ ~(Len(a) + i <= Len(a))
          /\ (Len(a) + i) - Len(a) = i
      BY <1>2
    <3> QED
      BY <1>1, <3>1
  <2> QED
    BY <1>3, <2>1
<1> QED
  BY <1>5, <1>6, <1>7, <1>8 DEF c

LEMMA IncTail ==
  ASSUME NEW s \in Seq(Ids), Inc(s), s # <<>>
  PROVE  /\ Tail(s) \in Seq(Ids) /\ Inc(Tail(s)) /\ Head(s) \in ToSet(s)
         /\ \A h \in ToSet(Tail(s)) : h \in ToSet(s) /\ Head(s) < h
         /\ \A h \in ToSet(s) : h = Head(s) \/ h \in ToSet(Tail(s))
<1> DEFINE t == Tail(s)
<1>1. t \in Seq(Ids) /\ Len(t) = Len(s) - 1 /\ Head(s) = s[1]
      /\ \A i \in 1..Len(t) : t[i] = s[i + 1]
  BY HeadTailProperties
<1>2. Len(s) \in Nat /\ Len(s) >= 1 /\ 1 \in 1..Len(s)
  OBVIOUS
<1>3. ToSet(s) = {s[i] : i \in 1..Len(s)} /\ ToSet(t) = {t[i] : i \in 1..Len(t)}
  BY <1>1, ElementsOf
<1> HIDE DEF t
<1>4. \A i \in 1..Len(t) : i + 1 \in 1..Len(s) /\ 1 < i + 1
  BY <1>1, <1>2
<1>5. Inc(t)
  <2>1. SUFFICES ASSUME NEW i \in 1..Len(t), NEW j \in 1..Len(t), i < j
                 PROVE  t[i] < t[j]
    BY DEF Inc
  <2>2. i + 1 < j + 1
    BY <2>1
  <2> QED
    BY <1>1, <1>4, <2>2 DEF Inc
<1>6. ASSUME NEW h \in ToSet(t) PROVE h \in ToSet(s) /\ Head(s) < h
  <2>1. PICK i \in 1..Len(t) : h = t[i]
    BY <1>3
  <2> QED
    BY <1>1, <1>2, <1>3, <1>4, <2>1 DEF Inc
<1>7. ASSUME NEW h \in ToSet(s) PROVE h = Head(s) \/ h \in ToSet(t)
  <2>1. PICK i \in 1..Len(s) : h = s[i]
    BY <1>3
  <2>2. CASE i = 1
    BY <1>1, <2>1, <2>2
  <2>3. CASE i # 1
    <3>1. i - 1 \in 1..Len(t) /\ (i - 1) + 1 = i
      BY <1>1, <1>2, <2>3
    <3>2. t[i - 1] = s[i]
      BY <1>1, <3>1
    <3> QED
      BY <1>3, <2>1, <3>1, <3>2
  <2> QED
    BY <2>2, <2>3
<1>8. Head(s) \in ToSet(s)
  BY <1>1, <1>2, <1>3
<1> QED
  BY <1>1, <1>5, <1>6, <1>7, <1>8 DEF t

\* A strictly increasing sequence is no longer than the set it is in is large.
LEMMA IncBound ==
  ASSUME NEW s \in Seq(Ids), Inc(s), NEW T, IsFiniteSet(T),
         \A i \in 1..Len(s) : s[i] \in T
  PROVE  Len(s) <= Cardinality(T)
<1>1. Len(s) \in Nat
  OBVIOUS
<1>2. \A i \in 1..Len(s) : s[i] \in T
  OBVIOUS
<1> DEFINE f == [i \in 1..Len(s) |-> s[i]]
<1>3. f \in [1..Len(s) -> T]
  BY ONLY <1>2
<1>4. \A i, j \in 1..Len(s) : f[i] = f[j] => i = j
  <2>1. TAKE i, j \in 1..Len(s)
  <2>2. SUFFICES ASSUME i # j PROVE f[i] # f[j]
    OBVIOUS
  <2>3. s[i] \in Nat /\ s[j] \in Nat
    <3>1. s[i] \in Ids /\ s[j] \in Ids
      OBVIOUS
    <3> QED
      BY <3>1, TransferAssumption DEF Ids
  <2>4. CASE i < j
    <3>1. s[i] < s[j]
      BY <2>4 DEF Inc
    <3> QED
      BY <2>3, <3>1
  <2>5. CASE j < i
    <3>1. s[j] < s[i]
      BY <2>5 DEF Inc
    <3> QED
      BY <2>3, <3>1
  <2> QED
    BY <2>2, <2>4, <2>5
<1>5. f \in Injection(1..Len(s), T)
  BY <1>3, <1>4, Fun_IsInj
<1> DEFINE n == Len(s)
<1>6. Cardinality(1..n) = IF 1 > n THEN 0 ELSE n - 1 + 1
  <2> HIDE DEF n
  <2> QED
    BY <1>1, FS_Interval DEF n
<1>7. Cardinality(1..n) <= Cardinality(T)
  <2> HIDE DEF f
  <2> QED
    BY <1>5, FS_Injection
<1> QED
  BY <1>1, <1>6, <1>7

\* Every byte under way, wherever it is, is one of Bytes.
LEMMA ItemsParts ==
  ASSUME NEW in \in Seq(Byte), NEW w \in Seq(Cell), NEW out \in Seq(Byte)
  PROVE  /\ Items(in) \subseteq Items((in \o BytesOf(w)) \o out)
         /\ \A j \in 1..Len(w) : w[j].byte[1] \in Items((in \o BytesOf(w)) \o out)
         /\ Items(out) \subseteq Items((in \o BytesOf(w)) \o out)
<1> DEFINE b == BytesOf(w)
           u == in \o b
<1>1. b \in Seq(Byte) /\ Len(b) = Len(w) /\ \A j \in 1..Len(w) : b[j] = w[j].byte
  BY Parts
<1> HIDE DEF b
<1>2. u \in Seq(Byte)
  <2> HIDE DEF Byte
  <2> QED
    BY <1>1
<1>3. Items(u) = Items(in) \cup Items(b)
  BY <1>1, ItemsCat
<1> HIDE DEF u
<1>4. Items(u \o out) = Items(u) \cup Items(out)
  BY <1>2, ItemsCat
<1>5. \A j \in 1..Len(w) : w[j].byte[1] \in Items(b)
  BY <1>1 DEF Items
<1> QED
  BY <1>3, <1>4, <1>5 DEF u, b

LEMMA ItemsAtBytes ==
  ASSUME TypeOK
  PROVE  \A j : ItemsAt(j) \subseteq Items(Bytes)
<1>1. inbuf \in Seq(Byte) /\ wire \in Seq(Cell) /\ outbuf \in Seq(Byte)
  BY DEF TypeOK
<1> QED
  BY <1>1, ItemsParts DEF ItemsAt, Bytes

LEMMA AtType ==
  ASSUME TypeOK
  PROVE  \A j : At(j) \subseteq Ids
<1>1. TAKE j
<1>2. \A s \in Seq(Ids) : ToSet(s) \subseteq Ids
  BY ElementsOf
<1>3. inhandles \in Seq(Ids) /\ outhandles \in Seq(Ids)
  BY DEF TypeOK
<1>4. \A k \in 1..Len(wire) : wire[k].fds \in Seq(Ids)
  <2>1. wire \in Seq(Cell)
    BY DEF TypeOK
  <2>2. \A k \in 1..Len(wire) : wire[k] \in Cell
    BY <2>1
  <2> QED
    BY <2>2 DEF Cell
<1> QED
  BY <1>2, <1>3, <1>4 DEF At

LEMMA OrderFlush ==
  ASSUME TypeOK, StreamOK, OrderUnix, rconn = "open", FlushOutbound, TypeOK'
  PROVE  OrderUnix'
<1> DEFINE l == Len(sent)
<1>1. PICK item \in Item :
           /\ item.id = Len(sent) + 1 /\ item.handle \in {Len(sent) + 1, NoHandle}
           /\ Len(sent) \in Nat /\ Len(sent') = Len(sent) + 1
           /\ sent'[Len(sent) + 1] = item
           /\ \A i \in 1..Len(sent) : sent'[i] = sent[i]
           /\ CanProduce /\ FlushItem(item)
  BY FlushParts
<1>2. /\ UNCHANGED <<inbuf, wire, inhandles, delivered>>
      /\ HasHandle(item) => outhandles' = Append(outhandles, item.handle)
      /\ ~HasHandle(item) => outhandles' = outhandles
      /\ outbuf' = outbuf \o Encode(item)
  BY <1>1 DEF FlushItem, receiverVars
<1>3. wire \in Seq(Cell) /\ outbuf \in Seq(Byte) /\ outhandles \in Seq(Ids)
      /\ delivered \in Seq(Item) /\ outhandles' \in Seq(Ids)
  BY DEF TypeOK
<1>4. Len(wire) \in Nat /\ Rear \in Nat /\ Rear' = Rear /\ Rear \notin 1..Len(wire)
      /\ Rear # 0 /\ \A j \in 0..Rear : j = Rear \/ j = 0 \/ j \in 1..Len(wire)
  BY <1>2, <1>3 DEF Rear
<1>5. Current' = Current /\ Current \in Nat /\ Current >= 1 /\ Current <= l + 1
  <2>1. Len(delivered) <= l
    BY DEF StreamOK
  <2> QED
    BY <1>1, <1>2, <1>3, <2>1 DEF Current
<1>6. \A h : Own(sent, Current, h) => h \in 1..l /\ Own(sent', Current', h)
  BY <1>1, <1>5 DEF Own
<1>7. HasHandle(item) => item.handle = l + 1 /\ l + 1 \in Ids /\ Own(sent', Current', l + 1)
  <2>1. SUFFICES ASSUME HasHandle(item)
                 PROVE item.handle = l + 1 /\ l + 1 \in Ids /\ Own(sent', Current', l + 1)
    OBVIOUS
  <2>2. item.handle = l + 1 /\ l + 1 \in Ids
    <3>1. item.handle \in Ids \cup {NoHandle}
      BY DEF Item
    <3> QED
      BY <1>1, <2>1, <3>1 DEF HasHandle
  <2>3. l + 1 \in Current..(l + 1)
    BY <1>1, <1>5
  <2> QED
    BY <1>1, <1>5, <2>2, <2>3 DEF Own
<1>8. /\ \A h \in ToSet(outhandles') : h \in ToSet(outhandles) \/ (h = l + 1 /\ HasHandle(item))
      /\ ToSet(outhandles) \subseteq ToSet(outhandles')
      /\ HasHandle(item) => l + 1 \in ToSet(outhandles')
  <2>1. CASE ~HasHandle(item)
    BY <1>2, <2>1
  <2>2. CASE HasHandle(item)
    <3>1. outhandles' = Append(outhandles, l + 1)
      BY <1>2, <1>7, <2>2
    <3>2. Len(outhandles') = Len(outhandles) + 1 /\ outhandles'[Len(outhandles) + 1] = l + 1
          /\ (\A i \in 1..Len(outhandles) : outhandles'[i] = outhandles[i])
          /\ Len(outhandles) \in Nat
      BY <1>3, <1>7, <2>2, <3>1
    <3>3. \A i \in 1..(Len(outhandles) + 1) : i \in 1..Len(outhandles) \/ i = Len(outhandles) + 1
      BY <3>2
    <3>4. Len(outhandles) + 1 \in 1..Len(outhandles')
          /\ \A i \in 1..Len(outhandles) : i \in 1..Len(outhandles')
      BY <3>2
    <3>5. ToSet(outhandles) = {outhandles[i] : i \in 1..Len(outhandles)}
          /\ ToSet(outhandles') = {outhandles'[i] : i \in 1..Len(outhandles')}
      BY <1>3, ElementsOf
    <3> QED
      BY <2>2, <3>2, <3>3, <3>4, <3>5
  <2> QED
    BY <2>1, <2>2
<1>9. \A j \in 0..Rear : /\ j # Rear => At(j)' = At(j)
                         /\ j = Rear => At(j) = ToSet(outhandles) /\ At(j)' = ToSet(outhandles')
  BY <1>2, <1>4 DEF At
<1>10. \A j \in 0..Rear : /\ At(j) \subseteq At(j)'
                          /\ \A h \in At(j)' : h \in At(j)
                                               \/ (j = Rear /\ h = l + 1 /\ HasHandle(item))
  BY <1>8, <1>9
<1>11. /\ \A j \in 0..Rear : \A h \in At(j) : Own(sent, Current, h)
       /\ \A j, k \in 0..Rear : j < k => \A g \in At(j), h \in At(k) : g < h
       /\ Inc(inhandles) /\ \A j \in 1..Len(wire) : Inc(wire[j].fds)
       /\ \A j \in 0..Rear : \A h \in ItemsAt(j) :
            HasHandle(sent[h]) => \E k \in 0..j : h \in At(k)
  BY DEF OrderUnix
<1>12. \A j \in 0..Rear : \A h \in At(j)' : Own(sent', Current', h)
  BY <1>6, <1>7, <1>10, <1>11
<1>13. ASSUME NEW j \in 0..Rear, NEW k \in 0..Rear, j < k, NEW g \in At(j)', NEW h \in At(k)'
       PROVE  g < h
  <2>1. j # Rear /\ g \in At(j)
    BY <1>4, <1>9, <1>13
  <2>2. g \in 1..l
    BY <1>6, <1>11, <2>1
  <2>3. CASE h \in At(k)
    BY <1>11, <1>13, <2>1, <2>3
  <2>4. CASE h = l + 1
    BY <1>1, <2>2, <2>4
  <2> QED
    BY <1>10, <2>3, <2>4
<1>14. ASSUME NEW j \in 0..Rear, NEW h \in ItemsAt(j)', HasHandle(sent'[h])
       PROVE  \E k \in 0..j : h \in At(k)'
  <2>1. h \in ItemsAt(j) \/ (j = Rear /\ h = l + 1)
    <3>1. CASE j = Rear
      <4>1. ItemsAt(j)' = Items(outbuf') /\ ItemsAt(j) = Items(outbuf)
        BY <1>2, <1>4, <3>1 DEF ItemsAt
      <4>2. Items(outbuf') = Items(outbuf) \cup Items(Encode(item))
        <5>1. Encode(item) \in Seq(Byte)
          BY EncodeType
        <5> QED
          BY <1>2, <1>3, <5>1, ItemsCat
      <4> QED
        BY <1>1, <3>1, <4>1, <4>2, ItemsEncode
    <3>2. CASE j # Rear
      <4>1. ItemsAt(j)' = ItemsAt(j)
        BY <1>2, <1>4, <3>2 DEF ItemsAt
      <4> QED
        BY <4>1
    <3> QED
      BY <3>1, <3>2
  <2>2. CASE h \in ItemsAt(j)
    <3>1. h \in 1..l
      <4>1. h \in Current..l
        BY <2>2, ItemsAtBytes, ItemsUnderWay
      <4> QED
        BY <1>1, <1>5, <4>1
    <3>2. HasHandle(sent[h])
      BY <1>1, <1>14, <3>1
    <3>3. PICK k \in 0..j : h \in At(k)
      BY <1>11, <2>2, <3>2
    <3>4. k \in 0..Rear
      BY <1>4
    <3> QED
      BY <1>10, <3>3, <3>4
  <2>3. CASE j = Rear /\ h = l + 1
    <3>1. HasHandle(item)
      BY <1>1, <1>14, <2>3
    <3>2. j \in 0..j
      BY <1>4
    <3>3. h \in At(j)'
      BY <1>8, <1>9, <2>3, <3>1
    <3> QED
      BY <3>2, <3>3
  <2> QED
    BY <2>1, <2>2, <2>3
<1>15. Inc(inhandles') /\ \A j \in 1..Len(wire') : Inc(wire'[j].fds)
  BY <1>2, <1>11
<1> QED
  BY <1>4, <1>12, <1>13, <1>14, <1>15 DEF OrderUnix

LEMMA OrderCloseSender ==
  ASSUME TypeOK, OrderUnix, CloseSender
  PROVE  OrderUnix'
<1>1. /\ UNCHANGED <<sent, inbuf, wire, inhandles, delivered>>
      /\ outhandles' = <<>> /\ outbuf' = <<>>
  BY DEF CloseSender, DropUnsent, receiverVars
<1>2. Len(wire) \in Nat
  BY DEF TypeOK
<1>3. Rear \in Nat /\ Rear' = Rear /\ Rear \notin 1..Len(wire) /\ Rear # 0
      /\ \A j \in 0..Rear : j = Rear \/ j = 0 \/ j \in 1..Len(wire)
  BY <1>1, <1>2 DEF Rear
<1>4. ToSet(outhandles') = {} /\ Items(outbuf') = {}
  BY <1>1 DEF ToSet, Items
<1>5. \A j \in 0..Rear : /\ j # Rear => At(j)' = At(j) /\ ItemsAt(j)' = ItemsAt(j)
                         /\ j = Rear => At(j)' = {} /\ ItemsAt(j)' = {}
  BY <1>1, <1>3, <1>4 DEF At, ItemsAt
<1>6. /\ \A j \in 0..Rear : \A h \in At(j) : Own(sent, Current, h)
      /\ \A j, k \in 0..Rear : j < k => \A g \in At(j), h \in At(k) : g < h
      /\ Inc(inhandles) /\ \A j \in 1..Len(wire) : Inc(wire[j].fds)
      /\ \A j \in 0..Rear : \A h \in ItemsAt(j) :
           HasHandle(sent[h]) => \E k \in 0..j : h \in At(k)
  BY DEF OrderUnix
<1>7. Current' = Current
  BY <1>1 DEF Current
<1>8. \A j \in 0..Rear : \A h \in At(j)' : Own(sent', Current', h)
  BY <1>1, <1>5, <1>6, <1>7
<1>9. \A j, k \in 0..Rear : j < k => \A g \in At(j)', h \in At(k)' : g < h
  BY <1>5, <1>6
<1>10. ASSUME NEW j \in 0..Rear, NEW h \in ItemsAt(j)', HasHandle(sent'[h])
       PROVE  \E k \in 0..j : h \in At(k)'
  <2>1. j # Rear /\ h \in ItemsAt(j)
    BY <1>5
  <2>2. PICK k \in 0..j : h \in At(k)
    BY <1>1, <1>6, <1>10, <2>1
  <2>3. k \in 0..Rear /\ k # Rear
    BY <1>3, <2>1
  <2> QED
    BY <1>5, <2>2, <2>3
<1> QED
  BY <1>1, <1>3, <1>6, <1>8, <1>9, <1>10 DEF OrderUnix

\* The first byte of a sendmsg carries the queued handles.
LEMMA OrderSend ==
  ASSUME TypeOK, UnsentOK, OrderUnix, cmsg = <<>>, platform = "unix", SendMsg
  PROVE  OrderUnix'
<1>1. PICK n \in 1..Len(outbuf) : SendUnix(n)
  BY DEF SendMsg
<1>2. UNCHANGED <<sent, inbuf, inhandles, delivered>>
  BY DEF SendMsg, receiverVars
<1>3. wire \in Seq(Cell) /\ outbuf \in Seq(Byte) /\ outhandles \in Seq(Ids)
  BY DEF TypeOK
<1> DEFINE a == SubSeq(outbuf, 1, n)
           g == Segment(a, outhandles)
           w == wire \o g
           m == Len(wire)
<1>4. wire' = w /\ outbuf' = Advance(outbuf, n) /\ outhandles' = <<>>
  <2>1. Encoded = outhandles
    <3>1. Encoded = <<>> \o outhandles
      BY DEF Encoded
    <3> QED
      BY <1>3, <3>1
  <2> QED
    BY <1>1, <2>1 DEF SendUnix, DiscardSent
<1>5. n \in Nat /\ n >= 1 /\ n \in 0..Len(outbuf) /\ m \in Nat /\ Len(outbuf) \in Nat
  BY <1>3
<1>6. a \in Seq(Byte) /\ Len(a) = n /\ \A i \in 1..n : a[i] = outbuf[i]
  BY <1>3, <1>5, Split
<1> HIDE DEF a
<1>7. g \in Seq(Cell) /\ Len(g) = n
      /\ \A i \in 1..n : g[i].byte = a[i] /\ g[i].fds = IF i = 1 THEN outhandles ELSE <<>>
  BY <1>3, <1>6, SegmentParts
<1> HIDE DEF g
<1>8. /\ Len(w) = m + n
      /\ \A j \in 1..(m + n) : w[j] = IF j <= m THEN wire[j] ELSE g[j - m]
  <2> HIDE DEF Cell
  <2> QED
    BY <1>3, <1>7, ConcatProperties
<1> HIDE DEF w
<1>9. Rear = m + 1 /\ Rear' = m + n + 1 /\ Len(wire') = m + n
  BY <1>4, <1>8 DEF Rear
<1>10. \A j \in 1..(m + n) :
         \/ j \in 1..m /\ wire'[j] = wire[j]
         \/ j = m + 1 /\ wire'[j].fds = outhandles
            /\ wire'[j].byte[1] \in Items(outbuf)
         \/ j > m + 1 /\ wire'[j].fds = <<>> /\ wire'[j].byte[1] \in Items(outbuf)
  <2>1. TAKE j \in 1..(m + n)
  <2>2. CASE j <= m
    <3>1. j \in 1..m
      BY <2>2
    <3> QED
      BY <1>4, <1>8, <2>2, <3>1
  <2>3. CASE ~(j <= m)
    <3>1. j - m \in 1..n /\ wire'[j] = g[j - m]
      BY <1>4, <1>5, <1>8, <2>3
    <3>2. wire'[j].byte = outbuf[j - m]
      BY <1>6, <1>7, <3>1
    <3>3. wire'[j].byte[1] \in Items(outbuf)
      <4>1. j - m \in 1..Len(outbuf)
        BY <1>5, <3>1
      <4> QED
        BY <3>2, <4>1 DEF Items
    <3>4. CASE j = m + 1
      <4>1. j - m = 1
        BY <1>5, <3>4
      <4> QED
        BY <1>7, <3>1, <3>3, <3>4, <4>1
    <3>5. CASE j > m + 1
      <4>1. j - m # 1
        BY <1>5, <3>5
      <4> QED
        BY <1>7, <3>1, <3>3, <3>5, <4>1
    <3> QED
      BY <1>5, <2>3, <3>4, <3>5
  <2> QED
    BY <2>2, <2>3
<1>11. ToSet(<<>>) = {} /\ Items(Advance(outbuf, n)) \subseteq Items(outbuf)
  BY <1>3, <1>5, ItemsAdvance DEF ToSet
<1>12. ASSUME NEW j \in 0..Rear'
       PROVE  /\ j \in 0..Rear => At(j)' = At(j) /\ ItemsAt(j)' \subseteq ItemsAt(j)
              /\ j \notin 0..Rear => At(j)' = {} /\ ItemsAt(j)' \subseteq ItemsAt(Rear)
  <2>1. ItemsAt(Rear) = Items(outbuf) /\ At(Rear) = ToSet(outhandles)
    BY <1>5, <1>9 DEF ItemsAt, At
  <2>2. CASE j = 0
    <3>1. j \in 0..Rear
      BY <1>5, <1>9, <2>2
    <3> QED
      BY <1>2, <2>2, <3>1 DEF At, ItemsAt
  <2>3. CASE j \in 1..m
    <3>1. j \in 1..(m + n) /\ j # 0 /\ j \in 0..Rear /\ ~(j = m + 1) /\ ~(j > m + 1)
      BY <1>5, <1>9, <2>3
    <3>2. wire'[j] = wire[j]
      BY <1>10, <3>1
    <3> QED
      BY <1>9, <2>3, <3>1, <3>2 DEF At, ItemsAt
  <2>4. CASE j = m + 1
    <3>1. j \in 1..(m + n) /\ j # 0 /\ j \in 0..Rear /\ j = Rear /\ j \notin 1..m
      BY <1>5, <1>9, <2>4
    <3>2. wire'[j].fds = outhandles /\ wire'[j].byte[1] \in Items(outbuf)
      BY <1>10, <2>4, <3>1
    <3> QED
      BY <1>9, <2>1, <3>1, <3>2 DEF At, ItemsAt
  <2>5. CASE j > m + 1 /\ j \in 1..(m + n)
    <3>1. j # 0 /\ j \notin 0..Rear /\ j \notin 1..m /\ j # m + 1
      BY <1>5, <1>9, <2>5
    <3>2. wire'[j].fds = <<>> /\ wire'[j].byte[1] \in Items(outbuf)
      BY <1>10, <2>5, <3>1
    <3> QED
      BY <1>9, <1>11, <2>1, <2>5, <3>1, <3>2 DEF At, ItemsAt
  <2>6. CASE j = m + n + 1
    <3>1. j # 0 /\ j \notin 0..Rear /\ j \notin 1..(m + n)
      BY <1>5, <1>9, <2>6
    <3> QED
      BY <1>4, <1>9, <1>11, <2>1, <3>1 DEF At, ItemsAt
  <2> QED
    BY <1>5, <1>9, <2>2, <2>3, <2>4, <2>5, <2>6
<1>13. /\ \A j \in 0..Rear : \A h \in At(j) : Own(sent, Current, h)
       /\ \A j, k \in 0..Rear : j < k => \A x \in At(j), h \in At(k) : x < h
       /\ Inc(inhandles) /\ \A j \in 1..Len(wire) : Inc(wire[j].fds)
       /\ \A j \in 0..Rear : \A h \in ItemsAt(j) :
            HasHandle(sent[h]) => \E k \in 0..j : h \in At(k)
  BY DEF OrderUnix
<1>14. \A j \in 0..Rear' : \A h \in At(j)' : Own(sent', Current', h)
  BY <1>2, <1>12, <1>13 DEF Current
<1>15. \A j, k \in 0..Rear' : j < k => \A x \in At(j)', h \in At(k)' : x < h
  BY <1>12, <1>13
<1>16. ASSUME NEW j \in 0..Rear', NEW h \in ItemsAt(j)', HasHandle(sent'[h])
       PROVE  \E k \in 0..j : h \in At(k)'
  <2>1. Rear \in Nat /\ Rear' \in Nat /\ Rear <= Rear' /\ Rear \in 0..Rear
    BY <1>5, <1>9
  <2>2. CASE j \in 0..Rear
    <3>1. PICK k \in 0..j : h \in At(k)
      BY <1>2, <1>12, <1>13, <1>16, <2>2
    <3>2. k \in 0..Rear /\ k \in 0..Rear'
      BY <2>1, <2>2
    <3> QED
      BY <1>12, <3>1, <3>2
  <2>3. CASE j \notin 0..Rear
    <3>1. h \in ItemsAt(Rear)
      BY <1>12, <2>3
    <3>2. PICK k \in 0..Rear : h \in At(k)
      BY <1>2, <1>13, <1>16, <2>1, <3>1
    <3>3. k \in 0..Rear' /\ k \in 0..j
      BY <2>1, <2>3
    <3> QED
      BY <1>12, <3>2, <3>3
  <2> QED
    BY <2>2, <2>3
<1>17. \A j \in 1..Len(wire') : Inc(wire'[j].fds)
  <2>1. TAKE j \in 1..Len(wire')
  <2>2. Inc(outhandles) /\ Inc(<<>>)
    BY DEF UnsentOK, Inc
  <2>3. j \in 1..(m + n)
    BY <1>9
  <2> QED
    BY <1>10, <1>13, <2>2, <2>3
<1> QED
  BY <1>2, <1>13, <1>14, <1>15, <1>16, <1>17 DEF OrderUnix

\* At most one byte of those received carries handles.
LEMMA FdsParts ==
  ASSUME NEW n \in 1..Len(wire), OneSet(n)
  PROVE  /\ \A k \in 1..n : wire[k].fds = <<>> \/ FdsOf(n) = wire[k].fds
         /\ FdsOf(n) = <<>> \/ \E k \in 1..n : FdsOf(n) = wire[k].fds
<1>1. \A k \in 1..n : k \in Carriers(n) <=> wire[k].fds # <<>>
  BY DEF Carriers
<1>2. CASE Carriers(n) = {}
  BY <1>1, <1>2 DEF FdsOf
<1>3. CASE Carriers(n) # {}
  <2>1. (CHOOSE i \in Carriers(n) : TRUE) \in Carriers(n)
    BY <1>3
  <2>2. PICK i \in Carriers(n) : FdsOf(n) = wire[i].fds
    BY <1>3, <2>1 DEF FdsOf
  <2>3. i \in 1..n
    BY DEF Carriers
  <2>4. \A k \in Carriers(n) : k = i
    BY DEF OneSet
  <2> QED
    BY <1>1, <2>2, <2>3, <2>4
<1> QED
  BY <1>2, <1>3

\* One recvmsg: queues 1..n join the receiver's, the others move up.
LEMMA OrderRecv ==
  ASSUME TypeOK, OrderUnix, RecvMsg, TypeOK'
  PROVE  OrderUnix'
<1>1. PICK n \in 1..Len(wire) :
        /\ OneSet(n)
        /\ inbuf' = inbuf \o [i \in 1..n |-> wire[i].byte]
        /\ inhandles' = PushHandles(FdsOf(n))
        /\ wire' = Advance(wire, n)
  BY DEF RecvMsg
<1>2. UNCHANGED <<sent, outbuf, outhandles, delivered>>
  BY DEF RecvMsg, senderVars
<1>3. wire \in Seq(Cell) /\ inbuf \in Seq(Byte) /\ inhandles \in Seq(Ids)
  BY DEF TypeOK
<1> DEFINE m == Len(wire)
           f == FdsOf(n)
           a == [i \in 1..n |-> wire[i].byte]
<1>4. m \in Nat /\ n \in Nat /\ n >= 1 /\ n <= m /\ n \in 0..m
  BY <1>3
<1>5. /\ \A k \in 1..n : wire[k].fds = <<>> \/ f = wire[k].fds
      /\ f = <<>> \/ \E k \in 1..n : f = wire[k].fds
      /\ f \in Seq(Ids)
  BY <1>1, <1>4, FdsParts, FdsType
<1>6. a \in Seq(Byte) /\ Len(a) = n /\ \A i \in 1..n : a[i] = wire[i].byte
  <2>1. a \in Seq(Byte) /\ Len(a) = n
    BY <1>3, <1>4, Received
  <2> QED
    BY <2>1
<1>7. Len(wire') = m - n /\ \A j \in 1..(m - n) : wire'[j] = wire[n + j]
  BY <1>1, <1>3, <1>4, Split
<1>8. inhandles' = inhandles \o f /\ inbuf' = inbuf \o a
  BY <1>1 DEF PushHandles
<1> HIDE DEF f, a
<1>9. Items(inbuf') = Items(inbuf) \cup Items(a)
  BY <1>3, <1>6, <1>8, ItemsCat
<1>10. Rear = m + 1 /\ Rear' = m - n + 1
  BY <1>7 DEF Rear
<1>11. /\ \A j \in 0..Rear : \A h \in At(j) : Own(sent, Current, h)
       /\ \A j, k \in 0..Rear : j < k => \A g \in At(j), h \in At(k) : g < h
       /\ Inc(inhandles) /\ \A j \in 1..Len(wire) : Inc(wire[j].fds)
       /\ \A j \in 0..Rear : \A h \in ItemsAt(j) :
            HasHandle(sent[h]) => \E k \in 0..j : h \in At(k)
  BY DEF OrderUnix
<1>12. At(0) = ToSet(inhandles) /\ ItemsAt(0) = Items(inbuf)
       /\ \A k \in 1..n : k \in 1..m /\ k \in 0..Rear /\ At(k) = ToSet(wire[k].fds)
                          /\ ItemsAt(k) = {wire[k].byte[1]}
  <2>1. At(0) = ToSet(inhandles) /\ ItemsAt(0) = Items(inbuf)
    BY DEF At, ItemsAt
  <2>2. ASSUME NEW k \in 1..n
        PROVE  k \in 1..m /\ k \in 0..Rear /\ At(k) = ToSet(wire[k].fds)
               /\ ItemsAt(k) = {wire[k].byte[1]}
    <3>1. k \in 1..m /\ k # 0 /\ k \in 0..Rear
      BY <1>4, <1>10
    <3> QED
      BY <3>1 DEF At, ItemsAt
  <2> QED
    BY <2>1, <2>2
<1>13. Inc(inhandles') /\ ToSet(inhandles') = ToSet(inhandles) \cup ToSet(f)
  <2>1. Inc(f)
    <3>1. Inc(<<>>)
      BY DEF Inc
    <3> QED
      BY <1>5, <1>11, <1>12, <3>1
  <2>2. ASSUME NEW g \in ToSet(inhandles), NEW h \in ToSet(f)
        PROVE  g < h
    <3>1. ToSet(<<>>) = {}
      BY DEF ToSet
    <3>2. PICK k \in 1..n : f = wire[k].fds
      BY <1>5, <3>1
    <3>3. h \in At(k) /\ g \in At(0) /\ 0 < k /\ 0 \in 0..Rear
      BY <1>4, <1>10, <1>12, <3>2
    <3> QED
      BY <1>11, <1>12, <3>3
  <2> QED
    BY <1>3, <1>5, <1>8, <1>11, <2>1, <2>2, IncCat
<1>14. At(0)' = ToSet(inhandles) \cup ToSet(f) /\ ItemsAt(0)' = Items(inbuf) \cup Items(a)
  BY <1>9, <1>13 DEF At, ItemsAt
<1>15. ASSUME NEW j \in 1..Rear'
       PROVE  n + j \in 0..Rear /\ At(j)' = At(n + j) /\ ItemsAt(j)' = ItemsAt(n + j)
  <2>1. j # 0 /\ n + j # 0 /\ n + j \in 0..Rear
    BY <1>4, <1>10
  <2>2. CASE j \in 1..(m - n)
    <3>1. n + j \in 1..m
      BY <1>4, <2>2
    <3> QED
      BY <1>7, <2>1, <2>2, <3>1 DEF At, ItemsAt
  <2>3. CASE j = m - n + 1
    <3>1. n + j \notin 1..m /\ j \notin 1..(m - n)
      BY <1>4, <2>3
    <3> QED
      BY <1>2, <1>7, <2>1, <3>1 DEF At, ItemsAt
  <2> QED
    BY <1>4, <1>10, <2>2, <2>3
<1>16. \A j \in 0..Rear' : j = 0 \/ j \in 1..Rear'
  BY <1>4, <1>10
<1>17. ASSUME NEW j \in 0..Rear', NEW h \in At(j)'
       PROVE  \E p \in 0..(n + j) : p \in 0..Rear /\ h \in At(p)
  <2>1. CASE j = 0
    <3>1. CASE h \in ToSet(inhandles)
      <4>1. 0 \in 0..(n + j) /\ 0 \in 0..Rear
        BY <1>4, <1>10
      <4> QED
        BY <1>12, <3>1, <4>1
    <3>2. CASE h \in ToSet(f)
      <4>1. ToSet(<<>>) = {}
        BY DEF ToSet
      <4>2. PICK k \in 1..n : f = wire[k].fds
        BY <1>5, <3>2, <4>1
      <4>3. k \in 0..(n + j) /\ k \in 0..Rear
        BY <1>4, <1>12, <2>1
      <4> QED
        BY <1>12, <3>2, <4>2, <4>3
    <3> QED
      BY <1>14, <1>17, <2>1, <3>1, <3>2
  <2>2. CASE j \in 1..Rear'
    <3>1. n + j \in 0..(n + j) /\ n + j \in 0..Rear /\ h \in At(n + j)
      BY <1>4, <1>15, <1>17, <2>2
    <3> QED
      BY <3>1
  <2> QED
    BY <1>16, <2>1, <2>2
<1>18. ASSUME NEW j \in 0..Rear', NEW h \in ItemsAt(j)'
       PROVE  \E p \in 0..(n + j) : p \in 0..Rear /\ h \in ItemsAt(p)
  <2>1. CASE j = 0
    <3>1. CASE h \in Items(inbuf)
      <4>1. 0 \in 0..(n + j) /\ 0 \in 0..Rear
        BY <1>4, <1>10
      <4> QED
        BY <1>12, <3>1, <4>1
    <3>2. CASE h \in Items(a)
      <4>1. PICK k \in 1..n : h = a[k][1]
        BY <1>6, <3>2 DEF Items
      <4>2. k \in 0..(n + j) /\ k \in 0..Rear
        BY <1>4, <1>12, <2>1
      <4> QED
        BY <1>6, <1>12, <4>1, <4>2
    <3> QED
      BY <1>14, <1>18, <2>1, <3>1, <3>2
  <2>2. CASE j \in 1..Rear'
    <3>1. n + j \in 0..(n + j) /\ n + j \in 0..Rear /\ h \in ItemsAt(n + j)
      BY <1>4, <1>15, <1>18, <2>2
    <3> QED
      BY <3>1
  <2> QED
    BY <1>16, <2>1, <2>2
<1>19. \A j \in 0..Rear' : \A h \in At(j)' : Own(sent', Current', h)
  BY <1>2, <1>11, <1>17 DEF Current
<1>20. ASSUME NEW j \in 0..Rear', NEW k \in 0..Rear', j < k, NEW g \in At(j)', NEW h \in At(k)'
       PROVE  g < h
  <2>1. PICK p \in 0..(n + j) : p \in 0..Rear /\ g \in At(p)
    BY <1>17
  <2>2. k \in 1..Rear'
    BY <1>20
  <2>3. n + k \in 0..Rear /\ h \in At(n + k) /\ p < n + k
    BY <1>4, <1>15, <1>20, <2>2
  <2> QED
    BY <1>11, <2>1, <2>3
<1>21. ASSUME NEW j \in 0..Rear', NEW h \in ItemsAt(j)', HasHandle(sent'[h])
       PROVE  \E k \in 0..j : h \in At(k)'
  <2>1. PICK p \in 0..(n + j) : p \in 0..Rear /\ h \in ItemsAt(p)
    BY <1>18
  <2>2. PICK q \in 0..p : h \in At(q)
    BY <1>2, <1>11, <1>21, <2>1
  <2>3. CASE q = 0
    <3>1. h \in At(0)' /\ 0 \in 0..j
      BY <1>12, <1>14, <2>2, <2>3
    <3> QED
      BY <3>1
  <2>4. CASE q \in 1..n
    <3>1. h \in ToSet(wire[q].fds)
      BY <1>12, <2>2, <2>4
    <3>2. ToSet(<<>>) = {}
      BY DEF ToSet
    <3>3. h \in At(0)' /\ 0 \in 0..j
      BY <1>5, <1>14, <2>4, <3>1, <3>2
    <3> QED
      BY <3>3
  <2>5. CASE q > n
    <3>1. q - n \in 0..j /\ q - n \in 1..Rear' /\ n + (q - n) = q
      BY <1>4, <1>10, <2>5
    <3>2. At(q - n)' = At(n + (q - n))
      BY <1>15, <3>1
    <3> QED
      BY <2>2, <3>1, <3>2
  <2> QED
    BY <1>4, <2>3, <2>4, <2>5
<1>22. \A j \in 1..Len(wire') : Inc(wire'[j].fds)
  <2>1. TAKE j \in 1..Len(wire')
  <2>2. j \in 1..(m - n) /\ n + j \in 1..m
    BY <1>4, <1>7
  <2> QED
    BY <1>7, <1>11, <2>2
<1> QED
  BY <1>13, <1>19, <1>20, <1>21, <1>22 DEF OrderUnix

\* A header is taken from the receiver's buffer.
LEMMA OrderDecode ==
  ASSUME TypeOK, OrderUnix, DecodeLength
  PROVE  OrderUnix'
<1>1. /\ UNCHANGED <<sent, delivered, inhandles, wire, outhandles, outbuf>>
      /\ inbuf' = Advance(inbuf, HeaderLen) /\ Len(inbuf) >= HeaderLen
  BY DEF DecodeLength, HeaderReady, senderVars
<1>2. HeaderLen \in 0..Len(inbuf) /\ inbuf \in Seq(Byte)
  BY <1>1, Positive DEF TypeOK
<1>3. Items(inbuf') \subseteq Items(inbuf)
  BY <1>1, <1>2, ItemsAdvance
<1>4. Rear' = Rear /\ Current' = Current
  BY <1>1 DEF Rear, Current
<1>5. \A j : At(j)' = At(j) /\ ItemsAt(j)' \subseteq ItemsAt(j)
  BY <1>1, <1>3 DEF At, ItemsAt
<1>6. /\ \A j \in 0..Rear : \A h \in At(j) : Own(sent, Current, h)
      /\ \A j, k \in 0..Rear : j < k => \A g \in At(j), h \in At(k) : g < h
      /\ Inc(inhandles) /\ \A j \in 1..Len(wire) : Inc(wire[j].fds)
      /\ \A j \in 0..Rear : \A h \in ItemsAt(j) :
           HasHandle(sent[h]) => \E k \in 0..j : h \in At(k)
  BY DEF OrderUnix
<1>7. \A j \in 0..Rear : \A h \in At(j)' : Own(sent', Current', h)
  BY <1>1, <1>4, <1>5, <1>6
<1>8. \A j, k \in 0..Rear : j < k => \A g \in At(j)', h \in At(k)' : g < h
  BY <1>5, <1>6
<1>9. \A j \in 0..Rear : \A h \in ItemsAt(j)' :
        HasHandle(sent'[h]) => \E k \in 0..j : h \in At(k)'
  BY <1>1, <1>5, <1>6
<1> QED
  BY <1>1, <1>4, <1>6, <1>7, <1>8, <1>9 DEF OrderUnix

\* The item whose bytes are complete is given the first handle: its own.
LEMMA OrderProcess ==
  ASSUME TypeOK, StreamOK, OrderUnix, platform = "unix", ProcessInbound, TypeOK'
  PROVE  OrderUnix' /\ LocalHandle(sent[Current]) = sent[Current].handle
<1> DEFINE c == Current
           item == sent[c]
<1>1. /\ rconn = "open" /\ decoder \in 1..Len(inbuf) /\ inbuf # <<>>
      /\ c \in 1..Len(sent) /\ item \in Item /\ inbuf[1][1] = c
      /\ Chain(sent, Bytes') /\ (Bytes' # <<>> => Bytes'[1] = <<c + 1, 1>>)
  BY ProcessBytes
<1>2. /\ UNCHANGED <<sent, wire, outhandles, outbuf>>
      /\ inbuf' = Advance(inbuf, decoder)
      /\ inhandles' = PopHandle(item)
      /\ Len(delivered') = Len(delivered) + 1
  <2>1. delivered' = Append(delivered, [item EXCEPT !.handle = LocalHandle(item)])
    BY <1>1 DEF ProcessInbound
  <2>2. Len(delivered') = Len(delivered) + 1
    BY <2>1 DEF TypeOK
  <2> QED
    BY <1>1, <2>2 DEF ProcessInbound, senderVars
<1>3. /\ inbuf \in Seq(Byte) /\ wire \in Seq(Cell) /\ inhandles \in Seq(Ids)
      /\ outbuf \in Seq(Byte) /\ Len(sent) \in Nat /\ Len(delivered) \in Nat
      /\ Len(wire) \in Nat
  <2>1. /\ inbuf \in Seq(Byte) /\ wire \in Seq(Cell) /\ inhandles \in Seq(Ids)
        /\ outbuf \in Seq(Byte) /\ sent \in Seq(Item) /\ delivered \in Seq(Item)
    BY DEF TypeOK
  <2> QED
    BY <2>1
<1>4. c \in Nat /\ Current' = c + 1
  BY <1>2, <1>3 DEF Current
<1>5. item.handle \in {c, NoHandle} /\ NoHandle \notin Nat
  <2>1. item.handle \in {c, NoHandle}
    BY <1>1 DEF StreamOK
  <2>2. NoHandle \notin Nat
    BY TransferAssumption
  <2> QED
    BY <2>1, <2>2
<1>6. Rear \in Nat /\ Rear' = Rear /\ 0 \in 0..Rear
  BY <1>2, <1>3 DEF Rear
<1>7. /\ \A j \in 0..Rear : \A h \in At(j) : Own(sent, c, h)
      /\ \A j, k \in 0..Rear : j < k => \A g \in At(j), h \in At(k) : g < h
      /\ Inc(inhandles) /\ \A j \in 1..Len(wire) : Inc(wire[j].fds)
      /\ \A j \in 0..Rear : \A h \in ItemsAt(j) :
           HasHandle(sent[h]) => \E k \in 0..j : h \in At(k)
  BY DEF OrderUnix
<1>8. At(0) = ToSet(inhandles) /\ At(0)' = ToSet(inhandles')
      /\ \A j \in 0..Rear : j # 0 => At(j)' = At(j)
  BY <1>2 DEF At
<1>9. /\ Inc(inhandles')
      /\ LocalHandle(item) = item.handle
      /\ \A j \in 0..Rear : \A h : h \in At(j)' <=> (h \in At(j) /\ h # c)
  <2>1. CASE HasHandle(item)
    <3>1. item.handle = c
      BY <1>5, <2>1 DEF HasHandle
    <3>2. c \in ToSet(inhandles)
      <4>1. c \in ItemsAt(0)
        <5>1. 1 \in 1..Len(inbuf)
          BY <1>1, <1>3
        <5>2. ItemsAt(0) = Items(inbuf)
          BY DEF ItemsAt
        <5> QED
          BY <1>1, <5>1, <5>2 DEF Items
      <4>2. PICK k \in 0..0 : c \in At(k)
        BY <1>6, <1>7, <2>1, <4>1
      <4>3. k = 0
        OBVIOUS
      <4> QED
        BY <1>8, <4>2, <4>3
    <3>3. inhandles # <<>>
      <4>1. ToSet(<<>>) = {}
        BY DEF ToSet
      <4> QED
        BY <3>2, <4>1
    <3>4. /\ Inc(Tail(inhandles)) /\ Head(inhandles) \in ToSet(inhandles)
          /\ \A h \in ToSet(Tail(inhandles)) : h \in ToSet(inhandles) /\ Head(inhandles) < h
          /\ \A h \in ToSet(inhandles) : h = Head(inhandles) \/ h \in ToSet(Tail(inhandles))
      BY <1>3, <1>7, <3>3, IncTail
    <3>5. Head(inhandles) = c
      <4>1. Head(inhandles) \in c..Len(sent)
        BY <1>6, <1>7, <1>8, <3>4 DEF Own
      <4>2. ~(Head(inhandles) < c)
        BY <1>3, <1>4, <4>1
      <4> QED
        BY <3>2, <3>4, <4>2
    <3>6. inhandles' = Tail(inhandles) /\ LocalHandle(item) = c
      BY <1>2, <2>1, <3>3, <3>5 DEF PopHandle, LocalHandle
    <3>7. ASSUME NEW h \in ToSet(Tail(inhandles)) PROVE h # c
      BY <1>4, <3>4, <3>5
    <3>8. ASSUME NEW j \in 0..Rear, j # 0, NEW h \in At(j) PROVE h # c
      <4>1. c < h
        BY <1>6, <1>7, <1>8, <3>2, <3>8
      <4> QED
        BY <1>4, <4>1
    <3>9. ASSUME NEW j \in 0..Rear, NEW h
          PROVE  h \in At(j)' <=> (h \in At(j) /\ h # c)
      <4>1. CASE j = 0
        BY <1>8, <3>4, <3>5, <3>6, <3>7, <4>1
      <4>2. CASE j # 0
        BY <1>8, <3>8, <4>2
      <4> QED
        BY <4>1, <4>2
    <3> QED
      BY <3>1, <3>4, <3>6, <3>9
  <2>2. CASE ~HasHandle(item)
    <3>1. inhandles' = inhandles /\ item.handle = NoHandle /\ LocalHandle(item) = NoHandle
      BY <1>2, <2>2 DEF PopHandle, LocalHandle, HasHandle
    <3>2. ASSUME NEW h, Own(sent, c, h) PROVE h # c
      BY <1>4, <1>5, <3>1, <3>2 DEF Own
    <3>3. ASSUME NEW j \in 0..Rear, NEW h
          PROVE  h \in At(j)' <=> (h \in At(j) /\ h # c)
      BY <1>7, <1>8, <3>1, <3>2
    <3> QED
      BY <1>7, <3>1, <3>3
  <2> QED
    BY <2>1, <2>2
<1>10. \A j \in 0..Rear : \A h \in At(j)' : Own(sent', Current', h)
  <2>1. ASSUME NEW j \in 0..Rear, NEW h \in At(j)' PROVE Own(sent', Current', h)
    <3>1. h # c /\ Own(sent, c, h)
      BY <1>7, <1>9, <2>1
    <3>2. h \in (c + 1)..Len(sent)
      BY <1>3, <1>4, <3>1 DEF Own
    <3> QED
      BY <1>2, <1>4, <3>1, <3>2 DEF Own
  <2> QED
    BY <2>1
<1>11. \A j, k \in 0..Rear : j < k => \A g \in At(j)', h \in At(k)' : g < h
  BY <1>7, <1>9
<1>12. \A j \in 0..Rear : \A h \in ItemsAt(j)' : h # c /\ h \in ItemsAt(j)
  <2>1. decoder \in 0..Len(inbuf)
    BY <1>1
  <2>2. Items(inbuf') \subseteq Items(inbuf)
    BY <1>2, <1>3, <2>1, ItemsAdvance
  <2>3. \A j : ItemsAt(j)' \subseteq ItemsAt(j)
    BY <1>2, <2>2 DEF ItemsAt
  <2>4. inbuf' \in Seq(Byte) /\ wire' \in Seq(Cell) /\ outbuf' \in Seq(Byte)
    BY DEF TypeOK
  <2>5. Bytes' = (inbuf' \o BytesOf(wire')) \o outbuf'
    BY DEF Bytes
  <2>6. /\ Items(inbuf') \subseteq Items(Bytes')
        /\ \A j \in 1..Len(wire') : wire'[j].byte[1] \in Items(Bytes')
        /\ Items(outbuf') \subseteq Items(Bytes')
    BY <2>4, <2>5, ItemsParts
  <2>7. \A j : ItemsAt(j)' \subseteq Items(Bytes')
    BY <2>6 DEF ItemsAt
  <2>8. Bytes' \in Seq(Byte)
    <3>1. Bytes \in Seq(Byte) /\ Len(Bytes) = Len(inbuf) + Len(wire) + Len(outbuf)
          /\ Len(outbuf) \in Nat /\ Len(inbuf) \in Nat
      BY <1>3, BytesType
    <3>2. decoder \in 0..Len(Bytes)
      BY <1>1, <1>3, <3>1
    <3>3. Bytes' = Advance(Bytes, decoder)
      BY <1>2, <2>1, AdvanceBytes
    <3> QED
      BY <3>1, <3>2, <3>3, Split
  <2>9. c + 1 \in Nat /\ (Bytes' # <<>> => Bytes'[1][1] = c + 1)
    BY <1>1, <1>4
  <2>10. \A h \in Items(Bytes') : h \in 1..Len(sent) /\ c + 1 <= h
    <3> DEFINE B == Bytes'
               d == c + 1
    <3>1. B \in Seq(Byte) /\ Chain(sent, B) /\ d \in Nat /\ (B # <<>> => B[1][1] = d)
      BY <1>1, <2>8, <2>9
    <3> HIDE DEF B, d
    <3>2. \A h \in Items(B) : h \in 1..Len(sent) /\ d <= h
      BY <3>1, ItemsFrom
    <3> QED
      BY <3>2 DEF B, d
  <2>11. \A h \in Items(Bytes') : h # c
    BY <1>3, <1>4, <2>10
  <2> QED
    BY <2>3, <2>7, <2>11
<1>13. ASSUME NEW j \in 0..Rear, NEW h \in ItemsAt(j)', HasHandle(sent'[h])
       PROVE  \E k \in 0..j : h \in At(k)'
  <2>1. h # c /\ h \in ItemsAt(j) /\ HasHandle(sent[h])
    BY <1>2, <1>12, <1>13
  <2>2. PICK k \in 0..j : h \in At(k)
    BY <1>7, <2>1
  <2>3. k \in 0..Rear
    BY <1>6
  <2> QED
    BY <1>9, <2>1, <2>2, <2>3
<1> QED
  BY <1>2, <1>6, <1>7, <1>9, <1>10, <1>11, <1>13 DEF OrderUnix

LEMMA OrderSame ==
  ASSUME OrderUnix,
         UNCHANGED <<sent, delivered, inhandles, wire, outhandles, inbuf, outbuf>>
  PROVE  OrderUnix'
<1>1. Rear' = Rear /\ Current' = Current /\ \A j : At(j)' = At(j) /\ ItemsAt(j)' = ItemsAt(j)
  BY DEF Rear, Current, At, ItemsAt
<1>2. /\ \A j \in 0..Rear : \A h \in At(j) : Own(sent, Current, h)
      /\ \A j, k \in 0..Rear : j < k => \A g \in At(j), h \in At(k) : g < h
      /\ Inc(inhandles) /\ \A j \in 1..Len(wire) : Inc(wire[j].fds)
      /\ \A j \in 0..Rear : \A h \in ItemsAt(j) :
           HasHandle(sent[h]) => \E k \in 0..j : h \in At(k)
  BY DEF OrderUnix
<1>3. \A j \in 0..Rear : \A h \in ItemsAt(j)' :
        HasHandle(sent'[h]) => \E k \in 0..j : h \in At(k)'
  BY <1>1, <1>2
<1> QED
  BY <1>1, <1>2, <1>3 DEF OrderUnix

LEMMA OrderInit ==
  Init => OrderOK
<1> SUFFICES ASSUME Init PROVE OrderOK
  OBVIOUS
<1>1. /\ cmsg = <<>> /\ inhandles = <<>> /\ outhandles = <<>> /\ wire = <<>>
      /\ inbuf = <<>> /\ outbuf = <<>> /\ delivered = <<>>
  BY DEF Init
<1>2. ToSet(<<>>) = {} /\ Items(<<>>) = {} /\ Inc(<<>>)
  BY DEF ToSet, Items, Inc
<1>3. \A j : At(j) = {} /\ ItemsAt(j) = {}
  BY <1>1, <1>2 DEF At, ItemsAt
<1> QED
  BY <1>1, <1>2, <1>3 DEF OrderOK, OrderUnix

\* Until a send blocks with handles queued, nothing is left in Pipe.cmsg.
LEMMA CmsgStep ==
  ASSUME TypeOK, cmsg = <<>>, [Next]_vars, blocked' = 0
  PROVE  cmsg' = <<>>
<1>1. blocked \in Nat /\ blocked + 1 # 0
  BY DEF TypeOK
<1>2. CASE SendBlocked
  BY <1>1, <1>2 DEF SendBlocked
<1>3. CASE SendMsg
  BY <1>3 DEF SendMsg, SendUnix, SendWindows
<1>4. CASE CloseSender
  BY <1>4 DEF CloseSender, DropUnsent
<1>5. CASE FlushOutbound
  BY <1>5 DEF FlushOutbound, FlushItem, ReadRequest
<1>6. CASE WritableEvent
  BY <1>6 DEF WritableEvent, ReadRequest
<1>7. CASE CloseReceiver \/ RecvMsg \/ DecodeLength \/ ProcessInbound \/ UNCHANGED vars
  BY <1>7 DEF CloseReceiver, RecvMsg, DecodeLength, ProcessInbound, vars, senderVars
<1> QED
  BY <1>2, <1>3, <1>4, <1>5, <1>6, <1>7
     DEF Next, SenderStep, ReceiverStep, SenderSeesClose, ReceiverSeesClose

LEMMA UnixStep ==
  ASSUME TypeOK, StreamOK, UnsentOK, OrderUnix, cmsg = <<>>, platform = "unix",
         rconn = "open", [Next]_vars, TypeOK', rconn' = "open"
  PROVE  OrderUnix'
<1>1. CASE FlushOutbound
  BY <1>1, OrderFlush
<1>2. CASE CloseSender
  BY <1>2, OrderCloseSender
<1>3. CASE CloseReceiver
  BY <1>3 DEF CloseReceiver
<1>4. CASE SendMsg
  BY <1>4, OrderSend
<1>5. CASE SendBlocked \/ WritableEvent \/ UNCHANGED vars
  BY <1>5, OrderSame DEF SendBlocked, WritableEvent, vars, senderVars, receiverVars
<1>6. CASE RecvMsg
  BY <1>6, OrderRecv
<1>7. CASE DecodeLength
  BY <1>7, OrderDecode
<1>8. CASE ProcessInbound
  BY <1>8, OrderProcess
<1> QED
  BY <1>1, <1>2, <1>3, <1>4, <1>5, <1>6, <1>7, <1>8
     DEF Next, SenderStep, ReceiverStep, SenderSeesClose, ReceiverSeesClose

\* On both platforms ProcessInbound delivers what was sent.
LEMMA Delivers ==
  ASSUME TypeOK, StreamOK, OrderOK, ProcessInbound, TypeOK'
  PROVE  /\ Current \in 1..Len(sent)
         /\ delivered' = Append(delivered, sent[Current])
         /\ rconn = "open" /\ UNCHANGED <<sent, rconn>>
<1>1. /\ rconn = "open" /\ Current \in 1..Len(sent) /\ sent[Current] \in Item
      /\ inbuf[1][1] = Current
  BY ProcessBytes
<1> DEFINE item == sent[Current]
<1>2. LocalHandle(item) = item.handle
  <2>1. CASE platform = "unix"
    BY <1>1, <2>1, OrderProcess DEF OrderOK
  <2>2. CASE platform = "windows"
    BY <2>2 DEF LocalHandle, HasHandle
  <2>3. platform \in {"unix", "windows"}
    <3>1. Platforms \subseteq {"unix", "windows"}
      BY TransferAssumption
    <3> QED
      BY <3>1 DEF TypeOK
  <2> QED
    BY <2>1, <2>2, <2>3
<1>3. delivered' = Append(delivered, [item EXCEPT !.handle = LocalHandle(item)])
      /\ UNCHANGED <<sent, rconn>>
  BY <1>1 DEF ProcessInbound, senderVars
<1>4. [item EXCEPT !.handle = item.handle] = item
  BY <1>1 DEF Item
<1> QED
  BY <1>1, <1>2, <1>3, <1>4

LEMMA DeliveredStep ==
  ASSUME TypeOK, StreamOK, OrderOK, [Next]_vars, TypeOK'
  PROVE  \A i \in 1..Len(delivered') : delivered'[i] = sent'[i]
<1>1. \A i \in 1..Len(delivered) : delivered[i] = sent[i]
  BY DEF OrderOK
<1>2. delivered \in Seq(Item) /\ Len(delivered) \in Nat /\ Len(sent) \in Nat
      /\ Len(delivered) <= Len(sent)
  <2>1. delivered \in Seq(Item) /\ sent \in Seq(Item)
    BY DEF TypeOK
  <2> QED
    BY <2>1 DEF StreamOK
<1>3. CASE FlushOutbound
  <2>1. PICK item \in Item :
           /\ \A i \in 1..Len(sent) : sent'[i] = sent[i]
           /\ FlushItem(item)
    BY <1>3, FlushParts
  <2>2. delivered' = delivered
    BY <2>1 DEF FlushItem, receiverVars
  <2>3. \A i \in 1..Len(delivered) : i \in 1..Len(sent)
    BY <1>2
  <2> QED
    BY <1>1, <2>1, <2>2, <2>3
<1>4. CASE ProcessInbound
  <2>1. delivered' = Append(delivered, sent[Current]) /\ sent' = sent
        /\ Current \in 1..Len(sent)
    BY <1>4, Delivers
  <2>2. sent[Current] \in Item
    BY <2>1 DEF TypeOK
  <2> DEFINE item == sent[Current]
  <2>3. delivered' = Append(delivered, item) /\ item \in Item
    BY <2>1, <2>2
  <2> HIDE DEF item
  <2>4. /\ Len(delivered') = Len(delivered) + 1
        /\ delivered'[Len(delivered) + 1] = item
        /\ \A i \in 1..Len(delivered) : delivered'[i] = delivered[i]
    BY <1>2, <2>3
  <2>5. \A i \in 1..(Len(delivered) + 1) : i \in 1..Len(delivered) \/ i = Len(delivered) + 1
    BY <1>2
  <2> QED
    BY <1>1, <2>1, <2>4, <2>5 DEF item, Current
<1>5. CASE UNCHANGED <<sent, delivered>>
  BY <1>1, <1>5
<1>6. [Next]_vars => FlushOutbound \/ ProcessInbound \/ UNCHANGED <<sent, delivered>>
  BY DEF Next, SenderStep, ReceiverStep, SenderSeesClose, ReceiverSeesClose, CloseSender,
         CloseReceiver, SendMsg, SendBlocked, WritableEvent, RecvMsg, DecodeLength, vars,
         senderVars, receiverVars
<1> QED
  BY <1>3, <1>4, <1>5, <1>6

\* The platform never changes, a closed end stays closed, and blocked only grows.
LEMMA PlatformStep ==
  ASSUME TypeOK, [Next]_vars
  PROVE  /\ platform' = platform
         /\ rconn' = "open" => rconn = "open"
         /\ blocked' = 0 => blocked = 0
<1>1. platform' = platform /\ (rconn' = "open" => rconn = "open")
  BY DEF Next, SenderStep, ReceiverStep, SenderSeesClose, ReceiverSeesClose, FlushOutbound,
         FlushItem, CloseSender, CloseReceiver, SendMsg, SendBlocked, WritableEvent, RecvMsg,
         DecodeLength, ProcessInbound, vars, receiverVars
<1>2. blocked' = blocked \/ blocked' = blocked + 1
  BY DEF Next, SenderStep, ReceiverStep, SenderSeesClose, ReceiverSeesClose, FlushOutbound,
         FlushItem, CloseSender, CloseReceiver, SendMsg, SendBlocked, WritableEvent, RecvMsg,
         DecodeLength, ProcessInbound, vars, senderVars
<1>3. blocked \in Nat
  BY DEF TypeOK
<1> QED
  BY <1>1, <1>2, <1>3

LEMMA OrderInductive ==
  Spec => [](TransferInv /\ (Unblocked => OrderOK))
<1>1. Init => (Unblocked => OrderOK)
  BY OrderInit
<1>2. TransferInv /\ TransferInv' /\ (Unblocked => OrderOK) /\ [Next]_vars
        => (Unblocked => OrderOK)'
  <2> SUFFICES ASSUME TransferInv, TransferInv', Unblocked => OrderOK, [Next]_vars,
                      Unblocked'
               PROVE  OrderOK'
    OBVIOUS
  <2>1. TypeOK /\ StreamOK /\ UnsentOK /\ TypeOK'
    BY DEF TransferInv
  <2>2. /\ platform' = platform /\ (rconn' = "open" => rconn = "open")
        /\ blocked' = 0 /\ blocked = 0
    BY <2>1, PlatformStep DEF Unblocked
  <2>3. OrderOK
    BY <2>2 DEF Unblocked
  <2>4. cmsg = <<>> /\ (platform = "unix" /\ rconn = "open" => OrderUnix)
    BY <2>3 DEF OrderOK
  <2>5. cmsg' = <<>>
    BY <2>1, <2>2, <2>4, CmsgStep
  <2>6. \A i \in 1..Len(delivered') : delivered'[i] = sent'[i]
    BY <2>1, <2>3, DeliveredStep
  <2>7. platform' = "unix" /\ rconn' = "open" => OrderUnix'
    BY <2>1, <2>2, <2>4, UnixStep
  <2> QED
    BY <2>5, <2>6, <2>7 DEF OrderOK
<1> QED
  BY <1>1, <1>2, TransferInductive, PTL DEF Spec

\* Until a send blocks with handles queued, every item is delivered with the
\* handle it was sent with, however the bytes and the handles beside them are
\* split: set_local_handle takes the item's own from the queue.
\* (ipccore.rs:655, FramedDriver::process_inbound)
THEOREM HandlesPaired ==
  Spec => [](Unblocked => OwnHandle)
<1>1. OrderOK => OwnHandle
  BY DEF OrderOK, OwnHandle
<1> QED
  BY <1>1, OrderInductive, PTL

\* On Windows no handle is ever given to another item: the value travels inside
\* the item and set_local_handle only wraps it.  (sys/windows, messages.rs)
THEOREM HandlesPairedWindows ==
  Spec => [](platform = "windows" => OwnHandle)
<1>1. TransferInv => (platform = "windows" => OwnHandle)
  BY DEF TransferInv, OpenOK, OwnHandle
<1> QED
  BY <1>1, TransferInductive, PTL

\* Until a send blocks with handles queued, each handle queued at either end
\* belongs to an undelivered item of its own, so the assertion of
\* ConnectionBuffer::push_handle can fail only when more than HANDLE_QUEUE_LIMIT
\* responses with handles are under way at once.  (sys/mod.rs:58)
THEOREM QueuesBounded ==
  Spec => [](Unblocked => /\ HandlesOutstanding
                          /\ Cardinality(Undelivered) <= QueueLimit => HandleQueuesBounded)
<1>1. TransferInv /\ OrderOK => HandlesOutstanding
  <2> SUFFICES ASSUME TransferInv, OrderOK PROVE HandlesOutstanding
    OBVIOUS
  <2>1. TypeOK /\ StreamOK /\ UnsentOK /\ OpenOK
    BY DEF TransferInv
  <2>2. outhandles \in Seq(Ids) /\ inhandles \in Seq(Ids) /\ sent \in Seq(Item)
        /\ delivered \in Seq(Item) /\ platform \in Platforms
        /\ rconn \in {"open", "closed"} /\ wire \in Seq(Cell)
    BY <2>1 DEF TypeOK
  <2>3. Len(delivered) \in Nat /\ Len(sent) \in Nat /\ NoHandle \notin Nat
    BY <2>2, TransferAssumption
  <2>4. IsFiniteSet(Undelivered)
    <3>1. IsFiniteSet(1..Len(sent))
      BY <2>3, FS_Interval
    <3> QED
      BY <3>1, FS_Subset DEF Undelivered
  <2>5. \A h : Own(sent, Current, h) => h \in Undelivered
    <3>1. TAKE h
    <3>2. HAVE Own(sent, Current, h)
    <3>3. h \in 1..Len(sent) /\ h > Len(delivered) /\ sent[h].handle = h
      BY <2>3, <3>2 DEF Own, Current
    <3> QED
      BY <2>3, <3>3 DEF Undelivered, HasHandle
  <2>6. Inc(outhandles) /\ \A h \in ToSet(outhandles) : h \in Undelivered
    <3>1. Inc(outhandles) /\ \A i \in 1..Len(outhandles) : outhandles[i] \in Undelivered
      BY <2>1, <2>5 DEF UnsentOK
    <3> QED
      BY <2>2, <3>1, ElementsOf
  <2>7. /\ Inc(inhandles) /\ \A h \in ToSet(inhandles) : h \in Undelivered
        /\ \A g \in ToSet(inhandles), h \in ToSet(outhandles) : g < h
    <3>1. CASE inhandles = <<>>
      <4>1. ToSet(inhandles) = {}
        BY <3>1 DEF ToSet
      <4> QED
        BY <3>1, <4>1 DEF Inc
    <3>2. CASE platform = "unix" /\ rconn = "open"
      <4>1. OrderUnix
        BY <3>2 DEF OrderOK
      <4>2. /\ At(0) = ToSet(inhandles) /\ At(Rear) = ToSet(outhandles)
            /\ 0 \in 0..Rear /\ Rear \in 0..Rear /\ 0 < Rear
        <5>1. Len(wire) \in Nat
          BY <2>2
        <5> QED
          BY <5>1 DEF At, Rear
      <4> QED
        BY <2>5, <4>1, <4>2 DEF OrderUnix
    <3>3. platform \in {"unix", "windows"}
      BY <2>2, TransferAssumption
    <3> QED
      BY <2>1, <2>2, <3>1, <3>2, <3>3 DEF OpenOK, StreamOK
  <2> DEFINE c == inhandles \o outhandles
  <2>8. Inc(c) /\ ToSet(c) = ToSet(inhandles) \cup ToSet(outhandles)
    BY <2>2, <2>6, <2>7, IncCat
  <2>9. c \in Seq(Ids) /\ Len(c) = Len(inhandles) + Len(outhandles)
    BY <2>2, ConcatProperties
  <2> HIDE DEF c
  <2>10. \A i \in 1..Len(c) : c[i] \in Undelivered
    BY <2>6, <2>7, <2>8, <2>9, ElementsOf
  <2>11. Len(c) <= Cardinality(Undelivered)
    BY <2>4, <2>8, <2>9, <2>10, IncBound
  <2>12. Len(inhandles) \in Nat /\ Len(outhandles) \in Nat
    BY <2>2
  <2> QED
    BY <2>9, <2>11, <2>12 DEF HandlesOutstanding
<1>2. TypeOK /\ HandlesOutstanding /\ Cardinality(Undelivered) <= QueueLimit
        => HandleQueuesBounded
  <2> SUFFICES ASSUME TypeOK, HandlesOutstanding, Cardinality(Undelivered) <= QueueLimit
               PROVE  HandleQueuesBounded
    OBVIOUS
  <2>1. Len(outhandles) \in Nat /\ Len(inhandles) \in Nat
    BY DEF TypeOK
  <2>2. QueueLimit \in Nat /\ Cardinality(Undelivered) \in Nat
    <3>1. sent \in Seq(Item)
      BY DEF TypeOK
    <3>2. Len(sent) \in Nat
      BY <3>1
    <3>3. IsFiniteSet(1..Len(sent))
      BY <3>2, FS_Interval
    <3>4. IsFiniteSet(Undelivered)
      BY <3>3, FS_Subset DEF Undelivered
    <3> QED
      BY <3>4, FS_CardinalityType, TransferAssumption
  <2> QED
    BY <2>1, <2>2 DEF HandlesOutstanding, HandleQueuesBounded
<1>3. TransferInv /\ (Unblocked => OrderOK)
        => (Unblocked => /\ HandlesOutstanding
                         /\ Cardinality(Undelivered) <= QueueLimit => HandleQueuesBounded)
  BY <1>1, <1>2 DEF TransferInv
<1> QED
  BY <1>3, OrderInductive, PTL

\* One direction of a connection implements AbstractChannel when no send blocks
\* with handles queued: items arrive complete, in order and each with its own
\* handle, and when the connection closes none is delivered out of turn.
THEOREM ChannelImplemented ==
  NeverBlocked => (Spec => ChannelSpec)
<1> SUFFICES ASSUME NeverBlocked PROVE Spec => ChannelSpec
  OBVIOUS
<1>1. TypeOK => Unblocked
  BY DEF TypeOK, NeverBlocked, Unblocked
<1>2. Init => Channel!Init
  BY DEF Init, Channel!Init
<1>3. TransferInv /\ OrderOK /\ TransferInv' /\ [Next]_vars => [Channel!Next]_(Channel!vars)
  <2> SUFFICES ASSUME TransferInv, OrderOK, TransferInv', [Next]_vars
               PROVE  [Channel!Next]_(Channel!vars)
    OBVIOUS
  <2>1. TypeOK /\ StreamOK /\ TypeOK'
    BY DEF TransferInv
  <2>2. CASE FlushOutbound
    <3>1. PICK item \in Item : FlushItem(item)
      BY <2>1, <2>2, FlushParts
    <3>2. sent' = Append(sent, item) /\ UNCHANGED <<delivered, rconn>>
      BY <3>1 DEF FlushItem, receiverVars
    <3>3. Channel!Send
      BY <3>2 DEF Channel!Send
    <3> QED
      BY <3>3 DEF Channel!Next
  <2>3. CASE ProcessInbound
    <3>1. /\ Current \in 1..Len(sent) /\ delivered' = Append(delivered, sent[Current])
          /\ rconn = "open" /\ UNCHANGED <<sent, rconn>>
      BY <2>1, <2>3, Delivers
    <3>2. Len(delivered) \in Nat /\ Len(sent) \in Nat
      <4>1. delivered \in Seq(Item) /\ sent \in Seq(Item)
        BY <2>1 DEF TypeOK
      <4> QED
        BY <4>1
    <3>3. Len(delivered) < Len(sent) /\ Current = Len(delivered) + 1
      BY <3>1, <3>2 DEF Current
    <3>4. Channel!Deliver
      BY <3>1, <3>3 DEF Channel!Deliver
    <3> QED
      BY <3>4 DEF Channel!Next
  <2>4. CASE CloseReceiver
    <3>1. rconn = "open" /\ rconn' = "closed" /\ UNCHANGED <<sent, delivered>>
      BY <2>4 DEF CloseReceiver, senderVars
    <3>2. Channel!Close
      BY <3>1 DEF Channel!Close
    <3> QED
      BY <3>2 DEF Channel!Next
  <2>5. CASE UNCHANGED <<sent, delivered, rconn>>
    BY <2>5 DEF Channel!vars
  <2>6. FlushOutbound \/ ProcessInbound \/ CloseReceiver \/ UNCHANGED <<sent, delivered, rconn>>
    BY DEF Next, SenderStep, ReceiverStep, SenderSeesClose, ReceiverSeesClose, CloseSender,
           SendMsg, SendBlocked, WritableEvent, RecvMsg, DecodeLength, vars, senderVars,
           receiverVars
  <2> QED
    BY <2>2, <2>3, <2>4, <2>5, <2>6
<1>4. TransferInv => TypeOK
  BY DEF TransferInv
<1> QED
  BY <1>1, <1>2, <1>3, <1>4, OrderInductive, PTL DEF Spec, ChannelSpec, Channel!Spec

=============================================================================
