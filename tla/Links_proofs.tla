----------------------------- MODULE Links_proofs -----------------------------
(***************************************************************************)
(* Proofs about the two link engines: both implement the contract of       *)
(* ClientLink, and the ceiling on what the gnet engine may have buffered   *)
(* is never reached, for all limits and scenarios.                         *)
(*                                                                         *)
(* The argument is a ledger.  Accepted submissions have consecutive        *)
(* numbers; from the oldest that is not released they are in the engine's  *)
(* segments, then in the batch or the job in hand, then in its queue.      *)
(***************************************************************************)
EXTENDS MCLinks, Data_proofs, SequenceTheorems

Subs == [id : Nat, size : Nat]
Segs == [id : Nat, size : Nat, left : Nat, control : BOOLEAN]

-----------------------------------------------------------------------------
(* The submissions, their charges and the bytes of the first n segments.   *)
ItemOf(q) == [i \in 1..Len(q) |-> IF q[i].control THEN 0 ELSE 1]
SizeOf(q) == [i \in 1..Len(q) |-> q[i].size]
LeftOf(q) == [i \in 1..Len(q) |-> q[i].left]

ItemsTo(q, n) == Upto(ItemOf(q), n)
SizesTo(q, n) == Upto(SizeOf(q), n)
LeftTo(q, n) == Upto(LeftOf(q), n)

LEMMA FunctionIsSeq ==
  ASSUME NEW S, NEW n \in Nat, NEW f \in [1..n -> S]
  PROVE  f \in Seq(S) /\ Len(f) = n
OBVIOUS

LEMMA SegmentSeqs ==
  ASSUME NEW q \in Seq(Segs)
  PROVE  /\ Len(q) \in Nat /\ DOMAIN q = 1..Len(q)
         /\ ItemOf(q) \in Seq(Nat) /\ Len(ItemOf(q)) = Len(q)
         /\ SizeOf(q) \in Seq(Nat) /\ Len(SizeOf(q)) = Len(q)
         /\ LeftOf(q) \in Seq(Nat) /\ Len(LeftOf(q)) = Len(q)
         /\ \A i \in 1..Len(q) :
              /\ q[i] \in Segs
              /\ q[i].id \in Nat /\ q[i].size \in Nat /\ q[i].left \in Nat
              /\ q[i].control \in BOOLEAN
              /\ ItemOf(q)[i] = (IF q[i].control THEN 0 ELSE 1)
              /\ SizeOf(q)[i] = q[i].size /\ LeftOf(q)[i] = q[i].left
<1>1. /\ Len(q) \in Nat /\ DOMAIN q = 1..Len(q)
      /\ \A i \in 1..Len(q) : q[i] \in Segs
  OBVIOUS
<1>2. \A i \in 1..Len(q) : /\ q[i].id \in Nat /\ q[i].size \in Nat
                           /\ q[i].left \in Nat /\ q[i].control \in BOOLEAN
  BY <1>1 DEF Segs
<1>3. ItemOf(q) \in [1..Len(q) -> Nat]
  BY <1>1, <1>2 DEF ItemOf
<1>4. SizeOf(q) \in [1..Len(q) -> Nat] /\ LeftOf(q) \in [1..Len(q) -> Nat]
  BY <1>1, <1>2 DEF SizeOf, LeftOf
<1>5. ASSUME NEW f \in [1..Len(q) -> Nat]
      PROVE  f \in Seq(Nat) /\ Len(f) = Len(q)
  BY <1>1
<1>6. /\ ItemOf(q) \in Seq(Nat) /\ Len(ItemOf(q)) = Len(q)
      /\ SizeOf(q) \in Seq(Nat) /\ Len(SizeOf(q)) = Len(q)
      /\ LeftOf(q) \in Seq(Nat) /\ Len(LeftOf(q)) = Len(q)
  BY <1>3, <1>4, <1>5
<1>7. \A i \in 1..Len(q) : /\ ItemOf(q)[i] = (IF q[i].control THEN 0 ELSE 1)
                           /\ SizeOf(q)[i] = q[i].size /\ LeftOf(q)[i] = q[i].left
  BY DEF ItemOf, SizeOf, LeftOf
<1> QED BY <1>1, <1>2, <1>6, <1>7

LEMMA SegmentSums ==
  ASSUME NEW q \in Seq(Segs)
  PROVE  /\ Items(q) = ItemsTo(q, Len(q)) /\ SubBytes(q) = SizesTo(q, Len(q))
         /\ SumOf([i \in DOMAIN q |-> q[i].left]) = LeftTo(q, Len(q))
<1>1. /\ Items(q) = SumOf(ItemOf(q)) /\ SubBytes(q) = SumOf(SizeOf(q))
      /\ SumOf([i \in DOMAIN q |-> q[i].left]) = SumOf(LeftOf(q))
  BY SegmentSeqs DEF Items, SubBytes, ItemOf, SizeOf, LeftOf
<1>2. /\ SumOf(ItemOf(q)) = Upto(ItemOf(q), Len(q))
      /\ SumOf(SizeOf(q)) = Upto(SizeOf(q), Len(q))
      /\ SumOf(LeftOf(q)) = Upto(LeftOf(q), Len(q))
  BY SegmentSeqs, SumIsUpto
<1> QED BY <1>1, <1>2 DEF ItemsTo, SizesTo, LeftTo

LEMMA SegmentZero ==
  ASSUME NEW q
  PROVE  ItemsTo(q, 0) = 0 /\ SizesTo(q, 0) = 0 /\ LeftTo(q, 0) = 0
BY UptoZero DEF ItemsTo, SizesTo, LeftTo

LEMMA SegmentStep ==
  ASSUME NEW q \in Seq(Segs), NEW n \in Nat, n + 1 <= Len(q)
  PROVE  /\ ItemsTo(q, n + 1) = ItemsTo(q, n) + (IF q[n + 1].control THEN 0 ELSE 1)
         /\ SizesTo(q, n + 1) = SizesTo(q, n) + q[n + 1].size
         /\ LeftTo(q, n + 1) = LeftTo(q, n) + q[n + 1].left
         /\ ItemsTo(q, n) \in Nat /\ SizesTo(q, n) \in Nat /\ LeftTo(q, n) \in Nat
<1>1. \A i \in 1..n + 1 : /\ ItemOf(q)[i] \in Nat /\ SizeOf(q)[i] \in Nat
                          /\ LeftOf(q)[i] \in Nat
  BY SegmentSeqs
<1>2. n + 1 \in 1..Len(q)
  BY SegmentSeqs
<1>3. /\ Upto(ItemOf(q), n + 1) = Upto(ItemOf(q), n) + ItemOf(q)[n + 1]
      /\ Upto(ItemOf(q), n) \in Nat
  BY <1>1, UptoStep
<1>4. /\ Upto(SizeOf(q), n + 1) = Upto(SizeOf(q), n) + SizeOf(q)[n + 1]
      /\ Upto(SizeOf(q), n) \in Nat
  BY <1>1, UptoStep
<1>5. /\ Upto(LeftOf(q), n + 1) = Upto(LeftOf(q), n) + LeftOf(q)[n + 1]
      /\ Upto(LeftOf(q), n) \in Nat
  BY <1>1, UptoStep
<1> QED BY <1>2, <1>3, <1>4, <1>5, SegmentSeqs DEF ItemsTo, SizesTo, LeftTo

(* Counts of submissions: between 0 and n, and growing with n.             *)
LEMMA ItemsBound ==
  ASSUME NEW q \in Seq(Segs), NEW n \in Nat, n <= Len(q)
  PROVE  ItemsTo(q, n) \in 0..n /\ SizesTo(q, n) \in Nat /\ LeftTo(q, n) \in Nat
<1> DEFINE P(i) == /\ ItemsTo(q, i) \in 0..i /\ SizesTo(q, i) \in Nat
                   /\ LeftTo(q, i) \in Nat
           G == {i \in Nat : i <= Len(q) => P(i)}
<1>1. 0 \in G
  BY SegmentZero
<1>2. ASSUME NEW i \in Nat, i \in G PROVE i + 1 \in G
  <2> SUFFICES ASSUME i + 1 <= Len(q) PROVE P(i + 1)
    OBVIOUS
  <2>1. P(i) /\ i + 1 \in 1..Len(q) /\ Len(q) \in Nat
    BY <1>2, SegmentSeqs
  <2>2. q[i + 1].size \in Nat /\ q[i + 1].left \in Nat
    BY <2>1, SegmentSeqs
  <2>3. (IF q[i + 1].control THEN 0 ELSE 1) \in 0..1
    OBVIOUS
  <2>4. /\ ItemsTo(q, i + 1) = ItemsTo(q, i) + (IF q[i + 1].control THEN 0 ELSE 1)
        /\ SizesTo(q, i + 1) = SizesTo(q, i) + q[i + 1].size
        /\ LeftTo(q, i + 1) = LeftTo(q, i) + q[i + 1].left
    BY SegmentStep
  <2> QED BY <2>1, <2>2, <2>3, <2>4, SMTT(30)
<1> HIDE DEF G
<1>3. Nat \subseteq G
  BY <1>1, <1>2, SetInduction
<1> QED BY <1>3 DEF G

LEMMA ItemsLess ==
  ASSUME NEW q \in Seq(Segs), NEW m \in Nat, NEW n \in Nat, m <= n, n <= Len(q)
  PROVE  ItemsTo(q, m) <= ItemsTo(q, n)
<1>1. \A i \in 1..n : ItemOf(q)[i] \in Nat
  BY SegmentSeqs
<1> QED BY <1>1, UptoLess DEF ItemsTo

(* The submissions of a stretch of q that is the beginning of r.           *)
Part(q, r, m, n) ==
  /\ q \in Seq(Segs) /\ r \in Seq(Segs) /\ m \in Nat /\ n \in Nat
  /\ m + n <= Len(q) /\ n <= Len(r)
  /\ \A i \in 1..n : r[i].control = q[m + i].control

LEMMA ItemsShift ==
  ASSUME NEW q, NEW r, NEW m, NEW n, Part(q, r, m, n)
  PROVE  /\ ItemsTo(q, m + n) = ItemsTo(q, m) + ItemsTo(r, n)
         /\ ItemsTo(q, m) \in Nat /\ ItemsTo(r, n) \in Nat
<1> USE DEF Part
<1>1. \A i \in 1..m + n : ItemOf(q)[i] \in Nat
  BY SegmentSeqs, SMTT(30)
<1>2. ASSUME NEW i \in 1..n PROVE ItemOf(r)[i] = ItemOf(q)[m + i]
  <2>1. i \in 1..Len(r) /\ m + i \in 1..Len(q)
    BY SegmentSeqs
  <2>2. ItemOf(r)[i] = (IF r[i].control THEN 0 ELSE 1)
    BY <2>1, SegmentSeqs
  <2>3. ItemOf(q)[m + i] = (IF q[m + i].control THEN 0 ELSE 1)
    BY <2>1, SegmentSeqs
  <2> QED BY <2>2, <2>3
<1>3. Stretch(ItemOf(q), ItemOf(r), m, n, m + n)
  BY <1>1, <1>2 DEF Stretch
<1>4. /\ Upto(ItemOf(q), m + n) = Upto(ItemOf(q), m) + Upto(ItemOf(r), n)
      /\ Upto(ItemOf(q), m) \in Nat /\ Upto(ItemOf(r), n) \in Nat
      /\ Upto(ItemOf(q), m + n) \in Nat
  BY <1>3, UptoShift
<1> QED BY <1>4 DEF ItemsTo

LEMMA ItemsSame ==
  ASSUME NEW q, NEW r, NEW n, Part(q, r, 0, n)
  PROVE  ItemsTo(q, n) = ItemsTo(r, n)
<1>1. ItemsTo(q, 0 + n) = ItemsTo(q, 0) + ItemsTo(r, n) /\ ItemsTo(r, n) \in Nat
  BY ItemsShift
<1>2. 0 + n = n
  BY DEF Part
<1> QED BY <1>1, <1>2, SegmentZero

-----------------------------------------------------------------------------
(* Segments that hold the submissions from position rel + 1 of a.          *)
Wire(x) == IF x.control THEN PongWire ELSE x.size + Overhead

Booked(q, a, rel) ==
  /\ q \in Seq(Segs) /\ a \in Seq(Nat) /\ rel \in Nat
  /\ rel + ItemsTo(q, Len(q)) <= Len(a)
  /\ \A i \in 1..Len(q) :
       /\ q[i].left = Wire(q[i])
       /\ IF q[i].control THEN q[i].size = 0
          ELSE /\ q[i].id = rel + ItemsTo(q, i)
               /\ q[i].size = a[rel + ItemsTo(q, i)]

(* Their charge is that of those submissions, and their bytes add what the *)
(* encoding adds.                                                          *)
LEMMA BookedSums ==
  ASSUME NEW q, NEW a, NEW rel, Booked(q, a, rel), NEW n \in Nat, n <= Len(q)
  PROVE  /\ SizesTo(q, n) = Upto(a, rel + ItemsTo(q, n)) - Upto(a, rel)
         /\ LeftTo(q, n) = SizesTo(q, n) + Overhead * ItemsTo(q, n)
                             + PongWire * (n - ItemsTo(q, n))
         /\ Upto(a, rel + ItemsTo(q, n)) \in Nat /\ Upto(a, rel) \in Nat
<1> USE DEF Booked
<1> DEFINE U(i) == Upto(a, rel + ItemsTo(q, i))
           P(i) == /\ U(i) \in Nat
                   /\ SizesTo(q, i) = U(i) - Upto(a, rel)
                   /\ LeftTo(q, i) = SizesTo(q, i) + Overhead * ItemsTo(q, i)
                                       + PongWire * (i - ItemsTo(q, i))
           G == {i \in Nat : i <= Len(q) => P(i)}
<1>1. Len(q) \in Nat /\ Len(a) \in Nat /\ \A i \in 1..Len(a) : a[i] \in Nat
  OBVIOUS
<1>2. ItemsTo(q, Len(q)) \in Nat
  BY <1>1, ItemsBound
<1>3. rel <= Len(a)
  BY <1>1, <1>2
<1>4. Upto(a, rel) \in Nat
  BY <1>1, <1>3, UptoLess
<1>5. 0 \in G
  <2>1. ItemsTo(q, 0) = 0 /\ SizesTo(q, 0) = 0 /\ LeftTo(q, 0) = 0 /\ rel + 0 = rel
    BY SegmentZero
  <2>2. Overhead * 0 = 0 /\ PongWire * (0 - 0) = 0
    BY LimitsAssumption
  <2>3. U(0) = Upto(a, rel)
    BY <2>1
  <2> QED BY <1>4, <2>1, <2>2, <2>3
<1>6. ASSUME NEW i \in Nat, i \in G PROVE i + 1 \in G
  <2> SUFFICES ASSUME i + 1 <= Len(q) PROVE P(i + 1)
    OBVIOUS
  <2> DEFINE x == q[i + 1]
             s == ItemsTo(q, i)
  <2>1. P(i) /\ i + 1 \in 1..Len(q)
    BY <1>1, <1>6
  <2>2. s \in Nat /\ s <= i /\ SizesTo(q, i) \in Nat /\ LeftTo(q, i) \in Nat
    <3>1. i <= Len(q)
      BY <1>1
    <3> QED BY <3>1, ItemsBound
  <2>3. /\ ItemsTo(q, i + 1) = s + (IF x.control THEN 0 ELSE 1)
        /\ SizesTo(q, i + 1) = SizesTo(q, i) + x.size
        /\ LeftTo(q, i + 1) = LeftTo(q, i) + x.left
    BY SegmentStep
  <2>4. x.left = Wire(x) /\ x.size \in Nat /\ x.control \in BOOLEAN
    BY <2>1, SegmentSeqs
  <2>5. Overhead \in Nat /\ PongWire \in Nat
    BY LimitsAssumption
  <2>6. CASE x.control
    <3>1. x.size = 0 /\ x.left = PongWire /\ ItemsTo(q, i + 1) = s
      BY <2>1, <2>2, <2>3, <2>4, <2>6 DEF Wire
    <3>2. U(i + 1) = U(i)
      BY <3>1
    <3>3. PongWire * ((i + 1) - s) = PongWire * (i - s) + PongWire
      BY <2>2, <2>5
    <3>4. PongWire * (i - s) \in Int /\ Overhead * s \in Int
      BY <2>2, <2>5
    <3>5. U(i + 1) \in Nat /\ SizesTo(q, i + 1) = U(i + 1) - Upto(a, rel)
      BY <1>4, <2>1, <2>2, <2>3, <3>1, <3>2
    <3>6. LeftTo(q, i) = SizesTo(q, i) + Overhead * s + PongWire * (i - s)
      BY <2>1
    <3>7. LeftTo(q, i + 1) = SizesTo(q, i + 1) + Overhead * s
                               + PongWire * ((i + 1) - s)
      <4> HIDE DEF s, P
      <4> QED BY <2>2, <2>3, <2>5, <3>1, <3>3, <3>4, <3>6
    <3> QED BY <3>1, <3>5, <3>7
  <2>7. CASE ~x.control
    <3>1. /\ ItemsTo(q, i + 1) = s + 1 /\ x.left = x.size + Overhead
          /\ x.size = a[rel + (s + 1)]
      BY <2>1, <2>2, <2>3, <2>4, <2>7 DEF Wire
    <3>2. ItemsTo(q, i + 1) <= ItemsTo(q, Len(q))
      BY <1>1, ItemsLess
    <3>3. (rel + s) + 1 <= Len(a) /\ rel + s \in Nat /\ rel + (s + 1) = (rel + s) + 1
      <4> HIDE DEF s
      <4> QED BY <1>1, <1>2, <2>2, <3>1, <3>2
    <3>4. \A j \in 1..(rel + s) + 1 : a[j] \in Nat
      BY <1>1, <3>3
    <3>5. Upto(a, (rel + s) + 1) = Upto(a, rel + s) + a[(rel + s) + 1]
      BY <3>3, <3>4, UptoStep
    <3>6. U(i + 1) = U(i) + x.size
      BY <3>1, <3>3, <3>5
    <3>7. Overhead * (s + 1) = Overhead * s + Overhead
      BY <2>2, <2>5
    <3>8. PongWire * ((i + 1) - (s + 1)) = PongWire * (i - s)
      BY <2>2, <2>5
    <3>9. PongWire * (i - s) \in Int /\ Overhead * s \in Int
      BY <2>2, <2>5
    <3>10. U(i + 1) \in Nat /\ SizesTo(q, i + 1) = U(i + 1) - Upto(a, rel)
      BY <1>4, <2>1, <2>2, <2>3, <2>4, <3>6, SMTT(30)
    <3>11. LeftTo(q, i) = SizesTo(q, i) + Overhead * s + PongWire * (i - s)
      BY <2>1
    <3>12. LeftTo(q, i + 1) = SizesTo(q, i + 1) + Overhead * (s + 1)
                                + PongWire * ((i + 1) - (s + 1))
      <4> DEFINE o == Overhead * s
                 p == PongWire * (i - s)
      <4>1. LeftTo(q, i + 1) = SizesTo(q, i) + o + p + (x.size + Overhead)
        BY <2>3, <3>1, <3>11
      <4>2. /\ Overhead * (s + 1) = o + Overhead /\ o \in Int /\ p \in Int
            /\ PongWire * ((i + 1) - (s + 1)) = p
        BY <3>7, <3>8, <3>9
      <4> HIDE DEF s, P, x, o, p
      <4>3. LeftTo(q, i + 1) = SizesTo(q, i + 1) + (o + Overhead) + p
        <5> DEFINE A == SizesTo(q, i)
                   B == SizesTo(q, i + 1)
                   z == x.size
        <5>1. /\ A \in Nat /\ z \in Nat /\ B = A + z
              /\ LeftTo(q, i + 1) = A + o + p + (z + Overhead)
          BY <2>2, <2>3, <2>4, <4>1
        <5> HIDE DEF A, B, z
        <5>2. A + o + p + (z + Overhead) = B + (o + Overhead) + p
          BY <2>5, <4>2, <5>1
        <5> QED BY <5>1, <5>2 DEF B
      <4> QED BY <4>2, <4>3, Zenon
    <3> QED BY <3>1, <3>10, <3>12
  <2> QED BY <2>4, <2>6, <2>7
<1> HIDE DEF G
<1>7. Nat \subseteq G
  BY <1>5, <1>6, SetInduction
<1>8. P(n)
  <2> HIDE DEF P
  <2> QED BY <1>7 DEF G
<1> QED BY <1>4, <1>8

(* Segments after the first n hold what is left.                           *)
LEMMA BookedRest ==
  ASSUME NEW q, NEW a, NEW rel, Booked(q, a, rel), NEW n \in Nat, n <= Len(q)
  PROVE  LET r == SubSeq(q, n + 1, Len(q))
         IN  /\ Booked(r, a, rel + ItemsTo(q, n))
             /\ Len(r) = Len(q) - n
             /\ \A j \in 0..Len(r) : ItemsTo(q, n + j) = ItemsTo(q, n) + ItemsTo(r, j)
<1> DEFINE r == SubSeq(q, n + 1, Len(q))
           m == ItemsTo(q, n)
<1>1. /\ q \in Seq(Segs) /\ a \in Seq(Nat) /\ rel \in Nat /\ Len(q) \in Nat
      /\ Len(a) \in Nat
  BY DEF Booked
<1>2. /\ r \in Seq(Segs) /\ Len(r) = Len(q) - n
      /\ \A j \in 1..Len(r) : r[j] = q[n + j]
  BY <1>1, SMTT(30)
<1>3. m \in Nat
  BY <1>1, ItemsBound
<1> HIDE DEF r
<1>4. ASSUME NEW j \in 0..Len(r)
      PROVE  /\ ItemsTo(q, n + j) = m + ItemsTo(r, j)
             /\ ItemsTo(r, j) \in Nat
  <2>1. Part(q, r, n, j)
    BY <1>1, <1>2 DEF Part
  <2> QED BY <2>1, ItemsShift
<1> HIDE DEF m
<1>5. ASSUME NEW i \in 1..Len(r)
      PROVE  /\ r[i].left = Wire(r[i])
             /\ IF r[i].control THEN r[i].size = 0
                ELSE /\ r[i].id = rel + m + ItemsTo(r, i)
                     /\ r[i].size = a[rel + m + ItemsTo(r, i)]
  <2>1. n + i \in 1..Len(q) /\ i \in 0..Len(r)
    BY <1>1, <1>2
  <2>2. ItemsTo(q, n + i) = m + ItemsTo(r, i) /\ ItemsTo(r, i) \in Nat
    BY <1>4, <2>1
  <2>3. rel + ItemsTo(q, n + i) = rel + m + ItemsTo(r, i)
    BY <1>1, <1>3, <2>2
  <2> QED BY <1>2, <2>1, <2>3 DEF Booked
<1>6. rel + m + ItemsTo(r, Len(r)) <= Len(a)
  <2>1. Len(r) \in 0..Len(r) /\ n + Len(r) = Len(q)
    BY <1>1, <1>2
  <2>2. ItemsTo(q, Len(q)) = m + ItemsTo(r, Len(r)) /\ ItemsTo(r, Len(r)) \in Nat
    BY <1>4, <2>1
  <2>3. rel + ItemsTo(q, Len(q)) <= Len(a)
    BY DEF Booked
  <2> QED BY <1>1, <1>3, <2>2, <2>3
<1>7. Booked(r, a, rel + m)
  BY <1>1, <1>2, <1>3, <1>5, <1>6 DEF Booked
<1> QED BY <1>2, <1>4, <1>7 DEF r, m

(* Segments with more after them.                                          *)
LEMMA BookedJoin ==
  ASSUME NEW q, NEW r, NEW a, NEW rel, Booked(q, a, rel),
         Booked(r, a, rel + ItemsTo(q, Len(q)))
  PROVE  /\ Booked(q \o r, a, rel) /\ Len(q \o r) = Len(q) + Len(r)
         /\ \A i \in 0..Len(q) : ItemsTo(q \o r, i) = ItemsTo(q, i)
         /\ \A i \in 0..Len(r) :
              ItemsTo(q \o r, Len(q) + i) = ItemsTo(q, Len(q)) + ItemsTo(r, i)
<1> DEFINE p == q \o r
           m == ItemsTo(q, Len(q))
<1>1. /\ q \in Seq(Segs) /\ r \in Seq(Segs) /\ a \in Seq(Nat) /\ rel \in Nat
      /\ Len(q) \in Nat /\ Len(r) \in Nat /\ Len(a) \in Nat
  BY DEF Booked
<1>2. /\ p \in Seq(Segs) /\ Len(p) = Len(q) + Len(r)
      /\ \A i \in 1..Len(q) : p[i] = q[i]
      /\ \A i \in 1..Len(r) : p[Len(q) + i] = r[i]
  BY <1>1
<1>3. m \in Nat
  BY <1>1, ItemsBound
<1> HIDE DEF p
<1>4. ASSUME NEW i \in 0..Len(q) PROVE ItemsTo(p, i) = ItemsTo(q, i)
  <2>1. Part(p, q, 0, i)
    BY <1>1, <1>2 DEF Part
  <2> QED BY <2>1, ItemsSame
<1>5. ASSUME NEW i \in 0..Len(r)
      PROVE  ItemsTo(p, Len(q) + i) = m + ItemsTo(r, i) /\ ItemsTo(r, i) \in Nat
  <2>1. Part(p, r, Len(q), i)
    BY <1>1, <1>2 DEF Part
  <2>2. ItemsTo(p, Len(q) + i) = ItemsTo(p, Len(q)) + ItemsTo(r, i)
        /\ ItemsTo(r, i) \in Nat
    BY <2>1, ItemsShift
  <2>3. ItemsTo(p, Len(q)) = m
    BY <1>1, <1>4
  <2> QED BY <2>2, <2>3
<1> HIDE DEF m
<1>6. ASSUME NEW i \in 1..Len(p)
      PROVE  /\ p[i].left = Wire(p[i])
             /\ IF p[i].control THEN p[i].size = 0
                ELSE /\ p[i].id = rel + ItemsTo(p, i)
                     /\ p[i].size = a[rel + ItemsTo(p, i)]
  <2>1. CASE i <= Len(q)
    <3>1. i \in 1..Len(q) /\ i \in 0..Len(q)
      BY <2>1
    <3>2. p[i] = q[i] /\ ItemsTo(p, i) = ItemsTo(q, i)
      BY <1>2, <1>4, <3>1
    <3> QED BY <3>1, <3>2 DEF Booked
  <2>2. CASE i > Len(q)
    <3>1. PICK j \in 1..Len(r) : i = Len(q) + j
      <4>1. i - Len(q) \in 1..Len(r) /\ i = Len(q) + (i - Len(q))
        BY <1>1, <1>2, <2>2
      <4> QED BY <4>1
    <3>2. j \in 0..Len(r)
      OBVIOUS
    <3>3. p[i] = r[j] /\ ItemsTo(p, i) = m + ItemsTo(r, j) /\ ItemsTo(r, j) \in Nat
      BY <1>2, <1>5, <3>1, <3>2
    <3>4. rel + ItemsTo(p, i) = rel + m + ItemsTo(r, j)
      BY <1>1, <1>3, <3>3
    <3> QED BY <3>1, <3>3, <3>4 DEF Booked, m
  <2> QED BY <1>1, <1>2, <2>1, <2>2
<1>7. rel + ItemsTo(p, Len(p)) <= Len(a)
  <2>1. ItemsTo(p, Len(p)) = m + ItemsTo(r, Len(r)) /\ ItemsTo(r, Len(r)) \in Nat
    BY <1>1, <1>2, <1>5
  <2>2. rel + m + ItemsTo(r, Len(r)) <= Len(a)
    BY DEF Booked, m
  <2> QED BY <1>1, <1>3, <2>1, <2>2
<1>8. Booked(p, a, rel)
  BY <1>1, <1>2, <1>6, <1>7 DEF Booked
<1> QED BY <1>2, <1>4, <1>5, <1>8 DEF p, m

(* One more submission is accepted.                                        *)
LEMMA BookedMore ==
  ASSUME NEW q, NEW a, NEW rel, Booked(q, a, rel), NEW x \in Nat
  PROVE  Booked(q, Append(a, x), rel)
<1> DEFINE b == Append(a, x)
<1>1. /\ q \in Seq(Segs) /\ a \in Seq(Nat) /\ rel \in Nat
      /\ Len(q) \in Nat /\ Len(a) \in Nat
  BY DEF Booked
<1>2. b \in Seq(Nat) /\ Len(b) = Len(a) + 1 /\ \A i \in 1..Len(a) : b[i] = a[i]
  BY <1>1
<1> HIDE DEF b
<1>3. ItemsTo(q, Len(q)) \in Nat /\ rel + ItemsTo(q, Len(q)) <= Len(a)
  BY <1>1, ItemsBound DEF Booked
<1>4. ASSUME NEW i \in 1..Len(q), ~q[i].control
      PROVE  b[rel + ItemsTo(q, i)] = a[rel + ItemsTo(q, i)]
  <2>1. i - 1 \in Nat /\ (i - 1) + 1 = i /\ i <= Len(q) /\ i \in Nat
    BY <1>1
  <2>2. ItemsTo(q, (i - 1) + 1) = ItemsTo(q, i - 1) + 1 /\ ItemsTo(q, i - 1) \in Nat
    BY <1>1, <1>4, <2>1, SegmentStep
  <2>3. ItemsTo(q, i) <= ItemsTo(q, Len(q))
    BY <1>1, <2>1, ItemsLess
  <2>4. rel + ItemsTo(q, i) \in 1..Len(a)
    BY <1>1, <1>3, <2>1, <2>2, <2>3
  <2> QED BY <1>2, <2>4
<1>5. rel + ItemsTo(q, Len(q)) <= Len(b)
  BY <1>1, <1>2, <1>3
<1>6. Booked(q, b, rel)
  BY <1>1, <1>2, <1>4, <1>5 DEF Booked
<1> QED BY <1>6 DEF b

-----------------------------------------------------------------------------
(* What the socket has not taken: the last segments, the first of them     *)
(* perhaps in part.                                                        *)
Buffered(b, q) ==
  /\ b \in Seq(Segs) /\ q \in Seq(Segs) /\ Len(b) <= Len(q)
  /\ \A j \in 1..Len(b) :
       LET x == q[(Len(q) - Len(b)) + j]
       IN  /\ b[j].control = x.control /\ b[j].id = x.id
           /\ b[j].left <= x.left

LEMMA BufferedRest ==
  ASSUME NEW b, NEW q, Buffered(b, q)
  PROVE  Buffered(b, SubSeq(q, (Len(q) - Len(b)) + 1, Len(q)))
<1> DEFINE d == Len(q) - Len(b)
           r == SubSeq(q, d + 1, Len(q))
<1>1. b \in Seq(Segs) /\ q \in Seq(Segs) /\ d \in Nat /\ Len(b) \in Nat /\ Len(q) \in Nat
  BY DEF Buffered
<1>2. /\ r \in Seq(Segs) /\ Len(r) = Len(q) - d
      /\ \A j \in 1..Len(r) : r[j] = q[d + j]
  <2> HIDE DEF d
  <2> QED BY <1>1 DEF d
<1>3. Len(r) = Len(b)
  BY <1>1, <1>2
<1>4. \A j \in 1..Len(b) : /\ b[j].control = q[d + j].control
                           /\ b[j].id = q[d + j].id
                           /\ b[j].left <= q[d + j].left
  BY DEF Buffered
<1> HIDE DEF r, d
<1>5. ASSUME NEW j \in 1..Len(b) PROVE r[(Len(r) - Len(b)) + j] = q[d + j]
  <2>1. (Len(r) - Len(b)) + j = j
    BY <1>1, <1>3
  <2> QED BY <1>2, <1>3, <2>1
<1>6. Len(b) <= Len(r)
  BY <1>1, <1>3
<1>7. Buffered(b, r)
  BY <1>1, <1>2, <1>4, <1>5, <1>6 DEF Buffered
<1> QED BY <1>7 DEF r, d

LEMMA BufferedJoin ==
  ASSUME NEW b, NEW q, Buffered(b, q), NEW r \in Seq(Segs), NEW n \in 0..Len(r),
         n = 0 \/ b = <<>>
  PROVE  /\ Buffered(b \o SubSeq(r, n + 1, Len(r)), q \o r)
         /\ Len(b \o SubSeq(r, n + 1, Len(r))) = Len(b) + (Len(r) - n)
<1> DEFINE s == SubSeq(r, n + 1, Len(r))
           c == b \o s
           p == q \o r
<1>1. /\ b \in Seq(Segs) /\ q \in Seq(Segs) /\ Len(b) \in Nat /\ Len(q) \in Nat
      /\ Len(r) \in Nat /\ n \in Nat /\ n <= Len(r) /\ Len(b) <= Len(q)
  BY DEF Buffered
<1>2. /\ s \in Seq(Segs) /\ Len(s) = Len(r) - n
      /\ \A j \in 1..Len(s) : s[j] = r[n + j]
  BY <1>1
<1> HIDE DEF s
<1>3. /\ c \in Seq(Segs) /\ Len(c) = Len(b) + Len(s)
      /\ \A j \in 1..Len(b) : c[j] = b[j]
      /\ \A j \in 1..Len(s) : c[Len(b) + j] = s[j]
  <2>1. b \in Seq(Segs) /\ s \in Seq(Segs)
    BY <1>1, <1>2
  <2>2. c \in Seq(Segs) /\ Len(c) = Len(b) + Len(s)
    BY <2>1
  <2>3. \A j \in 1..Len(b) : c[j] = b[j]
    BY <2>1
  <2>4. \A j \in 1..Len(s) : c[Len(b) + j] = s[j]
    BY <2>1
  <2> QED BY <2>2, <2>3, <2>4
<1>4. /\ p \in Seq(Segs) /\ Len(p) = Len(q) + Len(r)
      /\ \A j \in 1..Len(q) : p[j] = q[j]
      /\ \A j \in 1..Len(r) : p[Len(q) + j] = r[j]
  BY <1>1
<1> HIDE DEF c, p
<1>5. ASSUME NEW j \in 1..Len(c)
      PROVE  LET x == p[(Len(p) - Len(c)) + j]
             IN  /\ c[j].control = x.control /\ c[j].id = x.id
                 /\ c[j].left <= x.left
  <2>1. CASE j <= Len(b)
    <3>1. n = 0 /\ j \in 1..Len(b)
      <4>1. Len(b) # 0
        BY <1>1, <2>1
      <4> QED BY <2>1, <4>1
    <3>2. /\ (Len(p) - Len(c)) + j = (Len(q) - Len(b)) + j
          /\ (Len(q) - Len(b)) + j \in 1..Len(q)
      BY <1>1, <1>2, <1>3, <1>4, <3>1
    <3>3. c[j] = b[j] /\ p[(Len(p) - Len(c)) + j] = q[(Len(q) - Len(b)) + j]
      BY <1>3, <1>4, <3>1, <3>2
    <3> QED BY <3>1, <3>3 DEF Buffered
  <2>2. CASE j > Len(b)
    <3>1. PICK i \in 1..Len(s) : j = Len(b) + i
      <4>1. j - Len(b) \in 1..Len(s) /\ j = Len(b) + (j - Len(b))
        BY <1>1, <1>2, <1>3, <2>2
      <4> QED BY <4>1
    <3>2. n + i \in 1..Len(r)
      BY <1>1, <1>2
    <3>3. (Len(p) - Len(c)) + j = Len(q) + (n + i)
      BY <1>1, <1>2, <1>3, <1>4, <3>1
    <3>4. c[j] = r[n + i] /\ p[(Len(p) - Len(c)) + j] = r[n + i]
      BY <1>2, <1>3, <1>4, <3>1, <3>2, <3>3
    <3>5. r[n + i].left \in Nat
      BY <3>2, SegmentSeqs
    <3> QED BY <3>4, <3>5
  <2> QED BY <1>1, <1>3, <2>1, <2>2
<1>6. Len(c) <= Len(p)
  BY <1>1, <1>2, <1>3, <1>4
<1>7. Buffered(c, p) /\ Len(c) = Len(b) + (Len(r) - n)
  BY <1>2, <1>3, <1>4, <1>5, <1>6 DEF Buffered
<1> QED BY <1>7 DEF c, p, s

(* The socket takes the rest of the first segment, or a byte of it.        *)
LEMMA BufferedTail ==
  ASSUME NEW b, NEW q, Buffered(b, q), b # <<>>
  PROVE  Buffered(Tail(b), q) /\ Len(Tail(b)) = Len(b) - 1
<1> DEFINE c == Tail(b)
<1>1. b \in Seq(Segs) /\ q \in Seq(Segs) /\ Len(b) \in Nat \ {0} /\ Len(q) \in Nat
      /\ Len(b) <= Len(q)
  BY EmptySeq DEF Buffered
<1>2. c \in Seq(Segs) /\ Len(c) = Len(b) - 1 /\ \A j \in 1..Len(c) : c[j] = b[j + 1]
  BY <1>1
<1> HIDE DEF c
<1>3. ASSUME NEW j \in 1..Len(c)
      PROVE  LET x == q[(Len(q) - Len(c)) + j]
             IN  /\ c[j].control = x.control /\ c[j].id = x.id
                 /\ c[j].left <= x.left
  <2>1. j + 1 \in 1..Len(b) /\ (Len(q) - Len(c)) + j = (Len(q) - Len(b)) + (j + 1)
    BY <1>1, <1>2
  <2> QED BY <1>2, <2>1 DEF Buffered
<1>4. Buffered(c, q) /\ Len(c) = Len(b) - 1
  BY <1>1, <1>2, <1>3 DEF Buffered
<1> QED BY <1>4 DEF c

LEMMA BufferedByte ==
  ASSUME NEW b, NEW q, Buffered(b, q), b # <<>>, b[1].left > 1
  PROVE  LET c == [b EXCEPT ![1].left = @ - 1]
         IN  Buffered(c, q) /\ Len(c) = Len(b)
<1> DEFINE c == [b EXCEPT ![1].left = @ - 1]
<1>1. b \in Seq(Segs) /\ q \in Seq(Segs) /\ Len(b) \in Nat \ {0} /\ Len(q) \in Nat
      /\ Len(b) <= Len(q)
  BY EmptySeq DEF Buffered
<1>2. 1 \in 1..Len(b) /\ b[1] \in Segs /\ b[1].left \in Nat
  <2>1. 1 \in 1..Len(b)
    BY <1>1
  <2> QED BY <1>1, <2>1, SegmentSeqs
<1>3. /\ c[1] = [b[1] EXCEPT !.left = @ - 1]
      /\ \A j \in 1..Len(b) : j # 1 => c[j] = b[j]
  BY <1>1, <1>2
<1>4. /\ c[1] \in Segs /\ c[1].left = b[1].left - 1
      /\ c[1].id = b[1].id /\ c[1].control = b[1].control
  <2> HIDE DEF c
  <2> QED BY <1>2, <1>3 DEF Segs
<1>5. c \in Seq(Segs) /\ Len(c) = Len(b)
  <2>1. DOMAIN c = 1..Len(b)
    BY <1>1
  <2>2. \A j \in 1..Len(b) : c[j] \in Segs
    BY <1>1, <1>3, <1>4
  <2>3. c = [j \in 1..Len(b) |-> c[j]]
    BY <2>1
  <2> HIDE DEF c
  <2>4. c \in [1..Len(b) -> Segs]
    BY <2>2, <2>3
  <2> QED BY <1>1, <2>4
<1> HIDE DEF c
<1>6. ASSUME NEW j \in 1..Len(b)
      PROVE  LET x == q[(Len(q) - Len(b)) + j]
             IN  /\ c[j].control = x.control /\ c[j].id = x.id
                 /\ c[j].left <= x.left
  <2>1. (Len(q) - Len(b)) + j \in 1..Len(q)
    BY <1>1
  <2>2. q[(Len(q) - Len(b)) + j].left \in Nat
    BY <1>1, <2>1, SegmentSeqs
  <2>3. /\ b[j].control = q[(Len(q) - Len(b)) + j].control
        /\ b[j].id = q[(Len(q) - Len(b)) + j].id
        /\ b[j].left <= q[(Len(q) - Len(b)) + j].left
    BY DEF Buffered
  <2>4. CASE j = 1
    <3>1. /\ c[j].control = b[j].control /\ c[j].id = b[j].id
          /\ c[j].left = b[j].left - 1 /\ b[j].left \in Nat
      BY <1>2, <1>4, <2>4
    <3> QED BY <2>2, <2>3, <3>1
  <2>5. CASE j # 1
    BY <1>3, <2>3, <2>5
  <2> QED BY <2>4, <2>5
<1>7. Buffered(c, q) /\ Len(c) = Len(b)
  BY <1>1, <1>5, <1>6 DEF Buffered
<1> QED BY <1>7 DEF c

(* The bytes that are buffered are bytes of the segments.                  *)
LEMMA BufferedBound ==
  ASSUME NEW b, NEW q, Buffered(b, q)
  PROVE  LeftTo(b, Len(b)) <= LeftTo(q, Len(q))
<1> DEFINE d == Len(q) - Len(b)
           g == [j \in 1..Len(b) |-> LeftOf(q)[d + j]]
<1>1. /\ b \in Seq(Segs) /\ q \in Seq(Segs) /\ d \in Nat /\ Len(b) \in Nat
      /\ Len(q) \in Nat /\ Len(q) = d + Len(b)
  BY DEF Buffered
<1>2. \A j \in 1..Len(b) : g[j] = LeftOf(q)[d + j]
  OBVIOUS
<1> HIDE DEF g
<1>3. \A j \in 1..Len(q) : LeftOf(q)[j] \in Nat /\ LeftOf(q)[j] = q[j].left
  BY <1>1, SegmentSeqs
<1>4. Stretch(LeftOf(q), g, d, Len(b), Len(q))
  <2> HIDE DEF d
  <2> QED BY <1>1, <1>2, <1>3 DEF Stretch
<1>5. ASSUME NEW j \in 1..Len(b)
      PROVE  /\ LeftOf(b)[j] \in Nat /\ g[j] \in Nat /\ LeftOf(b)[j] <= g[j]
  <2>1. d + j \in 1..Len(q)
    BY <1>1
  <2>2. LeftOf(b)[j] = b[j].left /\ b[j].left \in Nat
    BY <1>1, SegmentSeqs
  <2>3. g[j] = q[d + j].left /\ g[j] \in Nat
    BY <1>2, <1>3, <2>1
  <2>4. b[j].left <= q[d + j].left
    BY DEF Buffered
  <2> QED BY <2>2, <2>3, <2>4
<1>6. Upto(LeftOf(b), Len(b)) <= Upto(g, Len(b))
  BY <1>1, <1>5, UptoMonotone
<1>7. /\ Upto(LeftOf(q), Len(q)) = Upto(LeftOf(q), d) + Upto(g, Len(b))
      /\ Upto(LeftOf(q), d) \in Nat /\ Upto(g, Len(b)) \in Nat
      /\ Upto(LeftOf(q), Len(q)) \in Nat
  <2> HIDE DEF d
  <2> QED BY <1>4, UptoShift
<1>8. Upto(LeftOf(b), Len(b)) \in Nat
  BY <1>1, ItemsBound DEF LeftTo
<1> HIDE DEF d
<1> QED BY <1>6, <1>7, <1>8 DEF LeftTo

-----------------------------------------------------------------------------
(* The ledger of the gnet engine, as a relation of what it is about; a the *)
(* accepted sizes, w the positions the stream has taken.                   *)
Charged(pend, bytes, a) ==
  /\ a \in Seq(Nat) /\ pend \in Nat /\ bytes \in Nat
  /\ pend <= Len(a) /\ pend <= Limits.subs /\ bytes <= Limits.subBytes
  /\ bytes = Upto(a, Len(a)) - Upto(a, Len(a) - pend)

Ledger(segs, buf, ctl, pend, a, w) ==
  LET rel == Len(a) - pend
  IN  /\ Booked(segs, a, rel) /\ Buffered(buf, segs)
      /\ ctl = Len(segs) - ItemsTo(segs, Len(segs))
      /\ ctl * PongWire <= MaxControlBytes
      /\ Len(w) = rel + ItemsTo(segs, Len(segs) - Len(buf))

(* Sums over the accepted sizes.                                           *)
LEMMA AcceptedSums ==
  ASSUME NEW a \in Seq(Nat), NEW m \in Nat, NEW n \in Nat, m <= n, n <= Len(a)
  PROVE  Upto(a, m) \in Nat /\ Upto(a, n) \in Nat /\ Upto(a, m) <= Upto(a, n)
<1>1. \A i \in 1..n : a[i] \in Nat
  OBVIOUS
<1> QED BY <1>1, UptoLess

LEMMA MaximumControl ==
  /\ MaxControlBytes \in Nat /\ PongWire <= MaxControlBytes
  /\ MaxOutbound = Limits.subBytes + Limits.subs * Overhead + MaxControlBytes
<1>1. PongWire \in Nat /\ Limits.evBytes \in Nat
  BY LimitsAssumption
<1>2. \E x \in {PongWire, Limits.evBytes} : \A y \in {PongWire, Limits.evBytes} : x >= y
  <2>1. CASE PongWire >= Limits.evBytes
    BY <1>1, <2>1
  <2>2. CASE Limits.evBytes >= PongWire
    BY <1>1, <2>2
  <2> QED BY <1>1, <2>1, <2>2
<1>3. /\ MaxControlBytes \in {PongWire, Limits.evBytes}
      /\ \A y \in {PongWire, Limits.evBytes} : MaxControlBytes >= y
  BY <1>2 DEF MaxControlBytes, Max
<1> QED BY <1>1, <1>3 DEF MaxOutbound

(* The derived ceiling covers whatever the ledger allows.                  *)
LEMMA CeilingCovers ==
  ASSUME NEW segs, NEW buf, NEW ctl, NEW pend, NEW bytes, NEW a, NEW w,
         Charged(pend, bytes, a), Ledger(segs, buf, ctl, pend, a, w)
  PROVE  ~(SumOf([i \in DOMAIN buf |-> buf[i].left]) > MaxOutbound)
<1> DEFINE rel == Len(a) - pend
           n == Len(segs)
           m == ItemsTo(segs, n)
<1>1. Booked(segs, a, rel) /\ Buffered(buf, segs) /\ ctl = n - m
      /\ ctl * PongWire <= MaxControlBytes
  BY DEF Ledger
<1>2. /\ segs \in Seq(Segs) /\ buf \in Seq(Segs) /\ n \in Nat /\ a \in Seq(Nat)
      /\ rel \in Nat /\ Len(a) \in Nat /\ rel + m <= Len(a)
  BY <1>1 DEF Booked, Buffered
<1>3. m \in Nat /\ m <= n
  BY <1>2, ItemsBound
<1>4. /\ SizesTo(segs, n) = Upto(a, rel + m) - Upto(a, rel)
      /\ LeftTo(segs, n) = SizesTo(segs, n) + Overhead * m + PongWire * (n - m)
      /\ Upto(a, rel + m) \in Nat /\ Upto(a, rel) \in Nat
  BY <1>1, <1>2, BookedSums
<1>5. SumOf([i \in DOMAIN buf |-> buf[i].left]) = LeftTo(buf, Len(buf))
  BY <1>2, SegmentSums
<1>6. LeftTo(buf, Len(buf)) <= LeftTo(segs, n)
  BY <1>1, BufferedBound
<1>7. Upto(a, rel + m) <= Upto(a, Len(a)) /\ Upto(a, Len(a)) \in Nat
  BY <1>2, <1>3, AcceptedSums
<1>8. pend <= Limits.subs /\ pend \in Nat /\ bytes <= Limits.subBytes /\ bytes \in Nat
      /\ bytes = Upto(a, Len(a)) - Upto(a, rel)
  BY DEF Charged
<1>9. m <= Limits.subs /\ Limits.subs \in Nat /\ Limits.subBytes \in Nat
      /\ Overhead \in Nat /\ PongWire \in Nat
  <2>1. Limits.subs \in Nat /\ Limits.subBytes \in Nat /\ Overhead \in Nat
        /\ PongWire \in Nat
    BY LimitsAssumption
  <2>2. m <= pend
    BY <1>2, <1>3, <1>8
  <2> QED BY <1>3, <1>8, <2>1, <2>2
<1>10. SizesTo(segs, n) <= Limits.subBytes /\ SizesTo(segs, n) \in Nat
  <2>1. SizesTo(segs, n) \in Nat
    BY <1>2, ItemsBound
  <2> HIDE DEF rel, m, n
  <2> QED BY <1>4, <1>7, <1>8, <1>9, <2>1
<1>11. LeftTo(segs, n) \in Nat /\ LeftTo(buf, Len(buf)) \in Nat
  <2>1. Len(buf) \in Nat
    BY <1>2
  <2> QED BY <1>2, <2>1, ItemsBound
<1> HIDE DEF rel, m, n
<1>12. Overhead * m <= Limits.subs * Overhead /\ Overhead * m \in Nat
       /\ Limits.subs * Overhead \in Nat
  BY <1>3, <1>9
<1>13. PongWire * (n - m) <= MaxControlBytes /\ PongWire * (n - m) \in Nat
  BY <1>1, <1>2, <1>3, <1>9
<1>14. LeftTo(segs, n) <= Limits.subBytes + Limits.subs * Overhead + MaxControlBytes
  <2> DEFINE x == Overhead * m
             y == PongWire * (n - m)
             z == Limits.subs * Overhead
  <2>1. x <= z /\ x \in Nat /\ z \in Nat /\ y <= MaxControlBytes /\ y \in Nat
        /\ LeftTo(segs, n) = SizesTo(segs, n) + x + y
    BY <1>4, <1>12, <1>13
  <2>2. MaxControlBytes \in Nat
    BY MaximumControl
  <2> HIDE DEF x, y, z
  <2>3. LeftTo(segs, n) <= Limits.subBytes + z + MaxControlBytes
    BY <1>9, <1>10, <2>1, <2>2
  <2> QED BY <2>3 DEF z
<1>15. Limits.subBytes + Limits.subs * Overhead + MaxControlBytes \in Nat
  BY <1>9, <1>12, MaximumControl
<1>16. LeftTo(segs, n) <= MaxOutbound /\ MaxOutbound \in Nat
  BY <1>14, <1>15, MaximumControl
<1> QED BY <1>5, <1>6, <1>11, <1>16

(* The socket has taken all of the first segments: their charge goes.      *)
Taken(segs, buf) == Len(segs) - Len(buf)
Gone(segs, buf) == SubSeq(segs, 1, Taken(segs, buf))
Rest(segs, buf) == SubSeq(segs, Taken(segs, buf) + 1, Len(segs))

LEMMA LedgerReleases ==
  ASSUME NEW segs, NEW buf, NEW ctl, NEW pend, NEW bytes, NEW a, NEW w,
         Charged(pend, bytes, a), Ledger(segs, buf, ctl, pend, a, w)
  PROVE  LET n == Taken(segs, buf)
             g == Gone(segs, buf)
             r == Rest(segs, buf)
         IN  /\ n \in Nat /\ r \in Seq(Segs)
             /\ Items(g) \in Nat /\ Items(g) <= pend /\ SubBytes(g) \in Nat
             /\ Items(g) = 0 => SubBytes(g) = 0
             /\ ItemsTo(segs, Len(segs)) = Items(g) + ItemsTo(r, Len(r))
             /\ ItemsTo(r, Len(r)) \in Nat
             /\ ctl - (n - Items(g)) \in Nat
             /\ Charged(pend - Items(g), bytes - SubBytes(g), a)
             /\ Ledger(r, buf, ctl - (n - Items(g)), pend - Items(g), a, w)
<1> DEFINE rel == Len(a) - pend
           n == Taken(segs, buf)
           g == Gone(segs, buf)
           r == Rest(segs, buf)
           m == ItemsTo(segs, n)
           t == ItemsTo(segs, Len(segs))
<1>1. /\ Booked(segs, a, rel) /\ Buffered(buf, segs) /\ ctl = Len(segs) - t
      /\ ctl * PongWire <= MaxControlBytes
      /\ Len(w) = rel + m
  BY DEF Ledger, Taken
<1>2. /\ segs \in Seq(Segs) /\ buf \in Seq(Segs) /\ Len(segs) \in Nat
      /\ a \in Seq(Nat) /\ rel \in Nat /\ Len(a) \in Nat /\ rel + t <= Len(a)
      /\ Len(buf) \in Nat /\ n \in Nat /\ n <= Len(segs)
      /\ Len(segs) - n = Len(buf)
  BY <1>1 DEF Booked, Buffered, Taken
<1>3. m \in Nat /\ m <= n /\ t \in Nat /\ t <= Len(segs) /\ m <= t
  BY <1>2, ItemsBound, ItemsLess
<1>4. g \in Seq(Segs) /\ Len(g) = n /\ \A i \in 1..n : g[i] = segs[i]
  <2> HIDE DEF n
  <2> QED BY <1>2 DEF Gone, n
<1>5. Items(g) = m
  <2>1. Part(segs, g, 0, n)
    <3> HIDE DEF n, g
    <3> QED BY <1>2, <1>4 DEF Part
  <2>2. ItemsTo(segs, n) = ItemsTo(g, n)
    BY <2>1, ItemsSame
  <2>3. Items(g) = ItemsTo(g, Len(g))
    BY <1>4, SegmentSums
  <2> QED BY <1>4, <2>2, <2>3
<1>6. SubBytes(g) = SizesTo(segs, n) /\ SubBytes(g) \in Nat
  <2>1. SubBytes(g) = SizesTo(g, n)
    BY <1>4, SegmentSums
  <2> HIDE DEF n, g
  <2>2. ASSUME NEW i \in 1..n
        PROVE  SizeOf(segs)[i] \in Nat /\ SizeOf(g)[i] = SizeOf(segs)[i]
    <3>1. i \in 1..Len(segs) /\ i \in 1..Len(g)
      BY <1>2, <1>4
    <3>2. SizeOf(segs)[i] = segs[i].size /\ segs[i].size \in Nat
      BY <1>2, <3>1, SegmentSeqs
    <3>3. SizeOf(g)[i] = g[i].size
      BY <1>4, <3>1, SegmentSeqs
    <3> QED BY <1>4, <3>2, <3>3
  <2>3. Upto(SizeOf(segs), n) = Upto(SizeOf(g), n)
    BY <1>2, <2>2, UptoSame
  <2>4. SizesTo(segs, n) \in Nat
    BY <1>2, ItemsBound
  <2> QED BY <2>1, <2>3, <2>4 DEF SizesTo
<1>7. SubBytes(g) = Upto(a, rel + m) - Upto(a, rel)
  <2> HIDE DEF rel, n
  <2> QED BY <1>1, <1>2, <1>6, BookedSums
<1>8. /\ Booked(r, a, rel + m) /\ Len(r) = Len(segs) - n
      /\ \A j \in 0..Len(r) : ItemsTo(segs, n + j) = m + ItemsTo(r, j)
  <2> HIDE DEF rel, n
  <2> QED BY <1>1, <1>2, BookedRest DEF Rest, n
<1>9. Buffered(buf, r) /\ Len(r) = Len(buf)
  BY <1>1, <1>2, <1>8, BufferedRest DEF Rest, Taken
<1>10. r \in Seq(Segs) /\ t = m + ItemsTo(r, Len(r)) /\ ItemsTo(r, Len(r)) \in Nat
       /\ ItemsTo(r, Len(r)) <= Len(r) /\ Len(r) \in Nat
  <2>1. r \in Seq(Segs) /\ Len(r) \in Nat
    BY <1>2, <1>9 DEF Buffered
  <2>2. n + Len(r) = Len(segs) /\ Len(r) \in 0..Len(r)
    <3> HIDE DEF n, r
    <3> QED BY <1>2, <1>8, <2>1
  <2>3. ItemsTo(r, Len(r)) \in Nat /\ ItemsTo(r, Len(r)) <= Len(r)
    BY <2>1, ItemsBound
  <2> QED BY <1>8, <2>1, <2>2, <2>3
<1>11. pend \in Nat /\ pend <= Len(a) /\ bytes \in Nat /\ pend <= Limits.subs
       /\ bytes <= Limits.subBytes /\ bytes = Upto(a, Len(a)) - Upto(a, rel)
       /\ Limits.subs \in Nat /\ Limits.subBytes \in Nat
  BY LimitsAssumption DEF Charged
<1> HIDE DEF g, r, t, m, n
<1>12. m <= pend /\ rel + m = Len(a) - (pend - m) /\ pend - m \in Nat
  BY <1>2, <1>3, <1>11
<1>13. /\ Upto(a, rel) \in Nat /\ Upto(a, rel + m) \in Nat /\ Upto(a, Len(a)) \in Nat
       /\ Upto(a, rel + m) <= Upto(a, Len(a))
  <2>1. rel + m \in Nat /\ rel + m <= Len(a) /\ rel <= rel + m
    BY <1>2, <1>3
  <2> HIDE DEF rel
  <2> QED BY <1>2, <2>1, AcceptedSums
<1>14. Charged(pend - m, bytes - SubBytes(g), a)
  <2>1. bytes - SubBytes(g) = Upto(a, Len(a)) - Upto(a, Len(a) - (pend - m))
    <3>1. Upto(a, Len(a) - (pend - m)) = Upto(a, rel + m)
      BY <1>12
    <3> HIDE DEF rel
    <3> QED BY <1>7, <1>11, <1>13, <3>1
  <2>2. bytes - SubBytes(g) \in Nat /\ bytes - SubBytes(g) <= Limits.subBytes
    <3> HIDE DEF rel
    <3> QED BY <1>6, <1>7, <1>11, <1>13
  <2> QED BY <1>2, <1>3, <1>11, <1>12, <2>1, <2>2 DEF Charged
<1>15. m = 0 => SubBytes(g) = 0
  <2>1. ASSUME m = 0 PROVE SubBytes(g) = 0
    <3>1. rel + m = rel
      BY <1>2, <2>1
    <3> QED BY <1>7, <1>13, <3>1
  <2> QED BY <2>1
<1>16. ctl - (n - m) = Len(r) - ItemsTo(r, Len(r)) /\ ctl - (n - m) \in Nat
       /\ ctl - (n - m) <= ctl /\ ctl \in Nat
  <2>1. ctl = Len(segs) - t /\ t = m + ItemsTo(r, Len(r)) /\ Len(r) = Len(segs) - n
    BY <1>1, <1>8, <1>10
  <2>2. /\ ItemsTo(r, Len(r)) \in Nat /\ ItemsTo(r, Len(r)) <= Len(r)
        /\ Len(r) \in Nat /\ Len(segs) \in Nat /\ n \in Nat /\ m \in Nat /\ m <= n
    BY <1>2, <1>3, <1>10
  <2> QED BY <2>1, <2>2
<1>17. (ctl - (n - m)) * PongWire <= MaxControlBytes
  <2>1. \A x, y \in Nat : x <= y => x * PongWire <= y * PongWire
                                    /\ x * PongWire \in Nat /\ y * PongWire \in Nat
    BY LimitsAssumption
  <2> QED BY <1>1, <1>16, <2>1, MaximumControl
<1>18. Len(w) = (rel + m) + ItemsTo(r, Len(r) - Len(buf))
  <2>1. Len(r) - Len(buf) = 0
    BY <1>2, <1>9
  <2> QED BY <1>1, <1>2, <1>3, <2>1, SegmentZero
<1>19. Ledger(r, buf, ctl - (n - m), pend - m, a, w)
  <2> HIDE DEF rel
  <2> QED BY <1>8, <1>9, <1>12, <1>16, <1>17, <1>18 DEF Ledger
<1> QED BY <1>2, <1>3, <1>5, <1>6, <1>10, <1>12, <1>14, <1>15, <1>16, <1>19
        DEF g, r, t, m, n

(* A write: its items follow the segments, and the socket takes the first  *)
(* n of them when nothing was buffered.                                    *)
WriteFits(segs, buf, ctl, pend, a, w, v, r, n) ==
  /\ Ledger(segs, buf, ctl, pend, a, w) /\ pend \in Nat /\ pend <= Len(a)
  /\ Booked(r, a, (Len(a) - pend) + ItemsTo(segs, Len(segs)))
  /\ n \in 0..Len(r) /\ (n = 0 \/ buf = <<>>)
  /\ ((ctl + Len(r)) - Items(r)) * PongWire <= MaxControlBytes
  /\ Len(v) = Len(w) + ItemsTo(r, n)

LEMMA LedgerWrites ==
  ASSUME NEW segs, NEW buf, NEW ctl, NEW pend, NEW a, NEW w, NEW v, NEW r, NEW n,
         WriteFits(segs, buf, ctl, pend, a, w, v, r, n)
  PROVE  /\ Ledger(segs \o r, buf \o SubSeq(r, n + 1, Len(r)),
                   (ctl + Len(r)) - Items(r), pend, a, v)
         /\ ItemsTo(segs \o r, Len(segs \o r)) = ItemsTo(segs, Len(segs)) + Items(r)
         /\ (ctl + Len(r)) - Items(r) \in Nat
         /\ Items(r) = ItemsTo(r, Len(r))
<1> USE DEF WriteFits
<1> DEFINE rel == Len(a) - pend
           t == ItemsTo(segs, Len(segs))
           s == segs \o r
           b == buf \o SubSeq(r, n + 1, Len(r))
           i == ItemsTo(r, Len(r))
<1>1. /\ Booked(segs, a, rel) /\ Buffered(buf, segs) /\ ctl = Len(segs) - t
      /\ Len(w) = rel + ItemsTo(segs, Len(segs) - Len(buf))
  BY DEF Ledger
<1>2. /\ segs \in Seq(Segs) /\ Len(segs) \in Nat /\ rel \in Nat /\ buf \in Seq(Segs)
      /\ Len(buf) \in Nat /\ Len(buf) <= Len(segs) /\ r \in Seq(Segs) /\ Len(r) \in Nat
      /\ n \in Nat /\ n <= Len(r)
  BY <1>1 DEF Booked, Buffered
<1>3. Items(r) = i /\ i \in Nat /\ i <= Len(r) /\ t \in Nat /\ t <= Len(segs)
  <2>1. Items(r) = i
    BY <1>2, SegmentSums
  <2>2. ASSUME NEW q \in Seq(Segs) PROVE ItemsTo(q, Len(q)) \in 0..Len(q)
    <3>1. Len(q) \in Nat /\ Len(q) <= Len(q)
      OBVIOUS
    <3> QED BY <3>1, ItemsBound
  <2>3. ItemsTo(r, Len(r)) \in 0..Len(r) /\ ItemsTo(segs, Len(segs)) \in 0..Len(segs)
    BY <1>2, <2>2
  <2> QED BY <1>2, <2>1, <2>3
<1>4. /\ Booked(s, a, rel) /\ Len(s) = Len(segs) + Len(r)
      /\ \A j \in 0..Len(segs) : ItemsTo(s, j) = ItemsTo(segs, j)
      /\ \A j \in 0..Len(r) : ItemsTo(s, Len(segs) + j) = t + ItemsTo(r, j)
  <2> HIDE DEF rel
  <2> QED BY <1>1, BookedJoin DEF rel
<1>5. Buffered(b, s) /\ Len(b) = Len(buf) + (Len(r) - n)
  BY <1>1, <1>2, BufferedJoin
<1> HIDE DEF s, b, rel, t, i
<1>6. ItemsTo(s, Len(s)) = t + i
  BY <1>2, <1>4 DEF i
<1>7. (ctl + Len(r)) - i = Len(s) - ItemsTo(s, Len(s)) /\ (ctl + Len(r)) - i \in Nat
  <2>1. ctl = Len(segs) - t /\ Len(s) = Len(segs) + Len(r)
    BY <1>1, <1>4
  <2> QED BY <1>2, <1>3, <1>6, <2>1
<1>8. Len(v) = rel + ItemsTo(s, Len(s) - Len(b))
  <2> DEFINE d == Len(segs) - Len(buf)
  <2>1. Len(s) - Len(b) = d + n /\ d \in 0..Len(segs) /\ d \in Nat
    <3>1. Len(s) = Len(segs) + Len(r) /\ Len(b) = Len(buf) + (Len(r) - n)
      BY <1>4, <1>5
    <3> QED BY <1>2, <3>1
  <2>2. ItemsTo(segs, d) \in Nat /\ ItemsTo(r, n) \in Nat
    <3> HIDE DEF d
    <3>1. d <= Len(segs)
      BY <2>1
    <3>2. ItemsTo(segs, d) \in 0..d
      BY <1>2, <2>1, <3>1, ItemsBound
    <3>3. ItemsTo(r, n) \in 0..n
      BY <1>2, ItemsBound
    <3> QED BY <3>2, <3>3
  <2>3. Len(w) = rel + ItemsTo(segs, d)
    BY <1>1
  <2> HIDE DEF d
  <2>4. CASE n = 0
    <3>1. ItemsTo(s, d + n) = ItemsTo(segs, d) /\ ItemsTo(r, n) = 0
      <4>1. d + n = d
        BY <2>1, <2>4
      <4> QED BY <1>4, <2>1, <2>4, <4>1, SegmentZero
    <3> QED BY <1>2, <2>1, <2>2, <2>3, <3>1
  <2>5. CASE n # 0
    <3>1. d = Len(segs)
      <4>1. Len(buf) = 0
        BY <2>5
      <4> QED BY <1>2, <4>1 DEF d
    <3>2. ItemsTo(s, d + n) = ItemsTo(segs, d) + ItemsTo(r, n)
      BY <1>2, <1>4, <3>1 DEF t
    <3>3. Len(v) = rel + (ItemsTo(segs, d) + ItemsTo(r, n))
      BY <1>2, <2>2, <2>3
    <3> QED BY <2>1, <3>2, <3>3
  <2> QED BY <2>4, <2>5
<1>9. ((ctl + Len(r)) - i) * PongWire <= MaxControlBytes
  BY <1>3
<1>10. Ledger(s, b, (ctl + Len(r)) - i, pend, a, v)
  BY <1>4, <1>5, <1>7, <1>8, <1>9 DEF Ledger, rel
<1> QED BY <1>3, <1>6, <1>7, <1>10 DEF s, b, t, i

(* The socket takes the rest of an item: a submission it takes is the next *)
(* in the order of acceptance.                                             *)
LEMMA LedgerFlushes ==
  ASSUME NEW segs, NEW buf, NEW ctl, NEW pend \in Nat, NEW a, NEW w, NEW v,
         Ledger(segs, buf, ctl, pend, a, w), pend <= Len(a), buf # <<>>,
         Len(v) = Len(w) + (IF buf[1].control THEN 0 ELSE 1)
  PROVE  /\ Ledger(segs, Tail(buf), ctl, pend, a, v)
         /\ ~buf[1].control => buf[1].id = Len(w) + 1 /\ Len(w) + 1 <= Len(a)
<1> DEFINE rel == Len(a) - pend
           d == Len(segs) - Len(buf)
           b == Tail(buf)
           x == segs[d + 1]
<1>1. /\ Booked(segs, a, rel) /\ Buffered(buf, segs)
      /\ ctl = Len(segs) - ItemsTo(segs, Len(segs))
      /\ ctl * PongWire <= MaxControlBytes
      /\ Len(w) = rel + ItemsTo(segs, d)
  BY DEF Ledger
<1>2. /\ segs \in Seq(Segs) /\ Len(segs) \in Nat /\ rel \in Nat /\ buf \in Seq(Segs)
      /\ Len(buf) \in Nat \ {0} /\ Len(buf) <= Len(segs)
      /\ rel + ItemsTo(segs, Len(segs)) <= Len(a) /\ Len(a) \in Nat
  BY <1>1, EmptySeq DEF Booked, Buffered
<1>3. Buffered(b, segs) /\ Len(b) = Len(buf) - 1
  BY <1>1, BufferedTail
<1> HIDE DEF b
<1>4. d \in Nat /\ d + 1 <= Len(segs) /\ Len(segs) - Len(b) = d + 1 /\ d + 1 \in 1..Len(segs)
  BY <1>2, <1>3
<1>5. buf[1].control = x.control /\ buf[1].id = x.id
  <2>1. 1 \in 1..Len(buf)
    BY <1>2
  <2> QED BY <1>1, <2>1 DEF Buffered
<1> HIDE DEF d, rel
<1>6. ItemsTo(segs, d + 1) = ItemsTo(segs, d) + (IF x.control THEN 0 ELSE 1)
      /\ ItemsTo(segs, d) \in Nat
  BY <1>2, <1>4, SegmentStep
<1>7. Len(v) = rel + ItemsTo(segs, Len(segs) - Len(b))
  <2>1. (IF x.control THEN 0 ELSE 1) \in Nat
    OBVIOUS
  <2> HIDE DEF x
  <2> QED BY <1>1, <1>2, <1>4, <1>5, <1>6, <2>1
<1>8. Ledger(segs, b, ctl, pend, a, v)
  BY <1>1, <1>3, <1>7 DEF Ledger, rel
<1>9. ASSUME ~buf[1].control
      PROVE  buf[1].id = Len(w) + 1 /\ Len(w) + 1 <= Len(a)
  <2>1. ~x.control /\ ItemsTo(segs, d + 1) = ItemsTo(segs, d) + 1
    BY <1>5, <1>6, <1>9
  <2>2. x.id = rel + ItemsTo(segs, d + 1)
    BY <1>1, <1>4, <2>1 DEF Booked
  <2>3. ItemsTo(segs, d + 1) <= ItemsTo(segs, Len(segs))
    BY <1>2, <1>4, ItemsLess
  <2>4. ItemsTo(segs, Len(segs)) \in Nat
    BY <1>2, ItemsBound, SMTT(30)
  <2> HIDE DEF x
  <2> QED BY <1>1, <1>2, <1>5, <1>6, <2>1, <2>2, <2>3, <2>4
<1> QED BY <1>8, <1>9 DEF b

(* TrySubmit.                                                              *)
LEMMA ChargeAccepts ==
  ASSUME NEW pend, NEW bytes, NEW a, Charged(pend, bytes, a), NEW x \in Nat,
         pend < Limits.subs, x <= Limits.subBytes - bytes
  PROVE  /\ Charged(pend + 1, bytes + x, Append(a, x))
         /\ Len(Append(a, x)) - (pend + 1) = Len(a) - pend
<1> DEFINE b == Append(a, x)
           rel == Len(a) - pend
<1>1. /\ a \in Seq(Nat) /\ pend \in Nat /\ bytes \in Nat /\ pend <= Len(a)
      /\ bytes = Upto(a, Len(a)) - Upto(a, rel) /\ Len(a) \in Nat /\ rel \in Nat
      /\ rel <= Len(a)
  BY DEF Charged
<1>2. /\ b \in Seq(Nat) /\ Len(b) = Len(a) + 1 /\ b[Len(a) + 1] = x
      /\ \A i \in 1..Len(a) : b[i] = a[i] /\ a[i] \in Nat
  BY <1>1
<1> HIDE DEF b
<1>3. Upto(a, Len(a)) = Upto(b, Len(a)) /\ Upto(a, Len(a)) \in Nat
  <2>1. \A i \in 1..Len(a) : a[i] \in Nat /\ b[i] = a[i]
    BY <1>2
  <2> QED BY <1>1, <2>1, UptoSame, SMTT(30)
<1>4. Upto(a, rel) = Upto(b, rel) /\ Upto(a, rel) \in Nat
  <2>1. \A i \in 1..rel : a[i] \in Nat /\ b[i] = a[i]
    BY <1>1, <1>2, SMTT(30)
  <2> HIDE DEF rel
  <2> QED BY <1>1, <2>1, UptoSame
<1>5. Upto(b, Len(a) + 1) = Upto(b, Len(a)) + x
  <2>1. \A i \in 1..Len(a) + 1 : b[i] \in Nat
    BY <1>1, <1>2
  <2>2. Upto(b, Len(a) + 1) = Upto(b, Len(a)) + b[Len(a) + 1]
    BY <1>1, <2>1, UptoStep
  <2> QED BY <1>2, <2>2
<1>6. Len(b) - (pend + 1) = rel
  BY <1>1, <1>2
<1> HIDE DEF rel
<1>7. bytes + x = Upto(b, Len(b)) - Upto(b, Len(b) - (pend + 1))
  <2>1. Upto(b, Len(b)) = Upto(a, Len(a)) + x
    BY <1>2, <1>3, <1>5
  <2>2. Upto(b, Len(b) - (pend + 1)) = Upto(a, rel)
    BY <1>4, <1>6
  <2> QED BY <1>1, <1>3, <1>4, <2>1, <2>2
<1>8. /\ pend + 1 <= Limits.subs /\ bytes + x <= Limits.subBytes
      /\ pend + 1 <= Len(b) /\ pend + 1 \in Nat /\ bytes + x \in Nat
  <2>1. Limits.subs \in Nat /\ Limits.subBytes \in Nat
    BY LimitsAssumption
  <2> QED BY <1>1, <1>2, <2>1, SMTT(30)
<1> QED BY <1>2, <1>6, <1>7, <1>8 DEF Charged, b, rel

LEMMA LedgerAccepts ==
  ASSUME NEW segs, NEW buf, NEW ctl, NEW pend, NEW bytes, NEW a, NEW w,
         Charged(pend, bytes, a), NEW x \in Nat,
         pend < Limits.subs, x <= Limits.subBytes - bytes,
         Ledger(segs, buf, ctl, pend, a, w)
  PROVE  Ledger(segs, buf, ctl, pend + 1, Append(a, x), w)
<1>1. Len(Append(a, x)) - (pend + 1) = Len(a) - pend
  BY ChargeAccepts
<1>2. Booked(segs, Append(a, x), Len(a) - pend)
  BY BookedMore DEF Ledger
<1> QED BY <1>1, <1>2 DEF Ledger

(* What a drain writes, and a pong.                                        *)
Numbered(q, m, a) ==
  /\ q \in Seq(Subs) /\ m \in Nat /\ m + Len(q) <= Len(a)
  /\ \A i \in 1..Len(q) : q[i].id = m + i /\ q[i].size = a[m + i]

Encoded(q) == [i \in DOMAIN q |-> Segment(q[i].id, q[i].size, q[i].size + Overhead, FALSE)]

LEMMA BatchBooked ==
  ASSUME NEW q, NEW a \in Seq(Nat), NEW m, Numbered(q, m, a)
  PROVE  /\ Booked(Encoded(q), a, m) /\ Len(Encoded(q)) = Len(q)
         /\ \A i \in 0..Len(q) : ItemsTo(Encoded(q), i) = i
         /\ \A i \in 1..Len(q) : Encoded(q)[i].id = m + i
<1> DEFINE r == Encoded(q)
<1>1. /\ q \in Seq(Subs) /\ m \in Nat /\ Len(q) \in Nat /\ DOMAIN q = 1..Len(q)
      /\ m + Len(q) <= Len(a) /\ Len(a) \in Nat
  BY DEF Numbered
<1>2. ASSUME NEW i \in 1..Len(q)
      PROVE  /\ r[i] \in Segs /\ ~r[i].control /\ r[i].left = Wire(r[i])
             /\ r[i].id = m + i /\ r[i].size = a[m + i]
  <2>1. q[i] \in Subs /\ q[i].id \in Nat /\ q[i].size \in Nat
    <3>1. q[i] \in Subs
      BY <1>1
    <3> QED BY <3>1 DEF Subs
  <2>2. r[i] = [id |-> q[i].id, size |-> q[i].size, left |-> q[i].size + Overhead,
                control |-> FALSE]
    BY <1>1 DEF Encoded, Segment
  <2>3. q[i].size + Overhead \in Nat
    BY <2>1, LimitsAssumption
  <2>4. q[i].id = m + i /\ q[i].size = a[m + i]
    BY DEF Numbered
  <2> HIDE DEF r
  <2>5. r[i] \in Segs
    BY <2>1, <2>2, <2>3 DEF Segs
  <2> QED BY <2>2, <2>4, <2>5 DEF Wire
<1>3. r \in Seq(Segs) /\ Len(r) = Len(q)
  <2>1. r \in [1..Len(q) -> Segs]
    BY <1>1, <1>2 DEF Encoded
  <2> HIDE DEF r
  <2> QED BY <1>1, <2>1, FunctionIsSeq
<1> HIDE DEF r
<1> DEFINE G == {i \in Nat : i <= Len(q) => ItemsTo(r, i) = i}
<1>4. 0 \in G
  BY SegmentZero
<1>5. ASSUME NEW i \in Nat, i \in G PROVE i + 1 \in G
  <2> SUFFICES ASSUME i + 1 <= Len(q) PROVE ItemsTo(r, i + 1) = i + 1
    OBVIOUS
  <2>1. i + 1 \in 1..Len(q) /\ ItemsTo(r, i) = i
    BY <1>1, <1>5
  <2>2. ItemsTo(r, i + 1) = ItemsTo(r, i) + (IF r[i + 1].control THEN 0 ELSE 1)
    BY <1>3, SegmentStep
  <2> QED BY <1>2, <2>1, <2>2
<1> HIDE DEF G
<1>6. Nat \subseteq G
  BY <1>4, <1>5, SetInduction
<1>7. \A i \in 0..Len(q) : ItemsTo(r, i) = i
  BY <1>6 DEF G
<1>8. Booked(r, a, m)
  <2>1. ItemsTo(r, Len(r)) = Len(q)
    BY <1>1, <1>3, <1>7
  <2>2. \A i \in 1..Len(r) : i \in 1..Len(q) /\ ItemsTo(r, i) = i
    BY <1>1, <1>3, <1>7
  <2> QED BY <1>1, <1>2, <1>3, <2>1, <2>2 DEF Booked
<1> QED BY <1>2, <1>3, <1>7, <1>8 DEF r

LEMMA PongBooked ==
  ASSUME NEW a \in Seq(Nat), NEW m \in Nat, m <= Len(a)
  PROVE  /\ Booked(Pong, a, m) /\ Len(Pong) = 1 /\ Items(Pong) = 0
         /\ \A i \in 0..1 : ItemsTo(Pong, i) = 0
<1>1. PongWire \in Nat
  BY LimitsAssumption
<1>2. /\ Len(Pong) = 1 /\ Pong[1] = [id |-> 0, size |-> 0, left |-> PongWire, control |-> TRUE]
  BY DEF Pong, Segment
<1>3. Pong[1] \in Segs
  BY <1>1, <1>2 DEF Segs
<1>4. Pong \in Seq(Segs)
  <2>1. Segment(0, 0, PongWire, TRUE) \in Segs
    BY <1>1 DEF Segment, Segs
  <2>2. \A x \in Segs : <<x>> \in Seq(Segs)
    OBVIOUS
  <2> QED BY <2>1, <2>2 DEF Pong
<1>5. ItemsTo(Pong, 0) = 0
  BY SegmentZero
<1>6. ItemsTo(Pong, 0 + 1) = 0
  <2>1. ItemsTo(Pong, 0 + 1) = ItemsTo(Pong, 0) + (IF Pong[0 + 1].control THEN 0 ELSE 1)
    <3>1. 0 \in Nat /\ 0 + 1 <= Len(Pong)
      BY <1>2
    <3> QED BY <1>4, <3>1, SegmentStep
  <2>2. Pong[0 + 1].control
    BY <1>2
  <2> QED BY <1>5, <2>1, <2>2
<1>7. ItemsTo(Pong, 1) = 0 /\ Items(Pong) = 0
  <2>1. ItemsTo(Pong, 1) = 0
    BY <1>6
  <2>2. Items(Pong) = ItemsTo(Pong, Len(Pong))
    BY <1>4, SegmentSums
  <2> QED BY <1>2, <2>1, <2>2
<1>8. \A i \in 1..Len(Pong) : i = 1
  BY <1>2
<1>9. Booked(Pong, a, m)
  BY <1>2, <1>4, <1>7, <1>8 DEF Booked, Wire
<1> QED BY <1>2, <1>5, <1>7, <1>9

-----------------------------------------------------------------------------
(* The inductive invariant of the gnet engine.  K is the link, a the       *)
(* accepted sizes, w the positions the stream has taken.                   *)
GnetFields ==
  {"kind", "state", "err", "start", "done", "subs", "pend", "bytes", "evq",
   "charges", "evOpen", "sig", "in", "data", "starter", "closer", "initiated",
   "owner", "conn", "gconn", "boot", "tasks", "pc", "batch", "segs", "buf",
   "ctl", "drain", "poll", "closeScheduled", "stopping", "stopped", "stopper"}

GnetShape(K) ==
  /\ DOMAIN K = GnetFields /\ K.kind = "gnet"
  /\ K.state \in {"created", "boot", "ready", "closing", "closed"}
  /\ K.done \in BOOLEAN /\ K.owner \in BOOLEAN /\ K.sig \in BOOLEAN
  /\ K.initiated \in BOOLEAN /\ K.stopping \in BOOLEAN
  /\ K.boot \in 0..3 /\ K.pc \in {"idle", "write", "frames"}
  /\ K.subs \in Seq(Subs) /\ K.batch \in Seq(Subs)

(* A closed link has a start result and an error; what a link holds it     *)
(* holds while it is open.                                                 *)
Lives(K) ==
  /\ IF Claimed(K) THEN K.start # "none" ELSE K.err = "none"
  /\ K.err # "outbound"
  /\ K.done <=> K.state = "closed"
  /\ K.done => K.segs = <<>> /\ K.ctl = 0 /\ K.pend = 0 /\ K.bytes = 0
  /\ K.state = "ready" => K.boot = 3 /\ K.gconn = "open"
  /\ ~Claimed(K) /\ K.boot < 3 => K.start = "none"
  /\ ~Claimed(K) /\ K.boot = 3 => K.state = "ready"
  /\ K.boot < 3 => K.pend = 0 /\ K.segs = <<>> /\ K.state # "ready"

(* Start, enrollment and the event loop.                                   *)
Enrolls(K) ==
  /\ K.starter = "idle" => K.state = "created" \/ Claimed(K)
  /\ K.state = "created" => K.starter = "idle"
  /\ K.starter # "idle" => K.initiated
  /\ K.starter \in {"idle", "enroll", "enrolling"} => ~K.owner
  /\ K.starter = "enrolling" => ~K.done
  /\ K.starter = "enroll" /\ K.done => K.stopping
  /\ K.stopper # "idle" => K.stopping
  /\ ~K.owner => K.gconn = "none" /\ K.boot = 0 /\ K.buf = <<>>
  /\ K.gconn = "open" => K.owner /\ ~K.done
  /\ K.pc = "frames" \/ K.batch # <<>> => K.gconn = "open"
  /\ K.pc # "write" => K.batch = <<>>

GnetQueue(K, a) ==
  /\ K.pend = ItemsTo(K.segs, Len(K.segs)) + Len(K.batch) + Len(K.subs)
  /\ Numbered(K.subs, Len(a) - Len(K.subs), a)
  /\ Numbered(K.batch, (Len(a) - Len(K.subs)) - Len(K.batch), a)

InOrder(a, w) ==
  /\ a \in Seq(Nat) /\ w \in Seq(Nat) /\ Len(w) <= Len(a)
  /\ \A i \in 1..Len(w) : w[i] = i

GnetInv(K, a, w) ==
  /\ GnetShape(K) /\ Lives(K) /\ Enrolls(K)
  /\ Charged(K.pend, K.bytes, a) /\ InOrder(a, w)
  /\ ~Overflows(K)
  /\ ~K.done => Ledger(K.segs, K.buf, K.ctl, K.pend, a, w)
  /\ ~Claimed(K) => GnetQueue(K, a)

-----------------------------------------------------------------------------
(* What a step leaves alone: L is K but for the fields of S.               *)
Retains(K, L, S) == DOMAIN L = DOMAIN K /\ \A f \in DOMAIN K \ S : L[f] = K[f]

(* Fields the invariant does not depend on.                                *)
Quietly == {"tasks", "drain", "poll", "closeScheduled", "conn", "in", "data",
            "evq", "charges", "evOpen", "closer", "stopped"}

LEMMA KeepsMore ==
  ASSUME NEW K, NEW L, NEW M, NEW S, NEW T, NEW R, Retains(K, L, S), Retains(L, M, T),
         S \cup T \subseteq R
  PROVE  Retains(K, M, R)
BY DEF Retains

(* The fields of a gnet link that is kept.                                 *)
LEMMA QuietFields ==
  ASSUME NEW K, NEW L, DOMAIN K = GnetFields, Retains(K, L, Quietly \cup {"sig"})
  PROVE  /\ DOMAIN L = GnetFields /\ L.kind = K.kind /\ L.state = K.state
         /\ L.err = K.err /\ L.start = K.start /\ L.done = K.done
         /\ L.subs = K.subs /\ L.pend = K.pend /\ L.bytes = K.bytes
         /\ L.starter = K.starter /\ L.initiated = K.initiated
         /\ L.owner = K.owner /\ L.gconn = K.gconn /\ L.boot = K.boot
         /\ L.pc = K.pc /\ L.batch = K.batch /\ L.segs = K.segs
         /\ L.buf = K.buf /\ L.ctl = K.ctl
         /\ L.stopping = K.stopping /\ L.stopper = K.stopper
BY DEF Retains, Quietly, GnetFields

LEMMA QuietInv ==
  ASSUME NEW K, NEW L, NEW a, NEW w, GnetInv(K, a, w),
         Retains(K, L, Quietly \cup {"sig"}), L.sig \in BOOLEAN
  PROVE  GnetInv(L, a, w)
<1>1. DOMAIN K = GnetFields
  BY DEF GnetInv, GnetShape
<1>2. /\ DOMAIN L = GnetFields /\ L.kind = K.kind /\ L.state = K.state
      /\ L.err = K.err /\ L.start = K.start /\ L.done = K.done
      /\ L.subs = K.subs /\ L.pend = K.pend /\ L.bytes = K.bytes
      /\ L.starter = K.starter /\ L.initiated = K.initiated
      /\ L.owner = K.owner /\ L.gconn = K.gconn /\ L.boot = K.boot
      /\ L.pc = K.pc /\ L.batch = K.batch /\ L.segs = K.segs
      /\ L.buf = K.buf /\ L.ctl = K.ctl
      /\ L.stopping = K.stopping /\ L.stopper = K.stopper
  BY <1>1, QuietFields
<1>3. GnetShape(L)
  BY <1>2 DEF GnetInv, GnetShape
<1>4. Lives(L) /\ Enrolls(L)
  BY <1>2 DEF GnetInv, Lives, Enrolls, Claimed
<1>5. Charged(L.pend, L.bytes, a) /\ ~Overflows(L)
  BY <1>2 DEF GnetInv, Overflows, Outbound
<1>6. ~L.done => Ledger(L.segs, L.buf, L.ctl, L.pend, a, w)
  BY <1>2 DEF GnetInv
<1>7. ~Claimed(L) => GnetQueue(L, a)
  BY <1>2 DEF GnetInv, GnetQueue, Claimed
<1>8. InOrder(a, w)
  BY DEF GnetInv
<1> QED BY <1>3, <1>4, <1>5, <1>6, <1>7, <1>8 DEF GnetInv

(* Tasks and drains.                                                       *)
LEMMA ExecuteKeeps ==
  ASSUME NEW K, NEW task, DOMAIN K = GnetFields
  PROVE  Retains(K, Execute(K, task), {"tasks"})
BY DEF Retains, Execute, GnetFields

LEMMA NextDrainKeeps ==
  ASSUME NEW K, DOMAIN K = GnetFields
  PROVE  Retains(K, ScheduleNextDrain(K), {"tasks", "drain"})
         /\ Retains(K, GnetWake(K), {"tasks", "drain"})
<1> DEFINE L == [K EXCEPT !.drain = TRUE]
<1>1. Retains(K, L, {"drain"}) /\ DOMAIN L = GnetFields
  BY DEF Retains, GnetFields
<1>2. Retains(L, Execute(L, "drain"), {"tasks"})
  BY <1>1, ExecuteKeeps
<1>3. Retains(K, Execute(L, "drain"), {"tasks", "drain"})
  BY <1>1, <1>2, KeepsMore
<1>4. Retains(K, K, {"tasks", "drain"})
  BY DEF Retains
<1> QED BY <1>3, <1>4 DEF ScheduleNextDrain, GnetWake

-----------------------------------------------------------------------------
(* The steps of the contract, as relations of two states of a link.        *)
Unmoved(K, L) ==
  /\ L.state = K.state /\ L.start = K.start /\ L.err = K.err
  /\ L.pend = K.pend /\ L.bytes = K.bytes /\ L.sig = K.sig

Fails(K, L) == \/ L.start = K.start
               \/ K.start = "none" /\ L.start \notin {"none", "ok"}

Claims(K, L) ==
  /\ ~Claimed(K) /\ L.state = "closing" /\ L.err # "none" /\ Fails(K, L)
  /\ L.pend = K.pend /\ L.bytes = K.bytes /\ L.sig = K.sig

Closes(K, L) ==
  /\ K.state # "closed" /\ L.state = "closed"
  /\ IF Claimed(K) THEN L.err = K.err ELSE L.err # "none"
  /\ Fails(K, L) /\ L.start # "none"
  /\ L.pend = 0 /\ L.bytes = 0 /\ L.sig = K.sig

Progresses(K, L) ==
  /\ L.state = K.state /\ L.start = K.start /\ L.err = K.err
  /\ L.pend <= K.pend /\ (L.pend = K.pend => L.bytes = K.bytes)
  /\ L.sig = (K.sig \/ (L.pend < K.pend /\ K.state = "ready"))

(* The end of a gnet link.                                                 *)
LEMMA ClaimLaw ==
  ASSUME NEW K, NEW e, GnetShape(K)
  PROVE  LET L == ClaimTerminal(K, e)
         IN  /\ Retains(K, L, {"state", "err", "start", "poll"})
             /\ Claimed(L)
             /\ Claimed(K) => L = K
             /\ ~Claimed(K) =>
                  /\ L.state = "closing" /\ L.err = e
                  /\ L.start = IF K.start # "none" THEN K.start
                               ELSE IF e = "nil" THEN "closed" ELSE e
<1> DEFINE L == ClaimTerminal(K, e)
           M == [K EXCEPT !.state = "closing", !.err = e, !.poll = FALSE]
<1>1. CASE Claimed(K)
  BY <1>1 DEF ClaimTerminal, Retains
<1>2. CASE ~Claimed(K)
  <2>1. /\ Retains(K, M, {"state", "err", "poll"}) /\ DOMAIN M = GnetFields
        /\ M.state = "closing" /\ M.err = e /\ M.start = K.start
    BY DEF Retains, GnetShape, GnetFields
  <2>2. L = PublishStart(M, IF e = "nil" THEN "closed" ELSE e)
    BY <1>2 DEF ClaimTerminal
  <2> HIDE DEF L, M
  <2>3. CASE K.start # "none"
    <3>1. L = M
      BY <2>1, <2>2, <2>3 DEF PublishStart
    <3> QED BY <1>2, <2>1, <2>3, <3>1 DEF L, Retains, Claimed
  <2>4. CASE K.start = "none"
    <3>1. L = [M EXCEPT !.start = IF e = "nil" THEN "closed" ELSE e]
      BY <2>1, <2>2, <2>4 DEF PublishStart
    <3>2. /\ Retains(M, L, {"start"}) /\ L.state = "closing" /\ L.err = e
          /\ L.start = IF e = "nil" THEN "closed" ELSE e
      BY <2>1, <3>1 DEF Retains, GnetFields
    <3>3. Retains(K, L, {"state", "err", "start", "poll"})
      BY <2>1, <3>2, KeepsMore
    <3> QED BY <1>2, <2>4, <3>2, <3>3 DEF L, Claimed
  <2> QED BY <2>3, <2>4
<1> QED BY <1>1, <1>2

LEMMA NoElements == <<>> \in Seq(Subs) /\ <<>> \in Seq(Segs) /\ <<>> \in Seq(Nat)
BY EmptySeq

LEMMA FinalizeLaw ==
  ASSUME NEW K, GnetShape(K), ~K.done
  PROVE  LET L == FinalizeAfterStreamClose(K)
         IN  /\ Retains(K, L, {"state", "err", "start", "poll", "drain", "segs", "ctl",
                             "subs", "pend", "bytes", "charges", "evOpen", "done"})
             /\ L.state = "closed" /\ L.done = TRUE /\ L.subs = <<>>
             /\ L.pend = 0 /\ L.bytes = 0 /\ L.segs = <<>> /\ L.ctl = 0
             /\ Claimed(K) => L.err = K.err /\ L.start = K.start
             /\ ~Claimed(K) => /\ L.err = "closed"
                               /\ L.start = IF K.start # "none" THEN K.start ELSE "closed"
<1> DEFINE C == ClaimTerminal(K, "closed")
           M == [C EXCEPT !.poll = FALSE, !.drain = FALSE, !.segs = <<>>, !.ctl = 0]
           L == PublishClosed(M)
<1>1. FinalizeAfterStreamClose(K) = L
  BY DEF FinalizeAfterStreamClose
<1>2. /\ Retains(K, C, {"state", "err", "start", "poll"})
      /\ Claimed(K) => C = K
      /\ ~Claimed(K) => /\ C.state = "closing" /\ C.err = "closed"
                        /\ C.start = IF K.start # "none" THEN K.start
                                     ELSE IF "closed" = "nil" THEN "closed" ELSE "closed"
  BY ClaimLaw
<1>3. DOMAIN C = GnetFields
  BY <1>2 DEF Retains, GnetShape
<1> HIDE DEF C
<1>4. /\ Retains(C, M, {"poll", "drain", "segs", "ctl"}) /\ DOMAIN M = GnetFields
      /\ M.segs = <<>> /\ M.ctl = 0 /\ M.err = C.err /\ M.start = C.start
  BY <1>3 DEF Retains, GnetFields
<1> HIDE DEF M
<1>5. /\ Retains(M, L, {"subs", "pend", "bytes", "charges", "evOpen", "state", "done"})
      /\ L.segs = <<>> /\ L.ctl = 0 /\ L.err = C.err /\ L.start = C.start
      /\ L.state = "closed" /\ L.done = TRUE /\ L.subs = <<>>
      /\ L.pend = 0 /\ L.bytes = 0
  BY <1>4 DEF Retains, GnetFields, PublishClosed
<1> HIDE DEF L
<1>6. Retains(K, M, {"state", "err", "start", "poll", "drain", "segs", "ctl"})
  BY <1>2, <1>4, KeepsMore
<1>7. Retains(K, L, {"state", "err", "start", "poll", "drain", "segs", "ctl",
                   "subs", "pend", "bytes", "charges", "evOpen", "done"})
  BY <1>5, <1>6, KeepsMore
<1> QED BY <1>1, <1>2, <1>5, <1>7

LEMMA ClaimInv ==
  ASSUME NEW K, NEW e, NEW a, NEW w, GnetInv(K, a, w), e \notin {"none", "ok", "outbound"}
  PROVE  LET L == ClaimTerminal(K, e)
         IN  /\ GnetInv(L, a, w) /\ Claimed(L) /\ DOMAIN L = GnetFields
             /\ Claimed(K) => L = K
             /\ ~Claimed(K) => Claims(K, L)
             /\ Retains(K, L, {"state", "err", "start", "poll"})
<1> DEFINE L == ClaimTerminal(K, e)
<1>1. GnetShape(K)
  BY DEF GnetInv
<1>2. /\ Retains(K, L, {"state", "err", "start", "poll"})
      /\ Claimed(L)
      /\ Claimed(K) => L = K
      /\ ~Claimed(K) => /\ L.state = "closing" /\ L.err = e
                        /\ L.start = IF K.start # "none" THEN K.start
                                     ELSE IF e = "nil" THEN "closed" ELSE e
  BY <1>1, ClaimLaw
<1>3. DOMAIN L = GnetFields
  BY <1>1, <1>2 DEF Retains, GnetShape
<1>4. CASE Claimed(K)
  BY <1>2, <1>3, <1>4
<1> HIDE DEF L
<1>5. CASE ~Claimed(K)
  <2>1. /\ L.kind = K.kind /\ L.done = K.done /\ L.sig = K.sig
        /\ L.subs = K.subs /\ L.pend = K.pend /\ L.bytes = K.bytes
        /\ L.starter = K.starter /\ L.initiated = K.initiated
        /\ L.owner = K.owner /\ L.gconn = K.gconn /\ L.boot = K.boot
        /\ L.pc = K.pc /\ L.batch = K.batch /\ L.segs = K.segs
        /\ L.buf = K.buf /\ L.ctl = K.ctl
        /\ L.stopping = K.stopping /\ L.stopper = K.stopper
    BY <1>1, <1>2 DEF Retains, GnetShape, GnetFields
  <2>2. L.state = "closing" /\ L.err = e /\ L.start # "none" /\ Fails(K, L)
    BY <1>2, <1>5 DEF Fails
  <2>3. GnetShape(L)
    BY <1>1, <1>3, <2>1, <2>2 DEF GnetShape
  <2>4. ~K.done
    BY <1>5 DEF GnetInv, Lives, Claimed
  <2>5. Lives(L)
    BY <1>5, <2>1, <2>2, <2>4 DEF GnetInv, Lives, Claimed
  <2>6. Enrolls(L)
    BY <1>5, <2>1, <2>2, <2>4 DEF GnetInv, Enrolls, Claimed
  <2>7. Charged(L.pend, L.bytes, a) /\ InOrder(a, w) /\ ~Overflows(L)
        /\ (~L.done => Ledger(L.segs, L.buf, L.ctl, L.pend, a, w))
    BY <2>1 DEF GnetInv, Overflows, Outbound
  <2>8. GnetInv(L, a, w)
    BY <1>2, <2>3, <2>5, <2>6, <2>7 DEF GnetInv
  <2>9. Claims(K, L)
    BY <1>5, <2>1, <2>2 DEF Claims
  <2> QED BY <1>2, <1>3, <1>5, <2>8, <2>9 DEF L
<1> QED BY <1>4, <1>5

(* A link that is closed holds nothing.                                    *)
Emptied(K, L) ==
  /\ L.state = "closed" /\ L.done = TRUE /\ L.subs = <<>> /\ L.batch = <<>>
  /\ L.pend = 0 /\ L.bytes = 0 /\ L.segs = <<>> /\ L.ctl = 0
  /\ L.buf = K.buf /\ L.sig = K.sig
  /\ L.start # "none" /\ L.err # "outbound"

LEMMA ChargeNothing ==
  ASSUME NEW a \in Seq(Nat) PROVE Charged(0, 0, a)
<1>1. Upto(a, Len(a)) \in Nat /\ Len(a) \in Nat
  BY AcceptedSums
<1>2. Len(a) - 0 = Len(a)
  BY <1>1
<1>3. Upto(a, Len(a) - 0) = Upto(a, Len(a))
  BY <1>2
<1>4. Upto(a, Len(a)) - Upto(a, Len(a) - 0) = 0
  BY <1>1, <1>3
<1> QED BY <1>1, <1>4, LimitsAssumption DEF Charged

LEMMA ClosedInv ==
  ASSUME NEW K, NEW L, NEW a, NEW w, GnetInv(K, a, w), GnetShape(L), Emptied(K, L),
         Enrolls(L)
  PROVE  GnetInv(L, a, w)
<1>1. Lives(L)
  BY DEF Lives, Emptied, Claimed
<1>2. InOrder(a, w)
  BY DEF GnetInv
<1>3. Charged(L.pend, L.bytes, a)
  BY <1>2, ChargeNothing DEF Emptied, InOrder
<1>4. ~Overflows(L)
  BY DEF GnetInv, Overflows, Outbound, Emptied
<1>5. L.done /\ Claimed(L)
  BY DEF Emptied, Claimed
<1> QED BY <1>1, <1>2, <1>3, <1>4, <1>5 DEF GnetInv

(* The finalizer on a link whose stream is not open.                       *)
LEMMA FinalizeInv ==
  ASSUME NEW K, NEW a, NEW w, GnetInv(K, a, w), ~K.done, K.gconn # "open",
         K.starter # "enrolling", K.starter = "enroll" => K.stopping
  PROVE  LET L == FinalizeAfterStreamClose(K)
         IN  GnetInv(L, a, w) /\ Closes(K, L) /\ DOMAIN L = GnetFields
             /\ L.starter = K.starter /\ L.stopper = K.stopper /\ L.done
<1> DEFINE L == FinalizeAfterStreamClose(K)
<1>1. GnetShape(K) /\ Lives(K) /\ Enrolls(K)
  BY DEF GnetInv
<1>2. /\ Retains(K, L, {"state", "err", "start", "poll", "drain", "segs", "ctl",
                      "subs", "pend", "bytes", "charges", "evOpen", "done"})
      /\ L.state = "closed" /\ L.done = TRUE /\ L.subs = <<>>
      /\ L.pend = 0 /\ L.bytes = 0 /\ L.segs = <<>> /\ L.ctl = 0
      /\ Claimed(K) => L.err = K.err /\ L.start = K.start
      /\ ~Claimed(K) => /\ L.err = "closed"
                        /\ L.start = IF K.start # "none" THEN K.start ELSE "closed"
  BY <1>1, FinalizeLaw
<1> HIDE DEF L
<1>3. /\ DOMAIN L = GnetFields /\ L.kind = K.kind /\ L.sig = K.sig
      /\ L.starter = K.starter /\ L.initiated = K.initiated
      /\ L.owner = K.owner /\ L.gconn = K.gconn /\ L.boot = K.boot
      /\ L.pc = K.pc /\ L.batch = K.batch /\ L.buf = K.buf
      /\ L.stopping = K.stopping /\ L.stopper = K.stopper
  BY <1>1, <1>2 DEF Retains, GnetShape, GnetFields
<1>4. L.pc # "frames" /\ L.batch = <<>>
  BY <1>1, <1>3 DEF Enrolls
<1>5. /\ L.start # "none" /\ L.err # "outbound" /\ Fails(K, L)
      /\ IF Claimed(K) THEN L.err = K.err ELSE L.err # "none"
  BY <1>1, <1>2 DEF Lives, Fails
<1>6. GnetShape(L)
  BY <1>1, <1>2, <1>3, NoElements DEF GnetShape
<1>7. Enrolls(L)
  BY <1>1, <1>2, <1>3, <1>4 DEF Enrolls, Claimed
<1>8. GnetInv(L, a, w)
  <2>1. Emptied(K, L)
    BY <1>2, <1>3, <1>4, <1>5 DEF Emptied
  <2> QED BY <1>6, <1>7, <2>1, ClosedInv
<1>9. Closes(K, L)
  BY <1>1, <1>2, <1>3, <1>5 DEF Closes, Lives
<1> QED BY <1>2, <1>3, <1>8, <1>9 DEF L

(* OnClose on an open stream.                                              *)
LEMMA OnCloseInv ==
  ASSUME NEW K, NEW e, NEW a, NEW w, GnetInv(K, a, w), K.gconn = "open",
         e \notin {"none", "ok", "outbound"}
  PROVE  LET L == OnClose(K, e)
         IN  GnetInv(L, a, w) /\ Closes(K, L) /\ DOMAIN L = GnetFields
             /\ L.starter = K.starter /\ L.stopper = K.stopper /\ L.done
<1> DEFINE M == [K EXCEPT !.gconn = "closed", !.pc = "idle", !.data = <<>>,
                          !.batch = <<>>]
           C == ClaimTerminal(M, e)
           L == FinalizeAfterStreamClose(C)
<1>1. GnetShape(K) /\ Lives(K) /\ Enrolls(K)
  BY DEF GnetInv
<1>2. ~K.done /\ K.owner /\ K.state # "closed"
  BY <1>1 DEF Enrolls, Lives
<1>3. /\ Retains(K, M, {"gconn", "pc", "data", "batch"}) /\ GnetShape(M)
      /\ M.gconn = "closed" /\ M.pc = "idle" /\ M.batch = <<>>
  <2>1. /\ Retains(K, M, {"gconn", "pc", "data", "batch"})
        /\ M.gconn = "closed" /\ M.pc = "idle" /\ M.batch = <<>>
    BY <1>1 DEF Retains, GnetShape, GnetFields
  <2> HIDE DEF M
  <2>2. /\ DOMAIN M = GnetFields /\ M.kind = K.kind /\ M.state = K.state
        /\ M.done = K.done /\ M.owner = K.owner /\ M.sig = K.sig
        /\ M.initiated = K.initiated /\ M.stopping = K.stopping
        /\ M.boot = K.boot /\ M.subs = K.subs
    BY <1>1, <2>1 DEF Retains, GnetShape, GnetFields
  <2>3. GnetShape(M)
    BY <1>1, <2>1, <2>2, NoElements DEF GnetShape
  <2> QED BY <2>1, <2>3
<1> HIDE DEF M
<1>4. M.state = K.state /\ M.err = K.err /\ M.start = K.start /\ M.done = K.done
  BY <1>1, <1>3 DEF Retains, GnetShape, GnetFields
<1>5. /\ Retains(M, C, {"state", "err", "start", "poll"})
      /\ Claimed(C)
      /\ Claimed(M) => C = M
      /\ ~Claimed(M) => /\ C.state = "closing" /\ C.err = e
                        /\ C.start = IF M.start # "none" THEN M.start
                                     ELSE IF e = "nil" THEN "closed" ELSE e
  BY <1>3, ClaimLaw
<1> HIDE DEF C
<1>6. Retains(K, C, {"state", "err", "start", "poll", "gconn", "pc", "data", "batch"})
  BY <1>3, <1>5, KeepsMore
<1>7. /\ DOMAIN C = GnetFields /\ C.kind = K.kind /\ C.done = K.done /\ C.sig = K.sig
      /\ C.starter = K.starter /\ C.initiated = K.initiated
      /\ C.owner = K.owner /\ C.boot = K.boot /\ C.buf = K.buf /\ C.subs = K.subs
      /\ C.stopping = K.stopping /\ C.stopper = K.stopper
  BY <1>1, <1>6 DEF Retains, GnetShape, GnetFields
<1>8. C.gconn = "closed" /\ C.pc = "idle" /\ C.batch = <<>>
  BY <1>3, <1>5 DEF Retains, GnetShape, GnetFields
<1>9. C.state \in {"closing", "closed"}
  BY <1>5 DEF Claimed
<1>10. GnetShape(C)
  BY <1>1, <1>3, <1>7, <1>8, <1>9 DEF GnetShape
<1>11. /\ Retains(C, L, {"state", "err", "start", "poll", "drain", "segs", "ctl",
                       "subs", "pend", "bytes", "charges", "evOpen", "done"})
       /\ L.state = "closed" /\ L.done = TRUE /\ L.subs = <<>>
       /\ L.pend = 0 /\ L.bytes = 0 /\ L.segs = <<>> /\ L.ctl = 0
       /\ L.err = C.err /\ L.start = C.start
  BY <1>2, <1>5, <1>7, <1>10, FinalizeLaw
<1> HIDE DEF L
<1>12. /\ DOMAIN L = GnetFields /\ L.kind = K.kind /\ L.sig = K.sig
       /\ L.starter = K.starter /\ L.initiated = K.initiated
       /\ L.owner = K.owner /\ L.gconn = "closed" /\ L.boot = K.boot
       /\ L.pc = "idle" /\ L.batch = <<>> /\ L.buf = K.buf
       /\ L.stopping = K.stopping /\ L.stopper = K.stopper
  BY <1>7, <1>8, <1>11 DEF Retains, GnetFields
<1>13. /\ L.start # "none" /\ L.err # "outbound" /\ Fails(K, L)
       /\ IF Claimed(K) THEN L.err = K.err ELSE L.err # "none"
  BY <1>1, <1>4, <1>5, <1>11 DEF Lives, Fails, Claimed
<1>14. GnetShape(L)
  BY <1>1, <1>10, <1>11, <1>12, NoElements DEF GnetShape
<1>15. Enrolls(L)
  BY <1>1, <1>2, <1>11, <1>12 DEF Enrolls, Claimed
<1>16. GnetInv(L, a, w)
  <2>1. Emptied(K, L)
    BY <1>11, <1>12, <1>13 DEF Emptied
  <2> QED BY <1>14, <1>15, <2>1, ClosedInv
<1>17. Closes(K, L)
  BY <1>2, <1>11, <1>12, <1>13 DEF Closes
<1>18. OnClose(K, e) = L
  BY DEF OnClose, L, C, M
<1> QED BY <1>11, <1>12, <1>16, <1>17, <1>18

-----------------------------------------------------------------------------
(* The ledger's operations.                                                *)
LEMMA BootedLives ==
  ASSUME NEW K, NEW L, Lives(K), L.boot = 3, K.boot = 3, L.gconn = K.gconn,
         L.state = K.state,
         L.err = K.err, L.start = K.start, L.done = K.done, ~K.done
  PROVE  Lives(L)
BY DEF Lives, Claimed

ObservedFields == {"segs", "ctl", "pend", "bytes", "sig", "poll", "drain", "tasks"}

(* What observeOwnerOutbound releases.                                     *)
Released(K) ==
  LET n == Taken(K.segs, K.buf)
      g == Gone(K.segs, K.buf)
  IN  ReleaseSubmissions([K EXCEPT !.segs = Rest(K.segs, K.buf),
                                   !.ctl = @ - (n - Items(g))],
                         Items(g), SubBytes(g))

LEMMA ObservesReleased ==
  ASSUME NEW K, DOMAIN K = GnetFields
  PROVE  LET R == Released(K)
             L == ObserveOwnerOutbound(K)
         IN  DOMAIN R = GnetFields => Retains(R, L, {"poll", "drain", "tasks"})
<1> DEFINE R == Released(K)
           L == ObserveOwnerOutbound(K)
           P == [R EXCEPT !.poll = FALSE]
           Q == [R EXCEPT !.poll = @ \/ ~Claimed(R)]
<1>1. /\ L = IF R.segs = <<>> THEN ScheduleNextDrain(P)
             ELSE IF Outbound(K) = 0 THEN R
             ELSE IF Outbound(K) <= Resume THEN ScheduleNextDrain(Q) ELSE Q
  BY DEF ObserveOwnerOutbound, Released, Consumed, Taken, Gone, Rest
<1> SUFFICES ASSUME DOMAIN R = GnetFields
             PROVE  Retains(R, L, {"poll", "drain", "tasks"})
  OBVIOUS
<1> HIDE DEF R, L
<1>2. /\ Retains(R, P, {"poll"}) /\ DOMAIN P = GnetFields
      /\ Retains(R, Q, {"poll"}) /\ DOMAIN Q = GnetFields
  BY DEF Retains, GnetFields
<1> HIDE DEF P, Q
<1>3. /\ Retains(P, ScheduleNextDrain(P), {"tasks", "drain"})
      /\ Retains(Q, ScheduleNextDrain(Q), {"tasks", "drain"})
  BY <1>2, NextDrainKeeps
<1>4. /\ Retains(R, ScheduleNextDrain(P), {"poll", "drain", "tasks"})
      /\ Retains(R, ScheduleNextDrain(Q), {"poll", "drain", "tasks"})
  BY <1>2, <1>3, KeepsMore
<1>5. Retains(R, R, {"poll", "drain", "tasks"}) /\ Retains(R, Q, {"poll", "drain", "tasks"})
  BY <1>2 DEF Retains
<1> QED BY <1>1, <1>4, <1>5

LEMMA ObserveInv ==
  ASSUME NEW K, NEW a, NEW w, GnetInv(K, a, w), ~K.done, K.boot = 3
  PROVE  LET L == ObserveOwnerOutbound(K)
         IN  /\ GnetInv(L, a, w) /\ Progresses(K, L)
             /\ Retains(K, L, ObservedFields) /\ DOMAIN L = GnetFields
<1> DEFINE n == Taken(K.segs, K.buf)
           g == Gone(K.segs, K.buf)
           r == Rest(K.segs, K.buf)
           i == Items(g)
           b == SubBytes(g)
           R == Released(K)
           M == [K EXCEPT !.segs = r, !.ctl = @ - (n - i)]
           L == ObserveOwnerOutbound(K)
<1>1. /\ GnetShape(K) /\ Lives(K) /\ Enrolls(K) /\ Charged(K.pend, K.bytes, a)
      /\ Ledger(K.segs, K.buf, K.ctl, K.pend, a, w) /\ InOrder(a, w)
      /\ (~Claimed(K) => GnetQueue(K, a)) /\ ~Overflows(K)
  BY DEF GnetInv
<1>2. /\ n \in Nat /\ r \in Seq(Segs) /\ i \in Nat /\ i <= K.pend /\ b \in Nat
      /\ i = 0 => b = 0
      /\ ItemsTo(K.segs, Len(K.segs)) = i + ItemsTo(r, Len(r))
      /\ ItemsTo(r, Len(r)) \in Nat
      /\ K.ctl - (n - i) \in Nat
      /\ Charged(K.pend - i, K.bytes - b, a)
      /\ Ledger(r, K.buf, K.ctl - (n - i), K.pend - i, a, w)
  BY <1>1, LedgerReleases
<1>3. K.pend \in Nat /\ K.bytes \in Nat
  BY <1>1 DEF Charged
<1> HIDE DEF n, g, r, i, b
<1>4. R = ReleaseSubmissions(M, i, b)
  BY DEF Released, n, g, r, i, b
<1>5. /\ Retains(K, M, {"segs", "ctl"}) /\ DOMAIN M = GnetFields /\ M.segs = r
      /\ M.ctl = K.ctl - (n - i) /\ M.pend = K.pend /\ M.bytes = K.bytes
      /\ M.sig = K.sig /\ M.state = K.state
  BY <1>1 DEF Retains, GnetShape, GnetFields
<1> HIDE DEF M, R
<1>6. /\ Retains(M, R, {"pend", "bytes", "sig"}) /\ DOMAIN R = GnetFields /\ R.segs = r
      /\ R.ctl = K.ctl - (n - i) /\ R.pend = K.pend - i /\ R.bytes = K.bytes - b
      /\ R.sig = (K.sig \/ (i > 0 /\ K.state = "ready"))
  <2>1. CASE i = 0
    <3>1. R = M /\ b = 0 /\ K.pend - i = K.pend /\ K.bytes - b = K.bytes /\ ~(i > 0)
      BY <1>2, <1>3, <1>4, <2>1 DEF ReleaseSubmissions
    <3>2. K.sig \in BOOLEAN
      BY <1>1 DEF GnetShape
    <3> QED BY <1>5, <3>1, <3>2 DEF Retains
  <2>2. CASE i # 0
    <3>1. R = [M EXCEPT !.pend = @ - i, !.bytes = @ - b, !.sig = @ \/ M.state = "ready"]
      BY <1>4, <2>2 DEF ReleaseSubmissions
    <3>2. i > 0
      BY <1>2, <2>2
    <3> QED BY <1>5, <3>1, <3>2 DEF Retains, GnetFields
  <2> QED BY <2>1, <2>2
<1>7. Retains(K, R, {"segs", "ctl", "pend", "bytes", "sig"})
  BY <1>5, <1>6, KeepsMore
<1>8. Retains(R, L, {"poll", "drain", "tasks"})
  BY <1>1, <1>6, ObservesReleased DEF GnetShape, R
<1> HIDE DEF L
<1>9. Retains(K, L, ObservedFields)
  BY <1>7, <1>8, KeepsMore DEF ObservedFields
<1>10. /\ DOMAIN L = GnetFields /\ L.kind = K.kind /\ L.state = K.state
       /\ L.err = K.err /\ L.start = K.start /\ L.done = K.done
       /\ L.subs = K.subs
       /\ L.starter = K.starter /\ L.initiated = K.initiated
       /\ L.owner = K.owner /\ L.gconn = K.gconn /\ L.boot = K.boot
       /\ L.pc = K.pc /\ L.batch = K.batch /\ L.buf = K.buf
       /\ L.stopping = K.stopping /\ L.stopper = K.stopper
  BY <1>1, <1>9 DEF Retains, GnetShape, GnetFields, ObservedFields
<1>11. /\ L.segs = r /\ L.ctl = K.ctl - (n - i) /\ L.pend = K.pend - i
       /\ L.bytes = K.bytes - b /\ L.sig = (K.sig \/ (i > 0 /\ K.state = "ready"))
  BY <1>6, <1>8 DEF Retains, GnetFields
<1>12. GnetShape(L) /\ Enrolls(L) /\ ~Overflows(L)
  BY <1>1, <1>10, <1>11 DEF GnetShape, Enrolls, Overflows, Outbound, Claimed
<1>13. Lives(L)
  BY <1>1, <1>10, BootedLives
<1>14. Charged(L.pend, L.bytes, a) /\ Ledger(L.segs, L.buf, L.ctl, L.pend, a, w)
  BY <1>2, <1>10, <1>11
<1>15. ~Claimed(L) => GnetQueue(L, a)
  <2>1. ASSUME ~Claimed(L) PROVE GnetQueue(L, a)
    <3>1. GnetQueue(K, a)
      BY <1>1, <1>10, <2>1 DEF Claimed
    <3>2. L.pend = ItemsTo(L.segs, Len(L.segs)) + Len(L.batch) + Len(L.subs)
      <4>1. Len(K.batch) \in Nat /\ Len(K.subs) \in Nat
        BY <1>1 DEF GnetShape
      <4>2. K.pend = i + ItemsTo(r, Len(r)) + Len(K.batch) + Len(K.subs)
        BY <1>2, <3>1 DEF GnetQueue
      <4> QED BY <1>2, <1>3, <1>10, <1>11, <4>1, <4>2
    <3> QED BY <1>10, <3>1, <3>2 DEF GnetQueue
  <2> QED BY <2>1
<1>16. GnetInv(L, a, w)
  BY <1>1, <1>12, <1>13, <1>14, <1>15 DEF GnetInv
<1>17. Progresses(K, L)
  <2>1. L.pend <= K.pend /\ (L.pend < K.pend <=> i > 0) /\ (L.pend = K.pend => i = 0)
    BY <1>2, <1>3, <1>11
  <2>2. i = 0 => L.bytes = K.bytes
    BY <1>2, <1>3, <1>11
  <2> QED BY <1>10, <1>11, <2>1, <2>2 DEF Progresses
<1> QED BY <1>9, <1>10, <1>16, <1>17 DEF L

(* writeOwnerBatch, before it observes: K still has pend submissions, of   *)
(* which r are no longer in its batch.                                     *)
Writes(K, a, w, v, r, n) ==
  /\ GnetShape(K) /\ Lives(K) /\ Enrolls(K) /\ Charged(K.pend, K.bytes, a)
  /\ InOrder(a, v) /\ Ledger(K.segs, K.buf, K.ctl, K.pend, a, w)
  /\ Booked(r, a, (Len(a) - K.pend) + ItemsTo(K.segs, Len(K.segs)))
  /\ n \in 0..Len(r) /\ CanFlush(K, n)
  /\ ((K.ctl + Len(r)) - Items(r)) * PongWire <= MaxControlBytes
  /\ Len(v) = Len(w) + ItemsTo(r, n)
  /\ K.boot = 3 /\ K.batch = <<>> /\ ~K.done
  /\ \/ Claimed(K)
     \/ /\ K.pend = ItemsTo(K.segs, Len(K.segs)) + Items(r) + Len(K.subs)
        /\ Numbered(K.subs, Len(a) - Len(K.subs), a)

LEMMA WrittenInv ==
  ASSUME NEW K, NEW a, NEW w, NEW v, NEW r, NEW n, Writes(K, a, w, v, r, n)
  PROVE  LET L == Written(K, r, n)
         IN  /\ GnetInv(L, a, v) /\ Unmoved(K, L)
             /\ Retains(K, L, {"segs", "ctl", "buf"}) /\ DOMAIN L = GnetFields
<1> USE DEF Writes
<1> DEFINE L == Written(K, r, n)
           s == K.segs \o r
           b == K.buf \o SubSeq(r, n + 1, Len(r))
           c == (K.ctl + Len(r)) - Items(r)
<1>1. /\ Retains(K, L, {"segs", "ctl", "buf"}) /\ L.segs = s /\ L.buf = b /\ L.ctl = c
  <2>1. Retains(K, L, {"segs", "ctl", "buf"})
    BY DEF Written, Retains, GnetShape, GnetFields
  <2>2. L.segs = s
    BY DEF Written, GnetShape, GnetFields
  <2>3. L.buf = b
    BY DEF Written, GnetShape, GnetFields
  <2>4. L.ctl = K.ctl + (Len(r) - Items(r))
    BY DEF Written, GnetShape, GnetFields
  <2>5. r \in Seq(Segs) /\ Len(r) \in Nat /\ Items(r) = ItemsTo(r, Len(r))
    <3>1. r \in Seq(Segs)
      BY DEF Booked
    <3>2. Len(r) \in Nat
      BY <3>1
    <3>3. /\ Items(r) = ItemsTo(r, Len(r)) /\ SubBytes(r) = SizesTo(r, Len(r))
          /\ SumOf([i \in DOMAIN r |-> r[i].left]) = LeftTo(r, Len(r))
      BY <3>1, SegmentSums
    <3> QED BY <3>1, <3>2, <3>3
  <2>6. Items(r) \in Nat
    BY <2>5, ItemsBound
  <2>7. K.ctl \in Int
    <3>1. K.segs \in Seq(Segs) /\ Len(K.segs) \in Nat
      BY DEF Ledger, Booked
    <3>2. ItemsTo(K.segs, Len(K.segs)) \in Nat
      BY <3>1, ItemsBound
    <3> QED BY <3>1, <3>2 DEF Ledger
  <2>8. L.ctl = c
    <3> HIDE DEF L
    <3> QED BY <2>4, <2>5, <2>6, <2>7
  <2> QED BY <2>1, <2>2, <2>3, <2>8
<1>2. K.pend \in Nat /\ K.pend <= Len(a) /\ a \in Seq(Nat) /\ Len(a) \in Nat
  BY DEF Charged
<1>3. /\ Ledger(s, b, c, K.pend, a, v)
      /\ ItemsTo(s, Len(s)) = ItemsTo(K.segs, Len(K.segs)) + Items(r)
      /\ c \in Nat
  <2>1. n = 0 \/ K.buf = <<>>
    BY DEF CanFlush
  <2>2. /\ Ledger(K.segs \o r, K.buf \o SubSeq(r, n + 1, Len(r)),
                  (K.ctl + Len(r)) - Items(r), K.pend, a, v)
        /\ ItemsTo(K.segs \o r, Len(K.segs \o r)) = ItemsTo(K.segs, Len(K.segs)) + Items(r)
        /\ (K.ctl + Len(r)) - Items(r) \in Nat
        /\ Items(r) = ItemsTo(r, Len(r))
    <3>1. WriteFits(K.segs, K.buf, K.ctl, K.pend, a, w, v, r, n)
      BY <1>2, <2>1 DEF WriteFits
    <3> QED BY <3>1, LedgerWrites
  <2> QED BY <2>2
<1> HIDE DEF L, s, b, c
<1>4. /\ DOMAIN L = GnetFields /\ L.kind = K.kind /\ L.state = K.state
      /\ L.err = K.err /\ L.start = K.start /\ L.done = K.done /\ L.sig = K.sig
      /\ L.subs = K.subs /\ L.pend = K.pend /\ L.bytes = K.bytes
      /\ L.starter = K.starter /\ L.initiated = K.initiated
      /\ L.owner = K.owner /\ L.gconn = K.gconn /\ L.boot = K.boot
      /\ L.pc = K.pc /\ L.batch = K.batch
      /\ L.stopping = K.stopping /\ L.stopper = K.stopper
  BY <1>1 DEF Retains, GnetShape, GnetFields
<1>5. Unmoved(K, L)
  BY <1>4 DEF Unmoved
<1>6. GnetShape(L)
  BY <1>4 DEF GnetShape
<1>7. K.owner
  BY DEF Enrolls
<1>8. Lives(L)
  BY <1>4, BootedLives
<1>9. Enrolls(L)
  BY <1>4, <1>7 DEF Enrolls, Claimed
<1>10. Ledger(L.segs, L.buf, L.ctl, L.pend, a, v) /\ Charged(L.pend, L.bytes, a)
  BY <1>1, <1>3, <1>4
<1>11. ~Overflows(L)
  BY <1>10, CeilingCovers DEF Overflows, Outbound
<1>12. ASSUME ~Claimed(L) PROVE GnetQueue(L, a)
  <2>0. /\ K.pend = ItemsTo(K.segs, Len(K.segs)) + Items(r) + Len(K.subs)
        /\ Numbered(K.subs, Len(a) - Len(K.subs), a)
    BY <1>4, <1>12 DEF Claimed
  <2>1. Len(K.subs) \in Nat /\ Len(L.batch) = 0 /\ L.batch = <<>>
    BY <1>4 DEF GnetShape
  <2>2. ItemsTo(L.segs, Len(L.segs)) = ItemsTo(K.segs, Len(K.segs)) + Items(r)
    BY <1>1, <1>3
  <2>3. K.pend = ItemsTo(L.segs, Len(L.segs)) + Len(K.subs)
    BY <2>0, <2>2
  <2>4. ItemsTo(L.segs, Len(L.segs)) \in Nat
    <3>1. L.segs \in Seq(Segs) /\ Len(L.segs) \in Nat
      BY <1>10 DEF Ledger, Booked
    <3> QED BY <3>1, ItemsBound
  <2>5. L.pend = ItemsTo(L.segs, Len(L.segs)) + Len(L.batch) + Len(L.subs)
    BY <1>4, <2>1, <2>3, <2>4
  <2>6. Numbered(<<>>, (Len(a) - Len(K.subs)) - 0, a)
    <3>1. Len(a) - Len(K.subs) \in Nat
      BY <2>0 DEF Numbered
    <3> QED BY <1>2, <3>1, NoElements DEF Numbered
  <2> QED BY <1>4, <2>0, <2>1, <2>5, <2>6 DEF GnetQueue
<1>13. GnetInv(L, a, v)
  BY <1>6, <1>8, <1>9, <1>10, <1>11, <1>12 DEF GnetInv
<1> QED BY <1>1, <1>4, <1>5, <1>13 DEF L

LEMMA OwnerCloseInv ==
  ASSUME NEW K, NEW a, NEW w, GnetInv(K, a, w)
  PROVE  LET L == ScheduleOwnerClose(K)
         IN  /\ GnetInv(L, a, w) /\ (Unmoved(K, L) \/ Closes(K, L))
             /\ DOMAIN L = GnetFields /\ L.starter = K.starter
             /\ L.stopper = K.stopper /\ L.initiated = K.initiated
             /\ L.stopping = K.stopping /\ (K.done => L = K)
<1> DEFINE L == ScheduleOwnerClose(K)
           S == [K EXCEPT !.closeScheduled = TRUE]
           C == [K EXCEPT !.conn = "closed"]
<1>1. DOMAIN K = GnetFields /\ Enrolls(K) /\ GnetShape(K)
  BY DEF GnetInv, GnetShape
<1>2. ASSUME NEW M, Retains(K, M, Quietly)
      PROVE  /\ GnetInv(M, a, w) /\ Unmoved(K, M) /\ DOMAIN M = GnetFields
             /\ M.starter = K.starter /\ M.stopper = K.stopper
             /\ M.initiated = K.initiated /\ M.stopping = K.stopping
             /\ M.done = K.done /\ M.gconn = K.gconn
             /\ M.state = K.state /\ M.start = K.start /\ M.err = K.err
             /\ M.sig = K.sig
  <2>1. M.sig = K.sig /\ Retains(K, M, Quietly \cup {"sig"})
    BY <1>1, <1>2 DEF Retains, Quietly, GnetFields
  <2>2. GnetInv(M, a, w)
    BY <1>1, <2>1, QuietInv DEF GnetShape
  <2>3. /\ DOMAIN M = GnetFields /\ M.state = K.state /\ M.err = K.err
        /\ M.start = K.start /\ M.done = K.done /\ M.starter = K.starter
        /\ M.initiated = K.initiated /\ M.gconn = K.gconn
        /\ M.stopping = K.stopping /\ M.stopper = K.stopper
        /\ M.pend = K.pend /\ M.bytes = K.bytes
    BY <1>1, <2>1, QuietFields
  <2>4. Unmoved(K, M)
    BY <2>1, <2>3 DEF Unmoved
  <2> QED BY <2>1, <2>2, <2>3, <2>4
<1>3. CASE K.done \/ K.closeScheduled
  <2>1. L = K
    BY <1>3 DEF ScheduleOwnerClose
  <2> QED BY <1>1, <2>1 DEF Unmoved
<1>4. CASE ~(K.done \/ K.closeScheduled) /\ K.owner
  <2>1. L = Execute(S, "close")
    BY <1>4 DEF ScheduleOwnerClose
  <2>2. Retains(K, S, {"closeScheduled"}) /\ DOMAIN S = GnetFields
    BY <1>1 DEF Retains, GnetFields
  <2> HIDE DEF S, L
  <2>3. Retains(S, L, {"tasks"})
    BY <2>1, <2>2, ExecuteKeeps
  <2>4. Retains(K, L, Quietly)
    BY <2>2, <2>3, KeepsMore DEF Quietly
  <2> QED BY <1>2, <1>4, <2>4 DEF L
<1>5. CASE ~(K.done \/ K.closeScheduled) /\ ~K.owner
  <2>1. L = IF K.initiated THEN C ELSE FinalizeAfterStreamClose(C)
    BY <1>5 DEF ScheduleOwnerClose
  <2>2. Retains(K, C, Quietly)
    BY <1>1 DEF Retains, GnetFields, Quietly
  <2> HIDE DEF C, L
  <2>3. CASE K.initiated
    BY <1>2, <1>5, <2>1, <2>2, <2>3 DEF L
  <2>4. CASE ~K.initiated
    <3>1. /\ GnetInv(C, a, w) /\ ~C.done /\ C.gconn # "open"
          /\ C.starter = "idle" /\ C.starter = K.starter /\ C.stopper = K.stopper
          /\ C.state = K.state /\ C.start = K.start /\ C.err = K.err /\ C.sig = K.sig
      BY <1>1, <1>2, <1>5, <2>2, <2>4 DEF Enrolls
    <3>2. /\ GnetInv(L, a, w) /\ Closes(C, L) /\ DOMAIN L = GnetFields
          /\ L.starter = C.starter /\ L.stopper = C.stopper /\ L.done
      BY <2>1, <2>4, <3>1, FinalizeInv
    <3>3. L.initiated = C.initiated /\ L.stopping = C.stopping
      <4>1. GnetShape(C)
        BY <3>1 DEF GnetInv
      <4>2. L = FinalizeAfterStreamClose(C)
        BY <2>1, <2>4
      <4>3. Retains(C, L, {"state", "err", "start", "poll", "drain", "segs", "ctl",
                         "subs", "pend", "bytes", "charges", "evOpen", "done"})
        BY <3>1, <4>1, <4>2, FinalizeLaw
      <4> QED BY <4>1, <4>3 DEF Retains, GnetFields, GnetShape
    <3>4. Closes(K, L)
      BY <3>1, <3>2 DEF Closes, Claimed, Fails
    <3> QED BY <1>2, <1>5, <2>2, <3>1, <3>2, <3>3, <3>4 DEF L
  <2> QED BY <1>1, <2>3, <2>4 DEF GnetShape
<1> QED BY <1>1, <1>3, <1>4, <1>5 DEF GnetShape

-----------------------------------------------------------------------------
(* What the contract allows a step to do, with the accepted sizes a, b and *)
(* the positions taken w, v before and after it.                           *)
Begins(K, L) ==
  /\ K.state = "created" /\ L.state = "boot" /\ L.start = K.start /\ L.err = K.err
  /\ L.pend = K.pend /\ L.bytes = K.bytes /\ L.sig = K.sig

Readies(K, L) ==
  /\ K.state = "boot" /\ L.state = "ready" /\ K.start = "none" /\ L.start = "ok"
  /\ L.err = K.err /\ L.pend = K.pend /\ L.bytes = K.bytes /\ L.sig = K.sig

Signals(K, L) ==
  /\ K.sig /\ L.sig = FALSE
  /\ L.state = K.state /\ L.start = K.start /\ L.err = K.err
  /\ L.pend = K.pend /\ L.bytes = K.bytes

Publishes(K, L) ==
  /\ Claimed(K) /\ L.state = K.state /\ L.err = K.err /\ Fails(K, L)
  /\ L.pend = K.pend /\ L.bytes = K.bytes /\ L.sig = K.sig

Accepts(K, L, x) ==
  /\ K.state = "ready" /\ L.state = K.state /\ L.start = K.start /\ L.err = K.err
  /\ x \in 1..Limits.subBytes
  /\ K.pend < Limits.subs /\ x <= Limits.subBytes - K.bytes
  /\ L.pend = K.pend + 1 /\ L.bytes = K.bytes + x /\ L.sig = K.sig

Ended(K, L) == Unmoved(K, L) \/ Claims(K, L) \/ Closes(K, L)

Allowed(K, a, w, L, b, v) ==
  \/ /\ b = a /\ v = w
     /\ \/ Ended(K, L) \/ Begins(K, L) \/ Readies(K, L)
        \/ Signals(K, L) \/ Publishes(K, L)
  \/ /\ b = a /\ Len(w) <= Len(v) /\ Len(a) - L.pend <= Len(v)
     /\ Progresses(K, L)
  \/ v = w /\ \E x \in Nat : b = Append(a, x) /\ Accepts(K, L, x)

Goal(K, a, w, L, b, v) == GnetInv(L, b, v) /\ Allowed(K, a, w, L, b, v)

LEMMA EndedMore ==
  ASSUME NEW K, NEW L, NEW M, Ended(K, M), Ended(M, L)
  PROVE  Ended(K, L)
<1>1. CASE Unmoved(K, M)
  BY <1>1 DEF Ended, Unmoved, Claims, Closes, Claimed, Fails
<1>2. CASE Claims(K, M)
  BY <1>2 DEF Ended, Unmoved, Claims, Closes, Claimed, Fails
<1>3. CASE Closes(K, M)
  BY <1>3 DEF Ended, Unmoved, Claims, Closes, Claimed, Fails
<1> QED BY <1>1, <1>2, <1>3 DEF Ended

(* A step that leaves the queue and the ledger alone.                      *)
LEMMA FrameInv ==
  ASSUME NEW K, NEW L, NEW a, NEW w, GnetInv(K, a, w),
         GnetShape(L), Lives(L), Enrolls(L),
         L.segs = K.segs, L.buf = K.buf, L.ctl = K.ctl, L.pend = K.pend,
         L.bytes = K.bytes, L.subs = K.subs, L.done = K.done,
         Claimed(L) \/ (~Claimed(K) /\ L.batch = K.batch)
  PROVE  GnetInv(L, a, w)
BY DEF GnetInv, GnetQueue, Overflows, Outbound

LEMMA QuietStep ==
  ASSUME NEW K, NEW L, NEW a, NEW w, GnetInv(K, a, w), Retains(K, L, Quietly)
  PROVE  Goal(K, a, w, L, a, w) /\ Unmoved(K, L)
<1>1. GnetShape(K) /\ DOMAIN K = GnetFields
  BY DEF GnetInv, GnetShape
<1>2. L.sig = K.sig /\ Retains(K, L, Quietly \cup {"sig"})
  BY <1>1 DEF Retains, Quietly, GnetFields
<1>3. GnetInv(L, a, w)
  BY <1>1, <1>2, QuietInv DEF GnetShape
<1>4. Unmoved(K, L)
  BY <1>1, <1>2, QuietFields DEF Unmoved
<1> QED BY <1>3, <1>4 DEF Goal, Allowed, Ended

(* The stream has taken what is released.                                  *)
LEMMA ReleasedIsTaken ==
  ASSUME NEW K, NEW a, NEW w, GnetInv(K, a, w), ~K.done
  PROVE  Len(a) - K.pend <= Len(w)
<1>1. Ledger(K.segs, K.buf, K.ctl, K.pend, a, w) /\ Charged(K.pend, K.bytes, a)
  BY DEF GnetInv
<1> DEFINE d == Len(K.segs) - Len(K.buf)
<1>2. /\ K.segs \in Seq(Segs) /\ d \in Nat /\ d <= Len(K.segs)
      /\ Len(a) - K.pend \in Nat /\ Len(w) = (Len(a) - K.pend) + ItemsTo(K.segs, d)
  <2>1. Booked(K.segs, a, Len(a) - K.pend) /\ Buffered(K.buf, K.segs)
        /\ Len(w) = (Len(a) - K.pend) + ItemsTo(K.segs, d)
    BY <1>1 DEF Ledger
  <2>2. K.segs \in Seq(Segs) /\ K.buf \in Seq(Segs) /\ Len(K.buf) <= Len(K.segs)
        /\ Len(a) - K.pend \in Nat
    BY <2>1 DEF Booked, Buffered
  <2>3. Len(K.segs) \in Nat /\ Len(K.buf) \in Nat
    BY <2>2
  <2>4. d \in Nat /\ d <= Len(K.segs)
    <3>1. \A x, y \in Nat : y <= x => x - y \in Nat /\ x - y <= x
      OBVIOUS
    <3>2. Len(K.buf) <= Len(K.segs)
      BY <2>2
    <3> QED BY <2>3, <3>1, <3>2
  <2> HIDE DEF d
  <2> QED BY <2>1, <2>2, <2>4
<1> HIDE DEF d
<1>3. ItemsTo(K.segs, d) \in Nat
  BY <1>2, ItemsBound
<1> QED BY <1>2, <1>3

LEMMA ProgressStep ==
  ASSUME NEW K, NEW L, NEW a, NEW w, NEW v, GnetInv(L, a, v), ~L.done,
         Len(w) <= Len(v), Progresses(K, L)
  PROVE  Goal(K, a, w, L, a, v)
BY ReleasedIsTaken DEF Goal, Allowed

LEMMA EndedStep ==
  ASSUME NEW K, NEW L, NEW a, NEW w, GnetInv(L, a, w), Ended(K, L)
  PROVE  Goal(K, a, w, L, a, w)
BY DEF Goal, Allowed

-----------------------------------------------------------------------------
(* The steps of the gnet engine.                                           *)
GnetGoal == Goal(k, env.acc, env.wire, k', env'.acc, env'.wire)
GnetState == GnetInv(k, env.acc, env.wire)

LEMMA GnetParts ==
  ASSUME GnetState
  PROVE  /\ GnetShape(k) /\ DOMAIN k = GnetFields /\ Lives(k) /\ Enrolls(k)
         /\ k.sig \in BOOLEAN /\ k.pend \in Nat /\ k.bytes \in Nat
         /\ k.stopping \in BOOLEAN /\ k.initiated \in BOOLEAN
         /\ (~Claimed(k) => GnetQueue(k, env.acc))
         /\ (~k.done => Ledger(k.segs, k.buf, k.ctl, k.pend, env.acc, env.wire))
BY DEF GnetState, GnetInv, GnetShape, Charged

LEMMA GStartStep ==
  ASSUME GnetState, GStart PROVE GnetGoal
<1> DEFINE L == IF Claimed(k)
                THEN [k EXCEPT !.initiated = TRUE, !.starter = "done"]
                ELSE [k EXCEPT !.initiated = TRUE, !.state = "boot",
                               !.starter = "enroll"]
<1>1. k' = L /\ env' = env /\ k.starter = "idle"
  BY DEF GStart
<1>2. Retains(k, L, {"initiated", "state", "starter"}) /\ L.initiated = TRUE
  BY GnetParts DEF Retains, GnetFields
<1>3. /\ DOMAIN L = GnetFields /\ L.kind = k.kind
      /\ L.err = k.err /\ L.start = k.start /\ L.done = k.done /\ L.sig = k.sig
      /\ L.subs = k.subs /\ L.pend = k.pend /\ L.bytes = k.bytes
      /\ L.owner = k.owner /\ L.gconn = k.gconn /\ L.boot = k.boot
      /\ L.pc = k.pc /\ L.batch = k.batch /\ L.segs = k.segs
      /\ L.buf = k.buf /\ L.ctl = k.ctl
      /\ L.stopping = k.stopping /\ L.stopper = k.stopper
  <2> HIDE DEF L
  <2> QED BY <1>2, GnetParts DEF Retains, GnetFields
<1>4. CASE Claimed(k)
  <2>1. L.state = k.state /\ L.starter = "done"
    BY <1>4, GnetParts DEF GnetFields
  <2> HIDE DEF L
  <2>2. GnetShape(L) /\ Lives(L) /\ Claimed(L)
    <3>1. Claimed(L) /\ (Claimed(L) <=> Claimed(k))
      BY <1>4, <2>1 DEF Claimed
    <3>2. GnetShape(L)
      BY <1>2, <1>3, <2>1, GnetParts DEF GnetShape
    <3>3. Lives(L)
      BY <1>3, <1>4, <2>1, <3>1, GnetParts DEF Lives
    <3> QED BY <3>1, <3>2, <3>3
  <2>3. Enrolls(L)
    BY <1>2, <1>3, <1>4, <2>1, GnetParts DEF Enrolls, Claimed
  <2>4. GnetInv(L, env.acc, env.wire)
    BY <1>3, <2>2, <2>3, FrameInv DEF GnetState
  <2>5. Ended(k, L)
    BY <1>3, <2>1 DEF Ended, Unmoved
  <2> QED BY <1>1, <2>4, <2>5, EndedStep DEF GnetGoal
<1>5. CASE ~Claimed(k)
  <2>1. L.state = "boot" /\ L.starter = "enroll"
    BY <1>5, GnetParts DEF GnetFields
  <2>2. k.state = "created" /\ ~k.owner /\ k.boot = 0 /\ ~k.done
    BY <1>1, <1>5, GnetParts DEF Enrolls, Lives, Claimed
  <2> HIDE DEF L
  <2>3. GnetShape(L)
    BY <1>2, <1>3, <2>1, GnetParts DEF GnetShape
  <2>4. Lives(L)
    BY <1>3, <1>5, <2>1, <2>2, GnetParts DEF Lives, Claimed
  <2>5. Enrolls(L)
    BY <1>2, <1>3, <2>1, <2>2, GnetParts DEF Enrolls, Claimed
  <2>6. GnetInv(L, env.acc, env.wire)
    BY <1>3, <1>5, <2>3, <2>4, <2>5, FrameInv DEF GnetState
  <2>7. Begins(k, L)
    BY <1>3, <2>1, <2>2 DEF Begins
  <2> QED BY <1>1, <2>6, <2>7 DEF GnetGoal, Goal, Allowed
<1> QED BY <1>4, <1>5

(* A change of the starter's place, or of the stopper's.                   *)
LEMMA PlaceInv ==
  ASSUME NEW K, NEW L, NEW a, NEW w, GnetInv(K, a, w),
         Retains(K, L, Quietly \cup {"starter", "stopper", "stopping"}),
         L.stopping \in BOOLEAN, Enrolls(L)
  PROVE  GnetInv(L, a, w) /\ Unmoved(K, L) /\ DOMAIN L = GnetFields
         /\ L.done = K.done /\ L.gconn = K.gconn
<1>1. GnetShape(K) /\ Lives(K) /\ DOMAIN K = GnetFields
  BY DEF GnetInv, GnetShape
<1>2. /\ DOMAIN L = GnetFields /\ L.kind = K.kind /\ L.state = K.state
      /\ L.err = K.err /\ L.start = K.start /\ L.done = K.done /\ L.sig = K.sig
      /\ L.subs = K.subs /\ L.pend = K.pend /\ L.bytes = K.bytes
      /\ L.initiated = K.initiated
      /\ L.owner = K.owner /\ L.gconn = K.gconn /\ L.boot = K.boot
      /\ L.pc = K.pc /\ L.batch = K.batch /\ L.segs = K.segs
      /\ L.buf = K.buf /\ L.ctl = K.ctl
  BY <1>1 DEF Retains, Quietly, GnetFields
<1>3. GnetShape(L) /\ Lives(L)
  BY <1>1, <1>2 DEF GnetShape, Lives, Claimed
<1>4. Claimed(L) \/ (~Claimed(K) /\ L.batch = K.batch)
  BY <1>2 DEF Claimed
<1>5. GnetInv(L, a, w)
  BY <1>2, <1>3, <1>4, FrameInv
<1> QED BY <1>2, <1>5 DEF Unmoved

(* A link that gives up before its stream is open: the claim, the caller's *)
(* return and the finalizer in one step.                                   *)
LEMMA GivesUp ==
  ASSUME GnetState, NEW e \in {"canceled", "enroll"}, k.starter = "enroll",
         NEW M, Retains(ClaimTerminal(k, e), M, {"starter", "conn"}), M.starter = "done"
  PROVE  Goal(k, env.acc, env.wire, FinalizeAfterStreamClose(M), env.acc, env.wire)
<1> DEFINE C == ClaimTerminal(k, e)
           L == FinalizeAfterStreamClose(M)
<1>1. /\ GnetInv(C, env.acc, env.wire) /\ Claimed(C) /\ DOMAIN C = GnetFields
      /\ Ended(k, C) /\ Retains(k, C, {"state", "err", "start", "poll"})
  <2>1. /\ GnetInv(C, env.acc, env.wire) /\ Claimed(C) /\ DOMAIN C = GnetFields
        /\ Claimed(k) => C = k
        /\ ~Claimed(k) => Claims(k, C)
        /\ Retains(k, C, {"state", "err", "start", "poll"})
    BY ClaimInv DEF GnetState
  <2>2. C = k => Unmoved(k, C)
    BY DEF Unmoved
  <2> QED BY <2>1, <2>2 DEF Ended
<1> HIDE DEF C
<1>2. C.starter = "enroll" /\ C.owner = k.owner /\ C.initiated = k.initiated
  BY <1>1, GnetParts DEF Retains, GnetFields
<1>3. Enrolls(C) /\ GnetShape(C)
  BY <1>1 DEF GnetInv
<1>4. /\ M.state = C.state /\ M.initiated = C.initiated /\ M.owner = C.owner
      /\ M.done = C.done /\ M.stopping = C.stopping /\ M.stopper = C.stopper
      /\ M.gconn = C.gconn /\ M.boot = C.boot /\ M.buf = C.buf /\ M.pc = C.pc
      /\ M.batch = C.batch
  BY <1>1 DEF Retains, GnetFields, C
<1>5. Enrolls(M)
  BY <1>1, <1>2, <1>3, <1>4 DEF Enrolls, Claimed
<1>6. M.stopping \in BOOLEAN
  BY <1>3, <1>4 DEF GnetShape
<1>7. /\ GnetInv(M, env.acc, env.wire) /\ Unmoved(C, M) /\ DOMAIN M = GnetFields
      /\ M.done = C.done /\ M.gconn = C.gconn
  <2>1. Retains(C, M, Quietly \cup {"starter", "stopper", "stopping"})
    BY DEF Retains, Quietly, C
  <2> QED BY <1>1, <1>5, <1>6, <2>1, PlaceInv
<1>8. M.gconn # "open"
  BY <1>2, <1>3, <1>7 DEF Enrolls
<1>9. GnetInv(L, env.acc, env.wire) /\ Ended(M, L)
  <2>1. CASE M.done
    <3>1. L = M
      BY <2>1 DEF FinalizeAfterStreamClose
    <3> QED BY <1>7, <3>1 DEF Ended, Unmoved
  <2>2. CASE ~M.done
    BY <1>7, <1>8, <2>2, FinalizeInv DEF Ended
  <2> QED BY <2>1, <2>2
<1>10. Ended(k, L)
  <2>1. Ended(C, M)
    BY <1>7 DEF Ended
  <2>2. Ended(k, M)
    BY <1>1, <2>1, EndedMore
  <2> QED BY <1>9, <2>2, EndedMore
<1> QED BY <1>9, <1>10, EndedStep

LEMMA GStartCanceledStep ==
  ASSUME GnetState, GStartCanceled PROVE GnetGoal
<1> DEFINE C == ClaimTerminal(k, "canceled")
           K == [C EXCEPT !.conn = "closed"]
           M == [K EXCEPT !.starter = "done"]
<1>1. k' = FinalizeAfterStreamClose(M) /\ env' = env /\ k.starter = "enroll"
  BY DEF GStartCanceled
<1>2. DOMAIN C = GnetFields
  BY ClaimInv DEF GnetState
<1> HIDE DEF C
<1>3. Retains(C, M, {"starter", "conn"}) /\ M.starter = "done"
  BY <1>2 DEF Retains, GnetFields
<1> HIDE DEF M
<1>4. Goal(k, env.acc, env.wire, FinalizeAfterStreamClose(M), env.acc, env.wire)
  BY <1>1, <1>3, GivesUp DEF C
<1> QED BY <1>1, <1>4 DEF GnetGoal

LEMMA EnrollStep ==
  ASSUME GnetState, Enroll PROVE GnetGoal
<1> DEFINE C == ClaimTerminal(k, "enroll")
           M == [C EXCEPT !.starter = "done"]
           L == [k EXCEPT !.starter = "enrolling", !.conn = "closed"]
<1>1. /\ k.starter = "enroll" /\ env' = env
      /\ k' = IF k.stopping \/ k.conn = "closed"
              THEN FinalizeAfterStreamClose(M) ELSE L
  BY DEF Enroll
<1>2. CASE k.stopping \/ k.conn = "closed"
  <2>1. DOMAIN C = GnetFields
    BY ClaimInv DEF GnetState
  <2> HIDE DEF C
  <2>2. Retains(C, M, {"starter", "conn"}) /\ M.starter = "done"
    BY <2>1 DEF Retains, GnetFields
  <2> HIDE DEF M
  <2>3. Goal(k, env.acc, env.wire, FinalizeAfterStreamClose(M), env.acc, env.wire)
    BY <1>1, <2>2, GivesUp DEF C
  <2> QED BY <1>1, <1>2, <2>3 DEF GnetGoal
<1>3. CASE ~(k.stopping \/ k.conn = "closed")
  <2>1. /\ Retains(k, L, Quietly \cup {"starter", "stopper", "stopping"})
        /\ L.starter = "enrolling" /\ L.state = k.state /\ L.initiated = k.initiated
        /\ L.owner = k.owner
        /\ L.done = k.done /\ L.stopping = k.stopping /\ L.stopper = k.stopper
        /\ L.gconn = k.gconn /\ L.boot = k.boot /\ L.buf = k.buf /\ L.pc = k.pc
        /\ L.batch = k.batch
    BY GnetParts DEF Retains, Quietly, GnetFields
  <2> HIDE DEF L
  <2>2. Enrolls(L)
    BY <1>1, <1>3, <2>1, GnetParts DEF Enrolls, Claimed
  <2>3. GnetInv(L, env.acc, env.wire) /\ Unmoved(k, L)
    BY <2>1, <2>2, PlaceInv, GnetParts DEF GnetState
  <2> QED BY <1>1, <1>3, <2>3, EndedStep DEF GnetGoal, Ended
<1> QED BY <1>2, <1>3


-----------------------------------------------------------------------------
(* The stream is registered: a link that has ended meanwhile closes it.    *)
LEMMA OnOpenStep ==
  ASSUME GnetState, OnOpen PROVE GnetGoal
<1> DEFINE K == [k EXCEPT !.owner = TRUE, !.gconn = "open", !.starter = "wait"]
           C == [K EXCEPT !.closeScheduled = TRUE]
           L == [K EXCEPT !.boot = 1, !.in = <<"nonce">>]
<1>1. /\ k.starter = "enrolling" /\ k.pc = "idle" /\ env' = env
      /\ k' = IF Claimed(k) THEN OnClose(C, "nil") ELSE L
  BY DEF OnOpen
<1>2. ~k.done /\ ~k.owner /\ k.boot = 0 /\ k.initiated /\ k.state # "created" /\ k.batch = <<>>
      /\ k.pend = 0 /\ k.segs = <<>> /\ k.state # "ready" /\ k.buf = <<>>
  BY <1>1, GnetParts DEF Enrolls, Lives
<1>3. CASE Claimed(k)
  <2>1. Retains(k, C, {"owner", "gconn", "starter", "closeScheduled"})
        /\ C.owner = TRUE /\ C.gconn = "open" /\ C.starter = "wait"
    BY GnetParts DEF Retains, GnetFields
  <2> HIDE DEF C
  <2>2. /\ DOMAIN C = GnetFields /\ C.kind = k.kind /\ C.state = k.state
        /\ C.err = k.err /\ C.start = k.start /\ C.done = k.done /\ C.sig = k.sig
        /\ C.subs = k.subs /\ C.pend = k.pend /\ C.bytes = k.bytes
        /\ C.initiated = k.initiated /\ C.boot = k.boot
        /\ C.pc = k.pc /\ C.batch = k.batch /\ C.segs = k.segs
        /\ C.buf = k.buf /\ C.ctl = k.ctl
        /\ C.stopping = k.stopping /\ C.stopper = k.stopper
    BY <2>1, GnetParts DEF Retains, GnetFields
  <2>3. GnetShape(C) /\ Lives(C) /\ Claimed(C)
    BY <1>2, <1>3, <2>1, <2>2, GnetParts DEF GnetShape, Lives, Claimed
  <2>4. Enrolls(C)
    BY <1>1, <1>2, <1>3, <2>1, <2>2, GnetParts DEF Enrolls, Claimed
  <2>5. GnetInv(C, env.acc, env.wire)
    BY <2>2, <2>3, <2>4, FrameInv DEF GnetState
  <2>6. GnetInv(OnClose(C, "nil"), env.acc, env.wire) /\ Closes(C, OnClose(C, "nil"))
    BY <2>1, <2>5, OnCloseInv
  <2>7. Ended(k, OnClose(C, "nil"))
    <3>1. Ended(k, C) /\ Ended(C, OnClose(C, "nil"))
      BY <2>2, <2>6 DEF Ended, Unmoved
    <3> QED BY <3>1, EndedMore
  <2> QED BY <1>1, <1>3, <2>6, <2>7, EndedStep DEF GnetGoal
<1>4. CASE ~Claimed(k)
  <2>1. Retains(k, L, {"owner", "gconn", "starter", "boot", "in"})
        /\ L.owner = TRUE /\ L.gconn = "open" /\ L.starter = "wait" /\ L.boot = 1
    BY GnetParts DEF Retains, GnetFields
  <2> HIDE DEF L
  <2>2. /\ DOMAIN L = GnetFields /\ L.kind = k.kind /\ L.state = k.state
        /\ L.err = k.err /\ L.start = k.start /\ L.done = k.done /\ L.sig = k.sig
        /\ L.subs = k.subs /\ L.pend = k.pend /\ L.bytes = k.bytes
        /\ L.initiated = k.initiated
        /\ L.pc = k.pc /\ L.batch = k.batch /\ L.segs = k.segs
        /\ L.buf = k.buf /\ L.ctl = k.ctl
        /\ L.stopping = k.stopping /\ L.stopper = k.stopper
    BY <2>1, GnetParts DEF Retains, GnetFields
  <2>3. GnetShape(L)
    <3>1. L.boot = 1 /\ L.owner = TRUE
      BY <2>1
    <3>2. L.boot \in 0..3
      BY <3>1
    <3>3. L.owner \in BOOLEAN
      BY <3>1
    <3> QED BY <2>2, <3>2, <3>3, GnetParts DEF GnetShape
  <2>4. Lives(L)
    BY <1>2, <1>4, <2>1, <2>2, GnetParts DEF Lives, Claimed
  <2>5. Enrolls(L)
    BY <1>1, <1>2, <2>1, <2>2, GnetParts DEF Enrolls, Claimed
  <2>6. GnetInv(L, env.acc, env.wire)
    BY <1>4, <2>2, <2>3, <2>4, <2>5, FrameInv DEF GnetState
  <2>7. Ended(k, L)
    BY <2>2 DEF Ended, Unmoved
  <2> QED BY <1>1, <1>4, <2>6, <2>7, EndedStep DEF GnetGoal
<1> QED BY <1>3, <1>4

(* A caller moves on.                                                      *)
LEMMA PlaceStep ==
  ASSUME NEW K, NEW L, NEW a, NEW w, GnetInv(K, a, w),
         Retains(K, L, Quietly \cup {"starter", "stopper", "stopping"}),
         L.stopping = K.stopping \/ L.stopping = TRUE,
         \/ L.starter = K.starter
         \/ K.starter \in {"wait", "done"} /\ L.starter = "done",
         L.stopper # "idle" => L.stopping
  PROVE  GnetInv(L, a, w) /\ Unmoved(K, L) /\ DOMAIN L = GnetFields
         /\ L.done = K.done /\ L.gconn = K.gconn
<1>1. DOMAIN K = GnetFields /\ Enrolls(K) /\ GnetShape(K)
  BY DEF GnetInv, GnetShape
<1>2. /\ L.state = K.state /\ L.done = K.done /\ L.initiated = K.initiated
      /\ L.owner = K.owner /\ L.gconn = K.gconn /\ L.boot = K.boot
      /\ L.pc = K.pc /\ L.batch = K.batch /\ L.buf = K.buf
  BY <1>1 DEF Retains, Quietly, GnetFields
<1>3. Enrolls(L)
  BY <1>1, <1>2 DEF Enrolls, Claimed
<1>4. L.stopping \in BOOLEAN
  BY <1>1 DEF GnetShape
<1> QED BY <1>3, <1>4, PlaceInv

LEMMA StartReturnsStep ==
  ASSUME GnetState, StartReturns PROVE GnetGoal
<1> DEFINE L == [k EXCEPT !.starter = "done"]
<1>1. k' = L /\ env' = env /\ k.starter = "wait"
  BY DEF StartReturns
<1>2. /\ Retains(k, L, Quietly \cup {"starter", "stopper", "stopping"})
      /\ L.stopping = k.stopping /\ L.starter = "done" /\ L.stopper = k.stopper
  BY GnetParts DEF Retains, Quietly, GnetFields
<1> HIDE DEF L
<1>3. L.stopper # "idle" => L.stopping
  BY <1>2, GnetParts DEF Enrolls
<1>4. GnetInv(L, env.acc, env.wire) /\ Unmoved(k, L)
  BY <1>1, <1>2, <1>3, PlaceStep DEF GnetState
<1> QED BY <1>1, <1>4, EndedStep DEF GnetGoal, Ended

(* A claim and the schedule of the close.                                  *)
LEMMA ClaimStep ==
  ASSUME NEW K, NEW e, NEW a, NEW w, GnetInv(K, a, w), e \notin {"none", "ok", "outbound"}
  PROVE  LET L == ClaimTerminal(K, e)
         IN  /\ GnetInv(L, a, w) /\ Ended(K, L) /\ DOMAIN L = GnetFields
             /\ L.starter = K.starter /\ L.stopper = K.stopper
             /\ L.stopping = K.stopping /\ Claimed(L)
<1> DEFINE L == ClaimTerminal(K, e)
<1>1. /\ GnetInv(L, a, w) /\ Claimed(L) /\ DOMAIN L = GnetFields
      /\ Claimed(K) => L = K
      /\ ~Claimed(K) => Claims(K, L)
      /\ Retains(K, L, {"state", "err", "start", "poll"})
  BY ClaimInv
<1> HIDE DEF L
<1>2. L.starter = K.starter /\ L.stopper = K.stopper /\ L.stopping = K.stopping
  BY <1>1 DEF Retains, GnetFields
<1>3. Unmoved(K, K)
  BY DEF Unmoved
<1>4. Ended(K, L)
  BY <1>1, <1>3 DEF Ended
<1> QED BY <1>1, <1>2, <1>4 DEF L

LEMMA ScheduleStep ==
  ASSUME NEW K, NEW a, NEW w, GnetInv(K, a, w)
  PROVE  LET L == ScheduleOwnerClose(K)
         IN  /\ GnetInv(L, a, w) /\ Ended(K, L) /\ DOMAIN L = GnetFields
             /\ L.starter = K.starter /\ L.stopper = K.stopper
             /\ L.stopping = K.stopping
BY OwnerCloseInv DEF Ended

LEMMA ResolveStep ==
  ASSUME GnetState, ResolveStartCancellation PROVE GnetGoal
<1> DEFINE C == ClaimTerminal(k, "canceled")
           S == ScheduleOwnerClose(C)
           M == IF k.start # "none" \/ Claimed(k) THEN k ELSE S
           L == [M EXCEPT !.starter = "done"]
<1>1. k' = L /\ env' = env /\ k.starter = "wait"
  BY DEF ResolveStartCancellation
<1>2. /\ GnetInv(C, env.acc, env.wire) /\ Ended(k, C)
      /\ C.starter = k.starter /\ C.stopper = k.stopper
      /\ C.stopping = k.stopping
  BY ClaimStep DEF GnetState
<1> HIDE DEF C
<1>3. /\ GnetInv(S, env.acc, env.wire) /\ Ended(C, S) /\ DOMAIN S = GnetFields
      /\ S.starter = C.starter /\ S.stopper = C.stopper
      /\ S.stopping = C.stopping
  BY <1>2, ScheduleStep
<1>4. Ended(k, S)
  BY <1>2, <1>3, EndedMore
<1> HIDE DEF S
<1>5. /\ GnetInv(M, env.acc, env.wire) /\ Ended(k, M) /\ DOMAIN M = GnetFields
      /\ M.starter = "wait" /\ M.stopper = k.stopper /\ M.stopping = k.stopping
  BY <1>1, <1>2, <1>3, <1>4, GnetParts DEF GnetState, Ended, Unmoved
<1> HIDE DEF M
<1>6. /\ Retains(M, L, Quietly \cup {"starter", "stopper", "stopping"})
      /\ L.stopping = M.stopping /\ L.starter = "done" /\ L.stopper = M.stopper
  BY <1>5 DEF Retains, Quietly, GnetFields
<1> HIDE DEF L
<1>7. L.stopper # "idle" => L.stopping
  BY <1>5, <1>6, GnetParts DEF Enrolls
<1>8. GnetInv(L, env.acc, env.wire) /\ Unmoved(M, L)
  BY <1>5, <1>6, <1>7, PlaceStep
<1>9. Ended(k, L)
  <2>1. Ended(M, L)
    BY <1>8 DEF Ended
  <2> QED BY <1>5, <2>1, EndedMore
<1> QED BY <1>1, <1>8, <1>9, EndedStep DEF GnetGoal

(* A step of a caller: what it does to the link, then its own place.       *)
LEMMA CallerStep ==
  ASSUME GnetState, NEW M, NEW L, GnetInv(M, env.acc, env.wire), Ended(k, M),
         M.starter = k.starter, M.stopper = k.stopper, M.stopping = k.stopping,
         Retains(M, L, Quietly \cup {"starter", "stopper", "stopping"}),
         L.starter = M.starter, L.stopping = M.stopping,
         L.stopper = M.stopper \/ (k.stopper # "idle" /\ L.stopper # "idle")
  PROVE  Goal(k, env.acc, env.wire, L, env.acc, env.wire)
<1>1. L.stopper # "idle" => L.stopping
  BY GnetParts DEF Enrolls
<1>2. GnetInv(L, env.acc, env.wire) /\ Unmoved(M, L)
  BY <1>1, PlaceStep
<1>3. Ended(M, L)
  BY <1>2 DEF Ended
<1> QED BY <1>2, <1>3, EndedMore, EndedStep

LEMMA SelfEnded == ASSUME NEW K PROVE Ended(K, K) /\ Unmoved(K, K)
BY DEF Ended, Unmoved

LEMMA GCloseStep ==
  ASSUME GnetState, GClose PROVE GnetGoal
<1> DEFINE M == ClaimTerminal(k, "nil")
           L == [M EXCEPT !.closer = IF Claimed(k) THEN "wait" ELSE "schedule"]
<1>1. k' = L /\ env' = env
  BY DEF GClose
<1>2. /\ GnetInv(M, env.acc, env.wire) /\ Ended(k, M) /\ DOMAIN M = GnetFields
      /\ M.starter = k.starter /\ M.stopper = k.stopper /\ M.stopping = k.stopping
  BY ClaimStep DEF GnetState
<1> HIDE DEF M
<1>3. /\ Retains(M, L, Quietly \cup {"starter", "stopper", "stopping"})
      /\ L.starter = M.starter /\ L.stopping = M.stopping /\ L.stopper = M.stopper
  BY <1>2 DEF Retains, Quietly, GnetFields
<1> HIDE DEF L
<1> QED BY <1>1, <1>2, <1>3, CallerStep DEF GnetGoal

LEMMA GCloseSchedulesStep ==
  ASSUME GnetState, GCloseSchedules PROVE GnetGoal
<1> DEFINE M == ScheduleOwnerClose(k)
           L == [M EXCEPT !.closer = "wait"]
<1>1. k' = L /\ env' = env
  BY DEF GCloseSchedules
<1>2. /\ GnetInv(M, env.acc, env.wire) /\ Ended(k, M) /\ DOMAIN M = GnetFields
      /\ M.starter = k.starter /\ M.stopper = k.stopper /\ M.stopping = k.stopping
  BY ScheduleStep DEF GnetState
<1> HIDE DEF M
<1>3. /\ Retains(M, L, Quietly \cup {"starter", "stopper", "stopping"})
      /\ L.starter = M.starter /\ L.stopping = M.stopping /\ L.stopper = M.stopper
  BY <1>2 DEF Retains, Quietly, GnetFields
<1> HIDE DEF L
<1> QED BY <1>1, <1>2, <1>3, CallerStep DEF GnetGoal

LEMMA StopClaimsStep ==
  ASSUME GnetState, StopClaims PROVE GnetGoal
<1> DEFINE M == ClaimTerminal(k, "nil")
           L == [M EXCEPT !.stopper = IF Claimed(k) THEN "enrolls" ELSE "schedule"]
<1>1. k' = L /\ env' = env /\ k.stopper = "claim"
  BY DEF StopClaims
<1>2. /\ GnetInv(M, env.acc, env.wire) /\ Ended(k, M) /\ DOMAIN M = GnetFields
      /\ M.starter = k.starter /\ M.stopper = k.stopper /\ M.stopping = k.stopping
  BY ClaimStep DEF GnetState
<1> HIDE DEF M
<1>3. /\ Retains(M, L, Quietly \cup {"starter", "stopper", "stopping"})
      /\ L.starter = M.starter /\ L.stopping = M.stopping /\ L.stopper # "idle"
  BY <1>2 DEF Retains, Quietly, GnetFields
<1> HIDE DEF L
<1> QED BY <1>1, <1>2, <1>3, CallerStep DEF GnetGoal

LEMMA StopSchedulesStep ==
  ASSUME GnetState, StopSchedules PROVE GnetGoal
<1> DEFINE M == ScheduleOwnerClose(k)
           L == [M EXCEPT !.stopper = "enrolls"]
<1>1. k' = L /\ env' = env /\ k.stopper = "schedule"
  BY DEF StopSchedules
<1>2. /\ GnetInv(M, env.acc, env.wire) /\ Ended(k, M) /\ DOMAIN M = GnetFields
      /\ M.starter = k.starter /\ M.stopper = k.stopper /\ M.stopping = k.stopping
  BY ScheduleStep DEF GnetState
<1> HIDE DEF M
<1>3. /\ Retains(M, L, Quietly \cup {"starter", "stopper", "stopping"})
      /\ L.starter = M.starter /\ L.stopping = M.stopping /\ L.stopper # "idle"
  BY <1>2 DEF Retains, Quietly, GnetFields
<1> HIDE DEF L
<1> QED BY <1>1, <1>2, <1>3, CallerStep DEF GnetGoal

LEMMA BeginStopStep ==
  ASSUME GnetState, BeginStop PROVE GnetGoal
<1> DEFINE L == [k EXCEPT !.stopper = "claim", !.stopping = TRUE]
<1>1. k' = L /\ env' = env
  BY DEF BeginStop
<1>2. /\ Retains(k, L, Quietly \cup {"starter", "stopper", "stopping"})
      /\ L.stopping = TRUE /\ L.starter = k.starter
  BY GnetParts DEF Retains, Quietly, GnetFields
<1> HIDE DEF L
<1>3. GnetInv(L, env.acc, env.wire) /\ Unmoved(k, L)
  BY <1>2, PlaceStep DEF GnetState
<1> QED BY <1>1, <1>3, EndedStep DEF GnetGoal, Ended

(* The runtime stops: an open stream is closed, and a link that never had  *)
(* one is finalized.                                                       *)
LEMMA StopClientStep ==
  ASSUME GnetState, StopClient PROVE GnetGoal
<1> DEFINE K == IF k.gconn = "open" THEN OnClose(k, "net closed") ELSE k
           M == [K EXCEPT !.stopped = TRUE, !.tasks = {}, !.stopper = "done"]
           L == FinalizeAfterStreamClose(M)
<1>1. k' = L /\ env' = env /\ k.stopper = "enrolls" /\ k.starter # "enrolling"
  BY DEF StopClient
<1>2. k.stopping
  BY <1>1, GnetParts DEF Enrolls
<1>3. /\ GnetInv(K, env.acc, env.wire) /\ Ended(k, K) /\ DOMAIN K = GnetFields
      /\ K.starter = k.starter /\ K.stopper = k.stopper
      /\ K.gconn = "open" => K.done
  <2>1. CASE k.gconn = "open"
    BY <2>1, OnCloseInv DEF GnetState, Ended
  <2>2. CASE k.gconn # "open"
    BY <2>2, GnetParts, SelfEnded DEF GnetState
  <2> QED BY <2>1, <2>2
<1> HIDE DEF K
<1>4. K.stopping /\ K.gconn # "open"
  BY <1>1, <1>3 DEF GnetInv, Enrolls
<1>5. /\ Retains(K, M, Quietly \cup {"starter", "stopper", "stopping"})
      /\ M.stopping = K.stopping /\ M.starter = K.starter
  BY <1>3 DEF Retains, Quietly, GnetFields
<1> HIDE DEF M
<1>6. /\ GnetInv(M, env.acc, env.wire) /\ Unmoved(K, M) /\ M.done = K.done
      /\ M.gconn = K.gconn
  BY <1>3, <1>4, <1>5, PlaceStep
<1>7. GnetInv(L, env.acc, env.wire) /\ Ended(M, L)
  <2>1. CASE M.done
    <3>1. L = M
      BY <2>1 DEF FinalizeAfterStreamClose
    <3> QED BY <1>6, <3>1, SelfEnded
  <2>2. CASE ~M.done
    BY <1>1, <1>3, <1>4, <1>5, <1>6, <2>2, FinalizeInv DEF Ended
  <2> QED BY <2>1, <2>2
<1>8. Ended(k, L)
  <2>1. Ended(K, M)
    BY <1>6 DEF Ended
  <2>2. Ended(k, M)
    BY <1>3, <2>1, EndedMore
  <2> QED BY <1>7, <2>2, EndedMore
<1> QED BY <1>1, <1>7, <1>8, EndedStep DEF GnetGoal

-----------------------------------------------------------------------------
(* Steps that only touch what the contract does not mention.               *)
LEMMA QuietGoal ==
  ASSUME GnetState, Retains(k, k', Quietly), env'.acc = env.acc, env'.wire = env.wire
  PROVE  GnetGoal
BY QuietStep DEF GnetState, GnetGoal

LEMMA CloseReturnsStep ==
  ASSUME GnetState, CloseReturns PROVE GnetGoal
<1>1. k' = [k EXCEPT !.closer = "done"] /\ env' = env
  BY DEF CloseReturns
<1>2. Retains(k, k', Quietly)
  BY <1>1, GnetParts DEF Retains, Quietly, GnetFields
<1> QED BY <1>1, <1>2, QuietGoal

LEMMA TakeEventStep ==
  ASSUME GnetState, TakeEvent PROVE GnetGoal
<1>1. k' = [k EXCEPT !.evq = Tail(@)] /\ env' = env
  BY DEF TakeEvent
<1>2. Retains(k, k', Quietly)
  BY <1>1, GnetParts DEF Retains, Quietly, GnetFields
<1> QED BY <1>1, <1>2, QuietGoal

LEMMA ReconcileKeeps ==
  ASSUME NEW K, "charges" \in DOMAIN K
  PROVE  Retains(K, Reconcile(K), {"charges"})
BY DEF Retains, Reconcile

LEMMA SnapshotStep ==
  ASSUME GnetState, Snapshot PROVE GnetGoal
<1>1. k' = Reconcile(k) /\ env' = env
  BY DEF Snapshot
<1>2. Retains(k, k', {"charges"})
  BY <1>1, GnetParts, ReconcileKeeps DEF GnetFields
<1>3. Retains(k, k', Quietly)
  BY <1>2 DEF Retains, Quietly
<1> QED BY <1>1, <1>3, QuietGoal

LEMMA FireStep ==
  ASSUME GnetState, FireOutboundPoll PROVE GnetGoal
<1> DEFINE M == [k EXCEPT !.poll = FALSE]
<1>1. k' = Execute(M, "wake") /\ env' = env
  BY DEF FireOutboundPoll
<1>2. Retains(k, M, {"poll"}) /\ DOMAIN M = GnetFields
  BY GnetParts DEF Retains, GnetFields
<1> HIDE DEF M
<1>3. Retains(M, k', {"tasks"})
  BY <1>1, <1>2, ExecuteKeeps
<1>4. Retains(k, k', Quietly)
  BY <1>2, <1>3, KeepsMore DEF Quietly
<1> QED BY <1>1, <1>4, QuietGoal

LEMMA PeerSendsStep ==
  ASSUME GnetState, NEW f, PeerSends(f), DOMAIN env = {"max", "acc", "wire", "sent"}
  PROVE  GnetGoal
<1>1. k' = [k EXCEPT !.in = Append(@, f)] /\ env' = [env EXCEPT !.sent = @ + 1]
  BY DEF PeerSends
<1>2. Retains(k, k', Quietly)
  BY <1>1, GnetParts DEF Retains, Quietly, GnetFields
<1>3. env'.acc = env.acc /\ env'.wire = env.wire
  BY <1>1
<1> QED BY <1>2, <1>3, QuietGoal

LEMMA TakeSignalStep ==
  ASSUME GnetState, TakeSignal PROVE GnetGoal
<1>1. k' = [k EXCEPT !.sig = FALSE] /\ env' = env /\ k.sig
  BY DEF TakeSignal
<1>2. Retains(k, k', Quietly \cup {"sig"}) /\ k'.sig = FALSE
  BY <1>1, GnetParts DEF Retains, Quietly, GnetFields
<1>3. GnetInv(k', env.acc, env.wire)
  BY <1>2, QuietInv DEF GnetState
<1>4. Signals(k, k')
  BY <1>1, <1>2, QuietFields, GnetParts DEF Signals
<1> QED BY <1>1, <1>3, <1>4 DEF GnetGoal, Goal, Allowed

(* The stream ends, or its owner closes it.                                *)
LEMMA StreamLostStep ==
  ASSUME GnetState, StreamLost PROVE GnetGoal
<1>1. k' = OnClose(k, "transport") /\ env' = env /\ k.gconn = "open"
  BY DEF StreamLost
<1>2. GnetInv(k', env.acc, env.wire) /\ Ended(k, k')
  BY <1>1, OnCloseInv DEF GnetState, Ended
<1> QED BY <1>1, <1>2, EndedStep DEF GnetGoal

LEMMA WithoutLaw ==
  ASSUME NEW K, NEW task, NEW a, NEW w, GnetInv(K, a, w)
  PROVE  LET M == Without(K, task)
         IN  /\ GnetInv(M, a, w) /\ Unmoved(K, M) /\ DOMAIN M = GnetFields
             /\ Retains(K, M, {"tasks"})
<1> DEFINE M == Without(K, task)
<1>1. DOMAIN K = GnetFields
  BY DEF GnetInv, GnetShape
<1>2. Retains(K, M, {"tasks"})
  BY <1>1 DEF Retains, GnetFields, Without
<1> HIDE DEF M
<1>3. Retains(K, M, Quietly) /\ DOMAIN M = GnetFields
  BY <1>1, <1>2 DEF Retains, Quietly
<1>4. GnetInv(M, a, w) /\ Unmoved(K, M)
  BY <1>3, QuietStep DEF Goal
<1> QED BY <1>2, <1>3, <1>4 DEF M

LEMMA OwnerClosesStep ==
  ASSUME GnetState, OwnerCloses PROVE GnetGoal
<1> DEFINE M == Without(k, "close")
<1>1. k' = (IF k.gconn = "open" THEN OnClose(M, "nil") ELSE M) /\ env' = env
  BY DEF OwnerCloses
<1>2. /\ GnetInv(M, env.acc, env.wire) /\ Unmoved(k, M) /\ DOMAIN M = GnetFields
      /\ Retains(k, M, {"tasks"})
  BY WithoutLaw DEF GnetState
<1> HIDE DEF M
<1>3. M.gconn = k.gconn /\ Ended(k, M)
  BY <1>2, GnetParts DEF Retains, GnetFields, Ended
<1>4. CASE k.gconn = "open"
  <2>1. k' = OnClose(M, "nil")
    BY <1>1, <1>4
  <2>2. GnetInv(k', env.acc, env.wire) /\ Ended(M, k')
    BY <1>2, <1>3, <1>4, <2>1, OnCloseInv DEF Ended
  <2> QED BY <1>1, <1>3, <2>2, EndedMore, EndedStep DEF GnetGoal
<1>5. CASE k.gconn # "open"
  BY <1>1, <1>2, <1>3, <1>5, EndedStep DEF GnetGoal
<1> QED BY <1>4, <1>5

-----------------------------------------------------------------------------
(* TrySubmit.                                                              *)
LEMMA NumberedMore ==
  ASSUME NEW q, NEW m, NEW a \in Seq(Nat), Numbered(q, m, a), NEW x \in Nat
  PROVE  Numbered(q, m, Append(a, x))
<1>1. /\ q \in Seq(Subs) /\ m \in Nat /\ m + Len(q) <= Len(a) /\ Len(q) \in Nat
      /\ Len(a) \in Nat
  BY DEF Numbered
<1>2. Len(Append(a, x)) = Len(a) + 1 /\ \A i \in 1..Len(a) : Append(a, x)[i] = a[i]
  OBVIOUS
<1>3. \A i \in 1..Len(q) : m + i \in 1..Len(a)
  BY <1>1
<1> QED BY <1>1, <1>2, <1>3 DEF Numbered

LEMMA NumberedNext ==
  ASSUME NEW q, NEW m, NEW a \in Seq(Nat), Numbered(q, m, a), NEW x \in Nat,
         m + Len(q) = Len(a)
  PROVE  LET p == Append(q, [id |-> Len(a) + 1, size |-> x])
         IN  p \in Seq(Subs) /\ Len(p) = Len(q) + 1 /\ Numbered(p, m, Append(a, x))
<1> DEFINE s == [id |-> Len(a) + 1, size |-> x]
           p == Append(q, s)
           b == Append(a, x)
<1>1. /\ q \in Seq(Subs) /\ m \in Nat /\ Len(q) \in Nat /\ Len(a) \in Nat
  BY DEF Numbered
<1>2. s \in Subs /\ s.id = Len(a) + 1 /\ s.size = x
  BY <1>1 DEF Subs
<1> HIDE DEF s
<1>3. /\ p \in Seq(Subs) /\ Len(p) = Len(q) + 1 /\ p[Len(q) + 1] = s
      /\ \A i \in 1..Len(q) : p[i] = q[i]
  BY <1>1, <1>2
<1>4. /\ b \in Seq(Nat) /\ Len(b) = Len(a) + 1 /\ b[Len(a) + 1] = x
      /\ \A i \in 1..Len(a) : b[i] = a[i]
  OBVIOUS
<1> HIDE DEF p, b
<1>5. ASSUME NEW i \in 1..Len(p) PROVE p[i].id = m + i /\ p[i].size = b[m + i]
  <2>1. CASE i \in 1..Len(q)
    <3>1. m + i \in 1..Len(a)
      BY <1>1, <2>1
    <3> QED BY <1>3, <1>4, <2>1, <3>1 DEF Numbered
  <2>2. CASE i = Len(q) + 1
    <3>1. \A x1, y1 \in Nat : x1 + (y1 + 1) = (x1 + y1) + 1
      OBVIOUS
    <3>2. m + i = Len(a) + 1
      BY <1>1, <2>2, <3>1
    <3> QED BY <1>2, <1>3, <1>4, <2>2, <3>2
  <2> QED BY <1>1, <1>3, <2>1, <2>2
<1>6. m + Len(p) <= Len(b)
  BY <1>1, <1>3, <1>4
<1>7. Numbered(p, m, b)
  BY <1>1, <1>3, <1>5, <1>6 DEF Numbered
<1> QED BY <1>3, <1>7 DEF p, b, s

LEMMA OrderMore ==
  ASSUME NEW a, NEW w, InOrder(a, w), NEW x \in Nat
  PROVE  InOrder(Append(a, x), w)
<1>1. a \in Seq(Nat) /\ w \in Seq(Nat) /\ Len(w) <= Len(a) /\ Len(a) \in Nat
      /\ Len(w) \in Nat
  BY DEF InOrder
<1>2. Append(a, x) \in Seq(Nat) /\ Len(Append(a, x)) = Len(a) + 1
  BY <1>1
<1> QED BY <1>1, <1>2 DEF InOrder

LEMMA SubmitInv ==
  ASSUME GnetState, NEW x \in Nat, k.state = "ready", k.pend < Limits.subs,
         x <= Limits.subBytes - k.bytes
  PROVE  LET S == Submitted(x)
         IN  /\ GnetInv(S, Append(env.acc, x), env.wire) /\ DOMAIN S = GnetFields
             /\ Retains(k, S, {"subs", "pend", "bytes"})
             /\ S.pend = k.pend + 1 /\ S.bytes = k.bytes + x
<1> DEFINE s == [id |-> Len(env.acc) + 1, size |-> x]
           p == Append(k.subs, s)
           b == Append(env.acc, x)
           S == Submitted(x)
<1>1. /\ Retains(k, S, {"subs", "pend", "bytes"}) /\ DOMAIN S = GnetFields
      /\ S.subs = p /\ S.pend = k.pend + 1 /\ S.bytes = k.bytes + x
  BY GnetParts DEF Submitted, Retains, GnetFields
<1> HIDE DEF S
<1>2. /\ S.kind = k.kind /\ S.state = k.state
      /\ S.err = k.err /\ S.start = k.start /\ S.done = k.done /\ S.sig = k.sig
      /\ S.starter = k.starter /\ S.initiated = k.initiated
      /\ S.owner = k.owner /\ S.gconn = k.gconn /\ S.boot = k.boot
      /\ S.pc = k.pc /\ S.batch = k.batch /\ S.segs = k.segs
      /\ S.buf = k.buf /\ S.ctl = k.ctl
      /\ S.stopping = k.stopping /\ S.stopper = k.stopper
  BY <1>1, GnetParts DEF Retains, GnetFields
<1>3. ~Claimed(k) /\ ~k.done /\ k.boot = 3
  BY GnetParts DEF Claimed, Lives
<1>4. GnetQueue(k, env.acc) /\ env.acc \in Seq(Nat) /\ Len(env.acc) \in Nat
  BY <1>3, GnetParts DEF GnetState, GnetInv, InOrder
<1>5. k.subs \in Seq(Subs) /\ Len(k.subs) \in Nat /\ k.batch \in Seq(Subs)
      /\ Len(k.batch) \in Nat
  BY GnetParts DEF GnetShape
<1>6. p \in Seq(Subs) /\ Len(p) = Len(k.subs) + 1
      /\ Numbered(p, Len(env.acc) - Len(k.subs), b)
  <2>1. Numbered(k.subs, Len(env.acc) - Len(k.subs), env.acc)
    BY <1>4 DEF GnetQueue
  <2>2. (Len(env.acc) - Len(k.subs)) + Len(k.subs) = Len(env.acc)
    BY <1>4, <1>5
  <2> QED BY <1>4, <2>1, <2>2, NumberedNext
<1>7. Numbered(k.batch, (Len(env.acc) - Len(k.subs)) - Len(k.batch), b)
  BY <1>4, NumberedMore DEF GnetQueue
<1>8. Len(b) = Len(env.acc) + 1
  BY <1>4
<1>9. Charged(S.pend, S.bytes, b) /\ Ledger(S.segs, S.buf, S.ctl, S.pend, b, env.wire)
  <2>1. Charged(k.pend, k.bytes, env.acc)
    BY DEF GnetState, GnetInv
  <2>2. Ledger(k.segs, k.buf, k.ctl, k.pend, env.acc, env.wire)
    BY <1>3, GnetParts
  <2>3. Charged(k.pend + 1, k.bytes + x, Append(env.acc, x))
    BY <2>1, ChargeAccepts
  <2>4. Ledger(k.segs, k.buf, k.ctl, k.pend + 1, Append(env.acc, x), env.wire)
    BY <2>1, <2>2, LedgerAccepts
  <2> QED BY <1>1, <1>2, <2>3, <2>4
<1> HIDE DEF p, b
<1>10. GnetQueue(S, b)
  <2>1. Len(b) - Len(p) = Len(env.acc) - Len(k.subs)
    BY <1>4, <1>5, <1>6, <1>8
  <2>2. S.pend = ItemsTo(S.segs, Len(S.segs)) + Len(S.batch) + Len(S.subs)
    <3>1. k.pend = ItemsTo(k.segs, Len(k.segs)) + Len(k.batch) + Len(k.subs)
      BY <1>4 DEF GnetQueue
    <3>2. ItemsTo(k.segs, Len(k.segs)) \in Nat
      <4>1. Ledger(k.segs, k.buf, k.ctl, k.pend, env.acc, env.wire)
        BY <1>3, GnetParts
      <4>2. k.segs \in Seq(Segs)
        BY <4>1 DEF Ledger, Booked
      <4>3. Len(k.segs) \in Nat /\ Len(k.segs) <= Len(k.segs)
        BY <4>2
      <4> QED BY <4>2, <4>3, ItemsBound
    <3>3. S.pend = (ItemsTo(k.segs, Len(k.segs)) + Len(k.batch) + Len(k.subs)) + 1
      BY <1>1, <3>1
    <3>4. S.segs = k.segs /\ S.batch = k.batch /\ Len(S.subs) = Len(k.subs) + 1
      BY <1>1, <1>2, <1>6
    <3>5. \A i, j, n \in Nat : (i + j + n) + 1 = i + j + (n + 1)
      OBVIOUS
    <3>6. S.pend = ItemsTo(k.segs, Len(k.segs)) + Len(k.batch) + (Len(k.subs) + 1)
      BY <1>5, <3>2, <3>3, <3>5
    <3> QED BY <3>4, <3>6
  <2> QED BY <1>1, <1>2, <1>6, <1>7, <2>1, <2>2 DEF GnetQueue
<1>11. InOrder(b, env.wire)
  BY OrderMore DEF b, GnetState, GnetInv
<1>12. GnetShape(S) /\ Enrolls(S) /\ ~Overflows(S)
  BY <1>1, <1>2, <1>6, GnetParts
     DEF GnetShape, Enrolls, Claimed, Overflows, Outbound, GnetState, GnetInv
<1>13. Lives(S)
  BY <1>2, <1>3, GnetParts, BootedLives
<1>14. GnetInv(S, b, env.wire)
  BY <1>9, <1>10, <1>11, <1>12, <1>13 DEF GnetInv
<1> QED BY <1>1, <1>14 DEF S, b

LEMMA TrySubmitStep ==
  ASSUME GnetState, NEW x \in Nat \ {0}, TrySubmit(x, GnetWake(Submitted(x))),
         DOMAIN env = {"max", "acc", "wire", "sent"}
  PROVE  GnetGoal
<1> DEFINE S == Submitted(x)
           L == GnetWake(S)
           b == Append(env.acc, x)
<1>1. /\ k' = L /\ env' = [env EXCEPT !.acc = Append(@, x)] /\ k.state = "ready"
      /\ k.pend < Limits.subs /\ x <= Limits.subBytes - k.bytes /\ x <= Limits.subBytes
  BY DEF TrySubmit
<1>2. env'.acc = b /\ env'.wire = env.wire
  BY <1>1
<1>3. /\ GnetInv(S, b, env.wire) /\ DOMAIN S = GnetFields
      /\ Retains(k, S, {"subs", "pend", "bytes"})
      /\ S.pend = k.pend + 1 /\ S.bytes = k.bytes + x
  BY <1>1, SubmitInv
<1> HIDE DEF S, b
<1>4. Retains(S, L, {"tasks", "drain"})
  BY <1>3, NextDrainKeeps
<1> HIDE DEF L
<1>5. Retains(S, L, Quietly)
  BY <1>4 DEF Retains, Quietly
<1>6. GnetInv(L, b, env.wire) /\ Unmoved(S, L)
  BY <1>3, <1>5, QuietStep DEF Goal
<1>7. Accepts(k, L, x)
  <2>1. S.state = k.state /\ S.start = k.start /\ S.err = k.err /\ S.sig = k.sig
    BY <1>3, GnetParts DEF Retains, GnetFields
  <2>2. x \in 1..Limits.subBytes
    BY <1>1, LimitsAssumption
  <2> QED BY <1>1, <1>3, <1>6, <2>1, <2>2 DEF Accepts, Unmoved
<1>8. Allowed(k, env.acc, env.wire, L, b, env.wire)
  BY <1>7 DEF Allowed, b
<1> QED BY <1>1, <1>2, <1>6, <1>8 DEF GnetGoal, Goal

-----------------------------------------------------------------------------
(* The socket takes bytes: only the buffer changes.                        *)
LEMMA BufferInv ==
  ASSUME NEW K, NEW L, NEW a, NEW w, NEW v, GnetInv(K, a, w), K.gconn = "open",
         Retains(K, L, {"buf"}), Ledger(K.segs, L.buf, K.ctl, K.pend, a, v), InOrder(a, v)
  PROVE  GnetInv(L, a, v) /\ Unmoved(K, L) /\ ~L.done
<1>1. GnetShape(K) /\ DOMAIN K = GnetFields /\ Lives(K) /\ Enrolls(K) /\ ~K.done /\ K.owner
      /\ Charged(K.pend, K.bytes, a) /\ (~Claimed(K) => GnetQueue(K, a))
  BY DEF GnetInv, GnetShape, Enrolls
<1>2. /\ DOMAIN L = GnetFields /\ L.kind = K.kind /\ L.state = K.state
      /\ L.err = K.err /\ L.start = K.start /\ L.done = K.done /\ L.sig = K.sig
      /\ L.subs = K.subs /\ L.pend = K.pend /\ L.bytes = K.bytes
      /\ L.starter = K.starter /\ L.initiated = K.initiated
      /\ L.owner = K.owner /\ L.gconn = K.gconn /\ L.boot = K.boot
      /\ L.pc = K.pc /\ L.batch = K.batch /\ L.segs = K.segs /\ L.ctl = K.ctl
      /\ L.stopping = K.stopping /\ L.stopper = K.stopper
  BY <1>1 DEF Retains, GnetFields
<1>3. GnetShape(L) /\ Lives(L)
  BY <1>1, <1>2 DEF GnetShape, Lives, Claimed
<1>4. Enrolls(L)
  BY <1>1, <1>2 DEF Enrolls, Claimed
<1>5. ~Overflows(L)
  BY <1>1, CeilingCovers DEF Overflows, Outbound
<1>6. ~Claimed(L) => GnetQueue(L, a)
  BY <1>1, <1>2 DEF GnetQueue, Claimed
<1> QED BY <1>1, <1>2, <1>3, <1>4, <1>5, <1>6 DEF GnetInv, Unmoved

LEMMA UnmovedProgress ==
  ASSUME NEW K, NEW L, Unmoved(K, L), K.sig \in BOOLEAN, K.pend \in Nat
  PROVE  Progresses(K, L)
<1>1. L.pend <= K.pend /\ ~(L.pend < K.pend)
  BY DEF Unmoved
<1> QED BY <1>1 DEF Unmoved, Progresses

LEMMA NextInOrder ==
  ASSUME NEW a, NEW w, InOrder(a, w), Len(w) + 1 <= Len(a)
  PROVE  InOrder(a, Append(w, Len(w) + 1))
<1>1. a \in Seq(Nat) /\ w \in Seq(Nat) /\ Len(w) \in Nat
  BY DEF InOrder
<1> DEFINE v == Append(w, Len(w) + 1)
<1>2. /\ v \in Seq(Nat) /\ Len(v) = Len(w) + 1 /\ v[Len(w) + 1] = Len(w) + 1
      /\ \A i \in 1..Len(w) : v[i] = w[i]
  BY <1>1
<1> HIDE DEF v
<1>3. ASSUME NEW i \in 1..Len(v) PROVE v[i] = i
  <2>1. i \in 1..Len(w) \/ i = Len(w) + 1
    BY <1>1, <1>2
  <2> QED BY <1>2, <2>1 DEF InOrder
<1> QED BY <1>1, <1>2, <1>3 DEF InOrder, v

LEMMA SocketWritesStep ==
  ASSUME GnetState, SocketWrites, DOMAIN env = {"max", "acc", "wire", "sent"}
  PROVE  GnetGoal
<1> DEFINE a == env.acc
           w == env.wire
           v == env'.wire
<1>1. k.buf # <<>> /\ k.gconn = "open" /\ GnetInv(k, a, w)
  BY DEF SocketWrites, Writable, GnetState
<1>2. ~k.done /\ k.sig \in BOOLEAN /\ k.pend \in Nat /\ InOrder(a, w)
      /\ k.pend <= Len(a) /\ DOMAIN k = GnetFields
  BY <1>1, GnetParts DEF Enrolls, GnetInv, Charged
<1>3. Ledger(k.segs, k.buf, k.ctl, k.pend, a, w)
  BY <1>2, GnetParts
<1>4. ASSUME Retains(k, k', {"buf"}), Ledger(k.segs, k'.buf, k.ctl, k.pend, a, v),
             InOrder(a, v), Len(w) <= Len(v), env'.acc = a
      PROVE  GnetGoal
  <2> HIDE DEF a, w, v
  <2>1. GnetInv(k', a, v) /\ Unmoved(k, k') /\ ~k'.done
    BY <1>1, <1>4, BufferInv
  <2>2. Progresses(k, k')
    BY <1>2, <2>1, UnmovedProgress
  <2>3. Goal(k, a, w, k', a, v)
    BY <1>4, <2>1, <2>2, ProgressStep
  <2> QED BY <1>4, <2>3 DEF GnetGoal, a, w, v
<1>5. CASE k.buf[1].left > 1
  <2>1. k' = [k EXCEPT !.buf[1].left = @ - 1] /\ env' = env
    BY <1>5 DEF SocketWrites
  <2>2. Retains(k, k', {"buf"}) /\ k'.buf = [k.buf EXCEPT ![1].left = @ - 1]
    BY <1>2, <2>1 DEF Retains, GnetFields
  <2>3. Buffered(k.buf, k.segs)
    BY <1>3 DEF Ledger
  <2>4. Buffered(k'.buf, k.segs) /\ Len(k'.buf) = Len(k.buf)
    BY <1>1, <1>5, <2>2, <2>3, BufferedByte
  <2>5. Ledger(k.segs, k'.buf, k.ctl, k.pend, a, w)
    BY <1>3, <2>4 DEF Ledger
  <2>6. Len(w) <= Len(w)
    BY <1>2 DEF InOrder
  <2> QED BY <1>2, <1>4, <2>1, <2>2, <2>5, <2>6
<1>6. CASE ~(k.buf[1].left > 1)
  <2> DEFINE x == k.buf[1]
  <2>1. /\ k' = [k EXCEPT !.buf = Tail(@)]
        /\ env' = IF x.control THEN env ELSE [env EXCEPT !.wire = Append(@, x.id)]
    BY <1>6 DEF SocketWrites
  <2>2. Retains(k, k', {"buf"}) /\ k'.buf = Tail(k.buf)
    BY <1>2, <2>1 DEF Retains, GnetFields
  <2>3. env'.acc = a /\ v = (IF x.control THEN w ELSE Append(w, x.id))
    BY <2>1
  <2>4. w \in Seq(Nat) /\ Len(w) \in Nat
    BY <1>2 DEF InOrder
  <2>5. x \in Segs
    <3>1. k.buf \in Seq(Segs)
      BY <1>3 DEF Ledger, Buffered
    <3> QED BY <1>1, <3>1
  <2>6. Len(v) = Len(w) + (IF x.control THEN 0 ELSE 1)
    <3>1. x.id \in Nat
      BY <2>5 DEF Segs
    <3> HIDE DEF x, w, v
    <3> QED BY <2>3, <2>4, <3>1
  <2>7. /\ Ledger(k.segs, Tail(k.buf), k.ctl, k.pend, a, v)
        /\ ~x.control => x.id = Len(w) + 1 /\ Len(w) + 1 <= Len(a)
    <3>1. /\ Ledger(k.segs, k.buf, k.ctl, k.pend, a, w) /\ k.buf # <<>>
          /\ k.pend \in Nat /\ k.pend <= Len(a)
          /\ Len(v) = Len(w) + (IF k.buf[1].control THEN 0 ELSE 1)
      BY <1>1, <1>2, <1>3, <2>6
    <3> HIDE DEF a, w, v, x
    <3>2. /\ Ledger(k.segs, Tail(k.buf), k.ctl, k.pend, a, v)
          /\ ~k.buf[1].control => k.buf[1].id = Len(w) + 1 /\ Len(w) + 1 <= Len(a)
      BY <3>1, LedgerFlushes
    <3> QED BY <3>2 DEF x
  <2> HIDE DEF x, w, v, a
  <2>8. CASE x.control
    <3>1. v = w /\ Len(w) <= Len(v)
      BY <2>3, <2>4, <2>8
    <3> QED BY <1>2, <1>4, <2>2, <2>3, <2>7, <3>1
  <2>9. CASE ~x.control
    <3>1. v = Append(w, Len(w) + 1) /\ Len(w) + 1 <= Len(a)
      BY <2>3, <2>7, <2>9
    <3>2. InOrder(a, v)
      BY <1>2, <3>1, NextInOrder
    <3>3. Len(w) <= Len(v)
      BY <2>4, <3>1
    <3> QED BY <1>4, <2>2, <2>3, <2>7, <3>2, <3>3
  <2> QED BY <2>8, <2>9
<1> QED BY <1>5, <1>6

-----------------------------------------------------------------------------
(* The size of a batch.                                                    *)
LEMMA BoundedMax ==
  ASSUME NEW n \in Nat, NEW S \in SUBSET (0..n), S # {}
  PROVE  Max(S) \in S
<1> DEFINE P(T) == \E x \in T : \A y \in T : x >= y
           G == {m \in Nat : \A T \in SUBSET (0..m) : T # {} => P(T)}
<1>1. 0 \in G
  <2>1. ASSUME NEW T \in SUBSET (0..0), T # {} PROVE P(T)
    <3>1. \A y \in T : y = 0
      OBVIOUS
    <3>2. PICK x \in T : TRUE
      BY <2>1
    <3>3. \A y \in T : x >= y
      BY <3>1
    <3> QED BY <3>2, <3>3
  <2> QED BY <2>1
<1>2. ASSUME NEW m \in Nat, m \in G PROVE m + 1 \in G
  <2>1. ASSUME NEW T \in SUBSET (0..m + 1), T # {} PROVE P(T)
    <3>1. \A y \in T : y \in Nat /\ y <= m + 1
      OBVIOUS
    <3>2. CASE m + 1 \in T
      <4>1. \A y \in T : m + 1 >= y
        BY <3>1
      <4> QED BY <3>2, <4>1
    <3>3. CASE m + 1 \notin T
      <4>1. \A y \in T : y \in 0..m
        BY <3>1, <3>3
      <4>2. T \in SUBSET (0..m)
        BY <4>1
      <4> QED BY <1>2, <2>1, <4>2
    <3> QED BY <3>2, <3>3
  <2> QED BY <2>1
<1> HIDE DEF G
<1>3. Nat \subseteq G
  BY <1>1, <1>2, SetInduction
<1>4. P(S)
  BY <1>3 DEF G
<1> QED BY <1>4 DEF Max

LEMMA BatchBound ==
  ASSUME NEW q \in Seq(Subs)
  PROVE  BatchSize(q) \in 0..Len(q)
<1> DEFINE m == Min({Len(q), Budget})
           S == {0} \cup {n \in 1..m : n = 1 \/ SubBytes(SubSeq(q, 1, n)) <= PayloadBudget}
<1>1. Len(q) \in Nat /\ Budget \in Nat
  BY BudgetAssumption
<1>2. m \in Nat /\ m <= Len(q)
  <2>1. \E x \in {Len(q), Budget} : \A y \in {Len(q), Budget} : x <= y
    <3>1. CASE Len(q) <= Budget
      BY <1>1, <3>1
    <3>2. CASE Budget <= Len(q)
      BY <1>1, <3>2
    <3> QED BY <1>1, <3>1, <3>2
  <2>2. m \in {Len(q), Budget} /\ \A y \in {Len(q), Budget} : m <= y
    BY <2>1 DEF Min
  <2> QED BY <1>1, <2>2
<1> HIDE DEF m
<1>3. S \in SUBSET (0..Len(q))
  BY <1>1, <1>2
<1>4. S # {} /\ BatchSize(q) = Max(S)
  BY DEF BatchSize, m
<1> HIDE DEF S
<1> QED BY <1>1, <1>3, <1>4, BoundedMax

LEMMA NumberedSplit ==
  ASSUME NEW q, NEW m, NEW a \in Seq(Nat), Numbered(q, m, a), NEW n \in 0..Len(q)
  PROVE  LET b == SubSeq(q, 1, n)
             r == SubSeq(q, n + 1, Len(q))
         IN  /\ b \in Seq(Subs) /\ Len(b) = n /\ Numbered(b, m, a)
             /\ r \in Seq(Subs) /\ Len(r) = Len(q) - n /\ Numbered(r, m + n, a)
<1> DEFINE b == SubSeq(q, 1, n)
           r == SubSeq(q, n + 1, Len(q))
<1>1. /\ q \in Seq(Subs) /\ m \in Nat /\ Len(q) \in Nat /\ Len(a) \in Nat /\ n \in Nat
      /\ n <= Len(q) /\ m + Len(q) <= Len(a)
  BY DEF Numbered
<1>2. b \in Seq(Subs) /\ Len(b) = n /\ \A i \in 1..n : b[i] = q[i]
  BY <1>1
<1>3. /\ r \in Seq(Subs) /\ Len(r) = Len(q) - n
      /\ \A i \in 1..Len(q) - n : r[i] = q[n + i]
  <2>1. n + 1 \in Nat \ {0} /\ n + 1 <= Len(q) + 1
    BY <1>1
  <2>2. r \in Seq(Subs)
    BY <1>1
  <2>3. Len(r) = Len(q) - n
    BY <1>1
  <2>4. ASSUME NEW i \in 1..Len(q) - n PROVE r[i] = q[n + i]
    BY <1>1
  <2> QED BY <2>2, <2>3, <2>4
<1> HIDE DEF b, r
<1>4. Numbered(b, m, a)
  <2>1. \A i \in 1..n : i \in 1..Len(q)
    BY <1>1
  <2>2. m + n <= Len(a)
    BY <1>1
  <2> QED BY <1>1, <1>2, <2>1, <2>2 DEF Numbered
<1>5. Numbered(r, m + n, a)
  <2>1. ASSUME NEW i \in 1..Len(r)
        PROVE  r[i].id = (m + n) + i /\ r[i].size = a[(m + n) + i]
    <3>1. n + i \in 1..Len(q) /\ i \in 1..Len(q) - n /\ m + (n + i) = (m + n) + i
      BY <1>1, <1>3
    <3> QED BY <1>3, <3>1 DEF Numbered
  <2>2. (m + n) + Len(r) <= Len(a) /\ m + n \in Nat
    BY <1>1, <1>3
  <2> QED BY <1>3, <2>1, <2>2 DEF Numbered
<1> QED BY <1>2, <1>3, <1>4, <1>5 DEF b, r

(* Progress in two steps.                                                  *)
LEMMA ProgressMore ==
  ASSUME NEW K, NEW M, NEW L, Progresses(K, M), Progresses(M, L),
         K.pend \in Nat, M.pend \in Nat, L.pend \in Nat, K.sig \in BOOLEAN
  PROVE  Progresses(K, L)
<1>1. /\ M.pend <= K.pend /\ (M.pend = K.pend => M.bytes = K.bytes)
      /\ L.pend <= M.pend /\ (L.pend = M.pend => L.bytes = M.bytes)
      /\ M.sig = (K.sig \/ (M.pend < K.pend /\ K.state = "ready"))
      /\ L.sig = (M.sig \/ (L.pend < M.pend /\ M.state = "ready"))
      /\ M.state = K.state /\ M.start = K.start /\ M.err = K.err
      /\ L.state = M.state /\ L.start = M.start /\ L.err = M.err
  BY DEF Progresses
<1>2. L.pend <= K.pend /\ (L.pend = K.pend => M.pend = K.pend /\ L.pend = M.pend)
      /\ (L.pend < K.pend <=> (M.pend < K.pend \/ L.pend < M.pend))
  BY <1>1
<1>3. L.sig = (K.sig \/ (L.pend < K.pend /\ K.state = "ready"))
  BY <1>1, <1>2
<1> QED BY <1>1, <1>2, <1>3 DEF Progresses

LEMMA PendIsNat ==
  ASSUME NEW K, NEW a, NEW w, GnetInv(K, a, w)
  PROVE  K.pend \in Nat /\ K.sig \in BOOLEAN /\ DOMAIN K = GnetFields /\ K.boot \in 0..3
BY DEF GnetInv, GnetShape, Charged

LEMMA ThenUnmoved ==
  ASSUME NEW K, NEW M, NEW L, Progresses(K, M), Unmoved(M, L)
  PROVE  Progresses(K, L)
BY DEF Progresses, Unmoved

LEMMA UnmovedThen ==
  ASSUME NEW K, NEW M, NEW L, Unmoved(K, M), Progresses(M, L)
  PROVE  Progresses(K, L)
BY DEF Progresses, Unmoved

(* A drain takes the beginning of the queue.                               *)
LEMMA TakesBatch ==
  ASSUME NEW K, NEW a, NEW w, GnetInv(K, a, w), ~Claimed(K), K.pc = "idle",
         NEW n \in 0..Len(K.subs)
  PROVE  LET L == [K EXCEPT !.drain = FALSE, !.pc = "write",
                            !.batch = SubSeq(K.subs, 1, n),
                            !.subs = SubSeq(K.subs, n + 1, Len(K.subs))]
         IN  GnetInv(L, a, w) /\ Unmoved(K, L) /\ ~L.done
<1> DEFINE b == SubSeq(K.subs, 1, n)
           r == SubSeq(K.subs, n + 1, Len(K.subs))
           L == [K EXCEPT !.drain = FALSE, !.pc = "write", !.batch = b, !.subs = r]
           m == Len(a) - Len(K.subs)
<1>1. /\ GnetShape(K) /\ DOMAIN K = GnetFields /\ Lives(K) /\ Enrolls(K)
      /\ GnetQueue(K, a) /\ InOrder(a, w) /\ a \in Seq(Nat) /\ Len(a) \in Nat
      /\ Charged(K.pend, K.bytes, a) /\ ~Overflows(K)
  BY DEF GnetInv, GnetShape, InOrder
<1>2. ~K.done /\ K.batch = <<>> /\ Ledger(K.segs, K.buf, K.ctl, K.pend, a, w)
  BY <1>1 DEF Lives, Enrolls, Claimed, GnetInv
<1>3. K.subs \in Seq(Subs) /\ Len(K.subs) \in Nat /\ Len(K.batch) = 0
  BY <1>1, <1>2 DEF GnetShape
<1>4. /\ Numbered(K.subs, m, a) /\ m \in Nat
      /\ K.pend = ItemsTo(K.segs, Len(K.segs)) + Len(K.batch) + Len(K.subs)
  BY <1>1 DEF GnetQueue, Numbered
<1>5. /\ b \in Seq(Subs) /\ Len(b) = n /\ Numbered(b, m, a)
      /\ r \in Seq(Subs) /\ Len(r) = Len(K.subs) - n /\ Numbered(r, m + n, a)
  <2> HIDE DEF m
  <2> QED BY <1>1, <1>4, NumberedSplit
<1> HIDE DEF b, r
<1>6. /\ Retains(K, L, {"drain", "pc", "batch", "subs"}) /\ DOMAIN L = GnetFields
      /\ L.pc = "write" /\ L.batch = b /\ L.subs = r
  BY <1>1 DEF Retains, GnetFields
<1> HIDE DEF L
<1>7. /\ L.kind = K.kind /\ L.state = K.state
      /\ L.err = K.err /\ L.start = K.start /\ L.done = K.done /\ L.sig = K.sig
      /\ L.pend = K.pend /\ L.bytes = K.bytes
      /\ L.starter = K.starter /\ L.initiated = K.initiated
      /\ L.owner = K.owner /\ L.gconn = K.gconn /\ L.boot = K.boot
      /\ L.segs = K.segs /\ L.buf = K.buf /\ L.ctl = K.ctl
      /\ L.stopping = K.stopping /\ L.stopper = K.stopper
  BY <1>1, <1>6 DEF Retains, GnetFields
<1>8. ItemsTo(K.segs, Len(K.segs)) \in Nat
  <2>1. K.segs \in Seq(Segs)
    BY <1>2 DEF Ledger, Booked
  <2>2. Len(K.segs) \in Nat /\ Len(K.segs) <= Len(K.segs)
    BY <2>1
  <2> QED BY <2>1, <2>2, ItemsBound
<1>9. b # <<>> => K.gconn = "open"
  <2>1. ASSUME b # <<>> PROVE K.gconn = "open"
    <3>1. n # 0
      BY <1>5, <2>1, EmptySeq
    <3>2. K.pend # 0
      BY <1>3, <1>4, <1>8, <3>1
    <3>3. ~(K.boot < 3)
      BY <1>1, <3>2 DEF Lives
    <3>4. K.boot = 3
      BY <1>1, <3>3 DEF GnetShape
    <3> QED BY <1>1, <3>4 DEF Lives
  <2> QED BY <2>1
<1>10. GnetShape(L)
  BY <1>1, <1>5, <1>6, <1>7 DEF GnetShape
<1>11. Lives(L)
  BY <1>1, <1>7 DEF Lives, Claimed
<1>12. Enrolls(L)
  BY <1>1, <1>6, <1>7, <1>9 DEF Enrolls, Claimed
<1>13. GnetQueue(L, a)
  <2>1. /\ L.pend = ItemsTo(L.segs, Len(L.segs)) + Len(L.batch) + Len(L.subs)
    <3>1. \A i, j, x \in Nat : x <= j => i + 0 + j = i + x + (j - x)
      OBVIOUS
    <3>2. n \in Nat /\ n <= Len(K.subs)
      BY <1>3
    <3>3. ItemsTo(K.segs, Len(K.segs)) + 0 + Len(K.subs)
            = ItemsTo(K.segs, Len(K.segs)) + n + (Len(K.subs) - n)
      BY <1>3, <1>8, <3>1, <3>2
    <3> QED BY <1>3, <1>4, <1>5, <1>6, <1>7, <3>3
  <2>2. Len(a) - Len(r) = m + n /\ (m + n) - n = m
    BY <1>1, <1>3, <1>5
  <2>3. Numbered(L.subs, Len(a) - Len(L.subs), a)
    BY <1>5, <1>6, <2>2
  <2>4. Numbered(L.batch, (Len(a) - Len(L.subs)) - Len(L.batch), a)
    BY <1>5, <1>6, <2>2
  <2> QED BY <2>1, <2>3, <2>4 DEF GnetQueue
<1>14. ~Overflows(L)
  BY <1>1, <1>7 DEF Overflows, Outbound
<1>15. GnetInv(L, a, w)
  BY <1>1, <1>2, <1>7, <1>10, <1>11, <1>12, <1>13, <1>14 DEF GnetInv
<1>16. Unmoved(K, L)
  BY <1>7 DEF Unmoved
<1> QED BY <1>2, <1>7, <1>15, <1>16 DEF L, b, r

(* drainOwner.                                                             *)
LEMMA DrainOwnerStep ==
  ASSUME GnetState, DrainOwner PROVE GnetGoal
<1> DEFINE a == env.acc
           w == env.wire
           K == Without(k, "drain")
           O == IF k.segs # <<>> THEN ObserveOwnerOutbound(K) ELSE K
           n == BatchSize(O.subs)
           B == [O EXCEPT !.drain = FALSE, !.pc = "write",
                          !.batch = SubSeq(O.subs, 1, n),
                          !.subs = SubSeq(O.subs, n + 1, Len(O.subs))]
<1>1. /\ env' = env /\ k.pc = "idle"
      /\ k' = IF Claimed(k) THEN [K EXCEPT !.drain = FALSE]
              ELSE IF k.segs # <<>> /\ Overflows(K)
              THEN ScheduleOwnerClose(ClaimTerminal(K, "outbound"))
              ELSE IF O.segs # <<>> /\ Outbound(O) > Resume
              THEN [O EXCEPT !.drain = FALSE] ELSE B
  BY DEF DrainOwner, Runs, Loop
<1>2. /\ GnetInv(K, a, w) /\ Unmoved(k, K) /\ DOMAIN K = GnetFields
      /\ Retains(k, K, {"tasks"})
  BY WithoutLaw DEF GnetState
<1>3. K.segs = k.segs /\ K.boot = k.boot /\ K.state = k.state /\ K.done = k.done
      /\ K.pc = k.pc /\ Retains(k, K, Quietly)
  <2> HIDE DEF K
  <2> QED BY <1>2, GnetParts DEF Retains, GnetFields, Quietly
<1>4. CASE Claimed(k)
  <2> HIDE DEF K
  <2>1. Retains(k, [K EXCEPT !.drain = FALSE], Quietly)
    BY <1>2, <1>3 DEF Retains, Quietly, GnetFields
  <2>2. k' = [K EXCEPT !.drain = FALSE]
    BY <1>1, <1>4
  <2> QED BY <1>1, <2>1, <2>2, QuietGoal
<1>5. CASE ~Claimed(k)
  <2>1. ~K.done /\ ~Claimed(K)
    BY <1>2, <1>3, <1>5, GnetParts DEF Lives, Claimed
  <2>2. ~Overflows(K)
    BY <1>2 DEF GnetInv
  <2>3. /\ GnetInv(O, a, w) /\ Progresses(k, O) /\ O.state = k.state /\ O.pc = "idle"
        /\ DOMAIN O = GnetFields /\ ~O.done
    <3>1. CASE k.segs # <<>>
      <4>1. K.boot = 3
        BY <1>3, <3>1, GnetParts DEF Lives, GnetShape
      <4> HIDE DEF K
      <4>2. /\ GnetInv(O, a, w) /\ Progresses(K, O)
            /\ Retains(K, O, ObservedFields) /\ DOMAIN O = GnetFields
        BY <1>2, <2>1, <3>1, <4>1, ObserveInv
      <4> HIDE DEF O
      <4>3. O.state = K.state /\ O.pc = K.pc /\ O.done = K.done
        BY <1>2, <4>2 DEF Retains, GnetFields, ObservedFields
      <4>4. Progresses(k, O)
        BY <1>2, <4>2, UnmovedThen
      <4> QED BY <1>1, <1>3, <2>1, <4>2, <4>3, <4>4
    <3>2. CASE k.segs = <<>>
      <4> HIDE DEF K
      <4>1. O = K
        BY <3>2
      <4>2. Progresses(k, K)
        BY <1>2, UnmovedProgress, GnetParts
      <4> QED BY <1>1, <1>2, <1>3, <2>1, <4>1, <4>2
    <3> QED BY <3>1, <3>2
  <2> HIDE DEF O, K
  <2>4. ~Claimed(O)
    BY <1>5, <2>3 DEF Claimed
  <2>5. k' = [O EXCEPT !.drain = FALSE] \/ k' = B
    BY <1>1, <1>5, <2>2
  <2>6. Len(w) <= Len(w)
    BY DEF GnetState, GnetInv, InOrder
  <2>7. CASE k' = [O EXCEPT !.drain = FALSE]
    <3>1. Retains(O, k', Quietly)
      BY <2>3, <2>7 DEF Retains, GnetFields, Quietly
    <3>2. GnetInv(k', a, w) /\ Unmoved(O, k')
      BY <2>3, <3>1, QuietStep DEF Goal
    <3>3. ~k'.done
      BY <2>3, <3>1 DEF Retains, GnetFields, Quietly
    <3>4. Progresses(k, k')
      BY <2>3, <3>2, ThenUnmoved
    <3> QED BY <1>1, <2>6, <3>2, <3>3, <3>4, ProgressStep DEF GnetGoal
  <2>8. CASE k' = B
    <3>1. n \in 0..Len(O.subs)
      BY <2>3, BatchBound DEF GnetInv, GnetShape
    <3>2. GnetInv(k', a, w) /\ Unmoved(O, k') /\ ~k'.done
      <4> HIDE DEF n
      <4> QED BY <2>3, <2>4, <2>8, <3>1, TakesBatch
    <3>3. Progresses(k, k')
      BY <2>3, <3>2, ThenUnmoved
    <3> QED BY <1>1, <2>6, <3>2, <3>3, ProgressStep DEF GnetGoal
  <2> QED BY <2>5, <2>7, <2>8
<1> QED BY <1>4, <1>5

(* The rest of drainOwner: what is written extends the order.              *)
LEMMA OrderExtends ==
  ASSUME NEW a, NEW w, InOrder(a, w), NEW u \in Seq(Nat), Len(w) + Len(u) <= Len(a),
         \A i \in 1..Len(u) : u[i] = Len(w) + i
  PROVE  InOrder(a, w \o u) /\ Len(w \o u) = Len(w) + Len(u)
<1> DEFINE v == w \o u
<1>1. a \in Seq(Nat) /\ w \in Seq(Nat) /\ Len(w) \in Nat /\ Len(a) \in Nat
      /\ Len(u) \in Nat /\ \A i \in 1..Len(w) : w[i] = i
  BY DEF InOrder
<1>2. /\ v \in Seq(Nat) /\ Len(v) = Len(w) + Len(u)
      /\ \A i \in 1..Len(v) : v[i] = IF i <= Len(w) THEN w[i] ELSE u[i - Len(w)]
  BY <1>1
<1> HIDE DEF v
<1>3. ASSUME NEW i \in 1..Len(v) PROVE v[i] = i
  <2>1. CASE i <= Len(w)
    <3>1. i \in 1..Len(w)
      BY <1>1, <2>1
    <3> QED BY <1>1, <1>2, <2>1, <3>1
  <2>2. CASE ~(i <= Len(w))
    <3>1. i - Len(w) \in 1..Len(u) /\ Len(w) + (i - Len(w)) = i
      BY <1>1, <1>2, <2>2
    <3> QED BY <1>2, <2>2, <3>1
  <2> QED BY <2>1, <2>2
<1>4. Len(v) <= Len(a)
  BY <1>2
<1> QED BY <1>1, <1>2, <1>3, <1>4 DEF InOrder, v

LEMMA DrainWritesStep ==
  ASSUME GnetState, NEW n, DrainWrites(n), DOMAIN env = {"max", "acc", "wire", "sent"}
  PROVE  GnetGoal
<1> DEFINE a == env.acc
           w == env.wire
           q == k.batch
           K == [k EXCEPT !.pc = "idle", !.batch = <<>>]
           r == Encoded(q)
           v == w \o [i \in 1..n |-> r[i].id]
           W == Written(K, r, n)
<1>1. /\ k.pc = "write" /\ n \in 0..Len(q) /\ CanFlush(k, n)
      /\ IF Claimed(k) \/ r = <<>>
         THEN n = 0 /\ k' = K /\ env' = env
         ELSE /\ k' = IF Overflows(W)
                      THEN ScheduleOwnerClose(ClaimTerminal(K, "outbound"))
                      ELSE ObserveOwnerOutbound(W)
              /\ env' = [env EXCEPT !.wire = v]
  BY DEF DrainWrites, Encoded, WriteOwnerBatch
<1>2. /\ Retains(k, K, {"pc", "batch"}) /\ DOMAIN K = GnetFields
      /\ K.pc = "idle" /\ K.batch = <<>>
  BY GnetParts DEF Retains, GnetFields
<1> HIDE DEF K
<1>3. /\ K.kind = k.kind /\ K.state = k.state
      /\ K.err = k.err /\ K.start = k.start /\ K.done = k.done /\ K.sig = k.sig
      /\ K.subs = k.subs /\ K.pend = k.pend /\ K.bytes = k.bytes
      /\ K.starter = k.starter /\ K.initiated = k.initiated
      /\ K.owner = k.owner /\ K.gconn = k.gconn /\ K.boot = k.boot
      /\ K.segs = k.segs /\ K.buf = k.buf /\ K.ctl = k.ctl
      /\ K.stopping = k.stopping /\ K.stopper = k.stopper
  BY <1>2, GnetParts DEF Retains, GnetFields
<1>4. GnetShape(K) /\ Lives(K)
  <2>1. GnetShape(K)
    BY <1>2, <1>3, NoElements, GnetParts DEF GnetShape
  <2>2. Lives(K)
    BY <1>3, GnetParts DEF Lives, Claimed
  <2> QED BY <2>1, <2>2
<1>5. Enrolls(K) /\ Unmoved(k, K)
  BY <1>2, <1>3, GnetParts DEF Enrolls, Claimed, Unmoved
<1>6. q \in Seq(Subs) /\ Len(q) \in Nat /\ Len(r) = Len(q)
  <2>1. q \in Seq(Subs) /\ Len(q) \in Nat /\ DOMAIN q = 1..Len(q)
    BY GnetParts DEF GnetShape
  <2>2. r \in [1..Len(q) -> {r[i] : i \in 1..Len(q)}]
    BY <2>1 DEF Encoded
  <2>3. \A S : \A f \in [1..Len(q) -> S] : Len(f) = Len(q)
    BY <2>1
  <2> HIDE DEF r
  <2> QED BY <2>1, <2>2, <2>3
<1>7. CASE Claimed(k) \/ r = <<>>
  <2>1. Claimed(K) \/ (~Claimed(k) /\ K.batch = k.batch)
    <3>1. CASE Claimed(k)
      BY <1>3, <3>1 DEF Claimed
    <3>2. CASE ~Claimed(k) /\ r = <<>>
      <4>1. Len(q) = 0
        BY <1>6, <3>2
      <4> QED BY <1>2, <1>6, <3>2, <4>1
    <3> QED BY <1>7, <3>1, <3>2
  <2>2. GnetInv(K, a, w)
    BY <1>3, <1>4, <1>5, <2>1, FrameInv DEF GnetState
  <2>3. k' = K /\ env' = env
    BY <1>1, <1>7
  <2> QED BY <1>5, <2>2, <2>3, EndedStep DEF GnetGoal, Ended
<1>8. CASE ~Claimed(k) /\ r # <<>>
  <2> DEFINE m == (Len(a) - Len(k.subs)) - Len(q)
             t == ItemsTo(k.segs, Len(k.segs))
  <2>1. /\ env'.acc = a /\ env'.wire = v
        /\ k' = IF Overflows(W) THEN ScheduleOwnerClose(ClaimTerminal(K, "outbound"))
                ELSE ObserveOwnerOutbound(W)
    <3> HIDE DEF v, W
    <3> QED BY <1>1, <1>8
  <2>2. /\ GnetQueue(k, a) /\ a \in Seq(Nat) /\ Len(a) \in Nat /\ InOrder(a, w)
        /\ Charged(k.pend, k.bytes, a)
    BY <1>8, GnetParts DEF GnetState, GnetInv, InOrder
  <2>3. q # <<>> /\ k.gconn = "open" /\ ~k.done
    <3>1. q # <<>>
      <4>1. ASSUME q = <<>> PROVE FALSE
        <5>1. Len(r) = 0
          BY <1>6, <4>1
        <5>2. r = <<>>
          <6>1. r = [i \in {} |-> 0]
            BY <4>1 DEF Encoded
          <6> QED BY <6>1
        <5> QED BY <1>8, <5>2
      <4> QED BY <4>1
    <3> QED BY <3>1, GnetParts DEF Enrolls
  <2>4. Ledger(k.segs, k.buf, k.ctl, k.pend, a, w)
    BY <2>3, GnetParts
  <2>5. k.segs \in Seq(Segs) /\ Len(k.segs) \in Nat /\ t \in Nat
        /\ Len(a) - k.pend \in Nat
    <3>1. Booked(k.segs, a, Len(a) - k.pend)
      BY <2>4 DEF Ledger
    <3>2. k.segs \in Seq(Segs) /\ Len(a) - k.pend \in Nat
      BY <3>1 DEF Booked
    <3>3. Len(k.segs) \in Nat /\ Len(k.segs) <= Len(k.segs)
      BY <3>2
    <3> QED BY <3>2, <3>3, ItemsBound
  <2>6. /\ Numbered(q, m, a) /\ m \in Nat /\ m + Len(q) <= Len(a)
        /\ Numbered(k.subs, Len(a) - Len(k.subs), a)
        /\ k.pend = t + Len(q) + Len(k.subs)
    BY <2>2 DEF GnetQueue, Numbered
  <2>7. Len(k.subs) \in Nat
    BY GnetParts DEF GnetShape
  <2>8. (Len(a) - k.pend) + t = m
    <3> HIDE DEF t
    <3>1. k.pend \in Nat
      BY <2>2 DEF Charged
    <3> QED BY <1>6, <2>2, <2>5, <2>6, <2>7, <3>1
  <2>9. /\ Booked(r, a, m) /\ \A i \in 0..Len(q) : ItemsTo(r, i) = i
        /\ \A i \in 1..Len(q) : r[i].id = m + i
    <3> HIDE DEF m
    <3> QED BY <2>2, <2>6, BatchBooked
  <2>10. Items(r) = Len(q) /\ ItemsTo(r, n) = n /\ n \in 0..Len(r) /\ n \in Nat
    <3>1. r \in Seq(Segs)
      BY <2>9 DEF Booked
    <3>2. Items(r) = ItemsTo(r, Len(r))
      <4> HIDE DEF r
      <4> QED BY <3>1, SegmentSums
    <3>3. Len(q) \in 0..Len(q)
      BY <1>6
    <3> HIDE DEF r
    <3> QED BY <1>1, <1>6, <2>9, <3>2, <3>3
  <2>11. InOrder(a, v) /\ Len(v) = Len(w) + n
    <3>1. n = 0 \/ Len(w) = m
      <4>1. ASSUME n # 0 PROVE Len(w) = m
        <5>1. Len(k.segs) - Len(k.buf) = Len(k.segs)
          <6>1. k.buf = <<>>
            BY <1>1, <4>1 DEF CanFlush
          <6>2. Len(k.buf) = 0
            BY <6>1
          <6> QED BY <2>5, <6>2
        <5>2. Len(w) = (Len(a) - k.pend) + ItemsTo(k.segs, Len(k.segs) - Len(k.buf))
          BY <2>4 DEF Ledger
        <5> QED BY <2>8, <5>1, <5>2
      <4> QED BY <4>1
    <3> DEFINE u == [i \in 1..n |-> r[i].id]
    <3>2. \A i \in 1..n : i \in 1..Len(q) /\ m + i \in Nat
      <4>1. m \in Nat
        BY <2>6
      <4> HIDE DEF m
      <4> QED BY <1>1, <1>6, <4>1
    <3>3. \A i \in 1..n : u[i] = m + i
      <4> HIDE DEF m, r
      <4> QED BY <2>9, <3>2
    <3>4. u \in Seq(Nat) /\ Len(u) = n
      <4>1. u \in [1..n -> Nat]
        <5>1. u = [i \in 1..n |-> u[i]]
          OBVIOUS
        <5> HIDE DEF u, m
        <5> QED BY <3>2, <3>3, <5>1
      <4> HIDE DEF u
      <4> QED BY <2>10, <4>1
    <3>5. v = w \o u
      OBVIOUS
    <3> HIDE DEF u, v
    <3>6. \A i \in 1..Len(u) : u[i] = Len(w) + i
      <4>1. CASE n = 0
        BY <3>4, <4>1
      <4>2. CASE Len(w) = m
        <5> HIDE DEF m
        <5> QED BY <3>3, <3>4, <4>2
      <4> QED BY <3>1, <4>1, <4>2
    <3>7. Len(w) + Len(u) <= Len(a)
      <4>1. CASE n = 0
        BY <2>2, <3>4, <4>1 DEF InOrder
      <4>2. CASE Len(w) = m
        <5> HIDE DEF m
        <5> QED BY <1>1, <1>6, <2>2, <2>6, <3>4, <4>2
      <4> QED BY <3>1, <4>1, <4>2
    <3> HIDE DEF a, w
    <3>8. InOrder(a, w \o u) /\ Len(w \o u) = Len(w) + Len(u)
      BY <2>2, <3>4, <3>6, <3>7, OrderExtends
    <3> QED BY <3>4, <3>5, <3>8
  <2> HIDE DEF v
  <2>12. /\ GnetInv(W, a, v) /\ Unmoved(K, W)
         /\ Retains(K, W, {"segs", "ctl", "buf"}) /\ DOMAIN W = GnetFields
    <3>1. CanFlush(K, n)
      BY <1>1, <1>3 DEF CanFlush
    <3>2. ((K.ctl + Len(r)) - Items(r)) * PongWire <= MaxControlBytes
      <4>1. k.ctl = Len(k.segs) - t /\ k.ctl * PongWire <= MaxControlBytes
        BY <2>4 DEF Ledger
      <4>2. k.ctl \in Int
        BY <2>5, <4>1
      <4>3. (k.ctl + Len(q)) - Len(q) = k.ctl
        BY <1>6, <4>2
      <4> QED BY <1>3, <1>6, <2>10, <4>1, <4>3
    <3>3. Booked(r, a, (Len(a) - K.pend) + ItemsTo(K.segs, Len(K.segs)))
      BY <1>3, <2>8, <2>9
    <3>4. Len(v) = Len(w) + ItemsTo(r, n)
      BY <2>10, <2>11
    <3>5. K.boot = 3 /\ ~K.done
      <4>1. k.pend # 0
        <5>1. Len(q) # 0
          BY <1>6, <2>3
        <5>2. \A i, j, x \in Nat : j # 0 => i + j + x # 0
          OBVIOUS
        <5>3. k.pend = t + Len(q) + Len(k.subs)
          BY <2>6
        <5> HIDE DEF t, q
        <5> QED BY <1>6, <2>5, <2>7, <5>1, <5>2, <5>3
      <4> QED BY <1>3, <2>3, <4>1, GnetParts DEF Lives, GnetShape
    <3>6. /\ K.pend = ItemsTo(K.segs, Len(K.segs)) + Items(r) + Len(K.subs)
          /\ Numbered(K.subs, Len(a) - Len(K.subs), a)
      BY <1>3, <2>6, <2>10
    <3>7. /\ Charged(K.pend, K.bytes, a)
          /\ Ledger(K.segs, K.buf, K.ctl, K.pend, a, w)
      BY <1>3, <2>2, <2>4
    <3> HIDE DEF r, a, w, q
    <3>8. Writes(K, a, w, v, r, n)
      BY <1>2, <1>4, <1>5, <2>10, <2>11, <3>1, <3>2, <3>3, <3>4, <3>5, <3>6, <3>7 DEF Writes
    <3> QED BY <3>8, WrittenInv
  <2> HIDE DEF W, r
  <2>13. ~Overflows(W)
    BY <2>12 DEF GnetInv
  <2>14. W.boot = k.boot /\ W.done = k.done /\ W.state = k.state
    BY <1>2, <1>3, <2>12 DEF Retains, GnetFields
  <2>15. k.boot = 3
    <3>1. k.pend # 0
      <4>1. Len(q) # 0
        BY <1>6, <2>3
      <4>2. \A i, j, x \in Nat : j # 0 => i + j + x # 0
        OBVIOUS
      <4>3. k.pend = t + Len(q) + Len(k.subs)
        BY <2>6
      <4> HIDE DEF t, q
      <4> QED BY <1>6, <2>5, <2>7, <4>1, <4>2, <4>3
    <3> QED BY <3>1, GnetParts DEF Lives, GnetShape
  <2>16. /\ GnetInv(k', a, v) /\ Progresses(W, k')
         /\ Retains(W, k', ObservedFields)
    BY <2>1, <2>3, <2>12, <2>13, <2>14, <2>15, ObserveInv
  <2>17. ~k'.done
    BY <2>3, <2>12, <2>14, <2>16 DEF Retains, GnetFields, ObservedFields
  <2>18. Progresses(k, k')
    <3>1. Unmoved(k, W)
      BY <1>5, <2>12 DEF Unmoved
    <3> QED BY <2>16, <3>1, UnmovedThen
  <2>19. Len(w) <= Len(v)
    BY <2>2, <2>10, <2>11 DEF InOrder
  <2>20. Goal(k, a, w, k', a, v)
    BY <2>16, <2>17, <2>18, <2>19, ProgressStep
  <2> QED BY <2>1, <2>20 DEF GnetGoal
<1> QED BY <1>7, <1>8

(* A change of what the event loop is doing while the stream is open.      *)
LEMMA LoopInv ==
  ASSUME NEW K, NEW L, NEW a, NEW w, GnetInv(K, a, w), K.gconn = "open",
         Retains(K, L, Quietly \cup {"pc"}), K.batch = <<>>, L.pc \in {"idle", "frames"}
  PROVE  GnetInv(L, a, w) /\ Unmoved(K, L) /\ DOMAIN L = GnetFields
         /\ L.done = K.done /\ L.gconn = K.gconn /\ L.boot = K.boot /\ L.state = K.state
         /\ L.batch = K.batch
<1>1. GnetShape(K) /\ Lives(K) /\ Enrolls(K) /\ DOMAIN K = GnetFields
  BY DEF GnetInv, GnetShape
<1>2. /\ DOMAIN L = GnetFields /\ L.kind = K.kind /\ L.state = K.state
      /\ L.err = K.err /\ L.start = K.start /\ L.done = K.done /\ L.sig = K.sig
      /\ L.subs = K.subs /\ L.pend = K.pend /\ L.bytes = K.bytes
      /\ L.starter = K.starter /\ L.initiated = K.initiated
      /\ L.owner = K.owner /\ L.gconn = K.gconn /\ L.boot = K.boot
      /\ L.batch = K.batch /\ L.segs = K.segs /\ L.buf = K.buf /\ L.ctl = K.ctl
      /\ L.stopping = K.stopping /\ L.stopper = K.stopper
  BY <1>1 DEF Retains, Quietly, GnetFields
<1>3. GnetShape(L)
  BY <1>1, <1>2 DEF GnetShape
<1>4. Lives(L)
  BY <1>1, <1>2 DEF Lives, Claimed
<1>5. Enrolls(L)
  BY <1>1, <1>2 DEF Enrolls, Claimed
<1>6. Claimed(L) \/ (~Claimed(K) /\ L.batch = K.batch)
  BY <1>2 DEF Claimed
<1>7. GnetInv(L, a, w)
  BY <1>2, <1>3, <1>4, <1>5, <1>6, FrameInv
<1> QED BY <1>2, <1>7 DEF Unmoved

LEMMA OnTrafficStep ==
  ASSUME GnetState, OnTraffic PROVE GnetGoal
<1> DEFINE a == env.acc
           w == env.wire
           K == Without(k, "wake")
           O == IF K.boot = 3 THEN ObserveOwnerOutbound(K) ELSE K
           L == [O EXCEPT !.data = O.in, !.in = <<>>,
                          !.pc = IF O.in = <<>> THEN "idle" ELSE "frames"]
<1>1. /\ env' = env /\ k.pc = "idle"
      /\ k' = IF k.gconn # "open" THEN K
              ELSE IF Claimed(k) THEN OnClose(K, "nil")
              ELSE IF K.boot = 3 /\ Overflows(K) THEN OnClose(K, "outbound")
              ELSE L
  BY DEF OnTraffic, Traffic, Runs, Loop
<1>2. /\ GnetInv(K, a, w) /\ Unmoved(k, K) /\ DOMAIN K = GnetFields
      /\ Retains(k, K, {"tasks"})
  BY WithoutLaw DEF GnetState
<1> HIDE DEF K
<1>3. /\ K.boot = k.boot /\ K.state = k.state /\ K.done = k.done /\ K.gconn = k.gconn
      /\ K.pc = k.pc /\ K.batch = k.batch
  BY <1>2, GnetParts DEF Retains, GnetFields
<1>4. CASE k.gconn # "open"
  BY <1>1, <1>2, <1>4, EndedStep DEF GnetGoal, Ended
<1>5. CASE k.gconn = "open" /\ Claimed(k)
  <2>1. k' = OnClose(K, "nil")
    BY <1>1, <1>5
  <2>2. GnetInv(k', a, w) /\ Ended(K, k') /\ Ended(k, K)
    BY <1>2, <1>3, <1>5, <2>1, OnCloseInv DEF Ended
  <2> QED BY <1>1, <2>2, EndedMore, EndedStep DEF GnetGoal
<1>6. CASE k.gconn = "open" /\ ~Claimed(k)
  <2>1. ~K.done /\ ~Overflows(K) /\ k.batch = <<>>
    BY <1>1, <1>2, <1>3, <1>6, GnetParts DEF Enrolls, GnetInv
  <2>2. k' = L
    BY <1>1, <1>6, <2>1
  <2>3. /\ GnetInv(O, a, w) /\ Progresses(k, O) /\ O.gconn = "open" /\ O.batch = <<>>
        /\ DOMAIN O = GnetFields /\ ~O.done
    <3>1. CASE K.boot = 3
      <4>1. /\ GnetInv(O, a, w) /\ Progresses(K, O)
            /\ Retains(K, O, ObservedFields) /\ DOMAIN O = GnetFields
        BY <1>2, <2>1, <3>1, ObserveInv
      <4> HIDE DEF O
      <4>2. O.gconn = K.gconn /\ O.batch = K.batch /\ O.done = K.done
        BY <1>2, <4>1 DEF Retains, GnetFields, ObservedFields
      <4>3. Progresses(k, O)
        BY <1>2, <4>1, UnmovedThen
      <4> QED BY <1>3, <1>6, <2>1, <4>1, <4>2, <4>3
    <3>2. CASE K.boot # 3
      <4>1. O = K
        BY <3>2
      <4>2. Progresses(k, K)
        BY <1>2, UnmovedProgress, GnetParts
      <4> QED BY <1>2, <1>3, <1>6, <2>1, <4>1, <4>2
    <3> QED BY <3>1, <3>2
  <2> HIDE DEF O
  <2>4. Retains(O, L, Quietly \cup {"pc"}) /\ L.pc \in {"idle", "frames"}
    BY <2>3 DEF Retains, GnetFields, Quietly
  <2> HIDE DEF L
  <2>5. GnetInv(L, a, w) /\ Unmoved(O, L) /\ L.done = O.done
    BY <2>3, <2>4, LoopInv
  <2>6. Progresses(k, L)
    BY <2>3, <2>5, ThenUnmoved
  <2>7. Len(w) <= Len(w)
    BY DEF GnetState, GnetInv, InOrder
  <2>8. Goal(k, a, w, L, a, w)
    BY <2>3, <2>5, <2>6, <2>7, ProgressStep
  <2> QED BY <1>1, <2>2, <2>8 DEF GnetGoal
<1> QED BY <1>4, <1>5, <1>6

-----------------------------------------------------------------------------
(* The frames of the peer.                                                 *)
LEMMA EnqueueLaw ==
  ASSUME NEW K, NEW f, {"charges", "evq"} \subseteq DOMAIN K
  PROVE  LET e == EnqueueEvent(K, f)
         IN  /\ e.err \in {"none", "closed", "event backpressure"}
             /\ Retains(K, e.k, {"evq", "charges"})
<1> DEFINE R == Reconcile(K)
           e == EnqueueEvent(K, f)
           Q == [R EXCEPT !.evq = Append(@, f), !.charges = Append(@, EventSize(f))]
<1>1. Retains(K, R, {"charges"})
  BY ReconcileKeeps
<1> HIDE DEF R
<1>2. Retains(R, Q, {"evq", "charges"})
  BY <1>1 DEF Retains
<1> HIDE DEF Q
<1>3. Retains(K, K, {"evq", "charges"}) /\ Retains(K, R, {"evq", "charges"})
      /\ Retains(K, Q, {"evq", "charges"})
  BY <1>1, <1>2 DEF Retains
<1>4. \/ e = [err |-> "closed", k |-> K]
      \/ e = [err |-> "event backpressure", k |-> R]
      \/ e = [err |-> "none", k |-> Q]
  BY DEF EnqueueEvent, Q, R
<1> HIDE DEF e
<1>5. e.err \in {"none", "closed", "event backpressure"} /\ e.k \in {K, R, Q}
  <2>1. CASE e = [err |-> "closed", k |-> K]
    BY <2>1
  <2>2. CASE e = [err |-> "event backpressure", k |-> R]
    BY <2>2
  <2>3. CASE e = [err |-> "none", k |-> Q]
    BY <2>3
  <2> QED BY <1>4, <2>1, <2>2, <2>3
<1>6. Retains(K, e.k, {"evq", "charges"})
  BY <1>3, <1>5
<1> QED BY <1>5, <1>6 DEF e

(* After the last frame of a read the owner observes.                      *)
LEMMA LastFrame ==
  ASSUME NEW K, NEW r, NEW a, NEW w, GnetInv(r, a, w), r.gconn = "open", r.batch = <<>>,
         r.pc = "frames", Progresses(K, r), K.pend \in Nat, K.sig \in BOOLEAN
  PROVE  LET last == [r EXCEPT !.pc = IF r.data = <<>> THEN "idle" ELSE @]
             L == IF last.pc = "idle" /\ last.boot = 3
                  THEN ObserveOwnerOutbound(last) ELSE last
         IN  GnetInv(L, a, w) /\ Progresses(K, L) /\ ~L.done
<1> DEFINE last == [r EXCEPT !.pc = IF r.data = <<>> THEN "idle" ELSE @]
           L == IF last.pc = "idle" /\ last.boot = 3
                THEN ObserveOwnerOutbound(last) ELSE last
<1>1. DOMAIN r = GnetFields /\ Enrolls(r) /\ ~r.done
  BY DEF GnetInv, GnetShape, Enrolls
<1>2. Retains(r, last, Quietly \cup {"pc"}) /\ last.pc \in {"idle", "frames"}
  BY <1>1 DEF Retains, Quietly, GnetFields
<1> HIDE DEF last
<1>3. GnetInv(last, a, w) /\ Unmoved(r, last) /\ last.done = r.done
  BY <1>2, LoopInv
<1>4. Progresses(K, last) /\ ~last.done
  BY <1>1, <1>3, ThenUnmoved
<1>5. CASE last.pc = "idle" /\ last.boot = 3
  <2>1. L = ObserveOwnerOutbound(last)
    BY <1>5
  <2>2. /\ GnetInv(L, a, w) /\ Progresses(last, L)
        /\ Retains(last, L, ObservedFields) /\ DOMAIN L = GnetFields
    BY <1>3, <1>4, <1>5, <2>1, ObserveInv
  <2> HIDE DEF L
  <2>3. L.done = last.done
    BY <2>2 DEF Retains, GnetFields, ObservedFields
  <2>4. L.pend \in Nat /\ last.pend \in Nat
    BY <1>3, <2>2, PendIsNat
  <2>5. Progresses(K, L)
    BY <1>4, <2>2, <2>4, ProgressMore
  <2> QED BY <1>4, <2>2, <2>3, <2>5 DEF L, last
<1>6. CASE ~(last.pc = "idle" /\ last.boot = 3)
  <2>1. L = last
    BY <1>6
  <2> QED BY <1>3, <1>4, <2>1 DEF L, last
<1> QED BY <1>5, <1>6

(* The answer to a ping.                                                   *)
LEMMA PongInv ==
  ASSUME NEW K, NEW a, NEW w, GnetInv(K, a, w), K.gconn = "open", K.boot = 3,
         K.batch = <<>>, NEW n \in 0..1, CanFlush(K, n), ControlFits(K)
  PROVE  LET W == Written(K, Pong, n)
         IN  /\ GnetInv(W, a, w) /\ Unmoved(K, W)
             /\ Retains(K, W, {"segs", "ctl", "buf"}) /\ DOMAIN W = GnetFields
<1> DEFINE t == ItemsTo(K.segs, Len(K.segs))
           m == (Len(a) - K.pend) + t
<1>1. /\ GnetShape(K) /\ Lives(K) /\ Enrolls(K) /\ Charged(K.pend, K.bytes, a)
      /\ InOrder(a, w) /\ ~K.done /\ (~Claimed(K) => GnetQueue(K, a))
  BY DEF GnetInv, Enrolls
<1>2. Ledger(K.segs, K.buf, K.ctl, K.pend, a, w)
  BY <1>1 DEF GnetInv
<1>3. /\ K.segs \in Seq(Segs) /\ a \in Seq(Nat) /\ Len(a) - K.pend \in Nat /\ m <= Len(a)
      /\ K.ctl = Len(K.segs) - t
  BY <1>2 DEF Ledger, Booked
<1>4. t \in Nat /\ Len(K.segs) \in Nat /\ K.ctl \in Int
  <2>1. Len(K.segs) \in Nat /\ Len(K.segs) <= Len(K.segs)
    BY <1>3
  <2>2. t \in Nat
    BY <1>3, <2>1, ItemsBound
  <2> HIDE DEF t
  <2> QED BY <1>3, <2>1, <2>2
<1>5. m \in Nat
  <2> HIDE DEF t
  <2> QED BY <1>3, <1>4
<1>6. /\ Booked(Pong, a, m) /\ Len(Pong) = 1 /\ Items(Pong) = 0
      /\ \A i \in 0..1 : ItemsTo(Pong, i) = 0
  <2> HIDE DEF m
  <2> QED BY <1>3, <1>5, PongBooked
<1>7. ((K.ctl + Len(Pong)) - Items(Pong)) * PongWire <= MaxControlBytes
  <2>1. (K.ctl + 1) - 0 = K.ctl + 1
    BY <1>4
  <2> QED BY <1>6, <2>1 DEF ControlFits
<1>8. Len(w) = Len(w) + ItemsTo(Pong, n)
  BY <1>1, <1>6 DEF InOrder
<1>9. \/ Claimed(K)
      \/ /\ K.pend = t + Items(Pong) + Len(K.subs)
         /\ Numbered(K.subs, Len(a) - Len(K.subs), a)
  <2>1. Len(K.batch) = 0
    OBVIOUS
  <2> QED BY <1>1, <1>6, <2>1 DEF GnetQueue
<1>10. Writes(K, a, w, w, Pong, n)
  BY <1>1, <1>2, <1>6, <1>7, <1>8, <1>9 DEF Writes
<1> QED BY <1>10, WrittenInv

LEMMA FrameParts ==
  ASSUME GnetState, k.pc = "frames"
  PROVE  LET K == [k EXCEPT !.data = Tail(@)]
         IN  /\ GnetInv(K, env.acc, env.wire) /\ Unmoved(k, K) /\ DOMAIN K = GnetFields
             /\ Retains(k, K, {"data"}) /\ K.gconn = "open" /\ K.batch = <<>>
             /\ K.pc = "frames" /\ ~K.done /\ K.boot = k.boot /\ K.boot \in 0..3
             /\ K.state # "created"
<1> DEFINE K == [k EXCEPT !.data = Tail(@)]
<1>1. Retains(k, K, {"data"})
  BY GnetParts DEF Retains, GnetFields
<1> HIDE DEF K
<1>2. Retains(k, K, Quietly)
  BY <1>1 DEF Retains, Quietly
<1>3. GnetInv(K, env.acc, env.wire) /\ Unmoved(k, K)
  BY <1>2, QuietStep DEF Goal, GnetState
<1>4. DOMAIN K = GnetFields /\ K.gconn = k.gconn /\ K.batch = k.batch /\ K.pc = k.pc
      /\ K.done = k.done /\ K.boot = k.boot
  BY <1>1, GnetParts DEF Retains, GnetFields
<1>5. k.gconn = "open" /\ k.batch = <<>> /\ ~k.done /\ k.boot \in 0..3
      /\ k.state # "created"
  BY GnetParts DEF Enrolls, GnetShape
<1>6. K.state = k.state
  BY <1>3 DEF Unmoved
<1> QED BY <1>1, <1>3, <1>4, <1>5, <1>6 DEF K

(* The bootstrap's first message.                                          *)
LEMMA NonceInv ==
  ASSUME NEW K, NEW a, NEW w, GnetInv(K, a, w), K.gconn = "open", K.boot < 3
  PROVE  LET r == [K EXCEPT !.boot = 2, !.in = Append(@, "shake")]
         IN  /\ GnetInv(r, a, w) /\ Unmoved(K, r) /\ r.gconn = "open"
             /\ r.batch = K.batch /\ r.pc = K.pc
<1> DEFINE r == [K EXCEPT !.boot = 2, !.in = Append(@, "shake")]
<1>1. GnetShape(K) /\ Lives(K) /\ Enrolls(K) /\ DOMAIN K = GnetFields
  BY DEF GnetInv, GnetShape
<1>2. Retains(K, r, {"boot", "in"}) /\ r.boot = 2
  BY <1>1 DEF Retains, GnetFields
<1> HIDE DEF r
<1>3. /\ DOMAIN r = GnetFields /\ r.kind = K.kind /\ r.state = K.state
      /\ r.err = K.err /\ r.start = K.start /\ r.done = K.done /\ r.sig = K.sig
      /\ r.subs = K.subs /\ r.pend = K.pend /\ r.bytes = K.bytes
      /\ r.starter = K.starter /\ r.initiated = K.initiated
      /\ r.owner = K.owner /\ r.gconn = K.gconn /\ r.pc = K.pc
      /\ r.batch = K.batch /\ r.segs = K.segs /\ r.buf = K.buf /\ r.ctl = K.ctl
      /\ r.stopping = K.stopping /\ r.stopper = K.stopper
  BY <1>1, <1>2 DEF Retains, GnetFields
<1>4. r.boot \in 0..3
  BY <1>2
<1>5. GnetShape(r)
  BY <1>1, <1>3, <1>4 DEF GnetShape
<1>6. Lives(r)
  BY <1>1, <1>2, <1>3 DEF Lives, Claimed
<1>7. Enrolls(r)
  BY <1>1, <1>3 DEF Enrolls, Claimed
<1>8. Claimed(r) \/ (~Claimed(K) /\ r.batch = K.batch)
  BY <1>3 DEF Claimed
<1>9. GnetInv(r, a, w)
  BY <1>3, <1>5, <1>6, <1>7, <1>8, FrameInv
<1> QED BY <1>3, <1>9 DEF Unmoved, r

(* publishReady.                                                           *)
LEMMA ReadyInv ==
  ASSUME NEW K, NEW a, NEW w, GnetInv(K, a, w), K.gconn = "open", K.boot < 3,
         ~Claimed(K), K.state # "created"
  PROVE  LET r == PublishStart([K EXCEPT !.boot = 3, !.state = "ready"], "ok")
         IN  /\ GnetInv(r, a, w) /\ Readies(K, r) /\ r.gconn = "open" /\ r.pend = 0
             /\ r.batch = K.batch /\ r.pc = K.pc
<1> DEFINE B == [K EXCEPT !.boot = 3, !.state = "ready"]
           r == PublishStart(B, "ok")
<1>1. GnetShape(K) /\ Lives(K) /\ Enrolls(K) /\ DOMAIN K = GnetFields
  BY DEF GnetInv, GnetShape
<1>2. K.start = "none" /\ K.pend = 0 /\ K.state # "ready" /\ ~K.done /\ K.err = "none"
  BY <1>1 DEF Lives, Claimed
<1>3. K.state = "boot"
  BY <1>1, <1>2 DEF GnetShape, Claimed
<1>4. r = [B EXCEPT !.start = "ok"]
  BY <1>1, <1>2 DEF PublishStart, GnetFields
<1>5. Retains(K, r, {"boot", "state", "start"}) /\ r.boot = 3 /\ r.state = "ready"
      /\ r.start = "ok"
  BY <1>1, <1>4 DEF Retains, GnetFields
<1> HIDE DEF r
<1>6. /\ DOMAIN r = GnetFields /\ r.kind = K.kind
      /\ r.err = K.err /\ r.done = K.done /\ r.sig = K.sig
      /\ r.subs = K.subs /\ r.pend = K.pend /\ r.bytes = K.bytes
      /\ r.starter = K.starter /\ r.initiated = K.initiated
      /\ r.owner = K.owner /\ r.gconn = K.gconn /\ r.pc = K.pc
      /\ r.batch = K.batch /\ r.segs = K.segs /\ r.buf = K.buf /\ r.ctl = K.ctl
      /\ r.stopping = K.stopping /\ r.stopper = K.stopper
  BY <1>1, <1>5 DEF Retains, GnetFields
<1>7. r.boot \in 0..3
  BY <1>5
<1>8. GnetShape(r)
  BY <1>1, <1>5, <1>6, <1>7 DEF GnetShape
<1>9. Lives(r)
  BY <1>1, <1>2, <1>5, <1>6 DEF Lives, Claimed
<1>10. Enrolls(r)
  BY <1>1, <1>5, <1>6 DEF Enrolls, Claimed
<1>11. GnetInv(r, a, w)
  BY <1>6, <1>8, <1>9, <1>10, FrameInv
<1>12. Readies(K, r)
  BY <1>2, <1>3, <1>5, <1>6 DEF Readies
<1> QED BY <1>2, <1>6, <1>11, <1>12 DEF r

(* A frame of a ready link: a ping that fits is answered, then the event   *)
(* is queued.                                                              *)
LEMMA HandledInv ==
  ASSUME NEW K, NEW a, NEW w, GnetInv(K, a, w), K.gconn = "open", K.boot = 3,
         K.batch = <<>>, ~K.done, NEW f, NEW n \in 0..1, CanFlush(K, n)
  PROVE  LET r == Handled(K, f, n)
         IN  /\ r.err \in {"none", "protocol", "control backpressure", "closed",
                           "event backpressure"}
             /\ r.err = "none" =>
                  /\ GnetInv(r.k, a, w) /\ Progresses(K, r.k) /\ r.k.gconn = "open"
                  /\ r.k.batch = <<>> /\ r.k.pc = K.pc
<1> DEFINE W == Written(K, Pong, n)
           P == IF f = "ping" THEN ObserveOwnerOutbound(W) ELSE K
           e == EnqueueEvent(P, f)
           r == Handled(K, f, n)
<1>1. r = IF f = "bad" THEN [err |-> "protocol", k |-> K]
          ELSE IF f = "ping" /\ ~ControlFits(K)
          THEN [err |-> "control backpressure", k |-> K]
          ELSE IF f = "ping" /\ Overflows(W) THEN [err |-> "outbound", k |-> K]
          ELSE e
  BY DEF Handled
<1>2. CASE f = "bad" \/ (f = "ping" /\ ~ControlFits(K))
  <2>1. r.err = "protocol" \/ r.err = "control backpressure"
    <3> HIDE DEF r
    <3> QED BY <1>1, <1>2
  <2> HIDE DEF r
  <2>2. r.err # "none"
    BY <2>1
  <2> QED BY <2>1, <2>2 DEF r
<1>3. CASE f # "bad" /\ ~(f = "ping" /\ ~ControlFits(K))
  <2>1. /\ GnetInv(P, a, w) /\ Progresses(K, P) /\ P.gconn = "open" /\ P.batch = <<>>
        /\ P.pc = K.pc /\ DOMAIN P = GnetFields /\ ~(f = "ping" /\ Overflows(W))
    <3>1. CASE f = "ping"
      <4>1. /\ GnetInv(W, a, w) /\ Unmoved(K, W)
            /\ Retains(K, W, {"segs", "ctl", "buf"}) /\ DOMAIN W = GnetFields
        BY <1>3, <3>1, PongInv
      <4>2. P = ObserveOwnerOutbound(W)
        BY <3>1
      <4> HIDE DEF W
      <4>3. W.gconn = K.gconn /\ W.batch = K.batch /\ W.pc = K.pc /\ W.done = K.done
            /\ W.boot = K.boot
        BY <4>1, PendIsNat DEF Retains, GnetFields
      <4>4. /\ GnetInv(P, a, w) /\ Progresses(W, P)
            /\ Retains(W, P, ObservedFields) /\ DOMAIN P = GnetFields
        BY <4>1, <4>2, <4>3, ObserveInv
      <4> HIDE DEF P
      <4>5. P.gconn = W.gconn /\ P.batch = W.batch /\ P.pc = W.pc
        BY <4>1, <4>4 DEF Retains, GnetFields, ObservedFields
      <4>6. Progresses(K, P)
        BY <4>1, <4>4, UnmovedThen
      <4>7. ~Overflows(W)
        BY <4>1 DEF GnetInv
      <4> QED BY <4>3, <4>4, <4>5, <4>6, <4>7
    <3>2. CASE f # "ping"
      <4>1. P = K
        BY <3>2
      <4>2. Progresses(K, K)
        BY PendIsNat, SelfEnded, UnmovedProgress
      <4> QED BY <3>2, <4>1, <4>2, PendIsNat
    <3> QED BY <3>1, <3>2
  <2>2. r = e
    BY <1>1, <1>3, <2>1
  <2> HIDE DEF P, r
  <2>3. /\ e.err \in {"none", "closed", "event backpressure"}
        /\ Retains(P, e.k, {"evq", "charges"})
    BY <2>1, EnqueueLaw DEF GnetFields
  <2> HIDE DEF e
  <2>4. Retains(P, e.k, Quietly)
    BY <2>3 DEF Retains, Quietly
  <2>5. GnetInv(e.k, a, w) /\ Unmoved(P, e.k)
    BY <2>1, <2>4, QuietStep DEF Goal
  <2>6. e.k.gconn = P.gconn /\ e.k.batch = P.batch /\ e.k.pc = P.pc
    BY <2>1, <2>3 DEF Retains, GnetFields
  <2>7. Progresses(K, e.k)
    BY <2>1, <2>5, ThenUnmoved
  <2> QED BY <2>1, <2>2, <2>3, <2>5, <2>6, <2>7 DEF r
<1> QED BY <1>2, <1>3

LEMMA OwnerFrameStep ==
  ASSUME GnetState, NEW n \in 0..1, OwnerFrame(n) PROVE GnetGoal
<1> DEFINE a == env.acc
           w == env.wire
           f == Head(k.data)
           K == [k EXCEPT !.data = Tail(@)]
           r == IF k.boot < 3 THEN Bootstrapped(K, f) ELSE Handled(K, f, n)
           last == [r.k EXCEPT !.pc = IF r.k.data = <<>> THEN "idle" ELSE @]
           L == IF last.pc = "idle" /\ last.boot = 3
                THEN ObserveOwnerOutbound(last) ELSE last
<1>1. /\ k.pc = "frames" /\ CanFlush(k, n) /\ env' = env
      /\ k' = IF r.err # "none" THEN OnClose(K, r.err) ELSE L
  BY DEF OwnerFrame
<1>2. /\ GnetInv(K, a, w) /\ Unmoved(k, K) /\ DOMAIN K = GnetFields
      /\ Retains(k, K, {"data"}) /\ K.gconn = "open" /\ K.batch = <<>>
      /\ K.pc = "frames" /\ ~K.done /\ K.boot = k.boot /\ K.boot \in 0..3
      /\ K.state # "created"
  BY <1>1, FrameParts
<1> HIDE DEF K, f
<1>3. CanFlush(K, n)
  <2>1. K.buf = k.buf
    BY <1>2, GnetParts DEF Retains, GnetFields
  <2> QED BY <1>1, <2>1 DEF CanFlush
<1>4. k.pend \in Nat /\ k.sig \in BOOLEAN /\ Len(w) <= Len(w)
  BY GnetParts DEF GnetState, GnetInv, InOrder
<1>5. ASSUME r.err \notin {"none", "ok", "outbound"} PROVE GnetGoal
  <2>1. k' = OnClose(K, r.err)
    BY <1>1, <1>5
  <2> HIDE DEF r
  <2>2. GnetInv(k', a, w) /\ Ended(K, k') /\ Ended(k, K)
    BY <1>2, <1>5, <2>1, OnCloseInv DEF Ended
  <2> QED BY <1>1, <2>2, EndedMore, EndedStep DEF GnetGoal
<1>6. ASSUME r.err = "none", GnetInv(r.k, a, w), Progresses(k, r.k), r.k.gconn = "open",
             r.k.batch = <<>>, r.k.pc = "frames"
      PROVE  GnetGoal
  <2>1. k' = L
    BY <1>1, <1>6
  <2>2. GnetInv(L, a, w) /\ Progresses(k, L) /\ ~L.done
    <3> HIDE DEF r
    <3> QED BY <1>4, <1>6, LastFrame
  <2> HIDE DEF L
  <2>3. Goal(k, a, w, L, a, w)
    BY <1>4, <2>2, ProgressStep
  <2> QED BY <1>1, <2>1, <2>3 DEF GnetGoal
<1>7. CASE k.boot < 3 /\ f = "nonce"
  <2> DEFINE R == [K EXCEPT !.boot = 2, !.in = Append(@, "shake")]
  <2>1. r = [err |-> "none", k |-> R]
    BY <1>7 DEF Bootstrapped
  <2>2. /\ GnetInv(r.k, a, w) /\ Unmoved(K, r.k) /\ r.k.gconn = "open"
        /\ r.k.batch = K.batch /\ r.k.pc = K.pc
    <3>1. /\ GnetInv(R, a, w) /\ Unmoved(K, R) /\ R.gconn = "open"
          /\ R.batch = K.batch /\ R.pc = K.pc
      BY <1>2, <1>7, NonceInv
    <3> HIDE DEF R
    <3>2. r.k = R
      BY <2>1
    <3> QED BY <3>1, <3>2
  <2>3. Unmoved(k, r.k)
    BY <1>2, <2>2 DEF Unmoved
  <2>4. Progresses(k, r.k) /\ r.err = "none"
    BY <1>4, <2>1, <2>3, UnmovedProgress
  <2> QED BY <1>2, <1>6, <2>2, <2>4
<1>8. CASE k.boot < 3 /\ f # "nonce"
  <2> DEFINE R == PublishStart([K EXCEPT !.boot = 3, !.state = "ready"], "ok")
  <2>1. r = [err |-> IF Claimed(K) THEN "closed" ELSE "none", k |-> R]
    BY <1>8 DEF Bootstrapped
  <2>2. CASE Claimed(K)
    <3>1. r.err = "closed"
      BY <2>1, <2>2
    <3> QED BY <1>5, <3>1
  <2>3. CASE ~Claimed(K)
    <3>1. /\ GnetInv(R, a, w) /\ Readies(K, R) /\ R.gconn = "open" /\ R.pend = 0
          /\ R.batch = K.batch /\ R.pc = K.pc
      BY <1>2, <1>8, <2>3, ReadyInv
    <3> HIDE DEF R
    <3>2. r.err = "none" /\ r.k = R
      BY <2>1, <2>3
    <3>3. Progresses(R, R) /\ R.sig \in BOOLEAN /\ R.pend \in Nat
      BY <3>1, PendIsNat, SelfEnded, UnmovedProgress
    <3>4. k' = L
      BY <1>1, <3>2
    <3>5. GnetInv(L, a, w) /\ Progresses(R, L) /\ ~L.done
      <4> HIDE DEF r
      <4> QED BY <1>2, <3>1, <3>2, <3>3, LastFrame
    <3> HIDE DEF L
    <3>6. L.pend \in Nat
      BY <3>5, PendIsNat
    <3>7. Unmoved(R, L)
      <4>1. L.pend = R.pend /\ ~(L.pend < R.pend)
        BY <3>1, <3>5, <3>6 DEF Progresses
      <4> QED BY <3>3, <3>5, <4>1 DEF Progresses, Unmoved
    <3>8. Readies(k, L)
      BY <1>2, <3>1, <3>7 DEF Readies, Unmoved
    <3> QED BY <1>1, <3>4, <3>5, <3>8 DEF GnetGoal, Goal, Allowed
  <2> QED BY <2>2, <2>3
<1>9. CASE ~(k.boot < 3)
  <2>1. r = Handled(K, f, n)
    BY <1>9
  <2>2. K.boot = 3
    BY <1>2, <1>9
  <2>3. /\ r.err \in {"none", "protocol", "control backpressure", "closed",
                      "event backpressure"}
        /\ r.err = "none" =>
             /\ GnetInv(r.k, a, w) /\ Progresses(K, r.k) /\ r.k.gconn = "open"
             /\ r.k.batch = <<>> /\ r.k.pc = K.pc
    <3> HIDE DEF r
    <3> QED BY <1>2, <1>3, <2>1, <2>2, HandledInv
  <2>4. CASE r.err = "none"
    <3>1. Progresses(k, r.k)
      <4> HIDE DEF r
      <4> QED BY <1>2, <2>3, <2>4, UnmovedThen
    <3> QED BY <1>2, <1>6, <2>3, <2>4, <3>1
  <2>5. CASE r.err # "none"
    BY <1>5, <2>3, <2>5
  <2> QED BY <2>4, <2>5
<1> QED BY <1>7, <1>8, <1>9

-----------------------------------------------------------------------------
Envelope == DOMAIN env = {"max", "acc", "wire", "sent"} /\ env.max \in Scenarios

(* Every step of the gnet engine keeps the invariant and is a step of the  *)
(* contract.                                                               *)
LEMMA GnetNextStep ==
  ASSUME GnetState, Envelope, GnetNext PROVE GnetGoal
<1> USE DEF Envelope
<1>1. CASE \E n \in env.max.sizes : TrySubmit(n, GnetWake(Submitted(n)))
  <2>1. PICK n \in env.max.sizes : TrySubmit(n, GnetWake(Submitted(n)))
    BY <1>1
  <2>2. n \in Nat \ {0}
    BY ScenarioAssumption
  <2> QED BY <2>1, <2>2, TrySubmitStep
<1>2. CASE \E n \in 0..Budget : DrainWrites(n)
  BY <1>2, DrainWritesStep
<1>3. CASE \E n \in 0..1 : OwnerFrame(n)
  BY <1>3, OwnerFrameStep
<1>4. CASE \E f \in env.max.frames : k.boot = 3 /\ k.gconn = "open" /\ PeerSends(f)
  BY <1>4, PeerSendsStep
<1>5. CASE \/ GStart \/ GStartCanceled \/ Enroll \/ OnOpen \/ StartReturns
           \/ ResolveStartCancellation
  BY <1>5, GStartStep, GStartCanceledStep, EnrollStep, OnOpenStep, StartReturnsStep,
     ResolveStep
<1>6. CASE \/ GClose \/ GCloseSchedules \/ CloseReturns
           \/ BeginStop \/ StopClaims \/ StopSchedules \/ StopClient
  BY <1>6, GCloseStep, GCloseSchedulesStep, CloseReturnsStep, BeginStopStep,
     StopClaimsStep, StopSchedulesStep, StopClientStep
<1>7. CASE \/ DrainOwner \/ OnTraffic \/ OwnerCloses \/ StreamLost \/ SocketWrites
           \/ FireOutboundPoll \/ TakeSignal \/ TakeEvent \/ Snapshot
  BY <1>7, DrainOwnerStep, OnTrafficStep, OwnerClosesStep, StreamLostStep,
     SocketWritesStep, FireStep, TakeSignalStep, TakeEventStep, SnapshotStep
<1> QED BY <1>1, <1>2, <1>3, <1>4, <1>5, <1>6, <1>7 DEF GnetNext

-----------------------------------------------------------------------------
(* Allowed steps are steps of the contract.                                *)
Lawful(K, a, w) ==
  /\ K.state \in {"created", "boot", "ready", "closing", "closed"}
  /\ K.sig \in BOOLEAN
  /\ Charged(K.pend, K.bytes, a) /\ InOrder(a, w)

LEMMA AfterSum ==
  ASSUME NEW a \in Seq(Nat), NEW r \in Nat, r <= Len(a)
  PROVE  Contract!Charge(Contract!After(a, r)) = Upto(a, Len(a)) - Upto(a, r)
<1> DEFINE s == SubSeq(a, r + 1, Len(a))
           n == Len(a) - r
<1>1. n \in Nat /\ Len(a) = r + n /\ \A i \in 1..Len(a) : a[i] \in Nat
  OBVIOUS
<1>2. s \in Seq(Nat) /\ Len(s) = n /\ \A i \in 1..n : s[i] = a[r + i]
  OBVIOUS
<1> HIDE DEF s, n
<1>3. Stretch(a, s, r, n, Len(a))
  BY <1>1, <1>2 DEF Stretch
<1>4. /\ Upto(a, Len(a)) = Upto(a, r) + Upto(s, n)
      /\ Upto(a, r) \in Nat /\ Upto(s, n) \in Nat /\ Upto(a, Len(a)) \in Nat
  BY <1>3, UptoShift
<1>5. SumOf(s) = Upto(s, Len(s))
  BY <1>2, SumIsUpto
<1>6. Contract!Charge(Contract!After(a, r)) = SumOf(s)
  <2>1. Contract!Cardinality(Units(s)) = Cardinality(Units(s))
    BY Zenon DEF Contract!Cardinality, Cardinality
  <2>2. Contract!Units(s) = Units(s)
    BY DEF Contract!Units, Units
  <2>3. Contract!After(a, r) = s
    BY DEF Contract!After, s
  <2> QED BY <2>1, <2>2, <2>3, Zenon DEF Contract!Charge, Contract!SumOf, SumOf
<1> QED BY <1>2, <1>4, <1>5, <1>6

LEMMA ContractProgress ==
  ASSUME Lawful(k, env.acc, env.wire), Lawful(k', env'.acc, env'.wire),
         env'.acc = env.acc, Len(env.wire) <= Len(env'.wire),
         Len(env.acc) - k'.pend <= Len(env'.wire), Progresses(k, k')
  PROVE  Contract!Progress
<1> DEFINE a == env.acc
           w == env.wire
           v == env'.wire
           p == k.pend
           q == k'.pend
<1>1. /\ a \in Seq(Nat) /\ w \in Seq(Nat) /\ v \in Seq(Nat) /\ p \in Nat /\ q \in Nat
      /\ Len(a) \in Nat /\ Len(w) \in Nat /\ Len(v) \in Nat
      /\ Len(v) <= Len(a) /\ p <= Len(a) /\ q <= p
      /\ k'.bytes = Upto(a, Len(a)) - Upto(a, Len(a) - q)
      /\ \A i \in 1..Len(v) : v[i] = i
  BY DEF Lawful, Charged, InOrder, Progresses
<1>2. v = [i \in 1..Len(v) |-> i]
  <2> HIDE DEF v
  <2> QED BY <1>1
<1>3. \E n \in Len(w)..Len(a) : v = [i \in 1..n |-> i]
  <2>1. Len(v) \in Len(w)..Len(a)
    <3> HIDE DEF v, w, a
    <3>1. Len(w) <= Len(v)
      BY DEF v, w
    <3> QED BY <1>1, <3>1
  <2> QED BY <1>2, <2>1
<1>4. Len(a) - q \in (Len(a) - p)..Len(v) /\ Len(a) - q \in Nat /\ Len(a) - q <= Len(a)
  <2>1. Len(a) - q <= Len(v)
    OBVIOUS
  <2> HIDE DEF a, v, p, q
  <2> QED BY <1>1, <2>1
<1>5. k'.bytes = Contract!Charge(Contract!After(a, Len(a) - q))
  <2> HIDE DEF a, q
  <2> QED BY <1>1, <1>4, AfterSum
<1>6. k'.sig = (k.sig \/ (Len(a) - q > Len(a) - p /\ k.state = "ready"))
  <2>1. q < p <=> Len(a) - q > Len(a) - p
    <3> HIDE DEF a, p, q
    <3> QED BY <1>1
  <2> QED BY <2>1 DEF Progresses
<1>7. k'.state = k.state /\ k'.start = k.start /\ k'.err = k.err
  BY DEF Progresses
<1> QED BY <1>3, <1>4, <1>5, <1>6, <1>7 DEF Contract!Progress

LEMMA ContractStep ==
  ASSUME Lawful(k, env.acc, env.wire), Lawful(k', env'.acc, env'.wire),
         Allowed(k, env.acc, env.wire, k', env'.acc, env'.wire)
  PROVE  [Contract!Next]_(Contract!contract)
<1> USE DEF Contract!Next
<1>1. /\ env.acc \in Seq(Nat) /\ Len(env.acc) \in Nat
      /\ k.pend \in Nat /\ k.bytes \in Nat /\ k.pend <= Len(env.acc)
      /\ k.state \in {"created", "boot", "ready", "closing", "closed"}
  BY DEF Lawful, Charged
<1>2. Contract!Alive <=> ~Claimed(k)
  BY <1>1 DEF Contract!Alive, Claimed
<1>3. Fails(k, k') => Contract!StartFails
  BY DEF Fails, Contract!StartFails
<1>4. ASSUME env'.acc = env.acc, env'.wire = env.wire, k'.pend = k.pend
      PROVE  (Len(env.acc) - k.pend)' = Len(env.acc) - k.pend
  BY <1>4
<1>5. CASE env'.acc = env.acc /\ env'.wire = env.wire /\ Ended(k, k')
  <2>1. CASE Unmoved(k, k')
    BY <1>4, <1>5, <2>1 DEF Unmoved, Contract!contract
  <2>2. CASE Claims(k, k')
    <3>1. Contract!Claim
      BY <1>2, <1>3, <1>4, <1>5, <2>2 DEF Claims, Contract!Claim
    <3> QED BY <3>1
  <2>3. CASE Closes(k, k')
    <3>1. Len(env'.acc) - k'.pend = Len(env.acc) /\ k'.bytes = 0 /\ k'.sig = k.sig
      BY <1>1, <1>5, <2>3 DEF Closes
    <3>2. Contract!Close
      BY <1>2, <1>3, <1>5, <2>3, <3>1 DEF Closes, Contract!Close
    <3> QED BY <3>2
  <2> QED BY <1>5, <2>1, <2>2, <2>3 DEF Ended
<1>6. CASE env'.acc = env.acc /\ env'.wire = env.wire
           /\ (Begins(k, k') \/ Readies(k, k') \/ Signals(k, k') \/ Publishes(k, k'))
  <2>1. CASE Begins(k, k')
    <3>1. Contract!Begin
      BY <1>4, <1>6, <2>1 DEF Begins, Contract!Begin
    <3> QED BY <3>1
  <2>2. CASE Readies(k, k')
    <3>1. Contract!BecomeReady
      BY <1>4, <1>6, <2>2 DEF Readies, Contract!BecomeReady
    <3> QED BY <3>1
  <2>3. CASE Signals(k, k')
    <3>1. Contract!TakeCapacity
      BY <1>4, <1>6, <2>3 DEF Signals, Contract!TakeCapacity
    <3> QED BY <3>1
  <2>4. CASE Publishes(k, k')
    <3>1. Contract!PublishFailure
      BY <1>2, <1>3, <1>4, <1>6, <2>4 DEF Publishes, Contract!PublishFailure
    <3> QED BY <3>1
  <2> QED BY <1>6, <2>1, <2>2, <2>3, <2>4
<1>7. CASE /\ env'.acc = env.acc /\ Len(env.wire) <= Len(env'.wire)
           /\ Len(env.acc) - k'.pend <= Len(env'.wire) /\ Progresses(k, k')
  <2>1. Contract!Progress
    BY <1>7, ContractProgress
  <2> QED BY <2>1
<1>8. CASE /\ env'.wire = env.wire
           /\ \E x \in Nat : env'.acc = Append(env.acc, x) /\ Accepts(k, k', x)
  <2>1. PICK x \in Nat : env'.acc = Append(env.acc, x) /\ Accepts(k, k', x)
    BY <1>8
  <2>2. /\ x \in 1..Limits.subBytes /\ k.pend < Limits.subs
        /\ x <= Limits.subBytes - k.bytes /\ k.state = "ready"
        /\ k'.pend = k.pend + 1 /\ k'.bytes = k.bytes + x
        /\ k'.state = k.state /\ k'.start = k.start /\ k'.err = k.err /\ k'.sig = k.sig
    BY <2>1 DEF Accepts
  <2>3. Len(env'.acc) = Len(env.acc) + 1
    BY <1>1, <2>1
  <2>4. Limits.subs \in Nat /\ Limits.subBytes \in Nat
    BY LimitsAssumption
  <2>5. /\ Len(env'.acc) - k'.pend = Len(env.acc) - k.pend
        /\ Len(env.acc) - (Len(env.acc) - k.pend) < Limits.subs
        /\ k.bytes + x <= Limits.subBytes
    <3>1. \A l, p, b, y, m, n \in Nat :
            /\ (l + 1) - (p + 1) = l - p /\ l - (l - p) = p
            /\ y <= n - b => b + y <= n
      OBVIOUS
    <3>2. /\ (Len(env.acc) + 1) - (k.pend + 1) = Len(env.acc) - k.pend
          /\ Len(env.acc) - (Len(env.acc) - k.pend) = k.pend
      BY <1>1, <3>1, SMTT(30)
    <3>3. k.bytes + x <= Limits.subBytes
      BY <1>1, <2>2, <2>4, <3>1
    <3> QED BY <2>2, <2>3, <3>2, <3>3
  <2>6. Contract!Accept(x)
    BY <1>8, <2>1, <2>2, <2>5 DEF Contract!Accept
  <2> QED BY <2>2, <2>6
<1> QED BY <1>5, <1>6, <1>7, <1>8 DEF Allowed

-----------------------------------------------------------------------------
(* The blocking engine.                                                    *)
BlockingFields ==
  {"kind", "state", "err", "start", "done", "subs", "pend", "bytes", "evq",
   "charges", "evOpen", "sig", "in", "data", "starter", "closer",
   "owner", "reader", "writer", "active", "queued", "jobs", "results",
   "reads", "rdata", "rerr", "job", "werr"}

Results == [job : Subs, err : BOOLEAN]

BlockingShape(K) ==
  /\ DOMAIN K = BlockingFields /\ K.kind = "blocking"
  /\ K.state \in {"created", "boot", "ready", "closing", "closed"}
  /\ K.done \in BOOLEAN /\ K.sig \in BOOLEAN
  /\ K.subs \in Seq(Subs) /\ K.active \in Subs /\ K.job \in Subs
  /\ K.jobs \in Seq(Subs) /\ K.results \in Seq(Results) /\ K.werr \in BOOLEAN

(* Who may finish the link, and when its goroutines run.                   *)
BlockingLife(K) ==
  /\ K.done <=> K.state = "closed"
  /\ K.done => K.pend = 0 /\ K.bytes = 0
  /\ K.state = "created" => K.starter = "idle" /\ K.start = "none"
  /\ K.starter = "boot" => K.state \in {"boot", "closing"} /\ K.start = "none"
  /\ K.starter = "finish" => K.state = "closing" /\ K.start # "none"
  /\ K.closer = "finish" => /\ K.state = "closing" /\ K.start = "none"
                            /\ K.starter \in {"idle", "wait"}
  /\ K.state = "ready" => K.owner # "none"
  /\ K.owner = "none" => K.writer = "none" /\ K.pend = 0
  /\ K.owner # "none" => K.start = "ok" /\ K.starter = "done" /\ K.closer # "finish"
                         /\ K.state \notin {"created", "boot"}
  /\ K.owner = "finish" => Claimed(K)
  /\ K.owner \in {"frames", "select", "finish"} => ~K.done
  /\ K.writer \in {"idle", "write", "send"} => ~K.done
  /\ K.job # None => K.writer \in {"write", "send"}

(* One submission at a time is with the writer: a job, in hand, or a       *)
(* result.                                                                 *)
InJobs(q) == \E i \in 1..Len(q) : q[i] # None
InResults(q) == \E i \in 1..Len(q) : q[i].job # None

Flight(x, jobs, job, results) ==
  /\ \A i \in 1..Len(jobs) : jobs[i] \in {None, x}
  /\ \A i \in 1..Len(results) : results[i].job \in {None, x}
  /\ job \in {None, x}
  /\ \A i, j \in 1..Len(jobs) : jobs[i] # None /\ jobs[j] # None => i = j
  /\ \A i, j \in 1..Len(results) :
       results[i].job # None /\ results[j].job # None => i = j
  /\ ~(InJobs(jobs) /\ (job # None \/ InResults(results)))
  /\ ~(job # None /\ InResults(results))

(* What the stream has taken of it.                                        *)
OnWire(K, rel, w) ==
  /\ Len(w) \in rel..rel + 1
  /\ K.active = None \/ InJobs(K.jobs) => Len(w) = rel
  /\ K.job # None =>
       Len(w) = rel + (IF K.writer = "send" /\ ~K.werr THEN 1 ELSE 0)
  /\ \A i \in 1..Len(K.results) : K.results[i].job # None =>
       Len(w) = rel + (IF K.results[i].err THEN 0 ELSE 1)

BlockingQueue(K, a, w) ==
  /\ K.pend = Len(K.subs) + (IF K.active = None THEN 0 ELSE 1)
  /\ Numbered(K.subs, Len(a) - Len(K.subs), a)
  /\ K.active # None => /\ K.active.id = (Len(a) - K.pend) + 1
                        /\ K.active.size = a[(Len(a) - K.pend) + 1]
  /\ Flight(K.active, K.jobs, K.job, K.results)
  /\ OnWire(K, Len(a) - K.pend, w)

BlockingInv(K, a, w) ==
  /\ BlockingShape(K) /\ BlockingLife(K)
  /\ Charged(K.pend, K.bytes, a) /\ InOrder(a, w)
  /\ ~K.done => BlockingQueue(K, a, w)

BlockingState == BlockingInv(k, env.acc, env.wire)
BlockingGoal ==
  /\ BlockingInv(k', env'.acc, env'.wire)
  /\ Allowed(k, env.acc, env.wire, k', env'.acc, env'.wire)

Silently == {"evq", "charges", "evOpen", "in", "data", "queued", "reads", "rdata",
             "rerr", "reader"}
Living == {"owner", "starter", "closer", "state", "err", "start"}

LEMMA BlockingParts ==
  ASSUME BlockingState
  PROVE  /\ DOMAIN k = BlockingFields /\ BlockingShape(k) /\ BlockingLife(k)
         /\ BlockingInv(k, env.acc, env.wire)
BY DEF BlockingState, BlockingInv, BlockingShape

(* Steps that leave the queue alone.                                       *)
LEMMA LivingInv ==
  ASSUME NEW K, NEW L, NEW a, NEW w, BlockingInv(K, a, w),
         Retains(K, L, Silently \cup Living), BlockingLife(L),
         L.state \in {"created", "boot", "ready", "closing", "closed"}
  PROVE  /\ BlockingInv(L, a, w)
         /\ L.pend = K.pend /\ L.bytes = K.bytes /\ L.sig = K.sig
<1>1. DOMAIN K = BlockingFields
  BY DEF BlockingInv, BlockingShape
<1>2. /\ DOMAIN L = BlockingFields /\ L.kind = K.kind /\ L.done = K.done
      /\ L.subs = K.subs /\ L.pend = K.pend /\ L.bytes = K.bytes /\ L.sig = K.sig
      /\ L.writer = K.writer /\ L.active = K.active /\ L.jobs = K.jobs
      /\ L.results = K.results /\ L.job = K.job /\ L.werr = K.werr
  BY <1>1 DEF Retains, Silently, Living, BlockingFields
<1>3. BlockingShape(L)
  BY <1>2 DEF BlockingInv, BlockingShape
<1>4. ~K.done => BlockingQueue(L, a, w)
  BY <1>2 DEF BlockingInv, BlockingQueue, OnWire
<1> QED BY <1>2, <1>3, <1>4 DEF BlockingInv

LEMMA SilentInv ==
  ASSUME NEW K, NEW L, NEW a, NEW w, BlockingInv(K, a, w), Retains(K, L, Silently)
  PROVE  BlockingInv(L, a, w) /\ Unmoved(K, L)
<1>1. DOMAIN K = BlockingFields /\ BlockingLife(K) /\ BlockingShape(K)
  BY DEF BlockingInv, BlockingShape
<1>2. /\ L.done = K.done /\ L.pend = K.pend /\ L.bytes = K.bytes
      /\ L.writer = K.writer /\ L.job = K.job
      /\ L.owner = K.owner /\ L.starter = K.starter /\ L.closer = K.closer
      /\ L.state = K.state /\ L.err = K.err /\ L.start = K.start
      /\ Retains(K, L, Silently \cup Living)
  BY <1>1 DEF Retains, Silently, Living, BlockingFields
<1>3. BlockingLife(L)
  BY <1>1, <1>2 DEF BlockingLife, Claimed
<1>4. L.state \in {"created", "boot", "ready", "closing", "closed"}
  BY <1>1, <1>2 DEF BlockingShape
<1> QED BY <1>2, <1>3, <1>4, LivingInv DEF Unmoved

(* A step of the life cycle that changes neither acc nor wire.             *)
LEMMA LivingGoal ==
  ASSUME BlockingState, Retains(k, k', Silently \cup Living), BlockingLife(k'),
         k'.state \in {"created", "boot", "ready", "closing", "closed"}, env' = env,
         (k'.pend = k.pend /\ k'.bytes = k.bytes /\ k'.sig = k.sig) =>
           \/ Ended(k, k')
           \/ Begins(k, k')
           \/ Readies(k, k')
           \/ Publishes(k, k')
  PROVE  BlockingGoal
<1>1. /\ BlockingInv(k', env.acc, env.wire)
      /\ k'.pend = k.pend /\ k'.bytes = k.bytes /\ k'.sig = k.sig
  BY LivingInv DEF BlockingState
<1> QED BY <1>1 DEF BlockingGoal, Allowed

LEMMA SilentGoal ==
  ASSUME BlockingState, Retains(k, k', Silently), env'.acc = env.acc,
         env'.wire = env.wire
  PROVE  BlockingGoal
<1>1. BlockingInv(k', env.acc, env.wire) /\ Unmoved(k, k')
  BY SilentInv DEF BlockingState
<1> QED BY <1>1 DEF BlockingGoal, Allowed, Ended

-----------------------------------------------------------------------------
(* Start, the bootstrap and Close.                                         *)
LEMMA BStartStep ==
  ASSUME BlockingState, BStart PROVE BlockingGoal
<1>1. /\ BlockingLife(k) /\ DOMAIN k = BlockingFields /\ env' = env
      /\ k.state \in {"created", "boot", "ready", "closing", "closed"}
  BY BlockingParts DEF BStart, BlockingShape
<1>2. CASE k.state = "created"
  <2>1. k' = [k EXCEPT !.state = "boot", !.starter = "boot"]
    BY <1>2 DEF BStart
  <2>2. /\ Retains(k, k', {"state", "starter"})
        /\ k'.state = "boot" /\ k'.starter = "boot"
    BY <1>1, <2>1 DEF Retains, BlockingFields
  <2>3. /\ Retains(k, k', Silently \cup Living)
        /\ k'.err = k.err /\ k'.start = k.start /\ k'.done = k.done
        /\ k'.pend = k.pend /\ k'.bytes = k.bytes /\ k'.owner = k.owner
        /\ k'.closer = k.closer /\ k'.writer = k.writer /\ k'.job = k.job
    BY <1>1, <2>2 DEF Retains, Silently, Living, BlockingFields
  <2>4. k.start = "none"
    BY <1>2, BlockingParts DEF BlockingLife
  <2>5. BlockingLife(k')
    BY <1>1, <1>2, <2>2, <2>3, <2>4 DEF BlockingLife, Claimed
  <2>6. (k'.pend = k.pend /\ k'.bytes = k.bytes /\ k'.sig = k.sig) => Begins(k, k')
    BY <1>2, <2>2, <2>3 DEF Begins
  <2> QED BY <1>1, <2>2, <2>3, <2>5, <2>6, LivingGoal
<1>3. CASE k.state # "created"
  <2>1. k' = [k EXCEPT !.starter = "wait"] /\ k.starter = "idle"
    BY <1>3 DEF BStart
  <2>2. Retains(k, k', {"starter"}) /\ k'.starter = "wait"
    BY <1>1, <2>1 DEF Retains, BlockingFields
  <2>3. /\ Retains(k, k', Silently \cup Living) /\ k'.state = k.state
        /\ k'.err = k.err /\ k'.start = k.start /\ k'.done = k.done
        /\ k'.pend = k.pend /\ k'.bytes = k.bytes /\ k'.owner = k.owner
        /\ k'.closer = k.closer /\ k'.writer = k.writer /\ k'.job = k.job
    BY <1>1, <2>2 DEF Retains, Silently, Living, BlockingFields
  <2>4. BlockingLife(k')
    BY <1>1, <1>3, <2>1, <2>2, <2>3 DEF BlockingLife, Claimed
  <2>5. (k'.pend = k.pend /\ k'.bytes = k.bytes /\ k'.sig = k.sig) => Ended(k, k')
    BY <2>3 DEF Ended, Unmoved
  <2> QED BY <1>1, <2>3, <2>4, <2>5, LivingGoal
<1> QED BY <1>2, <1>3

LEMMA PublishStartLaw ==
  ASSUME NEW K, NEW r, "start" \in DOMAIN K
  PROVE  LET L == PublishStart(K, r)
         IN  /\ Retains(K, L, {"start"})
             /\ L.start = IF K.start # "none" THEN K.start ELSE r
BY DEF PublishStart, Retains

LEMMA BeginTerminalLaw ==
  ASSUME NEW K, NEW e, {"state", "err"} \subseteq DOMAIN K
  PROVE  LET L == BeginTerminal(K, e)
         IN  /\ Retains(K, L, {"state", "err"}) /\ Claimed(L)
             /\ Claimed(K) => L = K
             /\ ~Claimed(K) => L.state = "closing" /\ L.err = e
BY DEF BeginTerminal, Retains, Claimed

LEMMA BootstrapFailsStep ==
  ASSUME BlockingState, BootstrapFails PROVE BlockingGoal
<1> DEFINE B == BeginTerminal(k, "bootstrap")
           M == [B EXCEPT !.starter = "finish"]
           r == IF Claimed(k) /\ k.err = "nil" THEN "closed" ELSE "bootstrap"
<1>1. /\ k.starter = "boot" /\ k' = PublishStart(M, r) /\ env' = env
      /\ BlockingLife(k) /\ DOMAIN k = BlockingFields /\ r \notin {"none", "ok"}
      /\ k.state \in {"created", "boot", "ready", "closing", "closed"}
  BY BlockingParts DEF BootstrapFails, BlockingShape
<1>2. /\ Retains(k, B, {"state", "err"}) /\ (Claimed(k) => B = k)
      /\ ~Claimed(k) => B.state = "closing" /\ B.err = "bootstrap"
  BY <1>1, BeginTerminalLaw DEF BlockingFields
<1> HIDE DEF B, r
<1>3. Retains(B, M, {"starter"}) /\ M.starter = "finish"
  BY <1>1, <1>2 DEF Retains, BlockingFields
<1> HIDE DEF M
<1>4. Retains(M, k', {"start"}) /\ k'.start = IF M.start # "none" THEN M.start ELSE r
  BY <1>1, <1>2, <1>3, PublishStartLaw DEF Retains, BlockingFields
<1>5. /\ Retains(k, k', Silently \cup Living) /\ k'.starter = "finish"
      /\ k'.state = B.state /\ k'.err = B.err /\ M.start = k.start
      /\ k'.done = k.done /\ k'.pend = k.pend /\ k'.bytes = k.bytes /\ k'.owner = k.owner
      /\ k'.closer = k.closer /\ k'.writer = k.writer /\ k'.job = k.job
  BY <1>1, <1>2, <1>3, <1>4 DEF Retains, Silently, Living, BlockingFields
<1>6. k'.start = r /\ k.start = "none" /\ k.state \in {"boot", "closing"}
  BY <1>1, <1>4, <1>5 DEF BlockingLife
<1>7. k'.state = "closing"
  BY <1>2, <1>5, <1>6 DEF Claimed
<1>8. BlockingLife(k')
  BY <1>1, <1>5, <1>6, <1>7 DEF BlockingLife, Claimed
<1>9. (k'.pend = k.pend /\ k'.bytes = k.bytes /\ k'.sig = k.sig) =>
        Ended(k, k') \/ Publishes(k, k')
  <2>1. CASE Claimed(k)
    BY <1>1, <1>2, <1>5, <1>6, <2>1 DEF Publishes, Fails
  <2>2. CASE ~Claimed(k)
    BY <1>1, <1>2, <1>5, <1>6, <2>2 DEF Ended, Claims, Fails
  <2> QED BY <2>1, <2>2
<1> QED BY <1>1, <1>5, <1>7, <1>8, <1>9, LivingGoal

LEMMA BootstrapDoneStep ==
  ASSUME BlockingState, NEW initial \in BOOLEAN, NEW err \in BOOLEAN,
         BootstrapDone(initial, err)
  PROVE  BlockingGoal
<1>1. /\ k.starter = "boot" /\ env' = env
      /\ BlockingLife(k) /\ DOMAIN k = BlockingFields
      /\ k.state \in {"boot", "closing"} /\ k.start = "none"
      /\ k.owner = "none" /\ k.writer = "none" /\ k.pend = 0
  BY BlockingParts DEF BootstrapDone, BlockingLife
<1>2. CASE Claimed(k)
  <2> DEFINE M == [k EXCEPT !.starter = "finish"]
  <2>1. k' = PublishStart(M, "closed")
    BY <1>2 DEF BootstrapDone
  <2>2. Retains(k, M, {"starter"}) /\ M.starter = "finish"
    BY <1>1 DEF Retains, BlockingFields
  <2> HIDE DEF M
  <2>3. /\ Retains(M, k', {"start"})
        /\ k'.start = IF M.start # "none" THEN M.start ELSE "closed"
    BY <1>1, <2>1, <2>2, PublishStartLaw DEF Retains, BlockingFields
  <2>4. /\ Retains(k, k', Silently \cup Living) /\ k'.starter = "finish"
        /\ k'.state = k.state /\ k'.err = k.err /\ M.start = k.start
        /\ k'.done = k.done /\ k'.pend = k.pend /\ k'.bytes = k.bytes
        /\ k'.owner = k.owner
        /\ k'.closer = k.closer /\ k'.writer = k.writer /\ k'.job = k.job
    BY <1>1, <2>2, <2>3 DEF Retains, Silently, Living, BlockingFields
  <2>5. k'.start = "closed" /\ k.state = "closing"
    BY <1>1, <1>2, <2>3, <2>4 DEF Claimed
  <2>6. BlockingLife(k')
    BY <1>1, <2>4, <2>5 DEF BlockingLife, Claimed
  <2>7. (k'.pend = k.pend /\ k'.bytes = k.bytes /\ k'.sig = k.sig) => Publishes(k, k')
    BY <1>1, <1>2, <2>4, <2>5 DEF Publishes, Fails
  <2> QED BY <1>1, <2>4, <2>5, <2>6, <2>7, LivingGoal
<1>3. CASE ~Claimed(k)
  <2> DEFINE M == [k EXCEPT !.reader = "read", !.writer = "idle",
                            !.owner = "frames", !.rerr = err,
                            !.data = IF initial THEN k.in ELSE <<>>,
                            !.in = IF initial THEN <<>> ELSE @,
                            !.state = "ready", !.starter = "done"]
  <2>1. k' = PublishStart(M, "ok")
    BY <1>3 DEF BootstrapDone
  <2>2. /\ Retains(k, M, {"reader", "writer", "owner", "rerr", "data", "in", "state",
                          "starter"})
        /\ M.starter = "done" /\ M.state = "ready" /\ M.owner = "frames"
        /\ M.writer = "idle"
    BY <1>1 DEF Retains, BlockingFields
  <2> HIDE DEF M
  <2>3. /\ Retains(M, k', {"start"})
        /\ k'.start = IF M.start # "none" THEN M.start ELSE "ok"
    BY <1>1, <2>1, <2>2, PublishStartLaw DEF Retains, BlockingFields
  <2>4. /\ DOMAIN k' = BlockingFields /\ k'.starter = "done" /\ k'.owner = "frames"
        /\ k'.state = "ready" /\ k'.err = k.err /\ M.start = k.start
        /\ k'.done = k.done /\ k'.pend = k.pend /\ k'.bytes = k.bytes
        /\ k'.closer = k.closer /\ k'.writer = "idle" /\ k'.job = k.job
        /\ k'.kind = k.kind /\ k'.sig = k.sig /\ k'.subs = k.subs
        /\ k'.active = k.active /\ k'.jobs = k.jobs /\ k'.results = k.results
        /\ k'.werr = k.werr
    BY <1>1, <2>2, <2>3 DEF Retains, Silently, Living, BlockingFields
  <2>5. k'.start = "ok" /\ k.state = "boot"
    BY <1>1, <1>3, <2>3, <2>4 DEF Claimed
  <2>6. k.job = None /\ ~k.done /\ k.closer # "finish"
    BY <1>1, <1>3, <2>5 DEF BlockingLife
  <2>7. BlockingLife(k')
    BY <1>1, <2>4, <2>5, <2>6 DEF BlockingLife, Claimed
  <2>8. BlockingInv(k', env.acc, env.wire)
    <3>1. BlockingInv(k, env.acc, env.wire)
      BY DEF BlockingState
    <3>2. BlockingShape(k')
      BY <2>4, BlockingParts DEF BlockingShape
    <3>3. BlockingQueue(k', env.acc, env.wire)
      BY <2>4, <2>6, <3>1 DEF BlockingInv, BlockingQueue, OnWire
    <3> QED BY <2>4, <2>7, <3>1, <3>2, <3>3 DEF BlockingInv
  <2>9. Readies(k, k')
    BY <1>1, <2>4, <2>5 DEF Readies
  <2> QED BY <1>1, <2>8, <2>9 DEF BlockingGoal, Allowed
<1> QED BY <1>2, <1>3

(* The finisher: the starter, the closer or the owner, whichever it is.    *)
LEMMA FinishStep ==
  ASSUME BlockingState, NEW M, Retains(k, M, {"starter", "closer", "owner", "start"}),
         ~k.done, Claimed(k), Fails(k, M), M.start # "none",
         M.starter \notin {"boot", "finish"}, M.closer # "finish",
         M.owner \in {"none", "gone"}, M.owner = "none" => k.owner = "none",
         M.owner # "none" => M.start = "ok" /\ M.starter = "done",
         M.writer \in {"none", "gone"}, k' = FinishTerminal(M), env' = env
  PROVE  BlockingGoal
<1> DEFINE E == [M EXCEPT !.active = None, !.jobs = <<>>, !.results = <<>>,
                          !.reads = <<>>]
<1>1. /\ BlockingLife(k) /\ BlockingShape(k) /\ DOMAIN k = BlockingFields
      /\ BlockingInv(k, env.acc, env.wire)
  BY BlockingParts
<1>2. k' = PublishClosed(E)
  BY DEF FinishTerminal
<1>3. /\ Retains(M, E, {"active", "jobs", "results", "reads"})
      /\ E.active = None /\ E.jobs = <<>> /\ E.results = <<>>
  BY <1>1 DEF Retains, BlockingFields
<1> HIDE DEF E
<1>4. /\ Retains(E, k', {"subs", "pend", "bytes", "charges", "evOpen", "state", "done"})
      /\ k'.subs = <<>> /\ k'.pend = 0 /\ k'.bytes = 0 /\ k'.state = "closed"
      /\ k'.done = TRUE
  <2>1. {"subs", "pend", "bytes", "charges", "evOpen", "state", "done"} \subseteq DOMAIN E
    BY <1>1, <1>3 DEF Retains, BlockingFields
  <2>2. Retains(E, k', {"subs", "pend", "bytes", "charges", "evOpen", "state", "done"})
    BY <1>2 DEF Retains, PublishClosed
  <2>3. k'.subs = <<>> /\ k'.pend = 0 /\ k'.bytes = 0
    BY <1>2, <2>1 DEF PublishClosed
  <2>4. k'.state = "closed" /\ k'.done = TRUE
    BY <1>2, <2>1 DEF PublishClosed
  <2> QED BY <2>2, <2>3, <2>4
<1>5. /\ DOMAIN k' = BlockingFields /\ k'.kind = k.kind /\ k'.err = k.err
      /\ k'.start = M.start /\ k'.starter = M.starter /\ k'.closer = M.closer
      /\ k'.owner = M.owner /\ k'.writer = M.writer /\ M.writer = k.writer
      /\ k'.sig = k.sig /\ k'.active = None /\ k'.jobs = <<>> /\ k'.results = <<>>
      /\ k'.job = k.job /\ k'.werr = k.werr
  BY <1>1, <1>3, <1>4 DEF Retains, BlockingFields
<1>6. None \in Subs /\ <<>> \in Seq(Subs) /\ <<>> \in Seq(Results)
  BY EmptySeq DEF None, Subs
<1>7. BlockingShape(k')
  BY <1>1, <1>4, <1>5, <1>6 DEF BlockingShape
<1>8. k.job = None
  BY <1>1, <1>5 DEF BlockingLife
<1>9. BlockingLife(k')
  BY <1>1, <1>4, <1>5, <1>8 DEF BlockingLife, Claimed
<1>10. Charged(k'.pend, k'.bytes, env.acc) /\ InOrder(env.acc, env.wire)
  <2>1. InOrder(env.acc, env.wire) /\ env.acc \in Seq(Nat)
    BY <1>1 DEF BlockingInv, InOrder
  <2> QED BY <1>4, <2>1, ChargeNothing
<1>11. BlockingInv(k', env.acc, env.wire)
  BY <1>4, <1>7, <1>9, <1>10 DEF BlockingInv
<1>12. k.state # "closed"
  BY <1>1 DEF BlockingLife
<1>13. Closes(k, k')
  BY <1>4, <1>5, <1>12 DEF Closes, Fails
<1> QED BY <1>11, <1>13 DEF BlockingGoal, Allowed, Ended

LEMMA StartFinishesStep ==
  ASSUME BlockingState, StartFinishes PROVE BlockingGoal
<1> DEFINE M == [k EXCEPT !.starter = "done"]
<1>1. /\ k.starter = "finish" /\ k' = FinishTerminal(M) /\ env' = env
      /\ BlockingLife(k) /\ DOMAIN k = BlockingFields /\ k.done \in BOOLEAN
  BY BlockingParts DEF StartFinishes, BlockingShape
<1>2. /\ Retains(k, M, {"starter", "closer", "owner", "start"}) /\ M.starter = "done"
      /\ M.start = k.start /\ M.closer = k.closer /\ M.owner = k.owner
      /\ M.writer = k.writer
  BY <1>1 DEF Retains, BlockingFields
<1> HIDE DEF M
<1>3. /\ k.state = "closing" /\ k.start # "none" /\ k.owner = "none" /\ ~k.done
      /\ k.closer # "finish" /\ k.writer = "none"
  BY <1>1 DEF BlockingLife
<1>4. Fails(k, M) /\ Claimed(k)
  BY <1>2, <1>3 DEF Fails, Claimed
<1> QED BY <1>1, <1>2, <1>3, <1>4, FinishStep

LEMMA CloseFinishesStep ==
  ASSUME BlockingState, CloseFinishes PROVE BlockingGoal
<1> DEFINE C == [k EXCEPT !.closer = "wait"]
           M == PublishStart(C, "closed")
<1>1. /\ k.closer = "finish" /\ k' = FinishTerminal(M) /\ env' = env
      /\ BlockingLife(k) /\ DOMAIN k = BlockingFields /\ k.done \in BOOLEAN
  BY BlockingParts DEF CloseFinishes, BlockingShape
<1>2. Retains(k, C, {"closer"}) /\ C.closer = "wait" /\ C.start = k.start
  BY <1>1 DEF Retains, BlockingFields
<1> HIDE DEF C
<1>3. /\ Retains(C, M, {"start"})
      /\ M.start = IF C.start # "none" THEN C.start ELSE "closed"
  BY <1>1, <1>2, PublishStartLaw DEF Retains, BlockingFields
<1> HIDE DEF M
<1>4. /\ Retains(k, M, {"starter", "closer", "owner", "start"}) /\ M.closer = "wait"
      /\ M.owner = k.owner /\ M.writer = k.writer /\ M.starter = k.starter
  BY <1>1, <1>2, <1>3 DEF Retains, BlockingFields
<1>5. /\ k.state = "closing" /\ k.starter \in {"idle", "wait"} /\ k.owner = "none"
      /\ ~k.done /\ k.writer = "none"
  BY <1>1 DEF BlockingLife
<1>6. Fails(k, M) /\ Claimed(k) /\ M.start # "none"
  BY <1>2, <1>3, <1>5 DEF Fails, Claimed
<1> QED BY <1>1, <1>4, <1>5, <1>6, FinishStep

LEMMA OwnerFinishesStep ==
  ASSUME BlockingState, OwnerFinishes PROVE BlockingGoal
<1> DEFINE M == [k EXCEPT !.owner = "gone"]
<1>1. /\ k.owner = "finish" /\ MayFinish(k) /\ k' = FinishTerminal(M) /\ env' = env
      /\ BlockingLife(k) /\ DOMAIN k = BlockingFields /\ k.done \in BOOLEAN
  BY BlockingParts DEF OwnerFinishes, BlockingShape
<1>2. /\ Retains(k, M, {"starter", "closer", "owner", "start"}) /\ M.owner = "gone"
      /\ M.start = k.start /\ M.closer = k.closer /\ M.starter = k.starter
      /\ M.writer = k.writer
  BY <1>1 DEF Retains, BlockingFields
<1> HIDE DEF M
<1>3. /\ Claimed(k) /\ k.start = "ok" /\ k.starter = "done" /\ k.closer # "finish"
      /\ ~k.done /\ k.writer \in {"none", "gone"}
  BY <1>1 DEF BlockingLife, MayFinish
<1>4. Fails(k, M)
  BY <1>2 DEF Fails
<1> QED BY <1>1, <1>2, <1>3, <1>4, FinishStep

LEMMA BCloseStep ==
  ASSUME BlockingState, BClose PROVE BlockingGoal
<1> DEFINE B == BeginTerminal(k, "nil")
           c == IF k.state = "created" THEN "finish" ELSE "wait"
<1>1. /\ k' = [B EXCEPT !.closer = c] /\ env' = env /\ k.closer = "idle"
      /\ BlockingLife(k) /\ DOMAIN k = BlockingFields
      /\ k.state \in {"created", "boot", "ready", "closing", "closed"}
  BY BlockingParts DEF BClose, BlockingShape
<1>2. /\ Retains(k, B, {"state", "err"}) /\ (Claimed(k) => B = k) /\ Claimed(B)
      /\ ~Claimed(k) => B.state = "closing" /\ B.err = "nil"
  BY <1>1, BeginTerminalLaw DEF BlockingFields
<1> HIDE DEF B
<1>3. Retains(B, k', {"closer"}) /\ k'.closer = c
  BY <1>1, <1>2 DEF Retains, BlockingFields
<1>4. /\ Retains(k, k', Silently \cup Living) /\ k'.starter = k.starter
      /\ k'.state = B.state /\ k'.err = B.err /\ k'.start = k.start
      /\ k'.done = k.done /\ k'.pend = k.pend /\ k'.bytes = k.bytes
      /\ k'.owner = k.owner /\ k'.writer = k.writer /\ k'.job = k.job
  BY <1>1, <1>2, <1>3 DEF Retains, Silently, Living, BlockingFields
<1>5. k'.state \in {"closing", "closed"} /\ (Claimed(k) => k'.state = k.state)
  BY <1>2, <1>4 DEF Claimed
<1>6. ~Claimed(k) => k'.state = "closing" /\ k.state \notin {"closing", "closed"}
  BY <1>2, <1>4 DEF Claimed
<1>7. c = "finish" => /\ k.state = "created" /\ k'.state = "closing"
                      /\ k.starter = "idle" /\ k.owner = "none"
                      /\ k.start = "none"
  BY <1>1, <1>6 DEF BlockingLife, Claimed
<1> HIDE DEF c
<1>8. BlockingLife(k')
  <2>1. CASE Claimed(k)
    BY <1>1, <1>3, <1>4, <1>5, <1>7, <2>1 DEF BlockingLife, Claimed
  <2>2. CASE ~Claimed(k)
    BY <1>1, <1>3, <1>4, <1>6, <1>7, <2>2 DEF BlockingLife, Claimed
  <2> QED BY <2>1, <2>2
<1>9. (k'.pend = k.pend /\ k'.bytes = k.bytes /\ k'.sig = k.sig) => Ended(k, k')
  <2>1. CASE Claimed(k)
    BY <1>2, <1>4, <2>1 DEF Ended, Unmoved
  <2>2. CASE ~Claimed(k)
    BY <1>2, <1>4, <2>2 DEF Ended, Claims, Fails
  <2> QED BY <2>1, <2>2
<1> QED BY <1>1, <1>4, <1>5, <1>8, <1>9, LivingGoal

(* Start and Close return.                                                 *)
LEMMA BReturnsStep ==
  ASSUME BlockingState, StartReturns \/ CloseReturns PROVE BlockingGoal
<1>1. /\ BlockingLife(k) /\ DOMAIN k = BlockingFields /\ env' = env
      /\ k.state \in {"created", "boot", "ready", "closing", "closed"}
  BY BlockingParts DEF StartReturns, CloseReturns, BlockingShape
<1>2. CASE StartReturns
  <2>1. Retains(k, k', {"starter"}) /\ k'.starter = "done" /\ k.starter = "wait"
    BY <1>1, <1>2 DEF StartReturns, Retains, BlockingFields
  <2>2. /\ Retains(k, k', Silently \cup Living) /\ k'.state = k.state
        /\ k'.err = k.err /\ k'.start = k.start /\ k'.done = k.done
        /\ k'.pend = k.pend /\ k'.bytes = k.bytes /\ k'.owner = k.owner
        /\ k'.closer = k.closer /\ k'.writer = k.writer /\ k'.job = k.job
    BY <1>1, <2>1 DEF Retains, Silently, Living, BlockingFields
  <2>3. BlockingLife(k')
    BY <1>1, <1>2, <2>1, <2>2 DEF BlockingLife, Claimed, StartReturns
  <2>4. (k'.pend = k.pend /\ k'.bytes = k.bytes /\ k'.sig = k.sig) => Ended(k, k')
    BY <2>2 DEF Ended, Unmoved
  <2> QED BY <1>1, <2>2, <2>3, <2>4, LivingGoal
<1>3. CASE CloseReturns
  <2>1. Retains(k, k', {"closer"}) /\ k'.closer = "done" /\ k.closer = "wait"
    BY <1>1, <1>3 DEF CloseReturns, Retains, BlockingFields
  <2>2. /\ Retains(k, k', Silently \cup Living) /\ k'.state = k.state
        /\ k'.err = k.err /\ k'.start = k.start /\ k'.done = k.done
        /\ k'.pend = k.pend /\ k'.bytes = k.bytes /\ k'.owner = k.owner
        /\ k'.starter = k.starter /\ k'.writer = k.writer /\ k'.job = k.job
    BY <1>1, <2>1 DEF Retains, Silently, Living, BlockingFields
  <2>3. BlockingLife(k')
    BY <1>1, <2>1, <2>2 DEF BlockingLife, Claimed
  <2>4. (k'.pend = k.pend /\ k'.bytes = k.bytes /\ k'.sig = k.sig) => Ended(k, k')
    BY <2>2 DEF Ended, Unmoved
  <2> QED BY <1>1, <2>2, <2>3, <2>4, LivingGoal
<1> QED BY <1>2, <1>3

-----------------------------------------------------------------------------
(* What happens to the submission in flight.                               *)
LEMMA FlightPong ==
  ASSUME NEW x, NEW jobs \in Seq(Subs), NEW job, NEW res, Flight(x, jobs, job, res)
  PROVE  /\ Flight(x, Append(jobs, None), job, res)
         /\ InJobs(Append(jobs, None)) <=> InJobs(jobs)
<1> DEFINE q == Append(jobs, None)
<1>1. Len(jobs) \in Nat
  OBVIOUS
<1>2. /\ Len(q) = Len(jobs) + 1 /\ q[Len(jobs) + 1] = None
      /\ \A i \in 1..Len(jobs) : q[i] = jobs[i]
  OBVIOUS
<1> HIDE DEF q
<1>3. \A i \in 1..Len(q) : i \in 1..Len(jobs) \/ i = Len(jobs) + 1
  BY <1>1, <1>2
<1>4. \A i \in 1..Len(jobs) : i \in 1..Len(q)
  BY <1>1, <1>2
<1>5. InJobs(q) <=> InJobs(jobs)
  BY <1>2, <1>3, <1>4 DEF InJobs
<1>6. \A i \in 1..Len(q) : q[i] \in {None, x}
  BY <1>2, <1>3 DEF Flight
<1>7. \A i, j \in 1..Len(q) : q[i] # None /\ q[j] # None => i = j
  BY <1>2, <1>3 DEF Flight
<1>8. Flight(x, q, job, res)
  BY <1>5, <1>6, <1>7 DEF Flight
<1> QED BY <1>5, <1>8 DEF q

LEMMA FlightTakes ==
  ASSUME NEW x, NEW jobs \in Seq(Subs), NEW res, Flight(x, jobs, None, res), jobs # <<>>
  PROVE  /\ Flight(x, Tail(jobs), Head(jobs), res)
         /\ InJobs(Tail(jobs)) => InJobs(jobs)
         /\ Head(jobs) # None => InJobs(jobs)
<1> DEFINE q == Tail(jobs)
           h == Head(jobs)
<1>1. Len(jobs) \in Nat \ {0}
  BY EmptySeq
<1>2. Len(q) = Len(jobs) - 1 /\ h = jobs[1] /\ \A i \in 1..Len(q) : q[i] = jobs[i + 1]
  BY <1>1
<1> HIDE DEF q, h
<1>3. /\ \A i \in 1..Len(q) : i + 1 \in 1..Len(jobs) /\ i + 1 # 1
      /\ \A i, j \in 1..Len(q) : i + 1 = j + 1 => i = j
      /\ 1 \in 1..Len(jobs)
  BY <1>1, <1>2
<1>4. (InJobs(q) => InJobs(jobs)) /\ (h # None => InJobs(jobs))
  BY <1>2, <1>3 DEF InJobs
<1>5. \A i \in 1..Len(q) : q[i] \in {None, x}
  BY <1>2, <1>3 DEF Flight
<1>6. h \in {None, x}
  BY <1>2, <1>3 DEF Flight
<1>7. \A i, j \in 1..Len(q) : q[i] # None /\ q[j] # None => i = j
  <2>1. ASSUME NEW i \in 1..Len(q), NEW j \in 1..Len(q), q[i] # None, q[j] # None
        PROVE  i = j
    <3>1. i + 1 = j + 1
      BY <1>2, <1>3, <2>1 DEF Flight
    <3> QED BY <1>3, <3>1
  <2> QED BY <2>1
<1>8. ~(InJobs(q) /\ h # None)
  <2>1. ASSUME NEW i \in 1..Len(q), q[i] # None, h # None PROVE FALSE
    <3>1. i + 1 = 1
      BY <1>2, <1>3, <2>1 DEF Flight
    <3> QED BY <1>3, <3>1
  <2> QED BY <2>1 DEF InJobs
<1>9. Flight(x, q, h, res)
  BY <1>4, <1>5, <1>6, <1>7, <1>8 DEF Flight
<1> QED BY <1>4, <1>9 DEF q, h

Sends(x, jobs, job, res, s, r) ==
  /\ Flight(x, jobs, job, res) /\ res \in Seq(Results)
  /\ s \in Results /\ s.job = job /\ r = Append(res, s)

LEMMA FlightSends ==
  ASSUME NEW x, NEW jobs, NEW job, NEW res, NEW s, NEW r,
         Sends(x, jobs, job, res, s, r)
  PROVE  /\ Flight(x, jobs, None, r) /\ r \in Seq(Results)
         /\ \A i \in 1..Len(r) : r[i].job # None =>
              \/ job # None /\ r[i] = s
              \/ i \in 1..Len(res) /\ r[i] = res[i]
<1> USE DEF Sends
<1>1. Len(res) \in Nat /\ s \in Results /\ s.job = job
  OBVIOUS
<1>2. /\ r \in Seq(Results) /\ Len(r) = Len(res) + 1 /\ r[Len(res) + 1] = s
      /\ \A i \in 1..Len(res) : r[i] = res[i]
  BY <1>1
<1>3. \A i \in 1..Len(r) : i \in 1..Len(res) \/ i = Len(res) + 1
  BY <1>1, <1>2
<1>4. InResults(r) => InResults(res) \/ job # None
  BY <1>1, <1>2, <1>3 DEF InResults
<1>5. \A i \in 1..Len(r) : r[i].job \in {None, x}
  BY <1>1, <1>2, <1>3 DEF Flight
<1>6. \A i, j \in 1..Len(r) : r[i].job # None /\ r[j].job # None => i = j
  <2>1. job # None => \A i \in 1..Len(res) : res[i].job = None
    BY DEF Flight, InResults
  <2>2. \A i, j \in 1..Len(res) : res[i].job # None /\ res[j].job # None => i = j
    BY DEF Flight
  <2> QED BY <1>1, <1>2, <1>3, <2>1, <2>2
<1>7. Flight(x, jobs, None, r)
  BY <1>4, <1>5, <1>6 DEF Flight
<1>8. \A i \in 1..Len(r) : r[i].job # None =>
        \/ job # None /\ r[i] = s
        \/ i \in 1..Len(res) /\ r[i] = res[i]
  BY <1>1, <1>2, <1>3
<1> QED BY <1>2, <1>7, <1>8

LEMMA FlightDrops ==
  ASSUME NEW x, NEW jobs, NEW job, NEW res, Flight(x, jobs, job, res)
  PROVE  Flight(x, jobs, None, res)
BY DEF Flight

(* The owner takes the first result; a submission in it was the only one.  *)
LEMMA FlightResult ==
  ASSUME NEW x, NEW jobs, NEW job, NEW res \in Seq(Results),
         Flight(x, jobs, job, res), res # <<>>
  PROVE  LET t == Tail(res)
             h == Head(res)
         IN  /\ Flight(x, jobs, job, t) /\ t \in Seq(Results) /\ h \in Results
             /\ h = res[1] /\ 1 \in 1..Len(res) /\ h.job \in {None, x}
             /\ \A i \in 1..Len(t) : i + 1 \in 1..Len(res) /\ t[i] = res[i + 1]
             /\ h.job # None => Flight(None, jobs, job, t)
<1> DEFINE t == Tail(res)
           h == Head(res)
<1>1. Len(res) \in Nat \ {0}
  BY EmptySeq
<1>2. /\ t \in Seq(Results) /\ Len(t) = Len(res) - 1 /\ h = res[1]
      /\ \A i \in 1..Len(t) : t[i] = res[i + 1]
  BY <1>1
<1> HIDE DEF t, h
<1>3. /\ \A i \in 1..Len(t) : i + 1 \in 1..Len(res) /\ i + 1 # 1
      /\ \A i, j \in 1..Len(t) : i + 1 = j + 1 => i = j
      /\ 1 \in 1..Len(res)
  BY <1>1, <1>2
<1>4. h \in Results
  BY <1>2, <1>3
<1>5. InResults(t) => InResults(res)
  BY <1>2, <1>3 DEF InResults
<1>6. h.job # None => InResults(res)
  BY <1>2, <1>3 DEF InResults
<1>7. /\ \A i \in 1..Len(t) : t[i].job \in {None, x}
      /\ h.job \in {None, x}
  BY <1>2, <1>3 DEF Flight
<1>8. \A i, j \in 1..Len(t) : t[i].job # None /\ t[j].job # None => i = j
  <2>1. ASSUME NEW i \in 1..Len(t), NEW j \in 1..Len(t), t[i].job # None, t[j].job # None
        PROVE  i = j
    <3>1. i + 1 = j + 1
      <4>1. \A m, n \in 1..Len(res) : res[m].job # None /\ res[n].job # None => m = n
        BY DEF Flight
      <4>2. res[i + 1].job # None /\ res[j + 1].job # None
        BY <1>2, <2>1
      <4> QED BY <1>3, <4>1, <4>2
    <3> QED BY <1>3, <3>1
  <2> QED BY <2>1
<1>9. Flight(x, jobs, job, t)
  BY <1>5, <1>7, <1>8 DEF Flight
<1>10. ASSUME h.job # None PROVE Flight(None, jobs, job, t)
  <2>1. ASSUME NEW i \in 1..Len(t) PROVE t[i].job = None
    <3>1. t[i].job # None => i + 1 = 1
      BY <1>2, <1>3, <1>10, <2>1 DEF Flight
    <3> QED BY <1>3, <3>1
  <2>2. job = None /\ \A i \in 1..Len(jobs) : jobs[i] = None
    BY <1>6, <1>10 DEF Flight, InJobs
  <2> QED BY <2>1, <2>2 DEF Flight, InJobs, InResults
<1> QED BY <1>2, <1>3, <1>4, <1>7, <1>9, <1>10 DEF t, h

(* The owner hands the writer the next submission.                         *)
LEMMA FlightStarts ==
  ASSUME NEW x \in Subs, NEW jobs \in Seq(Subs), NEW job, NEW res,
         Flight(None, jobs, job, res)
  PROVE  Flight(x, Append(jobs, x), job, res) /\ ~InResults(res) /\ job = None
<1> DEFINE q == Append(jobs, x)
<1>1. Len(jobs) \in Nat
  OBVIOUS
<1>2. /\ Len(q) = Len(jobs) + 1 /\ q[Len(jobs) + 1] = x
      /\ \A i \in 1..Len(jobs) : q[i] = jobs[i]
  OBVIOUS
<1> HIDE DEF q
<1>3. \A i \in 1..Len(q) : i \in 1..Len(jobs) \/ i = Len(jobs) + 1
  BY <1>1, <1>2
<1>4. /\ \A i \in 1..Len(jobs) : jobs[i] = None
      /\ \A i \in 1..Len(res) : res[i].job = None
      /\ job = None
  BY DEF Flight
<1>5. Flight(x, q, job, res)
  BY <1>2, <1>3, <1>4 DEF Flight, InResults
<1> QED BY <1>4, <1>5 DEF InResults, q

-----------------------------------------------------------------------------
(* Steps that only move the submission in flight.                          *)
Moving == {"jobs", "job", "results", "writer", "werr"}

LEMMA FlightInv ==
  ASSUME NEW K, NEW L, NEW a, NEW w, NEW v, BlockingInv(K, a, w), ~K.done,
         K.owner # "none", Retains(K, L, Silently \cup Moving), InOrder(a, v),
         L.jobs \in Seq(Subs), L.job \in Subs, L.results \in Seq(Results),
         L.werr \in BOOLEAN, L.job # None => L.writer \in {"write", "send"},
         Flight(K.active, L.jobs, L.job, L.results), OnWire(L, Len(a) - K.pend, v)
  PROVE  BlockingInv(L, a, v) /\ Unmoved(K, L)
<1>1. /\ DOMAIN K = BlockingFields /\ BlockingShape(K) /\ BlockingLife(K)
      /\ Charged(K.pend, K.bytes, a) /\ BlockingQueue(K, a, w)
  BY DEF BlockingInv, BlockingShape
<1>2. /\ DOMAIN L = BlockingFields /\ L.kind = K.kind /\ L.done = K.done
      /\ L.subs = K.subs /\ L.pend = K.pend /\ L.bytes = K.bytes /\ L.sig = K.sig
      /\ L.active = K.active /\ L.state = K.state /\ L.err = K.err
      /\ L.start = K.start /\ L.owner = K.owner /\ L.starter = K.starter
      /\ L.closer = K.closer
  BY <1>1 DEF Retains, Silently, Moving, BlockingFields
<1>3. BlockingShape(L)
  BY <1>1, <1>2 DEF BlockingShape
<1>4. BlockingLife(L)
  BY <1>1, <1>2 DEF BlockingLife, Claimed
<1>5. BlockingQueue(L, a, v)
  BY <1>1, <1>2 DEF BlockingQueue
<1> QED BY <1>1, <1>2, <1>3, <1>4, <1>5 DEF BlockingInv, Unmoved

LEMMA WriterLives ==
  ASSUME BlockingState, k.writer \in {"idle", "write", "send"}
  PROVE  /\ ~k.done /\ k.owner # "none" /\ DOMAIN k = BlockingFields
         /\ BlockingInv(k, env.acc, env.wire)
         /\ BlockingShape(k) /\ BlockingQueue(k, env.acc, env.wire)
         /\ Flight(k.active, k.jobs, k.job, k.results)
         /\ OnWire(k, Len(env.acc) - k.pend, env.wire)
         /\ InOrder(env.acc, env.wire)
<1>1. ~k.done /\ k.owner # "none"
  BY BlockingParts DEF BlockingLife
<1> QED BY <1>1, BlockingParts DEF BlockingInv, BlockingQueue

LEMMA WriterTakesStep ==
  ASSUME BlockingState, WriterTakes PROVE BlockingGoal
<1> DEFINE rel == Len(env.acc) - k.pend
<1>1. /\ k.writer = "idle" /\ k.jobs # <<>> /\ env' = env
      /\ k' = [k EXCEPT !.writer = "write", !.job = Head(k.jobs), !.jobs = Tail(@)]
  BY DEF WriterTakes
<1>2. /\ ~k.done /\ k.owner # "none" /\ DOMAIN k = BlockingFields
      /\ BlockingInv(k, env.acc, env.wire) /\ BlockingShape(k)
      /\ Flight(k.active, k.jobs, k.job, k.results)
      /\ OnWire(k, rel, env.wire) /\ InOrder(env.acc, env.wire)
  BY <1>1, WriterLives
<1>3. /\ Retains(k, k', Silently \cup Moving) /\ k'.writer = "write"
      /\ k'.job = Head(k.jobs) /\ k'.jobs = Tail(k.jobs)
      /\ k'.results = k.results /\ k'.werr = k.werr /\ k'.active = k.active
  BY <1>1, <1>2 DEF Retains, BlockingFields, Silently, Moving
<1>4. k.job = None
  BY <1>1, BlockingParts DEF BlockingLife
<1>5. /\ k.jobs \in Seq(Subs) /\ k.results \in Seq(Results) /\ k.werr \in BOOLEAN
      /\ Head(k.jobs) \in Subs /\ Tail(k.jobs) \in Seq(Subs)
  <2>1. k.jobs \in Seq(Subs) /\ k.results \in Seq(Results) /\ k.werr \in BOOLEAN
    BY <1>2 DEF BlockingShape
  <2> QED BY <1>1, <2>1
<1>6. /\ Flight(k.active, Tail(k.jobs), Head(k.jobs), k.results)
      /\ InJobs(Tail(k.jobs)) => InJobs(k.jobs)
      /\ Head(k.jobs) # None => InJobs(k.jobs)
  BY <1>1, <1>2, <1>4, <1>5, FlightTakes
<1> HIDE DEF rel
<1>7. OnWire(k', rel, env.wire)
  <2>1. k'.job # None => Len(env.wire) = rel + 0
    <3>1. InJobs(k.jobs) => Len(env.wire) = rel
      BY <1>2 DEF OnWire
    <3>2. rel + 0 = rel
      BY <1>2 DEF rel, BlockingInv, Charged
    <3> QED BY <1>3, <1>6, <3>1, <3>2
  <2> QED BY <1>2, <1>3, <1>6, <2>1 DEF OnWire
<1>8. BlockingInv(k', env.acc, env.wire) /\ Unmoved(k, k')
  BY <1>2, <1>3, <1>5, <1>6, <1>7, FlightInv DEF rel
<1> QED BY <1>1, <1>8 DEF BlockingGoal, Allowed, Ended

LEMMA WriterWritesStep ==
  ASSUME BlockingState, Envelope, NEW ok \in BOOLEAN, WriterWrites(ok)
  PROVE  BlockingGoal
<1> DEFINE a == env.acc
           w == env.wire
           v == env'.wire
           rel == Len(a) - k.pend
<1>1. /\ k.writer = "write" /\ k' = [k EXCEPT !.writer = "send", !.werr = ~ok]
      /\ env' = IF ok /\ k.job # None
                THEN [env EXCEPT !.wire = Append(@, k.job.id)] ELSE env
  BY DEF WriterWrites
<1>2. /\ ~k.done /\ k.owner # "none" /\ DOMAIN k = BlockingFields
      /\ BlockingInv(k, a, w) /\ BlockingShape(k)
      /\ Flight(k.active, k.jobs, k.job, k.results)
      /\ OnWire(k, rel, w) /\ InOrder(a, w) /\ BlockingQueue(k, a, w)
  BY <1>1, WriterLives
<1>3. /\ Retains(k, k', Silently \cup Moving) /\ k'.writer = "send"
      /\ k'.werr = ~ok /\ k'.job = k.job /\ k'.jobs = k.jobs
      /\ k'.results = k.results /\ k'.active = k.active
  BY <1>1, <1>2 DEF Retains, BlockingFields, Silently, Moving
<1>4. /\ k.jobs \in Seq(Subs) /\ k.results \in Seq(Results) /\ k.job \in Subs
      /\ k'.werr \in BOOLEAN
  BY <1>2, <1>3 DEF BlockingShape
<1>5. env'.acc = a /\ v = IF ok /\ k.job # None THEN Append(w, k.job.id) ELSE w
  BY <1>1 DEF Envelope
<1>6. rel \in Nat /\ Len(w) \in Nat /\ k.pend \in Nat /\ Len(a) \in Nat /\ rel <= Len(a)
  BY <1>2 DEF BlockingInv, Charged, InOrder
<1>7. k.job # None => /\ k.job = k.active /\ k.active # None /\ Len(w) = rel
                      /\ ~InJobs(k.jobs) /\ ~InResults(k.results)
  <2>1. k.job # None => Len(w) = rel + 0
    BY <1>1, <1>2 DEF OnWire
  <2> QED BY <1>2, <1>6, <2>1 DEF Flight
<1>8. k.job # None => k.job.id = Len(w) + 1 /\ Len(w) + 1 <= Len(a)
  <2>1. k.job # None => k.pend # 0
    <3>1. k.pend = Len(k.subs) + (IF k.active = None THEN 0 ELSE 1) /\ Len(k.subs) \in Nat
      BY <1>2 DEF BlockingQueue, BlockingShape
    <3>2. k.active # None => k.pend = Len(k.subs) + 1
      BY <3>1
    <3>3. \A n \in Nat : n + 1 # 0
      OBVIOUS
    <3> QED BY <1>7, <3>1, <3>2, <3>3
  <2>2. k.job # None => k.job.id = rel + 1
    BY <1>2, <1>7 DEF BlockingQueue
  <2>3. k.pend # 0 => rel + 1 <= Len(a)
    BY <1>6
  <2> QED BY <1>7, <2>1, <2>2, <2>3
<1> HIDE DEF a, w, v, rel
<1>9. CASE ok /\ k.job # None
  <2>1. v = Append(w, Len(w) + 1)
    BY <1>5, <1>8, <1>9
  <2>2. InOrder(a, v)
    BY <1>2, <1>8, <1>9, <2>1, NextInOrder
  <2>3. Len(v) = rel + 1
    <3>1. w \in Seq(Nat)
      BY <1>2 DEF InOrder
    <3> QED BY <1>6, <1>7, <1>9, <2>1, <3>1
  <2>4. OnWire(k', rel, v)
    <3>1. k'.active # None /\ ~InJobs(k'.jobs) /\ ~InResults(k'.results)
      BY <1>3, <1>7, <1>9
    <3>2. Len(v) \in rel..rel + 1
      BY <1>6, <2>3
    <3> QED BY <1>3, <1>9, <2>3, <3>1, <3>2 DEF OnWire, InResults
  <2>5. BlockingInv(k', a, v) /\ Unmoved(k, k')
    BY <1>2, <1>3, <1>4, <2>2, <2>4, FlightInv DEF rel
  <2>6. BlockingInv(k, a, w) /\ k.sig \in BOOLEAN /\ k'.pend = k.pend
    BY <1>2, <2>5 DEF BlockingShape, Unmoved
  <2>7. Progresses(k, k')
    BY <1>6, <2>5, <2>6, UnmovedProgress
  <2>8. Len(w) <= Len(v) /\ Len(a) - k'.pend <= Len(v)
    BY <1>6, <1>7, <1>9, <2>3, <2>6 DEF rel
  <2> QED BY <1>5, <2>5, <2>7, <2>8 DEF BlockingGoal, Allowed, a, w, v
<1>10. CASE ~(ok /\ k.job # None)
  <2>1. v = w
    BY <1>5, <1>10
  <2>2. OnWire(k', rel, w)
    <3>1. k'.job # None => Len(w) = rel + 0 /\ k'.werr
      <4>1. rel + 0 = rel
        BY <1>6
      <4>2. k'.job # None => k'.werr
        BY <1>3, <1>10
      <4> QED BY <1>3, <1>7, <4>1, <4>2
    <3> QED BY <1>2, <1>3, <3>1 DEF OnWire
  <2>3. BlockingInv(k', a, w) /\ Unmoved(k, k')
    BY <1>2, <1>3, <1>4, <2>2, FlightInv DEF rel
  <2> QED BY <1>5, <2>1, <2>3 DEF BlockingGoal, Allowed, Ended, a, w, v
<1> QED BY <1>9, <1>10

LEMMA WriterSendsStep ==
  ASSUME BlockingState, WriterSends PROVE BlockingGoal
<1> DEFINE rel == Len(env.acc) - k.pend
           s == [job |-> k.job, err |-> k.werr]
           r == Append(k.results, s)
<1>1. /\ k.writer = "send" /\ env' = env
      /\ k' = [k EXCEPT !.results = r, !.job = None,
                        !.writer = IF k.werr THEN "gone" ELSE "idle"]
  BY DEF WriterSends
<1>2. /\ ~k.done /\ k.owner # "none" /\ DOMAIN k = BlockingFields
      /\ BlockingInv(k, env.acc, env.wire) /\ BlockingShape(k)
      /\ Flight(k.active, k.jobs, k.job, k.results)
      /\ OnWire(k, rel, env.wire) /\ InOrder(env.acc, env.wire)
  BY <1>1, WriterLives
<1>3. /\ k.jobs \in Seq(Subs) /\ k.results \in Seq(Results) /\ k.job \in Subs
      /\ k.werr \in BOOLEAN /\ None \in Subs
  BY <1>2 DEF BlockingShape, None, Subs
<1>4. s \in Results /\ s.job = k.job /\ s.err = k.werr
  BY <1>3 DEF Results
<1> HIDE DEF s, r, rel
<1>5. /\ Flight(k.active, k.jobs, None, r) /\ r \in Seq(Results)
      /\ \A i \in 1..Len(r) : r[i].job # None =>
           \/ k.job # None /\ r[i] = s
           \/ i \in 1..Len(k.results) /\ r[i] = k.results[i]
  <2>1. Sends(k.active, k.jobs, k.job, k.results, s, r)
    BY <1>2, <1>3, <1>4 DEF Sends, r
  <2> QED BY <2>1, FlightSends
<1>6. /\ Retains(k, k', Silently \cup Moving) /\ k'.results = r /\ k'.job = None
      /\ k'.jobs = k.jobs /\ k'.werr = k.werr /\ k'.active = k.active
  BY <1>1, <1>2 DEF Retains, BlockingFields, Silently, Moving
<1>7. OnWire(k', rel, env.wire)
  <2>1. k.job # None => Len(env.wire) = rel + (IF k.werr THEN 0 ELSE 1)
    BY <1>1, <1>2, <1>3 DEF OnWire
  <2>2. ASSUME NEW i \in 1..Len(r), r[i].job # None
        PROVE  Len(env.wire) = rel + (IF r[i].err THEN 0 ELSE 1)
    <3>1. CASE k.job # None /\ r[i] = s
      BY <1>4, <2>1, <3>1
    <3>2. CASE i \in 1..Len(k.results) /\ r[i] = k.results[i]
      BY <1>2, <2>2, <3>2 DEF OnWire
    <3> QED BY <1>5, <2>2, <3>1, <3>2
  <2> QED BY <1>2, <1>6, <2>2 DEF OnWire
<1>8. BlockingInv(k', env.acc, env.wire) /\ Unmoved(k, k')
  BY <1>2, <1>3, <1>5, <1>6, <1>7, FlightInv DEF rel
<1> QED BY <1>1, <1>8 DEF BlockingGoal, Allowed, Ended

LEMMA WriterTerminalStep ==
  ASSUME BlockingState, WriterTerminal PROVE BlockingGoal
<1> DEFINE rel == Len(env.acc) - k.pend
<1>1. /\ k.writer \in {"idle", "send"} /\ env' = env
      /\ k' = [k EXCEPT !.writer = "gone", !.job = None]
  BY DEF WriterTerminal
<1>2. /\ ~k.done /\ k.owner # "none" /\ DOMAIN k = BlockingFields
      /\ BlockingInv(k, env.acc, env.wire) /\ BlockingShape(k)
      /\ Flight(k.active, k.jobs, k.job, k.results)
      /\ OnWire(k, rel, env.wire) /\ InOrder(env.acc, env.wire)
  BY <1>1, WriterLives
<1> HIDE DEF rel
<1>3. /\ Retains(k, k', Silently \cup Moving) /\ k'.results = k.results
      /\ k'.job = None /\ k'.jobs = k.jobs /\ k'.werr = k.werr /\ k'.active = k.active
  BY <1>1, <1>2 DEF Retains, BlockingFields, Silently, Moving
<1>4. /\ k.jobs \in Seq(Subs) /\ k.results \in Seq(Results) /\ k.werr \in BOOLEAN
      /\ None \in Subs
  BY <1>2 DEF BlockingShape, None, Subs
<1>5. Flight(k.active, k.jobs, None, k.results)
  BY <1>2, FlightDrops
<1>6. OnWire(k', rel, env.wire)
  BY <1>2, <1>3 DEF OnWire
<1>7. BlockingInv(k', env.acc, env.wire) /\ Unmoved(k, k')
  BY <1>2, <1>3, <1>4, <1>5, <1>6, FlightInv DEF rel
<1> QED BY <1>1, <1>7 DEF BlockingGoal, Allowed, Ended

-----------------------------------------------------------------------------
(* The owner ends the link, or goes on.                                    *)
LEMMA OwnerLife ==
  ASSUME NEW K, NEW L, BlockingLife(K), K.owner \in {"frames", "select"},
         DOMAIN K = BlockingFields, Retains(K, L, {"owner", "state", "err", "data", "rerr",
                                                 "reads"}),
         L.state = K.state \/ (~Claimed(K) /\ L.state = "closing"),
         L.owner \in {"frames", "select", "finish"}, L.owner = "finish" => Claimed(L)
  PROVE  BlockingLife(L)
<1>1. /\ L.done = K.done /\ L.pend = K.pend /\ L.bytes = K.bytes
      /\ L.start = K.start /\ L.starter = K.starter /\ L.closer = K.closer
      /\ L.writer = K.writer /\ L.job = K.job
  BY DEF Retains, BlockingFields
<1> QED BY <1>1 DEF BlockingLife, Claimed

LEMMA EndsInv ==
  ASSUME NEW K, NEW a, NEW w, BlockingInv(K, a, w), K.owner \in {"frames", "select"},
         NEW e, e # "none"
  PROVE  BlockingInv(Ends(K, e), a, w) /\ Ended(K, Ends(K, e))
<1> DEFINE B == BeginTerminal(K, e)
           L == [B EXCEPT !.owner = "finish", !.data = <<>>]
<1>1. DOMAIN K = BlockingFields /\ BlockingLife(K) /\ BlockingShape(K)
  BY DEF BlockingInv, BlockingShape
<1>2. /\ Retains(K, B, {"state", "err"}) /\ Claimed(B)
      /\ Claimed(K) => B = K
      /\ ~Claimed(K) => B.state = "closing" /\ B.err = e
  BY <1>1, BeginTerminalLaw DEF BlockingFields
<1> HIDE DEF B
<1>3. Retains(B, L, {"owner", "data"}) /\ L.owner = "finish"
  BY <1>1, <1>2 DEF Retains, BlockingFields
<1> HIDE DEF L
<1>4. /\ Retains(K, L, {"owner", "state", "err", "data", "rerr", "reads"})
      /\ Retains(K, L, Silently \cup Living)
      /\ L.state = B.state /\ L.err = B.err /\ L.start = K.start
  BY <1>1, <1>2, <1>3 DEF Retains, Silently, Living, BlockingFields
<1>5. Claimed(L) /\ (L.state = K.state \/ (~Claimed(K) /\ L.state = "closing"))
  BY <1>2, <1>4 DEF Claimed
<1>6. BlockingLife(L)
  BY <1>1, <1>3, <1>4, <1>5, OwnerLife
<1>7. L.state \in {"created", "boot", "ready", "closing", "closed"}
  BY <1>5 DEF Claimed
<1>8. /\ BlockingInv(L, a, w)
      /\ L.pend = K.pend /\ L.bytes = K.bytes /\ L.sig = K.sig
  BY <1>4, <1>6, <1>7, LivingInv
<1>9. Ended(K, L)
  <2>1. CASE Claimed(K)
    BY <1>2, <1>4, <1>8, <2>1 DEF Ended, Unmoved
  <2>2. CASE ~Claimed(K)
    BY <1>2, <1>4, <1>8, <2>2 DEF Ended, Claims, Fails
  <2> QED BY <2>1, <2>2
<1> QED BY <1>8, <1>9 DEF L, B, Ends

LEMMA OwnerGoesOn ==
  ASSUME BlockingState, k.owner \in {"frames", "select"}, env' = env,
         Retains(k, k', {"owner", "data", "rerr", "reads"}),
         k'.owner \in {"frames", "select", "finish"}, k'.owner = "finish" => Claimed(k)
  PROVE  BlockingGoal
<1>1. /\ DOMAIN k = BlockingFields /\ BlockingLife(k)
      /\ k.state \in {"created", "boot", "ready", "closing", "closed"}
  BY BlockingParts DEF BlockingShape
<1>2. /\ Retains(k, k', {"owner", "state", "err", "data", "rerr", "reads"})
      /\ Retains(k, k', Silently \cup Living)
      /\ k'.state = k.state /\ k'.err = k.err /\ k'.start = k.start
  BY <1>1 DEF Retains, Silently, Living, BlockingFields
<1>3. k'.owner = "finish" => Claimed(k')
  BY <1>2 DEF Claimed
<1>4. BlockingLife(k')
  BY <1>1, <1>2, <1>3, OwnerLife
<1>5. (k'.pend = k.pend /\ k'.bytes = k.bytes /\ k'.sig = k.sig) => Ended(k, k')
  BY <1>2 DEF Ended, Unmoved
<1> QED BY <1>1, <1>2, <1>4, <1>5, LivingGoal

LEMMA OwnerSelectsStep ==
  ASSUME BlockingState, OwnerTerminal \/ OwnerReadResult PROVE BlockingGoal
<1>1. DOMAIN k = BlockingFields
  BY BlockingParts
<1>2. CASE OwnerTerminal
  <2>1. /\ Retains(k, k', {"owner", "data", "rerr", "reads"}) /\ k'.owner = "finish"
        /\ k.owner = "select" /\ Claimed(k) /\ env' = env
    BY <1>1, <1>2 DEF OwnerTerminal, Retains, BlockingFields
  <2> QED BY <2>1, OwnerGoesOn
<1>3. CASE OwnerReadResult
  <2>1. /\ Retains(k, k', {"owner", "data", "rerr", "reads"}) /\ k'.owner = "frames"
        /\ k.owner = "select" /\ env' = env
    BY <1>1, <1>3 DEF OwnerReadResult, Retains, BlockingFields
  <2> QED BY <2>1, OwnerGoesOn
<1> QED BY <1>2, <1>3

(* A frame of the peer: a pong is queued, an event is published, or the    *)
(* link ends.                                                              *)
LEMMA PongJobInv ==
  ASSUME NEW K, NEW a, NEW w, BlockingInv(K, a, w), K.owner = "frames",
         NEW P, P = [K EXCEPT !.jobs = Append(@, None)]
  PROVE  BlockingInv(P, a, w) /\ Unmoved(K, P) /\ P.owner = K.owner
<1> DEFINE rel == Len(a) - K.pend
<1>1. /\ DOMAIN K = BlockingFields /\ BlockingShape(K) /\ BlockingLife(K)
      /\ InOrder(a, w) /\ ~K.done
  BY DEF BlockingInv, BlockingShape, BlockingLife
<1>2. Flight(K.active, K.jobs, K.job, K.results) /\ OnWire(K, rel, w)
  BY <1>1 DEF BlockingInv, BlockingQueue
<1>3. /\ Retains(K, P, Silently \cup Moving) /\ P.jobs = Append(K.jobs, None)
      /\ P.job = K.job /\ P.results = K.results /\ P.werr = K.werr
      /\ P.writer = K.writer /\ P.active = K.active /\ P.owner = K.owner
  BY <1>1 DEF Retains, BlockingFields, Silently, Moving
<1> HIDE DEF rel
<1>4. /\ K.jobs \in Seq(Subs) /\ K.results \in Seq(Results) /\ K.werr \in BOOLEAN
      /\ K.job \in Subs /\ None \in Subs
  BY <1>1 DEF BlockingShape, None, Subs
<1>5. Append(K.jobs, None) \in Seq(Subs)
  BY <1>4
<1>6. /\ Flight(K.active, Append(K.jobs, None), K.job, K.results)
      /\ InJobs(Append(K.jobs, None)) <=> InJobs(K.jobs)
  BY <1>2, <1>4, FlightPong
<1>7. OnWire(P, rel, w)
  BY <1>2, <1>3, <1>6 DEF OnWire
<1>8. K.job # None => K.writer \in {"write", "send"}
  BY <1>1 DEF BlockingLife
<1>9. BlockingInv(P, a, w) /\ Unmoved(K, P)
  BY <1>1, <1>3, <1>4, <1>5, <1>6, <1>7, <1>8, FlightInv DEF rel
<1> QED BY <1>3, <1>9

LEMMA HandleFrameInv ==
  ASSUME NEW K, NEW a, NEW w, BlockingInv(K, a, w), K.owner = "frames", NEW f
  PROVE  BlockingInv(HandleFrame(K, f), a, w) /\ Ended(K, HandleFrame(K, f))
<1> DEFINE P == IF f = "ping" THEN [K EXCEPT !.jobs = Append(@, None)] ELSE K
           e == EnqueueEvent(P, f)
<1>1. HandleFrame(K, f) =
        IF f = "bad" THEN Ends(K, "protocol")
        ELSE IF f = "ping" /\ Len(K.jobs) = WriteQueueSize
        THEN Ends(K, "backpressure")
        ELSE IF e.err # "none" THEN Ends(P, e.err)
        ELSE e.k
  BY DEF HandleFrame
<1>2. BlockingInv(P, a, w) /\ Unmoved(K, P) /\ P.owner = "frames"
  <2>1. CASE f = "ping"
    <3>1. P = [K EXCEPT !.jobs = Append(@, None)]
      BY <2>1
    <3> HIDE DEF P
    <3> QED BY <3>1, PongJobInv
  <2>2. CASE f # "ping"
    BY <2>2 DEF Unmoved
  <2> QED BY <2>1, <2>2
<1> HIDE DEF P
<1>3. DOMAIN P = BlockingFields
  BY <1>2 DEF BlockingInv, BlockingShape
<1>4. /\ e.err \in {"none", "closed", "event backpressure"}
      /\ Retains(P, e.k, {"evq", "charges"})
  BY <1>3, EnqueueLaw DEF BlockingFields
<1> HIDE DEF e
<1>5. BlockingInv(e.k, a, w) /\ Unmoved(P, e.k)
  <2>1. Retains(P, e.k, Silently)
    BY <1>4 DEF Retains, Silently
  <2> QED BY <1>2, <2>1, SilentInv
<1>6. ASSUME NEW c, c # "none"
      PROVE  /\ BlockingInv(Ends(K, c), a, w) /\ Ended(K, Ends(K, c))
             /\ BlockingInv(Ends(P, c), a, w) /\ Ended(P, Ends(P, c))
  BY <1>2, <1>6, EndsInv
<1>7. Ended(K, e.k)
  BY <1>2, <1>5 DEF Ended, Unmoved
<1>8. CASE f = "bad"
  BY <1>1, <1>6, <1>8
<1>9. CASE f # "bad" /\ f = "ping" /\ Len(K.jobs) = WriteQueueSize
  BY <1>1, <1>6, <1>9
<1>10. CASE f # "bad" /\ ~(f = "ping" /\ Len(K.jobs) = WriteQueueSize)
            /\ e.err # "none"
  <2>1. BlockingInv(Ends(P, e.err), a, w) /\ Ended(P, Ends(P, e.err))
    BY <1>4, <1>6, <1>10
  <2>2. Ended(K, Ends(P, e.err))
    <3>1. Ended(K, P)
      BY <1>2 DEF Ended
    <3> QED BY <2>1, <3>1, EndedMore
  <2> QED BY <1>1, <1>10, <2>1, <2>2
<1>11. CASE f # "bad" /\ ~(f = "ping" /\ Len(K.jobs) = WriteQueueSize)
            /\ e.err = "none"
  BY <1>1, <1>5, <1>7, <1>11
<1> QED BY <1>8, <1>9, <1>10, <1>11

LEMMA HandleFramesStep ==
  ASSUME BlockingState, HandleFrames PROVE BlockingGoal
<1> DEFINE D == [k EXCEPT !.data = Tail(@)]
           H == HandleFrame(D, Head(k.data))
<1>1. /\ k.owner = "frames" /\ env' = env
      /\ k' = IF k.data # <<>> THEN H ELSE IF k.rerr THEN Ends(k, "read")
              ELSE [k EXCEPT !.owner = "select"]
  BY DEF HandleFrames
<1>2. DOMAIN k = BlockingFields /\ BlockingInv(k, env.acc, env.wire)
  BY BlockingParts
<1>3. ASSUME BlockingInv(k', env.acc, env.wire), Ended(k, k') PROVE BlockingGoal
  BY <1>1, <1>3 DEF BlockingGoal, Allowed
<1>4. CASE k.data # <<>>
  <2>1. Retains(k, D, Silently) /\ D.owner = "frames"
    BY <1>1, <1>2 DEF Retains, Silently, BlockingFields
  <2> HIDE DEF D
  <2>2. BlockingInv(D, env.acc, env.wire) /\ Unmoved(k, D)
    BY <1>2, <2>1, SilentInv
  <2>3. BlockingInv(H, env.acc, env.wire) /\ Ended(D, H)
    BY <2>1, <2>2, HandleFrameInv
  <2>4. Ended(k, H)
    <3>1. Ended(k, D)
      BY <2>2 DEF Ended
    <3> HIDE DEF H
    <3> QED BY <2>3, <3>1, EndedMore
  <2> QED BY <1>1, <1>3, <1>4, <2>3, <2>4
<1>5. CASE k.data = <<>> /\ k.rerr
  <2>1. BlockingInv(Ends(k, "read"), env.acc, env.wire) /\ Ended(k, Ends(k, "read"))
    BY <1>1, <1>2, EndsInv
  <2> QED BY <1>1, <1>3, <1>5, <2>1
<1>6. CASE k.data = <<>> /\ ~k.rerr
  <2>1. k' = [k EXCEPT !.owner = "select"]
    BY <1>1, <1>6
  <2>2. Retains(k, k', {"owner", "data", "rerr", "reads"}) /\ k'.owner = "select"
    BY <1>2, <2>1 DEF Retains, BlockingFields
  <2> QED BY <1>1, <2>2, OwnerGoesOn
<1> QED BY <1>4, <1>5, <1>6

(* The owner hands the writer the oldest submission of the queue.          *)
LEMMA NumberedTail ==
  ASSUME NEW q, NEW m, NEW a \in Seq(Nat), Numbered(q, m, a), q # <<>>
  PROVE  /\ Numbered(Tail(q), m + 1, a) /\ Head(q) \in Subs
         /\ Tail(q) \in Seq(Subs) /\ Len(Tail(q)) = Len(q) - 1 /\ Len(q) \in Nat \ {0}
         /\ Head(q).id = m + 1 /\ Head(q).size = a[m + 1] /\ Head(q) # None
<1> DEFINE t == Tail(q)
           h == Head(q)
<1>1. q \in Seq(Subs) /\ m \in Nat /\ m + Len(q) <= Len(a) /\ Len(a) \in Nat
  BY DEF Numbered
<1>2. Len(q) \in Nat \ {0}
  BY <1>1, EmptySeq
<1>3. /\ t \in Seq(Subs) /\ Len(t) = Len(q) - 1 /\ h = q[1] /\ h \in Subs
      /\ \A i \in 1..Len(t) : t[i] = q[i + 1]
  BY <1>1, <1>2
<1> HIDE DEF t, h
<1>4. h.id = m + 1 /\ h.size = a[m + 1]
  BY <1>2, <1>3 DEF Numbered
<1>5. h # None
  <2>1. None.id = 0
    BY DEF None
  <2>2. m + 1 # 0
    BY <1>1
  <2> QED BY <1>4, <2>1, <2>2
<1>6. ASSUME NEW i \in 1..Len(t) PROVE t[i].id = (m + 1) + i /\ t[i].size = a[(m + 1) + i]
  <2>1. i + 1 \in 1..Len(q) /\ m + (i + 1) = (m + 1) + i
    BY <1>1, <1>2, <1>3
  <2>2. q[i + 1].id = m + (i + 1) /\ q[i + 1].size = a[m + (i + 1)]
    BY <2>1 DEF Numbered
  <2> QED BY <1>3, <2>1, <2>2
<1>7. m + 1 \in Nat /\ (m + 1) + Len(t) <= Len(a)
  BY <1>1, <1>2, <1>3
<1>8. Numbered(t, m + 1, a)
  BY <1>3, <1>6, <1>7 DEF Numbered
<1> QED BY <1>2, <1>3, <1>4, <1>5, <1>8 DEF t, h

LEMMA OwnerSubmissionStep ==
  ASSUME BlockingState, OwnerSubmission PROVE BlockingGoal
<1> DEFINE a == env.acc
           w == env.wire
           rel == Len(a) - k.pend
           K == [k EXCEPT !.queued = FALSE]
           busy == k.active # None \/ Len(k.jobs) = WriteQueueSize
                   \/ Claimed(k) \/ k.subs = <<>>
           x == Head(k.subs)
           L == [K EXCEPT !.active = x, !.subs = Tail(@), !.jobs = Append(@, x)]
<1>1. k.owner = "select" /\ env' = env /\ k' = IF busy THEN K ELSE L
  BY DEF OwnerSubmission
<1>2. DOMAIN k = BlockingFields /\ BlockingInv(k, a, w) /\ BlockingLife(k) /\ BlockingShape(k)
  BY BlockingParts
<1>3. Retains(k, K, Silently)
  BY <1>2 DEF Retains, Silently, BlockingFields
<1>4. CASE busy
  <2>1. Retains(k, k', Silently)
    BY <1>1, <1>3, <1>4
  <2> QED BY <1>1, <2>1, SilentGoal
<1>5. CASE ~busy
  <2>1. k' = L /\ k.active = None /\ k.subs # <<>>
    BY <1>1, <1>5
  <2> HIDE DEF K, busy
  <2>2. /\ DOMAIN k' = BlockingFields /\ k'.active = x /\ k'.subs = Tail(k.subs)
        /\ k'.jobs = Append(k.jobs, x)
        /\ k'.kind = k.kind /\ k'.state = k.state /\ k'.err = k.err
        /\ k'.start = k.start /\ k'.done = k.done /\ k'.pend = k.pend
        /\ k'.bytes = k.bytes /\ k'.sig = k.sig /\ k'.starter = k.starter
        /\ k'.closer = k.closer /\ k'.owner = k.owner /\ k'.writer = k.writer
        /\ k'.results = k.results /\ k'.job = k.job /\ k'.werr = k.werr
    BY <1>2, <1>3, <2>1 DEF Retains, Silently, BlockingFields
  <2>3. ~k.done
    BY <1>1, <1>2 DEF BlockingLife
  <2>4. /\ k.pend = Len(k.subs) + 0 /\ Numbered(k.subs, Len(a) - Len(k.subs), a)
        /\ Flight(None, k.jobs, k.job, k.results) /\ OnWire(k, rel, w)
        /\ a \in Seq(Nat) /\ k.jobs \in Seq(Subs) /\ Charged(k.pend, k.bytes, a)
        /\ InOrder(a, w) /\ k.pend \in Nat /\ k.pend <= Len(a) /\ Len(a) \in Nat
    <3>1. BlockingQueue(k, a, w) /\ Charged(k.pend, k.bytes, a) /\ InOrder(a, w)
      BY <1>2, <2>3 DEF BlockingInv
    <3>2. /\ a \in Seq(Nat) /\ k.jobs \in Seq(Subs) /\ k.pend \in Nat
          /\ k.pend <= Len(a) /\ Len(a) \in Nat
      BY <1>2, <3>1 DEF Charged, BlockingShape
    <3>3. /\ k.pend = Len(k.subs) + 0 /\ Numbered(k.subs, Len(a) - Len(k.subs), a)
          /\ OnWire(k, rel, w)
      BY <2>1, <3>1 DEF BlockingQueue
    <3>4. Flight(None, k.jobs, k.job, k.results)
      BY <2>1, <3>1 DEF BlockingQueue
    <3> QED BY <3>1, <3>2, <3>3, <3>4
  <2> DEFINE m == Len(a) - Len(k.subs)
             t == Tail(k.subs)
  <2>5. /\ Numbered(t, m + 1, a) /\ x \in Subs /\ t \in Seq(Subs)
        /\ Len(t) = Len(k.subs) - 1 /\ Len(k.subs) \in Nat \ {0}
        /\ x.id = m + 1 /\ x.size = a[m + 1] /\ x # None
    <3> HIDE DEF m
    <3> QED BY <2>1, <2>4, NumberedTail DEF m
  <2>6. /\ Flight(x, Append(k.jobs, x), k.job, k.results)
        /\ ~InResults(k.results) /\ k.job = None
    <3> HIDE DEF x
    <3> QED BY <2>4, <2>5, FlightStarts
  <2>7. Append(k.jobs, x) \in Seq(Subs)
    BY <2>4, <2>5
  <2> HIDE DEF x, t, L
  <2>8. m = rel /\ m + 1 = Len(a) - Len(t) /\ k.pend = Len(t) + 1 /\ rel \in Nat
    BY <2>4, <2>5
  <2> HIDE DEF rel, m
  <2>9. BlockingShape(k')
    BY <1>2, <2>2, <2>5, <2>7 DEF BlockingShape, t
  <2>10. BlockingLife(k')
    BY <1>2, <2>2 DEF BlockingLife, Claimed
  <2>11. OnWire(k', rel, w)
    BY <2>1, <2>2, <2>4, <2>5, <2>6 DEF OnWire, InResults
  <2>12. BlockingQueue(k', a, w)
    BY <2>2, <2>5, <2>6, <2>8, <2>11 DEF BlockingQueue, rel, t
  <2>13. BlockingInv(k', a, w)
    BY <2>2, <2>4, <2>9, <2>10, <2>12 DEF BlockingInv
  <2> QED BY <1>1, <2>2, <2>13 DEF BlockingGoal, Allowed, Ended, Unmoved
<1> QED BY <1>4, <1>5

-----------------------------------------------------------------------------
(* The charge of one written submission is released.                       *)
LEMMA ChargeReleases ==
  ASSUME NEW pend, NEW bytes, NEW a, Charged(pend, bytes, a), pend # 0
  PROVE  LET rel == Len(a) - pend
         IN  /\ Charged(pend - 1, bytes - a[rel + 1], a)
             /\ Len(a) - (pend - 1) = rel + 1 /\ pend - 1 \in Nat /\ rel \in Nat
<1> DEFINE rel == Len(a) - pend
           x == a[rel + 1]
<1>1. /\ a \in Seq(Nat) /\ pend \in Nat /\ bytes \in Nat /\ pend <= Len(a)
      /\ pend <= Limits.subs /\ bytes <= Limits.subBytes
      /\ bytes = Upto(a, Len(a)) - Upto(a, rel) /\ Len(a) \in Nat
  BY DEF Charged
<1>2. /\ rel \in Nat /\ rel + 1 <= Len(a) /\ Len(a) - (pend - 1) = rel + 1
      /\ pend - 1 \in Nat /\ pend - 1 <= Len(a) /\ pend - 1 <= Limits.subs
  BY <1>1, LimitsAssumption
<1> HIDE DEF rel
<1>3. \A i \in 1..rel + 1 : a[i] \in Nat
  BY <1>1, <1>2
<1>4. Upto(a, rel + 1) = Upto(a, rel) + x /\ Upto(a, rel) \in Nat
  BY <1>2, <1>3, UptoStep
<1>5. Upto(a, rel + 1) \in Nat /\ Upto(a, Len(a)) \in Nat
      /\ Upto(a, rel + 1) <= Upto(a, Len(a))
  <2>1. rel + 1 \in Nat
    BY <1>2
  <2> QED BY <1>1, <1>2, <2>1, AcceptedSums
<1>6. x \in Nat
  BY <1>2, <1>3
<1> HIDE DEF x
<1>7. /\ bytes - x = Upto(a, Len(a)) - Upto(a, rel + 1) /\ bytes - x \in Nat
      /\ bytes - x <= Limits.subBytes
  <2> DEFINE U == Upto(a, Len(a))
             R == Upto(a, rel)
             S == Upto(a, rel + 1)
             M == Limits.subBytes
  <2>1. /\ bytes \in Nat /\ U \in Nat /\ R \in Nat /\ S \in Nat /\ M \in Nat
        /\ bytes = U - R /\ S = R + x /\ S <= U /\ bytes <= M
    BY <1>1, <1>4, <1>5, LimitsAssumption
  <2> HIDE DEF U, R, S, M
  <2>2. bytes - x = U - S /\ bytes - x \in Nat /\ bytes - x <= M
    BY <1>6, <2>1
  <2> QED BY <2>2 DEF U, S, M
<1>8. Charged(pend - 1, bytes - x, a)
  BY <1>1, <1>2, <1>7 DEF Charged
<1> QED BY <1>2, <1>8 DEF rel, x

LEMMA OwnerWriteResultStep ==
  ASSUME BlockingState, OwnerWriteResult PROVE BlockingGoal
<1> DEFINE a == env.acc
           w == env.wire
           rel == Len(a) - k.pend
           r == Head(k.results)
           K == [k EXCEPT !.results = Tail(@)]
           C == ReleaseSubmissions(K, 1, r.job.size)
           R == [C EXCEPT !.active = IF @ = r.job THEN None ELSE @]
           N == IF r.job = None THEN K ELSE R
<1>1. /\ k.owner = "select" /\ k.results # <<>> /\ env' = env
      /\ k' = IF r.err THEN Ends(K, "write") ELSE WakeSubmissionOwner(N)
  BY DEF OwnerWriteResult
<1>2. DOMAIN k = BlockingFields /\ BlockingInv(k, a, w) /\ BlockingLife(k) /\ BlockingShape(k)
  BY BlockingParts
<1>3. ~k.done
  BY <1>1, <1>2 DEF BlockingLife
<1>4. /\ BlockingQueue(k, a, w) /\ Charged(k.pend, k.bytes, a) /\ InOrder(a, w)
      /\ Flight(k.active, k.jobs, k.job, k.results) /\ OnWire(k, rel, w)
      /\ a \in Seq(Nat)
  BY <1>2, <1>3 DEF BlockingInv, BlockingQueue, Charged
<1>5. /\ k.jobs \in Seq(Subs) /\ k.results \in Seq(Results) /\ k.werr \in BOOLEAN
      /\ k.job \in Subs /\ k.sig \in BOOLEAN
  BY <1>2 DEF BlockingShape
<1> DEFINE t == Tail(k.results)
<1>6. /\ Flight(k.active, k.jobs, k.job, t) /\ t \in Seq(Results) /\ r \in Results
      /\ r = k.results[1] /\ 1 \in 1..Len(k.results) /\ r.job \in {None, k.active}
      /\ \A i \in 1..Len(t) : i + 1 \in 1..Len(k.results) /\ t[i] = k.results[i + 1]
      /\ r.job # None => Flight(None, k.jobs, k.job, t)
  BY <1>1, <1>4, <1>5, FlightResult
<1>7. /\ Retains(k, K, {"results"}) /\ K.results = t
  BY <1>2 DEF Retains, BlockingFields
<1> HIDE DEF K, r, t, rel
<1>8. /\ Retains(k, K, Silently \cup Moving) /\ K.job = k.job /\ K.jobs = k.jobs
      /\ K.werr = k.werr /\ K.writer = k.writer /\ K.active = k.active
      /\ K.owner = k.owner
  BY <1>2, <1>7 DEF Retains, Silently, Moving, BlockingFields
<1>9. OnWire(K, rel, w)
  <2>1. \A i \in 1..Len(k.results) : k.results[i].job # None =>
          Len(w) = rel + (IF k.results[i].err THEN 0 ELSE 1)
    BY <1>4 DEF OnWire
  <2>2. \A i \in 1..Len(t) : t[i].job # None =>
          Len(w) = rel + (IF t[i].err THEN 0 ELSE 1)
    BY <1>6, <2>1
  <2> QED BY <1>4, <1>7, <1>8, <2>2 DEF OnWire
<1>10. k.job # None => k.writer \in {"write", "send"}
  BY <1>2 DEF BlockingLife
<1>11. BlockingInv(K, a, w) /\ Unmoved(k, K)
  BY <1>1, <1>2, <1>3, <1>4, <1>5, <1>6, <1>7, <1>8, <1>9, <1>10, FlightInv DEF rel
<1>12. CASE r.err
  <2>1. BlockingInv(Ends(K, "write"), a, w) /\ Ended(K, Ends(K, "write"))
    BY <1>1, <1>8, <1>11, EndsInv
  <2>2. Ended(k, K)
    BY <1>11 DEF Ended
  <2>3. Ended(k, Ends(K, "write"))
    BY <2>1, <2>2, EndedMore
  <2> QED BY <1>1, <1>12, <2>1, <2>3 DEF BlockingGoal, Allowed
<1>13. ASSUME ~r.err, BlockingInv(N, a, w), Progresses(k, N),
              Len(a) - N.pend <= Len(w)
       PROVE  BlockingGoal
  <2>1. k' = WakeSubmissionOwner(N)
    BY <1>1, <1>13
  <2> HIDE DEF N
  <2>2. DOMAIN N = BlockingFields
    BY <1>13 DEF BlockingInv, BlockingShape
  <2>3. Retains(N, k', Silently)
    BY <2>1, <2>2 DEF WakeSubmissionOwner, Retains, Silently, BlockingFields
  <2>4. BlockingInv(k', a, w) /\ Unmoved(N, k')
    BY <1>13, <2>3, SilentInv
  <2>5. Progresses(k, k')
    BY <1>13, <2>4, ThenUnmoved
  <2>6. Len(a) - k'.pend <= Len(w) /\ Len(w) <= Len(w)
    BY <1>4, <1>13, <2>4 DEF Unmoved, InOrder
  <2> QED BY <1>1, <2>4, <2>5, <2>6 DEF BlockingGoal, Allowed
<1>14. CASE ~r.err /\ r.job = None
  <2>1. N = K
    BY <1>14
  <2>2. Progresses(k, K)
    BY <1>4, <1>5, <1>11, UnmovedProgress DEF Charged
  <2>3. Len(a) - K.pend <= Len(w)
    <3>1. Len(w) \in rel..rel + 1 /\ K.pend = k.pend /\ rel \in Int
      BY <1>4, <1>11 DEF OnWire, Unmoved, rel, Charged
    <3> QED BY <3>1 DEF rel
  <2> QED BY <1>11, <1>13, <1>14, <2>1, <2>2, <2>3
<1>15. CASE ~r.err /\ r.job # None
  <2>1. N = R /\ r.job = k.active /\ k.active # None /\ r.job.size = k.active.size
    BY <1>6, <1>15
  <2>2. /\ k.pend = Len(k.subs) + 1 /\ k.active.size = a[rel + 1]
        /\ Numbered(k.subs, Len(a) - Len(k.subs), a) /\ Len(k.subs) \in Nat
    <3>1. k.subs \in Seq(Subs)
      BY <1>2 DEF BlockingShape
    <3>2. Len(k.subs) \in Nat
      BY <3>1
    <3>3. k.pend = Len(k.subs) + 1 /\ k.active.size = a[rel + 1]
      BY <1>4, <2>1 DEF BlockingQueue, rel
    <3>4. Numbered(k.subs, Len(a) - Len(k.subs), a)
      BY <1>4 DEF BlockingQueue
    <3> QED BY <3>2, <3>3, <3>4
  <2>3. k.pend # 0
    BY <2>2
  <2>4. /\ Charged(k.pend - 1, k.bytes - a[rel + 1], a)
        /\ Len(a) - (k.pend - 1) = rel + 1 /\ k.pend - 1 \in Nat /\ rel \in Nat
    BY <1>4, <2>3, ChargeReleases DEF rel
  <2> HIDE DEF R
  <2>5. /\ DOMAIN K = BlockingFields /\ K.pend = k.pend /\ K.bytes = k.bytes
        /\ K.sig = k.sig /\ K.state = k.state
    BY <1>2, <1>7 DEF Retains, BlockingFields
  <2>6. /\ Retains(K, C, {"pend", "bytes", "sig"}) /\ C.pend = k.pend - 1
        /\ C.bytes = k.bytes - a[rel + 1] /\ C.sig = (k.sig \/ k.state = "ready")
    <3>1. C = [K EXCEPT !.pend = @ - 1, !.bytes = @ - r.job.size,
                        !.sig = @ \/ K.state = "ready"]
      BY DEF ReleaseSubmissions
    <3> HIDE DEF C
    <3>2. Retains(K, C, {"pend", "bytes", "sig"})
      BY <2>5, <3>1 DEF Retains, BlockingFields
    <3>3. C.pend = k.pend - 1 /\ C.bytes = k.bytes - r.job.size
      BY <2>5, <3>1 DEF BlockingFields
    <3>4. C.sig = (k.sig \/ k.state = "ready")
      BY <2>5, <3>1 DEF BlockingFields
    <3> QED BY <2>1, <2>2, <3>2, <3>3, <3>4
  <2> HIDE DEF C
  <2>7. /\ Retains(C, R, {"active"}) /\ R.active = None
    <3>1. C.active = r.job /\ "active" \in DOMAIN C
      BY <1>8, <2>1, <2>5, <2>6 DEF Retains, BlockingFields
    <3> QED BY <3>1 DEF R, Retains
  <2>8. /\ DOMAIN R = BlockingFields /\ R.pend = k.pend - 1
        /\ R.bytes = k.bytes - a[rel + 1] /\ R.sig = (k.sig \/ k.state = "ready")
        /\ R.active = None /\ R.results = t
    BY <1>7, <2>5, <2>6, <2>7 DEF Retains, BlockingFields
  <2>9. /\ R.kind = k.kind /\ R.state = k.state /\ R.err = k.err
        /\ R.start = k.start /\ R.done = k.done /\ R.subs = k.subs
        /\ R.starter = k.starter /\ R.closer = k.closer /\ R.owner = k.owner
        /\ R.writer = k.writer /\ R.jobs = k.jobs /\ R.job = k.job /\ R.werr = k.werr
    BY <1>2, <1>7, <2>6, <2>7 DEF Retains, BlockingFields
  <2>10. BlockingShape(R)
    <3>1. R.sig \in BOOLEAN /\ None \in Subs
      BY <1>5, <2>8 DEF None, Subs
    <3> QED BY <1>2, <1>6, <2>8, <2>9, <3>1 DEF BlockingShape
  <2>11. BlockingLife(R)
    BY <1>1, <1>2, <1>3, <2>9 DEF BlockingLife, Claimed
  <2>12. Len(w) = rel + 1
    BY <1>4, <1>6, <1>15 DEF OnWire
  <2>13. BlockingQueue(R, a, w)
    <3>1. Flight(None, k.jobs, k.job, t)
      BY <1>6, <1>15
    <3>2. /\ ~InJobs(k.jobs) /\ k.job = None
          /\ \A i \in 1..Len(t) : t[i].job = None
      BY <3>1 DEF Flight, InJobs
    <3>3. Len(w) \in (rel + 1)..(rel + 1) + 1
      BY <2>4, <2>12
    <3>4. OnWire(R, rel + 1, w)
      BY <2>8, <2>9, <2>12, <3>2, <3>3 DEF OnWire
    <3>5. R.pend = Len(R.subs) + 0 /\ Len(a) - R.pend = rel + 1
      <4>1. \A n \in Nat : (n + 1) - 1 = n + 0
        OBVIOUS
      <4> QED BY <2>2, <2>4, <2>8, <2>9, <4>1
    <3> QED BY <2>2, <2>8, <2>9, <3>1, <3>4, <3>5 DEF BlockingQueue
  <2>14. BlockingInv(R, a, w)
    BY <1>4, <2>4, <2>8, <2>9, <2>10, <2>11, <2>13 DEF BlockingInv
  <2>15. Progresses(k, R)
    <3>1. R.pend < k.pend /\ R.pend <= k.pend /\ R.pend # k.pend
      <4>1. \A n \in Nat : n # 0 => n - 1 < n /\ n - 1 <= n /\ n - 1 # n
        OBVIOUS
      <4>2. k.pend \in Nat
        BY <1>4 DEF Charged
      <4> QED BY <2>3, <2>8, <4>1, <4>2
    <3> QED BY <2>8, <2>9, <3>1 DEF Progresses
  <2>16. Len(a) - R.pend <= Len(w)
    BY <2>4, <2>8, <2>12
  <2> QED BY <1>13, <1>15, <2>1, <2>14, <2>15, <2>16
<1>16. r.err \in BOOLEAN
  BY <1>6 DEF Results
<1> QED BY <1>12, <1>14, <1>15, <1>16

(* TrySubmit and the consumers.                                            *)
LEMMA BTrySubmitStep ==
  ASSUME BlockingState, Envelope, NEW x \in Nat \ {0},
         TrySubmit(x, BlockingWake(Submitted(x)))
  PROVE  BlockingGoal
<1> DEFINE a == env.acc
           w == env.wire
           b == Append(a, x)
           rel == Len(a) - k.pend
           s == [id |-> Len(a) + 1, size |-> x]
           S == Submitted(x)
           m == Len(a) - Len(k.subs)
<1>1. /\ k' = BlockingWake(S) /\ env' = [env EXCEPT !.acc = Append(@, x)]
      /\ k.state = "ready" /\ x <= Limits.subBytes
      /\ k.pend < Limits.subs /\ x <= Limits.subBytes - k.bytes
  BY DEF TrySubmit
<1>2. env'.acc = b /\ env'.wire = w
  BY <1>1 DEF Envelope
<1>3. DOMAIN k = BlockingFields /\ BlockingInv(k, a, w) /\ BlockingLife(k) /\ BlockingShape(k)
  BY BlockingParts
<1>4. k.owner # "none" /\ ~k.done
  BY <1>1, <1>3 DEF BlockingLife
<1>5. /\ BlockingQueue(k, a, w) /\ Charged(k.pend, k.bytes, a) /\ InOrder(a, w)
      /\ a \in Seq(Nat) /\ k.pend \in Nat /\ Len(a) \in Nat /\ k.pend <= Len(a)
      /\ k.subs \in Seq(Subs) /\ Len(k.subs) \in Nat
  BY <1>3, <1>4 DEF BlockingInv, Charged, BlockingShape
<1>6. /\ Retains(k, S, {"subs", "pend", "bytes"}) /\ S.subs = Append(k.subs, s)
      /\ S.pend = k.pend + 1 /\ S.bytes = k.bytes + x
  BY <1>3 DEF Submitted, Retains, BlockingFields
<1> HIDE DEF S
<1>7. Retains(S, k', {"queued"})
  BY <1>1, <1>3, <1>6 DEF BlockingWake, Retains, BlockingFields
<1>8. /\ DOMAIN k' = BlockingFields /\ k'.subs = Append(k.subs, s)
      /\ k'.pend = k.pend + 1 /\ k'.bytes = k.bytes + x
      /\ k'.kind = k.kind /\ k'.state = k.state /\ k'.err = k.err
      /\ k'.start = k.start /\ k'.done = k.done
      /\ k'.sig = k.sig /\ k'.starter = k.starter
      /\ k'.closer = k.closer /\ k'.owner = k.owner /\ k'.writer = k.writer
      /\ k'.active = k.active /\ k'.jobs = k.jobs
      /\ k'.results = k.results /\ k'.job = k.job /\ k'.werr = k.werr
  BY <1>3, <1>6, <1>7 DEF Retains, BlockingFields
<1>9. /\ Charged(k.pend + 1, k.bytes + x, b) /\ Len(b) - (k.pend + 1) = rel
  BY <1>1, <1>5, ChargeAccepts
<1>10. InOrder(b, w)
  BY <1>5, OrderMore
<1>11. /\ Numbered(k.subs, m, a) /\ m + Len(k.subs) = Len(a)
       /\ k.pend = Len(k.subs) + (IF k.active = None THEN 0 ELSE 1)
  <2>1. Numbered(k.subs, m, a)
        /\ k.pend = Len(k.subs) + (IF k.active = None THEN 0 ELSE 1)
    BY <1>5 DEF BlockingQueue
  <2>2. \A i, j \in Nat : (i - j) + j = i
    OBVIOUS
  <2> QED BY <1>5, <2>1, <2>2
<1>12. /\ k'.subs \in Seq(Subs) /\ Len(k'.subs) = Len(k.subs) + 1
       /\ Numbered(k'.subs, m, b)
  <2> HIDE DEF m
  <2> QED BY <1>5, <1>8, <1>11, NumberedNext
<1>13. Len(b) = Len(a) + 1 /\ \A i \in 1..Len(a) : b[i] = a[i]
  BY <1>5
<1>14. BlockingShape(k')
  BY <1>3, <1>8, <1>12 DEF BlockingShape
<1>15. BlockingLife(k')
  BY <1>3, <1>4, <1>8 DEF BlockingLife, Claimed
<1> HIDE DEF b
<1>16. BlockingQueue(k', b, w)
  <2>1. Len(b) - Len(k'.subs) = m
    BY <1>5, <1>12, <1>13
  <2>2. k'.pend = Len(k'.subs) + (IF k'.active = None THEN 0 ELSE 1)
    <3>1. \A n \in Nat, c \in {0, 1} : (n + c) + 1 = (n + 1) + c
      OBVIOUS
    <3>2. (IF k.active = None THEN 0 ELSE 1) \in {0, 1}
      OBVIOUS
    <3> QED BY <1>5, <1>8, <1>11, <1>12, <3>1, <3>2
  <2>3. Len(b) - k'.pend = rel
    BY <1>8, <1>9
  <2>4. k.active # None => /\ k.active.id = rel + 1 /\ k.active.size = a[rel + 1]
                           /\ rel + 1 \in 1..Len(a)
    <3>1. k.active # None => k.pend = Len(k.subs) + 1
      BY <1>11
    <3>2. k.active # None => k.active.id = rel + 1 /\ k.active.size = a[rel + 1]
      BY <1>5 DEF BlockingQueue
    <3>3. k.active # None => rel + 1 \in 1..Len(a)
      BY <1>5, <3>1, SMTT(30)
    <3> QED BY <3>2, <3>3
  <2>5. k.active # None => k.active.size = b[rel + 1]
    BY <1>13, <2>4
  <2>6. Flight(k.active, k.jobs, k.job, k.results) /\ OnWire(k, rel, w)
    BY <1>5 DEF BlockingQueue
  <2> HIDE DEF rel, m
  <2>7. OnWire(k', rel, w)
    BY <1>8, <2>6 DEF OnWire
  <2> QED BY <1>8, <1>12, <2>1, <2>2, <2>3, <2>4, <2>5, <2>6, <2>7 DEF BlockingQueue
<1>17. BlockingInv(k', b, w)
  BY <1>8, <1>9, <1>10, <1>14, <1>15, <1>16 DEF BlockingInv
<1>18. x \in 1..Limits.subBytes
  BY <1>1, LimitsAssumption
<1>19. Accepts(k, k', x)
  BY <1>1, <1>8, <1>18 DEF Accepts
<1> QED BY <1>2, <1>17, <1>19 DEF BlockingGoal, Allowed, b

LEMMA BTakeSignalStep ==
  ASSUME BlockingState, TakeSignal PROVE BlockingGoal
<1>1. k' = [k EXCEPT !.sig = FALSE] /\ env' = env /\ k.sig
  BY DEF TakeSignal
<1>2. DOMAIN k = BlockingFields /\ BlockingInv(k, env.acc, env.wire) /\ BlockingLife(k)
      /\ BlockingShape(k)
  BY BlockingParts
<1>3. /\ DOMAIN k' = BlockingFields /\ k'.sig = FALSE
      /\ k'.subs = k.subs /\ k'.pend = k.pend /\ k'.bytes = k.bytes
      /\ k'.kind = k.kind /\ k'.state = k.state /\ k'.err = k.err
      /\ k'.start = k.start /\ k'.done = k.done /\ k'.starter = k.starter
      /\ k'.closer = k.closer /\ k'.owner = k.owner /\ k'.writer = k.writer
      /\ k'.active = k.active /\ k'.jobs = k.jobs
      /\ k'.results = k.results /\ k'.job = k.job /\ k'.werr = k.werr
  BY <1>1, <1>2 DEF BlockingFields
<1>4. BlockingShape(k') /\ BlockingLife(k')
  BY <1>2, <1>3 DEF BlockingShape, BlockingLife, Claimed
<1>5. ~k.done => BlockingQueue(k', env.acc, env.wire)
  BY <1>2, <1>3 DEF BlockingInv, BlockingQueue, OnWire
<1>6. BlockingInv(k', env.acc, env.wire)
  BY <1>2, <1>3, <1>4, <1>5 DEF BlockingInv
<1>7. Signals(k, k')
  BY <1>1, <1>3 DEF Signals
<1> QED BY <1>1, <1>6, <1>7 DEF BlockingGoal, Allowed

(* The reader, the peer and the consumers of events.                       *)
LEMMA SilentSteps ==
  ASSUME BlockingState, Envelope,
         \/ (\E err \in BOOLEAN : ReaderReads(err)) \/ ReaderSends \/ ReaderTerminal
         \/ TakeEvent \/ Snapshot
         \/ \E f \in env.max.frames : k.state \in {"boot", "ready"} /\ PeerSends(f)
  PROVE  BlockingGoal
<1>1. DOMAIN k = BlockingFields
  BY BlockingParts
<1>2. CASE \E err \in BOOLEAN : ReaderReads(err)
  <2>1. Retains(k, k', Silently) /\ env' = env
    BY <1>1, <1>2 DEF ReaderReads, Retains, Silently, BlockingFields
  <2> QED BY <2>1, SilentGoal
<1>3. CASE ReaderSends \/ ReaderTerminal \/ TakeEvent
  <2>1. Retains(k, k', Silently) /\ env' = env
    BY <1>1, <1>3 DEF ReaderSends, ReaderTerminal, TakeEvent, Retains, Silently,
       BlockingFields
  <2> QED BY <2>1, SilentGoal
<1>4. CASE Snapshot
  <2>1. k' = Reconcile(k) /\ env' = env
    BY <1>4 DEF Snapshot
  <2>2. Retains(k, k', {"charges"})
    BY <1>1, <2>1, ReconcileKeeps DEF BlockingFields
  <2>3. Retains(k, k', Silently)
    BY <2>2 DEF Retains, Silently
  <2> QED BY <2>1, <2>3, SilentGoal
<1>5. CASE \E f \in env.max.frames : k.state \in {"boot", "ready"} /\ PeerSends(f)
  <2>1. PICK f \in env.max.frames : PeerSends(f)
    BY <1>5
  <2>2. Retains(k, k', Silently)
    BY <1>1, <2>1 DEF PeerSends, Retains, Silently, BlockingFields
  <2>3. env'.acc = env.acc /\ env'.wire = env.wire
    BY <2>1 DEF PeerSends, Envelope
  <2> QED BY <2>2, <2>3, SilentGoal
<1> QED BY <1>2, <1>3, <1>4, <1>5

LEMMA BlockingNextStep ==
  ASSUME BlockingState, Envelope, BlockingNext PROVE BlockingGoal
<1>1. CASE \E n \in env.max.sizes : TrySubmit(n, BlockingWake(Submitted(n)))
  <2>1. PICK n \in env.max.sizes : TrySubmit(n, BlockingWake(Submitted(n)))
    BY <1>1
  <2>2. n \in Nat \ {0}
    BY ScenarioAssumption DEF Envelope
  <2> QED BY <2>1, <2>2, BTrySubmitStep
<1>2. CASE \E initial, err \in BOOLEAN : BootstrapDone(initial, err)
  BY <1>2, BootstrapDoneStep
<1>3. CASE \E ok \in BOOLEAN : WriterWrites(ok)
  BY <1>3, WriterWritesStep
<1>4. CASE \/ BStart \/ BootstrapFails \/ StartFinishes \/ StartReturns
           \/ BClose \/ CloseFinishes \/ CloseReturns
  BY <1>4, BStartStep, BootstrapFailsStep, StartFinishesStep, BReturnsStep, BCloseStep,
     CloseFinishesStep
<1>5. CASE \/ HandleFrames \/ OwnerTerminal \/ OwnerSubmission \/ OwnerWriteResult
           \/ OwnerReadResult \/ OwnerFinishes
  BY <1>5, HandleFramesStep, OwnerSelectsStep, OwnerSubmissionStep, OwnerWriteResultStep,
     OwnerFinishesStep
<1>6. CASE WriterTakes \/ WriterSends \/ WriterTerminal \/ TakeSignal
  BY <1>6, WriterTakesStep, WriterSendsStep, WriterTerminalStep, BTakeSignalStep
<1>7. CASE \/ (\E err \in BOOLEAN : ReaderReads(err)) \/ ReaderSends \/ ReaderTerminal
           \/ TakeEvent \/ Snapshot
           \/ \E f \in env.max.frames : k.state \in {"boot", "ready"} /\ PeerSends(f)
  BY <1>7, SilentSteps
<1> QED BY <1>1, <1>2, <1>3, <1>4, <1>5, <1>6, <1>7 DEF BlockingNext

-----------------------------------------------------------------------------
(* A new link of either engine.                                            *)
LEMMA NewBooks ==
  /\ Charged(0, 0, <<>>) /\ InOrder(<<>>, <<>>) /\ Numbered(<<>>, 0, <<>>)
  /\ Booked(<<>>, <<>>, 0) /\ Buffered(<<>>, <<>>) /\ ItemsTo(<<>>, 0) = 0
  /\ Len(<<>>) = 0 /\ LeftTo(<<>>, 0) = 0
<1>1. /\ <<>> \in Seq(Subs) /\ <<>> \in Seq(Segs) /\ <<>> \in Seq(Nat)
      /\ Len(<<>>) = 0 /\ 1..0 = {}
  BY NoElements
<1>2. ItemsTo(<<>>, 0) = 0 /\ LeftTo(<<>>, 0) = 0
  BY SegmentZero
<1>3. Charged(0, 0, <<>>)
  BY <1>1, ChargeNothing
<1>4. InOrder(<<>>, <<>>) /\ Numbered(<<>>, 0, <<>>)
  BY <1>1 DEF InOrder, Numbered
<1>5. Booked(<<>>, <<>>, 0) /\ Buffered(<<>>, <<>>)
  BY <1>1, <1>2 DEF Booked, Buffered
<1> QED BY <1>1, <1>2, <1>3, <1>4, <1>5

LEMMA NewGnetInv == GnetInv(NewGnetLink, <<>>, <<>>)
<1> DEFINE K == NewGnetLink
<1>1. /\ DOMAIN K = GnetFields /\ K.kind = "gnet" /\ K.state = "created"
      /\ K.err = "none" /\ K.start = "none" /\ K.done = FALSE /\ K.subs = <<>>
      /\ K.pend = 0 /\ K.bytes = 0 /\ K.sig = FALSE /\ K.starter = "idle"
  BY DEF NewGnetLink, NewLink, WithEngine, GnetFields
<1>2. /\ K.initiated = FALSE /\ K.owner = FALSE /\ K.gconn = "none" /\ K.boot = 0
      /\ K.pc = "idle" /\ K.batch = <<>> /\ K.segs = <<>> /\ K.buf = <<>>
      /\ K.ctl = 0 /\ K.stopping = FALSE /\ K.stopper = "idle"
  BY DEF NewGnetLink, NewLink, WithEngine
<1> HIDE DEF K
<1>3. <<>> \in Seq(Subs) /\ <<>> \in Seq(Segs) /\ Len(<<>>) = 0
  BY NoElements, NewBooks
<1>4. GnetShape(K)
  <2>1. K.boot \in 0..3
    BY <1>2
  <2>2. /\ K.done \in BOOLEAN /\ K.owner \in BOOLEAN /\ K.sig \in BOOLEAN
        /\ K.initiated \in BOOLEAN /\ K.stopping \in BOOLEAN
    BY <1>1, <1>2
  <2>3. K.pc \in {"idle", "write", "frames"}
    BY <1>2
  <2> QED BY <1>1, <1>2, <1>3, <2>1, <2>2, <2>3 DEF GnetShape
<1>5. Lives(K) /\ Enrolls(K)
  BY <1>1, <1>2 DEF Lives, Enrolls, Claimed
<1>6. ~Overflows(K)
  <2>1. Outbound(K) = 0
    <3>1. Outbound(K) = LeftTo(K.buf, Len(K.buf))
      BY <1>2, <1>3, SegmentSums DEF Outbound
    <3> QED BY <1>2, <3>1, NewBooks
  <2>2. MaxOutbound \in Nat
    BY MaximumControl, LimitsAssumption
  <2> QED BY <2>1, <2>2 DEF Overflows
<1>7. Ledger(K.segs, K.buf, K.ctl, K.pend, <<>>, <<>>)
  <2>1. 0 * PongWire = 0 /\ MaxControlBytes \in Nat /\ 0 - 0 = 0 /\ 0 + 0 = 0
    BY MaximumControl, LimitsAssumption
  <2> QED BY <1>1, <1>2, <2>1, NewBooks DEF Ledger
<1>8. GnetQueue(K, <<>>)
  BY <1>1, <1>2, NewBooks DEF GnetQueue
<1> QED BY <1>1, <1>4, <1>5, <1>6, <1>7, <1>8, NewBooks DEF GnetInv, K

LEMMA NewBlockingInv == BlockingInv(NewBlockingLink, <<>>, <<>>)
<1> DEFINE K == NewBlockingLink
<1>1. /\ DOMAIN K = BlockingFields /\ K.kind = "blocking" /\ K.state = "created"
      /\ K.err = "none" /\ K.start = "none" /\ K.done = FALSE /\ K.subs = <<>>
      /\ K.pend = 0 /\ K.bytes = 0 /\ K.sig = FALSE /\ K.starter = "idle"
      /\ K.closer = "idle"
  BY DEF NewBlockingLink, NewLink, WithEngine, BlockingFields
<1>2. /\ K.owner = "none" /\ K.writer = "none" /\ K.active = None /\ K.jobs = <<>>
      /\ K.results = <<>> /\ K.job = None /\ K.werr = FALSE
  BY DEF NewBlockingLink, NewLink, WithEngine
<1> HIDE DEF K
<1>3. None \in Subs /\ <<>> \in Seq(Subs) /\ <<>> \in Seq(Results)
  BY EmptySeq DEF None, Subs
<1>4. BlockingShape(K)
  BY <1>1, <1>2, <1>3 DEF BlockingShape
<1>5. BlockingLife(K)
  BY <1>1, <1>2 DEF BlockingLife, Claimed
<1>6. BlockingQueue(K, <<>>, <<>>)
  <2>1. Len(<<>>) = 0 /\ 1..0 = {} /\ 0 - 0 = 0 /\ 0 + 0 = 0 /\ 0 \in 0..0 + 1
    BY NewBooks
  <2>2. Flight(None, <<>>, None, <<>>)
    BY <2>1 DEF Flight, InJobs, InResults
  <2>3. OnWire(K, 0, <<>>)
    BY <1>2, <2>1 DEF OnWire
  <2> QED BY <1>1, <1>2, <2>1, <2>2, <2>3, NewBooks DEF BlockingQueue
<1> QED BY <1>1, <1>4, <1>5, <1>6, NewBooks DEF BlockingInv, K

-----------------------------------------------------------------------------
(* The scenario never changes.                                             *)
LEMMA EnvelopeStep ==
  ASSUME Envelope, Next PROVE Envelope'
<1>1. CASE env' = env
  BY <1>1 DEF Envelope
<1>2. ASSUME NEW f \in {"acc", "wire", "sent"}, NEW x, env' = [env EXCEPT ![f] = x]
      PROVE  Envelope'
  BY <1>2 DEF Envelope
<1>3. ASSUME NEW n, NEW K, TrySubmit(n, K) PROVE Envelope'
  BY <1>2, <1>3 DEF TrySubmit
<1>4. ASSUME NEW f, PeerSends(f) PROVE Envelope'
  BY <1>2, <1>4 DEF PeerSends
<1>5. CASE GnetNext
  <2>1. CASE \/ GStart \/ GStartCanceled \/ Enroll \/ OnOpen \/ StartReturns
             \/ ResolveStartCancellation
    BY <1>1, <2>1 DEF GStart, GStartCanceled, Enroll, OnOpen, StartReturns,
       ResolveStartCancellation
  <2>2. CASE \/ GClose \/ GCloseSchedules \/ CloseReturns
             \/ BeginStop \/ StopClaims \/ StopSchedules \/ StopClient
    BY <1>1, <2>2 DEF GClose, GCloseSchedules, CloseReturns, BeginStop, StopClaims,
       StopSchedules, StopClient
  <2>3. CASE DrainOwner \/ OnTraffic \/ OwnerCloses \/ StreamLost \/ FireOutboundPoll
    BY <1>1, <2>3 DEF DrainOwner, OnTraffic, OwnerCloses, StreamLost, FireOutboundPoll
  <2>4. CASE TakeSignal \/ TakeEvent \/ Snapshot
    BY <1>1, <2>4 DEF TakeSignal, TakeEvent, Snapshot
  <2>5. CASE \E n \in 0..1 : OwnerFrame(n)
    BY <1>1, <2>5 DEF OwnerFrame
  <2>6. CASE \E n \in 0..Budget : DrainWrites(n)
    BY <1>1, <1>2, <2>6 DEF DrainWrites
  <2>7. CASE SocketWrites
    BY <1>1, <1>2, <2>7 DEF SocketWrites
  <2> QED BY <1>3, <1>4, <1>5, <2>1, <2>2, <2>3, <2>4, <2>5, <2>6, <2>7 DEF GnetNext
<1>6. CASE BlockingNext
  <2>1. CASE \/ BStart \/ BootstrapFails
             \/ (\E initial, err \in BOOLEAN : BootstrapDone(initial, err))
             \/ StartFinishes \/ StartReturns \/ BClose \/ CloseFinishes \/ CloseReturns
    BY <1>1, <2>1 DEF BStart, BootstrapFails, BootstrapDone, StartFinishes,
       StartReturns, BClose, CloseFinishes, CloseReturns
  <2>2. CASE \/ HandleFrames \/ OwnerTerminal \/ OwnerSubmission \/ OwnerWriteResult
             \/ OwnerReadResult \/ OwnerFinishes
    BY <1>1, <2>2 DEF HandleFrames, OwnerTerminal, OwnerSubmission, OwnerWriteResult,
       OwnerReadResult, OwnerFinishes
  <2>3. CASE WriterTakes \/ WriterSends \/ WriterTerminal
    BY <1>1, <2>3 DEF WriterTakes, WriterSends, WriterTerminal
  <2>4. CASE \E ok \in BOOLEAN : WriterWrites(ok)
    BY <1>1, <1>2, <2>4 DEF WriterWrites
  <2>5. CASE (\E err \in BOOLEAN : ReaderReads(err)) \/ ReaderSends \/ ReaderTerminal
    BY <1>1, <2>5 DEF ReaderReads, ReaderSends, ReaderTerminal
  <2>6. CASE TakeSignal \/ TakeEvent \/ Snapshot
    BY <1>1, <2>6 DEF TakeSignal, TakeEvent, Snapshot
  <2> QED BY <1>3, <1>4, <1>6, <2>1, <2>2, <2>3, <2>4, <2>5, <2>6 DEF BlockingNext
<1> QED BY <1>5, <1>6 DEF Next

-----------------------------------------------------------------------------
(* The inductive invariant of both engines.                                *)
LinkInv ==
  /\ Envelope
  /\ \/ k.kind = "gnet" /\ GnetState
     \/ k.kind = "blocking" /\ BlockingState

LEMMA InitLink == Init => LinkInv /\ Contract!Init
<1> SUFFICES ASSUME Init PROVE LinkInv /\ Contract!Init
  OBVIOUS
<1>1. PICK m \in Scenarios :
        env = NewEnv(m) /\ k = IF m.kind = "gnet" THEN NewGnetLink ELSE NewBlockingLink
  BY DEF Init
<1>2. /\ DOMAIN env = {"max", "acc", "wire", "sent"} /\ env.max = m
      /\ env.acc = <<>> /\ env.wire = <<>>
  BY <1>1 DEF NewEnv
<1>3. Envelope
  BY <1>2 DEF Envelope
<1>4. k = NewGnetLink \/ k = NewBlockingLink
  BY <1>1
<1>5. /\ k.state = "created" /\ k.start = "none" /\ k.err = "none" /\ k.pend = 0
      /\ k.bytes = 0 /\ k.sig = FALSE
  <2>1. CASE k = NewGnetLink
    BY <2>1 DEF NewGnetLink, NewLink, WithEngine
  <2>2. CASE k = NewBlockingLink
    BY <2>2 DEF NewBlockingLink, NewLink, WithEngine
  <2> QED BY <1>4, <2>1, <2>2
<1>6. Len(<<>>) - 0 = 0
  BY NewBooks
<1>7. Contract!Init
  BY <1>2, <1>5, <1>6 DEF Contract!Init
<1>8. CASE k = NewGnetLink
  <2>1. GnetState
    BY <1>2, <1>8, NewGnetInv DEF GnetState
  <2>2. k.kind = "gnet"
    BY <2>1, GnetParts DEF GnetShape
  <2> QED BY <1>3, <1>7, <2>1, <2>2 DEF LinkInv
<1>9. CASE k = NewBlockingLink
  <2>1. BlockingState
    BY <1>2, <1>9, NewBlockingInv DEF BlockingState
  <2>2. k.kind = "blocking"
    BY <2>1, BlockingParts DEF BlockingShape
  <2> QED BY <1>3, <1>7, <2>1, <2>2 DEF LinkInv
<1> QED BY <1>4, <1>8, <1>9

LEMMA NextLink ==
  LinkInv /\ [Next]_vars => LinkInv' /\ [Contract!Next]_(Contract!contract)
<1> SUFFICES ASSUME LinkInv, [Next]_vars
             PROVE  LinkInv' /\ [Contract!Next]_(Contract!contract)
  OBVIOUS
<1>1. Envelope
  BY DEF LinkInv
<1>2. CASE UNCHANGED vars
  <2>1. k' = k /\ env' = env
    BY <1>2 DEF vars
  <2>2. LinkInv'
    BY <2>1 DEF LinkInv, Envelope, GnetState, BlockingState
  <2>3. UNCHANGED Contract!contract
    BY <2>1 DEF Contract!contract
  <2> QED BY <2>2, <2>3
<1>3. CASE Next /\ k.kind = "gnet"
  <2>1. GnetState /\ GnetNext
    BY <1>3 DEF LinkInv, Next
  <2>2. GnetGoal
    BY <1>1, <2>1, GnetNextStep
  <2>3. GnetInv(k', env'.acc, env'.wire)
        /\ Allowed(k, env.acc, env.wire, k', env'.acc, env'.wire)
    BY <2>2 DEF GnetGoal, Goal
  <2>4. Lawful(k, env.acc, env.wire) /\ Lawful(k', env'.acc, env'.wire)
    BY <2>1, <2>3 DEF GnetState, GnetInv, GnetShape, Lawful
  <2>5. k'.kind = "gnet" /\ GnetState'
    BY <2>3 DEF GnetState, GnetInv, GnetShape
  <2>6. Envelope'
    BY <1>1, <1>3, EnvelopeStep
  <2> QED BY <2>3, <2>4, <2>5, <2>6, ContractStep DEF LinkInv
<1>4. CASE Next /\ k.kind = "blocking"
  <2>1. BlockingState /\ BlockingNext
    BY <1>4 DEF LinkInv, Next
  <2>2. BlockingInv(k', env'.acc, env'.wire)
        /\ Allowed(k, env.acc, env.wire, k', env'.acc, env'.wire)
    BY <1>1, <2>1, BlockingNextStep DEF BlockingGoal
  <2>3. Lawful(k, env.acc, env.wire) /\ Lawful(k', env'.acc, env'.wire)
    BY <2>1, <2>2 DEF BlockingState, BlockingInv, BlockingShape, Lawful
  <2>4. k'.kind = "blocking" /\ BlockingState'
    BY <2>2 DEF BlockingState, BlockingInv, BlockingShape
  <2>5. Envelope'
    BY <1>1, <1>4, EnvelopeStep
  <2> QED BY <2>2, <2>3, <2>4, <2>5, ContractStep DEF LinkInv
<1> QED BY <1>2, <1>3, <1>4 DEF Next

(* Each engine implements the contract of ClientLink (link.go), for all    *)
(* limits: whatever the goroutines, the event loop, the peer and           *)
(* the callers do, every step of a link is one the contract allows.  A     *)
(* submission is accepted only within the limits, is charged until the     *)
(* stream has taken it, and is written once and in order; a ready link     *)
(* that releases a charge signals it; there is one start result and one    *)
(* terminal error.                                                         *)
THEOREM BothEnginesImplementClientLink == Spec => ImplementsClientLink
<1>1. Init => LinkInv /\ Contract!Init
  BY InitLink
<1>2. LinkInv /\ [Next]_vars => LinkInv' /\ [Contract!Next]_(Contract!contract)
  BY NextLink
<1> QED BY <1>1, <1>2, PTL DEF Spec, ImplementsClientLink, Contract!Spec

(* maximumGnetOutboundBytes, computed from the limits alone, is a bound on *)
(* what the gnet engine has handed to the connection and the socket has    *)
(* not taken, for all limits and overheads: observeOwnerOutbound never ends *)
(* a link for exceeding it.                                                *)
THEOREM OutboundCeilingHolds == Spec => []OutboundFits
<1>1. Init => LinkInv
  BY InitLink
<1>2. LinkInv /\ [Next]_vars => LinkInv'
  BY NextLink
<1>3. LinkInv => OutboundFits
  <2> SUFFICES ASSUME LinkInv, k.kind = "gnet"
               PROVE  k.err # "outbound" /\ ~Overflows(k)
    BY DEF OutboundFits
  <2>1. GnetState
    BY DEF LinkInv
  <2> QED BY <2>1 DEF GnetState, GnetInv, Lives
<1> QED BY <1>1, <1>2, <1>3, PTL DEF Spec
===============================================================================
