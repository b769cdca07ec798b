------------------------------ MODULE Data_proofs ------------------------------
(***************************************************************************)
(* Laws of the data the models are built from, proved once.                *)
(*                                                                         *)
(* SumOf: a sum is a natural number, changes with the value of one holder  *)
(* by as much, is zero when nobody holds anything, and is bounded by the   *)
(* holders' limits.  Excluding: a queue without some elements has exactly  *)
(* the others, in the order they had, and distributes over concatenation.  *)
(* Its recursion is reasoned about through the least element of a set of   *)
(* naturals.                                                               *)
(* Elements, Thinned, Occurrences: what is in a queue, one queue as        *)
(* another with items left out, and how often an element occurs in one.    *)
(***************************************************************************)
EXTENDS UnitSums, Queues, FiniteSetTheorems, WellFoundedInduction, TLAPS

(* What holder x has, as units.                                            *)
Held(x, n) == {x} \X (1..n)

(* One holder holds as many units as its value says.                       *)
LEMMA HeldCount ==
  ASSUME NEW x, NEW n \in Nat
  PROVE  IsFiniteSet(Held(x, n)) /\ Cardinality(Held(x, n)) = n
<1>1. IsFiniteSet({x}) /\ Cardinality({x}) = 1
  BY FS_Singleton
<1>2. IsFiniteSet(1..n) /\ Cardinality(1..n) = n
  BY FS_Interval
<1>3. /\ IsFiniteSet({x} \X (1..n))
      /\ Cardinality({x} \X (1..n)) = Cardinality({x}) * Cardinality(1..n)
  BY <1>1, <1>2, FS_Product
<1> QED
  BY <1>1, <1>2, <1>3 DEF Held

(* The units of everybody but x do not depend on the value of x.           *)
LEMMA UnitsUpdate ==
  ASSUME NEW S, NEW g \in [S -> Nat], NEW h \in [S -> Nat], NEW x \in S,
         \A y \in S \ {x} : h[y] = g[y]
  PROVE  Units(h) = (Units(g) \ Held(x, g[x])) \cup Held(x, h[x])
<1>2. \A u : u \in Units(g) <=> \E y \in S : u \in {y} \X (1..g[y])
  BY DEF Units
<1>3. \A u : u \in Units(h) <=> \E y \in S : u \in {y} \X (1..h[y])
  BY DEF Units
<1>4. \A y, z, a, b, u : u \in {y} \X a /\ u \in {z} \X b => y = z
  OBVIOUS
<1>5. ASSUME NEW u
      PROVE  u \in Units(h)
               <=> u \in (Units(g) \ Held(x, g[x])) \cup Held(x, h[x])
  <2>1. CASE \E y \in S \ {x} : u \in {y} \X (1..g[y])
    BY <1>2, <1>3, <1>4, <2>1 DEF Held
  <2>2. CASE ~\E y \in S \ {x} : u \in {y} \X (1..g[y])
    BY <1>2, <1>3, <2>2 DEF Held
  <2> QED
    BY <2>1, <2>2
<1> QED
  BY <1>5

(* Finitely many holders hold finitely many units.                         *)
LEMMA UnitsFinite ==
  ASSUME NEW S, IsFiniteSet(S), NEW g \in [S -> Nat]
  PROVE  IsFiniteSet(Units(g)) /\ SumOf(g) \in Nat
<1> DEFINE F == [x \in S |-> Held(x, g[x])]
           T == {Held(x, g[x]) : x \in S}
<1>1. F \in Surjection(S, T)
  BY DEF Surjection
<1>2. IsFiniteSet(T)
  BY <1>1, FS_Surjection
<1>3. \A t \in T : IsFiniteSet(t)
  BY HeldCount
<1>4. IsFiniteSet(UNION T)
  BY <1>2, <1>3, FS_UNION
<1>5. Units(g) = UNION T
  BY DEF Units, Held
<1> QED
  BY <1>4, <1>5, FS_CardinalityType DEF SumOf

(* A sum follows the value of one holder.                                  *)
LEMMA SumUpdate ==
  ASSUME NEW S, IsFiniteSet(S), NEW g \in [S -> Nat], NEW h \in [S -> Nat],
         NEW x \in S, \A y \in S \ {x} : h[y] = g[y]
  PROVE  /\ SumOf(h) = SumOf(g) - g[x] + h[x]
         /\ g[x] <= SumOf(g)
<1> DEFINE n == h[x]
           U == Units(g)
           H == Held(x, g[x])
           N == Held(x, n)
<1>0. n \in Nat
  OBVIOUS
<1>1. IsFiniteSet(U) /\ Cardinality(U) \in Nat
  BY UnitsFinite, FS_CardinalityType
<1>2. /\ IsFiniteSet(H) /\ Cardinality(H) = g[x]
      /\ IsFiniteSet(N) /\ Cardinality(N) = n
  BY HeldCount
<1>3. H \subseteq U
  BY DEF Units, Held
<1>4. U \cap H = H
  BY <1>3
<1>5. /\ IsFiniteSet(U \ H)
      /\ Cardinality(U \ H) = Cardinality(U) - g[x]
  <2> HIDE DEF n, U, H, N
  <2>1. /\ IsFiniteSet(U \ H)
        /\ Cardinality(U \ H) = Cardinality(U) - Cardinality(U \cap H)
    BY <1>1, FS_Difference
  <2> QED
    BY <1>2, <1>4, <2>1
<1>6. (U \ H) \cap N = {}
  <2>1. \A u : u \in U => \E y \in S : u \in {y} \X (1..g[y])
    BY DEF Units
  <2>2. \A y, z, a, b, u : u \in {y} \X a /\ u \in {z} \X b => y = z
    OBVIOUS
  <2> QED
    BY <2>1, <2>2 DEF Held
<1>7. Cardinality((U \ H) \cup N) = Cardinality(U) - g[x] + n
  <2>1. Cardinality((U \ H) \cap N) = 0
    BY <1>6, FS_EmptySet
  <2> DEFINE R == U \ H
  <2>2. IsFiniteSet(R) /\ Cardinality(R) = Cardinality(U) - g[x]
    BY <1>5
  <2>3. Cardinality(R \cap N) = 0
    BY <2>1
  <2> HIDE DEF n, U, H, N, R
  <2>4. Cardinality(R \cup N) = Cardinality(R) + Cardinality(N)
                                - Cardinality(R \cap N)
    BY <2>2, <1>2, FS_Union
  <2>5. Cardinality(R \cup N) = Cardinality(U) - g[x] + n
    BY <2>2, <2>3, <2>4, <1>1, <1>2, <1>0
  <2> QED
    BY <2>5 DEF R
<1>8. g[x] <= Cardinality(U)
  BY <1>1, <1>2, <1>3, FS_Subset
<1>9. Units(h) = (U \ H) \cup N
  BY UnitsUpdate
<1> QED
  BY <1>7, <1>8, <1>9 DEF SumOf

(* Nobody holds anything.                                                  *)
LEMMA SumZero ==
  ASSUME NEW S, IsFiniteSet(S), NEW g \in [S -> Nat]
  PROVE  SumOf(g) = 0 <=> \A x \in S : g[x] = 0
<1>1. IsFiniteSet(Units(g))
  BY UnitsFinite
<1>2. SumOf(g) = 0 <=> Units(g) = {}
  BY <1>1, FS_EmptySet DEF SumOf
<1>3. ASSUME NEW x \in S, g[x] # 0
      PROVE  <<x, 1>> \in Units(g)
  <2>1. 1 \in 1..g[x]
    BY <1>3
  <2> QED
    BY <2>1 DEF Units
<1>4. ASSUME \A x \in S : g[x] = 0
      PROVE  Units(g) = {}
  <2>1. \A x \in S : 1..g[x] = {}
    BY <1>4
  <2> QED
    BY <2>1 DEF Units
<1> QED
  BY <1>2, <1>3, <1>4

(* Holders of at most k units each hold at most k times as many, and fewer *)
(* when one of them is below its limit.                                    *)
LEMMA SumBound ==
  ASSUME NEW S, IsFiniteSet(S), NEW g \in [S -> Nat], NEW k \in Nat,
         NEW O \in SUBSET S,
         \A x \in S : g[x] <= k, \A x \in S \ O : g[x] = 0
  PROVE  /\ SumOf(g) <= Cardinality(O) * k
         /\ \A x \in O : g[x] < k => SumOf(g) < Cardinality(O) * k
<1> DEFINE P == O \X (1..k)
<1>1. IsFiniteSet(O) /\ Cardinality(O) \in Nat
  BY FS_Subset, FS_CardinalityType
<1>2. IsFiniteSet(1..k) /\ Cardinality(1..k) = k
  BY FS_Interval
<1>3. IsFiniteSet(P) /\ Cardinality(P) = Cardinality(O) * k
  BY <1>1, <1>2, FS_Product
<1>4. Units(g) \subseteq P
  <2>1. SUFFICES ASSUME NEW x \in S, NEW i \in 1..g[x]
                 PROVE  <<x, i>> \in P
    BY DEF Units
  <2>2. g[x] # 0 /\ i \in 1..k
    BY <2>1
  <2> QED
    BY <2>2
<1>5. SumOf(g) <= Cardinality(P) /\ (SumOf(g) = Cardinality(P) => Units(g) = P)
  BY <1>3, <1>4, FS_Subset DEF SumOf
<1>6. ASSUME NEW x \in O, g[x] < k
      PROVE  Units(g) # P
  <2>1. <<x, k>> \in P
    BY <1>6
  <2>2. ASSUME NEW y \in S, <<x, k>> \in {y} \X (1..g[y])
        PROVE  FALSE
    BY <1>6, <2>2
  <2> QED
    BY <2>1, <2>2 DEF Units
<1>7. SumOf(g) \in Nat
  BY UnitsFinite
<1>8. Cardinality(O) * k \in Nat
  BY <1>1
<1> HIDE DEF P
<1> QED
  BY <1>3, <1>5, <1>6, <1>7, <1>8

-----------------------------------------------------------------------------
(* Induction, for a set of natural numbers.                                *)
LEMMA SetInduction ==
  ASSUME NEW S, 0 \in S, \A n \in Nat : n \in S => n + 1 \in S
  PROVE  Nat \subseteq S
<1> SUFFICES ASSUME Nat \ S # {} PROVE FALSE
  OBVIOUS
<1> DEFINE T == Nat \ S
           R == OpToRel(<, Nat)
<1>1. \A x, y \in Nat : x < y => <<x, y>> \in R
  BY DEF OpToRel
<1>2. IsWellFoundedOn(R, Nat)
  BY NatLessThanWellFounded
<1> HIDE DEF R
<1>3. PICK x \in T : \A y \in T : ~(<<y, x>> \in R)
  BY <1>2, WFMin
<1>4. x # 0 /\ x - 1 \in Nat /\ x - 1 < x /\ x = (x - 1) + 1
  BY <1>3
<1>5. x - 1 \in S
  BY <1>1, <1>3, <1>4
<1> QED
  BY <1>3, <1>4, <1>5

(* The recursion of Excluding, up to n.                                    *)
Keeps(f, q, S, n) ==
  f = [i \in 0..n |-> IF i = 0 THEN <<>>
                      ELSE IF q[i] \in S THEN f[i - 1]
                      ELSE Append(f[i - 1], q[i])]

LEMMA KeepsExists ==
  ASSUME NEW q, NEW S, NEW n \in Nat
  PROVE  \E f : Keeps(f, q, S, n)
<1> DEFINE G == {k \in Nat : \E f : Keeps(f, q, S, k)}
<1>1. 0 \in G
  <2>1. Keeps([i \in 0..0 |-> <<>>], q, S, 0)
    BY DEF Keeps
  <2> QED
    BY <2>1
<1>2. ASSUME NEW k \in Nat, k \in G
      PROVE  k + 1 \in G
  <2>1. PICK f : Keeps(f, q, S, k)
    BY <1>2
  <2> DEFINE v == IF q[k + 1] \in S THEN f[k] ELSE Append(f[k], q[k + 1])
             h == [i \in 0..k + 1 |-> IF i = k + 1 THEN v ELSE f[i]]
  <2>2. \A i \in 0..k : h[i] = f[i]
    OBVIOUS
  <2>3. ASSUME NEW i \in 0..k + 1
        PROVE  h[i] = IF i = 0 THEN <<>>
                      ELSE IF q[i] \in S THEN h[i - 1]
                      ELSE Append(h[i - 1], q[i])
    <3>1. CASE i = k + 1
      BY <2>2, <3>1
    <3>2. CASE i # k + 1
      <4>1. i \in 0..k /\ (i # 0 => i - 1 \in 0..k)
        BY <3>2
      <4>2. f[i] = IF i = 0 THEN <<>> ELSE IF q[i] \in S THEN f[i - 1]
                   ELSE Append(f[i - 1], q[i])
        BY <2>1, <4>1 DEF Keeps
      <4> QED
        BY <2>2, <4>1, <4>2
    <3> QED
      BY <3>1, <3>2
  <2>4. Keeps(h, q, S, k + 1)
    <3>1. h = [i \in 0..k + 1 |-> h[i]]
      OBVIOUS
    <3> HIDE DEF h
    <3> QED
      BY <2>3, <3>1 DEF Keeps
  <2> HIDE DEF h
  <2> QED
    BY <2>4
<1> HIDE DEF G
<1>3. Nat \subseteq G
  BY <1>1, <1>2, SetInduction
<1> QED
  BY <1>3 DEF G

(* Excluding(q, S) is a sequence of exactly the elements of q not in S.    *)
LEMMA ExcludingLaw ==
  ASSUME NEW E, NEW q \in Seq(E), NEW S
  PROVE  /\ Excluding(q, S) \in Seq(E)
         /\ Elements(Excluding(q, S)) = Elements(q) \ S
<1> DEFINE n == Len(q)
           f == CHOOSE g : Keeps(g, q, S, n)
<1>1. n \in Nat
  OBVIOUS
<1>2. Keeps(f, q, S, n)
  BY <1>1, KeepsExists
<1>3. Excluding(q, S) = f[n]
  BY DEF Excluding, Keeps
<1> HIDE DEF f
<1>4. /\ f[0] = <<>>
      /\ \A i \in 1..n : f[i] = IF q[i] \in S THEN f[i - 1]
                                ELSE Append(f[i - 1], q[i])
  <2>1. \A i \in 0..n : f[i] = IF i = 0 THEN <<>>
                               ELSE IF q[i] \in S THEN f[i - 1]
                               ELSE Append(f[i - 1], q[i])
    <3> SUFFICES ASSUME NEW i \in 0..n
                 PROVE  f[i] = IF i = 0 THEN <<>>
                               ELSE IF q[i] \in S THEN f[i - 1]
                               ELSE Append(f[i - 1], q[i])
      OBVIOUS
    <3> QED
      BY <1>2 DEF Keeps
  <2>2. 0 \in 0..n /\ \A i \in 1..n : i \in 0..n /\ i # 0
    BY <1>1
  <2> QED
    BY <2>1, <2>2
<1> DEFINE Sound(i) == /\ f[i] \in Seq(E)
                       /\ Elements(f[i]) = {q[j] : j \in 1..i} \ S
           G == {i \in Nat : i <= n => Sound(i)}
<1>5. 0 \in G
  <2>1. 1..0 = {} /\ Len(<<>>) = 0 /\ <<>> \in Seq(E)
    OBVIOUS
  <2>2. Elements(<<>>) = {}
    BY <2>1 DEF Elements
  <2>3. Sound(0)
    BY <1>4, <2>1, <2>2
  <2> QED
    BY <2>3
<1>6. ASSUME NEW i \in Nat, i \in G, i + 1 <= n
      PROVE  Sound(i + 1)
  <2>1. /\ Sound(i) /\ i + 1 \in 1..n /\ (i + 1) - 1 = i
        /\ q[i + 1] \in E
    BY <1>1, <1>6
  <2>2. f[i + 1] = IF q[i + 1] \in S THEN f[i] ELSE Append(f[i], q[i + 1])
    BY <1>4, <2>1
  <2>3. {q[j] : j \in 1..i + 1} = {q[j] : j \in 1..i} \cup {q[i + 1]}
    <3>1. 1..i + 1 = (1..i) \cup {i + 1}
      OBVIOUS
    <3> QED
      BY <3>1
  <2>4. ASSUME NEW s \in Seq(E), NEW e \in E
        PROVE  Elements(Append(s, e)) = Elements(s) \cup {e}
    <3>1. /\ Len(Append(s, e)) = Len(s) + 1 /\ Len(s) \in Nat
          /\ \A j \in 1..Len(s) : Append(s, e)[j] = s[j]
          /\ Append(s, e)[Len(s) + 1] = e
      OBVIOUS
    <3>2. 1..Len(s) + 1 = (1..Len(s)) \cup {Len(s) + 1}
      BY <3>1
    <3> QED
      BY <3>1, <3>2 DEF Elements
  <2>5. CASE q[i + 1] \in S
    BY <2>1, <2>2, <2>3, <2>5
  <2>6. CASE q[i + 1] \notin S
    <3>1. f[i + 1] \in Seq(E)
      BY <2>1, <2>2, <2>6
    <3>2. Elements(f[i + 1]) = Elements(f[i]) \cup {q[i + 1]}
      BY <2>1, <2>2, <2>4, <2>6
    <3> QED
      BY <2>1, <2>3, <2>6, <3>1, <3>2
  <2> QED
    BY <2>5, <2>6
<1>7. ASSUME NEW i \in Nat, i \in G
      PROVE  i + 1 \in G
  <2>1. i + 1 <= n => Sound(i + 1)
    BY <1>6, <1>7
  <2> HIDE DEF Sound
  <2> QED
    BY <2>1
<1> HIDE DEF G
<1>8. Nat \subseteq G
  BY <1>5, <1>7, SetInduction
<1>9. Sound(n)
  <2>1. n \in G /\ n <= n
    BY <1>1, <1>8
  <2> HIDE DEF Sound, n
  <2> QED
    BY <2>1 DEF G
<1> QED
  BY <1>3, <1>9 DEF Elements

(* A set of naturals that is not empty has a least element.                *)
LEMMA LeastElement ==
  ASSUME NEW S, S \subseteq Nat, S # {}
  PROVE  \E m \in S : \A y \in S : m <= y
<1> DEFINE G == {n \in Nat : \A y \in S : n <= y}
<1>1. 0 \in G
  OBVIOUS
<1>2. PICK n \in Nat : n \in G /\ n + 1 \notin G
  <2> SUFFICES ASSUME \A n \in Nat : n \in G => n + 1 \in G PROVE FALSE
    OBVIOUS
  <2> HIDE DEF G
  <2>1. Nat \subseteq G
    BY <1>1, SetInduction
  <2>2. PICK y \in S : y \in Nat
    OBVIOUS
  <2>3. y + 1 \in G /\ y + 1 \in Nat
    BY <2>1, <2>2
  <2> QED
    BY <2>2, <2>3 DEF G
<1>3. \A y \in S : n <= y
  BY <1>2
<1>4. PICK y \in S : ~(n + 1 <= y)
  BY <1>2
<1>5. y \in Nat /\ n <= y /\ ~(n + 1 <= y)
  BY <1>3, <1>4
<1>6. y = n
  BY <1>5
<1> QED
  BY <1>3, <1>6

-----------------------------------------------------------------------------
(* Sequences of numbers: the sum of the first n.                           *)
Upto(q, n) == SumOf([i \in 1..n |-> q[i]])

LEMMA UptoStep ==
  ASSUME NEW q, NEW n \in Nat, \A i \in 1..n + 1 : q[i] \in Nat
  PROVE  Upto(q, n + 1) = Upto(q, n) + q[n + 1] /\ Upto(q, n) \in Nat
<1> DEFINE S == 1..n + 1
           f == [i \in 1..n |-> q[i]]
           g == [i \in S |-> q[i]]
           h == [i \in S |-> IF i = n + 1 THEN 0 ELSE q[i]]
<1>1. IsFiniteSet(S) /\ IsFiniteSet(1..n)
  BY FS_Interval
<1>2. f \in [1..n -> Nat] /\ g \in [S -> Nat] /\ h \in [S -> Nat]
  OBVIOUS
<1>3. n + 1 \in S /\ h[n + 1] = 0 /\ g[n + 1] = q[n + 1]
      /\ \A i \in S \ {n + 1} : g[i] = h[i]
  OBVIOUS
<1>4. Units(h) = Units(f)
  <2>1. \A u : u \in Units(h) <=> \E i \in S : u \in {i} \X (1..h[i])
    BY DEF Units
  <2>2. \A u : u \in Units(f) <=> \E i \in 1..n : u \in {i} \X (1..f[i])
    BY DEF Units
  <2>3. \A i \in S : i \in 1..n \/ i = n + 1
    OBVIOUS
  <2>4. 1..n \subseteq S /\ \A i \in 1..n : h[i] = f[i]
    OBVIOUS
  <2>5. 1..h[n + 1] = {}
    OBVIOUS
  <2>6. ASSUME NEW u, NEW i \in S, u \in {i} \X (1..h[i]) PROVE u \in Units(f)
    <3>1. i # n + 1
      BY <2>5, <2>6
    <3> QED BY <2>2, <2>3, <2>4, <2>6, <3>1
  <2>7. ASSUME NEW u, u \in Units(f) PROVE u \in Units(h)
    BY <2>1, <2>2, <2>4, <2>7
  <2> HIDE DEF S, f, h
  <2> QED BY <2>1, <2>6, <2>7
<1>5. SumOf(f) \in Nat
  BY <1>1, <1>2, UnitsFinite
<1> HIDE DEF S, f, g, h
<1>6. SumOf(g) = SumOf(h) - h[n + 1] + g[n + 1]
  BY <1>1, <1>2, <1>3, SumUpdate
<1>7. SumOf(h) = SumOf(f)
  BY <1>4 DEF SumOf
<1>8. Upto(q, n + 1) = SumOf(g) /\ Upto(q, n) = SumOf(f)
  BY DEF Upto, f, g, S
<1>9. q[n + 1] \in Nat
  BY <1>2, <1>3
<1> QED BY <1>3, <1>5, <1>6, <1>7, <1>8, <1>9

LEMMA UptoZero ==
  ASSUME NEW q
  PROVE  Upto(q, 0) = 0
<1> DEFINE f == [i \in 1..0 |-> q[i]]
<1>1. IsFiniteSet(1..0) /\ f \in [1..0 -> Nat] /\ \A x \in 1..0 : f[x] = 0
  BY FS_Interval
<1> HIDE DEF f
<1>2. SumOf(f) = 0
  BY <1>1, SumZero
<1> QED BY <1>2 DEF Upto, f

(* The sum of a stretch of f that is g.                                    *)
Stretch(f, g, m, n, s) ==
  /\ m \in Nat /\ n \in Nat /\ s = m + n
  /\ \A i \in 1..s : f[i] \in Nat
  /\ \A i \in 1..n : g[i] = f[m + i]

LEMMA UptoShift ==
  ASSUME NEW f, NEW g, NEW m, NEW n, NEW s, Stretch(f, g, m, n, s)
  PROVE  /\ Upto(f, s) = Upto(f, m) + Upto(g, n)
         /\ Upto(f, m) \in Nat /\ Upto(g, n) \in Nat /\ Upto(f, s) \in Nat
<1> USE DEF Stretch
<1> DEFINE P(i) == /\ Upto(f, m + i) = Upto(f, m) + Upto(g, i)
                   /\ Upto(g, i) \in Nat
           G == {i \in Nat : i <= n => P(i)}
<1>1. Upto(f, m) \in Nat
  <2>1. CASE m = 0
    BY <2>1, UptoZero
  <2>2. CASE m # 0
    <3>1. m - 1 \in Nat /\ (m - 1) + 1 = m /\ \A i \in 1..(m - 1) + 1 : f[i] \in Nat
      BY <2>2
    <3>2. f[(m - 1) + 1] \in Nat
      BY <3>1
    <3>3. Upto(f, (m - 1) + 1) = Upto(f, m - 1) + f[(m - 1) + 1] /\ Upto(f, m - 1) \in Nat
      BY <3>1, UptoStep
    <3>4. Upto(f, (m - 1) + 1) = Upto(f, m)
      BY <3>1
    <3> QED BY <3>2, <3>3, <3>4
  <2> QED BY <2>1, <2>2
<1>2. 0 \in G
  BY <1>1, UptoZero
<1>3. ASSUME NEW i \in Nat, i \in G, i + 1 <= n
      PROVE  P(i + 1)
  <2>1. P(i) /\ m + (i + 1) = (m + i) + 1 /\ m + i \in Nat
    BY <1>3
  <2>2. g[i + 1] = f[m + (i + 1)] /\ g[i + 1] \in Nat
    BY <1>3
  <2>3. \A j \in 1..i + 1 : g[j] \in Nat
    BY <1>3
  <2>4. \A j \in 1..(m + i) + 1 : f[j] \in Nat
    BY <1>3
  <2>5. Upto(g, i + 1) = Upto(g, i) + g[i + 1]
    BY <2>3, UptoStep
  <2>6. Upto(f, (m + i) + 1) = Upto(f, m + i) + f[(m + i) + 1]
    BY <2>1, <2>4, UptoStep
  <2> QED BY <1>1, <2>1, <2>2, <2>5, <2>6
<1>4. ASSUME NEW i \in Nat, i \in G PROVE i + 1 \in G
  <2>1. i + 1 <= n => P(i + 1)
    BY <1>3, <1>4
  <2> HIDE DEF P
  <2> QED BY <2>1
<1> HIDE DEF G
<1>5. Nat \subseteq G
  BY <1>2, <1>4, SetInduction
<1>6. P(n)
  <2> HIDE DEF P
  <2> QED BY <1>5 DEF G
<1> QED BY <1>1, <1>6

(* What the first n elements determine, and the sum of fewer of them.      *)
LEMMA UptoSame ==
  ASSUME NEW f, NEW g, NEW n \in Nat, \A i \in 1..n : f[i] \in Nat /\ g[i] = f[i]
  PROVE  Upto(f, n) = Upto(g, n) /\ Upto(f, n) \in Nat
<1>1. [i \in 1..n |-> f[i]] = [i \in 1..n |-> g[i]]
  OBVIOUS
<1>2. Stretch(f, f, 0, n, n)
  BY DEF Stretch
<1>3. Upto(f, n) \in Nat
  BY <1>2, UptoShift
<1> QED BY <1>1, <1>3 DEF Upto

LEMMA UptoLess ==
  ASSUME NEW f, NEW m \in Nat, NEW n \in Nat, m <= n, \A i \in 1..n : f[i] \in Nat
  PROVE  Upto(f, m) <= Upto(f, n) /\ Upto(f, m) \in Nat /\ Upto(f, n) \in Nat
<1>1. PICK d \in Nat : n = m + d
  <2>1. n - m \in Nat /\ n = m + (n - m)
    OBVIOUS
  <2> QED BY <2>1
<1>2. PICK g : \A i \in 1..d : g[i] = f[m + i]
  <2>1. \A i \in 1..d : [j \in 1..d |-> f[m + j]][i] = f[m + i]
    OBVIOUS
  <2> QED BY <2>1
<1>3. Stretch(f, g, m, d, n)
  BY <1>1, <1>2 DEF Stretch
<1>4. /\ Upto(f, n) = Upto(f, m) + Upto(g, d)
      /\ Upto(f, m) \in Nat /\ Upto(g, d) \in Nat /\ Upto(f, n) \in Nat
  BY <1>3, UptoShift
<1> QED BY <1>4

(* Smaller elements have a smaller sum.                                    *)
LEMMA UptoMonotone ==
  ASSUME NEW f, NEW g, NEW n \in Nat,
         \A i \in 1..n : f[i] \in Nat /\ g[i] \in Nat /\ f[i] <= g[i]
  PROVE  Upto(f, n) <= Upto(g, n)
<1> DEFINE P(i) == /\ Upto(f, i) <= Upto(g, i)
                   /\ Upto(f, i) \in Nat /\ Upto(g, i) \in Nat
           G == {i \in Nat : i <= n => P(i)}
<1>1. 0 \in G
  BY UptoZero
<1>2. ASSUME NEW i \in Nat, i \in G PROVE i + 1 \in G
  <2> SUFFICES ASSUME i + 1 <= n PROVE P(i + 1)
    OBVIOUS
  <2>1. P(i) /\ f[i + 1] \in Nat /\ g[i + 1] \in Nat /\ f[i + 1] <= g[i + 1]
    BY <1>2
  <2>2. \A j \in 1..i + 1 : f[j] \in Nat /\ g[j] \in Nat
    OBVIOUS
  <2>3. /\ Upto(f, i + 1) = Upto(f, i) + f[i + 1]
        /\ Upto(g, i + 1) = Upto(g, i) + g[i + 1]
    BY <2>2, UptoStep
  <2> QED BY <2>1, <2>3
<1> HIDE DEF G
<1>3. Nat \subseteq G
  BY <1>1, <1>2, SetInduction
<1>4. P(n)
  <2> HIDE DEF P
  <2> QED BY <1>3 DEF G
<1> QED BY <1>4

(* A sequence is all of its elements.                                      *)
LEMMA SumIsUpto ==
  ASSUME NEW q \in Seq(Nat)
  PROVE  SumOf(q) = Upto(q, Len(q)) /\ SumOf(q) \in Nat
<1>1. q = [i \in 1..Len(q) |-> q[i]] /\ Len(q) \in Nat
  OBVIOUS
<1>2. Upto(q, Len(q)) \in Nat
  BY <1>1, UptoSame
<1> QED BY <1>1, <1>2 DEF Upto

(* The order Excluding keeps: its elements are those of q at the positions *)
(* h[1] < h[2] < ..., which are all the positions q has outside S.         *)
IsSelection(h, r, q, S, n) ==
  /\ h \in [1..Len(r) -> {j \in 1..n : q[j] \notin S}]
  /\ \A i, j \in 1..Len(r) : i < j => h[i] < h[j]
  /\ \A j \in 1..n : q[j] \notin S => \E i \in 1..Len(r) : h[i] = j
  /\ \A i \in 1..Len(r) : r[i] = q[h[i]]

(* The recursion of Excluding.                                             *)
LEMMA ExcludingSteps ==
  ASSUME NEW E, NEW q \in Seq(E), NEW S
  PROVE  \E f : /\ f[0] = <<>>
                /\ \A i \in 1..Len(q) :
                     f[i] = IF q[i] \in S THEN f[i - 1]
                            ELSE Append(f[i - 1], q[i])
                /\ Excluding(q, S) = f[Len(q)]
<1> DEFINE n == Len(q)
           f == CHOOSE g : Keeps(g, q, S, n)
<1>1. n \in Nat
  OBVIOUS
<1>2. Keeps(f, q, S, n)
  BY <1>1, KeepsExists
<1>3. Excluding(q, S) = f[n]
  BY DEF Excluding, Keeps
<1> HIDE DEF f
<1>4. \A i \in 0..n : f[i] = IF i = 0 THEN <<>>
                             ELSE IF q[i] \in S THEN f[i - 1]
                             ELSE Append(f[i - 1], q[i])
  <2> SUFFICES ASSUME NEW i \in 0..n
               PROVE  f[i] = IF i = 0 THEN <<>>
                             ELSE IF q[i] \in S THEN f[i - 1]
                             ELSE Append(f[i - 1], q[i])
    OBVIOUS
  <2> QED
    BY <1>2 DEF Keeps
<1>5. 0 \in 0..n /\ \A i \in 1..n : i \in 0..n /\ i # 0
  BY <1>1
<1> QED
  BY <1>3, <1>4, <1>5

(* One more element of q, when it is not kept.                             *)
LEMMA SelectionSkip ==
  ASSUME NEW h, NEW r, NEW q, NEW S, NEW n \in Nat, IsSelection(h, r, q, S, n),
         q[n + 1] \in S
  PROVE  IsSelection(h, r, q, S, n + 1)
<1>1. 1..(n + 1) = (1..n) \cup {n + 1}
  OBVIOUS
<1>2. {j \in 1..(n + 1) : q[j] \notin S} = {j \in 1..n : q[j] \notin S}
  BY <1>1
<1> QED
  BY <1>1, <1>2 DEF IsSelection

(* One more element of q, when it is kept.                                 *)
LEMMA SelectionAdd ==
  ASSUME NEW E, NEW h, NEW r \in Seq(E), NEW q, NEW S, NEW n \in Nat,
         IsSelection(h, r, q, S, n), q[n + 1] \notin S, q[n + 1] \in E
  PROVE  \E k : IsSelection(k, Append(r, q[n + 1]), q, S, n + 1)
<1> DEFINE l == Len(r)
           x == q[n + 1]
           t == Append(r, x)
           k == [i \in 1..(l + 1) |-> IF i = l + 1 THEN n + 1 ELSE h[i]]
<1>1. l \in Nat
  OBVIOUS
<1>2. /\ Len(t) = l + 1 /\ t[l + 1] = x
      /\ \A i \in 1..l : t[i] = r[i]
  OBVIOUS
<1>3. 1..(n + 1) = (1..n) \cup {n + 1} /\ 1..(l + 1) = (1..l) \cup {l + 1}
  BY <1>1
<1>4. /\ k[l + 1] = n + 1
      /\ \A i \in 1..l : i # l + 1 /\ k[i] = h[i]
  BY <1>1, <1>3
<1>5. \A i \in 1..l : h[i] \in 1..n /\ q[h[i]] \notin S
  BY DEF IsSelection
<1>6. k = [i \in 1..(l + 1) |-> k[i]]
  OBVIOUS
<1> HIDE DEF k, t
<1>7. k \in [1..(l + 1) -> {j \in 1..(n + 1) : q[j] \notin S}]
  <2>1. \A i \in 1..(l + 1) : k[i] \in {j \in 1..(n + 1) : q[j] \notin S}
    BY <1>3, <1>4, <1>5
  <2> QED
    BY <1>6, <2>1
<1>8. \A i, j \in 1..(l + 1) : i < j => k[i] < k[j]
  <2> SUFFICES ASSUME NEW i \in 1..(l + 1), NEW j \in 1..(l + 1), i < j
               PROVE  k[i] < k[j]
    OBVIOUS
  <2>1. i \in 1..l
    BY <1>1
  <2>2. CASE j = l + 1
    BY <1>4, <1>5, <2>1, <2>2
  <2>3. CASE j \in 1..l
    BY <1>4, <2>1, <2>3 DEF IsSelection
  <2> QED
    BY <1>3, <2>2, <2>3
<1>9. \A j \in 1..(n + 1) : q[j] \notin S => \E i \in 1..(l + 1) : k[i] = j
  <2> SUFFICES ASSUME NEW j \in 1..(n + 1), q[j] \notin S
               PROVE  \E i \in 1..(l + 1) : k[i] = j
    OBVIOUS
  <2>1. CASE j = n + 1
    BY <1>1, <1>4, <2>1
  <2>2. CASE j \in 1..n
    <3>1. PICK i \in 1..l : h[i] = j
      BY <2>2 DEF IsSelection
    <3> QED
      BY <1>3, <1>4, <3>1
  <2> QED
    BY <1>3, <2>1, <2>2
<1>10. \A i \in 1..(l + 1) : t[i] = q[k[i]]
  BY <1>2, <1>3, <1>4 DEF IsSelection
<1>11. IsSelection(k, t, q, S, n + 1)
  BY <1>2, <1>7, <1>8, <1>9, <1>10 DEF IsSelection
<1> QED
  BY <1>11 DEF t

(* Excluding keeps the order of the queue.                                 *)
LEMMA ExcludingOrder ==
  ASSUME NEW E, NEW q \in Seq(E), NEW S
  PROVE  \E h : IsSelection(h, Excluding(q, S), q, S, Len(q))
<1> DEFINE n == Len(q)
<1>1. n \in Nat
  OBVIOUS
<1>2. PICK f : /\ f[0] = <<>>
               /\ \A i \in 1..n : f[i] = IF q[i] \in S THEN f[i - 1]
                                         ELSE Append(f[i - 1], q[i])
               /\ Excluding(q, S) = f[n]
  BY ExcludingSteps
<1> DEFINE Sound(i) == /\ f[i] \in Seq(E)
                       /\ \E h : IsSelection(h, f[i], q, S, i)
           G == {i \in Nat : i <= n => Sound(i)}
<1>3. Sound(0)
  <2>1. 1..0 = {} /\ Len(<<>>) = 0 /\ <<>> \in Seq(E)
    OBVIOUS
  <2>2. IsSelection(<<>>, <<>>, q, S, 0)
    <3>1. <<>> \in [1..0 -> {j \in 1..0 : q[j] \notin S}]
      OBVIOUS
    <3> QED
      BY <2>1, <3>1 DEF IsSelection
  <2> QED
    BY <1>2, <2>1, <2>2
<1>4. ASSUME NEW i \in Nat, i \in G, i + 1 <= n
      PROVE  Sound(i + 1)
  <2>1. /\ Sound(i) /\ i + 1 \in 1..n /\ (i + 1) - 1 = i
        /\ q[i + 1] \in E
    BY <1>1, <1>4
  <2>2. f[i + 1] = IF q[i + 1] \in S THEN f[i] ELSE Append(f[i], q[i + 1])
    BY <1>2, <2>1
  <2>3. PICK h : IsSelection(h, f[i], q, S, i)
    BY <2>1
  <2>4. CASE q[i + 1] \in S
    <3>1. IsSelection(h, f[i], q, S, i + 1)
      BY <2>3, <2>4, SelectionSkip
    <3> QED
      BY <2>1, <2>2, <2>4, <3>1
  <2>5. CASE q[i + 1] \notin S
    <3>1. f[i] \in Seq(E)
      BY <2>1
    <3>2. \E k : IsSelection(k, Append(f[i], q[i + 1]), q, S, i + 1)
      BY <2>1, <2>3, <2>5, <3>1, SelectionAdd
    <3> QED
      BY <2>1, <2>2, <2>5, <3>1, <3>2
  <2> QED
    BY <2>4, <2>5
<1>5. 0 \in G
  BY <1>3
<1>6. ASSUME NEW i \in Nat, i \in G
      PROVE  i + 1 \in G
  <2>1. i + 1 <= n => Sound(i + 1)
    BY <1>4, <1>6
  <2> HIDE DEF Sound
  <2> QED
    BY <2>1
<1> HIDE DEF G
<1>7. Nat \subseteq G
  BY <1>5, <1>6, SetInduction
<1>8. Sound(n)
  <2>1. n \in G /\ n <= n
    BY <1>1, <1>7
  <2> HIDE DEF Sound, n
  <2> QED
    BY <2>1 DEF G
<1> QED
  BY <1>2, <1>8

(* Two sequences with the same elements are the same.                      *)
LEMMA SameSequence ==
  ASSUME NEW E, NEW l \in Seq(E), NEW r \in Seq(E), Len(l) = Len(r),
         \A i \in 1..Len(l) : l[i] = r[i]
  PROVE  l = r
OBVIOUS

(* Two functions of the recursion of Excluding agree where their queues do.*)
Excludes(f, q, S, n) ==
  /\ f[0] = <<>>
  /\ \A i \in 1..n : f[i] = IF q[i] \in S THEN f[i - 1]
                            ELSE Append(f[i - 1], q[i])

(* The recursion of Excluding yields queues.                               *)
LEMMA ExcludesSeq ==
  ASSUME NEW E, NEW q \in Seq(E), NEW S, NEW f, Excludes(f, q, S, Len(q))
  PROVE  \A i \in 0..Len(q) : f[i] \in Seq(E)
<1> DEFINE n == Len(q)
           G == {i \in Nat : i <= n => f[i] \in Seq(E)}
<1>1. n \in Nat
  OBVIOUS
<1>2. 0 \in G
  <2>1. f[0] = <<>> /\ <<>> \in Seq(E)
    BY DEF Excludes
  <2> QED
    BY <2>1
<1>3. ASSUME NEW i \in Nat, i \in G
      PROVE  i + 1 \in G
  <2> SUFFICES ASSUME i + 1 <= n PROVE f[i + 1] \in Seq(E)
    OBVIOUS
  <2>1. i + 1 \in 1..n /\ (i + 1) - 1 = i /\ q[i + 1] \in E
    BY <1>1
  <2>2. f[i] \in Seq(E)
    BY <1>1, <1>3
  <2>3. f[i + 1] = IF q[i + 1] \in S THEN f[i] ELSE Append(f[i], q[i + 1])
    BY <2>1 DEF Excludes
  <2>4. Append(f[i], q[i + 1]) \in Seq(E)
    BY <2>1, <2>2
  <2> QED
    BY <2>2, <2>3, <2>4
<1> HIDE DEF G
<1>4. Nat \subseteq G
  BY <1>2, <1>3, SetInduction
<1> QED
  BY <1>1, <1>4 DEF G

(* Appending to a concatenation.                                           *)
CatAppends(a, b, e) == Append(a \o b, e) = a \o Append(b, e)

(* Appending to a concatenation appends to its second part.                *)
LEMMA AppendCat ==
  ASSUME NEW E, NEW a \in Seq(E), NEW b \in Seq(E), NEW e \in E
  PROVE  CatAppends(a, b, e)
<1> DEFINE l == Append(a \o b, e)
           r == a \o Append(b, e)
<1>1. /\ Len(a) \in Nat /\ Len(b) \in Nat
      /\ l \in Seq(E) /\ r \in Seq(E)
      /\ Len(l) = Len(a) + Len(b) + 1 /\ Len(r) = Len(l)
  OBVIOUS
<1>2. \A i \in 1..Len(l) : l[i] = r[i]
  OBVIOUS
<1> HIDE DEF l, r
<1>3. l = r
  BY <1>1, <1>2, SameSequence
<1> QED
  BY <1>3 DEF CatAppends, l, r

(* Excluding distributes over the concatenation of queues.                 *)
LEMMA ExcludingCat ==
  ASSUME NEW E, NEW s \in Seq(E), NEW t \in Seq(E), NEW S
  PROVE  Excluding(s \o t, S) = Excluding(s, S) \o Excluding(t, S)
<1> DEFINE m == Len(s)
           n == Len(t)
           q == s \o t
<1>1. /\ m \in Nat /\ n \in Nat /\ q \in Seq(E) /\ Len(q) = m + n
      /\ \A i \in 1..m : q[i] = s[i]
      /\ \A i \in 1..n : q[m + i] = t[i]
  OBVIOUS
<1> HIDE DEF q
<1>2. PICK f : Excludes(f, q, S, Len(q)) /\ Excluding(q, S) = f[Len(q)]
  <2>1. q \in Seq(E)
    BY <1>1
  <2>2. PICK f : /\ f[0] = <<>>
                 /\ \A i \in 1..Len(q) :
                      f[i] = IF q[i] \in S THEN f[i - 1]
                             ELSE Append(f[i - 1], q[i])
                 /\ Excluding(q, S) = f[Len(q)]
    BY <2>1, ExcludingSteps
  <2> QED
    BY <2>2 DEF Excludes
<1>3. PICK g : Excludes(g, s, S, m) /\ Excluding(s, S) = g[m]
  BY ExcludingSteps DEF Excludes
<1>4. PICK k : Excludes(k, t, S, n) /\ Excluding(t, S) = k[n]
  BY ExcludingSteps DEF Excludes
<1>5. /\ \A i \in 0..m : g[i] \in Seq(E)
      /\ \A i \in 0..n : k[i] \in Seq(E)
  BY <1>3, <1>4, ExcludesSeq
<1> HIDE DEF m, n
<1>6. \A i \in Nat : i <= m => f[i] = g[i]
  <2> DEFINE G == {i \in Nat : i <= m => f[i] = g[i]}
  <2>1. 0 \in G
    BY <1>2, <1>3 DEF Excludes
  <2>2. ASSUME NEW i \in Nat, i \in G
        PROVE  i + 1 \in G
    <3> SUFFICES ASSUME i + 1 <= m PROVE f[i + 1] = g[i + 1]
      OBVIOUS
    <3>1. i + 1 \in 1..m /\ i + 1 \in 1..Len(q) /\ (i + 1) - 1 = i
      BY <1>1
    <3>2. f[i] = g[i]
      BY <1>1, <2>2
    <3>3. q[i + 1] = s[i + 1]
      BY <1>1, <3>1
    <3>4. f[i + 1] = IF q[i + 1] \in S THEN f[i] ELSE Append(f[i], q[i + 1])
      BY <1>2, <3>1 DEF Excludes
    <3>5. g[i + 1] = IF s[i + 1] \in S THEN g[i] ELSE Append(g[i], s[i + 1])
      BY <1>3, <3>1 DEF Excludes
    <3> QED
      BY <3>2, <3>3, <3>4, <3>5
  <2> HIDE DEF G
  <2>3. Nat \subseteq G
    BY <2>1, <2>2, SetInduction
  <2> QED
    BY <2>3 DEF G
<1> DEFINE c == [i \in 0..n |-> g[m] \o k[i]]
<1>7. g[m] \in Seq(E) /\ c[n] = g[m] \o k[n]
  <2>1. m \in 0..m /\ n \in 0..n
    BY <1>1
  <2> QED
    BY <1>5, <2>1
<1>8. c[0] = g[m]
  <2>1. k[0] = <<>> /\ 0 \in 0..n
    BY <1>1, <1>4 DEF Excludes
  <2>2. c[0] = g[m] \o <<>>
    BY <2>1
  <2>3. g[m] \o <<>> = g[m]
    BY <1>7
  <2> QED
    BY <2>2, <2>3
<1>9. ASSUME NEW i \in 1..n
      PROVE  c[i] = IF t[i] \in S THEN c[i - 1] ELSE Append(c[i - 1], t[i])
  <2>1. i \in 0..n /\ i - 1 \in 0..n /\ t[i] \in E
    BY <1>1 DEF n
  <2>2. k[i - 1] \in Seq(E)
    BY <1>5, <2>1
  <2>3. k[i] = IF t[i] \in S THEN k[i - 1] ELSE Append(k[i - 1], t[i])
    BY <1>4 DEF Excludes
  <2>4. Append(g[m] \o k[i - 1], t[i]) = g[m] \o Append(k[i - 1], t[i])
    <3> DEFINE a == g[m]
               b == k[i - 1]
               e == t[i]
    <3>1. a \in Seq(E) /\ b \in Seq(E) /\ e \in E
      BY <1>7, <2>1, <2>2
    <3> HIDE DEF a, b, e
    <3>2. CatAppends(a, b, e)
      BY <3>1, AppendCat
    <3> QED
      BY <3>2 DEF CatAppends, a, b, e
  <2>5. c[i] = g[m] \o k[i] /\ c[i - 1] = g[m] \o k[i - 1]
    BY <2>1
  <2> HIDE DEF c
  <2> QED
    BY <2>3, <2>4, <2>5
<1> HIDE DEF c
<1>10. \A i \in Nat : i <= n => f[m + i] = c[i]
  <2> DEFINE G == {i \in Nat : i <= n => f[m + i] = c[i]}
  <2>1. 0 \in G
    BY <1>1, <1>6, <1>8
  <2>2. ASSUME NEW i \in Nat, i \in G
        PROVE  i + 1 \in G
    <3> SUFFICES ASSUME i + 1 <= n PROVE f[m + (i + 1)] = c[i + 1]
      OBVIOUS
    <3>1. /\ i + 1 \in 1..n /\ m + (i + 1) \in 1..Len(q) /\ (i + 1) - 1 = i
          /\ (m + (i + 1)) - 1 = m + i
      BY <1>1
    <3>2. f[m + i] = c[i]
      BY <1>1, <2>2
    <3>3. q[m + (i + 1)] = t[i + 1]
      BY <1>1, <3>1
    <3>4. f[m + (i + 1)] = IF q[m + (i + 1)] \in S THEN f[m + i]
                           ELSE Append(f[m + i], q[m + (i + 1)])
      BY <1>2, <3>1 DEF Excludes
    <3>5. c[i + 1] = IF t[i + 1] \in S THEN c[i] ELSE Append(c[i], t[i + 1])
      BY <1>9, <3>1
    <3> QED
      BY <3>2, <3>3, <3>4, <3>5
  <2> HIDE DEF G
  <2>3. Nat \subseteq G
    BY <2>1, <2>2, SetInduction
  <2> QED
    BY <2>3 DEF G
<1>11. f[m + n] = c[n]
  BY <1>1, <1>10
<1> QED
  BY <1>1, <1>2, <1>3, <1>4, <1>7, <1>11 DEF q

(* When nothing is excluded the queue keeps its length.                    *)
LEMMA ExcludingNothing ==
  ASSUME NEW E, NEW q \in Seq(E), NEW S, \A i \in 1..Len(q) : q[i] \notin S
  PROVE  Len(Excluding(q, S)) = Len(q)
<1> DEFINE n == Len(q)
<1>1. n \in Nat
  OBVIOUS
<1>2. PICK f : Excludes(f, q, S, n) /\ Excluding(q, S) = f[n]
  BY ExcludingSteps DEF Excludes
<1>3. \A i \in 0..n : f[i] \in Seq(E)
  BY <1>2, ExcludesSeq
<1> DEFINE G == {i \in Nat : i <= n => Len(f[i]) = i}
<1>4. 0 \in G
  BY <1>2 DEF Excludes
<1>5. ASSUME NEW i \in Nat, i \in G
      PROVE  i + 1 \in G
  <2> SUFFICES ASSUME i + 1 <= n PROVE Len(f[i + 1]) = i + 1
    OBVIOUS
  <2>1. i + 1 \in 1..n /\ (i + 1) - 1 = i /\ i \in 0..n
    BY <1>1
  <2>2. Len(f[i]) = i /\ f[i] \in Seq(E)
    BY <1>1, <1>3, <1>5, <2>1
  <2>3. f[i + 1] = Append(f[i], q[i + 1])
    BY <1>2, <2>1 DEF Excludes
  <2> QED
    BY <2>2, <2>3
<1> HIDE DEF G
<1>6. Nat \subseteq G
  BY <1>4, <1>5, SetInduction
<1> QED
  BY <1>1, <1>2, <1>6 DEF G

(* A set of naturals with a bound has a greatest element.                  *)
LEMMA GreatestElement ==
  ASSUME NEW n \in Nat, NEW S, S \subseteq 0..n, S # {}
  PROVE  \E m \in S : \A y \in S : m >= y
<1> DEFINE T == {n - p : p \in S}
<1>1. T \subseteq Nat /\ T # {}
  <2>1. T \subseteq Nat
    OBVIOUS
  <2>2. PICK p : p \in S
    OBVIOUS
  <2>3. n - p \in T
    BY <2>2
  <2> QED
    BY <2>1, <2>3
<1>2. PICK m \in T : \A y \in T : m <= y
  <2> HIDE DEF T
  <2> QED
    BY <1>1, LeastElement
<1>3. PICK p \in S : m = n - p
  BY <1>2
<1>4. ASSUME NEW y \in S PROVE p >= y
  <2>1. n - y \in T
    OBVIOUS
  <2>2. n - p <= n - y
    BY <1>2, <1>3, <2>1
  <2>3. p \in 0..n /\ y \in 0..n
    OBVIOUS
  <2> QED
    BY <2>2, <2>3
<1> QED
  BY <1>3, <1>4

-----------------------------------------------------------------------------
(* The elements of a queue without any.                                    *)
LEMMA ElementsEmpty ==
  ASSUME NEW E, NEW q \in Seq(E)
  PROVE  Elements(q) = {} <=> q = <<>>
<1>1. Len(q) \in Nat /\ (q = <<>> <=> Len(q) = 0)
  OBVIOUS
<1>2. \A n \in Nat : n = 0 <=> 1..n = {}
  <2>1. 1..0 = {} /\ \A n \in Nat \ {0} : 1 \in 1..n
    OBVIOUS
  <2> QED
    BY <2>1
<1>3. Elements(q) = {} <=> 1..Len(q) = {}
  BY DEF Elements
<1> QED
  BY <1>1, <1>2, <1>3

(* Two queues, one behind the other.                                       *)
LEMMA ElementsConcat ==
  ASSUME NEW E, NEW p \in Seq(E), NEW q \in Seq(E)
  PROVE  /\ p \o q \in Seq(E)
         /\ Elements(p \o q) = Elements(p) \cup Elements(q)
<1> DEFINE r == p \o q
<1>1. /\ r \in Seq(E) /\ Len(p) \in Nat /\ Len(q) \in Nat
      /\ Len(r) = Len(p) + Len(q)
  OBVIOUS
<1>2. \A i \in 1..Len(p) : r[i] = p[i]
  OBVIOUS
<1>3. \A i \in 1..Len(q) : r[Len(p) + i] = q[i]
  OBVIOUS
<1> HIDE DEF r
<1>4. ASSUME NEW x \in Elements(r) PROVE x \in Elements(p) \cup Elements(q)
  <2>1. PICK i \in 1..Len(r) : x = r[i]
    BY DEF Elements
  <2>2. CASE i <= Len(p)
    BY <1>1, <1>2, <2>1, <2>2 DEF Elements
  <2>3. CASE ~(i <= Len(p))
    <3>1. i - Len(p) \in 1..Len(q) /\ i = Len(p) + (i - Len(p))
      BY <1>1, <2>1, <2>3
    <3>2. x = q[i - Len(p)]
      BY <1>3, <2>1, <3>1
    <3> QED
      BY <3>1, <3>2 DEF Elements
  <2> QED
    BY <2>2, <2>3
<1>5. ASSUME NEW x \in Elements(p) PROVE x \in Elements(r)
  <2>1. PICK i \in 1..Len(p) : x = p[i]
    BY DEF Elements
  <2>2. i \in 1..Len(r) /\ r[i] = x
    BY <1>1, <1>2, <2>1
  <2> QED
    BY <2>2 DEF Elements
<1>6. ASSUME NEW x \in Elements(q) PROVE x \in Elements(r)
  <2>1. PICK i \in 1..Len(q) : x = q[i]
    BY DEF Elements
  <2>2. Len(p) + i \in 1..Len(r) /\ r[Len(p) + i] = x
    BY <1>1, <1>3, <2>1
  <2> QED
    BY <2>2 DEF Elements
<1> QED
  BY <1>1, <1>4, <1>5, <1>6 DEF r

(* A finite set has an enumeration without repetitions.                    *)
LEMMA Enumerable ==
  ASSUME NEW S, IsFiniteSet(S)
  PROVE  \E f \in Injection(1..Cardinality(S), S) : TRUE
<1>1. ExistsBijection(1..Cardinality(S), S)
  BY FS_CardinalityType
<1> QED
  BY <1>1 DEF ExistsBijection, Bijection

(* Such an enumeration has every element of the set.                       *)
LEMMA EnumerationLaw ==
  ASSUME NEW S, IsFiniteSet(S), NEW q \in Injection(1..Cardinality(S), S)
  PROVE  q \in Seq(S) /\ Elements(q) = S
<1> DEFINE n == Cardinality(S)
<1>1. n \in Nat /\ IsFiniteSet(1..n) /\ Cardinality(1..n) = n
  BY FS_CardinalityType, FS_Interval
<1>2. q \in [1..n -> S]
  BY DEF Injection
<1>3. q \in Seq(S) /\ Len(q) = n
  BY <1>1, <1>2
<1>4. Elements(q) \subseteq S
  BY <1>2, <1>3 DEF Elements
<1>5. q \in Bijection(1..n, Elements(q))
  <2>1. q \in [1..n -> Elements(q)]
    BY <1>2, <1>3 DEF Elements
  <2>2. \A x \in Elements(q) : \E i \in 1..n : q[i] = x
    BY <1>3 DEF Elements
  <2> QED
    BY <2>1, <2>2 DEF Bijection, Injection, Surjection
<1>6. Cardinality(Elements(q)) = n
  BY <1>1, <1>5, FS_Bijection, FS_SameCardinalityBij DEF ExistsBijection
<1>7. Elements(q) = S
  BY <1>4, <1>6, FS_Subset
<1> QED
  BY <1>3, <1>7

(* A queue without repetitions has none after an element left.             *)
LEMMA ExcludingDistinct ==
  ASSUME NEW E, NEW q \in Seq(E), NEW S,
         \A i, j \in 1..Len(q) : q[i] = q[j] => i = j
  PROVE  LET p == Excluding(q, S)
         IN  /\ p \in Seq(E)
             /\ \A i \in 1..Len(p) : \E k \in 1..Len(q) :
                                        p[i] = q[k] /\ q[k] \notin S
             /\ \A i, j \in 1..Len(p) : p[i] = p[j] => i = j
<1> DEFINE p == Excluding(q, S)
<1>1. p \in Seq(E) /\ Len(p) \in Nat
  BY ExcludingLaw
<1>2. PICK h : IsSelection(h, p, q, S, Len(q))
  BY ExcludingOrder
<1> HIDE DEF p
<1>3. \A i \in 1..Len(p) : /\ h[i] \in 1..Len(q) /\ q[h[i]] \notin S
                           /\ p[i] = q[h[i]]
  BY <1>2 DEF IsSelection
<1>4. ASSUME NEW i \in 1..Len(p), NEW j \in 1..Len(p), p[i] = p[j]
      PROVE  i = j
  <2>1. h[i] = h[j] /\ h[i] \in Nat /\ h[j] \in Nat
    BY <1>3, <1>4
  <2>2. ~(i < j) /\ ~(j < i)
    BY <1>2, <2>1 DEF IsSelection
  <2> QED
    BY <1>1, <2>2
<1> QED
  BY <1>1, <1>3, <1>4 DEF p

-----------------------------------------------------------------------------
(* p is q with some items left out; of an item only its kind and its owner *)
(* b count, not a mark on it.                                              *)
IsThinning(h, p, q) ==
  /\ h \in [1..Len(p) -> 1..Len(q)]
  /\ \A i, j \in 1..Len(p) : i < j => h[i] < h[j]
  /\ \A i \in 1..Len(p) : p[i].kind = q[h[i]].kind /\ p[i].b = q[h[i]].b

(* p is q without some of its elements.                                    *)
Thinned(p, q) == \E h : IsThinning(h, p, q)

(* Excluding leaves items out, and keeps a head that is not excluded.      *)
LEMMA ExcludingThins ==
  ASSUME NEW E, NEW q \in Seq(E), NEW S
  PROVE  /\ Thinned(Excluding(q, S), q)
         /\ Excluding(q, S) \in Seq(E)
         /\ q # <<>> /\ q[1] \notin S =>
              Excluding(q, S) # <<>> /\ Excluding(q, S)[1] = q[1]
<1> DEFINE p == Excluding(q, S)
<1>1. p \in Seq(E)
  BY ExcludingLaw
<1>2. PICK h : IsSelection(h, p, q, S, Len(q))
  BY ExcludingOrder
<1> HIDE DEF p
<1>3. IsThinning(h, p, q)
  <2>1. h \in [1..Len(p) -> 1..Len(q)]
    BY <1>2 DEF IsSelection
  <2> QED
    BY <1>2, <2>1 DEF IsThinning, IsSelection
<1>4. ASSUME q # <<>>, q[1] \notin S
      PROVE  p # <<>> /\ p[1] = q[1]
  <2>1. 1 \in 1..Len(q) /\ Len(p) \in Nat
    BY <1>1, <1>4
  <2>2. PICK i \in 1..Len(p) : h[i] = 1
    BY <1>2, <1>4, <2>1 DEF IsSelection
  <2>3. 1 \in 1..Len(p) /\ (i = 1 \/ 1 < i)
    BY <2>1, <2>2
  <2>4. h[1] \in 1..Len(q)
    BY <1>3, <2>3 DEF IsThinning
  <2>5. i = 1
    <3>1. 1 < i => h[1] < h[i]
      BY <1>3, <2>2, <2>3 DEF IsThinning
    <3> QED
      BY <2>2, <2>3, <2>4, <3>1
  <2>6. p[1] = q[1]
    BY <1>2, <2>2, <2>3, <2>5 DEF IsSelection
  <2> QED
    BY <1>1, <2>3, <2>6
<1> QED
  BY <1>1, <1>3, <1>4 DEF Thinned, p

(* A queue is its own thinning.                                            *)
LEMMA ThinnedRefl ==
  ASSUME NEW q
  PROVE  Thinned(q, q)
<1>1. IsThinning([i \in 1..Len(q) |-> i], q, q)
  BY DEF IsThinning
<1> QED
  BY <1>1 DEF Thinned

(* The head is kept, with a mark, and items behind it are left out.        *)
LEMMA ThinnedTail ==
  ASSUME NEW E, NEW q \in Seq(E), q # <<>>, NEW x, NEW r \in Seq(E), x \in E,
         x.kind = q[1].kind, x.b = q[1].b, Thinned(r, Tail(q))
  PROVE  /\ Thinned(<<x>> \o r, q)
         /\ <<x>> \o r \in Seq(E)
         /\ <<x>> \o r # <<>>
         /\ (<<x>> \o r)[1] = x
<1> DEFINE p == <<x>> \o r
           l == Len(r)
           n == Len(q)
<1>1. /\ p \in Seq(E) /\ l \in Nat /\ Len(p) = l + 1 /\ p[1] = x
      /\ \A i \in 1..l : p[i + 1] = r[i]
  OBVIOUS
<1>2. /\ n \in Nat \ {0} /\ Len(Tail(q)) = n - 1
      /\ \A i \in 1..(n - 1) : Tail(q)[i] = q[i + 1]
  OBVIOUS
<1>3. PICK h : IsThinning(h, r, Tail(q))
  BY DEF Thinned
<1> DEFINE k == [i \in 1..(l + 1) |-> IF i = 1 THEN 1 ELSE h[i - 1] + 1]
<1>4. \A i \in 1..l : h[i] \in 1..(n - 1)
  BY <1>2, <1>3 DEF IsThinning
<1>5. \A i \in 1..(l + 1) : i = 1 \/ i - 1 \in 1..l
  BY <1>1
<1>6. k[1] = 1 /\ \A i \in 1..(l + 1) : i # 1 => k[i] = h[i - 1] + 1
  BY <1>1
<1>7. k = [i \in 1..(l + 1) |-> k[i]]
  OBVIOUS
<1> HIDE DEF k, p, l, n
<1>8. \A i \in 1..(l + 1) : k[i] \in 1..n /\ (i # 1 => k[i] > 1)
  BY <1>2, <1>4, <1>5, <1>6
<1>9. k \in [1..(l + 1) -> 1..n]
  BY <1>7, <1>8
<1>10. \A i, j \in 1..(l + 1) : i < j => k[i] < k[j]
  <2> SUFFICES ASSUME NEW i \in 1..(l + 1), NEW j \in 1..(l + 1), i < j
               PROVE  k[i] < k[j]
    OBVIOUS
  <2>1. j # 1 /\ j - 1 \in 1..l
    BY <1>1, <1>5
  <2>2. CASE i = 1
    BY <1>6, <1>8, <2>1, <2>2
  <2>3. CASE i # 1
    <3>1. i - 1 \in 1..l /\ i - 1 < j - 1
      BY <1>5, <2>3
    <3>2. h[i - 1] < h[j - 1]
      BY <1>3, <2>1, <3>1 DEF IsThinning, l
    <3> QED
      BY <1>4, <1>6, <2>1, <2>3, <3>1, <3>2
  <2> QED
    BY <2>2, <2>3
<1>11. \A i \in 1..(l + 1) : p[i].kind = q[k[i]].kind /\ p[i].b = q[k[i]].b
  <2> SUFFICES ASSUME NEW i \in 1..(l + 1)
               PROVE  p[i].kind = q[k[i]].kind /\ p[i].b = q[k[i]].b
    OBVIOUS
  <2>1. CASE i = 1
    BY <1>1, <1>6, <2>1
  <2>2. CASE i # 1
    <3>1. i - 1 \in 1..l /\ i = (i - 1) + 1
      BY <1>5, <2>2
    <3>2. p[i] = r[i - 1]
      BY <1>1, <3>1
    <3>3. q[k[i]] = Tail(q)[h[i - 1]]
      BY <1>2, <1>4, <1>6, <2>2, <3>1
    <3> QED
      BY <1>3, <3>1, <3>2, <3>3 DEF IsThinning, l
  <2> QED
    BY <2>1, <2>2
<1>12. IsThinning(k, p, q)
  BY <1>1, <1>9, <1>10, <1>11 DEF IsThinning, n
<1>13. p # <<>>
  BY <1>1
<1> QED
  BY <1>1, <1>12, <1>13 DEF Thinned, p

(* The tail of a FIFO.                                                     *)
LEMMA TailThins ==
  ASSUME NEW E, NEW q \in Seq(E), q # <<>>
  PROVE  /\ Tail(q) \in Seq(E)
         /\ Len(Tail(q)) = Len(q) - 1
         /\ \A i \in 1..Len(Tail(q)) : i + 1 \in 1..Len(q) /\ Tail(q)[i] = q[i + 1]
         /\ Thinned(Tail(q), q)
<1> DEFINE p == Tail(q)
           h == [i \in 1..Len(p) |-> i + 1]
<1>1. /\ p \in Seq(E) /\ Len(q) \in Nat /\ Len(q) # 0 /\ Len(p) = Len(q) - 1
      /\ \A i \in 1..Len(p) : p[i] = q[i + 1]
  OBVIOUS
<1> HIDE DEF p
<1>2. \A i \in 1..Len(p) : i + 1 \in 1..Len(q)
  BY <1>1
<1>3. IsThinning(h, p, q)
  BY <1>1, <1>2 DEF IsThinning
<1> QED
  BY <1>1, <1>2, <1>3 DEF Thinned, p

-----------------------------------------------------------------------------
(* The places at which e stands in w.                                      *)
Occurrences(w, e) == Cardinality({i \in DOMAIN w : w[i] = e})

(* An element is appended: there is one more occurrence, or none.          *)
LEMMA OccurrencesLaw ==
  ASSUME NEW E, NEW w \in Seq(E), NEW x \in E, NEW e
  PROVE  /\ Occurrences(w, e) \in Nat
         /\ Occurrences(Append(w, x), e)
              = Occurrences(w, e) + (IF x = e THEN 1 ELSE 0)
<1> DEFINE I == {i \in DOMAIN w : w[i] = e}
           v == Append(w, x)
           J == {i \in DOMAIN v : v[i] = e}
           n == Len(w) + 1
<1>1. IsFiniteSet(I)
  <2>1. DOMAIN w = 1..Len(w) /\ Len(w) \in Int /\ 1 \in Int
    OBVIOUS
  <2>2. IsFiniteSet(1..Len(w))
    BY <2>1, FS_Interval
  <2>3. I \subseteq 1..Len(w)
    BY <2>1
  <2> HIDE DEF I
  <2> QED
    BY <2>2, <2>3, FS_Subset
<1>2. Occurrences(w, e) \in Nat
  <2> HIDE DEF I
  <2>1. Cardinality(I) \in Nat
    BY <1>1, FS_CardinalityType
  <2> QED
    BY <2>1 DEF Occurrences, I
<1>3. /\ DOMAIN v = 1..n /\ DOMAIN w = 1..(n - 1) /\ n \in Nat \ {0}
      /\ v[n] = x /\ \A i \in 1..(n - 1) : v[i] = w[i]
  OBVIOUS
<1> HIDE DEF v, n
<1>4. CASE x = e
  <2>1. J = I \cup {n} /\ n \notin I
    BY <1>3, <1>4
  <2> HIDE DEF I, J
  <2>2. Cardinality(J) = Cardinality(I) + 1
    BY <1>1, <2>1, FS_AddElement
  <2> QED
    BY <1>2, <1>4, <2>2 DEF Occurrences, I, J, v
<1>5. CASE x # e
  <2>1. J = I
    BY <1>3, <1>5
  <2>2. Occurrences(Append(w, x), e) = Occurrences(w, e)
    BY <2>1 DEF Occurrences, v
  <2>3. \A k \in Nat : k = k + (IF x = e THEN 1 ELSE 0)
    BY <1>5
  <2> QED
    BY <1>2, <2>2, <2>3
<1> QED
  BY <1>2, <1>4, <1>5

(* Nothing occurs in an empty sequence.                                    *)
LEMMA OccurrencesNone ==
  ASSUME NEW e
  PROVE  Occurrences(<<>>, e) = 0
<1>1. {i \in DOMAIN <<>> : <<>>[i] = e} = {}
  OBVIOUS
<1> QED
  BY <1>1, FS_EmptySet DEF Occurrences

===============================================================================
