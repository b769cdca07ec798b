------------------------ MODULE ClientHandshake_proofs ------------------------
(***************************************************************************)
(* Proofs about the clients of the public proxy, for any finite set of     *)
(* connections, any addresses, any limits and any scripts of the peers.    *)
(***************************************************************************)
EXTENDS MCClient, Data_proofs

XFields == {"at", "st", "run", "wake", "kill", "timer", "in", "sent", "peer",
            "ip", "candidate", "authed", "ipKey", "secretKey", "user", "mode",
            "cipher", "pending", "dial", "relay", "dec", "throttled", "spoke",
            "hi", "out", "got", "spliced", "snap", "flow", "sampled", "sample",
            "drain", "wakeTimer", "deadline"}
HFields == {"active", "conns", "lru", "blocked", "seen", "pending", "relays"}

(* The states before a client is authenticated.                            *)
Early == {"proxy", "detect", "header", "payload", "dd"}

(* A connection: only one that is open runs a turn; it holds no slot       *)
(* before it opens and after it ended, and none of its user's before it is *)
(* authenticated.                                                          *)
ConnSound(x) ==
  /\ DOMAIN x = XFields
  /\ x.at \in {"new", "open", "closing", "ending", "closed"}
  /\ x.run => x.at = "open"
  /\ x.ipKey \in {NoKey} \cup (IPs \X {"ip"})
  /\ x.secretKey \in {NoKey} \cup (IPs \X {"secret"})
  /\ x.user \in Addresses /\ x.ip \in Addresses /\ x.peer \in Addresses
  /\ x.at \in {"new", "closed"} =>
       x.ipKey = NoKey /\ x.secretKey = NoKey /\ x.user = NoIP
  /\ x.at = "new" => x.st = "detect" /\ x.dial = "off" /\ x.in = <<>>
  /\ x.st \in Early => x.secretKey = NoKey /\ x.user = NoIP
  /\ x.st = "proxy" => x.in \in Seq(Pieces) /\ x.dial = "off"
  /\ x.sent \in Nat

IsActive(x) == x.at \in {"open", "closing"}
Holds(x, k) == k \in {x.ipKey, x.secretKey}

Active(X) == {c \in Conns : IsActive(X[c])}
Holders(X, k) == {c \in Conns : Holds(X[c], k)}
Users(X, ip) == {c \in Conns : X[c].user = ip}

(* The user's addresses: one entry each, none with more connections than   *)
(* there are.                                                              *)
Entries == [ip : IPs, count : Int]
LruSound(lru, X) ==
  /\ lru \in Seq(Entries)
  /\ \A i, j \in 1..Len(lru) : lru[i].ip = lru[j].ip => i = j
  /\ \A i \in 1..Len(lru) : lru[i].count <= Cardinality(Users(X, lru[i].ip))

HandlerShape(H) == /\ DOMAIN H = HFields /\ DOMAIN H.conns = Keys
                   /\ \A k \in Keys : H.conns[k] \in Int
                   /\ H.active \in Int

IInv ==
  /\ HandlerShape(h) /\ DOMAIN cx = Conns
  /\ \A c \in Conns : ConnSound(cx[c])
  /\ h.active = Cardinality(Active(cx))
  /\ \A k \in Keys : h.conns[k] = Cardinality(Holders(cx, k))
  /\ LruSound(h.lru, cx)
  /\ DOMAIN env = {"max"} /\ env.max \in Scenarios
  /\ \A c \in Conns : cx[c].at # "new" => c \in DOMAIN env.max.script

-----------------------------------------------------------------------------
(* Counting: the two counts differ by whether c counts.                    *)
Bit(b) == IF b THEN 1 ELSE 0

LEMMA CountMoves ==
  ASSUME NEW A \in SUBSET Conns, NEW B \in SUBSET Conns, NEW c \in Conns,
         A \ {c} = B \ {c}
  PROVE  /\ Cardinality(A) \in Nat /\ Cardinality(B) \in Nat
         /\ Cardinality(B) = Cardinality(A) - Bit(c \in A) + Bit(c \in B)
         /\ c \in A => Cardinality(A) > 0
<1>1. IsFiniteSet(A) /\ IsFiniteSet(B) /\ IsFiniteSet(A \ {c})
  BY LimitsAssumption, FS_Subset
<1>2. /\ Cardinality(A) \in Nat /\ Cardinality(B) \in Nat
      /\ Cardinality(A \ {c}) \in Nat
  BY <1>1, FS_CardinalityType
<1>3. Cardinality(A) = Cardinality(A \ {c}) + Bit(c \in A)
  <2>1. CASE c \in A
    <3>1. Cardinality(A \ {c}) = Cardinality(A) - 1
      BY <1>1, <2>1, FS_RemoveElement
    <3> QED
      BY <1>2, <2>1, <3>1 DEF Bit
  <2>2. CASE c \notin A
    <3>1. A \ {c} = A
      BY <2>2
    <3> QED
      BY <1>2, <2>2, <3>1 DEF Bit
  <2> QED
    BY <2>1, <2>2
<1>4. Cardinality(B) = Cardinality(B \ {c}) + Bit(c \in B)
  <2>1. CASE c \in B
    <3>1. Cardinality(B \ {c}) = Cardinality(B) - 1
      BY <1>1, <2>1, FS_RemoveElement
    <3> QED
      BY <1>2, <2>1, <3>1 DEF Bit
  <2>2. CASE c \notin B
    <3>1. B \ {c} = B
      BY <2>2
    <3> QED
      BY <1>2, <2>2, <3>1 DEF Bit
  <2> QED
    BY <2>1, <2>2
<1>5. Bit(c \in A) \in {0, 1} /\ Bit(c \in B) \in {0, 1}
      /\ (c \in A => Bit(c \in A) = 1)
  BY DEF Bit
<1>6. Cardinality(A \ {c}) = Cardinality(B \ {c})
  OBVIOUS
<1> QED
  BY <1>2, <1>3, <1>4, <1>5, <1>6

-----------------------------------------------------------------------------
(* The entry of an address in the user's list, and a list without one.     *)
LEMMA EntryOfLaw ==
  ASSUME NEW H, H.lru \in Seq(Entries), NEW ip
  PROVE  /\ EntryOf(H, ip) \in 0..Len(H.lru)
         /\ EntryOf(H, ip) = 0 => \A j \in 1..Len(H.lru) : H.lru[j].ip # ip
         /\ EntryOf(H, ip) # 0 => H.lru[EntryOf(H, ip)].ip = ip
<1> DEFINE I == {j \in 1..Len(H.lru) : H.lru[j].ip = ip}
<1>1. EntryOf(H, ip) = IF I # {} THEN Min(I) ELSE 0
  BY DEF EntryOf, SelectInSeq
<1>2. Len(H.lru) \in Nat
  OBVIOUS
<1>3. CASE I # {}
  <2>1. \E k \in I : \A j \in I : k <= j
    <3>1. I \subseteq Nat
      OBVIOUS
    <3> HIDE DEF I
    <3> QED
      BY <1>3, <3>1, LeastElement
  <2> DEFINE k == CHOOSE k \in I : \A j \in I : k <= j
  <2>2. k \in I
    <3> HIDE DEF I
    <3> QED
      BY <2>1
  <2>3. EntryOf(H, ip) = k
    BY <1>1, <1>3 DEF Min
  <2> HIDE DEF k
  <2>4. k \in 1..Len(H.lru) /\ H.lru[k].ip = ip
    BY <2>2
  <2>5. k \in 0..Len(H.lru) /\ k # 0
    BY <1>2, <2>4
  <2> QED
    BY <2>3, <2>4, <2>5
<1>4. CASE I = {}
  BY <1>1, <1>2, <1>4
<1> QED
  BY <1>3, <1>4

LEMMA RemoveAtLaw ==
  ASSUME NEW E, NEW s \in Seq(E), NEW i \in 1..Len(s)
  PROVE  /\ RemoveAt(s, i) \in Seq(E) /\ Len(RemoveAt(s, i)) = Len(s) - 1
         /\ \A j \in 1..Len(s) - 1 :
              RemoveAt(s, i)[j] = IF j < i THEN s[j] ELSE s[j + 1]
<1> DEFINE a == SubSeq(s, 1, i - 1)
           b == SubSeq(s, i + 1, Len(s))
<1>1. Len(s) \in Nat /\ i \in Nat /\ 1 <= i /\ i <= Len(s)
  OBVIOUS
<1>2. /\ a \in Seq(E) /\ Len(a) = i - 1
      /\ \A j \in 1..i - 1 : a[j] = s[j]
  BY <1>1
<1>3. /\ b \in Seq(E) /\ Len(b) = Len(s) - i
      /\ \A j \in 1..Len(s) - i : b[j] = s[i + j]
  BY <1>1
<1> HIDE DEF a, b
<1>4. /\ a \o b \in Seq(E) /\ Len(a \o b) = Len(s) - 1
      /\ \A j \in 1..Len(s) - 1 : (a \o b)[j] = IF j < i THEN s[j] ELSE s[j + 1]
  <2>0. a \in Seq(E) /\ b \in Seq(E)
    BY <1>2, <1>3
  <2>1. a \o b \in Seq(E) /\ Len(a \o b) = Len(a) + Len(b)
    <3>1. a \o b \in Seq(E)
      BY <2>0
    <3>2. Len(a \o b) = Len(a) + Len(b)
      BY <2>0
    <3> QED
      BY <3>1, <3>2
  <2>2. ASSUME NEW j \in 1..Len(s) - 1
        PROVE  (a \o b)[j] = IF j < i THEN s[j] ELSE s[j + 1]
    <3>1. CASE j < i
      <4>1. j \in 1..Len(a) /\ j \in 1..i - 1
        BY <1>1, <1>2, <3>1
      <4>2. (a \o b)[j] = a[j]
        BY <1>2, <1>3, <4>1
      <4> QED
        BY <1>2, <3>1, <4>1, <4>2
    <3>2. CASE ~(j < i)
      <4>1. /\ j - (i - 1) \in 1..Len(s) - i /\ i + (j - (i - 1)) = j + 1
            /\ j \in 1..Len(a) + Len(b) /\ ~(j <= Len(a))
        BY <1>1, <1>2, <1>3, <3>2
      <4>2. (a \o b)[j] = b[j - Len(a)]
        BY <1>2, <1>3, <4>1
      <4> QED
        BY <1>2, <1>3, <3>2, <4>1, <4>2
    <3> QED
      BY <3>1, <3>2
  <2> QED
    BY <1>1, <1>2, <1>3, <2>1, <2>2
<1> QED
  BY <1>4 DEF RemoveAt, a, b

LEMMA AppendNonempty ==
  ASSUME NEW E, NEW s \in Seq(E), NEW e
  PROVE  Append(s, e) # <<>>
<1>1. Len(Append(s, e)) = Len(s) + 1 /\ Len(s) \in Nat
  OBVIOUS
<1>2. Len(<<>>) = 0
  OBVIOUS
<1> QED
  BY <1>1, <1>2

(* The operations on the user's list keep it sound.                        *)
LEMMA LruAppend ==
  ASSUME NEW X, NEW s, LruSound(s, X), NEW e \in Entries,
         \A j \in 1..Len(s) : s[j].ip # e.ip,
         e.count <= Cardinality(Users(X, e.ip))
  PROVE  LruSound(Append(s, e), X)
<1> DEFINE t == Append(s, e)
           n == Len(s)
<1>1. s \in Seq(Entries) /\ n \in Nat
  BY DEF LruSound
<1>2. /\ t \in Seq(Entries) /\ Len(t) = n + 1 /\ t[n + 1] = e
      /\ \A j \in 1..n : t[j] = s[j]
  BY <1>1
<1>3. \A j \in 1..n + 1 : j \in 1..n \/ j = n + 1
  BY <1>1
<1> HIDE DEF t
<1>4. \A i, j \in 1..Len(t) : t[i].ip = t[j].ip => i = j
  BY <1>2, <1>3 DEF LruSound
<1>5. \A i \in 1..Len(t) : t[i].count <= Cardinality(Users(X, t[i].ip))
  BY <1>2, <1>3 DEF LruSound
<1>6. LruSound(t, X)
  BY <1>2, <1>4, <1>5 DEF LruSound
<1> QED
  BY <1>6 DEF t

LEMMA LruTail ==
  ASSUME NEW X, NEW s, LruSound(s, X), s # <<>>
  PROVE  LruSound(Tail(s), X)
<1> DEFINE t == Tail(s)
           n == Len(s)
<1>1. s \in Seq(Entries) /\ n \in Nat /\ n > 0
  BY DEF LruSound
<1>2. /\ t \in Seq(Entries) /\ Len(t) = n - 1
      /\ \A j \in 1..n - 1 : t[j] = s[j + 1]
  BY <1>1
<1>3. \A j \in 1..n - 1 : j + 1 \in 1..n
  BY <1>1
<1> HIDE DEF t
<1>4. ASSUME NEW i \in 1..Len(t), NEW j \in 1..Len(t), t[i].ip = t[j].ip
      PROVE  i = j
  <2>1. i + 1 \in 1..n /\ j + 1 \in 1..n /\ s[i + 1].ip = s[j + 1].ip
    BY <1>2, <1>3, <1>4
  <2>2. i + 1 = j + 1
    BY <2>1 DEF LruSound
  <2> QED
    BY <1>1, <1>2, <2>2
<1>5. \A i \in 1..Len(t) : t[i].count <= Cardinality(Users(X, t[i].ip))
  BY <1>2, <1>3 DEF LruSound
<1>6. LruSound(t, X)
  BY <1>2, <1>4, <1>5 DEF LruSound
<1> QED
  BY <1>6 DEF t

LEMMA LruRemove ==
  ASSUME NEW X, NEW s, LruSound(s, X), NEW i \in 1..Len(s)
  PROVE  /\ LruSound(RemoveAt(s, i), X)
         /\ \A j \in 1..Len(RemoveAt(s, i)) : RemoveAt(s, i)[j].ip # s[i].ip
<1> DEFINE t == RemoveAt(s, i)
           n == Len(s)
           at(j) == IF j < i THEN j ELSE j + 1
<1>1. s \in Seq(Entries) /\ n \in Nat
  BY DEF LruSound
<1>2. /\ t \in Seq(Entries) /\ Len(t) = n - 1
      /\ \A j \in 1..n - 1 : t[j] = IF j < i THEN s[j] ELSE s[j + 1]
  BY <1>1, RemoveAtLaw
<1>3. \A j \in 1..n - 1 : at(j) \in 1..n /\ at(j) # i /\ t[j] = s[at(j)]
  BY <1>1, <1>2
<1>4. \A j, k \in 1..n - 1 : at(j) = at(k) => j = k
  BY <1>1
<1> HIDE DEF t, at
<1>5. \A j, k \in 1..Len(t) : t[j].ip = t[k].ip => j = k
  BY <1>2, <1>3, <1>4 DEF LruSound
<1>6. \A j \in 1..Len(t) : t[j].count <= Cardinality(Users(X, t[j].ip))
  BY <1>2, <1>3 DEF LruSound
<1>7. \A j \in 1..Len(t) : t[j].ip # s[i].ip
  BY <1>2, <1>3 DEF LruSound
<1>8. LruSound(t, X)
  BY <1>2, <1>5, <1>6 DEF LruSound
<1> QED
  BY <1>7, <1>8 DEF t

(* More connections of some users: the list stays sound.                   *)
LEMMA LruGrows ==
  ASSUME NEW X, NEW Y, NEW s, LruSound(s, X),
         \A ip \in IPs : /\ Cardinality(Users(X, ip)) \in Nat
                         /\ Cardinality(Users(Y, ip)) \in Nat
                         /\ Cardinality(Users(X, ip)) <= Cardinality(Users(Y, ip))
  PROVE  LruSound(s, Y)
<1>1. s \in Seq(Entries)
  BY DEF LruSound
<1>2. ASSUME NEW i \in 1..Len(s)
      PROVE  s[i].count <= Cardinality(Users(Y, s[i].ip))
  <2>0. s[i] \in Entries
    BY <1>1
  <2>1. s[i].ip \in IPs /\ s[i].count \in Int
    BY <2>0 DEF Entries
  <2>2. s[i].count <= Cardinality(Users(X, s[i].ip))
    BY DEF LruSound
  <2> QED
    BY <2>1, <2>2
<1> QED
  BY <1>2 DEF LruSound

Frame(H, G) == /\ DOMAIN G = DOMAIN H /\ G.active = H.active
               /\ G.conns = H.conns

LEMMA UserAcquiredLaw ==
  ASSUME NEW X, NEW Y, NEW H, DOMAIN H = HFields, LruSound(H.lru, X),
         NEW ip \in IPs,
         \A j \in IPs : /\ Cardinality(Users(X, j)) \in Nat
                        /\ Cardinality(Users(Y, j)) \in Nat
                        /\ Cardinality(Users(X, j)) <= Cardinality(Users(Y, j)),
         Cardinality(Users(Y, ip)) = Cardinality(Users(X, ip)) + 1
  PROVE  /\ LruSound(UserAcquired(H, ip).lru, Y)
         /\ Frame(H, UserAcquired(H, ip))
<1> DEFINE i == EntryOf(H, ip)
           lru == IF i = 0 THEN Append(H.lru, [ip |-> ip, count |-> 1])
                  ELSE Append(RemoveAt(H.lru, i), [H.lru[i] EXCEPT !.count = @ + 1])
           oldest == Head(lru)
           full == Len(lru) > MaxIPs
           out == IF full THEN Tail(lru) ELSE lru
           blocked == IF full /\ oldest.count > 0 THEN H.blocked \cup {oldest.ip}
                      ELSE H.blocked
<1>0. UserAcquired(H, ip) = [H EXCEPT !.lru = out, !.blocked = blocked]
  BY DEF UserAcquired
<1>1. LruSound(H.lru, Y) /\ H.lru \in Seq(Entries)
  <2>1. LruSound(H.lru, Y)
    BY LruGrows
  <2> QED
    BY <2>1 DEF LruSound
<1>2. /\ i \in 0..Len(H.lru)
      /\ i = 0 => \A j \in 1..Len(H.lru) : H.lru[j].ip # ip
      /\ i # 0 => H.lru[i].ip = ip
  BY <1>1, EntryOfLaw
<1> HIDE DEF i
<1>3. LruSound(lru, Y) /\ lru # <<>>
  <2>1. CASE i = 0
    <3> DEFINE e == [ip |-> ip, count |-> 1]
    <3>1. e \in Entries /\ e.ip = ip /\ e.count = 1
      BY DEF Entries
    <3> HIDE DEF e
    <3>2. e.count <= Cardinality(Users(Y, e.ip))
      BY <3>1
    <3>3. LruSound(Append(H.lru, e), Y)
      BY <1>1, <1>2, <2>1, <3>1, <3>2, LruAppend
    <3>4. Append(H.lru, e) # <<>>
      BY <1>1, <3>1, AppendNonempty
    <3> QED
      BY <2>1, <3>3, <3>4 DEF e
  <2>2. CASE i # 0
    <3> DEFINE e == [H.lru[i] EXCEPT !.count = @ + 1]
               s == RemoveAt(H.lru, i)
    <3>1. i \in 1..Len(H.lru) /\ H.lru[i] \in Entries
      BY <1>1, <1>2, <2>2
    <3>2. /\ e \in Entries /\ e.ip = ip /\ e.count = H.lru[i].count + 1
          /\ H.lru[i].count \in Int
      BY <1>2, <2>2, <3>1 DEF Entries
    <3> HIDE DEF e
    <3>3. H.lru[i].count <= Cardinality(Users(X, ip))
      BY <1>2, <2>2, <3>1 DEF LruSound
    <3>4. e.count <= Cardinality(Users(Y, e.ip))
      BY <3>2, <3>3
    <3>5. LruSound(s, Y) /\ \A j \in 1..Len(s) : s[j].ip # H.lru[i].ip
      BY <1>1, <3>1, LruRemove
    <3> HIDE DEF s
    <3>6. LruSound(Append(s, e), Y)
      BY <1>2, <2>2, <3>2, <3>4, <3>5, LruAppend
    <3>7. Append(s, e) # <<>>
      BY <3>2, <3>5, AppendNonempty DEF LruSound
    <3> QED
      BY <2>2, <3>6, <3>7 DEF e, s
  <2> QED
    BY <2>1, <2>2
<1> HIDE DEF lru
<1>4. LruSound(out, Y)
  BY <1>3, LruTail
<1> HIDE DEF out, blocked
<1> QED
  BY <1>0, <1>4 DEF Frame, HFields

LEMMA UserReleaseLaw ==
  ASSUME NEW X, NEW Y, NEW H, DOMAIN H = HFields, LruSound(H.lru, X),
         NEW ip \in Addresses,
         \A j \in IPs : /\ Cardinality(Users(X, j)) \in Nat
                        /\ Cardinality(Users(Y, j)) \in Nat
                        /\ j # ip => Cardinality(Users(Y, j)) = Cardinality(Users(X, j)),
         ip \in IPs => Cardinality(Users(Y, ip)) = Cardinality(Users(X, ip)) - 1
  PROVE  /\ LruSound(UserRelease(H, ip).lru, Y)
         /\ Frame(H, UserRelease(H, ip))
<1> DEFINE i == EntryOf(H, ip)
<1>1. H.lru \in Seq(Entries) /\ Len(H.lru) \in Nat
  BY DEF LruSound
<1>2. /\ i \in 0..Len(H.lru)
      /\ i = 0 => \A j \in 1..Len(H.lru) : H.lru[j].ip # ip
      /\ i # 0 => H.lru[i].ip = ip
  BY <1>1, EntryOfLaw
<1>3. UserRelease(H, ip) = IF i = 0 THEN H ELSE [H EXCEPT !.lru[i].count = @ - 1]
  BY DEF UserRelease
<1> HIDE DEF i
<1>4. \A j \in 1..Len(H.lru) : /\ H.lru[j] \in Entries /\ H.lru[j].ip \in IPs
                               /\ H.lru[j].count \in Int
                               /\ H.lru[j].count <= Cardinality(Users(X, H.lru[j].ip))
  <2>1. \A j \in 1..Len(H.lru) : H.lru[j] \in Entries
    BY <1>1
  <2>2. \A e \in Entries : e.ip \in IPs /\ e.count \in Int
    BY DEF Entries
  <2> QED
    BY <2>1, <2>2 DEF LruSound
<1>5. CASE i = 0
  <2>1. \A j \in 1..Len(H.lru) : H.lru[j].count <= Cardinality(Users(Y, H.lru[j].ip))
    BY <1>2, <1>4, <1>5
  <2> QED
    BY <1>3, <1>5, <2>1 DEF Frame, LruSound
<1>6. CASE i # 0
  <2> DEFINE e == [H.lru[i] EXCEPT !.count = @ - 1]
             s == [H.lru EXCEPT ![i] = e]
  <2>1. i \in 1..Len(H.lru) /\ H.lru[i] \in Entries /\ ip \in IPs
    BY <1>1, <1>2, <1>4, <1>6
  <2>2. e \in Entries /\ e.ip = ip /\ e.count = H.lru[i].count - 1
    BY <1>2, <1>6, <2>1 DEF Entries
  <2> HIDE DEF e
  <2>3. /\ s \in Seq(Entries) /\ Len(s) = Len(H.lru)
        /\ \A j \in 1..Len(s) : s[j] = IF j = i THEN e ELSE H.lru[j]
    BY <1>1, <2>1, <2>2
  <2>4. [H EXCEPT !.lru[i].count = @ - 1] = [H EXCEPT !.lru = s]
    BY DEF e
  <2> HIDE DEF s
  <2>5. \A j \in 1..Len(s) : s[j].ip = H.lru[j].ip
    BY <1>2, <1>6, <2>2, <2>3
  <2>6. \A j, k \in 1..Len(s) : s[j].ip = s[k].ip => j = k
    BY <2>3, <2>5 DEF LruSound
  <2>7. ASSUME NEW j \in 1..Len(s)
        PROVE  s[j].count <= Cardinality(Users(Y, s[j].ip))
    <3>1. CASE j = i
      <4>1. s[j].count = H.lru[i].count - 1 /\ s[j].ip = ip
        BY <2>2, <2>3, <3>1
      <4>2. H.lru[i].count \in Int /\ H.lru[i].count <= Cardinality(Users(X, ip))
        BY <1>2, <1>4, <1>6, <2>1
      <4> QED
        BY <2>1, <4>1, <4>2
    <3>2. CASE j # i
      <4>1. s[j] = H.lru[j] /\ j \in 1..Len(H.lru)
        BY <2>3, <3>2
      <4>2. H.lru[j].ip # ip
        BY <1>2, <1>6, <2>1, <3>2, <4>1 DEF LruSound
      <4> QED
        BY <1>4, <4>1, <4>2
    <3> QED
      BY <3>1, <3>2
  <2>8. LruSound(s, Y)
    BY <2>3, <2>6, <2>7 DEF LruSound
  <2> QED
    BY <1>3, <1>6, <2>4, <2>8 DEF Frame, HFields
<1> QED
  BY <1>5, <1>6

-----------------------------------------------------------------------------
(* A step of one connection keeps the invariant when its record stays      *)
(* sound and the counters follow what it counts for.                       *)
LEMMA UsersMove ==
  ASSUME IInv, NEW c \in Conns, DOMAIN cx' = Conns,
         \A d \in Conns \ {c} : cx'[d] = cx[d], NEW ip
  PROVE  /\ Cardinality(Users(cx, ip)) \in Nat
         /\ Cardinality(Users(cx', ip)) \in Nat
         /\ Cardinality(Users(cx', ip)) = Cardinality(Users(cx, ip))
              - Bit(cx[c].user = ip) + Bit(cx'[c].user = ip)
<1> DEFINE A == Users(cx, ip)
           B == Users(cx', ip)
<1>1. A \in SUBSET Conns /\ B \in SUBSET Conns /\ A \ {c} = B \ {c}
  BY DEF Users
<1>2. (c \in A) = (cx[c].user = ip) /\ (c \in B) = (cx'[c].user = ip)
  BY DEF Users
<1> HIDE DEF A, B
<1>3. /\ Cardinality(A) \in Nat /\ Cardinality(B) \in Nat
      /\ Cardinality(B) = Cardinality(A) - Bit(c \in A) + Bit(c \in B)
  BY <1>1, CountMoves
<1>4. Bit(c \in A) = Bit(cx[c].user = ip) /\ Bit(c \in B) = Bit(cx'[c].user = ip)
  BY <1>2
<1> QED
  BY <1>3, <1>4 DEF A, B

LEMMA OneConn ==
  ASSUME IInv, NEW c \in Conns, DOMAIN cx' = Conns,
         \A d \in Conns \ {c} : cx'[d] = cx[d],
         ConnSound(cx'[c]), HandlerShape(h'),
         h'.active = h.active - Bit(IsActive(cx[c])) + Bit(IsActive(cx'[c])),
         \A k \in Keys : h'.conns[k] = h.conns[k] - Bit(Holds(cx[c], k))
                                         + Bit(Holds(cx'[c], k)),
         LruSound(h'.lru, cx'), env' = env,
         cx'[c].at # "new" => cx[c].at # "new" \/ c \in DOMAIN env.max.script
  PROVE  IInv'
<1>1. \A d \in Conns : ConnSound(cx'[d])
  BY DEF IInv
<1>4. \A d \in Conns : cx'[d].at # "new" => d \in DOMAIN env'.max.script
  BY DEF IInv
<1>2. h'.active = Cardinality(Active(cx'))
  <2> DEFINE A == Active(cx)
             B == Active(cx')
  <2>1. A \in SUBSET Conns /\ B \in SUBSET Conns /\ A \ {c} = B \ {c}
    BY DEF Active
  <2>2. (c \in A <=> IsActive(cx[c])) /\ (c \in B <=> IsActive(cx'[c]))
    BY DEF Active
  <2>3. h.active = Cardinality(A)
    BY DEF IInv
  <2> HIDE DEF A, B
  <2>4. Cardinality(B) = Cardinality(A) - Bit(c \in A) + Bit(c \in B)
    BY <2>1, CountMoves
  <2>5. /\ Bit(c \in A) = Bit(IsActive(cx[c]))
        /\ Bit(c \in B) = Bit(IsActive(cx'[c]))
    BY <2>2 DEF Bit
  <2>6. h'.active = Cardinality(B)
    BY <2>3, <2>4, <2>5
  <2> QED
    BY <2>6 DEF B
<1>3. ASSUME NEW k \in Keys PROVE h'.conns[k] = Cardinality(Holders(cx', k))
  <2> DEFINE A == Holders(cx, k)
             B == Holders(cx', k)
  <2>1. A \in SUBSET Conns /\ B \in SUBSET Conns /\ A \ {c} = B \ {c}
    BY DEF Holders
  <2>2. (c \in A <=> Holds(cx[c], k)) /\ (c \in B <=> Holds(cx'[c], k))
    BY DEF Holders
  <2>3. h.conns[k] = Cardinality(A)
    BY DEF IInv
  <2> HIDE DEF A, B
  <2>4. Cardinality(B) = Cardinality(A) - Bit(c \in A) + Bit(c \in B)
    BY <2>1, CountMoves
  <2>5. /\ Bit(c \in A) = Bit(Holds(cx[c], k))
        /\ Bit(c \in B) = Bit(Holds(cx'[c], k))
    BY <2>2 DEF Bit
  <2>6. h'.conns[k] = Cardinality(B)
    BY <2>3, <2>4, <2>5
  <2> QED
    BY <2>6 DEF B
<1> QED
  BY <1>1, <1>2, <1>3, <1>4 DEF IInv

(* The user's list does not change unless a connection's user does.        *)
LEMMA LruKept ==
  ASSUME IInv, NEW c \in Conns, DOMAIN cx' = Conns,
         \A d \in Conns \ {c} : cx'[d] = cx[d],
         cx'[c].user = cx[c].user, h'.lru = h.lru
  PROVE  LruSound(h'.lru, cx')
<1>1. \A ip : Users(cx', ip) = Users(cx, ip)
  BY DEF Users
<1>2. LruSound(h.lru, cx)
  BY DEF IInv
<1> QED
  BY <1>1, <1>2 DEF LruSound

(* Steps that change nothing that is counted.                              *)
Plain(x, y) ==
  /\ DOMAIN y = XFields
  /\ y.ipKey = x.ipKey /\ y.secretKey = x.secretKey /\ y.user = x.user
  /\ y.ip = x.ip /\ y.peer = x.peer /\ y.sent \in Nat
  /\ y.at = x.at \/ (x.at = "open" /\ y.at = "closing")
  /\ y.run => y.at = "open"
  /\ \/ y.st = x.st
     \/ x.at # "new" /\ y.st \notin Early
     \/ x.at # "new" /\ x.st \in Early /\ y.st \in Early \ {"proxy"}
  /\ y.st = "proxy" => y.in \in Seq(Pieces) /\ y.dial = "off"
  /\ y.at = "new" => y.dial = "off" /\ y.in = <<>>

SameLimits(H, G) ==
  DOMAIN G = HFields /\ G.active = H.active /\ G.conns = H.conns /\ G.lru = H.lru

LEMMA PlainSound ==
  ASSUME NEW x, NEW y, ConnSound(x), Plain(x, y)
  PROVE  /\ ConnSound(y) /\ (IsActive(y) <=> IsActive(x))
         /\ \A k : Holds(y, k) <=> Holds(x, k)
BY DEF ConnSound, Plain, IsActive, Holds, Early

LEMMA PlainLaw ==
  ASSUME IInv, NEW c \in Conns, NEW y, cx' = [cx EXCEPT ![c] = y],
         Plain(cx[c], y), SameLimits(h, h'), env' = env
  PROVE  IInv'
<1>1. ConnSound(cx[c]) /\ DOMAIN cx = Conns /\ HandlerShape(h)
  BY DEF IInv
<1>2. /\ ConnSound(y) /\ (IsActive(y) <=> IsActive(cx[c]))
      /\ \A k : Holds(y, k) <=> Holds(cx[c], k)
  BY <1>1, PlainSound
<1>3. DOMAIN cx' = Conns /\ cx'[c] = y /\ \A d \in Conns \ {c} : cx'[d] = cx[d]
  BY <1>1
<1>4. HandlerShape(h')
  BY <1>1 DEF HandlerShape, SameLimits
<1>5. LruSound(h'.lru, cx')
  BY <1>3, LruKept DEF SameLimits, Plain
<1>6. h'.active = h.active - Bit(IsActive(cx[c])) + Bit(IsActive(cx'[c]))
  <2>1. h.active \in Int /\ h'.active = h.active
    BY <1>1 DEF HandlerShape, SameLimits
  <2> QED
    BY <1>2, <1>3, <2>1 DEF Bit
<1>7. ASSUME NEW k \in Keys
      PROVE  h'.conns[k] = h.conns[k] - Bit(Holds(cx[c], k)) + Bit(Holds(cx'[c], k))
  <2>1. h.conns[k] \in Int /\ h'.conns[k] = h.conns[k]
    BY <1>1 DEF HandlerShape, SameLimits
  <2>2. Holds(cx'[c], k) <=> Holds(cx[c], k)
    BY <1>2, <1>3
  <2> QED
    BY <2>1, <2>2 DEF Bit
<1>8. cx'[c].at # "new" => cx[c].at # "new"
  BY <1>3 DEF Plain
<1> QED
  BY <1>2, <1>3, <1>4, <1>5, <1>6, <1>7, <1>8, OneConn

LEMMA NothingMoves ==
  ASSUME IInv, cx' = cx, SameLimits(h, h'), env' = env
  PROVE  IInv'
BY DEF IInv, SameLimits, HandlerShape

LEMMA Facts ==
  ASSUME IInv, NEW c \in Conns
  PROVE  /\ ConnSound(cx[c]) /\ DOMAIN cx = Conns /\ HandlerShape(h)
         /\ LruSound(h.lru, cx) /\ DOMAIN cx[c] = XFields
         /\ DOMAIN h = HFields
BY DEF IInv, ConnSound, HandlerShape

LEMMA InitInv == Init => IInv
<1> SUFFICES ASSUME Init PROVE IInv
  OBVIOUS
<1>1. PICK m \in Scenarios :
        /\ h = NewHandler /\ cx = [c \in Conns |-> NewConn]
        /\ env = [max |-> m]
  BY DEF Init
<1>2. HandlerShape(h) /\ h.active = 0 /\ h.lru = <<>>
      /\ \A k \in Keys : h.conns[k] = 0
  BY <1>1 DEF NewHandler, HandlerShape, HFields
<1>3. ConnSound(NewConn) /\ ~IsActive(NewConn) /\ \A k \in Keys : ~Holds(NewConn, k)
  <2>1. /\ DOMAIN NewConn = XFields /\ NewConn.at = "new"
        /\ NewConn.st = "detect" /\ NewConn.run = FALSE
        /\ NewConn.ipKey = NoKey /\ NewConn.secretKey = NoKey
        /\ NewConn.user = NoIP /\ NewConn.ip = NoIP /\ NewConn.peer = NoIP
        /\ NewConn.dial = "off" /\ NewConn.in = <<>> /\ NewConn.sent = 0
    BY DEF NewConn, XFields
  <2>2. NoIP \in Addresses
    BY DEF Addresses
  <2>3. NoKey \notin Keys
    BY DEF NoKey, Keys
  <2> QED
    BY <2>1, <2>2, <2>3 DEF ConnSound, IsActive, Holds
<1>4. Active(cx) = {} /\ \A k \in Keys : Holders(cx, k) = {}
  BY <1>1, <1>3 DEF Active, Holders
<1>5. Cardinality({}) = 0
  BY FS_EmptySet
<1>6. LruSound(h.lru, cx)
  <2>1. h.lru = <<>> /\ Len(<<>>) = 0 /\ 1..0 = {} /\ <<>> \in Seq(Entries)
    BY <1>2
  <2> QED
    BY <2>1 DEF LruSound
<1>7. \A c \in Conns : ConnSound(cx[c]) /\ cx[c].at = "new"
  BY <1>1, <1>3 DEF NewConn
<1> QED
  BY <1>1, <1>2, <1>4, <1>5, <1>6, <1>7 DEF IInv

-----------------------------------------------------------------------------
(* Changes of a record that count for nothing.                             *)
LEMMA SoundIsPlain ==
  ASSUME NEW x, ConnSound(x)
  PROVE  Plain(x, x) /\ DOMAIN x = XFields /\ x.sent \in Nat
BY DEF ConnSound, Plain

(* Fields that neither the limits nor the states depend on, and those a    *)
(* goroutine changes while it dials or reads.                              *)
Idle(x, y) ==
  /\ DOMAIN y = XFields
  /\ y.ipKey = x.ipKey /\ y.secretKey = x.secretKey /\ y.user = x.user
  /\ y.ip = x.ip /\ y.peer = x.peer /\ y.sent = x.sent
  /\ y.at = x.at /\ y.run = x.run
  /\ y.st = x.st \/ y.st \in {"relaying", "splicing"}

LEMMA IdleWhileDialing ==
  ASSUME NEW x, NEW y, ConnSound(x), Idle(x, y), x.dial # "off"
  PROVE  Plain(x, y)
BY DEF ConnSound, Plain, Idle, Early

LEMMA IdleOtherwise ==
  ASSUME NEW x, NEW y, ConnSound(x), Idle(x, y), y.st = x.st,
         y.in = x.in, y.dial = x.dial
  PROVE  Plain(x, y)
BY DEF ConnSound, Plain, Idle

(* A turn that goes on, returns or closes.                                 *)
LEMMA TurnIsPlain ==
  ASSUME NEW x, NEW y, ConnSound(x), x.at = "open", DOMAIN y = XFields,
         y.ipKey = x.ipKey, y.secretKey = x.secretKey, y.user = x.user,
         y.ip = x.ip, y.peer = x.peer, y.sent = x.sent,
         \/ y.at = "open"
         \/ y.at = "closing" /\ ~y.run,
         \/ y.st = x.st /\ x.st # "proxy"
         \/ y.st \notin Early
         \/ x.st \in Early /\ y.st \in Early \ {"proxy"}
         \/ y.st = x.st /\ y.in \in {x.in, <<>>} /\ y.dial = x.dial
  PROVE  Plain(x, y)
<1>1. <<>> \in Seq(Pieces)
  OBVIOUS
<1> QED
  BY <1>1 DEF ConnSound, Plain, Early

-----------------------------------------------------------------------------
LEMMA DialStep ==
  ASSUME IInv, NEW c \in Conns, DialDC(c)
  PROVE  IInv'
<1> DEFINE x == cx[c]
<1>0. /\ ConnSound(x) /\ DOMAIN cx = Conns /\ DOMAIN x = XFields
      /\ DOMAIN h = HFields /\ SameLimits(h, h) /\ x.dial # "off"
  BY Facts DEF SameLimits, DialDC, Dialing, DialStarts, Dials, DialChecks,
     DialEnrolls, DialSetsContext, DialForgets, SetRelay, SetRelayState,
     DialRegisters, SendPendingData, DialWakes
<1>1. /\ SameLimits(h, h') /\ env' = env
  BY <1>0 DEF SameLimits, HFields, DialDC, DialStarts, Dials, DialChecks,
     DialEnrolls, DialSetsContext, DialForgets, SetRelay, SetRelayState,
     DialRegisters, SendPendingData, DialWakes
<1>2. PICK y : cx' = [cx EXCEPT ![c] = y] /\ Idle(x, y)
  <2>1. ASSUME NEW pc, DialGoes(c, pc)
        PROVE  \E y : cx' = [cx EXCEPT ![c] = y] /\ Idle(x, y)
    <3>1. Idle(x, [x EXCEPT !.dial = pc])
      BY <1>0 DEF Idle, XFields
    <3>2. cx' = [cx EXCEPT ![c] = [x EXCEPT !.dial = pc]]
      BY <2>1 DEF DialGoes
    <3> QED
      BY <3>1, <3>2
  <2>2. ASSUME DialEnds(c)
        PROVE  \E y : cx' = [cx EXCEPT ![c] = y] /\ Idle(x, y)
    <3>1. Idle(x, [Kill(x) EXCEPT !.dial = "done"])
      BY <1>0 DEF Idle, Kill, XFields
    <3>2. cx' = [cx EXCEPT ![c] = [Kill(x) EXCEPT !.dial = "done"]]
      BY <2>2 DEF DialEnds
    <3> QED
      BY <3>1, <3>2
  <2>3. CASE \/ DialStarts(c) \/ Dials(c) \/ DialChecks(c) \/ DialEnrolls(c)
             \/ DialSetsContext(c) \/ DialForgets(c) \/ DialRegisters(c)
    BY <2>1, <2>2, <2>3 DEF DialStarts, Dials, DialChecks, DialEnrolls,
       DialSetsContext, DialForgets, DialRegisters
  <2>4. CASE SetRelay(c)
    <3>1. Idle(x, [x EXCEPT !.relay = TRUE, !.dial = "state"])
      BY <1>0 DEF Idle, XFields
    <3>2. cx' = [cx EXCEPT ![c] = [x EXCEPT !.relay = TRUE, !.dial = "state"]]
      BY <1>0, <2>4 DEF SetRelay
    <3> QED
      BY <3>1, <3>2
  <2>5. CASE SetRelayState(c)
    <3>1. Idle(x, [x EXCEPT !.st = "relaying", !.dial = "register"])
      BY <1>0 DEF Idle, XFields
    <3>2. cx' = [cx EXCEPT ![c] = [x EXCEPT !.st = "relaying", !.dial = "register"]]
      BY <1>0, <2>5 DEF SetRelayState
    <3> QED
      BY <3>1, <3>2
  <2>6. CASE SendPendingData(c)
    <3> DEFINE n == x.dec + Len(x.pending)
    <3>1. Idle(x, [x EXCEPT !.dial = "wake", !.dec = n])
      BY <1>0 DEF Idle, XFields
    <3>2. cx' = [cx EXCEPT ![c] = [x EXCEPT !.dial = "wake", !.dec = n]]
      BY <1>0, <2>6 DEF SendPendingData, XFields
    <3> QED
      BY <3>1, <3>2
  <2>7. CASE DialWakes(c)
    <3>1. Idle(x, [Wake(x) EXCEPT !.dial = "done"])
      BY <1>0 DEF Idle, Wake, XFields
    <3>2. cx' = [cx EXCEPT ![c] = [Wake(x) EXCEPT !.dial = "done"]]
      BY <2>7 DEF DialWakes
    <3> QED
      BY <3>1, <3>2
  <2> QED
    BY <2>3, <2>4, <2>5, <2>6, <2>7 DEF DialDC
<1>3. Plain(x, y)
  BY <1>0, <1>2, IdleWhileDialing
<1> QED
  BY <1>1, <1>2, <1>3, PlainLaw

LEMMA SpliceStep ==
  ASSUME IInv, NEW c \in Conns, DialSplice(c)
  PROVE  IInv'
<1> DEFINE x == cx[c]
<1>0. /\ ConnSound(x) /\ DOMAIN cx = Conns /\ DOMAIN x = XFields
      /\ DOMAIN h = HFields /\ x.dial # "off"
  BY Facts DEF DialSplice, Dialing, SpliceStarts, SpliceDials, SpliceChecks,
     SplicePeeks, SetSpliceConn, SpliceDiscards
<1>1. /\ SameLimits(h, h') /\ env' = env
  BY <1>0 DEF SameLimits, DialSplice, SpliceStarts, SpliceDials, SpliceChecks,
     SplicePeeks, SetSpliceConn, SpliceDiscards
<1>2. PICK y : cx' = [cx EXCEPT ![c] = y] /\ Idle(x, y)
  <2>1. ASSUME NEW pc, DialGoes(c, pc)
        PROVE  \E y : cx' = [cx EXCEPT ![c] = y] /\ Idle(x, y)
    <3>1. Idle(x, [x EXCEPT !.dial = pc])
      BY <1>0 DEF Idle, XFields
    <3>2. cx' = [cx EXCEPT ![c] = [x EXCEPT !.dial = pc]]
      BY <2>1 DEF DialGoes
    <3> QED
      BY <3>1, <3>2
  <2>2. ASSUME DialEnds(c)
        PROVE  \E y : cx' = [cx EXCEPT ![c] = y] /\ Idle(x, y)
    <3>1. Idle(x, [Kill(x) EXCEPT !.dial = "done"])
      BY <1>0 DEF Idle, Kill, XFields
    <3>2. cx' = [cx EXCEPT ![c] = [Kill(x) EXCEPT !.dial = "done"]]
      BY <2>2 DEF DialEnds
    <3> QED
      BY <3>1, <3>2
  <2>3. CASE SpliceStarts(c) \/ SpliceDials(c) \/ SpliceChecks(c)
    BY <2>1, <2>2, <2>3 DEF SpliceStarts, SpliceDials, SpliceChecks, SpliceFails
  <2>4. CASE SplicePeeks(c)
    <3>1. Idle(x, [x EXCEPT !.snap = Len(x.in), !.dial = "publish"])
      BY <1>0 DEF Idle, XFields
    <3>2. cx' = [cx EXCEPT ![c] = [x EXCEPT !.snap = Len(x.in), !.dial = "publish"]]
      BY <1>0, <2>4 DEF SplicePeeks
    <3> QED
      BY <3>1, <3>2
  <2>5. CASE SetSpliceConn(c)
    <3>1. Idle(x, [x EXCEPT !.spliced = TRUE, !.dial = "discard"])
      BY <1>0 DEF Idle, XFields
    <3>2. cx' = [cx EXCEPT ![c] = [x EXCEPT !.spliced = TRUE, !.dial = "discard"]]
      BY <1>0, <2>5 DEF SetSpliceConn
    <3> QED
      BY <3>1, <3>2
  <2>6. CASE SpliceDiscards(c)
    <3> DEFINE rest == SubSeq(x.in, x.snap + 1, Len(x.in))
               y == [x EXCEPT !.in = rest, !.snap = 0, !.dial = "reader"]
    <3>1. CASE SpliceFails(c)
      BY <2>2, <3>1 DEF SpliceFails
    <3>2. CASE ~SpliceFails(c)
      <4>1. Idle(x, y)
        BY <1>0 DEF Idle, XFields
      <4>2. cx' = [cx EXCEPT ![c] = y]
        BY <1>0, <2>6, <3>2 DEF SpliceDiscards, XFields
      <4> QED
        BY <4>1, <4>2
    <3> QED
      BY <3>1, <3>2
  <2> QED
    BY <2>3, <2>4, <2>5, <2>6 DEF DialSplice
<1>3. Plain(x, y)
  BY <1>0, <1>2, IdleWhileDialing
<1> QED
  BY <1>1, <1>2, <1>3, PlainLaw

LEMMA ReaderStep ==
  ASSUME IInv, NEW c \in Conns, Reader(c) \/ ReaderResumes(c)
  PROVE  IInv'
<1> DEFINE x == cx[c]
<1>0. /\ ConnSound(x) /\ DOMAIN cx = Conns /\ DOMAIN x = XFields
      /\ DOMAIN h = HFields /\ x.dial # "off"
  BY Facts DEF Dialing, Reader, ReaderResumes
<1>1. /\ SameLimits(h, h') /\ env' = env
  BY <1>0 DEF SameLimits, Reader, ReaderResumes
<1>2. PICK y : cx' = [cx EXCEPT ![c] = y] /\ Idle(x, y)
  <2>1. ASSUME NEW z, z \in {x, Kill(x), DrainRequested(x)}, ReaderEnds(c, z)
        PROVE  \E y : cx' = [cx EXCEPT ![c] = y] /\ Idle(x, y)
    <3>1. Idle(x, [z EXCEPT !.dial = "done"])
      BY <1>0, <2>1 DEF Idle, XFields, Kill, DrainRequested
    <3>2. cx' = [cx EXCEPT ![c] = [z EXCEPT !.dial = "done"]]
      BY <2>1 DEF ReaderEnds
    <3> QED
      BY <3>1, <3>2
  <2>2. CASE ReaderResumes(c)
    <3>1. Idle(x, [x EXCEPT !.dial = "reader"])
      BY <1>0 DEF Idle, XFields
    <3>2. cx' = [cx EXCEPT ![c] = [x EXCEPT !.dial = "reader"]]
      BY <2>2 DEF ReaderResumes, DialGoes
    <3> QED
      BY <3>1, <3>2
  <2>3. ASSUME NEW n, NEW s,
               cx' = [cx EXCEPT ![c] = [WriteToClient(x, s) EXCEPT !.flow = @ + n]]
        PROVE  \E y : cx' = [cx EXCEPT ![c] = y] /\ Idle(x, y)
    <3> DEFINE w == WriteToClient(x, s)
               y == [w EXCEPT !.flow = @ + n]
    <3>1. Idle(x, w)
      BY <1>0 DEF WriteToClient, Idle, XFields
    <3> HIDE DEF w
    <3>2. Idle(x, y)
      BY <3>1 DEF Idle, XFields
    <3> QED
      BY <2>3, <3>2 DEF w
  <2>4. CASE Reader(c)
    <3>1. \/ \E z \in {x, Kill(x), DrainRequested(x)} : ReaderEnds(c, z)
          \/ cx' = [cx EXCEPT ![c].dial = "throttled", ![c].sample = TRUE]
          \/ \E n, s : cx' = [cx EXCEPT ![c] =
                                [WriteToClient(x, s) EXCEPT !.flow = @ + n]]
      BY <2>4 DEF Reader, ReaderReads
    <3>2. CASE cx' = [cx EXCEPT ![c].dial = "throttled", ![c].sample = TRUE]
      <4>1. Idle(x, [x EXCEPT !.dial = "throttled", !.sample = TRUE])
        BY <1>0 DEF Idle, XFields
      <4>2. cx' = [cx EXCEPT ![c] = [x EXCEPT !.dial = "throttled", !.sample = TRUE]]
        BY <1>0, <3>2
      <4> QED
        BY <4>1, <4>2
    <3> QED
      BY <2>1, <2>3, <3>1, <3>2
  <2> QED
    BY <2>2, <2>4
<1>3. Plain(x, y)
  BY <1>0, <1>2, IdleWhileDialing
<1> QED
  BY <1>1, <1>2, <1>3, PlainLaw

(* Timers, the other side's events and queued writes.                      *)
LEMMA EventStep ==
  ASSUME IInv, NEW c \in Conns,
         \/ HandleDCTraffic(c) \/ DCCloses(c) \/ OnTick(c)
         \/ (\E direct \in BOOLEAN : WriteRuns(c, direct)) \/ ClientReads(c)
         \/ SampleSpliceBuffer(c) \/ DrainWakes(c) \/ DeadlineFires(c)
         \/ HandshakeTimeout(c)
  PROVE  IInv'
<1> DEFINE x == cx[c]
<1>0. /\ ConnSound(x) /\ DOMAIN cx = Conns /\ DOMAIN x = XFields
      /\ DOMAIN h = HFields
  BY Facts
<1>1. /\ SameLimits(h, h') /\ env' = env
  BY <1>0 DEF SameLimits, HFields, HandleDCTraffic, DCCloses, OnTick, WriteRuns,
     ClientReads, SampleSpliceBuffer, DrainWakes, DeadlineFires, HandshakeTimeout
<1> DEFINE Kept(y) == Idle(x, y) /\ y.st = x.st /\ y.in = x.in /\ y.dial = x.dial
<1>2. Kept(x) /\ Kept(Kill(x)) /\ Kept(Wake(x)) /\ \A s : Kept(WriteToClient(x, s))
  BY <1>0 DEF Idle, Kill, Wake, WriteToClient, XFields
<1>3. PICK y : cx' = [cx EXCEPT ![c] = y] /\ Kept(y)
  <2>1. CASE DCOnClose(c)
    <3>1. cx' = [cx EXCEPT ![c] = x] \/ cx' = [cx EXCEPT ![c] = Kill(x)]
      BY <2>1 DEF DCOnClose
    <3> HIDE DEF Kept
    <3> QED
      BY <1>2, <3>1
  <2>2. CASE HandleDCTraffic(c) /\ ~DCOnClose(c)
    <3>1. PICK s : cx' = [cx EXCEPT ![c] =
                      [WriteToClient(x, s) EXCEPT !.spoke =
                         IF @ = "nobody" THEN @ ELSE "server"]]
      BY <2>2 DEF HandleDCTraffic
    <3> DEFINE w == WriteToClient(x, s)
               z == [w EXCEPT !.spoke = IF @ = "nobody" THEN @ ELSE "server"]
    <3>2. Kept(w)
      BY <1>2
    <3> HIDE DEF w
    <3>3. Kept(z)
      BY <3>2 DEF Idle, XFields
    <3> QED
      BY <3>1, <3>3 DEF w
  <2>3. CASE OnTick(c)
    <3>1. cx' = [cx EXCEPT ![c] = Kill(x)]
      BY <2>3 DEF OnTick
    <3> HIDE DEF Kept
    <3> QED
      BY <1>2, <3>1
  <2>4. ASSUME NEW direct, WriteRuns(c, direct)
        PROVE  \E y : cx' = [cx EXCEPT ![c] = y] /\ Kept(y)
    <3>1. PICK a, b, d, e, g :
            cx' = [cx EXCEPT ![c] = [x EXCEPT !.hi = a, !.got = b, !.out = d,
                                              !.flow = e, !.sampled = g]]
      BY <2>4 DEF WriteRuns
    <3>2. Kept([x EXCEPT !.hi = a, !.got = b, !.out = d, !.flow = e, !.sampled = g])
      BY <1>0 DEF Idle, XFields
    <3> QED
      BY <3>1, <3>2
  <2>5. CASE ClientReads(c)
    <3>1. PICK n : cx' = [cx EXCEPT ![c] = [x EXCEPT !.out = n]]
      BY <2>5 DEF ClientReads
    <3>2. Kept([x EXCEPT !.out = n])
      BY <1>0 DEF Idle, XFields
    <3> QED
      BY <3>1, <3>2
  <2>6. CASE SampleSpliceBuffer(c)
    <3>1. PICK n : cx' = [cx EXCEPT ![c] = [x EXCEPT !.sample = FALSE, !.sampled = n]]
      BY <1>0, <2>6 DEF SampleSpliceBuffer
    <3>2. Kept([x EXCEPT !.sample = FALSE, !.sampled = n])
      BY <1>0 DEF Idle, XFields
    <3> QED
      BY <3>1, <3>2
  <2>7. CASE DrainWakes(c)
    <3> DEFINE w == Wake(x)
    <3>1. cx' = [cx EXCEPT ![c] = [w EXCEPT !.wakeTimer = FALSE]]
      BY <2>7 DEF DrainWakes
    <3>2. Kept(w)
      BY <1>2
    <3> HIDE DEF w
    <3>3. Kept([w EXCEPT !.wakeTimer = FALSE])
      BY <3>2 DEF Idle, XFields
    <3> QED
      BY <3>1, <3>3
  <2>8. CASE DeadlineFires(c)
    <3>1. cx' = [cx EXCEPT ![c] = [x EXCEPT !.deadline = "queued"]]
      BY <2>8 DEF DeadlineFires
    <3>2. Kept([x EXCEPT !.deadline = "queued"])
      BY <1>0 DEF Idle, XFields
    <3> QED
      BY <3>1, <3>2
  <2>9. CASE HandshakeTimeout(c)
    <3>1. PICK k : cx' = [cx EXCEPT ![c] = [x EXCEPT !.timer = FALSE, !.kill = k]]
      BY <1>0, <2>9 DEF HandshakeTimeout, XFields
    <3>2. Kept([x EXCEPT !.timer = FALSE, !.kill = k])
      BY <1>0 DEF Idle, XFields
    <3> QED
      BY <3>1, <3>2
  <2> HIDE DEF Kept
  <2>10. CASE DCCloses(c)
    BY <2>1, <2>10 DEF DCCloses
  <2> QED
    BY <2>1, <2>2, <2>3, <2>4, <2>5, <2>6, <2>7, <2>8, <2>9, <2>10
<1>4. Plain(x, y)
  BY <1>0, <1>3, IdleOtherwise
<1> QED
  BY <1>1, <1>3, <1>4, PlainLaw

LEMMA OutsideStep ==
  ASSUME IInv, (\E c \in Conns : UpstreamSends(c) \/ DCReads(c))
               \/ (\E ip \in IPs : BlockExpires(ip))
               \/ (\E s \in h.seen : SessionExpires(s))
  PROVE  IInv'
<1>1. DOMAIN h = HFields
  BY DEF IInv, HandlerShape
<1>2. cx' = cx /\ env' = env /\ SameLimits(h, h')
  BY <1>1 DEF UpstreamSends, DCReads, BlockExpires, SessionExpires, SameLimits,
     HFields
<1> QED
  BY <1>2, NothingMoves

LEMMA TrafficStep ==
  ASSUME IInv, NEW c \in Conns, OnTraffic(c) \/ ClientSends(c)
  PROVE  IInv'
<1> DEFINE x == cx[c]
<1>0. /\ ConnSound(x) /\ DOMAIN cx = Conns /\ DOMAIN x = XFields
      /\ DOMAIN h = HFields
  BY Facts
<1>1. /\ SameLimits(h, h') /\ env' = env /\ x.at = "open"
  BY <1>0 DEF SameLimits, OnTraffic, ClientSends
<1>2. CASE OnTraffic(c)
  <2>1. PICK r : cx' = [cx EXCEPT ![c] = [x EXCEPT !.wake = FALSE, !.run = r]]
    BY <1>0, <1>2 DEF OnTraffic, XFields
  <2> DEFINE y == [x EXCEPT !.wake = FALSE, !.run = r]
  <2>2. /\ DOMAIN y = XFields /\ y.ipKey = x.ipKey /\ y.secretKey = x.secretKey
        /\ y.user = x.user /\ y.ip = x.ip /\ y.peer = x.peer /\ y.sent = x.sent
        /\ y.at = "open" /\ y.st = x.st /\ y.in = x.in /\ y.dial = x.dial
    BY <1>0, <1>1 DEF XFields
  <2> HIDE DEF y
  <2>3. Plain(x, y)
    BY <1>0, <1>1, <2>2, TurnIsPlain
  <2> QED
    BY <1>1, <2>1, <2>3, PlainLaw DEF y
<1>3. CASE ClientSends(c)
  <2> DEFINE p == env.max.script[c][x.sent + 1]
             y == [x EXCEPT !.sent = @ + 1, !.wake = TRUE, !.in = Append(@, p)]
  <2>1. cx' = [cx EXCEPT ![c] = y]
    BY <1>0, <1>3 DEF ClientSends, XFields
  <2>2. x.at # "new" /\ x.sent \in Nat /\ (x.st = "proxy" => x.in \in Seq(Pieces))
        /\ (x.run => x.at = "open") /\ (x.st = "proxy" => x.dial = "off")
    BY <1>0, <1>1 DEF ConnSound
  <2>3. x.st = "proxy" => Append(x.in, p) \in Seq(Pieces)
    <3>1. c \in DOMAIN env.max.script
      BY <2>2 DEF IInv
    <3>2. env.max.script[c] \in Seq(Pieces)
      BY <3>1, ScenarioAssumption DEF IInv
    <3>3. x.sent < Len(env.max.script[c])
      BY <1>3 DEF ClientSends
    <3>4. x.sent + 1 \in 1..Len(env.max.script[c])
      BY <2>2, <3>2, <3>3
    <3>5. p \in Pieces
      BY <3>2, <3>4
    <3> HIDE DEF p
    <3> QED
      BY <2>2, <3>5
  <2> HIDE DEF p
  <2>4. Plain(x, y)
    BY <1>0, <1>1, <2>2, <2>3 DEF Plain, XFields
  <2> QED
    BY <1>1, <2>1, <2>4, PlainLaw
<1> QED
  BY <1>2, <1>3

-----------------------------------------------------------------------------
(* The turns that follow the handshake, and the handshakes that take no    *)
(* slot: the record keeps what it holds, and goes on, returns or closes.   *)
Sticks(x, y) ==
  /\ DOMAIN y = XFields
  /\ y.ipKey = x.ipKey /\ y.secretKey = x.secretKey /\ y.user = x.user
  /\ y.ip = x.ip /\ y.peer = x.peer /\ y.sent = x.sent /\ y.at = x.at

Ends(c, y) == Continues(c, y) \/ Returns(c, y) \/ Closes(c, y)

LEMMA StickLaw ==
  ASSUME IInv, NEW c \in Conns, cx[c].at = "open", NEW y,
         Sticks(cx[c], y), Ends(c, y), SameLimits(h, h'), env' = env,
         \/ y.st = cx[c].st /\ cx[c].st # "proxy"
         \/ y.st \notin Early
         \/ cx[c].st \in Early /\ y.st \in Early \ {"proxy"}
         \/ y.st = cx[c].st /\ y.in \in {cx[c].in, <<>>} /\ y.dial = cx[c].dial
  PROVE  IInv'
<1> DEFINE x == cx[c]
<1>0. ConnSound(x)
  BY Facts
<1>1. PICK z : /\ cx' = [cx EXCEPT ![c] = z]
               /\ z \in {y, [y EXCEPT !.run = FALSE],
                         [y EXCEPT !.run = FALSE, !.at = "closing"]}
  BY DEF Ends, Continues, Returns, Closes
<1>2. /\ DOMAIN z = XFields
      /\ z.ipKey = x.ipKey /\ z.secretKey = x.secretKey /\ z.user = x.user
      /\ z.ip = x.ip /\ z.peer = x.peer /\ z.sent = x.sent
      /\ z.st = y.st /\ z.in = y.in /\ z.dial = y.dial
      /\ z.at = "open" \/ (z.at = "closing" /\ ~z.run)
  <2>1. CASE z = y
    BY <2>1 DEF Sticks
  <2>2. CASE z = [y EXCEPT !.run = FALSE]
    BY <2>2 DEF Sticks, XFields
  <2>3. CASE z = [y EXCEPT !.run = FALSE, !.at = "closing"]
    BY <2>3 DEF Sticks, XFields
  <2> QED
    BY <1>1, <2>1, <2>2, <2>3
<1>3. Plain(x, z)
  BY <1>0, <1>2, TurnIsPlain
<1> QED
  BY <1>1, <1>3, PlainLaw

LEMMA RelayStep ==
  ASSUME IInv, NEW c \in Conns,
         \/ HandleRelay(c) \/ HandleRelayDD(c) \/ HandleSplice(c)
         \/ BeginSpliceDrain(c) \/ DeadlineRuns(c)
  PROVE  IInv'
<1> DEFINE x == cx[c]
<1>0. /\ ConnSound(x) /\ DOMAIN cx = Conns /\ DOMAIN x = XFields
      /\ DOMAIN h = HFields
  BY Facts
<1>1. x.at = "open"
  BY <1>0 DEF ConnSound, HandleRelay, HandleRelayDD, HandleSplice, Handling,
     BeginSpliceDrain, DeadlineRuns, LowPriority, LoopIdle
<1>2. SameLimits(h, h') /\ env' = env
  BY <1>0 DEF SameLimits, HandleRelay, HandleRelayDD, HandleSplice,
     BeginSpliceDrain, DeadlineRuns
<1> DEFINE Fits(y) == /\ Sticks(x, y) /\ y.st = x.st
                      /\ x.st # "proxy" \/ (y.in \in {x.in, <<>>} /\ y.dial = x.dial)
<1>3. \E y : Fits(y) /\ Ends(c, y)
  <2>0. Fits(x)
    BY <1>0 DEF Sticks
  <2>1. CASE HandleRelay(c)
    <3>1. PICK a, b, d, e, w :
            Ends(c, x) \/ Ends(c, [x EXCEPT !.in = a, !.throttled = b, !.dec = d,
                                            !.spoke = e])
            \/ Ends(c, [[x EXCEPT !.in = a, !.throttled = b, !.dec = d,
                                  !.spoke = e] EXCEPT !.wake = w])
      <4> DEFINE turn == TurnOf(x.in, MaxProcess(up[c].out, x.throttled, Len(x.in)))
                 s == Payload(turn)
                 a == SubSeq(x.in, Len(turn) + 1, Len(x.in))
                 b == Throttles(up[c].out, x.throttled)
                 d == x.dec + Len(s)
                 e == IF s = <<>> THEN x.spoke ELSE "client"
                 y == [x EXCEPT !.in = a, !.throttled = b, !.dec = d, !.spoke = e]
                 w == y.wake \/ y.in # <<>>
      <4>1. Ends(c, x) \/ Ends(c, y) \/ Ends(c, [y EXCEPT !.wake = w])
        BY <2>1 DEF HandleRelay, Ends
      <4> HIDE DEF a, b, d, e, w
      <4> QED
        BY <4>1
    <3> QED
      BY <1>0, <2>0, <2>1, <3>1 DEF Sticks, XFields, HandleRelay, Handling
  <2>2. CASE HandleRelayDD(c)
    <3>1. PICK a, b, d, w :
            Ends(c, x) \/ Ends(c, [x EXCEPT !.in = a, !.dec = d, !.throttled = b,
                                            !.spoke = "client"])
            \/ Ends(c, [[x EXCEPT !.in = a, !.dec = d, !.throttled = b,
                                  !.spoke = "client"] EXCEPT !.wake = w])
      <4> DEFINE limit == Min({MaxProcess(up[c].out, x.throttled, Len(x.in)), Len(x.in)})
                 n == Min({limit, Batch})
                 a == SubSeq(x.in, n + 1, Len(x.in))
                 b == Throttles(up[c].out, x.throttled)
                 d == x.dec + n
                 y == [x EXCEPT !.in = a, !.dec = d, !.throttled = b, !.spoke = "client"]
                 w == y.wake \/ y.in # <<>>
      <4>1. Ends(c, x) \/ Ends(c, y) \/ Ends(c, [y EXCEPT !.wake = w])
        BY <2>2 DEF HandleRelayDD, Ends
      <4> QED
        BY <4>1
    <3> QED
      BY <1>0, <2>0, <2>2, <3>1 DEF Sticks, XFields, HandleRelayDD, Handling
  <2>3. ASSUME NEW z, Fits(z), HandleSpliceDrain(c, z)
        PROVE  \E y : Fits(y) /\ Ends(c, y)
    <3> DEFINE y == [z EXCEPT !.in = <<>>]
    <3>1. Fits(y)
      BY <2>3 DEF Sticks, XFields
    <3> HIDE DEF y
    <3>2. Fits([y EXCEPT !.wakeTimer = TRUE]) /\ Fits(FinishSpliceDrain(y, "done"))
      BY <2>3, <3>1 DEF Sticks, XFields, FinishSpliceDrain
    <3>3. \/ Ends(c, y) \/ Ends(c, [y EXCEPT !.wakeTimer = TRUE])
          \/ Ends(c, FinishSpliceDrain(y, "done"))
      BY <2>3 DEF HandleSpliceDrain, Ends, y
    <3> HIDE DEF Fits
    <3> QED
      BY <3>1, <3>2, <3>3
  <2>4. CASE HandleSplice(c)
    <3>1. x.st # "proxy"
      BY <2>4 DEF HandleSplice, Handling
    <3>2. Fits([x EXCEPT !.in = <<>>])
      BY <1>0, <3>1 DEF Sticks, XFields
    <3>3. \/ HandleSpliceDrain(c, x) \/ Ends(c, x) \/ Ends(c, [x EXCEPT !.in = <<>>])
      BY <2>4 DEF HandleSplice, Ends
    <3> HIDE DEF Fits
    <3> QED
      BY <2>0, <2>3, <3>1, <3>2, <3>3
  <2>5. CASE BeginSpliceDrain(c)
    <3> DEFINE z == [x EXCEPT !.drain = "draining", !.deadline = "armed"]
    <3>1. Fits(z)
      BY <1>0 DEF Sticks, XFields
    <3>2. HandleSpliceDrain(c, z)
      BY <2>5 DEF BeginSpliceDrain
    <3> HIDE DEF Fits, z
    <3> QED
      BY <2>3, <3>1, <3>2
  <2>6. CASE DeadlineRuns(c)
    <3>1. Fits(FinishSpliceDrain(x, "expired"))
      BY <1>0 DEF Sticks, XFields, FinishSpliceDrain
    <3>2. Ends(c, FinishSpliceDrain(x, "expired"))
      BY <2>6 DEF DeadlineRuns, Ends
    <3> HIDE DEF Fits
    <3> QED
      BY <3>1, <3>2
  <2> HIDE DEF Fits
  <2> QED
    BY <2>1, <2>2, <2>4, <2>5, <2>6
<1> QED
  BY <1>1, <1>2, <1>3, StickLaw

LEMMA PlainHandshake ==
  ASSUME IInv, NEW c \in Conns,
         \/ HandleDetectProtocol(c) \/ HandleTLSHeader(c) \/ HandleO2Frame(c)
         \/ CommitAuthenticatedRoute(c)
  PROVE  IInv'
<1> DEFINE x == cx[c]
<1>0. /\ ConnSound(x) /\ DOMAIN cx = Conns /\ DOMAIN x = XFields
      /\ DOMAIN h = HFields
  BY Facts
<1>1. x.at = "open"
  BY <1>0 DEF ConnSound, HandleDetectProtocol, HandleTLSHeader, HandleO2Frame,
     CommitAuthenticatedRoute, Handling
<1>2. SameLimits(h, h') /\ env' = env
  BY <1>0 DEF SameLimits, HFields, HandleDetectProtocol, HandleTLSHeader,
     HandleO2Frame, CommitAuthenticatedRoute, Waits
<1> DEFINE Fits(y) == /\ Sticks(x, y)
                      /\ \/ y.st = x.st /\ x.st # "proxy"
                         \/ y.st \notin Early
                         \/ x.st \in Early /\ y.st \in Early \ {"proxy"}
<1>3. \E y : Fits(y) /\ Ends(c, y)
  <2>0. x.st # "proxy" => Fits(x)
    BY <1>0 DEF Sticks
  <2>1. CASE HandleDetectProtocol(c)
    <3> DEFINE y(m, s) == [x EXCEPT !.mode = m, !.st = s]
    <3>1. \/ Ends(c, x) \/ Ends(c, y("ee", "header")) \/ Ends(c, y("dd", "dd"))
      BY <2>1 DEF HandleDetectProtocol, Waits, Ends
    <3>2. x.st = "detect"
      BY <2>1 DEF HandleDetectProtocol, Handling
    <3>3. Fits(y("ee", "header")) /\ Fits(y("dd", "dd")) /\ Fits(x)
      BY <1>0, <2>0, <3>2 DEF Sticks, XFields, Early
    <3> HIDE DEF Fits, y
    <3> QED
      BY <3>1, <3>3
  <2>2. CASE HandleTLSHeader(c)
    <3> DEFINE y == [x EXCEPT !.st = "splicing", !.dial = "splice"]
               z == [x EXCEPT !.st = "payload"]
    <3>1. Ends(c, x) \/ Ends(c, y) \/ Ends(c, z)
      BY <2>2 DEF HandleTLSHeader, StartSplice, Ends
    <3>2. x.st = "header"
      BY <2>2 DEF HandleTLSHeader, Handling
    <3>3. Fits(x) /\ Fits(y) /\ Fits(z)
      BY <1>0, <2>0, <3>2 DEF Sticks, XFields, Early
    <3> HIDE DEF Fits, y, z
    <3> QED
      BY <3>1, <3>3
  <2>3. CASE HandleO2Frame(c)
    <3> DEFINE p == [i \in 1..Head(x.in).n |-> i]
               rest == [x EXCEPT !.in = Tail(@)]
               y == [rest EXCEPT !.cipher = TRUE, !.st = "route", !.pending = p]
    <3>1. Ends(c, x) \/ Ends(c, rest) \/ Ends(c, y)
      BY <2>3 DEF HandleO2Frame, Waits, Ends
    <3>2. x.st = "o2"
      BY <2>3 DEF HandleO2Frame, Handling
    <3> HIDE DEF p
    <3>3. Fits(x) /\ Fits(rest) /\ Fits(y)
      BY <1>0, <2>0, <3>2 DEF Sticks, XFields, Early
    <3> HIDE DEF Fits, rest, y
    <3> QED
      BY <3>1, <3>3
  <2>4. CASE CommitAuthenticatedRoute(c)
    <3> DEFINE y == [x EXCEPT !.st = "dialing", !.dial = "start"]
               z == [x EXCEPT !.st = "middle end"]
    <3>1. Ends(c, x) \/ Ends(c, y) \/ Ends(c, z)
      BY <2>4 DEF CommitAuthenticatedRoute, Ends
    <3>2. x.st = "route"
      BY <2>4 DEF CommitAuthenticatedRoute, Handling
    <3>3. Fits(x) /\ Fits(y) /\ Fits(z)
      BY <1>0, <2>0, <3>2 DEF Sticks, XFields, Early
    <3> HIDE DEF Fits, y, z
    <3> QED
      BY <3>1, <3>3
  <2> HIDE DEF Fits
  <2> QED
    BY <2>1, <2>2, <2>3, <2>4
<1> QED
  BY <1>1, <1>2, <1>3, StickLaw

-----------------------------------------------------------------------------
(* The slots of an address.  SlotsMove: the limiter's counts follow what a *)
(* record holds.                                                           *)
IPSlots == {NoKey} \cup (IPs \X {"ip"})

SlotsMove(H, x, G, y) ==
  /\ HandlerShape(G) /\ G.active = H.active /\ G.lru = H.lru
  /\ \A k \in Keys : G.conns[k] = H.conns[k] - Bit(Holds(x, k)) + Bit(Holds(y, k))

LEMMA KeyTypes ==
  ASSUME NEW ip \in IPs
  PROVE  /\ IPKey(ip) \in Keys /\ IPKey(ip) \in IPSlots /\ IPKey(ip) # NoKey
         /\ SecretKey(ip) \in Keys /\ SecretKey(ip) # NoKey
         /\ SecretKey(ip) \in IPs \X {"secret"}
         /\ NoKey \notin Keys /\ \A j : IPKey(j) # SecretKey(ip)
         /\ \A k \in IPSlots : k # SecretKey(ip)
         /\ \A k \in IPSlots \ {NoKey} : k \in Keys
BY DEF IPKey, SecretKey, Keys, IPSlots, NoKey

LEMMA SlotsStay ==
  ASSUME NEW H, HandlerShape(H), NEW x, NEW y,
         y.ipKey = x.ipKey, y.secretKey = x.secretKey
  PROVE  SlotsMove(H, x, H, y)
<1>1. \A k : Holds(x, k) <=> Holds(y, k)
  BY DEF Holds
<1>2. \A k \in Keys : Bit(Holds(x, k)) = Bit(Holds(y, k)) /\ Bit(Holds(x, k)) \in Int
  BY <1>1 DEF Bit
<1> QED
  BY <1>2 DEF SlotsMove, HandlerShape

(* Only the slot of the address changes in the record.                     *)
Rekeyed(x, y) ==
  /\ DOMAIN y = XFields /\ y.ipKey \in IPSlots
  /\ y.secretKey = x.secretKey /\ y.user = x.user /\ y.ip = x.ip
  /\ y.peer = x.peer /\ y.sent = x.sent /\ y.at = x.at /\ y.run = x.run
  /\ y.st = x.st /\ y.in = x.in /\ y.dial = x.dial

LEMMA AcquireLaw ==
  ASSUME NEW H, HandlerShape(H), NEW x, DOMAIN x = XFields,
         x.ipKey \in IPSlots, x.secretKey = NoKey, NEW ip \in Addresses
  PROVE  LET r == AcquireInitialIPLimit(H, x, ip)
         IN  /\ SlotsMove(H, x, r.h, r.x)
             /\ Rekeyed(x, r.x)
<1> DEFINE r == AcquireInitialIPLimit(H, x, ip)
<1>1. CASE r.h = H /\ r.x = x
  <2>1. SlotsMove(H, x, H, x)
    BY SlotsStay
  <2>2. Rekeyed(x, x)
    BY DEF Rekeyed
  <2> QED
    BY <1>1, <2>1, <2>2
<1>2. CASE ~(r.h = H /\ r.x = x)
  <2>1. /\ x.ipKey = NoKey /\ ip # NoIP
        /\ r.h = Acquired(H, IPKey(ip)) /\ r.x = [x EXCEPT !.ipKey = IPKey(ip)]
    BY <1>2 DEF AcquireInitialIPLimit, Admits, Refuses
  <2>2. ip \in IPs
    BY <2>1 DEF Addresses
  <2> DEFINE k == IPKey(ip)
             G == Acquired(H, k)
             y == [x EXCEPT !.ipKey = k]
  <2>3. k \in Keys /\ k \in IPSlots /\ k # NoKey /\ NoKey \notin Keys
    BY <2>2, KeyTypes
  <2> HIDE DEF k
  <2>4. y.ipKey = k /\ y.secretKey = NoKey /\ Rekeyed(x, y)
    BY <2>3 DEF XFields, Rekeyed
  <2>5. /\ HandlerShape(G) /\ G.active = H.active /\ G.lru = H.lru
        /\ \A j \in Keys : G.conns[j] = IF j = k THEN H.conns[k] + 1 ELSE H.conns[j]
    BY <2>3 DEF Acquired, HandlerShape, HFields
  <2> HIDE DEF G, y
  <2>6. ASSUME NEW j \in Keys
        PROVE  G.conns[j] = H.conns[j] - Bit(Holds(x, j)) + Bit(Holds(y, j))
    <3>1. ~Holds(x, j) /\ (Holds(y, j) <=> j = k) /\ H.conns[j] \in Int
      BY <2>1, <2>3, <2>4 DEF Holds, HandlerShape
    <3> QED
      BY <2>5, <3>1 DEF Bit
  <2> QED
    BY <2>1, <2>4, <2>5, <2>6 DEF SlotsMove, G, y, k
<1> QED
  BY <1>1, <1>2

(* The transfer releases a slot that is held: its count is not zero.       *)
LEMMA TransferLaw ==
  ASSUME NEW H, HandlerShape(H), NEW x, DOMAIN x = XFields,
         x.ipKey \in IPSlots, x.secretKey = NoKey, NEW ip \in Addresses,
         \A k \in Keys : H.conns[k] >= 0,
         x.ipKey # NoKey => H.conns[x.ipKey] # 0
  PROVE  LET r == TransferInitialIPLimit(H, x, ip)
         IN  SlotsMove(H, x, r.h, r.x) /\ Rekeyed(x, r.x)
<1> DEFINE r == TransferInitialIPLimit(H, x, ip)
<1>1. CASE r.h = H /\ r.x = x
  <2>1. SlotsMove(H, x, H, x)
    BY SlotsStay
  <2>2. Rekeyed(x, x)
    BY DEF Rekeyed
  <2> QED
    BY <1>1, <2>1, <2>2
<1>2. CASE r = AcquireInitialIPLimit(H, x, ip)
  BY <1>2, AcquireLaw
<1>3. CASE ~(r.h = H /\ r.x = x) /\ r # AcquireInitialIPLimit(H, x, ip)
  <2> DEFINE k == IPKey(ip)
             o == x.ipKey
             A == Acquired(H, k)
             G == Release(A, o)
             y == [x EXCEPT !.ipKey = k]
  <2>1. /\ o # NoKey /\ ip # NoIP /\ o # k /\ r.h = G /\ r.x = y
    BY <1>3 DEF TransferInitialIPLimit, Admits, Refuses
  <2>2. ip \in IPs
    BY <2>1 DEF Addresses
  <2>3. k \in Keys /\ k \in IPSlots /\ k # NoKey /\ NoKey \notin Keys /\ o \in Keys
    BY <2>1, <2>2, KeyTypes
  <2> HIDE DEF k
  <2>4. y.ipKey = k /\ y.secretKey = NoKey /\ Rekeyed(x, y)
    BY <2>3 DEF XFields, Rekeyed
  <2>5. /\ HandlerShape(A) /\ A.active = H.active /\ A.lru = H.lru
        /\ \A j \in Keys : A.conns[j] = IF j = k THEN H.conns[k] + 1 ELSE H.conns[j]
    BY <2>3 DEF Acquired, HandlerShape, HFields
  <2> HIDE DEF A
  <2>6. G = [A EXCEPT !.conns[o] = @ - 1]
    BY <2>1, <2>3, <2>5 DEF Release
  <2>7. /\ HandlerShape(G) /\ G.active = H.active /\ G.lru = H.lru
        /\ \A j \in Keys : G.conns[j] = IF j = o THEN A.conns[o] - 1 ELSE A.conns[j]
    BY <2>3, <2>5, <2>6 DEF HandlerShape, HFields
  <2> HIDE DEF G, y
  <2>8. ASSUME NEW j \in Keys
        PROVE  G.conns[j] = H.conns[j] - Bit(Holds(x, j)) + Bit(Holds(y, j))
    <3>1. /\ (Holds(x, j) <=> j = o) /\ (Holds(y, j) <=> j = k)
          /\ H.conns[j] \in Int
      BY <2>1, <2>3, <2>4 DEF Holds, HandlerShape
    <3> QED
      BY <2>1, <2>3, <2>5, <2>7, <3>1 DEF Bit
  <2> QED
    BY <2>1, <2>4, <2>7, <2>8 DEF SlotsMove
<1> QED
  BY <1>1, <1>2, <1>3

LEMMA SlotsMoveTwice ==
  ASSUME NEW H, HandlerShape(H), NEW F, NEW G, NEW x, NEW y, NEW z,
         NEW w, SlotsMove(H, x, F, y), SlotsMove(F, w, G, z),
         w.ipKey = y.ipKey, w.secretKey = y.secretKey
  PROVE  SlotsMove(H, x, G, z)
<1>1. ASSUME NEW k \in Keys
      PROVE  G.conns[k] = H.conns[k] - Bit(Holds(x, k)) + Bit(Holds(z, k))
  <2>1. H.conns[k] \in Int /\ Bit(Holds(w, k)) = Bit(Holds(y, k))
        /\ Bit(Holds(x, k)) \in Int /\ Bit(Holds(y, k)) \in Int
        /\ Bit(Holds(z, k)) \in Int
    BY DEF HandlerShape, Holds, Bit
  <2>2. /\ F.conns[k] = H.conns[k] - Bit(Holds(x, k)) + Bit(Holds(y, k))
        /\ G.conns[k] = F.conns[k] - Bit(Holds(w, k)) + Bit(Holds(z, k))
    BY DEF SlotsMove
  <2> QED
    BY <2>1, <2>2
<1> QED
  BY <1>1 DEF SlotsMove

LEMMA SlotLaw ==
  ASSUME IInv, NEW c \in Conns, NEW y, cx' = [cx EXCEPT ![c] = y],
         ConnSound(y), cx[c].at = "open", y.at \in {"open", "closing"},
         y.user = cx[c].user, SlotsMove(h, cx[c], h', y), env' = env
  PROVE  IInv'
<1>1. DOMAIN cx = Conns /\ HandlerShape(h)
  BY DEF IInv
<1>2. DOMAIN cx' = Conns /\ cx'[c] = y /\ \A d \in Conns \ {c} : cx'[d] = cx[d]
  BY <1>1
<1>3. LruSound(h'.lru, cx')
  BY <1>2, LruKept DEF SlotsMove
<1>4. h'.active = h.active - Bit(IsActive(cx[c])) + Bit(IsActive(cx'[c]))
  <2>1. h.active \in Int /\ h'.active = h.active
    BY <1>1 DEF HandlerShape, SlotsMove
  <2>2. IsActive(cx[c]) /\ IsActive(cx'[c])
    BY <1>2 DEF IsActive
  <2> QED
    BY <2>1, <2>2 DEF Bit
<1>5. HandlerShape(h')
      /\ \A k \in Keys : h'.conns[k] = h.conns[k] - Bit(Holds(cx[c], k))
                                          + Bit(Holds(cx'[c], k))
  BY <1>2 DEF SlotsMove
<1> QED
  BY <1>2, <1>3, <1>4, <1>5, OneConn

LEMMA SlotIsCounted ==
  ASSUME IInv, NEW c \in Conns
  PROVE  /\ \A k \in Keys : h.conns[k] >= 0
         /\ \A k \in Keys : Holds(cx[c], k) => h.conns[k] > 0
<1> SUFFICES ASSUME NEW k \in Keys
             PROVE  h.conns[k] >= 0 /\ (Holds(cx[c], k) => h.conns[k] > 0)
  OBVIOUS
<1> DEFINE A == Holders(cx, k)
<1>1. A \in SUBSET Conns /\ (c \in A <=> Holds(cx[c], k)) /\ h.conns[k] = Cardinality(A)
  BY DEF Holders, IInv
<1> HIDE DEF A
<1>2. Cardinality(A) \in Nat /\ (c \in A => Cardinality(A) > 0)
  BY <1>1, CountMoves
<1> QED
  BY <1>1, <1>2

(* A connection that may still begin with a PROXY header.                  *)
ProxySound(y) ==
  /\ DOMAIN y = XFields /\ y.at = "open" /\ y.st = "proxy" /\ y.dial = "off"
  /\ y.ipKey \in IPSlots /\ y.secretKey = NoKey /\ y.user = NoIP
  /\ y.ip \in Addresses /\ y.peer \in Addresses /\ y.sent \in Nat
  /\ y.in \in Seq(Pieces)

LEMMA ProxySoundEnds ==
  ASSUME NEW y, ProxySound(y)
  PROVE  /\ ConnSound(y) /\ ConnSound([y EXCEPT !.run = FALSE])
         /\ ConnSound([y EXCEPT !.st = "detect"])
         /\ ConnSound([y EXCEPT !.run = FALSE, !.at = "closing"])
<1>1. NoIP \in Addresses
  BY DEF Addresses
<1>2. ConnSound(y)
  BY <1>1 DEF ProxySound, ConnSound, IPSlots
<1>3. ConnSound([y EXCEPT !.run = FALSE])
  BY <1>1 DEF ProxySound, ConnSound, IPSlots, XFields
<1>4. ConnSound([y EXCEPT !.st = "detect"])
  BY <1>1 DEF ProxySound, ConnSound, IPSlots, XFields
<1>5. ConnSound([y EXCEPT !.run = FALSE, !.at = "closing"])
  BY <1>1 DEF ProxySound, ConnSound, IPSlots, XFields
<1> QED
  BY <1>2, <1>3, <1>4, <1>5

LEMMA RekeyedProxy ==
  ASSUME NEW x, NEW y, ProxySound(x), Rekeyed(x, y)
  PROVE  ProxySound(y)
BY DEF ProxySound, Rekeyed

(* A limiter's decision in that state.                                     *)
LEMMA ThenLaw ==
  ASSUME IInv, NEW c \in Conns, cx[c].at = "open", cx[c].user = NoIP, NEW r,
         ProxySound(r.x), SlotsMove(h, cx[c], r.h, r.x), env' = env,
         Then(c, r, [r.x EXCEPT !.st = "detect"])
  PROVE  IInv'
<1> DEFINE y == r.x
<1>1. PICK z : /\ cx' = [cx EXCEPT ![c] = z]
               /\ z \in {[y EXCEPT !.st = "detect"],
                         [y EXCEPT !.run = FALSE, !.at = "closing"]}
  BY DEF Then, Continues, Closes
<1>2. ConnSound(z)
  BY <1>1, ProxySoundEnds
<1>3. /\ z.ipKey = y.ipKey /\ z.secretKey = y.secretKey /\ z.user = NoIP
      /\ z.at \in {"open", "closing"}
  BY <1>1, ZenonT(60) DEF ProxySound, XFields
<1>4. h' = r.h /\ HandlerShape(h)
  BY DEF Then, IInv
<1>5. SlotsMove(h', y, h', z)
  BY <1>3, <1>4, SlotsStay DEF SlotsMove
<1>6. SlotsMove(h, cx[c], h', z)
  BY <1>4, <1>5, SlotsMoveTwice
<1> QED
  BY <1>1, <1>2, <1>3, <1>6, SlotLaw

LEMMA FallbackStep ==
  ASSUME IInv, NEW c \in Conns, cx[c].at = "open", cx[c].user = NoIP, NEW x,
         ProxySound(x), x.ipKey = cx[c].ipKey, x.secretKey = cx[c].secretKey,
         FallbackFromProxyProtocol(c, x), env' = env
  PROVE  IInv'
<1> DEFINE r == AcquireInitialIPLimit(h, x, x.peer)
<1>0. HandlerShape(h)
  BY DEF IInv
<1>1. SlotsMove(h, x, r.h, r.x) /\ Rekeyed(x, r.x)
  BY <1>0, AcquireLaw DEF ProxySound
<1>2. Then(c, r, [r.x EXCEPT !.st = "detect"])
  BY DEF FallbackFromProxyProtocol
<1> HIDE DEF r
<1>3. SlotsMove(h, cx[c], h, x)
  BY <1>0, SlotsStay
<1>4. SlotsMove(h, cx[c], r.h, r.x)
  BY <1>0, <1>1, <1>3, SlotsMoveTwice
<1> QED
  BY <1>1, <1>2, <1>4, RekeyedProxy, ThenLaw

LEMMA HeaderStep ==
  ASSUME IInv, NEW c \in Conns, cx[c].at = "open", cx[c].user = NoIP, NEW x,
         ProxySound(x), x.ipKey = cx[c].ipKey, x.secretKey = cx[c].secretKey,
         NEW src \in Addresses, AcceptProxyHeader(c, x, src), env' = env
  PROVE  IInv'
<1> DEFINE t == IF x.authed THEN TransferInitialIPLimit(h, x, src) ELSE Admits(h, x)
           y == [t.x EXCEPT !.ip = IF src = NoIP THEN @ ELSE src]
           r == AcquireInitialIPLimit(t.h, y, y.ip)
<1>0. HandlerShape(h) /\ SlotsMove(h, cx[c], h, x)
  BY SlotsStay DEF IInv
<1>1. SlotsMove(h, x, t.h, t.x) /\ Rekeyed(x, t.x)
  <2>1. CASE x.authed
    <3>1. x.ipKey # NoKey => x.ipKey \in Keys /\ Holds(cx[c], x.ipKey)
      BY DEF ProxySound, IPSlots, Keys, Holds
    <3>2. x.ipKey # NoKey => h.conns[x.ipKey] # 0
      BY <1>0, <3>1, SlotIsCounted DEF HandlerShape
    <3>3. \A k \in Keys : h.conns[k] >= 0
      BY SlotIsCounted
    <3> QED
      BY <1>0, <2>1, <3>2, <3>3, TransferLaw DEF ProxySound
  <2>2. CASE ~x.authed
    <3>1. t.h = h /\ t.x = x
      BY <2>2 DEF Admits
    <3>2. SlotsMove(h, x, h, x)
      BY <1>0, SlotsStay
    <3>3. Rekeyed(x, x)
      BY DEF Rekeyed, ProxySound
    <3> QED
      BY <3>1, <3>2, <3>3
  <2> QED
    BY <2>1, <2>2
<1>2. IF ~t.ok THEN Then(c, t, y) ELSE Then(c, r, [r.x EXCEPT !.st = "detect"])
  BY DEF AcceptProxyHeader
<1> HIDE DEF t
<1>3. ProxySound(t.x)
  BY <1>1, RekeyedProxy
<1>4. ProxySound(y) /\ y.ipKey = t.x.ipKey /\ y.secretKey = t.x.secretKey
  BY <1>3 DEF ProxySound, XFields, Addresses
<1>5. SlotsMove(h, cx[c], t.h, t.x)
  BY <1>0, <1>1, SlotsMoveTwice
<1>6. CASE ~t.ok
  <2>1. Then(c, t, [t.x EXCEPT !.st = "detect"])
    BY <1>2, <1>6 DEF Then
  <2> QED
    BY <1>3, <1>5, <2>1, ThenLaw
<1>7. CASE t.ok
  <2> HIDE DEF y
  <2>1. HandlerShape(t.h)
    BY <1>1 DEF SlotsMove
  <2>2. SlotsMove(t.h, y, r.h, r.x) /\ Rekeyed(y, r.x)
    BY <1>4, <2>1, AcquireLaw DEF ProxySound
  <2> HIDE DEF r
  <2>3. SlotsMove(h, cx[c], r.h, r.x)
    BY <1>0, <1>4, <1>5, <2>2, SlotsMoveTwice
  <2>4. ProxySound(r.x)
    BY <1>4, <2>2, RekeyedProxy
  <2> QED
    BY <1>2, <1>7, <2>3, <2>4, ThenLaw
<1> QED
  BY <1>6, <1>7

LEMMA ProxyStep ==
  ASSUME IInv, NEW c \in Conns, HandleProxyProto(c)
  PROVE  IInv'
<1> DEFINE x == cx[c]
           it == Head(x.in)
           rest == [x EXCEPT !.in = Tail(@)]
           known == [x EXCEPT !.candidate = FALSE]
           hop == [rest EXCEPT !.candidate = FALSE, !.authed = TRUE]
<1>0. /\ ConnSound(x) /\ DOMAIN cx = Conns /\ DOMAIN x = XFields
      /\ DOMAIN h = HFields /\ HandlerShape(h) /\ x.st = "proxy" /\ x.run
      /\ env' = env
  BY Facts DEF HandleProxyProto, Handling
<1>1. ProxySound(x) /\ x.at = "open" /\ x.user = NoIP
  BY <1>0 DEF ConnSound, ProxySound, IPSlots, Early
<1>2. ProxySound(known) /\ known.ipKey = x.ipKey /\ known.secretKey = x.secretKey
  BY <1>0, <1>1 DEF ProxySound, XFields
<1>3. ASSUME h' = h, NEW y, ProxySound(y), y.ipKey = x.ipKey,
             y.secretKey = x.secretKey,
             Continues(c, y) \/ Closes(c, y) \/ Returns(c, y)
      PROVE  IInv'
  <2>1. PICK z : /\ cx' = [cx EXCEPT ![c] = z]
                 /\ z \in {y, [y EXCEPT !.run = FALSE],
                           [y EXCEPT !.run = FALSE, !.at = "closing"]}
    BY <1>3 DEF Continues, Returns, Closes
  <2>2. ConnSound(z)
    BY <1>3, <2>1, ProxySoundEnds
  <2>3. /\ z.ipKey = x.ipKey /\ z.secretKey = x.secretKey /\ z.user = NoIP
        /\ z.at \in {"open", "closing"}
    BY <1>3, <2>1, ZenonT(60) DEF ProxySound, XFields
  <2>4. SlotsMove(h, x, h', z)
    BY <1>0, <1>3, <2>3, SlotsStay
  <2> QED
    BY <1>0, <1>1, <2>1, <2>2, <2>3, <2>4, SlotLaw
<1>4. CASE NeedsMore(c, 1)
  <2>1. h' = h /\ Returns(c, x)
    BY <1>4 DEF HandleProxyProto, Waits
  <2> QED
    BY <1>1, <1>3, <2>1
<1>5. CASE ~NeedsMore(c, 1)
  <2>1. x.in \in Seq(Pieces) /\ Len(x.in) >= 1
    BY <1>1, <1>5 DEF ProxySound, NeedsMore
  <2>2. it \in Pieces /\ Tail(x.in) \in Seq(Pieces)
    BY <2>1
  <2>3. it.k = "header" => it.n \in Addresses
    BY <2>2 DEF Pieces
  <2>4. /\ ProxySound(rest) /\ rest.ipKey = x.ipKey /\ rest.secretKey = x.secretKey
        /\ ProxySound(hop) /\ hop.ipKey = x.ipKey /\ hop.secretKey = x.secretKey
    BY <1>0, <1>1, <2>2 DEF ProxySound, XFields
  <2>5. \/ (Continues(c, hop) \/ Closes(c, x) \/ Continues(c, known)) /\ h' = h
        \/ FallbackFromProxyProtocol(c, known) \/ FallbackFromProxyProtocol(c, x)
        \/ it.k = "header" /\ AcceptProxyHeader(c, rest, it.n)
    BY <1>5 DEF HandleProxyProto
  <2> HIDE DEF it, rest, known, hop
  <2>6. CASE (Continues(c, hop) \/ Closes(c, x) \/ Continues(c, known)) /\ h' = h
    BY <1>1, <1>2, <1>3, <2>4, <2>6
  <2>7. CASE FallbackFromProxyProtocol(c, known) \/ FallbackFromProxyProtocol(c, x)
    BY <1>0, <1>1, <1>2, <2>7, FallbackStep
  <2>8. CASE it.k = "header" /\ AcceptProxyHeader(c, rest, it.n)
    BY <1>0, <1>1, <2>3, <2>4, <2>8, HeaderStep
  <2> QED
    BY <2>5, <2>6, <2>7, <2>8
<1> QED
  BY <1>4, <1>5

-----------------------------------------------------------------------------
LEMMA RekeyedSound ==
  ASSUME NEW x, NEW y, ConnSound(x), x.at = "open", Rekeyed(x, y)
  PROVE  ConnSound(y) /\ y.at = "open" /\ y.user = x.user
BY DEF ConnSound, Rekeyed, IPSlots

LEMMA OpenEnds ==
  ASSUME NEW y, ConnSound(y), y.at = "open"
  PROVE  /\ ConnSound([y EXCEPT !.timer = TRUE])
         /\ ConnSound([y EXCEPT !.run = FALSE, !.at = "closing"])
<1>1. ConnSound([y EXCEPT !.timer = TRUE])
  BY DEF ConnSound, XFields
<1>2. ConnSound([y EXCEPT !.run = FALSE, !.at = "closing"])
  BY DEF ConnSound, XFields
<1> QED
  BY <1>1, <1>2

LEMMA OpenStep ==
  ASSUME IInv, NEW c \in Conns, OnOpen(c)
  PROVE  IInv'
<1> DEFINE x == cx[c]
           ip == env.max.peer[c]
           candidate == env.max.internal /\ TrustedPeer(ip)
           H == [h EXCEPT !.active = @ + 1]
           st == IF env.max.proxy \/ candidate THEN "proxy" ELSE x.st
           y == [x EXCEPT !.at = "open", !.peer = ip, !.ip = ip,
                          !.candidate = candidate, !.st = st]
           key == IF candidate /\ ip = NoIP THEN Loopback ELSE ip
           r == AcquireInitialIPLimit(H, y, key)
<1>0. /\ ConnSound(x) /\ DOMAIN cx = Conns /\ DOMAIN x = XFields
      /\ HandlerShape(h) /\ env' = env
      /\ x.at = "new" /\ c \in DOMAIN env.max.script
  BY Facts DEF OnOpen
<1>1. IF MaxConnections > 0 /\ H.active > MaxConnections
      THEN h' = H /\ Closes(c, y)
      ELSE Then(c, r, [r.x EXCEPT !.timer = TRUE])
  BY DEF OnOpen
<1>2. ip \in Addresses /\ key \in Addresses
  <2>1. ip \in Addresses
    BY <1>0, ScenarioAssumption DEF IInv
  <2>2. Loopback \in Addresses
    BY LimitsAssumption DEF Addresses
  <2> QED
    BY <2>1, <2>2
<1>3. /\ x.ipKey = NoKey /\ x.secretKey = NoKey /\ x.user = NoIP
      /\ x.st = "detect" /\ x.in = <<>> /\ x.dial = "off" /\ ~x.run
  BY <1>0 DEF ConnSound
<1>4. st \in {"proxy", "detect"}
  BY <1>3
<1> HIDE DEF ip, candidate, st, key
<1>5. /\ y.at = "open" /\ DOMAIN y = XFields /\ y.ipKey = NoKey
      /\ y.secretKey = NoKey /\ y.user = NoIP
  BY <1>0, <1>3 DEF XFields
<1>6. ConnSound(y)
  <2>1. NoIP \in Addresses /\ <<>> \in Seq(Pieces)
    BY DEF Addresses
  <2> QED
    BY <1>0, <1>2, <1>3, <1>4, <2>1 DEF ConnSound, XFields
<1>7. /\ HandlerShape(H) /\ H.active = h.active + 1 /\ H.lru = h.lru
      /\ H.conns = h.conns
  BY <1>0 DEF HandlerShape, HFields
<1> HIDE DEF y, H
<1>8. SlotsMove(H, y, r.h, r.x) /\ Rekeyed(y, r.x)
  BY <1>2, <1>5, <1>7, AcquireLaw DEF IPSlots
<1>9. PICK z, w : /\ cx' = [cx EXCEPT ![c] = z] /\ ConnSound(w)
                  /\ w.at = "open" /\ w.user = NoIP
                  /\ z \in {[w EXCEPT !.timer = TRUE],
                            [w EXCEPT !.run = FALSE, !.at = "closing"]}
                  /\ SlotsMove(H, y, h', w)
  <2>1. CASE MaxConnections > 0 /\ H.active > MaxConnections
    <3>1. h' = H /\ cx' = [cx EXCEPT ![c] = [y EXCEPT !.run = FALSE, !.at = "closing"]]
      BY <1>1, <2>1 DEF Closes
    <3>2. SlotsMove(H, y, H, y)
      BY <1>7, SlotsStay
    <3> QED
      BY <1>5, <1>6, <3>1, <3>2
  <2>2. CASE ~(MaxConnections > 0 /\ H.active > MaxConnections)
    <3> HIDE DEF r
    <3>1. /\ h' = r.h
          /\ \/ cx' = [cx EXCEPT ![c] = [r.x EXCEPT !.timer = TRUE]]
             \/ cx' = [cx EXCEPT ![c] = [r.x EXCEPT !.run = FALSE, !.at = "closing"]]
      BY <1>1, <2>2 DEF Then, Continues, Closes
    <3>2. ConnSound(r.x) /\ r.x.at = "open" /\ r.x.user = NoIP
      BY <1>5, <1>6, <1>8, RekeyedSound
    <3> QED
      BY <1>8, <3>1, <3>2
  <2> QED
    BY <2>1, <2>2
<1> HIDE DEF r
<1>10. ConnSound(z)
  BY <1>9, OpenEnds
<1>11. /\ z.at \in {"open", "closing"} /\ z.ipKey = w.ipKey
       /\ z.secretKey = w.secretKey /\ z.user = NoIP
  BY <1>9, ZenonT(60) DEF ConnSound, XFields
<1>12. DOMAIN cx' = Conns /\ cx'[c] = z /\ \A d \in Conns \ {c} : cx'[d] = cx[d]
  BY <1>0, <1>9
<1>13. LruSound(h'.lru, cx')
  BY <1>3, <1>7, <1>9, <1>11, <1>12, LruKept DEF SlotsMove
<1>14. h'.active = h.active - Bit(IsActive(x)) + Bit(IsActive(cx'[c]))
  <2>1. h.active \in Int /\ h'.active = h.active + 1
    BY <1>0, <1>7, <1>9 DEF HandlerShape, SlotsMove
  <2>2. ~IsActive(x) /\ IsActive(cx'[c])
    BY <1>0, <1>11, <1>12 DEF IsActive
  <2> QED
    BY <2>1, <2>2 DEF Bit
<1>15. ASSUME NEW k \in Keys
       PROVE  h'.conns[k] = h.conns[k] - Bit(Holds(x, k)) + Bit(Holds(cx'[c], k))
  <2>1. h'.conns[k] = h.conns[k] - Bit(Holds(y, k)) + Bit(Holds(w, k))
    BY <1>7, <1>9 DEF SlotsMove
  <2>2. Bit(Holds(y, k)) = Bit(Holds(x, k)) /\ Bit(Holds(w, k)) = Bit(Holds(cx'[c], k))
    BY <1>3, <1>5, <1>11, <1>12 DEF Holds
  <2> QED
    BY <2>1, <2>2
<1>16. HandlerShape(h')
  BY <1>9 DEF SlotsMove
<1> QED
  BY <1>0, <1>10, <1>12, <1>13, <1>14, <1>15, <1>16, OneConn

(* OnClose: first the connection is no longer active ...                   *)
LEMMA CloseBeginsStep ==
  ASSUME IInv, NEW c \in Conns, CloseBegins(c)
  PROVE  IInv'
<1> DEFINE x == cx[c]
           d == IF x.drain \in {"requested", "draining"} THEN "cancelled" ELSE x.drain
           f == FinishSpliceDrain(x, d)
           y == [f EXCEPT !.at = "ending", !.st = "closed", !.kill = FALSE,
                          !.wake = FALSE, !.in = <<>>, !.hi = <<>>, !.out = 0,
                          !.sample = FALSE]
<1>0. /\ ConnSound(x) /\ DOMAIN cx = Conns /\ DOMAIN x = XFields
      /\ HandlerShape(h) /\ env' = env
  BY Facts DEF CloseBegins
<1>1. /\ cx' = [cx EXCEPT ![c] = y]
      /\ h' = [h EXCEPT !.active = @ - 1, !.relays = @ \ {c}]
  BY DEF CloseBegins
<1>2. x.at \in {"open", "closing"} /\ ~x.run
  BY <1>0 DEF CloseBegins, LowPriority, LoopIdle, ConnSound
<1>3. /\ DOMAIN y = XFields /\ y.at = "ending" /\ y.st = "closed"
      /\ y.run = x.run /\ y.ipKey = x.ipKey /\ y.secretKey = x.secretKey
      /\ y.user = x.user /\ y.ip = x.ip /\ y.peer = x.peer /\ y.sent = x.sent
  BY <1>0 DEF XFields, FinishSpliceDrain
<1> HIDE DEF y
<1>4. ConnSound(y)
  BY <1>0, <1>2, <1>3 DEF ConnSound, Early
<1>5. DOMAIN cx' = Conns /\ cx'[c] = y /\ \A e \in Conns \ {c} : cx'[e] = cx[e]
  BY <1>0, <1>1
<1>6. /\ HandlerShape(h') /\ h'.active = h.active - 1 /\ h'.conns = h.conns
      /\ h'.lru = h.lru /\ h.active \in Int
  BY <1>0, <1>1 DEF HandlerShape, HFields
<1>7. LruSound(h'.lru, cx')
  BY <1>3, <1>5, <1>6, LruKept
<1>8. h'.active = h.active - Bit(IsActive(x)) + Bit(IsActive(cx'[c]))
  <2>1. IsActive(x) /\ ~IsActive(cx'[c])
    BY <1>2, <1>3, <1>5 DEF IsActive
  <2> QED
    BY <1>6, <2>1 DEF Bit
<1>9. ASSUME NEW k \in Keys
      PROVE  h'.conns[k] = h.conns[k] - Bit(Holds(x, k)) + Bit(Holds(cx'[c], k))
  <2>1. Holds(x, k) <=> Holds(cx'[c], k)
    BY <1>3, <1>5 DEF Holds
  <2>2. h.conns[k] \in Int /\ h'.conns[k] = h.conns[k]
    BY <1>0, <1>6 DEF HandlerShape
  <2> QED
    BY <2>1, <2>2 DEF Bit
<1> QED
  BY <1>0, <1>2, <1>4, <1>5, <1>6, <1>7, <1>8, <1>9, OneConn

(* ... then what it holds is released.                                     *)
LEMMA ReleaseLaw ==
  ASSUME NEW H, HandlerShape(H), NEW k \in {NoKey} \cup Keys,
         k # NoKey => H.conns[k] # 0
  PROVE  /\ HandlerShape(Release(H, k)) /\ Release(H, k).active = H.active
         /\ Release(H, k).lru = H.lru
         /\ \A j \in Keys : Release(H, k).conns[j] = H.conns[j] - Bit(j = k)
<1>1. NoKey \notin Keys
  BY DEF NoKey, Keys
<1>2. CASE k = NoKey
  <2>1. Release(H, k) = H
    BY <1>2 DEF Release
  <2>2. \A j \in Keys : Bit(j = k) = 0 /\ H.conns[j] \in Int
    BY <1>1, <1>2 DEF Bit, HandlerShape
  <2> QED
    BY <2>1, <2>2
<1>3. CASE k # NoKey
  <2> DEFINE G == [H EXCEPT !.conns[k] = @ - 1]
  <2>1. Release(H, k) = G /\ k \in Keys
    BY <1>3 DEF Release
  <2>2. /\ HandlerShape(G) /\ G.active = H.active /\ G.lru = H.lru
        /\ \A j \in Keys : G.conns[j] = IF j = k THEN H.conns[j] - 1 ELSE H.conns[j]
    BY <2>1 DEF HandlerShape, HFields
  <2> HIDE DEF G
  <2>3. ASSUME NEW j \in Keys PROVE G.conns[j] = H.conns[j] - Bit(j = k)
    <3>1. H.conns[j] \in Int
      BY DEF HandlerShape
    <3> QED
      BY <2>2, <3>1 DEF Bit
  <2> QED
    BY <2>1, <2>2, <2>3
<1> QED
  BY <1>2, <1>3

LEMMA CloseEndsStep ==
  ASSUME IInv, NEW c \in Conns, CloseEnds(c)
  PROVE  IInv'
<1> DEFINE x == cx[c]
           y == [x EXCEPT !.at = "closed", !.cipher = FALSE, !.ipKey = NoKey,
                          !.secretKey = NoKey, !.user = NoIP, !.timer = FALSE]
           F == Release(h, x.ipKey)
           G == Release(F, x.secretKey)
<1>0. /\ ConnSound(x) /\ DOMAIN cx = Conns /\ DOMAIN x = XFields
      /\ HandlerShape(h) /\ env' = env /\ x.at = "ending"
      /\ LruSound(h.lru, cx)
  BY Facts DEF CloseEnds
<1>1. cx' = [cx EXCEPT ![c] = y] /\ h' = UserRelease(G, x.user)
  BY <1>0 DEF CloseEnds, XFields
<1>2. /\ DOMAIN y = XFields /\ y.at = "closed" /\ y.st = x.st
      /\ y.run = x.run /\ y.ipKey = NoKey /\ y.secretKey = NoKey
      /\ y.user = NoIP /\ y.ip = x.ip /\ y.peer = x.peer /\ y.sent = x.sent
      /\ y.in = x.in /\ y.dial = x.dial
  BY <1>0 DEF XFields
<1> HIDE DEF y
<1>3. ConnSound(y)
  <2>1. NoIP \in Addresses
    BY DEF Addresses
  <2> QED
    BY <1>0, <1>2, <2>1 DEF ConnSound
<1>4. DOMAIN cx' = Conns /\ cx'[c] = y /\ \A e \in Conns \ {c} : cx'[e] = cx[e]
  BY <1>0, <1>1
<1>5. /\ x.ipKey \in {NoKey} \cup Keys /\ x.secretKey \in {NoKey} \cup Keys
      /\ x.ipKey # NoKey => x.ipKey # x.secretKey
      /\ NoKey \notin Keys /\ x.user \in Addresses
  BY <1>0 DEF ConnSound, Keys, NoKey
<1>6. /\ x.ipKey # NoKey => h.conns[x.ipKey] # 0
      /\ x.secretKey # NoKey => h.conns[x.secretKey] # 0
  <2>1. \A k \in Keys : Holds(x, k) => h.conns[k] > 0 /\ h.conns[k] \in Int
    BY <1>0, SlotIsCounted DEF HandlerShape
  <2>2. Holds(x, x.ipKey) /\ Holds(x, x.secretKey)
    BY DEF Holds
  <2> QED
    BY <1>5, <2>1, <2>2
<1>7. /\ HandlerShape(F) /\ F.active = h.active /\ F.lru = h.lru
      /\ \A j \in Keys : F.conns[j] = h.conns[j] - Bit(j = x.ipKey)
  BY <1>0, <1>5, <1>6, ReleaseLaw
<1> HIDE DEF F
<1>8. x.secretKey # NoKey => F.conns[x.secretKey] # 0
  <2> SUFFICES ASSUME x.secretKey # NoKey PROVE F.conns[x.secretKey] # 0
    OBVIOUS
  <2>1. x.secretKey \in Keys /\ x.secretKey # x.ipKey
    BY <1>5
  <2>2. F.conns[x.secretKey] = h.conns[x.secretKey] - 0
    BY <1>7, <2>1 DEF Bit
  <2>3. h.conns[x.secretKey] \in Int
    BY <1>0, <2>1 DEF HandlerShape
  <2> QED
    BY <1>6, <2>2, <2>3
<1>9. /\ HandlerShape(G) /\ G.active = h.active /\ G.lru = h.lru
      /\ \A j \in Keys : G.conns[j] = F.conns[j] - Bit(j = x.secretKey)
  BY <1>5, <1>7, <1>8, ReleaseLaw
<1> HIDE DEF G
<1>10. ASSUME NEW k \in Keys
       PROVE  G.conns[k] = h.conns[k] - Bit(Holds(x, k)) + Bit(Holds(cx'[c], k))
  <2>1. G.conns[k] = h.conns[k] - Bit(k = x.ipKey) - Bit(k = x.secretKey)
    BY <1>7, <1>9
  <2>2. ~Holds(cx'[c], k) /\ (Holds(x, k) <=> k = x.ipKey \/ k = x.secretKey)
    BY <1>2, <1>4, <1>5 DEF Holds
  <2>3. ~(k = x.ipKey /\ k = x.secretKey) /\ h.conns[k] \in Int
    BY <1>0, <1>5 DEF HandlerShape
  <2> QED
    BY <2>1, <2>2, <2>3 DEF Bit
<1>11. /\ \A j \in IPs :
            /\ Cardinality(Users(cx, j)) \in Nat /\ Cardinality(Users(cx', j)) \in Nat
            /\ j # x.user => Cardinality(Users(cx', j)) = Cardinality(Users(cx, j))
       /\ x.user \in IPs =>
            Cardinality(Users(cx', x.user)) = Cardinality(Users(cx, x.user)) - 1
  <2>1. ASSUME NEW j \in IPs
        PROVE  /\ Cardinality(Users(cx, j)) \in Nat /\ Cardinality(Users(cx', j)) \in Nat
               /\ Cardinality(Users(cx', j)) = Cardinality(Users(cx, j)) - Bit(x.user = j)
    <3>1. /\ Cardinality(Users(cx, j)) \in Nat /\ Cardinality(Users(cx', j)) \in Nat
          /\ Cardinality(Users(cx', j)) = Cardinality(Users(cx, j))
               - Bit(x.user = j) + Bit(cx'[c].user = j)
      BY <1>4, UsersMove
    <3>2. cx'[c].user # j
      BY <1>2, <1>4, LimitsAssumption DEF NoIP
    <3>3. Bit(cx'[c].user = j) = 0 /\ Bit(x.user = j) \in Int
      BY <3>2 DEF Bit
    <3> QED
      BY <3>1, <3>3
  <2> QED
    BY <2>1 DEF Bit
<1>12. LruSound(h'.lru, cx') /\ Frame(G, h')
  <2>1. DOMAIN G = HFields /\ LruSound(G.lru, cx)
    BY <1>0, <1>9 DEF HandlerShape
  <2> QED
    BY <1>1, <1>5, <1>11, <2>1, UserReleaseLaw
<1>13. /\ HandlerShape(h') /\ h'.active = h.active /\ h'.conns = G.conns
  BY <1>9, <1>12 DEF Frame, HandlerShape
<1>14. h'.active = h.active - Bit(IsActive(x)) + Bit(IsActive(cx'[c]))
  <2>1. ~IsActive(x) /\ ~IsActive(cx'[c]) /\ h.active \in Int
    BY <1>0, <1>2, <1>4 DEF IsActive, HandlerShape
  <2> QED
    BY <1>13, <2>1 DEF Bit
<1> QED
  BY <1>0, <1>3, <1>4, <1>10, <1>12, <1>13, <1>14, OneConn

-----------------------------------------------------------------------------
(* The limits of an authenticated client.                                  *)
LEMMA AdmitStep ==
  ASSUME IInv, NEW c \in Conns, cx[c].at = "open", NEW y, Sticks(cx[c], y),
         cx[c].st \in Early, y.st \notin Early, y.ip \in IPs, NEW seen,
         h' = UserAcquired(Acquired([h EXCEPT !.seen = seen], SecretKey(y.ip)), y.ip),
         Ends(c, [y EXCEPT !.secretKey = SecretKey(y.ip), !.user = y.ip]),
         env' = env
  PROVE  IInv'
<1> DEFINE x == cx[c]
           ip == y.ip
           k == SecretKey(ip)
           G == [h EXCEPT !.seen = seen]
           A == Acquired(G, k)
           w == [y EXCEPT !.secretKey = k, !.user = ip]
<1>0. /\ ConnSound(x) /\ DOMAIN cx = Conns /\ HandlerShape(h)
      /\ LruSound(h.lru, cx)
  BY Facts
<1>1. /\ x.secretKey = NoKey /\ x.user = NoIP /\ x.ipKey \in IPSlots
  BY <1>0 DEF ConnSound, IPSlots
<1>2. /\ k \in Keys /\ k # NoKey /\ NoKey \notin Keys /\ k \in IPs \X {"secret"}
      /\ \A j \in IPSlots : j # k
  BY KeyTypes
<1> HIDE DEF k
<1>3. /\ DOMAIN w = XFields /\ w.ipKey = x.ipKey /\ w.secretKey = k /\ w.user = ip
      /\ w.ip = x.ip /\ w.peer = x.peer /\ w.sent = x.sent /\ w.st = y.st
      /\ w.at = "open"
  BY DEF Sticks, XFields
<1>4. PICK z : /\ cx' = [cx EXCEPT ![c] = z]
               /\ z \in {w, [w EXCEPT !.run = FALSE],
                         [w EXCEPT !.run = FALSE, !.at = "closing"]}
  BY DEF Ends, Continues, Returns, Closes, k
<1> HIDE DEF w
<1>5. /\ DOMAIN z = XFields /\ z.ipKey = x.ipKey /\ z.secretKey = k /\ z.user = ip
      /\ z.ip = x.ip /\ z.peer = x.peer /\ z.sent = x.sent /\ z.st = y.st
      /\ z.at \in {"open", "closing"} /\ (z.run => z.at = "open")
  <2>1. CASE z = w
    BY <1>3, <2>1
  <2>2. CASE z = [w EXCEPT !.run = FALSE]
    BY <1>3, <2>2 DEF XFields
  <2>3. CASE z = [w EXCEPT !.run = FALSE, !.at = "closing"]
    BY <1>3, <2>3 DEF XFields
  <2> QED
    BY <1>4, <2>1, <2>2, <2>3
<1>6. ConnSound(z)
  BY <1>0, <1>2, <1>5 DEF ConnSound, Early, Addresses
<1>7. DOMAIN cx' = Conns /\ cx'[c] = z /\ \A e \in Conns \ {c} : cx'[e] = cx[e]
  BY <1>0, <1>4
<1>8. /\ HandlerShape(A) /\ A.active = h.active /\ A.lru = h.lru
      /\ \A j \in Keys : A.conns[j] = IF j = k THEN h.conns[j] + 1 ELSE h.conns[j]
  <2>1. /\ HandlerShape(G) /\ G.active = h.active /\ G.lru = h.lru
        /\ G.conns = h.conns
    BY <1>0 DEF HandlerShape, HFields
  <2> HIDE DEF G
  <2> QED
    BY <1>2, <2>1 DEF Acquired, HandlerShape, HFields
<1>9. h' = UserAcquired(A, ip)
  BY DEF k
<1> HIDE DEF A
<1>10. /\ \A j \in IPs :
            /\ Cardinality(Users(cx, j)) \in Nat /\ Cardinality(Users(cx', j)) \in Nat
            /\ Cardinality(Users(cx, j)) <= Cardinality(Users(cx', j))
       /\ Cardinality(Users(cx', ip)) = Cardinality(Users(cx, ip)) + 1
  <2>1. ASSUME NEW j \in IPs
        PROVE  /\ Cardinality(Users(cx, j)) \in Nat /\ Cardinality(Users(cx', j)) \in Nat
               /\ Cardinality(Users(cx', j)) = Cardinality(Users(cx, j)) + Bit(ip = j)
    <3>1. /\ Cardinality(Users(cx, j)) \in Nat /\ Cardinality(Users(cx', j)) \in Nat
          /\ Cardinality(Users(cx', j)) = Cardinality(Users(cx, j))
               - Bit(x.user = j) + Bit(cx'[c].user = j)
      BY <1>7, UsersMove
    <3>2. x.user # j
      BY <1>1, LimitsAssumption DEF NoIP
    <3>3. Bit(x.user = j) = 0 /\ Bit(cx'[c].user = j) = Bit(ip = j) /\ Bit(ip = j) \in Int
      BY <1>5, <1>7, <3>2 DEF Bit
    <3> QED
      BY <3>1, <3>3
  <2>2. Bit(ip = ip) = 1 /\ \A j \in IPs : Bit(ip = j) \in {0, 1}
    BY DEF Bit
  <2> QED
    BY <2>1, <2>2
<1>11. LruSound(h'.lru, cx') /\ Frame(A, h')
  <2>1. DOMAIN A = HFields /\ LruSound(A.lru, cx)
    BY <1>0, <1>8 DEF HandlerShape
  <2> QED
    BY <1>9, <1>10, <2>1, UserAcquiredLaw
<1>12. /\ HandlerShape(h') /\ h'.active = h.active /\ h'.conns = A.conns
  BY <1>8, <1>11 DEF Frame, HandlerShape
<1>13. h'.active = h.active - Bit(IsActive(x)) + Bit(IsActive(cx'[c]))
  <2>1. IsActive(x) /\ IsActive(cx'[c]) /\ h.active \in Int
    BY <1>0, <1>5, <1>7 DEF IsActive, HandlerShape
  <2> QED
    BY <1>12, <2>1 DEF Bit
<1>14. ASSUME NEW j \in Keys
       PROVE  h'.conns[j] = h.conns[j] - Bit(Holds(x, j)) + Bit(Holds(cx'[c], j))
  <2>1. /\ Holds(x, j) <=> j = x.ipKey
        /\ Holds(cx'[c], j) <=> j = x.ipKey \/ j = k
        /\ x.ipKey # k /\ h.conns[j] \in Int
    BY <1>0, <1>1, <1>2, <1>5, <1>7 DEF Holds, HandlerShape
  <2> QED
    BY <1>8, <1>12, <2>1 DEF Bit
<1> QED
  BY <1>0, <1>6, <1>7, <1>11, <1>12, <1>13, <1>14, OneConn

LEMMA AuthenticateStep ==
  ASSUME IInv, NEW c \in Conns, HandleTLSPayload(c) \/ HandleDDFrame(c)
  PROVE  IInv'
<1> DEFINE x == cx[c]
<1>0. /\ ConnSound(x) /\ DOMAIN cx = Conns /\ DOMAIN x = XFields
      /\ DOMAIN h = HFields /\ env' = env
  BY Facts DEF HandleTLSPayload, HandleDDFrame
<1>1. x.at = "open" /\ x.st \in {"payload", "dd"}
  BY <1>0 DEF ConnSound, HandleTLSPayload, HandleDDFrame, Handling
<1>2. ASSUME StartSplice(c, x) \/ Returns(c, x), h' = h
      PROVE  IInv'
  <2> DEFINE y == [x EXCEPT !.st = "splicing", !.dial = "splice"]
  <2>1. Ends(c, x) \/ Ends(c, y)
    BY <1>2 DEF StartSplice, Ends
  <2>2. Sticks(x, x) /\ Sticks(x, y) /\ y.st = "splicing"
    BY <1>0 DEF Sticks, XFields
  <2>3. SameLimits(h, h') /\ x.st # "proxy" /\ "splicing" \notin Early
    BY <1>0, <1>1, <1>2 DEF SameLimits, Early
  <2> HIDE DEF y
  <2> QED
    BY <1>0, <1>1, <2>1, <2>2, <2>3, StickLaw
<1>3. ASSUME NEW session, NEW y, Sticks(x, y), y.st \notin Early,
             Authenticates(c, x, session, y)
      PROVE  IInv'
  <2>1. CASE session \in h.seen
    BY <1>2, <1>3, <2>1 DEF Authenticates
  <2>2. CASE session \notin h.seen
    <3> DEFINE seen == h.seen \cup {session}
               G == [h EXCEPT !.seen = seen]
               r == AcquireAuthenticated(G, y)
    <3>1. h' = r.h /\ Ends(c, r.x)
      BY <1>3, <2>2 DEF Authenticates, Ends
    <3>2. CASE r.h = G /\ r.x = y
      <4>1. SameLimits(h, h')
        BY <1>0, <3>1, <3>2 DEF SameLimits, HFields
      <4> QED
        BY <1>0, <1>1, <1>3, <3>1, <3>2, <4>1, StickLaw
    <3>3. CASE ~(r.h = G /\ r.x = y)
      <4>1. /\ y.ip # NoIP
            /\ r.h = UserAcquired(Acquired(G, SecretKey(y.ip)), y.ip)
            /\ r.x = [y EXCEPT !.secretKey = SecretKey(y.ip), !.user = y.ip]
        BY <3>3 DEF AcquireAuthenticated, Admits, Refuses
      <4>2. y.ip \in IPs
        BY <1>0, <1>3, <4>1 DEF Sticks, ConnSound, Addresses
      <4>3. x.st \in Early
        BY <1>1 DEF Early
      <4> HIDE DEF r
      <4>4. /\ h' = UserAcquired(Acquired([h EXCEPT !.seen = seen], SecretKey(y.ip)),
                                 y.ip)
            /\ Ends(c, [y EXCEPT !.secretKey = SecretKey(y.ip), !.user = y.ip])
        BY <3>1, <4>1
      <4> HIDE DEF seen
      <4> QED
        BY <1>0, <1>1, <1>3, <4>2, <4>3, <4>4, AdmitStep
    <3> QED
      BY <3>2, <3>3
  <2> QED
    BY <2>1, <2>2
<1>4. CASE HandleTLSPayload(c)
  <2> DEFINE y == [x EXCEPT !.in = Tail(Tail(@)), !.st = "o2"]
  <2>1. Sticks(x, y) /\ y.st \notin Early
    BY <1>0 DEF Sticks, XFields, Early
  <2>2. \/ (StartSplice(c, x) \/ Returns(c, x)) /\ h' = h
        \/ \E session : Authenticates(c, x, session, y)
    BY <1>4 DEF HandleTLSPayload, Waits
  <2> HIDE DEF y
  <2> QED
    BY <1>2, <1>3, <2>1, <2>2
<1>5. CASE HandleDDFrame(c)
  <2> DEFINE y == [x EXCEPT !.in = Tail(@), !.cipher = TRUE, !.st = "route"]
  <2>1. Sticks(x, y) /\ y.st \notin Early
    BY <1>0 DEF Sticks, XFields, Early
  <2>2. \/ StartSplice(c, x) /\ h' = h
        \/ \E session : Authenticates(c, x, session, y)
    BY <1>5 DEF HandleDDFrame
  <2> HIDE DEF y
  <2> QED
    BY <1>2, <1>3, <2>1, <2>2
<1> QED
  BY <1>4, <1>5

-----------------------------------------------------------------------------
LEMMA NextInv == IInv /\ [Next]_vars => IInv'
<1> SUFFICES ASSUME IInv, [Next]_vars PROVE IInv'
  OBVIOUS
<1>1. CASE UNCHANGED vars
  <2>1. h' = h /\ cx' = cx /\ env' = env
    BY <1>1 DEF vars
  <2> QED
    BY <2>1 DEF IInv
<1>2. ASSUME NEW c \in Conns, OnOpen(c) \/ CloseBegins(c) \/ CloseEnds(c)
      PROVE  IInv'
  BY <1>2, OpenStep, CloseBeginsStep, CloseEndsStep
<1>3. ASSUME NEW c \in Conns, Turn(c) \/ Queued(c) \/ OnTraffic(c)
      PROVE  IInv'
  BY <1>3, ProxyStep, PlainHandshake, AuthenticateStep, RelayStep, EventStep,
     TrafficStep DEF Turn, Handshakes, Queued
<1>4. ASSUME NEW c \in Conns, Goroutine(c)
      PROVE  IInv'
  BY <1>4, DialStep, SpliceStep, ReaderStep DEF Goroutine
<1>5. ASSUME NEW c \in Conns,
             \/ HandleDCTraffic(c) \/ DCCloses(c) \/ HandshakeTimeout(c)
             \/ OnTick(c) \/ DrainWakes(c) \/ DeadlineFires(c) \/ Peers(c)
      PROVE  IInv'
  BY <1>5, EventStep, TrafficStep, OutsideStep DEF Peers
<1>6. CASE \/ \E ip \in IPs : BlockExpires(ip)
           \/ \E s \in h.seen : SessionExpires(s)
  BY <1>6, OutsideStep
<1> QED
  BY <1>1, <1>2, <1>3, <1>4, <1>5, <1>6 DEF Next

(* The inductive invariant holds for every number of connections, every    *)
(* limit and every script.                                                 *)
THEOREM InvHolds == Spec => []IInv
<1>1. Init => IInv
  BY InitInv
<1>2. IInv /\ [Next]_vars => IInv'
  BY NextInv
<1> QED
  BY <1>1, <1>2, PTL DEF Spec

LEMMA InvBalances == IInv => LimitsBalanced
<1> SUFFICES ASSUME IInv PROVE LimitsBalanced
  OBVIOUS
<1>1. \A c \in Conns :
        cx[c].at \in {"new", "closed"} =>
          cx[c].ipKey = NoKey /\ cx[c].secretKey = NoKey /\ cx[c].user = NoIP
  BY DEF IInv, ConnSound
<1>2. \A c \in Conns : c \in Served <=> cx[c].at \notin {"new", "closed"}
  BY DEF IInv, ConnSound, Served
<1>3. h.active = Cardinality(Served \ {c \in Conns : cx[c].at = "ending"})
  <2>1. Active(cx) = Served \ {c \in Conns : cx[c].at = "ending"}
    BY DEF Active, IsActive, Served
  <2> QED
    BY <2>1 DEF IInv
<1>4. ASSUME NEW k \in Keys
      PROVE  h.conns[k] = Cardinality({c \in Served : k \in {cx[c].ipKey, cx[c].secretKey}})
  <2>1. NoKey # k
    BY DEF NoKey, Keys
  <2>2. Holders(cx, k) = {c \in Served : k \in {cx[c].ipKey, cx[c].secretKey}}
    <3>1. Served \subseteq Conns
      BY DEF Served
    <3> QED
      BY <1>1, <1>2, <2>1, <3>1 DEF Holders, Holds
  <2> QED
    BY <2>2 DEF IInv
<1>5. ASSUME NEW i \in DOMAIN h.lru
      PROVE  h.lru[i].count <= Cardinality({c \in Served : cx[c].user = h.lru[i].ip})
  <2>1. h.lru \in Seq(Entries) /\ LruSound(h.lru, cx)
    BY DEF IInv, LruSound
  <2>2. i \in 1..Len(h.lru)
    BY <2>1
  <2>3. h.lru[i] \in Entries
    BY <2>1, <2>2
  <2>4. h.lru[i].ip # NoIP
    BY <2>3, LimitsAssumption DEF Entries, NoIP
  <2>5. Users(cx, h.lru[i].ip) = {c \in Served : cx[c].user = h.lru[i].ip}
    <3>1. Served \subseteq Conns
      BY DEF Served
    <3> QED
      BY <1>1, <1>2, <2>4, <3>1 DEF Users
  <2> QED
    BY <2>1, <2>2, <2>5 DEF LruSound
<1> QED
  BY <1>3, <1>4, <1>5 DEF LimitsBalanced

(* The limits are exact: activeConns and every entry of ConnLimiter count  *)
(* the connections that are there and no others, through every refusal,    *)
(* transfer and close half way through an admission, and the user limiter  *)
(* never takes an address for busier than it is.                           *)
THEOREM LimitsAreBalanced == Spec => []LimitsBalanced
BY InvHolds, InvBalances, PTL

-----------------------------------------------------------------------------
(***************************************************************************)
(* The relay is faithful.  Each direction is a stream of numbered units,   *)
(* and wherever a unit is, it is part of a run: FlowInv says that what the *)
(* data centre has ends where the client's cipher stands and what is left  *)
(* of the client's stream begins there, and that what the client has, the  *)
(* writes queued for its loop and what the other loop has not read follow  *)
(* each other without a gap up to what the other end has sent.             *)
(***************************************************************************)
(* The units of a stream after the a-th, up to the b-th.                   *)
Run(a, b) == [i \in 1..(b - a) |-> a + i]

(* r is p followed by q.                                                   *)
Joined(p, q, r) == p \o q = r

(* A concatenation, by its elements.                                       *)
LEMMA JoinedByParts ==
  ASSUME NEW E, NEW p \in Seq(E), NEW q \in Seq(E), NEW r \in Seq(E),
         Len(r) = Len(p) + Len(q),
         \A i \in 1..Len(p) : r[i] = p[i],
         \A i \in 1..Len(q) : r[Len(p) + i] = q[i]
  PROVE  Joined(p, q, r)
<1> DEFINE l == p \o q
<1>1. /\ Len(p) \in Nat /\ Len(q) \in Nat /\ l \in Seq(E)
      /\ Len(l) = Len(p) + Len(q)
      /\ \A i \in 1..Len(p) : l[i] = p[i]
      /\ \A i \in 1..Len(q) : l[Len(p) + i] = q[i]
  OBVIOUS
<1> HIDE DEF l
<1>2. ASSUME NEW i \in 1..Len(l) PROVE l[i] = r[i]
  <2>1. CASE i <= Len(p)
    <3>1. i \in 1..Len(p)
      BY <1>1, <2>1
    <3> QED
      BY <1>1, <3>1
  <2>2. CASE i > Len(p)
    <3> DEFINE j == i - Len(p)
    <3>1. j \in 1..Len(q) /\ i = Len(p) + j
      BY <1>1, <2>2
    <3> HIDE DEF j
    <3> QED
      BY <1>1, <3>1
  <2> QED
    BY <1>1, <2>1, <2>2
<1>3. l = r
  BY <1>1, <1>2, SameSequence
<1> QED
  BY <1>3 DEF Joined, l

IsRun(p, a, b) == /\ p \in Seq(Nat) /\ Len(p) = b - a
                  /\ \A i \in 1..Len(p) : p[i] = a + i

(* A run has the units it says.                                            *)
LEMMA RunLaw ==
  ASSUME NEW a \in Nat, NEW b \in Nat, a <= b
  PROVE  IsRun(Run(a, b), a, b)
<1>1. b - a \in Nat
  OBVIOUS
<1>2. Run(a, b) \in [1..(b - a) -> Nat]
  BY DEF Run
<1>3. \A i \in 1..(b - a) : Run(a, b)[i] = a + i
  BY DEF Run
<1>4. Run(a, b) \in Seq(Nat) /\ Len(Run(a, b)) = b - a
  BY <1>1, <1>2
<1> QED
  BY <1>3, <1>4 DEF IsRun

(* Two runs that follow each other, one more unit, and the parts of a run. *)
LEMMA RunCat ==
  ASSUME NEW a \in Nat, NEW b \in Nat, NEW c \in Nat, a <= b, b <= c
  PROVE  Joined(Run(a, b), Run(b, c), Run(a, c))
<1> DEFINE p == Run(a, b)
           q == Run(b, c)
           r == Run(a, c)
<1>0. a <= c
  OBVIOUS
<1>1. IsRun(p, a, b) /\ IsRun(q, b, c) /\ IsRun(r, a, c)
  BY <1>0, RunLaw
<1> HIDE DEF p, q, r
<1>2. Len(r) = Len(p) + Len(q)
  BY <1>1 DEF IsRun
<1>3. ASSUME NEW i \in 1..Len(p) PROVE r[i] = p[i]
  <2>1. i \in 1..Len(r)
    BY <1>1 DEF IsRun
  <2> QED
    BY <1>1, <2>1 DEF IsRun
<1>4. ASSUME NEW i \in 1..Len(q) PROVE r[Len(p) + i] = q[i]
  <2>1. Len(p) + i \in 1..Len(r) /\ q[i] = b + i
    BY <1>1 DEF IsRun
  <2>2. r[Len(p) + i] = a + (Len(p) + i)
    BY <1>1, <2>1 DEF IsRun
  <2> QED
    BY <1>1, <2>1, <2>2 DEF IsRun
<1>5. p \in Seq(Nat) /\ q \in Seq(Nat) /\ r \in Seq(Nat)
  BY <1>1 DEF IsRun
<1>6. Joined(p, q, r)
  BY <1>2, <1>3, <1>4, <1>5, JoinedByParts
<1> QED
  BY <1>6 DEF p, q, r

(* A run and the next unit.                                                *)
LEMMA RunAppend ==
  ASSUME NEW a \in Nat, NEW b \in Nat, a <= b
  PROVE  Append(Run(a, b), b + 1) = Run(a, b + 1)
<1> DEFINE p == Run(a, b)
           r == Run(a, b + 1)
           l == Append(p, b + 1)
<1>0. b + 1 \in Nat /\ a <= b + 1
  OBVIOUS
<1>1. IsRun(p, a, b) /\ IsRun(r, a, b + 1)
  BY <1>0, RunLaw
<1> HIDE DEF p, r
<1>2. /\ p \in Seq(Nat) /\ Len(p) = b - a /\ r \in Seq(Nat)
      /\ Len(r) = (b + 1) - a
  BY <1>1 DEF IsRun
<1>3. /\ l \in Seq(Nat) /\ Len(l) = (b + 1) - a /\ l[Len(p) + 1] = b + 1
      /\ \A i \in 1..Len(p) : l[i] = p[i]
  BY <1>2
<1> HIDE DEF l
<1>4. ASSUME NEW i \in 1..Len(l) PROVE l[i] = r[i]
  <2>0. r[i] = a + i
    BY <1>1, <1>2, <1>3 DEF IsRun
  <2>1. CASE i <= Len(p)
    <3>1. i \in 1..Len(p)
      BY <1>2, <2>1
    <3> QED
      BY <1>1, <1>3, <2>0, <3>1 DEF IsRun
  <2>2. CASE i > Len(p)
    <3>1. i = Len(p) + 1 /\ a + i = b + 1
      BY <1>2, <1>3, <2>2
    <3> QED
      BY <1>3, <2>0, <3>1
  <2> QED
    BY <1>2, <2>1, <2>2
<1>5. l = r
  BY <1>2, <1>3, <1>4, SameSequence
<1> QED
  BY <1>5 DEF l, p, r

(* The two parts of a run are runs.                                        *)
LEMMA RunParts ==
  ASSUME NEW a \in Nat, NEW c \in Nat, a <= c, NEW E, NEW p \in Seq(E),
         NEW q \in Seq(E), Joined(p, q, Run(a, c))
  PROVE  /\ a + Len(p) \in Nat /\ a + Len(p) <= c
         /\ p = Run(a, a + Len(p)) /\ q = Run(a + Len(p), c)
<1> DEFINE r == Run(a, c)
           b == a + Len(p)
<1>1. /\ r \in Seq(Nat) /\ Len(r) = c - a /\ \A i \in 1..(c - a) : r[i] = a + i
  <2>1. IsRun(r, a, c)
    BY RunLaw
  <2> HIDE DEF r
  <2> QED
    BY <2>1 DEF IsRun
<1>2. /\ Len(p) \in Nat /\ Len(q) \in Nat /\ r = p \o q
  BY DEF Joined
<1>3. /\ Len(r) = Len(p) + Len(q)
      /\ \A i \in 1..Len(p) : r[i] = p[i]
      /\ \A i \in 1..Len(q) : r[Len(p) + i] = q[i]
  <2> HIDE DEF r
  <2> QED
    BY <1>2
<1> HIDE DEF r
<1>4. b \in Nat /\ b <= c /\ Len(p) = b - a /\ Len(q) = c - b
  BY <1>1, <1>2, <1>3
<1>5. \A i \in 1..Len(p) : p[i] = a + i
  BY <1>1, <1>2, <1>3, <1>4
<1>6. \A i \in 1..Len(q) : q[i] = b + i
  <2> SUFFICES ASSUME NEW i \in 1..Len(q) PROVE q[i] = b + i
    OBVIOUS
  <2>1. Len(p) + i \in 1..(c - a)
    BY <1>1, <1>2, <1>3
  <2>2. r[Len(p) + i] = a + (Len(p) + i) /\ q[i] = r[Len(p) + i]
    BY <1>1, <1>3, <2>1
  <2> QED
    BY <1>2, <2>2
<1> HIDE DEF b
<1>7. p = Run(a, b)
  BY <1>4, <1>5 DEF Run
<1>8. q = Run(b, c)
  BY <1>4, <1>6 DEF Run
<1> QED
  BY <1>4, <1>7, <1>8 DEF b

(* The run of nothing.                                                     *)
LEMMA RunEmpty ==
  ASSUME NEW a \in Nat
  PROVE  Run(a, a) = <<>>
<1>1. a - a = 0
  OBVIOUS
<1> QED
  BY <1>1 DEF Run

-----------------------------------------------------------------------------
AllData(q) == \A i \in 1..Len(q) : q[i].k = "data"

(* The payload is as long as what Excluding leaves.                        *)
LEMMA PayloadLaw ==
  ASSUME NEW q \in Seq(Pieces)
  PROVE  /\ Payload(q) \in Seq(Int)
         /\ Len(Payload(q)) = Len(Excluding(q, NoData))
<1> DEFINE d == Excluding(q, NoData)
<1>1. d \in Seq(Pieces)
  BY ExcludingLaw
<1>2. Payload(q) = [i \in 1..Len(d) |-> d[i].n]
  BY DEF Payload
<1> HIDE DEF d
<1>3. \A p \in Pieces : p.n \in Int
  <2>1. Addresses \subseteq Int
    BY LimitsAssumption DEF Addresses, NoIP
  <2> HIDE DEF Addresses
  <2> QED
    BY <2>1 DEF Pieces
<1>4. \A i \in 1..Len(d) : d[i].n \in Int
  BY <1>1, <1>3
<1> QED
  BY <1>1, <1>2, <1>4 DEF d

(* The payload of a concatenation is the concatenation of the payloads.    *)
LEMMA PayloadCat ==
  ASSUME NEW p \in Seq(Pieces), NEW q \in Seq(Pieces)
  PROVE  Joined(Payload(p), Payload(q), Payload(p \o q))
<1> DEFINE d == Excluding(p, NoData)
           e == Excluding(q, NoData)
           f == Excluding(p \o q, NoData)
           r == Payload(p \o q)
<1>1. d \in Seq(Pieces) /\ e \in Seq(Pieces)
  BY ExcludingLaw
<1>2. f = d \o e
  BY ExcludingCat
<1>3. /\ Payload(p) = [i \in 1..Len(d) |-> d[i].n]
      /\ Payload(q) = [i \in 1..Len(e) |-> e[i].n]
      /\ r = [i \in 1..Len(f) |-> f[i].n]
  BY DEF Payload
<1>4. p \o q \in Seq(Pieces)
  OBVIOUS
<1>5. /\ Payload(p) \in Seq(Int) /\ Len(Payload(p)) = Len(d)
      /\ Payload(q) \in Seq(Int) /\ Len(Payload(q)) = Len(e)
      /\ r \in Seq(Int) /\ Len(r) = Len(f)
  BY <1>4, PayloadLaw
<1> HIDE DEF d, e, f, r
<1>6. /\ Len(d) \in Nat /\ Len(e) \in Nat /\ Len(f) = Len(d) + Len(e)
      /\ \A i \in 1..Len(d) : f[i] = d[i]
      /\ \A i \in 1..Len(e) : f[Len(d) + i] = e[i]
  BY <1>1, <1>2
<1>7. ASSUME NEW i \in 1..Len(d) PROVE r[i] = Payload(p)[i]
  <2>1. i \in 1..Len(f)
    BY <1>6
  <2> QED
    BY <1>3, <1>6, <2>1
<1>8. ASSUME NEW i \in 1..Len(e) PROVE r[Len(d) + i] = Payload(q)[i]
  <2>1. Len(d) + i \in 1..Len(f)
    BY <1>6
  <2> QED
    BY <1>3, <1>6, <2>1
<1> DEFINE P == Payload(p)
           Q == Payload(q)
<1> HIDE DEF P, Q
<1>9. Joined(P, Q, r)
  <2>1. /\ P \in Seq(Int) /\ Q \in Seq(Int) /\ r \in Seq(Int)
        /\ Len(r) = Len(P) + Len(Q)
    BY <1>5, <1>6 DEF P, Q
  <2>2. \A i \in 1..Len(P) : r[i] = P[i]
    BY <1>5, <1>7 DEF P
  <2>3. \A i \in 1..Len(Q) : r[Len(P) + i] = Q[i]
    BY <1>5, <1>8 DEF P, Q
  <2> QED
    BY <2>1, <2>2, <2>3, JoinedByParts
<1> QED
  BY <1>9 DEF P, Q, r

(* Where there is only data the payload is as long as the input.           *)
LEMMA PayloadLen ==
  ASSUME NEW q \in Seq(Pieces), AllData(q)
  PROVE  Len(Payload(q)) = Len(q)
<1>1. \A i \in 1..Len(q) : q[i] \notin NoData
  BY DEF AllData, NoData
<1>2. Len(Excluding(q, NoData)) = Len(q)
  BY <1>1, ExcludingNothing
<1>3. Len(Payload(q)) = Len(Excluding(q, NoData))
  BY PayloadLaw
<1> QED
  BY <1>2, <1>3

(* No input has no payload.                                                *)
LEMMA PayloadOfNothing == Payload(<<>>) = <<>>
<1> DEFINE q == <<>>
<1>1. q \in Seq(Pieces) /\ Len(q) = 0 /\ \A i \in 1..Len(q) : FALSE
  OBVIOUS
<1> HIDE DEF q
<1>2. Len(Payload(q)) = 0
  BY <1>1, PayloadLen DEF AllData
<1>3. Payload(q) \in Seq(Int)
  BY <1>1, PayloadLaw
<1>4. Payload(q) = <<>>
  BY <1>2, <1>3
<1> QED
  BY <1>4 DEF q

(* A piece that is no data.                                                *)
LEMMA PayloadSkip ==
  ASSUME NEW q \in Seq(Pieces), q # <<>>, Head(q).k # "data"
  PROVE  Payload(Tail(q)) = Payload(q)
<1> DEFINE p == <<Head(q)>>
           t == Tail(q)
<1>1. p \in Seq(Pieces) /\ t \in Seq(Pieces) /\ q = p \o t /\ Head(q) \in Pieces
  OBVIOUS
<1>2. Head(q) \in NoData
  BY <1>1 DEF NoData
<1>3. Payload(p) = <<>>
  <2>1. Excluding(p, NoData) = <<>>
    <3>1. Len(p) = 1 /\ p[1] = Head(q)
      OBVIOUS
    <3>2. PICK f : /\ f[0] = <<>>
                   /\ \A i \in 1..Len(p) :
                        f[i] = IF p[i] \in NoData THEN f[i - 1]
                               ELSE Append(f[i - 1], p[i])
                   /\ Excluding(p, NoData) = f[Len(p)]
      BY <1>1, ExcludingSteps
    <3> HIDE DEF p
    <3> QED
      BY <1>2, <3>1, <3>2
  <2> QED
    BY <2>1 DEF Payload
<1> HIDE DEF p, t
<1>4. Joined(Payload(p), Payload(t), Payload(p \o t))
  BY <1>1, PayloadCat
<1>5. Payload(t) \in Seq(Int)
  BY <1>1, PayloadLaw
<1>6. <<>> \o Payload(t) = Payload(t)
  BY <1>5
<1> QED
  BY <1>1, <1>3, <1>4, <1>6 DEF Joined, t

-----------------------------------------------------------------------------
(* What the event loop has still to take: the input q, and what the client *)
(* sends of s after its k-th piece.                                        *)
Rest(q, k, s) == q \o SubSeq(s, k + 1, Len(s))

(* What is left, by its elements.                                          *)
LEMMA RestParts ==
  ASSUME NEW q \in Seq(Pieces), NEW s \in Seq(Pieces), NEW k \in 0..Len(s)
  PROVE  /\ Rest(q, k, s) \in Seq(Pieces)
         /\ Len(Rest(q, k, s)) = Len(q) + (Len(s) - k)
         /\ \A i \in 1..Len(q) : Rest(q, k, s)[i] = q[i]
         /\ \A i \in 1..(Len(s) - k) : Rest(q, k, s)[Len(q) + i] = s[k + i]
<1> DEFINE t == SubSeq(s, k + 1, Len(s))
<1>1. Len(s) \in Nat /\ Len(q) \in Nat
  OBVIOUS
<1>2. /\ t \in Seq(Pieces) /\ Len(t) = Len(s) - k
      /\ \A i \in 1..Len(t) : t[i] = s[k + i]
  BY <1>1
<1> HIDE DEF t
<1> DEFINE r == q \o t
<1>3. r \in Seq(Pieces) /\ Len(r) = Len(q) + Len(t)
  <2>1. t \in Seq(Pieces)
    BY <1>2
  <2>2. r \in Seq(Pieces)
    BY <2>1
  <2>3. Len(r) = Len(q) + Len(t)
    BY <2>1
  <2> QED
    BY <2>2, <2>3
<1>4. \A i \in 1..Len(q) : r[i] = q[i]
  BY <1>1, <1>2
<1>5. \A i \in 1..Len(t) : r[Len(q) + i] = t[i]
  BY <1>1, <1>2
<1>6. Rest(q, k, s) = r
  BY DEF Rest, t
<1> HIDE DEF r
<1> QED
  BY <1>2, <1>3, <1>4, <1>5, <1>6

(* The client sends: nothing is left that was not left before.             *)
LEMMA RestSends ==
  ASSUME NEW q \in Seq(Pieces), NEW s \in Seq(Pieces), NEW k \in Nat,
         k < Len(s)
  PROVE  /\ Append(q, s[k + 1]) \in Seq(Pieces)
         /\ Rest(Append(q, s[k + 1]), k + 1, s) = Rest(q, k, s)
<1> DEFINE p == Append(q, s[k + 1])
           l == Rest(p, k + 1, s)
           r == Rest(q, k, s)
<1>1. /\ Len(s) \in Nat /\ Len(q) \in Nat /\ k \in 0..Len(s)
      /\ k + 1 \in 0..Len(s) /\ s[k + 1] \in Pieces
  OBVIOUS
<1>2. /\ p \in Seq(Pieces) /\ Len(p) = Len(q) + 1 /\ p[Len(q) + 1] = s[k + 1]
      /\ \A i \in 1..Len(q) : p[i] = q[i]
  BY <1>1
<1> HIDE DEF p
<1>3. /\ l \in Seq(Pieces) /\ Len(l) = Len(p) + (Len(s) - (k + 1))
      /\ \A i \in 1..Len(p) : l[i] = p[i]
      /\ \A i \in 1..(Len(s) - (k + 1)) : l[Len(p) + i] = s[(k + 1) + i]
  BY <1>1, <1>2, RestParts
<1>4. /\ r \in Seq(Pieces) /\ Len(r) = Len(q) + (Len(s) - k)
      /\ \A i \in 1..Len(q) : r[i] = q[i]
      /\ \A i \in 1..(Len(s) - k) : r[Len(q) + i] = s[k + i]
  BY <1>1, RestParts
<1> HIDE DEF l, r
<1>5. ASSUME NEW i \in 1..Len(l) PROVE l[i] = r[i]
  <2>1. CASE i \in 1..Len(q)
    <3>1. i \in 1..Len(p)
      BY <1>1, <1>2, <2>1
    <3> QED
      BY <1>2, <1>3, <1>4, <2>1, <3>1
  <2>2. CASE i = Len(q) + 1
    <3>1. i \in 1..Len(p) /\ 1 \in 1..(Len(s) - k)
      BY <1>1, <1>2, <2>2
    <3>2. l[i] = s[k + 1]
      BY <1>2, <1>3, <2>2, <3>1
    <3>3. r[i] = s[k + 1]
      BY <1>4, <2>2, <3>1
    <3> QED
      BY <3>2, <3>3
  <2>3. CASE i > Len(q) + 1
    <3> DEFINE j == i - Len(p)
    <3>1. /\ j \in 1..(Len(s) - (k + 1)) /\ i = Len(p) + j
          /\ j + 1 \in 1..(Len(s) - k) /\ i = Len(q) + (j + 1)
          /\ (k + 1) + j = k + (j + 1)
      BY <1>1, <1>2, <1>3, <2>3
    <3> HIDE DEF j
    <3>2. l[i] = s[(k + 1) + j]
      BY <1>3, <3>1
    <3>3. r[i] = s[k + (j + 1)]
      BY <1>4, <3>1
    <3> QED
      BY <3>1, <3>2, <3>3
  <2> QED
    BY <1>1, <1>2, <1>3, <2>1, <2>2, <2>3
<1>6. Len(l) = Len(r)
  BY <1>1, <1>2, <1>3, <1>4
<1>7. l = r
  BY <1>3, <1>4, <1>5, <1>6, SameSequence
<1> QED
  BY <1>2, <1>7 DEF l, r, p

(* A turn takes the first n pieces.                                        *)
LEMMA RestTakes ==
  ASSUME NEW q \in Seq(Pieces), NEW s \in Seq(Pieces), NEW k \in 0..Len(s),
         NEW n \in 0..Len(q)
  PROVE  /\ SubSeq(q, 1, n) \in Seq(Pieces) /\ Len(SubSeq(q, 1, n)) = n
         /\ SubSeq(q, n + 1, Len(q)) \in Seq(Pieces)
         /\ \A i \in 1..n : SubSeq(q, 1, n)[i] = q[i]
         /\ Joined(SubSeq(q, 1, n), Rest(SubSeq(q, n + 1, Len(q)), k, s),
                   Rest(q, k, s))
<1> DEFINE a == SubSeq(q, 1, n)
           b == SubSeq(q, n + 1, Len(q))
           l == Rest(b, k, s)
           r == Rest(q, k, s)
<1>1. Len(s) \in Nat /\ Len(q) \in Nat
  OBVIOUS
<1>2. /\ a \in Seq(Pieces) /\ Len(a) = n /\ \A i \in 1..n : a[i] = q[i]
      /\ b \in Seq(Pieces) /\ Len(b) = Len(q) - n
      /\ \A i \in 1..Len(b) : b[i] = q[n + i]
  BY <1>1
<1> HIDE DEF a, b
<1>3. /\ l \in Seq(Pieces) /\ Len(l) = Len(b) + (Len(s) - k)
      /\ \A i \in 1..Len(b) : l[i] = b[i]
      /\ \A i \in 1..(Len(s) - k) : l[Len(b) + i] = s[k + i]
  BY <1>2, RestParts
<1>4. /\ r \in Seq(Pieces) /\ Len(r) = Len(q) + (Len(s) - k)
      /\ \A i \in 1..Len(q) : r[i] = q[i]
      /\ \A i \in 1..(Len(s) - k) : r[Len(q) + i] = s[k + i]
  BY RestParts
<1> HIDE DEF l, r
<1>5. ASSUME NEW i \in 1..Len(l) PROVE r[Len(a) + i] = l[i]
  <2>1. CASE i <= Len(b)
    <3>1. i \in 1..Len(b) /\ n + i \in 1..Len(q)
      BY <1>1, <1>2, <2>1
    <3> QED
      BY <1>2, <1>3, <1>4, <3>1
  <2>2. CASE i > Len(b)
    <3> DEFINE j == i - Len(b)
    <3>1. j \in 1..(Len(s) - k) /\ i = Len(b) + j /\ n + i = Len(q) + j
      BY <1>1, <1>2, <1>3, <2>2
    <3> HIDE DEF j
    <3>2. l[i] = s[k + j]
      BY <1>3, <3>1
    <3>3. r[n + i] = s[k + j]
      BY <1>4, <3>1
    <3> QED
      BY <1>2, <3>2, <3>3
  <2> QED
    BY <1>1, <1>2, <1>3, <2>1, <2>2
<1>6. ASSUME NEW i \in 1..Len(a) PROVE r[i] = a[i]
  <2>1. i \in 1..n /\ i \in 1..Len(q)
    BY <1>1, <1>2
  <2> QED
    BY <1>2, <1>4, <2>1
<1>7. Len(r) = Len(a) + Len(l)
  BY <1>1, <1>2, <1>3, <1>4
<1>8. Joined(a, l, r)
  BY <1>2, <1>3, <1>4, <1>5, <1>6, <1>7, JoinedByParts
<1> QED
  BY <1>2, <1>8 DEF a, b, l, r

(* What holds of all pieces that are left.                                 *)
Tidy(q) == \A i, j \in 1..Len(q) : i < j /\ q[i].k = "dd" => q[j].k = "data"
Plainly(q) == \A i \in 1..Len(q) : q[i].k = "o2" => q[i].n = 0

(* A handshake takes a piece that is no data.                              *)
LEMMA RestSkips ==
  ASSUME NEW q \in Seq(Pieces), q # <<>>, NEW s \in Seq(Pieces),
         NEW k \in 0..Len(s), Head(q).k # "data"
  PROVE  /\ Tail(q) \in Seq(Pieces)
         /\ Payload(Rest(Tail(q), k, s)) = Payload(Rest(q, k, s))
         /\ Tidy(Rest(q, k, s)) => Tidy(Rest(Tail(q), k, s))
         /\ Tidy(Rest(q, k, s)) /\ Head(q).k = "dd" => AllData(Rest(Tail(q), k, s))
         /\ Plainly(Rest(q, k, s)) =>
              /\ Plainly(Rest(Tail(q), k, s))
              /\ Head(q).k = "o2" => Head(q).n = 0
<1> DEFINE l == Rest(Tail(q), k, s)
           r == Rest(q, k, s)
<1>1. /\ Len(s) \in Nat /\ Len(q) \in Nat /\ Len(q) > 0
      /\ Tail(q) \in Seq(Pieces) /\ Len(Tail(q)) = Len(q) - 1
      /\ \A i \in 1..Len(Tail(q)) : Tail(q)[i] = q[i + 1]
      /\ Head(q) = q[1]
  OBVIOUS
<1>2. /\ l \in Seq(Pieces) /\ Len(l) = Len(Tail(q)) + (Len(s) - k)
      /\ \A i \in 1..Len(Tail(q)) : l[i] = Tail(q)[i]
      /\ \A i \in 1..(Len(s) - k) : l[Len(Tail(q)) + i] = s[k + i]
  BY <1>1, RestParts
<1>3. /\ r \in Seq(Pieces) /\ Len(r) = Len(q) + (Len(s) - k)
      /\ \A i \in 1..Len(q) : r[i] = q[i]
      /\ \A i \in 1..(Len(s) - k) : r[Len(q) + i] = s[k + i]
  BY RestParts
<1> HIDE DEF l, r
<1>4. /\ Len(r) = Len(l) + 1 /\ Len(l) \in Nat /\ r[1] = Head(q)
      /\ \A i \in 1..Len(l) : r[i + 1] = l[i]
  <2>1. Len(r) = Len(l) + 1 /\ Len(l) \in Nat /\ r[1] = Head(q)
    BY <1>1, <1>2, <1>3
  <2>2. ASSUME NEW i \in 1..Len(l) PROVE r[i + 1] = l[i]
    <3>1. CASE i < Len(q)
      <4>1. i \in 1..Len(Tail(q)) /\ i + 1 \in 1..Len(q)
        BY <1>1, <3>1
      <4> QED
        BY <1>1, <1>2, <1>3, <4>1
    <3>2. CASE i >= Len(q)
      <4> DEFINE j == i - Len(Tail(q))
      <4>1. /\ j \in 1..(Len(s) - k) /\ i = Len(Tail(q)) + j
            /\ i + 1 = Len(q) + j
        BY <1>1, <1>2, <3>2
      <4> HIDE DEF j
      <4> QED
        BY <1>2, <1>3, <4>1
    <3> QED
      BY <1>1, <3>1, <3>2
  <2> QED
    BY <2>1, <2>2
<1>5. /\ Tail(r) = l /\ Head(r) = Head(q) /\ r # <<>>
  <2>1. /\ Tail(r) \in Seq(Pieces) /\ Len(Tail(r)) = Len(l) /\ Head(r) = r[1]
        /\ r # <<>> /\ \A i \in 1..Len(l) : Tail(r)[i] = r[i + 1]
    BY <1>3, <1>4
  <2>2. \A i \in 1..Len(Tail(r)) : Tail(r)[i] = l[i]
    BY <1>4, <2>1
  <2>3. Tail(r) = l
    <3> DEFINE t == Tail(r)
    <3> HIDE DEF t
    <3>1. t \in Seq(Pieces) /\ Len(t) = Len(l) /\ \A i \in 1..Len(t) : t[i] = l[i]
      BY <2>1, <2>2 DEF t
    <3>2. t = l
      BY <1>2, <3>1, SameSequence
    <3> QED
      BY <3>2 DEF t
  <2> QED
    BY <1>4, <2>1, <2>3
<1>6. Payload(Tail(r)) = Payload(r)
  BY <1>3, <1>5, PayloadSkip
<1>7. ASSUME Tidy(r)
      PROVE  Tidy(l) /\ (Head(q).k = "dd" => AllData(l))
  <2>1. ASSUME NEW i \in 1..Len(l), NEW j \in 1..Len(l), i < j, l[i].k = "dd"
        PROVE  l[j].k = "data"
    <3>1. i + 1 \in 1..Len(r) /\ j + 1 \in 1..Len(r) /\ i + 1 < j + 1
      BY <1>4, <2>1
    <3> QED
      BY <1>4, <1>7, <2>1, <3>1 DEF Tidy
  <2>2. ASSUME NEW j \in 1..Len(l), Head(q).k = "dd"
        PROVE  l[j].k = "data"
    <3>1. 1 \in 1..Len(r) /\ j + 1 \in 1..Len(r) /\ 1 < j + 1
      BY <1>4
    <3> QED
      BY <1>4, <1>7, <2>2, <3>1 DEF Tidy
  <2> QED
    BY <2>1, <2>2 DEF Tidy, AllData
<1>8. ASSUME Plainly(r)
      PROVE  Plainly(l) /\ (Head(q).k = "o2" => Head(q).n = 0)
  <2>1. ASSUME NEW i \in 1..Len(l), l[i].k = "o2" PROVE l[i].n = 0
    <3>1. i + 1 \in 1..Len(r)
      BY <1>4
    <3> QED
      BY <1>4, <1>8, <2>1, <3>1 DEF Plainly
  <2>2. 1 \in 1..Len(r)
    BY <1>4
  <2> QED
    BY <1>4, <1>8, <2>1, <2>2 DEF Plainly
<1> QED
  BY <1>1, <1>5, <1>6, <1>7, <1>8 DEF l, r

-----------------------------------------------------------------------------
(* The answers are on their way in order: the first n are with the client, *)
(* then come the writes that are queued for its loop (the k-th of them     *)
(* ends at p[k]), then what the other end's loop has not read yet.         *)
Transit(p, n, hi, in, sent) ==
  /\ p \in [0..Len(hi) -> Nat] /\ p[0] = n
  /\ \A k \in 1..Len(hi) : p[k - 1] <= p[k] /\ hi[k] = Run(p[k - 1], p[k])
  /\ p[Len(hi)] <= sent /\ in = Run(p[Len(hi)], sent)

InTransit(n, hi, in, sent) == \E p : Transit(p, n, hi, in, sent)

(* The other end sends one more unit.                                      *)
LEMMA TransitSends ==
  ASSUME NEW n, NEW hi \in Seq(Seq(Nat)), NEW in, NEW sent \in Nat,
         InTransit(n, hi, in, sent)
  PROVE  InTransit(n, hi, Append(in, sent + 1), sent + 1)
<1>1. PICK p : Transit(p, n, hi, in, sent)
  BY DEF InTransit
<1>2. /\ Len(hi) \in Nat /\ p[Len(hi)] \in Nat /\ p[Len(hi)] <= sent
      /\ in = Run(p[Len(hi)], sent)
  BY <1>1 DEF Transit
<1>3. Append(in, sent + 1) = Run(p[Len(hi)], sent + 1)
  BY <1>2, RunAppend
<1>4. p[Len(hi)] <= sent + 1
  BY <1>2
<1>5. Transit(p, n, hi, Append(in, sent + 1), sent + 1)
  BY <1>1, <1>3, <1>4 DEF Transit
<1> QED
  BY <1>5 DEF InTransit

(* A sequence is what comes up to m and what comes after it.               *)
LEMMA SplitAt ==
  ASSUME NEW E, NEW q \in Seq(E), NEW m \in 0..Len(q)
  PROVE  /\ SubSeq(q, 1, m) \in Seq(E) /\ Len(SubSeq(q, 1, m)) = m
         /\ SubSeq(q, m + 1, Len(q)) \in Seq(E)
         /\ Joined(SubSeq(q, 1, m), SubSeq(q, m + 1, Len(q)), q)
<1> DEFINE a == SubSeq(q, 1, m)
           b == SubSeq(q, m + 1, Len(q))
<1>1. /\ Len(q) \in Nat
      /\ a \in Seq(E) /\ Len(a) = m /\ \A i \in 1..Len(a) : a[i] = q[i]
      /\ b \in Seq(E) /\ Len(b) = Len(q) - m
      /\ \A i \in 1..Len(b) : b[i] = q[m + i]
  OBVIOUS
<1> HIDE DEF a, b
<1>2. Len(q) = Len(a) + Len(b)
  BY <1>1
<1>3. \A i \in 1..Len(b) : q[Len(a) + i] = b[i]
  BY <1>1
<1>4. Joined(a, b, q)
  BY <1>1, <1>2, <1>3, JoinedByParts
<1> QED
  BY <1>1, <1>4 DEF a, b

(* A loop reads m units and queues them for the client.                    *)
LEMMA TransitWrites ==
  ASSUME NEW n, NEW hi \in Seq(Seq(Nat)), NEW in \in Seq(Nat), NEW sent \in Nat,
         InTransit(n, hi, in, sent), NEW m \in 0..Len(in)
  PROVE  /\ Append(hi, SubSeq(in, 1, m)) \in Seq(Seq(Nat))
         /\ SubSeq(in, m + 1, Len(in)) \in Seq(Nat)
         /\ InTransit(n, Append(hi, SubSeq(in, 1, m)),
                      SubSeq(in, m + 1, Len(in)), sent)
<1> DEFINE a == SubSeq(in, 1, m)
           b == SubSeq(in, m + 1, Len(in))
           l == Len(hi)
           w == Append(hi, a)
<1>1. a \in Seq(Nat) /\ Len(a) = m /\ b \in Seq(Nat) /\ Joined(a, b, in)
  BY SplitAt
<1> HIDE DEF a, b
<1>2. PICK p : Transit(p, n, hi, in, sent)
  BY DEF InTransit
<1>3. /\ l \in Nat /\ p[l] \in Nat /\ p[l] <= sent /\ in = Run(p[l], sent)
  BY <1>2 DEF Transit
<1>4. /\ p[l] + m \in Nat /\ p[l] + m <= sent
      /\ a = Run(p[l], p[l] + m) /\ b = Run(p[l] + m, sent)
  <2> DEFINE c == p[l]
  <2>1. c \in Nat /\ c <= sent /\ Joined(a, b, Run(c, sent))
    BY <1>1, <1>3
  <2> HIDE DEF c
  <2>2. /\ c + Len(a) \in Nat /\ c + Len(a) <= sent
        /\ a = Run(c, c + Len(a)) /\ b = Run(c + Len(a), sent)
    BY <1>1, <2>1, RunParts
  <2>3. /\ c + m \in Nat /\ c + m <= sent
        /\ a = Run(c, c + m) /\ b = Run(c + m, sent)
    BY <1>1, <2>2
  <2> QED
    BY <2>3 DEF c
<1>5. /\ w \in Seq(Seq(Nat)) /\ Len(w) = l + 1 /\ w[l + 1] = a
      /\ \A k \in 1..l : w[k] = hi[k]
  BY <1>1
<1> DEFINE r == [k \in 0..(l + 1) |-> IF k = l + 1 THEN p[l] + m ELSE p[k]]
<1> HIDE DEF l, w
<1>6. /\ r[l + 1] = p[l] + m
      /\ \A k \in 0..l : r[k] = p[k]
  BY <1>3
<1>7. r \in [0..(l + 1) -> Nat]
  <2>1. \A k \in 0..l : p[k] \in Nat
    BY <1>2 DEF Transit, l
  <2>2. \A k \in 0..(l + 1) : k = l + 1 \/ k \in 0..l
    BY <1>3
  <2> QED
    BY <1>4, <2>1, <2>2
<1> HIDE DEF r
<1>8. ASSUME NEW k \in 1..Len(w)
      PROVE  r[k - 1] <= r[k] /\ w[k] = Run(r[k - 1], r[k])
  <2>1. CASE k = l + 1
    <3>1. k - 1 = l /\ l \in 0..l
      BY <1>3, <2>1
    <3>2. r[k - 1] = p[l] /\ r[k] = p[l] + m /\ w[k] = a
      BY <1>5, <1>6, <2>1, <3>1
    <3>3. p[l] <= p[l] + m
      BY <1>3
    <3> QED
      BY <1>4, <3>2, <3>3
  <2>2. CASE k \in 1..l
    <3>1. k - 1 \in 0..l /\ k \in 0..l
      BY <1>3, <2>2
    <3>2. p[k - 1] <= p[k] /\ hi[k] = Run(p[k - 1], p[k])
      BY <1>2, <2>2 DEF Transit, l
    <3> QED
      BY <1>5, <1>6, <2>2, <3>1, <3>2
  <2> QED
    BY <1>3, <1>5, <2>1, <2>2
<1>9. r[0] = n
  BY <1>2, <1>3, <1>6 DEF Transit
<1>10. Transit(r, n, w, b, sent)
  BY <1>4, <1>5, <1>6, <1>7, <1>8, <1>9 DEF Transit
<1>11. InTransit(n, w, b, sent)
  BY <1>10 DEF InTransit
<1> QED
  BY <1>1, <1>5, <1>11 DEF a, b, w

(* The client's loop runs the first write.                                 *)
LEMMA TransitRuns ==
  ASSUME NEW n \in Nat, NEW hi \in Seq(Seq(Nat)), NEW in, NEW sent \in Nat,
         InTransit(n, hi, in, sent), hi # <<>>
  PROVE  /\ Tail(hi) \in Seq(Seq(Nat)) /\ Head(hi) \in Seq(Nat)
         /\ Joined(Run(0, n), Head(hi), Run(0, n + Len(Head(hi))))
         /\ InTransit(n + Len(Head(hi)), Tail(hi), in, sent)
<1> DEFINE l == Len(hi)
           a == Head(hi)
           t == Tail(hi)
<1>1. PICK p : Transit(p, n, hi, in, sent)
  BY DEF InTransit
<1>2. /\ l \in Nat /\ l >= 1 /\ a = hi[1] /\ a \in Seq(Nat)
      /\ t \in Seq(Seq(Nat)) /\ Len(t) = l - 1
      /\ \A k \in 1..Len(t) : t[k] = hi[k + 1]
  OBVIOUS
<1> HIDE DEF l, a, t
<1>3. \A k \in 0..l : p[k] \in Nat
  BY <1>1 DEF Transit, l
<1>4. /\ p[0] = n /\ p[0] <= p[1] /\ a = Run(p[0], p[1]) /\ p[1] \in Nat
  <2>1. 1 \in 1..l /\ 1 \in 0..l /\ 1 - 1 = 0
    BY <1>2
  <2> QED
    BY <1>1, <1>2, <1>3, <2>1 DEF Transit, l
<1>5. Len(a) = p[1] - n /\ n + Len(a) = p[1]
  <2> DEFINE e == p[1]
  <2>1. e \in Nat /\ n <= e /\ a = Run(n, e)
    BY <1>4
  <2> HIDE DEF e
  <2>2. IsRun(a, n, e)
    BY <2>1, RunLaw
  <2>3. Len(a) = e - n /\ n + Len(a) = e
    BY <2>1, <2>2 DEF IsRun
  <2> QED
    BY <2>3 DEF e
<1>6. Joined(Run(0, n), a, Run(0, n + Len(a)))
  <2> DEFINE e == p[1]
  <2>1. e \in Nat /\ n <= e /\ a = Run(n, e) /\ n + Len(a) = e /\ 0 <= n
    BY <1>4, <1>5
  <2> HIDE DEF e
  <2>2. Joined(Run(0, n), Run(n, e), Run(0, e))
    BY <2>1, RunCat
  <2> QED
    BY <2>1, <2>2
<1> DEFINE r == [k \in 0..(l - 1) |-> p[k + 1]]
<1>7. /\ \A k \in 0..(l - 1) : r[k] = p[k + 1] /\ p[k + 1] \in Nat
      /\ r \in [0..(l - 1) -> Nat]
  BY <1>2, <1>3
<1> HIDE DEF r
<1>8. ASSUME NEW k \in 1..Len(t)
      PROVE  r[k - 1] <= r[k] /\ t[k] = Run(r[k - 1], r[k])
  <2>1. /\ k - 1 \in 0..(l - 1) /\ k \in 0..(l - 1) /\ k + 1 \in 1..l
        /\ (k - 1) + 1 = k /\ (k + 1) - 1 = k
    BY <1>2
  <2>2. p[k] <= p[k + 1] /\ hi[k + 1] = Run(p[k], p[k + 1])
    <3>1. p[(k + 1) - 1] <= p[k + 1] /\ hi[k + 1] = Run(p[(k + 1) - 1], p[k + 1])
      BY <1>1, <2>1 DEF Transit, l
    <3> QED
      BY <2>1, <3>1
  <2>3. r[k - 1] = p[k] /\ r[k] = p[k + 1]
    BY <1>7, <2>1
  <2> QED
    BY <1>2, <2>2, <2>3
<1>9. /\ r[0] = p[1] /\ r[Len(t)] = p[l]
  <2>1. 0 \in 0..(l - 1) /\ Len(t) \in 0..(l - 1) /\ Len(t) + 1 = l /\ 0 + 1 = 1
    BY <1>2
  <2> QED
    BY <1>7, <2>1
<1>10. p[l] <= sent /\ in = Run(p[l], sent)
  BY <1>1 DEF Transit, l
<1>11. Transit(r, n + Len(a), t, in, sent)
  BY <1>2, <1>5, <1>7, <1>8, <1>9, <1>10 DEF Transit
<1>12. InTransit(n + Len(a), t, in, sent)
  BY <1>11 DEF InTransit
<1> QED
  BY <1>2, <1>6, <1>12 DEF a, t

(* Nothing is on its way: the client has it all.                           *)
LEMMA TransitDone ==
  ASSUME NEW n \in Nat, NEW sent \in Nat, InTransit(n, <<>>, <<>>, sent)
  PROVE  n = sent
<1>1. PICK p : Transit(p, n, <<>>, <<>>, sent)
  BY DEF InTransit
<1>2. Len(<<>>) = 0
  OBVIOUS
<1>3. n <= sent /\ <<>> = Run(n, sent)
  BY <1>1, <1>2 DEF Transit
<1> DEFINE r == Run(n, sent)
<1>4. IsRun(r, n, sent)
  BY <1>3, RunLaw
<1>5. Len(r) = 0
  BY <1>2, <1>3
<1> HIDE DEF r
<1> QED
  BY <1>4, <1>5 DEF IsRun

(* In the beginning nothing is on its way.                                 *)
LEMMA TransitStarts == InTransit(0, <<>>, <<>>, 0)
<1> DEFINE p == [k \in 0..0 |-> 0]
<1>1. p \in [0..Len(<<>>) -> Nat] /\ p[0] = 0 /\ Len(<<>>) = 0 /\ 1..0 = {}
  OBVIOUS
<1>2. Run(0, 0) = <<>>
  BY RunEmpty
<1> HIDE DEF p
<1>3. Transit(p, 0, <<>>, <<>>, 0)
  BY <1>1, <1>2 DEF Transit
<1> QED
  BY <1>3 DEF InTransit

-----------------------------------------------------------------------------
UFields == {"at", "kill", "wake", "in", "sent", "context", "throttled", "out",
            "got"}

(* The states before the route is taken, and those that lead to a relay.   *)
Before == {"proxy", "detect", "header", "payload", "o2", "dd", "route"}
Routed == Before \cup {"dialing", "relaying"}
DCDial == {"start", "dial", "check", "enroll", "context", "forget", "relay",
           "state"}
SpliceDial == {"splice", "splice dial", "splice check", "peek", "publish",
               "discard", "reader", "throttled"}
Starting(x) == x.at \in {"new", "open"}

(* Which goroutine runs in which state of the connection.                  *)
Phase(x) ==
  /\ x.st \in Routed \cup {"splicing", "middle end", "closed"}
  /\ x.st \in Before \cup {"middle end"} => x.dial = "off"
  /\ x.dial \in SpliceDial => x.st \in {"splicing", "closed"}
  /\ x.dial \in DCDial => x.st \in {"dialing", "closed"}
  /\ x.st = "relaying" => x.dial \in {"register", "pending", "wake", "done"}
  /\ x.st = "closed" => x.at \in {"ending", "closed"}
  /\ x.st \in {"header", "payload", "o2"} => x.mode = "ee"

(* From the other end to the client.                                       *)
Down(x, u) ==
  /\ x.hi \in Seq(Seq(Nat)) /\ x.got \in Seq(Nat)
  /\ u.sent \in Nat /\ u.in \in Seq(Nat)
  /\ x.got = Run(0, Len(x.got))
  /\ Starting(x) => InTransit(Len(x.got), x.hi, u.in, u.sent)
  /\ x.at = "new" => u.at # "open"

(* The drain: once it is asked for nothing more comes, and once it has     *)
(* begun no write is queued.                                               *)
Draining(x, u) ==
  /\ x.drain \in {"requested", "draining", "done"} =>
       /\ x.dial = "done" /\ x.st \in {"splicing", "closed"}
       /\ u.at = "closed" /\ u.in = <<>>
  /\ x.drain \in {"draining", "done"} => x.hi = <<>>
  /\ x.drain = "done" => x.out = 0 /\ Len(x.got) = u.sent

(* What is left of the client's stream begins where the cipher stands.     *)
Stream(x, s) ==
  /\ x.in \in Seq(Pieces) /\ x.sent \in 0..Len(s)
  /\ x.st \in {"header", "payload"} => x.in # <<>> /\ Head(x.in).k = "tls"
  /\ x.st = "dd" => x.in # <<>>
  /\ x.st \in Before =>
       Tidy(Rest(x.in, x.sent, s)) /\ Plainly(Rest(x.in, x.sent, s))
  /\ x.st \in {"route", "dialing", "relaying"} /\ x.mode = "dd" =>
       AllData(Rest(x.in, x.sent, s))
  /\ x.dec <= Len(Payload(s))
  /\ Payload(Rest(x.in, x.sent, s)) = Run(x.dec, Len(Payload(s)))

Short(x, s) == x.mode = "dd" => Len(Payload(s)) <= Batch

(* From the client to the data centre.                                     *)
Upward(x, u, s) ==
  /\ x.pending = <<>> /\ x.dec \in Nat /\ u.got \in Seq(Int)
  /\ Starting(x) /\ x.st \in Routed => Stream(x, s)
  /\ Starting(x) /\ x.st \in Before \cup {"dialing"} =>
       x.dec = 0 /\ u.got = <<>>
  /\ Short(x, s) =>
       /\ u.got = Run(0, Len(u.got))
       /\ Starting(x) /\ x.st = "relaying" /\ u.at = "open" =>
            Len(u.got) = x.dec

FlowOK(x, u, s) ==
  /\ Phase(x) /\ Down(x, u) /\ Draining(x, u)
  /\ NothingPending(s) => Upward(x, u, s)

FlowInv ==
  /\ DOMAIN up = Conns /\ \A c \in Conns : DOMAIN up[c] = UFields
  /\ \A c \in DOMAIN env.max.script :
       FlowOK(cx[c], up[c], env.max.script[c])

-----------------------------------------------------------------------------
(* A step moves one connection.                                            *)
Moves(c, y, v) ==
  /\ cx'[c] = y /\ up'[c] = v /\ DOMAIN up' = Conns /\ DOMAIN v = UFields
  /\ \A d \in Conns \ {c} : cx'[d] = cx[d] /\ up'[d] = up[d]
  /\ env' = env

(* A step that changes the records of c only.                              *)
LEMMA MovesLaw ==
  ASSUME IInv, FlowInv, NEW c \in Conns, NEW y, NEW v,
         cx' = [cx EXCEPT ![c] = y] \/ (cx' = cx /\ y = cx[c]),
         up' = [up EXCEPT ![c] = v] \/ (up' = up /\ v = up[c]),
         DOMAIN v = UFields, env' = env
  PROVE  Moves(c, y, v)
<1>1. DOMAIN cx = Conns /\ DOMAIN up = Conns
  BY DEF IInv, FlowInv
<1>2. cx'[c] = y /\ \A d \in Conns \ {c} : cx'[d] = cx[d]
  BY <1>1
<1>3. up'[c] = v /\ DOMAIN up' = Conns /\ \A d \in Conns \ {c} : up'[d] = up[d]
  BY <1>1
<1> QED
  BY <1>2, <1>3 DEF Moves

(* The connections with a script and what they send.                       *)
LEMMA Scripts ==
  ASSUME IInv, NEW c \in DOMAIN env.max.script
  PROVE  c \in Conns /\ env.max.script[c] \in Seq(Pieces)
BY ScenarioAssumption DEF IInv

(* When the flow of c stays sound, the invariant is kept.                  *)
LEMMA FlowMoves ==
  ASSUME IInv, FlowInv, NEW c \in Conns, NEW y, NEW v, Moves(c, y, v),
         c \in DOMAIN env.max.script /\ env.max.script[c] \in Seq(Pieces)
           /\ FlowOK(cx[c], up[c], env.max.script[c])
         => FlowOK(y, v, env.max.script[c])
  PROVE  FlowInv'
<1>1. \A d \in DOMAIN env.max.script : d \in Conns /\ env.max.script[d] \in Seq(Pieces)
  BY Scripts
<1>2. ASSUME NEW d \in DOMAIN env.max.script
      PROVE  FlowOK(cx'[d], up'[d], env.max.script[d])
  <2>0. FlowOK(cx[d], up[d], env.max.script[d])
    BY DEF FlowInv
  <2>1. CASE d = c
    BY <1>1, <2>0, <2>1 DEF Moves
  <2>2. CASE d # c
    <3>1. cx'[d] = cx[d] /\ up'[d] = up[d]
      BY <1>1, <2>2 DEF Moves
    <3> QED
      BY <2>0, <3>1
  <2> QED
    BY <2>1, <2>2
<1>3. ASSUME NEW d \in Conns PROVE DOMAIN up'[d] = UFields
  BY DEF FlowInv, Moves
<1>4. env' = env /\ DOMAIN up' = Conns
  BY DEF Moves
<1> QED
  BY <1>2, <1>3, <1>4 DEF FlowInv

-----------------------------------------------------------------------------
(* Changes that the flow does not depend on, part by part.                 *)
LEMMA DownKept ==
  ASSUME NEW x, NEW u, NEW y, NEW v, Down(x, u),
         y.got = x.got, y.hi = x.hi \/ (y.hi = <<>> /\ ~Starting(y)),
         v.sent = u.sent, v.in = u.in, Starting(y) => Starting(x),
         y.at = "new" => x.at = "new" /\ (v.at = "open" => u.at = "open")
  PROVE  Down(y, v)
<1>1. <<>> \in Seq(Seq(Nat))
  OBVIOUS
<1> QED
  BY <1>1 DEF Down

(* The drain, when what it depends on stays or it ends early.              *)
LEMMA DrainKept ==
  ASSUME NEW x, NEW u, NEW y, NEW v, Draining(x, u),
         y.drain = x.drain \/ y.drain \in {"no", "expired", "cancelled"},
         y.got = x.got, v.sent = u.sent, v.in = u.in,
         u.at = "closed" => v.at = "closed",
         x.hi = <<>> => y.hi = <<>>, x.out = 0 => y.out = 0,
         x.dial = "done" => y.dial = "done",
         x.st \in {"splicing", "closed"} => y.st \in {"splicing", "closed"}
  PROVE  Draining(y, v)
BY DEF Draining

(* Before the splice ended there is no drain.                              *)
LEMMA NoDrain ==
  ASSUME NEW x, NEW u, NEW y, NEW v, Draining(x, u), y.drain = x.drain,
         x.dial # "done" \/ x.st \notin {"splicing", "closed"}
  PROVE  Draining(y, v)
BY DEF Draining

(* What goes up, when the stream and what was received stay.               *)
LEMMA UpKept ==
  ASSUME NEW x, NEW u, NEW y, NEW v, NEW s, Upward(x, u, s),
         y.pending = x.pending, y.dec \in Nat, y.mode = x.mode, v.got = u.got,
         Starting(y) /\ y.st \in Routed =>
           /\ Starting(x) /\ y.st = x.st /\ y.in = x.in /\ y.sent = x.sent
           /\ y.dec = x.dec
           /\ y.st = "relaying" /\ v.at = "open" => u.at = "open"
  PROVE  Upward(y, v, s)
<1>1. Starting(y) /\ y.st \in Routed => Stream(y, s)
  BY DEF Upward, Stream
<1>2. Short(y, s) <=> Short(x, s)
  BY DEF Short
<1>3. /\ Before \cup {"dialing"} \subseteq Routed /\ "relaying" \in Routed
  BY DEF Routed, Before
<1> QED
  BY <1>1, <1>2, <1>3 DEF Upward

(* All fields the flow depends on but at, st, in and dec.                  *)
Rides(x, y) ==
  /\ y.dial = x.dial /\ y.mode = x.mode /\ y.hi = x.hi /\ y.got = x.got
  /\ y.drain = x.drain /\ y.out = x.out /\ y.sent = x.sent
  /\ y.pending = x.pending
SameFlow(x, y) ==
  Rides(x, y) /\ y.at = x.at /\ y.st = x.st /\ y.in = x.in /\ y.dec = x.dec

(* A change of other fields, with the other side closed or not.            *)
LEMMA SameIsOK ==
  ASSUME NEW x, NEW u, NEW y, NEW v, NEW s, FlowOK(x, u, s), SameFlow(x, y),
         v.sent = u.sent, v.in = u.in, v.got = u.got,
         v.at = u.at \/ v.at = "closed"
  PROVE  FlowOK(y, v, s)
<1>1. Phase(y)
  BY DEF FlowOK, Phase, SameFlow, Rides
<1>2. Down(y, v)
  BY DownKept DEF FlowOK, SameFlow, Rides, Starting
<1>3. Draining(y, v)
  BY DrainKept DEF FlowOK, SameFlow, Rides
<1>4. NothingPending(s) => Upward(y, v, s)
  <2> SUFFICES ASSUME NothingPending(s) PROVE Upward(y, v, s)
    OBVIOUS
  <2>1. Upward(x, u, s) /\ x.dec \in Nat
    BY DEF FlowOK, Upward
  <2>2. Starting(y) <=> Starting(x)
    BY DEF SameFlow, Starting
  <2> QED
    BY <2>1, <2>2, UpKept DEF SameFlow, Rides
<1> QED
  BY <1>1, <1>2, <1>3, <1>4 DEF FlowOK

(* A turn ends with gnet.Close.                                            *)
LEMMA CloseIsOK ==
  ASSUME NEW x, NEW u, NEW y, NEW s, FlowOK(x, u, s), x.at = "open",
         Rides(x, y), y.st = x.st, y.at = "closing",
         NothingPending(s) /\ Upward(x, u, s) => y.dec \in Nat
  PROVE  FlowOK(y, u, s)
<1>0. ~Starting(y) /\ Starting(x)
  BY DEF Starting
<1>1. Phase(y)
  BY DEF FlowOK, Phase, Rides
<1>2. Down(y, u)
  BY <1>0, DownKept DEF FlowOK, Rides
<1>3. Draining(y, u)
  BY DrainKept DEF FlowOK, Rides
<1>4. NothingPending(s) => Upward(y, u, s)
  <2> SUFFICES ASSUME NothingPending(s) PROVE Upward(y, u, s)
    OBVIOUS
  <2>1. Upward(x, u, s) /\ y.dec \in Nat
    BY DEF FlowOK
  <2> QED
    BY <1>0, <2>1, UpKept DEF Rides
<1> QED
  BY <1>1, <1>2, <1>3, <1>4 DEF FlowOK

(* A handler ends with the record y.                                       *)
LEMMA EndsFlow ==
  ASSUME IInv, FlowInv, NEW c \in Conns, NEW y, DOMAIN y = XFields,
         y.at = "open", Ends(c, y), up' = up, env' = env,
         c \in DOMAIN env.max.script /\ env.max.script[c] \in Seq(Pieces)
           /\ FlowOK(cx[c], up[c], env.max.script[c])
         => FlowOK(y, up[c], env.max.script[c])
  PROVE  FlowInv'
<1> DEFINE s == env.max.script[c]
           u == up[c]
<1>1. PICK z : /\ cx' = [cx EXCEPT ![c] = z]
               /\ z \in {y, [y EXCEPT !.run = FALSE],
                         [y EXCEPT !.run = FALSE, !.at = "closing"]}
  BY DEF Ends, Continues, Returns, Closes
<1>2. \/ SameFlow(y, z)
      \/ Rides(y, z) /\ z.st = y.st /\ z.at = "closing" /\ z.dec = y.dec
  <2>1. CASE z = y
    BY <2>1 DEF SameFlow, Rides
  <2>2. CASE z = [y EXCEPT !.run = FALSE]
    BY <2>2 DEF SameFlow, Rides, XFields
  <2>3. CASE z = [y EXCEPT !.run = FALSE, !.at = "closing"]
    BY <2>3 DEF Rides, XFields
  <2> QED
    BY <1>1, <2>1, <2>2, <2>3
<1>3. DOMAIN u = UFields
  BY DEF FlowInv
<1>4. Moves(c, z, u)
  BY <1>1, <1>3, MovesLaw
<1>5. ASSUME FlowOK(y, u, s) PROVE FlowOK(z, u, s)
  <2>1. Upward(y, u, s) => y.dec \in Nat
    BY DEF Upward
  <2> QED
    BY <1>2, <1>5, <2>1, SameIsOK, CloseIsOK
<1> HIDE DEF s, u
<1> QED
  BY <1>4, <1>5, FlowMoves DEF s, u

-----------------------------------------------------------------------------
(* A handshake, as far as the flow goes: what is left of the stream, ...   *)
LEMMA StreamStays ==
  ASSUME NEW x, NEW y, NEW s, Stream(x, s), y.in = x.in, y.sent = x.sent,
         y.dec = x.dec,
         y.st \in {"header", "payload"} => x.in # <<>> /\ Head(x.in).k = "tls",
         y.st = "dd" => x.in # <<>>,
         y.st \in Before => x.st \in Before,
         y.st \in {"route", "dialing", "relaying"} =>
           x.st \in {"route", "dialing", "relaying"} /\ y.mode = x.mode
  PROVE  Stream(y, s)
BY DEF Stream

(* A handshake takes a piece that is no data.                              *)
LEMMA StreamSkips ==
  ASSUME NEW x, NEW y, NEW s \in Seq(Pieces), Stream(x, s), x.st \in Before,
         x.in # <<>>, Head(x.in).k # "data", y.in = Tail(x.in),
         y.sent = x.sent, y.dec = x.dec,
         y.st \in {"proxy", "detect", "o2", "route"},
         y.st = "route" /\ y.mode = "dd" => Head(x.in).k = "dd"
  PROVE  /\ Stream(y, s)
         /\ Head(x.in).k = "o2" => Head(x.in).n = 0
<1> DEFINE q == x.in
           k == x.sent
<1>1. /\ q \in Seq(Pieces) /\ k \in 0..Len(s) /\ q # <<>>
      /\ Tidy(Rest(q, k, s)) /\ Plainly(Rest(q, k, s))
  BY DEF Stream
<1>2. Head(q).k # "data"
  OBVIOUS
<1>3. /\ x.dec <= Len(Payload(s))
      /\ Payload(Rest(q, k, s)) = Run(x.dec, Len(Payload(s)))
  BY DEF Stream
<1> HIDE DEF q, k
<1>4. /\ Tail(q) \in Seq(Pieces)
      /\ Payload(Rest(Tail(q), k, s)) = Payload(Rest(q, k, s))
      /\ Tidy(Rest(Tail(q), k, s)) /\ Plainly(Rest(Tail(q), k, s))
      /\ Head(q).k = "dd" => AllData(Rest(Tail(q), k, s))
      /\ Head(q).k = "o2" => Head(q).n = 0
  BY <1>1, <1>2, RestSkips
<1>5. y.in = Tail(q) /\ y.sent = k
  BY DEF q, k
<1>6. y.st = "route" /\ y.mode = "dd" => Head(q).k = "dd"
  BY DEF q
<1>7. Stream(y, s)
  BY <1>1, <1>3, <1>4, <1>5, <1>6 DEF Stream
<1> QED
  BY <1>4, <1>7 DEF q

(* ... and the rest of the connection.                                     *)
LEMMA HandOK ==
  ASSUME NEW x, NEW u, NEW y, NEW s, FlowOK(x, u, s), Starting(x),
         x.st \in Before, y.at = "open", y.st \in Before \cup {"dialing"},
         y.hi = x.hi, y.got = x.got, y.drain = x.drain,
         y.dial = IF y.st = "dialing" THEN "start" ELSE "off",
         y.st \in {"header", "payload", "o2"} => y.mode = "ee",
         NothingPending(s) /\ Stream(x, s) /\ x.pending = <<>> =>
           Stream(y, s) /\ y.pending = <<>> /\ y.dec = x.dec
  PROVE  FlowOK(y, u, s)
<1>0. Starting(y) /\ x.dial = "off"
  BY DEF Starting, FlowOK, Phase
<1>1. Phase(y)
  <2>1. CASE y.st = "dialing"
    BY <2>1 DEF Phase, Before, Routed, DCDial, SpliceDial
  <2>2. CASE y.st \in Before
    <3>1. y.dial = "off" /\ y.st \notin {"dialing", "relaying", "closed"}
      BY <2>2 DEF Before
    <3> QED
      BY <2>2, <3>1 DEF Phase, Before, Routed, DCDial, SpliceDial
  <2> QED
    BY <2>1, <2>2
<1>2. Down(y, u)
  BY <1>0, DownKept DEF FlowOK
<1>3. Draining(y, u)
  BY <1>0, NoDrain DEF FlowOK
<1>4. NothingPending(s) => Upward(y, u, s)
  <2> SUFFICES ASSUME NothingPending(s) PROVE Upward(y, u, s)
    OBVIOUS
  <2>1. Upward(x, u, s) /\ x.st \in Routed
    BY DEF FlowOK, Routed
  <2>2. Stream(x, s) /\ x.pending = <<>> /\ x.dec = 0 /\ u.got = <<>>
    BY <2>1 DEF Upward
  <2>3. Stream(y, s) /\ y.pending = <<>> /\ y.dec = 0
    BY <2>2
  <2>4. u.got = Run(0, Len(u.got)) /\ u.got \in Seq(Int)
    <3>1. Len(<<>>) = 0 /\ <<>> \in Seq(Int)
      OBVIOUS
    <3>2. Run(0, 0) = <<>>
      BY RunEmpty
    <3> QED
      BY <2>2, <3>1, <3>2
  <2>5. y.st # "relaying"
    BY DEF Before
  <2> QED
    BY <2>2, <2>3, <2>4, <2>5 DEF Upward
<1> QED
  BY <1>1, <1>2, <1>3, <1>4 DEF FlowOK

(* The connection leaves for the mask host or the Middle-End.              *)
LEMMA LeaveOK ==
  ASSUME NEW x, NEW u, NEW y, NEW s, FlowOK(x, u, s), Starting(x),
         x.st \in Before, y.at = "open",
         \/ y.st = "splicing" /\ y.dial = "splice"
         \/ y.st = "middle end" /\ y.dial = "off",
         y.hi = x.hi, y.got = x.got, y.drain = x.drain, y.mode = x.mode,
         y.pending = x.pending, y.dec = x.dec
  PROVE  FlowOK(y, u, s)
<1>0. Starting(y) /\ x.dial = "off" /\ y.st \notin Routed
  BY DEF Starting, FlowOK, Phase, Routed, Before
<1>1. Phase(y)
  BY DEF Phase, Before, Routed, DCDial, SpliceDial
<1>2. Down(y, u)
  BY <1>0, DownKept DEF FlowOK
<1>3. Draining(y, u)
  BY <1>0, NoDrain DEF FlowOK
<1>4. NothingPending(s) => Upward(y, u, s)
  <2> SUFFICES ASSUME NothingPending(s) PROVE Upward(y, u, s)
    OBVIOUS
  <2>1. Upward(x, u, s) /\ x.dec \in Nat
    BY DEF FlowOK, Upward
  <2> QED
    BY <1>0, <2>1, UpKept
<1> QED
  BY <1>1, <1>2, <1>3, <1>4 DEF FlowOK

-----------------------------------------------------------------------------
(* The limiters change nothing of the flow.                                *)
LEMMA AcquireFlow ==
  ASSUME NEW H, NEW x, NEW ip, DOMAIN x = XFields
  PROVE  LET r == AcquireInitialIPLimit(H, x, ip)
         IN  SameFlow(x, r.x) /\ DOMAIN r.x = XFields
<1> DEFINE r == AcquireInitialIPLimit(H, x, ip)
<1>1. r.x = x \/ r.x = [x EXCEPT !.ipKey = IPKey(ip)]
  BY DEF AcquireInitialIPLimit, Admits, Refuses
<1> HIDE DEF r
<1>2. ASSUME r.x = x PROVE SameFlow(x, r.x) /\ DOMAIN r.x = XFields
  BY <1>2 DEF SameFlow, Rides
<1>3. ASSUME r.x = [x EXCEPT !.ipKey = IPKey(ip)]
      PROVE  SameFlow(x, r.x) /\ DOMAIN r.x = XFields
  BY <1>3 DEF SameFlow, Rides, XFields
<1>4. SameFlow(x, r.x) /\ DOMAIN r.x = XFields
  BY <1>1, <1>2, <1>3
<1> QED
  BY <1>4 DEF r

(* The transfer of a slot changes nothing of the flow.                     *)
LEMMA TransferFlow ==
  ASSUME NEW H, NEW x, NEW ip, DOMAIN x = XFields
  PROVE  LET r == TransferInitialIPLimit(H, x, ip)
         IN  SameFlow(x, r.x) /\ DOMAIN r.x = XFields
<1> DEFINE r == TransferInitialIPLimit(H, x, ip)
<1>1. \/ r.x = x \/ r.x = [x EXCEPT !.ipKey = IPKey(ip)]
      \/ r = AcquireInitialIPLimit(H, x, ip)
  BY DEF TransferInitialIPLimit, Admits, Refuses
<1> HIDE DEF r
<1>2. ASSUME r.x = x PROVE SameFlow(x, r.x) /\ DOMAIN r.x = XFields
  BY <1>2 DEF SameFlow, Rides
<1>3. ASSUME r.x = [x EXCEPT !.ipKey = IPKey(ip)]
      PROVE  SameFlow(x, r.x) /\ DOMAIN r.x = XFields
  BY <1>3 DEF SameFlow, Rides, XFields
<1>4. ASSUME r = AcquireInitialIPLimit(H, x, ip)
      PROVE  SameFlow(x, r.x) /\ DOMAIN r.x = XFields
  BY <1>4, AcquireFlow
<1>5. SameFlow(x, r.x) /\ DOMAIN r.x = XFields
  BY <1>1, <1>2, <1>3, <1>4
<1> QED
  BY <1>5 DEF r

(* Two such changes.                                                       *)
LEMMA SameTwice ==
  ASSUME NEW x, NEW y, NEW z, SameFlow(x, y), SameFlow(y, z)
  PROVE  SameFlow(x, z)
BY DEF SameFlow, Rides

(* A limiter's decision: y goes on in a state of the handshake.            *)
LEMMA ThenFlow ==
  ASSUME IInv, FlowInv, NEW c \in Conns, cx[c].st \in Before, Starting(cx[c]),
         NEW x, DOMAIN x = XFields, x.at = "open", x.st \in {"proxy", "detect"},
         NEW r, SameFlow(x, r.x), DOMAIN r.x = XFields,
         NEW w, DOMAIN w = XFields, Rides(r.x, w), w.at = "open",
         w.in = r.x.in, w.dec = r.x.dec, w.st \in {"proxy", "detect"},
         Then(c, r, w), up' = up, env' = env,
         c \in DOMAIN env.max.script /\ env.max.script[c] \in Seq(Pieces)
           /\ FlowOK(cx[c], up[c], env.max.script[c])
         => FlowOK(x, up[c], env.max.script[c])
  PROVE  FlowInv'
<1> DEFINE s == env.max.script[c]
           u == up[c]
<1>1. Ends(c, r.x) \/ Ends(c, w)
  BY DEF Then, Ends
<1>2. r.x.at = "open"
  BY DEF SameFlow
<1>3. ASSUME FlowOK(x, u, s)
      PROVE  FlowOK(r.x, u, s) /\ FlowOK(w, u, s)
  <2>1. FlowOK(r.x, u, s)
    BY <1>3, SameIsOK
  <2>2. /\ r.x.st \in Before /\ Starting(r.x) /\ r.x.st \in {"proxy", "detect"}
        /\ w.st \in Before
    BY <1>2 DEF Before, Starting, SameFlow
  <2>3. r.x.dial = "off" /\ w.dial = "off"
    BY <2>1, <2>2 DEF FlowOK, Phase, Rides
  <2>4. Stream(r.x, s) => Stream(w, s)
    <3>1. /\ w.st \notin {"header", "payload", "dd", "route", "dialing", "relaying"}
          /\ w.in = r.x.in /\ w.sent = r.x.sent /\ w.dec = r.x.dec
      BY DEF Rides
    <3> QED
      BY <2>2, <3>1, StreamStays
  <2>5. w.st # "dialing" /\ w.st \notin {"header", "payload", "o2"}
    OBVIOUS
  <2>6. FlowOK(w, u, s)
    BY <2>1, <2>2, <2>3, <2>4, <2>5, HandOK DEF Rides
  <2> QED
    BY <2>1, <2>6
<1> QED
  BY <1>1, <1>2, <1>3, EndsFlow

-----------------------------------------------------------------------------
(* What the invariants say of one connection.                              *)
LEMMA FlowFacts ==
  ASSUME IInv, FlowInv, NEW c \in Conns
  PROVE  /\ ConnSound(cx[c]) /\ DOMAIN cx[c] = XFields /\ DOMAIN cx = Conns
         /\ DOMAIN up[c] = UFields /\ DOMAIN up = Conns
BY Facts DEF FlowInv

(* OnOpen.                                                                 *)
LEMMA OpenFlow ==
  ASSUME IInv, FlowInv, NEW c \in Conns, OnOpen(c)
  PROVE  FlowInv'
<1> DEFINE x == cx[c]
           s == env.max.script[c]
           u == up[c]
           ip == env.max.peer[c]
           candidate == env.max.internal /\ TrustedPeer(ip)
           H == [h EXCEPT !.active = @ + 1]
           st == IF env.max.proxy \/ candidate THEN "proxy" ELSE x.st
           y == [x EXCEPT !.at = "open", !.peer = ip, !.ip = ip,
                          !.candidate = candidate, !.st = st]
           key == IF candidate /\ ip = NoIP THEN Loopback ELSE ip
           r == AcquireInitialIPLimit(H, y, key)
           w == [r.x EXCEPT !.timer = TRUE]
<1>0. /\ ConnSound(x) /\ DOMAIN x = XFields /\ x.at = "new" /\ x.st = "detect"
      /\ x.dial = "off" /\ up' = up /\ env' = env
  BY FlowFacts DEF OnOpen, ConnSound
<1>1. Closes(c, y) \/ Then(c, r, w)
  BY DEF OnOpen
<1>2. st \in {"proxy", "detect"}
  BY <1>0
<1> HIDE DEF ip, candidate, st, key, H
<1>3. DOMAIN y = XFields /\ y.at = "open" /\ y.st = st /\ Rides(x, y)
      /\ y.in = x.in /\ y.dec = x.dec
  BY <1>0 DEF XFields, Rides
<1> HIDE DEF y
<1>4. SameFlow(y, r.x) /\ DOMAIN r.x = XFields
  BY <1>3, AcquireFlow
<1> HIDE DEF r
<1>5. /\ DOMAIN w = XFields /\ Rides(r.x, w) /\ w.at = "open" /\ w.in = r.x.in
      /\ w.dec = r.x.dec /\ w.st = y.st
  BY <1>3, <1>4 DEF XFields, Rides, SameFlow
<1> HIDE DEF w
<1>6. Starting(x) /\ x.st \in Before /\ y.st \in Before
  BY <1>0, <1>2, <1>3 DEF Starting, Before
<1>7. ASSUME FlowOK(x, u, s) PROVE FlowOK(y, u, s)
  <2>1. Stream(x, s) => Stream(y, s)
    BY <1>2, <1>3, <1>6, StreamStays DEF Rides
  <2> QED
    BY <1>0, <1>2, <1>3, <1>6, <1>7, <2>1, HandOK DEF Rides
<1>8. CASE Closes(c, y)
  BY <1>0, <1>3, <1>7, <1>8, EndsFlow DEF Ends
<1>9. CASE Then(c, r, w)
  BY <1>0, <1>2, <1>3, <1>4, <1>5, <1>6, <1>7, <1>9, ThenFlow
<1> QED
  BY <1>1, <1>8, <1>9

(* A connection without a PROXY header.                                    *)
LEMMA FallbackFlow ==
  ASSUME IInv, FlowInv, NEW c \in Conns, cx[c].st \in Before, Starting(cx[c]),
         NEW x, DOMAIN x = XFields, x.at = "open", x.st = "proxy",
         FallbackFromProxyProtocol(c, x), up' = up, env' = env,
         c \in DOMAIN env.max.script /\ env.max.script[c] \in Seq(Pieces)
           /\ FlowOK(cx[c], up[c], env.max.script[c])
         => FlowOK(x, up[c], env.max.script[c])
  PROVE  FlowInv'
<1> DEFINE r == AcquireInitialIPLimit(h, x, x.peer)
           w == [r.x EXCEPT !.st = "detect"]
<1>1. Then(c, r, w)
  BY DEF FallbackFromProxyProtocol
<1>2. SameFlow(x, r.x) /\ DOMAIN r.x = XFields
  BY AcquireFlow
<1> HIDE DEF r
<1>3. /\ DOMAIN w = XFields /\ Rides(r.x, w) /\ w.at = "open" /\ w.in = r.x.in
      /\ w.dec = r.x.dec /\ w.st = "detect"
  BY <1>2 DEF XFields, Rides, SameFlow
<1> HIDE DEF w
<1>4. x.st \in {"proxy", "detect"} /\ w.st \in {"proxy", "detect"}
  BY <1>3
<1> QED
  BY <1>1, <1>2, <1>3, <1>4, ThenFlow

(* A PROXY header.                                                         *)
LEMMA HeaderFlow ==
  ASSUME IInv, FlowInv, NEW c \in Conns, cx[c].st \in Before, Starting(cx[c]),
         NEW x, DOMAIN x = XFields, x.at = "open", x.st = "proxy", NEW src,
         AcceptProxyHeader(c, x, src), up' = up, env' = env,
         c \in DOMAIN env.max.script /\ env.max.script[c] \in Seq(Pieces)
           /\ FlowOK(cx[c], up[c], env.max.script[c])
         => FlowOK(x, up[c], env.max.script[c])
  PROVE  FlowInv'
<1> DEFINE s == env.max.script[c]
           u == up[c]
           t == IF x.authed THEN TransferInitialIPLimit(h, x, src) ELSE Admits(h, x)
           y == [t.x EXCEPT !.ip = IF src = NoIP THEN @ ELSE src]
           r == AcquireInitialIPLimit(t.h, y, y.ip)
           w == [r.x EXCEPT !.st = "detect"]
<1>1. IF ~t.ok THEN Then(c, t, y) ELSE Then(c, r, w)
  BY DEF AcceptProxyHeader
<1>2. SameFlow(x, t.x) /\ DOMAIN t.x = XFields
  <2>1. CASE x.authed
    BY <2>1, TransferFlow
  <2>2. CASE ~x.authed
    <3>1. t.x = x
      BY <2>2 DEF Admits
    <3> QED
      BY <3>1 DEF SameFlow, Rides
  <2> QED
    BY <2>1, <2>2
<1> HIDE DEF t
<1>3. SameFlow(t.x, y) /\ DOMAIN y = XFields
  BY <1>2 DEF SameFlow, Rides, XFields
<1> HIDE DEF y
<1>4. SameFlow(y, r.x) /\ DOMAIN r.x = XFields
  BY <1>3, AcquireFlow
<1> HIDE DEF r
<1>5. SameFlow(x, y) /\ SameFlow(x, r.x)
  BY <1>2, <1>3, <1>4, SameTwice
<1>6. /\ DOMAIN w = XFields /\ Rides(r.x, w) /\ w.at = "open" /\ w.in = r.x.in
      /\ w.dec = r.x.dec /\ w.st = "detect"
  BY <1>4, <1>5 DEF XFields, Rides, SameFlow
<1> HIDE DEF w
<1>7. x.st \in {"proxy", "detect"} /\ w.st \in {"proxy", "detect"}
      /\ y.st \in {"proxy", "detect"} /\ y.at = "open"
      /\ Rides(t.x, y) /\ y.in = t.x.in /\ y.dec = t.x.dec
  BY <1>3, <1>5, <1>6 DEF SameFlow
<1>8. CASE Then(c, t, y)
  BY <1>2, <1>3, <1>7, <1>8, ThenFlow
<1>9. CASE Then(c, r, w)
  BY <1>4, <1>5, <1>6, <1>7, <1>9, ThenFlow
<1> QED
  BY <1>1, <1>8, <1>9

(* handleProxyProto takes at most one piece, which is no data.             *)
LEMMA ProxyFlow ==
  ASSUME IInv, FlowInv, NEW c \in Conns, HandleProxyProto(c)
  PROVE  FlowInv'
<1> DEFINE x == cx[c]
           s == env.max.script[c]
           u == up[c]
           it == Head(x.in)
           rest == [x EXCEPT !.in = Tail(@)]
           known == [x EXCEPT !.candidate = FALSE]
           hop == [rest EXCEPT !.candidate = FALSE, !.authed = TRUE]
<1>0. /\ ConnSound(x) /\ DOMAIN x = XFields /\ x.at = "open" /\ x.st = "proxy"
      /\ x.in \in Seq(Pieces) /\ up' = up /\ env' = env /\ x.dial = "off"
  BY FlowFacts DEF HandleProxyProto, Handling, ConnSound
<1>1. Starting(x) /\ x.st \in Before
  BY <1>0 DEF Starting, Before
<1>2. \/ Ends(c, x) \/ Ends(c, known)
      \/ FallbackFromProxyProtocol(c, x) \/ FallbackFromProxyProtocol(c, known)
      \/ /\ ~NeedsMore(c, 1)
         /\ \/ it.k = "preface" /\ Ends(c, hop)
            \/ it.k = "header" /\ AcceptProxyHeader(c, rest, it.n)
  BY DEF HandleProxyProto, Waits, Ends
<1>3. SameFlow(x, known) /\ DOMAIN known = XFields
  BY <1>0 DEF SameFlow, Rides, XFields
<1>4. /\ Rides(x, rest) /\ DOMAIN rest = XFields /\ rest.at = "open"
      /\ rest.st = "proxy" /\ rest.in = Tail(x.in) /\ rest.dec = x.dec
  BY <1>0 DEF Rides, XFields
<1> HIDE DEF rest
<1>5. SameFlow(rest, hop) /\ DOMAIN hop = XFields
  BY <1>4 DEF SameFlow, Rides, XFields
<1> HIDE DEF known, hop
<1>6. ASSUME FlowOK(x, u, s) PROVE FlowOK(known, u, s)
  BY <1>3, <1>6, SameIsOK
<1>7. ASSUME ~NeedsMore(c, 1), it.k \in {"preface", "header"},
             s \in Seq(Pieces), FlowOK(x, u, s)
      PROVE  FlowOK(rest, u, s) /\ FlowOK(hop, u, s)
  <2>1. x.in # <<>>
    BY <1>0, <1>7 DEF NeedsMore
  <2>2. it.k # "data"
    BY <1>7
  <2>3. Stream(x, s) => Stream(rest, s)
    BY <1>1, <1>4, <1>7, <2>1, <2>2, StreamSkips DEF Rides
  <2>4. FlowOK(rest, u, s)
    BY <1>0, <1>1, <1>4, <1>7, <2>3, HandOK DEF Rides
  <2> QED
    BY <1>5, <2>4, SameIsOK
<1>8. known.at = "open" /\ hop.at = "open" /\ known.st = "proxy"
  BY <1>0, <1>3, <1>4, <1>5 DEF SameFlow
<1>9. CASE Ends(c, x) \/ Ends(c, known)
  BY <1>0, <1>3, <1>6, <1>8, <1>9, EndsFlow
<1>10. CASE FallbackFromProxyProtocol(c, x) \/ FallbackFromProxyProtocol(c, known)
  BY <1>0, <1>1, <1>3, <1>6, <1>8, <1>10, FallbackFlow
<1>11. CASE ~NeedsMore(c, 1) /\ it.k = "preface" /\ Ends(c, hop)
  BY <1>0, <1>5, <1>7, <1>8, <1>11, EndsFlow
<1>12. CASE ~NeedsMore(c, 1) /\ it.k = "header" /\ AcceptProxyHeader(c, rest, it.n)
  BY <1>0, <1>1, <1>4, <1>7, <1>12, HeaderFlow
<1> QED
  BY <1>2, <1>9, <1>10, <1>11, <1>12

-----------------------------------------------------------------------------
(* The protocol is detected by the first piece, which stays.               *)
LEMMA DetectFlow ==
  ASSUME IInv, FlowInv, NEW c \in Conns, HandleDetectProtocol(c)
  PROVE  FlowInv'
<1> DEFINE x == cx[c]
           s == env.max.script[c]
           u == up[c]
           ee == [x EXCEPT !.mode = "ee", !.st = "header"]
           dd == [x EXCEPT !.mode = "dd", !.st = "dd"]
<1>0. /\ ConnSound(x) /\ DOMAIN x = XFields /\ x.at = "open" /\ x.st = "detect"
      /\ up' = up /\ env' = env
  BY FlowFacts DEF HandleDetectProtocol, Handling, ConnSound
<1>1. Starting(x) /\ x.st \in Before
  BY <1>0 DEF Starting, Before
<1>2. \/ Ends(c, x)
      \/ /\ ~NeedsMore(c, 1)
         /\ \/ Head(x.in).k = "tls" /\ Ends(c, ee)
            \/ Ends(c, dd)
  BY DEF HandleDetectProtocol, Waits, Ends
<1> DEFINE Kept(y) ==
        /\ DOMAIN y = XFields /\ y.at = "open" /\ y.in = x.in /\ y.dec = x.dec
        /\ y.sent = x.sent /\ y.hi = x.hi /\ y.got = x.got /\ y.drain = x.drain
        /\ y.pending = x.pending /\ y.dial = x.dial
<1>3a. Kept(ee)
  BY <1>0 DEF XFields
<1>3b. Kept(dd)
  BY <1>0 DEF XFields
<1>4. ee.st = "header" /\ ee.mode = "ee" /\ dd.st = "dd"
  BY <1>0 DEF XFields
<1> HIDE DEF ee, dd
<1>3. \A y \in {ee, dd} : Kept(y)
  BY <1>3a, <1>3b
<1>5. ASSUME NEW y \in {ee, dd}, ~NeedsMore(c, 1),
             y = ee => Head(x.in).k = "tls", FlowOK(x, u, s)
      PROVE  FlowOK(y, u, s)
  <2>1. x.dial = "off"
    BY <1>1, <1>5 DEF FlowOK, Phase
  <2>2. Stream(x, s) => Stream(y, s)
    <3> SUFFICES ASSUME Stream(x, s) PROVE Stream(y, s)
      OBVIOUS
    <3>1. x.in # <<>>
      BY <1>5 DEF NeedsMore, Stream
    <3>2. /\ y.st \in {"header", "payload"} => Head(x.in).k = "tls"
          /\ y.st \notin {"route", "dialing", "relaying"}
      BY <1>4, <1>5
    <3> QED
      BY <1>1, <1>3, <1>5, <3>1, <3>2, StreamStays
  <2>3. /\ y.st \in Before /\ y.st # "dialing"
        /\ y.st \in {"header", "payload", "o2"} => y.mode = "ee"
    BY <1>4, <1>5 DEF Before
  <2> QED
    BY <1>1, <1>3, <1>5, <2>1, <2>2, <2>3, HandOK
<1>6. CASE Ends(c, x)
  BY <1>0, <1>6, EndsFlow
<1>7. ASSUME NEW y \in {ee, dd}, ~NeedsMore(c, 1),
             y = ee => Head(x.in).k = "tls", Ends(c, y)
      PROVE  FlowInv'
  BY <1>0, <1>3, <1>5, <1>7, EndsFlow
<1>8. ee # dd
  BY <1>4
<1> QED
  BY <1>2, <1>6, <1>7, <1>8

(* startSplice.                                                            *)
LEMMA SplicesFlow ==
  ASSUME IInv, FlowInv, NEW c \in Conns, cx[c].at = "open",
         cx[c].st \in Before, StartSplice(c, cx[c]), up' = up, env' = env
  PROVE  FlowInv'
<1> DEFINE x == cx[c]
           s == env.max.script[c]
           u == up[c]
           y == [x EXCEPT !.st = "splicing", !.dial = "splice"]
<1>0. DOMAIN x = XFields
  BY FlowFacts
<1>1. Ends(c, x) \/ Ends(c, y)
  BY DEF StartSplice, Ends
<1>2. /\ DOMAIN y = XFields /\ y.at = "open" /\ y.st = "splicing"
      /\ y.dial = "splice" /\ y.hi = x.hi /\ y.got = x.got
      /\ y.drain = x.drain /\ y.mode = x.mode /\ y.pending = x.pending
      /\ y.dec = x.dec
  BY <1>0 DEF XFields
<1> HIDE DEF y
<1>3. ASSUME FlowOK(x, u, s) PROVE FlowOK(y, u, s)
  <2>1. Starting(x)
    BY DEF Starting
  <2> QED
    BY <1>2, <1>3, <2>1, LeaveOK
<1> QED
  BY <1>0, <1>1, <1>2, <1>3, EndsFlow

(* The record header stays, too.                                           *)
LEMMA TLSHeaderFlow ==
  ASSUME IInv, FlowInv, NEW c \in Conns, HandleTLSHeader(c)
  PROVE  FlowInv'
<1> DEFINE x == cx[c]
           s == env.max.script[c]
           u == up[c]
           y == [x EXCEPT !.st = "payload"]
<1>0. /\ ConnSound(x) /\ DOMAIN x = XFields /\ x.at = "open" /\ x.st = "header"
      /\ up' = up /\ env' = env
  BY FlowFacts DEF HandleTLSHeader, Handling, ConnSound
<1>1. Starting(x) /\ x.st \in Before
  BY <1>0 DEF Starting, Before
<1>2. StartSplice(c, x) \/ Ends(c, y)
  BY DEF HandleTLSHeader, Ends
<1>3. /\ DOMAIN y = XFields /\ y.at = "open" /\ y.in = x.in /\ y.dec = x.dec
      /\ y.sent = x.sent /\ y.hi = x.hi /\ y.got = x.got /\ y.drain = x.drain
      /\ y.pending = x.pending /\ y.dial = x.dial /\ y.st = "payload"
      /\ y.mode = x.mode
  BY <1>0 DEF XFields
<1> HIDE DEF y
<1>4. ASSUME FlowOK(x, u, s) PROVE FlowOK(y, u, s)
  <2>1. x.dial = "off" /\ x.mode = "ee"
    BY <1>0, <1>1, <1>4 DEF FlowOK, Phase
  <2>2. Stream(x, s) => Stream(y, s)
    <3> SUFFICES ASSUME Stream(x, s) PROVE Stream(y, s)
      OBVIOUS
    <3>1. x.in # <<>> /\ Head(x.in).k = "tls"
      BY <1>0 DEF Stream
    <3> QED
      BY <1>1, <1>3, <3>1, StreamStays
  <2>3. y.st \in Before /\ y.st # "dialing"
    BY <1>3 DEF Before
  <2> QED
    BY <1>1, <1>3, <1>4, <2>1, <2>2, <2>3, HandOK
<1>5. CASE Ends(c, y)
  BY <1>0, <1>3, <1>4, <1>5, EndsFlow
<1> QED
  BY <1>0, <1>1, <1>2, <1>5, SplicesFlow

(* handleO2Frame takes a frame: nothing is pending when it held no data.   *)
LEMMA O2Flow ==
  ASSUME IInv, FlowInv, NEW c \in Conns, HandleO2Frame(c)
  PROVE  FlowInv'
<1> DEFINE x == cx[c]
           s == env.max.script[c]
           u == up[c]
           it == Head(x.in)
           p == [i \in 1..it.n |-> i]
           rest == [x EXCEPT !.in = Tail(@)]
           y == [rest EXCEPT !.cipher = TRUE, !.st = "route", !.pending = p]
<1>0. /\ ConnSound(x) /\ DOMAIN x = XFields /\ x.at = "open" /\ x.st = "o2"
      /\ up' = up /\ env' = env
  BY FlowFacts DEF HandleO2Frame, Handling, ConnSound
<1>1. Starting(x) /\ x.st \in Before
  BY <1>0 DEF Starting, Before
<1>2. \/ Ends(c, x)
      \/ /\ ~NeedsMore(c, 1)
         /\ \/ it.k = "ccs" /\ Ends(c, rest)
            \/ it.k = "o2" /\ Ends(c, y)
  BY DEF HandleO2Frame, Waits, Ends
<1>3. it.n = 0 => p = <<>>
  OBVIOUS
<1> HIDE DEF p
<1> DEFINE Kept(z) ==
        /\ DOMAIN z = XFields /\ z.at = "open" /\ z.in = Tail(x.in)
        /\ z.dec = x.dec
        /\ z.sent = x.sent /\ z.hi = x.hi /\ z.got = x.got /\ z.drain = x.drain
        /\ z.dial = x.dial /\ z.mode = x.mode
<1>4a. Kept(rest)
  BY <1>0 DEF XFields
<1>4b. Kept(y)
  BY <1>0 DEF XFields
<1>5. rest.st = "o2" /\ rest.pending = x.pending /\ y.st = "route" /\ y.pending = p
  BY <1>0 DEF XFields
<1> HIDE DEF rest, y
<1>4. \A z \in {rest, y} : Kept(z)
  BY <1>4a, <1>4b
<1>6. ASSUME NEW z \in {rest, y}, ~NeedsMore(c, 1), it.k \in {"ccs", "o2"},
             z = y => it.k = "o2", s \in Seq(Pieces), FlowOK(x, u, s)
      PROVE  FlowOK(z, u, s)
  <2>1. x.dial = "off" /\ x.mode = "ee"
    BY <1>0, <1>1, <1>6 DEF FlowOK, Phase
  <2>2. Stream(x, s) /\ x.pending = <<>> => Stream(z, s) /\ z.pending = <<>>
    <3> SUFFICES ASSUME Stream(x, s), x.pending = <<>>
                 PROVE  Stream(z, s) /\ z.pending = <<>>
      OBVIOUS
    <3>1. x.in # <<>> /\ it.k # "data"
      BY <1>6 DEF NeedsMore, Stream
    <3>2. z.st \in {"o2", "route"} /\ z.mode # "dd"
      BY <1>4, <1>5, <2>1
    <3>3. z.in = Tail(x.in) /\ z.sent = x.sent /\ z.dec = x.dec
      BY <1>4
    <3>4. x.st \in Before /\ s \in Seq(Pieces) /\ Head(x.in).k # "data"
      BY <1>1, <1>6, <3>1
    <3>5. /\ z.st \in {"proxy", "detect", "o2", "route"}
          /\ z.st = "route" /\ z.mode = "dd" => Head(x.in).k = "dd"
      BY <3>2
    <3> HIDE DEF x, s, Kept, it
    <3>6. /\ Stream(z, s)
          /\ Head(x.in).k = "o2" => Head(x.in).n = 0
      BY <3>1, <3>3, <3>4, <3>5, StreamSkips
    <3> QED
      BY <1>3, <1>5, <1>6, <3>6 DEF it
  <2>3. z.st \in Before /\ z.st # "dialing"
    BY <1>5 DEF Before
  <2> QED
    BY <1>1, <1>4, <1>6, <2>1, <2>2, <2>3, HandOK
<1>7. CASE Ends(c, x)
  BY <1>0, <1>7, EndsFlow
<1>8. ASSUME NEW z \in {rest, y}, ~NeedsMore(c, 1), it.k \in {"ccs", "o2"},
             z = y => it.k = "o2", Ends(c, z)
      PROVE  FlowInv'
  BY <1>0, <1>4, <1>6, <1>8, EndsFlow
<1>9. rest # y
  BY <1>5
<1> QED
  BY <1>2, <1>7, <1>8, <1>9

(* commitAuthenticatedRoute.                                               *)
LEMMA RouteFlow ==
  ASSUME IInv, FlowInv, NEW c \in Conns, CommitAuthenticatedRoute(c)
  PROVE  FlowInv'
<1> DEFINE x == cx[c]
           s == env.max.script[c]
           u == up[c]
           y == [x EXCEPT !.st = "dialing", !.dial = "start"]
           z == [x EXCEPT !.st = "middle end"]
<1>0. /\ ConnSound(x) /\ DOMAIN x = XFields /\ x.at = "open" /\ x.st = "route"
      /\ up' = up /\ env' = env
  BY FlowFacts DEF CommitAuthenticatedRoute, Handling, ConnSound
<1>1. Starting(x) /\ x.st \in Before
  BY <1>0 DEF Starting, Before
<1>2. Ends(c, x) \/ Ends(c, y) \/ Ends(c, z)
  BY DEF CommitAuthenticatedRoute, Ends
<1> DEFINE Kept(w) ==
        /\ DOMAIN w = XFields /\ w.at = "open" /\ w.in = x.in /\ w.dec = x.dec
        /\ w.sent = x.sent /\ w.hi = x.hi /\ w.got = x.got /\ w.drain = x.drain
        /\ w.pending = x.pending /\ w.mode = x.mode
<1>3a. Kept(y)
  BY <1>0 DEF XFields
<1>3b. Kept(z)
  BY <1>0 DEF XFields
<1>4. y.st = "dialing" /\ y.dial = "start" /\ z.st = "middle end" /\ z.dial = x.dial
  BY <1>0 DEF XFields
<1> HIDE DEF y, z
<1>3. \A w \in {y, z} : Kept(w)
  BY <1>3a, <1>3b
<1>5. ASSUME FlowOK(x, u, s) PROVE FlowOK(y, u, s) /\ FlowOK(z, u, s)
  <2>1. x.dial = "off"
    BY <1>1, <1>5 DEF FlowOK, Phase
  <2>2. Stream(x, s) => Stream(y, s)
    <3>1. y.st \notin Before
      BY <1>4 DEF Before
    <3> QED
      BY <1>0, <1>3, <1>4, <3>1, StreamStays
  <2>3. FlowOK(y, u, s)
    BY <1>1, <1>3, <1>4, <1>5, <2>2, HandOK
  <2>4. FlowOK(z, u, s)
    BY <1>1, <1>3, <1>4, <1>5, <2>1, LeaveOK
  <2> QED
    BY <2>3, <2>4
<1> QED
  BY <1>0, <1>2, <1>3, <1>5, EndsFlow

-----------------------------------------------------------------------------
(* The limits of an authenticated client change nothing of the flow.       *)
LEMMA AuthenticatedFlow ==
  ASSUME NEW H, NEW x, DOMAIN x = XFields
  PROVE  LET r == AcquireAuthenticated(H, x)
         IN  SameFlow(x, r.x) /\ DOMAIN r.x = XFields
<1> DEFINE r == AcquireAuthenticated(H, x)
<1>1. r.x = x \/ r.x = [x EXCEPT !.secretKey = SecretKey(x.ip), !.user = x.ip]
  BY DEF AcquireAuthenticated, Admits, Refuses
<1> HIDE DEF r
<1>2. ASSUME r.x = x PROVE SameFlow(x, r.x) /\ DOMAIN r.x = XFields
  BY <1>2 DEF SameFlow, Rides
<1>3. ASSUME r.x = [x EXCEPT !.secretKey = SecretKey(x.ip), !.user = x.ip]
      PROVE  SameFlow(x, r.x) /\ DOMAIN r.x = XFields
  BY <1>3 DEF SameFlow, Rides, XFields
<1>4. SameFlow(x, r.x) /\ DOMAIN r.x = XFields
  BY <1>1, <1>2, <1>3
<1> QED
  BY <1>4 DEF r

(* An authentication: a splice, or the flow of y.                          *)
LEMMA AuthenticatesFlow ==
  ASSUME IInv, FlowInv, NEW c \in Conns, cx[c].at = "open",
         cx[c].st \in Before, NEW session, NEW y, DOMAIN y = XFields,
         y.at = "open", Authenticates(c, cx[c], session, y),
         up' = up, env' = env,
         c \in DOMAIN env.max.script /\ env.max.script[c] \in Seq(Pieces)
           /\ FlowOK(cx[c], up[c], env.max.script[c])
         => FlowOK(y, up[c], env.max.script[c])
  PROVE  FlowInv'
<1> DEFINE r == AcquireAuthenticated([h EXCEPT !.seen = @ \cup {session}], y)
<1>1. StartSplice(c, cx[c]) \/ Ends(c, r.x)
  BY DEF Authenticates, Ends
<1>2. SameFlow(y, r.x) /\ DOMAIN r.x = XFields
  BY AuthenticatedFlow
<1> HIDE DEF r
<1>3. r.x.at = "open"
  BY <1>2 DEF SameFlow
<1>4. ASSUME FlowOK(y, up[c], env.max.script[c])
      PROVE  FlowOK(r.x, up[c], env.max.script[c])
  BY <1>2, <1>4, SameIsOK
<1>5. CASE Ends(c, r.x)
  BY <1>2, <1>3, <1>4, <1>5, EndsFlow
<1> QED
  BY <1>1, <1>5, SplicesFlow

(* handleTLSPayload takes the header and the ClientHello.                  *)
LEMMA PayloadFlow ==
  ASSUME IInv, FlowInv, NEW c \in Conns, HandleTLSPayload(c)
  PROVE  FlowInv'
<1> DEFINE x == cx[c]
           s == env.max.script[c]
           u == up[c]
           it == x.in[2]
           m == [x EXCEPT !.in = Tail(@), !.st = "o2"]
           y == [x EXCEPT !.in = Tail(Tail(@)), !.st = "o2"]
<1>0. /\ ConnSound(x) /\ DOMAIN x = XFields /\ x.at = "open" /\ x.st = "payload"
      /\ up' = up /\ env' = env
  BY FlowFacts DEF HandleTLSPayload, Handling, ConnSound
<1>1. Starting(x) /\ x.st \in Before
  BY <1>0 DEF Starting, Before
<1>2. \/ Ends(c, x) \/ StartSplice(c, x)
      \/ ~NeedsMore(c, 2) /\ it.k = "hello" /\ Authenticates(c, x, it.n, y)
  BY DEF HandleTLSPayload, Waits, Ends
<1>3. /\ DOMAIN y = XFields /\ y.at = "open" /\ y.in = Tail(Tail(x.in))
      /\ y.dec = x.dec /\ y.sent = x.sent /\ y.hi = x.hi /\ y.got = x.got
      /\ y.drain = x.drain /\ y.dial = x.dial /\ y.mode = x.mode
      /\ y.pending = x.pending /\ y.st = "o2"
  BY <1>0 DEF XFields
<1>4. /\ m.in = Tail(x.in) /\ m.sent = x.sent /\ m.dec = x.dec /\ m.st = "o2"
  BY <1>0 DEF XFields
<1> HIDE DEF y, m
<1>5. ASSUME ~NeedsMore(c, 2), it.k = "hello", s \in Seq(Pieces), FlowOK(x, u, s)
      PROVE  FlowOK(y, u, s)
  <2>1. x.dial = "off" /\ x.mode = "ee"
    BY <1>0, <1>1, <1>5 DEF FlowOK, Phase
  <2>2. Stream(x, s) => Stream(y, s)
    <3> SUFFICES ASSUME Stream(x, s) PROVE Stream(y, s)
      OBVIOUS
    <3> DEFINE q == x.in
    <3>1. q # <<>> /\ Head(q).k = "tls" /\ q \in Seq(Pieces)
      BY <1>0 DEF Stream
    <3>2. Stream(m, s)
      BY <1>1, <1>4, <1>5, <3>1, StreamSkips
    <3>3. Len(q) >= 2
      BY <1>5, <3>1 DEF NeedsMore
    <3>4. Tail(q) # <<>> /\ Head(Tail(q)) = q[2]
      <4> DEFINE t == Tail(q)
      <4> HIDE DEF q
      <4>1. t \in Seq(Pieces) /\ Len(t) = Len(q) - 1
        BY <3>1, <3>3
      <4>2. \A i \in 1..Len(t) : t[i] = q[i + 1]
        BY <3>1, <3>3
      <4> HIDE DEF t
      <4>3. t[1] = q[2] /\ Len(t) > 0
        BY <3>1, <3>3, <4>1, <4>2
      <4>4. t # <<>> /\ Head(t) = t[1]
        BY <4>1, <4>3
      <4> QED
        BY <4>3, <4>4 DEF t
    <3>5. m.in # <<>> /\ Head(m.in).k = "hello"
      BY <1>4, <1>5, <3>4
    <3>6. m.st \in Before /\ y.in = Tail(m.in) /\ y.sent = m.sent /\ y.dec = m.dec
      BY <1>3, <1>4 DEF Before
    <3> QED
      BY <1>3, <1>5, <3>2, <3>5, <3>6, StreamSkips
  <2>3. y.st \in Before /\ y.st # "dialing"
    BY <1>3 DEF Before
  <2> QED
    BY <1>1, <1>3, <1>5, <2>1, <2>2, <2>3, HandOK
<1>6. CASE Ends(c, x)
  BY <1>0, <1>6, EndsFlow
<1>7. CASE ~NeedsMore(c, 2) /\ it.k = "hello" /\ Authenticates(c, x, it.n, y)
  BY <1>0, <1>1, <1>3, <1>5, <1>7, AuthenticatesFlow
<1> QED
  BY <1>0, <1>1, <1>2, <1>6, <1>7, SplicesFlow

(* handleDDFrame takes the frame: only data follows it.                    *)
LEMMA DDFrameFlow ==
  ASSUME IInv, FlowInv, NEW c \in Conns, HandleDDFrame(c)
  PROVE  FlowInv'
<1> DEFINE x == cx[c]
           s == env.max.script[c]
           u == up[c]
           it == Head(x.in)
           y == [x EXCEPT !.in = Tail(@), !.cipher = TRUE, !.st = "route"]
<1>0. /\ ConnSound(x) /\ DOMAIN x = XFields /\ x.at = "open" /\ x.st = "dd"
      /\ up' = up /\ env' = env
  BY FlowFacts DEF HandleDDFrame, Handling, ConnSound
<1>1. Starting(x) /\ x.st \in Before
  BY <1>0 DEF Starting, Before
<1>2. \/ StartSplice(c, x)
      \/ it.k = "dd" /\ Authenticates(c, x, it.n, y)
  BY DEF HandleDDFrame
<1>3. /\ DOMAIN y = XFields /\ y.at = "open" /\ y.in = Tail(x.in)
      /\ y.dec = x.dec /\ y.sent = x.sent /\ y.hi = x.hi /\ y.got = x.got
      /\ y.drain = x.drain /\ y.dial = x.dial /\ y.mode = x.mode
      /\ y.pending = x.pending /\ y.st = "route"
  BY <1>0 DEF XFields
<1> HIDE DEF y
<1>4. ASSUME it.k = "dd", s \in Seq(Pieces), FlowOK(x, u, s)
      PROVE  FlowOK(y, u, s)
  <2>1. x.dial = "off"
    BY <1>1, <1>4 DEF FlowOK, Phase
  <2>2. Stream(x, s) => Stream(y, s)
    <3> SUFFICES ASSUME Stream(x, s) PROVE Stream(y, s)
      OBVIOUS
    <3>1. x.in # <<>>
      BY <1>0 DEF Stream
    <3> QED
      BY <1>1, <1>3, <1>4, <3>1, StreamSkips
  <2>3. y.st \in Before /\ y.st # "dialing" /\ y.st \notin {"header", "payload", "o2"}
    BY <1>3 DEF Before
  <2> QED
    BY <1>1, <1>3, <1>4, <2>1, <2>2, <2>3, HandOK
<1>5. CASE it.k = "dd" /\ Authenticates(c, x, it.n, y)
  BY <1>0, <1>1, <1>3, <1>4, <1>5, AuthenticatesFlow
<1> QED
  BY <1>0, <1>1, <1>2, <1>5, SplicesFlow

(* All of the handshake.                                                   *)
LEMMA HandshakeFlow ==
  ASSUME IInv, FlowInv, NEW c \in Conns, Handshakes(c)
  PROVE  FlowInv'
BY ProxyFlow, DetectFlow, TLSHeaderFlow, PayloadFlow, O2Flow, DDFrameFlow, RouteFlow
   DEF Handshakes

-----------------------------------------------------------------------------
(* The parts of data are data.                                             *)
LEMMA AllDataParts ==
  ASSUME NEW a \in Seq(Pieces), NEW l \in Seq(Pieces), NEW r,
         Joined(a, l, r), AllData(r)
  PROVE  AllData(a) /\ AllData(l)
<1>1. Len(r) = Len(a) + Len(l)
  BY DEF Joined
<1>2. \A i \in 1..Len(a) : r[i] = a[i]
  BY DEF Joined
<1>3. \A i \in 1..Len(l) : r[Len(a) + i] = l[i]
  BY DEF Joined
<1>4. Len(a) \in Nat /\ Len(l) \in Nat
  OBVIOUS
<1>5. ASSUME NEW i \in 1..Len(a) PROVE a[i].k = "data"
  <2>1. i \in 1..Len(r)
    BY <1>1, <1>4
  <2> QED
    BY <1>2, <2>1 DEF AllData
<1>6. ASSUME NEW i \in 1..Len(l) PROVE l[i].k = "data"
  <2>1. Len(a) + i \in 1..Len(r)
    BY <1>1, <1>4
  <2> QED
    BY <1>3, <2>1 DEF AllData
<1> QED
  BY <1>5, <1>6 DEF AllData

(* What a turn takes is the next run of the client's data.                 *)
LEMMA StreamTakes ==
  ASSUME NEW x, NEW y, NEW s \in Seq(Pieces), Stream(x, s), x.st = "relaying",
         x.dec \in Nat, NEW n \in 0..Len(x.in),
         y.in = SubSeq(x.in, n + 1, Len(x.in)), y.sent = x.sent,
         y.st = x.st, y.mode = x.mode,
         y.dec = x.dec + Len(Payload(SubSeq(x.in, 1, n)))
  PROVE  /\ Stream(y, s) /\ y.dec \in Nat /\ x.dec <= y.dec
         /\ Payload(SubSeq(x.in, 1, n)) = Run(x.dec, y.dec)
<1> DEFINE q == x.in
           k == x.sent
           a == SubSeq(q, 1, n)
           b == SubSeq(q, n + 1, Len(q))
           l == Rest(b, k, s)
           r == Rest(q, k, s)
           L == Len(Payload(s))
           d == x.dec
<1>1. /\ q \in Seq(Pieces) /\ k \in 0..Len(s) /\ n \in 0..Len(q)
      /\ x.mode = "dd" => AllData(r)
      /\ d \in Nat /\ d <= L /\ Payload(r) = Run(d, L)
  BY DEF Stream
<1>2. y.in = b /\ y.sent = k /\ y.dec = d + Len(Payload(a))
  OBVIOUS
<1>3. L \in Nat
  <2>1. Payload(s) \in Seq(Int)
    BY PayloadLaw
  <2> QED
    BY <2>1
<1>4. q \in Seq(Pieces)
  BY <1>1
<1> HIDE DEF q, k, d, L
<1>5. a \in Seq(Pieces) /\ b \in Seq(Pieces) /\ Joined(a, l, r)
  BY <1>1, RestTakes
<1>6. l \in Seq(Pieces) /\ r \in Seq(Pieces)
  <2> HIDE DEF b, a
  <2> QED
    BY <1>1, <1>5, RestParts
<1> HIDE DEF a, b, l, r
<1>7. Joined(Payload(a), Payload(l), Payload(r))
  <2>1. a \o l = r
    BY <1>5 DEF Joined
  <2> QED
    BY <1>5, <1>6, <2>1, PayloadCat
<1>8. Payload(a) \in Seq(Int) /\ Payload(l) \in Seq(Int)
  BY <1>5, <1>6, PayloadLaw
<1>9. LET e == d + Len(Payload(a))
      IN  e \in Nat /\ e <= L /\ Payload(a) = Run(d, e) /\ Payload(l) = Run(e, L)
  <2>1. Joined(Payload(a), Payload(l), Run(d, L))
    BY <1>1, <1>7
  <2> DEFINE P == Payload(a)
             Q == Payload(l)
  <2>2. P \in Seq(Int) /\ Q \in Seq(Int) /\ Joined(P, Q, Run(d, L))
    BY <1>8, <2>1
  <2> HIDE DEF P, Q
  <2>3. /\ d + Len(P) \in Nat /\ d + Len(P) <= L
        /\ P = Run(d, d + Len(P)) /\ Q = Run(d + Len(P), L)
    BY <1>1, <1>3, <2>2, RunParts
  <2> QED
    BY <2>3 DEF P, Q
<1>10. x.mode = "dd" => AllData(l)
  BY <1>1, <1>5, <1>6, AllDataParts
<1>11. Len(Payload(a)) \in Nat
  BY <1>8
<1>12. y.dec \in Nat /\ d <= y.dec /\ y.dec <= L /\ Payload(l) = Run(y.dec, L)
       /\ Payload(a) = Run(d, y.dec)
  BY <1>1, <1>2, <1>9, <1>11
<1>13. Stream(y, s)
  <2>1. y.st = "relaying" /\ y.st \notin Before
    BY DEF Before
  <2>2. l = Rest(y.in, y.sent, s)
    BY <1>2 DEF l
  <2> QED
    BY <1>1, <1>2, <1>5, <1>10, <1>12, <2>1, <2>2 DEF Stream, L
<1> QED
  BY <1>12, <1>13 DEF a, d, q

(* Decryption keeps the length.                                            *)
LEMMA DecryptLaw ==
  ASSUME NEW p \in Seq(Int), NEW d \in Nat
  PROVE  Decrypt(p, d) \in Seq(Int) /\ Len(Decrypt(p, d)) = Len(p)
<1> DEFINE w == Decrypt(p, d)
<1>1. w = [i \in 1..Len(p) |-> IF p[i] = d + i THEN p[i] ELSE Garbage]
  BY DEF Decrypt
<1>2. \A i \in 1..Len(p) : p[i] \in Int
  OBVIOUS
<1>3. Len(p) \in Nat
  OBVIOUS
<1>4. ASSUME NEW i \in 1..Len(p)
      PROVE  (IF p[i] = d + i THEN p[i] ELSE Garbage) \in Int
  BY <1>2 DEF Garbage
<1> HIDE DEF w
<1> QED
  BY <1>1, <1>3, <1>4 DEF w

(* A run comes out right when the cipher stands at its beginning.          *)
LEMMA DecryptRun ==
  ASSUME NEW d \in Nat, NEW e \in Nat, d <= e
  PROVE  Decrypt(Run(d, e), d) = Run(d, e)
<1>1. DOMAIN Run(d, e) = 1..(e - d) /\ \A i \in 1..(e - d) : Run(d, e)[i] = d + i
  BY DEF Run
<1> QED
  BY <1>1 DEF Decrypt, Run

(* A turn takes the first pieces of the input.                             *)
LEMMA TurnLaw ==
  ASSUME NEW q \in Seq(Pieces), NEW max \in Nat
  PROVE  \E n \in 0..Len(q) : TurnOf(q, max) = SubSeq(q, 1, n)
<1> DEFINE S == {p \in 0..Len(q) : Len(Payload(SubSeq(q, 1, p))) <= max}
<1>1. Len(q) \in Nat /\ S \subseteq 0..Len(q)
  OBVIOUS
<1>2. 0 \in S
  <2>1. SubSeq(q, 1, 0) = <<>> /\ Len(<<>>) = 0
    OBVIOUS
  <2>2. Len(Payload(SubSeq(q, 1, 0))) = 0
    BY <2>1, PayloadOfNothing
  <2> QED
    BY <1>1, <2>2
<1>3. TurnOf(q, max) = SubSeq(q, 1, Max(S))
  BY DEF TurnOf
<1> HIDE DEF S
<1>4. \E m \in S : \A y \in S : m >= y
  BY <1>1, <1>2, GreatestElement
<1>5. Max(S) \in S
  BY <1>4 DEF Max
<1> QED
  BY <1>1, <1>3, <1>5

(* The smaller of two numbers.                                             *)
LEMMA MinOfTwo ==
  ASSUME NEW a \in Nat, NEW b \in Nat
  PROVE  Min({a, b}) \in Nat /\ Min({a, b}) <= a /\ Min({a, b}) <= b
<1>1. \E m \in {a, b} : \A y \in {a, b} : m <= y
  <2>1. CASE a <= b
    BY <2>1
  <2>2. CASE ~(a <= b)
    BY <2>2
  <2> QED
    BY <2>1, <2>2
<1>2. Min({a, b}) \in {a, b} /\ \A y \in {a, b} : Min({a, b}) <= y
  BY <1>1 DEF Min
<1> QED
  BY <1>2

(* The units a turn sends to the data centre.                              *)
LEMMA UpTakes ==
  ASSUME NEW x, NEW u, NEW s \in Seq(Pieces), Upward(x, u, s), x.at = "open",
         x.st = "relaying", NEW n \in 0..Len(x.in), NEW y, NEW v, NEW w \in Seq(Int),
         y.in = SubSeq(x.in, n + 1, Len(x.in)), y.sent = x.sent, y.st = x.st,
         y.mode = x.mode, y.pending = x.pending, y.at = "open",
         y.dec = x.dec + Len(Payload(SubSeq(x.in, 1, n))),
         v.at = u.at, v.got = IF u.at = "open" THEN u.got \o w ELSE u.got,
         Short(x, s) => w = Payload(SubSeq(x.in, 1, n))
  PROVE  Upward(y, v, s)
<1>1. Starting(x) /\ Starting(y) /\ x.st \in Routed
  BY DEF Starting, Routed
<1>2. Stream(x, s) /\ x.dec \in Nat
  BY <1>1 DEF Upward
<1>3. /\ Stream(y, s) /\ y.dec \in Nat /\ x.dec <= y.dec
      /\ Payload(SubSeq(x.in, 1, n)) = Run(x.dec, y.dec)
  BY <1>2, StreamTakes
<1>4. u.got \in Seq(Int)
  BY DEF Upward
<1>5. v.got \in Seq(Int)
  BY <1>4
<1>6. y.st \notin Before \cup {"dialing"}
  BY DEF Before
<1>7. ASSUME Short(y, s)
      PROVE  /\ v.got = Run(0, Len(v.got))
             /\ v.at = "open" => Len(v.got) = y.dec
  <2>1. Short(x, s)
    BY <1>7 DEF Short
  <2>2. /\ u.got = Run(0, Len(u.got))
        /\ u.at = "open" => Len(u.got) = x.dec
    BY <1>1, <2>1 DEF Upward
  <2>3. CASE u.at = "open"
    <3>1. v.got = Run(0, x.dec) \o Run(x.dec, y.dec)
      BY <1>3, <2>1, <2>2, <2>3
    <3> DEFINE d == x.dec
               e == y.dec
    <3>2. d \in Nat /\ e \in Nat /\ d <= e /\ 0 \in Nat /\ 0 <= d /\ 0 <= e
      BY <1>2, <1>3
    <3>3. v.got = Run(0, d) \o Run(d, e)
      BY <3>1
    <3> HIDE DEF d, e
    <3>4. Joined(Run(0, d), Run(d, e), Run(0, e)) /\ IsRun(Run(0, e), 0, e)
      BY <3>2, RunCat, RunLaw
    <3>6. v.got = Run(0, e)
      BY <3>3, <3>4 DEF Joined
    <3>7. Len(Run(0, e)) = e - 0
      BY <3>4 DEF IsRun
    <3>8. e - 0 = e
      BY <3>2
    <3>5. Len(Run(0, e)) = e
      BY <3>7, <3>8
    <3> QED
      BY <3>5, <3>6 DEF e
  <2>4. CASE u.at # "open"
    BY <2>2, <2>4
  <2> QED
    BY <2>3, <2>4
<1>8. x.pending = <<>>
  BY DEF Upward
<1> QED
  BY <1>3, <1>5, <1>6, <1>7, <1>8 DEF Upward

(* The flow, when only what goes up changes.                               *)
LEMMA RelayOK ==
  ASSUME NEW x, NEW u, NEW y, NEW v, NEW s, FlowOK(x, u, s), Rides(x, y),
         y.at = x.at, y.st = x.st, v.sent = u.sent, v.in = u.in, v.at = u.at,
         NothingPending(s) /\ Upward(x, u, s) => Upward(y, v, s)
  PROVE  FlowOK(y, v, s)
<1>1. Phase(y)
  BY DEF FlowOK, Phase, Rides
<1>2. Down(y, v)
  BY DownKept DEF FlowOK, Rides, Starting
<1>3. Draining(y, v)
  BY DrainKept DEF FlowOK, Rides
<1> QED
  BY <1>1, <1>2, <1>3 DEF FlowOK

(* A write to the data centre.                                             *)
LEMMA WriteLaw ==
  ASSUME NEW u, DOMAIN u = UFields, NEW w
  PROVE  LET v == WriteToDC(u, w)
         IN  /\ DOMAIN v = UFields /\ v.at = u.at /\ v.in = u.in
             /\ v.sent = u.sent
             /\ v.got = IF u.at = "open" THEN u.got \o w ELSE u.got
<1> DEFINE v == WriteToDC(u, w)
<1>1. CASE u.at # "open"
  BY <1>1 DEF WriteToDC
<1>2. CASE u.at = "open"
  <2>1. v = [u EXCEPT !.got = @ \o w, !.out = @ + Len(w)]
    BY <1>2 DEF WriteToDC
  <2> QED
    BY <1>2, <2>1 DEF UFields
<1> QED
  BY <1>1, <1>2

-----------------------------------------------------------------------------
(* A turn of a relay takes n pieces and sends w.                           *)
Takes(x, s, n, w, y) ==
  /\ n \in 0..Len(x.in) /\ w \in Seq(Int)
  /\ y.dec = x.dec + Len(Payload(SubSeq(x.in, 1, n)))
  /\ Short(x, s) => w = Payload(SubSeq(x.in, 1, n))

(* A turn of a relay, whether its write succeeds or not.                   *)
LEMMA TurnFlow ==
  ASSUME IInv, FlowInv, NEW c \in Conns, cx[c].at = "open",
         cx[c].st = "relaying", NEW n, NEW w, NEW y, DOMAIN y = XFields,
         Rides(cx[c], y), y.at = "open", y.st = "relaying",
         y.in = SubSeq(cx[c].in, n + 1, Len(cx[c].in)), NEW wakes,
         c \in DOMAIN env.max.script /\ env.max.script[c] \in Seq(Pieces)
           /\ Upward(cx[c], up[c], env.max.script[c])
         => Takes(cx[c], env.max.script[c], n, w, y),
         \/ /\ up' = [up EXCEPT ![c] = WriteToDC(@, w)]
            /\ Returns(c, [y EXCEPT !.wake = wakes])
         \/ up' = up /\ Closes(c, y),
         env' = env
  PROVE  FlowInv'
<1> DEFINE x == cx[c]
           u == up[c]
           s == env.max.script[c]
           v == WriteToDC(u, w)
           a == [[y EXCEPT !.wake = wakes] EXCEPT !.run = FALSE]
           z == [y EXCEPT !.run = FALSE, !.at = "closing"]
<1>1. DOMAIN u = UFields
  BY FlowFacts
<1>2. /\ DOMAIN v = UFields /\ v.at = u.at /\ v.in = u.in
      /\ v.sent = u.sent
      /\ v.got = IF u.at = "open" THEN u.got \o w ELSE u.got
  BY <1>1, WriteLaw
<1>3. \/ up' = [up EXCEPT ![c] = v] /\ cx' = [cx EXCEPT ![c] = a]
      \/ up' = up /\ cx' = [cx EXCEPT ![c] = z]
  BY DEF Returns, Closes
<1> HIDE DEF v
<1>4. SameFlow(y, a)
  BY DEF SameFlow, Rides, XFields
<1>5. Rides(y, z) /\ z.at = "closing" /\ z.st = y.st /\ z.dec = y.dec
  BY DEF Rides, XFields
<1> HIDE DEF a, z
<1>6. ASSUME c \in DOMAIN env.max.script, s \in Seq(Pieces), Upward(x, u, s)
      PROVE  Upward(y, v, s) /\ y.dec \in Nat
  <2>1. Takes(x, s, n, w, y)
    BY <1>6
  <2>2. Upward(y, v, s)
    BY <1>2, <1>6, <2>1, UpTakes DEF Takes, Rides
  <2> QED
    BY <2>2 DEF Upward
<1>7. ASSUME c \in DOMAIN env.max.script, s \in Seq(Pieces), FlowOK(x, u, s)
      PROVE  FlowOK(a, v, s) /\ FlowOK(z, u, s)
  <2>1. FlowOK(y, v, s)
    BY <1>2, <1>6, <1>7, RelayOK
  <2>2. FlowOK(a, v, s)
    BY <1>4, <2>1, SameIsOK
  <2>3. Rides(x, z)
    BY <1>5 DEF Rides
  <2>4. FlowOK(z, u, s)
    BY <1>5, <1>6, <1>7, <2>3, CloseIsOK
  <2> QED
    BY <2>2, <2>4
<1>8. CASE up' = [up EXCEPT ![c] = v] /\ cx' = [cx EXCEPT ![c] = a]
  <2>1. Moves(c, a, v)
    BY <1>2, <1>8, MovesLaw
  <2> QED
    BY <1>7, <2>1, FlowMoves
<1>9. CASE up' = up /\ cx' = [cx EXCEPT ![c] = z]
  <2>1. Moves(c, z, u)
    BY <1>1, <1>9, MovesLaw
  <2> QED
    BY <1>7, <2>1, FlowMoves
<1> QED
  BY <1>3, <1>8, <1>9

(* The rate limit is a number.                                             *)
LEMMA MaxProcessLaw ==
  ASSUME NEW buffered, NEW was, NEW n \in Nat
  PROVE  MaxProcess(buffered, was, n) \in Nat
BY DEF MaxProcess

(* handleRelay.                                                            *)
LEMMA RelayFlow ==
  ASSUME IInv, FlowInv, NEW c \in Conns, HandleRelay(c)
  PROVE  FlowInv'
<1> DEFINE x == cx[c]
           u == up[c]
           s == env.max.script[c]
           max == MaxProcess(u.out, x.throttled, Len(x.in))
           turn == TurnOf(x.in, max)
           p == Payload(turn)
           w == Decrypt(p, x.dec)
           n == Len(turn)
           t == Throttles(u.out, x.throttled)
           k == IF p = <<>> THEN x.spoke ELSE "client"
           q == SubSeq(x.in, n + 1, Len(x.in))
           d == x.dec + Len(p)
           y == [x EXCEPT !.in = q, !.throttled = t, !.dec = d, !.spoke = k]
           wakes == y.wake \/ y.in # <<>>
<1>0. /\ ConnSound(x) /\ DOMAIN x = XFields /\ x.at = "open"
      /\ x.st = "relaying" /\ env' = env
  BY FlowFacts DEF HandleRelay, Handling, ConnSound
<1>1. \/ Ends(c, x) /\ up' = up
      \/ /\ up' = [up EXCEPT ![c] = WriteToDC(@, w)]
         /\ Returns(c, [y EXCEPT !.wake = wakes])
      \/ up' = up /\ Closes(c, y)
  BY DEF HandleRelay, Ends
<1> HIDE DEF t, k, q, d
<1>2. DOMAIN y = XFields /\ Rides(x, y) /\ y.at = "open" /\ y.st = "relaying"
      /\ y.in = q /\ y.dec = d
  BY <1>0 DEF XFields, Rides
<1> HIDE DEF y, wakes
<1>3. ASSUME s \in Seq(Pieces), Upward(x, u, s) PROVE Takes(x, s, n, w, y)
  <2>1. Starting(x) /\ x.st \in Routed
    BY <1>0 DEF Starting, Routed
  <2>2. Stream(x, s) /\ x.dec \in Nat
    BY <1>3, <2>1 DEF Upward
  <2>3. x.in \in Seq(Pieces) /\ x.sent \in 0..Len(s)
    BY <2>2 DEF Stream
  <2>4. max \in Nat
    <3>1. Len(x.in) \in Nat
      BY <2>3
    <3> QED
      BY <3>1, MaxProcessLaw
  <2> HIDE DEF max
  <2>5. PICK m \in 0..Len(x.in) : turn = SubSeq(x.in, 1, m)
    BY <2>3, <2>4, TurnLaw
  <2>6. Len(SubSeq(x.in, 1, m)) = m
    BY <1>3, <2>3, RestTakes
  <2>7. n \in 0..Len(x.in) /\ turn = SubSeq(x.in, 1, n) /\ turn \in Seq(Pieces)
    BY <1>3, <2>3, <2>5, <2>6, RestTakes
  <2>8. y.dec = x.dec + Len(Payload(SubSeq(x.in, 1, n)))
    BY <1>2, <2>7 DEF d
  <2>9. w \in Seq(Int)
    <3>1. p \in Seq(Int)
      BY <2>7, PayloadLaw
    <3> QED
      BY <2>2, <3>1, DecryptLaw
  <2>10. w = Payload(SubSeq(x.in, 1, n))
    <3>1. y.in = SubSeq(x.in, n + 1, Len(x.in))
      BY <1>2 DEF q
    <3>2. /\ y.dec \in Nat /\ x.dec <= y.dec
          /\ Payload(SubSeq(x.in, 1, n)) = Run(x.dec, y.dec)
      BY <1>0, <1>2, <1>3, <2>2, <2>7, <2>8, <3>1, StreamTakes DEF Rides
    <3>3. p = Run(x.dec, y.dec)
      BY <2>7, <3>2
    <3> QED
      BY <2>2, <2>7, <3>2, <3>3, DecryptRun
  <2> QED
    BY <2>7, <2>8, <2>9, <2>10 DEF Takes
<1>4. CASE Ends(c, x) /\ up' = up
  BY <1>0, <1>4, EndsFlow
<1>5. y.in = SubSeq(x.in, n + 1, Len(x.in))
  BY <1>2 DEF q
<1> HIDE DEF n, w
<1>6. CASE \/ /\ up' = [up EXCEPT ![c] = WriteToDC(@, w)]
              /\ Returns(c, [y EXCEPT !.wake = wakes])
           \/ up' = up /\ Closes(c, y)
  BY <1>0, <1>2, <1>3, <1>5, <1>6, TurnFlow
<1> QED
  BY <1>1, <1>4, <1>6

-----------------------------------------------------------------------------
(* What is left in raw mode is as long as its data.                        *)
LEMMA RawLength ==
  ASSUME NEW x, NEW s \in Seq(Pieces), Stream(x, s), x.st = "relaying",
         x.mode = "dd", x.dec \in Nat
  PROVE  /\ Len(x.in) <= Len(Payload(s))
         /\ \A n \in 0..Len(x.in) : Len(Payload(SubSeq(x.in, 1, n))) = n
<1> DEFINE q == x.in
           k == x.sent
           r == Rest(q, k, s)
           L == Len(Payload(s))
           d == x.dec
<1>1. /\ q \in Seq(Pieces) /\ k \in 0..Len(s) /\ AllData(r)
      /\ d \in Nat /\ d <= L /\ Payload(r) = Run(d, L)
  BY DEF Stream
<1>2. L \in Nat
  <2>1. Payload(s) \in Seq(Int)
    BY PayloadLaw
  <2> QED
    BY <2>1
<1> HIDE DEF q, k, d, L
<1>3. r \in Seq(Pieces) /\ Len(r) = Len(q) + (Len(s) - k)
  BY <1>1, RestParts
<1>4. Len(Payload(r)) = Len(r)
  BY <1>1, <1>3, PayloadLen
<1>5. Len(Run(d, L)) = L - d
  BY <1>1, <1>2, RunLaw DEF IsRun
<1>6. Len(q) \in Nat /\ Len(s) \in Nat /\ k \in Nat /\ k <= Len(s)
  BY <1>1
<1>7. Len(q) <= L
  <2>1. Len(q) + (Len(s) - k) = L - d
    BY <1>1, <1>3, <1>4, <1>5
  <2> QED
    BY <1>1, <1>2, <1>6, <2>1
<1>8. ASSUME NEW n \in 0..Len(q) PROVE Len(Payload(SubSeq(q, 1, n))) = n
  <2> DEFINE a == SubSeq(q, 1, n)
             l == Rest(SubSeq(q, n + 1, Len(q)), k, s)
  <2>1. /\ a \in Seq(Pieces) /\ Len(a) = n /\ Joined(a, l, r)
        /\ SubSeq(q, n + 1, Len(q)) \in Seq(Pieces)
    BY <1>1, RestTakes
  <2>2. l \in Seq(Pieces)
    BY <1>1, <2>1, RestParts
  <2> HIDE DEF a, l
  <2>3. AllData(a)
    BY <1>1, <2>1, <2>2, AllDataParts
  <2>4. Len(Payload(a)) = n
    BY <2>1, <2>3, PayloadLen
  <2> QED
    BY <2>4 DEF a
<1> QED
  BY <1>7, <1>8 DEF q, L

(* A buffer that was overwritten.                                          *)
LEMMA GarbageLaw ==
  ASSUME NEW s \in Seq(Int)
  PROVE  [i \in DOMAIN s |-> Garbage] \in Seq(Int)
<1>1. DOMAIN s = 1..Len(s) /\ Len(s) \in Nat /\ Garbage \in Int
  BY DEF Garbage
<1> QED
  BY <1>1

(* handleRelayDD: without more than a batch of input nothing is lost.      *)
LEMMA RelayDDFlow ==
  ASSUME IInv, FlowInv, NEW c \in Conns, HandleRelayDD(c)
  PROVE  FlowInv'
<1> DEFINE x == cx[c]
           u == up[c]
           s == env.max.script[c]
           max == MaxProcess(u.out, x.throttled, Len(x.in))
           limit == Min({max, Len(x.in)})
           n == Min({limit, Batch})
           p == Payload(SubSeq(x.in, 1, n))
           good == Decrypt(p, x.dec)
           bad == [i \in DOMAIN good |-> Garbage]
           t == Throttles(u.out, x.throttled)
           q == SubSeq(x.in, n + 1, Len(x.in))
           d == x.dec + n
           y == [x EXCEPT !.in = q, !.dec = d, !.throttled = t,
                          !.spoke = "client"]
           wakes == y.wake \/ y.in # <<>>
<1>0. /\ ConnSound(x) /\ DOMAIN x = XFields /\ x.at = "open"
      /\ x.st = "relaying" /\ x.mode = "dd" /\ env' = env
  BY FlowFacts DEF HandleRelayDD, Handling, ConnSound
<1>1. \/ Ends(c, x) /\ up' = up
      \/ \E w : /\ w = good \/ (w = bad /\ limit > Batch)
                /\ \/ /\ up' = [up EXCEPT ![c] = WriteToDC(@, w)]
                      /\ Returns(c, [y EXCEPT !.wake = wakes])
                   \/ up' = up /\ Closes(c, y)
  BY DEF HandleRelayDD, Ends
<1> HIDE DEF t, q, d
<1>2. DOMAIN y = XFields /\ Rides(x, y) /\ y.at = "open" /\ y.st = "relaying"
      /\ y.in = q /\ y.dec = d
  BY <1>0 DEF XFields, Rides
<1> HIDE DEF y, wakes
<1>3. ASSUME NEW w, w = good \/ (w = bad /\ limit > Batch),
             s \in Seq(Pieces), Upward(x, u, s)
      PROVE  Takes(x, s, n, w, y)
  <2>1. Starting(x) /\ x.st \in Routed
    BY <1>0 DEF Starting, Routed
  <2>2. Stream(x, s) /\ x.dec \in Nat
    BY <1>3, <2>1 DEF Upward
  <2>3. x.in \in Seq(Pieces) /\ x.sent \in 0..Len(s) /\ Len(x.in) \in Nat
    BY <2>2 DEF Stream
  <2>4. max \in Nat
    BY <2>3, MaxProcessLaw
  <2> HIDE DEF max
  <2>5. limit \in Nat /\ limit <= Len(x.in)
    BY <2>3, <2>4, MinOfTwo
  <2> HIDE DEF limit
  <2>6. Batch \in Nat
    BY BufferAssumption
  <2>7. n \in Nat /\ n <= limit
    BY <2>5, <2>6, MinOfTwo
  <2> HIDE DEF n
  <2>8. n \in 0..Len(x.in)
    BY <2>3, <2>5, <2>7
  <2>9. SubSeq(x.in, 1, n) \in Seq(Pieces)
    BY <1>3, <2>3, <2>8, RestTakes
  <2>10. p \in Seq(Int)
    BY <2>9, PayloadLaw
  <2>11. good \in Seq(Int)
    <3> HIDE DEF p
    <3> QED
      BY <2>2, <2>10, DecryptLaw
  <2>12. w \in Seq(Int)
    <3> HIDE DEF good
    <3> QED
      BY <1>3, <2>11, GarbageLaw
  <2>13. Len(p) = n
    BY <1>0, <1>3, <2>2, <2>8, RawLength
  <2>14. y.dec = x.dec + Len(p)
    BY <1>2, <2>13 DEF d
  <2>15. ASSUME Short(x, s) PROVE w = p
    <3>1. Len(Payload(s)) <= Batch /\ Len(Payload(s)) \in Nat
      <4>1. Payload(s) \in Seq(Int)
        BY <1>3, PayloadLaw
      <4> QED
        BY <1>0, <2>15, <4>1 DEF Short
    <3>2. ~(limit > Batch)
      <4>1. Len(x.in) <= Len(Payload(s))
        BY <1>0, <1>3, <2>2, RawLength
      <4> QED
        BY <2>3, <2>5, <2>6, <3>1, <4>1
    <3>3. w = good
      BY <1>3, <3>2
    <3>4. y.in = SubSeq(x.in, n + 1, Len(x.in))
      BY <1>2 DEF q
    <3>5. /\ y.dec \in Nat /\ x.dec <= y.dec
          /\ p = Run(x.dec, y.dec)
      <4>1. y.st = x.st /\ y.mode = x.mode /\ y.sent = x.sent
        BY <1>0, <1>2 DEF Rides
      <4>2. y.dec = x.dec + Len(Payload(SubSeq(x.in, 1, n)))
        BY <2>14
      <4> QED
        BY <1>0, <1>3, <2>2, <2>8, <3>4, <4>1, <4>2, StreamTakes
    <3> HIDE DEF p
    <3> QED
      BY <2>2, <3>3, <3>5, DecryptRun
  <2> QED
    BY <2>8, <2>12, <2>14, <2>15 DEF Takes
<1>4. CASE Ends(c, x) /\ up' = up
  BY <1>0, <1>4, EndsFlow
<1>5. y.in = SubSeq(x.in, n + 1, Len(x.in))
  BY <1>2 DEF q
<1> HIDE DEF n, good, bad, limit
<1>6. ASSUME NEW w, w = good \/ (w = bad /\ limit > Batch),
             \/ /\ up' = [up EXCEPT ![c] = WriteToDC(@, w)]
                /\ Returns(c, [y EXCEPT !.wake = wakes])
             \/ up' = up /\ Closes(c, y)
      PROVE  FlowInv'
  BY <1>0, <1>2, <1>3, <1>5, <1>6, TurnFlow
<1> QED
  BY <1>1, <1>4, <1>6

-----------------------------------------------------------------------------
(* A step of one connection.                                               *)
LEMMA StepFlow ==
  ASSUME IInv, FlowInv, NEW c \in Conns, NEW y, NEW v,
         cx' = [cx EXCEPT ![c] = y] \/ (cx' = cx /\ y = cx[c]),
         up' = [up EXCEPT ![c] = v] \/ (up' = up /\ v = up[c]),
         DOMAIN v = UFields, env' = env,
         c \in DOMAIN env.max.script /\ env.max.script[c] \in Seq(Pieces)
           /\ FlowOK(cx[c], up[c], env.max.script[c])
         => FlowOK(y, v, env.max.script[c])
  PROVE  FlowInv'
<1>1. Moves(c, y, v)
  BY MovesLaw
<1> QED
  BY <1>1, FlowMoves

(* While it is spliced, the input of a connection is not counted.          *)
LEMMA SpliceOK ==
  ASSUME NEW x, NEW u, NEW y, NEW s, FlowOK(x, u, s), x.st = "splicing",
         Rides(x, y), y.at = x.at, y.st = x.st, y.dec = x.dec
  PROVE  FlowOK(y, u, s)
<1>1. y.st \notin Routed
  BY DEF Routed, Before
<1>2. Upward(x, u, s) => Upward(y, u, s)
  <2> SUFFICES ASSUME Upward(x, u, s) PROVE Upward(y, u, s)
    OBVIOUS
  <2>1. x.dec \in Nat
    BY DEF Upward
  <2> QED
    BY <1>1, <2>1, UpKept DEF Rides
<1> QED
  BY <1>2, RelayOK

(* The drain has begun, nothing is queued or buffered: all is with the     *)
(* client.                                                                 *)
LEMMA DoneOK ==
  ASSUME NEW x, NEW u, NEW y, NEW s, FlowOK(x, u, s), x.at = "open",
         x.st = "splicing", x.drain = "draining", x.out = 0,
         y.drain = "done", y.dial = x.dial, y.mode = x.mode, y.hi = x.hi,
         y.got = x.got, y.out = x.out, y.sent = x.sent, y.pending = x.pending,
         y.st = x.st, y.at = "closing", y.dec = x.dec
  PROVE  FlowOK(y, u, s)
<1>0. ~Starting(y) /\ Starting(x)
  BY DEF Starting
<1>1. Phase(y)
  BY DEF FlowOK, Phase
<1>2. Down(y, u)
  BY <1>0, DownKept DEF FlowOK
<1>3. Draining(y, u)
  <2>1. /\ x.hi = <<>> /\ u.in = <<>> /\ u.at = "closed" /\ x.dial = "done"
    BY DEF FlowOK, Draining
  <2>2. /\ x.got \in Seq(Nat) /\ u.sent \in Nat
        /\ InTransit(Len(x.got), x.hi, u.in, u.sent)
    BY <1>0 DEF FlowOK, Down
  <2>3. InTransit(Len(x.got), <<>>, <<>>, u.sent)
    BY <2>1, <2>2
  <2>4. Len(x.got) \in Nat
    BY <2>2
  <2>5. Len(x.got) = u.sent
    BY <2>2, <2>3, <2>4, TransitDone
  <2> QED
    BY <2>1, <2>5 DEF Draining
<1>4. NothingPending(s) => Upward(y, u, s)
  <2> SUFFICES ASSUME NothingPending(s) PROVE Upward(y, u, s)
    OBVIOUS
  <2>1. Upward(x, u, s) /\ y.dec \in Nat
    BY DEF FlowOK, Upward
  <2> QED
    BY <1>0, <2>1, UpKept
<1> QED
  BY <1>1, <1>2, <1>3, <1>4 DEF FlowOK

(* handleSpliceDrain.                                                      *)
LEMMA SpliceDrainFlow ==
  ASSUME IInv, FlowInv, NEW c \in Conns, NEW x, DOMAIN x = XFields,
         x.at = "open", HandleSpliceDrain(c, x), up' = up, env' = env,
         c \in DOMAIN env.max.script /\ env.max.script[c] \in Seq(Pieces)
           /\ FlowOK(cx[c], up[c], env.max.script[c])
         => FlowOK(x, up[c], env.max.script[c]) /\ x.st = "splicing"
  PROVE  FlowInv'
<1> DEFINE u == up[c]
           s == env.max.script[c]
           y == [x EXCEPT !.in = <<>>]
           t == [y EXCEPT !.wakeTimer = TRUE]
           f == FinishSpliceDrain(y, "done")
           z == [f EXCEPT !.run = FALSE, !.at = "closing"]
<1>1. \/ Ends(c, y) \/ Ends(c, t)
      \/ /\ x.drain = "draining" /\ x.out = 0
         /\ cx' = [cx EXCEPT ![c] = z]
  BY DEF HandleSpliceDrain, Ends, Closes
<1>2. DOMAIN y = XFields /\ Rides(x, y) /\ y.at = x.at /\ y.st = x.st
      /\ y.dec = x.dec
  BY DEF XFields, Rides
<1> HIDE DEF y
<1>3. DOMAIN t = XFields /\ SameFlow(y, t)
  BY <1>2 DEF XFields, SameFlow, Rides
<1>4. /\ z.drain = "done" /\ z.dial = y.dial /\ z.mode = y.mode /\ z.hi = y.hi
      /\ z.got = y.got /\ z.out = y.out /\ z.sent = y.sent
      /\ z.pending = y.pending /\ z.st = y.st /\ z.at = "closing" /\ z.dec = y.dec
  BY <1>2 DEF XFields, FinishSpliceDrain
<1> HIDE DEF t, z, f
<1>5. ASSUME FlowOK(x, u, s), x.st = "splicing"
      PROVE  FlowOK(y, u, s) /\ FlowOK(t, u, s)
  <2>1. FlowOK(y, u, s)
    BY <1>2, <1>5, SpliceOK
  <2> QED
    BY <1>3, <2>1, SameIsOK
<1>6. CASE Ends(c, y)
  BY <1>2, <1>5, <1>6, EndsFlow
<1>7. CASE Ends(c, t)
  <2>1. t.at = "open"
    BY <1>2, <1>3 DEF SameFlow
  <2> QED
    BY <1>3, <1>5, <1>7, <2>1, EndsFlow
<1>8. CASE x.drain = "draining" /\ x.out = 0 /\ cx' = [cx EXCEPT ![c] = z]
  <2>1. ASSUME FlowOK(x, u, s), x.st = "splicing" PROVE FlowOK(z, u, s)
    BY <1>2, <1>4, <1>8, <2>1, DoneOK DEF Rides
  <2>2. DOMAIN u = UFields
    BY FlowFacts
  <2> QED
    BY <1>8, <2>1, <2>2, StepFlow
<1> QED
  BY <1>1, <1>6, <1>7, <1>8

(* handleSplice.                                                           *)
LEMMA SpliceFlow ==
  ASSUME IInv, FlowInv, NEW c \in Conns, HandleSplice(c)
  PROVE  FlowInv'
<1> DEFINE x == cx[c]
           u == up[c]
           s == env.max.script[c]
           y == [x EXCEPT !.in = <<>>]
<1>0. /\ ConnSound(x) /\ DOMAIN x = XFields /\ x.at = "open"
      /\ x.st = "splicing" /\ env' = env /\ up' = up
  BY FlowFacts DEF HandleSplice, Handling, ConnSound
<1>1. Ends(c, x) \/ Ends(c, y) \/ HandleSpliceDrain(c, x)
  BY DEF HandleSplice, Ends
<1>2. DOMAIN y = XFields /\ Rides(x, y) /\ y.at = x.at /\ y.st = x.st
      /\ y.dec = x.dec
  BY <1>0 DEF XFields, Rides
<1> HIDE DEF y
<1>3. ASSUME FlowOK(x, u, s) PROVE FlowOK(y, u, s)
  BY <1>0, <1>2, <1>3, SpliceOK
<1>4. CASE Ends(c, x)
  BY <1>0, <1>4, EndsFlow
<1>5. CASE Ends(c, y)
  BY <1>0, <1>2, <1>3, <1>5, EndsFlow
<1>6. CASE HandleSpliceDrain(c, x)
  BY <1>0, <1>6, SpliceDrainFlow
<1> QED
  BY <1>1, <1>4, <1>5, <1>6

(* beginSpliceClientDrain runs when no write is queued.                    *)
LEMMA BeginDrainFlow ==
  ASSUME IInv, FlowInv, NEW c \in Conns, BeginSpliceDrain(c)
  PROVE  FlowInv'
<1> DEFINE x == cx[c]
           u == up[c]
           s == env.max.script[c]
           y == [x EXCEPT !.drain = "draining", !.deadline = "armed"]
<1>0. /\ DOMAIN x = XFields /\ x.at = "open" /\ env' = env /\ up' = up
      /\ x.hi = <<>> /\ x.drain = "requested" /\ HandleSpliceDrain(c, y)
  BY FlowFacts DEF BeginSpliceDrain, LowPriority, LoopIdle
<1>1. /\ DOMAIN y = XFields /\ y.drain = "draining" /\ y.dial = x.dial
      /\ y.mode = x.mode /\ y.hi = x.hi /\ y.got = x.got /\ y.out = x.out
      /\ y.sent = x.sent /\ y.pending = x.pending /\ y.st = x.st
      /\ y.at = x.at /\ y.dec = x.dec /\ y.in = x.in
  BY <1>0 DEF XFields
<1> HIDE DEF y
<1>2. ASSUME FlowOK(x, u, s) PROVE FlowOK(y, u, s) /\ y.st = "splicing"
  <2>1. /\ x.dial = "done" /\ x.st \in {"splicing", "closed"}
        /\ u.at = "closed" /\ u.in = <<>>
    BY <1>0, <1>2 DEF FlowOK, Draining
  <2>2. x.st = "splicing"
    BY <1>0, <1>2, <2>1 DEF FlowOK, Phase
  <2>3. Phase(y)
    BY <1>1, <1>2 DEF FlowOK, Phase
  <2>4. Down(y, u)
    BY <1>1, <1>2, DownKept DEF FlowOK, Starting
  <2>5. Draining(y, u)
    BY <1>0, <1>1, <2>1 DEF Draining
  <2>6. y.st \notin Routed
    BY <1>1, <2>2 DEF Routed, Before
  <2>7. NothingPending(s) => Upward(y, u, s)
    <3> SUFFICES ASSUME NothingPending(s) PROVE Upward(y, u, s)
      OBVIOUS
    <3>1. Upward(x, u, s) /\ x.dec \in Nat
      BY <1>2 DEF FlowOK, Upward
    <3> QED
      BY <1>1, <2>6, <3>1, UpKept
  <2> QED
    BY <1>1, <2>2, <2>3, <2>4, <2>5, <2>7 DEF FlowOK
<1> QED
  BY <1>0, <1>1, <1>2, SpliceDrainFlow

(* The deadline of the drain.                                              *)
LEMMA DeadlineFlow ==
  ASSUME IInv, FlowInv, NEW c \in Conns, DeadlineRuns(c)
  PROVE  FlowInv'
<1> DEFINE x == cx[c]
           u == up[c]
           s == env.max.script[c]
           f == FinishSpliceDrain(x, "expired")
           y == [f EXCEPT !.run = FALSE, !.at = "closing"]
<1>0. /\ DOMAIN x = XFields /\ x.at = "open" /\ env' = env /\ up' = up
      /\ cx' = [cx EXCEPT ![c] = y] /\ DOMAIN u = UFields
  BY FlowFacts DEF DeadlineRuns, LowPriority, LoopIdle, Closes
<1>1. /\ y.drain = "expired" /\ y.dial = x.dial
      /\ y.mode = x.mode /\ y.hi = x.hi /\ y.got = x.got /\ y.out = x.out
      /\ y.sent = x.sent /\ y.pending = x.pending /\ y.st = x.st
      /\ y.at = "closing" /\ y.dec = x.dec
  BY <1>0 DEF XFields, FinishSpliceDrain
<1> HIDE DEF y, f
<1>2. ASSUME FlowOK(x, u, s) PROVE FlowOK(y, u, s)
  <2>1. ~Starting(y)
    BY <1>1 DEF Starting
  <2>2. Phase(y)
    BY <1>0, <1>1, <1>2 DEF FlowOK, Phase
  <2>3. Down(y, u)
    BY <1>1, <1>2, <2>1, DownKept DEF FlowOK
  <2>4. Draining(y, u)
    BY <1>1 DEF Draining
  <2>5. NothingPending(s) => Upward(y, u, s)
    <3> SUFFICES ASSUME NothingPending(s) PROVE Upward(y, u, s)
      OBVIOUS
    <3>1. Upward(x, u, s) /\ x.dec \in Nat
      BY <1>2 DEF FlowOK, Upward
    <3> QED
      BY <1>1, <2>1, <3>1, UpKept
  <2> QED
    BY <2>2, <2>3, <2>4, <2>5 DEF FlowOK
<1> QED
  BY <1>0, <1>2, StepFlow

-----------------------------------------------------------------------------
(* Steps that the flow does not see.                                       *)
LEMMA SameStep ==
  ASSUME IInv, FlowInv, NEW c \in Conns, NEW y, SameFlow(cx[c], y),
         cx' = [cx EXCEPT ![c] = y], up' = up, env' = env
  PROVE  FlowInv'
<1>1. DOMAIN up[c] = UFields
  BY FlowFacts
<1>2. ASSUME FlowOK(cx[c], up[c], env.max.script[c])
      PROVE  FlowOK(y, up[c], env.max.script[c])
  BY <1>2, SameIsOK
<1> QED
  BY <1>1, <1>2, StepFlow

(* Nothing moves.                                                          *)
LEMMA StillFlow ==
  ASSUME IInv, FlowInv, cx' = cx, up' = up, env' = env
  PROVE  FlowInv'
BY DEF FlowInv

(* Wakes, timers and kills.                                                *)
LEMMA UnseenFlow ==
  ASSUME IInv, FlowInv, NEW c \in Conns,
         \/ OnTraffic(c) \/ HandshakeTimeout(c) \/ OnTick(c) \/ DrainWakes(c)
         \/ DeadlineFires(c) \/ SampleSpliceBuffer(c)
  PROVE  FlowInv'
<1> DEFINE x == cx[c]
<1>0. /\ DOMAIN cx = Conns /\ DOMAIN x = XFields /\ up' = up /\ env' = env
  BY FlowFacts DEF OnTraffic, HandshakeTimeout, OnTick, DrainWakes,
     DeadlineFires, SampleSpliceBuffer
<1>1. CASE OnTraffic(c)
  <2>1. PICK r : cx' = [cx EXCEPT ![c] = [x EXCEPT !.wake = FALSE, !.run = r]]
    BY <1>0, <1>1 DEF OnTraffic, XFields
  <2>2. SameFlow(x, [x EXCEPT !.wake = FALSE, !.run = r])
    BY <1>0 DEF SameFlow, Rides, XFields
  <2> QED
    BY <1>0, <2>1, <2>2, SameStep
<1>2. CASE HandshakeTimeout(c)
  <2>1. PICK k : cx' = [cx EXCEPT ![c] = [x EXCEPT !.timer = FALSE, !.kill = k]]
    BY <1>0, <1>2 DEF HandshakeTimeout, XFields
  <2>2. SameFlow(x, [x EXCEPT !.timer = FALSE, !.kill = k])
    BY <1>0 DEF SameFlow, Rides, XFields
  <2> QED
    BY <1>0, <2>1, <2>2, SameStep
<1>3. CASE OnTick(c)
  <2>1. cx' = [cx EXCEPT ![c] = Kill(x)]
    BY <1>3 DEF OnTick
  <2>2. SameFlow(x, Kill(x))
    BY <1>0 DEF SameFlow, Rides, XFields, Kill
  <2> QED
    BY <1>0, <2>1, <2>2, SameStep
<1>4. CASE DrainWakes(c)
  <2> DEFINE y == [Wake(x) EXCEPT !.wakeTimer = FALSE]
  <2>1. cx' = [cx EXCEPT ![c] = y]
    BY <1>4 DEF DrainWakes
  <2>2. SameFlow(x, y)
    BY <1>0 DEF SameFlow, Rides, XFields, Wake
  <2> QED
    BY <1>0, <2>1, <2>2, SameStep
<1>5. CASE DeadlineFires(c)
  <2>1. cx' = [cx EXCEPT ![c] = [x EXCEPT !.deadline = "queued"]]
    BY <1>5 DEF DeadlineFires
  <2>2. SameFlow(x, [x EXCEPT !.deadline = "queued"])
    BY <1>0 DEF SameFlow, Rides, XFields
  <2> QED
    BY <1>0, <2>1, <2>2, SameStep
<1>6. CASE SampleSpliceBuffer(c)
  <2>1. PICK n : cx' = [cx EXCEPT ![c] = [x EXCEPT !.sample = FALSE, !.sampled = n]]
    BY <1>0, <1>6 DEF SampleSpliceBuffer
  <2>2. SameFlow(x, [x EXCEPT !.sample = FALSE, !.sampled = n])
    BY <1>0 DEF SameFlow, Rides, XFields
  <2> QED
    BY <1>0, <2>1, <2>2, SameStep
<1> QED
  BY <1>1, <1>2, <1>3, <1>4, <1>5, <1>6

(* The client reads, and the data centre.                                  *)
LEMMA ReadsFlow ==
  ASSUME IInv, FlowInv, NEW c \in Conns, ClientReads(c) \/ DCReads(c)
  PROVE  FlowInv'
<1> DEFINE x == cx[c]
           u == up[c]
           s == env.max.script[c]
<1>0. /\ DOMAIN cx = Conns /\ DOMAIN x = XFields /\ DOMAIN u = UFields
      /\ env' = env
  BY FlowFacts DEF ClientReads, DCReads
<1>1. CASE ClientReads(c)
  <2>1. PICK n : cx' = [cx EXCEPT ![c] = [x EXCEPT !.out = n]]
    BY <1>1 DEF ClientReads
  <2> DEFINE y == [x EXCEPT !.out = n]
  <2>2. /\ y.drain = x.drain /\ y.dial = x.dial
        /\ y.mode = x.mode /\ y.hi = x.hi /\ y.got = x.got /\ y.in = x.in
        /\ y.sent = x.sent /\ y.pending = x.pending /\ y.st = x.st
        /\ y.at = x.at /\ y.dec = x.dec
    BY <1>0 DEF XFields
  <2>3. x.out # 0 /\ up' = up
    BY <1>1 DEF ClientReads
  <2> HIDE DEF y
  <2>4. ASSUME FlowOK(x, u, s) PROVE FlowOK(y, u, s)
    <3>1. Phase(y)
      BY <2>2, <2>4 DEF FlowOK, Phase
    <3>2. Down(y, u)
      BY <2>2, <2>4, DownKept DEF FlowOK, Starting
    <3>3. Draining(y, u)
      BY <2>2, <2>3, <2>4, DrainKept DEF FlowOK
    <3>4. NothingPending(s) => Upward(y, u, s)
      <4> SUFFICES ASSUME NothingPending(s) PROVE Upward(y, u, s)
        OBVIOUS
      <4>1. Upward(x, u, s) /\ x.dec \in Nat
        BY <2>4 DEF FlowOK, Upward
      <4>2. Starting(y) <=> Starting(x)
        BY <2>2 DEF Starting
      <4> QED
        BY <2>2, <4>1, <4>2, UpKept
    <3> QED
      BY <3>1, <3>2, <3>3, <3>4 DEF FlowOK
  <2>5. cx' = [cx EXCEPT ![c] = y]
    BY <2>1 DEF y
  <2> QED
    BY <1>0, <2>3, <2>4, <2>5, StepFlow
<1>2. CASE DCReads(c)
  <2> DEFINE v == [u EXCEPT !.out = 0]
  <2>1. up' = [up EXCEPT ![c] = v] /\ cx' = cx
    BY <1>2 DEF DCReads
  <2>2. DOMAIN v = UFields /\ v.sent = u.sent /\ v.in = u.in /\ v.got = u.got
        /\ v.at = u.at
    BY <1>0 DEF UFields
  <2> HIDE DEF v
  <2>3. SameFlow(x, x)
    BY DEF SameFlow, Rides
  <2>4. ASSUME FlowOK(x, u, s) PROVE FlowOK(x, v, s)
    BY <2>2, <2>3, <2>4, SameIsOK
  <2> QED
    BY <1>0, <2>1, <2>2, <2>4, StepFlow
<1> QED
  BY <1>1, <1>2

(* The client sends: what is left of its stream stays the same.            *)
LEMMA ClientSendsFlow ==
  ASSUME IInv, FlowInv, NEW c \in Conns, ClientSends(c)
  PROVE  FlowInv'
<1> DEFINE x == cx[c]
           u == up[c]
           s == env.max.script[c]
           p == s[x.sent + 1]
           n == x.sent + 1
           q == Append(x.in, p)
           y == [x EXCEPT !.sent = n, !.wake = TRUE, !.in = q]
<1>0. /\ DOMAIN cx = Conns /\ DOMAIN x = XFields /\ DOMAIN u = UFields
      /\ env' = env /\ up' = up /\ x.at = "open" /\ x.sent < Len(s)
      /\ x.sent \in Nat
  BY FlowFacts DEF ClientSends, ConnSound
<1>1. cx' = [cx EXCEPT ![c] = y]
  BY <1>0 DEF ClientSends, XFields
<1> HIDE DEF n, q
<1>2. /\ y.drain = x.drain /\ y.dial = x.dial /\ y.out = x.out
      /\ y.mode = x.mode /\ y.hi = x.hi /\ y.got = x.got /\ y.in = q
      /\ y.sent = n /\ y.pending = x.pending /\ y.st = x.st
      /\ y.at = x.at /\ y.dec = x.dec
  BY <1>0 DEF XFields
<1> HIDE DEF y
<1>3. Starting(x) /\ Starting(y)
  BY <1>0, <1>2 DEF Starting
<1>4. ASSUME s \in Seq(Pieces), Stream(x, s) PROVE Stream(y, s)
  <2> DEFINE k == x.sent
             i == x.in
  <2>1. i \in Seq(Pieces) /\ k \in Nat /\ k < Len(s)
    BY <1>0, <1>4 DEF Stream
  <2>2. n = k + 1 /\ q = Append(i, s[k + 1]) /\ Len(s) \in Nat
    BY <1>4 DEF n, q
  <2>3. x.in = i /\ x.sent = k
    OBVIOUS
  <2> HIDE DEF k, i
  <2>4. q \in Seq(Pieces) /\ Rest(q, n, s) = Rest(i, k, s) /\ n \in 0..Len(s)
    BY <1>4, <2>1, <2>2, RestSends
  <2>5. i # <<>> => q # <<>> /\ Head(q) = Head(i)
    <3>1. SUFFICES ASSUME i # <<>> PROVE q # <<>> /\ Head(q) = Head(i)
      OBVIOUS
    <3>2. s[k + 1] \in Pieces
      BY <1>4, <2>1
    <3>3. Len(i) \in Nat /\ Len(i) > 0
      BY <2>1, <3>1
    <3>4. Len(q) = Len(i) + 1 /\ q[1] = i[1]
      BY <2>1, <2>2, <3>2, <3>3
    <3>5. q # <<>>
      BY <2>4, <3>3, <3>4
    <3>6. Head(q) = q[1] /\ Head(i) = i[1]
      BY <2>1, <2>4, <3>1, <3>5
    <3> QED
      BY <3>4, <3>5, <3>6
  <2> QED
    BY <1>2, <1>4, <2>3, <2>4, <2>5 DEF Stream
<1>5. ASSUME s \in Seq(Pieces), FlowOK(x, u, s) PROVE FlowOK(y, u, s)
  <2>1. Phase(y)
    BY <1>2, <1>5 DEF FlowOK, Phase
  <2>2. Down(y, u)
    BY <1>2, <1>3, <1>5, DownKept DEF FlowOK
  <2>3. Draining(y, u)
    BY <1>2, <1>5, DrainKept DEF FlowOK
  <2>4. NothingPending(s) => Upward(y, u, s)
    <3> SUFFICES ASSUME NothingPending(s) PROVE Upward(y, u, s)
      OBVIOUS
    <3>1. Upward(x, u, s)
      BY <1>5 DEF FlowOK
    <3>2. Short(y, s) <=> Short(x, s)
      BY <1>2 DEF Short
    <3> QED
      BY <1>2, <1>3, <1>4, <1>5, <3>1, <3>2 DEF Upward
  <2> QED
    BY <2>1, <2>2, <2>3, <2>4 DEF FlowOK
<1> QED
  BY <1>0, <1>1, <1>5, StepFlow

(* The other end sends.                                                    *)
LEMMA UpstreamFlow ==
  ASSUME IInv, FlowInv, NEW c \in Conns, UpstreamSends(c)
  PROVE  FlowInv'
<1> DEFINE x == cx[c]
           u == up[c]
           s == env.max.script[c]
           n == u.sent + 1
           q == Append(u.in, n)
           v == [u EXCEPT !.sent = n, !.wake = ~x.spliced, !.in = q]
<1>0. /\ DOMAIN up = Conns /\ DOMAIN u = UFields /\ env' = env /\ cx' = cx
      /\ u.at = "open"
  BY FlowFacts DEF UpstreamSends
<1>1. up' = [up EXCEPT ![c] = v]
  BY <1>0 DEF UpstreamSends, UFields
<1> HIDE DEF n, q
<1>2. DOMAIN v = UFields /\ v.sent = n /\ v.in = q /\ v.at = u.at /\ v.got = u.got
  BY <1>0 DEF UFields
<1> HIDE DEF v
<1>3. ASSUME FlowOK(x, u, s) PROVE FlowOK(x, v, s)
  <2>1. u.sent \in Nat /\ u.in \in Seq(Nat) /\ x.hi \in Seq(Seq(Nat))
    BY <1>3 DEF FlowOK, Down
  <2>2. n \in Nat /\ q \in Seq(Nat)
    BY <2>1 DEF n, q
  <2>3. Starting(x) => InTransit(Len(x.got), x.hi, q, n)
    <3>1. SUFFICES ASSUME Starting(x) PROVE InTransit(Len(x.got), x.hi, q, n)
      OBVIOUS
    <3>2. InTransit(Len(x.got), x.hi, u.in, u.sent)
      BY <1>3, <3>1 DEF FlowOK, Down
    <3> QED
      BY <2>1, <3>2, TransitSends DEF n, q
  <2>4. Down(x, v)
    BY <1>2, <1>3, <2>2, <2>3 DEF FlowOK, Down
  <2>5. Draining(x, v)
    BY <1>0, <1>3 DEF FlowOK, Draining
  <2>6. NothingPending(s) => Upward(x, v, s)
    BY <1>2, <1>3 DEF FlowOK, Upward
  <2> QED
    BY <1>3, <2>4, <2>5, <2>6 DEF FlowOK
<1> QED
  BY <1>0, <1>1, <1>2, <1>3, StepFlow

(* The client's loop runs a write: its data is the next run.               *)
LEMMA WriteRunsFlow ==
  ASSUME IInv, FlowInv, NEW c \in Conns, NEW direct, WriteRuns(c, direct)
  PROVE  FlowInv'
<1> DEFINE x == cx[c]
           u == up[c]
           s == env.max.script[c]
           a == Head(x.hi)
           t == Tail(x.hi)
           g == x.got \o a
<1>0. /\ DOMAIN cx = Conns /\ DOMAIN x = XFields /\ DOMAIN u = UFields
      /\ env' = env /\ up' = up /\ x.at = "open" /\ x.hi # <<>>
  BY FlowFacts DEF WriteRuns, LoopIdle
<1>1. PICK d, e, k :
        cx' = [cx EXCEPT ![c] = [x EXCEPT !.hi = t, !.got = g, !.out = d,
                                          !.flow = e, !.sampled = k]]
  BY DEF WriteRuns
<1> DEFINE y == [x EXCEPT !.hi = t, !.got = g, !.out = d, !.flow = e, !.sampled = k]
<1> HIDE DEF g, t
<1>2. /\ y.drain = x.drain /\ y.dial = x.dial /\ y.in = x.in
      /\ y.mode = x.mode /\ y.hi = t /\ y.got = g
      /\ y.sent = x.sent /\ y.pending = x.pending /\ y.st = x.st
      /\ y.at = x.at /\ y.dec = x.dec
  BY <1>0 DEF XFields
<1>3. cx' = [cx EXCEPT ![c] = y]
  BY <1>1
<1> HIDE DEF y
<1>4. Starting(x) /\ Starting(y)
  BY <1>0, <1>2 DEF Starting
<1>5. ASSUME FlowOK(x, u, s) PROVE FlowOK(y, u, s)
  <2>1. Phase(y)
    BY <1>2, <1>5 DEF FlowOK, Phase
  <2>2. Down(y, u)
    <3> DEFINE n == Len(x.got)
    <3>1. /\ x.hi \in Seq(Seq(Nat)) /\ x.got \in Seq(Nat) /\ u.sent \in Nat
          /\ x.got = Run(0, n) /\ InTransit(n, x.hi, u.in, u.sent)
          /\ u.in \in Seq(Nat)
      BY <1>4, <1>5 DEF FlowOK, Down
    <3>2. n \in Nat
      BY <3>1
    <3> HIDE DEF n
    <3>3. /\ t \in Seq(Seq(Nat)) /\ a \in Seq(Nat)
          /\ Joined(Run(0, n), a, Run(0, n + Len(a)))
          /\ InTransit(n + Len(a), t, u.in, u.sent)
      BY <1>0, <3>1, <3>2, TransitRuns DEF t
    <3>4. g = Run(0, n + Len(a))
      BY <3>1, <3>3 DEF g, Joined
    <3>5. g \in Seq(Nat) /\ Len(g) = n + Len(a)
      BY <3>1, <3>3 DEF g, n
    <3> QED
      BY <1>0, <1>2, <3>1, <3>3, <3>4, <3>5 DEF Down
  <2>3. Draining(y, u)
    <3>1. x.drain \notin {"draining", "done"}
      BY <1>0, <1>5 DEF FlowOK, Draining
    <3> QED
      BY <1>2, <1>5, <3>1 DEF FlowOK, Draining
  <2>4. NothingPending(s) => Upward(y, u, s)
    <3> SUFFICES ASSUME NothingPending(s) PROVE Upward(y, u, s)
      OBVIOUS
    <3>1. Upward(x, u, s) /\ x.dec \in Nat
      BY <1>5 DEF FlowOK, Upward
    <3> QED
      BY <1>2, <1>4, <3>1, UpKept
  <2> QED
    BY <2>1, <2>2, <2>3, <2>4 DEF FlowOK
<1> QED
  BY <1>0, <1>3, <1>5, StepFlow

-----------------------------------------------------------------------------
(* The other side's loop or the reader takes m units and queues them.      *)
LEMMA WritesOK ==
  ASSUME NEW x, NEW u, NEW y, NEW v, NEW s, FlowOK(x, u, s), x.at # "new",
         x.drain \notin {"requested", "draining", "done"},
         NEW m \in 0..Len(u.in), v.in = SubSeq(u.in, m + 1, Len(u.in)),
         v.sent = u.sent, v.at = u.at, v.got = u.got,
         y.hi = IF x.at = "open" THEN Append(x.hi, SubSeq(u.in, 1, m)) ELSE x.hi,
         y.dial = x.dial, y.mode = x.mode, y.got = x.got, y.drain = x.drain,
         y.sent = x.sent, y.pending = x.pending, y.at = x.at, y.st = x.st,
         y.in = x.in, y.dec = x.dec
  PROVE  FlowOK(y, v, s)
<1>1. Phase(y)
  BY DEF FlowOK, Phase
<1>2. Down(y, v)
  <2> DEFINE n == Len(x.got)
             in == u.in
             hi == x.hi
  <2>1. /\ hi \in Seq(Seq(Nat)) /\ x.got \in Seq(Nat) /\ u.sent \in Nat
        /\ in \in Seq(Nat) /\ x.got = Run(0, n)
        /\ Starting(x) => InTransit(n, hi, in, u.sent)
    BY DEF FlowOK, Down
  <2>2. m \in 0..Len(in)
    OBVIOUS
  <2>3. /\ v.in = SubSeq(in, m + 1, Len(in))
        /\ y.hi = IF x.at = "open" THEN Append(hi, SubSeq(in, 1, m)) ELSE hi
        /\ Len(y.got) = n
    OBVIOUS
  <2> HIDE DEF n, in, hi
  <2>4. SubSeq(in, m + 1, Len(in)) \in Seq(Nat)
    BY <2>1, <2>2, SplitAt
  <2>5. CASE x.at = "open"
    <3>1. Starting(x)
      BY <2>5 DEF Starting
    <3>2. /\ Append(hi, SubSeq(in, 1, m)) \in Seq(Seq(Nat))
          /\ InTransit(n, Append(hi, SubSeq(in, 1, m)),
                       SubSeq(in, m + 1, Len(in)), u.sent)
      BY <2>1, <2>2, <3>1, TransitWrites
    <3>3. /\ y.hi \in Seq(Seq(Nat)) /\ InTransit(n, y.hi, v.in, v.sent)
          /\ v.in \in Seq(Nat)
      BY <2>3, <2>4, <2>5, <3>2
    <3> QED
      BY <2>1, <2>3, <2>5, <3>3 DEF Down
  <2>6. CASE x.at # "open"
    <3>1. ~Starting(y)
      BY <2>6 DEF Starting
    <3>2. y.hi \in Seq(Seq(Nat)) /\ v.in \in Seq(Nat)
      BY <2>1, <2>3, <2>4, <2>6
    <3> QED
      BY <2>1, <2>3, <3>1, <3>2 DEF Down
  <2> QED
    BY <2>5, <2>6
<1>3. Draining(y, v)
  BY DEF Draining
<1>4. NothingPending(s) => Upward(y, v, s)
  <2> SUFFICES ASSUME NothingPending(s) PROVE Upward(y, v, s)
    OBVIOUS
  <2>1. Upward(x, u, s) /\ x.dec \in Nat
    BY DEF FlowOK, Upward
  <2>2. Starting(y) <=> Starting(x)
    BY DEF Starting
  <2> QED
    BY <2>1, <2>2, UpKept
<1> QED
  BY <1>1, <1>2, <1>3, <1>4 DEF FlowOK

(* OnClose of the data centre's connection.                                *)
LEMMA DCOnCloseFlow ==
  ASSUME IInv, FlowInv, NEW c \in Conns, DCOnClose(c), env' = env
  PROVE  FlowInv'
<1> DEFINE x == cx[c]
           u == up[c]
           s == env.max.script[c]
           v == [u EXCEPT !.at = "closed"]
<1>0. DOMAIN x = XFields /\ DOMAIN u = UFields
  BY FlowFacts
<1>1. PICK y \in {x, Kill(x)} : cx' = [cx EXCEPT ![c] = y]
  BY DEF DCOnClose
<1>2. up' = [up EXCEPT ![c] = v]
  BY DEF DCOnClose
<1>3. SameFlow(x, y)
  <2>1. SameFlow(x, x)
    BY DEF SameFlow, Rides
  <2>2. SameFlow(x, Kill(x))
    BY <1>0 DEF SameFlow, Rides, Kill, XFields
  <2> QED
    BY <1>1, <2>1, <2>2
<1>4. DOMAIN v = UFields /\ v.sent = u.sent /\ v.in = u.in /\ v.got = u.got
      /\ v.at = "closed"
  BY <1>0 DEF UFields
<1> HIDE DEF v
<1>5. ASSUME FlowOK(x, u, s) PROVE FlowOK(y, v, s)
  BY <1>3, <1>4, <1>5, SameIsOK
<1> QED
  BY <1>1, <1>2, <1>4, <1>5, StepFlow

(* handleDCTraffic queues what it takes, in order.                         *)
LEMMA DCTrafficFlow ==
  ASSUME IInv, FlowInv, NEW c \in Conns, HandleDCTraffic(c)
  PROVE  FlowInv'
<1> DEFINE x == cx[c]
           u == up[c]
           s == env.max.script[c]
           max == MaxProcess(x.out, u.throttled, Len(u.in))
           n == Min({max, Len(u.in)})
           rest == SubSeq(u.in, n + 1, Len(u.in))
           t == Throttles(x.out, u.throttled)
           wakes == rest # <<>>
           v == [u EXCEPT !.in = rest, !.wake = wakes, !.throttled = t]
           a == SubSeq(u.in, 1, n)
           w == WriteToClient(x, a)
           y == [w EXCEPT !.spoke = IF @ = "nobody" THEN @ ELSE "server"]
<1>0. /\ DOMAIN x = XFields /\ DOMAIN u = UFields /\ env' = env
      /\ u.at = "open" /\ DOMAIN up = Conns
  BY FlowFacts DEF HandleDCTraffic
<1>1. \/ DCOnClose(c)
      \/ /\ up' = [up EXCEPT ![c].in = rest, ![c].wake = wakes,
                             ![c].throttled = Throttles(x.out, @)]
         /\ cx' = [cx EXCEPT ![c] = y]
  BY DEF HandleDCTraffic
<1>2. CASE /\ up' = [up EXCEPT ![c].in = rest, ![c].wake = wakes,
                               ![c].throttled = Throttles(x.out, @)]
           /\ cx' = [cx EXCEPT ![c] = y]
  <2>1. up' = [up EXCEPT ![c] = v]
    <3> HIDE DEF rest, wakes
    <3> QED
      BY <1>0, <1>2 DEF UFields
  <2> HIDE DEF rest, wakes, t, a
  <2>2. DOMAIN v = UFields /\ v.in = rest /\ v.sent = u.sent /\ v.at = u.at
        /\ v.got = u.got
    BY <1>0 DEF UFields
  <2> HIDE DEF v
  <2>3. /\ DOMAIN w = XFields
        /\ w.hi = IF x.at = "open" THEN Append(x.hi, a) ELSE x.hi
        /\ w.dial = x.dial /\ w.mode = x.mode /\ w.got = x.got
        /\ w.drain = x.drain /\ w.sent = x.sent /\ w.pending = x.pending
        /\ w.at = x.at /\ w.st = x.st /\ w.in = x.in /\ w.dec = x.dec
    <3>1. CASE x.at # "open"
      BY <1>0, <3>1 DEF WriteToClient
    <3>2. CASE x.at = "open"
      <4>1. w = [x EXCEPT !.hi = Append(@, a)]
        BY <3>2 DEF WriteToClient
      <4> QED
        BY <1>0, <3>2, <4>1 DEF XFields
    <3> QED
      BY <3>1, <3>2
  <2> HIDE DEF w
  <2>4. /\ y.hi = w.hi /\ y.dial = w.dial /\ y.mode = w.mode /\ y.got = w.got
        /\ y.drain = w.drain /\ y.sent = w.sent /\ y.pending = w.pending
        /\ y.at = w.at /\ y.st = w.st /\ y.in = w.in /\ y.dec = w.dec
    BY <2>3 DEF XFields
  <2>5. cx' = [cx EXCEPT ![c] = y]
    BY <1>2
  <2> HIDE DEF y
  <2>6. ASSUME FlowOK(x, u, s) PROVE FlowOK(y, v, s)
    <3>1. u.in \in Seq(Nat) /\ x.at # "new"
      BY <1>0, <2>6 DEF FlowOK, Down
    <3>2. x.drain \notin {"requested", "draining", "done"}
      BY <1>0, <2>6 DEF FlowOK, Draining
    <3>3. Len(u.in) \in Nat
      BY <3>1
    <3>4. max \in Nat
      BY <3>3, MaxProcessLaw
    <3> HIDE DEF max
    <3>5. n \in Nat /\ n <= Len(u.in)
      BY <3>3, <3>4, MinOfTwo
    <3> HIDE DEF n
    <3>6. n \in 0..Len(u.in)
      BY <3>3, <3>5
    <3>7. /\ v.in = SubSeq(u.in, n + 1, Len(u.in))
          /\ y.hi = IF x.at = "open" THEN Append(x.hi, SubSeq(u.in, 1, n)) ELSE x.hi
      BY <2>2, <2>3, <2>4 DEF rest, a
    <3>8. /\ y.dial = x.dial /\ y.mode = x.mode /\ y.got = x.got
          /\ y.drain = x.drain /\ y.sent = x.sent /\ y.pending = x.pending
          /\ y.at = x.at /\ y.st = x.st /\ y.in = x.in /\ y.dec = x.dec
      BY <2>3, <2>4
    <3> HIDE DEF x, u, s
    <3> QED
      BY <2>2, <2>6, <3>1, <3>2, <3>6, <3>7, <3>8, WritesOK
  <2> QED
    BY <1>0, <2>1, <2>2, <2>5, <2>6, StepFlow
<1> QED
  BY <1>0, <1>1, <1>2, DCOnCloseFlow

(* The data centre's connection ends.                                      *)
LEMMA DCClosesFlow ==
  ASSUME IInv, FlowInv, NEW c \in Conns, DCCloses(c)
  PROVE  FlowInv'
BY DCOnCloseFlow DEF DCCloses

-----------------------------------------------------------------------------
(* All but dial, drain and in.                                             *)
Stands(x, y) ==
  /\ y.mode = x.mode /\ y.hi = x.hi /\ y.got = x.got /\ y.out = x.out
  /\ y.sent = x.sent /\ y.pending = x.pending /\ y.at = x.at /\ y.st = x.st
Carries(u, v) == v.sent = u.sent /\ v.in = u.in /\ v.got = u.got

(* A step of the goroutine that splices.                                   *)
LEMMA SpliceDialOK ==
  ASSUME NEW x, NEW u, NEW y, NEW v, NEW s, FlowOK(x, u, s), x.at # "new",
         x.dial \in SpliceDial, y.dial \in SpliceDial \cup {"done"},
         Stands(x, y), y.dec = x.dec, Carries(u, v),
         \/ y.drain = x.drain
         \/ /\ y.drain = "requested" /\ y.dial = "done" /\ v.at = "closed"
            /\ u.in = <<>>
  PROVE  FlowOK(y, v, s)
<1>1. x.st \in {"splicing", "closed"} /\ x.dial # "done"
  BY DEF FlowOK, Phase, SpliceDial
<1>2. y.st \in {"splicing", "closed"} /\ y.st \notin Routed
      /\ y.st \notin Before \cup {"middle end"} /\ y.dial \notin DCDial
  BY <1>1 DEF Stands, Routed, Before, SpliceDial, DCDial
<1>3. Phase(y)
  <2>1. x.st = "closed" => x.at \in {"ending", "closed"}
    BY DEF FlowOK, Phase
  <2> QED
    BY <1>2, <2>1 DEF Phase, Stands
<1>4. Down(y, v)
  BY DownKept DEF FlowOK, Stands, Carries, Starting
<1>5. Draining(y, v)
  <2>1. x.drain \notin {"requested", "draining", "done"}
    BY <1>1 DEF FlowOK, Draining
  <2>2. CASE y.drain = x.drain
    BY <2>1, <2>2 DEF Draining
  <2>3. CASE y.drain = "requested" /\ y.dial = "done" /\ v.at = "closed" /\ u.in = <<>>
    BY <1>2, <2>3 DEF Draining, Carries
  <2> QED
    BY <2>2, <2>3
<1>6. NothingPending(s) => Upward(y, v, s)
  <2> SUFFICES ASSUME NothingPending(s) PROVE Upward(y, v, s)
    OBVIOUS
  <2>1. Upward(x, u, s) /\ x.dec \in Nat
    BY DEF FlowOK, Upward
  <2> QED
    BY <1>2, <2>1, UpKept DEF Stands, Carries
<1> QED
  BY <1>3, <1>4, <1>5, <1>6 DEF FlowOK

(* A step of the goroutine that dials a data centre, before its relay ...  *)
LEMMA DCDialOK ==
  ASSUME NEW x, NEW u, NEW y, NEW v, NEW s, FlowOK(x, u, s), x.at # "new",
         x.dial \in DCDial, y.dial \in DCDial \cup {"done"},
         Stands(x, y), y.dec = x.dec, y.in = x.in, y.drain = x.drain,
         Carries(u, v)
  PROVE  FlowOK(y, v, s)
<1>1. x.st \in {"dialing", "closed"} /\ x.dial # "done"
  BY DEF FlowOK, Phase, DCDial
<1>2. y.st \in {"dialing", "closed"} /\ y.st \in Routed \cup {"closed"}
      /\ y.st \notin Before \cup {"middle end"} /\ y.dial \notin SpliceDial
  BY <1>1 DEF Stands, Routed, Before, SpliceDial, DCDial
<1>3. Phase(y)
  <2>1. x.st = "closed" => x.at \in {"ending", "closed"}
    BY DEF FlowOK, Phase
  <2> QED
    BY <1>2, <2>1 DEF Phase, Stands
<1>4. Down(y, v)
  BY DownKept DEF FlowOK, Stands, Carries, Starting
<1>5. Draining(y, v)
  BY <1>1, NoDrain DEF FlowOK
<1>6. NothingPending(s) => Upward(y, v, s)
  <2> SUFFICES ASSUME NothingPending(s) PROVE Upward(y, v, s)
    OBVIOUS
  <2>1. Upward(x, u, s) /\ x.dec \in Nat
    BY DEF FlowOK, Upward
  <2>2. y.st # "relaying" /\ (Starting(y) <=> Starting(x))
    BY <1>2 DEF Starting, Stands
  <2> QED
    BY <2>1, <2>2, UpKept DEF Stands, Carries
<1> QED
  BY <1>3, <1>4, <1>5, <1>6 DEF FlowOK

(* ... with it ...                                                         *)
LEMMA SetStateOK ==
  ASSUME NEW x, NEW u, NEW y, NEW s, FlowOK(x, u, s), x.at # "new",
         x.dial = "state", y.dial = "register", y.st = "relaying",
         y.mode = x.mode, y.hi = x.hi, y.got = x.got, y.out = x.out,
         y.sent = x.sent, y.pending = x.pending, y.at = x.at, y.dec = x.dec,
         y.in = x.in, y.drain = x.drain
  PROVE  FlowOK(y, u, s)
<1>1. x.st \in {"dialing", "closed"}
  BY DEF FlowOK, Phase, DCDial
<1>2. Phase(y)
  BY DEF Phase, Routed, Before, SpliceDial, DCDial
<1>3. Down(y, u)
  BY DownKept DEF FlowOK, Starting
<1>4. Draining(y, u)
  BY <1>1, NoDrain DEF FlowOK
<1>5. NothingPending(s) => Upward(y, u, s)
  <2> SUFFICES ASSUME NothingPending(s) PROVE Upward(y, u, s)
    OBVIOUS
  <2>1. Upward(x, u, s) /\ x.dec \in Nat /\ x.pending = <<>>
    BY DEF FlowOK, Upward
  <2>2. Short(y, s) <=> Short(x, s)
    BY DEF Short
  <2>3. Starting(y) <=> Starting(x)
    BY DEF Starting
  <2>4. ASSUME Starting(y)
        PROVE  Stream(y, s) /\ Len(u.got) = y.dec
    <3>1. x.st = "dialing"
      BY <1>1, <2>3, <2>4 DEF FlowOK, Phase, Starting
    <3>2. Stream(x, s) /\ x.dec = 0 /\ u.got = <<>>
      BY <2>1, <2>3, <2>4, <3>1 DEF Upward, Routed
    <3>3. y.st \notin Before /\ y.st \notin {"header", "payload", "dd"}
      BY DEF Before
    <3>4. Stream(y, s)
      BY <3>1, <3>2, <3>3, StreamStays
    <3>5. Len(<<>>) = 0
      OBVIOUS
    <3> QED
      BY <3>2, <3>4, <3>5
  <2>5. y.st \notin Before \cup {"dialing"}
    BY DEF Before
  <2> QED
    BY <2>1, <2>2, <2>4, <2>5 DEF Upward
<1> QED
  BY <1>2, <1>3, <1>4, <1>5 DEF FlowOK

(* ... and after it.                                                       *)
LEMMA LateDialOK ==
  ASSUME NEW x, NEW u, NEW y, NEW v, NEW s, FlowOK(x, u, s),
         x.dial \in {"register", "pending", "wake"},
         y.dial \in {"pending", "wake", "done"},
         Stands(x, y), y.in = x.in, y.drain = x.drain,
         v.sent = u.sent, v.in = u.in, v.at = u.at,
         Upward(x, u, s) => y.dec = x.dec /\ v.got = u.got
  PROVE  FlowOK(y, v, s)
<1>1. x.dial \notin {"off", "done"}
  OBVIOUS
<1>2. y.dial \notin SpliceDial \cup DCDial
  BY DEF SpliceDial, DCDial
<1>3. Phase(y)
  <2>1. x.st \notin Before \cup {"middle end"}
    BY <1>1 DEF FlowOK, Phase
  <2>2. /\ x.st \in Routed \cup {"splicing", "middle end", "closed"}
        /\ x.st = "closed" => x.at \in {"ending", "closed"}
        /\ x.st \in {"header", "payload", "o2"} => x.mode = "ee"
    BY DEF FlowOK, Phase
  <2> QED
    BY <1>2, <2>1, <2>2 DEF Phase, Stands
<1>4. Down(y, v)
  BY DownKept DEF FlowOK, Stands, Starting
<1>5. Draining(y, v)
  BY <1>1, NoDrain DEF FlowOK
<1>6. NothingPending(s) => Upward(y, v, s)
  <2> SUFFICES ASSUME NothingPending(s) PROVE Upward(y, v, s)
    OBVIOUS
  <2>1. Upward(x, u, s) /\ x.dec \in Nat
    BY DEF FlowOK, Upward
  <2>2. Starting(y) <=> Starting(x)
    BY DEF Starting, Stands
  <2> QED
    BY <2>1, <2>2, UpKept DEF Stands
<1> QED
  BY <1>3, <1>4, <1>5, <1>6 DEF FlowOK

-----------------------------------------------------------------------------
(* The goroutine goes on or ends; what the other side sent stays.          *)
LEMMA GoesFlow ==
  ASSUME IInv, FlowInv, NEW c \in Conns, NEW pc,
         \/ cx[c].dial \in DCDial /\ pc \in DCDial \cup {"done"}
         \/ cx[c].dial \in SpliceDial /\ pc \in SpliceDial \cup {"done"},
         DialGoes(c, pc) \/ (DialEnds(c) /\ pc = "done"),
         NEW v, DOMAIN v = UFields, Carries(up[c], v),
         up' = [up EXCEPT ![c] = v] \/ (up' = up /\ v = up[c]), env' = env
  PROVE  FlowInv'
<1> DEFINE x == cx[c]
           u == up[c]
           s == env.max.script[c]
           a == [x EXCEPT !.dial = pc]
           b == [Kill(x) EXCEPT !.dial = pc]
<1>0. DOMAIN x = XFields /\ x.at # "new"
  BY FlowFacts DEF ConnSound, DCDial, SpliceDial
<1>1. PICK y \in {a, b} : cx' = [cx EXCEPT ![c] = y]
  BY DEF DialGoes, DialEnds
<1> DEFINE Kept(z) == /\ Stands(x, z) /\ z.in = x.in /\ z.dec = x.dec
                      /\ z.drain = x.drain /\ z.dial = pc
<1>2. Kept(a)
  BY <1>0 DEF Stands, XFields
<1>3. Kept(b)
  BY <1>0 DEF Stands, Kill, XFields
<1> HIDE DEF a, b
<1>4. Kept(y)
  BY <1>1, <1>2, <1>3
<1>5. ASSUME FlowOK(x, u, s) PROVE FlowOK(y, v, s)
  BY <1>0, <1>4, <1>5, DCDialOK, SpliceDialOK
<1> QED
  BY <1>1, <1>5, StepFlow

(* A change of the upstream connection's state.                            *)
LEMMA UpstreamAt ==
  ASSUME NEW u, DOMAIN u = UFields, NEW a
  PROVE  DOMAIN [u EXCEPT !.at = a] = UFields /\ Carries(u, [u EXCEPT !.at = a])
BY DEF UFields, Carries

(* dialDC: the relay begins with an empty data centre and a fresh cipher.  *)
LEMMA DialDCFlow ==
  ASSUME IInv, FlowInv, NEW c \in Conns, DialDC(c)
  PROVE  FlowInv'
<1> DEFINE x == cx[c]
           u == up[c]
           s == env.max.script[c]
<1>0. /\ DOMAIN cx = Conns /\ DOMAIN x = XFields /\ DOMAIN u = UFields
      /\ Carries(u, u)
  BY FlowFacts DEF Carries
<1>01. ConnSound(x)
  BY FlowFacts
<1>1. \A a : /\ DOMAIN [u EXCEPT !.at = a] = UFields
             /\ Carries(u, [u EXCEPT !.at = a])
  BY <1>0, UpstreamAt
<1>2. CASE DialStarts(c)
  BY <1>0, <1>2, GoesFlow DEF DialStarts, Dialing, DCDial
<1>3. CASE Dials(c)
  <2>1. x.dial = "dial" /\ env' = env
    BY <1>3 DEF Dials, Dialing
  <2>2. CASE up' = [up EXCEPT ![c].at = "dialed"] /\ DialGoes(c, "check")
    <3> DEFINE v == [u EXCEPT !.at = "dialed"]
    <3>1. up' = [up EXCEPT ![c] = v] /\ DOMAIN v = UFields /\ Carries(u, v)
      BY <1>1, <2>2
    <3> HIDE DEF v
    <3> QED
      BY <2>1, <2>2, <3>1, GoesFlow DEF DCDial
  <2>3. CASE DialEnds(c) /\ up' = up
    BY <1>0, <2>1, <2>3, GoesFlow DEF DCDial
  <2> QED
    BY <1>3, <2>2, <2>3 DEF Dials
<1>4. CASE DialChecks(c)
  <2>1. x.dial = "check" /\ env' = env
    BY <1>4 DEF DialChecks, Dialing
  <2>2. CASE up' = [up EXCEPT ![c].at = "closed"] /\ DialGoes(c, "done")
    <3> DEFINE v == [u EXCEPT !.at = "closed"]
    <3>1. up' = [up EXCEPT ![c] = v] /\ DOMAIN v = UFields /\ Carries(u, v)
      BY <1>1, <2>2
    <3> HIDE DEF v
    <3> QED
      BY <2>1, <2>2, <3>1, GoesFlow DEF DCDial
  <2>3. CASE DialGoes(c, "enroll") /\ up' = up
    BY <1>0, <2>1, <2>3, GoesFlow DEF DCDial
  <2> QED
    BY <1>4, <2>2, <2>3 DEF DialChecks
<1>5. CASE DialEnrolls(c)
  <2>1. x.dial = "enroll" /\ env' = env
    BY <1>5 DEF DialEnrolls, Dialing
  <2>2. PICK a \in {"open", "closed"} :
          /\ up' = [up EXCEPT ![c].at = a]
          /\ DialGoes(c, "context") \/ DialEnds(c)
    BY <1>5 DEF DialEnrolls
  <2> DEFINE v == [u EXCEPT !.at = a]
  <2>3. up' = [up EXCEPT ![c] = v] /\ DOMAIN v = UFields /\ Carries(u, v)
    BY <1>1, <2>2
  <2> HIDE DEF v
  <2> QED
    BY <2>1, <2>2, <2>3, GoesFlow DEF DCDial
<1>6. CASE DialSetsContext(c)
  <2> DEFINE v == [u EXCEPT !.context = TRUE]
  <2>1. /\ x.dial = "context" /\ env' = env /\ up' = [up EXCEPT ![c] = v]
        /\ DialGoes(c, "forget")
    BY <1>6 DEF DialSetsContext, Dialing
  <2>2. DOMAIN v = UFields /\ Carries(u, v)
    BY <1>0 DEF UFields, Carries
  <2> HIDE DEF v
  <2> QED
    BY <2>1, <2>2, GoesFlow DEF DCDial
<1>7. CASE DialForgets(c)
  BY <1>0, <1>7, GoesFlow DEF DialForgets, Dialing, DCDial
<1>8. CASE SetRelay(c)
  <2> DEFINE y == [x EXCEPT !.relay = TRUE, !.dial = "state"]
  <2>1. /\ x.dial = "relay" /\ env' = env /\ up' = up /\ cx' = [cx EXCEPT ![c] = y]
    BY <1>0, <1>8 DEF SetRelay, Dialing
  <2>2. /\ Stands(x, y) /\ y.in = x.in /\ y.dec = x.dec
        /\ y.drain = x.drain /\ y.dial = "state"
    BY <1>0 DEF Stands, XFields
  <2> HIDE DEF y
  <2>3. x.at # "new"
    BY <1>01, <2>1 DEF ConnSound
  <2>4. ASSUME FlowOK(x, u, s) PROVE FlowOK(y, u, s)
    BY <1>0, <2>1, <2>2, <2>3, <2>4, DCDialOK DEF DCDial
  <2> QED
    BY <1>0, <2>1, <2>4, StepFlow
<1>9. CASE SetRelayState(c)
  <2> DEFINE y == [x EXCEPT !.st = "relaying", !.dial = "register"]
  <2>1. /\ x.dial = "state" /\ env' = env /\ up' = up /\ cx' = [cx EXCEPT ![c] = y]
    BY <1>0, <1>9 DEF SetRelayState, Dialing
  <2>2. /\ y.dial = "register" /\ y.st = "relaying"
        /\ y.mode = x.mode /\ y.hi = x.hi /\ y.got = x.got /\ y.out = x.out
        /\ y.sent = x.sent /\ y.pending = x.pending /\ y.at = x.at
        /\ y.dec = x.dec /\ y.in = x.in /\ y.drain = x.drain
    BY <1>0 DEF XFields
  <2> HIDE DEF y
  <2>3. x.at # "new"
    BY <1>01, <2>1 DEF ConnSound
  <2>4. ASSUME FlowOK(x, u, s) PROVE FlowOK(y, u, s)
    BY <2>1, <2>2, <2>3, <2>4, SetStateOK
  <2> QED
    BY <1>0, <2>1, <2>4, StepFlow
<1>10. CASE DialRegisters(c)
  <2> DEFINE y == [x EXCEPT !.dial = "pending"]
  <2>1. /\ x.dial = "register" /\ env' = env /\ up' = up
        /\ cx' = [cx EXCEPT ![c] = y]
    BY <1>10 DEF DialRegisters, Dialing, DialGoes
  <2>2. /\ Stands(x, y) /\ y.in = x.in /\ y.dec = x.dec
        /\ y.drain = x.drain /\ y.dial = "pending"
    BY <1>0 DEF Stands, XFields
  <2> HIDE DEF y
  <2>3. ASSUME FlowOK(x, u, s) PROVE FlowOK(y, u, s)
    BY <2>1, <2>2, <2>3, LateDialOK
  <2> QED
    BY <1>0, <2>1, <2>3, StepFlow
<1>11. CASE SendPendingData(c)
  <2> DEFINE p == x.pending
             d == x.dec + Len(p)
             w == Decrypt(p, x.dec)
             v == WriteToDC(u, w)
             y == [x EXCEPT !.dial = "wake", !.dec = d]
  <2>1. /\ x.dial = "pending" /\ env' = env /\ up' = [up EXCEPT ![c] = v]
        /\ cx' = [cx EXCEPT ![c] = y]
    BY <1>0, <1>11 DEF SendPendingData, Dialing, XFields
  <2> HIDE DEF d, w
  <2>2. /\ Stands(x, y) /\ y.in = x.in /\ y.dec = d
        /\ y.drain = x.drain /\ y.dial = "wake"
    BY <1>0 DEF Stands, XFields
  <2>3. /\ DOMAIN v = UFields /\ v.at = u.at /\ v.in = u.in /\ v.sent = u.sent
        /\ v.got = IF u.at = "open" THEN u.got \o w ELSE u.got
    BY <1>0, WriteLaw
  <2> HIDE DEF y, v
  <2>4. ASSUME Upward(x, u, s) PROVE y.dec = x.dec /\ v.got = u.got
    <3>1. p = <<>> /\ x.dec \in Nat /\ u.got \in Seq(Int)
      BY <2>4 DEF Upward
    <3>2. Len(<<>>) = 0 /\ DOMAIN <<>> = {} /\ \A q \in Seq(Int) : q \o <<>> = q
      OBVIOUS
    <3>3. d = x.dec
      BY <3>1, <3>2 DEF d
    <3>4. w = <<>>
      BY <3>1, <3>2 DEF w, Decrypt
    <3> QED
      BY <2>2, <2>3, <3>1, <3>2, <3>3, <3>4
  <2>5. ASSUME FlowOK(x, u, s) PROVE FlowOK(y, v, s)
    BY <2>1, <2>2, <2>3, <2>4, <2>5, LateDialOK
  <2> QED
    BY <2>1, <2>3, <2>5, StepFlow
<1>12. CASE DialWakes(c)
  <2> DEFINE y == [Wake(x) EXCEPT !.dial = "done"]
  <2>1. /\ x.dial = "wake" /\ env' = env /\ up' = up
        /\ cx' = [cx EXCEPT ![c] = y]
    BY <1>12 DEF DialWakes, Dialing
  <2>2. /\ Stands(x, y) /\ y.in = x.in /\ y.dec = x.dec
        /\ y.drain = x.drain /\ y.dial = "done"
    BY <1>0 DEF Stands, XFields, Wake
  <2> HIDE DEF y
  <2>3. ASSUME FlowOK(x, u, s) PROVE FlowOK(y, u, s)
    BY <2>1, <2>2, <2>3, LateDialOK
  <2> QED
    BY <1>0, <2>1, <2>3, StepFlow
<1> QED
  BY <1>2, <1>3, <1>4, <1>5, <1>6, <1>7, <1>8, <1>9, <1>10, <1>11, <1>12 DEF DialDC

-----------------------------------------------------------------------------
(* dialSplice.                                                             *)
LEMMA DialSpliceFlow ==
  ASSUME IInv, FlowInv, NEW c \in Conns, DialSplice(c)
  PROVE  FlowInv'
<1> DEFINE x == cx[c]
           u == up[c]
           s == env.max.script[c]
<1>0. /\ DOMAIN cx = Conns /\ DOMAIN x = XFields /\ DOMAIN u = UFields
      /\ Carries(u, u)
  BY FlowFacts DEF Carries
<1>1. \A a : /\ DOMAIN [u EXCEPT !.at = a] = UFields
             /\ Carries(u, [u EXCEPT !.at = a])
  BY <1>0, UpstreamAt
<1>2. x.dial \in SpliceDial /\ env' = env
  BY DEF DialSplice, SpliceStarts, SpliceDials, SpliceChecks, SplicePeeks,
     SetSpliceConn, SpliceDiscards, Dialing, SpliceDial
<1>3. x.at # "new"
  BY <1>2, FlowFacts DEF ConnSound, SpliceDial
<1>4. ASSUME NEW pc \in SpliceDial \cup {"done"}, NEW a,
             DialGoes(c, pc) \/ (DialEnds(c) /\ pc = "done"),
             up' = up \/ up' = [up EXCEPT ![c].at = a]
      PROVE  FlowInv'
  <2> DEFINE v == [u EXCEPT !.at = a]
  <2>1. CASE up' = up
    BY <1>0, <1>2, <1>4, <2>1, GoesFlow
  <2>2. CASE up' = [up EXCEPT ![c].at = a]
    <3>1. up' = [up EXCEPT ![c] = v] /\ DOMAIN v = UFields /\ Carries(u, v)
      BY <1>1, <2>2
    <3> HIDE DEF v
    <3> QED
      BY <1>2, <1>4, <3>1, GoesFlow
  <2> QED
    BY <1>4, <2>1, <2>2
<1>5. CASE \/ SpliceStarts(c) \/ SpliceDials(c) \/ SpliceChecks(c)
           \/ SpliceDiscards(c) /\ SpliceFails(c)
  <2>1. {"done", "splice dial", "splice check", "peek"} \subseteq SpliceDial \cup {"done"}
    BY DEF SpliceDial
  <2>2. CASE SpliceStarts(c)
    <3>1. (DialGoes(c, "done") \/ DialGoes(c, "splice dial")) /\ up' = up
      BY <2>2 DEF SpliceStarts
    <3> QED
      BY <1>4, <2>1, <3>1
  <2>3. CASE SpliceDials(c)
    <3>1. \/ DialGoes(c, "splice check") /\ up' = [up EXCEPT ![c].at = "dialed"]
          \/ DialEnds(c) /\ up' = up
      BY <2>3 DEF SpliceDials
    <3> QED
      BY <1>4, <2>1, <3>1
  <2>4. CASE SpliceFails(c)
    <3>1. DialEnds(c) /\ up' = [up EXCEPT ![c].at = "closed"]
      BY <2>4 DEF SpliceFails
    <3> QED
      BY <1>4, <2>1, <3>1
  <2>5. CASE SpliceChecks(c) /\ ~SpliceFails(c)
    <3>1. \/ DialGoes(c, "done") /\ up' = [up EXCEPT ![c].at = "closed"]
          \/ DialGoes(c, "peek") /\ up' = up
      BY <2>5 DEF SpliceChecks
    <3> QED
      BY <1>4, <2>1, <3>1
  <2> QED
    BY <1>5, <2>2, <2>3, <2>4, <2>5
<1>6. CASE SplicePeeks(c)
  <2> DEFINE n == Len(x.in)
             y == [x EXCEPT !.snap = n, !.dial = "publish"]
  <2>1. cx' = [cx EXCEPT ![c] = y] /\ up' = up
    BY <1>0, <1>6 DEF SplicePeeks
  <2> HIDE DEF n
  <2>2. /\ Stands(x, y) /\ y.dec = x.dec
        /\ y.drain = x.drain /\ y.dial = "publish"
    BY <1>0 DEF Stands, XFields
  <2> HIDE DEF y
  <2>3. y.dial \in SpliceDial
    BY <2>2 DEF SpliceDial
  <2>4. ASSUME FlowOK(x, u, s) PROVE FlowOK(y, u, s)
    BY <1>0, <1>2, <1>3, <2>2, <2>3, <2>4, SpliceDialOK
  <2> QED
    BY <1>0, <1>2, <2>1, <2>4, StepFlow
<1>7. CASE SetSpliceConn(c)
  <2> DEFINE v == [u EXCEPT !.at = "open"]
             y == [x EXCEPT !.spliced = TRUE, !.dial = "discard"]
  <2>1. cx' = [cx EXCEPT ![c] = y] /\ up' = [up EXCEPT ![c] = v]
    BY <1>0, <1>7 DEF SetSpliceConn
  <2>2. DOMAIN v = UFields /\ Carries(u, v)
    BY <1>1
  <2>3. /\ Stands(x, y) /\ y.dec = x.dec
        /\ y.drain = x.drain /\ y.dial = "discard"
    BY <1>0 DEF Stands, XFields
  <2> HIDE DEF y, v
  <2>4. y.dial \in SpliceDial
    BY <2>3 DEF SpliceDial
  <2>5. ASSUME FlowOK(x, u, s) PROVE FlowOK(y, v, s)
    BY <1>2, <1>3, <2>2, <2>3, <2>4, <2>5, SpliceDialOK
  <2> QED
    BY <1>2, <2>1, <2>2, <2>5, StepFlow
<1>8. CASE SpliceDiscards(c) /\ ~SpliceFails(c)
  <2> DEFINE q == SubSeq(x.in, x.snap + 1, Len(x.in))
             y == [x EXCEPT !.in = q, !.snap = 0, !.dial = "reader"]
  <2>1. cx' = [cx EXCEPT ![c] = y] /\ up' = up
    BY <1>0, <1>8 DEF SpliceDiscards, XFields
  <2> HIDE DEF q
  <2>2. /\ Stands(x, y) /\ y.dec = x.dec
        /\ y.drain = x.drain /\ y.dial = "reader"
    BY <1>0 DEF Stands, XFields
  <2> HIDE DEF y
  <2>3. y.dial \in SpliceDial
    BY <2>2 DEF SpliceDial
  <2>4. ASSUME FlowOK(x, u, s) PROVE FlowOK(y, u, s)
    BY <1>0, <1>2, <1>3, <2>2, <2>3, <2>4, SpliceDialOK
  <2> QED
    BY <1>0, <1>2, <2>1, <2>4, StepFlow
<1> QED
  BY <1>5, <1>6, <1>7, <1>8 DEF DialSplice

(* relaySpliceToClientLoop asks for a drain when it has read it all.       *)
LEMMA ReaderFlow ==
  ASSUME IInv, FlowInv, NEW c \in Conns, Reader(c) \/ ReaderResumes(c)
  PROVE  FlowInv'
<1> DEFINE x == cx[c]
           u == up[c]
           s == env.max.script[c]
<1>0. /\ DOMAIN cx = Conns /\ DOMAIN x = XFields /\ DOMAIN u = UFields
      /\ Carries(u, u) /\ env' = env
  BY FlowFacts DEF Carries, Reader, ReaderResumes
<1>1. x.dial \in {"reader", "throttled"} /\ x.dial \in SpliceDial
  BY DEF Reader, ReaderResumes, Dialing, SpliceDial
<1>2. x.at # "new"
  BY <1>1, FlowFacts DEF ConnSound
<1>3. CASE ReaderResumes(c)
  <2>1. DialGoes(c, "reader") /\ up' = up
    BY <1>3 DEF ReaderResumes
  <2>2. "reader" \in SpliceDial \cup {"done"}
    BY DEF SpliceDial
  <2> QED
    BY <1>0, <1>1, <2>1, <2>2, GoesFlow
<1>4. ASSUME NEW z, DOMAIN z = XFields, Stands(x, z), z.dec = x.dec,
             z.dial = x.dial, z.drain = x.drain \/ (z.drain = "requested" /\ u.in = <<>>),
             ReaderEnds(c, z)
      PROVE  FlowInv'
  <2> DEFINE y == [z EXCEPT !.dial = "done"]
             v == [u EXCEPT !.at = "closed"]
  <2>1. cx' = [cx EXCEPT ![c] = y] /\ up' = [up EXCEPT ![c] = v]
    BY <1>4 DEF ReaderEnds
  <2>2. DOMAIN v = UFields /\ Carries(u, v) /\ v.at = "closed"
    BY <1>0 DEF UFields, Carries
  <2>3. /\ Stands(x, y) /\ y.dec = x.dec /\ y.dial = "done" /\ y.drain = z.drain
    BY <1>4 DEF Stands, XFields
  <2> HIDE DEF y, v
  <2>4. ASSUME FlowOK(x, u, s) PROVE FlowOK(y, v, s)
    BY <1>1, <1>2, <1>4, <2>2, <2>3, <2>4, SpliceDialOK
  <2> QED
    BY <1>0, <2>1, <2>2, <2>4, StepFlow
<1>5. CASE Reader(c)
  <2>1. \/ ReaderEnds(c, x) \/ ReaderEnds(c, Kill(x))
        \/ u.in = <<>> /\ ReaderEnds(c, DrainRequested(x))
        \/ /\ cx' = [cx EXCEPT ![c].dial = "throttled", ![c].sample = TRUE]
           /\ up' = up
        \/ \E n \in 1..Len(u.in) :
             /\ up' = [up EXCEPT ![c].in = SubSeq(@, n + 1, Len(@))]
             /\ cx' = [cx EXCEPT ![c] =
                  [WriteToClient(x, SubSeq(u.in, 1, n)) EXCEPT !.flow = @ + n]]
    BY <1>5 DEF Reader, ReaderReads
  <2>2. CASE ReaderEnds(c, x)
    <3>1. Stands(x, x)
      BY DEF Stands
    <3> QED
      BY <1>0, <1>4, <2>2, <3>1
  <2>3. CASE ReaderEnds(c, Kill(x))
    <3> DEFINE z == Kill(x)
    <3>1. /\ DOMAIN z = XFields /\ Stands(x, z) /\ z.dec = x.dec
          /\ z.dial = x.dial /\ z.drain = x.drain
      BY <1>0 DEF Stands, Kill, XFields
    <3> HIDE DEF z
    <3> QED
      BY <1>4, <2>3, <3>1 DEF z
  <2>4. CASE u.in = <<>> /\ ReaderEnds(c, DrainRequested(x))
    <3> DEFINE z == DrainRequested(x)
    <3>1. /\ DOMAIN z = XFields /\ Stands(x, z) /\ z.dec = x.dec
          /\ z.dial = x.dial /\ z.drain = "requested"
      BY <1>0 DEF Stands, DrainRequested, XFields
    <3> HIDE DEF z
    <3> QED
      BY <1>4, <2>4, <3>1 DEF z
  <2>5. CASE /\ cx' = [cx EXCEPT ![c].dial = "throttled", ![c].sample = TRUE]
             /\ up' = up
    <3> DEFINE y == [x EXCEPT !.dial = "throttled", !.sample = TRUE]
    <3>1. cx' = [cx EXCEPT ![c] = y]
      BY <1>0, <2>5
    <3>2. /\ Stands(x, y) /\ y.dec = x.dec /\ y.drain = x.drain
          /\ y.dial = "throttled"
      BY <1>0 DEF Stands, XFields
    <3> HIDE DEF y
    <3>3. y.dial \in SpliceDial
      BY <3>2 DEF SpliceDial
    <3>4. ASSUME FlowOK(x, u, s) PROVE FlowOK(y, u, s)
      BY <1>0, <1>1, <1>2, <3>2, <3>3, <3>4, SpliceDialOK
    <3> QED
      BY <1>0, <2>5, <3>1, <3>4, StepFlow
  <2>6. ASSUME NEW n \in 1..Len(u.in),
               up' = [up EXCEPT ![c].in = SubSeq(@, n + 1, Len(@))],
               cx' = [cx EXCEPT ![c] =
                  [WriteToClient(x, SubSeq(u.in, 1, n)) EXCEPT !.flow = @ + n]]
        PROVE  FlowInv'
    <3> DEFINE rest == SubSeq(u.in, n + 1, Len(u.in))
               a == SubSeq(u.in, 1, n)
               v == [u EXCEPT !.in = rest]
               w == WriteToClient(x, a)
               y == [w EXCEPT !.flow = @ + n]
    <3>1. up' = [up EXCEPT ![c] = v] /\ cx' = [cx EXCEPT ![c] = y]
      BY <2>6
    <3> HIDE DEF rest, a
    <3>2. DOMAIN v = UFields /\ v.in = rest /\ v.sent = u.sent /\ v.at = u.at
          /\ v.got = u.got
      BY <1>0 DEF UFields
    <3> HIDE DEF v
    <3>3. /\ DOMAIN w = XFields
          /\ w.hi = IF x.at = "open" THEN Append(x.hi, a) ELSE x.hi
          /\ w.dial = x.dial /\ w.mode = x.mode /\ w.got = x.got
          /\ w.drain = x.drain /\ w.sent = x.sent /\ w.pending = x.pending
          /\ w.at = x.at /\ w.st = x.st /\ w.in = x.in /\ w.dec = x.dec
      <4>1. CASE x.at # "open"
        BY <1>0, <4>1 DEF WriteToClient
      <4>2. CASE x.at = "open"
        <5>1. w = [x EXCEPT !.hi = Append(@, a)]
          BY <4>2 DEF WriteToClient
        <5> QED
          BY <1>0, <4>2, <5>1 DEF XFields
      <4> QED
        BY <4>1, <4>2
    <3> HIDE DEF w
    <3>4. /\ y.hi = w.hi /\ y.dial = w.dial /\ y.mode = w.mode /\ y.got = w.got
          /\ y.drain = w.drain /\ y.sent = w.sent /\ y.pending = w.pending
          /\ y.at = w.at /\ y.st = w.st /\ y.in = w.in /\ y.dec = w.dec
      BY <3>3 DEF XFields
    <3> HIDE DEF y
    <3>5. ASSUME FlowOK(x, u, s) PROVE FlowOK(y, v, s)
      <4>1. u.in \in Seq(Nat)
        BY <3>5 DEF FlowOK, Down
      <4>2. x.drain \notin {"requested", "draining", "done"}
        BY <1>1, <3>5 DEF FlowOK, Draining
      <4>3. n \in 0..Len(u.in)
        BY <4>1
      <4>4. /\ v.in = SubSeq(u.in, n + 1, Len(u.in))
            /\ y.hi = IF x.at = "open" THEN Append(x.hi, SubSeq(u.in, 1, n)) ELSE x.hi
        BY <3>2, <3>3, <3>4 DEF rest, a
      <4> QED
        BY <1>2, <3>2, <3>3, <3>4, <3>5, <4>2, <4>3, <4>4, WritesOK
    <3> QED
      BY <1>0, <3>1, <3>2, <3>5, StepFlow
  <2> QED
    BY <2>1, <2>2, <2>3, <2>4, <2>5, <2>6
<1> QED
  BY <1>3, <1>5

-----------------------------------------------------------------------------
(* OnClose sets the state and drops what is queued.                        *)
LEMMA CloseBeginsFlow ==
  ASSUME IInv, FlowInv, NEW c \in Conns, CloseBegins(c)
  PROVE  FlowInv'
<1> DEFINE x == cx[c]
           u == up[c]
           s == env.max.script[c]
           d == IF x.drain \in {"requested", "draining"} THEN "cancelled" ELSE x.drain
           f == FinishSpliceDrain(x, d)
           y == [f EXCEPT !.at = "ending", !.st = "closed", !.kill = FALSE,
                          !.wake = FALSE, !.in = <<>>, !.hi = <<>>, !.out = 0,
                          !.sample = FALSE]
<1>0. DOMAIN x = XFields /\ DOMAIN u = UFields /\ env' = env /\ up' = up
  BY FlowFacts DEF CloseBegins
<1>1. cx' = [cx EXCEPT ![c] = y]
  BY DEF CloseBegins
<1>2. d = x.drain \/ d = "cancelled"
  OBVIOUS
<1> HIDE DEF d
<1>3. /\ y.at = "ending" /\ y.st = "closed" /\ y.hi = <<>> /\ y.out = 0
      /\ y.drain = d /\ y.dial = x.dial /\ y.mode = x.mode /\ y.got = x.got
      /\ y.sent = x.sent /\ y.pending = x.pending /\ y.dec = x.dec
  BY <1>0 DEF XFields, FinishSpliceDrain
<1> HIDE DEF y, f
<1>4. ASSUME FlowOK(x, u, s) PROVE FlowOK(y, u, s)
  <2>1. ~Starting(y)
    BY <1>3 DEF Starting
  <2>2. Phase(y)
    BY <1>3 DEF Phase, Before, Routed
  <2>3. Down(y, u)
    BY <1>3, <1>4, <2>1, DownKept DEF FlowOK
  <2>4. Draining(y, u)
    BY <1>2, <1>3, <1>4, DrainKept DEF FlowOK
  <2>5. NothingPending(s) => Upward(y, u, s)
    <3> SUFFICES ASSUME NothingPending(s) PROVE Upward(y, u, s)
      OBVIOUS
    <3>1. Upward(x, u, s) /\ x.dec \in Nat
      BY <1>4 DEF FlowOK, Upward
    <3> QED
      BY <1>3, <2>1, <3>1, UpKept
  <2> QED
    BY <2>2, <2>3, <2>4, <2>5 DEF FlowOK
<1> QED
  BY <1>0, <1>1, <1>4, StepFlow

(* OnClose closes the other side.                                          *)
LEMMA CloseEndsFlow ==
  ASSUME IInv, FlowInv, NEW c \in Conns, CloseEnds(c)
  PROVE  FlowInv'
<1> DEFINE x == cx[c]
           u == up[c]
           s == env.max.script[c]
           k == u.kill \/ x.relay
           a == IF x.spliced THEN "closed" ELSE u.at
           v == [u EXCEPT !.kill = k, !.at = a]
           y == [x EXCEPT !.at = "closed", !.cipher = FALSE, !.ipKey = NoKey,
                          !.secretKey = NoKey, !.user = NoIP, !.timer = FALSE]
<1>0. /\ DOMAIN x = XFields /\ DOMAIN u = UFields /\ env' = env
      /\ DOMAIN cx = Conns /\ DOMAIN up = Conns /\ x.at = "ending"
  BY FlowFacts DEF CloseEnds
<1>1. up' = [up EXCEPT ![c] = v]
  BY <1>0 DEF CloseEnds, UFields
<1>2. cx' = [cx EXCEPT ![c] = y]
  BY <1>0 DEF CloseEnds, XFields
<1>3. a = u.at \/ a = "closed"
  OBVIOUS
<1> HIDE DEF a, k
<1>4. DOMAIN v = UFields /\ v.sent = u.sent /\ v.in = u.in /\ v.got = u.got
      /\ v.at = a
  BY <1>0 DEF UFields
<1>5. Rides(x, y) /\ y.at = "closed" /\ y.st = x.st /\ y.dec = x.dec
  BY <1>0 DEF XFields, Rides
<1> HIDE DEF y, v
<1>6. ASSUME FlowOK(x, u, s) PROVE FlowOK(y, v, s)
  <2>1. ~Starting(y)
    BY <1>5 DEF Starting
  <2>2. Phase(y)
    BY <1>5, <1>6 DEF FlowOK, Phase, Rides
  <2>3. Down(y, v)
    BY <1>4, <1>5, <1>6, <2>1, DownKept DEF FlowOK, Rides
  <2>4. Draining(y, v)
    BY <1>3, <1>4, <1>5, <1>6, DrainKept DEF FlowOK, Rides
  <2>5. NothingPending(s) => Upward(y, v, s)
    <3> SUFFICES ASSUME NothingPending(s) PROVE Upward(y, v, s)
      OBVIOUS
    <3>1. Upward(x, u, s) /\ x.dec \in Nat
      BY <1>6 DEF FlowOK, Upward
    <3> QED
      BY <1>4, <1>5, <2>1, <3>1, UpKept DEF Rides
  <2> QED
    BY <2>2, <2>3, <2>4, <2>5 DEF FlowOK
<1> QED
  BY <1>0, <1>1, <1>2, <1>4, <1>6, StepFlow

-----------------------------------------------------------------------------
(* A new connection: all of its stream is left.                            *)
LEMMA NewStream ==
  ASSUME NEW s \in Seq(Pieces), NothingPending(s), IsPrefixOfStream(Payload(s)),
         \A i, j \in DOMAIN s : i < j /\ s[i].k = "dd" => s[j].k = "data"
  PROVE  /\ Tidy(Rest(<<>>, 0, s)) /\ Plainly(Rest(<<>>, 0, s))
         /\ Payload(Rest(<<>>, 0, s)) = Run(0, Len(Payload(s)))
         /\ Len(Payload(s)) \in Nat
<1>1. <<>> \in Seq(Pieces) /\ Len(<<>>) = 0 /\ Len(s) \in Nat /\ DOMAIN s = 1..Len(s)
  OBVIOUS
<1> DEFINE q == <<>>
           k == 0
           r == Rest(q, k, s)
<1>a. q \in Seq(Pieces) /\ k \in 0..Len(s) /\ Len(q) = 0 /\ k = 0
  BY <1>1
<1> HIDE DEF q, k
<1>2. /\ r \in Seq(Pieces) /\ Len(r) = Len(q) + (Len(s) - k)
      /\ \A i \in 1..(Len(s) - k) : r[Len(q) + i] = s[k + i]
  BY <1>a, RestParts
<1> HIDE DEF r
<1>3. Len(r) = Len(s) /\ \A i \in 1..Len(s) : r[i] = s[i]
  BY <1>a, <1>1, <1>2
<1>4. r = s
  BY <1>2, <1>3, SameSequence
<1>5. Tidy(s) /\ Plainly(s)
  BY <1>1 DEF Tidy, Plainly, NothingPending
<1>6. Payload(s) \in Seq(Int)
  BY PayloadLaw
<1> DEFINE p == Payload(s)
           n == Len(p)
<1>7. \A i \in 1..n : p[i] = i
  BY <1>6 DEF IsPrefixOfStream
<1>8. n \in Nat
  BY <1>6
<1>9. p = Run(0, n)
  <2>1. p = [i \in 1..n |-> p[i]]
    BY <1>6
  <2> HIDE DEF p, n
  <2>2. n - 0 = n /\ \A i \in 1..n : 0 + i = i
    BY <1>8
  <2>3. Run(0, n) = [i \in 1..n |-> i]
    BY <2>2 DEF Run
  <2> QED
    BY <1>7, <2>1, <2>3
<1> QED
  BY <1>4, <1>5, <1>8, <1>9 DEF r, q, k

(* The invariant holds in the beginning.                                   *)
LEMMA FlowInit == Init => FlowInv
<1> SUFFICES ASSUME Init PROVE FlowInv
  OBVIOUS
<1>1. PICK m \in Scenarios : /\ cx = [c \in Conns |-> NewConn]
                             /\ up = [c \in Conns |-> NewUpstream]
                             /\ env = [max |-> m]
  BY DEF Init
<1>2. env.max = m
  BY <1>1
<1>3. DOMAIN NewUpstream = UFields
  BY DEF NewUpstream, UFields
<1>4. ASSUME NEW c \in DOMAIN env.max.script
      PROVE  FlowOK(cx[c], up[c], env.max.script[c])
  <2> DEFINE s == m.script[c]
             x == NewConn
             u == NewUpstream
  <2>1. c \in Conns /\ s \in Seq(Pieces)
    BY <1>2, <1>4, ScenarioAssumption
  <2>2. cx[c] = x /\ up[c] = u /\ env.max.script[c] = s
    BY <1>1, <1>2, <2>1
  <2>3. /\ x.at = "new" /\ x.st = "detect" /\ x.dial = "off" /\ x.mode = "ee"
        /\ x.hi = <<>> /\ x.got = <<>> /\ x.drain = "no" /\ x.pending = <<>>
        /\ x.dec = 0 /\ x.in = <<>> /\ x.sent = 0
        /\ u.sent = 0 /\ u.in = <<>> /\ u.got = <<>> /\ u.at = "none"
    BY DEF NewConn, NewUpstream
  <2>4. /\ NothingPending(s) => IsPrefixOfStream(Payload(s))
        /\ \A i, j \in DOMAIN s : i < j /\ s[i].k = "dd" => s[j].k = "data"
    BY <1>2, <1>4, StreamAssumption
  <2>5. /\ <<>> \in Seq(Seq(Nat)) /\ <<>> \in Seq(Nat) /\ <<>> \in Seq(Int)
        /\ <<>> \in Seq(Pieces) /\ Len(<<>>) = 0 /\ 0 \in Nat
    OBVIOUS
  <2>6. <<>> = Run(0, 0)
    BY RunEmpty
  <2> HIDE DEF s, x, u
  <2>7. Phase(x)
    BY <2>3 DEF Phase, Before, Routed, SpliceDial, DCDial
  <2>8. Down(x, u)
    BY <2>3, <2>5, <2>6, TransitStarts DEF Down
  <2>9. Draining(x, u)
    BY <2>3 DEF Draining
  <2>10. ASSUME NothingPending(s) PROVE Upward(x, u, s)
    <3>1. /\ Tidy(Rest(<<>>, 0, s)) /\ Plainly(Rest(<<>>, 0, s))
          /\ Payload(Rest(<<>>, 0, s)) = Run(0, Len(Payload(s)))
          /\ Len(Payload(s)) \in Nat
      BY <2>1, <2>4, <2>10, NewStream
    <3>2. 0 \in 0..Len(s) /\ 0 <= Len(Payload(s))
      BY <2>1, <3>1
    <3>3. Stream(x, s)
      BY <2>3, <2>5, <3>1, <3>2 DEF Stream
    <3> QED
      BY <2>3, <2>5, <2>6, <3>3 DEF Upward
  <2>11. FlowOK(x, u, s)
    BY <2>7, <2>8, <2>9, <2>10 DEF FlowOK
  <2> QED
    BY <2>2, <2>11
<1> QED
  BY <1>1, <1>3, <1>4 DEF FlowInv

(* Every step keeps it.                                                    *)
LEMMA FlowNext == IInv /\ FlowInv /\ [Next]_vars => FlowInv'
<1> SUFFICES ASSUME IInv, FlowInv, [Next]_vars PROVE FlowInv'
  OBVIOUS
<1>1. CASE UNCHANGED vars
  BY <1>1, StillFlow DEF vars
<1>2. ASSUME NEW c \in Conns, Turn(c) PROVE FlowInv'
  BY <1>2, HandshakeFlow, RelayFlow, RelayDDFlow, SpliceFlow DEF Turn
<1>3. ASSUME NEW c \in Conns, Queued(c) PROVE FlowInv'
  BY <1>3, WriteRunsFlow, UnseenFlow, BeginDrainFlow, DeadlineFlow DEF Queued
<1>4. ASSUME NEW c \in Conns, Goroutine(c) PROVE FlowInv'
  BY <1>4, DialDCFlow, DialSpliceFlow, ReaderFlow DEF Goroutine
<1>5. ASSUME NEW c \in Conns, Peers(c) PROVE FlowInv'
  BY <1>5, ClientSendsFlow, ReadsFlow, UpstreamFlow DEF Peers
<1>6. ASSUME NEW c \in Conns,
             \/ OnOpen(c) \/ OnTraffic(c)
             \/ HandleDCTraffic(c) \/ DCCloses(c) \/ CloseBegins(c) \/ CloseEnds(c)
             \/ HandshakeTimeout(c) \/ OnTick(c) \/ DrainWakes(c)
             \/ DeadlineFires(c)
      PROVE  FlowInv'
  BY <1>6, OpenFlow, UnseenFlow, DCTrafficFlow, DCClosesFlow, CloseBeginsFlow,
     CloseEndsFlow
<1>7. CASE (\E ip \in IPs : BlockExpires(ip)) \/ \E s \in h.seen : SessionExpires(s)
  BY <1>7, StillFlow DEF BlockExpires, SessionExpires
<1> QED
  BY <1>1, <1>2, <1>3, <1>4, <1>5, <1>6, <1>7 DEF Next

(* It says what was to be shown.                                           *)
LEMMA FlowFaithful == FlowInv => RelayIsFaithful
<1> SUFFICES ASSUME FlowInv, NEW c \in DOMAIN env.max.script
             PROVE  /\ IsPrefixOfStream(cx[c].got)
                    /\ Ordered(c) => IsPrefixOfStream(up[c].got)
                    /\ cx[c].drain = "done" =>
                         cx[c].out = 0 /\ cx[c].hi = <<>> /\ Len(cx[c].got) = up[c].sent
  BY DEF RelayIsFaithful
<1> DEFINE x == cx[c]
           u == up[c]
           s == env.max.script[c]
<1>1. FlowOK(x, u, s)
  BY DEF FlowInv
<1>2. ASSUME NEW E, NEW q \in Seq(E), q = Run(0, Len(q))
      PROVE  IsPrefixOfStream(q)
  <2> DEFINE n == Len(q)
  <2>1. n \in Nat
    OBVIOUS
  <2>2. q = Run(0, n)
    BY <1>2
  <2> HIDE DEF n
  <2>3. DOMAIN Run(0, n) = 1..n /\ \A i \in 1..n : Run(0, n)[i] = i
    BY <2>1 DEF Run
  <2> QED
    BY <2>2, <2>3 DEF IsPrefixOfStream
<1>3. IsPrefixOfStream(x.got)
  BY <1>1, <1>2 DEF FlowOK, Down
<1>4. Ordered(c) => IsPrefixOfStream(u.got)
  <2>1. ASSUME Ordered(c) PROVE IsPrefixOfStream(u.got)
    <3>1. NothingPending(s) /\ Short(x, s)
      BY <2>1 DEF Ordered, Short
    <3>2. u.got \in Seq(Int) /\ u.got = Run(0, Len(u.got))
      BY <1>1, <3>1 DEF FlowOK, Upward
    <3> QED
      BY <1>2, <3>2
  <2> QED
    BY <2>1
<1>5. x.drain = "done" => x.out = 0 /\ x.hi = <<>> /\ Len(x.got) = u.sent
  BY <1>1 DEF FlowOK, Draining
<1> QED
  BY <1>3, <1>4, <1>5

(* What the data centre and the client receive is a prefix of what the     *)
(* other end sent, and all of it after a drain, for any connections, any   *)
(* buffer limits and any scripts of the peers.                             *)
THEOREM RelayIsFaithfulHolds == Spec => []RelayIsFaithful
<1>1. Init => IInv /\ FlowInv
  BY InitInv, FlowInit
<1>2. IInv /\ FlowInv /\ [Next]_vars => (IInv /\ FlowInv)'
  BY NextInv, FlowNext
<1> QED
  BY <1>1, <1>2, FlowFaithful, PTL DEF Spec
===============================================================================
