----------------------- MODULE MiddleEndFrontend_proofs -----------------------
(***************************************************************************)
(* Proofs about the Middle-End frontend, for any finite set of clients,    *)
(* any limits the configuration accepts and any scenario of the source and *)
(* the clients.                                                            *)
(***************************************************************************)
EXTENDS MCFrontend, Data_proofs

CFields == {"stage", "route", "token", "pc", "wake", "kill", "inb", "waiting",
            "await", "drain", "out", "inAcc", "outAcc", "held", "processed",
            "evicting", "timer", "deadline"}
BFields == {"bound", "closed", "ev", "res", "req", "term", "observed",
            "leased", "mode"}
FFields == {"inBud", "outBud", "pc", "at", "stopped", "fallbacks"}

Packets == {"pkt"} \cup env.max.packets

(* A client: it accounts for at least the output it has, a reservation is  *)
(* held exactly for the event about to be written, and a turn is only      *)
(* taken by a client with a route.                                         *)
ClientSound(x, P) ==
  /\ DOMAIN x = CFields
  /\ x.inb \in Seq(P) /\ x.inAcc \in Nat
  /\ x.out \in Nat /\ x.outAcc \in Nat /\ x.out <= x.outAcc
  /\ x.held = IF x.pc = "event" THEN MaxEncoded ELSE 0
  /\ x.pc # "idle" => x.stage = "me"
  /\ x.route = (x.stage = "me")

(* A client and its binding: a fallback was never bound; a bound client is *)
(* never one, and once it is closed its binding has nothing left.          *)
BindingSound(c, F, x, b, q) ==
  /\ DOMAIN b = BFields
  /\ c \in F => x.stage = "direct"
  /\ b.bound => x.stage \notin {"new", "direct"}
  /\ b.bound /\ x.stage = "closed" =>
       b.closed /\ ~HasReason(b) /\ ~b.leased /\ c \notin Elements(q)

SourceShape(S) ==
  /\ DOMAIN S = {"b", "q", "sig", "done"}
  /\ DOMAIN S.b = Clients /\ S.q \in Seq(Clients)
  /\ \A c \in Clients : DOMAIN S.b[c] = BFields

FrontendShape(F) ==
  /\ DOMAIN F = FFields /\ (F.pc \in {"wake", "ack"} => F.at \in Clients)

InOf(C) == [c \in Clients |-> C[c].inAcc]
OutOf(C) == [c \in Clients |-> C[c].outAcc + C[c].held]

BudgetsSound(F, C) ==
  /\ F.inBud = SumOf(InOf(C)) /\ F.outBud = SumOf(OutOf(C))
  /\ F.outBud <= OutputTotal

IInv ==
  /\ FrontendShape(f) /\ SourceShape(src)
  /\ DOMAIN cl = Clients /\ \A c \in Clients : ClientSound(cl[c], Packets)
  /\ \A c \in Clients :
       BindingSound(c, f.fallbacks, cl[c], src.b[c], src.q)
  /\ BudgetsSound(f, cl)
  /\ DOMAIN env = {"max", "sent", "answered"} /\ env.max \in Scenarios

-----------------------------------------------------------------------------
(* What a step for client c does to the source: the other bindings stay,   *)
(* nobody else is queued, and the binding stays bound or unbound.          *)
SourceStep(S, T, c) ==
  /\ SourceShape(T)
  /\ \A d \in Clients \ {c} : T.b[d] = S.b[d]
  /\ T.b[c].bound = S.b[c].bound
  /\ Elements(T.q) \subseteq Elements(S.q) \cup {c}

LEMMA AppendElements ==
  ASSUME NEW E, NEW s \in Seq(E), NEW e \in E
  PROVE  Append(s, e) \in Seq(E) /\ Elements(Append(s, e)) = Elements(s) \cup {e}
<1>1. /\ Len(Append(s, e)) = Len(s) + 1 /\ Len(s) \in Nat
      /\ \A j \in 1..Len(s) : Append(s, e)[j] = s[j]
      /\ Append(s, e)[Len(s) + 1] = e
  OBVIOUS
<1>2. 1..Len(s) + 1 = (1..Len(s)) \cup {Len(s) + 1}
  BY <1>1
<1> QED
  BY <1>1, <1>2 DEF Elements

LEMMA SourceStepTransitive ==
  ASSUME NEW S, NEW T, NEW U, NEW c \in Clients,
         SourceStep(S, T, c), SourceStep(T, U, c)
  PROVE  SourceStep(S, U, c)
BY DEF SourceStep

LEMMA SourceStays ==
  ASSUME NEW S, SourceShape(S), NEW c \in Clients
  PROVE  SourceStep(S, S, c)
BY DEF SourceStep

LEMMA BindingChanges ==
  ASSUME NEW S, SourceShape(S), NEW c \in Clients, NEW b,
         DOMAIN b = BFields, b.bound = S.b[c].bound
  PROVE  /\ SourceStep(S, [S EXCEPT !.b[c] = b], c)
         /\ [S EXCEPT !.b[c] = b].b[c] = b
         /\ [S EXCEPT !.b[c] = b].q = S.q
BY DEF SourceStep, SourceShape

LEMMA EnqueueLaw ==
  ASSUME NEW S, SourceShape(S), NEW c \in Clients
  PROVE  /\ SourceStep(S, EnqueueReady(S, c), c)
         /\ EnqueueReady(S, c).b = S.b
<1>1. CASE EnqueueReady(S, c) = S
  BY <1>1, SourceStays
<1>2. CASE EnqueueReady(S, c) = [S EXCEPT !.q = Append(@, c), !.sig = TRUE]
  <2> DEFINE T == EnqueueReady(S, c)
  <2>1. /\ DOMAIN T = DOMAIN S /\ T.b = S.b /\ T.q = Append(S.q, c)
    BY <1>2 DEF SourceShape
  <2>2. T.q \in Seq(Clients) /\ Elements(T.q) = Elements(S.q) \cup {c}
    BY <2>1, AppendElements DEF SourceShape
  <2> QED
    BY <2>1, <2>2 DEF SourceStep, SourceShape
<1> QED
  BY <1>1, <1>2 DEF EnqueueReady

LEMMA UnlinkLaw ==
  ASSUME NEW S, SourceShape(S), NEW c \in Clients
  PROVE  /\ SourceStep(S, UnlinkReady(S, c), c)
         /\ UnlinkReady(S, c).b = S.b
         /\ Elements(UnlinkReady(S, c).q) = Elements(S.q) \ {c}
<1> DEFINE T == UnlinkReady(S, c)
           rest == Excluding(S.q, {c})
<1>1. CASE ~Contains(S.q, c)
  <2>1. T = S /\ c \notin Elements(S.q)
    BY <1>1 DEF UnlinkReady, Contains, Elements
  <2> QED
    BY <2>1, SourceStays
<1>2. CASE Contains(S.q, c)
  <2>1. rest \in Seq(Clients) /\ Elements(rest) = Elements(S.q) \ {c}
    BY ExcludingLaw DEF SourceShape
  <2> HIDE DEF rest
  <2>2. T = [S EXCEPT !.q = rest, !.sig = @ \/ rest # <<>>]
    BY <1>2 DEF UnlinkReady, rest
  <2>3. DOMAIN T = DOMAIN S /\ T.b = S.b /\ T.q = rest
    BY <2>2 DEF SourceShape
  <2> QED
    BY <2>1, <2>3 DEF SourceStep, SourceShape
<1> QED
  BY <1>1, <1>2

LEMMA AckLaw ==
  ASSUME NEW S, SourceShape(S), NEW c \in Clients
  PROVE  SourceStep(S, Ack(S, c), c)
<1> DEFINE T == [S EXCEPT !.b[c].leased = FALSE]
<1>1. SourceStep(S, T, c)
  BY DEF SourceStep, SourceShape, BFields
<1>2. SourceStep(T, EnqueueReady(T, c), c)
  BY <1>1, EnqueueLaw DEF SourceStep
<1> QED
  BY <1>1, <1>2, SourceStepTransitive DEF Ack

(* A closed binding has no reason, no lease and no place in the queue.     *)
LEMMA BeginCloseLaw ==
  ASSUME NEW S, SourceShape(S), NEW c \in Clients
  PROVE  LET T == BeginClose(S, c)
         IN  /\ SourceStep(S, T, c)
             /\ T.b[c].closed /\ ~HasReason(T.b[c]) /\ ~T.b[c].leased
             /\ c \notin Elements(T.q)
<1> DEFINE R == [S EXCEPT !.b[c].closed = TRUE, !.b[c].ev = <<>>,
                          !.b[c].res = "none", !.b[c].req = "none",
                          !.b[c].observed = TRUE]
           U == UnlinkReady(R, c)
           T == [U EXCEPT !.b[c].leased = FALSE]
<1>1. /\ SourceStep(S, R, c)
      /\ R.b[c].closed /\ R.b[c].ev = <<>> /\ R.b[c].res = "none"
      /\ R.b[c].req = "none" /\ R.b[c].observed
  BY DEF SourceStep, SourceShape, BFields
<1> HIDE DEF R
<1>2. /\ SourceStep(R, U, c) /\ U.b = R.b /\ c \notin Elements(U.q)
  <2>1. SourceShape(R)
    BY <1>1 DEF SourceStep
  <2> HIDE DEF U
  <2>2. U = UnlinkReady(R, c)
    BY DEF U
  <2> QED
    BY <2>1, <2>2, UnlinkLaw
<1> HIDE DEF U
<1>3. /\ SourceStep(U, T, c) /\ T.q = U.q
      /\ T.b[c] = [U.b[c] EXCEPT !.leased = FALSE]
  BY <1>2 DEF SourceStep, SourceShape, BFields
<1>4. DOMAIN U.b[c] = BFields
  BY <1>2 DEF SourceStep, SourceShape
<1>5. /\ T.b[c].closed /\ T.b[c].ev = <<>> /\ T.b[c].res = "none"
      /\ T.b[c].req = "none" /\ T.b[c].observed /\ ~T.b[c].leased
  BY <1>1, <1>2, <1>3, <1>4 DEF BFields
<1>6. SourceStep(S, T, c)
  BY <1>1, <1>2, <1>3, SourceStepTransitive
<1>7. BeginClose(S, c) = T
  BY DEF BeginClose, InvalidateReady, R, U
<1> QED
  BY <1>2, <1>3, <1>5, <1>6, <1>7 DEF HasReason

-----------------------------------------------------------------------------
(* The fields of a client that the invariant is about.                     *)
Alike(x, y) ==
  /\ DOMAIN x = DOMAIN y /\ x.inb = y.inb /\ x.inAcc = y.inAcc
  /\ x.out = y.out /\ x.outAcc = y.outAcc /\ x.held = y.held
  /\ x.pc = y.pc /\ x.stage = y.stage /\ x.route = y.route

Accounts(C) ==
  \A d \in Clients : C[d].inAcc \in Nat /\ C[d].outAcc \in Nat /\ C[d].held \in Nat

LEMMA SoundAccounts ==
  ASSUME NEW P, NEW C, \A d \in Clients : ClientSound(C[d], P)
  PROVE  Accounts(C)
BY ConfigAssumption DEF ClientSound, Accounts

(* The sums are natural numbers and move with the client that changes.     *)
LEMMA SumsMove ==
  ASSUME NEW C, NEW D, NEW c \in Clients, Accounts(C), Accounts(D),
         \A d \in Clients \ {c} : Alike(C[d], D[d])
  PROVE  /\ SumOf(InOf(C)) \in Nat /\ SumOf(OutOf(C)) \in Nat
         /\ SumOf(InOf(D)) = SumOf(InOf(C)) - C[c].inAcc + D[c].inAcc
         /\ SumOf(OutOf(D)) = SumOf(OutOf(C)) - (C[c].outAcc + C[c].held)
                                + (D[c].outAcc + D[c].held)
<1>1. IsFiniteSet(Clients)
  BY ConfigAssumption
<1>3. /\ InOf(C) \in [Clients -> Nat] /\ InOf(D) \in [Clients -> Nat]
      /\ OutOf(C) \in [Clients -> Nat] /\ OutOf(D) \in [Clients -> Nat]
  BY DEF InOf, OutOf, Accounts
<1>4. \A d \in Clients \ {c} : /\ InOf(D)[d] = InOf(C)[d]
                               /\ OutOf(D)[d] = OutOf(C)[d]
  BY DEF InOf, OutOf, Alike
<1>5. SumOf(InOf(C)) \in Nat /\ SumOf(OutOf(C)) \in Nat
  BY <1>1, <1>3, UnitsFinite
<1>6. SumOf(InOf(D)) = SumOf(InOf(C)) - InOf(C)[c] + InOf(D)[c]
  BY <1>1, <1>3, <1>4, SumUpdate
<1>7. SumOf(OutOf(D)) = SumOf(OutOf(C)) - OutOf(C)[c] + OutOf(D)[c]
  BY <1>1, <1>3, <1>4, SumUpdate
<1> QED
  BY <1>5, <1>6, <1>7 DEF InOf, OutOf

(* A step for client c keeps the invariant when its own record and binding *)
(* stay sound and the budgets follow its account; the flags of the others  *)
(* may change.                                                             *)
LEMMA OneClient ==
  ASSUME IInv, NEW c \in Clients,
         FrontendShape(f'), f'.fallbacks \ {c} = f.fallbacks \ {c},
         DOMAIN cl' = Clients, env'.max = env.max,
         DOMAIN env' = {"max", "sent", "answered"},
         \A d \in Clients \ {c} : Alike(cl[d], cl'[d]),
         SourceShape(src'),
         \A d \in Clients \ {c} : src'.b[d] = src.b[d],
         Elements(src'.q) \subseteq Elements(src.q) \cup {c},
         ClientSound(cl'[c], Packets),
         BindingSound(c, f'.fallbacks, cl'[c], src'.b[c], src'.q),
         f'.inBud = f.inBud - cl[c].inAcc + cl'[c].inAcc,
         f'.outBud = f.outBud - (cl[c].outAcc + cl[c].held)
                       + (cl'[c].outAcc + cl'[c].held),
         f'.outBud <= OutputTotal
  PROVE  IInv'
<1>1. Packets' = Packets
  BY DEF Packets
<1>2. \A d \in Clients : ClientSound(cl'[d], Packets)
  <2> SUFFICES ASSUME NEW d \in Clients \ {c} PROVE ClientSound(cl'[d], Packets)
    OBVIOUS
  <2>1. ClientSound(cl[d], Packets) /\ Alike(cl[d], cl'[d])
    BY DEF IInv
  <2> QED
    BY <2>1 DEF ClientSound, Alike
<1>3. \A d \in Clients :
        BindingSound(d, f'.fallbacks, cl'[d], src'.b[d], src'.q)
  <2> SUFFICES ASSUME NEW d \in Clients \ {c}
               PROVE  BindingSound(d, f'.fallbacks, cl'[d], src'.b[d], src'.q)
    OBVIOUS
  <2>1. /\ BindingSound(d, f.fallbacks, cl[d], src.b[d], src.q)
        /\ cl'[d].stage = cl[d].stage /\ src'.b[d] = src.b[d]
        /\ (d \in f'.fallbacks <=> d \in f.fallbacks)
        /\ (d \in Elements(src'.q) => d \in Elements(src.q))
    BY DEF IInv, Alike
  <2> QED
    BY <2>1 DEF BindingSound
<1>4. BudgetsSound(f', cl')
  <2>1. Accounts(cl) /\ Accounts(cl')
    BY <1>2, SoundAccounts DEF IInv
  <2>2. /\ SumOf(InOf(cl')) = SumOf(InOf(cl)) - cl[c].inAcc + cl'[c].inAcc
        /\ SumOf(OutOf(cl')) = SumOf(OutOf(cl)) - (cl[c].outAcc + cl[c].held)
                                 + (cl'[c].outAcc + cl'[c].held)
    BY <2>1, SumsMove
  <2>3. f.inBud = SumOf(InOf(cl)) /\ f.outBud = SumOf(OutOf(cl))
    BY DEF IInv, BudgetsSound
  <2> QED
    BY <2>2, <2>3 DEF BudgetsSound
<1> QED
  BY <1>1, <1>2, <1>3, <1>4 DEF IInv

(* What the invariant says of one client, with numbers the provers need.   *)
LEMMA ClientFacts ==
  ASSUME IInv, NEW c \in Clients
  PROVE  /\ ClientSound(cl[c], Packets)
         /\ BindingSound(c, f.fallbacks, cl[c], src.b[c], src.q)
         /\ cl[c].inAcc \in Nat /\ cl[c].outAcc \in Nat /\ cl[c].held \in Nat
         /\ f.inBud \in Nat /\ f.outBud \in Nat /\ f.outBud <= OutputTotal
         /\ OutputTotal \in Nat /\ MaxEncoded \in Nat /\ InputTotal \in Nat
         /\ FrontendShape(f) /\ SourceShape(src) /\ DOMAIN cl = Clients
         /\ DOMAIN env = {"max", "sent", "answered"}
<1>1. Accounts(cl) /\ \A d \in Clients : Alike(cl[d], cl[d])
  BY SoundAccounts DEF IInv, Alike
<1>2. SumOf(InOf(cl)) \in Nat /\ SumOf(OutOf(cl)) \in Nat
  BY <1>1, SumsMove
<1>3. OutputTotal \in Nat /\ MaxEncoded \in Nat /\ InputTotal \in Nat
  BY ConfigAssumption
<1> QED
  BY <1>2, <1>3 DEF IInv, ClientSound, BudgetsSound

(* A connection that closes returns what it accounted for, and with a      *)
(* route its binding is closed.                                            *)
LEMMA ClosesLaw ==
  ASSUME IInv, NEW c \in Clients, NEW F, NEW C, NEW S, Closes(F, C, S, c),
         DOMAIN F = FFields, F.pc = f.pc, F.at = f.at,
         F.fallbacks = f.fallbacks,
         DOMAIN C = Clients, \A d \in Clients \ {c} : C[d] = cl[d],
         C[c].route = cl[c].route, src.b[c].bound => cl[c].stage = "me",
         C[c].inAcc \in Nat, C[c].outAcc \in Nat, C[c].held \in Nat,
         F.inBud = f.inBud - cl[c].inAcc + C[c].inAcc,
         F.outBud = f.outBud - (cl[c].outAcc + cl[c].held)
                      + (C[c].outAcc + C[c].held),
         SourceStep(src, S, c)
  PROVE  IInv'
<1>0. /\ ClientSound(cl[c], Packets)
      /\ cl[c].inAcc \in Nat /\ cl[c].outAcc \in Nat /\ cl[c].held \in Nat
      /\ f.inBud \in Nat /\ f.outBud \in Nat /\ f.outBud <= OutputTotal
      /\ OutputTotal \in Nat
      /\ FrontendShape(f) /\ SourceShape(src) /\ DOMAIN cl = Clients
      /\ DOMAIN env = {"max", "sent", "answered"}
  BY ClientFacts
<1>1. /\ f' = [F EXCEPT !.inBud = @ - C[c].inAcc,
                        !.outBud = @ - C[c].outAcc - C[c].held,
                        !.fallbacks = @ \ {c}]
      /\ cl' = [C EXCEPT ![c] = [NewClient EXCEPT !.stage = "closed"]]
      /\ src' = IF C[c].route THEN BeginClose(S, c) ELSE S
      /\ env' = env
  BY DEF Closes, OnClose
<1>2. /\ FrontendShape(f') /\ f'.fallbacks = f.fallbacks \ {c}
      /\ f'.inBud = F.inBud - C[c].inAcc
      /\ f'.outBud = F.outBud - C[c].outAcc - C[c].held
  BY <1>0, <1>1 DEF FrontendShape, FFields
<1>3. /\ DOMAIN cl' = Clients /\ \A d \in Clients \ {c} : cl'[d] = cl[d]
      /\ cl'[c] = [NewClient EXCEPT !.stage = "closed"]
  BY <1>1
<1>4. /\ DOMAIN cl'[c] = CFields /\ cl'[c].stage = "closed"
      /\ cl'[c].route = FALSE /\ cl'[c].pc = "idle" /\ cl'[c].inb = <<>>
      /\ cl'[c].inAcc = 0 /\ cl'[c].outAcc = 0 /\ cl'[c].held = 0
      /\ cl'[c].out = 0
  BY <1>3 DEF NewClient, CFields
<1>5. ClientSound(cl'[c], Packets)
  <2>1. <<>> \in Seq(Packets) /\ 0 \in Nat /\ 0 <= 0
    OBVIOUS
  <2>2. cl'[c].route = (cl'[c].stage = "me")
    BY <1>4
  <2> QED
    BY <1>4, <2>1, <2>2 DEF ClientSound
<1>6. /\ SourceStep(src, src', c)
      /\ C[c].route => /\ src'.b[c].closed /\ ~HasReason(src'.b[c])
                       /\ ~src'.b[c].leased /\ c \notin Elements(src'.q)
  <2>1. SourceShape(S)
    BY DEF SourceStep
  <2>2. CASE C[c].route
    BY <1>1, <2>1, <2>2, BeginCloseLaw, SourceStepTransitive
  <2>3. CASE ~C[c].route
    BY <1>1, <2>3
  <2> QED
    BY <2>2, <2>3
<1>7. BindingSound(c, f'.fallbacks, cl'[c], src'.b[c], src'.q)
  <2>1. src'.b[c].bound => C[c].route
    BY <1>0, <1>6 DEF SourceStep, ClientSound
  <2>2. DOMAIN src'.b[c] = BFields
    BY <1>6 DEF SourceStep, SourceShape
  <2> QED
    BY <1>2, <1>4, <1>6, <2>1, <2>2 DEF BindingSound
<1>8. /\ f'.inBud = f.inBud - cl[c].inAcc + cl'[c].inAcc
      /\ f'.outBud = f.outBud - (cl[c].outAcc + cl[c].held)
                       + (cl'[c].outAcc + cl'[c].held)
      /\ f'.outBud <= OutputTotal
  <2>1. F.inBud \in Int /\ F.outBud \in Int
    BY <1>0
  <2>2. f'.inBud = f.inBud - cl[c].inAcc
    BY <1>0, <1>2, <2>1
  <2>3. f'.outBud = f.outBud - (cl[c].outAcc + cl[c].held)
    BY <1>0, <1>2, <2>1
  <2> QED
    BY <1>0, <1>4, <2>2, <2>3, SMTT(30)
<1>9. \A d \in Clients \ {c} : Alike(cl[d], cl'[d])
  BY <1>3 DEF Alike
<1> QED
  BY <1>0, <1>1, <1>2, <1>3, <1>5, <1>6, <1>7, <1>8, <1>9, OneClient
     DEF SourceStep

-----------------------------------------------------------------------------
(* Steps of a client with a route: the record stays sound and the budgets  *)
(* follow it.                                                              *)
FrontendFrame(F) ==
  /\ DOMAIN F = FFields /\ F.pc = f.pc /\ F.at = f.at
  /\ F.fallbacks = f.fallbacks

LEMMA TurnLaw ==
  ASSUME IInv, NEW c \in Clients, NEW x, cl[c].stage = "me", x.stage = "me",
         Goes(c, x), ClientSound(x, Packets), FrontendFrame(f'),
         f'.inBud = f.inBud - cl[c].inAcc + x.inAcc,
         f'.outBud = f.outBud - (cl[c].outAcc + cl[c].held)
                       + (x.outAcc + x.held),
         f'.outBud <= OutputTotal,
         SourceStep(src, src', c)
  PROVE  IInv'
<1>0. /\ BindingSound(c, f.fallbacks, cl[c], src.b[c], src.q)
      /\ FrontendShape(f) /\ SourceShape(src) /\ DOMAIN cl = Clients
      /\ DOMAIN env = {"max", "sent", "answered"}
  BY ClientFacts
<1>1. /\ DOMAIN cl' = Clients /\ cl'[c] = x /\ env' = env
      /\ \A d \in Clients \ {c} : Alike(cl[d], cl'[d])
  BY <1>0 DEF Goes, Alike
<1>2. FrontendShape(f')
  BY <1>0 DEF FrontendShape, FrontendFrame
<1>3. BindingSound(c, f'.fallbacks, cl'[c], src'.b[c], src'.q)
  BY <1>0, <1>1 DEF BindingSound, FrontendFrame, SourceStep, SourceShape
<1> QED
  BY <1>0, <1>1, <1>2, <1>3, OneClient DEF SourceStep, FrontendFrame

(* Steps that change flags of clients, the dispatcher or the source, and   *)
(* no account.                                                             *)
LEMMA FlagsLaw ==
  ASSUME IInv, FrontendShape(f'), f'.fallbacks = f.fallbacks,
         f'.inBud = f.inBud, f'.outBud = f.outBud,
         DOMAIN cl' = Clients, \A c \in Clients : Alike(cl[c], cl'[c]),
         SourceShape(src'),
         \A c \in Clients :
           BindingSound(c, f.fallbacks, cl[c], src'.b[c], src'.q),
         env'.max = env.max, DOMAIN env' = {"max", "sent", "answered"}
  PROVE  IInv'
<1>1. Packets' = Packets
  BY DEF Packets
<1>2. \A c \in Clients : ClientSound(cl'[c], Packets)
  <2> SUFFICES ASSUME NEW c \in Clients PROVE ClientSound(cl'[c], Packets)
    OBVIOUS
  <2>1. ClientSound(cl[c], Packets) /\ Alike(cl[c], cl'[c])
    BY DEF IInv
  <2> QED
    BY <2>1 DEF ClientSound, Alike
<1>3. \A c \in Clients :
        BindingSound(c, f'.fallbacks, cl'[c], src'.b[c], src'.q)
  BY DEF BindingSound, Alike
<1>4. InOf(cl') = InOf(cl) /\ OutOf(cl') = OutOf(cl)
  BY DEF InOf, OutOf, Alike
<1>5. BudgetsSound(f', cl')
  BY <1>4 DEF IInv, BudgetsSound
<1> QED
  BY <1>1, <1>2, <1>3, <1>5 DEF IInv

LEMMA SoundBindings ==
  ASSUME IInv
  PROVE  /\ FrontendShape(f) /\ SourceShape(src) /\ DOMAIN cl = Clients
         /\ DOMAIN env = {"max", "sent", "answered"}
         /\ \A c \in Clients : /\ Alike(cl[c], cl[c]) /\ ClientSound(cl[c], Packets)
                               /\ BindingSound(c, f.fallbacks, cl[c], src.b[c], src.q)
BY DEF IInv, Alike

-----------------------------------------------------------------------------
(* The operations on a client's record.                                    *)
LEMMA RetainedLaw ==
  ASSUME NEW P, NEW x, x.inb \in Seq(P)
  PROVE  Retained(x) \in Nat
<1>1. Len(x.inb) \in Nat
  OBVIOUS
<1> DEFINE w == IF x.waiting THEN 1 ELSE 0
<1>2. w \in Nat
  OBVIOUS
<1>3. Retained(x) = Len(x.inb) + w
  BY DEF Retained
<1> HIDE DEF w
<1> QED
  BY <1>1, <1>2, <1>3

LEMMA RefreshedLaw ==
  ASSUME NEW x, DOMAIN x = CFields
  PROVE  LET y == Refreshed(x)
         IN  /\ DOMAIN y = CFields /\ y.outAcc = x.out /\ y.inb = x.inb
             /\ y.inAcc = x.inAcc /\ y.out = x.out /\ y.held = x.held
             /\ y.pc = x.pc /\ y.stage = x.stage /\ y.route = x.route
BY DEF Refreshed, ResetProgress, ArmRetry, CFields

LEMMA WaitsLaw ==
  ASSUME NEW x, DOMAIN x = CFields
  PROVE  Alike(x, Waits(x)) /\ Alike(x, ArmRetry(x))
BY DEF Waits, ArmRetry, CFields, Alike

LEMMA AfterTokenLaw ==
  ASSUME NEW x, DOMAIN x = CFields
  PROVE  LET y == AfterToken(x)
         IN  /\ DOMAIN y = CFields /\ y.outAcc = x.outAcc /\ y.inb = x.inb
             /\ y.inAcc = x.inAcc /\ y.out = x.out /\ y.held = x.held
             /\ y.pc \in {"idle", "packet"}
             /\ y.stage = x.stage /\ y.route = x.route
BY DEF AfterToken, CFields

-----------------------------------------------------------------------------
LEMMA InitInv == Init => IInv
<1> SUFFICES ASSUME Init PROVE IInv
  OBVIOUS
<1>1. PICK m \in Scenarios :
        /\ f = NewFrontend /\ src = NewSource
        /\ cl = [c \in Clients |-> NewClient]
        /\ env = [max |-> m, sent |-> 0, answered |-> 0]
  BY DEF Init
<1>2. FrontendShape(f) /\ f.fallbacks = {} /\ f.inBud = 0 /\ f.outBud = 0
  BY <1>1 DEF NewFrontend, FrontendShape, FFields
<1>3. SourceShape(src) /\ \A c \in Clients : src.b[c] = NewBinding
  <2>1. DOMAIN NewBinding = BFields
    BY DEF NewBinding, BFields
  <2>2. <<>> \in Seq(Clients)
    OBVIOUS
  <2> QED
    BY <1>1, <2>1, <2>2 DEF NewSource, SourceShape
<1>4. \A c \in Clients : ClientSound(cl[c], Packets)
  <2>1. /\ DOMAIN NewClient = CFields /\ NewClient.inb = <<>>
        /\ NewClient.inAcc = 0 /\ NewClient.out = 0 /\ NewClient.outAcc = 0
        /\ NewClient.held = 0 /\ NewClient.pc = "idle"
        /\ NewClient.stage = "new" /\ NewClient.route = FALSE
    BY DEF NewClient, CFields
  <2>2. <<>> \in Seq(Packets) /\ 0 \in Nat /\ 0 <= 0
    OBVIOUS
  <2> QED
    BY <1>1, <2>1, <2>2 DEF ClientSound
<1>5. \A c \in Clients : BindingSound(c, f.fallbacks, cl[c], src.b[c], src.q)
  <2>1. /\ DOMAIN NewBinding = BFields /\ NewBinding.bound = FALSE
    BY DEF NewBinding, BFields
  <2> QED
    BY <1>2, <1>3, <2>1 DEF BindingSound
<1>6. BudgetsSound(f, cl)
  <2>1. \A c \in Clients : cl[c].inAcc = 0 /\ cl[c].outAcc = 0 /\ cl[c].held = 0
    BY <1>1 DEF NewClient
  <2>2. /\ InOf(cl) \in [Clients -> Nat] /\ OutOf(cl) \in [Clients -> Nat]
        /\ \A c \in Clients : InOf(cl)[c] = 0 /\ OutOf(cl)[c] = 0
    BY <2>1 DEF InOf, OutOf
  <2>3. SumOf(InOf(cl)) = 0 /\ SumOf(OutOf(cl)) = 0
    BY <2>2, SumZero, ConfigAssumption
  <2>4. 0 <= OutputTotal
    BY ConfigAssumption
  <2> QED
    BY <1>2, <2>3, <2>4 DEF BudgetsSound
<1> QED
  BY <1>1, <1>2, <1>3, <1>4, <1>5, <1>6 DEF IInv

-----------------------------------------------------------------------------
(* The steps of the dispatcher and the timers.                             *)
LEMMA DispatchStep ==
  ASSUME IInv, Dispatch \/ Stop
  PROVE  IInv'
<1>0. /\ FrontendShape(f) /\ SourceShape(src) /\ DOMAIN cl = Clients
      /\ DOMAIN env = {"max", "sent", "answered"}
      /\ \A c \in Clients : /\ Alike(cl[c], cl[c]) /\ ClientSound(cl[c], Packets)
                            /\ BindingSound(c, f.fallbacks, cl[c], src.b[c], src.q)
  BY SoundBindings
<1>1. CASE RunDrains
  <2>1. /\ FrontendShape(f') /\ f'.fallbacks = f.fallbacks
        /\ f'.inBud = f.inBud /\ f'.outBud = f.outBud
    BY <1>0, <1>1 DEF RunDrains, FrontendShape, FFields
  <2>2. SourceShape(src') /\ src'.b = src.b /\ src'.q = src.q
    BY <1>0, <1>1 DEF RunDrains, SourceShape
  <2>3. cl' = cl /\ env' = env
    BY <1>1 DEF RunDrains
  <2> QED
    BY <1>0, <2>1, <2>2, <2>3, FlagsLaw
<1>2. CASE DrainReady
  <2>1. CASE src.q = <<>>
    <3>1. /\ FrontendShape(f') /\ f'.fallbacks = f.fallbacks
          /\ f'.inBud = f.inBud /\ f'.outBud = f.outBud
      BY <1>0, <1>2, <2>1 DEF DrainReady, FrontendShape, FFields
    <3>2. cl' = cl /\ src' = src /\ env' = env
      BY <1>2, <2>1 DEF DrainReady
    <3> QED
      BY <1>0, <3>1, <3>2, FlagsLaw
  <2>2. CASE src.q # <<>>
    <3> DEFINE c == Head(src.q)
               U == UnlinkReady(src, c)
    <3>1. c \in Clients /\ c \in Elements(src.q)
      <4>1. src.q \in Seq(Clients) /\ src.q # <<>>
        BY <1>0, <2>2 DEF SourceShape
      <4>2. Len(src.q) \in Nat /\ Len(src.q) # 0 /\ Head(src.q) = src.q[1]
        BY <4>1
      <4>3. 1 \in 1..Len(src.q)
        BY <4>2
      <4> QED
        BY <4>1, <4>2, <4>3 DEF Elements
    <3>2. /\ src' = [U EXCEPT !.b[c].leased = TRUE]
          /\ cl' = IF Offered(cl[c]) THEN [cl EXCEPT ![c].token = TRUE] ELSE cl
          /\ f' = [f EXCEPT !.pc = IF Offered(cl[c]) THEN "wake" ELSE "ack",
                            !.at = c]
          /\ env' = env
      BY <1>2, <2>2 DEF DrainReady
    <3>3. /\ SourceShape(U) /\ U.b = src.b
          /\ Elements(U.q) \subseteq Elements(src.q)
      BY <1>0, <3>1, UnlinkLaw, ZenonT(60) DEF SourceStep
    <3> HIDE DEF U, c
    <3>4. /\ FrontendShape(f') /\ f'.fallbacks = f.fallbacks
          /\ f'.inBud = f.inBud /\ f'.outBud = f.outBud
      BY <1>0, <3>1, <3>2 DEF FrontendShape, FFields
    <3>5. /\ SourceShape(src') /\ src'.q = U.q
          /\ src'.b = [src.b EXCEPT ![c] = [src.b[c] EXCEPT !.leased = TRUE]]
      BY <3>1, <3>2, <3>3 DEF SourceShape
    <3>6. DOMAIN cl' = Clients /\ \A d \in Clients : Alike(cl[d], cl'[d])
      <4>1. DOMAIN cl[c] = CFields
        BY <1>0, <3>1 DEF ClientSound
      <4> QED
        BY <1>0, <3>1, <3>2, <4>1 DEF Alike, CFields
    <3>7. ASSUME NEW d \in Clients
          PROVE  BindingSound(d, f.fallbacks, cl[d], src'.b[d], src'.q)
      <4>1. BindingSound(d, f.fallbacks, cl[d], src.b[d], src.q)
        BY <1>0
      <4>2. DOMAIN src.b = Clients /\ DOMAIN src.b[d] = BFields
        BY <1>0 DEF SourceShape
      <4>3. CASE d # c
        BY <3>3, <3>5, <4>1, <4>2, <4>3 DEF BindingSound
      <4>4. CASE d = c
        <5>1. ~(src.b[d].bound /\ cl[d].stage = "closed")
          BY <3>1, <4>1, <4>4 DEF BindingSound
        <5>2. DOMAIN src'.b[d] = BFields /\ src'.b[d].bound = src.b[d].bound
          BY <3>5, <4>2, <4>4 DEF BFields
        <5> QED
          BY <4>1, <5>1, <5>2 DEF BindingSound
      <4> QED
        BY <4>3, <4>4
    <3> QED
      BY <1>0, <3>2, <3>4, <3>5, <3>6, <3>7, FlagsLaw
  <2> QED
    BY <2>1, <2>2
<1>3. CASE DrainWakes
  <2>1. /\ FrontendShape(f') /\ f'.fallbacks = f.fallbacks
        /\ f'.inBud = f.inBud /\ f'.outBud = f.outBud
    BY <1>0, <1>3 DEF DrainWakes, FrontendShape, FFields
  <2>2. DOMAIN cl' = Clients /\ \A d \in Clients : Alike(cl[d], cl'[d])
    <3>1. cl' = cl \/ cl' = Wakes(cl, {f.at})
      BY <1>3 DEF DrainWakes
    <3>2. \A d \in Clients : DOMAIN cl[d] = CFields
      BY <1>0 DEF ClientSound
    <3> QED
      BY <1>0, <3>1, <3>2 DEF Wakes, Alike, CFields
  <2>3. src' = src /\ env' = env
    BY <1>3 DEF DrainWakes
  <2> QED
    BY <1>0, <2>1, <2>2, <2>3, FlagsLaw
<1>4. CASE DrainAcks
  <2>1. f.at \in Clients /\ cl' = cl /\ env' = env
    BY <1>0, <1>4 DEF DrainAcks, FrontendShape
  <2>2. /\ FrontendShape(f') /\ f'.fallbacks = f.fallbacks
        /\ f'.inBud = f.inBud /\ f'.outBud = f.outBud
    BY <1>0, <1>4 DEF DrainAcks, FrontendShape, FFields
  <2>3. CASE ~src.b[f.at].leased
    <3>1. src' = src
      BY <1>4, <2>3 DEF DrainAcks
    <3> QED
      BY <1>0, <2>1, <2>2, <3>1, FlagsLaw
  <2>4. CASE src.b[f.at].leased
    <3>1. SourceStep(src, src', f.at)
      BY <1>0, <1>4, <2>1, <2>4, AckLaw DEF DrainAcks
    <3>2. ASSUME NEW d \in Clients
          PROVE  BindingSound(d, f.fallbacks, cl[d], src'.b[d], src'.q)
      <4>1. BindingSound(d, f.fallbacks, cl[d], src.b[d], src.q)
        BY <1>0
      <4>2. CASE d # f.at
        BY <3>1, <4>1, <4>2 DEF BindingSound, SourceStep
      <4>3. CASE d = f.at
        <5>1. ~(src.b[d].bound /\ cl[d].stage = "closed")
          BY <2>4, <4>1, <4>3 DEF BindingSound
        <5> QED
          BY <3>1, <4>1, <4>3, <5>1 DEF BindingSound, SourceStep, SourceShape
      <4> QED
        BY <4>2, <4>3
    <3> QED
      BY <1>0, <2>1, <2>2, <3>1, <3>2, FlagsLaw DEF SourceStep
  <2> QED
    BY <2>3, <2>4
<1>5. CASE RunEnds
  <2>1. /\ FrontendShape(f') /\ f'.fallbacks = f.fallbacks
        /\ f'.inBud = f.inBud /\ f'.outBud = f.outBud
    BY <1>0, <1>5 DEF RunEnds, FrontendShape, FFields
  <2>2. DOMAIN cl' = Clients /\ \A d \in Clients : Alike(cl[d], cl'[d])
    <3>1. cl' = cl \/ cl' = Wakes(cl, {c \in Clients : cl[c].route})
      BY <1>5 DEF RunEnds
    <3>2. \A d \in Clients : DOMAIN cl[d] = CFields
      BY <1>0 DEF ClientSound
    <3> QED
      BY <1>0, <3>1, <3>2 DEF Wakes, Alike, CFields
  <2>3. src' = src /\ env' = env
    BY <1>5 DEF RunEnds
  <2> QED
    BY <1>0, <2>1, <2>2, <2>3, FlagsLaw
<1>6. CASE Stop
  <2>1. /\ FrontendShape(f') /\ f'.fallbacks = f.fallbacks
        /\ f'.inBud = f.inBud /\ f'.outBud = f.outBud
    BY <1>0, <1>6 DEF Stop, FrontendShape, FFields
  <2>2. cl' = cl /\ src' = src /\ env' = env
    BY <1>6 DEF Stop
  <2> QED
    BY <1>0, <2>1, <2>2, FlagsLaw
<1> QED
  BY <1>1, <1>2, <1>3, <1>4, <1>5, <1>6 DEF Dispatch

LEMMA TimerStep ==
  ASSUME IInv, NEW c \in Clients, RetryFires(c) \/ DeadlinePasses(c)
  PROVE  IInv'
<1>0. /\ FrontendShape(f) /\ SourceShape(src) /\ DOMAIN cl = Clients
      /\ DOMAIN env = {"max", "sent", "answered"}
      /\ \A d \in Clients : /\ Alike(cl[d], cl[d]) /\ ClientSound(cl[d], Packets)
                            /\ BindingSound(d, f.fallbacks, cl[d], src.b[d], src.q)
  BY SoundBindings
<1>1. f' = f /\ src' = src /\ env' = env
  BY DEF RetryFires, DeadlinePasses
<1>2. DOMAIN cl' = Clients /\ \A d \in Clients : Alike(cl[d], cl'[d])
  <2>1. DOMAIN cl[c] = CFields
    BY <1>0 DEF ClientSound
  <2> QED
    BY <1>0, <2>1 DEF RetryFires, DeadlinePasses, Alike, CFields
<1> QED
  BY <1>0, <1>1, <1>2, FlagsLaw

-----------------------------------------------------------------------------
(* The source publishes for a binding that is not closed.                  *)
LEMMA PublishesLaw ==
  ASSUME IInv, NEW c \in Clients, NEW b, Live(c), Publishes(c, b),
         DOMAIN b = BFields, b.bound = src.b[c].bound,
         env'.max = env.max, DOMAIN env' = {"max", "sent", "answered"}
  PROVE  IInv'
<1>0. /\ FrontendShape(f) /\ SourceShape(src) /\ DOMAIN cl = Clients
      /\ \A d \in Clients : /\ Alike(cl[d], cl[d])
                            /\ BindingSound(d, f.fallbacks, cl[d], src.b[d], src.q)
  BY SoundBindings
<1> DEFINE S == [src EXCEPT !.b[c] = b]
<1>1. SourceStep(src, S, c)
  BY <1>0, BindingChanges
<1>2. SourceStep(S, EnqueueReady(S, c), c)
  BY <1>1, EnqueueLaw DEF SourceStep
<1>3. f' = f /\ cl' = cl /\ src' = EnqueueReady(S, c)
  BY DEF Publishes
<1>4. SourceStep(src, src', c)
  BY <1>1, <1>2, <1>3, SourceStepTransitive
<1>5. ASSUME NEW d \in Clients
      PROVE  BindingSound(d, f.fallbacks, cl[d], src'.b[d], src'.q)
  <2>1. BindingSound(d, f.fallbacks, cl[d], src.b[d], src.q)
    BY <1>0
  <2>2. CASE d # c
    BY <1>4, <2>1, <2>2 DEF BindingSound, SourceStep
  <2>3. CASE d = c
    <3>1. cl[d].stage # "closed"
      BY <2>1, <2>3 DEF BindingSound, Live
    <3> QED
      BY <1>4, <2>1, <2>3, <3>1 DEF BindingSound, SourceStep, SourceShape
  <2> QED
    BY <2>2, <2>3
<1> QED
  BY <1>0, <1>3, <1>4, <1>5, FlagsLaw DEF SourceStep

LEMMA SourceActs ==
  ASSUME IInv, NEW c \in Clients,
         \/ \E e \in env.max.events : SourceEvent(c, e)
         \/ SourceResult(c) \/ SourceReserves(c)
         \/ \E t \in env.max.terms : SourceTerminal(c, t)
  PROVE  IInv'
<1>0. /\ DOMAIN src.b[c] = BFields /\ DOMAIN env = {"max", "sent", "answered"}
  BY SoundBindings DEF SourceShape
<1>1. ASSUME NEW e, SourceEvent(c, e) PROVE IInv'
  <2> DEFINE b == [src.b[c] EXCEPT !.ev = Append(@, e)]
  <2>1. DOMAIN b = BFields /\ b.bound = src.b[c].bound
    BY <1>0 DEF BFields
  <2>2. Live(c) /\ Publishes(c, b) /\ env' = [env EXCEPT !.answered = @ + 1]
    BY <1>1 DEF SourceEvent
  <2>3. env'.max = env.max /\ DOMAIN env' = {"max", "sent", "answered"}
    BY <1>0, <2>2
  <2> HIDE DEF b
  <2> QED
    BY <2>1, <2>2, <2>3, PublishesLaw
<1>2. CASE SourceResult(c)
  <2>1. PICK r : Publishes(c, [src.b[c] EXCEPT !.req = "none", !.res = r])
    BY <1>2 DEF SourceResult
  <2> DEFINE b == [src.b[c] EXCEPT !.req = "none", !.res = r]
  <2>2. DOMAIN b = BFields /\ b.bound = src.b[c].bound
    BY <1>0 DEF BFields
  <2>3. Live(c) /\ Publishes(c, b) /\ env' = env
    BY <1>2, <2>1 DEF SourceResult
  <2> HIDE DEF b
  <2> QED
    BY <1>0, <2>2, <2>3, PublishesLaw
<1>3. CASE SourceReserves(c)
  <2> DEFINE b == [src.b[c] EXCEPT !.req = "reserved"]
  <2>2. DOMAIN b = BFields /\ b.bound = src.b[c].bound
    BY <1>0 DEF BFields
  <2>3. Live(c) /\ Publishes(c, b) /\ env' = env
    BY <1>3 DEF SourceReserves
  <2> HIDE DEF b
  <2> QED
    BY <1>0, <2>2, <2>3, PublishesLaw
<1>4. ASSUME NEW t, SourceTerminal(c, t) PROVE IInv'
  <2> DEFINE b == [src.b[c] EXCEPT !.term = t, !.req = "none"]
  <2>2. DOMAIN b = BFields /\ b.bound = src.b[c].bound
    BY <1>0 DEF BFields
  <2>3. Live(c) /\ Publishes(c, b) /\ env' = env
    BY <1>4 DEF SourceTerminal
  <2> HIDE DEF b
  <2> QED
    BY <1>0, <2>2, <2>3, PublishesLaw
<1> QED
  BY <1>1, <1>2, <1>3, <1>4

LEMMA SourceDoneStep ==
  ASSUME IInv, SourceDone
  PROVE  IInv'
<1>0. /\ FrontendShape(f) /\ SourceShape(src) /\ DOMAIN cl = Clients
      /\ DOMAIN env = {"max", "sent", "answered"}
      /\ \A d \in Clients : /\ Alike(cl[d], cl[d])
                            /\ BindingSound(d, f.fallbacks, cl[d], src.b[d], src.q)
  BY SoundBindings
<1> DEFINE lost == {c \in Clients : ~src.b[c].mode}
           rest == Excluding(src.q, lost)
<1>1. rest \in Seq(Clients) /\ Elements(rest) \subseteq Elements(src.q)
  BY <1>0, ExcludingLaw DEF SourceShape
<1>2. /\ f' = f /\ cl' = cl /\ env' = env
      /\ src' = [src EXCEPT !.done = TRUE, !.q = rest,
                   !.b = [c \in Clients |->
                            IF c \in lost
                            THEN [src.b[c] EXCEPT !.leased = FALSE, !.closed = TRUE]
                            ELSE src.b[c]]]
  BY DEF SourceDone
<1> HIDE DEF lost, rest
<1>3. /\ src'.q = rest /\ DOMAIN src' = DOMAIN src
      /\ src'.b = [c \in Clients |->
                     IF c \in lost
                     THEN [src.b[c] EXCEPT !.leased = FALSE, !.closed = TRUE]
                     ELSE src.b[c]]
  BY <1>0, <1>2 DEF SourceShape
<1>4. ASSUME NEW c \in Clients
      PROVE  /\ DOMAIN src'.b[c] = BFields
             /\ BindingSound(c, f.fallbacks, cl[c], src'.b[c], src'.q)
  <2>1. /\ DOMAIN src.b[c] = BFields
        /\ BindingSound(c, f.fallbacks, cl[c], src.b[c], src.q)
    BY <1>0 DEF SourceShape
  <2>2. CASE c \notin lost
    <3>1. src'.b[c] = src.b[c]
      BY <1>3, <2>2
    <3> QED
      BY <1>1, <1>3, <2>1, <3>1 DEF BindingSound
  <2>3. CASE c \in lost
    <3>1. src'.b[c] = [src.b[c] EXCEPT !.leased = FALSE, !.closed = TRUE]
      BY <1>3, <2>3
    <3>2. /\ DOMAIN src'.b[c] = BFields /\ src'.b[c].bound = src.b[c].bound
          /\ ~src'.b[c].leased /\ src'.b[c].closed
          /\ src'.b[c].ev = src.b[c].ev /\ src'.b[c].res = src.b[c].res
          /\ src'.b[c].req = src.b[c].req /\ src'.b[c].term = src.b[c].term
          /\ src'.b[c].observed = src.b[c].observed
      BY <2>1, <3>1 DEF BFields
    <3>3. HasReason(src'.b[c]) <=> HasReason(src.b[c])
      BY <3>2 DEF HasReason
    <3> QED
      BY <1>1, <1>3, <2>1, <3>2, <3>3 DEF BindingSound
  <2> QED
    BY <2>2, <2>3
<1>5. SourceShape(src')
  BY <1>0, <1>1, <1>3, <1>4 DEF SourceShape
<1> QED
  BY <1>0, <1>2, <1>4, <1>5, FlagsLaw

-----------------------------------------------------------------------------
(* What a client does that changes its record: it sends, reads or leaves.  *)
LEMMA ClientActs ==
  ASSUME IInv, NEW c \in Clients,
         (\E p \in env.max.packets : ClientSends(c, p)) \/ ClientReads(c)
  PROVE  IInv'
<1>0. /\ FrontendShape(f) /\ SourceShape(src) /\ DOMAIN cl = Clients
      /\ DOMAIN env = {"max", "sent", "answered"}
      /\ ClientSound(cl[c], Packets)
      /\ BindingSound(c, f.fallbacks, cl[c], src.b[c], src.q)
      /\ cl[c].inAcc \in Nat /\ cl[c].outAcc \in Nat /\ cl[c].held \in Nat
      /\ f.inBud \in Nat /\ f.outBud \in Nat /\ f.outBud <= OutputTotal
      /\ DOMAIN cl[c] = CFields
  BY ClientFacts DEF ClientSound
<1>1. /\ f' = f /\ src' = src /\ env'.max = env.max
      /\ DOMAIN env' = {"max", "sent", "answered"}
  BY <1>0 DEF ClientSends, ClientReads
<1>2. /\ DOMAIN cl' = Clients /\ \A d \in Clients \ {c} : Alike(cl[d], cl'[d])
  BY <1>0 DEF ClientSends, ClientReads, Alike
<1>3. /\ ClientSound(cl'[c], Packets)
      /\ cl'[c].inAcc = cl[c].inAcc /\ cl'[c].outAcc = cl[c].outAcc
      /\ cl'[c].held = cl[c].held /\ cl'[c].stage = cl[c].stage
  <2>1. ASSUME NEW p \in env.max.packets, ClientSends(c, p)
        PROVE  /\ ClientSound(cl'[c], Packets)
               /\ cl'[c].inAcc = cl[c].inAcc /\ cl'[c].outAcc = cl[c].outAcc
               /\ cl'[c].held = cl[c].held /\ cl'[c].stage = cl[c].stage
    <3>1. cl'[c] = [cl[c] EXCEPT !.inb = Append(@, p),
                                 !.wake = (cl[c].stage = "me")]
      BY <1>0, <2>1 DEF ClientSends
    <3>2. Append(cl[c].inb, p) \in Seq(Packets)
      BY <1>0 DEF ClientSound, Packets
    <3> QED
      BY <1>0, <3>1, <3>2 DEF ClientSound, CFields
  <2>2. CASE ClientReads(c)
    <3>1. cl'[c] = [cl[c] EXCEPT !.out = @ - 1] /\ cl[c].out > 0
      BY <1>0, <2>2 DEF ClientReads
    <3> QED
      BY <1>0, <3>1 DEF ClientSound, CFields
  <2> QED
    BY <2>1, <2>2
<1>4. BindingSound(c, f'.fallbacks, cl'[c], src'.b[c], src'.q)
  BY <1>0, <1>1, <1>3 DEF BindingSound
<1>5. /\ f'.inBud = f.inBud - cl[c].inAcc + cl'[c].inAcc
      /\ f'.outBud = f.outBud - (cl[c].outAcc + cl[c].held)
                       + (cl'[c].outAcc + cl'[c].held)
  BY <1>0, <1>1, <1>3
<1> QED
  BY <1>0, <1>1, <1>2, <1>3, <1>4, <1>5, OneClient

(* A connection that closes as it stands.                                  *)
LEMMA ClosesAsIs ==
  ASSUME IInv, NEW c \in Clients, NEW S, Closes(f, cl, S, c),
         src.b[c].bound => cl[c].stage = "me", SourceStep(src, S, c)
  PROVE  IInv'
<1>0. /\ FrontendShape(f) /\ DOMAIN cl = Clients
      /\ cl[c].inAcc \in Nat /\ cl[c].outAcc \in Nat /\ cl[c].held \in Nat
      /\ f.inBud \in Nat /\ f.outBud \in Nat
  BY ClientFacts
<1>1. /\ f.inBud = f.inBud - cl[c].inAcc + cl[c].inAcc
      /\ f.outBud = f.outBud - (cl[c].outAcc + cl[c].held)
                       + (cl[c].outAcc + cl[c].held)
  BY <1>0
<1> QED
  BY <1>0, <1>1, ClosesLaw DEF FrontendShape

LEMMA ConnClosesStep ==
  ASSUME IInv, NEW c \in Clients, ConnCloses(c)
  PROVE  IInv'
<1>1. /\ SourceStep(src, src, c) /\ Closes(f, cl, src, c)
      /\ cl[c].stage \in {"me", "direct"}
  BY ClientFacts, SourceStays DEF ConnCloses
<1>2. src.b[c].bound => cl[c].stage = "me"
  BY <1>1, ClientFacts DEF BindingSound
<1> QED
  BY <1>1, <1>2, ClosesAsIs

-----------------------------------------------------------------------------
(* commitAuthenticatedRoute.                                               *)
LEMMA CommitStep ==
  ASSUME IInv, NEW c \in Clients, NEW how, Commit(c, how)
  PROVE  IInv'
<1>0. /\ FrontendShape(f) /\ SourceShape(src) /\ DOMAIN cl = Clients
      /\ DOMAIN env = {"max", "sent", "answered"}
      /\ ClientSound(cl[c], Packets)
      /\ BindingSound(c, f.fallbacks, cl[c], src.b[c], src.q)
      /\ cl[c].inAcc \in Nat /\ cl[c].outAcc \in Nat /\ cl[c].held \in Nat
      /\ f.inBud \in Nat /\ f.outBud \in Nat /\ f.outBud <= OutputTotal
      /\ DOMAIN cl[c] = CFields /\ cl[c].stage = "new"
  BY ClientFacts DEF ClientSound, Commit
<1>1. ~src.b[c].bound /\ c \notin f.fallbacks
  BY <1>0 DEF BindingSound
<1>2. CASE PrecommitFails(c)
  <2>1. CASE env.max.fallback
    <3>1. /\ f' = [f EXCEPT !.fallbacks = @ \cup {c}]
          /\ cl' = [cl EXCEPT ![c].stage = "direct"]
          /\ src' = src /\ env' = env
      BY <1>2, <2>1 DEF PrecommitFails, CommitDirectFallback
    <3>2. /\ FrontendShape(f') /\ f'.fallbacks = f.fallbacks \cup {c}
          /\ f'.inBud = f.inBud /\ f'.outBud = f.outBud
      BY <1>0, <3>1 DEF FrontendShape, FFields
    <3>3. /\ DOMAIN cl' = Clients /\ \A d \in Clients \ {c} : Alike(cl[d], cl'[d])
          /\ cl'[c] = [cl[c] EXCEPT !.stage = "direct"]
      BY <1>0, <3>1 DEF Alike
    <3>4. /\ DOMAIN cl'[c] = CFields /\ cl'[c].stage = "direct"
          /\ cl'[c].inAcc = cl[c].inAcc /\ cl'[c].outAcc = cl[c].outAcc
          /\ cl'[c].held = cl[c].held /\ cl'[c].inb = cl[c].inb
          /\ cl'[c].out = cl[c].out /\ cl'[c].pc = cl[c].pc
          /\ cl'[c].route = cl[c].route
      BY <1>0, <3>3 DEF CFields
    <3>5. cl'[c].pc = "idle" /\ cl'[c].route = FALSE
      BY <1>0, <3>4 DEF ClientSound
    <3>6. ClientSound(cl'[c], Packets)
      BY <1>0, <3>4, <3>5 DEF ClientSound
    <3>7. BindingSound(c, f'.fallbacks, cl'[c], src'.b[c], src'.q)
      BY <1>0, <1>1, <3>1, <3>4 DEF BindingSound
    <3>8. /\ f'.inBud = f.inBud - cl[c].inAcc + cl'[c].inAcc
          /\ f'.outBud = f.outBud - (cl[c].outAcc + cl[c].held)
                           + (cl'[c].outAcc + cl'[c].held)
          /\ f'.outBud <= OutputTotal
      BY <1>0, <3>2, <3>4
    <3> QED
      BY <1>0, <3>1, <3>2, <3>3, <3>6, <3>7, <3>8, OneClient
  <2>2. CASE ~env.max.fallback
    <3>1. Closes(f, cl, src, c) /\ SourceStep(src, src, c)
      BY <1>0, <1>2, <2>2, SourceStays DEF PrecommitFails
    <3> QED
      BY <1>1, <3>1, ClosesAsIs
  <2> QED
    BY <2>1, <2>2
<1>3. CASE ~PrecommitFails(c)
  <2> DEFINE st == IF how = "bad address" THEN "unroute" ELSE "me"
             x == [cl[c] EXCEPT !.stage = st, !.route = (how = "ok"),
                                !.wake = (how = "ok"),
                                !.inAcc = Retained(cl[c])]
  <2>1. /\ f' = [f EXCEPT !.inBud = @ + InputDelta(cl[c])]
        /\ src' = [src EXCEPT !.b[c].bound = TRUE]
        /\ cl' = [cl EXCEPT ![c] = x]
        /\ env' = env /\ how \in {"ok", "bad address"}
    BY <1>3, ScenarioAssumption DEF Commit, IInv
  <2>2. Retained(cl[c]) \in Nat
    BY <1>0, RetainedLaw DEF ClientSound
  <2>3. /\ FrontendShape(f') /\ f'.fallbacks = f.fallbacks
        /\ f'.inBud = f.inBud + InputDelta(cl[c]) /\ f'.outBud = f.outBud
    BY <1>0, <2>1 DEF FrontendShape, FFields
  <2>4. /\ SourceShape(src') /\ src'.q = src.q /\ src'.b[c].bound
        /\ \A d \in Clients \ {c} : src'.b[d] = src.b[d]
    BY <1>0, <2>1 DEF SourceShape, BFields
  <2>5. /\ DOMAIN cl' = Clients /\ \A d \in Clients \ {c} : Alike(cl[d], cl'[d])
        /\ cl'[c] = x
    BY <1>0, <2>1 DEF Alike
  <2>6. /\ DOMAIN x = CFields /\ x.stage = st /\ x.route = (how = "ok")
        /\ x.inAcc = Retained(cl[c]) /\ x.outAcc = cl[c].outAcc
        /\ x.held = cl[c].held /\ x.inb = cl[c].inb
        /\ x.out = cl[c].out /\ x.pc = cl[c].pc
    BY <1>0 DEF CFields
  <2>7. cl[c].pc = "idle" /\ st \in {"unroute", "me"} /\ ((how = "ok") = (st = "me"))
    BY <1>0, <2>1 DEF ClientSound
  <2> HIDE DEF x, st
  <2>8. ClientSound(x, Packets)
    BY <1>0, <2>2, <2>6, <2>7 DEF ClientSound
  <2>9. BindingSound(c, f'.fallbacks, cl'[c], src'.b[c], src'.q)
    BY <1>1, <2>3, <2>4, <2>5, <2>6, <2>7 DEF BindingSound, SourceShape
  <2>10. /\ f'.inBud = f.inBud - cl[c].inAcc + x.inAcc
         /\ f'.outBud = f.outBud - (cl[c].outAcc + cl[c].held)
                          + (x.outAcc + x.held)
         /\ f'.outBud <= OutputTotal
    BY <1>0, <2>2, <2>3, <2>6 DEF InputDelta
  <2> QED
    BY <1>0, <2>1, <2>3, <2>4, <2>5, <2>8, <2>9, <2>10, OneClient
<1> QED
  BY <1>2, <1>3

LEMMA CommitUnroutesStep ==
  ASSUME IInv, NEW c \in Clients, CommitUnroutes(c)
  PROVE  IInv'
<1>0. /\ FrontendShape(f) /\ SourceShape(src) /\ DOMAIN cl = Clients
      /\ DOMAIN env = {"max", "sent", "answered"}
      /\ cl[c].inAcc \in Nat /\ cl[c].outAcc \in Nat /\ cl[c].held \in Nat
      /\ f.inBud \in Nat /\ f.outBud \in Nat /\ f.outBud <= OutputTotal
      /\ OutputTotal \in Nat
  BY ClientFacts
<1>1. /\ f' = [f EXCEPT !.inBud = @ - cl[c].inAcc,
                        !.outBud = @ - cl[c].outAcc - cl[c].held,
                        !.fallbacks = @ \ {c}]
      /\ cl' = [cl EXCEPT ![c] = [NewClient EXCEPT !.stage = "closed"]]
      /\ src' = BeginClose(src, c) /\ env' = env
  BY DEF CommitUnroutes, OnClose
<1>2. /\ FrontendShape(f') /\ f'.fallbacks = f.fallbacks \ {c}
      /\ f'.inBud = f.inBud - cl[c].inAcc
      /\ f'.outBud = f.outBud - cl[c].outAcc - cl[c].held
  BY <1>0, <1>1 DEF FrontendShape, FFields
<1>3. /\ DOMAIN cl' = Clients /\ \A d \in Clients \ {c} : Alike(cl[d], cl'[d])
      /\ cl'[c] = [NewClient EXCEPT !.stage = "closed"]
  BY <1>0, <1>1 DEF Alike
<1>4. /\ DOMAIN cl'[c] = CFields /\ cl'[c].stage = "closed"
      /\ cl'[c].route = FALSE /\ cl'[c].pc = "idle" /\ cl'[c].inb = <<>>
      /\ cl'[c].inAcc = 0 /\ cl'[c].outAcc = 0 /\ cl'[c].held = 0
      /\ cl'[c].out = 0
  BY <1>3 DEF NewClient, CFields
<1>5. ClientSound(cl'[c], Packets)
  <2>1. <<>> \in Seq(Packets) /\ 0 \in Nat /\ 0 <= 0
    OBVIOUS
  <2>2. cl'[c].route = (cl'[c].stage = "me")
    BY <1>4
  <2> QED
    BY <1>4, <2>1, <2>2 DEF ClientSound
<1>6. /\ SourceStep(src, src', c)
      /\ src'.b[c].closed /\ ~HasReason(src'.b[c])
      /\ ~src'.b[c].leased /\ c \notin Elements(src'.q)
  BY <1>0, <1>1, BeginCloseLaw
<1>7. BindingSound(c, f'.fallbacks, cl'[c], src'.b[c], src'.q)
  BY <1>2, <1>4, <1>6 DEF BindingSound, SourceStep, SourceShape
<1>8. /\ f'.inBud = f.inBud - cl[c].inAcc + cl'[c].inAcc
      /\ f'.outBud = f.outBud - (cl[c].outAcc + cl[c].held)
                       + (cl'[c].outAcc + cl'[c].held)
      /\ f'.outBud <= OutputTotal
  BY <1>0, <1>2, <1>4
<1> QED
  BY <1>0, <1>1, <1>2, <1>3, <1>5, <1>6, <1>7, <1>8, OneClient DEF SourceStep

-----------------------------------------------------------------------------
(* The start of a turn: both budgets are reconciled first.                 *)
LEMMA TurnBeginsStep ==
  ASSUME IInv, NEW c \in Clients, TurnBegins(c)
  PROVE  IInv'
<1>0. /\ FrontendShape(f) /\ SourceShape(src) /\ DOMAIN cl = Clients
      /\ ClientSound(cl[c], Packets)
      /\ cl[c].inAcc \in Nat /\ cl[c].outAcc \in Nat /\ cl[c].held \in Nat
      /\ f.inBud \in Nat /\ f.outBud \in Nat /\ f.outBud <= OutputTotal
      /\ OutputTotal \in Nat
      /\ DOMAIN cl[c] = CFields /\ cl[c].stage = "me" /\ cl[c].pc = "idle"
      /\ cl[c].held = 0
  BY ClientFacts DEF ClientSound, TurnBegins
<1>a. SourceStep(src, src, c)
  BY <1>0, SourceStays
<1> DEFINE x == [cl[c] EXCEPT !.wake = FALSE]
           F == [f EXCEPT !.inBud = @ + InputDelta(x)]
           y == [x EXCEPT !.inAcc = Retained(x)]
           G == [F EXCEPT !.outBud = @ + OutputDelta(y, 0)]
           z == Refreshed(y)
           go == [z EXCEPT !.pc = IF z.token THEN "token" ELSE "packet"]
           stay == [Waits(z) EXCEPT !.pc = "idle", !.processed = FALSE]
<1>1. \/ Closes(F, [cl EXCEPT ![c] = y], src, c)
      \/ Closes(G, [cl EXCEPT ![c] = z], src, c)
      \/ f' = G /\ src' = src /\ (Goes(c, stay) \/ Goes(c, go))
  BY DEF TurnBegins, Idles
<1>2. Alike(cl[c], x) /\ DOMAIN x = CFields
  BY <1>0 DEF Alike, CFields
<1> HIDE DEF x
<1>3. Retained(x) \in Nat
  BY <1>0, <1>2, RetainedLaw DEF ClientSound, Alike
<1>4. /\ DOMAIN y = CFields /\ y.inAcc = Retained(x) /\ y.inb = cl[c].inb
      /\ y.out = cl[c].out /\ y.outAcc = cl[c].outAcc /\ y.held = 0
      /\ y.pc = "idle" /\ y.stage = "me" /\ y.route = cl[c].route
  BY <1>0, <1>2 DEF Alike, CFields
<1>5. /\ FrontendFrame(F) /\ F.outBud = f.outBud
      /\ F.inBud = f.inBud - cl[c].inAcc + y.inAcc
  <2>1. FrontendFrame(F) /\ F.outBud = f.outBud /\ F.inBud = f.inBud + InputDelta(x)
    BY <1>0 DEF FrontendShape, FrontendFrame, FFields
  <2>2. InputDelta(x) = Retained(x) - cl[c].inAcc
    BY <1>2 DEF InputDelta, Alike
  <2> QED
    BY <1>0, <1>3, <1>4, <2>1, <2>2
<1> HIDE DEF F, y
<1>6. /\ FrontendFrame(G) /\ G.inBud = F.inBud
      /\ G.outBud = f.outBud + cl[c].out - cl[c].outAcc
  <2>1. FrontendFrame(G) /\ G.inBud = F.inBud /\ G.outBud = F.outBud + OutputDelta(y, 0)
    BY <1>5 DEF FrontendFrame, FFields
  <2>2. OutputDelta(y, 0) = cl[c].out - cl[c].outAcc /\ cl[c].out \in Nat
    BY <1>0, <1>4 DEF OutputDelta, ClientSound
  <2> QED
    BY <1>0, <1>5, <2>1, <2>2
<1>7. /\ DOMAIN z = CFields /\ z.outAcc = y.out /\ z.inb = y.inb
      /\ z.inAcc = y.inAcc /\ z.out = y.out /\ z.held = y.held
      /\ z.pc = y.pc /\ z.stage = y.stage /\ z.route = y.route
  BY <1>4, RefreshedLaw
<1> HIDE DEF G, z
<1>8. CASE Closes(F, [cl EXCEPT ![c] = y], src, c)
  <2> DEFINE C == [cl EXCEPT ![c] = y]
  <2>1. /\ DOMAIN C = Clients /\ \A d \in Clients \ {c} : C[d] = cl[d]
        /\ C[c] = y
    BY <1>0
  <2>2. Closes(F, C, src, c)
    BY <1>8
  <2> HIDE DEF C
  <2>3. /\ C[c].inAcc \in Nat /\ C[c].outAcc \in Nat /\ C[c].held \in Nat
        /\ C[c].route = cl[c].route
        /\ F.inBud = f.inBud - cl[c].inAcc + C[c].inAcc
        /\ F.outBud = f.outBud - (cl[c].outAcc + cl[c].held)
                        + (C[c].outAcc + C[c].held)
    BY <1>0, <1>3, <1>4, <1>5, <2>1
  <2> QED
    BY <1>0, <1>a, <1>5, <2>1, <2>2, <2>3, ClosesLaw DEF FrontendFrame
<1>9. CASE Closes(G, [cl EXCEPT ![c] = z], src, c)
  <2> DEFINE C == [cl EXCEPT ![c] = z]
  <2>1. /\ DOMAIN C = Clients /\ \A d \in Clients \ {c} : C[d] = cl[d]
        /\ C[c] = z
    BY <1>0
  <2>2. Closes(G, C, src, c)
    BY <1>9
  <2> HIDE DEF C
  <2>3. cl[c].out \in Nat
    BY <1>0 DEF ClientSound
  <2>4. /\ C[c].inAcc \in Nat /\ C[c].outAcc \in Nat /\ C[c].held \in Nat
        /\ C[c].route = cl[c].route
        /\ G.inBud = f.inBud - cl[c].inAcc + C[c].inAcc
        /\ G.outBud = f.outBud - (cl[c].outAcc + cl[c].held)
                        + (C[c].outAcc + C[c].held)
    BY <1>0, <1>3, <1>4, <1>5, <1>6, <1>7, <2>1, <2>3
  <2> QED
    BY <1>0, <1>a, <1>6, <2>1, <2>2, <2>4, ClosesLaw DEF FrontendFrame
<1>10. CASE f' = G /\ src' = src /\ (Goes(c, stay) \/ Goes(c, go))
  <2>1. PICK w : Goes(c, w) /\ (w = stay \/ w = go)
    BY <1>10
  <2>2. /\ DOMAIN w = CFields /\ w.outAcc = z.out /\ w.inb = z.inb
        /\ w.inAcc = z.inAcc /\ w.out = z.out /\ w.held = z.held
        /\ w.pc # "event" /\ w.stage = z.stage /\ w.route = z.route
    <3>1. Alike(z, Waits(z))
      BY <1>7, WaitsLaw
    <3>2. CASE w = stay
      BY <1>7, <3>1, <3>2 DEF Alike, CFields
    <3>3. CASE w = go
      BY <1>7, <3>3 DEF CFields
    <3> QED
      BY <2>1, <3>2, <3>3
  <2> HIDE DEF stay, go
  <2>3. ClientSound(w, Packets)
    BY <1>0, <1>3, <1>4, <1>7, <2>2 DEF ClientSound
  <2>4. cl[c].out \in Nat /\ cl[c].out <= cl[c].outAcc
    BY <1>0 DEF ClientSound
  <2>5. /\ f'.inBud = f.inBud - cl[c].inAcc + w.inAcc
        /\ f'.outBud = f.outBud - (cl[c].outAcc + cl[c].held)
                         + (w.outAcc + w.held)
        /\ f'.outBud <= OutputTotal
    BY <1>0, <1>3, <1>4, <1>5, <1>6, <1>7, <1>10, <2>2, <2>4
  <2> QED
    BY <1>0, <1>a, <1>4, <1>6, <1>7, <1>10, <2>1, <2>2, <2>3, <2>5, TurnLaw
<1> QED
  BY <1>1, <1>8, <1>9, <1>10

-----------------------------------------------------------------------------
(* A step of a turn that changes no account.                               *)
LEMMA TurnKeeps ==
  ASSUME IInv, NEW c \in Clients, NEW w, Goes(c, w), f' = f,
         cl[c].stage = "me", cl[c].pc # "event", DOMAIN w = CFields,
         w.inb = cl[c].inb, w.inAcc = cl[c].inAcc, w.out = cl[c].out,
         w.outAcc = cl[c].outAcc, w.held = cl[c].held, w.pc # "event",
         w.stage = cl[c].stage, w.route = cl[c].route,
         SourceStep(src, src', c)
  PROVE  IInv'
<1>0. /\ FrontendShape(f) /\ ClientSound(cl[c], Packets)
      /\ cl[c].inAcc \in Nat /\ cl[c].outAcc \in Nat /\ cl[c].held \in Nat
      /\ f.inBud \in Nat /\ f.outBud \in Nat /\ f.outBud <= OutputTotal
  BY ClientFacts
<1>1. ClientSound(w, Packets)
  BY <1>0 DEF ClientSound
<1>2. /\ f'.inBud = f.inBud - cl[c].inAcc + w.inAcc
      /\ f'.outBud = f.outBud - (cl[c].outAcc + cl[c].held)
                       + (w.outAcc + w.held)
  BY <1>0
<1>3. FrontendFrame(f')
  BY <1>0 DEF FrontendFrame, FrontendShape
<1> QED
  BY <1>0, <1>1, <1>2, <1>3, TurnLaw

LEMMA TokenReasonsStep ==
  ASSUME IInv, NEW c \in Clients, TokenReasons(c)
  PROVE  IInv'
<1>0. /\ SourceShape(src) /\ DOMAIN cl[c] = CFields /\ cl[c].stage = "me"
      /\ cl[c].pc = "token"
  BY ClientFacts DEF ClientSound, TokenReasons
<1> DEFINE reserved == src.b[c].req = "reserved"
           y == [cl[c] EXCEPT !.waiting = IF reserved THEN FALSE ELSE @,
                              !.await = IF src.b[c].res = "ok" THEN FALSE ELSE @,
                              !.processed = reserved \/ src.b[c].res = "ok"]
           S == [src EXCEPT !.b[c].req = IF reserved THEN "queued" ELSE @,
                            !.b[c].res = "none"]
           R == [S EXCEPT !.b[c].observed = TRUE]
           T == FinishToken(R, c)
           d == [y EXCEPT !.drain = TRUE]
           o == [y EXCEPT !.pc = "output"]
           w == AfterToken(Waits(d))
<1>1. \/ Closes(f, cl, src, c)
      \/ Goes(c, o) /\ src' = S /\ f' = f
      \/ Closes(f, cl, T, c)
      \/ Goes(c, w) /\ src' = T /\ f' = f
  BY DEF TokenReasons
<1>2. SourceStep(src, src, c)
  BY <1>0, SourceStays
<1>3. SourceStep(src, S, c)
  BY <1>0 DEF SourceStep, SourceShape, BFields
<1> HIDE DEF S
<1>4. SourceStep(S, R, c)
  BY <1>3 DEF SourceStep, SourceShape, BFields
<1> HIDE DEF R
<1>5. SourceStep(src, T, c)
  <2>1. SourceStep(R, T, c)
    BY <1>4, AckLaw DEF FinishToken, SourceStep
  <2> QED
    BY <1>3, <1>4, <2>1, SourceStepTransitive
<1>6. Alike(cl[c], y) /\ DOMAIN y = CFields
  BY <1>0 DEF Alike, CFields
<1> HIDE DEF y, T
<1>7. Alike(cl[c], d) /\ DOMAIN d = CFields
  BY <1>6 DEF Alike, CFields
<1>8. Alike(cl[c], Waits(d)) /\ DOMAIN Waits(d) = CFields
  BY <1>7, WaitsLaw DEF Alike
<1> HIDE DEF d
<1>9. CASE Closes(f, cl, src, c)
  BY <1>0, <1>2, <1>9, ClosesAsIs
<1>10. CASE Goes(c, o) /\ src' = S /\ f' = f
  <2>1. /\ DOMAIN o = CFields /\ o.inb = cl[c].inb /\ o.inAcc = cl[c].inAcc
        /\ o.out = cl[c].out /\ o.outAcc = cl[c].outAcc /\ o.held = cl[c].held
        /\ o.pc # "event" /\ o.stage = cl[c].stage /\ o.route = cl[c].route
    BY <1>6 DEF Alike, CFields
  <2> HIDE DEF o
  <2> QED
    BY <1>0, <1>3, <1>10, <2>1, TurnKeeps
<1>11. CASE Closes(f, cl, T, c)
  BY <1>0, <1>5, <1>11, ClosesAsIs
<1>12. CASE Goes(c, w) /\ src' = T /\ f' = f
  <2>1. /\ DOMAIN w = CFields /\ w.inb = cl[c].inb /\ w.inAcc = cl[c].inAcc
        /\ w.out = cl[c].out /\ w.outAcc = cl[c].outAcc /\ w.held = cl[c].held
        /\ w.pc # "event" /\ w.stage = cl[c].stage /\ w.route = cl[c].route
    BY <1>8, AfterTokenLaw DEF Alike
  <2> HIDE DEF w
  <2> QED
    BY <1>0, <1>5, <1>12, <2>1, TurnKeeps
<1> QED
  BY <1>1, <1>9, <1>10, <1>11, <1>12

(* Room for one response is reserved, or the token is kept or acknowledged,*)
(* or somebody is evicted.                                                 *)
LEMMA TokenOutputStep ==
  ASSUME IInv, NEW c \in Clients, TokenOutput(c)
  PROVE  IInv'
<1>0. /\ FrontendShape(f) /\ SourceShape(src) /\ DOMAIN cl = Clients
      /\ DOMAIN env = {"max", "sent", "answered"}
      /\ ClientSound(cl[c], Packets)
      /\ BindingSound(c, f.fallbacks, cl[c], src.b[c], src.q)
      /\ cl[c].inAcc \in Nat /\ cl[c].outAcc \in Nat /\ cl[c].held = 0
      /\ f.inBud \in Nat /\ f.outBud \in Nat /\ f.outBud <= OutputTotal
      /\ OutputTotal \in Nat /\ MaxEncoded \in Nat
      /\ DOMAIN cl[c] = CFields /\ cl[c].stage = "me" /\ cl[c].pc = "output"
  BY ClientFacts DEF ClientSound, TokenOutput
<1> DEFINE x == cl[c]
           r == [x EXCEPT !.pc = "event", !.held = MaxEncoded]
           a == AfterToken(x)
           i == [x EXCEPT !.pc = "idle", !.processed = FALSE]
           waits == [ArmRetry(x) EXCEPT !.pc = "idle", !.processed = FALSE]
           v == Victim
<1>1. \/ OutputFits /\ Goes(c, r) /\ src' = src
           /\ f' = [f EXCEPT !.outBud = @ + MaxEncoded]
      \/ Goes(c, a) /\ src' = FinishToken(src, c) /\ f' = f
      \/ Goes(c, i) /\ src' = src /\ f' = f
      \/ Goes(c, waits) /\ src' = src /\ f' = f
      \/ Closes(f, cl, src, c)
      \/ /\ v # c /\ f' = f /\ src' = src /\ env' = env
         /\ cl' = [cl EXCEPT ![c] = waits, ![v].evicting = TRUE, ![v].kill = TRUE]
  BY DEF TokenOutput, Idles
<1> HIDE DEF v
<1>2. SourceStep(src, src, c) /\ SourceStep(src, FinishToken(src, c), c)
  BY <1>0, SourceStays, AckLaw DEF FinishToken
<1>3. /\ DOMAIN waits = CFields /\ waits.inb = cl[c].inb
      /\ waits.inAcc = cl[c].inAcc /\ waits.out = cl[c].out
      /\ waits.outAcc = cl[c].outAcc /\ waits.held = cl[c].held
      /\ waits.pc = "idle" /\ waits.stage = cl[c].stage
      /\ waits.route = cl[c].route
  <2>1. Alike(x, ArmRetry(x))
    BY <1>0, WaitsLaw
  <2> QED
    BY <1>0, <2>1 DEF Alike, CFields
<1> HIDE DEF waits
<1>4. CASE /\ OutputFits /\ Goes(c, r) /\ src' = src
           /\ f' = [f EXCEPT !.outBud = @ + MaxEncoded]
  <2>1. /\ DOMAIN r = CFields /\ r.inb = cl[c].inb /\ r.inAcc = cl[c].inAcc
        /\ r.out = cl[c].out /\ r.outAcc = cl[c].outAcc /\ r.held = MaxEncoded
        /\ r.pc = "event" /\ r.stage = "me" /\ r.route = cl[c].route
    BY <1>0 DEF CFields
  <2> HIDE DEF r
  <2>2. ClientSound(r, Packets)
    BY <1>0, <2>1 DEF ClientSound
  <2>3. FrontendFrame(f') /\ f'.inBud = f.inBud /\ f'.outBud = f.outBud + MaxEncoded
    BY <1>0, <1>4 DEF FrontendFrame, FrontendShape, FFields
  <2>4. /\ f'.inBud = f.inBud - cl[c].inAcc + r.inAcc
        /\ f'.outBud = f.outBud - (cl[c].outAcc + cl[c].held)
                         + (r.outAcc + r.held)
        /\ f'.outBud <= OutputTotal
    BY <1>0, <1>4, <2>1, <2>3 DEF OutputFits
  <2> QED
    BY <1>0, <1>2, <1>4, <2>1, <2>2, <2>3, <2>4, TurnLaw
<1>5. CASE Goes(c, a) /\ src' = FinishToken(src, c) /\ f' = f
  <2>1. /\ DOMAIN a = CFields /\ a.inb = cl[c].inb /\ a.inAcc = cl[c].inAcc
        /\ a.out = cl[c].out /\ a.outAcc = cl[c].outAcc /\ a.held = cl[c].held
        /\ a.pc # "event" /\ a.stage = cl[c].stage /\ a.route = cl[c].route
    BY <1>0, AfterTokenLaw
  <2> HIDE DEF a
  <2> QED
    BY <1>0, <1>2, <1>5, <2>1, TurnKeeps
<1>6. CASE Goes(c, i) /\ src' = src /\ f' = f
  <2>1. /\ DOMAIN i = CFields /\ i.inb = cl[c].inb /\ i.inAcc = cl[c].inAcc
        /\ i.out = cl[c].out /\ i.outAcc = cl[c].outAcc /\ i.held = cl[c].held
        /\ i.pc # "event" /\ i.stage = cl[c].stage /\ i.route = cl[c].route
    BY <1>0 DEF CFields
  <2> HIDE DEF i
  <2> QED
    BY <1>0, <1>2, <1>6, <2>1, TurnKeeps
<1>7. CASE Goes(c, waits) /\ src' = src /\ f' = f
  BY <1>0, <1>2, <1>3, <1>7, TurnKeeps
<1>8. CASE Closes(f, cl, src, c)
  BY <1>0, <1>2, <1>8, ClosesAsIs
<1>9. CASE /\ v # c /\ f' = f /\ src' = src /\ env' = env
           /\ cl' = [cl EXCEPT ![c] = waits, ![v].evicting = TRUE, ![v].kill = TRUE]
  <2>1. DOMAIN cl' = Clients /\ cl'[c] = waits
    BY <1>0, <1>9
  <2>2. ASSUME NEW d \in Clients \ {c} PROVE Alike(cl[d], cl'[d])
    <3>1. DOMAIN cl[d] = CFields
      BY ClientFacts DEF ClientSound
    <3>2. CASE d = v
      <4>1. cl'[d] = [cl[d] EXCEPT !.evicting = TRUE, !.kill = TRUE]
        BY <1>0, <1>9, <3>2
      <4> QED
        BY <3>1, <4>1 DEF Alike, CFields
    <3>3. CASE d # v
      BY <1>0, <1>9, <3>3 DEF Alike
    <3> QED
      BY <3>2, <3>3
  <2>3. ClientSound(cl'[c], Packets)
    BY <1>0, <1>3, <2>1 DEF ClientSound
  <2>4. BindingSound(c, f'.fallbacks, cl'[c], src'.b[c], src'.q)
    BY <1>0, <1>3, <1>9, <2>1 DEF BindingSound
  <2>5. /\ f'.inBud = f.inBud - cl[c].inAcc + cl'[c].inAcc
        /\ f'.outBud = f.outBud - (cl[c].outAcc + cl[c].held)
                         + (cl'[c].outAcc + cl'[c].held)
    BY <1>0, <1>3, <1>9, <2>1
  <2> QED
    BY <1>0, <1>9, <2>1, <2>2, <2>3, <2>4, <2>5, OneClient
<1> QED
  BY <1>1, <1>4, <1>5, <1>6, <1>7, <1>8, <1>9

(* The reservation ends with the write: what was written replaces it.      *)
LEMMA TokenEventStep ==
  ASSUME IInv, NEW c \in Clients, NEW n \in 1..MaxEncoded,
         NEW direct \in BOOLEAN, TokenEvent(c, n, direct)
  PROVE  IInv'
<1>0. /\ FrontendShape(f) /\ SourceShape(src) /\ DOMAIN cl = Clients
      /\ ClientSound(cl[c], Packets)
      /\ cl[c].inAcc \in Nat /\ cl[c].outAcc \in Nat /\ cl[c].held = MaxEncoded
      /\ f.inBud \in Nat /\ f.outBud \in Nat /\ f.outBud <= OutputTotal
      /\ OutputTotal \in Nat /\ MaxEncoded \in Nat
      /\ DOMAIN cl[c] = CFields /\ cl[c].stage = "me" /\ cl[c].pc = "event"
      /\ cl[c].out \in Nat /\ cl[c].out <= cl[c].outAcc
  BY ClientFacts DEF ClientSound, TokenEvent
<1> DEFINE b == src.b[c]
           e == Head(b.ev)
           S == [src EXCEPT !.b[c].mode = TRUE, !.b[c].ev = Tail(b.ev)]
           T == FinishToken(S, c)
           N == [src EXCEPT !.b[c].mode = TRUE]
           x == WriteEvent(cl[c], e, n, direct)
           F == [f EXCEPT !.outBud = @ + OutputDelta(x, MaxEncoded)]
           y == Refreshed(x)
           u == [cl[c] EXCEPT !.held = 0, !.pc = "no event"]
           w == AfterToken(IF e = "close ext" THEN Waits(y) ELSE y)
           C == [cl EXCEPT ![c] = y]
<1>1. \/ Closes(f, cl, src, c)
      \/ Goes(c, u) /\ src' = N /\ f' = [f EXCEPT !.outBud = @ - MaxEncoded]
      \/ Closes(F, C, T, c)
      \/ f' = F /\ src' = T /\ Goes(c, w)
  BY DEF TokenEvent
<1>2. SourceStep(src, src, c) /\ SourceStep(src, N, c) /\ SourceStep(src, S, c)
  BY <1>0, SourceStays DEF SourceStep, SourceShape, BFields
<1> HIDE DEF S, N
<1>3. SourceStep(src, T, c)
  <2>1. SourceStep(S, T, c)
    BY <1>2, AckLaw DEF FinishToken, SourceStep
  <2> QED
    BY <1>2, <2>1, SourceStepTransitive
<1>4. /\ DOMAIN x = CFields /\ x.inb = cl[c].inb /\ x.inAcc = cl[c].inAcc
      /\ (x.out = cl[c].out \/ x.out = cl[c].out + n)
      /\ x.outAcc = cl[c].outAcc /\ x.held = 0 /\ x.pc = "event"
      /\ x.stage = "me" /\ x.route = cl[c].route
  BY <1>0 DEF WriteEvent, CFields
<1> HIDE DEF x, e, T
<1>5. x.out \in Nat /\ x.out <= cl[c].outAcc + MaxEncoded
  BY <1>0, <1>4
<1>6. /\ FrontendFrame(F) /\ F.inBud = f.inBud
      /\ F.outBud = f.outBud + (x.out - cl[c].outAcc - MaxEncoded)
  <2>1. OutputDelta(x, MaxEncoded) = x.out - cl[c].outAcc - MaxEncoded
    BY <1>4 DEF OutputDelta
  <2> QED
    BY <1>0, <2>1 DEF FrontendFrame, FrontendShape, FFields
<1>7. /\ DOMAIN y = CFields /\ y.outAcc = x.out /\ y.inb = x.inb
      /\ y.inAcc = x.inAcc /\ y.out = x.out /\ y.held = x.held
      /\ y.pc = x.pc /\ y.stage = x.stage /\ y.route = x.route
  BY <1>4, RefreshedLaw
<1> HIDE DEF F, y
<1>8. CASE Closes(f, cl, src, c)
  BY <1>0, <1>2, <1>8, ClosesAsIs
<1>9. CASE Goes(c, u) /\ src' = N /\ f' = [f EXCEPT !.outBud = @ - MaxEncoded]
  <2>1. /\ DOMAIN u = CFields /\ u.inb = cl[c].inb /\ u.inAcc = cl[c].inAcc
        /\ u.out = cl[c].out /\ u.outAcc = cl[c].outAcc /\ u.held = 0
        /\ u.pc = "no event" /\ u.stage = "me" /\ u.route = cl[c].route
    BY <1>0 DEF CFields
  <2> HIDE DEF u
  <2>2. ClientSound(u, Packets)
    BY <1>0, <2>1 DEF ClientSound
  <2>3. FrontendFrame(f') /\ f'.inBud = f.inBud /\ f'.outBud = f.outBud - MaxEncoded
    BY <1>0, <1>9 DEF FrontendFrame, FrontendShape, FFields
  <2>4. /\ f'.inBud = f.inBud - cl[c].inAcc + u.inAcc
        /\ f'.outBud = f.outBud - (cl[c].outAcc + cl[c].held)
                         + (u.outAcc + u.held)
        /\ f'.outBud <= OutputTotal
    <3>1. f'.outBud = f.outBud - MaxEncoded /\ f'.outBud <= OutputTotal
      BY <1>0, <2>3
    <3>2. f.outBud - (cl[c].outAcc + MaxEncoded) + (cl[c].outAcc + 0)
            = f.outBud - MaxEncoded
      BY <1>0
    <3>3. f'.inBud = f.inBud - cl[c].inAcc + u.inAcc
      <4>1. f.inBud \in Nat /\ cl[c].inAcc \in Nat
        BY <1>0
      <4>2. f.inBud = f.inBud - cl[c].inAcc + cl[c].inAcc
        BY <4>1
      <4> QED
        BY <2>1, <2>3, <4>2
    <3> QED
      BY <1>0, <2>1, <3>1, <3>2, <3>3
  <2> QED
    BY <1>0, <1>2, <1>9, <2>1, <2>2, <2>3, <2>4, TurnLaw
<1>10. CASE Closes(F, C, T, c)
  <2>1. /\ DOMAIN C = Clients /\ \A d \in Clients \ {c} : C[d] = cl[d]
        /\ C[c] = y
    BY <1>0
  <2> HIDE DEF C
  <2>2. /\ C[c].inAcc \in Nat /\ C[c].outAcc \in Nat /\ C[c].held \in Nat
        /\ C[c].route = cl[c].route
        /\ F.inBud = f.inBud - cl[c].inAcc + C[c].inAcc
        /\ F.outBud = f.outBud - (cl[c].outAcc + cl[c].held)
                        + (C[c].outAcc + C[c].held)
    BY <1>0, <1>4, <1>5, <1>6, <1>7, <2>1
  <2> QED
    BY <1>0, <1>3, <1>6, <1>10, <2>1, <2>2, ClosesLaw DEF FrontendFrame
<1>11. CASE f' = F /\ src' = T /\ Goes(c, w)
  <2> DEFINE z == IF e = "close ext" THEN Waits(y) ELSE y
  <2>1. Alike(y, z) /\ DOMAIN z = CFields
    <3>1. Alike(y, Waits(y)) /\ Alike(y, y)
      BY <1>7, WaitsLaw DEF Alike
    <3> QED
      BY <1>7, <3>1 DEF Alike
  <2>2. w = AfterToken(z)
    OBVIOUS
  <2> HIDE DEF z, w
  <2>3. /\ DOMAIN w = CFields /\ w.outAcc = y.outAcc /\ w.inb = y.inb
        /\ w.inAcc = y.inAcc /\ w.out = y.out /\ w.held = y.held
        /\ w.pc \in {"idle", "packet"}
        /\ w.stage = y.stage /\ w.route = y.route
    BY <2>1, <2>2, AfterTokenLaw DEF Alike
  <2>4. ClientSound(w, Packets)
    BY <1>0, <1>4, <1>5, <1>7, <2>3 DEF ClientSound
  <2>5. /\ f'.inBud = f.inBud - cl[c].inAcc + w.inAcc
        /\ f'.outBud = f.outBud - (cl[c].outAcc + cl[c].held)
                         + (w.outAcc + w.held)
        /\ f'.outBud <= OutputTotal
    BY <1>0, <1>4, <1>5, <1>6, <1>7, <1>11, <2>3
  <2> QED
    BY <1>0, <1>3, <1>4, <1>6, <1>7, <1>11, <2>3, <2>4, <2>5, TurnLaw
<1> QED
  BY <1>1, <1>8, <1>9, <1>10, <1>11

LEMMA TokenNoEventStep ==
  ASSUME IInv, NEW c \in Clients, TokenNoEvent(c)
  PROVE  IInv'
<1>0. /\ SourceShape(src) /\ DOMAIN cl[c] = CFields /\ cl[c].stage = "me"
      /\ cl[c].pc = "no event"
  BY ClientFacts DEF ClientSound, TokenNoEvent
<1> DEFINE x == cl[c]
           late == ~x.processed /\ Terminal(src.b[c])
           S == [src EXCEPT !.b[c].observed = late \/ @]
           T == FinishToken(S, c)
           d == [x EXCEPT !.drain = TRUE]
           z == IF late THEN Waits(d) ELSE x
           w == AfterToken(z)
<1>1. \/ Closes(f, cl, src, c)
      \/ Goes(c, w) /\ src' = T /\ f' = f
  BY DEF TokenNoEvent
<1>2. SourceStep(src, src, c) /\ SourceStep(src, S, c)
  BY <1>0, SourceStays, ZenonT(60) DEF SourceStep, SourceShape, BFields
<1> HIDE DEF S
<1>3. SourceStep(src, T, c)
  <2>1. SourceStep(S, T, c)
    BY <1>2, AckLaw DEF FinishToken, SourceStep
  <2> QED
    BY <1>2, <2>1, SourceStepTransitive
<1>4. Alike(x, d) /\ DOMAIN d = CFields
  BY <1>0 DEF Alike, CFields
<1> HIDE DEF late, d
<1>5. Alike(x, z) /\ DOMAIN z = CFields
  <2>1. Alike(d, Waits(d)) /\ Alike(x, x)
    BY <1>4, WaitsLaw DEF Alike
  <2> QED
    BY <1>0, <1>4, <2>1 DEF Alike
<1> HIDE DEF z
<1>6. /\ DOMAIN w = CFields /\ w.inb = cl[c].inb /\ w.inAcc = cl[c].inAcc
      /\ w.out = cl[c].out /\ w.outAcc = cl[c].outAcc /\ w.held = cl[c].held
      /\ w.pc # "event" /\ w.stage = cl[c].stage /\ w.route = cl[c].route
  BY <1>5, AfterTokenLaw DEF Alike
<1> HIDE DEF w, T
<1> QED
  BY <1>0, <1>1, <1>2, <1>3, <1>6, ClosesAsIs, TurnKeeps

LEMMA TurnPacketStep ==
  ASSUME IInv, NEW c \in Clients, NEW waits \in BOOLEAN, TurnPacket(c, waits)
  PROVE  IInv'
<1>0. /\ FrontendShape(f) /\ SourceShape(src) /\ DOMAIN cl = Clients
      /\ ClientSound(cl[c], Packets) /\ cl[c].inb \in Seq(Packets)
      /\ cl[c].inAcc \in Nat /\ cl[c].outAcc \in Nat /\ cl[c].held = 0
      /\ f.inBud \in Nat /\ f.outBud \in Nat /\ f.outBud <= OutputTotal
      /\ OutputTotal \in Nat
      /\ DOMAIN cl[c] = CFields /\ cl[c].stage = "me" /\ cl[c].pc = "packet"
  BY ClientFacts DEF ClientSound, TurnPacket
<1> DEFINE x == cl[c]
           p == IF x.inb = <<>> THEN "none" ELSE Head(x.inb)
           y == CASE p = "pkt" -> Prepared([x EXCEPT !.inb = Tail(@)], waits)
                  [] p = "frag" -> [x EXCEPT !.inb[1] = "pkt", !.wake = TRUE]
                  [] OTHER -> x
           S == IF p # "pkt" THEN src
                ELSE [src EXCEPT !.b[c].req = IF waits THEN "waiting"
                                              ELSE "queued"]
           w == [[y EXCEPT !.inAcc = Retained(y)] EXCEPT !.pc = "idle",
                                                        !.processed = FALSE]
<1>1. \/ Closes(f, cl, src, c)
      \/ /\ f' = [f EXCEPT !.inBud = @ + InputDelta(y)]
         /\ Goes(c, w) /\ src' = S
  BY DEF TurnPacket, Idles
<1>2. SourceStep(src, src, c)
  BY <1>0, SourceStays
<1>3. SourceStep(src, S, c)
  <2>1. SourceStep(src, [src EXCEPT !.b[c].req = IF waits THEN "waiting"
                                                 ELSE "queued"], c)
    BY <1>0 DEF SourceStep, SourceShape, BFields
  <2> QED
    BY <1>2, <2>1
<1>4. /\ DOMAIN y = CFields /\ y.inb \in Seq(Packets)
      /\ y.inAcc = x.inAcc /\ y.out = x.out /\ y.outAcc = x.outAcc
      /\ y.held = x.held /\ y.stage = x.stage /\ y.route = x.route
  <2>1. CASE p = "pkt"
    <3>1. y = [[x EXCEPT !.inb = Tail(@)] EXCEPT !.await = TRUE, !.waiting = waits]
      BY <2>1 DEF Prepared
    <3>2. x.inb # <<>>
      BY <2>1
    <3>3. Tail(x.inb) \in Seq(Packets)
      BY <1>0, <3>2
    <3> HIDE DEF y, p
    <3> QED
      BY <1>0, <3>1, <3>3 DEF CFields
  <2>2. CASE p = "frag"
    <3>1. y = [x EXCEPT !.inb[1] = "pkt", !.wake = TRUE]
      BY <2>2
    <3>2. x.inb # <<>>
      BY <2>2
    <3> DEFINE q == [x.inb EXCEPT ![1] = "pkt"]
    <3>3. q \in Seq(Packets)
      <4>1. Len(x.inb) \in Nat /\ x.inb \in [1..Len(x.inb) -> Packets]
        BY <1>0
      <4>2. q \in [1..Len(x.inb) -> Packets]
        BY <4>1 DEF Packets
      <4> QED
        BY <4>1, <4>2
    <3>4. y = [x EXCEPT !.inb = q, !.wake = TRUE]
      BY <3>1
    <3> HIDE DEF y, p, q
    <3> QED
      BY <1>0, <3>3, <3>4 DEF CFields
  <2>3. CASE p # "pkt" /\ p # "frag"
    <3>1. y = x
      BY <2>3
    <3> HIDE DEF y, p
    <3> QED
      BY <1>0, <3>1
  <2> QED
    BY <2>1, <2>2, <2>3
<1> HIDE DEF y, p, S
<1>5. Retained(y) \in Nat
  BY <1>4, RetainedLaw
<1>6. /\ DOMAIN w = CFields /\ w.inb = y.inb /\ w.inAcc = Retained(y)
      /\ w.out = y.out /\ w.outAcc = y.outAcc /\ w.held = y.held
      /\ w.pc = "idle" /\ w.stage = y.stage /\ w.route = y.route
  BY <1>4 DEF CFields
<1> HIDE DEF w
<1>7. CASE Closes(f, cl, src, c)
  BY <1>0, <1>2, <1>7, ClosesAsIs
<1>8. CASE /\ f' = [f EXCEPT !.inBud = @ + InputDelta(y)]
           /\ Goes(c, w) /\ src' = S
  <2>1. /\ FrontendFrame(f') /\ f'.outBud = f.outBud
        /\ f'.inBud = f.inBud + InputDelta(y)
    BY <1>0, <1>8 DEF FrontendFrame, FrontendShape, FFields
  <2>2. InputDelta(y) = w.inAcc - cl[c].inAcc
    BY <1>4, <1>6 DEF InputDelta
  <2>3. ClientSound(w, Packets)
    BY <1>0, <1>4, <1>5, <1>6 DEF ClientSound
  <2>4. /\ f'.inBud = f.inBud - cl[c].inAcc + w.inAcc
        /\ f'.outBud = f.outBud - (cl[c].outAcc + cl[c].held)
                         + (w.outAcc + w.held)
        /\ f'.outBud <= OutputTotal
    BY <1>0, <1>4, <1>5, <1>6, <2>1, <2>2
  <2> QED
    BY <1>0, <1>3, <1>4, <1>6, <1>8, <2>1, <2>3, <2>4, TurnLaw
<1> QED
  BY <1>1, <1>7, <1>8

-----------------------------------------------------------------------------
LEMMA NextInv == IInv /\ [Next]_vars => IInv'
<1> SUFFICES ASSUME IInv, [Next]_vars PROVE IInv'
  OBVIOUS
<1>1. CASE UNCHANGED vars
  <2>1. f' = f /\ cl' = cl /\ src' = src /\ env' = env
    BY <1>1 DEF vars
  <2> QED
    BY <2>1, SoundBindings, FlagsLaw
<1>2. CASE Dispatch \/ Stop
  BY <1>2, DispatchStep
<1>3. CASE SourceDone
  BY <1>3, SourceDoneStep
<1>4. ASSUME NEW c \in Clients, Turn(c) PROVE IInv'
  BY <1>4, TurnBeginsStep, TokenReasonsStep, TokenOutputStep,
     TokenNoEventStep, TokenEventStep, TurnPacketStep DEF Turn
<1>5. ASSUME NEW c \in Clients,
             \/ \E how \in env.max.setup : Commit(c, how)
             \/ CommitUnroutes(c) \/ RetryFires(c) \/ DeadlinePasses(c)
             \/ ConnCloses(c)
      PROVE  IInv'
  BY <1>5, CommitStep, CommitUnroutesStep, TimerStep, ConnClosesStep
<1>6. ASSUME NEW c \in Clients,
             \/ (\E p \in env.max.packets : ClientSends(c, p)) \/ ClientReads(c)
             \/ (\E e \in env.max.events : SourceEvent(c, e))
             \/ SourceResult(c) \/ SourceReserves(c)
             \/ \E t \in env.max.terms : SourceTerminal(c, t)
      PROVE  IInv'
  BY <1>6, ClientActs, SourceActs
<1> QED
  BY <1>1, <1>2, <1>3, <1>4, <1>5, <1>6 DEF Next

(* The inductive invariant holds of the whole frontend: the budgets, every *)
(* client's account and its binding.                                       *)
THEOREM InvHolds == Spec => []IInv
  BY InitInv, NextInv, PTL DEF Spec

(* The shared budgets are exactly what the clients account for and output  *)
(* stays within its limit, for every number of clients and every limit.    *)
THEOREM BudgetsAreConserved == Spec => []BudgetsConserved
<1>1. IInv => BudgetsConserved
  BY DEF IInv, BudgetsSound, BudgetsConserved, InOf, OutOf
<1> QED
  BY <1>1, InvHolds, PTL

(* A client that was bound never becomes a direct fallback, and once it is *)
(* closed its binding is closed and nothing is left to acknowledge.        *)
THEOREM BindingIsIrreversible == Spec => []CommitIsIrreversible
<1>1. IInv => CommitIsIrreversible
  <2> SUFFICES ASSUME IInv, NEW c \in Clients, src.b[c].bound
               PROVE  /\ c \notin f.fallbacks /\ cl[c].stage # "direct"
                      /\ cl[c].stage = "closed" =>
                           /\ src.b[c].closed /\ ~HasReason(src.b[c])
                           /\ ~src.b[c].leased /\ ~Contains(src.q, c)
    BY DEF CommitIsIrreversible
  <2>1. BindingSound(c, f.fallbacks, cl[c], src.b[c], src.q)
    BY DEF IInv
  <2> QED
    BY <2>1 DEF BindingSound, Contains, Elements
<1> QED
  BY <1>1, InvHolds, PTL
===============================================================================
