--------------------------- MODULE WebManager_proofs ---------------------------
(***************************************************************************)
(* Proofs about the manager of WEB sessions, for any finite set of session *)
(* tokens, any number of concurrent requests and any limits that keep the  *)
(* control reserve of every session within the pending budget.             *)
(***************************************************************************)
EXTENDS MCWebManager, Data_proofs

MFields == {"boots", "drawn", "sessions", "made", "closed", "oldClosed",
            "streams", "dials", "pending", "down"}
SFields == {"st", "dialing", "running", "data", "ctl", "idle"}
BFields == {"used", "body", "ses", "old"}

(* The shape of the records.                                               *)
IsManager(M) == /\ DOMAIN M = MFields
                /\ M.drawn \in Nat /\ M.made \in Nat
                /\ M.streams \in Int /\ M.dials \in Int /\ M.pending \in Int

IsSession(r) ==
  /\ DOMAIN r = SFields
  /\ r.st \in {"none", "open", "closing", "finished"}
  /\ r.dialing \in Nat /\ r.running \in Nat /\ r.data \in Nat /\ r.ctl \in Nat

Shapes(M, s) == /\ IsManager(M)
                /\ DOMAIN s = Ids /\ \A i \in Ids : IsSession(s[i])

(* A bootstrap that was used knows its one session and body, and so does   *)
(* every answer that was given for it, even when it has been forgotten.    *)
IsBoot(r) == DOMAIN r = BFields /\ r.used \in BOOLEAN /\ r.ses \in Nat

BootsSound(boots, drawn, made, got) ==
  /\ DOMAIN boots \subseteq 1..drawn
  /\ \A b \in DOMAIN boots :
       IsBoot(boots[b]) /\ (boots[b].used => boots[b].ses \in 1..made)
  /\ \A a, b \in DOMAIN boots :
       boots[a].used /\ boots[b].used /\ boots[a].ses = boots[b].ses => a = b
  /\ \A g \in got :
       /\ g[1] \in 1..drawn /\ g[3] \in 1..made
       /\ g[1] \in DOMAIN boots =>
            boots[g[1]].used /\ boots[g[1]].ses = g[3] /\ boots[g[1]].body = g[2]
       /\ \A b \in DOMAIN boots :
            boots[b].used /\ boots[b].ses = g[3] => g[1] = b
  /\ \A g, h \in got : (g[1] = h[1]) <=> (g[3] = h[3] /\ g[2] = h[2])
  /\ \A g, h \in got : g[3] = h[3] => g[1] = h[1]

(* The sessions the manager keeps are those that were created and have not *)
(* finished; a session that is not open has returned what it charged, and  *)
(* one that has finished has no backend left.                              *)
SessionsSound(ses, made, s) ==
  /\ ses = {i \in Ids : s[i].st \in {"open", "closing"}}
  /\ Cardinality(ses) <= Lim.sessions
  /\ \A i \in Ids :
       /\ s[i].st = "none" <=> i > made
       /\ s[i].ctl <= Reserve
       /\ s[i].st # "open" => s[i].data = 0 /\ s[i].ctl = 0
       /\ s[i].st \in {"none", "finished"} =>
            s[i].dialing = 0 /\ s[i].running = 0

(* The budgets are the sums of what the sessions account for, and data     *)
(* stays out of the reserve for control.                                   *)
Dialing(s) == [i \in Ids |-> s[i].dialing]
Running(s) == [i \in Ids |-> s[i].running]
DataOf(s) == [i \in Ids |-> s[i].data]
CtlOf(s) == [i \in Ids |-> s[i].ctl]

BudgetsSound(M, s) ==
  /\ M.dials = SumOf(Dialing(s))
  /\ M.streams = SumOf(Dialing(s)) + SumOf(Running(s))
  /\ M.pending = SumOf(DataOf(s)) + SumOf(CtlOf(s))
  /\ SumOf(DataOf(s)) <= Lim.pending - Reserve * Lim.sessions

(* From the moment Shutdown took its copy no session is created, so that   *)
(* the copy has every session there is.                                    *)
ShutdownSound(sh, down, ses) ==
  /\ sh.left \subseteq Ids /\ sh.all \subseteq Ids
  /\ sh.pc # "no" => down /\ ses \subseteq sh.all
  /\ sh.pc = "done" => ses = {}

SweepSound(sw) == /\ DOMAIN sw = {"pc", "left", "target"}
                  /\ sw.left \subseteq Ids
                  /\ sw.pc = "close" => sw.target \in Ids

IInv ==
  /\ Shapes(m, se)
  /\ BootsSound(m.boots, m.drawn, m.made, env.got)
  /\ SessionsSound(m.sessions, m.made, se)
  /\ BudgetsSound(m, se)
  /\ ShutdownSound(shut, m.down, m.sessions)
  /\ SweepSound(sweep)
  /\ DOMAIN env = {"max", "calls", "got"}

-----------------------------------------------------------------------------
(* When the records of all sessions but i stay the same, each sum moves by *)
(* what changes for session i.                                             *)
LEMMA SumsMove ==
  ASSUME NEW s, DOMAIN s = Ids, \A j \in Ids : IsSession(s[j]),
         NEW t, DOMAIN t = Ids, \A j \in Ids : IsSession(t[j]),
         NEW i \in Ids, \A j \in Ids \ {i} : t[j] = s[j]
  PROVE  /\ SumOf(Dialing(t)) = SumOf(Dialing(s)) - s[i].dialing + t[i].dialing
         /\ SumOf(Running(t)) = SumOf(Running(s)) - s[i].running + t[i].running
         /\ SumOf(DataOf(t)) = SumOf(DataOf(s)) - s[i].data + t[i].data
         /\ SumOf(CtlOf(t)) = SumOf(CtlOf(s)) - s[i].ctl + t[i].ctl
<1>1. IsFiniteSet(Ids)
  BY ManagerAssumption
<1>2. /\ Dialing(s) \in [Ids -> Nat] /\ Dialing(t) \in [Ids -> Nat]
      /\ Running(s) \in [Ids -> Nat] /\ Running(t) \in [Ids -> Nat]
      /\ DataOf(s) \in [Ids -> Nat] /\ DataOf(t) \in [Ids -> Nat]
      /\ CtlOf(s) \in [Ids -> Nat] /\ CtlOf(t) \in [Ids -> Nat]
  BY DEF Dialing, Running, DataOf, CtlOf, IsSession
<1>3. SumOf(Dialing(t)) = SumOf(Dialing(s)) - s[i].dialing + t[i].dialing
  <2>1. \A j \in Ids \ {i} : Dialing(t)[j] = Dialing(s)[j]
    BY DEF Dialing
  <2>2. SumOf(Dialing(t)) = SumOf(Dialing(s)) - Dialing(s)[i] + Dialing(t)[i]
    BY <1>1, <1>2, <2>1, SumUpdate
  <2> QED
    BY <2>2 DEF Dialing
<1>4. SumOf(Running(t)) = SumOf(Running(s)) - s[i].running + t[i].running
  <2>1. \A j \in Ids \ {i} : Running(t)[j] = Running(s)[j]
    BY DEF Running
  <2>2. SumOf(Running(t)) = SumOf(Running(s)) - Running(s)[i] + Running(t)[i]
    BY <1>1, <1>2, <2>1, SumUpdate
  <2> QED
    BY <2>2 DEF Running
<1>5. SumOf(DataOf(t)) = SumOf(DataOf(s)) - s[i].data + t[i].data
  <2>1. \A j \in Ids \ {i} : DataOf(t)[j] = DataOf(s)[j]
    BY DEF DataOf
  <2>2. SumOf(DataOf(t)) = SumOf(DataOf(s)) - DataOf(s)[i] + DataOf(t)[i]
    BY <1>1, <1>2, <2>1, SumUpdate
  <2> QED
    BY <2>2 DEF DataOf
<1>6. SumOf(CtlOf(t)) = SumOf(CtlOf(s)) - s[i].ctl + t[i].ctl
  <2>1. \A j \in Ids \ {i} : CtlOf(t)[j] = CtlOf(s)[j]
    BY DEF CtlOf
  <2>2. SumOf(CtlOf(t)) = SumOf(CtlOf(s)) - CtlOf(s)[i] + CtlOf(t)[i]
    BY <1>1, <1>2, <2>1, SumUpdate
  <2> QED
    BY <2>2 DEF CtlOf
<1> QED
  BY <1>3, <1>4, <1>5, <1>6

(* The sums are natural numbers.                                           *)
LEMMA SumsTyped ==
  ASSUME NEW s, DOMAIN s = Ids, \A j \in Ids : IsSession(s[j])
  PROVE  /\ SumOf(Dialing(s)) \in Nat /\ SumOf(Running(s)) \in Nat
         /\ SumOf(DataOf(s)) \in Nat /\ SumOf(CtlOf(s)) \in Nat
<1>1. IsFiniteSet(Ids)
  BY ManagerAssumption
<1>2. /\ Dialing(s) \in [Ids -> Nat] /\ Running(s) \in [Ids -> Nat]
      /\ DataOf(s) \in [Ids -> Nat] /\ CtlOf(s) \in [Ids -> Nat]
  BY DEF Dialing, Running, DataOf, CtlOf, IsSession
<1> QED
  BY <1>1, <1>2, UnitsFinite

(* Nobody charges or runs anything at first.                               *)
LEMMA SumsZero ==
  ASSUME NEW s, DOMAIN s = Ids, \A j \in Ids : IsSession(s[j])
  PROVE  /\ SumOf(Dialing(s)) = 0 <=> \A i \in Ids : s[i].dialing = 0
         /\ SumOf(Running(s)) = 0 <=> \A i \in Ids : s[i].running = 0
         /\ SumOf(DataOf(s)) = 0 <=> \A i \in Ids : s[i].data = 0
         /\ SumOf(CtlOf(s)) = 0 <=> \A i \in Ids : s[i].ctl = 0
<1>1. IsFiniteSet(Ids)
  BY ManagerAssumption
<1>2. /\ Dialing(s) \in [Ids -> Nat] /\ Running(s) \in [Ids -> Nat]
      /\ DataOf(s) \in [Ids -> Nat] /\ CtlOf(s) \in [Ids -> Nat]
  BY DEF Dialing, Running, DataOf, CtlOf, IsSession
<1>3. /\ SumOf(Dialing(s)) = 0 <=> \A i \in Ids : Dialing(s)[i] = 0
      /\ SumOf(Running(s)) = 0 <=> \A i \in Ids : Running(s)[i] = 0
      /\ SumOf(DataOf(s)) = 0 <=> \A i \in Ids : DataOf(s)[i] = 0
      /\ SumOf(CtlOf(s)) = 0 <=> \A i \in Ids : CtlOf(s)[i] = 0
  BY <1>1, <1>2, SumZero
<1> QED
  BY <1>3 DEF Dialing, Running, DataOf, CtlOf

(* Initially there is nothing.                                             *)
LEMMA InitInv == Init => IInv
<1> SUFFICES ASSUME Init PROVE IInv
  OBVIOUS
<1>1. PICK max \in Scenarios :
        /\ env = [max |-> max, calls |-> max.calls, got |-> {}]
        /\ m = [boots |-> <<>>, drawn |-> 0, sessions |-> {}, made |-> 0,
                closed |-> <<>>, oldClosed |-> {}, streams |-> 0, dials |-> 0,
                pending |-> 0, down |-> FALSE]
        /\ se = [i \in Ids |-> [NewSession EXCEPT !.st = "none"]]
        /\ sweep = [pc |-> "wait", left |-> {}, target |-> NoSession]
        /\ shut = [pc |-> "no", left |-> {}, all |-> {}]
  BY DEF Init
<1>2. \A i \in Ids :
        se[i] = [st |-> "none", dialing |-> 0, running |-> 0, data |-> 0,
                 ctl |-> 0, idle |-> FALSE]
  BY <1>1 DEF NewSession
<1>3. Shapes(m, se)
  BY <1>1, <1>2 DEF Shapes, IsManager, MFields, IsSession, SFields
<1>4. BootsSound(m.boots, m.drawn, m.made, env.got)
  <2>1. m.boots = <<>> /\ DOMAIN m.boots = {} /\ env.got = {}
    BY <1>1
  <2> QED
    BY <2>1 DEF BootsSound
<1>5. SessionsSound(m.sessions, m.made, se)
  <2>1. m.sessions = {} /\ m.made = 0
    BY <1>1
  <2>2. Cardinality({}) = 0
    BY FS_EmptySet
  <2>3. m.sessions = {i \in Ids : se[i].st \in {"open", "closing"}}
    BY <1>2, <2>1
  <2>4. Cardinality(m.sessions) <= Lim.sessions
    BY <2>1, <2>2, ManagerAssumption
  <2>5. \A i \in Ids : i > m.made /\ 0 <= Reserve
    <3>1. \A i \in Ids : i \in Nat /\ i # 0
      BY ManagerAssumption
    <3>2. 0 <= Reserve
      BY ManagerAssumption
    <3> QED
      BY <2>1, <3>1, <3>2
  <2> QED
    BY <1>2, <2>3, <2>4, <2>5 DEF SessionsSound
<1>6. BudgetsSound(m, se)
  <2>1. /\ SumOf(Dialing(se)) = 0 /\ SumOf(Running(se)) = 0
        /\ SumOf(DataOf(se)) = 0 /\ SumOf(CtlOf(se)) = 0
    BY <1>2, <1>3, SumsZero DEF Shapes
  <2>2. Reserve * Lim.sessions \in Nat
    BY ManagerAssumption
  <2> QED
    BY <1>1, <2>1, <2>2, ManagerAssumption, ReserveFits DEF BudgetsSound
<1>7. ShutdownSound(shut, m.down, m.sessions) /\ SweepSound(sweep)
  BY <1>1 DEF ShutdownSound, SweepSound
<1>8. DOMAIN env = {"max", "calls", "got"}
  BY <1>1
<1> QED
  BY <1>3, <1>4, <1>5, <1>6, <1>7, <1>8 DEF IInv

-----------------------------------------------------------------------------
(* The parts of the invariant that a step of one session leaves alone.     *)
ManagerFrame ==
  /\ m'.boots = m.boots /\ m'.drawn = m.drawn /\ m'.made = m.made
  /\ m'.sessions = m.sessions /\ m'.down = m.down

(* A session that stays in the manager's table may run, charge, discharge  *)
(* and close, as long as the manager's counters follow and data is only    *)
(* charged below the reserve.                                              *)
LEMMA SessionMoves ==
  ASSUME IInv, Shapes(m', se'), ManagerFrame, NEW i \in Ids,
         \A j \in Ids \ {i} : se'[j] = se[j],
         se'[i].st \in {"open", "closing"} <=> se[i].st \in {"open", "closing"},
         se'[i].st = "none" <=> se[i].st = "none",
         se'[i].ctl <= Reserve,
         se'[i].st # "open" => se'[i].data = 0 /\ se'[i].ctl = 0,
         se'[i].st \in {"none", "finished"} =>
           se'[i].dialing = 0 /\ se'[i].running = 0,
         m'.dials = m.dials - se[i].dialing + se'[i].dialing,
         m'.streams = m.streams - se[i].dialing - se[i].running
                        + se'[i].dialing + se'[i].running,
         m'.pending = m.pending - se[i].data - se[i].ctl
                        + se'[i].data + se'[i].ctl,
         \/ se'[i].data <= se[i].data
         \/ m'.pending <= Lim.pending - Reserve * Lim.sessions
  PROVE  /\ BootsSound(m'.boots, m'.drawn, m'.made, env.got)
         /\ SessionsSound(m'.sessions, m'.made, se')
         /\ BudgetsSound(m', se')
<1>1. BootsSound(m'.boots, m'.drawn, m'.made, env.got)
  BY DEF IInv, ManagerFrame
<1>2. SessionsSound(m'.sessions, m'.made, se')
  <2>1. m'.sessions = {j \in Ids : se'[j].st \in {"open", "closing"}}
    BY DEF IInv, SessionsSound, ManagerFrame
  <2>2. Cardinality(m'.sessions) <= Lim.sessions
    BY DEF IInv, SessionsSound, ManagerFrame
  <2>3. ASSUME NEW j \in Ids
        PROVE  /\ se'[j].st = "none" <=> j > m'.made
               /\ se'[j].ctl <= Reserve
               /\ se'[j].st # "open" => se'[j].data = 0 /\ se'[j].ctl = 0
               /\ se'[j].st \in {"none", "finished"} =>
                    se'[j].dialing = 0 /\ se'[j].running = 0
    <3>1. CASE j = i
      BY <3>1 DEF IInv, SessionsSound, ManagerFrame
    <3>2. CASE j # i
      BY <3>2 DEF IInv, SessionsSound, ManagerFrame
    <3> QED
      BY <3>1, <3>2
  <2> QED
    BY <2>1, <2>2, <2>3 DEF SessionsSound
<1>3. BudgetsSound(m', se')
  <2>1. /\ DOMAIN se = Ids /\ \A j \in Ids : IsSession(se[j])
        /\ DOMAIN se' = Ids /\ \A j \in Ids : IsSession(se'[j])
    BY DEF IInv, Shapes
  <2> DEFINE A == SumOf(Dialing(se))
             B == SumOf(Running(se))
             C == SumOf(DataOf(se))
             D == SumOf(CtlOf(se))
             A1 == SumOf(Dialing(se'))
             B1 == SumOf(Running(se'))
             C1 == SumOf(DataOf(se'))
             D1 == SumOf(CtlOf(se'))
  <2>2. /\ A1 = A - se[i].dialing + se'[i].dialing
        /\ B1 = B - se[i].running + se'[i].running
        /\ C1 = C - se[i].data + se'[i].data
        /\ D1 = D - se[i].ctl + se'[i].ctl
    BY <2>1, SumsMove
  <2>3. /\ A \in Nat /\ B \in Nat /\ C \in Nat /\ D \in Nat
        /\ A1 \in Nat /\ B1 \in Nat /\ C1 \in Nat /\ D1 \in Nat
    BY <2>1, SumsTyped
  <2>4. /\ m.dials = A /\ m.streams = A + B /\ m.pending = C + D
        /\ C <= Lim.pending - Reserve * Lim.sessions
    BY DEF IInv, BudgetsSound
  <2>5. /\ se[i].dialing \in Nat /\ se'[i].dialing \in Nat
        /\ se[i].running \in Nat /\ se'[i].running \in Nat
        /\ se[i].data \in Nat /\ se'[i].data \in Nat
        /\ se[i].ctl \in Nat /\ se'[i].ctl \in Nat
    BY <2>1 DEF IsSession
  <2>6. Lim.pending - Reserve * Lim.sessions \in Int
    BY ManagerAssumption
  <2> HIDE DEF A, B, C, D, A1, B1, C1, D1
  <2>7. m'.dials = A1 /\ m'.streams = A1 + B1
    BY <2>2, <2>3, <2>4, <2>5
  <2>8. m'.pending = C1 + D1
    BY <2>2, <2>3, <2>4, <2>5
  <2>9. C1 <= Lim.pending - Reserve * Lim.sessions
    <3> DEFINE L == Lim.pending - Reserve * Lim.sessions
    <3>1. L \in Int /\ C <= L /\ (se'[i].data <= se[i].data \/ m'.pending <= L)
      BY <2>4, <2>6
    <3> HIDE DEF L
    <3>2. C1 <= L
      BY <2>2, <2>3, <2>5, <2>8, <3>1
    <3> QED
      BY <3>2 DEF L
  <2> QED
    BY <2>7, <2>8, <2>9 DEF BudgetsSound, A1, B1, C1, D1
<1> QED
  BY <1>1, <1>2, <1>3

(* What holds of the record of one session.                                *)
SessionBound(r) ==
  /\ r.ctl <= Reserve
  /\ r.st # "open" => r.data = 0 /\ r.ctl = 0
  /\ r.st \in {"none", "finished"} => r.dialing = 0 /\ r.running = 0

(* The manager's counters follow a session whose record q becomes r.       *)
Follows(q, r) ==
  /\ m'.dials = m.dials - q.dialing + r.dialing
  /\ m'.streams = m.streams - q.dialing - q.running + r.dialing + r.running
  /\ m'.pending = m.pending - q.data - q.ctl + r.data + r.ctl

(* A step of one session alone.                                            *)
LEMMA SessionStep ==
  ASSUME IInv, NEW i \in Ids, NEW r, IsSession(r), r.st = se[i].st,
         SessionBound(r), IsManager(m'), ManagerFrame, Follows(se[i], r),
         \/ r.data <= se[i].data
         \/ m'.pending <= Lim.pending - Reserve * Lim.sessions,
         se' = [se EXCEPT ![i] = r], UNCHANGED <<sweep, shut, env>>
  PROVE  IInv'
<1>1. /\ se'[i] = r /\ \A j \in Ids \ {i} : se'[j] = se[j]
      /\ Shapes(m', se')
  BY DEF IInv, Shapes
<1>2. /\ BootsSound(m'.boots, m'.drawn, m'.made, env.got)
      /\ SessionsSound(m'.sessions, m'.made, se')
      /\ BudgetsSound(m', se')
  BY <1>1, SessionMoves DEF SessionBound, Follows
<1>3. ShutdownSound(shut', m'.down, m'.sessions) /\ SweepSound(sweep')
  BY DEF IInv, ManagerFrame
<1> QED
  BY <1>1, <1>2, <1>3 DEF IInv

(* A stream is opened.                                                     *)
LEMMA AcquireStreamInv ==
  ASSUME IInv, NEW i \in Ids, AcquireStream(i) PROVE IInv'
<1> DEFINE r == [se[i] EXCEPT !.dialing = @ + 1]
<1>1. IsManager(m) /\ IsSession(se[i]) /\ SessionBound(se[i])
  BY DEF IInv, Shapes, SessionsSound, SessionBound
<1>2. se' = [se EXCEPT ![i] = r] /\ UNCHANGED <<sweep, shut, env>>
  BY <1>1 DEF AcquireStream, IsSession, SFields
<1>3. /\ IsSession(r) /\ r.st = se[i].st /\ SessionBound(r)
      /\ IsManager(m') /\ ManagerFrame /\ Follows(se[i], r)
  BY <1>1, ManagerAssumption
     DEF AcquireStream, SessionBound, IsSession, SFields, IsManager, MFields,
         ManagerFrame, Follows
<1>4. r.data <= se[i].data \/ m'.pending <= Lim.pending - Reserve * Lim.sessions
  BY <1>1 DEF IsSession, SFields
<1> HIDE DEF r
<1> QED
  BY <1>2, <1>3, <1>4, SessionStep

(* A dial ends.                                                            *)
LEMMA DialFinishedInv ==
  ASSUME IInv, NEW i \in Ids, BackendDialFinished(i) PROVE IInv'
<1> DEFINE r == [se[i] EXCEPT !.dialing = @ - 1, !.running = @ + 1]
<1>1. IsManager(m) /\ IsSession(se[i]) /\ SessionBound(se[i])
  BY DEF IInv, Shapes, SessionsSound, SessionBound
<1>2. se' = [se EXCEPT ![i] = r] /\ UNCHANGED <<sweep, shut, env>>
  BY <1>1 DEF BackendDialFinished, IsSession, SFields
<1>3. /\ IsSession(r) /\ r.st = se[i].st /\ SessionBound(r)
      /\ IsManager(m') /\ ManagerFrame /\ Follows(se[i], r)
  BY <1>1, ManagerAssumption
     DEF BackendDialFinished, SessionBound, IsSession, SFields, IsManager, MFields,
         ManagerFrame, Follows
<1>4. r.data <= se[i].data \/ m'.pending <= Lim.pending - Reserve * Lim.sessions
  BY <1>1 DEF IsSession, SFields
<1> HIDE DEF r
<1> QED
  BY <1>2, <1>3, <1>4, SessionStep

(* A stream ends.                                                          *)
LEMMA StreamFinishedInv ==
  ASSUME IInv, NEW i \in Ids, StreamFinished(i) PROVE IInv'
<1> DEFINE r == [se[i] EXCEPT !.running = @ - 1]
<1>1. IsManager(m) /\ IsSession(se[i]) /\ SessionBound(se[i])
  BY DEF IInv, Shapes, SessionsSound, SessionBound
<1>2. se' = [se EXCEPT ![i] = r] /\ UNCHANGED <<sweep, shut, env>>
  BY <1>1 DEF StreamFinished, IsSession, SFields
<1>3. /\ IsSession(r) /\ r.st = se[i].st /\ SessionBound(r)
      /\ IsManager(m') /\ ManagerFrame /\ Follows(se[i], r)
  BY <1>1, ManagerAssumption
     DEF StreamFinished, SessionBound, IsSession, SFields, IsManager, MFields,
         ManagerFrame, Follows
<1>4. r.data <= se[i].data \/ m'.pending <= Lim.pending - Reserve * Lim.sessions
  BY <1>1 DEF IsSession, SFields
<1> HIDE DEF r
<1> QED
  BY <1>2, <1>3, <1>4, SessionStep

(* Data is charged below the reserve.                                      *)
LEMMA ChargeDataInv ==
  ASSUME IInv, NEW i \in Ids, Charge(i, "data") PROVE IInv'
<1> DEFINE r == [se[i] EXCEPT !.data = @ + 1]
<1>1. IsManager(m) /\ IsSession(se[i]) /\ SessionBound(se[i])
  BY DEF IInv, Shapes, SessionsSound, SessionBound
<1>2. se' = [se EXCEPT ![i] = r] /\ UNCHANGED <<sweep, shut, env>>
  BY <1>1 DEF Charge, IsSession, SFields
<1>3. /\ IsSession(r) /\ r.st = se[i].st /\ SessionBound(r)
      /\ IsManager(m') /\ ManagerFrame /\ Follows(se[i], r)
  BY <1>1, ManagerAssumption
     DEF Charge, SessionBound, IsSession, SFields, IsManager, MFields,
         ManagerFrame, Follows
<1>4. r.data <= se[i].data \/ m'.pending <= Lim.pending - Reserve * Lim.sessions
  <2>1. /\ m.pending < Lim.pending - Reserve * Lim.sessions
        /\ m'.pending = m.pending + 1
    BY <1>1 DEF Charge, MayCharge, PendingLimit, IsManager, MFields
  <2>2. Lim.pending - Reserve * Lim.sessions \in Int /\ m.pending \in Int
    BY <1>1, ManagerAssumption DEF IsManager
  <2> QED
    BY <2>1, <2>2
<1> HIDE DEF r
<1> QED
  BY <1>2, <1>3, <1>4, SessionStep

(* Control is charged within the reserve of its session.                   *)
LEMMA ChargeControlInv ==
  ASSUME IInv, NEW i \in Ids, Charge(i, "ctl") PROVE IInv'
<1> DEFINE r == [se[i] EXCEPT !.ctl = @ + 1]
<1>1. IsManager(m) /\ IsSession(se[i]) /\ SessionBound(se[i])
  BY DEF IInv, Shapes, SessionsSound, SessionBound
<1>2. se' = [se EXCEPT ![i] = r] /\ UNCHANGED <<sweep, shut, env>>
  BY <1>1 DEF Charge, IsSession, SFields
<1>3. /\ IsSession(r) /\ r.st = se[i].st /\ SessionBound(r)
      /\ IsManager(m') /\ ManagerFrame /\ Follows(se[i], r)
  BY <1>1, ManagerAssumption
     DEF Charge, SessionBound, IsSession, SFields, IsManager, MFields,
         ManagerFrame, Follows
<1>4. r.data <= se[i].data \/ m'.pending <= Lim.pending - Reserve * Lim.sessions
  BY <1>1 DEF IsSession, SFields
<1> HIDE DEF r
<1> QED
  BY <1>2, <1>3, <1>4, SessionStep

(* Data is discharged.                                                     *)
LEMMA DischargeDataInv ==
  ASSUME IInv, NEW i \in Ids, Discharge(i, "data") PROVE IInv'
<1> DEFINE r == [se[i] EXCEPT !.data = @ - 1]
<1>1. IsManager(m) /\ IsSession(se[i]) /\ SessionBound(se[i])
  BY DEF IInv, Shapes, SessionsSound, SessionBound
<1>2. se' = [se EXCEPT ![i] = r] /\ UNCHANGED <<sweep, shut, env>>
  BY <1>1 DEF Discharge, IsSession, SFields
<1>3. /\ IsSession(r) /\ r.st = se[i].st /\ SessionBound(r)
      /\ IsManager(m') /\ ManagerFrame /\ Follows(se[i], r)
  BY <1>1, ManagerAssumption
     DEF Discharge, SessionBound, IsSession, SFields, IsManager, MFields,
         ManagerFrame, Follows
<1>4. r.data <= se[i].data \/ m'.pending <= Lim.pending - Reserve * Lim.sessions
  BY <1>1 DEF IsSession, SFields
<1> HIDE DEF r
<1> QED
  BY <1>2, <1>3, <1>4, SessionStep

(* Control is discharged.                                                  *)
LEMMA DischargeControlInv ==
  ASSUME IInv, NEW i \in Ids, Discharge(i, "ctl") PROVE IInv'
<1> DEFINE r == [se[i] EXCEPT !.ctl = @ - 1]
<1>1. IsManager(m) /\ IsSession(se[i]) /\ SessionBound(se[i])
  BY DEF IInv, Shapes, SessionsSound, SessionBound
<1>2. se' = [se EXCEPT ![i] = r] /\ UNCHANGED <<sweep, shut, env>>
  BY <1>1 DEF Discharge, IsSession, SFields
<1>3. /\ IsSession(r) /\ r.st = se[i].st /\ SessionBound(r)
      /\ IsManager(m') /\ ManagerFrame /\ Follows(se[i], r)
  BY <1>1, ManagerAssumption
     DEF Discharge, SessionBound, IsSession, SFields, IsManager, MFields,
         ManagerFrame, Follows
<1>4. r.data <= se[i].data \/ m'.pending <= Lim.pending - Reserve * Lim.sessions
  BY <1>1 DEF IsSession, SFields
<1> HIDE DEF r
<1> QED
  BY <1>2, <1>3, <1>4, SessionStep

(* The peer of a session falls silent.                                     *)
LEMMA GoesIdleInv ==
  ASSUME IInv, NEW i \in Ids, GoesIdle(i) PROVE IInv'
<1> DEFINE r == [se[i] EXCEPT !.idle = TRUE]
<1>1. IsManager(m) /\ IsSession(se[i]) /\ SessionBound(se[i])
  BY DEF IInv, Shapes, SessionsSound, SessionBound
<1>2. se' = [se EXCEPT ![i] = r] /\ UNCHANGED <<sweep, shut, env>>
  BY <1>1 DEF GoesIdle, IsSession, SFields
<1>3. /\ IsSession(r) /\ r.st = se[i].st /\ SessionBound(r)
      /\ IsManager(m') /\ ManagerFrame /\ Follows(se[i], r)
  BY <1>1, ManagerAssumption
     DEF GoesIdle, SessionBound, IsSession, SFields, IsManager, MFields,
         ManagerFrame, Follows
<1>4. r.data <= se[i].data \/ m'.pending <= Lim.pending - Reserve * Lim.sessions
  BY <1>1 DEF IsSession, SFields
<1> HIDE DEF r
<1> QED
  BY <1>2, <1>3, <1>4, SessionStep

(* The peer of a session is heard again.                                   *)
LEMMA GetInv ==
  ASSUME IInv, NEW i \in Ids, Get(i) PROVE IInv'
<1> DEFINE r == [se[i] EXCEPT !.idle = FALSE]
<1>1. IsManager(m) /\ IsSession(se[i]) /\ SessionBound(se[i])
  BY DEF IInv, Shapes, SessionsSound, SessionBound
<1>2. se' = [se EXCEPT ![i] = r] /\ UNCHANGED <<sweep, shut, env>>
  BY <1>1 DEF Get, IsSession, SFields
<1>3. /\ IsSession(r) /\ r.st = se[i].st /\ SessionBound(r)
      /\ IsManager(m') /\ ManagerFrame /\ Follows(se[i], r)
  BY <1>1, ManagerAssumption
     DEF Get, SessionBound, IsSession, SFields, IsManager, MFields,
         ManagerFrame, Follows
<1>4. r.data <= se[i].data \/ m'.pending <= Lim.pending - Reserve * Lim.sessions
  BY <1>1 DEF IsSession, SFields
<1> HIDE DEF r
<1> QED
  BY <1>2, <1>3, <1>4, SessionStep

-----------------------------------------------------------------------------
(* Forgetting bootstraps does not lose what was answered for them.         *)
LEMMA BootsForgotten ==
  ASSUME NEW boots, NEW drawn, NEW made, NEW got, NEW S,
         BootsSound(boots, drawn, made, got)
  PROVE  BootsSound(Without(boots, S), drawn, made, got)
<1>1. /\ DOMAIN Without(boots, S) = DOMAIN boots \ S
      /\ \A b \in DOMAIN boots \ S : Without(boots, S)[b] = boots[b]
  BY DEF Without
<1> HIDE DEF Without
<1> QED
  BY <1>1 DEF BootsSound

(* A step that only touches the bootstraps.                                *)
LEMMA BootStep ==
  ASSUME IInv, IsManager(m'), m'.sessions = m.sessions, m'.made = m.made,
         m'.down = m.down, m'.streams = m.streams, m'.dials = m.dials,
         m'.pending = m.pending,
         BootsSound(m'.boots, m'.drawn, m'.made, env'.got),
         DOMAIN env' = {"max", "calls", "got"},
         UNCHANGED <<se, shut>>, SweepSound(sweep')
  PROVE  IInv'
<1>1. Shapes(m', se') /\ SessionsSound(m'.sessions, m'.made, se')
  BY DEF IInv, Shapes
<1>2. BudgetsSound(m', se')
  BY DEF IInv, BudgetsSound
<1>3. ShutdownSound(shut', m'.down, m'.sessions)
  BY DEF IInv
<1> QED
  BY <1>1, <1>2, <1>3 DEF IInv

(* RemoveExpired only forgets bootstraps and remembered sessions.          *)
LEMMA RemoveExpiredFrame ==
  ASSUME NEW M, IsManager(M), NEW N, N = RemoveExpired(M)
  PROVE  /\ IsManager(N) /\ \E S : N.boots = Without(M.boots, S)
         /\ N.drawn = M.drawn /\ N.made = M.made /\ N.sessions = M.sessions
         /\ N.down = M.down /\ N.streams = M.streams /\ N.dials = M.dials
         /\ N.pending = M.pending
BY DEF RemoveExpired, IsManager, MFields

(* A bootstrap is issued: its token was never seen before.                 *)
LEMMA IssueBootstrapInv ==
  ASSUME IInv, IssueBootstrap PROVE IInv'
<1> DEFINE M == RemoveExpired(m)
           N == IF Cardinality(DOMAIN M.boots) >= Lim.boots
                THEN EvictOldestUnused(M) ELSE M
           full == Cardinality(DOMAIN N.boots) >= Lim.boots
<1>1. m' = IF full THEN N
           ELSE [N EXCEPT !.boots = With(@, N.drawn + 1, NewBoot),
                          !.drawn = @ + 1]
  BY DEF IssueBootstrap
<1>2. IsManager(m) /\ BootsSound(m.boots, m.drawn, m.made, env.got)
  BY DEF IInv, Shapes
<1>3. /\ IsManager(M) /\ BootsSound(M.boots, M.drawn, M.made, env.got)
      /\ M.made = m.made /\ M.sessions = m.sessions /\ M.down = m.down
      /\ M.streams = m.streams /\ M.dials = m.dials /\ M.pending = m.pending
  <2>1. /\ IsManager(M) /\ \E S : M.boots = Without(m.boots, S)
        /\ M.drawn = m.drawn /\ M.made = m.made /\ M.sessions = m.sessions
        /\ M.down = m.down /\ M.streams = m.streams /\ M.dials = m.dials
        /\ M.pending = m.pending
    BY <1>2, RemoveExpiredFrame
  <2> HIDE DEF M
  <2> QED
    BY <1>2, <2>1, BootsForgotten
<1> HIDE DEF M
<1>4. /\ IsManager(N) /\ BootsSound(N.boots, N.drawn, N.made, env.got)
      /\ N.made = m.made /\ N.sessions = m.sessions /\ N.down = m.down
      /\ N.streams = m.streams /\ N.dials = m.dials /\ N.pending = m.pending
  <2>1. CASE N = M
    BY <1>3, <2>1
  <2>2. CASE N # M
    <3>1. PICK S : N = [M EXCEPT !.boots = Without(@, S)]
      BY <2>2 DEF EvictOldestUnused
    <3> HIDE DEF N
    <3>2. /\ N.boots = Without(M.boots, S) /\ N.drawn = M.drawn
          /\ IsManager(N) /\ N.made = M.made /\ N.sessions = M.sessions
          /\ N.down = M.down /\ N.streams = M.streams /\ N.dials = M.dials
          /\ N.pending = M.pending
      BY <1>3, <3>1 DEF IsManager, MFields
    <3> QED
      BY <1>3, <3>2, BootsForgotten
  <2> QED
    BY <2>1, <2>2
<1> HIDE DEF N, full
<1>5. UNCHANGED <<se, shut, sweep, env>>
  BY DEF IssueBootstrap
<1>6. CASE full
  BY <1>1, <1>4, <1>5, <1>6, BootStep DEF IInv
<1>7. CASE ~full
  <2>1. /\ m'.boots = With(N.boots, N.drawn + 1, NewBoot)
        /\ m'.drawn = N.drawn + 1
        /\ IsManager(m') /\ m'.made = N.made /\ m'.sessions = N.sessions
        /\ m'.down = N.down /\ m'.streams = N.streams /\ m'.dials = N.dials
        /\ m'.pending = N.pending
    BY <1>1, <1>4, <1>7 DEF IsManager, MFields
  <2>2. BootsSound(m'.boots, m'.drawn, m'.made, env'.got)
    <3> DEFINE n == N.drawn + 1
    <3>1. /\ DOMAIN m'.boots = DOMAIN N.boots \cup {n}
          /\ \A b \in DOMAIN N.boots : b # n /\ m'.boots[b] = N.boots[b]
          /\ m'.boots[n] = NewBoot /\ N.drawn \in Nat
      BY <1>4, <2>1 DEF With, BootsSound, IsManager
    <3>2. ~NewBoot.used /\ IsBoot(NewBoot)
      BY DEF NewBoot, IsBoot, BFields, NoSession
    <3>3. /\ DOMAIN m'.boots \subseteq 1..m'.drawn
          /\ \A g \in env'.got : g[1] \in 1..m'.drawn /\ g[1] # n
      BY <1>4, <1>5, <2>1, <3>1 DEF BootsSound
    <3> HIDE DEF n
    <3> QED
      BY <1>4, <1>5, <2>1, <3>1, <3>2, <3>3 DEF BootsSound
  <2> QED
    BY <1>4, <1>5, <2>1, <2>2, BootStep DEF IInv
<1> QED
  BY <1>6, <1>7

(* bootstrapAuthenticated forgets an expired bootstrap.                    *)
LEMMA ForgetExpiredInv ==
  ASSUME IInv, NEW b, m' = ForgetExpired(b), env'.got = env.got,
         DOMAIN env' = {"max", "calls", "got"}, UNCHANGED <<se, shut, sweep>>
  PROVE  IInv'
<1>1. IsManager(m) /\ BootsSound(m.boots, m.drawn, m.made, env.got)
  BY DEF IInv, Shapes
<1>2. CASE m' = m
  BY <1>1, <1>2, BootStep DEF IInv
<1>3. CASE m' = [m EXCEPT !.boots = Without(@, {b})]
  <2>1. /\ m'.boots = Without(m.boots, {b}) /\ m'.drawn = m.drawn
        /\ IsManager(m') /\ m'.made = m.made /\ m'.sessions = m.sessions
        /\ m'.down = m.down /\ m'.streams = m.streams /\ m'.dials = m.dials
        /\ m'.pending = m.pending
    BY <1>1, <1>3 DEF IsManager, MFields
  <2>2. BootsSound(m'.boots, m'.drawn, m'.made, env'.got)
    BY <1>1, <2>1, BootsForgotten
  <2> QED
    BY <2>1, <2>2, BootStep DEF IInv
<1> QED
  BY <1>2, <1>3 DEF ForgetExpired

(* The expiry worker's tick.                                               *)
LEMMA TickInv == ASSUME IInv, Tick PROVE IInv'
<1>1. IsManager(m) /\ BootsSound(m.boots, m.drawn, m.made, env.got)
  BY DEF IInv, Shapes
<1>2. m' = RemoveExpired(m) /\ UNCHANGED <<se, shut, env>>
  BY DEF Tick
<1>3. /\ IsManager(m') /\ BootsSound(m'.boots, m'.drawn, m'.made, env.got)
      /\ m'.made = m.made /\ m'.sessions = m.sessions /\ m'.down = m.down
      /\ m'.streams = m.streams /\ m'.dials = m.dials
      /\ m'.pending = m.pending
  <2>1. /\ IsManager(m') /\ \E S : m'.boots = Without(m.boots, S)
        /\ m'.drawn = m.drawn /\ m'.made = m.made
        /\ m'.sessions = m.sessions /\ m'.down = m.down
        /\ m'.streams = m.streams /\ m'.dials = m.dials
        /\ m'.pending = m.pending
    BY <1>1, <1>2, RemoveExpiredFrame
  <2> QED
    BY <1>1, <2>1, BootsForgotten
<1>4. SweepSound(sweep')
  <2>1. m.sessions \subseteq Ids
    BY DEF IInv, SessionsSound
  <2> QED
    BY <2>1 DEF Tick, IInv, SweepSound
<1> QED
  BY <1>2, <1>3, <1>4, BootStep DEF IInv

(* Bootstraps and remembered sessions age.                                 *)
LEMMA LifetimeInv == ASSUME IInv, Lifetime PROVE IInv'
<1>1. IsManager(m) /\ BootsSound(m.boots, m.drawn, m.made, env.got)
  BY DEF IInv, Shapes
<1>2. UNCHANGED <<se, shut, sweep, env>>
  BY DEF Lifetime
<1>3. CASE \E b \in DOMAIN m.boots : m' = [m EXCEPT !.boots[b].old = TRUE]
  <2>1. PICK b \in DOMAIN m.boots : m' = [m EXCEPT !.boots[b].old = TRUE]
    BY <1>3
  <2>2. /\ m'.boots = [m.boots EXCEPT ![b] = [@ EXCEPT !.old = TRUE]]
        /\ m'.drawn = m.drawn
        /\ IsManager(m') /\ m'.made = m.made /\ m'.sessions = m.sessions
        /\ m'.down = m.down /\ m'.streams = m.streams /\ m'.dials = m.dials
        /\ m'.pending = m.pending
    BY <1>1, <2>1 DEF IsManager, MFields
  <2>3. /\ DOMAIN m'.boots = DOMAIN m.boots
        /\ \A a \in DOMAIN m.boots :
             /\ IsBoot(m'.boots[a]) /\ m'.boots[a].used = m.boots[a].used
             /\ m'.boots[a].ses = m.boots[a].ses
             /\ m'.boots[a].body = m.boots[a].body
    BY <1>1, <2>2 DEF BootsSound, IsBoot, BFields
  <2>4. BootsSound(m'.boots, m'.drawn, m'.made, env'.got)
    <3>1. m'.drawn = m.drawn /\ m'.made = m.made /\ env' = env
      BY <1>2, <2>2
    <3> QED
      BY <1>1, <2>3, <3>1 DEF BootsSound
  <2> QED
    BY <1>2, <2>2, <2>4, BootStep DEF IInv
<1>4. CASE \E i : m' = [m EXCEPT !.oldClosed = @ \cup {i}]
  <2>1. /\ m'.boots = m.boots /\ m'.drawn = m.drawn
        /\ IsManager(m') /\ m'.made = m.made /\ m'.sessions = m.sessions
        /\ m'.down = m.down /\ m'.streams = m.streams /\ m'.dials = m.dials
        /\ m'.pending = m.pending
    BY <1>1, <1>4 DEF IsManager, MFields
  <2> QED
    BY <1>1, <1>2, <2>1, BootStep DEF IInv
<1> QED
  BY <1>3, <1>4 DEF Lifetime

-----------------------------------------------------------------------------
(* Create: a retry is given the session of the first request, a fresh      *)
(* bootstrap a session that nobody was given before.                       *)
LEMMA CreateInv == ASSUME IInv, NEW x \in Calls, Create(x) PROVE IInv'
<1> DEFINE b == call[x].b
           e == m.boots[b]
           i == m.made + 1
           body == call[x].body
           fresh == /\ Authenticated(b) /\ ~e.used /\ ~m.down
                    /\ Cardinality(m.sessions) < Lim.sessions /\ i \in Ids
<1>1. IsManager(m) /\ BootsSound(m.boots, m.drawn, m.made, env.got)
  BY DEF IInv, Shapes
<1>2. UNCHANGED <<sweep, shut>>
  BY DEF Create
<1>3. CASE /\ Authenticated(b) /\ e.used /\ e.body = body
           /\ env' = [env EXCEPT !.got = @ \cup {<<b, body, e.ses>>}]
           /\ UNCHANGED <<m, se>>
  <2>1. b \in DOMAIN m.boots /\ m.drawn \in Nat /\ m.made \in Nat
    BY <1>1, <1>3 DEF Authenticated, IsManager
  <2>2. /\ env'.got = env.got \cup {<<b, body, e.ses>>}
        /\ DOMAIN env' = {"max", "calls", "got"}
    BY <1>3 DEF IInv
  <2> DEFINE g == <<b, body, e.ses>>
  <2>3. g[1] = b /\ g[2] = e.body /\ g[3] = e.ses
    BY <1>3
  <2> HIDE DEF b, e, body, g
  <2>4. BootsSound(m.boots, m.drawn, m.made, env.got \cup {g})
    BY <1>1, <1>3, <2>1, <2>3 DEF BootsSound, e
  <2>5. BootsSound(m'.boots, m'.drawn, m'.made, env'.got)
    BY <1>3, <2>2, <2>4 DEF g
  <2> QED
    BY <1>1, <1>2, <1>3, <2>2, <2>5, BootStep DEF IInv
<1>4. CASE /\ fresh
           /\ env' = [env EXCEPT !.got = @ \cup {<<b, body, i>>}]
           /\ m' = [m EXCEPT !.sessions = @ \cup {i}, !.made = i,
                       !.boots[b] = [@ EXCEPT !.used = TRUE, !.ses = i,
                                              !.body = body]]
           /\ se' = [se EXCEPT ![i] = NewSession]
  <2> DEFINE g == <<b, body, i>>
             r == [e EXCEPT !.used = TRUE, !.ses = i, !.body = body]
  <2>1. b \in DOMAIN m.boots /\ m.drawn \in Nat /\ m.made \in Nat /\ ~e.used
    BY <1>1, <1>4 DEF Authenticated, IsManager
  <2>2. /\ m'.boots = [m.boots EXCEPT ![b] = r] /\ m'.drawn = m.drawn
        /\ m'.made = i /\ m'.sessions = m.sessions \cup {i}
        /\ m'.down = m.down /\ m'.streams = m.streams /\ m'.dials = m.dials
        /\ m'.pending = m.pending /\ IsManager(m')
    BY <1>1, <1>4, <2>1 DEF IsManager, MFields
  <2>3. /\ env'.got = env.got \cup {g}
        /\ DOMAIN env' = {"max", "calls", "got"}
    BY <1>4 DEF IInv
  <2>4. BootsSound(m'.boots, m'.drawn, m'.made, env'.got)
    <3>1. g[1] = b /\ g[2] = body /\ g[3] = i
      OBVIOUS
    <3>2. IsBoot(e) /\ IsBoot(r) /\ r.used /\ r.ses = i /\ r.body = body
      BY <1>1, <2>1 DEF BootsSound, IsBoot, BFields
    <3>3. /\ DOMAIN m'.boots = DOMAIN m.boots /\ m'.boots[b] = r
          /\ \A a \in DOMAIN m.boots \ {b} : m'.boots[a] = m.boots[a]
      BY <2>1, <2>2
    <3>4. /\ \A h \in env.got : h[1] # b /\ h[3] # i /\ h[3] \in 1..i
          /\ \A a \in DOMAIN m.boots : m.boots[a].used =>
               m.boots[a].ses # i /\ m.boots[a].ses \in 1..i
          /\ i \in 1..i
      BY <1>1, <2>1 DEF BootsSound
    <3> HIDE DEF b, e, body, i, g, r
    <3> QED
      BY <1>1, <2>1, <2>2, <2>3, <3>1, <3>2, <3>3, <3>4 DEF BootsSound
  <2>5. i \in Ids /\ i \in Nat /\ Cardinality(m.sessions) < Lim.sessions
        /\ ~m.down
    BY <1>1, <1>4 DEF IsManager
  <2>6. se[i].st = "none" /\ i \notin m.sessions
    BY <2>1, <2>5 DEF IInv, SessionsSound
  <2>7. IsSession(NewSession) /\ NewSession.st = "open"
        /\ NewSession.dialing = 0 /\ NewSession.running = 0
        /\ NewSession.data = 0 /\ NewSession.ctl = 0
    BY DEF NewSession, IsSession, SFields
  <2>8. /\ DOMAIN se = Ids /\ DOMAIN se' = Ids /\ se'[i] = NewSession
        /\ \A j \in Ids \ {i} : se'[j] = se[j]
        /\ \A j \in Ids : IsSession(se[j]) /\ IsSession(se'[j])
    BY <1>4, <2>5, <2>7 DEF IInv, Shapes
  <2>9. SessionsSound(m'.sessions, m'.made, se')
    <3>1. m.sessions = {j \in Ids : se[j].st \in {"open", "closing"}}
      BY DEF IInv, SessionsSound
    <3>2. m'.sessions = {j \in Ids : se'[j].st \in {"open", "closing"}}
      BY <2>2, <2>5, <2>7, <2>8, <3>1
    <3>3. Cardinality(m'.sessions) <= Lim.sessions
      <4>1. IsFiniteSet(m.sessions) /\ Cardinality(m.sessions) \in Nat
        BY <3>1, ManagerAssumption, FS_Subset, FS_CardinalityType
      <4>2. Cardinality(m.sessions \cup {i}) = Cardinality(m.sessions) + 1
        BY <2>6, <4>1, FS_AddElement
      <4> QED
        BY <2>2, <2>5, <4>1, <4>2, ManagerAssumption
    <3>4. ASSUME NEW j \in Ids
          PROVE  /\ se'[j].st = "none" <=> j > i
                 /\ se'[j].ctl <= Reserve
                 /\ se'[j].st # "open" => se'[j].data = 0 /\ se'[j].ctl = 0
                 /\ se'[j].st \in {"none", "finished"} =>
                      se'[j].dialing = 0 /\ se'[j].running = 0
      <4>1. j \in Nat /\ Reserve \in Nat
        BY ManagerAssumption
      <4>2. CASE j = i
        BY <2>5, <2>7, <2>8, <4>1, <4>2
      <4>3. CASE j # i
        BY <2>1, <2>8, <4>1, <4>3 DEF IInv, SessionsSound
      <4> QED
        BY <4>2, <4>3
    <3> QED
      BY <2>2, <3>2, <3>3, <3>4 DEF SessionsSound
  <2>10. BudgetsSound(m', se')
    <3>1. /\ se[i].dialing = 0 /\ se[i].running = 0
          /\ se[i].data = 0 /\ se[i].ctl = 0
      BY <2>5, <2>6 DEF IInv, SessionsSound
    <3> HIDE DEF i
    <3>2. /\ SumOf(Dialing(se')) = SumOf(Dialing(se)) - 0 + 0
          /\ SumOf(Running(se')) = SumOf(Running(se)) - 0 + 0
          /\ SumOf(DataOf(se')) = SumOf(DataOf(se)) - 0 + 0
          /\ SumOf(CtlOf(se')) = SumOf(CtlOf(se)) - 0 + 0
      BY <2>5, <2>7, <2>8, <3>1, SumsMove
    <3>3. /\ SumOf(Dialing(se)) \in Nat /\ SumOf(Running(se)) \in Nat
          /\ SumOf(DataOf(se)) \in Nat /\ SumOf(CtlOf(se)) \in Nat
      BY <2>8, SumsTyped
    <3>4. BudgetsSound(m, se)
      BY DEF IInv
    <3> QED
      BY <2>2, <3>2, <3>3, <3>4 DEF BudgetsSound
  <2>11. ShutdownSound(shut', m'.down, m'.sessions) /\ SweepSound(sweep')
    BY <1>2, <2>2, <2>5 DEF IInv, ShutdownSound
  <2>12. Shapes(m', se')
    BY <2>2, <2>8 DEF Shapes
  <2> QED
    BY <2>3, <2>4, <2>9, <2>10, <2>11, <2>12 DEF IInv
<1>5. CASE UNCHANGED <<m, se, env>>
  BY <1>1, <1>2, <1>5, BootStep DEF IInv
<1> QED
  BY <1>3, <1>4, <1>5 DEF Create

(* closeLocked returns what the session charged.                           *)
LEMMA CloseLockedInv ==
  ASSUME IInv, NEW i \in Ids, CloseLocked(i)
  PROVE  /\ Shapes(m', se') /\ ManagerFrame
         /\ BootsSound(m'.boots, m'.drawn, m'.made, env.got)
         /\ SessionsSound(m'.sessions, m'.made, se')
         /\ BudgetsSound(m', se')
<1>1. CASE se[i].st # "open"
  <2>1. UNCHANGED <<m, se>>
    BY <1>1 DEF CloseLocked
  <2> QED
    BY <2>1 DEF IInv, ManagerFrame
<1>2. CASE se[i].st = "open"
  <2> DEFINE r == [se[i] EXCEPT !.st = "closing", !.data = 0, !.ctl = 0]
  <2>1. /\ IsManager(m) /\ IsSession(se[i]) /\ SessionBound(se[i])
        /\ DOMAIN se = Ids /\ \A j \in Ids : IsSession(se[j])
    BY DEF IInv, Shapes, SessionsSound, SessionBound
  <2>2. /\ se' = [se EXCEPT ![i] = r]
        /\ m' = [m EXCEPT !.pending = @ - se[i].data - se[i].ctl]
    BY <1>2, <2>1 DEF CloseLocked, IsSession, SFields
  <2>3. /\ IsSession(r) /\ r.st = "closing" /\ SessionBound(r)
        /\ IsManager(m') /\ ManagerFrame /\ Follows(se[i], r)
        /\ r.data <= se[i].data
    BY <1>2, <2>1, <2>2, ManagerAssumption
       DEF SessionBound, IsSession, SFields, IsManager, MFields, ManagerFrame,
           Follows
  <2> HIDE DEF r
  <2>4. /\ se'[i] = r /\ \A j \in Ids \ {i} : se'[j] = se[j]
        /\ Shapes(m', se')
    BY <2>1, <2>2, <2>3 DEF Shapes
  <2> QED
    BY <1>2, <2>3, <2>4, SessionMoves DEF SessionBound, Follows
<1> QED
  BY <1>1, <1>2

(* The last backend of a closed session is gone.                           *)
LEMMA SessionFinishedInv ==
  ASSUME IInv, NEW i \in Ids, SessionFinished(i) PROVE IInv'
<1> DEFINE r == [se[i] EXCEPT !.st = "finished"]
<1>1. /\ IsManager(m) /\ DOMAIN se = Ids /\ \A j \in Ids : IsSession(se[j])
      /\ se[i].st = "closing" /\ se[i].dialing = 0 /\ se[i].running = 0
      /\ se[i].data = 0 /\ se[i].ctl = 0
      /\ BootsSound(m.boots, m.drawn, m.made, env.got)
  BY DEF IInv, Shapes, SessionsSound, SessionFinished, Quiet
<1>2. se' = [se EXCEPT ![i] = r] /\ UNCHANGED <<sweep, shut, env>>
  BY <1>1 DEF SessionFinished, IsSession, SFields
<1>3. /\ \E S : m'.boots = Without(m.boots, S)
      /\ m'.sessions = m.sessions \ {i} /\ IsManager(m')
      /\ m'.drawn = m.drawn /\ m'.made = m.made /\ m'.down = m.down
      /\ m'.streams = m.streams /\ m'.dials = m.dials
      /\ m'.pending = m.pending
  BY <1>1 DEF SessionFinished, IsManager, MFields
<1>4. /\ IsSession(r) /\ r.st = "finished" /\ r.dialing = 0 /\ r.running = 0
      /\ r.data = 0 /\ r.ctl = 0
  BY <1>1 DEF IsSession, SFields
<1> HIDE DEF r
<1>5. /\ DOMAIN se' = Ids /\ se'[i] = r
      /\ \A j \in Ids \ {i} : se'[j] = se[j]
      /\ \A j \in Ids : IsSession(se'[j])
  BY <1>1, <1>2, <1>4
<1>6. BootsSound(m'.boots, m'.drawn, m'.made, env'.got)
  BY <1>1, <1>2, <1>3, BootsForgotten
<1>7. SessionsSound(m'.sessions, m'.made, se')
  <2>1. m.sessions = {j \in Ids : se[j].st \in {"open", "closing"}}
        /\ Cardinality(m.sessions) <= Lim.sessions
    BY DEF IInv, SessionsSound
  <2>2. m'.sessions = {j \in Ids : se'[j].st \in {"open", "closing"}}
    BY <1>3, <1>4, <1>5, <2>1
  <2>3. Cardinality(m'.sessions) <= Lim.sessions
    <3>1. IsFiniteSet(m.sessions) /\ Cardinality(m.sessions) \in Nat
      BY <2>1, ManagerAssumption, FS_Subset, FS_CardinalityType
    <3>2. /\ Cardinality(m.sessions \ {i}) \in Nat
          /\ Cardinality(m.sessions \ {i}) <= Cardinality(m.sessions)
      BY <3>1, FS_Subset, FS_CardinalityType
    <3> QED
      BY <1>3, <2>1, <3>1, <3>2, ManagerAssumption
  <2>4. ASSUME NEW j \in Ids
        PROVE  /\ se'[j].st = "none" <=> j > m'.made
               /\ se'[j].ctl <= Reserve
               /\ se'[j].st # "open" => se'[j].data = 0 /\ se'[j].ctl = 0
               /\ se'[j].st \in {"none", "finished"} =>
                    se'[j].dialing = 0 /\ se'[j].running = 0
    <3>1. CASE j = i
      BY <1>1, <1>3, <1>4, <1>5, <3>1, ManagerAssumption DEF IInv, SessionsSound
    <3>2. CASE j # i
      BY <1>3, <1>5, <3>2 DEF IInv, SessionsSound
    <3> QED
      BY <3>1, <3>2
  <2> QED
    BY <2>2, <2>3, <2>4 DEF SessionsSound
<1>8. BudgetsSound(m', se')
  <2>1. /\ SumOf(Dialing(se')) = SumOf(Dialing(se)) - 0 + 0
        /\ SumOf(Running(se')) = SumOf(Running(se)) - 0 + 0
        /\ SumOf(DataOf(se')) = SumOf(DataOf(se)) - 0 + 0
        /\ SumOf(CtlOf(se')) = SumOf(CtlOf(se)) - 0 + 0
    BY <1>1, <1>4, <1>5, SumsMove
  <2>2. /\ SumOf(Dialing(se)) \in Nat /\ SumOf(Running(se)) \in Nat
        /\ SumOf(DataOf(se)) \in Nat /\ SumOf(CtlOf(se)) \in Nat
    BY <1>1, SumsTyped
  <2>3. BudgetsSound(m, se)
    BY DEF IInv
  <2> QED
    BY <1>3, <2>1, <2>2, <2>3 DEF BudgetsSound
<1>9. ShutdownSound(shut', m'.down, m'.sessions) /\ SweepSound(sweep')
  BY <1>2, <1>3 DEF IInv, ShutdownSound
<1> QED
  BY <1>2, <1>3, <1>5, <1>6, <1>7, <1>8, <1>9 DEF IInv, Shapes

-----------------------------------------------------------------------------
(* A session closes, on the peer's request or on its own failure.          *)
LEMMA CloseSessionInv ==
  ASSUME IInv, NEW i \in Ids, CloseSession(i) PROVE IInv'
<1>1. CloseLocked(i) /\ UNCHANGED <<sweep, shut, env>>
  BY DEF CloseSession
<1> QED
  BY <1>1, CloseLockedInv DEF IInv, ManagerFrame

(* The expiry worker.                                                      *)
LEMMA SweepInv == ASSUME IInv, Sweep PROVE IInv'
<1>1. CASE Tick
  BY <1>1, TickInv
<1>2. CASE \E i \in Ids : Scan(i)
  <2>1. PICK i \in Ids : Scan(i)
    BY <1>2
  <2>2. SweepSound(sweep') /\ UNCHANGED <<m, se, shut, env>>
    BY <2>1 DEF Scan, IInv, SweepSound
  <2> QED
    BY <2>2 DEF IInv
<1>3. CASE SweepCloses
  <2>1. /\ sweep.target \in Ids /\ CloseLocked(sweep.target)
        /\ SweepSound(sweep') /\ UNCHANGED <<shut, env>>
    BY <1>3 DEF SweepCloses, IInv, SweepSound
  <2> QED
    BY <2>1, CloseLockedInv DEF IInv, ManagerFrame
<1>4. CASE SweepEnds
  <2>1. SweepSound(sweep') /\ UNCHANGED <<m, se, shut, env>>
    BY <1>4 DEF SweepEnds, IInv, SweepSound
  <2> QED
    BY <2>1 DEF IInv
<1> QED
  BY <1>1, <1>2, <1>3, <1>4 DEF Sweep

(* Shutdown ends admission and copies the sessions under one lock.         *)
LEMMA ShutdownInv == ASSUME IInv, Shutdown PROVE IInv'
<1>1. /\ m' = [m EXCEPT !.down = TRUE] /\ UNCHANGED <<se, sweep, env>>
      /\ shut' = [pc |-> "close", left |-> m.sessions, all |-> m.sessions]
      /\ IsManager(m) /\ m.sessions \subseteq Ids
  BY DEF Shutdown, IInv, Shapes, SessionsSound
<1>2. /\ IsManager(m') /\ m'.down /\ m'.boots = m.boots /\ m'.drawn = m.drawn
      /\ m'.made = m.made /\ m'.sessions = m.sessions
      /\ m'.streams = m.streams /\ m'.dials = m.dials
      /\ m'.pending = m.pending
  BY <1>1 DEF IsManager, MFields
<1>3. ShutdownSound(shut', m'.down, m'.sessions)
  BY <1>1, <1>2 DEF ShutdownSound
<1>4. Shapes(m', se') /\ BudgetsSound(m', se')
  BY <1>1, <1>2 DEF IInv, Shapes, BudgetsSound
<1> QED
  BY <1>1, <1>2, <1>3, <1>4 DEF IInv

(* Shutdown closes its copy and waits for it.                              *)
LEMMA StopInv == ASSUME IInv, Stop PROVE IInv'
<1>1. CASE \E i \in Ids : ShutdownCloses(i)
  <2>1. PICK i \in Ids : ShutdownCloses(i)
    BY <1>1
  <2>2. /\ CloseLocked(i) /\ shut.pc = "close"
        /\ shut' = [shut EXCEPT !.left = @ \ {i}] /\ UNCHANGED <<sweep, env>>
    BY <2>1 DEF ShutdownCloses
  <2>3. /\ Shapes(m', se') /\ ManagerFrame
        /\ BootsSound(m'.boots, m'.drawn, m'.made, env.got)
        /\ SessionsSound(m'.sessions, m'.made, se')
        /\ BudgetsSound(m', se')
    BY <2>2, CloseLockedInv
  <2>4. ShutdownSound(shut', m'.down, m'.sessions)
    BY <2>2, <2>3 DEF IInv, ShutdownSound, ManagerFrame
  <2> QED
    BY <2>2, <2>3, <2>4 DEF IInv
<1>2. CASE ShutdownDone
  <2>1. /\ shut.pc = "close" /\ \A i \in shut.all : se[i].st = "finished"
        /\ shut' = [shut EXCEPT !.pc = "done"] /\ UNCHANGED <<m, se, sweep, env>>
    BY <1>2 DEF ShutdownDone
  <2>2. m.sessions = {}
    BY <2>1 DEF IInv, ShutdownSound, SessionsSound
  <2>3. ShutdownSound(shut', m'.down, m'.sessions)
    BY <2>1, <2>2 DEF IInv, ShutdownSound
  <2> QED
    BY <2>1, <2>3 DEF IInv
<1> QED
  BY <1>1, <1>2 DEF Stop

(* Requests that create sessions.                                          *)
LEMMA RequestsInv == ASSUME IInv, Requests PROVE IInv'
<1>1. CASE IssueBootstrap
  BY <1>1, IssueBootstrapInv
<1>2. ASSUME NEW x \in Calls, NEW b, NEW body, AuthenticateBootstrap(x, b, body)
      PROVE  IInv'
  <2>1. /\ m' = ForgetExpired(b) /\ UNCHANGED <<se, shut, sweep>>
        /\ env'.got = env.got /\ DOMAIN env' = {"max", "calls", "got"}
    BY <1>2 DEF AuthenticateBootstrap, IInv
  <2> QED
    BY <2>1, ForgetExpiredInv
<1>3. ASSUME NEW x \in Calls, Revalidate(x)
      PROVE  IInv'
  <2>1. /\ m' = ForgetExpired(call[x].b) /\ UNCHANGED <<se, shut, sweep>>
        /\ env'.got = env.got /\ DOMAIN env' = {"max", "calls", "got"}
    BY <1>3 DEF Revalidate, IInv
  <2> QED
    BY <2>1, ForgetExpiredInv
<1>4. ASSUME NEW x \in Calls, Create(x)
      PROVE  IInv'
  BY <1>4, CreateInv
<1> QED
  BY <1>1, <1>2, <1>3, <1>4 DEF Requests

(* Every step keeps the invariant.                                         *)
LEMMA NextInv == IInv /\ [Next]_vars => IInv'
<1> SUFFICES ASSUME IInv, [Next]_vars PROVE IInv'
  OBVIOUS
<1>1. CASE Requests
  BY <1>1, RequestsInv
<1>2. CASE Backends
  BY <1>2, DialFinishedInv, StreamFinishedInv DEF Backends
<1>3. CASE Sweep
  BY <1>3, SweepInv
<1>4. CASE Shutdown
  BY <1>4, ShutdownInv
<1>5. CASE Stop
  BY <1>5, StopInv
<1>6. CASE Lifetime
  BY <1>6, LifetimeInv
<1>7. ASSUME NEW i \in Ids,
             \/ AcquireStream(i)
             \/ \E class \in {"data", "ctl"} :
                  Charge(i, class) \/ Discharge(i, class)
             \/ CloseSession(i) \/ SessionFinished(i) \/ GoesIdle(i) \/ Get(i)
      PROVE  IInv'
  BY <1>7, AcquireStreamInv, ChargeDataInv, ChargeControlInv, DischargeDataInv,
     DischargeControlInv, CloseSessionInv, SessionFinishedInv, GoesIdleInv,
     GetInv
<1>8. CASE UNCHANGED vars
  BY <1>8 DEF vars, IInv
<1> QED
  BY <1>1, <1>2, <1>3, <1>4, <1>5, <1>6, <1>7, <1>8 DEF Next

-----------------------------------------------------------------------------
(* The inductive invariant.                                                *)
THEOREM InvHolds == Spec => []IInv
BY InitInv, NextInv, PTL DEF Spec

(* For any tokens, requests and limits, every answer Create gives for a    *)
(* bootstrap names the one session and the one body of that bootstrap.     *)
THEOREM BootstrapCreatesOneSession == Spec => []OneSessionPerBootstrap
<1>1. IInv => OneSessionPerBootstrap
  BY DEF IInv, BootsSound, OneSessionPerBootstrap
<1> QED
  BY <1>1, InvHolds, PTL

(* For any limits with room for every session's reserve, the shared budget *)
(* admits the control frames a session has reserve for.                    *)
THEOREM ReserveIsAlwaysThere == Spec => []ControlNeverRefused
<1>1. IInv => ControlNeverRefused
  <2> SUFFICES ASSUME IInv, NEW i \in Ids, se[i].st = "open",
                      se[i].ctl < Reserve
               PROVE  MayCharge("ctl")
    BY DEF ControlNeverRefused
  <2> DEFINE g == CtlOf(se)
             C == SumOf(g)
             D == SumOf(DataOf(se))
             k == Cardinality(m.sessions)
             R == Reserve * Lim.sessions
  <2>1. DOMAIN se = Ids /\ \A j \in Ids : IsSession(se[j])
    BY DEF IInv, Shapes
  <2>2. /\ m.sessions \subseteq Ids /\ i \in m.sessions
        /\ k <= Lim.sessions
        /\ \A j \in Ids : se[j].ctl <= Reserve
        /\ \A j \in Ids \ m.sessions : se[j].ctl = 0
    BY DEF IInv, SessionsSound
  <2>3. g \in [Ids -> Nat] /\ \A j \in Ids : g[j] = se[j].ctl
    BY <2>1 DEF CtlOf, IsSession
  <2>4. C < k * Reserve
    <3>1. IsFiniteSet(Ids) /\ Reserve \in Nat /\ m.sessions \in SUBSET Ids
      BY <2>2, ManagerAssumption
    <3>2. /\ \A j \in Ids : g[j] <= Reserve
          /\ \A j \in Ids \ m.sessions : g[j] = 0
          /\ g[i] < Reserve
      BY <2>2, <2>3
    <3> HIDE DEF g
    <3> QED
      BY <2>2, <2>3, <3>1, <3>2, SumBound
  <2>5. k \in Nat /\ C \in Nat /\ D \in Nat
    BY <2>1, <2>2, SumsTyped, ManagerAssumption, FS_Subset, FS_CardinalityType
  <2>6. m.pending = D + C /\ D <= Lim.pending - R
    BY DEF IInv, BudgetsSound
  <2>7. k * Reserve <= R /\ R \in Nat
    <3> HIDE DEF k
    <3> QED
      BY <2>2, <2>5, ManagerAssumption
  <2> HIDE DEF g, C, D, k, R
  <2>8. k * Reserve \in Nat
    BY <2>5, ManagerAssumption
  <2>9. m.pending < Lim.pending
    BY <2>4, <2>5, <2>6, <2>7, <2>8, ManagerAssumption
  <2> QED
    BY <2>9 DEF MayCharge, PendingLimit
<1> QED
  BY <1>1, InvHolds, PTL

(* For any sessions and any interleaving, when Shutdown has returned there *)
(* is no session, backend, dial or pending charge left.                    *)
THEOREM ShutdownLeavesNothing == Spec => []ShutdownIsComplete
<1>1. IInv => ShutdownIsComplete
  <2> SUFFICES ASSUME IInv, shut.pc = "done"
               PROVE  /\ m.sessions = {} /\ m.streams = 0 /\ m.dials = 0
                      /\ m.pending = 0
                      /\ \A i \in Ids : se[i].st \in {"none", "finished"}
                                        /\ Quiet(i)
    BY DEF ShutdownIsComplete
  <2>1. DOMAIN se = Ids /\ \A i \in Ids : IsSession(se[i])
    BY DEF IInv, Shapes
  <2>2. m.sessions = {}
    BY DEF IInv, ShutdownSound
  <2>3. \A i \in Ids :
          /\ se[i].st \in {"none", "finished"} /\ se[i].dialing = 0
          /\ se[i].running = 0 /\ se[i].data = 0 /\ se[i].ctl = 0
    BY <2>1, <2>2 DEF IInv, SessionsSound, IsSession
  <2>4. /\ SumOf(Dialing(se)) = 0 /\ SumOf(Running(se)) = 0
        /\ SumOf(DataOf(se)) = 0 /\ SumOf(CtlOf(se)) = 0
    BY <2>1, <2>3, SumsZero
  <2> QED
    BY <2>2, <2>3, <2>4 DEF IInv, BudgetsSound, Quiet
<1> QED
  BY <1>1, InvHolds, PTL
===============================================================================
