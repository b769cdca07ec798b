---------------------- MODULE GenerationService_proofs ----------------------
(***************************************************************************)
(* Proofs about the ownership of managers, for every set of generations,   *)
(* factories and clients and every bound on events, whether any caller     *)
(* drives the supervisor (Spec) or the coordinator does (ServiceSpec).     *)
(***************************************************************************)
EXTENDS GenerationService, SequenceTheorems, FiniteSetTheorems, TLAPS

-----------------------------------------------------------------------------
(* The inductive invariant.                                                *)

Preparing == {"prepare", "probe", "publish", "discard"}

(* What the holder of transitions knows of the roles at each of its        *)
(* program points.  Nobody else gives a role away, so it stays true.       *)
TxShape ==
  \/ tx = NoTx
  \/ tx.op = "rotate" /\ tx.at = "wait" /\ tx.gen = None
  \/ tx.op \in {"start", "repair"} /\ tx.at \in Preparing /\ sup.active = None
  \/ tx.op = "rotate" /\ tx.at \in Preparing /\ sup.retiring = None /\ tx.old \in Gens
       /\ tx.old = sup.active
  \/ tx.op = "rotate" /\ tx.at = "retire" /\ tx.gen = None /\ tx.old \in Gens
  \/ tx.op \in Watchers /\ tx.at = "join" /\ tx.gen \in Gens /\ tx.old \in Gens
       /\ (sup.active = None \/ sup.retiring = None)
       /\ (tx.op = "readyWatch" => Done(tx.old))
  \/ tx.op = "close" /\ tx.at = "next" /\ tx.gen = None
  \/ tx.op = "close" /\ tx.at = "join" /\ tx.gen \in Gens

(* A candidate exists from its construction on.                            *)
Candidate ==
  /\ tx.at = "prepare" => tx.gen = None
  /\ tx.at \in {"probe", "publish", "discard"} => tx.gen \in Gens
  /\ tx.at \in {"probe", "publish"} =>
       /\ tx.gen \notin {sup.active, sup.retiring}
       /\ gen[tx.gen].readyWatch = "off" /\ gen[tx.gen].factory = tx.factory

(* Close holds transitions while it closes the sources it copied, and then *)
(* nobody is left with a candidate or a displaced manager.                 *)
CloseShape ==
  /\ sup.close = "run" <=> tx.op = "close"
  /\ tx.op = "close" => \A g \in Gens : Live(g) => g \in {sup.active, sup.retiring}
  /\ sup.close \in {"wait", "closed"} => tx = NoTx \/ tx.at = "wait"

(* A live manager with a role is a source, and Close gets to all of them.  *)
Covered ==
  \A g \in Gens : Live(g) /\ g \in {sup.active, sup.retiring} =>
    /\ sup.close = "open" => g \in Range(sup.sources)
    /\ sup.close = "lock" => g \in Range(sup.closeSources)
    /\ sup.close = "run" => g \in Range(sup.closeSources) \/ g = tx.gen
    /\ sup.close \notin {"wait", "closed"}

(* watchGenerationReady leaves its loop only when the manager is Done.     *)
WatchDone ==
  \A g \in Gens : gen[g].readyWatch \in {"lock", "join", "remove"} => Done(g)

(* A factory is remembered before anything is built.                       *)
FactoryKnown ==
  /\ sup.lastFactory = None =>
       /\ sup.active = None /\ sup.repair = "off"
       /\ tx.at \notin Preparing /\ tx.op \notin Watchers
       /\ caller.at # "request"
       /\ \A g \in Gens : gen[g].readyWatch = "off" /\ gen[g].liveWatch = "off"
  /\ tx.at \in Preparing \cup {"wait"} => tx.factory \in Factories
  /\ caller.at = "lock" => caller.factory \in Factories

ScanShape == scan.at \in {"try", "done?"} => scan.rest # <<>>

IInv ==
  /\ TypeOK
  /\ TxShape
  /\ Candidate
  /\ CloseShape
  /\ EveryManagerIsOwned
  /\ Covered
  /\ WatchDone
  /\ FactoryKnown
  /\ RepairFactoryIsCurrent
  /\ ScanShape

-----------------------------------------------------------------------------
(* Sequences of sources.                                                   *)

(* Removing one element of a sequence removes no other.                    *)
LEMMA RemoveAtKeeps ==
  ASSUME NEW S, NEW s \in Seq(S), NEW k \in 1..Len(s)
  PROVE  /\ RemoveAt(s, k) \in Seq(S)
         /\ \A i \in 1..Len(s) : i # k => s[i] \in Range(RemoveAt(s, k))
<1> DEFINE p == SubSeq(s, 1, k - 1)
           q == SubSeq(s, k + 1, Len(s))
           t == p \o q
<1>1. /\ p \in Seq(S) /\ Len(p) = k - 1
      /\ \A i \in 1..(k - 1) : p[i] = s[i]
  <2>1. 1 \in 1..(Len(s) + 1) /\ k - 1 \in 0..Len(s)
    OBVIOUS
  <2> QED BY <2>1, SubSeqProperties
<1>2. /\ q \in Seq(S) /\ Len(q) = Len(s) - k
      /\ \A i \in 1..(Len(s) - k) : q[i] = s[k + i]
  OBVIOUS
<1> HIDE DEF p, q
<1>3. /\ t \in Seq(S) /\ Len(t) = Len(s) - 1
      /\ \A i \in 1..(k - 1) : t[i] = s[i]
      /\ \A i \in 1..(Len(s) - k) : t[k - 1 + i] = s[k + i]
  <2>1. /\ t \in Seq(S) /\ Len(t) = Len(p) + Len(q)
        /\ \A i \in 1..(Len(p) + Len(q)) :
             t[i] = IF i <= Len(p) THEN p[i] ELSE q[i - Len(p)]
    BY <1>1, <1>2, ConcatProperties
  <2> HIDE DEF t
  <2>2. ASSUME NEW i \in 1..(k - 1) PROVE t[i] = s[i]
    BY <1>1, <1>2, <2>1
  <2>3. ASSUME NEW i \in 1..(Len(s) - k) PROVE t[k - 1 + i] = s[k + i]
    <3>1. k - 1 + i \in 1..(Len(p) + Len(q)) /\ ~(k - 1 + i <= Len(p))
      BY <1>1, <1>2
    <3>2. t[k - 1 + i] = q[(k - 1 + i) - Len(p)]
      BY <3>1, <2>1
    <3>3. (k - 1 + i) - Len(p) = i
      BY <1>1
    <3> QED BY <3>2, <3>3, <1>2
  <2> QED BY <1>1, <1>2, <2>1, <2>2, <2>3
<1>4. RemoveAt(s, k) = t
  BY DEF RemoveAt, p, q
<1> HIDE DEF t
<1>5. \A i \in 1..Len(s) : i # k => s[i] \in Range(t)
  <2> TAKE i \in 1..Len(s)
  <2> HAVE i # k
  <2>1. CASE i < k
    BY <2>1, <1>3 DEF Range
  <2>2. CASE i > k
    <3>1. i - k \in 1..(Len(s) - k) /\ i - 1 \in DOMAIN t
      BY <2>2, <1>3
    <3>2. t[k - 1 + (i - k)] = s[k + (i - k)]
      BY <3>1, <1>3
    <3>3. k - 1 + (i - k) = i - 1 /\ k + (i - k) = i
      OBVIOUS
    <3> QED BY <3>1, <3>2, <3>3 DEF Range
  <2> QED BY <2>1, <2>2
<1> QED BY <1>3, <1>4, <1>5

(* removeSource removes no other source.                                   *)
LEMMA RemoveSourceKeeps ==
  ASSUME NEW s \in SupState, NEW g
  PROVE  /\ RemoveSource(s, g) \in SupState
         /\ RemoveSource(s, g) = [s EXCEPT !.sources = RemoveSource(s, g).sources]
         /\ \A h \in Range(s.sources) : h # g => h \in Range(RemoveSource(s, g).sources)
<1> DEFINE at == CHOOSE i \in DOMAIN s.sources : s.sources[i] = g
<1>1. s.sources \in Seq(Gens)
  BY DEF SupState
<1>2. CASE g \notin Range(s.sources)
  BY <1>2 DEF RemoveSource, SupState
<1>3. CASE g \in Range(s.sources)
  <2>1. at \in 1..Len(s.sources) /\ s.sources[at] = g
    BY <1>1, <1>3 DEF Range
  <2>2. RemoveSource(s, g) = [s EXCEPT !.sources = RemoveAt(s.sources, at)]
    BY <1>3 DEF RemoveSource
  <2> HIDE DEF at
  <2>3. /\ RemoveAt(s.sources, at) \in Seq(Gens)
        /\ \A h \in Range(s.sources) : h # g => h \in Range(RemoveAt(s.sources, at))
    <3>1. /\ RemoveAt(s.sources, at) \in Seq(Gens)
          /\ \A i \in 1..Len(s.sources) : i # at =>
               s.sources[i] \in Range(RemoveAt(s.sources, at))
      BY <1>1, <2>1, RemoveAtKeeps
    <3>2. \A h \in Range(s.sources) : \E i \in 1..Len(s.sources) : h = s.sources[i]
      BY <1>1 DEF Range
    <3> QED BY <2>1, <3>1, <3>2
  <2> QED BY <2>2, <2>3 DEF SupState
<1> QED BY <1>2, <1>3

-----------------------------------------------------------------------------
(* Steps that leave the roles and the holder of transitions alone.         *)

Core ==
  /\ TxShape
  /\ Candidate
  /\ CloseShape
  /\ EveryManagerIsOwned
  /\ Covered
  /\ WatchDone
  /\ FactoryKnown
  /\ RepairFactoryIsCurrent

(* No manager comes to life and no watcher is started.                     *)
GenFrame ==
  \A g \in Gens :
    /\ gen'[g].factory = gen[g].factory
    /\ Live(g)' => Live(g)
    /\ Done(g) => Done(g)'
    /\ gen'[g].readyWatch \in {"lock", "join", "remove"} => Done(g)'
    /\ gen[g].readyWatch = "off" => gen'[g].readyWatch = "off"
    /\ gen[g].liveWatch = "off" => gen'[g].liveWatch = "off"

(* The roles are kept and only managers that are not live lose their       *)
(* place among the sources.                                                *)
SupFrame ==
  /\ sup'.active = sup.active /\ sup'.retiring = sup.retiring
  /\ sup'.close = sup.close /\ sup'.closeSources = sup.closeSources
  /\ sup'.lastFactory = sup.lastFactory
  /\ \A g \in Gens : Live(g) /\ g \in Range(sup.sources) => g \in Range(sup'.sources)
  /\ sup.lastFactory = None => sup'.repair = "off"

CallFrame ==
  /\ caller'.at = "request" => sup.lastFactory # None
  /\ caller'.at = "lock" => caller'.factory \in Factories

(* A step within the frames keeps the invariant.                           *)
LEMMA FrameStep ==
  ASSUME IInv, GenFrame, SupFrame, CallFrame, tx' = tx
  PROVE  Core'
<1> USE DEF IInv, GenFrame, SupFrame, CallFrame
<1>1. TxShape'
  BY DEF TxShape, Done
<1>2. Candidate'
  BY DEF Candidate
<1>3. CloseShape'
  BY DEF CloseShape
<1>4. EveryManagerIsOwned'
  BY DEF EveryManagerIsOwned
<1>5. Covered'
  BY DEF Covered
<1>6. WatchDone'
  BY DEF WatchDone
<1>7. FactoryKnown'
  BY DEF FactoryKnown
<1>8. RepairFactoryIsCurrent'
  BY NoneAssumption DEF RepairFactoryIsCurrent, TypeOK, SupState
<1> QED BY <1>1, <1>2, <1>3, <1>4, <1>5, <1>6, <1>7, <1>8 DEF Core

(* So does a holder that releases transitions without a live candidate.    *)
LEMMA ReleaseStep ==
  ASSUME IInv, GenFrame, SupFrame, CallFrame, tx' = NoTx,
         tx.op # "close", \A g \in Gens : g = tx.gen => ~Live(g)'
  PROVE  Core'
<1> USE DEF IInv, GenFrame, SupFrame, CallFrame, NoTx
<1>1. TxShape'
  BY DEF TxShape
<1>2. Candidate'
  BY DEF Candidate
<1>3. CloseShape'
  BY DEF CloseShape
<1>4. EveryManagerIsOwned'
  BY NoneAssumption DEF EveryManagerIsOwned
<1>5. Covered'
  BY DEF Covered, CloseShape
<1>6. WatchDone'
  BY DEF WatchDone
<1>7. FactoryKnown'
  BY DEF FactoryKnown, Preparing, Watchers
<1>8. RepairFactoryIsCurrent'
  BY NoneAssumption DEF RepairFactoryIsCurrent, TypeOK, SupState
<1> QED BY <1>1, <1>2, <1>3, <1>4, <1>5, <1>6, <1>7, <1>8 DEF Core

-----------------------------------------------------------------------------
(* Types.                                                                  *)

(* Stopping the liveness watcher keeps the type of a generation ...        *)
LEMMA IntentionalType ==
  ASSUME NEW r \in GenState
  PROVE  StopLiveness(r) \in GenState /\ Intentional(r) \in GenState
<1>1. ASSUME NEW q \in GenState PROVE StopLiveness(q) \in GenState
  BY <1>1 DEF StopLiveness, GenState
<1>2. [r EXCEPT !.intentional = TRUE] \in GenState
  BY DEF GenState
<1> QED BY <1>1, <1>2 DEF Intentional

(* ... and so does retirement ...                                          *)
LEMMA RetireType ==
  ASSUME NEW r \in GenState
  PROVE  RetireRoutine(r) \in GenState
<1> DEFINE q == Intentional(r)
<1>1. q \in GenState
  BY IntentionalType
<1>2. RetireRoutine(r) = [q EXCEPT !.retire = "wait"]
  BY DEF RetireRoutine
<1> HIDE DEF q
<1> QED BY <1>1, <1>2 DEF GenState

(* ... and a failure ...                                                   *)
LEMMA MarkFailedType ==
  ASSUME NEW r \in GenState, NEW w \in Watchers
  PROVE  MarkFailed(r, w, After(w)) \in GenState
<1> DEFINE q == StopLiveness(r)
<1>1. q \in GenState
  BY IntentionalType
<1>2. CASE r.failed
  BY <1>2 DEF MarkFailed, Watchers, After, GenState
<1>3. CASE ~r.failed
  <2>1. MarkFailed(r, w, After(w)) = [q EXCEPT !.failed = TRUE, ![w] = "lock"]
    BY <1>3 DEF MarkFailed
  <2> HIDE DEF q
  <2> QED BY <1>1, <2>1 DEF Watchers, GenState
<1> QED BY <1>2, <1>3

(* ... and beginTerminal and closeGeneration.                              *)
LEMMA BeginCloseType ==
  ASSUME NEW gn \in [Gens -> GenState], NEW g \in Gens, TypeOK
  PROVE  /\ BeginClose(gn, g) \in [Gens -> GenState]
         /\ CloseTokens(g) \in [Bindings -> TokState]
<1>1. CloseTokens(g) \in [Bindings -> TokState]
  BY DEF CloseTokens, TerminalTokens, TypeOK, TokState
<1>2. (\E b \in Bindings : TerminalTokens(g)[b] # tok[b]) \in BOOLEAN
  OBVIOUS
<1>3. BeginClose(gn, g) \in [Gens -> GenState]
  <2> DEFINE x == \E b \in Bindings : TerminalTokens(g)[b] # tok[b]
             r == Intentional(gn[g])
  <2>1. r \in GenState
    BY IntentionalType
  <2>2. BeginTerminal(r, g) \in GenState
    <3> HIDE DEF r
    <3>1. BeginTerminal(r, g) = [r EXCEPT !.manager = "closing", !.ready = r.ready \/ x]
      BY DEF BeginTerminal
    <3>2. (r.ready \/ x) \in BOOLEAN
      BY <2>1 DEF GenState
    <3> HIDE DEF x
    <3> QED BY <2>1, <3>1, <3>2 DEF GenState
  <2>3. BeginClose(gn, g) = [gn EXCEPT ![g] = IF Open(g) THEN BeginTerminal(r, g) ELSE r]
    BY DEF BeginClose
  <2> HIDE DEF r
  <2> QED BY <2>1, <2>2, <2>3
<1> QED BY <1>1, <1>3

CallTyped == caller \in CallState(caller.own)

(* requestRepair keeps the type of the supervisor's state.                 *)
LEMMA RequestRepairType ==
  ASSUME NEW s \in SupState, NEW h
  PROVE  /\ RequestRepair(s, h) \in SupState
         /\ Signal(s) \in SupState
BY DEF RequestRepair, Signal, SupState

(* So does the end of Start, Rotate and repair.                            *)
LEMMA ReturnType ==
  ASSUME TypeOK, NEW op, NEW s \in SupState, NEW ok \in BOOLEAN, Return(op, s, ok)
  PROVE  sup' \in SupState /\ tx' \in TxState /\ CallTyped'
<1>1. sup' \in SupState
  <2>1. [s EXCEPT !.repair = "off"] \in SupState /\ [s EXCEPT !.repair = "backoff"] \in SupState
    BY DEF SupState
  <2>2. sup' \in {s, [s EXCEPT !.repair = "off"], [s EXCEPT !.repair = "backoff"]}
    BY DEF Return
  <2> QED BY <2>1, <2>2
<1>2. tx' \in TxState
  BY DEF Return, NoTx, TxState
<1>3. CallTyped'
  <2>1. caller \in CallState(caller.own)
    BY DEF TypeOK
  <2>2. PICK a \in {"request", "return"} :
          caller' = caller \/ caller' = [caller EXCEPT !.ok = ok, !.at = a]
    BY DEF Return
  <2> QED BY <2>1, <2>2 DEF CallTyped, CallState
<1> QED BY <1>1, <1>2, <1>3

(* And ensureActive.                                                       *)
LEMMA EnsureActiveType ==
  ASSUME TypeOK, NEW op \in {"start", "repair"}, NEW s \in SupState,
         NEW f \in Factories \cup {None}, EnsureActive(op, s, f)
  PROVE  sup' \in SupState /\ tx' \in TxState /\ CallTyped'
<1>1. CASE Return(op, s, TRUE) \/ Return(op, s, FALSE)
  BY <1>1, ReturnType
<1>2. CASE /\ tx' = [NoTx EXCEPT !.op = op, !.at = "prepare", !.factory = f]
           /\ sup' = IF op = "repair" THEN [s EXCEPT !.repair = "run"] ELSE s
           /\ caller' = IF op = "start" THEN [caller EXCEPT !.at = "run"] ELSE caller
  <2>1. tx' \in TxState
    BY <1>2 DEF TxState, NoTx
  <2>2. sup' \in SupState
    BY <1>2 DEF SupState
  <2>3. CallTyped'
    BY <1>2 DEF CallTyped, CallState, TypeOK
  <2> QED BY <2>1, <2>2, <2>3
<1> QED BY <1>1, <1>2 DEF EnsureActive

(* Calling, cancelling and returning.                                      *)
LEMMA CallerTypes ==
  ASSUME IInv, NEW f \in Factories, NEW op \in {"start", "rotate"}, NEW own,
         \/ Call(op, f, own) /\ (Counted \/ UNCHANGED used)
         \/ CancelCall /\ UNCHANGED used
         \/ CallReturns(own)
  PROVE  TypeOK'
<1>1. TypeOK
  BY DEF IInv
<1>2. CallTyped'
  <2>1. CASE Call(op, f, own) \/ CallReturns(own)
    BY <2>1 DEF CallTyped, Call, CallReturns, CallState, NoCall
  <2>2. CASE CancelCall
    BY <1>1, <2>2 DEF TypeOK, CallTyped, CancelCall, CallState
  <2> QED BY <2>1, <2>2
<1>3. used' \in 0..MaxEvents
  BY <1>1, BoundAssumption DEF TypeOK, Call, CancelCall, CallReturns, Counted
<1> QED BY <1>1, <1>2, <1>3 DEF TypeOK, CallTyped, Call, CancelCall, CallReturns

(* Taking transitions, the repair loop, and the end of Start.              *)
LEMMA StartTypes ==
  ASSUME IInv, StartLock \/ RepairLock \/ RepairTimer \/ RotateLock \/ RotateWait
               \/ RotateCancelled \/ StartRequest
  PROVE  TypeOK'
<1> TypeOK
  BY DEF IInv
<1> USE DEF TypeOK
<1>1. CASE StartLock
  <2> DEFINE s == [sup EXCEPT !.lastFactory = IF @ = None THEN caller.factory ELSE @]
  <2>1. s \in SupState /\ caller.factory \in Factories \cup {None}
    BY DEF SupState, CallState
  <2> HIDE DEF s
  <2>2. EnsureActive("start", s, caller.factory)
    BY <1>1 DEF StartLock, s
  <2>3. sup' \in SupState /\ tx' \in TxState /\ CallTyped'
    BY <2>1, <2>2, EnsureActiveType
  <2> QED BY <1>1, <2>3 DEF StartLock, CallTyped
<1>2. CASE RepairLock
  <2> DEFINE f == IF sup.active # None THEN gen[sup.active].factory ELSE sup.lastFactory
  <2>1. f \in Factories \cup {None}
    BY DEF SupState, GenState
  <2> HIDE DEF f
  <2>2. EnsureActive("repair", sup, f)
    BY <1>2 DEF RepairLock, f
  <2>3. sup' \in SupState /\ tx' \in TxState /\ CallTyped'
    BY <2>1, <2>2, EnsureActiveType
  <2> QED BY <1>2, <2>3 DEF RepairLock, CallTyped
<1>3. CASE RepairTimer
  <2>1. sup' \in SupState
    BY <1>3 DEF RepairTimer, SupState
  <2> QED BY <1>3, <2>1 DEF RepairTimer
<1>4. CASE RotateLock
  <2>1. tx' \in TxState /\ CallTyped'
    BY <1>4 DEF RotateLock, TxState, CallState, NoTx, CallTyped
  <2> QED BY <1>4, <2>1 DEF RotateLock, CallTyped
<1>5. CASE RotateWait
  <2>1. CASE Return(tx.op, sup, FALSE)
    BY <1>5, <2>1, ReturnType DEF RotateWait, CallTyped
  <2>2. CASE tx' = [tx EXCEPT !.at = "prepare", !.old = sup.active] /\ UNCHANGED <<sup, caller>>
    <3>1. tx' \in TxState
      BY <2>2 DEF TxState, SupState
    <3> QED BY <1>5, <2>2, <3>1 DEF RotateWait
  <2> QED BY <1>5, <2>1, <2>2 DEF RotateWait
<1>6. CASE RotateCancelled
  BY <1>6, ReturnType DEF RotateCancelled, CallTyped
<1>7. CASE StartRequest
  <2>1. sup' \in SupState /\ CallTyped'
    BY <1>7, RequestRepairType DEF StartRequest, CallState, CallTyped
  <2> QED BY <1>7, <2>1 DEF StartRequest, CallTyped
<1> QED BY <1>1, <1>2, <1>3, <1>4, <1>5, <1>6, <1>7

(* Preparing, publishing, discarding and retiring.                         *)
LEMMA PrepareTypes ==
  ASSUME IInv, \/ Construct \/ ConstructFails \/ Admit \/ AdmitFails \/ Publish
               \/ PublishRefused \/ Discarded \/ RotateRetire
  PROVE  TypeOK'
<1>1. TypeOK
  BY DEF IInv
<1>2. /\ tx.at \in {"probe", "publish", "discard"} => tx.gen \in Gens
      /\ tx.at = "retire" => tx.old \in Gens
  BY DEF IInv, Candidate, TxShape, NoTx, Preparing
<1> USE <1>1 DEF TypeOK
<1>3. CASE Construct
  <2>1. PICK g \in Gens, r \in SlotRepair :
          /\ gen' = [gen EXCEPT ![g] = [NewGen EXCEPT !.manager = "created",
                       !.factory = tx.factory, !.repairable = r]]
          /\ tx' = [tx EXCEPT !.at = "probe", !.gen = g]
    BY <1>3 DEF Construct
  <2>2. [NewGen EXCEPT !.manager = "created", !.factory = tx.factory, !.repairable = r]
          \in GenState
    BY SlotRepairAssumption DEF NewGen, GenState, TxState
  <2>3. gen' \in [Gens -> GenState]
    BY <2>1, <2>2
  <2>4. tx' \in TxState
    BY <2>1 DEF TxState
  <2> QED BY <1>3, <2>3, <2>4 DEF Construct
<1>4. CASE ConstructFails
  <2>1. used' \in 0..MaxEvents
    BY <1>4, BoundAssumption DEF ConstructFails, Fault, Counted
  <2> QED BY <1>4, <2>1, ReturnType DEF ConstructFails, CallTyped
<1>5. CASE Admit
  <2>1. gen' \in [Gens -> GenState]
    BY <1>2, <1>5 DEF Admit, GenState
  <2>2. tx' \in TxState
    BY <1>5 DEF Admit, TxState
  <2> QED BY <1>5, <2>1, <2>2 DEF Admit
<1>6. CASE AdmitFails
  <2>1. gen' \in [Gens -> GenState] /\ tok' \in [Bindings -> TokState]
    BY <1>2, <1>6, BeginCloseType DEF AdmitFails
  <2>2. tx' \in TxState
    BY <1>6 DEF AdmitFails, TxState
  <2>3. used' \in 0..MaxEvents
    BY <1>6, BoundAssumption DEF AdmitFails, Fault, Counted
  <2> QED BY <1>6, <2>1, <2>2, <2>3 DEF AdmitFails
<1>7. CASE Publish
  <2> DEFINE s == [sup EXCEPT !.active = tx.gen, !.lastFactory = tx.factory,
                              !.sources = Append(@, tx.gen)]
             u == [s EXCEPT !.retiring = tx.old]
  <2>1. gen' \in [Gens -> GenState]
    BY <1>2, <1>7 DEF Publish, GenState
  <2>2. s \in SupState
    <3>1. Append(sup.sources, tx.gen) \in Seq(Gens)
      BY <1>2, <1>7 DEF Publish, SupState
    <3> QED BY <1>2, <1>7, <3>1 DEF Publish, SupState, TxState
  <2>3. u \in SupState
    <3> HIDE DEF s
    <3> QED BY <2>2 DEF SupState, TxState
  <2>4. \/ sup' = u /\ tx' = [tx EXCEPT !.at = "retire", !.gen = None] /\ caller' = caller
        \/ Return(tx.op, s, TRUE)
    BY <1>7 DEF Publish
  <2> HIDE DEF s, u
  <2>5. sup' \in SupState /\ tx' \in TxState /\ CallTyped'
    <3>1. CASE Return(tx.op, s, TRUE)
      BY <2>2, <3>1, ReturnType
    <3>2. CASE sup' = u /\ tx' = [tx EXCEPT !.at = "retire", !.gen = None] /\ caller' = caller
      BY <2>3, <3>2 DEF TxState, CallTyped
    <3> QED BY <2>4, <3>1, <3>2
  <2> QED BY <1>7, <2>1, <2>5 DEF Publish, CallTyped
<1>8. CASE PublishRefused
  <2>1. gen' \in [Gens -> GenState] /\ tok' \in [Bindings -> TokState]
    BY <1>2, <1>8, BeginCloseType DEF PublishRefused
  <2>2. tx' \in TxState
    BY <1>8 DEF PublishRefused, TxState
  <2> QED BY <1>8, <2>1, <2>2 DEF PublishRefused
<1>9. CASE Discarded
  BY <1>9, ReturnType, RequestRepairType DEF Discarded, CallTyped
<1>10. CASE RotateRetire
  <2>1. gen' \in [Gens -> GenState]
    BY <1>2, <1>10, RetireType DEF RotateRetire
  <2> QED BY <1>10, <2>1, ReturnType DEF RotateRetire, CallTyped
<1> QED BY <1>3, <1>4, <1>5, <1>6, <1>7, <1>8, <1>9, <1>10

(* The goroutines of a generation.                                         *)
LEMMA GoroutineTypes ==
  ASSUME IInv, NEW g \in Gens, ReadyWatch(g) \/ LiveWatch(g) \/ SlotRepairer(g) \/ Retirer(g)
  PROVE  TypeOK'
<1>1. TypeOK
  BY DEF IInv
<1> USE <1>1 DEF TypeOK
<1>2. gen[g] \in GenState /\ Signal(sup) \in SupState
  BY RequestRepairType
<1>3. CASE ReadyForward(g)
  <2>1. gen' \in [Gens -> GenState]
    BY <1>2, <1>3 DEF ReadyForward, GenState
  <2> QED BY <1>2, <1>3, <2>1 DEF ReadyForward
<1>4. CASE ReadyDone(g)
  <2>1. [gen[g] EXCEPT !.readyWatch = "remove"] \in GenState
    BY <1>2 DEF GenState
  <2>2. MarkFailed(gen[g], "readyWatch", "remove") \in GenState
    BY <1>2, MarkFailedType DEF Watchers, After
  <2>3. gen' \in [Gens -> GenState]
    BY <1>4, <2>1, <2>2 DEF ReadyDone
  <2> QED BY <1>2, <1>4, <2>3 DEF ReadyDone
<1>5. CASE ReadyRemove(g)
  <2>1. gen' \in [Gens -> GenState]
    BY <1>2, <1>5 DEF ReadyRemove, GenState
  <2>2. sup' \in SupState
    BY <1>5, RemoveSourceKeeps DEF ReadyRemove
  <2> QED BY <1>5, <2>1, <2>2 DEF ReadyRemove
<1>6. CASE ReadyStops(g)
  <2>1. gen' \in [Gens -> GenState]
    BY <1>2, <1>6 DEF ReadyStops, GenState
  <2> QED BY <1>6, <2>1 DEF ReadyStops
<1>7. CASE ProbeFails(g)
  <2>1. gen' \in [Gens -> GenState]
    BY <1>2, <1>7 DEF ProbeFails, GenState
  <2> QED BY <1>7, <2>1 DEF ProbeFails
<1>8. CASE ProbeResult(g)
  <2>1. /\ [gen[g] EXCEPT !.liveWatch = "end"] \in GenState
        /\ [gen[g] EXCEPT !.liveWatch = "run", !.slotRepairing = TRUE] \in GenState
    BY <1>2 DEF GenState
  <2>2. MarkFailed(gen[g], "liveWatch", "end") \in GenState
    BY <1>2, MarkFailedType DEF Watchers, After
  <2>3. gen' \in [Gens -> GenState]
    BY <1>8, <2>1, <2>2 DEF ProbeResult
  <2> QED BY <1>8, <2>3 DEF ProbeResult
<1>9. CASE LiveStops(g)
  <2>1. gen' \in [Gens -> GenState]
    BY <1>2, <1>9, IntentionalType DEF LiveStops
  <2> QED BY <1>9, <2>1 DEF LiveStops
<1>10. CASE SlotsRepaired(g)
  <2>1. gen' \in [Gens -> GenState]
    <3>1. [gen[g] EXCEPT !.slotRepairing = FALSE, !.degraded = FALSE] \in GenState
      BY <1>2 DEF GenState
    <3> QED BY <1>10, <3>1 DEF SlotsRepaired
  <2> QED BY <1>10, <2>1 DEF SlotsRepaired
<1>11. CASE SlotRepairStops(g)
  <2>1. gen' \in [Gens -> GenState]
    BY <1>2, <1>11 DEF SlotRepairStops, GenState
  <2> QED BY <1>11, <2>1 DEF SlotRepairStops
<1>12. CASE RetireClose(g)
  <2>1. [gen EXCEPT ![g].retire = "join"] \in [Gens -> GenState]
    BY <1>2 DEF GenState
  <2>2. gen' \in [Gens -> GenState] /\ tok' \in [Bindings -> TokState]
    BY <1>12, <2>1, BeginCloseType DEF RetireClose
  <2> QED BY <1>12, <2>2 DEF RetireClose
<1>13. CASE RetireJoined(g)
  <2>1. gen' \in [Gens -> GenState]
    BY <1>2, <1>13 DEF RetireJoined, GenState
  <2>2. sup' \in SupState
    BY <1>13 DEF RetireJoined, Signal, SupState
  <2> QED BY <1>13, <2>1, <2>2 DEF RetireJoined
<1> QED BY <1>3, <1>4, <1>5, <1>6, <1>7, <1>8, <1>9, <1>10, <1>11, <1>12, <1>13
        DEF ReadyWatch, LiveWatch, SlotRepairer, Retirer

(* failGeneration.                                                         *)
LEMMA FailTypes ==
  ASSUME IInv, FailJoined \/ \E g \in Gens, w \in Watchers : Fail(g, w)
  PROVE  TypeOK'
<1>1. TypeOK
  BY DEF IInv
<1> USE <1>1 DEF TypeOK
<1>2. CASE FailJoined
  <2>1. tx.op \in Watchers /\ tx.old \in Gens
    BY <1>2 DEF IInv, TxShape, FailJoined, NoTx, Preparing
  <2>2. gen' \in [Gens -> GenState]
    <3> DEFINE r == [gen[tx.old] EXCEPT ![tx.op] = After(tx.op)]
    <3>1. gen[tx.old] \in GenState
      BY <2>1
    <3>2. \A w \in Watchers : [gen[tx.old] EXCEPT ![w] = After(w)] \in GenState
      BY <3>1 DEF After, GenState, Watchers
    <3>3. r \in GenState
      BY <2>1, <3>2
    <3>4. gen' = [gen EXCEPT ![tx.old] = r]
      BY <1>2 DEF FailJoined
    <3> HIDE DEF r
    <3> QED BY <3>3, <3>4
  <2>3. sup' \in SupState
    BY <1>2, RequestRepairType DEF FailJoined
  <2>4. tx' \in TxState
    BY <1>2 DEF FailJoined, NoTx, TxState
  <2> QED BY <1>2, <2>2, <2>3, <2>4 DEF FailJoined
<1>3. ASSUME NEW g \in Gens, NEW w \in Watchers, Fail(g, w) PROVE TypeOK'
  <2> DEFINE retired(pc) == [gen EXCEPT ![g] = [RetireRoutine(@) EXCEPT ![w] = pc]]
  <2>1. /\ retired(After(w)) \in [Gens -> GenState]
        /\ retired("join") \in [Gens -> GenState]
    <3> DEFINE r == RetireRoutine(gen[g])
    <3>1. r \in GenState
      BY RetireType
    <3>2. [r EXCEPT ![w] = After(w)] \in GenState /\ [r EXCEPT ![w] = "join"] \in GenState
      <4> HIDE DEF r
      <4> QED BY <3>1 DEF Watchers, After, GenState
    <3> QED BY <3>2
  <2>2. /\ [gen EXCEPT ![g][w] = "join"] \in [Gens -> GenState]
        /\ [gen EXCEPT ![g][w] = After(w)] \in [Gens -> GenState]
    <3> DEFINE r == gen[g]
    <3>1. r \in GenState
      OBVIOUS
    <3>2. [r EXCEPT ![w] = "join"] \in GenState /\ [r EXCEPT ![w] = After(w)] \in GenState
      <4> HIDE DEF r
      <4> QED BY <3>1 DEF Watchers, After, GenState
    <3> QED BY <3>2
  <2>3. ASSUME NEW h \in Gens
        PROVE  [NoTx EXCEPT !.op = w, !.at = "join", !.gen = h, !.old = g] \in TxState
    BY DEF NoTx, TxState
  <2>4. CASE FailActive(g, w)
    <3> DEFINE s == Signal([sup EXCEPT !.active = None, !.retiring = g])
    <3>1. s \in SupState
      <4>1. [sup EXCEPT !.active = None, !.retiring = g] \in SupState
        BY DEF SupState
      <4> QED BY <4>1, RequestRepairType
    <3>2. RequestRepair(s, FALSE) \in SupState
      BY <3>1, RequestRepairType
    <3> HIDE DEF s
    <3>3. CASE sup.retiring = None
      <4>1. gen' = retired(After(w)) /\ sup' = RequestRepair(s, FALSE) /\ UNCHANGED <<tok, tx>>
        BY <2>4, <3>3 DEF FailActive, s
      <4> QED BY <2>1, <2>4, <3>2, <4>1 DEF FailActive
    <3>4. CASE sup.retiring # None
      <4>1. /\ sup' = s
            /\ gen' = BeginClose(retired("join"), sup.retiring)
            /\ tok' = CloseTokens(sup.retiring)
            /\ tx' = [NoTx EXCEPT !.op = w, !.at = "join", !.gen = sup.retiring, !.old = g]
        BY <2>4, <3>4 DEF FailActive, s
      <4>2. sup.retiring \in Gens
        BY <3>4 DEF SupState
      <4> HIDE DEF retired
      <4>3. gen' \in [Gens -> GenState] /\ tok' \in [Bindings -> TokState]
        BY <2>1, <4>1, <4>2, BeginCloseType
      <4> QED BY <2>3, <2>4, <3>1, <4>1, <4>2, <4>3 DEF FailActive
    <3> QED BY <3>3, <3>4
  <2>5. CASE FailRetiring(g, w)
    <3>1. sup' \in SupState
      <4>1. [sup EXCEPT !.retiring = None] \in SupState
        BY DEF SupState
      <4> QED BY <2>5, <4>1, RequestRepairType DEF FailRetiring
    <3>2. gen' \in [Gens -> GenState] /\ tok' \in [Bindings -> TokState]
      BY <2>2, <2>5, BeginCloseType DEF FailRetiring
    <3> QED BY <2>3, <2>5, <3>1, <3>2 DEF FailRetiring
  <2>6. CASE FailUnowned(g, w)
    BY <2>2, <2>6 DEF FailUnowned
  <2> QED BY <1>3, <2>4, <2>5, <2>6 DEF Fail
<1> QED BY <1>2, <1>3

(* Close.                                                                  *)
LEMMA CloseTypes ==
  ASSUME IInv, \/ CloseBegin \/ CloseLock \/ CloseSource \/ CloseJoined
               \/ CloseUnlock \/ CloseFinish
  PROVE  TypeOK'
<1>1. TypeOK
  BY DEF IInv
<1> USE <1>1 DEF TypeOK
<1>2. CASE CloseBegin
  <2>1. sup' \in SupState
    BY <1>2 DEF CloseBegin, SupState
  <2> QED BY <1>2, <2>1 DEF CloseBegin
<1>3. CASE CloseLock
  <2>1. sup' \in SupState /\ tx' \in TxState
    BY <1>3 DEF CloseLock, SupState, TxState, NoTx
  <2> QED BY <1>3, <2>1 DEF CloseLock
<1>4. CASE CloseSource
  <2>1. Head(sup.closeSources) \in Gens /\ Tail(sup.closeSources) \in Seq(Gens)
    BY <1>4 DEF CloseSource, SupState
  <2>2. sup' \in SupState
    BY <1>4, <2>1 DEF CloseSource, SupState
  <2>3. tx' \in TxState
    BY <1>4, <2>1 DEF CloseSource, TxState
  <2>4. gen' \in [Gens -> GenState] /\ tok' \in [Bindings -> TokState]
    BY <1>4, <2>1, BeginCloseType DEF CloseSource
  <2> QED BY <1>4, <2>2, <2>3, <2>4 DEF CloseSource
<1>5. CASE CloseJoined
  <2>1. tx' \in TxState
    BY <1>5 DEF CloseJoined, TxState
  <2> QED BY <1>5, <2>1 DEF CloseJoined
<1>6. CASE CloseUnlock
  <2>1. sup' \in SupState /\ tx' \in TxState
    BY <1>6 DEF CloseUnlock, SupState, TxState, NoTx
  <2> QED BY <1>6, <2>1 DEF CloseUnlock
<1>7. CASE CloseFinish
  <2>1. sup' \in SupState
    <3>1. <<>> \in Seq(Gens)
      OBVIOUS
    <3> QED BY <1>7, <3>1 DEF CloseFinish, SupState
  <2> QED BY <1>7, <2>1 DEF CloseFinish
<1> QED BY <1>2, <1>3, <1>4, <1>5, <1>6, <1>7

(* What is left of a scan that has not come to its last source.            *)
LEMMA TailType ==
  ASSUME NEW s \in Seq(Gens), s # <<>>, Len(s) # 1
  PROVE  Tail(s) \in Seq(Gens) /\ Tail(s) # <<>>
<1>1. Len(s) \in Nat /\ Len(s) # 0
  BY EmptySeq
<1>2. Tail(s) \in Seq(Gens) /\ Len(Tail(s)) = Len(s) - 1
  BY HeadTailProperties
<1>3. Len(Tail(s)) # 0
  BY <1>1, <1>2
<1>4. Len(<<>>) = 0
  OBVIOUS
<1> QED BY <1>2, <1>3, <1>4

(* Single fields of a generation.                                          *)
LEMMA GenFieldType ==
  ASSUME NEW r \in GenState
  PROVE  /\ [r EXCEPT !.ready = TRUE] \in GenState
         /\ [r EXCEPT !.degraded = TRUE] \in GenState
         /\ [r EXCEPT !.manager = "done"] \in GenState
BY DEF GenState

ScanTyped == scan \in [at : {"off", "idle", "try", "done?"}, rest : Seq(Gens)]

(* Clients, the consumer of readiness and the managers.                    *)
LEMMA ClientTypes ==
  ASSUME IInv, \/ Scan
               \/ \E b \in Bindings : Bind(b) \/ Deliver(b) \/ ClientCloses(b)
               \/ \E g \in Gens : ManagerDone(g) \/ ManagerExhausts(g) \/ SlotFails(g)
  PROVE  TypeOK' /\ ScanShape'
<1>1. TypeOK /\ ScanShape
  BY DEF IInv
<1> USE <1>1 DEF TypeOK
<1>2. CASE ScanBegin
  <2>1. sup' \in SupState
    BY <1>2 DEF ScanBegin, SupState
  <2>2. ScanTyped' /\ ScanShape'
    BY <1>2 DEF ScanBegin, ScanTyped, ScanShape, NoScan, SupState
  <2> QED BY <1>2, <2>1, <2>2 DEF ScanBegin, ScanTyped
<1>3. CASE ScanEmpty
  <2>1. ScanTyped' /\ ScanShape'
    BY <1>3 DEF ScanEmpty, ScanTyped, ScanShape
  <2> QED BY <1>3, <2>1 DEF ScanEmpty, ScanTyped
<1>4. CASE ScanDone
  <2>1. scan.rest \in Seq(Gens) /\ scan.rest # <<>>
    BY <1>4 DEF ScanDone, ScanShape
  <2>2. ASSUME Len(scan.rest) # 1
        PROVE  Tail(scan.rest) \in Seq(Gens) /\ Tail(scan.rest) # <<>>
    BY <2>1, <2>2, TailType
  <2>3. ScanTyped' /\ ScanShape'
    BY <1>4, <2>2 DEF ScanDone, ScanTyped, ScanShape, NoScan
  <2>4. sup' \in SupState
    BY <1>4, RemoveSourceKeeps DEF ScanDone
  <2> QED BY <1>4, <2>3, <2>4 DEF ScanDone, ScanTyped
<1>5. ASSUME NEW b \in Bindings, ScanLease(b) PROVE TypeOK' /\ ScanShape'
  <2>1. ScanTyped' /\ ScanShape'
    BY <1>5 DEF ScanLease, ScanTyped, ScanShape, NoScan, SupState
  <2>2. tok' \in [Bindings -> TokState]
    BY <1>5 DEF ScanLease, NoTok, TokState
  <2> QED BY <1>5, <2>1, <2>2 DEF ScanLease, ScanTyped
<1>6. ASSUME NEW b \in Bindings, Bind(b) PROVE TypeOK' /\ ScanShape'
  <2>1. ScanTyped' /\ ScanShape'
    BY <1>6 DEF Bind, ScanTyped, ScanShape, NoScan
  <2>2. tok' \in [Bindings -> TokState]
    BY <1>6 DEF Bind, TokState, SupState
  <2> QED BY <1>6, <2>1, <2>2 DEF Bind, ScanTyped
<1>7. ASSUME NEW b \in Bindings, Deliver(b) PROVE TypeOK' /\ ScanShape'
  <2>1. tok' \in [Bindings -> TokState]
    BY <1>7 DEF Deliver, TokState
  <2>2. gen' \in [Gens -> GenState]
    <3> DEFINE h == tok[b].gen
    <3>1. gen' = [gen EXCEPT ![h].ready = TRUE]
      BY <1>7 DEF Deliver
    <3> HIDE DEF h
    <3>2. \A g \in Gens : [gen[g] EXCEPT !.ready = TRUE] \in GenState
      BY GenFieldType
    <3> QED BY <3>1, <3>2
  <2> QED BY <1>7, <2>1, <2>2 DEF Deliver, ScanShape
<1>8. ASSUME NEW b \in Bindings, ClientCloses(b) PROVE TypeOK' /\ ScanShape'
  <2>1. tok' \in [Bindings -> TokState]
    BY <1>8 DEF ClientCloses, NoTok, TokState
  <2> QED BY <1>8, <2>1 DEF ClientCloses, ScanShape
<1>9. ASSUME NEW g \in Gens, ManagerDone(g) PROVE TypeOK' /\ ScanShape'
  <2>1. gen' \in [Gens -> GenState]
    <3>1. [gen[g] EXCEPT !.manager = "done"] \in GenState
      BY GenFieldType
    <3> QED BY <1>9, <3>1 DEF ManagerDone
  <2> QED BY <1>9, <2>1 DEF ManagerDone, ScanShape
<1>10. ASSUME NEW g \in Gens, ManagerExhausts(g) PROVE TypeOK' /\ ScanShape'
  <2> DEFINE x == \E b \in Bindings : TerminalTokens(g)[b] # tok[b]
  <2>1. gen' = [gen EXCEPT ![g] = [gen[g] EXCEPT !.manager = "closing",
                                                 !.ready = gen[g].ready \/ x]]
    BY <1>10 DEF ManagerExhausts, BeginTerminal
  <2>2. (gen[g].ready \/ x) \in BOOLEAN
    BY DEF GenState
  <2> HIDE DEF x
  <2>3. gen' \in [Gens -> GenState]
    <3>1. [gen[g] EXCEPT !.manager = "closing", !.ready = gen[g].ready \/ x] \in GenState
      <4>1. gen[g] \in GenState
        OBVIOUS
      <4> QED BY <2>2, <4>1 DEF GenState
    <3> QED BY <2>1, <3>1
  <2>4. tok' \in [Bindings -> TokState]
    BY <1>10 DEF ManagerExhausts, TerminalTokens, TokState
  <2>5. used' \in 0..MaxEvents
    BY <1>10, BoundAssumption DEF ManagerExhausts, Fault, Counted
  <2> QED BY <1>10, <2>3, <2>4, <2>5 DEF ManagerExhausts, ScanShape
<1>11. ASSUME NEW g \in Gens, SlotFails(g) PROVE TypeOK' /\ ScanShape'
  <2>1. gen' \in [Gens -> GenState]
    <3>1. [gen[g] EXCEPT !.degraded = TRUE] \in GenState
      BY GenFieldType
    <3> QED BY <1>11, <3>1 DEF SlotFails
  <2>2. used' \in 0..MaxEvents
    BY <1>11, BoundAssumption DEF SlotFails, Fault, Counted
  <2> QED BY <1>11, <2>1, <2>2 DEF SlotFails, ScanShape
<1> QED BY <1>2, <1>3, <1>4, <1>5, <1>6, <1>7, <1>8, <1>9, <1>10, <1>11 DEF Scan

-----------------------------------------------------------------------------
(* Steps of the generations within the frame.                              *)

(* The fields the invariant is about, when liveness is stopped ...         *)
LEMMA IntentionalFields ==
  ASSUME NEW r \in GenState
  PROVE  \A q \in {StopLiveness(r), Intentional(r)} :
           /\ q.factory = r.factory /\ q.readyWatch = r.readyWatch
           /\ r.liveWatch = "off" => q.liveWatch = "off"
           /\ q.manager = r.manager
<1>1. ASSUME NEW p \in GenState
      PROVE  /\ StopLiveness(p).factory = p.factory
             /\ StopLiveness(p).readyWatch = p.readyWatch
             /\ p.liveWatch = "off" => StopLiveness(p).liveWatch = "off"
             /\ StopLiveness(p).manager = p.manager
  BY DEF StopLiveness, GenState
<1> DEFINE p == [r EXCEPT !.intentional = TRUE]
<1>2. /\ p \in GenState /\ p.factory = r.factory /\ p.readyWatch = r.readyWatch
      /\ p.liveWatch = r.liveWatch /\ p.manager = r.manager
  BY DEF GenState
<1>3. Intentional(r) = StopLiveness(p)
  BY DEF Intentional
<1> HIDE DEF p
<1> QED BY <1>1, <1>2, <1>3

(* ... when the generation retires ...                                     *)
LEMMA RetireFields ==
  ASSUME NEW r \in GenState
  PROVE  LET q == RetireRoutine(r)
         IN  /\ q.factory = r.factory /\ q.readyWatch = r.readyWatch
             /\ r.liveWatch = "off" => q.liveWatch = "off"
             /\ q.manager = r.manager
<1> DEFINE q == Intentional(r)
<1>1. /\ q \in GenState /\ q.factory = r.factory /\ q.readyWatch = r.readyWatch
      /\ r.liveWatch = "off" => q.liveWatch = "off"
      /\ q.manager = r.manager
  BY IntentionalType, IntentionalFields
<1>2. RetireRoutine(r) = [q EXCEPT !.retire = "wait"]
  BY DEF RetireRoutine
<1> HIDE DEF q
<1> QED BY <1>1, <1>2 DEF GenState

(* ... when it fails, its manager Done if the readiness watcher found out  *)
LEMMA MarkFailedFields ==
  ASSUME NEW r \in GenState, NEW w \in Watchers, r[w] # "off"
  PROVE  LET q == MarkFailed(r, w, After(w))
         IN  /\ q.factory = r.factory /\ q.manager = r.manager
             /\ w = "liveWatch" => q.readyWatch = r.readyWatch
             /\ r.readyWatch = "off" => q.readyWatch = "off"
             /\ r.liveWatch = "off" => q.liveWatch = "off"
<1> DEFINE p == StopLiveness(r)
<1>1. /\ p \in GenState /\ p.factory = r.factory /\ p.readyWatch = r.readyWatch
      /\ r.liveWatch = "off" => p.liveWatch = "off"
      /\ p.manager = r.manager
  BY IntentionalType, IntentionalFields
<1>2. CASE r.failed
  <2>1. MarkFailed(r, w, After(w)) = [r EXCEPT ![w] = After(w)]
    BY <1>2 DEF MarkFailed
  <2> QED BY <2>1 DEF GenState, Watchers
<1>3. CASE ~r.failed
  <2>1. MarkFailed(r, w, After(w)) = [p EXCEPT !.failed = TRUE, ![w] = "lock"]
    BY <1>3 DEF MarkFailed
  <2> HIDE DEF p
  <2> QED BY <1>1, <2>1 DEF GenState, Watchers
<1> QED BY <1>2, <1>3

(* ... and after closeGeneration.                                          *)
LEMMA BeginCloseFields ==
  ASSUME NEW gn \in [Gens -> GenState], NEW g \in Gens, NEW h \in Gens
  PROVE  LET r == BeginClose(gn, g)[h]
         IN  /\ r.factory = gn[h].factory
             /\ r.readyWatch = gn[h].readyWatch
             /\ gn[h].liveWatch = "off" => r.liveWatch = "off"
             /\ r.manager = IF h = g /\ Open(g) THEN "closing" ELSE gn[h].manager
<1>1. CASE h # g
  BY <1>1 DEF BeginClose
<1>2. CASE h = g
  <2> DEFINE q == Intentional(gn[g])
             x == \E b \in Bindings : TerminalTokens(g)[b] # tok[b]
  <2>1. /\ q \in GenState
        /\ q.factory = gn[g].factory /\ q.readyWatch = gn[g].readyWatch
        /\ gn[g].liveWatch = "off" => q.liveWatch = "off"
        /\ q.manager = gn[g].manager
    <3>1. gn[g] \in GenState
      OBVIOUS
    <3> QED BY <3>1, IntentionalType, IntentionalFields
  <2>2. BeginClose(gn, g)[g] = IF Open(g) THEN BeginTerminal(q, g) ELSE q
    BY DEF BeginClose
  <2>3. BeginTerminal(q, g) = [q EXCEPT !.manager = "closing", !.ready = q.ready \/ x]
    BY DEF BeginTerminal
  <2> HIDE DEF q, x
  <2> QED BY <1>2, <2>1, <2>2, <2>3 DEF GenState
<1> QED BY <1>1, <1>2

(* What gn changed before closeGeneration is within the frame.             *)
Prior(gn) ==
  \A h \in Gens :
    /\ gn[h].factory = gen[h].factory /\ gn[h].manager = gen[h].manager
    /\ gn[h].readyWatch \in {"lock", "join", "remove"} => Done(h)
    /\ gen[h].readyWatch = "off" => gn[h].readyWatch = "off"
    /\ gen[h].liveWatch = "off" => gn[h].liveWatch = "off"

(* closeGeneration is within the frame and leaves the manager not open.    *)
LEMMA BeginCloseFrame ==
  ASSUME NEW gn \in [Gens -> GenState], NEW g \in Gens, Prior(gn),
         gen' = BeginClose(gn, g)
  PROVE  GenFrame
<1> SUFFICES ASSUME NEW h \in Gens
             PROVE  /\ gen'[h].factory = gen[h].factory
                    /\ Live(h)' => Live(h)
                    /\ Done(h) => Done(h)'
                    /\ gen'[h].readyWatch \in {"lock", "join", "remove"} => Done(h)'
                    /\ gen[h].readyWatch = "off" => gen'[h].readyWatch = "off"
                    /\ gen[h].liveWatch = "off" => gen'[h].liveWatch = "off"
  BY DEF GenFrame
<1>1. /\ gen'[h].factory = gn[h].factory
      /\ gen'[h].readyWatch = gn[h].readyWatch
      /\ gn[h].liveWatch = "off" => gen'[h].liveWatch = "off"
      /\ gen'[h].manager = IF h = g /\ Open(g) THEN "closing" ELSE gn[h].manager
  BY BeginCloseFields
<1> QED BY <1>1 DEF Prior, Live, Done, Open

(* An unchanged generation is within the frame.                            *)
LEMMA SameFrame ==
  ASSUME WatchDone, gen' = gen
  PROVE  GenFrame
BY DEF GenFrame, WatchDone, Live, Done

(* So is a step of one generation that starts no watcher and no manager.   *)
LEMMA OneFrame ==
  ASSUME TypeOK, WatchDone, NEW g \in Gens, NEW r,
         gen' = [gen EXCEPT ![g] = r],
         r.factory = gen[g].factory,
         r.manager \in {gen[g].manager, "done"} \/ (r.manager = "closing" /\ Live(g)),
         r.readyWatch \in {"lock", "join", "remove"} => r.manager = "done",
         gen[g].readyWatch = "off" => r.readyWatch = "off",
         gen[g].liveWatch = "off" => r.liveWatch = "off"
  PROVE  GenFrame
<1> SUFFICES ASSUME NEW h \in Gens
             PROVE  /\ gen'[h].factory = gen[h].factory
                    /\ Live(h)' => Live(h)
                    /\ Done(h) => Done(h)'
                    /\ gen'[h].readyWatch \in {"lock", "join", "remove"} => Done(h)'
                    /\ gen[h].readyWatch = "off" => gen'[h].readyWatch = "off"
                    /\ gen[h].liveWatch = "off" => gen'[h].liveWatch = "off"
  BY DEF GenFrame
<1>1. gen'[h] = IF h = g THEN r ELSE gen[h]
  BY DEF TypeOK
<1>2. CASE h = g
  BY <1>1, <1>2 DEF Live, Done
<1>3. CASE h # g
  BY <1>1, <1>3 DEF Live, Done, WatchDone
<1> QED BY <1>2, <1>3

(* In particular one that keeps the manager and its readiness watcher.     *)
LEMMA KeepFrame ==
  ASSUME IInv, NEW g \in Gens, NEW r,
         gen' = [gen EXCEPT ![g] = r],
         r.factory = gen[g].factory, r.readyWatch = gen[g].readyWatch,
         r.manager \in {gen[g].manager, "done"}
           \/ (r.manager = "closing" /\ gen[g].manager = "ready"),
         gen[g].liveWatch = "off" => r.liveWatch = "off"
  PROVE  GenFrame
<1>1. TypeOK /\ WatchDone
  BY DEF IInv
<1>2. r.manager = "closing" => r.manager = gen[g].manager \/ Live(g)
  BY DEF Live
<1>3. r.readyWatch \in {"lock", "join", "remove"} => r.manager = "done"
  BY <1>1 DEF WatchDone, Done
<1> QED BY <1>1, <1>2, <1>3, OneFrame

(* The supervisor's state, when it is at most signalled.                   *)
LEMMA SameSup ==
  ASSUME IInv, sup' = sup \/ sup' = Signal(sup)
  PROVE  SupFrame
BY DEF SupFrame, Signal, IInv, TypeOK, SupState, FactoryKnown

(* An unchanged caller.                                                    *)
LEMMA SameCaller ==
  ASSUME IInv, caller' = caller
  PROVE  CallFrame
BY DEF CallFrame, IInv, FactoryKnown

(* A source is removed once its manager is Done.                           *)
LEMMA RemoveSup ==
  ASSUME IInv, NEW g \in Gens, Done(g), sup' = sup \/ sup' = RemoveSource(sup, g)
  PROVE  SupFrame
<1>1. sup \in SupState /\ ~Live(g)
  BY DEF IInv, TypeOK, Done, Live
<1>2. CASE sup' = RemoveSource(sup, g)
  <2>1. /\ sup' = [sup EXCEPT !.sources = sup'.sources]
        /\ \A h \in Range(sup.sources) : h # g => h \in Range(sup'.sources)
    BY <1>1, <1>2, RemoveSourceKeeps
  <2> DEFINE x == sup'.sources
  <2>2. /\ sup' = [sup EXCEPT !.sources = x]
        /\ \A h \in Range(sup.sources) : h # g => h \in Range(x)
    BY <2>1
  <2> HIDE DEF x
  <2>3. /\ sup'.active = sup.active /\ sup'.retiring = sup.retiring
        /\ sup'.close = sup.close /\ sup'.closeSources = sup.closeSources
        /\ sup'.lastFactory = sup.lastFactory /\ sup'.repair = sup.repair
    BY <1>1, <2>2 DEF SupState
  <2> QED BY <1>1, <2>1, <2>3 DEF SupFrame, IInv, FactoryKnown
<1> QED BY <1>2, SameSup

(* The goroutines of a generation.                                         *)
LEMMA GoroutineCore ==
  ASSUME IInv, NEW g \in Gens,
         \/ ReadyWatch(g) \/ LiveWatch(g) \/ SlotRepairer(g) \/ RetireClose(g)
         \/ ManagerDone(g) \/ ManagerExhausts(g) \/ SlotFails(g)
  PROVE  Core'
<1>0. TypeOK /\ WatchDone /\ gen[g] \in GenState
  BY DEF IInv, TypeOK
<1>1. CASE ReadyForward(g)
  <2> DEFINE r == [gen[g] EXCEPT !.ready = FALSE]
  <2>1. gen' = [gen EXCEPT ![g] = r]
    BY <1>1 DEF ReadyForward
  <2>2. /\ r.factory = gen[g].factory /\ r.manager = gen[g].manager
        /\ r.readyWatch = gen[g].readyWatch /\ r.liveWatch = gen[g].liveWatch
    BY <1>0 DEF GenState
  <2> HIDE DEF r
  <2>3. GenFrame
    BY <2>1, <2>2, KeepFrame
  <2> QED BY <1>1, <2>3, SameSup, SameCaller, FrameStep DEF ReadyForward
<1>2. CASE ReadyDone(g)
  <2> DEFINE r == IF gen[g].intentional THEN [gen[g] EXCEPT !.readyWatch = "remove"]
                  ELSE MarkFailed(gen[g], "readyWatch", "remove")
  <2>1. gen' = [gen EXCEPT ![g] = r] /\ gen[g].readyWatch = "run"
    BY <1>2 DEF ReadyDone
  <2>2. /\ r.factory = gen[g].factory /\ r.manager = "done"
        /\ gen[g].liveWatch = "off" => r.liveWatch = "off"
    <3>1. CASE gen[g].intentional
      BY <1>0, <1>2, <3>1 DEF ReadyDone, Done, GenState
    <3>2. CASE ~gen[g].intentional
      <4>1. r = MarkFailed(gen[g], "readyWatch", After("readyWatch"))
        BY <3>2 DEF After
      <4>2. gen[g]["readyWatch"] # "off" /\ "readyWatch" \in Watchers
        BY <2>1 DEF Watchers
      <4> HIDE DEF r
      <4> QED BY <1>0, <1>2, <4>1, <4>2, MarkFailedFields DEF ReadyDone, Done
    <3> QED BY <3>1, <3>2
  <2> HIDE DEF r
  <2>3. GenFrame
    BY <1>0, <2>1, <2>2, OneFrame
  <2> QED BY <1>2, <2>3, SameSup, SameCaller, FrameStep DEF ReadyDone
<1>3. CASE ReadyRemove(g)
  <2> DEFINE r == [gen[g] EXCEPT !.readyWatch = "end"]
  <2>1. gen' = [gen EXCEPT ![g] = r] /\ gen[g].readyWatch = "remove"
    BY <1>3 DEF ReadyRemove
  <2>2. /\ r.factory = gen[g].factory /\ r.manager = gen[g].manager
        /\ r.readyWatch = "end" /\ r.liveWatch = gen[g].liveWatch
    BY <1>0 DEF GenState
  <2> HIDE DEF r
  <2>3. GenFrame
    BY <1>0, <2>1, <2>2, OneFrame
  <2>4. SupFrame
    <3>1. Done(g)
      BY <1>0, <2>1 DEF WatchDone
    <3> QED BY <1>3, <3>1, RemoveSup DEF ReadyRemove
  <2> QED BY <1>3, <2>3, <2>4, SameCaller, FrameStep DEF ReadyRemove
<1>4. CASE ReadyStops(g)
  <2> DEFINE r == [gen[g] EXCEPT !.readyWatch = "end"]
  <2>1. gen' = [gen EXCEPT ![g] = r] /\ gen[g].readyWatch = "run"
    BY <1>4 DEF ReadyStops
  <2>2. /\ r.factory = gen[g].factory /\ r.manager = gen[g].manager
        /\ r.readyWatch = "end" /\ r.liveWatch = gen[g].liveWatch
    BY <1>0 DEF GenState
  <2> HIDE DEF r
  <2>3. GenFrame
    BY <1>0, <2>1, <2>2, OneFrame
  <2> QED BY <1>4, <2>3, SameSup, SameCaller, FrameStep DEF ReadyStops
<1>5. CASE ProbeFails(g)
  <2> DEFINE r == [gen[g] EXCEPT !.liveWatch = "probed"]
  <2>1. gen' = [gen EXCEPT ![g] = r]
    BY <1>5 DEF ProbeFails
  <2>2. /\ r.factory = gen[g].factory /\ r.readyWatch = gen[g].readyWatch
        /\ r.manager = gen[g].manager
        /\ gen[g].liveWatch = "off" => r.liveWatch = "off"
    BY <1>0, <1>5 DEF ProbeFails, GenState
  <2> HIDE DEF r
  <2>3. GenFrame
    BY <2>1, <2>2, KeepFrame
  <2> QED BY <1>5, <2>3, SameSup, SameCaller, FrameStep DEF ProbeFails
<1>6. CASE ProbeResult(g)
  <2>1. gen[g].liveWatch = "probed"
    BY <1>6 DEF ProbeResult
  <2>2. PICK r \in {[gen[g] EXCEPT !.liveWatch = "end"],
                   [gen[g] EXCEPT !.liveWatch = "run", !.slotRepairing = TRUE],
                   MarkFailed(gen[g], "liveWatch", "end")} :
          gen' = [gen EXCEPT ![g] = r]
    BY <1>6 DEF ProbeResult
  <2>3. /\ r.factory = gen[g].factory /\ r.readyWatch = gen[g].readyWatch
        /\ r.manager = gen[g].manager
    <3>1. CASE r = [gen[g] EXCEPT !.liveWatch = "end"]
      BY <1>0, <3>1 DEF GenState
    <3>2. CASE r = [gen[g] EXCEPT !.liveWatch = "run", !.slotRepairing = TRUE]
      BY <1>0, <3>2 DEF GenState
    <3>3. CASE r = MarkFailed(gen[g], "liveWatch", "end")
      <4>1. r = MarkFailed(gen[g], "liveWatch", After("liveWatch"))
        BY <3>3 DEF After
      <4>2. gen[g]["liveWatch"] # "off" /\ "liveWatch" \in Watchers
        BY <2>1 DEF Watchers
      <4> QED BY <1>0, <4>1, <4>2, MarkFailedFields
    <3> QED BY <2>2, <3>1, <3>2, <3>3
  <2>4. GenFrame
    BY <2>1, <2>2, <2>3, KeepFrame
  <2> QED BY <1>6, <2>4, SameSup, SameCaller, FrameStep DEF ProbeResult
<1>7. CASE LiveStops(g)
  <2> DEFINE r == StopLiveness(gen[g])
  <2>1. gen' = [gen EXCEPT ![g] = r]
    BY <1>7 DEF LiveStops
  <2>2. /\ r.factory = gen[g].factory /\ r.readyWatch = gen[g].readyWatch
        /\ r.manager = gen[g].manager
        /\ gen[g].liveWatch = "off" => r.liveWatch = "off"
    BY <1>0, IntentionalFields
  <2> HIDE DEF r
  <2>3. GenFrame
    BY <2>1, <2>2, KeepFrame
  <2> QED BY <1>7, <2>3, SameSup, SameCaller, FrameStep DEF LiveStops
<1>8. CASE SlotsRepaired(g)
  <2> DEFINE r == [gen[g] EXCEPT !.slotRepairing = FALSE, !.degraded = FALSE]
  <2>1. gen' = [gen EXCEPT ![g] = r]
    BY <1>8 DEF SlotsRepaired
  <2>2. /\ r.factory = gen[g].factory /\ r.readyWatch = gen[g].readyWatch
        /\ r.manager = gen[g].manager
        /\ gen[g].liveWatch = "off" => r.liveWatch = "off"
    BY <1>0, <1>8 DEF SlotsRepaired, GenState
  <2> HIDE DEF r
  <2>3. GenFrame
    BY <2>1, <2>2, KeepFrame
  <2> QED BY <1>8, <2>3, SameSup, SameCaller, FrameStep DEF SlotsRepaired
<1>9. CASE SlotRepairStops(g)
  <2> DEFINE r == [gen[g] EXCEPT !.slotRepairing = FALSE]
  <2>1. gen' = [gen EXCEPT ![g] = r]
    BY <1>9 DEF SlotRepairStops
  <2>2. /\ r.factory = gen[g].factory /\ r.readyWatch = gen[g].readyWatch
        /\ r.manager = gen[g].manager
        /\ gen[g].liveWatch = "off" => r.liveWatch = "off"
    BY <1>0, <1>9 DEF SlotRepairStops, GenState
  <2> HIDE DEF r
  <2>3. GenFrame
    BY <2>1, <2>2, KeepFrame
  <2> QED BY <1>9, <2>3, SameSup, SameCaller, FrameStep DEF SlotRepairStops
<1>10. CASE RetireClose(g)
  <2> DEFINE gn == [gen EXCEPT ![g].retire = "join"]
  <2>1. gn \in [Gens -> GenState] /\ Prior(gn)
    <3>1. gn = [gen EXCEPT ![g] = [gen[g] EXCEPT !.retire = "join"]]
      OBVIOUS
    <3> DEFINE r == [gen[g] EXCEPT !.retire = "join"]
    <3>2. /\ r \in GenState /\ r.factory = gen[g].factory /\ r.manager = gen[g].manager
          /\ r.readyWatch = gen[g].readyWatch /\ r.liveWatch = gen[g].liveWatch
      BY <1>0 DEF GenState
    <3> HIDE DEF r
    <3>3. gn = [gen EXCEPT ![g] = r] /\ gen \in [Gens -> GenState]
      BY <1>0, <3>1 DEF r, TypeOK
    <3> HIDE DEF gn
    <3> QED BY <1>0, <3>2, <3>3 DEF Prior, WatchDone
  <2>2. gen' = BeginClose(gn, g)
    BY <1>10 DEF RetireClose
  <2> HIDE DEF gn
  <2>3. GenFrame
    BY <2>1, <2>2, BeginCloseFrame
  <2> QED BY <1>10, <2>3, SameSup, SameCaller, FrameStep DEF RetireClose
<1>11. CASE ManagerDone(g)
  <2> DEFINE r == [gen[g] EXCEPT !.manager = "done"]
  <2>1. gen' = [gen EXCEPT ![g] = r]
    BY <1>11 DEF ManagerDone
  <2>2. /\ r.factory = gen[g].factory /\ r.readyWatch = gen[g].readyWatch
        /\ r.manager = "done" /\ r.liveWatch = gen[g].liveWatch
    BY <1>0 DEF GenState
  <2> HIDE DEF r
  <2>3. GenFrame
    BY <2>1, <2>2, KeepFrame
  <2> QED BY <1>11, <2>3, SameSup, SameCaller, FrameStep DEF ManagerDone
<1>12. CASE ManagerExhausts(g)
  <2> DEFINE x == gen[g].ready \/ \E b \in Bindings : TerminalTokens(g)[b] # tok[b]
             r == [gen[g] EXCEPT !.manager = "closing", !.ready = x]
  <2>1. gen' = [gen EXCEPT ![g] = r] /\ gen[g].manager = "ready"
    BY <1>12 DEF ManagerExhausts, BeginTerminal
  <2> HIDE DEF x
  <2>2. /\ r.factory = gen[g].factory /\ r.readyWatch = gen[g].readyWatch
        /\ r.manager = "closing" /\ r.liveWatch = gen[g].liveWatch
    BY <1>0 DEF GenState
  <2> HIDE DEF r
  <2>3. GenFrame
    BY <2>1, <2>2, KeepFrame
  <2> QED BY <1>12, <2>3, SameSup, SameCaller, FrameStep DEF ManagerExhausts
<1>13. CASE SlotFails(g)
  <2> DEFINE r == [gen[g] EXCEPT !.degraded = TRUE]
  <2>1. gen' = [gen EXCEPT ![g] = r]
    BY <1>13 DEF SlotFails
  <2>2. /\ r.factory = gen[g].factory /\ r.readyWatch = gen[g].readyWatch
        /\ r.manager = gen[g].manager
        /\ gen[g].liveWatch = "off" => r.liveWatch = "off"
    BY <1>0, <1>13 DEF SlotFails, GenState
  <2> HIDE DEF r
  <2>3. GenFrame
    BY <2>1, <2>2, KeepFrame
  <2> QED BY <1>13, <2>3, SameSup, SameCaller, FrameStep DEF SlotFails
<1> QED BY <1>1, <1>2, <1>3, <1>4, <1>5, <1>6, <1>7, <1>8, <1>9, <1>10, <1>11,
           <1>12, <1>13 DEF ReadyWatch, LiveWatch, SlotRepairer

(* The consumer of readiness and the clients.                              *)
LEMMA ClientCore ==
  ASSUME IInv, \/ Scan
               \/ \E b \in Bindings : Bind(b) \/ Deliver(b) \/ ClientCloses(b)
  PROVE  Core'
<1>0. TypeOK /\ WatchDone /\ ScanShape
  BY DEF IInv
<1>1. CASE ScanBegin
  <2>1. SupFrame
    <3>1. sup \in SupState
      BY <1>0 DEF TypeOK
    <3> QED BY <1>1, <3>1 DEF ScanBegin, SupFrame, SupState, IInv, FactoryKnown
  <2> QED BY <1>0, <1>1, <2>1, SameFrame, SameCaller, FrameStep DEF ScanBegin
<1>2. CASE ScanEmpty
  BY <1>0, <1>2, SameFrame, SameSup, SameCaller, FrameStep DEF ScanEmpty
<1>3. CASE ScanDone
  <2> DEFINE g == Head(scan.rest)
  <2>1. g \in Gens
    <3>1. scan.rest \in Seq(Gens) /\ scan.rest # <<>>
      BY <1>0, <1>3 DEF ScanDone, ScanShape, TypeOK
    <3> QED BY <3>1
  <2>2. sup' = IF Done(g) THEN RemoveSource(sup, g) ELSE sup
    BY <1>3 DEF ScanDone
  <2> HIDE DEF g
  <2>3. SupFrame
    BY <2>1, <2>2, RemoveSup, SameSup
  <2> QED BY <1>0, <1>3, <2>3, SameFrame, SameCaller, FrameStep DEF ScanDone
<1>4. ASSUME NEW b \in Bindings, ScanLease(b) \/ Bind(b) \/ ClientCloses(b) PROVE Core'
  <2>1. UNCHANGED <<gen, sup, caller, tx>>
    BY <1>4 DEF ScanLease, Bind, ClientCloses
  <2> QED BY <1>0, <2>1, SameFrame, SameSup, SameCaller, FrameStep
<1>5. ASSUME NEW b \in Bindings, Deliver(b) PROVE Core'
  <2> DEFINE g == tok[b].gen
  <2>1. GenFrame
    <3>1. CASE g \in Gens
      <4> DEFINE r == [gen[g] EXCEPT !.ready = TRUE]
      <4>1. gen' = [gen EXCEPT ![g] = r] /\ gen[g] \in GenState
        BY <1>0, <1>5, <3>1 DEF Deliver, TypeOK
      <4>2. /\ r.factory = gen[g].factory /\ r.readyWatch = gen[g].readyWatch
            /\ r.manager = gen[g].manager /\ r.liveWatch = gen[g].liveWatch
        BY <4>1 DEF GenState
      <4> HIDE DEF r, g
      <4> QED BY <3>1, <4>1, <4>2, KeepFrame
    <3>2. CASE g \notin Gens
      <4>1. gen' = [gen EXCEPT ![g].ready = TRUE] /\ gen \in [Gens -> GenState]
        BY <1>0, <1>5 DEF Deliver, TypeOK
      <4> HIDE DEF g
      <4>2. gen' = gen
        BY <3>2, <4>1
      <4> QED BY <1>0, <4>2, SameFrame
    <3> QED BY <3>1, <3>2
  <2> QED BY <1>5, <2>1, SameSup, SameCaller, FrameStep DEF Deliver
<1> QED BY <1>1, <1>2, <1>3, <1>4, <1>5 DEF Scan

(* The caller of Start and Rotate, outside transitions.                    *)
LEMMA CallerCore ==
  ASSUME IInv, NEW f \in Factories, NEW op \in {"start", "rotate"}, NEW own,
         \/ Call(op, f, own) \/ CancelCall \/ CallReturns(own)
         \/ StartRequest \/ RepairTimer
  PROVE  Core'
<1>0. TypeOK /\ WatchDone /\ FactoryKnown
  BY DEF IInv
<1>1. CASE Call(op, f, own) \/ CallReturns(own)
  <2>1. CallFrame
    BY <1>1 DEF Call, CallReturns, NoCall, CallFrame
  <2>2. UNCHANGED <<gen, sup, tx>>
    BY <1>1 DEF Call, CallReturns
  <2> QED BY <1>0, <2>1, <2>2, SameFrame, SameSup, FrameStep
<1>2. CASE CancelCall
  <2>1. CallFrame
    BY <1>0, <1>2 DEF CancelCall, CallFrame, FactoryKnown, TypeOK, CallState
  <2> QED BY <1>0, <1>2, <2>1, SameFrame, SameSup, FrameStep DEF CancelCall
<1>3. CASE StartRequest
  <2>1. CallFrame
    BY <1>0, <1>3 DEF StartRequest, CallFrame, FactoryKnown, TypeOK, CallState
  <2>2. SupFrame
    <3>1. sup \in SupState /\ sup.lastFactory # None
      BY <1>0, <1>3 DEF StartRequest, FactoryKnown, TypeOK
    <3> QED BY <1>3, <3>1 DEF StartRequest, RequestRepair, SupFrame, SupState
  <2> QED BY <1>0, <1>3, <2>1, <2>2, SameFrame, FrameStep DEF StartRequest
<1>4. CASE RepairTimer
  <2>1. SupFrame
    <3>1. sup \in SupState /\ sup.lastFactory # None
      BY <1>0, <1>4 DEF RepairTimer, FactoryKnown, TypeOK
    <3> QED BY <1>4, <3>1 DEF RepairTimer, SupFrame, SupState
  <2> QED BY <1>0, <1>4, <2>1, SameFrame, SameCaller, FrameStep DEF RepairTimer
<1> QED BY <1>1, <1>2, <1>3, <1>4

-----------------------------------------------------------------------------
(* Steps of the holder of transitions.                                     *)

(* The end of Start, Rotate and repair is within the frame.                *)
LEMMA ReturnFrame ==
  ASSUME IInv, NEW op \in {"start", "rotate", "repair"}, NEW ok \in BOOLEAN, NEW s,
         s = sup \/ s = Signal(sup), Return(op, s, ok),
         op = "rotate" \/ sup.lastFactory # None
  PROVE  SupFrame /\ CallFrame /\ tx' = NoTx
<1>1. sup \in SupState /\ TypeOK /\ FactoryKnown
  BY DEF IInv, TypeOK
<1>2. /\ s \in SupState /\ s.active = sup.active /\ s.retiring = sup.retiring
      /\ s.close = sup.close /\ s.closeSources = sup.closeSources
      /\ s.sources = sup.sources /\ s.lastFactory = sup.lastFactory
      /\ s.repair = sup.repair
  BY <1>1 DEF Signal, SupState
<1>3. SupFrame
  BY <1>1, <1>2 DEF Return, SupFrame, SupState, FactoryKnown
<1>4. CallFrame
  BY <1>1 DEF Return, CallFrame, FactoryKnown, TypeOK, CallState
<1> QED BY <1>3, <1>4 DEF Return

(* Start, Rotate and repair when they give up, and Rotate when it is done. *)
LEMMA ReturnCore ==
  ASSUME IInv, \/ ConstructFails \/ Discarded \/ RotateCancelled \/ RotateRetire
               \/ RotateWait /\ Return(tx.op, sup, FALSE)
  PROVE  Core'
<1>0. TypeOK /\ TxShape /\ Candidate /\ WatchDone /\ FactoryKnown
  BY DEF IInv
<1>1. /\ tx.op \in {"start", "rotate", "repair"}
      /\ tx.op = "rotate" \/ sup.lastFactory # None
  <2>1. tx.at \in {"prepare", "discard", "retire"} \/ (tx.op = "rotate" /\ tx.at = "wait")
    BY DEF ConstructFails, Discarded, RotateCancelled, RotateRetire, RotateWait
  <2>2. tx.op \in {"start", "repair"} => tx.at \in Preparing
    BY <1>0, <2>1 DEF TxShape, NoTx, Watchers
  <2>3. tx.op \in {"start", "rotate", "repair"}
    BY <1>0, <2>1 DEF TxShape, NoTx, Preparing
  <2> QED BY <1>0, <2>2, <2>3 DEF FactoryKnown
<1>2. /\ SupFrame /\ CallFrame /\ tx' = NoTx
  BY <1>1, ReturnFrame DEF ConstructFails, Discarded, RotateCancelled, RotateRetire
<1>3. CASE ConstructFails \/ RotateCancelled \/ RotateWait
  <2>1. tx.gen = None
    <3>1. tx.at = "prepare" \/ (tx.op = "rotate" /\ tx.at = "wait")
      BY <1>3 DEF ConstructFails, RotateCancelled, RotateWait
    <3> QED BY <1>0, <3>1 DEF TxShape, Candidate, NoTx, Preparing, Watchers
  <2>2. GenFrame
    BY <1>0, <1>3, SameFrame DEF ConstructFails, RotateCancelled, RotateWait
  <2> QED BY <1>1, <1>2, <2>1, <2>2, NoneAssumption, ReleaseStep
<1>4. CASE Discarded
  <2>1. GenFrame
    BY <1>0, <1>4, SameFrame DEF Discarded
  <2>2. \A g \in Gens : g = tx.gen => ~Live(g)'
    BY <1>4 DEF Discarded, Done, Live
  <2> QED BY <1>1, <1>2, <2>1, <2>2, ReleaseStep
<1>5. CASE RotateRetire
  <2>1. tx.gen = None /\ tx.old \in Gens
    BY <1>0, <1>5 DEF TxShape, RotateRetire, NoTx, Preparing, Watchers
  <2> DEFINE r == RetireRoutine(gen[tx.old])
  <2>2. gen' = [gen EXCEPT ![tx.old] = r]
    BY <1>5 DEF RotateRetire
  <2>3. gen[tx.old] \in GenState
    BY <1>0, <2>1 DEF TypeOK
  <2>4. /\ r.factory = gen[tx.old].factory /\ r.readyWatch = gen[tx.old].readyWatch
        /\ gen[tx.old].liveWatch = "off" => r.liveWatch = "off"
        /\ r.manager = gen[tx.old].manager
    BY <2>3, RetireFields
  <2> HIDE DEF r
  <2>5. GenFrame
    BY <2>1, <2>2, <2>4, KeepFrame
  <2> QED BY <1>1, <1>2, <2>1, <2>5, NoneAssumption, ReleaseStep
<1> QED BY <1>3, <1>4, <1>5

(* ensureActive, entered with transitions just taken.                      *)
LEMMA EnsureActiveCore ==
  ASSUME IInv, tx = NoTx, gen' = gen,
         NEW op \in {"start", "repair"}, NEW f \in Factories, NEW l \in Factories,
         sup.lastFactory # None => l = sup.lastFactory,
         EnsureActive(op, [sup EXCEPT !.lastFactory = l], f)
  PROVE  Core'
<1> DEFINE s == [sup EXCEPT !.lastFactory = l]
<1>0. TypeOK /\ sup \in SupState
  BY DEF IInv, TypeOK
<1>1. /\ s \in SupState /\ s.active = sup.active /\ s.retiring = sup.retiring
      /\ s.close = sup.close /\ s.closeSources = sup.closeSources
      /\ s.sources = sup.sources /\ s.lastFactory = l /\ s.repair = sup.repair
  BY <1>0 DEF SupState
<1>2. EnsureActive(op, s, f)
  OBVIOUS
<1> HIDE DEF s
<1>3. /\ sup'.active = sup.active /\ sup'.retiring = sup.retiring
      /\ sup'.close = sup.close /\ sup'.closeSources = sup.closeSources
      /\ sup'.sources = sup.sources /\ sup'.lastFactory = l
  BY <1>1, <1>2 DEF EnsureActive, Return, SupState
<1>4. \/ tx' = NoTx
      \/ /\ tx'.op = op /\ tx'.at = "prepare" /\ tx'.gen = None /\ tx'.factory = f
         /\ sup.active = None /\ sup.close = "open"
  BY <1>1, <1>2 DEF EnsureActive, Return, NoTx, Closing
<1>5. caller'.at = "lock" => caller'.factory \in Factories
  BY <1>0, <1>2 DEF EnsureActive, Return, IInv, FactoryKnown, TypeOK, CallState
<1> USE DEF IInv
<1>6. TxShape'
  BY <1>3, <1>4 DEF TxShape, Preparing
<1>7. Candidate'
  BY <1>4 DEF Candidate, NoTx
<1>8. CloseShape'
  BY <1>3, <1>4 DEF CloseShape, NoTx
<1>9. EveryManagerIsOwned'
  BY <1>3, NoneAssumption DEF EveryManagerIsOwned, Live, NoTx
<1>10. Covered'
  BY <1>3, NoneAssumption DEF Covered, Live, NoTx, CloseShape
<1>11. WatchDone'
  BY DEF WatchDone, Done
<1>12. FactoryKnown'
  BY <1>3, <1>4, <1>5, NoneAssumption DEF FactoryKnown, NoTx, Preparing
<1>13. RepairFactoryIsCurrent'
  BY <1>3 DEF RepairFactoryIsCurrent, FactoryKnown
<1> QED BY <1>6, <1>7, <1>8, <1>9, <1>10, <1>11, <1>12, <1>13 DEF Core

(* Whoever takes transitions for Start, Rotate or a repair.                *)
LEMMA LockCore ==
  ASSUME IInv, StartLock \/ RepairLock \/ RotateLock
  PROVE  Core'
<1>0. TypeOK /\ sup \in SupState /\ FactoryKnown
  BY DEF IInv, TypeOK
<1>1. CASE StartLock
  <2> DEFINE l == IF sup.lastFactory = None THEN caller.factory ELSE sup.lastFactory
  <2>1. caller.factory \in Factories /\ l \in Factories
    BY <1>0, <1>1 DEF StartLock, FactoryKnown, SupState
  <2>2. EnsureActive("start", [sup EXCEPT !.lastFactory = l], caller.factory)
    BY <1>1 DEF StartLock
  <2>3. sup.lastFactory # None => l = sup.lastFactory
    OBVIOUS
  <2> HIDE DEF l
  <2> QED BY <1>1, <2>1, <2>2, <2>3, EnsureActiveCore DEF StartLock
<1>2. CASE RepairLock
  <2> DEFINE f == IF sup.active # None THEN gen[sup.active].factory ELSE sup.lastFactory
  <2>1. sup.lastFactory \in Factories
    BY <1>0, <1>2 DEF RepairLock, FactoryKnown, SupState
  <2>2. f \in Factories
    BY <2>1 DEF IInv, RepairFactoryIsCurrent
  <2>3. sup = [sup EXCEPT !.lastFactory = sup.lastFactory]
    BY <1>0 DEF SupState
  <2>4. EnsureActive("repair", sup, f)
    BY <1>2 DEF RepairLock
  <2> HIDE DEF f
  <2>5. EnsureActive("repair", [sup EXCEPT !.lastFactory = sup.lastFactory], f)
    BY <2>3, <2>4
  <2> QED BY <1>2, <2>1, <2>2, <2>5, EnsureActiveCore DEF RepairLock
<1>3. CASE RotateLock
  <2>1. /\ tx'.op = "rotate" /\ tx'.at = "wait" /\ tx'.gen = None
        /\ tx'.factory \in Factories
    BY <1>0, <1>3 DEF RotateLock, NoTx, FactoryKnown
  <2>2. caller'.at = "run"
    BY <1>0, <1>3 DEF RotateLock, TypeOK, CallState
  <2>3. tx = NoTx /\ sup' = sup /\ gen' = gen
    BY <1>3 DEF RotateLock
  <2> USE DEF IInv
  <2>4. TxShape'
    BY <2>1 DEF TxShape
  <2>5. Candidate'
    BY <2>1 DEF Candidate
  <2>6. CloseShape'
    BY <2>1, <2>3 DEF CloseShape, NoTx
  <2>7. EveryManagerIsOwned'
    BY <2>3, NoneAssumption DEF EveryManagerIsOwned, Live, NoTx
  <2>8. Covered'
    BY <2>3, NoneAssumption DEF Covered, Live, NoTx, CloseShape
  <2>9. WatchDone'
    BY <2>3 DEF WatchDone, Done
  <2>10. FactoryKnown'
    BY <2>1, <2>2, <2>3 DEF FactoryKnown, Preparing, Watchers
  <2>11. RepairFactoryIsCurrent'
    BY <2>3 DEF RepairFactoryIsCurrent
  <2> QED BY <2>4, <2>5, <2>6, <2>7, <2>8, <2>9, <2>10, <2>11 DEF Core
<1> QED BY <1>1, <1>2, <1>3

(* A rotation, the previous one drained, goes on to prepare its candidate. *)
LEMMA RotateWaitCore ==
  ASSUME IInv, RotateWait
  PROVE  Core'
<1>1. CASE Return(tx.op, sup, FALSE)
  BY <1>1, ReturnCore
<1>2. CASE ~Return(tx.op, sup, FALSE)
  <2>0. sup' = sup /\ gen' = gen /\ caller' = caller
    BY <1>2 DEF RotateWait
  <2>1. /\ sup.close = "open" /\ sup.retiring = None /\ sup.active \in Gens
        /\ tx.op = "rotate" /\ tx.at = "wait"
    BY <1>2 DEF RotateWait, Closing, Healthy, IInv, TypeOK, SupState
  <2>2. tx.gen = None /\ tx.factory \in Factories /\ sup.lastFactory # None
    BY <2>1, NoneAssumption DEF IInv, TxShape, FactoryKnown, NoTx, Preparing
  <2>3. /\ tx'.op = "rotate" /\ tx'.at = "prepare" /\ tx'.gen = None
        /\ tx'.old = sup.active /\ tx'.factory \in Factories
    BY <1>2, <2>1, <2>2 DEF RotateWait, IInv, TypeOK, TxState
  <2> USE DEF IInv
  <2>4. TxShape'
    BY <2>0, <2>1, <2>3 DEF TxShape, Preparing
  <2>5. Candidate'
    BY <2>3 DEF Candidate
  <2>6. CloseShape'
    BY <2>0, <2>1, <2>3 DEF CloseShape
  <2>7. EveryManagerIsOwned'
    BY <2>0, <2>2, NoneAssumption DEF EveryManagerIsOwned, Live
  <2>8. Covered'
    BY <2>0, <2>1 DEF Covered, Live
  <2>9. WatchDone'
    BY <2>0 DEF WatchDone, Done
  <2>10. FactoryKnown'
    BY <2>0, <2>2, <2>3 DEF FactoryKnown
  <2>11. RepairFactoryIsCurrent'
    BY <2>0 DEF RepairFactoryIsCurrent
  <2> QED BY <2>4, <2>5, <2>6, <2>7, <2>8, <2>9, <2>10, <2>11 DEF Core
<1> QED BY <1>1, <1>2

(* The holder is preparing a candidate: what it knows.                     *)
LEMMA PreparingFacts ==
  ASSUME IInv, tx.at \in Preparing
  PROVE  /\ tx.op \in {"start", "repair", "rotate"}
         /\ tx.op \in {"start", "repair"} => sup.active = None
         /\ tx.op = "rotate" => /\ sup.retiring = None /\ tx.old \in Gens
                                /\ tx.old = sup.active
         /\ sup.close \notin {"run", "wait", "closed"}
         /\ sup.lastFactory # None /\ tx.factory \in Factories
<1>1. /\ tx.op \in {"start", "repair", "rotate"}
      /\ tx.op \in {"start", "repair"} => sup.active = None
      /\ tx.op = "rotate" => /\ sup.retiring = None /\ tx.old \in Gens
                             /\ tx.old = sup.active
  BY DEF IInv, TxShape, Preparing, NoTx, Watchers
<1>2. sup.close \notin {"run", "wait", "closed"}
  BY <1>1 DEF IInv, CloseShape, Preparing, NoTx
<1>3. sup.lastFactory # None /\ tx.factory \in Factories
  BY DEF IInv, FactoryKnown
<1> QED BY <1>1, <1>2, <1>3

(* A step of a preparation that keeps the supervisor's state.              *)
LEMMA PrepareStep ==
  ASSUME IInv, tx.at \in Preparing, sup' = sup, caller' = caller,
         NEW a \in {"probe", "publish", "discard"}, NEW g \in Gens,
         tx' = [tx EXCEPT !.at = a, !.gen = g],
         tx.gen = g \/ tx.gen = None,
         \A h \in Gens : h # g => gen'[h] = gen[h],
         a # "discard" => /\ g \notin {sup.active, sup.retiring}
                          /\ gen'[g].readyWatch = "off"
                          /\ gen'[g].factory = tx.factory,
         gen'[g].readyWatch \in {"lock", "join", "remove"} => Done(g)',
         g \in {sup.active, sup.retiring} => /\ gen'[g].factory = gen[g].factory
                                             /\ Live(g)' => Live(g)
  PROVE  Core'
<1>0. /\ tx.op \in {"start", "repair", "rotate"}
      /\ tx.op \in {"start", "repair"} => sup.active = None
      /\ tx.op = "rotate" => /\ sup.retiring = None /\ tx.old \in Gens
                             /\ tx.old = sup.active
      /\ sup.close \notin {"run", "wait", "closed"}
      /\ sup.lastFactory # None /\ tx.factory \in Factories
  BY PreparingFacts
<1>1. /\ tx'.op = tx.op /\ tx'.at = a /\ tx'.gen = g /\ tx'.old = tx.old
      /\ tx'.factory = tx.factory
  BY DEF IInv, TypeOK, TxState
<1> USE DEF IInv
<1>2. TxShape'
  BY <1>0, <1>1 DEF TxShape, Preparing
<1>3. Candidate'
  BY <1>1 DEF Candidate
<1>4. CloseShape'
  BY <1>0, <1>1 DEF CloseShape
<1>5. EveryManagerIsOwned'
  <2> SUFFICES ASSUME NEW h \in Gens, Live(h)', h # g PROVE h \in {sup.active, sup.retiring}
    BY <1>1 DEF EveryManagerIsOwned
  <2>1. Live(h)
    BY DEF Live
  <2> QED BY <2>1, NoneAssumption DEF EveryManagerIsOwned
<1>6. Covered'
  <2> SUFFICES ASSUME NEW h \in Gens, Live(h)', h \in {sup.active, sup.retiring}
               PROVE  /\ sup.close = "open" => h \in Range(sup.sources)
                      /\ sup.close = "lock" => h \in Range(sup.closeSources)
    BY <1>0 DEF Covered
  <2>1. Live(h)
    BY DEF Live
  <2> QED BY <2>1 DEF Covered
<1>7. WatchDone'
  <2> SUFFICES ASSUME NEW h \in Gens, h # g,
                      gen'[h].readyWatch \in {"lock", "join", "remove"}
               PROVE  Done(h)'
    BY DEF WatchDone
  <2> QED BY DEF WatchDone, Done
<1>8. FactoryKnown'
  BY <1>0, <1>1 DEF FactoryKnown
<1>9. RepairFactoryIsCurrent'
  BY NoneAssumption DEF RepairFactoryIsCurrent, TypeOK, SupState
<1> QED BY <1>2, <1>3, <1>4, <1>5, <1>6, <1>7, <1>8, <1>9 DEF Core

(* prepareGeneration and a publication that is refused.                    *)
LEMMA PrepareCore ==
  ASSUME IInv, Construct \/ Admit \/ AdmitFails \/ PublishRefused
  PROVE  Core'
<1>0. TypeOK /\ Candidate /\ WatchDone /\ gen \in [Gens -> GenState] /\ tx \in TxState
  BY DEF IInv, TypeOK
<1>1. CASE Construct
  <2>1. tx.at = "prepare" /\ tx.gen = None /\ UNCHANGED <<sup, caller>>
    BY <1>0, <1>1 DEF Construct, Candidate
  <2>2. PICK g \in Gens, r \in SlotRepair :
          /\ Forgotten(g)
          /\ gen' = [gen EXCEPT ![g] = [NewGen EXCEPT !.manager = "created",
                       !.factory = tx.factory, !.repairable = r]]
          /\ tx' = [tx EXCEPT !.at = "probe", !.gen = g]
    BY <1>1 DEF Construct
  <2>3. g \notin {sup.active, sup.retiring}
    BY <2>2 DEF Forgotten
  <2>4. /\ gen'[g].readyWatch = "off" /\ gen'[g].factory = tx.factory
        /\ \A h \in Gens : h # g => gen'[h] = gen[h]
    BY <1>0, <2>2 DEF NewGen
  <2>5. tx.at \in Preparing
    BY <2>1 DEF Preparing
  <2> QED BY <2>1, <2>2, <2>3, <2>4, <2>5, PrepareStep
<1>2. CASE Admit
  <2> DEFINE g == tx.gen
             r == [gen[g] EXCEPT !.manager = "ready"]
  <2>1. /\ tx.at \in Preparing /\ g \in Gens /\ UNCHANGED <<sup, caller>>
        /\ g \notin {sup.active, sup.retiring}
        /\ gen[g].readyWatch = "off" /\ gen[g].factory = tx.factory
    BY <1>0, <1>2 DEF Admit, Candidate, Preparing
  <2>2. gen' = [gen EXCEPT ![g] = r]
    BY <1>2 DEF Admit
  <2>3. tx' = [tx EXCEPT !.at = "publish", !.gen = g]
    BY <1>0, <1>2 DEF Admit, TxState
  <2>4. r.readyWatch = "off" /\ r.factory = tx.factory
    <3>1. gen[g] \in GenState
      BY <1>0, <2>1
    <3> QED BY <2>1, <3>1 DEF GenState
  <2> HIDE DEF r
  <2>5. gen'[g] = r /\ \A h \in Gens : h # g => gen'[h] = gen[h]
    BY <1>0, <2>1, <2>2
  <2> QED BY <2>1, <2>3, <2>4, <2>5, PrepareStep
<1>3. CASE AdmitFails \/ PublishRefused
  <2>0. tx.at \in Preparing /\ tx.gen \in Gens /\ UNCHANGED <<sup, caller>>
    BY <1>0, <1>3 DEF AdmitFails, PublishRefused, Candidate, Preparing
  <2>1. PICK g \in Gens : g = tx.gen
    BY <2>0
  <2>2. gen' = BeginClose(gen, g)
    BY <1>3, <2>1 DEF AdmitFails, PublishRefused
  <2>3. tx' = [tx EXCEPT !.at = "discard", !.gen = g]
    BY <1>0, <1>3, <2>1 DEF AdmitFails, PublishRefused, TxState
  <2>4. Prior(gen)
    BY <1>0 DEF Prior, WatchDone
  <2>5. GenFrame
    BY <1>0, <2>2, <2>4, BeginCloseFrame
  <2>6. \A h \in Gens : h # g => gen'[h] = gen[h]
    BY <1>0, <2>2 DEF BeginClose
  <2>7. /\ gen'[g].factory = gen[g].factory
        /\ Live(g)' => Live(g)
        /\ gen'[g].readyWatch \in {"lock", "join", "remove"} => Done(g)'
    BY <2>5 DEF GenFrame
  <2> QED BY <2>0, <2>1, <2>3, <2>6, <2>7, PrepareStep
<1> QED BY <1>1, <1>2, <1>3

(* What an appended source adds to the registry.                           *)
LEMMA AppendRange ==
  ASSUME NEW s \in Seq(Gens), NEW g \in Gens
  PROVE  /\ g \in Range(Append(s, g))
         /\ \A h \in Range(s) : h \in Range(Append(s, g))
<1> DEFINE t == Append(s, g)
<1>1. /\ t \in Seq(Gens) /\ Len(t) = Len(s) + 1 /\ Len(s) \in Nat
      /\ \A i \in 1..Len(s) : t[i] = s[i]
      /\ t[Len(s) + 1] = g
  OBVIOUS
<1> HIDE DEF t
<1>2. DOMAIN t = 1..(Len(s) + 1) /\ DOMAIN s = 1..Len(s)
  BY <1>1
<1>3. g \in Range(t)
  BY <1>1, <1>2 DEF Range
<1>4. \A h \in Range(s) : h \in Range(t)
  BY <1>1, <1>2 DEF Range
<1> QED BY <1>3, <1>4 DEF t

(* Publication hands the roles over in one step.                           *)
LEMMA PublishCore ==
  ASSUME IInv, Publish
  PROVE  Core'
<1>0. /\ TypeOK /\ Candidate /\ gen \in [Gens -> GenState] /\ tx \in TxState
      /\ sup \in SupState /\ caller \in CallState(caller.own) /\ FactoryKnown
  BY DEF IInv, TypeOK
<1>1. PICK g \in Gens : g = tx.gen
  BY <1>0 DEF Publish, Candidate
<1>2. /\ tx.at = "publish" /\ tx.at \in Preparing /\ sup.close = "open"
      /\ g \notin {sup.active, sup.retiring}
      /\ gen[g].readyWatch = "off" /\ gen[g].factory = tx.factory
  BY <1>0, <1>1 DEF Publish, Superseded, Closing, Candidate, Preparing
<1>3. /\ tx.op \in {"start", "repair", "rotate"}
      /\ tx.op \in {"start", "repair"} => sup.active = None
      /\ tx.op = "rotate" => /\ sup.retiring = None /\ tx.old \in Gens
                             /\ tx.old = sup.active
      /\ tx.factory \in Factories
  BY <1>2, PreparingFacts
<1>4. /\ gen'[g].factory = tx.factory /\ gen'[g].manager = gen[g].manager
      /\ gen'[g].readyWatch = "run"
      /\ \A h \in Gens : h # g => gen'[h] = gen[h]
  <2> DEFINE r == [gen[g] EXCEPT !.readyWatch = "run", !.liveWatch = "run"]
  <2>1. r.factory = tx.factory /\ r.manager = gen[g].manager /\ r.readyWatch = "run"
    <3>1. gen[g] \in GenState
      BY <1>0
    <3> QED BY <1>2, <3>1 DEF GenState
  <2>2. gen' = [gen EXCEPT ![g] = r]
    BY <1>0, <1>1 DEF Publish
  <2> HIDE DEF r
  <2> QED BY <1>0, <2>1, <2>2
<1>5. /\ sup'.active = g /\ sup'.lastFactory = tx.factory
      /\ sup'.sources = Append(sup.sources, g)
      /\ sup'.close = "open"
      /\ sup'.retiring = IF tx.op = "rotate" THEN sup.active ELSE sup.retiring
  <2> DEFINE s == [sup EXCEPT !.active = g, !.lastFactory = tx.factory,
                              !.sources = Append(@, g)]
  <2>1. /\ s.active = g /\ s.lastFactory = tx.factory
        /\ s.sources = Append(sup.sources, g) /\ s.close = "open"
        /\ s.retiring = sup.retiring
    BY <1>0, <1>2 DEF SupState
  <2>2. s \in SupState
    <3> DEFINE q == Append(sup.sources, g)
    <3>1. q \in Seq(Gens)
      BY <1>0 DEF SupState
    <3>2. s = [sup EXCEPT !.active = g, !.lastFactory = tx.factory, !.sources = q]
      OBVIOUS
    <3> HIDE DEF q, s
    <3> QED BY <1>0, <1>3, <3>1, <3>2 DEF SupState
  <2>3. IF tx.op = "rotate" THEN sup' = [s EXCEPT !.retiring = tx.old]
                            ELSE Return(tx.op, s, TRUE)
    BY <1>1 DEF Publish
  <2> HIDE DEF s
  <2> QED BY <1>3, <2>1, <2>2, <2>3 DEF Return, SupState
<1>6. IF tx.op = "rotate"
      THEN tx'.op = "rotate" /\ tx'.at = "retire" /\ tx'.gen = None /\ tx'.old = tx.old
      ELSE tx' = NoTx
  BY <1>0 DEF Publish, Return, TxState
<1>7. caller' = caller \/ caller'.at = "return"
  BY <1>0 DEF Publish, Return, CallState
<1>8. \A h \in Gens : Live(h)' => Live(h)
  BY <1>4 DEF Live
<1> USE DEF IInv
<1>9. TxShape'
  BY <1>3, <1>6 DEF TxShape
<1>10. Candidate'
  BY <1>6 DEF Candidate, NoTx
<1>11. CloseShape'
  BY <1>5, <1>6 DEF CloseShape, NoTx
<1>12. EveryManagerIsOwned'
  BY <1>1, <1>3, <1>5, <1>8, NoneAssumption DEF EveryManagerIsOwned
<1>13. Covered'
  <2> SUFFICES ASSUME NEW h \in Gens, Live(h)', h \in {sup'.active, sup'.retiring}
               PROVE  h \in Range(sup'.sources)
    BY <1>5 DEF Covered
  <2>1. h # g => h \in Range(sup.sources)
    BY <1>2, <1>5, <1>8 DEF Covered
  <2>2. sup.sources \in Seq(Gens)
    BY <1>0 DEF SupState
  <2> QED BY <1>5, <2>1, <2>2, AppendRange
<1>14. WatchDone'
  <2> SUFFICES ASSUME NEW h \in Gens, h # g,
                      gen'[h].readyWatch \in {"lock", "join", "remove"}
               PROVE  Done(h)'
    BY <1>4 DEF WatchDone
  <2> QED BY <1>4 DEF WatchDone, Done
<1>15. FactoryKnown'
  BY <1>3, <1>5, <1>6, <1>7, NoneAssumption DEF FactoryKnown, NoTx, Preparing
<1>16. RepairFactoryIsCurrent'
  BY <1>4, <1>5 DEF RepairFactoryIsCurrent
<1> QED BY <1>9, <1>10, <1>11, <1>12, <1>13, <1>14, <1>15, <1>16 DEF Core

(* The goroutine of a retired manager gives its role up once it is Done.   *)
LEMMA RetireJoinedCore ==
  ASSUME IInv, NEW g \in Gens, RetireJoined(g)
  PROVE  Core'
<1>0. /\ TypeOK /\ gen[g] \in GenState /\ sup \in SupState /\ WatchDone /\ FactoryKnown
      /\ gen \in [Gens -> GenState]
  BY DEF IInv, TypeOK
<1>1. GenFrame
  <2> DEFINE r == [gen[g] EXCEPT !.retire = "end"]
  <2>1. gen' = [gen EXCEPT ![g] = r]
    BY DEF RetireJoined
  <2>2. /\ r.factory = gen[g].factory /\ r.readyWatch = gen[g].readyWatch
        /\ r.manager = gen[g].manager /\ r.liveWatch = gen[g].liveWatch
    BY <1>0 DEF GenState
  <2> HIDE DEF r
  <2> QED BY <2>1, <2>2, KeepFrame
<1>2. /\ sup'.active = sup.active /\ sup'.close = sup.close
      /\ sup'.retiring = IF sup.retiring = g THEN None ELSE sup.retiring
      /\ sup'.sources = sup.sources /\ sup'.closeSources = sup.closeSources
      /\ sup'.lastFactory = sup.lastFactory /\ sup'.repair = sup.repair
  BY <1>0 DEF RetireJoined, Signal, SupState
<1>3. tx' = tx /\ caller' = caller /\ ~Live(g)
  BY DEF RetireJoined, Done, Live
<1> USE DEF IInv, GenFrame
<1>4. TxShape'
  BY <1>1, <1>2, <1>3 DEF TxShape, Done
<1>5. Candidate'
  BY <1>1, <1>2, <1>3, NoneAssumption DEF Candidate
<1>6. CloseShape'
  BY <1>1, <1>2, <1>3 DEF CloseShape
<1>7. EveryManagerIsOwned'
  BY <1>1, <1>2, <1>3 DEF EveryManagerIsOwned
<1>8. Covered'
  BY <1>1, <1>2, <1>3, NoneAssumption DEF Covered
<1>9. WatchDone'
  BY <1>1 DEF WatchDone
<1>10. FactoryKnown'
  BY <1>1, <1>2, <1>3 DEF FactoryKnown
<1>11. RepairFactoryIsCurrent'
  BY <1>0, <1>1, <1>2, NoneAssumption DEF RepairFactoryIsCurrent, SupState
<1> QED BY <1>4, <1>5, <1>6, <1>7, <1>8, <1>9, <1>10, <1>11 DEF Core

-----------------------------------------------------------------------------
(* failGeneration.                                                         *)

(* A watcher that waits for transitions has been started, so that there is *)
(* a factory to repair with; the readiness watcher has seen Done.          *)
LEMMA LockedFacts ==
  ASSUME IInv, NEW g \in Gens, NEW w \in Watchers, gen[g][w] = "lock"
  PROVE  sup.lastFactory # None /\ (w = "readyWatch" => Done(g))
BY DEF IInv, FactoryKnown, WatchDone, Watchers

(* The failed generation, with its watcher moved on, before anything is    *)
(* closed.                                                                 *)
LEMMA FailedFields ==
  ASSUME IInv, NEW g \in Gens, NEW w \in Watchers, gen[g][w] = "lock",
         NEW r \in {gen[g], RetireRoutine(gen[g])}, NEW pc \in {"join", After(w)},
         NEW gn, gn = [gen EXCEPT ![g] = [r EXCEPT ![w] = pc]]
  PROVE  gn \in [Gens -> GenState] /\ Prior(gn)
<1>0. gen \in [Gens -> GenState] /\ gen[g] \in GenState /\ WatchDone
  BY DEF IInv, TypeOK
<1>1. /\ r \in GenState /\ r.factory = gen[g].factory
      /\ r.readyWatch = gen[g].readyWatch
      /\ gen[g].liveWatch = "off" => r.liveWatch = "off"
      /\ r.manager = gen[g].manager
  BY <1>0, RetireType, RetireFields
<1> DEFINE q == [r EXCEPT ![w] = pc]
<1>2. CASE w = "readyWatch"
  <2>1. Done(g) /\ gen[g].readyWatch = "lock"
    BY <1>2, LockedFacts
  <2>2. q = [r EXCEPT !.readyWatch = pc] /\ pc \in {"join", "remove"}
    BY <1>2 DEF After
  <2>3. /\ q \in GenState /\ q.factory = r.factory /\ q.manager = r.manager
        /\ q.liveWatch = r.liveWatch
    <3> HIDE DEF q
    <3> QED BY <1>1, <2>2 DEF GenState
  <2>4. gn = [gen EXCEPT ![g] = q]
    OBVIOUS
  <2> HIDE DEF q
  <2> QED BY <1>0, <1>1, <2>1, <2>3, <2>4 DEF Prior, WatchDone
<1>3. CASE w = "liveWatch"
  <2>1. gen[g].liveWatch = "lock"
    BY <1>3
  <2>2. q = [r EXCEPT !.liveWatch = pc] /\ pc \in {"join", "end"}
    BY <1>3 DEF After
  <2>3. /\ q \in GenState /\ q.factory = r.factory /\ q.manager = r.manager
        /\ q.readyWatch = r.readyWatch
    <3> HIDE DEF q
    <3> QED BY <1>1, <2>2 DEF GenState
  <2>4. gn = [gen EXCEPT ![g] = q]
    OBVIOUS
  <2> HIDE DEF q
  <2> QED BY <1>0, <1>1, <2>1, <2>3, <2>4 DEF Prior, WatchDone
<1> QED BY <1>2, <1>3 DEF Watchers

(* Without anything closed, that is within the frame.                      *)
LEMMA PriorFrame ==
  ASSUME Prior(gen')
  PROVE  GenFrame
BY DEF Prior, GenFrame, Live, Done

(* The roles move on: what failGeneration keeps of the invariant when it   *)
(* clears one of the two roles, its goroutine w holding transitions for a  *)
(* manager h that is being closed, or not at all.                          *)
LEMMA FailStep ==
  ASSUME IInv, NEW g \in Gens, NEW w \in Watchers, tx = NoTx, gen[g][w] = "lock",
         sup.close = "open", GenFrame,
         NEW h \in Gens \cup {None},
         IF h = None THEN tx' = NoTx
         ELSE tx' = [NoTx EXCEPT !.op = w, !.at = "join", !.gen = h, !.old = g],
         caller' = caller, sup'.close = "open", sup'.sources = sup.sources,
         sup'.lastFactory = sup.lastFactory,
         h # None => sup'.active = None \/ sup'.retiring = None,
         sup'.active \in {None, sup.active},
         {sup'.active, sup'.retiring} \subseteq {sup.active, sup.retiring, None},
         {sup.active, sup.retiring} \subseteq {sup'.active, sup'.retiring, h, None}
  PROVE  Core'
<1>1. sup.lastFactory # None /\ (w = "readyWatch" => Done(g))
  BY LockedFacts
<1>2. h # None => tx'.op = w /\ tx'.at = "join" /\ tx'.gen = h /\ tx'.old = g
  BY DEF NoTx
<1>3. h = None => tx' = NoTx
  OBVIOUS
<1> USE DEF IInv, GenFrame
<1>4. TxShape'
  <2>1. CASE h = None
    BY <1>3, <2>1 DEF TxShape
  <2>2. CASE h # None
    <3>1. w = "readyWatch" => Done(g)'
      BY <1>1
    <3> QED BY <1>2, <2>2, <3>1 DEF TxShape, Done
  <2> QED BY <2>1, <2>2
<1>5. Candidate'
  BY <1>2, <1>3 DEF Candidate, NoTx
<1>6. CloseShape'
  BY <1>2, <1>3 DEF CloseShape, NoTx, Watchers
<1>7. EveryManagerIsOwned'
  <2> SUFFICES ASSUME NEW x \in Gens, Live(x)'
               PROVE  x \in {sup'.active, sup'.retiring, tx'.gen}
    BY DEF EveryManagerIsOwned
  <2>1. x \in {sup.active, sup.retiring}
    BY NoneAssumption DEF EveryManagerIsOwned, NoTx
  <2> QED BY <1>2, <2>1, NoneAssumption
<1>8. Covered'
  <2> SUFFICES ASSUME NEW x \in Gens, Live(x)', x \in {sup'.active, sup'.retiring}
               PROVE  x \in Range(sup.sources)
    BY DEF Covered
  <2>1. x \in {sup.active, sup.retiring}
    BY NoneAssumption
  <2> QED BY <2>1 DEF Covered
<1>9. WatchDone'
  BY DEF WatchDone
<1>10. FactoryKnown'
  BY <1>1, <1>2, <1>3 DEF FactoryKnown, Preparing, NoTx
<1>11. RepairFactoryIsCurrent'
  BY NoneAssumption DEF RepairFactoryIsCurrent, TypeOK, SupState
<1> QED BY <1>4, <1>5, <1>6, <1>7, <1>8, <1>9, <1>10, <1>11 DEF Core

(* failGeneration with the mutex.                                          *)
LEMMA FailCore ==
  ASSUME IInv, NEW g \in Gens, NEW w \in Watchers, Fail(g, w)
  PROVE  Core'
<1>0. /\ gen \in [Gens -> GenState] /\ sup \in SupState /\ tx = NoTx
      /\ gen[g][w] = "lock"
  BY DEF IInv, TypeOK, Fail, FailActive, FailRetiring, FailUnowned
<1>1. CASE FailActive(g, w)
  <2> DEFINE s == Signal([sup EXCEPT !.active = None, !.retiring = g])
             retired(pc) == [gen EXCEPT ![g] = [RetireRoutine(@) EXCEPT ![w] = pc]]
  <2>1. /\ s.active = None /\ s.retiring = g /\ s.close = "open"
        /\ s.sources = sup.sources /\ s.lastFactory = sup.lastFactory
        /\ s \in SupState
    <3>1. sup.close = "open"
      BY <1>1 DEF FailActive, Closing
    <3> DEFINE t == [sup EXCEPT !.active = None, !.retiring = g]
    <3>2. /\ t \in SupState /\ t.active = None /\ t.retiring = g /\ t.close = "open"
          /\ t.sources = sup.sources /\ t.lastFactory = sup.lastFactory
      BY <1>0, <3>1 DEF SupState
    <3> HIDE DEF t
    <3>3. s = Signal(t)
      BY DEF t
    <3> HIDE DEF s
    <3> QED BY <3>2, <3>3 DEF Signal, SupState
  <2>2. sup.active = g /\ sup.close = "open" /\ caller' = caller
    BY <1>1 DEF FailActive, Closing
  <2>3. \A pc \in {"join", After(w)} :
          retired(pc) \in [Gens -> GenState] /\ Prior(retired(pc))
    BY <1>0, FailedFields
  <2>4. CASE sup.retiring = None
    <3>1. sup' = RequestRepair(s, FALSE) /\ gen' = retired(After(w)) /\ tx' = NoTx
      BY <1>0, <1>1, <2>4 DEF FailActive
    <3> HIDE DEF s
    <3>2. /\ sup'.active = None /\ sup'.retiring = g /\ sup'.close = "open"
          /\ sup'.sources = sup.sources /\ sup'.lastFactory = sup.lastFactory
      BY <2>1, <3>1 DEF RequestRepair, SupState
    <3>3. GenFrame
      <4>1. Prior(gen')
        BY <2>3, <3>1
      <4> QED BY <4>1, PriorFrame
    <3> QED BY <1>0, <2>2, <2>4, <3>1, <3>2, <3>3, FailStep
  <2>5. CASE sup.retiring # None
    <3>1. PICK h \in Gens : h = sup.retiring
      BY <1>0, <2>5 DEF SupState
    <3>2. /\ sup' = s
          /\ gen' = BeginClose(retired("join"), h)
          /\ tx' = [NoTx EXCEPT !.op = w, !.at = "join", !.gen = h, !.old = g]
      BY <1>1, <2>5, <3>1 DEF FailActive
    <3> HIDE DEF s
    <3>3. GenFrame
      <4>1. retired("join") \in [Gens -> GenState] /\ Prior(retired("join"))
        BY <2>3
      <4> HIDE DEF retired
      <4> QED BY <3>2, <4>1, BeginCloseFrame
    <3>4. h # None
      BY NoneAssumption
    <3>5. /\ sup'.active = None /\ sup'.retiring = g /\ sup'.close = "open"
          /\ sup'.sources = sup.sources /\ sup'.lastFactory = sup.lastFactory
      BY <2>1, <3>2
    <3>6. tx' = [NoTx EXCEPT !.op = w, !.at = "join", !.gen = h, !.old = g]
      BY <3>2
    <3>7. /\ sup'.active \in {None, sup.active}
          /\ {sup'.active, sup'.retiring} \subseteq {sup.active, sup.retiring, None}
          /\ {sup.active, sup.retiring} \subseteq {sup'.active, sup'.retiring, h, None}
      BY <2>2, <3>1, <3>5
    <3>8. IF h = None THEN tx' = NoTx
          ELSE tx' = [NoTx EXCEPT !.op = w, !.at = "join", !.gen = h, !.old = g]
      BY <3>4, <3>6
    <3>9. h \in Gens \cup {None}
      OBVIOUS
    <3> HIDE DEF retired
    <3> QED BY <1>0, <2>2, <3>3, <3>5, <3>7, <3>8, <3>9, FailStep
  <2> QED BY <2>4, <2>5
<1>2. CASE FailRetiring(g, w)
  <2> DEFINE gn == [gen EXCEPT ![g][w] = "join"]
  <2>1. /\ sup'.active = sup.active /\ sup'.retiring = None /\ sup'.close = "open"
        /\ sup'.sources = sup.sources /\ sup'.lastFactory = sup.lastFactory
    <3>1. sup.close = "open"
      BY <1>2 DEF FailRetiring, Closing
    <3> QED BY <1>0, <1>2, <3>1 DEF FailRetiring, Signal, SupState
  <2>2. sup.retiring = g /\ sup.close = "open" /\ caller' = caller
    BY <1>2 DEF FailRetiring, Closing
  <2>3. /\ gen' = BeginClose(gn, g)
        /\ tx' = [NoTx EXCEPT !.op = w, !.at = "join", !.gen = g, !.old = g]
    BY <1>2 DEF FailRetiring
  <2>4. gn \in [Gens -> GenState] /\ Prior(gn)
    <3>1. gn = [gen EXCEPT ![g] = [gen[g] EXCEPT ![w] = "join"]]
      OBVIOUS
    <3> HIDE DEF gn
    <3> QED BY <1>0, <3>1, FailedFields
  <2> HIDE DEF gn
  <2>5. GenFrame
    BY <2>3, <2>4, BeginCloseFrame
  <2>6. g # None
    BY NoneAssumption
  <2> QED BY <1>0, <2>1, <2>2, <2>3, <2>5, <2>6, FailStep
<1>3. CASE FailUnowned(g, w)
  <2>1. gen' = [gen EXCEPT ![g] = [gen[g] EXCEPT ![w] = After(w)]]
    BY <1>3 DEF FailUnowned
  <2>2. Prior(gen')
    BY <1>0, <2>1, FailedFields
  <2>3. GenFrame
    BY <2>2, PriorFrame
  <2> QED BY <1>3, <2>3, SameSup, SameCaller, FrameStep DEF FailUnowned
<1> QED BY <1>1, <1>2, <1>3 DEF Fail

(* failGeneration once the manager it closed is Done.                      *)
LEMMA FailJoinedCore ==
  ASSUME IInv, FailJoined
  PROVE  Core'
<1>0. /\ gen \in [Gens -> GenState] /\ sup \in SupState /\ TxShape /\ FactoryKnown
      /\ WatchDone
  BY DEF IInv, TypeOK
<1>1. /\ tx.op \in Watchers /\ tx.old \in Gens
      /\ tx.op = "readyWatch" => Done(tx.old)
  BY <1>0 DEF FailJoined, TxShape, NoTx, Preparing
<1>2. sup.lastFactory # None
  BY <1>0, <1>1 DEF FactoryKnown
<1>3. /\ sup'.active = sup.active /\ sup'.retiring = sup.retiring
      /\ sup'.close = sup.close /\ sup'.closeSources = sup.closeSources
      /\ sup'.lastFactory = sup.lastFactory /\ sup'.sources = sup.sources
  <2> DEFINE s == Signal(sup)
  <2>1. /\ s \in SupState /\ s.active = sup.active /\ s.retiring = sup.retiring
        /\ s.close = sup.close /\ s.closeSources = sup.closeSources
        /\ s.lastFactory = sup.lastFactory /\ s.sources = sup.sources
    BY <1>0 DEF Signal, SupState
  <2>2. sup' = RequestRepair(s, Healthy(sup.active))
    BY DEF FailJoined
  <2> HIDE DEF s
  <2> QED BY <2>1, <2>2 DEF RequestRepair, SupState
<1>4. PICK g \in Gens : g = tx.old
  BY <1>1
<1>5. /\ \A h \in Gens : gen'[h].factory = gen[h].factory /\ gen'[h].manager = gen[h].manager
      /\ \A h \in Gens : gen'[h].readyWatch \in {"lock", "join", "remove"} =>
           gen'[h].manager = "done"
  <2> DEFINE w == tx.op
             r == [gen[g] EXCEPT ![w] = After(w)]
  <2>1. gen' = [gen EXCEPT ![g] = r]
    BY <1>4 DEF FailJoined
  <2>2. gen[g] \in GenState
    BY <1>0
  <2>3. /\ r.factory = gen[g].factory /\ r.manager = gen[g].manager
        /\ w = "liveWatch" => r.readyWatch = gen[g].readyWatch
    BY <1>1, <2>2 DEF GenState, Watchers
  <2>4. w = "readyWatch" => gen[g].manager = "done"
    BY <1>1, <1>4 DEF Done
  <2>5. w \in {"readyWatch", "liveWatch"}
    BY <1>1 DEF Watchers
  <2> HIDE DEF r, w
  <2>6. \A h \in Gens : gen'[h] = IF h = g THEN r ELSE gen[h]
    BY <1>0, <2>1
  <2> QED BY <1>0, <2>3, <2>4, <2>5, <2>6 DEF WatchDone, Done
<1>6. /\ tx' = NoTx /\ caller' = caller
      /\ \A h \in Gens : Live(h)' => Live(h) /\ h # tx.gen
  BY <1>5 DEF FailJoined, Live, Done
<1> USE DEF IInv
<1>7. TxShape'
  BY <1>6 DEF TxShape
<1>8. Candidate'
  BY <1>6 DEF Candidate, NoTx
<1>9. CloseShape'
  BY <1>1, <1>3, <1>6 DEF CloseShape, NoTx, Watchers
<1>10. EveryManagerIsOwned'
  BY <1>3, <1>6 DEF EveryManagerIsOwned
<1>11. Covered'
  BY <1>3, <1>6 DEF Covered
<1>12. WatchDone'
  BY <1>5 DEF WatchDone, Done
<1>13. FactoryKnown'
  BY <1>2, <1>3, <1>6 DEF FactoryKnown, NoTx, Preparing
<1>14. RepairFactoryIsCurrent'
  BY <1>0, <1>3, <1>5, NoneAssumption DEF RepairFactoryIsCurrent, SupState
<1> QED BY <1>7, <1>8, <1>9, <1>10, <1>11, <1>12, <1>13, <1>14 DEF Core

-----------------------------------------------------------------------------
(* Close.                                                                  *)

(* What is left of a sequence after its head.                              *)
LEMMA HeadOrTail ==
  ASSUME NEW s \in Seq(Gens), s # <<>>
  PROVE  /\ Head(s) \in Gens
         /\ \A h \in Range(s) : h = Head(s) \/ h \in Range(Tail(s))
<1> DEFINE t == Tail(s)
<1>1. /\ Head(s) \in Gens /\ Head(s) = s[1] /\ t \in Seq(Gens)
      /\ Len(s) \in Nat /\ Len(t) = Len(s) - 1
      /\ \A i \in 1..Len(t) : t[i] = s[i + 1]
  BY HeadTailProperties
<1> HIDE DEF t
<1>2. DOMAIN s = 1..Len(s) /\ DOMAIN t = 1..Len(t)
  BY <1>1
<1>3. ASSUME NEW i \in 1..Len(s), i # 1 PROVE s[i] \in Range(t)
  <2>1. i - 1 \in 1..Len(t) /\ t[i - 1] = s[(i - 1) + 1] /\ (i - 1) + 1 = i
    BY <1>1, <1>3
  <2> QED BY <1>2, <2>1 DEF Range
<1> QED BY <1>1, <1>2, <1>3 DEF Range, t

(* A step of Close that leaves the generations and the roles alone.        *)
LEMMA CloseStep ==
  ASSUME IInv, GenFrame, sup'.active = sup.active, sup'.retiring = sup.retiring,
         sup'.lastFactory = sup.lastFactory, sup'.repair = sup.repair, caller' = caller,
         TxShape', CloseShape', Covered', tx' = tx \/ tx'.op = "close" \/ tx' = NoTx,
         tx' = tx \/ tx'.at \in {"none", "next", "join"},
         \A g \in Gens : Live(g)' => g # tx.gen \/ tx'.gen = tx.gen
  PROVE  Core'
<1> USE DEF IInv, GenFrame
<1>1. Candidate'
  BY DEF Candidate
<1>2. EveryManagerIsOwned'
  BY DEF EveryManagerIsOwned
<1>3. WatchDone'
  BY DEF WatchDone
<1>4. FactoryKnown'
  <2>1. tx'.at \in Preparing \cup {"wait"} => tx' = tx
    BY DEF Preparing
  <2>2. tx'.op \in Watchers => tx' = tx
    BY DEF Watchers, NoTx
  <2> QED BY <2>1, <2>2 DEF FactoryKnown
<1>5. RepairFactoryIsCurrent'
  BY NoneAssumption DEF RepairFactoryIsCurrent, TypeOK, SupState
<1> QED BY <1>1, <1>2, <1>3, <1>4, <1>5 DEF Core

(* Close.                                                                  *)
LEMMA CloseCore ==
  ASSUME IInv, \/ CloseBegin \/ CloseLock \/ CloseSource \/ CloseJoined
               \/ CloseUnlock \/ CloseFinish
  PROVE  Core'
<1>0. /\ gen \in [Gens -> GenState] /\ sup \in SupState /\ tx \in TxState
      /\ TxShape /\ CloseShape /\ Covered /\ EveryManagerIsOwned /\ WatchDone
  BY DEF IInv, TypeOK
<1>1. CASE CloseBegin
  <2>1. /\ sup'.active = sup.active /\ sup'.retiring = sup.retiring
        /\ sup'.lastFactory = sup.lastFactory /\ sup'.repair = sup.repair
        /\ sup'.close = "lock" /\ sup'.closeSources = sup.sources /\ sup.close = "open"
    BY <1>0, <1>1 DEF CloseBegin, SupState
  <2>2. UNCHANGED <<gen, tx, caller>>
    BY <1>1 DEF CloseBegin
  <2>3. TxShape'
    BY <1>0, <2>1, <2>2 DEF TxShape, Done
  <2>4. CloseShape'
    BY <1>0, <2>1, <2>2 DEF CloseShape
  <2>5. Covered'
    BY <1>0, <2>1, <2>2 DEF Covered, Live
  <2>6. GenFrame
    BY <1>0, <2>2, SameFrame
  <2> QED BY <2>1, <2>2, <2>3, <2>4, <2>5, <2>6, CloseStep
<1>2. CASE CloseLock
  <2>1. /\ sup'.active = sup.active /\ sup'.retiring = sup.retiring
        /\ sup'.lastFactory = sup.lastFactory /\ sup'.repair = sup.repair
        /\ sup'.close = "run" /\ sup'.closeSources = sup.closeSources /\ sup.close = "lock"
    BY <1>0, <1>2 DEF CloseLock, SupState
  <2>2. /\ UNCHANGED <<gen, caller>> /\ tx = NoTx
        /\ tx'.op = "close" /\ tx'.at = "next" /\ tx'.gen = None
    BY <1>2 DEF CloseLock, NoTx
  <2>3. TxShape'
    BY <2>2 DEF TxShape
  <2>4. CloseShape'
    BY <1>0, <2>1, <2>2, NoneAssumption DEF CloseShape, EveryManagerIsOwned, Live, NoTx
  <2>5. Covered'
    BY <1>0, <2>1, <2>2 DEF Covered, Live
  <2>6. GenFrame
    BY <1>0, <2>2, SameFrame
  <2>7. tx'.gen = tx.gen
    BY <2>2 DEF NoTx
  <2> QED BY <2>1, <2>2, <2>3, <2>4, <2>5, <2>6, <2>7, CloseStep
<1>3. CASE CloseSource
  <2>0. sup.closeSources \in Seq(Gens) /\ sup.closeSources # <<>>
    BY <1>0, <1>3 DEF CloseSource, SupState
  <2>1. PICK g \in Gens : g = Head(sup.closeSources)
    BY <2>0, HeadOrTail
  <2>2. /\ tx.gen = None /\ sup.close = "run" /\ caller' = caller
    BY <1>0, <1>3 DEF CloseSource, TxShape, CloseShape, NoTx, Preparing, Watchers
  <2>3. /\ sup'.active = sup.active /\ sup'.retiring = sup.retiring
        /\ sup'.lastFactory = sup.lastFactory /\ sup'.repair = sup.repair
        /\ sup'.close = "run" /\ sup'.closeSources = Tail(sup.closeSources)
    BY <1>0, <1>3, <2>2 DEF CloseSource, SupState
  <2>4. tx'.op = "close" /\ tx'.at = "join" /\ tx'.gen = g
    BY <1>0, <1>3, <2>1 DEF CloseSource, TxState
  <2>5. GenFrame
    <3>1. gen' = BeginClose(gen, g) /\ Prior(gen)
      BY <1>0, <1>3, <2>1 DEF CloseSource, Prior, WatchDone
    <3> QED BY <1>0, <3>1, BeginCloseFrame
  <2>6. TxShape'
    BY <2>4 DEF TxShape
  <2>7. CloseShape'
    BY <1>0, <2>2, <2>3, <2>4, <2>5 DEF CloseShape, GenFrame
  <2>8. Covered'
    <3> SUFFICES ASSUME NEW h \in Gens, Live(h)', h \in {sup.active, sup.retiring}
                 PROVE  h \in Range(Tail(sup.closeSources)) \/ h = g
      BY <2>3, <2>4 DEF Covered
    <3>1. h \in Range(sup.closeSources)
      BY <1>0, <2>2, <2>5, NoneAssumption DEF Covered, GenFrame
    <3> QED BY <2>0, <2>1, <3>1, HeadOrTail
  <2> QED BY <2>2, <2>3, <2>4, <2>5, <2>6, <2>7, <2>8, NoneAssumption, CloseStep
<1>4. CASE CloseJoined
  <2>1. sup' = sup /\ gen' = gen /\ caller' = caller /\ sup.close = "run"
    BY <1>0, <1>4 DEF CloseJoined, CloseShape
  <2>2. tx'.op = "close" /\ tx'.at = "next" /\ tx'.gen = None
    BY <1>0, <1>4 DEF CloseJoined, TxState
  <2>3. \A g \in Gens : Live(g)' => Live(g) /\ g # tx.gen
    BY <1>4, <2>1 DEF CloseJoined, Live, Done
  <2>4. TxShape'
    BY <2>2 DEF TxShape
  <2>5. CloseShape'
    BY <1>0, <2>1, <2>2, <2>3 DEF CloseShape
  <2>6. Covered'
    BY <1>0, <2>1, <2>3 DEF Covered
  <2>7. GenFrame
    BY <1>0, <2>1, SameFrame
  <2> QED BY <2>1, <2>2, <2>3, <2>4, <2>5, <2>6, <2>7, CloseStep
<1>5. CASE CloseUnlock
  <2>1. /\ sup'.active = sup.active /\ sup'.retiring = sup.retiring
        /\ sup'.lastFactory = sup.lastFactory /\ sup'.repair = sup.repair
        /\ sup'.close = "wait"
    BY <1>0, <1>5 DEF CloseUnlock, SupState
  <2>2. UNCHANGED <<gen, caller>> /\ tx' = NoTx
    BY <1>5 DEF CloseUnlock
  <2>3. tx.gen = None /\ sup.close = "run"
    BY <1>0, <1>5 DEF CloseUnlock, TxShape, CloseShape, NoTx, Preparing, Watchers
  <2>4. TxShape'
    BY <2>2 DEF TxShape
  <2>5. CloseShape'
    BY <2>1, <2>2 DEF CloseShape, NoTx
  <2>6. Covered'
    <3>1. \A g : g \notin Range(sup.closeSources)
      BY <1>5 DEF CloseUnlock, Range
    <3> QED BY <1>0, <2>1, <2>2, <2>3, <3>1, NoneAssumption DEF Covered, Live
  <2>7. GenFrame
    BY <1>0, <2>2, SameFrame
  <2>8. tx'.gen = tx.gen /\ tx'.at = "none"
    BY <2>2, <2>3 DEF NoTx
  <2> QED BY <2>1, <2>2, <2>4, <2>5, <2>6, <2>7, <2>8, CloseStep
<1>6. CASE CloseFinish
  <2>1. /\ sup'.active = None /\ sup'.retiring = None /\ sup'.close = "closed"
        /\ sup'.lastFactory = sup.lastFactory /\ sup'.repair = sup.repair
        /\ sup.close = "wait"
    BY <1>0, <1>6 DEF CloseFinish, SupState
  <2>2. UNCHANGED <<gen, tx, caller>>
    BY <1>6 DEF CloseFinish
  <2>3. tx = NoTx \/ tx.at = "wait"
    BY <1>0, <2>1 DEF CloseShape
  <2>4. /\ tx.gen = None
        /\ tx = NoTx \/ (tx.op = "rotate" /\ tx.at = "wait")
    BY <1>0, <2>3 DEF TxShape, NoTx, Preparing
  <2>5. \A g \in Gens : ~Live(g)
    BY <1>0, <2>1, <2>4, NoneAssumption DEF Covered, EveryManagerIsOwned
  <2> USE DEF IInv
  <2>6. TxShape'
    BY <2>2, <2>4 DEF TxShape
  <2>7. Candidate'
    BY <2>2, <2>3 DEF Candidate, NoTx
  <2>8. CloseShape'
    BY <2>1, <2>2, <2>3, <2>4 DEF CloseShape, NoTx
  <2>9. EveryManagerIsOwned' /\ Covered'
    BY <2>2, <2>5 DEF EveryManagerIsOwned, Covered, Live
  <2>10. WatchDone'
    BY <2>2 DEF WatchDone, Done
  <2>11. FactoryKnown'
    BY <2>1, <2>2 DEF FactoryKnown
  <2>12. RepairFactoryIsCurrent'
    BY <2>1 DEF RepairFactoryIsCurrent
  <2> QED BY <2>6, <2>7, <2>8, <2>9, <2>10, <2>11, <2>12 DEF Core
<1> QED BY <1>1, <1>2, <1>3, <1>4, <1>5, <1>6

-----------------------------------------------------------------------------
(* The theorems.                                                           *)

(* An event is counted within the bound.                                   *)
LEMMA UsedType ==
  ASSUME TypeOK, Counted \/ UNCHANGED used
  PROVE  used' \in 0..MaxEvents
<1>1. used \in 0..MaxEvents /\ MaxEvents \in Nat
  BY BoundAssumption DEF TypeOK
<1> QED BY <1>1 DEF Counted

(* Every step of the supervisor keeps the invariant ...                    *)
LEMMA InternalStep ==
  ASSUME IInv, Internal
  PROVE  IInv'
<1> SUFFICES TypeOK' /\ ScanShape' /\ Core'
  BY DEF IInv, Core
<1>0. ScanShape
  BY DEF IInv
<1>1. PICK f : f \in Factories \cup {FirstSnapshot}
  OBVIOUS
<1>2. f \in Factories /\ "start" \in {"start", "rotate"}
  BY <1>1, FirstSnapshotAssumption
<1>3. CASE StartLock \/ RepairLock \/ RotateLock
  <2>1. TypeOK' /\ Core'
    BY <1>3, StartTypes, LockCore
  <2>2. scan' = scan
    BY <1>3 DEF StartLock, RepairLock, RotateLock
  <2> QED BY <1>0, <2>1, <2>2 DEF ScanShape
<1>4. CASE RotateWait \/ RotateCancelled
  <2>1. TypeOK' /\ Core'
    BY <1>4, StartTypes, RotateWaitCore, ReturnCore
  <2>2. scan' = scan
    BY <1>4 DEF RotateWait, RotateCancelled
  <2> QED BY <1>0, <2>1, <2>2 DEF ScanShape
<1>5. CASE StartRequest \/ RepairTimer
  <2>1. TypeOK' /\ Core'
    BY <1>2, <1>5, StartTypes, CallerCore
  <2>2. scan' = scan
    BY <1>5 DEF StartRequest, RepairTimer
  <2> QED BY <1>0, <2>1, <2>2 DEF ScanShape
<1>6. CASE \/ Construct \/ ConstructFails \/ Admit \/ AdmitFails \/ Publish
           \/ PublishRefused \/ Discarded \/ RotateRetire
  <2>1. TypeOK'
    BY <1>6, PrepareTypes
  <2>2. Core'
    BY <1>6, PrepareCore, ReturnCore, PublishCore
  <2>3. scan' = scan
    BY <1>6 DEF Construct, ConstructFails, Admit, AdmitFails, Publish, PublishRefused,
                Discarded, RotateRetire
  <2> QED BY <1>0, <2>1, <2>2, <2>3 DEF ScanShape
<1>7. CASE FailJoined \/ \E g \in Gens, w \in Watchers : Fail(g, w)
  <2>1. TypeOK' /\ Core'
    BY <1>7, FailTypes, FailJoinedCore, FailCore
  <2>2. scan' = scan
    BY <1>7 DEF FailJoined, Fail, FailActive, FailRetiring, FailUnowned
  <2> QED BY <1>0, <2>1, <2>2 DEF ScanShape
<1>8. CASE CloseLock \/ CloseSource \/ CloseJoined \/ CloseUnlock \/ CloseFinish
  <2>1. TypeOK' /\ Core'
    BY <1>8, CloseTypes, CloseCore
  <2>2. scan' = scan
    BY <1>8 DEF CloseLock, CloseSource, CloseJoined, CloseUnlock, CloseFinish
  <2> QED BY <1>0, <2>1, <2>2 DEF ScanShape
<1>9. CASE \E g \in Gens : ReadyWatch(g) \/ LiveWatch(g) \/ SlotRepairer(g) \/ Retirer(g)
  <2>1. PICK g \in Gens : ReadyWatch(g) \/ LiveWatch(g) \/ SlotRepairer(g) \/ Retirer(g)
    BY <1>9
  <2>2. TypeOK' /\ Core'
    BY <2>1, GoroutineTypes, GoroutineCore, RetireJoinedCore DEF Retirer
  <2>3. scan' = scan
    BY <2>1 DEF ReadyWatch, ReadyForward, ReadyDone, ReadyRemove, ReadyStops, LiveWatch,
                ProbeFails, ProbeResult, LiveStops, SlotRepairer, SlotsRepaired,
                SlotRepairStops, Retirer, RetireClose, RetireJoined
  <2> QED BY <1>0, <2>2, <2>3 DEF ScanShape
<1>10. CASE \E g \in Gens : ManagerDone(g) \/ ManagerExhausts(g) \/ SlotFails(g)
  BY <1>10, ClientTypes, GoroutineCore
<1>11. CASE Scan \/ \E b \in Bindings : Bind(b) \/ Deliver(b) \/ ClientCloses(b)
  BY <1>11, ClientTypes, ClientCore
<1> QED BY <1>3, <1>4, <1>5, <1>6, <1>7, <1>8, <1>9, <1>10, <1>11 DEF Internal, Holder

(* ... and so does every step of its environment, which calls, cancels,    *)
(* returns, closes or only changes what the caller keeps for itself.       *)
LEMMA EnvironmentStep ==
  ASSUME IInv, NEW f \in Factories, NEW op \in {"start", "rotate"}, NEW own,
         \/ Call(op, f, own) /\ (Counted \/ UNCHANGED used)
         \/ CancelCall /\ UNCHANGED used
         \/ CallReturns(own)
         \/ CloseBegin
         \/ /\ \E c \in BOOLEAN : caller' = [caller EXCEPT !.own = own, !.cancel = c]
            /\ Counted \/ UNCHANGED used
            /\ UNCHANGED <<sup, gen, tok, tx, scan>>
         \/ UNCHANGED vars
  PROVE  IInv'
<1> SUFFICES TypeOK' /\ scan' = scan /\ Core'
  BY DEF IInv, Core, ScanShape
<1>0. TypeOK /\ WatchDone /\ FactoryKnown
  BY DEF IInv
<1>1. scan' = scan
  BY DEF Call, CancelCall, CallReturns, CloseBegin, vars
<1>2. CASE \/ Call(op, f, own) /\ (Counted \/ UNCHANGED used)
           \/ CancelCall /\ UNCHANGED used
           \/ CallReturns(own)
  BY <1>1, <1>2, CallerTypes, CallerCore
<1>3. CASE CloseBegin
  BY <1>1, <1>3, CloseTypes, CloseCore
<1>4. ASSUME NEW c \in BOOLEAN, caller' = [caller EXCEPT !.own = own, !.cancel = c],
             Counted \/ UNCHANGED used, UNCHANGED <<sup, gen, tok, tx, scan>>
      PROVE  TypeOK' /\ Core'
  <2>1. CallTyped' /\ CallFrame
    BY <1>0, <1>4 DEF CallTyped, CallFrame, CallState, TypeOK, FactoryKnown
  <2>2. used' \in 0..MaxEvents
    BY <1>0, <1>4, UsedType
  <2>3. TypeOK'
    BY <1>0, <1>4, <2>1, <2>2 DEF TypeOK, CallTyped
  <2> QED BY <1>0, <1>4, <2>1, <2>3, SameFrame, SameSup, FrameStep
<1>5. CASE UNCHANGED vars
  <2>1. UNCHANGED <<sup, gen, tok, tx, caller, scan, used>>
    BY <1>5 DEF vars
  <2>2. TypeOK'
    BY <1>0, <2>1 DEF TypeOK
  <2> QED BY <1>0, <2>1, <2>2, SameFrame, SameSup, SameCaller, FrameStep
<1> QED BY <1>1, <1>2, <1>3, <1>4, <1>5

(* The state after NewGenerationSupervisor.                                *)
LEMMA InitIInv ==
  ASSUME NEW own, InitWith(own)
  PROVE  IInv
<1>1. NewGen \in GenState
  BY DEF NewGen, GenState
<1>2. TypeOK
  <2>1. <<>> \in Seq(Gens)
    OBVIOUS
  <2>2. sup \in SupState
    BY <2>1 DEF InitWith, SupState
  <2>3. gen \in [Gens -> GenState] /\ tok \in [Bindings -> TokState]
    BY <1>1 DEF InitWith, NoTok, TokState
  <2>4. tx \in TxState /\ CallTyped
    BY DEF InitWith, NoTx, TxState, CallTyped, NoCall, CallState
  <2>5. ScanTyped
    BY <2>1 DEF InitWith, ScanTyped, ScanOff
  <2>6. used \in 0..MaxEvents
    BY BoundAssumption DEF InitWith
  <2> QED BY <2>2, <2>3, <2>4, <2>5, <2>6 DEF TypeOK, CallTyped, ScanTyped
<1>3. /\ sup.active = None /\ sup.close = "open" /\ sup.repair = "off" /\ tx = NoTx
      /\ caller.at = "idle" /\ scan.at = "off"
  BY DEF InitWith, NoCall, ScanOff
<1>4. \A g \in Gens : /\ ~Live(g) /\ gen[g].readyWatch = "off"
                      /\ gen[g].liveWatch = "off"
  BY DEF InitWith, NewGen, Live
<1>5. TxShape /\ Candidate /\ CloseShape
  BY <1>3 DEF TxShape, Candidate, CloseShape, NoTx
<1>6. EveryManagerIsOwned /\ Covered /\ WatchDone
  BY <1>4 DEF EveryManagerIsOwned, Covered, WatchDone
<1>7. FactoryKnown /\ RepairFactoryIsCurrent /\ ScanShape
  BY <1>3, <1>4 DEF FactoryKnown, RepairFactoryIsCurrent, ScanShape, NoTx, Preparing, Watchers
<1> QED BY <1>2, <1>5, <1>6, <1>7 DEF IInv

(* The invariant holds whoever calls Start, Rotate and Close ...           *)
THEOREM Invariant == Spec => []IInv
<1>1. Init => IInv
  BY InitIInv DEF Init
<1>2. IInv /\ [Next]_vars => IInv'
  <2> SUFFICES ASSUME IInv, [Next]_vars PROVE IInv'
    OBVIOUS
  <2>1. FirstSnapshot \in Factories /\ "start" \in {"start", "rotate"}
    BY FirstSnapshotAssumption
  <2>2. CASE Internal
    BY <2>2, InternalStep
  <2>3. CASE \E f \in Factories, op \in {"start", "rotate"} : Call(op, f, None) /\ Counted
    BY <2>3, EnvironmentStep
  <2>4. CASE \/ CancelCall /\ UNCHANGED used
             \/ CallReturns(None) \/ CloseBegin \/ UNCHANGED vars
    BY <2>1, <2>4, EnvironmentStep
  <2> QED BY <2>2, <2>3, <2>4 DEF Next
<1> QED BY <1>1, <1>2, PTL DEF Spec

(* ... and when the coordinator does.                                      *)
THEOREM ServiceInvariant == ServiceSpec => []IInv
<1>1. ServiceInit => IInv
  BY InitIInv DEF ServiceInit
<1>2. IInv /\ [ServiceNext]_vars => IInv'
  <2> SUFFICES ASSUME IInv, [ServiceNext]_vars PROVE IInv'
    OBVIOUS
  <2>1. FirstSnapshot \in Factories /\ "start" \in {"start", "rotate"}
    BY FirstSnapshotAssumption
  <2>2. CASE Internal
    BY <2>2, InternalStep
  <2>3. ASSUME NEW f \in Factories, Reconcile(f) PROVE IInv'
    <3>1. PICK op \in {"start", "rotate"} : Call(op, f, [cc EXCEPT !.pending = f])
      BY <2>3 DEF Reconcile
    <3>2. Counted \/ UNCHANGED used
      BY <2>3 DEF Reconcile, NeedsApply
    <3> QED BY <3>1, <3>2, EnvironmentStep
  <2>4. ASSUME NEW f \in Factories, BuildFails(f) PROVE IInv'
    <3> DEFINE o == [caller.own EXCEPT !.pending = f]
    <3>1. caller \in CallState(caller.own) /\ caller.cancel \in BOOLEAN
      BY DEF IInv, TypeOK, CallState
    <3>2. caller' = [caller EXCEPT !.own = o]
      BY <2>4 DEF BuildFails
    <3> HIDE DEF o
    <3>3. caller' = [caller EXCEPT !.own = o, !.cancel = caller.cancel]
      BY <3>1, <3>2 DEF CallState
    <3>4. (Counted \/ UNCHANGED used) /\ UNCHANGED <<sup, gen, tok, tx, scan>>
      BY <2>4 DEF BuildFails, NeedsApply
    <3> QED BY <2>1, <3>1, <3>3, <3>4, EnvironmentStep
  <2>5. CASE Reconciled
    BY <2>1, <2>5, EnvironmentStep DEF Reconciled
  <2>6. CASE ServiceClose
    <3> DEFINE o == [caller.own EXCEPT !.closing = TRUE]
               c == ~Idle
    <3>1. caller' = [caller EXCEPT !.own = o, !.cancel = c] /\ c \in BOOLEAN
      BY <2>6 DEF ServiceClose
    <3>2. UNCHANGED <<sup, gen, tok, tx, scan, used>>
      BY <2>6 DEF ServiceClose
    <3> HIDE DEF o, c
    <3> QED BY <2>1, <3>1, <3>2, EnvironmentStep
  <2>7. CASE SupervisorClose \/ UNCHANGED vars
    BY <2>1, <2>7, EnvironmentStep DEF SupervisorClose
  <2> QED BY <2>2, <2>3, <2>4, <2>5, <2>6, <2>7 DEF ServiceNext
<1> QED BY <1>1, <1>2, PTL DEF ServiceSpec

(* Two names make a set of at most two.                                    *)
LEMMA PairCardinality ==
  ASSUME NEW S, NEW a, NEW b, S \subseteq {a, b}
  PROVE  Cardinality(S) <= 2
<1>1. IsFiniteSet({a}) /\ Cardinality({a}) = 1
  BY FS_Singleton
<1>2. IsFiniteSet({a} \cup {b}) /\ Cardinality({a} \cup {b}) <= 2
  BY <1>1, FS_AddElement
<1>3. S \in SUBSET ({a} \cup {b})
  OBVIOUS
<1>4. Cardinality(S) <= Cardinality({a} \cup {b}) /\ IsFiniteSet(S)
  BY <1>2, <1>3, FS_Subset
<1>5. Cardinality(S) \in Nat /\ Cardinality({a} \cup {b}) \in Nat
  BY <1>2, <1>4, FS_CardinalityType
<1> QED BY <1>2, <1>4, <1>5

(* Of the two roles and the manager in the holder's hands, one is always   *)
(* vacant.                                                                 *)
LEMMA TwoLive ==
  ASSUME IInv
  PROVE  AtMostTwoLive
<1> DEFINE S == {g \in Gens : Live(g)}
<1>1. S \subseteq {sup.active, sup.retiring, tx.gen} \ {None}
  BY NoneAssumption DEF IInv, EveryManagerIsOwned
<1>2. \/ tx.gen = None \/ sup.active = None \/ sup.retiring = None
      \/ S \subseteq {sup.active, sup.retiring}
  <2>1. tx.op = "close" => S \subseteq {sup.active, sup.retiring}
    BY DEF IInv, CloseShape
  <2> HIDE DEF S
  <2> QED BY <2>1 DEF IInv, TxShape, NoTx
<1> HIDE DEF S
<1>3. \/ S \subseteq {sup.active, sup.retiring} \/ S \subseteq {sup.retiring, tx.gen}
      \/ S \subseteq {sup.active, tx.gen}
  BY <1>1, <1>2
<1>4. Cardinality(S) <= 2
  BY <1>3, PairCardinality
<1> QED BY <1>4 DEF AtMostTwoLive, S

(* Every state of the supervisor has its type, whoever drives it.          *)
THEOREM TypeCorrect == (Spec => []TypeOK) /\ (ServiceSpec => []TypeOK)
<1>1. IInv => TypeOK
  BY DEF IInv
<1> QED BY <1>1, Invariant, ServiceInvariant, PTL

(* No manager is leaked: one that holds links is active, retiring, or in   *)
(* the hands of the goroutine that holds s.transitions, however starts,    *)
(* rotations, failures, drains and the shutdown interleave.                *)
THEOREM NoManagerIsLeaked ==
  (Spec => []EveryManagerIsOwned) /\ (ServiceSpec => []EveryManagerIsOwned)
<1>1. IInv => EveryManagerIsOwned
  BY DEF IInv
<1> QED BY <1>1, Invariant, ServiceInvariant, PTL

(* Rotation owns at most two managers: the supervisor never holds the      *)
(* links of three generations at once.                                     *)
THEOREM AtMostTwoManagers == (Spec => []AtMostTwoLive) /\ (ServiceSpec => []AtMostTwoLive)
<1>1. IInv => AtMostTwoLive
  BY TwoLive
<1> QED BY <1>1, Invariant, ServiceInvariant, PTL

(* lastFactory, from which a repair builds, is the factory of the active   *)
(* generation whenever there is one.                                       *)
THEOREM RepairUsesTheCurrentFactory ==
  (Spec => []RepairFactoryIsCurrent) /\ (ServiceSpec => []RepairFactoryIsCurrent)
<1>1. IInv => RepairFactoryIsCurrent
  BY DEF IInv
<1> QED BY <1>1, Invariant, ServiceInvariant, PTL

-----------------------------------------------------------------------------
(* What the coordinator believes.  Three parties may change lastFactory,   *)
(* its own call, a repair and nobody else: the factory of the coordinator's*)
(* call is the pending snapshot, a repair builds from lastFactory, and     *)
(* between its publication and its return a rotation has already replaced  *)
(* it.                                                                     *)
Committed(k, t) == (k.at = "return" /\ k.ok) \/ t.at = "retire"

Applies(L, k, t) ==
  /\ k.own.applied = None => /\ L \in {None, FirstSnapshot}
                             /\ k.own.pending \in {None, FirstSnapshot}
  /\ k.own.applied # None /\ ~Committed(k, t) => L = k.own.applied
  /\ k.at # "idle" =>
       /\ k.factory = k.own.pending /\ k.own.pending # None
       /\ k.op = IF k.own.applied = None THEN "start" ELSE "rotate"
  /\ k.at = "request" => ~k.ok
  /\ k.at = "return" /\ k.ok => L = k.own.pending
  /\ t.at = "retire" => L = t.factory /\ t.op = "rotate"
  /\ t.op \in {"start", "rotate"} =>
       k.at = "run" /\ k.op = t.op /\ t.factory = k.factory
  /\ t.op = "repair" => t.factory = L

OwnShape(o) ==
  /\ DOMAIN o = {"applied", "pending", "closing"}
  /\ o.applied \in Factories \cup {None} /\ o.pending \in Factories \cup {None}

AppliedInv == OwnShape(cc) /\ Applies(sup.lastFactory, caller, tx)

AppliedIInv == IInv /\ AppliedInv

LEMMA AppliedShapes ==
  ASSUME AppliedIInv
  PROVE  /\ DOMAIN caller = {"op", "at", "factory", "cancel", "ok", "own"}
         /\ DOMAIN tx = {"op", "at", "gen", "old", "factory"}
         /\ DOMAIN sup = {"active", "retiring", "sources", "lastFactory", "ready",
                          "repair", "close", "closeSources"}
         /\ caller.ok \in BOOLEAN
BY DEF AppliedIInv, IInv, TypeOK, CallState, TxState, SupState

(* Steps that leave lastFactory, the caller and the holder alone.          *)
LEMMA AppliedFrame ==
  ASSUME AppliedIInv, sup'.lastFactory = sup.lastFactory, caller' = caller, tx' = tx
  PROVE  AppliedInv'
BY DEF AppliedIInv, AppliedInv, cc

(* The holder goes on, or someone else takes transitions.                  *)
LEMMA AppliedMoves ==
  ASSUME AppliedIInv, sup'.lastFactory = sup.lastFactory, caller' = caller,
         tx'.at # "retire", tx.at # "retire",
         \/ tx'.op \notin {"start", "rotate", "repair"}
         \/ tx'.op = tx.op /\ tx'.factory = tx.factory
  PROVE  AppliedInv'
BY DEF AppliedIInv, AppliedInv, cc, Applies, Committed

(* A call that fails.                                                      *)
LEMMA AppliedFails ==
  ASSUME AppliedIInv, NEW s, s.lastFactory = sup.lastFactory,
         tx.op \in {"start", "rotate", "repair"}, tx.at # "retire",
         DOMAIN s = DOMAIN sup, Return(tx.op, s, FALSE)
  PROVE  AppliedInv'
<1>0. /\ DOMAIN caller = {"op", "at", "factory", "cancel", "ok", "own"}
      /\ DOMAIN sup = {"active", "retiring", "sources", "lastFactory", "ready",
                       "repair", "close", "closeSources"}
  BY AppliedShapes
<1>1. tx'.op = "none" /\ tx'.at = "none" /\ sup'.lastFactory = sup.lastFactory
  BY <1>0 DEF Return, NoTx
<1>2. CASE tx.op = "repair"
  BY <1>1, <1>2, AppliedMoves DEF Return
<1>3. CASE tx.op # "repair"
  <2>1. /\ caller'.own = caller.own /\ ~caller'.ok /\ caller'.op = caller.op
        /\ caller'.factory = caller.factory /\ caller'.at \in {"request", "return"}
    BY <1>0, <1>3 DEF Return
  <2> QED
    BY <1>1, <1>3, <2>1 DEF AppliedIInv, AppliedInv, cc, Applies, Committed
<1> QED
  BY <1>2, <1>3

LEMMA AppliedHolder ==
  ASSUME AppliedIInv, Holder
  PROVE  AppliedInv'
<1>0. /\ DOMAIN caller = {"op", "at", "factory", "cancel", "ok", "own"}
      /\ DOMAIN tx = {"op", "at", "gen", "old", "factory"}
      /\ DOMAIN sup = {"active", "retiring", "sources", "lastFactory", "ready",
                       "repair", "close", "closeSources"}
  BY AppliedShapes
<1>1. TxShape
  BY DEF AppliedIInv, IInv
<1>2. CASE RotateWait \/ RotateCancelled
  <2>1. tx.op = "rotate" /\ tx.at = "wait"
    BY <1>2 DEF RotateWait, RotateCancelled
  <2>2. CASE Return(tx.op, sup, FALSE)
    BY <2>1, <2>2, AppliedFails
  <2>3. CASE tx' = [tx EXCEPT !.at = "prepare", !.old = sup.active]
             /\ UNCHANGED <<sup, caller>>
    <3>1. tx'.at = "prepare" /\ tx'.op = tx.op /\ tx'.factory = tx.factory
      BY <1>0, <2>3
    <3> QED
      BY <2>1, <2>3, <3>1, AppliedMoves
  <2> QED
    BY <1>2, <2>2, <2>3 DEF RotateWait, RotateCancelled
<1>3. CASE ConstructFails \/ Discarded
  <2>0. tx.at \in {"prepare", "discard"}
    BY <1>3 DEF ConstructFails, Discarded
  <2>1. tx.op \in {"start", "rotate", "repair"} /\ tx.at # "retire"
    BY <1>1, <2>0 DEF TxShape, NoTx, Preparing, Watchers
  <2>2. /\ Signal(sup).lastFactory = sup.lastFactory
        /\ DOMAIN Signal(sup) = DOMAIN sup
    BY <1>0 DEF Signal
  <2>3. Return(tx.op, sup, FALSE) \/ Return(tx.op, Signal(sup), FALSE)
    BY <1>3 DEF ConstructFails, Discarded
  <2> QED
    BY <2>1, <2>2, <2>3, AppliedFails
<1>4. CASE Construct \/ Admit \/ AdmitFails \/ PublishRefused
  <2>1. sup' = sup /\ caller' = caller /\ tx.at # "retire"
    BY <1>4 DEF Construct, Admit, AdmitFails, PublishRefused
  <2>2. tx'.at # "retire" /\ tx'.op = tx.op /\ tx'.factory = tx.factory
    BY <1>0, <1>4 DEF Construct, Admit, AdmitFails, PublishRefused
  <2> QED
    BY <2>1, <2>2, AppliedMoves
<1>5. CASE Publish
  <2> DEFINE s == [sup EXCEPT !.active = tx.gen, !.lastFactory = tx.factory,
                              !.sources = Append(@, tx.gen)]
  <2>0. /\ s.lastFactory = tx.factory /\ DOMAIN s = DOMAIN sup
    BY <1>0
  <2>1. IF tx.op = "rotate"
        THEN /\ sup' = [s EXCEPT !.retiring = tx.old]
             /\ tx' = [tx EXCEPT !.at = "retire", !.gen = None]
             /\ UNCHANGED caller
        ELSE Return(tx.op, s, TRUE)
    BY <1>5 DEF Publish
  <2> HIDE DEF s
  <2>2. tx.at = "publish" /\ tx.op \in {"start", "rotate", "repair"}
    BY <1>1, <1>5 DEF Publish, TxShape, NoTx, Preparing, Watchers
  <2>3. CASE tx.op = "rotate"
    <3>1. /\ sup'.lastFactory = tx.factory /\ caller' = caller
          /\ tx'.at = "retire" /\ tx'.op = "rotate" /\ tx'.factory = tx.factory
      BY <1>0, <2>0, <2>1, <2>3
    <3> QED
      BY <2>2, <2>3, <3>1 DEF AppliedIInv, AppliedInv, cc, Applies, Committed
  <2>4. CASE tx.op = "start"
    <3>1. /\ sup'.lastFactory = tx.factory /\ caller'.own = caller.own
          /\ caller'.op = caller.op /\ caller'.factory = caller.factory
          /\ caller'.at = "return" /\ tx'.op = "none" /\ tx'.at = "none"
      <4>1. Return("start", s, TRUE)
        BY <2>1, <2>4
      <4>2. /\ sup' = s /\ tx' = NoTx
            /\ caller' = [caller EXCEPT !.ok = TRUE, !.at = "return"]
        BY <4>1 DEF Return
      <4> QED
        BY <1>0, <2>0, <4>2 DEF NoTx
    <3> QED
      BY <2>2, <2>4, <3>1 DEF AppliedIInv, AppliedInv, cc, Applies, Committed
  <2>5. CASE tx.op = "repair"
    <3>1. /\ sup'.lastFactory = tx.factory /\ caller' = caller
          /\ tx'.op = "none" /\ tx'.at = "none"
      BY <1>0, <2>0, <2>1, <2>5 DEF Return, NoTx
    <3> QED
      BY <2>2, <2>5, <3>1 DEF AppliedIInv, AppliedInv, cc, Applies, Committed
  <2> QED
    BY <2>2, <2>3, <2>4, <2>5
<1>6. CASE RotateRetire
  <2>1. tx.at = "retire" /\ tx.op = "rotate"
    BY <1>6 DEF RotateRetire, AppliedIInv, AppliedInv, Applies
  <2>2. /\ sup' = sup /\ caller'.own = caller.own
        /\ caller'.op = caller.op /\ caller'.factory = caller.factory
        /\ caller'.at = "return" /\ tx'.op = "none" /\ tx'.at = "none" /\ caller'.ok
    BY <1>0, <1>6, <2>1 DEF RotateRetire, Return, NoTx
  <2> QED
    BY <2>1, <2>2 DEF AppliedIInv, AppliedInv, cc, Applies, Committed
<1>7. CASE FailJoined \/ CloseSource \/ CloseJoined \/ CloseUnlock
  <2>1. tx.op \notin {"start", "rotate", "repair"} /\ tx.at # "retire"
    BY <1>1, <1>7 DEF FailJoined, CloseSource, CloseJoined, CloseUnlock, TxShape,
       NoTx, Preparing, Watchers
  <2>2. /\ sup'.lastFactory = sup.lastFactory /\ caller' = caller
        /\ tx'.op \in {"none", tx.op} /\ tx'.at # "retire"
    <3>1. CASE FailJoined
      <4>1. Signal(sup).lastFactory = sup.lastFactory /\ DOMAIN Signal(sup) = DOMAIN sup
        BY <1>0 DEF Signal
      <4>2. /\ sup' = RequestRepair(Signal(sup), Healthy(sup.active))
            /\ caller' = caller /\ tx' = NoTx
        BY <3>1 DEF FailJoined
      <4>3. sup'.lastFactory = Signal(sup).lastFactory
        BY <1>0, <4>1, <4>2 DEF RequestRepair
      <4> QED
        BY <4>1, <4>2, <4>3 DEF NoTx
    <3>2. CASE CloseSource
      <4>1. PICK g : tx' = [tx EXCEPT !.at = "join", !.gen = g]
        BY <3>2 DEF CloseSource
      <4>2. sup' = [sup EXCEPT !.closeSources = Tail(@)] /\ caller' = caller
        BY <3>2 DEF CloseSource
      <4> QED
        BY <1>0, <4>1, <4>2
    <3>3. CASE CloseJoined
      BY <1>0, <3>3 DEF CloseJoined
    <3>4. CASE CloseUnlock
      BY <1>0, <3>4 DEF CloseUnlock, NoTx
    <3> QED
      BY <1>7, <3>1, <3>2, <3>3, <3>4
  <2> QED
    BY <2>1, <2>2, AppliedMoves
<1> QED
  BY <1>2, <1>3, <1>4, <1>5, <1>6, <1>7 DEF Holder

LEMMA AppliedLock ==
  ASSUME AppliedIInv, StartLock \/ RepairLock \/ RotateLock \/ CloseLock
  PROVE  AppliedInv'
<1>0. /\ DOMAIN caller = {"op", "at", "factory", "cancel", "ok", "own"}
      /\ DOMAIN tx = {"op", "at", "gen", "old", "factory"}
      /\ DOMAIN sup = {"active", "retiring", "sources", "lastFactory", "ready",
                       "repair", "close", "closeSources"}
  BY AppliedShapes
<1>1. tx = NoTx /\ tx.at = "none" /\ tx.op = "none"
  BY DEF StartLock, RepairLock, RotateLock, CloseLock, NoTx
<1>2. CASE CloseLock
  <2>1. /\ sup'.lastFactory = sup.lastFactory /\ caller' = caller
        /\ tx'.op = "close" /\ tx'.at = "next"
    BY <1>0, <1>2 DEF CloseLock, NoTx
  <2> QED
    BY <1>1, <2>1, AppliedMoves
<1>3. CASE RotateLock
  <2>1. /\ sup' = sup /\ caller.op = "rotate" /\ caller.at = "lock"
        /\ caller'.at = "run" /\ caller'.op = "rotate" /\ caller'.own = caller.own
        /\ caller'.factory = caller.factory
        /\ tx'.op = "rotate" /\ tx'.at = "wait" /\ tx'.factory = caller.factory
    BY <1>0, <1>3 DEF RotateLock, NoTx
  <2> QED
    BY <1>1, <2>1 DEF AppliedIInv, AppliedInv, cc, Applies, Committed
<1>4. CASE StartLock
  <2> DEFINE L == IF sup.lastFactory = None THEN caller.factory ELSE sup.lastFactory
             s == [sup EXCEPT !.lastFactory = L]
  <2>1. /\ EnsureActive("start", s, caller.factory)
        /\ caller.op = "start" /\ caller.at = "lock"
    BY <1>0, <1>4 DEF StartLock
  <2>2. s.lastFactory = L
    BY <1>0
  <2>3. /\ caller.own.applied = None /\ L = FirstSnapshot
        /\ caller.own.pending = FirstSnapshot /\ caller.factory = FirstSnapshot
    BY <2>1, NoneAssumption, FirstSnapshotAssumption
       DEF AppliedIInv, AppliedInv, cc, Applies, Committed
  <2> HIDE DEF s, L
  <2>4. /\ sup'.lastFactory = L /\ caller'.own = caller.own
        /\ caller'.op = "start" /\ caller'.factory = caller.factory
        /\ tx'.at # "retire"
        /\ \/ caller'.at = "return" /\ tx'.op = "none"
           \/ caller'.at = "request" /\ ~caller'.ok /\ tx'.op = "none"
           \/ caller'.at = "run" /\ tx'.op = "start" /\ tx'.factory = caller.factory
    <3>1. CASE Return("start", s, TRUE)
      <4>1. sup' = s /\ tx' = NoTx /\ caller' = [caller EXCEPT !.ok = TRUE, !.at = "return"]
        BY <3>1 DEF Return
      <4> QED
        BY <1>0, <2>1, <2>2, <4>1 DEF NoTx
    <3>2. CASE Return("start", s, FALSE)
      <4>1. sup' = s /\ tx' = NoTx /\ caller' = [caller EXCEPT !.ok = FALSE, !.at = "request"]
        BY <3>2 DEF Return
      <4> QED
        BY <1>0, <2>1, <2>2, <4>1 DEF NoTx
    <3>3. CASE /\ sup' = s /\ caller' = [caller EXCEPT !.at = "run"]
               /\ tx' = [NoTx EXCEPT !.op = "start", !.at = "prepare",
                                     !.factory = caller.factory]
      BY <1>0, <2>1, <2>2, <3>3 DEF NoTx
    <3> QED
      BY <2>1, <3>1, <3>2, <3>3 DEF EnsureActive
  <2>5. FirstSnapshot # None
    BY NoneAssumption, FirstSnapshotAssumption
  <2> QED
    BY <2>3, <2>4, <2>5 DEF AppliedIInv, AppliedInv, cc, Applies, Committed
<1>5. CASE RepairLock
  <2> DEFINE f == IF sup.active # None THEN gen[sup.active].factory ELSE sup.lastFactory
  <2>1. f = sup.lastFactory
    BY DEF AppliedIInv, IInv, RepairFactoryIsCurrent
  <2>2. EnsureActive("repair", sup, sup.lastFactory)
    BY <1>5, <2>1 DEF RepairLock
  <2>3. /\ sup'.lastFactory = sup.lastFactory /\ caller' = caller
        /\ tx'.at # "retire"
        /\ tx'.op = "none" \/ (tx'.op = "repair" /\ tx'.factory = sup.lastFactory)
    <3>1. ASSUME NEW ok \in BOOLEAN, Return("repair", sup, ok)
          PROVE  /\ sup'.lastFactory = sup.lastFactory /\ caller' = caller
                 /\ tx'.at # "retire" /\ tx'.op = "none"
      <4>1. PICK r : sup' = [sup EXCEPT !.repair = r] /\ tx' = NoTx /\ caller' = caller
        BY <3>1 DEF Return
      <4> QED
        BY <1>0, <4>1 DEF NoTx
    <3>2. CASE /\ sup' = [sup EXCEPT !.repair = "run"] /\ caller' = caller
               /\ tx' = [NoTx EXCEPT !.op = "repair", !.at = "prepare",
                                     !.factory = sup.lastFactory]
      BY <1>0, <3>2 DEF NoTx
    <3> QED
      BY <2>2, <3>1, <3>2 DEF EnsureActive
  <2> QED
    BY <1>1, <2>3 DEF AppliedIInv, AppliedInv, cc, Applies, Committed
<1> QED
  BY <1>2, <1>3, <1>4, <1>5

LEMMA AppliedInternal ==
  ASSUME AppliedIInv, Internal
  PROVE  AppliedInv'
<1>0. /\ DOMAIN caller = {"op", "at", "factory", "cancel", "ok", "own"}
      /\ DOMAIN sup = {"active", "retiring", "sources", "lastFactory", "ready",
                       "repair", "close", "closeSources"}
  BY AppliedShapes
<1>1. CASE StartLock \/ RepairLock \/ RotateLock \/ CloseLock
  BY <1>1, AppliedLock
<1>2. CASE Holder
  BY <1>2, AppliedHolder
<1>3. ASSUME NEW g \in Gens, NEW w \in Watchers, Fail(g, w) PROVE AppliedInv'
  <2>1. tx = NoTx /\ tx.at = "none" /\ tx.op = "none"
    <3>1. tx = NoTx
      BY <1>3 DEF Fail, FailActive, FailRetiring, FailUnowned
    <3> QED
      BY <3>1 DEF NoTx
  <2>2. /\ caller' = caller /\ (tx' = tx \/ (tx'.op = w /\ tx'.at = "join"))
    BY <1>3 DEF Fail, FailActive, FailRetiring, FailUnowned, NoTx
  <2>3. sup'.lastFactory = sup.lastFactory
    <3>1. \A a, r : LET s == Signal([sup EXCEPT !.active = a, !.retiring = r])
                   IN  /\ s.lastFactory = sup.lastFactory
                       /\ RequestRepair(s, FALSE).lastFactory = sup.lastFactory
      BY <1>0 DEF Signal, RequestRepair
    <3>2. \A r : Signal([sup EXCEPT !.retiring = r]).lastFactory = sup.lastFactory
      BY <1>0 DEF Signal
    <3> QED
      <4>1. CASE FailActive(g, w)
        <5> DEFINE s == Signal([sup EXCEPT !.active = None, !.retiring = g])
        <5>1. sup' = s \/ sup' = RequestRepair(s, FALSE)
          BY <4>1 DEF FailActive
        <5>2. /\ s.lastFactory = sup.lastFactory
              /\ RequestRepair(s, FALSE).lastFactory = sup.lastFactory
          BY <3>1
        <5> HIDE DEF s
        <5> QED
          BY <5>1, <5>2
      <4>2. CASE FailRetiring(g, w)
        BY <3>2, <4>2 DEF FailRetiring
      <4>3. CASE FailUnowned(g, w)
        BY <4>3 DEF FailUnowned
      <4> QED
        BY <1>3, <4>1, <4>2, <4>3 DEF Fail
  <2> QED
    BY <2>1, <2>2, <2>3, AppliedMoves DEF Watchers
<1>4. CASE StartRequest
  <2>1. /\ sup'.lastFactory = sup.lastFactory /\ tx' = tx /\ caller.at = "request"
        /\ caller' = [caller EXCEPT !.at = "return"]
    BY <1>0, <1>4 DEF StartRequest, RequestRepair
  <2>2. /\ caller'.own = caller.own /\ caller'.op = caller.op
        /\ caller'.factory = caller.factory /\ caller'.at = "return"
        /\ caller'.ok = caller.ok
    BY <1>0, <2>1
  <2> QED
    BY <2>1, <2>2 DEF AppliedIInv, AppliedInv, cc, Applies, Committed
<1>5. ASSUME NEW g PROVE RemoveSource(sup, g).lastFactory = sup.lastFactory
  BY <1>0 DEF RemoveSource
<1>6. CASE RepairTimer \/ CloseFinish \/ Scan
  <2>1. sup'.lastFactory = sup.lastFactory /\ caller' = caller /\ tx' = tx
    BY <1>0, <1>5, <1>6 DEF RepairTimer, CloseFinish, Scan, ScanBegin, ScanEmpty,
       ScanDone, ScanLease
  <2> QED
    BY <2>1, AppliedFrame
<1>7. ASSUME NEW g \in Gens,
             \/ ReadyWatch(g) \/ LiveWatch(g) \/ SlotRepairer(g) \/ Retirer(g)
             \/ ManagerDone(g) \/ ManagerExhausts(g) \/ SlotFails(g)
      PROVE  AppliedInv'
  <2>1. caller' = caller /\ tx' = tx
    BY <1>7 DEF ReadyWatch, ReadyForward, ReadyDone, ReadyRemove, ReadyStops,
       LiveWatch, ProbeFails, ProbeResult, LiveStops, SlotRepairer,
       SlotsRepaired, SlotRepairStops, Retirer, RetireClose, RetireJoined,
       ManagerDone, ManagerExhausts, SlotFails
  <2>2. /\ Signal(sup).lastFactory = sup.lastFactory
        /\ [Signal(sup) EXCEPT !.retiring = None].lastFactory = sup.lastFactory
    BY <1>0 DEF Signal
  <2>3. sup'.lastFactory = sup.lastFactory
    BY <1>5, <1>7, <2>2
       DEF ReadyWatch, ReadyForward, ReadyDone, ReadyRemove, ReadyStops,
       LiveWatch, ProbeFails, ProbeResult, LiveStops, SlotRepairer,
       SlotsRepaired, SlotRepairStops, Retirer, RetireClose, RetireJoined,
       ManagerDone, ManagerExhausts, SlotFails
  <2> QED
    BY <2>1, <2>3, AppliedFrame
<1>8. ASSUME NEW b \in Bindings, Bind(b) \/ Deliver(b) \/ ClientCloses(b)
      PROVE  AppliedInv'
  <2>1. sup' = sup /\ caller' = caller /\ tx' = tx
    BY <1>8 DEF Bind, Deliver, ClientCloses
  <2> QED
    BY <2>1, AppliedFrame
<1> QED
  BY <1>1, <1>2, <1>3, <1>4, <1>6, <1>7, <1>8 DEF Internal

(* The coordinator's own steps.                                            *)
LEMMA AppliedCoordinator ==
  ASSUME AppliedIInv,
         \/ \E f \in Factories : Reconcile(f) \/ BuildFails(f)
         \/ Reconciled \/ ServiceClose \/ SupervisorClose
  PROVE  AppliedInv'
<1>0. /\ DOMAIN caller = {"op", "at", "factory", "cancel", "ok", "own"}
      /\ DOMAIN sup = {"active", "retiring", "sources", "lastFactory", "ready",
                       "repair", "close", "closeSources"}
      /\ OwnShape(caller.own)
  BY AppliedShapes DEF AppliedIInv, AppliedInv, cc
<1>1. ASSUME NEW f \in Factories, Reconcile(f) PROVE AppliedInv'
  <2> DEFINE o == [caller.own EXCEPT !.pending = f]
             op == IF caller.own.applied = None THEN "start" ELSE "rotate"
  <2>1. /\ caller.at = "idle" /\ sup' = sup /\ tx' = tx
        /\ caller' = [NoCall EXCEPT !.op = op, !.at = "lock", !.factory = f, !.own = o]
        /\ caller.own.pending = f \/ (caller.own.applied = None => f = FirstSnapshot)
    BY <1>1 DEF Reconcile, NeedsApply, Call, cc, Idle
  <2>2. o.applied = caller.own.applied /\ o.pending = f /\ OwnShape(o)
    BY <1>0 DEF OwnShape
  <2> HIDE DEF o, op
  <2>3. /\ caller'.op = op /\ caller'.at = "lock" /\ caller'.factory = f
        /\ caller'.own = o
    BY <2>1 DEF NoCall
  <2>4. f # None /\ FirstSnapshot # None
    BY NoneAssumption, FirstSnapshotAssumption
  <2> QED
    BY <2>1, <2>2, <2>3, <2>4
       DEF AppliedIInv, AppliedInv, cc, Applies, Committed, op
<1>2. ASSUME NEW f \in Factories, BuildFails(f) PROVE AppliedInv'
  <2> DEFINE o == [caller.own EXCEPT !.pending = f]
  <2>1. /\ caller.at = "idle" /\ sup' = sup /\ tx' = tx
        /\ caller' = [caller EXCEPT !.own = o]
        /\ caller.own.applied = None => f = FirstSnapshot
    BY <1>2, NoneAssumption DEF BuildFails, NeedsApply, cc, Idle
  <2>2. o.applied = caller.own.applied /\ o.pending = f /\ OwnShape(o)
    BY <1>0 DEF OwnShape
  <2> HIDE DEF o
  <2>3. caller'.at = "idle" /\ caller'.own = o
    BY <1>0, <2>1
  <2> QED
    BY <2>1, <2>2, <2>3 DEF AppliedIInv, AppliedInv, cc, Applies, Committed
<1>3. CASE Reconciled
  <2> DEFINE o == IF caller.ok
                  THEN [caller.own EXCEPT !.applied = caller.own.pending,
                                          !.pending = None]
                  ELSE caller.own
  <2>1. /\ caller.at = "return" /\ sup' = sup /\ tx' = tx
        /\ caller' = [NoCall EXCEPT !.own = o]
    BY <1>3 DEF Reconciled, CallReturns, cc
  <2>2. CASE caller.ok
    <3>1. o.applied = caller.own.pending /\ o.pending = None /\ OwnShape(o)
      BY <1>0, <2>2 DEF OwnShape
    <3> HIDE DEF o
    <3>2. caller'.at = "idle" /\ caller'.own = o
      BY <2>1 DEF NoCall
    <3> QED
      BY <2>1, <2>2, <3>1, <3>2 DEF AppliedIInv, AppliedInv, cc, Applies, Committed
  <2>3. CASE ~caller.ok
    <3>1. caller'.at = "idle" /\ caller'.own = caller.own
      BY <2>1, <2>3 DEF NoCall
    <3> QED
      BY <2>1, <2>3, <3>1 DEF AppliedIInv, AppliedInv, cc, Applies, Committed
  <2> QED
    BY <2>2, <2>3
<1>4. CASE ServiceClose
  <2> DEFINE o == [caller.own EXCEPT !.closing = TRUE]
             c == ~Idle
  <2>1. /\ sup' = sup /\ tx' = tx /\ caller' = [caller EXCEPT !.own = o, !.cancel = c]
    BY <1>4 DEF ServiceClose
  <2>2. o.applied = caller.own.applied /\ o.pending = caller.own.pending /\ OwnShape(o)
    BY <1>0 DEF OwnShape
  <2> HIDE DEF o, c
  <2>3. /\ caller'.at = caller.at /\ caller'.own = o /\ caller'.ok = caller.ok
        /\ caller'.op = caller.op /\ caller'.factory = caller.factory
    BY <1>0, <2>1
  <2> QED
    BY <2>1, <2>2, <2>3 DEF AppliedIInv, AppliedInv, cc, Applies, Committed
<1>5. CASE SupervisorClose
  <2>1. sup'.lastFactory = sup.lastFactory /\ caller' = caller /\ tx' = tx
    BY <1>0, <1>5 DEF SupervisorClose, CloseBegin
  <2> QED
    BY <2>1, AppliedFrame
<1> QED
  BY <1>1, <1>2, <1>3, <1>4, <1>5

(* Between two attempts, what the coordinator believes applied is the      *)
(* factory the supervisor repairs from, whatever fails, is cancelled or is *)
(* repaired in between.                                                    *)
THEOREM CoordinatorBelievesTheTruth == ServiceSpec => []AppliedIsCurrent
<1>1. ServiceInit => AppliedInv
  <2> SUFFICES ASSUME ServiceInit PROVE AppliedInv
    OBVIOUS
  <2>1. /\ sup.lastFactory = None /\ tx = NoTx
        /\ caller = [NoCall EXCEPT !.own = NewCoordinator]
    BY DEF ServiceInit, InitWith
  <2>2. caller.at = "idle" /\ caller.own = NewCoordinator
    BY <2>1 DEF NoCall
  <2> QED
    BY <2>1, <2>2 DEF AppliedInv, cc, OwnShape, Applies, Committed, NoTx, NewCoordinator
<1>2. IInv /\ AppliedInv /\ [ServiceNext]_vars => AppliedInv'
  <2> SUFFICES ASSUME IInv, AppliedInv, [ServiceNext]_vars PROVE AppliedInv'
    OBVIOUS
  <2>1. AppliedIInv
    BY DEF AppliedIInv
  <2>2. CASE UNCHANGED vars
    BY <2>1, <2>2, AppliedFrame DEF vars
  <2> QED
    BY <2>1, <2>2, AppliedInternal, AppliedCoordinator DEF ServiceNext
<1>3. AppliedInv => AppliedIsCurrent
  <2> SUFFICES ASSUME AppliedInv, cc.applied # None, Idle
               PROVE  sup.lastFactory = cc.applied
    BY DEF AppliedIsCurrent
  <2>1. tx.at # "retire"
    BY DEF AppliedInv, Applies, Idle
  <2> QED
    BY <2>1 DEF AppliedInv, Applies, Committed, Idle, cc
<1> QED
  BY <1>1, <1>2, <1>3, ServiceInvariant, PTL DEF ServiceSpec
-----------------------------------------------------------------------------
(* Readiness.  A binding that has not ended belongs to a ready manager     *)
(* whose readiness watcher runs and that is still a source, so that its    *)
(* token, once queued, is carried by the manager's signal, by the          *)
(* supervisor's, or by the rest of the scan.                               *)

Unscanned == IF scan.at = "done?" THEN Tail(scan.rest) ELSE scan.rest

Watched(r) == r.manager = "ready" /\ r.readyWatch = "run"

Bound(b) == tok[b].at \in {"live", "queued"}

Signalled(b) ==
  LET g == tok[b].gen
  IN  /\ g \in Gens /\ Watched(gen[g]) /\ g \in Range(sup.sources)
      /\ tok[b].at = "queued" => gen[g].ready \/ sup.ready \/ g \in Range(Unscanned)

ActiveWatched ==
  sup.active # None /\ gen[sup.active].manager = "ready" => Watched(gen[sup.active])

SigInv ==
  /\ ~Closing => ActiveWatched /\ \A b \in Bindings : Bound(b) => Signalled(b)
  /\ scan.at = "off" => scan.rest = <<>>

SigIInv == IInv /\ SigInv

(* What a step does to a generation whose watcher runs: it keeps both and  *)
(* loses no signal, or it ends the manager's bindings.                     *)
KeepsSignal(g) ==
  \/ Watched(gen'[g]) /\ (gen[g].ready => gen'[g].ready \/ sup'.ready)
  \/ gen'[g].manager # "ready" /\ \A b \in Bindings : tok'[b].gen = g => ~Bound(b)'

(* Steps that keep the sources of such generations, the supervisor's       *)
(* signal and the scan, and bind nobody.                                   *)
LEMMA SignalKeeps ==
  ASSUME SigIInv, scan' = scan,
         sup.close # "open" => sup'.close # "open",
         sup'.close = "open" =>
           /\ sup.ready => sup'.ready
           /\ \A g \in Gens :
                /\ Watched(gen[g]) => KeepsSignal(g)
                /\ Watched(gen[g]) /\ g \in Range(sup.sources) => g \in Range(sup'.sources)
                /\ g = sup'.active /\ gen'[g].manager = "ready" =>
                     Watched(gen'[g]) \/ (g = sup.active /\ gen[g].manager = "ready")
           /\ \A b \in Bindings : Bound(b)' => tok'[b] = tok[b]
           /\ sup'.active \in Gens \cup {None}
  PROVE  SigInv'
<1> SUFFICES ASSUME sup'.close = "open"
             PROVE  ActiveWatched' /\ \A b \in Bindings : Bound(b)' => Signalled(b)'
  BY DEF SigInv, SigIInv, Closing
<1>1. ActiveWatched /\ \A b \in Bindings : Bound(b) => Signalled(b)
  BY DEF SigInv, SigIInv, Closing
<1>2. ActiveWatched'
  BY <1>1, NoneAssumption DEF ActiveWatched, KeepsSignal
<1>3. ASSUME NEW b \in Bindings, Bound(b)' PROVE Signalled(b)'
  <2>1. tok'[b] = tok[b] /\ Bound(b) /\ Signalled(b)
    BY <1>1, <1>3 DEF Bound
  <2> DEFINE g == tok[b].gen
  <2>2. g \in Gens /\ Watched(gen[g]) /\ g \in Range(sup.sources)
    BY <2>1 DEF Signalled
  <2>3. /\ Watched(gen'[g]) /\ (gen[g].ready => gen'[g].ready \/ sup'.ready)
        /\ g \in Range(sup'.sources)
    BY <1>3, <2>1, <2>2 DEF KeepsSignal
  <2>4. Unscanned' = Unscanned
    BY DEF Unscanned
  <2> QED BY <2>1, <2>2, <2>3, <2>4 DEF Signalled
<1> QED BY <1>2, <1>3

(* Steps that leave the generations and the tokens alone.                  *)
LEMMA SignalIdle ==
  ASSUME SigIInv, scan' = scan, gen' = gen, tok' = tok,
         sup.close # "open" => sup'.close # "open",
         sup'.close = "open" =>
           /\ sup.ready => sup'.ready
           /\ sup'.sources = sup.sources /\ sup'.active \in {sup.active, None}
  PROVE  SigInv'
<1>1. sup.active \in Gens \cup {None}
  BY DEF SigIInv, IInv, TypeOK, SupState
<1>2. \A g \in Gens : Watched(gen[g]) => KeepsSignal(g)
  BY DEF KeepsSignal
<1>3. \A b \in Bindings : Bound(b)' => tok'[b] = tok[b]
  OBVIOUS
<1> QED BY <1>1, <1>2, <1>3, SignalKeeps, NoneAssumption

(* Steps of one generation, r its new state.                               *)
LEMMA SignalOne ==
  ASSUME SigIInv, scan' = scan, tok' = tok, NEW g \in Gens, NEW r,
         gen' = [gen EXCEPT ![g] = r],
         sup' = sup \/ sup' = Signal(sup)
           \/ (Done(g) /\ sup' = RemoveSource(sup, g)),
         sup.close = "open" =>
           \/ ~Watched(gen[g]) /\ (r.manager = "ready" =>
                 Watched(r) \/ g # sup.active \/ gen[g].manager = "ready")
           \/ Watched(r) /\ (gen[g].ready => r.ready \/ sup' = Signal(sup))
  PROVE  SigInv'
<1>1. sup \in SupState /\ gen \in [Gens -> GenState]
  BY DEF SigIInv, IInv, TypeOK
<1>2. /\ sup'.close = sup.close /\ sup'.active = sup.active
      /\ sup.ready => sup'.ready
      /\ sup' = Signal(sup) => sup'.ready
      /\ \A h \in Range(sup.sources) : h \in Range(sup'.sources) \/ (h = g /\ Done(g))
  <2>1. CASE sup' = sup \/ sup' = Signal(sup)
    BY <1>1, <2>1 DEF Signal, SupState
  <2>2. CASE Done(g) /\ sup' = RemoveSource(sup, g)
    <3>1. sup' = [sup EXCEPT !.sources = sup'.sources]
      BY <1>1, <2>2, RemoveSourceKeeps
    <3>2. \A h \in Range(sup.sources) : h # g => h \in Range(sup'.sources)
      BY <1>1, <2>2, RemoveSourceKeeps
    <3>3. /\ sup'.close = sup.close /\ sup'.active = sup.active
          /\ sup'.ready = sup.ready
      BY <1>1, <3>1 DEF SupState
    <3>4. sup' = Signal(sup) => sup'.ready
      BY <1>1 DEF Signal, SupState
    <3> QED BY <2>2, <3>2, <3>3, <3>4
  <2> QED BY <2>1, <2>2
<1>3. \A h \in Gens : gen'[h] = IF h = g THEN r ELSE gen[h]
  BY <1>1
<1>4. ASSUME NEW h \in Gens, Watched(gen[h]), sup.close = "open" PROVE KeepsSignal(h)
  BY <1>2, <1>3, <1>4 DEF KeepsSignal
<1>5. ~(Done(g) /\ Watched(gen[g]))
  BY DEF Done, Watched
<1>6. ASSUME NEW h \in Gens, h = sup'.active, gen'[h].manager = "ready", sup.close = "open"
      PROVE  Watched(gen'[h]) \/ (h = sup.active /\ gen[h].manager = "ready")
  BY <1>2, <1>3, <1>6
<1>7. sup'.active \in Gens \cup {None}
  BY <1>1, <1>2 DEF SupState
<1> HIDE DEF SigInv
<1> QED BY <1>1, <1>2, <1>3, <1>4, <1>5, <1>6, <1>7, SignalKeeps

(* closeGeneration of h after a change gn that keeps managers, watchers    *)
(* that run and their signals.                                             *)
LEMMA SignalCloses ==
  ASSUME SigIInv, scan' = scan, NEW h \in Gens, NEW gn \in [Gens -> GenState],
         \A g \in Gens :
           /\ gn[g].manager = gen[g].manager
           /\ gen[g].readyWatch = "run" =>
                gn[g].readyWatch = "run" /\ gn[g].ready = gen[g].ready,
         gen' = BeginClose(gn, h), tok' = CloseTokens(h),
         sup'.close = sup.close, sup'.active \in {sup.active, None},
         sup.ready => sup'.ready, sup'.sources = sup.sources
  PROVE  SigInv'
<1>1. sup \in SupState /\ tok \in [Bindings -> TokState]
  BY DEF SigIInv, IInv, TypeOK
<1>2. \A b \in Bindings : /\ Bound(b)' => tok'[b] = tok[b]
                          /\ Open(h) /\ tok'[b].gen = h => ~Bound(b)'
  <2> TAKE b \in Bindings
  <2>1. CASE ~Open(h)
    BY <2>1 DEF CloseTokens
  <2>2. CASE Open(h)
    <3>1. tok'[b] = IF tok[b].gen = h /\ tok[b].at \in {"live", "queued"}
                    THEN [tok[b] EXCEPT !.at = "terminal"] ELSE tok[b]
      BY <2>2 DEF CloseTokens, TerminalTokens
    <3>2. tok[b] \in TokState
      BY <1>1
    <3> QED BY <2>2, <3>1, <3>2 DEF TokState, Bound
  <2> QED BY <2>1, <2>2
<1>3. ASSUME NEW g \in Gens
      PROVE  /\ gen'[g].readyWatch = gn[g].readyWatch
             /\ gen'[g].manager = IF g = h /\ Open(h) THEN "closing" ELSE gn[g].manager
             /\ g # h => gen'[g].ready = gn[g].ready
  <2>1. g # h => gen'[g] = gn[g]
    BY DEF BeginClose
  <2> QED BY <2>1, BeginCloseFields
<1>4. ASSUME NEW g \in Gens, Watched(gen[g]) PROVE KeepsSignal(g)
  <2>1. g = h => Open(h)
    BY <1>4 DEF Open, Watched
  <2>2. CASE g = h
    BY <1>2, <1>3, <2>1, <2>2 DEF KeepsSignal
  <2>3. CASE g # h
    BY <1>3, <1>4, <2>3 DEF KeepsSignal, Watched
  <2> QED BY <2>2, <2>3
<1>5. \A g \in Gens : gen'[g].manager = "ready" => gen[g].manager = "ready"
  BY <1>3
<1>6. sup'.active \in Gens \cup {None}
  BY <1>1 DEF SupState
<1>7. \A g \in Gens : g = sup'.active => g = sup.active
  BY NoneAssumption
<1> QED BY <1>1, <1>2, <1>4, <1>5, <1>6, <1>7, SignalKeeps

(* Steps that only move program counters of the supervisor.                *)
SameSources(s, t) ==
  /\ t.close = s.close /\ t.sources = s.sources /\ t.active = s.active
  /\ s.ready => t.ready

LEMMA ReturnSources ==
  ASSUME NEW op, NEW s \in SupState, NEW ok, Return(op, s, ok)
  PROVE  SameSources(s, sup')
BY DEF Return, SameSources, SupState

LEMMA EnsureSources ==
  ASSUME NEW op, NEW s \in SupState, NEW f, EnsureActive(op, s, f)
  PROVE  SameSources(s, sup')
<1>1. CASE \E ok \in BOOLEAN : Return(op, s, ok)
  BY <1>1, ReturnSources
<1>2. CASE sup' = IF op = "repair" THEN [s EXCEPT !.repair = "run"] ELSE s
  BY <1>2 DEF SameSources, SupState
<1> QED BY <1>1, <1>2 DEF EnsureActive

LEMMA SignalCounters ==
  ASSUME SigIInv,
         \/ StartLock \/ RepairLock \/ RotateLock \/ CloseLock
         \/ RotateWait \/ RotateCancelled \/ ConstructFails \/ Discarded
         \/ CloseJoined \/ CloseUnlock \/ StartRequest \/ RepairTimer \/ CloseFinish
  PROVE  SigInv'
<1>1. sup \in SupState /\ caller \in CallState(caller.own)
  BY DEF SigIInv, IInv, TypeOK
<1>2. /\ gen' = gen /\ tok' = tok /\ scan' = scan
  BY DEF StartLock, RepairLock, RotateLock, CloseLock, RotateWait, RotateCancelled,
         ConstructFails, Discarded, CloseJoined, CloseUnlock, StartRequest, RepairTimer,
         CloseFinish
<1> SUFFICES \/ SameSources(sup, sup')
             \/ sup.close # "open" /\ sup'.close # "open"
  BY <1>2, SignalIdle DEF SameSources
<1>3. CASE StartLock
  <2> DEFINE s == [sup EXCEPT !.lastFactory = IF @ = None THEN caller.factory ELSE @]
  <2>1. s \in SupState /\ SameSources(sup, s)
    BY <1>1 DEF SupState, SameSources, CallState
  <2>2. EnsureActive("start", s, caller.factory)
    BY <1>3 DEF StartLock
  <2> HIDE DEF s
  <2>3. SameSources(s, sup')
    BY <2>1, <2>2, EnsureSources
  <2> QED BY <2>1, <2>3 DEF SameSources
<1>4. CASE RepairLock
  <2>1. PICK f : EnsureActive("repair", sup, f)
    BY <1>4 DEF RepairLock
  <2> QED BY <1>1, <2>1, EnsureSources
<1>5. CASE RotateLock \/ CloseJoined
  BY <1>5 DEF RotateLock, CloseJoined, SameSources
<1>6. CASE RotateWait \/ RotateCancelled \/ ConstructFails
  <2>1. Return(tx.op, sup, FALSE) \/ sup' = sup
    BY <1>6 DEF RotateWait, RotateCancelled, ConstructFails
  <2> QED BY <1>1, <2>1, ReturnSources DEF SameSources
<1>7. CASE Discarded
  <2>1. Signal(sup) \in SupState /\ SameSources(sup, Signal(sup))
    BY <1>1 DEF Signal, SupState, SameSources
  <2>2. Return(tx.op, Signal(sup), FALSE)
    BY <1>7 DEF Discarded
  <2>3. SameSources(Signal(sup), sup')
    BY <2>1, <2>2, ReturnSources
  <2> QED BY <2>1, <2>3 DEF SameSources
<1>8. CASE CloseLock \/ CloseFinish
  BY <1>1, <1>8 DEF CloseLock, CloseFinish, SupState
<1>9. CASE CloseUnlock
  <2>1. sup.close = "run"
    BY <1>9 DEF CloseUnlock, SigIInv, IInv, CloseShape
  <2> QED BY <1>1, <1>9, <2>1 DEF CloseUnlock, SupState
<1>10. CASE StartRequest \/ RepairTimer
  BY <1>1, <1>10 DEF StartRequest, RepairTimer, RequestRepair, SupState, SameSources
<1> QED BY <1>3, <1>4, <1>5, <1>6, <1>7, <1>8, <1>9, <1>10

(* Steps of the environment.                                               *)
LEMMA SignalCallers ==
  ASSUME SigIInv,
         UNCHANGED <<sup, gen, tok, scan>> \/ CloseBegin
  PROVE  SigInv'
<1>1. sup \in SupState
  BY DEF SigIInv, IInv, TypeOK
<1>2. /\ gen' = gen /\ tok' = tok /\ scan' = scan
      /\ sup' = sup \/ sup'.close = "lock"
  BY <1>1 DEF CloseBegin, SupState
<1> QED BY <1>2, SignalIdle

-----------------------------------------------------------------------------
(* Preparation: a candidate has no clients.                                *)
LEMMA SignalPrepares ==
  ASSUME SigIInv, Construct \/ Admit \/ AdmitFails \/ PublishRefused \/ RotateRetire
  PROVE  SigInv'
<1>1. IInv /\ sup \in SupState /\ gen \in [Gens -> GenState] /\ TxShape /\ Candidate
  BY DEF SigIInv, IInv, TypeOK
<1>2. CASE Construct
  <2>1. PICK g \in Gens, r \in SlotRepair :
          /\ Forgotten(g)
          /\ gen' = [gen EXCEPT ![g] = [NewGen EXCEPT !.manager = "created",
                       !.factory = tx.factory, !.repairable = r]]
    BY <1>2 DEF Construct
  <2> DEFINE q == [NewGen EXCEPT !.manager = "created", !.factory = tx.factory,
                                 !.repairable = r]
  <2>2. gen' = [gen EXCEPT ![g] = q] /\ q.manager = "created"
    BY <2>1 DEF NewGen
  <2>3. ~Watched(gen[g])
    BY <2>1 DEF Forgotten, Watched
  <2>4. scan' = scan /\ tok' = tok /\ sup' = sup
    BY <1>2 DEF Construct
  <2> HIDE DEF q
  <2> QED BY <2>2, <2>3, <2>4, SignalOne
<1>3. CASE Admit
  <2>1. tx.gen \in Gens /\ ~Watched(gen[tx.gen]) /\ tx.gen # sup.active
    BY <1>1, <1>3 DEF Admit, Candidate, Watched
  <2>2. gen' = [gen EXCEPT ![tx.gen] = [gen[tx.gen] EXCEPT !.manager = "ready"]]
    BY <1>3 DEF Admit
  <2>3. scan' = scan /\ tok' = tok /\ sup' = sup
    BY <1>3 DEF Admit
  <2> QED BY <2>1, <2>2, <2>3, SignalOne
<1>4. CASE AdmitFails \/ PublishRefused
  <2>1. tx.gen \in Gens
    BY <1>1, <1>4 DEF AdmitFails, PublishRefused, Candidate
  <2>2. /\ gen' = BeginClose(gen, tx.gen) /\ tok' = CloseTokens(tx.gen)
        /\ sup' = sup /\ scan' = scan
    BY <1>4 DEF AdmitFails, PublishRefused
  <2> QED BY <1>1, <2>1, <2>2, SignalCloses
<1>5. CASE RotateRetire
  <2>1. tx.old \in Gens /\ tx.op = "rotate"
    BY <1>1, <1>5 DEF RotateRetire, TxShape, NoTx, Preparing
  <2> DEFINE r == RetireRoutine(gen[tx.old])
  <2>2. /\ r.readyWatch = gen[tx.old].readyWatch /\ r.manager = gen[tx.old].manager
        /\ r.ready = gen[tx.old].ready
    <3>1. gen[tx.old] \in GenState
      BY <1>1, <2>1
    <3>2. r.ready = gen[tx.old].ready
      BY <3>1 DEF RetireRoutine, Intentional, StopLiveness, GenState
    <3> QED BY <3>1, <3>2, RetireFields
  <2>3. gen' = [gen EXCEPT ![tx.old] = r]
    BY <1>5 DEF RotateRetire
  <2>4. scan' = scan /\ tok' = tok /\ sup' = sup
    BY <1>5, <2>1 DEF RotateRetire, Return
  <2> HIDE DEF r
  <2> QED BY <2>1, <2>2, <2>3, <2>4, SignalOne DEF Watched
<1> QED BY <1>2, <1>3, <1>4, <1>5

(* Publication: the watcher starts with the new source.                    *)
LEMMA SignalPublishes ==
  ASSUME SigIInv, Publish
  PROVE  SigInv'
<1>1. /\ IInv /\ sup \in SupState /\ gen \in [Gens -> GenState] /\ TxShape /\ Candidate
      /\ tx \in TxState
  BY DEF SigIInv, IInv, TypeOK
<1>2. tx.gen \in Gens /\ gen[tx.gen].readyWatch = "off"
  BY <1>1 DEF Publish, Candidate
<1> DEFINE g == tx.gen
           s == [sup EXCEPT !.active = g, !.lastFactory = tx.factory,
                            !.sources = Append(@, g)]
<1>3. s \in SupState
  <2>1. sup.sources \in Seq(Gens) /\ tx.factory \in Factories \cup {None}
    BY <1>1 DEF SupState, TxState
  <2>2. Append(sup.sources, g) \in Seq(Gens)
    BY <1>2, <2>1
  <2> QED BY <1>1, <1>2, <2>1, <2>2 DEF SupState
<1>4. SameSources(s, sup')
  <2>1. CASE tx.op = "rotate"
    BY <1>3, <2>1 DEF Publish, SameSources, SupState
  <2>2. CASE tx.op # "rotate"
    <3>1. Return(tx.op, s, TRUE)
      BY <2>2 DEF Publish
    <3> HIDE DEF s
    <3> QED BY <1>3, <3>1, ReturnSources
  <2> QED BY <2>1, <2>2
<1>5. /\ s.close = sup.close /\ s.ready = sup.ready /\ s.active = g
      /\ s.sources = Append(sup.sources, g) /\ sup.sources \in Seq(Gens)
  BY <1>1 DEF SupState
<1>6. /\ sup'.close = sup.close /\ (sup.ready => sup'.ready) /\ sup'.active = g
      /\ \A h \in Range(sup.sources) : h \in Range(sup'.sources)
  <2> HIDE DEF s
  <2> QED BY <1>2, <1>4, <1>5, AppendRange DEF SameSources
<1>7. /\ tok' = tok /\ scan' = scan
      /\ gen' = [gen EXCEPT ![g] = [gen[g] EXCEPT !.readyWatch = "run", !.liveWatch = "run"]]
  BY <1>1, <1>2 DEF Publish
<1>8. \A h \in Gens : h # g => gen'[h] = gen[h]
  BY <1>1, <1>7
<1>9. gen'[g].readyWatch = "run" /\ ~Watched(gen[g])
  BY <1>1, <1>2, <1>7 DEF GenState, Watched
<1>10. \A h \in Gens : Watched(gen[h]) => KeepsSignal(h)
  BY <1>8, <1>9 DEF KeepsSignal
<1>11. \A h \in Gens : h = sup'.active /\ gen'[h].manager = "ready" => Watched(gen'[h])
  BY <1>6, <1>9 DEF Watched
<1> HIDE DEF s
<1> QED BY <1>2, <1>6, <1>7, <1>10, <1>11, SignalKeeps

-----------------------------------------------------------------------------
(* The goroutines of a generation.                                         *)
LEMMA SignalGoroutines ==
  ASSUME SigIInv, NEW g \in Gens,
         \/ ReadyForward(g) \/ ReadyDone(g) \/ ReadyRemove(g) \/ ReadyStops(g)
         \/ ProbeFails(g) \/ ProbeResult(g) \/ LiveStops(g)
         \/ SlotsRepaired(g) \/ SlotRepairStops(g) \/ ManagerDone(g) \/ SlotFails(g)
  PROVE  SigInv'
<1>1. /\ IInv /\ sup \in SupState /\ gen[g] \in GenState /\ WatchDone
  BY DEF SigIInv, IInv, TypeOK
<1>2. scan' = scan /\ tok' = tok
  BY DEF ReadyForward, ReadyDone, ReadyRemove, ReadyStops, ProbeFails, ProbeResult,
         LiveStops, SlotsRepaired, SlotRepairStops, ManagerDone, SlotFails
<1>3. CASE ReadyForward(g)
  <2> DEFINE r == [gen[g] EXCEPT !.ready = FALSE]
  <2>1. gen' = [gen EXCEPT ![g] = r] /\ sup' = Signal(sup)
    BY <1>3 DEF ReadyForward
  <2>2. r.manager = gen[g].manager /\ r.readyWatch = gen[g].readyWatch
    BY <1>1 DEF GenState
  <2> HIDE DEF r
  <2> QED BY <1>2, <2>1, <2>2, SignalOne DEF Watched
<1>4. CASE ReadyDone(g)
  <2> DEFINE r == IF gen[g].intentional THEN [gen[g] EXCEPT !.readyWatch = "remove"]
                  ELSE MarkFailed(gen[g], "readyWatch", "remove")
  <2>1. gen' = [gen EXCEPT ![g] = r] /\ sup' = Signal(sup) /\ Done(g)
    BY <1>4 DEF ReadyDone
  <2>2. r.manager = gen[g].manager
    <3>1. gen[g].readyWatch # "off" /\ After("readyWatch") = "remove"
          /\ "readyWatch" \in Watchers
      BY <1>4 DEF ReadyDone, After, Watchers
    <3>2. MarkFailed(gen[g], "readyWatch", "remove").manager = gen[g].manager
      BY <1>1, <3>1, MarkFailedFields
    <3> QED BY <1>1, <3>2 DEF GenState
  <2> HIDE DEF r
  <2> QED BY <1>2, <2>1, <2>2, SignalOne DEF Watched, Done
<1>5. CASE ReadyRemove(g)
  <2> DEFINE r == [gen[g] EXCEPT !.readyWatch = "end"]
  <2>1. Done(g) /\ (sup' = sup \/ sup' = RemoveSource(sup, g))
    BY <1>1, <1>5 DEF ReadyRemove, WatchDone
  <2>2. gen' = [gen EXCEPT ![g] = r] /\ r.manager = gen[g].manager
    BY <1>1, <1>5 DEF ReadyRemove, GenState
  <2> HIDE DEF r
  <2> QED BY <1>2, <2>1, <2>2, SignalOne DEF Watched, Done
<1>6. CASE ReadyStops(g)
  <2>1. sup' = sup /\ sup.close # "open"
    BY <1>6 DEF ReadyStops, Closing
  <2>2. gen' = [gen EXCEPT ![g] = [gen[g] EXCEPT !.readyWatch = "end"]]
    BY <1>6 DEF ReadyStops
  <2> QED BY <1>2, <2>1, <2>2, SignalOne
<1>7. CASE ManagerDone(g)
  <2> DEFINE r == [gen[g] EXCEPT !.manager = "done"]
  <2>1. sup' = sup /\ gen[g].manager = "closing" /\ gen' = [gen EXCEPT ![g] = r]
    BY <1>7 DEF ManagerDone
  <2>2. r.manager = "done"
    BY <1>1 DEF GenState
  <2> HIDE DEF r
  <2> QED BY <1>2, <2>1, <2>2, SignalOne DEF Watched
<1>8. CASE \/ ProbeFails(g) \/ ProbeResult(g) \/ LiveStops(g)
           \/ SlotsRepaired(g) \/ SlotRepairStops(g) \/ SlotFails(g)
  <2>1. PICK r : /\ gen' = [gen EXCEPT ![g] = r]
                 /\ r.manager = gen[g].manager /\ r.readyWatch = gen[g].readyWatch
                 /\ r.ready = gen[g].ready
    <3>1. CASE ProbeFails(g)
      <4> WITNESS [gen[g] EXCEPT !.liveWatch = "probed"]
      <4> QED BY <1>1, <3>1 DEF ProbeFails, GenState
    <3>2. CASE ProbeResult(g)
      <4> DEFINE m == MarkFailed(gen[g], "liveWatch", "end")
                 r == IF Closing \/ gen[g].intentional THEN [gen[g] EXCEPT !.liveWatch = "end"]
                      ELSE IF gen[g].repairable /\ gen[g].manager = "ready"
                           THEN IF gen[g].failed THEN [gen[g] EXCEPT !.liveWatch = "end"]
                                ELSE [gen[g] EXCEPT !.liveWatch = "run", !.slotRepairing = TRUE]
                           ELSE m
      <4>1. /\ m.manager = gen[g].manager /\ m.readyWatch = gen[g].readyWatch
            /\ m.ready = gen[g].ready
        BY <1>1 DEF MarkFailed, StopLiveness, GenState
      <4>2. gen' = [gen EXCEPT ![g] = r]
        BY <3>2 DEF ProbeResult
      <4> HIDE DEF m
      <4>3. /\ r.manager = gen[g].manager /\ r.readyWatch = gen[g].readyWatch
            /\ r.ready = gen[g].ready
        BY <1>1, <4>1 DEF GenState
      <4> HIDE DEF r
      <4> QED BY <4>2, <4>3
    <3>3. CASE LiveStops(g)
      <4> WITNESS StopLiveness(gen[g])
      <4> QED BY <1>1, <3>3 DEF LiveStops, StopLiveness, GenState
    <3>4. CASE SlotsRepaired(g)
      <4> WITNESS [gen[g] EXCEPT !.slotRepairing = FALSE, !.degraded = FALSE]
      <4> QED BY <1>1, <3>4 DEF SlotsRepaired, GenState
    <3>5. CASE SlotRepairStops(g)
      <4> WITNESS [gen[g] EXCEPT !.slotRepairing = FALSE]
      <4> QED BY <1>1, <3>5 DEF SlotRepairStops, GenState
    <3>6. CASE SlotFails(g)
      <4> WITNESS [gen[g] EXCEPT !.degraded = TRUE]
      <4> QED BY <1>1, <3>6 DEF SlotFails, GenState
    <3> QED BY <1>8, <3>1, <3>2, <3>3, <3>4, <3>5, <3>6
  <2>2. sup' = sup
    BY <1>8 DEF ProbeFails, ProbeResult, LiveStops, SlotsRepaired, SlotRepairStops, SlotFails
  <2> QED BY <1>2, <2>1, <2>2, SignalOne DEF Watched
<1> QED BY <1>3, <1>4, <1>5, <1>6, <1>7, <1>8

(* The end of a retirement.                                                *)
LEMMA SignalRetires ==
  ASSUME SigIInv, NEW g \in Gens, RetireClose(g) \/ RetireJoined(g)
  PROVE  SigInv'
<1>1. IInv /\ sup \in SupState /\ gen \in [Gens -> GenState] /\ gen[g] \in GenState
  BY DEF SigIInv, IInv, TypeOK
<1>2. CASE RetireClose(g)
  <2> DEFINE gn == [gen EXCEPT ![g].retire = "join"]
  <2>1. gn \in [Gens -> GenState]
    BY <1>1 DEF GenState
  <2>2. \A h \in Gens : /\ gn[h].manager = gen[h].manager /\ gn[h].ready = gen[h].ready
                        /\ gn[h].readyWatch = gen[h].readyWatch
    BY <1>1 DEF GenState
  <2>3. /\ gen' = BeginClose(gn, g) /\ tok' = CloseTokens(g) /\ sup' = sup /\ scan' = scan
    BY <1>2 DEF RetireClose
  <2> HIDE DEF gn
  <2> QED BY <1>1, <2>1, <2>2, <2>3, SignalCloses
<1>3. CASE RetireJoined(g)
  <2>1. /\ tok' = tok /\ scan' = scan /\ gen' = [gen EXCEPT ![g].retire = "end"]
    BY <1>3 DEF RetireJoined
  <2>2. /\ sup'.close = sup.close /\ sup'.active = sup.active /\ sup'.ready
        /\ sup'.sources = sup.sources
    BY <1>1, <1>3 DEF RetireJoined, Signal, SupState
  <2>3. \A h \in Gens : /\ gen'[h].manager = gen[h].manager
                        /\ gen'[h].readyWatch = gen[h].readyWatch
    BY <1>1, <2>1 DEF GenState
  <2>4. \A h \in Gens : Watched(gen[h]) => KeepsSignal(h)
    BY <2>2, <2>3 DEF KeepsSignal, Watched
  <2>5. sup.active \in Gens \cup {None}
    BY <1>1 DEF SupState
  <2> QED BY <2>1, <2>2, <2>3, <2>4, <2>5, SignalKeeps DEF Watched
<1> QED BY <1>2, <1>3

(* A manager that ends by itself.                                          *)
LEMMA SignalExhausts ==
  ASSUME SigIInv, NEW g \in Gens, ManagerExhausts(g)
  PROVE  SigInv'
<1>1. /\ sup \in SupState /\ gen \in [Gens -> GenState]
      /\ tok \in [Bindings -> TokState]
  BY DEF SigIInv, IInv, TypeOK
<1>2. /\ sup' = sup /\ scan' = scan /\ tok' = TerminalTokens(g)
      /\ gen' = [gen EXCEPT ![g] = BeginTerminal(gen[g], g)]
  BY DEF ManagerExhausts
<1>3. BeginTerminal(gen[g], g).manager = "closing"
  <2> DEFINE x == gen[g].ready \/ \E b \in Bindings : TerminalTokens(g)[b] # tok[b]
  <2>1. BeginTerminal(gen[g], g) = [gen[g] EXCEPT !.manager = "closing", !.ready = x]
    BY DEF BeginTerminal
  <2>2. gen[g] \in GenState
    BY <1>1
  <2> HIDE DEF x
  <2> QED BY <2>1, <2>2 DEF GenState
<1>4. gen'[g].manager = "closing" /\ \A h \in Gens : h # g => gen'[h] = gen[h]
  BY <1>1, <1>2, <1>3
<1>5. \A b \in Bindings : /\ Bound(b)' => tok'[b] = tok[b]
                          /\ tok'[b].gen = g => ~Bound(b)'
  <2> TAKE b \in Bindings
  <2>1. tok'[b] = IF tok[b].gen = g /\ tok[b].at \in {"live", "queued"}
                  THEN [tok[b] EXCEPT !.at = "terminal"] ELSE tok[b]
    BY <1>2 DEF TerminalTokens
  <2>2. tok[b] \in TokState
    BY <1>1
  <2> QED BY <2>1, <2>2 DEF TokState, Bound
<1>6. \A h \in Gens : Watched(gen[h]) => KeepsSignal(h)
  BY <1>2, <1>4, <1>5 DEF KeepsSignal
<1>7. sup.active \in Gens \cup {None}
  BY <1>1 DEF SupState
<1> QED BY <1>2, <1>4, <1>5, <1>6, <1>7, SignalKeeps

(* failGeneration.  A watcher that fails a generation whose manager is not *)
(* Done is the liveness watcher.                                           *)
LEMMA SignalFails ==
  ASSUME SigIInv, NEW g \in Gens, NEW w \in Watchers, Fail(g, w)
  PROVE  SigInv'
<1>1. IInv /\ sup \in SupState /\ gen \in [Gens -> GenState] /\ gen[g] \in GenState
  BY DEF SigIInv, IInv, TypeOK
<1>2. gen[g][w] = "lock" /\ (w = "readyWatch" => Done(g)) /\ scan' = scan
  BY <1>1, LockedFacts DEF Fail, FailActive, FailRetiring, FailUnowned
<1>3. ASSUME NEW r \in {gen[g], RetireRoutine(gen[g])}, NEW pc \in {"join", After(w)},
             NEW gn, gn = [gen EXCEPT ![g] = [r EXCEPT ![w] = pc]]
      PROVE  /\ gn \in [Gens -> GenState]
             /\ \A h \in Gens : /\ gn[h].manager = gen[h].manager
                                /\ gen[h].readyWatch = "run" =>
                                     gn[h].readyWatch = "run" /\ gn[h].ready = gen[h].ready
  <2>1. gn \in [Gens -> GenState] /\ Prior(gn)
    BY <1>1, <1>2, <1>3, FailedFields
  <2>2. r \in GenState /\ r.readyWatch = gen[g].readyWatch /\ r.ready = gen[g].ready
    <3>1. RetireRoutine(gen[g]).ready = gen[g].ready
      BY <1>1 DEF RetireRoutine, Intentional, StopLiveness, GenState
    <3> QED BY <1>1, <3>1, RetireType, RetireFields
  <2>3. w = "liveWatch" => /\ gn[g].readyWatch = gen[g].readyWatch
                           /\ gn[g].ready = gen[g].ready
    BY <1>1, <1>3, <2>2 DEF GenState
  <2>4. gen[g].readyWatch = "run" => w = "liveWatch"
    BY <1>2 DEF Watchers
  <2>5. \A h \in Gens : h # g => gn[h] = gen[h]
    BY <1>1, <1>3
  <2> QED BY <2>1, <2>3, <2>4, <2>5 DEF Prior
<1>4. CASE FailActive(g, w)
  <2> DEFINE s == Signal([sup EXCEPT !.active = None, !.retiring = g])
             h == sup.retiring
             retired(pc) == [gen EXCEPT ![g] = [RetireRoutine(@) EXCEPT ![w] = pc]]
  <2>1. s.active = None /\ s.close = sup.close /\ s.ready /\ s.sources = sup.sources
        /\ s \in SupState
    BY <1>1 DEF Signal, SupState
  <2>2. CASE h = None
    <3>1. /\ sup' = RequestRepair(s, FALSE) /\ gen' = retired(After(w)) /\ tok' = tok
      BY <1>4, <2>2 DEF FailActive
    <3> HIDE DEF s
    <3>2. /\ sup'.active = None /\ sup'.close = sup.close /\ sup'.ready
          /\ sup'.sources = sup.sources
      BY <2>1, <3>1 DEF RequestRepair, SupState
    <3>3. \A x \in Gens : /\ gen'[x].manager = gen[x].manager
                          /\ gen[x].readyWatch = "run" => gen'[x].readyWatch = "run"
      BY <1>3, <3>1
    <3>4. \A x \in Gens : Watched(gen[x]) => KeepsSignal(x)
      BY <3>2, <3>3 DEF KeepsSignal, Watched
    <3> QED BY <1>2, <3>1, <3>2, <3>4, SignalKeeps, NoneAssumption
  <2>3. CASE h # None
    <3>1. /\ sup' = s /\ gen' = BeginClose(retired("join"), h) /\ tok' = CloseTokens(h)
      BY <1>4, <2>3 DEF FailActive
    <3>2. h \in Gens
      BY <1>1, <2>3 DEF SupState
    <3>3. PICK gn : gn = retired("join")
      OBVIOUS
    <3> HIDE DEF s
    <3>4. /\ gn \in [Gens -> GenState]
          /\ \A x \in Gens : /\ gn[x].manager = gen[x].manager
                             /\ gen[x].readyWatch = "run" =>
                                  gn[x].readyWatch = "run" /\ gn[x].ready = gen[x].ready
      BY <1>3, <3>3
    <3> QED BY <1>2, <2>1, <3>1, <3>2, <3>3, <3>4, SignalCloses
  <2> QED BY <2>2, <2>3
<1>5. CASE FailRetiring(g, w)
  <2>1. PICK gn : gn = [gen EXCEPT ![g] = [gen[g] EXCEPT ![w] = "join"]]
    OBVIOUS
  <2>2. gen' = BeginClose(gn, g) /\ tok' = CloseTokens(g)
    BY <1>5, <2>1 DEF FailRetiring
  <2>3. /\ sup'.active = sup.active /\ sup'.close = sup.close /\ sup'.ready
        /\ sup'.sources = sup.sources
    BY <1>1, <1>5 DEF FailRetiring, Signal, SupState
  <2>4. /\ gn \in [Gens -> GenState]
        /\ \A x \in Gens : /\ gn[x].manager = gen[x].manager
                           /\ gen[x].readyWatch = "run" =>
                                gn[x].readyWatch = "run" /\ gn[x].ready = gen[x].ready
    BY <1>3, <2>1, ZenonT(60)
  <2> QED BY <1>2, <2>2, <2>3, <2>4, SignalCloses
<1>6. CASE FailUnowned(g, w)
  <2>1. /\ gen' = [gen EXCEPT ![g] = [gen[g] EXCEPT ![w] = After(w)]]
        /\ sup' = sup /\ tok' = tok
    BY <1>6 DEF FailUnowned
  <2>2. \A x \in Gens : /\ gen'[x].manager = gen[x].manager
                        /\ gen[x].readyWatch = "run" =>
                             gen'[x].readyWatch = "run" /\ gen'[x].ready = gen[x].ready
    BY <1>3, <2>1
  <2>3. \A x \in Gens : Watched(gen[x]) => KeepsSignal(x)
    BY <2>2 DEF KeepsSignal, Watched
  <2>4. sup.active \in Gens \cup {None}
    BY <1>1 DEF SupState
  <2> QED BY <1>2, <2>1, <2>2, <2>3, <2>4, SignalKeeps
<1> QED BY <1>4, <1>5, <1>6 DEF Fail

LEMMA SignalFailJoined ==
  ASSUME SigIInv, FailJoined
  PROVE  SigInv'
<1>1. IInv /\ sup \in SupState /\ gen \in [Gens -> GenState] /\ TxShape
  BY DEF SigIInv, IInv, TypeOK
<1>2. /\ tx.op \in Watchers /\ tx.old \in Gens
      /\ tx.op = "readyWatch" => Done(tx.old)
  BY <1>1 DEF FailJoined, TxShape, NoTx, Preparing
<1>3. /\ gen' = [gen EXCEPT ![tx.old] = [gen[tx.old] EXCEPT ![tx.op] = After(tx.op)]]
      /\ tok' = tok /\ scan' = scan
  BY DEF FailJoined
<1>4. /\ sup'.active = sup.active /\ sup'.close = sup.close /\ sup'.ready
      /\ sup'.sources = sup.sources
  <2> DEFINE s == Signal(sup)
  <2>1. s.active = sup.active /\ s.close = sup.close /\ s.ready /\ s.sources = sup.sources
        /\ s \in SupState
    BY <1>1 DEF Signal, SupState
  <2>2. sup' = RequestRepair(s, Healthy(sup.active))
    BY DEF FailJoined
  <2> HIDE DEF s
  <2> QED BY <2>1, <2>2 DEF RequestRepair, SupState
<1>5. /\ gen'[tx.old].manager = gen[tx.old].manager
      /\ tx.op = "liveWatch" => gen'[tx.old].readyWatch = gen[tx.old].readyWatch
  <2>1. gen'[tx.old] = [gen[tx.old] EXCEPT ![tx.op] = After(tx.op)]
    BY <1>1, <1>2, <1>3
  <2>2. gen[tx.old] \in GenState
    BY <1>1, <1>2
  <2> QED BY <1>2, <2>1, <2>2 DEF GenState, Watchers
<1>6. \A h \in Gens : h # tx.old => gen'[h] = gen[h]
  BY <1>1, <1>3
<1>7. \A h \in Gens : Watched(gen[h]) => KeepsSignal(h)
  BY <1>2, <1>4, <1>5, <1>6 DEF KeepsSignal, Watched, Watchers, Done
<1>8. \A h \in Gens : gen'[h].manager = gen[h].manager
  BY <1>5, <1>6
<1>9. sup.active \in Gens \cup {None}
  BY <1>1 DEF SupState
<1> QED BY <1>3, <1>4, <1>7, <1>8, <1>9, SignalKeeps

LEMMA SignalCloseSource ==
  ASSUME SigIInv, CloseSource
  PROVE  SigInv'
<1>1. sup \in SupState /\ sup.close = "run"
  BY DEF SigIInv, IInv, TypeOK, CloseSource, CloseShape
<1>2. sup'.close # "open" /\ scan' = scan
  BY <1>1 DEF CloseSource, SupState
<1> QED BY <1>1, <1>2, SignalKeeps

-----------------------------------------------------------------------------
(* Clients and the scan.                                                   *)
LEMMA SignalClients ==
  ASSUME SigIInv, NEW b \in Bindings, Bind(b) \/ Deliver(b) \/ ClientCloses(b)
  PROVE  SigInv'
<1>1. /\ IInv /\ sup \in SupState /\ gen \in [Gens -> GenState]
      /\ tok \in [Bindings -> TokState] /\ sup' = sup
  BY DEF SigIInv, IInv, TypeOK, Bind, Deliver, ClientCloses
<1>2. CASE ClientCloses(b)
  <2>1. /\ scan' = scan /\ gen' = gen /\ tok' = [tok EXCEPT ![b] = NoTok]
    BY <1>2 DEF ClientCloses
  <2>2. \A c \in Bindings : Bound(c)' => tok'[c] = tok[c]
    BY <1>1, <2>1 DEF Bound, NoTok
  <2>3. \A h \in Gens : Watched(gen[h]) => KeepsSignal(h)
    BY <2>1 DEF KeepsSignal
  <2>4. sup.active \in Gens \cup {None}
    BY <1>1 DEF SupState
  <2> QED BY <1>1, <2>1, <2>2, <2>3, <2>4, SignalKeeps
<1>3. CASE Bind(b)
  <2> DEFINE g == sup.active
  <2>1. /\ ~Closing /\ g # None /\ gen[g].manager = "ready" /\ gen' = gen
        /\ tok' = [tok EXCEPT ![b] = [gen |-> g, at |-> "live"]]
        /\ scan' = IF scan.at = "off" THEN NoScan ELSE scan
    BY <1>3 DEF Bind, Healthy
  <2>2. g \in Gens /\ Live(g)
    BY <1>1, <2>1 DEF SupState, Live
  <2>3. g \in Range(sup.sources)
    BY <1>1, <2>1, <2>2 DEF IInv, Covered, Closing
  <2>4. /\ ActiveWatched /\ (\A c \in Bindings : Bound(c) => Signalled(c))
        /\ scan.at = "off" => scan.rest = <<>>
    BY <2>1 DEF SigIInv, SigInv
  <2>5. Unscanned' = Unscanned /\ (scan'.at = "off" => scan'.rest = <<>>)
    BY <2>1, <2>4 DEF Unscanned, NoScan
  <2>6. ASSUME NEW c \in Bindings, Bound(c)' PROVE Signalled(c)'
    <3>1. CASE c = b
      <4>1. tok'[c].gen = g /\ tok'[c].at = "live"
        BY <1>1, <2>1, <3>1
      <4> QED BY <1>1, <2>1, <2>2, <2>3, <2>4, <4>1 DEF Signalled, ActiveWatched
    <3>2. CASE c # b
      <4>1. tok'[c] = tok[c] /\ Signalled(c)
        BY <1>1, <2>1, <2>4, <2>6, <3>2 DEF Bound
      <4> QED BY <1>1, <2>1, <2>5, <4>1 DEF Signalled
    <3> QED BY <3>1, <3>2
  <2>7. ActiveWatched'
    BY <1>1, <2>1, <2>4 DEF ActiveWatched
  <2> QED BY <2>5, <2>6, <2>7 DEF SigInv
<1>4. CASE Deliver(b)
  <2> DEFINE g == tok[b].gen
  <2>1. /\ tok[b].at = "live" /\ scan' = scan
        /\ tok' = [tok EXCEPT ![b].at = "queued"]
        /\ gen' = [gen EXCEPT ![g].ready = TRUE]
    BY <1>4 DEF Deliver
  <2> SUFFICES ASSUME ~Closing
               PROVE  ActiveWatched' /\ \A c \in Bindings : Bound(c)' => Signalled(c)'
    BY <1>1, <2>1 DEF SigIInv, SigInv, Closing
  <2>2. /\ ActiveWatched /\ (\A c \in Bindings : Bound(c) => Signalled(c))
    BY DEF SigIInv, SigInv
  <2>3. g \in Gens
    BY <2>1, <2>2 DEF Bound, Signalled
  <2>4. \A h \in Gens : /\ gen'[h].manager = gen[h].manager
                        /\ gen'[h].readyWatch = gen[h].readyWatch
                        /\ gen'[h].ready = (gen[h].ready \/ h = g)
    BY <1>1, <2>1, <2>3 DEF GenState
  <2>5. \A c \in Bindings : /\ tok'[c].gen = tok[c].gen
                            /\ Bound(c)' => Bound(c)
                            /\ tok'[c].at = "queued" => tok[c].at = "queued" \/ c = b
    BY <1>1, <2>1 DEF TokState, Bound
  <2>6. Unscanned' = Unscanned
    BY <2>1 DEF Unscanned
  <2>7. ASSUME NEW c \in Bindings, Bound(c)' PROVE Signalled(c)'
    <3>1. Signalled(c) /\ tok'[c].gen = tok[c].gen
      BY <2>2, <2>5, <2>7
    <3> QED BY <1>1, <2>4, <2>5, <2>6, <3>1 DEF Signalled, Watched
  <2>8. ActiveWatched'
    <3>1. sup.active \in Gens \cup {None}
      BY <1>1 DEF SupState
    <3> QED BY <1>1, <2>2, <2>4, <3>1 DEF ActiveWatched, Watched
  <2> QED BY <2>7, <2>8
<1> QED BY <1>2, <1>3, <1>4

(* The consumer takes the signal before it looks at the sources, and looks *)
(* at all of them after every token.                                       *)
LEMMA SignalScan ==
  ASSUME SigIInv, Scan
  PROVE  SigInv'
<1>1. /\ IInv /\ sup \in SupState /\ gen \in [Gens -> GenState]
      /\ tok \in [Bindings -> TokState] /\ ScanTyped /\ ScanShape
  BY DEF SigIInv, IInv, TypeOK, ScanTyped
<1>2. gen' = gen /\ scan.at # "off" /\ scan'.at # "off"
  <2>1. gen' = gen /\ scan.at # "off"
    BY DEF Scan, ScanBegin, ScanEmpty, ScanDone, ScanLease
  <2>2. CASE ScanEmpty
    BY <1>1, <2>2 DEF ScanEmpty, ScanTyped
  <2>3. CASE ScanBegin \/ ScanDone \/ \E b \in Bindings : ScanLease(b)
    BY <2>3 DEF ScanBegin, ScanDone, ScanLease, NoScan
  <2> QED BY <2>1, <2>2, <2>3 DEF Scan
<1>3. \A h \in Gens : Done(h) => ~Watched(gen[h])
  BY DEF Done, Watched
<1>4. /\ sup'.close = sup.close /\ sup'.active = sup.active
      /\ \A h \in Gens : Watched(gen[h]) /\ h \in Range(sup.sources)
                           => h \in Range(sup'.sources)
  <2>1. CASE ScanDone
    <3>1. Head(scan.rest) \in Gens
      BY <1>1, <2>1, HeadOrTail DEF ScanDone, ScanTyped, ScanShape
    <3>2. CASE sup' = sup
      BY <3>2
    <3>3. CASE Done(Head(scan.rest)) /\ sup' = RemoveSource(sup, Head(scan.rest))
      <4>1. sup' = [sup EXCEPT !.sources = sup'.sources]
        BY <1>1, <3>3, RemoveSourceKeeps
      <4>2. \A h \in Range(sup.sources) : h # Head(scan.rest) => h \in Range(sup'.sources)
        BY <1>1, <3>3, RemoveSourceKeeps
      <4>3. sup'.close = sup.close /\ sup'.active = sup.active
        BY <1>1, <4>1 DEF SupState
      <4> QED BY <1>3, <3>1, <3>3, <4>2, <4>3
    <3> QED BY <2>1, <3>2, <3>3 DEF ScanDone
  <2>2. CASE ScanBegin \/ ScanEmpty \/ \E b \in Bindings : ScanLease(b)
    BY <1>1, <2>2 DEF ScanBegin, ScanEmpty, ScanLease, SupState
  <2> QED BY <2>1, <2>2 DEF Scan
<1> SUFFICES ASSUME ~Closing
             PROVE  ActiveWatched' /\ \A c \in Bindings : Bound(c)' => Signalled(c)'
  BY <1>2, <1>4 DEF SigInv, Closing
<1>5. /\ ActiveWatched /\ (\A c \in Bindings : Bound(c) => Signalled(c))
  BY DEF SigIInv, SigInv
<1>6. ActiveWatched'
  BY <1>2, <1>4, <1>5 DEF ActiveWatched
<1>7. ASSUME NEW c \in Bindings, Bound(c)' PROVE Signalled(c)'
  <2> DEFINE g == tok'[c].gen
  <2>1. /\ tok[c].gen = g /\ Bound(c)
        /\ tok'[c].at = "queued" => tok[c].at = "queued"
    <3>1. CASE tok' = tok
      BY <1>7, <3>1 DEF Bound
    <3>2. ASSUME NEW b \in Bindings, ScanLease(b)
          PROVE  /\ tok[c].gen = g /\ Bound(c)
                 /\ tok'[c].at = "queued" => tok[c].at = "queued"
      <4>1. tok'[c] = IF c = b
                      THEN IF tok[b].at = "queued" THEN [tok[b] EXCEPT !.at = "live"] ELSE NoTok
                      ELSE tok[c]
        BY <1>1, <3>2 DEF ScanLease
      <4>2. tok[c] \in TokState
        BY <1>1
      <4> QED BY <1>7, <4>1, <4>2 DEF Bound, NoTok, TokState
    <3> QED BY <3>1, <3>2 DEF Scan, ScanBegin, ScanEmpty, ScanDone
  <2>2. Signalled(c)
    BY <1>5, <2>1
  <2>3. g \in Gens /\ Watched(gen[g]) /\ g \in Range(sup.sources)
    BY <2>1, <2>2 DEF Signalled
  <2>4. g \in Range(sup'.sources)
    BY <1>4, <2>3
  <2>5. ASSUME tok'[c].at = "queued"
        PROVE  gen[g].ready \/ sup'.ready \/ g \in Range(Unscanned')
    <3>1. tok[c].at = "queued" /\ (gen[g].ready \/ sup.ready \/ g \in Range(Unscanned))
      BY <2>1, <2>2, <2>5 DEF Signalled
    <3>2. CASE ScanBegin \/ \E b \in Bindings : ScanLease(b)
      <4>1. sup.sources # <<>>
        BY <2>3 DEF Range
      <4>2. scan' = [at |-> "try", rest |-> sup.sources]
        BY <3>2, <4>1 DEF ScanBegin, ScanLease
      <4>3. Unscanned' = sup.sources
        BY <4>2 DEF Unscanned
      <4> QED BY <2>3, <4>3
    <3>3. CASE ScanEmpty
      <4>1. /\ scan.rest \in Seq(Gens) /\ scan.rest # <<>> /\ scan.at = "try"
            /\ scan' = [scan EXCEPT !.at = "done?"] /\ sup' = sup
            /\ ~HasReady(Head(scan.rest))
        BY <1>1, <3>3 DEF ScanEmpty, ScanTyped, ScanShape
      <4>2. scan'.at = "done?" /\ scan'.rest = scan.rest
        BY <1>1, <4>1 DEF ScanTyped
      <4>3. Unscanned = scan.rest /\ Unscanned' = Tail(scan.rest)
        BY <4>1, <4>2 DEF Unscanned
      <4>4. g # Head(scan.rest)
        BY <2>1, <3>1, <4>1 DEF HasReady
      <4> QED BY <3>1, <4>1, <4>3, <4>4, HeadOrTail
    <3>4. CASE ScanDone
      <4>1. /\ scan.rest \in Seq(Gens) /\ scan.rest # <<>> /\ scan.at = "done?"
            /\ scan' = IF Len(scan.rest) = 1 THEN NoScan
                       ELSE [at |-> "try", rest |-> Tail(scan.rest)]
        BY <1>1, <3>4 DEF ScanDone, ScanTyped, ScanShape
      <4>2. Unscanned = Tail(scan.rest)
        BY <4>1 DEF Unscanned
      <4>3. Len(scan.rest) = 1 => Tail(scan.rest) = <<>>
        <5> DEFINE t == Tail(scan.rest)
        <5>1. t \in Seq(Gens) /\ Len(t) = Len(scan.rest) - 1
          BY <4>1, HeadTailProperties
        <5> HIDE DEF t
        <5>2. Len(t) = 0 => t = <<>>
          BY <5>1, EmptySeq
        <5> QED BY <5>1, <5>2 DEF t
      <4>4. Unscanned' = Unscanned
        BY <4>1, <4>2, <4>3 DEF Unscanned, NoScan
      <4>5. sup'.ready = sup.ready
        <5>1. sup' = sup \/ sup' = RemoveSource(sup, Head(scan.rest))
          BY <3>4 DEF ScanDone
        <5>2. sup' = sup \/ sup' = [sup EXCEPT !.sources = sup'.sources]
          BY <1>1, <5>1, RemoveSourceKeeps
        <5> QED BY <1>1, <5>2 DEF SupState
      <4> QED BY <3>1, <4>4, <4>5
    <3> QED BY <3>2, <3>3, <3>4 DEF Scan
  <2> QED BY <1>2, <2>3, <2>4, <2>5 DEF Signalled
<1> QED BY <1>6, <1>7

(* Every step of the supervisor keeps the chain of signals whole.          *)
LEMMA SignalInternal ==
  ASSUME SigIInv, Internal
  PROVE  SigInv'
<1>1. CASE \/ StartLock \/ RepairLock \/ RotateLock \/ CloseLock
           \/ StartRequest \/ RepairTimer \/ CloseFinish
  BY <1>1, SignalCounters
<1>2. CASE Holder
  BY <1>2, SignalCounters, SignalPrepares, SignalPublishes, SignalFailJoined,
     SignalCloseSource DEF Holder
<1>3. CASE \E g \in Gens, w \in Watchers : Fail(g, w)
  BY <1>3, SignalFails
<1>4. CASE Scan
  BY <1>4, SignalScan
<1>5. CASE \E b \in Bindings : Bind(b) \/ Deliver(b) \/ ClientCloses(b)
  BY <1>5, SignalClients
<1>6. CASE \E g \in Gens :
             \/ ReadyWatch(g) \/ LiveWatch(g) \/ SlotRepairer(g) \/ Retirer(g)
             \/ ManagerDone(g) \/ ManagerExhausts(g) \/ SlotFails(g)
  BY <1>6, SignalGoroutines, SignalRetires, SignalExhausts
     DEF ReadyWatch, LiveWatch, SlotRepairer, Retirer
<1> QED BY <1>1, <1>2, <1>3, <1>4, <1>5, <1>6 DEF Internal

LEMMA SignalInit ==
  ASSUME NEW own, InitWith(own)
  PROVE  SigInv
<1>1. /\ sup.active = None /\ scan.rest = <<>> /\ \A b \in Bindings : tok[b].at = "none"
  BY DEF InitWith, ScanOff, NoTok
<1> QED BY <1>1 DEF SigInv, ActiveWatched, Bound

(* No queued token is forgotten between manager.Ready, the readiness       *)
(* watcher, the supervisor's Ready and the scan of TryNextReady, whatever  *)
(* rotates, fails, retires or is repaired meanwhile, and whoever calls     *)
(* Start and Rotate.                                                       *)
THEOREM QueuedTokenIsCarried ==
  (Spec => []QueuedTokenIsSignalled) /\ (ServiceSpec => []QueuedTokenIsSignalled)
<1>1. Init \/ ServiceInit => SigInv
  BY SignalInit DEF Init, ServiceInit
<1>2. IInv /\ SigInv /\ ([Next]_vars \/ [ServiceNext]_vars) => SigInv'
  <2> SUFFICES ASSUME SigIInv, [Next]_vars \/ [ServiceNext]_vars PROVE SigInv'
    BY DEF SigIInv
  <2>1. CASE Internal
    BY <2>1, SignalInternal
  <2>2. CASE CloseBegin
    BY <2>2, SignalCallers
  <2>3. CASE UNCHANGED <<sup, gen, tok, scan>>
    BY <2>3, SignalCallers
  <2> QED BY <2>1, <2>2, <2>3 DEF Next, ServiceNext, Call, CancelCall, CallReturns,
             Reconcile, BuildFails, Reconciled, ServiceClose, SupervisorClose, vars
<1>3. SigInv => QueuedTokenIsSignalled
  BY DEF SigInv, QueuedTokenIsSignalled, Bound, Signalled, Watched, Unscanned
<1>4. Spec => []QueuedTokenIsSignalled
  BY <1>1, <1>2, <1>3, Invariant, PTL DEF Spec
<1>5. ServiceSpec => []QueuedTokenIsSignalled
  BY <1>1, <1>2, <1>3, ServiceInvariant, PTL DEF ServiceSpec
<1> QED BY <1>4, <1>5
===============================================================================
