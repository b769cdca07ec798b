------------------------ MODULE GenerationSupervisor ------------------------
(***************************************************************************)
(* The generation supervisor of the Middle-End transport                   *)
(* (pkg/transport/middleend/generation_supervisor.go).  It owns one active *)
(* and at most one retiring fixed-binding manager, replaces the active one *)
(* by rotation, repairs the loss of it, drains what it displaced, and      *)
(* offers the readiness of all of them to one consumer.                    *)
(*                                                                         *)
(* Two mutexes structure the code.  s.mu makes every action below atomic.  *)
(* s.transitions is held across a whole start, rotation, repair attempt,   *)
(* failure or shutdown, preparation and manager Close included: tx is its  *)
(* holder with the holder's local variables.  Everything else interleaves: *)
(* the two watchers of a generation, its retirement, its slot repair, the  *)
(* consumer of readiness, the clients and the managers themselves.         *)
(*                                                                         *)
(* A manager is reduced to what the supervisor sees of it, as the          *)
(* BindingManager module models it: its lifecycle, its Done channel, its   *)
(* resident bindings and its coalesced readiness.  accepting and liveStop  *)
(* are not kept: Quiesce and stopLiveness directly follow the store of     *)
(* intentional (or failed), which already refuses every Bind.              *)
(***************************************************************************)
EXTENDS Integers, Sequences, FiniteSets, SequencesExt

CONSTANTS
  Gens,          \* supervisedGeneration structs; one is reused once forgotten
  Factories,     \* generation factories, one per artifact content
  Bindings,      \* clients bound with BindReady
  SlotRepair,    \* subset of BOOLEAN: whether a manager has a repairLink
  Faults,        \* what may go wrong: "prepare", "link", "exhaust"
  MaxEvents,     \* bound: calls of Start and Rotate, link losses, managers that
                 \* end by themselves and preparations that fail, in total
  None           \* nil

ASSUME GensAssumption == IsFiniteSet(Gens) /\ Gens \subseteq Nat
ASSUME NoneAssumption == None \notin Gens \cup Factories \cup Bindings
ASSUME BoundAssumption == MaxEvents \in Nat
ASSUME SlotRepairAssumption == SlotRepair \subseteq BOOLEAN

VARIABLES
  sup,      \* generationSupervisorState under s.mu
  gen,      \* each generation, its manager and the goroutines started for it
  tok,      \* each client: the generation it is fixed to, its ready token
  tx,       \* the holder of s.transitions and its local variables
  caller,   \* the caller of Start and Rotate; own is what it keeps for itself
  scan,     \* the consumer of Ready and TryNextReady
  used      \* events that have happened, of MaxEvents

vars == <<sup, gen, tok, tx, caller, scan, used>>

NoTx   == [op |-> "none", at |-> "none", gen |-> None, old |-> None,
           factory |-> None]
NoCall == [op |-> "none", at |-> "idle", factory |-> None, cancel |-> FALSE,
           ok |-> FALSE, own |-> None]
NoScan == [at |-> "idle", rest |-> <<>>]
ScanOff == [at |-> "off", rest |-> <<>>]
NoTok  == [gen |-> None, at |-> "none"]

(* A generation before construction.  manager is the manager's lifecycle,  *)
(* ready its coalesced Ready channel; readyWatch, liveWatch and retire are *)
(* the goroutines watchGenerationReady, watchGenerationLiveness and the    *)
(* one retireRoutine starts.                                               *)
NewGen == [manager |-> "absent", ready |-> FALSE, degraded |-> FALSE,
           repairable |-> FALSE, factory |-> None,
           failed |-> FALSE, intentional |-> FALSE, slotRepairing |-> FALSE,
           readyWatch |-> "off", liveWatch |-> "off", retire |-> "off"]

InitWith(own) ==
  /\ sup = [active |-> None, retiring |-> None, sources |-> <<>>,
            lastFactory |-> None, ready |-> FALSE,
            repair |-> "off", close |-> "open", closeSources |-> <<>>]
  /\ gen = [g \in Gens |-> NewGen]
  /\ tok = [b \in Bindings |-> NoTok]
  /\ tx = NoTx
  /\ caller = [NoCall EXCEPT !.own = own]
  /\ scan = ScanOff
  /\ used = 0

Init == InitWith(None)

-----------------------------------------------------------------------------
(* Derived state.                                                          *)

Closing   == sup.close # "open"        \* s.closing; rootContext is cancelled
Closed    == sup.close = "closed"      \* s.done is closed
Repairing == sup.repair # "off"        \* s.repairing
Idle      == caller.at = "idle"        \* no call of Start or Rotate is under way

Healthy(g) == g # None /\ ~gen[g].failed /\ ~gen[g].intentional

Live(g)   == gen[g].manager \in {"created", "ready", "closing"}
Done(g)   == gen[g].manager = "done"
HasReady(g) == \E b \in Bindings : tok[b].gen = g /\ tok[b].at \in {"queued", "terminal"}

(* Goroutines of g that workers.Wait still waits for.                      *)
Working(g) ==
  \/ gen[g].readyWatch \notin {"off", "end"}
  \/ gen[g].liveWatch \notin {"off", "end"}
  \/ gen[g].retire \notin {"off", "end"}
  \/ gen[g].slotRepairing

(* No one refers to g any more, so its name can stand for a new one.       *)
Forgotten(g) ==
  /\ gen[g].manager \in {"absent", "done"}
  /\ ~Working(g)
  /\ g \notin {sup.active, sup.retiring, tx.gen, tx.old}
  /\ g \notin Range(sup.sources) \cup Range(sup.closeSources) \cup Range(scan.rest)
  /\ \A b \in Bindings : tok[b].gen # g

-----------------------------------------------------------------------------
(* Steps shared by several operations.                                     *)

(* fixedBindingManager.beginTerminal: every binding of the manager ends    *)
(* and, consumed through tokens, has its terminal token queued.            *)
TerminalTokens(g) ==
  [b \in Bindings |->
     IF tok[b].gen = g /\ tok[b].at \in {"live", "queued"}
     THEN [tok[b] EXCEPT !.at = "terminal"] ELSE tok[b]]

BeginTerminal(r, g) ==
  [r EXCEPT !.manager = "closing",
            !.ready = @ \/ \E b \in Bindings : TerminalTokens(g)[b] # tok[b]]

(* intentional is set and liveStop closed: Quiesce and an idle liveness    *)
(* watcher follow at once.                                                 *)
StopLiveness(r) == [r EXCEPT !.liveWatch = IF @ = "run" THEN "end" ELSE @]
Intentional(r)  == StopLiveness([r EXCEPT !.intentional = TRUE])

(* closeGeneration and the loop body of close, up to the wait for Done, as *)
(* seen by the generations gn and by the tokens.                           *)
Open(g) == gen[g].manager \in {"created", "ready"}

BeginClose(gn, g) ==
  [gn EXCEPT ![g] = IF Open(g) THEN BeginTerminal(Intentional(@), g)
                              ELSE Intentional(@)]

CloseTokens(g) == IF Open(g) THEN TerminalTokens(g) ELSE tok

(* retireRoutine, up to the goroutine it starts.                           *)
RetireRoutine(r) == [Intentional(r) EXCEPT !.retire = "wait"]

\* mutant: no repair is requested while a generation is retiring
RequestRepair_AfterDrain(s, healthy) ==
  IF s.close # "open" \/ s.repair # "off" \/ healthy \/ s.retiring # None
  THEN s ELSE [s EXCEPT !.repair = "lock"]

(* requestRepair on the supervisor state s, its active generation healthy  *)
(* or not.                                                                 *)
RequestRepair(s, healthy) ==
  IF s.close # "open" \/ s.repair # "off" \/ healthy
  THEN s ELSE [s EXCEPT !.repair = "lock"]

(* The context of a preparation: the caller's, or the supervisor's.        *)
Cancelled == Closing \/ (tx.op # "repair" /\ caller.cancel)

(* An event within the bound; cancelled preparations are not counted.      *)
Counted == used < MaxEvents /\ used' = used + 1

Fault(kind) == kind \in Faults /\ Counted

Signal(s) == [s EXCEPT !.ready = TRUE]

(* removeSource.  A generation is at most once in the sources.             *)
RemoveSource(s, g) ==
  LET at == CHOOSE i \in DOMAIN s.sources : s.sources[i] = g
  IN  IF g \in Range(s.sources) THEN [s EXCEPT !.sources = RemoveAt(@, at)] ELSE s

(* The end of Start, Rotate or a repair attempt: transitions is released.  *)
(* A failed Start still has to request the repair.                         *)
Return(op, s, ok) ==
  /\ tx' = NoTx
  /\ sup' = IF op # "repair" THEN s
            ELSE [s EXCEPT !.repair = IF ok THEN "off" ELSE "backoff"]
  /\ caller' = IF op = "repair" THEN caller
               ELSE [caller EXCEPT !.ok = ok,
                       !.at = IF op = "start" /\ ~ok THEN "request" ELSE "return"]

-----------------------------------------------------------------------------
(* Start, Rotate and the repair loop.                                      *)

Call(op, f, own) ==
  /\ Idle
  /\ caller' = [NoCall EXCEPT !.op = op, !.at = "lock", !.factory = f, !.own = own]
  /\ UNCHANGED <<sup, gen, tok, tx, scan>>

(* The caller's context ends.                                              *)
CancelCall ==
  /\ ~Idle
  /\ caller' = [caller EXCEPT !.cancel = TRUE]
  /\ UNCHANGED <<sup, gen, tok, tx, scan>>

(* ensureActive up to preparation, entered with transitions just taken     *)
(* and the supervisor state s.                                             *)
EnsureActive(op, s, f) ==
  \/ /\ ~Closing /\ s.active = None
     /\ tx' = [NoTx EXCEPT !.op = op, !.at = "prepare", !.factory = f]
     /\ sup' = IF op = "repair" THEN [s EXCEPT !.repair = "run"] ELSE s
     /\ caller' = IF op = "start" THEN [caller EXCEPT !.at = "run"] ELSE caller
  \/ ~Closing /\ Healthy(s.active) /\ Return(op, s, TRUE)
  \/ /\ Closing \/ (s.active # None /\ ~Healthy(s.active))
     /\ Return(op, s, FALSE)

StartLock ==
  /\ tx = NoTx
  /\ caller.op = "start" /\ caller.at = "lock"
  /\ EnsureActive("start",
       [sup EXCEPT !.lastFactory = IF @ = None THEN caller.factory ELSE @],
       caller.factory)
  /\ UNCHANGED <<gen, tok, scan, used>>

(* One turn of repairLoop.  It prefers the factory of the active           *)
(* generation, when there is one, to the last factory that was published.  *)
RepairLock ==
  /\ tx = NoTx
  /\ sup.repair = "lock"
  /\ EnsureActive("repair", sup,
       IF sup.active # None THEN gen[sup.active].factory ELSE sup.lastFactory)
  /\ UNCHANGED <<gen, tok, scan, used>>

\* mutant: only the timer is waited for
RepairTimer_IgnoresClose ==
  /\ sup.repair = "backoff"
  /\ sup' = [sup EXCEPT !.repair = "lock"]
  /\ UNCHANGED <<gen, tok, tx, caller, scan, used>>

RepairTimer ==
  /\ sup.repair = "backoff"
  /\ sup' = [sup EXCEPT !.repair = IF Closing THEN "off" ELSE "lock"]
  /\ UNCHANGED <<gen, tok, tx, caller, scan, used>>

RotateLock ==
  /\ tx = NoTx
  /\ caller.op = "rotate" /\ caller.at = "lock"
  /\ tx' = [NoTx EXCEPT !.op = "rotate", !.at = "wait", !.factory = caller.factory]
  /\ caller' = [caller EXCEPT !.at = "run"]
  /\ UNCHANGED <<sup, gen, tok, scan, used>>

\* mutant: a rotation does not wait for the previous one
RotateWait_NoWait ==
  /\ tx.op = "rotate" /\ tx.at = "wait"
  /\ IF Closing \/ ~Healthy(sup.active) THEN Return(tx.op, sup, FALSE)
     ELSE /\ tx' = [tx EXCEPT !.at = "prepare", !.old = sup.active]
          /\ UNCHANGED <<sup, caller>>
  /\ UNCHANGED <<gen, tok, scan, used>>

(* waitForRetiring and the checks after it.  The wait holds transitions.   *)
RotateWait ==
  /\ tx.op = "rotate" /\ tx.at = "wait"
  /\ \/ /\ Closing \/ (sup.retiring = None /\ ~Healthy(sup.active))
        /\ Return(tx.op, sup, FALSE)
     \/ /\ ~Closing /\ sup.retiring = None /\ Healthy(sup.active)
        /\ tx' = [tx EXCEPT !.at = "prepare", !.old = sup.active]
        /\ UNCHANGED <<sup, caller>>
  /\ UNCHANGED <<gen, tok, scan, used>>

(* The caller's context ends while it waits for the retiring generation.   *)
RotateCancelled ==
  /\ tx.op = "rotate" /\ tx.at = "wait"
  /\ sup.retiring # None /\ caller.cancel
  /\ Return(tx.op, sup, FALSE)
  /\ UNCHANGED <<gen, tok, scan, used>>

(* prepareGeneration: the factory builds an unstarted manager ...          *)
Construct ==
  /\ tx.at = "prepare"
  /\ \E g \in Gens, r \in SlotRepair :
       /\ Forgotten(g) /\ \A h \in Gens : Forgotten(h) => g <= h
       /\ gen' = [gen EXCEPT ![g] = [NewGen EXCEPT !.manager = "created",
                    !.factory = tx.factory, !.repairable = r]]
       /\ tx' = [tx EXCEPT !.at = "probe", !.gen = g]
  /\ UNCHANGED <<sup, tok, caller, scan, used>>

(* ... or fails, as it does once the context is cancelled ...              *)
ConstructFails ==
  /\ tx.at = "prepare"
  /\ Fault("prepare") \/ (Cancelled /\ UNCHANGED used)
  /\ Return(tx.op, sup, FALSE)
  /\ UNCHANGED <<gen, tok, scan>>

(* ... which is started and probed on every DC ...                         *)
Admit ==
  /\ tx.at = "probe"
  /\ gen' = [gen EXCEPT ![tx.gen].manager = "ready"]
  /\ tx' = [tx EXCEPT !.at = "publish"]
  /\ UNCHANGED <<sup, tok, caller, scan, used>>

(* ... or, failing either, closed again.                                   *)
AdmitFails ==
  /\ tx.at = "probe"
  /\ Fault("prepare") \/ (Cancelled /\ UNCHANGED used)
  /\ gen' = BeginClose(gen, tx.gen)
  /\ tok' = CloseTokens(tx.gen)
  /\ tx' = [tx EXCEPT !.at = "discard"]
  /\ UNCHANGED <<sup, caller, scan>>

\* mutant: a shutdown during the preparation goes unnoticed
Superseded_IgnoresClose ==
  IF tx.op = "rotate" THEN sup.active # tx.old \/ ~Healthy(tx.old) \/ sup.retiring # None
  ELSE sup.active # None

(* What changed since preparation began, as Rotate and ensureActive check  *)
(* it under s.mu.                                                          *)
Superseded ==
  \/ Closing
  \/ tx.op = "rotate" /\ (sup.active # tx.old \/ ~Healthy(tx.old) \/ sup.retiring # None)
  \/ tx.op # "rotate" /\ sup.active # None

\* mutant: repair keeps using the factory of the first generation
Publish_KeepsFactory ==
  /\ tx.at = "publish"
  /\ ~Superseded
  /\ gen' = [gen EXCEPT ![tx.gen].readyWatch = "run", ![tx.gen].liveWatch = "run"]
  /\ LET s == [sup EXCEPT !.active = tx.gen, !.sources = Append(@, tx.gen)]
     IN  IF tx.op = "rotate"
         THEN /\ sup' = [s EXCEPT !.retiring = tx.old]
              /\ tx' = [tx EXCEPT !.at = "retire", !.gen = None]
              /\ UNCHANGED caller
         ELSE Return(tx.op, s, TRUE)
  /\ UNCHANGED <<tok, scan, used>>

(* Publication: the candidate becomes the active generation and a source,  *)
(* and its two watchers start.                                             *)
Publish ==
  /\ tx.at = "publish"
  /\ ~Superseded
  /\ gen' = [gen EXCEPT ![tx.gen].readyWatch = "run", ![tx.gen].liveWatch = "run"]
  /\ LET s == [sup EXCEPT !.active = tx.gen, !.lastFactory = tx.factory,
                          !.sources = Append(@, tx.gen)]
     IN  IF tx.op = "rotate"
         THEN /\ sup' = [s EXCEPT !.retiring = tx.old]
              /\ tx' = [tx EXCEPT !.at = "retire", !.gen = None]
              /\ UNCHANGED caller
         ELSE Return(tx.op, s, TRUE)
  /\ UNCHANGED <<tok, scan, used>>

PublishRefused ==
  /\ tx.at = "publish"
  /\ Superseded
  /\ gen' = BeginClose(gen, tx.gen)
  /\ tok' = CloseTokens(tx.gen)
  /\ tx' = [tx EXCEPT !.at = "discard"]
  /\ UNCHANGED <<sup, caller, scan, used>>

\* mutant: the superseded rotation is reported as done
Discarded_Ok ==
  /\ tx.at = "discard"
  /\ Done(tx.gen)
  /\ Return(tx.op, Signal(sup), TRUE)
  /\ UNCHANGED <<gen, tok, scan, used>>

Discarded ==
  /\ tx.at = "discard"
  /\ Done(tx.gen)
  /\ Return(tx.op, Signal(sup), FALSE)
  /\ UNCHANGED <<gen, tok, scan, used>>

RotateRetire ==
  /\ tx.at = "retire"
  /\ gen' = [gen EXCEPT ![tx.old] = RetireRoutine(@)]
  /\ Return(tx.op, sup, TRUE)
  /\ UNCHANGED <<tok, scan, used>>

(* Start requests the repair after it has released transitions.            *)
StartRequest ==
  /\ caller.at = "request"
  /\ sup' = RequestRepair(sup, Healthy(sup.active))
  /\ caller' = [caller EXCEPT !.at = "return"]
  /\ UNCHANGED <<gen, tok, tx, scan, used>>

CallReturns(own) ==
  /\ caller.at = "return"
  /\ caller' = [NoCall EXCEPT !.own = own]
  /\ UNCHANGED <<sup, gen, tok, tx, scan, used>>

-----------------------------------------------------------------------------
(* The goroutines of a published generation.                               *)

\* mutant: the readiness is taken and not forwarded
ReadyForward_Silent(g) ==
  /\ gen[g].readyWatch = "run"
  /\ gen[g].ready
  /\ gen' = [gen EXCEPT ![g].ready = FALSE]
  /\ UNCHANGED <<sup, tok, tx, caller, scan, used>>

(* watchGenerationReady forwards the manager's readiness ...               *)
ReadyForward(g) ==
  /\ gen[g].readyWatch = "run"
  /\ gen[g].ready
  /\ gen' = [gen EXCEPT ![g].ready = FALSE]
  /\ sup' = Signal(sup)
  /\ UNCHANGED <<tok, tx, caller, scan, used>>

(* failGeneration, up to the mutex: the first caller wins.                 *)
MarkFailed(r, w, after) ==
  IF r.failed THEN [r EXCEPT ![w] = after]
  ELSE [StopLiveness(r) EXCEPT !.failed = TRUE, ![w] = "lock"]

(* ... treats an end it did not ask for as a failure ...                   *)
ReadyDone(g) ==
  /\ gen[g].readyWatch = "run"
  /\ Done(g)
  /\ sup' = Signal(sup)
  /\ gen' = [gen EXCEPT ![g] =
       IF @.intentional THEN [@ EXCEPT !.readyWatch = "remove"]
       ELSE MarkFailed(@, "readyWatch", "remove")]
  /\ UNCHANGED <<tok, tx, caller, scan, used>>

(* ... and collects the source unless tokens are still queued.             *)
ReadyRemove(g) ==
  /\ gen[g].readyWatch = "remove"
  /\ sup' = IF HasReady(g) THEN sup ELSE RemoveSource(sup, g)
  /\ gen' = [gen EXCEPT ![g].readyWatch = "end"]
  /\ UNCHANGED <<tok, tx, caller, scan, used>>

ReadyStops(g) ==
  /\ gen[g].readyWatch = "run"
  /\ Closing
  /\ gen' = [gen EXCEPT ![g].readyWatch = "end"]
  /\ UNCHANGED <<sup, tok, tx, caller, scan, used>>

(* watchGenerationLiveness: a probe of some DC has failed ...              *)
ProbeFails(g) ==
  /\ gen[g].liveWatch = "run"
  /\ gen[g].degraded \/ gen[g].manager # "ready"
  /\ gen' = [gen EXCEPT ![g].liveWatch = "probed"]
  /\ UNCHANGED <<sup, tok, tx, caller, scan, used>>

(* ... and is acted on later: requestSlotRepair, or failGeneration.        *)
ProbeResult(g) ==
  /\ gen[g].liveWatch = "probed"
  /\ gen' = [gen EXCEPT ![g] =
       IF Closing \/ @.intentional THEN [@ EXCEPT !.liveWatch = "end"]
       ELSE IF @.repairable /\ @.manager = "ready"
            THEN IF @.failed THEN [@ EXCEPT !.liveWatch = "end"]
                 ELSE [@ EXCEPT !.liveWatch = "run", !.slotRepairing = TRUE]
            ELSE MarkFailed(@, "liveWatch", "end")]
  /\ UNCHANGED <<sup, tok, tx, caller, scan, used>>

LiveStops(g) ==
  /\ gen[g].liveWatch = "run"
  /\ Closing
  /\ gen' = [gen EXCEPT ![g] = StopLiveness(@)]
  /\ UNCHANGED <<sup, tok, tx, caller, scan, used>>

(* repairGenerationSlots retries until it succeeds or has become pointless. *)
SlotsRepaired(g) ==
  /\ gen[g].slotRepairing
  /\ gen[g].manager = "ready"
  /\ gen' = [gen EXCEPT ![g].slotRepairing = FALSE, ![g].degraded = FALSE]
  /\ UNCHANGED <<sup, tok, tx, caller, scan, used>>

SlotRepairStops(g) ==
  /\ gen[g].slotRepairing
  /\ Closing \/ ~Healthy(g)
  /\ gen' = [gen EXCEPT ![g].slotRepairing = FALSE]
  /\ UNCHANGED <<sup, tok, tx, caller, scan, used>>

(* failGeneration with the mutex, in the watcher w of g.  A failed active  *)
(* takes the retiring role; whoever held that role is closed before repair *)
(* builds another manager.                                                 *)
After(w) == IF w = "readyWatch" THEN "remove" ELSE "end"

FailActive(g, w) ==
  /\ tx = NoTx /\ gen[g][w] = "lock"
  /\ ~Closing /\ sup.active = g
  /\ LET s == Signal([sup EXCEPT !.active = None, !.retiring = g])
         h == sup.retiring
         retired(pc) == [gen EXCEPT ![g] = [RetireRoutine(@) EXCEPT ![w] = pc]]
     IN  \/ /\ h = None
            /\ sup' = RequestRepair(s, FALSE)
            /\ gen' = retired(After(w))
            /\ UNCHANGED <<tok, tx>>
         \/ /\ h # None
            /\ sup' = s
            /\ gen' = BeginClose(retired("join"), h)
            /\ tok' = CloseTokens(h)
            /\ tx' = [NoTx EXCEPT !.op = w, !.at = "join", !.gen = h, !.old = g]
  /\ UNCHANGED <<caller, scan, used>>

(* A failed retiring generation gives its role up and is closed.           *)
FailRetiring(g, w) ==
  /\ tx = NoTx /\ gen[g][w] = "lock"
  /\ ~Closing /\ sup.retiring = g
  /\ sup' = Signal([sup EXCEPT !.retiring = None])
  /\ gen' = BeginClose([gen EXCEPT ![g][w] = "join"], g)
  /\ tok' = CloseTokens(g)
  /\ tx' = [NoTx EXCEPT !.op = w, !.at = "join", !.gen = g, !.old = g]
  /\ UNCHANGED <<caller, scan, used>>

FailUnowned(g, w) ==
  /\ tx = NoTx /\ gen[g][w] = "lock"
  /\ Closing \/ g \notin {sup.active, sup.retiring}
  /\ gen' = [gen EXCEPT ![g][w] = After(w)]
  /\ UNCHANGED <<sup, tok, tx, caller, scan, used>>

(* The end of failGeneration once the closed manager is Done.              *)
FailJoined ==
  /\ tx.at = "join" /\ tx.op # "close"
  /\ Done(tx.gen)
  /\ sup' = RequestRepair(Signal(sup), Healthy(sup.active))
  /\ gen' = [gen EXCEPT ![tx.old][tx.op] = After(tx.op)]
  /\ tx' = NoTx
  /\ UNCHANGED <<tok, caller, scan, used>>

(* The goroutine of retireRoutine closes the manager when it has drained,  *)
(* at DrainTimeout or at shutdown, whichever is first ...                  *)
RetireClose(g) ==
  /\ gen[g].retire = "wait"
  /\ gen' = BeginClose([gen EXCEPT ![g].retire = "join"], g)
  /\ tok' = CloseTokens(g)
  /\ UNCHANGED <<sup, tx, caller, scan, used>>

\* mutant: the retiring role is not given up
RetireJoined_KeepsRole(g) ==
  /\ gen[g].retire = "join"
  /\ Done(g)
  /\ sup' = Signal(sup)
  /\ gen' = [gen EXCEPT ![g].retire = "end"]
  /\ UNCHANGED <<tok, tx, caller, scan, used>>

(* ... and gives the retiring role up once the manager is Done.            *)
RetireJoined(g) ==
  /\ gen[g].retire = "join"
  /\ Done(g)
  /\ sup' = LET s == Signal(sup)
            IN  IF s.retiring = g THEN [s EXCEPT !.retiring = None] ELSE s
  /\ gen' = [gen EXCEPT ![g].retire = "end"]
  /\ UNCHANGED <<tok, tx, caller, scan, used>>

-----------------------------------------------------------------------------
(* Close.                                                                  *)

CloseBegin ==
  /\ sup.close = "open"
  /\ sup' = [sup EXCEPT !.close = "lock", !.closeSources = sup.sources]
  /\ UNCHANGED <<gen, tok, tx, caller, scan, used>>

CloseLock ==
  /\ tx = NoTx /\ sup.close = "lock"
  /\ sup' = [sup EXCEPT !.close = "run"]
  /\ tx' = [NoTx EXCEPT !.op = "close", !.at = "next"]
  /\ UNCHANGED <<gen, tok, caller, scan, used>>

CloseSource ==
  /\ tx.op = "close" /\ tx.at = "next" /\ sup.closeSources # <<>>
  /\ LET g == Head(sup.closeSources)
     IN  /\ gen' = BeginClose(gen, g)
         /\ tok' = CloseTokens(g)
         /\ tx' = [tx EXCEPT !.at = "join", !.gen = g]
  /\ sup' = [sup EXCEPT !.closeSources = Tail(@)]
  /\ UNCHANGED <<caller, scan, used>>

CloseJoined ==
  /\ tx.op = "close" /\ tx.at = "join"
  /\ Done(tx.gen)
  /\ tx' = [tx EXCEPT !.at = "next", !.gen = None]
  /\ UNCHANGED <<sup, gen, tok, caller, scan, used>>

CloseUnlock ==
  /\ tx.op = "close" /\ tx.at = "next" /\ sup.closeSources = <<>>
  /\ tx' = NoTx
  /\ sup' = [sup EXCEPT !.close = "wait"]
  /\ UNCHANGED <<gen, tok, caller, scan, used>>

(* workers.Wait has returned.                                              *)
CloseFinish ==
  /\ sup.close = "wait"
  /\ \A g \in Gens : ~Working(g)
  /\ ~Repairing
  /\ sup' = [sup EXCEPT !.close = "closed", !.active = None, !.retiring = None,
                        !.sources = <<>>]
  /\ UNCHANGED <<gen, tok, tx, caller, scan, used>>

-----------------------------------------------------------------------------
(* Clients and the single consumer of readiness.                           *)

(* BindReady on the active manager, under s.mu.  The frontend starts the   *)
(* consumer with its first client.                                         *)
Bind(b) ==
  /\ tok[b] = NoTok
  /\ ~Closing /\ Healthy(sup.active)
  /\ gen[sup.active].manager = "ready"
  /\ tok' = [tok EXCEPT ![b] = [gen |-> sup.active, at |-> "live"]]
  /\ scan' = IF scan.at = "off" THEN NoScan ELSE scan
  /\ UNCHANGED <<sup, gen, tx, caller, used>>

(* TryNextReady, first part: the snapshot of the sources.  The consumer    *)
(* takes the coalesced signal and then scans until a scan finds nothing.   *)
ScanBegin ==
  /\ scan.at = "idle" /\ sup.ready
  /\ sup' = [sup EXCEPT !.ready = FALSE]
  /\ scan' = IF sup.sources = <<>> THEN NoScan
             ELSE [at |-> "try", rest |-> sup.sources]
  /\ UNCHANGED <<gen, tok, tx, caller, used>>

(* The manager's TryNextReady on the next source leases a token, which the *)
(* owner of the client handles - a terminal one ends the client -, and the *)
(* consumer starts over ...                                                *)
ScanLease(b) ==
  /\ scan.at = "try" /\ tok[b].gen = Head(scan.rest)
  /\ tok[b].at \in {"queued", "terminal"}
  /\ tok' = [tok EXCEPT ![b] = IF @.at = "queued" THEN [@ EXCEPT !.at = "live"] ELSE NoTok]
  /\ scan' = IF sup.sources = <<>> THEN NoScan
             ELSE [at |-> "try", rest |-> sup.sources]
  /\ UNCHANGED <<sup, gen, tx, caller, used>>

(* ... or has nothing queued, in which case the scan goes on to look       *)
(* whether the manager is Done.                                            *)
ScanEmpty ==
  /\ scan.at = "try" /\ ~HasReady(Head(scan.rest))
  /\ scan' = [scan EXCEPT !.at = "done?"]
  /\ UNCHANGED <<sup, gen, tok, tx, caller, used>>

ScanDone ==
  /\ scan.at = "done?"
  /\ sup' = IF Done(Head(scan.rest)) THEN RemoveSource(sup, Head(scan.rest)) ELSE sup
  /\ scan' = IF Len(scan.rest) = 1 THEN NoScan
             ELSE [at |-> "try", rest |-> Tail(scan.rest)]
  /\ UNCHANGED <<gen, tok, tx, caller, used>>

ClientCloses(b) ==
  /\ tok[b].at # "none"
  /\ tok' = [tok EXCEPT ![b] = NoTok]
  /\ UNCHANGED <<sup, gen, tx, caller, scan, used>>

-----------------------------------------------------------------------------
(* The managers.                                                           *)

(* A response makes a client ready.                                        *)
Deliver(b) ==
  /\ tok[b].at = "live" /\ gen[tok[b].gen].manager = "ready"
  /\ tok' = [tok EXCEPT ![b].at = "queued"]
  /\ gen' = [gen EXCEPT ![tok[b].gen].ready = TRUE]
  /\ UNCHANGED <<sup, tx, caller, scan, used>>

(* closeAll: every link and consumer has been joined.                      *)
ManagerDone(g) ==
  /\ gen[g].manager = "closing"
  /\ gen' = [gen EXCEPT ![g].manager = "done"]
  /\ UNCHANGED <<sup, tok, tx, caller, scan, used>>

(* The manager ends by itself when it has exhausted an ID.                 *)
ManagerExhausts(g) ==
  /\ Fault("exhaust")
  /\ gen[g].manager = "ready"
  /\ gen' = [gen EXCEPT ![g] = BeginTerminal(@, g)]
  /\ tok' = TerminalTokens(g)
  /\ UNCHANGED <<sup, tx, caller, scan>>

(* A physical link is lost, so that probes of its DC fail.                 *)
SlotFails(g) ==
  /\ Fault("link")
  /\ gen[g].manager = "ready" /\ ~gen[g].degraded
  /\ gen' = [gen EXCEPT ![g].degraded = TRUE]
  /\ UNCHANGED <<sup, tok, tx, caller, scan>>

-----------------------------------------------------------------------------
(* The goroutines, each a sequential process.                              *)
Watchers == {"readyWatch", "liveWatch"}

(* Whoever holds transitions.                                              *)
Holder ==
  \/ RotateWait \/ RotateCancelled
  \/ Construct \/ ConstructFails \/ Admit \/ AdmitFails
  \/ Publish \/ PublishRefused \/ Discarded \/ RotateRetire
  \/ FailJoined \/ CloseSource \/ CloseJoined \/ CloseUnlock

(* Whoever waits for it in failGeneration.                                 *)
Fail(g, w) == FailActive(g, w) \/ FailRetiring(g, w) \/ FailUnowned(g, w)

ReadyWatch(g) == ReadyForward(g) \/ ReadyDone(g) \/ ReadyRemove(g) \/ ReadyStops(g)

LiveWatch(g) == ProbeFails(g) \/ ProbeResult(g) \/ LiveStops(g)

SlotRepairer(g) == SlotsRepaired(g) \/ SlotRepairStops(g)

Retirer(g) == RetireClose(g) \/ RetireJoined(g)

Scan == ScanBegin \/ ScanEmpty \/ ScanDone \/ \E b \in Bindings : ScanLease(b)

(* Everything but the decisions to start, rotate and close.                *)
Internal ==
  \/ StartLock \/ RepairLock \/ RotateLock \/ CloseLock
  \/ \E g \in Gens, w \in Watchers : Fail(g, w)
  \/ Holder \/ StartRequest \/ RepairTimer \/ CloseFinish \/ Scan
  \/ \E g \in Gens :
       \/ ReadyWatch(g) \/ LiveWatch(g) \/ SlotRepairer(g) \/ Retirer(g)
       \/ ManagerDone(g) \/ ManagerExhausts(g) \/ SlotFails(g)
  \/ \E b \in Bindings : Bind(b) \/ Deliver(b) \/ ClientCloses(b)

(* Any caller may start, rotate, give up and close.                        *)
Next ==
  \/ Internal
  \/ \E f \in Factories, op \in {"start", "rotate"} : Call(op, f, None) /\ Counted
  \/ CancelCall /\ UNCHANGED used
  \/ CallReturns(None) \/ CloseBegin

Spec == Init /\ [][Next]_vars

(* Fairness: every goroutine that can run eventually does, the mutex is    *)
(* starvation-free (sync.Mutex hands it over to a waiter after 1 ms), and  *)
(* a manager that is closing joins its links.                              *)
Fairness ==
  /\ SF_vars(StartLock) /\ SF_vars(RepairLock)
  /\ SF_vars(RotateLock) /\ SF_vars(CloseLock)
  /\ SF_vars(\E g \in Gens, w \in Watchers : Fail(g, w))
  /\ WF_vars(Holder) /\ WF_vars(StartRequest)
  /\ WF_vars(RepairTimer) /\ WF_vars(CloseFinish)
  /\ WF_vars(\E g \in Gens : ReadyWatch(g))
  /\ WF_vars(\E g \in Gens : LiveWatch(g))
  /\ WF_vars(\E g \in Gens : SlotRepairer(g))
  /\ WF_vars(\E g \in Gens : Retirer(g))
  /\ WF_vars(\E g \in Gens : ManagerDone(g))
=============================================================================
