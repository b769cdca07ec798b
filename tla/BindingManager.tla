--------------------------- MODULE BindingManager ---------------------------
(***************************************************************************)
(* The fixed-binding manager of the Telegram Middle-End transport          *)
(* (pkg/transport/middleend/binding_manager.go).  It multiplexes client    *)
(* bindings over a fixed pool of physical links ("slots"): bounded         *)
(* admission, one FIFO of outbound work per slot, bounded response queues, *)
(* a coalesced readiness queue, liveness probes, slot failure, in-place    *)
(* slot repair, and shutdown.                                              *)
(*                                                                         *)
(* The variable m is the fixedBindingManager struct: everything m.mu       *)
(* guards.  Each "...Locked" method of the code is an operator from        *)
(* manager states to manager states, so an action composes them exactly    *)
(* as one critical section does.  Operators that the code calls for one    *)
(* binding or for every binding of a slot take a set of bindings.          *)
(*                                                                         *)
(* A connection ID is a member of Bindings and is never reused.  Byte      *)
(* sizes are abstract units; both control payloads have the same size      *)
(* (constants.go:59,61), so control bytes are control items times CtlSize. *)
(* Wait tickets are represented by the order of the global wait queue.     *)
(***************************************************************************)
EXTENDS Integers, Sequences, FiniteSets, FiniteSetsExt, SequencesExt,
        Queues, UnitSums

CONSTANTS
  NumSlots,        \* physical links, in configuration order
  DCs,             \* signed data-centre identities
  SlotDC,          \* the DC of each slot
  NumBindings,     \* connection IDs that may be allocated
  CtlSize,         \* byte size of a control payload
  Scenarios        \* the environments of a run: see ScenarioOK

Slots    == 1..NumSlots
Bindings == 1..NumBindings

LimitFields == {"resident", "residentPerSlot", "reqItemsPerSlot",
  "reqBytesPerSlot", "reqBytesPerBinding", "reqItems", "reqBytes",
  "ctlItemsPerSlot", "ctlItems", "respItemsPerBinding",
  "respBytesPerBinding", "respItemsPerSlot", "respBytesPerSlot",
  "respItems", "respBytes"}

(* FixedBindingLimits.Validate and validateFixedBindingControlReserve.     *)
LimitsValid(lim) ==
  /\ DOMAIN lim = LimitFields
  /\ \A f \in LimitFields : lim[f] \in Nat \ {0}
  /\ lim.residentPerSlot <= lim.resident
  /\ lim.reqItemsPerSlot <= lim.reqItems
  /\ lim.reqBytesPerBinding <= lim.reqBytesPerSlot
  /\ lim.reqBytesPerSlot <= lim.reqBytes
  /\ lim.ctlItemsPerSlot <= lim.ctlItems
  /\ lim.respItemsPerBinding <= lim.respItemsPerSlot
  /\ lim.respItemsPerSlot <= lim.respItems
  /\ lim.respBytesPerBinding <= lim.respBytesPerSlot
  /\ lim.respBytesPerSlot <= lim.respBytes
  /\ lim.ctlItemsPerSlot >= 2
  /\ lim.ctlItems >= NumSlots + 1

(* A scenario holds the configured limits and what the environment may do. *)
ScenarioOK(x) ==
  /\ LimitsValid(x.lim)                     \* FixedBindingLimits
  /\ x.reqSizes \subseteq Nat \ {0}         \* sizes of proxy requests
  /\ x.oversize \subseteq x.reqSizes        \* sizes no link accepts
  /\ x.eventSizes \subseteq Nat \ {0}       \* sizes of link events
  /\ x.modes \subseteq {"unset", "token"}   \* consumer modes of Bind
  /\ x.calls \subseteq {"quiesce", "close"} \* what the owner calls
  /\ {x.binds,     \* bound: bindings allocated
      x.prepares,  \* bound: requests prepared per binding
      x.events,    \* bound: connection events emitted by the links
      x.probes,    \* bound: probe IDs
      x.losses,    \* bound: spontaneous link losses
      x.repairs,   \* bound: repair passes
      x.full,      \* bound: submissions refused with backpressure
      x.misuse     \* bound: reservations used with the wrong request
     } \subseteq Nat

ASSUME ConstantsAssumption ==
  /\ NumSlots \in Nat \ {0}
  /\ NumBindings \in Nat
  /\ SlotDC \in [Slots -> DCs]
  /\ CtlSize \in Nat \ {0}
  /\ \A x \in Scenarios : ScenarioOK(x)

VARIABLES
  m,          \* fixedBindingManager: all the state m.mu guards
  consumer,   \* consumeSlot goroutine of each slot
  link,       \* ClientLink of each slot (external)
  prober,     \* probeSlot goroutine of each slot
  repairer,   \* repairSlot goroutine of each slot
  pump,       \* the single receiver of the readiness channel
  blocked,    \* bindings whose NextEvent caller waits on notify
  wire,       \* history: what each connection's link accepted, in order
  env         \* the scenario (max), how often the environment has acted,
              \* and the connections the peer closed while in use

vars == <<m, consumer, link, prober, repairer, pump, blocked, wire, env>>

Lim        == env.max.lim
EventSizes == env.max.eventSizes
Modes      == env.max.modes

-----------------------------------------------------------------------------
(* Types                                                                   *)

Errors == {"nil", "slot", "manager", "pressure", "rejected"}
Phases == {"none", "waiting", "reserved", "materializing", "materialized",
           "attempting"}

(* preparedRequest; owned is "binding.request == request".                 *)
NoRequest == [phase |-> "none", size |-> 0, handed |-> FALSE,
              canceled |-> FALSE, owned |-> FALSE]

(* A binding that has not been allocated yet.                              *)
NoBinding == [slot |-> 0, mode |-> "unset", resident |-> FALSE,
              active |-> FALSE, localClosing |-> FALSE,
              remoteClosed |-> FALSE, terminal |-> FALSE, err |-> "nil",
              observed |-> FALSE, closeStarted |-> FALSE, closeSet |-> FALSE,
              closeErr |-> "nil"]

NoProbe == [id |-> 0, submitted |-> FALSE, done |-> TRUE, ok |-> FALSE]

NewSlot == [failed |-> FALSE, reason |-> "none", repairing |-> FALSE,
            out |-> <<>>, attempting |-> FALSE, wake |-> FALSE,
            probe |-> NoProbe]

NoUse == [resident |-> 0, reqItems |-> 0, reqBytes |-> 0, ctlItems |-> 0,
          respItems |-> 0, respBytes |-> 0]

(* A link event routed to a connection: a proxy answer or simple ack       *)
(* ("data"), or the peer's close ("closeExt").                             *)
Events == [kind : {"data", "closeExt"}, size : EventSizes]

Item(kind, b, id) == [kind |-> kind, b |-> b, id |-> id, canceled |-> FALSE]

-----------------------------------------------------------------------------
(* Reading the state                                                       *)

Residents(st)  == {b \in Bindings : st.b[b].resident}
\* mutant: the bindings of every slot
Res_AnySlot(st, s) == Residents(st)
Res(st, s)     == {b \in Residents(st) : st.b[b].slot = s}
Closing(st)    == st.state \in {"closing", "closed"}
IsQueued(st, b)  == b \in Elements(st.readyQ)
SlotOf(st, b)  == st.b[b].slot
BytesOf(q)     == SumOf([i \in 1..Len(q) |-> q[i].size])
Charged(r)     == r.phase \in {"reserved", "materializing", "materialized",
                               "attempting"}

(* bindingHasReadyReasonLocked                                             *)
HasReadyReason(st, b) ==
  \/ /\ st.b[b].mode # "blocking"
     /\ \/ st.queue[b] # <<>>
        \/ st.b[b].terminal /\ ~st.b[b].observed
  \/ st.result[b] # "none"
  \/ /\ st.req[b].owned
     /\ st.req[b].phase = "reserved"
     /\ ~st.req[b].handed

-----------------------------------------------------------------------------
(* Readiness queue                                                         *)

(* enqueueReadyLocked, for every binding of B that has a reason.  Go       *)
(* iterates over maps in no fixed order; SetToSeq stands for one order.    *)
EnqueueReady(st, B) ==
  LET N == {b \in B : /\ ~IsQueued(st, b)
                      /\ ~st.leased[b]
                      /\ HasReadyReason(st, b)}
  IN  [st EXCEPT !.readyQ = @ \o SetToSeq(N),
                 !.readySig = @ \/ N # {}]

(* unlinkReadyLocked: the signal is renewed while the queue is not empty.  *)
UnlinkReady(st, B) ==
  LET U == {b \in B : IsQueued(st, b)}
      Q == Excluding(st.readyQ, U)
  IN  [st EXCEPT !.readyQ = Q,
                 !.readySig = @ \/ (U # {} /\ Q # <<>>)]

(* signalBindingLocked                                                     *)
SignalBinding(st, B) ==
  EnqueueReady([st EXCEPT !.notify = [b \in Bindings |-> @[b] \/ b \in B]], B)

(* invalidateReadyLocked                                                   *)
InvalidateReady(st, B) ==
  [UnlinkReady(st, B) EXCEPT
     !.leased = [b \in Bindings |-> @[b] /\ b \notin B]]

(* refreshReadyLocked                                                      *)
RefreshReady(st, b) ==
  IF st.leased[b] THEN st ELSE EnqueueReady(UnlinkReady(st, {b}), {b})

(* signalSlotLocked: requestWake holds at most one signal.                 *)
SignalSlots(st, S) ==
  [st EXCEPT !.s = [s \in Slots |-> [st.s[s] EXCEPT !.wake = @ \/ s \in S]]]

-----------------------------------------------------------------------------
(* Binding lifecycle                                                       *)

\* mutant: drained is published while bindings are resident
PublishDrained_Early(st) == [st EXCEPT !.drained = @ \/ ~st.accepting]

(* publishDrainedLocked                                                    *)
PublishDrained(st) ==
  [st EXCEPT !.drained = @ \/ (~st.accepting /\ Residents(st) = {})]

(* releaseBindingResidentLocked                                            *)
ReleaseResident(st, B) ==
  LET R == {b \in B : st.b[b].resident}
      left(s) == Cardinality({b \in R : SlotOf(st, b) = s})
  IN  IF R = {} THEN st
      ELSE PublishDrained(
        [st EXCEPT
          !.b = [b \in Bindings |->
             IF b \in R THEN [@[b] EXCEPT !.resident = FALSE] ELSE @[b]],
          !.use = [s \in Slots |-> [st.use[s] EXCEPT !.resident = @ - left(s)]],
          !.all.resident = @ - Cardinality(R)])

(* releaseTerminalBindingLocked                                            *)
ReleaseTerminal(st, B) ==
  ReleaseResident(st, {b \in B :
    /\ st.b[b].terminal
    /\ st.queue[b] = <<>>
    /\ ~st.req[b].owned
    /\ st.result[b] = "none"
    /\ ~IsQueued(st, b)
    /\ ~st.leased[b]
    /\ st.b[b].observed \/ st.b[b].closeSet})

(* detachActiveBindingLocked                                               *)
DetachActive(st, B) ==
  [st EXCEPT !.b = [b \in Bindings |->
     IF b \in B THEN [@[b] EXCEPT !.active = FALSE] ELSE @[b]]]

(* The first error is kept.                                                *)
FirstError(old, err) == IF old = "nil" THEN err ELSE old

(* A binding that ends with err, or with the error it already has.         *)
Ended(r, err) == [r EXCEPT !.terminal = TRUE, !.err = FirstError(@, err)]

\* mutant: a later error replaces the first
PublishTerminal_Last(st, B, err) ==
  SignalBinding(
    [st EXCEPT !.b = [b \in Bindings |->
       IF b \in B THEN [@[b] EXCEPT !.terminal = TRUE, !.err = err]
       ELSE @[b]]],
    B)

(* publishBindingTerminalLocked                                            *)
PublishTerminal(st, B, err) ==
  SignalBinding(
    [st EXCEPT !.b = [b \in Bindings |->
       IF b \in B THEN Ended(@[b], err) ELSE @[b]]],
    B)

(* publishBindingCloseLocked: the first result is kept.                    *)
PublishClose(st, B, err) ==
  [st EXCEPT !.b = [b \in Bindings |->
     IF b \in B /\ ~@[b].closeSet
     THEN [@[b] EXCEPT !.closeSet = TRUE, !.closeErr = err]
     ELSE @[b]]]

(* binding.terminalObserved = true; invalidateReadyLocked(binding)         *)
ObserveTerminal(st, B) ==
  InvalidateReady(
    [st EXCEPT !.b = [b \in Bindings |->
       IF b \in B THEN [@[b] EXCEPT !.observed = TRUE] ELSE @[b]]],
    B)

(* The tail shared by every close that completes at once:                  *)
(* publishBindingTerminalLocked, publishBindingCloseLocked,                *)
(* terminalObserved, invalidateReadyLocked, releaseTerminalBindingLocked.  *)
FinishClose(st, b, err) ==
  ReleaseTerminal(
    ObserveTerminal(
      PublishClose(PublishTerminal(st, {b}, err), {b}, err), {b}), {b})

\* mutant: the response charge is kept
ClearQueue_KeepsCharge(st, B) ==
  [st EXCEPT !.queue = [b \in Bindings |-> IF b \in B THEN <<>> ELSE @[b]]]

(* clearBindingQueueLocked                                                 *)
ClearQueue(st, B) ==
  LET on(s)      == {b \in B : SlotOf(st, b) = s}
      items(C)   == SumOf([b \in C |-> Len(st.queue[b])])
      bytes(C)   == SumOf([b \in C |-> BytesOf(st.queue[b])])
  IN  [st EXCEPT
        !.queue = [b \in Bindings |-> IF b \in B THEN <<>> ELSE @[b]],
        !.use = [s \in Slots |->
                   [st.use[s] EXCEPT !.respItems = @ - items(on(s)),
                                     !.respBytes = @ - bytes(on(s))]],
        !.all.respItems = @ - items(B),
        !.all.respBytes = @ - bytes(B)]

DropResult(st, B) ==
  [st EXCEPT !.result = [b \in Bindings |->
                           IF b \in B THEN "none" ELSE @[b]]]

-----------------------------------------------------------------------------
(* Outbound FIFO and request capacity                                      *)

(* The items of a slot's FIFO.                                             *)
ItemsOf(st, s) == Elements(st.s[s].out)

AppendOut(st, s, item) == [st EXCEPT !.s[s].out = Append(@, item)]

(* removeOutboundLocked for the requests of B; a slot that loses its head  *)
(* is signalled.                                                           *)
RemoveRequests(st, B) ==
  LET gone(s) == {i \in ItemsOf(st, s) : i.kind = "req" /\ i.b \in B}
      kept(s) == Excluding(st.s[s].out, gone(s))
  IN  SignalSlots(
        [st EXCEPT !.s = [s \in Slots |-> [@[s] EXCEPT !.out = kept(s)]]],
        {s \in Slots : st.s[s].out # <<>> /\ st.s[s].out[1] \in gone(s)})

(* hasWaitersLocked                                                        *)
HasWaiters(st) == st.waitQ # <<>>

(* The per-slot half of canReserveRequestLocked and promoteRequestsLocked. *)
SlotRoom(st, s, size) ==
  /\ st.use[s].reqItems < Lim.reqItemsPerSlot
  /\ size <= Lim.reqBytesPerSlot - st.use[s].reqBytes

(* The global half.                                                        *)
GlobalRoom(st, size) ==
  /\ st.all.reqItems < Lim.reqItems
  /\ size <= Lim.reqBytes - st.all.reqBytes

(* canReserveRequestLocked                                                 *)
CanReserve(st, s, size) == SlotRoom(st, s, size) /\ GlobalRoom(st, size)

ChargeRequest(st, b, n) ==
  LET s == SlotOf(st, b)
  IN  [st EXCEPT !.use[s].reqItems = @ + n,
                 !.use[s].reqBytes = @ + n * st.req[b].size,
                 !.all.reqItems = @ + n,
                 !.all.reqBytes = @ + n * st.req[b].size]

(* reserveRequestLocked                                                    *)
Reserve(st, b) ==
  [ChargeRequest(st, b, 1) EXCEPT !.req[b].phase = "reserved"]

(* releaseRequestChargeLocked                                              *)
ReleaseCharge(st, b) ==
  IF Charged(st.req[b]) THEN ChargeRequest(st, b, -1) ELSE st

(* The wait-queue heads whose slot has room: slot.waitHead of each slot.   *)
Candidates(st) ==
  {i \in DOMAIN st.waitQ :
     LET b == st.waitQ[i] IN
     /\ \A j \in 1..(i-1) : SlotOf(st, st.waitQ[j]) # SlotOf(st, b)
     /\ SlotRoom(st, SlotOf(st, b), st.req[b].size)}

(* One iteration of promoteRequestsLocked: the oldest candidate is         *)
(* reserved, or nothing is when the oldest does not fit globally.          *)
PromoteOne(st) ==
  LET C == Candidates(st)
      i == Min(C)
      b == st.waitQ[i]
  IN  IF C = {} THEN st
      ELSE IF ~GlobalRoom(st, st.req[b].size) THEN st
      ELSE SignalBinding(
             Reserve([st EXCEPT !.waitQ = Excluding(@, {b})], b), {b})

(* The state after the iterations of promoteRequestsLocked; p[n] holds the *)
(* one state after n of them.                                              *)
Promoted(st) ==
  LET p[n \in 0..Len(st.waitQ)] ==
        IF n = 0 THEN {st} ELSE {PromoteOne(q) : q \in p[n-1]}
  IN  CHOOSE q \in p[Len(st.waitQ)] : TRUE

\* mutant: released capacity is offered to nobody
Promote_Never(st) == st

(* promoteRequestsLocked, with the frame of the loop.                      *)
Promote(st) ==
  LET r == Promoted(st)
  IN  IF st.state # "ready" \/ st.waitQ = <<>> THEN st
      ELSE [st EXCEPT !.waitQ = r.waitQ, !.req = r.req, !.use = r.use,
                      !.all = r.all, !.readyQ = r.readyQ,
                      !.readySig = r.readySig, !.notify = r.notify]

(* cancelRequestLocked.  A request that is being materialized or           *)
(* submitted is only disowned; its goroutine releases it.                  *)
CancelRequest(st, B) ==
  LET live     == {b \in B : st.req[b].phase # "none" /\ ~st.req[b].canceled}
      inFlight == {b \in live :
                     st.req[b].phase \in {"materializing", "attempting"}}
      now      == live \ inFlight
      paid     == {b \in now : Charged(st.req[b])}
      on(s)    == {b \in paid : SlotOf(st, b) = s}
      bytes(C) == SumOf([b \in C |-> st.req[b].size])
      st1 == [st EXCEPT
        !.req = [b \in Bindings |->
                   IF b \in now THEN NoRequest
                   ELSE IF b \in inFlight
                        THEN [@[b] EXCEPT !.canceled = TRUE, !.owned = FALSE]
                        ELSE @[b]],
        !.waitQ = Excluding(@, now),
        !.use = [s \in Slots |->
                   [st.use[s] EXCEPT !.reqItems = @ - Cardinality(on(s)),
                                     !.reqBytes = @ - bytes(on(s))]],
        !.all.reqItems = @ - Cardinality(paid),
        !.all.reqBytes = @ - bytes(paid)]
  IN  IF now = {} THEN st1
      ELSE Promote(RemoveRequests(st1, now))

-----------------------------------------------------------------------------
(* Control work                                                            *)

AddControl(st, s, n) == [st EXCEPT !.use[s].ctlItems = @ + n,
                                   !.all.ctlItems = @ + n]

(* The backpressure test of queueControlLocked: one probe per slot stays   *)
(* reserved.                                                               *)
ControlFull(st, s) ==
  \/ st.use[s].ctlItems >= Lim.ctlItemsPerSlot - 1
  \/ st.all.ctlItems >= Lim.ctlItems - NumSlots

\* mutant: control work overtakes queued requests
PutControl_Urgent(st, s, item) ==
  SignalSlots(AddControl([st EXCEPT !.s[s].out = <<item>> \o @], s, 1), {s})

(* Appending a control item signals the slot when it was idle.             *)
PutControl(st, s, item) ==
  SignalSlots(AddControl(AppendOut(st, s, item), s, 1),
              IF st.s[s].out = <<>> THEN {s} ELSE {})

(* queueControlLocked; under backpressure the close is dropped.  kind is   *)
(* "close" for a local close and "reap" for a close without a binding.     *)
QueueControl(st, s, kind, b) ==
  IF ControlFull(st, s) THEN st ELSE PutControl(st, s, Item(kind, b, 0))

(* The control items G[s] of each slot s of S leave their FIFO and give    *)
(* their charge back; an item being submitted is only marked.              *)
CancelControls(st, S, G) ==
  LET out(s)  == st.s[s].out
      busy(s) == st.s[s].attempting
      mark(s) == [Head(out(s)) EXCEPT !.canceled = @ \/ Head(out(s)) \in G[s]]
      rest(s) == Excluding(IF busy(s) THEN Tail(out(s)) ELSE out(s), G[s])
      kept(s) == IF s \notin S THEN out(s)
                 ELSE IF busy(s) THEN <<mark(s)>> \o rest(s) ELSE rest(s)
      lost(s) == Len(out(s)) - Len(kept(s))
  IN  SignalSlots(
        [st EXCEPT
          !.s = [s \in Slots |-> [@[s] EXCEPT !.out = kept(s)]],
          !.use = [s \in Slots |-> [st.use[s] EXCEPT !.ctlItems = @ - lost(s)]],
          !.all.ctlItems = @ - SumOf([s \in Slots |-> lost(s)])],
        {s \in S : ~busy(s) /\ out(s) # <<>> /\ out(s)[1] \in G[s]})

(* completeProbeLocked, for the pending probe of each slot of S.           *)
CompleteProbe(st, S, ok) ==
  LET P == {s \in S : ~st.s[s].probe.done}
  IN  CancelControls(
        [st EXCEPT !.s = [s \in Slots |->
           IF s \in P
           THEN [@[s] EXCEPT !.probe.done = TRUE, !.probe.ok = ok]
           ELSE @[s]]],
        P, [s \in Slots |-> {i \in ItemsOf(st, s) :
               i.kind = "probe" /\ i.id = st.s[s].probe.id}])

(* cancelBindingControlsLocked                                             *)
CancelBindingControls(st, b) ==
  CancelControls(st, {SlotOf(st, b)}, [s \in Slots |->
    {i \in ItemsOf(st, s) : i.kind = "close" /\ i.b = b}])

(* cancelSlotOutboundLocked.  Between two cancellations the code may       *)
(* promote a waiter of the same slot; its own cancellation undoes that.    *)
CancelSlotOutbound(st, S) ==
  LET queued(s) == {i.b : i \in {j \in ItemsOf(st, s) : j.kind = "req"}}
      st1 == CompleteProbe(st, S, FALSE)
  IN  CancelRequest(
        CancelControls(st1, S, [s \in Slots |->
          {i \in ItemsOf(st1, s) : i.kind # "req"}]),
        UNION {queued(s) : s \in S})

-----------------------------------------------------------------------------
(* Whole-manager transitions                                               *)

(* terminalizeBinding                                                      *)
Terminalize(st, b, err) ==
  LET st1 == PublishTerminal(CancelRequest(DetachActive(st, {b}), {b}),
                             {b}, err)
      st2 == IF st.b[b].closeStarted
             THEN ObserveTerminal(PublishClose(st1, {b}, err), {b})
             ELSE st1
  IN  IF st.b[b].resident THEN ReleaseTerminal(st2, {b}) ELSE st

(* The part of failSlot that m.mu covers once the manager is ready.        *)
FailReadySlot(st, s, reason) ==
  LET F   == {b \in Res(st, s) : ~st.b[b].remoteClosed}
      C   == {b \in F : st.b[b].closeStarted}
      st1 == CancelSlotOutbound(
               [st EXCEPT !.s[s].failed = TRUE, !.s[s].reason = reason], {s})
      st2 == PublishTerminal(DetachActive(st1, F), F, "slot")
  IN  ReleaseTerminal(ObserveTerminal(PublishClose(st2, C, "slot"), C), F)

(* beginTerminal: every resident binding ends with its own error or the    *)
(* manager's.  releaseManagerClosedBindingLocked leaves the terminal token *)
(* of a token consumer available.                                          *)
ManagerClosing(st, err) ==
  LET R   == Residents(st)
      st1 == CancelSlotOutbound(
               [st EXCEPT !.state = "closing",
                          !.err = FirstError(@, err)], Slots)
      st2 == CancelRequest(
               InvalidateReady(
                 DropResult(ClearQueue(DetachActive(st1, R), R), R), R), R)
      st3 == PublishTerminal(st2, R, st1.err)
      st4 == [st3 EXCEPT !.b = [b \in Bindings |->
                IF b \in R /\ ~@[b].closeSet
                THEN [@[b] EXCEPT !.closeSet = TRUE, !.closeErr = st3.b[b].err]
                ELSE @[b]]]
  IN  ReleaseResident(
        ObserveTerminal(st4, {b \in R : st.b[b].mode # "token"}), R)

(* beginTerminal starts the consumers that Start has not started.          *)
StartConsumers == [s \in Slots |-> IF consumer[s].pc = "none"
                                   THEN [consumer[s] EXCEPT !.pc = "select"]
                                   ELSE consumer[s]]

-----------------------------------------------------------------------------
(* Initial state: newFixedBindingManager                                   *)

Init ==
  /\ m = [state |-> "created", accepting |-> TRUE, drained |-> FALSE,
          err |-> "nil", nextID |-> 1, probeID |-> 0,
          bindNext |-> [d \in DCs |-> 0],
          readyQ |-> <<>>, readySig |-> FALSE, waitQ |-> <<>>,
          use |-> [s \in Slots |-> NoUse], all |-> NoUse,
          s |-> [s \in Slots |-> NewSlot],
          b |-> [b \in Bindings |-> NoBinding],
          req |-> [b \in Bindings |-> NoRequest],
          queue |-> [b \in Bindings |-> <<>>],
          result |-> [b \in Bindings |-> "none"],
          leased |-> [b \in Bindings |-> FALSE],
          notify |-> [b \in Bindings |-> FALSE]]
  /\ consumer = [s \in Slots |-> [pc |-> "none", reason |-> "none"]]
  /\ link = [s \in Slots |-> [up |-> TRUE, owes |-> FALSE, sig |-> FALSE]]
  /\ prober = [s \in Slots |-> "idle"]
  /\ repairer = [s \in Slots |-> "idle"]
  /\ pump = "wait"
  /\ blocked = {}
  /\ wire = [b \in Bindings |-> <<>>]
  /\ \E x \in Scenarios : env =
           [prepares |-> [b \in Bindings |-> 0], events |-> 0, losses |-> 0,
            repairs |-> 0, full |-> 0, misuse |-> 0,
            max |-> x]

Allocated(b) == b < m.nextID
Ready        == m.state = "ready"

-----------------------------------------------------------------------------
(* Manager lifecycle                                                       *)

(* start and ensureConsumers                                               *)
Start ==
  /\ m.state = "created"
  /\ m' = [m EXCEPT !.state = "starting"]
  /\ consumer' = StartConsumers
  /\ UNCHANGED <<link, prober, repairer, pump, blocked, wire, env>>

(* startFirst, after every link.Start has returned nil.                    *)
StartSucceeds ==
  /\ m.state = "starting"
  /\ m' = [m EXCEPT !.state = "ready"]
  /\ UNCHANGED <<consumer, link, prober, repairer, pump, blocked, wire, env>>

\* mutant: the consumers of a manager that was never started stay unstarted
BeginTerminal_NoConsumers(err) ==
  /\ ~Closing(m)
  /\ IF err = "initial" THEN m.state = "starting" ELSE "close" \in env.max.calls
  /\ m' = ManagerClosing(m, err)
  /\ UNCHANGED <<consumer, link, prober, repairer, pump, blocked, wire, env>>

(* beginTerminal, from Close or (err = "initial") from a link.Start error. *)
BeginTerminal(err) ==
  /\ ~Closing(m)
  /\ IF err = "initial" THEN m.state = "starting" ELSE "close" \in env.max.calls
  /\ m' = ManagerClosing(m, err)
  /\ consumer' = StartConsumers
  /\ UNCHANGED <<link, prober, repairer, pump, blocked, wire, env>>

(* Quiesce                                                                 *)
Quiesce ==
  /\ m.accepting /\ "quiesce" \in env.max.calls
  /\ m' = PublishDrained([m EXCEPT !.accepting = FALSE])
  /\ UNCHANGED <<consumer, link, prober, repairer, pump, blocked, wire, env>>

(* m.operations is zero: no materialization, submission or repair.         *)
NoOperations ==
  /\ \A b \in Bindings : m.req[b].phase # "materializing"
  /\ \A s \in Slots : ~m.s[s].attempting /\ repairer[s] = "idle"

(* closeAll, up to consumers.Wait                                          *)
CloseLinks ==
  /\ m.state = "closing"
  /\ NoOperations
  /\ \E s \in Slots : link[s].up
  /\ link' = [s \in Slots |-> [link[s] EXCEPT !.up = FALSE]]
  /\ UNCHANGED <<m, consumer, prober, repairer, pump, blocked, wire, env>>

(* closeAll, after consumers.Wait                                          *)
CloseFinishes ==
  /\ m.state = "closing"
  /\ NoOperations
  /\ \A s \in Slots : ~link[s].up /\ consumer[s].pc = "done"
  /\ m' = [m EXCEPT
        !.state = "closed",
        !.use = [s \in Slots |-> [@[s] EXCEPT !.reqItems = 0, !.reqBytes = 0,
                                              !.ctlItems = 0]],
        !.all = [NoUse EXCEPT !.resident = m.all.resident]]
  /\ UNCHANGED <<consumer, link, prober, repairer, pump, blocked, wire, env>>

-----------------------------------------------------------------------------
(* Admission                                                               *)

(* The slots of a DC, in configuration order: m.slotGroups[dc].            *)
Group(d) == Excluding([s \in Slots |-> s], {s \in Slots : SlotDC[s] # d})

Items(st, s) == st.use[s].reqItems + st.use[s].ctlItems + st.use[s].respItems
Bytes(st, s) == st.use[s].reqBytes + CtlSize * st.use[s].ctlItems
                  + st.use[s].respBytes

(* lessLoadedFixedBindingSlot                                              *)
LessLoaded(st, x, y) ==
  \/ st.use[x].resident < st.use[y].resident
  \/ /\ st.use[x].resident = st.use[y].resident
     /\ \/ Items(st, x) < Items(st, y)
        \/ Items(st, x) = Items(st, y) /\ Bytes(st, x) < Bytes(st, y)

(* selectBindingSlotLocked: the positions of g that the scan starting at   *)
(* bindNext may select; the first least-loaded eligible one.               *)
Selected(st, d, g) ==
  LET eligible == {i \in DOMAIN g :
                     /\ ~st.s[g[i]].failed
                     /\ st.use[g[i]].resident < Lim.residentPerSlot}
      offset(i) == (i - 1 - st.bindNext[d] + Len(g)) % Len(g)
  IN  {i \in eligible : \A j \in eligible \ {i} :
         /\ ~LessLoaded(st, g[j], g[i])
         /\ LessLoaded(st, g[i], g[j]) \/ offset(i) < offset(j)}

(* bind.  Every rejection leaves the state alone.                          *)
Bind(d, mode) ==
  LET b == m.nextID
      g == Group(d)
  IN  /\ Ready
      /\ m.accepting
      /\ b \in Bindings /\ b <= env.max.binds
      /\ m.all.resident < Lim.resident
      /\ \E i \in Selected(m, d, g) :
           m' = [m EXCEPT
                   !.nextID = b + 1,
                   !.bindNext[d] = i % Len(g),
                   !.b[b] = [NoBinding EXCEPT !.slot = g[i], !.mode = mode,
                                              !.resident = TRUE,
                                              !.active = TRUE],
                   !.use[g[i]].resident = @ + 1,
                   !.all.resident = @ + 1]
      /\ UNCHANGED <<consumer, link, prober, repairer, pump, blocked, wire,
                     env>>

-----------------------------------------------------------------------------
(* Requests                                                                *)

(* prepareProxyRequest.  A request at the head of an idle FIFO is charged  *)
(* and materialized at once; any other one waits for its reservation.      *)
PrepareProxyRequest(b, size) ==
  LET s    == SlotOf(m, b)
      st   == [AppendOut(m, s, Item("req", b, 0)) EXCEPT
                 !.req[b] = [NoRequest EXCEPT !.size = size, !.owned = TRUE]]
      fast == m.s[s].out = <<>> /\ ~HasWaiters(m) /\ CanReserve(m, s, size)
  IN  /\ Ready
      /\ m.b[b].active
      /\ ~m.s[s].failed
      /\ ~m.req[b].owned
      /\ m.result[b] = "none"
      /\ size <= Lim.reqBytesPerBinding
      /\ env.prepares[b] < env.max.prepares
      /\ m' = IF fast
              THEN [Reserve(st, b) EXCEPT !.req[b].phase = "materializing"]
              ELSE Promote([st EXCEPT !.req[b].phase = "waiting",
                                      !.waitQ = Append(@, b)])
      /\ env' = [env EXCEPT !.prepares[b] = @ + 1]
      /\ UNCHANGED <<consumer, link, prober, repairer, pump, blocked, wire>>

(* finishMaterializationFailureLocked                                      *)
MaterializationFailed(st, b) ==
  Promote(RemoveRequests(
    [ReleaseCharge(st, b) EXCEPT !.req[b] = NoRequest], {b}))

(* The end of materializePreparedRequest.  While the request was being     *)
(* encoded without the lock, the binding may have been terminated.         *)
FinishMaterialization(b) ==
  LET s == SlotOf(m, b)
      ok == Ready /\ m.req[b].owned /\ ~m.req[b].canceled
  IN  /\ m.req[b].phase = "materializing"
      /\ m' = IF ok
              THEN SignalSlots(
                     [m EXCEPT !.req[b].phase = "materialized",
                               !.req[b].handed = TRUE],
                     IF m.s[s].out[1].kind = "req" /\ m.s[s].out[1].b = b
                     THEN {s} ELSE {})
              ELSE MaterializationFailed(m, b)
      /\ UNCHANGED <<consumer, link, prober, repairer, pump, blocked, wire,
                     env>>

(* PrepareReservedProxyRequest with the reserved request.                  *)
PrepareReserved(b) ==
  /\ m.req[b].owned /\ m.req[b].phase = "reserved" /\ m.req[b].handed
  /\ m' = [m EXCEPT !.req[b].phase = "materializing"]
  /\ UNCHANGED <<consumer, link, prober, repairer, pump, blocked, wire, env>>

(* PrepareReservedProxyRequest with a stale reservation or a request that  *)
(* does not match: the binding is retired.                                 *)
PrepareMismatch(b) ==
  LET st == IF m.req[b].owned /\ m.req[b].phase = "reserved"
            THEN CancelRequest(m, {b}) ELSE m
  IN  /\ Allocated(b)
      /\ env.misuse < env.max.misuse
      /\ m' = Terminalize(st, b, "rejected")
      /\ env' = [env EXCEPT !.misuse = @ + 1]
      /\ UNCHANGED <<consumer, link, prober, repairer, pump, blocked, wire>>

(* PrepareReservedProxyRequest of another binding with b's reservation.    *)
PrepareForeign(b) ==
  /\ m.req[b].owned /\ m.req[b].phase = "reserved" /\ m.req[b].handed
  /\ env.misuse < env.max.misuse
  /\ m' = ReleaseTerminal(
            PublishTerminal(DetachActive(CancelRequest(m, {b}), {b}),
                            {b}, "rejected"), {b})
  /\ env' = [env EXCEPT !.misuse = @ + 1]
  /\ UNCHANGED <<consumer, link, prober, repairer, pump, blocked, wire>>

-----------------------------------------------------------------------------
(* Readiness tokens                                                        *)

(* The receiver of Ready() takes the coalesced signal, then calls          *)
(* TryNextReady until it returns nil.                                      *)
ReceiveReady ==
  /\ pump = "wait" /\ m.readySig
  /\ pump' = "drain"
  /\ m' = [m EXCEPT !.readySig = FALSE]
  /\ UNCHANGED <<consumer, link, prober, repairer, blocked, wire, env>>

(* TryNextReady                                                            *)
TryNextReady ==
  /\ pump = "drain"
  /\ IF m.readyQ = <<>>
     THEN pump' = "wait" /\ UNCHANGED m
     ELSE LET b == Head(m.readyQ)
          IN  /\ m' = [UnlinkReady(m, {b}) EXCEPT !.leased[b] = TRUE]
              /\ UNCHANGED pump
  /\ UNCHANGED <<consumer, link, prober, repairer, blocked, wire, env>>

(* TryTakePrepareReservation                                               *)
TakeReservation(b) ==
  /\ m.leased[b]
  /\ m.req[b].owned /\ m.req[b].phase = "reserved" /\ ~m.req[b].handed
  /\ m' = [m EXCEPT !.req[b].handed = TRUE]
  /\ UNCHANGED <<consumer, link, prober, repairer, pump, blocked, wire, env>>

(* TryTakeRequestResult                                                    *)
TakeResult(b) ==
  /\ m.leased[b]
  /\ m.result[b] # "none"
  /\ m' = ReleaseTerminal(DropResult(m, {b}), {b})
  /\ UNCHANGED <<consumer, link, prober, repairer, pump, blocked, wire, env>>

(* popBindingEventLocked                                                   *)
PopEvent(st, b) ==
  LET e == Head(st.queue[b])
      s == SlotOf(st, b)
  IN  ReleaseTerminal(
        [st EXCEPT !.queue[b] = Tail(@),
                   !.use[s].respItems = @ - 1,
                   !.use[s].respBytes = @ - e.size,
                   !.all.respItems = @ - 1,
                   !.all.respBytes = @ - e.size], {b})

(* ClientReadyToken.TryNextEvent                                           *)
TryNextEvent(b) ==
  LET st == [m EXCEPT !.b[b].mode = "token"]
  IN  /\ m.leased[b]
      /\ m.b[b].mode # "blocking"
      /\ m' = IF m.queue[b] = <<>> THEN st ELSE PopEvent(st, b)
      /\ UNCHANGED <<consumer, link, prober, repairer, pump, blocked, wire,
                     env>>

(* TryTerminal: only after every earlier reason was consumed.              *)
TryTerminal(b) ==
  /\ m.leased[b]
  /\ m.b[b].terminal
  /\ m.queue[b] = <<>> /\ m.result[b] = "none" /\ ~m.req[b].owned
  /\ m' = ReleaseTerminal([m EXCEPT !.b[b].observed = TRUE], {b})
  /\ UNCHANGED <<consumer, link, prober, repairer, pump, blocked, wire, env>>

\* mutant: the remaining reasons are forgotten
Ack_NoRequeue(b) ==
  /\ m.leased[b]
  /\ m' = ReleaseTerminal([m EXCEPT !.leased[b] = FALSE], {b})
  /\ UNCHANGED <<consumer, link, prober, repairer, pump, blocked, wire, env>>

(* Ack                                                                     *)
Ack(b) ==
  /\ m.leased[b]
  /\ m' = ReleaseTerminal(EnqueueReady([m EXCEPT !.leased[b] = FALSE], {b}),
                          {b})
  /\ UNCHANGED <<consumer, link, prober, repairer, pump, blocked, wire, env>>

-----------------------------------------------------------------------------
(* Blocking consumption and local close                                    *)

(* One iteration of nextEvent.                                             *)
NextEvent(b) ==
  LET st == IF m.b[b].mode = "unset"
            THEN RefreshReady([m EXCEPT !.b[b].mode = "blocking"], b)
            ELSE m
  IN  /\ Allocated(b)
      /\ m.b[b].mode # "token"
      /\ b \notin blocked
      /\ IF st.queue[b] # <<>>
         THEN m' = PopEvent(st, b) /\ UNCHANGED blocked
         ELSE IF st.b[b].terminal
         THEN /\ m' = ReleaseTerminal([st EXCEPT !.b[b].observed = TRUE], {b})
              /\ UNCHANGED blocked
         ELSE m' = st /\ blocked' = blocked \cup {b}
      /\ UNCHANGED <<consumer, link, prober, repairer, pump, wire, env>>

(* The notify case of nextEvent's select.                                  *)
Notified(b) ==
  /\ b \in blocked
  /\ m.notify[b]
  /\ m' = [m EXCEPT !.notify[b] = FALSE]
  /\ blocked' = blocked \ {b}
  /\ UNCHANGED <<consumer, link, prober, repairer, pump, wire, env>>

(* The error beginClose reports when the binding cannot close in order.    *)
WorkError(st, b) ==
  IF st.b[b].err # "nil" THEN st.b[b].err
  ELSE IF st.s[SlotOf(st, b)].failed THEN "slot" ELSE st.err

(* beginClose                                                              *)
BeginClose(b) ==
  LET s   == SlotOf(m, b)
      st1 == InvalidateReady(
               DropResult(
                 ClearQueue(
                   DetachActive([m EXCEPT !.b[b].closeStarted = TRUE,
                                          !.b[b].localClosing = TRUE], {b}),
                   {b}), {b}), {b})
      st2 == IF m.req[b].owned /\ m.req[b].phase \in {"waiting", "reserved"}
             THEN CancelRequest(st1, {b}) ELSE st1
  IN  /\ Allocated(b)
      /\ ~m.b[b].closeStarted
      /\ m' = IF m.b[b].remoteClosed THEN FinishClose(st2, b, "nil")
              ELSE IF m.b[b].terminal \/ m.s[s].failed \/ ~Ready
              THEN FinishClose(st2, b, WorkError(st2, b))
              ELSE IF ControlFull(st2, s) THEN FinishClose(st2, b, "nil")
              ELSE QueueControl(st2, s, "close", b)
      /\ UNCHANGED <<consumer, link, prober, repairer, pump, blocked, wire,
                     env>>

-----------------------------------------------------------------------------
(* Slot failure                                                            *)

(* failSlot, called by a goroutine of slot s.  In a manager that is still  *)
(* starting, losing a link is an initial failure: failSlot goes on to      *)
(* beginTerminal, modelled as the same step.                               *)
FailSlot(s, reason) ==
  IF m.s[s].failed \/ Closing(m) THEN UNCHANGED <<m, link>>
  ELSE IF m.state = "starting"
  THEN /\ m' = ManagerClosing(
                [m EXCEPT !.s[s].failed = TRUE, !.s[s].reason = reason],
                "initial")
       /\ UNCHANGED link
  ELSE /\ m' = FailReadySlot(m, s, reason)
       /\ link' = [link EXCEPT ![s].up = FALSE]

-----------------------------------------------------------------------------
(* The consumer of a slot: consumeSlot                                     *)

Goto(s, pc, reason) ==
  consumer' = [consumer EXCEPT ![s] = [pc |-> pc, reason |-> reason]]

(* The head of the FIFO may be submitted: the tests of dispatchSlotOnce.   *)
Dispatchable(st, s) ==
  LET i == Head(st.s[s].out)
  IN  /\ st.state = "ready" /\ ~st.s[s].failed
      /\ st.s[s].out # <<>> /\ ~st.s[s].attempting
      /\ i.kind = "req" => st.req[i.b].phase = "materialized"

(* The select cases for requestWake and the link's capacity signal, up to  *)
(* the call of TrySubmit in dispatchSlotOnce.                              *)
Dispatch(s) ==
  LET i == Head(m.s[s].out)
      attempt(st) ==
        LET st1 == [st EXCEPT !.s[s].attempting = TRUE]
        IN  IF i.kind = "req"
            THEN [st1 EXCEPT !.req[i.b].phase = "attempting"] ELSE st1
      begin(st) == IF Dispatchable(st, s) THEN attempt(st) ELSE st
  IN  /\ consumer[s].pc = "select"
      /\ \/ /\ m.s[s].wake
            /\ m' = begin([m EXCEPT !.s[s].wake = FALSE])
            /\ UNCHANGED link
         \/ /\ link[s].sig
            /\ m' = begin(m)
            /\ link' = [link EXCEPT ![s].sig = FALSE]
      /\ IF Dispatchable(m, s) THEN Goto(s, "attempt", "none")
         ELSE UNCHANGED consumer
      /\ UNCHANGED <<prober, repairer, pump, blocked, wire, env>>

PopOut(st, s) == [st EXCEPT !.s[s].out = Tail(@)]

(* finishRequestAttemptLocked                                              *)
FinishRequest(st, s, b, outcome) ==
  LET r    == st.req[b]
      done == [ReleaseCharge(PopOut(st, s), b) EXCEPT !.req[b] = NoRequest]
      live == ~r.canceled /\ st.state = "ready" /\ ~st.b[b].localClosing
                /\ ~st.b[b].terminal
      rejected == IF st.b[b].localClosing THEN done
                  ELSE [done EXCEPT !.result[b] = "rejected"]
      after == IF outcome = "ok"
               THEN IF live
                    THEN SignalBinding([done EXCEPT !.result[b] = "accepted"],
                                       {b})
                    ELSE done
               ELSE IF outcome = "toolarge" /\ ~r.canceled
               THEN PublishTerminal(DetachActive(rejected, {b}), {b},
                                    "rejected")
               ELSE done
  IN  IF outcome = "full" /\ ~r.canceled /\ st.state = "ready"
      THEN [st EXCEPT !.req[b].phase = "materialized"]
      ELSE SignalSlots(Promote(after), {s})

\* mutant: an accepted CloseConnection does not complete the local close
FinishControl_Forgets(st, s, i, outcome) ==
  SignalSlots(AddControl(PopOut(st, s), s, -1), {s})

(* finishControlAttemptLocked and finishProbeAttemptLocked                 *)
FinishControl(st, s, i, outcome) ==
  LET done  == AddControl(PopOut(st, s), s, -1)
      after == IF outcome # "ok" \/ i.canceled THEN done
               ELSE IF i.kind = "close"
               THEN FinishClose(done, i.b, done.b[i.b].err)
               ELSE IF i.kind = "probe"
               THEN [done EXCEPT !.s[s].probe.submitted = TRUE]
               ELSE done
  IN  IF outcome = "full" /\ ~i.canceled /\ st.state = "ready" THEN st
      ELSE SignalSlots(after, {s})

(* What TrySubmit may answer (the ClientLink contract).                    *)
Outcomes(s, i) ==
  LET size == IF i.kind = "req" THEN m.req[i.b].size ELSE CtlSize
  IN  IF ~link[s].up THEN {"closed"}
      ELSE IF i.kind = "req" /\ size \in env.max.oversize THEN {"toolarge"}
      ELSE {"ok"} \cup (IF env.full < env.max.full THEN {"full"} ELSE {})

(* TrySubmit and the rest of dispatchSlotOnce under the lock.              *)
FinishAttempt(s) ==
  LET i  == Head(m.s[s].out)
      st == [m EXCEPT !.s[s].attempting = FALSE]
  IN  /\ consumer[s].pc = "attempt"
      /\ \E outcome \in Outcomes(s, i) :
           /\ m' = IF i.kind = "req" THEN FinishRequest(st, s, i.b, outcome)
                   ELSE FinishControl(st, s, i, outcome)
           /\ IF outcome = "closed" /\ ~Closing(m)
              THEN Goto(s, "failing", "submission")
              ELSE Goto(s, "select", "none")
           /\ wire' = IF outcome = "ok" /\ i.kind # "probe"
                           /\ SlotOf(m, i.b) = s
                      THEN [wire EXCEPT ![i.b] = Append(@,
                              IF i.kind = "req" THEN "req" ELSE "close")]
                      ELSE wire
           /\ link' = [link EXCEPT ![s].owes = @ \/ outcome = "full"]
           /\ env' = [env EXCEPT !.full =
                         IF outcome = "full" THEN @ + 1 ELSE @]
      /\ UNCHANGED <<prober, repairer, pump, blocked>>

(* failSlot after a failed submission or a routing error.                  *)
ConsumerFails(s) ==
  /\ consumer[s].pc = "failing"
  /\ FailSlot(s, consumer[s].reason)
  /\ Goto(s, "select", "none")
  /\ UNCHANGED <<prober, repairer, pump, blocked, wire, env>>

(* Events is closed: the end of consumeSlot.                               *)
ConsumerExits(s) ==
  /\ consumer[s].pc = "select"
  /\ ~link[s].up
  /\ FailSlot(s, "link_terminal")
  /\ Goto(s, "done", "none")
  /\ UNCHANGED <<prober, repairer, pump, blocked, wire, env>>

-----------------------------------------------------------------------------
(* Response routing: routeEvent                                            *)

BindingFull(st, b, size) ==
  \/ Len(st.queue[b]) >= Lim.respItemsPerBinding
  \/ size > Lim.respBytesPerBinding - BytesOf(st.queue[b])

SlotFull(st, s, size) ==
  \/ st.use[s].respItems >= Lim.respItemsPerSlot
  \/ size > Lim.respBytesPerSlot - st.use[s].respBytes

AllFull(st, size) ==
  \/ st.all.respItems >= Lim.respItems
  \/ size > Lim.respBytes - st.all.respBytes

(* The backpressure tests of enqueueEventLocked.                           *)
ResponseFull(st, b, size) ==
  \/ BindingFull(st, b, size)
  \/ SlotFull(st, SlotOf(st, b), size)
  \/ AllFull(st, size)

(* enqueueEventLocked, once the event fits.                                *)
EnqueueEvent(st, b, e) ==
  LET s == SlotOf(st, b)
  IN  SignalBinding(
        [st EXCEPT !.queue[b] = Append(@, e),
                   !.use[s].respItems = @ + 1,
                   !.use[s].respBytes = @ + e.size,
                   !.all.respItems = @ + 1,
                   !.all.respBytes = @ + e.size], {b})

(* responsePressureVictimLocked: the binding that retains most among those *)
(* whose eviction makes enough room, or the incoming one.                  *)
Victim(st, b, size) ==
  LET s == SlotOf(st, b)
      perSlot == SlotFull(st, s, size)
      items == IF perSlot THEN st.use[s].respItems + 1 - Lim.respItemsPerSlot
               ELSE st.all.respItems + 1 - Lim.respItems
      bytes == IF perSlot THEN st.use[s].respBytes + size - Lim.respBytesPerSlot
               ELSE st.all.respBytes + size - Lim.respBytes
      C == {c \in (IF perSlot THEN Res(st, s) ELSE Residents(st)) \ {b} :
              /\ ~st.b[c].terminal
              /\ Len(st.queue[c]) >= items
              /\ BytesOf(st.queue[c]) >= bytes}
      beats(c, d) ==
        LET cb == BytesOf(st.queue[c])  db == BytesOf(st.queue[d])
            ci == Len(st.queue[c])      di == Len(st.queue[d])
        IN  \/ cb > db
            \/ cb = db /\ (ci > di \/ (ci = di /\ c < d))
      best == {c \in C : \A d \in C \ {c} : beats(c, d)}
  IN  IF BindingFull(st, b, size) \/ best = {} THEN b
      ELSE CHOOSE c \in best : TRUE

(* evictBackpressuredBindingLocked                                         *)
Evict(st, b) ==
  LET st1 == InvalidateReady(
               DropResult(ClearQueue(DetachActive(st, {b}), {b}), {b}), {b})
  IN  ReleaseTerminal(
        PublishTerminal(CancelRequest(st1, {b}), {b}, "pressure"), {b})

(* The backpressure branch of routeEvent.                                  *)
Overflow(st, b, e) ==
  LET v   == Victim(st, b, e.size)
      st1 == QueueControl(Evict(st, v), SlotOf(st, v), "reap", v)
  IN  IF v = b THEN st1
      ELSE IF ResponseFull(st1, b, e.size) THEN Evict(st1, b)
      ELSE EnqueueEvent(st1, b, e)

(* The peer's close of a connection that is not closing locally.           *)
RemoteClose(st, b) ==
  PublishTerminal(DetachActive([st EXCEPT !.b[b].remoteClosed = TRUE], {b}),
                  {b}, "nil")

(* The peer's close of a connection that is closing locally.               *)
CrossedClose(st, b) ==
  LET st1 == [st EXCEPT !.b[b].remoteClosed = TRUE]
  IN  FinishClose(CancelBindingControls(CancelRequest(st1, {b}), b), b, "nil")

(* routeEvent for a connection b that is resident on slot s.               *)
Deliver(st, b, e) ==
  IF st.b[b].terminal THEN st
  ELSE IF st.b[b].localClosing
  THEN IF e.kind = "closeExt" THEN CrossedClose(st, b) ELSE st
  ELSE IF ResponseFull(st, b, e.size) THEN Overflow(st, b, e)
  ELSE IF e.kind = "closeExt" THEN RemoteClose(EnqueueEvent(st, b, e), b)
  ELSE EnqueueEvent(st, b, e)

(* routeEvent, for the events that name a connection.  The peer may still  *)
(* send for a connection that has left: it is told to close it.            *)
RouteEvent(s, b, e) ==
  /\ consumer[s].pc = "select"
  /\ Allocated(b)
  /\ env.events < env.max.events
  /\ ~Closing(m) /\ ~m.s[s].failed
  /\ m.b[b].resident => SlotOf(m, b) = s
  /\ m' = IF m.b[b].resident THEN Deliver(m, b, e)
          ELSE IF e.kind = "closeExt" THEN m
          ELSE QueueControl(m, s, "reap", b)
  /\ env' = [env EXCEPT !.events = @ + 1]
  /\ UNCHANGED <<consumer, link, prober, repairer, pump, blocked, wire>>

(* routeEvent for a malformed event or a connection of another slot.       *)
RouteProtocolError(s) ==
  /\ consumer[s].pc = "select"
  /\ env.losses < env.max.losses
  /\ ~Closing(m) /\ ~m.s[s].failed
  /\ Goto(s, "failing", "routing")
  /\ env' = [env EXCEPT !.losses = @ + 1]
  /\ UNCHANGED <<m, link, prober, repairer, pump, blocked, wire>>

(* routeEvent for the pong of the pending probe.                           *)
RoutePong(s) ==
  /\ consumer[s].pc = "select"
  /\ ~Closing(m) /\ ~m.s[s].failed
  /\ ~m.s[s].probe.done /\ m.s[s].probe.submitted
  /\ m' = CompleteProbe(m, {s}, TRUE)
  /\ UNCHANGED <<consumer, link, prober, repairer, pump, blocked, wire, env>>

-----------------------------------------------------------------------------
(* Liveness probes: probeSlot.  The supervisor probes a slot again only    *)
(* after its previous call returned, so a slot has one prober.             *)

StartProbe(s) ==
  LET id == m.probeID + 1
  IN  /\ prober[s] = "idle"
      /\ Ready /\ ~m.s[s].failed
      /\ m.s[s].probe.done
      /\ m.use[s].ctlItems < Lim.ctlItemsPerSlot
      /\ m.all.ctlItems < Lim.ctlItems
      /\ id \in 1..env.max.probes
      /\ m' = PutControl([m EXCEPT !.probeID = id,
                                   !.s[s].probe = [NoProbe EXCEPT
                                      !.id = id, !.done = FALSE]],
                         s, Item("probe", 0, id))
      /\ prober' = [prober EXCEPT ![s] = "waiting"]
      /\ UNCHANGED <<consumer, link, repairer, pump, blocked, wire, env>>

(* <-probe.done                                                            *)
ProbeReturns(s) ==
  /\ prober[s] = "waiting" /\ m.s[s].probe.done
  /\ prober' = [prober EXCEPT ![s] = "idle"]
  /\ UNCHANGED <<m, consumer, link, repairer, pump, blocked, wire, env>>

(* <-ctx.Done(), which select may take even when the probe is done too:    *)
(* cancelProbe, and for a deadline failSlot after it.                      *)
ProbeExpires(s, next) ==
  /\ prober[s] = "waiting"
  /\ m' = CompleteProbe(m, {s}, FALSE)
  /\ prober' = [prober EXCEPT ![s] = next]
  /\ UNCHANGED <<consumer, link, repairer, pump, blocked, wire, env>>

ProbeFails(s) ==
  /\ prober[s] = "expired"
  /\ FailSlot(s, "probe_timeout")
  /\ prober' = [prober EXCEPT ![s] = "idle"]
  /\ UNCHANGED <<consumer, repairer, pump, blocked, wire, env>>

-----------------------------------------------------------------------------
(* In-place repair: repairFailedSlots and repairSlot                       *)

RepairFailedSlots ==
  LET targets == {s \in Slots : m.s[s].failed /\ ~m.s[s].repairing}
  IN  /\ Ready
      /\ targets # {}
      /\ env.repairs < env.max.repairs
      /\ m' = [m EXCEPT !.s = [s \in Slots |->
                 [m.s[s] EXCEPT !.repairing = @ \/ s \in targets]]]
      /\ repairer' = [s \in Slots |-> IF s \in targets THEN "waiting"
                                      ELSE repairer[s]]
      /\ env' = [env EXCEPT !.repairs = @ + 1]
      /\ UNCHANGED <<consumer, link, prober, pump, blocked, wire>>

(* <-slot.consumerDone                                                     *)
RepairProceeds(s) ==
  /\ repairer[s] = "waiting"
  /\ consumer[s].pc = "done"
  /\ repairer' = [repairer EXCEPT ![s] = "building"]
  /\ UNCHANGED <<m, consumer, link, prober, pump, blocked, wire, env>>

(* finishSlotRepairFailure: the context ended or no link could be built.   *)
RepairFails(s) ==
  /\ repairer[s] # "idle"
  /\ m' = IF Ready /\ m.s[s].failed /\ m.s[s].repairing
          THEN [m EXCEPT !.s[s].repairing = FALSE] ELSE m
  /\ repairer' = [repairer EXCEPT ![s] = "idle"]
  /\ UNCHANGED <<consumer, link, prober, pump, blocked, wire, env>>

(* The slot retains no outbound work of the failed link.                   *)
CleanSlot(st, s) ==
  /\ st.s[s].out = <<>>
  /\ st.use[s].reqItems = 0 /\ st.use[s].reqBytes = 0
  /\ st.use[s].ctlItems = 0
  /\ st.s[s].probe.done

(* The replacement is started and published with its own consumer.         *)
RepairSucceeds(s) ==
  /\ repairer[s] = "building"
  /\ Ready /\ m.s[s].failed /\ m.s[s].repairing
  /\ CleanSlot(m, s)
  /\ m' = [m EXCEPT !.s[s].failed = FALSE, !.s[s].reason = "none",
                    !.s[s].repairing = FALSE, !.s[s].wake = FALSE]
  /\ repairer' = [repairer EXCEPT ![s] = "idle"]
  /\ link' = [link EXCEPT ![s] = [up |-> TRUE, owes |-> FALSE, sig |-> FALSE]]
  /\ Goto(s, "select", "none")
  /\ UNCHANGED <<prober, pump, blocked, wire, env>>

-----------------------------------------------------------------------------
(* The links (external)                                                    *)

(* A transport, protocol or queue failure ends the link.                   *)
LinkLost(s) ==
  /\ link[s].up
  /\ env.losses < env.max.losses
  /\ link' = [link EXCEPT ![s].up = FALSE]
  /\ env' = [env EXCEPT !.losses = @ + 1]
  /\ UNCHANGED <<m, consumer, prober, repairer, pump, blocked, wire>>

(* A link that refused a submission signals SubmissionReady once pending   *)
(* work has been written.                                                  *)
LinkDrains(s) ==
  /\ link[s].up /\ link[s].owes
  /\ link' = [link EXCEPT ![s].owes = FALSE, ![s].sig = TRUE]
  /\ UNCHANGED <<m, consumer, prober, repairer, pump, blocked, wire, env>>

-----------------------------------------------------------------------------
(* Specification                                                           *)

Lifecycle == Start \/ StartSucceeds \/ BeginTerminal("nil")
               \/ BeginTerminal("initial") \/ Quiesce \/ CloseLinks
               \/ CloseFinishes

Client(b) ==
  \/ \E size \in env.max.reqSizes : PrepareProxyRequest(b, size)
  \/ FinishMaterialization(b) \/ PrepareReserved(b)
  \/ PrepareMismatch(b) \/ PrepareForeign(b)
  \/ TakeReservation(b) \/ TakeResult(b) \/ TryNextEvent(b)
  \/ TryTerminal(b) \/ Ack(b)
  \/ NextEvent(b) \/ Notified(b) \/ BeginClose(b)

Consumer(s) ==
  \/ Dispatch(s) \/ FinishAttempt(s) \/ ConsumerFails(s) \/ ConsumerExits(s)
  \/ \E b \in Bindings, e \in Events : RouteEvent(s, b, e)
  \/ RouteProtocolError(s) \/ RoutePong(s)

Prober(s) == \/ StartProbe(s) \/ ProbeReturns(s) \/ ProbeFails(s)
             \/ ProbeExpires(s, "idle") \/ ProbeExpires(s, "expired")

Repairer(s) == RepairProceeds(s) \/ RepairFails(s) \/ RepairSucceeds(s)

Next ==
  \/ Lifecycle
  \/ \E d \in DCs, mode \in Modes : Bind(d, mode)
  \/ \E b \in Bindings : Client(b)
  \/ ReceiveReady \/ TryNextReady
  \/ \E s \in Slots : Consumer(s) \/ Prober(s) \/ Repairer(s)
                        \/ LinkLost(s) \/ LinkDrains(s)
  \/ RepairFailedSlots

Spec == Init /\ [][Next]_vars

(* Fairness, one condition per goroutine.  The goroutines the manager      *)
(* starts always run on: consumers, materializations, closeAll, and a      *)
(* repair whose context the closing manager canceled.  A link that refused *)
(* work drains (the ClientLink contract).  The receiver of Ready() keeps   *)
(* receiving, and it inspects every reason of a token before it            *)
(* acknowledges the token (strong fairness, because each lease enables the *)
(* inspection anew).  Each ...CanRun is the enabling condition of the      *)
(* goroutine's steps, written out.                                         *)
CloserCanRun ==
  /\ m.state = "closing" /\ NoOperations
  /\ \/ \E s \in Slots : link[s].up
     \/ \A s \in Slots : consumer[s].pc = "done"

ReceiverCanRun == pump = "drain" \/ m.readySig

ConsumerRuns(s)   == Dispatch(s) \/ FinishAttempt(s) \/ ConsumerFails(s)
                       \/ ConsumerExits(s)
ConsumerCanRun(s) ==
  \/ consumer[s].pc \in {"attempt", "failing"}
  \/ /\ consumer[s].pc = "select"
     /\ m.s[s].wake \/ link[s].sig \/ ~link[s].up

RepairCanRun(s) == Closing(m) /\ repairer[s] # "idle"

RequestRuns(b)   == FinishMaterialization(b) \/ PrepareReserved(b)
RequestCanRun(b) ==
  \/ m.req[b].phase = "materializing"
  \/ m.req[b].owned /\ m.req[b].phase = "reserved" /\ m.req[b].handed

TokenRead(b)   == TakeReservation(b) \/ TakeResult(b) \/ TryNextEvent(b)
                    \/ TryTerminal(b)
TokenCanRun(b) ==
  /\ m.leased[b]
  /\ \/ m.req[b].owned /\ m.req[b].phase = "reserved" /\ ~m.req[b].handed
     \/ m.result[b] # "none"
     \/ m.b[b].mode = "unset"
     \/ m.b[b].mode = "token" /\ m.queue[b] # <<>>
     \/ /\ m.b[b].terminal /\ ~m.b[b].observed
        /\ m.queue[b] = <<>> /\ m.result[b] = "none" /\ ~m.req[b].owned

Fairness ==
  /\ ([]<>~CloserCanRun) \/ ([]<><<CloseLinks \/ CloseFinishes>>_vars)
  /\ ([]<>~ReceiverCanRun) \/ ([]<><<ReceiveReady \/ TryNextReady>>_vars)
  /\ \A s \in Slots :
       /\ WF_vars(LinkDrains(s))
       /\ ([]<>~ConsumerCanRun(s)) \/ ([]<><<ConsumerRuns(s)>>_vars)
       /\ ([]<>~RepairCanRun(s)) \/ ([]<><<RepairFails(s)>>_vars)
  /\ \A b \in Bindings :
       /\ ([]<>~RequestCanRun(b)) \/ ([]<><<RequestRuns(b)>>_vars)
       /\ (<>[]~TokenCanRun(b)) \/ ([]<><<TokenRead(b)>>_vars)
       /\ ([]<>~m.leased[b]) \/ ([]<><<Ack(b)>>_vars)

FairSpec == Spec /\ Fairness

=============================================================================
