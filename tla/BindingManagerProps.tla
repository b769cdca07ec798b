------------------------- MODULE BindingManagerProps -------------------------
(***************************************************************************)
(* The correctness properties of the fixed-binding manager.                *)
(***************************************************************************)
EXTENDS BindingManager

-----------------------------------------------------------------------------
(* What slot s retains, computed from the queues and the requests.         *)
Retained(s) ==
  LET B    == {b \in Bindings : m.b[b].slot = s}
      paid == {b \in B : Charged(m.req[b])}
  IN  [resident  |-> Cardinality({b \in B : m.b[b].resident}),
       reqItems  |-> Cardinality(paid),
       reqBytes  |-> SumOf([b \in paid |-> m.req[b].size]),
       ctlItems  |-> Cardinality({i \in DOMAIN m.s[s].out :
                                   m.s[s].out[i].kind # "req"}),
       respItems |-> SumOf([b \in B |-> Len(m.queue[b])]),
       respBytes |-> SumOf([b \in B |-> BytesOf(m.queue[b])])]

(* No limit of FixedBindingLimits is exceeded by the counters.             *)
WithinLimits ==
  /\ m.all.resident <= Lim.resident
  /\ m.all.reqItems <= Lim.reqItems /\ m.all.reqBytes <= Lim.reqBytes
  /\ m.all.ctlItems <= Lim.ctlItems
  /\ m.all.respItems <= Lim.respItems /\ m.all.respBytes <= Lim.respBytes
  /\ \A s \in Slots :
       /\ m.use[s].resident <= Lim.residentPerSlot
       /\ m.use[s].reqItems <= Lim.reqItemsPerSlot
       /\ m.use[s].reqBytes <= Lim.reqBytesPerSlot
       /\ m.use[s].ctlItems <= Lim.ctlItemsPerSlot
       /\ m.use[s].respItems <= Lim.respItemsPerSlot
       /\ m.use[s].respBytes <= Lim.respBytesPerSlot

(* Every counter the admission tests read equals what is really retained,  *)
(* per slot and for the whole manager, and stays within its limit: no path *)
(* through promotion, cancellation, eviction, slot failure, repair or      *)
(* shutdown releases a charge twice or never, or admits one too many       *)
(* (releaseRequestChargeLocked, releaseControlLocked,                      *)
(* clearBindingQueueLocked, releaseBindingResidentLocked).                 *)
Accounting ==
  /\ \A s \in Slots : m.use[s] = Retained(s)
  /\ \A f \in DOMAIN NoUse : m.all[f] = SumOf([s \in Slots |-> m.use[s][f]])
  /\ WithinLimits

-----------------------------------------------------------------------------
(* A binding with something to report is in the readiness queue or its     *)
(* token is held, a non-empty queue has its receiver awake or signalled,   *)
(* and a caller blocked in NextEvent has a notification pending when there *)
(* is an event or a terminal state for it (enqueueReadyLocked,             *)
(* unlinkReadyLocked, signalBindingLocked, Ack).                           *)
NoLostReadiness ==
  /\ \A b \in Bindings :
       HasReadyReason(m, b) => IsQueued(m, b) \/ m.leased[b]
  /\ m.readyQ # <<>> => m.readySig \/ pump = "drain"
  /\ \A b \in blocked :
       m.queue[b] # <<>> \/ m.b[b].terminal => m.notify[b]

-----------------------------------------------------------------------------
(* A request is reported accepted only after the link accepted it, no      *)
(* prepared request is submitted twice, and the link never sees a request  *)
(* of a connection after that connection's CloseConnection, although both  *)
(* are queued by different goroutines (dispatchSlotOnce, beginClose).      *)
SubmittedOnceInOrder ==
  \A b \in Bindings :
    LET sent == Cardinality({i \in DOMAIN wire[b] : wire[b][i] = "req"})
        open == IF m.req[b].owned THEN 1 ELSE 0
    IN  /\ sent + open <= env.prepares[b]
        /\ m.result[b] = "accepted" => sent >= 1
        /\ \A i, j \in DOMAIN wire[b] :
             i < j /\ wire[b][i] = "close" => wire[b][j] = "close"

(* Quiesce: once drained is closed no binding is resident again.           *)
DrainedIsFinal == m.drained => ~m.accepting /\ Residents(m) = {}

-----------------------------------------------------------------------------
(* What the life of a binding may never undo.                              *)
Kept(o, n) ==
  /\ n.slot = o.slot
  /\ o.terminal => n.terminal
  /\ o.err # "nil" => n.err = o.err
  /\ o.closeStarted => n.closeStarted
  /\ o.closeSet => n.closeSet /\ n.closeErr = o.closeErr
  /\ o.remoteClosed => n.remoteClosed
  /\ o.observed => n.observed
  /\ ~o.active => ~n.active
  /\ ~o.resident => ~n.resident

(* A binding never moves to another slot, and whatever races with its end  *)
(* - the peer's close, the client's close, a slot failure, an eviction,    *)
(* shutdown - its terminal state and close result are final, its first     *)
(* error is kept and it is never admitted again.                           *)
Sticky == [][\A b \in Bindings : Allocated(b) => Kept(m.b[b], m'.b[b])]_vars

(* Losing one link of a running manager leaves the bindings of every other *)
(* slot, and the responses retained for them, alone (failSlot).            *)
FailureIsIsolated ==
  [][\A s \in Slots :
       ~m.s[s].failed /\ m'.s[s].failed /\ m'.state = "ready" =>
         \A b \in Bindings : m.b[b].slot # s =>
           m'.b[b] = m.b[b] /\ m'.queue[b] = m.queue[b]]_vars

-----------------------------------------------------------------------------
(* Close always ends: every operation, link and consumer is joined.        *)
CloseTerminates == m.state = "closing" ~> m.state = "closed"

(* A local close always gets its result: its CloseConnection is submitted  *)
(* behind the requests ahead of it, or a terminal state wins.              *)
CloseCompletes ==
  \A b \in Bindings : m.b[b].closeStarted ~> m.b[b].closeSet

(* A request that waits for capacity is reserved, canceled or retired.     *)
WaiterIsServed ==
  \A b \in Bindings : m.req[b].phase = "waiting" ~> m.req[b].phase # "waiting"

-----------------------------------------------------------------------------
(* A statement of the repository that the code does not keep.              *)

(* Quiesce's channel "closes when every binding resident at the admission  *)
(* boundary has left": once admission stopped and every client has closed  *)
(* its binding, drained follows.                                           *)
QuiesceDrains ==
  /\ ~m.accepting
  /\ \A b \in Bindings : m.b[b].slot # 0 => m.b[b].closeSet
  ~> m.drained
=============================================================================
