------------------------ MODULE BindingManager_proofs ------------------------
(***************************************************************************)
(* Proofs about the life of a binding, for every number of slots and       *)
(* bindings, every choice of limits and every bound on the environment.    *)
(*                                                                         *)
(* Every critical section is a composition of the "...Locked" operators.   *)
(* Evolves(o, t) says that t may follow o within a critical section.  The  *)
(* proof gives one lemma per operator Op: if st evolves from o, so does    *)
(* Op(st).  An action that is a composition of operators then evolves too, *)
(* and only Bind and Quiesce need an argument of their own.                *)
(***************************************************************************)
EXTENDS BindingManagerInv, Data_proofs

-----------------------------------------------------------------------------
(* Evolution is a preorder, and the two ways to extend it.                 *)

(* What a binding's life keeps is kept along two steps.                    *)
LEMMA KeptTrans ==
  ASSUME NEW o, NEW n, NEW r, IsLife(o), IsLife(n), IsLife(r),
         Kept(o, n), Kept(n, r)
  PROVE  Kept(o, r)
BY DEF Kept, IsLife

(* A state evolves from itself.                                            *)
LEMMA EvolvesRefl ==
  ASSUME NEW st, IsState(st)
  PROVE  Evolves(st, st)
BY DEF Evolves, LivesKept, Kept, IsState

(* Evolution composes.                                                     *)
LEMMA EvolvesTrans ==
  ASSUME NEW o, NEW t, NEW u, Evolves(o, t), Evolves(t, u)
  PROVE  Evolves(o, u)
<1>1. \A b \in Bindings : Kept(o.b[b], u.b[b])
  BY KeptTrans DEF Evolves, LivesKept, IsState
<1> QED BY <1>1 DEF Evolves, LivesKept

(* Changing the fields the proofs do not look at.                          *)
LEMMA QuietEvolves ==
  ASSUME NEW o, NEW st, Evolves(o, st), NEW t, Quiet(st, t)
  PROVE  Evolves(o, t)
<1>1. LivesKept(st, t)
  BY DEF LivesKept, Quiet, IsState, Kept, Evolves
<1>2. DrainSound(st) => DrainSound(t)
  BY DEF Quiet, DrainSound, Residents
<1>3. Evolves(st, t)
  BY <1>1, <1>2 DEF Evolves, Quiet, IsState, LivesKept
<1> QED BY <1>3, EvolvesTrans

(* Changing the lives of bindings, keeping what must be kept.              *)
LEMMA LivesEvolve ==
  ASSUME NEW o, NEW st, Evolves(o, st), NEW t, LivesOnly(st, t)
  PROVE  Evolves(o, t)
<1>1. DrainSound(st) => DrainSound(t)
  BY DEF LivesOnly, DrainSound, Residents, LivesKept, Kept, IsState, IsLife,
         Evolves
<1>2. Evolves(st, t)
  BY <1>1 DEF Evolves, LivesOnly, IsState, LivesKept
<1> QED BY <1>2, EvolvesTrans

-----------------------------------------------------------------------------
(* One lemma per operator of the model: its result evolves from whatever   *)
(* its argument evolved from.                                              *)

(* EnqueueReady changes no field the proofs look at.                       *)
LEMMA EnqueueReadyEvolves ==
  ASSUME NEW o, NEW st, Evolves(o, st), NEW B
  PROVE  Evolves(o, EnqueueReady(st, B))
<1>1. Quiet(st, EnqueueReady(st, B))
  BY DEF EnqueueReady, Quiet, Evolves, IsState, MFields
<1> QED BY <1>1, QuietEvolves

(* UnlinkReady changes no field the proofs look at.                        *)
LEMMA UnlinkReadyEvolves ==
  ASSUME NEW o, NEW st, Evolves(o, st), NEW B
  PROVE  Evolves(o, UnlinkReady(st, B))
<1>1. Quiet(st, UnlinkReady(st, B))
  BY DEF UnlinkReady, Quiet, Evolves, IsState, MFields
<1> QED BY <1>1, QuietEvolves

(* SignalBinding is composed of changes that evolve.                       *)
LEMMA SignalBindingEvolves ==
  ASSUME NEW o, NEW st, Evolves(o, st), NEW B
  PROVE  Evolves(o, SignalBinding(st, B))
<1> DEFINE t == [st EXCEPT !.notify = [b \in Bindings |-> @[b] \/ b \in B]]
<1>1. Quiet(st, t)
  BY DEF Quiet, Evolves, IsState, MFields
<1>2. Evolves(o, t)
  BY <1>1, QuietEvolves
<1> QED BY <1>2, EnqueueReadyEvolves DEF SignalBinding

(* InvalidateReady is composed of changes that evolve.                     *)
LEMMA InvalidateReadyEvolves ==
  ASSUME NEW o, NEW st, Evolves(o, st), NEW B
  PROVE  Evolves(o, InvalidateReady(st, B))
<1> DEFINE t == UnlinkReady(st, B)
<1>1. Evolves(o, t)
  BY UnlinkReadyEvolves
<1>2. Quiet(t, InvalidateReady(st, B))
  <2> HIDE DEF t
  <2> QED BY <1>1 DEF InvalidateReady, Quiet, Evolves, IsState, MFields, t
<1> QED BY <1>1, <1>2, QuietEvolves

(* RefreshReady is composed of changes that evolve.                        *)
LEMMA RefreshReadyEvolves ==
  ASSUME NEW o, NEW st, Evolves(o, st), NEW b
  PROVE  Evolves(o, RefreshReady(st, b))
BY UnlinkReadyEvolves, EnqueueReadyEvolves DEF RefreshReady

(* SignalSlots changes no field the proofs look at.                        *)
LEMMA SignalSlotsEvolves ==
  ASSUME NEW o, NEW st, Evolves(o, st), NEW S
  PROVE  Evolves(o, SignalSlots(st, S))
<1>1. Quiet(st, SignalSlots(st, S))
  BY DEF SignalSlots, Quiet, Evolves, IsState, MFields
<1> QED BY <1>1, QuietEvolves

(* PublishDrained closes drained only when nobody is resident and          *)
(* admission has stopped.                                                  *)
LEMMA PublishDrainedEvolves ==
  ASSUME NEW o, NEW st, Evolves(o, st)
  PROVE  Evolves(o, PublishDrained(st))
<1> DEFINE t == PublishDrained(st)
<1>1. /\ DOMAIN t = MFields
      /\ t.b = st.b /\ t.accepting = st.accepting /\ t.nextID = st.nextID
      /\ t.drained = (st.drained \/ (~st.accepting /\ Residents(st) = {}))
  BY DEF PublishDrained, Evolves, IsState, MFields
<1>2. LivesKept(st, t)
  BY <1>1 DEF LivesKept, Evolves, IsState, Kept
<1>3. DrainSound(st) => DrainSound(t)
  BY <1>1 DEF DrainSound, Residents
<1>4. Evolves(st, t)
  BY <1>1, <1>2, <1>3 DEF Evolves, IsState
<1> QED BY <1>4, EvolvesTrans

(* ReleaseResident changes lives of bindings and keeps what must be kept.  *)
LEMMA ReleaseResidentEvolves ==
  ASSUME NEW o, NEW st, Evolves(o, st), NEW B
  PROVE  Evolves(o, ReleaseResident(st, B))
<1> DEFINE R == {b \in B : st.b[b].resident}
           n(s) == Cardinality({b \in R : SlotOf(st, b) = s})
           t == [st EXCEPT
                  !.b = [b \in Bindings |->
                     IF b \in R THEN [@[b] EXCEPT !.resident = FALSE] ELSE @[b]],
                  !.use = [s \in Slots |-> [st.use[s] EXCEPT !.resident = @ - n(s)]],
                  !.all.resident = @ - Cardinality(R)]
<1> HIDE DEF R, n
<1>1. /\ DOMAIN t = MFields /\ t.accepting = st.accepting
      /\ t.drained = st.drained /\ t.nextID = st.nextID
      /\ DOMAIN t.b = Bindings
  BY DEF Evolves, IsState, MFields
<1>2. ASSUME NEW b \in Bindings
      PROVE  IsLife(t.b[b]) /\ Kept(st.b[b], t.b[b])
  <2>1. t.b[b] = IF b \in R THEN [st.b[b] EXCEPT !.resident = FALSE]
                 ELSE st.b[b]
    BY DEF Evolves, IsState, MFields
  <2> HIDE DEF t
  <2> QED BY <2>1 DEF Evolves, IsState, IsLife, Kept, LifeFields
<1>3. LivesOnly(st, t)
  <2> HIDE DEF t
  <2> QED BY <1>1, <1>2 DEF LivesOnly, LivesKept
<1>4. Evolves(o, PublishDrained(t))
  <2> HIDE DEF t
  <2> QED BY <1>3, LivesEvolve, PublishDrainedEvolves
<1> QED BY <1>4 DEF ReleaseResident, R, n

(* ReleaseTerminal is composed of changes that evolve.                     *)
LEMMA ReleaseTerminalEvolves ==
  ASSUME NEW o, NEW st, Evolves(o, st), NEW B
  PROVE  Evolves(o, ReleaseTerminal(st, B))
BY ReleaseResidentEvolves DEF ReleaseTerminal

(* DetachActive changes lives of bindings and keeps what must be kept.     *)
LEMMA DetachActiveEvolves ==
  ASSUME NEW o, NEW st, Evolves(o, st), NEW B
  PROVE  Evolves(o, DetachActive(st, B))
<1> DEFINE t == DetachActive(st, B)
<1>1. /\ DOMAIN t = MFields /\ t.accepting = st.accepting
      /\ t.drained = st.drained /\ t.nextID = st.nextID
      /\ DOMAIN t.b = Bindings
  BY DEF DetachActive, Evolves, IsState, MFields
<1>2. ASSUME NEW b \in Bindings
      PROVE  IsLife(t.b[b]) /\ Kept(st.b[b], t.b[b])
  <2>1. t.b[b] = IF b \in B THEN [st.b[b] EXCEPT !.active = FALSE]
                ELSE st.b[b]
    BY DEF DetachActive, Evolves, IsState, MFields
  <2> HIDE DEF t
  <2> QED BY <2>1 DEF Evolves, IsState, IsLife, Kept, LifeFields
<1> HIDE DEF t
<1>3. LivesOnly(st, t)
  BY <1>1, <1>2 DEF LivesOnly, LivesKept
<1> QED BY <1>3, LivesEvolve DEF t

(* PublishTerminal changes lives of bindings and keeps what must be kept.  *)
LEMMA PublishTerminalEvolves ==
  ASSUME NEW o, NEW st, Evolves(o, st), NEW B, NEW err
  PROVE  Evolves(o, PublishTerminal(st, B, err))
<1> DEFINE t == [st EXCEPT !.b = [b \in Bindings |->
                  IF b \in B THEN Ended(@[b], err) ELSE @[b]]]
<1>1. /\ DOMAIN t = MFields /\ t.accepting = st.accepting
      /\ t.drained = st.drained /\ t.nextID = st.nextID
      /\ DOMAIN t.b = Bindings
  BY DEF Evolves, IsState, MFields
<1>2. ASSUME NEW b \in Bindings
      PROVE  IsLife(t.b[b]) /\ Kept(st.b[b], t.b[b])
  <2>1. t.b[b] = IF b \in B THEN Ended(st.b[b], err) ELSE st.b[b]
    BY DEF Evolves, IsState, MFields
  <2> HIDE DEF t
  <2> QED BY <2>1 DEF Evolves, IsState, IsLife, Kept, LifeFields, FirstError,
                         Ended
<1>3. LivesOnly(st, t)
  <2> HIDE DEF t
  <2> QED BY <1>1, <1>2 DEF LivesOnly, LivesKept
<1>4. Evolves(o, SignalBinding(t, B))
  <2> HIDE DEF t
  <2> QED BY <1>3, LivesEvolve, SignalBindingEvolves
<1> QED BY <1>4 DEF PublishTerminal

(* PublishClose changes lives of bindings and keeps what must be kept.     *)
LEMMA PublishCloseEvolves ==
  ASSUME NEW o, NEW st, Evolves(o, st), NEW B, NEW err
  PROVE  Evolves(o, PublishClose(st, B, err))
<1> DEFINE t == PublishClose(st, B, err)
<1>1. /\ DOMAIN t = MFields /\ t.accepting = st.accepting
      /\ t.drained = st.drained /\ t.nextID = st.nextID
      /\ DOMAIN t.b = Bindings
  BY DEF PublishClose, Evolves, IsState, MFields
<1>2. ASSUME NEW b \in Bindings
      PROVE  IsLife(t.b[b]) /\ Kept(st.b[b], t.b[b])
  <2>1. t.b[b] = IF b \in B /\ ~st.b[b].closeSet
                THEN [st.b[b] EXCEPT !.closeSet = TRUE, !.closeErr = err]
                ELSE st.b[b]
    BY DEF PublishClose, Evolves, IsState, MFields
  <2> HIDE DEF t
  <2> QED BY <2>1 DEF Evolves, IsState, IsLife, Kept, LifeFields
<1> HIDE DEF t
<1>3. LivesOnly(st, t)
  BY <1>1, <1>2 DEF LivesOnly, LivesKept
<1> QED BY <1>3, LivesEvolve DEF t

(* ObserveTerminal changes lives of bindings and keeps what must be kept.  *)
LEMMA ObserveTerminalEvolves ==
  ASSUME NEW o, NEW st, Evolves(o, st), NEW B
  PROVE  Evolves(o, ObserveTerminal(st, B))
<1> DEFINE t == [st EXCEPT !.b = [b \in Bindings |->
                  IF b \in B THEN [@[b] EXCEPT !.observed = TRUE] ELSE @[b]]]
<1>1. /\ DOMAIN t = MFields /\ t.accepting = st.accepting
      /\ t.drained = st.drained /\ t.nextID = st.nextID
      /\ DOMAIN t.b = Bindings
  BY DEF Evolves, IsState, MFields
<1>2. ASSUME NEW b \in Bindings
      PROVE  IsLife(t.b[b]) /\ Kept(st.b[b], t.b[b])
  <2>1. t.b[b] = IF b \in B THEN [st.b[b] EXCEPT !.observed = TRUE]
                 ELSE st.b[b]
    BY DEF Evolves, IsState, MFields
  <2> HIDE DEF t
  <2> QED BY <2>1 DEF Evolves, IsState, IsLife, Kept, LifeFields
<1>3. LivesOnly(st, t)
  <2> HIDE DEF t
  <2> QED BY <1>1, <1>2 DEF LivesOnly, LivesKept
<1>4. Evolves(o, InvalidateReady(t, B))
  <2> HIDE DEF t
  <2> QED BY <1>3, LivesEvolve, InvalidateReadyEvolves
<1> QED BY <1>4 DEF ObserveTerminal

(* FinishClose is composed of changes that evolve.                         *)
LEMMA FinishCloseEvolves ==
  ASSUME NEW o, NEW st, Evolves(o, st), NEW b, NEW err
  PROVE  Evolves(o, FinishClose(st, b, err))
BY PublishTerminalEvolves, PublishCloseEvolves, ObserveTerminalEvolves, ReleaseTerminalEvolves DEF FinishClose

(* ClearQueue changes no field the proofs look at.                         *)
LEMMA ClearQueueEvolves ==
  ASSUME NEW o, NEW st, Evolves(o, st), NEW B
  PROVE  Evolves(o, ClearQueue(st, B))
<1>1. Quiet(st, ClearQueue(st, B))
  BY DEF ClearQueue, Quiet, Evolves, IsState, MFields
<1> QED BY <1>1, QuietEvolves

(* DropResult changes no field the proofs look at.                         *)
LEMMA DropResultEvolves ==
  ASSUME NEW o, NEW st, Evolves(o, st), NEW B
  PROVE  Evolves(o, DropResult(st, B))
<1>1. Quiet(st, DropResult(st, B))
  BY DEF DropResult, Quiet, Evolves, IsState, MFields
<1> QED BY <1>1, QuietEvolves

(* AppendOut changes no field the proofs look at.                          *)
LEMMA AppendOutEvolves ==
  ASSUME NEW o, NEW st, Evolves(o, st), NEW s, NEW item
  PROVE  Evolves(o, AppendOut(st, s, item))
<1>1. Quiet(st, AppendOut(st, s, item))
  BY DEF AppendOut, Quiet, Evolves, IsState, MFields
<1> QED BY <1>1, QuietEvolves

(* RemoveRequests is composed of changes that evolve.                      *)
LEMMA RemoveRequestsEvolves ==
  ASSUME NEW o, NEW st, Evolves(o, st), NEW B
  PROVE  Evolves(o, RemoveRequests(st, B))
<1> DEFINE gone(s) == {i \in ItemsOf(st, s) : i.kind = "req" /\ i.b \in B}
           kept(s) == Excluding(st.s[s].out, gone(s))
           t == [st EXCEPT !.s = [s \in Slots |-> [@[s] EXCEPT !.out = kept(s)]]]
<1> HIDE DEF kept, gone
<1>1. Quiet(st, t)
  BY DEF Quiet, Evolves, IsState, MFields
<1>2. \A S : Evolves(o, SignalSlots(t, S))
  <2> HIDE DEF t
  <2> QED BY <1>1, QuietEvolves, SignalSlotsEvolves
<1> QED BY <1>2 DEF RemoveRequests, kept, gone

(* ChargeRequest changes no field the proofs look at.                      *)
LEMMA ChargeRequestEvolves ==
  ASSUME NEW o, NEW st, Evolves(o, st), NEW b, NEW n
  PROVE  Evolves(o, ChargeRequest(st, b, n))
<1>1. Quiet(st, ChargeRequest(st, b, n))
  BY DEF ChargeRequest, Quiet, Evolves, IsState, MFields
<1> QED BY <1>1, QuietEvolves

(* Reserve is composed of changes that evolve.                             *)
LEMMA ReserveEvolves ==
  ASSUME NEW o, NEW st, Evolves(o, st), NEW b
  PROVE  Evolves(o, Reserve(st, b))
<1> DEFINE t == ChargeRequest(st, b, 1)
<1>1. Evolves(o, t)
  BY ChargeRequestEvolves
<1>2. Quiet(t, Reserve(st, b))
  <2> HIDE DEF t
  <2> QED BY <1>1 DEF Reserve, Quiet, Evolves, IsState, MFields, t
<1> QED BY <1>1, <1>2, QuietEvolves

(* ReleaseCharge is composed of changes that evolve.                       *)
LEMMA ReleaseChargeEvolves ==
  ASSUME NEW o, NEW st, Evolves(o, st), NEW b
  PROVE  Evolves(o, ReleaseCharge(st, b))
BY ChargeRequestEvolves DEF ReleaseCharge

(* Promote changes no field the proofs look at.                            *)
LEMMA PromoteEvolves ==
  ASSUME NEW o, NEW st, Evolves(o, st)
  PROVE  Evolves(o, Promote(st))
<1>1. Quiet(st, Promote(st))
  BY DEF Promote, Quiet, Evolves, IsState, MFields
<1> QED BY <1>1, QuietEvolves

(* CancelRequest is composed of changes that evolve.                       *)
LEMMA CancelRequestEvolves ==
  ASSUME NEW o, NEW st, Evolves(o, st), NEW B
  PROVE  Evolves(o, CancelRequest(st, B))
<1> DEFINE live == {b \in B : st.req[b].phase # "none" /\ ~st.req[b].canceled}
           inFlight == {b \in live :
                     st.req[b].phase \in {"materializing", "attempting"}}
           now  == live \ inFlight
           paid == {b \in now : Charged(st.req[b])}
           on(s) == {b \in paid : SlotOf(st, b) = s}
           bytes(C) == SumOf([b \in C |-> st.req[b].size])
           waitQ == Excluding(st.waitQ, now)
           t == [st EXCEPT
        !.req = [b \in Bindings |->
                   IF b \in now THEN NoRequest
                   ELSE IF b \in inFlight
                        THEN [@[b] EXCEPT !.canceled = TRUE, !.owned = FALSE]
                        ELSE @[b]],
        !.waitQ = waitQ,
        !.use = [s \in Slots |->
                   [st.use[s] EXCEPT !.reqItems = @ - Cardinality(on(s)),
                                     !.reqBytes = @ - bytes(on(s))]],
        !.all.reqItems = @ - Cardinality(paid),
        !.all.reqBytes = @ - bytes(paid)]
<1> HIDE DEF now, inFlight, on, paid, waitQ, bytes
<1>1. Quiet(st, t)
  BY DEF Quiet, Evolves, IsState, MFields
<1>2. Evolves(o, t) /\ Evolves(o, Promote(RemoveRequests(t, now)))
  <2> HIDE DEF t
  <2> QED BY <1>1, QuietEvolves, RemoveRequestsEvolves, PromoteEvolves
<1> QED BY <1>2 DEF CancelRequest, now, inFlight, on, paid, waitQ, bytes

(* AddControl changes no field the proofs look at.                         *)
LEMMA AddControlEvolves ==
  ASSUME NEW o, NEW st, Evolves(o, st), NEW s, NEW n
  PROVE  Evolves(o, AddControl(st, s, n))
<1>1. Quiet(st, AddControl(st, s, n))
  BY DEF AddControl, Quiet, Evolves, IsState, MFields
<1> QED BY <1>1, QuietEvolves

(* PutControl is composed of changes that evolve.                          *)
LEMMA PutControlEvolves ==
  ASSUME NEW o, NEW st, Evolves(o, st), NEW s, NEW item
  PROVE  Evolves(o, PutControl(st, s, item))
BY AppendOutEvolves, AddControlEvolves, SignalSlotsEvolves DEF PutControl

(* QueueControl is composed of changes that evolve.                        *)
LEMMA QueueControlEvolves ==
  ASSUME NEW o, NEW st, Evolves(o, st), NEW s, NEW kind, NEW b
  PROVE  Evolves(o, QueueControl(st, s, kind, b))
BY PutControlEvolves DEF QueueControl

(* CancelControls is composed of changes that evolve.                      *)
LEMMA CancelControlsEvolves ==
  ASSUME NEW o, NEW st, Evolves(o, st), NEW S, NEW G
  PROVE  Evolves(o, CancelControls(st, S, G))
<1> DEFINE out(s)  == st.s[s].out
           busy(s) == st.s[s].attempting
           mark(s) == [Head(out(s)) EXCEPT
                         !.canceled = @ \/ Head(out(s)) \in G[s]]
           rest(s) == Excluding(IF busy(s) THEN Tail(out(s)) ELSE out(s), G[s])
           kept(s) == IF s \notin S THEN out(s)
                      ELSE IF busy(s) THEN <<mark(s)>> \o rest(s) ELSE rest(s)
           lost(s) == Len(out(s)) - Len(kept(s))
           gone == SumOf([s \in Slots |-> lost(s)])
           t == [st EXCEPT
             !.s = [s \in Slots |-> [@[s] EXCEPT !.out = kept(s)]],
             !.use = [s \in Slots |-> [st.use[s] EXCEPT !.ctlItems = @ - lost(s)]],
             !.all.ctlItems = @ - gone]
<1> HIDE DEF kept, lost, gone
<1>1. Quiet(st, t)
  BY DEF Quiet, Evolves, IsState, MFields
<1>2. \A X : Evolves(o, SignalSlots(t, X))
  <2> HIDE DEF t
  <2> QED BY <1>1, QuietEvolves, SignalSlotsEvolves
<1> QED BY <1>2 DEF CancelControls, kept, lost, gone

(* CompleteProbe is composed of changes that evolve.                       *)
LEMMA CompleteProbeEvolves ==
  ASSUME NEW o, NEW st, Evolves(o, st), NEW S, NEW ok
  PROVE  Evolves(o, CompleteProbe(st, S, ok))
<1> DEFINE P == {s \in S : ~st.s[s].probe.done}
           t == [st EXCEPT !.s = [s \in Slots |->
                   IF s \in P
                   THEN [@[s] EXCEPT !.probe.done = TRUE, !.probe.ok = ok]
                   ELSE @[s]]]
<1>1. Quiet(st, t)
  <2> HIDE DEF P
  <2> QED BY DEF Quiet, Evolves, IsState, MFields
<1>2. \A G : Evolves(o, CancelControls(t, P, G))
  <2> HIDE DEF t, P
  <2> QED BY <1>1, QuietEvolves, CancelControlsEvolves
<1> QED BY <1>2 DEF CompleteProbe

(* CancelBindingControls is composed of changes that evolve.               *)
LEMMA CancelBindingControlsEvolves ==
  ASSUME NEW o, NEW st, Evolves(o, st), NEW b
  PROVE  Evolves(o, CancelBindingControls(st, b))
BY CancelControlsEvolves DEF CancelBindingControls

(* CancelSlotOutbound is composed of changes that evolve.                  *)
LEMMA CancelSlotOutboundEvolves ==
  ASSUME NEW o, NEW st, Evolves(o, st), NEW S
  PROVE  Evolves(o, CancelSlotOutbound(st, S))
BY CompleteProbeEvolves, CancelControlsEvolves, CancelRequestEvolves DEF CancelSlotOutbound

(* Terminalize is composed of changes that evolve.                         *)
LEMMA TerminalizeEvolves ==
  ASSUME NEW o, NEW st, Evolves(o, st), NEW b, NEW err
  PROVE  Evolves(o, Terminalize(st, b, err))
<1> DEFINE st1 == PublishTerminal(CancelRequest(DetachActive(st, {b}), {b}),
                                  {b}, err)
<1>1. Evolves(o, st1)
  BY DetachActiveEvolves, CancelRequestEvolves, PublishTerminalEvolves
<1> HIDE DEF st1
<1> QED
  BY <1>1, PublishCloseEvolves, ObserveTerminalEvolves, ReleaseTerminalEvolves
  DEF Terminalize, st1

(* FailReadySlot is composed of changes that evolve.                       *)
LEMMA FailReadySlotEvolves ==
  ASSUME NEW o, NEW st, Evolves(o, st), NEW s, NEW reason
  PROVE  Evolves(o, FailReadySlot(st, s, reason))
<1> DEFINE F == {b \in Res(st, s) : ~st.b[b].remoteClosed}
           C == {b \in F : st.b[b].closeStarted}
           t == [st EXCEPT !.s[s].failed = TRUE, !.s[s].reason = reason]
           st2 == PublishTerminal(DetachActive(CancelSlotOutbound(t, {s}), F),
                                  F, "slot")
<1>1. Evolves(o, t)
  <2>1. Quiet(st, t)
    BY DEF Quiet, Evolves, IsState, MFields
  <2> QED BY <2>1, QuietEvolves
<1>2. Evolves(o, st2)
  <2> HIDE DEF t, F
  <2> QED BY <1>1, CancelSlotOutboundEvolves, DetachActiveEvolves,
             PublishTerminalEvolves
<1>3. Evolves(o, ReleaseTerminal(
                   ObserveTerminal(PublishClose(st2, C, "slot"), C), F))
  <2> HIDE DEF st2, F, C
  <2> QED BY <1>2, PublishCloseEvolves, ObserveTerminalEvolves,
             ReleaseTerminalEvolves
<1> QED BY <1>3 DEF FailReadySlot

(* ManagerClosing is composed of changes that evolve.                      *)
LEMMA ManagerClosingEvolves ==
  ASSUME NEW o, NEW st, Evolves(o, st), NEW err
  PROVE  Evolves(o, ManagerClosing(st, err))
<1> DEFINE R == Residents(st)
           t == [st EXCEPT !.state = "closing", !.err = FirstError(@, err)]
           st1 == CancelSlotOutbound(t, Slots)
           st2 == CancelRequest(
                    InvalidateReady(
                      DropResult(ClearQueue(DetachActive(st1, R), R), R), R), R)
           st3 == PublishTerminal(st2, R, st1.err)
           st4 == [st3 EXCEPT !.b = [b \in Bindings |->
                     IF b \in R /\ ~@[b].closeSet
                     THEN [@[b] EXCEPT !.closeSet = TRUE,
                                       !.closeErr = st3.b[b].err]
                     ELSE @[b]]]
<1>1. Evolves(o, t)
  <2>1. Quiet(st, t)
    BY DEF Quiet, Evolves, IsState, MFields
  <2> QED BY <2>1, QuietEvolves
<1> HIDE DEF t, R
<1>2. Evolves(o, st1)
  BY <1>1, CancelSlotOutboundEvolves
<1> HIDE DEF st1
<1>3. Evolves(o, st2)
  BY <1>2, DetachActiveEvolves, ClearQueueEvolves, DropResultEvolves,
     InvalidateReadyEvolves, CancelRequestEvolves
<1> HIDE DEF st2
<1>4. Evolves(o, st3)
  BY <1>3, PublishTerminalEvolves
<1> HIDE DEF st3
<1>5. Evolves(o, st4)
  <2>1. /\ DOMAIN st4 = MFields /\ st4.accepting = st3.accepting
        /\ st4.drained = st3.drained /\ st4.nextID = st3.nextID
        /\ DOMAIN st4.b = Bindings
    BY <1>4 DEF Evolves, IsState, MFields
  <2>2. ASSUME NEW b \in Bindings
        PROVE  IsLife(st4.b[b]) /\ Kept(st3.b[b], st4.b[b])
    <3>1. st4.b[b] = IF b \in R /\ ~st3.b[b].closeSet
                     THEN [st3.b[b] EXCEPT !.closeSet = TRUE,
                                           !.closeErr = st3.b[b].err]
                     ELSE st3.b[b]
      BY <1>4 DEF Evolves, IsState, MFields
    <3> HIDE DEF st4
    <3> QED BY <1>4, <3>1 DEF Evolves, IsState, IsLife, Kept, LifeFields
  <2> HIDE DEF st4
  <2>3. LivesOnly(st3, st4)
    BY <2>1, <2>2 DEF LivesOnly, LivesKept
  <2> QED BY <1>4, <2>3, LivesEvolve
<1> HIDE DEF st4
<1>6. \A B : Evolves(o, ReleaseResident(ObserveTerminal(st4, B), R))
  BY <1>5, ObserveTerminalEvolves, ReleaseResidentEvolves
<1> QED BY <1>6 DEF ManagerClosing, st4, st3, st2, st1, t, R

(* MaterializationFailed is composed of changes that evolve.               *)
LEMMA MaterializationFailedEvolves ==
  ASSUME NEW o, NEW st, Evolves(o, st), NEW b
  PROVE  Evolves(o, MaterializationFailed(st, b))
<1> DEFINE t == ReleaseCharge(st, b)
           u == [t EXCEPT !.req[b] = NoRequest]
<1>1. Evolves(o, t)
  BY ReleaseChargeEvolves
<1> HIDE DEF t
<1>2. Evolves(o, u)
  <2>1. Quiet(t, u)
    BY <1>1 DEF Quiet, Evolves, IsState, MFields
  <2> QED BY <1>1, <2>1, QuietEvolves
<1> HIDE DEF u
<1>3. Evolves(o, Promote(RemoveRequests(u, {b})))
  BY <1>2, RemoveRequestsEvolves, PromoteEvolves
<1> QED BY <1>3 DEF MaterializationFailed, u, t

(* PopEvent is composed of changes that evolve.                            *)
LEMMA PopEventEvolves ==
  ASSUME NEW o, NEW st, Evolves(o, st), NEW b
  PROVE  Evolves(o, PopEvent(st, b))
<1> DEFINE e == Head(st.queue[b])
           s == SlotOf(st, b)
           t == [st EXCEPT !.queue[b] = Tail(@),
                   !.use[s].respItems = @ - 1,
                   !.use[s].respBytes = @ - e.size,
                   !.all.respItems = @ - 1,
                   !.all.respBytes = @ - e.size]
<1>1. Quiet(st, t)
  <2> HIDE DEF e, s
  <2> QED BY DEF Quiet, Evolves, IsState, MFields
<1>2. Evolves(o, ReleaseTerminal(t, {b}))
  <2> HIDE DEF t
  <2> QED BY <1>1, QuietEvolves, ReleaseTerminalEvolves
<1> QED BY <1>2 DEF PopEvent

(* EnqueueEvent is composed of changes that evolve.                        *)
LEMMA EnqueueEventEvolves ==
  ASSUME NEW o, NEW st, Evolves(o, st), NEW b, NEW e
  PROVE  Evolves(o, EnqueueEvent(st, b, e))
<1> DEFINE s == SlotOf(st, b)
           t == [st EXCEPT !.queue[b] = Append(@, e),
                   !.use[s].respItems = @ + 1,
                   !.use[s].respBytes = @ + e.size,
                   !.all.respItems = @ + 1,
                   !.all.respBytes = @ + e.size]
<1>1. Quiet(st, t)
  <2> HIDE DEF s
  <2> QED BY DEF Quiet, Evolves, IsState, MFields
<1>2. Evolves(o, SignalBinding(t, {b}))
  <2> HIDE DEF t
  <2> QED BY <1>1, QuietEvolves, SignalBindingEvolves
<1> QED BY <1>2 DEF EnqueueEvent

(* Evict is composed of changes that evolve.                               *)
LEMMA EvictEvolves ==
  ASSUME NEW o, NEW st, Evolves(o, st), NEW b
  PROVE  Evolves(o, Evict(st, b))
BY DetachActiveEvolves, ClearQueueEvolves, DropResultEvolves, InvalidateReadyEvolves, CancelRequestEvolves, PublishTerminalEvolves, ReleaseTerminalEvolves DEF Evict

(* Overflow is composed of changes that evolve.                            *)
LEMMA OverflowEvolves ==
  ASSUME NEW o, NEW st, Evolves(o, st), NEW b, NEW e
  PROVE  Evolves(o, Overflow(st, b, e))
BY EvictEvolves, QueueControlEvolves, EnqueueEventEvolves DEF Overflow

(* Setting binding.remoteClosed keeps what a life must keep.               *)
LEMMA RemoteFlagEvolves ==
  ASSUME NEW o, NEW st, Evolves(o, st), NEW b
  PROVE  Evolves(o, [st EXCEPT !.b[b].remoteClosed = TRUE])
<1> DEFINE t == [st EXCEPT !.b[b].remoteClosed = TRUE]
<1>1. /\ DOMAIN t = MFields /\ t.accepting = st.accepting
      /\ t.drained = st.drained /\ t.nextID = st.nextID
      /\ DOMAIN t.b = Bindings
  BY DEF Evolves, IsState, MFields
<1>2. ASSUME NEW c \in Bindings
      PROVE  IsLife(t.b[c]) /\ Kept(st.b[c], t.b[c])
  <2>1. t.b[c] = IF c = b THEN [st.b[c] EXCEPT !.remoteClosed = TRUE]
                 ELSE st.b[c]
    BY DEF Evolves, IsState, MFields
  <2> HIDE DEF t
  <2> QED BY <2>1 DEF Evolves, IsState, IsLife, Kept, LifeFields
<1> HIDE DEF t
<1>3. LivesOnly(st, t)
  BY <1>1, <1>2 DEF LivesOnly, LivesKept
<1> QED BY <1>3, LivesEvolve DEF t

(* RemoteClose is composed of changes that evolve.                         *)
LEMMA RemoteCloseEvolves ==
  ASSUME NEW o, NEW st, Evolves(o, st), NEW b
  PROVE  Evolves(o, RemoteClose(st, b))
<1> DEFINE t == [st EXCEPT !.b[b].remoteClosed = TRUE]
<1>1. Evolves(o, t)
  BY RemoteFlagEvolves
<1> HIDE DEF t
<1>2. Evolves(o, PublishTerminal(DetachActive(t, {b}), {b}, "nil"))
  BY <1>1, DetachActiveEvolves, PublishTerminalEvolves
<1> QED BY <1>2 DEF RemoteClose, t

(* CrossedClose is composed of changes that evolve.                        *)
LEMMA CrossedCloseEvolves ==
  ASSUME NEW o, NEW st, Evolves(o, st), NEW b
  PROVE  Evolves(o, CrossedClose(st, b))
<1> DEFINE t == [st EXCEPT !.b[b].remoteClosed = TRUE]
<1>1. Evolves(o, t)
  BY RemoteFlagEvolves
<1> HIDE DEF t
<1>2. Evolves(o, FinishClose(CancelBindingControls(CancelRequest(t, {b}), b),
                          b, "nil"))
  BY <1>1, CancelRequestEvolves, CancelBindingControlsEvolves,
     FinishCloseEvolves
<1> QED BY <1>2 DEF CrossedClose, t

(* Deliver is composed of changes that evolve.                             *)
LEMMA DeliverEvolves ==
  ASSUME NEW o, NEW st, Evolves(o, st), NEW b, NEW e
  PROVE  Evolves(o, Deliver(st, b, e))
BY CrossedCloseEvolves, OverflowEvolves, EnqueueEventEvolves, RemoteCloseEvolves DEF Deliver

(* PopOut changes no field the proofs look at.                             *)
LEMMA PopOutEvolves ==
  ASSUME NEW o, NEW st, Evolves(o, st), NEW s
  PROVE  Evolves(o, PopOut(st, s))
<1>1. Quiet(st, PopOut(st, s))
  BY DEF PopOut, Quiet, Evolves, IsState, MFields
<1> QED BY <1>1, QuietEvolves

(* FinishRequest is composed of changes that evolve.                       *)
LEMMA FinishRequestEvolves ==
  ASSUME NEW o, NEW st, Evolves(o, st), NEW s, NEW b, NEW outcome
  PROVE  Evolves(o, FinishRequest(st, s, b, outcome))
<1> DEFINE t == ReleaseCharge(PopOut(st, s), b)
           done == [t EXCEPT !.req[b] = NoRequest]
           rejected == IF st.b[b].localClosing THEN done
                       ELSE [done EXCEPT !.result[b] = "rejected"]
           accepted == SignalBinding([done EXCEPT !.result[b] = "accepted"],
                                     {b})
           refused == PublishTerminal(DetachActive(rejected, {b}), {b},
                                      "rejected")
<1>1. Evolves(o, t)
  BY PopOutEvolves, ReleaseChargeEvolves
<1> HIDE DEF t
<1>2. Evolves(o, done)
  <2>1. Quiet(t, done)
    BY <1>1 DEF Quiet, Evolves, IsState, MFields
  <2> QED BY <1>1, <2>1, QuietEvolves
<1> HIDE DEF done
<1>3. ASSUME NEW x PROVE Evolves(o, [done EXCEPT !.result[b] = x])
  <2>1. Quiet(done, [done EXCEPT !.result[b] = x])
    BY <1>2 DEF Quiet, Evolves, IsState, MFields
  <2> QED BY <1>2, <2>1, QuietEvolves
<1>4. Evolves(o, accepted)
  BY <1>3, SignalBindingEvolves
<1>5. Evolves(o, rejected)
  BY <1>2, <1>3
<1>6. Evolves(o, refused)
  <2> HIDE DEF rejected
  <2> QED BY <1>5, DetachActiveEvolves, PublishTerminalEvolves
<1>7. Evolves(o, [st EXCEPT !.req[b].phase = "materialized"])
  <2>1. Quiet(st, [st EXCEPT !.req[b].phase = "materialized"])
    BY DEF Quiet, Evolves, IsState, MFields
  <2> QED BY <2>1, QuietEvolves
<1>8. \A x : Evolves(o, x) => Evolves(o, SignalSlots(Promote(x), {s}))
  BY PromoteEvolves, SignalSlotsEvolves
<1> HIDE DEF accepted, refused
<1> QED BY <1>2, <1>4, <1>6, <1>7, <1>8
        DEF FinishRequest, accepted, refused, rejected, done, t

(* FinishControl is composed of changes that evolve.                       *)
LEMMA FinishControlEvolves ==
  ASSUME NEW o, NEW st, Evolves(o, st), NEW s, NEW i, NEW outcome
  PROVE  Evolves(o, FinishControl(st, s, i, outcome))
<1> DEFINE done == AddControl(PopOut(st, s), s, -1)
<1>1. Evolves(o, done)
  BY PopOutEvolves, AddControlEvolves
<1> HIDE DEF done
<1>2. Evolves(o, [done EXCEPT !.s[s].probe.submitted = TRUE])
  <2>1. Quiet(done, [done EXCEPT !.s[s].probe.submitted = TRUE])
    BY <1>1 DEF Quiet, Evolves, IsState, MFields
  <2> QED BY <1>1, <2>1, QuietEvolves
<1>3. Evolves(o, FinishClose(done, i.b, done.b[i.b].err))
  BY <1>1, FinishCloseEvolves
<1>4. \A x : Evolves(o, x) => Evolves(o, SignalSlots(x, {s}))
  BY SignalSlotsEvolves
<1> QED BY <1>1, <1>2, <1>3, <1>4 DEF FinishControl, done

(* Setting binding.consumerMode keeps what a life must keep.               *)
LEMMA ModeEvolves ==
  ASSUME NEW o, NEW st, Evolves(o, st), NEW b, NEW mode
  PROVE  Evolves(o, [st EXCEPT !.b[b].mode = mode])
<1> DEFINE t == [st EXCEPT !.b[b].mode = mode]
<1>1. /\ DOMAIN t = MFields /\ t.accepting = st.accepting
      /\ t.drained = st.drained /\ t.nextID = st.nextID
      /\ DOMAIN t.b = Bindings
  BY DEF Evolves, IsState, MFields
<1>2. ASSUME NEW c \in Bindings
      PROVE  IsLife(t.b[c]) /\ Kept(st.b[c], t.b[c])
  <2>1. t.b[c] = IF c = b THEN [st.b[c] EXCEPT !.mode = mode]
                 ELSE st.b[c]
    BY DEF Evolves, IsState, MFields
  <2> HIDE DEF t
  <2> QED BY <2>1 DEF Evolves, IsState, IsLife, Kept, LifeFields
<1> HIDE DEF t
<1>3. LivesOnly(st, t)
  BY <1>1, <1>2 DEF LivesOnly, LivesKept
<1> QED BY <1>3, LivesEvolve DEF t

(* Setting binding.terminalObserved keeps what a life must keep.           *)
LEMMA ObservedEvolves ==
  ASSUME NEW o, NEW st, Evolves(o, st), NEW b
  PROVE  Evolves(o, [st EXCEPT !.b[b].observed = TRUE])
<1> DEFINE t == [st EXCEPT !.b[b].observed = TRUE]
<1>1. /\ DOMAIN t = MFields /\ t.accepting = st.accepting
      /\ t.drained = st.drained /\ t.nextID = st.nextID
      /\ DOMAIN t.b = Bindings
  BY DEF Evolves, IsState, MFields
<1>2. ASSUME NEW c \in Bindings
      PROVE  IsLife(t.b[c]) /\ Kept(st.b[c], t.b[c])
  <2>1. t.b[c] = IF c = b THEN [st.b[c] EXCEPT !.observed = TRUE]
                 ELSE st.b[c]
    BY DEF Evolves, IsState, MFields
  <2> HIDE DEF t
  <2> QED BY <2>1 DEF Evolves, IsState, IsLife, Kept, LifeFields
<1> HIDE DEF t
<1>3. LivesOnly(st, t)
  BY <1>1, <1>2 DEF LivesOnly, LivesKept
<1> QED BY <1>3, LivesEvolve DEF t

(* Setting binding.closeStarted and localClosing keeps what a life must    *)
(* keep.                                                                   *)
LEMMA StartCloseEvolves ==
  ASSUME NEW o, NEW st, Evolves(o, st), NEW b
  PROVE  Evolves(o, [st EXCEPT !.b[b].closeStarted = TRUE,
                             !.b[b].localClosing = TRUE])
<1> DEFINE t == [st EXCEPT !.b[b].closeStarted = TRUE,
                             !.b[b].localClosing = TRUE]
<1>1. /\ DOMAIN t = MFields /\ t.accepting = st.accepting
      /\ t.drained = st.drained /\ t.nextID = st.nextID
      /\ DOMAIN t.b = Bindings
  BY DEF Evolves, IsState, MFields
<1>2. ASSUME NEW c \in Bindings
      PROVE  IsLife(t.b[c]) /\ Kept(st.b[c], t.b[c])
  <2>1. t.b[c] = IF c = b THEN [st.b[c] EXCEPT !.closeStarted = TRUE,
                                      !.localClosing = TRUE]
                 ELSE st.b[c]
    BY DEF Evolves, IsState, MFields
  <2> HIDE DEF t
  <2> QED BY <2>1 DEF Evolves, IsState, IsLife, Kept, LifeFields
<1> HIDE DEF t
<1>3. LivesOnly(st, t)
  BY <1>1, <1>2 DEF LivesOnly, LivesKept
<1> QED BY <1>3, LivesEvolve DEF t

-----------------------------------------------------------------------------
(* One lemma per action that changes m: the manager evolves.               *)

(* Start evolves the manager.                                              *)
LEMMA StartStep ==
  ASSUME IsState(m), Start
  PROVE  Evolves(m, m')
<1>1. Quiet(m, m')
  BY DEF Start, Quiet, IsState, MFields
<1> QED BY <1>1, EvolvesRefl, QuietEvolves

(* StartSucceeds evolves the manager.                                      *)
LEMMA StartSucceedsStep ==
  ASSUME IsState(m), StartSucceeds
  PROVE  Evolves(m, m')
<1>1. Quiet(m, m')
  BY DEF StartSucceeds, Quiet, IsState, MFields
<1> QED BY <1>1, EvolvesRefl, QuietEvolves

(* CloseFinishes evolves the manager.                                      *)
LEMMA CloseFinishesStep ==
  ASSUME IsState(m), CloseFinishes
  PROVE  Evolves(m, m')
<1>1. Quiet(m, m')
  BY DEF CloseFinishes, Quiet, IsState, MFields
<1> QED BY <1>1, EvolvesRefl, QuietEvolves

(* ReceiveReady evolves the manager.                                       *)
LEMMA ReceiveReadyStep ==
  ASSUME IsState(m), ReceiveReady
  PROVE  Evolves(m, m')
<1>1. Quiet(m, m')
  BY DEF ReceiveReady, Quiet, IsState, MFields
<1> QED BY <1>1, EvolvesRefl, QuietEvolves

(* RepairFailedSlots evolves the manager.                                  *)
LEMMA RepairFailedSlotsStep ==
  ASSUME IsState(m), RepairFailedSlots
  PROVE  Evolves(m, m')
<1>1. Quiet(m, m')
  BY DEF RepairFailedSlots, Quiet, IsState, MFields
<1> QED BY <1>1, EvolvesRefl, QuietEvolves

(* BeginTerminal evolves the manager.                                      *)
LEMMA BeginTerminalStep ==
  ASSUME IsState(m), NEW err, BeginTerminal(err)
  PROVE  Evolves(m, m')
BY EvolvesRefl, ManagerClosingEvolves DEF BeginTerminal

(* PrepareProxyRequest evolves the manager.                                *)
LEMMA PrepareProxyRequestStep ==
  ASSUME IsState(m), NEW b, NEW size, PrepareProxyRequest(b, size)
  PROVE  Evolves(m, m')
<1> DEFINE s == SlotOf(m, b)
           a == AppendOut(m, s, Item("req", b, 0))
           st == [a EXCEPT !.req[b] = [NoRequest EXCEPT !.size = size,
                                                       !.owned = TRUE]]
           r == Reserve(st, b)
           w == [st EXCEPT !.req[b].phase = "waiting", !.waitQ = Append(@, b)]
<1>1. Evolves(m, a)
  BY EvolvesRefl, AppendOutEvolves
<1> HIDE DEF a
<1>2. Evolves(m, st)
  <2>1. Quiet(a, st)
    BY <1>1 DEF Quiet, Evolves, IsState, MFields
  <2> QED BY <1>1, <2>1, QuietEvolves
<1> HIDE DEF st
<1>3. Evolves(m, [r EXCEPT !.req[b].phase = "materializing"])
  <2>1. Evolves(m, r)
    BY <1>2, ReserveEvolves
  <2> HIDE DEF r
  <2>2. Quiet(r, [r EXCEPT !.req[b].phase = "materializing"])
    BY <2>1 DEF Quiet, Evolves, IsState, MFields
  <2> QED BY <2>1, <2>2, QuietEvolves
<1>4. Evolves(m, Promote(w))
  <2>1. Quiet(st, w)
    BY <1>2 DEF Quiet, Evolves, IsState, MFields
  <2> HIDE DEF w
  <2> QED BY <1>2, <2>1, QuietEvolves, PromoteEvolves
<1> QED BY <1>3, <1>4 DEF PrepareProxyRequest, st, a

(* FinishMaterialization evolves the manager.                              *)
LEMMA FinishMaterializationStep ==
  ASSUME IsState(m), NEW b, FinishMaterialization(b)
  PROVE  Evolves(m, m')
<1> DEFINE t == [m EXCEPT !.req[b].phase = "materialized",
                          !.req[b].handed = TRUE]
<1>1. Quiet(m, t)
  BY DEF Quiet, IsState, MFields
<1>2. \A S : Evolves(m, SignalSlots(t, S))
  <2> HIDE DEF t
  <2> QED BY <1>1, EvolvesRefl, QuietEvolves, SignalSlotsEvolves
<1>3. Evolves(m, MaterializationFailed(m, b))
  BY EvolvesRefl, MaterializationFailedEvolves
<1> QED BY <1>2, <1>3 DEF FinishMaterialization

(* PrepareReserved evolves the manager.                                    *)
LEMMA PrepareReservedStep ==
  ASSUME IsState(m), NEW b, PrepareReserved(b)
  PROVE  Evolves(m, m')
<1>1. Quiet(m, m')
  BY DEF PrepareReserved, Quiet, IsState, MFields
<1> QED BY <1>1, EvolvesRefl, QuietEvolves

(* PrepareMismatch evolves the manager.                                    *)
LEMMA PrepareMismatchStep ==
  ASSUME IsState(m), NEW b, PrepareMismatch(b)
  PROVE  Evolves(m, m')
BY EvolvesRefl, CancelRequestEvolves, TerminalizeEvolves DEF PrepareMismatch

(* PrepareForeign evolves the manager.                                     *)
LEMMA PrepareForeignStep ==
  ASSUME IsState(m), NEW b, PrepareForeign(b)
  PROVE  Evolves(m, m')
BY EvolvesRefl, CancelRequestEvolves, DetachActiveEvolves, PublishTerminalEvolves, ReleaseTerminalEvolves DEF PrepareForeign

(* TryNextReady evolves the manager.                                       *)
LEMMA TryNextReadyStep ==
  ASSUME IsState(m), TryNextReady
  PROVE  Evolves(m, m')
<1>1. ASSUME NEW b
      PROVE  Evolves(m, [UnlinkReady(m, {b}) EXCEPT !.leased[b] = TRUE])
  <2> DEFINE t == UnlinkReady(m, {b})
  <2>1. Evolves(m, t)
    BY EvolvesRefl, UnlinkReadyEvolves
  <2> HIDE DEF t
  <2>2. Quiet(t, [t EXCEPT !.leased[b] = TRUE])
    BY <2>1 DEF Quiet, Evolves, IsState, MFields
  <2>3. Evolves(m, [t EXCEPT !.leased[b] = TRUE])
    BY <2>1, <2>2, QuietEvolves
  <2> QED BY <2>3 DEF t
<1> QED BY <1>1, EvolvesRefl DEF TryNextReady

(* TakeReservation evolves the manager.                                    *)
LEMMA TakeReservationStep ==
  ASSUME IsState(m), NEW b, TakeReservation(b)
  PROVE  Evolves(m, m')
<1>1. Quiet(m, m')
  BY DEF TakeReservation, Quiet, IsState, MFields
<1> QED BY <1>1, EvolvesRefl, QuietEvolves

(* TakeResult evolves the manager.                                         *)
LEMMA TakeResultStep ==
  ASSUME IsState(m), NEW b, TakeResult(b)
  PROVE  Evolves(m, m')
BY EvolvesRefl, DropResultEvolves, ReleaseTerminalEvolves DEF TakeResult

(* TryNextEvent evolves the manager.                                       *)
LEMMA TryNextEventStep ==
  ASSUME IsState(m), NEW b, TryNextEvent(b)
  PROVE  Evolves(m, m')
BY EvolvesRefl, ModeEvolves, PopEventEvolves DEF TryNextEvent

(* TryTerminal evolves the manager.                                        *)
LEMMA TryTerminalStep ==
  ASSUME IsState(m), NEW b, TryTerminal(b)
  PROVE  Evolves(m, m')
BY EvolvesRefl, ObservedEvolves, ReleaseTerminalEvolves DEF TryTerminal

(* Ack evolves the manager.                                                *)
LEMMA AckStep ==
  ASSUME IsState(m), NEW b, Ack(b)
  PROVE  Evolves(m, m')
<1> DEFINE t == [m EXCEPT !.leased[b] = FALSE]
<1>1. Quiet(m, t)
  BY DEF Quiet, IsState, MFields
<1>2. Evolves(m, ReleaseTerminal(EnqueueReady(t, {b}), {b}))
  <2> HIDE DEF t
  <2> QED BY <1>1, EvolvesRefl, QuietEvolves, EnqueueReadyEvolves,
             ReleaseTerminalEvolves
<1> QED BY <1>2 DEF Ack

(* NextEvent evolves the manager.                                          *)
LEMMA NextEventStep ==
  ASSUME IsState(m), NEW b, NextEvent(b)
  PROVE  Evolves(m, m')
<1> DEFINE st == IF m.b[b].mode = "unset"
                 THEN RefreshReady([m EXCEPT !.b[b].mode = "blocking"], b)
                 ELSE m
<1>1. Evolves(m, st)
  BY EvolvesRefl, ModeEvolves, RefreshReadyEvolves
<1> HIDE DEF st
<1>2. /\ Evolves(m, PopEvent(st, b))
      /\ Evolves(m, ReleaseTerminal([st EXCEPT !.b[b].observed = TRUE], {b}))
  BY <1>1, PopEventEvolves, ObservedEvolves, ReleaseTerminalEvolves
<1> QED BY <1>1, <1>2 DEF NextEvent, st

(* Notified evolves the manager.                                           *)
LEMMA NotifiedStep ==
  ASSUME IsState(m), NEW b, Notified(b)
  PROVE  Evolves(m, m')
<1>1. Quiet(m, m')
  BY DEF Notified, Quiet, IsState, MFields
<1> QED BY <1>1, EvolvesRefl, QuietEvolves

(* BeginClose evolves the manager.                                         *)
LEMMA BeginCloseStep ==
  ASSUME IsState(m), NEW b, BeginClose(b)
  PROVE  Evolves(m, m')
<1> DEFINE s == SlotOf(m, b)
           t == [m EXCEPT !.b[b].closeStarted = TRUE,
                          !.b[b].localClosing = TRUE]
           st1 == InvalidateReady(
                    DropResult(ClearQueue(DetachActive(t, {b}), {b}), {b}),
                    {b})
           st2 == IF m.req[b].owned
                       /\ m.req[b].phase \in {"waiting", "reserved"}
                  THEN CancelRequest(st1, {b}) ELSE st1
<1>1. Evolves(m, t)
  BY EvolvesRefl, StartCloseEvolves
<1> HIDE DEF t
<1>2. Evolves(m, st1)
  BY <1>1, DetachActiveEvolves, ClearQueueEvolves, DropResultEvolves,
     InvalidateReadyEvolves
<1> HIDE DEF st1
<1>3. Evolves(m, st2)
  BY <1>2, CancelRequestEvolves
<1> HIDE DEF st2
<1>4. /\ \A err : Evolves(m, FinishClose(st2, b, err))
      /\ Evolves(m, QueueControl(st2, s, "close", b))
  BY <1>3, FinishCloseEvolves, QueueControlEvolves
<1> QED BY <1>4 DEF BeginClose, st2, st1, t

(* FailSlot evolves the manager.                                           *)
LEMMA FailSlotStep ==
  ASSUME IsState(m), NEW s, NEW reason, FailSlot(s, reason)
  PROVE  Evolves(m, m')
<1> DEFINE t == [m EXCEPT !.s[s].failed = TRUE, !.s[s].reason = reason]
<1>1. Quiet(m, t)
  BY DEF Quiet, IsState, MFields
<1>2. Evolves(m, ManagerClosing(t, "initial"))
  <2> HIDE DEF t
  <2> QED BY <1>1, EvolvesRefl, QuietEvolves, ManagerClosingEvolves
<1>3. Evolves(m, FailReadySlot(m, s, reason))
  BY EvolvesRefl, FailReadySlotEvolves
<1> QED BY <1>2, <1>3, EvolvesRefl DEF FailSlot

(* Dispatch evolves the manager.                                           *)
LEMMA DispatchStep ==
  ASSUME IsState(m), NEW s, Dispatch(s)
  PROVE  Evolves(m, m')
<1> DEFINE i == Head(m.s[s].out)
           attempt(st) ==
             LET st1 == [st EXCEPT !.s[s].attempting = TRUE]
             IN  IF i.kind = "req"
                 THEN [st1 EXCEPT !.req[i.b].phase = "attempting"] ELSE st1
           begin(st) == IF Dispatchable(st, s) THEN attempt(st) ELSE st
           w == [m EXCEPT !.s[s].wake = FALSE]
<1>1. Quiet(m, w)
  BY DEF Quiet, IsState, MFields
<1>2. Evolves(m, m) /\ Evolves(m, w)
  BY <1>1, EvolvesRefl, QuietEvolves
<1>3. ASSUME NEW st, Evolves(m, st) PROVE Evolves(m, begin(st))
  <2> DEFINE st1 == [st EXCEPT !.s[s].attempting = TRUE]
  <2>1. Quiet(st, st1)
    BY <1>3 DEF Quiet, Evolves, IsState, MFields
  <2>2. Evolves(m, st1)
    <3> HIDE DEF st1
    <3> QED BY <1>3, <2>1, QuietEvolves
  <2> HIDE DEF st1
  <2>3. Quiet(st1, [st1 EXCEPT !.req[i.b].phase = "attempting"])
    BY <2>2 DEF Quiet, Evolves, IsState, MFields
  <2>4. Evolves(m, [st1 EXCEPT !.req[i.b].phase = "attempting"])
    BY <2>2, <2>3, QuietEvolves
  <2> QED BY <1>3, <2>2, <2>4 DEF st1
<1>4. m' = begin(w) \/ m' = begin(m)
  BY DEF Dispatch
<1> HIDE DEF begin, w
<1> QED BY <1>2, <1>3, <1>4

(* FinishAttempt evolves the manager.                                      *)
LEMMA FinishAttemptStep ==
  ASSUME IsState(m), NEW s, FinishAttempt(s)
  PROVE  Evolves(m, m')
<1> DEFINE i == Head(m.s[s].out)
           st == [m EXCEPT !.s[s].attempting = FALSE]
<1>1. Quiet(m, st)
  BY DEF Quiet, IsState, MFields
<1> HIDE DEF st
<1>2. Evolves(m, st)
  BY <1>1, EvolvesRefl, QuietEvolves
<1>3. \A x : /\ Evolves(m, FinishRequest(st, s, i.b, x))
             /\ Evolves(m, FinishControl(st, s, i, x))
  BY <1>2, FinishRequestEvolves, FinishControlEvolves
<1>4. \E x : m' = IF i.kind = "req" THEN FinishRequest(st, s, i.b, x)
                  ELSE FinishControl(st, s, i, x)
  BY DEF FinishAttempt, st
<1> QED BY <1>3, <1>4

(* RouteEvent evolves the manager.                                         *)
LEMMA RouteEventStep ==
  ASSUME IsState(m), NEW s, NEW b, NEW e, RouteEvent(s, b, e)
  PROVE  Evolves(m, m')
BY EvolvesRefl, DeliverEvolves, QueueControlEvolves DEF RouteEvent

(* RoutePong evolves the manager.                                          *)
LEMMA RoutePongStep ==
  ASSUME IsState(m), NEW s, RoutePong(s)
  PROVE  Evolves(m, m')
BY EvolvesRefl, CompleteProbeEvolves DEF RoutePong

(* StartProbe evolves the manager.                                         *)
LEMMA StartProbeStep ==
  ASSUME IsState(m), NEW s, StartProbe(s)
  PROVE  Evolves(m, m')
<1> DEFINE id == m.probeID + 1
           t == [m EXCEPT !.probeID = id,
                          !.s[s].probe = [NoProbe EXCEPT
                             !.id = id, !.done = FALSE]]
<1>1. Quiet(m, t)
  BY DEF Quiet, IsState, MFields
<1>2. Evolves(m, PutControl(t, s, Item("probe", 0, id)))
  <2> HIDE DEF t, id
  <2> QED BY <1>1, EvolvesRefl, QuietEvolves, PutControlEvolves
<1> QED BY <1>2 DEF StartProbe

(* ProbeExpires evolves the manager.                                       *)
LEMMA ProbeExpiresStep ==
  ASSUME IsState(m), NEW s, NEW next, ProbeExpires(s, next)
  PROVE  Evolves(m, m')
BY EvolvesRefl, CompleteProbeEvolves DEF ProbeExpires

(* RepairFails evolves the manager.                                        *)
LEMMA RepairFailsStep ==
  ASSUME IsState(m), NEW s, RepairFails(s)
  PROVE  Evolves(m, m')
<1>1. Quiet(m, m')
  BY DEF RepairFails, Quiet, IsState, MFields
<1> QED BY <1>1, EvolvesRefl, QuietEvolves

(* RepairSucceeds evolves the manager.                                     *)
LEMMA RepairSucceedsStep ==
  ASSUME IsState(m), NEW s, RepairSucceeds(s)
  PROVE  Evolves(m, m')
<1>1. Quiet(m, m')
  BY DEF RepairSucceeds, Quiet, IsState, MFields
<1> QED BY <1>1, EvolvesRefl, QuietEvolves

-----------------------------------------------------------------------------
(* The steps of the manager.                                               *)

(* A step of a slot's consumer evolves the manager.                        *)
LEMMA ConsumerStep ==
  ASSUME IsState(m), NEW s \in Slots, Consumer(s)
  PROVE  Evolves(m, m')
<1>1. CASE Dispatch(s)
  BY <1>1, DispatchStep
<1>2. CASE FinishAttempt(s)
  BY <1>2, FinishAttemptStep
<1>3. CASE ConsumerFails(s)
  BY <1>3, FailSlotStep DEF ConsumerFails
<1>4. CASE ConsumerExits(s)
  BY <1>4, FailSlotStep DEF ConsumerExits
<1>5. CASE \E b \in Bindings, e \in Events : RouteEvent(s, b, e)
  BY <1>5, RouteEventStep
<1>6. CASE RouteProtocolError(s)
  BY <1>6, EvolvesRefl DEF RouteProtocolError
<1>7. CASE RoutePong(s)
  BY <1>7, RoutePongStep
<1> QED BY <1>1, <1>2, <1>3, <1>4, <1>5, <1>6, <1>7 DEF Consumer

(* A client's call evolves the manager.                                    *)
LEMMA ClientStep ==
  ASSUME IsState(m), NEW b \in Bindings, Client(b)
  PROVE  Evolves(m, m')
BY PrepareProxyRequestStep, FinishMaterializationStep, PrepareReservedStep,
   PrepareMismatchStep, PrepareForeignStep, TakeReservationStep,
   TakeResultStep, TryNextEventStep, TryTerminalStep, AckStep, NextEventStep,
   NotifiedStep, BeginCloseStep
DEF Client

(* A step of a prober, a repair or a link evolves the manager.             *)
LEMMA GoroutineStep ==
  ASSUME IsState(m), NEW s \in Slots,
         Prober(s) \/ Repairer(s) \/ LinkLost(s) \/ LinkDrains(s)
  PROVE  Evolves(m, m')
<1>1. CASE Prober(s)
  BY <1>1, StartProbeStep, ProbeExpiresStep, FailSlotStep, EvolvesRefl
  DEF Prober, ProbeReturns, ProbeFails
<1>2. CASE Repairer(s)
  BY <1>2, RepairFailsStep, RepairSucceedsStep, EvolvesRefl
  DEF Repairer, RepairProceeds
<1>3. CASE LinkLost(s) \/ LinkDrains(s)
  BY <1>3, EvolvesRefl DEF LinkLost, LinkDrains
<1> QED BY <1>1, <1>2, <1>3

(* Starting and closing evolve the manager.                                *)
LEMMA LifecycleStep ==
  ASSUME IsState(m), Lifecycle, ~Quiesce
  PROVE  Evolves(m, m')
BY StartStep, StartSucceedsStep, BeginTerminalStep, CloseFinishesStep,
   EvolvesRefl
DEF Lifecycle, CloseLinks

(* Every step that neither admits a binding nor stops admission evolves.   *)
LEMMA NextStep ==
  ASSUME IsState(m), [Next]_vars, ~Quiesce,
         \A d \in DCs, mode \in Modes : ~Bind(d, mode)
  PROVE  Evolves(m, m')
<1>1. CASE UNCHANGED vars
  BY <1>1, EvolvesRefl DEF vars
<1>2. CASE Lifecycle
  BY <1>2, LifecycleStep
<1>3. CASE \E b \in Bindings : Client(b)
  BY <1>3, ClientStep
<1>4. CASE ReceiveReady \/ TryNextReady \/ RepairFailedSlots
  BY <1>4, ReceiveReadyStep, TryNextReadyStep, RepairFailedSlotsStep
<1>5. CASE \E s \in Slots : Consumer(s)
  BY <1>5, ConsumerStep
<1>6. CASE \E s \in Slots : Prober(s) \/ Repairer(s) \/ LinkLost(s)
                              \/ LinkDrains(s)
  BY <1>6, GoroutineStep
<1> QED BY <1>1, <1>2, <1>3, <1>4, <1>5, <1>6 DEF Next

(* Quiesce stops admission; drained is closed when nobody is resident.     *)
LEMMA QuiesceStep ==
  ASSUME IsState(m), Quiesce
  PROVE  /\ IsState(m') /\ LivesKept(m, m')
         /\ DrainedIsFinal => DrainedIsFinal'
<1> DEFINE t == [m EXCEPT !.accepting = FALSE]
<1>1. /\ DOMAIN t = MFields /\ t.b = m.b /\ t.accepting = FALSE
      /\ t.drained = m.drained /\ t.nextID = m.nextID
  BY DEF IsState, MFields
<1>2. m' = PublishDrained(t)
  BY DEF Quiesce
<1> HIDE DEF t
<1>3. IsState(t)
  BY <1>1 DEF IsState
<1>4. Evolves(t, m')
  BY <1>2, <1>3, EvolvesRefl, PublishDrainedEvolves
<1>5. DrainedIsFinal => DrainSound(t)
  BY <1>1 DEF DrainedIsFinal, DrainSound, Residents
<1> QED BY <1>1, <1>4, <1>5 DEF Evolves, LivesKept, DrainedIsFinal, DrainSound

(* bind replaces only the entry of the connection ID it allocates.         *)
LEMMA BindStep ==
  ASSUME IsState(m), NEW d, NEW mode, Bind(d, mode)
  PROVE  /\ IsState(m')
         /\ \A b \in Bindings : Allocated(b) => m'.b[b] = m.b[b]
         /\ DrainedIsFinal => DrainedIsFinal'
<1> DEFINE n == m.nextID
<1>1. PICK i, g : m' = [m EXCEPT
         !.nextID = n + 1,
         !.bindNext[d] = i % Len(g),
         !.b[n] = [NoBinding EXCEPT !.slot = g[i], !.mode = mode,
                                    !.resident = TRUE, !.active = TRUE],
         !.use[g[i]].resident = @ + 1,
         !.all.resident = @ + 1]
  BY DEF Bind
<1>2. m.accepting /\ n \in Bindings
  BY DEF Bind
<1> DEFINE x == i % Len(g)  k == g[i]
           life == [NoBinding EXCEPT !.slot = k, !.mode = mode,
                                     !.resident = TRUE, !.active = TRUE]
<1>3. IsLife(life)
  BY DEF IsLife, NoBinding, LifeFields
<1> HIDE DEF life, x, k
<1>4. m' = [m EXCEPT !.nextID = n + 1, !.bindNext[d] = x, !.b[n] = life,
                     !.use[k].resident = @ + 1, !.all.resident = @ + 1]
  BY <1>1 DEF life, x, k
<1>5. /\ DOMAIN m' = MFields /\ m'.nextID = n + 1
      /\ m'.accepting = m.accepting /\ m'.drained = m.drained
  BY <1>4 DEF IsState, MFields
<1>6. DOMAIN m'.b = Bindings
  BY <1>4 DEF IsState, MFields
<1>7. \A b \in Bindings : m'.b[b] = IF b = n THEN life ELSE m.b[b]
  BY <1>4 DEF IsState, MFields
<1>8. IsState(m')
  BY <1>3, <1>5, <1>6, <1>7 DEF IsState
<1>9. \A b \in Bindings : Allocated(b) => m'.b[b] = m.b[b]
  BY <1>7 DEF Allocated, Bindings, IsState
<1>10. DrainedIsFinal => DrainedIsFinal'
  BY <1>2, <1>5 DEF DrainedIsFinal
<1> QED BY <1>8, <1>9, <1>10

-----------------------------------------------------------------------------
(* The inductive invariant: the shape of the state and DrainedIsFinal.     *)
LifeInv == IsState(m) /\ DrainedIsFinal

(* newFixedBindingManager establishes the inductive invariant.             *)
LEMMA LifeInit == Init => LifeInv
<1> SUFFICES ASSUME Init PROVE LifeInv
  OBVIOUS
<1>1. /\ DOMAIN m = MFields /\ m.accepting = TRUE /\ m.drained = FALSE
      /\ m.nextID = 1 /\ m.b = [b \in Bindings |-> NoBinding]
  BY DEF Init, MFields
<1>2. IsLife(NoBinding)
  BY DEF IsLife, NoBinding, LifeFields
<1>3. DOMAIN m.b = Bindings /\ \A b \in Bindings : IsLife(m.b[b])
  BY <1>1, <1>2
<1>4. IsState(m)
  <2>1. m.accepting \in BOOLEAN /\ m.drained \in BOOLEAN
    BY <1>1, Zenon
  <2>2. m.nextID \in Nat
    BY <1>1
  <2> QED BY <1>1, <1>3, <2>1, <2>2 DEF IsState
<1>5. DrainedIsFinal
  BY <1>1 DEF DrainedIsFinal
<1> QED BY <1>4, <1>5 DEF LifeInv

(* Every step keeps the invariant, and what the life of an allocated       *)
(* binding may never undo.                                                 *)
LEMMA LifeNext ==
  ASSUME LifeInv, [Next]_vars
  PROVE  /\ LifeInv'
         /\ \A b \in Bindings : Allocated(b) => Kept(m.b[b], m'.b[b])
<1>1. CASE \E d \in DCs, mode \in Modes : Bind(d, mode)
  <2>1. /\ IsState(m')
        /\ \A b \in Bindings : Allocated(b) => m'.b[b] = m.b[b]
        /\ DrainedIsFinal => DrainedIsFinal'
    BY <1>1, BindStep DEF LifeInv
  <2> QED BY <2>1 DEF LifeInv, Kept
<1>2. CASE Quiesce
  BY <1>2, QuiesceStep DEF LifeInv, LivesKept
<1>3. CASE ~Quiesce /\ \A d \in DCs, mode \in Modes : ~Bind(d, mode)
  <2>1. Evolves(m, m')
    BY <1>3, NextStep DEF LifeInv
  <2> QED BY <2>1 DEF LifeInv, Evolves, LivesKept, DrainedIsFinal, DrainSound
<1> QED BY <1>1, <1>2, <1>3

(* Once Quiesce's channel is closed the manager never holds a binding      *)
(* again, whatever races with the last release.                            *)
THEOREM DrainedIsFinalHolds == Spec => []DrainedIsFinal
<1>1. LifeInv /\ [Next]_vars => LifeInv'
  BY LifeNext
<1> QED BY LifeInit, <1>1, PTL DEF Spec, LifeInv

(* A binding keeps its slot, its first error, its terminal state and its   *)
(* close result, and is never active or resident again after it left.      *)
THEOREM StickyHolds == Spec => Sticky
<1>1. LifeInv /\ [Next]_vars => LifeInv'
  BY LifeNext
<1>2. LifeInv /\ [Next]_vars =>
        [\A b \in Bindings : Allocated(b) => Kept(m.b[b], m'.b[b])]_vars
  BY LifeNext
<1> QED BY LifeInit, <1>1, <1>2, PTL DEF Spec, Sticky

-----------------------------------------------------------------------------
(***************************************************************************)
(* Proofs about what the fixed-binding manager does for its clients:       *)
(* NoLostReadiness, SubmittedOnceInOrder and FailureIsIsolated.            *)
(*                                                                         *)
(* Each "...Locked" method is a map between states of the manager, so the  *)
(* invariant of a critical section is a predicate on such states: Sound.   *)
(* It relates the state st to the state o in which the section began, and  *)
(* allows exceptions while the section runs: the bindings of X may have an *)
(* unreported reason, those of Y an undelivered notification, and those of *)
(* Q stay quiet.  There is one lemma per method (...Sound), which says how *)
(* it moves the exceptions; an action composes the lemmas as its critical  *)
(* section composes the methods, and ends with no exceptions left          *)
(* (Settled).  What happens to canceled requests is tracked the same way   *)
(* (Holds, Orphaned, Retires).                                             *)
(***************************************************************************)

(* Connection IDs and slots are finitely many.                             *)
LEMMA BindingsFinite == IsFiniteSet(Bindings) /\ IsFiniteSet(Slots)
BY FS_Interval, ConstantsAssumption DEF Bindings, Slots

(* SetToSeq lists every element of a finite set.                           *)
LEMMA SetToSeqLaw ==
  ASSUME NEW S, IsFiniteSet(S)
  PROVE  SetToSeq(S) \in Seq(S) /\ Elements(SetToSeq(S)) = S
<1> DEFINE n == Cardinality(S)
           q == SetToSeq(S)
<1>1. \E f \in Injection(1..n, S) : TRUE
  BY Enumerable
<1>2. q \in Injection(1..n, S)
  BY <1>1 DEF SetToSeq, Injection, IsInjective
<1> HIDE DEF q
<1>3. q \in Seq(S) /\ Elements(q) = S
  BY <1>2, EnumerationLaw
<1> QED
  BY <1>3 DEF q

-----------------------------------------------------------------------------
(* What each operator of the readiness queue and of the lives does to the  *)
(* fields of the manager.                                                  *)

(* The bindings of B that enqueueReadyLocked links.                        *)
Newly(st, B) == {b \in B : /\ ~IsQueued(st, b)
                           /\ ~st.leased[b]
                           /\ HasReadyReason(st, b)}

(* What enqueueReadyLocked changes.                                        *)
LEMMA EnqueueReadyLaw ==
  ASSUME NEW st, IsState(st), st.readyQ \in Seq(Bindings),
         NEW B, B \subseteq Bindings
  PROVE  /\ Same(st, EnqueueReady(st, B), {"readyQ", "readySig"})
         /\ EnqueueReady(st, B).readyQ \in Seq(Bindings)
         /\ Elements(EnqueueReady(st, B).readyQ)
              = Elements(st.readyQ) \cup Newly(st, B)
         /\ EnqueueReady(st, B).readySig = (st.readySig \/ Newly(st, B) # {})
<1> DEFINE N == Newly(st, B)
           t == EnqueueReady(st, B)
<1>1. t = [st EXCEPT !.readyQ = @ \o SetToSeq(N), !.readySig = @ \/ N # {}]
  BY DEF EnqueueReady, Newly
<1>2. N \subseteq Bindings /\ IsFiniteSet(N)
  BY BindingsFinite, FS_Subset DEF Newly
<1> HIDE DEF N, t
<1>3. SetToSeq(N) \in Seq(Bindings) /\ Elements(SetToSeq(N)) = N
  <2>1. \A q \in Seq(N) : q \in Seq(Bindings)
    BY <1>2
  <2> QED
    BY <1>2, <2>1, SetToSeqLaw
<1>4. /\ st.readyQ \o SetToSeq(N) \in Seq(Bindings)
      /\ Elements(st.readyQ \o SetToSeq(N)) = Elements(st.readyQ) \cup N
  BY <1>3, ElementsConcat
<1>5. /\ t.readyQ = st.readyQ \o SetToSeq(N)
      /\ t.readySig = (st.readySig \/ N # {})
      /\ Same(st, t, {"readyQ", "readySig"})
  BY <1>1 DEF IsState, MFields, Same
<1> QED
  BY <1>4, <1>5 DEF N, t

(* What unlinkReadyLocked changes.                                         *)
LEMMA UnlinkReadyLaw ==
  ASSUME NEW st, IsState(st), st.readyQ \in Seq(Bindings), NEW B
  PROVE  /\ Same(st, UnlinkReady(st, B), {"readyQ", "readySig"})
         /\ UnlinkReady(st, B).readyQ \in Seq(Bindings)
         /\ Elements(UnlinkReady(st, B).readyQ) = Elements(st.readyQ) \ B
         /\ st.readySig \in BOOLEAN => UnlinkReady(st, B).readySig \in BOOLEAN
         /\ st.readySig => UnlinkReady(st, B).readySig
<1> DEFINE U == {b \in B : IsQueued(st, b)}
           Q == Excluding(st.readyQ, U)
           t == UnlinkReady(st, B)
<1>1. Q \in Seq(Bindings) /\ Elements(Q) = Elements(st.readyQ) \ U
  BY ExcludingLaw
<1>2. Elements(st.readyQ) \ U = Elements(st.readyQ) \ B
  BY DEF IsQueued
<1>3. t = [st EXCEPT !.readyQ = Q, !.readySig = @ \/ (U # {} /\ Q # <<>>)]
  BY DEF UnlinkReady
<1> HIDE DEF U, Q, t
<1>4. /\ t.readyQ = Q
      /\ t.readySig = (st.readySig \/ (U # {} /\ Q # <<>>))
      /\ Same(st, t, {"readyQ", "readySig"})
  BY <1>3 DEF IsState, MFields, Same
<1> QED
  BY <1>1, <1>2, <1>4 DEF t

(* What signalSlotLocked changes.                                          *)
LEMMA SignalSlotsLaw ==
  ASSUME NEW st, IsState(st), NEW S
  PROVE  /\ Same(st, SignalSlots(st, S), {"s"})
         /\ SignalSlots(st, S).s
              = [s \in Slots |-> [st.s[s] EXCEPT !.wake = @ \/ s \in S]]
BY DEF SignalSlots, IsState, MFields, Same

(* What releaseBindingResidentLocked changes.                              *)
LEMMA ReleaseResidentLaw ==
  ASSUME NEW st, IsState(st), NEW B
  PROVE  /\ Same(st, ReleaseResident(st, B), {"b", "drained", "use", "all"})
         /\ \A b \in Bindings : ReleaseResident(st, B).b[b]
              = IF b \in B /\ st.b[b].resident
                THEN [st.b[b] EXCEPT !.resident = FALSE] ELSE st.b[b]
<1> DEFINE R == {b \in B : st.b[b].resident}
           n(s) == Cardinality({b \in R : SlotOf(st, b) = s})
           t == [st EXCEPT
                  !.b = [b \in Bindings |->
                     IF b \in R THEN [@[b] EXCEPT !.resident = FALSE] ELSE @[b]],
                  !.use = [s \in Slots |-> [st.use[s] EXCEPT !.resident = @ - n(s)]],
                  !.all.resident = @ - Cardinality(R)]
           u == PublishDrained(t)
           r == ReleaseResident(st, B)
<1>1. r = IF R = {} THEN st ELSE u
  BY DEF ReleaseResident
<1>2. \A b \in Bindings : b \in R <=> b \in B /\ st.b[b].resident
  OBVIOUS
<1> HIDE DEF R, n, r
<1>3. /\ Same(st, t, {"b", "use", "all"})
      /\ \A b \in Bindings : t.b[b] =
            IF b \in R THEN [st.b[b] EXCEPT !.resident = FALSE] ELSE st.b[b]
  BY DEF IsState, MFields, Same
<1> HIDE DEF t
<1>4. Same(t, u, {"drained"})
  BY <1>3 DEF PublishDrained, MFields, Same
<1> HIDE DEF u
<1>5. CASE R = {}
  <2>1. r = st
    BY <1>1, <1>5
  <2> QED
    BY <1>2, <1>5, <2>1 DEF r, Same, IsState
<1>6. CASE R # {}
  <2>1. r = u
    BY <1>1, <1>6
  <2>2. u.b = t.b
    BY <1>4 DEF Same, MFields
  <2>3. Same(st, u, {"b", "drained", "use", "all"})
    BY <1>3, <1>4 DEF Same
  <2> QED
    BY <1>2, <1>3, <2>1, <2>2, <2>3 DEF r
<1> QED
  BY <1>5, <1>6

(* What detachActiveBindingLocked changes.                                 *)
LEMMA DetachActiveLaw ==
  ASSUME NEW st, IsState(st), NEW B
  PROVE  /\ Same(st, DetachActive(st, B), {"b"})
         /\ \A b \in Bindings : DetachActive(st, B).b[b]
              = IF b \in B THEN [st.b[b] EXCEPT !.active = FALSE] ELSE st.b[b]
BY DEF DetachActive, IsState, MFields, Same

(* A life whose close has its result.                                      *)
WithClose(l, err) == [l EXCEPT !.closeSet = TRUE, !.closeErr = err]

(* What publishBindingCloseLocked changes.                                 *)
LEMMA PublishCloseLaw ==
  ASSUME NEW st, IsState(st), NEW B, NEW err
  PROVE  /\ Same(st, PublishClose(st, B, err), {"b"})
         /\ \A b \in Bindings : PublishClose(st, B, err).b[b]
              = IF b \in B /\ ~st.b[b].closeSet
                THEN WithClose(st.b[b], err) ELSE st.b[b]
BY DEF PublishClose, WithClose, IsState, MFields, Same

(* What clearBindingQueueLocked changes.                                   *)
LEMMA ClearQueueLaw ==
  ASSUME NEW st, IsState(st), NEW B
  PROVE  /\ Same(st, ClearQueue(st, B), {"queue", "use", "all"})
         /\ ClearQueue(st, B).queue
              = [b \in Bindings |-> IF b \in B THEN <<>> ELSE st.queue[b]]
BY DEF ClearQueue, IsState, MFields, Same

(* What dropping the results changes.                                      *)
LEMMA DropResultLaw ==
  ASSUME NEW st, IsState(st), NEW B
  PROVE  /\ Same(st, DropResult(st, B), {"result"})
         /\ DropResult(st, B).result
              = [b \in Bindings |-> IF b \in B THEN "none" ELSE st.result[b]]
BY DEF DropResult, IsState, MFields, Same

(* What a control charge changes.                                          *)
LEMMA AddControlLaw ==
  ASSUME NEW st, IsState(st), NEW s, NEW n
  PROVE  Same(st, AddControl(st, s, n), {"use", "all"})
BY DEF AddControl, IsState, MFields, Same

-----------------------------------------------------------------------------
(* The parts of the invariant that a change leaves alone.                  *)

(* Changes that leave the FIFOs and the requests alone.                    *)
LEMMA FifoCong ==
  ASSUME NEW o, NEW st, NEW X, NEW Y, NEW Q, Sound(o, st, X, Y, Q),
         NEW t, Evolves(o, t), t.s = st.s, t.req = st.req,
         t.waitQ = st.waitQ, t.state = st.state,
         \A b \in Bindings : /\ t.b[b].active => st.b[b].active
                             /\ LifeOK(t.b[b]),
         \A b \in Bindings : /\ t.result[b] \in {"none", st.result[b]}
                             /\ t.queue[b] \in {<<>>, st.queue[b]}
  PROVE  Fifo(t) /\ Inherits(o, t)
<1>1. \A b \in Bindings : t.b[b].slot = st.b[b].slot
  BY DEF Sound, Evolves, LivesKept, Kept
<1>2. \A b \in Bindings : st.b[b].closeStarted => t.b[b].closeStarted
  BY DEF Sound, SameClosing, Evolves, LivesKept, Kept
<1>3. FifoType(t)
  BY DEF Sound, Fifo, FifoType, Out
<1>4. t.nextID = st.nextID
  BY DEF Sound, Evolves
<1>5. \A s \in Slots, i \in OutItems : ItemOpen(st, s, i) => ItemOpen(t, s, i)
  BY <1>1, <1>2, <1>4 DEF ItemOpen
<1>6. ItemsOpen(t)
  BY <1>5 DEF Sound, Fifo, FifoType, ItemsOpen, Out
<1>7. HeadSubmitted(t)
  BY <1>1 DEF Sound, Fifo, HeadSubmitted, Out
<1>8. WaitersOpen(t)
  BY DEF Sound, Fifo, WaitersOpen
<1>9. Inherits(o, t)
  BY DEF Sound, Inherits, Carries, Out
<1>10. Unborn(t)
  BY <1>1, <1>4 DEF Sound, Fifo, Unborn
<1> QED
  BY <1>3, <1>6, <1>7, <1>8, <1>9, <1>10 DEF Sound, Fifo

(* Weaker guarantees follow from stronger ones.                            *)
LEMMA SoundMono ==
  ASSUME NEW o, NEW st, NEW X, NEW Y, NEW Q, Sound(o, st, X, Y, Q),
         NEW X2, X \subseteq X2, NEW Y2, Y \subseteq Y2,
         NEW Q2, Q2 \subseteq Q
  PROVE  Sound(o, st, X2, Y2, Q2)
<1>1. Heard(st, X2, Y2, Q2)
  BY DEF Sound, Heard
<1> QED
  BY <1>1 DEF Sound

(* Bindings found quiet.                                                   *)
LEMMA SoundQuiet ==
  ASSUME NEW o, NEW st, NEW X, NEW Y, NEW Q, Sound(o, st, X, Y, Q),
         NEW B, B \subseteq Bindings, \A b \in B : Quietened(st, b)
  PROVE  Sound(o, st, X, Y, Q \cup B)
<1>1. Heard(st, X, Y, Q \cup B)
  BY DEF Sound, Heard
<1> QED
  BY <1>1 DEF Sound

(* What a life tells the readers of readiness tokens.                      *)
SameVoice(l, k) ==
  /\ k.mode = l.mode /\ k.terminal = l.terminal /\ k.observed = l.observed
  /\ k.closeStarted = l.closeStarted /\ k.localClosing = l.localClosing
  /\ k.active => l.active /\ k.resident = l.resident
  /\ k.active => (k.remoteClosed => l.remoteClosed)

(* A change of the lives that readiness does not depend on.                *)
LEMMA SoundLives ==
  ASSUME NEW o, NEW st, NEW X, NEW Y, NEW Q, Sound(o, st, X, Y, Q),
         NEW t, Evolves(o, t),
         Same(st, t, {"b", "drained", "use", "all", "err", "probeID"}),
         \A b \in Bindings : SameVoice(st.b[b], t.b[b])
  PROVE  Sound(o, t, X, Y, Q)
<1>1. /\ t.s = st.s /\ t.req = st.req /\ t.waitQ = st.waitQ
      /\ t.queue = st.queue /\ t.result = st.result /\ t.leased = st.leased
      /\ t.notify = st.notify /\ t.readyQ = st.readyQ
      /\ t.readySig = st.readySig /\ t.state = st.state
  BY DEF Same, MFields
<1>2. Fifo(t) /\ Inherits(o, t)
  <2>1. \A b \in Bindings : /\ t.b[b].active => st.b[b].active
                            /\ LifeOK(t.b[b])
    BY DEF SameVoice, Sound, Fifo, LifeOK
  <2> QED
    BY <1>1, <2>1, FifoCong
<1>3. SameClosing(o, t)
  BY DEF Sound, SameClosing, SameVoice
<1>4. \A b \in Bindings : HasReadyReason(t, b) => HasReadyReason(st, b)
  BY <1>1 DEF HasReadyReason, SameVoice
<1>5. \A b \in Bindings : t.b[b].terminal = st.b[b].terminal
  BY DEF SameVoice
<1>6. Heard(t, X, Y, Q)
  BY <1>1, <1>4, <1>5 DEF Sound, Heard, IsQueued, Quietened
<1> QED
  BY <1>2, <1>3, <1>6 DEF Sound

(* A change of the slots that readiness does not depend on.                *)
LEMMA SoundSlots ==
  ASSUME NEW o, NEW st, NEW X, NEW Y, NEW Q, Sound(o, st, X, Y, Q),
         NEW t, Evolves(o, t), Same(st, t, {"s", "use", "all", "probeID"}),
         Fifo(t), Inherits(o, t)
  PROVE  Sound(o, t, X, Y, Q)
<1>1. /\ t.req = st.req /\ t.b = st.b
      /\ t.queue = st.queue /\ t.result = st.result /\ t.leased = st.leased
      /\ t.notify = st.notify /\ t.readyQ = st.readyQ
      /\ t.readySig = st.readySig
  BY DEF Same, MFields
<1>2. \A b \in Bindings : HasReadyReason(t, b) => HasReadyReason(st, b)
  BY <1>1 DEF HasReadyReason
<1>3. Heard(t, X, Y, Q)
  BY <1>1, <1>2 DEF Sound, Heard, IsQueued, Quietened
<1> QED
  BY <1>1, <1>3 DEF Sound, SameClosing

(* The slots of t differ from those of st in flags that are no part of     *)
(* the FIFOs.                                                              *)
SameFifos(st, t) ==
  /\ DOMAIN t.s = Slots
  /\ \A s \in Slots : /\ DOMAIN t.s[s] = SlotFields
                      /\ Out(t, s) = Out(st, s)
                      /\ t.s[s].attempting = st.s[s].attempting
                      /\ t.s[s].failed => st.s[s].failed

(* A change of the slots' flags.                                           *)
LEMMA SoundFlags ==
  ASSUME NEW o, NEW st, NEW X, NEW Y, NEW Q, Sound(o, st, X, Y, Q),
         NEW t, Evolves(o, t), Same(st, t, {"s", "use", "all", "probeID"}),
         SameFifos(st, t)
  PROVE  Sound(o, t, X, Y, Q)
<1>1. /\ t.req = st.req /\ t.waitQ = st.waitQ /\ t.b = st.b
      /\ t.state = st.state /\ t.result = st.result
      /\ t.queue = st.queue /\ t.nextID = st.nextID
  BY DEF Same, MFields
<1>2. FifoType(t)
  BY <1>1 DEF Sound, Fifo, FifoType, SameFifos
<1>3. ItemsOpen(t)
  BY <1>1 DEF Sound, Fifo, ItemsOpen, ItemOpen, SameFifos
<1>4. HeadSubmitted(t)
  BY <1>1 DEF Sound, Fifo, HeadSubmitted, SameFifos
<1>5. WaitersOpen(t)
  BY <1>1 DEF Sound, Fifo, WaitersOpen
<1>6. Fifo(t)
  BY <1>1, <1>2, <1>3, <1>4, <1>5 DEF Sound, Fifo, Unborn
<1>7. Inherits(o, t)
  BY <1>1 DEF Sound, Inherits, Carries, SameFifos
<1> QED
  BY <1>6, <1>7, SoundSlots

-----------------------------------------------------------------------------
(* One lemma per operator: what it does to the guarantees.                 *)

(* A change of the readiness queue leaves the reasons as they were.        *)
LEMMA ReadyFrame ==
  ASSUME NEW o, NEW st, NEW X, NEW Y, NEW Q, Sound(o, st, X, Y, Q),
         NEW t, Evolves(o, t),
         Same(st, t, {"readyQ", "readySig", "leased", "notify"})
  PROVE  /\ Fifo(t) /\ SameClosing(o, t) /\ Inherits(o, t)
         /\ t.b = st.b /\ t.queue = st.queue /\ t.result = st.result
         /\ \A b \in Bindings : HasReadyReason(t, b) <=> HasReadyReason(st, b)
         /\ \A b \in Q : Quietened(t, b)
<1>1. /\ t.s = st.s /\ t.req = st.req /\ t.waitQ = st.waitQ
      /\ t.queue = st.queue /\ t.result = st.result /\ t.b = st.b
      /\ t.state = st.state
  BY DEF Same, MFields
<1>2. Fifo(t) /\ Inherits(o, t)
  <2>1. \A b \in Bindings : LifeOK(st.b[b])
    BY DEF Sound, Fifo
  <2> QED
    BY <1>1, <2>1, FifoCong
<1> QED
  BY <1>1, <1>2 DEF Sound, SameClosing, HasReadyReason, Quietened, Heard

(* Every reason of B is reported.                                          *)
LEMMA EnqueueReadySound ==
  ASSUME NEW o, NEW st, NEW X, NEW Y, NEW Q, Sound(o, st, X, Y, Q),
         NEW B, B \subseteq Bindings
  PROVE  Sound(o, EnqueueReady(st, B), X \ B, Y, Q)
<1> DEFINE t == EnqueueReady(st, B)
           N == Newly(st, B)
<1>1. Evolves(o, t) /\ IsState(st) /\ st.readyQ \in Seq(Bindings)
  BY EnqueueReadyEvolves DEF Sound, Evolves, Heard
<1>2. /\ Same(st, t, {"readyQ", "readySig"})
      /\ t.readyQ \in Seq(Bindings)
      /\ Elements(t.readyQ) = Elements(st.readyQ) \cup N
      /\ t.readySig = (st.readySig \/ N # {})
  BY <1>1, EnqueueReadyLaw
<1>3. \A b \in B : IsQueued(st, b) \/ st.leased[b] \/ ~HasReadyReason(st, b)
                     \/ b \in N
  BY DEF Newly
<1> HIDE DEF t, N
<1>4. Same(st, t, {"readyQ", "readySig", "leased", "notify"})
  BY <1>2 DEF Same
<1>5. t.leased = st.leased /\ t.notify = st.notify
  BY <1>2 DEF Same, MFields
<1>6. /\ Fifo(t) /\ SameClosing(o, t) /\ Inherits(o, t)
      /\ t.b = st.b /\ t.queue = st.queue /\ t.result = st.result
      /\ \A b \in Bindings : HasReadyReason(t, b) <=> HasReadyReason(st, b)
      /\ \A b \in Q : Quietened(t, b)
  BY <1>1, <1>4, ReadyFrame
<1>7. \A b \in Bindings : b \in X \ B \/ ~HasReadyReason(t, b)
                            \/ IsQueued(t, b) \/ t.leased[b]
  BY <1>2, <1>3, <1>5, <1>6 DEF Sound, Heard, IsQueued
<1>8. t.readySig \in BOOLEAN
  BY <1>2 DEF Sound, Heard
<1>9. Elements(t.readyQ) = {} \/ t.readySig \/ pump = "drain"
  BY <1>2 DEF Sound, Heard
<1>10. Heard(t, X \ B, Y, Q)
  BY <1>2, <1>5, <1>6, <1>7, <1>8, <1>9 DEF Sound, Heard
<1> QED
  BY <1>1, <1>6, <1>10 DEF Sound, t

(* The bindings of B may have unreported reasons.                          *)
LEMMA UnlinkReadySound ==
  ASSUME NEW o, NEW st, NEW X, NEW Y, NEW Q, Sound(o, st, X, Y, Q), NEW B
  PROVE  Sound(o, UnlinkReady(st, B), X \cup B, Y, Q)
<1> DEFINE t == UnlinkReady(st, B)
<1>1. /\ Evolves(o, t) /\ IsState(st) /\ st.readyQ \in Seq(Bindings)
      /\ st.readySig \in BOOLEAN
  BY UnlinkReadyEvolves DEF Sound, Evolves, Heard
<1>2. /\ Same(st, t, {"readyQ", "readySig"})
      /\ t.readyQ \in Seq(Bindings)
      /\ Elements(t.readyQ) = Elements(st.readyQ) \ B
      /\ t.readySig \in BOOLEAN
      /\ st.readySig => t.readySig
  BY <1>1, UnlinkReadyLaw
<1> HIDE DEF t
<1>3. Same(st, t, {"readyQ", "readySig", "leased", "notify"})
  BY <1>2 DEF Same
<1>4. t.leased = st.leased /\ t.notify = st.notify
  BY <1>2 DEF Same, MFields
<1>5. /\ Fifo(t) /\ SameClosing(o, t) /\ Inherits(o, t)
      /\ t.b = st.b /\ t.queue = st.queue /\ t.result = st.result
      /\ \A b \in Bindings : HasReadyReason(t, b) <=> HasReadyReason(st, b)
      /\ \A b \in Q : Quietened(t, b)
  BY <1>1, <1>3, ReadyFrame
<1>6. \A b \in Bindings : b \in X \cup B \/ ~HasReadyReason(t, b)
                            \/ IsQueued(t, b) \/ t.leased[b]
  BY <1>2, <1>4, <1>5 DEF Sound, Heard, IsQueued
<1>7. Elements(t.readyQ) = {} \/ t.readySig \/ pump = "drain"
  BY <1>2 DEF Sound, Heard
<1>8. Heard(t, X \cup B, Y, Q)
  BY <1>2, <1>4, <1>5, <1>6, <1>7 DEF Sound, Heard
<1> QED
  BY <1>1, <1>5, <1>8 DEF Sound, t

(* Setting some notify channels.                                           *)
LEMMA NotifySound ==
  ASSUME NEW o, NEW st, NEW X, NEW Y, NEW Q, Sound(o, st, X, Y, Q), NEW B,
         NEW t, t = [st EXCEPT !.notify = [b \in Bindings |-> @[b] \/ b \in B]]
  PROVE  Sound(o, t, X, Y \ B, Q)
<1>1. IsState(st)
  BY DEF Sound, Evolves
<1>2. /\ Same(st, t, {"notify"})
      /\ t.notify = [b \in Bindings |-> st.notify[b] \/ b \in B]
  BY <1>1 DEF IsState, MFields, Same
<1>3. Evolves(o, t)
  <2>1. Quiet(st, t)
    BY <1>2 DEF Same, MFields, Quiet
  <2> QED
    BY <2>1, QuietEvolves DEF Sound
<1>4. Same(st, t, {"readyQ", "readySig", "leased", "notify"})
  BY <1>2 DEF Same
<1>5. t.leased = st.leased /\ t.readyQ = st.readyQ /\ t.readySig = st.readySig
  BY <1>2 DEF Same, MFields
<1>6. /\ Fifo(t) /\ SameClosing(o, t) /\ Inherits(o, t)
      /\ t.b = st.b /\ t.queue = st.queue /\ t.result = st.result
      /\ \A b \in Bindings : HasReadyReason(t, b) <=> HasReadyReason(st, b)
      /\ \A b \in Q : Quietened(t, b)
  BY <1>3, <1>4, ReadyFrame
<1>7. t.notify \in [Bindings -> BOOLEAN]
  BY <1>2
<1>8. \A b \in blocked : b \in Y \ B \/ t.notify[b]
                          \/ (t.queue[b] = <<>> /\ ~t.b[b].terminal)
  <2> SUFFICES ASSUME NEW b \in blocked
               PROVE  b \in Y \ B \/ t.notify[b]
                        \/ (t.queue[b] = <<>> /\ ~t.b[b].terminal)
    OBVIOUS
  <2>1. /\ b \in Bindings
        /\ b \in Y \/ st.notify[b] \/ (st.queue[b] = <<>> /\ ~st.b[b].terminal)
    BY DEF Sound, Heard
  <2>2. t.notify[b] <=> st.notify[b] \/ b \in B
    BY <1>2, <2>1
  <2>3. t.queue[b] = st.queue[b] /\ t.b[b] = st.b[b]
    BY <1>6
  <2> QED
    BY <2>1, <2>2, <2>3
<1>9. Heard(t, X, Y \ B, Q)
  BY <1>5, <1>6, <1>7, <1>8 DEF Sound, Heard, IsQueued
<1> QED
  BY <1>3, <1>6, <1>9 DEF Sound

(* signalBindingLocked: the bindings of B are heard.                       *)
LEMMA SignalBindingSound ==
  ASSUME NEW o, NEW st, NEW X, NEW Y, NEW Q, Sound(o, st, X, Y, Q),
         NEW B, B \subseteq Bindings
  PROVE  Sound(o, SignalBinding(st, B), X \ B, Y \ B, Q)
<1> DEFINE t == [st EXCEPT !.notify = [b \in Bindings |-> @[b] \/ b \in B]]
<1>1. Sound(o, t, X, Y \ B, Q)
  BY NotifySound
<1> HIDE DEF t
<1>2. Sound(o, EnqueueReady(t, B), X \ B, Y \ B, Q)
  BY <1>1, EnqueueReadySound
<1> QED
  BY <1>2 DEF SignalBinding, t

(* Tokens are given or taken back.                                         *)
LEMMA LeasedSound ==
  ASSUME NEW o, NEW st, NEW X, NEW Y, NEW Q, Sound(o, st, X, Y, Q), NEW B,
         NEW l \in [Bindings -> BOOLEAN],
         \A b \in Bindings \ B : st.leased[b] => l[b],
         NEW t, t = [st EXCEPT !.leased = l]
  PROVE  Sound(o, t, X \cup B, Y, Q)
<1>1. IsState(st)
  BY DEF Sound, Evolves
<1>2. /\ Same(st, t, {"leased"})
      /\ t.leased = l
  BY <1>1 DEF IsState, MFields, Same
<1>3. Evolves(o, t)
  <2>1. Quiet(st, t)
    BY <1>2 DEF Same, MFields, Quiet
  <2> QED
    BY <2>1, QuietEvolves DEF Sound
<1>4. Same(st, t, {"readyQ", "readySig", "leased", "notify"})
  BY <1>2 DEF Same
<1>5. t.notify = st.notify /\ t.readyQ = st.readyQ /\ t.readySig = st.readySig
  BY <1>2 DEF Same, MFields
<1>6. /\ Fifo(t) /\ SameClosing(o, t) /\ Inherits(o, t)
      /\ t.b = st.b /\ t.queue = st.queue /\ t.result = st.result
      /\ \A b \in Bindings : HasReadyReason(t, b) <=> HasReadyReason(st, b)
      /\ \A b \in Q : Quietened(t, b)
  BY <1>3, <1>4, ReadyFrame
<1>7. \A b \in Bindings : b \in X \cup B \/ ~HasReadyReason(t, b)
                            \/ IsQueued(t, b) \/ t.leased[b]
  BY <1>2, <1>5, <1>6 DEF Sound, Heard, IsQueued
<1>8. Heard(t, X \cup B, Y, Q)
  BY <1>2, <1>5, <1>6, <1>7 DEF Sound, Heard
<1> QED
  BY <1>3, <1>6, <1>8 DEF Sound

(* invalidateReadyLocked: the bindings of B may be unheard.                *)
LEMMA InvalidateReadySound ==
  ASSUME NEW o, NEW st, NEW X, NEW Y, NEW Q, Sound(o, st, X, Y, Q), NEW B
  PROVE  Sound(o, InvalidateReady(st, B), X \cup B, Y, Q)
<1> DEFINE t == UnlinkReady(st, B)
           l == [b \in Bindings |-> t.leased[b] /\ b \notin B]
<1>1. Sound(o, t, X \cup B, Y, Q)
  BY UnlinkReadySound
<1> HIDE DEF t
<1>2. l \in [Bindings -> BOOLEAN] /\ \A b \in Bindings \ B : t.leased[b] => l[b]
  OBVIOUS
<1>3. InvalidateReady(st, B) = [t EXCEPT !.leased = l]
  BY DEF InvalidateReady, t
<1> HIDE DEF l
<1>4. Sound(o, [t EXCEPT !.leased = l], (X \cup B) \cup B, Y, Q)
  BY <1>1, <1>2, LeasedSound
<1>5. (X \cup B) \cup B = X \cup B
  OBVIOUS
<1> QED
  BY <1>3, <1>4, <1>5

(* refreshReadyLocked.                                                     *)
LEMMA RefreshReadySound ==
  ASSUME NEW o, NEW st, NEW X, NEW Y, NEW Q, Sound(o, st, X, Y, Q),
         NEW b \in Bindings
  PROVE  Sound(o, RefreshReady(st, b), X \ {b}, Y, Q)
<1>1. CASE st.leased[b]
  <2>1. Heard(st, X \ {b}, Y, Q)
    BY <1>1 DEF Sound, Heard
  <2> QED
    BY <1>1, <2>1 DEF Sound, RefreshReady
<1>2. CASE ~st.leased[b]
  <2> DEFINE t == UnlinkReady(st, {b})
  <2>1. Sound(o, t, X \cup {b}, Y, Q)
    BY UnlinkReadySound
  <2> HIDE DEF t
  <2>2. Sound(o, EnqueueReady(t, {b}), (X \cup {b}) \ {b}, Y, Q)
    BY <2>1, EnqueueReadySound
  <2>3. (X \cup {b}) \ {b} = X \ {b}
    OBVIOUS
  <2> QED
    BY <1>2, <2>2, <2>3 DEF RefreshReady, t
<1> QED
  BY <1>1, <1>2

(* signalSlotLocked.                                                       *)
LEMMA SignalSlotsSound ==
  ASSUME NEW o, NEW st, NEW X, NEW Y, NEW Q, Sound(o, st, X, Y, Q), NEW S
  PROVE  Sound(o, SignalSlots(st, S), X, Y, Q)
<1> DEFINE t == SignalSlots(st, S)
<1>1. Evolves(o, t) /\ IsState(st) /\ Fifo(st)
  BY SignalSlotsEvolves DEF Sound, Evolves
<1>2. /\ Same(st, t, {"s"})
      /\ t.s = [s \in Slots |-> [st.s[s] EXCEPT !.wake = @ \/ s \in S]]
  BY <1>1, SignalSlotsLaw
<1> HIDE DEF t
<1>3. SameFifos(st, t)
  <2>1. \A s \in Slots : DOMAIN st.s[s] = SlotFields
    BY <1>1 DEF Fifo, FifoType
  <2> QED
    BY <1>2, <2>1 DEF SlotFields, Out, SameFifos
<1>4. Same(st, t, {"s", "use", "all", "probeID"})
  BY <1>2 DEF Same
<1> QED
  BY <1>1, <1>3, <1>4, SoundFlags DEF t

(* releaseBindingResidentLocked.                                           *)
LEMMA ReleaseResidentSound ==
  ASSUME NEW o, NEW st, NEW X, NEW Y, NEW Q, Sound(o, st, X, Y, Q), NEW B,
         \A b \in B \cap Bindings : ~st.b[b].active
  PROVE  Sound(o, ReleaseResident(st, B), X, Y, Q)
<1> DEFINE t == ReleaseResident(st, B)
<1>1. Evolves(o, t) /\ IsState(st)
  BY ReleaseResidentEvolves DEF Sound, Evolves
<1>2. /\ Same(st, t, {"b", "drained", "use", "all"})
      /\ \A b \in Bindings : t.b[b]
              = IF b \in B /\ st.b[b].resident
                THEN [st.b[b] EXCEPT !.resident = FALSE] ELSE st.b[b]
  BY <1>1, ReleaseResidentLaw
<1> HIDE DEF t
<1>3. \A b \in Bindings : SameVoice(st.b[b], t.b[b])
  <2> SUFFICES ASSUME NEW b \in Bindings PROVE SameVoice(st.b[b], t.b[b])
    OBVIOUS
  <2> DEFINE l == st.b[b]
             k == [l EXCEPT !.resident = FALSE]
  <2>1. DOMAIN l = LifeFields
    BY <1>1 DEF IsState, IsLife
  <2>2. t.b[b] = l \/ (t.b[b] = k /\ b \in B)
    BY <1>2
  <2>3. b \in B => ~l.active
    OBVIOUS
  <2> HIDE DEF l
  <2>4. k.mode = l.mode /\ k.terminal = l.terminal /\ k.observed = l.observed
        /\ k.closeStarted = l.closeStarted /\ k.localClosing = l.localClosing
        /\ k.active = l.active
    BY <2>1 DEF LifeFields
  <2> HIDE DEF k
  <2> QED
    BY <2>2, <2>3, <2>4 DEF SameVoice, l
<1>4. Same(st, t, {"b", "drained", "use", "all", "err", "probeID"})
  BY <1>2 DEF Same
<1> QED
  BY <1>1, <1>3, <1>4, SoundLives DEF t

(* releaseTerminalBindingLocked.                                           *)
LEMMA ReleaseTerminalSound ==
  ASSUME NEW o, NEW st, NEW X, NEW Y, NEW Q, Sound(o, st, X, Y, Q), NEW B
  PROVE  Sound(o, ReleaseTerminal(st, B), X, Y, Q)
<1> DEFINE R == {b \in B : /\ st.b[b].terminal
                           /\ st.queue[b] = <<>>
                           /\ ~st.req[b].owned
                           /\ st.result[b] = "none"
                           /\ ~IsQueued(st, b)
                           /\ ~st.leased[b]
                           /\ st.b[b].observed \/ st.b[b].closeSet}
<1>1. \A b \in R \cap Bindings : ~st.b[b].active
  BY DEF Sound, Fifo, LifeOK
<1> HIDE DEF R
<1>2. Sound(o, ReleaseResident(st, R), X, Y, Q)
  BY <1>1, ReleaseResidentSound
<1> QED
  BY <1>2 DEF ReleaseTerminal, R

(* detachActiveBindingLocked.                                              *)
LEMMA DetachActiveSound ==
  ASSUME NEW o, NEW st, NEW X, NEW Y, NEW Q, Sound(o, st, X, Y, Q), NEW B
  PROVE  Sound(o, DetachActive(st, B), X, Y, Q)
<1> DEFINE t == DetachActive(st, B)
<1>1. Evolves(o, t) /\ IsState(st)
  BY DetachActiveEvolves DEF Sound, Evolves
<1>2. /\ Same(st, t, {"b"})
      /\ \A b \in Bindings : t.b[b]
              = IF b \in B THEN [st.b[b] EXCEPT !.active = FALSE] ELSE st.b[b]
  BY <1>1, DetachActiveLaw
<1> HIDE DEF t
<1>3. \A b \in Bindings : SameVoice(st.b[b], t.b[b])
  <2> SUFFICES ASSUME NEW b \in Bindings PROVE SameVoice(st.b[b], t.b[b])
    OBVIOUS
  <2> DEFINE l == st.b[b]
             k == [l EXCEPT !.active = FALSE]
  <2>1. DOMAIN l = LifeFields
    BY <1>1 DEF IsState, IsLife
  <2>2. t.b[b] = l \/ t.b[b] = k
    BY <1>2
  <2> HIDE DEF l
  <2>3. k.mode = l.mode /\ k.terminal = l.terminal /\ k.observed = l.observed
        /\ k.closeStarted = l.closeStarted /\ k.localClosing = l.localClosing
        /\ ~k.active
    BY <2>1 DEF LifeFields
  <2> HIDE DEF k
  <2> QED
    BY <2>2, <2>3 DEF SameVoice, l
<1>4. Same(st, t, {"b", "drained", "use", "all", "err", "probeID"})
  BY <1>2 DEF Same
<1> QED
  BY <1>1, <1>3, <1>4, SoundLives DEF t

(* publishBindingCloseLocked.                                              *)
LEMMA PublishCloseSound ==
  ASSUME NEW o, NEW st, NEW X, NEW Y, NEW Q, Sound(o, st, X, Y, Q), NEW B,
         NEW err
  PROVE  Sound(o, PublishClose(st, B, err), X, Y, Q)
<1> DEFINE t == PublishClose(st, B, err)
<1>1. Evolves(o, t) /\ IsState(st)
  BY PublishCloseEvolves DEF Sound, Evolves
<1>2. /\ Same(st, t, {"b"})
      /\ \A b \in Bindings : t.b[b]
              = IF b \in B /\ ~st.b[b].closeSet
                THEN WithClose(st.b[b], err) ELSE st.b[b]
  BY <1>1, PublishCloseLaw
<1> HIDE DEF t
<1>3. \A b \in Bindings : SameVoice(st.b[b], t.b[b])
  <2> SUFFICES ASSUME NEW b \in Bindings PROVE SameVoice(st.b[b], t.b[b])
    OBVIOUS
  <2>1. DOMAIN st.b[b] = LifeFields
    BY <1>1 DEF IsState, IsLife
  <2>2. t.b[b] = st.b[b] \/ t.b[b] = WithClose(st.b[b], err)
    BY <1>2
  <2>3. SameVoice(st.b[b], WithClose(st.b[b], err))
    BY <2>1 DEF WithClose, SameVoice, LifeFields
  <2>4. SameVoice(st.b[b], st.b[b])
    BY DEF SameVoice
  <2> QED
    BY <2>2, <2>3, <2>4
<1>4. Same(st, t, {"b", "drained", "use", "all", "err", "probeID"})
  BY <1>2 DEF Same
<1> QED
  BY <1>1, <1>3, <1>4, SoundLives DEF t

(* A change of the lives that adds no reason outside X2 and no wake-up     *)
(* outside Y2.                                                             *)
LEMMA SoundReasons ==
  ASSUME NEW o, NEW st, NEW X, NEW Y, NEW Q, Sound(o, st, X, Y, Q),
         NEW t, Evolves(o, t), SameClosing(o, t), Same(st, t, {"b"}),
         NEW X2, X \subseteq X2, NEW Y2, Y \subseteq Y2,
         \A b \in Bindings : HasReadyReason(t, b) =>
                               b \in X2 \/ HasReadyReason(st, b),
         \A b \in Bindings : t.b[b].terminal => b \in Y2 \/ st.b[b].terminal,
         \A b \in Bindings : /\ t.b[b].active = st.b[b].active
                             /\ LifeOK(t.b[b])
  PROVE  Sound(o, t, X2, Y2, Q)
<1>1. /\ t.s = st.s /\ t.req = st.req /\ t.waitQ = st.waitQ
      /\ t.queue = st.queue /\ t.result = st.result /\ t.leased = st.leased
      /\ t.notify = st.notify /\ t.readyQ = st.readyQ
      /\ t.readySig = st.readySig /\ t.state = st.state
  BY DEF Same, MFields
<1>2. Fifo(t) /\ Inherits(o, t)
  BY <1>1, FifoCong
<1>3. \A b \in Bindings : b \in X2 \/ ~HasReadyReason(t, b)
                            \/ IsQueued(t, b) \/ t.leased[b]
  BY <1>1 DEF Sound, Heard, IsQueued
<1>4. \A b \in blocked : b \in Y2 \/ t.notify[b]
                          \/ (t.queue[b] = <<>> /\ ~t.b[b].terminal)
  BY <1>1 DEF Sound, Heard
<1>5. Heard(t, X2, Y2, Q)
  BY <1>1, <1>3, <1>4 DEF Sound, Heard, Quietened
<1> QED
  BY <1>2, <1>5 DEF Sound

(* A life that ends keeps what a life keeps.                               *)
LEMMA EndedLife ==
  ASSUME NEW r, IsLife(r), NEW err
  PROVE  LET x == Ended(r, err)
         IN  /\ IsLife(x) /\ Kept(r, x)
             /\ x.mode = r.mode /\ x.observed = r.observed
             /\ x.active = r.active /\ x.closeStarted = r.closeStarted
             /\ x.localClosing = r.localClosing /\ x.resident = r.resident
<1> DEFINE x == Ended(r, err)
<1>1. DOMAIN r = LifeFields /\ DOMAIN x = LifeFields
  BY DEF IsLife, Ended
<1>2. /\ x.slot = r.slot /\ x.mode = r.mode /\ x.observed = r.observed
      /\ x.active = r.active /\ x.closeStarted = r.closeStarted
      /\ x.localClosing = r.localClosing /\ x.resident = r.resident
      /\ x.remoteClosed = r.remoteClosed /\ x.closeSet = r.closeSet
      /\ x.closeErr = r.closeErr
  BY <1>1 DEF LifeFields, Ended
<1>3. x.terminal = TRUE /\ (r.err # "nil" => x.err = r.err)
  BY <1>1 DEF LifeFields, Ended, FirstError
<1> HIDE DEF x
<1>4. IsLife(x) /\ Kept(r, x)
  BY <1>1, <1>2, <1>3 DEF IsLife, Kept
<1> QED
  BY <1>2, <1>4 DEF x

(* A life whose end is observed keeps what a life keeps.                   *)
LEMMA ObservedLife ==
  ASSUME NEW r, IsLife(r)
  PROVE  LET x == [r EXCEPT !.observed = TRUE]
         IN  /\ IsLife(x) /\ Kept(r, x) /\ x.observed
             /\ x.mode = r.mode /\ x.terminal = r.terminal
             /\ x.active = r.active /\ x.closeStarted = r.closeStarted
             /\ x.localClosing = r.localClosing /\ x.resident = r.resident
             /\ x.remoteClosed = r.remoteClosed
<1> DEFINE x == [r EXCEPT !.observed = TRUE]
<1>1. DOMAIN r = LifeFields /\ DOMAIN x = LifeFields
  BY DEF IsLife
<1>2. /\ x.slot = r.slot /\ x.mode = r.mode /\ x.terminal = r.terminal
      /\ x.active = r.active /\ x.closeStarted = r.closeStarted
      /\ x.localClosing = r.localClosing /\ x.resident = r.resident
      /\ x.remoteClosed = r.remoteClosed /\ x.closeSet = r.closeSet
      /\ x.closeErr = r.closeErr /\ x.err = r.err
  BY <1>1 DEF LifeFields
<1>3. x.observed = TRUE
  BY <1>1 DEF LifeFields
<1> HIDE DEF x
<1>4. IsLife(x) /\ Kept(r, x)
  BY <1>1, <1>2, <1>3 DEF IsLife, Kept
<1> QED
  BY <1>2, <1>3, <1>4 DEF x

(* publishBindingTerminalLocked: the end of the bindings of B is heard.    *)
LEMMA PublishTerminalSound ==
  ASSUME NEW o, NEW st, NEW X, NEW Y, NEW Q, Sound(o, st, X, Y, Q),
         NEW B, B \subseteq Bindings, NEW err,
         \A b \in B : ~st.b[b].active
  PROVE  Sound(o, PublishTerminal(st, B, err), X \ B, Y \ B, Q)
<1> DEFINE t == [st EXCEPT !.b = [b \in Bindings |->
                  IF b \in B THEN Ended(@[b], err) ELSE @[b]]]
<1>1. IsState(st) /\ Evolves(o, st)
  BY DEF Sound, Evolves
<1>2. /\ Same(st, t, {"b"}) /\ DOMAIN t.b = Bindings
      /\ \A b \in Bindings : t.b[b] = IF b \in B THEN Ended(st.b[b], err)
                                      ELSE st.b[b]
  BY <1>1 DEF IsState, MFields, Same
<1> HIDE DEF t
<1>3. \A b \in Bindings :
        /\ t.b[b].mode = st.b[b].mode
        /\ t.b[b].observed = st.b[b].observed
        /\ t.b[b].active = st.b[b].active
        /\ t.b[b].closeStarted = st.b[b].closeStarted
        /\ t.b[b].localClosing = st.b[b].localClosing
        /\ b \notin B => t.b[b] = st.b[b]
        /\ t.b[b].resident = st.b[b].resident
  BY <1>1, <1>2, EndedLife DEF IsState
<1>4. \A b \in Bindings : IsLife(t.b[b]) /\ Kept(st.b[b], t.b[b])
  BY <1>1, <1>2, EndedLife DEF IsState, Kept
<1>5. Evolves(o, t)
  <2>1. LivesOnly(st, t)
    BY <1>2, <1>4 DEF LivesOnly, LivesKept, Same, MFields
  <2> QED
    BY <1>1, <2>1, LivesEvolve
<1>6. SameClosing(o, t)
  BY <1>3 DEF Sound, SameClosing
<1>7. t.queue = st.queue /\ t.result = st.result /\ t.req = st.req
  BY <1>2 DEF Same, MFields
<1>8. \A b \in Bindings : HasReadyReason(t, b) =>
                               b \in X \cup B \/ HasReadyReason(st, b)
  BY <1>3, <1>7 DEF HasReadyReason
<1>9. \A b \in Bindings : t.b[b].terminal => b \in Y \cup B \/ st.b[b].terminal
  BY <1>3
<1>10. Sound(o, t, X \cup B, Y \cup B, Q)
  <2>1. X \subseteq X \cup B /\ Y \subseteq Y \cup B
    OBVIOUS
  <2>2. \A b \in Bindings : LifeOK(t.b[b])
    BY <1>3 DEF Sound, Fifo, LifeOK
  <2> QED
    BY <1>2, <1>3, <1>5, <1>6, <1>8, <1>9, <2>1, <2>2, SoundReasons
<1>11. Sound(o, SignalBinding(t, B), (X \cup B) \ B, (Y \cup B) \ B, Q)
  BY <1>10, SignalBindingSound
<1>12. (X \cup B) \ B = X \ B /\ (Y \cup B) \ B = Y \ B
  OBVIOUS
<1> QED
  BY <1>11, <1>12 DEF PublishTerminal, t

(* The terminal state of bindings without another reason is observed.      *)
LEMMA ObserveTerminalSound ==
  ASSUME NEW o, NEW st, NEW X, NEW Y, NEW Q, Sound(o, st, X, Y, Q),
         NEW B, B \subseteq Q
  PROVE  Sound(o, ObserveTerminal(st, B), X, Y, Q)
<1> DEFINE t == [st EXCEPT !.b = [b \in Bindings |->
                  IF b \in B THEN [@[b] EXCEPT !.observed = TRUE] ELSE @[b]]]
           u == InvalidateReady(t, B)
<1>1. IsState(st) /\ Evolves(o, st)
  BY DEF Sound, Evolves
<1>2. /\ Same(st, t, {"b"}) /\ DOMAIN t.b = Bindings
      /\ \A b \in Bindings : t.b[b] = IF b \in B
                                      THEN [st.b[b] EXCEPT !.observed = TRUE]
                                      ELSE st.b[b]
  BY <1>1 DEF IsState, MFields, Same
<1> HIDE DEF t
<1>3. \A b \in Bindings :
        /\ t.b[b].mode = st.b[b].mode
        /\ t.b[b].terminal = st.b[b].terminal
        /\ t.b[b].active = st.b[b].active
        /\ t.b[b].closeStarted = st.b[b].closeStarted
        /\ t.b[b].localClosing = st.b[b].localClosing
        /\ b \in B => t.b[b].observed
        /\ b \notin B => t.b[b] = st.b[b]
        /\ t.b[b].resident = st.b[b].resident
        /\ t.b[b].remoteClosed = st.b[b].remoteClosed
        /\ IsLife(t.b[b]) /\ Kept(st.b[b], t.b[b])
  <2> SUFFICES ASSUME NEW b \in Bindings
               PROVE  LET x == t.b[b]
                          r == st.b[b]
                      IN  /\ x.mode = r.mode /\ x.terminal = r.terminal
                          /\ x.active = r.active
                          /\ x.closeStarted = r.closeStarted
                          /\ x.localClosing = r.localClosing
                          /\ b \in B => x.observed
                          /\ b \notin B => x = r
                          /\ x.resident = r.resident
                          /\ x.remoteClosed = r.remoteClosed
                          /\ IsLife(x) /\ Kept(r, x)
    OBVIOUS
  <2>1. IsLife(st.b[b])
    BY <1>1 DEF IsState
  <2>2. CASE b \in B
    <3>1. t.b[b] = [st.b[b] EXCEPT !.observed = TRUE]
      BY <1>2, <2>2
    <3> QED
      BY <2>1, <2>2, <3>1, ObservedLife
  <2>3. CASE b \notin B
    <3>1. t.b[b] = st.b[b]
      BY <1>2, <2>3
    <3> QED
      BY <2>1, <2>3, <3>1 DEF Kept
  <2> QED
    BY <2>2, <2>3
<1>4. \A b \in Bindings : IsLife(t.b[b]) /\ Kept(st.b[b], t.b[b])
  BY <1>3
<1>5. Evolves(o, t)
  <2>1. LivesOnly(st, t)
    BY <1>2, <1>4 DEF LivesOnly, LivesKept, Same, MFields
  <2> QED
    BY <1>1, <2>1, LivesEvolve
<1>6. SameClosing(o, t)
  BY <1>3 DEF Sound, SameClosing
<1>7. t.queue = st.queue /\ t.result = st.result /\ t.req = st.req
  BY <1>2 DEF Same, MFields
<1>8. \A b \in Bindings : HasReadyReason(t, b) =>
                               b \in X \/ HasReadyReason(st, b)
  BY <1>3, <1>7 DEF HasReadyReason
<1>9. \A b \in Bindings : t.b[b].terminal => b \in Y \/ st.b[b].terminal
  BY <1>3
<1>10. Sound(o, t, X, Y, Q)
  <2>1. \A b \in Bindings : LifeOK(t.b[b])
    BY <1>3 DEF Sound, Fifo, LifeOK
  <2> QED
    BY <1>2, <1>3, <1>5, <1>6, <1>8, <1>9, <2>1, SoundReasons
<1>11. Sound(o, u, X \cup B, Y, Q)
  BY <1>10, InvalidateReadySound
<1>12. Same(t, u, {"readyQ", "readySig", "leased"})
  <2>1. IsState(t) /\ t.readyQ \in Seq(Bindings)
    BY <1>10 DEF Sound, Heard, Evolves
  <2> DEFINE v == UnlinkReady(t, B)
  <2>2. Same(t, v, {"readyQ", "readySig"})
    BY <2>1, UnlinkReadyLaw
  <2> HIDE DEF v
  <2> QED
    BY <2>2 DEF InvalidateReady, Same, MFields, v
<1> HIDE DEF u
<1>13. u.b = t.b
  BY <1>12 DEF Same, MFields
<1>14. \A b \in B : ~HasReadyReason(u, b)
  BY <1>3, <1>11, <1>13 DEF HasReadyReason, Sound, Heard, Quietened, InFlight
<1>15. Heard(u, X, Y, Q)
  BY <1>11, <1>14 DEF Sound, Heard
<1> QED
  BY <1>11, <1>15 DEF Sound, ObserveTerminal, u, t

(* The tail of a close that completes at once.                             *)
LEMMA FinishCloseSound ==
  ASSUME NEW o, NEW st, NEW X, NEW Y, NEW Q, Sound(o, st, X, Y, Q),
         NEW b \in Q, NEW err, ~st.b[b].active
  PROVE  Sound(o, FinishClose(st, b, err), X \ {b}, Y \ {b}, Q)
<1>1. {b} \subseteq Bindings /\ {b} \subseteq Q
  BY DEF Sound, Heard
<1> DEFINE t == PublishTerminal(st, {b}, err)
           u == PublishClose(t, {b}, err)
           v == ObserveTerminal(u, {b})
<1>2. Sound(o, t, X \ {b}, Y \ {b}, Q)
  BY <1>1, PublishTerminalSound
<1> HIDE DEF t
<1>3. Sound(o, u, X \ {b}, Y \ {b}, Q)
  BY <1>2, PublishCloseSound
<1> HIDE DEF u
<1>4. Sound(o, v, X \ {b}, Y \ {b}, Q)
  BY <1>1, <1>3, ObserveTerminalSound
<1> HIDE DEF v
<1>5. Sound(o, ReleaseTerminal(v, {b}), X \ {b}, Y \ {b}, Q)
  BY <1>4, ReleaseTerminalSound
<1> QED
  BY <1>5 DEF FinishClose, v, u, t

(* clearBindingQueueLocked.                                                *)
LEMMA ClearQueueSound ==
  ASSUME NEW o, NEW st, NEW X, NEW Y, NEW Q, Sound(o, st, X, Y, Q), NEW B
  PROVE  Sound(o, ClearQueue(st, B), X, Y, Q)
<1> DEFINE t == ClearQueue(st, B)
<1>1. Evolves(o, t) /\ IsState(st)
  BY ClearQueueEvolves DEF Sound, Evolves
<1>2. /\ Same(st, t, {"queue", "use", "all"})
      /\ t.queue = [b \in Bindings |-> IF b \in B THEN <<>> ELSE st.queue[b]]
  BY <1>1, ClearQueueLaw
<1> HIDE DEF t
<1>3. /\ t.s = st.s /\ t.req = st.req /\ t.waitQ = st.waitQ /\ t.b = st.b
      /\ t.result = st.result /\ t.leased = st.leased
      /\ t.notify = st.notify /\ t.readyQ = st.readyQ
      /\ t.readySig = st.readySig /\ t.state = st.state
  BY <1>2 DEF Same, MFields
<1>4. Fifo(t) /\ Inherits(o, t)
  <2>1. \A b \in Bindings : /\ LifeOK(st.b[b])
                            /\ t.result[b] \in {"none", st.result[b]}
                            /\ t.queue[b] \in {<<>>, st.queue[b]}
    BY <1>2, <1>3 DEF Sound, Fifo
  <2> QED
    BY <1>1, <1>3, <2>1, FifoCong
<1>5. \A b \in Bindings : HasReadyReason(t, b) => HasReadyReason(st, b)
  BY <1>2, <1>3 DEF HasReadyReason
<1>6. \A b \in Bindings : st.queue[b] = <<>> => t.queue[b] = <<>>
  BY <1>2
<1>7. Heard(t, X, Y, Q)
  BY <1>2, <1>3, <1>5, <1>6 DEF Sound, Heard, IsQueued, Quietened
<1> QED
  BY <1>1, <1>3, <1>4, <1>7 DEF Sound, SameClosing, t

(* The results of the bindings of B are dropped.                           *)
LEMMA DropResultSound ==
  ASSUME NEW o, NEW st, NEW X, NEW Y, NEW Q, Sound(o, st, X, Y, Q), NEW B
  PROVE  Sound(o, DropResult(st, B), X, Y, Q)
<1> DEFINE t == DropResult(st, B)
<1>1. Evolves(o, t) /\ IsState(st)
  BY DropResultEvolves DEF Sound, Evolves
<1>2. /\ Same(st, t, {"result"})
      /\ t.result = [b \in Bindings |-> IF b \in B THEN "none" ELSE st.result[b]]
  BY <1>1, DropResultLaw
<1> HIDE DEF t
<1>3. /\ t.s = st.s /\ t.req = st.req /\ t.waitQ = st.waitQ /\ t.b = st.b
      /\ t.queue = st.queue /\ t.leased = st.leased
      /\ t.notify = st.notify /\ t.readyQ = st.readyQ
      /\ t.readySig = st.readySig /\ t.state = st.state
  BY <1>2 DEF Same, MFields
<1>4. Fifo(t) /\ Inherits(o, t)
  <2>1. \A b \in Bindings : /\ LifeOK(st.b[b])
                            /\ t.result[b] \in {"none", st.result[b]}
                            /\ t.queue[b] \in {<<>>, st.queue[b]}
    BY <1>2, <1>3 DEF Sound, Fifo
  <2> QED
    BY <1>1, <1>3, <2>1, FifoCong
<1>5. \A b \in Bindings : HasReadyReason(t, b) => HasReadyReason(st, b)
  BY <1>2, <1>3 DEF HasReadyReason
<1>6. \A b \in Bindings : st.result[b] = "none" => t.result[b] = "none"
  BY <1>2
<1>7. Heard(t, X, Y, Q)
  BY <1>2, <1>3, <1>5, <1>6 DEF Sound, Heard, IsQueued, Quietened
<1> QED
  BY <1>1, <1>3, <1>4, <1>7 DEF Sound, SameClosing, t

-----------------------------------------------------------------------------
(* Changes of the outbound FIFOs.                                          *)

(* The FIFOs of t are those of st with items left out, but never the one   *)
(* being submitted.                                                        *)
ThinnedOut(st, t) ==
  \A s \in Slots :
    /\ t.s[s].attempting = st.s[s].attempting
    /\ t.s[s].failed => st.s[s].failed
    /\ Thinned(Out(t, s), Out(st, s))
    /\ st.s[s].attempting /\ Out(st, s) # <<>> =>
         /\ Out(t, s) # <<>>
         /\ Out(t, s)[1].kind = Out(st, s)[1].kind
         /\ Out(t, s)[1].b = Out(st, s)[1].b

(* The requests of t are those of st with some left out, and so are the    *)
(* queued ones.                                                            *)
ThinnedRequests(st, t) ==
  /\ \A b \in Bindings :
       /\ RequestOK(t.req[b])
       /\ t.req[b].phase # "none" => st.req[b].phase # "none"
       /\ t.req[b].phase = "attempting" <=> st.req[b].phase = "attempting"
  /\ \A s \in Slots : \A i \in 1..Len(Out(t, s)) :
       Out(t, s)[i].kind = "req" => t.req[Out(t, s)[i].b].phase # "none"

(* Thinning the FIFOs keeps their items open and in order.                 *)
LEMMA ItemsThin ==
  ASSUME NEW st, Fifo(st), NEW t, t.b = st.b, t.nextID = st.nextID,
         \A s \in Slots : /\ Out(t, s) \in Seq(OutItems)
                          /\ Thinned(Out(t, s), Out(st, s)),
         \A s \in Slots : \A i \in 1..Len(Out(t, s)) :
           Out(t, s)[i].kind = "req" => t.req[Out(t, s)[i].b].phase # "none"
  PROVE  /\ ItemsOpen(t)
         /\ \A s \in Slots : \A i \in 1..Len(Out(t, s)) :
              Out(t, s)[i].kind = "req" =>
                \E j \in 1..Len(Out(st, s)) : IsRequest(Out(st, s)[j],
                                                       Out(t, s)[i].b)
<1>1. \A s \in Slots : Out(st, s) \in Seq(OutItems)
  BY DEF Fifo, FifoType
<1>2. ASSUME NEW s \in Slots, NEW i \in 1..Len(Out(t, s))
      PROVE  /\ ItemOpen(t, s, Out(t, s)[i])
             /\ Out(t, s)[i].kind = "req" =>
                  \A j \in 1..Len(Out(t, s)) :
                    /\ IsRequest(Out(t, s)[j], Out(t, s)[i].b) => j = i
                    /\ IsClose(Out(t, s)[j], Out(t, s)[i].b) => i < j
             /\ Out(t, s)[i].kind = "req" =>
                  \E j \in 1..Len(Out(st, s)) : IsRequest(Out(st, s)[j],
                                                         Out(t, s)[i].b)
  <2> DEFINE p == Out(t, s)
             q == Out(st, s)
  <2>1. PICK h : IsThinning(h, p, q)
    BY DEF Thinned
  <2> HIDE DEF p, q
  <2>2. i \in 1..Len(p) /\ Len(p) \in Nat /\ Len(q) \in Nat
    BY <1>1, <1>2 DEF p, q
  <2>3. h[i] \in 1..Len(q) /\ p[i].kind = q[h[i]].kind /\ p[i].b = q[h[i]].b
    BY <2>1, <2>2 DEF IsThinning
  <2>4. /\ ItemOpen(st, s, q[h[i]])
        /\ q[h[i]].kind = "req" =>
             \A j \in 1..Len(q) :
               /\ IsRequest(q[j], q[h[i]].b) => j = h[i]
               /\ IsClose(q[j], q[h[i]].b) => h[i] < j
    BY <2>3 DEF Fifo, ItemsOpen, q
  <2>5. ASSUME p[i].kind = "req", NEW j \in 1..Len(p), IsRequest(p[j], p[i].b)
        PROVE  j = i
    <3>1. h[j] \in 1..Len(q) /\ p[j].kind = q[h[j]].kind /\ p[j].b = q[h[j]].b
      BY <2>1 DEF IsThinning
    <3>2. h[j] = h[i]
      BY <2>3, <2>4, <2>5, <3>1 DEF IsRequest
    <3>3. ~(i < j) /\ ~(j < i)
      BY <2>1, <2>2, <2>3, <2>5, <3>2 DEF IsThinning
    <3> QED
      BY <2>2, <3>3
  <2>6. ASSUME p[i].kind = "req", NEW j \in 1..Len(p), IsClose(p[j], p[i].b)
        PROVE  i < j
    <3>1. h[j] \in 1..Len(q) /\ p[j].kind = q[h[j]].kind /\ p[j].b = q[h[j]].b
      BY <2>1 DEF IsThinning
    <3>2. h[i] < h[j]
      BY <2>3, <2>4, <2>6, <3>1 DEF IsClose
    <3>3. ~(i = j) /\ ~(j < i)
      BY <2>1, <2>2, <2>3, <2>6, <3>1, <3>2 DEF IsThinning
    <3> QED
      BY <2>2, <3>3
  <2>7. ItemOpen(t, s, p[i])
    <3>1. p[i].kind = "req" => t.req[p[i].b].phase # "none"
      BY <1>2 DEF p
    <3> QED
      BY <2>3, <2>4, <3>1 DEF ItemOpen
  <2>8. p[i].kind = "req" => IsRequest(q[h[i]], p[i].b)
    BY <2>3 DEF IsRequest
  <2> QED
    BY <2>3, <2>5, <2>6, <2>7, <2>8 DEF p, q
<1>3. ItemsOpen(t)
  BY <1>2 DEF ItemsOpen
<1> QED
  BY <1>2, <1>3

(* Items and requests leave the FIFOs.                                     *)
LEMMA FifoThins ==
  ASSUME NEW o, NEW st, NEW X, NEW Y, NEW Q, Sound(o, st, X, Y, Q),
         NEW t, t.b = st.b, t.state = st.state, t.result = st.result,
         t.queue = st.queue, t.nextID = st.nextID,
         FifoType(t), WaitersOpen(t), ThinnedOut(st, t),
         ThinnedRequests(st, t)
  PROVE  Fifo(t) /\ Inherits(o, t)
<1>1. \A s \in Slots : Out(st, s) \in Seq(OutItems)
  BY DEF Sound, Fifo, FifoType
<1>2. /\ Fifo(st)
      /\ \A s \in Slots : /\ Out(t, s) \in Seq(OutItems)
                          /\ Thinned(Out(t, s), Out(st, s))
      /\ \A s \in Slots : \A i \in 1..Len(Out(t, s)) :
           Out(t, s)[i].kind = "req" => t.req[Out(t, s)[i].b].phase # "none"
  BY DEF Sound, FifoType, ThinnedOut, ThinnedRequests
<1>3. /\ ItemsOpen(t)
      /\ \A s \in Slots : \A i \in 1..Len(Out(t, s)) :
              Out(t, s)[i].kind = "req" =>
                \E j \in 1..Len(Out(st, s)) : IsRequest(Out(st, s)[j],
                                                       Out(t, s)[i].b)
  BY <1>2, ItemsThin
<1>4. HeadSubmitted(t)
  <2>1. ASSUME NEW s \in Slots, t.s[s].attempting
        PROVE  /\ Out(t, s) # <<>>
               /\ Out(t, s)[1].kind = "req" =>
                    t.req[Out(t, s)[1].b].phase = "attempting"
    <3>1. /\ st.s[s].attempting /\ Out(st, s) # <<>>
          /\ Out(st, s)[1].kind = "req" =>
                 st.req[Out(st, s)[1].b].phase = "attempting"
      BY <2>1 DEF ThinnedOut, Sound, Fifo, HeadSubmitted
    <3>2. /\ Out(t, s) # <<>>
          /\ Out(t, s)[1].kind = Out(st, s)[1].kind
          /\ Out(t, s)[1].b = Out(st, s)[1].b
      BY <3>1 DEF ThinnedOut
    <3>3. 1 \in 1..Len(Out(st, s))
      BY <1>1, <3>1
    <3>4. Out(st, s)[1].kind = "req" => Out(st, s)[1].b \in Bindings
      BY <3>3 DEF Sound, Fifo, ItemsOpen, ItemOpen
    <3> QED
      BY <3>1, <3>2, <3>4 DEF ThinnedRequests
  <2>2. ASSUME NEW b \in Bindings, t.req[b].phase = "attempting"
        PROVE  /\ t.b[b].slot \in Slots
               /\ t.s[t.b[b].slot].attempting
               /\ Out(t, t.b[b].slot) # <<>>
               /\ IsRequest(Out(t, t.b[b].slot)[1], b)
    <3>1. st.req[b].phase = "attempting"
      BY <2>2 DEF ThinnedRequests
    <3> QED
      BY <3>1 DEF ThinnedOut, Sound, Fifo, HeadSubmitted, IsRequest
  <2> QED
    BY <2>1, <2>2 DEF HeadSubmitted
<1>5. Fifo(t)
  <2>1. Unborn(t)
    BY DEF ThinnedRequests, Sound, Fifo, Unborn
  <2> QED
    BY <1>3, <1>4, <2>1 DEF ThinnedRequests, Sound, Fifo
<1>6. ASSUME NEW s \in Slots, NEW i \in 1..Len(Out(t, s)),
             Out(t, s)[i].kind = "req"
      PROVE  \E j \in 1..Len(Out(o, s)) : IsRequest(Out(o, s)[j],
                                                   Out(t, s)[i].b)
  <2>1. PICK j \in 1..Len(Out(st, s)) : IsRequest(Out(st, s)[j],
                                                 Out(t, s)[i].b)
    BY <1>3, <1>6
  <2> QED
    BY <2>1 DEF Sound, Inherits, Carries, IsRequest
<1>7. Inherits(o, t)
  BY <1>6 DEF Sound, Inherits, Carries, ThinnedRequests, ThinnedOut
<1> QED
  BY <1>5, <1>7

(* The charges of control work.                                            *)
LEMMA AddControlSound ==
  ASSUME NEW o, NEW st, NEW X, NEW Y, NEW Q, Sound(o, st, X, Y, Q),
         NEW s, NEW n
  PROVE  Sound(o, AddControl(st, s, n), X, Y, Q)
<1> DEFINE t == AddControl(st, s, n)
<1>1. Evolves(o, t) /\ IsState(st)
  BY AddControlEvolves DEF Sound, Evolves
<1>2. Same(st, t, {"use", "all"})
  BY <1>1, AddControlLaw
<1> HIDE DEF t
<1>3. t.b = st.b
  BY <1>2 DEF Same, MFields
<1>4. \A b \in Bindings : SameVoice(st.b[b], t.b[b])
  BY <1>3 DEF SameVoice
<1>5. Same(st, t, {"b", "drained", "use", "all", "err", "probeID"})
  BY <1>2 DEF Same
<1> QED
  BY <1>1, <1>4, <1>5, SoundLives DEF t

(* A control item joins a FIFO.                                            *)
LEMMA AppendOutSound ==
  ASSUME NEW o, NEW st, NEW X, NEW Y, NEW Q, Sound(o, st, X, Y, Q),
         NEW s \in Slots, NEW item \in OutItems, item.kind # "req",
         ItemOpen(st, s, item)
  PROVE  Sound(o, AppendOut(st, s, item), X, Y, Q)
<1> DEFINE t == AppendOut(st, s, item)
           q == Out(st, s)
<1>1. Evolves(o, t) /\ IsState(st) /\ Fifo(st)
  BY AppendOutEvolves DEF Sound, Evolves
<1>2. /\ Same(st, t, {"s"})
      /\ t.s = [st.s EXCEPT ![s].out = Append(@, item)]
  BY <1>1 DEF AppendOut, IsState, MFields, Same
<1> HIDE DEF t
<1>3. /\ t.req = st.req /\ t.waitQ = st.waitQ /\ t.b = st.b
      /\ t.state = st.state /\ t.result = st.result
      /\ t.queue = st.queue /\ t.nextID = st.nextID
  BY <1>2 DEF Same, MFields
<1>4. q \in Seq(OutItems)
  BY <1>1 DEF Fifo, FifoType
<1>5. /\ DOMAIN t.s = Slots
      /\ \A z \in Slots : /\ DOMAIN t.s[z] = SlotFields
                          /\ t.s[z].attempting = st.s[z].attempting
                          /\ t.s[z].failed = st.s[z].failed
                          /\ z # s => Out(t, z) = Out(st, z)
      /\ Out(t, s) = Append(q, item)
  BY <1>1, <1>2 DEF Fifo, FifoType, SlotFields, Out
<1> DEFINE p == Append(q, item)
           n == Len(q)
<1>6. /\ p \in Seq(OutItems) /\ n \in Nat /\ Len(p) = n + 1
      /\ p[n + 1] = item /\ \A i \in 1..n : p[i] = q[i]
  BY <1>4
<1>7. 1..(n + 1) = (1..n) \cup {n + 1}
  BY <1>6
<1>8. q # <<>> => p # <<>> /\ p[1] = q[1]
  <2>1. q # <<>> => 1 \in 1..n
    BY <1>4
  <2>2. p # <<>>
    BY <1>6
  <2> QED
    BY <1>6, <2>1, <2>2
<1> HIDE DEF p, q, n
<1>9. FifoType(t)
  <2>1. \A z \in Slots : Out(t, z) \in Seq(OutItems)
    BY <1>1, <1>5, <1>6 DEF Fifo, FifoType, p
  <2> QED
    BY <1>1, <1>3, <1>5, <2>1 DEF Fifo, FifoType
<1>10. \A i : \A z \in Slots : ItemOpen(st, z, i) => ItemOpen(t, z, i)
  BY <1>3 DEF ItemOpen
<1>11. ASSUME NEW i \in 1..Len(p)
       PROVE  /\ ItemOpen(t, s, p[i])
              /\ p[i].kind = "req" =>
                   /\ i \in 1..n
                   /\ \A j \in 1..Len(p) :
                        /\ IsRequest(p[j], p[i].b) => j = i
                        /\ IsClose(p[j], p[i].b) => i < j
  <2>1. CASE i = n + 1
    BY <1>6, <1>10, <2>1
  <2>2. CASE i \in 1..n
    <3>1. /\ ItemOpen(st, s, q[i])
          /\ q[i].kind = "req" => \A j \in 1..n :
                /\ IsRequest(q[j], q[i].b) => j = i
                /\ IsClose(q[j], q[i].b) => i < j
      BY <1>1, <2>2 DEF Fifo, ItemsOpen, q, n
    <3>2. i < n + 1
      BY <1>6, <2>2
    <3>3. ~IsRequest(p[n + 1], p[i].b)
      BY <1>6 DEF IsRequest
    <3> QED
      BY <1>6, <1>7, <1>10, <2>2, <3>1, <3>2, <3>3
  <2> QED
    BY <1>6, <1>7, <2>1, <2>2
<1>12. ItemsOpen(t)
  <2>1. ASSUME NEW z \in Slots, z # s, NEW i \in 1..Len(Out(t, z))
        PROVE  /\ ItemOpen(t, z, Out(t, z)[i])
               /\ Out(t, z)[i].kind = "req" =>
                    \A j \in 1..Len(Out(t, z)) :
                      /\ IsRequest(Out(t, z)[j], Out(t, z)[i].b) => j = i
                      /\ IsClose(Out(t, z)[j], Out(t, z)[i].b) => i < j
    BY <1>1, <1>5, <1>10, <2>1 DEF Fifo, ItemsOpen
  <2>2. Out(t, s) = p
    BY <1>5 DEF p
  <2> QED
    BY <1>11, <2>1, <2>2 DEF ItemsOpen
<1>13. HeadSubmitted(t)
  <2>1. \A z \in Slots : Out(st, z) # <<>> =>
           Out(t, z) # <<>> /\ Out(t, z)[1] = Out(st, z)[1]
    BY <1>5, <1>8 DEF p, q
  <2> QED
    BY <1>1, <1>3, <1>5, <2>1 DEF Fifo, HeadSubmitted
<1>14. WaitersOpen(t)
  BY <1>1, <1>3 DEF Fifo, WaitersOpen
<1>15. Fifo(t)
  BY <1>1, <1>3, <1>9, <1>12, <1>13, <1>14 DEF Fifo, Unborn
<1>16. Inherits(o, t)
  <2>1. ASSUME NEW z \in Slots, NEW i \in 1..Len(Out(t, z)),
               Out(t, z)[i].kind = "req"
        PROVE  \E j \in 1..Len(Out(o, z)) : IsRequest(Out(o, z)[j],
                                                     Out(t, z)[i].b)
    <3>1. CASE z # s
      BY <1>5, <2>1, <3>1 DEF Sound, Inherits, Carries
    <3>2. CASE z = s
      <4>1. Out(t, s) = p
        BY <1>5 DEF p
      <4>2. i \in 1..n /\ p[i] = q[i] /\ q[i].kind = "req"
        BY <1>6, <1>11, <2>1, <3>2, <4>1
      <4> QED
        BY <3>2, <4>1, <4>2 DEF Sound, Inherits, Carries, q, n
    <3> QED
      BY <3>1, <3>2
  <2> QED
    BY <1>3, <1>5, <2>1 DEF Sound, Inherits, Carries
<1>17. Same(st, t, {"s", "use", "all", "probeID"})
  BY <1>2 DEF Same
<1> QED
  BY <1>1, <1>15, <1>16, <1>17, SoundSlots DEF t

(* Appending a control item.                                               *)
LEMMA PutControlSound ==
  ASSUME NEW o, NEW st, NEW X, NEW Y, NEW Q, Sound(o, st, X, Y, Q),
         NEW s \in Slots, NEW item \in OutItems, item.kind # "req",
         ItemOpen(st, s, item)
  PROVE  Sound(o, PutControl(st, s, item), X, Y, Q)
<1>1. Sound(o, AppendOut(st, s, item), X, Y, Q)
  BY AppendOutSound
<1>2. Sound(o, AddControl(AppendOut(st, s, item), s, 1), X, Y, Q)
  BY <1>1, AddControlSound
<1> QED
  BY <1>2, SignalSlotsSound DEF PutControl

(* A close is queued for a binding that no longer accepts requests.        *)
LEMMA QueueControlSound ==
  ASSUME NEW o, NEW st, NEW X, NEW Y, NEW Q, Sound(o, st, X, Y, Q),
         NEW s \in Slots, NEW kind \in {"close", "reap"}, NEW b \in Bindings,
         b < st.nextID, ~st.b[b].active,
         kind = "close" => st.b[b].closeStarted
  PROVE  Sound(o, QueueControl(st, s, kind, b), X, Y, Q)
<1> DEFINE item == Item(kind, b, 0)
<1>1. item \in OutItems /\ item.kind = kind /\ item.b = b
  BY DEF Item, OutItems
<1> HIDE DEF item
<1>2. ItemOpen(st, s, item) /\ item.kind # "req"
  BY <1>1 DEF ItemOpen
<1>3. Sound(o, PutControl(st, s, item), X, Y, Q)
  BY <1>1, <1>2, PutControlSound
<1> QED
  BY <1>3 DEF QueueControl, item

(* The FIFOs only lose items, and the item being submitted stays.          *)
LEMMA CancelControlsSound ==
  ASSUME NEW o, NEW st, NEW X, NEW Y, NEW Q, Sound(o, st, X, Y, Q),
         NEW S, NEW G
  PROVE  /\ Sound(o, CancelControls(st, S, G), X, Y, Q)
         /\ Same(st, CancelControls(st, S, G), {"s", "use", "all"})
<1> DEFINE out(s)  == Out(st, s)
           busy(s) == st.s[s].attempting
           mark(s) == [Head(out(s)) EXCEPT !.canceled = @ \/ Head(out(s)) \in G[s]]
           rest(s) == Excluding(IF busy(s) THEN Tail(out(s)) ELSE out(s), G[s])
           kept(s) == IF s \notin S THEN out(s)
                      ELSE IF busy(s) THEN <<mark(s)>> \o rest(s) ELSE rest(s)
           lost(s) == Len(out(s)) - Len(kept(s))
           heads   == {s \in S : ~busy(s) /\ out(s) # <<>> /\ out(s)[1] \in G[s]}
           u == [s \in Slots |-> [st.use[s] EXCEPT !.ctlItems = @ - lost(s)]]
           n == SumOf([s \in Slots |-> lost(s)])
           t == [st EXCEPT
                  !.s = [s \in Slots |-> [@[s] EXCEPT !.out = kept(s)]],
                  !.use = u, !.all.ctlItems = @ - n]
<1>1. CancelControls(st, S, G) = SignalSlots(t, heads)
  BY DEF CancelControls, Out
<1>2. ASSUME NEW s \in Slots
      PROVE  /\ kept(s) \in Seq(OutItems)
             /\ Thinned(kept(s), out(s))
             /\ busy(s) /\ out(s) # <<>> =>
                  /\ kept(s) # <<>>
                  /\ kept(s)[1].kind = out(s)[1].kind
                  /\ kept(s)[1].b = out(s)[1].b
  <2>1. out(s) \in Seq(OutItems)
    BY <1>2 DEF Sound, Fifo, FifoType
  <2>2. CASE s \notin S
    BY <2>1, <2>2, ThinnedRefl
  <2>3. CASE s \in S /\ ~busy(s)
    <3>1. Thinned(rest(s), out(s)) /\ rest(s) \in Seq(OutItems)
      BY <2>1, <2>3, ExcludingThins
    <3> QED
      BY <2>3, <3>1
  <2>4. CASE s \in S /\ busy(s)
    <3>1. out(s) # <<>>
      BY <1>2, <2>4 DEF Sound, Fifo, HeadSubmitted
    <3>2. /\ Tail(out(s)) \in Seq(OutItems) /\ Head(out(s)) = out(s)[1]
          /\ out(s)[1] \in OutItems
      BY <2>1, <3>1
    <3> DEFINE x == mark(s)
    <3>3. /\ x \in OutItems
          /\ x.kind = out(s)[1].kind /\ x.b = out(s)[1].b
      <4> HIDE DEF out
      <4> QED
        BY <3>2 DEF OutItems
    <3> DEFINE q == Tail(out(s))
               r == Excluding(q, G[s])
    <3>4. rest(s) = r
      BY <2>4
    <3>5. Thinned(r, q) /\ r \in Seq(OutItems)
      BY <3>2, ExcludingThins
    <3>6. kept(s) = <<x>> \o rest(s)
      BY <2>4
    <3> HIDE DEF x, r, out, rest, kept
    <3>7. /\ Thinned(<<x>> \o r, out(s))
          /\ <<x>> \o r \in Seq(OutItems)
          /\ <<x>> \o r # <<>>
          /\ (<<x>> \o r)[1] = x
      BY <2>1, <3>1, <3>3, <3>5, ThinnedTail
    <3> QED
      BY <3>3, <3>4, <3>6, <3>7
  <2> QED
    BY <2>2, <2>3, <2>4
<1> HIDE DEF kept, heads, u, n
<1>3. /\ Same(st, t, {"s", "use", "all"})
      /\ t.s = [s \in Slots |-> [st.s[s] EXCEPT !.out = kept(s)]]
  BY DEF Sound, Evolves, IsState, MFields, Same
<1> HIDE DEF t
<1>4. /\ t.req = st.req /\ t.waitQ = st.waitQ /\ t.b = st.b
      /\ t.state = st.state /\ t.result = st.result /\ t.accepting = st.accepting
      /\ t.drained = st.drained /\ t.nextID = st.nextID /\ DOMAIN t = MFields
      /\ t.queue = st.queue
  BY <1>3 DEF Same, MFields
<1>5. /\ DOMAIN t.s = Slots
      /\ \A s \in Slots : /\ DOMAIN t.s[s] = SlotFields
                          /\ Out(t, s) = kept(s)
                          /\ t.s[s].attempting = st.s[s].attempting
                          /\ t.s[s].failed = st.s[s].failed
  BY <1>3 DEF Sound, Fifo, FifoType, SlotFields, Out
<1>6. Evolves(o, t)
  <2>1. Quiet(st, t)
    BY <1>4 DEF Quiet
  <2> QED
    BY <2>1, QuietEvolves DEF Sound
<1>7. FifoType(t)
  BY <1>2, <1>4, <1>5 DEF Sound, Fifo, FifoType
<1>8. ThinnedOut(st, t)
  BY <1>2, <1>5 DEF ThinnedOut
<1>9. ThinnedRequests(st, t)
  <2>1. ASSUME NEW s \in Slots, NEW i \in 1..Len(Out(t, s)),
               Out(t, s)[i].kind = "req"
        PROVE  t.req[Out(t, s)[i].b].phase # "none"
    <3>1. PICK h : IsThinning(h, Out(t, s), Out(st, s))
      BY <1>8 DEF ThinnedOut, Thinned
    <3>2. /\ h[i] \in 1..Len(Out(st, s))
          /\ Out(t, s)[i].kind = Out(st, s)[h[i]].kind
          /\ Out(t, s)[i].b = Out(st, s)[h[i]].b
      BY <3>1 DEF IsThinning
    <3> QED
      BY <1>4, <2>1, <3>2 DEF Sound, Fifo, ItemsOpen, ItemOpen
  <2> QED
    BY <1>4, <2>1 DEF Sound, Fifo, ThinnedRequests
<1>10. WaitersOpen(t)
  BY <1>4 DEF Sound, Fifo, WaitersOpen
<1>11. Fifo(t) /\ Inherits(o, t)
  BY <1>4, <1>7, <1>8, <1>9, <1>10, FifoThins
<1>12. Same(st, t, {"s", "use", "all", "probeID"})
  BY <1>3 DEF Same
<1>13. Sound(o, t, X, Y, Q)
  BY <1>6, <1>11, <1>12, SoundSlots
<1>14. Same(t, SignalSlots(t, heads), {"s"})
  BY <1>13, SignalSlotsLaw DEF Sound, Evolves
<1>15. Same(st, SignalSlots(t, heads), {"s", "use", "all"})
  BY <1>3, <1>14 DEF Same
<1> QED
  BY <1>1, <1>13, <1>15, SignalSlotsSound

(* completeProbeLocked.                                                    *)
LEMMA CompleteProbeSound ==
  ASSUME NEW o, NEW st, NEW X, NEW Y, NEW Q, Sound(o, st, X, Y, Q),
         NEW S, NEW ok
  PROVE  /\ Sound(o, CompleteProbe(st, S, ok), X, Y, Q)
         /\ Same(st, CompleteProbe(st, S, ok), {"s", "use", "all"})
<1> DEFINE P == {s \in S : ~st.s[s].probe.done}
           t == [st EXCEPT !.s = [s \in Slots |->
                   IF s \in P
                   THEN [@[s] EXCEPT !.probe.done = TRUE, !.probe.ok = ok]
                   ELSE @[s]]]
           G == [s \in Slots |-> {i \in ItemsOf(st, s) :
                  i.kind = "probe" /\ i.id = st.s[s].probe.id}]
<1>1. CompleteProbe(st, S, ok) = CancelControls(t, P, G)
  BY DEF CompleteProbe
<1> HIDE DEF P, G
<1>2. /\ Same(st, t, {"s"})
      /\ t.s = [s \in Slots |->
                   IF s \in P
                   THEN [st.s[s] EXCEPT !.probe.done = TRUE, !.probe.ok = ok]
                   ELSE st.s[s]]
  BY DEF Sound, Evolves, IsState, MFields, Same
<1> HIDE DEF t
<1>3. SameFifos(st, t)
  <2>1. ASSUME NEW s \in Slots
        PROVE  /\ DOMAIN t.s[s] = SlotFields
               /\ Out(t, s) = Out(st, s)
               /\ t.s[s].attempting = st.s[s].attempting
               /\ t.s[s].failed => st.s[s].failed
    <3>1. DOMAIN st.s[s] = SlotFields
      BY <2>1 DEF Sound, Fifo, FifoType
    <3>2. t.s[s] = IF s \in P
                   THEN [st.s[s] EXCEPT !.probe.done = TRUE, !.probe.ok = ok]
                   ELSE st.s[s]
      BY <1>2
    <3>3. CASE s \in P
      BY <3>1, <3>2, <3>3 DEF SlotFields, Out
    <3>4. CASE s \notin P
      BY <3>1, <3>2, <3>4 DEF Out
    <3> QED
      BY <3>3, <3>4
  <2> QED
    BY <1>2, <2>1 DEF SameFifos
<1>4. Evolves(o, t)
  <2>1. Quiet(st, t)
    BY <1>2 DEF Quiet, Same, MFields
  <2> QED
    BY <2>1, QuietEvolves DEF Sound
<1>5. Same(st, t, {"s", "use", "all", "probeID"})
  BY <1>2 DEF Same
<1>6. Sound(o, t, X, Y, Q)
  BY <1>3, <1>4, <1>5, SoundFlags
<1>7. /\ Sound(o, CancelControls(t, P, G), X, Y, Q)
      /\ Same(t, CancelControls(t, P, G), {"s", "use", "all"})
  BY <1>6, CancelControlsSound
<1>8. Same(st, CancelControls(t, P, G), {"s", "use", "all"})
  BY <1>2, <1>7 DEF Same
<1> QED
  BY <1>1, <1>7, <1>8

(* cancelBindingControlsLocked.                                            *)
LEMMA CancelBindingControlsSound ==
  ASSUME NEW o, NEW st, NEW X, NEW Y, NEW Q, Sound(o, st, X, Y, Q), NEW b
  PROVE  /\ Sound(o, CancelBindingControls(st, b), X, Y, Q)
         /\ Same(st, CancelBindingControls(st, b), {"s", "use", "all"})
<1> DEFINE G == [s \in Slots |-> {i \in ItemsOf(st, s) :
                                     i.kind = "close" /\ i.b = b}]
<1> HIDE DEF G
<1>1. /\ Sound(o, CancelControls(st, {SlotOf(st, b)}, G), X, Y, Q)
      /\ Same(st, CancelControls(st, {SlotOf(st, b)}, G), {"s", "use", "all"})
  BY CancelControlsSound
<1> QED
  BY <1>1 DEF CancelBindingControls, G

-----------------------------------------------------------------------------
(* Promotion.                                                              *)

(* The least element of a set of numbers is in it.                         *)
LEMMA MinInSet ==
  ASSUME NEW S, S \subseteq Nat, S # {}
  PROVE  Min(S) \in S
BY LeastElement DEF Min

(* The waiter b leaves the wait queue with its reservation.                *)
Reserved(st, b) == Reserve([st EXCEPT !.waitQ = Excluding(@, {b})], b)

(* What a reservation changes.                                             *)
LEMMA ReservedLaw ==
  ASSUME NEW st, IsState(st), NEW b \in Bindings,
         st.req \in [Bindings -> Requests]
  PROVE  /\ Same(st, Reserved(st, b), {"waitQ", "req", "use", "all"})
         /\ Reserved(st, b).waitQ = Excluding(st.waitQ, {b})
         /\ Reserved(st, b).req = [st.req EXCEPT ![b].phase = "reserved"]
<1> DEFINE t == [st EXCEPT !.waitQ = Excluding(@, {b})]
           u == ChargeRequest(t, b, 1)
           v == [u EXCEPT !.req[b].phase = "reserved"]
<1>1. v = Reserved(st, b)
  BY DEF Reserved, Reserve
<1>2. Same(st, t, {"waitQ"}) /\ t.waitQ = Excluding(st.waitQ, {b})
  BY DEF IsState, MFields, Same
<1> HIDE DEF t
<1>3. Same(t, u, {"use", "all"})
  BY <1>2 DEF ChargeRequest, MFields, Same
<1> HIDE DEF u
<1>4. u.waitQ = t.waitQ /\ u.req = t.req /\ t.req = st.req
  BY <1>2, <1>3 DEF Same, MFields
<1>5. /\ Same(u, v, {"req"})
      /\ v.req = [u.req EXCEPT ![b].phase = "reserved"]
  BY <1>3 DEF MFields, Same
<1> HIDE DEF v
<1>6. v.waitQ = u.waitQ
  BY <1>5 DEF Same, MFields
<1>7. Same(st, v, {"waitQ", "req", "use", "all"})
  BY <1>2, <1>3, <1>5 DEF Same
<1> QED
  BY <1>1, <1>2, <1>4, <1>5, <1>6, <1>7

(* t differs from st in waiters that now hold a reservation.               *)
Granted(st, t) ==
  \A b \in Bindings :
    \/ t.req[b] = st.req[b]
    \/ /\ st.req[b].phase = "waiting" /\ st.req[b].owned
       /\ t.req[b] = [st.req[b] EXCEPT !.phase = "reserved"]

(* A waiting request is reserved; its binding has a reason to be heard.    *)
LEMMA ReservedSound ==
  ASSUME NEW o, NEW st, NEW X, NEW Y, NEW Q, Sound(o, st, X, Y, Q),
         NEW b \in Elements(st.waitQ)
  PROVE  /\ Sound(o, Reserved(st, b), X \cup {b}, Y, Q)
         /\ Granted(st, Reserved(st, b))
<1> DEFINE t == Reserved(st, b)
           p == Excluding(st.waitQ, {b})
<1>1. IsState(st) /\ Fifo(st) /\ FifoType(st) /\ st.waitQ \in Seq(Bindings)
  BY DEF Sound, Evolves, Fifo, FifoType
<1>2. /\ b \in Bindings
      /\ st.req[b].phase = "waiting" /\ st.req[b].owned
  BY <1>1 DEF Elements, Fifo, WaitersOpen
<1>3. /\ Same(st, t, {"waitQ", "req", "use", "all"})
      /\ t.waitQ = p
      /\ t.req = [st.req EXCEPT ![b].phase = "reserved"]
  BY <1>1, <1>2, ReservedLaw DEF FifoType
<1> HIDE DEF t
<1>4. /\ t.s = st.s /\ t.b = st.b /\ t.state = st.state
      /\ t.queue = st.queue /\ t.result = st.result /\ t.leased = st.leased
      /\ t.notify = st.notify /\ t.readyQ = st.readyQ
      /\ t.readySig = st.readySig /\ t.nextID = st.nextID
  BY <1>3 DEF Same, MFields
<1>5. /\ p \in Seq(Bindings)
      /\ \A i \in 1..Len(p) : \E k \in 1..Len(st.waitQ) :
                                 p[i] = st.waitQ[k] /\ st.waitQ[k] \notin {b}
      /\ \A i, j \in 1..Len(p) : p[i] = p[j] => i = j
  <2>1. \A i, j \in 1..Len(st.waitQ) : st.waitQ[i] = st.waitQ[j] => i = j
    BY <1>1 DEF Fifo, WaitersOpen
  <2> QED
    BY <1>1, <2>1, ExcludingDistinct
<1> HIDE DEF p
<1>6. /\ t.req \in [Bindings -> Requests]
      /\ t.req[b] = [st.req[b] EXCEPT !.phase = "reserved"]
      /\ t.req[b].phase = "reserved" /\ t.req[b].owned
      /\ t.req[b].canceled = st.req[b].canceled
      /\ \A c \in Bindings : c # b => t.req[c] = st.req[c]
  BY <1>1, <1>2, <1>3 DEF FifoType, Requests, Phases
<1>7. Granted(st, t)
  BY <1>2, <1>6 DEF Granted
<1>8. WaitersOpen(t)
  <2> SUFFICES ASSUME NEW i \in 1..Len(p)
               PROVE  /\ t.req[p[i]].phase = "waiting"
                      /\ t.req[p[i]].owned
    BY <1>3, <1>5 DEF WaitersOpen
  <2>1. PICK k \in 1..Len(st.waitQ) : p[i] = st.waitQ[k] /\ st.waitQ[k] # b
    BY <1>5
  <2>2. st.waitQ[k] \in Bindings
    BY <1>1, <2>1
  <2> QED
    BY <1>1, <1>6, <2>1, <2>2 DEF Fifo, WaitersOpen
<1>9. FifoType(t)
  BY <1>1, <1>3, <1>4, <1>5, <1>6 DEF FifoType, Out
<1>10. ThinnedOut(st, t)
  <2>1. \A s \in Slots : Out(t, s) = Out(st, s)
    BY <1>4 DEF Out
  <2>2. \A s \in Slots : Thinned(Out(st, s), Out(st, s))
    BY ThinnedRefl
  <2> QED
    BY <1>4, <2>1, <2>2 DEF ThinnedOut
<1>11. ThinnedRequests(st, t)
  <2>1. \A c \in Bindings :
          /\ RequestOK(t.req[c])
          /\ t.req[c].phase # "none" => st.req[c].phase # "none"
          /\ t.req[c].phase = "attempting" <=> st.req[c].phase = "attempting"
    BY <1>1, <1>2, <1>6 DEF Fifo, RequestOK
  <2>2. ASSUME NEW s \in Slots, NEW i \in 1..Len(Out(t, s)),
               Out(t, s)[i].kind = "req"
        PROVE  t.req[Out(t, s)[i].b].phase # "none"
    <3> DEFINE x == Out(t, s)[i]
    <3>1. i \in 1..Len(Out(st, s)) /\ x = Out(st, s)[i]
      BY <1>4, <2>2 DEF Out
    <3>2. ItemOpen(st, s, x)
      BY <1>1, <3>1 DEF Fifo, ItemsOpen
    <3> HIDE DEF x
    <3>3. x.kind = "req" => x.b \in Bindings /\ st.req[x.b].phase # "none"
      BY <3>2 DEF ItemOpen
    <3>4. x.kind = "req" => t.req[x.b].phase # "none"
      BY <1>6, <3>3
    <3> QED
      BY <2>2, <3>4 DEF x
  <2> QED
    BY <2>1, <2>2 DEF ThinnedRequests
<1>12. Fifo(t) /\ Inherits(o, t)
  BY <1>4, <1>8, <1>9, <1>10, <1>11, FifoThins
<1>13. Evolves(o, t)
  <2>1. Quiet(st, t)
    BY <1>3 DEF Quiet, Same, MFields
  <2> QED
    BY <2>1, QuietEvolves DEF Sound
<1>14. b \notin Q
  BY <1>2 DEF Sound, Heard, Quietened, InFlight
<1>15. \A c \in Bindings : c # b => (HasReadyReason(t, c) => HasReadyReason(st, c))
  BY <1>4, <1>6 DEF HasReadyReason
<1>16. \A c \in Q : Quietened(t, c)
  BY <1>4, <1>6, <1>14 DEF Sound, Heard, Quietened
<1>17. Heard(t, X \cup {b}, Y, Q)
  BY <1>4, <1>15, <1>16 DEF Sound, Heard, IsQueued
<1> QED
  BY <1>4, <1>7, <1>12, <1>13, <1>17 DEF Sound, SameClosing, t

(* Reservations are granted along two iterations.                          *)
LEMMA GrantedTrans ==
  ASSUME NEW st, NEW t, NEW u, Granted(st, t), Granted(t, u),
         st.req \in [Bindings -> Requests]
  PROVE  Granted(st, u)
<1> SUFFICES ASSUME NEW b \in Bindings
             PROVE  \/ u.req[b] = st.req[b]
                    \/ /\ st.req[b].phase = "waiting" /\ st.req[b].owned
                       /\ u.req[b] = [st.req[b] EXCEPT !.phase = "reserved"]
  BY DEF Granted
<1>1. CASE t.req[b] = st.req[b]
  BY <1>1 DEF Granted
<1>2. CASE t.req[b] # st.req[b]
  <2>1. /\ st.req[b].phase = "waiting" /\ st.req[b].owned
        /\ t.req[b] = [st.req[b] EXCEPT !.phase = "reserved"]
    BY <1>2 DEF Granted
  <2>2. t.req[b].phase = "reserved"
    BY <2>1 DEF Requests
  <2>3. u.req[b] = t.req[b]
    BY <2>2 DEF Granted
  <2> QED
    BY <2>1, <2>3
<1> QED
  BY <1>1, <1>2

(* The fields promoteRequestsLocked changes.                               *)
PromoteFields == {"waitQ", "req", "use", "all", "readyQ", "readySig", "notify"}

(* What signalBindingLocked leaves alone.                                  *)
LEMMA SignalBindingFrame ==
  ASSUME NEW st, DOMAIN st = MFields, NEW B
  PROVE  Same(st, SignalBinding(st, B), {"readyQ", "readySig", "notify"})
<1> DEFINE t == [st EXCEPT !.notify = [b \in Bindings |-> @[b] \/ b \in B]]
<1>1. Same(st, t, {"notify"})
  BY DEF Same, MFields
<1> HIDE DEF t
<1>2. Same(t, EnqueueReady(t, B), {"readyQ", "readySig"})
  BY <1>1 DEF EnqueueReady, Same, MFields
<1>3. Same(st, EnqueueReady(t, B), {"readyQ", "readySig", "notify"})
  BY <1>1, <1>2 DEF Same
<1> QED
  BY <1>3 DEF SignalBinding, t

(* One iteration of promoteRequestsLocked.                                 *)
LEMMA PromoteOneSound ==
  ASSUME NEW o, NEW st, NEW X, NEW Y, NEW Q, Sound(o, st, X, Y, Q)
  PROVE  /\ Sound(o, PromoteOne(st), X, Y, Q)
         /\ Granted(st, PromoteOne(st))
         /\ Same(st, PromoteOne(st), PromoteFields)
<1> DEFINE C == Candidates(st)
           i == Min(C)
           b == st.waitQ[i]
<1>1. PromoteOne(st) = IF C = {} THEN st
                       ELSE IF ~GlobalRoom(st, st.req[b].size) THEN st
                       ELSE SignalBinding(Reserved(st, b), {b})
  BY DEF PromoteOne, Reserved
<1>2. st.waitQ \in Seq(Bindings)
  BY DEF Sound, Fifo, FifoType
<1>3. C \subseteq 1..Len(st.waitQ)
  BY <1>2 DEF Candidates
<1>4. CASE PromoteOne(st) = st
  BY <1>4 DEF Granted, Same, Sound, Evolves, IsState
<1>5. CASE C # {} /\ PromoteOne(st) = SignalBinding(Reserved(st, b), {b})
  <2> HIDE DEF C
  <2>1. i \in 1..Len(st.waitQ)
    <3>1. C \subseteq Nat
      BY <1>2, <1>3
    <3> QED
      BY <1>3, <1>5, <3>1, MinInSet
  <2> HIDE DEF i
  <2>2. b \in Elements(st.waitQ) /\ b \in Bindings
    BY <1>2, <2>1 DEF Elements
  <2> HIDE DEF b
  <2> DEFINE t == Reserved(st, b)
  <2>3. Sound(o, t, X \cup {b}, Y, Q) /\ Granted(st, t)
    BY <2>2, ReservedSound
  <2> HIDE DEF t
  <2> DEFINE u == SignalBinding(t, {b})
  <2>4. Sound(o, u, (X \cup {b}) \ {b}, Y \ {b}, Q)
    BY <2>2, <2>3, SignalBindingSound
  <2>5. Same(t, u, {"readyQ", "readySig", "notify"})
    <3>1. DOMAIN t = MFields
      BY <2>3 DEF Sound, Evolves, IsState
    <3> QED
      BY <3>1, SignalBindingFrame
  <2> HIDE DEF u
  <2>6. Granted(st, u)
    <3>1. u.req = t.req
      BY <2>5 DEF Same, MFields
    <3> QED
      BY <2>3, <3>1 DEF Granted
  <2>7. Sound(o, u, X, Y, Q)
    <3>1. /\ (X \cup {b}) \ {b} \subseteq X /\ Y \ {b} \subseteq Y
          /\ Q \subseteq Q
      OBVIOUS
    <3> QED
      BY <2>4, <3>1, SoundMono
  <2>8. Same(st, u, PromoteFields)
    <3>1. IsState(st) /\ st.req \in [Bindings -> Requests]
      BY DEF Sound, Evolves, Fifo, FifoType
    <3>2. Same(st, t, {"waitQ", "req", "use", "all"})
      BY <2>2, <3>1, ReservedLaw DEF t
    <3> QED
      BY <2>5, <3>2 DEF Same, PromoteFields
  <2> QED
    BY <1>5, <2>6, <2>7, <2>8 DEF u, t
<1> QED
  BY <1>1, <1>4, <1>5

(* The iterations of promoteRequestsLocked, up to n.                       *)
Iterates(p, st, n) ==
  p = [i \in 0..n |-> IF i = 0 THEN {st} ELSE {PromoteOne(q) : q \in p[i - 1]}]

(* The iterations of promoteRequestsLocked are well defined.               *)
LEMMA IteratesExists ==
  ASSUME NEW st, NEW n \in Nat
  PROVE  \E p : Iterates(p, st, n)
<1> DEFINE G == {k \in Nat : \E p : Iterates(p, st, k)}
<1>1. 0 \in G
  <2>1. Iterates([i \in 0..0 |-> {st}], st, 0)
    BY DEF Iterates
  <2> QED
    BY <2>1
<1>2. ASSUME NEW k \in Nat, k \in G
      PROVE  k + 1 \in G
  <2>1. PICK p : Iterates(p, st, k)
    BY <1>2
  <2> DEFINE v == {PromoteOne(q) : q \in p[k]}
             h == [i \in 0..k + 1 |-> IF i = k + 1 THEN v ELSE p[i]]
  <2>2. \A i \in 0..k : h[i] = p[i]
    OBVIOUS
  <2>3. ASSUME NEW i \in 0..k + 1
        PROVE  h[i] = IF i = 0 THEN {st} ELSE {PromoteOne(q) : q \in h[i - 1]}
    <3>1. CASE i = k + 1
      <4>1. i # 0 /\ h[i] = v /\ i - 1 = k /\ k \in 0..k
        BY <3>1
      <4>2. h[i - 1] = p[k]
        BY <2>2, <4>1
      <4> QED
        BY <4>1, <4>2
    <3>2. CASE i # k + 1
      <4>1. i \in 0..k /\ (i # 0 => i - 1 \in 0..k)
        BY <3>2
      <4>2. p[i] = IF i = 0 THEN {st} ELSE {PromoteOne(q) : q \in p[i - 1]}
        BY <2>1, <4>1 DEF Iterates
      <4> QED
        BY <2>2, <4>1, <4>2
    <3> QED
      BY <3>1, <3>2
  <2>4. Iterates(h, st, k + 1)
    <3>1. h = [i \in 0..k + 1 |-> h[i]]
      OBVIOUS
    <3> HIDE DEF h
    <3> QED
      BY <2>3, <3>1 DEF Iterates
  <2> HIDE DEF h
  <2> QED
    BY <2>4
<1> HIDE DEF G
<1>3. Nat \subseteq G
  BY <1>1, <1>2, SetInduction
<1> QED
  BY <1>3 DEF G

(* The iterations keep the guarantees and grant reservations.              *)
LEMMA PromotedSound ==
  ASSUME NEW o, NEW st, NEW X, NEW Y, NEW Q, Sound(o, st, X, Y, Q)
  PROVE  /\ Sound(o, Promoted(st), X, Y, Q)
         /\ Granted(st, Promoted(st))
         /\ Same(st, Promoted(st), PromoteFields)
<1> DEFINE n == Len(st.waitQ)
           p == CHOOSE f : Iterates(f, st, n)
           Good(q) == /\ Sound(o, q, X, Y, Q) /\ Granted(st, q)
                      /\ Same(st, q, PromoteFields)
           G == {i \in Nat : i <= n => \E q : p[i] = {q} /\ Good(q)}
<1>1. n \in Nat /\ st.req \in [Bindings -> Requests]
  BY DEF Sound, Fifo, FifoType
<1>2. Iterates(p, st, n)
  BY <1>1, IteratesExists
<1>3. Promoted(st) = CHOOSE q \in p[n] : TRUE
  BY DEF Promoted, Iterates
<1> HIDE DEF p, n
<1>4. p[0] = {st}
  <2>1. 0 \in 0..n
    BY <1>1
  <2> QED
    BY <1>2, <2>1 DEF Iterates
<1>5. ASSUME NEW i \in 1..n
      PROVE  p[i] = {PromoteOne(q) : q \in p[i - 1]}
  <2>1. i \in 0..n /\ i # 0
    BY <1>1
  <2> QED
    BY <1>2, <2>1 DEF Iterates
<1>6. 0 \in G
  <2>1. Good(st)
    BY DEF Granted, Same, Sound, Evolves, IsState
  <2> HIDE DEF Good
  <2> QED
    BY <1>4, <2>1
<1>7. ASSUME NEW i \in Nat, i \in G
      PROVE  i + 1 \in G
  <2> SUFFICES ASSUME i + 1 <= n
               PROVE  \E q : p[i + 1] = {q} /\ Good(q)
    OBVIOUS
  <2>1. i <= n /\ i + 1 \in 1..n /\ (i + 1) - 1 = i
    BY <1>1
  <2>2. PICK q : p[i] = {q} /\ Good(q)
    BY <1>7, <2>1
  <2>3. p[i + 1] = {PromoteOne(q)}
    BY <1>5, <2>1, <2>2
  <2>4. /\ Sound(o, PromoteOne(q), X, Y, Q) /\ Granted(q, PromoteOne(q))
        /\ Same(q, PromoteOne(q), PromoteFields)
    BY <2>2, PromoteOneSound
  <2>5. Granted(st, PromoteOne(q))
    BY <1>1, <2>2, <2>4, GrantedTrans
  <2>6. Same(st, PromoteOne(q), PromoteFields)
    BY <2>2, <2>4 DEF Same
  <2> QED
    BY <2>3, <2>4, <2>5, <2>6
<1> HIDE DEF G
<1>8. Nat \subseteq G
  BY <1>6, <1>7, SetInduction
<1>9. \E q : p[n] = {q} /\ Good(q)
  <2>1. n \in G /\ n <= n
    BY <1>1, <1>8
  <2> HIDE DEF Good
  <2> QED
    BY <2>1 DEF G
<1>10. PICK q : p[n] = {q} /\ Good(q)
  BY <1>9
<1>11. Promoted(st) = q
  BY <1>3, <1>10
<1> QED
  BY <1>10, <1>11

(* promoteRequestsLocked: every promoted waiter is heard.                  *)
LEMMA PromoteSound ==
  ASSUME NEW o, NEW st, NEW X, NEW Y, NEW Q, Sound(o, st, X, Y, Q)
  PROVE  /\ Sound(o, Promote(st), X, Y, Q)
         /\ Granted(st, Promote(st))
         /\ Same(st, Promote(st), PromoteFields)
<1> DEFINE r == Promoted(st)
           t == Promote(st)
<1>1. Sound(o, r, X, Y, Q) /\ Granted(st, r) /\ Same(st, r, PromoteFields)
  BY PromotedSound
<1>2. Evolves(o, t) /\ IsState(st)
  BY PromoteEvolves DEF Sound, Evolves
<1>3. CASE t = st
  BY <1>2, <1>3 DEF Granted, Same, IsState
<1>4. CASE t # st
  <2>1. t = [st EXCEPT !.waitQ = r.waitQ, !.req = r.req, !.use = r.use,
                      !.all = r.all, !.readyQ = r.readyQ,
                      !.readySig = r.readySig, !.notify = r.notify]
    BY <1>4 DEF Promote
  <2> HIDE DEF r, t
  <2>2. /\ t.waitQ = r.waitQ /\ t.req = r.req /\ t.readyQ = r.readyQ
        /\ t.readySig = r.readySig /\ t.notify = r.notify
        /\ t.use = r.use /\ t.all = r.all
        /\ Same(st, t, PromoteFields)
    BY <1>2, <2>1 DEF IsState, MFields, Same, PromoteFields
  <2>3. Same(r, t, {})
    BY <1>1, <2>2 DEF Same, PromoteFields, MFields
  <2>4. t.b = r.b
    BY <2>3 DEF Same, MFields
  <2>5. \A b \in Bindings : SameVoice(r.b[b], t.b[b])
    BY <2>4 DEF SameVoice
  <2>6. Same(r, t, {"b", "drained", "use", "all", "err", "probeID"})
    BY <2>3 DEF Same
  <2>7. Sound(o, t, X, Y, Q)
    BY <1>1, <1>2, <2>5, <2>6, SoundLives
  <2>8. Granted(st, t)
    BY <1>1, <2>2 DEF Granted
  <2> QED
    BY <2>2, <2>7, <2>8 DEF t
<1> QED
  BY <1>3, <1>4

-----------------------------------------------------------------------------
(* Requests that leave.                                                    *)

(* p is the wait queue q without the bindings of N.                        *)
Shrunk(p, q, N) ==
  /\ p \in Seq(Bindings)
  /\ \A i \in 1..Len(p) : \E k \in 1..Len(q) : p[i] = q[k] /\ q[k] \notin N
  /\ \A i, j \in 1..Len(p) : p[i] = p[j] => i = j

(* The requests of N leave, and others may be disowned.                    *)
Disowning(r, req, N) ==
  /\ r \in [Bindings -> Requests]
  /\ \A b \in N : r[b] = NoRequest /\ req[b].phase # "attempting"
  /\ \A b \in Bindings \ N :
       /\ r[b].phase = req[b].phase /\ r[b].handed = req[b].handed
       /\ RequestOK(r[b])
       /\ r[b].owned => req[b].owned
       /\ req[b].phase = "waiting" => r[b] = req[b]

(* The requests of N leave the FIFOs.                                      *)
OutWithout(st, t, N) ==
  /\ DOMAIN t.s = Slots
  /\ \A s \in Slots :
       /\ DOMAIN t.s[s] = SlotFields
       /\ Out(t, s) \in Seq(OutItems)
       /\ \A i \in 1..Len(Out(t, s)) :
            Out(t, s)[i].kind = "req" => Out(t, s)[i].b \notin N
  /\ ThinnedOut(st, t)

(* Canceled requests leave, or are disowned in flight.                     *)
LEMMA DropRequestsSound ==
  ASSUME NEW o, NEW st, NEW X, NEW Y, NEW Q, Sound(o, st, X, Y, Q),
         NEW N, N \subseteq Bindings, NEW t,
         Same(st, t, {"req", "waitQ", "s", "use", "all"}),
         Shrunk(t.waitQ, st.waitQ, N), Disowning(t.req, st.req, N),
         OutWithout(st, t, N)
  PROVE  Sound(o, t, X, Y, Q)
<1>1. /\ t.b = st.b /\ t.state = st.state
      /\ t.queue = st.queue /\ t.result = st.result /\ t.leased = st.leased
      /\ t.notify = st.notify /\ t.readyQ = st.readyQ
      /\ t.readySig = st.readySig /\ t.nextID = st.nextID
  BY DEF Same, MFields
<1>2. Fifo(st) /\ FifoType(st)
  BY DEF Sound, Fifo
<1>3. Evolves(o, t)
  <2>1. Quiet(st, t)
    BY DEF Quiet, Same, MFields
  <2> QED
    BY <2>1, QuietEvolves DEF Sound
<1>4. FifoType(t)
  BY <1>2 DEF FifoType, OutWithout, ThinnedOut, Shrunk, Disowning
<1>5. WaitersOpen(t)
  <2> SUFFICES ASSUME NEW i \in 1..Len(t.waitQ)
               PROVE  /\ t.req[t.waitQ[i]].phase = "waiting"
                      /\ t.req[t.waitQ[i]].owned
    BY DEF WaitersOpen, Shrunk
  <2>1. PICK k \in 1..Len(st.waitQ) : /\ t.waitQ[i] = st.waitQ[k]
                                      /\ st.waitQ[k] \notin N
    BY DEF Shrunk
  <2>2. st.waitQ[k] \in Bindings
    BY <1>2, <2>1 DEF FifoType
  <2>3. st.req[st.waitQ[k]].phase = "waiting" /\ st.req[st.waitQ[k]].owned
    BY <1>2, <2>1 DEF Fifo, WaitersOpen
  <2> QED
    BY <2>1, <2>2, <2>3 DEF Disowning
<1>6. \A b \in Bindings :
        /\ RequestOK(t.req[b])
        /\ t.req[b].phase # "none" => st.req[b].phase # "none"
        /\ t.req[b].phase = "attempting" <=> st.req[b].phase = "attempting"
  <2> SUFFICES ASSUME NEW b \in Bindings
               PROVE  /\ RequestOK(t.req[b])
                      /\ t.req[b].phase # "none" => st.req[b].phase # "none"
                      /\ t.req[b].phase = "attempting"
                           <=> st.req[b].phase = "attempting"
    OBVIOUS
  <2>1. CASE b \in N
    BY <2>1 DEF Disowning, NoRequest, RequestOK
  <2>2. CASE b \notin N
    BY <2>2 DEF Disowning
  <2> QED
    BY <2>1, <2>2
<1>7. ThinnedRequests(st, t)
  <2>1. ASSUME NEW s \in Slots, NEW i \in 1..Len(Out(t, s)),
               Out(t, s)[i].kind = "req"
        PROVE  t.req[Out(t, s)[i].b].phase # "none"
    <3>1. PICK h : IsThinning(h, Out(t, s), Out(st, s))
      BY DEF OutWithout, ThinnedOut, Thinned
    <3> DEFINE x == Out(st, s)[h[i]]
    <3>2. /\ h[i] \in 1..Len(Out(st, s))
          /\ Out(t, s)[i].kind = x.kind
          /\ Out(t, s)[i].b = x.b
      BY <3>1 DEF IsThinning
    <3>3. ItemOpen(st, s, x)
      BY <1>2, <3>2 DEF Fifo, ItemsOpen
    <3> HIDE DEF x
    <3>4. x.b \in Bindings /\ st.req[x.b].phase # "none"
      BY <2>1, <3>2, <3>3 DEF ItemOpen
    <3>5. x.b \notin N
      BY <2>1, <3>2 DEF OutWithout
    <3> QED
      BY <3>2, <3>4, <3>5 DEF Disowning
  <2> QED
    BY <1>6, <2>1 DEF ThinnedRequests
<1>8. Fifo(t) /\ Inherits(o, t)
  BY <1>1, <1>4, <1>5, <1>7, FifoThins DEF OutWithout
<1>9. \A b \in Bindings : t.req[b].owned =>
        /\ st.req[b].owned /\ t.req[b].phase = st.req[b].phase
        /\ t.req[b].handed = st.req[b].handed
  BY DEF Disowning, NoRequest
<1>10. \A b \in Bindings : HasReadyReason(t, b) => HasReadyReason(st, b)
  BY <1>1, <1>9 DEF HasReadyReason
<1>11. \A b \in Q : Quietened(t, b)
  BY <1>1, <1>9 DEF Sound, Heard, Quietened
<1>12. Heard(t, X, Y, Q)
  BY <1>1, <1>10, <1>11 DEF Sound, Heard, IsQueued
<1> QED
  BY <1>1, <1>3, <1>8, <1>12 DEF Sound, SameClosing

(* The wait queue without some bindings.                                   *)
LEMMA ShrunkWaiters ==
  ASSUME NEW st, Fifo(st), NEW N
  PROVE  /\ Shrunk(Excluding(st.waitQ, N), st.waitQ, N)
         /\ (\A b \in N : st.req[b].phase # "waiting") =>
              Shrunk(st.waitQ, st.waitQ, N)
<1> DEFINE q == st.waitQ
           p == Excluding(q, N)
<1>1. /\ q \in Seq(Bindings)
      /\ \A i, j \in 1..Len(q) : q[i] = q[j] => i = j
      /\ \A i \in 1..Len(q) : st.req[q[i]].phase = "waiting"
  BY DEF Fifo, FifoType, WaitersOpen
<1> HIDE DEF q
<1>2. /\ p \in Seq(Bindings)
      /\ \A i \in 1..Len(p) : \E k \in 1..Len(q) :
                                p[i] = q[k] /\ q[k] \notin N
      /\ \A i, j \in 1..Len(p) : p[i] = p[j] => i = j
  BY <1>1, ExcludingDistinct
<1> HIDE DEF p
<1>3. (\A b \in N : st.req[b].phase # "waiting") => Shrunk(q, q, N)
  BY <1>1 DEF Shrunk
<1> QED
  BY <1>2, <1>3 DEF Shrunk, p, q

(* removeOutboundLocked, before it signals the slots.                      *)
Removed(st, B) ==
  [st EXCEPT !.s = [s \in Slots |-> [@[s] EXCEPT !.out =
     Excluding(st.s[s].out,
               {i \in ItemsOf(st, s) : i.kind = "req" /\ i.b \in B})]]]

(* What removeOutboundLocked changes.                                      *)
LEMMA RemovedLaw ==
  ASSUME NEW st, Fifo(st), NEW u, DOMAIN u = MFields, u.s = st.s, NEW N,
         \A b \in N : st.req[b].phase # "attempting"
  PROVE  /\ Same(u, Removed(u, N), {"s"})
         /\ OutWithout(st, Removed(u, N), N)
<1> DEFINE t == Removed(u, N)
           q(s) == Out(st, s)
           gone(s) == {i \in Elements(q(s)) : i.kind = "req" /\ i.b \in N}
           kept(s) == Excluding(q(s), gone(s))
<1>1. t = [u EXCEPT !.s = [s \in Slots |-> [@[s] EXCEPT !.out = kept(s)]]]
  BY DEF Removed, ItemsOf, Out
<1>2. ASSUME NEW s \in Slots
      PROVE  /\ kept(s) \in Seq(OutItems)
             /\ Thinned(kept(s), q(s))
             /\ q(s) # <<>> /\ q(s)[1] \notin gone(s) =>
                  kept(s) # <<>> /\ kept(s)[1] = q(s)[1]
             /\ Elements(kept(s)) = Elements(q(s)) \ gone(s)
  <2>1. q(s) \in Seq(OutItems)
    BY DEF Fifo, FifoType
  <2> HIDE DEF q, gone
  <2> QED
    BY <2>1, ExcludingThins, ExcludingLaw
<1>3. ASSUME NEW s \in Slots, st.s[s].attempting
      PROVE  q(s) # <<>> /\ q(s)[1] \notin gone(s)
  BY <1>3 DEF Fifo, HeadSubmitted
<1>4. ASSUME NEW s \in Slots, NEW i \in 1..Len(kept(s)),
             kept(s)[i].kind = "req"
      PROVE  kept(s)[i].b \notin N
  <2>1. kept(s)[i] \in Elements(kept(s))
    BY DEF Elements
  <2>2. kept(s)[i] \in Elements(q(s)) \ gone(s)
    BY <1>2, <2>1
  <2> HIDE DEF kept
  <2> QED
    BY <1>4, <2>2
<1> HIDE DEF t, kept, gone
<1>5. /\ Same(u, t, {"s"})
      /\ t.s = [s \in Slots |-> [st.s[s] EXCEPT !.out = kept(s)]]
  BY <1>1 DEF Same, MFields
<1>6. /\ DOMAIN t.s = Slots
      /\ \A s \in Slots : /\ DOMAIN t.s[s] = SlotFields
                          /\ Out(t, s) = kept(s)
                          /\ t.s[s].attempting = st.s[s].attempting
                          /\ t.s[s].failed = st.s[s].failed
  <2>1. \A s \in Slots : DOMAIN st.s[s] = SlotFields
    BY DEF Fifo, FifoType
  <2> HIDE DEF q
  <2> QED
    BY <1>5, <2>1 DEF SlotFields, Out
<1>7. ThinnedOut(st, t)
  BY <1>2, <1>3, <1>6 DEF ThinnedOut
<1>8. OutWithout(st, t, N)
  BY <1>2, <1>4, <1>6, <1>7 DEF OutWithout
<1> QED
  BY <1>5, <1>8 DEF t

(* removeOutboundLocked leaves the rest of the manager alone.              *)
LEMMA RemoveRequestsIs ==
  ASSUME NEW st, NEW N
  PROVE  \E S : RemoveRequests(st, N) = SignalSlots(Removed(st, N), S)
BY DEF RemoveRequests, Removed

(* The fields cancelRequestLocked changes.                                 *)
CancelFields == PromoteFields \cup {"s"}

(* Requests that leave, and the waiters that profit.                       *)
LEMMA RemoveSound ==
  ASSUME NEW o, NEW st, NEW X, NEW Y, NEW Q, Sound(o, st, X, Y, Q),
         NEW N, N \subseteq Bindings, NEW u,
         Same(st, u, {"req", "waitQ", "use", "all"}),
         Shrunk(u.waitQ, st.waitQ, N), Disowning(u.req, st.req, N)
  PROVE  /\ Sound(o, Promote(RemoveRequests(u, N)), X, Y, Q)
         /\ Granted(u, Promote(RemoveRequests(u, N)))
         /\ Same(st, Promote(RemoveRequests(u, N)), CancelFields)
<1> DEFINE t == Removed(u, N)
<1>1. Fifo(st) /\ DOMAIN u = MFields /\ u.s = st.s
  BY DEF Sound, Same, MFields
<1>2. Same(u, t, {"s"}) /\ OutWithout(st, t, N)
  BY <1>1, RemovedLaw DEF Disowning
<1> HIDE DEF t
<1>3. /\ Same(st, t, {"req", "waitQ", "s", "use", "all"})
      /\ t.req = u.req /\ t.waitQ = u.waitQ
  BY <1>2 DEF Same, MFields
<1>4. Sound(o, t, X, Y, Q)
  BY <1>2, <1>3, DropRequestsSound
<1>5. PICK S : RemoveRequests(u, N) = SignalSlots(t, S)
  BY RemoveRequestsIs DEF t
<1> DEFINE v == SignalSlots(t, S)
<1>6. Sound(o, v, X, Y, Q)
  BY <1>4, SignalSlotsSound
<1>7. Same(t, v, {"s"})
  <2>1. IsState(t)
    BY <1>4 DEF Sound, Evolves
  <2> QED
    BY <2>1, SignalSlotsLaw
<1> HIDE DEF v
<1>8. Sound(o, Promote(v), X, Y, Q) /\ Granted(v, Promote(v))
        /\ Same(v, Promote(v), PromoteFields)
  BY <1>6, PromoteSound
<1>9. v.req = u.req
  BY <1>3, <1>7 DEF Same, MFields
<1>10. Granted(u, Promote(v))
  BY <1>8, <1>9 DEF Granted
<1>11. Same(st, Promote(v), CancelFields)
  BY <1>3, <1>7, <1>8 DEF Same, CancelFields, PromoteFields
<1> QED
  BY <1>5, <1>8, <1>10, <1>11 DEF v

(* cancelRequestLocked takes the requests of B away from their bindings.   *)
LEMMA CancelRequestSound ==
  ASSUME NEW o, NEW st, NEW X, NEW Y, NEW Q, Sound(o, st, X, Y, Q),
         NEW B, B \subseteq Bindings
  PROVE  /\ Sound(o, CancelRequest(st, B), X, Y, Q)
         /\ \A b \in B : ~CancelRequest(st, B).req[b].owned
         /\ Same(st, CancelRequest(st, B), CancelFields)
<1> DEFINE live     == {b \in B : st.req[b].phase # "none" /\ ~st.req[b].canceled}
           inFlight == {b \in live :
                          st.req[b].phase \in {"materializing", "attempting"}}
           now      == live \ inFlight
           paid     == {b \in now : Charged(st.req[b])}
           on(s)    == {b \in paid : SlotOf(st, b) = s}
           bytes(C) == SumOf([b \in C |-> st.req[b].size])
           r == [b \in Bindings |->
                   IF b \in now THEN NoRequest
                   ELSE IF b \in inFlight
                        THEN [st.req[b] EXCEPT !.canceled = TRUE, !.owned = FALSE]
                        ELSE st.req[b]]
           use == [s \in Slots |->
                   [st.use[s] EXCEPT !.reqItems = @ - Cardinality(on(s)),
                                     !.reqBytes = @ - bytes(on(s))]]
           k == Cardinality(paid)
           l == bytes(paid)
           u == [st EXCEPT !.req = r, !.waitQ = Excluding(@, now), !.use = use,
                           !.all.reqItems = @ - k, !.all.reqBytes = @ - l]
           t == CancelRequest(st, B)
<1>1. t = IF now = {} THEN u ELSE Promote(RemoveRequests(u, now))
  <2>1. \A b \in Bindings : r[b] = IF b \in now THEN NoRequest
                ELSE IF b \in inFlight
                     THEN [st.req[b] EXCEPT !.canceled = TRUE, !.owned = FALSE]
                     ELSE st.req[b]
    OBVIOUS
  <2> QED
    BY DEF CancelRequest
<1>2. /\ Fifo(st) /\ IsState(st) /\ st.req \in [Bindings -> Requests]
      /\ \A b \in Bindings : RequestOK(st.req[b])
  BY DEF Sound, Evolves, Fifo, FifoType
<1>3. /\ now \subseteq Bindings
      /\ \A b \in now : st.req[b].phase # "attempting"
      /\ \A b \in inFlight : /\ b \in Bindings /\ b \notin now
                             /\ st.req[b].phase \in {"materializing", "attempting"}
      /\ \A b \in B : b \notin now /\ b \notin inFlight => ~st.req[b].owned
  BY <1>2 DEF RequestOK
<1> HIDE DEF now, inFlight, use, k, l, t
<1>4. /\ Same(st, u, {"req", "waitQ", "use", "all"})
      /\ u.req = r /\ u.waitQ = Excluding(st.waitQ, now)
  BY <1>2 DEF IsState, MFields, Same
<1> HIDE DEF u
<1>5. Disowning(r, st.req, now)
  <2>1. ASSUME NEW b \in Bindings
        PROVE  /\ r[b] \in Requests
               /\ b \in now => r[b] = NoRequest
               /\ b \notin now =>
                    /\ r[b].phase = st.req[b].phase
                    /\ r[b].handed = st.req[b].handed
                    /\ RequestOK(r[b])
                    /\ r[b].owned => st.req[b].owned
                    /\ st.req[b].phase = "waiting" => r[b] = st.req[b]
    <3>1. st.req[b] \in Requests /\ RequestOK(st.req[b])
      BY <1>2
    <3>2. CASE b \in now
      BY <3>2 DEF NoRequest, Requests, Phases
    <3>3. CASE b \notin now /\ b \notin inFlight
      BY <3>1, <3>3
    <3>4. CASE b \notin now /\ b \in inFlight
      <4>1. r[b] = [st.req[b] EXCEPT !.canceled = TRUE, !.owned = FALSE]
        BY <3>4
      <4> HIDE DEF r
      <4>2. /\ r[b] \in Requests /\ r[b].phase = st.req[b].phase
            /\ r[b].handed = st.req[b].handed
            /\ r[b].canceled /\ ~r[b].owned
        BY <3>1, <4>1 DEF Requests
      <4> QED
        BY <1>3, <3>4, <4>2 DEF RequestOK
    <3> QED
      BY <3>2, <3>3, <3>4
  <2>2. r \in [Bindings -> Requests]
    BY <2>1
  <2> HIDE DEF r
  <2> QED
    BY <1>3, <2>1, <2>2 DEF Disowning
<1>6. Shrunk(u.waitQ, st.waitQ, now)
  BY <1>2, <1>4, ShrunkWaiters
<1>7. \A b \in B : ~r[b].owned
  <2> SUFFICES ASSUME NEW b \in B PROVE ~r[b].owned
    OBVIOUS
  <2>1. CASE b \in now
    BY <2>1 DEF NoRequest
  <2>2. CASE b \notin now /\ b \in inFlight
    <3>1. r[b] = [st.req[b] EXCEPT !.canceled = TRUE, !.owned = FALSE]
      BY <2>2
    <3> HIDE DEF r
    <3> QED
      BY <1>2, <3>1 DEF Requests
  <2>3. CASE b \notin now /\ b \notin inFlight
    BY <1>3, <2>3
  <2> QED
    BY <2>1, <2>2, <2>3
<1> HIDE DEF r
<1>8. CASE now = {}
  <2>1. t = u
    BY <1>1, <1>8
  <2>2. OutWithout(st, u, now)
    <3>1. u.s = st.s
      BY <1>4 DEF Same, MFields
    <3>2. \A s \in Slots : Thinned(Out(st, s), Out(st, s))
      BY ThinnedRefl
    <3> QED
      BY <1>2, <1>8, <3>1, <3>2 DEF OutWithout, ThinnedOut, Fifo, FifoType, Out
  <2>3. Same(st, u, {"req", "waitQ", "s", "use", "all"})
    BY <1>4 DEF Same
  <2>4. Sound(o, u, X, Y, Q)
    BY <1>3, <1>4, <1>5, <1>6, <2>2, <2>3, DropRequestsSound
  <2>5. Same(st, u, CancelFields)
    BY <1>4 DEF Same, CancelFields, PromoteFields
  <2> QED
    BY <1>4, <1>7, <2>1, <2>4, <2>5 DEF t
<1>9. CASE now # {}
  <2> DEFINE v == Promote(RemoveRequests(u, now))
  <2>1. t = v
    BY <1>1, <1>9
  <2>2. Sound(o, v, X, Y, Q) /\ Granted(u, v) /\ Same(st, v, CancelFields)
    BY <1>3, <1>4, <1>5, <1>6, RemoveSound
  <2> HIDE DEF v
  <2>3. \A b \in B : ~v.req[b].owned
    BY <1>4, <1>7, <2>2 DEF Granted
  <2> QED
    BY <2>1, <2>2, <2>3 DEF t
<1> QED
  BY <1>8, <1>9

(* cancelSlotOutboundLocked.                                               *)
LEMMA CancelSlotOutboundSound ==
  ASSUME NEW o, NEW st, NEW X, NEW Y, NEW Q, Sound(o, st, X, Y, Q),
         NEW S, S \subseteq Slots
  PROVE  /\ Sound(o, CancelSlotOutbound(st, S), X, Y, Q)
         /\ Same(st, CancelSlotOutbound(st, S), CancelFields)
<1> DEFINE queued(s) == {i.b : i \in {j \in ItemsOf(st, s) : j.kind = "req"}}
           B == UNION {queued(s) : s \in S}
           t == CompleteProbe(st, S, FALSE)
           G == [s \in Slots |-> {i \in ItemsOf(t, s) : i.kind # "req"}]
           u == CancelControls(t, S, G)
<1>1. CancelSlotOutbound(st, S) = CancelRequest(u, B)
  BY DEF CancelSlotOutbound
<1>2. B \subseteq Bindings
  <2> SUFFICES ASSUME NEW s \in Slots, NEW i \in ItemsOf(st, s), i.kind = "req"
               PROVE  i.b \in Bindings
    OBVIOUS
  <2>1. PICK n \in 1..Len(Out(st, s)) : i = Out(st, s)[n]
    BY DEF ItemsOf, Elements, Out
  <2>2. ItemOpen(st, s, i)
    BY <2>1 DEF Sound, Fifo, ItemsOpen
  <2> QED
    BY <2>2 DEF ItemOpen
<1>3. Sound(o, t, X, Y, Q) /\ Same(st, t, {"s", "use", "all"})
  BY CompleteProbeSound
<1> HIDE DEF t, G, B
<1>4. Sound(o, u, X, Y, Q) /\ Same(t, u, {"s", "use", "all"})
  BY <1>3, CancelControlsSound
<1> HIDE DEF u
<1>5. /\ Sound(o, CancelRequest(u, B), X, Y, Q)
      /\ Same(u, CancelRequest(u, B), CancelFields)
  BY <1>2, <1>4, CancelRequestSound
<1>6. Same(st, CancelRequest(u, B), CancelFields)
  BY <1>3, <1>4, <1>5 DEF Same, CancelFields, PromoteFields
<1> QED
  BY <1>1, <1>5, <1>6

-----------------------------------------------------------------------------
(* The composed critical sections.                                         *)

(* A state may follow itself.                                              *)
LEMMA SoundRefl ==
  ASSUME NEW o, NEW st, NEW X, NEW Y, NEW Q, Sound(o, st, X, Y, Q)
  PROVE  Sound(st, st, X, Y, Q)
<1>1. Evolves(st, st)
  BY EvolvesRefl DEF Sound, Evolves
<1>2. SameClosing(st, st)
  BY DEF Sound, SameClosing
<1>3. Carries(st, st)
  BY DEF Carries, IsRequest
<1>4. Inherits(st, st)
  BY <1>3 DEF Inherits
<1> QED
  BY <1>1, <1>2, <1>4 DEF Sound

(* What is carried twice is carried.                                       *)
LEMMA CarriesTrans ==
  ASSUME NEW o, NEW st, NEW t, Carries(o, st), Carries(st, t)
  PROVE  Carries(o, t)
<1>1. \A b \in Bindings :
        /\ t.req[b].phase # "none" => o.req[b].phase # "none"
        /\ t.result[b] = "accepted" => o.result[b] = "accepted"
  BY DEF Carries
<1>2. ASSUME NEW s \in Slots, NEW i \in 1..Len(Out(t, s)),
             Out(t, s)[i].kind = "req"
      PROVE  \E j \in 1..Len(Out(o, s)) : IsRequest(Out(o, s)[j],
                                                    Out(t, s)[i].b)
  <2>1. PICK j \in 1..Len(Out(st, s)) : IsRequest(Out(st, s)[j],
                                                  Out(t, s)[i].b)
    BY <1>2 DEF Carries
  <2>2. Out(st, s)[j].kind = "req" /\ Out(st, s)[j].b = Out(t, s)[i].b
    BY <2>1 DEF IsRequest
  <2>3. PICK k \in 1..Len(Out(o, s)) : IsRequest(Out(o, s)[k],
                                                 Out(st, s)[j].b)
    BY <2>2 DEF Carries
  <2> QED
    BY <2>2, <2>3
<1> QED
  BY <1>1, <1>2 DEF Carries

(* What follows what follows o follows o.                                  *)
LEMMA SoundTrans ==
  ASSUME NEW o, NEW st, NEW X, NEW Y, NEW Q, Sound(o, st, X, Y, Q),
         NEW t, NEW X2, NEW Y2, NEW Q2, Sound(st, t, X2, Y2, Q2)
  PROVE  Sound(o, t, X2, Y2, Q2)
<1>1. Evolves(o, t)
  BY EvolvesTrans DEF Sound
<1>2. SameClosing(o, t)
  BY DEF Sound, SameClosing
<1>3. Carries(o, t)
  <2>1. Carries(o, st) /\ Carries(st, t)
    BY DEF Sound, Inherits
  <2> QED
    BY <2>1, CarriesTrans
<1>4. Inherits(o, t)
  BY <1>3 DEF Sound, Inherits
<1> QED
  BY <1>1, <1>2, <1>4 DEF Sound

(* The slots of t have the FIFOs of those of st.                           *)
SlotsAlike(st, t) ==
  /\ DOMAIN t.s = Slots
  /\ \A s \in Slots : /\ DOMAIN t.s[s] = SlotFields
                      /\ Out(t, s) = Out(st, s)
                      /\ t.s[s].attempting = st.s[s].attempting

(* The fields the manager's owner and the supervisors of its slots         *)
(* change.                                                                 *)
OwnerFields == {"s", "state", "err", "use", "all", "accepting", "drained",
                "probeID", "bindNext"}

(* What the manager's owner changes.                                       *)
LEMMA SoundRestart ==
  ASSUME NEW o, NEW st, NEW X, NEW Y, NEW Q, Sound(o, st, X, Y, Q),
         NEW t, IsState(t), Same(st, t, OwnerFields), SlotsAlike(st, t)
  PROVE  Sound(t, t, X, Y, Q) /\ Carries(st, t)
<1>1. /\ t.req = st.req /\ t.waitQ = st.waitQ /\ t.b = st.b
      /\ t.result = st.result /\ t.queue = st.queue /\ t.nextID = st.nextID
      /\ t.leased = st.leased /\ t.notify = st.notify
      /\ t.readyQ = st.readyQ /\ t.readySig = st.readySig
  BY DEF Same, MFields, OwnerFields
<1>2. FifoType(t)
  BY <1>1 DEF Sound, Fifo, FifoType, SlotsAlike
<1>3. ItemsOpen(t)
  BY <1>1 DEF Sound, Fifo, ItemsOpen, ItemOpen, SlotsAlike
<1>4. HeadSubmitted(t)
  BY <1>1 DEF Sound, Fifo, HeadSubmitted, SlotsAlike
<1>5. WaitersOpen(t)
  BY <1>1 DEF Sound, Fifo, WaitersOpen
<1>6. Fifo(t)
  BY <1>1, <1>2, <1>3, <1>4, <1>5 DEF Sound, Fifo, Unborn
<1>7. \A b \in Bindings : HasReadyReason(t, b) => HasReadyReason(st, b)
  BY <1>1 DEF HasReadyReason
<1>8. Heard(t, X, Y, Q)
  BY <1>1, <1>7 DEF Sound, Heard, IsQueued, Quietened
<1>9. Evolves(t, t) /\ SameClosing(t, t)
  BY <1>1, EvolvesRefl DEF Sound, SameClosing
<1>10. Carries(t, t) /\ Inherits(t, t)
  BY DEF Carries, IsRequest, Inherits
<1>11. Carries(st, t)
  BY <1>1 DEF Carries, IsRequest, SlotsAlike
<1> QED
  BY <1>6, <1>8, <1>9, <1>10, <1>11 DEF Sound

(* terminalizeBinding; the close of b has made b quiet.                    *)
LEMMA TerminalizeSound ==
  ASSUME NEW o, NEW st, NEW Q, Sound(o, st, {}, {}, Q), NEW b \in Bindings,
         NEW err, st.b[b].closeStarted => b \in Q
  PROVE  Sound(o, Terminalize(st, b, err), {}, {}, Q)
<1> DEFINE d == DetachActive(st, {b})
           c == CancelRequest(d, {b})
           p == PublishTerminal(c, {b}, err)
           q == IF st.b[b].closeStarted
                THEN ObserveTerminal(PublishClose(p, {b}, err), {b}) ELSE p
<1>1. Sound(o, d, {}, {}, Q) /\ ~d.b[b].active
  <2>1. IsState(st)
    BY DEF Sound, Evolves
  <2>2. d.b[b] = [st.b[b] EXCEPT !.active = FALSE]
    BY <2>1, DetachActiveLaw
  <2>3. ~d.b[b].active
    BY <2>1, <2>2 DEF IsState, IsLife, LifeFields
  <2> QED
    BY <2>3, DetachActiveSound
<1> HIDE DEF d
<1>2. Sound(o, c, {}, {}, Q) /\ Same(d, c, CancelFields)
  BY <1>1, CancelRequestSound
<1> HIDE DEF c
<1>3. ~c.b[b].active
  BY <1>1, <1>2 DEF Same, CancelFields, PromoteFields, MFields
<1>4. Sound(o, p, {} \ {b}, {} \ {b}, Q)
  BY <1>2, <1>3, PublishTerminalSound
<1>5. Sound(o, p, {}, {}, Q)
  <2>1. {} \ {b} = {}
    OBVIOUS
  <2> QED
    BY <1>4, <2>1
<1> HIDE DEF p
<1>6. Sound(o, q, {}, {}, Q)
  BY <1>5, PublishCloseSound, ObserveTerminalSound
<1> HIDE DEF q
<1>7. Sound(o, ReleaseTerminal(q, {b}), {}, {}, Q)
  BY <1>6, ReleaseTerminalSound
<1> QED
  BY <1>7 DEF Terminalize, q, p, c, d

(* The end of every resident binding of a manager that closes.             *)
LEMMA ManagerClosingSound ==
  ASSUME NEW o, NEW st, NEW Q, Sound(o, st, {}, {}, Q), NEW err
  PROVE  /\ Sound([st EXCEPT !.state = "closing", !.err = FirstError(@, err)],
                  ManagerClosing(st, err), {}, {}, Q)
         /\ \A b \in Bindings : ~ManagerClosing(st, err).b[b].active
<1> DEFINE R == Residents(st)
           t == [st EXCEPT !.state = "closing", !.err = FirstError(@, err)]
           st1 == CancelSlotOutbound(t, Slots)
           d   == DetachActive(st1, R)
           c   == ClearQueue(d, R)
           r   == DropResult(c, R)
           i   == InvalidateReady(r, R)
           st2 == CancelRequest(i, R)
           st3 == PublishTerminal(st2, R, st1.err)
           st4 == [st3 EXCEPT !.b = [b \in Bindings |->
                     IF b \in R /\ ~@[b].closeSet
                     THEN [@[b] EXCEPT !.closeSet = TRUE,
                                       !.closeErr = st3.b[b].err]
                     ELSE @[b]]]
           M   == {b \in R : st.b[b].mode # "token"}
           st5 == ObserveTerminal(st4, M)
<1>1. R \subseteq Bindings /\ M \subseteq R /\ R \cap Bindings = R
  BY DEF Residents
<1>2. Sound(t, t, {}, {}, Q)
  <2>1. IsState(t) /\ Same(st, t, OwnerFields) /\ t.s = st.s
    BY DEF Sound, Evolves, IsState, MFields, Same, OwnerFields
  <2>2. SlotsAlike(st, t)
    BY <2>1 DEF SlotsAlike, Sound, Fifo, FifoType, Out
  <2> HIDE DEF t
  <2> QED
    BY <2>1, <2>2, SoundRestart
<1> HIDE DEF t, R, M
<1>3. Sound(t, st1, {}, {}, Q)
  BY <1>2, CancelSlotOutboundSound
<1> HIDE DEF st1
<1>4. Sound(t, d, {}, {}, Q) /\ \A b \in R : ~d.b[b].active
  <2>1. IsState(st1)
    BY <1>3 DEF Sound, Evolves
  <2>2. \A b \in R : d.b[b] = [st1.b[b] EXCEPT !.active = FALSE]
    BY <1>1, <2>1, DetachActiveLaw
  <2>3. \A b \in R : ~d.b[b].active
    BY <1>1, <2>1, <2>2 DEF IsState, IsLife, LifeFields
  <2>4. Sound(t, d, {}, {}, Q)
    BY <1>3, DetachActiveSound
  <2> QED
    BY <2>3, <2>4
<1> HIDE DEF d
<1>5. Sound(t, c, {}, {}, Q) /\ c.b = d.b /\ \A b \in R : c.queue[b] = <<>>
  <2>1. IsState(d)
    BY <1>4 DEF Sound, Evolves
  <2>2. /\ Same(d, c, {"queue", "use", "all"})
        /\ c.queue = [b \in Bindings |-> IF b \in R THEN <<>> ELSE d.queue[b]]
    BY <2>1, ClearQueueLaw
  <2>3. Sound(t, c, {}, {}, Q)
    BY <1>4, ClearQueueSound
  <2> HIDE DEF c
  <2> QED
    BY <1>1, <2>2, <2>3 DEF Same, MFields
<1> HIDE DEF c
<1>6. /\ Sound(t, r, {}, {}, Q) /\ r.b = d.b
      /\ \A b \in R : r.queue[b] = <<>> /\ r.result[b] = "none"
  <2>1. IsState(c)
    BY <1>5 DEF Sound, Evolves
  <2>2. /\ Same(c, r, {"result"})
        /\ r.result = [b \in Bindings |-> IF b \in R THEN "none" ELSE c.result[b]]
    BY <2>1, DropResultLaw
  <2>3. Sound(t, r, {}, {}, Q)
    BY <1>5, DropResultSound
  <2> HIDE DEF r
  <2> QED
    BY <1>1, <1>5, <2>2, <2>3 DEF Same, MFields
<1> HIDE DEF r
<1>7. Sound(t, i, R, {}, Q) /\ i.b = r.b /\ i.queue = r.queue
        /\ i.result = r.result
  <2>1. Sound(t, i, {} \cup R, {}, Q)
    BY <1>6, InvalidateReadySound
  <2>2. {} \cup R = R
    OBVIOUS
  <2>3. IsState(r) /\ r.readyQ \in Seq(Bindings)
    BY <1>6 DEF Sound, Evolves, Heard
  <2>4. Same(r, UnlinkReady(r, R), {"readyQ", "readySig"})
    BY <2>3, UnlinkReadyLaw
  <2>5. i.b = r.b /\ i.queue = r.queue /\ i.result = r.result
    BY <2>4 DEF InvalidateReady, Same, MFields
  <2> QED
    BY <2>1, <2>2, <2>5
<1> HIDE DEF i
<1>8. /\ Sound(t, st2, R, {}, Q) /\ Same(i, st2, CancelFields)
      /\ \A b \in R : ~st2.req[b].owned
  BY <1>1, <1>7, CancelRequestSound
<1> HIDE DEF st2
<1>9. /\ \A b \in R : ~st2.b[b].active
      /\ \A b \in R : Quietened(st2, b)
  <2>1. st2.b = i.b /\ st2.queue = i.queue /\ st2.result = i.result
    BY <1>8 DEF Same, CancelFields, PromoteFields, MFields
  <2> QED
    BY <1>4, <1>6, <1>7, <1>8, <2>1 DEF Quietened
<1>10. Sound(st2, st2, R, {}, Q \cup R)
  BY <1>1, <1>8, <1>9, SoundQuiet, SoundRefl
<1>11. Sound(st2, st3, {}, {}, Q \cup R)
  <2>1. R \subseteq Bindings /\ \A b \in R : ~st2.b[b].active
    BY <1>1, <1>9
  <2>2. Sound(st2, st3, R \ R, {} \ R, Q \cup R)
    BY <1>10, <2>1, PublishTerminalSound
  <2>3. R \ R = {} /\ {} \ R = {}
    OBVIOUS
  <2> QED
    BY <2>2, <2>3
<1> HIDE DEF st3
<1>12. Sound(st2, st4, {}, {}, Q \cup R)
  <2>1. Evolves(st2, st3) /\ IsState(st3)
    BY <1>11 DEF Sound, Evolves
  <2>2. /\ DOMAIN st4 = MFields /\ st4.accepting = st3.accepting
        /\ st4.drained = st3.drained /\ st4.nextID = st3.nextID
        /\ DOMAIN st4.b = Bindings /\ Same(st3, st4, {"b"})
    BY <2>1 DEF IsState, MFields, Same
  <2>3. ASSUME NEW b \in Bindings
        PROVE  /\ IsLife(st4.b[b]) /\ Kept(st3.b[b], st4.b[b])
               /\ SameVoice(st3.b[b], st4.b[b])
    <3>1. st4.b[b] = IF b \in R /\ ~st3.b[b].closeSet
                     THEN WithClose(st3.b[b], st3.b[b].err)
                     ELSE st3.b[b]
      BY <2>1 DEF IsState, MFields, WithClose
    <3> HIDE DEF st4
    <3>2. IsLife(st3.b[b])
      BY <2>1 DEF IsState
    <3>3. CASE st4.b[b] = st3.b[b]
      BY <3>2, <3>3 DEF IsLife, Kept, SameVoice
    <3>4. CASE st4.b[b] = WithClose(st3.b[b], st3.b[b].err) /\ ~st3.b[b].closeSet
      BY <3>2, <3>4 DEF IsLife, Kept, LifeFields, SameVoice, WithClose
    <3> QED BY <3>1, <3>3, <3>4
  <2> HIDE DEF st4
  <2>4. LivesOnly(st3, st4)
    BY <2>2, <2>3 DEF LivesOnly, LivesKept
  <2>5. Evolves(st2, st4)
    BY <2>1, <2>4, LivesEvolve
  <2>6. Same(st3, st4, {"b", "drained", "use", "all", "err", "probeID"})
    BY <2>2 DEF Same
  <2> QED
    BY <1>11, <2>3, <2>5, <2>6, SoundLives
<1> HIDE DEF st4
<1>13. Sound(st2, st5, {}, {}, Q \cup R)
  <2>1. M \subseteq Q \cup R
    BY <1>1
  <2> QED
    BY <1>12, <2>1, ObserveTerminalSound
<1> HIDE DEF st5
<1>14. \A b \in R \cap Bindings : ~st5.b[b].active
  BY <1>1, <1>9, <1>13 DEF Sound, Evolves, LivesKept, Kept
<1>15. Sound(st2, ReleaseResident(st5, R), {}, {}, Q \cup R)
  BY <1>13, <1>14, ReleaseResidentSound
<1>16. Sound(t, ReleaseResident(st5, R), {}, {}, Q \cup R)
  BY <1>8, <1>15, SoundTrans
<1>17. Sound(t, ReleaseResident(st5, R), {}, {}, Q)
  <2>1. Q \subseteq Q \cup R
    OBVIOUS
  <2> QED
    BY <1>16, <2>1, SoundMono
<1>18. ReleaseResident(st5, R) = ManagerClosing(st, err)
  BY DEF ManagerClosing, st5, st4, st3, st2, i, r, c, d, st1, t, R, M
<1>19. \A b \in Bindings : ~ReleaseResident(st5, R).b[b].active
  <2>1. \A b \in Bindings : b \in R \/ ~t.b[b].active
    <3>1. \A b \in Bindings : b \in R \/ ~st.b[b].active
      BY DEF Sound, Fifo, LifeOK, R, Residents
    <3>2. t.b = st.b
      BY DEF Sound, Evolves, IsState, MFields, t
    <3> QED
      BY <3>1, <3>2
  <2>2. \A b \in Bindings : b \in R => ~st2.b[b].active
    BY <1>9
  <2> QED
    BY <1>15, <1>16, <2>1, <2>2 DEF Sound, Evolves, LivesKept, Kept
<1> QED
  BY <1>17, <1>18, <1>19 DEF t

-----------------------------------------------------------------------------
(* Operators that touch only the bindings of a set.                        *)

(* The lives outside B, and the responses, are those of o.                 *)
Untouched(o, t, B) ==
  /\ \A b \in Bindings \ B : t.b[b] = o.b[b]
  /\ t.queue = o.queue

(* detachActiveBindingLocked leaves the other bindings alone.              *)
LEMMA DetachActiveLocal ==
  ASSUME NEW o, NEW st, NEW B, Untouched(o, st, B), IsState(st),
         NEW F, F \subseteq B
  PROVE  Untouched(o, DetachActive(st, F), B)
<1>1. /\ Same(st, DetachActive(st, F), {"b"})
      /\ \A b \in Bindings : DetachActive(st, F).b[b]
           = IF b \in F THEN [st.b[b] EXCEPT !.active = FALSE] ELSE st.b[b]
  BY DetachActiveLaw
<1> QED
  BY <1>1 DEF Untouched, Same, MFields

(* publishBindingTerminalLocked leaves the other bindings alone.           *)
LEMMA PublishTerminalLocal ==
  ASSUME NEW o, NEW st, NEW B, Untouched(o, st, B), IsState(st),
         NEW F, F \subseteq B, NEW err
  PROVE  Untouched(o, PublishTerminal(st, F, err), B)
<1> DEFINE t == [st EXCEPT !.b = [b \in Bindings |->
                   IF b \in F THEN Ended(@[b], err) ELSE @[b]]]
<1>1. /\ DOMAIN t = MFields /\ t.queue = st.queue
      /\ \A b \in Bindings : t.b[b] = IF b \in F THEN Ended(st.b[b], err)
                                      ELSE st.b[b]
  BY DEF IsState, MFields
<1> HIDE DEF t
<1>2. Same(t, SignalBinding(t, F), {"readyQ", "readySig", "notify"})
  BY <1>1, SignalBindingFrame
<1>3. SignalBinding(t, F).b = t.b /\ SignalBinding(t, F).queue = t.queue
  BY <1>2 DEF Same, MFields
<1> QED
  BY <1>1, <1>3 DEF Untouched, PublishTerminal, t

(* publishBindingCloseLocked leaves the other bindings alone.              *)
LEMMA PublishCloseLocal ==
  ASSUME NEW o, NEW st, NEW B, Untouched(o, st, B), IsState(st),
         NEW F, F \subseteq B, NEW err
  PROVE  Untouched(o, PublishClose(st, F, err), B)
BY PublishCloseLaw DEF Untouched, Same, MFields

(* Observing an end leaves the other bindings alone.                       *)
LEMMA ObserveTerminalLocal ==
  ASSUME NEW o, NEW st, NEW B, Untouched(o, st, B), IsState(st),
         NEW F, F \subseteq B
  PROVE  Untouched(o, ObserveTerminal(st, F), B)
<1> DEFINE t == [st EXCEPT !.b = [b \in Bindings |->
                  IF b \in F THEN [@[b] EXCEPT !.observed = TRUE] ELSE @[b]]]
<1>1. /\ DOMAIN t = MFields /\ t.queue = st.queue
      /\ \A b \in Bindings \ F : t.b[b] = st.b[b]
  BY DEF IsState, MFields
<1> HIDE DEF t
<1>2. InvalidateReady(t, F).b = t.b /\ InvalidateReady(t, F).queue = t.queue
  BY <1>1 DEF InvalidateReady, UnlinkReady, MFields
<1> QED
  BY <1>1, <1>2 DEF Untouched, ObserveTerminal, t

(* releaseTerminalBindingLocked leaves the other bindings alone.           *)
LEMMA ReleaseTerminalLocal ==
  ASSUME NEW o, NEW st, NEW B, Untouched(o, st, B), IsState(st),
         NEW F, F \subseteq B
  PROVE  Untouched(o, ReleaseTerminal(st, F), B)
<1> DEFINE R == {b \in F :
    /\ st.b[b].terminal
    /\ st.queue[b] = <<>>
    /\ ~st.req[b].owned
    /\ st.result[b] = "none"
    /\ ~IsQueued(st, b)
    /\ ~st.leased[b]
    /\ st.b[b].observed \/ st.b[b].closeSet}
<1>1. R \subseteq B
  OBVIOUS
<1> HIDE DEF R
<1>2. /\ Same(st, ReleaseResident(st, R), {"b", "drained", "use", "all"})
      /\ \A b \in Bindings : ReleaseResident(st, R).b[b]
              = IF b \in R /\ st.b[b].resident
                THEN [st.b[b] EXCEPT !.resident = FALSE] ELSE st.b[b]
  BY ReleaseResidentLaw
<1>3. Untouched(o, ReleaseResident(st, R), B)
  BY <1>1, <1>2 DEF Untouched, Same, MFields
<1> QED
  BY <1>3 DEF ReleaseTerminal, R

(* failSlot ends the resident bindings of slot s and touches no other.     *)
LEMMA FailReadySlotSound ==
  ASSUME NEW o, NEW st, NEW Q, Sound(o, st, {}, {}, Q),
         \A b \in Bindings : st.b[b].closeStarted => b \in Q,
         NEW s \in Slots, NEW reason, NEW t,
         t = [st EXCEPT !.s[s].failed = TRUE, !.s[s].reason = reason]
  PROVE  /\ Sound(t, t, {}, {}, Q)
         /\ Sound(t, FailReadySlot(st, s, reason), {}, {}, Q)
         /\ Untouched(st, FailReadySlot(st, s, reason), Res(st, s))
         /\ SlotsAlike(st, t) /\ Same(st, t, OwnerFields)
         /\ \A b \in Bindings : st.b[b].slot = s =>
              ~FailReadySlot(st, s, reason).b[b].active
<1> DEFINE R   == Res(st, s)
           F   == {b \in R : ~st.b[b].remoteClosed}
           C   == {b \in F : st.b[b].closeStarted}
           st1 == CancelSlotOutbound(t, {s})
           d   == DetachActive(st1, F)
           st2 == PublishTerminal(d, F, "slot")
           p   == PublishClose(st2, C, "slot")
           v   == ObserveTerminal(p, C)
           f   == ReleaseTerminal(v, F)
<1>1. IsState(t) /\ Same(st, t, OwnerFields) /\ t.b = st.b
        /\ t.queue = st.queue
  BY DEF Sound, Evolves, IsState, MFields, Same, OwnerFields
<1>2. SlotsAlike(st, t)
  <2>1. DOMAIN st = MFields /\ DOMAIN st.s = Slots
    BY DEF Sound, Evolves, IsState, Fifo, FifoType
  <2>2. \A x \in Slots : /\ DOMAIN st.s[x] = SlotFields
    BY DEF Sound, Fifo, FifoType
  <2>3. t.s = [st.s EXCEPT ![s].failed = TRUE, ![s].reason = reason]
    BY <2>1 DEF MFields
  <2> QED
    BY <2>1, <2>2, <2>3 DEF SlotsAlike, SlotFields, Out
<1>3. Sound(t, t, {}, {}, Q)
  BY <1>1, <1>2, SoundRestart
<1>4. F \subseteq R /\ C \subseteq R /\ C \subseteq Q /\ F \subseteq Bindings
        /\ R \subseteq Bindings
  BY DEF Res, Residents
<1>5. FailReadySlot(st, s, reason) = f
  BY DEF FailReadySlot
<1> HIDE DEF R, F, C
<1>6. Sound(t, st1, {}, {}, Q) /\ Untouched(st, st1, R)
  <2>1. {s} \subseteq Slots
    OBVIOUS
  <2>2. Sound(t, st1, {}, {}, Q) /\ Same(t, st1, CancelFields)
    BY <1>3, <2>1, CancelSlotOutboundSound
  <2> HIDE DEF st1
  <2>3. st1.b = t.b /\ st1.queue = t.queue
    BY <2>2 DEF Same, CancelFields, PromoteFields, MFields
  <2> QED
    BY <1>1, <2>2, <2>3 DEF Untouched
<1> HIDE DEF st1
<1>7. Sound(t, d, {}, {}, Q) /\ Untouched(st, d, R)
        /\ \A b \in F : ~d.b[b].active
  <2>1. IsState(st1)
    BY <1>6 DEF Sound, Evolves
  <2>2. \A b \in F : d.b[b] = [st1.b[b] EXCEPT !.active = FALSE]
    BY <1>4, <2>1, DetachActiveLaw
  <2>3. \A b \in F : ~d.b[b].active
    BY <1>4, <2>1, <2>2 DEF IsState, IsLife, LifeFields
  <2>4. Sound(t, d, {}, {}, Q)
    BY <1>6, DetachActiveSound
  <2>5. Untouched(st, d, R)
    BY <1>4, <1>6, <2>1, DetachActiveLocal
  <2> QED
    BY <2>3, <2>4, <2>5
<1> HIDE DEF d
<1>8. Evolves(d, f)
  <2>1. Evolves(d, d)
    BY <1>7, EvolvesRefl DEF Sound, Evolves
  <2>2. Evolves(d, st2)
    BY <2>1, PublishTerminalEvolves
  <2> HIDE DEF st2
  <2>3. Evolves(d, p)
    BY <2>2, PublishCloseEvolves
  <2> HIDE DEF p
  <2>4. Evolves(d, v)
    BY <2>3, ObserveTerminalEvolves
  <2> HIDE DEF v
  <2> QED
    BY <2>4, ReleaseTerminalEvolves
<1>9. Sound(t, st2, {}, {}, Q) /\ Untouched(st, st2, R)
  <2>1. IsState(d)
    BY <1>7 DEF Sound, Evolves
  <2>2. Sound(t, st2, {} \ F, {} \ F, Q)
    BY <1>4, <1>7, PublishTerminalSound
  <2>3. {} \ F = {}
    OBVIOUS
  <2>4. Untouched(st, st2, R)
    BY <1>4, <1>7, <2>1, PublishTerminalLocal
  <2> QED
    BY <2>2, <2>3, <2>4
<1> HIDE DEF st2
<1>10. Sound(t, p, {}, {}, Q) /\ Untouched(st, p, R)
  <2>1. IsState(st2)
    BY <1>9 DEF Sound, Evolves
  <2> QED
    BY <1>4, <1>9, <2>1, PublishCloseSound, PublishCloseLocal
<1> HIDE DEF p
<1>11. Sound(t, v, {}, {}, Q) /\ Untouched(st, v, R)
  <2>1. IsState(p)
    BY <1>10 DEF Sound, Evolves
  <2> QED
    BY <1>4, <1>10, <2>1, ObserveTerminalSound, ObserveTerminalLocal
<1> HIDE DEF v
<1>12. Sound(t, f, {}, {}, Q) /\ Untouched(st, f, R)
  <2>1. IsState(v)
    BY <1>11 DEF Sound, Evolves
  <2> QED
    BY <1>4, <1>11, <2>1, ReleaseTerminalSound, ReleaseTerminalLocal
<1>13. \A b \in Bindings : st.b[b].slot = s => ~f.b[b].active
  <2>1. \A b \in F : ~f.b[b].active
    BY <1>4, <1>7, <1>8 DEF Evolves, LivesKept, Kept
  <2>2. \A b \in Bindings : st.b[b].slot = s /\ b \notin F => ~t.b[b].active
    <3>1. \A b \in Bindings : LifeOK(st.b[b])
      BY DEF Sound, Fifo
    <3>2. \A b \in Bindings : st.b[b].slot = s /\ b \notin F =>
            ~st.b[b].resident \/ st.b[b].remoteClosed
      BY DEF F, R, Res, Residents
    <3> QED
      BY <1>1, <3>1, <3>2 DEF LifeOK
  <2>3. \A b \in Bindings : ~t.b[b].active => ~f.b[b].active
    BY <1>12 DEF Sound, Evolves, LivesKept, Kept
  <2> QED
    BY <2>1, <2>2, <2>3
<1> QED
  BY <1>1, <1>2, <1>3, <1>5, <1>12, <1>13 DEF R

(* finishMaterializationFailureLocked                                      *)
LEMMA MaterializationFailedSound ==
  ASSUME NEW o, NEW st, NEW X, NEW Y, NEW Q, Sound(o, st, X, Y, Q),
         NEW b \in Bindings, st.req[b].phase = "materializing"
  PROVE  Sound(o, MaterializationFailed(st, b), X, Y, Q)
<1> DEFINE c == ReleaseCharge(st, b)
           u == [c EXCEPT !.req[b] = NoRequest]
<1>1. /\ Fifo(st) /\ IsState(st) /\ st.req \in [Bindings -> Requests]
  BY DEF Sound, Evolves, Fifo, FifoType
<1>2. Same(st, c, {"use", "all"})
  BY <1>1 DEF ReleaseCharge, ChargeRequest, IsState, MFields, Same
<1> HIDE DEF c
<1>3. /\ Same(st, u, {"req", "waitQ", "use", "all"})
      /\ u.waitQ = st.waitQ
      /\ u.req = [st.req EXCEPT ![b] = NoRequest]
  BY <1>2 DEF Same, MFields
<1> HIDE DEF u
<1>4. Shrunk(u.waitQ, st.waitQ, {b})
  BY <1>1, <1>3, ShrunkWaiters
<1>5. Disowning(u.req, st.req, {b})
  <2>1. u.req \in [Bindings -> Requests]
    BY <1>1, <1>3 DEF NoRequest, Requests, Phases
  <2>2. \A c2 \in Bindings : RequestOK(st.req[c2])
    BY <1>1 DEF Fifo
  <2> QED
    BY <1>1, <1>3, <2>1, <2>2 DEF Disowning
<1>6. Sound(o, Promote(RemoveRequests(u, {b})), X, Y, Q)
  BY <1>3, <1>4, <1>5, RemoveSound
<1> QED
  BY <1>6 DEF MaterializationFailed, u, c

(* The response queue of b becomes q.                                      *)
Requeued(st, t, b, q) ==
  /\ Same(st, t, {"queue", "use", "all"})
  /\ t.queue = [st.queue EXCEPT ![b] = q]

(* A change of the response queue of b.                                    *)
LEMMA SoundQueue ==
  ASSUME NEW o, NEW st, NEW X, NEW Y, NEW Q, Sound(o, st, X, Y, Q),
         NEW t, Evolves(o, t), NEW b \in Bindings, b < st.nextID,
         b \notin Q, NEW q, Requeued(st, t, b, q),
         NEW X2, X \subseteq X2, NEW Y2, Y \subseteq Y2,
         q # <<>> => (b \in X2 /\ b \in Y2) \/ st.queue[b] # <<>>
  PROVE  Sound(o, t, X2, Y2, Q)
<1>1. /\ t.s = st.s /\ t.req = st.req /\ t.waitQ = st.waitQ /\ t.b = st.b
      /\ t.result = st.result /\ t.leased = st.leased
      /\ t.notify = st.notify /\ t.readyQ = st.readyQ
      /\ t.readySig = st.readySig /\ t.state = st.state
      /\ t.nextID = st.nextID
  BY DEF Requeued, Same, MFields
<1>2. /\ DOMAIN t.queue = Bindings /\ DOMAIN st.queue = Bindings
      /\ t.queue[b] = q /\ \A c \in Bindings \ {b} : t.queue[c] = st.queue[c]
  BY DEF Sound, Heard, Requeued
<1>3. Fifo(t)
  <2>1. FifoType(t)
    BY <1>1 DEF Sound, Fifo, FifoType, Out
  <2>2. ItemsOpen(t)
    <3>1. \A s \in Slots, i \in OutItems : ItemOpen(st, s, i) => ItemOpen(t, s, i)
      BY <1>1 DEF ItemOpen
    <3> QED
      BY <1>1, <3>1 DEF Sound, Fifo, FifoType, ItemsOpen, Out
  <2>3. HeadSubmitted(t) /\ WaitersOpen(t)
    <3>1. HeadSubmitted(st) /\ WaitersOpen(st)
      <4>1. Fifo(st)
        BY DEF Sound
      <4> QED
        BY <4>1 DEF Fifo
    <3>2. HeadSubmitted(t)
      BY <1>1, <3>1 DEF HeadSubmitted, Out
    <3> QED
      BY <1>1, <3>1, <3>2 DEF WaitersOpen
  <2>4. Unborn(t)
    BY <1>1, <1>2 DEF Sound, Fifo, Unborn
  <2> QED
    BY <1>1, <2>1, <2>2, <2>3, <2>4 DEF Sound, Fifo
<1>4. Inherits(o, t) /\ SameClosing(o, t)
  BY <1>1 DEF Sound, Inherits, Carries, SameClosing, Out
<1>5. \A c \in Bindings : HasReadyReason(t, c) =>
                            c \in X2 \/ HasReadyReason(st, c)
  BY <1>1, <1>2 DEF HasReadyReason
<1>6. \A c \in blocked : c \in Y2 \/ t.notify[c]
                          \/ (t.queue[c] = <<>> /\ ~t.b[c].terminal)
  BY <1>1, <1>2 DEF Sound, Heard
<1>7. \A c \in Q : Quietened(t, c)
  BY <1>1, <1>2 DEF Sound, Heard, Quietened
<1>8. Heard(t, X2, Y2, Q)
  BY <1>1, <1>2, <1>5, <1>6, <1>7 DEF Sound, Heard, IsQueued
<1> QED
  BY <1>3, <1>4, <1>8 DEF Sound

(* popBindingEventLocked                                                   *)
LEMMA PopEventSound ==
  ASSUME NEW o, NEW st, NEW X, NEW Y, NEW Q, Sound(o, st, X, Y, Q),
         NEW b \in Bindings, b < st.nextID, st.queue[b] # <<>>
  PROVE  Sound(o, PopEvent(st, b), X, Y, Q)
<1> DEFINE s == SlotOf(st, b)
           e == Head(st.queue[b])
           q == Tail(st.queue[b])
           t == [st EXCEPT !.queue[b] = Tail(@),
                   !.use[s].respItems = @ - 1,
                   !.use[s].respBytes = @ - e.size,
                   !.all.respItems = @ - 1,
                   !.all.respBytes = @ - e.size]
<1>1. IsState(st) /\ b \notin Q
  BY DEF Sound, Evolves, Heard, Quietened
<1> HIDE DEF s, e
<1>2. Requeued(st, t, b, q)
  BY <1>1 DEF IsState, MFields, Same, Requeued
<1> HIDE DEF t, q
<1>3. Evolves(o, t)
  <2>1. Quiet(st, t)
    BY <1>2 DEF Requeued, Same, MFields, Quiet
  <2> QED
    BY <2>1, QuietEvolves DEF Sound
<1>4. Sound(o, t, X, Y, Q)
  <2>1. X \subseteq X /\ Y \subseteq Y
    OBVIOUS
  <2> QED
    BY <1>1, <1>2, <1>3, <2>1, SoundQueue
<1>5. Sound(o, ReleaseTerminal(t, {b}), X, Y, Q)
  BY <1>4, ReleaseTerminalSound
<1> QED
  BY <1>5 DEF PopEvent, t, e, s

(* enqueueEventLocked                                                      *)
LEMMA EnqueueEventSound ==
  ASSUME NEW o, NEW st, NEW X, NEW Y, NEW Q, Sound(o, st, X, Y, Q),
         NEW b \in Bindings, b < st.nextID, b \notin Q, NEW e
  PROVE  Sound(o, EnqueueEvent(st, b, e), X, Y, Q)
<1> DEFINE s == SlotOf(st, b)
           q == Append(st.queue[b], e)
           t == [st EXCEPT !.queue[b] = Append(@, e),
                   !.use[s].respItems = @ + 1,
                   !.use[s].respBytes = @ + e.size,
                   !.all.respItems = @ + 1,
                   !.all.respBytes = @ + e.size]
<1>1. IsState(st)
  BY DEF Sound, Evolves
<1> HIDE DEF s
<1>2. Requeued(st, t, b, q)
  BY <1>1 DEF IsState, MFields, Same, Requeued
<1> HIDE DEF t, q
<1>3. Evolves(o, t)
  <2>1. Quiet(st, t)
    BY <1>2 DEF Requeued, Same, MFields, Quiet
  <2> QED
    BY <2>1, QuietEvolves DEF Sound
<1>4. Sound(o, t, X \cup {b}, Y \cup {b}, Q)
  BY <1>2, <1>3, SoundQueue
<1>5. Sound(o, SignalBinding(t, {b}), (X \cup {b}) \ {b}, (Y \cup {b}) \ {b}, Q)
  BY <1>4, SignalBindingSound
<1>6. Sound(o, SignalBinding(t, {b}), X, Y, Q)
  <2>1. (X \cup {b}) \ {b} \subseteq X /\ (Y \cup {b}) \ {b} \subseteq Y
    OBVIOUS
  <2> QED
    BY <1>5, <2>1, SoundMono
<1> QED
  BY <1>6 DEF EnqueueEvent, t, s

(* evictBackpressuredBindingLocked                                         *)
LEMMA EvictSound ==
  ASSUME NEW o, NEW st, NEW Q, Sound(o, st, {}, {}, Q), NEW b \in Bindings
  PROVE  Sound(o, Evict(st, b), {}, {}, Q) /\ ~Evict(st, b).b[b].active
<1> DEFINE d == DetachActive(st, {b})
           c == ClearQueue(d, {b})
           r == DropResult(c, {b})
           i == InvalidateReady(r, {b})
           n == CancelRequest(i, {b})
           p == PublishTerminal(n, {b}, "pressure")
           f == ReleaseTerminal(p, {b})
<1>1. Sound(d, d, {}, {}, Q) /\ Sound(o, d, {}, {}, Q) /\ ~d.b[b].active
  <2>1. IsState(st)
    BY DEF Sound, Evolves
  <2>2. d.b[b] = [st.b[b] EXCEPT !.active = FALSE]
    BY <2>1, DetachActiveLaw
  <2>3. ~d.b[b].active
    BY <2>1, <2>2 DEF IsState, IsLife, LifeFields
  <2>4. Sound(o, d, {}, {}, Q)
    BY DetachActiveSound
  <2>5. Sound(d, d, {}, {}, Q)
    BY <2>4, SoundRefl
  <2> QED
    BY <2>3, <2>4, <2>5
<1> HIDE DEF d
<1>2. Sound(d, c, {}, {}, Q)
  BY <1>1, ClearQueueSound
<1> HIDE DEF c
<1>3. Sound(d, r, {}, {}, Q)
  BY <1>2, DropResultSound
<1> HIDE DEF r
<1>4. Sound(d, i, {} \cup {b}, {}, Q)
  BY <1>3, InvalidateReadySound
<1> HIDE DEF i
<1>5. Sound(d, n, {} \cup {b}, {}, Q)
  BY <1>4, CancelRequestSound
<1> HIDE DEF n
<1>6. ~n.b[b].active
  BY <1>1, <1>5 DEF Sound, Evolves, LivesKept, Kept
<1>7. Sound(d, p, {}, {}, Q)
  <2>1. Sound(d, p, ({} \cup {b}) \ {b}, {} \ {b}, Q)
    BY <1>5, <1>6, PublishTerminalSound
  <2>2. ({} \cup {b}) \ {b} = {} /\ {} \ {b} = {}
    OBVIOUS
  <2> QED
    BY <2>1, <2>2
<1> HIDE DEF p
<1>8. Sound(d, f, {}, {}, Q)
  BY <1>7, ReleaseTerminalSound
<1> HIDE DEF f
<1>9. ~f.b[b].active
  BY <1>1, <1>8 DEF Sound, Evolves, LivesKept, Kept
<1>10. Sound(o, f, {}, {}, Q)
  BY <1>1, <1>8, SoundTrans
<1>11. f = Evict(st, b)
  BY DEF Evict, f, p, n, i, r, c, d
<1> QED
  BY <1>9, <1>10, <1>11

(* The victim is the incoming binding or a resident one.                   *)
LEMMA VictimIsBorn ==
  ASSUME NEW st, NEW b, NEW size
  PROVE  Victim(st, b, size) = b \/ Victim(st, b, size) \in Residents(st)
<1> DEFINE s == SlotOf(st, b)
           perSlot == SlotFull(st, s, size)
           items == IF perSlot
                    THEN st.use[s].respItems + 1 - Lim.respItemsPerSlot
                    ELSE st.all.respItems + 1 - Lim.respItems
           bytes == IF perSlot
                    THEN st.use[s].respBytes + size - Lim.respBytesPerSlot
                    ELSE st.all.respBytes + size - Lim.respBytes
           C == {c \in (IF perSlot THEN Res(st, s) ELSE Residents(st)) \ {b} :
                   /\ ~st.b[c].terminal
                   /\ Len(st.queue[c]) >= items
                   /\ BytesOf(st.queue[c]) >= bytes}
           beats(c, d) ==
             LET cb == BytesOf(st.queue[c])  db == BytesOf(st.queue[d])
                 ci == Len(st.queue[c])      di == Len(st.queue[d])
             IN  \/ cb > db
                 \/ cb = db /\ (ci > di \/ (ci = di /\ c < d))
           best == {c \in C : \A d \in C \ {c} : beats(c, d)}
<1>1. Victim(st, b, size) = IF BindingFull(st, b, size) \/ best = {} THEN b
                            ELSE CHOOSE c \in best : TRUE
  BY DEF Victim
<1>2. C \subseteq Residents(st)
  <2> HIDE DEF perSlot, items, bytes
  <2> QED
    BY DEF Res
<1> HIDE DEF C, beats
<1>3. best \subseteq Residents(st)
  BY <1>2
<1> HIDE DEF best
<1>4. best # {} => (CHOOSE c \in best : TRUE) \in best
  OBVIOUS
<1> QED
  BY <1>1, <1>3, <1>4

(* The backpressure branch of routeEvent.                                  *)
LEMMA OverflowSound ==
  ASSUME NEW o, NEW st, NEW Q, Sound(o, st, {}, {}, Q),
         NEW b \in Bindings, b < st.nextID, b \notin Q, NEW e,
         \A c \in Residents(st) : c < st.nextID
  PROVE  Sound(o, Overflow(st, b, e), {}, {}, Q)
<1> DEFINE v  == Victim(st, b, e.size)
           s  == SlotOf(st, v)
           t  == Evict(st, v)
           st1 == QueueControl(t, s, "reap", v)
<1>1. v \in Bindings /\ v < st.nextID
  BY VictimIsBorn DEF Residents
<1> HIDE DEF v
<1>2. s \in Slots
  BY <1>1 DEF Sound, Fifo, Unborn, SlotOf
<1> HIDE DEF s
<1>3. Sound(o, t, {}, {}, Q) /\ ~t.b[v].active
  BY <1>1, EvictSound
<1> HIDE DEF t
<1>4. t.nextID = st.nextID
  BY <1>3 DEF Sound, Evolves
<1>5. Sound(o, st1, {}, {}, Q)
  BY <1>1, <1>2, <1>3, <1>4, QueueControlSound
<1> HIDE DEF st1
<1>6. st1.nextID = st.nextID
  BY <1>5 DEF Sound, Evolves
<1>7. Sound(o, Evict(st1, b), {}, {}, Q)
  BY <1>5, EvictSound
<1>8. Sound(o, EnqueueEvent(st1, b, e), {}, {}, Q)
  BY <1>5, <1>6, EnqueueEventSound
<1> QED
  BY <1>5, <1>7, <1>8 DEF Overflow, st1, t, s, v

(* The peer's close is recorded.                                           *)
LEMMA RemoteFlagSound ==
  ASSUME NEW o, NEW st, NEW X, NEW Y, NEW Q, Sound(o, st, X, Y, Q),
         NEW b \in Bindings, ~st.b[b].active
  PROVE  Sound(o, [st EXCEPT !.b[b].remoteClosed = TRUE], X, Y, Q)
<1> DEFINE t == [st EXCEPT !.b[b].remoteClosed = TRUE]
<1>1. Evolves(o, t) /\ IsState(st)
  BY RemoteFlagEvolves DEF Sound, Evolves
<1>2. /\ Same(st, t, {"b", "drained", "use", "all", "err", "probeID"})
      /\ \A c \in Bindings : t.b[c] =
           IF c = b THEN [st.b[c] EXCEPT !.remoteClosed = TRUE] ELSE st.b[c]
  BY <1>1 DEF IsState, MFields, Same
<1> HIDE DEF t
<1>3. \A c \in Bindings : SameVoice(st.b[c], t.b[c])
  <2> SUFFICES ASSUME NEW c \in Bindings PROVE SameVoice(st.b[c], t.b[c])
    OBVIOUS
  <2> DEFINE l == st.b[c]
             k == [l EXCEPT !.remoteClosed = TRUE]
  <2>1. DOMAIN l = LifeFields
    BY <1>1 DEF IsState, IsLife
  <2>2. t.b[c] = l \/ (t.b[c] = k /\ c = b)
    BY <1>2
  <2>3. c = b => ~l.active
    OBVIOUS
  <2> HIDE DEF l
  <2>4. k.mode = l.mode /\ k.terminal = l.terminal /\ k.observed = l.observed
        /\ k.closeStarted = l.closeStarted /\ k.localClosing = l.localClosing
        /\ k.active = l.active
    BY <2>1 DEF LifeFields
  <2> HIDE DEF k
  <2> QED
    BY <2>2, <2>3, <2>4 DEF SameVoice, l
<1> QED
  BY <1>1, <1>2, <1>3, SoundLives DEF t

(* The peer closes first.                                                  *)
LEMMA RemoteCloseSound ==
  ASSUME NEW o, NEW st, NEW Q, Sound(o, st, {}, {}, Q), NEW b \in Bindings
  PROVE  Sound(o, RemoteClose(st, b), {}, {}, Q)
<1> DEFINE t == [st EXCEPT !.b[b].remoteClosed = TRUE]
           d == DetachActive(t, {b})
           p == PublishTerminal(d, {b}, "nil")
<1>1. Evolves(o, t) /\ Evolves(o, d) /\ IsState(st) /\ IsState(t)
  <2>1. Evolves(o, t)
    BY RemoteFlagEvolves DEF Sound
  <2> HIDE DEF t
  <2>2. Evolves(o, d)
    BY <2>1, DetachActiveEvolves
  <2> QED
    BY <2>1, <2>2 DEF Sound, Evolves
<1>2. Sound(o, d, {}, {}, Q) /\ ~d.b[b].active
  <2>1. /\ Same(st, t, {"b"})
        /\ \A c \in Bindings : t.b[c] =
             IF c = b THEN [st.b[c] EXCEPT !.remoteClosed = TRUE] ELSE st.b[c]
    BY <1>1 DEF IsState, MFields, Same
  <2> HIDE DEF t
  <2>2. /\ Same(t, d, {"b"})
        /\ \A c \in Bindings : d.b[c]
             = IF c \in {b} THEN [t.b[c] EXCEPT !.active = FALSE] ELSE t.b[c]
    BY <1>1, DetachActiveLaw
  <2> HIDE DEF d
  <2>3. Same(st, d, {"b", "drained", "use", "all", "err", "probeID"})
    BY <2>1, <2>2 DEF Same
  <2>4. ASSUME NEW c \in Bindings
        PROVE  SameVoice(st.b[c], d.b[c]) /\ (c = b => ~d.b[c].active)
    <3>1. IsLife(st.b[c]) /\ IsLife(t.b[c])
      BY <1>1 DEF IsState
    <3>2. CASE c # b
      BY <2>1, <2>2, <3>2 DEF SameVoice
    <3>3. CASE c = b
      <4>1. t.b[c] = [st.b[c] EXCEPT !.remoteClosed = TRUE]
        BY <2>1, <3>3
      <4>2. d.b[c] = [t.b[c] EXCEPT !.active = FALSE]
        BY <2>2, <3>3
      <4> QED
        BY <3>1, <4>1, <4>2 DEF SameVoice, IsLife, LifeFields
    <3> QED
      BY <3>2, <3>3
  <2> QED
    BY <1>1, <2>3, <2>4, SoundLives
<1> HIDE DEF d
<1>3. Sound(o, p, {} \ {b}, {} \ {b}, Q)
  BY <1>2, PublishTerminalSound
<1>4. {} \ {b} = {}
  OBVIOUS
<1> QED
  BY <1>3, <1>4 DEF RemoteClose, p, d, t

(* The peer's close crosses the local one.                                 *)
LEMMA CrossedCloseSound ==
  ASSUME NEW o, NEW st, NEW Q, Sound(o, st, {}, {}, Q),
         NEW b \in Bindings, b \in Q, st.b[b].closeStarted
  PROVE  Sound(o, CrossedClose(st, b), {}, {}, Q)
<1> DEFINE t == [st EXCEPT !.b[b].remoteClosed = TRUE]
           c == CancelRequest(t, {b})
           d == CancelBindingControls(c, b)
           f == FinishClose(d, b, "nil")
<1>1. ~st.b[b].active
  <2>1. LifeOK(st.b[b])
    BY DEF Sound, Fifo
  <2> QED
    BY <2>1 DEF LifeOK
<1>2. Sound(st, t, {}, {}, Q)
  BY <1>1, SoundRefl, RemoteFlagSound
<1> HIDE DEF t
<1>3. Sound(st, c, {}, {}, Q)
  BY <1>2, CancelRequestSound
<1> HIDE DEF c
<1>4. Sound(st, d, {}, {}, Q)
  BY <1>3, CancelBindingControlsSound
<1> HIDE DEF d
<1>5. ~d.b[b].active
  BY <1>1, <1>4 DEF Sound, Evolves, LivesKept, Kept
<1>6. Sound(st, f, {} \ {b}, {} \ {b}, Q)
  BY <1>4, <1>5, FinishCloseSound
<1>7. {} \ {b} = {}
  OBVIOUS
<1>8. Sound(o, f, {}, {}, Q)
  BY <1>6, <1>7, SoundTrans
<1> QED
  BY <1>8 DEF CrossedClose, f, d, c, t

(* routeEvent for a resident connection.                                   *)
LEMMA DeliverSound ==
  ASSUME NEW st, NEW Q, Sound(st, st, {}, {}, Q),
         \A b \in Bindings : b \in Q <=> st.b[b].closeStarted,
         NEW b \in Bindings, b < st.nextID, NEW e,
         \A c \in Residents(st) : c < st.nextID
  PROVE  Sound(st, Deliver(st, b, e), {}, {}, Q)
<1>1. CASE st.b[b].terminal
  BY <1>1 DEF Deliver
<1>2. CASE ~st.b[b].terminal /\ st.b[b].localClosing
  <2>1. st.b[b].closeStarted
    BY <1>2 DEF Sound, SameClosing
  <2>2. Sound(st, CrossedClose(st, b), {}, {}, Q)
    BY <2>1, CrossedCloseSound
  <2> QED
    BY <1>2, <2>2 DEF Deliver
<1>3. CASE ~st.b[b].terminal /\ ~st.b[b].localClosing
  <2>1. b \notin Q
    BY <1>3 DEF Sound, SameClosing
  <2>2. Sound(st, Overflow(st, b, e), {}, {}, Q)
    BY <2>1, OverflowSound
  <2>3. Sound(st, EnqueueEvent(st, b, e), {}, {}, Q)
    BY <2>1, EnqueueEventSound
  <2>4. Sound(st, RemoteClose(EnqueueEvent(st, b, e), b), {}, {}, Q)
    BY <2>3, RemoteCloseSound
  <2> QED
    BY <1>3, <2>2, <2>3, <2>4 DEF Deliver
<1> QED
  BY <1>1, <1>2, <1>3

-----------------------------------------------------------------------------
(* The end of a submission.                                                *)

(* The head item h of slot s has been attempted: it leaves, or it stays    *)
(* as a materialized request.                                              *)
AttemptEnds(st, t, s) ==
  LET q == Out(st, s)
      h == q[1]
  IN  /\ Same(st, t, {"s", "req", "use", "all"})
      /\ DOMAIN t.s = Slots
      /\ \A x \in Slots \ {s} : t.s[x] = st.s[x]
      /\ DOMAIN t.s[s] = SlotFields
      /\ t.s[s].attempting = FALSE
      /\ t.s[s].failed = st.s[s].failed
      /\ Out(t, s) \in {q, Tail(q)}
      /\ \/ h.kind # "req" /\ t.req = st.req
         \/ /\ h.kind = "req" /\ Out(t, s) = Tail(q)
            /\ t.req = [st.req EXCEPT ![h.b] = NoRequest]
         \/ /\ h.kind = "req" /\ ~st.req[h.b].canceled
            /\ t.req = [st.req EXCEPT ![h.b].phase = "materialized"]

(* The end of a submission, before its result is published.                *)
LEMMA AttemptEndsSound ==
  ASSUME NEW o, NEW st, NEW X, NEW Y, NEW Q, Sound(o, st, X, Y, Q),
         NEW s \in Slots, st.s[s].attempting, NEW t, AttemptEnds(st, t, s)
  PROVE  Sound(t, t, X, Y, Q) /\ Carries(st, t)
<1> DEFINE q == Out(st, s)
           h == q[1]
<1>1. /\ t.b = st.b /\ t.state = st.state /\ t.result = st.result
      /\ t.queue = st.queue /\ t.nextID = st.nextID /\ t.waitQ = st.waitQ
      /\ t.leased = st.leased /\ t.notify = st.notify /\ t.readyQ = st.readyQ
      /\ t.readySig = st.readySig /\ t.accepting = st.accepting
      /\ t.drained = st.drained /\ DOMAIN t = MFields
  BY DEF AttemptEnds, Same, MFields
<1>2. /\ Fifo(st) /\ st.req \in [Bindings -> Requests]
      /\ \A x \in Slots : Out(st, x) \in Seq(OutItems)
      /\ \A b \in Bindings : RequestOK(st.req[b])
  BY DEF Sound, Fifo, FifoType
<1>3. /\ q # <<>> /\ q \in Seq(OutItems) /\ 1 \in 1..Len(q)
      /\ h.kind = "req" => /\ h.b \in Bindings /\ st.b[h.b].slot = s
                           /\ st.req[h.b].phase = "attempting"
                           /\ \A j \in 1..Len(q) : IsRequest(q[j], h.b) => j = 1
  <2>1. q # <<>> /\ q \in Seq(OutItems)
    BY <1>2 DEF Fifo, HeadSubmitted
  <2>2. 1 \in 1..Len(q)
    BY <2>1
  <2>3. ItemOpen(st, s, h) /\ (h.kind = "req" =>
           \A j \in 1..Len(q) : IsRequest(q[j], h.b) => j = 1)
    BY <1>2, <2>2 DEF Fifo, ItemsOpen
  <2>4. h.kind = "req" => st.req[h.b].phase = "attempting"
    BY <1>2 DEF Fifo, HeadSubmitted
  <2> QED
    BY <2>1, <2>2, <2>3, <2>4 DEF ItemOpen
<1>4. /\ Tail(q) \in Seq(OutItems) /\ Len(Tail(q)) = Len(q) - 1
      /\ \A i \in 1..Len(Tail(q)) : i + 1 \in 1..Len(q) /\ Tail(q)[i] = q[i + 1]
      /\ Thinned(Tail(q), q)
  BY <1>3, TailThins
<1>5. /\ DOMAIN t.s = Slots
      /\ \A x \in Slots \ {s} : t.s[x] = st.s[x]
      /\ DOMAIN t.s[s] = SlotFields
      /\ t.s[s].attempting = FALSE
      /\ t.s[s].failed = st.s[s].failed
      /\ Out(t, s) \in {q, Tail(q)}
  BY DEF AttemptEnds
<1>6. \/ h.kind # "req" /\ t.req = st.req
      \/ /\ h.kind = "req" /\ Out(t, s) = Tail(q)
         /\ t.req = [st.req EXCEPT ![h.b] = NoRequest]
      \/ /\ h.kind = "req" /\ ~st.req[h.b].canceled
         /\ t.req = [st.req EXCEPT ![h.b].phase = "materialized"]
  BY DEF AttemptEnds
<1> HIDE DEF h, q
<1>7. ASSUME NEW b \in Bindings
      PROVE  /\ t.req[b] \in Requests /\ RequestOK(t.req[b])
             /\ t.req[b] = st.req[b] \/ (h.kind = "req" /\ b = h.b)
             /\ h.kind = "req" /\ b = h.b =>
                  /\ t.req[b].phase \in {"none", "materialized"}
                  /\ t.req[b].phase = "none" => Out(t, s) = Tail(q)
             /\ t.req[b].owned => st.req[b].owned
  <2>1. st.req[b] \in Requests /\ RequestOK(st.req[b])
    BY <1>2
  <2>2. CASE t.req[b] = st.req[b] /\ ~(h.kind = "req" /\ b = h.b)
    BY <2>1, <2>2
  <2>3. CASE h.kind = "req" /\ b = h.b /\ Out(t, s) = Tail(q)
               /\ t.req[b] = NoRequest
    BY <2>3 DEF NoRequest, Requests, Phases, RequestOK
  <2>4. CASE h.kind = "req" /\ b = h.b /\ ~st.req[b].canceled
               /\ t.req[b] = [st.req[b] EXCEPT !.phase = "materialized"]
    <3>1. /\ t.req[b] \in Requests /\ t.req[b].phase = "materialized"
          /\ t.req[b].owned = st.req[b].owned
          /\ t.req[b].canceled = st.req[b].canceled
      BY <2>1, <2>4 DEF Requests, Phases
    <3>2. st.req[b].phase = "attempting"
      BY <1>3, <2>4
    <3> QED
      BY <2>1, <2>4, <3>1, <3>2 DEF RequestOK
  <2> QED
    BY <1>2, <1>6, <2>2, <2>3, <2>4
<1>8. t.req \in [Bindings -> Requests]
  <2>1. DOMAIN t.req = Bindings /\ t.req = [b \in Bindings |-> t.req[b]]
    BY <1>2, <1>6
  <2> QED
    BY <1>7, <2>1
<1>9. \A x \in Slots : /\ DOMAIN t.s[x] = SlotFields
                       /\ Out(t, x) \in Seq(OutItems)
                       /\ Thinned(Out(t, x), Out(st, x))
                       /\ t.s[x].attempting \in BOOLEAN
  <2> SUFFICES ASSUME NEW x \in Slots
               PROVE  /\ DOMAIN t.s[x] = SlotFields
                      /\ Out(t, x) \in Seq(OutItems)
                      /\ Thinned(Out(t, x), Out(st, x))
                      /\ t.s[x].attempting \in BOOLEAN
    OBVIOUS
  <2>1. CASE x # s
    BY <1>2, <1>5, <2>1, ThinnedRefl DEF Out, Fifo, FifoType
  <2>2. CASE x = s
    BY <1>3, <1>4, <1>5, <2>2, ThinnedRefl DEF q
  <2> QED
    BY <2>1, <2>2
<1>10. FifoType(t)
  BY <1>1, <1>2, <1>5, <1>8, <1>9 DEF Fifo, FifoType
<1>11. ASSUME NEW x \in Slots, NEW i \in 1..Len(Out(t, x)),
              Out(t, x)[i].kind = "req"
       PROVE  t.req[Out(t, x)[i].b].phase # "none"
  <2> DEFINE c == Out(t, x)[i].b
  <2>1. CASE x # s
    <3>1. Out(t, x) = Out(st, x)
      BY <1>5, <2>1 DEF Out
    <3>2. ItemOpen(st, x, Out(st, x)[i])
      BY <1>2, <1>11, <3>1 DEF Fifo, ItemsOpen
    <3>3. c \in Bindings /\ st.b[c].slot = x /\ st.req[c].phase # "none"
      BY <1>11, <3>1, <3>2 DEF ItemOpen
    <3> QED
      BY <1>3, <1>7, <2>1, <3>3
  <2>2. CASE x = s
    <3>1. CASE Out(t, s) = q
      <4>1. i \in 1..Len(q) /\ Out(t, x)[i] = q[i]
        BY <1>11, <2>2, <3>1
      <4>2. ItemOpen(st, s, q[i])
        BY <1>2, <4>1 DEF Fifo, ItemsOpen, q
      <4>3. c \in Bindings /\ st.req[c].phase # "none"
        BY <1>11, <4>1, <4>2 DEF ItemOpen
      <4>4. q # Tail(q)
        <5>1. Len(q) \in Nat
          BY <1>3
        <5>2. \A n \in Nat : n - 1 # n
          OBVIOUS
        <5>3. Len(Tail(q)) = Len(q) - 1
          BY <1>4
        <5>4. Len(Tail(q)) # Len(q)
          BY <5>1, <5>2, <5>3
        <5> QED
          BY <5>4
      <4> QED
        BY <1>7, <3>1, <4>3, <4>4
    <3>2. CASE Out(t, s) = Tail(q)
      <4>1. i \in 1..Len(Tail(q)) /\ Out(t, x)[i] = q[i + 1]
              /\ i + 1 \in 1..Len(q) /\ i + 1 # 1
        BY <1>4, <1>11, <2>2, <3>2
      <4>2. ItemOpen(st, s, q[i + 1])
        BY <1>2, <4>1 DEF Fifo, ItemsOpen, q
      <4>3. /\ c \in Bindings
            /\ st.req[c].phase # "none"
            /\ IsRequest(q[i + 1], c)
        BY <1>11, <4>1, <4>2 DEF ItemOpen, IsRequest
      <4>4. ~(h.kind = "req" /\ c = h.b)
        BY <1>3, <4>1, <4>3
      <4> QED
        BY <1>7, <4>3, <4>4
    <3> QED
      BY <1>5, <3>1, <3>2
  <2> QED
    BY <2>1, <2>2
<1>12. /\ ItemsOpen(t)
       /\ \A x \in Slots : \A i \in 1..Len(Out(t, x)) :
              Out(t, x)[i].kind = "req" =>
                \E j \in 1..Len(Out(st, x)) : IsRequest(Out(st, x)[j],
                                                       Out(t, x)[i].b)
  BY <1>1, <1>2, <1>9, <1>11, ItemsThin
<1>13. HeadSubmitted(t)
  <2>1. ASSUME NEW x \in Slots, t.s[x].attempting
        PROVE  /\ Out(t, x) # <<>>
               /\ Out(t, x)[1].kind = "req" =>
                    t.req[Out(t, x)[1].b].phase = "attempting"
    <3>1. x # s /\ t.s[x] = st.s[x]
      BY <1>5, <2>1
    <3>2. /\ Out(st, x) # <<>> /\ Out(t, x) = Out(st, x)
          /\ Out(st, x)[1].kind = "req" =>
               st.req[Out(st, x)[1].b].phase = "attempting"
      BY <1>2, <2>1, <3>1 DEF Fifo, HeadSubmitted, Out
    <3>3. 1 \in 1..Len(Out(st, x))
      BY <1>2, <3>2
    <3>4. Out(st, x)[1].kind = "req" =>
            Out(st, x)[1].b \in Bindings /\ st.b[Out(st, x)[1].b].slot = x
      BY <1>2, <3>3 DEF Fifo, ItemsOpen, ItemOpen
    <3> QED
      BY <1>3, <1>7, <3>1, <3>2, <3>4
  <2>2. ASSUME NEW b \in Bindings, t.req[b].phase = "attempting"
        PROVE  /\ t.b[b].slot \in Slots
               /\ t.s[t.b[b].slot].attempting
               /\ Out(t, t.b[b].slot) # <<>>
               /\ IsRequest(Out(t, t.b[b].slot)[1], b)
    <3>1. t.req[b] = st.req[b] /\ ~(h.kind = "req" /\ b = h.b)
      BY <1>7, <2>2
    <3>2. /\ st.b[b].slot \in Slots
          /\ st.s[st.b[b].slot].attempting
          /\ Out(st, st.b[b].slot) # <<>>
          /\ IsRequest(Out(st, st.b[b].slot)[1], b)
      BY <1>2, <2>2, <3>1 DEF Fifo, HeadSubmitted
    <3>3. st.b[b].slot # s
      BY <3>1, <3>2 DEF IsRequest, h, q
    <3> DEFINE x == st.b[b].slot
    <3>4. x \in Slots \ {s} /\ t.b[b].slot = x
      <4>1. t.b = st.b
        BY <1>1
      <4> QED
        BY <3>2, <3>3, <4>1
    <3>5. t.s[x] = st.s[x]
      BY <1>5, <3>4
    <3> HIDE DEF x
    <3>6. t.s[x].attempting /\ Out(t, x) # <<>> /\ IsRequest(Out(t, x)[1], b)
      BY <3>2, <3>5 DEF Out, x
    <3> QED
      BY <3>4, <3>6
  <2> QED
    BY <2>1, <2>2 DEF HeadSubmitted
<1>14. WaitersOpen(t)
  <2>1. \A b \in Bindings : st.req[b].phase = "waiting" => t.req[b] = st.req[b]
    BY <1>3, <1>7
  <2> QED
    BY <1>1, <1>2, <2>1 DEF Fifo, FifoType, WaitersOpen
<1>15. Fifo(t)
  <2>1. \A b \in Bindings : st.req[b].phase = "none" => t.req[b].phase = "none"
    BY <1>3, <1>7
  <2>2. Unborn(t)
    BY <1>1, <1>2, <2>1 DEF Fifo, Unborn
  <2> QED
    BY <1>1, <1>2, <1>7, <1>10, <1>12, <1>13, <1>14, <2>2 DEF Fifo
<1>16. Carries(st, t)
  <2>1. \A b \in Bindings : t.req[b].phase # "none" => st.req[b].phase # "none"
    BY <1>3, <1>7
  <2> QED
    BY <1>1, <1>12, <2>1 DEF Carries
<1>17. \A b \in Bindings : HasReadyReason(t, b) => HasReadyReason(st, b)
  BY <1>1, <1>7 DEF HasReadyReason
<1>18. Heard(t, X, Y, Q)
  <2>1. \A b \in Q : Quietened(t, b)
    BY <1>1, <1>7 DEF Sound, Heard, Quietened, InFlight, RequestOK
  <2> QED
    BY <1>1, <1>17, <2>1 DEF Sound, Heard, IsQueued
<1>19. IsState(t)
  BY <1>1 DEF Sound, Evolves, IsState
<1>20. Evolves(t, t) /\ SameClosing(t, t)
  BY <1>1, <1>19, EvolvesRefl DEF Sound, SameClosing
<1>21. Inherits(t, t)
  BY DEF Carries, IsRequest, Inherits
<1> QED
  BY <1>15, <1>16, <1>18, <1>20, <1>21 DEF Sound

(* The result of a submission is published for b.                          *)
LEMMA ResultSound ==
  ASSUME NEW o, NEW st, NEW X, NEW Y, NEW Q, Sound(o, st, X, Y, Q),
         NEW b \in Bindings, b \notin Q, b < st.nextID, NEW v, NEW t,
         t = [st EXCEPT !.result[b] = v]
  PROVE  Sound(t, t, X \cup {b}, Y, Q)
<1>1. IsState(st) /\ DOMAIN st.result = Bindings
  BY DEF Sound, Evolves, Heard
<1>2. Same(st, t, {"result"}) /\ t.result = [st.result EXCEPT ![b] = v]
  BY <1>1 DEF IsState, MFields, Same
<1>3. /\ t.s = st.s /\ t.req = st.req /\ t.waitQ = st.waitQ /\ t.b = st.b
      /\ t.queue = st.queue /\ t.leased = st.leased
      /\ t.notify = st.notify /\ t.readyQ = st.readyQ
      /\ t.readySig = st.readySig /\ t.state = st.state
      /\ t.nextID = st.nextID /\ t.accepting = st.accepting
      /\ t.drained = st.drained /\ DOMAIN t = MFields
      /\ DOMAIN t.result = Bindings
      /\ \A c \in Bindings \ {b} : t.result[c] = st.result[c]
  BY <1>1, <1>2 DEF Same, MFields
<1>4. Fifo(t)
  <2>1. FifoType(t)
    BY <1>3 DEF Sound, Fifo, FifoType, Out
  <2>2. ItemsOpen(t)
    <3>1. \A s \in Slots, i \in OutItems : ItemOpen(st, s, i) => ItemOpen(t, s, i)
      BY <1>3 DEF ItemOpen
    <3> QED
      BY <1>3, <3>1 DEF Sound, Fifo, FifoType, ItemsOpen, Out
  <2>3. HeadSubmitted(t) /\ WaitersOpen(t)
    <3>1. HeadSubmitted(st) /\ WaitersOpen(st)
      <4>1. Fifo(st)
        BY DEF Sound
      <4> QED
        BY <4>1 DEF Fifo
    <3>2. t.s = st.s /\ t.req = st.req /\ t.b = st.b
      BY ONLY <1>3
    <3>3. HeadSubmitted(t)
      BY ONLY <3>1, <3>2 DEF HeadSubmitted, Out
    <3> QED
      BY <1>3, <3>1, <3>3 DEF WaitersOpen
  <2>4. Unborn(t)
    BY <1>3 DEF Sound, Fifo, Unborn
  <2> QED
    BY <1>3, <2>1, <2>2, <2>3, <2>4 DEF Sound, Fifo
<1>5. \A c \in Bindings : c # b => (HasReadyReason(t, c) => HasReadyReason(st, c))
  BY <1>3 DEF HasReadyReason
<1>6. \A c \in Q : Quietened(t, c)
  BY <1>3 DEF Sound, Heard, Quietened
<1>7. Heard(t, X \cup {b}, Y, Q)
  BY <1>3, <1>5, <1>6 DEF Sound, Heard, IsQueued
<1>8. IsState(t)
  BY <1>1, <1>3 DEF IsState
<1>9. Evolves(t, t) /\ SameClosing(t, t)
  BY <1>3, <1>8, EvolvesRefl DEF Sound, SameClosing
<1>10. Inherits(t, t)
  BY DEF Carries, IsRequest, Inherits
<1> QED
  BY <1>4, <1>7, <1>9, <1>10 DEF Sound

(* What the end of the submission of slot s may leave: a request accepted  *)
(* only for a binding of A.                                                *)
Attempted(o, t, s, A) ==
  /\ t.state = o.state
  /\ t.s[s].attempting = FALSE
  /\ \A x \in Slots : /\ t.s[x].failed => o.s[x].failed
                      /\ x # s => t.s[x].attempting = o.s[x].attempting
  /\ \A b \in Bindings :
       /\ t.req[b].phase # "none" => o.req[b].phase # "none"
       /\ t.result[b] = "accepted" => b \in A \/ o.result[b] = "accepted"
  /\ \A x \in Slots : \A i \in 1..Len(Out(t, x)) :
       Out(t, x)[i].kind = "req" =>
         \E j \in 1..Len(Out(o, x)) : IsRequest(Out(o, x)[j],
                                               Out(t, x)[i].b)

(* The end of a submission, and the rest of its critical section.          *)
LEMMA AttemptedSound ==
  ASSUME NEW o, NEW st, NEW X, NEW Y, NEW Q, Sound(o, st, X, Y, Q),
         NEW s \in Slots, NEW d, AttemptEnds(st, d, s), Carries(st, d),
         NEW u, u.state = d.state, u.s = d.s, u.req = d.req, NEW A,
         \A b \in Bindings : b \in A \/ u.result[b] \in {d.result[b], "rejected"},
         NEW t, NEW X2, NEW Y2, Sound(u, t, X2, Y2, Q)
  PROVE  Attempted(st, t, s, A)
<1>1. Inherits(u, t) /\ Carries(u, t)
  BY DEF Sound, Inherits
<1>2. /\ d.state = st.state /\ d.s[s].attempting = FALSE
      /\ \A x \in Slots \ {s} : d.s[x] = st.s[x]
      /\ d.s[s].failed = st.s[s].failed
  BY DEF AttemptEnds, Same, MFields
<1>3. /\ t.state = st.state /\ t.s[s].attempting = FALSE
      /\ \A x \in Slots : /\ t.s[x].failed => st.s[x].failed
                          /\ x # s => t.s[x].attempting = st.s[x].attempting
  BY <1>1, <1>2 DEF Inherits
<1>4. \A b \in Bindings :
        /\ t.req[b].phase # "none" => st.req[b].phase # "none"
        /\ t.result[b] = "accepted" => b \in A \/ st.result[b] = "accepted"
  BY <1>1 DEF Carries
<1>5. ASSUME NEW x \in Slots, NEW i \in 1..Len(Out(t, x)),
             Out(t, x)[i].kind = "req"
      PROVE  \E j \in 1..Len(Out(st, x)) : IsRequest(Out(st, x)[j],
                                                    Out(t, x)[i].b)
  <2>1. Out(u, x) = Out(d, x)
    BY DEF Out
  <2>2. PICK j \in 1..Len(Out(d, x)) : IsRequest(Out(d, x)[j], Out(t, x)[i].b)
    BY <1>1, <1>5, <2>1 DEF Carries
  <2>3. Out(d, x)[j].kind = "req" /\ Out(d, x)[j].b = Out(t, x)[i].b
    BY <2>2 DEF IsRequest
  <2>4. PICK k \in 1..Len(Out(st, x)) : IsRequest(Out(st, x)[k], Out(d, x)[j].b)
    BY <2>3 DEF Carries
  <2> QED
    BY <2>3, <2>4
<1> QED
  BY <1>3, <1>4, <1>5 DEF Attempted

(* The submission of b's request was answered.                             *)
Answered(t, b, outcome) == outcome = "ok" => t.req[b].phase = "none"

(* The lives go on, and no local close has begun since st.                 *)
LivesHeld(st, t) ==
  /\ LivesKept(st, t)
  /\ \A b \in Bindings : t.b[b].closeStarted => st.b[b].closeStarted

(* finishRequestAttemptLocked                                              *)
LEMMA FinishRequestSound ==
  ASSUME NEW o, NEW st, NEW Q, Sound(o, st, {}, {}, Q),
         \A c \in Bindings : c \in Q <=> st.b[c].closeStarted,
         NEW s \in Slots, st.s[s].attempting,
         NEW b, IsRequest(Out(st, s)[1], b), NEW outcome, NEW a,
         a = [st EXCEPT !.s[s].attempting = FALSE]
  PROVE  /\ Sound(FinishRequest(a, s, b, outcome),
                  FinishRequest(a, s, b, outcome), {}, {}, Q)
         /\ Attempted(st, FinishRequest(a, s, b, outcome), s,
                      IF outcome = "ok" THEN {b} ELSE {})
         /\ Answered(FinishRequest(a, s, b, outcome), b, outcome)
         /\ LivesHeld(st, FinishRequest(a, s, b, outcome))
<1> DEFINE t    == FinishRequest(a, s, b, outcome)
           A    == IF outcome = "ok" THEN {b} ELSE {}
           q    == Out(st, s)
           retry == [a EXCEPT !.req[b].phase = "materialized"]
           pop  == PopOut(a, s)
           rel  == ReleaseCharge(pop, b)
           done == [rel EXCEPT !.req[b] = NoRequest]
<1>1. /\ Fifo(st) /\ IsState(st) /\ st.req \in [Bindings -> Requests]
      /\ DOMAIN st.s = Slots /\ \A x \in Slots : DOMAIN st.s[x] = SlotFields
      /\ DOMAIN st.result = Bindings
  BY DEF Sound, Evolves, Fifo, FifoType, Heard
<1>2. /\ q # <<>> /\ q \in Seq(OutItems) /\ b \in Bindings
      /\ q[1].kind = "req" /\ q[1].b = b
      /\ b < st.nextID
  <2>1. q # <<>> /\ q \in Seq(OutItems)
    BY <1>1 DEF Fifo, FifoType, HeadSubmitted
  <2>2. 1 \in 1..Len(q)
    BY <2>1
  <2>3. ItemOpen(st, s, q[1])
    BY <1>1, <2>2 DEF Fifo, ItemsOpen
  <2> QED
    BY <2>1, <2>3 DEF ItemOpen, IsRequest
<1>3. /\ Same(st, a, {"s"}) /\ DOMAIN a.s = Slots
      /\ \A x \in Slots \ {s} : a.s[x] = st.s[x]
      /\ a.s[s] = [st.s[s] EXCEPT !.attempting = FALSE]
  BY <1>1 DEF IsState, MFields, Same
<1>4. /\ DOMAIN a.s[s] = SlotFields /\ a.s[s].attempting = FALSE
      /\ Out(a, s) = q /\ a.s[s].failed = st.s[s].failed
      /\ a.req = st.req /\ a.b = st.b /\ a.state = st.state
      /\ a.result = st.result /\ DOMAIN a = MFields /\ a.nextID = st.nextID
  BY <1>1, <1>3 DEF SlotFields, Out, Same, MFields
<1>5. AttemptEnds(st, retry, s) \/ st.req[b].canceled
  <2>1. /\ Same(st, retry, {"s", "req", "use", "all"}) /\ retry.s = a.s
        /\ retry.req = [st.req EXCEPT ![b].phase = "materialized"]
    BY <1>3, <1>4 DEF Same, MFields
  <2> HIDE DEF retry
  <2>2. Out(retry, s) = q
    BY <1>4, <2>1 DEF Out
  <2> QED
    BY <1>2, <1>3, <1>4, <2>1, <2>2 DEF AttemptEnds
<1>6. AttemptEnds(st, done, s) /\ done.req = [st.req EXCEPT ![b] = NoRequest]
  <2>1. /\ Same(a, pop, {"s"}) /\ DOMAIN pop.s = Slots
        /\ \A x \in Slots \ {s} : pop.s[x] = a.s[x]
        /\ pop.s[s] = [a.s[s] EXCEPT !.out = Tail(a.s[s].out)]
    BY <1>3, <1>4 DEF PopOut, Same, MFields
  <2> HIDE DEF pop
  <2>2. /\ DOMAIN pop.s[s] = SlotFields /\ pop.s[s].attempting = FALSE
        /\ Out(pop, s) = Tail(q) /\ pop.s[s].failed = st.s[s].failed
    BY <1>4, <2>1 DEF SlotFields, Out
  <2>3. Same(pop, rel, {"use", "all"})
    BY <2>1 DEF ReleaseCharge, ChargeRequest, Same, MFields
  <2> HIDE DEF rel
  <2>4. /\ Same(rel, done, {"req"})
        /\ done.req = [rel.req EXCEPT ![b] = NoRequest]
    BY <2>3 DEF Same, MFields
  <2> HIDE DEF done
  <2>5. Same(st, done, {"s", "req", "use", "all"})
    BY <1>3, <2>1, <2>3, <2>4 DEF Same
  <2>6. done.s = pop.s /\ done.req = [st.req EXCEPT ![b] = NoRequest]
    BY <1>4, <2>1, <2>3, <2>4 DEF Same, MFields
  <2>7. Out(done, s) = Tail(q)
    BY <2>2, <2>6 DEF Out
  <2>8. /\ DOMAIN done.s[s] = SlotFields
        /\ done.s[s].attempting = FALSE
        /\ done.s[s].failed = st.s[s].failed
    BY <2>2, <2>6
  <2>9. /\ DOMAIN done.s = Slots
        /\ \A x \in Slots \ {s} : done.s[x] = st.s[x]
    BY <1>3, <2>1, <2>6
  <2> QED
    BY <1>2, <2>5, <2>6, <2>7, <2>8, <2>9 DEF AttemptEnds
<1>7. Sound(done, done, {}, {}, Q) /\ Carries(st, done)
  BY <1>6, AttemptEndsSound
<1>8. /\ done.b = st.b /\ done.state = st.state /\ done.result = st.result
      /\ done.nextID = st.nextID /\ done.req = [st.req EXCEPT ![b] = NoRequest]
      /\ DOMAIN done = MFields
  BY <1>2, <1>6 DEF AttemptEnds, Same, MFields
<1> HIDE DEF done, retry, q, pop, rel
<1>9. ~st.b[b].localClosing => b \notin Q
  BY <1>2 DEF Sound, SameClosing
<1>10. ASSUME NEW u, u.b = st.b, u.state = done.state, u.s = done.s,
              u.req = done.req,
              \A c \in Bindings :
                c \in A \/ u.result[c] \in {done.result[c], "rejected"},
              NEW v, Sound(u, v, {}, {}, Q), NEW w, w = SignalSlots(Promote(v), {s})
       PROVE  /\ Sound(w, w, {}, {}, Q) /\ Attempted(st, w, s, A)
              /\ (v.req = done.req => w.req[b].phase = "none")
              /\ LivesHeld(st, w)
  <2>1. Sound(u, Promote(v), {}, {}, Q) /\ Granted(v, Promote(v))
    BY <1>10, PromoteSound
  <2>2. Sound(u, w, {}, {}, Q)
    BY <1>10, <2>1, SignalSlotsSound
  <2>3. Sound(w, w, {}, {}, Q)
    BY <2>2, SoundRefl
  <2>4. Attempted(st, w, s, A)
    BY <1>6, <1>7, <1>10, <2>2, AttemptedSound
  <2>5. v.req = done.req => w.req[b].phase = "none"
    <3>1. IsState(Promote(v))
      BY <2>1 DEF Sound, Evolves
    <3>2. Same(Promote(v), w, {"s"})
      BY <1>10, <3>1, SignalSlotsLaw
    <3>3. w.req = Promote(v).req
      BY <3>2 DEF Same, MFields
    <3>4. done.req[b].phase = "none"
      BY <1>1, <1>2, <1>8 DEF NoRequest
    <3> QED
      BY <1>2, <2>1, <3>3, <3>4 DEF Granted
  <2>6. LivesHeld(st, w)
    BY <1>10, <2>2 DEF Sound, Evolves, LivesKept, SameClosing, LivesHeld
  <2> QED
    BY <2>3, <2>4, <2>5, <2>6
<1>11. CASE outcome = "full" /\ ~a.req[b].canceled /\ a.state = "ready"
  <2>1. t = retry
    BY <1>11 DEF FinishRequest, retry
  <2>2. AttemptEnds(st, retry, s)
    BY <1>4, <1>5, <1>11
  <2>3. Sound(retry, retry, {}, {}, Q) /\ Carries(st, retry)
    BY <2>2, AttemptEndsSound
  <2>4. Attempted(st, retry, s, A)
    BY <2>2, <2>3, AttemptedSound
  <2>5. retry.b = st.b
    BY <2>2 DEF AttemptEnds, Same, MFields
  <2>6. LivesHeld(st, retry)
    BY <2>3, <2>5 DEF Sound, Evolves, LivesKept, LivesHeld
  <2> QED
    BY <1>11, <2>1, <2>3, <2>4, <2>6 DEF Answered
<1>12. CASE ~(outcome = "full" /\ ~a.req[b].canceled /\ a.state = "ready")
  <2> DEFINE r == a.req[b]
             live == ~r.canceled /\ a.state = "ready" /\ ~a.b[b].localClosing
                       /\ ~a.b[b].terminal
             rejected == IF a.b[b].localClosing THEN done
                         ELSE [done EXCEPT !.result[b] = "rejected"]
             accepted == [done EXCEPT !.result[b] = "accepted"]
             after == IF outcome = "ok"
                      THEN IF live THEN SignalBinding(accepted, {b}) ELSE done
                      ELSE IF outcome = "toolarge" /\ ~r.canceled
                      THEN PublishTerminal(DetachActive(rejected, {b}), {b},
                                           "rejected")
                      ELSE done
  <2>1. t = SignalSlots(Promote(after), {s})
    BY <1>12 DEF FinishRequest, done, rel, pop
  <2>2. CASE after = done
    <3>1. t = SignalSlots(Promote(done), {s})
      BY <2>1, <2>2
    <3> HIDE DEF t, after
    <3>2. /\ Sound(t, t, {}, {}, Q) /\ Attempted(st, t, s, A)
          /\ t.req[b].phase = "none" /\ LivesHeld(st, t)
      BY <1>7, <1>8, <1>10, <3>1
    <3> QED
      BY <3>2 DEF t, Answered
  <2>3. CASE outcome = "ok" /\ live
    <3>1. Sound(accepted, accepted, {} \cup {b}, {}, Q)
      BY <1>2, <1>4, <1>7, <1>8, <1>9, <2>3, ResultSound
    <3>2. /\ accepted.b = st.b /\ accepted.state = done.state
          /\ accepted.s = done.s /\ accepted.req = done.req
          /\ \A c \in Bindings :
               c \in A \/ accepted.result[c] \in {done.result[c], "rejected"}
      BY <1>1, <1>8, <2>3 DEF MFields
    <3> HIDE DEF accepted
    <3>3. Sound(accepted, SignalBinding(accepted, {b}), {}, {}, Q)
      <4>1. Sound(accepted, SignalBinding(accepted, {b}),
                  ({} \cup {b}) \ {b}, {} \ {b}, Q)
        BY <1>2, <3>1, SignalBindingSound
      <4>2. ({} \cup {b}) \ {b} = {} /\ {} \ {b} = {}
        OBVIOUS
      <4> QED
        BY <4>1, <4>2
    <3>4. SignalBinding(accepted, {b}).req = done.req
      <4>1. DOMAIN accepted = MFields
        BY <3>1 DEF Sound, Evolves, IsState
      <4>2. Same(accepted, SignalBinding(accepted, {b}),
                 {"readyQ", "readySig", "notify"})
        BY <4>1, SignalBindingFrame
      <4> QED
        BY <3>2, <4>2 DEF Same, MFields
    <3>5. after = SignalBinding(accepted, {b})
      BY <2>3
    <3> HIDE DEF after
    <3>6. /\ Sound(t, t, {}, {}, Q) /\ Attempted(st, t, s, A)
          /\ t.req[b].phase = "none" /\ LivesHeld(st, t)
      BY <1>10, <2>1, <3>2, <3>3, <3>4, <3>5
    <3> QED
      BY <3>6 DEF Answered
  <2>4. CASE outcome = "toolarge" /\ ~r.canceled
    <3> DEFINE d == DetachActive(rejected, {b})
               e == PublishTerminal(d, {b}, "rejected")
    <3>1. /\ rejected.b = st.b /\ rejected.state = done.state
          /\ rejected.s = done.s /\ rejected.req = done.req
          /\ \A c \in Bindings :
               c \in A \/ rejected.result[c] \in {done.result[c], "rejected"}
      BY <1>1, <1>8 DEF MFields
    <3>2. Sound(rejected, rejected, {} \cup {b}, {}, Q)
      <4>1. CASE a.b[b].localClosing
        <5>1. rejected = done /\ {} \subseteq {} \cup {b} /\ {} \subseteq {}
                /\ Q \subseteq Q
          BY <4>1
        <5> QED
          BY <1>7, <5>1, SoundMono
      <4>2. CASE ~a.b[b].localClosing
        <5>1. rejected = [done EXCEPT !.result[b] = "rejected"]
          BY <4>2
        <5>2. b \notin Q /\ b < done.nextID
          BY <1>2, <1>4, <1>8, <1>9, <4>2
        <5> HIDE DEF rejected
        <5> QED
          BY <1>2, <1>7, <5>1, <5>2, ResultSound
      <4> QED
        BY <4>1, <4>2
    <3> HIDE DEF rejected
    <3>3. Sound(rejected, d, {} \cup {b}, {}, Q) /\ ~d.b[b].active
      <4>1. IsState(rejected)
        BY <3>2 DEF Sound, Evolves
      <4>2. \A c \in Bindings : d.b[c] = IF c \in {b}
                THEN [rejected.b[c] EXCEPT !.active = FALSE] ELSE rejected.b[c]
        BY <4>1, DetachActiveLaw
      <4>3. ~d.b[b].active
        <5>1. d.b[b] = [rejected.b[b] EXCEPT !.active = FALSE]
          BY <1>2, <4>2
        <5> QED
          BY <1>2, <4>1, <5>1 DEF IsState, IsLife, LifeFields
      <4>4. Sound(rejected, d, {} \cup {b}, {}, Q)
        BY <3>2, DetachActiveSound
      <4> QED
        BY <4>3, <4>4
    <3> HIDE DEF d
    <3>4. Sound(rejected, e, {}, {}, Q)
      <4>1. Sound(rejected, e, ({} \cup {b}) \ {b}, {} \ {b}, Q)
        BY <1>2, <3>3, PublishTerminalSound
      <4>2. ({} \cup {b}) \ {b} = {} /\ {} \ {b} = {}
        OBVIOUS
      <4> QED
        BY <4>1, <4>2
    <3>5. after = e
      BY <2>4 DEF e, d
    <3> HIDE DEF after, e
    <3>6. /\ /\ Sound(t, t, {}, {}, Q)
          /\ Attempted(st, t, s, A)
          /\ LivesHeld(st, t)
      BY <1>10, <2>1, <3>1, <3>4, <3>5
    <3> QED
      BY <2>4, <3>6 DEF Answered
  <2> QED
    BY <2>2, <2>3, <2>4
<1> QED
  BY <1>11, <1>12

(* finishControlAttemptLocked and finishProbeAttemptLocked                 *)
LEMMA FinishControlSound ==
  ASSUME NEW o, NEW st, NEW Q, Sound(o, st, {}, {}, Q),
         \A c \in Bindings : c \in Q <=> st.b[c].closeStarted,
         NEW s \in Slots, st.s[s].attempting,
         NEW i, i = Out(st, s)[1], i.kind # "req", NEW outcome, NEW a,
         a = [st EXCEPT !.s[s].attempting = FALSE]
  PROVE  /\ Sound(FinishControl(a, s, i, outcome),
                  FinishControl(a, s, i, outcome), {}, {}, Q)
         /\ Attempted(st, FinishControl(a, s, i, outcome), s, {})
         /\ LivesHeld(st, FinishControl(a, s, i, outcome))
<1> DEFINE t    == FinishControl(a, s, i, outcome)
           q    == Out(st, s)
           pop  == PopOut(a, s)
           done == AddControl(pop, s, -1)
<1>1. /\ Fifo(st) /\ IsState(st) /\ st.req \in [Bindings -> Requests]
      /\ DOMAIN st.s = Slots /\ \A x \in Slots : DOMAIN st.s[x] = SlotFields
  BY DEF Sound, Evolves, Fifo, FifoType
<1>2. q # <<>> /\ q \in Seq(OutItems) /\ ItemOpen(st, s, i) /\ i = q[1]
  <2>1. q # <<>> /\ q \in Seq(OutItems)
    BY <1>1 DEF Fifo, FifoType, HeadSubmitted
  <2>2. 1 \in 1..Len(q)
    BY <2>1
  <2>3. ItemOpen(st, s, q[1])
    BY <1>1, <2>2 DEF Fifo, ItemsOpen
  <2> QED
    BY <2>1, <2>3
<1>3. /\ Same(st, a, {"s"}) /\ DOMAIN a.s = Slots
      /\ \A x \in Slots \ {s} : a.s[x] = st.s[x]
      /\ a.s[s] = [st.s[s] EXCEPT !.attempting = FALSE]
  BY <1>1 DEF IsState, MFields, Same
<1>4. /\ DOMAIN a.s[s] = SlotFields /\ a.s[s].attempting = FALSE
      /\ Out(a, s) = q /\ a.s[s].failed = st.s[s].failed
      /\ a.req = st.req /\ a.b = st.b /\ a.state = st.state
      /\ a.result = st.result /\ DOMAIN a = MFields /\ a.nextID = st.nextID
  BY <1>1, <1>3 DEF SlotFields, Out, Same, MFields
<1>5. AttemptEnds(st, a, s)
  <2>1. Same(st, a, {"s", "req", "use", "all"})
    BY <1>3 DEF Same
  <2> QED
    BY <1>2, <1>3, <1>4, <2>1 DEF AttemptEnds
<1>6. AttemptEnds(st, done, s)
  <2>1. /\ Same(a, pop, {"s"}) /\ DOMAIN pop.s = Slots
        /\ \A x \in Slots \ {s} : pop.s[x] = a.s[x]
        /\ pop.s[s] = [a.s[s] EXCEPT !.out = Tail(a.s[s].out)]
    BY <1>3, <1>4 DEF PopOut, Same, MFields
  <2> HIDE DEF pop
  <2>2. /\ DOMAIN pop.s[s] = SlotFields /\ pop.s[s].attempting = FALSE
        /\ Out(pop, s) = Tail(q) /\ pop.s[s].failed = st.s[s].failed
    BY <1>4, <2>1 DEF SlotFields, Out
  <2>3. Same(pop, done, {"use", "all"})
    BY <2>1 DEF AddControl, Same, MFields
  <2> HIDE DEF done
  <2>4. Same(st, done, {"s", "req", "use", "all"})
    BY <1>3, <2>1, <2>3 DEF Same
  <2>5. done.s = pop.s /\ done.req = st.req
    BY <1>4, <2>1, <2>3 DEF Same, MFields
  <2>6. Out(done, s) = Tail(q)
    BY <2>2, <2>5 DEF Out
  <2>7. /\ DOMAIN done.s[s] = SlotFields
        /\ done.s[s].attempting = FALSE
        /\ done.s[s].failed = st.s[s].failed
    BY <2>2, <2>5
  <2>8. /\ DOMAIN done.s = Slots
        /\ \A x \in Slots \ {s} : done.s[x] = st.s[x]
    BY <1>3, <2>1, <2>5
  <2> QED
    BY <1>2, <2>4, <2>5, <2>6, <2>7, <2>8 DEF AttemptEnds
<1>7. Sound(done, done, {}, {}, Q) /\ Carries(st, done)
  BY <1>6, AttemptEndsSound
<1>8. /\ done.b = st.b /\ done.state = st.state /\ done.result = st.result
      /\ DOMAIN done = MFields
  BY <1>6 DEF AttemptEnds, Same, MFields
<1> HIDE DEF done, q, pop
<1>9. ASSUME NEW v, Sound(done, v, {}, {}, Q)
       PROVE  /\ Sound(v, v, {}, {}, Q) /\ Attempted(st, v, s, {})
              /\ LivesHeld(st, v)
  <2>1. Sound(v, v, {}, {}, Q)
    BY <1>9, SoundRefl
  <2>2. \A b \in Bindings :
          b \in {} \/ done.result[b] \in {done.result[b], "rejected"}
    OBVIOUS
  <2>3. Attempted(st, v, s, {})
    BY <1>6, <1>7, <1>9, <2>2, AttemptedSound
  <2>4. LivesHeld(st, v)
    BY <1>8, <1>9 DEF Sound, Evolves, LivesKept, SameClosing, LivesHeld
  <2> QED
    BY <2>1, <2>3, <2>4
<1>10. CASE outcome = "full" /\ ~i.canceled /\ a.state = "ready"
  <2>1. t = a
    BY <1>10 DEF FinishControl
  <2>2. Sound(a, a, {}, {}, Q) /\ Carries(st, a)
    BY <1>5, AttemptEndsSound
  <2>3. \A b \in Bindings :
          b \in {} \/ a.result[b] \in {a.result[b], "rejected"}
    OBVIOUS
  <2>4. Attempted(st, a, s, {})
    BY <1>5, <2>2, <2>3, AttemptedSound
  <2>5. LivesHeld(st, a)
    BY <1>4, <2>2 DEF Sound, Evolves, LivesKept, LivesHeld
  <2> QED
    BY <2>1, <2>2, <2>4, <2>5
<1>11. CASE ~(outcome = "full" /\ ~i.canceled /\ a.state = "ready")
  <2> DEFINE f == FinishClose(done, i.b, done.b[i.b].err)
             sub == [done EXCEPT !.s[s].probe.submitted = TRUE]
             after == IF outcome # "ok" \/ i.canceled THEN done
                      ELSE IF i.kind = "close" THEN f
                      ELSE IF i.kind = "probe" THEN sub ELSE done
  <2>1. t = SignalSlots(after, {s})
    BY <1>11 DEF FinishControl, done, pop
  <2>2. i.kind = "close" => Sound(done, f, {}, {}, Q)
    <3> HAVE i.kind = "close"
    <3>1. i.b \in Bindings /\ i.b \in Q /\ ~done.b[i.b].active
      BY <1>2, <1>8 DEF ItemOpen
    <3>2. Sound(done, f, {} \ {i.b}, {} \ {i.b}, Q)
      BY <1>7, <3>1, FinishCloseSound
    <3>3. {} \ {i.b} = {}
      OBVIOUS
    <3> QED
      BY <3>2, <3>3
  <2>3. Sound(done, sub, {}, {}, Q)
    <3>1. /\ Same(done, sub, {"s"})
          /\ sub.s = [done.s EXCEPT ![s].probe.submitted = TRUE]
      BY <1>8 DEF MFields, Same
    <3>2. DOMAIN done.s = Slots /\ \A x \in Slots : DOMAIN done.s[x] = SlotFields
      BY <1>7 DEF Sound, Fifo, FifoType
    <3> HIDE DEF sub
    <3>3. SameFifos(done, sub)
      <4>1. /\ DOMAIN sub.s = Slots
            /\ \A x \in Slots \ {s} : sub.s[x] = done.s[x]
            /\ DOMAIN sub.s[s] = SlotFields
            /\ sub.s[s].out = done.s[s].out
            /\ sub.s[s].attempting = done.s[s].attempting
            /\ sub.s[s].failed = done.s[s].failed
        BY <3>1, <3>2 DEF SlotFields
      <4> QED
        BY <3>2, <4>1 DEF SameFifos, Out
    <3>4. Evolves(done, sub)
      <4>1. Quiet(done, sub) /\ Evolves(done, done)
        BY <1>7, <3>1 DEF Same, MFields, Quiet, Sound
      <4> QED
        BY <4>1, QuietEvolves
    <3>5. Same(done, sub, {"s", "use", "all", "probeID"})
      BY <3>1 DEF Same
    <3> QED
      BY <1>7, <3>3, <3>4, <3>5, SoundFlags
  <2> HIDE DEF f, sub
  <2>4. Sound(done, after, {}, {}, Q)
    BY <1>7, <2>2, <2>3
  <2> HIDE DEF after
  <2>5. Sound(done, SignalSlots(after, {s}), {}, {}, Q)
    BY <2>4, SignalSlotsSound
  <2> QED
    BY <1>9, <2>1, <2>5
<1> QED
  BY <1>10, <1>11

-----------------------------------------------------------------------------
(* Requests in flight that lost their binding.                             *)

(* The bindings whose request was canceled while it was in flight.         *)
Orphans(st) == {b \in Bindings : st.req[b].canceled}

(* t has the requests of st.                                               *)
Holds(st, t) == IsState(t) /\ t.req = st.req /\ t.waitQ = st.waitQ

(* The requests canceled since o are those of B.                           *)
Orphaned(o, t, B) ==
  /\ IsState(t)
  /\ t.req \in [Bindings -> Requests]
  /\ t.waitQ \in Seq(Bindings)
  /\ Orphans(t) \subseteq Orphans(o) \cup B

(* Changes of other state cancel nothing.                                  *)
LEMMA HoldsOrphaned ==
  ASSUME NEW o, NEW st, NEW B, Orphaned(o, st, B), NEW t, Holds(st, t)
  PROVE  Orphaned(o, t, B)
BY DEF Orphaned, Holds, Orphans

(* signalBindingLocked cancels no request.                                 *)
LEMMA SignalBindingHolds ==
  ASSUME NEW st, IsState(st), NEW B
  PROVE  Holds(st, SignalBinding(st, B))
<1>1. Evolves(st, SignalBinding(st, B))
  BY EvolvesRefl, SignalBindingEvolves
<1>2. /\ SignalBinding(st, B).req = st.req
      /\ SignalBinding(st, B).waitQ = st.waitQ
  BY DEF SignalBinding, EnqueueReady, IsState, MFields
<1> QED
  BY <1>1, <1>2 DEF Holds, Evolves

(* invalidateReadyLocked cancels no request.                               *)
LEMMA InvalidateReadyHolds ==
  ASSUME NEW st, IsState(st), NEW B
  PROVE  Holds(st, InvalidateReady(st, B))
<1>1. Evolves(st, InvalidateReady(st, B))
  BY EvolvesRefl, InvalidateReadyEvolves
<1>2. /\ InvalidateReady(st, B).req = st.req
      /\ InvalidateReady(st, B).waitQ = st.waitQ
  BY DEF InvalidateReady, UnlinkReady, IsState, MFields
<1> QED
  BY <1>1, <1>2 DEF Holds, Evolves

(* signalSlotLocked cancels no request.                                    *)
LEMMA SignalSlotsHolds ==
  ASSUME NEW st, IsState(st), NEW S
  PROVE  Holds(st, SignalSlots(st, S))
<1>1. Evolves(st, SignalSlots(st, S))
  BY EvolvesRefl, SignalSlotsEvolves
<1>2. SignalSlots(st, S).req = st.req /\ SignalSlots(st, S).waitQ = st.waitQ
  BY DEF SignalSlots, IsState, MFields
<1> QED
  BY <1>1, <1>2 DEF Holds, Evolves

(* releaseTerminalBindingLocked cancels no request.                        *)
LEMMA ReleaseTerminalHolds ==
  ASSUME NEW st, IsState(st), NEW B
  PROVE  Holds(st, ReleaseTerminal(st, B)) /\ Holds(st, ReleaseResident(st, B))
<1>1. /\ Evolves(st, ReleaseTerminal(st, B))
      /\ Evolves(st, ReleaseResident(st, B))
  BY EvolvesRefl, ReleaseTerminalEvolves, ReleaseResidentEvolves
<1>2. \A C : /\ ReleaseResident(st, C).req = st.req
             /\ ReleaseResident(st, C).waitQ = st.waitQ
  BY ReleaseResidentLaw DEF Same, MFields
<1>3. /\ ReleaseTerminal(st, B).req = st.req
      /\ ReleaseTerminal(st, B).waitQ = st.waitQ
  BY <1>2 DEF ReleaseTerminal
<1> QED
  BY <1>1, <1>2, <1>3 DEF Holds, Evolves

(* detachActiveBindingLocked cancels no request.                           *)
LEMMA DetachActiveHolds ==
  ASSUME NEW st, IsState(st), NEW B
  PROVE  Holds(st, DetachActive(st, B))
<1>1. Evolves(st, DetachActive(st, B))
  BY EvolvesRefl, DetachActiveEvolves
<1>2. DetachActive(st, B).req = st.req /\ DetachActive(st, B).waitQ = st.waitQ
  BY DetachActiveLaw DEF Same, MFields
<1> QED
  BY <1>1, <1>2 DEF Holds, Evolves

(* publishBindingTerminalLocked cancels no request.                        *)
LEMMA PublishTerminalHolds ==
  ASSUME NEW st, IsState(st), NEW B, NEW err
  PROVE  Holds(st, PublishTerminal(st, B, err))
<1>1. Evolves(st, PublishTerminal(st, B, err))
  BY EvolvesRefl, PublishTerminalEvolves
<1> DEFINE t == [st EXCEPT !.b = [b \in Bindings |->
                   IF b \in B THEN Ended(@[b], err) ELSE @[b]]]
<1>2. t.req = st.req /\ t.waitQ = st.waitQ /\ DOMAIN t = MFields
  BY DEF IsState, MFields
<1> HIDE DEF t
<1>3. SignalBinding(t, B).req = t.req /\ SignalBinding(t, B).waitQ = t.waitQ
  BY <1>2 DEF SignalBinding, EnqueueReady, MFields
<1>4. /\ PublishTerminal(st, B, err).req = st.req
      /\ PublishTerminal(st, B, err).waitQ = st.waitQ
  BY <1>2, <1>3 DEF PublishTerminal, t
<1> QED
  BY <1>1, <1>4 DEF Holds, Evolves

(* publishBindingCloseLocked cancels no request.                           *)
LEMMA PublishCloseHolds ==
  ASSUME NEW st, IsState(st), NEW B, NEW err
  PROVE  Holds(st, PublishClose(st, B, err))
<1>1. Evolves(st, PublishClose(st, B, err))
  BY EvolvesRefl, PublishCloseEvolves
<1>2. /\ PublishClose(st, B, err).req = st.req
      /\ PublishClose(st, B, err).waitQ = st.waitQ
  BY PublishCloseLaw DEF Same, MFields
<1> QED
  BY <1>1, <1>2 DEF Holds, Evolves

(* Observing an end cancels no request.                                    *)
LEMMA ObserveTerminalHolds ==
  ASSUME NEW st, IsState(st), NEW B
  PROVE  Holds(st, ObserveTerminal(st, B))
<1>1. Evolves(st, ObserveTerminal(st, B))
  BY EvolvesRefl, ObserveTerminalEvolves
<1> DEFINE t == [st EXCEPT !.b = [b \in Bindings |->
                  IF b \in B THEN [@[b] EXCEPT !.observed = TRUE] ELSE @[b]]]
<1>2. t.req = st.req /\ t.waitQ = st.waitQ /\ DOMAIN t = MFields
  BY DEF IsState, MFields
<1> HIDE DEF t
<1>3. /\ InvalidateReady(t, B).req = t.req
      /\ InvalidateReady(t, B).waitQ = t.waitQ
  BY <1>2 DEF InvalidateReady, UnlinkReady, MFields
<1>4. /\ ObserveTerminal(st, B).req = st.req
      /\ ObserveTerminal(st, B).waitQ = st.waitQ
  BY <1>2, <1>3 DEF ObserveTerminal, t
<1> QED
  BY <1>1, <1>4 DEF Holds, Evolves

(* The tail of a close cancels no request.                                 *)
LEMMA FinishCloseHolds ==
  ASSUME NEW st, IsState(st), NEW b, NEW err
  PROVE  Holds(st, FinishClose(st, b, err))
<1> DEFINE t == PublishTerminal(st, {b}, err)
           u == PublishClose(t, {b}, err)
           v == ObserveTerminal(u, {b})
<1>1. Holds(st, t)
  BY PublishTerminalHolds
<1> HIDE DEF t
<1>2. Holds(t, u)
  BY <1>1, PublishCloseHolds DEF Holds
<1> HIDE DEF u
<1>3. Holds(u, v)
  BY <1>2, ObserveTerminalHolds DEF Holds
<1> HIDE DEF v
<1>4. Holds(v, ReleaseTerminal(v, {b}))
  BY <1>3, ReleaseTerminalHolds DEF Holds
<1> QED
  BY <1>1, <1>2, <1>3, <1>4 DEF Holds, FinishClose, v, u, t

(* clearBindingQueueLocked cancels no request.                             *)
LEMMA ClearQueueHolds ==
  ASSUME NEW st, IsState(st), NEW B
  PROVE  Holds(st, ClearQueue(st, B)) /\ Holds(st, DropResult(st, B))
<1>1. Evolves(st, ClearQueue(st, B)) /\ Evolves(st, DropResult(st, B))
  BY EvolvesRefl, ClearQueueEvolves, DropResultEvolves
<1>2. /\ ClearQueue(st, B).req = st.req
      /\ ClearQueue(st, B).waitQ = st.waitQ
      /\ DropResult(st, B).req = st.req
      /\ DropResult(st, B).waitQ = st.waitQ
  BY DEF ClearQueue, DropResult, IsState, MFields
<1> QED
  BY <1>1, <1>2 DEF Holds, Evolves

(* queueControlLocked cancels no request.                                  *)
LEMMA QueueControlHolds ==
  ASSUME NEW st, IsState(st), NEW s, NEW kind, NEW b
  PROVE  Holds(st, QueueControl(st, s, kind, b))
<1>1. Evolves(st, QueueControl(st, s, kind, b))
  BY EvolvesRefl, QueueControlEvolves
<1> DEFINE i == Item(kind, b, 0)
           t == AppendOut(st, s, i)
           u == AddControl(t, s, 1)
           S == IF st.s[s].out = <<>> THEN {s} ELSE {}
<1> HIDE DEF i, S
<1>2. t.req = st.req /\ t.waitQ = st.waitQ /\ DOMAIN t = MFields
  BY DEF AppendOut, IsState, MFields
<1> HIDE DEF t
<1>3. u.req = t.req /\ u.waitQ = t.waitQ /\ DOMAIN u = MFields
  BY <1>2 DEF AddControl, MFields
<1> HIDE DEF u
<1>4. SignalSlots(u, S).req = u.req /\ SignalSlots(u, S).waitQ = u.waitQ
  BY <1>3 DEF SignalSlots, MFields
<1>5. /\ QueueControl(st, s, kind, b).req = st.req
      /\ QueueControl(st, s, kind, b).waitQ = st.waitQ
  BY <1>2, <1>3, <1>4 DEF QueueControl, PutControl, u, t, i, S
<1> QED
  BY <1>1, <1>5 DEF Holds, Evolves

(* Canceling control work cancels no request.                              *)
LEMMA CancelControlsHolds ==
  ASSUME NEW st, IsState(st), NEW S, NEW G
  PROVE  Holds(st, CancelControls(st, S, G))
<1>1. Evolves(st, CancelControls(st, S, G))
  BY EvolvesRefl, CancelControlsEvolves
<1>2. /\ CancelControls(st, S, G).req = st.req
      /\ CancelControls(st, S, G).waitQ = st.waitQ
  BY DEF CancelControls, SignalSlots, IsState, MFields
<1> QED
  BY <1>1, <1>2 DEF Holds, Evolves

(* completeProbeLocked cancels no request.                                 *)
LEMMA CompleteProbeHolds ==
  ASSUME NEW st, IsState(st), NEW S, NEW ok
  PROVE  Holds(st, CompleteProbe(st, S, ok))
<1> DEFINE P == {s \in S : ~st.s[s].probe.done}
           G == [s \in Slots |-> {i \in ItemsOf(st, s) :
                    i.kind = "probe" /\ i.id = st.s[s].probe.id}]
           t == [st EXCEPT !.s = [s \in Slots |->
                   IF s \in P
                   THEN [@[s] EXCEPT !.probe.done = TRUE, !.probe.ok = ok]
                   ELSE @[s]]]
<1>1. IsState(t) /\ t.req = st.req /\ t.waitQ = st.waitQ
  BY DEF IsState, MFields
<1> HIDE DEF t, P, G
<1>2. Holds(t, CancelControls(t, P, G))
  BY <1>1, CancelControlsHolds
<1> QED
  BY <1>1, <1>2 DEF Holds, CompleteProbe, t, P, G

(* promoteRequestsLocked cancels nothing.                                  *)
LEMMA PromoteOneOrphaned ==
  ASSUME NEW o, NEW st, NEW B, Orphaned(o, st, B)
  PROVE  Orphaned(o, PromoteOne(st), B)
<1> DEFINE b == st.waitQ[Min(Candidates(st))]
           r == Reserved(st, b)
<1>1. CASE PromoteOne(st) = st
  BY <1>1
<1>2. CASE PromoteOne(st) # st
  <2>1. PromoteOne(st) = SignalBinding(r, {b})
    BY <1>2 DEF PromoteOne, Reserved
  <2>2. /\ IsState(st) /\ st.req \in [Bindings -> Requests]
        /\ st.waitQ \in Seq(Bindings)
    BY DEF Orphaned
  <2> HIDE DEF b
  <2>3. r.waitQ \in Seq(Bindings)
    <3>1. r.waitQ = Excluding(st.waitQ, {b})
      BY <2>2 DEF Reserved, Reserve, ChargeRequest, IsState, MFields
    <3> QED
      BY <2>2, <3>1, ExcludingLaw
  <2>4. r.req = [st.req EXCEPT ![b].phase = "reserved"] /\ IsState(r)
    <3>1. Evolves(st, [st EXCEPT !.waitQ = Excluding(@, {b})])
      <4>1. Quiet(st, [st EXCEPT !.waitQ = Excluding(@, {b})])
        BY <2>2 DEF Quiet, IsState, MFields
      <4> QED
        BY <2>2, <4>1, EvolvesRefl, QuietEvolves
    <3>2. Evolves(st, r)
      BY <3>1, ReserveEvolves DEF Reserved
    <3>3. r.req = [st.req EXCEPT ![b].phase = "reserved"]
      BY <2>2 DEF Reserved, Reserve, ChargeRequest, IsState, MFields
    <3> QED
      BY <3>2, <3>3 DEF Evolves
  <2> HIDE DEF r
  <2>5. r.req \in [Bindings -> Requests] /\ Orphans(r) \subseteq Orphans(st)
    <3> SUFFICES ASSUME NEW c \in Bindings
                 PROVE  /\ r.req[c] \in Requests
                        /\ r.req[c].canceled = st.req[c].canceled
      BY <2>2, <2>4 DEF Orphans
    <3>1. st.req[c] \in Requests
      BY <2>2
    <3>2. r.req[c] \in {st.req[c], [st.req[c] EXCEPT !.phase = "reserved"]}
      BY <2>2, <2>4
    <3> QED
      BY <3>1, <3>2 DEF Requests, Phases
  <2>6. Orphaned(o, r, B)
    BY <2>4, <2>5, <2>3 DEF Orphaned
  <2>7. Orphaned(o, SignalBinding(r, {b}), B)
    BY <2>4, <2>6, SignalBindingHolds, HoldsOrphaned
  <2> QED
    BY <2>1, <2>7
<1> QED
  BY <1>1, <1>2

(* promoteRequestsLocked cancels no request.                               *)
LEMMA PromoteOrphaned ==
  ASSUME NEW o, NEW st, NEW B, Orphaned(o, st, B)
  PROVE  Orphaned(o, Promote(st), B)
<1> DEFINE n == Len(st.waitQ)
           p == CHOOSE f : Iterates(f, st, n)
           G == {i \in Nat : i <= n => \E q : p[i] = {q} /\ Orphaned(o, q, B)}
           r == Promoted(st)
<1>1. n \in Nat
  BY DEF Orphaned
<1>2. Iterates(p, st, n)
  BY <1>1, IteratesExists
<1>3. r = CHOOSE q \in p[n] : TRUE
  BY DEF Promoted, Iterates
<1> HIDE DEF p, n
<1>4. p[0] = {st}
  <2>1. 0 \in 0..n
    BY <1>1
  <2> QED
    BY <1>2, <2>1 DEF Iterates
<1>5. ASSUME NEW i \in 1..n
      PROVE  p[i] = {PromoteOne(q) : q \in p[i - 1]}
  <2>1. i \in 0..n /\ i # 0
    BY <1>1
  <2> QED
    BY <1>2, <2>1 DEF Iterates
<1>6. 0 \in G
  BY <1>4
<1>7. ASSUME NEW i \in Nat, i \in G
      PROVE  i + 1 \in G
  <2> SUFFICES ASSUME i + 1 <= n
               PROVE  \E q : p[i + 1] = {q} /\ Orphaned(o, q, B)
    OBVIOUS
  <2>1. i <= n /\ i + 1 \in 1..n /\ (i + 1) - 1 = i
    BY <1>1
  <2>2. PICK q : p[i] = {q} /\ Orphaned(o, q, B)
    BY <1>7, <2>1
  <2>3. p[i + 1] = {PromoteOne(q)}
    BY <1>5, <2>1, <2>2
  <2>4. Orphaned(o, PromoteOne(q), B)
    BY <2>2, PromoteOneOrphaned
  <2> QED
    BY <2>3, <2>4
<1> HIDE DEF G
<1>8. Nat \subseteq G
  BY <1>6, <1>7, SetInduction
<1>9. PICK q : p[n] = {q} /\ Orphaned(o, q, B)
  <2>1. n \in G /\ n <= n
    BY <1>1, <1>8
  <2> QED
    BY <2>1 DEF G
<1>10. Orphaned(o, r, B)
  BY <1>3, <1>9
<1> HIDE DEF r
<1>11. CASE Promote(st) = st
  BY <1>11
<1>12. CASE Promote(st) # st
  <2> DEFINE t == [st EXCEPT !.waitQ = r.waitQ, !.req = r.req, !.use = r.use,
                      !.all = r.all, !.readyQ = r.readyQ,
                      !.readySig = r.readySig, !.notify = r.notify]
  <2>1. Promote(st) = t
    BY <1>12 DEF Promote, r
  <2>2. IsState(t) /\ t.req = r.req /\ t.waitQ = r.waitQ
    BY DEF Orphaned, IsState, MFields
  <2> HIDE DEF t
  <2> QED
    BY <1>10, <2>1, <2>2 DEF Orphaned, Orphans
<1> QED
  BY <1>11, <1>12

(* cancelRequestLocked for the bindings of C.                              *)
LEMMA CancelRequestOrphaned ==
  ASSUME NEW o, NEW st, NEW B, Orphaned(o, st, B),
         NEW C, C \subseteq Bindings, NEW D,
         \A b \in C : st.req[b].phase \in {"materializing", "attempting"} =>
                        b \in D
  PROVE  Orphaned(o, CancelRequest(st, C), B \cup D)
<1> DEFINE live     == {b \in C : st.req[b].phase # "none" /\ ~st.req[b].canceled}
           inFlight == {b \in live :
                          st.req[b].phase \in {"materializing", "attempting"}}
           now      == live \ inFlight
           paid     == {b \in now : Charged(st.req[b])}
           on(s)    == {b \in paid : SlotOf(st, b) = s}
           bytes(A) == SumOf([b \in A |-> st.req[b].size])
           r == [b \in Bindings |->
                   IF b \in now THEN NoRequest
                   ELSE IF b \in inFlight
                        THEN [st.req[b] EXCEPT !.canceled = TRUE, !.owned = FALSE]
                        ELSE st.req[b]]
           use == [s \in Slots |->
                   [st.use[s] EXCEPT !.reqItems = @ - Cardinality(on(s)),
                                     !.reqBytes = @ - bytes(on(s))]]
           k == Cardinality(paid)
           l == bytes(paid)
           u == [st EXCEPT !.req = r, !.waitQ = Excluding(@, now), !.use = use,
                           !.all.reqItems = @ - k, !.all.reqBytes = @ - l]
           t == CancelRequest(st, C)
<1>1. t = IF now = {} THEN u ELSE Promote(RemoveRequests(u, now))
  <2>1. \A b \in Bindings : r[b] = IF b \in now THEN NoRequest
                ELSE IF b \in inFlight
                     THEN [st.req[b] EXCEPT !.canceled = TRUE, !.owned = FALSE]
                     ELSE st.req[b]
    OBVIOUS
  <2> QED
    BY DEF CancelRequest
<1>2. IsState(st) /\ st.req \in [Bindings -> Requests]
  BY DEF Orphaned
<1>3. \A b \in inFlight : b \in D
  OBVIOUS
<1>4. Excluding(st.waitQ, now) \in Seq(Bindings)
  BY ExcludingLaw DEF Orphaned
<1> HIDE DEF now, inFlight, use, k, l, t
<1>5. IsState(u) /\ u.req = r /\ u.waitQ \in Seq(Bindings)
  BY <1>2, <1>4 DEF IsState, MFields
<1> HIDE DEF u
<1>6. ASSUME NEW b \in Bindings
      PROVE  r[b] \in Requests /\ (r[b].canceled => st.req[b].canceled \/ b \in D)
  <2>1. CASE b \in now
    BY <2>1 DEF NoRequest, Requests, Phases
  <2>2. CASE b \notin now /\ b \in inFlight
    <3>1. r[b] = [st.req[b] EXCEPT !.canceled = TRUE, !.owned = FALSE]
      BY <2>2
    <3> HIDE DEF r
    <3> QED
      BY <1>2, <1>3, <2>2, <3>1 DEF Requests
  <2>3. CASE b \notin now /\ b \notin inFlight
    BY <1>2, <2>3
  <2> QED
    BY <2>1, <2>2, <2>3
<1>7. r \in [Bindings -> Requests]
  BY <1>6
<1> HIDE DEF r
<1>8. Orphaned(o, u, B \cup D)
  BY <1>5, <1>6, <1>7 DEF Orphaned, Orphans
<1>9. PICK S : RemoveRequests(u, now) = SignalSlots(Removed(u, now), S)
  BY RemoveRequestsIs
<1> DEFINE v == Removed(u, now)
<1>10. Holds(u, v)
  BY <1>5 DEF Holds, Removed, IsState, MFields
<1> HIDE DEF v
<1> DEFINE w == SignalSlots(v, S)
<1>11. Holds(v, w)
  BY <1>10, SignalSlotsHolds DEF Holds
<1> HIDE DEF w
<1>12. Orphaned(o, w, B \cup D)
  BY <1>8, <1>10, <1>11, HoldsOrphaned
<1>13. Orphaned(o, Promote(w), B \cup D)
  BY <1>12, PromoteOrphaned
<1> QED
  BY <1>1, <1>8, <1>9, <1>13 DEF t, w, v

(* cancelSlotOutboundLocked cancels the queued requests of its slots.      *)
LEMMA CancelSlotOutboundOrphaned ==
  ASSUME NEW o, NEW st, NEW B, Orphaned(o, st, B), ItemsOpen(st),
         NEW S, S \subseteq Slots
  PROVE  Orphaned(o, CancelSlotOutbound(st, S),
                  B \cup {b \in Bindings : st.b[b].slot \in S})
<1> DEFINE queued(s) == {i.b : i \in {j \in ItemsOf(st, s) : j.kind = "req"}}
           C == UNION {queued(s) : s \in S}
           D == {b \in Bindings : st.b[b].slot \in S}
           t == CompleteProbe(st, S, FALSE)
           G == [s \in Slots |-> {i \in ItemsOf(t, s) : i.kind # "req"}]
           u == CancelControls(t, S, G)
<1>1. CancelSlotOutbound(st, S) = CancelRequest(u, C)
  BY DEF CancelSlotOutbound
<1>2. C \subseteq D
  <2> SUFFICES ASSUME NEW s \in S, NEW i \in ItemsOf(st, s), i.kind = "req"
               PROVE  i.b \in Bindings /\ st.b[i.b].slot = s
    OBVIOUS
  <2>1. PICK n \in 1..Len(Out(st, s)) : i = Out(st, s)[n]
    BY DEF ItemsOf, Elements, Out
  <2>2. ItemOpen(st, s, i)
    BY <2>1 DEF ItemsOpen
  <2> QED
    BY <2>2 DEF ItemOpen
<1>3. Holds(st, t)
  BY CompleteProbeHolds DEF Orphaned
<1> HIDE DEF t, G, C
<1>4. Holds(t, u)
  BY <1>3, CancelControlsHolds DEF Holds
<1> HIDE DEF u
<1>5. Orphaned(o, u, B)
  BY <1>3, <1>4, HoldsOrphaned
<1>6. Orphaned(o, CancelRequest(u, C), B \cup D)
  BY <1>2, <1>5, CancelRequestOrphaned
<1> QED
  BY <1>1, <1>6

(* The requests canceled since o are those of bindings that accept no      *)
(* request any more.                                                       *)
Retires(o, t) == Orphaned(o, t, {b \in Bindings : ~t.b[b].active})

(* No request was canceled.                                                *)
LEMMA RetiresIf ==
  ASSUME NEW o, NEW t, NEW B, Orphaned(o, t, B), B \subseteq Bindings,
         \A b \in B : ~t.b[b].active
  PROVE  Retires(o, t)
BY DEF Retires, Orphaned

(* Two sections that retire what they cancel, in sequence.                 *)
LEMMA RetiresTrans ==
  ASSUME NEW o, NEW st, Retires(o, st), NEW t, Retires(st, t), Evolves(st, t)
  PROVE  Retires(o, t)
<1>1. \A b \in Bindings : ~st.b[b].active => ~t.b[b].active
  BY DEF Evolves, LivesKept, Kept
<1> QED
  BY <1>1 DEF Retires, Orphaned

(* A request state to start from.                                          *)
LEMMA RetiresRefl ==
  ASSUME NEW st, Fifo(st), IsState(st)
  PROVE  Orphaned(st, st, {}) /\ Retires(st, st)
BY DEF Retires, Orphaned, Fifo, FifoType

(* terminalizeBinding retires the binding whose request it cancels.        *)
LEMMA TerminalizeRetires ==
  ASSUME NEW st, Fifo(st), IsState(st), NEW b \in Bindings, NEW err
  PROVE  Retires(st, Terminalize(st, b, err))
<1> DEFINE d == DetachActive(st, {b})
           c == CancelRequest(d, {b})
           p == PublishTerminal(c, {b}, err)
           w == PublishClose(p, {b}, err)
           q == IF st.b[b].closeStarted THEN ObserveTerminal(w, {b}) ELSE p
           f == ReleaseTerminal(q, {b})
<1>1. Terminalize(st, b, err) = IF st.b[b].resident THEN f ELSE st
  BY DEF Terminalize
<1>2. Holds(st, d) /\ Evolves(st, d) /\ ~d.b[b].active
  <2>1. d.b[b] = [st.b[b] EXCEPT !.active = FALSE]
    BY DetachActiveLaw
  <2>2. ~d.b[b].active
    BY <2>1 DEF IsState, IsLife, LifeFields
  <2> QED
    BY <2>2, DetachActiveHolds, EvolvesRefl, DetachActiveEvolves
<1>3. Orphaned(st, d, {})
  BY <1>2, RetiresRefl, HoldsOrphaned
<1> HIDE DEF d
<1>4. Orphaned(st, c, {} \cup {b}) /\ Evolves(d, c)
  <2>1. Evolves(d, d)
    BY <1>2, EvolvesRefl DEF Evolves
  <2> QED
    BY <1>3, <2>1, CancelRequestOrphaned, CancelRequestEvolves
<1> HIDE DEF c
<1>5. Orphaned(st, p, {} \cup {b}) /\ Evolves(d, p)
  BY <1>4, PublishTerminalHolds, HoldsOrphaned, PublishTerminalEvolves
     DEF Orphaned
<1> HIDE DEF p
<1>6. Orphaned(st, w, {} \cup {b}) /\ Evolves(d, w)
  BY <1>5, PublishCloseHolds, HoldsOrphaned, PublishCloseEvolves DEF Orphaned
<1> HIDE DEF w
<1>7. Orphaned(st, q, {} \cup {b}) /\ Evolves(d, q)
  BY <1>5, <1>6, ObserveTerminalHolds, HoldsOrphaned, ObserveTerminalEvolves
     DEF Orphaned
<1> HIDE DEF q
<1>8. Orphaned(st, f, {} \cup {b}) /\ Evolves(d, f)
  BY <1>7, ReleaseTerminalHolds, HoldsOrphaned, ReleaseTerminalEvolves
     DEF Orphaned
<1> HIDE DEF f
<1>9. ~f.b[b].active
  BY <1>2, <1>8 DEF Evolves, LivesKept, Kept
<1>10. Retires(st, f)
  BY <1>8, <1>9, RetiresIf
<1> QED
  BY <1>1, <1>10, RetiresRefl

(* failSlot retires the bindings whose requests it cancels.                *)
LEMMA FailReadySlotRetires ==
  ASSUME NEW st, Fifo(st), IsState(st), NEW s \in Slots, NEW reason,
         \A b \in Bindings : st.b[b].slot = s =>
              ~FailReadySlot(st, s, reason).b[b].active
  PROVE  Retires(st, FailReadySlot(st, s, reason))
<1> DEFINE t   == [st EXCEPT !.s[s].failed = TRUE, !.s[s].reason = reason]
           R   == Res(st, s)
           F   == {b \in R : ~st.b[b].remoteClosed}
           C   == {b \in F : st.b[b].closeStarted}
           st1 == CancelSlotOutbound(t, {s})
           d   == DetachActive(st1, F)
           st2 == PublishTerminal(d, F, "slot")
           p   == PublishClose(st2, C, "slot")
           v   == ObserveTerminal(p, C)
           f   == ReleaseTerminal(v, F)
           B   == {b \in Bindings : st.b[b].slot \in {s}}
<1>1. /\ Holds(st, t) /\ t.b = st.b /\ t.nextID = st.nextID
      /\ t.s = [st.s EXCEPT ![s].failed = TRUE, ![s].reason = reason]
  BY DEF Holds, IsState, MFields
<1>2. \A x \in Slots : Out(t, x) = Out(st, x)
  <2>1. DOMAIN st.s = Slots /\ \A x \in Slots : DOMAIN st.s[x] = SlotFields
    BY DEF Fifo, FifoType
  <2> QED
    BY <1>1, <2>1 DEF SlotFields, Out
<1>3. f = FailReadySlot(st, s, reason)
  BY DEF FailReadySlot
<1> HIDE DEF t, F, C
<1>4. ItemsOpen(t)
  <2>1. t.req = st.req
    BY <1>1 DEF Holds
  <2> QED
    BY <1>1, <1>2, <2>1 DEF Fifo, ItemsOpen, ItemOpen
<1>5. Orphaned(st, t, {})
  BY <1>1, RetiresRefl, HoldsOrphaned
<1>6. Orphaned(st, st1, {} \cup B)
  <2>1. B = {b \in Bindings : t.b[b].slot \in {s}}
    BY <1>1
  <2>2. {s} \subseteq Slots
    OBVIOUS
  <2> HIDE DEF B
  <2> QED
    BY <1>4, <1>5, <2>1, <2>2, CancelSlotOutboundOrphaned
<1> HIDE DEF st1
<1>7. Orphaned(st, d, {} \cup B)
  BY <1>6, DetachActiveHolds, HoldsOrphaned DEF Orphaned
<1> HIDE DEF d
<1>8. Orphaned(st, st2, {} \cup B)
  BY <1>7, PublishTerminalHolds, HoldsOrphaned DEF Orphaned
<1> HIDE DEF st2
<1>9. Orphaned(st, p, {} \cup B)
  BY <1>8, PublishCloseHolds, HoldsOrphaned DEF Orphaned
<1> HIDE DEF p
<1>10. Orphaned(st, v, {} \cup B)
  BY <1>9, ObserveTerminalHolds, HoldsOrphaned DEF Orphaned
<1> HIDE DEF v
<1>11. Orphaned(st, f, {} \cup B)
  BY <1>10, ReleaseTerminalHolds, HoldsOrphaned DEF Orphaned
<1> HIDE DEF f
<1>12. {} \cup B \subseteq Bindings /\ \A b \in {} \cup B : ~f.b[b].active
  BY <1>3
<1> HIDE DEF B
<1>13. Retires(st, f)
  BY <1>11, <1>12, RetiresIf
<1> QED
  BY <1>3, <1>13

(* A failed materialization cancels no request.                            *)
LEMMA MaterializationFailedRetires ==
  ASSUME NEW st, Fifo(st), IsState(st), NEW b \in Bindings
  PROVE  Retires(st, MaterializationFailed(st, b))
<1> DEFINE c == ReleaseCharge(st, b)
           u == [c EXCEPT !.req[b] = NoRequest]
           v == Removed(u, {b})
<1>1. st.req \in [Bindings -> Requests] /\ st.waitQ \in Seq(Bindings)
  BY DEF Fifo, FifoType
<1>2. Same(st, c, {"use", "all"}) /\ Evolves(st, c)
  <2>1. Same(st, c, {"use", "all"})
    BY DEF ReleaseCharge, ChargeRequest, IsState, MFields, Same
  <2> QED
    BY <2>1, EvolvesRefl, ReleaseChargeEvolves
<1> HIDE DEF c
<1>3. /\ IsState(u)
      /\ u.waitQ = st.waitQ
      /\ u.req = [st.req EXCEPT ![b] = NoRequest]
  BY <1>2 DEF Same, MFields, Evolves, IsState
<1> HIDE DEF u
<1>4. u.req \in [Bindings -> Requests] /\ Orphans(u) \subseteq Orphans(st)
  BY <1>1, <1>3 DEF NoRequest, Requests, Phases, Orphans
<1>5. Orphaned(st, u, {})
  BY <1>1, <1>3, <1>4 DEF Orphaned
<1>6. PICK S : RemoveRequests(u, {b}) = SignalSlots(v, S)
  BY RemoveRequestsIs
<1>7. Holds(u, v)
  BY <1>3 DEF Holds, Removed, IsState, MFields
<1> HIDE DEF v
<1>8. Holds(v, SignalSlots(v, S))
  BY <1>7, SignalSlotsHolds DEF Holds
<1>9. Orphaned(st, SignalSlots(v, S), {})
  BY <1>5, <1>7, <1>8, HoldsOrphaned
<1>10. Orphaned(st, Promote(SignalSlots(v, S)), {})
  BY <1>9, PromoteOrphaned
<1>11. Retires(st, Promote(SignalSlots(v, S)))
  BY <1>10, RetiresIf
<1> QED
  BY <1>6, <1>11 DEF MaterializationFailed, v, u, c

(* An eviction retires the binding whose request it cancels.               *)
LEMMA EvictRetires ==
  ASSUME NEW st, Fifo(st), IsState(st), NEW b \in Bindings
  PROVE  Retires(st, Evict(st, b))
<1> DEFINE d == DetachActive(st, {b})
           c == ClearQueue(d, {b})
           r == DropResult(c, {b})
           i == InvalidateReady(r, {b})
           n == CancelRequest(i, {b})
           p == PublishTerminal(n, {b}, "pressure")
           f == ReleaseTerminal(p, {b})
<1>1. Holds(st, d) /\ Evolves(d, d) /\ ~d.b[b].active
  <2>1. d.b[b] = [st.b[b] EXCEPT !.active = FALSE]
    BY DetachActiveLaw
  <2>2. ~d.b[b].active
    BY <2>1 DEF IsState, IsLife, LifeFields
  <2> QED
    BY <2>2, DetachActiveHolds, EvolvesRefl DEF Holds
<1>2. Orphaned(st, d, {})
  BY <1>1, RetiresRefl, HoldsOrphaned
<1> HIDE DEF d
<1>3. Orphaned(st, c, {}) /\ Evolves(d, c)
  BY <1>1, <1>2, ClearQueueHolds, HoldsOrphaned, ClearQueueEvolves DEF Orphaned
<1> HIDE DEF c
<1>4. Orphaned(st, r, {}) /\ Evolves(d, r)
  BY <1>3, ClearQueueHolds, HoldsOrphaned, DropResultEvolves DEF Orphaned
<1> HIDE DEF r
<1>5. Orphaned(st, i, {}) /\ Evolves(d, i)
  BY <1>4, InvalidateReadyHolds, HoldsOrphaned, InvalidateReadyEvolves
     DEF Orphaned
<1> HIDE DEF i
<1>6. Orphaned(st, n, {} \cup {b}) /\ Evolves(d, n)
  BY <1>5, CancelRequestOrphaned, CancelRequestEvolves
<1> HIDE DEF n
<1>7. Orphaned(st, p, {} \cup {b}) /\ Evolves(d, p)
  BY <1>6, PublishTerminalHolds, HoldsOrphaned, PublishTerminalEvolves
     DEF Orphaned
<1> HIDE DEF p
<1>8. Orphaned(st, f, {} \cup {b}) /\ Evolves(d, f)
  BY <1>7, ReleaseTerminalHolds, HoldsOrphaned, ReleaseTerminalEvolves
     DEF Orphaned
<1> HIDE DEF f
<1>9. ~f.b[b].active
  BY <1>1, <1>8 DEF Evolves, LivesKept, Kept
<1>10. Retires(st, f)
  BY <1>8, <1>9, RetiresIf
<1>11. f = Evict(st, b)
  BY DEF Evict, f, p, n, i, r, c, d
<1> QED
  BY <1>10, <1>11

(* enqueueEventLocked cancels no request.                                  *)
LEMMA EnqueueEventHolds ==
  ASSUME NEW st, IsState(st), NEW b, NEW e
  PROVE  Holds(st, EnqueueEvent(st, b, e))
<1> DEFINE s == SlotOf(st, b)
           t == [st EXCEPT !.queue[b] = Append(@, e),
                   !.use[s].respItems = @ + 1,
                   !.use[s].respBytes = @ + e.size,
                   !.all.respItems = @ + 1,
                   !.all.respBytes = @ + e.size]
<1> HIDE DEF s
<1>1. Holds(st, t)
  BY DEF Holds, IsState, MFields
<1> HIDE DEF t
<1>2. Holds(t, SignalBinding(t, {b}))
  BY <1>1, SignalBindingHolds DEF Holds
<1> QED
  BY <1>1, <1>2 DEF Holds, EnqueueEvent, t, s

(* The requests stay what they were.                                       *)
LEMMA HoldsRetires ==
  ASSUME NEW o, NEW st, Retires(o, st), NEW t, Holds(st, t), Evolves(st, t)
  PROVE  Retires(o, t)
<1>1. \A b \in Bindings : ~st.b[b].active => ~t.b[b].active
  BY DEF Evolves, LivesKept, Kept
<1>2. Orphaned(o, t, {b \in Bindings : ~st.b[b].active})
  BY HoldsOrphaned DEF Retires
<1> QED
  BY <1>1, <1>2 DEF Retires, Orphaned

(* The backpressure branch of routeEvent.                                  *)
LEMMA OverflowRetires ==
  ASSUME NEW st, NEW Q, Sound(st, st, {}, {}, Q),
         NEW b \in Bindings, b < st.nextID, b \notin Q, NEW e,
         \A c \in Residents(st) : c < st.nextID
  PROVE  Retires(st, Overflow(st, b, e))
<1> DEFINE v  == Victim(st, b, e.size)
           s  == SlotOf(st, v)
           t  == Evict(st, v)
           st1 == QueueControl(t, s, "reap", v)
<1>1. v \in Bindings /\ v < st.nextID
  BY VictimIsBorn DEF Residents
<1> HIDE DEF v
<1>2. s \in Slots
  BY <1>1 DEF Sound, Fifo, Unborn, SlotOf
<1> HIDE DEF s
<1>3. Sound(st, t, {}, {}, Q) /\ ~t.b[v].active /\ Retires(st, t)
  <2>1. Fifo(st) /\ IsState(st)
    BY DEF Sound, Evolves
  <2> QED
    BY <1>1, <2>1, EvictSound, EvictRetires
<1> HIDE DEF t
<1>4. t.nextID = st.nextID /\ IsState(t)
  BY <1>3 DEF Sound, Evolves
<1>5. Sound(st, st1, {}, {}, Q)
  BY <1>1, <1>2, <1>3, <1>4, QueueControlSound
<1>6. Retires(st, st1)
  <2>1. Evolves(t, st1) /\ Holds(t, st1)
    BY <1>4, EvolvesRefl, QueueControlEvolves, QueueControlHolds
  <2> QED
    BY <1>3, <2>1, HoldsRetires
<1> HIDE DEF st1
<1>7. IsState(st1) /\ Fifo(st1)
  BY <1>5 DEF Sound, Evolves
<1>8. Retires(st, Evict(st1, b))
  <2>1. Retires(st1, Evict(st1, b)) /\ Evolves(st1, Evict(st1, b))
    BY <1>7, EvictRetires, EvolvesRefl, EvictEvolves
  <2> QED
    BY <1>6, <2>1, RetiresTrans
<1>9. Retires(st, EnqueueEvent(st1, b, e))
  <2>1. /\ Holds(st1, EnqueueEvent(st1, b, e))
        /\ Evolves(st1, EnqueueEvent(st1, b, e))
    BY <1>7, EnqueueEventHolds, EvolvesRefl, EnqueueEventEvolves
  <2> QED
    BY <1>6, <2>1, HoldsRetires
<1> QED
  BY <1>6, <1>8, <1>9 DEF Overflow, st1, t, s, v

(* The peer's close cancels no request.                                    *)
LEMMA RemoteCloseHolds ==
  ASSUME NEW st, IsState(st), NEW b
  PROVE  Holds(st, RemoteClose(st, b))
<1> DEFINE t == [st EXCEPT !.b[b].remoteClosed = TRUE]
           d == DetachActive(t, {b})
<1>1. Holds(st, t)
  <2>1. Evolves(st, t)
    BY EvolvesRefl, RemoteFlagEvolves
  <2>2. t.req = st.req /\ t.waitQ = st.waitQ
    BY DEF IsState, MFields
  <2> QED
    BY <2>1, <2>2 DEF Holds, Evolves
<1> HIDE DEF t
<1>2. Holds(t, d)
  BY <1>1, DetachActiveHolds DEF Holds
<1> HIDE DEF d
<1>3. Holds(d, PublishTerminal(d, {b}, "nil"))
  BY <1>2, PublishTerminalHolds DEF Holds
<1> QED
  BY <1>1, <1>2, <1>3 DEF Holds, RemoteClose, d, t

(* The peer's close of a connection that is closing locally.               *)
LEMMA CrossedCloseRetires ==
  ASSUME NEW st, Fifo(st), IsState(st), NEW b \in Bindings,
         st.b[b].closeStarted
  PROVE  Retires(st, CrossedClose(st, b))
<1> DEFINE t == [st EXCEPT !.b[b].remoteClosed = TRUE]
           c == CancelRequest(t, {b})
           d == CancelBindingControls(c, b)
           f == FinishClose(d, b, "nil")
<1>1. Evolves(st, t) /\ Holds(st, t)
  <2>1. Evolves(st, t)
    BY EvolvesRefl, RemoteFlagEvolves
  <2>2. t.req = st.req /\ t.waitQ = st.waitQ
    BY DEF IsState, MFields
  <2> QED
    BY <2>1, <2>2 DEF Holds, Evolves
<1>2. Orphaned(st, t, {})
  BY <1>1, RetiresRefl, HoldsOrphaned
<1> HIDE DEF t
<1>3. Orphaned(st, c, {} \cup {b}) /\ Evolves(st, c)
  BY <1>1, <1>2, CancelRequestOrphaned, CancelRequestEvolves
<1> HIDE DEF c
<1>4. Orphaned(st, d, {} \cup {b}) /\ Evolves(st, d)
  <2>1. Holds(c, d)
    BY <1>3, CancelControlsHolds DEF CancelBindingControls, Orphaned
  <2> QED
    BY <1>3, <2>1, HoldsOrphaned, CancelBindingControlsEvolves
<1> HIDE DEF d
<1>5. Orphaned(st, f, {} \cup {b}) /\ Evolves(st, f)
  BY <1>4, FinishCloseHolds, HoldsOrphaned, FinishCloseEvolves DEF Orphaned
<1> HIDE DEF f
<1>6. ~f.b[b].active
  <2>1. ~st.b[b].active
    BY DEF Fifo, LifeOK
  <2> QED
    BY <1>5, <2>1 DEF Evolves, LivesKept, Kept
<1>7. Retires(st, f)
  BY <1>5, <1>6, RetiresIf
<1> QED
  BY <1>7 DEF CrossedClose, f, d, c, t

(* routeEvent retires the bindings whose requests it cancels.              *)
LEMMA DeliverRetires ==
  ASSUME NEW st, NEW Q, Sound(st, st, {}, {}, Q),
         \A b \in Bindings : b \in Q <=> st.b[b].closeStarted,
         NEW b \in Bindings, b < st.nextID, NEW e,
         \A c \in Residents(st) : c < st.nextID
  PROVE  Retires(st, Deliver(st, b, e))
<1>1. Fifo(st) /\ IsState(st) /\ Retires(st, st) /\ Evolves(st, st)
  BY RetiresRefl DEF Sound, Evolves
<1>2. CASE st.b[b].terminal
  BY <1>1, <1>2 DEF Deliver
<1>3. CASE ~st.b[b].terminal /\ st.b[b].localClosing
  <2>1. st.b[b].closeStarted
    BY <1>3 DEF Sound, SameClosing
  <2>2. Retires(st, CrossedClose(st, b))
    BY <1>1, <2>1, CrossedCloseRetires
  <2> QED
    BY <1>1, <1>3, <2>2 DEF Deliver
<1>4. CASE ~st.b[b].terminal /\ ~st.b[b].localClosing
  <2>1. b \notin Q
    BY <1>4 DEF Sound, SameClosing
  <2>2. Retires(st, Overflow(st, b, e))
    BY <2>1, OverflowRetires
  <2> DEFINE t == EnqueueEvent(st, b, e)
             u == RemoteClose(t, b)
  <2>3. Retires(st, t) /\ IsState(t)
    <3>1. Holds(st, t) /\ Evolves(st, t)
      BY <1>1, EnqueueEventHolds, EnqueueEventEvolves
    <3> QED
      BY <1>1, <3>1, HoldsRetires DEF Holds
  <2> HIDE DEF t
  <2>4. Retires(st, u)
    <3>1. Holds(t, u) /\ Evolves(t, u)
      BY <2>3, RemoteCloseHolds, EvolvesRefl, RemoteCloseEvolves
    <3> QED
      BY <2>3, <3>1, HoldsRetires
  <2> QED
    BY <1>4, <2>2, <2>3, <2>4 DEF Deliver, t, u
<1> QED
  BY <1>2, <1>3, <1>4

(* finishRequestAttemptLocked cancels no request.                          *)
LEMMA FinishRequestRetires ==
  ASSUME NEW o, NEW st, Orphaned(o, st, {}), NEW s, NEW b \in Bindings,
         NEW outcome
  PROVE  Retires(o, FinishRequest(st, s, b, outcome))
<1> DEFINE r    == st.req[b]
           pop  == PopOut(st, s)
           c    == ReleaseCharge(pop, b)
           done == [c EXCEPT !.req[b] = NoRequest]
           live == ~r.canceled /\ st.state = "ready" /\ ~st.b[b].localClosing
                     /\ ~st.b[b].terminal
           res(v) == [done EXCEPT !.result[b] = v]
           rejected == IF st.b[b].localClosing THEN done ELSE res("rejected")
           acc  == SignalBinding(res("accepted"), {b})
           det  == DetachActive(rejected, {b})
           ter  == PublishTerminal(det, {b}, "rejected")
           after == IF outcome = "ok" THEN IF live THEN acc ELSE done
                    ELSE IF outcome = "toolarge" /\ ~r.canceled THEN ter
                    ELSE done
           back == [st EXCEPT !.req[b].phase = "materialized"]
           f    == SignalSlots(Promote(after), {s})
<1>1. FinishRequest(st, s, b, outcome)
        = IF outcome = "full" /\ ~r.canceled /\ st.state = "ready" THEN back ELSE f
  BY DEF FinishRequest
<1>2. /\ IsState(st) /\ st.req \in [Bindings -> Requests]
      /\ st.waitQ \in Seq(Bindings) /\ Orphans(st) \subseteq Orphans(o)
  BY DEF Orphaned
<1>3. Retires(o, back)
  <2>1. /\ IsState(back) /\ back.waitQ = st.waitQ
        /\ back.req = [st.req EXCEPT ![b].phase = "materialized"]
    BY <1>2 DEF IsState, MFields
  <2> HIDE DEF back
  <2>2. /\ back.req \in [Bindings -> Requests]
        /\ Orphans(back) \subseteq Orphans(st)
    BY <1>2, <2>1 DEF Requests, Phases, Orphans
  <2> QED
    BY <1>2, <2>1, <2>2 DEF Retires, Orphaned
<1> HIDE DEF back, live, r
<1>4. Holds(st, pop)
  BY <1>2 DEF Holds, PopOut, IsState, MFields
<1> HIDE DEF pop
<1>5. Holds(pop, c)
  BY <1>4 DEF Holds, ReleaseCharge, ChargeRequest, IsState, MFields
<1> HIDE DEF c
<1>6. Orphaned(o, done, {})
  <2>1. /\ IsState(done) /\ done.waitQ = st.waitQ
        /\ done.req = [st.req EXCEPT ![b] = NoRequest]
    BY <1>4, <1>5 DEF Holds, IsState, MFields
  <2> HIDE DEF done
  <2>2. /\ done.req \in [Bindings -> Requests]
        /\ Orphans(done) \subseteq Orphans(st)
    BY <1>2, <2>1 DEF NoRequest, Requests, Phases, Orphans
  <2> QED
    BY <1>2, <2>1, <2>2 DEF Orphaned
<1> HIDE DEF done
<1>7. ASSUME NEW v PROVE Orphaned(o, res(v), {})
  <2>1. Holds(done, res(v))
    BY <1>6 DEF Orphaned, Holds, IsState, MFields
  <2> HIDE DEF res
  <2> QED
    BY <1>6, <2>1, HoldsOrphaned
<1> HIDE DEF res
<1>8. Orphaned(o, acc, {})
  <2>1. Orphaned(o, res("accepted"), {})
    BY <1>7
  <2> QED
    BY <2>1, SignalBindingHolds, HoldsOrphaned DEF Orphaned
<1>9. Orphaned(o, rejected, {})
  <2>1. Orphaned(o, res("rejected"), {})
    BY <1>7
  <2> QED
    BY <1>6, <2>1
<1> HIDE DEF acc, rejected
<1>10. Orphaned(o, det, {})
  BY <1>9, DetachActiveHolds, HoldsOrphaned DEF Orphaned
<1> HIDE DEF det
<1>11. Orphaned(o, ter, {})
  BY <1>10, PublishTerminalHolds, HoldsOrphaned DEF Orphaned
<1> HIDE DEF ter
<1>12. Orphaned(o, after, {})
  BY <1>6, <1>8, <1>11
<1> HIDE DEF after
<1>13. Orphaned(o, Promote(after), {})
  BY <1>12, PromoteOrphaned
<1>14. Orphaned(o, f, {})
  BY <1>13, SignalSlotsHolds, HoldsOrphaned DEF Orphaned
<1>15. Retires(o, f)
  BY <1>14, RetiresIf
<1> HIDE DEF f
<1> QED
  BY <1>1, <1>3, <1>15

(* finishControlAttemptLocked cancels no request.                          *)
LEMMA FinishControlRetires ==
  ASSUME NEW o, NEW st, Orphaned(o, st, {}), NEW s, NEW i, NEW outcome
  PROVE  Retires(o, FinishControl(st, s, i, outcome))
<1> DEFINE pop  == PopOut(st, s)
           done == AddControl(pop, s, -1)
           e    == done.b[i.b].err
           fin  == FinishClose(done, i.b, e)
           sub  == [done EXCEPT !.s[s].probe.submitted = TRUE]
           after == IF outcome # "ok" \/ i.canceled THEN done
                    ELSE IF i.kind = "close" THEN fin
                    ELSE IF i.kind = "probe" THEN sub ELSE done
           f    == SignalSlots(after, {s})
<1>1. FinishControl(st, s, i, outcome)
        = IF outcome = "full" /\ ~i.canceled /\ st.state = "ready" THEN st ELSE f
  BY DEF FinishControl
<1>2. IsState(st)
  BY DEF Orphaned
<1>3. Holds(st, pop)
  BY <1>2 DEF Holds, PopOut, IsState, MFields
<1> HIDE DEF pop
<1>4. Holds(pop, done)
  BY <1>3 DEF Holds, AddControl, IsState, MFields
<1> HIDE DEF done, e
<1>5. Orphaned(o, done, {})
  BY <1>3, <1>4, HoldsOrphaned
<1>6. Orphaned(o, fin, {})
  <2> DEFINE b == i.b
  <2> HIDE DEF b
  <2>1. Holds(done, FinishClose(done, b, e))
    BY <1>5, FinishCloseHolds DEF Orphaned
  <2> QED
    BY <1>5, <2>1, HoldsOrphaned DEF b
<1>7. Orphaned(o, sub, {})
  <2>1. Holds(done, sub)
    BY <1>5 DEF Orphaned, Holds, IsState, MFields
  <2> HIDE DEF sub
  <2> QED
    BY <1>5, <2>1, HoldsOrphaned
<1> HIDE DEF fin, sub
<1>8. Orphaned(o, after, {})
  BY <1>5, <1>6, <1>7
<1> HIDE DEF after
<1>9. Orphaned(o, f, {})
  BY <1>8, SignalSlotsHolds, HoldsOrphaned DEF Orphaned
<1>10. Retires(o, f) /\ Retires(o, st)
  BY <1>9, RetiresIf
<1> HIDE DEF f
<1> QED
  BY <1>1, <1>10

(* Reasons that are reported after all.                                    *)
LEMMA SoundDrop ==
  ASSUME NEW o, NEW st, NEW X, NEW Y, NEW Q, Sound(o, st, X, Y, Q),
         NEW B, \A b \in B \cap Bindings : ~HasReadyReason(st, b)
                             \/ IsQueued(st, b) \/ st.leased[b]
  PROVE  Sound(o, st, X \ B, Y, Q)
<1>1. Heard(st, X \ B, Y, Q)
  BY DEF Sound, Heard
<1> QED
  BY <1>1 DEF Sound

(* The local close of b begins: b accepts nothing any more.                *)
StartClose(st, b) ==
  DetachActive([st EXCEPT !.b[b].closeStarted = TRUE,
                          !.b[b].localClosing = TRUE], {b})

(* The first half of beginClose: b is quiet from here on.                  *)
LEMMA StartCloseSound ==
  ASSUME NEW o, NEW st, NEW Q, Sound(o, st, {}, {}, Q), NEW b \in Bindings
  PROVE  LET d == StartClose(st, b) IN
         /\ Sound(d, d, {}, {}, Q) /\ Evolves(st, d)
         /\ Same(st, d, {"b"})
         /\ ~d.b[b].active /\ d.b[b].closeStarted
         /\ d.b[b].terminal = st.b[b].terminal
         /\ \A c \in Bindings \ {b} : d.b[c] = st.b[c]
<1> DEFINE t == [st EXCEPT !.b[b].closeStarted = TRUE,
                           !.b[b].localClosing = TRUE]
           d == DetachActive(t, {b})
<1>1. Evolves(st, t) /\ IsState(st) /\ IsState(t) /\ Evolves(st, st)
  <2>1. IsState(st)
    BY DEF Sound, Evolves
  <2>2. Evolves(st, t) /\ Evolves(st, st)
    BY <2>1, EvolvesRefl, StartCloseEvolves
  <2> QED
    BY <2>1, <2>2 DEF Evolves
<1>2. /\ Same(st, t, {"b"})
      /\ \A c \in Bindings : t.b[c] = IF c = b
              THEN [st.b[c] EXCEPT !.closeStarted = TRUE, !.localClosing = TRUE]
              ELSE st.b[c]
  BY <1>1 DEF IsState, MFields, Same
<1>3. d = StartClose(st, b)
  BY DEF StartClose
<1> HIDE DEF t
<1>4. /\ Same(t, d, {"b"}) /\ Evolves(st, d)
      /\ \A c \in Bindings : d.b[c] =
            IF c \in {b} THEN [t.b[c] EXCEPT !.active = FALSE] ELSE t.b[c]
  BY <1>1, DetachActiveLaw, DetachActiveEvolves
<1> HIDE DEF d
<1>5. Same(st, d, {"b"})
  BY <1>2, <1>4 DEF Same
<1>6. \A c \in Bindings \ {b} : d.b[c] = st.b[c]
  BY <1>2, <1>4
<1>7. /\ d.b[b].active = FALSE /\ d.b[b].closeStarted = TRUE
      /\ d.b[b].localClosing = TRUE
      /\ d.b[b].terminal = st.b[b].terminal
      /\ d.b[b].observed = st.b[b].observed /\ d.b[b].mode = st.b[b].mode
  <2>1. /\ t.b[b] = [st.b[b] EXCEPT !.closeStarted = TRUE, !.localClosing = TRUE]
        /\ d.b[b] = [t.b[b] EXCEPT !.active = FALSE]
    BY <1>2, <1>4
  <2>2. DOMAIN st.b[b] = LifeFields /\ DOMAIN t.b[b] = LifeFields
    BY <1>1 DEF IsState, IsLife
  <2> QED
    BY <2>1, <2>2 DEF LifeFields
<1>8. /\ d.s = st.s /\ d.req = st.req /\ d.waitQ = st.waitQ
      /\ d.queue = st.queue /\ d.result = st.result /\ d.leased = st.leased
      /\ d.notify = st.notify /\ d.readyQ = st.readyQ
      /\ d.readySig = st.readySig /\ d.state = st.state
  BY <1>5 DEF Same, MFields
<1>9. Fifo(d) /\ Inherits(st, d)
  <2>1. \A c \in Bindings : /\ d.b[c].active => st.b[c].active
                            /\ LifeOK(d.b[c])
    BY <1>6, <1>7 DEF Sound, Fifo, LifeOK
  <2>2. Sound(st, st, {}, {}, Q)
    BY SoundRefl
  <2> QED
    BY <1>4, <1>8, <2>1, <2>2, FifoCong
<1>10. \A c \in Bindings : HasReadyReason(d, c) => HasReadyReason(st, c)
  BY <1>6, <1>7, <1>8 DEF HasReadyReason
<1>11. \A c \in Bindings : d.b[c].terminal = st.b[c].terminal
  BY <1>6, <1>7
<1>12. Heard(d, {}, {}, Q)
  BY <1>8, <1>10, <1>11 DEF Sound, Heard, IsQueued, Quietened
<1>13. SameClosing(d, d)
  BY <1>6, <1>7 DEF Sound, SameClosing
<1>14. Evolves(d, d)
  BY <1>4, EvolvesRefl DEF Evolves
<1>15. Inherits(d, d)
  BY DEF Inherits, Carries, IsRequest
<1> QED
  BY <1>3, <1>4, <1>5, <1>6, <1>7, <1>9, <1>12, <1>13, <1>14, <1>15 DEF Sound

(* The bindings with a local close.                                        *)
Closers(st) == {b \in Bindings : st.b[b].closeStarted}

(* The guarantees between two critical sections.                           *)
Settled(st) == Sound(st, st, {}, {}, Closers(st))

(* beginClose.                                                             *)
LEMMA BeginCloseSound ==
  ASSUME Settled(m), NEW b \in Bindings, BeginClose(b)
  PROVE  /\ Settled(m') /\ Retires(m, m') /\ Evolves(m, m')
         /\ Inherits(m, m')
<1> DEFINE Q   == Closers(m)
           s   == SlotOf(m, b)
           d   == StartClose(m, b)
           c   == ClearQueue(d, {b})
           r   == DropResult(c, {b})
           i   == InvalidateReady(r, {b})
           st2 == IF m.req[b].owned /\ m.req[b].phase \in {"waiting", "reserved"}
                  THEN CancelRequest(i, {b}) ELSE i
           err == WorkError(st2, b)
<1>1. /\ b < m.nextID
      /\ \/ m' = FinishClose(st2, b, "nil")
         \/ m' = FinishClose(st2, b, err)
         \/ ~m.b[b].terminal /\ m' = QueueControl(st2, s, "close", b)
  BY DEF BeginClose, Allocated, StartClose
<1>2. /\ Sound(m, m, {}, {}, Q) /\ IsState(m) /\ Fifo(m)
      /\ m.req \in [Bindings -> Requests] /\ RequestOK(m.req[b])
      /\ s \in Slots
  BY <1>1 DEF Settled, Sound, Evolves, Fifo, FifoType, Unborn, SlotOf
<1>3. /\ Sound(d, d, {}, {}, Q) /\ Evolves(m, d)
      /\ Same(m, d, {"b"})
      /\ ~d.b[b].active /\ d.b[b].closeStarted
      /\ d.b[b].terminal = m.b[b].terminal
      /\ \A x \in Bindings \ {b} : d.b[x] = m.b[x]
  BY <1>2, StartCloseSound
<1> HIDE DEF d, Q, err, s
<1>4. /\ Sound(d, c, {}, {}, Q) /\ c.b = d.b /\ c.req = d.req
      /\ c.queue[b] = <<>> /\ Holds(d, c)
  <2>1. IsState(d)
    BY <1>3 DEF Evolves
  <2>2. /\ Same(d, c, {"queue", "use", "all"})
        /\ c.queue = [x \in Bindings |-> IF x \in {b} THEN <<>> ELSE d.queue[x]]
    BY <2>1, ClearQueueLaw
  <2>3. Sound(d, c, {}, {}, Q) /\ Holds(d, c)
    BY <1>3, <2>1, ClearQueueSound, ClearQueueHolds
  <2> HIDE DEF c
  <2> QED
    BY <2>2, <2>3 DEF Same, MFields
<1> HIDE DEF c
<1>5. /\ Sound(d, r, {}, {}, Q) /\ r.b = d.b /\ r.req = d.req
      /\ r.queue[b] = <<>> /\ r.result[b] = "none" /\ Holds(c, r)
  <2>1. IsState(c)
    BY <1>4 DEF Sound, Evolves
  <2>2. /\ Same(c, r, {"result"})
        /\ r.result = [x \in Bindings |-> IF x \in {b} THEN "none" ELSE c.result[x]]
    BY <2>1, DropResultLaw
  <2>3. Sound(d, r, {}, {}, Q) /\ Holds(c, r)
    BY <1>4, <2>1, DropResultSound, ClearQueueHolds
  <2> HIDE DEF r
  <2> QED
    BY <1>4, <2>2, <2>3 DEF Same, MFields
<1> HIDE DEF r
<1>6. /\ Sound(d, i, {} \cup {b}, {}, Q) /\ i.b = d.b /\ i.req = d.req
      /\ i.queue[b] = <<>> /\ i.result[b] = "none" /\ Holds(r, i)
  <2>1. IsState(r) /\ r.readyQ \in Seq(Bindings)
    BY <1>5 DEF Sound, Evolves, Heard
  <2>2. Same(r, UnlinkReady(r, {b}), {"readyQ", "readySig"})
    BY <2>1, UnlinkReadyLaw
  <2>3. i.b = r.b /\ i.queue = r.queue /\ i.result = r.result /\ i.req = r.req
    BY <2>2 DEF InvalidateReady, Same, MFields
  <2>4. Sound(d, i, {} \cup {b}, {}, Q) /\ Holds(r, i)
    BY <1>5, <2>1, InvalidateReadySound, InvalidateReadyHolds
  <2> QED
    BY <1>5, <2>3, <2>4
<1> HIDE DEF i
<1>7. Orphaned(m, i, {}) /\ d.req = m.req
  <2>1. Holds(m, d)
    BY <1>3 DEF Holds, Evolves, Same, MFields
  <2>2. Orphaned(m, d, {})
    BY <1>2, <2>1, RetiresRefl, HoldsOrphaned
  <2> QED
    BY <1>4, <1>5, <1>6, <2>1, <2>2, HoldsOrphaned DEF Holds
<1>8. /\ Sound(d, st2, {} \cup {b}, {}, Q) /\ st2.b = d.b
      /\ Quietened(st2, b) /\ Orphaned(m, st2, {})
  <2>1. CASE m.req[b].owned /\ m.req[b].phase \in {"waiting", "reserved"}
    <3>1. st2 = CancelRequest(i, {b})
      BY <2>1
    <3> HIDE DEF st2
    <3>2. /\ Sound(d, st2, {} \cup {b}, {}, Q) /\ Same(i, st2, CancelFields)
          /\ ~st2.req[b].owned
      BY <1>6, <3>1, CancelRequestSound
    <3>3. st2.b = i.b /\ st2.queue = i.queue /\ st2.result = i.result
      BY <3>2 DEF Same, CancelFields, PromoteFields, MFields
    <3>4. Orphaned(m, st2, {} \cup {})
      <4>1. {b} \subseteq Bindings /\ \A x \in {b} :
              i.req[x].phase \in {"materializing", "attempting"} => x \in {}
        BY <1>6, <1>7, <2>1
      <4> QED
        BY <1>7, <3>1, <4>1, CancelRequestOrphaned
    <3>5. {} \cup {} = {}
      OBVIOUS
    <3>6. Orphaned(m, st2, {})
      BY <3>4, <3>5
    <3> QED
      BY <1>6, <3>2, <3>3, <3>6 DEF Quietened
  <2>2. CASE ~(m.req[b].owned /\ m.req[b].phase \in {"waiting", "reserved"})
    <3>1. m.req[b].owned => m.req[b].phase \in InFlight
      BY <1>2, <2>2 DEF RequestOK, Requests, Phases, InFlight
    <3> QED
      BY <1>6, <1>7, <2>2, <3>1 DEF Quietened
  <2> QED
    BY <2>1, <2>2
<1> HIDE DEF st2
<1> DEFINE K == Q \cup {b}
<1>9. Sound(d, st2, {} \cup {b}, {}, K) /\ b \in K
  BY <1>8, SoundQuiet
<1> HIDE DEF K
<1>10. ASSUME NEW e
      PROVE  /\ Sound(d, FinishClose(st2, b, e), {}, {}, K)
             /\ Holds(st2, FinishClose(st2, b, e))
  <2>1. Sound(d, FinishClose(st2, b, e), ({} \cup {b}) \ {b}, {} \ {b}, K)
    BY <1>3, <1>8, <1>9, FinishCloseSound
  <2>2. ({} \cup {b}) \ {b} = {} /\ {} \ {b} = {}
    OBVIOUS
  <2>3. Holds(st2, FinishClose(st2, b, e))
    BY <1>8, FinishCloseHolds DEF Orphaned
  <2> QED
    BY <2>1, <2>2, <2>3
<1>11. ASSUME ~m.b[b].terminal
       PROVE  /\ Sound(d, QueueControl(st2, s, "close", b), {}, {}, K)
              /\ Holds(st2, QueueControl(st2, s, "close", b))
  <2>1. ~HasReadyReason(st2, b)
    BY <1>3, <1>8, <1>11 DEF HasReadyReason, Quietened, InFlight
  <2>2. Sound(d, st2, ({} \cup {b}) \ {b}, {}, K)
    BY <1>9, <2>1, SoundDrop
  <2>3. ({} \cup {b}) \ {b} = {}
    OBVIOUS
  <2>4. Sound(d, st2, {}, {}, K)
    BY <2>2, <2>3
  <2>5. b < st2.nextID /\ ~st2.b[b].active /\ st2.b[b].closeStarted
    BY <1>1, <1>3, <1>8 DEF Sound, Evolves
  <2>6. Sound(d, QueueControl(st2, s, "close", b), {}, {}, K)
    BY <1>2, <2>4, <2>5, QueueControlSound
  <2>7. Holds(st2, QueueControl(st2, s, "close", b))
    BY <1>8, QueueControlHolds DEF Orphaned
  <2> QED
    BY <2>6, <2>7
<1>12. Sound(d, m', {}, {}, K) /\ Holds(st2, m')
  BY <1>1, <1>10, <1>11
<1>13. Settled(m')
  <2>1. Sound(m', m', {}, {}, K)
    BY <1>12, SoundRefl
  <2>2. Closers(m') \subseteq K
    <3>1. \A x \in Bindings : m'.b[x].closeStarted => d.b[x].closeStarted
      BY <1>12 DEF Sound, SameClosing
    <3> QED
      BY <1>3, <3>1 DEF Closers, K, Q
  <2>3. {} \subseteq {}
    OBVIOUS
  <2> QED
    BY <2>1, <2>2, <2>3, SoundMono DEF Settled
<1>14. Retires(m, m')
  BY <1>8, <1>12, HoldsOrphaned, RetiresIf
<1>15. Evolves(m, m')
  BY <1>3, <1>12, EvolvesTrans DEF Sound
<1>16. Inherits(m, m')
  <2>1. d.s = m.s /\ d.req = m.req /\ d.result = m.result /\ d.state = m.state
    BY <1>3 DEF Same, MFields
  <2> QED
    BY <1>12, <2>1 DEF Sound, Inherits, Carries, Out
<1> QED
  BY <1>13, <1>14, <1>15, <1>16

-----------------------------------------------------------------------------
(* A new request.                                                          *)

(* The request r of b joins the FIFO of its slot; w is the wait queue.     *)
Asked(st, t, b, r, w) ==
  /\ Same(st, t, {"s", "req", "waitQ", "use", "all"})
  /\ t.s = [st.s EXCEPT ![SlotOf(st, b)].out = Append(@, Item("req", b, 0))]
  /\ t.req = [st.req EXCEPT ![b] = r]
  /\ t.waitQ = w

(* The wait queue of a new request.                                        *)
Enrolled(st, b, r, w) ==
  \/ r.phase = "waiting" /\ w = Append(st.waitQ, b)
  \/ r.phase = "materializing" /\ w = st.waitQ

(* Carries, except for b.                                                  *)
CarriesBut(o, st, b) ==
  /\ \A c \in Bindings :
       /\ c # b => (st.req[c].phase # "none" => o.req[c].phase # "none")
       /\ st.result[c] = "accepted" => o.result[c] = "accepted"
  /\ \A s \in Slots : \A i \in 1..Len(Out(st, s)) :
       Out(st, s)[i].kind = "req" /\ Out(st, s)[i].b # b =>
         \E j \in 1..Len(Out(o, s)) : IsRequest(Out(o, s)[j],
                                               Out(st, s)[i].b)

(* A new request is queued behind the work of its slot.                    *)
LEMMA AskedFifo ==
  ASSUME NEW st, Fifo(st), IsState(st), NEW b \in Bindings, b < st.nextID,
         st.b[b].active, st.req[b].phase = "none",
         NEW r \in Requests, r.owned, ~r.canceled,
         NEW w, Enrolled(st, b, r, w), NEW t, Asked(st, t, b, r, w)
  PROVE  Fifo(t) /\ CarriesBut(st, t, b)
<1> DEFINE s    == SlotOf(st, b)
           item == Item("req", b, 0)
           q    == Out(st, s)
<1>1. /\ t.b = st.b /\ t.state = st.state /\ t.result = st.result
      /\ t.queue = st.queue /\ t.nextID = st.nextID
  BY DEF Asked, Same, MFields
<1>2. /\ s \in Slots /\ q \in Seq(OutItems)
      /\ st.req \in [Bindings -> Requests] /\ st.waitQ \in Seq(Bindings)
  BY DEF Fifo, FifoType, Unborn, SlotOf
<1>3. /\ t.req \in [Bindings -> Requests] /\ t.req[b] = r
      /\ \A c \in Bindings \ {b} : t.req[c] = st.req[c]
  BY <1>2 DEF Asked
<1>4. /\ item \in OutItems /\ item.kind = "req" /\ item.b = b
  BY DEF Item, OutItems
<1>5. /\ DOMAIN t.s = Slots
      /\ \A z \in Slots : /\ DOMAIN t.s[z] = SlotFields
                          /\ t.s[z].attempting = st.s[z].attempting
                          /\ z # s => Out(t, z) = Out(st, z)
      /\ Out(t, s) = Append(q, item)
  <2> HIDE DEF item
  <2>1. t.s = [st.s EXCEPT ![s].out = Append(@, item)]
    BY DEF Asked, item
  <2>2. DOMAIN st.s = Slots /\ \A z \in Slots : DOMAIN st.s[z] = SlotFields
    BY DEF Fifo, FifoType
  <2> QED
    BY <1>2, <2>1, <2>2 DEF SlotFields, Out
<1> DEFINE p == Append(q, item)
           n == Len(q)
<1> HIDE DEF item
<1>6. /\ p \in Seq(OutItems) /\ n \in Nat /\ Len(p) = n + 1
      /\ p[n + 1] = item /\ \A i \in 1..n : p[i] = q[i]
  BY <1>2, <1>4
<1>7. 1..(n + 1) = (1..n) \cup {n + 1}
  BY <1>6
<1>8. q # <<>> => p # <<>> /\ p[1] = q[1]
  <2>1. q # <<>> => 1 \in 1..n
    BY <1>2
  <2>2. p # <<>>
    BY <1>6
  <2> QED
    BY <1>6, <2>1, <2>2
<1>9. st.waitQ \in Seq(Bindings) /\ w \in Seq(Bindings)
  <2>1. \A v \in Seq(Bindings) : Append(v, b) \in Seq(Bindings)
    OBVIOUS
  <2> QED
    BY <1>2, <2>1 DEF Enrolled
<1> HIDE DEF p, q, n
<1>10. FifoType(t)
  <2>1. \A z \in Slots : Out(t, z) \in Seq(OutItems)
    BY <1>5, <1>6 DEF Fifo, FifoType, p
  <2>2. \A z \in Slots : t.s[z].attempting \in BOOLEAN
    BY <1>5 DEF Fifo, FifoType
  <2>3. t.waitQ \in Seq(Bindings)
    BY <1>9 DEF Asked
  <2> QED
    BY <1>3, <1>5, <2>1, <2>2, <2>3 DEF FifoType
<1>11. \A i : \A z \in Slots : ItemOpen(st, z, i) =>
          ItemOpen(t, z, i) /\ ~IsRequest(i, b) /\ ~IsClose(i, b)
  BY <1>1, <1>3 DEF ItemOpen, IsRequest, IsClose
<1>12. ItemOpen(t, s, item)
  BY <1>1, <1>3, <1>4 DEF ItemOpen, Enrolled, SlotOf
<1>13. ASSUME NEW i \in 1..Len(p)
       PROVE  /\ ItemOpen(t, s, p[i])
              /\ p[i].kind = "req" =>
                   \A j \in 1..Len(p) :
                     /\ IsRequest(p[j], p[i].b) => j = i
                     /\ IsClose(p[j], p[i].b) => i < j
              /\ p[i].kind = "req" /\ p[i].b # b => i \in 1..n
  <2>1. \A j \in 1..n : ItemOpen(st, s, q[j])
    BY <1>2 DEF Fifo, ItemsOpen, q, n
  <2>2. \A j \in 1..n : ~IsRequest(p[j], b) /\ ~IsClose(p[j], b)
    BY <1>2, <1>6, <1>11, <2>1
  <2>3. CASE i = n + 1
    <3>1. \A j \in 1..Len(p) : IsRequest(p[j], b) \/ IsClose(p[j], b) => j = n + 1
      BY <1>6, <1>7, <2>2
    <3>2. ~IsClose(p[n + 1], b)
      BY <1>4, <1>6 DEF IsClose
    <3> QED
      BY <1>4, <1>6, <1>12, <2>3, <3>1, <3>2
  <2>4. CASE i \in 1..n
    <3>1. /\ ItemOpen(st, s, q[i])
          /\ q[i].kind = "req" => \A j \in 1..n :
                /\ IsRequest(q[j], q[i].b) => j = i
                /\ IsClose(q[j], q[i].b) => i < j
      BY <1>2, <2>4 DEF Fifo, ItemsOpen, q, n
    <3>2. i < n + 1
      BY <1>6, <2>4
    <3>3. ~(p[i].kind = "req" /\ IsRequest(p[n + 1], p[i].b))
      BY <1>4, <1>6, <2>2, <2>4 DEF IsRequest
    <3> QED
      BY <1>2, <1>6, <1>7, <1>11, <2>4, <3>1, <3>2, <3>3
  <2> QED
    BY <1>6, <1>7, <2>3, <2>4
<1>14. Out(t, s) = p
  BY <1>5 DEF p
<1>15. ItemsOpen(t)
  <2>1. ASSUME NEW z \in Slots, z # s, NEW i \in 1..Len(Out(t, z))
        PROVE  /\ ItemOpen(t, z, Out(t, z)[i])
               /\ Out(t, z)[i].kind = "req" =>
                    \A j \in 1..Len(Out(t, z)) :
                      /\ IsRequest(Out(t, z)[j], Out(t, z)[i].b) => j = i
                      /\ IsClose(Out(t, z)[j], Out(t, z)[i].b) => i < j
    BY <1>5, <1>11, <2>1 DEF Fifo, ItemsOpen
  <2> QED
    BY <1>13, <1>14, <2>1 DEF ItemsOpen
<1>16. HeadSubmitted(t)
  <2>1. \A z \in Slots : Out(st, z) # <<>> =>
           Out(t, z) # <<>> /\ Out(t, z)[1] = Out(st, z)[1]
    BY <1>5, <1>8, <1>14 DEF q
  <2>2. ASSUME NEW z \in Slots, t.s[z].attempting
        PROVE  /\ Out(t, z) # <<>>
               /\ Out(t, z)[1].kind = "req" =>
                    t.req[Out(t, z)[1].b].phase = "attempting"
    <3>1. /\ Out(st, z) # <<>>
          /\ Out(st, z)[1].kind = "req" =>
               st.req[Out(st, z)[1].b].phase = "attempting"
      BY <1>5, <2>2 DEF Fifo, HeadSubmitted
    <3>2. 1 \in 1..Len(Out(st, z))
      BY <3>1 DEF Fifo, FifoType
    <3>3. ItemOpen(st, z, Out(st, z)[1])
      BY <3>2 DEF Fifo, ItemsOpen
    <3>4. Out(st, z)[1].kind = "req" =>
            Out(st, z)[1].b \in Bindings \ {b}
      BY <3>1, <3>3 DEF ItemOpen
    <3> QED
      BY <1>3, <2>1, <3>1, <3>4
  <2>3. ASSUME NEW c \in Bindings, t.req[c].phase = "attempting"
        PROVE  /\ t.b[c].slot \in Slots
               /\ t.s[t.b[c].slot].attempting
               /\ Out(t, t.b[c].slot) # <<>>
               /\ IsRequest(Out(t, t.b[c].slot)[1], c)
    <3>1. c # b
      BY <1>3, <2>3 DEF Enrolled
    <3>2. st.req[c].phase = "attempting"
      BY <1>3, <2>3, <3>1
    <3> QED
      BY <1>1, <1>5, <2>1, <3>2 DEF Fifo, HeadSubmitted
  <2> QED
    BY <2>2, <2>3 DEF HeadSubmitted
<1>17. WaitersOpen(t)
  <2> DEFINE v == st.waitQ
             k == Len(v)
  <2>1. \A i \in 1..k : /\ v[i] \in Bindings \ {b}
                        /\ st.req[v[i]].phase = "waiting" /\ st.req[v[i]].owned
                        /\ \A j \in 1..k : v[i] = v[j] => i = j
    BY <1>9 DEF Fifo, WaitersOpen
  <2>2. CASE w = v
    BY <1>3, <2>1, <2>2 DEF WaitersOpen, Asked
  <2>3. CASE r.phase = "waiting" /\ w = Append(v, b)
    <3>1. /\ k \in Nat /\ Len(w) = k + 1 /\ w[k + 1] = b
          /\ \A i \in 1..k : w[i] = v[i]
      BY <1>9, <2>3
    <3> HIDE DEF k
    <3>2. 1..(k + 1) = (1..k) \cup {k + 1}
      BY <3>1
    <3> HIDE DEF v
    <3>3. ASSUME NEW i \in 1..(k + 1)
          PROVE  /\ t.req[w[i]].phase = "waiting" /\ t.req[w[i]].owned
                 /\ \A j \in 1..(k + 1) : w[i] = w[j] => i = j
      <4>1. CASE i = k + 1
        BY <1>3, <2>1, <2>3, <3>1, <3>2, <4>1
      <4>2. CASE i \in 1..k
        BY <1>3, <2>1, <3>1, <3>2, <4>2
      <4> QED
        BY <3>2, <4>1, <4>2
    <3> QED
      BY <3>1, <3>3 DEF WaitersOpen, Asked
  <2> QED
    BY <2>2, <2>3 DEF Enrolled
<1>18. \A c \in Bindings : RequestOK(t.req[c]) /\ LifeOK(t.b[c])
  <2>1. RequestOK(r)
    BY DEF RequestOK, Enrolled
  <2> QED
    BY <1>1, <1>3, <2>1 DEF Fifo
<1>19. Unborn(t)
  BY <1>1, <1>3 DEF Fifo, Unborn
<1>20. Fifo(t)
  BY <1>10, <1>15, <1>16, <1>17, <1>18, <1>19 DEF Fifo
<1>21. CarriesBut(st, t, b)
  <2>1. ASSUME NEW z \in Slots, NEW i \in 1..Len(Out(t, z)),
               Out(t, z)[i].kind = "req", Out(t, z)[i].b # b
        PROVE  \E j \in 1..Len(Out(st, z)) :
                 IsRequest(Out(st, z)[j], Out(t, z)[i].b)
    <3>1. CASE z # s
      BY <1>5, <2>1, <3>1 DEF IsRequest
    <3>2. CASE z = s
      <4>1. i \in 1..n /\ p[i] = q[i]
        BY <1>6, <1>13, <1>14, <2>1, <3>2
      <4> QED
        BY <1>14, <2>1, <3>2, <4>1 DEF IsRequest, q, n
    <3> QED
      BY <3>1, <3>2
  <2> QED
    BY <1>1, <1>3, <2>1 DEF CarriesBut
<1> QED
  BY <1>20, <1>21

(* prepareProxyRequest, once the request is enrolled.                      *)
LEMMA AskedSound ==
  ASSUME NEW st, NEW Q, Sound(st, st, {}, {}, Q), NEW b \in Bindings,
         b < st.nextID, b \notin Q,
         st.b[b].active, st.req[b].phase = "none",
         NEW r \in Requests, r.owned, ~r.canceled,
         NEW w, Enrolled(st, b, r, w), NEW t, Asked(st, t, b, r, w)
  PROVE  /\ Sound(t, t, {}, {}, Q) /\ CarriesBut(st, t, b)
         /\ Evolves(st, t) /\ Orphaned(st, t, {})
<1>1. /\ t.b = st.b /\ t.state = st.state /\ t.result = st.result
      /\ t.queue = st.queue /\ t.leased = st.leased
      /\ t.notify = st.notify /\ t.readyQ = st.readyQ
      /\ t.readySig = st.readySig
  BY DEF Asked, Same, MFields
<1>2. /\ t.nextID = st.nextID /\ t.accepting = st.accepting
      /\ t.drained = st.drained /\ DOMAIN t = MFields
  BY DEF Asked, Same, MFields
<1>3. IsState(st) /\ Evolves(st, st) /\ Fifo(st)
  BY DEF Sound, Evolves
<1>4. IsState(t)
  BY <1>1, <1>2, <1>3 DEF IsState
<1>5. Quiet(st, t)
  BY <1>1, <1>2 DEF Quiet
<1>6. Evolves(st, t) /\ Evolves(t, t)
  BY <1>3, <1>4, <1>5, QuietEvolves, EvolvesRefl
<1>7. Fifo(t) /\ CarriesBut(st, t, b)
  BY <1>3, AskedFifo
<1>8. /\ st.req \in [Bindings -> Requests] /\ t.req[b] = r
      /\ \A c \in Bindings \ {b} : t.req[c] = st.req[c]
  BY <1>3 DEF Fifo, FifoType, Asked
<1>9. \A c \in Bindings : HasReadyReason(t, c) => HasReadyReason(st, c)
  <2>1. HasReadyReason(t, b) => HasReadyReason(st, b)
    BY <1>1, <1>8 DEF HasReadyReason, Enrolled
  <2>2. \A c \in Bindings \ {b} : HasReadyReason(t, c) => HasReadyReason(st, c)
    BY <1>1, <1>8 DEF HasReadyReason
  <2> QED
    BY <2>1, <2>2
<1>10. Heard(t, {}, {}, Q)
  <2>1. \A c \in Q : Quietened(t, c)
    BY <1>1, <1>8 DEF Sound, Heard, Quietened
  <2> QED
    BY <1>1, <1>9, <2>1 DEF Sound, Heard, IsQueued
<1>11. SameClosing(t, t)
  BY <1>1 DEF Sound, SameClosing
<1>12. Inherits(t, t)
  BY DEF Inherits, Carries, IsRequest
<1>13. Orphaned(st, t, {})
  <2>1. Orphans(t) \subseteq Orphans(st)
    BY <1>8 DEF Orphans
  <2> QED
    BY <1>4, <1>7, <2>1 DEF Orphaned, Fifo, FifoType
<1> QED
  BY <1>6, <1>7, <1>10, <1>11, <1>12, <1>13 DEF Sound

-----------------------------------------------------------------------------
(* The steps of the manager.                                               *)

(* FailureIsIsolated, between two states of the manager.                   *)
Isolates(o, t) ==
  \A s \in Slots : ~o.s[s].failed /\ t.s[s].failed /\ t.state = "ready" =>
    \A b \in Bindings : o.b[b].slot # s =>
      t.b[b] = o.b[b] /\ t.queue[b] = o.queue[b]

(* Every resident binding was allocated, and a request is canceled in      *)
(* flight only for a binding that accepts no other.                        *)
Lawful(st) ==
  /\ \A b \in Residents(st) : b < st.nextID
  /\ \A b \in Orphans(st) : ~st.b[b].active

(* A critical section leads from o to t.                                   *)
Continues(o, t) ==
  /\ LivesKept(o, t)
  /\ t.nextID = o.nextID
  /\ Retires(o, t)
  /\ Isolates(o, t)

(* The submissions under way in o are under way in t.                      *)
SameAttempts(o, t) ==
  \A s \in Slots : t.s[s].attempting = o.s[s].attempting

(* A critical section without a new request or a submission leads from o   *)
(* to t.                                                                   *)
Follows(o, t) ==
  Settled(t) /\ Continues(o, t) /\ Carries(o, t) /\ SameAttempts(o, t)

(* A critical section allocates nothing and retires what it cancels.       *)
LEMMA LawfulKept ==
  ASSUME NEW o, Lawful(o), NEW t, Continues(o, t)
  PROVE  Lawful(t)
<1>1. \A b \in Bindings : /\ t.b[b].resident => o.b[b].resident
                          /\ t.b[b].active => o.b[b].active
  BY DEF Continues, LivesKept, Kept
<1>2. \A b \in Residents(t) : b < t.nextID
  BY <1>1 DEF Lawful, Continues, Residents
<1>3. \A b \in Orphans(t) : ~t.b[b].active
  BY <1>1 DEF Lawful, Continues, Retires, Orphaned, Orphans
<1> QED
  BY <1>2, <1>3 DEF Lawful

(* What Settled says, in one place.                                        *)
LEMMA SettledFacts ==
  ASSUME NEW st, Settled(st)
  PROVE  /\ Sound(st, st, {}, {}, Closers(st))
         /\ IsState(st) /\ Evolves(st, st) /\ Fifo(st)
         /\ \A b \in Bindings : b \in Closers(st) <=> st.b[b].closeStarted
         /\ Closers(st) \subseteq Bindings
BY DEF Settled, Sound, Evolves, Closers

(* A section that began no local close ends settled.                       *)
LEMMA SettledIf ==
  ASSUME NEW o, NEW t, NEW Q, Sound(o, t, {}, {}, Q),
         \A b \in Bindings : t.b[b].closeStarted => b \in Q
  PROVE  Settled(t)
<1>1. Sound(t, t, {}, {}, Q)
  BY SoundRefl
<1>2. Closers(t) \subseteq Q /\ {} \subseteq {}
  BY DEF Closers
<1> QED
  BY <1>1, <1>2, SoundMono DEF Settled

(* A section without a new close, from the parts.                          *)
LEMMA FollowsSound ==
  ASSUME NEW o, Settled(o), NEW t, Sound(o, t, {}, {}, Closers(o)),
         Retires(o, t)
  PROVE  Follows(o, t)
<1>1. Settled(t)
  <2>1. \A b \in Bindings : t.b[b].closeStarted => b \in Closers(o)
    BY DEF Sound, SameClosing, Closers
  <2> QED
    BY <2>1, SettledIf
<1>2. LivesKept(o, t) /\ t.nextID = o.nextID
  BY DEF Sound, Evolves
<1>3. /\ Carries(o, t) /\ Isolates(o, t)
      /\ \A s \in Slots : t.s[s].attempting = o.s[s].attempting
  BY DEF Sound, Inherits, Isolates
<1> QED
  BY <1>1, <1>2, <1>3 DEF Follows, Continues, SameAttempts

(* A section that cancels no request.                                      *)
LEMMA FollowsHolds ==
  ASSUME NEW o, Settled(o), NEW t, Sound(o, t, {}, {}, Closers(o)),
         Holds(o, t)
  PROVE  Follows(o, t)
<1>1. Orphaned(o, o, {})
  BY SettledFacts, RetiresRefl
<1>2. Orphaned(o, t, {})
  BY <1>1, HoldsOrphaned
<1>3. Retires(o, t)
  BY <1>2, RetiresIf
<1> QED
  BY <1>3, FollowsSound

(* Nothing happens.                                                        *)
LEMMA FollowsRefl ==
  ASSUME NEW o, Settled(o)
  PROVE  Follows(o, o)
<1>1. Sound(o, o, {}, {}, Closers(o)) /\ Holds(o, o)
  BY SettledFacts DEF Holds
<1> QED
  BY <1>1, FollowsHolds

(* What the owner of the manager changes.                                  *)
LEMMA FollowsOwner ==
  ASSUME NEW o, Settled(o), NEW t, IsState(t), Same(o, t, OwnerFields),
         SlotsAlike(o, t),
         \A s \in Slots : t.s[s].failed => o.s[s].failed \/ t.state # "ready"
  PROVE  Follows(o, t)
<1>1. /\ Sound(o, o, {}, {}, Closers(o)) /\ IsState(o) /\ Fifo(o)
  BY SettledFacts
<1>2. Sound(t, t, {}, {}, Closers(o)) /\ Carries(o, t)
  BY <1>1, SoundRestart
<1>3. t.b = o.b /\ t.nextID = o.nextID /\ t.req = o.req /\ t.waitQ = o.waitQ
  BY DEF Same, MFields, OwnerFields
<1>4. LivesKept(o, t)
  BY <1>1, <1>3 DEF LivesKept, IsState, Kept
<1>5. Settled(t)
  <2>1. \A b \in Bindings : t.b[b].closeStarted => b \in Closers(o)
    BY <1>3 DEF Closers
  <2> QED
    BY <1>2, <2>1, SettledIf
<1>6. Retires(o, t)
  <2>1. Holds(o, t) /\ Orphaned(o, o, {})
    BY <1>1, <1>3, RetiresRefl DEF Holds
  <2> QED
    BY <2>1, HoldsOrphaned, RetiresIf
<1>7. Isolates(o, t)
  BY DEF Isolates
<1>8. \A s \in Slots : t.s[s].attempting = o.s[s].attempting
  BY DEF SlotsAlike
<1> QED
  BY <1>2, <1>3, <1>4, <1>5, <1>6, <1>7, <1>8
     DEF Follows, Continues, SameAttempts

(* The request of b moves on.                                              *)
Rephased(st, t, b, r) ==
  /\ Same(st, t, {"req"})
  /\ t.req = [st.req EXCEPT ![b] = r]

(* A handed-out reservation is used, or its encoding ends.                 *)
LEMMA RephasedSound ==
  ASSUME NEW o, NEW st, NEW X, NEW Y, NEW Q, Sound(o, st, X, Y, Q),
         NEW b \in Bindings, st.req[b].owned,
         st.req[b].phase \in {"reserved", "materializing"},
         NEW r \in Requests, r.owned, ~r.canceled,
         \/ r.phase = "reserved" /\ r.handed /\ st.req[b].phase = "reserved"
         \/ r.phase \in {"materializing", "materialized"},
         NEW t, Rephased(st, t, b, r)
  PROVE  Sound(o, t, X, Y, Q) /\ Orphans(t) = Orphans(st)
<1>1. /\ t.b = st.b /\ t.state = st.state /\ t.result = st.result
      /\ t.queue = st.queue /\ t.leased = st.leased
      /\ t.notify = st.notify /\ t.readyQ = st.readyQ
      /\ t.readySig = st.readySig /\ t.s = st.s /\ t.waitQ = st.waitQ
  BY DEF Rephased, Same, MFields
<1>2. /\ t.nextID = st.nextID /\ t.accepting = st.accepting
      /\ t.drained = st.drained /\ DOMAIN t = MFields
  BY DEF Rephased, Same, MFields
<1>3. Evolves(o, t)
  <2>1. Quiet(st, t)
    BY <1>1, <1>2 DEF Quiet
  <2> QED
    BY <2>1, QuietEvolves DEF Sound
<1>4. /\ st.req \in [Bindings -> Requests] /\ t.req[b] = r
      /\ t.req \in [Bindings -> Requests]
      /\ \A c \in Bindings \ {b} : t.req[c] = st.req[c]
  BY DEF Sound, Fifo, FifoType, Rephased
<1>5. /\ \A c \in Bindings : t.req[c].phase = "none" <=> st.req[c].phase = "none"
      /\ \A c \in Bindings : t.req[c].phase = "attempting"
                              <=> st.req[c].phase = "attempting"
  BY <1>4
<1>6. FifoType(t)
  BY <1>1, <1>4 DEF Sound, Fifo, FifoType, Out
<1>7. ItemsOpen(t)
  <2>1. \A s \in Slots, i \in OutItems : ItemOpen(st, s, i) => ItemOpen(t, s, i)
    BY <1>1, <1>2, <1>5 DEF ItemOpen
  <2> QED
    BY <1>1, <2>1 DEF Sound, Fifo, FifoType, ItemsOpen, Out
<1>8. HeadSubmitted(t)
  <2>1. ASSUME NEW z \in Slots, t.s[z].attempting
        PROVE  /\ Out(t, z) # <<>>
               /\ Out(t, z)[1].kind = "req" =>
                    t.req[Out(t, z)[1].b].phase = "attempting"
    <3>1. /\ Out(st, z) # <<>>
          /\ Out(st, z)[1].kind = "req" =>
               st.req[Out(st, z)[1].b].phase = "attempting"
      BY <1>1, <2>1 DEF Sound, Fifo, HeadSubmitted
    <3>2. 1 \in 1..Len(Out(st, z))
      BY <3>1 DEF Sound, Fifo, FifoType
    <3>3. ItemOpen(st, z, Out(st, z)[1])
      BY <3>2 DEF Sound, Fifo, ItemsOpen
    <3>4. Out(st, z)[1].kind = "req" => Out(st, z)[1].b \in Bindings
      BY <3>3 DEF ItemOpen
    <3>5. Out(t, z) = Out(st, z)
      BY <1>1 DEF Out
    <3> QED
      BY <1>5, <3>1, <3>4, <3>5
  <2>2. \A c \in Bindings : t.req[c].phase = "attempting" =>
          /\ t.b[c].slot \in Slots
          /\ t.s[t.b[c].slot].attempting
          /\ Out(t, t.b[c].slot) # <<>>
          /\ IsRequest(Out(t, t.b[c].slot)[1], c)
    BY <1>1, <1>5 DEF Sound, Fifo, HeadSubmitted, Out
  <2> QED
    BY <2>1, <2>2 DEF HeadSubmitted
<1>9. WaitersOpen(t)
  <2>1. \A i \in 1..Len(st.waitQ) : st.waitQ[i] \in Bindings \ {b}
    BY DEF Sound, Fifo, FifoType, WaitersOpen
  <2> QED
    BY <1>1, <1>4, <2>1 DEF Sound, Fifo, WaitersOpen
<1>10. \A c \in Bindings : RequestOK(t.req[c]) /\ LifeOK(t.b[c])
  <2>1. RequestOK(r)
    BY DEF RequestOK
  <2> QED
    BY <1>1, <1>4, <2>1 DEF Sound, Fifo
<1>11. Unborn(t)
  BY <1>1, <1>2, <1>5 DEF Sound, Fifo, Unborn
<1>12. Fifo(t)
  BY <1>6, <1>7, <1>8, <1>9, <1>10, <1>11 DEF Fifo
<1>13. Inherits(o, t)
  BY <1>1, <1>5 DEF Sound, Inherits, Carries, Out
<1>14. \A c \in Bindings : HasReadyReason(t, c) => HasReadyReason(st, c)
  <2>1. HasReadyReason(t, b) => HasReadyReason(st, b)
    BY <1>1, <1>4 DEF HasReadyReason
  <2>2. \A c \in Bindings \ {b} : HasReadyReason(t, c) => HasReadyReason(st, c)
    BY <1>1, <1>4 DEF HasReadyReason
  <2> QED
    BY <2>1, <2>2
<1>15. Heard(t, X, Y, Q)
  <2>1. \A c \in Q : Quietened(t, c)
    <3>1. b \in Q => Quietened(t, b)
      BY <1>1, <1>4 DEF Sound, Heard, Quietened, InFlight
    <3>2. \A c \in Q : c \in Bindings /\ (c # b => Quietened(t, c))
      BY <1>1, <1>4 DEF Sound, Heard, Quietened
    <3> QED
      BY <3>1, <3>2
  <2> QED
    BY <1>1, <1>14, <2>1 DEF Sound, Heard, IsQueued
<1>16. SameClosing(o, t)
  BY <1>1 DEF Sound, SameClosing
<1>17. Orphans(t) = Orphans(st)
  <2>1. ~st.req[b].canceled
    BY DEF Sound, Fifo, RequestOK
  <2> QED
    BY <1>4, <2>1 DEF Orphans
<1> QED
  BY <1>3, <1>12, <1>13, <1>15, <1>16, <1>17 DEF Sound

-----------------------------------------------------------------------------
(* The owner's steps.                                                      *)

(* start and startFirst.                                                   *)
LEMMA StartFollows ==
  ASSUME Settled(m), Start \/ StartSucceeds
  PROVE  Follows(m, m')
<1>1. IsState(m) /\ Fifo(m)
  BY SettledFacts
<1>2. IsState(m')
  BY <1>1, StartStep, StartSucceedsStep DEF Evolves
<1>3. PICK v : m' = [m EXCEPT !.state = v]
  BY DEF Start, StartSucceeds
<1>4. Same(m, m', OwnerFields) /\ m'.s = m.s
  BY <1>1, <1>3 DEF Same, OwnerFields, IsState, MFields
<1>5. SlotsAlike(m, m')
  BY <1>1, <1>4 DEF SlotsAlike, Fifo, FifoType, Out
<1>6. \A s \in Slots : m'.s[s].failed => m.s[s].failed \/ m'.state # "ready"
  BY <1>4
<1> QED
  BY <1>2, <1>4, <1>5, <1>6, FollowsOwner

(* Quiesce.                                                                *)
LEMMA QuiesceFollows ==
  ASSUME Settled(m), Quiesce
  PROVE  Follows(m, m')
<1>1. IsState(m) /\ Fifo(m)
  BY SettledFacts
<1>2. IsState(m')
  BY <1>1, QuiesceStep
<1>3. Same(m, m', OwnerFields) /\ m'.s = m.s
  BY <1>1 DEF Quiesce, PublishDrained, Same, OwnerFields, IsState, MFields
<1>4. SlotsAlike(m, m')
  BY <1>1, <1>3 DEF SlotsAlike, Fifo, FifoType, Out
<1>5. \A s \in Slots : m'.s[s].failed => m.s[s].failed \/ m'.state # "ready"
  BY <1>3
<1> QED
  BY <1>2, <1>3, <1>4, <1>5, FollowsOwner

(* The end of closeAll.                                                    *)
LEMMA CloseFinishesFollows ==
  ASSUME Settled(m), CloseFinishes
  PROVE  Follows(m, m')
<1>1. IsState(m) /\ Fifo(m)
  BY SettledFacts
<1>2. IsState(m')
  BY <1>1, CloseFinishesStep DEF Evolves
<1>3. Same(m, m', OwnerFields) /\ m'.s = m.s
  BY <1>1 DEF CloseFinishes, Same, OwnerFields, IsState, MFields
<1>4. SlotsAlike(m, m')
  BY <1>1, <1>3 DEF SlotsAlike, Fifo, FifoType, Out
<1>5. \A s \in Slots : m'.s[s].failed => m.s[s].failed \/ m'.state # "ready"
  BY <1>3
<1> QED
  BY <1>2, <1>3, <1>4, <1>5, FollowsOwner

(* A repair changes flags of slots that have failed.                       *)
LEMMA RepairFollows ==
  ASSUME Settled(m), RepairFailedSlots
                     \/ \E s \in Slots : RepairFails(s) \/ RepairSucceeds(s)
  PROVE  Follows(m, m')
<1>1. IsState(m) /\ Fifo(m)
  BY SettledFacts
<1>2. DOMAIN m.s = Slots /\ \A z \in Slots : DOMAIN m.s[z] = SlotFields
  BY <1>1 DEF Fifo, FifoType
<1>3. CASE RepairFailedSlots
  <2>1. IsState(m')
    BY <1>1, <1>3, RepairFailedSlotsStep DEF Evolves
  <2>2. /\ Same(m, m', OwnerFields) /\ DOMAIN m'.s = Slots
        /\ \A z \in Slots : \E v : m'.s[z] = [m.s[z] EXCEPT !.repairing = v]
    BY <1>1, <1>3 DEF RepairFailedSlots, Same, OwnerFields, IsState, MFields
  <2>3. /\ SlotsAlike(m, m')
        /\ \A s \in Slots : m'.s[s].failed = m.s[s].failed
    BY <1>2, <2>2 DEF SlotsAlike, SlotFields, Out
  <2> QED
    BY <2>1, <2>2, <2>3, FollowsOwner
<1>4. ASSUME NEW s \in Slots, RepairFails(s)
      PROVE  Follows(m, m')
  <2>1. CASE m' = m
    BY <2>1, FollowsRefl
  <2>2. CASE m' = [m EXCEPT !.s[s].repairing = FALSE]
    <3>1. /\ Same(m, m', OwnerFields) /\ DOMAIN m'.s = Slots
          /\ m'.s[s] = [m.s[s] EXCEPT !.repairing = FALSE]
          /\ \A z \in Slots \ {s} : m'.s[z] = m.s[z]
      BY <1>1, <1>2, <2>2 DEF Same, OwnerFields, IsState, MFields
    <3>2. /\ SlotsAlike(m, m')
          /\ \A z \in Slots : m'.s[z].failed = m.s[z].failed
      BY <1>2, <3>1 DEF SlotsAlike, SlotFields, Out
    <3>3. Quiet(m, m')
      BY <1>1, <2>2 DEF Quiet, IsState, MFields
    <3>4. IsState(m')
      BY <1>1, <3>3, EvolvesRefl, QuietEvolves DEF Evolves
    <3> QED
      BY <3>1, <3>2, <3>4, FollowsOwner
  <2> QED
    BY <1>4, <2>1, <2>2 DEF RepairFails
<1>5. ASSUME NEW s \in Slots, RepairSucceeds(s)
      PROVE  Follows(m, m')
  <2>1. m' = [m EXCEPT !.s[s].failed = FALSE, !.s[s].reason = "none",
                       !.s[s].repairing = FALSE, !.s[s].wake = FALSE]
    BY <1>5 DEF RepairSucceeds
  <2>2. /\ Same(m, m', OwnerFields) /\ DOMAIN m'.s = Slots
        /\ m'.s[s] = [m.s[s] EXCEPT !.failed = FALSE, !.reason = "none",
                                    !.repairing = FALSE, !.wake = FALSE]
        /\ \A z \in Slots \ {s} : m'.s[z] = m.s[z]
    BY <1>1, <1>2, <2>1 DEF Same, OwnerFields, IsState, MFields
  <2>3. /\ SlotsAlike(m, m')
        /\ \A z \in Slots : m'.s[z].failed => m.s[z].failed
    <3>1. /\ DOMAIN m'.s[s] = SlotFields /\ m'.s[s].failed = FALSE
          /\ m'.s[s].out = m.s[s].out
          /\ m'.s[s].attempting = m.s[s].attempting
      BY <1>2, <2>2 DEF SlotFields
    <3> QED
      BY <1>2, <2>2, <3>1 DEF SlotsAlike, Out
  <2>4. Quiet(m, m')
    BY <1>1, <2>1 DEF Quiet, IsState, MFields
  <2>5. IsState(m')
    BY <1>1, <2>4, EvolvesRefl, QuietEvolves DEF Evolves
  <2> QED
    BY <2>2, <2>3, <2>5, FollowsOwner
<1> QED
  BY <1>3, <1>4, <1>5

(* The manager begins to close, from o or from o with a failed slot.       *)
LEMMA ClosingFollows ==
  ASSUME NEW o, Settled(o), NEW t, IsState(t), Same(o, t, OwnerFields),
         SlotsAlike(o, t), NEW err
  PROVE  Follows(o, ManagerClosing(t, err))
<1> DEFINE u == [t EXCEPT !.state = "closing", !.err = FirstError(@, err)]
           f == ManagerClosing(t, err)
<1>1. Sound(o, o, {}, {}, Closers(o)) /\ IsState(o)
  BY SettledFacts
<1>2. Sound(t, t, {}, {}, Closers(o)) /\ Carries(o, t)
  BY <1>1, SoundRestart
<1>3. /\ Sound(u, f, {}, {}, Closers(o))
      /\ \A b \in Bindings : ~f.b[b].active
  BY <1>2, ManagerClosingSound
<1>4. Evolves(t, f)
  BY EvolvesRefl, ManagerClosingEvolves
<1> HIDE DEF f
<1>5. /\ u.s = t.s /\ u.req = t.req /\ u.result = t.result
      /\ u.state = "closing" /\ u.b = t.b
  BY DEF IsState, MFields
<1> HIDE DEF u
<1>6. t.b = o.b /\ t.nextID = o.nextID
  BY DEF Same, MFields, OwnerFields
<1>7. LivesKept(o, f) /\ f.nextID = o.nextID
  BY <1>4, <1>6 DEF Evolves, LivesKept
<1>8. Settled(f)
  <2>1. \A b \in Bindings : f.b[b].closeStarted => b \in Closers(o)
    BY <1>3, <1>5, <1>6 DEF Sound, SameClosing, Closers
  <2> QED
    BY <1>3, <2>1, SettledIf
<1>9. Carries(o, f)
  <2>1. Sound(u, f, {}, {}, Closers(o)) /\ Carries(u, f)
    BY <1>3 DEF Sound, Inherits
  <2>2. Carries(t, f)
    BY <1>5, <2>1 DEF Carries, Out
  <2>3. /\ t.req = o.req /\ t.result = o.result
        /\ \A s \in Slots : Out(t, s) = Out(o, s)
    BY DEF Same, MFields, OwnerFields, SlotsAlike
  <2> QED
    BY <2>2, <2>3 DEF Carries
<1>10. Retires(o, f)
  <2>1. Fifo(f) /\ IsState(f)
    BY <1>3, <1>4 DEF Sound, Evolves
  <2> QED
    BY <1>3, <2>1 DEF Retires, Orphaned, Orphans, Fifo, FifoType
<1>11. \A s \in Slots : f.s[s].attempting = o.s[s].attempting
  BY <1>3, <1>5 DEF Sound, Inherits, SlotsAlike
<1>12. Isolates(o, f)
  BY <1>3, <1>5 DEF Sound, Inherits, Isolates
<1> QED
  BY <1>7, <1>8, <1>9, <1>10, <1>11, <1>12
     DEF Follows, Continues, SameAttempts, f

(* beginTerminal.                                                          *)
LEMMA BeginTerminalFollows ==
  ASSUME Settled(m), NEW err, BeginTerminal(err)
  PROVE  Follows(m, m')
<1>1. IsState(m) /\ Fifo(m)
  BY SettledFacts
<1>2. Same(m, m, OwnerFields) /\ SlotsAlike(m, m)
  BY <1>1 DEF Same, IsState, SlotsAlike, Fifo, FifoType
<1>3. m' = ManagerClosing(m, err)
  BY DEF BeginTerminal
<1> QED
  BY <1>1, <1>2, <1>3, ClosingFollows

(* failSlot.                                                               *)
LEMMA FailSlotFollows ==
  ASSUME Settled(m), NEW s \in Slots, NEW reason, FailSlot(s, reason)
  PROVE  Follows(m, m')
<1> DEFINE t == [m EXCEPT !.s[s].failed = TRUE, !.s[s].reason = reason]
           f == FailReadySlot(m, s, reason)
<1>1. /\ Sound(m, m, {}, {}, Closers(m)) /\ IsState(m) /\ Fifo(m)
      /\ \A b \in Bindings : m.b[b].closeStarted => b \in Closers(m)
  BY SettledFacts
<1>2. m' = m \/ m' = ManagerClosing(t, "initial") \/ m' = f
  BY DEF FailSlot
<1>3. /\ Sound(t, t, {}, {}, Closers(m))
      /\ Sound(t, f, {}, {}, Closers(m))
      /\ Untouched(m, f, Res(m, s))
      /\ SlotsAlike(m, t) /\ Same(m, t, OwnerFields)
      /\ \A b \in Bindings : m.b[b].slot = s => ~f.b[b].active
  BY <1>1, FailReadySlotSound
<1>4. Retires(m, f)
  BY <1>1, <1>3, FailReadySlotRetires
<1>5. Evolves(m, f)
  BY <1>1, EvolvesRefl, FailReadySlotEvolves
<1>6. \A z \in Slots : t.s[z].failed => m.s[z].failed \/ z = s
  <2>1. DOMAIN m.s = Slots /\ \A z \in Slots : DOMAIN m.s[z] = SlotFields
    BY <1>1 DEF Fifo, FifoType
  <2> QED
    BY <1>1, <2>1 DEF IsState, MFields, SlotFields
<1> HIDE DEF f, t
<1>7. CASE m' = m
  BY <1>7, FollowsRefl
<1>8. CASE m' = ManagerClosing(t, "initial")
  <2>1. IsState(t)
    BY <1>3 DEF Sound, Evolves
  <2> QED
    BY <1>3, <1>8, <2>1, ClosingFollows
<1>9. CASE m' = f
  <2>1. t.b = m.b /\ t.req = m.req /\ t.result = m.result
    BY <1>3 DEF Same, MFields, OwnerFields
  <2>2. Settled(f)
    <3>1. \A b \in Bindings : f.b[b].closeStarted => b \in Closers(m)
      BY <1>3, <2>1 DEF Sound, SameClosing, Closers
    <3> QED
      BY <1>3, <3>1, SettledIf
  <2>3. Carries(m, f)
    <3>1. Carries(t, f)
      BY <1>3 DEF Sound, Inherits
    <3>2. \A z \in Slots : Out(t, z) = Out(m, z)
      BY <1>3 DEF SlotsAlike
    <3> QED
      BY <2>1, <3>1, <3>2 DEF Carries
  <2>4. \A z \in Slots : f.s[z].attempting = m.s[z].attempting
    BY <1>3 DEF Sound, Inherits, SlotsAlike
  <2>5. Isolates(m, f)
    <3>1. \A z \in Slots : ~m.s[z].failed /\ f.s[z].failed => z = s
      BY <1>3, <1>6 DEF Sound, Inherits
    <3>2. \A b \in Bindings : m.b[b].slot # s => b \in Bindings \ Res(m, s)
      BY DEF Res
    <3> QED
      BY <1>3, <3>1, <3>2 DEF Isolates, Untouched
  <2>6. LivesKept(m, f) /\ f.nextID = m.nextID
    BY <1>5 DEF Evolves
  <2> QED
    BY <1>4, <1>9, <2>2, <2>3, <2>4, <2>5, <2>6
       DEF Follows, Continues, SameAttempts
<1> QED
  BY <1>2, <1>7, <1>8, <1>9

-----------------------------------------------------------------------------
(* The clients' steps.                                                     *)

(* What the environment may do, and how often it prepared a request.       *)
EnvFields == {"prepares", "events", "losses", "repairs", "full", "misuse",
              "max"}

(* The type of the environment.                                            *)
IsEnv(e) ==
  /\ DOMAIN e = EnvFields
  /\ e.prepares \in [Bindings -> Nat]
  /\ e.max \in Scenarios

(* A new request finds no older one of its binding: a request canceled in  *)
(* flight belongs to a binding that is no longer active.                   *)
LEMMA PrepareFollows ==
  ASSUME Settled(m), Lawful(m), IsEnv(env), NEW b \in Bindings,
         NEW size \in env.max.reqSizes, PrepareProxyRequest(b, size)
  PROVE  /\ Settled(m') /\ Continues(m, m') /\ SameAttempts(m, m')
         /\ CarriesBut(m, m', b)
         /\ m.req[b].phase = "none" /\ m.b[b].active
<1> DEFINE s    == SlotOf(m, b)
           item == Item("req", b, 0)
           r0   == [NoRequest EXCEPT !.size = size, !.owned = TRUE]
           st   == [AppendOut(m, s, item) EXCEPT !.req[b] = r0]
           f    == [Reserve(st, b) EXCEPT !.req[b].phase = "materializing"]
           r1   == [r0 EXCEPT !.phase = "materializing"]
           w    == [st EXCEPT !.req[b].phase = "waiting",
                              !.waitQ = Append(@, b)]
           r2   == [r0 EXCEPT !.phase = "waiting"]
<1>1. /\ Sound(m, m, {}, {}, Closers(m)) /\ IsState(m) /\ Fifo(m)
      /\ \A c \in Bindings : c \in Closers(m) <=> m.b[c].closeStarted
  BY SettledFacts
<1>2. /\ m.b[b].active /\ ~m.req[b].owned
      /\ m' = f \/ m' = Promote(w)
  BY DEF PrepareProxyRequest
<1>3. b < m.nextID /\ b \notin Closers(m)
  BY <1>1, <1>2 DEF Lawful, Fifo, LifeOK, Residents
<1>4. m.req[b].phase = "none"
  BY <1>1, <1>2 DEF Lawful, Orphans, Fifo, RequestOK
<1>5. /\ m.req \in [Bindings -> Requests] /\ DOMAIN m.s = Slots
      /\ m.waitQ \in Seq(Bindings)
  BY <1>1 DEF Fifo, FifoType
<1>6. size \in Nat
  BY ConstantsAssumption DEF IsEnv, ScenarioOK
<1>7. /\ /\ r1 \in Requests
      /\ r1.owned
      /\ ~r1.canceled
      /\ r1.phase = "materializing"
      /\ r2 \in Requests /\ r2.owned /\ ~r2.canceled /\ r2.phase = "waiting"
  BY <1>6 DEF NoRequest, Requests, Phases
<1> HIDE DEF r0, item, s
<1>8. /\ Same(m, st, {"s", "req"})
      /\ st.s = [m.s EXCEPT ![s].out = Append(@, item)]
      /\ st.req = [m.req EXCEPT ![b] = r0]
  BY <1>1, <1>5 DEF AppendOut, Same, IsState, MFields
<1> HIDE DEF st
<1>9. Asked(m, f, b, r1, m.waitQ)
  <2>1. DOMAIN st = MFields /\ DOMAIN st.req = Bindings /\ st.req[b] = r0
    BY <1>5, <1>8 DEF Same
  <2>2. /\ Same(st, f, {"req", "use", "all"})
        /\ f.req = [st.req EXCEPT ![b] = r1]
    BY <2>1 DEF Reserve, ChargeRequest, Same, MFields
  <2> HIDE DEF f, r1
  <2>3. f.req = [m.req EXCEPT ![b] = r1]
    BY <1>5, <1>8, <2>2
  <2>4. /\ Same(m, f, {"s", "req", "waitQ", "use", "all"})
        /\ f.s = st.s /\ f.waitQ = m.waitQ
    BY <1>8, <2>2 DEF Same, MFields
  <2> QED
    BY <1>8, <2>3, <2>4 DEF Asked, s, item
<1>10. Asked(m, w, b, r2, Append(m.waitQ, b))
  <2>1. DOMAIN st = MFields /\ DOMAIN st.req = Bindings /\ st.req[b] = r0
    BY <1>5, <1>8 DEF Same
  <2>2. /\ Same(st, w, {"req", "waitQ"})
        /\ w.req = [st.req EXCEPT ![b] = r2] /\ w.waitQ = Append(st.waitQ, b)
    BY <2>1 DEF Same, MFields
  <2> HIDE DEF w, r2
  <2>3. w.req = [m.req EXCEPT ![b] = r2]
    BY <1>5, <1>8, <2>2
  <2>4. /\ Same(m, w, {"s", "req", "waitQ", "use", "all"})
        /\ w.s = st.s /\ w.waitQ = Append(m.waitQ, b)
    BY <1>8, <2>2 DEF Same, MFields
  <2> QED
    BY <1>8, <2>3, <2>4 DEF Asked, s, item
<1> HIDE DEF f, w, r1, r2
<1> DEFINE u == IF m' = f THEN f ELSE w
<1>11. /\ Sound(u, u, {}, {}, Closers(m)) /\ CarriesBut(m, u, b)
       /\ Evolves(m, u) /\ Orphaned(m, u, {})
       /\ \E r, v : Asked(m, u, b, r, v)
  <2>1. CASE m' = f
    <3>1. Enrolled(m, b, r1, m.waitQ)
      BY <1>7 DEF Enrolled
    <3>2. /\ Sound(f, f, {}, {}, Closers(m)) /\ CarriesBut(m, f, b)
          /\ Evolves(m, f) /\ Orphaned(m, f, {})
      BY <1>1, <1>2, <1>3, <1>4, <1>7, <1>9, <3>1, AskedSound
    <3> QED
      BY <1>9, <2>1, <3>2
  <2>2. CASE m' # f
    <3>1. Enrolled(m, b, r2, Append(m.waitQ, b))
      BY <1>7 DEF Enrolled
    <3>2. /\ Sound(w, w, {}, {}, Closers(m)) /\ CarriesBut(m, w, b)
          /\ Evolves(m, w) /\ Orphaned(m, w, {})
      BY <1>1, <1>2, <1>3, <1>4, <1>7, <1>10, <3>1, AskedSound
    <3> QED
      BY <1>10, <2>2, <3>2
  <2> QED
    BY <2>1, <2>2
<1>12. m' = u \/ m' = Promote(u)
  BY <1>2
<1> HIDE DEF u
<1>13. Sound(u, m', {}, {}, Closers(m)) /\ Orphaned(m, m', {})
  <2>1. Sound(u, Promote(u), {}, {}, Closers(m)) /\ Orphaned(m, Promote(u), {})
    BY <1>11, PromoteSound, PromoteOrphaned
  <2> QED
    BY <1>11, <1>12, <2>1
<1>14. Evolves(m, m')
  BY <1>11, <1>13, EvolvesTrans DEF Sound
<1>15. u.b = m.b /\ \A z \in Slots : /\ u.s[z].attempting = m.s[z].attempting
                                     /\ u.s[z].failed = m.s[z].failed
  <2>1. u.b = m.b /\ \E x : u.s = [m.s EXCEPT ![s].out = Append(@, x)]
    BY <1>11 DEF Asked, Same, MFields, s
  <2>2. DOMAIN m.s = Slots /\ \A z \in Slots : DOMAIN m.s[z] = SlotFields
    BY <1>1 DEF Fifo, FifoType
  <2> QED
    BY <2>1, <2>2 DEF SlotFields
<1>16. Settled(m')
  <2>1. \A c \in Bindings : m'.b[c].closeStarted => c \in Closers(m)
    BY <1>13, <1>15 DEF Sound, SameClosing, Closers
  <2> QED
    BY <1>13, <2>1, SettledIf
<1>17. Continues(m, m') /\ SameAttempts(m, m')
  <2>1. Retires(m, m')
    BY <1>13, RetiresIf
  <2>2. Isolates(m, m') /\ SameAttempts(m, m')
    BY <1>13, <1>15 DEF Sound, Inherits, Isolates, SameAttempts
  <2> QED
    BY <1>14, <2>1, <2>2 DEF Evolves, Continues
<1>18. CarriesBut(m, m', b)
  <2>1. Carries(u, m') /\ CarriesBut(m, u, b)
    BY <1>11, <1>13 DEF Sound, Inherits
  <2>2. \A c \in Bindings :
          /\ c # b => (m'.req[c].phase # "none" => m.req[c].phase # "none")
          /\ m'.result[c] = "accepted" => m.result[c] = "accepted"
    BY <2>1 DEF Carries, CarriesBut
  <2>3. ASSUME NEW z \in Slots, NEW i \in 1..Len(Out(m', z)),
               Out(m', z)[i].kind = "req", Out(m', z)[i].b # b
        PROVE  \E j \in 1..Len(Out(m, z)) : IsRequest(Out(m, z)[j],
                                                      Out(m', z)[i].b)
    <3>1. PICK j \in 1..Len(Out(u, z)) : IsRequest(Out(u, z)[j],
                                                   Out(m', z)[i].b)
      BY <2>1, <2>3 DEF Carries
    <3>2. Out(u, z)[j].kind = "req" /\ Out(u, z)[j].b = Out(m', z)[i].b
      BY <3>1 DEF IsRequest
    <3>3. PICK k \in 1..Len(Out(m, z)) : IsRequest(Out(m, z)[k],
                                                   Out(u, z)[j].b)
      BY <2>1, <2>3, <3>2 DEF CarriesBut
    <3> QED
      BY <3>2, <3>3
  <2> QED
    BY <2>2, <2>3 DEF CarriesBut
<1> QED
  BY <1>2, <1>4, <1>16, <1>17, <1>18

(* The other changes of the request of b.                                  *)
LEMMA FinishMaterializationFollows ==
  ASSUME Settled(m), NEW b \in Bindings, FinishMaterialization(b)
  PROVE  Follows(m, m')
<1> DEFINE t == [m EXCEPT !.req[b].phase = "materialized",
                          !.req[b].handed = TRUE]
           r == [m.req[b] EXCEPT !.phase = "materialized", !.handed = TRUE]
<1>1. /\ Sound(m, m, {}, {}, Closers(m)) /\ IsState(m) /\ Fifo(m)
      /\ m.req \in [Bindings -> Requests] /\ RequestOK(m.req[b])
  BY SettledFacts DEF Fifo, FifoType
<1>2. /\ m.req[b].phase = "materializing"
      /\ \/ m' = MaterializationFailed(m, b)
         \/ m.req[b].owned /\ \E S : m' = SignalSlots(t, S)
  BY DEF FinishMaterialization
<1>3. CASE m' = MaterializationFailed(m, b)
  <2>1. Sound(m, m', {}, {}, Closers(m)) /\ Retires(m, m')
    BY <1>1, <1>2, <1>3, MaterializationFailedSound,
       MaterializationFailedRetires
  <2> QED
    BY <2>1, FollowsSound
<1>4. CASE m.req[b].owned /\ \E S : m' = SignalSlots(t, S)
  <2>1. Rephased(m, t, b, r)
    BY <1>1 DEF Rephased, Same, IsState, MFields
  <2>2. r \in Requests /\ r.owned /\ ~r.canceled /\ r.phase = "materialized"
    <3>1. m.req[b] \in Requests /\ ~m.req[b].canceled
      BY <1>1, <1>4 DEF RequestOK
    <3> QED
      BY <1>4, <3>1 DEF Requests, Phases
  <2> HIDE DEF t, r
  <2>3. Sound(m, t, {}, {}, Closers(m)) /\ Orphans(t) = Orphans(m)
    BY <1>1, <1>2, <1>4, <2>1, <2>2, RephasedSound
  <2>4. Orphaned(m, t, {})
    BY <2>3 DEF Sound, Evolves, Orphaned, Fifo, FifoType
  <2>5. Sound(m, m', {}, {}, Closers(m)) /\ Orphaned(m, m', {})
    BY <1>4, <2>3, <2>4, SignalSlotsSound, SignalSlotsHolds, HoldsOrphaned
       DEF Orphaned
  <2> QED
    BY <2>5, RetiresIf, FollowsSound
<1> QED
  BY <1>2, <1>3, <1>4

(* PrepareReservedProxyRequest and TryTakePrepareReservation.              *)
LEMMA RephasedFollows ==
  ASSUME Settled(m), NEW b \in Bindings, PrepareReserved(b) \/ TakeReservation(b)
  PROVE  Follows(m, m')
<1> DEFINE r == m'.req[b]
<1>1. /\ Sound(m, m, {}, {}, Closers(m)) /\ IsState(m) /\ Fifo(m)
      /\ m.req \in [Bindings -> Requests] /\ RequestOK(m.req[b])
  BY SettledFacts DEF Fifo, FifoType
<1>2. m.req[b].owned /\ m.req[b].phase = "reserved"
  BY DEF PrepareReserved, TakeReservation
<1>3. m.req[b] \in Requests /\ ~m.req[b].canceled
  BY <1>1, <1>2 DEF RequestOK
<1>4. PICK x \in Requests : /\ m' = [m EXCEPT !.req[b] = x]
                            /\ x.owned /\ ~x.canceled
                            /\ \/ x.phase = "reserved" /\ x.handed
                               \/ x.phase = "materializing"
  <2>1. CASE PrepareReserved(b)
    <3> DEFINE y == [m.req[b] EXCEPT !.phase = "materializing"]
    <3>1. m' = [m EXCEPT !.req[b] = y]
      BY <2>1 DEF PrepareReserved
    <3>2. /\ /\ y \in Requests
          /\ y.owned
          /\ ~y.canceled
          /\ y.phase = "materializing"
      BY <1>2, <1>3 DEF Requests, Phases
    <3> HIDE DEF y
    <3> QED
      BY <3>1, <3>2
  <2>2. CASE TakeReservation(b)
    <3> DEFINE y == [m.req[b] EXCEPT !.handed = TRUE]
    <3>1. m' = [m EXCEPT !.req[b] = y]
      BY <2>2 DEF TakeReservation
    <3>2. /\ y \in Requests /\ y.owned /\ ~y.canceled /\ y.phase = "reserved"
          /\ y.handed = TRUE
      BY <1>2, <1>3 DEF Requests, Phases
    <3> HIDE DEF y
    <3> QED
      BY <3>1, <3>2
  <2> QED
    BY <2>1, <2>2
<1>5. Rephased(m, m', b, x)
  BY <1>1, <1>4 DEF Rephased, Same, IsState, MFields
<1>6. Sound(m, m', {}, {}, Closers(m)) /\ Orphans(m') = Orphans(m)
  <2>1. \/ x.phase = "reserved" /\ x.handed /\ m.req[b].phase = "reserved"
        \/ x.phase \in {"materializing", "materialized"}
    BY <1>2, <1>4
  <2>2. /\ x.owned
        /\ ~x.canceled
        /\ m.req[b].phase \in {"reserved", "materializing"}
    BY <1>2, <1>4
  <2> QED
    BY <1>1, <1>2, <1>5, <2>1, <2>2, RephasedSound
<1>7. Orphaned(m, m', {})
  BY <1>6 DEF Sound, Evolves, Orphaned, Fifo, FifoType
<1> QED
  BY <1>6, <1>7, RetiresIf, FollowsSound

(* A reservation used with the wrong request retires its binding.          *)
LEMMA PrepareMismatchFollows ==
  ASSUME Settled(m), NEW b \in Bindings, PrepareMismatch(b)
  PROVE  Follows(m, m')
<1> DEFINE c  == CancelRequest(m, {b})
           st == IF m.req[b].owned /\ m.req[b].phase = "reserved" THEN c ELSE m
<1>1. /\ Sound(m, m, {}, {}, Closers(m)) /\ IsState(m) /\ Fifo(m)
      /\ \A x \in Bindings : x \in Closers(m) <=> m.b[x].closeStarted
      /\ Orphaned(m, m, {}) /\ Retires(m, m)
  BY SettledFacts, RetiresRefl
<1>2. m' = Terminalize(st, b, "rejected")
  BY DEF PrepareMismatch
<1>3. Sound(m, st, {}, {}, Closers(m)) /\ Retires(m, st)
  <2>1. CASE m.req[b].owned /\ m.req[b].phase = "reserved"
    <3>1. Sound(m, c, {}, {}, Closers(m))
      BY <1>1, CancelRequestSound
    <3>2. \A x \in {b} : m.req[x].phase \in {"materializing", "attempting"} =>
            x \in {}
      BY <2>1
    <3>3. Orphaned(m, c, {} \cup {})
      BY <1>1, <3>2, CancelRequestOrphaned
    <3>4. {} \cup {} = {}
      OBVIOUS
    <3>5. Retires(m, c)
      BY <3>3, <3>4, RetiresIf
    <3> QED
      BY <2>1, <3>1, <3>5
  <2>2. CASE ~(m.req[b].owned /\ m.req[b].phase = "reserved")
    BY <1>1, <2>2
  <2> QED
    BY <2>1, <2>2
<1> HIDE DEF st
<1>4. st.b[b].closeStarted => b \in Closers(m)
  BY <1>3 DEF Sound, SameClosing, Closers
<1>5. Sound(m, m', {}, {}, Closers(m))
  BY <1>2, <1>3, <1>4, TerminalizeSound
<1>6. Fifo(st) /\ IsState(st)
  BY <1>3 DEF Sound, Evolves
<1>7. Retires(st, m') /\ Evolves(st, m')
  BY <1>2, <1>6, TerminalizeRetires, EvolvesRefl, TerminalizeEvolves
<1>8. Retires(m, m')
  BY <1>3, <1>7, RetiresTrans
<1> QED
  BY <1>5, <1>8, FollowsSound

(* PrepareReservedProxyRequest with another binding's reservation.         *)
LEMMA PrepareForeignFollows ==
  ASSUME Settled(m), NEW b \in Bindings, PrepareForeign(b)
  PROVE  Follows(m, m')
<1> DEFINE c == CancelRequest(m, {b})
           d == DetachActive(c, {b})
           p == PublishTerminal(d, {b}, "rejected")
           f == ReleaseTerminal(p, {b})
<1>1. /\ Sound(m, m, {}, {}, Closers(m)) /\ IsState(m) /\ Fifo(m)
      /\ Orphaned(m, m, {})
  BY SettledFacts, RetiresRefl
<1>2. m' = f /\ m.req[b].phase = "reserved"
  BY DEF PrepareForeign
<1>3. Sound(m, c, {}, {}, Closers(m)) /\ Orphaned(m, c, {})
  <2>1. Sound(m, c, {}, {}, Closers(m))
    BY <1>1, CancelRequestSound
  <2>2. \A x \in {b} : m.req[x].phase \in {"materializing", "attempting"} =>
          x \in {}
    BY <1>2
  <2>3. Orphaned(m, c, {} \cup {})
    BY <1>1, <2>2, CancelRequestOrphaned
  <2>4. {} \cup {} = {}
    OBVIOUS
  <2> QED
    BY <2>1, <2>3, <2>4
<1> HIDE DEF c
<1>4. Sound(m, d, {}, {}, Closers(m)) /\ Orphaned(m, d, {}) /\ ~d.b[b].active
  <2>1. IsState(c)
    BY <1>3 DEF Orphaned
  <2>2. Sound(m, d, {}, {}, Closers(m)) /\ Orphaned(m, d, {})
    BY <1>3, <2>1, DetachActiveSound, DetachActiveHolds, HoldsOrphaned
  <2>3. d.b[b] = [c.b[b] EXCEPT !.active = FALSE] /\ DOMAIN c.b[b] = LifeFields
    BY <2>1, DetachActiveLaw DEF IsState, IsLife
  <2>4. d.b[b].active = FALSE
    BY <2>3 DEF LifeFields
  <2> QED
    BY <2>2, <2>4
<1> HIDE DEF d
<1>5. Sound(m, p, {}, {}, Closers(m)) /\ Orphaned(m, p, {})
  <2>1. Sound(m, p, {} \ {b}, {} \ {b}, Closers(m))
    BY <1>4, PublishTerminalSound
  <2>2. {} \ {b} = {}
    OBVIOUS
  <2>3. Orphaned(m, p, {})
    BY <1>4, PublishTerminalHolds, HoldsOrphaned DEF Orphaned
  <2> QED
    BY <2>1, <2>2, <2>3
<1> HIDE DEF p
<1>6. Sound(m, f, {}, {}, Closers(m)) /\ Orphaned(m, f, {})
  BY <1>5, ReleaseTerminalSound, ReleaseTerminalHolds, HoldsOrphaned
     DEF Orphaned
<1> HIDE DEF f
<1> QED
  BY <1>2, <1>6, RetiresIf, FollowsSound

-----------------------------------------------------------------------------
(* Reading the reasons of a token.                                         *)

(* popBindingEventLocked cancels no request.                               *)
LEMMA PopEventHolds ==
  ASSUME NEW st, IsState(st), NEW b
  PROVE  Holds(st, PopEvent(st, b))
<1> DEFINE e == Head(st.queue[b])
           s == SlotOf(st, b)
           t == [st EXCEPT !.queue[b] = Tail(@),
                   !.use[s].respItems = @ - 1,
                   !.use[s].respBytes = @ - e.size,
                   !.all.respItems = @ - 1,
                   !.all.respBytes = @ - e.size]
<1>1. Quiet(st, t) /\ t.req = st.req /\ t.waitQ = st.waitQ
  <2> HIDE DEF e, s
  <2> QED
    BY DEF Quiet, IsState, MFields
<1>2. PopEvent(st, b) = ReleaseTerminal(t, {b})
  BY DEF PopEvent
<1> HIDE DEF t
<1>3. IsState(t)
  BY <1>1, EvolvesRefl, QuietEvolves DEF Evolves
<1>4. Holds(t, ReleaseTerminal(t, {b}))
  BY <1>3, ReleaseTerminalHolds
<1> QED
  BY <1>1, <1>2, <1>4 DEF Holds

(* The consumer mode of b is chosen; what it reports stays the same.       *)
LEMMA ModeSound ==
  ASSUME NEW o, NEW st, NEW X, NEW Y, NEW Q, Sound(o, st, X, Y, Q),
         NEW b \in Bindings, NEW mode,
         mode = "blocking" \/ st.b[b].mode # "blocking"
  PROVE  /\ Sound(o, [st EXCEPT !.b[b].mode = mode], X, Y, Q)
         /\ Holds(st, [st EXCEPT !.b[b].mode = mode])
         /\ [st EXCEPT !.b[b].mode = mode].queue = st.queue
         /\ [st EXCEPT !.b[b].mode = mode].nextID = st.nextID
<1> DEFINE t == [st EXCEPT !.b[b].mode = mode]
<1>1. IsState(st)
  BY DEF Sound, Evolves
<1>2. Evolves(o, t)
  BY ModeEvolves DEF Sound
<1>3. /\ Same(st, t, {"b"}) /\ t.b[b] = [st.b[b] EXCEPT !.mode = mode]
      /\ \A c \in Bindings \ {b} : t.b[c] = st.b[c]
  BY <1>1 DEF Same, IsState, MFields
<1>4. DOMAIN st.b[b] = LifeFields
  BY <1>1 DEF IsState, IsLife
<1> HIDE DEF t
<1>5. /\ t.b[b].mode = mode
      /\ t.b[b].terminal = st.b[b].terminal
      /\ t.b[b].observed = st.b[b].observed
      /\ t.b[b].closeStarted = st.b[b].closeStarted
      /\ t.b[b].localClosing = st.b[b].localClosing
      /\ t.b[b].active = st.b[b].active
      /\ t.b[b].resident = st.b[b].resident
      /\ t.b[b].remoteClosed = st.b[b].remoteClosed
  BY <1>3, <1>4 DEF LifeFields
<1>6. /\ t.req = st.req /\ t.waitQ = st.waitQ /\ t.queue = st.queue
      /\ t.result = st.result /\ t.nextID = st.nextID
  BY <1>3 DEF Same, MFields
<1>7. \A c \in Bindings : HasReadyReason(t, c) => c \in X \/ HasReadyReason(st, c)
  BY <1>3, <1>5, <1>6 DEF HasReadyReason
<1>8. SameClosing(o, t)
  BY <1>3, <1>5 DEF Sound, SameClosing
<1>9. \A c \in Bindings : /\ t.b[c].active = st.b[c].active
                          /\ LifeOK(t.b[c])
                          /\ t.b[c].terminal => c \in Y \/ st.b[c].terminal
  BY <1>3, <1>5 DEF Sound, Fifo, LifeOK
<1>10. Sound(o, t, X, Y, Q)
  BY <1>2, <1>3, <1>7, <1>8, <1>9, SoundReasons
<1> QED
  BY <1>2, <1>6, <1>10 DEF t, Holds, Evolves

(* The terminal state of b has been observed.                              *)
LEMMA ObservedSound ==
  ASSUME NEW o, NEW st, NEW X, NEW Y, NEW Q, Sound(o, st, X, Y, Q),
         NEW b \in Bindings
  PROVE  /\ Sound(o, [st EXCEPT !.b[b].observed = TRUE], X, Y, Q)
         /\ Holds(st, [st EXCEPT !.b[b].observed = TRUE])
<1> DEFINE t == [st EXCEPT !.b[b].observed = TRUE]
<1>1. IsState(st)
  BY DEF Sound, Evolves
<1>2. Evolves(o, t)
  BY ObservedEvolves DEF Sound
<1>3. /\ Same(st, t, {"b"}) /\ t.b[b] = [st.b[b] EXCEPT !.observed = TRUE]
      /\ \A c \in Bindings \ {b} : t.b[c] = st.b[c]
  BY <1>1 DEF Same, IsState, MFields
<1>4. DOMAIN st.b[b] = LifeFields
  BY <1>1 DEF IsState, IsLife
<1> HIDE DEF t
<1>5. /\ t.b[b].mode = st.b[b].mode
      /\ t.b[b].terminal = st.b[b].terminal
      /\ t.b[b].observed = TRUE
      /\ t.b[b].closeStarted = st.b[b].closeStarted
      /\ t.b[b].localClosing = st.b[b].localClosing
      /\ t.b[b].active = st.b[b].active
      /\ t.b[b].resident = st.b[b].resident
      /\ t.b[b].remoteClosed = st.b[b].remoteClosed
  BY <1>3, <1>4 DEF LifeFields
<1>6. /\ t.req = st.req /\ t.waitQ = st.waitQ /\ t.queue = st.queue
      /\ t.result = st.result
  BY <1>3 DEF Same, MFields
<1>7. \A c \in Bindings : HasReadyReason(t, c) => c \in X \/ HasReadyReason(st, c)
  BY <1>3, <1>5, <1>6 DEF HasReadyReason
<1>8. SameClosing(o, t)
  BY <1>3, <1>5 DEF Sound, SameClosing
<1>9. \A c \in Bindings : /\ t.b[c].active = st.b[c].active
                          /\ LifeOK(t.b[c])
                          /\ t.b[c].terminal => c \in Y \/ st.b[c].terminal
  BY <1>3, <1>5 DEF Sound, Fifo, LifeOK
<1>10. Sound(o, t, X, Y, Q)
  BY <1>2, <1>3, <1>7, <1>8, <1>9, SoundReasons
<1> QED
  BY <1>2, <1>6, <1>10 DEF t, Holds, Evolves

(* Two sections that cancel no request, in sequence.                       *)
LEMMA HoldsTrans ==
  ASSUME NEW st, NEW t, Holds(st, t), NEW u, Holds(t, u)
  PROVE  Holds(st, u)
BY DEF Holds

(* The readers of a token.                                                 *)
LEMMA ReadFollows ==
  ASSUME Settled(m), NEW b \in Bindings,
         TakeResult(b) \/ TryNextEvent(b) \/ TryTerminal(b)
  PROVE  Follows(m, m')
<1>1. /\ Sound(m, m, {}, {}, Closers(m)) /\ IsState(m) /\ Fifo(m)
  BY SettledFacts
<1>2. CASE TakeResult(b)
  <2> DEFINE t == DropResult(m, {b})
  <2>1. m' = ReleaseTerminal(t, {b})
    BY <1>2 DEF TakeResult
  <2>2. Sound(m, t, {}, {}, Closers(m)) /\ Holds(m, t)
    BY <1>1, DropResultSound, ClearQueueHolds
  <2> HIDE DEF t
  <2>3. Sound(m, m', {}, {}, Closers(m)) /\ Holds(t, m')
    BY <2>1, <2>2, ReleaseTerminalSound, ReleaseTerminalHolds DEF Holds
  <2> QED
    BY <2>2, <2>3, HoldsTrans, FollowsHolds
<1>3. CASE TryNextEvent(b)
  <2> DEFINE t == [m EXCEPT !.b[b].mode = "token"]
  <2>1. m' = t \/ (m.queue[b] # <<>> /\ m' = PopEvent(t, b))
    BY <1>3 DEF TryNextEvent
  <2>2. m.b[b].mode # "blocking"
    BY <1>3 DEF TryNextEvent
  <2>3. /\ Sound(m, t, {}, {}, Closers(m)) /\ Holds(m, t)
        /\ t.queue = m.queue /\ t.nextID = m.nextID
    BY <1>1, <2>2, ModeSound
  <2> HIDE DEF t
  <2>4. m.queue[b] # <<>> => b < t.nextID
    BY <1>1, <2>3 DEF Fifo, Unborn
  <2>5. CASE m' = t
    BY <2>3, <2>5, FollowsHolds
  <2>6. CASE m.queue[b] # <<>> /\ m' = PopEvent(t, b)
    <3>1. Sound(m, m', {}, {}, Closers(m)) /\ Holds(t, m')
      BY <2>3, <2>4, <2>6, PopEventSound, PopEventHolds DEF Holds
    <3> QED
      BY <2>3, <3>1, HoldsTrans, FollowsHolds
  <2> QED
    BY <2>1, <2>5, <2>6
<1>4. CASE TryTerminal(b)
  <2> DEFINE t == [m EXCEPT !.b[b].observed = TRUE]
  <2>1. m' = ReleaseTerminal(t, {b})
    BY <1>4 DEF TryTerminal
  <2>2. Sound(m, t, {}, {}, Closers(m)) /\ Holds(m, t)
    BY <1>1, ObservedSound
  <2> HIDE DEF t
  <2>3. Sound(m, m', {}, {}, Closers(m)) /\ Holds(t, m')
    BY <2>1, <2>2, ReleaseTerminalSound, ReleaseTerminalHolds DEF Holds
  <2> QED
    BY <2>2, <2>3, HoldsTrans, FollowsHolds
<1> QED
  BY <1>2, <1>3, <1>4

(* enqueueReadyLocked cancels no request.                                  *)
LEMMA EnqueueReadyHolds ==
  ASSUME NEW st, IsState(st), NEW B
  PROVE  Holds(st, EnqueueReady(st, B)) /\ Holds(st, UnlinkReady(st, B))
<1>1. Evolves(st, EnqueueReady(st, B)) /\ Evolves(st, UnlinkReady(st, B))
  BY EvolvesRefl, EnqueueReadyEvolves, UnlinkReadyEvolves
<1>2. /\ /\ EnqueueReady(st, B).req = st.req
      /\ EnqueueReady(st, B).waitQ = st.waitQ
      /\ UnlinkReady(st, B).req = st.req /\ UnlinkReady(st, B).waitQ = st.waitQ
  BY DEF EnqueueReady, UnlinkReady, IsState, MFields
<1> QED
  BY <1>1, <1>2 DEF Holds, Evolves

(* Ack.                                                                    *)
LEMMA AckFollows ==
  ASSUME Settled(m), NEW b \in Bindings, Ack(b)
  PROVE  Follows(m, m')
<1> DEFINE l == [m.leased EXCEPT ![b] = FALSE]
           t == [m EXCEPT !.leased = l]
           e == EnqueueReady(t, {b})
<1>1. /\ Sound(m, m, {}, {}, Closers(m)) /\ IsState(m) /\ Fifo(m)
      /\ m.leased \in [Bindings -> BOOLEAN]
  BY SettledFacts DEF Sound, Heard
<1>2. m' = ReleaseTerminal(e, {b})
  BY DEF Ack
<1>3. l \in [Bindings -> BOOLEAN] /\ \A c \in Bindings \ {b} : m.leased[c] => l[c]
  BY <1>1
<1> HIDE DEF l
<1>4. Sound(m, t, {} \cup {b}, {}, Closers(m))
  BY <1>1, <1>3, LeasedSound
<1>5. Holds(m, t)
  <2>1. t.req = m.req /\ t.waitQ = m.waitQ /\ IsState(t)
    BY <1>1, <1>4 DEF IsState, MFields, Sound, Evolves
  <2> QED
    BY <2>1 DEF Holds
<1> HIDE DEF t
<1>6. Sound(m, e, {}, {}, Closers(m)) /\ Holds(m, e)
  <2>1. Sound(m, e, ({} \cup {b}) \ {b}, {}, Closers(m))
    BY <1>4, EnqueueReadySound
  <2>2. ({} \cup {b}) \ {b} = {}
    OBVIOUS
  <2>3. Holds(t, e)
    BY <1>5, EnqueueReadyHolds DEF Holds
  <2> QED
    BY <1>5, <2>1, <2>2, <2>3, HoldsTrans
<1> HIDE DEF e
<1>7. Sound(m, m', {}, {}, Closers(m)) /\ Holds(e, m')
  BY <1>2, <1>6, ReleaseTerminalSound, ReleaseTerminalHolds DEF Holds
<1> QED
  BY <1>6, <1>7, HoldsTrans, FollowsHolds

(* A caller of NextEvent that is left waiting has nothing to receive.      *)
LEMMA NextEventFollows ==
  ASSUME Settled(m), NEW b \in Bindings, NextEvent(b)
  PROVE  /\ Follows(m, m')
         /\ \/ blocked' = blocked
            \/ /\ blocked' = blocked \cup {b}
               /\ m'.queue[b] = <<>> /\ ~m'.b[b].terminal
<1> DEFINE t  == [m EXCEPT !.b[b].mode = "blocking"]
           r  == RefreshReady(t, b)
           st == IF m.b[b].mode = "unset" THEN r ELSE m
           v  == [st EXCEPT !.b[b].observed = TRUE]
<1>1. /\ Sound(m, m, {}, {}, Closers(m)) /\ IsState(m) /\ Fifo(m)
  BY SettledFacts
<1>2. /\ b < m.nextID
      /\ \/ st.queue[b] # <<>> /\ m' = PopEvent(st, b) /\ blocked' = blocked
         \/ m' = ReleaseTerminal(v, {b}) /\ blocked' = blocked
         \/ /\ st.queue[b] = <<>> /\ ~st.b[b].terminal
            /\ m' = st /\ blocked' = blocked \cup {b}
  BY DEF NextEvent, Allocated
<1>3. Sound(m, st, {}, {}, Closers(m)) /\ Holds(m, st)
  <2>1. Sound(m, t, {}, {}, Closers(m)) /\ Holds(m, t)
    BY <1>1, ModeSound
  <2> HIDE DEF t
  <2>2. Sound(m, r, {} \ {b}, {}, Closers(m))
    BY <2>1, RefreshReadySound
  <2>3. {} \ {b} = {}
    OBVIOUS
  <2>4. Holds(t, r)
    <3>1. IsState(t)
      BY <2>1 DEF Holds
    <3>2. Holds(t, UnlinkReady(t, {b})) /\ Holds(t, t)
      BY <3>1, EnqueueReadyHolds DEF Holds
    <3>3. Holds(UnlinkReady(t, {b}), EnqueueReady(UnlinkReady(t, {b}), {b}))
      BY <3>2, EnqueueReadyHolds DEF Holds
    <3> QED
      BY <3>2, <3>3, HoldsTrans DEF RefreshReady
  <2> HIDE DEF r
  <2>5. Sound(m, r, {}, {}, Closers(m)) /\ Holds(m, r)
    BY <2>1, <2>2, <2>3, <2>4, HoldsTrans
  <2>6. Holds(m, m)
    BY <1>1 DEF Holds
  <2> QED
    BY <1>1, <2>5, <2>6
<1> HIDE DEF st
<1>4. ASSUME st.queue[b] # <<>>
      PROVE  Follows(m, PopEvent(st, b))
  <2>1. b < st.nextID
    BY <1>2, <1>3 DEF Sound, Evolves
  <2>2. /\ Sound(m, PopEvent(st, b), {}, {}, Closers(m))
        /\ Holds(st, PopEvent(st, b))
    BY <1>3, <1>4, <2>1, PopEventSound, PopEventHolds DEF Holds
  <2> QED
    BY <1>3, <2>2, HoldsTrans, FollowsHolds
<1>5. Follows(m, ReleaseTerminal(v, {b}))
  <2>1. Sound(m, v, {}, {}, Closers(m)) /\ Holds(st, v)
    BY <1>3, ObservedSound
  <2> HIDE DEF v
  <2>2. /\ Sound(m, ReleaseTerminal(v, {b}), {}, {}, Closers(m))
        /\ Holds(v, ReleaseTerminal(v, {b}))
    BY <2>1, ReleaseTerminalSound, ReleaseTerminalHolds DEF Holds
  <2> QED
    BY <1>3, <2>1, <2>2, HoldsTrans, FollowsHolds
<1>6. Follows(m, st)
  BY <1>3, FollowsHolds
<1> QED
  BY <1>2, <1>4, <1>5, <1>6

(* beginClose.                                                             *)
LEMMA BeginCloseFollows ==
  ASSUME Settled(m), NEW b \in Bindings, BeginClose(b)
  PROVE  Follows(m, m')
<1>1. Settled(m') /\ Retires(m, m') /\ Evolves(m, m') /\ Inherits(m, m')
  BY BeginCloseSound
<1> QED
  BY <1>1 DEF Follows, Continues, Isolates, Inherits, SameAttempts, Evolves

-----------------------------------------------------------------------------
(* The consumers' and the probers' steps.                                  *)

(* routeEvent, for the events that name a connection.                      *)
LEMMA RouteEventFollows ==
  ASSUME Settled(m), Lawful(m), NEW s \in Slots, NEW b \in Bindings, NEW e,
         RouteEvent(s, b, e)
  PROVE  Follows(m, m')
<1>1. /\ Sound(m, m, {}, {}, Closers(m)) /\ IsState(m) /\ Fifo(m)
      /\ \A c \in Bindings : c \in Closers(m) <=> m.b[c].closeStarted
      /\ \A c \in Residents(m) : c < m.nextID
  BY SettledFacts DEF Lawful
<1>2. /\ b < m.nextID
      /\ \/ m' = m
         \/ m' = Deliver(m, b, e)
         \/ ~m.b[b].resident /\ m' = QueueControl(m, s, "reap", b)
  BY DEF RouteEvent, Allocated
<1>3. CASE m' = m
  BY <1>3, FollowsRefl
<1>4. CASE m' = Deliver(m, b, e)
  <2>1. Sound(m, m', {}, {}, Closers(m)) /\ Retires(m, m')
    BY <1>1, <1>2, <1>4, DeliverSound, DeliverRetires
  <2> QED
    BY <2>1, FollowsSound
<1>5. CASE ~m.b[b].resident /\ m' = QueueControl(m, s, "reap", b)
  <2>1. ~m.b[b].active
    BY <1>1, <1>5 DEF Fifo, LifeOK
  <2>2. Sound(m, m', {}, {}, Closers(m)) /\ Holds(m, m')
    BY <1>1, <1>2, <1>5, <2>1, QueueControlSound, QueueControlHolds
  <2> QED
    BY <2>2, FollowsHolds
<1> QED
  BY <1>2, <1>3, <1>4, <1>5

(* The pong, the expiry and the cancellation of a probe.                   *)
LEMMA ProbeEndsFollows ==
  ASSUME Settled(m), NEW s \in Slots,
         RoutePong(s) \/ \E next : ProbeExpires(s, next)
  PROVE  Follows(m, m')
<1>1. Sound(m, m, {}, {}, Closers(m)) /\ IsState(m)
  BY SettledFacts
<1>2. PICK ok : m' = CompleteProbe(m, {s}, ok)
  BY DEF RoutePong, ProbeExpires
<1>3. Sound(m, m', {}, {}, Closers(m)) /\ Holds(m, m')
  BY <1>1, <1>2, CompleteProbeSound, CompleteProbeHolds
<1> QED
  BY <1>3, FollowsHolds

(* Appending a control item cancels no request.                            *)
LEMMA PutControlHolds ==
  ASSUME NEW st, IsState(st), NEW s, NEW item
  PROVE  Holds(st, PutControl(st, s, item))
<1>1. Evolves(st, PutControl(st, s, item))
  BY EvolvesRefl, PutControlEvolves
<1> DEFINE t == AppendOut(st, s, item)
           u == AddControl(t, s, 1)
           S == IF st.s[s].out = <<>> THEN {s} ELSE {}
<1> HIDE DEF S
<1>2. t.req = st.req /\ t.waitQ = st.waitQ /\ DOMAIN t = MFields
  BY DEF AppendOut, IsState, MFields
<1> HIDE DEF t
<1>3. u.req = t.req /\ u.waitQ = t.waitQ /\ DOMAIN u = MFields
  BY <1>2 DEF AddControl, MFields
<1> HIDE DEF u
<1>4. SignalSlots(u, S).req = u.req /\ SignalSlots(u, S).waitQ = u.waitQ
  BY <1>3 DEF SignalSlots, MFields
<1>5. PutControl(st, s, item) = SignalSlots(u, S)
  BY DEF PutControl, u, t, S
<1> QED
  BY <1>1, <1>2, <1>3, <1>4, <1>5 DEF Holds, Evolves

(* probeSlot.                                                              *)
LEMMA StartProbeFollows ==
  ASSUME Settled(m), IsEnv(env), NEW s \in Slots, StartProbe(s)
  PROVE  Follows(m, m')
<1> DEFINE id == m.probeID + 1
           p  == [NoProbe EXCEPT !.id = id, !.done = FALSE]
           t  == [m EXCEPT !.probeID = id, !.s[s].probe = p]
           i  == Item("probe", 0, id)
<1>1. /\ Sound(m, m, {}, {}, Closers(m)) /\ IsState(m) /\ Fifo(m)
      /\ Evolves(m, m)
  BY SettledFacts
<1>2. m' = PutControl(t, s, i) /\ id \in 1..env.max.probes
  BY DEF StartProbe
<1>3. id \in Nat
  <2>1. env.max.probes \in Nat
    BY ConstantsAssumption DEF IsEnv, ScenarioOK
  <2> QED
    BY <1>2, <2>1
<1> HIDE DEF id, p
<1>4. /\ i \in OutItems /\ i.kind = "probe"
  BY <1>3 DEF Item, OutItems
<1>5. DOMAIN m.s = Slots /\ \A z \in Slots : DOMAIN m.s[z] = SlotFields
  BY <1>1 DEF Fifo, FifoType
<1>6. /\ Same(m, t, {"s", "use", "all", "probeID"}) /\ Quiet(m, t)
      /\ DOMAIN t.s = Slots /\ t.s[s] = [m.s[s] EXCEPT !.probe = p]
      /\ \A z \in Slots \ {s} : t.s[z] = m.s[z]
      /\ t.req = m.req /\ t.waitQ = m.waitQ
  BY <1>1, <1>5 DEF Same, Quiet, IsState, MFields
<1> HIDE DEF t, i
<1>7. SameFifos(m, t)
  BY <1>5, <1>6 DEF SameFifos, SlotFields, Out
<1>8. Evolves(m, t)
  BY <1>1, <1>6, QuietEvolves
<1>9. Sound(m, t, {}, {}, Closers(m)) /\ Holds(m, t)
  BY <1>1, <1>6, <1>7, <1>8, SoundFlags DEF Holds, Evolves
<1>10. ItemOpen(t, s, i) /\ i.kind # "req"
  BY <1>4 DEF ItemOpen
<1>11. Sound(m, m', {}, {}, Closers(m)) /\ Holds(t, m')
  BY <1>2, <1>4, <1>9, <1>10, PutControlSound, PutControlHolds DEF Holds
<1> QED
  BY <1>9, <1>11, HoldsTrans, FollowsHolds

(* The consumer of s begins to submit the head of its FIFO.                *)
Begins(st, t, s) ==
  LET h == Out(st, s)[1]
  IN  /\ Same(st, t, {"s", "req"})
      /\ t.s = [st.s EXCEPT ![s].attempting = TRUE]
      /\ \/ h.kind # "req" /\ t.req = st.req
         \/ /\ h.kind = "req" /\ st.req[h.b].phase = "materialized"
            /\ t.req = [st.req EXCEPT ![h.b].phase = "attempting"]

(* What the beginning of a submission leaves alone.                        *)
Begun(st, t, s) ==
  /\ Orphans(t) = Orphans(st) /\ t.b = st.b /\ t.nextID = st.nextID
  /\ \A z \in Slots : t.s[z].failed = st.s[z].failed
  /\ t.s[s].attempting = TRUE
  /\ \A z \in Slots \ {s} : t.s[z].attempting = st.s[z].attempting

(* dispatchSlotOnce, up to the call of TrySubmit.                          *)
LEMMA BeginsSound ==
  ASSUME NEW st, NEW Q, Sound(st, st, {}, {}, Q), NEW s \in Slots,
         Out(st, s) # <<>>, NEW t, Begins(st, t, s)
  PROVE  /\ Sound(t, t, {}, {}, Q) /\ Carries(st, t) /\ Evolves(st, t)
         /\ Begun(st, t, s)
<1> DEFINE h == Out(st, s)[1]
<1>1. /\ t.b = st.b /\ t.state = st.state /\ t.result = st.result
      /\ t.queue = st.queue /\ t.leased = st.leased
      /\ t.notify = st.notify /\ t.readyQ = st.readyQ
      /\ t.readySig = st.readySig /\ t.waitQ = st.waitQ
  BY DEF Begins, Same, MFields
<1>2. /\ t.nextID = st.nextID /\ t.accepting = st.accepting
      /\ t.drained = st.drained /\ DOMAIN t = MFields
  BY DEF Begins, Same, MFields
<1>3. /\ IsState(st) /\ Evolves(st, st) /\ Fifo(st)
      /\ st.req \in [Bindings -> Requests]
      /\ DOMAIN st.s = Slots /\ \A z \in Slots : DOMAIN st.s[z] = SlotFields
  BY DEF Sound, Evolves, Fifo, FifoType
<1>4. Quiet(st, t)
  BY <1>1, <1>2 DEF Quiet
<1>5. Evolves(st, t) /\ Evolves(t, t)
  BY <1>3, <1>4, QuietEvolves, EvolvesRefl DEF Evolves
<1>6. ItemOpen(st, s, h)
  <2>1. 1 \in 1..Len(Out(st, s))
    BY <1>3 DEF Fifo, FifoType
  <2> QED
    BY <1>3, <2>1 DEF Fifo, ItemsOpen
<1>7. /\ DOMAIN t.s = Slots
      /\ \A z \in Slots : /\ DOMAIN t.s[z] = SlotFields
                          /\ Out(t, z) = Out(st, z)
                          /\ t.s[z].failed = st.s[z].failed
                          /\ z # s => t.s[z].attempting = st.s[z].attempting
      /\ t.s[s].attempting = TRUE
  <2>1. /\ DOMAIN t.s = Slots /\ t.s[s] = [st.s[s] EXCEPT !.attempting = TRUE]
        /\ \A z \in Slots \ {s} : t.s[z] = st.s[z]
    BY <1>3 DEF Begins
  <2>2. /\ DOMAIN t.s[s] = SlotFields /\ t.s[s].out = st.s[s].out
        /\ t.s[s].failed = st.s[s].failed /\ t.s[s].attempting = TRUE
    BY <1>3, <2>1 DEF SlotFields
  <2> QED
    BY <1>3, <2>1, <2>2 DEF Out
<1>8. ASSUME NEW c \in Bindings
      PROVE  \/ t.req[c] = st.req[c] /\ ~IsRequest(h, c)
             \/ /\ IsRequest(h, c) /\ st.req[c].phase = "materialized"
                /\ t.req[c] = [st.req[c] EXCEPT !.phase = "attempting"]
  BY <1>3, <1>6 DEF Begins, IsRequest, ItemOpen
<1>9. t.req \in [Bindings -> Requests]
  <2>1. ASSUME NEW c \in Bindings
        PROVE  t.req[c] \in Requests
    <3>1. st.req[c] \in Requests
      BY <1>3
    <3>2. [st.req[c] EXCEPT !.phase = "attempting"] \in Requests
      BY <3>1 DEF Requests, Phases
    <3> QED
      BY <1>8, <3>1, <3>2
  <2>2. t.req = st.req \/ \E b, r : t.req = [st.req EXCEPT ![b] = r]
    BY DEF Begins
  <2>3. DOMAIN t.req = Bindings /\ t.req = [c \in Bindings |-> t.req[c]]
    BY <1>3, <2>2
  <2> QED
    BY <2>1, <2>3
<1>10. ASSUME NEW c \in Bindings
       PROVE  /\ t.req[c].phase = st.req[c].phase
                 \/ (t.req[c].phase = "attempting"
                      /\ st.req[c].phase = "materialized" /\ IsRequest(h, c))
              /\ t.req[c].owned = st.req[c].owned
              /\ t.req[c].canceled = st.req[c].canceled
              /\ t.req[c].handed = st.req[c].handed
              /\ IsRequest(h, c) => t.req[c].phase = "attempting"
  <2>1. st.req[c] \in Requests
    BY <1>3
  <2> QED
    BY <1>8, <2>1 DEF Requests
<1> HIDE DEF h
<1>11. FifoType(t)
  <2>1. \A z \in Slots : t.s[z].attempting \in BOOLEAN
    BY <1>3, <1>7 DEF Fifo, FifoType
  <2> QED
    BY <1>1, <1>3, <1>7, <1>9, <2>1 DEF Fifo, FifoType
<1>12. ItemsOpen(t)
  <2>1. \A z \in Slots, i \in OutItems : ItemOpen(st, z, i) => ItemOpen(t, z, i)
    BY <1>1, <1>2, <1>10 DEF ItemOpen
  <2> QED
    BY <1>3, <1>7, <2>1 DEF Fifo, FifoType, ItemsOpen
<1>13. HeadSubmitted(t)
  <2>1. ASSUME NEW z \in Slots, t.s[z].attempting
        PROVE  /\ Out(t, z) # <<>>
               /\ Out(t, z)[1].kind = "req" =>
                    t.req[Out(t, z)[1].b].phase = "attempting"
    <3>1. CASE z = s
      BY <1>6, <1>7, <1>10, <3>1 DEF h, ItemOpen, IsRequest
    <3>2. CASE z # s
      <4>1. /\ Out(st, z) # <<>>
            /\ Out(st, z)[1].kind = "req" =>
                 st.req[Out(st, z)[1].b].phase = "attempting"
        BY <1>3, <1>7, <2>1, <3>2 DEF Fifo, HeadSubmitted
      <4>2. 1 \in 1..Len(Out(st, z))
        BY <1>3, <4>1 DEF Fifo, FifoType
      <4>3. ItemOpen(st, z, Out(st, z)[1])
        BY <1>3, <4>2 DEF Fifo, ItemsOpen
      <4>4. Out(st, z)[1].kind = "req" => Out(st, z)[1].b \in Bindings
        BY <4>3 DEF ItemOpen
      <4> QED
        BY <1>7, <1>10, <4>1, <4>4
    <3> QED
      BY <3>1, <3>2
  <2>2. ASSUME NEW c \in Bindings, t.req[c].phase = "attempting"
        PROVE  /\ t.b[c].slot \in Slots
               /\ t.s[t.b[c].slot].attempting
               /\ Out(t, t.b[c].slot) # <<>>
               /\ IsRequest(Out(t, t.b[c].slot)[1], c)
    <3>1. CASE IsRequest(h, c)
      <4>1. st.b[c].slot = s
        BY <1>6, <3>1 DEF ItemOpen, IsRequest
      <4> QED
        BY <1>1, <1>7, <3>1, <4>1 DEF h
    <3>2. CASE ~IsRequest(h, c)
      <4>1. st.req[c].phase = "attempting"
        BY <1>10, <2>2, <3>2
      <4> QED
        BY <1>1, <1>3, <1>7, <4>1 DEF Fifo, HeadSubmitted
    <3> QED
      BY <3>1, <3>2
  <2> QED
    BY <2>1, <2>2 DEF HeadSubmitted
<1>14. WaitersOpen(t)
  <2>1. \A i \in 1..Len(st.waitQ) : st.waitQ[i] \in Bindings
    BY <1>3 DEF Fifo, FifoType
  <2> QED
    BY <1>1, <1>3, <1>10, <2>1 DEF Fifo, WaitersOpen
<1>15. \A c \in Bindings : RequestOK(t.req[c]) /\ LifeOK(t.b[c])
  BY <1>1, <1>3, <1>10 DEF Fifo, RequestOK
<1>16. Unborn(t)
  BY <1>1, <1>2, <1>3, <1>10 DEF Fifo, Unborn
<1>17. Fifo(t)
  BY <1>11, <1>12, <1>13, <1>14, <1>15, <1>16 DEF Fifo
<1>18. \A c \in Bindings : HasReadyReason(t, c) => HasReadyReason(st, c)
  BY <1>1, <1>10 DEF HasReadyReason
<1>19. Heard(t, {}, {}, Q)
  <2>1. \A c \in Q : c \in Bindings /\ Quietened(t, c)
    BY <1>1, <1>10 DEF Sound, Heard, Quietened, InFlight
  <2> QED
    BY <1>1, <1>18, <2>1 DEF Sound, Heard, IsQueued
<1>20. SameClosing(t, t)
  BY <1>1 DEF Sound, SameClosing
<1>21. Inherits(t, t)
  BY DEF Inherits, Carries, IsRequest
<1>22. Carries(st, t)
  BY <1>1, <1>7, <1>10 DEF Carries, IsRequest
<1>23. Orphans(t) = Orphans(st)
  BY <1>10 DEF Orphans
<1> QED
  BY <1>1, <1>2, <1>5, <1>7, <1>17, <1>19, <1>20, <1>21, <1>22, <1>23
     DEF Sound, Begun

(* The consumers' steps change the submissions under way only of their     *)
(* own slot.                                                               *)
LEMMA DispatchFollows ==
  ASSUME Settled(m), NEW s \in Slots, Dispatch(s)
  PROVE  /\ Settled(m') /\ Continues(m, m') /\ Carries(m, m')
         /\ \A z \in Slots \ {s} : m'.s[z].attempting = m.s[z].attempting
         /\ \/ consumer' = consumer
               /\ m'.s[s].attempting = m.s[s].attempting
            \/ m'.s[s].attempting
<1> DEFINE i  == Head(m.s[s].out)
           w  == [m EXCEPT !.s[s].wake = FALSE]
           at(x) ==
             LET st1 == [x EXCEPT !.s[s].attempting = TRUE]
             IN  IF i.kind = "req"
                 THEN [st1 EXCEPT !.req[i.b].phase = "attempting"] ELSE st1
<1>1. /\ Sound(m, m, {}, {}, Closers(m)) /\ IsState(m) /\ Fifo(m)
      /\ Evolves(m, m)
  BY SettledFacts
<1>2. DOMAIN m.s = Slots /\ \A z \in Slots : DOMAIN m.s[z] = SlotFields
  BY <1>1 DEF Fifo, FifoType
<1>3. PICK st \in {m, w} :
        /\ IF Dispatchable(st, s) THEN m' = at(st) ELSE m' = st
        /\ IF Dispatchable(m, s) THEN TRUE ELSE consumer' = consumer
  BY DEF Dispatch
<1>4. /\ Same(m, w, {"s", "use", "all", "probeID"}) /\ Quiet(m, w)
      /\ w.req = m.req /\ w.waitQ = m.waitQ
      /\ DOMAIN w.s = Slots /\ w.s[s] = [m.s[s] EXCEPT !.wake = FALSE]
      /\ \A z \in Slots \ {s} : w.s[z] = m.s[z]
  BY <1>1, <1>2 DEF Same, Quiet, IsState, MFields
<1> HIDE DEF w
<1>5. SameFifos(m, w) /\ \A z \in Slots : w.s[z].failed = m.s[z].failed
  BY <1>2, <1>4 DEF SameFifos, SlotFields, Out
<1>6. /\ Sound(m, st, {}, {}, Closers(m)) /\ Holds(m, st)
      /\ Dispatchable(st, s) = Dispatchable(m, s)
      /\ Out(st, s) = Out(m, s) /\ st.req = m.req /\ st.b = m.b
      /\ st.nextID = m.nextID
      /\ \A z \in Slots : /\ st.s[z].failed = m.s[z].failed
                          /\ st.s[z].attempting = m.s[z].attempting
  <2>1. Evolves(m, w)
    BY <1>1, <1>4, QuietEvolves
  <2>2. Sound(m, w, {}, {}, Closers(m)) /\ Holds(m, w) /\ Holds(m, m)
    BY <1>1, <1>4, <1>5, <2>1, SoundFlags DEF Holds, Evolves
  <2>3. w.state = m.state /\ w.req = m.req /\ w.b = m.b /\ w.nextID = m.nextID
    BY <1>4 DEF Same, MFields
  <2>4. w.s[s].out = m.s[s].out
    BY <1>5 DEF SameFifos, Out
  <2>5. Dispatchable(w, s) = Dispatchable(m, s)
    BY <1>5, <2>3, <2>4 DEF Dispatchable, SameFifos
  <2> QED
    BY <1>1, <1>3, <1>5, <2>2, <2>3, <2>4, <2>5 DEF SameFifos, Out
<1>7. CASE ~Dispatchable(m, s)
  <2>1. m' = st /\ consumer' = consumer
    BY <1>3, <1>6, <1>7
  <2>2. Follows(m, m')
    BY <1>6, <2>1, FollowsHolds
  <2> QED
    BY <2>1, <2>2 DEF Follows, SameAttempts
<1>8. CASE Dispatchable(m, s)
  <2>1. m' = at(st)
    BY <1>3, <1>6, <1>8
  <2>2. Out(st, s) # <<>> /\ i = Out(st, s)[1]
    BY <1>6, <1>8 DEF Dispatchable, Out
  <2>3. /\ IsState(st) /\ Sound(st, st, {}, {}, Closers(m))
        /\ st.req \in [Bindings -> Requests]
    BY <1>6, SoundRefl DEF Holds, Sound, Fifo, FifoType
  <2>4. i.kind = "req" => st.req[i.b].phase = "materialized"
    BY <1>6, <1>8 DEF Dispatchable
  <2>5. Begins(st, m', s)
    <3>1. CASE i.kind = "req"
      <4>1. m' = [[st EXCEPT !.s[s].attempting = TRUE]
                    EXCEPT !.req[i.b].phase = "attempting"]
        BY <2>1, <3>1
      <4> HIDE DEF i
      <4>2. /\ Same(st, m', {"s", "req"})
            /\ m'.s = [st.s EXCEPT ![s].attempting = TRUE]
            /\ m'.req = [st.req EXCEPT ![i.b].phase = "attempting"]
        BY <2>3, <4>1 DEF Same, IsState, MFields
      <4> QED
        BY <2>2, <2>4, <3>1, <4>2 DEF Begins
    <3>2. CASE i.kind # "req"
      <4>1. m' = [st EXCEPT !.s[s].attempting = TRUE]
        BY <2>1, <3>2
      <4> HIDE DEF i
      <4>2. /\ Same(st, m', {"s", "req"})
            /\ m'.s = [st.s EXCEPT ![s].attempting = TRUE]
            /\ m'.req = st.req
        BY <2>3, <4>1 DEF Same, IsState, MFields
      <4> QED
        BY <2>2, <3>2, <4>2 DEF Begins
    <3> QED
      BY <3>1, <3>2
  <2> HIDE DEF i, at
  <2>6. /\ /\ Sound(m', m', {}, {}, Closers(m))
        /\ Carries(st, m')
        /\ Evolves(st, m')
        /\ Orphans(m') = Orphans(st) /\ m'.b = st.b /\ m'.nextID = st.nextID
        /\ \A z \in Slots : m'.s[z].failed = st.s[z].failed
        /\ m'.s[s].attempting = TRUE
        /\ \A z \in Slots \ {s} : m'.s[z].attempting = st.s[z].attempting
    <3>1. /\ Sound(m', m', {}, {}, Closers(m)) /\ Carries(st, m')
          /\ Evolves(st, m') /\ Begun(st, m', s)
      BY <2>2, <2>3, <2>5, BeginsSound
    <3> QED
      BY <3>1 DEF Begun
  <2>7. Settled(m')
    <3>1. \A b \in Bindings : m'.b[b].closeStarted => b \in Closers(m)
      BY <1>6, <2>6 DEF Closers
    <3> QED
      BY <2>6, <3>1, SettledIf
  <2>8. Carries(m, m')
    <3>1. Carries(m, st)
      BY <1>6 DEF Sound, Inherits
    <3>2. Sound(m, st, {}, {}, Closers(m)) /\ Carries(st, m')
      BY <1>6, <2>6
    <3> QED
      BY <3>1, <3>2, CarriesTrans
  <2>9. LivesKept(m, m')
    BY <1>6, <2>6, EvolvesTrans DEF Sound, Evolves
  <2>10. Retires(m, m')
    <3>1. Orphans(m') \subseteq Orphans(m)
      BY <1>6, <2>6 DEF Orphans
    <3> QED
      BY <2>6, <3>1 DEF Retires, Orphaned, Sound, Evolves, Fifo, FifoType
  <2>11. Isolates(m, m')
    BY <1>6, <2>6 DEF Isolates
  <2> QED
    BY <1>6, <2>6, <2>7, <2>8, <2>9, <2>10, <2>11 DEF Continues
<1> QED
  BY <1>7, <1>8

(* The submission ends.                                                    *)
LEMMA FinishAttemptFollows ==
  ASSUME Settled(m), NEW s \in Slots, m.s[s].attempting, FinishAttempt(s)
  PROVE  LET i == Out(m, s)[1] IN
         /\ Settled(m') /\ Continues(m, m')
         /\ \E outcome :
              /\ Attempted(m, m', s, IF i.kind = "req" /\ outcome = "ok"
                                     THEN {i.b} ELSE {})
              /\ i.kind = "req" /\ outcome = "ok" => m'.req[i.b].phase = "none"
              /\ wire' = IF outcome = "ok" /\ i.kind # "probe"
                              /\ SlotOf(m, i.b) = s
                         THEN [wire EXCEPT ![i.b] = Append(@,
                                 IF i.kind = "req" THEN "req" ELSE "close")]
                         ELSE wire
<1> DEFINE i == Out(m, s)[1]
           a == [m EXCEPT !.s[s].attempting = FALSE]
           c == i.b
<1>1. /\ Sound(m, m, {}, {}, Closers(m)) /\ IsState(m) /\ Fifo(m)
      /\ \A x \in Bindings : x \in Closers(m) <=> m.b[x].closeStarted
      /\ Evolves(m, m) /\ Orphaned(m, m, {})
  BY SettledFacts, RetiresRefl
<1>2. PICK outcome :
        /\ m' = IF i.kind = "req" THEN FinishRequest(a, s, i.b, outcome)
                ELSE FinishControl(a, s, i, outcome)
        /\ wire' = IF outcome = "ok" /\ i.kind # "probe"
                           /\ SlotOf(m, i.b) = s
                   THEN [wire EXCEPT ![i.b] = Append(@,
                           IF i.kind = "req" THEN "req" ELSE "close")]
                   ELSE wire
  <2>1. i = Head(m.s[s].out)
    BY DEF Out
  <2> HIDE DEF i
  <2> QED
    BY <2>1 DEF FinishAttempt
<1>3. Orphaned(m, a, {})
  <2>1. Quiet(m, a) /\ a.req = m.req /\ a.waitQ = m.waitQ
    BY <1>1 DEF Quiet, IsState, MFields
  <2>2. Holds(m, a)
    BY <1>1, <2>1, QuietEvolves DEF Holds, Evolves
  <2> QED
    BY <1>1, <2>2, HoldsOrphaned
<1>4. ItemOpen(m, s, i)
  <2>1. 1 \in 1..Len(Out(m, s))
    BY <1>1 DEF Fifo, FifoType, HeadSubmitted
  <2> QED
    BY <1>1, <2>1 DEF Fifo, ItemsOpen
<1> HIDE DEF i, a
<1>5. CASE i.kind = "req"
  <2>1. IsRequest(Out(m, s)[1], c) /\ c \in Bindings
    BY <1>4, <1>5 DEF i, IsRequest, ItemOpen
  <2>2. m' = FinishRequest(a, s, c, outcome)
    BY <1>2, <1>5
  <2> HIDE DEF c
  <2>3. /\ Sound(m', m', {}, {}, Closers(m))
        /\ Attempted(m, m', s, IF outcome = "ok" THEN {c} ELSE {})
        /\ Answered(m', c, outcome)
        /\ LivesHeld(m, m')
    <3>1. a = [m EXCEPT !.s[s].attempting = FALSE]
      BY DEF a
    <3>2. /\ Sound(FinishRequest(a, s, c, outcome),
                   FinishRequest(a, s, c, outcome), {}, {}, Closers(m))
          /\ Attempted(m, FinishRequest(a, s, c, outcome), s,
                       IF outcome = "ok" THEN {c} ELSE {})
          /\ Answered(FinishRequest(a, s, c, outcome), c, outcome)
          /\ LivesHeld(m, FinishRequest(a, s, c, outcome))
      BY <1>1, <2>1, <3>1, FinishRequestSound
    <3> QED
      BY <2>2, <3>2
  <2>4. Retires(m, m')
    BY <1>3, <2>1, <2>2, FinishRequestRetires
  <2>5. m'.nextID = m.nextID
    BY <1>1, FinishAttemptStep DEF Evolves
  <2>6. Settled(m')
    <3>1. \A x \in Bindings : m'.b[x].closeStarted => x \in Closers(m)
      BY <1>1, <2>3 DEF LivesHeld
    <3> QED
      BY <2>3, <3>1, SettledIf
  <2>7. Continues(m, m')
    BY <2>3, <2>4, <2>5 DEF Continues, Isolates, Attempted, LivesHeld
  <2>8. (IF i.kind = "req" /\ outcome = "ok" THEN {i.b} ELSE {})
          = IF outcome = "ok" THEN {c} ELSE {}
    BY <1>5 DEF c
  <2>9. i.kind = "req" /\ outcome = "ok" => m'.req[i.b].phase = "none"
    BY <2>3 DEF c, Answered
  <2> QED
    BY <1>2, <2>3, <2>6, <2>7, <2>8, <2>9 DEF i
<1>6. CASE i.kind # "req"
  <2>1. m' = FinishControl(a, s, i, outcome)
    BY <1>2, <1>6
  <2>2. i = Out(m, s)[1]
    BY DEF i
  <2>3. /\ Sound(m', m', {}, {}, Closers(m))
        /\ Attempted(m, m', s, {}) /\ LivesHeld(m, m')
    BY <1>1, <1>6, <2>1, <2>2, FinishControlSound DEF a
  <2>4. Retires(m, m')
    BY <1>3, <2>1, FinishControlRetires
  <2>5. m'.nextID = m.nextID
    BY <1>1, FinishAttemptStep DEF Evolves
  <2>6. Settled(m')
    <3>1. \A x \in Bindings : m'.b[x].closeStarted => x \in Closers(m)
      BY <1>1, <2>3 DEF LivesHeld
    <3> QED
      BY <2>3, <3>1, SettledIf
  <2>7. Continues(m, m')
    BY <2>3, <2>4, <2>5 DEF Continues, Isolates, Attempted, LivesHeld
  <2>8. (IF i.kind = "req" /\ outcome = "ok" THEN {i.b} ELSE {}) = {}
    BY <1>6
  <2>9. i.kind = "req" /\ outcome = "ok" => m'.req[i.b].phase = "none"
    BY <1>6
  <2> QED
    BY <1>2, <2>3, <2>6, <2>7, <2>8, <2>9 DEF i
<1> QED
  BY <1>5, <1>6

-----------------------------------------------------------------------------
(* Admission and the receivers of readiness.                               *)

(* The slots of a DC are slots of the manager.                             *)
LEMMA GroupLaw ==
  ASSUME NEW d
  PROVE  \A i \in DOMAIN Group(d) : Group(d)[i] \in Slots
<1> DEFINE q == [s \in Slots |-> s]
<1>1. q \in Seq(Slots)
  BY ConstantsAssumption DEF Slots
<1> HIDE DEF q
<1>2. Excluding(q, {s \in Slots : SlotDC[s] # d}) \in Seq(Slots)
  BY <1>1, ExcludingLaw
<1>3. Group(d) \in Seq(Slots)
  BY <1>2 DEF Group, q
<1> QED
  BY <1>3

(* What bind changes.                                                      *)
Admitted(st, t, n, k) ==
  /\ Same(st, t, {"nextID", "bindNext", "b", "use", "all"})
  /\ n = st.nextID /\ n \in Bindings /\ t.nextID = n + 1
  /\ k.slot \in Slots /\ k.resident = TRUE /\ k.active = TRUE
  /\ k.terminal = FALSE /\ k.closeStarted = FALSE
  /\ k.localClosing = FALSE /\ k.remoteClosed = FALSE
  /\ t.b[n] = k
  /\ \A b \in Bindings \ {n} : t.b[b] = st.b[b]

(* bind admits one new binding.                                            *)
LEMMA BindAdmits ==
  ASSUME IsState(m), NEW d, NEW mode, Bind(d, mode)
  PROVE  \E k : Admitted(m, m', m.nextID, k)
<1> DEFINE n == m.nextID
           g == Group(d)
<1>1. PICK i \in Selected(m, d, g) : m' = [m EXCEPT
         !.nextID = n + 1,
         !.bindNext[d] = i % Len(g),
         !.b[n] = [NoBinding EXCEPT !.slot = g[i], !.mode = mode,
                                    !.resident = TRUE, !.active = TRUE],
         !.use[g[i]].resident = @ + 1,
         !.all.resident = @ + 1]
  BY DEF Bind
<1>2. n \in Bindings
  BY DEF Bind
<1>3. g[i] \in Slots
  <2>1. i \in DOMAIN g
    BY DEF Selected
  <2> HIDE DEF g
  <2> QED
    BY <2>1, GroupLaw DEF g
<1> DEFINE x == i % Len(g)  k == g[i]
           life == [NoBinding EXCEPT !.slot = k, !.mode = mode,
                                     !.resident = TRUE, !.active = TRUE]
<1>4. /\ life.slot = k /\ life.resident = TRUE /\ life.active = TRUE
      /\ life.terminal = FALSE /\ life.closeStarted = FALSE
      /\ life.localClosing = FALSE /\ life.remoteClosed = FALSE
  BY DEF NoBinding
<1>5. k \in Slots
  BY <1>3
<1> HIDE DEF life, x, k
<1>6. m' = [m EXCEPT !.nextID = n + 1, !.bindNext[d] = x, !.b[n] = life,
                     !.use[k].resident = @ + 1, !.all.resident = @ + 1]
  BY <1>1 DEF life, x, k
<1>7. /\ Same(m, m', {"nextID", "bindNext", "b", "use", "all"})
      /\ m'.nextID = n + 1
      /\ m'.b = [m.b EXCEPT ![n] = life]
  BY <1>6 DEF IsState, MFields, Same
<1>8. /\ m'.b[n] = life
      /\ \A b \in Bindings \ {n} : m'.b[b] = m.b[b]
  BY <1>2, <1>7 DEF IsState
<1> QED
  BY <1>2, <1>4, <1>5, <1>7, <1>8 DEF Admitted

(* A new binding has nothing queued, open or to report.                    *)
LEMMA AdmittedSound ==
  ASSUME NEW st, Settled(st), Lawful(st), NEW t, IsState(t), NEW n, NEW k,
         Admitted(st, t, n, k)
  PROVE  Settled(t) /\ Lawful(t) /\ Carries(st, t) /\ SameAttempts(st, t)
<1>1. /\ Sound(st, st, {}, {}, Closers(st)) /\ IsState(st) /\ Fifo(st)
  BY SettledFacts
<1>2. /\ t.s = st.s /\ t.req = st.req /\ t.waitQ = st.waitQ
      /\ t.queue = st.queue /\ t.result = st.result
      /\ t.leased = st.leased /\ t.notify = st.notify
      /\ t.readyQ = st.readyQ /\ t.readySig = st.readySig
      /\ t.state = st.state
  BY DEF Admitted, Same, MFields
<1>3. /\ n \in Bindings /\ n = st.nextID /\ t.nextID = n + 1 /\ t.b[n] = k
      /\ n \in Nat /\ k.slot \in Slots /\ ~k.terminal /\ ~k.closeStarted
      /\ ~k.localClosing /\ ~k.remoteClosed /\ k.resident /\ k.active
      /\ \A b \in Bindings \ {n} : t.b[b] = st.b[b]
  BY DEF Admitted, Bindings
<1>4. /\ \A b \in Bindings : b < st.nextID => b < t.nextID /\ b # n
      /\ \A b \in Bindings : b < t.nextID => b < st.nextID \/ b = n
  BY <1>3 DEF Bindings
<1>5. /\ st.req[n].phase = "none" /\ st.queue[n] = <<>>
      /\ st.result[n] = "none"
  BY <1>1, <1>3 DEF Fifo, Unborn
<1>6. ~st.req[n].owned /\ ~st.req[n].canceled
  BY <1>1, <1>3, <1>5 DEF Fifo, RequestOK
<1>7. FifoType(t)
  BY <1>1, <1>2 DEF Fifo, FifoType, Out
<1>8. ItemsOpen(t)
  <2>1. ASSUME NEW s \in Slots, NEW i \in OutItems, ItemOpen(st, s, i)
        PROVE  ItemOpen(t, s, i)
    <3>1. CASE i.kind = "probe"
      BY <3>1 DEF ItemOpen
    <3>2. CASE i.kind # "probe"
      <4>1. i.b \in Bindings /\ i.b < st.nextID
        BY <2>1, <3>2 DEF ItemOpen
      <4>2. t.b[i.b] = st.b[i.b] /\ i.b < t.nextID
        BY <1>3, <1>4, <4>1
      <4> QED
        BY <1>2, <2>1, <4>1, <4>2 DEF ItemOpen
    <3> QED
      BY <3>1, <3>2
  <2> QED
    BY <1>1, <1>2, <2>1 DEF Fifo, FifoType, ItemsOpen, Out
<1>9. HeadSubmitted(t)
  <2>1. \A b \in Bindings : t.req[b].phase = "attempting" =>
          st.req[b].phase = "attempting" /\ t.b[b] = st.b[b]
    BY <1>2, <1>3, <1>5
  <2> QED
    BY <1>1, <1>2, <2>1 DEF Fifo, HeadSubmitted, Out
<1>10. WaitersOpen(t)
  BY <1>1, <1>2 DEF Fifo, WaitersOpen
<1>11. \A b \in Bindings : RequestOK(t.req[b]) /\ LifeOK(t.b[b])
  BY <1>1, <1>2, <1>3 DEF Fifo, LifeOK
<1>12. Unborn(t)
  BY <1>1, <1>2, <1>3, <1>4 DEF Fifo, Unborn
<1>13. Fifo(t)
  BY <1>7, <1>8, <1>9, <1>10, <1>11, <1>12 DEF Fifo
<1>14. \A b \in Bindings : HasReadyReason(t, b) => HasReadyReason(st, b)
  <2>1. ~HasReadyReason(t, n)
    BY <1>2, <1>3, <1>5, <1>6 DEF HasReadyReason
  <2> QED
    BY <1>2, <1>3, <2>1 DEF HasReadyReason
<1>15. Closers(t) \subseteq Closers(st) /\ Closers(t) \subseteq Bindings
  BY <1>3 DEF Closers
<1>16. \A b \in Bindings : t.b[b].terminal => st.b[b].terminal
  BY <1>3
<1>17. Heard(t, {}, {}, Closers(t))
  <2>1. \A b \in Closers(t) : Quietened(t, b)
    BY <1>1, <1>2, <1>15 DEF Sound, Heard, Quietened
  <2> QED
    BY <1>1, <1>2, <1>14, <1>15, <1>16, <2>1 DEF Sound, Heard, IsQueued
<1>18. SameClosing(t, t)
  BY <1>1, <1>3 DEF Sound, SameClosing
<1>19. Inherits(t, t) /\ Carries(st, t)
  BY <1>2 DEF Inherits, Carries, IsRequest, Out
<1>20. Settled(t)
  BY <1>13, <1>17, <1>18, <1>19, EvolvesRefl DEF Settled, Sound
<1>21. Lawful(t)
  <2>1. \A b \in Residents(t) : b < t.nextID
    BY <1>3, <1>4 DEF Lawful, Residents
  <2>2. \A b \in Orphans(t) : ~t.b[b].active
    BY <1>2, <1>3, <1>6 DEF Lawful, Orphans
  <2> QED
    BY <2>1, <2>2 DEF Lawful
<1> QED
  BY <1>2, <1>19, <1>20, <1>21 DEF SameAttempts

(* The fields that only tell the readers what is ready.                    *)
ReaderFields == {"readyQ", "readySig", "leased", "notify"}

(* What holds of a state whoever waits for it.                             *)
Grounded(st) ==
  /\ Evolves(st, st) /\ SameClosing(st, st) /\ Inherits(st, st) /\ Fifo(st)

(* A change of the readers' fields.                                        *)
LEMMA ReaderFollows ==
  ASSUME NEW o, Settled(o), NEW t, Same(o, t, ReaderFields)
  PROVE  /\ Continues(o, t) /\ Carries(o, t) /\ SameAttempts(o, t)
         /\ Grounded(t)
         /\ \A b \in Bindings : HasReadyReason(t, b) = HasReadyReason(o, b)
         /\ \A b \in Closers(t) : b \in Bindings /\ Quietened(t, b)
<1>1. /\ Sound(o, o, {}, {}, Closers(o)) /\ IsState(o) /\ Fifo(o)
      /\ Evolves(o, o)
  BY SettledFacts
<1>2. /\ t.s = o.s /\ t.req = o.req /\ t.waitQ = o.waitQ /\ t.b = o.b
      /\ t.queue = o.queue /\ t.result = o.result /\ t.nextID = o.nextID
      /\ t.state = o.state /\ t.accepting = o.accepting
      /\ t.drained = o.drained /\ DOMAIN t = MFields
  BY DEF Same, MFields, ReaderFields
<1>3. Evolves(o, t) /\ Evolves(t, t)
  <2>1. Quiet(o, t)
    BY <1>2 DEF Quiet
  <2> QED
    BY <1>1, <2>1, QuietEvolves, EvolvesRefl DEF Evolves
<1>4. Fifo(t) /\ Inherits(o, t)
  <2>1. \A b \in Bindings : /\ t.b[b].active => o.b[b].active
                            /\ LifeOK(t.b[b])
    BY <1>1, <1>2 DEF Fifo
  <2> QED
    BY <1>1, <1>2, <1>3, <2>1, FifoCong
<1>5. Inherits(t, t)
  BY DEF Inherits, Carries, IsRequest
<1>6. SameClosing(t, t)
  BY <1>1, <1>2 DEF Sound, SameClosing
<1>7. \A b \in Bindings : HasReadyReason(t, b) = HasReadyReason(o, b)
  BY <1>2 DEF HasReadyReason
<1>8. \A b \in Closers(t) : b \in Bindings /\ Quietened(t, b)
  BY <1>1, <1>2 DEF Sound, Heard, Quietened, Closers
<1>9. Retires(o, t)
  <2>1. Holds(o, t) /\ Orphaned(o, o, {})
    BY <1>1, <1>2, <1>3, RetiresRefl DEF Holds, Evolves
  <2> QED
    BY <2>1, HoldsOrphaned, RetiresIf
<1>10. Isolates(o, t) /\ SameAttempts(o, t)
  BY <1>2 DEF Isolates, SameAttempts
<1>11. Continues(o, t) /\ Carries(o, t)
  BY <1>2, <1>3, <1>4, <1>9, <1>10 DEF Continues, Evolves, Inherits
<1> QED
  BY <1>3, <1>4, <1>5, <1>6, <1>7, <1>8, <1>10, <1>11 DEF Grounded

(* The readers go on as the state of the manager allows.                   *)
LEMMA SettledPrime ==
  ASSUME Settled(m'), pump' = pump,
         \A b \in blocked' :
           b \in blocked \/ (b \in Bindings /\ m'.queue[b] = <<>>
                              /\ ~m'.b[b].terminal)
  PROVE  Settled(m)'
<1>1. /\ Evolves(m', m') /\ SameClosing(m', m') /\ Inherits(m', m')
      /\ Fifo(m') /\ Heard(m', {}, {}, Closers(m'))
  BY DEF Settled, Sound
<1>2. Heard(m, {}, {}, Closers(m))'
  BY <1>1 DEF Heard, Closers
<1> QED
  BY <1>1, <1>2 DEF Settled, Sound

(* ReceiveReady: the receiver took the signal and drains the queue.        *)
LEMMA ReceiveReadyFollows ==
  ASSUME Settled(m), ReceiveReady
  PROVE  /\ Settled(m)' /\ Continues(m, m') /\ Carries(m, m')
         /\ SameAttempts(m, m')
<1>1. /\ Sound(m, m, {}, {}, Closers(m)) /\ IsState(m)
  BY SettledFacts
<1>2. /\ Same(m, m', {"readySig"}) /\ m'.readySig = FALSE
      /\ pump' = "drain" /\ blocked' = blocked
  BY <1>1 DEF ReceiveReady, Same, IsState, MFields
<1>3. Same(m, m', ReaderFields)
  BY <1>2 DEF Same, ReaderFields
<1>4. /\ Continues(m, m') /\ Carries(m, m') /\ SameAttempts(m, m')
      /\ Grounded(m')
      /\ \A b \in Bindings : HasReadyReason(m', b) = HasReadyReason(m, b)
      /\ \A b \in Closers(m') : b \in Bindings /\ Quietened(m', b)
  BY <1>3, ReaderFollows
<1>5. /\ m'.readyQ = m.readyQ /\ m'.leased = m.leased
      /\ m'.notify = m.notify /\ m'.queue = m.queue
      /\ m'.result = m.result /\ m'.b = m.b
  BY <1>2 DEF Same, MFields
<1>6. Heard(m, {}, {}, Closers(m))'
  BY <1>1, <1>2, <1>4, <1>5 DEF Sound, Heard, IsQueued
<1> QED
  BY <1>4, <1>6 DEF Settled, Sound, Grounded

(* TryNextReady: the head of the queue is leased, or the queue is empty.   *)
LEMMA TryNextReadyFollows ==
  ASSUME Settled(m), TryNextReady
  PROVE  /\ Settled(m)' /\ Continues(m, m') /\ Carries(m, m')
         /\ SameAttempts(m, m')
<1>1. /\ Sound(m, m, {}, {}, Closers(m)) /\ IsState(m)
      /\ m.readyQ \in Seq(Bindings) /\ m.leased \in [Bindings -> BOOLEAN]
  BY SettledFacts DEF Sound, Heard
<1>2. blocked' = blocked
  BY DEF TryNextReady
<1>3. CASE m.readyQ = <<>>
  <2>1. m' = m /\ pump' = "wait"
    BY <1>3 DEF TryNextReady
  <2>2. /\ Continues(m, m')
        /\ Carries(m, m')
        /\ SameAttempts(m, m')
        /\ Grounded(m')
    BY <1>1, <2>1, FollowsRefl DEF Follows, Sound, Grounded
  <2>3. Elements(m'.readyQ) = {}
    BY <1>3, <2>1 DEF Elements
  <2>4. Heard(m, {}, {}, Closers(m))'
    BY <1>1, <1>2, <2>1, <2>3 DEF Sound, Heard
  <2> QED
    BY <2>2, <2>4 DEF Settled, Sound, Grounded
<1>4. CASE m.readyQ # <<>>
  <2> DEFINE b == Head(m.readyQ)
             u == UnlinkReady(m, {b})
             l == [u.leased EXCEPT ![b] = TRUE]
             t == [u EXCEPT !.leased = l]
  <2>1. b \in Bindings /\ m' = [u EXCEPT !.leased[b] = TRUE] /\ pump' = pump
    <3>1. b \in Bindings
      BY <1>1, <1>4
    <3> HIDE DEF b
    <3>2. b = Head(m.readyQ)
      BY DEF b
    <3>3. m' = [UnlinkReady(m, {b}) EXCEPT !.leased[b] = TRUE] /\ pump' = pump
      BY <1>4, <3>2 DEF TryNextReady
    <3> QED
      BY <3>1, <3>3
  <2> HIDE DEF b
  <2>2. Sound(m, u, {} \cup {b}, {}, Closers(m))
    BY <1>1, UnlinkReadySound
  <2>3. Same(m, u, {"readyQ", "readySig"})
    BY <1>1 DEF UnlinkReady, Same, IsState, MFields
  <2> HIDE DEF u
  <2>4. u.leased \in [Bindings -> BOOLEAN]
    BY <2>2 DEF Sound, Heard
  <2>5. /\ l \in [Bindings -> BOOLEAN] /\ l[b] = TRUE
        /\ \A c \in Bindings \ {} : u.leased[c] => l[c]
    BY <2>1, <2>4
  <2>6. m' = t
    BY <2>1, <2>3 DEF Same, MFields
  <2> HIDE DEF l
  <2>7. Sound(m, t, ({} \cup {b}) \cup {}, {}, Closers(m))
    BY <2>2, <2>5, LeasedSound
  <2>8. t.leased[b] /\ Same(m, t, ReaderFields)
    BY <2>3, <2>5 DEF Same, MFields, ReaderFields
  <2> HIDE DEF t
  <2>9. \A c \in {b} \cap Bindings : ~HasReadyReason(t, c)
                             \/ IsQueued(t, c) \/ t.leased[c]
    BY <2>8
  <2>10. Sound(m, t, (({} \cup {b}) \cup {}) \ {b}, {}, Closers(m))
    BY <2>7, <2>9, SoundDrop
  <2>11. (({} \cup {b}) \cup {}) \ {b} = {}
    OBVIOUS
  <2>12. Sound(m, m', {}, {}, Closers(m))
    BY <2>6, <2>10, <2>11
  <2>13. Settled(m')
    <3>1. \A c \in Bindings : m'.b[c].closeStarted => c \in Closers(m)
      BY <2>12 DEF Sound, SameClosing, Closers
    <3> QED
      BY <2>12, <3>1, SettledIf
  <2>14. Continues(m, m') /\ Carries(m, m') /\ SameAttempts(m, m')
    BY <2>6, <2>8, ReaderFollows
  <2> QED
    BY <1>2, <2>1, <2>13, <2>14, SettledPrime
<1> QED
  BY <1>3, <1>4

(* A blocked NextEvent is woken: it looks again.                           *)
LEMMA NotifiedFollows ==
  ASSUME Settled(m), NEW b \in Bindings, Notified(b)
  PROVE  /\ Settled(m)' /\ Continues(m, m') /\ Carries(m, m')
         /\ SameAttempts(m, m')
<1>1. /\ Sound(m, m, {}, {}, Closers(m)) /\ IsState(m)
      /\ m.notify \in [Bindings -> BOOLEAN]
  BY SettledFacts DEF Sound, Heard
<1>2. /\ Same(m, m', {"notify"}) /\ pump' = pump
      /\ blocked' = blocked \ {b}
      /\ m'.notify = [m.notify EXCEPT ![b] = FALSE]
  BY <1>1 DEF Notified, Same, IsState, MFields
<1>3. /\ m'.notify \in [Bindings -> BOOLEAN]
      /\ \A c \in Bindings \ {b} : m'.notify[c] = m.notify[c]
  BY <1>1, <1>2
<1>4. Same(m, m', ReaderFields)
  BY <1>2 DEF Same, ReaderFields
<1>5. /\ Continues(m, m') /\ Carries(m, m') /\ SameAttempts(m, m')
      /\ Grounded(m')
      /\ \A c \in Bindings : HasReadyReason(m', c) = HasReadyReason(m, c)
      /\ \A c \in Closers(m') : c \in Bindings /\ Quietened(m', c)
  BY <1>4, ReaderFollows
<1>6. /\ m'.readyQ = m.readyQ /\ m'.leased = m.leased
      /\ m'.readySig = m.readySig /\ m'.queue = m.queue
      /\ m'.result = m.result /\ m'.b = m.b
  BY <1>2 DEF Same, MFields
<1>7. Heard(m, {}, {}, Closers(m))'
  BY <1>1, <1>2, <1>3, <1>5, <1>6 DEF Sound, Heard, IsQueued
<1> QED
  BY <1>5, <1>7 DEF Settled, Sound, Grounded

-----------------------------------------------------------------------------
(* The steps without a new binding, request or submission.                 *)

(* The program counters of the consumers.                                  *)
ConsumersOK(c) ==
  /\ DOMAIN c = Slots
  /\ \A s \in Slots : DOMAIN c[s] = {"pc", "reason"}

(* No consumer begins an attempt.                                          *)
NoNewAttempt(c, d) ==
  /\ ConsumersOK(d)
  /\ \A s \in Slots : d[s].pc = "attempt" => c[s].pc = "attempt"

(* The environment prepares no request.                                    *)
EnvKept(e, f) == IsEnv(f) /\ f.prepares = e.prepares

(* The manager goes on and nothing is prepared or submitted.               *)
Steady ==
  /\ Settled(m)' /\ Continues(m, m') /\ Carries(m, m') /\ SameAttempts(m, m')
  /\ wire' = wire
  /\ NoNewAttempt(consumer, consumer')
  /\ EnvKept(env, env')

(* The step changes the manager only.                                      *)
Alone == UNCHANGED <<consumer, pump, blocked, wire, env>>

(* What the steps assume.                                                  *)
Before ==
  Settled(m) /\ Lawful(m) /\ IsEnv(env) /\ ConsumersOK(consumer)

(* A step is steady, from the parts.                                       *)
LEMMA SteadyIf ==
  ASSUME Before, Follows(m, m'), UNCHANGED <<pump, blocked, wire>>,
         NoNewAttempt(consumer, consumer'), EnvKept(env, env')
  PROVE  Steady
<1>1. Settled(m') /\ pump' = pump /\ \A b \in blocked' : b \in blocked
  BY DEF Follows
<1>2. Settled(m)'
  BY <1>1, SettledPrime
<1> QED
  BY <1>2 DEF Steady, Follows

(* A step that changes the manager only.                                   *)
LEMMA SteadyAlone ==
  ASSUME Before, Follows(m, m'), Alone
  PROVE  Steady
<1>1. NoNewAttempt(consumer, consumer') /\ EnvKept(env, env')
  BY DEF Before, Alone, NoNewAttempt, EnvKept
<1>2. UNCHANGED <<pump, blocked, wire>>
  BY DEF Alone
<1> QED
  BY <1>1, <1>2, SteadyIf

(* The owner's steps are steady.                                           *)
LEMMA LifecycleSteady ==
  ASSUME Before, Lifecycle
  PROVE  Steady
<1>1. Settled(m)
  BY DEF Before
<1>2. CASE StartSucceeds \/ Quiesce \/ CloseFinishes
  <2>1. Follows(m, m')
    BY <1>1, <1>2, StartFollows, QuiesceFollows, CloseFinishesFollows
  <2>2. Alone
    BY <1>2 DEF StartSucceeds, Quiesce, CloseFinishes, Alone
  <2> QED
    BY <2>1, <2>2, SteadyAlone
<1>3. CASE CloseLinks
  <2>1. m' = m /\ Alone
    BY <1>3 DEF CloseLinks, Alone
  <2> QED
    BY <1>1, <2>1, FollowsRefl, SteadyAlone
<1>4. ASSUME NEW err, Start \/ BeginTerminal(err)
      PROVE  Steady
  <2>1. Follows(m, m')
    BY <1>1, <1>4, StartFollows, BeginTerminalFollows
  <2>2. UNCHANGED <<pump, blocked, wire, env>> /\ consumer' = StartConsumers
    BY <1>4 DEF Start, BeginTerminal
  <2>3. NoNewAttempt(consumer, consumer')
    BY <2>2 DEF Before, ConsumersOK, NoNewAttempt, StartConsumers
  <2>4. EnvKept(env, env')
    BY <2>2 DEF Before, EnvKept
  <2> QED
    BY <2>1, <2>2, <2>3, <2>4, SteadyIf
<1> QED
  BY <1>2, <1>3, <1>4 DEF Lifecycle

(* A client's steps are steady, but for a new request.                     *)
LEMMA ClientSteady ==
  ASSUME Before, NEW b \in Bindings, Client(b),
         \A size \in env.max.reqSizes : ~PrepareProxyRequest(b, size)
  PROVE  Steady
<1>1. Settled(m)
  BY DEF Before
<1>2. CASE FinishMaterialization(b) \/ PrepareReserved(b) \/ TakeReservation(b)
  <2>1. Follows(m, m')
    BY <1>1, <1>2, FinishMaterializationFollows, RephasedFollows
  <2>2. Alone
    BY <1>2 DEF FinishMaterialization, PrepareReserved, TakeReservation, Alone
  <2> QED
    BY <2>1, <2>2, SteadyAlone
<1>3. CASE TakeResult(b) \/ TryNextEvent(b) \/ TryTerminal(b)
  <2>1. Follows(m, m')
    BY <1>1, <1>3, ReadFollows
  <2>2. Alone
    BY <1>3 DEF TakeResult, TryNextEvent, TryTerminal, Alone
  <2> QED
    BY <2>1, <2>2, SteadyAlone
<1>4. CASE Ack(b) \/ BeginClose(b)
  <2>1. Follows(m, m')
    BY <1>1, <1>4, AckFollows, BeginCloseFollows
  <2>2. Alone
    BY <1>4 DEF Ack, BeginClose, Alone
  <2> QED
    BY <2>1, <2>2, SteadyAlone
<1>5. CASE PrepareMismatch(b) \/ PrepareForeign(b)
  <2>1. Follows(m, m')
    BY <1>1, <1>5, PrepareMismatchFollows, PrepareForeignFollows
  <2>2. /\ UNCHANGED <<consumer, pump, blocked, wire>>
        /\ env' = [env EXCEPT !.misuse = @ + 1]
    BY <1>5 DEF PrepareMismatch, PrepareForeign
  <2>3. NoNewAttempt(consumer, consumer')
    BY <2>2 DEF Before, NoNewAttempt
  <2>4. EnvKept(env, env')
    BY <2>2 DEF Before, EnvKept, IsEnv, EnvFields
  <2> QED
    BY <2>1, <2>2, <2>3, <2>4, SteadyIf
<1>6. ASSUME Settled(m)', Continues(m, m'), Carries(m, m'), SameAttempts(m, m'),
             UNCHANGED <<consumer, wire, env>>
      PROVE  Steady
  BY <1>6 DEF Before, Steady, NoNewAttempt, EnvKept
<1>7. CASE NextEvent(b)
  <2>1. /\ Follows(m, m')
        /\ \/ blocked' = blocked
           \/ /\ blocked' = blocked \cup {b}
              /\ m'.queue[b] = <<>> /\ ~m'.b[b].terminal
    BY <1>1, <1>7, NextEventFollows
  <2>2. pump' = pump /\ UNCHANGED <<consumer, wire, env>>
    BY <1>7 DEF NextEvent
  <2>3. Settled(m)'
    BY <2>1, <2>2, SettledPrime DEF Follows
  <2> QED
    BY <1>6, <2>1, <2>2, <2>3 DEF Follows
<1>8. CASE Notified(b)
  <2>1. UNCHANGED <<consumer, wire, env>>
    BY <1>8 DEF Notified
  <2> QED
    BY <1>1, <1>6, <1>8, <2>1, NotifiedFollows
<1> QED
  BY <1>2, <1>3, <1>4, <1>5, <1>7, <1>8 DEF Client

(* The steps of the receiver of readiness tokens are steady.               *)
LEMMA ReaderSteady ==
  ASSUME Before, ReceiveReady \/ TryNextReady
  PROVE  Steady
<1>1. UNCHANGED <<consumer, wire, env>>
  BY DEF ReceiveReady, TryNextReady
<1>2. /\ Settled(m)' /\ Continues(m, m') /\ Carries(m, m')
      /\ SameAttempts(m, m')
  BY ReceiveReadyFollows, TryNextReadyFollows DEF Before
<1> QED
  BY <1>1, <1>2 DEF Before, Steady, NoNewAttempt, EnvKept

(* A consumer goes somewhere else than to an attempt.                      *)
LEMMA GotoSteady ==
  ASSUME ConsumersOK(consumer), NEW s \in Slots, NEW pc, pc # "attempt",
         NEW reason, Goto(s, pc, reason)
  PROVE  NoNewAttempt(consumer, consumer')
BY DEF ConsumersOK, NoNewAttempt, Goto

(* A consumer's steps are steady, but for its submissions.                 *)
LEMMA ConsumerSteady ==
  ASSUME Before, NEW s \in Slots, Consumer(s), ~Dispatch(s), ~FinishAttempt(s)
  PROVE  Steady
<1>1. Settled(m) /\ Lawful(m) /\ ConsumersOK(consumer) /\ IsEnv(env)
  BY DEF Before
<1>2. CASE ConsumerFails(s) \/ ConsumerExits(s)
  <2>1. Follows(m, m')
    BY <1>1, <1>2, FailSlotFollows DEF ConsumerFails, ConsumerExits
  <2>2. /\ UNCHANGED <<pump, blocked, wire, env>>
        /\ Goto(s, "select", "none") \/ Goto(s, "done", "none")
    BY <1>2 DEF ConsumerFails, ConsumerExits
  <2>3. NoNewAttempt(consumer, consumer')
    BY <1>1, <2>2, GotoSteady
  <2>4. EnvKept(env, env')
    BY <1>1, <2>2 DEF EnvKept
  <2> QED
    BY <2>1, <2>2, <2>3, <2>4, SteadyIf
<1>3. ASSUME NEW b \in Bindings, NEW e \in Events, RouteEvent(s, b, e)
      PROVE  Steady
  <2>1. Follows(m, m')
    BY <1>1, <1>3, RouteEventFollows
  <2>2. /\ UNCHANGED <<consumer, pump, blocked, wire>>
        /\ env' = [env EXCEPT !.events = @ + 1]
    BY <1>3 DEF RouteEvent
  <2>3. NoNewAttempt(consumer, consumer')
    BY <1>1, <2>2 DEF NoNewAttempt
  <2>4. EnvKept(env, env')
    BY <1>1, <2>2 DEF EnvKept, IsEnv, EnvFields
  <2> QED
    BY <2>1, <2>2, <2>3, <2>4, SteadyIf
<1>4. CASE RouteProtocolError(s)
  <2>1. Follows(m, m')
    BY <1>1, <1>4, FollowsRefl DEF RouteProtocolError
  <2>2. /\ UNCHANGED <<pump, blocked, wire>>
        /\ env' = [env EXCEPT !.losses = @ + 1]
        /\ Goto(s, "failing", "routing")
    BY <1>4 DEF RouteProtocolError
  <2>3. NoNewAttempt(consumer, consumer')
    BY <1>1, <2>2, GotoSteady
  <2>4. EnvKept(env, env')
    BY <1>1, <2>2 DEF EnvKept, IsEnv, EnvFields
  <2> QED
    BY <2>1, <2>2, <2>3, <2>4, SteadyIf
<1>5. CASE RoutePong(s)
  <2>1. Follows(m, m') /\ Alone
    BY <1>1, <1>5, ProbeEndsFollows DEF RoutePong, Alone
  <2> QED
    BY <2>1, SteadyAlone
<1> QED
  BY <1>2, <1>3, <1>4, <1>5 DEF Consumer

(* A prober's steps are steady.                                            *)
LEMMA ProberSteady ==
  ASSUME Before, NEW s \in Slots, Prober(s)
  PROVE  Steady
<1>1. Settled(m) /\ IsEnv(env)
  BY DEF Before
<1>2. Alone
  BY DEF Prober, StartProbe, ProbeReturns, ProbeFails, ProbeExpires, Alone
<1>3. Follows(m, m')
  <2>1. CASE StartProbe(s)
    BY <1>1, <2>1, StartProbeFollows
  <2>2. CASE ProbeReturns(s)
    BY <1>1, <2>2, FollowsRefl DEF ProbeReturns
  <2>3. CASE ProbeFails(s)
    BY <1>1, <2>3, FailSlotFollows DEF ProbeFails
  <2>4. CASE ProbeExpires(s, "idle") \/ ProbeExpires(s, "expired")
    BY <1>1, <2>4, ProbeEndsFollows
  <2> QED
    BY <2>1, <2>2, <2>3, <2>4 DEF Prober
<1> QED
  BY <1>2, <1>3, SteadyAlone

(* Repairs and the steps of the links are steady.                          *)
LEMMA RepairSteady ==
  ASSUME Before,
         \/ RepairFailedSlots
         \/ \E s \in Slots : Repairer(s) \/ LinkLost(s) \/ LinkDrains(s)
  PROVE  Steady
<1>1. Settled(m) /\ ConsumersOK(consumer) /\ IsEnv(env)
  BY DEF Before
<1>2. CASE RepairFailedSlots
  <2>1. Follows(m, m')
    BY <1>1, <1>2, RepairFollows
  <2>2. /\ UNCHANGED <<consumer, pump, blocked, wire>>
        /\ env' = [env EXCEPT !.repairs = @ + 1]
    BY <1>2 DEF RepairFailedSlots
  <2>3. NoNewAttempt(consumer, consumer')
    BY <1>1, <2>2 DEF NoNewAttempt
  <2>4. EnvKept(env, env')
    BY <1>1, <2>2 DEF EnvKept, IsEnv, EnvFields
  <2> QED
    BY <2>1, <2>2, <2>3, <2>4, SteadyIf
<1>3. ASSUME NEW s \in Slots, RepairSucceeds(s)
      PROVE  Steady
  <2>1. Follows(m, m')
    BY <1>1, <1>3, RepairFollows
  <2>2. /\ UNCHANGED <<pump, blocked, wire, env>>
        /\ Goto(s, "select", "none")
    BY <1>3 DEF RepairSucceeds
  <2>3. NoNewAttempt(consumer, consumer')
    BY <1>1, <2>2, GotoSteady
  <2>4. EnvKept(env, env')
    BY <1>1, <2>2 DEF EnvKept
  <2> QED
    BY <2>1, <2>2, <2>3, <2>4, SteadyIf
<1>4. ASSUME NEW s \in Slots, RepairFails(s)
      PROVE  Steady
  <2>1. Follows(m, m') /\ Alone
    BY <1>1, <1>4, RepairFollows DEF RepairFails, Alone
  <2> QED
    BY <2>1, SteadyAlone
<1>5. ASSUME NEW s \in Slots, RepairProceeds(s) \/ LinkDrains(s)
      PROVE  Steady
  <2>1. Follows(m, m') /\ Alone
    BY <1>1, <1>5, FollowsRefl DEF RepairProceeds, LinkDrains, Alone
  <2> QED
    BY <2>1, SteadyAlone
<1>6. ASSUME NEW s \in Slots, LinkLost(s)
      PROVE  Steady
  <2>1. Follows(m, m')
    BY <1>1, <1>6, FollowsRefl DEF LinkLost
  <2>2. /\ UNCHANGED <<consumer, pump, blocked, wire>>
        /\ env' = [env EXCEPT !.losses = @ + 1]
    BY <1>6 DEF LinkLost
  <2>3. NoNewAttempt(consumer, consumer')
    BY <1>1, <2>2 DEF NoNewAttempt
  <2>4. EnvKept(env, env')
    BY <1>1, <2>2 DEF EnvKept, IsEnv, EnvFields
  <2> QED
    BY <2>1, <2>2, <2>3, <2>4, SteadyIf
<1> QED
  BY <1>2, <1>3, <1>4, <1>5, <1>6 DEF Repairer

(* A step of the manager is steady, or it is one of four actions.          *)
LEMMA NextSteady ==
  ASSUME Before, Next
  PROVE  \/ Steady
         \/ \E d \in DCs, mode \in Modes : Bind(d, mode)
         \/ \E b \in Bindings, size \in env.max.reqSizes :
              PrepareProxyRequest(b, size)
         \/ \E s \in Slots : Dispatch(s) \/ FinishAttempt(s)
<1>1. CASE Lifecycle
  BY <1>1, LifecycleSteady
<1>2. ASSUME NEW b \in Bindings, Client(b)
      PROVE  Steady \/ \E size \in env.max.reqSizes :
                         PrepareProxyRequest(b, size)
  BY <1>2, ClientSteady
<1>3. CASE ReceiveReady \/ TryNextReady
  BY <1>3, ReaderSteady
<1>4. ASSUME NEW s \in Slots, Consumer(s)
      PROVE  Steady \/ Dispatch(s) \/ FinishAttempt(s)
  BY <1>4, ConsumerSteady
<1>5. ASSUME NEW s \in Slots, Prober(s)
      PROVE  Steady
  BY <1>5, ProberSteady
<1>6. CASE \/ RepairFailedSlots
           \/ \E s \in Slots : Repairer(s) \/ LinkLost(s) \/ LinkDrains(s)
  BY <1>6, RepairSteady
<1> QED
  BY <1>1, <1>2, <1>3, <1>4, <1>5, <1>6 DEF Next

-----------------------------------------------------------------------------
(* What a link has seen of a connection.                                   *)

(* The requests a link accepted.                                           *)
Sent(w) == Occurrences(w, "req")

(* What a link is told about a connection.                                 *)
Told == {"req", "close"}

(* One more request is sent, or none.                                      *)
LEMMA SentLaw ==
  ASSUME NEW w \in Seq(Told), NEW x \in Told
  PROVE  /\ Sent(w) \in Nat
         /\ Sent(Append(w, x)) = Sent(w) + (IF x = "req" THEN 1 ELSE 0)
BY OccurrencesLaw DEF Sent

(* Nothing was sent.                                                       *)
LEMMA SentNone == Sent(<<>>) = 0
BY OccurrencesNone DEF Sent

(* No request of b is queued.                                              *)
Unqueued(st, b) ==
  \A s \in Slots : \A i \in 1..Len(Out(st, s)) : ~IsRequest(Out(st, s)[i], b)

(* The open requests of b.                                                 *)
Open(st, b) == IF st.req[b].phase # "none" THEN 1 ELSE 0

(* The record w of connection b agrees with the manager's state st and     *)
(* with the number p of requests prepared.                                 *)
Recorded(st, w, b, p) ==
  /\ w \in Seq(Told)
  /\ Sent(w) + Open(st, b) <= p
  /\ st.result[b] = "accepted" => Sent(w) >= 1
  /\ \A i \in 1..Len(w) : w[i] = "close" =>
       /\ b < st.nextID /\ ~st.b[b].active /\ Unqueued(st, b)
       /\ \A j \in 1..Len(w) : i < j => w[j] = "close"

(* The records of all connections agree with the manager.                  *)
WireInv ==
  /\ DOMAIN wire = Bindings
  /\ \A b \in Bindings : Recorded(m, wire[b], b, env.prepares[b])

(* The record of b goes on while nothing of b is prepared or submitted.    *)
LEMMA RecordedKept ==
  ASSUME NEW o, NEW w, NEW b \in Bindings, NEW p, Recorded(o, w, b, p),
         p \in Nat, NEW t,
         t.req[b].phase # "none" => o.req[b].phase # "none",
         t.result[b] = "accepted" => o.result[b] = "accepted",
         Unqueued(o, b) => Unqueued(t, b),
         b < o.nextID => b < t.nextID /\ (t.b[b].active => o.b[b].active)
  PROVE  Recorded(t, w, b, p)
<1>1. Sent(w) \in Nat
  BY SentLaw DEF Recorded, Told
<1>2. Sent(w) + Open(t, b) <= p
  BY <1>1 DEF Recorded, Open
<1> QED
  BY <1>2 DEF Recorded

(* No request appears in a FIFO.                                           *)
LEMMA CarriesUnqueued ==
  ASSUME NEW o, NEW t, Carries(o, t), NEW b
  PROVE  Unqueued(o, b) => Unqueued(t, b)
BY DEF Carries, Unqueued, IsRequest

(* The records agree after a step that prepares and submits nothing.       *)
LEMMA WireKept ==
  ASSUME WireInv, IsEnv(env), EnvKept(env, env'), wire' = wire,
         Carries(m, m'),
         \A b \in Bindings : b < m.nextID =>
           b < m'.nextID /\ (m'.b[b].active => m.b[b].active)
  PROVE  WireInv'
<1>1. ASSUME NEW b \in Bindings
      PROVE  Recorded(m', wire[b], b, env.prepares[b])
  <2>1. /\ Recorded(m, wire[b], b, env.prepares[b])
        /\ env.prepares[b] \in Nat
    BY DEF WireInv, IsEnv
  <2>2. Unqueued(m, b) => Unqueued(m', b)
    BY CarriesUnqueued
  <2>3. /\ m'.req[b].phase # "none" => m.req[b].phase # "none"
        /\ m'.result[b] = "accepted" => m.result[b] = "accepted"
    BY DEF Carries
  <2> HIDE DEF WireInv
  <2> QED
    BY <2>1, <2>2, <2>3, RecordedKept
<1>2. env'.prepares = env.prepares
  BY DEF EnvKept
<1> QED
  BY <1>1, <1>2 DEF WireInv

-----------------------------------------------------------------------------
(* The inductive invariant.                                                *)

(* A consumer that is to learn the outcome of a submission has one under   *)
(* way.                                                                    *)
AttemptsHeld ==
  \A s \in Slots : consumer[s].pc = "attempt" => m.s[s].attempting

(* The inductive invariant of the manager and of those it serves.          *)
ServiceInv ==
  /\ Settled(m) /\ Lawful(m) /\ IsEnv(env) /\ ConsumersOK(consumer)
  /\ AttemptsHeld
  /\ WireInv

(* newFixedBindingManager establishes the inductive invariant.             *)
LEMMA ServiceInit == Init => ServiceInv
<1> SUFFICES ASSUME Init PROVE ServiceInv
  OBVIOUS
<1>1. /\ DOMAIN m = MFields /\ m.state = "created"
      /\ m.s = [s \in Slots |-> NewSlot]
      /\ m.b = [b \in Bindings |-> NoBinding]
      /\ m.req = [b \in Bindings |-> NoRequest]
      /\ m.queue = [b \in Bindings |-> <<>>]
      /\ m.result = [b \in Bindings |-> "none"]
      /\ m.leased = [b \in Bindings |-> FALSE]
      /\ m.notify = [b \in Bindings |-> FALSE]
      /\ m.readyQ = <<>> /\ m.readySig = FALSE /\ m.waitQ = <<>>
      /\ m.nextID = 1
  BY DEF Init, MFields
<1>2. IsState(m)
  BY LifeInit DEF LifeInv
<1>3. /\ \A s \in Slots : m.s[s] = NewSlot
      /\ \A b \in Bindings : m.req[b] = NoRequest /\ m.b[b] = NoBinding
      /\ \A b \in Bindings : m.queue[b] = <<>> /\ m.result[b] = "none"
  BY <1>1
<1>4. /\ NewSlot.out = <<>> /\ NewSlot.attempting = FALSE
      /\ DOMAIN NewSlot = SlotFields
  BY DEF NewSlot, SlotFields
<1>5. /\ NoRequest.phase = "none" /\ NoRequest.canceled = FALSE
      /\ NoRequest.owned = FALSE /\ NoRequest \in Requests
  BY DEF NoRequest, Requests, Phases
<1>6. /\ NoBinding.active = FALSE /\ NoBinding.terminal = FALSE
      /\ NoBinding.closeStarted = FALSE /\ NoBinding.localClosing = FALSE
      /\ NoBinding.resident = FALSE
  BY DEF NoBinding
<1>7. Fifo(m)
  <2>1. FifoType(m)
    <3>1. <<>> \in Seq(OutItems) /\ <<>> \in Seq(Bindings)
      OBVIOUS
    <3>2. DOMAIN m.s = Slots /\ m.req \in [Bindings -> Requests]
      BY <1>1, <1>5
    <3>3. \A s \in Slots : /\ DOMAIN m.s[s] = SlotFields
                           /\ Out(m, s) = <<>>
                           /\ m.s[s].attempting = FALSE
      BY <1>3, <1>4 DEF Out
    <3> QED
      BY <1>1, <3>1, <3>2, <3>3 DEF FifoType
  <2>2. ItemsOpen(m)
    BY <1>3, <1>4 DEF ItemsOpen, Out
  <2>3. HeadSubmitted(m)
    BY <1>3, <1>4, <1>5 DEF HeadSubmitted
  <2>4. WaitersOpen(m)
    BY <1>1 DEF WaitersOpen
  <2>5. \A b \in Bindings : RequestOK(m.req[b]) /\ LifeOK(m.b[b])
    BY <1>3, <1>5, <1>6 DEF RequestOK, LifeOK
  <2>6. Unborn(m)
    BY <1>1, <1>3, <1>5 DEF Unborn, Bindings
  <2> QED
    BY <2>1, <2>2, <2>3, <2>4, <2>5, <2>6 DEF Fifo
<1>8. Closers(m) = {}
  BY <1>3, <1>6 DEF Closers
<1>9. Heard(m, {}, {}, Closers(m))
  <2>1. \A b \in Bindings : ~HasReadyReason(m, b)
    BY <1>3, <1>5, <1>6 DEF HasReadyReason
  <2>2. Elements(m.readyQ) = {}
    BY <1>1 DEF Elements
  <2>3. blocked = {}
    BY DEF Init
  <2>4. /\ m.readyQ \in Seq(Bindings) /\ m.readySig \in BOOLEAN
        /\ m.leased \in [Bindings -> BOOLEAN]
        /\ m.notify \in [Bindings -> BOOLEAN]
        /\ DOMAIN m.queue = Bindings /\ DOMAIN m.result = Bindings
    <3>1. <<>> \in Seq(Bindings)
      OBVIOUS
    <3>2. [b \in Bindings |-> FALSE] \in [Bindings -> BOOLEAN]
      OBVIOUS
    <3> QED
      BY <1>1, <3>1, <3>2
  <2> QED
    BY <1>8, <2>1, <2>2, <2>3, <2>4 DEF Heard
<1>10. Settled(m)
  <2>1. SameClosing(m, m) /\ Inherits(m, m)
    BY <1>3, <1>6 DEF SameClosing, Inherits, Carries, IsRequest
  <2> QED
    BY <1>2, <1>7, <1>9, <2>1, EvolvesRefl DEF Settled, Sound
<1>11. Lawful(m)
  BY <1>3, <1>5, <1>6 DEF Lawful, Residents, Orphans
<1>12. IsEnv(env)
  BY DEF Init, IsEnv, EnvFields
<1>13. ConsumersOK(consumer) /\ AttemptsHeld
  BY DEF Init, ConsumersOK, AttemptsHeld
<1>14. WireInv
  <2>1. ASSUME NEW b \in Bindings
        PROVE  Recorded(m, <<>>, b, 0)
    <3>1. Open(m, b) = 0
      BY <1>3, <1>5 DEF Open
    <3>2. m.result[b] = "none"
      BY <1>3
    <3> QED
      BY <3>1, <3>2, SentNone DEF Recorded
  <2>2. /\ wire = [b \in Bindings |-> <<>>]
        /\ env.prepares = [b \in Bindings |-> 0]
    BY DEF Init
  <2> QED
    BY <2>1, <2>2 DEF WireInv
<1> QED
  BY <1>10, <1>11, <1>12, <1>13, <1>14 DEF ServiceInv

(* A steady step keeps the invariant.                                      *)
LEMMA SteadyService ==
  ASSUME ServiceInv, Steady
  PROVE  ServiceInv' /\ Isolates(m, m')
<1>1. Lawful(m)'
  BY LawfulKept DEF ServiceInv, Steady
<1>2. IsEnv(env)' /\ ConsumersOK(consumer)' /\ AttemptsHeld'
  BY DEF ServiceInv, Steady, EnvKept, NoNewAttempt, AttemptsHeld, SameAttempts
<1>3. \A b \in Bindings : b < m.nextID =>
        b < m'.nextID /\ (m'.b[b].active => m.b[b].active)
  BY DEF Steady, Continues, LivesKept, Kept
<1>4. WireInv'
  BY <1>3, WireKept DEF ServiceInv, Steady
<1> QED
  BY <1>1, <1>2, <1>4 DEF ServiceInv, Steady, Continues

(* bind keeps the invariant.                                               *)
LEMMA BindService ==
  ASSUME ServiceInv, NEW d, NEW mode, Bind(d, mode)
  PROVE  ServiceInv' /\ Isolates(m, m')
<1>1. IsState(m) /\ Settled(m) /\ Lawful(m)
  BY SettledFacts DEF ServiceInv
<1>2. IsState(m')
  BY <1>1, BindStep
<1>3. PICK k : Admitted(m, m', m.nextID, k)
  BY <1>1, BindAdmits
<1>4. Settled(m') /\ Lawful(m') /\ Carries(m, m') /\ SameAttempts(m, m')
  BY <1>1, <1>2, <1>3, AdmittedSound
<1>5. UNCHANGED <<consumer, pump, blocked, wire, env>>
  BY DEF Bind
<1>6. Settled(m)'
  BY <1>4, <1>5, SettledPrime
<1>7. \A b \in Bindings : b < m.nextID =>
        b < m'.nextID /\ (m'.b[b].active => m.b[b].active)
  <2>1. m.nextID \in Nat /\ m'.nextID = m.nextID + 1
    BY <1>1, <1>3 DEF Admitted, IsState
  <2>2. \A b \in Bindings : b < m.nextID => b < m'.nextID /\ b # m.nextID
    BY <2>1 DEF Bindings
  <2> QED
    BY <1>3, <2>2 DEF Admitted
<1>8. EnvKept(env, env')
  BY <1>5 DEF ServiceInv, EnvKept
<1>9. WireInv'
  BY <1>4, <1>5, <1>7, <1>8, WireKept DEF ServiceInv
<1>10. Isolates(m, m')
  BY <1>3 DEF Isolates, Admitted, Same, MFields
<1>11. AttemptsHeld'
  BY <1>4, <1>5 DEF ServiceInv, AttemptsHeld, SameAttempts
<1> QED
  BY <1>4, <1>5, <1>6, <1>9, <1>10, <1>11 DEF ServiceInv

(* prepareProxyRequest keeps the invariant.                                *)
LEMMA PrepareService ==
  ASSUME ServiceInv, NEW b \in Bindings, NEW size \in env.max.reqSizes,
         PrepareProxyRequest(b, size)
  PROVE  ServiceInv' /\ Isolates(m, m')
<1>1. /\ Settled(m') /\ Continues(m, m') /\ SameAttempts(m, m')
      /\ CarriesBut(m, m', b) /\ m.req[b].phase = "none" /\ m.b[b].active
  BY PrepareFollows DEF ServiceInv
<1>2. /\ UNCHANGED <<consumer, pump, blocked, wire>>
      /\ env' = [env EXCEPT !.prepares[b] = @ + 1]
  BY DEF PrepareProxyRequest
<1>3. Settled(m)' /\ Lawful(m)'
  BY <1>1, <1>2, SettledPrime, LawfulKept DEF ServiceInv
<1>4. /\ IsEnv(env') /\ env'.prepares[b] = env.prepares[b] + 1
      /\ \A c \in Bindings \ {b} : env'.prepares[c] = env.prepares[c]
      /\ \A c \in Bindings : env.prepares[c] \in Nat
  BY <1>2 DEF ServiceInv, IsEnv, EnvFields
<1>5. AttemptsHeld'
  BY <1>1, <1>2 DEF ServiceInv, AttemptsHeld, SameAttempts
<1>6. \A c \in Bindings : Recorded(m, wire[c], c, env.prepares[c])
  BY DEF ServiceInv, WireInv
<1>7. \A c \in Bindings : c < m.nextID =>
        c < m'.nextID /\ (m'.b[c].active => m.b[c].active)
  BY <1>1 DEF Continues, LivesKept, Kept
<1>8. ASSUME NEW c \in Bindings \ {b}
      PROVE  Recorded(m', wire[c], c, env'.prepares[c])
  <2>1. Unqueued(m, c) => Unqueued(m', c)
    BY <1>1 DEF CarriesBut, Unqueued, IsRequest
  <2>2. /\ m'.req[c].phase # "none" => m.req[c].phase # "none"
        /\ m'.result[c] = "accepted" => m.result[c] = "accepted"
    BY <1>1 DEF CarriesBut
  <2> QED
    BY <1>4, <1>6, <1>7, <2>1, <2>2, RecordedKept
<1>9. Recorded(m', wire[b], b, env'.prepares[b])
  <2> DEFINE w == wire[b]
  <2>1. Recorded(m, w, b, env.prepares[b])
    BY <1>6
  <2> HIDE DEF w
  <2>2. w \in Seq(Told) /\ Sent(w) \in Nat
    BY <2>1, SentLaw DEF Recorded, Told
  <2>3. Sent(w) + Open(m', b) <= env'.prepares[b]
    BY <1>1, <1>4, <2>1, <2>2 DEF Recorded, Open
  <2>4. \A i \in 1..Len(w) : w[i] # "close"
    BY <1>1, <2>1 DEF Recorded
  <2>5. m'.result[b] = "accepted" => m.result[b] = "accepted"
    BY <1>1 DEF CarriesBut
  <2>6. Recorded(m', w, b, env'.prepares[b])
    BY <2>1, <2>2, <2>3, <2>4, <2>5 DEF Recorded
  <2> QED
    BY <2>6 DEF w
<1>10. WireInv'
  <2>1. \A c \in Bindings : Recorded(m', wire'[c], c, env'.prepares[c])
    BY <1>2, <1>8, <1>9
  <2> QED
    BY <1>2, <2>1 DEF ServiceInv, WireInv
<1> QED
  BY <1>1, <1>2, <1>3, <1>4, <1>5, <1>10 DEF ServiceInv, Continues

(* The beginning of a submission keeps the invariant.                      *)
LEMMA DispatchService ==
  ASSUME ServiceInv, NEW s \in Slots, Dispatch(s)
  PROVE  ServiceInv' /\ Isolates(m, m')
<1>1. /\ Settled(m') /\ Continues(m, m') /\ Carries(m, m')
      /\ \A z \in Slots \ {s} : m'.s[z].attempting = m.s[z].attempting
      /\ \/ consumer' = consumer
            /\ m'.s[s].attempting = m.s[s].attempting
         \/ m'.s[s].attempting
  BY DispatchFollows DEF ServiceInv
<1>2. UNCHANGED <<pump, blocked, wire, env>>
  BY DEF Dispatch
<1>3. Settled(m)' /\ Lawful(m)'
  BY <1>1, <1>2, SettledPrime, LawfulKept DEF ServiceInv
<1>4. consumer' = consumer
        \/ consumer' = [consumer EXCEPT ![s] = [pc |-> "attempt",
                                                reason |-> "none"]]
  BY DEF Dispatch, Goto
<1>5. ConsumersOK(consumer') /\ \A z \in Slots \ {s} : consumer'[z] = consumer[z]
  BY <1>4 DEF ServiceInv, ConsumersOK
<1>6. AttemptsHeld'
  BY <1>1, <1>5 DEF ServiceInv, AttemptsHeld
<1>7. \A b \in Bindings : b < m.nextID =>
        b < m'.nextID /\ (m'.b[b].active => m.b[b].active)
  BY <1>1 DEF Continues, LivesKept, Kept
<1>8. EnvKept(env, env')
  BY <1>2 DEF ServiceInv, EnvKept
<1>9. WireInv'
  BY <1>1, <1>2, <1>7, <1>8, WireKept DEF ServiceInv
<1> QED
  BY <1>1, <1>2, <1>3, <1>5, <1>6, <1>9 DEF ServiceInv, Continues

(* The end of a submission keeps the invariant.                            *)
LEMMA FinishAttemptService ==
  ASSUME ServiceInv, NEW s \in Slots, FinishAttempt(s)
  PROVE  ServiceInv' /\ Isolates(m, m')
<1> DEFINE i == Out(m, s)[1]
           b == i.b
           A(outcome) == IF i.kind = "req" /\ outcome = "ok" THEN {i.b} ELSE {}
           on(outcome) == outcome = "ok" /\ i.kind # "probe"
                            /\ SlotOf(m, i.b) = s
<1>1. Settled(m) /\ Fifo(m) /\ m.s[s].attempting
  BY SettledFacts DEF ServiceInv, AttemptsHeld, FinishAttempt
<1>2. PICK outcome :
        /\ Settled(m') /\ Continues(m, m') /\ Attempted(m, m', s, A(outcome))
        /\ i.kind = "req" /\ outcome = "ok" => m'.req[i.b].phase = "none"
        /\ wire' = IF on(outcome)
                   THEN [wire EXCEPT ![i.b] = Append(@,
                           IF i.kind = "req" THEN "req" ELSE "close")]
                   ELSE wire
  BY <1>1, FinishAttemptFollows
<1>3. /\ UNCHANGED <<pump, blocked>>
      /\ \E x : env' = [env EXCEPT !.full = x]
      /\ \E r : \E pc \in {"failing", "select"} :
           consumer' = [consumer EXCEPT ![s] = [pc |-> pc, reason |-> r]]
  BY DEF FinishAttempt, Goto
<1>4. Settled(m)' /\ Lawful(m)'
  BY <1>2, <1>3, SettledPrime, LawfulKept DEF ServiceInv
<1>5. IsEnv(env') /\ env'.prepares = env.prepares
  BY <1>3 DEF ServiceInv, IsEnv, EnvFields
<1>6. /\ ConsumersOK(consumer') /\ consumer'[s].pc # "attempt"
      /\ \A z \in Slots \ {s} : consumer'[z] = consumer[z]
  BY <1>3 DEF ServiceInv, ConsumersOK
<1>7. AttemptsHeld'
  BY <1>2, <1>6 DEF ServiceInv, AttemptsHeld, Attempted
<1>8. /\ 1 \in 1..Len(Out(m, s)) /\ ItemOpen(m, s, i)
  <2>1. 1 \in 1..Len(Out(m, s))
    BY <1>1 DEF Fifo, FifoType, HeadSubmitted
  <2> QED
    BY <1>1, <2>1 DEF Fifo, ItemsOpen
<1>9. \A c \in Bindings : c < m.nextID =>
        c < m'.nextID /\ (m'.b[c].active => m.b[c].active)
  BY <1>2 DEF Continues, LivesKept, Kept
<1>10. \A c \in Bindings : /\ Recorded(m, wire[c], c, env.prepares[c])
                           /\ env.prepares[c] \in Nat
  BY DEF ServiceInv, WireInv, IsEnv
<1>11. ASSUME NEW c \in Bindings
       PROVE  /\ Unqueued(m, c) => Unqueued(m', c)
              /\ m'.req[c].phase # "none" => m.req[c].phase # "none"
              /\ m'.result[c] = "accepted" =>
                   m.result[c] = "accepted" \/ c \in A(outcome)
  BY <1>2 DEF Attempted, Unqueued, IsRequest
<1> HIDE DEF i
<1>12. ASSUME NEW c \in Bindings, c \notin A(outcome)
       PROVE  Recorded(m', wire[c], c, env.prepares[c])
  BY <1>9, <1>10, <1>11, <1>12, RecordedKept
<1>13. CASE ~on(outcome)
  <2>1. A(outcome) = {}
    BY <1>8, <1>13 DEF ItemOpen, SlotOf
  <2>2. wire' = wire
    BY <1>2, <1>13
  <2>3. WireInv'
    BY <1>5, <1>12, <2>1, <2>2 DEF ServiceInv, WireInv
  <2> QED
    BY <1>2, <1>4, <1>5, <1>6, <1>7, <2>3 DEF ServiceInv, Continues
<1>14. CASE on(outcome)
  <2> DEFINE x == IF i.kind = "req" THEN "req" ELSE "close"
             w == wire[b]
             v == Append(w, x)
             p == env.prepares[b]
  <2>1. b \in Bindings /\ b < m.nextID
    BY <1>8, <1>14 DEF ItemOpen
  <2>2. DOMAIN wire = Bindings
    BY DEF ServiceInv, WireInv
  <2>3. /\ DOMAIN wire' = Bindings /\ wire'[b] = v
        /\ \A c \in Bindings \ {b} : wire'[c] = wire[c]
    <3>1. wire' = [wire EXCEPT ![b] = v]
      BY <1>2, <1>14, <2>1, <2>2
    <3> HIDE DEF v, b
    <3> QED
      BY <2>1, <2>2, <3>1
  <2>4. Recorded(m, w, b, p) /\ p \in Nat
    BY <1>10, <2>1
  <2>5. x \in Told /\ w \in Seq(Told)
    BY <2>4 DEF Told, Recorded
  <2> HIDE DEF w, x, p
  <2>6. /\ Sent(w) \in Nat /\ v \in Seq(Told)
        /\ Sent(v) = Sent(w) + (IF x = "req" THEN 1 ELSE 0)
        /\ Len(v) = Len(w) + 1 /\ v[Len(v)] = x
        /\ \A j \in 1..Len(w) : v[j] = w[j]
    BY <2>5, SentLaw
  <2> HIDE DEF v
  <2>7. CASE i.kind = "req"
    <3>1. x = "req" /\ m'.req[b].phase = "none" /\ m.req[b].phase # "none"
      BY <1>2, <1>8, <1>14, <2>7 DEF x, ItemOpen
    <3>2. Sent(v) + Open(m', b) <= p /\ Sent(v) >= 1
      BY <2>4, <2>6, <3>1 DEF Recorded, Open
    <3>3. ~Unqueued(m, b)
      BY <1>8, <2>7 DEF Unqueued, IsRequest, i
    <3>4. \A j \in 1..Len(w) : w[j] # "close"
      BY <2>4, <3>3 DEF Recorded
    <3>5. \A j \in 1..Len(v) : v[j] # "close"
      <4>1. \A j \in 1..Len(v) : j \in 1..Len(w) \/ j = Len(v)
        BY <2>5, <2>6
      <4> QED
        BY <2>6, <3>1, <3>4, <4>1
    <3>6. Recorded(m', v, b, p)
      BY <2>6, <3>2, <3>5 DEF Recorded
    <3>7. A(outcome) = {b}
      BY <1>14, <2>7
    <3>8. \A c \in Bindings : Recorded(m', wire'[c], c, env'.prepares[c])
      <4>1. \A c \in Bindings \ {b} : Recorded(m', wire[c], c, env.prepares[c])
        BY <1>12, <3>7
      <4> QED
        BY <1>5, <2>3, <3>6, <4>1 DEF p
    <3>9. WireInv'
      BY <2>3, <3>8 DEF WireInv
    <3> QED
      BY <1>2, <1>4, <1>5, <1>6, <1>7, <3>9 DEF ServiceInv, Continues
  <2>8. CASE i.kind # "req"
    <3>1. A(outcome) = {} /\ x = "close"
      BY <2>8 DEF x
    <3>2. IsClose(i, b) /\ ~m.b[b].active /\ m.b[b].slot = s
      <4>1. i \in OutItems
        BY <1>1, <1>8 DEF Fifo, FifoType, i
      <4>2. i.kind \in {"close", "reap"}
        BY <1>14, <2>8, <4>1 DEF OutItems
      <4> QED
        BY <1>8, <1>14, <4>2 DEF IsClose, ItemOpen, SlotOf
    <3>3. Unqueued(m, b)
      <4> SUFFICES ASSUME NEW z \in Slots, NEW j \in 1..Len(Out(m, z)),
                          IsRequest(Out(m, z)[j], b)
                   PROVE  FALSE
        BY DEF Unqueued
      <4>1. Out(m, z)[j].kind = "req" /\ Out(m, z)[j].b = b
        BY DEF IsRequest
      <4>2. ItemOpen(m, z, Out(m, z)[j])
        BY <1>1 DEF Fifo, ItemsOpen
      <4>3. z = s
        BY <3>2, <4>1, <4>2 DEF ItemOpen
      <4>4. IsClose(Out(m, s)[1], b)
        BY <3>2 DEF i
      <4>5. j < 1
        BY <1>1, <1>8, <4>1, <4>3, <4>4 DEF Fifo, ItemsOpen
      <4> QED
        BY <4>5
    <3>4. Unqueued(m', b) /\ b < m'.nextID /\ ~m'.b[b].active
      BY <1>9, <1>11, <2>1, <3>2, <3>3
    <3>5. Recorded(m', w, b, p)
      BY <1>12, <2>1, <3>1 DEF w, p
    <3>6. Recorded(m', v, b, p)
      <4>1. Sent(v) = Sent(w)
        BY <2>6, <3>1
      <4>2. \A j \in 1..Len(v) : j \in 1..Len(w) \/ j = Len(v)
        BY <2>5, <2>6
      <4>3. \A j, k \in 1..Len(v) : v[j] = "close" /\ j < k => v[k] = "close"
        <5>1. ASSUME NEW j \in 1..Len(v), NEW k \in 1..Len(v),
                     v[j] = "close", j < k
              PROVE  v[k] = "close"
          <6>1. CASE k = Len(v)
            BY <2>6, <3>1, <6>1
          <6>2. CASE k # Len(v)
            <7>1. k \in 1..Len(w) /\ j \in 1..Len(w)
              BY <2>5, <2>6, <5>1, <6>2
            <7>2. w[j] = "close"
              BY <2>6, <5>1, <7>1
            <7>3. w[k] = "close"
              BY <2>4, <5>1, <7>1, <7>2 DEF Recorded
            <7> QED
              BY <2>6, <7>1, <7>3
          <6> QED
            BY <6>1, <6>2
        <5> QED
          BY <5>1
      <4> QED
        BY <2>6, <3>4, <3>5, <4>1, <4>3 DEF Recorded
    <3>7. \A c \in Bindings : Recorded(m', wire'[c], c, env'.prepares[c])
      <4>1. \A c \in Bindings \ {b} : Recorded(m', wire[c], c, env.prepares[c])
        BY <1>12, <3>1
      <4> QED
        BY <1>5, <2>3, <3>6, <4>1 DEF p
    <3>8. WireInv'
      BY <2>3, <3>7 DEF WireInv
    <3> QED
      BY <1>2, <1>4, <1>5, <1>6, <1>7, <3>8 DEF ServiceInv, Continues
  <2> QED
    BY <2>7, <2>8
<1> QED
  BY <1>13, <1>14

(* Every step keeps the invariant and isolates failures.                   *)
LEMMA ServiceNext ==
  ASSUME ServiceInv, [Next]_vars
  PROVE  /\ ServiceInv'
         /\ [Isolates(m, m')]_vars
<1>1. CASE UNCHANGED vars
  <2>1. /\ m' = m /\ consumer' = consumer /\ pump' = pump
        /\ blocked' = blocked /\ wire' = wire /\ env' = env
    BY <1>1 DEF vars
  <2>2. Settled(m') /\ pump' = pump /\ \A b \in blocked' : b \in blocked
    BY <2>1 DEF ServiceInv
  <2>3. Settled(m)'
    BY <2>2, SettledPrime
  <2> QED
    BY <1>1, <2>1, <2>3 DEF ServiceInv, AttemptsHeld, WireInv
<1>2. CASE Next
  <2>1. Before
    BY DEF ServiceInv, Before
  <2>2. \/ Steady
        \/ \E d \in DCs, mode \in Modes : Bind(d, mode)
        \/ \E b \in Bindings, size \in env.max.reqSizes :
             PrepareProxyRequest(b, size)
        \/ \E s \in Slots : Dispatch(s) \/ FinishAttempt(s)
    BY <1>2, <2>1, NextSteady
  <2>3. ServiceInv' /\ Isolates(m, m')
    BY <2>2, SteadyService, BindService, PrepareService, DispatchService,
       FinishAttemptService
  <2> QED
    BY <2>3
<1> QED
  BY <1>1, <1>2

(* No readiness is lost: whatever the clients, the links and the owner do, *)
(* a binding with something to report is queued or leased, the receiver of *)
(* a non-empty queue is awake or signalled, and a blocked reader with      *)
(* something to read has its notification.                                 *)
THEOREM NoLostReadinessHolds == Spec => []NoLostReadiness
<1>1. ServiceInv => NoLostReadiness
  <2> SUFFICES ASSUME ServiceInv PROVE NoLostReadiness
    OBVIOUS
  <2>1. Heard(m, {}, {}, Closers(m))
    BY DEF ServiceInv, Settled, Sound
  <2>2. m.readyQ # <<>> => Elements(m.readyQ) # {}
    BY <2>1, ElementsEmpty DEF Heard
  <2> QED
    BY <2>1, <2>2 DEF Heard, NoLostReadiness
<1>2. ServiceInv /\ [Next]_vars => ServiceInv'
  BY ServiceNext
<1> QED
  BY <1>1, <1>2, ServiceInit, PTL DEF Spec

(* A request is reported accepted only after the link accepted it, no      *)
(* prepared request is submitted twice, and no request of a connection     *)
(* follows its close.                                                      *)
THEOREM SubmittedOnceInOrderHolds == Spec => []SubmittedOnceInOrder
<1>1. ServiceInv => SubmittedOnceInOrder
  <2> SUFFICES ASSUME ServiceInv, NEW b \in Bindings
               PROVE  LET sent == Sent(wire[b])
                          open == IF m.req[b].owned THEN 1 ELSE 0
                      IN  /\ sent + open <= env.prepares[b]
                          /\ m.result[b] = "accepted" => sent >= 1
                          /\ \A i, j \in DOMAIN wire[b] :
                               i < j /\ wire[b][i] = "close" =>
                                 wire[b][j] = "close"
    BY DEF SubmittedOnceInOrder, Sent, Occurrences
  <2> DEFINE w == wire[b]
  <2>1. Recorded(m, w, b, env.prepares[b]) /\ env.prepares[b] \in Nat
    BY DEF ServiceInv, WireInv, IsEnv
  <2>2. m.req[b].owned => m.req[b].phase # "none"
    BY DEF ServiceInv, Settled, Sound, Fifo, RequestOK
  <2> HIDE DEF w
  <2>3. w \in Seq(Told) /\ Sent(w) \in Nat
    BY <2>1, SentLaw DEF Recorded, Told
  <2>4. Sent(w) + (IF m.req[b].owned THEN 1 ELSE 0) <= env.prepares[b]
    BY <2>1, <2>2, <2>3 DEF Recorded, Open
  <2>5. /\ m.result[b] = "accepted" => Sent(w) >= 1
        /\ \A i, j \in DOMAIN w : i < j /\ w[i] = "close" => w[j] = "close"
    BY <2>1, <2>3 DEF Recorded
  <2> QED
    BY <2>4, <2>5 DEF w
<1>2. ServiceInv /\ [Next]_vars => ServiceInv'
  BY ServiceNext
<1> QED
  BY <1>1, <1>2, ServiceInit, PTL DEF Spec

(* The failure of one link leaves the bindings of the other slots alone.   *)
THEOREM FailureIsIsolatedHolds == Spec => FailureIsIsolated
<1>1. ServiceInv /\ [Next]_vars => ServiceInv'
  BY ServiceNext
<1>2. ServiceInv /\ [Next]_vars =>
        [\A s \in Slots :
           ~m.s[s].failed /\ m'.s[s].failed /\ m'.state = "ready" =>
             \A b \in Bindings : m.b[b].slot # s =>
               m'.b[b] = m.b[b] /\ m'.queue[b] = m.queue[b]]_vars
  BY ServiceNext DEF Isolates
<1> QED
  BY <1>1, <1>2, ServiceInit, PTL DEF Spec, FailureIsIsolated

==============================================================================
