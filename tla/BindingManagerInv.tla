-------------------------- MODULE BindingManagerInv --------------------------
(***************************************************************************)
(* What a critical section of the fixed-binding manager keeps, as          *)
(* predicates on the manager's state: the terms in which the proofs about  *)
(* it are stated.  Evolves is about the lives of bindings, Sound about the *)
(* outbound FIFOs, the requests and the readiness too.                     *)
(***************************************************************************)
EXTENDS BindingManagerProps

(* The fields of the manager, and of the life of a binding.                *)
MFields == {"state", "accepting", "drained", "err", "nextID", "probeID",
  "bindNext", "readyQ", "readySig", "waitQ", "use", "all", "s", "b", "req",
  "queue", "result", "leased", "notify"}

LifeFields == {"slot", "mode", "resident", "active", "localClosing",
  "remoteClosed", "terminal", "err", "observed", "closeStarted", "closeSet",
  "closeErr"}

(* A record of clientBinding's lifecycle fields.                           *)
IsLife(r) ==
  /\ DOMAIN r = LifeFields
  /\ r.resident \in BOOLEAN /\ r.active \in BOOLEAN
  /\ r.remoteClosed \in BOOLEAN /\ r.terminal \in BOOLEAN
  /\ r.observed \in BOOLEAN /\ r.closeStarted \in BOOLEAN
  /\ r.closeSet \in BOOLEAN

(* The fields the proofs look at are typed; the others are only there.     *)
IsState(st) ==
  /\ DOMAIN st = MFields
  /\ DOMAIN st.b = Bindings
  /\ \A b \in Bindings : IsLife(st.b[b])
  /\ st.accepting \in BOOLEAN
  /\ st.drained \in BOOLEAN
  /\ st.nextID \in Nat

(* DrainedIsFinal, of any state of the manager.                            *)
DrainSound(st) == st.drained => ~st.accepting /\ Residents(st) = {}

(* The lives of the bindings, as an operator may change them.              *)
LivesKept(st, t) ==
  /\ DOMAIN t.b = Bindings
  /\ \A b \in Bindings : IsLife(t.b[b]) /\ Kept(st.b[b], t.b[b])

(* t may follow o within a critical section.                               *)
Evolves(o, t) ==
  /\ IsState(o) /\ IsState(t)
  /\ t.nextID = o.nextID
  /\ t.accepting = o.accepting
  /\ LivesKept(o, t)
  /\ DrainSound(o) => DrainSound(t)

(* t differs from st in fields the proofs do not look at.                  *)
Quiet(st, t) ==
  /\ DOMAIN t = MFields
  /\ t.b = st.b /\ t.accepting = st.accepting /\ t.drained = st.drained
  /\ t.nextID = st.nextID

(* t differs from st in the lives of bindings.                             *)
LivesOnly(st, t) ==
  /\ DOMAIN t = MFields
  /\ t.accepting = st.accepting /\ t.drained = st.drained
  /\ t.nextID = st.nextID
  /\ LivesKept(st, t)

(* t agrees with st on every field outside F.                              *)
Same(st, t, F) == DOMAIN t = MFields /\ \A f \in MFields \ F : t[f] = st[f]

-----------------------------------------------------------------------------
(* The invariant of a critical section.                                    *)

(* The fields of a slot.                                                   *)
SlotFields == {"failed", "reason", "repairing", "out", "attempting", "wake",
               "probe"}

(* The work a slot may have queued.                                        *)
OutItems == [kind : {"req", "close", "reap", "probe"},
             b : Bindings \cup {0}, id : Nat, canceled : BOOLEAN]

(* The states of a request.                                                *)
Requests == [phase : Phases, size : Nat, handed : BOOLEAN,
             canceled : BOOLEAN, owned : BOOLEAN]

(* The phases in which a request no longer waits for its client.           *)
InFlight == {"materializing", "materialized", "attempting"}

(* The outbound FIFO of slot s.                                            *)
Out(st, s) == st.s[s].out

(* The item is the request of b.                                           *)
IsRequest(i, b) == i.kind = "req" /\ i.b = b

(* The types of what the FIFOs and the requests are made of.               *)
FifoType(st) ==
  /\ DOMAIN st.s = Slots
  /\ \A s \in Slots : /\ DOMAIN st.s[s] = SlotFields
                      /\ Out(st, s) \in Seq(OutItems)
                      /\ st.s[s].attempting \in BOOLEAN
  /\ st.req \in [Bindings -> Requests]
  /\ st.waitQ \in Seq(Bindings)

(* The item tells the link to close the connection of b.                   *)
IsClose(i, b) == i.kind \in {"close", "reap"} /\ i.b = b

(* A queued request is an open request of a binding of that slot, and no   *)
(* binding has two.  A close is queued for a binding that no longer        *)
(* accepts requests, behind its request.                                   *)
ItemOpen(st, s, i) ==
  /\ i.kind # "probe" => i.b \in Bindings /\ i.b < st.nextID
  /\ i.kind = "req" => st.b[i.b].slot = s /\ st.req[i.b].phase # "none"
  /\ i.kind = "close" => st.b[i.b].closeStarted
  /\ i.kind \in {"close", "reap"} => ~st.b[i.b].active

(* Every queued item is open and in its place.                             *)
ItemsOpen(st) ==
  \A s \in Slots : \A i \in 1..Len(Out(st, s)) :
    /\ ItemOpen(st, s, Out(st, s)[i])
    /\ Out(st, s)[i].kind = "req" =>
         \A j \in 1..Len(Out(st, s)) :
           /\ IsRequest(Out(st, s)[j], Out(st, s)[i].b) => j = i
           /\ IsClose(Out(st, s)[j], Out(st, s)[i].b) => i < j

(* The item a consumer is submitting is the head of its FIFO, and only     *)
(* that request is in the phase "attempting".                              *)
HeadSubmitted(st) ==
  /\ \A s \in Slots : st.s[s].attempting =>
       /\ Out(st, s) # <<>>
       /\ Out(st, s)[1].kind = "req" =>
            st.req[Out(st, s)[1].b].phase = "attempting"
  /\ \A b \in Bindings : st.req[b].phase = "attempting" =>
       /\ st.b[b].slot \in Slots
       /\ st.s[st.b[b].slot].attempting
       /\ Out(st, st.b[b].slot) # <<>>
       /\ IsRequest(Out(st, st.b[b].slot)[1], b)

(* The wait queue holds waiting requests, each once.                       *)
WaitersOpen(st) ==
  \A i \in 1..Len(st.waitQ) :
    /\ st.req[st.waitQ[i]].phase = "waiting"
    /\ st.req[st.waitQ[i]].owned
    /\ \A j \in 1..Len(st.waitQ) : st.waitQ[i] = st.waitQ[j] => i = j

(* A canceled request is in flight and disowned; an open one is owned.     *)
RequestOK(r) ==
  /\ r.canceled => ~r.owned /\ r.phase \in {"materializing", "attempting"}
  /\ r.owned => r.phase # "none"
  /\ r.phase # "none" /\ ~r.canceled => r.owned

(* A binding that accepts requests is resident and has not ended.          *)
LifeOK(l) ==
  l.active => l.resident /\ ~l.terminal /\ ~l.closeStarted /\ ~l.remoteClosed

(* A connection ID that has not been allocated has nothing.                *)
Unborn(st) ==
  \A b \in Bindings :
    IF b < st.nextID THEN st.b[b].slot \in Slots
    ELSE /\ st.req[b].phase = "none"
         /\ st.queue[b] = <<>> /\ st.result[b] = "none"

(* The FIFOs, the requests and the lives agree.                            *)
Fifo(st) ==
  /\ FifoType(st)
  /\ ItemsOpen(st)
  /\ HeadSubmitted(st)
  /\ WaitersOpen(st)
  /\ \A b \in Bindings : RequestOK(st.req[b]) /\ LifeOK(st.b[b])
  /\ Unborn(st)

(* Nothing of b can become a reason to report, except by a new request or  *)
(* event.                                                                  *)
Quietened(st, b) ==
  /\ st.queue[b] = <<>>
  /\ st.result[b] = "none"
  /\ st.req[b].owned => st.req[b].phase \in InFlight

(* NoLostReadiness, except for the reasons of X and the notifications of   *)
(* Y; the bindings of Q are quiet.                                         *)
Heard(st, X, Y, Q) ==
  /\ st.readyQ \in Seq(Bindings)
  /\ st.readySig \in BOOLEAN
  /\ st.leased \in [Bindings -> BOOLEAN]
  /\ st.notify \in [Bindings -> BOOLEAN]
  /\ DOMAIN st.queue = Bindings
  /\ DOMAIN st.result = Bindings
  /\ \A b \in Bindings : b \in X \/ ~HasReadyReason(st, b)
                           \/ IsQueued(st, b) \/ st.leased[b]
  /\ Elements(st.readyQ) = {} \/ st.readySig \/ pump = "drain"
  /\ blocked \subseteq Bindings
  /\ \A b \in blocked : b \in Y \/ st.notify[b]
                          \/ (st.queue[b] = <<>> /\ ~st.b[b].terminal)
  /\ Q \subseteq Bindings
  /\ \A b \in Q : Quietened(st, b)

(* The local closes that st has seen began before o.                       *)
SameClosing(o, st) ==
  \A b \in Bindings :
    /\ st.b[b].closeStarted => o.b[b].closeStarted
    /\ st.b[b].closeStarted => st.b[b].localClosing
    /\ st.b[b].localClosing => st.b[b].closeStarted

(* Every open request, accepted result and queued request of st was there  *)
(* in o.                                                                   *)
Carries(o, st) ==
  /\ \A b \in Bindings :
       /\ st.req[b].phase # "none" => o.req[b].phase # "none"
       /\ st.result[b] = "accepted" => o.result[b] = "accepted"
  /\ \A s \in Slots : \A i \in 1..Len(Out(st, s)) :
       Out(st, s)[i].kind = "req" =>
         \E j \in 1..Len(Out(o, s)) : IsRequest(Out(o, s)[j],
                                               Out(st, s)[i].b)

(* The manager is in the same state, with the same submissions under way,  *)
(* and no slot has failed since o.                                         *)
Inherits(o, st) ==
  /\ st.state = o.state
  /\ \A s \in Slots : /\ st.s[s].failed => o.s[s].failed
                      /\ st.s[s].attempting = o.s[s].attempting
  /\ Carries(o, st)

(* st may follow o within a critical section.                              *)
Sound(o, st, X, Y, Q) ==
  /\ Evolves(o, st)
  /\ SameClosing(o, st)
  /\ Inherits(o, st)
  /\ Fifo(st)
  /\ Heard(st, X, Y, Q)

==============================================================================
