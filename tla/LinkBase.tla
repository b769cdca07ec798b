------------------------------- MODULE LinkBase -------------------------------
(***************************************************************************)
(* What the two implementations of ClientLink share                        *)
(* (pkg/transport/middleend/link.go): bounded submissions, the bounded     *)
(* event queue with lazily reconciled charges, the coalesced capacity      *)
(* signal, and the callers of a link.                                      *)
(*                                                                         *)
(* k is one link with its goroutines; the fields both engines have are     *)
(* those of NewLink.  A submission is its size and the position at which   *)
(* it was accepted; a frame of the peer is a bootstrap message ("nonce",   *)
(* "shake"), an answer, a ping or something invalid.                       *)
(***************************************************************************)
EXTENDS Integers, FiniteSets, Sequences, UnitSums

CONSTANTS
  Limits,       \* LinkLimits: subs, subBytes, events, evBytes
  Overhead,     \* maxLinkSubmissionWireOverhead
  PongWire,     \* gnetEncryptedPongSize
  Scenarios     \* environments: see Idle

VARIABLES k, env

vars == <<k, env>>

(* LinkLimits.Validate; the ceilings and the overflow test concern numbers *)
(* far above those of a model.                                             *)
ASSUME LimitsAssumption ==
  /\ \A f \in {"subs", "subBytes", "events", "evBytes"} :
       Limits[f] \in Nat \ {0}
  /\ Overhead \in Nat /\ PongWire \in Nat \ {0}

(* A link is of one of the two engines; a valid submission has a payload   *)
(* (LinkSubmission.Validate).                                              *)
ASSUME ScenarioAssumption ==
  \A m \in Scenarios :
    m.kind \in {"gnet", "blocking"} /\ m.sizes \subseteq Nat \ {0}

(* A link before Start.                                                    *)
NewLink(kind) ==
  [kind |-> kind, state |-> "created", err |-> "none", start |-> "none",
   done |-> FALSE, subs |-> <<>>, pend |-> 0, bytes |-> 0,
   evq |-> <<>>, charges |-> <<>>, evOpen |-> TRUE, sig |-> FALSE,
   in |-> <<>>, data |-> <<>>, starter |-> "idle", closer |-> "idle"]

(* A link with the fields of its engine.                                   *)
WithEngine(f, g) ==
  [x \in DOMAIN f \cup DOMAIN g |-> IF x \in DOMAIN f THEN f[x] ELSE g[x]]

(* A scenario: submissions by size, frames the peer sends, whether they    *)
(* are answers, pings or invalid, and which of the events that end a link  *)
(* may happen.                                                             *)
Idle(kind) ==
  [kind |-> kind, sizes |-> {1}, subs |-> 0, frames |-> {}, count |-> 0,
   close |-> FALSE, stop |-> FALSE, cancel |-> FALSE, drop |-> FALSE]

NewEnv(m) == [max |-> m, acc |-> <<>>, wire |-> <<>>, sent |-> 0]

Claimed(K) == K.state \in {"closing", "closed"}

(* LinkEvent.ByteSize.                                                     *)
EventSize(f) == IF f = "answer" THEN 2 ELSE 1

(* Charges of events the consumer has taken are dropped lazily.            *)
Reconcile(K) ==
  LET n == Len(K.charges) - Len(K.evq)
  IN  IF n <= 0 THEN K
      ELSE [K EXCEPT !.charges = SubSeq(@, n + 1, Len(@))]

(* enqueueEvent and publishEvent; a full queue fails the link.             *)
EnqueueEvent(K, f) ==
  LET R == Reconcile(K)
      full == Len(R.charges) >= Limits.events
              \/ EventSize(f) + SumOf(R.charges) > Limits.evBytes
  IN  IF Claimed(K) THEN [err |-> "closed", k |-> K]
      ELSE IF full THEN [err |-> "event backpressure", k |-> R]
      ELSE [err |-> "none",
            k |-> [R EXCEPT !.evq = Append(@, f),
                            !.charges = Append(@, EventSize(f))]]

(* Release of n written submissions of the given size, and the signal.     *)
ReleaseSubmissions(K, n, size) ==
  IF n = 0 THEN K
  ELSE [K EXCEPT !.pend = @ - n, !.bytes = @ - size,
                 !.sig = @ \/ K.state = "ready"]

PublishStart(K, res) ==
  IF K.start # "none" THEN K ELSE [K EXCEPT !.start = res]

(* The common end of both finalizers.                                      *)
PublishClosed(K) ==
  [K EXCEPT !.subs = <<>>, !.pend = 0, !.bytes = 0, !.charges = <<>>,
            !.evOpen = FALSE, !.state = "closed", !.done = TRUE]

-----------------------------------------------------------------------------
(* TrySubmit.  It accepts only on a ready link and within the limits, and  *)
(* otherwise changes nothing; K is the link whose owner has been told.     *)
Submitted(size) ==
  [k EXCEPT !.subs = Append(@, [id |-> Len(env.acc) + 1, size |-> size]),
            !.pend = @ + 1, !.bytes = @ + size]

TrySubmit(size, K) ==
  /\ Len(env.acc) < env.max.subs
  /\ k.state = "ready" /\ size <= Limits.subBytes
  /\ k.pend < Limits.subs /\ size <= Limits.subBytes - k.bytes
  /\ k' = K
  /\ env' = [env EXCEPT !.acc = Append(@, size)]

(* The consumer of SubmissionReady, of Events, and of Snapshot.            *)
TakeSignal ==
  /\ k.sig
  /\ k' = [k EXCEPT !.sig = FALSE]
  /\ UNCHANGED env

TakeEvent ==
  /\ k.evq # <<>>
  /\ k' = [k EXCEPT !.evq = Tail(@)]
  /\ UNCHANGED env

Snapshot ==
  /\ ~k.done /\ Reconcile(k) # k
  /\ k' = Reconcile(k)
  /\ UNCHANGED env

(* Close and Start return.                                                 *)
CloseReturns ==
  /\ k.closer = "wait" /\ k.done
  /\ k' = [k EXCEPT !.closer = "done"]
  /\ UNCHANGED env

StartReturns ==
  /\ k.starter = "wait" /\ k.start # "none"
  /\ k' = [k EXCEPT !.starter = "done"]
  /\ UNCHANGED env

(* The peer's next frame, once the stream is open.                         *)
PeerSends(f) ==
  /\ env.sent < env.max.count /\ f \in env.max.frames
  /\ k' = [k EXCEPT !.in = Append(@, f)]
  /\ env' = [env EXCEPT !.sent = @ + 1]
===============================================================================
