------------------------------- MODULE GnetLink -------------------------------
(***************************************************************************)
(* The gnet engine of a Middle-End link (gnet_engine.go): one stream of a  *)
(* shared event-loop runtime.  The event loop runs one callback or task at *)
(* a time and alone touches the connection; TrySubmit, Close, Start, Stop  *)
(* and a poll timer meet it through k's lock and its task queue.           *)
(*                                                                         *)
(* buf is gnet's outbound buffer (external): the written items with the    *)
(* bytes of each that the socket has not taken.  Every item has a segment  *)
(* of the link's ledger (segs), so what is released is Len(segs)-Len(buf). *)
(***************************************************************************)
EXTENDS LinkBase, FiniteSetsExt

CONSTANTS
  Budget,         \* gnetDrainSubmissionBudget
  PayloadBudget,  \* gnetDrainPayloadBudget
  Resume          \* gnetDrainResumeOutboundBytes

ASSUME BudgetAssumption ==
  Budget \in Nat \ {0} /\ PayloadBudget \in Nat /\ Resume \in Nat

NewGnetLink ==
  WithEngine(NewLink("gnet"),
    [initiated |-> FALSE, owner |-> FALSE, conn |-> "raw", gconn |-> "none",
     boot |-> 0, tasks |-> {}, pc |-> "idle", batch |-> <<>>, segs |-> <<>>,
     buf |-> <<>>, ctl |-> 0, drain |-> FALSE, poll |-> FALSE,
     closeScheduled |-> FALSE,
     stopping |-> FALSE, stopped |-> FALSE, stopper |-> "idle"])

Outbound(K) == SumOf([i \in DOMAIN K.buf |-> K.buf[i].left])

MaxControlItems == Limits.events + 1
MaxControlBytes == Max({PongWire, Limits.evBytes})
\* mutant: the ceiling has no room for automatic pongs
MaxOutbound_NoControl == Limits.subBytes + Limits.subs * Overhead
(* maximumGnetOutboundBytes.                                               *)
MaxOutbound == Limits.subBytes + Limits.subs * Overhead + MaxControlBytes

-----------------------------------------------------------------------------
(* The end of a link.                                                      *)
ClaimTerminal(K, err) ==
  IF Claimed(K) THEN K
  ELSE PublishStart([K EXCEPT !.state = "closing", !.err = err,
                              !.poll = FALSE],
                    IF err = "nil" THEN "closed" ELSE err)

FinalizeAfterStreamClose(K) ==
  IF K.done THEN K
  ELSE PublishClosed([ClaimTerminal(K, "closed") EXCEPT
         !.poll = FALSE, !.drain = FALSE, !.segs = <<>>, !.ctl = 0])

(* A task for the event loop, in no particular order; a stopped loop takes *)
(* none.  There is at most one drain and one close, and a second wake adds *)
(* nothing to the first.                                                   *)
Execute(K, task) ==
  IF K.stopped THEN K ELSE [K EXCEPT !.tasks = @ \cup {task}]

(* scheduleOwnerClose and, for a link that was never started,              *)
(* finalizeIfUnenrolled.                                                   *)
ScheduleOwnerClose(K) ==
  IF K.done \/ K.closeScheduled THEN K
  ELSE IF K.owner THEN Execute([K EXCEPT !.closeScheduled = TRUE], "close")
  ELSE IF K.initiated THEN [K EXCEPT !.conn = "closed"]
  ELSE FinalizeAfterStreamClose([K EXCEPT !.conn = "closed"])

\* mutant: OnClose leaves the terminal publication to the closer
OnClose_Claims(K, err) ==
  ClaimTerminal([K EXCEPT !.gconn = "closed", !.pc = "idle",
                          !.data = <<>>, !.batch = <<>>], err)

(* OnClose: gnet has removed the connection from its loop.                 *)
OnClose(K, err) ==
  FinalizeAfterStreamClose(
    ClaimTerminal([K EXCEPT !.gconn = "closed", !.pc = "idle",
                            !.data = <<>>, !.batch = <<>>], err))

-----------------------------------------------------------------------------
(* The ledger of written bytes.                                            *)
ScheduleNextDrain(K) ==
  IF Claimed(K) \/ K.subs = <<>> \/ K.drain THEN K
  ELSE Execute([K EXCEPT !.drain = TRUE], "drain")

(* The submissions in a queue of segments, and the charge of a queue.      *)
Items(q) == SumOf([i \in DOMAIN q |-> IF q[i].control THEN 0 ELSE 1])
SubBytes(q) == SumOf([i \in DOMAIN q |-> q[i].size])

\* mutant: the charge is released when the bytes are handed to gnet
Consumed_Queued(K) == Len(K.segs)
(* Segments whose bytes the socket has taken completely.                   *)
Consumed(K) == Len(K.segs) - Len(K.buf)

(* observeOwnerOutbound; fails when the buffer is over its ceiling.        *)
ObserveOwnerOutbound(K) ==
  LET n == Consumed(K)
      gone == SubSeq(K.segs, 1, n)
      K1 == ReleaseSubmissions(
              [K EXCEPT !.segs = SubSeq(@, n + 1, Len(@)),
                        !.ctl = @ - (n - Items(gone))],
              Items(gone), SubBytes(gone))
  IN  IF K1.segs = <<>> THEN ScheduleNextDrain([K1 EXCEPT !.poll = FALSE])
      ELSE IF Outbound(K) = 0 THEN K1
      ELSE LET K2 == [K1 EXCEPT !.poll = @ \/ ~Claimed(K1)]
           IN  IF Outbound(K) <= Resume THEN ScheduleNextDrain(K2) ELSE K2

Overflows(K) == Outbound(K) > MaxOutbound

(* writeOwnerBatch.  gnet passes a write to the socket only when nothing   *)
(* is buffered; the socket takes the first n items then.                   *)
Segment(id, size, wire, control) ==
  [id |-> id, size |-> size, left |-> wire, control |-> control]

CanFlush(K, n) == n = 0 \/ K.buf = <<>>

Written(K, items, n) ==
  [K EXCEPT !.segs = @ \o items, !.ctl = @ + Len(items) - Items(items),
            !.buf = @ \o SubSeq(items, n + 1, Len(items))]

WriteOwnerBatch(K, items, n) == ObserveOwnerOutbound(Written(K, items, n))

-----------------------------------------------------------------------------
(* Start.                                                                  *)
GStart ==
  /\ k.starter = "idle"
  /\ k' = IF Claimed(k)
          THEN [k EXCEPT !.initiated = TRUE, !.starter = "done"]
          ELSE [k EXCEPT !.initiated = TRUE, !.state = "boot",
                         !.starter = "enroll"]
  /\ UNCHANGED env

(* The context had ended before enrollment.                                *)
GStartCanceled ==
  /\ k.starter = "enroll" /\ env.max.cancel
  /\ LET K == [ClaimTerminal(k, "canceled") EXCEPT !.conn = "closed"]
     IN  k' = FinalizeAfterStreamClose([K EXCEPT !.starter = "done"])
  /\ UNCHANGED env

(* enroll is refused by a stopping runtime, fails on a closed connection,  *)
(* or registers the stream and waits for its OnOpen.                       *)
Enroll ==
  /\ k.starter = "enroll"
  /\ k' = IF k.stopping \/ k.conn = "closed"
          THEN FinalizeAfterStreamClose(
                 [ClaimTerminal(k, "enroll") EXCEPT !.starter = "done"])
          ELSE [k EXCEPT !.starter = "enrolling", !.conn = "closed"]
  /\ UNCHANGED env

OnOpen ==
  /\ k.starter = "enrolling" /\ k.pc = "idle"
  /\ LET K == [k EXCEPT !.owner = TRUE, !.gconn = "open", !.starter = "wait"]
     IN  k' = IF Claimed(k)
              THEN OnClose([K EXCEPT !.closeScheduled = TRUE], "nil")
              ELSE [K EXCEPT !.boot = 1, !.in = <<"nonce">>]
  /\ UNCHANGED env

(* resolveStartCancellation.                                               *)
ResolveStartCancellation ==
  /\ k.starter = "wait" /\ env.max.cancel
  /\ k' = LET K == ClaimTerminal(k, "canceled")
          IN  [IF k.start # "none" \/ Claimed(k) THEN k
               ELSE ScheduleOwnerClose(K) EXCEPT !.starter = "done"]
  /\ UNCHANGED env

-----------------------------------------------------------------------------
(* Close and Stop: requestTerminal claims the end in one critical section  *)
(* and schedules the close in another.                                     *)
GClose ==
  /\ k.closer = "idle" /\ env.max.close
  /\ k' = [ClaimTerminal(k, "nil") EXCEPT
            !.closer = IF Claimed(k) THEN "wait" ELSE "schedule"]
  /\ UNCHANGED env

GCloseSchedules ==
  /\ k.closer = "schedule"
  /\ k' = [ScheduleOwnerClose(k) EXCEPT !.closer = "wait"]
  /\ UNCHANGED env

BeginStop ==
  /\ k.stopper = "idle" /\ env.max.stop
  /\ k' = [k EXCEPT !.stopper = "claim", !.stopping = TRUE]
  /\ UNCHANGED env

StopClaims ==
  /\ k.stopper = "claim"
  /\ k' = [ClaimTerminal(k, "nil") EXCEPT
            !.stopper = IF Claimed(k) THEN "enrolls" ELSE "schedule"]
  /\ UNCHANGED env

StopSchedules ==
  /\ k.stopper = "schedule"
  /\ k' = [ScheduleOwnerClose(k) EXCEPT !.stopper = "enrolls"]
  /\ UNCHANGED env

(* enrolls.Wait, client.Stop (which closes every stream), and the          *)
(* finalization of a stream that was never enrolled.                       *)
StopClient ==
  /\ k.stopper = "enrolls" /\ k.starter # "enrolling" /\ k.pc = "idle"
  /\ LET K == IF k.gconn = "open" THEN OnClose(k, "net closed") ELSE k
     IN  k' = FinalizeAfterStreamClose(
                [K EXCEPT !.stopped = TRUE, !.tasks = {},
                          !.stopper = "done"])
  /\ UNCHANGED env

-----------------------------------------------------------------------------
(* The event loop.                                                         *)
Loop == k.pc = "idle" /\ ~k.stopped

Runs(task) == Loop /\ task \in k.tasks
Without(K, task) == [K EXCEPT !.tasks = @ \ {task}]

(* The submissions of one drain.                                           *)
BatchSize(q) ==
  Max({0} \cup {n \in 1..Min({Len(q), Budget}) :
                 n = 1 \/ SubBytes(SubSeq(q, 1, n)) <= PayloadBudget})

\* mutant: a drain that has to wait keeps its place and asks for no poll
DrainOwner_Waits ==
  /\ Runs("drain")
  /\ k' = LET K == Without(k, "drain")
          IN  IF Claimed(k) THEN [K EXCEPT !.drain = FALSE]
              ELSE IF K.segs # <<>> THEN K
              ELSE LET n == BatchSize(K.subs)
                   IN  [K EXCEPT !.drain = FALSE, !.pc = "write",
                                 !.batch = SubSeq(K.subs, 1, n),
                                 !.subs = SubSeq(K.subs, n + 1, Len(K.subs))]
  /\ UNCHANGED env

(* drainOwner, up to the encoding of the batch it took.                    *)
DrainOwner ==
  /\ Runs("drain")
  /\ k' = LET K == Without(k, "drain")
              O == IF k.segs # <<>> THEN ObserveOwnerOutbound(K) ELSE K
              n == BatchSize(O.subs)
          IN  IF Claimed(k) THEN [K EXCEPT !.drain = FALSE]
              ELSE IF k.segs # <<>> /\ Overflows(K)
              THEN ScheduleOwnerClose(ClaimTerminal(K, "outbound"))
              ELSE IF O.segs # <<>> /\ Outbound(O) > Resume
              THEN [O EXCEPT !.drain = FALSE]
              ELSE [O EXCEPT !.drain = FALSE, !.pc = "write",
                             !.batch = SubSeq(O.subs, 1, n),
                             !.subs = SubSeq(O.subs, n + 1, Len(O.subs))]
  /\ UNCHANGED env

(* The rest of drainOwner: encode and write, unless the link ended.        *)
DrainWrites(n) ==
  /\ k.pc = "write" /\ n \in 0..Len(k.batch) /\ CanFlush(k, n)
  /\ LET K == [k EXCEPT !.pc = "idle", !.batch = <<>>]
         items == [i \in DOMAIN k.batch |->
                     Segment(k.batch[i].id, k.batch[i].size,
                             k.batch[i].size + Overhead, FALSE)]
     IN  IF Claimed(k) \/ items = <<>>
         THEN n = 0 /\ k' = K /\ UNCHANGED env
         ELSE /\ k' = IF Overflows(Written(K, items, n))
                      THEN ScheduleOwnerClose(ClaimTerminal(K, "outbound"))
                      ELSE WriteOwnerBatch(K, items, n)
              /\ env' = [env EXCEPT !.wire = @ \o [i \in 1..n |-> items[i].id]]

(* onTraffic: woken by the poll timer or by readable data.                 *)
Traffic == Runs("wake") \/ (Loop /\ k.in # <<>> /\ k.gconn = "open")

OnTraffic ==
  /\ Traffic
  /\ LET K == Without(k, "wake")
         O == IF K.boot = 3 THEN ObserveOwnerOutbound(K) ELSE K
     IN  k' = IF k.gconn # "open" THEN K
              ELSE IF Claimed(k) THEN OnClose(K, "nil")
              ELSE IF K.boot = 3 /\ Overflows(K) THEN OnClose(K, "outbound")
              ELSE [O EXCEPT !.data = O.in, !.in = <<>>,
                             !.pc = IF O.in = <<>> THEN "idle" ELSE "frames"]
  /\ UNCHANGED env

(* One frame: processOwnerFrames, and the bootstrap before it.             *)
Pong == <<Segment(0, 0, PongWire, TRUE)>>

ControlFits(K) ==
  /\ K.ctl < MaxControlItems
  /\ (K.ctl + 1) * PongWire <= MaxControlBytes

(* handleOwnerFrame for a frame of a ready link: a ping is answered, of    *)
(* which the socket takes n items at once, and every event is queued.      *)
Handled(K, f, n) ==
  LET W == Written(K, Pong, n)
      P == IF f = "ping" THEN ObserveOwnerOutbound(W) ELSE K
      e == EnqueueEvent(P, f)
  IN  IF f = "bad" THEN [err |-> "protocol", k |-> K]
      ELSE IF f = "ping" /\ ~ControlFits(K)
      THEN [err |-> "control backpressure", k |-> K]
      ELSE IF f = "ping" /\ Overflows(W) THEN [err |-> "outbound", k |-> K]
      ELSE e

(* The bootstrap's two messages (its codec is not modelled; the peer       *)
(* answers the second only when it has all of the link's bytes), and       *)
(* publishReady.                                                           *)
Bootstrapped(K, f) ==
  IF f = "nonce"
  THEN [err |-> "none", k |-> [K EXCEPT !.boot = 2, !.in = Append(@, "shake")]]
  ELSE [err |-> IF Claimed(K) THEN "closed" ELSE "none",
        k |-> PublishStart([K EXCEPT !.boot = 3, !.state = "ready"], "ok")]

OwnerFrame(n) ==
  /\ k.pc = "frames" /\ CanFlush(k, n)
  /\ LET f == Head(k.data)
         K == [k EXCEPT !.data = Tail(@)]
         r == IF k.boot < 3 THEN Bootstrapped(K, f) ELSE Handled(K, f, n)
         last == [r.k EXCEPT !.pc = IF r.k.data = <<>> THEN "idle" ELSE @]
     IN  /\ n = 0 \/ f = "ping"
         /\ k' = IF r.err # "none" THEN OnClose(K, r.err)
                 ELSE IF last.pc = "idle" /\ last.boot = 3
                 THEN ObserveOwnerOutbound(last) ELSE last
  /\ UNCHANGED env

(* owner.Close(conn), and a stream that ends by itself.                    *)
OwnerCloses ==
  /\ Runs("close")
  /\ k' = LET K == Without(k, "close")
          IN  IF k.gconn = "open" THEN OnClose(K, "nil") ELSE K
  /\ UNCHANGED env

StreamLost ==
  /\ Loop /\ k.gconn = "open" /\ env.max.drop
  /\ k' = OnClose(k, "transport")
  /\ UNCHANGED env

(* The socket takes one more byte (external).                              *)
Writable == Loop /\ k.buf # <<>> /\ k.gconn = "open"

SocketWrites ==
  /\ Writable
  /\ IF k.buf[1].left > 1
     THEN k' = [k EXCEPT !.buf[1].left = @ - 1] /\ UNCHANGED env
     ELSE /\ k' = [k EXCEPT !.buf = Tail(@)]
          /\ env' = IF k.buf[1].control THEN env
                    ELSE [env EXCEPT !.wire = Append(@, k.buf[1].id)]

(* fireOutboundPoll: Wake leads to onTraffic.                              *)
FireOutboundPoll ==
  /\ k.poll
  /\ k' = Execute([k EXCEPT !.poll = FALSE], "wake")
  /\ UNCHANGED env

GnetWake(K) ==
  IF K.drain THEN K ELSE Execute([K EXCEPT !.drain = TRUE], "drain")

-----------------------------------------------------------------------------
GnetNext ==
  \/ GStart \/ GStartCanceled \/ Enroll \/ OnOpen \/ StartReturns
  \/ ResolveStartCancellation
  \/ GClose \/ GCloseSchedules \/ CloseReturns
  \/ BeginStop \/ StopClaims \/ StopSchedules \/ StopClient
  \/ DrainOwner \/ (\E n \in 0..Budget : DrainWrites(n))
  \/ OnTraffic \/ (\E n \in 0..1 : OwnerFrame(n))
  \/ OwnerCloses \/ StreamLost \/ SocketWrites \/ FireOutboundPoll
  \/ \E n \in env.max.sizes : TrySubmit(n, GnetWake(Submitted(n)))
  \/ TakeSignal \/ TakeEvent \/ Snapshot
  \/ \E f \in env.max.frames : k.boot = 3 /\ k.gconn = "open" /\ PeerSends(f)
===============================================================================
