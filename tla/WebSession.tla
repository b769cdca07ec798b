------------------------------ MODULE WebSession ------------------------------
(***************************************************************************)
(* One authenticated WEB relay session (pkg/webproxy/session.go): logical  *)
(* streams multiplexed over carrier lanes.  Uplink batches carry sequence  *)
(* numbers and may be retried; downlink batches are replayed until a later *)
(* cursor acknowledges them; each stream is flow-controlled by WINDOW      *)
(* credit and relayed to one backend connection by a reader and a writer   *)
(* goroutine.                                                              *)
(*                                                                         *)
(* s is everything Session.mu protects; up and poll are the carrier        *)
(* requests in progress, bk the backend goroutines.  cl is the peer, which *)
(* is not part of the repository: it retries what was not answered, spends *)
(* only the credit it holds and returns credit for what it consumed.       *)
(* Payload is counted in units; the units of a stream are numbered so that *)
(* loss, duplication and reordering show.                                  *)
(***************************************************************************)
EXTENDS Integers, FiniteSets, SequencesExt

CONSTANTS
  Streams,      \* stream IDs the peer may open (nonzero)
  MaxLanes,     \* bound: lane objects created in one session
  Ups,          \* concurrent uplink requests
  Polls,        \* concurrent downlink requests
  Lim,          \* Limits: streams, closed, body, cost, items, batch
  Window,       \* InitialStreamWindow
  Chunk,        \* RelayDataChunk
  FrameMax,     \* MaxFramePayload
  ItemCost, Header, Delta, \* queueItemCost, FrameHeaderSize, WINDOW payload
  CtlPerStream, CtlExtra,  \* controlReserveItemsPerStream, ...ExtraItems
  Scenarios     \* environments: see Init

VARIABLES s, up, poll, bk, cl, env

vars == <<s, up, poll, bk, cl, env>>

LaneIDs == Streams \cup {0}
Objs    == 1..MaxLanes
Nobody  == "nobody"

-----------------------------------------------------------------------------
(* Frames, their encoded size and what they are charged.                   *)
Frame(t, i, d, n) == [t |-> t, id |-> i, d |-> d, n |-> n]
Open(i)      == Frame("open", i, <<>>, 0)
Data(i, d)   == Frame("data", i, d, 0)
Credit(i, n) == Frame("window", i, <<>>, n)
Close(i)     == Frame("close", i, <<>>, 0)

Encoded(f) == Header + (IF f.t = "window" THEN Delta ELSE Len(f.d))
CostOf(f)  == Encoded(f) + ItemCost
Total(q, Op(_)) == FoldLeft(LAMBDA a, f : a + Op(f), 0, q)

UsesLanes(c) == c \in {"https-lanes", "websocket-lanes"}
UsesWebSocket(c) == c \in {"websocket", "websocket-lanes"}
LaneOf(S, i) == IF UsesLanes(S.carrier) THEN i ELSE 0

(* Validation of a client frame: shape, direction and, on a lane carrier,  *)
(* the lane it arrived on.                                                 *)
ParseUplinkBatch(body, l, lanes) ==
  /\ body # <<>> /\ Len(body) <= Lim.batch
  /\ \A f \in Range(body) :
       /\ lanes => f.id = l
       /\ f.t \in {"open", "data", "close", "window", "pong"}
       /\ (f.id = 0) <=> (f.t = "pong")
       /\ f.t = "data" => f.d # <<>> /\ Len(f.d) <= FrameMax
       /\ f.t = "window" => f.n > 0

OnlyLateLaneFrames(body) ==
  body # <<>> /\ \A f \in Range(body) : f.t \in {"data", "window", "close"}

StartsWithOpen(body, l) == body # <<>> /\ body[1].t = "open" /\ body[1].id = l

-----------------------------------------------------------------------------
(* The pending budget.                                                     *)
ControlReserve ==
  LET items == CtlExtra + Lim.streams * CtlPerStream
  IN  [cost |-> items * (ItemCost + Header + Delta), items |-> items]

UplinkReserve ==
  LET items == Min({Lim.body \div Header, Lim.batch})
  IN  [cost |-> Lim.body + items * ItemCost, items |-> items]

SubtractReserve(a, b) == [cost  |-> Max({0, a.cost - b.cost}),
                          items |-> Max({0, a.items - b.items})]

PendingLimit(class) ==
  LET all == [cost |-> Lim.cost, items |-> Lim.items]
      up1 == SubtractReserve(all, ControlReserve)
  IN  CASE class = "control"  -> all
        [] class = "uplink"   -> up1
        [] class = "downlink" -> SubtractReserve(up1, UplinkReserve)

CanReserve(S, cost, items, class) ==
  \/ cost = 0 /\ items = 0
  \/ LET m == PendingLimit(class)
     IN  cost > 0 /\ S.cost + cost <= m.cost /\ S.items + items <= m.items

Charge(S, cost, items) == [S EXCEPT !.cost = @ + cost, !.items = @ + items]

(* Mutant: released budget wakes nobody.                                   *)
Release_Silent(S, cost, items) ==
  [S EXCEPT !.cost = @ - cost, !.items = @ - items]

(* releasePendingLocked also wakes every reader that waits for budget.     *)
Release(S, cost, items) ==
  IF cost = 0 /\ items = 0 THEN S
  ELSE [S EXCEPT !.cost = @ - cost, !.items = @ - items, !.budgetWait = {}]

(* What one more DATA frame may carry; 0 sends the reader to sleep.        *)
DataFrameAllowance(S, n) ==
  LET m == PendingLimit("downlink")
      free == m.cost - S.cost - ItemCost - Header
  IN  IF S.items >= m.items \/ free <= 0 THEN 0 ELSE Min({n, free})

-----------------------------------------------------------------------------
(* Lanes.  A notify channel is the set of polls that wait on it: closing   *)
(* and replacing it empties the set.                                       *)
NewLane ==
  [pend |-> <<>>, win |-> [i \in Streams |-> 0],
   unacked |-> <<>>, unCost |-> 0, unItems |-> 0, base |-> 0, cursor |-> 0,
   lastUp |-> 0, digest |-> <<>>, upActive |-> FALSE, ws |-> FALSE,
   claim |-> Nobody, slot |-> Nobody, parked |-> {}]

AddLane(S, l) ==
  [S EXCEPT !.laneOf[l] = S.made + 1, !.made = @ + 1]

SignalPoll(S, k) == [S EXCEPT !.lane[k].parked = {}]

(* queueFrameLocked: WINDOW merges into the pending WINDOW of its stream,  *)
(* DATA into a preceding DATA frame of its stream.                         *)
QueueFrame(S, f, class) ==
  LET k == S.laneOf[LaneOf(S, f.id)]
      L == S.lane[k]
      last == Len(L.pend)
      merges == last # 0 /\ f.t = "data" /\ L.pend[last].t = "data"
                /\ L.pend[last].id = f.id
                /\ Len(L.pend[last].d) + Len(f.d) <= FrameMax
      cost == IF merges THEN Len(f.d) ELSE CostOf(f)
      items == IF merges THEN 0 ELSE 1
      pend1 == IF merges THEN [L.pend EXCEPT ![last].d = @ \o f.d]
               ELSE Append(L.pend, f)
      win1 == IF f.t = "window" THEN [L.win EXCEPT ![f.id] = last + 1]
              ELSE L.win
  IN  IF k = 0 THEN [ok |-> FALSE, s |-> S]
      ELSE IF f.t = "window" /\ L.win[f.id] # 0
      THEN [ok |-> TRUE,
            s |-> SignalPoll([S EXCEPT
                    !.lane[k].pend[L.win[f.id]].n = @ + f.n], k)]
      ELSE IF ~CanReserve(S, cost, items, class) THEN [ok |-> FALSE, s |-> S]
      ELSE [ok |-> TRUE,
            s |-> SignalPoll([Charge(S, cost, items) EXCEPT
                    !.lane[k].pend = pend1, !.lane[k].win = win1], k)]

QueueControl(S, f) == QueueFrame(S, f, "control")

(* Mutant: the dropped frames stay charged.                                *)
DropPending_KeepsCharge(S, i) ==
  LET k == S.laneOf[LaneOf(S, i)]
  IN  IF k = 0 THEN S
      ELSE [S EXCEPT
             !.lane[k].pend = SelectSeq(@, LAMBDA f : f.id # i),
             !.lane[k].win[i] = 0]

(* dropPendingStreamFramesLocked, with pendingWindows rebuilt.             *)
DropPending(S, i) ==
  LET k == S.laneOf[LaneOf(S, i)]
      gone == SelectSeq(S.lane[k].pend, LAMBDA f : f.id = i)
      kept == SelectSeq(S.lane[k].pend, LAMBDA f : f.id # i)
      Index(j) == {x \in DOMAIN kept : kept[x].t = "window" /\ kept[x].id = j}
  IN  IF k = 0 THEN S
      ELSE Release([S EXCEPT
             !.lane[k].pend = kept,
             !.lane[k].win = [j \in Streams |-> IF Index(j) = {} THEN 0
                                                ELSE Max(Index(j))]],
             Total(gone, CostOf), Len(gone))

(* takeDownBatchLocked: as many frames as fit CarrierBatchBytes, one at    *)
(* least.                                                                  *)
BatchLen(q) ==
  Max({n \in 1..Min({Len(q), Lim.batch}) :
         n = 1 \/ Total(SubSeq(q, 1, n), Encoded) <= Lim.carrierBatch})

TakeDownBatch(S, k) ==
  LET L == S.lane[k]
      n == BatchLen(L.pend)
      b == SubSeq(L.pend, 1, n)
  IN  [S EXCEPT
        !.lane[k].pend = SubSeq(L.pend, n + 1, Len(L.pend)),
        !.lane[k].win = [i \in Streams |-> Max({0, L.win[i] - n})],
        !.lane[k].unacked = b,
        !.lane[k].unCost = Total(b, CostOf), !.lane[k].unItems = n,
        !.lane[k].base = L.cursor, !.lane[k].cursor = L.cursor + 1]

ReleaseCarrierLane(S, l) ==
  LET k == S.laneOf[l]
      L == S.lane[k]
  IN  IF l = 0 \/ k = 0 THEN S
      ELSE Release(
             SignalPoll([S EXCEPT
               !.laneOf[l] = 0, !.lane[k].pend = <<>>,
               !.lane[k].win = [i \in Streams |-> 0],
               !.lane[k].unacked = <<>>, !.lane[k].unCost = 0,
               !.lane[k].unItems = 0], k),
             L.unCost + Total(L.pend, CostOf), L.unItems + Len(L.pend))

(* rememberClosedLocked: the tombstones are a bounded FIFO set; on lane    *)
(* carriers the lane of the evicted stream goes with it.                   *)
RememberClosed(S, i) ==
  LET full == Len(S.tomb) >= Lim.closed
      S1 == IF i \in Range(S.tomb) THEN S
            ELSE [S EXCEPT !.tomb = Append(IF full THEN Tail(@) ELSE @, i)]
      S2 == IF UsesLanes(S.carrier) /\ i \notin Range(S.tomb) /\ full
            THEN ReleaseCarrierLane(S1, Head(S.tomb)) ELSE S1
  IN  IF UsesLanes(S.carrier) /\ S2.laneOf[i] # 0
      THEN SignalPoll(S2, S2.laneOf[i]) ELSE S2

NewStream == [recv |-> Window, credit |-> Window, writes |-> <<>>,
              bytes |-> 0, cost |-> 0, items |-> 0,
              wSig |-> FALSE, cSig |-> FALSE]

(* releaseStreamWritesLocked.                                              *)
ReleaseWrites(S, i) ==
  [Release(S, S.st[i].cost, S.st[i].items) EXCEPT
    !.st[i].bytes = 0, !.st[i].cost = 0, !.st[i].items = 0,
    !.st[i].writes = <<>>]

(* A live stream leaves the table; its backend is told to stop.            *)
Detach(S, i) ==
  RememberClosed([ReleaseWrites(S, i) EXCEPT !.live = @ \ {i},
                                             !.cancelled = @ \cup {i}], i)

RequestBackendClose(S, ids) == [S EXCEPT !.toClose = @ \cup ids]

(* closeLocked and the backend closes its callers request.                 *)
CloseSession(S, reason) ==
  IF S.closed THEN S
  ELSE [S EXCEPT
         !.closed = TRUE, !.reason = reason,
         !.cancelled = @ \cup S.live, !.toClose = @ \cup S.live,
         !.live = {}, !.cost = 0, !.items = 0,
         !.lane = [k \in Objs |->
            [S.lane[k] EXCEPT !.pend = <<>>, !.win = [i \in Streams |-> 0],
               !.unacked = <<>>, !.unCost = 0, !.unItems = 0,
               !.parked = IF \E l \in LaneIDs : S.laneOf[l] = k THEN {}
                          ELSE @]],
         !.laneOf = [l \in LaneIDs |-> 0]]

(* releaseWebSocketLaneLocked and the close of its backend.                *)
ReleaseWebSocketLane(S, l, exp) ==
  IF S.carrier # "websocket-lanes" \/ exp = 0 \/ S.laneOf[l] # exp THEN S
  ELSE LET S1 == [S EXCEPT !.lane[exp].ws = FALSE]
           S2 == IF l \in S.live
                 THEN RequestBackendClose(Detach(S1, l), {l}) ELSE S1
       IN  ReleaseCarrierLane(S2, l)

LaneProtocolFailure(S, l, exp) ==
  IF S.carrier # "websocket-lanes" THEN CloseSession(S, "protocol")
  ELSE ReleaseWebSocketLane(S, l, exp)

(* Mutant: a drained response counts as acknowledged.                      *)
ReleaseLease_Acks(S, p, k) ==
  LET L == S.lane[k]
  IN  [Release(S, L.unCost, L.unItems) EXCEPT
        !.lane[k].unacked = <<>>, !.lane[k].unCost = 0, !.lane[k].unItems = 0,
        !.lane[k].claim = IF @ = p THEN Nobody ELSE @,
        !.lane[k].slot = IF @ = p THEN Nobody ELSE @,
        !.lane[k].parked = @ \ {p}]

(* PollLease.releaseLocked for poll p on lane object k.                    *)
ReleaseLease(S, p, k) ==
  [S EXCEPT !.lane[k].claim = IF @ = p THEN Nobody ELSE @,
            !.lane[k].slot = IF @ = p THEN Nobody ELSE @,
            !.lane[k].parked = @ \ {p}]

-----------------------------------------------------------------------------
(* Batches.  validateBatchLocked runs the whole batch against a snapshot   *)
(* before anything is applied.                                             *)
ValidStep(S, v, f) ==
  LET isLive == f.id \in v.live
      known == f.id \in S.used \cup v.used
  IN  IF ~v.ok \/ f.t = "pong" THEN v
      ELSE IF f.t = "open"
      THEN IF isLive \/ known THEN [v EXCEPT !.ok = FALSE]
           ELSE [v EXCEPT !.live = @ \cup {f.id}, !.used = @ \cup {f.id},
                          !.recv[f.id] = Window]
      ELSE IF ~isLive THEN [v EXCEPT !.ok = known]
      ELSE CASE f.t = "data" ->
                  IF Len(f.d) > v.recv[f.id] THEN [v EXCEPT !.ok = FALSE]
                  ELSE [v EXCEPT !.recv[f.id] = @ - Len(f.d)]
             [] f.t = "window" -> v
             [] f.t = "close" -> [v EXCEPT !.live = @ \ {f.id}]

ValidateBatch(S, body) ==
  FoldLeft(LAMBDA v, f : ValidStep(S, v, f),
           [ok |-> TRUE, live |-> S.live, used |-> {},
            recv |-> [i \in Streams |-> S.st[i].recv]], body).ok

(* backendWriteReservationLocked: one item per DATA frame of a stream that *)
(* is live at that point of the batch.                                     *)
WriteReservation(S, body) ==
  FoldLeft(LAMBDA v, f :
             CASE f.t = "open"  -> [v EXCEPT !.live = @ \cup {f.id}]
               [] f.t = "close" -> [v EXCEPT !.live = @ \ {f.id}]
               [] f.t = "data" /\ f.id \in v.live ->
                    [v EXCEPT !.cost = @ + Len(f.d) + ItemCost,
                              !.items = @ + 1]
               [] OTHER -> v,
           [live |-> S.live, cost |-> 0, items |-> 0], body)

(* appendBackendWriteLocked coalesces with the last queued write.          *)
AppendWrite(S, i, d) ==
  LET w == S.st[i].writes
      joins == w # <<>> /\ Len(Last(w)) + Len(d) <= Chunk
      cost == Len(d) + (IF joins THEN 0 ELSE ItemCost)
      items == IF joins THEN 0 ELSE 1
  IN  [cost |-> cost, items |-> items,
       s |-> [S EXCEPT
               !.st[i].writes = IF joins THEN [w EXCEPT ![Len(w)] = @ \o d]
                                ELSE Append(w, d),
               !.st[i].bytes = @ + Len(d), !.st[i].cost = @ + cost,
               !.st[i].items = @ + items,
               !.st[i].recv = @ - Len(d), !.st[i].wSig = TRUE]]

(* One frame of applyBatchLocked; denied are the streams the manager's     *)
(* acquireStream refuses.                                                  *)
ApplyStep(v, f, denied) ==
  LET S == v.s
      i == f.id
  IN  IF ~v.ok \/ f.t = "pong" THEN v
      ELSE IF f.t = "open" THEN
        LET S1 == [S EXCEPT !.used = @ \cup {i}]
            q == QueueControl(RememberClosed(S1, i), Close(i))
        IN  IF Cardinality(S.live) >= Lim.streams \/ i \in denied
            THEN [v EXCEPT !.s = q.s, !.ok = q.ok]
            ELSE [v EXCEPT !.s = [S1 EXCEPT !.live = @ \cup {i},
                                            !.st[i] = NewStream],
                           !.opened = @ \cup {i}]
      ELSE IF i \notin S.live THEN v
      ELSE CASE f.t = "data" ->
                  LET w == AppendWrite(S, i, f.d)
                  IN  [v EXCEPT !.s = w.s, !.cost = @ - w.cost,
                                !.items = @ - w.items]
             [] f.t = "window" ->
                  [v EXCEPT !.s = [S EXCEPT !.st[i].credit = @ + f.n,
                                            !.st[i].cSig = TRUE]]
             [] f.t = "close" ->
                  [v EXCEPT !.s = RequestBackendClose(
                                    Detach(DropPending(S, i), i), {i})]

ApplyBatch(S, body, denied, cost, items) ==
  FoldLeft(LAMBDA v, f : ApplyStep(v, f, denied),
           [s |-> S, ok |-> TRUE, opened |-> {}, cost |-> cost,
            items |-> items], body)

-----------------------------------------------------------------------------
(* The peer.                                                               *)

(* Frames the peer may put in a batch, given what it knows (c).            *)
PeerFrames(c, i) ==
  {f \in {Open(i), Data(i, <<c.sent[i] + 1>>), Credit(i, c.due[i]), Close(i)} :
     CASE f.t = "open"   -> c.view[i] = "new"
       [] f.t = "data"   -> c.view[i] = "open" /\ c.credit[i] > 0
                            /\ c.sent[i] < env.max.up
       [] f.t = "window" -> c.view[i] = "open" /\ c.due[i] > 0
       [] f.t = "close"  -> c.view[i] = "open" /\ env.max.close}

PeerSent(c, f) ==
  CASE f.t = "open"   -> [c EXCEPT !.view[f.id] = "open"]
    [] f.t = "data"   -> [c EXCEPT !.sent[f.id] = @ + 1,
                                   !.credit[f.id] = @ - 1]
    [] f.t = "window" -> [c EXCEPT !.due[f.id] = 0]
    [] f.t = "close"  -> [c EXCEPT !.view[f.id] = "closed"]

(* Batches of one frame or two for lane l.                                 *)
PeerBatches(l) ==
  LET ids == IF UsesLanes(s.carrier) THEN {l} \ {0} ELSE env.max.ids
      From(c) == UNION {PeerFrames(c, i) : i \in ids}
  IN  {<<f>> : f \in From(cl)} \cup
      UNION {{<<f, g>> : g \in From(PeerSent(cl, f))} : f \in From(cl)}

PeerGot(c, f) ==
  IF f.t = "window"
  THEN [c EXCEPT !.credit[f.id] = @ + f.n]
  ELSE IF c.view[f.id] = "closed" THEN c
  ELSE IF f.t = "close" THEN [c EXCEPT !.view[f.id] = "closed"]
  ELSE [c EXCEPT !.got[f.id] = @ \o f.d, !.due[f.id] = @ + Len(f.d)]

(* Batches no correct peer sends.                                          *)
BadBatches(l) ==
  LET i == CHOOSE j \in env.max.ids : ~UsesLanes(s.carrier) \/ j = l
  IN  {<<>>, <<Open(i), Open(i)>>, <<Data(i, [n \in 1..Window + 1 |-> 0])>>}

Lanes == IF UsesLanes(s.carrier) THEN env.max.ids ELSE {0}

(* The lane lease of a WebSocket, 0 on other carriers.                     *)
Expected(l) == IF s.carrier = "websocket-lanes" THEN cl.lease[l] ELSE 0

(* A WebSocket must be attached before its messages arrive.                *)
Attached(l) ==
  CASE s.carrier = "websocket" -> s.wsActive
    [] s.carrier = "websocket-lanes" -> cl.lease[l] # 0
    [] OTHER -> TRUE

-----------------------------------------------------------------------------
(* Uplink: processUp.                                                      *)

(* Mutant: a retry may overtake the batch that is being parsed.            *)
UplinkBusy_Never(S, k) == FALSE

(* A batch of the lane is between the two critical sections.               *)
UplinkBusy(S, k) == S.lane[k].upActive

(* The first critical section of processUp for a request with sequence n   *)
(* on lane l: new is the state when it may go on to parse, done the one    *)
(* when it returns.                                                        *)
UpFirst(S, l, n, body, exp) ==
  LET k == S.laneOf[l]
      late == OnlyLateLaneFrames(body)
              /\ ParseUplinkBatch(body, l, UsesLanes(S.carrier))
      fresh == UsesLanes(S.carrier) /\ l # 0 /\ StartsWithOpen(body, l)
      S1 == IF k = 0 THEN AddLane(S, l) ELSE S
      k1 == S1.laneOf[l]
      Return(T, res) == [s |-> T, go |-> FALSE, res |-> res]
  IN  IF S.closed \/ (exp # 0 /\ k # exp) THEN Return(S, "closed")
      ELSE IF n = 0 \/ Total(body, Encoded) > Lim.body
      THEN Return(LaneProtocolFailure(S, l, exp), "protocol")
      ELSE IF k = 0 /\ ~fresh
      THEN IF UsesLanes(S.carrier) /\ late THEN Return(S, "ok")
           ELSE Return(LaneProtocolFailure(S, l, exp), "protocol")
      ELSE IF n = S1.lane[k1].lastUp
      THEN IF body = S1.lane[k1].digest THEN Return(S1, "ok")
           ELSE Return(LaneProtocolFailure(S1, l, exp), "protocol")
      ELSE IF n # S1.lane[k1].lastUp + 1
      THEN Return(LaneProtocolFailure(S1, l, exp), "protocol")
      ELSE IF UplinkBusy(S1, k1) THEN Return(S1, "backpressure")
      ELSE [s |-> [S1 EXCEPT !.lane[k1].upActive = TRUE], go |-> TRUE,
            res |-> "none"]

(* The second critical section.  granted is the manager's answer to the    *)
(* reservation, denied its answers to acquireStream.                       *)
UpSecond(S, r, granted, denied) ==
  LET l == r.lane
      k == r.obj
      S1 == [S EXCEPT !.lane[k].upActive = FALSE]
      w == WriteReservation(S1, r.body)
      a == ApplyBatch(Charge(S1, w.cost, w.items), r.body, denied,
                      w.cost, w.items)
      S2 == Release(a.s, a.cost, a.items)
      Return(T, res) == [s |-> T, res |-> res, opened |-> {}]
  IN  IF S.laneOf[l] # k THEN Return(S, "closed")
      ELSE IF S.closed THEN Return(S1, "closed")
      ELSE IF ~ParseUplinkBatch(r.body, l, UsesLanes(S.carrier))
              \/ ~ValidateBatch(S1, r.body)
      THEN Return(LaneProtocolFailure(S1, l, r.exp), "protocol")
      ELSE IF (w.items # 0 /\ ~granted)
              \/ ~CanReserve(S1, w.cost, w.items, "uplink")
      THEN Return(S1, "backpressure")
      ELSE IF ~a.ok
      THEN [s |-> CloseSession(S2, "resource"), res |-> "closed",
            opened |-> a.opened]
      ELSE [s |-> [S2 EXCEPT !.lane[k].lastUp = r.seq,
                             !.lane[k].digest = r.body],
            res |-> "ok", opened |-> a.opened]

(* The peer learns the answer to a request, unless the response is lost.   *)
PeerAnswered(c, l, n, res) ==
  IF res = "ok" /\ n = c.seq[l] THEN [c EXCEPT !.out[l] = <<>>] ELSE c

Idle == [pc |-> "idle"]

(* webSocketInputReservation.Release of a message of the given size; HTTP  *)
(* requests hold no reservation (size 0).                                  *)
FreeInput(S, size) ==
  IF S.closed \/ size = 0 THEN S ELSE Release(S, size + ItemCost, 1)

(* webSocketConnection.close, as far as the session sees it.               *)
CloseTransport(S, l) ==
  IF S.carrier = "websocket" THEN CloseSession(S, "client")
  ELSE ReleaseWebSocketLane(S, l, cl.lease[l])

(* The first half of a request on handler x: sequence n of lane l from the *)
(* peer in state c; size is its input reservation.  A WebSocket retries on *)
(* backpressure and gives its transport up on any other failure.           *)
UpStart(x, c, l, exp, n, body, size, lost) ==
  \E f \in {UpFirst(s, l, n, body, exp)} :
    LET retries == UsesWebSocket(s.carrier) /\ f.res = "backpressure"
        dead == UsesWebSocket(s.carrier) /\ f.res \in {"closed", "protocol"}
        S1 == IF dead THEN CloseTransport(f.s, l) ELSE f.s
        c1 == IF lost THEN c ELSE PeerAnswered(c, l, n, f.res)
    IN  /\ s' = IF f.go \/ retries THEN S1 ELSE FreeInput(S1, size)
        /\ up' = [up EXCEPT ![x] =
                   IF f.go
                   THEN [pc |-> "parse", lane |-> l, obj |-> f.s.laneOf[l],
                         exp |-> exp, seq |-> n, body |-> body,
                         size |-> size]
                   ELSE IF retries THEN @ ELSE Idle]
        /\ cl' = IF dead THEN [c1 EXCEPT !.lease[l] = 0] ELSE c1

(* The peer after it composed its next batch for lane l.                   *)
Composed(l, body) == [FoldLeft(PeerSent, cl, body) EXCEPT
                        !.seq[l] = @ + 1, !.out[l] = body]

(* An HTTP request delivers a batch for the first time.                    *)
ProcessUp(x, l, body, lost) ==
  /\ ~UsesWebSocket(s.carrier) /\ ~s.closed
  /\ up[x].pc = "idle" /\ cl.out[l] = <<>>
  /\ UpStart(x, Composed(l, body), l, 0, cl.seq[l] + 1, body, 0, lost)
  /\ UNCHANGED <<poll, bk, env>>

(* The peer saw no answer and sends the same batch again.                  *)
RetryUp(x, l, lost) ==
  /\ ~UsesWebSocket(s.carrier) /\ ~s.closed
  /\ up[x].pc = "idle" /\ cl.out[l] # <<>>
  /\ UpStart(x, cl, l, 0, cl.seq[l], cl.out[l], 0, lost)
  /\ UNCHANGED <<poll, bk, env>>

(* A batch or a sequence number no correct peer sends.                     *)
ProcessBadUp(x, l, n, body) ==
  /\ ~s.closed /\ Attached(l) /\ env.bad < env.max.bad /\ up[x].pc = "idle"
  /\ UsesWebSocket(s.carrier) => \A y \in Ups : up[y].pc = "idle"
  /\ env' = [env EXCEPT !.bad = @ + 1]
  /\ UpStart(x, cl, l, Expected(l), n, body, 0, TRUE)
  /\ UNCHANGED <<poll, bk>>

(* A WebSocket message arrives and is charged while the decoder or the     *)
(* uplink queue owns it; without budget the WebSocket is closed.           *)
ReserveInput(x, l, body) ==
  /\ UsesWebSocket(s.carrier) /\ Attached(l) /\ ~s.closed
  /\ \A y \in Ups : up[y].pc = "idle"
  /\ LET size == Total(body, Encoded)
         c == Composed(l, body)
     IN  IF CanReserve(s, size + ItemCost, 1, "uplink")
         THEN /\ s' = Charge(s, size + ItemCost, 1)
              /\ up' = [up EXCEPT ![x] = [pc |-> "input", lane |-> l,
                                          exp |-> Expected(l), size |-> size]]
              /\ cl' = c
         ELSE /\ s' = CloseTransport(s, l)
              /\ cl' = [c EXCEPT !.lease[l] = 0]
              /\ UNCHANGED up
  /\ UNCHANGED <<poll, bk, env>>

(* A fragmented message is charged twice while it is coalesced; without    *)
(* budget the message fails and its WebSocket with it.                     *)
ResizeInput(x) ==
  /\ up[x].pc = "input" /\ up[x].size = Total(cl.out[up[x].lane], Encoded)
  /\ LET size == up[x].size
         l == up[x].lane
     IN  IF ~s.closed /\ CanReserve(s, size, 0, "uplink")
         THEN /\ s' = Charge(s, size, 0)
              /\ up' = [up EXCEPT ![x].size = 2 * size]
              /\ UNCHANGED cl
         ELSE /\ s' = CloseTransport(FreeInput(s, size), l)
              /\ up' = [up EXCEPT ![x] = Idle]
              /\ cl' = [cl EXCEPT !.lease[l] = 0]
  /\ UNCHANGED <<poll, bk, env>>

ProcessUpMessage(x) ==
  /\ up[x].pc = "input"
  /\ LET l == up[x].lane
     IN  UpStart(x, cl, l, up[x].exp, cl.seq[l], cl.out[l], up[x].size, FALSE)
  /\ UNCHANGED <<poll, bk, env>>

(* The message gives up: the transport closed or the backpressure deadline *)
(* passed.                                                                 *)
AbandonUp(x) ==
  /\ up[x].pc = "input"
  /\ s.closed \/ ~Attached(up[x].lane) \/ env.max.lose
  /\ LET l == up[x].lane
     IN  /\ s' = CloseTransport(FreeInput(s, up[x].size), l)
         /\ cl' = [cl EXCEPT !.lease[l] = 0]
  /\ up' = [up EXCEPT ![x] = Idle]
  /\ UNCHANGED <<poll, bk, env>>

(* The second half, after the batch was parsed outside the lock.           *)
ApplyUp(x, granted, denied, lost) ==
  /\ up[x].pc = "parse"
  /\ denied \subseteq {f.id : f \in {g \in Range(up[x].body) : g.t = "open"}}
  /\ env.refused + Cardinality(denied) + (IF granted THEN 0 ELSE 1)
       <= env.max.refuse
  /\ lost => ~UsesWebSocket(s.carrier)
  /\ \E a \in {UpSecond(s, up[x], granted, denied)} :
       LET r == up[x]
           retries == UsesWebSocket(s.carrier) /\ a.res = "backpressure"
           dead == UsesWebSocket(s.carrier) /\ a.res \in {"closed", "protocol"}
           S1 == IF dead THEN CloseTransport(a.s, r.lane) ELSE a.s
           c == IF lost THEN cl ELSE PeerAnswered(cl, r.lane, r.seq, a.res)
       IN  /\ s' = IF retries THEN S1 ELSE FreeInput(S1, r.size)
           /\ up' = [up EXCEPT ![x] =
                IF retries
                THEN [pc |-> "input", lane |-> r.lane, exp |-> r.exp,
                      size |-> r.size]
                ELSE Idle]
           /\ bk' = [i \in Streams |-> IF i \in a.opened
                                       THEN [bk[i] EXCEPT !.pc = "dial"]
                                       ELSE bk[i]]
           /\ cl' = IF dead THEN [c EXCEPT !.lease[r.lane] = 0] ELSE c
           /\ env' = [env EXCEPT !.refused = @ + Cardinality(denied)
                                             + (IF granted THEN 0 ELSE 1)]
  /\ UNCHANGED poll

-----------------------------------------------------------------------------
(* Downlink: pollCarrier.                                                  *)

(* The peer polls a lane once the OPEN that created it was acknowledged.   *)
MayPoll(l) == l = 0 \/ UsesWebSocket(s.carrier)
              \/ cl.seq[l] > 1 \/ (cl.seq[l] = 1 /\ cl.out[l] = <<>>)

SeesClosed(c, l) == IF l = 0 THEN c ELSE [c EXCEPT !.view[l] = "closed"]

(* The first critical section: claim newest-poll ownership.                *)
PollCarrier(p, l, cursor) ==
  /\ poll[p].pc = "idle" /\ ~s.closed /\ Attached(l) /\ MayPoll(l)
  /\ UsesWebSocket(s.carrier) =>
       {q \in Polls : poll[q].pc # "idle" /\ poll[q].lane = l} = {}
  /\ cursor # cl.cursor[l] => env.bad < env.max.bad
  /\ env' = IF cursor # cl.cursor[l] THEN [env EXCEPT !.bad = @ + 1] ELSE env
  /\ LET k == s.laneOf[l]
     IN  \/ /\ k = 0 /\ l \in s.used
            /\ cl' = SeesClosed(cl, l)
            /\ UNCHANGED <<s, poll>>
         \/ /\ k = 0 /\ l \notin s.used
            /\ s' = LaneProtocolFailure(s, l, Expected(l))
            /\ UNCHANGED <<poll, cl>>
         \/ /\ k # 0
            /\ s' = [s EXCEPT !.lane[k].claim = p]
            /\ poll' = [poll EXCEPT ![p] =
                 [pc |-> "slot", lane |-> l, obj |-> k, exp |-> Expected(l),
                  cursor |-> cursor, body |-> <<>>]]
            /\ cl' = [cl EXCEPT !.cur[l] = p]
  /\ UNCHANGED <<up, bk>>

PollReturns(S, p) ==
  /\ s' = ReleaseLease(S, p, poll[p].obj)
  /\ poll' = [poll EXCEPT ![p] = Idle]

(* The body of the wait loop once the lock is held and p owns the slot.    *)
PollLoop(S, p) ==
  LET r == poll[p]
      k == r.obj
      S1 == TakeDownBatch(S, k)
  IN  \/ /\ S.lane[k].claim # p
         /\ PollReturns(S, p) /\ UNCHANGED cl
      \/ /\ S.lane[k].claim = p /\ S.lane[k].pend # <<>>
         /\ s' = S1
         /\ poll' = [poll EXCEPT ![p].pc = "resp",
                                 ![p].body = S1.lane[k].unacked]
         /\ UNCHANGED cl
      \/ /\ S.lane[k].claim = p /\ S.lane[k].pend = <<>>
         /\ IF UsesLanes(S.carrier) /\ r.lane # 0 /\ r.lane \notin S.live
               /\ r.lane \in Range(S.tomb)
            THEN PollReturns(S, p) /\ cl' = SeesClosed(cl, r.lane)
            ELSE IF S.closed THEN PollReturns(S, p) /\ UNCHANGED cl
            ELSE /\ s' = [S EXCEPT !.lane[k].parked = @ \cup {p}]
                 /\ poll' = [poll EXCEPT ![p].pc = "wait"]
                 /\ UNCHANGED cl

(* The slot is free: take it and answer, acknowledge or wait.              *)
PollSlot(p) ==
  /\ poll[p].pc = "slot"
  /\ LET r == poll[p]
         k == r.obj
         L == s.lane[k]
         S1 == [s EXCEPT !.lane[k].slot = p]
         acked == [Release(S1, L.unCost, L.unItems) EXCEPT
                    !.lane[k].unacked = <<>>, !.lane[k].unCost = 0,
                    !.lane[k].unItems = 0]
     IN  /\ L.slot = Nobody
         /\ \/ /\ L.claim # p \/ s.closed
               /\ PollReturns(S1, p) /\ UNCHANGED cl
            \/ /\ L.claim = p /\ ~s.closed /\ s.laneOf[r.lane] # k
               /\ PollReturns(S1, p) /\ cl' = SeesClosed(cl, r.lane)
            \/ /\ L.claim = p /\ ~s.closed /\ s.laneOf[r.lane] = k
               /\ \/ /\ L.unacked # <<>> /\ r.cursor = L.base
                     /\ s' = S1
                     /\ poll' = [poll EXCEPT ![p].pc = "resp",
                                             ![p].body = L.unacked]
                     /\ UNCHANGED cl
                  \/ /\ r.cursor # L.cursor
                     /\ L.unacked = <<>> \/ r.cursor # L.base
                     /\ PollReturns(LaneProtocolFailure(S1, r.lane, r.exp), p)
                     /\ UNCHANGED cl
                  \/ /\ r.cursor = L.cursor
                     /\ PollLoop(acked, p)
  /\ UNCHANGED <<up, bk, env>>

(* The wait ends: the request was canceled, superseded, or the session is  *)
(* done.  A WebSocket cancels its poll only when it closes.                *)
PollGiveUp(p) ==
  /\ poll[p].pc \in {"slot", "wait"}
  /\ UsesWebSocket(s.carrier) => s.closed \/ ~Attached(poll[p].lane)
  /\ PollReturns(s, p)
  /\ UNCHANGED <<up, bk, cl, env>>

PollWake(p) ==
  /\ poll[p].pc = "wait" /\ p \notin s.lane[poll[p].obj].parked
  /\ PollLoop(s, p)
  /\ UNCHANGED <<up, bk, env>>

(* The long-poll timer: an empty response, which keeps the lease.          *)
PollTimeout(p) ==
  /\ poll[p].pc = "wait"
  /\ LET r == poll[p]
         L == s.lane[r.obj]
     IN  IF L.claim = p /\ s.laneOf[r.lane] # r.obj
         THEN PollReturns(s, p) /\ cl' = SeesClosed(cl, r.lane)
         ELSE IF L.claim # p \/ L.pend # <<>>
                 \/ (UsesLanes(s.carrier) /\ r.lane # 0
                     /\ r.lane \notin s.live /\ r.lane \in Range(s.tomb))
         THEN PollLoop(s, p)
         ELSE /\ s' = [s EXCEPT !.lane[r.obj].parked = @ \ {p}]
              /\ poll' = [poll EXCEPT ![p].pc = "resp"]
              /\ UNCHANGED cl
  /\ UNCHANGED <<up, bk, env>>

(* The response drains and the lease ends.  The peer takes only the answer *)
(* to its newest poll; a WebSocket that cannot write is closed.            *)
PollRespond(p, lost) ==
  /\ poll[p].pc = "resp"
  /\ LET r == poll[p]
         l == r.lane
         got == [FoldLeft(PeerGot, cl, r.body) EXCEPT
                   !.cursor[l] = r.cursor + 1]
         S1 == ReleaseLease(s, p, r.obj)
         dead == UsesWebSocket(s.carrier) /\ lost
     IN  /\ s' = IF dead THEN CloseTransport(S1, l) ELSE S1
         /\ cl' = IF dead THEN [cl EXCEPT !.lease[l] = 0]
                  ELSE IF lost \/ r.body = <<>> \/ cl.cur[l] # p THEN cl
                  ELSE got
  /\ poll' = [poll EXCEPT ![p] = Idle]
  /\ UNCHANGED <<up, bk, env>>

-----------------------------------------------------------------------------
(* WebSocket attachment and the life of the session.                       *)

AcquireWebSocket ==
  /\ s.carrier = "websocket" /\ ~s.closed /\ ~s.wsActive
  /\ s' = [s EXCEPT !.wsActive = TRUE]
  /\ UNCHANGED <<up, poll, bk, cl, env>>

AcquireWebSocketLane(l) ==
  /\ s.carrier = "websocket-lanes" /\ ~s.closed /\ l \notin s.used
  /\ cl.view[l] = "new" /\ s.made < MaxLanes
  /\ Cardinality({m \in LaneIDs : s.laneOf[m] # 0}) < Lim.streams
  /\ s.laneOf[l] = 0
  /\ s' = LET S1 == AddLane(s, l)
          IN  [S1 EXCEPT !.lane[S1.laneOf[l]].ws = TRUE]
  /\ cl' = [cl EXCEPT !.lease[l] = s.made + 1]
  /\ UNCHANGED <<up, poll, bk, env>>

(* The WebSocket of lane l, or the one WebSocket, goes away.               *)
LoseTransport(l) ==
  /\ UsesWebSocket(s.carrier) /\ Attached(l) /\ ~s.closed /\ env.max.lose
  /\ s' = CloseTransport(s, l)
  /\ cl' = [cl EXCEPT !.lease[l] = 0]
  /\ UNCHANGED <<up, poll, bk, env>>

(* Session.Close, expiry and manager shutdown.                             *)
CloseWithReason(reason) ==
  /\ ~s.closed /\ reason \in env.max.reasons
  /\ s' = CloseSession(s, reason)
  /\ UNCHANGED <<up, poll, bk, cl, env>>

(* The goroutine that waits for the backends and reports the session.      *)
FinishSession ==
  /\ s.closed /\ ~s.finished
  /\ \A i \in Streams : bk[i].pc \in {"none", "done"}
  /\ s' = [s EXCEPT !.finished = TRUE]
  /\ UNCHANGED <<up, poll, bk, cl, env>>

-----------------------------------------------------------------------------
(* Backend goroutines.                                                     *)

(* backendStream.close: only the first call acts.                          *)
Closed(b) ==
  IF b.once THEN b
  ELSE [b EXCEPT !.once = TRUE,
                 !.conn = IF @ = "open" THEN "closed" ELSE @]

CloseBackend(S, i) == [S EXCEPT !.cancelled = @ \cup {i}]

BackendCloseRequested(i) ==
  /\ i \in s.toClose
  /\ s' = [CloseBackend(s, i) EXCEPT !.toClose = @ \ {i}]
  /\ bk' = [bk EXCEPT ![i] = Closed(@)]
  /\ UNCHANGED <<up, poll, cl, env>>

(* The dial ends; a connection that arrives after cancellation is closed.  *)
DialDone(i, ok) ==
  /\ bk[i].pc = "dial"
  /\ ok \/ env.max.dialFail \/ i \in s.cancelled
  /\ bk' = [bk EXCEPT ![i] =
      IF ~ok THEN [@ EXCEPT !.pc = "ending"]
      ELSE IF i \in s.cancelled
      THEN [@ EXCEPT !.pc = "ending", !.conn = "closed"]
      ELSE [@ EXCEPT !.pc = "run", !.conn = "open",
                     !.rd = "allow", !.wr = "next"]]
  /\ UNCHANGED <<s, up, poll, cl, env>>

(* A read or write loop ends: backend b of stream i closes itself.         *)
LoopEnds(S, i, b) ==
  /\ s' = CloseBackend(S, i)
  /\ bk' = [bk EXCEPT ![i] = Closed(b)]

(* nextWrite.                                                              *)
NextWrite(i) ==
  /\ bk[i].wr = "next"
  /\ IF s.closed \/ i \notin s.live
     THEN LoopEnds(s, i, [bk[i] EXCEPT !.wr = "done"])
     ELSE IF s.st[i].writes # <<>>
     THEN /\ bk' = [bk EXCEPT ![i].wr = "write", ![i].busy = TRUE,
                              ![i].hand = Head(s.st[i].writes)]
          /\ s' = [s EXCEPT !.st[i].writes = Tail(@)]
     ELSE bk' = [bk EXCEPT ![i].wr = "park"] /\ UNCHANGED s
  /\ UNCHANGED <<up, poll, cl, env>>

WakeWriter(i) ==
  /\ bk[i].wr = "park"
  /\ \/ /\ s.st[i].wSig
        /\ s' = [s EXCEPT !.st[i].wSig = FALSE]
        /\ bk' = [bk EXCEPT ![i].wr = "next"]
     \/ /\ s.closed \/ i \in s.cancelled
        /\ LoopEnds(s, i, [bk[i] EXCEPT !.wr = "done"])
  /\ UNCHANGED <<up, poll, cl, env>>

(* Mutant: the peer is credited for everything that was queued.            *)
Drained_CreditsAll(S, i, n) ==
  LET x == S.st[i]
      S1 == [Release(S, n, 0) EXCEPT !.st[i].bytes = @ - n,
               !.st[i].cost = @ - n, !.st[i].recv = @ + n]
  IN  IF S.closed \/ i \notin S.live \/ n > x.bytes \/ n > x.cost
         \/ x.recv + n > Window
      THEN [ok |-> FALSE, s |-> S]
      ELSE QueueControl(S1, Credit(i, x.bytes))

(* backendDrained: the written units are credited back to the peer.        *)
Drained(S, i, n) ==
  LET x == S.st[i]
      S1 == [Release(S, n, 0) EXCEPT !.st[i].bytes = @ - n,
               !.st[i].cost = @ - n, !.st[i].recv = @ + n]
  IN  IF S.closed \/ i \notin S.live \/ n > x.bytes \/ n > x.cost
         \/ x.recv + n > Window
      THEN [ok |-> FALSE, s |-> S]
      ELSE QueueControl(S1, Credit(i, n))

(* One connection.Write and the call of backendDrained after it.  Only a   *)
(* failing write is short.                                                 *)
WriteBackend(i, n) ==
  /\ bk[i].wr = "write" /\ n \in 0..Len(bk[i].hand)
  /\ LET b == [bk[i] EXCEPT !.written = @ \o SubSeq(bk[i].hand, 1, n),
                            !.hand = SubSeq(@, n + 1, Len(@))]
         d == Drained(s, i, n)
         S1 == IF n = 0 THEN s ELSE d.s
     IN  /\ IF b.conn = "open" THEN b.hand # <<>> => env.max.writeFail
            ELSE n = 0
         /\ IF b.hand # <<>> \/ ~d.ok
            THEN LoopEnds(S1, i, [b EXCEPT !.wr = "done"])
            ELSE s' = S1 /\ bk' = [bk EXCEPT ![i] = [b EXCEPT !.wr = "finish"]]
  /\ UNCHANGED <<up, poll, cl, env>>

(* backendWriteFinished.                                                   *)
WriteFinished(i) ==
  /\ bk[i].wr = "finish"
  /\ IF s.closed \/ i \notin s.live \/ s.st[i].items = 0
        \/ s.st[i].cost < ItemCost
     THEN LoopEnds(s, i, [bk[i] EXCEPT !.wr = "done"])
     ELSE /\ s' = [Release(s, ItemCost, 1) EXCEPT
                     !.st[i].items = @ - 1, !.st[i].cost = @ - ItemCost]
          /\ bk' = [bk EXCEPT ![i].wr = "next", ![i].busy = FALSE]
  /\ UNCHANGED <<up, poll, cl, env>>

(* nextReadAllowance.                                                      *)
ReadAllowance(i) ==
  /\ bk[i].rd = "allow"
  /\ LET n == DataFrameAllowance(s, Min({s.st[i].credit, Chunk}))
     IN  IF s.closed \/ i \notin s.live
         THEN LoopEnds(s, i, [bk[i] EXCEPT !.rd = "done"])
         ELSE IF s.st[i].credit # 0 /\ n # 0
         THEN bk' = [bk EXCEPT ![i].rd = "read", ![i].allow = n] /\ UNCHANGED s
         ELSE /\ bk' = [bk EXCEPT ![i].rd = "park"]
              /\ s' = [s EXCEPT !.budgetWait = @ \cup {i}]
  /\ UNCHANGED <<up, poll, cl, env>>

WakeReader(i) ==
  /\ bk[i].rd = "park"
  /\ LET S1 == [s EXCEPT !.budgetWait = @ \ {i}]
     IN  \/ /\ s.st[i].cSig
            /\ s' = [S1 EXCEPT !.st[i].cSig = FALSE]
            /\ bk' = [bk EXCEPT ![i].rd = "allow"]
         \/ /\ i \notin s.budgetWait
            /\ bk' = [bk EXCEPT ![i].rd = "allow"]
            /\ UNCHANGED s
         \/ /\ s.closed \/ i \in s.cancelled
            /\ LoopEnds(S1, i, [bk[i] EXCEPT !.rd = "done"])
  /\ UNCHANGED <<up, poll, cl, env>>

(* connection.Read of n units and backendData with them: the allowance may *)
(* be stale, granted is the manager's answer to the reservation.           *)
ReadBackend(i, n, granted) ==
  /\ bk[i].rd = "read" /\ bk[i].conn = "open"
  /\ n \in 1..bk[i].allow /\ bk[i].read + n <= env.max.down
  /\ ~granted => env.refused < env.max.refuse
  /\ env' = IF granted THEN env ELSE [env EXCEPT !.refused = @ + 1]
  /\ LET b == [bk[i] EXCEPT !.read = @ + n, !.allow = 0]
         d == [m \in 1..n |-> bk[i].read + m]
         fits == ~s.closed /\ i \in s.live /\ n <= s.st[i].credit
         S1 == [s EXCEPT !.st[i].credit = @ - n]
         q == IF granted THEN QueueFrame(S1, Data(i, d), "downlink")
              ELSE [ok |-> FALSE, s |-> S1]
     IN  IF fits /\ q.ok
         THEN s' = q.s /\ bk' = [bk EXCEPT ![i] = [b EXCEPT !.rd = "allow"]]
         ELSE LoopEnds(IF fits THEN q.s ELSE s, i, [b EXCEPT !.rd = "done"])
  /\ UNCHANGED <<up, poll, cl>>

(* The read fails: end of file, or the connection was closed.              *)
ReadFails(i) ==
  /\ bk[i].rd = "read"
  /\ bk[i].conn = "closed" \/ env.max.eof
  /\ LoopEnds(s, i, [bk[i] EXCEPT !.rd = "done", !.allow = 0])
  /\ UNCHANGED <<up, poll, cl, env>>

(* backendClosed, deferred by run: the stream leaves the session and the   *)
(* peer is told, or the session closes.                                    *)
BackendClosed(i) ==
  /\ \/ bk[i].pc = "ending"
     \/ bk[i].pc = "run" /\ bk[i].rd = "done" /\ bk[i].wr = "done"
  /\ LET q == QueueControl(Detach(DropPending(s, i), i), Close(i))
         S1 == IF s.closed \/ i \notin s.live THEN s
               ELSE IF q.ok THEN q.s ELSE CloseSession(q.s, "resource")
     IN  s' = CloseBackend(S1, i)
  /\ bk' = [bk EXCEPT ![i] = Closed([@ EXCEPT !.pc = "done"])]
  /\ UNCHANGED <<up, poll, cl, env>>

-----------------------------------------------------------------------------
NewSession(c) ==
  [carrier |-> c, closed |-> FALSE, reason |-> "none", finished |-> FALSE,
   live |-> {}, st |-> [i \in Streams |-> NewStream], used |-> {},
   tomb |-> <<>>, lane |-> [k \in Objs |-> NewLane],
   laneOf |-> [l \in LaneIDs |->
                 IF l = 0 /\ c # "websocket-lanes" THEN 1 ELSE 0],
   made |-> IF c = "websocket-lanes" THEN 0 ELSE 1,
   wsActive |-> FALSE, cost |-> 0, items |-> 0, budgetWait |-> {},
   cancelled |-> {}, toClose |-> {}]

NewBackend == [pc |-> "none", conn |-> "none", once |-> FALSE, rd |-> "none",
               allow |-> 0, wr |-> "none", hand |-> <<>>,
               busy |-> FALSE, written |-> <<>>, read |-> 0]

NewPeer == [view |-> [i \in Streams |-> "new"], sent |-> [i \in Streams |-> 0],
            credit |-> [i \in Streams |-> Window],
            got |-> [i \in Streams |-> <<>>], due |-> [i \in Streams |-> 0],
            seq |-> [l \in LaneIDs |-> 0], out |-> [l \in LaneIDs |-> <<>>],
            cursor |-> [l \in LaneIDs |-> 0],
            cur |-> [l \in LaneIDs |-> Nobody],
            lease |-> [l \in LaneIDs |-> 0]]

(* A scenario fixes the carrier and what the environment may do: the       *)
(* request handlers and streams in use, the units each side sends, invalid *)
(* requests, refusals by the manager, whether the peer closes streams, the *)
(* backend ends, a dial or a write fails, a WebSocket is lost, and why the *)
(* session may be closed.                                                  *)
Init ==
  \E m \in Scenarios :
    /\ s = NewSession(m.carrier)
    /\ up = [x \in Ups |-> Idle] /\ poll = [p \in Polls |-> Idle]
    /\ bk = [i \in Streams |-> NewBackend]
    /\ cl = NewPeer
    /\ env = [max |-> m, bad |-> 0, refused |-> 0]

PeerNext ==
  \/ \E x \in env.max.ups, l \in Lanes, lost \in BOOLEAN :
       \/ \E b \in PeerBatches(l) : ProcessUp(x, l, b, lost)
       \/ RetryUp(x, l, lost)
  \/ \E x \in env.max.ups, l \in Lanes :
       \/ \E b \in BadBatches(l) : ProcessBadUp(x, l, cl.seq[l] + 1, b)
       \/ \E n \in {0, cl.seq[l], cl.seq[l] + 2} :
            ProcessBadUp(x, l, n, <<Frame("pong", 0, <<>>, 0)>>)
  \/ \E p \in env.max.polls, l \in Lanes, d \in {0, 2} :
       PollCarrier(p, l, cl.cursor[l] + d)
  \/ \E l \in Lanes : AcquireWebSocketLane(l) \/ LoseTransport(l)
  \/ AcquireWebSocket
  \/ \E r \in {"client", "expired", "shutdown"} : CloseWithReason(r)

UpNext ==
  \/ \E x \in env.max.ups, l \in Lanes : \E b \in PeerBatches(l) :
       ReserveInput(x, l, b)
  \/ \E x \in env.max.ups :
       ResizeInput(x) \/ ProcessUpMessage(x) \/ AbandonUp(x)
  \/ \E x \in env.max.ups, g, lost \in BOOLEAN, d \in SUBSET Streams :
       ApplyUp(x, g, d, lost)

PollNext ==
  \E p \in env.max.polls : \/ PollSlot(p) \/ PollGiveUp(p) \/ PollWake(p)
                   \/ PollTimeout(p)
                   \/ \E lost \in BOOLEAN : PollRespond(p, lost)

BackendNext ==
  \E i \in Streams :
    \/ BackendCloseRequested(i) \/ \E ok \in BOOLEAN : DialDone(i, ok)
    \/ NextWrite(i) \/ WakeWriter(i) \/ WriteFinished(i)
    \/ \E n \in 0..Window : WriteBackend(i, n)
    \/ ReadAllowance(i) \/ WakeReader(i) \/ ReadFails(i)
    \/ \E n \in 1..Chunk, g \in BOOLEAN : ReadBackend(i, n, g)
    \/ BackendClosed(i)

Next == PeerNext \/ UpNext \/ PollNext \/ BackendNext \/ FinishSession

Spec == Init /\ [][Next]_vars
===============================================================================
