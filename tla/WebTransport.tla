----------------------------- MODULE WebTransport -----------------------------
(***************************************************************************)
(* One carrier connection of the WEB HTTP server once it was upgraded to a *)
(* WebSocket (pkg/webproxy/websocket_transport.go), and the per-connection *)
(* timers of http_server.go it shares with the HTTP phase (HttpConnection).*)
(*                                                                         *)
(* c is the gnet connection with its httpConnectionState, w the request    *)
(* goroutine of the HTTP phase, t the webSocketConnection with its uplink  *)
(* worker, downlink worker and session monitor, ses what the session holds *)
(* on behalf of this connection (the session itself is WebSession's).      *)
(* Event-loop callbacks are atomic; the workers interleave with them.      *)
(*                                                                         *)
(* Timers carry a generation (deadlineID, livenessID) that every change of *)
(* phase advances; a fired timer of an older generation does nothing, so   *)
(* the model keeps only whether the current one is armed or queued.        *)
(* Input is a sequence of whole requests, bodies and frames.               *)
(***************************************************************************)
EXTENDS Integers, FiniteSets, SequencesExt, UnitSums

CONSTANTS
  MaxItems, MaxBytes, \* webSocketInboundBudget: messages and units owned
  MaxOwned,           \* decoderOwnedLimit: units of one message
  MaxOut,             \* maxWebSocketOutboundMessages
  CtlInput,           \* maxWebSocketControlInputBytes, in frames
  Pipeline,           \* maxPipelineBytes, in requests, bodies or frames
  Scenarios           \* environments: see HttpConnection

ASSUME LimitsAssumption ==
  {MaxItems, MaxBytes, MaxOwned, MaxOut, CtlInput, Pipeline} \subseteq Nat

VARIABLES c, w, t, ses, env

vars == <<c, w, t, ses, env>>

(* What one event-loop callback works on; act is its gnet.Action.          *)
State == [c |-> c, w |-> w, t |-> t, ses |-> ses, act |-> "none"]
Then(X, Op(_)) == IF X.act = "close" THEN X ELSE Op(X)
Closing(X) == [X EXCEPT !.act = "close"]

-----------------------------------------------------------------------------
(* httpConnectionState: the phase deadline and the drain poll.             *)
ArmDeadline(X, phase) == [X EXCEPT !.c.dl = phase, !.c.fired = FALSE]
InvalidateDeadline(X) == [X EXCEPT !.c.dl = "none", !.c.fired = FALSE]
ArmDrainWake(X)       == [X EXCEPT !.c.drain = TRUE]
Wake(X)               == [X EXCEPT !.c.wake = TRUE]

(* PollLease.Release: the session's downlink slot is free again.           *)
ReleaseLease(X, lease) == IF lease THEN [X EXCEPT !.ses.slot = FALSE] ELSE X

-----------------------------------------------------------------------------
(* Owned input: every decoded message is charged to the connection and to  *)
(* the session until the uplink worker has handed it over.                 *)
Reserve(X, size, granted) ==
  LET fits == X.t.items < MaxItems /\ X.t.bytes + size <= MaxBytes
  IN  [ok |-> fits /\ granted /\ ~X.ses.done,
       x  |-> [X EXCEPT !.t.items = @ + 1, !.t.bytes = @ + size,
                        !.ses.items = @ + 1, !.ses.bytes = @ + size]]

(* resizeLocked: the local charge is rolled back when the session refuses. *)
Grow(X, delta, granted) ==
  [ok |-> X.t.bytes + delta <= MaxBytes /\ granted /\ ~X.ses.done,
   x  |-> [X EXCEPT !.t.bytes = @ + delta, !.ses.bytes = @ + delta]]

(* n messages of size units; a closed session has returned everything it   *)
(* had charged.                                                            *)
ReleaseInput(X, n, size) ==
  LET Y == [X EXCEPT !.t.items = @ - n, !.t.bytes = @ - size]
  IN  IF X.ses.done THEN Y
      ELSE [Y EXCEPT !.ses.items = @ - n, !.ses.bytes = @ - size]

(* reserveDecodedPayload: one reservation per message, grown by fragments. *)
ReservePayload(X, granted) ==
  LET r == IF X.t.frag = 0 THEN Reserve(X, 1, granted) ELSE Grow(X, 1, granted)
  IN  [r EXCEPT !.ok = @ /\ X.t.frag < MaxOwned, !.x.t.frag = @ + 1]

(* releaseInbound returns the open message and all that wait for the       *)
(* worker: the units they hold, and one item each.                         *)
Sizes(q) == SumOf([i \in 1..Len(q) |-> q[i].size])
One(n) == IF n = 0 THEN 0 ELSE 1

ReleaseInbound(X) ==
  [ReleaseInput(X, Len(X.t.inbound) + One(X.t.frag),
                Sizes(X.t.inbound) + X.t.frag)
     EXCEPT !.t.frag = 0, !.t.inbound = <<>>]

-----------------------------------------------------------------------------
(* Outbound items: the downlink worker's messages, pongs, the close frame. *)
Item(type, lease) == [type |-> type, lease |-> lease]
NoItem == Item("none", FALSE)

CanEnqueue(T) == ~T.closed /\ Len(T.out) < MaxOut
Enqueue(X, item) == [X EXCEPT !.t.out = Append(@, item)]

(* item.done: only the downlink worker waits for its item.                 *)
Done(X, item, res) ==
  IF item.type \in {"binary", "ping"} /\ X.t.down = "wait"
  THEN [X EXCEPT !.t.down = res] ELSE X

FinishCurrent(X, res) ==
  IF X.t.current = NoItem THEN X
  ELSE LET item == X.t.current
           Y == [X EXCEPT !.t.current = NoItem, !.t.writing = FALSE,
                          !.t.pongs = IF item.type = "pong" THEN @ - 1 ELSE @]
       IN  Done(ReleaseLease(Y, item.lease), item, res)

TouchLiveness(X) ==
  IF X.t.phase = "open"
  THEN [X EXCEPT !.t.live = "armed", !.t.expired = FALSE] ELSE X

(* fail: the first failure is kept for the event loop; none after cancel.  *)
Fail(X) == IF X.t.ctx THEN X ELSE Wake([X EXCEPT !.t.failure = TRUE])

BeginClose(X) ==
  IF X.t.phase = "closing" THEN X
  ELSE LET Y == ReleaseInbound([X EXCEPT !.t.phase = "closing",
                                         !.t.ctx = TRUE, !.t.live = "none"])
       IN  IF CanEnqueue(Y.t) THEN Wake(Enqueue(Y, Item("close", FALSE)))
           ELSE Closing(Y)

(* The items that were not written are given up, and so are their leases.  *)
DropOut(X) ==
  LET I == Range(X.t.out)
  IN  [ReleaseLease(X, \E i \in I : i.lease) EXCEPT
        !.t.out = <<>>,
        !.t.down = IF @ = "wait" /\ \E i \in I : i.type \in {"binary", "ping"}
                   THEN "err" ELSE @]

(* webSocketConnection.close: once, from the connection's OnClose.  The    *)
(* lane lease is released; a multiplexed WebSocket ends its session.       *)
CloseTransport(X) ==
  IF X.t.phase = "none" \/ X.t.closed THEN X
  ELSE LET Y == FinishCurrent(ReleaseInbound(
                  [X EXCEPT !.t.closed = TRUE, !.t.ctx = TRUE,
                            !.t.live = "none"]), "err")
           F == [DropOut(Y) EXCEPT !.ses.held = FALSE]
       IN  IF X.t.carrier = "lane" THEN F
           ELSE [F EXCEPT !.ses.done = TRUE, !.ses.items = 0, !.ses.bytes = 0]

-----------------------------------------------------------------------------
(* pumpWebSocketWrites: at most one write in progress, each under its own  *)
(* write deadline.  ok is FALSE when gnet refuses the write.               *)
PumpNext(X, ok) ==
  IF X.t.out = <<>> THEN X
  ELSE LET Y == ArmDeadline([X EXCEPT !.t.current = Head(X.t.out),
                                      !.t.out = Tail(@),
                                      !.t.writing = TRUE], "write")
       IN  IF ok THEN Y ELSE Closing(FinishCurrent(Y, "err"))

PumpWrites(X, ok) ==
  CASE X.t.current = NoItem -> PumpNext(X, ok)
    [] X.t.current # NoItem /\ X.t.writing -> X
    [] X.t.current # NoItem /\ ~X.t.writing /\ X.c.out -> ArmDrainWake(X)
    [] OTHER ->
         LET Y == FinishCurrent(InvalidateDeadline(X), "ok")
         IN  IF X.t.current.type = "close" THEN Closing(Y) ELSE PumpNext(Y, ok)

ResetControlBurst(X) ==
  IF X.c.in = <<>> /\ X.t.pongs = 0 THEN [X EXCEPT !.t.ctlIn = 0] ELSE X

-----------------------------------------------------------------------------
(* Decoding.  bin is a whole message; part opens or continues a fragmented *)
(* one and fin ends it; bad breaks the protocol or a limit.                *)
Control == {"ping", "pong", "close"}

ValidHeader(T, m) == \/ m \in {"part"} \cup Control
                     \/ m = "bin" /\ T.frag = 0
                     \/ m = "fin" /\ T.frag > 0

(* Frames behind an uplink message still being processed wait, except for  *)
(* data, which the budgets bound.                                          *)
CanDecode(X) ==
  \/ X.t.up = 0
  \/ ValidHeader(X.t, Head(X.c.in)) /\ Head(X.c.in) \notin Control

DenseControl(rest) ==
  Len(rest) >= MaxOut /\ \A i \in 1..MaxOut : rest[i] \in {"ping", "pong"}

(* boundUnreadInput: what may stay unread behind a control frame, or when  *)
(* the decoder stopped at its frame limit inside a fragmented message.     *)
UnreadOverflow(X, m, rest, limit) ==
  IF m \in Control
  THEN \/ X.t.ctlIn + 1 >= CtlInput \/ DenseControl(rest)
       \/ Len(rest) >= CtlInput - (X.t.ctlIn + 1)
  ELSE m = "part" /\ limit /\ Len(rest) > CtlInput

Emit(X, m) ==
  CASE m \in {"bin", "fin"} ->
         TouchLiveness([X EXCEPT
           !.t.inbound = Append(@, [size |-> X.t.frag, chunked |-> m = "fin"]),
           !.t.frag = 0, !.t.up = @ + 1])
    [] m = "ping" -> IF CanEnqueue(X.t)
                     THEN [Enqueue(X, Item("pong", FALSE))
                             EXCEPT !.t.pongs = @ + 1]
                     ELSE Closing(X)
    [] m = "pong" -> TouchLiveness(X)
    [] m = "close" -> BeginClose(X)
    [] OTHER -> X

(* decodeWindow: one frame is checked, charged and taken from the input.  *)
ReadFrame(X, granted) ==
  LET m == Head(X.c.in)
      rest == Tail(X.c.in)
      data == m \in {"bin", "part", "fin"}
      r == ReservePayload(X, granted)
      bad == \/ ~ValidHeader(X.t, m)
             \/ data /\ ~r.ok
             \/ m = "close" /\ rest # <<>>
  IN  [ok |-> ~bad,
       x  |-> [(IF data /\ ~bad THEN r.x ELSE X) EXCEPT
                 !.c.in = rest,
                 !.t.ctlIn = IF m \in Control THEN @ + 1 ELSE 0]]

DecodeOne(X, o) ==
  LET m == Head(X.c.in)
      r == ReadFrame(X, o.granted)
      over == UnreadOverflow(X, m, Tail(X.c.in), o.limit)
      more(Z) == IF Z.c.in # <<>> /\ Z.t.phase = "open" /\ CanDecode(Z)
                 THEN IF m = "part" /\ o.limit THEN ArmDrainWake(Z) ELSE Wake(Z)
                 ELSE Z
  IN  CASE over -> BeginClose([r.x EXCEPT !.c.in = <<>>])
        [] ~over /\ ~r.ok -> BeginClose(r.x)
        [] OTHER -> Then(Emit(r.x, m), more)

-----------------------------------------------------------------------------
StartTransport(X) ==
  TouchLiveness([InvalidateDeadline(X) EXCEPT
    !.t.phase = "open", !.t.pc = "take", !.t.down = "poll",
    !.t.monitor = "wait"])

TakeFailure(X) ==
  IF X.t.failure THEN BeginClose([X EXCEPT !.t.failure = FALSE]) ELSE X

TakeResults(X) ==
  LET n == Len(X.t.results)
      Y == [X EXCEPT !.t.results = <<>>, !.t.up = @ - n]
  IN  CASE n > X.t.up -> Closing(X)
        [] n <= X.t.up /\ "err" \in Range(X.t.results) -> BeginClose(Y)
        [] OTHER -> Y

RenewExpired(X) ==
  IF X.t.expired /\ X.t.up = 0 THEN TouchLiveness(X) ELSE X

OpenTraffic(X, o) ==
  LET pump(Z) == PumpWrites(Z, o.ok)
      decode(Z) ==
        LET B == ResetControlBurst(Z)
        IN  IF B.t.phase # "open" \/ B.c.in = <<>> \/ ~CanDecode(B) THEN B
            ELSE ResetControlBurst(Then(DecodeOne(B, o), pump))
      renew(Z) == RenewExpired(Z)
      results(Z) == TakeResults(Z)
  IN  Then(Then(Then(Then(TakeFailure(X), results), renew), pump), decode)

OnWebSocketTraffic(X, o) ==
  CASE X.t.phase = "handshake" /\ ~X.t.written ->
         IF X.c.in # <<>> THEN Closing(X) ELSE X
    [] X.t.phase = "handshake" /\ X.t.written /\ X.c.out ->
         IF X.c.in # <<>> THEN Closing(X) ELSE ArmDrainWake(X)
    [] X.t.phase = "handshake" /\ X.t.written /\ ~X.c.out ->
         OpenTraffic(StartTransport(X), o)
    [] OTHER -> OpenTraffic(X, o)
===============================================================================
