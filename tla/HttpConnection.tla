---------------------------- MODULE HttpConnection ----------------------------
(***************************************************************************)
(* One connection of the WEB HTTP server (pkg/webproxy/http_server.go): a  *)
(* sequence of carrier requests, each served by a goroutine while the      *)
(* event loop owns the socket, or an upgrade to a WebSocket.  The peer is  *)
(* arbitrary: it may send anything at any time, stop reading, or leave.    *)
(*                                                                         *)
(* Which request a header is, and whether it authenticates, is decided by  *)
(* prepare from the header alone; here a header is one of                  *)
(*   up      a request with a body, answered at once (create, up)          *)
(*   down    a request without one, a downlink poll                        *)
(*   ws      a WebSocket upgrade                                           *)
(*   reject  anything prepare or the parser refuses                        *)
(* half is the first part of a header, body a request body.                *)
(***************************************************************************)
EXTENDS WebTransport

Headers == {"up", "down", "ws", "reject"}

-----------------------------------------------------------------------------
(* httpConnectionState                                                     *)
StartRequest(X) ==
  ArmDeadline([X EXCEPT !.c.active = TRUE, !.c.cancel = TRUE], "request")

FinishRequest(X) ==
  [InvalidateDeadline(X) EXCEPT !.c.active = FALSE, !.c.cancel = FALSE]

BeginResponse(X, lease, closeAfter) ==
  ArmDeadline([X EXCEPT !.c.cancel = FALSE, !.c.draining = TRUE,
                        !.c.closeAfter = closeAfter, !.c.lease = lease], "write")

FinishResponse(X) ==
  ReleaseLease([InvalidateDeadline(X) EXCEPT
    !.c.lease = FALSE, !.c.active = FALSE, !.c.draining = FALSE,
    !.c.closeAfter = FALSE, !.c.drain = FALSE], X.c.lease)

(* Cancelling a request cancels the context its goroutine runs under.      *)
CancelRequest(X) ==
  [X EXCEPT !.w.ctx = @ \/ X.c.cancel, !.c.cancel = FALSE]

(* OnClose: httpConnectionState.close on the event loop that owns it.      *)
OnClose(X) ==
  LET Y == CancelRequest(InvalidateDeadline(X))
      Z == ReleaseLease([Y EXCEPT !.c.open = FALSE, !.c.drain = FALSE,
                                  !.c.lease = FALSE, !.c.wake = FALSE,
                                  !.c.in = <<>>, !.c.out = FALSE], X.c.lease)
  IN  CloseTransport(Z)

(* The end of every callback: a Close action closes the connection.        *)
Commit(X) ==
  LET Y == IF X.act = "close" /\ X.c.open THEN OnClose(X) ELSE X
  IN  c' = Y.c /\ w' = Y.w /\ t' = Y.t /\ ses' = Y.ses

-----------------------------------------------------------------------------
(* writeImmediate: a refusal is written from the event loop and closes the *)
(* connection once it has drained.                                         *)
WriteImmediate(X, o) ==
  LET Y == BeginResponse(StartRequest(X), FALSE, TRUE)
  IN  CASE ~o.ok -> Closing(FinishRequest(StartRequest(X)))
        [] o.ok /\ ~o.stuck -> Closing(FinishResponse(Y))
        [] OTHER -> ArmDrainWake([Y EXCEPT !.c.out = TRUE])

(* dispatch: the goroutine that serves the request.                        *)
Dispatch(X, kind) ==
  [StartRequest(X) EXCEPT !.c.pending = FALSE,
     !.w = [pc |-> "serve", kind |-> kind, ctx |-> FALSE, lease |-> FALSE]]

ReadBody(X, o) ==
  CASE Len(X.c.in) > 1 + Pipeline -> WriteImmediate(X, o)
    [] Len(X.c.in) <= 1 + Pipeline /\ X.c.in # <<>> ->
         Dispatch([X EXCEPT !.c.in = Tail(@)], "up")
    [] OTHER -> X

(* upgradeWebSocket: the lane or the session's one WebSocket was acquired  *)
(* by prepare; from here the transport owns it.                            *)
Upgrade(X, o) ==
  LET Y == ArmDeadline([X EXCEPT !.t.phase = "handshake", !.ses.held = TRUE],
                       "write")
  IN  IF o.ok THEN Y ELSE Closing(Y)

ReadHeader(X, o) ==
  LET in == IF Head(X.c.in) = "half" THEN Tail(X.c.in) ELSE X.c.in
      Y == IF X.c.half THEN X ELSE ArmDeadline(X, "header")
      Z == [Y EXCEPT !.c.in = Tail(in), !.c.half = FALSE]
      m == Head(in)
  IN  CASE in = <<>> -> [Y EXCEPT !.c.in = <<>>, !.c.half = TRUE]
        [] in # <<>> /\ m = "up" ->
             ReadBody(ArmDeadline([Z EXCEPT !.c.pending = TRUE], "body"), o)
        [] in # <<>> /\ m = "down" -> Dispatch(Z, "down")
        [] in # <<>> /\ m = "ws" /\ Tail(in) = <<>> /\ ~X.ses.done /\ o.granted ->
             Upgrade(Z, o)
        [] OTHER -> WriteImmediate(Z, o)

(* OnTraffic, the HTTP phase.                                              *)
NextRequest(X, o) ==
  CASE X.c.active ->
         IF Len(X.c.in) > Pipeline THEN Closing(CancelRequest(X)) ELSE X
    [] ~X.c.active /\ X.c.pending -> ReadBody(X, o)
    [] ~X.c.active /\ ~X.c.pending /\ X.c.in # <<>> -> ReadHeader(X, o)
    [] OTHER -> X

Drained(X, o) ==
  LET Y == FinishResponse(X)
  IN  CASE X.c.closeAfter -> Closing(Y)
        [] ~X.c.closeAfter /\ X.c.in = <<>> -> ArmDeadline(Y, "idle")
        [] OTHER -> NextRequest(ArmDeadline(Y, "header"), o)

OnHttpTraffic(X, o) ==
  LET over == X.c.draining /\ Len(X.c.in) > Pipeline
      Y == IF over THEN [X EXCEPT !.c.closeAfter = TRUE, !.c.in = <<>>] ELSE X
  IN  CASE X.c.draining /\ X.c.out -> ArmDrainWake(Y)
        [] X.c.draining /\ ~X.c.out -> Drained(Y, o)
        [] OTHER -> NextRequest(X, o)

(* One traffic callback: for input that arrived, or for a Wake.  What it   *)
(* does not decide: whether gnet takes a write (ok) and the peer leaves it *)
(* unread (stuck), whether the session grants what is asked of it, whether *)
(* the decoder stops at its frame limit.                                   *)
Outcomes ==
  LET frames == t.phase # "none"
  IN  [ok : {TRUE} \cup (IF env.max.refuse THEN {FALSE} ELSE {}),
       granted : BOOLEAN,
       stuck : IF frames THEN {FALSE} ELSE BOOLEAN,
       limit : IF frames /\ "part" \in Range(c.in) THEN BOOLEAN ELSE {FALSE}]

OnTraffic ==
  /\ c.open /\ c.wake
  /\ \E o \in Outcomes :
       LET X == [State EXCEPT !.c.wake = FALSE]
       IN  Commit(IF t.phase = "none" THEN OnHttpTraffic(X, o)
                  ELSE OnWebSocketTraffic(X, o))
  /\ UNCHANGED env

-----------------------------------------------------------------------------
(* The request goroutine: serve, the check of its context, AsyncWritev and *)
(* the callback that runs on the event loop.                               *)
(* serve: a downlink poll returns with a lease (PollCarrier), or without   *)
(* one when it failed or its context ended.                                *)
Serve(lease) ==
  /\ w.pc = "serve"
  /\ lease => w.kind = "down" /\ ~ses.done
  /\ w' = [w EXCEPT !.pc = "served", !.lease = lease]
  /\ ses' = [ses EXCEPT !.slot = @ \/ lease]
  /\ UNCHANGED <<c, t, env>>

(* A response whose lease a newer poll has superseded is replaced by an    *)
(* empty one.                                                              *)
Respond(superseded, ok) ==
  /\ w.pc = "served"
  /\ superseded => w.lease /\ ~w.ctx
  /\ LET R == ReleaseLease([State EXCEPT !.w.lease = FALSE], w.lease)
         drop(X) == FinishRequest([X EXCEPT !.w.pc = "none"])
     IN  Commit(CASE w.ctx -> drop(R)
                  [] ~w.ctx /\ ~ok -> [drop(R) EXCEPT !.c.closeReq = TRUE]
                  [] ~w.ctx /\ ok /\ superseded -> [R EXCEPT !.w.pc = "queued"]
                  [] OTHER -> [State EXCEPT !.w.pc = "queued"])
  /\ UNCHANGED env

(* A plausible bug: a kept-alive connection has no idle deadline.          *)
ResponseWritten_NoIdle(err, stuck, closeAfter) ==
  /\ w.pc = "queued" /\ (~c.open => err)
  /\ LET X == [State EXCEPT !.w.pc = "none", !.w.lease = FALSE]
         Y == BeginResponse(X, w.lease, closeAfter)
         F == FinishResponse(Y)
     IN  Commit(CASE err -> Closing(FinishRequest(ReleaseLease(X, w.lease)))
                  [] ~err /\ stuck -> ArmDrainWake([Y EXCEPT !.c.out = TRUE])
                  [] ~err /\ ~stuck /\ closeAfter -> Closing(F)
                  [] OTHER -> Wake(F))
  /\ UNCHANGED env

ResponseWritten(err, stuck, closeAfter) ==
  /\ w.pc = "queued" /\ (~c.open => err)
  /\ LET X == [State EXCEPT !.w.pc = "none", !.w.lease = FALSE]
         Y == BeginResponse(X, w.lease, closeAfter)
         F == FinishResponse(Y)
     IN  Commit(CASE err -> Closing(FinishRequest(ReleaseLease(X, w.lease)))
                  [] ~err /\ stuck -> ArmDrainWake([Y EXCEPT !.c.out = TRUE])
                  [] ~err /\ ~stuck /\ closeAfter -> Closing(F)
                  [] OTHER -> Wake(ArmDeadline(F, "idle")))
  /\ UNCHANGED env

-----------------------------------------------------------------------------
(* Timers.                                                                 *)
DeadlineFires == /\ c.open /\ c.dl # "none" /\ ~c.fired
                 /\ c' = [c EXCEPT !.fired = TRUE]
                 /\ UNCHANGED <<w, t, ses, env>>

DeadlineRuns ==
  /\ c.open /\ c.fired
  /\ Commit(Closing(InvalidateDeadline(CancelRequest(State))))
  /\ UNCHANGED env

DrainWakeFires == /\ c.open /\ c.drain
                  /\ c' = [c EXCEPT !.drain = FALSE, !.wake = TRUE]
                  /\ UNCHANGED <<w, t, ses, env>>

LivenessFires == /\ c.open /\ t.live = "armed"
                 /\ t' = [t EXCEPT !.live = "queued"]
                 /\ UNCHANGED <<c, w, ses, env>>

(* A peer that is silent while its own message is still being processed is *)
(* not dropped; the timer starts again when the result arrives.            *)
LivenessRuns ==
  /\ c.open /\ t.live = "queued"
  /\ Commit(IF t.up # 0
            THEN [State EXCEPT !.t.live = "none", !.t.expired = TRUE]
            ELSE Closing(State))
  /\ UNCHANGED env

(* Close requested from another goroutine.                                 *)
CloseRuns == /\ c.open /\ c.closeReq /\ Commit(Closing(State))
             /\ UNCHANGED env

-----------------------------------------------------------------------------
(* WebSocket: the write callbacks and the three goroutines.                *)
HandshakeWritten(err, stuck) ==
  /\ c.open /\ t.phase = "handshake" /\ ~t.written
  /\ Commit(IF err THEN Closing(State)
            ELSE Wake([State EXCEPT !.t.written = TRUE, !.c.out = stuck]))
  /\ UNCHANGED env

FrameWritten(err, stuck) ==
  /\ c.open /\ t.writing
  /\ Commit(IF err THEN Closing(FinishCurrent(State, "err"))
            ELSE Wake([State EXCEPT !.t.writing = FALSE, !.c.out = stuck]))
  /\ UNCHANGED env

(* uplinkLoop takes a message; a chunked one is coalesced, which needs its *)
(* payload's size once more (released again if the session refuses).       *)
UplinkTakes(granted) ==
  /\ t.pc = "take" /\ t.inbound # <<>>
  /\ LET m == Head(t.inbound)
         X == [State EXCEPT !.t.inbound = Tail(@), !.t.doing = m.size,
                            !.t.pc = "process"]
         g == Grow(X, m.size, granted)
     IN  Commit(CASE ~m.chunked -> X
                  [] m.chunked /\ g.ok -> [g.x EXCEPT !.t.doing = 2 * m.size]
                  [] OTHER -> [ReleaseInput(X, 1, m.size) EXCEPT
                                 !.t.pc = "report", !.t.doing = 0,
                                 !.t.code = "err"])
  /\ UNCHANGED env

(* processUplink returns: acknowledged, refused, out of patience with      *)
(* backpressure, or cancelled.  Until then it retries.                     *)
UplinkProcessed(code) ==
  /\ t.pc = "process"
  /\ code = "ok" => ~ses.done
  /\ Commit([ReleaseInput(State, 1, t.doing) EXCEPT
               !.t.pc = "report", !.t.doing = 0, !.t.code = code])
  /\ UNCHANGED env

(* A plausible bug: the result is queued without a Wake.                   *)
UplinkReports_Silent ==
  /\ t.pc = "report"
  /\ Commit(IF t.ctx THEN [State EXCEPT !.t.pc = "none"]
            ELSE [State EXCEPT !.t.results = Append(@, t.code),
                    !.t.pc = IF t.code = "ok" THEN "take" ELSE "none"])
  /\ UNCHANGED env

UplinkReports ==
  /\ t.pc = "report"
  /\ Commit(IF t.ctx THEN [State EXCEPT !.t.pc = "none"]
            ELSE Wake([State EXCEPT !.t.results = Append(@, t.code),
                         !.t.pc = IF t.code = "ok" THEN "take" ELSE "none"]))
  /\ UNCHANGED env

UplinkStops == /\ t.pc = "take" /\ t.ctx
               /\ t' = [t EXCEPT !.pc = "none"]
               /\ UNCHANGED <<c, w, ses, env>>

(* downlinkLoop: PollCarrier returns a batch or, after a long poll,        *)
(* nothing, which becomes a ping; either way with a lease.                 *)
DownPolls(type) ==
  /\ t.down = "poll" /\ ~t.ctx /\ ~ses.done
  /\ t' = [t EXCEPT !.down = type]
  /\ ses' = [ses EXCEPT !.slot = TRUE]
  /\ UNCHANGED <<c, w, env>>

(* The lane was closed, the poll failed, or the connection was cancelled.  *)
DownPollFails ==
  /\ t.down = "poll"
  /\ Commit(Fail([State EXCEPT !.t.down = "none"]))
  /\ UNCHANGED env

(* A plausible bug: a refused item keeps its lease.                        *)
DownSends_Leaks ==
  /\ t.down \in {"binary", "ping"}
  /\ Commit(IF CanEnqueue(t)
            THEN Wake([Enqueue(State, Item(t.down, TRUE)) EXCEPT
                         !.t.down = "wait"])
            ELSE Fail([State EXCEPT !.t.down = "none"]))
  /\ UNCHANGED env

DownSends ==
  /\ t.down \in {"binary", "ping"}
  /\ Commit(IF CanEnqueue(t)
            THEN Wake([Enqueue(State, Item(t.down, TRUE)) EXCEPT
                         !.t.down = "wait"])
            ELSE Fail(ReleaseLease([State EXCEPT !.t.down = "none"], TRUE)))
  /\ UNCHANGED env

DownDone ==
  /\ \/ t.down \in {"ok", "err"}
     \/ t.down = "wait" /\ t.ctx
  /\ t' = [t EXCEPT !.down = IF t.down = "ok" THEN "poll" ELSE "none"]
  /\ UNCHANGED <<c, w, ses, env>>

Monitor ==
  /\ t.monitor = "wait" /\ (ses.done \/ t.ctx)
  /\ Commit([(IF ses.done THEN Fail(State) ELSE State) EXCEPT
               !.t.monitor = "none"])
  /\ UNCHANGED env

-----------------------------------------------------------------------------
(* The peer, and the rest of the session.                                  *)
PeerSends(m) ==
  /\ c.open /\ env.sent < env.max.sends
  /\ m \in IF env.max.ws /\ env.sent = 0 THEN {"ws"} ELSE env.max.input
  /\ c' = [c EXCEPT !.in = Append(@, m), !.wake = TRUE]
  /\ env' = [env EXCEPT !.sent = @ + 1]
  /\ UNCHANGED <<w, t, ses>>

PeerReads == /\ c.open /\ c.out /\ c' = [c EXCEPT !.out = FALSE]
             /\ UNCHANGED <<w, t, ses, env>>

PeerLeaves == /\ c.open /\ env.max.leave /\ Commit(Closing(State))
              /\ UNCHANGED env

SessionCloses ==
  /\ env.max.sessionEnds /\ ~ses.done
  /\ ses' = [ses EXCEPT !.done = TRUE, !.items = 0, !.bytes = 0]
  /\ UNCHANGED <<c, w, t, env>>

-----------------------------------------------------------------------------
Init ==
  \E m \in Scenarios :
    /\ env = [max |-> m, sent |-> 0]
    /\ c = [open |-> TRUE, closeReq |-> FALSE, in |-> <<>>, out |-> FALSE,
            wake |-> FALSE, active |-> FALSE, draining |-> FALSE,
            closeAfter |-> FALSE, cancel |-> FALSE, lease |-> FALSE,
            dl |-> "header", fired |-> FALSE, drain |-> FALSE,
            pending |-> FALSE, half |-> FALSE]
    /\ w = [pc |-> "none", kind |-> "none", ctx |-> FALSE, lease |-> FALSE]
    /\ t = [phase |-> "none", carrier |-> m.carrier, written |-> FALSE,
            closed |-> FALSE, ctx |-> FALSE, up |-> 0, inbound |-> <<>>,
            results |-> <<>>, frag |-> 0, items |-> 0, bytes |-> 0,
            ctlIn |-> 0, pongs |-> 0, out |-> <<>>, current |-> NoItem,
            writing |-> FALSE, failure |-> FALSE, live |-> "none",
            expired |-> FALSE, pc |-> "none", doing |-> 0,
            code |-> "none", down |-> "none", monitor |-> "none"]
    /\ ses = [done |-> FALSE, slot |-> FALSE, held |-> FALSE, items |-> 0,
              bytes |-> 0]

Worker == \/ \E lease \in BOOLEAN : Serve(lease)
          \/ \E superseded, ok \in BOOLEAN :
               (ok \/ env.max.refuse) /\ Respond(superseded, ok)
          \/ \E err, stuck, closeAfter \in BOOLEAN :
               ResponseWritten(err, stuck, closeAfter)

Timers == DeadlineFires \/ DrainWakeFires \/ LivenessFires
Runnables == DeadlineRuns \/ LivenessRuns \/ CloseRuns

Callbacks == \E err, stuck \in BOOLEAN :
               HandshakeWritten(err, stuck) \/ FrameWritten(err, stuck)

Uplink == \/ \E granted \in BOOLEAN : UplinkTakes(granted)
          \/ \E code \in {"ok", "err"} : UplinkProcessed(code)
          \/ UplinkReports \/ UplinkStops

Downlink == \/ \E type \in {"binary", "ping"} : DownPolls(type)
            \/ DownPollFails \/ DownSends \/ DownDone

Peer == \/ \E m \in Headers \cup {"half", "body", "bin", "part", "fin", "bad"}
                    \cup Control : PeerSends(m)
        \/ PeerReads \/ PeerLeaves \/ SessionCloses

Next == OnTraffic \/ Worker \/ Timers \/ Runnables \/ Callbacks \/ Uplink
        \/ Downlink \/ Monitor \/ Peer

Spec == Init /\ [][Next]_vars
===============================================================================
