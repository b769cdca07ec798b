------------------------------- MODULE MCWebConn -------------------------------
(***************************************************************************)
(* One carrier connection in its HTTP and its WebSocket phases, and what   *)
(* makes it correct.                                                       *)
(***************************************************************************)
EXTENDS HttpConnection

(* Fairness: the event loop and the goroutines keep running, timers fire,  *)
(* serve, ProcessUp and PollCarrier return (each is bounded by a timeout). *)
(* The peer has to do nothing.  Each conjunct is WF_vars(A) with           *)
(* ENABLED <<A>>_vars written out as the guard of A.                       *)
TrafficDue  == c.open /\ c.wake
DeadlineSet == c.open /\ c.dl # "none" /\ ~c.fired
WriteDue    == c.open /\ (t.writing \/ (t.phase = "handshake" /\ ~t.written))
UplinkDue   == \/ t.pc \in {"process", "report"}
               \/ t.pc = "take" /\ (t.inbound # <<>> \/ t.ctx)
DownDue     == t.down # "none" /\ (t.down = "wait" => t.ctx)
MonitorDue  == t.monitor = "wait" /\ (ses.done \/ t.ctx)

FairSpec ==
  /\ Spec
  /\ []<>~TrafficDue \/ []<><<OnTraffic>>_vars
  /\ []<>~(w.pc # "none") \/ []<><<Worker>>_vars
  /\ []<>~DeadlineSet \/ []<><<DeadlineFires>>_vars
  /\ []<>~(c.open /\ c.fired) \/ []<><<DeadlineRuns>>_vars
  /\ []<>~(c.open /\ c.drain) \/ []<><<DrainWakeFires>>_vars
  /\ []<>~(c.open /\ t.live = "armed") \/ []<><<LivenessFires>>_vars
  /\ []<>~(c.open /\ t.live = "queued") \/ []<><<LivenessRuns>>_vars
  /\ []<>~(c.open /\ c.closeReq) \/ []<><<CloseRuns>>_vars
  /\ []<>~WriteDue \/ []<><<Callbacks>>_vars
  /\ []<>~UplinkDue \/ []<><<Uplink>>_vars
  /\ []<>~DownDue \/ []<><<Downlink>>_vars
  /\ []<>~MonitorDue \/ []<><<Monitor>>_vars

(* Whatever the connection holds of its session has an owner that will     *)
(* give it back: the downlink slot (a PollLease, from PollCarrier until    *)
(* the response or frame has drained), the input budget (from the decoder  *)
(* until the uplink worker is done with the message), the WebSocket lane.  *)
(* After OnClose only goroutines that are still running own anything.      *)
ClaimsHaveOwners ==
  /\ ses.slot => \/ c.open /\ c.lease
                 \/ w.pc # "none" /\ w.lease
                 \/ t.down \in {"binary", "ping"}
                 \/ c.open /\ (t.current.lease \/ \E i \in Range(t.out) : i.lease)
  /\ ses.held => c.open /\ t.phase # "none"
  /\ t.bytes = Sizes(t.inbound) + t.doing + t.frag
  /\ t.items = Len(t.inbound) + One(t.doing) + One(t.frag)
  /\ ~ses.done => ses.bytes = t.bytes /\ ses.items = t.items
  /\ ~c.open => t.inbound = <<>> /\ t.frag = 0

(* No wake-up is lost between the workers, the write callbacks, the drain  *)
(* timer and the event loop, which handles one message per callback: input *)
(* it has buffered, a result, a failure or a queued item is always followed*)
(* by a callback.                                                          *)
NoLostWake ==
  c.open =>
    /\ t.failure \/ t.results # <<>> => c.wake
    /\ t.out # <<>> /\ t.current = NoItem => c.wake
    /\ t.current # NoItem => t.writing \/ c.wake \/ c.drain
    /\ c.draining => c.wake \/ c.drain
    /\ c.in # <<>> => \/ c.wake \/ c.drain \/ c.closeReq
                      \/ c.active /\ w.pc # "none"
                      \/ t.phase = "open" /\ t.up > 0 /\ t.pc # "none"
                      \/ t.phase = "closing"

(* A peer that stops sending is dropped in the end, whether or not it      *)
(* reads, and nothing of the connection keeps running.                     *)
SilentPeerIsDropped ==
  <>(/\ ~c.open /\ w.pc = "none" /\ t.pc = "none" /\ t.down = "none"
     /\ t.monitor = "none")

-----------------------------------------------------------------------------
Calm == [ws |-> FALSE, carrier |-> "lane", input |-> {}, sends |-> 0,
         leave |-> FALSE, sessionEnds |-> FALSE, refuse |-> FALSE]

HttpLoad == [Calm EXCEPT !.input = {"up", "body", "down", "reject", "half"},
                         !.sends = 3]

ConnScenarios ==
  {HttpLoad,
   [HttpLoad EXCEPT !.input = {"up", "body", "down"}, !.sends = 3,
                    !.leave = TRUE, !.refuse = TRUE, !.sessionEnds = TRUE],
   [Calm EXCEPT !.ws = TRUE, !.input = {"bin", "part", "fin"}, !.sends = 4],
   [Calm EXCEPT !.ws = TRUE, !.input = {"bin", "ping"}, !.sends = 4],
   [Calm EXCEPT !.ws = TRUE, !.input = {"bin", "pong", "close", "bad"}, !.sends = 3,
                !.carrier = "multiplex", !.leave = TRUE, !.refuse = TRUE,
                !.sessionEnds = TRUE]}
===============================================================================
