--------------------------- MODULE WebSessionProps ---------------------------
(***************************************************************************)
(* The correctness properties of a WEB session, and its instances for TLC. *)
(***************************************************************************)
EXTENDS WebSession

SumOver(f(_), S) == MapThenSumSet(f, S)

LiveLanes == {k \in Objs : \E l \in LaneIDs : s.laneOf[l] = k}

(* The frames a lane retains, acknowledged by nobody yet.                  *)
Frames(k) == s.lane[k].pend \o s.lane[k].unacked

(* The writes stream i retains, the one in the writer's hand included.     *)
Writes(i) == s.st[i].writes \o
             (IF bk[i].busy THEN <<bk[i].hand>> ELSE <<>>)

Inputs == {x \in Ups : up[x].pc # "idle" /\ up[x].size # 0}

WriteCost(w) == Len(w) + ItemCost

(* The pending budget of an open session equals what it really retains:    *)
(* queued and unacknowledged downlink frames, backend writes not yet       *)
(* drained and WebSocket messages in progress.  No path through retries,   *)
(* coalescing, stream close, lane eviction, supersession or a failing      *)
(* batch releases a charge twice (releasePendingLocked would panic) or     *)
(* never; a closed session retains nothing.                                *)
PendingIsRetained ==
  IF s.closed THEN s.cost = 0 /\ s.items = 0
  ELSE /\ s.cost = SumOver(LAMBDA k : Total(Frames(k), CostOf), LiveLanes)
                 + SumOver(LAMBDA i : Total(Writes(i), WriteCost), s.live)
                 + SumOver(LAMBDA x : up[x].size + ItemCost, Inputs)
       /\ s.items = SumOver(LAMBDA k : Len(Frames(k)), LiveLanes)
                  + SumOver(LAMBDA i : Len(Writes(i)), s.live)
                  + Cardinality(Inputs)

-----------------------------------------------------------------------------
(* The peer's batch on the lane of stream i, unless it was applied.        *)
InFlight(i) ==
  LET l == LaneOf(s, i)
      k == s.laneOf[l]
  IN  IF k = 0 \/ s.lane[k].lastUp = cl.seq[l] THEN <<>>
      ELSE SelectSeq(cl.out[l], LAMBDA f : f.id = i)

(* The downlink frames of stream i the peer has not received: an           *)
(* unacknowledged batch counts until the peer's cursor has passed it.      *)
Undelivered(i) ==
  LET l == LaneOf(s, i)
      L == s.lane[s.laneOf[l]]
  IN  SelectSeq(L.pend \o (IF cl.cursor[l] = L.base THEN L.unacked ELSE <<>>),
                LAMBDA f : f.id = i)

Units(f) == Len(f.d)
Deltas(f) == f.n

(* Flow-control credit is conserved on both directions of a live stream:   *)
(* what the sender may still send, what is under way, what the receiver    *)
(* holds and what is being credited back add up to the initial window.  So *)
(* neither a retried batch nor a replayed response creates credit, and no  *)
(* credit is lost that would stall the stream (validateBatchLocked,        *)
(* backendDrained, backendData, the WINDOW merge of queueFrameLocked).     *)
CreditConserved ==
  \A i \in s.live : cl.view[i] = "open" /\ env.bad = 0 =>
    /\ cl.credit[i] + Total(InFlight(i), Units) + s.st[i].bytes
         + Total(Undelivered(i), Deltas) = Window
    /\ bk[i].rd # "done" =>
         s.st[i].credit + Total(Undelivered(i), Units) + cl.due[i]
           + Total(InFlight(i), Deltas) = Window

(* A correct peer is never failed: whatever is retried, superseded or lost,*)
(* the session does not end with a protocol error of its own making.  The  *)
(* one exception is a retry that outlives its stream's tombstone: once     *)
(* MaxClosedStreamIDs later streams were closed, processUp takes the retry *)
(* of an OPEN batch for a reused stream ID.                                *)
HonestPeerIsServed ==
  [][/\ env'.bad = 0 /\ s.reason = "none" /\ s'.reason = "protocol"
     => \E i \in s.used \ (s.live \cup Range(s.tomb)) :
          UsesLanes(s.carrier) /\ cl.out[i] # <<>>]_vars

(* No goroutine sleeps through its wakeup: a poll that could answer, a     *)
(* writer with queued data and a reader with credit and budget have a      *)
(* signal pending (signalPollLocked, writeNotify, creditNotify,            *)
(* budgetNotify).                                                          *)
NoSleeper ==
  /\ \A p \in Polls : poll[p].pc = "wait" /\ p \in s.lane[poll[p].obj].parked
       => s.lane[poll[p].obj].pend = <<>>
  /\ \A i \in s.live :
       /\ bk[i].wr = "park" /\ s.st[i].writes # <<>> => s.st[i].wSig
       /\ bk[i].rd = "park" /\ s.st[i].credit # 0
            /\ DataFrameAllowance(s, 1) # 0
            => s.st[i].cSig \/ i \notin s.budgetWait

-----------------------------------------------------------------------------
(* Every carrier implements the stream service: in-order, exactly-once     *)
(* delivery in both directions over retried uplink batches and replayed    *)
(* downlink batches.                                                       *)
Service == INSTANCE ByteStreams WITH
  sent <- [d \in {"up", "down"} |-> [i \in Streams |->
             IF d = "up" THEN cl.sent[i] ELSE bk[i].read]],
  rcvd <- [d \in {"up", "down"} |-> [i \in Streams |->
             IF d = "up" THEN bk[i].written ELSE cl.got[i]]],
  over <- {i \in Streams : cl.view[i] = "closed"}

(* The session's carriers implement ByteStreams: ProcessUp applies each    *)
(* sequence once and Poll's batches are received once and in order.        *)
ImplementsByteStreams == Service!Spec

-----------------------------------------------------------------------------
(* Instances.                                                              *)
Small == [streams |-> 1, closed |-> 1, body |-> 6, cost |-> 40, items |-> 9,
          batch |-> 2, carrierBatch |-> 4]

(* Nothing but the one carrier request at a time.                          *)
Quiet == [carrier |-> "https", ups |-> {"u1"}, polls |-> {"p1"}, ids |-> {1},
          up |-> 0, down |-> 0, bad |-> 0, refuse |-> 0,
          close |-> FALSE, eof |-> FALSE, dialFail |-> FALSE,
          writeFail |-> FALSE, lose |-> FALSE, reasons |-> {}]

Ends == [Quiet EXCEPT !.close = TRUE, !.reasons = {"client", "expired"}]

(* Both directions on one stream; retried uplink; superseded polls; two    *)
(* streams for one place; lanes with one tombstone; a WebSocket, one whose *)
(* backend fails and one per lane that gets lost; an invalid request.      *)
AllScenarios ==
  {[Quiet EXCEPT !.up = 1, !.down = 1, !.refuse = 1, !.eof = TRUE],
   [Quiet EXCEPT !.up = 3, !.ups = Ups, !.writeFail = TRUE],
   [Quiet EXCEPT !.down = 3, !.polls = Polls],
   [Quiet EXCEPT !.ids = Streams, !.close = TRUE],
   [Quiet EXCEPT !.carrier = "https-lanes", !.ids = Streams, !.close = TRUE],
   [Quiet EXCEPT !.carrier = "websocket", !.up = 1, !.down = 2],
   [Ends EXCEPT !.carrier = "websocket", !.down = 1, !.dialFail = TRUE,
                !.bad = 1],
   [Ends EXCEPT !.carrier = "websocket-lanes", !.down = 1, !.lose = TRUE,
                !.reasons = {"shutdown"}],
   [Quiet EXCEPT !.up = 1, !.bad = 1]}
===============================================================================
