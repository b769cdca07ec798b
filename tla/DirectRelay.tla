------------------------------ MODULE DirectRelay ------------------------------
(***************************************************************************)
(* What follows the handshake: the direct route to a data centre           *)
(* (dc_handler.go, dc_events.go, relay.go, context.go), the splice to the  *)
(* mask host, and the end of a connection (OnClose in handler.go).         *)
(*                                                                         *)
(* Three actors share a client's context: its event loop, the goroutine    *)
(* that dials (and, for a splice, reads the mask host), and the event loop *)
(* of the data centre's connection.  gnet is external: AsyncWrite appends  *)
(* to the high-priority queue of a connection's loop (x.hi), Execute, Wake *)
(* and Close to the low-priority one, which waits until the first is empty.*)
(*                                                                         *)
(* Both directions are stream ciphers.  x.dec counts what the client's     *)
(* decryptor has consumed: piece n comes out right only as the n-th.       *)
(***************************************************************************)
EXTENDS ClientHandshake, Queues

CONSTANTS
  Hard, Soft, Resume,   \* maxWriteBuffer, bpSoftLimit, bpResumeAt
  Batch                 \* the size of a pooled batch buffer

ASSUME BufferAssumption ==
  /\ Hard \in Nat \ {0} /\ Soft = Hard \div 2 /\ Resume = Hard \div 4
  /\ Batch \in Nat \ {0}

Garbage == 0

(* Close from another goroutine, and Wake: nothing once it is closed.      *)
Kill(x) == [x EXCEPT !.kill = @ \/ x.at = "open"]
Wake(x) == [x EXCEPT !.wake = @ \/ x.at = "open"]

(* XORKeyStream over s from position d of the key stream.                  *)
Decrypt(s, d) ==
  [i \in DOMAIN s |-> IF s[i] = d + i THEN s[i] ELSE Garbage]

(* Rate limiting with hysteresis: how much of n a turn processes, and      *)
(* whether the direction is throttled afterwards.  1, 2 and 3 stand for    *)
(* 16, 64 and 256 KB.                                                      *)
MaxProcess(buffered, was, n) ==
  IF buffered > Hard THEN 1 ELSE IF buffered > Soft THEN 2
  ELSE IF was /\ buffered > Resume THEN 3 ELSE n
Throttles(buffered, was) == buffered > Soft \/ (was /\ buffered > Resume)

(* AsyncWrite to the data centre: a connection that is closed drops it.    *)
WriteToDC(u, s) ==
  IF u.at # "open" THEN u
  ELSE [u EXCEPT !.got = @ \o s, !.out = @ + Len(s)]

-----------------------------------------------------------------------------
(* dialDC, a goroutine.                                                    *)
Dialing(c, pc) == cx[c].dial = pc
DialGoes(c, pc) == cx' = [cx EXCEPT ![c].dial = pc]
DialEnds(c) == cx' = [cx EXCEPT ![c] = [Kill(@) EXCEPT !.dial = "done"]]

(* The context is read under its mutex: Cleanup has run, or not.  From     *)
(* here on the ciphers and x.pending are the goroutine's own.              *)
DialStarts(c) ==
  /\ Dialing(c, "start")
  /\ DialGoes(c, IF cx[c].cipher THEN "dial" ELSE "done")
  /\ UNCHANGED <<h, up, env>>

(* directDCDial; then the closed check and the pending context.            *)
Dials(c) ==
  /\ Dialing(c, "dial")
  /\ \/ up' = [up EXCEPT ![c].at = "dialed"] /\ DialGoes(c, "check")
     \/ Fault("dial") /\ DialEnds(c) /\ UNCHANGED up
  /\ UNCHANGED <<h, env>>

DialChecks(c) ==
  /\ Dialing(c, "check")
  /\ IF cx[c].st = "closed"
     THEN /\ DialGoes(c, "done") /\ up' = [up EXCEPT ![c].at = "closed"]
          /\ UNCHANGED h
     ELSE /\ DialGoes(c, "enroll") /\ h' = [h EXCEPT !.pending = @ \cup {c}]
          /\ UNCHANGED up
  /\ UNCHANGED env

(* Enroll: from here on the data centre's event loop runs.                 *)
DialEnrolls(c) ==
  /\ Dialing(c, "enroll")
  /\ \/ /\ up' = [up EXCEPT ![c].at = "open"] /\ DialGoes(c, "context")
        /\ UNCHANGED h
     \/ /\ Fault("enroll") /\ up' = [up EXCEPT ![c].at = "closed"]
        /\ DialEnds(c) /\ h' = [h EXCEPT !.pending = @ \ {c}]
  /\ UNCHANGED env

\* mutant: the pending context is dropped before the context is set
DialSetsContext_Early(c) ==
  /\ Dialing(c, "context")
  /\ h' = [h EXCEPT !.pending = @ \ {c}] /\ DialGoes(c, "forget")
  /\ UNCHANGED <<up, env>>

DialSetsContext(c) ==
  /\ Dialing(c, "context")
  /\ up' = [up EXCEPT ![c].context = TRUE] /\ DialGoes(c, "forget")
  /\ UNCHANGED <<h, env>>

DialForgets(c) ==
  /\ Dialing(c, "forget")
  /\ h' = [h EXCEPT !.pending = @ \ {c}] /\ DialGoes(c, "relay")
  /\ UNCHANGED <<up, env>>

(* SetRelay: two atomic stores; then the registry of the silence sweep.    *)
SetRelay(c) ==
  /\ Dialing(c, "relay")
  /\ cx' = [cx EXCEPT ![c].relay = TRUE, ![c].dial = "state"]
  /\ UNCHANGED <<h, up, env>>

SetRelayState(c) ==
  /\ Dialing(c, "state")
  /\ cx' = [cx EXCEPT ![c].st = "relaying", ![c].dial = "register"]
  /\ UNCHANGED <<h, up, env>>

DialRegisters(c) ==
  /\ Dialing(c, "register") /\ DialGoes(c, "pending")
  /\ h' = IF env.max.silence THEN [h EXCEPT !.relays = @ \cup {c}] ELSE h
  /\ UNCHANGED <<up, env>>

(* sendPendingDataGnet uses the ciphers the event loop uses, too.          *)
SendPendingData(c) ==
  /\ Dialing(c, "pending")
  /\ LET s == cx[c].pending
     IN  /\ up' = [up EXCEPT ![c] = WriteToDC(@, Decrypt(s, cx[c].dec))]
         /\ cx' = [cx EXCEPT ![c].dial = "wake", ![c].dec = @ + Len(s)]
  /\ UNCHANGED <<h, env>>

\* mutant: nobody tells the event loop that the relay is there
DialWakes_Not(c) ==
  /\ Dialing(c, "wake")
  /\ DialGoes(c, "done")
  /\ UNCHANGED <<h, up, env>>

DialWakes(c) ==
  /\ Dialing(c, "wake")
  /\ cx' = [cx EXCEPT ![c] = [Wake(@) EXCEPT !.dial = "done"]]
  /\ UNCHANGED <<h, up, env>>

DialDC(c) ==
  \/ DialStarts(c) \/ Dials(c) \/ DialChecks(c) \/ DialEnrolls(c)
  \/ DialSetsContext(c) \/ DialForgets(c) \/ SetRelay(c) \/ SetRelayState(c)
  \/ DialRegisters(c) \/ SendPendingData(c) \/ DialWakes(c)

-----------------------------------------------------------------------------
(* The client's data: records, of which only application data counts.      *)
NoData == {p \in Pieces : p.k # "data"}
Payload(s) == LET d == Excluding(s, NoData)
              IN  [i \in 1..Len(d) |-> d[i].n]

(* The records of a turn: as many as hold no more than max pieces.         *)
TurnOf(s, max) ==
  SubSeq(s, 1, Max({p \in 0..Len(s) : Len(Payload(SubSeq(s, 1, p))) <= max}))

HandleRelay(c) ==
  /\ Handling(c, "relaying") /\ cx[c].mode = "ee"
  /\ LET x == cx[c]
         turn == TurnOf(x.in, MaxProcess(up[c].out, x.throttled, Len(x.in)))
         s == Payload(turn)
         y == [x EXCEPT !.in = SubSeq(@, Len(turn) + 1, Len(@)),
                        !.throttled = Throttles(up[c].out, @),
                        !.dec = @ + Len(s),
                        !.spoke = IF s = <<>> THEN @ ELSE "client"]
     IN  IF x.in = <<>> THEN Returns(c, x) /\ UNCHANGED up
         ELSE IF \E i \in DOMAIN turn : turn[i].k = "huge"
         THEN Closes(c, x) /\ UNCHANGED up
         ELSE \/ /\ up' = [up EXCEPT ![c] = WriteToDC(@, Decrypt(s, x.dec))]
                 /\ Returns(c, [y EXCEPT !.wake = @ \/ y.in # <<>>])
              \/ s # <<>> /\ Fault("write") /\ Closes(c, y) /\ UNCHANGED up
  /\ UNCHANGED <<h, env>>

(* handleRelayDD.  When there is more than a batch buffer holds, the       *)
(* buffer goes back to the pool and is used all the same: whoever takes it *)
(* next may overwrite what is being sent.                                  *)
HandleRelayDD(c) ==
  /\ Handling(c, "relaying") /\ cx[c].mode = "dd"
  /\ LET x == cx[c]
         limit == Min({MaxProcess(up[c].out, x.throttled, Len(x.in)), Len(x.in)})
         n == Min({limit, Batch})
         s == Decrypt(Payload(SubSeq(x.in, 1, n)), x.dec)
         y == [x EXCEPT !.in = SubSeq(@, n + 1, Len(@)), !.dec = @ + n,
                        !.throttled = Throttles(up[c].out, @),
                        !.spoke = "client"]
     IN  IF x.in = <<>> THEN Returns(c, x) /\ UNCHANGED up
         ELSE \/ /\ \/ up' = [up EXCEPT ![c] = WriteToDC(@, s)]
                    \/ /\ limit > Batch
                       /\ up' = [up EXCEPT ![c] =
                            WriteToDC(@, [i \in DOMAIN s |-> Garbage])]
                 /\ Returns(c, [y EXCEPT !.wake = @ \/ y.in # <<>>])
              \/ Fault("write") /\ Closes(c, y) /\ UNCHANGED up
  /\ UNCHANGED <<h, env>>

-----------------------------------------------------------------------------
(* The data centre's event loop.  Its context comes from the connection or *)
(* from the map of pending ones.                                           *)
GetDCContext(c) == up[c].context \/ c \in h.pending

(* OnClose of the data centre's connection closes the client's.            *)
DCOnClose(c) ==
  /\ up' = [up EXCEPT ![c].at = "closed"]
  /\ cx' = [cx EXCEPT ![c] = IF GetDCContext(c) THEN Kill(@) ELSE @]

(* AsyncWrite to the client.                                               *)
WriteToClient(x, s) ==
  IF x.at # "open" THEN x ELSE [x EXCEPT !.hi = Append(@, s)]

(* handleDCTraffic, with and without TLS records around the data.          *)
HandleDCTraffic(c) ==
  /\ up[c].at = "open" /\ up[c].wake
  /\ LET u == up[c]
         x == cx[c]
         n == Min({MaxProcess(x.out, u.throttled, Len(u.in)), Len(u.in)})
         rest == SubSeq(u.in, n + 1, Len(u.in))
     IN  IF ~GetDCContext(c) \/ x.st = "closed" THEN DCOnClose(c)
         ELSE \/ /\ up' = [up EXCEPT ![c].in = rest, ![c].wake = rest # <<>>,
                                     ![c].throttled = Throttles(x.out, @)]
                 /\ cx' = [cx EXCEPT ![c] =
                      [WriteToClient(x, SubSeq(u.in, 1, n)) EXCEPT !.spoke =
                         IF @ = "nobody" THEN @ ELSE "server"]]
              \/ Fault("write") /\ DCOnClose(c)
  /\ UNCHANGED <<h, env>>

(* The connection is closed by the client's side or by the data centre.    *)
DCCloses(c) ==
  /\ up[c].at = "open" /\ ~cx[c].spliced
  /\ up[c].kill \/ env.max.eof
  /\ DCOnClose(c)
  /\ UNCHANGED <<h, env>>

(* The other end sends and reads.                                          *)
UpstreamSends(c) ==
  /\ up[c].at = "open" /\ up[c].sent < env.max.answers
  /\ up' = [up EXCEPT ![c].sent = @ + 1, ![c].wake = ~cx[c].spliced,
                      ![c].in = Append(@, up[c].sent + 1)]
  /\ UNCHANGED <<h, cx, env>>

DCReads(c) ==
  /\ up[c].at = "open" /\ up[c].out > 0
  /\ up' = [up EXCEPT ![c].out = 0]
  /\ UNCHANGED <<h, cx, env>>

-----------------------------------------------------------------------------
(* The client's event loop runs the first write that is queued; a socket   *)
(* with nothing buffered may take it at once.  For a splice the callback   *)
(* samples the buffer (completeSpliceWrite).                               *)
LoopIdle(c) == cx[c].at = "open" /\ ~cx[c].run

WriteRuns(c, direct) ==
  /\ LoopIdle(c) /\ cx[c].hi # <<>> /\ (direct => cx[c].out = 0)
  /\ LET x == cx[c]
         s == Head(x.hi)
         out == IF direct THEN 0 ELSE x.out + Len(s)
     IN  cx' = [cx EXCEPT ![c] =
           [x EXCEPT !.hi = Tail(@), !.got = @ \o s, !.out = out,
                     !.flow = IF x.spliced THEN @ - Len(s) ELSE @,
                     !.sampled = IF x.spliced THEN out ELSE @]]
  /\ UNCHANGED <<h, up, env>>

ClientReads(c) ==
  /\ LoopIdle(c) /\ cx[c].out > 0
  /\ cx' = [cx EXCEPT ![c].out = @ - 1]
  /\ UNCHANGED <<h, up, env>>

(* OnTick: a server's answer the client leaves unanswered for too long.    *)
OnTick(c) ==
  /\ env.max.silence /\ c \in h.relays /\ cx[c].spoke = "server"
  /\ h' = [h EXCEPT !.relays = @ \ {c}]
  /\ cx' = [cx EXCEPT ![c] = Kill(@)]
  /\ UNCHANGED <<up, env>>

-----------------------------------------------------------------------------
(* dialSplice, a goroutine.                                                *)
SpliceStarts(c) ==
  /\ Dialing(c, "splice")
  /\ DialGoes(c, IF cx[c].st = "closed" THEN "done" ELSE "splice dial")
  /\ UNCHANGED <<h, up, env>>

SpliceDials(c) ==
  /\ Dialing(c, "splice dial")
  /\ \/ up' = [up EXCEPT ![c].at = "dialed"] /\ DialGoes(c, "splice check")
     \/ Fault("dial") /\ DialEnds(c) /\ UNCHANGED up
  /\ UNCHANGED <<h, env>>

SpliceFails(c) == DialEnds(c) /\ up' = [up EXCEPT ![c].at = "closed"]

(* The closed check and the PROXY header.                                  *)
SpliceChecks(c) ==
  /\ Dialing(c, "splice check")
  /\ \/ /\ cx[c].st = "closed" /\ DialGoes(c, "done")
        /\ up' = [up EXCEPT ![c].at = "closed"]
     \/ cx[c].st # "closed" /\ DialGoes(c, "peek") /\ UNCHANGED up
     \/ cx[c].st # "closed" /\ Fault("splice") /\ SpliceFails(c)
  /\ UNCHANGED <<h, env>>

(* The client's input is peeked at before the connection is published and  *)
(* discarded after it, while the event loop may take it, too.              *)
SplicePeeks(c) ==
  /\ Dialing(c, "peek")
  /\ cx' = [cx EXCEPT ![c].snap = Len(cx[c].in), ![c].dial = "publish"]
  /\ UNCHANGED <<h, up, env>>

SetSpliceConn(c) ==
  /\ Dialing(c, "publish")
  /\ cx' = [cx EXCEPT ![c].spliced = TRUE, ![c].dial = "discard"]
  /\ up' = [up EXCEPT ![c].at = "open"]
  /\ UNCHANGED <<h, env>>

SpliceDiscards(c) ==
  /\ Dialing(c, "discard")
  /\ \/ /\ cx' = [cx EXCEPT ![c].in = SubSeq(@, cx[c].snap + 1, Len(@)),
                            ![c].snap = 0, ![c].dial = "reader"]
        /\ UNCHANGED up
     \/ cx[c].snap > 0 /\ Fault("splice") /\ SpliceFails(c)
  /\ UNCHANGED <<h, env>>

DialSplice(c) ==
  \/ SpliceStarts(c) \/ SpliceDials(c) \/ SpliceChecks(c) \/ SplicePeeks(c)
  \/ SetSpliceConn(c) \/ SpliceDiscards(c)

(* relaySpliceToClientLoop.  flow: submitted and not yet written; sampled: *)
(* what gnet had buffered when it was last asked.                          *)
SpliceBufferedBytes(x) == x.flow + x.sampled
ReaderEnds(c, x) ==
  /\ cx' = [cx EXCEPT ![c] = [x EXCEPT !.dial = "done"]]
  /\ up' = [up EXCEPT ![c].at = "closed"]

(* beginSpliceClientDrain.                                                 *)
DrainRequested(x) == [x EXCEPT !.drain = "requested"]

ReaderReads(c) ==
  LET x == cx[c]
      u == up[c]
  IN  \/ \E n \in 1..Len(u.in) :
           /\ up' = [up EXCEPT ![c].in = SubSeq(@, n + 1, Len(@))]
           /\ cx' = [cx EXCEPT ![c] =
                [WriteToClient(x, SubSeq(u.in, 1, n)) EXCEPT !.flow = @ + n]]
      \/ u.in # <<>> /\ Fault("write") /\ ReaderEnds(c, Kill(x))
      \/ /\ u.in = <<>> /\ env.max.eof /\ u.sent = env.max.answers
         /\ ReaderEnds(c, IF x.at = "open" THEN DrainRequested(x) ELSE x)
      \/ (u.at = "closed" \/ Fault("read")) /\ ReaderEnds(c, Kill(x))

Reader(c) ==
  /\ Dialing(c, "reader")
  /\ LET x == cx[c]
         buffered == SpliceBufferedBytes(x)
     IN  IF x.st = "closed" THEN ReaderEnds(c, x)
         ELSE IF buffered > Hard THEN ReaderEnds(c, Kill(x))
         ELSE IF buffered > Soft
         THEN /\ cx' = [cx EXCEPT ![c].dial = "throttled", ![c].sample = TRUE]
              /\ UNCHANGED up
         ELSE ReaderReads(c)
  /\ UNCHANGED <<h, env>>

(* Resumed by the signal, or 50 ms later.                                  *)
ReaderResumes(c) ==
  /\ Dialing(c, "throttled") /\ DialGoes(c, "reader")
  /\ UNCHANGED <<h, up, env>>

(* The runnable of sampleSpliceBuffer, on the low-priority queue.          *)
LowPriority(c) == LoopIdle(c) /\ cx[c].hi = <<>>

SampleSpliceBuffer(c) ==
  /\ LowPriority(c) /\ cx[c].sample
  /\ cx' = [cx EXCEPT ![c].sample = FALSE, ![c].sampled = cx[c].out]
  /\ UNCHANGED <<h, up, env>>

-----------------------------------------------------------------------------
(* The drain after a clean end of the mask host: no, requested, draining,  *)
(* then done, expired or cancelled.                                        *)
FinishSpliceDrain(x, how) ==
  [x EXCEPT !.drain = how, !.wakeTimer = FALSE, !.deadline = "off"]

\* mutant: whatever gnet has buffered is taken as flushed
HandleSpliceDrain_NoWait(c, x) ==
  IF x.drain # "draining" THEN Returns(c, [x EXCEPT !.in = <<>>])
  ELSE Closes(c, FinishSpliceDrain(x, "done"))

HandleSpliceDrain(c, x) ==
  LET y == [x EXCEPT !.in = <<>>]
  IN  IF x.drain # "draining" THEN Returns(c, y)
      ELSE IF x.out # 0 THEN Returns(c, [y EXCEPT !.wakeTimer = TRUE])
      ELSE Closes(c, FinishSpliceDrain(y, "done"))

HandleSplice(c) ==
  /\ Handling(c, "splicing")
  /\ LET x == cx[c]
     IN  IF x.drain # "no" THEN HandleSpliceDrain(c, x)
         ELSE IF ~x.spliced \/ x.in = <<>> THEN Returns(c, x)
         ELSE \/ Returns(c, [x EXCEPT !.in = <<>>]) /\ up[c].at = "open"
              \/ Closes(c, x) /\ (up[c].at = "closed" \/ Fault("splice"))
  /\ UNCHANGED <<h, up, env>>

(* The runnable of beginSpliceClientDrain.                                 *)
BeginSpliceDrain(c) ==
  /\ LowPriority(c) /\ cx[c].drain = "requested"
  /\ HandleSpliceDrain(c, [cx[c] EXCEPT !.drain = "draining",
                                        !.deadline = "armed"])
  /\ UNCHANGED <<h, up, env>>

(* The timers: the next look, and the deadline with its runnable.          *)
DrainWakes(c) ==
  /\ cx[c].wakeTimer
  /\ cx' = [cx EXCEPT ![c] = [Wake(@) EXCEPT !.wakeTimer = FALSE]]
  /\ UNCHANGED <<h, up, env>>

DeadlineFires(c) ==
  /\ cx[c].deadline = "armed"
  /\ cx' = [cx EXCEPT ![c].deadline = "queued"]
  /\ UNCHANGED <<h, up, env>>

DeadlineRuns(c) ==
  /\ LowPriority(c) /\ cx[c].deadline = "queued"
  /\ Closes(c, FinishSpliceDrain(cx[c], "expired"))
  /\ UNCHANGED <<h, up, env>>

-----------------------------------------------------------------------------
(* OnClose, for gnet.Close, a queued Close or a client that leaves.  The   *)
(* state goes first ...                                                    *)
CloseBegins(c) ==
  /\ \/ cx[c].at = "closing"
     \/ LowPriority(c) /\ cx[c].kill
     \/ LoopIdle(c) /\ env.max.leave
  /\ h' = [h EXCEPT !.active = @ - 1, !.relays = @ \ {c}]
  /\ LET x == cx[c]
         y == FinishSpliceDrain(x, IF x.drain \in {"requested", "draining"}
                                   THEN "cancelled" ELSE x.drain)
     IN  cx' = [cx EXCEPT ![c] =
           [y EXCEPT !.at = "ending", !.st = "closed", !.kill = FALSE,
                     !.wake = FALSE, !.in = <<>>, !.hi = <<>>, !.out = 0,
                     !.sample = FALSE]]
  /\ UNCHANGED <<up, env>>

(* ... then the other side is closed, the limits are released, and Cleanup *)
(* takes the ciphers away.                                                 *)
CloseEnds(c) ==
  /\ cx[c].at = "ending"
  /\ up' = [up EXCEPT ![c].kill = @ \/ cx[c].relay,
                      ![c].at = IF cx[c].spliced THEN "closed" ELSE @]
  /\ h' = UserRelease(Release(Release(h, cx[c].ipKey), cx[c].secretKey),
                      cx[c].user)
  /\ cx' = [cx EXCEPT ![c].at = "closed", ![c].cipher = FALSE,
              ![c].ipKey = NoKey, ![c].secretKey = NoKey, ![c].user = NoIP,
              ![c].timer = FALSE]
  /\ UNCHANGED env

-----------------------------------------------------------------------------
Turn(c) == Handshakes(c) \/ HandleRelay(c) \/ HandleRelayDD(c) \/ HandleSplice(c)
Queued(c) ==
  \/ \E direct \in BOOLEAN : WriteRuns(c, direct)
  \/ SampleSpliceBuffer(c) \/ BeginSpliceDrain(c) \/ DeadlineRuns(c)
Goroutine(c) == DialDC(c) \/ DialSplice(c) \/ Reader(c) \/ ReaderResumes(c)
Peers(c) == ClientSends(c) \/ ClientReads(c) \/ UpstreamSends(c) \/ DCReads(c)

Next ==
  \/ \E c \in Conns :
       \/ OnOpen(c) \/ OnTraffic(c) \/ Turn(c) \/ Queued(c) \/ Goroutine(c)
       \/ HandleDCTraffic(c) \/ DCCloses(c) \/ CloseBegins(c) \/ CloseEnds(c)
       \/ HandshakeTimeout(c) \/ OnTick(c) \/ DrainWakes(c)
       \/ DeadlineFires(c) \/ Peers(c)
  \/ (\E ip \in IPs : BlockExpires(ip)) \/ \E s \in h.seen : SessionExpires(s)

Spec == Init /\ [][Next]_vars
===============================================================================
