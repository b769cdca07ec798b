--------------------------- MODULE MiddleEndFrontend ---------------------------
(***************************************************************************)
(* The Middle-End branch of the public proxy                               *)
(* (pkg/gproxy/middleend_frontend.go, middleend_budget.go): clients on     *)
(* gnet event loops, the dispatcher that hands the source's ready tokens   *)
(* to their routes, the output retry timers, and the shared budgets of     *)
(* retained input and output.                                              *)
(*                                                                         *)
(* f is the frontend, cl its clients, src the binding source (external to  *)
(* the frontend; its tokens behave as in BindingManager).  Each client has *)
(* its own event loop; a turn of handleMiddleEnd is several steps, because *)
(* the source, the dispatcher and other clients run in between.            *)
(***************************************************************************)
EXTENDS FiniteSetsExt, SequencesExt, Queues

CONSTANTS
  Clients,        \* a set of integers: the connection ID breaks ties
  MaxEncoded,     \* middleEndMaxEncodedResponse
  MaxWrite,       \* the handler's maxWriteBuffer
  MaxInput,       \* MaxPendingClientBytes
  InputTotal,     \* MaxPendingClientBytesTotal
  OutputTotal,    \* MaxPendingOutputBytesTotal
  Scenarios       \* see Quiet

VARIABLES f, cl, src, env

vars == <<f, cl, src, env>>

(* MiddleEndFrontendConfig.validate and NewProxyHandlerWithMiddleEnd.      *)
ASSUME ConfigAssumption ==
  /\ Clients \subseteq Int /\ IsFiniteSet(Clients)
  /\ {MaxEncoded, MaxWrite, MaxInput, InputTotal, OutputTotal} \subseteq Nat \ {0}
  /\ MaxWrite >= MaxEncoded /\ OutputTotal >= MaxEncoded
  /\ InputTotal >= MaxInput

(* How commit may go (Commit).                                             *)
ASSUME ScenarioAssumption ==
  \A m \in Scenarios :
    m.setup \subseteq {"ok", "invalid", "no dc", "bad address"}

-----------------------------------------------------------------------------
(* The source: per client its binding, the queue of ready bindings and the *)
(* coalesced Ready channel.                                                *)
NewBinding ==
  [bound |-> FALSE, closed |-> FALSE, ev |-> <<>>, res |-> "none",
   req |-> "none", term |-> "none", observed |-> FALSE, leased |-> FALSE,
   mode |-> FALSE]

NewSource == [b |-> [c \in Clients |-> NewBinding], q |-> <<>>,
              sig |-> FALSE, done |-> FALSE]

HasReason(b) ==
  b.ev # <<>> \/ b.res # "none" \/ b.req = "reserved"
  \/ (b.term # "none" /\ ~b.observed)

EnqueueReady(S, c) ==
  IF S.b[c].leased \/ Contains(S.q, c) \/ ~HasReason(S.b[c]) THEN S
  ELSE [S EXCEPT !.q = Append(@, c), !.sig = TRUE]

(* unlinkReadyLocked signals again for what stays queued.                  *)
UnlinkReady(S, c) ==
  IF ~Contains(S.q, c) THEN S
  ELSE LET rest == Excluding(S.q, {c})
       IN  [S EXCEPT !.q = rest, !.sig = @ \/ rest # <<>>]

InvalidateReady(S, c) == [UnlinkReady(S, c) EXCEPT !.b[c].leased = FALSE]

Ack(S, c) == EnqueueReady([S EXCEPT !.b[c].leased = FALSE], c)

BeginClose(S, c) ==
  InvalidateReady([S EXCEPT !.b[c].closed = TRUE, !.b[c].ev = <<>>,
                            !.b[c].res = "none", !.b[c].req = "none",
                            !.b[c].observed = TRUE], c)

-----------------------------------------------------------------------------
(* A client connection: its route, its buffers and its turn.               *)
NewClient ==
  [stage |-> "new", route |-> FALSE, token |-> FALSE, pc |-> "idle",
   wake |-> FALSE, kill |-> FALSE, inb |-> <<>>, waiting |-> FALSE,
   await |-> FALSE, drain |-> FALSE, out |-> 0, inAcc |-> 0, outAcc |-> 0,
   held |-> 0, processed |-> FALSE, evicting |-> FALSE, timer |-> FALSE,
   deadline |-> "none"]

NewFrontend == [inBud |-> 0, outBud |-> 0, pc |-> "select", at |-> 0,
                stopped |-> FALSE, fallbacks |-> {}]

(* A scenario: packets the clients may send and events the source may      *)
(* deliver, in number and kind, whether requests may wait or be rejected,  *)
(* and how setup and service may end.                                      *)
Quiet == [packets |-> {"pkt"}, sends |-> 0, events |-> {"answer"},
          answers |-> 0, waits |-> FALSE, reject |-> FALSE,
          leave |-> FALSE, setup |-> {"ok"}, terms |-> {}, done |-> FALSE,
          stop |-> FALSE, fallback |-> TRUE]

Init ==
  \E m \in Scenarios :
    /\ f = NewFrontend /\ src = NewSource
    /\ cl = [c \in Clients |-> NewClient]
    /\ env = [max |-> m, sent |-> 0, answered |-> 0]

Retained(x) == Len(x.inb) + (IF x.waiting THEN 1 ELSE 0)

\* mutant: the reservation is kept on top of what was written
OutputDelta_Kept(x, reservation) == x.out - x.outAcc

(* reconcileInput, reconcileOutput and releaseBudgets: a client's share of *)
(* a budget follows what it retains.                                       *)
InputDelta(x) == Retained(x) - x.inAcc
OutputDelta(x, reservation) == x.out - x.outAcc - reservation

(* armOutputRetry and resetOutputProgress.                                 *)
ArmRetry(x) == [x EXCEPT !.timer = TRUE]
ResetProgress(x) == [x EXCEPT !.deadline = "none", !.timer = FALSE]

(* The rest of refreshOutput: progress moves the deadline.                 *)
Refreshed(x) ==
  LET y == [x EXCEPT !.outAcc = x.out]
  IN  IF x.out = 0 THEN ResetProgress(y)
      ELSE ArmRetry([y EXCEPT !.deadline =
             IF @ = "none" \/ x.out < x.outAcc THEN "set" ELSE @])
Stalled(x) == x.out # 0 /\ x.out >= x.outAcc /\ x.deadline = "passed"

(* OnClose: closeMiddleEnd and clearOwnerState, or closeDirectFallback.    *)
OnClose(F, C, S, c) ==
  [f |-> [F EXCEPT !.inBud = @ - C[c].inAcc,
                   !.outBud = @ - C[c].outAcc - C[c].held,
                   !.fallbacks = @ \ {c}],
   cl |-> [C EXCEPT ![c] = [NewClient EXCEPT !.stage = "closed"]],
   src |-> IF C[c].route THEN BeginClose(S, c) ELSE S]

Closes(F, C, S, c) ==
  LET r == OnClose(F, C, S, c)
  IN  f' = r.f /\ cl' = r.cl /\ src' = r.src /\ UNCHANGED env

-----------------------------------------------------------------------------
CommitDirectFallback(F, c) == [F EXCEPT !.fallbacks = @ \cup {c}]

(* commitAuthenticatedRoute.  how: the part of commit that decides.        *)
PrecommitFails(c) ==
  IF env.max.fallback
  THEN /\ f' = CommitDirectFallback(f, c)
       /\ cl' = [cl EXCEPT ![c].stage = "direct"]
       /\ UNCHANGED <<src, env>>
  ELSE Closes(f, cl, src, c)

Commit(c, how) ==
  /\ cl[c].stage = "new" /\ how \in env.max.setup
  /\ LET x == cl[c]
         room == f.inBud + InputDelta(x) <= InputTotal
     IN  IF how = "invalid" \/ Retained(x) > MaxInput \/ ~room \/ src.done
            \/ how = "no dc"
         THEN PrecommitFails(c)
         ELSE /\ f' = [f EXCEPT !.inBud = @ + InputDelta(x)]
              /\ src' = [src EXCEPT !.b[c].bound = TRUE]
              /\ cl' = [cl EXCEPT ![c] =
                   [x EXCEPT !.stage = IF how = "bad address" THEN "unroute"
                                       ELSE "me",
                             !.route = (how = "ok"), !.wake = (how = "ok"),
                             !.inAcc = Retained(x)]]
              /\ UNCHANGED env

\* mutant: a bound client whose link has no source address falls back
CommitUnroutes_FallsBack(c) ==
  /\ cl[c].stage = "unroute"
  /\ f' = [f EXCEPT !.inBud = @ - cl[c].inAcc, !.fallbacks = @ \cup {c}]
  /\ cl' = [cl EXCEPT ![c] = [NewClient EXCEPT !.stage = "direct"]]
  /\ src' = BeginClose(src, c)
  /\ UNCHANGED env

(* The binding's link has no usable source address: the bound client is    *)
(* closed and never falls back to a direct route.                          *)
CommitUnroutes(c) ==
  /\ cl[c].stage = "unroute"
  /\ LET r == OnClose(f, cl, src, c)
     IN  f' = r.f /\ cl' = r.cl
  /\ src' = BeginClose(src, c)
  /\ UNCHANGED env

-----------------------------------------------------------------------------
(* The dispatcher.                                                         *)
Wakes(C, S) == [c \in Clients |-> IF c \in S THEN [C[c] EXCEPT !.wake = TRUE]
                                  ELSE C[c]]

RunDrains ==
  /\ f.pc = "select" /\ src.sig
  /\ f' = [f EXCEPT !.pc = "drain"]
  /\ src' = [src EXCEPT !.sig = FALSE]
  /\ UNCHANGED <<cl, env>>

(* A route takes one token at a time, until it is retired.                 *)
Offered(x) == x.route /\ ~x.token

(* One critical section of drainReady: lease, look up, offer.              *)
DrainReady ==
  /\ f.pc = "drain"
  /\ IF src.q = <<>> THEN f' = [f EXCEPT !.pc = "select"] /\ UNCHANGED <<cl, src>>
     ELSE LET c == Head(src.q)
              offered == Offered(cl[c])
          IN  /\ src' = [UnlinkReady(src, c) EXCEPT !.b[c].leased = TRUE]
              /\ cl' = IF offered THEN [cl EXCEPT ![c].token = TRUE] ELSE cl
              /\ f' = [f EXCEPT !.pc = IF offered THEN "wake" ELSE "ack",
                                !.at = c]
  /\ UNCHANGED env

DrainWakes ==
  /\ f.pc = "wake"
  /\ cl' = IF cl[f.at].stage = "closed" THEN cl ELSE Wakes(cl, {f.at})
  /\ f' = [f EXCEPT !.pc = "drain", !.at = 0]
  /\ UNCHANGED <<src, env>>

DrainAcks ==
  /\ f.pc = "ack"
  /\ src' = IF src.b[f.at].leased THEN Ack(src, f.at) ELSE src
  /\ f' = [f EXCEPT !.pc = "select", !.at = 0]
  /\ UNCHANGED <<cl, env>>

RunEnds ==
  /\ f.pc = "select" /\ (src.done \/ f.stopped)
  /\ f' = [f EXCEPT !.pc = "ended"]
  /\ cl' = IF src.done THEN Wakes(cl, {c \in Clients : cl[c].route}) ELSE cl
  /\ UNCHANGED <<src, env>>

Stop ==
  /\ ~f.stopped /\ env.max.stop
  /\ f' = [f EXCEPT !.stopped = TRUE]
  /\ UNCHANGED <<cl, src, env>>

-----------------------------------------------------------------------------
(* A turn of handleMiddleEnd.                                              *)
Goes(c, x) == cl' = [cl EXCEPT ![c] = x] /\ UNCHANGED env
Idles(c, x) == Goes(c, [x EXCEPT !.pc = "idle", !.processed = FALSE])

(* continueOrderlyClose, for what is left to write.                        *)
OrderlyCloses(x) == x.out = 0 \/ x.deadline = "passed"
Waits(x) ==
  ArmRetry([x EXCEPT !.deadline = IF @ = "none" THEN "set" ELSE @])

(* Budgets, bounds, an orderly close under way, a source that is done.     *)
TurnBegins(c) ==
  /\ cl[c].stage = "me" /\ cl[c].pc = "idle" /\ cl[c].wake
  /\ LET x == [cl[c] EXCEPT !.wake = FALSE]
         F == [f EXCEPT !.inBud = @ + InputDelta(x)]
         y == [x EXCEPT !.inAcc = Retained(x)]
         G == [F EXCEPT !.outBud = @ + OutputDelta(y, 0)]
         z == Refreshed(y)
         full == F.inBud > InputTotal
     IN  IF full THEN Closes(F, [cl EXCEPT ![c] = y], src, c)
         ELSE IF \/ Stalled(y) \/ Len(x.inb) > MaxInput
                 \/ x.drain /\ OrderlyCloses(z)
                 \/ ~x.drain /\ src.done
         THEN Closes(G, [cl EXCEPT ![c] = z], src, c)
         ELSE /\ f' = G /\ UNCHANGED src
              /\ IF x.drain THEN Idles(c, Waits(z))
                 ELSE Goes(c, [z EXCEPT !.pc = IF z.token THEN "token"
                                               ELSE "packet"])

(* finishToken.                                                            *)
FinishToken(S, c) == Ack(S, c)

(* What follows a token: the next packet, unless a result is awaited.      *)
AfterToken(x) ==
  [x EXCEPT !.token = FALSE, !.pc = IF x.await THEN "idle" ELSE "packet",
            !.processed = FALSE]

(* The terminal state, seen only once nothing else is retained.            *)
Terminal(b) == b.term # "none" /\ b.ev = <<>> /\ b.res = "none"
               /\ b.req = "none"

(* Reservation, result and terminal.                                       *)
TokenReasons(c) ==
  /\ cl[c].pc = "token"
  /\ LET x == cl[c]
         b == src.b[c]
         reserved == b.req = "reserved"
         y == [x EXCEPT !.waiting = IF reserved THEN FALSE ELSE @,
                        !.await = IF b.res = "ok" THEN FALSE ELSE @,
                        !.processed = reserved \/ b.res = "ok"]
         S == [src EXCEPT !.b[c].req = IF reserved THEN "queued" ELSE @,
                          !.b[c].res = "none"]
         T == FinishToken([S EXCEPT !.b[c].observed = TRUE], c)
     IN  IF ~b.leased \/ (reserved /\ ~x.waiting) \/ b.res = "rejected"
         THEN Closes(f, cl, src, c)
         ELSE IF ~Terminal(S.b[c])
         THEN Goes(c, [y EXCEPT !.pc = "output"]) /\ src' = S /\ UNCHANGED f
         ELSE IF b.term = "err" \/ OrderlyCloses(y)
         THEN Closes(f, cl, T, c)
         ELSE /\ Goes(c, AfterToken(Waits([y EXCEPT !.drain = TRUE])))
              /\ src' = T /\ UNCHANGED f

(* The client with the most output retained; the smallest connection ID    *)
(* breaks ties.                                                            *)
Candidates == {d \in Clients : cl[d].route /\ cl[d].outAcc > 0
                               /\ ~cl[d].evicting}
Victim ==
  LET most == {d \in Candidates : \A e \in Candidates :
                                    cl[e].outAcc <= cl[d].outAcc}
  IN  Min(most)

(* reserveOutput has room for one response of any size.                    *)
OutputFits == MaxEncoded <= OutputTotal - f.outBud

\* mutant: without headroom the client waits for its next wake-up only
TokenOutput_NoRetry(c) ==
  /\ cl[c].pc = "output"
  /\ LET x == cl[c]
         head == x.out <= MaxWrite - MaxEncoded
     IN  IF head /\ OutputFits
         THEN /\ f' = [f EXCEPT !.outBud = @ + MaxEncoded]
              /\ Goes(c, [x EXCEPT !.pc = "event", !.held = MaxEncoded])
              /\ UNCHANGED src
         ELSE IF x.processed
         THEN /\ src' = FinishToken(src, c) /\ UNCHANGED f
              /\ Goes(c, AfterToken(x))
         ELSE Idles(c, x) /\ UNCHANGED <<f, src>>

(* Headroom in the connection and in the shared budget; a client that has  *)
(* to wait keeps its token, and pressure evicts the largest client.        *)
TokenOutput(c) ==
  /\ cl[c].pc = "output"
  /\ LET x == cl[c]
         head == x.out <= MaxWrite - MaxEncoded
         waits == [ArmRetry(x) EXCEPT !.pc = "idle", !.processed = FALSE]
     IN  IF head /\ OutputFits
         THEN /\ f' = [f EXCEPT !.outBud = @ + MaxEncoded]
              /\ Goes(c, [x EXCEPT !.pc = "event", !.held = MaxEncoded])
              /\ UNCHANGED src
         ELSE IF x.processed
         THEN /\ src' = FinishToken(src, c) /\ UNCHANGED f
              /\ Goes(c, AfterToken(x))
         ELSE IF ~head THEN Idles(c, x) /\ UNCHANGED <<f, src>>
         ELSE IF Candidates = {}
         THEN Goes(c, waits) /\ UNCHANGED <<f, src>>
         ELSE IF Victim = c THEN Closes(f, cl, src, c)
         ELSE /\ cl' = [cl EXCEPT ![c] = waits, ![Victim].evicting = TRUE,
                                  ![Victim].kill = TRUE]
              /\ UNCHANGED <<f, src, env>>

(* writeMiddleEndEvent.  n: the encoded size; a socket with nothing        *)
(* buffered may take it at once.  The reservation ends with the write.     *)
WriteEvent(x, e, n, direct) ==
  [x EXCEPT !.held = 0, !.drain = (e = "close ext"),
            !.out = IF e # "answer" \/ direct THEN @ ELSE @ + n]

(* TryNextEvent, writeMiddleEndEvent, refreshOutput, finishToken.          *)
TokenEvent(c, n, direct) ==
  /\ cl[c].pc = "event" /\ (direct => cl[c].out = 0)
  /\ LET b == src.b[c]
         e == Head(b.ev)
         S == [src EXCEPT !.b[c].mode = TRUE, !.b[c].ev = Tail(b.ev)]
         x == WriteEvent(cl[c], e, n, direct)
         F == [f EXCEPT !.outBud = @ + OutputDelta(x, MaxEncoded)]
         y == Refreshed(x)
         ends == \/ e = "odd" \/ Stalled(x)
                 \/ e = "close ext" /\ OrderlyCloses(x)
     IN  IF ~b.leased
         THEN Closes(f, cl, src, c)
         ELSE IF b.ev = <<>>
         THEN /\ f' = [f EXCEPT !.outBud = @ - MaxEncoded]
              /\ Goes(c, [cl[c] EXCEPT !.held = 0, !.pc = "no event"])
              /\ src' = [src EXCEPT !.b[c].mode = TRUE]
         ELSE IF ends
         THEN Closes(F, [cl EXCEPT ![c] = y], FinishToken(S, c), c)
         ELSE /\ f' = F /\ src' = FinishToken(S, c)
              /\ Goes(c, AfterToken(IF e = "close ext" THEN Waits(y) ELSE y))

(* Nothing to write: the terminal state may have come meanwhile.           *)
TokenNoEvent(c) ==
  /\ cl[c].pc = "no event"
  /\ LET x == cl[c]
         b == src.b[c]
         late == ~x.processed /\ Terminal(b)
         T == FinishToken([src EXCEPT !.b[c].observed = late \/ @], c)
     IN  IF ~b.leased \/ (late /\ (b.term = "err" \/ OrderlyCloses(x)))
         THEN Closes(f, cl, src, c)
         ELSE /\ src' = T /\ UNCHANGED f
              /\ Goes(c, AfterToken(IF late
                                     THEN Waits([x EXCEPT !.drain = TRUE])
                                     ELSE x))

(* nextPacket and prepareMiddleEndRequest, and the deferred                *)
(* reconcileInput.  "frag": records up to the work limit of one turn.      *)
Prepared(x, waits) == [x EXCEPT !.await = TRUE, !.waiting = waits]

TurnPacket(c, waits) ==
  /\ cl[c].pc = "packet" /\ (waits => env.max.waits)
  /\ LET x == cl[c]
         p == IF x.inb = <<>> THEN "none" ELSE Head(x.inb)
         y == CASE p = "pkt" -> Prepared([x EXCEPT !.inb = Tail(@)], waits)
                [] p = "frag" -> [x EXCEPT !.inb[1] = "pkt", !.wake = TRUE]
                [] OTHER -> x
     IN  /\ p # "pkt" => ~waits
         /\ IF p = "bad" \/ (p = "pkt" /\ (src.done \/ src.b[c].term # "none"))
            THEN Closes(f, cl, src, c)
            ELSE /\ f' = [f EXCEPT !.inBud = @ + InputDelta(y)]
                 /\ Idles(c, [y EXCEPT !.inAcc = Retained(y)])
                 /\ src' = IF p # "pkt" THEN src
                           ELSE [src EXCEPT !.b[c].req = IF waits
                                                         THEN "waiting"
                                                         ELSE "queued"]

(* The retry timer, the stall deadline, an eviction, and the connection's  *)
(* own end.                                                                *)
RetryFires(c) ==
  /\ cl[c].timer
  /\ cl' = [cl EXCEPT ![c].timer = FALSE, ![c].wake = TRUE]
  /\ UNCHANGED <<f, src, env>>

DeadlinePasses(c) ==
  /\ cl[c].deadline = "set"
  /\ cl' = [cl EXCEPT ![c].deadline = "passed"]
  /\ UNCHANGED <<f, src, env>>

ConnCloses(c) ==
  /\ cl[c].stage \in {"me", "direct"} /\ cl[c].pc = "idle"
  /\ cl[c].kill \/ env.max.leave
  /\ Closes(f, cl, src, c)

-----------------------------------------------------------------------------
(* Clients send and read; gnet reports readable data as a turn.            *)
ClientSends(c, p) ==
  /\ cl[c].stage \in {"new", "me"} /\ env.sent < env.max.sends
  /\ cl[c].pc = "idle"
  /\ cl' = [cl EXCEPT ![c].inb = Append(@, p), ![c].wake = (cl[c].stage = "me")]
  /\ env' = [env EXCEPT !.sent = @ + 1]
  /\ UNCHANGED <<f, src>>

ClientReads(c) ==
  /\ cl[c].out > 0 /\ cl[c].pc = "idle"
  /\ cl' = [cl EXCEPT ![c].out = @ - 1]
  /\ UNCHANGED <<f, src, env>>

(* The source (external): events, results, reservations, terminals.        *)
Live(c) == src.b[c].bound /\ ~src.b[c].closed /\ ~src.done
Publishes(c, b) == src' = EnqueueReady([src EXCEPT !.b[c] = b], c)
                   /\ UNCHANGED <<f, cl>>

SourceEvent(c, e) ==
  /\ Live(c) /\ src.b[c].term = "none" /\ env.answered < env.max.answers
  /\ Publishes(c, [src.b[c] EXCEPT !.ev = Append(@, e)])
  /\ env' = [env EXCEPT !.answered = @ + 1]

SourceResult(c) ==
  /\ Live(c) /\ src.b[c].req = "queued"
  /\ \E r \in {"ok"} \cup (IF env.max.reject THEN {"rejected"} ELSE {}) :
       Publishes(c, [src.b[c] EXCEPT !.req = "none", !.res = r])
  /\ UNCHANGED env

SourceReserves(c) ==
  /\ Live(c) /\ src.b[c].req = "waiting"
  /\ Publishes(c, [src.b[c] EXCEPT !.req = "reserved"])
  /\ UNCHANGED env

SourceTerminal(c, t) ==
  /\ Live(c) /\ src.b[c].term = "none"
  /\ Publishes(c, [src.b[c] EXCEPT !.term = t, !.req = "none"])
  /\ UNCHANGED env

(* Done: bindings not yet in token mode lose their readiness.              *)
SourceDone ==
  /\ ~src.done /\ env.max.done
  /\ LET lost == {c \in Clients : ~src.b[c].mode}
     IN  src' = [src EXCEPT !.done = TRUE,
                   !.q = Excluding(@, lost),
                   !.b = [c \in Clients |->
                            IF c \in lost
                            THEN [@[c] EXCEPT !.leased = FALSE, !.closed = TRUE]
                            ELSE @[c]]]
  /\ UNCHANGED <<f, cl, env>>

-----------------------------------------------------------------------------
Turn(c) ==
  \/ TurnBegins(c) \/ TokenReasons(c) \/ TokenOutput(c) \/ TokenNoEvent(c)
  \/ (\E n \in 1..MaxEncoded, direct \in BOOLEAN : TokenEvent(c, n, direct))
  \/ \E waits \in BOOLEAN : TurnPacket(c, waits)

Dispatch == RunDrains \/ DrainReady \/ DrainWakes \/ DrainAcks \/ RunEnds

Next ==
  \/ Dispatch \/ Stop \/ SourceDone
  \/ \E c \in Clients :
       \/ (\E how \in env.max.setup : Commit(c, how)) \/ CommitUnroutes(c)
       \/ Turn(c) \/ RetryFires(c) \/ DeadlinePasses(c) \/ ConnCloses(c)
       \/ (\E p \in env.max.packets : ClientSends(c, p)) \/ ClientReads(c)
       \/ (\E e \in env.max.events : SourceEvent(c, e))
       \/ SourceResult(c) \/ SourceReserves(c)
       \/ \E t \in env.max.terms : SourceTerminal(c, t)

Spec == Init /\ [][Next]_vars
===============================================================================
