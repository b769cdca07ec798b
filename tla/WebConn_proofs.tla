---------------------------- MODULE WebConn_proofs ----------------------------
(***************************************************************************)
(* Proofs about one carrier connection in its HTTP and WebSocket phases,   *)
(* for any scenario of the peer and any limits of the transport: whatever  *)
(* it holds of its session has an owner, and no wake-up is lost.           *)
(*                                                                         *)
(* The invariant has three parts.  Sound says what the parts of a state    *)
(* are, how the phases of the connection, of its request goroutine and of  *)
(* its transport fit together, and who owns the downlink slot, the uplink  *)
(* lane and the charge.  Fed says that an open transport has an uplink     *)
(* worker, or the result that will close it: without it input that waits   *)
(* for the worker could wait for ever.  Awake is the wake-ups.             *)
(*                                                                         *)
(* A callback of the event loop is a composition of operators on the whole *)
(* state.  Each has a lemma that says what it does and what it leaves      *)
(* alone, and the last of them that the callback leaves a state at rest:   *)
(* sound, and either awake or about to be closed.                          *)
(***************************************************************************)
EXTENDS MCWebConn, Data_proofs

-----------------------------------------------------------------------------
(* What the components of a state are.                                     *)
Inputs == Headers \cup {"half", "body", "bin", "part", "fin", "bad"}
                  \cup Control
(* What the loop writes to the peer: a frame, with a claim on the slot or  *)
(* not.                                                                    *)
Items == [type : {"binary", "ping", "pong", "close"}, lease : BOOLEAN]
(* A message the transport owns until its worker has it.                   *)
Owned == [size : Nat \ {0}, chunked : BOOLEAN]

(* The connection: what the loop keeps of an http_server.go connection.    *)
IsConn(C) ==
  /\ DOMAIN C = {"open", "closeReq", "in", "out", "wake", "active",
                 "draining", "closeAfter", "cancel", "lease", "dl", "fired",
                 "drain", "pending", "half"}
  /\ C.in \in Seq(Inputs)
  /\ C.open \in BOOLEAN /\ C.closeReq \in BOOLEAN /\ C.out \in BOOLEAN
  /\ C.wake \in BOOLEAN /\ C.active \in BOOLEAN /\ C.draining \in BOOLEAN
  /\ C.closeAfter \in BOOLEAN /\ C.cancel \in BOOLEAN /\ C.lease \in BOOLEAN
  /\ C.drain \in BOOLEAN /\ C.pending \in BOOLEAN /\ C.half \in BOOLEAN

(* The goroutine of a request; it has no lease before it has served.       *)
IsWorker(W) ==
  /\ DOMAIN W = {"pc", "kind", "ctx", "lease"}
  /\ W.ctx \in BOOLEAN /\ W.lease \in BOOLEAN
  /\ W.pc = "serve" => ~W.lease

(* The WebSocket transport; a worker that reports has a code to report.    *)
IsTransport(T) ==
  /\ DOMAIN T = {"phase", "carrier", "written", "closed", "ctx", "up",
                 "inbound", "results", "frag", "items", "bytes", "ctlIn",
                 "pongs", "out", "current", "writing", "failure", "live",
                 "expired", "pc", "doing", "code", "down", "monitor"}
  /\ T.phase \in {"none", "handshake", "open", "closing"}
  /\ T.written \in BOOLEAN /\ T.closed \in BOOLEAN /\ T.ctx \in BOOLEAN
  /\ T.writing \in BOOLEAN /\ T.failure \in BOOLEAN /\ T.expired \in BOOLEAN
  /\ T.inbound \in Seq(Owned) /\ T.results \in Seq({"ok", "err"})
  /\ T.out \in Seq(Items) /\ T.current \in Items \cup {NoItem}
  /\ T.code \in {"none", "ok", "err"}
  /\ T.pc = "report" => T.code # "none"
  /\ T.up \in Nat /\ T.frag \in Nat /\ T.doing \in Nat
  /\ T.items \in Int /\ T.bytes \in Int /\ T.pongs \in Int /\ T.ctlIn \in Int

(* What the session keeps for this connection.                             *)
IsSession(S) ==
  /\ DOMAIN S = {"done", "slot", "held", "items", "bytes"}
  /\ S.done \in BOOLEAN /\ S.slot \in BOOLEAN /\ S.held \in BOOLEAN
  /\ S.items \in Int /\ S.bytes \in Int

(* A state as a callback works on it.                                      *)
IsState(X) ==
  /\ DOMAIN X = {"c", "w", "t", "ses", "act"}
  /\ IsConn(X.c) /\ IsWorker(X.w) /\ IsTransport(X.t) /\ IsSession(X.ses)

(* Before the upgrade nothing of the transport is in use.                  *)
Unstarted(T) ==
  /\ T.pc = "none" /\ T.down = "none" /\ T.monitor = "none"
  /\ T.results = <<>> /\ ~T.failure /\ T.out = <<>> /\ T.current = NoItem
  /\ T.up = 0 /\ T.inbound = <<>> /\ T.frag = 0 /\ ~T.writing

(* How the phases of the connection, its request goroutine and its         *)
(* transport fit together.                                                 *)
Shape(X) ==
  /\ X.t.phase \in {"none", "handshake"} => Unstarted(X.t)
  /\ X.t.phase # "none" => ~X.c.active /\ ~X.c.draining
  /\ X.w.pc # "none" => X.c.active /\ ~X.c.draining
  /\ X.c.open /\ X.c.active /\ ~X.c.draining => X.w.pc # "none"
  /\ X.c.lease => X.c.draining
  /\ X.w.ctx => ~X.c.open \/ X.act = "close"
  /\ X.c.open /\ X.t.ctx => X.t.phase = "closing"
  /\ X.t.closed => ~X.c.open
  /\ ~X.c.open => X.t.inbound = <<>> /\ X.t.frag = 0
  /\ ~X.c.open /\ X.t.phase # "none" => X.t.closed /\ X.t.ctx
  /\ (X.t.doing # 0) <=> (X.t.pc = "process")

(* Who owns the downlink slot.                                             *)
SlotOwned(X) ==
  X.ses.slot => \/ X.c.open /\ X.c.lease
                \/ X.w.pc # "none" /\ X.w.lease
                \/ X.t.down \in {"binary", "ping"}
                \/ X.c.open /\ (X.t.current.lease
                                  \/ \E i \in Range(X.t.out) : i.lease)

(* What is charged is what is held.                                        *)
Charged(X) ==
  /\ X.t.bytes = Sizes(X.t.inbound) + X.t.doing + X.t.frag
  /\ X.t.items = Len(X.t.inbound) + One(X.t.doing) + One(X.t.frag)
  /\ ~X.ses.done => X.ses.bytes = X.t.bytes /\ X.ses.items = X.t.items

(* The uplink lane is held by a connection that is open.                   *)
LaneOwned(X) == X.ses.held => X.c.open /\ X.t.phase # "none"

(* Every claim has its owner, and the parts of the state agree.            *)
Sound(X) ==
  IsState(X) /\ Shape(X) /\ SlotOwned(X) /\ LaneOwned(X) /\ Charged(X)

(* An uplink worker that stopped while the transport is open reported why. *)
Fed(X) ==
  X.c.open /\ X.t.phase = "open" /\ X.t.pc = "none"
    => "err" \in Range(X.t.results)

(* The wake-ups a waiting connection has coming: for a failure, for the    *)
(* results of the uplink worker, for what is to be written, for a response *)
(* that drains, and for input that was not decoded.                        *)
FailureWakes(X) == X.t.failure => X.c.wake
ResultsWake(X)  == X.t.results # <<>> => X.c.wake
OutWakes(X) ==
  /\ X.t.out # <<>> /\ X.t.current = NoItem => X.c.wake
  /\ X.t.current # NoItem => X.t.writing \/ X.c.wake \/ X.c.drain
DrainWakes(X) == X.c.draining => X.c.wake \/ X.c.drain
InputWakes(X) ==
  X.c.in # <<>> => \/ X.c.wake \/ X.c.drain \/ X.c.closeReq
                   \/ X.c.active /\ X.w.pc # "none"
                   \/ X.t.phase = "open" /\ X.t.up > 0 /\ X.t.pc # "none"
                   \/ X.t.phase = "closing"

(* An open connection that has something to do will be woken.              *)
Awake(X) ==
  X.c.open => /\ FailureWakes(X) /\ ResultsWake(X) /\ OutWakes(X)
              /\ DrainWakes(X) /\ InputWakes(X)

(* The inductive invariant of a connection.                                *)
ConnInv == Sound(State) /\ Fed(State) /\ Awake(State)

-----------------------------------------------------------------------------
(* The fields of a connection and of a transport.                          *)
ConnFields == {"open", "closeReq", "in", "out", "wake", "active", "draining",
               "closeAfter", "cancel", "lease", "dl", "fired", "drain",
               "pending", "half"}
TransportFields ==
  {"phase", "carrier", "written", "closed", "ctx", "up", "inbound", "results",
   "frag", "items", "bytes", "ctlIn", "pongs", "out", "current", "writing",
   "failure", "live", "expired", "pc", "doing", "code", "down", "monitor"}

(* A connection has these fields.                                          *)
LEMMA ConnDomain ==
  ASSUME NEW C, IsConn(C)
  PROVE  DOMAIN C = ConnFields
BY DEF IsConn, ConnFields

(* A transport has these fields.                                           *)
LEMMA TransportDomain ==
  ASSUME NEW T, IsTransport(T)
  PROVE  DOMAIN T = TransportFields
BY DEF IsTransport, TransportFields

(* Y is X but for timers, wake-ups and counters nothing else depends on.   *)
Timed(X, Y) ==
  /\ IsState(Y) /\ Y.w = X.w /\ Y.ses = X.ses /\ Y.act = X.act
  /\ X.c.drain => Y.c.drain
  /\ X.c.wake => Y.c.wake
  /\ Y.c.open = X.c.open /\ Y.c.closeReq = X.c.closeReq /\ Y.c.in = X.c.in
  /\ Y.c.out = X.c.out /\ Y.c.active = X.c.active
  /\ Y.c.draining = X.c.draining /\ Y.c.closeAfter = X.c.closeAfter
  /\ Y.c.cancel = X.c.cancel /\ Y.c.lease = X.c.lease
  /\ Y.c.pending = X.c.pending /\ Y.c.half = X.c.half
  /\ Y.t.phase = X.t.phase /\ Y.t.written = X.t.written
  /\ Y.t.closed = X.t.closed /\ Y.t.ctx = X.t.ctx /\ Y.t.up = X.t.up
  /\ Y.t.inbound = X.t.inbound /\ Y.t.results = X.t.results
  /\ Y.t.frag = X.t.frag /\ Y.t.items = X.t.items /\ Y.t.bytes = X.t.bytes
  /\ Y.t.out = X.t.out /\ Y.t.current = X.t.current
  /\ Y.t.writing = X.t.writing /\ Y.t.failure = X.t.failure
  /\ Y.t.pc = X.t.pc /\ Y.t.doing = X.t.doing /\ Y.t.code = X.t.code
  /\ Y.t.down = X.t.down /\ Y.t.monitor = X.t.monitor

(* Such a change keeps everything the invariant says.                      *)
LEMMA TimedSound ==
  ASSUME NEW X, NEW Y, Timed(X, Y)
  PROVE  /\ Sound(X) => Sound(Y)
         /\ Fed(X) => Fed(Y)
         /\ FailureWakes(X) => FailureWakes(Y)
         /\ ResultsWake(X) => ResultsWake(Y)
         /\ OutWakes(X) => OutWakes(Y)
         /\ DrainWakes(X) => DrainWakes(Y)
         /\ InputWakes(X) => InputWakes(Y)
<1>1. Shape(X) => Shape(Y)
  BY DEF Timed, Shape, Unstarted
<1>2. SlotOwned(X) => SlotOwned(Y)
  BY DEF Timed, SlotOwned
<1>3. LaneOwned(X) => LaneOwned(Y)
  BY DEF Timed, LaneOwned
<1>4. Charged(X) => Charged(Y)
  BY DEF Timed, Charged
<1>5. Sound(X) => Sound(Y)
  BY <1>1, <1>2, <1>3, <1>4 DEF Sound, Timed
<1>6. Fed(X) => Fed(Y)
  BY DEF Timed, Fed
<1> QED
  BY <1>5, <1>6 DEF Timed, FailureWakes, ResultsWake, OutWakes, DrainWakes,
                    InputWakes

(* Arming and dropping a deadline.                                         *)
LEMMA DeadlineTimed ==
  ASSUME NEW X, IsState(X), NEW d
  PROVE  Timed(X, ArmDeadline(X, d)) /\ Timed(X, InvalidateDeadline(X))
<1> DEFINE Y == ArmDeadline(X, d)
           Z == InvalidateDeadline(X)
<1>1. /\ Y.w = X.w /\ Y.t = X.t /\ Y.ses = X.ses /\ Y.act = X.act
      /\ DOMAIN Y = DOMAIN X
      /\ Y.c = [X.c EXCEPT !.dl = d, !.fired = FALSE]
  BY DEF IsState, ArmDeadline
<1>2. /\ Z.w = X.w /\ Z.t = X.t /\ Z.ses = X.ses /\ Z.act = X.act
      /\ DOMAIN Z = DOMAIN X
      /\ Z.c = [X.c EXCEPT !.dl = "none", !.fired = FALSE]
  BY DEF IsState, InvalidateDeadline
<1> HIDE DEF Y, Z
<1>3. IsConn(Y.c) /\ IsConn(Z.c)
  BY <1>1, <1>2 DEF IsState, IsConn
<1> QED
  BY <1>1, <1>2, <1>3 DEF IsState, IsConn, Timed, Y, Z

(* A wake-up, now or when the output has drained.                          *)
LEMMA WakeTimed ==
  ASSUME NEW X, IsState(X)
  PROVE  Timed(X, Wake(X)) /\ Timed(X, ArmDrainWake(X))
         /\ Wake(X).c.wake /\ ArmDrainWake(X).c.drain
<1> DEFINE Y == Wake(X)
           Z == ArmDrainWake(X)
<1>1. /\ Y.w = X.w /\ Y.t = X.t /\ Y.ses = X.ses /\ Y.act = X.act
      /\ DOMAIN Y = DOMAIN X
      /\ Y.c = [X.c EXCEPT !.wake = TRUE]
  BY DEF IsState, Wake
<1>2. /\ Z.w = X.w /\ Z.t = X.t /\ Z.ses = X.ses /\ Z.act = X.act
      /\ DOMAIN Z = DOMAIN X
      /\ Z.c = [X.c EXCEPT !.drain = TRUE]
  BY DEF IsState, ArmDrainWake
<1> HIDE DEF Y, Z
<1>3. IsConn(Y.c) /\ IsConn(Z.c)
  BY <1>1, <1>2 DEF IsState, IsConn
<1>4. Y.c.wake /\ Z.c.drain
  BY <1>1, <1>2 DEF IsState, IsConn
<1>5. Timed(X, Y)
  BY <1>1, <1>3 DEF IsState, IsConn, Timed
<1>6. Timed(X, Z)
  BY <1>2, <1>3 DEF IsState, IsConn, Timed
<1> QED
  BY <1>4, <1>5, <1>6 DEF Y, Z

(* The liveness timer and the count of control frames.                     *)
LEMMA TouchTimed ==
  ASSUME NEW X, IsState(X)
  PROVE  Timed(X, TouchLiveness(X)) /\ Timed(X, ResetControlBurst(X))
         /\ Timed(X, RenewExpired(X)) /\ Timed(X, X)
<1> DEFINE Y == [X EXCEPT !.t.live = "armed", !.t.expired = FALSE]
           Z == [X EXCEPT !.t.ctlIn = 0]
<1>1. /\ Y.w = X.w /\ Y.c = X.c /\ Y.ses = X.ses /\ Y.act = X.act
      /\ DOMAIN Y = DOMAIN X
      /\ Y.t = [X.t EXCEPT !.live = "armed", !.expired = FALSE]
  BY DEF IsState
<1>2. /\ Z.w = X.w /\ Z.c = X.c /\ Z.ses = X.ses /\ Z.act = X.act
      /\ DOMAIN Z = DOMAIN X
      /\ Z.t = [X.t EXCEPT !.ctlIn = 0]
  BY DEF IsState
<1> HIDE DEF Y, Z
<1>3. IsTransport(Y.t) /\ IsTransport(Z.t)
  BY <1>1, <1>2 DEF IsState, IsTransport
<1>4. Timed(X, Y)
  BY <1>1, <1>3 DEF IsState, IsTransport, Timed
<1>5. Timed(X, Z)
  BY <1>2, <1>3 DEF IsState, IsTransport, Timed
<1>6. Timed(X, X)
  BY DEF Timed
<1> QED
  BY <1>4, <1>5, <1>6 DEF TouchLiveness, ResetControlBurst, RenewExpired, Y, Z

-----------------------------------------------------------------------------
(* Sizes.                                                                  *)
(* The sizes of a queue are natural numbers.                               *)
LEMMA SizesType ==
  ASSUME NEW q \in Seq(Owned)
  PROVE  /\ \A i \in 1..Len(q) : q[i] \in Owned /\ q[i].size \in Nat \ {0}
         /\ [i \in 1..Len(q) |-> q[i].size] \in Seq(Nat)
         /\ Len([i \in 1..Len(q) |-> q[i].size]) = Len(q)
<1>1. \A i \in 1..Len(q) : q[i] \in Owned
  OBVIOUS
<1>2. \A m \in Owned : m.size \in Nat \ {0}
  BY DEF Owned
<1>3. \A i \in 1..Len(q) : q[i].size \in Nat \ {0}
  BY <1>1, <1>2
<1> QED
  BY <1>1, <1>3

(* The size of what is held is a natural number.                           *)
LEMMA SizesNat ==
  ASSUME NEW q \in Seq(Owned)
  PROVE  Sizes(q) \in Nat
<1>1. [i \in 1..Len(q) |-> q[i].size] \in Seq(Nat)
  BY SizesType
<1> QED
  BY <1>1, SumIsUpto DEF Sizes

(* Nothing has no size.                                                    *)
LEMMA SizesEmpty == Sizes(<<>>) = 0
<1> DEFINE f == [i \in 1..Len(<<>>) |-> <<>>[i].size]
<1>1. 1..Len(<<>>) = {} /\ IsFiniteSet({})
  BY FS_EmptySet
<1>2. f \in [{} -> Nat]
  BY <1>1
<1> QED
  BY <1>1, <1>2, SumZero DEF Sizes

(* One more message adds its size.                                         *)
LEMMA SizesAppend ==
  ASSUME NEW q \in Seq(Owned), NEW m \in Owned
  PROVE  Sizes(Append(q, m)) = Sizes(q) + m.size
<1> DEFINE r == Append(q, m)
           f == [i \in 1..Len(q) |-> q[i].size]
           g == [i \in 1..Len(r) |-> r[i].size]
           n == Len(q)
<1>1. n \in Nat /\ Len(r) = n + 1 /\ r \in Seq(Owned)
  OBVIOUS
<1>2. f \in Seq(Nat) /\ Len(f) = n /\ g \in Seq(Nat) /\ Len(g) = n + 1
  BY <1>1, SizesType
<1>3. r[n + 1] = m /\ \A i \in 1..n : r[i] = q[i]
  OBVIOUS
<1>4. g[n + 1] = m.size /\ \A i \in 1..n : g[i] = f[i]
  BY <1>1, <1>3
<1>5. (\A i \in 1..n + 1 : g[i] \in Nat) /\ \A i \in 1..n : f[i] \in Nat
  BY <1>2
<1> HIDE DEF f, g, n, r
<1>6. Upto(f, n) = Upto(g, n)
  BY <1>1, <1>4, <1>5, UptoSame
<1>7. Upto(g, n + 1) = Upto(g, n) + g[n + 1]
  BY <1>1, <1>5, UptoStep
<1>8. SumOf(f) = Upto(f, n) /\ SumOf(g) = Upto(g, n + 1)
  BY <1>2, SumIsUpto
<1> QED
  BY <1>4, <1>6, <1>7, <1>8 DEF Sizes, f, g, r

(* A message that leaves takes its size away.                              *)
LEMMA SizesTail ==
  ASSUME NEW q \in Seq(Owned), q # <<>>
  PROVE  /\ Tail(q) \in Seq(Owned) /\ Len(Tail(q)) = Len(q) - 1
         /\ Head(q) \in Owned
         /\ Sizes(q) = Head(q).size + Sizes(Tail(q))
<1> DEFINE r == Tail(q)
           f == [i \in 1..Len(q) |-> q[i].size]
           g == [i \in 1..Len(r) |-> r[i].size]
           n == Len(r)
<1>1. n \in Nat /\ Len(q) = 1 + n /\ r \in Seq(Owned) /\ Head(q) = q[1]
  OBVIOUS
<1>2. f \in Seq(Nat) /\ Len(f) = 1 + n /\ g \in Seq(Nat) /\ Len(g) = n
  BY <1>1, SizesType
<1>3. \A i \in 1..n : r[i] = q[1 + i]
  BY <1>1
<1>4. f[1] = Head(q).size /\ \A i \in 1..n : g[i] = f[1 + i]
  BY <1>1, <1>3
<1>5. \A i \in 1..1 + n : f[i] \in Nat
  BY <1>2
<1>6. Head(q) \in Owned
  OBVIOUS
<1> HIDE DEF f, g, n, r
<1>7. Stretch(f, g, 1, n, 1 + n)
  BY <1>1, <1>4, <1>5 DEF Stretch
<1>8. Upto(f, 1 + n) = Upto(f, 1) + Upto(g, n)
  BY <1>7, UptoShift
<1>9. Upto(f, 1) = f[1]
  <2>1. f[1] \in Nat
    BY <1>1, <1>5
  <2>2. \A i \in 1..0 + 1 : f[i] \in Nat
    BY <2>1
  <2>3. Upto(f, 0 + 1) = Upto(f, 0) + f[0 + 1]
    BY <2>2, UptoStep
  <2> QED
    BY <2>1, <2>3, UptoZero
<1>10. SumOf(f) = Upto(f, 1 + n) /\ SumOf(g) = Upto(g, n)
  BY <1>2, SumIsUpto
<1>11. Sizes(q) = SumOf(f) /\ Sizes(r) = SumOf(g)
  BY DEF Sizes, f, g
<1> QED
  BY <1>1, <1>4, <1>6, <1>8, <1>9, <1>10, <1>11 DEF r, n


(* Y is X without the input it held.                                       *)
Emptied(X, Y) ==
  /\ IsState(Y) /\ Y.c = X.c /\ Y.w = X.w /\ Y.act = X.act
  /\ Y.ses.done = X.ses.done /\ Y.ses.slot = X.ses.slot
  /\ Y.ses.held = X.ses.held
  /\ Y.t.inbound = <<>> /\ Y.t.frag = 0
  /\ Y.t.phase = X.t.phase /\ Y.t.written = X.t.written
  /\ Y.t.carrier = X.t.carrier
  /\ Y.t.closed = X.t.closed /\ Y.t.ctx = X.t.ctx /\ Y.t.up = X.t.up
  /\ Y.t.results = X.t.results /\ Y.t.out = X.t.out
  /\ Y.t.current = X.t.current /\ Y.t.writing = X.t.writing
  /\ Y.t.failure = X.t.failure /\ Y.t.pc = X.t.pc
  /\ Y.t.doing = X.t.doing /\ Y.t.code = X.t.code
  /\ Y.t.down = X.t.down /\ Y.t.monitor = X.t.monitor

(* Y is X without the charge of n messages of z units.                     *)
Refunded(X, Y, n, z) ==
  /\ DOMAIN Y = DOMAIN X
  /\ Y.c = X.c /\ Y.w = X.w /\ Y.act = X.act
  /\ Y.t = [X.t EXCEPT !.items = @ - n, !.bytes = @ - z]
  /\ IsSession(Y.ses)
  /\ Y.ses.done = X.ses.done /\ Y.ses.slot = X.ses.slot
  /\ Y.ses.held = X.ses.held
  /\ ~X.ses.done => /\ Y.ses.items = X.ses.items - n
                    /\ Y.ses.bytes = X.ses.bytes - z

(* Releasing n messages of z units gives them back to the connection and,  *)
(* unless it is done, to the session.                                      *)
LEMMA ReleaseInputEffect ==
  ASSUME NEW X, IsState(X), NEW n \in Int, NEW z \in Int
  PROVE  Refunded(X, ReleaseInput(X, n, z), n, z)
<1> DEFINE Y == ReleaseInput(X, n, z)
<1>1. /\ DOMAIN Y = DOMAIN X
      /\ Y.c = X.c /\ Y.w = X.w /\ Y.act = X.act
      /\ Y.t = [X.t EXCEPT !.items = @ - n, !.bytes = @ - z]
      /\ Y.ses = IF X.ses.done THEN X.ses
                 ELSE [X.ses EXCEPT !.items = @ - n, !.bytes = @ - z]
  BY DEF IsState, ReleaseInput
<1> HIDE DEF Y
<1>2. /\ IsSession(Y.ses)
      /\ Y.ses.done = X.ses.done /\ Y.ses.slot = X.ses.slot
      /\ Y.ses.held = X.ses.held
      /\ ~X.ses.done => /\ Y.ses.items = X.ses.items - n
                        /\ Y.ses.bytes = X.ses.bytes - z
  BY <1>1 DEF IsState, IsSession
<1> QED
  BY <1>1, <1>2 DEF Y, Refunded

(* Everything the queue and the open message were charged is given back.   *)
LEMMA ReleaseInboundEffect ==
  ASSUME NEW X, IsState(X), Charged(X)
  PROVE  Emptied(X, ReleaseInbound(X)) /\ Charged(ReleaseInbound(X))
<1> DEFINE n == Len(X.t.inbound) + One(X.t.frag)
           z == Sizes(X.t.inbound) + X.t.frag
           R == ReleaseInput(X, n, z)
           Y == ReleaseInbound(X)
<1>1. /\ X.t.inbound \in Seq(Owned) /\ X.t.frag \in Nat /\ X.t.doing \in Nat
      /\ X.t.items \in Int /\ X.t.bytes \in Int
      /\ X.ses.items \in Int /\ X.ses.bytes \in Int
  BY DEF IsState, IsTransport, IsSession
<1>2. /\ n \in Int /\ z \in Int /\ Len(X.t.inbound) \in Nat
      /\ Sizes(X.t.inbound) \in Nat
  BY <1>1, SizesNat DEF One
<1> HIDE DEF n, z
<1>3. Refunded(X, R, n, z)
  BY <1>2, ReleaseInputEffect
<1>4. Y = [R EXCEPT !.t.frag = 0, !.t.inbound = <<>>]
  BY DEF ReleaseInbound, n, z
<1> HIDE DEF R, Y
<1>5. /\ DOMAIN Y = DOMAIN X
      /\ Y.c = X.c /\ Y.w = X.w /\ Y.act = X.act /\ Y.ses = R.ses
      /\ Y.t = [R.t EXCEPT !.frag = 0, !.inbound = <<>>]
  BY <1>3, <1>4 DEF IsState, Refunded
<1>6. /\ Y.t.items = X.t.items - n /\ Y.t.bytes = X.t.bytes - z
  BY <1>3, <1>5 DEF IsState, IsTransport, Refunded
<1>7. IsTransport(Y.t)
  BY <1>2, <1>3, <1>5 DEF IsState, IsTransport, Refunded
<1>8. Emptied(X, Y)
  BY <1>3, <1>5, <1>7 DEF IsState, IsTransport, Emptied, Refunded
<1>9. Charged(Y)
  <2>1. Sizes(Y.t.inbound) = 0 /\ Len(Y.t.inbound) = 0 /\ One(Y.t.frag) = 0
    BY <1>8, SizesEmpty DEF Emptied, One
  <2>2. Y.t.doing = X.t.doing /\ Y.t.frag = 0
    BY <1>8 DEF Emptied
  <2>3. One(X.t.doing) \in Nat /\ One(X.t.frag) \in Nat
    BY DEF One
  <2>4. /\ X.t.bytes = Sizes(X.t.inbound) + X.t.doing + X.t.frag
        /\ X.t.items = Len(X.t.inbound) + One(X.t.doing) + One(X.t.frag)
    BY DEF Charged
  <2>5. /\ n = Len(X.t.inbound) + One(X.t.frag)
        /\ z = Sizes(X.t.inbound) + X.t.frag
    BY DEF n, z
  <2>6. \A a, d, f \in Int : a + d + f = (a + f) + d
    OBVIOUS
  <2>7. X.t.bytes = z + X.t.doing
    BY <1>1, <1>2, <2>4, <2>5, <2>6
  <2> DEFINE o == One(X.t.doing)
             p == One(X.t.frag)
  <2>8. /\ o \in Nat /\ p \in Nat
        /\ X.t.items = Len(X.t.inbound) + o + p
        /\ n = Len(X.t.inbound) + p
    BY <2>3, <2>4, <2>5
  <2> HIDE DEF o, p
  <2>9. X.t.items = n + o
    <3>1. Len(X.t.inbound) \in Int /\ o \in Int /\ p \in Int
      BY <1>2, <2>8
    <3>2. Len(X.t.inbound) + o + p = (Len(X.t.inbound) + p) + o
      BY <2>6, <3>1
    <3> QED
      BY <2>8, <3>2
  <2>10. Y.t.bytes = X.t.doing /\ Y.t.items = One(X.t.doing)
    BY <1>1, <1>2, <1>6, <2>3, <2>9, <2>7 DEF o
  <2>11. ~Y.ses.done => Y.ses.bytes = Y.t.bytes /\ Y.ses.items = Y.t.items
    BY <1>1, <1>2, <1>3, <1>5, <1>6 DEF Charged, Refunded
  <2> QED
    BY <1>1, <2>1, <2>2, <2>3, <2>10, <2>11 DEF Charged
<1> QED
  BY <1>8, <1>9 DEF Y

(* Y is X with its current item finished.                                  *)
Finished(X, Y) ==
  /\ IsState(Y) /\ Y.c = X.c /\ Y.w = X.w /\ Y.act = X.act
  /\ Y.ses.done = X.ses.done /\ Y.ses.held = X.ses.held
  /\ Y.ses.items = X.ses.items /\ Y.ses.bytes = X.ses.bytes
  /\ Y.ses.slot => X.ses.slot /\ ~X.t.current.lease
  /\ Y.t.current = NoItem
  /\ X.t.current = NoItem => Y.t.writing = X.t.writing
  /\ X.t.down # "wait" => Y.t.down = X.t.down
  /\ Y.t.down \in {"binary", "ping"} => X.t.down = Y.t.down
  /\ Y.t.phase = X.t.phase /\ Y.t.written = X.t.written
  /\ Y.t.carrier = X.t.carrier
  /\ Y.t.closed = X.t.closed /\ Y.t.ctx = X.t.ctx /\ Y.t.up = X.t.up
  /\ Y.t.inbound = X.t.inbound /\ Y.t.frag = X.t.frag
  /\ Y.t.items = X.t.items /\ Y.t.bytes = X.t.bytes
  /\ Y.t.results = X.t.results /\ Y.t.out = X.t.out
  /\ Y.t.failure = X.t.failure /\ Y.t.pc = X.t.pc
  /\ Y.t.doing = X.t.doing /\ Y.t.code = X.t.code
  /\ Y.t.monitor = X.t.monitor

(* Y is X with the slot free if it was held by the lease l.                *)
Freed(X, Y, l) ==
  /\ DOMAIN Y = DOMAIN X /\ IsState(Y)
  /\ Y.c = X.c /\ Y.w = X.w /\ Y.act = X.act /\ Y.t = X.t
  /\ Y.ses.done = X.ses.done /\ Y.ses.held = X.ses.held
  /\ Y.ses.items = X.ses.items /\ Y.ses.bytes = X.ses.bytes
  /\ Y.ses.slot <=> X.ses.slot /\ ~l

(* A lease that is released frees the slot.                                *)
LEMMA ReleaseLeaseEffect ==
  ASSUME NEW X, IsState(X), NEW l \in BOOLEAN
  PROVE  Freed(X, ReleaseLease(X, l), l)
<1> DEFINE Y == ReleaseLease(X, l)
<1>1. /\ DOMAIN Y = DOMAIN X
      /\ Y.c = X.c /\ Y.w = X.w /\ Y.act = X.act /\ Y.t = X.t
      /\ Y.ses = IF l THEN [X.ses EXCEPT !.slot = FALSE] ELSE X.ses
  BY DEF IsState, ReleaseLease
<1> HIDE DEF Y
<1>2. /\ IsSession(Y.ses)
      /\ Y.ses.done = X.ses.done /\ Y.ses.held = X.ses.held
      /\ Y.ses.items = X.ses.items /\ Y.ses.bytes = X.ses.bytes
      /\ Y.ses.slot <=> X.ses.slot /\ ~l
  BY <1>1 DEF IsState, IsSession
<1> QED
  BY <1>1, <1>2 DEF Y, IsState, Freed

(* finishCurrent gives the item's lease back and tells who waits for it.   *)
LEMMA FinishCurrentEffect ==
  ASSUME NEW X, IsState(X), NEW res \in {"ok", "err"}
  PROVE  Finished(X, FinishCurrent(X, res))
<1>1. NoItem.lease = FALSE /\ X.t.current.lease \in BOOLEAN
  <2>1. NoItem.lease = FALSE
    BY DEF NoItem, Item
  <2>2. \A i \in Items : i.lease \in BOOLEAN
    BY DEF Items
  <2>3. X.t.current \in Items \cup {NoItem}
    BY DEF IsState, IsTransport
  <2> QED
    BY <2>1, <2>2, <2>3
<1>2. CASE X.t.current = NoItem
  BY <1>1, <1>2 DEF FinishCurrent, Finished, IsState, IsSession
<1>3. CASE X.t.current # NoItem
  <2> DEFINE item == X.t.current
             A == [X EXCEPT !.t.current = NoItem, !.t.writing = FALSE,
                            !.t.pongs =
                              IF item.type = "pong" THEN @ - 1 ELSE @]
             B == ReleaseLease(A, item.lease)
             C == [B EXCEPT !.t.down = res]
             Y == FinishCurrent(X, res)
  <2>1. /\ DOMAIN A = DOMAIN X
        /\ A.c = X.c /\ A.w = X.w /\ A.act = X.act /\ A.ses = X.ses
        /\ A.t = [X.t EXCEPT !.current = NoItem, !.writing = FALSE,
                             !.pongs = IF item.type = "pong" THEN @ - 1 ELSE @]
    BY DEF IsState
  <2>2. Y = IF item.type \in {"binary", "ping"} /\ B.t.down = "wait"
            THEN C ELSE B
    BY <1>3 DEF FinishCurrent, Done
  <2> HIDE DEF A, Y
  <2>3. IsTransport(A.t) /\ A.t.current = NoItem
    BY <2>1 DEF IsState, IsTransport
  <2>4. IsState(A)
    BY <2>1, <2>3 DEF IsState
  <2>5. Freed(A, B, item.lease)
    BY <1>1, <2>4, ReleaseLeaseEffect
  <2>6. /\ DOMAIN B = DOMAIN A /\ IsState(B)
        /\ B.c = A.c /\ B.w = A.w /\ B.act = A.act /\ B.t = A.t
        /\ B.ses.done = A.ses.done /\ B.ses.held = A.ses.held
        /\ B.ses.items = A.ses.items /\ B.ses.bytes = A.ses.bytes
        /\ B.ses.slot <=> A.ses.slot /\ ~item.lease
    BY <2>5 DEF Freed
  <2>7. /\ A.t.down = X.t.down
        /\ A.t.phase = X.t.phase /\ A.t.written = X.t.written
        /\ A.t.carrier = X.t.carrier
        /\ A.t.closed = X.t.closed /\ A.t.ctx = X.t.ctx /\ A.t.up = X.t.up
        /\ A.t.inbound = X.t.inbound /\ A.t.frag = X.t.frag
        /\ A.t.items = X.t.items /\ A.t.bytes = X.t.bytes
        /\ A.t.results = X.t.results /\ A.t.out = X.t.out
        /\ A.t.failure = X.t.failure /\ A.t.pc = X.t.pc
        /\ A.t.doing = X.t.doing /\ A.t.code = X.t.code
        /\ A.t.monitor = X.t.monitor
    BY <2>1 DEF IsState, IsTransport
  <2> HIDE DEF B
  <2>8. Finished(X, B)
    <3>1. B.ses.slot => X.ses.slot /\ ~X.t.current.lease
      BY <2>1, <2>6
    <3>2. /\ IsState(B) /\ B.c = X.c /\ B.w = X.w /\ B.act = X.act
          /\ B.ses.done = X.ses.done /\ B.ses.held = X.ses.held
          /\ B.ses.items = X.ses.items /\ B.ses.bytes = X.ses.bytes
          /\ B.t.current = NoItem /\ B.t.down = X.t.down
      BY <2>1, <2>3, <2>6, <2>7
    <3>3. B.t = A.t
      BY <2>6
    <3> HIDE DEF item
    <3> QED
      BY <1>3, <2>7, <3>1, <3>2, <3>3 DEF Finished
  <2>9. ASSUME B.t.down = "wait"
        PROVE  Finished(X, C)
    <3>1. /\ DOMAIN C = DOMAIN B
          /\ C.c = B.c /\ C.w = B.w /\ C.act = B.act /\ C.ses = B.ses
          /\ C.t = [B.t EXCEPT !.down = res]
      BY <2>6 DEF IsState
    <3> HIDE DEF C
    <3>2. IsTransport(C.t)
      BY <2>6, <3>1 DEF IsState, IsTransport
    <3>3. IsState(C)
      BY <2>6, <3>1, <3>2 DEF IsState
    <3>4. C.t.down = res /\ X.t.down = "wait"
      BY <2>6, <2>7, <2>9, <3>1 DEF IsState, IsTransport
    <3>5. /\ C.t.current = B.t.current
          /\ C.t.phase = B.t.phase /\ C.t.written = B.t.written
          /\ C.t.carrier = B.t.carrier
          /\ C.t.closed = B.t.closed /\ C.t.ctx = B.t.ctx /\ C.t.up = B.t.up
          /\ C.t.inbound = B.t.inbound /\ C.t.frag = B.t.frag
          /\ C.t.items = B.t.items /\ C.t.bytes = B.t.bytes
          /\ C.t.results = B.t.results /\ C.t.out = B.t.out
          /\ C.t.failure = B.t.failure /\ C.t.pc = B.t.pc
          /\ C.t.doing = B.t.doing /\ C.t.code = B.t.code
          /\ C.t.monitor = B.t.monitor
      BY <2>6, <3>1 DEF IsState, IsTransport
    <3> QED
      BY <1>3, <2>8, <3>1, <3>3, <3>4, <3>5 DEF Finished
  <2> QED
    BY <2>2, <2>8, <2>9 DEF Y
<1> QED
  BY <1>2, <1>3


(* A connection whose transport was started.                               *)
Running(X) == Sound(X) /\ X.c.open /\ X.t.phase \in {"open", "closing"}

(* Y is X with another action, or X itself.                                *)
LEMMA ClosingEffect ==
  ASSUME NEW X, Sound(X)
  PROVE  /\ Sound(Closing(X)) /\ Closing(X).act = "close"
         /\ Closing(X).c = X.c /\ Closing(X).w = X.w /\ Closing(X).t = X.t
         /\ Closing(X).ses = X.ses
<1> DEFINE Y == Closing(X)
<1>1. /\ DOMAIN Y = DOMAIN X /\ Y.act = "close"
      /\ Y.c = X.c /\ Y.w = X.w /\ Y.t = X.t /\ Y.ses = X.ses
  BY DEF Sound, IsState, Closing
<1> HIDE DEF Y
<1>2. IsState(Y) /\ SlotOwned(Y) /\ LaneOwned(Y) /\ Charged(Y)
  BY <1>1 DEF Sound, IsState, SlotOwned, LaneOwned, Charged
<1>3. Shape(Y)
  BY <1>1 DEF Sound, Shape
<1> QED
  BY <1>1, <1>2, <1>3 DEF Y, Sound

(* A connection that dropped the input it held is sound when the charge    *)
(* was given back.                                                         *)
LEMMA EmptiedSound ==
  ASSUME NEW X, NEW Y, Sound(X), Emptied(X, Y), Charged(Y)
  PROVE  Sound(Y)
<1>1. Shape(Y)
  BY DEF Sound, Shape, Emptied, Unstarted
<1>2. SlotOwned(Y) /\ LaneOwned(Y)
  BY DEF Sound, SlotOwned, LaneOwned, Emptied
<1> QED
  BY <1>1, <1>2 DEF Sound, Emptied

(* Finishing the current item leaves no claim behind.                      *)
LEMMA FinishedSound ==
  ASSUME NEW X, NEW Y, Sound(X), Finished(X, Y)
  PROVE  Sound(Y)
<1>1. Shape(Y)
  <2>1. X.t.phase \in {"none", "handshake"} => Unstarted(Y.t)
    BY DEF Sound, Shape, Finished, Unstarted
  <2> QED
    BY <2>1 DEF Sound, Shape, Finished
<1>2. SlotOwned(Y)
  BY DEF Sound, SlotOwned, Finished
<1>3. LaneOwned(Y) /\ Charged(Y)
  BY DEF Sound, LaneOwned, Charged, Finished
<1> QED
  BY <1>1, <1>2, <1>3 DEF Sound, Finished

(* Y is X with one more item to write.                                     *)
Enqueued(X, Y, item) ==
  /\ Sound(Y) /\ Y.c = X.c /\ Y.w = X.w /\ Y.act = X.act /\ Y.ses = X.ses
  /\ Y.t.out = Append(X.t.out, item)
  /\ Y.t = [X.t EXCEPT !.out = Y.t.out]

(* An item in the queue owns the claim it carries.                         *)
LEMMA EnqueueEffect ==
  ASSUME NEW X, Sound(X), X.t.phase \in {"open", "closing"}, NEW item \in Items
  PROVE  Enqueued(X, Enqueue(X, item), item)
<1> DEFINE Y == Enqueue(X, item)
<1>1. /\ DOMAIN Y = DOMAIN X
      /\ Y.c = X.c /\ Y.w = X.w /\ Y.act = X.act /\ Y.ses = X.ses
      /\ Y.t = [X.t EXCEPT !.out = Append(@, item)]
  BY DEF Sound, IsState, Enqueue
<1> HIDE DEF Y
<1>2. X.t.out \in Seq(Items)
  BY DEF Sound, IsState, IsTransport
<1>3. /\ Append(X.t.out, item) \in Seq(Items)
      /\ \A i \in DOMAIN X.t.out : /\ i \in DOMAIN Append(X.t.out, item)
                                   /\ Append(X.t.out, item)[i] = X.t.out[i]
  BY <1>2
<1>4. IsTransport(Y.t) /\ Y.t.out = Append(X.t.out, item)
  BY <1>1, <1>3 DEF Sound, IsState, IsTransport
<1>5. /\ Y.t.phase = X.t.phase /\ Y.t.ctx = X.t.ctx /\ Y.t.closed = X.t.closed
      /\ Y.t.inbound = X.t.inbound /\ Y.t.frag = X.t.frag
      /\ Y.t.doing = X.t.doing /\ Y.t.pc = X.t.pc /\ Y.t.down = X.t.down
      /\ Y.t.current = X.t.current /\ Y.t.bytes = X.t.bytes
      /\ Y.t.items = X.t.items
  BY <1>1 DEF Sound, IsState, IsTransport
<1>6. Range(X.t.out) \subseteq Range(Y.t.out)
  BY <1>3, <1>4 DEF Range
<1>7. Shape(Y)
  BY <1>1, <1>5 DEF Sound, Shape
<1>8. SlotOwned(Y)
  BY <1>1, <1>5, <1>6 DEF Sound, SlotOwned
<1>9. LaneOwned(Y) /\ Charged(Y)
  BY <1>1, <1>5 DEF Sound, LaneOwned, Charged
<1>10. IsState(Y)
  BY <1>1, <1>4 DEF Sound, IsState
<1>11. Y.t = [X.t EXCEPT !.out = Y.t.out]
  BY <1>1, <1>4
<1> QED
  BY <1>1, <1>4, <1>7, <1>8, <1>9, <1>10, <1>11 DEF Sound, Enqueued, Y

(* Y is X on its way to the end of the transport: closing, with the close  *)
(* frame queued and the loop woken, unless that was so before or there is  *)
(* no room for it.                                                         *)
Ending(X, Y) ==
  /\ Running(Y) /\ Y.t.phase = "closing" /\ Y.w = X.w
  /\ Y.t.failure = X.t.failure /\ Y.t.results = X.t.results
  /\ Y = X \/ Y.act = "close" \/ Y.c.wake

(* beginClose gives the input back before it queues the close frame.       *)
LEMMA BeginCloseEffect ==
  ASSUME NEW X, Running(X)
  PROVE  Ending(X, BeginClose(X))
<1>1. CASE X.t.phase = "closing"
  BY <1>1 DEF BeginClose, Ending
<1>2. CASE X.t.phase # "closing"
  <2> DEFINE A == [X EXCEPT !.t.phase = "closing", !.t.ctx = TRUE,
                            !.t.live = "none"]
             B == ReleaseInbound(A)
             C == Enqueue(B, Item("close", FALSE))
             Y == BeginClose(X)
  <2>1. /\ DOMAIN A = DOMAIN X
        /\ A.c = X.c /\ A.w = X.w /\ A.act = X.act /\ A.ses = X.ses
        /\ A.t = [X.t EXCEPT !.phase = "closing", !.ctx = TRUE,
                              !.live = "none"]
    BY DEF Running, Sound, IsState
  <2>2. Y = IF CanEnqueue(B.t) THEN Wake(C) ELSE Closing(B)
    BY <1>2 DEF BeginClose
  <2> HIDE DEF A, Y
  <2>3. IsTransport(A.t) /\ A.t.phase = "closing" /\ A.t.ctx
    BY <2>1 DEF Running, Sound, IsState, IsTransport
  <2>4. /\ A.t.closed = X.t.closed /\ A.t.inbound = X.t.inbound
        /\ A.t.frag = X.t.frag /\ A.t.doing = X.t.doing /\ A.t.pc = X.t.pc
        /\ A.t.down = X.t.down /\ A.t.current = X.t.current
        /\ A.t.out = X.t.out /\ A.t.bytes = X.t.bytes /\ A.t.items = X.t.items
        /\ A.t.failure = X.t.failure /\ A.t.results = X.t.results
    BY <2>1 DEF Running, Sound, IsState, IsTransport
  <2>5. Shape(A)
    BY <2>1, <2>3, <2>4 DEF Running, Sound, Shape
  <2>6. SlotOwned(A) /\ LaneOwned(A) /\ Charged(A)
    BY <2>1, <2>3, <2>4 DEF Running, Sound, SlotOwned, LaneOwned, Charged
  <2>7. IsState(A) /\ Sound(A)
    BY <2>1, <2>3, <2>5, <2>6 DEF Running, Sound, IsState
  <2>8. Emptied(A, B) /\ Charged(B)
    BY <2>6, <2>7, ReleaseInboundEffect
  <2> HIDE DEF B
  <2>9. Sound(B)
    BY <2>7, <2>8, EmptiedSound
  <2>10. /\ B.c = X.c /\ B.w = X.w /\ B.act = X.act /\ B.t.phase = "closing"
         /\ B.t.failure = X.t.failure /\ B.t.results = X.t.results
    BY <2>1, <2>3, <2>4, <2>8 DEF Emptied
  <2>11. Ending(X, Closing(B))
    BY <2>9, <2>10, ClosingEffect DEF Running, Ending
  <2>12. Item("close", FALSE) \in Items
    BY DEF Item, Items
  <2>13. Enqueued(B, C, Item("close", FALSE))
    BY <2>9, <2>10, <2>12, EnqueueEffect
  <2> HIDE DEF C
  <2>14. /\ Sound(C) /\ C.c = X.c /\ C.w = X.w /\ C.t.phase = "closing"
         /\ C.t.failure = X.t.failure /\ C.t.results = X.t.results
    BY <2>9, <2>10, <2>13 DEF Enqueued, Sound, IsState, IsTransport
  <2>15. Timed(C, Wake(C)) /\ Wake(C).c.wake
    BY <2>14, WakeTimed DEF Sound
  <2>16. Sound(Wake(C))
    BY <2>14, <2>15, TimedSound
  <2>17. Ending(X, Wake(C))
    BY <2>14, <2>15, <2>16 DEF Timed, Running, Ending
  <2> QED
    BY <2>2, <2>11, <2>17 DEF Y
<1> QED
  BY <1>1, <1>2

(* The loop takes the failure a worker left.                               *)
LEMMA TakeFailureEffect ==
  ASSUME NEW X, Running(X), Fed(X)
  PROVE  /\ Running(TakeFailure(X)) /\ Fed(TakeFailure(X))
         /\ ~TakeFailure(X).t.failure
<1>1. X.t.failure \in BOOLEAN
  BY DEF Running, Sound, IsState, IsTransport
<1>2. CASE ~X.t.failure
  BY <1>2 DEF TakeFailure
<1>3. CASE X.t.failure
  <2> DEFINE A == [X EXCEPT !.t.failure = FALSE]
  <2>1. /\ DOMAIN A = DOMAIN X
        /\ A.c = X.c /\ A.w = X.w /\ A.act = X.act /\ A.ses = X.ses
        /\ A.t = [X.t EXCEPT !.failure = FALSE]
    BY DEF Running, Sound, IsState
  <2>2. TakeFailure(X) = BeginClose(A)
    BY <1>3 DEF TakeFailure
  <2> HIDE DEF A
  <2>3. IsTransport(A.t) /\ A.t.failure = FALSE
    BY <2>1 DEF Running, Sound, IsState, IsTransport
  <2>4. /\ A.t.closed = X.t.closed /\ A.t.inbound = X.t.inbound
        /\ A.t.frag = X.t.frag /\ A.t.doing = X.t.doing /\ A.t.pc = X.t.pc
        /\ A.t.down = X.t.down /\ A.t.current = X.t.current
        /\ A.t.out = X.t.out /\ A.t.bytes = X.t.bytes /\ A.t.items = X.t.items
        /\ A.t.phase = X.t.phase /\ A.t.ctx = X.t.ctx
    BY <2>1 DEF Running, Sound, IsState, IsTransport
  <2>5. Shape(A)
    BY <2>1, <2>3, <2>4 DEF Running, Sound, Shape
  <2>6. SlotOwned(A) /\ LaneOwned(A) /\ Charged(A)
    BY <2>1, <2>3, <2>4 DEF Running, Sound, SlotOwned, LaneOwned, Charged
  <2>7. Running(A)
    BY <2>1, <2>3, <2>4, <2>5, <2>6 DEF Running, Sound, IsState
  <2>8. Ending(A, BeginClose(A))
    BY <2>7, BeginCloseEffect
  <2> QED
    BY <2>2, <2>3, <2>8 DEF Ending, Fed
<1> QED
  BY <1>1, <1>2, <1>3


(* Y is a state in which every claim is as in X.                           *)
SameClaims(X, Y) ==
  /\ IsState(Y) /\ Y.c = X.c /\ Y.w = X.w /\ Y.act = X.act /\ Y.ses = X.ses
  /\ Y.t.phase = X.t.phase /\ Y.t.ctx = X.t.ctx /\ Y.t.closed = X.t.closed
  /\ Y.t.inbound = X.t.inbound /\ Y.t.frag = X.t.frag
  /\ Y.t.doing = X.t.doing /\ Y.t.pc = X.t.pc /\ Y.t.down = X.t.down
  /\ Y.t.current = X.t.current /\ Y.t.out = X.t.out
  /\ Y.t.bytes = X.t.bytes /\ Y.t.items = X.t.items
  /\ X.t.phase \in {"none", "handshake"} => Unstarted(Y.t)

(* Where every claim is as before, the state is sound as before.           *)
LEMMA SameClaimsSound ==
  ASSUME NEW X, NEW Y, Sound(X), SameClaims(X, Y)
  PROVE  Sound(Y)
<1>1. Shape(Y)
  BY DEF Sound, Shape, SameClaims
<1>2. SlotOwned(Y)
  BY DEF Sound, SlotOwned, SameClaims
<1>3. LaneOwned(Y) /\ Charged(Y)
  BY DEF Sound, LaneOwned, Charged, SameClaims
<1> QED
  BY <1>1, <1>2, <1>3 DEF Sound, SameClaims

(* The loop has taken the failure and the results; while the transport is  *)
(* open its uplink worker runs.                                            *)
Checked(X) ==
  /\ Running(X) /\ ~X.t.failure /\ X.t.results = <<>>
  /\ X.t.phase = "open" => X.t.pc # "none"

(* The loop takes the results: an error ends the transport, so an open one *)
(* still has its worker.                                                   *)
LEMMA TakeResultsEffect ==
  ASSUME NEW X, Running(X), Fed(X), ~X.t.failure
  PROVE  /\ Running(TakeResults(X))
         /\ TakeResults(X).act = "close" \/ Checked(TakeResults(X))
<1> DEFINE n == Len(X.t.results)
           A == [X EXCEPT !.t.results = <<>>, !.t.up = @ - n]
<1>1. X.t.results \in Seq({"ok", "err"}) /\ X.t.up \in Nat
  BY DEF Running, Sound, IsState, IsTransport
<1>2. n \in Nat
  BY <1>1
<1>3. CASE n > X.t.up
  <2>1. TakeResults(X) = Closing(X)
    BY <1>1, <1>2, <1>3 DEF TakeResults
  <2> QED
    BY <2>1, ClosingEffect DEF Running
<1>4. CASE ~(n > X.t.up)
  <2>1. /\ DOMAIN A = DOMAIN X
        /\ A.c = X.c /\ A.w = X.w /\ A.act = X.act /\ A.ses = X.ses
        /\ A.t = [X.t EXCEPT !.results = <<>>, !.up = @ - n]
    BY DEF Running, Sound, IsState
  <2>2. TakeResults(X) = IF "err" \in Range(X.t.results) THEN BeginClose(A)
                         ELSE A
    BY <1>1, <1>2, <1>4 DEF TakeResults
  <2> HIDE DEF A
  <2>3. X.t.up - n \in Nat
    BY <1>1, <1>2, <1>4
  <2> HIDE DEF n
  <2>4. IsTransport(A.t) /\ A.t.results = <<>> /\ A.t.failure = X.t.failure
    BY <2>1, <2>3 DEF Running, Sound, IsState, IsTransport
  <2>5. SameClaims(X, A)
    BY <2>1, <2>4 DEF Running, Sound, IsState, IsTransport, SameClaims
  <2>6. Running(A)
    BY <2>5, SameClaimsSound DEF Running, SameClaims
  <2>7. CASE "err" \in Range(X.t.results)
    <3>1. Ending(A, BeginClose(A))
      BY <2>6, BeginCloseEffect
    <3> QED
      BY <2>2, <2>4, <2>7, <3>1 DEF Ending, Checked
  <2>8. CASE "err" \notin Range(X.t.results)
    <3>1. X.t.phase = "open" => X.t.pc # "none"
      BY <2>8 DEF Running, Fed
    <3>2. Checked(A)
      BY <2>4, <2>5, <2>6, <3>1 DEF Checked, SameClaims
    <3> QED
      BY <2>2, <2>6, <2>8, <3>2
  <2> QED
    BY <2>7, <2>8
<1> QED
  BY <1>3, <1>4

(* Y is X after the loop has seen to its writes.                           *)
Pumped(X, Y) ==
  /\ Running(Y)
  /\ \/ Y.act = "close"
     \/ Checked(Y) /\ OutWakes(Y) /\ (InputWakes(X) => InputWakes(Y))

(* The items that are written and that wait.                               *)
LEMMA ItemFacts ==
  ASSUME NEW q \in Seq(Items), q # <<>>
  PROVE  /\ Head(q) \in Items /\ Head(q) # NoItem /\ Tail(q) \in Seq(Items)
         /\ \A i \in Range(q) : i = Head(q) \/ i \in Range(Tail(q))
         /\ NoItem.lease = FALSE
<1>1. Head(q) \in Items /\ Tail(q) \in Seq(Items)
  OBVIOUS
<1>2. NoItem.lease = FALSE /\ NoItem.type = "none"
  BY DEF NoItem, Item
<1>3. \A i \in Items : i.type # "none"
  BY DEF Items
<1>4. ASSUME NEW k \in DOMAIN q
      PROVE  q[k] = Head(q) \/ q[k] \in Range(Tail(q))
  <2>1. CASE k = 1
    BY <2>1
  <2>2. CASE k # 1
    <3>1. k - 1 \in DOMAIN Tail(q) /\ Tail(q)[k - 1] = q[k]
      BY <2>2
    <3> QED
      BY <3>1 DEF Range
  <2> QED
    BY <2>1, <2>2
<1> QED
  BY <1>1, <1>2, <1>3, <1>4 DEF Range

(* The next item is written, refused, or waits for a drain that wakes.     *)
LEMMA PumpNextEffect ==
  ASSUME NEW X, Checked(X), X.t.current = NoItem, NEW ok \in BOOLEAN
  PROVE  Pumped(X, PumpNext(X, ok))
<1>1. Sound(X) /\ IsState(X) /\ IsTransport(X.t)
  BY DEF Checked, Running, Sound, IsState
<1>2. CASE X.t.out = <<>>
  BY <1>2 DEF PumpNext, Pumped, Checked, OutWakes
<1>3. CASE X.t.out # <<>>
  <2> DEFINE A == [X EXCEPT !.t.current = Head(X.t.out), !.t.out = Tail(@),
                            !.t.writing = TRUE]
             B == ArmDeadline(A, "write")
             F == FinishCurrent(B, "err")
  <2>1. /\ DOMAIN A = DOMAIN X
        /\ A.c = X.c /\ A.w = X.w /\ A.act = X.act /\ A.ses = X.ses
        /\ A.t = [X.t EXCEPT !.current = Head(X.t.out), !.out = Tail(@),
                             !.writing = TRUE]
    BY <1>1 DEF IsState
  <2>2. PumpNext(X, ok) = IF ok THEN B ELSE Closing(F)
    BY <1>3 DEF PumpNext
  <2> HIDE DEF A
  <2>3. X.t.out \in Seq(Items)
    BY <1>1 DEF IsTransport
  <2>4. /\ Head(X.t.out) \in Items /\ Head(X.t.out) # NoItem
        /\ Tail(X.t.out) \in Seq(Items)
        /\ \A i \in Range(X.t.out) :
             i = Head(X.t.out) \/ i \in Range(Tail(X.t.out))
        /\ NoItem.lease = FALSE
    BY <1>3, <2>3, ItemFacts
  <2>5. IsTransport(A.t)
    BY <1>1, <2>1, <2>4 DEF IsTransport
  <2>6. /\ A.t.closed = X.t.closed /\ A.t.inbound = X.t.inbound
        /\ A.t.frag = X.t.frag /\ A.t.doing = X.t.doing /\ A.t.pc = X.t.pc
        /\ A.t.down = X.t.down /\ A.t.current = Head(X.t.out)
        /\ A.t.out = Tail(X.t.out) /\ A.t.writing = TRUE
        /\ A.t.bytes = X.t.bytes /\ A.t.items = X.t.items
        /\ A.t.phase = X.t.phase /\ A.t.ctx = X.t.ctx /\ A.t.up = X.t.up
        /\ A.t.failure = X.t.failure /\ A.t.results = X.t.results
    BY <1>1, <2>1 DEF IsTransport
  <2>7. Shape(A)
    BY <1>1, <2>1, <2>6 DEF Checked, Running, Sound, Shape
  <2>8. SlotOwned(A)
    BY <1>1, <2>1, <2>4, <2>6 DEF Sound, SlotOwned
  <2>9. LaneOwned(A) /\ Charged(A)
    BY <1>1, <2>1, <2>6 DEF Sound, LaneOwned, Charged
  <2>10. IsState(A)
    BY <1>1, <2>1, <2>5 DEF IsState
  <2>11. Sound(A)
    BY <2>7, <2>8, <2>9, <2>10 DEF Sound
  <2>12. /\ Checked(A) /\ OutWakes(A)
         /\ InputWakes(X) => InputWakes(A)
    BY <2>1, <2>4, <2>6, <2>11 DEF Checked, Running, OutWakes, InputWakes
  <2>13. Timed(A, B)
    BY <2>10, DeadlineTimed
  <2> HIDE DEF B
  <2>14. /\ Sound(B) /\ OutWakes(B) /\ (InputWakes(X) => InputWakes(B))
    BY <2>11, <2>12, <2>13, TimedSound
  <2>15. Checked(B)
    BY <2>12, <2>13, <2>14 DEF Timed, Checked, Running
  <2>16. Pumped(X, B)
    BY <2>14, <2>15 DEF Pumped, Checked
  <2>17. Finished(B, F)
    BY <2>14, FinishCurrentEffect DEF Sound
  <2> HIDE DEF F
  <2>18. Sound(F)
    BY <2>14, <2>17, FinishedSound
  <2>19. Running(Closing(F)) /\ Closing(F).act = "close"
    BY <2>15, <2>17, <2>18, ClosingEffect DEF Finished, Checked, Running
  <2> QED
    BY <2>2, <2>16, <2>19 DEF Pumped
<1> QED
  BY <1>2, <1>3

(* pumpWrites leaves no item without someone to write it.                  *)
LEMMA PumpEffect ==
  ASSUME NEW X, Checked(X), NEW ok \in BOOLEAN
  PROVE  Pumped(X, PumpWrites(X, ok))
<1>1. /\ Sound(X) /\ IsState(X) /\ X.t.writing \in BOOLEAN
      /\ X.c.out \in BOOLEAN
  BY DEF Checked, Running, Sound, IsState, IsTransport, IsConn
<1>2. CASE X.t.current = NoItem
  <2>1. PumpWrites(X, ok) = PumpNext(X, ok)
    BY <1>2 DEF PumpWrites
  <2> QED
    BY <1>2, <2>1, PumpNextEffect
<1>3. CASE X.t.current # NoItem /\ X.t.writing
  <2>1. PumpWrites(X, ok) = X
    BY <1>3 DEF PumpWrites
  <2> QED
    BY <1>3, <2>1 DEF Pumped, Checked, OutWakes
<1>4. CASE X.t.current # NoItem /\ ~X.t.writing /\ X.c.out
  <2> DEFINE Y == ArmDrainWake(X)
  <2>1. PumpWrites(X, ok) = Y
    BY <1>4 DEF PumpWrites
  <2>2. Timed(X, Y) /\ Y.c.drain
    BY <1>1, WakeTimed
  <2> HIDE DEF Y
  <2>3. Sound(Y) /\ (InputWakes(X) => InputWakes(Y))
    BY <1>1, <2>2, TimedSound
  <2>4. Checked(Y) /\ OutWakes(Y)
    BY <1>4, <2>2, <2>3 DEF Checked, Running, Timed, OutWakes
  <2> QED
    BY <2>1, <2>3, <2>4 DEF Pumped, Checked
<1>5. CASE X.t.current # NoItem /\ ~X.t.writing /\ ~X.c.out
  <2> DEFINE B == InvalidateDeadline(X)
             F == FinishCurrent(B, "ok")
  <2>1. PumpWrites(X, ok) = IF X.t.current.type = "close" THEN Closing(F)
                            ELSE PumpNext(F, ok)
    BY <1>5 DEF PumpWrites
  <2>2. Timed(X, B)
    BY <1>1, DeadlineTimed
  <2> HIDE DEF B
  <2>3. Sound(B) /\ (InputWakes(X) => InputWakes(B))
    BY <1>1, <2>2, TimedSound
  <2>4. Checked(B)
    BY <2>2, <2>3 DEF Checked, Running, Timed
  <2>5. Finished(B, F)
    BY <2>3, FinishCurrentEffect DEF Sound
  <2> HIDE DEF F
  <2>6. Sound(F)
    BY <2>3, <2>5, FinishedSound
  <2>7. /\ Checked(F) /\ F.t.current = NoItem
        /\ InputWakes(X) => InputWakes(F)
    BY <2>3, <2>4, <2>5, <2>6 DEF Checked, Running, Finished, InputWakes
  <2>8. Pumped(F, PumpNext(F, ok))
    BY <2>7, PumpNextEffect
  <2>9. Running(Closing(F)) /\ Closing(F).act = "close"
    BY <2>6, <2>7, ClosingEffect DEF Checked, Running
  <2> QED
    BY <2>1, <2>7, <2>8, <2>9 DEF Pumped
<1> QED
  BY <1>1, <1>2, <1>3, <1>4, <1>5


(* Y is X with one more unit of the open message charged.                  *)
Grown(X, Y) ==
  /\ Sound(Y) /\ Y.c = X.c /\ Y.w = X.w /\ Y.act = X.act
  /\ Y.t.phase = X.t.phase /\ Y.t.up = X.t.up /\ Y.t.results = X.t.results
  /\ Y.t.failure = X.t.failure /\ Y.t.pc = X.t.pc
  /\ Y.t.frag = X.t.frag + 1

(* A payload that was reserved is charged to the transport and to the      *)
(* session.                                                                *)
LEMMA ReserveEffect ==
  ASSUME NEW X, Sound(X), X.t.phase = "open", X.c.open, NEW g \in BOOLEAN,
         ReservePayload(X, g).ok
  PROVE  Grown(X, ReservePayload(X, g).x)
<1> DEFINE r == IF X.t.frag = 0 THEN Reserve(X, 1, g) ELSE Grow(X, 1, g)
           k == IF X.t.frag = 0 THEN 1 ELSE 0
           Y == ReservePayload(X, g).x
<1>1. /\ IsState(X) /\ IsTransport(X.t) /\ IsSession(X.ses)
      /\ X.t.frag \in Nat /\ X.t.doing \in Nat
      /\ X.t.items \in Int /\ X.t.bytes \in Int
      /\ X.ses.items \in Int /\ X.ses.bytes \in Int
      /\ Sizes(X.t.inbound) \in Nat /\ Len(X.t.inbound) \in Nat
  BY SizesNat DEF Sound, IsState, IsTransport, IsSession
<1>2. k \in Int
  OBVIOUS
<1>3. ~X.ses.done /\ DOMAIN r = {"ok", "x"}
  BY DEF ReservePayload, Reserve, Grow
<1>4. Y = [r.x EXCEPT !.t.frag = @ + 1]
  BY <1>3 DEF ReservePayload
<1>5. /\ DOMAIN r.x = DOMAIN X
      /\ r.x.c = X.c /\ r.x.w = X.w /\ r.x.act = X.act
      /\ r.x.t = IF X.t.frag = 0
                 THEN [X.t EXCEPT !.items = @ + 1, !.bytes = @ + 1]
                 ELSE [X.t EXCEPT !.bytes = @ + 1]
      /\ r.x.ses = IF X.t.frag = 0
                   THEN [X.ses EXCEPT !.items = @ + 1, !.bytes = @ + 1]
                   ELSE [X.ses EXCEPT !.bytes = @ + 1]
  <2>1. CASE X.t.frag = 0
    BY <1>1, <2>1 DEF IsState, Reserve
  <2>2. CASE X.t.frag # 0
    BY <1>1, <2>2 DEF IsState, Grow
  <2> QED
    BY <2>1, <2>2
<1> HIDE DEF r, Y
<1>6. /\ DOMAIN Y = DOMAIN X
      /\ Y.c = X.c /\ Y.w = X.w /\ Y.act = X.act /\ Y.ses = r.x.ses
      /\ Y.t = [r.x.t EXCEPT !.frag = @ + 1]
  BY <1>1, <1>4, <1>5 DEF IsState
<1>7. /\ IsSession(Y.ses) /\ Y.ses.done = X.ses.done
      /\ Y.ses.slot = X.ses.slot /\ Y.ses.held = X.ses.held
      /\ Y.ses.items = X.ses.items + k /\ Y.ses.bytes = X.ses.bytes + 1
  BY <1>1, <1>5, <1>6 DEF IsSession
<1>8. /\ r.x.t.frag = X.t.frag
      /\ r.x.t.items = X.t.items + k /\ r.x.t.bytes = X.t.bytes + 1
      /\ IsTransport(r.x.t)
      /\ r.x.t.phase = X.t.phase /\ r.x.t.ctx = X.t.ctx
      /\ r.x.t.closed = X.t.closed /\ r.x.t.inbound = X.t.inbound
      /\ r.x.t.doing = X.t.doing /\ r.x.t.pc = X.t.pc
      /\ r.x.t.down = X.t.down /\ r.x.t.current = X.t.current
      /\ r.x.t.out = X.t.out /\ r.x.t.up = X.t.up
      /\ r.x.t.results = X.t.results /\ r.x.t.failure = X.t.failure
  <2>1. CASE X.t.frag = 0
    <3> DEFINE i == X.t.items + 1
               n == X.t.bytes + 1
    <3>1. i \in Int /\ n \in Int /\ i = X.t.items + k /\ n = X.t.bytes + 1
      BY <1>1, <2>1
    <3>2. r.x.t = [X.t EXCEPT !.items = i, !.bytes = n]
      BY <1>5, <2>1
    <3> HIDE DEF i, n, k
    <3> QED
      BY <1>1, <3>1, <3>2 DEF IsTransport
  <2>2. CASE X.t.frag # 0
    <3> DEFINE n == X.t.bytes + 1
    <3>1. n \in Int /\ X.t.items = X.t.items + k /\ n = X.t.bytes + 1
      BY <1>1, <2>2
    <3>2. r.x.t = [X.t EXCEPT !.bytes = n]
      BY <1>5, <2>2
    <3> HIDE DEF n, k
    <3> QED
      BY <1>1, <3>1, <3>2 DEF IsTransport
  <2> QED
    BY <2>1, <2>2
<1>9. /\ IsTransport(Y.t) /\ Y.t.frag = X.t.frag + 1
      /\ Y.t.items = X.t.items + k /\ Y.t.bytes = X.t.bytes + 1
      /\ Y.t.phase = X.t.phase /\ Y.t.ctx = X.t.ctx
      /\ Y.t.closed = X.t.closed /\ Y.t.inbound = X.t.inbound
      /\ Y.t.doing = X.t.doing /\ Y.t.pc = X.t.pc
      /\ Y.t.down = X.t.down /\ Y.t.current = X.t.current
      /\ Y.t.out = X.t.out /\ Y.t.up = X.t.up
      /\ Y.t.results = X.t.results /\ Y.t.failure = X.t.failure
  <2> DEFINE R == r.x.t
  <2>1. Y.t = [R EXCEPT !.frag = @ + 1] /\ IsTransport(R)
    BY <1>6, <1>8
  <2> HIDE DEF R
  <2>2. IsTransport(Y.t)
    BY <2>1 DEF IsTransport
  <2>3. /\ Y.t.frag = R.frag + 1 /\ Y.t.items = R.items
        /\ Y.t.bytes = R.bytes /\ Y.t.phase = R.phase /\ Y.t.ctx = R.ctx
        /\ Y.t.closed = R.closed /\ Y.t.inbound = R.inbound
        /\ Y.t.doing = R.doing /\ Y.t.pc = R.pc /\ Y.t.down = R.down
        /\ Y.t.current = R.current /\ Y.t.out = R.out /\ Y.t.up = R.up
        /\ Y.t.results = R.results /\ Y.t.failure = R.failure
    BY <2>1 DEF IsTransport
  <2> HIDE DEF k
  <2> QED
    BY <1>8, <2>2, <2>3 DEF R
<1>10. Charged(Y)
  <2> DEFINE o == One(X.t.doing)
  <2>1. One(X.t.frag) = 1 - k /\ One(Y.t.frag) = 1 /\ o \in Nat
    BY <1>1, <1>9 DEF One
  <2>2. /\ X.t.bytes = Sizes(X.t.inbound) + X.t.doing + X.t.frag
        /\ X.t.items = Len(X.t.inbound) + o + One(X.t.frag)
        /\ X.ses.bytes = X.t.bytes /\ X.ses.items = X.t.items
    BY <1>3 DEF Sound, Charged
  <2> HIDE DEF o, k
  <2>3. Y.t.bytes = Sizes(Y.t.inbound) + Y.t.doing + Y.t.frag
    <3>1. \A a, d, f \in Int : (a + d + f) + 1 = a + d + (f + 1)
      OBVIOUS
    <3>2. Y.t.bytes = (Sizes(X.t.inbound) + X.t.doing + X.t.frag) + 1
      BY <1>9, <2>2
    <3>3. /\ Sizes(X.t.inbound) \in Int /\ X.t.doing \in Int
          /\ X.t.frag \in Int
      BY <1>1
    <3>4. (Sizes(X.t.inbound) + X.t.doing + X.t.frag) + 1
            = Sizes(X.t.inbound) + X.t.doing + (X.t.frag + 1)
      BY <3>1, <3>3
    <3> QED
      BY <1>9, <3>2, <3>4
  <2>4. Y.t.items = Len(Y.t.inbound) + o + One(Y.t.frag)
    BY <1>1, <1>2, <1>9, <2>1, <2>2
  <2>5. Y.ses.bytes = Y.t.bytes /\ Y.ses.items = Y.t.items
    BY <1>7, <1>9, <2>2
  <2> QED
    BY <1>9, <2>3, <2>4, <2>5 DEF Charged, o
<1>11. Shape(Y)
  BY <1>6, <1>9 DEF Sound, Shape
<1>12. SlotOwned(Y) /\ LaneOwned(Y)
  BY <1>6, <1>7, <1>9 DEF Sound, SlotOwned, LaneOwned
<1>13. IsState(Y)
  BY <1>1, <1>6, <1>7, <1>9 DEF IsState
<1> QED
  BY <1>6, <1>9, <1>10, <1>11, <1>12, <1>13 DEF Sound, Grown, Y

(* Y is X with a frame taken from the input, whether or not it is valid.   *)
LEMMA ReadFrameEffect ==
  ASSUME NEW X, Checked(X), X.t.phase = "open", X.c.in # <<>>,
         NEW g \in BOOLEAN
  PROVE  LET F == ReadFrame(X, g)
         IN  /\ Checked(F.x) /\ F.x.t.phase = "open"
             /\ F.ok /\ Head(X.c.in) \in {"bin", "fin"} => F.x.t.frag # 0
<1> DEFINE m == Head(X.c.in)
           data == m \in {"bin", "part", "fin"}
           r == ReservePayload(X, g)
           F == ReadFrame(X, g)
           bad == \/ ~ValidHeader(X.t, m)
                  \/ data /\ ~r.ok
                  \/ m = "close" /\ Tail(X.c.in) # <<>>
           A == IF data /\ ~bad THEN r.x ELSE X
           k == IF m \in Control THEN A.t.ctlIn + 1 ELSE 0
           Y == [A EXCEPT !.c.in = Tail(X.c.in), !.t.ctlIn = k]
<1>1. Sound(X) /\ X.c.open /\ X.t.frag \in Nat /\ Tail(X.c.in) \in Seq(Inputs)
  BY DEF Checked, Running, Sound, IsState, IsTransport, IsConn
<1>2. F.x = Y /\ F.ok = ~bad
  BY DEF ReadFrame
<1>3. data /\ ~bad => Grown(X, A)
  BY <1>1, ReserveEffect
<1>4. ~(data /\ ~bad) => A = X
  OBVIOUS
<1>5. data /\ ~bad => A.t.frag # 0
  BY <1>1, <1>3 DEF Grown
<1>6. m \in {"bin", "fin"} => data
  OBVIOUS
<1> HIDE DEF A, bad, data
<1>7. Checked(A) /\ A.t.phase = "open"
  BY <1>3, <1>4 DEF Grown, Checked, Running
<1>8. IsState(A) /\ k \in Int
  BY <1>7 DEF Checked, Running, Sound, IsState, IsTransport
<1> HIDE DEF k
<1>9. /\ DOMAIN Y = DOMAIN A /\ Y.w = A.w /\ Y.act = A.act /\ Y.ses = A.ses
      /\ Y.c = [A.c EXCEPT !.in = Tail(X.c.in)]
      /\ Y.t = [A.t EXCEPT !.ctlIn = k]
  BY <1>8 DEF IsState
<1> HIDE DEF Y
<1>10. /\ IsConn(Y.c) /\ Y.c.open = A.c.open /\ Y.c.active = A.c.active
      /\ Y.c.draining = A.c.draining /\ Y.c.lease = A.c.lease
  BY <1>1, <1>8, <1>9 DEF IsState, IsConn
<1>11. /\ IsTransport(Y.t)
       /\ Y.t.phase = A.t.phase /\ Y.t.ctx = A.t.ctx
       /\ Y.t.closed = A.t.closed /\ Y.t.inbound = A.t.inbound
       /\ Y.t.doing = A.t.doing /\ Y.t.pc = A.t.pc
       /\ Y.t.down = A.t.down /\ Y.t.current = A.t.current
       /\ Y.t.out = A.t.out /\ Y.t.frag = A.t.frag
       /\ Y.t.items = A.t.items /\ Y.t.bytes = A.t.bytes
       /\ Y.t.results = A.t.results /\ Y.t.failure = A.t.failure
  BY <1>8, <1>9 DEF IsState, IsTransport
<1>12. Shape(Y)
  BY <1>7, <1>9, <1>10, <1>11 DEF Checked, Running, Sound, Shape
<1>13. SlotOwned(Y) /\ LaneOwned(Y)
  BY <1>7, <1>9, <1>10, <1>11
     DEF Checked, Running, Sound, SlotOwned, LaneOwned
<1>14. Charged(Y)
  BY <1>7, <1>9, <1>11 DEF Checked, Running, Sound, Charged
<1>15. IsState(Y)
  BY <1>8, <1>9, <1>10, <1>11 DEF IsState
<1>16. Checked(Y) /\ Y.t.phase = "open"
  BY <1>7, <1>10, <1>11, <1>12, <1>13, <1>14, <1>15
     DEF Checked, Running, Sound
<1>17. F.ok /\ m \in {"bin", "fin"} => Y.t.frag # 0
  BY <1>2, <1>5, <1>6, <1>11
<1> QED
  BY <1>2, <1>16, <1>17

(* A callback that is not over yet goes on from a checked state.           *)
Going(Y) == Running(Y) /\ (Y.act = "close" \/ Checked(Y))

(* A decoded frame: a whole message moves its charge to the worker, a      *)
(* control frame is answered, a bad one closes.                            *)
LEMMA EmitEffect ==
  ASSUME NEW X, Checked(X), X.t.phase = "open", NEW m,
         m \in {"bin", "fin"} => X.t.frag # 0
  PROVE  Going(Emit(X, m))
<1>1. /\ Running(X) /\ Sound(X) /\ IsState(X) /\ IsTransport(X.t)
  BY DEF Checked, Running, Sound, IsState
<1>2. CASE m \in {"bin", "fin"}
  <2> DEFINE e == [size |-> X.t.frag, chunked |-> m = "fin"]
             A == [X EXCEPT !.t.inbound = Append(@, e), !.t.frag = 0,
                            !.t.up = @ + 1]
             Y == TouchLiveness(A)
  <2>1. Emit(X, m) = Y
    BY <1>2 DEF Emit
  <2>2. /\ DOMAIN A = DOMAIN X
        /\ A.c = X.c /\ A.w = X.w /\ A.act = X.act /\ A.ses = X.ses
        /\ A.t = [X.t EXCEPT !.inbound = Append(@, e), !.frag = 0,
                             !.up = @ + 1]
    BY <1>1 DEF IsState
  <2> HIDE DEF A
  <2>3. /\ X.t.inbound \in Seq(Owned) /\ X.t.frag \in Nat /\ X.t.up \in Nat
        /\ X.t.doing \in Nat
    BY <1>1 DEF IsTransport
  <2>4. e \in Owned /\ e.size = X.t.frag
    BY <1>2, <2>3 DEF Owned
  <2> HIDE DEF e
  <2>5. /\ Append(X.t.inbound, e) \in Seq(Owned)
        /\ Len(Append(X.t.inbound, e)) = Len(X.t.inbound) + 1
        /\ Len(X.t.inbound) \in Nat
    BY <2>3, <2>4
  <2>6. /\ Sizes(Append(X.t.inbound, e)) = Sizes(X.t.inbound) + X.t.frag
        /\ Sizes(X.t.inbound) \in Nat
    BY <2>3, <2>4, SizesAppend, SizesNat
  <2>7. /\ IsTransport(A.t) /\ A.t.inbound = Append(X.t.inbound, e)
        /\ A.t.frag = 0 /\ A.t.up = X.t.up + 1
    <3>1. DOMAIN X.t = TransportFields
      BY <1>1, TransportDomain
    <3>2. /\ A.t.inbound = Append(X.t.inbound, e)
          /\ A.t.frag = 0 /\ A.t.up = X.t.up + 1
      BY <2>2, <3>1 DEF TransportFields
    <3> DEFINE q == Append(X.t.inbound, e)
               n == X.t.up + 1
    <3>3. q \in Seq(Owned) /\ n \in Nat
      BY <2>3, <2>5
    <3>4. A.t = [X.t EXCEPT !.inbound = q, !.frag = 0, !.up = n]
      BY <2>2
    <3> HIDE DEF q, n
    <3>5. IsTransport(A.t)
      BY <1>1, <3>3, <3>4 DEF IsTransport
    <3> QED
      BY <3>2, <3>5
  <2>8. /\ A.t.phase = X.t.phase /\ A.t.ctx = X.t.ctx
        /\ A.t.closed = X.t.closed
        /\ A.t.doing = X.t.doing /\ A.t.pc = X.t.pc
        /\ A.t.down = X.t.down /\ A.t.current = X.t.current
        /\ A.t.out = X.t.out
        /\ A.t.items = X.t.items /\ A.t.bytes = X.t.bytes
        /\ A.t.results = X.t.results /\ A.t.failure = X.t.failure
    BY <1>1, <2>2 DEF IsTransport
  <2>9. Charged(A)
    <3> DEFINE o == One(X.t.doing)
    <3>1. One(X.t.frag) = 1 /\ One(A.t.frag) = 0 /\ o \in Nat
      BY <1>2, <2>7 DEF One
    <3>2. /\ X.t.bytes = Sizes(X.t.inbound) + X.t.doing + X.t.frag
          /\ X.t.items = Len(X.t.inbound) + o + One(X.t.frag)
      BY <1>1 DEF Sound, Charged
    <3>3. A.t.bytes = Sizes(A.t.inbound) + A.t.doing + A.t.frag
      BY <2>3, <2>6, <2>7, <2>8, <3>2
    <3> HIDE DEF o
    <3>4. A.t.items = Len(A.t.inbound) + o + One(A.t.frag)
      BY <2>5, <2>7, <2>8, <3>1, <3>2
    <3> QED
      BY <1>1, <2>2, <2>8, <3>3, <3>4 DEF Sound, Charged, o
  <2>10. Shape(A)
    BY <1>1, <2>2, <2>8 DEF Sound, Shape, Checked, Running
  <2>11. SlotOwned(A) /\ LaneOwned(A)
    BY <1>1, <2>2, <2>8 DEF Sound, SlotOwned, LaneOwned
  <2>12. IsState(A) /\ Sound(A)
    BY <1>1, <2>2, <2>7, <2>9, <2>10, <2>11 DEF IsState, Sound
  <2>13. Timed(A, Y)
    BY <2>12, TouchTimed
  <2> HIDE DEF Y
  <2>14. Sound(Y)
    BY <2>12, <2>13, TimedSound
  <2>15. Checked(Y)
    BY <2>2, <2>8, <2>13, <2>14 DEF Timed, Checked, Running
  <2> QED
    BY <2>1, <2>15 DEF Going, Checked
<1>3. CASE m = "ping"
  <2> DEFINE i == Item("pong", FALSE)
             A == Enqueue(X, i)
             Y == [A EXCEPT !.t.pongs = @ + 1]
  <2>1. Emit(X, m) = IF CanEnqueue(X.t) THEN Y ELSE Closing(X)
    BY <1>3 DEF Emit
  <2>2. i \in Items
    BY DEF Item, Items
  <2>3. Enqueued(X, A, i)
    BY <1>1, <2>2, EnqueueEffect
  <2> HIDE DEF A
  <2>4. /\ Sound(A) /\ IsState(A) /\ IsTransport(A.t) /\ A.c = X.c
        /\ A.t.phase = X.t.phase /\ A.t.pc = X.t.pc
        /\ A.t.results = X.t.results /\ A.t.failure = X.t.failure
    BY <1>1, <2>3 DEF Enqueued, Sound, IsState, IsTransport
  <2>5. /\ DOMAIN Y = DOMAIN A
        /\ Y.c = A.c /\ Y.w = A.w /\ Y.act = A.act /\ Y.ses = A.ses
        /\ Y.t = [A.t EXCEPT !.pongs = @ + 1]
    BY <2>4 DEF IsState
  <2> HIDE DEF Y
  <2>6. IsTransport(Y.t)
    <3> DEFINE n == A.t.pongs + 1
    <3>1. n \in Int
      BY <2>4 DEF IsTransport
    <3>2. Y.t = [A.t EXCEPT !.pongs = n]
      BY <2>5
    <3> HIDE DEF n
    <3> QED
      BY ONLY <2>4, <3>1, <3>2 DEF IsTransport
  <2>7. SameClaims(A, Y) /\ Y.t.results = A.t.results
        /\ Y.t.failure = A.t.failure
    BY <2>4, <2>5, <2>6 DEF SameClaims, IsState, IsTransport
  <2>8. Sound(Y)
    BY <2>4, <2>7, SameClaimsSound
  <2>9. Checked(Y)
    BY <2>4, <2>7, <2>8 DEF SameClaims, Checked, Running
  <2>10. Running(Closing(X)) /\ Closing(X).act = "close"
    BY <1>1, ClosingEffect DEF Running
  <2> QED
    BY <2>1, <2>9, <2>10 DEF Going, Checked
<1>4. CASE m = "pong"
  <2> DEFINE Y == TouchLiveness(X)
  <2>1. Emit(X, m) = Y
    BY <1>4 DEF Emit
  <2>2. Timed(X, Y)
    BY <1>1, TouchTimed
  <2> HIDE DEF Y
  <2>3. Sound(Y)
    BY <1>1, <2>2, TimedSound
  <2>4. Checked(Y)
    BY <2>2, <2>3 DEF Timed, Checked, Running
  <2> QED
    BY <2>1, <2>4 DEF Going, Checked
<1>5. CASE m = "close"
  <2>1. Emit(X, m) = BeginClose(X)
    BY <1>5 DEF Emit
  <2>2. Ending(X, BeginClose(X))
    BY <1>1, BeginCloseEffect
  <2> QED
    BY <2>1, <2>2 DEF Ending, Going, Checked
<1>6. CASE m \notin {"bin", "fin", "ping", "pong", "close"}
  <2>1. Emit(X, m) = X
    BY <1>6 DEF Emit
  <2> QED
    BY <2>1 DEF Going, Checked
<1> QED
  BY <1>2, <1>3, <1>4, <1>5, <1>6


(* What a callback does not decide.                                        *)
Opts == [ok : BOOLEAN, granted : BOOLEAN, stuck : BOOLEAN, limit : BOOLEAN]

(* The callback has come to its end, or it has checked its input too.      *)
Heard(Y) == Running(Y) /\ (Y.act = "close" \/ (Checked(Y) /\ InputWakes(Y)))

(* A transport that does not go on decoding has nothing to decode, is      *)
(* closing, or waits for its uplink worker.                                *)
LEMMA Undecodable ==
  ASSUME NEW X, Checked(X),
         ~(X.c.in # <<>> /\ X.t.phase = "open" /\ CanDecode(X))
  PROVE  InputWakes(X)
<1>1. X.t.up \in Nat
  BY DEF Checked, Running, Sound, IsState, IsTransport
<1> QED
  BY <1>1 DEF Checked, Running, InputWakes, CanDecode

(* Input left at the end of a callback is decoded in another one.          *)
LEMMA MoreEffect ==
  ASSUME NEW X, Checked(X), NEW p \in BOOLEAN
  PROVE  Heard(IF X.c.in # <<>> /\ X.t.phase = "open" /\ CanDecode(X)
               THEN IF p THEN ArmDrainWake(X) ELSE Wake(X)
               ELSE X)
<1>1. Sound(X) /\ IsState(X)
  BY DEF Checked, Running, Sound
<1>2. ASSUME NEW Y, Timed(X, Y), Y.c.wake \/ Y.c.drain
      PROVE  Heard(Y)
  <2>1. Sound(Y)
    BY <1>1, <1>2, TimedSound
  <2>2. Checked(Y)
    BY <1>2, <2>1 DEF Timed, Checked, Running
  <2> QED
    BY <1>2, <2>2 DEF Heard, Checked, InputWakes
<1>3. Heard(Wake(X)) /\ Heard(ArmDrainWake(X))
  BY <1>1, <1>2, WakeTimed
<1>4. ~(X.c.in # <<>> /\ X.t.phase = "open" /\ CanDecode(X)) => Heard(X)
  BY Undecodable DEF Heard, Checked
<1> QED
  BY <1>3, <1>4

(* Dropping the bytes that are not decoded.                                *)
LEMMA EmptyInput ==
  ASSUME NEW X, Checked(X)
  PROVE  Checked([X EXCEPT !.c.in = <<>>])
<1> DEFINE Y == [X EXCEPT !.c.in = <<>>]
<1>1. Sound(X) /\ IsState(X)
  BY DEF Checked, Running, Sound
<1>2. /\ DOMAIN Y = DOMAIN X /\ Y.w = X.w /\ Y.act = X.act /\ Y.ses = X.ses
      /\ Y.t = X.t /\ Y.c = [X.c EXCEPT !.in = <<>>]
  BY <1>1 DEF IsState
<1> HIDE DEF Y
<1>3. /\ IsConn(Y.c) /\ Y.c.open = X.c.open /\ Y.c.active = X.c.active
      /\ Y.c.draining = X.c.draining /\ Y.c.lease = X.c.lease
  BY <1>1, <1>2 DEF IsState, IsConn
<1>4. IsState(Y)
  BY <1>1, <1>2, <1>3 DEF IsState
<1>5. Shape(Y)
  BY <1>1, <1>2, <1>3 DEF Sound, Shape
<1>6. SlotOwned(Y) /\ LaneOwned(Y) /\ Charged(Y)
  BY <1>1, <1>2, <1>3 DEF Sound, SlotOwned, LaneOwned, Charged
<1>7. Sound(Y)
  BY <1>4, <1>5, <1>6 DEF Sound
<1> QED
  BY <1>2, <1>3, <1>7 DEF Checked, Running, Y

(* A transport that closes decodes nothing more.                           *)
LEMMA EndingHeard ==
  ASSUME NEW X, Checked(X)
  PROVE  Heard(BeginClose(X))
<1>1. Ending(X, BeginClose(X))
  BY BeginCloseEffect DEF Checked
<1> QED
  BY <1>1 DEF Ending, Heard, Checked, InputWakes

(* One frame per callback, whatever it is.                                 *)
LEMMA DecodeEffect ==
  ASSUME NEW X, Checked(X), X.t.phase = "open", X.c.in # <<>>, NEW o \in Opts
  PROVE  Heard(DecodeOne(X, o))
<1> DEFINE m == Head(X.c.in)
           r == ReadFrame(X, o.granted)
           F == r.x
           over == UnreadOverflow(X, m, Tail(X.c.in), o.limit)
           E == Emit(F, m)
           part == m = "part" /\ o.limit
           M(Z) == IF Z.c.in # <<>> /\ Z.t.phase = "open" /\ CanDecode(Z)
                   THEN IF m = "part" /\ o.limit THEN ArmDrainWake(Z)
                        ELSE Wake(Z)
                   ELSE Z
<1>1. o.granted \in BOOLEAN /\ part \in BOOLEAN
  BY DEF Opts
<1>2. /\ Checked(F) /\ F.t.phase = "open"
      /\ r.ok /\ m \in {"bin", "fin"} => F.t.frag # 0
  BY <1>1, ReadFrameEffect
<1>3. CASE over
  <2> DEFINE A == [F EXCEPT !.c.in = <<>>]
  <2>1. DecodeOne(X, o) = BeginClose(A)
    BY <1>3 DEF DecodeOne
  <2>2. Checked(A)
    BY <1>2, EmptyInput
  <2> HIDE DEF A
  <2> QED
    BY <2>1, <2>2, EndingHeard
<1>4. CASE ~over /\ ~r.ok
  <2>1. DecodeOne(X, o) = BeginClose(F)
    BY <1>4 DEF DecodeOne
  <2> QED
    BY <1>2, <2>1, EndingHeard
<1>5. CASE ~over /\ r.ok
  <2>1. DecodeOne(X, o) = IF E.act = "close" THEN E ELSE M(E)
    BY <1>5 DEF DecodeOne, Then
  <2> HIDE DEF r
  <2>2. Going(E)
    BY <1>2, <1>5, EmitEffect
  <2> HIDE DEF E
  <2>3. E.act # "close" => Heard(M(E))
    BY <1>1, <2>2, MoreEffect DEF Going
  <2> HIDE DEF M
  <2>4. E.act = "close" => Heard(E)
    BY <2>2 DEF Going, Heard
  <2> QED
    BY <2>1, <2>3, <2>4
<1> QED
  BY <1>3, <1>4, <1>5

(* What a traffic callback leaves.                                         *)
Resting(Y) == Sound(Y) /\ (Y.act = "close" \/ (Fed(Y) /\ Awake(Y)))

(* A callback that saw to its writes and its input may rest.               *)
LEMMA HeardRests ==
  ASSUME NEW Y, Checked(Y), OutWakes(Y), InputWakes(Y)
  PROVE  Resting(Y)
<1>1. ~Y.c.draining
  BY DEF Checked, Running, Sound, Shape
<1> QED
  BY <1>1 DEF Checked, Running, Resting, Fed, Awake, FailureWakes,
              ResultsWake, DrainWakes

(* A timer does not change what was checked.                               *)
LEMMA CheckedTimed ==
  ASSUME NEW X, NEW Y, Checked(X), Timed(X, Y)
  PROVE  Checked(Y)
<1>1. Sound(Y)
  BY TimedSound DEF Checked, Running
<1> QED
  BY <1>1 DEF Timed, Checked, Running

(* A callback of a started transport leaves it at rest.                    *)
LEMMA OpenTrafficRests ==
  ASSUME NEW X, Running(X), Fed(X), NEW o \in Opts
  PROVE  Resting(OpenTraffic(X, o))
<1> DEFINE A == TakeFailure(X)
           B == IF A.act = "close" THEN A ELSE TakeResults(A)
           C == IF B.act = "close" THEN B ELSE RenewExpired(B)
           D == IF C.act = "close" THEN C ELSE PumpWrites(C, o.ok)
           R == ResetControlBurst(D)
           E == DecodeOne(R, o)
           G == IF E.act = "close" THEN E ELSE PumpWrites(E, o.ok)
           H == IF R.t.phase # "open" \/ R.c.in = <<>> \/ ~CanDecode(R) THEN R
                ELSE ResetControlBurst(G)
<1>1. o.ok \in BOOLEAN
  BY DEF Opts
<1>2. OpenTraffic(X, o) = IF D.act = "close" THEN D ELSE H
  BY DEF OpenTraffic, Then
<1>3. Running(A) /\ Fed(A) /\ ~A.t.failure
  BY TakeFailureEffect
<1> HIDE DEF A
<1>4. Going(B)
  BY <1>3, TakeResultsEffect DEF Going
<1> HIDE DEF B
<1>5. Going(C)
  <2>1. ASSUME B.act # "close"
        PROVE  Checked(RenewExpired(B))
    <3>1. Checked(B) /\ IsState(B)
      BY <1>4, <2>1 DEF Going, Checked, Running, Sound
    <3> QED
      BY <3>1, TouchTimed, CheckedTimed
  <2> QED
    BY <1>4, <2>1 DEF Going, Checked
<1> HIDE DEF C
<1>6. D.act = "close" => Resting(D)
  <2>1. C.act # "close" => Pumped(C, PumpWrites(C, o.ok))
    BY <1>1, <1>5, PumpEffect DEF Going
  <2>2. Running(D)
    BY <1>5, <2>1 DEF Going, Pumped
  <2> HIDE DEF D
  <2> QED
    BY <2>2 DEF Running, Resting
<1>7. ASSUME D.act # "close"
      PROVE  Checked(D) /\ OutWakes(D)
  <2>1. C.act # "close"
    BY <1>7
  <2>2. Pumped(C, PumpWrites(C, o.ok))
    BY <1>1, <1>5, <2>1, PumpEffect DEF Going
  <2> QED
    BY <1>7, <2>1, <2>2 DEF Pumped
<1> HIDE DEF D
<1>8. ASSUME D.act # "close"
      PROVE  Resting(H)
  <2>1. Timed(D, R)
    BY <1>7, <1>8, TouchTimed DEF Checked, Running, Sound
  <2> HIDE DEF R
  <2>2. Checked(R) /\ OutWakes(R)
    BY <1>7, <1>8, <2>1, TimedSound, CheckedTimed
  <2>3. CASE R.t.phase # "open" \/ R.c.in = <<>> \/ ~CanDecode(R)
    <3>1. InputWakes(R)
      BY <2>2, <2>3, Undecodable
    <3>2. H = R
      BY <2>3
    <3>3. Resting(R)
      BY <2>2, <3>1, HeardRests
    <3> QED
      BY <3>2, <3>3
  <2>4. CASE ~(R.t.phase # "open" \/ R.c.in = <<>> \/ ~CanDecode(R))
    <3>1. Heard(E)
      BY <2>2, <2>4, DecodeEffect
    <3> HIDE DEF E
    <3>2. CASE E.act = "close"
      <4>1. IsState(E)
        BY <3>1 DEF Heard, Running, Sound
      <4>2. H = ResetControlBurst(E)
        BY <2>4, <3>2
      <4> HIDE DEF H
      <4>3. Timed(E, H)
        BY <4>1, <4>2, TouchTimed
      <4>4. Sound(H) /\ H.act = "close"
        BY <3>1, <3>2, <4>3, TimedSound DEF Heard, Running, Timed
      <4> QED
        BY <4>4 DEF Resting
    <3>3. CASE E.act # "close"
      <4> DEFINE P == PumpWrites(E, o.ok)
      <4>1. Checked(E) /\ InputWakes(E)
        BY <3>1, <3>3 DEF Heard
      <4>2. Pumped(E, P)
        BY <1>1, <4>1, PumpEffect
      <4>3. H = ResetControlBurst(P)
        BY <2>4, <3>3
      <4> HIDE DEF P, H
      <4>4. Sound(P) /\ IsState(P)
        BY <4>2 DEF Pumped, Running, Sound
      <4>5. Timed(P, H)
        BY <4>3, <4>4, TouchTimed
      <4>6. Sound(H) /\ H.act = P.act
        BY <4>4, <4>5, TimedSound DEF Timed
      <4>7. CASE P.act = "close"
        BY <4>6, <4>7 DEF Resting
      <4>8. CASE P.act # "close"
        <5>1. Checked(P) /\ OutWakes(P) /\ InputWakes(P)
          BY <4>1, <4>2, <4>8 DEF Pumped
        <5>2. Checked(H) /\ OutWakes(H) /\ InputWakes(H)
          BY <4>5, <5>1, TimedSound, CheckedTimed
        <5> QED
          BY <5>2, HeardRests
      <4> QED
        BY <4>7, <4>8
    <3> QED
      BY <3>2, <3>3
  <2> QED
    BY <2>3, <2>4
<1> QED
  BY <1>2, <1>6, <1>8


(* The transport starts with its workers running and nothing held.         *)
LEMMA StartTransportEffect ==
  ASSUME NEW X, Sound(X), X.c.open, X.t.phase = "handshake"
  PROVE  Running(StartTransport(X)) /\ Fed(StartTransport(X))
<1> DEFINE A == InvalidateDeadline(X)
           B == [A EXCEPT !.t.phase = "open", !.t.pc = "take",
                          !.t.down = "poll", !.t.monitor = "wait"]
           Y == TouchLiveness(B)
<1>1. Timed(X, A)
  BY DeadlineTimed DEF Sound
<1>2. StartTransport(X) = Y
  BY DEF StartTransport
<1> HIDE DEF A
<1>3. Sound(A) /\ A.c.open /\ A.t.phase = "handshake"
  BY <1>1, TimedSound DEF Timed
<1>4. IsState(A) /\ IsTransport(A.t) /\ Unstarted(A.t)
  BY <1>3 DEF Sound, IsState, Shape
<1>5. /\ DOMAIN B = DOMAIN A
      /\ B.c = A.c /\ B.w = A.w /\ B.act = A.act /\ B.ses = A.ses
      /\ B.t = [A.t EXCEPT !.phase = "open", !.pc = "take", !.down = "poll",
                           !.monitor = "wait"]
  BY <1>4 DEF IsState
<1> HIDE DEF B
<1>6. /\ IsTransport(B.t) /\ B.t.phase = "open" /\ B.t.pc = "take"
      /\ B.t.down = "poll"
  BY <1>4, <1>5 DEF IsTransport
<1>7. /\ B.t.ctx = A.t.ctx /\ B.t.closed = A.t.closed
      /\ B.t.inbound = A.t.inbound /\ B.t.frag = A.t.frag
      /\ B.t.doing = A.t.doing /\ B.t.current = A.t.current
      /\ B.t.out = A.t.out
      /\ B.t.items = A.t.items /\ B.t.bytes = A.t.bytes
  BY <1>4, <1>5 DEF IsTransport
<1>8. ~A.t.ctx /\ A.t.doing = 0
  BY <1>3, <1>4 DEF Sound, Shape, Unstarted
<1>9. Shape(B)
  BY <1>3, <1>5, <1>6, <1>7, <1>8 DEF Sound, Shape
<1>10. SlotOwned(B)
  BY <1>3, <1>4, <1>5, <1>6, <1>7 DEF Sound, SlotOwned, Unstarted
<1>11. LaneOwned(B) /\ Charged(B)
  BY <1>3, <1>5, <1>6, <1>7 DEF Sound, LaneOwned, Charged
<1>12. IsState(B) /\ Sound(B)
  BY <1>4, <1>5, <1>6, <1>9, <1>10, <1>11 DEF IsState, Sound
<1>13. Timed(B, Y)
  BY <1>12, TouchTimed
<1> HIDE DEF Y
<1>14. Sound(Y)
  BY <1>12, <1>13, TimedSound
<1> QED
  BY <1>2, <1>3, <1>5, <1>6, <1>13, <1>14 DEF Timed, Running, Fed

(* A callback of the upgraded connection, in any of its phases, leaves it  *)
(* at rest.                                                                *)
LEMMA WebSocketRests ==
  ASSUME NEW X, Sound(X), Fed(X), X.c.open, X.t.phase # "none",
         NEW o \in Opts
  PROVE  Resting(OnWebSocketTraffic(X, o))
<1>1. /\ X.t.written \in BOOLEAN /\ X.c.out \in BOOLEAN
      /\ X.t.phase \in {"none", "handshake", "open", "closing"}
      /\ X.c.draining = FALSE
  BY DEF Sound, Shape, IsState, IsTransport, IsConn
<1>2. Resting(Closing(X))
  BY ClosingEffect DEF Resting
<1>3. ASSUME NEW Y, X.t.phase = "handshake", X.c.in = <<>>, Timed(X, Y)
      PROVE  Resting(Y)
  <2>1. Sound(Y) /\ Fed(Y)
    BY <1>3, TimedSound
  <2>2. Unstarted(Y.t) /\ ~Y.c.draining /\ Y.c.in = <<>>
    BY <1>1, <1>3, <2>1 DEF Sound, Shape, Timed
  <2> QED
    BY <2>1, <2>2 DEF Resting, Awake, Unstarted, FailureWakes, ResultsWake,
                      OutWakes, DrainWakes, InputWakes
<1>4. CASE X.t.phase = "handshake" /\ ~X.t.written
  <2>1. OnWebSocketTraffic(X, o) = IF X.c.in # <<>> THEN Closing(X) ELSE X
    BY <1>4 DEF OnWebSocketTraffic
  <2>2. Timed(X, X)
    BY TouchTimed DEF Sound
  <2> QED
    BY <1>2, <1>3, <1>4, <2>1, <2>2
<1>5. CASE X.t.phase = "handshake" /\ X.t.written /\ X.c.out
  <2>1. OnWebSocketTraffic(X, o) = IF X.c.in # <<>> THEN Closing(X)
                                   ELSE ArmDrainWake(X)
    BY <1>5 DEF OnWebSocketTraffic
  <2>2. Timed(X, ArmDrainWake(X))
    BY WakeTimed DEF Sound
  <2> QED
    BY <1>2, <1>3, <1>5, <2>1, <2>2
<1>6. CASE X.t.phase = "handshake" /\ X.t.written /\ ~X.c.out
  <2> DEFINE Y == StartTransport(X)
  <2>1. OnWebSocketTraffic(X, o) = OpenTraffic(Y, o)
    BY <1>6 DEF OnWebSocketTraffic
  <2>2. Running(Y) /\ Fed(Y)
    BY <1>6, StartTransportEffect
  <2> HIDE DEF Y
  <2> QED
    BY <2>1, <2>2, OpenTrafficRests
<1>7. CASE X.t.phase # "handshake"
  <2>1. OnWebSocketTraffic(X, o) = OpenTraffic(X, o)
    BY <1>7 DEF OnWebSocketTraffic
  <2>2. Running(X)
    BY <1>1, <1>7 DEF Running
  <2> QED
    BY <2>1, <2>2, OpenTrafficRests
<1> QED
  BY <1>1, <1>4, <1>5, <1>6, <1>7

-----------------------------------------------------------------------------
(* The HTTP phase.                                                         *)

(* Y is X with another connection record.                                  *)
ConnOnly(X, Y) ==
  /\ IsState(Y) /\ Y.w = X.w /\ Y.t = X.t /\ Y.ses = X.ses /\ Y.act = X.act
  /\ Y.c.open = X.c.open

(* The request goroutine runs exactly while a request is active and its    *)
(* response is not draining; only then, a lease is not held here.          *)
LEMMA ConnSound ==
  ASSUME NEW X, NEW Y, Sound(X), ConnOnly(X, Y), X.t.phase = "none",
         X.w.pc # "none" => Y.c.active /\ ~Y.c.draining,
         Y.c.active /\ ~Y.c.draining => X.w.pc # "none",
         Y.c.lease => Y.c.draining,
         X.c.lease /\ X.ses.slot => Y.c.lease
  PROVE  Sound(Y)
<1>1. Shape(Y)
  BY DEF Sound, Shape, ConnOnly
<1>2. SlotOwned(Y)
  BY DEF Sound, SlotOwned, ConnOnly
<1>3. LaneOwned(Y) /\ Charged(Y)
  BY DEF Sound, LaneOwned, Charged, ConnOnly
<1> QED
  BY <1>1, <1>2, <1>3 DEF Sound, ConnOnly

(* A connection in the HTTP phase that serves no request.                  *)
Idle(X) ==
  /\ Sound(X) /\ X.c.open /\ X.t.phase = "none"
  /\ ~X.c.active /\ ~X.c.draining

(* Before the upgrade only a draining response and input can wait.         *)
LEMMA HttpAwake ==
  ASSUME NEW Y, Sound(Y), Y.t.phase = "none", DrainWakes(Y), InputWakes(Y)
  PROVE  Resting(Y)
<1>1. Unstarted(Y.t)
  BY DEF Sound, Shape
<1> QED
  BY <1>1 DEF Resting, Fed, Awake, Unstarted, FailureWakes, ResultsWake,
              OutWakes

(* A connection that serves nothing has no goroutine and no lease.         *)
LEMMA IdleFacts ==
  ASSUME NEW X, Idle(X)
  PROVE  X.w.pc = "none" /\ ~X.c.lease /\ IsState(X) /\ IsConn(X.c)
BY DEF Idle, Sound, Shape, IsState

(* Y is X with the fields named by the phases of a request changed.        *)
LEMMA IdleConn ==
  ASSUME NEW X, NEW Y, Idle(X), ConnOnly(X, Y), ~Y.c.active \/ Y.c.draining,
         ~Y.c.lease
  PROVE  Sound(Y)
BY IdleFacts, ConnSound DEF Idle

(* An answer the loop writes itself is written, drains, or closes.         *)
LEMMA WriteImmediateRests ==
  ASSUME NEW X, Idle(X), NEW o \in Opts
  PROVE  Resting(WriteImmediate(X, o))
<1> DEFINE S == StartRequest(X)
           Q == FinishRequest(S)
           Y == BeginResponse(S, FALSE, TRUE)
           F == FinishResponse(Y)
           Z == [Y EXCEPT !.c.out = TRUE]
           W == ArmDrainWake(Z)
<1>1. /\ o.ok \in BOOLEAN /\ o.stuck \in BOOLEAN
      /\ X.w.pc = "none" /\ ~X.c.lease /\ IsState(X) /\ IsConn(X.c)
      /\ Sound(X) /\ X.c.open /\ X.t.phase = "none"
  BY IdleFacts DEF Opts, Idle
<1>2. WriteImmediate(X, o) = IF ~o.ok THEN Closing(Q)
                              ELSE IF ~o.stuck THEN Closing(F) ELSE W
  BY <1>1 DEF WriteImmediate
<1>3. /\ DOMAIN S = DOMAIN X /\ S.w = X.w /\ S.t = X.t /\ S.ses = X.ses
      /\ S.act = X.act
      /\ S.c = [X.c EXCEPT !.active = TRUE, !.cancel = TRUE, !.dl = "request",
                           !.fired = FALSE]
  BY <1>1 DEF IsState, StartRequest, ArmDeadline
<1> HIDE DEF S
<1>4. /\ IsConn(S.c) /\ S.c.open = X.c.open /\ S.c.in = X.c.in
      /\ S.c.lease = X.c.lease /\ S.c.draining = X.c.draining
  <2>1. DOMAIN X.c = ConnFields
    BY <1>1, ConnDomain
  <2>2. /\ S.c.open = X.c.open /\ S.c.in = X.c.in
        /\ S.c.lease = X.c.lease /\ S.c.draining = X.c.draining
    BY <1>3, <2>1 DEF ConnFields
  <2>3. IsConn(S.c)
    <3>1. DOMAIN S.c = DOMAIN X.c
      BY <1>3
    <3>2. /\ S.c.closeReq = X.c.closeReq /\ S.c.out = X.c.out
          /\ S.c.wake = X.c.wake /\ S.c.closeAfter = X.c.closeAfter
          /\ S.c.drain = X.c.drain /\ S.c.pending = X.c.pending
          /\ S.c.half = X.c.half
      BY <1>3, <2>1 DEF ConnFields
    <3>3. S.c.active = TRUE /\ S.c.cancel = TRUE
      BY <1>3, <2>1 DEF ConnFields
    <3> QED
      BY <1>1, <2>2, <3>1, <3>2, <3>3 DEF IsConn
  <2> QED
    BY <2>2, <2>3
<1>5. IsState(S)
  BY <1>1, <1>3, <1>4 DEF IsState
<1>6. Resting(Closing(Q))
  <2>1. /\ DOMAIN Q = DOMAIN S /\ Q.w = S.w /\ Q.t = S.t /\ Q.ses = S.ses
        /\ Q.act = S.act
        /\ Q.c = [S.c EXCEPT !.dl = "none", !.fired = FALSE,
                             !.active = FALSE, !.cancel = FALSE]
    BY <1>5 DEF IsState, FinishRequest, InvalidateDeadline
  <2> HIDE DEF Q
  <2>2. /\ IsConn(Q.c) /\ Q.c.open = S.c.open /\ Q.c.active = FALSE
        /\ Q.c.lease = S.c.lease
    BY <1>4, <2>1 DEF IsConn
  <2>3. ConnOnly(X, Q)
    BY <1>3, <1>4, <1>5, <2>1, <2>2 DEF IsState, ConnOnly
  <2>4. Sound(Q)
    BY <1>1, <1>4, <2>2, <2>3, IdleConn
  <2> QED
    BY <2>4, ClosingEffect DEF Resting
<1>7. /\ DOMAIN Y = DOMAIN S /\ Y.w = S.w /\ Y.t = S.t /\ Y.ses = S.ses
      /\ Y.act = S.act
      /\ Y.c = [S.c EXCEPT !.cancel = FALSE, !.draining = TRUE,
                           !.closeAfter = TRUE, !.lease = FALSE,
                           !.dl = "write", !.fired = FALSE]
  BY <1>5 DEF IsState, BeginResponse, ArmDeadline
<1> HIDE DEF Y
<1>8. /\ IsConn(Y.c) /\ Y.c.open = S.c.open /\ Y.c.draining = TRUE
      /\ Y.c.lease = FALSE
  BY <1>4, <1>7 DEF IsConn
<1>9. IsState(Y)
  BY <1>5, <1>7, <1>8 DEF IsState
<1>10. Resting(Closing(F))
  <2>1. /\ DOMAIN F = DOMAIN Y /\ F.w = Y.w /\ F.t = Y.t /\ F.ses = Y.ses
        /\ F.act = Y.act
        /\ F.c = [Y.c EXCEPT !.dl = "none", !.fired = FALSE,
                    !.lease = FALSE, !.active = FALSE, !.draining = FALSE,
                    !.closeAfter = FALSE, !.drain = FALSE]
    BY <1>8, <1>9 DEF IsState, FinishResponse, InvalidateDeadline,
                      ReleaseLease
  <2> HIDE DEF F
  <2>2. /\ IsConn(F.c) /\ F.c.open = Y.c.open /\ F.c.active = FALSE
        /\ F.c.lease = FALSE
    BY <1>8, <2>1 DEF IsConn
  <2>3. ConnOnly(X, F)
    BY <1>3, <1>4, <1>7, <1>8, <1>9, <2>1, <2>2 DEF IsState, ConnOnly
  <2>4. Sound(F)
    BY <2>2, <2>3, IdleConn
  <2> QED
    BY <2>4, ClosingEffect DEF Resting
<1>11. Resting(W)
  <2>1. /\ DOMAIN Z = DOMAIN Y /\ Z.w = Y.w /\ Z.t = Y.t /\ Z.ses = Y.ses
        /\ Z.act = Y.act /\ Z.c = [Y.c EXCEPT !.out = TRUE]
    BY <1>9 DEF IsState
  <2> HIDE DEF Z
  <2>2. /\ IsConn(Z.c) /\ Z.c.open = Y.c.open /\ Z.c.draining = TRUE
        /\ Z.c.lease = FALSE
    BY <1>8, <2>1 DEF IsConn
  <2>3. ConnOnly(X, Z)
    BY <1>3, <1>4, <1>7, <1>8, <1>9, <2>1, <2>2 DEF IsState, ConnOnly
  <2>4. Sound(Z)
    BY <2>2, <2>3, IdleConn
  <2>5. Timed(Z, W) /\ W.c.drain
    BY <2>4, WakeTimed DEF Sound
  <2> HIDE DEF W
  <2>6. Sound(W) /\ W.t.phase = "none"
    BY <1>1, <2>3, <2>4, <2>5, TimedSound DEF Timed, ConnOnly
  <2> QED
    BY <2>5, <2>6, HttpAwake DEF DrainWakes, InputWakes
<1> HIDE DEF Q, F, W
<1> QED
  BY <1>6, <1>10, <1>11, <1>2


(* A change of the input and of what was read of a request keeps the       *)
(* connection idle.                                                        *)
LEMMA IdleEdit ==
  ASSUME NEW X, NEW Y, Idle(X), ConnOnly(X, Y), Y.c.active = X.c.active,
         Y.c.draining = X.c.draining, Y.c.lease = X.c.lease
  PROVE  Idle(Y)
<1>1. Sound(Y)
  BY IdleFacts, IdleConn DEF Idle
<1> QED
  BY <1>1 DEF Idle, ConnOnly

(* A timer keeps an idle connection idle.                                  *)
LEMMA IdleTimed ==
  ASSUME NEW X, NEW Y, Idle(X), Timed(X, Y)
  PROVE  Idle(Y)
<1>1. Sound(Y)
  BY TimedSound DEF Idle
<1> QED
  BY <1>1 DEF Idle, Timed

(* An idle connection with no input may rest.                              *)
LEMMA IdleRests ==
  ASSUME NEW X, Idle(X), X.c.in = <<>>
  PROVE  Resting(X)
BY HttpAwake DEF Idle, DrainWakes, InputWakes

(* A request that is dispatched has a goroutine that will wake the loop.   *)
LEMMA DispatchRests ==
  ASSUME NEW X, Idle(X), NEW kind
  PROVE  Resting(Dispatch(X, kind))
<1> DEFINE Y == Dispatch(X, kind)
           W == [pc |-> "serve", kind |-> kind, ctx |-> FALSE, lease |-> FALSE]
<1>1. /\ X.w.pc = "none" /\ ~X.c.lease /\ IsState(X) /\ IsConn(X.c)
      /\ Sound(X) /\ X.c.open /\ X.t.phase = "none" /\ ~X.c.draining
  BY IdleFacts DEF Idle
<1>2. /\ DOMAIN Y = DOMAIN X /\ Y.w = W /\ Y.t = X.t /\ Y.ses = X.ses
      /\ Y.act = X.act
      /\ Y.c = [X.c EXCEPT !.active = TRUE, !.cancel = TRUE, !.dl = "request",
                           !.fired = FALSE, !.pending = FALSE]
  BY <1>1 DEF IsState, Dispatch, StartRequest, ArmDeadline
<1>3. /\ IsWorker(W) /\ W.pc = "serve" /\ W.ctx = FALSE
  BY DEF IsWorker
<1> HIDE DEF Y, W
<1>4. /\ IsConn(Y.c) /\ Y.c.open = X.c.open /\ Y.c.active = TRUE
      /\ Y.c.draining = X.c.draining /\ Y.c.lease = X.c.lease
  <2>1. DOMAIN X.c = ConnFields
    BY <1>1, ConnDomain
  <2>2. /\ Y.c.open = X.c.open /\ Y.c.active = TRUE
        /\ Y.c.draining = X.c.draining /\ Y.c.lease = X.c.lease
    BY <1>2, <2>1 DEF ConnFields
  <2>3. IsConn(Y.c)
    <3>1. DOMAIN Y.c = DOMAIN X.c /\ Y.c.in = X.c.in
      BY <1>2, <2>1 DEF ConnFields
    <3>2. /\ Y.c.closeReq = X.c.closeReq /\ Y.c.out = X.c.out
          /\ Y.c.wake = X.c.wake /\ Y.c.closeAfter = X.c.closeAfter
          /\ Y.c.drain = X.c.drain /\ Y.c.half = X.c.half
      BY <1>2, <2>1 DEF ConnFields
    <3>3. Y.c.cancel = TRUE /\ Y.c.pending = FALSE
      BY <1>2, <2>1 DEF ConnFields
    <3> QED
      BY <1>1, <2>2, <3>1, <3>2, <3>3 DEF IsConn
  <2> QED
    BY <2>2, <2>3
<1>5. IsState(Y)
  BY <1>1, <1>2, <1>3, <1>4 DEF IsState
<1>6. Shape(Y)
  BY <1>1, <1>2, <1>3, <1>4 DEF Sound, Shape
<1>7. SlotOwned(Y)
  BY <1>1, <1>2, <1>3, <1>4 DEF Sound, SlotOwned
<1>8. LaneOwned(Y) /\ Charged(Y)
  BY <1>1, <1>2, <1>4 DEF Sound, LaneOwned, Charged
<1>9. Sound(Y)
  BY <1>5, <1>6, <1>7, <1>8 DEF Sound
<1>10. DrainWakes(Y) /\ InputWakes(Y)
  BY <1>1, <1>2, <1>3, <1>4 DEF DrainWakes, InputWakes
<1> QED
  BY <1>1, <1>2, <1>9, <1>10, HttpAwake DEF Y

(* A body that is not complete waits for the peer.                         *)
LEMMA ReadBodyRests ==
  ASSUME NEW X, Idle(X), NEW o \in Opts
  PROVE  Resting(ReadBody(X, o))
<1> DEFINE A == [X EXCEPT !.c.in = Tail(@)]
<1>1. /\ IsState(X) /\ IsConn(X.c) /\ X.c.in \in Seq(Inputs)
      /\ Len(X.c.in) \in Nat /\ Pipeline \in Nat
  BY IdleFacts, LimitsAssumption DEF IsConn
<1>2. CASE Len(X.c.in) > 1 + Pipeline
  <2>1. ReadBody(X, o) = WriteImmediate(X, o)
    BY <1>1, <1>2 DEF ReadBody
  <2> QED
    BY <2>1, WriteImmediateRests
<1>3. CASE ~(Len(X.c.in) > 1 + Pipeline) /\ X.c.in # <<>>
  <2>1. ReadBody(X, o) = Dispatch(A, "up")
    BY <1>1, <1>3 DEF ReadBody
  <2>2. /\ DOMAIN A = DOMAIN X /\ A.w = X.w /\ A.t = X.t /\ A.ses = X.ses
        /\ A.act = X.act /\ A.c = [X.c EXCEPT !.in = Tail(@)]
    BY <1>1 DEF IsState
  <2> HIDE DEF A
  <2>3. Tail(X.c.in) \in Seq(Inputs)
    BY <1>1, <1>3
  <2>4. /\ IsConn(A.c) /\ A.c.open = X.c.open /\ A.c.active = X.c.active
        /\ A.c.draining = X.c.draining /\ A.c.lease = X.c.lease
    BY <1>1, <2>2, <2>3 DEF IsConn
  <2>5. ConnOnly(X, A)
    BY <1>1, <2>2, <2>4 DEF IsState, ConnOnly
  <2>6. Idle(A)
    BY <2>4, <2>5, IdleEdit
  <2> QED
    BY <2>1, <2>6, DispatchRests
<1>4. CASE ~(Len(X.c.in) > 1 + Pipeline) /\ X.c.in = <<>>
  <2>1. ReadBody(X, o) = X
    BY <1>1, <1>4 DEF ReadBody
  <2> QED
    BY <1>4, <2>1, IdleRests
<1> QED
  BY <1>2, <1>3, <1>4

(* An upgrade takes the lane, or is answered by the loop.                  *)
LEMMA UpgradeRests ==
  ASSUME NEW X, Idle(X), X.c.in = <<>>, NEW o \in Opts
  PROVE  Resting(Upgrade(X, o))
<1> DEFINE A == [X EXCEPT !.t.phase = "handshake", !.ses.held = TRUE]
           Y == ArmDeadline(A, "write")
<1>1. /\ X.w.pc = "none" /\ ~X.c.lease /\ IsState(X) /\ IsConn(X.c)
      /\ Sound(X) /\ X.c.open /\ X.t.phase = "none" /\ ~X.c.draining
      /\ ~X.c.active /\ IsTransport(X.t) /\ IsSession(X.ses)
  BY IdleFacts DEF Idle, IsState
<1>2. Upgrade(X, o) = IF o.ok THEN Y ELSE Closing(Y)
  BY DEF Upgrade
<1>3. /\ DOMAIN A = DOMAIN X /\ A.c = X.c /\ A.w = X.w /\ A.act = X.act
      /\ A.t = [X.t EXCEPT !.phase = "handshake"]
      /\ A.ses = [X.ses EXCEPT !.held = TRUE]
  BY <1>1 DEF IsState
<1> HIDE DEF A
<1>4. /\ IsSession(A.ses) /\ A.ses.slot = X.ses.slot
      /\ A.ses.done = X.ses.done /\ A.ses.items = X.ses.items
      /\ A.ses.bytes = X.ses.bytes
  BY <1>1, <1>3 DEF IsSession
<1>5. IsTransport(A.t) /\ A.t.phase = "handshake"
  BY <1>1, <1>3 DEF IsTransport
<1>6. /\ A.t.closed = X.t.closed /\ A.t.inbound = X.t.inbound
      /\ A.t.frag = X.t.frag /\ A.t.doing = X.t.doing /\ A.t.pc = X.t.pc
      /\ A.t.down = X.t.down /\ A.t.current = X.t.current
      /\ A.t.out = X.t.out /\ A.t.bytes = X.t.bytes /\ A.t.items = X.t.items
      /\ A.t.ctx = X.t.ctx /\ A.t.failure = X.t.failure
      /\ A.t.results = X.t.results /\ A.t.monitor = X.t.monitor
      /\ A.t.up = X.t.up /\ A.t.writing = X.t.writing
  BY <1>1, <1>3 DEF IsTransport
<1>7. Unstarted(A.t)
  BY <1>1, <1>6 DEF Sound, Shape, Unstarted
<1>8. Shape(A)
  BY <1>1, <1>3, <1>5, <1>6, <1>7 DEF Sound, Shape
<1>9. SlotOwned(A)
  BY <1>1, <1>3, <1>4, <1>6 DEF Sound, SlotOwned
<1>10. LaneOwned(A) /\ Charged(A)
  BY <1>1, <1>3, <1>4, <1>5, <1>6 DEF Sound, LaneOwned, Charged
<1>11. IsState(A)
  BY <1>1, <1>3, <1>4, <1>5 DEF IsState
<1>12. Sound(A)
  BY <1>8, <1>9, <1>10, <1>11 DEF Sound
<1>13. Timed(A, Y)
  BY <1>11, DeadlineTimed
<1> HIDE DEF Y
<1>14. Sound(Y)
  BY <1>12, <1>13, TimedSound
<1>15. Unstarted(Y.t) /\ Y.t.phase = "handshake" /\ Y.c.in = <<>>
       /\ ~Y.c.draining
  BY <1>1, <1>3, <1>5, <1>13, <1>14 DEF Timed, Sound, Shape
<1>16. Resting(Y)
  BY <1>14, <1>15 DEF Resting, Fed, Awake, Unstarted, FailureWakes,
                      ResultsWake, OutWakes, DrainWakes, InputWakes
<1>17. Resting(Closing(Y))
  BY <1>14, ClosingEffect DEF Resting
<1> QED
  BY <1>2, <1>16, <1>17

(* A header is dispatched, upgraded, refused or waits for its body.        *)
LEMMA ReadHeaderRests ==
  ASSUME NEW X, Idle(X), X.c.in # <<>>, NEW o \in Opts
  PROVE  Resting(ReadHeader(X, o))
<1> DEFINE in == IF Head(X.c.in) = "half" THEN Tail(X.c.in) ELSE X.c.in
           Y == IF X.c.half THEN X ELSE ArmDeadline(X, "header")
           H == [Y EXCEPT !.c.in = <<>>, !.c.half = TRUE]
           Z == [Y EXCEPT !.c.in = Tail(in), !.c.half = FALSE]
           P == [Z EXCEPT !.c.pending = TRUE]
           B == ArmDeadline(P, "body")
           m == Head(in)
           ws == m = "ws" /\ Tail(in) = <<>> /\ ~X.ses.done /\ o.granted
<1>1. /\ IsState(X) /\ IsConn(X.c) /\ X.c.in \in Seq(Inputs)
  BY IdleFacts DEF IsConn
<1>2. in \in Seq(Inputs)
  BY <1>1
<1>3. Timed(X, Y)
  BY <1>1, DeadlineTimed, TouchTimed
<1>4. ReadHeader(X, o) =
        IF in = <<>> THEN H
        ELSE IF m = "up" THEN ReadBody(B, o)
        ELSE IF m = "down" THEN Dispatch(Z, "down")
        ELSE IF ws THEN Upgrade(Z, o) ELSE WriteImmediate(Z, o)
  <2>1. ReadHeader(X, o) =
          CASE in = <<>> -> H
            [] in # <<>> /\ m = "up" -> ReadBody(B, o)
            [] in # <<>> /\ m = "down" -> Dispatch(Z, "down")
            [] in # <<>> /\ m = "ws" /\ Tail(in) = <<>> /\ ~X.ses.done
                 /\ o.granted -> Upgrade(Z, o)
            [] OTHER -> WriteImmediate(Z, o)
    BY Zenon DEF ReadHeader
  <2> HIDE DEF in, m, H, B, Z
  <2> QED
    BY <2>1
<1> HIDE DEF Y
<1>5. Idle(Y) /\ IsState(Y) /\ IsConn(Y.c)
  BY <1>3, IdleTimed, IdleFacts
<1>6. Resting(H)
  <2>1. /\ DOMAIN H = DOMAIN Y /\ H.w = Y.w /\ H.t = Y.t /\ H.ses = Y.ses
        /\ H.act = Y.act /\ H.c = [Y.c EXCEPT !.in = <<>>, !.half = TRUE]
    BY <1>5 DEF IsState
  <2> HIDE DEF H
  <2>2. /\ IsConn(H.c) /\ H.c.open = Y.c.open /\ H.c.active = Y.c.active
        /\ H.c.draining = Y.c.draining /\ H.c.lease = Y.c.lease
        /\ H.c.in = <<>>
    BY <1>5, <2>1 DEF IsConn
  <2>3. ConnOnly(Y, H)
    BY <1>5, <2>1, <2>2 DEF IsState, ConnOnly
  <2> QED
    BY <1>5, <2>2, <2>3, IdleEdit, IdleRests
<1>7. ASSUME in # <<>>
      PROVE  Idle(Z) /\ IsState(Z) /\ IsConn(Z.c) /\ Z.c.in = Tail(in)
  <2> DEFINE r == Tail(in)
  <2>1. r \in Seq(Inputs)
    BY <1>2, <1>7
  <2> HIDE DEF in, r
  <2>2. /\ DOMAIN Z = DOMAIN Y /\ Z.w = Y.w /\ Z.t = Y.t /\ Z.ses = Y.ses
        /\ Z.act = Y.act /\ Z.c = [Y.c EXCEPT !.in = r, !.half = FALSE]
    BY <1>5 DEF IsState, r
  <2> HIDE DEF Z
  <2>3. /\ IsConn(Z.c) /\ Z.c.open = Y.c.open /\ Z.c.active = Y.c.active
        /\ Z.c.draining = Y.c.draining /\ Z.c.lease = Y.c.lease
        /\ Z.c.in = r
    BY <1>5, <2>1, <2>2 DEF IsConn
  <2>4. ConnOnly(Y, Z)
    BY <1>5, <2>2, <2>3 DEF IsState, ConnOnly
  <2> QED
    BY <1>5, <2>3, <2>4, IdleEdit DEF ConnOnly, r
<1> HIDE DEF Z, H
<1>8. ASSUME in # <<>>
      PROVE  Idle(B)
  <2>1. Idle(Z) /\ IsState(Z) /\ IsConn(Z.c)
    BY <1>7, <1>8
  <2>2. /\ DOMAIN P = DOMAIN Z /\ P.w = Z.w /\ P.t = Z.t /\ P.ses = Z.ses
        /\ P.act = Z.act /\ P.c = [Z.c EXCEPT !.pending = TRUE]
    BY <2>1 DEF IsState
  <2> HIDE DEF P
  <2>3. /\ IsConn(P.c) /\ P.c.open = Z.c.open /\ P.c.active = Z.c.active
        /\ P.c.draining = Z.c.draining /\ P.c.lease = Z.c.lease
    BY <2>1, <2>2 DEF IsConn
  <2>4. ConnOnly(Z, P)
    BY <2>1, <2>2, <2>3 DEF IsState, ConnOnly
  <2>5. Idle(P) /\ IsState(P)
    BY <2>1, <2>3, <2>4, IdleEdit DEF ConnOnly
  <2> QED
    BY <2>5, DeadlineTimed, IdleTimed
<1> HIDE DEF B
<1>9. in # <<>> => /\ Resting(ReadBody(B, o)) /\ Resting(Dispatch(Z, "down"))
                   /\ Resting(WriteImmediate(Z, o))
  BY <1>7, <1>8, ReadBodyRests, DispatchRests, WriteImmediateRests
<1>10. in # <<>> /\ ws => Resting(Upgrade(Z, o))
  BY <1>7, UpgradeRests
<1> HIDE DEF ws, in, m
<1> QED
  BY <1>4, <1>6, <1>9, <1>10


(* Y is X with its request's context cancelled, on its way to the end.     *)
Cancelled(X, Y) ==
  /\ IsState(Y) /\ Y.t = X.t /\ Y.ses = X.ses /\ Y.act = "close"
  /\ Y.w.pc = X.w.pc /\ Y.w.lease = X.w.lease
  /\ Y.c.open = X.c.open /\ Y.c.active = X.c.active
  /\ Y.c.draining = X.c.draining /\ Y.c.lease = X.c.lease

(* Cancelling a request moves no claim.                                    *)
LEMMA CancelledRests ==
  ASSUME NEW X, NEW Y, Sound(X), Cancelled(X, Y)
  PROVE  Resting(Y)
<1>1. Shape(Y)
  BY DEF Sound, Shape, Cancelled
<1>2. SlotOwned(Y)
  BY DEF Sound, SlotOwned, Cancelled
<1>3. LaneOwned(Y) /\ Charged(Y)
  BY DEF Sound, LaneOwned, Charged, Cancelled
<1> QED
  BY <1>1, <1>2, <1>3 DEF Sound, Cancelled, Resting

(* A connection that ends its request is closing.                          *)
LEMMA CancelRests ==
  ASSUME NEW X, Sound(X)
  PROVE  /\ Resting(Closing(CancelRequest(X)))
         /\ Resting(Closing(InvalidateDeadline(CancelRequest(X))))
<1> DEFINE A == CancelRequest(X)
           b == X.w.ctx \/ X.c.cancel
           Y == Closing(A)
           I == InvalidateDeadline(A)
           Z == Closing(I)
<1>1. IsState(X) /\ IsConn(X.c) /\ IsWorker(X.w) /\ b \in BOOLEAN
  BY DEF Sound, IsState, IsWorker
<1>2. /\ DOMAIN A = DOMAIN X /\ A.t = X.t /\ A.ses = X.ses
      /\ A.w = [X.w EXCEPT !.ctx = b]
      /\ A.c = [X.c EXCEPT !.cancel = FALSE]
  BY <1>1 DEF IsState, CancelRequest
<1> HIDE DEF A, b
<1>3. /\ IsConn(A.c) /\ A.c.open = X.c.open /\ A.c.active = X.c.active
      /\ A.c.draining = X.c.draining /\ A.c.lease = X.c.lease
  BY <1>1, <1>2 DEF IsConn
<1>4. IsWorker(A.w) /\ A.w.pc = X.w.pc /\ A.w.lease = X.w.lease
  BY <1>1, <1>2 DEF IsWorker
<1>5. IsState(A)
  BY <1>1, <1>2, <1>3, <1>4 DEF IsState
<1>6. Cancelled(X, Y)
  <2>1. /\ DOMAIN Y = DOMAIN A /\ Y.c = A.c /\ Y.w = A.w /\ Y.t = A.t
        /\ Y.ses = A.ses /\ Y.act = "close"
    BY <1>5 DEF IsState, Closing
  <2> HIDE DEF Y
  <2> QED
    BY <1>2, <1>3, <1>4, <1>5, <2>1 DEF IsState, Cancelled
<1>7. Timed(A, I)
  BY <1>5, DeadlineTimed
<1> HIDE DEF I
<1>8. Cancelled(X, Z)
  <2>1. IsState(I)
    BY <1>7 DEF Timed
  <2>2. /\ DOMAIN Z = DOMAIN I /\ Z.c = I.c /\ Z.w = I.w /\ Z.t = I.t
        /\ Z.ses = I.ses /\ Z.act = "close"
    BY <2>1 DEF IsState, Closing
  <2>3. I.t = A.t
    BY <1>5 DEF IsState, InvalidateDeadline, I
  <2> HIDE DEF Z
  <2> QED
    BY <1>2, <1>3, <1>4, <1>7, <2>1, <2>2, <2>3 DEF Timed, IsState, Cancelled
<1> HIDE DEF Y, Z
<1>9. Resting(Y) /\ Resting(Z)
  BY <1>6, <1>8, CancelledRests
<1> QED
  BY <1>9 DEF Y, Z, A, I

(* The next request of the pipeline is read, or there is none.             *)
LEMMA NextRequestRests ==
  ASSUME NEW X, Sound(X), X.c.open, X.t.phase = "none", ~X.c.draining,
         NEW o \in Opts
  PROVE  Resting(NextRequest(X, o))
<1>1. /\ X.c.active \in BOOLEAN /\ X.c.pending \in BOOLEAN
      /\ Resting(Closing(CancelRequest(X)))
  BY CancelRests DEF Sound, IsState, IsConn
<1>2. CASE X.c.active
  <2>1. X.w.pc # "none"
    BY <1>2 DEF Sound, Shape
  <2>2. Resting(X)
    BY <1>2, <2>1, HttpAwake DEF DrainWakes, InputWakes
  <2>3. NextRequest(X, o) = IF Len(X.c.in) > Pipeline
                            THEN Closing(CancelRequest(X)) ELSE X
    BY <1>2 DEF NextRequest
  <2> QED
    BY <1>1, <2>2, <2>3
<1>3. CASE ~X.c.active /\ X.c.pending
  <2>1. NextRequest(X, o) = ReadBody(X, o)
    BY <1>3 DEF NextRequest
  <2> QED
    BY <1>3, <2>1, ReadBodyRests DEF Idle
<1>4. CASE ~X.c.active /\ ~X.c.pending /\ X.c.in # <<>>
  <2>1. NextRequest(X, o) = ReadHeader(X, o)
    BY <1>4 DEF NextRequest
  <2> QED
    BY <1>4, <2>1, ReadHeaderRests DEF Idle
<1>5. CASE ~X.c.active /\ ~X.c.pending /\ X.c.in = <<>>
  <2>1. NextRequest(X, o) = X
    BY <1>5 DEF NextRequest
  <2> QED
    BY <1>5, <2>1, IdleRests DEF Idle
<1> QED
  BY <1>1, <1>2, <1>3, <1>4, <1>5

(* Nothing of an unstarted transport owns the downlink slot.               *)
LEMMA NoTransportOwner ==
  ASSUME NEW X, Sound(X), X.t.phase \in {"none", "handshake"}
  PROVE  X.ses.slot => \/ X.c.open /\ X.c.lease
                       \/ X.w.pc # "none" /\ X.w.lease
<1>1. Unstarted(X.t) /\ NoItem.lease = FALSE
  BY DEF Sound, Shape, NoItem, Item
<1>2. Range(<<>>) = {}
  BY DEF Range
<1> QED
  BY <1>1, <1>2 DEF Sound, SlotOwned, Unstarted

(* A response that is written releases its lease: the connection is idle.  *)
LEMMA FinishResponseIdle ==
  ASSUME NEW X, Sound(X), X.c.open, X.t.phase = "none", X.c.draining
  PROVE  Idle(FinishResponse(X)) /\ FinishResponse(X).c.in = X.c.in
<1> DEFINE A == [InvalidateDeadline(X) EXCEPT
                   !.c.lease = FALSE, !.c.active = FALSE,
                   !.c.draining = FALSE, !.c.closeAfter = FALSE,
                   !.c.drain = FALSE]
           Y == ReleaseLease(A, X.c.lease)
<1>1. IsState(X) /\ IsConn(X.c) /\ X.c.lease \in BOOLEAN /\ X.w.pc = "none"
  BY DEF Sound, IsState, IsConn, Shape
<1>2. FinishResponse(X) = Y
  BY DEF FinishResponse
<1>3. /\ DOMAIN A = DOMAIN X /\ A.w = X.w /\ A.t = X.t /\ A.ses = X.ses
      /\ A.act = X.act
      /\ A.c = [X.c EXCEPT !.dl = "none", !.fired = FALSE,
                  !.lease = FALSE, !.active = FALSE, !.draining = FALSE,
                  !.closeAfter = FALSE, !.drain = FALSE]
  BY <1>1 DEF IsState, InvalidateDeadline
<1> HIDE DEF A
<1>4. /\ IsConn(A.c) /\ A.c.open = X.c.open /\ A.c.in = X.c.in
      /\ A.c.lease = FALSE /\ A.c.active = FALSE /\ A.c.draining = FALSE
  <2>1. DOMAIN X.c = ConnFields
    BY <1>1, ConnDomain
  <2>2. A.c.open = X.c.open /\ A.c.in = X.c.in
    <3>1. A.c.open = X.c.open
      BY <1>3, <2>1 DEF ConnFields
    <3>2. A.c.in = X.c.in
      BY <1>3, <2>1 DEF ConnFields
    <3> QED
      BY <3>1, <3>2
  <2>3. A.c.lease = FALSE /\ A.c.active = FALSE /\ A.c.draining = FALSE
    BY <1>3, <2>1 DEF ConnFields
  <2>4. IsConn(A.c)
    <3>1. DOMAIN A.c = DOMAIN X.c
      BY <1>3
    <3>2. /\ A.c.closeReq = X.c.closeReq
          /\ A.c.out = X.c.out /\ A.c.wake = X.c.wake
          /\ A.c.cancel = X.c.cancel /\ A.c.pending = X.c.pending
          /\ A.c.half = X.c.half
      BY <1>3, <2>1 DEF ConnFields
    <3>3. A.c.closeAfter = FALSE /\ A.c.drain = FALSE
      BY <1>3, <2>1 DEF ConnFields
    <3> QED
      BY <1>1, <2>2, <2>3, <3>1, <3>2, <3>3 DEF IsConn
  <2> QED
    BY <2>2, <2>3, <2>4
<1>5. IsState(A)
  BY <1>1, <1>3, <1>4 DEF IsState
<1>6. Freed(A, Y, X.c.lease)
  BY <1>1, <1>5, ReleaseLeaseEffect
<1> HIDE DEF Y
<1>7. Shape(Y)
  BY <1>1, <1>3, <1>4, <1>6 DEF Sound, Shape, Freed
<1>8. ~Y.ses.slot
  BY <1>1, <1>3, <1>6, NoTransportOwner DEF Freed
<1>9. SlotOwned(Y) /\ LaneOwned(Y) /\ Charged(Y)
  BY <1>3, <1>4, <1>6, <1>8
     DEF Sound, SlotOwned, LaneOwned, Charged, Freed
<1>10. Sound(Y)
  BY <1>6, <1>7, <1>9 DEF Sound, Freed
<1> QED
  BY <1>2, <1>3, <1>4, <1>6, <1>10 DEF Idle, Freed

(* A response that has drained is finished, one that has not will be.      *)
LEMMA DrainedRests ==
  ASSUME NEW X, Sound(X), X.c.open, X.t.phase = "none", X.c.draining,
         NEW o \in Opts
  PROVE  Resting(Drained(X, o))
<1> DEFINE Y == FinishResponse(X)
           I == ArmDeadline(Y, "idle")
           H == ArmDeadline(Y, "header")
<1>1. X.c.closeAfter \in BOOLEAN
  BY DEF Sound, IsState, IsConn
<1>2. Drained(X, o) = IF X.c.closeAfter THEN Closing(Y)
                      ELSE IF X.c.in = <<>> THEN I ELSE NextRequest(H, o)
  BY <1>1 DEF Drained
<1>3. Idle(Y) /\ Y.c.in = X.c.in
  BY FinishResponseIdle
<1> HIDE DEF Y
<1>4. IsState(Y)
  BY <1>3 DEF Idle, Sound
<1>5. Timed(Y, I) /\ Timed(Y, H)
  BY <1>4, DeadlineTimed
<1> HIDE DEF I, H
<1>6. Idle(I) /\ Idle(H) /\ I.c.in = X.c.in
  BY <1>3, <1>5, IdleTimed DEF Timed
<1>7. X.c.in = <<>> => Resting(I)
  BY <1>6, IdleRests
<1>8. Resting(NextRequest(H, o))
  BY <1>6, NextRequestRests DEF Idle
<1>9. Resting(Closing(Y))
  BY <1>3, ClosingEffect DEF Idle, Resting
<1> QED
  BY <1>2, <1>7, <1>8, <1>9

(* A callback of the HTTP phase leaves the connection at rest.             *)
LEMMA HttpRests ==
  ASSUME NEW X, Sound(X), X.c.open, X.t.phase = "none", NEW o \in Opts
  PROVE  Resting(OnHttpTraffic(X, o))
<1> DEFINE over == X.c.draining /\ Len(X.c.in) > Pipeline
           O == [X EXCEPT !.c.closeAfter = TRUE, !.c.in = <<>>]
           Y == IF over THEN O ELSE X
           D == ArmDrainWake(Y)
<1>1. /\ X.c.draining \in BOOLEAN /\ X.c.out \in BOOLEAN
      /\ IsState(X) /\ IsConn(X.c)
  BY DEF Sound, IsState, IsConn
<1>2. OnHttpTraffic(X, o) = IF X.c.draining
                            THEN IF X.c.out THEN D ELSE Drained(Y, o)
                            ELSE NextRequest(X, o)
  BY <1>1 DEF OnHttpTraffic
<1>3. /\ DOMAIN O = DOMAIN X /\ O.w = X.w /\ O.t = X.t /\ O.ses = X.ses
      /\ O.act = X.act
      /\ O.c = [X.c EXCEPT !.closeAfter = TRUE, !.in = <<>>]
  BY <1>1 DEF IsState
<1> HIDE DEF O
<1>4. /\ IsConn(O.c) /\ O.c.open = X.c.open /\ O.c.active = X.c.active
      /\ O.c.draining = X.c.draining /\ O.c.lease = X.c.lease
  <2>1. <<>> \in Seq(Inputs)
    OBVIOUS
  <2>2. IsConn(O.c)
    BY <1>1, <1>3, <2>1 DEF IsConn
  <2>3. /\ O.c.open = X.c.open /\ O.c.active = X.c.active
        /\ O.c.draining = X.c.draining /\ O.c.lease = X.c.lease
    BY <1>1, <1>3 DEF IsConn
  <2> QED
    BY <2>2, <2>3
<1>5. ConnOnly(X, O)
  BY <1>1, <1>3, <1>4 DEF IsState, ConnOnly
<1>6. Sound(O)
  BY <1>4, <1>5, ConnSound DEF Sound, Shape
<1>7. /\ Sound(Y) /\ Y.c.open /\ Y.t.phase = "none"
      /\ Y.c.draining = X.c.draining
  BY <1>3, <1>4, <1>6
<1> HIDE DEF over, Y
<1>8. X.c.draining => Resting(Drained(Y, o))
  BY <1>7, DrainedRests
<1>9. Timed(Y, D) /\ D.c.drain
  BY <1>7, WakeTimed DEF Sound
<1> HIDE DEF D
<1>10. Sound(D) /\ D.t.phase = "none"
  BY <1>7, <1>9, TimedSound DEF Timed
<1>11. Resting(D)
  BY <1>9, <1>10, HttpAwake DEF DrainWakes, InputWakes
<1>12. ~X.c.draining => Resting(NextRequest(X, o))
  BY NextRequestRests
<1> QED
  BY <1>2, <1>8, <1>11, <1>12


(* Y is X without the items that wait to be written.                       *)
Dropped(X, Y) ==
  /\ DOMAIN Y = DOMAIN X /\ IsState(Y)
  /\ Y.c = X.c /\ Y.w = X.w /\ Y.act = X.act
  /\ Y.ses.done = X.ses.done /\ Y.ses.held = X.ses.held
  /\ Y.ses.items = X.ses.items /\ Y.ses.bytes = X.ses.bytes
  /\ Y.ses.slot => X.ses.slot /\ ~\E i \in Range(X.t.out) : i.lease
  /\ Y.t.out = <<>>
  /\ X.t.down # "wait" => Y.t.down = X.t.down
  /\ Y.t.phase = X.t.phase /\ Y.t.carrier = X.t.carrier
  /\ Y.t.closed = X.t.closed /\ Y.t.ctx = X.t.ctx /\ Y.t.up = X.t.up
  /\ Y.t.inbound = X.t.inbound /\ Y.t.frag = X.t.frag
  /\ Y.t.items = X.t.items /\ Y.t.bytes = X.t.bytes
  /\ Y.t.results = X.t.results /\ Y.t.current = X.t.current
  /\ Y.t.writing = X.t.writing
  /\ Y.t.failure = X.t.failure /\ Y.t.pc = X.t.pc
  /\ Y.t.doing = X.t.doing /\ Y.t.monitor = X.t.monitor

(* Dropping the queue releases the claims in it.                           *)
LEMMA DropOutEffect ==
  ASSUME NEW X, IsState(X)
  PROVE  Dropped(X, DropOut(X))
<1> DEFINE I == Range(X.t.out)
           l == \E i \in I : i.lease
           L == ReleaseLease(X, l)
           d == IF /\ L.t.down = "wait"
                   /\ \E i \in I : i.type \in {"binary", "ping"}
                THEN "err" ELSE L.t.down
           Y == DropOut(X)
<1>1. Y = [L EXCEPT !.t.out = <<>>, !.t.down = d]
  <2> HIDE DEF L, l
  <2>1. DropOut(X) = [L EXCEPT !.t.out = <<>>,
          !.t.down = IF /\ @ = "wait"
                        /\ \E i \in I : i.type \in {"binary", "ping"}
                     THEN "err" ELSE @]
    BY DEF DropOut, L, l
  <2> QED
    BY <2>1
<1>2. l \in BOOLEAN /\ (l <=> \E i \in Range(X.t.out) : i.lease)
  OBVIOUS
<1> HIDE DEF l
<1>3. Freed(X, L, l)
  BY <1>2, ReleaseLeaseEffect
<1>4. X.t.down # "wait" => d = X.t.down
  BY <1>3 DEF Freed
<1> HIDE DEF L, Y, d
<1>5. IsState(L) /\ IsTransport(L.t) /\ L.t = X.t /\ <<>> \in Seq(Items)
  BY <1>3 DEF Freed, IsState
<1>6. /\ DOMAIN Y = DOMAIN L /\ Y.c = L.c /\ Y.w = L.w /\ Y.act = L.act
      /\ Y.ses = L.ses /\ Y.t = [L.t EXCEPT !.out = <<>>, !.down = d]
  BY <1>1, <1>5 DEF IsState
<1>7. IsTransport(Y.t)
  BY <1>5, <1>6 DEF IsTransport
<1>8. Y.t.out = <<>> /\ Y.t.down = d
  BY <1>5, <1>6 DEF IsTransport
<1>9. /\ Y.t.phase = L.t.phase /\ Y.t.carrier = L.t.carrier
      /\ Y.t.closed = L.t.closed /\ Y.t.ctx = L.t.ctx /\ Y.t.up = L.t.up
      /\ Y.t.inbound = L.t.inbound /\ Y.t.frag = L.t.frag
      /\ Y.t.items = L.t.items /\ Y.t.bytes = L.t.bytes
      /\ Y.t.results = L.t.results /\ Y.t.current = L.t.current
      /\ Y.t.writing = L.t.writing
      /\ Y.t.failure = L.t.failure /\ Y.t.pc = L.t.pc
      /\ Y.t.doing = L.t.doing /\ Y.t.monitor = L.t.monitor
  BY <1>5, <1>6 DEF IsTransport
<1>10. IsState(Y)
  BY <1>5, <1>6, <1>7 DEF IsState
<1>11. /\ DOMAIN L = DOMAIN X /\ L.c = X.c /\ L.w = X.w /\ L.act = X.act
       /\ L.ses.done = X.ses.done /\ L.ses.held = X.ses.held
       /\ L.ses.items = X.ses.items /\ L.ses.bytes = X.ses.bytes
       /\ L.ses.slot => X.ses.slot /\ ~l
  BY <1>3 DEF Freed
<1>12. Dropped(X, Y)
  BY <1>2, <1>4, <1>5, <1>6, <1>8, <1>9, <1>10, <1>11 DEF Dropped
<1> QED
  BY <1>12 DEF Y

(* What OnClose hands to the transport: a connection that is over, whose   *)
(* transport is still to be closed.                                        *)
Ended(Z) ==
  /\ IsState(Z) /\ ~Z.c.open /\ ~Z.c.lease /\ ~Z.t.closed
  /\ Z.w.pc # "none" => Z.c.active /\ ~Z.c.draining
  /\ Z.t.phase # "none" => ~Z.c.active /\ ~Z.c.draining
  /\ Z.t.phase \in {"none", "handshake"} => Unstarted(Z.t)
  /\ (Z.t.doing # 0) <=> (Z.t.pc = "process")
  /\ Z.ses.held => Z.t.phase # "none"
  /\ Charged(Z)
  /\ Z.ses.slot => \/ Z.w.pc # "none" /\ Z.w.lease
                   \/ Z.t.down \in {"binary", "ping"}
                   \/ Z.t.current.lease
                   \/ \E i \in Range(Z.t.out) : i.lease

(* Closing the transport releases its input, its current item and its      *)
(* queue.                                                                  *)
LEMMA CloseTransportSound ==
  ASSUME NEW Z, Ended(Z)
  PROVE  Sound(CloseTransport(Z)) /\ ~CloseTransport(Z).c.open
<1>1. /\ IsState(Z) /\ IsTransport(Z.t) /\ IsSession(Z.ses)
      /\ Z.t.closed = FALSE /\ NoItem.lease = FALSE /\ Range(<<>>) = {}
  BY DEF Ended, IsState, IsTransport, NoItem, Item, Range
<1>2. CASE Z.t.phase = "none"
  <2>1. CloseTransport(Z) = Z
    BY <1>2 DEF CloseTransport
  <2>2. Unstarted(Z.t)
    BY <1>2 DEF Ended
  <2>3. Shape(Z)
    BY <1>2, <2>2 DEF Ended, Shape, Unstarted
  <2>4. SlotOwned(Z)
    BY <1>1, <2>2 DEF Ended, SlotOwned, Unstarted
  <2>5. LaneOwned(Z)
    BY <1>2 DEF Ended, LaneOwned
  <2> QED
    BY <1>1, <2>1, <2>3, <2>4, <2>5 DEF Ended, Sound
<1>3. CASE Z.t.phase # "none"
  <2> DEFINE A == [Z EXCEPT !.t.closed = TRUE, !.t.ctx = TRUE,
                            !.t.live = "none"]
             B == ReleaseInbound(A)
             C == FinishCurrent(B, "err")
             D == DropOut(C)
             F == [D EXCEPT !.ses.held = FALSE]
             G == [F EXCEPT !.ses.done = TRUE, !.ses.items = 0,
                            !.ses.bytes = 0]
             Y == CloseTransport(Z)
  <2>1. Y = IF Z.t.carrier = "lane" THEN F ELSE G
    BY <1>1, <1>3 DEF CloseTransport
  <2>2. /\ DOMAIN A = DOMAIN Z
        /\ A.c = Z.c /\ A.w = Z.w /\ A.act = Z.act /\ A.ses = Z.ses
        /\ A.t = [Z.t EXCEPT !.closed = TRUE, !.ctx = TRUE, !.live = "none"]
    BY <1>1 DEF IsState
  <2> HIDE DEF A, Y
  <2>3. IsTransport(A.t) /\ A.t.closed = TRUE /\ A.t.ctx = TRUE
    BY <1>1, <2>2 DEF IsTransport
  <2>4. /\ A.t.inbound = Z.t.inbound /\ A.t.results = Z.t.results
        /\ A.t.frag = Z.t.frag /\ A.t.doing = Z.t.doing /\ A.t.pc = Z.t.pc
        /\ A.t.down = Z.t.down /\ A.t.current = Z.t.current
        /\ A.t.out = Z.t.out /\ A.t.bytes = Z.t.bytes /\ A.t.items = Z.t.items
        /\ A.t.phase = Z.t.phase /\ A.t.failure = Z.t.failure
        /\ A.t.monitor = Z.t.monitor /\ A.t.up = Z.t.up
        /\ A.t.writing = Z.t.writing
    BY <1>1, <2>2 DEF IsTransport
  <2>5. IsState(A) /\ Charged(A)
    BY <1>1, <2>2, <2>3, <2>4 DEF IsState, Charged, Ended
  <2>6. Emptied(A, B) /\ Charged(B)
    BY <2>5, ReleaseInboundEffect
  <2> HIDE DEF B
  <2>7. Finished(B, C)
    BY <2>6, FinishCurrentEffect DEF Emptied
  <2> HIDE DEF C
  <2>8. Dropped(C, D)
    BY <2>7, DropOutEffect DEF Finished
  <2> HIDE DEF D
  <2>9. /\ IsState(D) /\ D.c = Z.c /\ D.w = Z.w
        /\ D.t.closed /\ D.t.ctx /\ D.t.inbound = <<>> /\ D.t.frag = 0
        /\ D.t.out = <<>> /\ D.t.current = NoItem
        /\ D.t.phase = Z.t.phase /\ D.t.pc = Z.t.pc
        /\ D.t.doing = Z.t.doing /\ D.t.results = Z.t.results
        /\ D.t.failure = Z.t.failure /\ D.t.up = Z.t.up
        /\ D.t.monitor = Z.t.monitor
    BY <2>2, <2>3, <2>4, <2>6, <2>7, <2>8 DEF Emptied, Finished, Dropped
  <2>10. /\ Z.t.down # "wait" => D.t.down = Z.t.down
         /\ Z.t.current = NoItem => D.t.writing = Z.t.writing
    BY <2>4, <2>6, <2>7, <2>8 DEF Emptied, Finished, Dropped
  <2>11. D.ses.slot => /\ Z.ses.slot /\ ~Z.t.current.lease
                       /\ ~\E i \in Range(Z.t.out) : i.lease
    BY <2>2, <2>4, <2>6, <2>7, <2>8 DEF Emptied, Finished, Dropped
  <2>12. Charged(D)
    BY <2>6, <2>7, <2>8 DEF Charged, Finished, Dropped
  <2>13. Z.t.phase = "handshake" => Unstarted(D.t)
    BY <1>3, <2>9, <2>10 DEF Ended, Unstarted
  <2>14. ASSUME NEW S, IsState(S), S.c = D.c, S.w = D.w, S.t = D.t,
                S.ses.slot = D.ses.slot, S.ses.held = FALSE, Charged(S)
         PROVE  Sound(S) /\ ~S.c.open
    <3>1. Shape(S)
      BY <1>3, <2>9, <2>13, <2>14 DEF Ended, Shape
    <3>2. SlotOwned(S)
      BY <2>9, <2>10, <2>11, <2>14 DEF Ended, SlotOwned
    <3>3. LaneOwned(S)
      BY <2>14 DEF LaneOwned
    <3> QED
      BY <2>9, <2>14, <3>1, <3>2, <3>3 DEF Sound, Ended
  <2>15. /\ DOMAIN F = DOMAIN D /\ F.c = D.c /\ F.w = D.w /\ F.t = D.t
         /\ F.ses = [D.ses EXCEPT !.held = FALSE]
    BY <2>9 DEF IsState
  <2> HIDE DEF F
  <2>16. /\ IsSession(F.ses) /\ F.ses.slot = D.ses.slot
         /\ F.ses.held = FALSE /\ F.ses.done = D.ses.done
         /\ F.ses.items = D.ses.items /\ F.ses.bytes = D.ses.bytes
    BY <2>9, <2>15 DEF IsState, IsSession
  <2>17. IsState(F) /\ Charged(F)
    BY <2>9, <2>12, <2>15, <2>16 DEF IsState, Charged
  <2>18. /\ DOMAIN G = DOMAIN F /\ G.c = F.c /\ G.w = F.w /\ G.t = F.t
         /\ G.ses = [F.ses EXCEPT !.done = TRUE, !.items = 0, !.bytes = 0]
    BY <2>17 DEF IsState
  <2> HIDE DEF G
  <2>19. /\ IsSession(G.ses) /\ G.ses.slot = F.ses.slot
         /\ G.ses.held = F.ses.held /\ G.ses.done = TRUE
    BY <2>16, <2>18 DEF IsSession
  <2>20. IsState(G) /\ Charged(G)
    BY <2>17, <2>18, <2>19 DEF IsState, Charged
  <2>21. Sound(F) /\ ~F.c.open
    BY <2>14, <2>15, <2>16, <2>17
  <2>22. Sound(G) /\ ~G.c.open
    BY <2>14, <2>15, <2>16, <2>18, <2>19, <2>20
  <2> QED
    BY <2>1, <2>21, <2>22 DEF Y
<1> QED
  BY <1>2, <1>3

(* OnClose leaves no claim of the connection behind.                       *)
LEMMA OnCloseSound ==
  ASSUME NEW X, Sound(X), X.c.open
  PROVE  Sound(OnClose(X)) /\ ~OnClose(X).c.open
<1> DEFINE b == X.w.ctx \/ X.c.cancel
           Y == CancelRequest(InvalidateDeadline(X))
           R == [Y EXCEPT !.c.open = FALSE, !.c.drain = FALSE,
                          !.c.lease = FALSE, !.c.wake = FALSE,
                          !.c.in = <<>>, !.c.out = FALSE]
           Z == ReleaseLease(R, X.c.lease)
<1>1. /\ IsState(X) /\ IsConn(X.c) /\ IsWorker(X.w) /\ b \in BOOLEAN
      /\ X.c.lease \in BOOLEAN
  BY DEF Sound, IsState, IsWorker, IsConn
<1>2. OnClose(X) = CloseTransport(Z)
  BY DEF OnClose
<1>3. /\ DOMAIN Y = DOMAIN X /\ Y.t = X.t /\ Y.ses = X.ses
      /\ Y.w = [X.w EXCEPT !.ctx = b]
      /\ Y.c = [X.c EXCEPT !.dl = "none", !.fired = FALSE, !.cancel = FALSE]
  <2> DEFINE I == InvalidateDeadline(X)
  <2>1. /\ DOMAIN I = DOMAIN X /\ I.t = X.t /\ I.ses = X.ses /\ I.w = X.w
        /\ I.c = [X.c EXCEPT !.dl = "none", !.fired = FALSE]
    BY <1>1 DEF IsState, InvalidateDeadline
  <2>2. Y = CancelRequest(I)
    OBVIOUS
  <2> HIDE DEF I, Y
  <2>3. I.c.cancel = X.c.cancel
    BY <1>1, <2>1 DEF IsConn
  <2>4. /\ DOMAIN Y = DOMAIN I /\ Y.t = I.t /\ Y.ses = I.ses
        /\ Y.w = [I.w EXCEPT !.ctx = I.w.ctx \/ I.c.cancel]
        /\ Y.c = [I.c EXCEPT !.cancel = FALSE]
    BY <1>1, <2>1, <2>2 DEF IsState, CancelRequest
  <2>5. Y.w = [X.w EXCEPT !.ctx = b]
    BY <2>1, <2>3, <2>4
  <2>6. Y.c = [X.c EXCEPT !.dl = "none", !.fired = FALSE, !.cancel = FALSE]
    BY <1>1, <2>1, <2>4 DEF IsConn
  <2> QED
    BY <2>1, <2>4, <2>5, <2>6
<1> HIDE DEF Y, b
<1>4. /\ IsConn(Y.c) /\ Y.c.active = X.c.active
      /\ Y.c.draining = X.c.draining
  BY <1>1, <1>3 DEF IsConn
<1>5. IsWorker(Y.w) /\ Y.w.pc = X.w.pc /\ Y.w.lease = X.w.lease
  BY <1>1, <1>3 DEF IsWorker
<1>6. IsState(Y)
  BY <1>1, <1>3, <1>4, <1>5 DEF IsState
<1>7. /\ DOMAIN R = DOMAIN Y /\ R.t = Y.t /\ R.ses = Y.ses /\ R.w = Y.w
      /\ R.c = [Y.c EXCEPT !.open = FALSE, !.drain = FALSE, !.lease = FALSE,
                           !.wake = FALSE, !.in = <<>>, !.out = FALSE]
  BY <1>6 DEF IsState
<1> HIDE DEF R
<1>8. /\ R.c.open = FALSE /\ R.c.lease = FALSE
      /\ R.c.active = Y.c.active /\ R.c.draining = Y.c.draining
  BY <1>4, <1>7 DEF IsConn
<1>9. IsConn(R.c)
  <2>1. DOMAIN R.c = DOMAIN Y.c /\ R.c.in = <<>> /\ <<>> \in Seq(Inputs)
    BY <1>4, <1>7 DEF IsConn
  <2>2. R.c.drain = FALSE /\ R.c.wake = FALSE /\ R.c.out = FALSE
    BY <1>4, <1>7 DEF IsConn
  <2>3. /\ R.c.closeReq = Y.c.closeReq /\ R.c.closeAfter = Y.c.closeAfter
        /\ R.c.cancel = Y.c.cancel /\ R.c.pending = Y.c.pending
        /\ R.c.half = Y.c.half
    BY <1>4, <1>7 DEF IsConn
  <2> QED
    BY <1>4, <1>8, <2>1, <2>2, <2>3 DEF IsConn
<1>10. IsState(R)
  BY <1>6, <1>7, <1>9 DEF IsState
<1>11. Freed(R, Z, X.c.lease)
  BY <1>1, <1>10, ReleaseLeaseEffect
<1> HIDE DEF Z
<1>12. /\ IsState(Z) /\ Z.t = X.t /\ Z.c.open = FALSE /\ Z.c.lease = FALSE
       /\ Z.c.active = X.c.active /\ Z.c.draining = X.c.draining
       /\ Z.w.pc = X.w.pc /\ Z.w.lease = X.w.lease
       /\ Z.ses.held = X.ses.held /\ Z.ses.done = X.ses.done
       /\ Z.ses.items = X.ses.items /\ Z.ses.bytes = X.ses.bytes
       /\ Z.ses.slot => X.ses.slot /\ ~X.c.lease
  BY <1>3, <1>4, <1>5, <1>7, <1>8, <1>11 DEF Freed
<1>13. Charged(Z)
  BY <1>12 DEF Sound, Charged
<1>14. Z.ses.slot => \/ Z.w.pc # "none" /\ Z.w.lease
                     \/ Z.t.down \in {"binary", "ping"}
                     \/ Z.t.current.lease
                     \/ \E i \in Range(Z.t.out) : i.lease
  BY <1>12 DEF Sound, SlotOwned
<1>15. Ended(Z)
  BY <1>12, <1>13, <1>14 DEF Sound, Shape, LaneOwned, Ended
<1> QED
  BY <1>2, <1>15, CloseTransportSound

(* Y is X at the end of a callback.                                        *)
LEMMA SameSound ==
  ASSUME NEW X, NEW Y, Sound(X), IsState(Y), Y.c = X.c, Y.w = X.w,
         Y.t = X.t, Y.ses = X.ses, X.w.ctx => ~X.c.open
  PROVE  Sound(Y)
<1>1. Shape(Y)
  BY DEF Sound, Shape
<1> QED
  BY <1>1 DEF Sound, SlotOwned, LaneOwned, Charged

(* The state the callbacks work on is the state of the variables.          *)
LEMMA StateFacts ==
  /\ DOMAIN State = {"c", "w", "t", "ses", "act"}
  /\ State.c = c /\ State.w = w /\ State.t = t /\ State.ses = ses
  /\ State.act = "none"
  /\ DOMAIN State' = {"c", "w", "t", "ses", "act"}
  /\ State'.c = c' /\ State'.w = w' /\ State'.t = t' /\ State'.ses = ses'
  /\ State'.act = "none"
BY DEF State

(* A callback that leaves a resting state leaves a sound connection.       *)
LEMMA CommitInv ==
  ASSUME NEW X, Resting(X), Commit(X)
  PROVE  ConnInv'
<1> DEFINE S == State'
           Y == IF X.act = "close" /\ X.c.open THEN OnClose(X) ELSE X
<1>1. /\ DOMAIN S = {"c", "w", "t", "ses", "act"}
      /\ S.c = Y.c /\ S.w = Y.w /\ S.t = Y.t /\ S.ses = Y.ses
  BY StateFacts DEF Commit
<1>2. Sound(Y)
  BY OnCloseSound DEF Resting
<1>3. Y.w.ctx => ~Y.c.open
  BY OnCloseSound DEF Resting, Sound, Shape
<1>4. Y.c.open => Y = X /\ Fed(X) /\ Awake(X)
  BY OnCloseSound DEF Resting
<1> HIDE DEF Y
<1>5. ConnInv' = (Sound(S) /\ Fed(S) /\ Awake(S))
  BY DEF ConnInv
<1> HIDE DEF S
<1>6. IsState(S)
  BY <1>1, <1>2 DEF Sound, IsState
<1>7. Sound(S)
  BY <1>1, <1>2, <1>3, <1>6, SameSound
<1>8. Fed(S) /\ Awake(S)
  BY <1>1, <1>4 DEF Fed, Awake, FailureWakes, ResultsWake, OutWakes,
                    DrainWakes, InputWakes
<1> QED
  BY <1>5, <1>7, <1>8


(* What the invariant gives.                                               *)
LEMMA InvFacts ==
  ASSUME ConnInv
  PROVE  /\ Sound(State) /\ Fed(State) /\ Awake(State) /\ Resting(State)
         /\ IsState(State) /\ IsConn(c) /\ IsWorker(w) /\ IsTransport(t)
         /\ IsSession(ses) /\ Shape(State)
<1>1. Sound(State) /\ Fed(State) /\ Awake(State)
  BY DEF ConnInv
<1>2. IsState(State) /\ Shape(State)
  BY <1>1 DEF Sound
<1>3. IsConn(c) /\ IsWorker(w) /\ IsTransport(t) /\ IsSession(ses)
  BY <1>2, StateFacts DEF IsState
<1> QED
  BY <1>1, <1>2, <1>3 DEF Resting

(* A step that changes timers and counters only.                           *)
LEMMA TimedRests ==
  ASSUME NEW X, NEW Y, Resting(X), X.act # "close", Timed(X, Y)
  PROVE  Resting(Y)
<1>1. Sound(Y) /\ Fed(Y)
  BY TimedSound DEF Resting
<1>2. Y.c.open = X.c.open
  BY DEF Timed
<1>3. X.c.open => /\ FailureWakes(Y) /\ ResultsWake(Y) /\ OutWakes(Y)
                  /\ DrainWakes(Y) /\ InputWakes(Y)
  BY TimedSound DEF Resting, Awake
<1> QED
  BY <1>1, <1>2, <1>3 DEF Resting, Awake

(* A connection that is woken may rest.                                    *)
LEMMA WokenRests ==
  ASSUME NEW Y, Sound(Y), Fed(Y), Y.c.wake
  PROVE  Resting(Y)
BY DEF Resting, Awake, FailureWakes, ResultsWake, OutWakes, DrainWakes,
       InputWakes

(* So may one that the callback closes.                                    *)
LEMMA ClosingRests ==
  ASSUME NEW X, Sound(X)
  PROVE  Resting(Closing(X))
BY ClosingEffect DEF Resting

(* A step of the connection that leaves its phases alone.                  *)
LEMMA ConnEdit ==
  ASSUME NEW X, NEW Y, Sound(X), Fed(X), ConnOnly(X, Y),
         Y.c.active = X.c.active, Y.c.draining = X.c.draining,
         Y.c.lease = X.c.lease
  PROVE  Sound(Y) /\ Fed(Y)
<1>1. Shape(Y)
  BY DEF Sound, Shape, ConnOnly
<1>2. SlotOwned(Y) /\ LaneOwned(Y) /\ Charged(Y)
  BY DEF Sound, SlotOwned, LaneOwned, Charged, ConnOnly
<1> QED
  BY <1>1, <1>2 DEF Sound, Fed, ConnOnly

(* The outcomes the model lets a callback have.                            *)
LEMMA OutcomesAreOpts == Outcomes \subseteq Opts
<1> SUFFICES ASSUME NEW o \in Outcomes
             PROVE  o \in Opts
  OBVIOUS
<1> DEFINE A == {TRUE} \cup (IF env.max.refuse THEN {FALSE} ELSE {})
           S == IF t.phase # "none" THEN {FALSE} ELSE BOOLEAN
           L == IF t.phase # "none" /\ "part" \in Range(c.in) THEN BOOLEAN
                ELSE {FALSE}
<1>1. A \subseteq BOOLEAN /\ S \subseteq BOOLEAN /\ L \subseteq BOOLEAN
  OBVIOUS
<1>2. o \in [ok : A, granted : BOOLEAN, stuck : S, limit : L]
  BY DEF Outcomes
<1> HIDE DEF A, S, L
<1> QED
  BY <1>1, <1>2 DEF Opts

(* The traffic callback.                                                   *)
LEMMA OnTrafficInv ==
  ASSUME ConnInv, OnTraffic
  PROVE  ConnInv'
<1> DEFINE X == [State EXCEPT !.c.wake = FALSE]
<1>1. /\ Sound(State) /\ Fed(State) /\ IsState(State) /\ IsConn(c)
      /\ IsTransport(t)
  BY InvFacts
<1>2. PICK o \in Outcomes :
        Commit(IF t.phase = "none" THEN OnHttpTraffic(X, o)
               ELSE OnWebSocketTraffic(X, o))
  BY DEF OnTraffic
<1>3. c.open /\ o \in Opts
  BY OutcomesAreOpts DEF OnTraffic
<1>4. /\ DOMAIN X = DOMAIN State /\ X.w = State.w /\ X.t = State.t
      /\ X.ses = State.ses /\ X.act = State.act
      /\ X.c = [State.c EXCEPT !.wake = FALSE]
  BY <1>1 DEF IsState
<1> HIDE DEF X
<1>5. /\ IsConn(X.c) /\ X.c.open = c.open /\ X.c.active = c.active
      /\ X.c.draining = c.draining /\ X.c.lease = c.lease
  BY <1>1, <1>4, StateFacts DEF IsConn
<1>6. ConnOnly(State, X)
  BY <1>1, <1>4, <1>5, StateFacts DEF IsState, ConnOnly
<1>7. Sound(X) /\ Fed(X)
  BY <1>1, <1>5, <1>6, ConnEdit, StateFacts
<1>8. X.t = t
  BY <1>4, StateFacts
<1>9. t.phase = "none" => Resting(OnHttpTraffic(X, o))
  BY <1>3, <1>5, <1>7, <1>8, HttpRests
<1>10. t.phase # "none" => Resting(OnWebSocketTraffic(X, o))
  BY <1>3, <1>5, <1>7, <1>8, WebSocketRests
<1> QED
  BY <1>2, <1>9, <1>10, CommitInv

-----------------------------------------------------------------------------
(* Timers.                                                                 *)

(* A step that commits X as it is.                                         *)
LEMMA PlainCommit ==
  ASSUME NEW X, Resting(X), X.act = "none",
         c' = X.c, w' = X.w, t' = X.t, ses' = X.ses
  PROVE  ConnInv'
<1>1. Commit(X)
  BY DEF Commit
<1> QED
  BY <1>1, CommitInv

(* The timers: the deadline, the drain wake-up and the liveness timer      *)
(* fire.                                                                   *)
LEMMA DeadlineFiresInv ==
  ASSUME ConnInv, DeadlineFires
  PROVE  ConnInv'
<1> DEFINE X == [State EXCEPT !.c.fired = TRUE]
<1>1. Resting(State) /\ IsState(State) /\ IsConn(c)
  BY InvFacts
<1>2. /\ DOMAIN X = DOMAIN State /\ X.w = w /\ X.t = t /\ X.ses = ses
      /\ X.act = "none" /\ X.c = [c EXCEPT !.fired = TRUE]
  BY <1>1, StateFacts DEF IsState
<1> HIDE DEF X
<1>3. IsConn(X.c)
  BY <1>1, <1>2 DEF IsConn
<1>4. Timed(State, X)
  BY <1>1, <1>2, <1>3, StateFacts DEF IsState, IsConn, Timed
<1>5. Resting(X)
  BY <1>1, <1>4, StateFacts, TimedRests
<1> QED
  BY <1>2, <1>5, PlainCommit DEF DeadlineFires

LEMMA DrainWakeFiresInv ==
  ASSUME ConnInv, DrainWakeFires
  PROVE  ConnInv'
<1> DEFINE X == [State EXCEPT !.c.drain = FALSE, !.c.wake = TRUE]
<1>1. Sound(State) /\ Fed(State) /\ IsState(State) /\ IsConn(c)
  BY InvFacts
<1>2. /\ DOMAIN X = DOMAIN State /\ X.w = w /\ X.t = t /\ X.ses = ses
      /\ X.act = "none" /\ X.c = [c EXCEPT !.drain = FALSE, !.wake = TRUE]
  BY <1>1, StateFacts DEF IsState
<1> HIDE DEF X
<1>3. /\ IsConn(X.c) /\ X.c.open = c.open /\ X.c.active = c.active
      /\ X.c.draining = c.draining /\ X.c.lease = c.lease /\ X.c.wake = TRUE
  BY <1>1, <1>2 DEF IsConn
<1>4. ConnOnly(State, X)
  BY <1>1, <1>2, <1>3, StateFacts DEF IsState, ConnOnly
<1>5. Sound(X) /\ Fed(X)
  BY <1>1, <1>3, <1>4, StateFacts, ConnEdit
<1>6. Resting(X)
  BY <1>3, <1>5, WokenRests
<1> QED
  BY <1>2, <1>6, PlainCommit DEF DrainWakeFires

LEMMA LivenessFiresInv ==
  ASSUME ConnInv, LivenessFires
  PROVE  ConnInv'
<1> DEFINE X == [State EXCEPT !.t.live = "queued"]
<1>1. Resting(State) /\ IsState(State) /\ IsTransport(t)
  BY InvFacts
<1>2. /\ DOMAIN X = DOMAIN State /\ X.w = w /\ X.c = c /\ X.ses = ses
      /\ X.act = "none" /\ X.t = [t EXCEPT !.live = "queued"]
  BY <1>1, StateFacts DEF IsState
<1> HIDE DEF X
<1>3. IsTransport(X.t)
  BY <1>1, <1>2 DEF IsTransport
<1>4. Timed(State, X)
  BY <1>1, <1>2, <1>3, StateFacts DEF IsState, IsTransport, Timed
<1>5. Resting(X)
  BY <1>1, <1>4, StateFacts, TimedRests
<1> QED
  BY <1>2, <1>5, PlainCommit DEF LivenessFires

(* What they left to the loop runs.                                        *)
LEMMA LivenessRunsInv ==
  ASSUME ConnInv, LivenessRuns
  PROVE  ConnInv'
<1> DEFINE X == [State EXCEPT !.t.live = "none", !.t.expired = TRUE]
<1>1. Resting(State) /\ Sound(State) /\ IsState(State) /\ IsTransport(t)
  BY InvFacts
<1>2. /\ DOMAIN X = DOMAIN State /\ X.w = w /\ X.c = c /\ X.ses = ses
      /\ X.act = "none" /\ X.t = [t EXCEPT !.live = "none", !.expired = TRUE]
  BY <1>1, StateFacts DEF IsState
<1>3. Commit(IF t.up # 0 THEN X ELSE Closing(State))
  BY DEF LivenessRuns
<1> HIDE DEF X
<1>4. IsTransport(X.t)
  BY <1>1, <1>2 DEF IsTransport
<1>5. Timed(State, X)
  BY <1>1, <1>2, <1>4, StateFacts DEF IsState, IsTransport, Timed
<1>6. Resting(X) /\ Resting(Closing(State))
  BY <1>1, <1>5, StateFacts, TimedRests, ClosingRests
<1> QED
  BY <1>3, <1>6, CommitInv

LEMMA DeadlineRunsInv ==
  ASSUME ConnInv, DeadlineRuns
  PROVE  ConnInv'
BY InvFacts, CancelRests, CommitInv DEF DeadlineRuns

(* The connection is closed, by the loop or by its peer.                   *)
LEMMA ClosesInv ==
  ASSUME ConnInv, CloseRuns \/ PeerLeaves
  PROVE  ConnInv'
BY InvFacts, ClosingRests, CommitInv DEF CloseRuns, PeerLeaves

-----------------------------------------------------------------------------
(* The peer and the session.                                               *)
LEMMA PeerSendsInv ==
  ASSUME ConnInv, NEW m \in Inputs, PeerSends(m)
  PROVE  ConnInv'
<1> DEFINE X == [State EXCEPT !.c.in = Append(@, m), !.c.wake = TRUE]
<1>1. Sound(State) /\ Fed(State) /\ IsState(State) /\ IsConn(c)
  BY InvFacts
<1>2. /\ DOMAIN X = DOMAIN State /\ X.w = w /\ X.t = t /\ X.ses = ses
      /\ X.act = "none"
      /\ X.c = [c EXCEPT !.in = Append(@, m), !.wake = TRUE]
  BY <1>1, StateFacts DEF IsState
<1> HIDE DEF X
<1>3. Append(c.in, m) \in Seq(Inputs)
  BY <1>1 DEF IsConn
<1>4. /\ IsConn(X.c) /\ X.c.open = c.open /\ X.c.active = c.active
      /\ X.c.draining = c.draining /\ X.c.lease = c.lease /\ X.c.wake = TRUE
  BY <1>1, <1>2, <1>3 DEF IsConn
<1>5. ConnOnly(State, X)
  BY <1>1, <1>2, <1>4, StateFacts DEF IsState, ConnOnly
<1>6. Sound(X) /\ Fed(X)
  BY <1>1, <1>4, <1>5, StateFacts, ConnEdit
<1>7. Resting(X)
  BY <1>4, <1>6, WokenRests
<1> QED
  BY <1>2, <1>7, PlainCommit DEF PeerSends

(* The peer reads: the output drains.                                      *)
LEMMA PeerReadsInv ==
  ASSUME ConnInv, PeerReads
  PROVE  ConnInv'
<1> DEFINE X == [State EXCEPT !.c.out = FALSE]
<1>1. Sound(State) /\ Fed(State) /\ Awake(State) /\ IsState(State) /\ IsConn(c)
  BY InvFacts
<1>2. /\ DOMAIN X = DOMAIN State /\ X.w = w /\ X.t = t /\ X.ses = ses
      /\ X.act = "none" /\ X.c = [c EXCEPT !.out = FALSE]
  BY <1>1, StateFacts DEF IsState
<1> HIDE DEF X
<1>3. /\ IsConn(X.c) /\ X.c.open = c.open /\ X.c.active = c.active
      /\ X.c.draining = c.draining /\ X.c.lease = c.lease
      /\ X.c.wake = c.wake /\ X.c.drain = c.drain /\ X.c.in = c.in
      /\ X.c.closeReq = c.closeReq
  BY <1>1, <1>2 DEF IsConn
<1>4. ConnOnly(State, X)
  BY <1>1, <1>2, <1>3, StateFacts DEF IsState, ConnOnly
<1>5. Sound(X) /\ Fed(X)
  BY <1>1, <1>3, <1>4, StateFacts, ConnEdit
<1>6. Awake(X)
  BY <1>1, <1>2, <1>3, StateFacts
     DEF Awake, FailureWakes, ResultsWake, OutWakes, DrainWakes, InputWakes
<1>7. Resting(X)
  BY <1>5, <1>6 DEF Resting
<1> QED
  BY <1>2, <1>7, PlainCommit DEF PeerReads

(* The session ends elsewhere.                                             *)
LEMMA SessionClosesInv ==
  ASSUME ConnInv, SessionCloses
  PROVE  ConnInv'
<1> DEFINE X == [State EXCEPT !.ses.done = TRUE, !.ses.items = 0,
                              !.ses.bytes = 0]
<1>1. /\ Sound(State) /\ Fed(State) /\ Awake(State) /\ IsState(State)
      /\ IsSession(ses)
  BY InvFacts
<1>2. /\ DOMAIN X = DOMAIN State /\ X.w = w /\ X.t = t /\ X.c = c
      /\ X.act = "none"
      /\ X.ses = [ses EXCEPT !.done = TRUE, !.items = 0, !.bytes = 0]
  BY <1>1, StateFacts DEF IsState
<1> HIDE DEF X
<1>3. /\ IsSession(X.ses) /\ X.ses.slot = ses.slot /\ X.ses.held = ses.held
      /\ X.ses.done = TRUE
  BY <1>1, <1>2 DEF IsSession
<1>4. IsState(X)
  BY <1>1, <1>2, <1>3, StateFacts DEF IsState
<1>5. Shape(X)
  BY <1>1, <1>2, StateFacts DEF Sound, Shape
<1>6. SlotOwned(X) /\ LaneOwned(X) /\ Charged(X)
  BY <1>1, <1>2, <1>3, StateFacts DEF Sound, SlotOwned, LaneOwned, Charged
<1>7. Fed(X) /\ Awake(X)
  BY <1>1, <1>2, StateFacts
     DEF Fed, Awake, FailureWakes, ResultsWake, OutWakes, DrainWakes,
         InputWakes
<1>8. Resting(X)
  BY <1>4, <1>5, <1>6, <1>7 DEF Resting, Sound
<1> QED
  BY <1>2, <1>8, PlainCommit DEF SessionCloses


(* Y is X after a step of the request goroutine: what it does with its     *)
(* lease and the request.                                                  *)
WorkerStep(X, Y) ==
  /\ IsState(Y) /\ Y.t = X.t /\ Y.c.open = X.c.open
  /\ Y.ses.held = X.ses.held /\ Y.ses.done = X.ses.done
  /\ Y.ses.items = X.ses.items /\ Y.ses.bytes = X.ses.bytes
  /\ Y.w.pc # "none" => Y.c.active /\ ~Y.c.draining
  /\ Y.c.active /\ ~Y.c.draining => Y.w.pc # "none"
  /\ Y.c.lease => Y.c.draining
  /\ Y.w.ctx => ~Y.c.open \/ Y.act = "close"
  /\ Y.ses.slot => \/ Y.c.open /\ Y.c.lease
                   \/ Y.w.pc # "none" /\ Y.w.lease

(* A step of the request goroutine keeps the claims.                       *)
LEMMA WorkerSound ==
  ASSUME NEW X, NEW Y, Sound(X), X.w.pc # "none", WorkerStep(X, Y)
  PROVE  Sound(Y) /\ Y.t.phase = "none"
<1>1. X.t.phase = "none"
  BY DEF Sound, Shape
<1>2. Shape(Y)
  BY <1>1 DEF Sound, Shape, WorkerStep
<1>3. SlotOwned(Y)
  BY DEF SlotOwned, WorkerStep
<1>4. LaneOwned(Y) /\ Charged(Y)
  BY DEF Sound, LaneOwned, Charged, WorkerStep
<1> QED
  BY <1>1, <1>2, <1>3, <1>4 DEF Sound, WorkerStep

(* While it runs the slot is its own, if anybody's.                        *)
LEMMA WorkerFacts ==
  ASSUME NEW X, Sound(X), X.w.pc # "none"
  PROVE  /\ X.c.active /\ ~X.c.draining /\ ~X.c.lease /\ X.t.phase = "none"
         /\ X.ses.slot => X.w.lease
<1>1. X.c.active /\ ~X.c.draining /\ ~X.c.lease /\ X.t.phase = "none"
  BY DEF Sound, Shape
<1> QED
  BY <1>1, NoTransportOwner

(* A request that is being served needs no other wake-up.                  *)
LEMMA ServingRests ==
  ASSUME NEW Y, Sound(Y), Y.t.phase = "none", Y.c.active, ~Y.c.draining,
         Y.w.pc # "none"
  PROVE  Resting(Y)
BY HttpAwake DEF DrainWakes, InputWakes

(* The request is served, and may take the lease of the downlink.          *)
LEMMA ServeInv ==
  ASSUME ConnInv, NEW lease \in BOOLEAN, Serve(lease)
  PROVE  ConnInv'
<1> DEFINE X == [State EXCEPT !.w.pc = "served", !.w.lease = lease,
                              !.ses.slot = @ \/ lease]
           b == ses.slot \/ lease
<1>1. /\ Sound(State) /\ IsState(State) /\ IsWorker(w) /\ IsSession(ses)
      /\ w.pc = "serve" /\ ~w.lease /\ b \in BOOLEAN
  BY InvFacts DEF Serve, IsWorker
<1>2. /\ DOMAIN X = DOMAIN State /\ X.c = c /\ X.t = t
      /\ X.act = "none" /\ X.w = [w EXCEPT !.pc = "served", !.lease = lease]
      /\ X.ses = [ses EXCEPT !.slot = b]
  BY <1>1, StateFacts DEF IsState
<1> HIDE DEF X, b
<1>3. /\ IsWorker(X.w) /\ X.w.pc = "served" /\ X.w.lease = lease
      /\ X.w.ctx = w.ctx
  BY <1>1, <1>2 DEF IsWorker
<1>4. /\ IsSession(X.ses) /\ X.ses.slot = b /\ X.ses.held = ses.held
      /\ X.ses.done = ses.done /\ X.ses.items = ses.items
      /\ X.ses.bytes = ses.bytes
  BY <1>1, <1>2 DEF IsSession
<1>5. IsState(X)
  BY <1>1, <1>2, <1>3, <1>4, StateFacts DEF IsState
<1>6. /\ c.active /\ ~c.draining /\ ~c.lease /\ t.phase = "none"
      /\ ~ses.slot /\ (w.ctx => ~c.open)
  BY <1>1, WorkerFacts, StateFacts DEF Sound, Shape
<1>7. b => lease
  BY <1>6 DEF b
<1>8. Sound(X) /\ X.t.phase = "none"
  <2>1. WorkerStep(State, X)
    BY <1>2, <1>3, <1>4, <1>5, <1>6, <1>7, StateFacts DEF WorkerStep
  <2> QED
    BY <1>1, <2>1, StateFacts, WorkerSound
<1>9. Resting(X)
  BY <1>2, <1>3, <1>6, <1>8, ServingRests
<1>10. w' = X.w /\ ses' = X.ses /\ c' = X.c /\ t' = X.t
  BY <1>1, <1>2 DEF Serve, b
<1> QED
  BY <1>2, <1>9, <1>10, PlainCommit

(* The response is handed to the loop, or its lease is released.           *)
LEMMA RespondInv ==
  ASSUME ConnInv, NEW s \in BOOLEAN, NEW ok \in BOOLEAN, Respond(s, ok)
  PROVE  ConnInv'
<1> DEFINE A == [State EXCEPT !.w.lease = FALSE]
           R == ReleaseLease(A, w.lease)
           P == [R EXCEPT !.w.pc = "none"]
           D == FinishRequest(P)
           C == [D EXCEPT !.c.closeReq = TRUE]
           Q == [R EXCEPT !.w.pc = "queued"]
           K == [State EXCEPT !.w.pc = "queued"]
<1>1. /\ Sound(State) /\ IsState(State) /\ IsWorker(w) /\ IsSession(ses)
      /\ IsConn(c) /\ w.pc = "served" /\ w.lease \in BOOLEAN
      /\ w.ctx \in BOOLEAN
  BY InvFacts DEF Respond, IsWorker
<1>2. Commit(IF w.ctx THEN D ELSE IF ~ok THEN C ELSE IF s THEN Q ELSE K)
  BY <1>1 DEF Respond
<1>3. /\ c.active /\ ~c.draining /\ ~c.lease /\ t.phase = "none"
      /\ (ses.slot => w.lease) /\ (w.ctx => ~c.open)
  BY <1>1, WorkerFacts, StateFacts DEF Sound, Shape
<1>4. Resting(K)
  <2>1. /\ DOMAIN K = DOMAIN State /\ K.c = c /\ K.t = t /\ K.ses = ses
        /\ K.act = "none" /\ K.w = [w EXCEPT !.pc = "queued"]
    BY <1>1, StateFacts DEF IsState
  <2> HIDE DEF K
  <2>2. /\ IsWorker(K.w) /\ K.w.pc = "queued" /\ K.w.lease = w.lease
        /\ K.w.ctx = w.ctx
    BY <1>1, <2>1 DEF IsWorker
  <2>3. IsState(K)
    BY <1>1, <2>1, <2>2, StateFacts DEF IsState
  <2>4. Sound(K) /\ K.t.phase = "none"
    <3>1. WorkerStep(State, K)
      BY <1>3, <2>1, <2>2, <2>3, StateFacts DEF WorkerStep
    <3> QED
      BY <1>1, <3>1, StateFacts, WorkerSound
  <2> QED
    BY <1>3, <2>1, <2>2, <2>4, ServingRests
<1>5. /\ DOMAIN A = DOMAIN State /\ A.c = c /\ A.t = t /\ A.ses = ses
      /\ A.act = "none" /\ A.w = [w EXCEPT !.lease = FALSE]
  BY <1>1, StateFacts DEF IsState
<1> HIDE DEF A
<1>6. IsWorker(A.w) /\ A.w.ctx = w.ctx /\ A.w.lease = FALSE
  BY <1>1, <1>5 DEF IsWorker
<1>7. IsState(A)
  BY <1>1, <1>5, <1>6, StateFacts DEF IsState
<1>8. Freed(A, R, w.lease)
  BY <1>1, <1>7, ReleaseLeaseEffect
<1> HIDE DEF R
<1>9. /\ IsState(R) /\ DOMAIN R = DOMAIN State /\ R.c = c /\ R.t = t
      /\ R.act = "none" /\ R.w = A.w /\ ~R.ses.slot
      /\ R.ses.held = ses.held /\ R.ses.done = ses.done
      /\ R.ses.items = ses.items /\ R.ses.bytes = ses.bytes
  BY <1>3, <1>5, <1>7, <1>8 DEF Freed
<1>10. IsConn(R.c) /\ IsWorker(R.w)
  BY <1>9 DEF IsState
<1>11. Resting(Q)
  <2>1. /\ DOMAIN Q = DOMAIN R /\ Q.c = R.c /\ Q.t = R.t /\ Q.ses = R.ses
        /\ Q.act = R.act /\ Q.w = [R.w EXCEPT !.pc = "queued"]
    BY <1>9 DEF IsState
  <2> HIDE DEF Q
  <2>2. IsWorker(Q.w) /\ Q.w.pc = "queued" /\ Q.w.ctx = w.ctx
    BY <1>6, <1>9, <1>10, <2>1 DEF IsWorker
  <2>3. IsState(Q)
    BY <1>9, <2>1, <2>2 DEF IsState
  <2>4. Sound(Q) /\ Q.t.phase = "none"
    <3>1. WorkerStep(State, Q)
      BY <1>3, <1>9, <2>1, <2>2, <2>3, StateFacts DEF WorkerStep
    <3> QED
      BY <1>1, <3>1, StateFacts, WorkerSound
  <2> QED
    BY <1>3, <1>9, <2>1, <2>2, <2>4, ServingRests
<1>12. /\ DOMAIN P = DOMAIN R /\ P.c = R.c /\ P.t = R.t /\ P.ses = R.ses
       /\ P.act = R.act /\ P.w = [R.w EXCEPT !.pc = "none"]
  BY <1>9 DEF IsState
<1> HIDE DEF P
<1>13. IsWorker(P.w) /\ P.w.pc = "none" /\ P.w.ctx = w.ctx
  BY <1>6, <1>9, <1>10, <1>12 DEF IsWorker
<1>14. IsState(P)
  BY <1>9, <1>12, <1>13 DEF IsState
<1>15. /\ DOMAIN D = DOMAIN P /\ D.w = P.w /\ D.t = P.t /\ D.ses = P.ses
       /\ D.act = P.act
       /\ D.c = [P.c EXCEPT !.dl = "none", !.fired = FALSE,
                            !.active = FALSE, !.cancel = FALSE]
  BY <1>14 DEF IsState, FinishRequest, InvalidateDeadline
<1> HIDE DEF D
<1>16. /\ IsConn(D.c) /\ D.c.open = c.open /\ D.c.active = FALSE
       /\ D.c.lease = c.lease /\ D.c.draining = c.draining
  BY <1>9, <1>10, <1>12, <1>15 DEF IsConn
<1>17. IsState(D)
  BY <1>14, <1>15, <1>16 DEF IsState
<1>18. Sound(D) /\ D.t.phase = "none"
  <2>1. WorkerStep(State, D)
    BY <1>3, <1>9, <1>12, <1>13, <1>15, <1>16, <1>17, StateFacts
       DEF WorkerStep
  <2> QED
    BY <1>1, <2>1, StateFacts, WorkerSound
<1>19. w.ctx => Resting(D)
  BY <1>3, <1>16, <1>18 DEF Resting, Fed, Awake
<1>20. Resting(C)
  <2>1. /\ DOMAIN C = DOMAIN D /\ C.w = D.w /\ C.t = D.t /\ C.ses = D.ses
        /\ C.act = D.act /\ C.c = [D.c EXCEPT !.closeReq = TRUE]
    BY <1>17 DEF IsState
  <2> HIDE DEF C
  <2>2. /\ IsConn(C.c) /\ C.c.open = D.c.open /\ C.c.active = D.c.active
        /\ C.c.lease = D.c.lease /\ C.c.draining = D.c.draining
        /\ C.c.closeReq = TRUE
    BY <1>16, <2>1 DEF IsConn
  <2>3. ConnOnly(D, C)
    BY <1>17, <2>1, <2>2 DEF IsState, ConnOnly
  <2>4. Sound(C) /\ C.t.phase = "none"
    BY <1>18, <2>1, <2>2, <2>3, ConnEdit DEF Fed
  <2> QED
    BY <1>3, <1>16, <2>2, <2>4, HttpAwake DEF DrainWakes, InputWakes
<1> HIDE DEF C, Q, K
<1> QED
  BY <1>2, <1>4, <1>11, <1>19, <1>20, CommitInv

(* The callback of a response takes over the lease.                        *)
LEMMA ResponseWrittenInv ==
  ASSUME ConnInv, NEW err \in BOOLEAN, NEW stuck \in BOOLEAN,
         NEW closeAfter \in BOOLEAN, ResponseWritten(err, stuck, closeAfter)
  PROVE  ConnInv'
<1> DEFINE X == [State EXCEPT !.w.pc = "none", !.w.lease = FALSE]
           Y == BeginResponse(X, w.lease, closeAfter)
           F == FinishResponse(Y)
           R == ReleaseLease(X, w.lease)
           E == FinishRequest(R)
           O == [Y EXCEPT !.c.out = TRUE]
           W == ArmDrainWake(O)
           I == ArmDeadline(F, "idle")
           K == Wake(I)
<1>1. /\ Sound(State) /\ IsState(State) /\ IsWorker(w) /\ IsSession(ses)
      /\ IsConn(c) /\ w.pc = "queued" /\ w.lease \in BOOLEAN
      /\ (~c.open => err)
  BY InvFacts DEF ResponseWritten, IsWorker
<1>2. Commit(IF err THEN Closing(E) ELSE IF stuck THEN W
             ELSE IF closeAfter THEN Closing(F) ELSE K)
  BY DEF ResponseWritten
<1>3. /\ c.active /\ ~c.draining /\ ~c.lease /\ t.phase = "none"
      /\ (ses.slot => w.lease) /\ (w.ctx => ~c.open)
  BY <1>1, WorkerFacts, StateFacts DEF Sound, Shape
<1>4. /\ DOMAIN X = DOMAIN State /\ X.c = c /\ X.t = t /\ X.ses = ses
      /\ X.act = "none" /\ X.w = [w EXCEPT !.pc = "none", !.lease = FALSE]
  BY <1>1, StateFacts DEF IsState
<1> HIDE DEF X
<1>5. /\ IsWorker(X.w) /\ X.w.ctx = w.ctx /\ X.w.lease = FALSE
      /\ X.w.pc = "none"
  BY <1>1, <1>4 DEF IsWorker
<1>6. IsState(X)
  BY <1>1, <1>4, <1>5, StateFacts DEF IsState
<1>7. Resting(Closing(E))
  <2>1. Freed(X, R, w.lease)
    BY <1>1, <1>6, ReleaseLeaseEffect
  <2> HIDE DEF R
  <2>2. /\ IsState(R) /\ DOMAIN R = DOMAIN State /\ R.c = c /\ R.t = t
        /\ R.act = "none" /\ R.w = X.w /\ ~R.ses.slot
        /\ R.ses.held = ses.held /\ R.ses.done = ses.done
        /\ R.ses.items = ses.items /\ R.ses.bytes = ses.bytes
    BY <1>3, <1>4, <2>1 DEF Freed
  <2>3. /\ DOMAIN E = DOMAIN R /\ E.w = R.w /\ E.t = R.t /\ E.ses = R.ses
        /\ E.act = R.act
        /\ E.c = [R.c EXCEPT !.dl = "none", !.fired = FALSE,
                             !.active = FALSE, !.cancel = FALSE]
    BY <2>2 DEF IsState, FinishRequest, InvalidateDeadline
  <2> HIDE DEF E
  <2>4. /\ IsConn(E.c) /\ E.c.open = c.open /\ E.c.active = FALSE
        /\ E.c.lease = c.lease /\ E.c.draining = c.draining
    BY <1>1, <2>2, <2>3 DEF IsConn
  <2>5. IsState(E)
    BY <2>2, <2>3, <2>4 DEF IsState
  <2>6. Sound(E)
    <3>1. WorkerStep(State, E)
      BY <1>3, <1>5, <2>2, <2>3, <2>4, <2>5, StateFacts DEF WorkerStep
    <3> QED
      BY <1>1, <3>1, StateFacts, WorkerSound
  <2> QED
    BY <2>6, ClosingRests
<1>8. /\ DOMAIN Y = DOMAIN X /\ Y.w = X.w /\ Y.t = X.t /\ Y.ses = X.ses
      /\ Y.act = X.act
      /\ Y.c = [X.c EXCEPT !.cancel = FALSE, !.draining = TRUE,
                           !.closeAfter = closeAfter, !.lease = w.lease,
                           !.dl = "write", !.fired = FALSE]
  BY <1>6 DEF IsState, BeginResponse, ArmDeadline
<1> HIDE DEF Y
<1>9. /\ IsConn(Y.c) /\ Y.c.open = c.open /\ Y.c.draining = TRUE
      /\ Y.c.lease = w.lease
  BY <1>1, <1>4, <1>8 DEF IsConn
<1>10. IsState(Y)
  BY <1>6, <1>8, <1>9 DEF IsState
<1>11. c.open => Sound(Y) /\ Y.t.phase = "none"
  <2>1. SUFFICES ASSUME c.open PROVE Sound(Y) /\ Y.t.phase = "none"
    OBVIOUS
  <2>2. /\ IsState(Y) /\ Y.t = State.t /\ Y.ses = State.ses
        /\ Y.c.open = State.c.open /\ Y.w.pc = "none" /\ ~Y.w.ctx
        /\ Y.c.draining
    BY <1>3, <1>4, <1>5, <1>8, <1>9, <1>10, <2>1, StateFacts
  <2>3. Y.ses.slot => Y.c.open /\ Y.c.lease
    BY <1>3, <1>9, <2>1, <2>2, StateFacts
  <2>4. WorkerStep(State, Y)
    BY <2>2, <2>3 DEF WorkerStep
  <2> QED
    BY <1>1, <2>4, StateFacts, WorkerSound
<1>12. c.open => Idle(F)
  BY <1>9, <1>11, FinishResponseIdle
<1> HIDE DEF F
<1>13. c.open => Resting(Closing(F))
  BY <1>12, ClosingRests DEF Idle
<1>14. c.open => Resting(K)
  <2>1. SUFFICES ASSUME c.open PROVE Resting(K)
    OBVIOUS
  <2>2. Idle(F) /\ IsState(F)
    BY <1>12, <2>1 DEF Idle, Sound
  <2>3. Timed(F, I)
    BY <2>2, DeadlineTimed
  <2> HIDE DEF I
  <2>4. Idle(I) /\ IsState(I)
    BY <2>2, <2>3, IdleTimed DEF Idle, Sound
  <2>5. Timed(I, K) /\ K.c.wake
    BY <2>4, WakeTimed
  <2> HIDE DEF K
  <2>6. Idle(K)
    BY <2>4, <2>5, IdleTimed
  <2> QED
    BY <2>5, <2>6, WokenRests DEF Idle, Fed
<1>15. c.open => Resting(W)
  <2>1. SUFFICES ASSUME c.open PROVE Resting(W)
    OBVIOUS
  <2>2. /\ DOMAIN O = DOMAIN Y /\ O.w = Y.w /\ O.t = Y.t /\ O.ses = Y.ses
        /\ O.act = Y.act /\ O.c = [Y.c EXCEPT !.out = TRUE]
    BY <1>10 DEF IsState
  <2> HIDE DEF O
  <2>3. /\ IsConn(O.c) /\ O.c.open = Y.c.open /\ O.c.draining = TRUE
        /\ O.c.lease = Y.c.lease /\ O.c.active = Y.c.active
    BY <1>9, <2>2 DEF IsConn
  <2>4. ConnOnly(Y, O)
    BY <1>10, <2>2, <2>3 DEF IsState, ConnOnly
  <2>5. Sound(O) /\ O.t.phase = "none"
    BY <1>4, <1>5, <1>8, <1>9, <1>11, <2>1, <2>2, <2>3, <2>4, ConnSound
  <2>6. Timed(O, W) /\ W.c.drain
    BY <2>5, WakeTimed DEF Sound
  <2> HIDE DEF W
  <2>7. Sound(W) /\ W.t.phase = "none"
    BY <2>5, <2>6, TimedSound DEF Timed
  <2> QED
    BY <2>6, <2>7, HttpAwake DEF DrainWakes, InputWakes
<1> HIDE DEF E, K, W
<1> QED
  BY <1>1, <1>2, <1>7, <1>13, <1>14, <1>15, CommitInv


(* Y is X after a step of a started transport: what must stay as it is.    *)
TransportStep(X, Y) ==
  /\ IsState(Y) /\ Y.w = X.w /\ Y.act = X.act
  /\ Y.c.open = X.c.open /\ Y.c.active = X.c.active
  /\ Y.c.draining = X.c.draining /\ Y.c.lease = X.c.lease
  /\ Y.ses.held = X.ses.held
  /\ Y.t.phase = X.t.phase /\ Y.t.ctx = X.t.ctx /\ Y.t.closed = X.t.closed
  /\ ~Y.c.open => Y.t.inbound = <<>> /\ Y.t.frag = 0
  /\ (Y.t.doing # 0) <=> (Y.t.pc = "process")

(* A step of the transport that accounts for the slot and the charge.      *)
LEMMA TransportSound ==
  ASSUME NEW X, NEW Y, Sound(X), X.t.phase \in {"open", "closing"},
         TransportStep(X, Y), SlotOwned(Y), Charged(Y)
  PROVE  Sound(Y)
<1>1. Shape(Y)
  BY DEF Sound, Shape, TransportStep
<1>2. LaneOwned(Y)
  BY DEF Sound, LaneOwned, TransportStep
<1> QED
  BY <1>1, <1>2 DEF Sound, TransportStep

(* Whatever works for a transport works for one that was started.          *)
LEMMA Started ==
  ASSUME NEW X, Sound(X),
         \/ X.t.pc # "none" \/ X.t.down # "none" \/ X.t.monitor # "none"
         \/ X.t.writing
  PROVE  X.t.phase \in {"open", "closing"}
<1>1. X.t.phase \in {"none", "handshake", "open", "closing"}
  BY DEF Sound, IsState, IsTransport
<1> QED
  BY <1>1 DEF Sound, Shape, Unstarted

(* A failure is noted and the loop is woken, or the transport is over.     *)
LEMMA FailRests ==
  ASSUME NEW X, Sound(X), Fed(X), X.t.phase \in {"open", "closing"},
         X.t.ctx => Awake(X)
  PROVE  Resting(Fail(X))
<1> DEFINE A == [X EXCEPT !.t.failure = TRUE]
           Y == Wake(A)
<1>1. IsState(X) /\ IsTransport(X.t) /\ X.t.ctx \in BOOLEAN
  BY DEF Sound, IsState, IsTransport
<1>2. Fail(X) = IF X.t.ctx THEN X ELSE Y
  BY DEF Fail
<1>3. X.t.ctx => Resting(X)
  BY DEF Resting
<1>4. /\ DOMAIN A = DOMAIN X /\ A.c = X.c /\ A.w = X.w /\ A.ses = X.ses
      /\ A.act = X.act /\ A.t = [X.t EXCEPT !.failure = TRUE]
  BY <1>1 DEF IsState
<1> HIDE DEF A
<1>5. IsTransport(A.t)
  BY <1>1, <1>4 DEF IsTransport
<1>6. SameClaims(X, A) /\ A.t.results = X.t.results
  BY <1>1, <1>4, <1>5 DEF SameClaims, IsState, IsTransport
<1>7. Sound(A) /\ Fed(A) /\ IsState(A)
  BY <1>6, SameClaimsSound DEF SameClaims, Fed, Sound
<1>8. Timed(A, Y) /\ Y.c.wake
  BY <1>7, WakeTimed
<1> HIDE DEF Y
<1>9. Resting(Y)
  BY <1>7, <1>8, TimedSound, WokenRests
<1> QED
  BY <1>2, <1>3, <1>9

-----------------------------------------------------------------------------
(* Write callbacks.                                                        *)
LEMMA HandshakeWrittenInv ==
  ASSUME ConnInv, NEW err \in BOOLEAN, NEW stuck \in BOOLEAN,
         HandshakeWritten(err, stuck)
  PROVE  ConnInv'
<1> DEFINE X == [State EXCEPT !.t.written = TRUE, !.c.out = stuck]
           Y == Wake(X)
<1>1. /\ Sound(State) /\ IsState(State) /\ IsConn(c) /\ IsTransport(t)
      /\ c.open /\ t.phase = "handshake"
  BY InvFacts DEF HandshakeWritten
<1>2. Commit(IF err THEN Closing(State) ELSE Y)
  BY DEF HandshakeWritten
<1>3. /\ DOMAIN X = DOMAIN State /\ X.w = w /\ X.ses = ses
      /\ X.act = "none" /\ X.c = [c EXCEPT !.out = stuck]
      /\ X.t = [t EXCEPT !.written = TRUE]
  BY <1>1, StateFacts DEF IsState
<1> HIDE DEF X
<1>4. /\ IsConn(X.c) /\ X.c.open = c.open /\ X.c.active = c.active
      /\ X.c.draining = c.draining /\ X.c.lease = c.lease
  BY <1>1, <1>3 DEF IsConn
<1>5. IsTransport(X.t)
  BY <1>1, <1>3 DEF IsTransport
<1>6. /\ X.t.closed = t.closed /\ X.t.inbound = t.inbound
      /\ X.t.frag = t.frag /\ X.t.doing = t.doing /\ X.t.pc = t.pc
      /\ X.t.down = t.down /\ X.t.current = t.current
      /\ X.t.out = t.out /\ X.t.bytes = t.bytes /\ X.t.items = t.items
      /\ X.t.ctx = t.ctx /\ X.t.failure = t.failure
      /\ X.t.results = t.results /\ X.t.monitor = t.monitor
      /\ X.t.up = t.up /\ X.t.writing = t.writing /\ X.t.phase = t.phase
  BY <1>1, <1>3 DEF IsTransport
<1>7. Unstarted(X.t)
  BY <1>1, <1>6, StateFacts DEF Sound, Shape, Unstarted
<1>8. Shape(X)
  BY <1>1, <1>3, <1>4, <1>6, <1>7, StateFacts DEF Sound, Shape
<1>9. SlotOwned(X) /\ LaneOwned(X)
  BY <1>1, <1>3, <1>4, <1>6, StateFacts DEF Sound, SlotOwned, LaneOwned
<1>10. Charged(X)
  BY <1>1, <1>3, <1>6, StateFacts DEF Sound, Charged
<1>11. IsState(X) /\ Sound(X) /\ Fed(X)
  BY <1>1, <1>3, <1>4, <1>5, <1>6, <1>8, <1>9, <1>10, StateFacts
     DEF IsState, Sound, Fed
<1>12. Timed(X, Y) /\ Y.c.wake
  BY <1>11, WakeTimed
<1> HIDE DEF Y
<1>13. Resting(Y) /\ Resting(Closing(State))
  BY <1>1, <1>11, <1>12, TimedSound, WokenRests, ClosingRests
<1> QED
  BY <1>2, <1>13, CommitInv

(* The callback of a frame finishes the current item.                      *)
LEMMA FrameWrittenInv ==
  ASSUME ConnInv, NEW err \in BOOLEAN, NEW stuck \in BOOLEAN,
         FrameWritten(err, stuck)
  PROVE  ConnInv'
<1> DEFINE X == [State EXCEPT !.t.writing = FALSE, !.c.out = stuck]
           Y == Wake(X)
           F == FinishCurrent(State, "err")
<1>1. /\ Sound(State) /\ IsState(State) /\ IsConn(c) /\ IsTransport(t)
      /\ Fed(State) /\ Shape(State) /\ t.writing
  BY InvFacts DEF FrameWritten
<1>2. Commit(IF err THEN Closing(F) ELSE Y)
  BY DEF FrameWritten
<1>3. /\ DOMAIN X = DOMAIN State /\ X.w = w /\ X.ses = ses
      /\ X.act = "none" /\ X.c = [c EXCEPT !.out = stuck]
      /\ X.t = [t EXCEPT !.writing = FALSE]
  BY <1>1, StateFacts DEF IsState
<1> HIDE DEF X
<1>4. /\ IsConn(X.c) /\ X.c.open = c.open /\ X.c.active = c.active
      /\ X.c.draining = c.draining /\ X.c.lease = c.lease
  BY <1>1, <1>3 DEF IsConn
<1>5. IsTransport(X.t)
  BY <1>1, <1>3 DEF IsTransport
<1>6. /\ X.t.closed = t.closed /\ X.t.inbound = t.inbound
      /\ X.t.frag = t.frag /\ X.t.doing = t.doing /\ X.t.pc = t.pc
      /\ X.t.down = t.down /\ X.t.current = t.current
      /\ X.t.out = t.out /\ X.t.bytes = t.bytes /\ X.t.items = t.items
      /\ X.t.ctx = t.ctx /\ X.t.results = t.results /\ X.t.phase = t.phase
  BY <1>1, <1>3 DEF IsTransport
<1>7. t.phase \in {"open", "closing"}
  BY <1>1, Started, StateFacts
<1>8. IsState(X)
  BY <1>1, <1>3, <1>4, <1>5, StateFacts DEF IsState
<1>9. TransportStep(State, X)
  BY <1>1, <1>3, <1>4, <1>6, <1>8, StateFacts DEF TransportStep, Shape
<1>10. SlotOwned(X)
  BY <1>1, <1>3, <1>4, <1>6, StateFacts DEF Sound, SlotOwned
<1>11. Charged(X)
  BY <1>1, <1>3, <1>6, StateFacts DEF Sound, Charged
<1>12. Sound(X)
  BY <1>1, <1>7, <1>9, <1>10, <1>11, StateFacts, TransportSound
<1>13. Fed(X)
  BY <1>1, <1>4, <1>6, StateFacts DEF Fed
<1>14. Timed(X, Y) /\ Y.c.wake
  BY <1>8, WakeTimed
<1> HIDE DEF Y
<1>15. Resting(Y)
  BY <1>12, <1>13, <1>14, TimedSound, WokenRests
<1>16. Finished(State, F)
  BY <1>1, FinishCurrentEffect
<1> HIDE DEF F
<1>17. Resting(Closing(F))
  BY <1>1, <1>16, FinishedSound, ClosingRests
<1> QED
  BY <1>2, <1>15, <1>17, CommitInv

-----------------------------------------------------------------------------
(* The uplink worker.                                                      *)

(* A connection whose uplink worker goes on is as awake as it was.         *)
LEMMA WorkingRests ==
  ASSUME NEW Y, Awake(State), Sound(Y), Y.c = c, Y.w = w,
         Y.t.failure = t.failure, Y.t.results = t.results,
         Y.t.out = t.out, Y.t.current = t.current, Y.t.writing = t.writing,
         Y.t.phase = t.phase, Y.t.up = t.up,
         Y.t.pc # "none" \/ (c.open => t.phase = "closing")
  PROVE  Resting(Y)
<1>1. Fed(Y)
  BY DEF Fed
<1>2. Awake(Y)
  BY StateFacts DEF Awake, FailureWakes, ResultsWake, OutWakes, DrainWakes,
                    InputWakes
<1> QED
  BY <1>1, <1>2 DEF Resting

(* The uplink worker stops once the transport is cancelled.                *)
LEMMA UplinkStopsInv ==
  ASSUME ConnInv, UplinkStops
  PROVE  ConnInv'
<1> DEFINE X == [State EXCEPT !.t.pc = "none"]
<1>1. /\ Sound(State) /\ IsState(State) /\ IsTransport(t) /\ Awake(State)
      /\ Shape(State) /\ t.pc = "take" /\ t.ctx
  BY InvFacts DEF UplinkStops
<1>2. /\ DOMAIN X = DOMAIN State /\ X.w = w /\ X.ses = ses /\ X.c = c
      /\ X.act = "none" /\ X.t = [t EXCEPT !.pc = "none"]
  BY <1>1, StateFacts DEF IsState
<1> HIDE DEF X
<1>3. IsTransport(X.t) /\ X.t.pc = "none"
  <2>1. DOMAIN t = TransportFields
    BY <1>1, TransportDomain
  <2>2. X.t.pc = "none"
    BY <1>2, <2>1 DEF TransportFields
  <2>3. IsTransport([t EXCEPT !.pc = "none"])
    BY <1>1 DEF IsTransport
  <2> QED
    BY <1>2, <2>2, <2>3
<1>4. /\ X.t.closed = t.closed /\ X.t.inbound = t.inbound
      /\ X.t.frag = t.frag /\ X.t.doing = t.doing
      /\ X.t.down = t.down /\ X.t.current = t.current
      /\ X.t.out = t.out /\ X.t.bytes = t.bytes /\ X.t.items = t.items
      /\ X.t.ctx = t.ctx /\ X.t.results = t.results /\ X.t.phase = t.phase
      /\ X.t.failure = t.failure /\ X.t.writing = t.writing /\ X.t.up = t.up
  BY <1>1, <1>2 DEF IsTransport
<1>5. t.phase \in {"open", "closing"}
  BY <1>1, Started, StateFacts
<1>6. IsState(X)
  BY <1>1, <1>2, <1>3, StateFacts DEF IsState
<1>7. TransportStep(State, X)
  BY <1>1, <1>2, <1>3, <1>4, <1>6, StateFacts DEF TransportStep, Shape
<1>8. SlotOwned(X)
  BY <1>1, <1>2, <1>4, StateFacts DEF Sound, SlotOwned
<1>9. Charged(X)
  BY <1>1, <1>2, <1>4, StateFacts DEF Sound, Charged
<1>10. Sound(X)
  BY <1>1, <1>5, <1>7, <1>8, <1>9, StateFacts, TransportSound
<1>11. c.open => t.phase = "closing"
  BY <1>1, StateFacts DEF Shape
<1>12. Resting(X)
  BY <1>1, <1>2, <1>4, <1>10, <1>11, WorkingRests
<1> QED
  BY <1>2, <1>12, PlainCommit DEF UplinkStops

(* The uplink worker reports and wakes the loop.                           *)
LEMMA UplinkReportsInv ==
  ASSUME ConnInv, UplinkReports
  PROVE  ConnInv'
<1> DEFINE X == [State EXCEPT !.t.pc = "none"]
           p == IF t.code = "ok" THEN "take" ELSE "none"
           R == [State EXCEPT !.t.results = Append(@, t.code), !.t.pc = p]
           Y == Wake(R)
<1>1. /\ Sound(State) /\ IsState(State) /\ IsTransport(t) /\ Awake(State)
      /\ Shape(State) /\ t.pc = "report" /\ t.code \in {"ok", "err"}
  BY InvFacts DEF UplinkReports, IsTransport
<1>2. Commit(IF t.ctx THEN X ELSE Y)
  BY DEF UplinkReports
<1>3. t.phase \in {"open", "closing"}
  BY <1>1, Started, StateFacts
<1>4. t.ctx => Resting(X)
  <2>1. /\ DOMAIN X = DOMAIN State /\ X.w = w /\ X.ses = ses /\ X.c = c
        /\ X.act = "none" /\ X.t = [t EXCEPT !.pc = "none"]
    BY <1>1, StateFacts DEF IsState
  <2> HIDE DEF X
  <2>2. IsTransport(X.t) /\ X.t.pc = "none"
    BY <1>1, <2>1 DEF IsTransport
  <2>3. /\ X.t.closed = t.closed /\ X.t.inbound = t.inbound
        /\ X.t.frag = t.frag /\ X.t.doing = t.doing
        /\ X.t.down = t.down /\ X.t.current = t.current
        /\ X.t.out = t.out /\ X.t.bytes = t.bytes /\ X.t.items = t.items
        /\ X.t.ctx = t.ctx /\ X.t.results = t.results /\ X.t.phase = t.phase
        /\ X.t.failure = t.failure /\ X.t.writing = t.writing
        /\ X.t.up = t.up
    BY <1>1, <2>1 DEF IsTransport
  <2>4. IsState(X)
    BY <1>1, <2>1, <2>2, StateFacts DEF IsState
  <2>5. TransportStep(State, X)
    BY <1>1, <2>1, <2>2, <2>3, <2>4, StateFacts DEF TransportStep, Shape
  <2>6. SlotOwned(X)
    BY <1>1, <2>1, <2>3, StateFacts DEF Sound, SlotOwned
  <2>7. Charged(X)
    BY <1>1, <2>1, <2>3, StateFacts DEF Sound, Charged
  <2>8. Sound(X)
    BY <1>1, <1>3, <2>5, <2>6, <2>7, StateFacts, TransportSound
  <2>9. t.ctx => (c.open => t.phase = "closing")
    BY <1>1, StateFacts DEF Shape
  <2> QED
    BY <1>1, <2>1, <2>3, <2>8, <2>9, WorkingRests
<1>5. Resting(Y)
  <2> DEFINE q == Append(t.results, t.code)
  <2>1. /\ DOMAIN R = DOMAIN State /\ R.w = w /\ R.ses = ses /\ R.c = c
        /\ R.act = "none" /\ R.t = [t EXCEPT !.results = q, !.pc = p]
    BY <1>1, StateFacts DEF IsState
  <2>2. q \in Seq({"ok", "err"}) /\ (t.code = "err" => "err" \in Range(q))
    <3>1. t.results \in Seq({"ok", "err"})
      BY <1>1 DEF IsTransport
    <3>2. /\ q \in Seq({"ok", "err"}) /\ Len(q) \in DOMAIN q
          /\ q[Len(q)] = t.code
      BY <1>1, <3>1
    <3> QED
      BY <3>2 DEF Range
  <2>3. p \in {"take", "none"} /\ (p = "none" => t.code = "err")
    BY <1>1
  <2> HIDE DEF R, q, p
  <2>4. IsTransport(R.t) /\ R.t.pc = p /\ R.t.results = q
    BY <1>1, <2>1, <2>2, <2>3 DEF IsTransport
  <2>5. /\ R.t.closed = t.closed /\ R.t.inbound = t.inbound
        /\ R.t.frag = t.frag /\ R.t.doing = t.doing
        /\ R.t.down = t.down /\ R.t.current = t.current
        /\ R.t.out = t.out /\ R.t.bytes = t.bytes /\ R.t.items = t.items
        /\ R.t.ctx = t.ctx /\ R.t.phase = t.phase
    BY <1>1, <2>1 DEF IsTransport
  <2>6. IsState(R)
    BY <1>1, <2>1, <2>4, StateFacts DEF IsState
  <2>7. TransportStep(State, R)
    BY <1>1, <2>1, <2>3, <2>4, <2>5, <2>6, StateFacts
       DEF TransportStep, Shape
  <2>8. SlotOwned(R)
    BY <1>1, <2>1, <2>5, StateFacts DEF Sound, SlotOwned
  <2>9. Charged(R)
    BY <1>1, <2>1, <2>5, StateFacts DEF Sound, Charged
  <2>10. Sound(R)
    BY <1>1, <1>3, <2>7, <2>8, <2>9, StateFacts, TransportSound
  <2>11. Fed(R)
    BY <2>2, <2>3, <2>4 DEF Fed
  <2>12. Timed(R, Y) /\ Y.c.wake
    BY <2>6, WakeTimed
  <2> HIDE DEF Y
  <2> QED
    BY <2>10, <2>11, <2>12, TimedSound, WokenRests
<1> QED
  BY <1>2, <1>4, <1>5, CommitInv


(* Y is X with the message the uplink worker held returned and its outcome *)
(* to be reported.                                                         *)
LEMMA ReportRests ==
  ASSUME NEW X, NEW z \in Nat \ {0}, NEW code \in {"ok", "err"},
         Awake(State), Sound(X), X.c = c, X.w = w, X.act = "none",
         X.t.phase \in {"open", "closing"}, X.t.doing = z,
         X.t.failure = t.failure, X.t.results = t.results,
         X.t.out = t.out, X.t.current = t.current, X.t.writing = t.writing,
         X.t.phase = t.phase, X.t.up = t.up
  PROVE  Resting([ReleaseInput(X, 1, z) EXCEPT
                    !.t.pc = "report", !.t.doing = 0, !.t.code = code])
<1> DEFINE R == ReleaseInput(X, 1, z)
           U == R.t
           Y == [R EXCEPT !.t.pc = "report", !.t.doing = 0, !.t.code = code]
<1>1. IsState(X) /\ IsTransport(X.t) /\ Shape(X)
  BY DEF Sound, IsState
<1>2. Refunded(X, R, 1, z)
  BY <1>1, ReleaseInputEffect
<1> HIDE DEF R
<1>3. /\ DOMAIN R = DOMAIN X /\ R.c = X.c /\ R.w = X.w /\ R.act = X.act
      /\ R.t = [X.t EXCEPT !.items = @ - 1, !.bytes = @ - z]
      /\ IsSession(R.ses)
  BY <1>2 DEF Refunded
<1>4. IsTransport(R.t)
  <2> DEFINE i == X.t.items - 1
             j == X.t.bytes - z
  <2>1. i \in Int /\ j \in Int
    BY <1>1 DEF IsTransport
  <2> DEFINE V == [X.t EXCEPT !.items = i]
  <2>2. R.t = [V EXCEPT !.bytes = j]
    BY <1>1, <1>3 DEF IsTransport
  <2> HIDE DEF i, j
  <2>3. IsTransport(V)
    BY <1>1, <2>1 DEF IsTransport
  <2> HIDE DEF V
  <2> QED
    BY <2>1, <2>2, <2>3 DEF IsTransport
<1>5. R.t.items = X.t.items - 1 /\ R.t.bytes = X.t.bytes - z
  <2>1. DOMAIN X.t = TransportFields
    BY <1>1, TransportDomain
  <2> QED
    BY <1>3, <2>1 DEF TransportFields
<1>6. /\ R.t.closed = X.t.closed /\ R.t.inbound = X.t.inbound
      /\ R.t.frag = X.t.frag /\ R.t.down = X.t.down
      /\ R.t.current = X.t.current /\ R.t.out = X.t.out
      /\ R.t.ctx = X.t.ctx /\ R.t.results = X.t.results
      /\ R.t.phase = X.t.phase /\ R.t.failure = X.t.failure
      /\ R.t.writing = X.t.writing /\ R.t.up = X.t.up
  BY <1>1, <1>3 DEF IsTransport
<1>7. /\ DOMAIN Y = DOMAIN R /\ Y.c = R.c /\ Y.w = R.w /\ Y.act = R.act
      /\ Y.ses = R.ses /\ IsTransport(U)
      /\ Y.t = [U EXCEPT !.pc = "report", !.doing = 0, !.code = code]
  BY <1>1, <1>3, <1>4 DEF IsState
<1> HIDE DEF Y, U
<1>8. IsTransport(Y.t) /\ Y.t.pc = "report" /\ Y.t.doing = 0
  BY <1>7 DEF IsTransport
<1>9. /\ Y.t.closed = R.t.closed /\ Y.t.inbound = R.t.inbound
      /\ Y.t.frag = R.t.frag /\ Y.t.down = R.t.down
      /\ Y.t.current = R.t.current /\ Y.t.out = R.t.out
      /\ Y.t.ctx = R.t.ctx /\ Y.t.results = R.t.results
      /\ Y.t.phase = R.t.phase /\ Y.t.failure = R.t.failure
      /\ Y.t.writing = R.t.writing /\ Y.t.up = R.t.up
      /\ Y.t.items = R.t.items /\ Y.t.bytes = R.t.bytes
  <2>1. /\ Y.t.closed = U.closed /\ Y.t.inbound = U.inbound
        /\ Y.t.frag = U.frag /\ Y.t.down = U.down
        /\ Y.t.current = U.current /\ Y.t.out = U.out
        /\ Y.t.ctx = U.ctx /\ Y.t.results = U.results
        /\ Y.t.phase = U.phase /\ Y.t.failure = U.failure
        /\ Y.t.writing = U.writing /\ Y.t.up = U.up
        /\ Y.t.items = U.items /\ Y.t.bytes = U.bytes
    BY <1>7 DEF IsTransport
  <2> QED
    BY <2>1 DEF U
<1>10. IsState(Y)
  BY <1>1, <1>3, <1>7, <1>8 DEF IsState
<1>11. TransportStep(X, Y)
  BY <1>1, <1>2, <1>3, <1>6, <1>7, <1>8, <1>9, <1>10
     DEF TransportStep, Shape, Refunded
<1>12. SlotOwned(Y)
  BY <1>2, <1>6, <1>7, <1>9 DEF Sound, SlotOwned, Refunded
<1>13. Charged(Y)
  <2> DEFINE o == One(X.t.frag)
  <2>1. One(X.t.doing) = 1 /\ One(Y.t.doing) = 0 /\ o \in Nat
    BY <1>8 DEF One
  <2>2. /\ X.t.bytes = Sizes(X.t.inbound) + z + X.t.frag
        /\ X.t.items = Len(X.t.inbound) + 1 + o
        /\ Sizes(X.t.inbound) \in Nat /\ Len(X.t.inbound) \in Nat
        /\ X.t.frag \in Nat
    BY <1>1, <2>1, SizesNat DEF Sound, Charged, IsTransport
  <2>3. o = One(Y.t.frag)
    BY <1>6, <1>9
  <2> HIDE DEF o
  <2>4. Y.t.bytes = Sizes(Y.t.inbound) + Y.t.doing + Y.t.frag
    BY <1>5, <1>6, <1>8, <1>9, <2>2
  <2>5. Y.t.items = Len(Y.t.inbound) + One(Y.t.doing) + One(Y.t.frag)
    BY <1>5, <1>6, <1>9, <2>1, <2>2, <2>3
  <2>6. ~Y.ses.done => Y.ses.bytes = Y.t.bytes /\ Y.ses.items = Y.t.items
    BY <1>2, <1>5, <1>7, <1>9 DEF Refunded, Sound, Charged
  <2> QED
    BY <2>4, <2>5, <2>6 DEF Charged
<1>14. Sound(Y)
  BY <1>11, <1>12, <1>13, TransportSound
<1>15. /\ Y.c = c /\ Y.w = w /\ Y.t.failure = t.failure
       /\ Y.t.results = t.results /\ Y.t.out = t.out
       /\ Y.t.current = t.current /\ Y.t.writing = t.writing
       /\ Y.t.phase = t.phase /\ Y.t.up = t.up /\ Y.t.pc # "none"
  BY <1>3, <1>6, <1>7, <1>8, <1>9
<1>16. Resting(Y)
  BY <1>14, <1>15, WorkingRests
<1> QED
  BY <1>16 DEF Y, R

(* The uplink worker has processed its message.                            *)
LEMMA UplinkProcessedInv ==
  ASSUME ConnInv, NEW code \in {"ok", "err"}, UplinkProcessed(code)
  PROVE  ConnInv'
<1> DEFINE Y == [ReleaseInput(State, 1, t.doing) EXCEPT
                   !.t.pc = "report", !.t.doing = 0, !.t.code = code]
<1>1. /\ Sound(State) /\ IsTransport(t) /\ Awake(State) /\ Shape(State)
      /\ t.pc = "process"
  BY InvFacts DEF UplinkProcessed
<1>2. t.doing \in Nat \ {0}
  BY <1>1, StateFacts DEF IsTransport, Shape
<1>3. t.phase \in {"open", "closing"}
  BY <1>1, Started, StateFacts
<1>4. Commit(Y)
  BY DEF UplinkProcessed
<1>5. Resting(Y)
  BY <1>1, <1>2, <1>3, StateFacts, ReportRests
<1> HIDE DEF Y
<1> QED
  BY <1>4, <1>5, CommitInv

(* The uplink worker takes a message, or finds the lane taken.             *)
LEMMA UplinkTakesInv ==
  ASSUME ConnInv, NEW granted \in BOOLEAN, UplinkTakes(granted)
  PROVE  ConnInv'
<1> DEFINE m == Head(t.inbound)
           z == m.size
           q == Tail(t.inbound)
           X == [State EXCEPT !.t.inbound = Tail(@), !.t.doing = m.size,
                              !.t.pc = "process"]
           g == Grow(X, m.size, granted)
           G == [g.x EXCEPT !.t.doing = 2 * m.size]
           Y == [ReleaseInput(X, 1, m.size) EXCEPT
                   !.t.pc = "report", !.t.doing = 0, !.t.code = "err"]
<1>1. /\ Sound(State) /\ IsState(State) /\ IsTransport(t) /\ Awake(State)
      /\ Shape(State) /\ t.pc = "take" /\ t.inbound # <<>>
      /\ t.inbound \in Seq(Owned)
  BY InvFacts DEF UplinkTakes, IsTransport
<1>2. /\ q \in Seq(Owned) /\ Len(q) = Len(t.inbound) - 1
      /\ Sizes(t.inbound) = z + Sizes(q) /\ m \in Owned
  BY <1>1, SizesTail
<1>3. z \in Nat \ {0} /\ m.chunked \in BOOLEAN
  BY <1>2 DEF Owned
<1>4. Sizes(q) \in Nat /\ Len(t.inbound) \in Nat
  <2>1. Len(t.inbound) \in Nat
    BY <1>1
  <2> HIDE DEF q
  <2>2. Sizes(q) \in Nat
    BY <1>2, SizesNat
  <2> QED
    BY <2>1, <2>2
<1>5. Commit(IF ~m.chunked THEN X ELSE IF g.ok THEN G ELSE Y)
  <2>1. Commit(CASE ~m.chunked -> X
                 [] m.chunked /\ g.ok -> G
                 [] OTHER -> Y)
    BY DEF UplinkTakes
  <2>2. g.ok \in BOOLEAN
    BY DEF Grow
  <2> HIDE DEF m, X, g, G, Y
  <2> QED
    BY <1>3, <2>1, <2>2
<1>6. t.phase \in {"open", "closing"} /\ c.open /\ t.doing = 0
  BY <1>1, Started, StateFacts DEF Shape
<1>7. /\ DOMAIN X = DOMAIN State /\ X.w = w /\ X.ses = ses /\ X.c = c
      /\ X.act = "none"
      /\ X.t = [t EXCEPT !.inbound = q, !.doing = z, !.pc = "process"]
  BY <1>1, StateFacts DEF IsState
<1>8. G = [g.x EXCEPT !.t.doing = 2 * z]
  OBVIOUS
<1>9. Y = [ReleaseInput(X, 1, z) EXCEPT
             !.t.pc = "report", !.t.doing = 0, !.t.code = "err"]
  OBVIOUS
<1>10. g = Grow(X, z, granted)
  OBVIOUS
<1> HIDE DEF m, z, q, X, g, G, Y
<1>11. /\ IsTransport(X.t) /\ X.t.pc = "process" /\ X.t.doing = z
       /\ X.t.inbound = q
  BY <1>1, <1>2, <1>3, <1>7 DEF IsTransport
<1>12. /\ X.t.closed = t.closed /\ X.t.frag = t.frag /\ X.t.down = t.down
       /\ X.t.current = t.current /\ X.t.out = t.out
       /\ X.t.ctx = t.ctx /\ X.t.results = t.results
       /\ X.t.phase = t.phase /\ X.t.failure = t.failure
       /\ X.t.writing = t.writing /\ X.t.up = t.up
       /\ X.t.items = t.items /\ X.t.bytes = t.bytes
  BY <1>1, <1>7 DEF IsTransport
<1>13. IsState(X)
  BY <1>1, <1>7, <1>11, StateFacts DEF IsState
<1>14. TransportStep(State, X)
  BY <1>3, <1>6, <1>7, <1>11, <1>12, <1>13, StateFacts DEF TransportStep
<1>15. SlotOwned(X)
  BY <1>1, <1>7, <1>12, StateFacts DEF Sound, SlotOwned
<1>16. Charged(X)
  <2> DEFINE o == One(t.frag)
  <2>1. One(t.doing) = 0 /\ One(X.t.doing) = 1 /\ o \in Nat
    BY <1>3, <1>6, <1>11 DEF One
  <2>2. /\ t.bytes = Sizes(t.inbound) + t.doing + t.frag
        /\ t.items = Len(t.inbound) + One(t.doing) + o
        /\ t.frag \in Nat
        /\ ~ses.done => ses.bytes = t.bytes /\ ses.items = t.items
    BY <1>1, StateFacts DEF Sound, Charged, IsTransport
  <2>3. o = One(X.t.frag)
    BY <1>12
  <2> HIDE DEF o
  <2>4. X.t.bytes = Sizes(X.t.inbound) + X.t.doing + X.t.frag
    BY <1>2, <1>3, <1>4, <1>6, <1>11, <1>12, <2>2
  <2>5. X.t.items = Len(X.t.inbound) + One(X.t.doing) + One(X.t.frag)
    BY <1>2, <1>4, <1>11, <1>12, <2>1, <2>2, <2>3
  <2> QED
    BY <1>7, <1>12, <2>2, <2>4, <2>5 DEF Charged
<1>17. Sound(X)
  BY <1>1, <1>6, <1>14, <1>15, <1>16, StateFacts, TransportSound
<1>18. Resting(X)
  BY <1>1, <1>7, <1>11, <1>12, <1>17, WorkingRests
<1>19. Resting(Y)
  BY <1>1, <1>3, <1>6, <1>7, <1>9, <1>11, <1>12, <1>17, ReportRests
<1>20. ASSUME g.ok
       PROVE  Resting(G)
  <2> DEFINE H == g.x
  <2>1. ~X.ses.done /\ H = [X EXCEPT !.t.bytes = @ + z, !.ses.bytes = @ + z]
    BY <1>10, <1>20 DEF Grow
  <2> HIDE DEF H
  <2>2. /\ DOMAIN H = DOMAIN X /\ H.c = X.c /\ H.w = X.w /\ H.act = X.act
        /\ H.t = [X.t EXCEPT !.bytes = @ + z]
        /\ H.ses = [X.ses EXCEPT !.bytes = @ + z]
    BY <1>13, <2>1 DEF IsState
  <2>3. IsTransport(X.t) /\ IsSession(X.ses)
    BY <1>13 DEF IsState
  <2>4. IsTransport(H.t)
    BY <1>3, <2>2, <2>3 DEF IsTransport
  <2>5. /\ DOMAIN G = DOMAIN H /\ G.c = H.c /\ G.w = H.w /\ G.act = H.act
        /\ G.ses = H.ses /\ G.t = [H.t EXCEPT !.doing = 2 * z]
    BY <1>8, <1>13, <2>2 DEF IsState, H
  <2>6. 2 * z \in Nat \ {0}
    BY <1>3
  <2>7. IsTransport(G.t) /\ G.t.doing = 2 * z
    BY <2>4, <2>5, <2>6 DEF IsTransport
  <2>8. /\ G.t.bytes = X.t.bytes + z /\ G.t.items = X.t.items
        /\ G.t.closed = X.t.closed /\ G.t.frag = X.t.frag
        /\ G.t.down = X.t.down /\ G.t.inbound = X.t.inbound
        /\ G.t.current = X.t.current /\ G.t.out = X.t.out
        /\ G.t.ctx = X.t.ctx /\ G.t.results = X.t.results
        /\ G.t.phase = X.t.phase /\ G.t.failure = X.t.failure
        /\ G.t.writing = X.t.writing /\ G.t.up = X.t.up
        /\ G.t.pc = X.t.pc
    BY <2>2, <2>3, <2>4, <2>5 DEF IsTransport
  <2>9. /\ IsSession(G.ses) /\ G.ses.bytes = X.ses.bytes + z
        /\ G.ses.items = X.ses.items /\ G.ses.slot = X.ses.slot
        /\ G.ses.held = X.ses.held /\ G.ses.done = X.ses.done
    BY <1>3, <2>2, <2>3, <2>5 DEF IsSession
  <2>10. IsState(G)
    BY <1>13, <2>2, <2>5, <2>7, <2>9 DEF IsState
  <2>11. TransportStep(X, G)
    BY <1>6, <1>7, <1>11, <2>2, <2>5, <2>6, <2>7, <2>8, <2>9, <2>10
       DEF TransportStep
  <2>12. SlotOwned(G)
    BY <1>15, <2>2, <2>5, <2>8, <2>9 DEF SlotOwned
  <2>13. Charged(G)
    <3>1. One(X.t.doing) = 1 /\ One(G.t.doing) = 1
      BY <1>3, <1>11, <2>6, <2>7 DEF One
    <3>2. /\ X.t.bytes = Sizes(q) + z + X.t.frag
          /\ X.t.frag \in Nat
          /\ X.ses.bytes = X.t.bytes /\ X.ses.items = X.t.items
      BY <1>11, <1>16, <2>1, <2>3 DEF Charged, IsTransport
    <3>3. G.t.bytes = Sizes(G.t.inbound) + G.t.doing + G.t.frag
      BY <1>3, <1>4, <1>11, <2>7, <2>8, <3>2
    <3>4. G.t.items = Len(G.t.inbound) + One(G.t.doing) + One(G.t.frag)
      BY <1>16, <2>8, <3>1 DEF Charged
    <3>5. G.ses.bytes = G.t.bytes /\ G.ses.items = G.t.items
      BY <2>8, <2>9, <3>2
    <3> QED
      BY <3>3, <3>4, <3>5 DEF Charged
  <2>14. Sound(G)
    BY <1>6, <1>12, <1>17, <2>11, <2>12, <2>13, TransportSound
  <2>15. Resting(G)
    <3>1. /\ G.c = c /\ G.w = w /\ G.t.failure = t.failure
          /\ G.t.results = t.results /\ G.t.out = t.out
          /\ G.t.current = t.current /\ G.t.writing = t.writing
          /\ G.t.phase = t.phase /\ G.t.up = t.up /\ G.t.pc # "none"
      BY <1>7, <1>11, <1>12, <2>2, <2>5, <2>8
    <3> QED
      BY <1>1, <2>14, <3>1, WorkingRests
  <2> QED
    BY <2>15
<1> QED
  BY <1>5, <1>18, <1>19, <1>20, CommitInv


(* Y is the connection after a step of the downlink worker or the monitor  *)
(* that touches its own state only.                                        *)
DownStep(Y) ==
  /\ DOMAIN Y = DOMAIN State /\ Y.c = c /\ Y.w = w /\ Y.act = "none"
  /\ IsTransport(Y.t) /\ IsSession(Y.ses)
  /\ Y.ses.held = ses.held /\ Y.ses.done = ses.done
  /\ Y.ses.items = ses.items /\ Y.ses.bytes = ses.bytes
  /\ Y.t.closed = t.closed /\ Y.t.inbound = t.inbound
  /\ Y.t.frag = t.frag /\ Y.t.doing = t.doing /\ Y.t.pc = t.pc
  /\ Y.t.current = t.current /\ Y.t.out = t.out
  /\ Y.t.bytes = t.bytes /\ Y.t.items = t.items
  /\ Y.t.ctx = t.ctx /\ Y.t.results = t.results /\ Y.t.phase = t.phase
  /\ Y.t.failure = t.failure /\ Y.t.writing = t.writing /\ Y.t.up = t.up

(* A step of the downlink worker that leaves everything else alone.        *)
LEMMA DownSound ==
  ASSUME NEW Y, ConnInv, DownStep(Y), SlotOwned(Y),
         t.phase \in {"open", "closing"}
  PROVE  Sound(Y) /\ Fed(Y) /\ Awake(Y) /\ Resting(Y)
<1>1. /\ Sound(State) /\ Fed(State) /\ Awake(State) /\ IsState(State)
      /\ Shape(State)
  BY InvFacts
<1>2. IsState(Y)
  BY <1>1, StateFacts DEF IsState, DownStep
<1>3. TransportStep(State, Y)
  BY <1>1, <1>2, StateFacts DEF TransportStep, DownStep, Shape
<1>4. Charged(Y)
  BY <1>1, StateFacts DEF Sound, Charged, DownStep
<1>5. Sound(Y)
  BY <1>1, <1>3, <1>4, StateFacts, TransportSound
<1>6. Fed(Y)
  BY <1>1, StateFacts DEF Fed, DownStep
<1>7. Awake(Y)
  BY <1>1, StateFacts
     DEF Awake, FailureWakes, ResultsWake, OutWakes, DrainWakes, InputWakes,
         DownStep
<1> QED
  BY <1>5, <1>6, <1>7 DEF Resting

(* The states of the downlink worker and of the monitor, one of them       *)
(* changed.                                                                *)
LEMMA DownEdit ==
  ASSUME ConnInv, NEW d
  PROVE  LET Y == [State EXCEPT !.t.down = d]
         IN  DownStep(Y) /\ Y.t.down = d /\ Y.ses = ses
             /\ Y.t = [t EXCEPT !.down = d]
<1> DEFINE Y == [State EXCEPT !.t.down = d]
<1>1. IsState(State) /\ IsTransport(t) /\ IsSession(ses)
  BY InvFacts
<1>2. /\ DOMAIN Y = DOMAIN State /\ Y.w = w /\ Y.ses = ses /\ Y.c = c
      /\ Y.act = "none" /\ Y.t = [t EXCEPT !.down = d]
  BY <1>1, StateFacts DEF IsState
<1> HIDE DEF Y
<1>3. IsTransport(Y.t)
  BY <1>1, <1>2 DEF IsTransport
<1>4. Y.t.down = d
  BY <1>1, <1>2 DEF IsTransport
<1>5. /\ Y.t.closed = t.closed /\ Y.t.inbound = t.inbound
      /\ Y.t.frag = t.frag /\ Y.t.doing = t.doing /\ Y.t.pc = t.pc
      /\ Y.t.current = t.current /\ Y.t.out = t.out
      /\ Y.t.bytes = t.bytes /\ Y.t.items = t.items
      /\ Y.t.ctx = t.ctx /\ Y.t.results = t.results /\ Y.t.phase = t.phase
      /\ Y.t.failure = t.failure /\ Y.t.writing = t.writing /\ Y.t.up = t.up
  BY <1>1, <1>2 DEF IsTransport
<1>6. DownStep(Y)
  BY <1>1, <1>2, <1>3, <1>5 DEF DownStep
<1> QED
  BY <1>2, <1>4, <1>6 DEF Y

(* The downlink worker: it polls under the slot, fails to, is told the     *)
(* outcome, and sends.                                                     *)
LEMMA DownPollsInv ==
  ASSUME ConnInv, NEW type \in {"binary", "ping"}, DownPolls(type)
  PROVE  ConnInv'
<1> DEFINE Y == [State EXCEPT !.t.down = type, !.ses.slot = TRUE]
<1>1. /\ IsState(State) /\ IsTransport(t) /\ IsSession(ses)
      /\ Sound(State) /\ t.down = "poll"
  BY InvFacts DEF DownPolls
<1>2. /\ DOMAIN Y = DOMAIN State /\ Y.w = w /\ Y.c = c
      /\ Y.ses = [ses EXCEPT !.slot = TRUE]
      /\ Y.act = "none" /\ Y.t = [t EXCEPT !.down = type]
  BY <1>1, StateFacts DEF IsState
<1> HIDE DEF Y
<1>3. IsTransport(Y.t)
  BY <1>1, <1>2 DEF IsTransport
<1>4. Y.t.down = type
  BY <1>1, <1>2 DEF IsTransport
<1>5. /\ Y.t.closed = t.closed /\ Y.t.inbound = t.inbound
      /\ Y.t.frag = t.frag /\ Y.t.doing = t.doing /\ Y.t.pc = t.pc
      /\ Y.t.current = t.current /\ Y.t.out = t.out
      /\ Y.t.bytes = t.bytes /\ Y.t.items = t.items
      /\ Y.t.ctx = t.ctx /\ Y.t.results = t.results /\ Y.t.phase = t.phase
      /\ Y.t.failure = t.failure /\ Y.t.writing = t.writing /\ Y.t.up = t.up
  BY <1>1, <1>2 DEF IsTransport
<1>6. /\ IsSession(Y.ses)
      /\ Y.ses.held = ses.held /\ Y.ses.done = ses.done
      /\ Y.ses.items = ses.items /\ Y.ses.bytes = ses.bytes
  BY <1>1, <1>2 DEF IsSession
<1>7. DownStep(Y)
  BY <1>2, <1>3, <1>5, <1>6 DEF DownStep
<1>8. SlotOwned(Y)
  BY <1>4 DEF SlotOwned
<1>9. t.phase \in {"open", "closing"}
  BY <1>1, Started, StateFacts
<1>10. Resting(Y)
  BY <1>7, <1>8, <1>9, DownSound
<1> QED
  BY <1>2, <1>10, PlainCommit DEF DownPolls

LEMMA DownPollFailsInv ==
  ASSUME ConnInv, DownPollFails
  PROVE  ConnInv'
<1> DEFINE Y == [State EXCEPT !.t.down = "none"]
<1>1. Sound(State) /\ t.down = "poll" /\ Commit(Fail(Y))
  BY InvFacts DEF DownPollFails
<1>2. DownStep(Y) /\ Y.ses = ses
  BY DownEdit
<1> HIDE DEF Y
<1>3. SlotOwned(Y)
  BY <1>1, <1>2, StateFacts DEF Sound, SlotOwned, DownStep
<1>4. t.phase \in {"open", "closing"}
  BY <1>1, Started, StateFacts
<1>5. Sound(Y) /\ Fed(Y) /\ Awake(Y)
  BY <1>2, <1>3, <1>4, DownSound
<1>6. Resting(Fail(Y))
  BY <1>2, <1>4, <1>5, FailRests DEF DownStep
<1> QED
  BY <1>1, <1>6, CommitInv

LEMMA DownDoneInv ==
  ASSUME ConnInv, DownDone
  PROVE  ConnInv'
<1> DEFINE d == IF t.down = "ok" THEN "poll" ELSE "none"
           Y == [State EXCEPT !.t.down = d]
<1>1. Sound(State) /\ t.down \in {"ok", "err", "wait"}
  BY InvFacts DEF DownDone
<1>2. DownStep(Y) /\ Y.ses = ses /\ Y.t = [t EXCEPT !.down = d]
  BY DownEdit
<1> HIDE DEF Y
<1>3. SlotOwned(Y)
  BY <1>1, <1>2, StateFacts DEF Sound, SlotOwned, DownStep
<1>4. t.phase \in {"open", "closing"}
  BY <1>1, Started, StateFacts
<1>5. Resting(Y)
  BY <1>2, <1>3, <1>4, DownSound
<1>6. t' = [t EXCEPT !.down = d] /\ c' = c /\ w' = w /\ ses' = ses
  BY DEF DownDone
<1> QED
  BY <1>2, <1>5, <1>6, PlainCommit DEF DownStep

LEMMA DownSendsInv ==
  ASSUME ConnInv, DownSends
  PROVE  ConnInv'
<1> DEFINE i == Item(t.down, TRUE)
           Q == Enqueue(State, i)
           X == [Q EXCEPT !.t.down = "wait"]
           W == Wake(X)
           N == [State EXCEPT !.t.down = "none"]
           R == ReleaseLease(N, TRUE)
<1>1. /\ Sound(State) /\ Fed(State) /\ IsState(State) /\ Shape(State)
      /\ IsTransport(t) /\ t.down \in {"binary", "ping"}
      /\ t.closed \in BOOLEAN
  BY InvFacts DEF DownSends, IsTransport
<1>2. Commit(IF CanEnqueue(t) THEN W ELSE Fail(R))
  BY DEF DownSends
<1>3. t.phase \in {"open", "closing"}
  BY <1>1, Started, StateFacts
<1>4. ASSUME CanEnqueue(t)
      PROVE  Resting(W)
  <2>1. c.open
    BY <1>1, <1>3, <1>4, StateFacts DEF CanEnqueue, Shape, Sound, IsState,
                                        IsConn
  <2>2. i \in Items /\ i.lease = TRUE
    BY <1>1 DEF Item, Items
  <2> HIDE DEF i
  <2>3. Enqueued(State, Q, i)
    BY <1>1, <1>3, <2>2, EnqueueEffect, StateFacts
  <2> HIDE DEF Q
  <2>4. /\ Sound(Q) /\ IsState(Q) /\ Q.c = c /\ Q.w = w /\ Q.act = "none"
        /\ Q.ses = ses /\ Q.t.out = Append(t.out, i)
        /\ Q.t = [t EXCEPT !.out = Q.t.out]
    BY <2>3, StateFacts DEF Enqueued, Sound
  <2>5. t.out \in Seq(Items)
    BY <1>1 DEF IsTransport
  <2>6. i \in Range(Q.t.out)
    <3>1. Len(t.out) + 1 \in DOMAIN Append(t.out, i)
          /\ Append(t.out, i)[Len(t.out) + 1] = i
      BY <2>5
    <3> QED
      BY <2>4, <3>1 DEF Range
  <2>7. /\ Q.t.phase = t.phase /\ Q.t.pc = t.pc /\ Q.t.results = t.results
    BY <1>1, <2>4 DEF IsTransport
  <2>8. IsTransport(Q.t) /\ Shape(Q)
    BY <2>4 DEF IsState, Sound
  <2>9. /\ DOMAIN X = DOMAIN Q /\ X.w = Q.w /\ X.ses = Q.ses /\ X.c = Q.c
        /\ X.act = Q.act /\ X.t = [Q.t EXCEPT !.down = "wait"]
    BY <2>4 DEF IsState
  <2> HIDE DEF X
  <2>10. IsTransport(X.t)
    BY <2>8, <2>9 DEF IsTransport
  <2>11. /\ X.t.closed = Q.t.closed /\ X.t.inbound = Q.t.inbound
         /\ X.t.frag = Q.t.frag /\ X.t.doing = Q.t.doing /\ X.t.pc = Q.t.pc
         /\ X.t.out = Q.t.out /\ X.t.bytes = Q.t.bytes
         /\ X.t.items = Q.t.items /\ X.t.ctx = Q.t.ctx
         /\ X.t.results = Q.t.results /\ X.t.phase = Q.t.phase
    BY <2>8, <2>9 DEF IsTransport
  <2>12. IsState(X)
    BY <2>4, <2>9, <2>10 DEF IsState
  <2>13. TransportStep(Q, X)
    BY <2>8, <2>9, <2>11, <2>12 DEF TransportStep, Shape
  <2>14. SlotOwned(X)
    BY <2>1, <2>2, <2>4, <2>6, <2>9, <2>11 DEF SlotOwned
  <2>15. Charged(X)
    BY <2>4, <2>9, <2>11 DEF Sound, Charged
  <2>16. Sound(X)
    BY <1>3, <2>4, <2>7, <2>13, <2>14, <2>15, TransportSound
  <2>17. Fed(X)
    BY <1>1, <2>4, <2>7, <2>9, <2>11, StateFacts DEF Fed
  <2>18. Timed(X, W) /\ W.c.wake
    BY <2>12, WakeTimed
  <2> HIDE DEF W
  <2> QED
    BY <2>16, <2>17, <2>18, TimedSound, WokenRests
<1>5. Resting(Fail(R))
  <2>1. DownStep(N) /\ N.t.down = "none" /\ N.ses = ses
    BY DownEdit
  <2> HIDE DEF N
  <2>2. IsState(N)
    BY <1>1, <2>1, StateFacts DEF DownStep, IsState
  <2>3. Freed(N, R, TRUE)
    BY <2>2, ReleaseLeaseEffect
  <2> HIDE DEF R
  <2>4. DownStep(R) /\ SlotOwned(R)
    BY <2>1, <2>3 DEF Freed, DownStep, IsState, SlotOwned
  <2>5. Sound(R) /\ Fed(R) /\ Awake(R)
    BY <1>3, <2>4, DownSound
  <2> QED
    BY <1>3, <2>4, <2>5, FailRests DEF DownStep
<1> HIDE DEF W, R
<1> QED
  BY <1>2, <1>4, <1>5, CommitInv

(* The monitor's end changes nothing else.                                 *)
LEMMA MonitorRests ==
  ASSUME NEW X, Sound(X), Fed(X), Awake(X), X.t.phase \in {"open", "closing"}
  PROVE  Resting([X EXCEPT !.t.monitor = "none"])
<1> DEFINE N == [X EXCEPT !.t.monitor = "none"]
<1>1. IsState(X) /\ IsTransport(X.t)
  BY DEF Sound, IsState
<1>2. /\ DOMAIN N = DOMAIN X /\ N.w = X.w /\ N.ses = X.ses /\ N.c = X.c
      /\ N.act = X.act /\ N.t = [X.t EXCEPT !.monitor = "none"]
  BY <1>1 DEF IsState
<1> HIDE DEF N
<1>3. IsTransport(N.t)
  BY <1>1, <1>2 DEF IsTransport
<1>4. /\ N.t.closed = X.t.closed /\ N.t.inbound = X.t.inbound
      /\ N.t.frag = X.t.frag /\ N.t.doing = X.t.doing /\ N.t.pc = X.t.pc
      /\ N.t.current = X.t.current /\ N.t.out = X.t.out
      /\ N.t.bytes = X.t.bytes /\ N.t.items = X.t.items
      /\ N.t.ctx = X.t.ctx /\ N.t.results = X.t.results
      /\ N.t.phase = X.t.phase /\ N.t.failure = X.t.failure
      /\ N.t.writing = X.t.writing /\ N.t.up = X.t.up
      /\ N.t.down = X.t.down
  BY <1>1, <1>2 DEF IsTransport
<1>5. IsState(N)
  BY <1>1, <1>2, <1>3 DEF IsState
<1>6. SameClaims(X, N)
  BY <1>2, <1>4, <1>5 DEF SameClaims
<1>7. Sound(N)
  BY <1>6, SameClaimsSound
<1>8. Fed(N) /\ Awake(N)
  BY <1>2, <1>4 DEF Fed, Awake, FailureWakes, ResultsWake, OutWakes,
                    DrainWakes, InputWakes
<1> QED
  BY <1>7, <1>8 DEF Resting, N

(* The monitor ends the transport when the session is done.                *)
LEMMA MonitorInv ==
  ASSUME ConnInv, Monitor
  PROVE  ConnInv'
<1> DEFINE F == IF ses.done THEN Fail(State) ELSE State
           Y == [F EXCEPT !.t.monitor = "none"]
           A == [State EXCEPT !.t.failure = TRUE]
<1>1. /\ Sound(State) /\ IsState(State) /\ IsTransport(t) /\ Fed(State)
      /\ Awake(State) /\ t.monitor = "wait"
  BY InvFacts DEF Monitor
<1>2. Commit(Y)
  BY DEF Monitor
<1>3. t.phase \in {"open", "closing"}
  BY <1>1, Started, StateFacts
<1>4. Resting(Fail(State))
  BY <1>1, <1>3, FailRests, StateFacts
<1>5. Fail(State).act = "none" /\ Fail(State).t.phase = t.phase
  <2>1. /\ A.act = "none" /\ A.t = [t EXCEPT !.failure = TRUE]
    BY <1>1, StateFacts DEF IsState
  <2>2. A.t.phase = t.phase
    BY <1>1, <2>1 DEF IsTransport
  <2>3. Wake(A).act = A.act /\ Wake(A).t = A.t
    BY <1>1, StateFacts DEF Wake
  <2>4. Fail(State) = IF State.t.ctx THEN State ELSE Wake(A)
    BY DEF Fail
  <2> HIDE DEF A
  <2> QED
    BY <2>1, <2>2, <2>3, <2>4, StateFacts
<1>6. /\ Sound(F) /\ Fed(F) /\ Awake(F) /\ F.t.phase \in {"open", "closing"}
  BY <1>1, <1>3, <1>4, <1>5, StateFacts DEF Resting
<1> HIDE DEF F
<1>7. Resting(Y)
  BY <1>6, MonitorRests
<1> QED
  BY <1>2, <1>7, CommitInv

-----------------------------------------------------------------------------
(* The invariant.                                                          *)
LEMMA InitInv ==
  ASSUME Init
  PROVE  ConnInv
<1>1. PICK m \in Scenarios :
        /\ c = [open |-> TRUE, closeReq |-> FALSE, in |-> <<>>, out |-> FALSE,
                wake |-> FALSE, active |-> FALSE, draining |-> FALSE,
                closeAfter |-> FALSE, cancel |-> FALSE, lease |-> FALSE,
                dl |-> "header", fired |-> FALSE, drain |-> FALSE,
                pending |-> FALSE, half |-> FALSE]
        /\ w = [pc |-> "none", kind |-> "none", ctx |-> FALSE, lease |-> FALSE]
        /\ t = [phase |-> "none", carrier |-> m.carrier, written |-> FALSE,
                closed |-> FALSE, ctx |-> FALSE, up |-> 0, inbound |-> <<>>,
                results |-> <<>>, frag |-> 0, items |-> 0, bytes |-> 0,
                ctlIn |-> 0, pongs |-> 0, out |-> <<>>, current |-> NoItem,
                writing |-> FALSE, failure |-> FALSE, live |-> "none",
                expired |-> FALSE, pc |-> "none", doing |-> 0,
                code |-> "none", down |-> "none", monitor |-> "none"]
        /\ ses = [done |-> FALSE, slot |-> FALSE, held |-> FALSE, items |-> 0,
                  bytes |-> 0]
  BY DEF Init
<1>2. /\ IsConn(c) /\ ~c.active /\ ~c.draining /\ ~c.lease /\ c.open
      /\ c.in = <<>>
  BY <1>1 DEF IsConn
<1>3. IsWorker(w) /\ w.pc = "none" /\ ~w.ctx
  BY <1>1 DEF IsWorker
<1>4. /\ t.phase = "none" /\ Unstarted(t) /\ ~t.ctx /\ ~t.closed
      /\ t.doing = 0 /\ t.items = 0 /\ t.bytes = 0
  BY <1>1 DEF Unstarted
<1>5. IsTransport(t)
  <2>1. /\ <<>> \in Seq(Owned) /\ <<>> \in Seq({"ok", "err"})
        /\ <<>> \in Seq(Items) /\ NoItem \in Items \cup {NoItem}
    OBVIOUS
  <2> HIDE DEF NoItem
  <2> QED
    BY <1>1, <2>1 DEF IsTransport
<1>6. /\ IsSession(ses) /\ ~ses.slot /\ ~ses.held /\ ses.items = 0
      /\ ses.bytes = 0
  BY <1>1 DEF IsSession
<1>7. IsState(State)
  BY <1>2, <1>3, <1>5, <1>6, StateFacts DEF IsState
<1>8. Shape(State)
  <2>1. t.pc = "none" /\ t.inbound = <<>> /\ t.frag = 0
    BY <1>4 DEF Unstarted
  <2> QED
    BY <1>2, <1>3, <1>4, <2>1, StateFacts DEF Shape
<1>9. SlotOwned(State) /\ LaneOwned(State)
  BY <1>6, StateFacts DEF SlotOwned, LaneOwned
<1>10. Charged(State)
  <2>1. /\ t.inbound = <<>> /\ t.frag = 0 /\ Len(<<>>) = 0
        /\ One(0) = 0 /\ Sizes(<<>>) = 0
    BY <1>4, SizesEmpty DEF Unstarted, One
  <2> QED
    BY <1>4, <1>6, <2>1, StateFacts DEF Charged
<1>11. Fed(State) /\ Awake(State)
  BY <1>2, <1>4, StateFacts
     DEF Fed, Awake, Unstarted, FailureWakes, ResultsWake, OutWakes,
         DrainWakes, InputWakes
<1> QED
  BY <1>7, <1>8, <1>9, <1>10, <1>11 DEF ConnInv, Sound

(* Every step keeps the invariant.                                         *)
LEMMA NextInv ==
  ASSUME ConnInv, [Next]_vars
  PROVE  ConnInv'
<1>1. CASE OnTraffic
  BY <1>1, OnTrafficInv
<1>2. CASE Worker
  BY <1>2, ServeInv, RespondInv, ResponseWrittenInv DEF Worker
<1>3. CASE Timers
  BY <1>3, DeadlineFiresInv, DrainWakeFiresInv, LivenessFiresInv DEF Timers
<1>4. CASE Runnables
  BY <1>4, DeadlineRunsInv, LivenessRunsInv, ClosesInv DEF Runnables
<1>5. CASE Callbacks
  BY <1>5, HandshakeWrittenInv, FrameWrittenInv DEF Callbacks
<1>6. CASE Uplink
  BY <1>6, UplinkTakesInv, UplinkProcessedInv, UplinkReportsInv,
     UplinkStopsInv DEF Uplink
<1>7. CASE Downlink
  BY <1>7, DownPollsInv, DownPollFailsInv, DownSendsInv, DownDoneInv
     DEF Downlink
<1>8. CASE Monitor
  BY <1>8, MonitorInv
<1>9. CASE Peer
  BY <1>9, PeerSendsInv, PeerReadsInv, ClosesInv, SessionClosesInv
     DEF Peer, Inputs
<1>10. CASE UNCHANGED vars
  <2>1. State' = State
    BY <1>10 DEF vars, State
  <2>2. ConnInv' = (Sound(State') /\ Fed(State') /\ Awake(State'))
    BY DEF ConnInv
  <2> QED
    BY <2>1, <2>2 DEF ConnInv
<1> QED
  BY <1>1, <1>2, <1>3, <1>4, <1>5, <1>6, <1>7, <1>8, <1>9, <1>10 DEF Next

(* ConnInv holds in every reachable state.                                 *)
THEOREM ConnInvHolds == Spec => []ConnInv
<1>1. Init => ConnInv
  BY InitInv
<1>2. ConnInv /\ [Next]_vars => ConnInv'
  BY NextInv
<1> QED
  BY <1>1, <1>2, PTL DEF Spec

(* Whatever a connection holds of its session has an owner that will give  *)
(* it back: the lease PollCarrier granted, the budget the decoder reserved *)
(* and the lane the upgrade took, through every interleaving of the event  *)
(* loop, the workers, the timers and onClose.                              *)
THEOREM ClaimsHaveOwnersHold == Spec => []ClaimsHaveOwners
<1>1. ConnInv => ClaimsHaveOwners
  BY InvFacts, StateFacts
     DEF ClaimsHaveOwners, Sound, SlotOwned, LaneOwned, Charged, Shape
<1> QED
  BY <1>1, ConnInvHolds, PTL

(* No wake-up is lost between the workers, the write callbacks, the drain  *)
(* timer and the traffic callback, which decodes one frame at a time: what *)
(* waits for the event loop is always followed by a callback.              *)
THEOREM NoLostWakeHolds == Spec => []NoLostWake
<1>1. ConnInv => NoLostWake
  BY InvFacts, StateFacts
     DEF NoLostWake, Awake, FailureWakes, ResultsWake, OutWakes, DrainWakes,
         InputWakes
<1> QED
  BY <1>1, ConnInvHolds, PTL
===============================================================================
