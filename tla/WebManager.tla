------------------------------ MODULE WebManager ------------------------------
(***************************************************************************)
(* The manager of WEB sessions (pkg/webproxy/manager.go): bootstrap tokens *)
(* that each create one session, the sessions, the memory of closed ones,  *)
(* the process-wide stream, dial and pending budgets, the expiry worker    *)
(* and the shutdown.                                                       *)
(*                                                                         *)
(* m is what Manager.mu protects; se what the manager sees of each Session *)
(* (WebSession models it): whether it is open, its backend goroutines and  *)
(* what it has charged.  call is the carrier requests that create          *)
(* sessions, sweep the expiry worker, shut the shutdown.                   *)
(***************************************************************************)
EXTENDS Integers, FiniteSets, SequencesExt

CONSTANTS
  Ids,        \* session tokens, in the order they are drawn (naturals)
  Calls,      \* concurrent create requests
  Lim,        \* Limits: boots, sessions, closed, streams, dials, pending
  Reserve,    \* pendingControlReserve of one session, in items
  Scenarios   \* environments: see Init

VARIABLES m, se, call, sweep, shut, env

vars == <<m, se, call, sweep, shut, env>>

(* Session tokens are distinct and never reused; Limits.Validate.          *)
ASSUME ManagerAssumption ==
  /\ IsFiniteSet(Ids) /\ Ids \subseteq Nat \ {0}
  /\ Reserve \in Nat /\ Lim.sessions \in Nat /\ Lim.pending \in Nat

ASSUME ReserveFits == Reserve * Lim.sessions < Lim.pending

NoSession == 0
NewBoot == [used |-> FALSE, body |-> 0, ses |-> NoSession, old |-> FALSE]
Without(f, S) == [b \in DOMAIN f \ S |-> f[b]]
With(f, b, e) == [x \in DOMAIN f \cup {b} |-> IF x = b THEN e ELSE f[x]]

-----------------------------------------------------------------------------
(* Bootstraps.                                                             *)
RemoveExpired(M) ==
  [M EXCEPT !.boots = Without(@, {b \in DOMAIN @ : @[b].old}),
            !.closed = SelectSeq(@, LAMBDA i : i \notin M.oldClosed),
            !.oldClosed = {}]

(* Tokens are drawn in order, so the oldest is the least.                  *)
EvictOldestUnused(M) ==
  LET unused == {b \in DOMAIN M.boots : ~M.boots[b].used}
  IN  IF unused = {} THEN M
      ELSE [M EXCEPT !.boots = Without(@, {Min(unused)})]

IssueBootstrap ==
  /\ ~m.down /\ m.drawn < env.max.boots
  /\ LET M == RemoveExpired(m)
         full == Cardinality(DOMAIN M.boots) >= Lim.boots
         N == IF full THEN EvictOldestUnused(M) ELSE M
     IN  m' = IF Cardinality(DOMAIN N.boots) >= Lim.boots THEN N
              ELSE [N EXCEPT !.boots = With(@, N.drawn + 1, NewBoot),
                             !.drawn = @ + 1]
  /\ UNCHANGED <<se, call, sweep, shut, env>>

(* bootstrapAuthenticated: when the header arrived, and again before the   *)
(* body is parsed.                                                         *)
Authenticated(b) == b \in DOMAIN m.boots /\ ~m.boots[b].old
ForgetExpired(b) ==
  IF b \in DOMAIN m.boots /\ m.boots[b].old
  THEN [m EXCEPT !.boots = Without(@, {b})] ELSE m

Idle == [pc |-> "idle"]

AuthenticateBootstrap(x, b, body) ==
  /\ call[x].pc = "idle" /\ env.calls > 0
  /\ m' = ForgetExpired(b)
  /\ call' = [call EXCEPT ![x] = IF Authenticated(b)
                THEN [pc |-> "body", b |-> b, body |-> body] ELSE Idle]
  /\ env' = [env EXCEPT !.calls = @ - 1]
  /\ UNCHANGED <<se, sweep, shut>>

Revalidate(x) ==
  /\ call[x].pc = "body"
  /\ m' = ForgetExpired(call[x].b)
  /\ call' = [call EXCEPT ![x] = IF Authenticated(call[x].b)
                THEN [@ EXCEPT !.pc = "create"] ELSE Idle]
  /\ UNCHANGED <<se, sweep, shut, env>>

NewSession == [st |-> "open", dialing |-> 0, running |-> 0, data |-> 0,
               ctl |-> 0, idle |-> FALSE]

(* Create: one critical section.  A retry with the same body gets the      *)
(* session the first one created.                                          *)
Create(x) ==
  /\ call[x].pc = "create"
  /\ LET b == call[x].b
         e == m.boots[b]
         i == m.made + 1
         retry == Authenticated(b) /\ e.used /\ e.body = call[x].body
         fresh == /\ Authenticated(b) /\ ~e.used /\ ~m.down
                  /\ Cardinality(m.sessions) < Lim.sessions /\ i \in Ids
         reply(ses) == env' = [env EXCEPT
                         !.got = @ \cup {<<b, call[x].body, ses>>}]
     IN  \/ retry /\ reply(e.ses) /\ UNCHANGED <<m, se>>
         \/ /\ fresh /\ reply(i)
            /\ m' = [m EXCEPT !.sessions = @ \cup {i}, !.made = i,
                       !.boots[b] = [@ EXCEPT !.used = TRUE, !.ses = i,
                                              !.body = call[x].body]]
            /\ se' = [se EXCEPT ![i] = NewSession]
         \/ ~retry /\ ~fresh /\ UNCHANGED <<m, se, env>>
  /\ call' = [call EXCEPT ![x] = Idle]
  /\ UNCHANGED <<sweep, shut>>

-----------------------------------------------------------------------------
(* Streams and the pending budget, which the session calls into.           *)
AcquireStream(i) ==
  /\ se[i].st = "open"
  /\ ~m.down /\ m.streams < Lim.streams /\ m.dials < Lim.dials
  /\ m' = [m EXCEPT !.streams = @ + 1, !.dials = @ + 1]
  /\ se' = [se EXCEPT ![i].dialing = @ + 1]
  /\ UNCHANGED <<call, sweep, shut, env>>

(* backendDialFinished; a stream whose dial failed ends next.              *)
BackendDialFinished(i) ==
  /\ se[i].dialing > 0
  /\ m' = [m EXCEPT !.dials = @ - 1]
  /\ se' = [se EXCEPT ![i].dialing = @ - 1, ![i].running = @ + 1]
  /\ UNCHANGED <<call, sweep, shut, env>>

StreamFinished(i) ==
  /\ se[i].running > 0
  /\ m' = [m EXCEPT !.streams = @ - 1]
  /\ se' = [se EXCEPT ![i].running = @ - 1]
  /\ UNCHANGED <<call, sweep, shut, env>>

(* A plausible bug: the reserve of one session for all of them.            *)
PendingLimit_One(class) ==
  IF class = "ctl" THEN Lim.pending ELSE Lim.pending - Reserve

(* changePendingBudget: only control may use what is reserved for the      *)
(* control frames of every session.                                        *)
PendingLimit(class) ==
  IF class = "ctl" THEN Lim.pending ELSE Lim.pending - Reserve * Lim.sessions

MayCharge(class) == m.pending < PendingLimit(class)

(* A session charges no more control than its reserve (WebSession).        *)
Charge(i, class) ==
  /\ se[i].st = "open" /\ env.max.charges
  /\ class = "ctl" => se[i].ctl < Reserve
  /\ MayCharge(class)
  /\ m' = [m EXCEPT !.pending = @ + 1]
  /\ se' = [se EXCEPT ![i][class] = @ + 1]
  /\ UNCHANGED <<call, sweep, shut, env>>

Discharge(i, class) ==
  /\ se[i].st = "open" /\ se[i][class] > 0
  /\ m' = [m EXCEPT !.pending = @ - 1]
  /\ se' = [se EXCEPT ![i][class] = @ - 1]
  /\ UNCHANGED <<call, sweep, shut, env>>

-----------------------------------------------------------------------------
(* The end of a session: closeLocked returns what it charged and cancels   *)
(* its backends; when the last of them is gone, sessionFinished.           *)
CloseLocked(i) ==
  /\ se' = IF se[i].st # "open" THEN se
           ELSE [se EXCEPT ![i].st = "closing", ![i].data = 0, ![i].ctl = 0]
  /\ m' = IF se[i].st # "open" THEN m
          ELSE [m EXCEPT !.pending = @ - se[i].data - se[i].ctl]

(* Manager.Close on a client's request, or the session's own failure.      *)
CloseSession(i) ==
  /\ env.max.closes /\ se[i].st = "open" /\ CloseLocked(i)
  /\ UNCHANGED <<call, sweep, shut, env>>

RememberClosed(q, i) ==
  Append(IF Len(q) >= Lim.closed THEN Tail(q) ELSE q, i)

Quiet(i) == se[i].dialing = 0 /\ se[i].running = 0

(* Plausible bugs: the bootstrap of a finished session may be used again;  *)
(* the session does not wait for its backends.                             *)
SessionFinished_Reopens(i) ==
  /\ se[i].st = "closing" /\ Quiet(i)
  /\ m' = [m EXCEPT !.sessions = @ \ {i},
             !.closed = RememberClosed(@, i),
             !.oldClosed = @ \cap Range(RememberClosed(m.closed, i)),
             !.boots = [b \in DOMAIN @ |-> IF @[b].ses = i THEN NewBoot
                                          ELSE @[b]]]
  /\ se' = [se EXCEPT ![i].st = "finished"]
  /\ UNCHANGED <<call, sweep, shut, env>>

SessionFinished_Early(i) ==
  /\ se[i].st = "closing"
  /\ m' = [m EXCEPT !.sessions = @ \ {i},
             !.closed = RememberClosed(@, i),
             !.oldClosed = @ \cap Range(RememberClosed(m.closed, i)),
             !.boots = Without(@, {b \in DOMAIN @ : @[b].ses = i})]
  /\ se' = [se EXCEPT ![i].st = "finished"]
  /\ UNCHANGED <<call, sweep, shut, env>>

SessionFinished(i) ==
  /\ se[i].st = "closing" /\ Quiet(i)
  /\ m' = [m EXCEPT !.sessions = @ \ {i},
             !.closed = RememberClosed(@, i),
             !.oldClosed = @ \cap Range(RememberClosed(m.closed, i)),
             !.boots = Without(@, {b \in DOMAIN @ : @[b].ses = i})]
  /\ se' = [se EXCEPT ![i].st = "finished"]
  /\ UNCHANGED <<call, sweep, shut, env>>

-----------------------------------------------------------------------------
(* cleanupLoop: every tick forgets what expired and closes the sessions    *)
(* idle beyond the reconnect grace, which it checks one at a time and      *)
(* without the manager's lock.                                             *)
Tick ==
  /\ sweep.pc = "wait"
  /\ m' = RemoveExpired(m)
  /\ sweep' = [sweep EXCEPT !.pc = "scan", !.left = m.sessions]
  /\ UNCHANGED <<se, call, shut, env>>

Scan(i) ==
  /\ sweep.pc = "scan" /\ i \in sweep.left
  /\ sweep' = [sweep EXCEPT !.left = @ \ {i},
                            !.pc = IF se[i].idle THEN "close" ELSE @,
                            !.target = IF se[i].idle THEN i ELSE @]
  /\ UNCHANGED <<m, se, call, shut, env>>

SweepCloses ==
  /\ sweep.pc = "close" /\ CloseLocked(sweep.target)
  /\ sweep' = [sweep EXCEPT !.pc = "scan", !.target = NoSession]
  /\ UNCHANGED <<call, shut, env>>

SweepEnds ==
  /\ \/ sweep.pc = "scan" /\ sweep.left = {}
     \/ sweep.pc = "wait" /\ m.down
  /\ sweep' = [sweep EXCEPT !.pc = IF @ = "scan" THEN "wait" ELSE "gone"]
  /\ UNCHANGED <<m, se, call, shut, env>>

(* Shutdown: no admission from here on; every session is closed, then      *)
(* waited for, then the expiry worker.                                     *)
Shutdown ==
  /\ env.max.stops /\ shut.pc = "no"
  /\ m' = [m EXCEPT !.down = TRUE]
  /\ shut' = [pc |-> "close", left |-> m.sessions, all |-> m.sessions]
  /\ UNCHANGED <<se, call, sweep, env>>

(* A plausible bug: Shutdown waits for the sessions without closing them.  *)
ShutdownCloses_Waits(i) ==
  /\ shut.pc = "close" /\ i \in shut.left
  /\ shut' = [shut EXCEPT !.left = @ \ {i}]
  /\ UNCHANGED <<m, se, call, sweep, env>>

ShutdownCloses(i) ==
  /\ shut.pc = "close" /\ i \in shut.left /\ CloseLocked(i)
  /\ shut' = [shut EXCEPT !.left = @ \ {i}]
  /\ UNCHANGED <<call, sweep, env>>

ShutdownDone ==
  /\ shut.pc = "close" /\ shut.left = {} /\ sweep.pc = "gone"
  /\ \A i \in shut.all : se[i].st = "finished"
  /\ shut' = [shut EXCEPT !.pc = "done"]
  /\ UNCHANGED <<m, se, call, sweep, env>>

-----------------------------------------------------------------------------
(* Time and the clients.                                                   *)
Lifetime ==
  /\ env.max.time
  /\ \/ \E b \in {d \in DOMAIN m.boots : \A a \in DOMAIN m.boots :
                    a < d => m.boots[a].old} :
          ~m.boots[b].old /\ m' = [m EXCEPT !.boots[b].old = TRUE]
     \/ \E i \in Range(m.closed) \ m.oldClosed :
          /\ \A j \in 1..Len(m.closed) : m.closed[j] = i =>
               \A h \in 1..j - 1 : m.closed[h] \in m.oldClosed
          /\ m' = [m EXCEPT !.oldClosed = @ \cup {i}]
  /\ UNCHANGED <<se, call, sweep, shut, env>>

GoesIdle(i) == /\ env.max.time /\ se[i].st = "open" /\ ~se[i].idle
               /\ se' = [se EXCEPT ![i].idle = TRUE]
               /\ UNCHANGED <<m, call, sweep, shut, env>>

(* A carrier request of a session found by Get (lastActivity).             *)
Get(i) == /\ env.max.time /\ i \in m.sessions /\ se[i].st = "open" /\ se[i].idle
          /\ se' = [se EXCEPT ![i].idle = FALSE]
          /\ UNCHANGED <<m, call, sweep, shut, env>>

-----------------------------------------------------------------------------
Init ==
  \E max \in Scenarios :
    /\ env = [max |-> max, calls |-> max.calls, got |-> {}]
    /\ m = [boots |-> <<>>, drawn |-> 0, sessions |-> {}, made |-> 0,
            closed |-> <<>>, oldClosed |-> {}, streams |-> 0, dials |-> 0,
            pending |-> 0, down |-> FALSE]
    /\ se = [i \in Ids |-> [NewSession EXCEPT !.st = "none"]]
    /\ call = [x \in Calls |-> Idle]
    /\ sweep = [pc |-> "wait", left |-> {}, target |-> NoSession]
    /\ shut = [pc |-> "no", left |-> {}, all |-> {}]

Requests ==
  \/ IssueBootstrap
  \/ \E x \in Calls :
       \/ \E b \in 1..m.drawn, body \in env.max.bodies :
            AuthenticateBootstrap(x, b, body)
       \/ Revalidate(x) \/ Create(x)

Backends == \E i \in Ids : BackendDialFinished(i) \/ StreamFinished(i)

Sweep == Tick \/ (\E i \in Ids : Scan(i)) \/ SweepCloses \/ SweepEnds
Stop == (\E i \in Ids : ShutdownCloses(i)) \/ ShutdownDone

Next ==
  \/ Requests \/ Backends \/ Sweep \/ Shutdown \/ Stop \/ Lifetime
  \/ \E i \in Ids :
       \/ env.max.streams /\ AcquireStream(i)
       \/ \E class \in {"data", "ctl"} : Charge(i, class) \/ Discharge(i, class)
       \/ CloseSession(i) \/ SessionFinished(i) \/ GoesIdle(i) \/ Get(i)

Spec == Init /\ [][Next]_vars
===============================================================================
