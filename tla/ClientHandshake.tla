---------------------------- MODULE ClientHandshake ----------------------------
(***************************************************************************)
(* A connection to the public proxy from its acceptance to the choice of a *)
(* route (pkg/gproxy/handler.go, handshake.go), with the limits it is      *)
(* admitted under (connlimit.go, userlimit.go, replay.go).                 *)
(*                                                                         *)
(* h is the handler with its limiters and registries, cx the connections'  *)
(* contexts, up the connection each of them has upstream (a data centre or *)
(* the mask host), env what the peers may still do.  Every connection has  *)
(* an event loop of its own; a turn (OnTraffic) is a chain of handlers,    *)
(* one step each, and x.run says that a turn is under way.                 *)
(*                                                                         *)
(* Input is a sequence of complete pieces [k, n]: a PROXY header, a record *)
(* header, a ClientHello, a frame, a record with the n-th piece of data.   *)
(* Waiting for the rest of a piece is waiting for the piece.               *)
(***************************************************************************)
EXTENDS Integers, FiniteSetsExt, SequencesExt

CONSTANTS
  Conns,            \* connections
  IPs,              \* client addresses; Loopback is one of them
  MaxConnections,   \* Config.MaxConnections
  MaxPerIP,         \* Config.MaxConnectionsPerIP
  MaxIPs,           \* Config.MaxIPsPerUser
  Scenarios         \* see Calm

VARIABLES h, cx, up, env

vars == <<h, cx, up, env>>

Loopback == 0
NoIP == -1          \* limiterIP of an address without an IP
NoKey == <<>>

ASSUME LimitsAssumption ==
  /\ Loopback \in IPs /\ IPs \subseteq Nat
  /\ MaxConnections \in Nat /\ MaxPerIP \in Nat \ {0} /\ MaxIPs \in Nat \ {0}
  /\ IsFiniteSet(Conns)

(* A piece of input; for a PROXY header n is the address it names.         *)
Piece(k, n) == [k |-> k, n |-> n]
Addresses == IPs \cup {NoIP}
Pieces == [k : STRING \ {"header"}, n : Int] \cup [k : {"header"}, n : Addresses]

ASSUME ScenarioAssumption ==
  \A m \in Scenarios : \A c \in DOMAIN m.script :
    c \in Conns /\ m.script[c] \in Seq(Pieces) /\ m.peer[c] \in Addresses

(* A scenario: what each connection sends (the connections without a       *)
(* script never connect), from which address, what may go wrong and who    *)
(* may leave, how the upstream side behaves, and the configuration.        *)
Calm ==
  [script |-> <<>>, peer |-> <<>>, faults |-> {}, leave |-> FALSE,
   answers |-> 0, eof |-> FALSE, timeout |-> FALSE, expire |-> FALSE,
   proxy |-> FALSE, internal |-> FALSE, splice |-> TRUE, silence |-> FALSE,
   middleEnd |-> "none"]

Fault(e) == e \in env.max.faults

-----------------------------------------------------------------------------
(* ConnLimiter: a key is an address, or an address with a secret; an entry *)
(* that falls to zero is deleted.                                          *)
IPKey(ip) == <<ip, "ip">>
SecretKey(ip) == <<ip, "secret">>
Keys == IPs \X {"ip", "secret"}

CanAcquire(H, k) == H.conns[k] < MaxPerIP
Acquired(H, k) == [H EXCEPT !.conns[k] = @ + 1]
Release(H, k) ==
  IF k = NoKey \/ H.conns[k] = 0 THEN H ELSE [H EXCEPT !.conns[k] = @ - 1]

(* UserIPLimiter, for one user: the least recently used address is evicted *)
(* for a new one, and blocked if it has connections.                       *)
EntryOf(H, ip) == SelectInSeq(H.lru, LAMBDA e : e.ip = ip)

UserAcquired(H, ip) ==
  LET i == EntryOf(H, ip)
      lru == IF i = 0 THEN Append(H.lru, [ip |-> ip, count |-> 1])
             ELSE Append(RemoveAt(H.lru, i), [H.lru[i] EXCEPT !.count = @ + 1])
      oldest == Head(lru)
      full == Len(lru) > MaxIPs
  IN  [H EXCEPT !.lru = IF full THEN Tail(lru) ELSE lru,
                !.blocked = IF full /\ oldest.count > 0 THEN @ \cup {oldest.ip}
                            ELSE @]

UserRelease(H, ip) ==
  LET i == EntryOf(H, ip)
  IN  IF i = 0 THEN H ELSE [H EXCEPT !.lru[i].count = @ - 1]

(* The block of an address, and a session in the replay cache, expire.     *)
BlockExpires(ip) ==
  /\ env.max.expire /\ ip \in h.blocked
  /\ h' = [h EXCEPT !.blocked = @ \ {ip}]
  /\ UNCHANGED <<cx, up, env>>

SessionExpires(s) ==
  /\ env.max.expire /\ s \in h.seen
  /\ h' = [h EXCEPT !.seen = @ \ {s}]
  /\ UNCHANGED <<cx, up, env>>

-----------------------------------------------------------------------------
(* A result of a limiter: whether it admits, and both sides afterwards.    *)
Admits(H, x) == [ok |-> TRUE, h |-> H, x |-> x]
Refuses(H, x) == [ok |-> FALSE, h |-> H, x |-> x]

AcquireInitialIPLimit(H, x, ip) ==
  IF x.ipKey # NoKey \/ ip = NoIP THEN Admits(H, x)
  ELSE IF ~CanAcquire(H, IPKey(ip)) THEN Refuses(H, x)
  ELSE Admits(Acquired(H, IPKey(ip)), [x EXCEPT !.ipKey = IPKey(ip)])

\* mutant: the provisional slot is not given back
TransferInitialIPLimit_Keeps(H, x, ip) ==
  IF ip = NoIP \/ ~CanAcquire(H, IPKey(ip)) THEN Refuses(H, x)
  ELSE Admits(Acquired(H, IPKey(ip)), [x EXCEPT !.ipKey = IPKey(ip)])

(* The slot of the internal hop moves to the client behind it; the new one *)
(* is taken before the old one is released.                                *)
TransferInitialIPLimit(H, x, ip) ==
  IF ip = NoIP THEN Refuses(H, x)
  ELSE IF x.ipKey = NoKey THEN AcquireInitialIPLimit(H, x, ip)
  ELSE IF x.ipKey = IPKey(ip) THEN Admits(H, x)
  ELSE IF ~CanAcquire(H, IPKey(ip)) THEN Refuses(H, x)
  ELSE Admits(Release(Acquired(H, IPKey(ip)), x.ipKey),
              [x EXCEPT !.ipKey = IPKey(ip)])

(* The limits of an authenticated client; a refusal by the second gives    *)
(* the slot of the first back.                                             *)
AcquireAuthenticated(H, x) ==
  IF x.ip = NoIP THEN Admits(H, x)
  ELSE IF ~CanAcquire(H, SecretKey(x.ip)) \/ x.ip \in H.blocked
  THEN Refuses(H, x)
  ELSE Admits(UserAcquired(Acquired(H, SecretKey(x.ip)), x.ip),
              [x EXCEPT !.secretKey = SecretKey(x.ip), !.user = x.ip])

-----------------------------------------------------------------------------
(* at: new, open, closing (OnClose is to run), ending (it is running) and  *)
(* closed.  st: the connection state.  peer and ip: the remote and the     *)
(* real client address.  dial: where dialDC or dialSplice is.              *)
NewConn ==
  [at |-> "new", st |-> "detect", run |-> FALSE, wake |-> FALSE,
   kill |-> FALSE, timer |-> FALSE, in |-> <<>>, sent |-> 0, peer |-> NoIP,
   ip |-> NoIP, candidate |-> FALSE, authed |-> FALSE, ipKey |-> NoKey,
   secretKey |-> NoKey, user |-> NoIP, mode |-> "ee", cipher |-> FALSE,
   pending |-> <<>>, dial |-> "off", relay |-> FALSE, dec |-> 0,
   throttled |-> FALSE, spoke |-> "nobody", hi |-> <<>>, out |-> 0,
   got |-> <<>>, spliced |-> FALSE, snap |-> 0, flow |-> 0, sampled |-> 0,
   sample |-> FALSE, drain |-> "no", wakeTimer |-> FALSE, deadline |-> "off"]

NewUpstream ==
  [at |-> "none", kill |-> FALSE, wake |-> FALSE, in |-> <<>>, sent |-> 0,
   context |-> FALSE, throttled |-> FALSE, out |-> 0, got |-> <<>>]

NewHandler ==
  [active |-> 0, conns |-> [k \in Keys |-> 0], lru |-> <<>>, blocked |-> {},
   seen |-> {}, pending |-> {}, relays |-> {}]

Init ==
  \E m \in Scenarios :
    /\ h = NewHandler
    /\ cx = [c \in Conns |-> NewConn]
    /\ up = [c \in Conns |-> NewUpstream]
    /\ env = [max |-> m]

-----------------------------------------------------------------------------
(* How a handler ends: with the next handler of its chain, with gnet.None  *)
(* or with gnet.Close (failHandshake closes, too).                         *)
Continues(c, x) == cx' = [cx EXCEPT ![c] = x]
Returns(c, x) == cx' = [cx EXCEPT ![c] = [x EXCEPT !.run = FALSE]]
Closes(c, x) == cx' = [cx EXCEPT ![c] =
                         [x EXCEPT !.run = FALSE, !.at = "closing"]]

(* What a limiter decided.                                                 *)
Then(c, r, x) ==
  /\ h' = r.h
  /\ IF r.ok THEN Continues(c, x) ELSE Closes(c, r.x)

TrustedPeer(ip) == ip \in {Loopback, NoIP}

(* OnOpen.  A peer without an IP that may be the internal hop is charged   *)
(* to the loopback address.                                                *)
OnOpen(c) ==
  /\ cx[c].at = "new" /\ c \in DOMAIN env.max.script
  /\ LET ip == env.max.peer[c]
         candidate == env.max.internal /\ TrustedPeer(ip)
         H == [h EXCEPT !.active = @ + 1]
         x == [cx[c] EXCEPT !.at = "open", !.peer = ip, !.ip = ip,
                 !.candidate = candidate,
                 !.st = IF env.max.proxy \/ candidate THEN "proxy" ELSE @]
         r == AcquireInitialIPLimit(H, x,
                IF candidate /\ ip = NoIP THEN Loopback ELSE ip)
     IN  IF MaxConnections > 0 /\ H.active > MaxConnections
         THEN h' = H /\ Closes(c, x)
         ELSE Then(c, r, [r.x EXCEPT !.timer = TRUE])
  /\ UNCHANGED <<up, env>>

(* The active handshake timeout.  A direct-only client leaves the          *)
(* handshake states before its route is committed ("route").               *)
HandshakeStates == {"proxy", "detect", "header", "payload", "o2", "dd"}

HandshakeTimeout(c) ==
  /\ cx[c].timer /\ env.max.timeout
  /\ cx' = [cx EXCEPT ![c].timer = FALSE,
              ![c].kill = @ \/ cx[c].st \in HandshakeStates
                            \/ (cx[c].st = "route" /\ env.max.middleEnd # "none")]
  /\ UNCHANGED <<h, up, env>>

(* Data arrives, and the event loop calls OnTraffic, which leaves the data *)
(* where it is while a data centre is dialled.                             *)
ClientSends(c) ==
  /\ cx[c].at = "open" /\ cx[c].sent < Len(env.max.script[c])
  /\ cx' = [cx EXCEPT ![c].sent = @ + 1, ![c].wake = TRUE,
              ![c].in = Append(@, env.max.script[c][cx[c].sent + 1])]
  /\ UNCHANGED <<h, up, env>>

OnTraffic(c) ==
  /\ cx[c].at = "open" /\ cx[c].wake /\ ~cx[c].run
  /\ cx' = [cx EXCEPT ![c].wake = FALSE,
                      ![c].run = cx[c].st \notin {"dialing", "middle end"}]
  /\ UNCHANGED <<h, up, env>>

-----------------------------------------------------------------------------
(* The handlers of a handshake.                                            *)
Handling(c, st) == cx[c].run /\ cx[c].st = st
NeedsMore(c, n) == Len(cx[c].in) < n
Waits(c) == Returns(c, cx[c]) /\ UNCHANGED h

FallbackFromProxyProtocol(c, x) ==
  LET r == AcquireInitialIPLimit(h, x, x.peer)
  IN  Then(c, r, [r.x EXCEPT !.st = "detect"])

(* A PROXY header with source ip (NoIP: without one).                      *)
AcceptProxyHeader(c, x, src) ==
  LET t == IF x.authed THEN TransferInitialIPLimit(h, x, src) ELSE Admits(h, x)
      y == [t.x EXCEPT !.ip = IF src = NoIP THEN @ ELSE src]
      r == AcquireInitialIPLimit(t.h, y, y.ip)
  IN  IF ~t.ok THEN Then(c, t, y) ELSE Then(c, r, [r.x EXCEPT !.st = "detect"])

HandleProxyProto(c) ==
  /\ Handling(c, "proxy")
  /\ LET x == cx[c]
         it == Head(x.in)
         rest == [x EXCEPT !.in = Tail(@)]
         known == [x EXCEPT !.candidate = FALSE]
     IN  IF NeedsMore(c, 1) THEN Waits(c)
         ELSE IF x.candidate
         THEN CASE it.k = "preface" ->
                     Continues(c, [rest EXCEPT !.candidate = FALSE,
                                               !.authed = TRUE]) /\ UNCHANGED h
                [] it.k = "bad preface" -> Closes(c, x) /\ UNCHANGED h
                [] OTHER -> IF env.max.proxy THEN Continues(c, known) /\ UNCHANGED h
                            ELSE FallbackFromProxyProtocol(c, known)
         ELSE CASE it.k = "bad header" -> Closes(c, x) /\ UNCHANGED h
                [] it.k = "header" -> AcceptProxyHeader(c, rest, it.n)
                [] OTHER -> IF x.authed THEN Closes(c, x) /\ UNCHANGED h
                            ELSE FallbackFromProxyProtocol(c, x)
  /\ UNCHANGED <<up, env>>

HandleDetectProtocol(c) ==
  /\ Handling(c, "detect")
  /\ IF NeedsMore(c, 1) THEN Waits(c)
     ELSE LET tls == Head(cx[c].in).k = "tls"
          IN  /\ Continues(c, [cx[c] EXCEPT !.mode = IF tls THEN "ee" ELSE "dd",
                                !.st = IF tls THEN "header" ELSE "dd"])
              /\ UNCHANGED h
  /\ UNCHANGED <<up, env>>

(* startSplice: to the mask host, if there is one.                         *)
StartSplice(c, x) ==
  IF env.max.splice
  THEN Returns(c, [x EXCEPT !.st = "splicing", !.dial = "splice"])
  ELSE Closes(c, x)

(* The record header, n = 1 for one that is too large.                     *)
HandleTLSHeader(c) ==
  /\ Handling(c, "header")
  /\ IF Head(cx[c].in).n = 1 THEN StartSplice(c, cx[c])
     ELSE Continues(c, [cx[c] EXCEPT !.st = "payload"])
  /\ UNCHANGED <<h, up, env>>

(* Seen, the limits, the ServerHello (which may fail) and the next state.  *)
Authenticates(c, x, session, y) ==
  IF session \in h.seen THEN StartSplice(c, x) /\ UNCHANGED h
  ELSE LET r == AcquireAuthenticated([h EXCEPT !.seen = @ \cup {session}], y)
       IN  /\ h' = r.h
           /\ \/ Continues(c, r.x) /\ r.ok
              \/ Closes(c, r.x) /\ (~r.ok \/ (Fault("hello") /\ x.mode = "ee"))

HandleTLSPayload(c) ==
  /\ Handling(c, "payload")
  /\ LET x == cx[c]
         it == x.in[2]
     IN  IF NeedsMore(c, 2) THEN Waits(c)
         ELSE IF it.k # "hello" THEN StartSplice(c, x) /\ UNCHANGED h
         ELSE Authenticates(c, x, it.n, [x EXCEPT !.in = Tail(Tail(@)),
                                                  !.st = "o2"])
  /\ UNCHANGED <<up, env>>

(* handleO2Frame; n: how many pieces of data follow the frame in its       *)
(* record.                                                                 *)
HandleO2Frame(c) ==
  /\ Handling(c, "o2")
  /\ LET x == cx[c]
         it == Head(x.in)
         rest == [x EXCEPT !.in = Tail(@)]
     IN  IF NeedsMore(c, 1) THEN Waits(c)
         ELSE /\ CASE it.k = "ccs" -> Continues(c, rest)
                   [] it.k = "o2" ->
                        Continues(c, [rest EXCEPT !.cipher = TRUE, !.st = "route",
                                                  !.pending = [i \in 1..it.n |-> i]])
                   [] OTHER -> Closes(c, x)
              /\ UNCHANGED h
  /\ UNCHANGED <<up, env>>

HandleDDFrame(c) ==
  /\ Handling(c, "dd")
  /\ LET x == cx[c]
         it == Head(x.in)
     IN  IF it.k # "dd" THEN StartSplice(c, x) /\ UNCHANGED h
         ELSE Authenticates(c, x, it.n, [x EXCEPT !.in = Tail(@), !.cipher = TRUE,
                                                  !.st = "route"])
  /\ UNCHANGED <<up, env>>

(* commitAuthenticatedRoute and startDirectRoute.  MiddleEndFrontend has   *)
(* the other route; here it always takes the client ("bound"), or it may   *)
(* also fail into the direct route or for good ("any").                    *)
CommitAuthenticatedRoute(c) ==
  /\ Handling(c, "route")
  /\ \/ /\ env.max.middleEnd # "bound"
        /\ Returns(c, [cx[c] EXCEPT !.st = "dialing", !.dial = "start"])
        /\ UNCHANGED h
     \/ /\ env.max.middleEnd # "none"
        /\ Returns(c, [cx[c] EXCEPT !.st = "middle end"])
        /\ h' = IF env.max.silence THEN [h EXCEPT !.relays = @ \cup {c}] ELSE h
     \/ env.max.middleEnd = "any" /\ Closes(c, cx[c]) /\ UNCHANGED h
  /\ UNCHANGED <<up, env>>

Handshakes(c) ==
  \/ HandleProxyProto(c) \/ HandleDetectProtocol(c) \/ HandleTLSHeader(c)
  \/ HandleTLSPayload(c) \/ HandleO2Frame(c) \/ HandleDDFrame(c)
  \/ CommitAuthenticatedRoute(c)
===============================================================================
