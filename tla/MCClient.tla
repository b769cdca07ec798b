------------------------------- MODULE MCClient -------------------------------
(***************************************************************************)
(* Clients of the public proxy, and what makes their handling correct.     *)
(***************************************************************************)
EXTENDS DirectRelay

(* Fairness: event loops, goroutines and timers keep running.  Peers need  *)
(* not send, read or leave.  Each conjunct is WF_vars(A) with              *)
(* ENABLED <<A>>_vars written out as the guard of A, except for one of     *)
(* strong fairness: a loop's low-priority queue is first in, first out, so *)
(* turns that keep coming do not pass over a task for ever.                *)
LoopReady(c) == \/ cx[c].run \/ cx[c].at \in {"closing", "ending"}
                \/ LoopIdle(c) /\ (cx[c].wake \/ cx[c].hi # <<>>)
                \/ LowPriority(c) /\ cx[c].sample
LoopStep(c) == \/ OnTraffic(c) \/ Turn(c) \/ Queued(c)
               \/ CloseBegins(c) \/ CloseEnds(c)
LowReady(c) == LowPriority(c) /\ (\/ cx[c].drain = "requested" \/ cx[c].kill
                                  \/ cx[c].deadline = "queued")
LowStep(c) == BeginSpliceDrain(c) \/ DeadlineRuns(c) \/ CloseBegins(c)
GoReady(c) ==
  \/ cx[c].dial \notin {"off", "done", "reader"}
  \/ cx[c].dial = "reader" /\ (\/ cx[c].st = "closed" \/ up[c].at = "closed"
                               \/ SpliceBufferedBytes(cx[c]) > Soft
                               \/ up[c].in # <<>>
                               \/ env.max.eof /\ up[c].sent = env.max.answers)
DCReady(c) == up[c].at = "open" /\ ~cx[c].spliced /\ (up[c].wake \/ up[c].kill)
DCStep(c) == HandleDCTraffic(c) \/ DCCloses(c)

FairSpec ==
  /\ Spec
  /\ \A c \in Conns :
       /\ []<>~LoopReady(c) \/ []<><<LoopStep(c)>>_vars
       /\ <>[]~LowReady(c) \/ []<><<LowStep(c)>>_vars
       /\ []<>~GoReady(c) \/ []<><<Goroutine(c)>>_vars
       /\ []<>~DCReady(c) \/ []<><<DCStep(c)>>_vars
       /\ []<>~cx[c].wakeTimer \/ []<><<DrainWakes(c)>>_vars
       /\ []<>~(cx[c].deadline = "armed") \/ []<><<DeadlineFires(c)>>_vars

-----------------------------------------------------------------------------
Served == {c \in Conns : cx[c].at \in {"open", "closing", "ending"}}

(* The limits are exact whatever refuses or closes a connection half way   *)
(* through its admission: activeConns and every entry of ConnLimiter count *)
(* the connections that are there and no others, and a user's address is   *)
(* never taken for busier than it is.                                      *)
LimitsBalanced ==
  /\ h.active = Cardinality(Served \ {c \in Conns : cx[c].at = "ending"})
  /\ \A k \in Keys :
       h.conns[k] = Cardinality({c \in Served : k \in {cx[c].ipKey, cx[c].secretKey}})
  /\ \A i \in DOMAIN h.lru :
       h.lru[i].count <= Cardinality({c \in Served : cx[c].user = h.lru[i].ip})

(* What the data centre and the client receive is a prefix of what the     *)
(* other end sent, whichever loop or goroutine moves it and however the    *)
(* rates are limited, and after a drain it is all of it: the close is not  *)
(* ahead of a write that is queued or buffered.  Two cases are exempt: a   *)
(* client whose obfuscated2 record held data, which sendPendingDataGnet    *)
(* decrypts when the event loop may have gone ahead, and a raw client with *)
(* more than a batch buffer of input.                                      *)
IsPrefixOfStream(s) == \A i \in DOMAIN s : s[i] = i
NothingPending(s) == \A i \in DOMAIN s : s[i].k = "o2" => s[i].n = 0
Ordered(c) ==
  /\ NothingPending(env.max.script[c])
  /\ cx[c].mode = "dd" => Len(Payload(env.max.script[c])) <= Batch
RelayIsFaithful ==
  \A c \in DOMAIN env.max.script :
    /\ IsPrefixOfStream(cx[c].got)
    /\ Ordered(c) => IsPrefixOfStream(up[c].got)
    /\ cx[c].drain = "done" =>
         cx[c].out = 0 /\ cx[c].hi = <<>> /\ Len(cx[c].got) = up[c].sent

(* How scripts are written: the number of a piece of data is its place in  *)
(* the client's stream, and as a raw stream has no records, everything     *)
(* after its frame is data.                                                *)
ASSUME StreamAssumption ==
  \A m \in Scenarios : \A c \in DOMAIN m.script :
    LET s == m.script[c]
    IN  /\ NothingPending(s) => IsPrefixOfStream(Payload(s))
        /\ \A i, j \in DOMAIN s : i < j /\ s[i].k = "dd" => s[j].k = "data"

(* What a client sent reaches the data centre without any further event of *)
(* the client, or the connection ends: neither data that came while the    *)
(* data centre was dialled nor the rest of a throttled turn is forgotten.  *)
RelayMoves ==
  \A c \in Conns :
    (cx[c].at = "open" /\ cx[c].st = "relaying" /\ cx[c].in # <<>>)
      ~> (cx[c].at # "open" \/ cx[c].in = <<>>)

(* The two sides end together: the end of a data centre's connection ends  *)
(* its client's from the moment it is enrolled, a client's end with the    *)
(* relay in place ends the data centre's, and a drain ends for a client    *)
(* that does not read.                                                     *)
EndsTogether ==
  \A c \in Conns :
    /\ (up[c].at = "closed") ~> (cx[c].at = "closed" \/ cx[c].spliced)
    /\ (cx[c].relay /\ cx[c].at = "open" /\ cx[c].kill) ~> (up[c].at = "closed")
    /\ (cx[c].drain = "requested") ~> (cx[c].at = "closed")

-----------------------------------------------------------------------------
Data(n) == Piece("data", n)
Hello(session) == <<Piece("tls", 0), Piece("hello", session)>>
EE(session) == Hello(session) \o <<Piece("o2", 0)>>
DD(session) == <<Piece("dd", session)>>
One(s) == <<s>>

ClientScenarios ==
  {\* the relay against its ends, its faults and the silence sweep
   [Calm EXCEPT !.script = One(EE(1) \o <<Data(1), Data(2)>>), !.peer = One(1),
                !.answers = 2, !.eof = TRUE, !.silence = TRUE],
   [Calm EXCEPT !.script = One(EE(1) \o <<Data(1)>>), !.peer = One(1),
                !.answers = 1, !.leave = TRUE,
                !.faults = {"dial", "enroll", "write"}],
   \* rate limits, records without data, a record that is too large
   [Calm EXCEPT !.script = One(EE(1) \o <<Data(1), Data(2), Piece("other", 0),
                                          Data(3), Data(4), Data(5)>>),
                !.peer = One(1)],
   [Calm EXCEPT !.script = One(DD(1) \o <<Data(1), Data(2), Data(3)>>),
                !.peer = One(1), !.answers = 3],
   [Calm EXCEPT !.script = One(Hello(1) \o <<Piece("ccs", 0), Piece("o2", 1),
                                             Data(2), Piece("huge", 0)>>),
                !.peer = One(1)],
   \* the splice
   [Calm EXCEPT !.script = One(<<Piece("raw", 0), Data(1)>>), !.peer = One(1),
                !.answers = 4, !.eof = TRUE],
   [Calm EXCEPT !.script = One(<<Piece("tls", 1), Data(1)>>), !.peer = One(1),
                !.answers = 1, !.eof = TRUE, !.leave = TRUE,
                !.faults = {"dial", "splice", "write", "read"}],
   \* three clients of one user compete for the limits
   [Calm EXCEPT !.script = <<EE(1), DD(1), DD(2)>>, !.peer = <<1, 1, 1>>,
                !.leave = TRUE, !.faults = {"hello"}, !.middleEnd = "bound",
                !.splice = FALSE],
   [Calm EXCEPT !.script = <<DD(1), DD(1), DD(2)>>, !.peer = <<1, 2, 1>>,
                !.leave = TRUE, !.expire = TRUE, !.middleEnd = "bound",
                !.splice = FALSE],
   \* the internal hop, public PROXY headers, no mask host, the timeout
   [Calm EXCEPT !.script = <<<<Piece("preface", 0), Piece("header", 1)>> \o DD(1),
                             <<Piece("preface", 0), Piece("header", NoIP)>>,
                             <<Piece("bad preface", 0)>>>>,
                !.peer = <<NoIP, Loopback, NoIP>>, !.internal = TRUE,
                !.middleEnd = "any", !.silence = TRUE],
   [Calm EXCEPT !.script = <<<<Piece("preface", 0), Piece("raw", 0)>>,
                             <<Piece("header", 1)>> \o DD(1),
                             <<Piece("bad header", 0)>>>>,
                !.peer = <<Loopback, NoIP, 2>>, !.internal = TRUE,
                !.proxy = TRUE, !.splice = FALSE],
   [Calm EXCEPT !.script = <<<<Piece("tls", 0), Piece("probe", 0)>>,
                             Hello(1) \o <<Piece("raw", 0)>>>>,
                !.peer = <<Loopback, NoIP>>, !.internal = TRUE,
                !.splice = FALSE, !.timeout = TRUE]}
===============================================================================
