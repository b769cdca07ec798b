----------------------------- MODULE MCWebManager -----------------------------
(***************************************************************************)
(* The session manager on small instances, and what makes it correct.      *)
(***************************************************************************)
EXTENDS WebManager

(* Fairness: the expiry worker and the shutdown keep running, a cancelled  *)
(* backend ends (its dial is bounded, its sockets are closed), and then so *)
(* does its session.  No client has to do anything.  Each conjunct is      *)
(* WF_vars(A) with ENABLED <<A>>_vars written out as the guard of A.  One  *)
(* is strong: the expiry worker's select finds m.stop ready at every pass  *)
(* and a tick only once per interval, so it does not choose ticks for ever.*)
Cancelled(i) == se[i].st = "closing" /\ ~Quiet(i)
Ready(i) == se[i].st = "closing" /\ Quiet(i)
Sweeping == sweep.pc # "gone"
Stopped == sweep.pc = "wait" /\ m.down
Stopping == \/ shut.pc = "close" /\ shut.left # {}
            \/ /\ shut.pc = "close" /\ sweep.pc = "gone"
               /\ \A i \in shut.all : se[i].st = "finished"

FairSpec ==
  /\ Spec
  /\ \A i \in Ids :
       /\ \/ []<>~Cancelled(i)
          \/ []<><<BackendDialFinished(i) \/ StreamFinished(i)>>_vars
       /\ []<>~Ready(i) \/ []<><<SessionFinished(i)>>_vars
  /\ []<>~Sweeping \/ []<><<Sweep>>_vars
  /\ <>[]~Stopped \/ []<><<SweepEnds /\ sweep.pc = "wait">>_vars
  /\ []<>~Stopping \/ []<><<Stop>>_vars

(* A bootstrap creates one session, for one body: requests that are        *)
(* retried, duplicated or overtake each other, while bootstraps expire or  *)
(* are evicted and sessions end, are all given that session or refused.    *)
OneSessionPerBootstrap ==
  \A g, h \in env.got : (g[1] = h[1]) <=> (g[3] = h[3] /\ g[2] = h[2])

(* The global budget never refuses the control frames a session has        *)
(* reserve for, whatever data and uplink the other sessions have pending.  *)
ControlNeverRefused ==
  \A i \in Ids : se[i].st = "open" /\ se[i].ctl < Reserve => MayCharge("ctl")

(* When Shutdown returns, no session, backend goroutine, dial or pending   *)
(* byte is left, not even of a session that was being created or was       *)
(* already closing when it started.                                        *)
ShutdownIsComplete ==
  shut.pc = "done" =>
    /\ m.sessions = {} /\ m.streams = 0 /\ m.dials = 0 /\ m.pending = 0
    /\ \A i \in Ids : se[i].st \in {"none", "finished"} /\ Quiet(i)

(* A session that stays idle beyond the reconnect grace is closed, a       *)
(* closed session is forgotten, and Shutdown ends.                         *)
SessionsEnd ==
  /\ \A i \in Ids :
       /\ (se[i].st = "open" /\ se[i].idle) ~> (se[i].st # "open" \/ ~se[i].idle)
       /\ (se[i].st = "closing") ~> (i \notin m.sessions)
  /\ (shut.pc = "close") ~> (shut.pc = "done")

-----------------------------------------------------------------------------
FewLimits == [boots |-> 2, sessions |-> 2, closed |-> 1, streams |-> 2,
              dials |-> 1, pending |-> 4]

Bare == [calls |-> 2, boots |-> 2, bodies |-> {1}, time |-> FALSE,
         streams |-> FALSE, charges |-> FALSE, closes |-> FALSE, stops |-> FALSE]

ManagerScenarios ==
  {[Bare EXCEPT !.calls = 3, !.boots = 1, !.bodies = {1, 2}, !.time = TRUE,
                !.closes = TRUE],
   [Bare EXCEPT !.calls = 3, !.boots = 3, !.closes = TRUE, !.stops = TRUE],
   [Bare EXCEPT !.time = TRUE, !.closes = TRUE, !.stops = TRUE],
   [Bare EXCEPT !.charges = TRUE, !.closes = TRUE, !.stops = TRUE],
   [Bare EXCEPT !.streams = TRUE, !.closes = TRUE, !.stops = TRUE]}
===============================================================================
