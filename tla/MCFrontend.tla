------------------------------ MODULE MCFrontend ------------------------------
(***************************************************************************)
(* The frontend with two clients, and what makes it correct.               *)
(***************************************************************************)
EXTENDS MiddleEndFrontend, UnitSums

(* Fairness: the dispatcher and the event loops keep running, timers fire  *)
(* and time passes.  Nobody has to read or send.  Each conjunct is         *)
(* WF_vars(A) with ENABLED <<A>>_vars written out as the guard of A.       *)
DispatchReady == \/ f.pc \in {"drain", "wake", "ack"}
                 \/ f.pc = "select" /\ (src.sig \/ src.done \/ f.stopped)
TurnReady(c) == cl[c].pc # "idle" \/ (cl[c].stage = "me" /\ cl[c].wake)

FairSpec ==
  /\ Spec
  /\ []<>~DispatchReady \/ []<><<Dispatch>>_vars
  /\ \A c \in Clients :
       /\ []<>~(cl[c].stage = "unroute") \/ []<><<CommitUnroutes(c)>>_vars
       /\ []<>~TurnReady(c) \/ []<><<Turn(c)>>_vars
       /\ []<>~cl[c].timer \/ []<><<RetryFires(c)>>_vars
       /\ []<>~(cl[c].deadline = "set") \/ []<><<DeadlinePasses(c)>>_vars
       /\ []<>~(cl[c].kill /\ cl[c].pc = "idle") \/ []<><<ConnCloses(c)>>_vars

(* The shared budgets are exactly what the clients account for, reserved   *)
(* output included, through refusals, evictions, errors and closes that    *)
(* interleave on different event loops; retained output never exceeds its  *)
(* limit.                                                                  *)
BudgetsConserved ==
  /\ f.inBud = SumOf([c \in Clients |-> cl[c].inAcc])
  /\ f.outBud = SumOf([c \in Clients |-> cl[c].outAcc + cl[c].held])
  /\ f.outBud <= OutputTotal

(* A successful BindReady is irreversible: such a client never becomes a   *)
(* direct fallback, and when its connection is gone its binding has been   *)
(* closed and leaves no readiness behind that nobody would acknowledge.    *)
CommitIsIrreversible ==
  \A c \in Clients :
    src.b[c].bound =>
      /\ c \notin f.fallbacks /\ cl[c].stage # "direct"
      /\ cl[c].stage = "closed" =>
           /\ src.b[c].closed /\ ~HasReason(src.b[c])
           /\ ~src.b[c].leased /\ ~Contains(src.q, c)

(* Whatever the source has for a bound client reaches it or its connection *)
(* is closed: no wake-up is lost between Ready, the dispatcher, a token    *)
(* that waits for headroom or for the shared budget, and the retry timer,  *)
(* even when no client ever reads.                                         *)
ReasonIsServed ==
  \A c \in Clients :
    HasReason(src.b[c]) ~> (~HasReason(src.b[c]) \/ f.stopped)

-----------------------------------------------------------------------------
FrontendScenarios ==
  {[Quiet EXCEPT !.answers = 2],
   [Quiet EXCEPT !.sends = 2, !.packets = {"pkt", "frag"}, !.waits = TRUE],
   [Quiet EXCEPT !.sends = 2, !.packets = {"pkt", "bad"}, !.reject = TRUE,
                 !.leave = TRUE,
                 !.setup = {"ok", "invalid", "no dc", "bad address"}],
   [Quiet EXCEPT !.answers = 1, !.events = {"answer", "close ext", "odd"},
                 !.terms = {"nil", "err"}, !.fallback = FALSE],
   [Quiet EXCEPT !.sends = 1, !.terms = {"nil"},
                 !.setup = {"ok", "bad address"}],
   [Quiet EXCEPT !.answers = 1, !.done = TRUE, !.stop = TRUE]}
===============================================================================
