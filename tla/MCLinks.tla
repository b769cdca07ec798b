-------------------------------- MODULE MCLinks --------------------------------
(***************************************************************************)
(* Both link engines under the same limits: one behaviour is one link of   *)
(* one kind in one scenario.                                               *)
(***************************************************************************)
EXTENDS GnetLink, BlockingLink

Init ==
  \E m \in Scenarios :
    /\ env = NewEnv(m)
    /\ k = IF m.kind = "gnet" THEN NewGnetLink ELSE NewBlockingLink

Next ==
  \/ k.kind = "gnet" /\ GnetNext
  \/ k.kind = "blocking" /\ BlockingNext

Spec == Init /\ [][Next]_vars

(* Fairness: the event loop keeps serving its tasks, its readable and its  *)
(* writable sockets, the goroutines keep running, the poll timer fires and *)
(* the peer keeps reading what is written.  Each conjunct is WF_vars(A)    *)
(* with ENABLED <<A>>_vars written out as the guard of A.                  *)
Enrolling == k.kind = "gnet" /\ k.starter \in {"enroll", "enrolling"}
Scheduling == k.kind = "gnet" /\ k.closer = "schedule"
Stopping == /\ k.kind = "gnet"
            /\ \/ k.stopper \in {"claim", "schedule"}
               \/ k.stopper = "enrolls" /\ k.starter # "enrolling"
                  /\ k.pc = "idle"
InCallback == k.kind = "gnet" /\ k.pc # "idle"
Draining == k.kind = "gnet" /\ Runs("drain")
Closing == k.kind = "gnet" /\ Runs("close")
Polling == k.kind = "gnet" /\ k.poll
Receiving == k.kind = "gnet" /\ Traffic
Flushing == k.kind = "gnet" /\ Writable

GnetFairness ==
  /\ []<>~Enrolling \/ []<><<Enroll \/ OnOpen>>_vars
  /\ []<>~Scheduling \/ []<><<GCloseSchedules>>_vars
  /\ []<>~Stopping \/ []<><<StopClaims \/ StopSchedules \/ StopClient>>_vars
  /\ \/ []<>~InCallback
     \/ []<><<\/ \E n \in 0..Budget : DrainWrites(n)
              \/ \E n \in 0..1 : OwnerFrame(n)>>_vars
  /\ []<>~Draining \/ []<><<DrainOwner>>_vars
  /\ []<>~Receiving \/ []<><<OnTraffic>>_vars
  /\ []<>~Closing \/ []<><<OwnerCloses>>_vars
  /\ []<>~Flushing \/ []<><<SocketWrites>>_vars
  /\ []<>~Polling \/ []<><<FireOutboundPoll>>_vars

BootInterrupted == k.kind = "blocking" /\ k.starter = "boot" /\ Claimed(k)
Finishing == k.kind = "blocking" /\ "finish" \in {k.starter, k.closer}
OwnerRuns == k.kind = "blocking" /\ OwnerReady
WriterRuns == k.kind = "blocking" /\ WriterReady
ReaderStops == /\ k.kind = "blocking" /\ Claimed(k)
               /\ k.reader \notin {"none", "gone"}

BlockingFairness ==
  /\ \/ []<>~BootInterrupted
     \/ []<><<\/ BootstrapFails
              \/ \E initial, err \in BOOLEAN : BootstrapDone(initial, err)>>_vars
  /\ []<>~Finishing \/ []<><<StartFinishes \/ CloseFinishes>>_vars
  /\ \/ []<>~OwnerRuns
     \/ []<><<\/ HandleFrames \/ OwnerTerminal \/ OwnerSubmission
              \/ OwnerWriteResult \/ OwnerReadResult \/ OwnerFinishes>>_vars
  /\ \/ []<>~WriterRuns
     \/ []<><<\/ WriterTakes \/ WriterSends \/ WriterTerminal
              \/ \E ok \in BOOLEAN : WriterWrites(ok)>>_vars
  /\ []<>~ReaderStops \/ []<><<ReaderTerminal>>_vars

FairSpec == Spec /\ GnetFairness /\ BlockingFairness

Contract == INSTANCE ClientLink WITH
  MaxSubs <- Limits.subs, MaxBytes <- Limits.subBytes,
  phase <- k.state, start <- k.start, err <- k.err, acc <- env.acc,
  wire <- env.wire, rel <- Len(env.acc) - k.pend, bytes <- k.bytes,
  sig <- k.sig

(* Each engine implements the contract of link.go: one life cycle, one     *)
(* start result, the first terminal error, submissions charged until the   *)
(* stream has taken them and never above the limits, and a capacity signal *)
(* for every release of a ready link.                                      *)
ImplementsClientLink == Contract!Spec

(* The ceiling maximumGnetOutboundBytes derives from the limits covers     *)
(* everything the engine may have buffered, whatever the peer leaves       *)
(* unread, so no link ends for exceeding it.                               *)
OutboundFits == k.kind = "gnet" => k.err # "outbound" /\ ~Overflows(k)

(* An accepted submission reaches the stream or the link ends: no wake-up  *)
(* of the owner (drainScheduled and the poll timer; submissionQueued and   *)
(* writeResults) is lost.                                                  *)
AcceptedIsWritten ==
  \A i \in 1..3 : (Len(env.acc) >= i) ~> (Len(env.wire) >= i \/ Claimed(k))

(* Close returns.  The exception is gnet's: a Start that runs between      *)
(* Close's claim and its scheduleOwnerClose marks the link as started, so  *)
(* neither of them finalizes it (only the runtime's Stop does).            *)
CloseEndsTheLink ==
  (k.closer = "wait") ~> (k.done \/ (k.kind = "gnet" /\ k.initiated
                                     /\ ~k.owner /\ ~k.stopping))

-----------------------------------------------------------------------------
FewLimits == [subs |-> 2, subBytes |-> 3, events |-> 1, evBytes |-> 2]

Load(kind) == [Idle(kind) EXCEPT !.sizes = {1, 2}, !.subs = 3,
                                 !.frames = {"ping", "answer"}, !.count = 1]

LinkScenarios ==
  UNION {{Load(kind),
          [Load(kind) EXCEPT !.sizes = {1}, !.subs = 2, !.close = TRUE,
                             !.cancel = TRUE, !.drop = TRUE],
          [Idle(kind) EXCEPT !.subs = 1, !.frames = {"ping", "bad"},
                             !.count = 3]}
         : kind \in {"gnet", "blocking"}}
  \cup {[Idle("gnet") EXCEPT !.subs = 2, !.stop = TRUE, !.close = TRUE,
                             !.cancel = TRUE]}
===============================================================================
