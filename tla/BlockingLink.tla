----------------------------- MODULE BlockingLink -----------------------------
(***************************************************************************)
(* The blocking engine of a Middle-End link (blocking_engine.go): an owner *)
(* goroutine that alone uses the protocol state, a reader and a writer     *)
(* that alone use the connection, and the callers of the link.  They meet  *)
(* in bounded channels; terminalRequested is Claimed.                      *)
(***************************************************************************)
EXTENDS LinkBase

None == [id |-> 0, size |-> 0]

NewBlockingLink ==
  WithEngine(NewLink("blocking"),
    [owner |-> "none", reader |-> "none", writer |-> "none",
     active |-> None, queued |-> FALSE, jobs |-> <<>>, results |-> <<>>,
     reads |-> <<>>, rdata |-> <<>>, rerr |-> FALSE, job |-> None,
     werr |-> FALSE])

WriteQueueSize == Limits.events + 1

(* beginTerminal; it also closes the connection.                           *)
BeginTerminal(K, err) ==
  IF Claimed(K) THEN K ELSE [K EXCEPT !.state = "closing", !.err = err]

(* finishTerminal, once the reader and the writer have ended.              *)
MayFinish(K) == K.reader \in {"none", "gone"} /\ K.writer \in {"none", "gone"}

FinishTerminal(K) ==
  PublishClosed([K EXCEPT !.active = None, !.jobs = <<>>, !.results = <<>>,
                          !.reads = <<>>])

-----------------------------------------------------------------------------
(* Start and its bootstrap, which ends early when the connection is closed,*)
(* the context ends or the peer goes away.                                 *)
BStart ==
  /\ k.starter = "idle"
  /\ k' = IF k.state = "created"
          THEN [k EXCEPT !.state = "boot", !.starter = "boot"]
          ELSE [k EXCEPT !.starter = "wait"]
  /\ UNCHANGED env

BootstrapFails ==
  /\ k.starter = "boot" /\ (Claimed(k) \/ env.max.cancel \/ env.max.drop)
  /\ k' = PublishStart([BeginTerminal(k, "bootstrap") EXCEPT
                          !.starter = "finish"],
                       IF Claimed(k) /\ k.err = "nil" THEN "closed"
                       ELSE "bootstrap")
  /\ UNCHANGED env

(* Readiness.  initial: frames that came with the bootstrap's last read;   *)
(* err: the error of that read.                                            *)
BootstrapDone(initial, err) ==
  /\ k.starter = "boot" /\ (err => env.max.drop)
  /\ k' = IF Claimed(k)
          THEN PublishStart([k EXCEPT !.starter = "finish"], "closed")
          ELSE PublishStart(
                 [k EXCEPT !.reader = "read", !.writer = "idle",
                           !.owner = "frames", !.rerr = err,
                           !.data = IF initial THEN k.in ELSE <<>>,
                           !.in = IF initial THEN <<>> ELSE @,
                           !.state = "ready", !.starter = "done"], "ok")
  /\ UNCHANGED env

StartFinishes ==
  /\ k.starter = "finish"
  /\ k' = FinishTerminal([k EXCEPT !.starter = "done"])
  /\ UNCHANGED env

(* Close.  Of a link never started it is also the finisher.                *)
BClose ==
  /\ k.closer = "idle" /\ env.max.close
  /\ k' = [BeginTerminal(k, "nil") EXCEPT
            !.closer = IF k.state = "created" THEN "finish" ELSE "wait"]
  /\ UNCHANGED env

CloseFinishes ==
  /\ k.closer = "finish"
  /\ k' = FinishTerminal(PublishStart([k EXCEPT !.closer = "wait"], "closed"))
  /\ UNCHANGED env

-----------------------------------------------------------------------------
(* The owner.                                                              *)
Ends(K, err) == [BeginTerminal(K, err) EXCEPT !.owner = "finish",
                                              !.data = <<>>]

(* handleFrame and publishEvent; a pong is a job with no submission.       *)
HandleFrame(K, f) ==
  LET P == IF f = "ping" THEN [K EXCEPT !.jobs = Append(@, None)] ELSE K
      e == EnqueueEvent(P, f)
  IN  IF f = "bad" THEN Ends(K, "protocol")
      ELSE IF f = "ping" /\ Len(K.jobs) = WriteQueueSize
      THEN Ends(K, "backpressure")
      ELSE IF e.err # "none" THEN Ends(P, e.err)
      ELSE e.k

(* One frame of the data in hand; after the last one, the read's error.    *)
HandleFrames ==
  /\ k.owner = "frames"
  /\ k' = IF k.data # <<>>
          THEN HandleFrame([k EXCEPT !.data = Tail(@)], Head(k.data))
          ELSE IF k.rerr THEN Ends(k, "read")
          ELSE [k EXCEPT !.owner = "select"]
  /\ UNCHANGED env

OwnerTerminal ==
  /\ k.owner = "select" /\ Claimed(k)
  /\ k' = [k EXCEPT !.owner = "finish"]
  /\ UNCHANGED env

(* case <-submissionQueued: one submission at a time is with the writer.   *)
OwnerSubmission ==
  /\ k.owner = "select" /\ k.queued
  /\ k' = LET K == [k EXCEPT !.queued = FALSE]
          IN  IF k.active # None \/ Len(k.jobs) = WriteQueueSize
                 \/ Claimed(k) \/ k.subs = <<>>
              THEN K
              ELSE [K EXCEPT !.active = Head(k.subs), !.subs = Tail(@),
                             !.jobs = Append(@, Head(k.subs))]
  /\ UNCHANGED env

WakeSubmissionOwner(K) ==
  [K EXCEPT !.queued = @ \/ (K.state = "ready" /\ K.subs # <<>>)]

(* case result := <-writeResults.                                          *)
OwnerWriteResult ==
  /\ k.owner = "select" /\ k.results # <<>>
  /\ LET r == Head(k.results)
         K == [k EXCEPT !.results = Tail(@)]
         R == IF r.job = None THEN K
              ELSE [ReleaseSubmissions(K, 1, r.job.size) EXCEPT
                      !.active = IF @ = r.job THEN None ELSE @]
     IN  k' = IF r.err THEN Ends(K, "write") ELSE WakeSubmissionOwner(R)
  /\ UNCHANGED env

(* case result := <-readResults.                                           *)
OwnerReadResult ==
  /\ k.owner = "select" /\ k.reads # <<>>
  /\ k' = [k EXCEPT !.reads = <<>>, !.owner = "frames",
                    !.data = k.reads[1].data, !.rerr = k.reads[1].err]
  /\ UNCHANGED env

OwnerFinishes ==
  /\ k.owner = "finish" /\ MayFinish(k)
  /\ k' = FinishTerminal([k EXCEPT !.owner = "gone"])
  /\ UNCHANGED env

(* Something for the owner to do.                                          *)
OwnerReady ==
  \/ k.owner = "frames"
  \/ k.owner = "select" /\ (\/ Claimed(k) \/ k.queued \/ k.results # <<>>
                            \/ k.reads # <<>>)
  \/ k.owner = "finish" /\ MayFinish(k)

-----------------------------------------------------------------------------
(* The writer: takes a job, writes it, hands the result over.              *)
WriterTakes ==
  /\ k.writer = "idle" /\ k.jobs # <<>>
  /\ k' = [k EXCEPT !.writer = "write", !.job = Head(k.jobs),
                    !.jobs = Tail(@)]
  /\ UNCHANGED env

WriterWrites(ok) ==
  /\ k.writer = "write" /\ (ok \/ Claimed(k) \/ env.max.drop)
  /\ k' = [k EXCEPT !.writer = "send", !.werr = ~ok]
  /\ env' = IF ok /\ k.job # None
            THEN [env EXCEPT !.wire = Append(@, k.job.id)] ELSE env

WriterSends ==
  /\ k.writer = "send" /\ Len(k.results) < WriteQueueSize
  /\ k' = [k EXCEPT !.results = Append(@, [job |-> k.job, err |-> k.werr]),
                    !.job = None,
                    !.writer = IF k.werr THEN "gone" ELSE "idle"]
  /\ UNCHANGED env

WriterTerminal ==
  /\ k.writer \in {"idle", "send"} /\ Claimed(k)
  /\ k' = [k EXCEPT !.writer = "gone", !.job = None]
  /\ UNCHANGED env

WriterReady ==
  \/ k.writer = "idle" /\ (k.jobs # <<>> \/ Claimed(k))
  \/ k.writer = "write"
  \/ k.writer = "send" /\ (Claimed(k) \/ Len(k.results) < WriteQueueSize)

(* The reader.                                                             *)
ReaderReads(err) ==
  /\ k.reader = "read"
  /\ k.in # <<>> \/ err
  /\ err => Claimed(k) \/ env.max.drop
  /\ k' = [k EXCEPT !.reader = IF err THEN "send err" ELSE "send",
                    !.rdata = k.in, !.in = <<>>]
  /\ UNCHANGED env

ReaderSends ==
  /\ k.reader \in {"send", "send err"} /\ k.reads = <<>>
  /\ k' = [k EXCEPT !.reads = <<[data |-> k.rdata,
                                 err |-> k.reader = "send err"]>>,
                    !.rdata = <<>>,
                    !.reader = IF k.reader = "send" THEN "read" ELSE "gone"]
  /\ UNCHANGED env

ReaderTerminal ==
  /\ k.reader \in {"read", "send", "send err"} /\ Claimed(k)
  /\ k' = [k EXCEPT !.reader = "gone", !.rdata = <<>>]
  /\ UNCHANGED env

BlockingWake(K) == [K EXCEPT !.queued = TRUE]

-----------------------------------------------------------------------------
BlockingNext ==
  \/ BStart \/ BootstrapFails
  \/ (\E initial, err \in BOOLEAN : BootstrapDone(initial, err))
  \/ StartFinishes \/ StartReturns
  \/ BClose \/ CloseFinishes \/ CloseReturns
  \/ HandleFrames \/ OwnerTerminal \/ OwnerSubmission \/ OwnerWriteResult
  \/ OwnerReadResult \/ OwnerFinishes
  \/ WriterTakes \/ (\E ok \in BOOLEAN : WriterWrites(ok)) \/ WriterSends
  \/ WriterTerminal
  \/ (\E err \in BOOLEAN : ReaderReads(err)) \/ ReaderSends \/ ReaderTerminal
  \/ \E n \in env.max.sizes : TrySubmit(n, BlockingWake(Submitted(n)))
  \/ TakeSignal \/ TakeEvent \/ Snapshot
  \/ \E f \in env.max.frames : k.state \in {"boot", "ready"} /\ PeerSends(f)
===============================================================================
