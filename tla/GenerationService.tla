-------------------------- MODULE GenerationService --------------------------
(***************************************************************************)
(* The Middle-End service: the generation coordinator                      *)
(* (generation_coordinator.go) driving the generation supervisor, and the  *)
(* ordered shutdown of both (service.go).  The coordinator is the only     *)
(* caller of Start and Rotate and is joined before the supervisor closes.  *)
(*                                                                         *)
(* Artifact snapshots that sameArtifactContent cannot tell apart build the *)
(* same factory, so a snapshot is a member of Factories.  reconcileMu      *)
(* serialises attempts, which makes one attempt one call of the supervisor.*)
(***************************************************************************)
EXTENDS GenerationSupervisorProps

CONSTANT FirstSnapshot     \* the content fetched first; contents are alike

ASSUME FirstSnapshotAssumption == FirstSnapshot \in Factories

(* generationCoordinatorState and the service's shutdown.                  *)
cc == caller.own

NewCoordinator == [applied |-> None, pending |-> None, closing |-> FALSE]

ServiceInit == InitWith(NewCoordinator)

(* reconcile up to setPending: a retained snapshot is retried before       *)
(* anything is fetched; otherwise the refresh has to bring new content.    *)
NeedsApply(f) ==
  /\ ~cc.closing /\ Idle
  /\ \/ cc.pending = f /\ UNCHANGED used
     \/ /\ cc.pending = None /\ f # cc.applied
        /\ IF cc.applied = None THEN f = FirstSnapshot /\ UNCHANGED used ELSE Counted

(* applyPending up to the supervisor: Start until a generation was         *)
(* applied, then Rotate ...                                                *)
Reconcile(f) ==
  /\ NeedsApply(f)
  /\ Call(IF cc.applied = None THEN "start" ELSE "rotate", f, [cc EXCEPT !.pending = f])

(* ... unless the factory cannot be built.                                 *)
BuildFails(f) ==
  /\ cc.pending = None
  /\ NeedsApply(f)
  /\ caller' = [caller EXCEPT !.own.pending = f]
  /\ UNCHANGED <<sup, gen, tok, tx, scan>>

(* applyPending after the supervisor: a failure keeps the snapshot.        *)
Reconciled ==
  CallReturns(IF caller.ok THEN [cc EXCEPT !.applied = cc.pending, !.pending = None]
              ELSE cc)

(* Service.Close: the coordinator's Close cancels its operations ...       *)
ServiceClose ==
  /\ ~cc.closing
  /\ caller' = [caller EXCEPT !.own.closing = TRUE, !.cancel = ~Idle]
  /\ UNCHANGED <<sup, gen, tok, tx, scan, used>>

(* ... and joins them, and only then the supervisor is closed.             *)
SupervisorClose ==
  /\ cc.closing /\ Idle
  /\ CloseBegin

ServiceNext ==
  \/ Internal
  \/ \E f \in Factories : Reconcile(f) \/ BuildFails(f)
  \/ Reconciled \/ ServiceClose \/ SupervisorClose

(* The coordinator's loop retries a pending snapshot for ever.             *)
ServiceSpec ==
  /\ ServiceInit /\ [][ServiceNext]_vars
  /\ Fairness
  /\ WF_vars(cc.pending # None /\ \E f \in Factories : Reconcile(f))
  /\ WF_vars(Reconciled) /\ WF_vars(SupervisorClose)

-----------------------------------------------------------------------------
(* Between two attempts, what the coordinator believes applied is what the *)
(* supervisor repairs from: Start or Rotate never reports success for a    *)
(* generation that was built from other artifacts.                         *)
AppliedIsCurrent ==
  cc.applied # None /\ Idle => sup.lastFactory = cc.applied

(* Shutdown terminates: Service.Close cannot deadlock on transitions, on   *)
(* a rotation that waits for a drain, or on a worker.                      *)
ShutdownCompletes == cc.closing ~> Closed

(* An outage ends: after every loss of the active generation, admission    *)
(* comes back unless the service closes.                                   *)
OutageEnds ==
  (sup.lastFactory # None /\ ~Healthy(sup.active)) ~> (Healthy(sup.active) \/ cc.closing)

(* New artifacts are eventually applied, however often Start, Rotate or    *)
(* the generation under rotation fail in between.                          *)
PendingIsApplied == (cc.pending # None) ~> (cc.pending = None \/ cc.closing)
=============================================================================
