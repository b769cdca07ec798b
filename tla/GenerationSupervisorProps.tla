---------------------- MODULE GenerationSupervisorProps ----------------------
(***************************************************************************)
(* What the generation supervisor promises the frontend and the service.   *)
(***************************************************************************)
EXTENDS GenerationSupervisor

SupState ==
  [active : Gens \cup {None}, retiring : Gens \cup {None},
   sources : Seq(Gens), lastFactory : Factories \cup {None},
   ready : BOOLEAN, repair : {"off", "lock", "run", "backoff"},
   close : {"open", "lock", "run", "wait", "closed"},
   closeSources : Seq(Gens)]

GenState ==
  [manager : {"absent", "created", "ready", "closing", "done"},
   ready : BOOLEAN, degraded : BOOLEAN, repairable : BOOLEAN,
   factory : Factories \cup {None}, failed : BOOLEAN,
   intentional : BOOLEAN, slotRepairing : BOOLEAN,
   readyWatch : {"off", "run", "lock", "join", "remove", "end"},
   liveWatch : {"off", "run", "probed", "lock", "join", "end"},
   retire : {"off", "wait", "join", "end"}]

TokState == [gen : Gens \cup {None}, at : {"none", "live", "queued", "terminal"}]

TxState ==
  [op : {"none", "start", "rotate", "repair", "close"} \cup Watchers,
   at : {"none", "wait", "prepare", "probe", "publish", "discard",
         "retire", "join", "next"},
   gen : Gens \cup {None}, old : Gens \cup {None},
   factory : Factories \cup {None}]

CallState(own) ==
  [op : {"none", "start", "rotate"},
   at : {"idle", "lock", "run", "request", "return"},
   factory : Factories \cup {None}, cancel : BOOLEAN, ok : BOOLEAN,
   own : {own}]

(* Type invariant of the supervisor's state, its generations, the mutex    *)
(* holder, the tokens and the program counters.                            *)
TypeOK ==
  /\ sup \in SupState
  /\ gen \in [Gens -> GenState]
  /\ tok \in [Bindings -> TokState]
  /\ tx \in TxState
  /\ caller \in CallState(caller.own)
  /\ scan \in [at : {"off", "idle", "try", "done?"}, rest : Seq(Gens)]
  /\ used \in 0..MaxEvents

-----------------------------------------------------------------------------
(* At most two managers hold links at any time: "steady state owns one     *)
(* generation and rotation owns at most two", whatever fails, retires or   *)
(* is displaced while a replacement is prepared.                           *)
AtMostTwoLive == Cardinality({g \in Gens : Live(g)}) <= 2

(* No manager is leaked: one that is not Done is active, retiring, or in   *)
(* the hands of whoever holds transitions.  In particular nothing is left  *)
(* when Close returns.                                                     *)
EveryManagerIsOwned ==
  \A g \in Gens : Live(g) => g \in {sup.active, sup.retiring, tx.gen}

(* A queued token is never forgotten by the chain of coalesced signals     *)
(* manager.Ready -> watchGenerationReady -> supervisor.Ready ->            *)
(* TryNextReady: some link of it still carries the wakeup.                 *)
QueuedTokenIsSignalled ==
  \A b \in Bindings : tok[b].at = "queued" /\ ~Closing =>
    LET g == tok[b].gen
        left == IF scan.at = "done?" THEN Tail(scan.rest) ELSE scan.rest
    IN  \/ gen[g].ready /\ gen[g].readyWatch = "run"
        \/ sup.ready
        \/ g \in Range(left)

(* The active generation was built by lastFactory, the factory a repair    *)
(* will use: a rotation that is refused, or races with a failure, leaves   *)
(* no stale factory behind.                                                *)
RepairFactoryIsCurrent ==
  sup.active # None => gen[sup.active].factory = sup.lastFactory

-----------------------------------------------------------------------------
(* "A closed manager remains in the registry only while a BindReady        *)
(* terminal token is queued" (TryNextReady): while one is queued, and the  *)
(* supervisor is not shutting down, the manager is in the registry.        *)
TerminalTokenIsRegistered ==
  \A b \in Bindings : tok[b].at = "terminal" /\ ~Closing =>
    tok[b].gen \in Range(sup.sources)
=============================================================================
