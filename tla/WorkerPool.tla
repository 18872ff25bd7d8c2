----------------------------- MODULE WorkerPool -----------------------------
(***************************************************************************)
(* The master's side of a pool of cluster workers: MasterEndpoint of       *)
(* NodeMultiCoreCPUBase and NodeClusterBase, with the readiness handshake  *)
(* of BidirectionalWorkerRouter and the calls of WorkerEndpoint.start().   *)
(* Workers crash at any time, connect late or never, and are replaced; the *)
(* pool is shut down by gracefulExit(), also after too many failures.      *)
(*                                                                         *)
(* An action is one event of the master's event loop with the microtasks   *)
(* and the process.nextTick() callbacks it leads to: cluster.fork() and    *)
(* its "fork" event, or the arrival of rpc.connectToEndpoint and the rest  *)
(* of the "fork" handler after its await.                                  *)
(***************************************************************************)
EXTENDS Naturals, FiniteSets, Functions

CONSTANTS
    Workers,        \* bound: the workers that can ever be forked; cluster's IDs are not reused
    PersistentIDs,  \* one for each worker of the initial loop of start()
    MaxFailures,    \* failures in the last two minutes that end the pool
    MayExit,        \* whether the user or an upgrade calls gracefulExit()
    NONE            \* no entry

(* The entries of objWorkerIDToState. *)
States == [client : BOOLEAN, ready : BOOLEAN, exited : BOOLEAN, persistentID : PersistentIDs]

ASSUME PoolConstantsOK ==
    /\ IsFiniteSet(Workers)
    /\ MaxFailures \in Nat
    /\ MayExit \in BOOLEAN
    /\ NONE \notin Workers \union PersistentIDs \union States

VARIABLES
    master,         \* the master process: "stopped" and "failed" are process.exit(0), (1)
    bShuttingDown,
    exitStage,      \* how far gracefulExit() has come
    failures,       \* length of arrFailureTimestamps
    proc,           \* the worker processes
    workerIDToState, \* objWorkerIDToState
    persistentIDToWorkerID, \* objPersistentWorkerIDToWorkerID
    sessions,       \* the router's _objSessions
    waiting,        \* the router's _objWaitForWorkerReadyPromises
    timers,         \* the readiness timeouts that are set
    replacing,      \* the exited workers whose "exit" handler sleeps
    unknownReady    \* workers whose workerServicesReady() sleeps 10 seconds

masterVars == <<master, bShuttingDown, exitStage, failures>>
stateVars == <<workerIDToState, persistentIDToWorkerID>>
routerVars == <<sessions, waiting, timers>>
vars == <<masterVars, proc, stateVars, routerVars, replacing, unknownReady>>

TypeOK ==
    /\ master \in {"idle", "up", "stopped", "failed", "crashed"}
    /\ bShuttingDown \in BOOLEAN
    /\ exitStage \in {"no", "waiting", "stopping"}
    /\ failures \in Nat
    /\ proc \in [Workers -> {"none", "starting", "connected", "serving", "exited"}]
    /\ workerIDToState \in [Workers -> States \union {NONE}]
    /\ persistentIDToWorkerID \in [PersistentIDs -> Workers \union {NONE}]
    /\ sessions \subseteq Workers /\ waiting \subseteq Workers /\ timers \subseteq Workers
    /\ replacing \in [Workers -> PersistentIDs \union {NONE}]
    /\ unknownReady \subseteq Workers

Init ==
    /\ master = "idle" /\ bShuttingDown = FALSE /\ exitStage = "no" /\ failures = 0
    /\ proc = [w \in Workers |-> "none"]
    /\ workerIDToState = [w \in Workers |-> NONE]
    /\ persistentIDToWorkerID = [p \in PersistentIDs |-> NONE]
    /\ sessions = {} /\ waiting = {} /\ timers = {}
    /\ replacing = [w \in Workers |-> NONE]
    /\ unknownReady = {}

-----------------------------------------------------------------------------

Unused == {w \in Workers : proc[w] = "none"}
Running == {w \in Workers : proc[w] \in {"starting", "connected", "serving"}}
Known(w) == workerIDToState[w] # NONE
Sleeping == {w \in Workers : replacing[w] # NONE}

(* cluster.fork() for each persistent ID in f, and the "fork" handler up   *)
(* to the await of the worker's readiness in addWorker().                  *)
Fork(f) ==
    LET new == Range(f)
    IN  /\ proc' = [w \in Workers |-> IF w \in new THEN "starting" ELSE proc[w]]
        /\ persistentIDToWorkerID' =
             [p \in PersistentIDs |-> IF p \in DOMAIN f THEN f[p] ELSE persistentIDToWorkerID[p]]
        /\ workerIDToState' =
             [w \in Workers |->
                IF w \in new
                  THEN [client |-> FALSE, ready |-> FALSE, exited |-> FALSE,
                        persistentID |-> CHOOSE p \in DOMAIN f : f[p] = w]
                  ELSE workerIDToState[w]]
        /\ sessions' = sessions \union new
        /\ waiting' = waiting \union new
        /\ timers' = timers \union new

(* start() *)
Start ==
    /\ master = "idle"
    /\ master' = "up"
    /\ \E f \in Injection(PersistentIDs, Unused) : Fork(f)
    /\ UNCHANGED <<bShuttingDown, exitStage, failures, replacing, unknownReady>>

-----------------------------------------------------------------------------
(* A worker becomes ready *)

(* Mutant: the client of the worker is not made. *)
MakeClientLater(w) == UNCHANGED workerIDToState

(* connectionIDToSingletonClient() for a worker that has connected. *)
MakeClient(w) == workerIDToState' = [workerIDToState EXCEPT ![w].client = TRUE]

(* rpc.connectToEndpoint arrives.  The "fork" handler goes on: the timeout *)
(* is cleared and the client made.  A worker whose entry is gone makes the *)
(* handler throw, which ends the process.                                  *)
ConnectToEndpoint(w) ==
    /\ master = "up" /\ proc[w] = "starting"
    /\ w \in sessions
    /\ proc' = [proc EXCEPT ![w] = "connected"]
    /\ timers' = timers \ {w}
    /\ \/ /\ Known(w)
          /\ MakeClient(w)
          /\ UNCHANGED master
       \/ /\ ~Known(w)
          /\ master' = "failed"
          /\ UNCHANGED workerIDToState
    /\ UNCHANGED <<bShuttingDown, exitStage, failures, persistentIDToWorkerID, sessions,
                   waiting, replacing, unknownReady>>

(* workerServicesReady() of a worker the master knows. *)
WorkerServicesReady(w) ==
    /\ master = "up" /\ proc[w] = "connected" /\ w \in sessions
    /\ proc' = [proc EXCEPT ![w] = "serving"]
    /\ \/ /\ Known(w)
          /\ workerIDToState' = [workerIDToState EXCEPT ![w].ready = TRUE]
          /\ UNCHANGED unknownReady
       \/ /\ ~Known(w)
          /\ unknownReady' = unknownReady \union {w}
          /\ UNCHANGED workerIDToState
    /\ UNCHANGED <<masterVars, persistentIDToWorkerID, routerVars, replacing>>

(* After the 10 seconds: the worker's entry is there, or all are marked.   *)
WorkerServicesReadyRetry(w) ==
    /\ master = "up" /\ w \in unknownReady
    /\ unknownReady' = unknownReady \ {w}
    /\ workerIDToState' =
         [v \in Workers |->
            IF Known(v) /\ (v = w \/ ~Known(w)) THEN [workerIDToState[v] EXCEPT !.ready = TRUE]
                                                ELSE workerIDToState[v]]
    /\ UNCHANGED <<masterVars, proc, persistentIDToWorkerID, routerVars, replacing>>

(* The readiness timeout.  It rejects the promise addWorker() awaits, and  *)
(* the "fork" handler ends the process; once onConnectionEnded() has       *)
(* deleted the promise, the callback throws a TypeError nobody catches.    *)
ReadyTimeout(w) ==
    /\ master = "up" /\ w \in timers
    /\ timers' = timers \ {w}
    /\ master' = IF w \in waiting THEN "failed" ELSE "crashed"
    /\ UNCHANGED <<bShuttingDown, exitStage, failures, proc, stateVars, sessions, waiting,
                   replacing, unknownReady>>

-----------------------------------------------------------------------------
(* A worker is lost *)

OnConnectionEnded(w) ==
    /\ sessions' = sessions \ {w}
    /\ waiting' = waiting \ {w}

(* The worker emits "error", or a message of it cannot be handled: the     *)
(* session ends and the process is killed, which it notices later.         *)
DropWorker(w) ==
    /\ master = "up" /\ w \in Running /\ w \in sessions
    /\ OnConnectionEnded(w)
    /\ UNCHANGED <<masterVars, proc, stateVars, timers, replacing, unknownReady>>

(* Mutant: the entries of workers that are not ready are kept. *)
BeginGracefulExitKeeps ==
    /\ bShuttingDown' = TRUE
    /\ exitStage' = "waiting"
    /\ workerIDToState' =
         [w \in Workers |->
            IF Known(w) /\ ~workerIDToState[w].ready THEN workerIDToState[w] ELSE NONE]

(* gracefulExit() up to its first await: workers that are ready are sent a *)
(* notification, and every entry is deleted, those because rpc() resolves  *)
(* as soon as a notification is sent.                                      *)
BeginGracefulExit ==
    /\ bShuttingDown' = TRUE
    /\ exitStage' = "waiting"
    /\ workerIDToState' = [w \in Workers |-> NONE]

(* Mutant: exited is not set. *)
MarkedExitedNot(w) == workerIDToState

MarkedExited(w) ==
    [workerIDToState EXCEPT ![w] = IF Known(w) THEN [@ EXCEPT !.exited = TRUE] ELSE @]

(* Mutant: the replacement is for the worker's ID. *)
ScheduleReplacementOfWorker(w) == replacing' = [replacing EXCEPT ![w] = w]

(* Mutant: the replacement may get another persistent ID. *)
ScheduleReplacementAny(w) ==
    \E p \in PersistentIDs : replacing' = [replacing EXCEPT ![w] = p]

(* The sleep of the "exit" handler, with the persistent ID it has read.    *)
(* While the pool is up every running worker has its entry.  Without one   *)
(* there would be no ID to read, and the default of _addWorker()'s         *)
(* parameter would have it fork a worker with an ID of its own.            *)
ScheduleReplacement(w) ==
    replacing' = [replacing EXCEPT ![w] = IF Known(w) THEN workerIDToState[w].persistentID
                                                      ELSE NONE]

(* The worker's "exit" event: the router's handler and the master's.  Of   *)
(* the failures, those longer ago than two minutes are forgotten, and all  *)
(* of them in the first 20 seconds.  Bound: a worker exits while the pool  *)
(* is up only if Workers has one left to replace it.                       *)
WorkerExit(w) ==
    /\ master = "up" /\ w \in Running
    /\ ~bShuttingDown => Cardinality(Unused) > Cardinality(Sleeping)
    /\ proc' = [proc EXCEPT ![w] = "exited"]
    /\ OnConnectionEnded(w)
    /\ failures' \in 0 .. (failures + 1)
    /\ \/ /\ bShuttingDown
          /\ workerIDToState' = MarkedExited(w)
          /\ UNCHANGED <<bShuttingDown, exitStage, replacing>>
       \/ /\ ~bShuttingDown /\ failures' > MaxFailures
          /\ BeginGracefulExit
          /\ UNCHANGED replacing
       \/ /\ ~bShuttingDown /\ failures' <= MaxFailures
          /\ workerIDToState' = MarkedExited(w)
          /\ ScheduleReplacement(w)
          /\ UNCHANGED <<bShuttingDown, exitStage>>
    /\ UNCHANGED <<master, persistentIDToWorkerID, timers, unknownReady>>

(* Mutant: the worker that has the persistent ID is not looked at. *)
CanReplaceAlways(p) == TRUE

(* _addWorker(): not when a worker that has not exited has the persistent  *)
(* ID.  When that worker's entry is gone reading it throws, to the same    *)
(* effect.                                                                 *)
CanReplace(p) ==
    LET existing == persistentIDToWorkerID[p]
    IN  Known(existing) /\ workerIDToState[existing].exited

(* The sleep of the "exit" handler is over. *)
Replace(w) ==
    /\ master = "up" /\ replacing[w] # NONE
    /\ replacing' = [replacing EXCEPT ![w] = NONE]
    /\ \/ /\ CanReplace(replacing[w])
          /\ \E f \in [{replacing[w]} -> Unused] : Fork(f)
       \/ /\ ~CanReplace(replacing[w])
          /\ UNCHANGED <<proc, stateVars, routerVars>>
    /\ UNCHANGED <<masterVars, unknownReady>>

-----------------------------------------------------------------------------
(* The pool ends *)

GracefulExit ==
    /\ master = "up" /\ MayExit /\ ~bShuttingDown
    /\ BeginGracefulExit
    /\ UNCHANGED <<master, failures, proc, persistentIDToWorkerID, routerVars, replacing,
                   unknownReady>>

(* "[Master] All workers have exited.": after 3 seconds, and polling every *)
(* 2 seconds, no entry of a worker that has not exited is left.  The 4     *)
(* hour timeout cannot come before, as no entry is ever left.              *)
AllWorkersExited ==
    /\ master = "up" /\ exitStage = "waiting"
    /\ \A w \in Workers : Known(w) => workerIDToState[w].exited
    /\ exitStage' = "stopping"
    /\ UNCHANGED <<master, bShuttingDown, failures, proc, stateVars, routerVars, replacing,
                   unknownReady>>

(* _stopServices() has returned. *)
ExitMaster ==
    /\ master = "up" /\ exitStage = "stopping"
    /\ master' = "stopped"
    /\ UNCHANGED <<bShuttingDown, exitStage, failures, proc, stateVars, routerVars, replacing,
                   unknownReady>>

Next ==
    \/ Start
    \/ \E w \in Workers :
         \/ ConnectToEndpoint(w)
         \/ WorkerServicesReady(w)
         \/ WorkerServicesReadyRetry(w)
         \/ ReadyTimeout(w)
         \/ DropWorker(w)
         \/ WorkerExit(w)
         \/ Replace(w)
    \/ GracefulExit
    \/ AllWorkersExited
    \/ ExitMaster

Spec == Init /\ [][Next]_vars

(* Timers run out.  A worker may crash or hang, so nothing is assumed of   *)
(* the actions that depend on one.                                         *)
Fairness ==
    /\ \A w \in Workers : WF_vars(Replace(w))
    /\ WF_vars(AllWorkersExited)
    /\ WF_vars(ExitMaster)

FairSpec == Spec /\ Fairness

-----------------------------------------------------------------------------

IsUp == master = "up" /\ ~bShuttingDown

Holders(p) == {w \in Running : Known(w) /\ workerIDToState[w].persistentID = p}
Replacements(p) == {w \in Workers : replacing[w] = p}

(* Each persistent ID has exactly one worker that runs or one replacement  *)
(* under way, over any number of crashes: no slot of the pool is lost and  *)
(* no two workers share an identity.                                       *)
OneWorkerPerPersistentID ==
    IsUp => \A p \in PersistentIDs :
              Cardinality(Holders(p)) + Cardinality(Replacements(p)) = 1

(* What MasterEndpoint calls round robin and broadcast on, the client of   *)
(* an entry marked ready, is never null: not even "going berserk and       *)
(* marking all as ready" can mark an entry whose worker has not connected. *)
ReadyHasClient ==
    \A w \in Workers : Known(w) /\ workerIDToState[w].ready => workerIDToState[w].client

(* The race workerServicesReady() suspects, a worker that reports ready    *)
(* with no entry of its own, exists only once gracefulExit() has begun.    *)
UnknownOnlyAtExit == unknownReady # {} => bShuttingDown

(* No worker is forked once gracefulExit() has begun, also by an "exit"    *)
(* handler that looked at bShuttingDown before its sleep.                  *)
NoForkAtExit ==
    [][bShuttingDown => \A w \in Workers : proc[w] = "none" => proc'[w] = "none"]_vars

(* A crashed worker is replaced, unless the pool ends or the master dies.  *)
SlotRefilled ==
    \A p \in PersistentIDs :
      (IsUp /\ Holders(p) = {}) ~> (Holders(p) # {} \/ ~IsUp)

(* gracefulExit() comes to an end, whatever the workers do. *)
ExitEnds == bShuttingDown ~> master # "up"

(* "when crash have no side effects on the master process"                 *)
(* (NodeClusterBase/README.MD:17): the process does not end by an          *)
(* exception on account of a worker.                                       *)
MasterSurvives == master # "crashed"
=============================================================================
