----------------------------- MODULE ThreadPool -----------------------------
(***************************************************************************)
(* The main thread's side of a pool of worker threads: MasterEndpoint of   *)
(* NodeWorkerThreadsBase, what it inherits from NodeMultiCoreCPUBase       *)
(* (start(), gracefulExit(), rpcWorker(), rpcWorkersBroadcast()) and the   *)
(* readiness handshake of BidirectionalWorkerThreadRouter.                 *)
(*                                                                         *)
(* Unlike a cluster worker (WorkerPool.tla) a thread has no entry until it *)
(* is online, also when gracefulExit() has begun; when it exits before,    *)
(* nobody notices or, with an "error" event, the process ends; and an      *)
(* addWorker() whose thread exits is left waiting.                         *)
(*                                                                         *)
(* An action is one event of the main thread's loop with its microtasks.   *)
(* A rejection nobody handles is a warning (.travis.yml runs Node 10).     *)
(***************************************************************************)
EXTENDS Naturals, FiniteSets

CONSTANTS
    MaxThreads,     \* bound: the threads that can ever be started
    PoolSize,       \* threads of the initial loop of start()
    MaxFailures,    \* failures in the last two minutes that end the pool
    MaxTries,       \* times rpcWorker() sleeps for a thread that is not ready: 10
    bThrowOnError,  \* the parameter of rpcWorkersBroadcast()
    NONE            \* undefined

(* The entries of objWorkerIDToState. *)
States == [client : BOOLEAN, ready : BOOLEAN, exited : BOOLEAN]

ASSUME ThreadPoolConstantsOK ==
    /\ PoolSize \in Nat /\ MaxThreads \in Nat /\ PoolSize <= MaxThreads
    /\ MaxFailures \in Nat /\ MaxTries \in Nat
    /\ bThrowOnError \in BOOLEAN
    /\ NONE \notin Nat \union States

ThreadIDs == 1 .. MaxThreads        \* threadId counts up and is not reused
PersistentIDs == 1 .. PoolSize      \* and so does _nNextAvailablePersistentWorkerID

VARIABLES
    main,           \* the process: "stopped" and "failed" are process.exit(0), (1),
                    \* "crashed" an "error" event without a listener
    bShuttingDown,
    exitStage,      \* how far gracefulExit() has come
    failures,       \* length of arrFailureTimestamps
    thread,         \* the threads
    persistentID,   \* the nPersistentWorkerID of the _addWorker() that started a thread
    adding,         \* the _addWorker() of a thread: before its await of "online", or after
    threadState,    \* objWorkerIDToState
    persistentIDToThread, \* objPersistentWorkerIDToWorkerID
    unknownReady,   \* the calls of workerServicesReady() that sleep
    waiting,        \* the threads whose router.addWorker() awaits their readiness
    replacing,      \* the exited threads whose "exit" handler sleeps
    part,           \* the promises of a broadcast, one for each thread that was ready
    broadcast,      \* the promise of rpcWorkersBroadcast()
    rpcTo,          \* the thread rpcWorker() calls
    triesLeft,      \* its nWaitForReadyTriesLeft
    rpcWorkerState  \* how far it has come

poolVars == <<main, bShuttingDown, exitStage, failures>>
entryVars == <<threadState, persistentIDToThread, unknownReady>>
threadVars == <<thread, persistentID, adding, waiting, replacing>>
broadcastVars == <<part, broadcast>>
rpcVars == <<rpcTo, triesLeft, rpcWorkerState>>
vars == <<poolVars, entryVars, threadVars, broadcastVars, rpcVars>>

TypeOK ==
    /\ main \in {"idle", "up", "stopped", "failed", "crashed"}
    /\ bShuttingDown \in BOOLEAN
    /\ exitStage \in {"no", "waiting", "stopping"}
    /\ failures \in Nat
    /\ thread \in [ThreadIDs -> {"none", "starting", "online", "connected", "serving", "exited"}]
    /\ persistentID \in [ThreadIDs -> PersistentIDs \union {NONE}]
    /\ adding \in [ThreadIDs -> {"no", "starting", "added", "gaveUp"}]
    /\ threadState \in [ThreadIDs -> States \union {NONE}]
    /\ persistentIDToThread \in [PersistentIDs -> ThreadIDs \union {NONE}]
    /\ unknownReady \subseteq ThreadIDs
    /\ waiting \subseteq ThreadIDs
    /\ replacing \subseteq ThreadIDs
    /\ part \in [ThreadIDs -> {"none", "pending", "resolved", "stuck"}]
    /\ broadcast \in {"idle", "pending", "resolved", "rejected"}
    /\ rpcTo \in ThreadIDs \union {NONE}
    /\ triesLeft \in 0 .. MaxTries
    /\ rpcWorkerState \in {"idle", "checking", "asleep", "called", "settled"}

Init ==
    /\ main = "idle" /\ bShuttingDown = FALSE /\ exitStage = "no" /\ failures = 0
    /\ thread = [t \in ThreadIDs |-> "none"]
    /\ persistentID = [t \in ThreadIDs |-> NONE]
    /\ adding = [t \in ThreadIDs |-> "no"]
    /\ threadState = [t \in ThreadIDs |-> NONE]
    /\ persistentIDToThread = [p \in PersistentIDs |-> NONE]
    /\ unknownReady = {} /\ waiting = {} /\ replacing = {}
    /\ part = [t \in ThreadIDs |-> "none"] /\ broadcast = "idle"
    /\ rpcTo = NONE /\ triesLeft = MaxTries /\ rpcWorkerState = "idle"

-----------------------------------------------------------------------------
(* A thread starts *)

Unused == {t \in ThreadIDs : thread[t] = "none"}
NextThreadID == MaxThreads + 1 - Cardinality(Unused)
Running == {t \in ThreadIDs : thread[t] \notin {"none", "exited"}}
Known(t) == t # NONE /\ threadState[t] # NONE

(* _addWorker() up to the await of "online": the threads in new get the    *)
(* persistent IDs id.                                                      *)
StartThreads(new, id) ==
    /\ thread' = [t \in ThreadIDs |-> IF t \in new THEN "starting" ELSE thread[t]]
    /\ adding' = [t \in ThreadIDs |-> IF t \in new THEN "starting" ELSE adding[t]]
    /\ persistentID' = [t \in ThreadIDs |-> IF t \in new THEN id[t] ELSE persistentID[t]]

(* start(): none of the calls of _addWorker() is awaited. *)
Start ==
    /\ main = "idle"
    /\ main' = "up"
    /\ StartThreads(PersistentIDs, [t \in PersistentIDs |-> t])
    /\ UNCHANGED <<bShuttingDown, exitStage, failures, entryVars, waiting, replacing,
                   broadcastVars, rpcVars>>

(* "online": the thread gets its entry and its "exit" handler, and is      *)
(* added to the router, also when gracefulExit() has begun.                *)
Online(t) ==
    /\ main = "up" /\ thread[t] = "starting"
    /\ thread' = [thread EXCEPT ![t] = "online"]
    /\ \/ /\ adding[t] = "starting"
          /\ adding' = [adding EXCEPT ![t] = "added"]
          /\ threadState' = [threadState EXCEPT
               ![t] = [client |-> FALSE, ready |-> FALSE, exited |-> FALSE]]
          /\ persistentIDToThread' = [persistentIDToThread EXCEPT ![persistentID[t]] = t]
          /\ waiting' = waiting \union {t}
          /\ UNCHANGED unknownReady
       \/ /\ adding[t] = "gaveUp"
          /\ UNCHANGED <<adding, entryVars, waiting>>
    /\ UNCHANGED <<poolVars, persistentID, replacing, broadcastVars, rpcVars>>

(* 10 seconds after new Worker(): _addWorker() rejects, which nobody       *)
(* handles.  The thread may be starting, or have exited.                   *)
OnlineTimeout(t) ==
    /\ main = "up" /\ adding[t] = "starting"
    /\ adding' = [adding EXCEPT ![t] = "gaveUp"]
    /\ UNCHANGED <<poolVars, entryVars, thread, persistentID, waiting, replacing,
                   broadcastVars, rpcVars>>

(* rpc.connectToEndpoint ends the await of addWorker(), and the client is  *)
(* made.  Without the entry that throws, and the process exits.            *)
MakeClient(t) == threadState' = [threadState EXCEPT ![t].client = TRUE]

ConnectToEndpoint(t) ==
    /\ main = "up" /\ thread[t] = "online" /\ t \in waiting
    /\ thread' = [thread EXCEPT ![t] = "connected"]
    /\ waiting' = waiting \ {t}
    /\ \/ Known(t) /\ MakeClient(t) /\ UNCHANGED main
       \/ ~Known(t) /\ main' = "failed" /\ UNCHANGED threadState
    /\ UNCHANGED <<bShuttingDown, exitStage, failures, persistentIDToThread, unknownReady,
                   persistentID, adding, replacing, broadcastVars, rpcVars>>

(* The readiness timeout of 120 seconds: process.exit(1).  Once the thread *)
(* has exited the callback finds no promise and does nothing.              *)
ReadyTimeout(t) ==
    /\ main = "up" /\ t \in waiting
    /\ main' = "failed"
    /\ UNCHANGED <<bShuttingDown, exitStage, failures, entryVars, threadVars, broadcastVars,
                   rpcVars>>

MarkReady(known) ==
    threadState' = [t \in ThreadIDs |->
      IF t \in known THEN [threadState[t] EXCEPT !.ready = TRUE] ELSE threadState[t]]

(* workerServicesReady().  Without an entry, which takes a gracefulExit()  *)
(* after the thread connected, it sleeps.                                  *)
WorkerServicesReady(t) ==
    /\ main = "up" /\ thread[t] = "connected"
    /\ thread' = [thread EXCEPT ![t] = "serving"]
    /\ \/ Known(t) /\ MarkReady({t}) /\ UNCHANGED unknownReady
       \/ ~Known(t) /\ unknownReady' = unknownReady \union {t} /\ UNCHANGED threadState
    /\ UNCHANGED <<poolVars, persistentIDToThread, persistentID, adding, waiting, replacing,
                   broadcastVars, rpcVars>>

(* After the 10 seconds.  When the entry is still missing every other one  *)
(* is marked ready: that of a thread that came online since gracefulExit() *)
(* began, which may have no client.                                        *)
WorkerServicesReadyRetry(t) ==
    /\ main = "up" /\ t \in unknownReady
    /\ unknownReady' = unknownReady \ {t}
    /\ MarkReady(IF Known(t) THEN {t} ELSE {u \in ThreadIDs : Known(u)})
    /\ UNCHANGED <<poolVars, persistentIDToThread, threadVars, broadcastVars, rpcVars>>

-----------------------------------------------------------------------------
(* rpcWorkersBroadcast() *)

Callable(t) == Known(t) /\ threadState[t].ready /\ ~threadState[t].exited

BroadcastTargets == {t \in ThreadIDs : Callable(t)}

(* Bound: one broadcast.  Its promises call rpcWorker() at once, which     *)
(* finds the thread ready; without a client it throws.  Without a thread   *)
(* the broadcast resolves.                                                 *)
Broadcast ==
    /\ main = "up" /\ broadcast = "idle"
    /\ part' = [t \in ThreadIDs |-> IF t \notin BroadcastTargets THEN "none"
                                    ELSE IF threadState[t].client THEN "pending" ELSE "stuck"]
    /\ broadcast' = IF BroadcastTargets = {} THEN "resolved"
                    ELSE IF bThrowOnError /\ \E t \in ThreadIDs : part'[t] = "stuck"
                      THEN "rejected" ELSE "pending"
    /\ UNCHANGED <<poolVars, entryVars, threadVars, rpcVars>>

PartResolved(t) ==
    /\ part' = [part EXCEPT ![t] = "resolved"]
    /\ broadcast' = IF broadcast = "pending" /\ \A u \in ThreadIDs : part'[u] \in {"none", "resolved"}
                      THEN "resolved" ELSE broadcast

(* Mutant: the error is dropped. *)
PartFailedSilently(t) ==
    /\ part' = [part EXCEPT ![t] = "stuck"]
    /\ UNCHANGED broadcast

(* The catch block: fnReject() with bThrowOnError.  Without it neither     *)
(* fnReject() nor fnResolve() is called.                                   *)
PartFailed(t) ==
    /\ part' = [part EXCEPT ![t] = "stuck"]
    /\ broadcast' = IF bThrowOnError /\ broadcast = "pending" THEN "rejected" ELSE broadcast

(* The thread has registered its endpoint, which it does before it         *)
(* connects.                                                               *)
Answers(t) == thread[t] \in {"connected", "serving"}

(* The thread answers a call of the broadcast, with a result or an error.  *)
BroadcastAnswered(t) ==
    /\ main = "up" /\ Answers(t) /\ part[t] = "pending"
    /\ PartResolved(t) \/ PartFailed(t)
    /\ UNCHANGED <<poolVars, entryVars, threadVars, rpcVars>>

-----------------------------------------------------------------------------
(* rpcWorker() *)

(* Bound: one call of rpcWorker(), to any thread. *)
RpcWorker(t) ==
    /\ main = "up" /\ rpcWorkerState = "idle"
    /\ rpcTo' = t /\ rpcWorkerState' = "checking"
    /\ UNCHANGED <<poolVars, entryVars, threadVars, broadcastVars, triesLeft>>

(* Mutant: the loop does not count. *)
MustWaitForEver(t) == Known(t) /\ ~threadState[t].ready

MustWait(t) == Known(t) /\ ~threadState[t].ready /\ ~threadState[t].exited /\ triesLeft > 0

(* The loop of rpcWorker() and the conditions after it.  They look the     *)
(* entry up again after every sleep.  Without a client it throws.          *)
RpcWorkerChecks ==
    /\ main = "up" /\ rpcWorkerState \in {"checking", "asleep"}
    /\ \/ /\ MustWait(rpcTo)
          /\ rpcWorkerState' = "asleep"
          /\ triesLeft' = triesLeft - 1
       \/ /\ ~MustWait(rpcTo)
          /\ rpcWorkerState' = IF Callable(rpcTo) /\ threadState[rpcTo].client
                                 THEN "called" ELSE "settled"
          /\ UNCHANGED triesLeft
    /\ UNCHANGED <<poolVars, entryVars, threadVars, broadcastVars, rpcTo>>

RpcWorkerAnswered ==
    /\ main = "up" /\ rpcWorkerState = "called" /\ Answers(rpcTo)
    /\ rpcWorkerState' = "settled"
    /\ UNCHANGED <<poolVars, entryVars, threadVars, broadcastVars, rpcTo, triesLeft>>

-----------------------------------------------------------------------------
(* A thread ends *)

(* gracefulExit() up to its first await: every entry is deleted, of the    *)
(* threads that are ready after a notification to exit.                    *)
BeginGracefulExit ==
    /\ bShuttingDown' = TRUE
    /\ exitStage' = "waiting"
    /\ threadState' = [t \in ThreadIDs |-> NONE]

(* Mutant: exited is not set. *)
MarkedExitedNot(t) == threadState

MarkedExited(t) ==
    [threadState EXCEPT ![t] = IF Known(t) THEN [@ EXCEPT !.exited = TRUE] ELSE @]

(* Mutant: the calls a thread leaves unanswered are not rejected. *)
CallsKept(t) == UNCHANGED <<broadcastVars, rpcVars>>

(* rejectAllPromises() of the thread's transport. *)
CallsRejected(t) ==
    /\ IF part[t] = "pending" THEN PartFailed(t) ELSE UNCHANGED broadcastVars
    /\ rpcWorkerState' = IF rpcTo = t /\ rpcWorkerState = "called" THEN "settled"
                                                                   ELSE rpcWorkerState
    /\ UNCHANGED <<rpcTo, triesLeft>>

(* Nobody listens: an "exit" event goes unnoticed, an "error" event ends   *)
(* the process.                                                            *)
NobodyListens == main' \in {"up", "crashed"} /\ UNCHANGED <<bShuttingDown, exitStage, failures>>

(* The thread exits before it is online. *)
ExitBeforeOnline(t) ==
    /\ main = "up" /\ thread[t] = "starting"
    /\ thread' = [thread EXCEPT ![t] = "exited"]
    /\ NobodyListens
    /\ UNCHANGED <<entryVars, persistentID, adding, waiting, replacing,
                   broadcastVars, rpcVars>>

(* "exit" of a thread that was added: the handlers of _addWorker(), of the *)
(* router and of the transport.  Bound: while the pool is up it exits only *)
(* if ThreadIDs has one left to replace it.                                *)
ThreadExit(t) ==
    /\ main = "up" /\ t \in Running /\ adding[t] = "added"
    /\ ~bShuttingDown => Cardinality(Unused) > Cardinality(replacing)
    /\ thread' = [thread EXCEPT ![t] = "exited"]
    /\ waiting' = waiting \ {t}
    /\ failures' \in 0 .. (failures + 1)
    /\ \/ /\ bShuttingDown
          /\ threadState' = MarkedExited(t)
          /\ UNCHANGED <<bShuttingDown, exitStage, replacing>>
       \/ /\ ~bShuttingDown /\ failures' > MaxFailures
          /\ BeginGracefulExit
          /\ UNCHANGED replacing
       \/ /\ ~bShuttingDown /\ failures' <= MaxFailures
          /\ threadState' = MarkedExited(t)
          /\ replacing' = replacing \union {t}
          /\ UNCHANGED <<bShuttingDown, exitStage>>
    /\ CallsRejected(t)
    /\ UNCHANGED <<main, persistentIDToThread, unknownReady, persistentID, adding>>

(* A thread whose _addWorker() gave up. *)
ExitUnheard(t) ==
    /\ main = "up" /\ t \in Running \ {u \in ThreadIDs : thread[u] = "starting"}
    /\ adding[t] = "gaveUp"
    /\ thread' = [thread EXCEPT ![t] = "exited"]
    /\ NobodyListens
    /\ UNCHANGED <<entryVars, persistentID, adding, waiting, replacing,
                   broadcastVars, rpcVars>>

(* Mutant: the thread that has the persistent ID is not looked at. *)
CanReplaceAlways(p) == TRUE

(* _addWorker() for a persistent ID: when the entry of the thread that has *)
(* it is gone, reading it throws.                                          *)
CanReplace(p) ==
    LET existing == persistentIDToThread[p]
    IN  Known(existing) /\ threadState[existing].exited

(* The sleep of the "exit" handler is over. *)
Replace(t) ==
    /\ main = "up" /\ t \in replacing
    /\ replacing' = replacing \ {t}
    /\ \/ /\ CanReplace(persistentID[t])
          /\ StartThreads({NextThreadID}, [u \in {NextThreadID} |-> persistentID[t]])
       \/ /\ ~CanReplace(persistentID[t])
          /\ UNCHANGED <<thread, persistentID, adding>>
    /\ UNCHANGED <<poolVars, entryVars, waiting, broadcastVars, rpcVars>>

-----------------------------------------------------------------------------
(* The pool ends *)

GracefulExit ==
    /\ main = "up" /\ ~bShuttingDown
    /\ BeginGracefulExit
    /\ UNCHANGED <<main, failures, persistentIDToThread, unknownReady, threadVars, broadcastVars,
                   rpcVars>>

AllWorkersExited ==
    /\ main = "up" /\ exitStage = "waiting"
    /\ \A t \in ThreadIDs : Known(t) => threadState[t].exited
    /\ exitStage' = "stopping"
    /\ UNCHANGED <<main, bShuttingDown, failures, entryVars, threadVars, broadcastVars, rpcVars>>

(* Mutant: no timeout is set. *)
GracefulExitNeverTimesOut == FALSE /\ UNCHANGED vars

(* After 4 hours.  A thread that comes online when the others have been    *)
(* told to exit gets an entry, and nobody tells it.                        *)
GracefulExitTimeout ==
    /\ main = "up" /\ exitStage = "waiting"
    /\ main' = "failed"
    /\ UNCHANGED <<bShuttingDown, exitStage, failures, entryVars, threadVars, broadcastVars,
                   rpcVars>>

(* _stopServices() has returned. *)
ExitMain ==
    /\ main = "up" /\ exitStage = "stopping"
    /\ main' = "stopped"
    /\ UNCHANGED <<bShuttingDown, exitStage, failures, entryVars, threadVars, broadcastVars,
                   rpcVars>>

Next ==
    \/ Start
    \/ \E t \in ThreadIDs :
         \/ Online(t)
         \/ OnlineTimeout(t)
         \/ ConnectToEndpoint(t)
         \/ ReadyTimeout(t)
         \/ WorkerServicesReady(t)
         \/ WorkerServicesReadyRetry(t)
         \/ BroadcastAnswered(t)
         \/ RpcWorker(t)
         \/ ExitBeforeOnline(t)
         \/ ThreadExit(t)
         \/ ExitUnheard(t)
         \/ Replace(t)
    \/ Broadcast
    \/ RpcWorkerChecks
    \/ RpcWorkerAnswered
    \/ GracefulExit
    \/ AllWorkersExited
    \/ GracefulExitTimeout
    \/ ExitMain

Spec == Init /\ [][Next]_vars

(* Timers run out, and the methods of a thread that runs return.  Nobody   *)
(* need call, and a thread may start, connect and exit when it wants.      *)
Fairness ==
    /\ \A t \in ThreadIDs : /\ WF_vars(Replace(t))
                            /\ WF_vars(BroadcastAnswered(t))
    /\ WF_vars(RpcWorkerChecks) /\ WF_vars(RpcWorkerAnswered)
    /\ WF_vars(AllWorkersExited) /\ WF_vars(GracefulExitTimeout) /\ WF_vars(ExitMain)

FairSpec == Spec /\ Fairness

-----------------------------------------------------------------------------

IsUp == main = "up" /\ ~bShuttingDown

Of(p) == {t \in ThreadIDs : persistentID[t] = p}
Holders(p) == {t \in Of(p) : adding[t] = "starting" \/ (adding[t] = "added" /\ thread[t] # "exited")}
GivenUp(p) == {t \in Of(p) : adding[t] = "gaveUp"}

(* While the pool is up each persistent ID has exactly one thread that is  *)
(* being added or was and runs, or one replacement under way; or it was    *)
(* lost, once, to a thread that did not come online in 10 seconds.  So no  *)
(* two threads ever share an identity, and nothing else loses a slot.      *)
OneThreadPerPersistentID ==
    IsUp => \A p \in PersistentIDs :
              Cardinality(Holders(p)) + Cardinality(Of(p) \intersect replacing)
                + Cardinality(GivenUp(p)) = 1

(* Broadcast, round robin and rpcWorker() use the client of an entry that  *)
(* is ready: it is there until gracefulExit() begins, however threads that *)
(* report, exit and are replaced interleave.  Later workerServicesReady()  *)
(* may mark an entry that has none.                                        *)
ReadyHasClient ==
    ~bShuttingDown =>
      \A t \in ThreadIDs : Known(t) /\ threadState[t].ready => threadState[t].client

(* No thread is started once gracefulExit() has begun, also by an "exit"   *)
(* handler that looked at bShuttingDown before its sleep.                  *)
NoStartAtExit ==
    [][bShuttingDown => \A t \in ThreadIDs : thread[t] = "none" => thread'[t] = "none"]_vars

(* gracefulExit() ends, whichever threads come online meanwhile. *)
ExitEnds == bShuttingDown ~> main # "up"

(* With bThrowOnError a broadcast settles, whichever of its threads exit,  *)
(* fail or are shut down before they answer.                               *)
BroadcastThrowsOrResolves ==
    bThrowOnError => (broadcast = "pending" ~> (broadcast # "pending" \/ main # "up"))

(* rpcWorker() settles though its thread never becomes ready, exits during *)
(* the sleep or the call, or loses its entry to gracefulExit().            *)
RpcWorkerSettles ==
    rpcWorkerState = "checking" ~> (rpcWorkerState = "settled" \/ main # "up")
=============================================================================
