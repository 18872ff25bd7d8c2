--------------------------- MODULE WorkerPool_proofs ---------------------------
(***************************************************************************)
(* Proofs about WorkerPool, for any workers, any number of crashes and any *)
(* limit on them: types, clients that are there, identities that are       *)
(* neither lost nor shared, and no fork once gracefulExit() has begun.     *)
(***************************************************************************)
EXTENDS WorkerPool, FiniteSetTheorems, TLAPS

(* Before start() there is nothing. *)
IdleOK ==
    master = "idle" =>
      /\ ~bShuttingDown /\ unknownReady = {}
      /\ \A w \in Workers : proc[w] = "none" /\ workerIDToState[w] = NONE /\ replacing[w] = NONE

(* gracefulExit() deletes every entry, and no worker is forked after it.   *)
(* Until then the master knows every worker that has reported ready.       *)
ExitOK ==
    /\ master # "idle" => \A p \in PersistentIDs : persistentIDToWorkerID[p] \in Workers
    /\ bShuttingDown => \A w \in Workers : ~Known(w)
    /\ unknownReady # {} => bShuttingDown

(* The client is made before the entry can be marked ready. *)
ClientOK ==
    \A w \in Workers : Known(w) =>
      /\ proc[w] \in {"connected", "serving"} => workerIDToState[w].client
      /\ workerIDToState[w].ready => workerIDToState[w].client

(* While the pool is up the worker last forked for a persistent ID runs,   *)
(* or has exited and is the one whose "exit" handler will replace it.      *)
SlotsOK ==
    ~bShuttingDown =>
      /\ \A w \in Running :
           /\ Known(w) /\ ~workerIDToState[w].exited
           /\ persistentIDToWorkerID[workerIDToState[w].persistentID] = w
      /\ \A w \in Sleeping :
           /\ proc[w] = "exited"
           /\ Known(w) /\ workerIDToState[w].exited
           /\ workerIDToState[w].persistentID = replacing[w]
           /\ persistentIDToWorkerID[replacing[w]] = w
      /\ master # "idle" =>
           \A p \in PersistentIDs :
             \E h \in Workers :
               /\ persistentIDToWorkerID[p] = h
               /\ Known(h) /\ workerIDToState[h].persistentID = p
               /\ h \in Running \/ replacing[h] = p

PoolInv == TypeOK /\ IdleOK /\ ExitOK /\ ClientOK /\ SlotsOK

NoFork == \A w \in Workers : proc[w] = "none" => proc'[w] = "none"

Keeps == PoolInv' /\ (bShuttingDown => NoFork)

-----------------------------------------------------------------------------

LEMMA Distinct ==
    /\ NONE \notin Workers /\ NONE \notin PersistentIDs
    /\ \A client, ready, exited \in BOOLEAN : \A p \in PersistentIDs :
         [client |-> client, ready |-> ready, exited |-> exited, persistentID |-> p] # NONE
BY PoolConstantsOK DEF States

(* The entry of a worker that is known is one. *)
LEMMA KnownState ==
    ASSUME TypeOK, NEW w \in Workers, Known(w)
    PROVE  workerIDToState[w] \in States
BY DEF TypeOK, Known

(* Workers that were never forked, one for each persistent ID in P, take   *)
(* their places in the pool.                                               *)
LEMMA ForkKeeps ==
    ASSUME PoolInv, ~bShuttingDown, master \in {"idle", "up"}, master' = "up",
           NEW P \in SUBSET PersistentIDs, NEW f \in [P -> Unused],
           \A a, b \in P : f[a] = f[b] => a = b, Fork(f),
           \A w \in Workers : replacing'[w] = IF replacing[w] \in P THEN NONE ELSE replacing[w],
           replacing' \in [Workers -> PersistentIDs \union {NONE}],
           master = "idle" => P = PersistentIDs,
           \A p \in P : master = "up" => persistentIDToWorkerID[p] \notin Running,
           UNCHANGED <<bShuttingDown, exitStage, failures, unknownReady>>
    PROVE  PoolInv'
<1> DEFINE new == {f[p] : p \in P}
           holder(w) == CHOOSE p \in P : f[p] = w
           entry(p) == [client |-> FALSE, ready |-> FALSE, exited |-> FALSE, persistentID |-> p]
<1>1. /\ new \subseteq Unused /\ new \subseteq Workers /\ DOMAIN f = P /\ Range(f) = new
      /\ \A p \in P : holder(f[p]) = p
  BY DEF Unused, Range
<1>2. /\ proc' = [w \in Workers |-> IF w \in new THEN "starting" ELSE proc[w]]
      /\ persistentIDToWorkerID' =
           [p \in PersistentIDs |-> IF p \in P THEN f[p] ELSE persistentIDToWorkerID[p]]
      /\ sessions' = sessions \union new /\ waiting' = waiting \union new
      /\ timers' = timers \union new
      /\ workerIDToState' =
           [w \in Workers |->
              IF w \in new THEN entry(holder(w)) ELSE workerIDToState[w]]
  BY <1>1 DEF Fork
<1> HIDE DEF holder
<1>3. \A p \in P : f[p] \in new /\ workerIDToState'[f[p]] = entry(p) /\ proc'[f[p]] = "starting"
  <2>1. \A p \in P : f[p] \in new /\ f[p] \in Workers
    BY <1>1
  <2> QED BY <1>1, <1>2, <2>1
<1>4. \A w \in Workers \ new : workerIDToState'[w] = workerIDToState[w] /\ proc'[w] = proc[w]
  BY <1>2
<1>5. \A p \in P : /\ entry(p) \in States /\ entry(p) # NONE
                   /\ ~entry(p).ready /\ ~entry(p).exited /\ entry(p).persistentID = p
  BY Distinct DEF States
<1> HIDE DEF entry
<1>6. \A w \in new : proc[w] = "none" /\ \E p \in P : w = f[p]
  BY <1>1 DEF Unused
<1>7. workerIDToState' \in [Workers -> States \union {NONE}]
  <2>1. \A w \in Workers : workerIDToState'[w] \in States \union {NONE}
    BY <1>3, <1>4, <1>5, <1>6 DEF PoolInv, TypeOK
  <2> QED BY <1>2, <2>1
<1>8. TypeOK'
  BY <1>1, <1>2, <1>7 DEF PoolInv, TypeOK
<1>9. IdleOK'
  BY DEF IdleOK
<1>10. ExitOK'
  <2>1. \A p \in P : f[p] \in Workers
    BY <1>1
  <2>2. \A p \in PersistentIDs : persistentIDToWorkerID'[p] \in Workers
    BY <1>2, <2>1 DEF PoolInv, ExitOK
  <2> QED BY <2>2 DEF PoolInv, ExitOK, IdleOK
<1>11. ClientOK'
  <2> SUFFICES ASSUME NEW w \in Workers, Known(w)'
               PROVE  /\ proc'[w] \in {"connected", "serving"} => workerIDToState'[w].client
                      /\ workerIDToState'[w].ready => workerIDToState'[w].client
    BY DEF ClientOK
  <2>1. CASE w \in new
    BY <1>3, <1>5, <1>6, <2>1
  <2>2. CASE w \notin new
    BY <1>4, <2>2 DEF PoolInv, ClientOK, Known
  <2> QED BY <2>1, <2>2
<1>12. SlotsOK'
  <2>1. ASSUME NEW w \in Running'
        PROVE  /\ Known(w)' /\ ~workerIDToState'[w].exited
               /\ persistentIDToWorkerID'[workerIDToState'[w].persistentID] = w
    <3>1. CASE w \in new
      <4>1. PICK p \in P : w = f[p]
        BY <1>6, <3>1
      <4>2. persistentIDToWorkerID'[p] = w /\ workerIDToState'[w] = entry(p)
        BY <1>2, <1>3, <4>1
      <4> QED BY <1>5, <4>2 DEF Known
    <3>2. CASE w \notin new
      <4>1. w \in Running /\ master = "up"
        BY <1>4, <2>1, <3>2 DEF Running, PoolInv, IdleOK
      <4>2. /\ Known(w) /\ ~workerIDToState[w].exited /\ workerIDToState[w] \in States
            /\ persistentIDToWorkerID[workerIDToState[w].persistentID] = w
        BY <4>1, KnownState DEF PoolInv, SlotsOK, Running
      <4>3. workerIDToState[w].persistentID \in PersistentIDs \ P
        BY <4>1, <4>2 DEF States
      <4> QED BY <1>2, <1>4, <3>2, <4>1, <4>2, <4>3 DEF Known, Running
    <3> QED BY <3>1, <3>2
  <2>2. ASSUME NEW w \in Sleeping'
        PROVE  /\ proc'[w] = "exited"
               /\ Known(w)' /\ workerIDToState'[w].exited
               /\ workerIDToState'[w].persistentID = replacing'[w]
               /\ persistentIDToWorkerID'[replacing'[w]] = w
    <3>1. w \in Sleeping /\ replacing[w] \in PersistentIDs \ P /\ replacing'[w] = replacing[w]
      BY <2>2 DEF Sleeping, PoolInv, TypeOK
    <3>2. /\ proc[w] = "exited"
          /\ Known(w) /\ workerIDToState[w].exited
          /\ workerIDToState[w].persistentID = replacing[w]
          /\ persistentIDToWorkerID[replacing[w]] = w
      BY <3>1 DEF PoolInv, SlotsOK
    <3>3. w \in Workers \ new
      BY <1>6, <3>1, <3>2 DEF Sleeping
    <3> QED BY <1>2, <1>4, <3>1, <3>2, <3>3 DEF Known
  <2>3. ASSUME NEW p \in PersistentIDs
        PROVE  \E h \in Workers :
                 /\ persistentIDToWorkerID'[p] = h
                 /\ Known(h)' /\ workerIDToState'[h].persistentID = p
                 /\ h \in Running' \/ replacing'[h] = p
    <3>1. CASE p \in P
      <4>1. persistentIDToWorkerID'[p] = f[p] /\ f[p] \in Workers
        BY <1>1, <1>2, <3>1
      <4> QED BY <1>3, <1>5, <3>1, <4>1 DEF Known, Running
    <3>2. CASE p \notin P
      <4> DEFINE h == persistentIDToWorkerID[p]
      <4>1. master = "up" /\ persistentIDToWorkerID'[p] = h
        BY <1>2, <3>2
      <4>2. /\ h \in Workers /\ Known(h) /\ workerIDToState[h].persistentID = p
            /\ h \in Running \/ replacing[h] = p
        BY <4>1 DEF PoolInv, SlotsOK, ExitOK
      <4>3. proc[h] # "none"
        BY <4>2, Distinct DEF PoolInv, SlotsOK, Running, Sleeping
      <4>4. h \notin new
        BY <1>6, <4>3
      <4> HIDE DEF h
      <4> QED BY <1>4, <3>2, <4>1, <4>2, <4>4 DEF Known, Running
    <3> QED BY <3>1, <3>2
  <2> QED BY <2>1, <2>2, <2>3 DEF SlotsOK
<1> QED BY <1>8, <1>9, <1>10, <1>11, <1>12 DEF PoolInv

LEMMA StartKeeps ==
    ASSUME PoolInv, Start
    PROVE  Keeps
<1>1. /\ master = "idle" /\ master' = "up"
      /\ UNCHANGED <<bShuttingDown, exitStage, failures, replacing, unknownReady>>
  BY DEF Start
<1>2. ~bShuttingDown /\ \A w \in Workers : replacing[w] = NONE
  BY <1>1 DEF PoolInv, IdleOK
<1>3. PICK f \in Injection(PersistentIDs, Unused) : Fork(f)
  BY DEF Start
<1>4. f \in [PersistentIDs -> Unused] /\ \A a, b \in PersistentIDs : f[a] = f[b] => a = b
  BY <1>3 DEF Injection, IsInjective
<1>5. PoolInv'
  BY <1>1, <1>2, <1>3, <1>4, ForkKeeps, Distinct DEF PoolInv, TypeOK
<1> QED BY <1>2, <1>5 DEF Keeps

LEMMA ReplaceKeeps ==
    ASSUME PoolInv, NEW w \in Workers, Replace(w)
    PROVE  Keeps
<1> DEFINE p == replacing[w]
<1>1. /\ master = "up" /\ p # NONE /\ p \in PersistentIDs /\ w \in Sleeping
      /\ replacing' = [replacing EXCEPT ![w] = NONE]
      /\ UNCHANGED <<masterVars, unknownReady>>
  BY DEF Replace, PoolInv, TypeOK, Sleeping
<1>2. persistentIDToWorkerID[p] \in Workers
  BY <1>1 DEF PoolInv, ExitOK
<1>3. CASE bShuttingDown
  <2>1. ~CanReplace(p)
    BY <1>2, <1>3 DEF CanReplace, PoolInv, ExitOK
  <2>2. UNCHANGED <<proc, stateVars, routerVars>>
    BY <2>1 DEF Replace
  <2>3. TypeOK'
    BY <1>1, <2>2 DEF PoolInv, TypeOK, masterVars, stateVars, routerVars
  <2>4. IdleOK' /\ ExitOK' /\ ClientOK' /\ SlotsOK'
    BY <1>1, <1>3, <2>2
       DEF PoolInv, IdleOK, ExitOK, ClientOK, SlotsOK, Known, masterVars, stateVars
  <2> QED BY <2>2, <2>3, <2>4 DEF Keeps, PoolInv, NoFork
<1>4. CASE ~bShuttingDown
  <2>1. /\ proc[w] = "exited" /\ Known(w) /\ workerIDToState[w].exited
        /\ persistentIDToWorkerID[p] = w
        /\ \A v \in Workers : replacing[v] = p => v = w
    BY <1>1, <1>4 DEF PoolInv, SlotsOK, Sleeping
  <2>2. CanReplace(p)
    BY <2>1 DEF CanReplace
  <2>3. PICK f \in [{p} -> Unused] : Fork(f)
    BY <2>2 DEF Replace
  <2>4. {p} \in SUBSET PersistentIDs /\ (\A a, b \in {p} : f[a] = f[b] => a = b)
    BY <1>1
  <2>5. \A v \in Workers : replacing'[v] = IF replacing[v] \in {p} THEN NONE ELSE replacing[v]
    BY <1>1, <2>1 DEF PoolInv, TypeOK
  <2>6. persistentIDToWorkerID[p] \notin Running
    BY <2>1 DEF Running
  <2>7. replacing' \in [Workers -> PersistentIDs \union {NONE}]
    BY <1>1 DEF PoolInv, TypeOK
  <2>8. UNCHANGED <<bShuttingDown, exitStage, failures, unknownReady>> /\ master' = "up"
    BY <1>1 DEF masterVars
  <2>9. PoolInv'
    <3> HIDE DEF p
    <3> QED BY <1>1, <1>4, <2>3, <2>4, <2>5, <2>6, <2>7, <2>8, ForkKeeps
  <2> QED BY <1>4, <2>9 DEF Keeps
<1> QED BY <1>3, <1>4
-----------------------------------------------------------------------------
(* The other steps *)

LEMMA ConnectKeeps ==
    ASSUME PoolInv, NEW w \in Workers, ConnectToEndpoint(w)
    PROVE  Keeps
<1>1. /\ master = "up" /\ proc[w] = "starting"
      /\ proc' = [proc EXCEPT ![w] = "connected"]
      /\ timers' = timers \ {w}
      /\ UNCHANGED <<bShuttingDown, exitStage, failures, persistentIDToWorkerID, sessions,
                     waiting, replacing, unknownReady>>
  BY DEF ConnectToEndpoint
<1>2. Running' = Running /\ Sleeping' = Sleeping
  BY <1>1 DEF Running, Sleeping, PoolInv, TypeOK
<1>3. CASE Known(w) /\ MakeClient(w) /\ UNCHANGED master
  <2>1. workerIDToState' = [workerIDToState EXCEPT ![w].client = TRUE] /\ UNCHANGED master
    BY <1>3 DEF MakeClient
  <2>2. workerIDToState[w] \in States
    BY <1>3, KnownState DEF PoolInv
  <2> DEFINE s == [workerIDToState[w] EXCEPT !.client = TRUE]
  <2>3. /\ s \in States /\ s # NONE /\ s.client
        /\ s.exited = workerIDToState[w].exited
        /\ s.persistentID = workerIDToState[w].persistentID
    BY <2>2, PoolConstantsOK DEF States
  <2>4. workerIDToState' = [workerIDToState EXCEPT ![w] = s]
    BY <2>1
  <2> HIDE DEF s
  <2>5. /\ workerIDToState'[w] = s
        /\ \A v \in Workers \ {w} : workerIDToState'[v] = workerIDToState[v] /\ proc'[v] = proc[v]
        /\ \A v \in Workers : Known(v)' <=> Known(v)
    BY <1>1, <1>3, <2>3, <2>4 DEF PoolInv, TypeOK, Known
  <2>6. TypeOK'
    BY <1>1, <2>1, <2>3, <2>4 DEF PoolInv, TypeOK
  <2>7. IdleOK' /\ ExitOK'
    BY <1>1, <2>1, <2>5 DEF PoolInv, IdleOK, ExitOK
  <2>8. ClientOK'
    BY <2>3, <2>5 DEF PoolInv, ClientOK
  <2>9. SlotsOK'
    <3>1. \A v \in Workers : Known(v) =>
            /\ workerIDToState'[v].exited = workerIDToState[v].exited
            /\ workerIDToState'[v].persistentID = workerIDToState[v].persistentID
      BY <2>3, <2>5
    <3> QED BY <1>1, <1>2, <2>1, <2>5, <3>1 DEF PoolInv, SlotsOK, Running, Sleeping
  <2>10. NoFork
    BY <1>1 DEF NoFork, PoolInv, TypeOK
  <2> QED BY <2>6, <2>7, <2>8, <2>9, <2>10 DEF Keeps, PoolInv
<1>4. CASE ~Known(w) /\ master' = "failed" /\ UNCHANGED workerIDToState
  <2>1. bShuttingDown
    BY <1>1, <1>4 DEF PoolInv, SlotsOK, Running
  <2>2. TypeOK'
    BY <1>1, <1>4 DEF PoolInv, TypeOK
  <2>3. IdleOK' /\ ExitOK' /\ ClientOK' /\ SlotsOK'
    BY <1>1, <1>4, <2>1 DEF PoolInv, IdleOK, ExitOK, ClientOK, SlotsOK, Known
  <2>4. NoFork
    BY <1>1 DEF NoFork, PoolInv, TypeOK
  <2> QED BY <2>2, <2>3, <2>4 DEF Keeps, PoolInv
<1> QED BY <1>3, <1>4 DEF ConnectToEndpoint

LEMMA ServicesReadyKeeps ==
    ASSUME PoolInv, NEW w \in Workers, WorkerServicesReady(w)
    PROVE  Keeps
<1>1. /\ master = "up" /\ proc[w] = "connected"
      /\ proc' = [proc EXCEPT ![w] = "serving"]
      /\ UNCHANGED <<masterVars, persistentIDToWorkerID, routerVars, replacing>>
  BY DEF WorkerServicesReady
<1>2. Running' = Running /\ Sleeping' = Sleeping
  BY <1>1 DEF Running, Sleeping, PoolInv, TypeOK
<1>3. NoFork
  BY <1>1 DEF NoFork, PoolInv, TypeOK
<1>4. CASE /\ Known(w) /\ UNCHANGED unknownReady
           /\ workerIDToState' = [workerIDToState EXCEPT ![w].ready = TRUE]
  <2>1. workerIDToState[w] \in States /\ workerIDToState[w].client
    BY <1>1, <1>4, KnownState DEF PoolInv, ClientOK
  <2> DEFINE s == [workerIDToState[w] EXCEPT !.ready = TRUE]
  <2>2. /\ s \in States /\ s # NONE /\ s.client
        /\ s.exited = workerIDToState[w].exited
        /\ s.persistentID = workerIDToState[w].persistentID
    BY <2>1, PoolConstantsOK DEF States
  <2>3. workerIDToState' = [workerIDToState EXCEPT ![w] = s]
    BY <1>4
  <2> HIDE DEF s
  <2>4. /\ workerIDToState'[w] = s
        /\ \A v \in Workers \ {w} : workerIDToState'[v] = workerIDToState[v] /\ proc'[v] = proc[v]
        /\ \A v \in Workers : Known(v)' <=> Known(v)
    BY <1>1, <1>4, <2>2, <2>3 DEF PoolInv, TypeOK, Known
  <2>5. TypeOK'
    BY <1>1, <1>4, <2>2, <2>3 DEF PoolInv, TypeOK, masterVars, routerVars
  <2>6. IdleOK' /\ ExitOK'
    BY <1>1, <1>4, <2>4 DEF PoolInv, IdleOK, ExitOK, masterVars
  <2>7. ClientOK'
    BY <2>2, <2>4 DEF PoolInv, ClientOK
  <2>8. SlotsOK'
    <3>1. \A v \in Workers : Known(v) =>
            /\ workerIDToState'[v].exited = workerIDToState[v].exited
            /\ workerIDToState'[v].persistentID = workerIDToState[v].persistentID
      BY <2>2, <2>4
    <3>2. proc' \in [Workers -> {"none", "starting", "connected", "serving", "exited"}]
          /\ \A v \in Workers : proc[v] = "exited" => proc'[v] = "exited"
      BY <1>1 DEF PoolInv, TypeOK
    <3> QED BY <1>1, <1>2, <2>4, <3>1, <3>2 DEF PoolInv, SlotsOK, Running, Sleeping, masterVars
  <2> QED BY <1>3, <2>5, <2>6, <2>7, <2>8 DEF Keeps, PoolInv
<1>5. CASE ~Known(w) /\ unknownReady' = unknownReady \union {w} /\ UNCHANGED workerIDToState
  <2>1. bShuttingDown
    BY <1>1, <1>5 DEF PoolInv, SlotsOK, Running
  <2>2. TypeOK'
    BY <1>1, <1>5 DEF PoolInv, TypeOK, masterVars, routerVars
  <2>3. IdleOK' /\ ExitOK' /\ ClientOK' /\ SlotsOK'
    BY <1>1, <1>5, <2>1 DEF PoolInv, IdleOK, ExitOK, ClientOK, SlotsOK, Known, masterVars
  <2> QED BY <1>3, <2>2, <2>3 DEF Keeps, PoolInv
<1> QED BY <1>4, <1>5 DEF WorkerServicesReady

(* There is an unknown worker only when no entry is left to be marked. *)
LEMMA RetryKeeps ==
    ASSUME PoolInv, NEW w \in Workers, WorkerServicesReadyRetry(w)
    PROVE  Keeps
<1>1. /\ master = "up" /\ w \in unknownReady /\ unknownReady' = unknownReady \ {w}
      /\ UNCHANGED <<masterVars, proc, persistentIDToWorkerID, routerVars, replacing>>
  BY DEF WorkerServicesReadyRetry
<1>2. bShuttingDown /\ \A v \in Workers : ~Known(v)
  BY <1>1 DEF PoolInv, ExitOK
<1>3. workerIDToState' = workerIDToState
  BY <1>2 DEF WorkerServicesReadyRetry, PoolInv, TypeOK
<1>4. TypeOK'
  BY <1>1, <1>3 DEF PoolInv, TypeOK, masterVars, routerVars
<1>5. IdleOK' /\ ExitOK' /\ ClientOK' /\ SlotsOK'
  BY <1>1, <1>2, <1>3 DEF PoolInv, IdleOK, ExitOK, ClientOK, SlotsOK, Known, masterVars
<1> QED BY <1>1, <1>4, <1>5 DEF Keeps, PoolInv, NoFork

(* A step that changes neither processes nor entries. *)
LEMMA FrameKeeps ==
    ASSUME PoolInv, TypeOK', UNCHANGED <<bShuttingDown, proc, stateVars, replacing, unknownReady>>,
           master = "idle" <=> master' = "idle"
    PROVE  Keeps
<1>1. IdleOK' /\ ExitOK' /\ ClientOK'
  BY DEF PoolInv, IdleOK, ExitOK, ClientOK, Known, stateVars
<1>2. SlotsOK'
  BY DEF PoolInv, SlotsOK, Known, Running, Sleeping, stateVars
<1> QED BY <1>1, <1>2 DEF Keeps, PoolInv, NoFork

LEMMA RouterKeeps ==
    ASSUME PoolInv, NEW w \in Workers, ReadyTimeout(w) \/ DropWorker(w)
    PROVE  Keeps
<1>1. /\ master = "up" /\ master' \in {"up", "failed", "crashed"}
      /\ sessions' \subseteq sessions /\ waiting' \subseteq waiting /\ timers' \subseteq timers
      /\ UNCHANGED <<bShuttingDown, exitStage, failures, proc, stateVars, replacing, unknownReady>>
  BY DEF ReadyTimeout, DropWorker, OnConnectionEnded, masterVars
<1>2. TypeOK'
  BY <1>1 DEF PoolInv, TypeOK, stateVars
<1> QED BY <1>1, <1>2, FrameKeeps

(* gracefulExit() empties the entries, and with them what it must keep. *)
LEMMA ExitBegins ==
    ASSUME PoolInv, TypeOK', master = "up", BeginGracefulExit, ~bShuttingDown,
           UNCHANGED <<master, persistentIDToWorkerID>>
    PROVE  Keeps
<1>1. bShuttingDown' /\ \A w \in Workers : ~Known(w)'
  BY DEF BeginGracefulExit, Known
<1>2. IdleOK' /\ ExitOK' /\ ClientOK' /\ SlotsOK'
  BY <1>1 DEF PoolInv, IdleOK, ExitOK, ClientOK, SlotsOK
<1> QED BY <1>2 DEF Keeps, PoolInv

LEMMA ExitKeeps ==
    ASSUME PoolInv, NEW w \in Workers, WorkerExit(w)
    PROVE  Keeps
<1>1. /\ master = "up" /\ w \in Running
      /\ proc' = [proc EXCEPT ![w] = "exited"]
      /\ sessions' = sessions \ {w} /\ waiting' = waiting \ {w}
      /\ failures' \in 0 .. (failures + 1)
      /\ UNCHANGED <<master, persistentIDToWorkerID, timers, unknownReady>>
  BY DEF WorkerExit, OnConnectionEnded
<1>2. NoFork
  BY <1>1 DEF NoFork, PoolInv, TypeOK, Running
<1>3. CASE /\ bShuttingDown
           /\ workerIDToState' = MarkedExited(w)
           /\ UNCHANGED <<bShuttingDown, exitStage, replacing>>
  <2>1. UNCHANGED workerIDToState
    BY <1>1, <1>3 DEF MarkedExited, PoolInv, ExitOK, TypeOK, Running
  <2>2. TypeOK'
    BY <1>1, <1>3, <2>1 DEF PoolInv, TypeOK
  <2>3. IdleOK' /\ ExitOK' /\ ClientOK' /\ SlotsOK'
    BY <1>1, <1>3, <2>1 DEF PoolInv, IdleOK, ExitOK, ClientOK, SlotsOK, Known
  <2> QED BY <1>2, <2>2, <2>3 DEF Keeps, PoolInv
<1>4. CASE ~bShuttingDown /\ BeginGracefulExit /\ UNCHANGED replacing
  <2>1. TypeOK'
    BY <1>1, <1>4 DEF BeginGracefulExit, PoolInv, TypeOK
  <2> QED BY <1>1, <1>4, <2>1, ExitBegins
<1>5. CASE /\ ~bShuttingDown
           /\ workerIDToState' = MarkedExited(w)
           /\ ScheduleReplacement(w)
           /\ UNCHANGED <<bShuttingDown, exitStage>>
  <2> DEFINE s == [workerIDToState[w] EXCEPT !.exited = TRUE]
             p == workerIDToState[w].persistentID
  <2>1. /\ Known(w) /\ workerIDToState[w] \in States /\ p \in PersistentIDs
        /\ persistentIDToWorkerID[p] = w
    BY <1>1, <1>5, KnownState DEF PoolInv, SlotsOK, Running, States
  <2>2. s \in States /\ s # NONE /\ s.exited /\ s.persistentID = p
        /\ s.client = workerIDToState[w].client /\ s.ready = workerIDToState[w].ready
    BY <2>1, PoolConstantsOK DEF States
  <2>3. /\ workerIDToState' = [workerIDToState EXCEPT ![w] = s]
        /\ replacing' = [replacing EXCEPT ![w] = p]
    BY <1>5, <2>1 DEF MarkedExited, ScheduleReplacement
  <2> HIDE DEF s, p
  <2>4. /\ workerIDToState'[w] = s /\ proc'[w] = "exited" /\ replacing'[w] = p /\ p # NONE
        /\ \A v \in Workers \ {w} : /\ workerIDToState'[v] = workerIDToState[v]
                                    /\ proc'[v] = proc[v] /\ replacing'[v] = replacing[v]
        /\ \A v \in Workers : Known(v)' <=> Known(v)
    BY <1>1, <2>1, <2>2, <2>3, Distinct DEF PoolInv, TypeOK, Known, Running
  <2>5. TypeOK'
    BY <1>1, <1>5, <2>1, <2>2, <2>3 DEF PoolInv, TypeOK
  <2>6. IdleOK' /\ ExitOK'
    BY <1>1, <1>5, <2>4 DEF PoolInv, IdleOK, ExitOK
  <2>7. ClientOK'
    BY <2>2, <2>4 DEF PoolInv, ClientOK
  <2>8. Running' = Running \ {w} /\ Sleeping' = Sleeping \union {w}
    BY <1>1, <2>4 DEF Running, Sleeping, PoolInv, TypeOK
  <2>9. SlotsOK'
    <3>1. \A v \in Running' :
            /\ Known(v)' /\ ~workerIDToState'[v].exited
            /\ persistentIDToWorkerID'[workerIDToState'[v].persistentID] = v
      BY <1>1, <1>5, <2>4, <2>8 DEF PoolInv, SlotsOK, Running
    <3>2. \A v \in Sleeping' :
            /\ proc'[v] = "exited"
            /\ Known(v)' /\ workerIDToState'[v].exited
            /\ workerIDToState'[v].persistentID = replacing'[v]
            /\ persistentIDToWorkerID'[replacing'[v]] = v
      BY <1>1, <1>5, <2>1, <2>2, <2>4, <2>8 DEF PoolInv, SlotsOK, Sleeping, Known
    <3>3. ASSUME NEW q \in PersistentIDs
          PROVE  \E h \in Workers :
                   /\ persistentIDToWorkerID'[q] = h
                   /\ Known(h)' /\ workerIDToState'[h].persistentID = q
                   /\ h \in Running' \/ replacing'[h] = q
      <4>1. PICK h \in Workers :
              /\ persistentIDToWorkerID[q] = h
              /\ Known(h) /\ workerIDToState[h].persistentID = q
              /\ h \in Running \/ replacing[h] = q
        BY <1>1, <1>5 DEF PoolInv, SlotsOK
      <4>2. CASE h = w
        BY <1>1, <2>2, <2>4, <4>1, <4>2 DEF p
      <4>3. CASE h # w
        BY <1>1, <2>4, <2>8, <4>1, <4>3
      <4> QED BY <4>2, <4>3
    <3> QED BY <3>1, <3>2, <3>3 DEF SlotsOK
  <2> QED BY <1>2, <2>5, <2>6, <2>7, <2>9 DEF Keeps, PoolInv
<1> QED BY <1>3, <1>4, <1>5 DEF WorkerExit

LEMMA EndKeeps ==
    ASSUME PoolInv, GracefulExit \/ AllWorkersExited \/ ExitMaster
    PROVE  Keeps
<1>1. CASE GracefulExit
  <2>1. TypeOK'
    BY <1>1 DEF GracefulExit, BeginGracefulExit, PoolInv, TypeOK, routerVars
  <2> QED BY <1>1, <2>1, ExitBegins DEF GracefulExit
<1>2. CASE AllWorkersExited \/ ExitMaster
  <2>1. TypeOK'
    BY <1>2 DEF AllWorkersExited, ExitMaster, PoolInv, TypeOK, stateVars, routerVars
  <2> QED BY <1>2, <2>1, FrameKeeps DEF AllWorkersExited, ExitMaster
<1> QED BY <1>1, <1>2

-----------------------------------------------------------------------------

LEMMA InitPoolInv == Init => PoolInv
<1> SUFFICES ASSUME Init PROVE PoolInv
  OBVIOUS
<1>1. TypeOK
  BY DEF Init, TypeOK
<1>2. IdleOK /\ ExitOK /\ ClientOK /\ SlotsOK
  BY DEF Init, IdleOK, ExitOK, ClientOK, SlotsOK, Known, Running, Sleeping
<1> QED BY <1>1, <1>2 DEF PoolInv

LEMMA NextKeeps == PoolInv /\ [Next]_vars => Keeps
<1> SUFFICES ASSUME PoolInv, [Next]_vars PROVE Keeps
  OBVIOUS
<1>1. CASE Start
  BY <1>1, StartKeeps
<1>2. ASSUME NEW w \in Workers,
             ConnectToEndpoint(w) \/ WorkerServicesReady(w) \/ WorkerServicesReadyRetry(w)
      PROVE  Keeps
  BY <1>2, ConnectKeeps, ServicesReadyKeeps, RetryKeeps
<1>3. ASSUME NEW w \in Workers, ReadyTimeout(w) \/ DropWorker(w) \/ WorkerExit(w) \/ Replace(w)
      PROVE  Keeps
  BY <1>3, RouterKeeps, ExitKeeps, ReplaceKeeps
<1>4. CASE GracefulExit \/ AllWorkersExited \/ ExitMaster
  BY <1>4, EndKeeps
<1>5. CASE UNCHANGED vars
  <2>1. TypeOK'
    BY <1>5 DEF PoolInv, TypeOK, vars, masterVars, stateVars, routerVars
  <2> QED BY <1>5, <2>1, FrameKeeps DEF vars, masterVars
<1> QED BY <1>1, <1>2, <1>3, <1>4, <1>5 DEF Next

LEMMA PoolInvariant == Spec => []PoolInv
<1>1. PoolInv /\ [Next]_vars => PoolInv'
  BY NextKeeps DEF Keeps
<1> QED BY InitPoolInv, <1>1, PTL DEF Spec

(* Every variable keeps its type. *)
THEOREM TypeCorrect == Spec => []TypeOK
<1>1. PoolInv => TypeOK
  BY DEF PoolInv
<1> QED BY <1>1, PoolInvariant, PTL

(* The client of an entry that is marked ready is there, though entries    *)
(* are marked by a message of the worker and by "going berserk".           *)
THEOREM ReadyEntriesHaveClients == Spec => []ReadyHasClient
<1>1. PoolInv => ReadyHasClient
  BY DEF PoolInv, ClientOK, ReadyHasClient
<1> QED BY <1>1, PoolInvariant, PTL

(* A worker reports ready without an entry only after gracefulExit() has   *)
(* begun, so that then no entry is there that could be marked in its stead.*)
THEOREM NoUnknownWorkerWhileUp == Spec => []UnknownOnlyAtExit
<1>1. PoolInv => UnknownOnlyAtExit
  BY DEF PoolInv, ExitOK, UnknownOnlyAtExit
<1> QED BY <1>1, PoolInvariant, PTL

(* No slot of the pool is lost and no two workers share a persistent ID,   *)
(* over any number of crashes at any time.                                 *)
THEOREM SlotsAreKept == Spec => []OneWorkerPerPersistentID
<1>1. PoolInv => OneWorkerPerPersistentID
  <2> SUFFICES ASSUME PoolInv, IsUp, NEW p \in PersistentIDs
               PROVE  Cardinality(Holders(p)) + Cardinality(Replacements(p)) = 1
    BY DEF OneWorkerPerPersistentID
  <2>1. PICK h \in Workers :
          /\ persistentIDToWorkerID[p] = h
          /\ Known(h) /\ workerIDToState[h].persistentID = p
          /\ h \in Running \/ replacing[h] = p
    BY DEF PoolInv, SlotsOK, IsUp
  <2>2. Holders(p) \subseteq {h} /\ Replacements(p) \subseteq {h}
    BY <2>1, Distinct DEF PoolInv, SlotsOK, IsUp, Holders, Replacements, Sleeping
  <2>3. h \in Holders(p) <=> h \notin Replacements(p)
    BY <2>1, Distinct DEF PoolInv, SlotsOK, IsUp, Holders, Replacements, Running, Sleeping
  <2>4. \/ Holders(p) = {h} /\ Replacements(p) = {}
        \/ Holders(p) = {} /\ Replacements(p) = {h}
    BY <2>2, <2>3
  <2>5. Cardinality({h}) = 1 /\ Cardinality({}) = 0
    BY FS_EmptySet, FS_Singleton
  <2> QED BY <2>4, <2>5
<1> QED BY <1>1, PoolInvariant, PTL

(* Once gracefulExit() has begun nothing forks a worker, whatever "exit"   *)
(* handlers sleep then.                                                    *)
THEOREM NoForkOnceExiting == Spec => NoForkAtExit
<1>1. PoolInv /\ [Next]_vars => [bShuttingDown => NoFork]_vars
  BY NextKeeps DEF Keeps
<1> QED BY <1>1, PoolInvariant, PTL DEF Spec, NoForkAtExit, NoFork
=============================================================================
