--------------------------- MODULE ThreadPool_proofs ---------------------------
(***************************************************************************)
(* Proofs about ThreadPool, for any number of threads that start, fail to  *)
(* come online and exit at any time: types, clients that are there,        *)
(* identities that are not shared, and no start once gracefulExit() has    *)
(* begun.                                                                  *)
(***************************************************************************)
EXTENDS ThreadPool, FiniteSetTheorems, TLAPS

(* Threads are started in the order of their IDs; what there is of a       *)
(* thread comes after its start.                                           *)
StartedInOrder ==
    \E n \in 0 .. MaxThreads : \A t \in ThreadIDs : thread[t] = "none" <=> t > n

UnusedOK ==
    /\ \A t \in Unused : /\ adding[t] = "no" /\ persistentID[t] = NONE
                         /\ threadState[t] = NONE /\ t \notin replacing
    /\ \A t \in ThreadIDs \ Unused : adding[t] # "no" /\ persistentID[t] \in PersistentIDs
    /\ \A t \in ThreadIDs : thread[t] = "starting" => adding[t] # "added"
    /\ main = "idle" => Unused = ThreadIDs /\ ~bShuttingDown

(* While the pool is up there is a thread left for each one to replace. *)
RoomOK == ~bShuttingDown => Cardinality(replacing) <= Cardinality(Unused)

(* The client is made before the thread itself can mark the entry ready,   *)
(* and no other thread does so before gracefulExit() has begun.            *)
ClientOK ==
    \A t \in ThreadIDs : Known(t) =>
      /\ thread[t] \in {"connected", "serving"} => threadState[t].client
      /\ ~bShuttingDown /\ threadState[t].ready => threadState[t].client

(* A thread that connects was added, so that it has its entry when it      *)
(* reports, unless gracefulExit() has deleted that.                        *)
ReportOK ==
    /\ \A t \in ThreadIDs :
         t \in waiting \/ thread[t] \in {"connected", "serving"} => adding[t] = "added"
    /\ ~bShuttingDown => unknownReady = {}

(* The thread has the slot of its persistent ID, or has lost it. *)
Occupies(t) ==
    \/ adding[t] \in {"starting", "gaveUp"}
    \/ adding[t] = "added" /\ (thread[t] # "exited" \/ t \in replacing)

AtMostOne ==
    \A t, u \in ThreadIDs :
      Occupies(t) /\ Occupies(u) /\ persistentID[t] = persistentID[u] => t = u

AtLeastOne ==
    ~bShuttingDown /\ main # "idle" =>
      \A p \in PersistentIDs : \E h \in ThreadIDs : persistentID[h] = p /\ Occupies(h)

(* The entry of a thread to be replaced is that of its persistent ID, and  *)
(* is gone once gracefulExit() has begun; until then that of a thread that *)
(* runs is there.                                                          *)
EntriesOK ==
    /\ \A t \in replacing :
         /\ adding[t] = "added" /\ thread[t] = "exited"
         /\ persistentIDToThread[persistentID[t]] = t
         /\ Known(t) => ~bShuttingDown
         /\ ~bShuttingDown => Known(t) /\ threadState[t].exited
    /\ ~bShuttingDown =>
         \A t \in ThreadIDs : adding[t] = "added" /\ thread[t] # "exited" =>
           Known(t) /\ persistentIDToThread[persistentID[t]] = t

SlotInv ==
    /\ TypeOK /\ StartedInOrder /\ UnusedOK /\ RoomOK
    /\ ClientOK /\ ReportOK /\ AtMostOne /\ AtLeastOne /\ EntriesOK

NoStart == \A t \in ThreadIDs : thread[t] = "none" => thread'[t] = "none"

Keeps == SlotInv' /\ (bShuttingDown => NoStart)

-----------------------------------------------------------------------------

LEMMA IDsDiffer ==
    /\ ThreadIDs \subseteq Nat \ {0} /\ PersistentIDs \subseteq ThreadIDs
    /\ NONE \notin ThreadIDs /\ NONE \notin PersistentIDs
    /\ NONE \notin States
BY ThreadPoolConstantsOK DEF ThreadIDs, PersistentIDs

LEMMA NextIsUnused ==
    ASSUME SlotInv
    PROVE  /\ IsFiniteSet(ThreadIDs) /\ IsFiniteSet(Unused) /\ Cardinality(Unused) \in Nat
           /\ IsFiniteSet(replacing) /\ Cardinality(replacing) \in Nat
           /\ Unused # {} => NextThreadID \in Unused
           /\ \A t \in Unused : t >= NextThreadID
<1>1. PICK n \in 0 .. MaxThreads : \A t \in ThreadIDs : thread[t] = "none" <=> t > n
  BY DEF SlotInv, StartedInOrder
<1>2. n \in Nat /\ MaxThreads \in Nat /\ n + 1 \in Int /\ MaxThreads \in Int
  BY ThreadPoolConstantsOK
<1>3. Unused = (n + 1) .. MaxThreads
  BY <1>1, <1>2 DEF Unused, ThreadIDs
<1>4. IsFiniteSet(ThreadIDs) /\ IsFiniteSet(Unused)
      /\ Cardinality(Unused) = IF n + 1 > MaxThreads THEN 0 ELSE MaxThreads - (n + 1) + 1
  BY <1>2, <1>3, FS_Interval DEF ThreadIDs
<1>5. Cardinality(Unused) = MaxThreads - n
  BY <1>1, <1>2, <1>4
<1>6. NextThreadID = n + 1
  BY <1>2, <1>5 DEF NextThreadID
<1>7. IsFiniteSet(replacing) /\ Cardinality(replacing) \in Nat /\ Cardinality(Unused) \in Nat
  BY <1>4, FS_Subset, FS_CardinalityType DEF SlotInv, TypeOK
<1> QED BY <1>2, <1>3, <1>4, <1>6, <1>7

(* A step that leaves what the slots are made of alone. *)
LEMMA FrameKeeps ==
    ASSUME SlotInv, TypeOK', main = "idle" <=> main' = "idle",
           UNCHANGED <<bShuttingDown, thread, persistentID, adding, entryVars, waiting, replacing>>
    PROVE  Keeps
<1>1. StartedInOrder' /\ UnusedOK' /\ RoomOK' /\ ClientOK' /\ ReportOK'
  BY DEF SlotInv, StartedInOrder, UnusedOK, RoomOK, ClientOK, ReportOK, Unused, Known, entryVars
<1>2. AtMostOne' /\ AtLeastOne' /\ EntriesOK'
  BY DEF SlotInv, AtMostOne, AtLeastOne, EntriesOK, Occupies, Known, entryVars
<1> QED BY <1>1, <1>2 DEF Keeps, SlotInv, NoStart

LEMMA CallStepsKeep ==
    ASSUME SlotInv,
           \/ \E t \in ThreadIDs : BroadcastAnswered(t) \/ RpcWorker(t)
           \/ Broadcast \/ RpcWorkerChecks \/ RpcWorkerAnswered
    PROVE  Keeps
<1>1. UNCHANGED <<poolVars, entryVars, threadVars>>
  BY DEF BroadcastAnswered, RpcWorker, Broadcast, RpcWorkerChecks, RpcWorkerAnswered
<1>2. /\ part' \in [ThreadIDs -> {"none", "pending", "resolved", "stuck"}]
      /\ broadcast' \in {"idle", "pending", "resolved", "rejected"}
  BY DEF BroadcastAnswered, PartResolved, PartFailed, RpcWorker, Broadcast, RpcWorkerChecks,
         RpcWorkerAnswered, SlotInv, TypeOK, broadcastVars
<1>3. /\ rpcTo' \in ThreadIDs \union {NONE}
      /\ triesLeft' \in 0 .. MaxTries
      /\ rpcWorkerState' \in {"idle", "checking", "asleep", "called", "settled"}
  BY ThreadPoolConstantsOK
     DEF BroadcastAnswered, RpcWorker, Broadcast, RpcWorkerChecks, RpcWorkerAnswered, MustWait,
         SlotInv, TypeOK, rpcVars
<1>4. TypeOK'
  BY <1>1, <1>2, <1>3 DEF SlotInv, TypeOK, poolVars, entryVars, threadVars
<1> QED BY <1>1, <1>4, FrameKeeps DEF poolVars, threadVars

LEMMA PoolStepsKeep ==
    ASSUME SlotInv,
           \/ \E t \in ThreadIDs : ReadyTimeout(t)
           \/ AllWorkersExited \/ GracefulExitTimeout \/ ExitMain
    PROVE  Keeps
<1>1. /\ main = "up" /\ main' \in {"up", "stopped", "failed"}
      /\ exitStage' \in {"no", "waiting", "stopping"}
      /\ UNCHANGED <<bShuttingDown, failures, entryVars, threadVars, broadcastVars, rpcVars>>
  BY DEF ReadyTimeout, AllWorkersExited, GracefulExitTimeout, ExitMain, SlotInv, TypeOK
<1>2. TypeOK'
  BY <1>1 DEF SlotInv, TypeOK, entryVars, threadVars, broadcastVars, rpcVars
<1> QED BY <1>1, <1>2, FrameKeeps DEF threadVars

-----------------------------------------------------------------------------
(* Threads start *)

LEMMA StartKeeps ==
    ASSUME SlotInv, Start
    PROVE  Keeps
<1> DEFINE id == [t \in PersistentIDs |-> t]
<1>1. /\ main = "idle" /\ main' = "up" /\ StartThreads(PersistentIDs, id)
      /\ UNCHANGED <<bShuttingDown, exitStage, failures, entryVars, waiting, replacing,
                     broadcastVars, rpcVars>>
  BY DEF Start
<1>2. Unused = ThreadIDs /\ ~bShuttingDown
  BY <1>1 DEF SlotInv, UnusedOK
<1>3. \A t \in ThreadIDs : /\ thread[t] = "none" /\ adding[t] = "no" /\ persistentID[t] = NONE
                           /\ threadState[t] = NONE /\ t \notin replacing
  BY <1>2 DEF SlotInv, UnusedOK, Unused
<1>4. replacing = {}
  BY <1>3 DEF SlotInv, TypeOK
<1>5. \A t \in ThreadIDs :
        /\ thread'[t] = IF t \in PersistentIDs THEN "starting" ELSE "none"
        /\ adding'[t] = IF t \in PersistentIDs THEN "starting" ELSE "no"
        /\ persistentID'[t] = IF t \in PersistentIDs THEN t ELSE NONE
  BY <1>1, <1>3 DEF StartThreads
<1>6. TypeOK'
  <2>1. thread' \in [ThreadIDs -> {"none", "starting", "online", "connected", "serving",
                                "exited"}]
        /\ adding' \in [ThreadIDs -> {"no", "starting", "added", "gaveUp"}]
    BY <1>1, <1>5 DEF StartThreads
  <2>2. persistentID' \in [ThreadIDs -> PersistentIDs \union {NONE}]
    BY <1>1, <1>5 DEF StartThreads
  <2> QED BY <1>1, <2>1, <2>2 DEF SlotInv, TypeOK, entryVars, broadcastVars, rpcVars
<1>7. StartedInOrder'
  <2>1. PoolSize \in 0 .. MaxThreads
    BY ThreadPoolConstantsOK
  <2>2. \A t \in ThreadIDs : thread'[t] = "none" <=> t > PoolSize
    BY <1>5, ThreadPoolConstantsOK DEF PersistentIDs, ThreadIDs
  <2> QED BY <2>1, <2>2 DEF StartedInOrder
<1>8. UnusedOK'
  BY <1>1, <1>3, <1>5, <1>4 DEF UnusedOK, Unused, entryVars
<1>9. RoomOK'
  <2>1. Unused' \subseteq ThreadIDs
    BY DEF Unused
  <2>2. IsFiniteSet(Unused') /\ Cardinality(Unused') \in Nat
    BY <2>1, NextIsUnused, FS_Subset, FS_CardinalityType
  <2>3. Cardinality(replacing') = 0
    BY <1>1, <1>4, FS_EmptySet
  <2> QED BY <2>2, <2>3 DEF RoomOK
<1>10. ClientOK' /\ ReportOK'
  BY <1>1, <1>2, <1>3, <1>5 DEF SlotInv, ClientOK, ReportOK, Known, entryVars
<1>11. AtMostOne'
  BY <1>1, <1>4, <1>5 DEF AtMostOne, Occupies
<1>12. AtLeastOne'
  BY <1>5, IDsDiffer DEF AtLeastOne, Occupies
<1>13. EntriesOK'
  BY <1>1, <1>4, <1>5 DEF EntriesOK
<1> QED BY <1>2, <1>6, <1>7, <1>8, <1>9, <1>10, <1>11, <1>12, <1>13 DEF Keeps, SlotInv

(* The thread that replaces another takes its slot. *)
LEMMA ReplaceKeeps ==
    ASSUME SlotInv, NEW t \in ThreadIDs, Replace(t)
    PROVE  Keeps
<1>1. /\ main = "up" /\ t \in replacing /\ replacing' = replacing \ {t}
      /\ UNCHANGED <<poolVars, entryVars, waiting, broadcastVars, rpcVars>>
  BY DEF Replace
<1>2. /\ adding[t] = "added" /\ thread[t] = "exited"
      /\ persistentIDToThread[persistentID[t]] = t
      /\ Known(t) => ~bShuttingDown
      /\ ~bShuttingDown => Known(t) /\ threadState[t].exited
  BY <1>1 DEF SlotInv, EntriesOK
<1>3. PICK p \in PersistentIDs : p = persistentID[t]
  BY <1>2 DEF SlotInv, UnusedOK, Unused
<1>4. CASE bShuttingDown
  <2>1. UNCHANGED <<thread, persistentID, adding>>
    BY <1>2, <1>4 DEF Replace, CanReplace
  <2>2. TypeOK'
    BY <1>1, <2>1 DEF SlotInv, TypeOK, poolVars, entryVars, broadcastVars, rpcVars
  <2>3. StartedInOrder' /\ UnusedOK' /\ RoomOK' /\ ClientOK' /\ ReportOK'
    BY <1>1, <1>4, <2>1
       DEF SlotInv, StartedInOrder, UnusedOK, RoomOK, ClientOK, ReportOK, Unused, Known, poolVars,
           entryVars
  <2>4. AtMostOne' /\ AtLeastOne'
    BY <1>1, <1>4, <2>1 DEF SlotInv, AtMostOne, AtLeastOne, Occupies, poolVars
  <2>5. EntriesOK'
    BY <1>1, <1>4, <2>1 DEF SlotInv, EntriesOK, Known, poolVars, entryVars
  <2> QED BY <2>1, <2>2, <2>3, <2>4, <2>5 DEF Keeps, SlotInv, NoStart
<1>5. CASE ~bShuttingDown
  <2>1. StartThreads({NextThreadID}, [v \in {NextThreadID} |-> persistentID[t]])
    BY <1>2, <1>5 DEF Replace, CanReplace
  <2>2. PICK u \in Unused : u = NextThreadID
    <3>1. Cardinality(replacing) # 0
      BY <1>1, NextIsUnused, FS_EmptySet
    <3>2. Cardinality(Unused) # 0
      BY <1>5, <3>1, NextIsUnused DEF SlotInv, RoomOK
    <3> QED BY <3>2, NextIsUnused, FS_EmptySet
  <2>3. /\ u \in ThreadIDs /\ thread[u] = "none" /\ u # t
        /\ u \notin replacing /\ threadState[u] = NONE
    BY <1>2, <2>2 DEF Unused, SlotInv, UnusedOK
  <2>4. \A v \in Unused : v >= u
    BY <2>2, NextIsUnused
  <2>5. /\ thread' = [thread EXCEPT ![u] = "starting"]
        /\ adding' = [adding EXCEPT ![u] = "starting"]
        /\ persistentID' = [persistentID EXCEPT ![u] = p]
    BY <1>3, <2>1, <2>2, <2>3 DEF StartThreads, SlotInv, TypeOK
  <2>6. TypeOK'
    BY <1>1, <1>3, <2>5 DEF SlotInv, TypeOK, poolVars, entryVars, broadcastVars, rpcVars
  <2>7. Unused' = Unused \ {u}
    BY <2>3, <2>5 DEF Unused, SlotInv, TypeOK
  <2>8. StartedInOrder'
    <3>1. u \in 0 .. MaxThreads /\ u \in Nat
      BY <2>3, ThreadPoolConstantsOK DEF ThreadIDs
    <3>2. \A v \in ThreadIDs : v \in Nat /\ (thread[v] = "none" <=> v >= u)
      BY <2>3, <2>4, <3>1, ThreadPoolConstantsOK DEF SlotInv, StartedInOrder, Unused, ThreadIDs
    <3>3. \A v \in ThreadIDs : thread'[v] = "none" <=> v > u
      BY <2>5, <3>1, <3>2 DEF SlotInv, TypeOK
    <3> QED BY <3>1, <3>3 DEF StartedInOrder
  <2>9. \A v \in ThreadIDs \ {u} : /\ thread'[v] = thread[v] /\ adding'[v] = adding[v]
                                   /\ persistentID'[v] = persistentID[v]
    BY <2>5 DEF SlotInv, TypeOK
  <2>10. thread'[u] = "starting" /\ adding'[u] = "starting" /\ persistentID'[u] = p
    BY <2>3, <2>5 DEF SlotInv, TypeOK
  <2>11. UnusedOK'
    <3>1. \A v \in Unused' : /\ adding'[v] = "no" /\ persistentID'[v] = NONE
                            /\ threadState'[v] = NONE /\ v \notin replacing'
      BY <1>1, <2>7, <2>9 DEF SlotInv, UnusedOK, Unused, entryVars
    <3>2. \A v \in ThreadIDs \ Unused' : adding'[v] # "no" /\ persistentID'[v] \in PersistentIDs
      BY <2>7, <2>9, <2>10 DEF SlotInv, UnusedOK
    <3>3. main' # "idle"
      BY <1>1 DEF poolVars
    <3>4. \A v \in ThreadIDs : thread'[v] = "starting" => adding'[v] # "added"
      BY <2>9, <2>10 DEF SlotInv, UnusedOK
    <3> QED BY <3>1, <3>2, <3>3, <3>4 DEF UnusedOK
  <2>12. RoomOK'
    <3>1. /\ Cardinality(Unused') = Cardinality(Unused) - 1
          /\ Cardinality(replacing') = Cardinality(replacing) - 1
      BY <1>1, <2>2, <2>7, NextIsUnused, FS_RemoveElement
    <3> QED BY <1>5, <3>1, NextIsUnused DEF SlotInv, RoomOK
  <2>13. ClientOK' /\ ReportOK'
    <3>1. ClientOK'
      BY <1>1, <2>3, <2>9, <2>10 DEF SlotInv, ClientOK, Known, poolVars, entryVars
    <3>2. u \notin waiting
      BY <2>2 DEF SlotInv, UnusedOK, ReportOK, Unused
    <3>3. ReportOK'
      BY <1>1, <2>9, <2>10, <3>2 DEF SlotInv, ReportOK, poolVars, entryVars
    <3> QED BY <3>1, <3>3
  <2>14. \A v \in ThreadIDs \ {u} : Occupies(v)' <=> Occupies(v) /\ v # t
    BY <1>1, <1>2, <2>9 DEF Occupies
  <2>15. Occupies(u)' /\ Occupies(t) /\ ~Occupies(t)'
    BY <1>1, <1>2, <2>3, <2>10, <2>14 DEF Occupies
  <2>16. AtMostOne'
    <3>1. \A v \in ThreadIDs \ {u} : Occupies(v)' => persistentID'[v] # p
      BY <1>3, <2>9, <2>14, <2>15 DEF SlotInv, AtMostOne
    <3>2. \A v, x \in ThreadIDs \ {u} :
            Occupies(v)' /\ Occupies(x)' /\ persistentID'[v] = persistentID'[x] => v = x
      BY <2>9, <2>14 DEF SlotInv, AtMostOne
    <3> QED BY <2>10, <3>1, <3>2 DEF AtMostOne
  <2>17. AtLeastOne'
    <3> SUFFICES ASSUME NEW q \in PersistentIDs
                 PROVE  \E h \in ThreadIDs : persistentID'[h] = q /\ Occupies(h)'
      BY DEF AtLeastOne
    <3>1. CASE q = p
      BY <2>3, <2>10, <2>15, <3>1
    <3>2. CASE q # p
      <4>1. PICK h \in ThreadIDs : persistentID[h] = q /\ Occupies(h)
        BY <1>1, <1>5 DEF SlotInv, AtLeastOne
      <4>2. h # t /\ h # u
        BY <1>3, <2>2, <3>2, <4>1, IDsDiffer DEF SlotInv, UnusedOK
      <4> QED BY <2>9, <2>14, <4>1, <4>2
    <3> QED BY <3>1, <3>2
  <2>18. EntriesOK'
    <3>1. \A v \in ThreadIDs : Known(v)' <=> Known(v)
      BY <1>1 DEF Known, entryVars
    <3>2. replacing' \subseteq ThreadIDs \ {u}
      BY <1>1, <2>3 DEF SlotInv, TypeOK
    <3> QED BY <1>1, <2>9, <2>10, <3>1, <3>2 DEF SlotInv, EntriesOK, poolVars, entryVars
  <2> QED BY <1>5, <2>6, <2>8, <2>11, <2>12, <2>13, <2>16, <2>17, <2>18 DEF Keeps, SlotInv
<1> QED BY <1>4, <1>5
-----------------------------------------------------------------------------
(* The other steps *)

(* A thread that was started goes on, or ends. *)
LEMMA ThreadMoves ==
    ASSUME SlotInv, NEW t \in ThreadIDs \ Unused, NEW x, x # "none",
           thread' = [thread EXCEPT ![t] = x], x = "starting" => adding'[t] # "added",
           main # "idle", main' # "idle", UNCHANGED persistentID, adding'[t] # "no",
           \A v \in ThreadIDs \ {t} : adding'[v] = adding[v],
           \A v \in Unused : threadState'[v] = NONE,
           replacing' \subseteq replacing \union {t}
    PROVE  StartedInOrder' /\ UnusedOK' /\ Unused' = Unused /\ NoStart
<1>1. \A v \in ThreadIDs : /\ v # t => thread'[v] = thread[v]
                           /\ v = t => thread'[v] = x /\ thread[v] # "none"
  BY DEF SlotInv, TypeOK, Unused
<1>2. \A v \in ThreadIDs : thread'[v] = "none" <=> thread[v] = "none"
  BY <1>1
<1>3. StartedInOrder' /\ Unused' = Unused /\ NoStart
  BY <1>2 DEF SlotInv, StartedInOrder, Unused, NoStart
<1>4. UnusedOK'
  <2>1. \A v \in Unused' : /\ adding'[v] = "no" /\ persistentID'[v] = NONE
                          /\ threadState'[v] = NONE /\ v \notin replacing'
    BY <1>3 DEF SlotInv, UnusedOK, Unused
  <2>2. \A v \in ThreadIDs \ Unused' : adding'[v] # "no" /\ persistentID'[v] \in PersistentIDs
    BY <1>3 DEF SlotInv, UnusedOK
  <2>3. \A v \in ThreadIDs : thread'[v] = "starting" => adding'[v] # "added"
    BY <1>1 DEF SlotInv, UnusedOK
  <2> QED BY <2>1, <2>2, <2>3 DEF UnusedOK
<1> QED BY <1>3, <1>4

LEMMA OnlineKeeps ==
    ASSUME SlotInv, NEW t \in ThreadIDs, Online(t)
    PROVE  Keeps
<1>1. /\ main = "up" /\ thread[t] = "starting"
      /\ thread' = [thread EXCEPT ![t] = "online"]
      /\ UNCHANGED <<poolVars, persistentID, replacing, broadcastVars, rpcVars>>
  BY DEF Online
<1>2. t \in ThreadIDs \ Unused
  BY <1>1 DEF Unused
<1>3. PICK p \in PersistentIDs : p = persistentID[t]
  BY <1>2 DEF SlotInv, UnusedOK
<1>4. \A v \in ThreadIDs \ {t} : thread'[v] = thread[v]
  BY <1>1 DEF SlotInv, TypeOK
<1>5. thread'[t] = "online" /\ t \notin replacing
  BY <1>1 DEF SlotInv, TypeOK, EntriesOK
<1>6. CASE /\ adding[t] = "starting"
           /\ adding' = [adding EXCEPT ![t] = "added"]
           /\ threadState' = [threadState EXCEPT
                ![t] = [client |-> FALSE, ready |-> FALSE, exited |-> FALSE]]
           /\ persistentIDToThread' = [persistentIDToThread EXCEPT ![persistentID[t]] = t]
           /\ waiting' = waiting \union {t}
           /\ UNCHANGED unknownReady
  <2>0. PICK s \in States : s = [client |-> FALSE, ready |-> FALSE, exited |-> FALSE]
    BY DEF States
  <2>1. s # NONE /\ ~s.ready
    BY <2>0, IDsDiffer
  <2>2. /\ threadState' = [threadState EXCEPT ![t] = s]
        /\ persistentIDToThread' = [persistentIDToThread EXCEPT ![p] = t]
    BY <1>3, <1>6, <2>0
  <2>3. /\ threadState'[t] = s /\ adding'[t] = "added"
        /\ persistentIDToThread'[p] = t
        /\ \A v \in ThreadIDs \ {t} : threadState'[v] = threadState[v] /\ adding'[v] = adding[v]
        /\ \A q \in PersistentIDs \ {p} : persistentIDToThread'[q] = persistentIDToThread[q]
    BY <1>6, <2>2 DEF SlotInv, TypeOK
  <2>4. TypeOK'
    <3>1. /\ adding' \in [ThreadIDs -> {"no", "starting", "added", "gaveUp"}]
          /\ waiting' \subseteq ThreadIDs
      BY <1>6 DEF SlotInv, TypeOK
    <3>2. threadState' \in [ThreadIDs -> States \union {NONE}]
      BY <2>2 DEF SlotInv, TypeOK
    <3>3. persistentIDToThread' \in [PersistentIDs -> ThreadIDs \union {NONE}]
      BY <2>2 DEF SlotInv, TypeOK
    <3>4. thread' \in [ThreadIDs -> {"none", "starting", "online", "connected", "serving",
                                "exited"}]
      BY <1>1 DEF SlotInv, TypeOK
    <3> QED BY <1>1, <1>6, <3>1, <3>2, <3>3, <3>4
            DEF SlotInv, TypeOK, poolVars, broadcastVars, rpcVars
  <2>5. StartedInOrder' /\ UnusedOK' /\ Unused' = Unused /\ NoStart
    <3>1. \A v \in Unused : threadState'[v] = NONE
      BY <1>2, <2>3 DEF SlotInv, UnusedOK, Unused
    <3> QED BY <1>1, <1>2, <2>3, <3>1, ThreadMoves DEF poolVars
  <2>6. RoomOK'
    BY <1>1, <2>5 DEF SlotInv, RoomOK, poolVars
  <2>7. ClientOK' /\ ReportOK'
    <3>1. ClientOK'
      BY <1>1, <1>4, <1>5, <2>1, <2>3 DEF SlotInv, ClientOK, Known, poolVars
    <3>2. ReportOK'
      BY <1>1, <1>4, <1>5, <1>6, <2>3 DEF SlotInv, ReportOK, poolVars
    <3> QED BY <3>1, <3>2
  <2>8. \A v \in ThreadIDs : Occupies(v)' <=> Occupies(v)
    BY <1>1, <1>4, <1>5, <1>6, <2>3 DEF Occupies
  <2>9. AtMostOne' /\ AtLeastOne'
    BY <1>1, <2>8 DEF SlotInv, AtMostOne, AtLeastOne, poolVars
  <2>10. \A v \in ThreadIDs \ {t} : Occupies(v) => persistentID[v] # p
    BY <1>3, <1>6 DEF SlotInv, AtMostOne, Occupies
  <2>11. EntriesOK'
    <3>1. ASSUME NEW v \in replacing
          PROVE  /\ adding'[v] = "added" /\ thread'[v] = "exited"
                 /\ persistentIDToThread'[persistentID[v]] = v
                 /\ Known(v)' => ~bShuttingDown
                 /\ ~bShuttingDown => Known(v)' /\ threadState'[v].exited
      <4>1. v \in ThreadIDs \ {t} /\ adding[v] = "added" /\ thread[v] = "exited"
        BY <1>5, <3>1 DEF SlotInv, TypeOK, EntriesOK
      <4>2. persistentID[v] \in PersistentIDs \ {p}
        BY <2>10, <3>1, <4>1 DEF SlotInv, UnusedOK, Unused, Occupies
      <4> QED BY <1>4, <2>3, <3>1, <4>1, <4>2 DEF SlotInv, EntriesOK, Known
    <3>2. ASSUME ~bShuttingDown, NEW v \in ThreadIDs, adding'[v] = "added", thread'[v] # "exited"
          PROVE  Known(v)' /\ persistentIDToThread'[persistentID[v]] = v
      <4>1. CASE v = t
        BY <1>3, <2>1, <2>3, <4>1, IDsDiffer DEF Known
      <4>2. CASE v # t
        <5>1. adding[v] = "added" /\ thread[v] # "exited"
          BY <1>4, <2>3, <3>2, <4>2
        <5>2. persistentID[v] \in PersistentIDs \ {p}
          BY <2>10, <4>2, <5>1 DEF SlotInv, UnusedOK, Unused, Occupies
        <5> QED BY <2>3, <3>2, <4>2, <5>1, <5>2 DEF SlotInv, EntriesOK, Known
      <4> QED BY <4>1, <4>2
    <3> QED BY <1>1, <3>1, <3>2 DEF EntriesOK, poolVars
  <2> QED BY <2>4, <2>5, <2>6, <2>7, <2>9, <2>11 DEF Keeps, SlotInv
<1>7. CASE adding[t] = "gaveUp" /\ UNCHANGED <<adding, entryVars, waiting>>
  <2>1. TypeOK'
    BY <1>1, <1>7 DEF SlotInv, TypeOK, poolVars, entryVars, broadcastVars, rpcVars
  <2>2. StartedInOrder' /\ UnusedOK' /\ Unused' = Unused /\ NoStart
    <3>1. \A v \in Unused : threadState'[v] = NONE
      BY <1>7 DEF SlotInv, UnusedOK, Unused, entryVars
    <3> QED BY <1>1, <1>2, <1>7, <3>1, ThreadMoves DEF poolVars, entryVars
  <2>3. RoomOK' /\ ClientOK' /\ ReportOK'
    BY <1>1, <1>4, <1>5, <1>7, <2>2
       DEF SlotInv, RoomOK, ClientOK, ReportOK, Known, poolVars, entryVars
  <2>4. \A v \in ThreadIDs : Occupies(v)' <=> Occupies(v)
    BY <1>1, <1>4, <1>5, <1>7 DEF Occupies
  <2>5. AtMostOne' /\ AtLeastOne'
    BY <1>1, <2>4 DEF SlotInv, AtMostOne, AtLeastOne, poolVars
  <2>6. EntriesOK'
    BY <1>1, <1>4, <1>5, <1>7 DEF SlotInv, EntriesOK, TypeOK, Known, poolVars, entryVars
  <2> QED BY <2>1, <2>2, <2>3, <2>5, <2>6 DEF Keeps, SlotInv
<1> QED BY <1>6, <1>7 DEF Online

LEMMA OnlineTimeoutKeeps ==
    ASSUME SlotInv, NEW t \in ThreadIDs, OnlineTimeout(t)
    PROVE  Keeps
<1>1. /\ main = "up" /\ adding[t] = "starting" /\ adding' = [adding EXCEPT ![t] = "gaveUp"]
      /\ UNCHANGED <<poolVars, entryVars, thread, persistentID, waiting, replacing,
                     broadcastVars, rpcVars>>
  BY DEF OnlineTimeout
<1>2. adding'[t] = "gaveUp" /\ \A v \in ThreadIDs \ {t} : adding'[v] = adding[v]
  BY <1>1 DEF SlotInv, TypeOK
<1>3. TypeOK'
  BY <1>1 DEF SlotInv, TypeOK, poolVars, entryVars, broadcastVars, rpcVars
<1>4. StartedInOrder' /\ UnusedOK' /\ RoomOK' /\ ClientOK' /\ ReportOK'
  BY <1>1, <1>2
     DEF SlotInv, StartedInOrder, UnusedOK, RoomOK, ClientOK, ReportOK, Unused, Known, poolVars,
         entryVars
<1>5. \A v \in ThreadIDs : Occupies(v)' <=> Occupies(v)
  BY <1>1, <1>2 DEF Occupies
<1>6. AtMostOne' /\ AtLeastOne'
  BY <1>1, <1>5 DEF SlotInv, AtMostOne, AtLeastOne, poolVars
<1>7. EntriesOK'
  BY <1>1, <1>2 DEF SlotInv, EntriesOK, TypeOK, Known, poolVars, entryVars
<1> QED BY <1>1, <1>3, <1>4, <1>6, <1>7 DEF Keeps, SlotInv, NoStart

(* An entry that keeps its exited is no other entry for the slots. *)
LEMMA EntryChangeKeeps ==
    ASSUME SlotInv, main # "idle", main' # "idle",
           UNCHANGED <<bShuttingDown, persistentIDToThread, persistentID, adding, replacing>>,
           \A v \in ThreadIDs : /\ Known(v)' <=> Known(v)
                                /\ Known(v) => threadState'[v].exited = threadState[v].exited
                                /\ thread'[v] = "exited" <=> thread[v] = "exited"
    PROVE  AtMostOne' /\ AtLeastOne' /\ EntriesOK'
<1>1. \A v \in ThreadIDs : Occupies(v)' <=> Occupies(v)
  BY DEF Occupies
<1>2. AtMostOne' /\ AtLeastOne'
  BY <1>1 DEF SlotInv, AtMostOne, AtLeastOne
<1>3. EntriesOK'
  BY DEF SlotInv, TypeOK, EntriesOK
<1> QED BY <1>2, <1>3

LEMMA ConnectKeeps ==
    ASSUME SlotInv, NEW t \in ThreadIDs, ConnectToEndpoint(t)
    PROVE  Keeps
<1>1. /\ main = "up" /\ main' \in {"up", "failed"} /\ thread[t] = "online" /\ t \in waiting
      /\ thread' = [thread EXCEPT ![t] = "connected"] /\ waiting' = waiting \ {t}
      /\ Known(t) => threadState' = [threadState EXCEPT ![t].client = TRUE]
      /\ ~Known(t) => UNCHANGED threadState
      /\ UNCHANGED <<bShuttingDown, exitStage, failures, persistentIDToThread, unknownReady,
                     persistentID, adding, replacing, broadcastVars, rpcVars>>
  BY DEF ConnectToEndpoint, MakeClient
<1>2. thread'[t] = "connected" /\ \A v \in ThreadIDs \ {t} : thread'[v] = thread[v]
  BY <1>1 DEF SlotInv, TypeOK
<1>3. /\ \A v \in ThreadIDs : Known(v)' <=> Known(v)
      /\ \A v \in ThreadIDs \ {t} : threadState'[v] = threadState[v]
      /\ Known(t) => threadState'[t].exited = threadState[t].exited /\ threadState'[t].client
      /\ threadState' \in [ThreadIDs -> States \union {NONE}]
  <2>1. CASE ~Known(t)
    BY <1>1, <2>1 DEF SlotInv, TypeOK, Known
  <2>2. CASE Known(t)
    <3>1. threadState[t] \in States
      BY <2>2 DEF SlotInv, TypeOK, Known
    <3>2. PICK s \in States : s = [threadState[t] EXCEPT !.client = TRUE]
      BY <3>1 DEF States
    <3>3. s.client /\ s.exited = threadState[t].exited /\ s # NONE
      BY <3>1, <3>2, IDsDiffer DEF States
    <3>4. threadState' = [threadState EXCEPT ![t] = s]
      BY <1>1, <2>2, <3>2
    <3>5. threadState'[t] = s /\ \A v \in ThreadIDs \ {t} : threadState'[v] = threadState[v]
      BY <3>4 DEF SlotInv, TypeOK
    <3>6. threadState' \in [ThreadIDs -> States \union {NONE}]
      BY <3>4 DEF SlotInv, TypeOK
    <3> QED BY <2>2, <3>3, <3>5, <3>6 DEF Known
  <2> QED BY <2>1, <2>2
<1>4. TypeOK'
  BY <1>1, <1>3 DEF SlotInv, TypeOK, broadcastVars, rpcVars
<1>5. StartedInOrder' /\ UnusedOK' /\ Unused' = Unused /\ NoStart
  <2>1. t \in ThreadIDs \ Unused
    BY <1>1 DEF Unused
  <2>2. \A v \in Unused : threadState'[v] = NONE
    BY <1>3, <2>1 DEF SlotInv, UnusedOK, Unused
  <2>3. adding'[t] # "no"
    BY <1>1, <2>1 DEF SlotInv, UnusedOK
  <2> QED BY <1>1, <2>1, <2>2, <2>3, ThreadMoves
<1>6. RoomOK' /\ ClientOK' /\ ReportOK'
  BY <1>1, <1>2, <1>3, <1>5 DEF SlotInv, RoomOK, ClientOK, ReportOK, Known
<1>7. AtMostOne' /\ AtLeastOne' /\ EntriesOK'
  BY <1>1, <1>2, <1>3, EntryChangeKeeps
<1> QED BY <1>4, <1>5, <1>6, <1>7 DEF Keeps, SlotInv

(* Marking entries ready changes nothing else about them. *)
LEMMA MarkReadyKeeps ==
    ASSUME SlotInv, NEW known, \A u \in known : Known(u), MarkReady(known)
    PROVE  /\ threadState' \in [ThreadIDs -> States \union {NONE}]
           /\ \A u \in ThreadIDs :
                /\ Known(u)' <=> Known(u)
                /\ u \notin known => threadState'[u] = threadState[u]
                /\ Known(u) => /\ threadState'[u].exited = threadState[u].exited
                               /\ threadState'[u].client = threadState[u].client
<1>1. ASSUME NEW u \in ThreadIDs
      PROVE  /\ threadState'[u] \in States \union {NONE}
             /\ Known(u)' <=> Known(u)
             /\ u \notin known => threadState'[u] = threadState[u]
             /\ Known(u) => /\ threadState'[u].exited = threadState[u].exited
                            /\ threadState'[u].client = threadState[u].client
  <2>1. CASE u \notin known
    <3>1. threadState'[u] = threadState[u]
      BY <2>1 DEF MarkReady
    <3> QED BY <3>1, <2>1 DEF SlotInv, TypeOK, Known
  <2>2. CASE u \in known
    <3>1. threadState[u] \in States
      BY <2>2 DEF SlotInv, TypeOK, Known
    <3>2. threadState'[u] = [threadState[u] EXCEPT !.ready = TRUE]
      BY <2>2 DEF MarkReady
    <3>3. /\ threadState'[u] \in States
          /\ threadState'[u].exited = threadState[u].exited
          /\ threadState'[u].client = threadState[u].client
      BY <3>1, <3>2 DEF States
    <3> QED BY <2>2, <3>3, IDsDiffer DEF Known
  <2> QED BY <2>1, <2>2
<1>2. threadState' = [u \in ThreadIDs |-> threadState'[u]]
  BY DEF MarkReady
<1> QED BY <1>1, <1>2

(* A thread that reports has its entry and its client, or gracefulExit()   *)
(* has begun.                                                              *)
LEMMA ReportKeeps ==
    ASSUME SlotInv, NEW t \in ThreadIDs, WorkerServicesReady(t)
    PROVE  Keeps
<1>1. /\ main = "up" /\ main' = "up" /\ thread[t] = "connected"
      /\ thread' = [thread EXCEPT ![t] = "serving"]
      /\ \/ Known(t) /\ MarkReady({t}) /\ UNCHANGED unknownReady
         \/ ~Known(t) /\ unknownReady' = unknownReady \union {t} /\ UNCHANGED threadState
      /\ UNCHANGED <<bShuttingDown, exitStage, failures, persistentIDToThread, persistentID, adding,
                     waiting, replacing, broadcastVars, rpcVars>>
  BY DEF WorkerServicesReady, poolVars
<1>2. thread'[t] = "serving" /\ \A v \in ThreadIDs \ {t} : thread'[v] = thread[v]
  BY <1>1 DEF SlotInv, TypeOK
<1>3. /\ threadState' \in [ThreadIDs -> States \union {NONE}]
      /\ \A v \in ThreadIDs :
           /\ Known(v)' <=> Known(v)
           /\ v # t => threadState'[v] = threadState[v]
           /\ Known(v) => /\ threadState'[v].exited = threadState[v].exited
                          /\ threadState'[v].client = threadState[v].client
  <2>1. CASE UNCHANGED threadState
    BY <2>1 DEF SlotInv, TypeOK, Known
  <2>2. CASE Known(t) /\ MarkReady({t})
    BY <2>2, MarkReadyKeeps
  <2> QED BY <1>1, <2>1, <2>2
<1>4. TypeOK'
  <2>1. unknownReady' \subseteq ThreadIDs
    BY <1>1 DEF SlotInv, TypeOK
  <2> QED BY <1>1, <1>3, <2>1 DEF SlotInv, TypeOK, broadcastVars, rpcVars
<1>5. StartedInOrder' /\ UnusedOK' /\ Unused' = Unused /\ NoStart
  <2>1. t \in ThreadIDs \ Unused
    BY <1>1 DEF Unused
  <2>2. \A v \in Unused : threadState'[v] = NONE
    BY <1>3, <2>1 DEF SlotInv, UnusedOK, Unused
  <2>3. adding'[t] # "no"
    BY <1>1, <2>1 DEF SlotInv, UnusedOK
  <2> QED BY <1>1, <2>1, <2>2, <2>3, ThreadMoves
<1>6. RoomOK'
  BY <1>1, <1>5 DEF SlotInv, RoomOK
<1>7. ClientOK'
  BY <1>1, <1>2, <1>3 DEF SlotInv, ClientOK, Known
<1>8. ReportOK'
  <2>1. ~bShuttingDown => Known(t)
    BY <1>1 DEF SlotInv, ReportOK, EntriesOK
  <2> QED BY <1>1, <1>2, <2>1 DEF SlotInv, ReportOK
<1>9. AtMostOne' /\ AtLeastOne' /\ EntriesOK'
  BY <1>1, <1>2, <1>3, EntryChangeKeeps
<1> QED BY <1>4, <1>5, <1>6, <1>7, <1>8, <1>9 DEF Keeps, SlotInv

LEMMA ReportRetryKeeps ==
    ASSUME SlotInv, NEW t \in ThreadIDs, WorkerServicesReadyRetry(t)
    PROVE  Keeps
<1> DEFINE known == IF Known(t) THEN {t} ELSE {u \in ThreadIDs : Known(u)}
<1>1. /\ main = "up" /\ t \in unknownReady /\ unknownReady' = unknownReady \ {t}
      /\ MarkReady(known)
      /\ UNCHANGED <<poolVars, persistentIDToThread, threadVars, broadcastVars, rpcVars>>
  BY DEF WorkerServicesReadyRetry
<1>2. bShuttingDown
  BY <1>1 DEF SlotInv, ReportOK
<1>3. \A u \in known : Known(u)
  OBVIOUS
<1>4. /\ threadState' \in [ThreadIDs -> States \union {NONE}]
      /\ \A u \in ThreadIDs :
           /\ Known(u)' <=> Known(u)
           /\ u \notin known => threadState'[u] = threadState[u]
           /\ Known(u) => /\ threadState'[u].exited = threadState[u].exited
                          /\ threadState'[u].client = threadState[u].client
  <2> HIDE DEF known
  <2> QED BY <1>1, <1>3, MarkReadyKeeps
<1>5. TypeOK'
  BY <1>1, <1>4 DEF SlotInv, TypeOK, poolVars, threadVars, broadcastVars, rpcVars
<1>6. StartedInOrder' /\ RoomOK' /\ NoStart
  BY <1>1 DEF SlotInv, StartedInOrder, RoomOK, NoStart, Unused, poolVars, threadVars
<1>7. UnusedOK'
  <2>1. \A u \in Unused : threadState'[u] = NONE
    BY <1>4 DEF SlotInv, UnusedOK, Unused, Known
  <2> QED BY <1>1, <2>1 DEF SlotInv, UnusedOK, Unused, poolVars, threadVars
<1>8. ClientOK' /\ ReportOK'
  BY <1>1, <1>2, <1>4 DEF SlotInv, ClientOK, ReportOK, Known, poolVars, threadVars
<1>9. AtMostOne' /\ AtLeastOne' /\ EntriesOK'
  BY <1>1, <1>4, EntryChangeKeeps DEF poolVars, threadVars
<1> QED BY <1>5, <1>6, <1>7, <1>8, <1>9 DEF Keeps, SlotInv
-----------------------------------------------------------------------------
(* Threads end *)

(* Without a listener the slot is neither lost nor passed on. *)
LEMMA UnheardExitsKeep ==
    ASSUME SlotInv, NEW t \in ThreadIDs, ExitBeforeOnline(t) \/ ExitUnheard(t)
    PROVE  Keeps
<1>1. /\ main = "up" /\ thread[t] # "none" /\ adding[t] # "added"
      /\ thread' = [thread EXCEPT ![t] = "exited"]
      /\ main' \in {"up", "crashed"}
      /\ UNCHANGED <<bShuttingDown, exitStage, failures, entryVars, persistentID, adding,
                     waiting, replacing, broadcastVars, rpcVars>>
  BY DEF ExitBeforeOnline, ExitUnheard, NobodyListens, Running, SlotInv, UnusedOK
<1>2. t \in ThreadIDs \ Unused
  BY <1>1 DEF Unused
<1>3. thread'[t] = "exited" /\ \A v \in ThreadIDs \ {t} : thread'[v] = thread[v]
  BY <1>1 DEF SlotInv, TypeOK
<1>4. TypeOK'
  BY <1>1 DEF SlotInv, TypeOK, entryVars, broadcastVars, rpcVars
<1>5. StartedInOrder' /\ UnusedOK' /\ Unused' = Unused /\ NoStart
  <2>1. \A v \in Unused : threadState'[v] = NONE
    BY <1>1 DEF SlotInv, UnusedOK, entryVars
  <2>2. adding'[t] # "no"
    BY <1>1, <1>2 DEF SlotInv, UnusedOK
  <2> QED BY <1>1, <1>2, <2>1, <2>2, ThreadMoves
<1>6. RoomOK' /\ ClientOK' /\ ReportOK'
  BY <1>1, <1>3, <1>5 DEF SlotInv, RoomOK, ClientOK, ReportOK, Known, entryVars
<1>7. \A v \in ThreadIDs : Occupies(v)' <=> Occupies(v)
  BY <1>1, <1>3 DEF Occupies
<1>8. AtMostOne' /\ AtLeastOne'
  BY <1>1, <1>7 DEF SlotInv, AtMostOne, AtLeastOne
<1>9. EntriesOK'
  BY <1>1, <1>3 DEF SlotInv, EntriesOK, TypeOK, Known, entryVars
<1> QED BY <1>4, <1>5, <1>6, <1>8, <1>9 DEF Keeps, SlotInv

LEMMA MarkedExitedKeeps ==
    ASSUME SlotInv, NEW t \in ThreadIDs, threadState' = MarkedExited(t)
    PROVE  /\ threadState' \in [ThreadIDs -> States \union {NONE}]
           /\ \A v \in ThreadIDs \ {t} : threadState'[v] = threadState[v]
           /\ Known(t)' <=> Known(t)
           /\ Known(t) => /\ threadState'[t].exited
                          /\ threadState'[t].client = threadState[t].client
                          /\ threadState'[t].ready = threadState[t].ready
<1>1. CASE ~Known(t)
  <2>1. threadState' = threadState
    BY <1>1 DEF MarkedExited, SlotInv, TypeOK
  <2> QED BY <1>1, <2>1 DEF SlotInv, TypeOK, Known
<1>2. CASE Known(t)
  <2>1. threadState[t] \in States
    BY <1>2 DEF SlotInv, TypeOK, Known
  <2>2. PICK s \in States : s = [threadState[t] EXCEPT !.exited = TRUE]
    BY <2>1 DEF States
  <2>3. s.exited /\ s.client = threadState[t].client /\ s.ready = threadState[t].ready /\ s # NONE
    BY <2>1, <2>2, IDsDiffer DEF States
  <2>4. threadState' = [threadState EXCEPT ![t] = s]
    BY <1>2, <2>2 DEF MarkedExited
  <2>5. threadState'[t] = s /\ \A v \in ThreadIDs \ {t} : threadState'[v] = threadState[v]
    BY <2>4 DEF SlotInv, TypeOK
  <2>6. threadState' \in [ThreadIDs -> States \union {NONE}]
    BY <2>4 DEF SlotInv, TypeOK
  <2> QED BY <1>2, <2>3, <2>5, <2>6 DEF Known
<1> QED BY <1>1, <1>2

LEMMA RejectedTypes ==
    ASSUME SlotInv, NEW t \in ThreadIDs, CallsRejected(t)
    PROVE  /\ part' \in [ThreadIDs -> {"none", "pending", "resolved", "stuck"}]
           /\ broadcast' \in {"idle", "pending", "resolved", "rejected"}
           /\ rpcTo' \in ThreadIDs \union {NONE} /\ triesLeft' \in 0 .. MaxTries
           /\ rpcWorkerState' \in {"idle", "checking", "asleep", "called", "settled"}
BY DEF CallsRejected, PartFailed, broadcastVars, SlotInv, TypeOK

(* The slot passes to the replacement under way, or the pool ends. *)
LEMMA ThreadExitKeeps ==
    ASSUME SlotInv, NEW t \in ThreadIDs, ThreadExit(t)
    PROVE  Keeps
<1>1. /\ main = "up" /\ thread[t] \notin {"none", "exited"} /\ adding[t] = "added"
      /\ ~bShuttingDown => Cardinality(Unused) > Cardinality(replacing)
      /\ thread' = [thread EXCEPT ![t] = "exited"]
      /\ waiting' = waiting \ {t}
      /\ failures' \in 0 .. (failures + 1)
      /\ CallsRejected(t)
      /\ UNCHANGED <<main, persistentIDToThread, unknownReady, persistentID, adding>>
  BY DEF ThreadExit, Running
<1>2. t \in ThreadIDs \ Unused /\ t \notin replacing
  BY <1>1 DEF Unused, SlotInv, EntriesOK
<1>3. thread'[t] = "exited" /\ \A v \in ThreadIDs \ {t} : thread'[v] = thread[v]
  BY <1>1 DEF SlotInv, TypeOK
<1>4. ASSUME threadState' \in [ThreadIDs -> States \union {NONE}],
             exitStage' \in {"no", "waiting", "stopping"}, bShuttingDown' \in BOOLEAN,
             replacing' \subseteq replacing \union {t}
      PROVE  TypeOK'
  <2>1. failures' \in Nat
    BY <1>1 DEF SlotInv, TypeOK
  <2>2. replacing' \subseteq ThreadIDs /\ waiting' \subseteq ThreadIDs
    BY <1>1, <1>4 DEF SlotInv, TypeOK
  <2>3. thread' \in [ThreadIDs -> {"none", "starting", "online", "connected", "serving",
                                "exited"}]
    BY <1>1 DEF SlotInv, TypeOK
  <2> QED BY <1>1, <1>4, <2>1, <2>2, <2>3, RejectedTypes DEF SlotInv, TypeOK
<1>5. ASSUME \A v \in Unused : threadState'[v] = NONE, replacing' \subseteq replacing \union {t}
      PROVE  StartedInOrder' /\ UnusedOK' /\ Unused' = Unused /\ NoStart
  <2>1. adding'[t] # "no"
    BY <1>1
  <2> QED BY <1>1, <1>2, <1>5, <2>1, ThreadMoves
<1>6. \A v \in ThreadIDs : persistentID'[v] = persistentID[v] /\ adding'[v] = adding[v]
  BY <1>1
<1>7. Occupies(t)
  BY <1>1 DEF Occupies
<1>8. CASE UNCHANGED replacing /\ bShuttingDown'
  <2>1. \A v \in ThreadIDs : Occupies(v)' => Occupies(v)
    BY <1>3, <1>6, <1>7, <1>8 DEF Occupies
  <2>2. AtMostOne' /\ AtLeastOne' /\ RoomOK'
    BY <1>6, <1>8, <2>1 DEF SlotInv, AtMostOne, AtLeastOne, RoomOK
  <2>3. CASE /\ bShuttingDown /\ threadState' = MarkedExited(t)
             /\ UNCHANGED <<bShuttingDown, exitStage>>
    <3>1. TypeOK'
      BY <1>4, <1>8, <2>3, MarkedExitedKeeps DEF SlotInv, TypeOK
    <3>2. StartedInOrder' /\ UnusedOK' /\ Unused' = Unused /\ NoStart
      <4>1. \A v \in Unused : threadState'[v] = NONE
        BY <1>2, <2>3, MarkedExitedKeeps DEF SlotInv, UnusedOK, Unused
      <4> QED BY <1>5, <1>8, <4>1
    <3>3. ClientOK' /\ ReportOK'
      BY <1>1, <1>3, <2>3, MarkedExitedKeeps DEF SlotInv, ClientOK, ReportOK, Known
    <3>4. EntriesOK'
      BY <1>1, <1>2, <1>3, <1>8, <2>3, MarkedExitedKeeps DEF SlotInv, EntriesOK, TypeOK, Known
    <3> QED BY <2>2, <3>1, <3>2, <3>3, <3>4 DEF Keeps, SlotInv
  <2>4. CASE BeginGracefulExit
    <3>1. \A v \in ThreadIDs : threadState'[v] = NONE /\ ~Known(v)'
      BY <2>4 DEF BeginGracefulExit, Known
    <3>2. TypeOK'
      BY <1>4, <1>8, <2>4 DEF BeginGracefulExit
    <3>3. StartedInOrder' /\ UnusedOK' /\ Unused' = Unused /\ NoStart
      BY <1>5, <1>8, <3>1 DEF Unused
    <3>4. ClientOK' /\ ReportOK'
      BY <1>1, <1>3, <1>8, <3>1 DEF SlotInv, ClientOK, ReportOK
    <3>5. EntriesOK'
      BY <1>1, <1>2, <1>3, <1>8, <3>1 DEF SlotInv, EntriesOK, TypeOK
    <3> QED BY <2>2, <3>2, <3>3, <3>4, <3>5 DEF Keeps, SlotInv
  <2> QED BY <1>8, <2>3, <2>4 DEF ThreadExit
<1>9. CASE /\ ~bShuttingDown /\ threadState' = MarkedExited(t)
           /\ replacing' = replacing \union {t} /\ UNCHANGED <<bShuttingDown, exitStage>>
  <2>1. TypeOK'
    BY <1>4, <1>9, MarkedExitedKeeps DEF SlotInv, TypeOK
  <2>2. StartedInOrder' /\ UnusedOK' /\ Unused' = Unused /\ NoStart
    <3>1. \A v \in Unused : threadState'[v] = NONE
      BY <1>2, <1>9, MarkedExitedKeeps DEF SlotInv, UnusedOK, Unused
    <3> QED BY <1>5, <1>9, <3>1
  <2>3. RoomOK'
    <3>1. Cardinality(replacing') = Cardinality(replacing) + 1
      BY <1>2, <1>9, NextIsUnused, FS_AddElement
    <3> QED BY <1>1, <1>9, <2>2, <3>1, NextIsUnused DEF RoomOK
  <2>4. ClientOK' /\ ReportOK'
    BY <1>1, <1>3, <1>9, MarkedExitedKeeps DEF SlotInv, ClientOK, ReportOK, Known
  <2>5. \A v \in ThreadIDs : Occupies(v)' <=> Occupies(v)
    BY <1>1, <1>3, <1>6, <1>7, <1>9 DEF Occupies
  <2>6. AtMostOne' /\ AtLeastOne'
    BY <1>1, <1>6, <1>9, <2>5 DEF SlotInv, AtMostOne, AtLeastOne
  <2>7. Known(t) /\ persistentIDToThread[persistentID[t]] = t
    BY <1>1, <1>9 DEF SlotInv, EntriesOK
  <2>8. EntriesOK'
    BY <1>1, <1>2, <1>3, <1>9, <2>7, MarkedExitedKeeps DEF SlotInv, EntriesOK, TypeOK, Known
  <2> QED BY <2>1, <2>2, <2>3, <2>4, <2>6, <2>8 DEF Keeps, SlotInv
<1> QED BY <1>8, <1>9 DEF ThreadExit, BeginGracefulExit

LEMMA GracefulExitKeeps ==
    ASSUME SlotInv, GracefulExit
    PROVE  Keeps
<1>1. /\ main = "up" /\ bShuttingDown' = TRUE /\ exitStage' = "waiting"
      /\ threadState' = [t \in ThreadIDs |-> NONE] /\ \A t \in ThreadIDs : ~Known(t)'
      /\ UNCHANGED <<main, failures, persistentIDToThread, unknownReady, threadVars,
                     broadcastVars, rpcVars>>
  BY DEF GracefulExit, BeginGracefulExit, Known
<1>2. TypeOK'
  BY <1>1 DEF SlotInv, TypeOK, threadVars, broadcastVars, rpcVars
<1>3. StartedInOrder' /\ RoomOK' /\ ClientOK' /\ ReportOK' /\ NoStart
  BY <1>1 DEF SlotInv, StartedInOrder, RoomOK, ClientOK, ReportOK, NoStart, threadVars
<1>4. UnusedOK'
  BY <1>1 DEF SlotInv, UnusedOK, Unused, threadVars
<1>5. AtMostOne' /\ AtLeastOne'
  BY <1>1 DEF SlotInv, AtMostOne, AtLeastOne, Occupies, threadVars
<1>6. EntriesOK'
  BY <1>1 DEF SlotInv, EntriesOK, TypeOK, threadVars
<1> QED BY <1>2, <1>3, <1>4, <1>5, <1>6 DEF Keeps, SlotInv

-----------------------------------------------------------------------------

LEMMA InitSlotInv == Init => SlotInv
<1> SUFFICES ASSUME Init PROVE SlotInv
  OBVIOUS
<1>1. TypeOK
  <2>1. MaxTries \in 0 .. MaxTries /\ 0 \in Nat
    BY ThreadPoolConstantsOK
  <2>2. /\ thread \in [ThreadIDs -> {"none", "starting", "online", "connected", "serving",
                                "exited"}]
        /\ persistentID \in [ThreadIDs -> PersistentIDs \union {NONE}]
        /\ adding \in [ThreadIDs -> {"no", "starting", "added", "gaveUp"}]
    BY DEF Init
  <2>3. /\ threadState \in [ThreadIDs -> States \union {NONE}]
        /\ persistentIDToThread \in [PersistentIDs -> ThreadIDs \union {NONE}]
        /\ part \in [ThreadIDs -> {"none", "pending", "resolved", "stuck"}]
    BY DEF Init
  <2> QED BY <2>1, <2>2, <2>3 DEF Init, TypeOK
<1>2. StartedInOrder
  <2>1. 0 \in 0 .. MaxThreads /\ \A t \in ThreadIDs : thread[t] = "none" /\ t > 0
    BY ThreadPoolConstantsOK DEF Init, ThreadIDs
  <2> QED BY <2>1 DEF StartedInOrder
<1>3. UnusedOK /\ ClientOK /\ ReportOK /\ AtMostOne /\ AtLeastOne /\ EntriesOK
  BY DEF Init, UnusedOK, Unused, ClientOK, ReportOK, AtMostOne, AtLeastOne, Occupies, EntriesOK,
         Known
<1>4. RoomOK
  <2>1. IsFiniteSet(ThreadIDs) /\ Unused \subseteq ThreadIDs
    BY ThreadPoolConstantsOK, FS_Interval DEF ThreadIDs, Unused
  <2>2. Cardinality(Unused) \in Nat /\ Cardinality(replacing) = 0
    BY <2>1, FS_Subset, FS_CardinalityType, FS_EmptySet DEF Init
  <2> QED BY <2>2 DEF RoomOK
<1> QED BY <1>1, <1>2, <1>3, <1>4 DEF SlotInv

LEMMA NextKeeps == SlotInv /\ [Next]_vars => Keeps
<1> SUFFICES ASSUME SlotInv, [Next]_vars PROVE Keeps
  OBVIOUS
<1>1. CASE UNCHANGED vars
  <2>1. TypeOK'
    BY <1>1 DEF SlotInv, TypeOK, vars, poolVars, entryVars, threadVars, broadcastVars, rpcVars
  <2> QED BY <1>1, <2>1, FrameKeeps DEF vars, poolVars, threadVars
<1>2. CASE Next
  BY <1>2, StartKeeps, ReplaceKeeps, OnlineKeeps, OnlineTimeoutKeeps, ConnectKeeps,
     ReportKeeps, ReportRetryKeeps, CallStepsKeep, PoolStepsKeep, UnheardExitsKeep,
     ThreadExitKeeps, GracefulExitKeeps
     DEF Next
<1> QED BY <1>1, <1>2

LEMMA SlotInvHolds == Spec => []SlotInv
<1>1. SlotInv /\ [Next]_vars => SlotInv'
  BY NextKeeps DEF Keeps
<1> QED BY <1>1, InitSlotInv, PTL DEF Spec

(* Every reachable state is well typed. *)
THEOREM TypeCorrect == Spec => []TypeOK
<1>1. SlotInv => TypeOK
  BY DEF SlotInv
<1> QED BY <1>1, SlotInvHolds, PTL

(* Until gracefulExit() begins, a thread that broadcast, round robin or    *)
(* rpcWorker() may call has its client: no thread reports its services     *)
(* before it has an entry, so that workerServicesReady() marks none but    *)
(* the caller's.                                                           *)
THEOREM ReadyThreadsHaveClients == Spec => []ReadyHasClient
<1>1. SlotInv => ReadyHasClient
  BY DEF SlotInv, ClientOK, ReadyHasClient
<1> QED BY <1>1, SlotInvHolds, PTL

(* No thread is started once gracefulExit() has begun: the sleeping "exit" *)
(* handlers find that the entry of their thread is gone.                   *)
THEOREM NoThreadOnceExiting == Spec => NoStartAtExit
<1>1. SlotInv /\ [Next]_vars =>
        [bShuttingDown => \A t \in ThreadIDs : thread[t] = "none" => thread'[t] = "none"]_vars
  BY NextKeeps DEF Keeps, NoStart
<1> QED BY <1>1, SlotInvHolds, PTL DEF Spec, NoStartAtExit

(* A persistent ID is the identity of one thread, and is lost to nothing   *)
(* but a thread that does not come online in time.                         *)
THEOREM SlotsAreKept == Spec => []OneThreadPerPersistentID
<1>1. ASSUME SlotInv, IsUp, NEW p \in PersistentIDs
      PROVE  Cardinality(Holders(p)) + Cardinality(Of(p) \intersect replacing)
               + Cardinality(GivenUp(p)) = 1
  <2>1. PICK h \in ThreadIDs : persistentID[h] = p /\ Occupies(h)
    BY <1>1 DEF IsUp, SlotInv, AtLeastOne
  <2>2. \A t \in ThreadIDs : persistentID[t] = p /\ Occupies(t) => t = h
    BY <1>1, <2>1 DEF SlotInv, AtMostOne
  <2>3. \A t \in replacing : t \in ThreadIDs /\ adding[t] = "added" /\ thread[t] = "exited"
    BY <1>1 DEF SlotInv, TypeOK, EntriesOK
  <2>4. Cardinality({h}) = 1 /\ Cardinality({}) = 0
    BY FS_Singleton, FS_EmptySet
  <2>5. CASE adding[h] = "gaveUp"
    <3>1. GivenUp(p) = {h} /\ Holders(p) = {} /\ Of(p) \intersect replacing = {}
      BY <2>1, <2>2, <2>3, <2>5 DEF GivenUp, Holders, Of, Occupies
    <3> QED BY <2>4, <3>1
  <2>6. CASE h \in replacing
    <3>1. GivenUp(p) = {} /\ Holders(p) = {} /\ Of(p) \intersect replacing = {h}
      BY <2>1, <2>2, <2>3, <2>6 DEF GivenUp, Holders, Of, Occupies
    <3> QED BY <2>4, <3>1
  <2>7. CASE adding[h] # "gaveUp" /\ h \notin replacing
    <3>1. GivenUp(p) = {} /\ Holders(p) = {h} /\ Of(p) \intersect replacing = {}
      BY <2>1, <2>2, <2>3, <2>7 DEF GivenUp, Holders, Of, Occupies
    <3> QED BY <2>4, <3>1
  <2> QED BY <2>5, <2>6, <2>7
<1>2. SlotInv => OneThreadPerPersistentID
  BY <1>1 DEF OneThreadPerPersistentID
<1> QED BY <1>2, SlotInvHolds, PTL
=============================================================================
