----------------------------- MODULE RoundRobin -----------------------------
(***************************************************************************)
(* MasterEndpoint.rpcToRoundRobinWorker(), for one method name: the choice *)
(* of a worker for each call, and the promise that is shared between the   *)
(* workers which call through the master in bFreshlyCachedWorkerProxyMode. *)
(* The workers' entries change as in WorkerPool, of which only what this   *)
(* function reads is kept.                                                 *)
(*                                                                         *)
(* From the await of _transportPluginFromReverseClient() on the function   *)
(* is synchronous, and that await ends before any event, so a call is one  *)
(* action.  Between the arrival of the message that asks for it and the    *)
(* call itself are the plugins of the master's JSONRPC.Server.             *)
(***************************************************************************)
EXTENDS Naturals, FiniteSets, Sequences

CONSTANTS
    MaxWorkers,     \* bound: worker IDs are 1, 2, ..., in the order of forking
    MaxCalls        \* bound: calls of the function

ASSUME BoundsOK == MaxWorkers \in Nat /\ MaxCalls \in Nat

Workers == 1 .. MaxWorkers

VARIABLES
    known,          \* keys of objWorkerIDToState
    ready,          \* those whose entry is marked ready
    exited,         \* those whose entry is marked exited
    counter,        \* objRoundRobinState.counter
    promise,        \* objRoundRobinState.promiseRPCResult, by the counter it was made at; 0 is null
    lastFreshness,  \* _objWorkerToMethodNameLastFreshness; 0 is no entry
    watched,        \* workers with an "exit" listener that deletes the entry
    pending,        \* proxied calls of each worker that have arrived
    received,       \* promises each worker was given
    load,           \* calls sent to each worker since the entries last changed
    calls           \* calls made so far

poolVars == <<known, ready, exited>>
vars == <<poolVars, counter, promise, lastFreshness, watched, pending, received, load, calls>>

TypeOK ==
    /\ known \subseteq Workers /\ ready \subseteq known /\ exited \subseteq known
    /\ counter \in Nat /\ promise \in 0 .. counter
    /\ lastFreshness \in [Workers -> Nat] /\ watched \subseteq known
    /\ pending \in [Workers -> Nat]
    /\ received \in [Workers -> Seq(1 .. counter)]
    /\ load \in [Workers -> Nat]
    /\ calls \in 0 .. MaxCalls

Zeros == [w \in Workers |-> 0]

Init ==
    /\ known = {} /\ ready = {} /\ exited = {}
    /\ counter = 0 /\ promise = 0
    /\ lastFreshness = Zeros /\ watched = {}
    /\ pending = Zeros
    /\ received = [w \in Workers |-> <<>>]
    /\ load = Zeros
    /\ calls = 0

-----------------------------------------------------------------------------
(* The choice of a worker *)

(* The index of a worker's entry in arrWorkerStates. *)
IndexOf(w) == Cardinality({v \in known : v < w})

(* How many entries the two loops look at before w's, from index n on. *)
Distance(w, n) ==
    LET length == Cardinality(known)
    IN  (IndexOf(w) + length - (n % length)) % length

(* Mutant: the loop starts from the first entry when the last is reached.  *)
FirstReadyFromStart(n) ==
    CHOOSE w \in ready :
      LET m == IF n % Cardinality(known) = Cardinality(known) - 1 THEN 0 ELSE n
      IN  \A v \in ready : Distance(w, m) <= Distance(v, m)

(* The first entry marked ready, from index n % length on and round. *)
FirstReady(n) ==
    CHOOSE w \in ready : \A v \in ready : Distance(w, n) <= Distance(v, n)

-----------------------------------------------------------------------------
(* The entries *)

(* The "fork" handler. *)
AddWorker(w) ==
    /\ known = 1 .. w - 1
    /\ known' = known \union {w}
    /\ load' = Zeros
    /\ UNCHANGED <<ready, exited, counter, promise, lastFreshness, watched, pending, received,
                   calls>>

(* workerServicesReady() *)
BecomeReady(w) ==
    /\ w \in known \ (ready \union exited)
    /\ ready' = ready \union {w}
    /\ load' = Zeros
    /\ UNCHANGED <<known, exited, counter, promise, lastFreshness, watched, pending, received,
                   calls>>

(* "exit": the master's handler marks the entry and leaves ready as it is; *)
(* the listener, if the worker has one, deletes its freshness.             *)
WorkerExit(w) ==
    /\ w \in known \ exited
    /\ exited' = exited \union {w}
    /\ lastFreshness' = [lastFreshness EXCEPT ![w] = IF w \in watched THEN 0 ELSE @]
    /\ watched' = watched \ {w}
    /\ UNCHANGED <<known, ready, counter, promise, pending, received, load, calls>>

-----------------------------------------------------------------------------
(* The calls *)

Count == calls < MaxCalls /\ calls' = calls + 1

(* A message of worker w that will lead to a call in proxy mode arrives. *)
Arrive(w) ==
    /\ w \in known \ exited
    /\ Count
    /\ pending' = [pending EXCEPT ![w] = @ + 1]
    /\ UNCHANGED <<poolVars, counter, promise, lastFreshness, watched, received, load>>

SendTo(w) == load' = [load EXCEPT ![w] = @ + 1]

(* A call not in proxy mode.  It throws if no entry is ready. *)
PlainCall ==
    /\ Count
    /\ counter' = counter + 1
    /\ promise' = 0
    /\ IF ready = {} THEN UNCHANGED load ELSE SendTo(FirstReady(counter'))
    /\ UNCHANGED <<poolVars, lastFreshness, watched, pending, received>>

(* The part of a call in proxy mode that counts the worker's calls. *)
CountFreshness(w) ==
    /\ lastFreshness' = [lastFreshness EXCEPT ![w] = @ + 1]
    /\ watched' = IF lastFreshness[w] = 0 /\ w \notin exited THEN watched \union {w} ELSE watched

(* Mutant: the promise is returned whatever its freshness. *)
MayShareAny(nMinimumRequestedFreshness) == promise # 0

(* The promise there is will do for a worker with this many calls. *)
MayShare(nMinimumRequestedFreshness) ==
    nMinimumRequestedFreshness <= counter /\ promise # 0

(* Mutant: the state of the method is made anew when it has no promise. *)
NextCounterReset == IF promise = 0 THEN 1 ELSE counter + 1

(* ++objRoundRobinState.counter *)
NextCounter == counter + 1

(* A call of worker w in proxy mode.  When the only entry is not ready the *)
(* function calls itself, to no avail.                                     *)
ProxyCall(w) ==
    /\ pending[w] > 0
    /\ pending' = [pending EXCEPT ![w] = @ - 1]
    /\ CountFreshness(w)
    /\ \/ /\ MayShare(lastFreshness'[w])
          /\ received' = [received EXCEPT ![w] = Append(@, promise)]
          /\ UNCHANGED <<counter, promise, load>>
       \/ /\ ~MayShare(lastFreshness'[w]) /\ ready # {}
          /\ counter' = NextCounter
          /\ promise' = counter'
          /\ received' = [received EXCEPT ![w] = Append(@, promise')]
          /\ SendTo(FirstReady(counter'))
       \/ /\ ~MayShare(lastFreshness'[w]) /\ ready = {}
          /\ counter' = counter + (IF Cardinality(known) = 1 THEN 2 ELSE 1)
          /\ promise' = 0
          /\ UNCHANGED <<received, load>>
    /\ UNCHANGED <<poolVars, calls>>

Next ==
    \/ \E w \in Workers :
         \/ AddWorker(w)
         \/ BecomeReady(w)
         \/ WorkerExit(w)
         \/ Arrive(w)
         \/ ProxyCall(w)
    \/ PlainCall

Spec == Init /\ [][Next]_vars

-----------------------------------------------------------------------------

(* A worker is never given an older result than it was given before: the   *)
(* promises it receives are in the order in which they were made, over     *)
(* calls of other workers, plain calls and failures.                       *)
NeverOlder ==
    \A w \in Workers : \A i, j \in DOMAIN received[w] :
      i < j => received[w][i] <= received[w][j]

(* What sharing rests on: no worker's count of calls is ahead of the       *)
(* counter, so a new promise is always fresh enough for who asked for it,  *)
(* and the n-th promise a worker got, until it exits, is the n-th or a     *)
(* later one.                                                              *)
FreshnessReached ==
    /\ \A w \in Workers : lastFreshness[w] <= counter
    /\ \A w \in Workers \ exited : \A i \in DOMAIN received[w] : received[w][i] >= i

(* "Helps distribute calls to workers to even out workload": while every   *)
(* entry is ready and none changes, no worker gets two calls more than     *)
(* another.                                                                *)
EvenLoad ==
    ready = known => \A v, w \in known : load[v] <= load[w] + 1

=============================================================================
