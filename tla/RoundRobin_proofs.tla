--------------------------- MODULE RoundRobin_proofs ---------------------------
(***************************************************************************)
(* Proofs about RoundRobin, for any number of workers and calls: what a    *)
(* worker may expect of the promises it shares with others, and that the   *)
(* workers are called in turn.                                             *)
(***************************************************************************)
EXTENDS RoundRobin, SequenceTheorems, FiniteSetTheorems, TLAPS

(* A call that fails or is not shared leaves no promise, so that the one   *)
(* that is kept is that of the last count.                                 *)
PromiseIsLatest == promise \in {0, counter}

(* Calls that arrived are of workers the master knows. *)
PendingKnown == \A w \in Workers : pending[w] > 0 => w \in known

(* A worker was given no more promises than the calls counted for it, and  *)
(* no count is ahead of the counter.                                       *)
CountsOK ==
    /\ \A w \in Workers : lastFreshness[w] <= counter
    /\ \A w \in Workers \ exited : Len(received[w]) <= lastFreshness[w]

(* The i-th promise a worker was given is the i-th or later. *)
FreshEnough ==
    \A w \in Workers \ exited : \A i \in 1 .. Len(received[w]) : received[w][i] >= i

InOrder ==
    \A w \in Workers : \A i, j \in 1 .. Len(received[w]) :
      i < j => received[w][i] <= received[w][j]

SharingInv == TypeOK /\ PromiseIsLatest /\ PendingKnown /\ CountsOK /\ FreshEnough /\ InOrder

-----------------------------------------------------------------------------

LEMMA SendToKeepsType ==
    ASSUME load \in [Workers -> Nat], NEW w, SendTo(w)
    PROVE  load' \in [Workers -> Nat]
<1>1. \A v \in Workers : load'[v] \in Nat
  BY DEF SendTo
<1> QED BY <1>1 DEF SendTo

LEMMA PromisesWiden ==
    ASSUME NEW m \in Nat, NEW n \in Nat, m <= n, NEW s \in Seq(1 .. m)
    PROVE  /\ s \in Seq(1 .. n) /\ Len(s) \in Nat
           /\ \A i \in 1 .. Len(s) : s[i] \in 1 .. m
<1>1. Len(s) \in Nat /\ s \in [1 .. Len(s) -> 1 .. m]
  BY LenProperties
<1>2. \A i \in 1 .. Len(s) : s[i] \in 1 .. n
  BY <1>1
<1>3. s \in [1 .. Len(s) -> 1 .. n]
  BY <1>1, <1>2
<1> QED BY <1>1, <1>3, SeqDef

(* A step in which no worker is given a promise and no call is counted. *)
LEMMA EntriesKeep ==
    ASSUME SharingInv, known \subseteq known', known' \subseteq Workers, ready' \subseteq known',
           exited \subseteq exited', exited' \subseteq known', watched' \subseteq watched,
           lastFreshness' \in [Workers -> Nat], load' \in [Workers -> Nat],
           pending' \in [Workers -> Nat], calls' \in 0 .. MaxCalls,
           \A w \in Workers : pending'[w] > 0 => w \in known',
           \A w \in Workers : lastFreshness'[w] <= lastFreshness[w],
           \A w \in Workers \ exited' : lastFreshness'[w] = lastFreshness[w],
           counter' \in Nat, counter <= counter', promise' \in {0, counter'},
           counter' # counter => promise' = 0,
           UNCHANGED received
    PROVE  SharingInv'
<1>1. \A w \in Workers : /\ received[w] \in Seq(1 .. counter) /\ Len(received[w]) \in Nat
                         /\ received[w] \in Seq(1 .. counter')
  <2>1. counter \in Nat /\ \A w \in Workers : received[w] \in Seq(1 .. counter)
    BY DEF SharingInv, TypeOK
  <2> QED BY <2>1, PromisesWiden
<1>2. TypeOK'
  <2>1. promise' \in 0 .. counter'
    OBVIOUS
  <2>2. received' \in [Workers -> Seq(1 .. counter')]
    BY <1>1 DEF SharingInv, TypeOK
  <2> QED BY <2>1, <2>2 DEF SharingInv, TypeOK
<1>3. PromiseIsLatest' /\ PendingKnown'
  BY DEF PromiseIsLatest, PendingKnown
<1>4. CountsOK'
  BY <1>1 DEF SharingInv, TypeOK, CountsOK
<1>5. FreshEnough' /\ InOrder'
  BY DEF SharingInv, FreshEnough, InOrder
<1> QED BY <1>2, <1>3, <1>4, <1>5 DEF SharingInv

LEMMA EntryStepsKeep ==
    ASSUME SharingInv, NEW w \in Workers, AddWorker(w) \/ BecomeReady(w) \/ WorkerExit(w) \/ Arrive(w)
    PROVE  SharingInv'
<1>1. Zeros \in [Workers -> Nat]
  BY DEF Zeros
<1>2. /\ known \subseteq known' /\ known' \subseteq Workers /\ ready' \subseteq known'
      /\ exited \subseteq exited' /\ exited' \subseteq known' /\ watched' \subseteq watched
  BY DEF SharingInv, TypeOK, AddWorker, BecomeReady, WorkerExit, Arrive, poolVars
<1>3. UNCHANGED <<counter, promise, received>>
  BY DEF AddWorker, BecomeReady, WorkerExit, Arrive
<1>4. load' \in [Workers -> Nat] /\ calls' \in 0 .. MaxCalls
  BY <1>1, BoundsOK DEF SharingInv, TypeOK, AddWorker, BecomeReady, WorkerExit, Arrive, Count
<1>5. /\ lastFreshness' \in [Workers -> Nat]
      /\ \A v \in Workers : lastFreshness'[v] <= lastFreshness[v]
      /\ \A v \in Workers \ exited' : lastFreshness'[v] = lastFreshness[v]
  <2>1. lastFreshness \in [Workers -> Nat] /\ \A v \in Workers : lastFreshness[v] \in Nat
    BY DEF SharingInv, TypeOK
  <2>2. CASE UNCHANGED lastFreshness
    BY <2>1, <2>2
  <2>3. CASE WorkerExit(w)
    <3>1. /\ lastFreshness' = [lastFreshness EXCEPT ![w] = IF w \in watched THEN 0 ELSE @]
          /\ w \in exited'
      BY <2>3 DEF WorkerExit
    <3>2. /\ lastFreshness'[w] \in {0, lastFreshness[w]}
          /\ \A v \in Workers \ {w} : lastFreshness'[v] = lastFreshness[v]
      BY <2>1, <3>1
    <3> QED BY <2>1, <3>1, <3>2
  <2> QED BY <2>2, <2>3 DEF AddWorker, BecomeReady, Arrive
<1>6. /\ pending' \in [Workers -> Nat]
      /\ \A v \in Workers : pending'[v] > 0 => v \in known'
  <2>1. CASE UNCHANGED pending
    BY <1>2, <2>1 DEF SharingInv, TypeOK, PendingKnown
  <2>2. CASE Arrive(w)
    BY <2>2 DEF Arrive, SharingInv, TypeOK, PendingKnown, poolVars
  <2> QED BY <2>1, <2>2 DEF AddWorker, BecomeReady, WorkerExit
<1>7. counter' \in Nat /\ counter <= counter' /\ promise' \in {0, counter'}
  BY <1>3 DEF SharingInv, TypeOK, PromiseIsLatest
<1> QED BY <1>2, <1>3, <1>4, <1>5, <1>6, <1>7, EntriesKeep

LEMMA PlainCallKeeps ==
    ASSUME SharingInv, PlainCall
    PROVE  SharingInv'
<1>1. /\ counter' = counter + 1 /\ promise' = 0 /\ calls' \in 0 .. MaxCalls
      /\ UNCHANGED <<poolVars, lastFreshness, watched, pending, received>>
  BY BoundsOK DEF PlainCall, Count, SharingInv, TypeOK
<1>2. load' \in [Workers -> Nat]
  BY SendToKeepsType DEF PlainCall, SharingInv, TypeOK
<1> QED BY <1>1, <1>2, EntriesKeep DEF SharingInv, TypeOK, PendingKnown, poolVars

(* The count of a worker's calls goes up with each promise it is given,    *)
(* which is that of the counter, new or shared.                            *)
LEMMA ProxyCallKeeps ==
    ASSUME SharingInv, NEW w \in Workers, ProxyCall(w)
    PROVE  SharingInv'
<1>1. /\ w \in known /\ pending[w] \in Nat \ {0} /\ pending' = [pending EXCEPT ![w] = @ - 1]
      /\ lastFreshness' = [lastFreshness EXCEPT ![w] = @ + 1]
      /\ watched' \subseteq watched \union {w}
      /\ UNCHANGED <<poolVars, calls>>
  BY DEF ProxyCall, CountFreshness, SharingInv, TypeOK, PendingKnown
<1>2. /\ lastFreshness \in [Workers -> Nat] /\ counter \in Nat /\ promise \in {0, counter}
      /\ lastFreshness[w] <= counter /\ load \in [Workers -> Nat]
      /\ \A v \in Workers : /\ received[v] \in Seq(1 .. counter) /\ Len(received[v]) \in Nat
                            /\ \A i \in 1 .. Len(received[v]) : received[v][i] \in 1 .. counter
  <2>1. \A v \in Workers : received[v] \in Seq(1 .. counter)
    BY DEF SharingInv, TypeOK
  <2>2. \A v \in Workers : /\ Len(received[v]) \in Nat
                           /\ \A i \in 1 .. Len(received[v]) : received[v][i] \in 1 .. counter
    BY <2>1, LenProperties, ElementOfSeq
  <2> QED BY <2>1, <2>2 DEF SharingInv, TypeOK, PromiseIsLatest, CountsOK
<1>3. lastFreshness'[w] = lastFreshness[w] + 1
      /\ \A v \in Workers \ {w} : lastFreshness'[v] = lastFreshness[v]
  BY <1>1, <1>2
<1>4. load' \in [Workers -> Nat]
  BY <1>2, SendToKeepsType DEF ProxyCall
<1>5. /\ lastFreshness' \in [Workers -> Nat] /\ pending' \in [Workers -> Nat]
      /\ known' \subseteq Workers /\ ready' \subseteq known' /\ exited' \subseteq known'
      /\ watched' \subseteq known' /\ calls' \in 0 .. MaxCalls /\ UNCHANGED exited
      /\ \A v \in Workers : pending'[v] > 0 => v \in known'
  BY <1>1, <1>2 DEF SharingInv, TypeOK, PendingKnown, poolVars
<1>6. CASE /\ counter' \in {counter + 1, counter + 2} /\ promise' = 0
           /\ UNCHANGED received
  <2>1. \A v \in Workers : received[v] \in Seq(1 .. counter')
    <3>1. counter' \in Nat /\ counter <= counter'
      BY <1>2, <1>6
    <3> QED BY <1>2, <3>1, PromisesWiden
  <2>2. TypeOK'
    BY <1>2, <1>4, <1>5, <1>6, <2>1 DEF SharingInv, TypeOK
  <2>3. PromiseIsLatest' /\ PendingKnown'
    BY <1>5, <1>6 DEF PromiseIsLatest, PendingKnown
  <2>4. CountsOK'
    <3>1. \A v \in Workers : /\ lastFreshness[v] \in Nat /\ lastFreshness[v] <= counter
                             /\ v \notin exited => Len(received[v]) <= lastFreshness[v]
      BY <1>2 DEF SharingInv, CountsOK
    <3>2. \A v \in Workers : /\ lastFreshness'[v] <= lastFreshness[v] + 1
                             /\ lastFreshness[v] <= lastFreshness'[v]
                             /\ lastFreshness'[v] \in Nat
      BY <1>3, <3>1
    <3>3. counter + 1 <= counter'
      BY <1>2, <1>6
    <3>4. \A v \in Workers : lastFreshness'[v] <= counter'
      BY <1>2, <1>6, <3>1, <3>2, <3>3
    <3>5. \A v \in Workers \ exited : Len(received[v]) <= lastFreshness'[v]
      BY <1>2, <3>1, <3>2
    <3> QED BY <1>5, <1>6, <3>4, <3>5 DEF CountsOK
  <2>5. FreshEnough' /\ InOrder'
    BY <1>5, <1>6 DEF SharingInv, FreshEnough, InOrder
  <2> QED BY <2>2, <2>3, <2>4, <2>5 DEF SharingInv
<1>7. CASE /\ counter' \in {counter, counter + 1} /\ promise' = counter'
           /\ lastFreshness[w] + 1 <= counter'
           /\ received' = [received EXCEPT ![w] = Append(@, counter')]
  <2>1. counter' \in 1 .. counter'
    BY <1>2, <1>7
  <2>2. \A v \in Workers : received[v] \in Seq(1 .. counter')
    <3>1. counter' \in Nat /\ counter <= counter'
      BY <1>2, <1>7
    <3> QED BY <1>2, <3>1, PromisesWiden
  <2> DEFINE r == Append(received[w], counter')
  <2>3. /\ r \in Seq(1 .. counter') /\ Len(r) = Len(received[w]) + 1
        /\ r[Len(received[w]) + 1] = counter'
        /\ \A i \in 1 .. Len(received[w]) : r[i] = received[w][i]
    BY <2>1, <2>2, AppendProperties
  <2> HIDE DEF r
  <2>4. /\ received' \in [Workers -> Seq(1 .. counter')] /\ received'[w] = r
        /\ \A v \in Workers \ {w} : received'[v] = received[v]
    BY <1>7, <2>2, <2>3 DEF SharingInv, TypeOK, r
  <2>5. TypeOK'
    BY <1>2, <1>4, <1>5, <1>7, <2>4 DEF SharingInv, TypeOK
  <2>6. PromiseIsLatest' /\ PendingKnown'
    BY <1>5, <1>7 DEF PromiseIsLatest, PendingKnown
  <2>7. CountsOK'
    <3>1. \A v \in Workers : /\ lastFreshness[v] \in Nat /\ lastFreshness[v] <= counter
                             /\ v \notin exited => Len(received[v]) <= lastFreshness[v]
      BY <1>2 DEF SharingInv, CountsOK
    <3>2. /\ lastFreshness'[w] <= counter'
          /\ w \notin exited => Len(received'[w]) <= lastFreshness'[w]
      BY <1>2, <1>3, <1>7, <2>3, <2>4, <3>1
    <3>3. \A v \in Workers \ {w} :
            /\ lastFreshness'[v] <= counter'
            /\ v \notin exited => Len(received'[v]) <= lastFreshness'[v]
      BY <1>2, <1>3, <1>7, <2>4, <3>1
    <3> QED BY <1>5, <3>2, <3>3 DEF CountsOK
  <2>8. FreshEnough'
    <3>1. ASSUME NEW v \in Workers \ exited, NEW i \in 1 .. Len(received'[v])
          PROVE  received'[v][i] >= i
      <4>1. CASE v # w
        BY <2>4, <3>1, <4>1 DEF SharingInv, FreshEnough
      <4>2. CASE v = w /\ i \in 1 .. Len(received[w])
        BY <2>3, <2>4, <3>1, <4>2 DEF SharingInv, FreshEnough
      <4>3. CASE v = w /\ i = Len(received[w]) + 1
        <5>1. Len(received[w]) <= lastFreshness[w]
          BY <3>1, <4>3 DEF SharingInv, CountsOK
        <5> QED BY <1>2, <1>7, <2>3, <2>4, <4>3, <5>1
      <4> QED BY <1>2, <2>3, <2>4, <3>1, <4>1, <4>2, <4>3
    <3> QED BY <1>5, <3>1 DEF FreshEnough
  <2>9. InOrder'
    <3>1. ASSUME NEW v \in Workers, NEW i \in 1 .. Len(received'[v]),
                 NEW j \in 1 .. Len(received'[v]), i < j
          PROVE  received'[v][i] <= received'[v][j]
      <4>1. CASE v # w
        BY <2>4, <3>1, <4>1 DEF SharingInv, InOrder
      <4>2. CASE v = w /\ j \in 1 .. Len(received[w])
        <5>1. i \in 1 .. Len(received[w])
          BY <1>2, <3>1, <4>2
        <5> QED BY <2>3, <2>4, <3>1, <4>2, <5>1 DEF SharingInv, InOrder
      <4>3. CASE v = w /\ j = Len(received[w]) + 1
        <5>1. i \in 1 .. Len(received[w])
          BY <1>2, <3>1, <4>3
        <5> QED BY <1>2, <1>7, <2>3, <2>4, <4>3, <5>1
      <4> QED BY <1>2, <2>3, <2>4, <3>1, <4>1, <4>2, <4>3
    <3> QED BY <3>1 DEF InOrder
  <2> QED BY <2>5, <2>6, <2>7, <2>8, <2>9 DEF SharingInv
<1>8. \/ /\ counter' \in {counter + 1, counter + 2} /\ promise' = 0
         /\ UNCHANGED received
      \/ /\ counter' \in {counter, counter + 1} /\ promise' = counter'
         /\ lastFreshness[w] + 1 <= counter'
         /\ received' = [received EXCEPT ![w] = Append(@, counter')]
  BY <1>2, <1>3 DEF ProxyCall, MayShare, NextCounter
<1> QED BY <1>6, <1>7, <1>8

-----------------------------------------------------------------------------

LEMMA InitSharingInv == Init => SharingInv
<1> SUFFICES ASSUME Init PROVE SharingInv
  OBVIOUS
<1>1. <<>> \in Seq(1 .. counter) /\ Len(<<>>) = 0
  BY EmptySeq
<1>2. TypeOK
  BY <1>1, BoundsOK DEF Init, Zeros, TypeOK
<1>3. PromiseIsLatest /\ PendingKnown /\ CountsOK /\ FreshEnough /\ InOrder
  BY <1>1 DEF Init, Zeros, PromiseIsLatest, PendingKnown, CountsOK, FreshEnough, InOrder
<1> QED BY <1>2, <1>3 DEF SharingInv

LEMMA SharingInvariant == Spec => []SharingInv
<1>1. SharingInv /\ [Next]_vars => SharingInv'
  <2> SUFFICES ASSUME SharingInv, [Next]_vars PROVE SharingInv'
    OBVIOUS
  <2>1. CASE UNCHANGED vars
    BY <2>1 DEF vars, poolVars, SharingInv, TypeOK, PromiseIsLatest, PendingKnown, CountsOK,
                FreshEnough, InOrder
  <2> QED BY <2>1, EntryStepsKeep, PlainCallKeeps, ProxyCallKeeps DEF Next
<1> QED BY InitSharingInv, <1>1, PTL DEF Spec

(* Every variable keeps its type. *)
THEOREM TypeCorrect == Spec => []TypeOK
<1>1. SharingInv => TypeOK
  BY DEF SharingInv
<1> QED BY <1>1, SharingInvariant, PTL

(* The promises a worker receives are in the order of the calls they are   *)
(* of, for any number of workers that share them.                          *)
THEOREM PromisesAreNeverOlder == Spec => []NeverOlder
<1>1. SharingInv => NeverOlder
  <2>1. SharingInv => \A w \in Workers : DOMAIN received[w] = 1 .. Len(received[w])
    BY LenProperties DEF SharingInv, TypeOK
  <2> QED BY <2>1 DEF SharingInv, InOrder, NeverOlder
<1> QED BY <1>1, SharingInvariant, PTL

(* A worker's n-th call in proxy mode is answered by the n-th promise or a *)
(* later one.                                                              *)
THEOREM PromisesAreFreshEnough == Spec => []FreshnessReached
<1>1. SharingInv => FreshnessReached
  <2>1. SharingInv => \A w \in Workers : DOMAIN received[w] = 1 .. Len(received[w])
    BY LenProperties DEF SharingInv, TypeOK
  <2> QED BY <2>1 DEF SharingInv, CountsOK, FreshEnough, FreshnessReached
<1> QED BY <1>1, SharingInvariant, PTL

-----------------------------------------------------------------------------
(* The load.  While every entry is ready the workers are called in turn:   *)
(* whoever comes later in the turn has been called as often as who comes   *)
(* earlier, or once more.                                                  *)

(* The remainder of the next number. *)
LEMMA NextRemainder ==
    ASSUME NEW k \in Nat \ {0}, NEW n \in Nat
    PROVE  /\ n % k \in 0 .. k - 1
           /\ (n + 1) % k = IF n % k = k - 1 THEN 0 ELSE (n % k) + 1
<1>1. n % k \in 0 .. k - 1
  OBVIOUS
<1>2. PICK q \in Nat : n = k * q + (n % k)
  <2>1. n = k * (n \div k) + (n % k) /\ n \div k \in Nat
    OBVIOUS
  <2> QED BY <2>1
<1>3. \A m \in Nat : \A r \in 0 .. k - 1 : (k * m + r) % k = r
  OBVIOUS
<1>4. CASE n % k # k - 1
  <2>1. n + 1 = k * q + ((n % k) + 1) /\ (n % k) + 1 \in 0 .. k - 1
    BY <1>1, <1>2, <1>4
  <2> QED BY <1>1, <1>3, <1>4, <2>1
<1>5. CASE n % k = k - 1
  <2>1. n + 1 = k * (q + 1) + 0 /\ q + 1 \in Nat /\ 0 \in 0 .. k - 1
    BY <1>2, <1>5
  <2>2. (k * (q + 1) + 0) % k = 0
    BY <1>3, <2>1
  <2> QED BY <1>1, <1>5, <2>1, <2>2
<1> QED BY <1>1, <1>4, <1>5

(* Entries are added in the order of their IDs. *)
KnownInOrder == \E k \in 0 .. MaxWorkers : known = 1 .. k

(* v comes before w when the next call looks for an entry. *)
InTurn == ready = known =>
    \A v, w \in known :
      Distance(v, counter + 1) < Distance(w, counter + 1)
        => load[v] <= load[w] /\ load[w] <= load[v] + 1

LoadInv == KnownInOrder /\ InTurn

(* How many entries are looked at before that of w, from index r on. *)
Steps(k, r, w) == IF w - 1 >= r THEN w - 1 - r ELSE w - 1 + k - r

LEMMA DistanceIs ==
    ASSUME NEW k \in Nat \ {0}, known = 1 .. k, NEW w \in known, NEW n \in Nat
    PROVE  Distance(w, n) = Steps(k, n % k, w)
<1>1. {v \in known : v < w} = 1 .. w - 1
  OBVIOUS
<1>2. IndexOf(w) = w - 1
  <2>1. Cardinality(1 .. w - 1) = w - 1
    BY FS_Interval
  <2> QED BY <1>1, <2>1 DEF IndexOf
<1>3. Cardinality(known) = k
  BY FS_Interval
<1>4. PICK r \in 0 .. k - 1 : r = n % k
  BY NextRemainder
<1>5. \A m \in 0 .. k - 1 : m % k = m /\ (m + k) % k = m
  OBVIOUS
<1>6. Distance(w, n) = (w - 1 + k - r) % k
  BY <1>2, <1>3, <1>4 DEF Distance
<1>7. CASE w - 1 >= r
  <2>1. PICK m \in 0 .. k - 1 : m = w - 1 - r
    BY <1>4, <1>7
  <2>2. w - 1 + k - r = m + k
    BY <1>4, <2>1
  <2>3. (m + k) % k = m
    BY <1>5
  <2> QED BY <1>4, <1>6, <1>7, <2>1, <2>2, <2>3 DEF Steps
<1>8. CASE ~(w - 1 >= r)
  <2>1. PICK m \in 0 .. k - 1 : m = w - 1 + k - r
    BY <1>4, <1>8
  <2>2. m % k = m
    BY <1>5
  <2> QED BY <1>4, <1>6, <1>8, <2>1, <2>2 DEF Steps
<1> QED BY <1>7, <1>8

(* A call goes to the worker whose turn it is, who then comes last. *)
LEMMA TurnsGoRound ==
    ASSUME NEW k \in Nat \ {0}, known = 1 .. k, ready = known, NEW n \in Nat
    PROVE  /\ FirstReady(n) \in known /\ Distance(FirstReady(n), n + 1) = k - 1
           /\ \A w \in known : Distance(w, n) \in 0 .. k - 1
           /\ \A w \in known \ {FirstReady(n)} :
                /\ Distance(FirstReady(n), n) < Distance(w, n)
                /\ Distance(w, n + 1) = Distance(w, n) - 1
<1>1. PICK r \in 0 .. k - 1 : r = n % k
  BY NextRemainder
<1>2. PICK q \in 0 .. k - 1 : q = (n + 1) % k /\ q = IF r = k - 1 THEN 0 ELSE r + 1
  <2>1. (n + 1) % k = IF r = k - 1 THEN 0 ELSE r + 1
    BY <1>1, NextRemainder
  <2>2. (IF r = k - 1 THEN 0 ELSE r + 1) \in 0 .. k - 1
    OBVIOUS
  <2> QED BY <2>1, <2>2, Zenon
<1>3. \A w \in known : Distance(w, n) = Steps(k, r, w) /\ Distance(w, n + 1) = Steps(k, q, w)
  <2>1. n + 1 \in Nat
    OBVIOUS
  <2> QED BY <1>1, <1>2, <2>1, DistanceIs
<1>4. PICK f \in known : f = r + 1
  BY <1>1
<1>5. Steps(k, r, f) = 0 /\ Steps(k, q, f) = k - 1
  BY <1>1, <1>2, <1>4 DEF Steps
<1>6. ASSUME NEW w \in known
      PROVE  /\ Steps(k, r, w) \in 0 .. k - 1
             /\ w # f => 0 < Steps(k, r, w) /\ Steps(k, q, w) = Steps(k, r, w) - 1
  <2>1. w \in 1 .. k /\ r \in Int /\ k \in Int /\ w \in Int
    OBVIOUS
  <2> QED BY <1>1, <1>2, <1>4, <2>1 DEF Steps
<1>7. FirstReady(n) = f
  <2>1. \A w \in ready : (\A v \in ready : Distance(w, n) <= Distance(v, n)) <=> w = f
    BY <1>3, <1>5, <1>6
  <2> QED BY <2>1 DEF FirstReady
<1> QED BY <1>3, <1>5, <1>6, <1>7

LEMMA SendKeepsTurn ==
    ASSUME TypeOK, LoadInv, ready # {}, counter' = counter + 1, SendTo(FirstReady(counter')),
           UNCHANGED <<known, ready>>
    PROVE  LoadInv'
<1>1. KnownInOrder'
  BY DEF LoadInv, KnownInOrder
<1>2. InTurn'
  <2> SUFFICES ASSUME ready = known, NEW v \in known, NEW w \in known,
                      Distance(v, counter + 1)' < Distance(w, counter + 1)'
               PROVE  load'[v] <= load'[w] /\ load'[w] <= load'[v] + 1
    BY DEF InTurn
  <2> DEFINE n == counter + 1
             f == FirstReady(n)
  <2>0. counter' + 1 = n + 1 /\ UNCHANGED known
    OBVIOUS
  <2>1. PICK k \in Nat \ {0} : known = 1 .. k
    BY BoundsOK DEF LoadInv, KnownInOrder
  <2>2. n \in Nat
    BY DEF TypeOK
  <2>3. /\ f \in known /\ Distance(f, n + 1) = k - 1
        /\ \A u \in known : Distance(u, n) \in 0 .. k - 1
        /\ \A u \in known \ {f} : /\ Distance(f, n) < Distance(u, n)
                                  /\ Distance(u, n + 1) = Distance(u, n) - 1
    BY <2>1, <2>2, TurnsGoRound
  <2>4. Distance(v, n + 1) < Distance(w, n + 1)
    BY <2>0 DEF Distance, IndexOf
  <2>5. /\ load'[f] = load[f] + 1
        /\ \A u \in known \ {f} : load'[u] = load[u]
        /\ \A u \in known : load[u] \in Nat
    BY <2>3 DEF SendTo, TypeOK
  <2>6. \A t, u \in known : Distance(t, n) < Distance(u, n)
                            => load[t] <= load[u] /\ load[u] <= load[t] + 1
    BY DEF LoadInv, InTurn
  <2> HIDE DEF f, n
  <2>7. v # f
    BY <2>2, <2>3, <2>4
  <2>8. CASE w = f
    BY <2>3, <2>5, <2>6, <2>7, <2>8
  <2>9. CASE w # f
    BY <2>3, <2>4, <2>5, <2>6, <2>7, <2>9
  <2> QED BY <2>8, <2>9
<1> QED BY <1>1, <1>2 DEF LoadInv

(* Every other step leaves loads and counter alone, or begins a new count. *)
LEMMA LoadInvariant == Spec => []LoadInv
<1>1. Init => LoadInv
  <2> SUFFICES ASSUME Init PROVE LoadInv
    OBVIOUS
  <2>1. known = 1 .. 0 /\ 0 \in 0 .. MaxWorkers
    BY BoundsOK DEF Init
  <2> QED BY <2>1 DEF Init, LoadInv, KnownInOrder, InTurn
<1>2. ASSUME TypeOK, LoadInv, [Next]_vars PROVE LoadInv'
  <2>1. ASSUME UNCHANGED <<known, ready, counter, load>> PROVE LoadInv'
    BY <1>2, <2>1 DEF LoadInv, KnownInOrder, InTurn, Distance, IndexOf
  <2>2. ASSUME NEW w \in Workers, AddWorker(w) PROVE LoadInv'
    <3>1. known = 1 .. w - 1 /\ known' = 1 .. w /\ w \in 0 .. MaxWorkers /\ ready' = ready
      BY <2>2, BoundsOK DEF AddWorker, Workers
    <3>2. w \in known' /\ w \notin ready'
      BY <1>2, <3>1 DEF TypeOK, Workers
    <3> QED BY <3>1, <3>2 DEF LoadInv, KnownInOrder, InTurn
  <2>3. ASSUME NEW w \in Workers, BecomeReady(w) PROVE LoadInv'
    <3>1. load' = Zeros /\ known' = known /\ known \subseteq Workers
      BY <1>2, <2>3 DEF BecomeReady, TypeOK
    <3>2. \A v \in known : load'[v] = 0
      BY <3>1 DEF Zeros
    <3> QED BY <1>2, <3>1, <3>2 DEF LoadInv, KnownInOrder, InTurn
  <2>4. ASSUME ready = {}, UNCHANGED <<known, ready>> PROVE LoadInv'
    BY <1>2, <2>4 DEF LoadInv, KnownInOrder, InTurn
  <2>5. CASE PlainCall
    BY <1>2, <2>4, <2>5, SendKeepsTurn DEF PlainCall, poolVars
  <2>6. ASSUME NEW w \in Workers, ProxyCall(w) PROVE LoadInv'
    BY <1>2, <2>1, <2>4, <2>6, SendKeepsTurn DEF ProxyCall, NextCounter, poolVars
  <2> QED BY <1>2, <2>1, <2>2, <2>3, <2>5, <2>6
          DEF Next, WorkerExit, Arrive, vars, poolVars
<1> QED BY <1>1, <1>2, TypeCorrect, PTL DEF Spec

(* The round robin of rpcToRoundRobinWorker() is even: while every entry   *)
(* is ready and none changes, no worker is sent two calls more than        *)
(* another, whatever plain calls, calls of workers and shared promises     *)
(* come in between.                                                        *)
THEOREM LoadIsEven == Spec => []EvenLoad
<1>1. ASSUME TypeOK, LoadInv PROVE EvenLoad
  <2> SUFFICES ASSUME ready = known, NEW v \in known, NEW w \in known
               PROVE  load[v] <= load[w] + 1
    BY DEF EvenLoad
  <2>1. PICK k \in Nat \ {0} : known = 1 .. k
    BY <1>1, BoundsOK DEF LoadInv, KnownInOrder
  <2>2. counter + 1 \in Nat /\ (counter + 1) % k \in 0 .. k - 1
    BY <1>1, <2>1, NextRemainder DEF TypeOK
  <2>3. \A u \in known : Distance(u, counter + 1) \in 0 .. k - 1
    BY <1>1, <2>1, <2>2, TurnsGoRound
  <2>4. Distance(v, counter + 1) = Distance(w, counter + 1) => v = w
    <3>1. PICK r \in 0 .. k - 1 : r = (counter + 1) % k
      BY <2>2
    <3>2. Distance(v, counter + 1) = Steps(k, r, v) /\ Distance(w, counter + 1) = Steps(k, r, w)
      BY <2>1, <2>2, <3>1, DistanceIs
    <3>3. Steps(k, r, v) = Steps(k, r, w) => v = w
      BY <2>1 DEF Steps
    <3> QED BY <3>2, <3>3
  <2>5. load[v] \in Nat /\ load[w] \in Nat
    BY <1>1 DEF TypeOK
  <2> QED BY <1>1, <2>3, <2>4, <2>5 DEF LoadInv, InTurn
<1> QED BY <1>1, TypeCorrect, LoadInvariant, PTL
=============================================================================
