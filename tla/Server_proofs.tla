--------------------------- MODULE Server_proofs ---------------------------
(***************************************************************************)
(* Proofs about Server, for any requests and any number of exceptions and  *)
(* of changes of the list of plugins.                                      *)
(***************************************************************************)
EXTENDS Server, SequenceTheorems, FiniteSetTheorems, TLAPS

(* Adding a plugin that is not there and removing one keep the array one   *)
(* of plugins without duplicates.                                          *)
LEMMA AppendNew ==
    ASSUME NEW S, NEW s \in Seq(S), IsInjective(s), NEW e \in S, ~Contains(s, e)
    PROVE  Append(s, e) \in Seq(S) /\ IsInjective(Append(s, e))
BY AppendProperties, LenProperties DEF IsInjective, Contains

LEMMA RemoveOne ==
    ASSUME NEW S, NEW s \in Seq(S), IsInjective(s), NEW i \in DOMAIN s
    PROVE  RemoveAt(s, i) \in Seq(S) /\ IsInjective(RemoveAt(s, i))
<1> DEFINE left == SubSeq(s, 1, i - 1)
           right == SubSeq(s, i + 1, Len(s))
<1>1. /\ Len(s) \in Nat /\ DOMAIN s = 1 .. Len(s) /\ i \in 1 .. Len(s)
  BY LenProperties
<1>2. /\ left \in Seq(S) /\ Len(left) = i - 1
      /\ \A j \in 1 .. i - 1 : left[j] = s[j]
  BY <1>1, SubSeqProperties, ElementOfSeq
<1>3. /\ right \in Seq(S) /\ Len(right) = Len(s) - i
      /\ \A j \in 1 .. Len(s) - i : right[j] = s[i + j]
  BY <1>1, SubSeqProperties, ElementOfSeq
<1>4. /\ left \o right \in Seq(S) /\ Len(left \o right) = Len(s) - 1
      /\ \A j \in 1 .. Len(s) - 1 :
           (left \o right)[j] = IF j <= i - 1 THEN s[j] ELSE s[j + 1]
  <2> HIDE DEF left, right
  <2>1. /\ left \o right \in Seq(S)
        /\ Len(left \o right) = Len(left) + Len(right)
        /\ \A j \in 1 .. Len(left) + Len(right) :
             (left \o right)[j] = IF j <= Len(left) THEN left[j] ELSE right[j - Len(left)]
    BY <1>2, <1>3, ConcatProperties
  <2>2. Len(left) + Len(right) = Len(s) - 1
    BY <1>1, <1>2, <1>3
  <2>3. ASSUME NEW j \in 1 .. Len(s) - 1
        PROVE  (left \o right)[j] = IF j <= i - 1 THEN s[j] ELSE s[j + 1]
    <3>1. CASE j <= i - 1
      BY <1>1, <1>2, <2>1, <2>2, <3>1
    <3>2. CASE ~(j <= i - 1)
      <4>1. (left \o right)[j] = right[j - (i - 1)]
        BY <1>1, <1>2, <2>1, <2>2, <3>2
      <4>2. j - (i - 1) \in 1 .. Len(s) - i /\ i + (j - (i - 1)) = j + 1
        BY <1>1, <3>2
      <4> QED BY <1>3, <3>2, <4>1, <4>2
    <3> QED BY <3>1, <3>2
  <2> QED BY <2>1, <2>2, <2>3
<1>5. DOMAIN (left \o right) = 1 .. Len(s) - 1
  BY <1>4, LenProperties
<1>6. IsInjective(left \o right)
  <2> DEFINE from(j) == IF j <= i - 1 THEN j ELSE j + 1
  <2> HIDE DEF left, right
  <2>1. ASSUME NEW a \in 1 .. Len(s) - 1, NEW b \in 1 .. Len(s) - 1,
               (left \o right)[a] = (left \o right)[b]
        PROVE  a = b
    <3>1. s[from(a)] = s[from(b)]
      BY <1>4, <2>1
    <3>2. from(a) \in DOMAIN s /\ from(b) \in DOMAIN s
      BY <1>1
    <3>3. from(a) = from(b)
      <4> HIDE DEF from
      <4> QED BY <3>1, <3>2 DEF IsInjective
    <3> QED BY <1>1, <3>3
  <2> QED BY <1>5, <2>1 DEF IsInjective
<1> QED BY <1>4, <1>6 DEF RemoveAt

-----------------------------------------------------------------------------

(* What the steps of one request change keeps its type. *)
LEMMA EnterType ==
    ASSUME TypeOK, NEW r \in Requests,
           NEW s \in Deciding \union Telling \union {"method", "done", "thrown"}, Enter(r, s)
    PROVE  /\ stage' \in [Requests -> Deciding \union Telling
                                     \union {"idle", "method", "done", "thrown"}]
           /\ next' \in [Requests -> Nat \ {0}]
BY DEF TypeOK, Enter

(* A step of a request preserves the types. *)
LEMMA RequestType ==
    ASSUME TypeOK, NEW r \in Requests, Begin(r) \/ Progress(r) \/ UserThrows(r),
           UNCHANGED notifications
    PROVE  TypeOK'
<1> USE DEF requestVars, counterVars, effectVars, listVars, disturbanceVars, Deciding, Telling
<1>1. CASE Begin(r)
  BY <1>1, EnterType DEF TypeOK, Begin
<1>2. CASE Decode(r)
  <2>1. requestObject' \in [Requests -> RequestObjects]
    BY <1>2 DEF TypeOK, Decode, Objects, RequestObjects
  <2> QED BY <1>2, <2>1, EnterType DEF TypeOK, Decode, Fail
<1>3. CASE Check(r)
  BY <1>3, EnterType DEF TypeOK, Check, Fail
<1>4. CASE CallMethod(r)
  <2>1. /\ stage' \in [Requests -> Deciding \union Telling
                                      \union {"idle", "method", "done", "thrown"}]
        /\ next' \in [Requests -> Nat \ {0}]
    <3>1. CASE UNCHANGED next /\ stage' = [stage EXCEPT ![r] = "method"]
      BY <3>1 DEF TypeOK
    <3>2. CASE Fail(r)
      BY <3>2, EnterType DEF Fail
    <3>3. CASE Enter(r, OutcomeStage(callResult[r]))
      BY <3>3, EnterType DEF OutcomeStage
    <3> QED BY <1>4, <3>1, <3>2, <3>3 DEF CallMethod
  <2>2. callResult' \in [Requests -> {"none", "value", "error"}]
    BY <1>4 DEF TypeOK, CallMethod, Fail
  <2> QED BY <1>4, <2>1, <2>2 DEF TypeOK, CallMethod
<1>5. CASE MethodReturns(r)
  BY <1>5, EnterType DEF TypeOK, MethodReturns, OutcomeStage
<1>6. CASE Tell(r)
  BY <1>6, EnterType DEF TypeOK, Tell, Successor
<1>7. CASE AuthenticationSkip(r)
  BY <1>7 DEF TypeOK, AuthenticationSkip, AtHook
<1>8. CASE AuthorizeAll(r)
  BY <1>8 DEF TypeOK, AuthorizeAll, AtHook
<1>9. CASE PerformanceCounters(r)
  BY <1>9 DEF TypeOK, PerformanceCounters, AtHook, StartCounting, EndCounting, TakeOff
<1>10. CASE User(r)
  <2>1. requestObject' \in [Requests -> RequestObjects]
    BY <1>10 DEF TypeOK, User, RequestObjects
  <2>2. callResult' \in [Requests -> {"none", "value", "error"}] /\ answered' \subseteq Requests
    BY <1>10 DEF TypeOK, User
  <2>3. /\ next' = [next EXCEPT ![r] = @ + 1]
        /\ UNCHANGED <<stage, arrPlugins, isAuthenticated, isAuthorized, running, counted, uncounted,
                       executed, disturbances, refused, removed>>
    BY <1>10 DEF User, AtHook
  <2> HIDE <1>10
  <2> QED BY <2>1, <2>2, <2>3 DEF TypeOK
<1>11. CASE UserThrows(r)
  <2>1. disturbances' \in 0 .. MaxDisturbances /\ refused' \subseteq Requests
    BY <1>11, ServerConstantsOK DEF TypeOK, UserThrows, Disturb
  <2>2. CASE Fail(r)
    BY <1>11, <2>1, <2>2, EnterType DEF TypeOK, UserThrows, Fail
  <2>3. CASE Enter(r, "thrown") /\ UNCHANGED callResult
    BY <1>11, <2>1, <2>3, EnterType DEF TypeOK, UserThrows
  <2> QED BY <1>11, <2>2, <2>3 DEF UserThrows
<1>12. CASE PerformanceCountersThrows(r)
  BY <1>12, EnterType DEF TypeOK, PerformanceCountersThrows, Fail
<1> QED BY <1>1, <1>2, <1>3, <1>4, <1>5, <1>6, <1>7, <1>8, <1>9, <1>10, <1>11, <1>12 DEF Progress

(* A change of the list of plugins preserves the types. *)
LEMMA ListType ==
    ASSUME TypeOK, (\E plugin \in Plugins : AddPlugin(plugin) \/ RemovePlugin(plugin)) \/ Dispose,
           UNCHANGED notifications
    PROVE  TypeOK'
<1> USE DEF requestVars, counterVars, effectVars, progressVars, Change, Disturb
<1>1. ASSUME NEW plugin \in Plugins, AddPlugin(plugin) PROVE TypeOK'
  <2>1. arrPlugins' \in Seq(Plugins) /\ IsInjective(arrPlugins')
    BY <1>1, AppendNew DEF AddPlugin, TypeOK
  <2> QED BY <1>1, <2>1, ServerConstantsOK DEF AddPlugin, TypeOK
<1>2. ASSUME NEW plugin \in Plugins, RemovePlugin(plugin) PROVE TypeOK'
  <2>1. arrPlugins' \in Seq(Plugins) /\ IsInjective(arrPlugins')
    BY <1>2, RemoveOne DEF RemovePlugin, TypeOK
  <2> QED BY <1>2, <2>1, ServerConstantsOK DEF RemovePlugin, TypeOK
<1>3. ASSUME Dispose PROVE TypeOK'
  <2>1. arrPlugins' \in Seq(Plugins) /\ IsInjective(arrPlugins')
    BY <1>3 DEF Dispose, IsInjective
  <2> QED BY <1>3, <2>1, ServerConstantsOK DEF Dispose, TypeOK
<1> QED BY <1>1, <1>2, <1>3

(* The state is well typed: the array of plugins has no duplicates, and    *)
(* runningCallsCount does not go below 0.                                  *)
THEOREM TypeCorrect == Spec => []TypeOK
<1>1. Init => TypeOK
  <2> SUFFICES ASSUME Init PROVE TypeOK
    OBVIOUS
  <2>1. arrPlugins \in Seq(Plugins) /\ IsInjective(arrPlugins)
    <3>1. CASE arrPlugins = <<"User", "AuthenticationSkip", "AuthorizeAll",
                              "PerformanceCounters">>
      BY <3>1 DEF Plugins, IsInjective
    <3>2. CASE arrPlugins = <<"AuthenticationSkip", "AuthorizeAll", "PerformanceCounters">>
      BY <3>2 DEF Plugins, IsInjective
    <3> QED BY <3>1, <3>2 DEF Init
  <2>2. callResult \in [Requests -> {"none", "value", "error"}]
    BY DEF Init
  <2>3. /\ stage \in [Requests -> Deciding \union Telling
                                      \union {"idle", "method", "done", "thrown"}]
        /\ next \in [Requests -> Nat \ {0}]
    BY DEF Init
  <2>4. disturbances \in 0 .. MaxDisturbances
    BY ServerConstantsOK DEF Init
  <2>5. /\ {notifications, isAuthenticated, isAuthorized, refused} \subseteq SUBSET Requests
        /\ {counted, uncounted, executed, answered} \subseteq SUBSET Requests
    BY ServerConstantsOK DEF Init
  <2> QED BY <2>1, <2>2, <2>3, <2>4, <2>5 DEF Init, TypeOK
<1>2. TypeOK /\ [Next]_vars => TypeOK'
  <2> SUFFICES ASSUME TypeOK, [Next]_vars PROVE TypeOK'
    OBVIOUS
  <2>1. CASE Next
    BY <2>1, RequestType, ListType DEF Next
  <2>2. CASE UNCHANGED vars
    BY <2>2 DEF TypeOK, vars, progressVars, requestVars, counterVars, effectVars, listVars,
       disturbanceVars
  <2> QED BY <2>1, <2>2
<1> QED BY <1>1, <1>2, PTL DEF Spec

-----------------------------------------------------------------------------

(* What holds of a request in each stage: a method is called from a stage  *)
(* that is entered with both flags set, and left for good; an answer of a  *)
(* plugin is a result.                                                     *)
CallInv ==
    \A r \in Requests :
      /\ stage[r] \in {"callFunction", "method"} => r \in isAuthenticated \intersect isAuthorized
      /\ r \in executed => /\ r \in isAuthenticated \intersect isAuthorized
                           /\ stage[r] \notin Deciding \union {"idle"}
                           /\ r \notin answered
      /\ r \in answered => IsMethodCalled(r)

(* A step of a request preserves CallInv. *)
LEMMA RequestCallInv ==
    ASSUME TypeOK, CallInv, NEW r \in Requests, Begin(r) \/ Progress(r) \/ UserThrows(r)
    PROVE  CallInv'
<1> USE DEF requestVars, counterVars, effectVars, listVars, Deciding, Telling, IsMethodCalled
<1>1. CASE Begin(r)
  BY <1>1 DEF TypeOK, CallInv, Begin, Enter
<1>2. CASE Decode(r)
  BY <1>2 DEF TypeOK, CallInv, Decode, LoopEnds, Fail, Enter
<1>3. CASE Check(r)
  BY <1>3 DEF TypeOK, CallInv, Check, Passes, LoopEnds, Fail, Enter
<1>4. CASE CallMethod(r)
  <2> UNCHANGED <<isAuthenticated, isAuthorized, answered>> /\ stage[r] = "callFunction"
    BY <1>4 DEF CallMethod, LoopEnds
  <2>1. CASE /\ MayCall(r) /\ executed' = executed \union {r}
             /\ stage' = [stage EXCEPT ![r] = "method"] /\ UNCHANGED <<next, callResult>>
    BY <2>1 DEF TypeOK, CallInv, MayCall
  <2>2. CASE Fail(r) /\ UNCHANGED executed
    BY <2>2 DEF TypeOK, CallInv, Fail, Enter
  <2>3. CASE Enter(r, OutcomeStage(callResult[r])) /\ UNCHANGED <<callResult, executed>>
    BY <2>3 DEF TypeOK, CallInv, Enter, OutcomeStage
  <2> QED BY <1>4, <2>1, <2>2, <2>3 DEF CallMethod
<1>5. CASE MethodReturns(r)
  BY <1>5 DEF TypeOK, CallInv, MethodReturns, OutcomeStage, Enter
<1>6. CASE Tell(r)
  BY <1>6 DEF TypeOK, CallInv, Tell, Successor, LoopEnds, Enter
<1>7. CASE AuthenticationSkip(r) \/ AuthorizeAll(r)
  BY <1>7 DEF TypeOK, CallInv, AuthenticationSkip, AuthorizeAll, AtHook
<1>8. CASE PerformanceCounters(r)
  BY <1>8 DEF TypeOK, CallInv, PerformanceCounters, AtHook
<1>9. CASE User(r)
  BY <1>9 DEF TypeOK, CallInv, User, AtHook
<1>10. CASE UserThrows(r)
  <2> UNCHANGED <<isAuthenticated, isAuthorized, executed, answered>>
    BY <1>10 DEF UserThrows
  <2>1. CASE stage[r] \in Deciding /\ Fail(r)
    BY <2>1 DEF TypeOK, CallInv, Fail, Enter
  <2>2. CASE stage[r] \in Telling /\ Enter(r, "thrown") /\ UNCHANGED callResult
    BY <2>2 DEF TypeOK, CallInv, Enter
  <2> QED BY <1>10, <2>1, <2>2 DEF UserThrows
<1>11. CASE PerformanceCountersThrows(r)
  BY <1>11 DEF TypeOK, CallInv, PerformanceCountersThrows, IsAt, Fail, Enter
<1> QED BY <1>1, <1>2, <1>3, <1>4, <1>5, <1>6, <1>7, <1>8, <1>9, <1>10, <1>11 DEF Progress

(* CallInv holds of every reachable state. *)
LEMMA CallInvariant == Spec => []CallInv
<1>1. Init => CallInv
  BY DEF Init, CallInv
<1>2. TypeOK /\ CallInv /\ [Next]_vars => CallInv'
  <2> SUFFICES ASSUME TypeOK, CallInv, [Next]_vars PROVE CallInv'
    OBVIOUS
  <2>1. ASSUME NEW r \in Requests, Begin(r) \/ Progress(r) \/ UserThrows(r) PROVE CallInv'
    BY <2>1, RequestCallInv
  <2>2. CASE UNCHANGED <<progressVars, requestVars, effectVars>>
    BY <2>2 DEF CallInv, IsMethodCalled, progressVars, requestVars, effectVars
  <2> QED BY <2>1, <2>2 DEF Next, AddPlugin, RemovePlugin, Dispose, Change, vars
<1> QED BY <1>1, <1>2, TypeCorrect, PTL DEF Spec

(* A method is called only for a request that the plugins authenticated    *)
(* and authorized, however the list of plugins changes meanwhile.          *)
THEOREM OnlyAuthorizedAreCalled == Spec => []CalledOnlyIfAuthorized
<1>1. TypeOK /\ CallInv => CalledOnlyIfAuthorized
  BY DEF TypeOK, CallInv, CalledOnlyIfAuthorized
<1> QED BY <1>1, TypeCorrect, CallInvariant, PTL

(* A request a plugin has answered never reaches its method.               *)
THEOREM AnsweredOnce == Spec => []NotAnsweredTwice
<1>1. TypeOK /\ CallInv => NotAnsweredTwice
  BY DEF TypeOK, CallInv, NotAnsweredTwice
<1> QED BY <1>1, TypeCorrect, CallInvariant, PTL

-----------------------------------------------------------------------------
(* The running count *)

(* The hooks of the plugin at index k that count r are behind it, and the  *)
(* hook that takes it off is ahead; only ahead, after it has failed; and   *)
(* both are behind.                                                        *)
Between(r, k) ==
    \/ stage[r] = "afterJSONDecode" /\ next[r] > k
    \/ stage[r] \in {"callFunction", "method"}
    \/ stage[r] = "result" /\ next[r] <= k

Failing(r, k) == stage[r] = "exceptionCatch" /\ next[r] <= k

Behind(r, k) ==
    \/ stage[r] \in {"result", "exceptionCatch"} /\ next[r] > k
    \/ stage[r] \in {"response", "afterSerialize", "done", "thrown"}

Countable(r) == requestObject[r] = "call" /\ r \notin notifications

(* What PerformanceCounters, at index k, has done for each request.        *)
Tracked(r, k) ==
    /\ r \in counted => Countable(r) /\ (Between(r, k) \/ Failing(r, k) \/ stage[r] = "thrown")
    /\ Countable(r) /\ Between(r, k) => r \in counted
    /\ Countable(r) /\ Failing(r, k) => r \in counted \union refused
    /\ r \in uncounted => Behind(r, k) /\ (r \in refused \/ requestObject[r] = "nameless")
    /\ Between(r, k) => requestObject[r] # "none"
    /\ stage[r] = "method" => requestObject[r] = "call"
    /\ stage[r] = "idle" /\ IsMethodCalled(r) => requestObject[r] = "none"

CountBounds == running \in Cardinality(counted) - Cardinality(uncounted) .. Cardinality(counted)

(* While no plugin is removed, PerformanceCounters keeps its index.        *)
CountInv ==
    ~removed =>
      /\ \E k \in DOMAIN arrPlugins :
           /\ arrPlugins[k] = "PerformanceCounters"
           /\ \A r \in Requests : Tracked(r, k)
      /\ CountBounds

(* A step of one request, and of no list, keeps the others tracked.        *)
LEMMA TrackedApart ==
    ASSUME TypeOK, NEW r \in Requests, Begin(r) \/ Progress(r) \/ UserThrows(r),
           UNCHANGED notifications, NEW q \in Requests \ {r}, NEW k
    PROVE  Tracked(q, k) => Tracked(q, k)'
<1>1. /\ stage'[q] = stage[q] /\ next'[q] = next[q] /\ callResult'[q] = callResult[q]
      /\ requestObject'[q] = requestObject[q]
  BY DEF TypeOK, requestVars, Begin, Progress, Decode, Check, CallMethod, MethodReturns, Tell, Fail,
     Enter, AuthenticationSkip, AuthorizeAll, PerformanceCounters, PerformanceCountersThrows, User,
     UserThrows, AtHook
<1>2. /\ q \in counted' <=> q \in counted
      /\ q \in uncounted' <=> q \in uncounted
  <2>1. CASE UNCHANGED counterVars
    BY <2>1 DEF counterVars
  <2>2. CASE PerformanceCounters(r)
    BY <2>2 DEF PerformanceCounters, StartCounting, EndCounting, TakeOff, counterVars
  <2> QED BY <2>1, <2>2 DEF Begin, Progress, Decode, Check, CallMethod, MethodReturns, Tell,
        AuthenticationSkip, AuthorizeAll, PerformanceCountersThrows, User, UserThrows
<1>3. q \in refused => q \in refused'
  BY DEF Begin, Progress, Decode, Check, CallMethod, MethodReturns, Tell, AuthenticationSkip,
     AuthorizeAll, PerformanceCounters, PerformanceCountersThrows, User, UserThrows, AtHook,
     disturbanceVars
<1> QED BY <1>1, <1>2, <1>3 DEF Tracked, Between, Failing, Behind, Countable, IsMethodCalled

(* A step of a request that is no hook of PerformanceCounters keeps it     *)
(* tracked.                                                                *)
LEMMA StageTracked ==
    ASSUME TypeOK, NEW r \in Requests, NEW k \in DOMAIN arrPlugins,
           arrPlugins[k] = "PerformanceCounters", Tracked(r, k),
           Begin(r) \/ Decode(r) \/ Check(r) \/ CallMethod(r) \/ MethodReturns(r) \/ Tell(r),
           UNCHANGED notifications
    PROVE  Tracked(r, k)'
<1> USE DEF requestVars, counterVars, disturbanceVars, Tracked, Between, Failing, Behind, Countable,
        IsMethodCalled
<1> k \in Nat \ {0} /\ k <= Len(arrPlugins) /\ Len(arrPlugins) \in Nat /\ next[r] \in Nat
  BY LenProperties DEF TypeOK
<1> UNCHANGED <<counted, uncounted, refused>>
  BY DEF Begin, Decode, Check, CallMethod, MethodReturns, Tell
<1>1. CASE Begin(r)
  BY <1>1 DEF TypeOK, Begin, Enter
<1>2. CASE Decode(r)
  BY <1>2 DEF TypeOK, Decode, LoopEnds, Fail, Enter
<1>3. CASE Check(r)
  BY <1>3 DEF TypeOK, Check, LoopEnds, Fail, Enter
<1>4. CASE CallMethod(r)
  <2> UNCHANGED requestObject /\ stage[r] = "callFunction"
    BY <1>4 DEF CallMethod, LoopEnds
  <2>1. CASE /\ requestObject[r] = "call" /\ stage' = [stage EXCEPT ![r] = "method"]
             /\ UNCHANGED <<next, callResult>>
    BY <2>1 DEF TypeOK
  <2>2. CASE Fail(r)
    BY <2>2 DEF TypeOK, Fail, Enter
  <2>3. CASE Enter(r, OutcomeStage(callResult[r])) /\ UNCHANGED callResult
    BY <2>3 DEF TypeOK, Enter, OutcomeStage
  <2> QED BY <1>4, <2>1, <2>2, <2>3 DEF CallMethod
<1>5. CASE MethodReturns(r)
  BY <1>5 DEF TypeOK, MethodReturns, OutcomeStage, Enter
<1>6. CASE Tell(r)
  BY <1>6 DEF TypeOK, Tell, Telling, Successor, LoopEnds, Enter
<1> QED BY <1>1, <1>2, <1>3, <1>4, <1>5, <1>6

(* So do the hooks of the other plugins, and exceptions: one before the    *)
(* request is counted refuses it.                                          *)
LEMMA HookTracked ==
    ASSUME TypeOK, NEW r \in Requests, NEW k \in DOMAIN arrPlugins,
           arrPlugins[k] = "PerformanceCounters", Tracked(r, k),
           \/ AuthenticationSkip(r) \/ AuthorizeAll(r) \/ User(r)
           \/ PerformanceCountersThrows(r) \/ UserThrows(r),
           UNCHANGED notifications
    PROVE  Tracked(r, k)'
<1> USE DEF requestVars, counterVars, disturbanceVars, Tracked, Between, Failing, Behind, Countable,
        IsMethodCalled
<1> k \in Nat \ {0} /\ next[r] \in Nat /\ next[r] \in DOMAIN arrPlugins
  BY LenProperties DEF TypeOK, AtHook, IsAt, AuthenticationSkip, AuthorizeAll, User,
     PerformanceCountersThrows, UserThrows
<1> UNCHANGED <<counted, uncounted>>
  BY DEF AuthenticationSkip, AuthorizeAll, User, PerformanceCountersThrows, UserThrows
<1> stage[r] \in Deciding \union Telling
  BY DEF AtHook, IsAt, AuthenticationSkip, AuthorizeAll, User, PerformanceCountersThrows, UserThrows
<1>1. CASE AuthenticationSkip(r) \/ AuthorizeAll(r) \/ User(r)
  <2>1. next[r] # k /\ next' = [next EXCEPT ![r] = @ + 1] /\ UNCHANGED <<stage, refused>>
    BY <1>1 DEF AuthenticationSkip, AuthorizeAll, User, AtHook, IsAt
  <2>2. /\ Between(r, k)' <=> Between(r, k)
        /\ Failing(r, k)' <=> Failing(r, k)
        /\ Behind(r, k)' <=> Behind(r, k)
    BY <2>1 DEF TypeOK
  <2>3. \/ requestObject'[r] = requestObject[r]
        \/ /\ stage[r] \in {"beforeJSONDecode", "afterJSONDecode"}
           /\ requestObject[r] = "none" /\ requestObject'[r] = "call"
    BY <1>1 DEF TypeOK, AuthenticationSkip, AuthorizeAll, User
  <2>4. stage[r] # "idle" /\ stage[r] # "method"
    BY DEF Deciding, Telling
  <2> QED BY <2>1, <2>2, <2>3, <2>4
<1>2. CASE PerformanceCountersThrows(r)
  BY <1>2 DEF TypeOK, PerformanceCountersThrows, ReadsNull, Fail, Enter
<1>3. CASE UserThrows(r)
  <2> UNCHANGED requestObject
    BY <1>3 DEF UserThrows
  <2>1. CASE stage[r] \in Deciding /\ Fail(r)
    <3>1. \/ r \in counted
          \/ r \in refused'
          \/ stage[r] = "callFunction" /\ r \notin counted
      BY <1>3, <2>1 DEF UserThrows, Deciding
    <3>2. refused \subseteq refused'
      BY <1>3 DEF UserThrows
    <3>3. stage'[r] = "exceptionCatch" /\ next'[r] = 1
      BY <2>1 DEF TypeOK, Fail, Enter
    <3>4. stage[r] \in Deciding
      BY <2>1
    <3> QED BY <3>1, <3>2, <3>3, <3>4 DEF Deciding
  <2>2. CASE stage[r] \in Telling /\ Enter(r, "thrown") /\ UNCHANGED callResult
    <3>1. refused' = refused
      BY <1>3, <2>2 DEF UserThrows, Telling
    <3> QED BY <2>2, <3>1 DEF TypeOK, Enter, Telling
  <2> QED BY <1>3, <2>1, <2>2 DEF UserThrows
<1> QED BY <1>1, <1>2, <1>3

(* The hooks of PerformanceCounters keep it tracked, and the bounds of the *)
(* count.                                                                  *)
LEMMA CounterTracked ==
    ASSUME TypeOK, NEW r \in Requests, NEW k \in DOMAIN arrPlugins,
           arrPlugins[k] = "PerformanceCounters", Tracked(r, k), CountBounds,
           PerformanceCounters(r), UNCHANGED notifications
    PROVE  Tracked(r, k)' /\ CountBounds'
<1> USE DEF Tracked, Between, Failing, Behind, Countable
<1> /\ k \in Nat \ {0} /\ next[r] = k /\ next' = [next EXCEPT ![r] = @ + 1]
    /\ UNCHANGED <<stage, requestObject, callResult, refused>>
    /\ stage[r] \in Deciding \union Telling
  BY LenProperties DEF TypeOK, IsInjective, PerformanceCounters, AtHook, IsAt, requestVars,
     disturbanceVars
<1> next'[r] = k + 1 /\ stage[r] # "idle" /\ stage[r] # "method"
  BY DEF TypeOK, Deciding, Telling
<1>1. /\ IsFiniteSet(counted) /\ IsFiniteSet(uncounted)
      /\ Cardinality(counted) \in Nat /\ Cardinality(uncounted) \in Nat
  BY FS_Subset, FS_CardinalityType, ServerConstantsOK DEF TypeOK
<1>2. CASE CountsStart(r) /\ StartCounting(r)
  <2>1. Tracked(r, k)'
    BY <1>2 DEF CountsStart, StartCounting
  <2>2. r \notin counted
    BY <1>2 DEF CountsStart
  <2>3. Cardinality(counted') = Cardinality(counted) + 1 /\ UNCHANGED uncounted
    BY <1>1, <1>2, <2>2, FS_AddElement DEF StartCounting
  <2>4. running' = running + 1
    BY <1>2 DEF StartCounting
  <2> QED BY <1>1, <2>1, <2>3, <2>4 DEF CountBounds, TypeOK
<1>3. CASE CountsEnd(r) /\ EndCounting(r)
  <2>1. Tracked(r, k)'
    BY <1>3, SMTT(30) DEF CountsEnd, EndCounting, TakeOff, TypeOK, RequestObjects
  <2>2. r \notin uncounted
    BY <1>3 DEF CountsEnd
  <2>3. CASE r \in counted
    <3>1. /\ Cardinality(counted') = Cardinality(counted) - 1
          /\ Cardinality(counted) # 0
          /\ UNCHANGED uncounted
      <4>1. counted' = counted \ {r} /\ UNCHANGED uncounted
        BY <1>3, <2>3 DEF EndCounting, TakeOff
      <4>2. Cardinality(counted) # 0
        BY <1>1, <2>3, FS_EmptySet
      <4> QED BY <1>1, <2>3, <4>1, <4>2, FS_RemoveElement
    <3>2. running' = IF running > 0 THEN running - 1 ELSE 0
      BY <1>3 DEF EndCounting
    <3> QED BY <1>1, <2>1, <3>1, <3>2 DEF CountBounds, TypeOK
  <2>4. CASE r \notin counted
    <3>1. /\ Cardinality(uncounted') = Cardinality(uncounted) + 1
          /\ UNCHANGED counted
      <4>1. uncounted' = uncounted \union {r} /\ UNCHANGED counted
        BY <1>3, <2>4 DEF EndCounting, TakeOff
      <4> QED BY <1>1, <2>2, <4>1, FS_AddElement
    <3>2. running' = IF running > 0 THEN running - 1 ELSE 0
      BY <1>3 DEF EndCounting
    <3> QED BY <1>1, <2>1, <3>1, <3>2 DEF CountBounds, TypeOK
  <2> QED BY <2>3, <2>4
<1>4. CASE ~CountsStart(r) /\ ~CountsEnd(r) /\ UNCHANGED counterVars
  <2>1. Tracked(r, k)'
    BY <1>4, SMTT(30) DEF CountsStart, CountsEnd, counterVars, PerformanceCounters, ReadsNull, TypeOK,
       RequestObjects
  <2> QED BY <1>4, <2>1 DEF CountBounds, counterVars
<1> QED BY <1>2, <1>3, <1>4 DEF PerformanceCounters

(* CountInv holds of every reachable state. *)
LEMMA CountInvariant == Spec => []CountInv
<1>1. Init => CountInv
  <2> SUFFICES ASSUME Init PROVE CountInv
    OBVIOUS
  <2> DEFINE k == IF arrPlugins[1] = "User" THEN 4 ELSE 3
  <2>1. k \in DOMAIN arrPlugins /\ arrPlugins[k] = "PerformanceCounters"
    <3>1. CASE arrPlugins = <<"User", "AuthenticationSkip", "AuthorizeAll",
                              "PerformanceCounters">>
      BY <3>1
    <3>2. CASE arrPlugins = <<"AuthenticationSkip", "AuthorizeAll", "PerformanceCounters">>
      BY <3>2
    <3> QED BY <3>1, <3>2 DEF Init
  <2> HIDE DEF k
  <2>2. CountBounds
    BY FS_EmptySet DEF Init, CountBounds
  <2>3. ASSUME NEW r \in Requests PROVE Tracked(r, k)
    <3>1. IsMethodCalled(r) => requestObject[r] = "none"
      BY DEF Init, IsMethodCalled
    <3> QED BY <3>1 DEF Init, Tracked, Between, Failing, Behind
  <2> QED BY <2>1, <2>2, <2>3 DEF CountInv
<1>2. TypeOK /\ CountInv /\ [Next]_vars => CountInv'
  <2> SUFFICES ASSUME TypeOK, CountInv, [Next]_vars, ~removed, ~removed' PROVE CountInv'
    <3>1. ASSUME TypeOK, [Next]_vars, removed PROVE removed'
      <4>1. ASSUME NEW r \in Requests, Begin(r) \/ Progress(r) \/ UserThrows(r)
            PROVE  UNCHANGED removed
        BY <4>1 DEF listVars, Begin, Progress, Decode, Check, CallMethod, MethodReturns, Tell,
           AuthenticationSkip, AuthorizeAll, User, PerformanceCounters, PerformanceCountersThrows,
           UserThrows, AtHook
      <4> QED BY <3>1, <4>1 DEF Next, vars, listVars, RemovePlugin, Dispose, AddPlugin
    <3> QED BY <3>1 DEF CountInv
  <2> PICK k \in DOMAIN arrPlugins :
        /\ arrPlugins[k] = "PerformanceCounters"
        /\ \A r \in Requests : Tracked(r, k)
    BY DEF CountInv
  <2> CountBounds
    BY DEF CountInv
  <2>1. ASSUME NEW r \in Requests, Begin(r) \/ Progress(r) \/ UserThrows(r), UNCHANGED notifications
        PROVE  CountInv'
    <3>1. UNCHANGED arrPlugins
      BY <2>1 DEF listVars, Begin, Progress, Decode, Check, CallMethod, MethodReturns, Tell,
         AuthenticationSkip, AuthorizeAll, User, PerformanceCounters, PerformanceCountersThrows,
         UserThrows, AtHook
    <3>2. Tracked(r, k)'
      BY <2>1, StageTracked, HookTracked, CounterTracked DEF Progress
    <3>3. CountBounds'
      <4>1. CASE UNCHANGED counterVars
        BY <4>1 DEF CountBounds, counterVars
      <4>2. CASE PerformanceCounters(r)
        BY <2>1, <4>2, CounterTracked
      <4> QED BY <2>1, <4>1, <4>2 DEF Begin, Progress, Decode, Check, CallMethod, MethodReturns,
            Tell, AuthenticationSkip, AuthorizeAll, PerformanceCountersThrows, User, UserThrows
    <3>4. \A q \in Requests \ {r} : Tracked(q, k)'
      BY <2>1, TrackedApart
    <3> QED BY <3>1, <3>2, <3>3, <3>4 DEF CountInv
  <2>2. ASSUME NEW plugin \in Plugins, AddPlugin(plugin), UNCHANGED notifications PROVE CountInv'
    <3>1. k \in DOMAIN arrPlugins' /\ arrPlugins'[k] = arrPlugins[k]
      BY <2>2, LenProperties, AppendProperties DEF TypeOK, AddPlugin
    <3>2. UNCHANGED <<stage, next, requestObject, callResult, counted, uncounted, running, refused>>
      BY <2>2 DEF AddPlugin, Change, progressVars, requestVars, counterVars
    <3> QED BY <2>2, <3>1, <3>2 DEF CountInv, Tracked, Between, Failing, Behind, Countable,
          IsMethodCalled, CountBounds
  <2>3. CASE UNCHANGED vars
    BY <2>3 DEF CountInv, Tracked, Between, Failing, Behind, Countable, IsMethodCalled, CountBounds,
       vars, progressVars, requestVars, counterVars, listVars, disturbanceVars
  <2> QED BY <2>1, <2>2, <2>3 DEF Next, RemovePlugin, Dispose
<1> QED BY <1>1, <1>2, TypeCorrect, PTL DEF Spec

(* While no plugin is removed, runningCallsCount is the number of counted  *)
(* calls, less at most one for each that was taken off without having been *)
(* counted, which a plugin refused by an exception or which has no method  *)
(* name; every call whose method runs is counted, and a counted call is    *)
(* over only when an exception left processRequest().  For any overlap of  *)
(* any number of requests and any number of exceptions.                    *)
THEOREM CountIsOfRunningCalls == Spec => []CountsRunning
<1>1. TypeOK /\ CountInv => CountsRunning
  <2> SUFFICES ASSUME TypeOK, CountInv, ~removed PROVE CountsRunning
    BY DEF CountsRunning
  <2> PICK k \in DOMAIN arrPlugins :
        /\ arrPlugins[k] = "PerformanceCounters"
        /\ \A r \in Requests : Tracked(r, k)
    BY DEF CountInv
  <2>1. uncounted \subseteq refused \union {r \in Requests : requestObject[r] = "nameless"}
    BY DEF Tracked, TypeOK
  <2>2. \A r \in counted : stage[r] # "done"
    BY DEF Tracked, TypeOK, Between, Failing
  <2>3. \A r \in Requests \ notifications : stage[r] = "method" => r \in counted
    BY DEF Tracked, Between, Countable
  <2> QED BY <2>1, <2>2, <2>3 DEF CountInv, CountBounds, CountsRunning
<1> QED BY <1>1, TypeCorrect, CountInvariant, PTL

============================================================================
