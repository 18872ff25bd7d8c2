------------------------------- MODULE Server -------------------------------
(***************************************************************************)
(* Server.processRequest(): the stages a request goes through, each a loop *)
(* over the plugins that awaits one after the other, while other requests  *)
(* are in other stages and the program adds and removes plugins.  The      *)
(* plugins are those of Plugins/Server that keep or change state and one   *)
(* of the user's, which may throw in any stage and answer a request.       *)
(*                                                                         *)
(* A step is a hook of a plugin, or what is between two loops.             *)
(***************************************************************************)
EXTENDS Integers, FiniteSets, SequencesExt

CONSTANTS
    Requests,       \* calls of processRequest()
    Decoded,        \* those whose requestObject the router sets: not of HTTP
    Unknown,        \* those whose endpoint may be unknown
    Nameless,       \* those whose method may be missing or the empty string
    Notifying,      \* those that may be without an ID
    MaxDisturbances \* bound: exceptions of the user's plugin, and calls of
                    \* addPlugin(), removePlugin() and dispose()

Plugins == {"AuthenticationSkip", "AuthorizeAll", "PerformanceCounters", "User"}

ASSUME ServerConstantsOK ==
    /\ IsFiniteSet(Requests)
    /\ {Decoded, Unknown, Nameless, Notifying} \subseteq SUBSET Requests
    /\ MaxDisturbances \in Nat

VARIABLES
    arrPlugins,     \* this._arrPlugins
    stage,          \* where each request is
    next,           \* the index of the plugin its loop comes to
    notifications,  \* requests without an ID
    requestObject,  \* each one's, by whether its method is a name
    isAuthenticated,
    isAuthorized,
    callResult,     \* "none", or isMethodCalled holds
    running,        \* this._nCurrentlyRunningFunctions
    counted,        \* requests PerformanceCounters has counted and not taken off
    uncounted,      \* those it has taken off without having counted them
    executed,       \* requests whose method was called
    answered,       \* requests the user's plugin has answered
    refused,        \* requests refused by an exception before they were counted
    disturbances,   \* how many there were
    removed         \* whether a plugin was ever removed

progressVars == <<stage, next>>
requestVars == <<requestObject, isAuthenticated, isAuthorized, callResult>>
counterVars == <<running, counted, uncounted>>
effectVars == <<executed, answered>>
listVars == <<arrPlugins, removed>>
disturbanceVars == <<disturbances, refused>>
vars == <<notifications, progressVars, requestVars, counterVars, effectVars, listVars,
          disturbanceVars>>

Deciding == {"beforeJSONDecode", "afterJSONDecode", "callFunction"}
Telling == {"exceptionCatch", "result", "response", "afterSerialize"}

(* No object, as null is; one that calls a method; one whose method is the *)
(* empty string or missing.                                                *)
RequestObjects == {"none", "call", "nameless"}
Objects(r) == {"call"} \union (IF r \in Nameless THEN {"nameless"} ELSE {})

TypeOK ==
    /\ arrPlugins \in Seq(Plugins) /\ IsInjective(arrPlugins)
    /\ stage \in [Requests -> Deciding \union Telling \union {"idle", "method", "done", "thrown"}]
    /\ next \in [Requests -> Nat \ {0}]
    /\ requestObject \in [Requests -> RequestObjects]
    /\ {notifications, isAuthenticated, isAuthorized, refused} \subseteq SUBSET Requests
    /\ callResult \in [Requests -> {"none", "value", "error"}]
    /\ running \in Nat
    /\ {counted, uncounted, executed, answered} \subseteq SUBSET Requests
    /\ disturbances \in 0 .. MaxDisturbances /\ removed \in BOOLEAN

(* The user's plugin was added first, or is not there yet.  A request      *)
(* whose endpoint is unknown comes with an error for its result and no     *)
(* object, so that it does not count as a notification either.             *)
Init ==
    /\ arrPlugins \in {<<"User", "AuthenticationSkip", "AuthorizeAll", "PerformanceCounters">>,
                       <<"AuthenticationSkip", "AuthorizeAll", "PerformanceCounters">>}
    /\ stage = [r \in Requests |-> "idle"]
    /\ next = [r \in Requests |-> 1]
    /\ \E unknown \in SUBSET Unknown :
         /\ callResult = [r \in Requests |-> IF r \in unknown THEN "error" ELSE "none"]
         /\ notifications \in SUBSET (Notifying \ unknown)
         /\ requestObject \in [Requests -> RequestObjects]
         /\ \A r \in Requests :
              requestObject[r] \in IF r \in Decoded \ unknown THEN Objects(r) ELSE {"none"}
    /\ isAuthenticated = {} /\ isAuthorized = {}
    /\ running = 0 /\ counted = {} /\ uncounted = {}
    /\ executed = {} /\ answered = {}
    /\ disturbances = 0 /\ refused = {} /\ removed = FALSE

-----------------------------------------------------------------------------
(* Stages *)

IsMethodCalled(r) == callResult[r] # "none"

Enter(r, s) ==
    /\ stage' = [stage EXCEPT ![r] = s]
    /\ next' = [next EXCEPT ![r] = 1]

OutcomeStage(result) == IF result = "error" THEN "exceptionCatch" ELSE "result"

(* The catch block of processRequest(). *)
Fail(r) ==
    /\ callResult' = [callResult EXCEPT ![r] = "error"]
    /\ Enter(r, "exceptionCatch")

Begin(r) ==
    /\ stage[r] = "idle"
    /\ Enter(r, IF IsMethodCalled(r) THEN "exceptionCatch" ELSE "beforeJSONDecode")
    /\ UNCHANGED <<requestVars, counterVars, effectVars, listVars, disturbanceVars>>

(* Mutant: the loop ends when its index is the array's length. *)
LoopEndsAtLength(r, s) ==
    /\ stage[r] = s
    /\ next[r] = Len(arrPlugins) + 1 \/ (s = "callFunction" /\ IsMethodCalled(r))

(* for(let plugin of this._arrPlugins): the index is compared with the     *)
(* array's length as it is by then.  The loop of callFunction also ends    *)
(* when the method was called.                                             *)
LoopEnds(r, s) ==
    /\ stage[r] = s
    /\ next[r] > Len(arrPlugins) \/ (s = "callFunction" /\ IsMethodCalled(r))

(* requestObject is decoded where there is none, which may fail, or give   *)
(* null.                                                                   *)
Decode(r) ==
    /\ LoopEnds(r, "beforeJSONDecode")
    /\ \/ /\ \E object \in IF requestObject[r] = "none" THEN Objects(r) \union {"none"}
                                                     ELSE {requestObject[r]} :
               requestObject' = [requestObject EXCEPT ![r] = object]
          /\ Enter(r, "afterJSONDecode")
          /\ UNCHANGED callResult
       \/ /\ requestObject[r] = "none"
          /\ Fail(r)
          /\ UNCHANGED requestObject
    /\ UNCHANGED <<isAuthenticated, isAuthorized, counterVars, effectVars, listVars,
                   disturbanceVars>>

(* Mutant: isAuthorized is not looked at. *)
PassesUnauthorized(r) == r \in isAuthenticated

Passes(r) == r \in isAuthenticated /\ r \in isAuthorized

(* A request without an object, a batch, named params, a method that       *)
(* begins with "_" or is missing fails, as does a request that is not      *)
(* authenticated or not authorized.                                        *)
Check(r) ==
    /\ LoopEnds(r, "afterJSONDecode")
    /\ \/ /\ requestObject[r] # "none" /\ Passes(r)
          /\ Enter(r, "callFunction")
          /\ UNCHANGED callResult
       \/ Fail(r)
    /\ UNCHANGED <<requestObject, isAuthenticated, isAuthorized, counterVars, effectVars, listVars,
                   disturbanceVars>>

(* Mutant: what a plugin answered before callFunction is forgotten. *)
MayCallAlways(r) == r \in Requests

MayCall(r) == ~IsMethodCalled(r)

(* The method of the endpoint, unless a plugin has answered or there is no *)
(* such method.                                                            *)
CallMethod(r) ==
    /\ LoopEnds(r, "callFunction")
    /\ \/ /\ MayCall(r)
          /\ \/ /\ requestObject[r] = "call"
                /\ executed' = executed \union {r}
                /\ stage' = [stage EXCEPT ![r] = "method"]
                /\ UNCHANGED <<next, callResult>>
             \/ Fail(r) /\ UNCHANGED executed
       \/ /\ IsMethodCalled(r)
          /\ Enter(r, OutcomeStage(callResult[r]))
          /\ UNCHANGED <<callResult, executed>>
    /\ UNCHANGED <<requestObject, isAuthenticated, isAuthorized, counterVars, answered, listVars,
                   disturbanceVars>>

MethodReturns(r) ==
    /\ stage[r] = "method"
    /\ \E result \in {"value", "error"} :
         /\ callResult' = [callResult EXCEPT ![r] = result]
         /\ Enter(r, OutcomeStage(result))
    /\ UNCHANGED <<requestObject, isAuthenticated, isAuthorized, counterVars, effectVars, listVars,
                   disturbanceVars>>

Successor(s) ==
    CASE s \in {"exceptionCatch", "result"} -> "response"
      [] s = "response" -> "afterSerialize"
      [] s = "afterSerialize" -> "done"

(* The rest of processRequest(). *)
Tell(r) ==
    /\ \E s \in Telling : LoopEnds(r, s) /\ Enter(r, Successor(s))
    /\ UNCHANGED <<requestVars, counterVars, effectVars, listVars, disturbanceVars>>

-----------------------------------------------------------------------------
(* Hooks *)

IsAt(r, plugin) ==
    /\ stage[r] \in Deciding \union Telling /\ ~LoopEnds(r, stage[r])
    /\ next[r] \in DOMAIN arrPlugins /\ arrPlugins[next[r]] = plugin

AtHook(r, plugin) ==
    /\ IsAt(r, plugin)
    /\ next' = [next EXCEPT ![r] = @ + 1]
    /\ UNCHANGED <<stage, listVars, disturbanceVars>>

AuthenticationSkip(r) ==
    /\ AtHook(r, "AuthenticationSkip")
    /\ isAuthenticated' = IF stage[r] = "beforeJSONDecode" THEN isAuthenticated \union {r}
                                                           ELSE isAuthenticated
    /\ UNCHANGED <<requestObject, isAuthorized, callResult, counterVars, effectVars>>

AuthorizeAll(r) ==
    /\ AtHook(r, "AuthorizeAll")
    /\ isAuthorized' = IF stage[r] = "beforeJSONDecode" THEN isAuthorized \union {r}
                                                        ELSE isAuthorized
    /\ UNCHANGED <<requestObject, isAuthenticated, callResult, counterVars, effectVars>>

(* Every other hook of the plugin does nothing the model knows of. *)
CountsStart(r) ==
    stage[r] = "afterJSONDecode" /\ requestObject[r] = "call" /\ r \notin notifications

(* Mutant: a call that fails is not taken off. *)
CountsEndOfResult(r) == stage[r] = "result" /\ r \notin notifications

CountsEnd(r) ==
    /\ stage[r] = "result" \/ (stage[r] = "exceptionCatch" /\ requestObject[r] = "call")
    /\ r \notin notifications

StartCounting(r) ==
    /\ running' = running + 1
    /\ counted' = counted \union {r}
    /\ UNCHANGED uncounted

TakeOff(r) ==
    /\ counted' = counted \ {r}
    /\ uncounted' = uncounted \union ({r} \ counted)

(* Mutant: what fails before it is counted is taken off all the same. *)
EndCountingBelowZero(r) == running' = running - 1 /\ TakeOff(r)

(* The number does not go below 0. *)
EndCounting(r) ==
    /\ running' = IF running > 0 THEN running - 1 ELSE 0
    /\ TakeOff(r)

(* afterJSONDecode() reads a property of requestObject, which throws for   *)
(* null.                                                                   *)
ReadsNull(r) == stage[r] = "afterJSONDecode" /\ requestObject[r] = "none"

PerformanceCounters(r) ==
    /\ AtHook(r, "PerformanceCounters") /\ ~ReadsNull(r)
    /\ \/ CountsStart(r) /\ StartCounting(r)
       \/ CountsEnd(r) /\ EndCounting(r)
       \/ ~CountsStart(r) /\ ~CountsEnd(r) /\ UNCHANGED counterVars
    /\ UNCHANGED <<requestVars, effectVars>>

PerformanceCountersThrows(r) ==
    /\ IsAt(r, "PerformanceCounters") /\ ReadsNull(r)
    /\ Fail(r)
    /\ UNCHANGED <<requestObject, isAuthenticated, isAuthorized, counterVars, effectVars, listVars,
                   disturbanceVars>>

(* The user's plugin may answer a request before its method is called, and *)
(* provide an object for one without.                                      *)
User(r) ==
    /\ AtHook(r, "User")
    /\ \/ UNCHANGED <<requestObject, callResult, answered>>
       \/ /\ stage[r] \in Deciding
          /\ answered' = answered \union {r}
          /\ \E result \in {"value", "error"} : callResult' = [callResult EXCEPT ![r] = result]
          /\ UNCHANGED requestObject
       \/ /\ stage[r] \in {"beforeJSONDecode", "afterJSONDecode"} /\ requestObject[r] = "none"
          /\ requestObject' = [requestObject EXCEPT ![r] = "call"]
          /\ UNCHANGED <<callResult, answered>>
    /\ UNCHANGED <<isAuthenticated, isAuthorized, counterVars, executed>>

Disturb == disturbances < MaxDisturbances /\ disturbances' = disturbances + 1

(* An exception of a plugin is the result of the call, or, when there is a *)
(* result, leaves processRequest().                                        *)
UserThrows(r) ==
    /\ IsAt(r, "User")
    /\ Disturb
    /\ refused' = IF stage[r] \in {"beforeJSONDecode", "afterJSONDecode"} /\ r \notin counted
                  THEN refused \union {r} ELSE refused
    /\ \/ stage[r] \in Deciding /\ Fail(r)
       \/ /\ stage[r] \in Telling
          /\ Enter(r, "thrown")
          /\ UNCHANGED callResult
    /\ UNCHANGED <<requestObject, isAuthenticated, isAuthorized, counterVars, effectVars, listVars>>

-----------------------------------------------------------------------------
(* The program *)

Change ==
    /\ Disturb
    /\ UNCHANGED <<progressVars, requestVars, counterVars, effectVars, refused>>

AddPlugin(plugin) ==
    /\ Change
    /\ ~Contains(arrPlugins, plugin)
    /\ arrPlugins' = Append(arrPlugins, plugin)
    /\ UNCHANGED removed

RemovePlugin(plugin) ==
    /\ Change
    /\ \E i \in DOMAIN arrPlugins : arrPlugins[i] = plugin /\ arrPlugins' = RemoveAt(arrPlugins, i)
    /\ removed' = TRUE

Dispose ==
    /\ Change
    /\ arrPlugins' = <<>>
    /\ removed' = TRUE

Progress(r) ==
    \/ Decode(r) \/ Check(r) \/ CallMethod(r) \/ MethodReturns(r) \/ Tell(r)
    \/ AuthenticationSkip(r) \/ AuthorizeAll(r) \/ User(r)
    \/ PerformanceCounters(r) \/ PerformanceCountersThrows(r)

Next ==
    /\ \/ \E r \in Requests : Begin(r) \/ Progress(r) \/ UserThrows(r)
       \/ \E plugin \in Plugins : AddPlugin(plugin) \/ RemovePlugin(plugin)
       \/ Dispose
    /\ UNCHANGED notifications

Spec == Init /\ [][Next]_vars

(* The hooks of the plugins and the methods return. *)
FairSpec == Spec /\ \A r \in Requests : WF_vars(Progress(r) /\ UNCHANGED notifications)

-----------------------------------------------------------------------------

Ended(r) == stage[r] \in {"done", "thrown"}

(* A method is called only for a request that was authenticated and        *)
(* authorized by plugins that ran for it, though the list changes under    *)
(* the loop that authorizes it, so that hooks are skipped.                 *)
CalledOnlyIfAuthorized == executed \subseteq isAuthenticated \intersect isAuthorized

(* A request a plugin has answered, in whichever stage, does not reach its *)
(* method.                                                                 *)
NotAnsweredTwice == executed \intersect answered = {}

(* While no plugin is removed, every call whose method runs is counted; a  *)
(* counted call is over only when a plugin's exception left                *)
(* processRequest() before it was taken off, and then stays counted; and   *)
(* runningCallsCount, which does not go below 0, is the number of those    *)
(* counted, less at most one for each call taken off without having been   *)
(* counted: one that a plugin before PerformanceCounters refused by an     *)
(* exception, or one without a method name that a plugin answered.         *)
CountsRunning ==
    ~removed =>
      /\ running \in Cardinality(counted) - Cardinality(uncounted) .. Cardinality(counted)
      /\ uncounted \subseteq refused \union {r \in Requests : requestObject[r] = "nameless"}
      /\ \A r \in counted : stage[r] # "done"
      /\ \A r \in Requests \ notifications : stage[r] = "method" => r \in counted

(* Every request that begins ends, though plugins are added to the array   *)
(* it iterates: a request begins only once, so that again and again none   *)
(* is under way.                                                           *)
EveryRequestEnds == []<>(\A r \in Requests : stage[r] = "idle" \/ Ended(r))
=============================================================================
