------------------------- MODULE WebSocketTransport -------------------------
(***************************************************************************)
(* Plugins/Client/WebSocketTransport.js together with the part of          *)
(* Client.rpc() that drives it: waitReady() and its reconnection, the map  *)
(* of calls waiting for an answer, the handlers of a WebSocket's events    *)
(* and dispose().  bBidirectionalWebSocketMode is false.                   *)
(*                                                                         *)
(* JavaScript runs a continuation of a settled promise (a microtask) before*)
(* the next event or timer (a macrotask), in no order that matters here:   *)
(* an action that models a macrotask is guarded by ~MicrotaskReady.  The   *)
(* server runs on its own and answers in any order.  The network may fail  *)
(* a socket at any time.                                                   *)
(***************************************************************************)
EXTENDS FiniteSets

CONSTANTS
    Calls,          \* invocations of Client.rpc(); the member is the call ID
    SkipCalls,      \* those made with bSkipWaitReadyOnConnect = true
    Notifications,  \* those made with bNotification = true
    TimedCalls,     \* those made with nTimeoutSeconds > 0
    Sockets,        \* WebSocket objects; a CLOSED one nobody refers to is used again
    AutoReconnect,  \* the values the constructor's bAutoReconnect may have
    HasOnConnected, \* whether fnWaitReadyOnConnected is given
    MayDispose,     \* whether the user may call dispose()
    PromptClose,    \* whether the "close" of a replaced socket comes before a sleep ends
    NONE            \* null

ASSUME ConstantsOK ==
    /\ SkipCalls \subseteq Calls /\ Notifications \subseteq Calls
    /\ TimedCalls \subseteq Calls
    /\ AutoReconnect \subseteq BOOLEAN
    /\ {HasOnConnected, MayDispose, PromptClose} \subseteq BOOLEAN
    /\ NONE \notin Sockets /\ NONE \notin Calls

(* The three places of a call that await waitReady(): Client.rpc() itself, *)
(* makeRequest() on entry and makeRequest() before send().  A run of the   *)
(* promise executor inside waitReady() is named by the call and the place  *)
(* that started it.                                                        *)
Phases == {"rpc", "check", "send"}
Runs == Calls \X Phases

ASSUME NoneIsNoRun == NONE \notin Runs

VARIABLES
    bAutoReconnect,     \* this._bAutoReconnect
    disposed,           \* dispose() was called
    forgotten,          \* history: a run that failed has dropped the promise of
                        \* another one, which was pending
    webSocket,          \* this._webSocket
    waitReadyPromise,   \* this._waitReadyPromise, by the run that settles it
    readyState,         \* of every WebSocket
    runPc,              \* where each run of the executor stands
    runPromise,         \* state of each run's promise
    runSocket,          \* the socket a run created, which its timer will close
    hookCall,           \* the login call fnWaitReadyOnConnected awaits for a run
    stage,              \* where each call stands
    awaits,             \* the run whose promise the call awaits
    reqPromise,         \* _mapCallIDToWebSocketRequestsPromises: "pending" = an entry;
                        \* "result" and "error": resolved with such a response
    outcome,            \* the promise Client.rpc() returned
    sentOn,             \* the socket a call was sent on, until it closes
    wire,               \* the call's message in flight
    executed,           \* calls the server has executed
    loggedIn            \* sockets on which the server has executed a login

connVars == <<bAutoReconnect, disposed, forgotten, webSocket, waitReadyPromise,
              readyState>>
runVars  == <<runPc, runPromise, runSocket, hookCall>>
callVars == <<stage, awaits, reqPromise, outcome>>
wireVars == <<sentOn, wire, executed, loggedIn>>
vars == <<connVars, runVars, callVars, wireVars>>

Stages == {"idle"} \union Phases \union {"answer", "settled"}

TypeOK ==
    /\ bAutoReconnect \in BOOLEAN
    /\ disposed \in BOOLEAN
    /\ forgotten \in BOOLEAN
    /\ webSocket \in Sockets \union {NONE}
    /\ waitReadyPromise \in Runs \union {NONE}
    /\ readyState \in [Sockets -> {"CONNECTING", "OPEN", "CLOSING", "CLOSED"}]
    /\ runPc \in [Runs -> {"idle", "backoff", "connecting", "hook", "failing", "done"}]
    /\ runPromise \in [Runs -> {"pending", "resolved", "rejected"}]
    /\ runSocket \in [Runs -> Sockets \union {NONE}]
    /\ hookCall \in [Runs -> Calls \union {NONE}]
    /\ stage \in [Calls -> Stages]
    /\ awaits \in [Calls -> Runs \union {NONE}]
    /\ reqPromise \in [Calls -> {"none", "pending", "result", "error", "rejected"}]
    /\ outcome \in [Calls -> {"idle", "pending", "resolved", "rejected"}]
    /\ sentOn \in [Calls -> Sockets \union {NONE}]
    /\ wire \in [Calls -> {"none", "request", "result", "error"}]
    /\ executed \subseteq Calls
    /\ loggedIn \subseteq Sockets

(* With bAutoReconnect the transport starts without a socket; without it   *)
(* the user passes one, connected or still connecting.                     *)
Init ==
    /\ bAutoReconnect \in AutoReconnect
    /\ disposed = FALSE
    /\ forgotten = FALSE
    /\ webSocket \in IF bAutoReconnect THEN {NONE} ELSE Sockets
    /\ readyState \in {f \in [Sockets -> {"CONNECTING", "OPEN", "CLOSED"}] :
                         \A s \in Sockets : f[s] = "CLOSED" <=> s # webSocket}
    /\ waitReadyPromise = NONE
    /\ runPc = [r \in Runs |-> "idle"]
    /\ runPromise = [r \in Runs |-> "pending"]
    /\ runSocket = [r \in Runs |-> NONE]
    /\ hookCall = [r \in Runs |-> NONE]
    /\ stage = [c \in Calls |-> "idle"]
    /\ awaits = [c \in Calls |-> NONE]
    /\ reqPromise = [c \in Calls |-> "none"]
    /\ outcome = [c \in Calls |-> "idle"]
    /\ sentOn = [c \in Calls |-> NONE]
    /\ wire = [c \in Calls |-> "none"]
    /\ executed = {}
    /\ loggedIn = {}

-----------------------------------------------------------------------------
(* Sockets and promises *)

IsOpen(s) == s # NONE /\ readyState[s] = "OPEN"
IsDown(s) == s # NONE /\ readyState[s] \in {"CLOSING", "CLOSED"}

(* A WebSocket object no variable of the code refers to any more. *)
FreeSockets ==
    {s \in Sockets : /\ readyState[s] = "CLOSED"
                     /\ s # webSocket
                     /\ \A r \in Runs : runSocket[r] = s => runPc[r] = "done"}

(* rejectAllPromises(): every entry of the map is rejected and removed,    *)
(* whichever socket its request was sent on.                               *)
RejectAllPromises ==
    reqPromise' = [c \in Calls |-> IF reqPromise[c] = "pending"
                                     THEN "rejected" ELSE reqPromise[c]]

(* Mutant: the calls waiting on a lost socket are forgotten. *)
OnSocketLostForgetsCalls(s) ==
    /\ waitReadyPromise' = IF s = webSocket THEN NONE ELSE waitReadyPromise
    /\ UNCHANGED reqPromise

(* What the "error" and "close" handlers of socket s have in common. *)
OnSocketLost(s) ==
    /\ waitReadyPromise' = IF s = webSocket THEN NONE ELSE waitReadyPromise
    /\ RejectAllPromises

(* webSocket.close() by the code.  Closing a socket that is still          *)
(* connecting aborts the handshake and emits "error".                      *)
CloseSocket(s) ==
    /\ readyState' = [readyState EXCEPT ![s] = IF @ = "CLOSED" THEN @ ELSE "CLOSING"]
    /\ IF readyState[s] = "CONNECTING"
         THEN OnSocketLost(s)
         ELSE UNCHANGED <<waitReadyPromise, reqPromise>>

Replies == {"result", "error"}

Settled(r) == r # NONE => runPromise[r] # "pending"
Resolved(r) == r # NONE => runPromise[r] = "resolved"
Resolve(r) == runPromise' = [runPromise EXCEPT ![r] = IF @ = "pending" THEN "resolved" ELSE @]
Reject(r) == runPromise' = [runPromise EXCEPT ![r] = IF @ = "pending" THEN "rejected" ELSE @]

-----------------------------------------------------------------------------
(* waitReady() *)

Skips(r) == r[1] \in SkipCalls

(* Mutant: fnResolve() does not wait for fnWaitReadyOnConnected(). *)
PassConnectedUnawaited(r) ==
    /\ runPc' = [runPc EXCEPT ![r] = "done"]
    /\ Resolve(r)

(* The rest of the executor once this._webSocket is set: the hook, unless  *)
(* the caller skips it, and fnResolve().                                   *)
PassConnected(r) ==
    IF HasOnConnected /\ ~Skips(r)
      THEN /\ runPc' = [runPc EXCEPT ![r] = "hook"]
           /\ UNCHANGED runPromise
      ELSE /\ runPc' = [runPc EXCEPT ![r] = "done"]
           /\ Resolve(r)

(* new WebSocketClass(url), its handlers and the connect timeout. *)
Connect(r, s) ==
    /\ webSocket' = s
    /\ readyState' = [readyState EXCEPT ![s] = "CONNECTING"]
    /\ loggedIn' = loggedIn \ {s}
    /\ runSocket' = [runSocket EXCEPT ![r] = s]
    /\ runPc' = [runPc EXCEPT ![r] = "connecting"]
    /\ UNCHANGED runPromise

(* Mutant: a socket is created without looking at this._webSocket again. *)
ConnectOrPassUnchecked(r) == \E s \in FreeSockets : Connect(r, s)

(* From `if(!this._webSocket)` on: create a socket or pass with the one    *)
(* there is, whatever its state.                                           *)
ConnectOrPass(r) ==
    \/ /\ webSocket = NONE
       /\ \E s \in FreeSockets : Connect(r, s)
    \/ /\ webSocket # NONE
       /\ PassConnected(r)
       /\ UNCHANGED <<webSocket, readyState, loggedIn, runSocket>>

(* Mutant: no sleep before a dead socket is replaced. *)
StartRunAtOnce(r) ==
    \/ /\ IsDown(webSocket) \/ webSocket = NONE
       /\ \E s \in FreeSockets : Connect(r, s)
    \/ /\ ~IsDown(webSocket) /\ webSocket # NONE
       /\ ConnectOrPass(r)

(* The executor up to its first await. *)
StartRun(r) ==
    \/ /\ IsDown(webSocket)
       /\ webSocket' = NONE
       /\ runPc' = [runPc EXCEPT ![r] = "backoff"]
       /\ UNCHANGED <<readyState, loggedIn, runSocket, runPromise>>
    \/ /\ ~IsDown(webSocket)
       /\ ConnectOrPass(r)

(* waitReady() returns at once, returns the promise of a run in progress   *)
(* (or finished), or starts a run of its own.                              *)
JoinsRun(c) == waitReadyPromise # NONE /\ c \notin SkipCalls

WaitReady(c, phase) ==
    /\ stage' = [stage EXCEPT ![c] = phase]
    /\ \/ /\ ~bAutoReconnect
          /\ awaits' = [awaits EXCEPT ![c] = NONE]
          /\ UNCHANGED <<webSocket, waitReadyPromise, readyState, loggedIn,
                         runPc, runPromise, runSocket>>
       \/ /\ bAutoReconnect /\ JoinsRun(c)
          /\ awaits' = [awaits EXCEPT ![c] = waitReadyPromise]
          /\ UNCHANGED <<webSocket, waitReadyPromise, readyState, loggedIn,
                         runPc, runPromise, runSocket>>
       \/ /\ bAutoReconnect /\ ~JoinsRun(c)
          /\ awaits' = [awaits EXCEPT ![c] = <<c, phase>>]
          /\ waitReadyPromise' = IF c \in SkipCalls THEN waitReadyPromise
                                                    ELSE <<c, phase>>
          /\ StartRun(<<c, phase>>)

(* Bound: a socket can be created only while one of Sockets is free. *)
CanWaitReady(c) ==
    bAutoReconnect /\ ~JoinsRun(c) /\ webSocket = NONE => FreeSockets # {}

(* Client.rpc() up to the await of the plugins' waitReady(). *)
BeginCall(c) ==
    /\ stage[c] = "idle"
    /\ WaitReady(c, "rpc")
    /\ outcome' = [outcome EXCEPT ![c] = "pending"]

-----------------------------------------------------------------------------
(* Continuations: the rest of a function after the await of a settled      *)
(* promise.                                                                *)

CallResumable(c) ==
    \/ /\ stage[c] \in Phases /\ Settled(awaits[c])
       /\ stage[c] = "rpc" => CanWaitReady(c)
    \/ stage[c] = "answer" /\ reqPromise[c] # "pending"

IdleSkipCalls == {c \in SkipCalls : stage[c] = "idle"}

RunResumable(r) ==
    \/ runPc[r] = "connecting" /\ readyState[runSocket[r]] # "CONNECTING"
    \/ /\ runPc[r] = "hook" /\ hookCall[r] = NONE
       /\ \A c \in IdleSkipCalls : CanWaitReady(c)
    \/ /\ runPc[r] = "hook" /\ hookCall[r] # NONE
       /\ outcome[hookCall[r]] # "pending"

MicrotaskReady ==
    (\E c \in Calls : CallResumable(c)) \/ (\E r \in Runs : RunResumable(r))

(* The plugins are ready: rpc() takes the next call ID and calls           *)
(* makeRequest().                                                          *)
EnterMakeRequest(c) ==
    /\ stage[c] = "rpc" /\ Resolved(awaits[c])
    /\ WaitReady(c, "check")
    /\ UNCHANGED <<bAutoReconnect, disposed, forgotten, hookCall, reqPromise, outcome,
                   sentOn, wire, executed>>

(* The socket is open: the call gets its entry in the map and awaits       *)
(* waitReady() a second time.                                              *)
RegisterRequest(c) ==
    /\ stage[c] = "check" /\ Resolved(awaits[c])
    /\ IsOpen(webSocket)
    /\ reqPromise' = [reqPromise EXCEPT ![c] = IF c \in Notifications THEN @ ELSE "pending"]
    /\ WaitReady(c, "send")
    /\ UNCHANGED <<bAutoReconnect, disposed, forgotten, hookCall, outcome, sentOn, wire,
                   executed>>

SendRequest(c) ==
    /\ stage[c] = "send" /\ Resolved(awaits[c])
    /\ IsOpen(webSocket)
    /\ sentOn' = [sentOn EXCEPT ![c] = webSocket]
    /\ wire' = [wire EXCEPT ![c] = "request"]
    /\ stage' = [stage EXCEPT ![c] = "answer"]
    /\ UNCHANGED <<connVars, runVars, awaits, reqPromise, outcome, executed, loggedIn>>

SettleCall(c, result) ==
    /\ stage' = [stage EXCEPT ![c] = "settled"]
    /\ outcome' = [outcome EXCEPT ![c] = IF @ = "pending" THEN result ELSE @]

(* waitReady() rejected, or the socket was found not open (or null) at the *)
(* check or by send(): rpc() throws.  An entry of the map stays.           *)
FailCall(c) ==
    /\ stage[c] \in Phases /\ Settled(awaits[c])
    /\ \/ ~Resolved(awaits[c])
       \/ stage[c] \in {"check", "send"} /\ ~IsOpen(webSocket)
    /\ SettleCall(c, "rejected")
    /\ UNCHANGED <<connVars, runVars, awaits, reqPromise, wireVars>>

(* Mutant: the promise of makeRequest() is not looked at. *)
FinishCallRegardless(c) ==
    /\ stage[c] = "answer" /\ reqPromise[c] # "pending"
    /\ SettleCall(c, "resolved")
    /\ UNCHANGED <<connVars, runVars, awaits, reqPromise, wireVars>>

(* Mutant: the response itself becomes the outcome. *)
FinishCallRaw(c) ==
    /\ stage[c] = "answer" /\ reqPromise[c] # "pending"
    /\ SettleCall(c, reqPromise[c])
    /\ UNCHANGED <<connVars, runVars, awaits, reqPromise, wireVars>>

(* makeRequest()'s promise settled, and with it the call: rejected with    *)
(* the promise or by an error response.  The response to a notification    *)
(* is made up as soon as it is sent.                                       *)
FinishCall(c) ==
    /\ stage[c] = "answer" /\ reqPromise[c] # "pending"
    /\ SettleCall(c, IF reqPromise[c] \in {"rejected", "error"} THEN "rejected" ELSE "resolved")
    /\ UNCHANGED <<connVars, runVars, awaits, reqPromise, wireVars>>

(* After the await of "open" *)
RunOpened(r) ==
    /\ runPc[r] = "connecting" /\ readyState[runSocket[r]] = "OPEN"
    /\ PassConnected(r)
    /\ UNCHANGED <<connVars, runSocket, hookCall, callVars, wireVars>>

(* After the await of "error", or a socket found down: the catch block     *)
(* starts its 5000 ms sleep.                                               *)
RunNotOpened(r) ==
    /\ runPc[r] = "connecting" /\ readyState[runSocket[r]] \in {"CLOSING", "CLOSED"}
    /\ runPc' = [runPc EXCEPT ![r] = "failing"]
    /\ UNCHANGED <<connVars, runPromise, runSocket, hookCall, callVars, wireVars>>

(* fnWaitReadyOnConnected() of the documentation's example makes a login   *)
(* call that skips the hook and awaits it.                                 *)
CallHook(r) ==
    /\ runPc[r] = "hook" /\ hookCall[r] = NONE
    /\ \E c \in IdleSkipCalls :
         /\ BeginCall(c)
         /\ hookCall' = [hookCall EXCEPT ![r] = c]
    /\ UNCHANGED <<bAutoReconnect, disposed, forgotten, reqPromise, sentOn, wire, executed>>

(* Bound: once every call of SkipCalls is used the hook returns at once,   *)
(* as if it had nothing left to do on this connection.                     *)
HookReturns(r) ==
    /\ runPc[r] = "hook" /\ hookCall[r] = NONE /\ IdleSkipCalls = {}
    /\ runPc' = [runPc EXCEPT ![r] = "done"]
    /\ Resolve(r)
    /\ loggedIn' = loggedIn \union ({webSocket} \ {NONE})
    /\ UNCHANGED <<connVars, runSocket, hookCall, callVars, sentOn, wire, executed>>

(* The hook is user code: it may throw before it calls anything. *)
HookThrows(r) ==
    /\ runPc[r] = "hook" /\ hookCall[r] = NONE
    /\ runPc' = [runPc EXCEPT ![r] = "failing"]
    /\ UNCHANGED <<connVars, runPromise, runSocket, hookCall, callVars, wireVars>>

HookResolved(r) ==
    /\ runPc[r] = "hook" /\ hookCall[r] # NONE
    /\ outcome[hookCall[r]] = "resolved"
    /\ runPc' = [runPc EXCEPT ![r] = "done"]
    /\ Resolve(r)
    /\ UNCHANGED <<connVars, runSocket, hookCall, callVars, wireVars>>

HookRejected(r) ==
    /\ runPc[r] = "hook" /\ hookCall[r] # NONE
    /\ outcome[hookCall[r]] = "rejected"
    /\ runPc' = [runPc EXCEPT ![r] = "failing"]
    /\ UNCHANGED <<connVars, runPromise, runSocket, hookCall, callVars, wireVars>>

Continuation ==
    \/ \E c \in Calls :
         \/ EnterMakeRequest(c)
         \/ RegisterRequest(c)
         \/ SendRequest(c)
         \/ FailCall(c)
         \/ FinishCall(c)
    \/ \E r \in Runs :
         \/ RunOpened(r)
         \/ RunNotOpened(r)
         \/ CallHook(r)
         \/ HookReturns(r)
         \/ HookThrows(r)
         \/ HookResolved(r)
         \/ HookRejected(r)

-----------------------------------------------------------------------------
(* Timers and the user *)

StartCall(c) ==
    /\ ~MicrotaskReady
    /\ c \notin SkipCalls
    /\ CanWaitReady(c)
    /\ BeginCall(c)
    /\ UNCHANGED <<bAutoReconnect, disposed, forgotten, hookCall, reqPromise, sentOn, wire,
                   executed>>

ReplacedAreClosed == \A s \in Sockets \ {webSocket} : readyState[s] = "CLOSED"

(* The 2000 ms sleep of a run that put down a dead socket is over. *)
BackoffDone(r) ==
    /\ ~MicrotaskReady
    /\ runPc[r] = "backoff"
    /\ PromptClose => ReplacedAreClosed
    /\ ConnectOrPass(r)
    /\ UNCHANGED <<bAutoReconnect, disposed, forgotten, waitReadyPromise, hookCall,
                   callVars, sentOn, wire, executed>>

(* this._waitReadyPromise is by now that of another run, still pending. *)
ForgetsAnother(r) ==
    waitReadyPromise \notin {r, NONE} /\ runPromise[waitReadyPromise] = "pending"

(* The 5000 ms sleep of the catch block is over: the promise is rejected   *)
(* and this._waitReadyPromise is forgotten, whichever run it is of.        *)
FailingDone(r) ==
    /\ ~MicrotaskReady
    /\ runPc[r] = "failing"
    /\ PromptClose => ReplacedAreClosed
    /\ runPc' = [runPc EXCEPT ![r] = "done"]
    /\ Reject(r)
    /\ waitReadyPromise' = NONE
    /\ forgotten' = (forgotten \/ ForgetsAnother(r))
    /\ UNCHANGED <<bAutoReconnect, disposed, webSocket, readyState, runSocket, hookCall,
                   callVars, wireVars>>

(* nWaitReadyTimeoutSeconds after a run created its socket, if the run is  *)
(* still not over.                                                         *)
ConnectTimeout(r) ==
    /\ ~MicrotaskReady
    /\ runSocket[r] # NONE /\ runPc[r] # "done"
    /\ runPromise[r] = "pending"
    /\ Reject(r)
    /\ CloseSocket(runSocket[r])
    /\ UNCHANGED <<bAutoReconnect, disposed, forgotten, webSocket, runPc, runSocket,
                   hookCall, stage, awaits, outcome, wireVars>>

(* Mutant: the timeout also drops the entry of the map. *)
CallTimeoutForgets(c) ==
    /\ ~MicrotaskReady
    /\ c \in TimedCalls /\ outcome[c] = "pending"
    /\ outcome' = [outcome EXCEPT ![c] = "rejected"]
    /\ reqPromise' = [reqPromise EXCEPT ![c] = IF @ = "pending" THEN "rejected" ELSE @]
    /\ UNCHANGED <<connVars, runVars, stage, awaits, wireVars>>

(* nTimeoutSeconds: the caller's promise is rejected; rpc() itself goes on *)
(* and the entry of the map stays.                                         *)
CallTimeout(c) ==
    /\ ~MicrotaskReady
    /\ c \in TimedCalls /\ outcome[c] = "pending"
    /\ outcome' = [outcome EXCEPT ![c] = "rejected"]
    /\ UNCHANGED <<connVars, runVars, stage, awaits, reqPromise, wireVars>>

Dispose ==
    /\ ~MicrotaskReady
    /\ MayDispose /\ ~disposed
    /\ disposed' = TRUE
    /\ bAutoReconnect' = FALSE
    /\ IF webSocket = NONE THEN UNCHANGED <<readyState, waitReadyPromise, reqPromise>>
                           ELSE CloseSocket(webSocket)
    /\ UNCHANGED <<forgotten, webSocket, runVars, stage, awaits, outcome, wireVars>>

-----------------------------------------------------------------------------
(* Events of a WebSocket *)

SocketOpened(s) ==
    /\ ~MicrotaskReady
    /\ readyState[s] = "CONNECTING"
    /\ readyState' = [readyState EXCEPT ![s] = "OPEN"]
    /\ UNCHANGED <<bAutoReconnect, disposed, forgotten, webSocket, waitReadyPromise,
                   runVars, callVars, wireVars>>

(* The connection cannot be made, or breaks with an "error" event. *)
SocketError(s) ==
    /\ ~MicrotaskReady
    /\ readyState[s] \in {"CONNECTING", "OPEN"}
    /\ readyState' = [readyState EXCEPT ![s] = "CLOSING"]
    /\ OnSocketLost(s)
    /\ UNCHANGED <<bAutoReconnect, disposed, forgotten, webSocket, runVars, stage, awaits,
                   outcome, wireVars>>

(* The peer or the network ends the connection, or the keep alive timeout  *)
(* of _setupKeepAlive() closes it: no event yet.                           *)
SocketClosing(s) ==
    /\ ~MicrotaskReady
    /\ readyState[s] = "OPEN"
    /\ readyState' = [readyState EXCEPT ![s] = "CLOSING"]
    /\ UNCHANGED <<bAutoReconnect, disposed, forgotten, webSocket, waitReadyPromise,
                   runVars, callVars, wireVars>>

(* The "close" event.  An answer that has not arrived never will; a        *)
(* request may still be on its way to the server.                          *)
SocketClosed(s) ==
    /\ ~MicrotaskReady
    /\ readyState[s] = "CLOSING"
    /\ readyState' = [readyState EXCEPT ![s] = "CLOSED"]
    /\ OnSocketLost(s)
    /\ sentOn' = [c \in Calls |-> IF sentOn[c] = s THEN NONE ELSE sentOn[c]]
    /\ wire' = [c \in Calls |-> IF sentOn[c] = s /\ wire[c] \in Replies
                                  THEN "none" ELSE wire[c]]
    /\ UNCHANGED <<bAutoReconnect, disposed, forgotten, webSocket, runVars, stage, awaits,
                   outcome, executed, loggedIn>>

(* The server executes a request, with a result or an error, and answers   *)
(* on the same connection, if that is still there.                         *)
Execute(c) ==
    /\ wire[c] = "request"
    /\ executed' = executed \union {c}
    /\ \E reply \in Replies :
         /\ wire' = [wire EXCEPT ![c] = IF c \in Notifications \/ sentOn[c] = NONE
                                          THEN "none" ELSE reply]
         /\ loggedIn' = IF c \in SkipCalls /\ sentOn[c] # NONE /\ reply = "result"
                          THEN loggedIn \union {sentOn[c]} ELSE loggedIn
    /\ UNCHANGED <<connVars, runVars, callVars, sentOn>>

(* processResponse(): an answer whose ID is in the map resolves its promise *)
(* and takes it out of the map.                                            *)
ReceiveAnswer(c) ==
    /\ ~MicrotaskReady
    /\ wire[c] \in Replies /\ reqPromise[c] = "pending"
    /\ wire' = [wire EXCEPT ![c] = "none"]
    /\ reqPromise' = [reqPromise EXCEPT ![c] = wire[c]]
    /\ UNCHANGED <<connVars, runVars, stage, awaits, outcome, sentOn, executed, loggedIn>>

(* processResponse(): an answer whose ID is not in the map.  The socket    *)
(* this._webSocket is closed, or, when that is null, the handler's own.    *)
ReceiveUnmatchedAnswer(c) ==
    /\ ~MicrotaskReady
    /\ wire[c] \in Replies /\ reqPromise[c] # "pending"
    /\ wire' = [wire EXCEPT ![c] = "none"]
    /\ LET s == IF webSocket = NONE THEN sentOn[c] ELSE webSocket
       IN  readyState' = [readyState EXCEPT ![s] = IF @ = "OPEN" THEN "CLOSING" ELSE @]
    /\ UNCHANGED <<bAutoReconnect, disposed, forgotten, webSocket, waitReadyPromise,
                   runVars, callVars, sentOn, executed, loggedIn>>

Event ==
    \/ \E c \in Calls :
         \/ StartCall(c)
         \/ CallTimeout(c)
         \/ Execute(c)
         \/ ReceiveAnswer(c)
         \/ ReceiveUnmatchedAnswer(c)
    \/ \E r \in Runs :
         \/ BackoffDone(r)
         \/ FailingDone(r)
         \/ ConnectTimeout(r)
    \/ \E s \in Sockets :
         \/ SocketOpened(s)
         \/ SocketError(s)
         \/ SocketClosing(s)
         \/ SocketClosed(s)
    \/ Dispose

Next == Continuation \/ Event

Spec == Init /\ [][Next]_vars

(* Continuations and timers run; a socket does not stay in a passing state *)
(* for ever (the connect timeout and the close timeout of the library see  *)
(* to that); the server executes and answers what reaches it.  Nothing     *)
(* makes the user call, or the network fail.                               *)
Fairness ==
    /\ WF_vars(Continuation)
    /\ \A r \in Runs : /\ WF_vars(BackoffDone(r))
                       /\ WF_vars(FailingDone(r))
                       /\ WF_vars(ConnectTimeout(r))
    /\ \A s \in Sockets : /\ WF_vars(SocketOpened(s) \/ SocketError(s))
                          /\ WF_vars(SocketClosed(s))
    /\ \A c \in Calls : /\ WF_vars(Execute(c) /\ sentOn[c] # NONE)
                        /\ WF_vars(ReceiveAnswer(c) \/ ReceiveUnmatchedAnswer(c))

FairSpec == Spec /\ Fairness

-----------------------------------------------------------------------------

(* At most one connection: a socket the transport has replaced is never    *)
(* connecting or open, however many runs of waitReady() overlap.           *)
OnlyCurrentLive ==
    \A s \in Sockets : readyState[s] \in {"CONNECTING", "OPEN"} => s = webSocket

(* No unclean state: an answer arriving on an open socket is to a call     *)
(* still in the map.  processResponse() closes this._webSocket otherwise.  *)
(* Needs PromptClose.  Once a failed run has dropped the promise of another *)
(* one, two runs may be in progress, and a call whose entry was rejected   *)
(* between its two checks may be sent by the second.                       *)
AnswersMatch ==
    ~forgotten =>
      \A c \in Calls : wire[c] \in Replies /\ IsOpen(sentOn[c]) => reqPromise[c] = "pending"

(* rejectAllPromises() rejects a call that was sent only when the socket   *)
(* it was sent on is lost, not on account of another one.  Needs           *)
(* PromptClose and, with a hook, that no failed run has dropped the promise *)
(* of another one: the login call of the second run may then put down the  *)
(* socket of the first and connect without any sleep.                      *)
RejectedWithItsSocket ==
    [][(HasOnConnected => ~forgotten) =>
       \A c \in Calls :
          reqPromise[c] = "pending" /\ reqPromise'[c] = "rejected" /\ sentOn[c] # NONE
            => readyState'[sentOn[c]] \in {"CLOSING", "CLOSED"}]_vars

(* With bAutoReconnect and without bSkipWaitReadyOnConnect a call is sent  *)
(* only on a connection on which the hook's login has been executed, also  *)
(* after any number of reconnections between rpc() and send().  Not so     *)
(* once a failed run has dropped the promise of another one.               *)
SentAfterLogin ==
    [][~forgotten =>
       \A c \in Calls \ SkipCalls :
          bAutoReconnect /\ stage[c] = "send" /\ stage'[c] = "answer"
            => webSocket \in loggedIn]_vars

(* No rpc() promise stays pending: not when its answer is lost with the    *)
(* socket, nor when waitReady() fails, overlaps or loses its promise.      *)
EveryCallSettles ==
    \A c \in Calls : outcome[c] = "pending" ~> outcome[c] \in {"resolved", "rejected"}

(* The transport implements what a caller of rpc() relies on: each promise *)
(* settles once, each request is executed at most once, and a call that    *)
(* awaits an answer resolves only if it was executed.                      *)
Abstract == INSTANCE RpcCalls WITH
    Calls <- Calls, Notifications <- Notifications, outcome <- outcome, executed <- executed
Refines == Abstract!Spec
=============================================================================
