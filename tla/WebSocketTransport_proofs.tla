--------------------- MODULE WebSocketTransport_proofs ---------------------
(***************************************************************************)
(* Proofs about WebSocketTransport, for any sets of calls and sockets:     *)
(* types, at most one connection, refinement of RpcCalls and, from an      *)
(* invariant of the runs of waitReady() that holds until a failed run      *)
(* drops the promise of another one: no call before the login, no entry of *)
(* the map rejected on account of another socket, no unmatched answer.     *)
(***************************************************************************)
EXTENDS WebSocketTransport, TLAPS

(* What a part of waitReady() changes keeps its type. *)
WaitVarsOK ==
    /\ webSocket \in Sockets \union {NONE}
    /\ waitReadyPromise \in Runs \union {NONE}
    /\ readyState \in [Sockets -> {"CONNECTING", "OPEN", "CLOSING", "CLOSED"}]
    /\ runPc \in [Runs -> {"idle", "backoff", "connecting", "hook", "failing", "done"}]
    /\ runPromise \in [Runs -> {"pending", "resolved", "rejected"}]
    /\ runSocket \in [Runs -> Sockets \union {NONE}]
    /\ stage \in [Calls -> Stages]
    /\ awaits \in [Calls -> Runs \union {NONE}]
    /\ loggedIn \subseteq Sockets

(* PassConnected() and ConnectOrPass() preserve the types of what they     *)
(* change.                                                                 *)
LEMMA ConnectOrPassType ==
    ASSUME TypeOK, NEW r \in Runs, ConnectOrPass(r)
    PROVE  /\ webSocket' \in Sockets \union {NONE}
           /\ readyState' \in [Sockets -> {"CONNECTING", "OPEN", "CLOSING", "CLOSED"}]
           /\ runPc' \in [Runs -> {"idle", "backoff", "connecting", "hook", "failing", "done"}]
           /\ runPromise' \in [Runs -> {"pending", "resolved", "rejected"}]
           /\ runSocket' \in [Runs -> Sockets \union {NONE}]
           /\ loggedIn' \subseteq Sockets
<1>1. CASE webSocket = NONE /\ \E s \in FreeSockets : Connect(r, s)
  BY <1>1 DEF TypeOK, Connect, FreeSockets
<1>2. CASE /\ webSocket # NONE /\ PassConnected(r)
           /\ UNCHANGED <<webSocket, readyState, loggedIn, runSocket>>
  BY <1>2 DEF TypeOK, PassConnected, Resolve
<1> QED BY <1>1, <1>2 DEF ConnectOrPass

(* WaitReady() preserves the types of all it changes. *)
LEMMA WaitReadyType ==
    ASSUME TypeOK, NEW c \in Calls, NEW phase \in Phases, WaitReady(c, phase)
    PROVE  WaitVarsOK'
<1> DEFINE r == <<c, phase>>
<1>1. r \in Runs
  BY DEF Runs
<1>2. stage' \in [Calls -> Stages]
  BY DEF TypeOK, WaitReady, Stages
<1>3. CASE UNCHANGED <<webSocket, waitReadyPromise, readyState, loggedIn,
                       runPc, runPromise, runSocket>>
  BY <1>2, <1>3, <1>1 DEF TypeOK, WaitReady, WaitVarsOK
<1>4. CASE /\ bAutoReconnect /\ ~JoinsRun(c)
           /\ awaits' = [awaits EXCEPT ![c] = r]
           /\ waitReadyPromise' = IF c \in SkipCalls THEN waitReadyPromise ELSE r
           /\ StartRun(r)
  <2>1. /\ awaits' \in [Calls -> Runs \union {NONE}]
        /\ waitReadyPromise' \in Runs \union {NONE}
    BY <1>1, <1>4 DEF TypeOK
  <2>2. CASE IsDown(webSocket) /\ webSocket' = NONE
             /\ runPc' = [runPc EXCEPT ![r] = "backoff"]
             /\ UNCHANGED <<readyState, loggedIn, runSocket, runPromise>>
    BY <1>1, <1>2, <2>1, <2>2 DEF TypeOK, WaitVarsOK
  <2>3. CASE ConnectOrPass(r)
    BY <1>1, <1>2, <2>1, <2>3, ConnectOrPassType DEF WaitVarsOK
  <2> QED BY <1>4, <2>2, <2>3 DEF StartRun
<1> QED BY <1>3, <1>4 DEF WaitReady

(* Losing a socket preserves the types of what it changes. *)
LEMMA OnSocketLostType ==
    ASSUME TypeOK, NEW s, OnSocketLost(s)
    PROVE  /\ waitReadyPromise' \in Runs \union {NONE}
           /\ reqPromise' \in [Calls -> {"none", "pending", "result", "error", "rejected"}]
BY DEF TypeOK, OnSocketLost, RejectAllPromises

(* close() preserves the types of what it changes, the "error" event of an  *)
(* aborted handshake included.                                             *)
LEMMA CloseSocketType ==
    ASSUME TypeOK, NEW s, CloseSocket(s)
    PROVE  /\ waitReadyPromise' \in Runs \union {NONE}
           /\ readyState' \in [Sockets -> {"CONNECTING", "OPEN", "CLOSING", "CLOSED"}]
           /\ reqPromise' \in [Calls -> {"none", "pending", "result", "error", "rejected"}]
BY OnSocketLostType DEF TypeOK, CloseSocket

(* Client.rpc() up to its first await preserves the types. *)
LEMMA BeginCallType ==
    ASSUME TypeOK, NEW c \in Calls, BeginCall(c),
           UNCHANGED <<bAutoReconnect, disposed, forgotten, reqPromise, sentOn, wire,
                       executed>>,
           hookCall' \in [Runs -> Calls \union {NONE}]
    PROVE  TypeOK'
<1>1. WaitVarsOK'
  BY WaitReadyType DEF BeginCall, Phases
<1>2. outcome' \in [Calls -> {"idle", "pending", "resolved", "rejected"}]
  BY DEF TypeOK, BeginCall
<1> QED BY <1>1, <1>2 DEF TypeOK, WaitVarsOK

(* Every continuation of a call or of a run of waitReady() preserves the   *)
(* types.                                                                  *)
LEMMA ContinuationType ==
    ASSUME TypeOK, Continuation
    PROVE  TypeOK'
<1>1. ASSUME NEW c \in Calls, EnterMakeRequest(c) PROVE TypeOK'
  BY <1>1, WaitReadyType DEF EnterMakeRequest, TypeOK, WaitVarsOK, Phases
<1>2. ASSUME NEW c \in Calls, RegisterRequest(c) PROVE TypeOK'
  <2>1. WaitVarsOK'
    BY <1>2, WaitReadyType DEF RegisterRequest, Phases
  <2> QED BY <1>2, <2>1 DEF RegisterRequest, TypeOK, WaitVarsOK
<1>3. ASSUME NEW c \in Calls, SendRequest(c) PROVE TypeOK'
  BY <1>3 DEF SendRequest, IsOpen, TypeOK, connVars, runVars, Stages
<1>4. ASSUME NEW c \in Calls, FailCall(c) PROVE TypeOK'
  BY <1>4 DEF FailCall, SettleCall, TypeOK, connVars, runVars, wireVars, Stages
<1>5. ASSUME NEW c \in Calls, FinishCall(c) PROVE TypeOK'
  BY <1>5 DEF FinishCall, SettleCall, TypeOK, connVars, runVars, wireVars, Stages
<1>6. ASSUME NEW r \in Runs, RunOpened(r) PROVE TypeOK'
  BY <1>6 DEF RunOpened, PassConnected, Resolve, TypeOK, connVars, callVars, wireVars
<1>7. ASSUME NEW r \in Runs, RunNotOpened(r) PROVE TypeOK'
  BY <1>7 DEF RunNotOpened, TypeOK, connVars, callVars, wireVars
<1>8. ASSUME NEW r \in Runs, CallHook(r) PROVE TypeOK'
  <2>1. PICK c \in IdleSkipCalls : BeginCall(c) /\ hookCall' = [hookCall EXCEPT ![r] = c]
    BY <1>8 DEF CallHook
  <2>2. c \in Calls
    BY ConstantsOK DEF IdleSkipCalls
  <2> QED BY <1>8, <2>1, <2>2, BeginCallType DEF CallHook, TypeOK
<1>9. ASSUME NEW r \in Runs, HookReturns(r) PROVE TypeOK'
  BY <1>9 DEF HookReturns, Resolve, TypeOK, connVars, callVars
<1>10. ASSUME NEW r \in Runs, HookThrows(r) PROVE TypeOK'
  BY <1>10 DEF HookThrows, TypeOK, connVars, callVars, wireVars
<1>11. ASSUME NEW r \in Runs, HookResolved(r) PROVE TypeOK'
  BY <1>11 DEF HookResolved, Resolve, TypeOK, connVars, callVars, wireVars
<1>12. ASSUME NEW r \in Runs, HookRejected(r) PROVE TypeOK'
  BY <1>12 DEF HookRejected, TypeOK, connVars, callVars, wireVars
<1> QED BY <1>1, <1>2, <1>3, <1>4, <1>5, <1>6, <1>7, <1>8, <1>9, <1>10, <1>11, <1>12
        DEF Continuation

(* Every event, timer and step of the user preserves the types.            *)
LEMMA EventType ==
    ASSUME TypeOK, Event
    PROVE  TypeOK'
<1>1. ASSUME NEW c \in Calls, StartCall(c) PROVE TypeOK'
  BY <1>1, BeginCallType DEF StartCall, TypeOK
<1>2. ASSUME NEW c \in Calls, CallTimeout(c) PROVE TypeOK'
  BY <1>2 DEF CallTimeout, TypeOK, connVars, runVars, wireVars
<1>3. ASSUME NEW c \in Calls, Execute(c) PROVE TypeOK'
  BY <1>3 DEF Execute, Replies, TypeOK, connVars, runVars, callVars
<1>4. ASSUME NEW c \in Calls, ReceiveAnswer(c) PROVE TypeOK'
  BY <1>4 DEF ReceiveAnswer, Replies, TypeOK, connVars, runVars
<1>5. ASSUME NEW c \in Calls, ReceiveUnmatchedAnswer(c) PROVE TypeOK'
  BY <1>5 DEF ReceiveUnmatchedAnswer, TypeOK, runVars, callVars
<1>6. ASSUME NEW r \in Runs, BackoffDone(r) PROVE TypeOK'
  BY <1>6, ConnectOrPassType DEF BackoffDone, TypeOK, callVars
<1>7. ASSUME NEW r \in Runs, FailingDone(r) PROVE TypeOK'
  BY <1>7 DEF FailingDone, Reject, TypeOK, callVars, wireVars
<1>8. ASSUME NEW r \in Runs, ConnectTimeout(r) PROVE TypeOK'
  BY <1>8, CloseSocketType DEF ConnectTimeout, Reject, TypeOK, wireVars
<1>9. ASSUME NEW s \in Sockets, SocketOpened(s) PROVE TypeOK'
  BY <1>9 DEF SocketOpened, TypeOK, runVars, callVars, wireVars
<1>10. ASSUME NEW s \in Sockets, SocketError(s) PROVE TypeOK'
  BY <1>10, OnSocketLostType DEF SocketError, TypeOK, runVars, wireVars
<1>11. ASSUME NEW s \in Sockets, SocketClosing(s) PROVE TypeOK'
  BY <1>11 DEF SocketClosing, TypeOK, runVars, callVars, wireVars
<1>12. ASSUME NEW s \in Sockets, SocketClosed(s) PROVE TypeOK'
  BY <1>12, OnSocketLostType DEF SocketClosed, TypeOK, runVars
<1>13. ASSUME Dispose PROVE TypeOK'
  BY <1>13, CloseSocketType DEF Dispose, TypeOK, runVars, wireVars
<1> QED BY <1>1, <1>2, <1>3, <1>4, <1>5, <1>6, <1>7, <1>8, <1>9, <1>10, <1>11, <1>12, <1>13
        DEF Event

(* Every variable of the transport keeps its type. *)
THEOREM TypeCorrect == Spec => []TypeOK
<1>1. Init => TypeOK
  <2> SUFFICES ASSUME Init PROVE TypeOK
    OBVIOUS
  <2>1. bAutoReconnect \in BOOLEAN
    BY ConstantsOK DEF Init
  <2>2. readyState \in [Sockets -> {"CONNECTING", "OPEN", "CLOSING", "CLOSED"}]
    BY DEF Init
  <2>3. webSocket \in Sockets \union {NONE}
    BY DEF Init
  <2> QED BY <2>1, <2>2, <2>3 DEF Init, TypeOK, Stages
<1>2. TypeOK /\ [Next]_vars => TypeOK'
  <2>1. CASE UNCHANGED vars
    BY <2>1 DEF vars, connVars, runVars, callVars, wireVars, TypeOK
  <2> QED BY <2>1, ContinuationType, EventType DEF Next
<1> QED BY <1>1, <1>2, PTL DEF Spec

-----------------------------------------------------------------------------
(* Only this._webSocket is ever connecting or open.  The code replaces the *)
(* field only by null, when the socket in it is down, and by a new socket, *)
(* when it is null at that moment: the two tests are what every step below *)
(* comes down to.                                                          *)

(* `if(!this._webSocket)`, tested in the same turn as the creation: a new  *)
(* socket finds no live one.                                               *)
LEMMA ConnectOrPassLive ==
    ASSUME TypeOK, OnlyCurrentLive, NEW r \in Runs, ConnectOrPass(r)
    PROVE  OnlyCurrentLive'
<1>1. CASE webSocket = NONE /\ \E s \in FreeSockets : Connect(r, s)
  <2>1. \A s \in Sockets : readyState[s] \notin {"CONNECTING", "OPEN"}
    BY <1>1, ConstantsOK DEF OnlyCurrentLive
  <2> QED BY <1>1, <2>1 DEF Connect, TypeOK, OnlyCurrentLive, FreeSockets
<1>2. CASE webSocket # NONE /\ UNCHANGED <<webSocket, readyState>>
  BY <1>2 DEF OnlyCurrentLive
<1> QED BY <1>1, <1>2 DEF ConnectOrPass

(* waitReady(), up to its first await, gives up this._webSocket only when  *)
(* that is down.                                                           *)
LEMMA WaitReadyLive ==
    ASSUME TypeOK, OnlyCurrentLive,
           NEW c \in Calls, NEW phase \in Phases, WaitReady(c, phase)
    PROVE  OnlyCurrentLive'
<1>1. <<c, phase>> \in Runs
  BY DEF Runs
<1>2. CASE UNCHANGED <<webSocket, readyState>>
  BY <1>2 DEF OnlyCurrentLive
<1>3. CASE StartRun(<<c, phase>>)
  <2>1. CASE IsDown(webSocket) /\ webSocket' = NONE /\ UNCHANGED readyState
    BY <2>1 DEF IsDown, OnlyCurrentLive
  <2>2. CASE ConnectOrPass(<<c, phase>>)
    BY <1>1, <2>2, ConnectOrPassLive
  <2> QED BY <1>3, <2>1, <2>2 DEF StartRun
<1> QED BY <1>2, <1>3 DEF WaitReady

(* A step that keeps this._webSocket and puts no other socket into a live  *)
(* state.                                                                  *)
LEMMA KeepsLive ==
    ASSUME TypeOK, OnlyCurrentLive, UNCHANGED webSocket,
           \A s \in Sockets : readyState'[s] \in {"CONNECTING", "OPEN"}
                                => readyState[s] \in {"CONNECTING", "OPEN"}
    PROVE  OnlyCurrentLive'
BY DEF OnlyCurrentLive

(* close() puts no socket into a live state.                               *)
LEMMA CloseSocketLive ==
    ASSUME TypeOK, OnlyCurrentLive, UNCHANGED webSocket, NEW s, CloseSocket(s)
    PROVE  OnlyCurrentLive'
BY KeepsLive DEF CloseSocket, TypeOK

(* However many runs of waitReady() overlap, time out or fail, the         *)
(* transport never has two connections: a socket that is connecting or     *)
(* open is this._webSocket.                                                *)
THEOREM AtMostOneConnection == Spec => []OnlyCurrentLive
<1>1. Init => OnlyCurrentLive
  BY DEF Init, OnlyCurrentLive
<1>2. TypeOK /\ OnlyCurrentLive /\ [Next]_vars => OnlyCurrentLive'
  <2> SUFFICES ASSUME TypeOK, OnlyCurrentLive, [Next]_vars
               PROVE  OnlyCurrentLive'
    OBVIOUS
  <2>1. CASE UNCHANGED <<webSocket, readyState>>
    BY <2>1 DEF OnlyCurrentLive
  <2>2. ASSUME NEW c \in Calls, EnterMakeRequest(c) \/ RegisterRequest(c)
        PROVE  OnlyCurrentLive'
    BY <2>2, WaitReadyLive DEF EnterMakeRequest, RegisterRequest, Phases
  <2>3. ASSUME NEW c \in Calls, SendRequest(c) \/ FailCall(c) \/ FinishCall(c)
        PROVE  OnlyCurrentLive'
    BY <2>1, <2>3 DEF SendRequest, FailCall, FinishCall, connVars
  <2>4. ASSUME NEW r \in Runs, CallHook(r) PROVE OnlyCurrentLive'
    BY <2>4, WaitReadyLive, ConstantsOK DEF CallHook, BeginCall, IdleSkipCalls, Phases
  <2>5. ASSUME NEW r \in Runs, \/ RunOpened(r) \/ RunNotOpened(r) \/ HookReturns(r)
                               \/ HookThrows(r) \/ HookResolved(r) \/ HookRejected(r)
        PROVE  OnlyCurrentLive'
    BY <2>1, <2>5 DEF RunOpened, RunNotOpened, HookReturns, HookThrows, HookResolved,
                      HookRejected, connVars
  <2>6. ASSUME NEW c \in Calls, StartCall(c) PROVE OnlyCurrentLive'
    BY <2>6, WaitReadyLive DEF StartCall, BeginCall, Phases
  <2>7. ASSUME NEW c \in Calls, CallTimeout(c) \/ Execute(c) \/ ReceiveAnswer(c)
        PROVE  OnlyCurrentLive'
    BY <2>1, <2>7 DEF CallTimeout, Execute, ReceiveAnswer, connVars
  <2>8. ASSUME NEW c \in Calls, ReceiveUnmatchedAnswer(c) PROVE OnlyCurrentLive'
    BY <2>8, KeepsLive DEF ReceiveUnmatchedAnswer, TypeOK
  <2>9. ASSUME NEW r \in Runs, BackoffDone(r) PROVE OnlyCurrentLive'
    BY <2>9, ConnectOrPassLive DEF BackoffDone
  <2>10. ASSUME NEW r \in Runs, FailingDone(r) PROVE OnlyCurrentLive'
    BY <2>1, <2>10 DEF FailingDone
  <2>11. ASSUME NEW r \in Runs, ConnectTimeout(r) PROVE OnlyCurrentLive'
    BY <2>11, CloseSocketLive DEF ConnectTimeout
  <2>12. ASSUME NEW s \in Sockets, SocketOpened(s) \/ SocketError(s) \/ SocketClosing(s)
                                   \/ SocketClosed(s)
         PROVE  OnlyCurrentLive'
    BY <2>12, KeepsLive DEF SocketOpened, SocketError, SocketClosing, SocketClosed, TypeOK
  <2>13. CASE Dispose
    <3>1. CASE webSocket = NONE
      BY <2>1, <2>13, <3>1 DEF Dispose
    <3>2. CASE webSocket # NONE
      BY <2>13, <3>2, CloseSocketLive DEF Dispose
    <3> QED BY <3>1, <3>2
  <2>14. CASE UNCHANGED vars
    BY <2>1, <2>14 DEF vars, connVars
  <2> QED BY <2>2, <2>3, <2>4, <2>5, <2>6, <2>7, <2>8, <2>9, <2>10, <2>11, <2>12, <2>13,
             <2>14 DEF Next, Continuation, Event
<1> QED BY <1>1, <1>2, TypeCorrect, PTL DEF Spec

-----------------------------------------------------------------------------
(* Refinement of RpcCalls.  The mapping is the identity on outcome and     *)
(* executed; what has to be carried along is where a call's request and    *)
(* answer can be while its promise is in a given state.                    *)

(* The promise of rpc() exists once the call has begun. *)
BegunHasPromise == \A c \in Calls : stage[c] = "idle" <=> outcome[c] = "idle"

(* Nothing of a call is in flight or executed before send(), and a request *)
(* still in flight has not been executed.                                  *)
NotExecutedYet ==
    \A c \in Calls :
      /\ stage[c] \in {"idle"} \union Phases => wire[c] = "none" /\ c \notin executed
      /\ wire[c] = "request" => c \notin executed

(* An answer, in flight or received, is to a call that was executed. *)
AnswersAreEarned ==
    \A c \in Calls : reqPromise[c] = "result" \/ wire[c] \in Replies => c \in executed

(* A call that waits for an answer got an entry in the map. *)
AwaitedHasEntry ==
    \A c \in Calls \ Notifications :
      stage[c] \in {"send", "answer"} => reqPromise[c] # "none"

CallInv == BegunHasPromise /\ NotExecutedYet /\ AnswersAreEarned /\ AwaitedHasEntry

(* Losing or closing a socket rejects entries of the map, and makes none.  *)
LEMMA LossKeepsCallInv ==
    ASSUME TypeOK, CallInv, UNCHANGED <<stage, outcome, executed>>,
           \A c \in Calls : wire'[c] = wire[c] \/ wire'[c] = "none",
           \A c \in Calls : \/ reqPromise'[c] = reqPromise[c]
                            \/ reqPromise[c] = "pending" /\ reqPromise'[c] = "rejected"
    PROVE  CallInv'
BY DEF CallInv, BegunHasPromise, NotExecutedYet, AnswersAreEarned, AwaitedHasEntry, Phases,
       Replies

(* Beginning a call is Issue of the abstract specification. *)
LEMMA BeginCallRefines ==
    ASSUME TypeOK, CallInv, NEW c \in Calls, BeginCall(c),
           UNCHANGED <<reqPromise, wire, executed>>
    PROVE  CallInv' /\ Abstract!Issue(c)
<1>1. stage' = [stage EXCEPT ![c] = "rpc"]
  BY DEF BeginCall, WaitReady
<1>2. CallInv'
  BY <1>1 DEF BeginCall, CallInv, BegunHasPromise, NotExecutedYet, AnswersAreEarned,
              AwaitedHasEntry, Phases, TypeOK
<1>3. Abstract!Issue(c)
  BY DEF BeginCall, Abstract!Issue, CallInv, BegunHasPromise
<1> QED BY <1>2, <1>3

(* The end of rpc(): the promise is settled, unless the timeout did it.    *)
LEMMA SettleCallRefines ==
    ASSUME TypeOK, CallInv, NEW c \in Calls, stage[c] # "idle",
           NEW result \in {"resolved", "rejected"}, SettleCall(c, result),
           result = "resolved" => c \in executed \union Notifications,
           UNCHANGED <<reqPromise, wire, executed>>
    PROVE  CallInv' /\ [Abstract!Next]_<<outcome, executed>>
<1>1. CallInv'
  BY DEF SettleCall, CallInv, BegunHasPromise, NotExecutedYet, AnswersAreEarned,
         AwaitedHasEntry, Phases, TypeOK
<1>2. CASE outcome[c] = "pending"
  <2>1. CASE result = "resolved"
    BY <1>1, <1>2, <2>1 DEF SettleCall, Abstract!Next, Abstract!Resolve
  <2>2. CASE result = "rejected"
    <3>1. Abstract!Reject({c})
      BY <1>2, <2>2 DEF SettleCall, Abstract!Reject, TypeOK
    <3> QED BY <1>1, <3>1 DEF Abstract!Next
  <2> QED BY <2>1, <2>2
<1>3. CASE outcome[c] # "pending"
  <2>1. UNCHANGED outcome
    BY <1>3 DEF SettleCall, TypeOK
  <2> QED BY <1>1, <2>1
<1> QED BY <1>1, <1>2, <1>3

(* The steps that change none of what CallInv speaks of.                   *)
LEMMA StutterRefines ==
    ASSUME CallInv, UNCHANGED <<stage, reqPromise, outcome, wire, executed>>
    PROVE  CallInv' /\ [Abstract!Next]_<<outcome, executed>>
BY DEF CallInv, BegunHasPromise, NotExecutedYet, AnswersAreEarned, AwaitedHasEntry

(* The continuations of a call and of a run of waitReady(). *)
LEMMA ContinuationRefines ==
    ASSUME TypeOK, CallInv, Continuation
    PROVE  CallInv' /\ [Abstract!Next]_<<outcome, executed>>
<1>1. ASSUME NEW c \in Calls, EnterMakeRequest(c)
      PROVE  CallInv' /\ [Abstract!Next]_<<outcome, executed>>
  <2>1. stage' = [stage EXCEPT ![c] = "check"]
    BY <1>1 DEF EnterMakeRequest, WaitReady
  <2> QED BY <1>1, <2>1 DEF EnterMakeRequest, CallInv, BegunHasPromise, NotExecutedYet,
             AnswersAreEarned, AwaitedHasEntry, Phases, TypeOK
<1>2. ASSUME NEW c \in Calls, RegisterRequest(c)
      PROVE  CallInv' /\ [Abstract!Next]_<<outcome, executed>>
  <2>1. stage' = [stage EXCEPT ![c] = "send"]
    BY <1>2 DEF RegisterRequest, WaitReady
  <2> QED BY <1>2, <2>1 DEF RegisterRequest, CallInv, BegunHasPromise, NotExecutedYet,
             AnswersAreEarned, AwaitedHasEntry, Phases, TypeOK
<1>3. ASSUME NEW c \in Calls, SendRequest(c)
      PROVE  CallInv' /\ [Abstract!Next]_<<outcome, executed>>
  BY <1>3 DEF SendRequest, CallInv, BegunHasPromise, NotExecutedYet, AnswersAreEarned,
              AwaitedHasEntry, Phases, Replies, TypeOK
<1>4. ASSUME NEW c \in Calls, FailCall(c)
      PROVE  CallInv' /\ [Abstract!Next]_<<outcome, executed>>
  BY <1>4, SettleCallRefines DEF FailCall, Phases, wireVars
<1>5. ASSUME NEW c \in Calls, FinishCall(c)
      PROVE  CallInv' /\ [Abstract!Next]_<<outcome, executed>>
  <2> DEFINE result == IF reqPromise[c] \in {"rejected", "error"} THEN "rejected"
                                                                 ELSE "resolved"
  <2>1. stage[c] = "answer" /\ SettleCall(c, result) /\ UNCHANGED <<reqPromise, wire, executed>>
    BY <1>5 DEF FinishCall, wireVars
  <2>2. result = "resolved" => c \in executed \union Notifications
    <3>1. reqPromise[c] \in {"none", "pending", "result", "error", "rejected"}
      BY DEF TypeOK
    <3> QED BY <1>5, <3>1, <2>1 DEF FinishCall, CallInv, AnswersAreEarned, AwaitedHasEntry
  <2>3. result \in {"resolved", "rejected"} /\ stage[c] # "idle"
    BY <2>1
  <2> HIDE DEF result
  <2> QED BY <2>1, <2>2, <2>3, SettleCallRefines
<1>6. ASSUME NEW r \in Runs, CallHook(r)
      PROVE  CallInv' /\ [Abstract!Next]_<<outcome, executed>>
  <2>1. PICK c \in IdleSkipCalls : BeginCall(c)
    BY <1>6 DEF CallHook
  <2>2. c \in Calls
    BY ConstantsOK DEF IdleSkipCalls
  <2>3. CallInv' /\ Abstract!Issue(c)
    BY <1>6, <2>1, <2>2, BeginCallRefines DEF CallHook
  <2> QED BY <2>2, <2>3 DEF Abstract!Next
<1>7. ASSUME NEW r \in Runs, \/ RunOpened(r) \/ RunNotOpened(r) \/ HookReturns(r)
                             \/ HookThrows(r) \/ HookResolved(r) \/ HookRejected(r)
      PROVE  CallInv' /\ [Abstract!Next]_<<outcome, executed>>
  BY <1>7, StutterRefines DEF RunOpened, RunNotOpened, HookReturns, HookThrows,
     HookResolved, HookRejected, callVars, wireVars
<1> QED BY <1>1, <1>2, <1>3, <1>4, <1>5, <1>6, <1>7 DEF Continuation

(* The user, the timers, the server and the sockets. *)
LEMMA EventRefines ==
    ASSUME TypeOK, CallInv, Event
    PROVE  CallInv' /\ [Abstract!Next]_<<outcome, executed>>
<1>1. ASSUME NEW c \in Calls, StartCall(c)
      PROVE  CallInv' /\ [Abstract!Next]_<<outcome, executed>>
  BY <1>1, BeginCallRefines DEF StartCall, Abstract!Next
<1>2. ASSUME NEW c \in Calls, CallTimeout(c)
      PROVE  CallInv' /\ [Abstract!Next]_<<outcome, executed>>
  <2>1. CallInv'
    BY <1>2 DEF CallTimeout, CallInv, BegunHasPromise, NotExecutedYet, AnswersAreEarned,
                AwaitedHasEntry, TypeOK, wireVars
  <2>2. Abstract!Reject({c})
    BY <1>2 DEF CallTimeout, Abstract!Reject, wireVars, TypeOK
  <2> QED BY <2>1, <2>2 DEF Abstract!Next
<1>3. ASSUME NEW c \in Calls, Execute(c)
      PROVE  CallInv' /\ [Abstract!Next]_<<outcome, executed>>
  <2>1. stage[c] \notin {"idle"} \union Phases /\ c \notin executed
    BY <1>3 DEF Execute, CallInv, NotExecutedYet
  <2>2. CallInv'
    BY <1>3, <2>1 DEF Execute, CallInv, BegunHasPromise, NotExecutedYet, AnswersAreEarned,
                AwaitedHasEntry, Phases, Replies, TypeOK, callVars
  <2>3. Abstract!Execute(c)
    BY <1>3, <2>1 DEF Execute, Abstract!Execute, CallInv, BegunHasPromise, callVars
  <2> QED BY <2>2, <2>3 DEF Abstract!Next
<1>4. ASSUME NEW c \in Calls, ReceiveAnswer(c)
      PROVE  CallInv' /\ [Abstract!Next]_<<outcome, executed>>
  BY <1>4 DEF ReceiveAnswer, CallInv, BegunHasPromise, NotExecutedYet, AnswersAreEarned,
              AwaitedHasEntry, Replies, TypeOK
<1>5. ASSUME NEW c \in Calls, ReceiveUnmatchedAnswer(c)
      PROVE  CallInv' /\ [Abstract!Next]_<<outcome, executed>>
  BY <1>5, LossKeepsCallInv DEF ReceiveUnmatchedAnswer, TypeOK, callVars
<1>6. ASSUME NEW r \in Runs, BackoffDone(r) \/ FailingDone(r)
      PROVE  CallInv' /\ [Abstract!Next]_<<outcome, executed>>
  BY <1>6, StutterRefines DEF BackoffDone, FailingDone, callVars, wireVars
<1>7. ASSUME NEW s \in Sockets, SocketOpened(s) \/ SocketClosing(s)
      PROVE  CallInv' /\ [Abstract!Next]_<<outcome, executed>>
  BY <1>7, StutterRefines DEF SocketOpened, SocketClosing, callVars, wireVars
<1>8. ASSUME NEW s, CloseSocket(s), UNCHANGED <<stage, outcome, wire, executed>>
      PROVE  CallInv' /\ [Abstract!Next]_<<outcome, executed>>
  BY <1>8, LossKeepsCallInv DEF CloseSocket, OnSocketLost, RejectAllPromises, TypeOK
<1>9. ASSUME NEW r \in Runs, ConnectTimeout(r)
      PROVE  CallInv' /\ [Abstract!Next]_<<outcome, executed>>
  BY <1>9, <1>8 DEF ConnectTimeout, wireVars
<1>10. ASSUME NEW s \in Sockets, SocketError(s) \/ SocketClosed(s)
       PROVE  CallInv' /\ [Abstract!Next]_<<outcome, executed>>
  <2>1. OnSocketLost(s) /\ UNCHANGED <<stage, outcome, executed>>
    BY <1>10 DEF SocketError, SocketClosed, wireVars
  <2>2. \A c \in Calls : wire'[c] = wire[c] \/ wire'[c] = "none"
    BY <1>10 DEF SocketError, SocketClosed, wireVars, TypeOK
  <2> QED BY <2>1, <2>2, LossKeepsCallInv DEF OnSocketLost, RejectAllPromises, TypeOK
<1>11. CASE Dispose
  <2>1. CASE webSocket = NONE
    BY <1>11, <2>1, StutterRefines DEF Dispose, wireVars
  <2>2. CASE webSocket # NONE
    BY <1>8, <1>11, <2>2 DEF Dispose, wireVars
  <2> QED BY <2>1, <2>2
<1> QED BY <1>1, <1>2, <1>3, <1>4, <1>5, <1>6, <1>7, <1>9, <1>10, <1>11 DEF Event

(* WebSocketTransport implements RpcCalls: whatever the sockets do, each   *)
(* promise of Client.rpc() settles at most once, no request is executed    *)
(* twice after a reconnection, and a call that expects an answer resolves  *)
(* only when the server has executed it.                                   *)
THEOREM TransportRefinesRpcCalls == Spec => Refines
<1>1. Init => CallInv /\ Abstract!Init
  BY DEF Init, Abstract!Init, CallInv, BegunHasPromise, NotExecutedYet, AnswersAreEarned,
         AwaitedHasEntry, Phases, Replies
<1>2. TypeOK /\ CallInv /\ [Next]_vars => CallInv' /\ [Abstract!Next]_<<outcome, executed>>
  <2> SUFFICES ASSUME TypeOK, CallInv, [Next]_vars
               PROVE  CallInv' /\ [Abstract!Next]_<<outcome, executed>>
    OBVIOUS
  <2>1. CASE UNCHANGED vars
    BY <2>1, StutterRefines DEF vars, callVars, wireVars
  <2> QED BY <2>1, ContinuationRefines, EventRefines DEF Next
<1> QED BY <1>1, <1>2, TypeCorrect, PTL DEF Spec, Refines, Abstract!Spec, Abstract!vars

-----------------------------------------------------------------------------
(* The runs of waitReady(), as long as no failed run has dropped the       *)
(* promise of another one: then the run that owns this._waitReadyPromise   *)
(* is the only one that may still connect or wait for the hook with        *)
(* success.  Every other run is failing, or will.                          *)

(* The stages a call is in before it reaches this await of waitReady(). *)
Earlier(phase) ==
    {"idle"} \union (IF phase # "rpc" THEN {"rpc"} ELSE {})
             \union (IF phase = "send" THEN {"check"} ELSE {})

(* A run has not touched anything before it starts, and a call starts the  *)
(* run of each await when it comes to it. *)
RunsStartFresh ==
    \A r \in Runs :
      /\ stage[r[1]] \in Earlier(r[2]) => runPc[r] = "idle"
      /\ runPc[r] = "idle" => runPromise[r] = "pending" /\ runSocket[r] = NONE
      /\ runPc[r] \in {"idle", "backoff", "connecting"} => hookCall[r] = NONE

(* A run that is over has settled its promise; this._waitReadyPromise is   *)
(* that of a run that was started, with the hook. *)
RunsEndSettled ==
    /\ \A r \in Runs : runPc[r] = "done" => runPromise[r] # "pending"
    /\ waitReadyPromise # NONE =>
         runPc[waitReadyPromise] # "idle" /\ ~Skips(waitReadyPromise)

(* The hook awaits a login call that has begun; a call that is over has    *)
(* settled its promise. *)
HookAwaitsBegun ==
    /\ \A r \in Runs : hookCall[r] # NONE =>
         hookCall[r] \in SkipCalls /\ stage[hookCall[r]] # "idle"
    /\ \A c \in Calls : stage[c] = "settled" => outcome[c] \notin {"idle", "pending"}

LifeOK == RunsStartFresh /\ RunsEndSettled /\ HookAwaitsBegun

(* The run that may still succeed. *)
InCharge(r) == waitReadyPromise = r /\ runPromise[r] = "pending"

(* Only a run in charge creates a socket that is not down. *)
ConnectingInCharge ==
    webSocket # NONE /\ readyState[webSocket] = "CONNECTING" =>
      \/ /\ waitReadyPromise # NONE /\ InCharge(waitReadyPromise)
         /\ runPc[waitReadyPromise] = "connecting"
         /\ runSocket[waitReadyPromise] = webSocket
      \/ ~bAutoReconnect /\ \A r \in Runs : runPc[r] = "idle"

(* A call of the hook finds the open socket, and so never sleeps. *)
SkipsPass ==
    /\ \A r \in Runs : Skips(r) => runPc[r] \in {"idle", "done"}
    /\ \A c \in SkipCalls :
         stage[c] \in Phases => IsOpen(webSocket) /\ Resolved(awaits[c])

BackoffOK(r) ==
    runPc[r] = "backoff" => InCharge(r) /\ webSocket = NONE /\ runSocket[r] = NONE

ConnectingOK(r) ==
    runPc[r] = "connecting" =>
      /\ runSocket[r] # NONE
      /\ \/ IsDown(runSocket[r])
         \/ InCharge(r) /\ webSocket = runSocket[r]

(* The call cannot resolve any more. *)
Doomed(l) ==
    \/ outcome[l] = "rejected"
    \/ /\ stage[l] = "answer" /\ outcome[l] = "pending"
       /\ reqPromise[l] \in {"rejected", "error"}

HookOK(r) ==
    runPc[r] = "hook" =>
      \/ hookCall[r] = NONE /\ IsOpen(webSocket) /\ InCharge(r)
      \/ /\ hookCall[r] # NONE
         /\ \/ runPromise[r] = "rejected"
            \/ Doomed(hookCall[r])
            \/ InCharge(r) /\ webSocket # NONE

RunsOK == \A r \in Runs : BackoffOK(r) /\ ConnectingOK(r) /\ HookOK(r)

(* A call between its entry in the map and send() has that entry if it     *)
(* goes on at all. *)
HasEntry(c) == c \in Notifications \/ reqPromise[c] = "pending"

WillFail(r) ==
    \/ runPc[r] = "failing"
    \/ runPc[r] = "connecting" /\ IsDown(runSocket[r])
    \/ runPc[r] = "hook" /\ hookCall[r] # NONE /\ Doomed(hookCall[r])

EntryOrFails(c) ==
    \/ Resolved(awaits[c]) /\ HasEntry(c)
    \/ awaits[c] # NONE /\ runPromise[awaits[c]] = "rejected"
    \/ /\ awaits[c] # NONE /\ runPromise[awaits[c]] = "pending"
       /\ \/ WillFail(awaits[c])
          \/ runPc[awaits[c]] = "hook" /\ HasEntry(c)
          \/ /\ runPc[awaits[c]] = "connecting" /\ HasEntry(c)
             /\ readyState[runSocket[awaits[c]]] = "OPEN"

SendOK == \A c \in Calls : stage[c] = "send" => EntryOrFails(c)

RunInv == ConnectingInCharge /\ SkipsPass /\ RunsOK /\ SendOK

(* What waitReady() does up to its first await, by cases. *)
Starts(c, r) ==
    /\ bAutoReconnect /\ ~JoinsRun(c)
    /\ awaits' = [awaits EXCEPT ![c] = r]
    /\ waitReadyPromise' = IF c \in SkipCalls THEN waitReadyPromise ELSE r

Joins(c) ==
    /\ \/ ~bAutoReconnect /\ awaits' = [awaits EXCEPT ![c] = NONE]
       \/ bAutoReconnect /\ JoinsRun(c) /\ awaits' = [awaits EXCEPT ![c] = waitReadyPromise]
    /\ UNCHANGED <<webSocket, waitReadyPromise, readyState, loggedIn, runPc, runPromise,
                   runSocket>>

Sleeps(r) ==
    /\ IsDown(webSocket) /\ webSocket' = NONE
    /\ runPc' = [runPc EXCEPT ![r] = "backoff"]
    /\ UNCHANGED <<readyState, loggedIn, runSocket, runPromise>>

Connects(r) == webSocket = NONE /\ \E s \in FreeSockets : Connect(r, s)

Passes(r) ==
    /\ webSocket # NONE /\ ~IsDown(webSocket)
    /\ PassConnected(r)
    /\ UNCHANGED <<webSocket, readyState, loggedIn, runSocket>>

LEMMA WaitReadyCases ==
    ASSUME NEW c \in Calls, NEW phase \in Phases, WaitReady(c, phase)
    PROVE  /\ stage' = [stage EXCEPT ![c] = phase]
           /\ <<c, phase>> \in Runs
           /\ \/ Joins(c)
              \/ Starts(c, <<c, phase>>) /\ Sleeps(<<c, phase>>)
              \/ Starts(c, <<c, phase>>) /\ Connects(<<c, phase>>)
              \/ Starts(c, <<c, phase>>) /\ Passes(<<c, phase>>)
BY DEF WaitReady, StartRun, ConnectOrPass, Joins, Starts, Sleeps, Connects, Passes, Runs, IsDown

(* Only the new run is touched, and it does not stay idle. *)
LEMMA WaitReadyTouchesOne ==
    ASSUME TypeOK, NEW c \in Calls, NEW phase \in Phases, WaitReady(c, phase)
    PROVE  \/ UNCHANGED <<runPc, runPromise, runSocket, waitReadyPromise>>
           \/ /\ \A q \in Runs \ {<<c, phase>>} :
                   /\ runPc'[q] = runPc[q] /\ runPromise'[q] = runPromise[q]
                   /\ runSocket'[q] = runSocket[q]
              /\ runPc'[<<c, phase>>] \in {"backoff", "connecting", "hook", "done"}
              /\ \/ runPromise'[<<c, phase>>] = runPromise[<<c, phase>>]
                      /\ runPc'[<<c, phase>>] # "done"
                 \/ runPromise'[<<c, phase>>] # "pending"
              /\ \/ waitReadyPromise' = waitReadyPromise
                 \/ waitReadyPromise' = <<c, phase>> /\ c \notin SkipCalls
<1> DEFINE r == <<c, phase>>
<1>0. r \in Runs
  BY WaitReadyCases
<1>1. CASE Joins(c)
  BY <1>1 DEF Joins
<1>2. CASE Starts(c, r) /\ Sleeps(r)
  <2>1. runPc'[r] = "backoff" /\ \A q \in Runs \ {r} : runPc'[q] = runPc[q]
    BY <1>0, <1>2 DEF Sleeps, TypeOK
  <2> QED BY <1>2, <2>1 DEF Starts, Sleeps
<1>3. CASE Starts(c, r) /\ Connects(r)
  BY <1>0, <1>3 DEF Starts, Connects, Connect, TypeOK
<1>4. CASE Starts(c, r) /\ Passes(r)
  BY <1>0, <1>4 DEF Starts, Passes, PassConnected, Resolve, TypeOK
<1> QED BY <1>1, <1>2, <1>3, <1>4, WaitReadyCases

LEMMA WaitReadyLife ==
    ASSUME TypeOK, LifeOK, NEW c \in Calls, NEW phase \in Phases, WaitReady(c, phase),
           stage[c] \in Earlier(phase),
           \A q \in Runs : hookCall'[q] = hookCall[q] \/ runPc[q] = "hook"
    PROVE  RunsStartFresh' /\ RunsEndSettled'
<1> DEFINE r == <<c, phase>>
<1>1. r \in Runs /\ stage' = [stage EXCEPT ![c] = phase]
  BY WaitReadyCases
<1>2. runPc[r] = "idle" /\ hookCall[r] = NONE /\ hookCall'[r] = NONE
  BY <1>1 DEF LifeOK, RunsStartFresh, Runs
<1>3. ASSUME NEW q \in Runs, stage'[q[1]] \in Earlier(q[2]) PROVE runPc'[q] = "idle"
  <2>1. stage[q[1]] \in Earlier(q[2]) /\ q # r
    BY <1>1, <1>3 DEF Earlier, Phases, TypeOK, Runs
  <2> QED BY <2>1, WaitReadyTouchesOne DEF LifeOK, RunsStartFresh
<1>4. ASSUME NEW q \in Runs
      PROVE  /\ runPc'[q] = "idle" => runPromise'[q] = "pending" /\ runSocket'[q] = NONE
             /\ runPc'[q] \in {"idle", "backoff", "connecting"} => hookCall'[q] = NONE
             /\ runPc'[q] = "done" => runPromise'[q] # "pending"
  <2>1. CASE q = r
    BY <1>1, <1>2, <2>1, WaitReadyTouchesOne DEF LifeOK, RunsStartFresh, RunsEndSettled
  <2>2. CASE q # r
    BY <1>1, <1>2, <2>2, WaitReadyTouchesOne DEF LifeOK, RunsStartFresh, RunsEndSettled
  <2> QED BY <2>1, <2>2
<1>5. waitReadyPromise' # NONE => runPc'[waitReadyPromise'] # "idle" /\ ~Skips(waitReadyPromise')
  <2>1. CASE waitReadyPromise' = r /\ c \notin SkipCalls /\ runPc'[r] # "idle"
    BY <2>1 DEF Skips
  <2>2. CASE waitReadyPromise' = waitReadyPromise
    BY <1>1, <1>2, <2>2, WaitReadyTouchesOne DEF LifeOK, RunsEndSettled, TypeOK, Skips
  <2> QED BY <2>1, <2>2, WaitReadyTouchesOne
<1> QED BY <1>3, <1>4, <1>5 DEF RunsStartFresh, RunsEndSettled, Skips

(* Any other step: a run goes on or ends, and a call goes on from send()   *)
(* or ends. *)
RunsGoOn ==
    \A q \in Runs :
      /\ \/ runPc'[q] = runPc[q]
         \/ /\ runPc[q] # "idle"
            /\ \/ runPc'[q] \in {"hook", "failing"}
               \/ runPc'[q] = "done" /\ runPromise'[q] # "pending"
               \/ runPc'[q] = "connecting" /\ runPc[q] = "backoff"
      /\ runPromise'[q] = runPromise[q] \/ (runPc[q] # "idle" /\ runPromise'[q] # "pending")
      /\ runSocket'[q] = runSocket[q] \/ runPc[q] # "idle"

CallsGoOn ==
    \A c \in Calls :
      /\ \/ stage'[c] = stage[c]
         \/ stage[c] # "idle" /\ stage'[c] = "answer"
         \/ stage[c] # "idle" /\ stage'[c] = "settled" /\ outcome'[c] \notin {"idle", "pending"}
      /\ outcome'[c] = outcome[c] \/ outcome'[c] \notin {"idle", "pending"}

LEMMA LifeStep ==
    ASSUME TypeOK, LifeOK, RunsGoOn, CallsGoOn, UNCHANGED hookCall,
           waitReadyPromise' \in {waitReadyPromise, NONE}
    PROVE  LifeOK'
<1>1. RunsStartFresh'
  <2> SUFFICES ASSUME NEW q \in Runs
               PROVE  /\ stage'[q[1]] \in Earlier(q[2]) => runPc'[q] = "idle"
                      /\ runPc'[q] = "idle" => runPromise'[q] = "pending" /\ runSocket'[q] = NONE
                      /\ runPc'[q] \in {"idle", "backoff", "connecting"} => hookCall'[q] = NONE
    BY DEF RunsStartFresh
  <2>1. q[1] \in Calls
    BY DEF Runs
  <2> QED BY <2>1 DEF LifeOK, RunsStartFresh, Earlier, RunsGoOn, CallsGoOn
<1>2. RunsEndSettled'
  BY DEF LifeOK, RunsEndSettled, TypeOK, Skips, RunsGoOn
<1>3. HookAwaitsBegun'
  BY ConstantsOK DEF LifeOK, HookAwaitsBegun, CallsGoOn
<1> QED BY <1>1, <1>2, <1>3 DEF LifeOK

LEMMA RunsStay == ASSUME UNCHANGED <<runPc, runPromise, runSocket>> PROVE RunsGoOn
BY DEF RunsGoOn

LEMMA CallsStay == ASSUME UNCHANGED <<stage, outcome>> PROVE CallsGoOn
BY DEF CallsGoOn

(* A call that comes to its next await of waitReady() or begins. *)
LEMMA CallStepLife ==
    ASSUME TypeOK, LifeOK, NEW c \in Calls, NEW phase \in Phases, WaitReady(c, phase),
           stage[c] \in Earlier(phase), UNCHANGED hookCall,
           \A d \in Calls \ {c} : outcome'[d] = outcome[d]
    PROVE  LifeOK'
<1>1. RunsStartFresh' /\ RunsEndSettled'
  BY WaitReadyLife
<1>2. stage' = [stage EXCEPT ![c] = phase]
  BY WaitReadyCases
<1>3. HookAwaitsBegun'
  BY <1>2, ConstantsOK DEF LifeOK, HookAwaitsBegun, TypeOK, Phases
<1> QED BY <1>1, <1>3 DEF LifeOK

LEMMA ContinuationLife ==
    ASSUME TypeOK, CallInv, LifeOK, Continuation
    PROVE  LifeOK'
<1>1. ASSUME NEW c \in Calls, EnterMakeRequest(c) PROVE LifeOK'
  BY <1>1, CallStepLife DEF EnterMakeRequest, Phases, Earlier
<1>2. ASSUME NEW c \in Calls, RegisterRequest(c) PROVE LifeOK'
  BY <1>2, CallStepLife DEF RegisterRequest, Phases, Earlier
<1>3. ASSUME NEW c \in Calls, SendRequest(c) \/ FailCall(c) \/ FinishCall(c) PROVE LifeOK'
  <2>1. CallsGoOn
    BY <1>3 DEF SendRequest, FailCall, FinishCall, SettleCall, CallsGoOn, TypeOK, Phases,
                CallInv, BegunHasPromise
  <2> QED BY <1>3, <2>1, RunsStay, LifeStep
          DEF SendRequest, FailCall, FinishCall, connVars, runVars
<1>6. ASSUME NEW r \in Runs, CallHook(r) PROVE LifeOK'
  <2>1. PICK c \in IdleSkipCalls : BeginCall(c) /\ hookCall' = [hookCall EXCEPT ![r] = c]
    BY <1>6 DEF CallHook
  <2>2. c \in Calls /\ c \in SkipCalls /\ stage[c] = "idle" /\ runPc[r] = "hook"
    BY <1>6, ConstantsOK DEF IdleSkipCalls, CallHook
  <2>3. WaitReady(c, "rpc") /\ "rpc" \in Phases /\ "idle" \in Earlier("rpc")
    BY <2>1 DEF BeginCall, Phases, Earlier
  <2>4. RunsStartFresh' /\ RunsEndSettled'
    BY <2>1, <2>2, <2>3, WaitReadyLife DEF TypeOK
  <2>5. stage' = [stage EXCEPT ![c] = "rpc"]
    BY <2>2, <2>3, WaitReadyCases
  <2>6. HookAwaitsBegun'
    BY <2>1, <2>2, <2>5, ConstantsOK DEF LifeOK, HookAwaitsBegun, TypeOK, BeginCall
  <2> QED BY <2>4, <2>6 DEF LifeOK
<1>7. ASSUME NEW r \in Runs, RunOpened(r) \/ RunNotOpened(r) PROVE LifeOK'
  <2>1. RunsGoOn
    BY <1>7 DEF RunOpened, RunNotOpened, PassConnected, Resolve, RunsGoOn, TypeOK
  <2> QED BY <1>7, <2>1, CallsStay, LifeStep DEF RunOpened, RunNotOpened, connVars, callVars
<1>8. ASSUME NEW r \in Runs, HookReturns(r) \/ HookResolved(r) PROVE LifeOK'
  <2>1. RunsGoOn
    BY <1>8 DEF HookReturns, HookResolved, Resolve, RunsGoOn, TypeOK
  <2> QED BY <1>8, <2>1, CallsStay, LifeStep DEF HookReturns, HookResolved, connVars, callVars
<1>9. ASSUME NEW r \in Runs, HookThrows(r) \/ HookRejected(r) PROVE LifeOK'
  <2>1. RunsGoOn
    BY <1>9 DEF HookThrows, HookRejected, RunsGoOn, TypeOK
  <2> QED BY <1>9, <2>1, CallsStay, LifeStep DEF HookThrows, HookRejected, connVars, callVars
<1> QED BY <1>1, <1>2, <1>3, <1>6, <1>7, <1>8, <1>9 DEF Continuation

LEMMA EventLife ==
    ASSUME TypeOK, CallInv, LifeOK, Event
    PROVE  LifeOK'
<1>1. ASSUME NEW c \in Calls, StartCall(c) PROVE LifeOK'
  BY <1>1, CallStepLife DEF StartCall, BeginCall, Phases, Earlier, TypeOK
<1>2. ASSUME NEW c \in Calls, CallTimeout(c) PROVE LifeOK'
  <2>1. CallsGoOn
    BY <1>2 DEF CallTimeout, CallsGoOn, TypeOK
  <2> QED BY <1>2, <2>1, RunsStay, LifeStep DEF CallTimeout, connVars, runVars
<1>3. ASSUME NEW c \in Calls, Execute(c) \/ ReceiveAnswer(c) \/ ReceiveUnmatchedAnswer(c)
      PROVE  LifeOK'
  BY <1>3, RunsStay, CallsStay, LifeStep DEF Execute, ReceiveAnswer, ReceiveUnmatchedAnswer,
     connVars, runVars, callVars
<1>4. ASSUME NEW r \in Runs, BackoffDone(r) PROVE LifeOK'
  <2>1. CASE Connects(r)
    <3>1. RunsGoOn
      BY <1>4, <2>1 DEF Connects, Connect, BackoffDone, RunsGoOn, TypeOK
    <3> QED BY <1>4, <3>1, CallsStay, LifeStep DEF BackoffDone, callVars
  <2>2. CASE PassConnected(r) /\ UNCHANGED runSocket
    <3>1. RunsGoOn
      BY <1>4, <2>2 DEF PassConnected, Resolve, BackoffDone, RunsGoOn, TypeOK
    <3> QED BY <1>4, <3>1, CallsStay, LifeStep DEF BackoffDone, callVars
  <2> QED BY <1>4, <2>1, <2>2 DEF BackoffDone, ConnectOrPass, Connects
<1>5. ASSUME NEW r \in Runs, FailingDone(r) PROVE LifeOK'
  <2>1. RunsGoOn
    BY <1>5 DEF FailingDone, Reject, RunsGoOn, TypeOK
  <2> QED BY <1>5, <2>1, CallsStay, LifeStep DEF FailingDone, callVars
<1>6. ASSUME NEW r \in Runs, ConnectTimeout(r) PROVE LifeOK'
  <2>1. RunsGoOn
    BY <1>6 DEF ConnectTimeout, Reject, RunsGoOn, TypeOK, LifeOK, RunsStartFresh
  <2> QED BY <1>6, <2>1, CallsStay, LifeStep DEF ConnectTimeout, CloseSocket, OnSocketLost
<1>7. ASSUME NEW s \in Sockets, \/ SocketOpened(s) \/ SocketError(s) \/ SocketClosing(s)
                                \/ SocketClosed(s)
      PROVE  LifeOK'
  BY <1>7, RunsStay, CallsStay, LifeStep DEF SocketOpened, SocketError, SocketClosing,
     SocketClosed, OnSocketLost, runVars, callVars
<1>8. CASE Dispose
  BY <1>8, RunsStay, CallsStay, LifeStep DEF Dispose, CloseSocket, OnSocketLost, runVars
<1> QED BY <1>1, <1>2, <1>3, <1>4, <1>5, <1>6, <1>7, <1>8 DEF Event

-----------------------------------------------------------------------------
(* Steps that begin or continue a call. *)

(* Nothing but the new run, and what it does to this._webSocket, matters   *)
(* for the runs and calls there were: they are in charge of nothing when a *)
(* run is started with the hook. *)
LEMMA NoneInCharge ==
    ASSUME TypeOK, LifeOK, RunInv, NEW c \in Calls \ SkipCalls, ~JoinsRun(c)
    PROVE  /\ waitReadyPromise = NONE
           /\ \A q \in Runs :
                /\ ~InCharge(q) /\ runPc[q] # "backoff"
                /\ runPc[q] = "connecting" => runSocket[q] # NONE /\ IsDown(runSocket[q])
                /\ runPc[q] = "hook" =>
                     /\ hookCall[q] # NONE
                     /\ runPromise[q] = "rejected" \/ Doomed(hookCall[q])
           /\ webSocket # NONE /\ bAutoReconnect => readyState[webSocket] # "CONNECTING"
<1>1. waitReadyPromise = NONE
  BY DEF JoinsRun
<1>2. ASSUME NEW q \in Runs PROVE ~InCharge(q) /\ BackoffOK(q) /\ ConnectingOK(q) /\ HookOK(q)
  BY <1>1, NoneIsNoRun DEF RunInv, RunsOK, InCharge
<1>3. webSocket # NONE /\ bAutoReconnect => readyState[webSocket] # "CONNECTING"
  BY <1>1 DEF RunInv, ConnectingInCharge
<1> QED BY <1>1, <1>2, <1>3 DEF BackoffOK, ConnectingOK, HookOK

(* Doomed() and HasEntry() of calls a step does not touch. *)
LEMMA OthersStay ==
    ASSUME TypeOK, LifeOK, NEW c \in Calls, NEW phase \in Phases,
           stage' = [stage EXCEPT ![c] = phase], stage[c] \in Earlier(phase),
           \A d \in Calls \ {c} : reqPromise'[d] = reqPromise[d] /\ outcome'[d] = outcome[d],
           outcome'[c] = outcome[c] \/ (stage[c] = "idle" /\ CallInv)
    PROVE  /\ \A d \in Calls : Doomed(d) => Doomed(d)'
           /\ \A d \in Calls \ {c} : HasEntry(d) => HasEntry(d)'
<1>1. ASSUME NEW d \in Calls, Doomed(d) PROVE Doomed(d)'
  BY <1>1 DEF Doomed, TypeOK, Earlier, CallInv, BegunHasPromise
<1> QED BY <1>1 DEF HasEntry

LEMMA WaitReadyRuns ==
    ASSUME TypeOK, CallInv, LifeOK, RunInv,
           NEW c \in Calls \ SkipCalls, NEW phase \in Phases, WaitReady(c, phase),
           stage[c] \in Earlier(phase), UNCHANGED <<bAutoReconnect, hookCall>>,
           \A d \in Calls \ {c} : reqPromise'[d] = reqPromise[d] /\ outcome'[d] = outcome[d],
           outcome'[c] = outcome[c] \/ stage[c] = "idle",
           phase = "send" => IsOpen(webSocket) /\ HasEntry(c)'
    PROVE  RunInv'
<1> DEFINE r == <<c, phase>>
<1>0. /\ r \in Runs /\ stage' = [stage EXCEPT ![c] = phase]
      /\ runPc[r] = "idle" /\ runPromise[r] = "pending" /\ runSocket[r] = NONE
      /\ hookCall[r] = NONE /\ ~Skips(r)
  BY WaitReadyCases DEF LifeOK, RunsStartFresh, Runs, Skips
<1>1. /\ \A d \in Calls : Doomed(d) => Doomed(d)'
      /\ \A d \in Calls \ {c} : HasEntry(d) => HasEntry(d)'
  BY <1>0, OthersStay
<1>2. \A q \in Runs : hookCall[q] # NONE => hookCall[q] \in Calls
  BY DEF TypeOK
<1>3. \A d \in Calls \ {c} : stage'[d] = stage[d]
  BY <1>0 DEF TypeOK
<1>4. \A d \in Calls \ {c} : stage[d] = "send" => awaits[d] # r
  BY <1>0, NoneIsNoRun DEF RunInv, SendOK, EntryOrFails, Resolved, WillFail
<1>5. CASE Joins(c)
  <2>1. ConnectingInCharge' /\ RunsOK'
    BY <1>1, <1>2, <1>5 DEF Joins, RunInv, ConnectingInCharge, RunsOK, BackoffOK, ConnectingOK,
       HookOK, InCharge, IsOpen, IsDown
  <2>2. SkipsPass'
    BY <1>0, <1>3, <1>5, ConstantsOK DEF Joins, RunInv, SkipsPass, IsOpen, Resolved, TypeOK
  <2>3. ASSUME NEW d \in Calls \ {c}, stage'[d] = "send"
        PROVE  EntryOrFails(d)'
    <3>1. awaits'[d] = awaits[d] /\ stage[d] = "send"
      BY <1>3, <1>5, <2>3 DEF Joins, TypeOK
    <3> QED BY <1>1, <1>2, <1>5, <3>1
            DEF Joins, RunInv, SendOK, EntryOrFails, Resolved, WillFail, IsDown, TypeOK
  <2>4. ASSUME phase = "send"
        PROVE  EntryOrFails(c)'
    <3>1. CASE awaits'[c] = NONE
      BY <2>4, <3>1 DEF EntryOrFails, Resolved
    <3>2. CASE awaits'[c] = waitReadyPromise /\ waitReadyPromise # NONE
      <4> DEFINE w == waitReadyPromise
      <4>1. w \in Runs /\ runPc[w] \notin {"idle", "backoff"}
        BY <2>4, <3>2 DEF LifeOK, RunsEndSettled, RunInv, RunsOK, BackoffOK, IsOpen, TypeOK
      <4>2. runPc[w] = "done" => runPromise[w] # "pending"
        BY <4>1 DEF LifeOK, RunsEndSettled
      <4>3. runPc[w] = "connecting" => IsDown(runSocket[w]) \/ runSocket[w] = webSocket
        BY <4>1 DEF RunInv, RunsOK, ConnectingOK
      <4>4. runPc[w] \in {"idle", "backoff", "connecting", "hook", "failing", "done"}
            /\ runPromise[w] \in {"pending", "resolved", "rejected"}
        BY <4>1 DEF TypeOK
      <4> QED BY <1>5, <2>4, <3>2, <4>1, <4>2, <4>3, <4>4
              DEF Joins, EntryOrFails, Resolved, WillFail, IsOpen, IsDown
    <3> QED BY <1>5, <3>1, <3>2 DEF Joins, JoinsRun, TypeOK
  <2>5. SendOK'
    BY <1>0, <2>3, <2>4 DEF SendOK, TypeOK
  <2> QED BY <2>1, <2>2, <2>5 DEF RunInv
<1>6. ASSUME Starts(c, r) PROVE RunInv'
  <2>1. /\ waitReadyPromise' = r
        /\ \A q \in Runs :
             /\ ~InCharge(q) /\ runPc[q] # "backoff"
             /\ runPc[q] = "connecting" => runSocket[q] # NONE /\ IsDown(runSocket[q])
             /\ runPc[q] = "hook" =>
                  /\ hookCall[q] # NONE
                  /\ runPromise[q] = "rejected" \/ Doomed(hookCall[q])
        /\ webSocket # NONE => readyState[webSocket] # "CONNECTING"
    BY <1>6, NoneInCharge DEF Starts
  <2>2. awaits' = [awaits EXCEPT ![c] = r]
    BY <1>6 DEF Starts
  <2>3. \A q \in Runs \ {r} : runPc'[q] = runPc[q] /\ runPromise'[q] = runPromise[q]
                              /\ runSocket'[q] = runSocket[q]
    BY <1>0, <1>6, WaitReadyTouchesOne, NoneInCharge DEF Starts
  <2>4. \A d \in SkipCalls : stage'[d] = stage[d] /\ awaits'[d] = awaits[d]
    BY <1>0, <2>2, ConstantsOK DEF TypeOK
  <2>5. \A d \in SkipCalls : stage[d] \in Phases => Resolved(awaits[d])' /\ IsOpen(webSocket)
    BY <1>0, <2>3, <2>4, ConstantsOK DEF RunInv, SkipsPass, Resolved, TypeOK
  <2>6. ASSUME NEW q \in Runs \ {r},
               \A s \in Sockets :
                 IsDown(s) /\ s = runSocket[q] /\ runPc[q] = "connecting" => IsDown(s)'
        PROVE  BackoffOK(q)' /\ ConnectingOK(q)' /\ HookOK(q)'
    <3>1. runSocket[q] \in Sockets \union {NONE}
      BY DEF TypeOK
    <3> QED BY <1>1, <1>2, <2>1, <2>3, <2>6, <3>1 DEF BackoffOK, ConnectingOK, HookOK, IsDown
  <2>7. ASSUME NEW d \in Calls \ {c}, stage'[d] = "send",
               \A s \in Sockets : \A q \in Runs \ {r} :
                  s = runSocket[q] /\ runPc[q] = "connecting" => readyState'[s] = readyState[s]
        PROVE  EntryOrFails(d)'
    <3>1. awaits'[d] = awaits[d] /\ stage[d] = "send" /\ awaits[d] # r
      BY <1>3, <1>4, <2>2, <2>7 DEF TypeOK
    <3>2. awaits[d] \in Runs \union {NONE}
      BY DEF TypeOK
    <3>3. CASE awaits[d] = NONE
      BY <1>1, <3>1, <3>3 DEF RunInv, SendOK, EntryOrFails, Resolved
    <3>4. CASE awaits[d] \in Runs
      <4> DEFINE w == awaits[d]
      <4>1. w # NONE /\ w # r /\ runSocket[w] \in Sockets \union {NONE}
            /\ (runPc[w] = "connecting" => runSocket[w] \in Sockets)
            /\ (hookCall[w] # NONE => hookCall[w] \in Calls)
        BY <2>1, <3>1, <3>4, NoneIsNoRun DEF TypeOK
      <4>2. runPc[w] = "connecting" => readyState'[runSocket[w]] = readyState[runSocket[w]]
        BY <2>7, <3>4, <4>1
      <4> QED BY <1>1, <2>3, <3>1, <3>4, <4>1, <4>2
              DEF RunInv, SendOK, EntryOrFails, Resolved, WillFail, IsDown
    <3> QED BY <3>2, <3>3, <3>4
  <2>8. CASE Sleeps(r)
    <3>1. ConnectingInCharge'
      BY <2>8 DEF Sleeps, ConnectingInCharge
    <3>2. SkipsPass'
      BY <1>0, <2>3, <2>4, <2>5, <2>8 DEF Sleeps, RunInv, SkipsPass, IsOpen, IsDown
    <3>3. BackoffOK(r)' /\ ConnectingOK(r)' /\ HookOK(r)'
      BY <1>0, <2>1, <2>8 DEF Sleeps, BackoffOK, ConnectingOK, HookOK, InCharge, TypeOK
    <3>4. RunsOK'
      BY <2>6, <2>8, <3>3 DEF RunsOK, Sleeps, IsDown
    <3>5. SendOK'
      BY <1>0, <2>7, <2>8 DEF SendOK, Sleeps, IsDown, IsOpen, TypeOK
    <3> QED BY <3>1, <3>2, <3>4, <3>5 DEF RunInv
  <2>9. CASE Connects(r)
    <3>0. PICK s \in FreeSockets : Connect(r, s) /\ webSocket = NONE
      BY <2>9 DEF Connects
    <3>a. s \in Sockets /\ s # NONE /\ readyState' = [readyState EXCEPT ![s] = "CONNECTING"]
          /\ runPc' = [runPc EXCEPT ![r] = "connecting"]
          /\ runSocket' = [runSocket EXCEPT ![r] = s] /\ webSocket' = s
          /\ UNCHANGED runPromise
          /\ \A q \in Runs : runPc[q] = "connecting" => runSocket[q] # s
      BY <3>0, ConstantsOK DEF FreeSockets, Connect
    <3>1. runPc'[r] = "connecting" /\ runSocket'[r] = s /\ runPromise'[r] = "pending"
          /\ readyState'[s] = "CONNECTING"
      BY <1>0, <3>a DEF TypeOK
    <3>2. ConnectingInCharge'
      BY <1>0, <2>1, <3>a, <3>1, NoneIsNoRun DEF ConnectingInCharge, InCharge
    <3>3. SkipsPass'
      BY <1>0, <2>3, <2>4, <2>5, <3>0, <3>1 DEF RunInv, SkipsPass, IsOpen
    <3>4. BackoffOK(r)' /\ ConnectingOK(r)' /\ HookOK(r)'
      <4>1. InCharge(r)' /\ webSocket' = runSocket'[r] /\ runSocket'[r] # NONE
        BY <2>1, <3>a, <3>1 DEF InCharge
      <4> QED BY <3>1, <4>1 DEF BackoffOK, ConnectingOK, HookOK
    <3>5. \A q \in Runs : runPc[q] = "connecting" =>
             \A t \in Sockets : t = runSocket[q] => readyState'[t] = readyState[t]
      BY <3>a DEF TypeOK
    <3>6. RunsOK'
      BY <2>6, <3>4, <3>5 DEF RunsOK, IsDown
    <3>7. SendOK'
      BY <1>0, <2>7, <3>0, <3>5 DEF SendOK, IsOpen, TypeOK
    <3> QED BY <3>2, <3>3, <3>6, <3>7 DEF RunInv
  <2>10. CASE Passes(r)
    <3>1. IsOpen(webSocket) /\ UNCHANGED <<webSocket, readyState, runSocket>>
      BY <2>1, <2>10 DEF Passes, IsOpen, IsDown, TypeOK
    <3>2. ConnectingInCharge'
      BY <3>1 DEF ConnectingInCharge, IsOpen
    <3>3. SkipsPass'
      BY <1>0, <2>3, <2>4, <2>5, <3>1 DEF RunInv, SkipsPass, IsOpen
    <3>4. \/ runPc'[r] = "hook" /\ runPromise'[r] = "pending"
          \/ runPc'[r] = "done" /\ runPromise'[r] = "resolved"
      BY <1>0, <2>10 DEF Passes, PassConnected, Resolve, TypeOK
    <3>5. BackoffOK(r)' /\ ConnectingOK(r)' /\ HookOK(r)'
      BY <1>0, <2>1, <3>1, <3>4 DEF BackoffOK, ConnectingOK, HookOK, InCharge, IsOpen
    <3>6. RunsOK'
      BY <2>6, <3>1, <3>5 DEF RunsOK, IsDown
    <3>7. ASSUME phase = "send" PROVE awaits'[c] = r /\ HasEntry(c)'
      BY <2>2, <3>7 DEF TypeOK
    <3>8. SendOK'
      BY <1>0, <2>7, <3>1, <3>4, <3>7, NoneIsNoRun DEF SendOK, EntryOrFails, Resolved, TypeOK
    <3> QED BY <3>2, <3>3, <3>6, <3>8 DEF RunInv
  <2> QED BY <1>6, <2>8, <2>9, <2>10, WaitReadyCases, <1>0 DEF Starts, Joins
<1> QED BY <1>5, <1>6, WaitReadyCases

(* A call of the hook finds the socket open, passes, and disturbs nothing. *)
LEMMA WaitReadySkips ==
    ASSUME TypeOK, CallInv, LifeOK, RunInv,
           NEW c \in SkipCalls, NEW phase \in Phases, WaitReady(c, phase),
           stage[c] \in Earlier(phase), IsOpen(webSocket), UNCHANGED bAutoReconnect,
           \A q \in Runs : \/ hookCall'[q] = hookCall[q]
                           \/ hookCall[q] = NONE /\ InCharge(q) /\ hookCall'[q] # NONE,
           \A d \in Calls \ {c} : reqPromise'[d] = reqPromise[d] /\ outcome'[d] = outcome[d],
           outcome'[c] = outcome[c] \/ stage[c] = "idle",
           phase = "send" => HasEntry(c)'
    PROVE  RunInv'
<1> DEFINE r == <<c, phase>>
<1>0. /\ c \in Calls
      /\ r \in Runs /\ stage' = [stage EXCEPT ![c] = phase]
      /\ runPc[r] = "idle" /\ runPromise[r] = "pending" /\ runSocket[r] = NONE
      /\ Skips(r)
  BY ConstantsOK, WaitReadyCases DEF LifeOK, RunsStartFresh, Runs, Skips
<1>1. /\ \A d \in Calls : Doomed(d) => Doomed(d)'
      /\ \A d \in Calls \ {c} : HasEntry(d) => HasEntry(d)'
  BY <1>0, OthersStay
<1>2. \A q \in Runs : hookCall[q] # NONE => hookCall[q] \in Calls
  BY DEF TypeOK
<1>3. /\ UNCHANGED <<webSocket, waitReadyPromise, readyState, runSocket>>
      /\ \A q \in Runs \ {r} : runPc'[q] = runPc[q] /\ runPromise'[q] = runPromise[q]
      /\ \/ awaits' = [awaits EXCEPT ![c] = NONE]
            /\ runPc'[r] = runPc[r] /\ runPromise'[r] = runPromise[r]
         \/ awaits' = [awaits EXCEPT ![c] = r]
            /\ runPc'[r] = "done" /\ runPromise'[r] = "resolved"
  <2>1. CASE Joins(c)
    BY <2>1 DEF Joins, JoinsRun
  <2>2. CASE Starts(c, r) /\ Passes(r)
    BY <1>0, <2>2 DEF Starts, Passes, PassConnected, Resolve, TypeOK
  <2>3. webSocket # NONE /\ ~IsDown(webSocket)
    BY DEF IsOpen, IsDown
  <2> QED BY <2>1, <2>2, <2>3, WaitReadyCases, <1>0 DEF Sleeps, Connects
<1>4. waitReadyPromise # r
  BY <1>0, NoneIsNoRun DEF LifeOK, RunsEndSettled
<1>5. ConnectingInCharge'
  BY <1>3 DEF ConnectingInCharge, IsOpen
<1>6. SkipsPass'
  <2>1. \A q \in Runs : Skips(q) => runPc'[q] \in {"idle", "done"}
    BY <1>0, <1>3 DEF RunInv, SkipsPass
  <2>2. IsOpen(webSocket)'
    BY <1>3 DEF IsOpen
  <2>3. Resolved(awaits[c])'
    BY <1>0, <1>3 DEF Resolved, TypeOK
  <2>4. ASSUME NEW d \in SkipCalls \ {c}, stage'[d] \in Phases PROVE Resolved(awaits[d])'
    <3>1. stage[d] \in Phases /\ awaits'[d] = awaits[d]
      BY <1>0, <1>3, <2>4, ConstantsOK DEF TypeOK
    <3> QED BY <1>0, <1>3, <3>1, ConstantsOK DEF RunInv, SkipsPass, Resolved, TypeOK
  <2> QED BY <2>1, <2>2, <2>3, <2>4 DEF SkipsPass, Skips
<1>7. RunsOK'
  <2> SUFFICES ASSUME NEW q \in Runs PROVE (BackoffOK(q) /\ ConnectingOK(q) /\ HookOK(q))'
    BY DEF RunsOK
  <2>1. CASE q = r
    BY <1>0, <1>3, <2>1 DEF BackoffOK, ConnectingOK, HookOK
  <2>2. CASE q # r
    <3>1. InCharge(q) => InCharge(q)'
      BY <1>3, <2>2 DEF InCharge
    <3>2. IsOpen(webSocket)' /\ (IsDown(runSocket[q]) => IsDown(runSocket[q])')
      BY <1>3 DEF IsOpen, IsDown
    <3> QED BY <1>1, <1>2, <1>3, <2>2, <3>1, <3>2
            DEF RunInv, RunsOK, BackoffOK, ConnectingOK, HookOK, IsOpen
  <2> QED BY <2>1, <2>2
<1>8. SendOK'
  <2>1. ASSUME phase = "send" PROVE Resolved(awaits[c])' /\ HasEntry(c)'
    BY <1>0, <1>3, <2>1 DEF Resolved, TypeOK
  <2>2. ASSUME NEW d \in Calls \ {c}, stage'[d] = "send"
        PROVE  EntryOrFails(d)'
    <3>1. awaits'[d] = awaits[d] /\ stage[d] = "send" /\ awaits[d] \in Runs \union {NONE}
      BY <1>0, <1>3, <2>2 DEF TypeOK
    <3>2. CASE awaits[d] = NONE
      BY <1>1, <3>1, <3>2 DEF RunInv, SendOK, EntryOrFails, Resolved
    <3>3. CASE awaits[d] \in Runs
      <4> DEFINE w == awaits[d]
      <4>1. w # NONE /\ w # r
        BY <1>0, <3>1, <3>3, NoneIsNoRun DEF RunInv, SendOK, EntryOrFails, Resolved, WillFail
      <4>2. ASSUME NEW q \in Runs \ {r}, WillFail(q) PROVE WillFail(q)'
        BY <1>1, <1>2, <1>3, <4>2 DEF WillFail, IsDown
      <4>3. HasEntry(d) => HasEntry(d)'
        BY <1>1
      <4> QED BY <1>3, <3>1, <3>3, <4>1, <4>2, <4>3 DEF RunInv, SendOK, EntryOrFails, Resolved
    <3> QED BY <3>1, <3>2, <3>3
  <2> QED BY <1>0, <2>1, <2>2 DEF SendOK, EntryOrFails, TypeOK
<1> QED BY <1>5, <1>6, <1>7, <1>8 DEF RunInv

(* A call that leaves waitReady() for good: it is sent, or it is over. *)
LEMMA CallLeavesRuns ==
    ASSUME TypeOK, RunInv,
           UNCHANGED <<connVars, runVars, awaits, reqPromise>>,
           \A d \in Calls : /\ stage'[d] = stage[d] \/ stage'[d] \in {"answer", "settled"}
                            /\ Doomed(d) => Doomed(d)'
    PROVE  RunInv'
<1>1. \A q \in Runs : hookCall[q] # NONE => hookCall[q] \in Calls
  BY DEF TypeOK
<1>2. ConnectingInCharge'
  BY DEF RunInv, ConnectingInCharge, InCharge, connVars, runVars
<1>3. SkipsPass'
  BY ConstantsOK DEF RunInv, SkipsPass, IsOpen, Resolved, Phases, connVars, runVars
<1>4. RunsOK'
  BY <1>1 DEF RunInv, RunsOK, BackoffOK, ConnectingOK, HookOK, InCharge, IsOpen, IsDown,
     connVars, runVars
<1>5. \A d \in Calls : HasEntry(d) => HasEntry(d)'
  BY DEF HasEntry
<1>6. ASSUME NEW q \in Runs, WillFail(q) PROVE WillFail(q)'
  BY <1>1, <1>6 DEF WillFail, IsDown, connVars, runVars
<1>7. SendOK'
  <2> SUFFICES ASSUME NEW d \in Calls, stage'[d] = "send"
      PROVE  EntryOrFails(d)'
    BY DEF SendOK
  <2>1. stage[d] = "send" /\ awaits'[d] = awaits[d] /\ awaits[d] \in Runs \union {NONE}
    BY DEF TypeOK
  <2> QED BY <1>5, <1>6, <2>1 DEF RunInv, SendOK, EntryOrFails, Resolved, connVars, runVars
<1> QED BY <1>2, <1>3, <1>4, <1>7 DEF RunInv

(* A run of waitReady() that goes on after an await. *)
RunMoves(r) ==
    /\ runPc[r] \in {"connecting", "hook"}
    /\ runPc[r] = "connecting" => readyState[runSocket[r]] # "CONNECTING"
    /\ \A q \in Runs \ {r} : runPc'[q] = runPc[q] /\ runPromise'[q] = runPromise[q]
    /\ \/ runPc'[r] = "failing" /\ runPromise'[r] = runPromise[r]
       \/ /\ runPc'[r] = "hook" /\ runPromise'[r] = runPromise[r]
          /\ hookCall[r] = NONE /\ IsOpen(webSocket) /\ InCharge(r)
          /\ ~WillFail(r)
       \/ /\ runPc'[r] = "done"
          /\ runPromise[r] # "pending" => runPromise'[r] = runPromise[r]
          /\ runPromise[r] = "pending" => runPromise'[r] = "resolved" /\ ~WillFail(r)

LEMMA RunMovesRuns ==
    ASSUME TypeOK, LifeOK, RunInv, NEW r \in Runs, RunMoves(r),
           UNCHANGED <<connVars, runSocket, hookCall, callVars>>
    PROVE  RunInv'
<1>1. ~Skips(r)
  BY DEF RunMoves, RunInv, SkipsPass
<1>2. ConnectingInCharge'
  <2> SUFFICES ASSUME webSocket # NONE, readyState[webSocket] = "CONNECTING"
               PROVE  ConnectingInCharge'
    BY DEF ConnectingInCharge, connVars
  <2>1. runPc[r] # "idle" /\ waitReadyPromise \in Runs \union {NONE}
    BY DEF RunMoves, TypeOK
  <2>2. waitReadyPromise # NONE /\ InCharge(waitReadyPromise)
        /\ runPc[waitReadyPromise] = "connecting" /\ runSocket[waitReadyPromise] = webSocket
        /\ waitReadyPromise # r
    BY <2>1 DEF RunInv, ConnectingInCharge, RunMoves
  <2> QED BY <2>1, <2>2 DEF ConnectingInCharge, InCharge, RunMoves, connVars
<1>3. SkipsPass'
  <2>1. \A q \in Runs : Skips(q) => runPc'[q] \in {"idle", "done"}
    BY <1>1 DEF RunInv, SkipsPass, RunMoves
  <2>2. \A d \in SkipCalls : stage'[d] \in Phases => IsOpen(webSocket)'
    BY DEF RunInv, SkipsPass, IsOpen, connVars, callVars
  <2>3. \A q \in Runs : runPromise[q] = "resolved" => runPromise'[q] = "resolved"
    BY DEF RunMoves
  <2>4. \A d \in SkipCalls : stage'[d] \in Phases => Resolved(awaits[d])'
    BY <2>3, ConstantsOK DEF RunInv, SkipsPass, Resolved, callVars, TypeOK
  <2> QED BY <2>1, <2>2, <2>4 DEF SkipsPass, Skips
<1>4. \A d \in Calls : (Doomed(d)' <=> Doomed(d)) /\ (HasEntry(d)' <=> HasEntry(d))
  BY DEF Doomed, HasEntry, callVars
<1>5. \A q \in Runs : hookCall[q] # NONE => hookCall[q] \in Calls
  BY DEF TypeOK
<1>6. RunsOK'
  <2> SUFFICES ASSUME NEW q \in Runs PROVE (BackoffOK(q) /\ ConnectingOK(q) /\ HookOK(q))'
    BY DEF RunsOK
  <2>1. CASE q = r
    <3>1. runPc'[r] = "hook" => InCharge(r)' /\ IsOpen(webSocket)' /\ hookCall'[r] = NONE
      BY DEF RunMoves, InCharge, IsOpen, connVars
    <3> QED BY <2>1, <3>1 DEF RunMoves, BackoffOK, ConnectingOK, HookOK
  <2>2. CASE q # r
    BY <1>4, <1>5, <2>2 DEF RunInv, RunsOK, BackoffOK, ConnectingOK, HookOK, InCharge, IsOpen,
       IsDown, RunMoves, connVars
  <2> QED BY <2>1, <2>2
<1>7. ASSUME NEW q \in Runs \ {r}, WillFail(q) PROVE WillFail(q)'
  BY <1>4, <1>5, <1>7 DEF WillFail, IsDown, RunMoves, connVars
<1>8. SendOK'
  <2> SUFFICES ASSUME NEW d \in Calls, stage'[d] = "send"
      PROVE  EntryOrFails(d)'
    BY DEF SendOK
  <2>1. stage[d] = "send" /\ awaits'[d] = awaits[d] /\ awaits[d] \in Runs \union {NONE}
    BY DEF TypeOK, callVars
  <2>2. CASE awaits[d] = r
    <3>1. r # NONE
      BY NoneIsNoRun
    <3>2. runPc'[r] = "failing" => WillFail(r)'
      BY DEF WillFail
    <3> QED BY <1>4, <2>1, <2>2, <3>1, <3>2 DEF RunInv, SendOK, EntryOrFails, Resolved, RunMoves
  <2>3. CASE awaits[d] # r
    BY <1>4, <1>7, <2>1, <2>3 DEF RunInv, SendOK, EntryOrFails, Resolved, RunMoves, connVars
  <2> QED BY <2>2, <2>3
<1> QED BY <1>2, <1>3, <1>6, <1>8 DEF RunInv

LEMMA ContinuationRuns ==
    ASSUME TypeOK, CallInv, LifeOK, RunInv, Continuation
    PROVE  RunInv'
<1>1. ASSUME NEW c \in Calls, EnterMakeRequest(c) PROVE RunInv'
  <2>1. WaitReady(c, "check") /\ "check" \in Phases /\ stage[c] \in Earlier("check")
    BY <1>1 DEF EnterMakeRequest, Phases, Earlier
  <2>2. CASE c \in SkipCalls
    <3>1. IsOpen(webSocket)
      BY <1>1, <2>2 DEF EnterMakeRequest, RunInv, SkipsPass, Phases
    <3> QED BY <1>1, <2>1, <2>2, <3>1, WaitReadySkips DEF EnterMakeRequest
  <2>3. CASE c \notin SkipCalls
    BY <1>1, <2>1, <2>3, WaitReadyRuns DEF EnterMakeRequest
  <2> QED BY <2>2, <2>3
<1>2. ASSUME NEW c \in Calls, RegisterRequest(c) PROVE RunInv'
  <2>1. WaitReady(c, "send") /\ "send" \in Phases /\ stage[c] \in Earlier("send")
    BY <1>2 DEF RegisterRequest, Phases, Earlier
  <2>2. /\ \A d \in Calls \ {c} : reqPromise'[d] = reqPromise[d] /\ outcome'[d] = outcome[d]
        /\ outcome'[c] = outcome[c] /\ HasEntry(c)' /\ IsOpen(webSocket)
    BY <1>2 DEF RegisterRequest, HasEntry, TypeOK
  <2>3. CASE c \in SkipCalls
    BY <1>2, <2>1, <2>2, <2>3, WaitReadySkips DEF RegisterRequest
  <2>4. CASE c \notin SkipCalls
    BY <1>2, <2>1, <2>2, <2>4, WaitReadyRuns DEF RegisterRequest
  <2> QED BY <2>3, <2>4
<1>3. ASSUME NEW c \in Calls, SendRequest(c) \/ FailCall(c) \/ FinishCall(c) PROVE RunInv'
  <2>1. \A d \in Calls : /\ stage'[d] = stage[d] \/ stage'[d] \in {"answer", "settled"}
                         /\ Doomed(d) => Doomed(d)'
    BY <1>3 DEF SendRequest, FailCall, FinishCall, SettleCall, Doomed, TypeOK, Phases
  <2> QED BY <1>3, <2>1, CallLeavesRuns
          DEF SendRequest, FailCall, FinishCall, connVars, runVars
<1>4. ASSUME NEW r \in Runs, CallHook(r) PROVE RunInv'
  <2>1. PICK c \in IdleSkipCalls : BeginCall(c) /\ hookCall' = [hookCall EXCEPT ![r] = c]
    BY <1>4 DEF CallHook
  <2>2. c \in Calls /\ c \in SkipCalls /\ stage[c] = "idle" /\ c # NONE
    BY ConstantsOK DEF IdleSkipCalls
  <2>3. WaitReady(c, "rpc") /\ "rpc" \in Phases /\ stage[c] \in Earlier("rpc")
    BY <2>1, <2>2 DEF BeginCall, Phases, Earlier
  <2>4. IsOpen(webSocket) /\ InCharge(r)
    BY <1>4 DEF CallHook, RunInv, RunsOK, HookOK
  <2>5. \A q \in Runs : \/ hookCall'[q] = hookCall[q]
                        \/ hookCall[q] = NONE /\ InCharge(q) /\ hookCall'[q] # NONE
    BY <1>4, <2>1, <2>2, <2>4 DEF CallHook, TypeOK
  <2>6. /\ \A d \in Calls \ {c} : reqPromise'[d] = reqPromise[d] /\ outcome'[d] = outcome[d]
        /\ UNCHANGED bAutoReconnect
    BY <1>4, <2>1 DEF CallHook, BeginCall, TypeOK
  <2> QED BY <2>2, <2>3, <2>4, <2>5, <2>6, WaitReadySkips
<1>5. ASSUME NEW r \in Runs, RunOpened(r) PROVE RunInv'
  <2>1. IsOpen(webSocket) /\ InCharge(r) /\ hookCall[r] = NONE /\ ~WillFail(r)
    BY <1>5 DEF RunOpened, RunInv, RunsOK, ConnectingOK, IsOpen, IsDown, WillFail, LifeOK,
       RunsStartFresh
  <2>2. RunMoves(r)
    BY <1>5, <2>1 DEF RunOpened, PassConnected, Resolve, RunMoves, InCharge, TypeOK
  <2> QED BY <1>5, <2>2, RunMovesRuns DEF RunOpened
<1>6. ASSUME NEW r \in Runs, RunNotOpened(r) \/ HookThrows(r) \/ HookRejected(r) PROVE RunInv'
  <2>1. RunMoves(r)
    BY <1>6 DEF RunNotOpened, HookThrows, HookRejected, RunMoves, TypeOK
  <2> QED BY <1>6, <2>1, RunMovesRuns DEF RunNotOpened, HookThrows, HookRejected
<1>7. ASSUME NEW r \in Runs, HookReturns(r) \/ HookResolved(r) PROVE RunInv'
  <2>1. ~WillFail(r)
    BY <1>7 DEF HookReturns, HookResolved, WillFail, Doomed
  <2>2. RunMoves(r)
    BY <1>7, <2>1 DEF HookReturns, HookResolved, Resolve, RunMoves, TypeOK
  <2> QED BY <1>7, <2>2, RunMovesRuns DEF HookReturns, HookResolved
<1> QED BY <1>1, <1>2, <1>3, <1>4, <1>5, <1>6, <1>7 DEF Continuation

-----------------------------------------------------------------------------
(* Events and timers, before which every continuation has run. *)

LEMMA AwaitedNow ==
    ASSUME TypeOK, LifeOK, RunInv, ~MicrotaskReady
    PROVE  /\ \A c \in SkipCalls : stage[c] \notin Phases
           /\ \A r \in Runs : runPc[r] = "connecting" =>
                 /\ runSocket[r] \in Sockets /\ readyState[runSocket[r]] = "CONNECTING"
                 /\ InCharge(r) /\ webSocket = runSocket[r]
           /\ \A r \in Runs : runPc[r] = "hook" =>
                 /\ hookCall[r] \in Calls /\ hookCall[r] # NONE
                 /\ stage[hookCall[r]] = "answer"
                 /\ reqPromise[hookCall[r]] = "pending" /\ outcome[hookCall[r]] = "pending"
           /\ \A c \in Calls : stage[c] = "send" =>
                 /\ awaits[c] \in Runs /\ runPromise[awaits[c]] = "pending"
                 /\ \/ runPc[awaits[c]] = "failing"
                    \/ runPc[awaits[c]] = "hook" /\ HasEntry(c)
<1>1. ASSUME NEW c \in SkipCalls, stage[c] \in Phases PROVE FALSE
  <2>1. IsOpen(webSocket) /\ Resolved(awaits[c]) /\ c \in Calls
    BY <1>1, ConstantsOK DEF RunInv, SkipsPass
  <2>2. CallResumable(c)
    BY <1>1, <2>1 DEF CallResumable, Resolved, Settled, CanWaitReady, IsOpen
  <2> QED BY <2>1, <2>2 DEF MicrotaskReady
<1>2. ASSUME NEW r \in Runs, runPc[r] = "connecting"
      PROVE  /\ runSocket[r] \in Sockets /\ readyState[runSocket[r]] = "CONNECTING"
             /\ InCharge(r) /\ webSocket = runSocket[r]
  <2>1. readyState[runSocket[r]] = "CONNECTING"
    BY <1>2 DEF MicrotaskReady, RunResumable
  <2> QED BY <1>2, <2>1 DEF RunInv, RunsOK, ConnectingOK, IsDown, TypeOK
<1>3. ASSUME NEW r \in Runs, runPc[r] = "hook"
      PROVE  /\ hookCall[r] \in Calls /\ hookCall[r] # NONE
             /\ stage[hookCall[r]] = "answer"
             /\ reqPromise[hookCall[r]] = "pending" /\ outcome[hookCall[r]] = "pending"
  <2>1. hookCall[r] # NONE
    <3> SUFFICES ASSUME hookCall[r] = NONE PROVE FALSE
      OBVIOUS
    <3>1. webSocket # NONE
      BY <1>3 DEF RunInv, RunsOK, HookOK, IsOpen
    <3>2. RunResumable(r)
      BY <1>3, <3>1 DEF RunResumable, CanWaitReady
    <3> QED BY <3>2 DEF MicrotaskReady
  <2>2. hookCall[r] \in SkipCalls /\ hookCall[r] \in Calls /\ stage[hookCall[r]] # "idle"
    BY <2>1, ConstantsOK DEF LifeOK, HookAwaitsBegun
  <2>3. outcome[hookCall[r]] = "pending"
    BY <1>3, <2>1 DEF MicrotaskReady, RunResumable
  <2>4. stage[hookCall[r]] = "answer"
    BY <1>1, <2>2, <2>3 DEF LifeOK, HookAwaitsBegun, TypeOK, Stages
  <2>5. reqPromise[hookCall[r]] = "pending"
    BY <2>2, <2>4 DEF MicrotaskReady, CallResumable
  <2> QED BY <2>1, <2>2, <2>3, <2>4, <2>5
<1>4. ASSUME NEW c \in Calls, stage[c] = "send"
      PROVE  /\ awaits[c] \in Runs /\ runPromise[awaits[c]] = "pending"
             /\ \/ runPc[awaits[c]] = "failing"
                \/ runPc[awaits[c]] = "hook" /\ HasEntry(c)
  <2>1. ~Settled(awaits[c])
    BY <1>4 DEF MicrotaskReady, CallResumable, Phases
  <2>2. awaits[c] \in Runs /\ runPromise[awaits[c]] = "pending"
    BY <2>1 DEF Settled, TypeOK
  <2>3. runPc[awaits[c]] = "connecting" => readyState[runSocket[awaits[c]]] = "CONNECTING"
                                           /\ ~IsDown(runSocket[awaits[c]])
    BY <1>2, <2>2 DEF IsDown
  <2>4. runPc[awaits[c]] = "hook" => ~Doomed(hookCall[awaits[c]])
    BY <1>3, <2>2 DEF Doomed
  <2> QED BY <1>4, <2>1, <2>2, <2>3, <2>4
          DEF RunInv, SendOK, EntryOrFails, WillFail, Resolved, Settled
<1> QED BY <1>1, <1>2, <1>3, <1>4

(* What an event that closes or loses sockets does: the promise of         *)
(* waitReady() is forgotten only with the socket, and then every entry of  *)
(* the map is rejected; a promise rejected is that of a run whose socket   *)
(* is closed. *)
SocketsGoDown ==
    /\ bAutoReconnect' => bAutoReconnect
    /\ \A s \in Sockets :
         \/ readyState'[s] = readyState[s]
         \/ readyState'[s] \in {"CLOSING", "CLOSED"}
    /\ \A q \in Runs :
         \/ runPromise'[q] = runPromise[q]
         \/ runPromise'[q] = "rejected" /\ runSocket[q] # NONE /\ IsDown(runSocket[q])'
    /\ \/ UNCHANGED <<waitReadyPromise, reqPromise>>
       \/ /\ \A c \in Calls : reqPromise'[c] = IF reqPromise[c] = "pending"
                                                 THEN "rejected" ELSE reqPromise[c]
          /\ \/ waitReadyPromise' = waitReadyPromise
             \/ webSocket # NONE /\ IsDown(webSocket)'

LEMMA SocketsGoDownRuns ==
    ASSUME TypeOK, LifeOK, RunInv, ~MicrotaskReady, SocketsGoDown,
           UNCHANGED <<webSocket, runPc, runSocket, hookCall, stage, awaits, outcome>>
    PROVE  RunInv'
<1>1. /\ \A c \in SkipCalls : stage[c] \notin Phases
      /\ \A r \in Runs : runPc[r] = "connecting" =>
            /\ runSocket[r] \in Sockets /\ readyState[runSocket[r]] = "CONNECTING"
            /\ InCharge(r) /\ webSocket = runSocket[r]
      /\ \A r \in Runs : runPc[r] = "hook" =>
            /\ hookCall[r] \in Calls /\ hookCall[r] # NONE
            /\ stage[hookCall[r]] = "answer"
            /\ reqPromise[hookCall[r]] = "pending" /\ outcome[hookCall[r]] = "pending"
      /\ \A c \in Calls : stage[c] = "send" =>
            /\ awaits[c] \in Runs /\ runPromise[awaits[c]] = "pending"
            /\ \/ runPc[awaits[c]] = "failing"
               \/ runPc[awaits[c]] = "hook" /\ HasEntry(c)
  BY AwaitedNow
<1>2. SkipsPass'
  BY <1>1 DEF RunInv, SkipsPass, Skips
<1>3. webSocket \in Sockets \union {NONE}
  BY DEF TypeOK
<1>4. ConnectingInCharge'
  <2> SUFFICES ASSUME webSocket # NONE, readyState'[webSocket] = "CONNECTING"
               PROVE  ConnectingInCharge'
    BY DEF ConnectingInCharge
  <2>1. readyState[webSocket] = "CONNECTING" /\ ~IsDown(webSocket)'
    BY <1>3 DEF SocketsGoDown, IsDown
  <2>2. CASE ~bAutoReconnect /\ \A r \in Runs : runPc[r] = "idle"
    BY <2>2 DEF ConnectingInCharge, SocketsGoDown
  <2>3. CASE /\ waitReadyPromise # NONE /\ InCharge(waitReadyPromise)
             /\ runPc[waitReadyPromise] = "connecting"
             /\ runSocket[waitReadyPromise] = webSocket
    <3>1. waitReadyPromise \in Runs /\ waitReadyPromise' = waitReadyPromise
      BY <2>1, <2>3 DEF SocketsGoDown, TypeOK
    <3>2. runPromise'[waitReadyPromise] = runPromise[waitReadyPromise]
      BY <2>1, <2>3, <3>1 DEF SocketsGoDown, IsDown
    <3> QED BY <2>3, <3>1, <3>2 DEF ConnectingInCharge, InCharge
  <2> QED BY <2>1, <2>2, <2>3 DEF RunInv, ConnectingInCharge
<1>5. ASSUME NEW q \in Runs PROVE (BackoffOK(q) /\ ConnectingOK(q) /\ HookOK(q))'
  <2>1. BackoffOK(q)'
    BY DEF RunInv, RunsOK, BackoffOK, InCharge, SocketsGoDown
  <2>2. ConnectingOK(q)'
    <3> SUFFICES ASSUME runPc[q] = "connecting", ~IsDown(runSocket[q])'
                 PROVE  runSocket[q] # NONE /\ InCharge(q)' /\ webSocket' = runSocket'[q]
      BY DEF ConnectingOK, IsDown, InCharge
    <3> QED BY <1>1, ConstantsOK DEF SocketsGoDown, InCharge
  <2>3. HookOK(q)'
    <3> SUFFICES ASSUME runPc[q] = "hook", runPromise'[q] # "rejected", ~Doomed(hookCall[q])'
                 PROVE  InCharge(q)' /\ webSocket # NONE
      BY <1>1 DEF HookOK
    <3>1. UNCHANGED <<waitReadyPromise, reqPromise>>
      BY <1>1 DEF SocketsGoDown, Doomed
    <3>2. runPromise'[q] = runPromise[q]
      BY DEF SocketsGoDown
    <3>3. ~Doomed(hookCall[q])
      BY <1>1 DEF Doomed
    <3> QED BY <1>1, <3>1, <3>2, <3>3 DEF RunInv, RunsOK, HookOK, InCharge
  <2> QED BY <2>1, <2>2, <2>3
<1>6. SendOK'
  <2> SUFFICES ASSUME NEW c \in Calls, stage[c] = "send" PROVE EntryOrFails(c)'
    BY DEF SendOK
  <2> DEFINE w == awaits[c]
  <2>1. w \in Runs /\ w # NONE /\ runPromise'[w] \in {"pending", "rejected"}
    BY <1>1, NoneIsNoRun DEF SocketsGoDown
  <2>2. CASE runPc[w] = "failing"
    BY <2>1, <2>2 DEF EntryOrFails, WillFail
  <2>3. CASE runPc[w] = "hook" /\ HasEntry(c)
    <3>1. CASE UNCHANGED reqPromise
      BY <2>1, <2>3, <3>1 DEF EntryOrFails, HasEntry
    <3>2. CASE \A d \in Calls : reqPromise[d] = "pending" => reqPromise'[d] = "rejected"
      <4>1. Doomed(hookCall[w])' /\ hookCall[w] # NONE
        BY <1>1, <2>1, <2>3, <3>2 DEF Doomed
      <4> QED BY <2>1, <2>3, <4>1 DEF EntryOrFails, WillFail
    <3> QED BY <3>1, <3>2 DEF SocketsGoDown
  <2> QED BY <1>1, <2>2, <2>3
<1> QED BY <1>2, <1>4, <1>5, <1>6 DEF RunInv, RunsOK

(* close(), by the code. *)
LEMMA CloseSocketGoesDown ==
    ASSUME TypeOK, NEW s \in Sockets, CloseSocket(s), UNCHANGED webSocket
    PROVE  /\ IsDown(s)'
           /\ \A t \in Sockets :
                \/ readyState'[t] = readyState[t]
                \/ readyState'[t] \in {"CLOSING", "CLOSED"}
           /\ \/ UNCHANGED <<waitReadyPromise, reqPromise>>
              \/ /\ \A c \in Calls : reqPromise'[c] = IF reqPromise[c] = "pending"
                                                        THEN "rejected" ELSE reqPromise[c]
                 /\ \/ waitReadyPromise' = waitReadyPromise
                    \/ webSocket # NONE /\ IsDown(webSocket)'
<1>1. s # NONE /\ readyState'[s] \in {"CLOSING", "CLOSED"}
  BY ConstantsOK DEF CloseSocket, TypeOK
<1>2. \A t \in Sockets : t # s => readyState'[t] = readyState[t]
  BY DEF CloseSocket, TypeOK
<1>3. CASE UNCHANGED <<waitReadyPromise, reqPromise>>
  BY <1>1, <1>2, <1>3 DEF IsDown
<1>4. CASE OnSocketLost(s)
  BY <1>1, <1>2, <1>4 DEF IsDown, OnSocketLost, RejectAllPromises
<1> QED BY <1>3, <1>4 DEF CloseSocket

(* The timers that end a sleep. *)
LEMMA BackoffDoneRuns ==
    ASSUME TypeOK, LifeOK, RunInv, NEW r \in Runs, BackoffDone(r)
    PROVE  RunInv'
<1>1. InCharge(r) /\ webSocket = NONE /\ runSocket[r] = NONE /\ runPc[r] = "backoff"
  BY DEF BackoffDone, RunInv, RunsOK, BackoffOK
<1>2. PICK s \in FreeSockets : Connect(r, s)
  BY <1>1 DEF BackoffDone, ConnectOrPass
<1>3. /\ s \in Sockets /\ s # NONE
      /\ webSocket' = s /\ readyState' = [readyState EXCEPT ![s] = "CONNECTING"]
      /\ runPc' = [runPc EXCEPT ![r] = "connecting"]
      /\ runSocket' = [runSocket EXCEPT ![r] = s]
      /\ UNCHANGED <<bAutoReconnect, runPromise, waitReadyPromise, hookCall, callVars>>
      /\ \A q \in Runs : runPc[q] = "connecting" => runSocket[q] # s
  BY <1>2, ConstantsOK DEF BackoffDone, FreeSockets, Connect
<1>4. /\ runPc'[r] = "connecting" /\ runSocket'[r] = s /\ readyState'[s] = "CONNECTING"
      /\ \A q \in Runs \ {r} : runPc'[q] = runPc[q] /\ runSocket'[q] = runSocket[q]
      /\ \A q \in Runs : runPc[q] = "connecting" =>
            \A t \in Sockets : t = runSocket[q] => readyState'[t] = readyState[t]
      /\ r # NONE
  BY <1>3, NoneIsNoRun DEF TypeOK
<1>5. ConnectingInCharge'
  BY <1>1, <1>3, <1>4 DEF ConnectingInCharge, InCharge
<1>6. SkipsPass'
  <2>1. ~Skips(r) /\ \A c \in SkipCalls : stage[c] \notin Phases
    BY <1>1 DEF RunInv, SkipsPass, IsOpen
  <2> QED BY <1>3, <1>4, <2>1 DEF RunInv, SkipsPass, callVars, Skips
<1>7. \A d \in Calls : (Doomed(d)' <=> Doomed(d)) /\ (HasEntry(d)' <=> HasEntry(d))
  BY <1>3 DEF Doomed, HasEntry, callVars
<1>8. \A q \in Runs : hookCall[q] # NONE => hookCall[q] \in Calls
  BY DEF TypeOK
<1>9. ASSUME NEW q \in Runs PROVE (BackoffOK(q) /\ ConnectingOK(q) /\ HookOK(q))'
  <2>1. CASE q = r
    BY <1>1, <1>3, <1>4, <2>1 DEF BackoffOK, ConnectingOK, HookOK, InCharge
  <2>2. CASE q # r
    <3>1. runPc[q] # "backoff" /\ ~InCharge(q)
      BY <1>1, <2>2 DEF RunInv, RunsOK, BackoffOK, InCharge
    <3>2. runPc[q] = "connecting" => runSocket[q] # NONE /\ IsDown(runSocket[q])'
      BY <1>4, <2>2, <3>1 DEF RunInv, RunsOK, ConnectingOK, IsDown, TypeOK
    <3>3. runPc[q] = "hook" => /\ hookCall[q] # NONE
                               /\ runPromise[q] = "rejected" \/ Doomed(hookCall[q])
      BY <3>1 DEF RunInv, RunsOK, HookOK
    <3> QED BY <1>3, <1>4, <1>7, <1>8, <2>2, <3>1, <3>2, <3>3
            DEF BackoffOK, ConnectingOK, HookOK
  <2> QED BY <2>1, <2>2
<1>10. SendOK'
  <2> SUFFICES ASSUME NEW c \in Calls, stage[c] = "send" PROVE EntryOrFails(c)'
    BY <1>3 DEF SendOK, callVars
  <2>1. awaits'[c] = awaits[c] /\ awaits[c] \in Runs \union {NONE} /\ awaits[c] # r
    BY <1>1, <1>3, <1>4 DEF callVars, TypeOK, RunInv, SendOK, EntryOrFails, Resolved, WillFail,
       InCharge
  <2>2. ASSUME NEW q \in Runs \ {r}, WillFail(q) PROVE WillFail(q)'
    BY <1>3, <1>4, <1>7, <1>8, <2>2 DEF WillFail, IsDown, TypeOK
  <2>3. ASSUME NEW q \in Runs \ {r}, runPc[q] = "connecting", readyState[runSocket[q]] = "OPEN"
        PROVE  readyState'[runSocket'[q]] = "OPEN"
    <3>1. runSocket[q] \in Sockets
      BY <2>3 DEF RunInv, RunsOK, ConnectingOK, TypeOK
    <3> QED BY <1>4, <2>3, <3>1
  <2> QED BY <1>3, <1>4, <1>7, <2>1, <2>2, <2>3 DEF RunInv, SendOK, EntryOrFails, Resolved
<1> QED BY <1>5, <1>6, <1>9, <1>10 DEF RunInv, RunsOK

(* A failed run forgets this._waitReadyPromise.  Unless that is another    *)
(* run's, nobody was in charge. *)
LEMMA FailingDoneRuns ==
    ASSUME TypeOK, LifeOK, RunInv, NEW r \in Runs, FailingDone(r), ~forgotten'
    PROVE  RunInv'
<1>1. /\ runPc[r] = "failing" /\ runPc' = [runPc EXCEPT ![r] = "done"] /\ Reject(r)
      /\ waitReadyPromise' = NONE /\ ~MicrotaskReady /\ ~ForgetsAnother(r)
      /\ UNCHANGED <<bAutoReconnect, webSocket, readyState, runSocket, hookCall, callVars>>
  BY DEF FailingDone
<1>2. \A q \in Runs \ {r} : /\ runPc'[q] = runPc[q] /\ runPromise'[q] = runPromise[q]
                            /\ ~InCharge(q)
  BY <1>1, NoneIsNoRun DEF ForgetsAnother, InCharge, Reject, TypeOK
<1>3. runPc'[r] = "done" /\ runPromise'[r] # "pending"
      /\ (runPromise[r] # "pending" => runPromise'[r] = runPromise[r])
      /\ (runPromise[r] = "pending" => runPromise'[r] = "rejected")
  BY <1>1 DEF Reject, TypeOK
<1>4. ConnectingInCharge'
  <2> SUFFICES ASSUME webSocket # NONE, readyState[webSocket] = "CONNECTING" PROVE FALSE
    BY <1>1 DEF ConnectingInCharge
  <2>1. waitReadyPromise \in Runs \union {NONE} /\ runPc[r] # "idle"
    BY <1>1 DEF TypeOK
  <2>2. waitReadyPromise # NONE /\ InCharge(waitReadyPromise)
        /\ runPc[waitReadyPromise] = "connecting"
    BY <2>1 DEF RunInv, ConnectingInCharge
  <2> QED BY <1>1, <1>2, <2>1, <2>2
<1>5. /\ \A c \in SkipCalls : stage[c] \notin Phases
      /\ \A q \in Runs : runPc[q] # "connecting" \/ q = r
      /\ \A c \in Calls : stage[c] = "send" =>
            /\ awaits[c] \in Runs /\ runPromise[awaits[c]] = "pending"
            /\ \/ runPc[awaits[c]] = "failing"
               \/ runPc[awaits[c]] = "hook" /\ HasEntry(c)
  BY <1>1, <1>2, AwaitedNow
<1>6. SkipsPass'
  BY <1>1, <1>2, <1>3, <1>5 DEF RunInv, SkipsPass, callVars, Skips
<1>7. \A d \in Calls : (Doomed(d)' <=> Doomed(d)) /\ (HasEntry(d)' <=> HasEntry(d))
  BY <1>1 DEF Doomed, HasEntry, callVars
<1>8. \A q \in Runs : hookCall[q] # NONE => hookCall[q] \in Calls
  BY DEF TypeOK
<1>9. ASSUME NEW q \in Runs PROVE (BackoffOK(q) /\ ConnectingOK(q) /\ HookOK(q))'
  <2>1. CASE q = r
    BY <1>3, <2>1 DEF BackoffOK, ConnectingOK, HookOK
  <2>2. CASE q # r
    <3>1. runPc[q] \notin {"backoff", "connecting"}
      BY <1>2, <1>5, <2>2 DEF RunInv, RunsOK, BackoffOK
    <3>2. runPc[q] = "hook" => /\ hookCall[q] # NONE
                               /\ runPromise[q] = "rejected" \/ Doomed(hookCall[q])
      BY <1>2, <2>2 DEF RunInv, RunsOK, HookOK
    <3> QED BY <1>1, <1>2, <1>7, <1>8, <2>2, <3>1, <3>2 DEF BackoffOK, ConnectingOK, HookOK
  <2> QED BY <2>1, <2>2
<1>10. SendOK'
  <2> SUFFICES ASSUME NEW c \in Calls, stage[c] = "send" PROVE EntryOrFails(c)'
    BY <1>1 DEF SendOK, callVars
  <2>1. /\ awaits'[c] = awaits[c] /\ awaits[c] # NONE /\ awaits[c] \in Runs
        /\ runPromise[awaits[c]] = "pending"
    BY <1>1, <1>5, NoneIsNoRun DEF callVars
  <2>2. CASE awaits[c] = r
    BY <1>3, <2>1, <2>2 DEF EntryOrFails
  <2>3. CASE awaits[c] # r
    BY <1>2, <1>5, <1>7, <2>1, <2>3 DEF EntryOrFails, WillFail
  <2> QED BY <2>2, <2>3
<1> QED BY <1>4, <1>6, <1>9, <1>10 DEF RunInv, RunsOK

LEMMA EventRuns ==
    ASSUME TypeOK, CallInv, OnlyCurrentLive, LifeOK, RunInv, Event, ~forgotten'
    PROVE  RunInv'
<1>1. ASSUME NEW c \in Calls, StartCall(c) PROVE RunInv'
  <2>1. WaitReady(c, "rpc") /\ "rpc" \in Phases /\ stage[c] \in Earlier("rpc")
    BY <1>1 DEF StartCall, BeginCall, Phases, Earlier
  <2>2. \A d \in Calls \ {c} : reqPromise'[d] = reqPromise[d] /\ outcome'[d] = outcome[d]
    BY <1>1 DEF StartCall, BeginCall, TypeOK
  <2> QED BY <1>1, <2>1, <2>2, WaitReadyRuns DEF StartCall, BeginCall
<1>2. ASSUME NEW c \in Calls, CallTimeout(c) \/ Execute(c) PROVE RunInv'
  <2>1. \A d \in Calls : stage'[d] = stage[d] /\ (Doomed(d) => Doomed(d)')
    BY <1>2 DEF CallTimeout, Execute, Doomed, callVars, TypeOK
  <2> QED BY <1>2, <2>1, CallLeavesRuns DEF CallTimeout, Execute, connVars, runVars, callVars
<1>3. ASSUME NEW c \in Calls, ReceiveAnswer(c) PROVE RunInv'
  <2>1. /\ stage[c] \notin Phases
        /\ \A d \in Calls : /\ Doomed(d) => Doomed(d)'
                            /\ d # c /\ HasEntry(d) => HasEntry(d)'
        /\ UNCHANGED <<connVars, runVars, stage, awaits>>
    BY <1>3 DEF ReceiveAnswer, CallInv, NotExecutedYet, Doomed, HasEntry, Replies, TypeOK
  <2>2. \A q \in Runs : hookCall[q] # NONE => hookCall[q] \in Calls
    BY DEF TypeOK
  <2>3. ConnectingInCharge' /\ SkipsPass'
    BY <2>1 DEF RunInv, ConnectingInCharge, InCharge, SkipsPass, IsOpen, Resolved, connVars,
       runVars
  <2>4. RunsOK'
    BY <2>1, <2>2 DEF RunInv, RunsOK, BackoffOK, ConnectingOK, HookOK, InCharge, IsOpen,
       IsDown, connVars, runVars
  <2>5. ASSUME NEW q \in Runs, WillFail(q) PROVE WillFail(q)'
    BY <2>1, <2>2, <2>5 DEF WillFail, IsDown, connVars, runVars
  <2>6. SendOK'
    <3> SUFFICES ASSUME NEW d \in Calls, stage[d] = "send" PROVE EntryOrFails(d)'
      BY <2>1 DEF SendOK
    <3>1. d # c /\ awaits'[d] = awaits[d] /\ awaits[d] \in Runs \union {NONE}
      BY <2>1 DEF Phases, TypeOK
    <3> QED BY <2>1, <2>5, <3>1 DEF RunInv, SendOK, EntryOrFails, Resolved, connVars, runVars
  <2> QED BY <2>3, <2>4, <2>6 DEF RunInv
<1>4. ASSUME NEW c \in Calls, ReceiveUnmatchedAnswer(c) PROVE RunInv'
  <2>1. SocketsGoDown
    BY <1>4 DEF ReceiveUnmatchedAnswer, SocketsGoDown, runVars, callVars, TypeOK
  <2> QED BY <1>4, <2>1, SocketsGoDownRuns DEF ReceiveUnmatchedAnswer, runVars, callVars
<1>5. ASSUME NEW r \in Runs, BackoffDone(r) \/ FailingDone(r) PROVE RunInv'
  BY <1>5, BackoffDoneRuns, FailingDoneRuns
<1>6. ASSUME NEW r \in Runs, ConnectTimeout(r) PROVE RunInv'
  <2>1. runSocket[r] \in Sockets /\ runSocket[r] # NONE
    BY <1>6 DEF ConnectTimeout, TypeOK
  <2>2. CloseSocket(runSocket[r]) /\ UNCHANGED <<webSocket, runSocket>>
    BY <1>6 DEF ConnectTimeout
  <2>3. \A q \in Runs : \/ runPromise'[q] = runPromise[q]
                        \/ q = r /\ runPromise'[q] = "rejected"
    BY <1>6 DEF ConnectTimeout, Reject, TypeOK
  <2>4. IsDown(runSocket[r])'
    BY <2>1, <2>2, CloseSocketGoesDown DEF IsDown
  <2>5. SocketsGoDown
    BY <1>6, <2>1, <2>2, <2>3, <2>4, CloseSocketGoesDown DEF SocketsGoDown, ConnectTimeout
  <2> QED BY <1>6, <2>5, SocketsGoDownRuns DEF ConnectTimeout
<1>7. ASSUME NEW s \in Sockets, SocketError(s) \/ SocketClosed(s) PROVE RunInv'
  <2>1. SocketsGoDown
    BY <1>7, ConstantsOK DEF SocketError, SocketClosed, SocketsGoDown, OnSocketLost,
       RejectAllPromises, runVars, IsDown, TypeOK
  <2> QED BY <1>7, <2>1, SocketsGoDownRuns DEF SocketError, SocketClosed, runVars
<1>8. ASSUME NEW s \in Sockets, SocketClosing(s) PROVE RunInv'
  <2>1. SocketsGoDown
    BY <1>8 DEF SocketClosing, SocketsGoDown, runVars, callVars, TypeOK
  <2> QED BY <1>8, <2>1, SocketsGoDownRuns DEF SocketClosing, runVars, callVars
<1>9. ASSUME NEW s \in Sockets, SocketOpened(s) PROVE RunInv'
  <2>1. /\ \A t \in Sockets : readyState'[t] = IF t = s THEN "OPEN" ELSE readyState[t]
        /\ readyState[s] = "CONNECTING" /\ ~MicrotaskReady
        /\ UNCHANGED <<bAutoReconnect, webSocket, waitReadyPromise, runVars, callVars>>
    BY <1>9 DEF SocketOpened, TypeOK
  <2>2. webSocket \in Sockets \union {NONE}
        /\ \A q \in Runs : /\ hookCall[q] # NONE => hookCall[q] \in Calls
                           /\ runSocket[q] \in Sockets \union {NONE}
    BY DEF TypeOK
  <2>3. ConnectingInCharge'
    BY <2>1, <2>2 DEF RunInv, ConnectingInCharge, InCharge, runVars
  <2>4. \A t \in Sockets \union {NONE} : IsDown(t) => IsDown(t)'
    BY <2>1, ConstantsOK DEF IsDown
  <2>5. IsOpen(webSocket) => IsOpen(webSocket)'
    BY <2>1, <2>2 DEF IsOpen
  <2>6. \A d \in Calls : Doomed(d) <=> Doomed(d)'
    BY <2>1 DEF Doomed, callVars
  <2>7. SkipsPass'
    BY <2>1, <2>5 DEF RunInv, SkipsPass, Resolved, runVars, callVars, Skips
  <2>8. ASSUME NEW q \in Runs PROVE (BackoffOK(q) /\ ConnectingOK(q) /\ HookOK(q))'
    <3>1. IsDown(runSocket[q]) => IsDown(runSocket[q])'
      BY <2>1, <2>2, <2>4 DEF runVars, IsDown
    <3> QED BY <2>1, <2>2, <2>5, <2>6, <3>1 DEF RunInv, RunsOK, BackoffOK, ConnectingOK,
            HookOK, InCharge, runVars
  <2>9. SendOK'
    <3> SUFFICES ASSUME NEW c \in Calls, stage[c] = "send" PROVE EntryOrFails(c)'
      BY <2>1 DEF SendOK, callVars
    <3>1. /\ awaits[c] \in Runs /\ awaits[c] # NONE /\ runPromise[awaits[c]] = "pending"
          /\ \/ runPc[awaits[c]] = "failing"
             \/ runPc[awaits[c]] = "hook" /\ HasEntry(c)
      BY <2>1, AwaitedNow, NoneIsNoRun
    <3> QED BY <2>1, <3>1 DEF EntryOrFails, WillFail, HasEntry, runVars, callVars
  <2> QED BY <2>3, <2>7, <2>8, <2>9 DEF RunInv, RunsOK
<1>10. CASE Dispose
  <2>1. SocketsGoDown
    <3>1. /\ bAutoReconnect' = FALSE /\ UNCHANGED <<webSocket, runVars>>
          /\ webSocket \in Sockets \union {NONE}
      BY <1>10 DEF Dispose, TypeOK
    <3>2. CASE webSocket = NONE
      BY <1>10, <3>1, <3>2 DEF Dispose, SocketsGoDown, runVars
    <3>3. CASE webSocket # NONE
      BY <1>10, <3>1, <3>3, CloseSocketGoesDown DEF Dispose, SocketsGoDown, runVars
    <3> QED BY <3>2, <3>3
  <2> QED BY <1>10, <2>1, SocketsGoDownRuns DEF Dispose, runVars
<1> QED BY <1>1, <1>2, <1>3, <1>4, <1>5, <1>6, <1>7, <1>8, <1>9, <1>10 DEF Event

(* The invariant of the runs, which the theorems below stand on. *)
LEMMA CallInvHolds == Spec => []CallInv
<1>1. Init => CallInv
  BY DEF Init, CallInv, BegunHasPromise, NotExecutedYet, AnswersAreEarned,
         AwaitedHasEntry, Phases, Replies
<1>2. TypeOK /\ CallInv /\ [Next]_vars => CallInv'
  <2> SUFFICES ASSUME TypeOK, CallInv, [Next]_vars PROVE CallInv'
    OBVIOUS
  <2>1. CASE UNCHANGED vars
    BY <2>1, StutterRefines DEF vars, callVars, wireVars
  <2> QED BY <2>1, ContinuationRefines, EventRefines DEF Next
<1> QED BY <1>1, <1>2, TypeCorrect, PTL DEF Spec

LEMMA LifeHolds == Spec => []LifeOK
<1>1. Init => LifeOK
  BY DEF Init, LifeOK, RunsStartFresh, RunsEndSettled, HookAwaitsBegun
<1>2. TypeOK /\ CallInv /\ LifeOK /\ [Next]_vars => LifeOK'
  <2> SUFFICES ASSUME TypeOK, CallInv, LifeOK, [Next]_vars PROVE LifeOK'
    OBVIOUS
  <2>1. CASE UNCHANGED vars
    BY <2>1, LifeStep, RunsStay, CallsStay DEF vars, connVars, runVars, callVars
  <2> QED BY <2>1, ContinuationLife, EventLife DEF Next
<1> QED BY <1>1, <1>2, TypeCorrect, CallInvHolds, PTL DEF Spec

(* That a promise was dropped stays so. *)
LEMMA ForgottenStays ==
    ASSUME TypeOK, [Next]_vars, ~forgotten'
    PROVE  ~forgotten
BY DEF vars, connVars, Next, Continuation, Event, EnterMakeRequest, RegisterRequest,
   SendRequest, FailCall, FinishCall, RunOpened, RunNotOpened, CallHook, HookReturns,
   HookThrows, HookResolved, HookRejected, StartCall, CallTimeout, Execute, ReceiveAnswer,
   ReceiveUnmatchedAnswer, BackoffDone, FailingDone, ConnectTimeout, SocketOpened,
   SocketError, SocketClosing, SocketClosed, Dispose

LEMMA RunInvHolds == Spec => [](~forgotten => RunInv)
<1>1. Init => RunInv
  <2> SUFFICES ASSUME Init PROVE RunInv
    OBVIOUS
  <2>1. /\ \A q \in Runs : runPc[q] = "idle"
        /\ \A c \in Calls : stage[c] = "idle"
        /\ bAutoReconnect \in BOOLEAN
        /\ bAutoReconnect => webSocket = NONE
    BY ConstantsOK DEF Init
  <2>2. ConnectingInCharge
    BY <2>1 DEF ConnectingInCharge
  <2>3. SkipsPass /\ RunsOK /\ SendOK
    BY <2>1, ConstantsOK DEF SkipsPass, RunsOK, BackoffOK, ConnectingOK, HookOK, SendOK, Phases
  <2> QED BY <2>2, <2>3 DEF RunInv
<1>2. ASSUME TypeOK, CallInv, OnlyCurrentLive, LifeOK, ~forgotten => RunInv, [Next]_vars
      PROVE  ~forgotten' => RunInv'
  <2> SUFFICES ASSUME ~forgotten' PROVE RunInv'
    OBVIOUS
  <2>1. ~forgotten
    BY <1>2, ForgottenStays
  <2>2. CASE UNCHANGED vars
    <3>1. \A d \in Calls : Doomed(d) => Doomed(d)'
      BY <2>2 DEF vars, callVars, Doomed
    <3> QED BY <1>2, <2>1, <2>2, <3>1, CallLeavesRuns DEF vars, callVars
  <2> QED BY <1>2, <2>1, <2>2, ContinuationRuns, EventRuns DEF Next
<1> QED BY <1>1, <1>2, TypeCorrect, CallInvHolds, AtMostOneConnection, LifeHolds, PTL DEF Spec

-----------------------------------------------------------------------------
(* The login.  A call that goes on with send() has awaited a run that      *)
(* resolved after its hook had logged in on the socket there is now.       *)

(* The login call of a hook, on this._webSocket. *)
LoginUnderWay(l) ==
    \/ stage[l] \in Phases
    \/ /\ stage[l] = "answer" /\ reqPromise[l] = "pending" /\ sentOn[l] = webSocket
       /\ wire[l] = "result" => webSocket \in loggedIn
    \/ /\ reqPromise[l] = "result" /\ stage[l] \in {"answer", "settled"}
       /\ webSocket \in loggedIn

HookLogsIn ==
    \A r \in Runs :
      runPc[r] = "hook" /\ hookCall[r] # NONE /\ InCharge(r)
        => Doomed(hookCall[r]) \/ LoginUnderWay(hookCall[r])

AwaitsARun == bAutoReconnect => \A c \in Calls \ SkipCalls : stage[c] \in Phases => awaits[c] # NONE

(* A call that comes now to an await of waitReady() may rely on the login. *)
ReadyIsLoggedIn ==
    bAutoReconnect /\ IsOpen(webSocket) /\ waitReadyPromise # NONE /\ Resolved(waitReadyPromise)
      => webSocket \in loggedIn

(* So may one that has come to it. *)
SenderIsLoggedIn ==
    bAutoReconnect /\ IsOpen(webSocket) =>
      \A c \in Calls \ SkipCalls :
        stage[c] = "send" /\ Resolved(awaits[c]) => webSocket \in loggedIn

ResolvedIsOver == \A c \in Calls : outcome[c] = "resolved" => stage[c] = "settled"

LoginInv ==
    HookLogsIn /\ AwaitsARun /\ ReadyIsLoggedIn /\ SenderIsLoggedIn /\ ResolvedIsOver

LEMMA WaitReadyLogin ==
    ASSUME TypeOK, CallInv, LifeOK, RunInv, LoginInv, HasOnConnected,
           NEW c \in Calls \ SkipCalls, NEW phase \in Phases, WaitReady(c, phase),
           stage[c] \in Earlier(phase),
           UNCHANGED <<bAutoReconnect, hookCall, sentOn, wire>>,
           \A d \in Calls \ {c} : reqPromise'[d] = reqPromise[d] /\ outcome'[d] = outcome[d],
           outcome'[c] = outcome[c] \/ outcome'[c] = "pending"
    PROVE  LoginInv'
<1> DEFINE r == <<c, phase>>
<1>0. /\ r \in Runs /\ stage' = [stage EXCEPT ![c] = phase]
      /\ runPc[r] = "idle" /\ runPromise[r] = "pending"
      /\ hookCall[r] = NONE /\ ~Skips(r) /\ r # NONE
  BY WaitReadyCases, NoneIsNoRun DEF LifeOK, RunsStartFresh, Runs, Skips
<1>1. /\ \A d \in Calls \ {c} : stage'[d] = stage[d]
      /\ stage'[c] = phase
      /\ \A q \in Runs : hookCall[q] # NONE => hookCall[q] \in SkipCalls
      /\ \A d \in SkipCalls : d \in Calls /\ d # c
  BY <1>0, ConstantsOK DEF TypeOK, LifeOK, HookAwaitsBegun
<1>2. ResolvedIsOver'
  BY <1>0, <1>1 DEF LoginInv, ResolvedIsOver, Earlier
<1>3. CASE Joins(c)
  <2>1. /\ UNCHANGED <<webSocket, waitReadyPromise, readyState, loggedIn, runPc, runPromise,
                       runSocket>>
        /\ \A d \in Calls \ {c} : awaits'[d] = awaits[d]
        /\ bAutoReconnect => awaits'[c] = waitReadyPromise /\ waitReadyPromise # NONE
    BY <1>3 DEF Joins, JoinsRun, TypeOK
  <2>2. HookLogsIn'
    BY <1>1, <2>1 DEF LoginInv, HookLogsIn, LoginUnderWay, Doomed, InCharge
  <2>3. AwaitsARun'
    BY <1>1, <2>1 DEF LoginInv, AwaitsARun
  <2>4. ReadyIsLoggedIn'
    BY <2>1 DEF LoginInv, ReadyIsLoggedIn, IsOpen, Resolved
  <2>5. SenderIsLoggedIn'
    BY <1>1, <2>1 DEF LoginInv, ReadyIsLoggedIn, SenderIsLoggedIn, IsOpen, Resolved
  <2> QED BY <1>2, <2>2, <2>3, <2>4, <2>5 DEF LoginInv
<1>4. CASE Starts(c, r)
  <2>1. /\ waitReadyPromise' = r
        /\ \A q \in Runs : ~InCharge(q)
        /\ \A d \in Calls \ {c} : awaits'[d] = awaits[d]
        /\ awaits'[c] = r
    BY <1>4, NoneInCharge DEF Starts, TypeOK
  <2>2. \A q \in Runs \ {r} : runPc'[q] = runPc[q] /\ runPromise'[q] = runPromise[q]
    BY <1>0, <1>4, WaitReadyTouchesOne, <2>1, NoneInCharge DEF Starts
  <2>3. HookLogsIn'
    BY <1>0, <2>1 DEF HookLogsIn, InCharge
  <2>4. AwaitsARun'
    BY <1>0, <1>1, <2>1 DEF LoginInv, AwaitsARun
  <2>5. CASE Passes(r)
    <3>1. /\ UNCHANGED <<webSocket, readyState, loggedIn>> /\ runPromise'[r] = "pending"
      BY <1>0, <2>5 DEF Passes, PassConnected
    <3>2. ReadyIsLoggedIn'
      BY <1>0, <2>1, <3>1 DEF ReadyIsLoggedIn, Resolved
    <3>3. \A d \in Calls : awaits[d] \in Runs \union {NONE}
      BY DEF TypeOK
    <3>4. SenderIsLoggedIn'
      BY <1>0, <1>1, <2>1, <2>2, <3>1, <3>3
         DEF LoginInv, SenderIsLoggedIn, IsOpen, Resolved
    <3> QED BY <1>2, <2>3, <2>4, <3>2, <3>4 DEF LoginInv
  <2>6. CASE Sleeps(r) \/ Connects(r)
    <3>1. ~IsOpen(webSocket)'
      BY <2>6, ConstantsOK DEF Sleeps, Connects, Connect, FreeSockets, IsOpen, TypeOK
    <3> QED BY <1>2, <2>3, <2>4, <3>1 DEF LoginInv, ReadyIsLoggedIn, SenderIsLoggedIn
  <2> QED BY <1>4, <2>5, <2>6, WaitReadyCases DEF Starts, Joins
<1> QED BY <1>3, <1>4, WaitReadyCases

LEMMA WaitReadySkipsLogin ==
    ASSUME TypeOK, CallInv, LifeOK, RunInv, LoginInv,
           NEW c \in SkipCalls, NEW phase \in Phases, WaitReady(c, phase),
           stage[c] \in Earlier(phase), IsOpen(webSocket),
           UNCHANGED <<bAutoReconnect, sentOn, wire>>,
           \A q \in Runs : hookCall'[q] = hookCall[q] \/ hookCall'[q] = c,
           \A d \in Calls \ {c} : reqPromise'[d] = reqPromise[d] /\ outcome'[d] = outcome[d],
           outcome'[c] = outcome[c] \/ outcome'[c] = "pending"
    PROVE  LoginInv'
<1> DEFINE r == <<c, phase>>
<1>0. /\ c \in Calls
      /\ r \in Runs /\ stage' = [stage EXCEPT ![c] = phase]
      /\ runPc[r] = "idle" /\ runPromise[r] = "pending"
      /\ Skips(r) /\ r # NONE
  BY ConstantsOK, WaitReadyCases, NoneIsNoRun DEF LifeOK, RunsStartFresh, Runs, Skips
<1>1. /\ \A d \in Calls \ {c} : stage'[d] = stage[d]
      /\ stage'[c] = phase
      /\ \A q \in Runs : hookCall[q] # NONE => hookCall[q] \in Calls
  BY <1>0 DEF TypeOK
<1>2. /\ UNCHANGED <<webSocket, waitReadyPromise, readyState, loggedIn>>
      /\ \A q \in Runs \ {r} : runPc'[q] = runPc[q] /\ runPromise'[q] = runPromise[q]
      /\ runPc'[r] # "hook"
      /\ \A d \in Calls \ {c} : awaits'[d] = awaits[d]
  <2>1. CASE Joins(c)
    BY <1>0, <2>1 DEF Joins, TypeOK
  <2>2. CASE Starts(c, r) /\ Passes(r)
    BY <1>0, <2>2 DEF Starts, Passes, PassConnected, Resolve, TypeOK
  <2>3. webSocket # NONE /\ ~IsDown(webSocket)
    BY DEF IsOpen, IsDown
  <2> QED BY <2>1, <2>2, <2>3, WaitReadyCases, <1>0 DEF Sleeps, Connects
<1>3. ResolvedIsOver'
  BY <1>0, <1>1 DEF LoginInv, ResolvedIsOver, Earlier
<1>4. waitReadyPromise # r /\ waitReadyPromise \in Runs \union {NONE}
  BY <1>0 DEF LifeOK, RunsEndSettled, TypeOK
<1>5. HookLogsIn'
  <2> SUFFICES ASSUME NEW q \in Runs, runPc'[q] = "hook", hookCall'[q] # NONE, InCharge(q)'
               PROVE  (Doomed(hookCall[q]) \/ LoginUnderWay(hookCall[q]))'
    BY DEF HookLogsIn
  <2>1. runPc[q] = "hook" /\ InCharge(q)
    BY <1>0, <1>2 DEF InCharge
  <2>2. CASE hookCall'[q] = c
    BY <1>1, <2>2 DEF LoginUnderWay
  <2>3. CASE hookCall'[q] # c
    BY <1>1, <1>2, <2>1, <2>3 DEF LoginInv, HookLogsIn, Doomed, LoginUnderWay
  <2> QED BY <2>2, <2>3
<1>6. AwaitsARun'
  BY <1>1, <1>2 DEF LoginInv, AwaitsARun
<1>7. ReadyIsLoggedIn'
  BY <1>2, <1>4 DEF LoginInv, ReadyIsLoggedIn, IsOpen, Resolved
<1>8. SenderIsLoggedIn'
  <2> SUFFICES ASSUME bAutoReconnect, IsOpen(webSocket), NEW d \in Calls \ SkipCalls,
                      stage'[d] = "send", Resolved(awaits[d])'
               PROVE  webSocket \in loggedIn
    BY <1>2 DEF SenderIsLoggedIn, IsOpen
  <2>1. d # c /\ stage[d] = "send" /\ awaits'[d] = awaits[d] /\ awaits[d] \in Runs \union {NONE}
    BY <1>1, <1>2 DEF TypeOK
  <2>2. awaits[d] # r
    BY <1>0, <2>1 DEF RunInv, SendOK, EntryOrFails, Resolved, WillFail
  <2> QED BY <1>2, <2>1, <2>2 DEF LoginInv, SenderIsLoggedIn, Resolved
<1> QED BY <1>3, <1>5, <1>6, <1>7, <1>8 DEF LoginInv

(* A step of one call, or of the server: a login goes on or fails. *)
LoginsGoOn ==
    /\ loggedIn \subseteq loggedIn'
    /\ \A d \in Calls :
         /\ stage'[d] = stage[d] \/ stage'[d] \in {"answer", "settled"}
         /\ outcome'[d] = "resolved" => stage'[d] = "settled"
    /\ \A l \in SkipCalls : Doomed(l) \/ LoginUnderWay(l) => (Doomed(l) \/ LoginUnderWay(l))'

LEMMA CallStepLogin ==
    ASSUME TypeOK, LifeOK, LoginInv, LoginsGoOn,
           UNCHANGED <<bAutoReconnect, webSocket, waitReadyPromise, readyState, runVars, awaits>>
    PROVE  LoginInv'
<1>1. HookLogsIn'
  BY DEF LoginInv, HookLogsIn, LoginsGoOn, InCharge, LifeOK, HookAwaitsBegun, runVars
<1>2. AwaitsARun' /\ ResolvedIsOver'
  BY DEF LoginInv, AwaitsARun, ResolvedIsOver, LoginsGoOn, Phases
<1>3. ReadyIsLoggedIn' /\ SenderIsLoggedIn'
  BY DEF LoginInv, ReadyIsLoggedIn, SenderIsLoggedIn, LoginsGoOn, IsOpen, Resolved, runVars
<1> QED BY <1>1, <1>2, <1>3 DEF LoginInv

(* A step of one run: it resolves its promise only when the login is done. *)
LEMMA RunStepLogin ==
    ASSUME TypeOK, LifeOK, LoginInv, NEW r \in Runs,
           UNCHANGED <<connVars, hookCall, callVars, sentOn, wire>>, loggedIn \subseteq loggedIn',
           \A q \in Runs \ {r} : runPc'[q] = runPc[q] /\ runPromise'[q] = runPromise[q],
           runPc'[r] = "hook" => hookCall[r] = NONE,
           \/ runPromise'[r] = runPromise[r]
           \/ runPromise'[r] = "resolved" /\ (webSocket # NONE => webSocket \in loggedIn')
    PROVE  LoginInv'
<1>1. HookLogsIn'
  <2> SUFFICES ASSUME NEW q \in Runs, runPc'[q] = "hook", hookCall[q] # NONE, InCharge(q)'
               PROVE  (Doomed(hookCall[q]) \/ LoginUnderWay(hookCall[q]))'
    BY DEF HookLogsIn
  <2>1. q # r /\ runPc[q] = "hook" /\ InCharge(q)
    BY DEF InCharge, connVars
  <2> QED BY <2>1 DEF LoginInv, HookLogsIn, Doomed, LoginUnderWay, connVars, callVars
<1>2. AwaitsARun' /\ ResolvedIsOver'
  BY DEF LoginInv, AwaitsARun, ResolvedIsOver, connVars, callVars
<1>3. waitReadyPromise \in Runs \union {NONE} /\ \A c \in Calls : awaits[c] \in Runs \union {NONE}
  BY DEF TypeOK
<1>4. ReadyIsLoggedIn'
  BY <1>3 DEF LoginInv, ReadyIsLoggedIn, IsOpen, Resolved, connVars
<1>5. SenderIsLoggedIn'
  BY <1>3 DEF LoginInv, SenderIsLoggedIn, IsOpen, Resolved, connVars, callVars
<1> QED BY <1>1, <1>2, <1>4, <1>5 DEF LoginInv

LEMMA ContinuationLogin ==
    ASSUME TypeOK, CallInv, LifeOK, RunInv, LoginInv, Continuation, HasOnConnected,
           SkipCalls \cap Notifications = {}
    PROVE  LoginInv'
<1>1. ASSUME NEW c \in Calls, EnterMakeRequest(c) PROVE LoginInv'
  <2>1. WaitReady(c, "check") /\ "check" \in Phases /\ stage[c] \in Earlier("check")
    BY <1>1 DEF EnterMakeRequest, Phases, Earlier
  <2>2. CASE c \in SkipCalls
    <3>1. IsOpen(webSocket)
      BY <1>1, <2>2 DEF EnterMakeRequest, RunInv, SkipsPass, Phases
    <3> QED BY <1>1, <2>1, <2>2, <3>1, WaitReadySkipsLogin DEF EnterMakeRequest
  <2>3. CASE c \notin SkipCalls
    BY <1>1, <2>1, <2>3, WaitReadyLogin DEF EnterMakeRequest
  <2> QED BY <2>2, <2>3
<1>2. ASSUME NEW c \in Calls, RegisterRequest(c) PROVE LoginInv'
  <2>1. WaitReady(c, "send") /\ "send" \in Phases /\ stage[c] \in Earlier("send")
    BY <1>2 DEF RegisterRequest, Phases, Earlier
  <2>2. /\ \A d \in Calls \ {c} : reqPromise'[d] = reqPromise[d] /\ outcome'[d] = outcome[d]
        /\ outcome'[c] = outcome[c] /\ IsOpen(webSocket)
    BY <1>2 DEF RegisterRequest, TypeOK
  <2>3. CASE c \in SkipCalls
    BY <1>2, <2>1, <2>2, <2>3, WaitReadySkipsLogin DEF RegisterRequest
  <2>4. CASE c \notin SkipCalls
    BY <1>2, <2>1, <2>2, <2>4, WaitReadyLogin DEF RegisterRequest
  <2> QED BY <2>3, <2>4
<1>3. ASSUME NEW c \in Calls, SendRequest(c) PROVE LoginInv'
  <2>1. /\ \A d \in Calls \ {c} : /\ stage'[d] = stage[d] /\ sentOn'[d] = sentOn[d]
                                  /\ wire'[d] = wire[d]
        /\ stage[c] = "send" /\ stage'[c] = "answer" /\ Resolved(awaits[c])
        /\ sentOn'[c] = webSocket /\ wire'[c] = "request"
        /\ UNCHANGED <<webSocket, reqPromise, outcome, loggedIn>>
    BY <1>3 DEF SendRequest, connVars, TypeOK
  <2>2. HasEntry(c)
    BY <2>1 DEF RunInv, SendOK, EntryOrFails, Resolved
  <2>3. ASSUME NEW l \in SkipCalls, Doomed(l) \/ LoginUnderWay(l)
        PROVE  (Doomed(l) \/ LoginUnderWay(l))'
    <3>1. l \in Calls
      BY ConstantsOK
    <3>2. CASE l # c
      BY <2>1, <2>3, <3>1, <3>2 DEF Doomed, LoginUnderWay
    <3>3. CASE l = c
      BY <2>1, <2>2, <3>3 DEF HasEntry, LoginUnderWay
    <3> QED BY <3>2, <3>3
  <2>4. LoginsGoOn
    BY <2>1, <2>3 DEF LoginsGoOn, LoginInv, ResolvedIsOver
  <2> QED BY <1>3, <2>4, CallStepLogin DEF SendRequest, connVars, runVars
<1>4. ASSUME NEW c \in Calls, FailCall(c) PROVE LoginInv'
  <2>1. /\ \A d \in Calls \ {c} : stage'[d] = stage[d] /\ outcome'[d] = outcome[d]
        /\ stage'[c] = "settled" /\ outcome'[c] # "idle"
        /\ UNCHANGED <<webSocket, reqPromise, sentOn, wire, loggedIn>>
        /\ c \notin SkipCalls
    BY <1>4 DEF FailCall, SettleCall, RunInv, SkipsPass, connVars, wireVars, TypeOK,
       Phases, CallInv, BegunHasPromise
  <2>2. \A l \in SkipCalls : l \in Calls /\ l # c
    BY <2>1, ConstantsOK
  <2>3. LoginsGoOn
    BY <2>1, <2>2 DEF LoginsGoOn, LoginInv, ResolvedIsOver, Doomed, LoginUnderWay
  <2> QED BY <1>4, <2>3, CallStepLogin DEF FailCall, connVars, runVars
<1>5. ASSUME NEW c \in Calls, FinishCall(c) PROVE LoginInv'
  <2>1. /\ \A d \in Calls \ {c} : stage'[d] = stage[d] /\ outcome'[d] = outcome[d]
        /\ stage[c] = "answer" /\ stage'[c] = "settled" /\ reqPromise[c] # "pending"
        /\ outcome[c] = "rejected" => outcome'[c] = "rejected"
        /\ outcome[c] = "pending" /\ reqPromise[c] \in {"rejected", "error"}
             => outcome'[c] = "rejected"
        /\ UNCHANGED <<webSocket, reqPromise, sentOn, wire, loggedIn>>
    BY <1>5 DEF FinishCall, SettleCall, connVars, wireVars, TypeOK
  <2>2. \A l \in SkipCalls : l \in Calls
    BY ConstantsOK
  <2>3. ASSUME NEW l \in SkipCalls, Doomed(l) \/ LoginUnderWay(l)
        PROVE  (Doomed(l) \/ LoginUnderWay(l))'
    <3>1. CASE l # c
      BY <2>1, <2>2, <2>3, <3>1 DEF Doomed, LoginUnderWay
    <3>2. CASE l = c
      BY <2>1, <2>3, <3>2 DEF Doomed, LoginUnderWay, Phases
    <3> QED BY <3>1, <3>2
  <2>4. LoginsGoOn
    BY <2>1, <2>3 DEF LoginsGoOn, LoginInv, ResolvedIsOver
  <2> QED BY <1>5, <2>4, CallStepLogin DEF FinishCall, connVars, runVars
<1>6. ASSUME NEW r \in Runs, CallHook(r) PROVE LoginInv'
  <2>1. PICK c \in IdleSkipCalls : BeginCall(c) /\ hookCall' = [hookCall EXCEPT ![r] = c]
    BY <1>6 DEF CallHook
  <2>2. c \in SkipCalls /\ c \in Calls /\ stage[c] = "idle"
    BY ConstantsOK DEF IdleSkipCalls
  <2>3. WaitReady(c, "rpc") /\ "rpc" \in Phases /\ stage[c] \in Earlier("rpc")
    BY <2>1, <2>2 DEF BeginCall, Phases, Earlier
  <2>4. IsOpen(webSocket)
    BY <1>6 DEF CallHook, RunInv, RunsOK, HookOK
  <2>5. \A q \in Runs : hookCall'[q] = hookCall[q] \/ hookCall'[q] = c
    BY <2>1 DEF TypeOK
  <2>6. /\ \A d \in Calls \ {c} : reqPromise'[d] = reqPromise[d] /\ outcome'[d] = outcome[d]
        /\ outcome'[c] = "pending"
        /\ UNCHANGED <<bAutoReconnect, sentOn, wire>>
    BY <1>6, <2>1, <2>2 DEF CallHook, BeginCall, TypeOK
  <2> QED BY <2>2, <2>3, <2>4, <2>5, <2>6, WaitReadySkipsLogin
<1>7. ASSUME NEW r \in Runs, RunOpened(r) PROVE LoginInv'
  <2>1. runPc[r] = "connecting" /\ ~Skips(r) /\ hookCall[r] = NONE
    BY <1>7 DEF RunOpened, RunInv, SkipsPass, LifeOK, RunsStartFresh
  <2>2. runPc' = [runPc EXCEPT ![r] = "hook"] /\ UNCHANGED runPromise
    BY <1>7, <2>1 DEF RunOpened, PassConnected
  <2> QED BY <1>7, <2>1, <2>2, RunStepLogin DEF RunOpened, wireVars, TypeOK
<1>8. ASSUME NEW r \in Runs, RunNotOpened(r) \/ HookThrows(r) \/ HookRejected(r) PROVE LoginInv'
  <2>1. runPc' = [runPc EXCEPT ![r] = "failing"] /\ UNCHANGED runPromise
    BY <1>8 DEF RunNotOpened, HookThrows, HookRejected
  <2>2. /\ \A q \in Runs \ {r} : runPc'[q] = runPc[q]
        /\ runPc'[r] = "failing"
    BY <2>1 DEF TypeOK
  <2> QED BY <1>8, <2>1, <2>2, RunStepLogin
          DEF RunNotOpened, HookThrows, HookRejected, wireVars
<1>9. ASSUME NEW r \in Runs, HookReturns(r) \/ HookResolved(r) PROVE LoginInv'
  <2>1. /\ \A q \in Runs \ {r} : runPc'[q] = runPc[q] /\ runPromise'[q] = runPromise[q]
        /\ runPc'[r] = "done" /\ runPc[r] = "hook"
        /\ runPromise[r] # "pending" => runPromise'[r] = runPromise[r]
        /\ runPromise[r] = "pending" => runPromise'[r] = "resolved"
    BY <1>9 DEF HookReturns, HookResolved, Resolve, TypeOK
  <2>2. ASSUME runPromise[r] = "pending", webSocket # NONE PROVE webSocket \in loggedIn'
    <3>1. CASE HookReturns(r)
      BY <2>2, <3>1 DEF HookReturns
    <3>2. CASE HookResolved(r)
      <4>1. /\ hookCall[r] # NONE /\ hookCall[r] \in Calls /\ outcome[hookCall[r]] = "resolved"
            /\ loggedIn' = loggedIn
        BY <3>2 DEF HookResolved, TypeOK, wireVars
      <4>2. stage[hookCall[r]] = "settled" /\ ~Doomed(hookCall[r])
        BY <4>1 DEF LoginInv, ResolvedIsOver, Doomed
      <4>3. InCharge(r)
        BY <2>1, <2>2, <4>1, <4>2 DEF RunInv, RunsOK, HookOK
      <4>4. LoginUnderWay(hookCall[r])
        BY <2>1, <4>1, <4>2, <4>3 DEF LoginInv, HookLogsIn
      <4> QED BY <4>1, <4>2, <4>4 DEF LoginUnderWay, Phases
    <3> QED BY <1>9, <3>1, <3>2
  <2>3. loggedIn \subseteq loggedIn'
    BY <1>9 DEF HookReturns, HookResolved, wireVars
  <2>4. UNCHANGED <<connVars, hookCall, callVars, sentOn, wire>>
    BY <1>9 DEF HookReturns, HookResolved, wireVars
  <2> QED BY <2>1, <2>2, <2>3, <2>4, RunStepLogin
<1> QED BY <1>1, <1>2, <1>3, <1>4, <1>5, <1>6, <1>7, <1>8, <1>9 DEF Continuation

(* What an event that closes or loses sockets does to the messages. *)
LEMMA SocketsGoDownLogin ==
    ASSUME TypeOK, LifeOK, RunInv, LoginInv, ~MicrotaskReady, SocketsGoDown,
           UNCHANGED <<webSocket, runPc, runSocket, hookCall, stage, awaits, outcome, loggedIn>>,
           \/ \A c \in Calls : reqPromise[c] = "pending" => reqPromise'[c] = "rejected"
           \/ sentOn' = sentOn /\ \A c \in Calls : wire'[c] = wire[c] \/ wire'[c] = "none"
    PROVE  LoginInv'
<1>1. AwaitsARun' /\ ResolvedIsOver'
  BY DEF LoginInv, AwaitsARun, ResolvedIsOver, SocketsGoDown
<1>2. ASSUME IsOpen(webSocket)' PROVE IsOpen(webSocket) /\ waitReadyPromise' = waitReadyPromise
  BY <1>2 DEF IsOpen, IsDown, SocketsGoDown, TypeOK
<1>3. \A q \in Runs \union {NONE} : Resolved(q)' => Resolved(q)
  BY DEF Resolved, SocketsGoDown
<1>4. ReadyIsLoggedIn'
  BY <1>2, <1>3 DEF LoginInv, ReadyIsLoggedIn, SocketsGoDown, TypeOK
<1>5. SenderIsLoggedIn'
  BY <1>2, <1>3 DEF LoginInv, SenderIsLoggedIn, SocketsGoDown, TypeOK
<1>6. HookLogsIn'
  <2> SUFFICES ASSUME NEW q \in Runs, runPc[q] = "hook", hookCall[q] # NONE, InCharge(q)'
               PROVE  (Doomed(hookCall[q]) \/ LoginUnderWay(hookCall[q]))'
    BY DEF HookLogsIn
  <2>1. /\ hookCall[q] \in Calls /\ stage[hookCall[q]] = "answer"
        /\ reqPromise[hookCall[q]] = "pending" /\ outcome[hookCall[q]] = "pending"
    BY AwaitedNow
  <2>2. CASE reqPromise'[hookCall[q]] = "rejected"
    BY <2>1, <2>2 DEF Doomed
  <2>3. CASE reqPromise'[hookCall[q]] # "rejected"
    <3>1. UNCHANGED <<waitReadyPromise, reqPromise>>
      BY <2>1, <2>3 DEF SocketsGoDown
    <3>2. InCharge(q)
      BY <3>1 DEF InCharge, SocketsGoDown
    <3>3. LoginUnderWay(hookCall[q])
      BY <2>1, <3>2 DEF LoginInv, HookLogsIn, Doomed
    <3> QED BY <2>1, <2>3, <3>1, <3>3 DEF LoginUnderWay, Phases
  <2> QED BY <2>2, <2>3
<1> QED BY <1>1, <1>4, <1>5, <1>6 DEF LoginInv

LEMMA EventLogin ==
    ASSUME TypeOK, CallInv, OnlyCurrentLive, LifeOK, RunInv, LoginInv, Event, HasOnConnected,
           SkipCalls \cap Notifications = {}
    PROVE  LoginInv'
<1>1. ASSUME NEW c \in Calls, StartCall(c) PROVE LoginInv'
  <2>1. WaitReady(c, "rpc") /\ "rpc" \in Phases /\ stage[c] \in Earlier("rpc")
    BY <1>1 DEF StartCall, BeginCall, Phases, Earlier
  <2>2. /\ \A d \in Calls \ {c} : reqPromise'[d] = reqPromise[d] /\ outcome'[d] = outcome[d]
        /\ outcome'[c] = "pending"
    BY <1>1 DEF StartCall, BeginCall, TypeOK
  <2> QED BY <1>1, <2>1, <2>2, WaitReadyLogin DEF StartCall
<1>2. ASSUME NEW c \in Calls, CallTimeout(c) PROVE LoginInv'
  <2>1. /\ \A d \in Calls \ {c} : outcome'[d] = outcome[d]
        /\ outcome'[c] = "rejected"
        /\ UNCHANGED <<webSocket, stage, reqPromise, sentOn, wire, loggedIn>>
    BY <1>2 DEF CallTimeout, connVars, wireVars, TypeOK
  <2>2. \A l \in SkipCalls : l \in Calls
    BY ConstantsOK
  <2>3. LoginsGoOn
    BY <2>1, <2>2 DEF LoginsGoOn, LoginInv, ResolvedIsOver, Doomed, LoginUnderWay
  <2> QED BY <1>2, <2>3, CallStepLogin DEF CallTimeout, connVars, runVars
<1>3. ASSUME NEW c \in Calls, Execute(c) PROVE LoginInv'
  <2>1. /\ \A d \in Calls \ {c} : wire'[d] = wire[d]
        /\ c \in SkipCalls /\ sentOn[c] # NONE /\ wire'[c] = "result" => sentOn[c] \in loggedIn'
        /\ sentOn[c] = NONE => wire'[c] # "result"
        /\ loggedIn \subseteq loggedIn'
        /\ UNCHANGED <<webSocket, stage, reqPromise, outcome, sentOn>>
    BY <1>3 DEF Execute, connVars, callVars, TypeOK
  <2>2. ASSUME NEW l \in SkipCalls, Doomed(l) \/ LoginUnderWay(l)
        PROVE  (Doomed(l) \/ LoginUnderWay(l))'
    <3>1. l \in Calls
      BY ConstantsOK
    <3>2. CASE l # c
      BY <2>1, <2>2, <3>1, <3>2 DEF Doomed, LoginUnderWay
    <3>3. CASE l = c
      BY <2>1, <2>2, <3>3 DEF Doomed, LoginUnderWay
    <3> QED BY <3>2, <3>3
  <2>3. LoginsGoOn
    BY <2>1, <2>2 DEF LoginsGoOn, LoginInv, ResolvedIsOver
  <2> QED BY <1>3, <2>3, CallStepLogin DEF Execute, connVars, runVars, callVars
<1>4. ASSUME NEW c \in Calls, ReceiveAnswer(c) PROVE LoginInv'
  <2>1. /\ \A d \in Calls \ {c} : wire'[d] = wire[d] /\ reqPromise'[d] = reqPromise[d]
        /\ wire[c] \in Replies /\ reqPromise'[c] = wire[c] /\ reqPromise[c] = "pending"
        /\ UNCHANGED <<webSocket, stage, outcome, sentOn, loggedIn>>
    BY <1>4 DEF ReceiveAnswer, connVars, TypeOK
  <2>2. stage[c] \in {"answer", "settled"} /\ (stage[c] = "settled" => outcome[c] # "pending")
        /\ outcome[c] # "idle"
    BY <2>1 DEF CallInv, NotExecutedYet, BegunHasPromise, LifeOK, HookAwaitsBegun, TypeOK, Stages,
       Replies, Phases
  <2>3. ASSUME NEW l \in SkipCalls, Doomed(l) \/ LoginUnderWay(l)
        PROVE  (Doomed(l) \/ LoginUnderWay(l))'
    <3>1. l \in Calls
      BY ConstantsOK
    <3>2. CASE l # c
      BY <2>1, <2>3, <3>1, <3>2 DEF Doomed, LoginUnderWay
    <3>3. CASE l = c /\ outcome[c] = "rejected"
      BY <2>1, <3>3 DEF Doomed
    <3>4. CASE l = c /\ outcome[c] # "rejected"
      <4>1. stage[c] = "answer" /\ outcome[c] = "pending"
        BY <2>1, <2>2, <2>3, <3>4
           DEF Doomed, LoginUnderWay, Phases, LoginInv, ResolvedIsOver, TypeOK
      <4> QED BY <2>1, <2>3, <3>4, <4>1 DEF Doomed, LoginUnderWay, Phases, Replies
    <3> QED BY <3>2, <3>3, <3>4
  <2>4. LoginsGoOn
    BY <2>1, <2>3 DEF LoginsGoOn, LoginInv, ResolvedIsOver
  <2> QED BY <1>4, <2>4, CallStepLogin DEF ReceiveAnswer, connVars, runVars
<1>5. ASSUME NEW c \in Calls, ReceiveUnmatchedAnswer(c) PROVE LoginInv'
  <2>1. SocketsGoDown
    BY <1>5 DEF ReceiveUnmatchedAnswer, SocketsGoDown, runVars, callVars, TypeOK
  <2>2. \A d \in Calls : wire'[d] = wire[d] \/ wire'[d] = "none"
    BY <1>5 DEF ReceiveUnmatchedAnswer, TypeOK
  <2> QED BY <1>5, <2>1, <2>2, SocketsGoDownLogin DEF ReceiveUnmatchedAnswer, runVars, callVars
<1>6. ASSUME NEW r \in Runs, BackoffDone(r) PROVE LoginInv'
  <2>1. InCharge(r) /\ webSocket = NONE /\ runPc[r] = "backoff"
    BY <1>6 DEF BackoffDone, RunInv, RunsOK, BackoffOK
  <2>2. PICK s \in FreeSockets : Connect(r, s)
    BY <1>6, <2>1 DEF BackoffDone, ConnectOrPass
  <2>3. ~IsOpen(webSocket)'
    BY <2>2 DEF Connect, FreeSockets, IsOpen, TypeOK
  <2>4. ReadyIsLoggedIn' /\ SenderIsLoggedIn'
    BY <2>3 DEF ReadyIsLoggedIn, SenderIsLoggedIn
  <2>5. HookLogsIn'
    <3> SUFFICES ASSUME NEW q \in Runs, runPc'[q] = "hook", InCharge(q)' PROVE FALSE
      BY DEF HookLogsIn
    <3>1. q = r
      BY <1>6, <2>1 DEF BackoffDone, InCharge
    <3> QED BY <2>2, <3>1 DEF Connect, TypeOK
  <2>6. AwaitsARun' /\ ResolvedIsOver'
    BY <1>6 DEF BackoffDone, LoginInv, AwaitsARun, ResolvedIsOver, callVars
  <2> QED BY <2>4, <2>5, <2>6 DEF LoginInv
<1>7. ASSUME NEW r \in Runs, FailingDone(r) PROVE LoginInv'
  <2>1. /\ waitReadyPromise' = NONE
        /\ UNCHANGED <<bAutoReconnect, webSocket, readyState, callVars, loggedIn>>
    BY <1>7 DEF FailingDone, wireVars
  <2>2. \A q \in Runs \union {NONE} : Resolved(q)' => Resolved(q)
    BY <1>7 DEF FailingDone, Reject, Resolved, TypeOK
  <2>3. HookLogsIn' /\ ReadyIsLoggedIn'
    BY <2>1, NoneIsNoRun DEF HookLogsIn, InCharge, ReadyIsLoggedIn
  <2>4. SenderIsLoggedIn'
    BY <2>1, <2>2 DEF LoginInv, SenderIsLoggedIn, IsOpen, callVars, TypeOK
  <2>5. AwaitsARun' /\ ResolvedIsOver'
    BY <2>1 DEF LoginInv, AwaitsARun, ResolvedIsOver, callVars
  <2> QED BY <2>3, <2>4, <2>5 DEF LoginInv
<1>8. ASSUME NEW r \in Runs, ConnectTimeout(r) PROVE LoginInv'
  <2>1. runSocket[r] \in Sockets /\ runSocket[r] # NONE
    BY <1>8 DEF ConnectTimeout, TypeOK
  <2>2. CloseSocket(runSocket[r]) /\ UNCHANGED <<webSocket, runSocket>>
    BY <1>8 DEF ConnectTimeout
  <2>3. \A q \in Runs : \/ runPromise'[q] = runPromise[q]
                        \/ q = r /\ runPromise'[q] = "rejected"
    BY <1>8 DEF ConnectTimeout, Reject, TypeOK
  <2>4. IsDown(runSocket[r])'
    BY <2>1, <2>2, CloseSocketGoesDown DEF IsDown
  <2>5. SocketsGoDown
    BY <1>8, <2>1, <2>2, <2>3, <2>4, CloseSocketGoesDown DEF SocketsGoDown, ConnectTimeout
  <2> QED BY <1>8, <2>5, SocketsGoDownLogin DEF ConnectTimeout, wireVars
<1>9. ASSUME NEW s \in Sockets, SocketError(s) \/ SocketClosed(s) PROVE LoginInv'
  <2>1. SocketsGoDown
    BY <1>9, ConstantsOK DEF SocketError, SocketClosed, SocketsGoDown, OnSocketLost,
       RejectAllPromises, runVars, IsDown, TypeOK
  <2>2. \A c \in Calls : reqPromise[c] = "pending" => reqPromise'[c] = "rejected"
    BY <1>9 DEF SocketError, SocketClosed, OnSocketLost, RejectAllPromises
  <2> QED BY <1>9, <2>1, <2>2, SocketsGoDownLogin DEF SocketError, SocketClosed, runVars, wireVars
<1>10. ASSUME NEW s \in Sockets, SocketClosing(s) PROVE LoginInv'
  <2>1. SocketsGoDown
    BY <1>10 DEF SocketClosing, SocketsGoDown, runVars, callVars, TypeOK
  <2> QED BY <1>10, <2>1, SocketsGoDownLogin DEF SocketClosing, runVars, callVars, wireVars
<1>11. ASSUME NEW s \in Sockets, SocketOpened(s) PROVE LoginInv'
  <2>1. /\ \A t \in Sockets : readyState'[t] = IF t = s THEN "OPEN" ELSE readyState[t]
        /\ readyState[s] = "CONNECTING" /\ ~MicrotaskReady /\ s = webSocket /\ s # NONE
        /\ UNCHANGED <<bAutoReconnect, webSocket, waitReadyPromise, runVars, callVars, wireVars>>
    BY <1>11, ConstantsOK DEF SocketOpened, OnlyCurrentLive, TypeOK
  <2>2. ReadyIsLoggedIn'
    BY <2>1 DEF RunInv, ConnectingInCharge, InCharge, ReadyIsLoggedIn, Resolved, runVars
  <2>3. SenderIsLoggedIn'
    <3>1. \A c \in Calls : stage[c] = "send" => ~Resolved(awaits[c])
      BY <2>1, AwaitedNow, NoneIsNoRun DEF Resolved
    <3> QED BY <2>1, <3>1 DEF SenderIsLoggedIn, Resolved, runVars, callVars
  <2>4. HookLogsIn'
    BY <2>1 DEF LoginInv, HookLogsIn, InCharge, Doomed, LoginUnderWay, runVars, callVars, wireVars
  <2>5. AwaitsARun' /\ ResolvedIsOver'
    BY <2>1 DEF LoginInv, AwaitsARun, ResolvedIsOver, callVars
  <2> QED BY <2>2, <2>3, <2>4, <2>5 DEF LoginInv
<1>12. CASE Dispose
  <2>1. SocketsGoDown
    <3>1. /\ bAutoReconnect' = FALSE /\ UNCHANGED <<webSocket, runVars>>
          /\ webSocket \in Sockets \union {NONE}
      BY <1>12 DEF Dispose, TypeOK
    <3>2. CASE webSocket = NONE
      BY <1>12, <3>1, <3>2 DEF Dispose, SocketsGoDown, runVars
    <3>3. CASE webSocket # NONE
      BY <1>12, <3>1, <3>3, CloseSocketGoesDown DEF Dispose, SocketsGoDown, runVars
    <3> QED BY <3>2, <3>3
  <2> QED BY <1>12, <2>1, SocketsGoDownLogin DEF Dispose, runVars, wireVars
<1> QED BY <1>1, <1>2, <1>3, <1>4, <1>5, <1>6, <1>7, <1>8, <1>9, <1>10, <1>11, <1>12 DEF Event

LEMMA LoginInvHolds ==
    HasOnConnected /\ SkipCalls \cap Notifications = {} /\ Spec => [](~forgotten => LoginInv)
<1> SUFFICES ASSUME HasOnConnected, SkipCalls \cap Notifications = {}
             PROVE  Spec => [](~forgotten => LoginInv)
  OBVIOUS
<1>1. Init => LoginInv
  BY DEF Init, LoginInv, HookLogsIn, AwaitsARun, ReadyIsLoggedIn, SenderIsLoggedIn,
     ResolvedIsOver, Phases
<1>2. ASSUME TypeOK, CallInv, OnlyCurrentLive, LifeOK, ~forgotten => RunInv,
             ~forgotten => LoginInv, [Next]_vars
      PROVE  ~forgotten' => LoginInv'
  <2> SUFFICES ASSUME ~forgotten' PROVE LoginInv'
    OBVIOUS
  <2>1. RunInv /\ LoginInv
    BY <1>2, ForgottenStays
  <2>2. CASE UNCHANGED vars
    <3>1. LoginsGoOn
      BY <2>1, <2>2, ConstantsOK DEF LoginsGoOn, LoginInv, ResolvedIsOver, Doomed, LoginUnderWay,
         vars, connVars, callVars, wireVars
    <3> QED BY <1>2, <2>1, <2>2, <3>1, CallStepLogin DEF vars, connVars, runVars, callVars
  <2> QED BY <1>2, <2>1, <2>2, ContinuationLogin, EventLogin DEF Next
<1> QED BY <1>1, <1>2, TypeCorrect, CallInvHolds, AtMostOneConnection, LifeHolds, RunInvHolds,
        PTL DEF Spec

(* Nothing goes out before the login, whatever overlaps and however often  *)
(* the connection is lost: a call that does not skip fnWaitReadyOnConnected *)
(* is sent by makeRequest() only on a socket its login was executed on,    *)
(* unless the catch block of a failed waitReady() has dropped the promise  *)
(* of another run.  The hook's own calls must ask for an answer.           *)
THEOREM NothingBeforeLogin ==
    HasOnConnected /\ SkipCalls \cap Notifications = {} /\ Spec => SentAfterLogin
<1> SUFFICES ASSUME HasOnConnected, SkipCalls \cap Notifications = {}
             PROVE  Spec => SentAfterLogin
  OBVIOUS
<1>1. ASSUME TypeOK, CallInv, LifeOK, ~forgotten => RunInv, ~forgotten => LoginInv, [Next]_vars
      PROVE  [~forgotten =>
                \A c \in Calls \ SkipCalls :
                  bAutoReconnect /\ stage[c] = "send" /\ stage'[c] = "answer"
                    => webSocket \in loggedIn]_vars
  <2> SUFFICES ASSUME ~forgotten, NEW c \in Calls \ SkipCalls, bAutoReconnect,
                      stage[c] = "send", stage'[c] = "answer"
               PROVE  webSocket \in loggedIn
    OBVIOUS
  <2>1. SendRequest(c)
    <3>1. ASSUME NEW d \in Calls, SendRequest(d) PROVE d = c
      BY <1>1, <3>1 DEF SendRequest, TypeOK
    <3>2. ASSUME NEW d \in Calls,
                 EnterMakeRequest(d) \/ RegisterRequest(d) \/ FailCall(d) \/ FinishCall(d)
          PROVE  FALSE
      BY <1>1, <3>2 DEF EnterMakeRequest, RegisterRequest, FailCall, FinishCall, SettleCall,
         WaitReady, TypeOK
    <3>3. ASSUME NEW r \in Runs, CallHook(r) PROVE FALSE
      BY <1>1, <3>3 DEF CallHook, BeginCall, WaitReady, TypeOK
    <3>4. ASSUME NEW r \in Runs,
                 \/ RunOpened(r) \/ RunNotOpened(r) \/ HookReturns(r)
                 \/ HookThrows(r) \/ HookResolved(r) \/ HookRejected(r)
          PROVE  FALSE
      BY <3>4 DEF RunOpened, RunNotOpened, HookReturns, HookThrows, HookResolved, HookRejected,
         callVars
    <3>5. CASE Event
      BY <1>1, <3>5 DEF Event, StartCall, BeginCall, WaitReady, CallTimeout, Execute,
         ReceiveAnswer, ReceiveUnmatchedAnswer, BackoffDone, FailingDone, ConnectTimeout,
         SocketOpened, SocketError, SocketClosing, SocketClosed, Dispose, callVars, TypeOK, Phases
    <3>6. CASE UNCHANGED vars
      BY <3>6 DEF vars, callVars
    <3> QED BY <1>1, <3>1, <3>2, <3>3, <3>4, <3>5, <3>6 DEF Next, Continuation
  <2> QED BY <1>1, <2>1 DEF SendRequest, LoginInv, SenderIsLoggedIn
<1> QED BY <1>1, TypeCorrect, CallInvHolds, LifeHolds, RunInvHolds, LoginInvHolds, PTL
        DEF Spec, SentAfterLogin

-----------------------------------------------------------------------------
(* Replaced sockets and the entries of the map.  With PromptClose a socket *)
(* that was replaced is closed before there is another one.                *)

(* Without the hook nobody asks to skip it. *)
NoHookNoSkip ==
    ~HasOnConnected => /\ \A r \in Runs : runPc[r] # "hook"
                       /\ \A c \in SkipCalls : stage[c] = "idle"

(* While a socket put down is still closing, waitReady() has a run that    *)
(* sleeps, and whoever calls it joins that run. *)
SocketInv ==
    /\ webSocket # NONE => ReplacedAreClosed
    /\ webSocket = NONE /\ bAutoReconnect /\ ~ReplacedAreClosed => waitReadyPromise # NONE

(* A request on an open socket has its entry in the map until it is        *)
(* answered. *)
CallMatches(c) ==
    /\ sentOn[c] # NONE => readyState[sentOn[c]] \in {"OPEN", "CLOSING"}
    /\ c \notin Notifications /\ wire[c] # "none" /\ IsOpen(sentOn[c])
         => reqPromise[c] = "pending"
    /\ c \in Notifications => wire[c] \notin Replies

MatchInv == \A c \in Calls : CallMatches(c)

LEMMA NoHookNoSkipHolds == Spec => []NoHookNoSkip
<1>1. Init => NoHookNoSkip
  BY ConstantsOK DEF Init, NoHookNoSkip
<1>2. ASSUME TypeOK, NoHookNoSkip, [Next]_vars PROVE NoHookNoSkip'
  <2> SUFFICES ASSUME ~HasOnConnected
               PROVE  /\ \A r \in Runs : runPc'[r] # "hook"
                      /\ \A c \in SkipCalls : stage'[c] = "idle"
    BY DEF NoHookNoSkip
  <2>0. /\ \A r \in Runs : runPc[r] # "hook"
        /\ \A c \in SkipCalls : c \in Calls /\ stage[c] = "idle"
    BY <1>2, ConstantsOK DEF NoHookNoSkip
  <2>1. ASSUME NEW c \in Calls \ SkipCalls, NEW phase \in Phases, WaitReady(c, phase)
        PROVE  /\ \A r \in Runs : runPc'[r] # "hook"
               /\ \A d \in SkipCalls : stage'[d] = "idle"
    <3>1. stage' = [stage EXCEPT ![c] = phase] /\ <<c, phase>> \in Runs
      BY <2>1, WaitReadyCases
    <3>2. \A d \in SkipCalls : stage'[d] = "idle"
      BY <1>2, <2>0, <3>1 DEF TypeOK
    <3>3. CASE Joins(c)
      BY <2>0, <3>2, <3>3 DEF Joins
    <3>4. CASE \E pc \in {"backoff", "connecting", "done"} :
                 runPc' = [runPc EXCEPT ![<<c, phase>>] = pc]
      BY <1>2, <2>0, <3>2, <3>4 DEF TypeOK
    <3> QED BY <2>1, <3>3, <3>4, WaitReadyCases DEF Sleeps, Connects, Connect, Passes, PassConnected
  <2>2. ASSUME NEW c \in Calls, EnterMakeRequest(c) \/ RegisterRequest(c) \/ StartCall(c)
        PROVE  /\ \A r \in Runs : runPc'[r] # "hook"
               /\ \A d \in SkipCalls : stage'[d] = "idle"
    <3>1. c \notin SkipCalls
      BY <2>0, <2>2 DEF EnterMakeRequest, RegisterRequest, StartCall
    <3> QED BY <2>1, <2>2, <3>1 DEF EnterMakeRequest, RegisterRequest, StartCall, BeginCall, Phases
  <2>3. ASSUME NEW c \in Calls, SendRequest(c) \/ FailCall(c) \/ FinishCall(c)
        PROVE  /\ \A r \in Runs : runPc'[r] # "hook"
               /\ \A d \in SkipCalls : stage'[d] = "idle"
    <3>1. c \notin SkipCalls
      BY <2>0, <2>3 DEF SendRequest, FailCall, FinishCall, Phases
    <3> QED BY <1>2, <2>0, <2>3, <3>1 DEF SendRequest, FailCall, FinishCall, SettleCall, runVars,
            TypeOK
  <2>4. ASSUME NEW r \in Runs, RunOpened(r) \/ RunNotOpened(r) \/ BackoffDone(r) \/ FailingDone(r)
        PROVE  /\ \A q \in Runs : runPc'[q] # "hook"
               /\ \A d \in SkipCalls : stage'[d] = "idle"
    <3>1. \A d \in SkipCalls : stage'[d] = "idle"
      BY <2>0, <2>4 DEF RunOpened, RunNotOpened, BackoffDone, FailingDone, callVars
    <3>2. \E pc \in {"connecting", "failing", "done"} : runPc' = [runPc EXCEPT ![r] = pc]
      BY <2>4 DEF RunOpened, RunNotOpened, BackoffDone, FailingDone, PassConnected,
         ConnectOrPass, Connect
    <3> QED BY <1>2, <2>0, <3>1, <3>2 DEF TypeOK
  <2>5. ASSUME NEW r \in Runs,
               \/ CallHook(r) \/ HookReturns(r) \/ HookThrows(r) \/ HookResolved(r)
               \/ HookRejected(r)
        PROVE  FALSE
    BY <2>0, <2>5 DEF CallHook, HookReturns, HookThrows, HookResolved, HookRejected
  <2>6. ASSUME UNCHANGED <<runPc, stage>>
        PROVE  /\ \A r \in Runs : runPc'[r] # "hook"
               /\ \A d \in SkipCalls : stage'[d] = "idle"
    BY <2>0, <2>6
  <2>7. CASE Continuation
    BY <2>2, <2>3, <2>4, <2>5, <2>7 DEF Continuation
  <2>8. CASE Event
    BY <2>2, <2>4, <2>6, <2>8 DEF Event, CallTimeout, Execute, ReceiveAnswer,
       ReceiveUnmatchedAnswer, ConnectTimeout, SocketOpened, SocketError, SocketClosing,
       SocketClosed, Dispose, runVars, callVars
  <2> QED BY <1>2, <2>6, <2>7, <2>8 DEF Next, vars, runVars, callVars
<1> QED BY <1>1, <1>2, TypeCorrect, PTL DEF Spec

(* What the states of the proof below have: with a hook, the runs are as   *)
(* they should be. *)
HookedRunsOK == /\ NoHookNoSkip
                /\ HasOnConnected => RunInv

(* waitReady() creates a socket only when those it replaced are closed. *)
LEMMA WaitReadySockets ==
    ASSUME TypeOK, SocketInv, NEW c \in Calls, NEW phase \in Phases, WaitReady(c, phase),
           c \in SkipCalls => IsOpen(webSocket), UNCHANGED bAutoReconnect
    PROVE  SocketInv'
<1> DEFINE r == <<c, phase>>
<1>1. CASE Joins(c)
  BY <1>1 DEF Joins, SocketInv, ReplacedAreClosed
<1>2. CASE Starts(c, r) /\ Sleeps(r)
  <2>1. webSocket' = NONE /\ waitReadyPromise' = r /\ r # NONE
    BY <1>2, WaitReadyCases, NoneIsNoRun DEF Starts, Sleeps, IsDown, IsOpen
  <2> QED BY <2>1 DEF SocketInv
<1>3. CASE Starts(c, r) /\ Connects(r)
  <2>1. waitReadyPromise = NONE
    BY <1>3 DEF Starts, Connects, JoinsRun, IsOpen
  <2>2. ReplacedAreClosed
    BY <1>3, <2>1 DEF Starts, Connects, SocketInv
  <2>3. PICK s \in FreeSockets : Connect(r, s)
    BY <1>3 DEF Connects
  <2>4. ReplacedAreClosed' /\ webSocket' # NONE
    BY <1>3, <2>2, <2>3, ConstantsOK DEF Connects, Connect, ReplacedAreClosed, FreeSockets, TypeOK
  <2> QED BY <2>4 DEF SocketInv
<1>4. CASE Starts(c, r) /\ Passes(r)
  BY <1>4 DEF Passes, SocketInv, ReplacedAreClosed
<1> QED BY <1>1, <1>2, <1>3, <1>4, WaitReadyCases

(* Any step that creates no socket. *)
LEMMA SocketsStay ==
    ASSUME SocketInv, webSocket' = webSocket, bAutoReconnect' => bAutoReconnect,
           \A s \in Sockets : readyState[s] = "CLOSED" => readyState'[s] = "CLOSED",
           webSocket = NONE => \/ waitReadyPromise' = waitReadyPromise
                               \/ ReplacedAreClosed
    PROVE  SocketInv'
BY DEF SocketInv, ReplacedAreClosed

LEMMA ContinuationSockets ==
    ASSUME TypeOK, HookedRunsOK, SocketInv, Continuation
    PROVE  SocketInv'
<1>1. ASSUME NEW c \in Calls, EnterMakeRequest(c) PROVE SocketInv'
  <2>1. WaitReady(c, "check") /\ "check" \in Phases
    BY <1>1 DEF EnterMakeRequest, Phases
  <2>2. c \in SkipCalls => IsOpen(webSocket)
    BY <1>1 DEF EnterMakeRequest, HookedRunsOK, NoHookNoSkip, RunInv, SkipsPass, Phases
  <2> QED BY <1>1, <2>1, <2>2, WaitReadySockets DEF EnterMakeRequest
<1>2. ASSUME NEW c \in Calls, RegisterRequest(c) PROVE SocketInv'
  <2>1. WaitReady(c, "send") /\ "send" \in Phases
    BY <1>2 DEF RegisterRequest, Phases
  <2> QED BY <1>2, <2>1, WaitReadySockets DEF RegisterRequest
<1>3. ASSUME NEW c \in Calls, SendRequest(c) \/ FailCall(c) \/ FinishCall(c) PROVE SocketInv'
  BY <1>3, SocketsStay DEF SendRequest, FailCall, FinishCall, connVars
<1>4. ASSUME NEW r \in Runs, CallHook(r) PROVE SocketInv'
  <2>1. PICK c \in IdleSkipCalls : BeginCall(c)
    BY <1>4 DEF CallHook
  <2>2. c \in Calls /\ WaitReady(c, "rpc") /\ "rpc" \in Phases
    BY <2>1, ConstantsOK DEF BeginCall, IdleSkipCalls, Phases
  <2>3. IsOpen(webSocket)
    BY <1>4 DEF CallHook, HookedRunsOK, NoHookNoSkip, RunInv, RunsOK, HookOK
  <2> QED BY <1>4, <2>2, <2>3, WaitReadySockets DEF CallHook
<1>5. ASSUME NEW r \in Runs,
             \/ RunOpened(r) \/ RunNotOpened(r) \/ HookReturns(r)
             \/ HookThrows(r) \/ HookResolved(r) \/ HookRejected(r)
      PROVE  SocketInv'
  BY <1>5, SocketsStay DEF RunOpened, RunNotOpened, HookReturns, HookThrows, HookResolved,
     HookRejected, connVars
<1> QED BY <1>1, <1>2, <1>3, <1>4, <1>5 DEF Continuation

(* close() keeps a closed socket closed. *)
LEMMA CloseSocketSockets ==
    ASSUME TypeOK, SocketInv, NEW s \in Sockets, CloseSocket(s), webSocket' = webSocket,
           bAutoReconnect' => bAutoReconnect
    PROVE  SocketInv'
<1>1. \A t \in Sockets : readyState[t] = "CLOSED" => readyState'[t] = "CLOSED"
  BY DEF CloseSocket, TypeOK
<1>2. webSocket = NONE => waitReadyPromise' = waitReadyPromise
  BY ConstantsOK DEF CloseSocket, OnSocketLost
<1> QED BY <1>1, <1>2, SocketsStay

LEMMA EventSockets ==
    ASSUME TypeOK, SocketInv, Event, PromptClose
    PROVE  SocketInv'
<1>1. ASSUME NEW c \in Calls, StartCall(c) PROVE SocketInv'
  BY <1>1, WaitReadySockets DEF StartCall, BeginCall, Phases
<1>2. ASSUME NEW c \in Calls, CallTimeout(c) \/ Execute(c) \/ ReceiveAnswer(c) PROVE SocketInv'
  BY <1>2, SocketsStay DEF CallTimeout, Execute, ReceiveAnswer, connVars
<1>3. ASSUME NEW c \in Calls, ReceiveUnmatchedAnswer(c) PROVE SocketInv'
  <2>1. \A t \in Sockets : readyState[t] = "CLOSED" => readyState'[t] = "CLOSED"
    BY <1>3 DEF ReceiveUnmatchedAnswer, TypeOK
  <2> QED BY <1>3, <2>1, SocketsStay DEF ReceiveUnmatchedAnswer
<1>4. ASSUME NEW r \in Runs, BackoffDone(r) PROVE SocketInv'
  <2>1. ReplacedAreClosed /\ UNCHANGED <<bAutoReconnect, waitReadyPromise>> /\ ConnectOrPass(r)
    BY <1>4 DEF BackoffDone
  <2>2. CASE UNCHANGED <<webSocket, readyState>>
    BY <2>1, <2>2, SocketsStay
  <2>3. ASSUME NEW s \in FreeSockets, webSocket = NONE, Connect(r, s) PROVE SocketInv'
    <3>1. ReplacedAreClosed' /\ webSocket' # NONE
      BY <2>1, <2>3, ConstantsOK DEF Connect, ReplacedAreClosed, FreeSockets, TypeOK
    <3> QED BY <3>1 DEF SocketInv
  <2> QED BY <2>1, <2>2, <2>3 DEF ConnectOrPass
<1>5. ASSUME NEW r \in Runs, FailingDone(r) PROVE SocketInv'
  BY <1>5, SocketsStay DEF FailingDone
<1>6. ASSUME NEW r \in Runs, ConnectTimeout(r) PROVE SocketInv'
  <2>1. runSocket[r] \in Sockets
    BY <1>6 DEF ConnectTimeout, TypeOK
  <2> QED BY <1>6, <2>1, CloseSocketSockets DEF ConnectTimeout
<1>7. ASSUME NEW s \in Sockets, SocketError(s) \/ SocketClosed(s) PROVE SocketInv'
  <2>1. \A t \in Sockets : readyState[t] = "CLOSED" => readyState'[t] = "CLOSED"
    BY <1>7 DEF SocketError, SocketClosed, TypeOK
  <2>2. webSocket = NONE => waitReadyPromise' = waitReadyPromise
    BY <1>7, ConstantsOK DEF SocketError, SocketClosed, OnSocketLost
  <2> QED BY <1>7, <2>1, <2>2, SocketsStay DEF SocketError, SocketClosed
<1>8. ASSUME NEW s \in Sockets, SocketOpened(s) \/ SocketClosing(s) PROVE SocketInv'
  <2>1. \A t \in Sockets : readyState[t] = "CLOSED" => readyState'[t] = "CLOSED"
    BY <1>8 DEF SocketOpened, SocketClosing, TypeOK
  <2> QED BY <1>8, <2>1, SocketsStay DEF SocketOpened, SocketClosing
<1>9. CASE Dispose
  <2>1. CASE webSocket = NONE
    BY <1>9, <2>1, SocketsStay DEF Dispose
  <2>2. CASE webSocket # NONE
    BY <1>9, <2>2, CloseSocketSockets DEF Dispose, TypeOK
  <2> QED BY <2>1, <2>2
<1> QED BY <1>1, <1>2, <1>3, <1>4, <1>5, <1>6, <1>7, <1>8, <1>9 DEF Event

(* The states the property is about. *)
Undropped == HasOnConnected => ~forgotten

LEMMA SocketInvHolds == PromptClose /\ Spec => [](Undropped => SocketInv)
<1> SUFFICES ASSUME PromptClose
             PROVE  Spec => [](Undropped => SocketInv)
  OBVIOUS
<1>1. Init => SocketInv
  BY ConstantsOK DEF Init, SocketInv, ReplacedAreClosed
<1>2. ASSUME TypeOK, ~forgotten => RunInv, NoHookNoSkip,
             Undropped => SocketInv, [Next]_vars
      PROVE  Undropped' => SocketInv'
  <2> SUFFICES ASSUME Undropped' PROVE SocketInv'
    OBVIOUS
  <2>1. HookedRunsOK /\ SocketInv
    BY <1>2, ForgottenStays DEF HookedRunsOK, Undropped
  <2>2. CASE UNCHANGED vars
    BY <2>1, <2>2, SocketsStay DEF vars, connVars
  <2> QED BY <1>2, <2>1, <2>2, ContinuationSockets, EventSockets DEF Next
<1> QED BY <1>1, <1>2, TypeCorrect, RunInvHolds, NoHookNoSkipHolds, PTL DEF Spec

(* Whoever loses a socket, it is the one there is, if there is one: the    *)
(* requests sent on an open socket were sent on that. *)
LEMMA LostIsCurrent ==
    ASSUME TypeOK, SocketInv, OnlyCurrentLive, NEW s \in Sockets, readyState[s] # "CLOSED",
           NEW t \in Sockets, t # s
    PROVE  readyState[t] \in {"CLOSING", "CLOSED"}
BY ConstantsOK DEF SocketInv, ReplacedAreClosed, OnlyCurrentLive, TypeOK

(* rejectAllPromises() takes every entry of the map, but never that of a   *)
(* call which was sent on a socket that goes on: a socket is replaced only *)
(* when it is closed, or when its "close" comes before the sleep of its    *)
(* replacement ends (PromptClose).  With fnWaitReadyOnConnected also no    *)
(* failed run may have dropped the promise of another one.                 *)
THEOREM RejectedOnlyWithItsSocket == PromptClose /\ Spec => RejectedWithItsSocket
<1> SUFFICES ASSUME PromptClose PROVE Spec => RejectedWithItsSocket
  OBVIOUS
<1>1. ASSUME TypeOK, OnlyCurrentLive, Undropped => SocketInv, [Next]_vars
      PROVE  [(HasOnConnected => ~forgotten) =>
                \A c \in Calls :
                  reqPromise[c] = "pending" /\ reqPromise'[c] = "rejected" /\ sentOn[c] # NONE
                    => readyState'[sentOn[c]] \in {"CLOSING", "CLOSED"}]_vars
  <2> SUFFICES ASSUME SocketInv, NEW c \in Calls, reqPromise[c] = "pending",
                      reqPromise'[c] = "rejected", sentOn[c] \in Sockets
               PROVE  readyState'[sentOn[c]] \in {"CLOSING", "CLOSED"}
    BY <1>1 DEF Undropped, TypeOK
  <2> DEFINE t == sentOn[c]
  <2>1. ASSUME NEW s \in Sockets, readyState[s] # "CLOSED",
               readyState'[s] \in {"CLOSING", "CLOSED"},
               \A u \in Sockets \ {s} : readyState'[u] = readyState[u]
        PROVE  readyState'[t] \in {"CLOSING", "CLOSED"}
    BY <1>1, <2>1, LostIsCurrent
  <2>2. ASSUME NEW s \in Sockets, SocketError(s) \/ SocketClosed(s)
        PROVE  readyState'[t] \in {"CLOSING", "CLOSED"}
    BY <1>1, <2>1, <2>2 DEF SocketError, SocketClosed, TypeOK
  <2>3. ASSUME NEW s \in Sockets, CloseSocket(s)
        PROVE  readyState'[t] \in {"CLOSING", "CLOSED"}
    BY <1>1, <2>1, <2>3 DEF CloseSocket, TypeOK
  <2>4. ASSUME UNCHANGED reqPromise PROVE FALSE
    BY <2>4
  <2>5. CASE Continuation
    BY <1>1, <2>4, <2>5 DEF Continuation, EnterMakeRequest, RegisterRequest, SendRequest, FailCall,
       FinishCall, RunOpened, RunNotOpened, CallHook, HookReturns, HookThrows, HookResolved,
       HookRejected, callVars, TypeOK
  <2>6. ASSUME NEW r \in Runs, ConnectTimeout(r)
        PROVE  readyState'[t] \in {"CLOSING", "CLOSED"}
    BY <1>1, <2>3, <2>6 DEF ConnectTimeout, TypeOK
  <2>7. ASSUME NEW d \in Calls, ReceiveAnswer(d) PROVE FALSE
    BY <1>1, <2>7 DEF ReceiveAnswer, Replies, TypeOK
  <2>8. CASE Dispose
    BY <1>1, <2>3, <2>4, <2>8 DEF Dispose, TypeOK
  <2>9. CASE Event
    BY <1>1, <2>2, <2>4, <2>6, <2>7, <2>8, <2>9 DEF Event, StartCall, CallTimeout, Execute,
       ReceiveUnmatchedAnswer, BackoffDone, FailingDone, SocketOpened, SocketClosing, callVars
  <2> QED BY <1>1, <2>4, <2>5, <2>9 DEF Next, vars, callVars
<1> QED BY <1>1, TypeCorrect, AtMostOneConnection, SocketInvHolds, PTL
        DEF Spec, RejectedWithItsSocket

(* A step that sends and answers nothing, and rejects nothing. *)
LEMMA MatchStays ==
    ASSUME TypeOK, MatchInv, UNCHANGED <<sentOn, wire>>,
           \A c \in Calls : reqPromise'[c] \in {reqPromise[c], "pending"},
           \A s \in Sockets : \/ readyState'[s] = readyState[s]
                              \/ readyState[s] \in {"CONNECTING", "CLOSED"}
                              \/ readyState'[s] = "CLOSING"
    PROVE  MatchInv'
BY DEF MatchInv, CallMatches, IsOpen, TypeOK

(* waitReady() may create a socket, which nothing was sent on. *)
LEMMA WaitReadySent ==
    ASSUME NEW c \in Calls, NEW phase \in Phases, WaitReady(c, phase), TypeOK
    PROVE  \A s \in Sockets : \/ readyState'[s] = readyState[s]
                              \/ readyState[s] \in {"CONNECTING", "CLOSED"}
<1>1. CASE Connects(<<c, phase>>)
  BY <1>1 DEF Connects, Connect, FreeSockets, TypeOK
<1>2. CASE UNCHANGED readyState
  BY <1>2
<1> QED BY <1>1, <1>2, WaitReadyCases DEF Joins, Sleeps, Passes

LEMMA ContinuationMatches ==
    ASSUME TypeOK, RunInv, MatchInv, Continuation
    PROVE  MatchInv'
<1>1. ASSUME NEW c \in Calls, EnterMakeRequest(c) PROVE MatchInv'
  BY <1>1, WaitReadySent, MatchStays DEF EnterMakeRequest, Phases
<1>2. ASSUME NEW c \in Calls, RegisterRequest(c) PROVE MatchInv'
  <2>1. \A d \in Calls : reqPromise'[d] \in {reqPromise[d], "pending"}
    BY <1>2 DEF RegisterRequest, TypeOK
  <2> QED BY <1>2, <2>1, WaitReadySent, MatchStays DEF RegisterRequest, Phases
<1>3. ASSUME NEW c \in Calls, SendRequest(c) PROVE MatchInv'
  <2>1. HasEntry(c)
    BY <1>3 DEF SendRequest, RunInv, SendOK, EntryOrFails, Resolved
  <2>2. /\ sentOn'[c] = webSocket /\ wire'[c] = "request" /\ readyState[webSocket] = "OPEN"
        /\ \A d \in Calls \ {c} : sentOn'[d] = sentOn[d] /\ wire'[d] = wire[d]
        /\ UNCHANGED <<readyState, reqPromise>>
    BY <1>3 DEF SendRequest, IsOpen, connVars, TypeOK
  <2> QED BY <2>1, <2>2 DEF MatchInv, CallMatches, HasEntry, IsOpen, Replies
<1>4. ASSUME NEW c \in Calls, FailCall(c) \/ FinishCall(c) PROVE MatchInv'
  BY <1>4, MatchStays DEF FailCall, FinishCall, connVars, wireVars
<1>5. ASSUME NEW r \in Runs, CallHook(r) PROVE MatchInv'
  <2>1. PICK c \in IdleSkipCalls : BeginCall(c)
    BY <1>5 DEF CallHook
  <2>2. c \in Calls /\ WaitReady(c, "rpc") /\ "rpc" \in Phases
    BY <2>1, ConstantsOK DEF BeginCall, IdleSkipCalls, Phases
  <2> QED BY <1>5, <2>2, WaitReadySent, MatchStays DEF CallHook
<1>6. ASSUME NEW r \in Runs,
             \/ RunOpened(r) \/ RunNotOpened(r) \/ HookReturns(r)
             \/ HookThrows(r) \/ HookResolved(r) \/ HookRejected(r)
      PROVE  MatchInv'
  BY <1>6, MatchStays DEF RunOpened, RunNotOpened, HookReturns, HookThrows, HookResolved,
     HookRejected, connVars, callVars, wireVars
<1> QED BY <1>1, <1>2, <1>3, <1>4, <1>5, <1>6 DEF Continuation

(* rejectAllPromises(): the socket the rejected requests were sent on, if  *)
(* there is any, is the one that is lost. *)
LEMMA LostMatches ==
    ASSUME TypeOK, SocketInv, OnlyCurrentLive, MatchInv, NEW s \in Sockets,
           readyState[s] # "CLOSED", readyState'[s] \in {"CLOSING", "CLOSED"},
           \A t \in Sockets \ {s} : readyState'[t] = readyState[t],
           \A c \in Calls : sentOn'[c] = IF sentOn[c] = s /\ readyState'[s] = "CLOSED"
                                           THEN NONE ELSE sentOn[c],
           \A c \in Calls : wire'[c] \in {wire[c], "none"}
    PROVE  MatchInv'
<1> SUFFICES ASSUME NEW c \in Calls PROVE CallMatches(c)'
  BY DEF MatchInv
<1>1. CallMatches(c) /\ sentOn[c] \in Sockets \union {NONE}
  BY DEF MatchInv, TypeOK
<1>2. \A t \in Sockets : t # s => readyState'[t] \in {"CLOSING", "CLOSED"}
  BY LostIsCurrent
<1>3. sentOn'[c] # NONE => ~IsOpen(sentOn[c])' /\ readyState'[sentOn'[c]] = "CLOSING"
  BY <1>1, <1>2 DEF CallMatches, IsOpen
<1> QED BY <1>1, <1>3 DEF CallMatches, IsOpen, Replies

LEMMA CloseSocketMatches ==
    ASSUME TypeOK, SocketInv, OnlyCurrentLive, MatchInv, NEW s \in Sockets, CloseSocket(s),
           UNCHANGED <<sentOn, wire>>
    PROVE  MatchInv'
<1>1. CASE readyState[s] = "CONNECTING"
  <2>1. /\ readyState'[s] = "CLOSING"
        /\ \A t \in Sockets \ {s} : readyState'[t] = readyState[t]
    BY <1>1 DEF CloseSocket, TypeOK
  <2> QED BY <1>1, <2>1, LostMatches
<1>2. CASE readyState[s] # "CONNECTING"
  <2>1. \A t \in Sockets : readyState'[t] = readyState[t] \/ readyState'[t] = "CLOSING"
    BY DEF CloseSocket, TypeOK
  <2> QED BY <1>2, <2>1, MatchStays DEF CloseSocket
<1> QED BY <1>1, <1>2

LEMMA EventMatches ==
    ASSUME TypeOK, SocketInv, OnlyCurrentLive, MatchInv, Event
    PROVE  MatchInv'
<1>1. ASSUME NEW c \in Calls, StartCall(c) PROVE MatchInv'
  BY <1>1, WaitReadySent, MatchStays DEF StartCall, BeginCall, Phases
<1>2. ASSUME NEW c \in Calls, CallTimeout(c) PROVE MatchInv'
  BY <1>2, MatchStays DEF CallTimeout, connVars, wireVars
<1>3. ASSUME NEW c \in Calls, Execute(c) PROVE MatchInv'
  <2>1. /\ \A d \in Calls \ {c} : wire'[d] = wire[d]
        /\ wire[c] = "request" /\ (c \in Notifications => wire'[c] = "none")
        /\ UNCHANGED <<readyState, reqPromise, sentOn>>
    BY <1>3 DEF Execute, connVars, callVars, TypeOK
  <2> QED BY <2>1 DEF MatchInv, CallMatches, IsOpen, Replies
<1>4. ASSUME NEW c \in Calls, ReceiveAnswer(c) PROVE MatchInv'
  <2>1. /\ \A d \in Calls \ {c} : wire'[d] = wire[d] /\ reqPromise'[d] = reqPromise[d]
        /\ wire'[c] = "none"
        /\ UNCHANGED <<readyState, sentOn>>
    BY <1>4 DEF ReceiveAnswer, connVars, TypeOK
  <2> QED BY <2>1 DEF MatchInv, CallMatches, IsOpen, Replies
<1>5. ASSUME NEW c \in Calls, ReceiveUnmatchedAnswer(c) PROVE MatchInv'
  <2>1. /\ \A d \in Calls \ {c} : wire'[d] = wire[d]
        /\ wire'[c] = "none"
        /\ UNCHANGED <<reqPromise, sentOn>>
        /\ \A s \in Sockets : \/ readyState'[s] = readyState[s]
                              \/ readyState[s] = "OPEN" /\ readyState'[s] = "CLOSING"
    BY <1>5 DEF ReceiveUnmatchedAnswer, callVars, TypeOK
  <2>2. \A d \in Calls : sentOn[d] \in Sockets \union {NONE}
    BY DEF TypeOK
  <2> QED BY <2>1, <2>2 DEF MatchInv, CallMatches, IsOpen, Replies
<1>6. ASSUME NEW r \in Runs, BackoffDone(r) PROVE MatchInv'
  <2>1. \A s \in Sockets : readyState'[s] = readyState[s] \/ readyState[s] = "CLOSED"
    BY <1>6 DEF BackoffDone, ConnectOrPass, Connect, FreeSockets, TypeOK
  <2> QED BY <1>6, <2>1, MatchStays DEF BackoffDone, callVars
<1>7. ASSUME NEW r \in Runs, FailingDone(r) PROVE MatchInv'
  BY <1>7, MatchStays DEF FailingDone, callVars, wireVars
<1>8. ASSUME NEW r \in Runs, ConnectTimeout(r) PROVE MatchInv'
  BY <1>8, CloseSocketMatches DEF ConnectTimeout, wireVars, TypeOK
<1>9. ASSUME NEW s \in Sockets, SocketError(s) \/ SocketClosed(s) PROVE MatchInv'
  <2>1. /\ readyState[s] # "CLOSED" /\ readyState'[s] \in {"CLOSING", "CLOSED"}
        /\ \A t \in Sockets \ {s} : readyState'[t] = readyState[t]
        /\ \A c \in Calls : sentOn'[c] = IF sentOn[c] = s /\ readyState'[s] = "CLOSED"
                                           THEN NONE ELSE sentOn[c]
        /\ \A c \in Calls : wire'[c] \in {wire[c], "none"}
    BY <1>9 DEF SocketError, SocketClosed, wireVars, TypeOK
  <2> QED BY <2>1, LostMatches
<1>10. ASSUME NEW s \in Sockets, SocketOpened(s) \/ SocketClosing(s) PROVE MatchInv'
  <2>1. \A t \in Sockets : \/ readyState'[t] = readyState[t]
                           \/ readyState[t] = "CONNECTING"
                           \/ readyState'[t] = "CLOSING"
    BY <1>10 DEF SocketOpened, SocketClosing, TypeOK
  <2> QED BY <1>10, <2>1, MatchStays DEF SocketOpened, SocketClosing, callVars, wireVars
<1>11. CASE Dispose
  <2>1. CASE webSocket = NONE
    BY <1>11, <2>1, MatchStays DEF Dispose, wireVars
  <2>2. CASE webSocket # NONE
    BY <1>11, <2>2, CloseSocketMatches DEF Dispose, wireVars, TypeOK
  <2> QED BY <2>1, <2>2
<1> QED BY <1>1, <1>2, <1>3, <1>4, <1>5, <1>6, <1>7, <1>8, <1>9, <1>10, <1>11 DEF Event

(* No unclean state: processResponse() finds every answer that comes on an *)
(* open socket in the map, and never closes the connection over one that   *)
(* is not there, as long as the "close" of a replaced socket comes before  *)
(* a sleep ends (PromptClose) and the catch block of a failed waitReady()  *)
(* has not dropped the promise of another run.  This includes the calls    *)
(* that were timed out.                                                    *)
THEOREM AnswersFindTheirCall == PromptClose /\ Spec => []AnswersMatch
<1> SUFFICES ASSUME PromptClose PROVE Spec => []AnswersMatch
  OBVIOUS
<1>1. Init => MatchInv
  BY ConstantsOK DEF Init, MatchInv, CallMatches, Replies
<1>2. ASSUME TypeOK, OnlyCurrentLive, ~forgotten => RunInv, Undropped => SocketInv,
             ~forgotten => MatchInv, [Next]_vars
      PROVE  ~forgotten' => MatchInv'
  <2> SUFFICES ASSUME ~forgotten' PROVE MatchInv'
    OBVIOUS
  <2>1. RunInv /\ SocketInv /\ MatchInv
    BY <1>2, ForgottenStays DEF Undropped
  <2>2. CASE UNCHANGED vars
    BY <1>2, <2>1, <2>2, MatchStays DEF vars, connVars, callVars, wireVars
  <2> QED BY <1>2, <2>1, <2>2, ContinuationMatches, EventMatches DEF Next
<1>3. (~forgotten => MatchInv) => AnswersMatch
  BY DEF MatchInv, CallMatches, AnswersMatch, Replies
<1> QED BY <1>1, <1>2, <1>3, TypeCorrect, AtMostOneConnection, RunInvHolds, SocketInvHolds, PTL
        DEF Spec
=============================================================================
