------------------------------- MODULE Duplex -------------------------------
(***************************************************************************)
(* One bidirectional link: the Bidirectional*Router and the client plugin  *)
(* (transport) at each of its two ends.  Both ends call and serve over the *)
(* same channel, so a router sends what arrives to the server or to the    *)
(* plugin, and what it cannot place ends the link.                         *)
(*                                                                         *)
(* The five kinds of link share their structure and differ in what they do *)
(* when something goes wrong.  "websocket" and "rtc" links have two equal  *)
(* ends.  In the others "main" (cluster master, main thread, main process) *)
(* hosts "other" (worker process, thread, window), which announces itself  *)
(* by a call of rpc.connectToEndpoint and whose end is closed when it      *)
(* dies.  Reconnection is in WebSocketTransport.tla; web workers of the    *)
(* browser are not modelled.                                               *)
(***************************************************************************)
EXTENDS Naturals, Sequences, FiniteSets

CONSTANTS
    Kinds,          \* the kinds of link the model covers
    MainCalls,      \* calls "main" makes
    OtherCalls,     \* calls "other" makes
    Hello,          \* the call of rpc.connectToEndpoint
    Notifications,  \* the calls made with bNotification = true
    MaxFaults,      \* bound: malformed messages, plugins that throw, dispose()
    NONE            \* the ID null

Calls == MainCalls \union OtherCalls \union {Hello}
Peers == {"main", "other"}
Equal == {"websocket", "rtc"}
Hosted == {"cluster", "thread", "electron"}

ASSUME DuplexConstantsOK ==
    /\ Kinds \subseteq Equal \union Hosted
    /\ MainCalls \cap (OtherCalls \union {Hello}) = {}
    /\ Notifications \subseteq MainCalls \union OtherCalls
    /\ Hello \notin OtherCalls
    /\ MaxFaults \in Nat
    /\ NONE \notin Calls

VARIABLES
    kind,
    serves,         \* peers whose router was given a JSONRPC.Server
    end,            \* each end of the link: readyState, or how far a worker's end has come
    joined,         \* peers whose router listens on the link
    session,        \* peers whose router has the link in _objSessions
    hasClient,      \* peers whose session has its client plugin
    ready,          \* the promise addWorker() or addBrowserWindow() awaits
    readyTimer,     \* whether its timeout is set
    wire,           \* messages on their way to each peer
    serving,        \* requests inside processRequest(), and whether the endpoint was found
    outcome,        \* the promises of Client.rpc()
    executed,       \* calls whose method has run
    disposed,       \* peers whose transport was disposed
    faults,
    unheard,        \* calls whose request was lost where nobody listens
    crashed         \* an exception nobody catches has ended the main process

linkVars == <<end, session, ready, wire>>
setupVars == <<kind, serves, joined, hasClient, readyTimer>>
callVars == <<serving, outcome, executed>>
faultVars == <<disposed, faults, unheard, crashed>>
vars == <<linkVars, setupVars, callVars, faultVars>>

Messages == [type : {"request", "result", "error", "malformed"}, call : Calls \union {NONE}]

TypeOK ==
    /\ kind \in Kinds
    /\ serves \subseteq Peers
    /\ end \in [Peers -> {"open", "closing", "closed"}]
    /\ joined \subseteq Peers /\ session \subseteq joined /\ hasClient \subseteq joined
    /\ ready \in {"none", "waiting", "resolved", "rejected", "forgotten"}
    /\ readyTimer \in BOOLEAN
    /\ wire \in [Peers -> Seq(Messages)]
    /\ serving \subseteq [call : Calls, known : BOOLEAN]
    /\ outcome \in [Calls -> {"idle", "pending", "resolved", "rejected"}]
    /\ executed \subseteq Calls
    /\ disposed \subseteq Peers
    /\ faults \in 0 .. MaxFaults
    /\ unheard \subseteq Calls
    /\ crashed \in BOOLEAN

Init ==
    /\ kind \in Kinds
    /\ serves \in IF kind \in Equal THEN {Peers, {"main"}} ELSE {Peers}
    /\ end = [p \in Peers |-> "open"]
    /\ joined = {} /\ session = {} /\ hasClient = {}
    /\ ready = "none" /\ readyTimer = FALSE
    /\ wire = [p \in Peers |-> <<>>]
    /\ serving = {}
    /\ outcome = [c \in Calls |-> "idle"]
    /\ executed = {}
    /\ disposed = {} /\ faults = 0 /\ unheard = {} /\ crashed = FALSE

-----------------------------------------------------------------------------
(* The channel *)

Other(p) == IF p = "main" THEN "other" ELSE "main"
Origin(c) == IF c \in MainCalls THEN "main" ELSE "other"

Message(type, c) == [type |-> type, call |-> c]

(* What p sends reaches an end that is not closed. *)
Send(w, p, m) ==
    IF end[Other(p)] = "closed" THEN w ELSE [w EXCEPT ![Other(p)] = Append(@, m)]

Received(p) == [wire EXCEPT ![p] = Tail(@)]

CallsOf(p) == {c \in Calls : Origin(c) = p}

Settle(cs, result) ==
    outcome' = [c \in Calls |-> IF c \in cs /\ outcome[c] = "pending" THEN result
                                                                      ELSE outcome[c]]

RejectAllPromises(p) == Settle(CallsOf(p), "rejected")

(* The process or thread p runs in is there: a hosted end is its process.  *)
Alive(p) == ~crashed /\ ~(p = "other" /\ kind \in Hosted /\ end[p] = "closed")

Fault == faults < MaxFaults /\ faults' = faults + 1

-----------------------------------------------------------------------------
(* What the code does to the link.  Each leaves w on its way. *)

(* onConnectionEnded(): with the session goes the entry of the promise     *)
(* addWorker() awaits, which nobody can settle then.                       *)
OnConnectionEnded(p) ==
    /\ session' = session \ {p}
    /\ ready' = IF p = "main" /\ ready = "waiting" THEN "forgotten" ELSE ready

(* close(), terminate() or kill() of p's end.  The event that tells so     *)
(* comes later.                                                            *)
Close(p, w) ==
    /\ end' = [end EXCEPT ![p] = IF @ = "open" THEN "closing" ELSE @]
    /\ wire' = w

CloseOnly(p, w) == Close(p, w) /\ UNCHANGED <<session, ready>>

(* process.exit() in a thread. *)
ExitThread(w) ==
    /\ end' = [end EXCEPT !["other"] = "closed"]
    /\ wire' = [w EXCEPT !["other"] = <<>>]
    /\ UNCHANGED <<session, ready>>

Ignore(w) == wire' = w /\ UNCHANGED <<end, session, ready>>

NullError == Message("error", NONE)

(* An error with the ID null, which only a router that has made no client  *)
(* for the session sends.                                                  *)
SendNullError(w, p) ==
    IF p \in serves \cap (session \ hasClient) /\ end[p] = "open" THEN Send(w, p, NullError)
                                                                 ELSE w

(* The catch block of _routeMessage(), and the like one for JSON that      *)
(* cannot be parsed.                                                       *)
CatchWebSocket(p, w, replies) == CloseOnly(p, IF replies THEN SendNullError(w, p) ELSE w)

(* Mutant: the exception is logged, and the channel left open. *)
CatchRTCKeepsOpen(p, w, replies) == Ignore(w)

CatchRTC(p, w, replies) == CloseOnly(p, IF replies THEN SendNullError(w, p) ELSE w)

(* The other routers reply nothing.  In the worker process the worker is   *)
(* `process`, which is not closed.                                         *)
CatchWorker(p, w) ==
    /\ OnConnectionEnded(p)
    /\ IF p = "main" THEN Close(p, w) ELSE wire' = w /\ UNCHANGED end

CatchThread(p, w) ==
    IF p = "main" THEN OnConnectionEnded(p) /\ Close(p, w) ELSE ExitThread(w)

CatchElectron(p, w) == OnConnectionEnded(p) /\ wire' = w /\ UNCHANGED end

(* A response on a session that has no client plugin, on a socket: without *)
(* a server it is answered with an error.  Elsewhere it throws.            *)
PhantomOnSocket(p, w) ==
    CloseOnly(p, IF p \notin serves /\ end[p] = "open" THEN Send(w, p, NullError) ELSE w)

(* processResponse() when the response's ID is not in the map. *)
UnmatchedOnRTC(p, w) == CloseOnly(p, w)

UnmatchedOnWebSocket(p, w) == CloseOnly(p, w)

UnmatchedOnWorker(p, w) == IF p = "main" THEN CloseOnly(p, w) ELSE Ignore(w)

UnmatchedOnThread(p, w) == IF p = "main" THEN CloseOnly(p, w) ELSE ExitThread(w)

UnmatchedOnElectron(p, w) == Ignore(w)

-----------------------------------------------------------------------------
(* Setting up *)

(* Mutant: the session is made, and nothing listens. *)
JoinUnheard(p) ==
    /\ ~crashed
    /\ p \notin session
    /\ session' = session \union {p}
    /\ UNCHANGED joined

Join(p) ==
    /\ ~crashed
    /\ p \notin joined
    /\ joined' = joined \union {p}
    /\ session' = session \union {p}

(* A socket that is closed already is not added. *)
AddSocket(p) ==
    /\ Join(p)
    /\ end[p] # "closed"
    /\ UNCHANGED <<end, ready, wire, kind, serves, hasClient, readyTimer, callVars, faultVars>>

AddWebSocketSync(p) == kind = "websocket" /\ AddSocket(p)

AddRTCDataChannelSync(p) == kind = "rtc" /\ AddSocket(p)

(* addWorker() in the master, addBrowserWindow(), up to the await. *)
AddHosted ==
    /\ Join("main")
    /\ ready' = "waiting" /\ readyTimer' = TRUE
    /\ UNCHANGED <<end, wire, kind, serves, hasClient, callVars, faultVars>>

AddWorker == kind = "cluster" /\ AddHosted

AddThreadWorker == kind = "thread" /\ AddHosted

AddBrowserWindow == kind = "electron" /\ AddHosted

(* The hosted end adds its router, makes its client and makes the call     *)
(* rpc.connectToEndpoint.  "main" listens by then: the pool calls          *)
(* addWorker() in the turn in which it starts the worker.                  *)
Announce ==
    /\ "main" \in joined /\ Alive("other")
    /\ Join("other")
    /\ hasClient' = hasClient \union {"other"}
    /\ outcome' = [outcome EXCEPT ![Hello] = "pending"]
    /\ wire' = Send(wire, "other", Message("request", Hello))
    /\ UNCHANGED <<end, ready, kind, serves, readyTimer, serving, executed, faultVars>>

StartWorkerEndpoint == kind \in {"cluster", "thread"} /\ Announce

AddMainProcess == kind = "electron" /\ Announce

(* Mutant: the reverse client does not wait for addWorker() to return. *)
MakeClientAtOnce(p) ==
    /\ Alive(p)
    /\ p \in session \ hasClient
    /\ hasClient' = hasClient \union {p}
    /\ UNCHANGED <<linkVars, kind, serves, joined, readyTimer, callVars, faultVars>>

(* connectionIDToSingletonClient(), with the connection ID that            *)
(* addWorker() returns once the worker has announced itself.               *)
MakeClient(p) ==
    /\ Alive(p)
    /\ p \in session \ hasClient
    /\ kind \in Hosted => ready = "resolved"
    /\ hasClient' = hasClient \union {p}
    /\ UNCHANGED <<linkVars, kind, serves, joined, readyTimer, callVars, faultVars>>

(* The readiness timeout: it rejects the promise.  When its entry is gone  *)
(* reading it throws, except where the callback looks for it first.        *)
ReadyTimeout(endsProcess) ==
    /\ ~crashed /\ readyTimer
    /\ readyTimer' = FALSE
    /\ ready' = IF ready = "waiting" THEN "rejected" ELSE ready
    /\ crashed' = (endsProcess /\ ready = "forgotten")
    /\ UNCHANGED <<end, session, wire, kind, serves, joined, hasClient, callVars, disposed,
                   faults, unheard>>

WorkerReadyTimeout == kind = "cluster" /\ ReadyTimeout(TRUE)

ThreadReadyTimeout == kind = "thread" /\ ReadyTimeout(FALSE)

(* In Electron an exception nobody catches does not end the main process.  *)
WindowReadyTimeout == kind = "electron" /\ ReadyTimeout(FALSE)

-----------------------------------------------------------------------------
(* Calls *)

(* rpc() and makeRequest(): the entry of the map is made in the turn in    *)
(* which the request is sent.                                              *)
Request(c, connected) ==
    LET p == Origin(c)
    IN  /\ c # Hello /\ outcome[c] = "idle"
        /\ Alive(p) /\ p \in hasClient \ disposed
        /\ \/ /\ connected
              /\ wire' = Send(wire, p, Message("request", c))
              /\ outcome' = [outcome EXCEPT ![c] = IF c \in Notifications THEN "resolved"
                                                                          ELSE "pending"]
           \/ /\ ~connected
              /\ outcome' = [outcome EXCEPT ![c] = "rejected"]
              /\ UNCHANGED wire
        /\ UNCHANGED <<end, session, ready, setupVars, serving, executed, disposed, faults,
                       crashed>>

RequestOnWebSocket(c) == kind = "websocket" /\ Request(c, end[Origin(c)] = "open")

RequestOnRTC(c) == kind = "rtc" /\ Request(c, end[Origin(c)] = "open")

(* isDead() *)
RequestOnWorker(c) ==
    kind = "cluster" /\ Request(c, Origin(c) = "main" => end["main"] # "closed")

(* Nothing tells whether the thread is there. *)
RequestOnThread(c) == kind = "thread" /\ Request(c, TRUE)

(* webContents.send() throws once the window is destroyed. *)
RequestOnElectron(c) ==
    kind = "electron" /\ Request(c, Origin(c) = "main" => end["main"] # "closed")

(* A thread that has exited hears nothing, and its "exit" is over. *)
TooLate(c) == kind = "thread" /\ end[Origin(c)] = "closed"

MakeRequest(c) ==
    /\ \/ RequestOnWebSocket(c)
       \/ RequestOnRTC(c)
       \/ RequestOnWorker(c)
       \/ RequestOnThread(c)
       \/ RequestOnElectron(c)
    /\ unheard' = IF TooLate(c) THEN unheard \union {c} ELSE unheard

-----------------------------------------------------------------------------
(* Messages *)

(* A message that comes before the router listens is lost, except in a     *)
(* thread, where it waits for the first listener.                          *)
ComesTooEarly(p) ==
    /\ ~crashed /\ p \notin joined /\ end[p] # "closed"
    /\ kind # "thread" /\ wire[p] # <<>>
    /\ wire' = Received(p)
    /\ unheard' = unheard \union ({Head(wire[p]).call} \ {NONE})
    /\ UNCHANGED <<end, session, ready, setupVars, callVars, disposed, faults, crashed>>

Receives(p, types) ==
    /\ Alive(p) /\ p \in joined /\ end[p] # "closed"
    /\ wire[p] # <<>> /\ Head(wire[p]).type \in types

IsHello(p) == kind \in Hosted /\ p = "main" /\ Head(wire[p]).call = Hello

(* _onRPCConnectToEndpoint() *)
OnRPCConnectToEndpoint ==
    /\ Receives("main", {"request"}) /\ IsHello("main")
    /\ \/ /\ "main" \notin session
          /\ wire' = Received("main")
          /\ UNCHANGED <<ready, readyTimer, executed>>
       \/ /\ "main" \in session
          /\ executed' = executed \union {Hello}
          /\ wire' = Send(Received("main"), "main", Message("result", Hello))
          /\ ready' = IF ready = "waiting" THEN "resolved" ELSE ready
          /\ readyTimer' = FALSE
    /\ UNCHANGED <<end, session, kind, serves, joined, hasClient, serving, outcome, faultVars>>

WorkerConnects == kind = "cluster" /\ OnRPCConnectToEndpoint

ThreadConnects == kind = "thread" /\ OnRPCConnectToEndpoint

WindowConnects == kind = "electron" /\ OnRPCConnectToEndpoint

(* A request goes to processRequest(), also when the session is gone: the  *)
(* endpoint is then unknown, which is the call's error.                    *)
ReceiveRequest(p) ==
    /\ Receives(p, {"request"}) /\ ~IsHello(p) /\ p \in serves
    /\ serving' = serving \union {[call |-> Head(wire[p]).call, known |-> p \in session]}
    /\ wire' = Received(p)
    /\ UNCHANGED <<end, session, ready, setupVars, outcome, executed, faultVars>>

(* Without a server the request is answered with an error and the link     *)
(* closed.                                                                 *)
RefuseRequest(p) ==
    /\ Receives(p, {"request"}) /\ p \notin serves
    /\ CloseOnly(p, IF Head(wire[p]).call \in Notifications \/ end[p] # "open"
                      THEN Received(p) ELSE Send(Received(p), p, NullError))
    /\ UNCHANGED <<setupVars, callVars, faultVars>>

(* Neither a request nor a response, or not an object. *)
ReceiveMalformed(p) ==
    /\ Receives(p, {"malformed"})
    /\ UNCHANGED <<setupVars, callVars, faultVars>>

Responses == {"result", "error"}

ReceiveIgnored(p) ==
    /\ Receives(p, Responses) /\ p \notin session
    /\ Ignore(Received(p))
    /\ UNCHANGED <<setupVars, callVars, faultVars>>

ReceivePhantom(p) ==
    /\ Receives(p, Responses) /\ p \in session \ hasClient
    /\ UNCHANGED <<setupVars, callVars, faultVars>>

Matches(p, m) == m.call \in CallsOf(p) /\ outcome[m.call] = "pending"

(* Mutant: a call settles by the answer to another. *)
ReceiveAnswerOfAny(p) ==
    /\ Receives(p, Responses) /\ p \in session \cap hasClient
    /\ LET m == Head(wire[p])
       IN  /\ Matches(p, m)
           /\ \E c \in CallsOf(p) :
                /\ outcome[c] = "pending"
                /\ Settle({c}, IF m.type = "result" THEN "resolved" ELSE "rejected")
    /\ Ignore(Received(p))
    /\ UNCHANGED <<setupVars, serving, executed, faultVars>>

ReceiveAnswer(p) ==
    /\ Receives(p, Responses) /\ p \in session \cap hasClient
    /\ LET m == Head(wire[p])
       IN  /\ Matches(p, m)
           /\ Settle({m.call}, IF m.type = "result" THEN "resolved" ELSE "rejected")
    /\ Ignore(Received(p))
    /\ UNCHANGED <<setupVars, serving, executed, faultVars>>

ReceiveUnmatched(p) ==
    /\ Receives(p, Responses) /\ p \in session \cap hasClient
    /\ ~Matches(p, Head(wire[p]))
    /\ UNCHANGED <<setupVars, callVars, faultVars>>

(* _routeMessage() up to the await of processRequest(). *)
RouteMessage(p) ==
    \/ ReceiveRequest(p)
    \/ RefuseRequest(p)
    \/ ReceiveIgnored(p)
    \/ ReceiveAnswer(p)

RouteWebSocket(p) ==
    /\ kind = "websocket"
    /\ \/ RouteMessage(p)
       \/ ReceiveMalformed(p) /\ CatchWebSocket(p, Received(p), TRUE)
       \/ ReceivePhantom(p) /\ PhantomOnSocket(p, Received(p))
       \/ ReceiveUnmatched(p) /\ UnmatchedOnWebSocket(p, Received(p))

RouteRTC(p) ==
    /\ kind = "rtc"
    /\ \/ RouteMessage(p)
       \/ ReceiveMalformed(p) /\ CatchRTC(p, Received(p), TRUE)
       \/ ReceivePhantom(p) /\ PhantomOnSocket(p, Received(p))
       \/ ReceiveUnmatched(p) /\ UnmatchedOnRTC(p, Received(p))

RouteWorker(p) ==
    /\ kind = "cluster"
    /\ \/ RouteMessage(p)
       \/ (ReceiveMalformed(p) \/ ReceivePhantom(p)) /\ CatchWorker(p, Received(p))
       \/ ReceiveMalformed(p) /\ Ignore(Received(p))
       \/ ReceiveUnmatched(p) /\ UnmatchedOnWorker(p, Received(p))

RouteThread(p) ==
    /\ kind = "thread"
    /\ \/ RouteMessage(p)
       \/ (ReceiveMalformed(p) \/ ReceivePhantom(p)) /\ CatchThread(p, Received(p))
       \/ ReceiveMalformed(p) /\ Ignore(Received(p))
       \/ ReceiveUnmatched(p) /\ UnmatchedOnThread(p, Received(p))

RouteElectron(p) ==
    /\ kind = "electron"
    /\ \/ RouteMessage(p)
       \/ (ReceiveMalformed(p) \/ ReceivePhantom(p)) /\ CatchElectron(p, Received(p))
       \/ ReceiveMalformed(p) /\ Ignore(Received(p))
       \/ ReceiveUnmatched(p) /\ UnmatchedOnElectron(p, Received(p))

Receive(p) ==
    \/ RouteWebSocket(p) \/ RouteRTC(p)
    \/ RouteWorker(p) \/ RouteThread(p) \/ RouteElectron(p)

(* Mutant: a notification is answered like a call. *)
IsAnsweredAlways(c) == c \in Calls

IsAnswered(c) == c \notin Notifications

Reply(p, type, c) == IF IsAnswered(c) THEN Send(wire, p, Message(type, c)) ELSE wire

(* What is sent after processRequest().  On a socket that is not open      *)
(* send() throws, to no effect.  A cluster worker that has exited emits    *)
(* "error", for which nobody listens any more, and the master dies; a      *)
(* window that was closed throws, and its session is gone already.         *)
ReplyOnSocket(p, type, c) ==
    /\ wire' = IF end[p] = "open" THEN Reply(p, type, c) ELSE wire
    /\ UNCHANGED crashed

ReplyToWorker(p, type, c) ==
    /\ wire' = Reply(p, type, c)
    /\ crashed' = (p = "main" /\ end[p] = "closed" /\ IsAnswered(c))

ReplyElsewhere(p, type, c) == wire' = Reply(p, type, c) /\ UNCHANGED crashed

Serves(p, s) == Alive(p) /\ s \in serving /\ Origin(s.call) = Other(p)

(* processRequest() has run the method, or not. *)
Processed(s, ran) ==
    /\ ran => s.known
    /\ serving' = serving \ {s}
    /\ executed' = IF ran THEN executed \union {s.call} ELSE executed

(* It ends with a result or an error. *)
FinishServing(p, s, type) ==
    /\ Serves(p, s)
    /\ \E ran \in BOOLEAN : (type = "result" => ran) /\ Processed(s, ran)
    /\ UNCHANGED <<end, session, ready, setupVars, outcome, disposed, faults, unheard>>

(* A plugin of the server throws out of processRequest(), before the       *)
(* method or after it.                                                     *)
ServingThrows(p, s) ==
    /\ Serves(p, s)
    /\ Fault
    /\ \E ran \in BOOLEAN : Processed(s, ran)
    /\ UNCHANGED <<setupVars, outcome, disposed, unheard, crashed>>

(* The rest of _routeMessage(). *)
FinishWebSocket(p) ==
    /\ kind = "websocket"
    /\ \E s \in serving :
         \/ \E type \in Responses : FinishServing(p, s, type) /\ ReplyOnSocket(p, type, s.call)
         \/ ServingThrows(p, s) /\ CatchWebSocket(p, wire, IsAnswered(s.call))

FinishRTC(p) ==
    /\ kind = "rtc"
    /\ \E s \in serving :
         \/ \E type \in Responses : FinishServing(p, s, type) /\ ReplyOnSocket(p, type, s.call)
         \/ ServingThrows(p, s) /\ CatchRTC(p, wire, IsAnswered(s.call))

FinishWorker(p) ==
    /\ kind = "cluster"
    /\ \E s \in serving :
         \/ \E type \in Responses : FinishServing(p, s, type) /\ ReplyToWorker(p, type, s.call)
         \/ ServingThrows(p, s) /\ CatchWorker(p, wire)

FinishThread(p) ==
    /\ kind = "thread"
    /\ \E s \in serving :
         \/ \E type \in Responses : FinishServing(p, s, type) /\ ReplyElsewhere(p, type, s.call)
         \/ ServingThrows(p, s) /\ CatchThread(p, wire)

FinishElectron(p) ==
    /\ kind = "electron"
    /\ \E s \in serving :
         \/ \E type \in Responses : FinishServing(p, s, type) /\ ReplyElsewhere(p, type, s.call)
         \/ ServingThrows(p, s) /\ CatchElectron(p, wire)

RequestServed(p) ==
    \/ FinishWebSocket(p) \/ FinishRTC(p)
    \/ FinishWorker(p) \/ FinishThread(p) \/ FinishElectron(p)

(* The program at p uses the channel for something of its own. *)
SendMalformed(p) ==
    /\ Alive(p) /\ p \in joined /\ end[p] = "open"
    /\ Fault
    /\ wire' = Send(wire, p, Message("malformed", NONE))
    /\ UNCHANGED <<end, session, ready, setupVars, callVars, disposed, unheard, crashed>>

-----------------------------------------------------------------------------
(* Ends of the link *)

(* Mutant: the session ends, and the transport does not notice. *)
LinkLostUnnoticed(p) ==
    /\ ~crashed /\ end[p] # "closed"
    /\ end' = [end EXCEPT ![p] = "closed"]
    /\ wire' = [wire EXCEPT ![p] = <<>>]
    /\ OnConnectionEnded(p)
    /\ UNCHANGED <<setupVars, callVars, faultVars>>

(* "close" or "exit", heard by the router and by the transport. *)
LinkLost(p) ==
    /\ ~crashed /\ end[p] # "closed"
    /\ end' = [end EXCEPT ![p] = "closed"]
    /\ wire' = [wire EXCEPT ![p] = <<>>]
    /\ OnConnectionEnded(p)
    /\ RejectAllPromises(p)
    /\ UNCHANGED <<setupVars, serving, executed, faultVars>>

WebSocketClosed(p) == kind = "websocket" /\ LinkLost(p)

RTCChannelClosed(p) == kind = "rtc" /\ LinkLost(p)

WorkerExit == kind = "cluster" /\ end["other"] = "closed" /\ LinkLost("main")

ThreadExit == kind = "thread" /\ end["other"] = "closed" /\ LinkLost("main")

WindowClosed == kind = "electron" /\ end["other"] = "closed" /\ LinkLost("main")

(* The worker process, thread or window ends: killed, by itself or by a    *)
(* crash.                                                                  *)
OtherDies ==
    /\ kind \in Hosted /\ Alive("other")
    /\ ExitThread(wire)
    /\ UNCHANGED <<setupVars, callVars, faultVars>>

(* "error" with the end still to close. *)
LinkError(p) ==
    /\ ~crashed /\ p \in joined /\ end[p] # "closed"
    /\ OnConnectionEnded(p)
    /\ RejectAllPromises(p)
    /\ Close(p, wire)
    /\ UNCHANGED <<setupVars, serving, executed, faultVars>>

WebSocketError(p) == kind = "websocket" /\ end[p] = "open" /\ LinkError(p)

RTCChannelError(p) == kind = "rtc" /\ end[p] = "open" /\ LinkError(p)

WorkerError == kind = "cluster" /\ LinkError("main")

(* An exception in the thread nobody caught, which has ended it. *)
ThreadError == kind = "thread" /\ end["other"] = "closed" /\ LinkError("main")

DisposeSocket(p) ==
    /\ kind \in Equal
    /\ CloseOnly(p, wire)
    /\ UNCHANGED <<outcome, faults>>

(* Answers that come after dispose() are unmatched. *)
DisposeWorkerTransport(p) ==
    /\ kind \in Hosted
    /\ Fault
    /\ RejectAllPromises(p)
    /\ UNCHANGED linkVars

(* dispose() of the transport *)
Dispose(p) ==
    /\ Alive(p) /\ p \in hasClient \ disposed
    /\ disposed' = disposed \union {p}
    /\ DisposeSocket(p) \/ DisposeWorkerTransport(p)
    /\ UNCHANGED <<setupVars, serving, executed, unheard, crashed>>

-----------------------------------------------------------------------------

Connects == WorkerConnects \/ ThreadConnects \/ WindowConnects

TimesOut == WorkerReadyTimeout \/ ThreadReadyTimeout \/ WindowReadyTimeout

Lost == WorkerExit \/ ThreadExit \/ WindowClosed

Next ==
    \/ AddWorker \/ AddThreadWorker \/ AddBrowserWindow
    \/ StartWorkerEndpoint \/ AddMainProcess
    \/ Connects \/ TimesOut \/ Lost
    \/ OtherDies \/ WorkerError \/ ThreadError
    \/ \E c \in Calls : MakeRequest(c)
    \/ \E p \in Peers :
         \/ AddWebSocketSync(p) \/ AddRTCDataChannelSync(p)
         \/ MakeClient(p)
         \/ ComesTooEarly(p)
         \/ Receive(p)
         \/ RequestServed(p)
         \/ SendMalformed(p)
         \/ WebSocketClosed(p) \/ RTCChannelClosed(p)
         \/ WebSocketError(p) \/ RTCChannelError(p)
         \/ Dispose(p)

Spec == Init /\ [][Next]_vars

(* Messages arrive, methods return, timers run out; a socket that one of   *)
(* its ends closes is closed at the other, and a worker that is killed     *)
(* dies.  A program adds the sockets it is given to its router.  No user   *)
(* need call, and no worker start.                                         *)
Progress ==
    \/ Connects \/ TimesOut \/ Lost
    \/ end["main"] = "closing" /\ OtherDies
    \/ \E p \in Peers :
         \/ AddWebSocketSync(p) \/ AddRTCDataChannelSync(p)
         \/ Receive(p)
         \/ RequestServed(p)
         \/ (\E q \in Peers : end[q] # "open") /\ (WebSocketClosed(p) \/ RTCChannelClosed(p))

(* With finitely many calls each of these steps is taken finitely often,   *)
(* so that fairness to all of them together is fairness to each.           *)
Fairness == WF_vars(Progress)

FairSpec == Spec /\ Fairness

-----------------------------------------------------------------------------

(* Once a peer has been told of the end of its link none of its calls is   *)
(* left waiting, in either direction: not one made while the end was       *)
(* closing, nor one made after it.  Only a thread is not told that a call  *)
(* came after its "exit": those alone are left.                            *)
NoneLeftBehind ==
    \A c \in Calls :
      /\ end[Origin(c)] = "closed" /\ Alive(Origin(c))
      /\ ~(kind = "thread" /\ c \in unheard)
      => outcome[c] # "pending"

(* As long as no fault is injected and both routers have a server (one     *)
(* without answers with the ID null) a router never meets a phantom or     *)
(* unmatched response, on which it would end the link: every response to   *)
(* an end that listens is to a call that waits, and the client is there.   *)
AnswersMatch ==
    faults = 0 /\ serves = Peers =>
      \A p \in Peers : p \in session /\ p \notin disposed /\ ~crashed =>
        \A i \in DOMAIN wire[p] :
          wire[p][i].type \in Responses => p \in hasClient /\ Matches(p, wire[p][i])

(* A request is sent only to a peer whose router listens: the reverse      *)
(* client of a worker that has not announced itself cannot be had.         *)
HeardWhenSent ==
    kind \in Hosted =>
      \A p \in Peers : (\E i \in DOMAIN wire[p] : wire[p][i].type = "request") => p \in joined

(* No call is settled twice, or executed twice, or resolved without being  *)
(* executed, in either direction and whatever is lost.                     *)
Abstract == INSTANCE RpcCalls WITH
    Calls <- Calls, Notifications <- Notifications, outcome <- outcome, executed <- executed
Refines == Abstract!Spec

(* A router whose session is gone though its end is open ignores the       *)
(* answers to its own calls: in a worker process or window after catch.    *)
Deaf(p) == p \in joined \ session /\ end[p] = "open"

(* Every call settles, except where the caller is gone, where a router has *)
(* become deaf (which then also loses the answers its own methods owe), or *)
(* where the request was lost: it came before the other router listened,   *)
(* or it was made to a thread whose "exit" had been heard.                 *)
EveryCallSettles ==
    \A c \in Calls :
      outcome[c] = "pending" ~>
        \/ outcome[c] # "pending"
        \/ ~Alive(Origin(c)) \/ \E p \in Peers : Deaf(p)
        \/ c \in unheard
=============================================================================
