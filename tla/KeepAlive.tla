----------------------------- MODULE KeepAlive -----------------------------
(***************************************************************************)
(* The keep alive timers of WebSocketTransport: _setupKeepAlive().  A      *)
(* connection is closed when no ping or pong was received for a while.     *)
(*                                                                         *)
(* The IDs of the timers are kept on the transport, one of each kind, also *)
(* when a socket and its successor both have timers.  That at most one     *)
(* socket is open is shown in WebSocketTransport.tla and taken from there. *)
(*                                                                         *)
(* Time passes in ticks, and a timer runs out on time.  An action is one   *)
(* event; the state of the sockets is that of the ws library of Node.js,   *)
(* in which all of them have ping().                                       *)
(***************************************************************************)
EXTENDS Naturals

CONSTANTS
    Sockets,        \* bound: the connections that are ever opened
    Timeout,        \* nKeepAliveTimeoutMilliseconds
    nInterval,      \* nKeepAliveIntervalMilliseconds, or NONE
    MaxInterval,    \* the longest interval by default: 4000
    Latency,        \* a ping is answered within this time while the peer is there
    LotsOfLatency,  \* what the timer of the retries allows: 5000
    RetryPackets,   \* nRetryPacketsFloodCount: 10
    PromptClose,    \* a socket is closed before its successor opens
    NONE            \* null

(* The interval of the pings, by default Math.max(1, Math.min(4000,        *)
(* Math.floor(Timeout / 2))).                                              *)
PingInterval ==
    LET half == Timeout \div 2
    IN  IF nInterval \notin {NONE, 0} THEN nInterval
        ELSE IF half = 0 THEN 1
        ELSE IF half > MaxInterval THEN MaxInterval ELSE half

RetryDelay == (IF nInterval = NONE THEN 0 ELSE nInterval) + LotsOfLatency

ASSUME KeepAliveConstantsOK ==
    /\ Timeout \in Nat \ {0} /\ MaxInterval \in Nat \ {0}
    /\ nInterval \in Nat \union {NONE} /\ NONE \notin Nat \union Sockets
    /\ Latency \in Nat /\ LotsOfLatency \in Nat /\ RetryPackets \in Nat
    /\ PromptClose \in BOOLEAN
    /\ NONE \notin [socket : Sockets, left : Nat]

(* What whoever sets the parameters has to see to. *)
ASSUME TimingOK == PingInterval + Latency < Timeout

VARIABLES
    state,      \* readyState of the sockets
    live,       \* the peers that can be reached
    pongIn,     \* when at the latest a pong arrives: time left, or NONE
    silence,    \* time since a frame was received, or since the socket opened
    pingIn,     \* the intervals that tick: time left to the next ping, or NONE
    intervalID, \* _nIntervalIDSendKeepAlivePing, by the socket it is for
    check,      \* the timer of _nTimeoutIDCheckKeepAliveReceived while it runs
    retry,      \* that of _nTimeoutIDCheckKeepAliveReceived_ForPacketLossRetry
    flood       \* pings that the loops it has started are yet to send

vars == <<state, live, pongIn, silence, pingIn, intervalID, check, retry, flood>>

Timers(n) == [socket : Sockets, left : 0 .. n]

TypeOK ==
    /\ state \in [Sockets -> {"none", "open", "closing", "closed"}]
    /\ live \subseteq Sockets
    /\ pongIn \in [Sockets -> 0 .. Latency \union {NONE}]
    /\ silence \in [Sockets -> Nat]
    /\ pingIn \in [Sockets -> 0 .. PingInterval \union {NONE}]
    /\ intervalID \in Sockets \union {NONE}
    /\ check \in Timers(Timeout) \union {NONE}
    /\ retry \in Timers(RetryDelay) \union {NONE}
    /\ flood \in [Sockets -> 0 .. RetryPackets]

Init ==
    /\ state = [s \in Sockets |-> "none"]
    /\ live = {}
    /\ pongIn = [s \in Sockets |-> NONE]
    /\ silence = [s \in Sockets |-> 0]
    /\ pingIn = [s \in Sockets |-> NONE]
    /\ intervalID = NONE /\ check = NONE /\ retry = NONE
    /\ flood = [s \in Sockets |-> 0]

-----------------------------------------------------------------------------

(* Mutant: the timers are set by the first frame. *)
SetupTimersLater(s) == UNCHANGED <<check, retry>>

(* Mutant: the timers are not cleared. *)
OnKeepAliveOnce(s) ==
    /\ check' = IF check = NONE THEN [socket |-> s, left |-> Timeout] ELSE check
    /\ retry' = IF retry = NONE THEN [socket |-> s, left |-> RetryDelay] ELSE retry

(* fnOnKeepAlive(): whatever timers the transport has are cleared, and set *)
(* again for this socket.                                                  *)
OnKeepAlive(s) ==
    /\ check' = [socket |-> s, left |-> Timeout]
    /\ retry' = [socket |-> s, left |-> RetryDelay]

SetupTimers(s) == OnKeepAlive(s)

(* A socket opens: _setupKeepAlive().  The interval that ticks for its     *)
(* predecessor is not cleared.                                             *)
Open(s) ==
    /\ state[s] = "none"
    /\ \A t \in Sockets : state[t] \in {"none", "closed"} \/ (state[t] = "closing" /\ ~PromptClose)
    /\ state' = [state EXCEPT ![s] = "open"]
    /\ live' = live \union {s}
    /\ pingIn' = [pingIn EXCEPT ![s] = PingInterval]
    /\ intervalID' = s
    /\ SetupTimers(s)
    /\ UNCHANGED <<pongIn, silence, flood>>

(* webSocket.ping(), which does nothing on a socket that is not open.  The *)
(* pong of the first unanswered ping is the one that matters.              *)
Ping(s) ==
    pongIn' = IF state[s] = "open" /\ pongIn[s] = NONE THEN [pongIn EXCEPT ![s] = Latency]
                                                         ELSE pongIn

(* The callback of setInterval(). *)
SendPing(s) ==
    /\ pingIn[s] = 0
    /\ pingIn' = [pingIn EXCEPT ![s] = PingInterval]
    /\ Ping(s)
    /\ UNCHANGED <<state, live, silence, intervalID, check, retry, flood>>

(* A pong, or a ping of the peer.  A socket that is closing receives them  *)
(* too; the listeners are removed at "close".                              *)
ReceiveFrame(s) ==
    /\ state[s] \in {"open", "closing"} /\ s \in live
    /\ OnKeepAlive(s)
    /\ pongIn' = [pongIn EXCEPT ![s] = NONE]
    /\ silence' = [silence EXCEPT ![s] = 0]
    /\ UNCHANGED <<state, live, pingIn, intervalID, flood>>

CloseSocket(s) ==
    state' = IF state[s] = "open" THEN [state EXCEPT ![s] = "closing"] ELSE state

(* Nothing was received for nKeepAliveTimeoutMilliseconds. *)
CheckTimeout(s) ==
    /\ check = [socket |-> s, left |-> 0]
    /\ check' = NONE
    /\ CloseSocket(s)
    /\ UNCHANGED <<live, pongIn, silence, pingIn, intervalID, retry, flood>>

(* The timer of the retries starts a loop of pings, half a second apart:   *)
(* it ends before the next one starts, LotsOfLatency after a frame.        *)
RetryTimeout(s) ==
    /\ retry = [socket |-> s, left |-> 0]
    /\ retry' = NONE
    /\ flood' = [flood EXCEPT ![s] = RetryPackets]
    /\ UNCHANGED <<state, live, pongIn, silence, pingIn, intervalID, check>>

(* The condition of the loop.  _nKeepAliveControlFramesReceived, which it  *)
(* compares with its value when the timer was set, is 0 for ever.          *)
FloodGoesOn(s) == flood[s] > 0

RetryPing(s) ==
    /\ FloodGoesOn(s)
    /\ flood' = [flood EXCEPT ![s] = @ - 1]
    /\ Ping(s)
    /\ UNCHANGED <<state, live, silence, pingIn, intervalID, check, retry>>

(* The peer, the user or the rest of the transport closes the socket. *)
Close(s) ==
    /\ state[s] = "open"
    /\ CloseSocket(s)
    /\ UNCHANGED <<live, pongIn, silence, pingIn, intervalID, check, retry, flood>>

(* Mutant: the interval is not cleared. *)
ClearIntervalNot == UNCHANGED <<pingIn, intervalID>>

(* clearInterval() of the interval the transport remembers, which is that  *)
(* of the socket opened last.                                              *)
ClearInterval ==
    /\ pingIn' = IF intervalID = NONE THEN pingIn ELSE [pingIn EXCEPT ![intervalID] = NONE]
    /\ intervalID' = NONE

(* "close", up to 30 seconds after close() when the peer does not answer:  *)
(* fnOnClose() clears what the transport has.                              *)
OnClose(s) ==
    /\ state[s] = "closing"
    /\ state' = [state EXCEPT ![s] = "closed"]
    /\ ClearInterval
    /\ check' = NONE /\ retry' = NONE
    /\ UNCHANGED <<live, pongIn, silence, flood>>

(* The connection is lost and nothing tells. *)
LoseConnection(s) ==
    /\ state[s] = "open" /\ s \in live
    /\ live' = live \ {s}
    /\ UNCHANGED <<state, pongIn, silence, pingIn, intervalID, check, retry, flood>>

-----------------------------------------------------------------------------
(* Time *)

RanOut(timer) == timer # NONE /\ timer.left = 0

(* No timer is to run out first, and no pong is due of a peer that is      *)
(* there.                                                                  *)
MayTick ==
    /\ \A s \in Sockets : pingIn[s] # 0
    /\ ~RanOut(check) /\ ~RanOut(retry)
    /\ \A s \in live : state[s] = "open" => pongIn[s] # 0

Less(n) == IF n \in {NONE, 0} THEN n ELSE n - 1

(* Bound: silence is not counted past the timeout, which nothing that is   *)
(* stated tells apart, nor once the socket is not open.                    *)
Tick ==
    /\ MayTick
    /\ pongIn' = [s \in Sockets |-> Less(pongIn[s])]
    /\ pingIn' = [s \in Sockets |-> Less(pingIn[s])]
    /\ check' = IF check = NONE THEN NONE ELSE [check EXCEPT !.left = @ - 1]
    /\ retry' = IF retry = NONE THEN NONE ELSE [retry EXCEPT !.left = @ - 1]
    /\ silence' = [s \in Sockets |-> IF state[s] = "open" /\ silence[s] <= Timeout
                                       THEN silence[s] + 1 ELSE silence[s]]
    /\ UNCHANGED <<state, live, intervalID, flood>>

Next ==
    \/ \E s \in Sockets :
         \/ Open(s)
         \/ SendPing(s)
         \/ ReceiveFrame(s)
         \/ CheckTimeout(s)
         \/ RetryTimeout(s)
         \/ RetryPing(s)
         \/ Close(s)
         \/ OnClose(s)
         \/ LoseConnection(s)
    \/ Tick

Spec == Init /\ [][Next]_vars

-----------------------------------------------------------------------------

(* A socket is not left open for longer than the timeout without a frame.  *)
(* "If the ping (or pong for compatibility with other keep alive systems   *)
(* in other libraries) control frame is not seen by the client for         *)
(* nKeepAliveTimeoutMilliseconds then the client will close its WebSocket."*)
(* (WebSocketTransport.js:73)                                              *)
SilentIsClosed == \A s \in Sockets : state[s] = "open" => silence[s] <= Timeout

(* The timers do not close a socket whose peer answers its pings, at any   *)
(* phase of the pings of this socket and of its predecessor's.             *)
HealthyIsKept ==
    [][\A s \in live : CheckTimeout(s) => state[s] # "open"]_vars

(* A transport that reconnects does not gather timers: a socket that is    *)
(* closed has none.                                                        *)
ClosedHasNoTimers ==
    \A s \in Sockets : state[s] = "closed" =>
      /\ pingIn[s] = NONE
      /\ check # NONE => check.socket # s
      /\ retry # NONE => retry.socket # s
=============================================================================
