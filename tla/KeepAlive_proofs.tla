-------------------------- MODULE KeepAlive_proofs --------------------------
(***************************************************************************)
(* Proofs about KeepAlive, for any number of connections, any interval,    *)
(* timeout and latency that leave room for an answered ping, if a socket   *)
(* is closed before its successor opens.                                   *)
(***************************************************************************)
EXTENDS KeepAlive, TLAPS

Up(s) == state[s] \in {"open", "closing"}

OneUp == \A s, t \in Sockets : Up(s) /\ Up(t) => s = t

(* The timers the transport has are of the socket that is up, and the      *)
(* interval that ticks is the one it remembers.                            *)
TimersOfOneUp ==
    /\ check # NONE => Up(check.socket)
    /\ retry # NONE => Up(retry.socket)
    /\ \A s \in Sockets : pingIn[s] # NONE => intervalID = s /\ Up(s)

NewIsSilent == \A s \in Sockets : state[s] = "none" => silence[s] = 0 /\ pongIn[s] = NONE

(* The timer of an open socket runs out a timeout after its last frame. *)
Watched ==
    \A s \in Sockets : state[s] = "open" =>
      /\ intervalID = s /\ pingIn[s] # NONE
      /\ check # NONE /\ check.socket = s /\ silence[s] + check.left = Timeout

(* A peer that is there is heard of in time: a ping is on its way, or its  *)
(* pong is.                                                                *)
HeardInTime ==
    \A s \in live : state[s] = "open" =>
      /\ pongIn[s] = NONE => silence[s] + pingIn[s] <= PingInterval
      /\ pongIn[s] # NONE => silence[s] + pongIn[s] <= PingInterval + Latency

TimerInv ==
    TypeOK /\ PromptClose /\ OneUp /\ TimersOfOneUp /\ NewIsSilent /\ Watched /\ HeardInTime

-----------------------------------------------------------------------------

LEMMA Numbers ==
    /\ Timeout \in Nat /\ Latency \in Nat /\ RetryPackets \in Nat
    /\ PingInterval \in Nat \ {0} /\ RetryDelay \in Nat
    /\ NONE \notin Nat /\ NONE \notin Sockets /\ \A n \in Nat : NONE \notin Timers(n)
    /\ PingInterval + Latency < Timeout
<1>1. \A n \in Nat : \A m \in 0 .. n : m \in Nat
  OBVIOUS
<1>2. PingInterval \in Nat \ {0} /\ RetryDelay \in Nat
  BY KeepAliveConstantsOK DEF PingInterval, RetryDelay
<1>3. \A n \in Nat : Timers(n) \subseteq [socket : Sockets, left : Nat]
  BY <1>1 DEF Timers
<1> QED BY <1>2, <1>3, KeepAliveConstantsOK, TimingOK

(* A running timer, taken apart. *)
LEMMA TimerFields ==
    ASSUME NEW n \in Nat, NEW timer \in Timers(n) \union {NONE}, timer # NONE
    PROVE  timer.socket \in Sockets /\ timer.left \in 0 .. n /\ timer.left \in Nat
BY DEF Timers

LEMMA NewTimer ==
    ASSUME NEW n \in Nat, NEW m \in 0 .. n, NEW s \in Sockets
    PROVE  LET timer == [socket |-> s, left |-> m]
           IN  timer \in Timers(n) /\ timer # NONE /\ timer.socket = s /\ timer.left = m
<1>1. [socket |-> s, left |-> m] \in Timers(n)
  BY DEF Timers
<1> QED BY <1>1, Numbers

LEMMA OpenKeeps ==
    ASSUME TimerInv, NEW s \in Sockets, Open(s)
    PROVE  TimerInv'
<1>1. /\ state[s] = "none" /\ \A t \in Sockets : ~Up(t)
      /\ state' = [state EXCEPT ![s] = "open"] /\ live' = live \union {s}
      /\ pingIn' = [pingIn EXCEPT ![s] = PingInterval] /\ intervalID' = s
      /\ UNCHANGED <<pongIn, silence, flood>>
  BY DEF Open, TimerInv, Up
<1>2. Timeout \in 0 .. Timeout /\ RetryDelay \in 0 .. RetryDelay
  BY Numbers
<1>3. PICK c \in Timers(Timeout), r \in Timers(RetryDelay) :
        c = [socket |-> s, left |-> Timeout] /\ r = [socket |-> s, left |-> RetryDelay]
  BY <1>2, Numbers, NewTimer
<1>4. /\ check' = c /\ c # NONE /\ c.socket = s /\ c.left = Timeout
      /\ retry' = r /\ r # NONE /\ r.socket = s
  BY <1>2, <1>3, Numbers, NewTimer DEF Open, SetupTimers, OnKeepAlive
<1>5. TypeOK'
  BY <1>1, <1>4, Numbers DEF TimerInv, TypeOK
<1>6. state'[s] = "open" /\ \A t \in Sockets \ {s} : state'[t] = state[t] /\ ~Up(t)'
  BY <1>1 DEF TimerInv, TypeOK, Up
<1>7. pingIn'[s] = PingInterval /\ \A t \in Sockets \ {s} : pingIn'[t] = NONE
  BY <1>1 DEF TimerInv, TypeOK, TimersOfOneUp
<1>8. OneUp' /\ TimersOfOneUp' /\ NewIsSilent'
  BY <1>1, <1>4, <1>6, <1>7 DEF TimerInv, OneUp, TimersOfOneUp, NewIsSilent, Up
<1>9. silence'[s] = 0 /\ pongIn'[s] = NONE
  BY <1>1 DEF TimerInv, NewIsSilent
<1>10. Watched' /\ HeardInTime'
  BY <1>1, <1>4, <1>6, <1>7, <1>9, Numbers DEF Watched, HeardInTime, Up, TimerInv, TypeOK
<1> QED BY <1>5, <1>8, <1>10 DEF TimerInv

(* A ping that was sent in time is answered in time. *)
LEMMA PingKeeps ==
    ASSUME TimerInv, NEW s \in Sockets, Ping(s),
           UNCHANGED <<state, live, silence, intervalID, check, retry>>,
           \/ UNCHANGED pingIn
           \/ pingIn[s] = 0 /\ pingIn' = [pingIn EXCEPT ![s] = PingInterval],
           flood' \in [Sockets -> 0 .. RetryPackets]
    PROVE  TimerInv'
<1>1. /\ \A t \in Sockets : state[t] = "open" /\ pongIn'[t] # pongIn[t] =>
           t = s /\ pongIn[s] = NONE /\ pongIn'[s] = Latency
      /\ \A t \in Sockets : state[t] # "open" => pongIn'[t] = pongIn[t]
      /\ state[s] = "open" => pongIn'[s] # NONE
      /\ pongIn' \in [Sockets -> 0 .. Latency \union {NONE}]
  BY Numbers DEF Ping, TimerInv, TypeOK
<1>2. /\ pingIn' \in [Sockets -> 0 .. PingInterval \union {NONE}]
      /\ \A t \in Sockets : pingIn'[t] = NONE <=> pingIn[t] = NONE
      /\ \A t \in Sockets \ {s} : pingIn'[t] = pingIn[t]
  BY Numbers DEF TimerInv, TypeOK
<1>3. TypeOK'
  BY <1>1, <1>2 DEF TimerInv, TypeOK
<1>4. OneUp' /\ TimersOfOneUp' /\ NewIsSilent' /\ Watched'
  BY <1>1, <1>2 DEF TimerInv, OneUp, TimersOfOneUp, NewIsSilent, Watched, Up
<1>5. HeardInTime'
  <2> SUFFICES ASSUME NEW t \in live, state[t] = "open"
               PROVE  /\ pongIn'[t] = NONE => silence[t] + pingIn'[t] <= PingInterval
                      /\ pongIn'[t] # NONE => silence[t] + pongIn'[t] <= PingInterval + Latency
    BY DEF HeardInTime
  <2>1. t \in Sockets /\ silence[t] \in Nat /\ pingIn[t] \in 0 .. PingInterval
    BY DEF TimerInv, TypeOK, Watched
  <2>2. CASE pongIn'[t] = pongIn[t]
    BY <1>1, <1>2, <2>1, <2>2 DEF TimerInv, HeardInTime
  <2>3. CASE pongIn'[t] # pongIn[t]
    <3>1. pongIn[t] = NONE /\ pongIn'[t] = Latency /\ Latency # NONE
      BY <1>1, <2>1, <2>3, Numbers
    <3>2. silence[t] <= PingInterval
      BY <2>1, <3>1, Numbers DEF TimerInv, HeardInTime
    <3> QED BY <2>1, <3>1, <3>2, Numbers
  <2> QED BY <2>2, <2>3
<1> QED BY <1>3, <1>4, <1>5 DEF TimerInv

LEMMA ReceiveKeeps ==
    ASSUME TimerInv, NEW s \in Sockets, ReceiveFrame(s)
    PROVE  TimerInv'
<1>1. /\ Up(s) /\ pongIn' = [pongIn EXCEPT ![s] = NONE] /\ silence' = [silence EXCEPT ![s] = 0]
      /\ UNCHANGED <<state, live, pingIn, intervalID, flood>>
  BY DEF ReceiveFrame, Up
<1>2. Timeout \in 0 .. Timeout /\ RetryDelay \in 0 .. RetryDelay
  BY Numbers
<1>3. PICK c \in Timers(Timeout), r \in Timers(RetryDelay) :
        c = [socket |-> s, left |-> Timeout] /\ r = [socket |-> s, left |-> RetryDelay]
  BY <1>2, Numbers, NewTimer
<1>4. /\ check' = c /\ c # NONE /\ c.socket = s /\ c.left = Timeout
      /\ retry' = r /\ r # NONE /\ r.socket = s
  BY <1>2, <1>3, Numbers, NewTimer DEF ReceiveFrame, OnKeepAlive
<1>5. TypeOK'
  BY <1>1, <1>4, Numbers DEF TimerInv, TypeOK
<1>6. /\ pongIn'[s] = NONE /\ silence'[s] = 0
      /\ \A t \in Sockets \ {s} : pongIn'[t] = pongIn[t] /\ silence'[t] = silence[t]
      /\ \A t \in Sockets : state[t] = "open" => t = s
  BY <1>1 DEF TimerInv, TypeOK, OneUp, Up
<1>7. OneUp' /\ TimersOfOneUp' /\ NewIsSilent'
  BY <1>1, <1>4, <1>6 DEF TimerInv, OneUp, TimersOfOneUp, NewIsSilent, Up
<1>8. Watched'
  BY <1>1, <1>4, <1>6, Numbers DEF TimerInv, Watched
<1>9. HeardInTime'
  BY <1>1, <1>6, Numbers DEF TimerInv, TypeOK, HeardInTime, Watched
<1> QED BY <1>1, <1>5, <1>7, <1>8, <1>9 DEF TimerInv

(* A socket that is closing, by whatever, needs no timer. *)
LEMMA CloseKeeps ==
    ASSUME TimerInv, NEW s \in Sockets, CheckTimeout(s) \/ Close(s)
    PROVE  TimerInv'
<1>1. /\ check' \in {check, NONE}
      /\ check' # check => check # NONE /\ check.socket = s
      /\ UNCHANGED <<live, pongIn, silence, pingIn, intervalID, retry, flood>>
  <2>1. /\ [socket |-> s, left |-> 0] # NONE
        /\ [socket |-> s, left |-> 0].socket = s
    BY NewTimer
  <2> QED BY <2>1 DEF CheckTimeout, Close
<1>2. /\ state'[s] # "open" /\ \A t \in Sockets \ {s} : state'[t] = state[t]
      /\ state' \in [Sockets -> {"none", "open", "closing", "closed"}]
      /\ \A t \in Sockets : /\ Up(t)' <=> Up(t)
                            /\ state'[t] = "none" => state[t] = "none"
  BY DEF CheckTimeout, Close, CloseSocket, TimerInv, TypeOK, Up
<1>3. TypeOK'
  BY <1>1, <1>2 DEF TimerInv, TypeOK
<1>4. check # NONE => check.socket \in Sockets
  BY Numbers, TimerFields DEF TimerInv, TypeOK
<1>5. retry # NONE => retry.socket \in Sockets
  BY Numbers, TimerFields DEF TimerInv, TypeOK
<1>6. OneUp' /\ TimersOfOneUp' /\ NewIsSilent'
  BY <1>1, <1>2, <1>4, <1>5 DEF TimerInv, OneUp, TimersOfOneUp, NewIsSilent
<1>7. Watched' /\ HeardInTime'
  BY <1>1, <1>2 DEF TimerInv, TypeOK, Watched, HeardInTime
<1> QED BY <1>3, <1>6, <1>7 DEF TimerInv

LEMMA OnCloseKeeps ==
    ASSUME TimerInv, NEW s \in Sockets, OnClose(s)
    PROVE  TimerInv'
<1>1. /\ state[s] = "closing" /\ state' = [state EXCEPT ![s] = "closed"]
      /\ check' = NONE /\ retry' = NONE /\ intervalID' = NONE
      /\ UNCHANGED <<live, pongIn, silence, flood>>
  BY DEF OnClose, ClearInterval
<1>2. pingIn' \in [Sockets -> 0 .. PingInterval \union {NONE}]
  BY DEF OnClose, ClearInterval, TimerInv, TypeOK
<1>3. \A t \in Sockets : pingIn'[t] = NONE
  BY Numbers DEF OnClose, ClearInterval, TimerInv, TypeOK, TimersOfOneUp
<1>4. state'[s] = "closed" /\ \A t \in Sockets \ {s} : state'[t] = state[t]
  BY <1>1 DEF TimerInv, TypeOK
<1>5. \A t \in Sockets : ~Up(t)' /\ (state'[t] = "none" => state[t] = "none")
  BY <1>1, <1>4 DEF TimerInv, OneUp, Up
<1>6. TypeOK'
  BY <1>1, <1>2 DEF TimerInv, TypeOK
<1>7. OneUp' /\ TimersOfOneUp' /\ NewIsSilent'
  BY <1>1, <1>3, <1>5 DEF TimerInv, OneUp, TimersOfOneUp, NewIsSilent
<1>8. live \subseteq Sockets /\ Watched' /\ HeardInTime'
  BY <1>1, <1>5 DEF TimerInv, TypeOK, Watched, HeardInTime, Up
<1> QED BY <1>6, <1>7, <1>8 DEF TimerInv

LEMMA OtherStepsKeep ==
    ASSUME TimerInv, NEW s \in Sockets, RetryTimeout(s) \/ LoseConnection(s)
    PROVE  TimerInv'
<1>1. /\ UNCHANGED <<state, pongIn, silence, pingIn, intervalID, check>>
      /\ retry' \in {retry, NONE} /\ live' \subseteq live
  BY DEF RetryTimeout, LoseConnection
<1>2. flood' \in [Sockets -> 0 .. RetryPackets]
  BY Numbers DEF RetryTimeout, LoseConnection, TimerInv, TypeOK
<1>3. TypeOK'
  BY <1>1, <1>2 DEF TimerInv, TypeOK
<1> QED BY <1>1, <1>3
        DEF TimerInv, OneUp, TimersOfOneUp, NewIsSilent, Watched, HeardInTime, Up

LEMMA LessOfTimer ==
    ASSUME NEW n \in Nat, NEW timer \in Timers(n), timer.left # 0
    PROVE  LET later == [timer EXCEPT !.left = @ - 1]
           IN  later \in Timers(n) /\ later.socket = timer.socket /\ later.left = timer.left - 1
BY DEF Timers

LEMMA TickKeeps ==
    ASSUME TimerInv, Tick
    PROVE  TimerInv'
<1>1. /\ UNCHANGED <<state, live, intervalID, flood>> /\ MayTick
      /\ pongIn' = [s \in Sockets |-> Less(pongIn[s])]
      /\ pingIn' = [s \in Sockets |-> Less(pingIn[s])]
  BY DEF Tick
<1>2. /\ \A s \in Sockets : /\ pongIn'[s] \in 0 .. Latency \union {NONE}
                            /\ pongIn'[s] = NONE <=> pongIn[s] = NONE
                            /\ pongIn[s] \notin {NONE, 0} => pongIn'[s] = pongIn[s] - 1
      /\ \A s \in Sockets : /\ pingIn'[s] \in 0 .. PingInterval \union {NONE}
                            /\ pingIn'[s] = NONE <=> pingIn[s] = NONE
                            /\ pingIn[s] \notin {NONE, 0} => pingIn'[s] = pingIn[s] - 1
  <2>1. \A n \in Nat : \A m \in 0 .. n \union {NONE} :
          /\ Less(m) \in 0 .. n \union {NONE}
          /\ Less(m) = NONE <=> m = NONE
          /\ m \notin {NONE, 0} => Less(m) = m - 1
    BY Numbers DEF Less
  <2> QED BY <1>1, <2>1, Numbers DEF TimerInv, TypeOK
<1>3. /\ check' \in Timers(Timeout) \union {NONE}
      /\ check' = NONE <=> check = NONE
      /\ check # NONE => check'.socket = check.socket /\ check'.left = check.left - 1
  BY Numbers, LessOfTimer DEF Tick, MayTick, RanOut, TimerInv, TypeOK
<1>4. /\ retry' \in Timers(RetryDelay) \union {NONE}
      /\ retry' = NONE <=> retry = NONE
      /\ retry # NONE => retry'.socket = retry.socket
  BY Numbers, LessOfTimer DEF Tick, MayTick, RanOut, TimerInv, TypeOK
<1>5. \A s \in Sockets : /\ silence'[s] \in Nat
                         /\ silence'[s] = silence[s] \/ silence'[s] = silence[s] + 1
                         /\ state[s] = "none" => silence'[s] = silence[s]
                         /\ state[s] = "open" => silence'[s] = silence[s] + 1
  <2>1. \A s \in Sockets : silence[s] \in Nat
    BY DEF TimerInv, TypeOK
  <2>2. \A s \in Sockets : state[s] = "open" => silence[s] <= Timeout
    BY <2>1, Numbers, TimerFields DEF TimerInv, TypeOK, Watched
  <2> QED BY <2>1, <2>2 DEF Tick
<1>6. TypeOK'
  <2>1. silence' \in [Sockets -> Nat]
    BY <1>5 DEF Tick
  <2>2. /\ pongIn' \in [Sockets -> 0 .. Latency \union {NONE}]
        /\ pingIn' \in [Sockets -> 0 .. PingInterval \union {NONE}]
    BY <1>1, <1>2
  <2> QED BY <1>1, <1>3, <1>4, <2>1, <2>2 DEF TimerInv, TypeOK
<1>7. OneUp' /\ TimersOfOneUp' /\ NewIsSilent'
  BY <1>1, <1>2, <1>3, <1>4, <1>5 DEF TimerInv, OneUp, TimersOfOneUp, NewIsSilent, Up
<1>8. Watched'
  <2> SUFFICES ASSUME NEW s \in Sockets, state[s] = "open"
               PROVE  /\ intervalID = s /\ pingIn'[s] # NONE
                      /\ check' # NONE /\ check'.socket = s /\ silence'[s] + check'.left = Timeout
    BY <1>1 DEF Watched
  <2>1. /\ intervalID = s /\ pingIn[s] # NONE /\ check # NONE /\ check.socket = s
        /\ silence[s] + check.left = Timeout /\ silence[s] \in Nat
    BY DEF TimerInv, TypeOK, Watched
  <2>2. check.left \in Nat
    BY <2>1, Numbers, TimerFields DEF TimerInv, TypeOK
  <2> QED BY <1>2, <1>3, <1>5, <2>1, <2>2, Numbers
<1>9. HeardInTime'
  <2> SUFFICES ASSUME NEW s \in live, state[s] = "open"
               PROVE  /\ pongIn'[s] = NONE => silence'[s] + pingIn'[s] <= PingInterval
                      /\ pongIn'[s] # NONE => silence'[s] + pongIn'[s] <= PingInterval + Latency
    BY <1>1 DEF HeardInTime
  <2>1. /\ s \in Sockets /\ silence[s] \in Nat
        /\ pingIn[s] \in 0 .. PingInterval /\ pingIn[s] # NONE /\ pingIn[s] # 0
        /\ pongIn[s] \in 0 .. Latency \union {NONE} /\ pongIn[s] # 0
    BY <1>1, Numbers DEF TimerInv, TypeOK, Watched, MayTick
  <2>2. silence'[s] = silence[s] + 1 /\ pingIn'[s] = pingIn[s] - 1
    BY <1>2, <1>5, <2>1
  <2>3. CASE pongIn[s] = NONE
    BY <1>2, <2>1, <2>2, <2>3, Numbers DEF TimerInv, HeardInTime
  <2>4. CASE pongIn[s] # NONE
    BY <1>2, <2>1, <2>2, <2>4, Numbers DEF TimerInv, HeardInTime
  <2> QED BY <2>3, <2>4
<1> QED BY <1>6, <1>7, <1>8, <1>9 DEF TimerInv

-----------------------------------------------------------------------------

LEMMA InitTimerInv == PromptClose /\ Init => TimerInv
<1> SUFFICES ASSUME PromptClose, Init PROVE TimerInv
  OBVIOUS
<1>1. TypeOK
  BY Numbers DEF Init, TypeOK
<1> QED BY <1>1 DEF Init, TimerInv, OneUp, TimersOfOneUp, NewIsSilent, Watched, HeardInTime, Up

LEMMA NextKeeps == TimerInv /\ [Next]_vars => TimerInv'
<1> SUFFICES ASSUME TimerInv, [Next]_vars PROVE TimerInv'
  OBVIOUS
<1>1. ASSUME NEW s \in Sockets, SendPing(s) PROVE TimerInv'
  BY <1>1, PingKeeps DEF SendPing, TimerInv, TypeOK
<1>2. ASSUME NEW s \in Sockets, RetryPing(s) PROVE TimerInv'
  <2>1. flood' \in [Sockets -> 0 .. RetryPackets]
    BY <1>2, Numbers DEF RetryPing, FloodGoesOn, TimerInv, TypeOK
  <2> QED BY <1>2, <2>1, PingKeeps DEF RetryPing
<1>3. CASE UNCHANGED vars
  BY <1>3 DEF vars, TimerInv, TypeOK, OneUp, TimersOfOneUp, NewIsSilent, Watched, HeardInTime, Up
<1>4. CASE Next
  BY <1>1, <1>2, <1>4, OpenKeeps, ReceiveKeeps, CloseKeeps, OnCloseKeeps, OtherStepsKeep,
     TickKeeps DEF Next
<1> QED BY <1>3, <1>4

LEMMA TimerInvHolds == PromptClose /\ Spec => []TimerInv
<1> QED BY InitTimerInv, NextKeeps, PTL DEF Spec

(* Every reachable state is well typed. *)
THEOREM TypeCorrect == PromptClose /\ Spec => []TypeOK
<1>1. TimerInv => TypeOK
  BY DEF TimerInv
<1> QED BY <1>1, TimerInvHolds, PTL

(* No socket is left open for longer than nKeepAliveTimeoutMilliseconds    *)
(* without a ping or pong.                                                 *)
THEOREM SilentSocketsAreClosed == PromptClose /\ Spec => []SilentIsClosed
<1>1. TimerInv => SilentIsClosed
  BY Numbers, TimerFields DEF TimerInv, TypeOK, Watched, SilentIsClosed
<1> QED BY <1>1, TimerInvHolds, PTL

(* A socket that is closed has left no timer behind. *)
THEOREM TimersEndWithTheirSocket == PromptClose /\ Spec => []ClosedHasNoTimers
<1>1. TimerInv => ClosedHasNoTimers
  BY DEF TimerInv, TimersOfOneUp, ClosedHasNoTimers, Up
<1> QED BY <1>1, TimerInvHolds, PTL

(* The check of the keep alive frames does not close a connection whose    *)
(* peer answers within the latency that the parameters leave room for.     *)
THEOREM HealthyConnectionsAreKept == PromptClose /\ Spec => HealthyIsKept
<1>1. ASSUME TimerInv, NEW s \in live, CheckTimeout(s)
      PROVE  state[s] # "open"
  <2> SUFFICES ASSUME state[s] = "open" PROVE FALSE
    OBVIOUS
  <2>1. /\ s \in Sockets /\ silence[s] \in Nat /\ pingIn[s] \in 0 .. PingInterval
        /\ pongIn[s] \in 0 .. Latency \union {NONE}
    BY <1>1 DEF TimerInv, TypeOK, Watched
  <2>2. silence[s] <= PingInterval + Latency
    BY <1>1, <2>1, Numbers DEF TimerInv, HeardInTime
  <2>3. check.left = 0 /\ silence[s] + check.left = Timeout
    BY <1>1, <2>1, NewTimer DEF CheckTimeout, TimerInv, Watched
  <2> QED BY <2>1, <2>2, <2>3, Numbers
<1>2. TimerInv => [\A s \in live : CheckTimeout(s) => state[s] # "open"]_vars
  BY <1>1
<1> QED BY <1>2, TimerInvHolds, PTL DEF HealthyIsKept
=============================================================================
