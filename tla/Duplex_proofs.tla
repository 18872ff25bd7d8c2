--------------------------- MODULE Duplex_proofs ---------------------------
(***************************************************************************)
(* Proofs about Duplex, for every kind of link, any calls of both ends and *)
(* any number of faults: types, refinement of RpcCalls, requests that are  *)
(* heard, calls that are not left behind, and answers that find their      *)
(* call.                                                                   *)
(***************************************************************************)
EXTENDS Duplex, SequenceTheorems, TLAPS

Wires == [Peers -> Seq(Messages)]

Outcomes == {"idle", "pending", "resolved", "rejected"}

(* A request on its way to q is of a call of the other end that has begun  *)
(* and that nobody has executed or is serving; it was sent once, by a      *)
(* router that listens to one that does.                                   *)
RequestsOK(w) ==
    \A q \in Peers : \A i \in 1 .. Len(w[q]) :
      w[q][i].type = "request" =>
        /\ w[q][i].call \in CallsOf(Other(q)) \ executed
        /\ outcome[w[q][i].call] # "idle"
        /\ \A s \in serving : s.call # w[q][i].call
        /\ \A j \in 1 .. Len(w[q]) :
             w[q][j].type = "request" /\ w[q][j].call = w[q][i].call => i = j
        /\ kind \in Hosted => joined = Peers

(* A result is of a call that was executed. *)
ResultsOK(w, ex) ==
    \A q \in Peers : \A i \in 1 .. Len(w[q]) :
      w[q][i].type = "result" => w[q][i].call \in ex

WireOK(w) == RequestsOK(w) /\ ResultsOK(w, executed)

(* A request that is being served is like one on its way, and a call is    *)
(* not executed before it is made.                                         *)
ServingOK ==
    /\ \A s \in serving :
         /\ s.call \notin executed
         /\ outcome[s.call] # "idle"
         /\ \A t \in serving : s.call = t.call => s = t
    /\ \A c \in executed : outcome[c] # "idle"

(* The worker makes its first call as its router begins to listen, and its *)
(* owner has no client for it before.                                      *)
HandshakeOK ==
    kind \in Hosted =>
      /\ "other" \notin joined => outcome[Hello] = "idle"
      /\ "other" \in joined => "main" \in joined
      /\ ready = "resolved" \/ "main" \in hasClient => joined = Peers
      /\ "other" \in hasClient => joined = Peers

LinkInv == TypeOK /\ WireOK(wire) /\ ServingOK /\ HandshakeOK /\ NoneLeftBehind

-----------------------------------------------------------------------------
(* What the operators on the wire keep *)

LEMMA EndsOfLink ==
    /\ Peers = {"main", "other"}
    /\ \A p \in Peers : Other(p) \in Peers /\ Other(p) # p /\ Other(Other(p)) = p
    /\ \A c \in Calls : Origin(c) \in Peers
    /\ \A p \in Peers : \A c \in CallsOf(p) : c \in Calls /\ Origin(c) = p
    /\ Equal \cap Hosted = {}
BY DEF Peers, Other, Origin, CallsOf, Equal, Hosted

LEMMA ReceivedKeeps ==
    ASSUME TypeOK, WireOK(wire), NEW p \in Peers, wire[p] # <<>>
    PROVE  /\ Received(p) \in Wires
           /\ WireOK(Received(p))
           /\ Head(wire[p]) = wire[p][1] /\ 1 \in 1 .. Len(wire[p])
           /\ Head(wire[p]) \in Messages
           /\ \A i \in 1 .. Len(Received(p)[p]) :
                i + 1 \in 1 .. Len(wire[p]) /\ Received(p)[p][i] = wire[p][i + 1]
<1>1. wire[p] \in Seq(Messages) /\ \A q \in Peers : wire[q] \in Seq(Messages)
  BY DEF TypeOK
<1>2. /\ Head(wire[p]) \in Messages
      /\ Tail(wire[p]) \in Seq(Messages)
      /\ Len(Tail(wire[p])) = Len(wire[p]) - 1
      /\ \A i \in 1 .. Len(Tail(wire[p])) : Tail(wire[p])[i] = wire[p][i + 1]
  BY <1>1, HeadTailProperties
<1>3. Len(wire[p]) \in Nat \ {0}
  BY <1>1, EmptySeq
<1>4. Head(wire[p]) = wire[p][1]
  BY <1>1, <1>3
<1>5. /\ Received(p) \in Wires
      /\ Received(p)[p] = Tail(wire[p])
      /\ \A q \in Peers : q # p => Received(p)[q] = wire[q]
  BY <1>2 DEF Received, TypeOK, Wires
<1>6. \A i \in 1 .. Len(Received(p)[p]) :
        i + 1 \in 1 .. Len(wire[p]) /\ Received(p)[p][i] = wire[p][i + 1]
  BY <1>2, <1>3, <1>5
<1>7. WireOK(Received(p))
  <2> DEFINE v == Received(p)
  <2>1. \A q \in Peers : q # p => v[q] = wire[q]
    BY <1>5
  <2>2. \A i, j \in 1 .. Len(v[p]) :
          /\ i + 1 \in 1 .. Len(wire[p]) /\ v[p][i] = wire[p][i + 1]
          /\ i + 1 = j + 1 => i = j
    BY <1>6
  <2> HIDE DEF v
  <2>3. ResultsOK(v, executed)
    BY <2>1, <2>2 DEF WireOK, ResultsOK
  <2>4. RequestsOK(v)
    <3> SUFFICES ASSUME NEW q \in Peers, NEW i \in 1 .. Len(v[q]), v[q][i].type = "request"
                 PROVE  /\ v[q][i].call \in CallsOf(Other(q)) \ executed
                        /\ outcome[v[q][i].call] # "idle"
                        /\ \A s \in serving : s.call # v[q][i].call
                        /\ \A j \in 1 .. Len(v[q]) :
                             v[q][j].type = "request" /\ v[q][j].call = v[q][i].call => i = j
                        /\ kind \in Hosted => joined = Peers
      BY DEF RequestsOK
    <3>1. CASE q # p
      BY <2>1, <3>1 DEF WireOK, RequestsOK
    <3>2. CASE q = p
      <4>1. i + 1 \in 1 .. Len(wire[p]) /\ v[p][i] = wire[p][i + 1]
        BY <2>2, <3>2
      <4>2. /\ v[p][i].call \in CallsOf(Other(p)) \ executed
            /\ outcome[v[p][i].call] # "idle"
            /\ \A s \in serving : s.call # v[p][i].call
            /\ \A j \in 1 .. Len(wire[p]) :
                 wire[p][j].type = "request" /\ wire[p][j].call = v[p][i].call => i + 1 = j
            /\ kind \in Hosted => joined = Peers
        BY <3>2, <4>1 DEF WireOK, RequestsOK
      <4>3. \A j \in 1 .. Len(v[p]) :
              v[p][j].type = "request" /\ v[p][j].call = v[p][i].call => i = j
        BY <2>2, <3>2, <4>2
      <4> QED BY <3>2, <4>2, <4>3
    <3> QED BY <3>1, <3>2
  <2> QED BY <2>3, <2>4 DEF WireOK, v
<1> QED BY <1>2, <1>3, <1>4, <1>5, <1>6, <1>7

(* A message that is sent comes last on its wire, or is lost. *)
LEMMA SendAdds ==
    ASSUME NEW w \in Wires, NEW p \in Peers, NEW m \in Messages
    PROVE  /\ Send(w, p, m) \in Wires
           /\ \A r \in Peers : \A i \in 1 .. Len(Send(w, p, m)[r]) :
                \/ i \in 1 .. Len(w[r]) /\ Send(w, p, m)[r][i] = w[r][i]
                \/ r = Other(p) /\ i = Len(w[r]) + 1 /\ Send(w, p, m)[r][i] = m
<1> DEFINE q == Other(p)
<1>1. q \in Peers /\ w[q] \in Seq(Messages)
  BY EndsOfLink DEF Wires
<1>2. CASE end[q] = "closed"
  BY <1>2 DEF Send
<1>3. CASE end[q] # "closed"
  <2> DEFINE v == [w EXCEPT ![q] = Append(@, m)]
  <2>1. Send(w, p, m) = v
    BY <1>3 DEF Send
  <2>2. /\ Len(w[q]) \in Nat
        /\ Append(w[q], m) \in Seq(Messages) /\ Len(Append(w[q], m)) = Len(w[q]) + 1
        /\ Append(w[q], m)[Len(w[q]) + 1] = m
        /\ \A i \in 1 .. Len(w[q]) : Append(w[q], m)[i] = w[q][i]
    BY <1>1, AppendProperties, LenProperties
  <2>3. v \in Wires /\ v[q] = Append(w[q], m) /\ \A r \in Peers : r # q => v[r] = w[r]
    BY <1>1, <2>2 DEF Wires
  <2> HIDE DEF v
  <2>4. ASSUME NEW r \in Peers, NEW i \in 1 .. Len(v[r])
        PROVE  \/ i \in 1 .. Len(w[r]) /\ v[r][i] = w[r][i]
               \/ r = q /\ i = Len(w[r]) + 1 /\ v[r][i] = m
    BY <2>2, <2>3
  <2> QED BY <2>1, <2>3, <2>4
<1> QED BY <1>2, <1>3

LEMMA SendKeepsResults ==
    ASSUME NEW w \in Wires, NEW ex, ResultsOK(w, ex), NEW p \in Peers, NEW m \in Messages,
           m.type = "result" => m.call \in ex
    PROVE  ResultsOK(Send(w, p, m), ex)
<1> DEFINE v == Send(w, p, m)
<1>1. \A r \in Peers : \A i \in 1 .. Len(v[r]) :
        (i \in 1 .. Len(w[r]) /\ v[r][i] = w[r][i]) \/ v[r][i] = m
  BY SendAdds
<1> HIDE DEF v
<1>2. ResultsOK(v, ex)
  BY <1>1 DEF ResultsOK
<1> QED BY <1>2 DEF v

LEMMA SendKeepsRequests ==
    ASSUME NEW w \in Wires, RequestsOK(w), NEW p \in Peers, NEW m \in Messages,
           m.type # "request"
    PROVE  RequestsOK(Send(w, p, m))
<1> DEFINE v == Send(w, p, m)
<1>1. \A r \in Peers : \A i \in 1 .. Len(v[r]) :
        v[r][i].type = "request" => i \in 1 .. Len(w[r]) /\ v[r][i] = w[r][i]
  BY SendAdds
<1> HIDE DEF v
<1>2. ASSUME NEW q \in Peers, NEW i \in 1 .. Len(v[q]), v[q][i].type = "request"
      PROVE  /\ v[q][i].call \in CallsOf(Other(q)) \ executed
             /\ outcome[v[q][i].call] # "idle"
             /\ \A s \in serving : s.call # v[q][i].call
             /\ \A j \in 1 .. Len(v[q]) :
                  v[q][j].type = "request" /\ v[q][j].call = v[q][i].call => i = j
             /\ kind \in Hosted => joined = Peers
  <2>1. i \in 1 .. Len(w[q]) /\ v[q][i] = w[q][i] /\ w[q][i].type = "request"
    BY <1>1, <1>2
  <2>2. /\ w[q][i].call \in CallsOf(Other(q)) \ executed
        /\ outcome[w[q][i].call] # "idle"
        /\ \A s \in serving : s.call # w[q][i].call
        /\ \A j \in 1 .. Len(w[q]) :
             w[q][j].type = "request" /\ w[q][j].call = w[q][i].call => i = j
        /\ kind \in Hosted => joined = Peers
    BY <2>1 DEF RequestsOK
  <2>3. ASSUME NEW j \in 1 .. Len(v[q]), v[q][j].type = "request", v[q][j].call = v[q][i].call
        PROVE  i = j
    <3>1. j \in 1 .. Len(w[q]) /\ v[q][j] = w[q][j]
      BY <1>1, <2>3
    <3> QED BY <2>1, <2>2, <2>3, <3>1
  <2> QED BY <2>1, <2>2, <2>3
<1>3. RequestsOK(v)
  BY <1>2 DEF RequestsOK
<1> QED BY <1>3 DEF v

LEMMA SendKeeps ==
    ASSUME NEW w \in Wires, WireOK(w), NEW p \in Peers, NEW m \in Messages,
           m.type # "request", m.type = "result" => m.call \in executed
    PROVE  Send(w, p, m) \in Wires /\ WireOK(Send(w, p, m))
BY SendAdds, SendKeepsResults, SendKeepsRequests DEF WireOK

LEMMA EmptiedKeeps ==
    ASSUME NEW w \in Wires, WireOK(w), NEW p \in Peers
    PROVE  [w EXCEPT ![p] = <<>>] \in Wires /\ WireOK([w EXCEPT ![p] = <<>>])
<1> DEFINE v == [w EXCEPT ![p] = <<>>]
<1>1. <<>> \in Seq(Messages) /\ Len(<<>>) = 0
  BY EmptySeq
<1>2. v \in Wires /\ v[p] = <<>> /\ \A q \in Peers : q # p => v[q] = w[q]
  BY <1>1 DEF Wires
<1> HIDE DEF v
<1>3. WireOK(v)
  BY <1>1, <1>2 DEF WireOK, RequestsOK, ResultsOK
<1> QED BY <1>2, <1>3 DEF v

-----------------------------------------------------------------------------
(* What the routers and transports do to the link when something goes      *)
(* wrong *)

Reacts(p, w) ==
    \/ \E replies \in BOOLEAN : CatchWebSocket(p, w, replies) \/ CatchRTC(p, w, replies)
    \/ PhantomOnSocket(p, w)
    \/ UnmatchedOnWebSocket(p, w) \/ UnmatchedOnRTC(p, w)
    \/ UnmatchedOnWorker(p, w) \/ UnmatchedOnElectron(p, w)
    \/ CatchWorker(p, w) \/ CatchElectron(p, w)
    \/ kind = "thread" /\ (CatchThread(p, w) \/ UnmatchedOnThread(p, w))

ReadyStates == {"none", "waiting", "resolved", "rejected", "forgotten"}

(* By a reaction only the end of a thread is closed. *)
LinkKept ==
    /\ end' \in [Peers -> {"open", "closing", "closed"}]
    /\ \A q \in Peers :
         end'[q] = "closed" => end[q] = "closed" \/ (kind \in Hosted /\ q = "other")
    /\ session' \subseteq session
    /\ ready' \in ReadyStates
    /\ ready' = "resolved" => ready = "resolved"

LEMMA NullErrorIsSent ==
    ASSUME NEW w \in Wires, WireOK(w), NEW p \in Peers
    PROVE  /\ Send(w, p, NullError) \in Wires /\ WireOK(Send(w, p, NullError))
           /\ SendNullError(w, p) \in Wires /\ WireOK(SendNullError(w, p))
<1>1. NullError \in Messages /\ NullError.type = "error"
  BY DEF NullError, Message, Messages
<1>2. Send(w, p, NullError) \in Wires /\ WireOK(Send(w, p, NullError))
  BY <1>1, SendKeeps
<1> QED BY <1>2 DEF SendNullError

LEMMA ClosingKeeps ==
    ASSUME TypeOK, NEW p \in Peers, NEW w \in Wires, WireOK(w),
           CloseOnly(p, w) \/ Ignore(w) \/ (kind = "thread" /\ ExitThread(w))
             \/ (OnConnectionEnded(p) /\ (Close(p, w) \/ (wire' = w /\ UNCHANGED end)))
    PROVE  wire' \in Wires /\ WireOK(wire') /\ LinkKept
<1>1. CASE CloseOnly(p, w)
  BY <1>1 DEF CloseOnly, Close, TypeOK, LinkKept, ReadyStates
<1>2. CASE Ignore(w)
  BY <1>2 DEF Ignore, TypeOK, LinkKept, ReadyStates
<1>3. CASE kind = "thread" /\ ExitThread(w)
  <2>1. wire' \in Wires /\ WireOK(wire')
    BY <1>3, EmptiedKeeps, EndsOfLink DEF ExitThread
  <2> QED BY <1>3, <2>1, EndsOfLink DEF ExitThread, TypeOK, LinkKept, Hosted, ReadyStates
<1>4. CASE OnConnectionEnded(p) /\ (Close(p, w) \/ (wire' = w /\ UNCHANGED end))
  BY <1>4 DEF OnConnectionEnded, Close, TypeOK, LinkKept, ReadyStates
<1> QED BY <1>1, <1>2, <1>3, <1>4

LEMMA ReactionKeeps ==
    ASSUME TypeOK, NEW p \in Peers, NEW w \in Wires, WireOK(w), Reacts(p, w)
    PROVE  wire' \in Wires /\ WireOK(wire') /\ LinkKept
<1>1. CASE \E replies \in BOOLEAN : CatchWebSocket(p, w, replies) \/ CatchRTC(p, w, replies)
  <2>1. CloseOnly(p, w) \/ CloseOnly(p, SendNullError(w, p))
    BY <1>1 DEF CatchWebSocket, CatchRTC
  <2> QED BY <2>1, ClosingKeeps, NullErrorIsSent
<1>2. CASE PhantomOnSocket(p, w)
  <2>1. CloseOnly(p, w) \/ CloseOnly(p, Send(w, p, NullError))
    BY <1>2 DEF PhantomOnSocket
  <2> QED BY <2>1, ClosingKeeps, NullErrorIsSent
<1>3. CASE UnmatchedOnWebSocket(p, w) \/ UnmatchedOnRTC(p, w) \/ UnmatchedOnWorker(p, w)
             \/ UnmatchedOnElectron(p, w)
  BY <1>3, ClosingKeeps
     DEF UnmatchedOnWebSocket, UnmatchedOnRTC, UnmatchedOnWorker, UnmatchedOnElectron
<1>4. CASE CatchWorker(p, w) \/ CatchElectron(p, w)
  BY <1>4, ClosingKeeps DEF CatchWorker, CatchElectron
<1>5. CASE kind = "thread" /\ (CatchThread(p, w) \/ UnmatchedOnThread(p, w))
  BY <1>5, ClosingKeeps DEF CatchThread, UnmatchedOnThread
<1> QED BY <1>1, <1>2, <1>3, <1>4, <1>5 DEF Reacts

-----------------------------------------------------------------------------
(* Steps that change no set of calls *)

AbstractStep == [Abstract!Next]_<<outcome, executed>>

Keeps == LinkInv' /\ AbstractStep

(* A call that is made and fails, calls that are settled, or none. *)
CallsSettle ==
    \/ UNCHANGED outcome
    \/ \E cs \in SUBSET Calls : Settle(cs, "rejected")
    \/ \E c \in executed : outcome[c] = "pending" /\ Settle({c}, "resolved")
    \/ \E c \in Calls \ {Hello} :
         outcome[c] = "idle" /\ outcome' = [outcome EXCEPT ![c] = "rejected"]

LEMMA CallsSettleKeeps ==
    ASSUME LinkInv, CallsSettle, UNCHANGED executed
    PROVE  /\ outcome' \in [Calls -> Outcomes]
           /\ \A c \in Calls : outcome[c] # "idle" => outcome'[c] # "idle"
           /\ outcome[Hello] = "idle" => outcome'[Hello] = "idle"
           /\ AbstractStep
<1>1. outcome \in [Calls -> Outcomes] /\ executed \subseteq Calls /\ Hello \in Calls
  BY DEF LinkInv, TypeOK, Calls, Outcomes
<1>2. CASE UNCHANGED outcome
  BY <1>1, <1>2 DEF AbstractStep
<1>3. ASSUME NEW cs \in SUBSET Calls, Settle(cs, "rejected")
      PROVE  /\ outcome' \in [Calls -> Outcomes]
             /\ \A c \in Calls : outcome[c] # "idle" => outcome'[c] # "idle"
             /\ outcome[Hello] = "idle" => outcome'[Hello] = "idle"
             /\ AbstractStep
  <2> DEFINE lost == {c \in cs : outcome[c] = "pending"}
  <2>1. outcome' = [c \in Calls |-> IF c \in lost THEN "rejected" ELSE outcome[c]]
    BY <1>3 DEF Settle
  <2>2. lost \in SUBSET Calls /\ \A c \in lost : outcome[c] = "pending"
    OBVIOUS
  <2>3. Abstract!Reject(lost)
    BY <2>1, <2>2 DEF Abstract!Reject
  <2>4. AbstractStep
    BY <2>2, <2>3 DEF AbstractStep, Abstract!Next
  <2> QED BY <1>1, <2>1, <2>4 DEF Outcomes
<1>4. ASSUME NEW c \in executed, outcome[c] = "pending", Settle({c}, "resolved")
      PROVE  /\ outcome' \in [Calls -> Outcomes]
             /\ \A d \in Calls : outcome[d] # "idle" => outcome'[d] # "idle"
             /\ outcome[Hello] = "idle" => outcome'[Hello] = "idle"
             /\ AbstractStep
  <2>1. outcome' = [outcome EXCEPT ![c] = "resolved"]
    BY <1>1, <1>4 DEF Settle
  <2>2. Abstract!Resolve(c)
    BY <1>4, <2>1 DEF Abstract!Resolve
  <2>3. AbstractStep
    BY <1>1, <2>2 DEF AbstractStep, Abstract!Next
  <2> QED BY <1>1, <1>4, <2>1, <2>3 DEF Outcomes
<1>5. ASSUME NEW c \in Calls \ {Hello}, outcome[c] = "idle",
             outcome' = [outcome EXCEPT ![c] = "rejected"]
      PROVE  /\ outcome' \in [Calls -> Outcomes]
             /\ \A d \in Calls : outcome[d] # "idle" => outcome'[d] # "idle"
             /\ outcome[Hello] = "idle" => outcome'[Hello] = "idle"
             /\ AbstractStep
  <2>1. Abstract!Issue(c)
    BY <1>5 DEF Abstract!Issue
  <2>2. AbstractStep
    BY <2>1 DEF AbstractStep, Abstract!Next
  <2> QED BY <1>1, <1>5, <2>2 DEF Outcomes
<1> QED BY <1>2, <1>3, <1>4, <1>5 DEF CallsSettle

LEMMA NoneLeftKept ==
    ASSUME TypeOK, NoneLeftBehind, UNCHANGED kind, ~crashed,
           \A q \in Peers :
             end'[q] = "closed" => end[q] = "closed" \/ (kind \in Hosted /\ q = "other"),
           \A c \in Calls : outcome'[c] = "pending" => outcome[c] = "pending",
           unheard \subseteq unheard'
    PROVE  NoneLeftBehind'
BY EndsOfLink DEF NoneLeftBehind, Alive

Frame ==
    /\ UNCHANGED <<kind, serves, joined, hasClient, serving, executed>>
    /\ readyTimer' \in BOOLEAN
    /\ disposed' \subseteq Peers
    /\ faults' \in 0 .. MaxFaults
    /\ unheard \subseteq unheard' /\ unheard' \subseteq Calls
    /\ crashed' \in BOOLEAN

(* What a step keeps that moves no request into or out of a set. *)
LEMMA QuietStep ==
    ASSUME LinkInv, ~crashed, CallsSettle, Frame, wire' \in Wires, WireOK(wire'), LinkKept
    PROVE  Keeps
<1>1. /\ outcome' \in [Calls -> Outcomes]
      /\ \A c \in Calls : outcome[c] # "idle" => outcome'[c] # "idle"
      /\ outcome[Hello] = "idle" => outcome'[Hello] = "idle"
      /\ AbstractStep
  BY CallsSettleKeeps DEF Frame
<1>2. TypeOK'
  BY <1>1 DEF LinkInv, TypeOK, Frame, LinkKept, Wires, ReadyStates, Outcomes
<1>3. WireOK(wire)'
  <2>1. \A q \in Peers : CallsOf(Other(q)) \subseteq Calls
    BY DEF CallsOf
  <2> QED BY <1>1, <2>1 DEF WireOK, RequestsOK, ResultsOK, Frame
<1>4. ServingOK'
  BY <1>1 DEF ServingOK, LinkInv, TypeOK, Frame
<1>5. HandshakeOK'
  BY <1>1 DEF HandshakeOK, LinkInv, LinkKept, Frame
<1>6. \A c \in Calls : outcome'[c] = "pending" => outcome[c] = "pending"
  BY DEF CallsSettle, Settle, LinkInv, TypeOK
<1>7. NoneLeftBehind'
  BY <1>6, NoneLeftKept DEF LinkInv, LinkKept, Frame
<1> QED BY <1>1, <1>2, <1>3, <1>4, <1>5, <1>7 DEF LinkInv, Keeps

-----------------------------------------------------------------------------
(* Setting up *)

(* What a step keeps that adds an end to its router. *)
LEMMA SetupStep ==
    ASSUME LinkInv, ~crashed, HandshakeOK',
           UNCHANGED <<kind, serves, end, wire, callVars, faultVars>>,
           joined \subseteq joined', joined' \subseteq Peers,
           session' \subseteq joined', hasClient' \subseteq joined',
           ready' \in ReadyStates, readyTimer' \in BOOLEAN
    PROVE  Keeps
<1>1. TypeOK'
  BY DEF LinkInv, TypeOK, callVars, faultVars, ReadyStates
<1>2. WireOK(wire)'
  <2>1. joined = Peers => joined' = Peers
    OBVIOUS
  <2> QED BY <2>1 DEF LinkInv, WireOK, RequestsOK, ResultsOK, callVars
<1>3. ServingOK'
  BY DEF LinkInv, ServingOK, callVars
<1>4. NoneLeftBehind'
  BY NoneLeftKept DEF LinkInv, callVars, faultVars
<1> QED BY <1>1, <1>2, <1>3, <1>4 DEF LinkInv, Keeps, AbstractStep, callVars

LEMMA AddSocketKeeps ==
    ASSUME LinkInv, NEW p \in Peers, AddWebSocketSync(p) \/ AddRTCDataChannelSync(p)
    PROVE  Keeps
<1>1. kind \in Equal /\ AddSocket(p)
  BY DEF AddWebSocketSync, AddRTCDataChannelSync, Equal
<1>2. /\ joined' = joined \union {p} /\ session' = session \union {p} /\ ~crashed
      /\ UNCHANGED <<end, ready, wire, kind, serves, hasClient, readyTimer, callVars, faultVars>>
  BY <1>1 DEF AddSocket, Join
<1>3. HandshakeOK'
  BY <1>1, <1>2, EndsOfLink DEF HandshakeOK
<1> QED BY <1>2, <1>3, SetupStep DEF LinkInv, TypeOK, ReadyStates

LEMMA AddHostedKeeps ==
    ASSUME LinkInv, AddWorker \/ AddThreadWorker \/ AddBrowserWindow
    PROVE  Keeps
<1>1. AddHosted
  BY DEF AddWorker, AddThreadWorker, AddBrowserWindow
<1>2. /\ joined' = joined \union {"main"} /\ session' = session \union {"main"} /\ ~crashed
      /\ ready' = "waiting" /\ readyTimer' = TRUE
      /\ UNCHANGED <<end, wire, kind, serves, hasClient, callVars, faultVars>>
  BY <1>1 DEF AddHosted, Join
<1>3. HandshakeOK'
  BY <1>2 DEF HandshakeOK, LinkInv, TypeOK, callVars, Peers
<1> QED BY <1>2, <1>3, SetupStep, EndsOfLink DEF LinkInv, TypeOK, ReadyStates

LEMMA MakeClientKeeps ==
    ASSUME LinkInv, NEW p \in Peers, MakeClient(p)
    PROVE  Keeps
<1>1. /\ p \in session /\ hasClient' = hasClient \union {p} /\ ~crashed
      /\ kind \in Hosted => ready = "resolved"
      /\ UNCHANGED <<linkVars, kind, serves, joined, readyTimer, callVars, faultVars>>
  BY DEF MakeClient, Alive
<1>2. HandshakeOK'
  BY <1>1 DEF HandshakeOK, LinkInv, linkVars, callVars
<1> QED BY <1>1, <1>2, SetupStep DEF LinkInv, TypeOK, ReadyStates, linkVars

(* A request that is sent is the only one of its call. *)
LEMMA RequestSent ==
    ASSUME LinkInv, NEW c \in Calls, outcome[c] = "idle", outcome'[c] # "idle",
           \A d \in Calls : outcome[d] # "idle" => outcome'[d] # "idle",
           UNCHANGED <<kind, serving, executed>>, joined \subseteq joined', joined' \subseteq Peers,
           kind \in Hosted => joined' = Peers,
           wire' = Send(wire, Origin(c), Message("request", c))
    PROVE  wire' \in Wires /\ WireOK(wire)' /\ ServingOK'
<1> DEFINE m == Message("request", c)
           p == Origin(c)
<1>1. p \in Peers /\ wire \in Wires /\ m \in Messages /\ m.type = "request" /\ m.call = c
  BY EndsOfLink DEF LinkInv, TypeOK, Wires, Message, Messages
<1>2. c \notin executed /\ \A s \in serving : s.call # c
  BY DEF LinkInv, ServingOK
<1>3. c \in CallsOf(Other(Other(p)))
  BY <1>1, EndsOfLink DEF CallsOf
<1>4. /\ wire' \in Wires
      /\ \A r \in Peers : \A i \in 1 .. Len(wire'[r]) :
           \/ i \in 1 .. Len(wire[r]) /\ wire'[r][i] = wire[r][i]
           \/ r = Other(p) /\ i = Len(wire[r]) + 1 /\ wire'[r][i] = m
  BY <1>1, SendAdds
<1>5. \A q \in Peers : CallsOf(Other(q)) \subseteq Calls
  BY DEF CallsOf
<1> HIDE DEF m, p
<1>6. \A q \in Peers : \A i \in 1 .. Len(wire[q]) :
        wire[q][i].type = "request" => wire[q][i].call # c
  BY DEF LinkInv, WireOK, RequestsOK
<1>7. RequestsOK(wire)'
  <2> SUFFICES ASSUME NEW q \in Peers, NEW i \in 1 .. Len(wire'[q]), wire'[q][i].type = "request"
               PROVE  /\ wire'[q][i].call \in CallsOf(Other(q)) \ executed
                      /\ outcome'[wire'[q][i].call] # "idle"
                      /\ \A s \in serving : s.call # wire'[q][i].call
                      /\ \A j \in 1 .. Len(wire'[q]) :
                           wire'[q][j].type = "request" /\ wire'[q][j].call = wire'[q][i].call
                             => i = j
    BY DEF RequestsOK
  <2>1. CASE i \in 1 .. Len(wire[q]) /\ wire'[q][i] = wire[q][i]
    <3>1. /\ wire[q][i].call \in CallsOf(Other(q)) \ executed
          /\ outcome[wire[q][i].call] # "idle"
          /\ \A s \in serving : s.call # wire[q][i].call
          /\ \A j \in 1 .. Len(wire[q]) :
               wire[q][j].type = "request" /\ wire[q][j].call = wire[q][i].call => i = j
      BY <2>1 DEF LinkInv, WireOK, RequestsOK
    <3>2. \A j \in 1 .. Len(wire'[q]) :
            wire'[q][j].type = "request" /\ wire'[q][j].call = wire'[q][i].call => i = j
      BY <1>1, <1>4, <1>6, <2>1, <3>1
    <3> QED BY <1>5, <2>1, <3>1, <3>2
  <2>2. CASE q = Other(p) /\ i = Len(wire[q]) + 1 /\ wire'[q][i] = m
    <3>1. \A j \in 1 .. Len(wire'[q]) :
            wire'[q][j].type = "request" /\ wire'[q][j].call = wire'[q][i].call => i = j
      BY <1>1, <1>4, <1>6, <2>2
    <3> QED BY <1>1, <1>2, <1>3, <2>2, <3>1
  <2> QED BY <1>4, <2>1, <2>2
<1>8. ResultsOK(wire, executed)'
  BY <1>1, <1>4 DEF LinkInv, WireOK, ResultsOK
<1>9. ServingOK'
  BY DEF LinkInv, ServingOK, TypeOK
<1> QED BY <1>4, <1>7, <1>8, <1>9 DEF WireOK

LEMMA AnnounceKeeps ==
    ASSUME LinkInv, StartWorkerEndpoint \/ AddMainProcess
    PROVE  Keeps
<1>1. /\ "main" \in joined /\ "other" \notin joined /\ ~crashed
      /\ ~(kind \in Hosted /\ end["other"] = "closed") /\ kind \in Hosted
      /\ joined' = joined \union {"other"} /\ session' = session \union {"other"}
      /\ hasClient' = hasClient \union {"other"}
      /\ outcome' = [outcome EXCEPT ![Hello] = "pending"]
      /\ wire' = Send(wire, "other", Message("request", Hello))
      /\ UNCHANGED <<end, ready, kind, serves, readyTimer, serving, executed, faultVars>>
  BY DEF StartWorkerEndpoint, AddMainProcess, Announce, Join, Alive, Hosted
<1>2. joined' = Peers
  BY <1>1 DEF LinkInv, TypeOK, Peers
<1>3. outcome[Hello] = "idle" /\ Hello \in Calls /\ outcome \in [Calls -> Outcomes]
  BY <1>1 DEF LinkInv, HandshakeOK, TypeOK, Calls, Outcomes
<1>4. Origin(Hello) = "other"
  BY DuplexConstantsOK DEF Origin
<1>5. wire' \in Wires /\ WireOK(wire)' /\ ServingOK'
  BY <1>1, <1>2, <1>3, <1>4, RequestSent DEF LinkInv, TypeOK
<1>6. TypeOK'
  BY <1>1, <1>2, <1>3, <1>5, EndsOfLink DEF LinkInv, TypeOK, Wires, faultVars
<1>7. HandshakeOK'
  BY <1>2, EndsOfLink DEF HandshakeOK
<1>8. NoneLeftBehind'
  BY <1>1, <1>3, <1>4 DEF LinkInv, NoneLeftBehind, Alive, faultVars
<1>9. Abstract!Issue(Hello)
  BY <1>1, <1>3 DEF Abstract!Issue
<1>10. AbstractStep
  BY <1>3, <1>9 DEF AbstractStep, Abstract!Next
<1> QED BY <1>5, <1>6, <1>7, <1>8, <1>10 DEF LinkInv, Keeps

-----------------------------------------------------------------------------
(* Calls *)

LEMMA MakeRequestKeeps ==
    ASSUME LinkInv, NEW c \in Calls, MakeRequest(c)
    PROVE  Keeps
<1> DEFINE Reaches == end[Origin(c)] # "closed" \/ (kind \in Hosted /\ Origin(c) = "other")
<1>1. \E connected \in BOOLEAN :
        Request(c, connected) /\ (connected => kind = "thread" \/ Reaches)
  <2>1. CASE RequestOnWebSocket(c) \/ RequestOnRTC(c)
    <3>1. Request(c, end[Origin(c)] = "open") /\ (end[Origin(c)] = "open") \in BOOLEAN
      BY <2>1 DEF RequestOnWebSocket, RequestOnRTC
    <3> QED BY <3>1
  <2>2. CASE RequestOnThread(c)
    BY <2>2 DEF RequestOnThread
  <2>3. CASE RequestOnWorker(c) \/ RequestOnElectron(c)
    <3> DEFINE there == Origin(c) = "main" => end["main"] # "closed"
    <3>1. Request(c, there) /\ there \in BOOLEAN /\ kind \in Hosted
      BY <2>3 DEF RequestOnWorker, RequestOnElectron, Hosted
    <3>2. there => Reaches
      BY <3>1, EndsOfLink
    <3> HIDE DEF there, Reaches
    <3> QED BY <3>1, <3>2
  <2> QED BY <2>1, <2>2, <2>3 DEF MakeRequest
<1> PICK connected \in BOOLEAN :
        Request(c, connected) /\ (connected => kind = "thread" \/ Reaches)
  BY <1>1
<1>2. /\ c # Hello /\ outcome[c] = "idle" /\ Alive(Origin(c)) /\ Origin(c) \in hasClient
      /\ UNCHANGED <<end, session, ready, setupVars, serving, executed, disposed, faults, crashed>>
      /\ unheard \subseteq unheard' /\ unheard' \subseteq Calls
      /\ TooLate(c) => c \in unheard'
  BY <1>1 DEF Request, MakeRequest, LinkInv, TypeOK
<1>3. kind \in Hosted => joined = Peers
  BY <1>2, EndsOfLink DEF LinkInv, HandshakeOK, Peers
<1>4. outcome \in [Calls -> Outcomes] /\ joined \subseteq Peers /\ wire \in Wires
  BY DEF LinkInv, TypeOK, Outcomes, Wires
<1>5. CASE ~connected
  <2>1. outcome' = [outcome EXCEPT ![c] = "rejected"] /\ UNCHANGED wire
    BY <1>1, <1>5 DEF Request
  <2>2. CallsSettle
    BY <1>2, <2>1 DEF CallsSettle
  <2>3. Frame /\ LinkKept
    BY <1>2 DEF Frame, LinkKept, LinkInv, TypeOK, ReadyStates, setupVars
  <2> QED BY <1>2, <1>4, <2>1, <2>2, <2>3, QuietStep DEF LinkInv, Alive
<1>6. CASE connected
  <2>1. PICK o \in {"resolved", "pending"} :
          /\ outcome' = [outcome EXCEPT ![c] = o]
          /\ o = "resolved" => c \in Notifications
          /\ wire' = Send(wire, Origin(c), Message("request", c))
    BY <1>1, <1>6 DEF Request
  <2>2. wire' \in Wires /\ WireOK(wire)' /\ ServingOK'
    BY <1>2, <1>3, <1>4, <2>1, RequestSent DEF setupVars
  <2>3. TypeOK'
    BY <1>2, <1>4, <2>1, <2>2 DEF LinkInv, TypeOK, Wires, Outcomes, setupVars
  <2>4. HandshakeOK'
    BY <1>2, <1>4, <2>1 DEF LinkInv, HandshakeOK, setupVars
  <2>5. NoneLeftBehind'
    <3>1. \/ end[Origin(c)] # "closed" \/ ~Alive(Origin(c))
          \/ kind = "thread" /\ c \in unheard'
      BY <1>1, <1>2, <1>6 DEF Alive, TooLate
    <3> QED BY <1>2, <1>4, <2>1, <3>1 DEF LinkInv, NoneLeftBehind, Alive, setupVars
  <2>6. Abstract!Issue(c)
    BY <1>2, <2>1 DEF Abstract!Issue
  <2>7. AbstractStep
    BY <2>6 DEF AbstractStep, Abstract!Next
  <2> QED BY <2>2, <2>3, <2>4, <2>5, <2>7 DEF LinkInv, Keeps
<1> QED BY <1>5, <1>6

-----------------------------------------------------------------------------
(* Messages *)

(* A request that is received leaves no other of its call. *)
LEMMA RequestTaken ==
    ASSUME LinkInv, NEW p \in Peers, wire[p] # <<>>, Head(wire[p]).type = "request"
    PROVE  /\ Head(wire[p]).call \in CallsOf(Other(p)) \ executed
           /\ outcome[Head(wire[p]).call] # "idle"
           /\ \A s \in serving : s.call # Head(wire[p]).call
           /\ \A q \in Peers : \A i \in 1 .. Len(Received(p)[q]) :
                Received(p)[q][i].type = "request" => Received(p)[q][i].call # Head(wire[p]).call
           /\ kind \in Hosted => joined = Peers
<1> DEFINE v == Received(p)
           m == Head(wire[p])
<1>1. /\ m = wire[p][1] /\ 1 \in 1 .. Len(wire[p])
      /\ \A i \in 1 .. Len(v[p]) : i + 1 \in 1 .. Len(wire[p]) /\ v[p][i] = wire[p][i + 1]
      /\ \A i \in 1 .. Len(v[p]) : i + 1 # 1
  BY ReceivedKeeps DEF LinkInv
<1>2. \A q \in Peers : q # p => v[q] = wire[q] /\ q = Other(p) /\ Other(q) = p
  BY EndsOfLink DEF Received, LinkInv, TypeOK
<1> HIDE DEF v, m
<1>3. /\ m.call \in CallsOf(Other(p)) \ executed
      /\ outcome[m.call] # "idle"
      /\ \A s \in serving : s.call # m.call
      /\ \A j \in 1 .. Len(wire[p]) :
           wire[p][j].type = "request" /\ wire[p][j].call = m.call => 1 = j
      /\ kind \in Hosted => joined = Peers
  BY <1>1 DEF LinkInv, WireOK, RequestsOK, m
<1>4. ASSUME NEW q \in Peers, NEW i \in 1 .. Len(v[q]), v[q][i].type = "request"
      PROVE  v[q][i].call # m.call
  <2>1. CASE q = p
    BY <1>1, <1>3, <1>4, <2>1
  <2>2. CASE q # p
    <3>1. v[q][i].call \in CallsOf(p)
      BY <1>2, <1>4, <2>2 DEF LinkInv, WireOK, RequestsOK
    <3> QED BY <1>3, <3>1, EndsOfLink DEF CallsOf
  <2> QED BY <2>1, <2>2
<1> QED BY <1>3, <1>4 DEF v, m

(* What holds of the calls after a step in which c, whose request is on no *)
(* wire any more, is or is not executed. *)
LEMMA CallServed ==
    ASSUME LinkInv, NEW c \in Calls, outcome[c] # "idle", UNCHANGED <<kind, joined, outcome>>,
           executed' = executed \/ (c \notin executed /\ executed' = executed \union {c}),
           \A s \in serving' : s \in serving \/ s.call = c,
           wire' \in Wires, RequestsOK(wire'), ResultsOK(wire', executed'),
           \A q \in Peers : \A i \in 1 .. Len(wire'[q]) :
             wire'[q][i].type = "request" => wire'[q][i].call # c
    PROVE  /\ WireOK(wire)'
           /\ \A d \in executed' : outcome'[d] # "idle"
           /\ executed' \subseteq Calls
           /\ AbstractStep
<1>1. RequestsOK(wire)'
  BY DEF RequestsOK
<1>2. ResultsOK(wire, executed)'
  BY DEF ResultsOK
<1>3. (\A d \in executed' : outcome'[d] # "idle") /\ executed' \subseteq Calls
  BY DEF LinkInv, ServingOK, TypeOK
<1>4. AbstractStep
  <2>1. CASE executed' = executed
    BY <2>1 DEF AbstractStep
  <2>2. CASE c \notin executed /\ executed' = executed \union {c}
    <3>1. Abstract!Execute(c)
      BY <2>2 DEF Abstract!Execute
    <3> QED BY <3>1 DEF AbstractStep, Abstract!Next
  <2> QED BY <2>1, <2>2
<1> QED BY <1>1, <1>2, <1>3, <1>4 DEF WireOK

LEMMA ConnectsKeeps ==
    ASSUME LinkInv, Connects
    PROVE  Keeps
<1>1. OnRPCConnectToEndpoint
  BY DEF Connects, WorkerConnects, ThreadConnects, WindowConnects
<1>2. /\ ~crashed /\ wire["main"] # <<>> /\ Head(wire["main"]).type = "request"
      /\ Head(wire["main"]).call = Hello /\ kind \in Hosted
      /\ UNCHANGED <<end, session, kind, serves, joined, hasClient, serving, outcome, faultVars>>
  BY <1>1 DEF OnRPCConnectToEndpoint, Receives, Alive, IsHello
<1> DEFINE v == Received("main")
<1>3. "main" \in Peers
  BY DEF Peers
<1>4. v \in Wires /\ RequestsOK(v) /\ ResultsOK(v, executed)
  BY <1>2, <1>3, ReceivedKeeps DEF LinkInv, WireOK
<1>5. /\ Hello \in Calls /\ Hello \notin executed /\ outcome[Hello] # "idle"
      /\ \A s \in serving : s.call # Hello
      /\ \A q \in Peers : \A i \in 1 .. Len(v[q]) : v[q][i].type = "request" => v[q][i].call # Hello
      /\ joined = Peers
  BY <1>2, <1>3, RequestTaken DEF CallsOf
<1> HIDE DEF v
<1>6. CASE /\ wire' = v
           /\ UNCHANGED <<ready, readyTimer, executed>>
  <2>1. Frame /\ LinkKept
    BY <1>2, <1>6 DEF Frame, LinkKept, LinkInv, TypeOK, ReadyStates, faultVars
  <2> QED BY <1>2, <1>4, <1>6, <2>1, QuietStep DEF CallsSettle, WireOK
<1>7. CASE /\ executed' = executed \union {Hello}
           /\ wire' = Send(v, "main", Message("result", Hello))
           /\ ready' = IF ready = "waiting" THEN "resolved" ELSE ready
           /\ readyTimer' = FALSE
  <2> DEFINE m == Message("result", Hello)
  <2>1. m \in Messages /\ m.type = "result" /\ m.call = Hello
    BY <1>5 DEF Message, Messages
  <2>2. \A q \in Peers : \A i \in 1 .. Len(wire'[q]) :
          wire'[q][i].type = "request" => wire'[q][i].call # Hello
    <3>1. \A q \in Peers : \A i \in 1 .. Len(wire'[q]) :
            (i \in 1 .. Len(v[q]) /\ wire'[q][i] = v[q][i]) \/ wire'[q][i] = m
      BY <1>3, <1>4, <1>7, <2>1, SendAdds
    <3> HIDE DEF m
    <3> QED BY <1>5, <2>1, <3>1
  <2>3. ResultsOK(v, executed')
    BY <1>4, <1>7 DEF ResultsOK
  <2> HIDE DEF m
  <2>4. wire' \in Wires /\ RequestsOK(wire') /\ ResultsOK(wire', executed')
    BY <1>3, <1>4, <1>7, <2>1, <2>3, SendAdds, SendKeepsRequests, SendKeepsResults DEF m
  <2>5. /\ WireOK(wire)'
        /\ \A d \in executed' : outcome'[d] # "idle"
        /\ executed' \subseteq Calls
        /\ AbstractStep
    BY <1>2, <1>5, <1>7, <2>2, <2>4, CallServed
  <2>6. TypeOK'
    BY <1>2, <1>7, <2>4, <2>5 DEF LinkInv, TypeOK, Wires, faultVars
  <2>7. ServingOK'
    BY <1>2, <1>5, <1>7, <2>5 DEF LinkInv, ServingOK
  <2>8. HandshakeOK'
    BY <1>2, <1>5, EndsOfLink DEF HandshakeOK
  <2>9. NoneLeftBehind'
    BY <1>2, NoneLeftKept DEF LinkInv, faultVars
  <2> QED BY <2>5, <2>6, <2>7, <2>8, <2>9 DEF LinkInv, Keeps
<1> QED BY <1>1, <1>6, <1>7 DEF OnRPCConnectToEndpoint, v

(* A message that nobody hears is off its wire, and that is all. *)
LEMMA ComesTooEarlyKeeps ==
    ASSUME LinkInv, NEW p \in Peers, ComesTooEarly(p)
    PROVE  Keeps
<1>1. /\ ~crashed /\ wire[p] # <<>> /\ wire' = Received(p)
      /\ unheard' = unheard \union ({Head(wire[p]).call} \ {NONE})
      /\ UNCHANGED <<end, session, ready, setupVars, callVars, disposed, faults, crashed>>
  BY DEF ComesTooEarly
<1>2. wire' \in Wires /\ WireOK(wire') /\ Head(wire[p]) \in Messages
  BY <1>1, ReceivedKeeps DEF LinkInv
<1>3. unheard \subseteq unheard' /\ unheard' \subseteq Calls
  BY <1>1, <1>2 DEF LinkInv, TypeOK, Messages
<1>4. Frame /\ LinkKept /\ CallsSettle
  BY <1>1, <1>3
     DEF Frame, LinkKept, CallsSettle, LinkInv, TypeOK, ReadyStates, setupVars, callVars
<1> QED BY <1>1, <1>2, <1>4, QuietStep

LEMMA ReceiveRequestKeeps ==
    ASSUME LinkInv, NEW p \in Peers, ReceiveRequest(p)
    PROVE  Keeps
<1> DEFINE v == Received(p)
           c == Head(wire[p]).call
           s == [call |-> c, known |-> p \in session]
<1>1. /\ ~crashed /\ wire[p] # <<>> /\ Head(wire[p]).type = "request"
      /\ serving' = serving \union {s} /\ wire' = v
      /\ UNCHANGED <<end, session, ready, setupVars, outcome, executed, faultVars>>
  BY DEF ReceiveRequest, Receives, Alive
<1>2. v \in Wires /\ RequestsOK(v) /\ ResultsOK(v, executed)
  BY <1>1, ReceivedKeeps DEF LinkInv, WireOK
<1>3. /\ c \in Calls /\ c \notin executed /\ outcome[c] # "idle"
      /\ \A t \in serving : t.call # c
      /\ \A q \in Peers : \A i \in 1 .. Len(v[q]) : v[q][i].type = "request" => v[q][i].call # c
  BY <1>1, RequestTaken DEF CallsOf
<1>4. s.call = c /\ (c \in Calls => s \in [call : Calls, known : BOOLEAN])
  OBVIOUS
<1> HIDE DEF v, c, s
<1>5. /\ WireOK(wire)'
      /\ \A d \in executed' : outcome'[d] # "idle"
      /\ AbstractStep
  BY <1>1, <1>2, <1>3, <1>4, CallServed DEF setupVars
<1>6. TypeOK'
  BY <1>1, <1>2, <1>3, <1>4 DEF LinkInv, TypeOK, Wires, setupVars, faultVars
<1>7. ServingOK'
  BY <1>1, <1>3, <1>4, <1>5 DEF LinkInv, ServingOK
<1>8. HandshakeOK'
  BY <1>1 DEF LinkInv, HandshakeOK, setupVars
<1>9. NoneLeftBehind'
  BY <1>1, NoneLeftKept DEF LinkInv, setupVars, faultVars
<1> QED BY <1>5, <1>6, <1>7, <1>8, <1>9 DEF LinkInv, Keeps

(* A message that a router refuses or cannot place. *)
LEMMA ReactingKeeps ==
    ASSUME LinkInv, NEW p \in Peers, wire[p] # <<>>, ~crashed, Reacts(p, Received(p)),
           UNCHANGED <<setupVars, callVars, faultVars>>
    PROVE  Keeps
<1>1. Received(p) \in Wires /\ WireOK(Received(p))
  BY ReceivedKeeps DEF LinkInv
<1>2. wire' \in Wires /\ WireOK(wire') /\ LinkKept
  BY <1>1, ReactionKeeps DEF LinkInv
<1>3. Frame /\ CallsSettle
  BY DEF Frame, CallsSettle, LinkInv, TypeOK, setupVars, callVars, faultVars
<1> QED BY <1>2, <1>3, QuietStep

LEMMA RouteMessageKeeps ==
    ASSUME LinkInv, NEW p \in Peers, RouteMessage(p)
    PROVE  Keeps
<1>1. CASE ReceiveRequest(p)
  BY <1>1, ReceiveRequestKeeps
<1>2. CASE RefuseRequest(p)
  <2>1. /\ ~crashed /\ wire[p] # <<>> /\ UNCHANGED <<setupVars, callVars, faultVars>>
        /\ CloseOnly(p, Received(p)) \/ CloseOnly(p, Send(Received(p), p, NullError))
    BY <1>2 DEF RefuseRequest, Receives, Alive
  <2>2. Received(p) \in Wires /\ WireOK(Received(p))
    BY <2>1, ReceivedKeeps DEF LinkInv
  <2>3. wire' \in Wires /\ WireOK(wire') /\ LinkKept
    BY <2>1, <2>2, ClosingKeeps, NullErrorIsSent DEF LinkInv
  <2>4. Frame /\ CallsSettle
    BY <2>1 DEF Frame, CallsSettle, LinkInv, TypeOK, setupVars, callVars, faultVars
  <2> QED BY <2>1, <2>3, <2>4, QuietStep
<1>3. CASE ReceiveIgnored(p)
  <2>1. /\ ~crashed /\ wire[p] # <<>> /\ UNCHANGED <<setupVars, callVars, faultVars>>
        /\ UnmatchedOnElectron(p, Received(p))
    BY <1>3 DEF ReceiveIgnored, Receives, Alive, UnmatchedOnElectron
  <2> QED BY <2>1, ReactingKeeps DEF Reacts
<1>4. CASE ReceiveAnswer(p)
  <2> DEFINE m == Head(wire[p])
  <2>1. /\ ~crashed /\ wire[p] # <<>> /\ Ignore(Received(p))
        /\ m.type \in Responses /\ Matches(p, m)
        /\ Settle({m.call}, IF m.type = "result" THEN "resolved" ELSE "rejected")
        /\ UNCHANGED <<setupVars, serving, executed, faultVars>>
    BY <1>4 DEF ReceiveAnswer, Receives, Alive
  <2>2. Received(p) \in Wires /\ WireOK(Received(p)) /\ m = wire[p][1] /\ 1 \in 1 .. Len(wire[p])
    BY <2>1, ReceivedKeeps DEF LinkInv
  <2>3. m.type = "result" => m.call \in executed
    BY <2>2 DEF LinkInv, WireOK, ResultsOK
  <2> HIDE DEF m
  <2>4. CallsSettle
    BY <2>1, <2>3 DEF CallsSettle, Matches, CallsOf
  <2>5. wire' \in Wires /\ WireOK(wire') /\ LinkKept
    BY <2>1, <2>2, ClosingKeeps DEF LinkInv
  <2>6. Frame
    BY <2>1 DEF Frame, LinkInv, TypeOK, setupVars, faultVars
  <2> QED BY <2>1, <2>4, <2>5, <2>6, QuietStep
<1> QED BY <1>1, <1>2, <1>3, <1>4 DEF RouteMessage

LEMMA ReceiveKeeps ==
    ASSUME LinkInv, NEW p \in Peers, Receive(p)
    PROVE  Keeps
<1>1. CASE RouteMessage(p)
  BY <1>1, RouteMessageKeeps
<1>2. CASE ~RouteMessage(p)
  <2>1. Reacts(p, Received(p))
    BY <1>2 DEF Receive, Reacts, RouteWebSocket, RouteRTC, RouteWorker, RouteThread, RouteElectron,
                UnmatchedOnElectron
  <2>2. ReceiveMalformed(p) \/ ReceivePhantom(p) \/ ReceiveUnmatched(p)
    BY <1>2 DEF Receive, RouteWebSocket, RouteRTC, RouteWorker, RouteThread, RouteElectron
  <2>3. wire[p] # <<>> /\ ~crashed /\ UNCHANGED <<setupVars, callVars, faultVars>>
    BY <2>2 DEF ReceiveMalformed, ReceivePhantom, ReceiveUnmatched, Receives, Alive
  <2> QED BY <2>1, <2>3, ReactingKeeps
<1> QED BY <1>1, <1>2

(* What holds after processRequest(), however it ends, when what is on its *)
(* way then has no other requests, and no result that was not computed.    *)
LEMMA ServedKeeps ==
    ASSUME LinkInv, NEW s \in serving, ~crashed, serving' = serving \ {s},
           executed' = executed \/ executed' = executed \union {s.call},
           wire' \in Wires, RequestsOK(wire'), ResultsOK(wire', executed'), LinkKept,
           UNCHANGED <<setupVars, outcome, unheard>>,
           disposed' \subseteq Peers, faults' \in 0 .. MaxFaults, crashed' \in BOOLEAN
    PROVE  Keeps
<1>1. s.call \in Calls /\ s.call \notin executed /\ outcome[s.call] # "idle"
  BY DEF LinkInv, ServingOK, TypeOK
<1>2. \A q \in Peers : \A i \in 1 .. Len(wire'[q]) :
        wire'[q][i].type = "request" => wire'[q][i].call # s.call
  BY DEF RequestsOK
<1>3. /\ WireOK(wire)'
      /\ \A d \in executed' : outcome'[d] # "idle"
      /\ executed' \subseteq Calls
      /\ AbstractStep
  BY <1>1, <1>2, CallServed DEF setupVars
<1>4. TypeOK'
  BY <1>3 DEF LinkInv, TypeOK, LinkKept, ReadyStates, Wires, setupVars
<1>5. ServingOK'
  BY <1>1, <1>3 DEF LinkInv, ServingOK
<1>6. HandshakeOK'
  BY DEF LinkInv, HandshakeOK, LinkKept, setupVars
<1>7. NoneLeftBehind'
  BY NoneLeftKept DEF LinkInv, LinkKept, setupVars
<1> QED BY <1>3, <1>4, <1>5, <1>6, <1>7 DEF LinkInv, Keeps

LEMMA FinishServingKeeps ==
    ASSUME LinkInv, NEW p \in Peers, NEW s \in serving, NEW type \in Responses,
           FinishServing(p, s, type),
           \/ ReplyOnSocket(p, type, s.call) \/ ReplyToWorker(p, type, s.call)
           \/ ReplyElsewhere(p, type, s.call)
    PROVE  Keeps
<1> DEFINE m == Message(type, s.call)
<1>1. /\ ~crashed /\ serving' = serving \ {s}
      /\ UNCHANGED <<end, session, ready, setupVars, outcome, disposed, faults, unheard>>
  BY DEF FinishServing, Processed, Serves, Alive
<1>2. /\ executed' = executed \/ executed' = executed \union {s.call}
      /\ type = "result" => s.call \in executed'
  BY DEF FinishServing, Processed
<1>3. crashed' \in BOOLEAN /\ (wire' = wire \/ wire' = Send(wire, p, m))
  BY DEF ReplyOnSocket, ReplyToWorker, ReplyElsewhere, Reply, LinkInv, TypeOK
<1>4. wire \in Wires /\ RequestsOK(wire) /\ ResultsOK(wire, executed')
  BY <1>2 DEF LinkInv, TypeOK, Wires, WireOK, ResultsOK
<1>5. m \in Messages /\ m.type = type /\ m.call = s.call /\ type # "request"
  BY DEF LinkInv, TypeOK, Message, Messages, Responses
<1> HIDE DEF m
<1>6. wire' \in Wires /\ RequestsOK(wire') /\ ResultsOK(wire', executed')
  BY <1>2, <1>3, <1>4, <1>5, SendAdds, SendKeepsRequests, SendKeepsResults
<1>7. LinkKept
  BY <1>1 DEF LinkKept, LinkInv, TypeOK, ReadyStates
<1> QED BY <1>1, <1>2, <1>3, <1>6, <1>7, ServedKeeps DEF LinkInv, TypeOK

LEMMA ServingThrowsKeeps ==
    ASSUME LinkInv, NEW p \in Peers, NEW s \in serving, ServingThrows(p, s), Reacts(p, wire)
    PROVE  Keeps
<1>1. /\ ~crashed /\ serving' = serving \ {s} /\ faults' \in 0 .. MaxFaults
      /\ executed' = executed \/ executed' = executed \union {s.call}
      /\ UNCHANGED <<setupVars, outcome, disposed, unheard, crashed>>
  BY DuplexConstantsOK DEF ServingThrows, Processed, Serves, Alive, Fault, LinkInv, TypeOK
<1>2. wire' \in Wires /\ WireOK(wire') /\ LinkKept
  BY ReactionKeeps DEF LinkInv, TypeOK, Wires
<1>3. RequestsOK(wire') /\ ResultsOK(wire', executed')
  BY <1>1, <1>2 DEF WireOK, ResultsOK
<1> QED BY <1>1, <1>2, <1>3, ServedKeeps DEF LinkInv, TypeOK

LEMMA RequestServedKeeps ==
    ASSUME LinkInv, NEW p \in Peers, RequestServed(p)
    PROVE  Keeps
<1>1. PICK s \in serving :
        \/ \E type \in Responses :
             /\ FinishServing(p, s, type)
             /\ \/ ReplyOnSocket(p, type, s.call) \/ ReplyToWorker(p, type, s.call)
                \/ ReplyElsewhere(p, type, s.call)
        \/ ServingThrows(p, s) /\ Reacts(p, wire)
  <2>1. \A s \in serving : IsAnswered(s.call) \in BOOLEAN
    BY DEF IsAnswered
  <2> QED BY <2>1 DEF RequestServed, FinishWebSocket, FinishRTC, FinishWorker, FinishThread,
        FinishElectron, Reacts
<1>2. CASE ServingThrows(p, s) /\ Reacts(p, wire)
  BY <1>2, ServingThrowsKeeps
<1> QED BY <1>1, <1>2, FinishServingKeeps

LEMMA SendMalformedKeeps ==
    ASSUME LinkInv, NEW p \in Peers, SendMalformed(p)
    PROVE  Keeps
<1> DEFINE m == Message("malformed", NONE)
<1>1. /\ ~crashed /\ faults' \in 0 .. MaxFaults /\ wire' = Send(wire, p, m)
      /\ UNCHANGED <<end, session, ready, setupVars, callVars, disposed, unheard, crashed>>
  BY DuplexConstantsOK DEF SendMalformed, Alive, Fault, LinkInv, TypeOK
<1>2. m \in Messages /\ m.type = "malformed"
  BY DEF Message, Messages
<1>3. wire' \in Wires /\ WireOK(wire')
  BY <1>1, <1>2, SendKeeps DEF LinkInv, TypeOK, Wires
<1>4. Frame /\ LinkKept /\ CallsSettle
  BY <1>1 DEF Frame, LinkKept, CallsSettle, LinkInv, TypeOK, ReadyStates, setupVars, callVars
<1> QED BY <1>1, <1>3, <1>4, QuietStep

-----------------------------------------------------------------------------
(* Ends of the link *)

(* The loss closes the end, and leaves no call of it pending. *)
LEMMA LinkLostKeeps ==
    ASSUME LinkInv, NEW p \in Peers, LinkLost(p)
    PROVE  Keeps
<1>1. /\ ~crashed /\ end' = [end EXCEPT ![p] = "closed"]
      /\ wire' = [wire EXCEPT ![p] = <<>>]
      /\ session' = session \ {p}
      /\ ready' = IF p = "main" /\ ready = "waiting" THEN "forgotten" ELSE ready
      /\ Settle(CallsOf(p), "rejected")
      /\ UNCHANGED <<setupVars, serving, executed, faultVars>>
  BY DEF LinkLost, OnConnectionEnded, RejectAllPromises
<1>2. CallsSettle
  BY <1>1 DEF CallsSettle, CallsOf
<1>3. /\ outcome' \in [Calls -> Outcomes]
      /\ \A c \in Calls : outcome[c] # "idle" => outcome'[c] # "idle"
      /\ outcome[Hello] = "idle" => outcome'[Hello] = "idle"
      /\ AbstractStep
  BY <1>1, <1>2, CallsSettleKeeps
<1>4. wire' \in Wires /\ WireOK(wire')
  BY <1>1, EmptiedKeeps DEF LinkInv, TypeOK, Wires
<1>5. TypeOK'
  BY <1>1, <1>3, <1>4 DEF LinkInv, TypeOK, Wires, Outcomes, setupVars, faultVars
<1>6. WireOK(wire)'
  <2>1. \A q \in Peers : CallsOf(Other(q)) \subseteq Calls
    BY DEF CallsOf
  <2> QED BY <1>1, <1>3, <1>4, <2>1 DEF WireOK, RequestsOK, ResultsOK, setupVars
<1>7. ServingOK'
  BY <1>1, <1>3 DEF ServingOK, LinkInv, TypeOK
<1>8. HandshakeOK'
  BY <1>1, <1>3 DEF HandshakeOK, LinkInv, setupVars
<1>9. NoneLeftBehind'
  <2>1. /\ \A c \in CallsOf(p) : outcome'[c] # "pending"
        /\ \A c \in Calls : outcome'[c] = "pending" => outcome[c] = "pending"
    BY <1>1 DEF Settle, CallsOf
  <2>2. \A c \in Calls : Origin(c) # p => end'[Origin(c)] = end[Origin(c)]
    BY <1>1, EndsOfLink DEF LinkInv, TypeOK
  <2>3. ASSUME NEW c \in Calls, end'[Origin(c)] = "closed", Alive(Origin(c))',
               ~(kind' = "thread" /\ c \in unheard')
        PROVE  outcome'[c] # "pending"
    <3>1. CASE Origin(c) = p
      BY <2>1, <3>1 DEF CallsOf
    <3>2. CASE Origin(c) # p
      <4>1. /\ end[Origin(c)] = "closed" /\ Alive(Origin(c))
            /\ ~(kind = "thread" /\ c \in unheard)
        BY <1>1, <2>2, <2>3, <3>2 DEF Alive, setupVars, faultVars
      <4> QED BY <2>1, <4>1 DEF LinkInv, NoneLeftBehind
    <3> QED BY <3>1, <3>2
  <2> QED BY <2>3 DEF NoneLeftBehind
<1> QED BY <1>3, <1>5, <1>6, <1>7, <1>8, <1>9 DEF LinkInv, Keeps

LEMMA EndKeeps ==
    ASSUME LinkInv, Lost \/ \E p \in Peers : WebSocketClosed(p) \/ RTCChannelClosed(p)
    PROVE  Keeps
BY LinkLostKeeps, EndsOfLink
   DEF Lost, WorkerExit, ThreadExit, WindowClosed, WebSocketClosed, RTCChannelClosed

LEMMA ErrorKeeps ==
    ASSUME LinkInv,
           \/ WorkerError \/ ThreadError
           \/ \E p \in Peers : WebSocketError(p) \/ RTCChannelError(p)
    PROVE  Keeps
<1>1. PICK p \in Peers : LinkError(p)
  BY EndsOfLink DEF WorkerError, ThreadError, WebSocketError, RTCChannelError
<1>2. /\ ~crashed /\ OnConnectionEnded(p) /\ Close(p, wire)
      /\ Settle(CallsOf(p), "rejected")
      /\ UNCHANGED <<setupVars, serving, executed, faultVars>>
  BY <1>1 DEF LinkError, RejectAllPromises
<1>3. wire' \in Wires /\ WireOK(wire') /\ LinkKept
  BY <1>2, ClosingKeeps DEF LinkInv, TypeOK, Wires
<1>4. CallsSettle
  BY <1>2 DEF CallsSettle, CallsOf
<1>5. Frame
  BY <1>2 DEF Frame, LinkInv, TypeOK, setupVars, faultVars
<1> QED BY <1>2, <1>3, <1>4, <1>5, QuietStep

LEMMA OtherDiesKeeps ==
    ASSUME LinkInv, OtherDies
    PROVE  Keeps
<1>1. /\ ~crashed /\ kind \in Hosted
      /\ end' = [end EXCEPT !["other"] = "closed"]
      /\ wire' = [wire EXCEPT !["other"] = <<>>]
      /\ UNCHANGED <<session, ready, setupVars, callVars, faultVars>>
  BY DEF OtherDies, ExitThread, Alive
<1>2. wire' \in Wires /\ WireOK(wire')
  BY <1>1, EmptiedKeeps, EndsOfLink DEF LinkInv, TypeOK, Wires
<1>3. LinkKept
  BY <1>1, EndsOfLink DEF LinkKept, LinkInv, TypeOK, ReadyStates
<1>4. Frame /\ CallsSettle
  BY <1>1 DEF Frame, CallsSettle, LinkInv, TypeOK, setupVars, callVars, faultVars
<1> QED BY <1>1, <1>2, <1>3, <1>4, QuietStep

LEMMA DisposeKeeps ==
    ASSUME LinkInv, NEW p \in Peers, Dispose(p)
    PROVE  Keeps
<1>1. /\ ~crashed /\ disposed' = disposed \union {p}
      /\ UNCHANGED <<setupVars, serving, executed, unheard, crashed>>
  BY DEF Dispose, Alive
<1>2. CASE DisposeSocket(p)
  <2>1. CloseOnly(p, wire) /\ UNCHANGED <<outcome, faults>>
    BY <1>2 DEF DisposeSocket
  <2>2. wire' \in Wires /\ WireOK(wire') /\ LinkKept
    BY <2>1, ClosingKeeps DEF LinkInv, TypeOK, Wires
  <2>3. Frame /\ CallsSettle
    BY <1>1, <2>1 DEF Frame, CallsSettle, LinkInv, TypeOK, setupVars
  <2> QED BY <1>1, <2>2, <2>3, QuietStep
<1>3. CASE DisposeWorkerTransport(p)
  <2>1. /\ faults' \in 0 .. MaxFaults /\ Settle(CallsOf(p), "rejected") /\ UNCHANGED linkVars
    BY <1>3, DuplexConstantsOK DEF DisposeWorkerTransport, Fault, RejectAllPromises, LinkInv, TypeOK
  <2>2. wire' \in Wires /\ WireOK(wire') /\ LinkKept
    BY <2>1 DEF LinkKept, LinkInv, TypeOK, Wires, ReadyStates, linkVars
  <2>3. Frame /\ CallsSettle
    BY <1>1, <2>1 DEF Frame, CallsSettle, CallsOf, LinkInv, TypeOK, setupVars
  <2> QED BY <1>1, <2>2, <2>3, QuietStep
<1> QED BY <1>2, <1>3 DEF Dispose

LEMMA TimesOutKeeps ==
    ASSUME LinkInv, TimesOut
    PROVE  Keeps
<1>1. /\ ~crashed /\ readyTimer' = FALSE /\ crashed' \in BOOLEAN
      /\ ready' = IF ready = "waiting" THEN "rejected" ELSE ready
      /\ UNCHANGED <<end, session, wire, kind, serves, joined, hasClient, callVars, disposed,
                     faults, unheard>>
  BY DEF TimesOut, WorkerReadyTimeout, ThreadReadyTimeout, WindowReadyTimeout, ReadyTimeout
<1>2. wire' \in Wires /\ WireOK(wire')
  BY <1>1 DEF LinkInv, TypeOK, Wires
<1>3. Frame /\ LinkKept /\ CallsSettle
  BY <1>1 DEF Frame, LinkKept, CallsSettle, LinkInv, TypeOK, ReadyStates, callVars
<1> QED BY <1>1, <1>2, <1>3, QuietStep

-----------------------------------------------------------------------------

LEMMA InitLinkInv == Init => LinkInv
<1> SUFFICES ASSUME Init PROVE LinkInv
  OBVIOUS
<1>1. <<>> \in Seq(Messages) /\ Len(<<>>) = 0
  BY EmptySeq
<1>2. wire = [p \in Peers |-> <<>>] /\ serving = {} /\ executed = {}
  BY DEF Init
<1>3. TypeOK
  <2>1. serves \subseteq Peers /\ kind \in Kinds
    BY EndsOfLink DEF Init
  <2>2. wire \in [Peers -> Seq(Messages)] /\ end \in [Peers -> {"open", "closing", "closed"}]
    BY <1>1 DEF Init
  <2>3. faults \in 0 .. MaxFaults /\ outcome \in [Calls -> Outcomes]
    BY DuplexConstantsOK DEF Init, Outcomes
  <2> QED BY <2>1, <2>2, <2>3 DEF Init, TypeOK, Outcomes
<1>4. WireOK(wire)
  BY <1>1, <1>2 DEF WireOK, RequestsOK, ResultsOK
<1>5. ServingOK
  BY <1>2 DEF ServingOK
<1>6. HandshakeOK
  BY DEF Init, HandshakeOK, Calls
<1>7. NoneLeftBehind
  BY DEF Init, NoneLeftBehind
<1> QED BY <1>3, <1>4, <1>5, <1>6, <1>7 DEF LinkInv

LEMMA NextKeeps == LinkInv /\ [Next]_vars => Keeps
<1> SUFFICES ASSUME LinkInv, [Next]_vars PROVE Keeps
  OBVIOUS
<1>1. CASE AddWorker \/ AddThreadWorker \/ AddBrowserWindow
  BY <1>1, AddHostedKeeps
<1>2. CASE StartWorkerEndpoint \/ AddMainProcess
  BY <1>2, AnnounceKeeps
<1>3. CASE Connects \/ TimesOut \/ Lost
  BY <1>3, ConnectsKeeps, TimesOutKeeps, EndKeeps
<1>4. CASE OtherDies \/ WorkerError \/ ThreadError
  BY <1>4, OtherDiesKeeps, ErrorKeeps
<1>5. CASE \E c \in Calls : MakeRequest(c)
  BY <1>5, MakeRequestKeeps
<1>6. ASSUME NEW p \in Peers, AddWebSocketSync(p) \/ AddRTCDataChannelSync(p) \/ MakeClient(p)
      PROVE  Keeps
  BY <1>6, AddSocketKeeps, MakeClientKeeps
<1>7. ASSUME NEW p \in Peers,
             ComesTooEarly(p) \/ Receive(p) \/ RequestServed(p) \/ SendMalformed(p)
      PROVE  Keeps
  BY <1>7, ComesTooEarlyKeeps, ReceiveKeeps, RequestServedKeeps, SendMalformedKeeps
<1>8. ASSUME NEW p \in Peers,
             \/ WebSocketClosed(p) \/ RTCChannelClosed(p)
             \/ WebSocketError(p) \/ RTCChannelError(p) \/ Dispose(p)
      PROVE  Keeps
  BY <1>8, EndKeeps, ErrorKeeps, DisposeKeeps
<1>9. CASE UNCHANGED vars
  <2>1. UNCHANGED <<linkVars, setupVars, callVars, faultVars>>
    BY <1>9 DEF vars
  <2> QED BY <2>1
          DEF Keeps, LinkInv, AbstractStep, TypeOK, WireOK, RequestsOK, ResultsOK, ServingOK,
              HandshakeOK, NoneLeftBehind, Alive, linkVars, setupVars, callVars, faultVars
<1> QED BY <1>1, <1>2, <1>3, <1>4, <1>5, <1>6, <1>7, <1>8, <1>9 DEF Next

LEMMA LinkInvariant == Spec => []LinkInv
<1>1. LinkInv /\ [Next]_vars => LinkInv'
  BY NextKeeps DEF Keeps
<1> QED BY InitLinkInv, <1>1, PTL DEF Spec

(* Every variable keeps its type, for every kind of link. *)
THEOREM TypeCorrect == Spec => []TypeOK
<1>1. LinkInv => TypeOK
  BY DEF LinkInv
<1> QED BY <1>1, LinkInvariant, PTL

(* No call is settled or executed twice, or resolved without having been   *)
(* executed, over any kind of link, in either direction and whatever is    *)
(* lost, malformed or thrown: a step of the link is a step of RpcCalls or  *)
(* leaves its variables alone.                                             *)
THEOREM DuplexRefinesRpcCalls == Spec => Refines
<1>1. Init => Abstract!Init
  BY DEF Init, Abstract!Init
<1>2. LinkInv /\ [Next]_vars => [Abstract!Next]_Abstract!vars
  BY NextKeeps DEF Keeps, AbstractStep, Abstract!vars
<1> QED BY <1>1, <1>2, LinkInvariant, PTL DEF Spec, Refines, Abstract!Spec

(* addWorker() and addBrowserWindow() do not return before the worker has  *)
(* announced itself, so that what the reverse client sends is heard.       *)
THEOREM RequestsAreHeard == Spec => []HeardWhenSent
<1>1. LinkInv => HeardWhenSent
  <2>1. ASSUME LinkInv, kind \in Hosted, NEW p \in Peers, NEW i \in DOMAIN wire[p],
               wire[p][i].type = "request"
        PROVE  p \in joined
    <3>1. i \in 1 .. Len(wire[p])
      BY <2>1, LenProperties DEF LinkInv, TypeOK
    <3> QED BY <2>1, <3>1 DEF LinkInv, WireOK, RequestsOK
  <2> QED BY <2>1 DEF HeardWhenSent
<1> QED BY <1>1, LinkInvariant, PTL

(* rejectAllPromises() at the end of a link leaves none of the caller's    *)
(* promises behind, and none is made after it but for a call to a thread   *)
(* that has exited.                                                        *)
THEOREM NoCallLeftBehind == Spec => []NoneLeftBehind
<1>1. LinkInv => NoneLeftBehind
  BY DEF LinkInv
<1> QED BY <1>1, LinkInvariant, PTL
-----------------------------------------------------------------------------
(* Answers and the calls that wait for them.  What follows holds of peers  *)
(* that have the link or are to have it: one whose session is gone never   *)
(* has it again, and ignores what still comes.                             *)

Attends(p) == p \notin disposed /\ (p \in joined => p \in session)

(* The request of c is on its way, or its method runs. *)
Asked(w, c) ==
    \/ \E q \in Peers : \E i \in 1 .. Len(w[q]) : w[q][i].type = "request" /\ w[q][i].call = c
    \/ \E s \in serving : s.call = c

(* A response is to a call that waits, whose request is gone, and that has *)
(* no other response. *)
AnswersOK(w) ==
    \A p \in Peers : \A i \in 1 .. Len(w[p]) :
      Attends(p) /\ w[p][i].type \in Responses =>
        /\ w[p][i].call \in CallsOf(p)
        /\ outcome[w[p][i].call] = "pending"
        /\ ~Asked(w, w[p][i].call)
        /\ \A j \in 1 .. Len(w[p]) :
             w[p][j].type \in Responses /\ w[p][j].call = w[p][i].call => i = j

WaitedFor(w) ==
    \A c \in Calls \ Notifications :
      Attends(Origin(c)) /\ Asked(w, c) => outcome[c] = "pending"

WellFormed(w) == \A p \in Peers : \A i \in 1 .. Len(w[p]) : w[p][i].type # "malformed"

Tidy == AnswersOK(wire) /\ WaitedFor(wire) /\ WellFormed(wire)

Calm == faults = 0 /\ serves = Peers /\ ~crashed

MadeByClients == \A c \in Calls : outcome[c] # "idle" => Origin(c) \in hasClient

AnswerInv == MadeByClients /\ (Calm => Tidy)

(* Each wire of v is what is left of that of w. *)
Fewer(v, w) ==
    \A q \in Peers : \E k \in Nat : \A i \in 1 .. Len(v[q]) :
      i + k \in 1 .. Len(w[q]) /\ v[q][i] = w[q][i + k]

LEMMA FewerReceived ==
    ASSUME LinkInv, NEW p \in Peers, wire[p] # <<>>
    PROVE  Fewer(Received(p), wire)
<1>1. \A i \in 1 .. Len(Received(p)[p]) :
        i + 1 \in 1 .. Len(wire[p]) /\ Received(p)[p][i] = wire[p][i + 1]
  BY ReceivedKeeps DEF LinkInv
<1>2. \A q \in Peers : q # p => Received(p)[q] = wire[q]
  BY DEF Received, LinkInv, TypeOK
<1> DEFINE v == Received(p)
<1> HIDE DEF v
<1>3. ASSUME NEW q \in Peers
      PROVE  \E k \in Nat : \A i \in 1 .. Len(v[q]) :
               i + k \in 1 .. Len(wire[q]) /\ v[q][i] = wire[q][i + k]
  <2>1. CASE q = p
    <3>1. \A i \in 1 .. Len(v[q]) : i + 1 \in 1 .. Len(wire[q]) /\ v[q][i] = wire[q][i + 1]
      BY <1>1, <2>1 DEF v
    <3> QED BY <3>1
  <2>2. CASE q # p
    <3>1. \A i \in 1 .. Len(v[q]) : i + 0 \in 1 .. Len(wire[q]) /\ v[q][i] = wire[q][i + 0]
      BY <1>2, <2>2 DEF v
    <3> QED BY <3>1
  <2> QED BY <2>1, <2>2
<1> QED BY <1>3 DEF Fewer, v

LEMMA FewerSame == \A w : Fewer(w, w)
<1>1. ASSUME NEW w, NEW q \in Peers
      PROVE  \E k \in Nat : \A i \in 1 .. Len(w[q]) :
               i + k \in 1 .. Len(w[q]) /\ w[q][i] = w[q][i + k]
  <2>1. \A i \in 1 .. Len(w[q]) : i + 0 \in 1 .. Len(w[q]) /\ w[q][i] = w[q][i + 0]
    OBVIOUS
  <2> QED BY <2>1
<1> QED BY <1>1 DEF Fewer

LEMMA FewerEmptied ==
    ASSUME NEW w \in Wires, Fewer(w, wire), NEW p \in Peers
    PROVE  Fewer([w EXCEPT ![p] = <<>>], wire)
<1> DEFINE v == [w EXCEPT ![p] = <<>>]
<1>1. v[p] = <<>> /\ Len(<<>>) = 0 /\ \A q \in Peers : q # p => v[q] = w[q]
  BY EmptySeq DEF Wires
<1> HIDE DEF v
<1>2. ASSUME NEW q \in Peers
      PROVE  \E k \in Nat : \A i \in 1 .. Len(v[q]) :
               i + k \in 1 .. Len(wire[q]) /\ v[q][i] = wire[q][i + k]
  <2>1. CASE q = p
    <3>1. \A i \in 1 .. Len(v[q]) : i + 0 \in 1 .. Len(wire[q]) /\ v[q][i] = wire[q][i + 0]
      BY <1>1, <2>1
    <3> QED BY <3>1
  <2>2. CASE q # p
    <3>1. PICK k \in Nat : \A i \in 1 .. Len(w[q]) :
            i + k \in 1 .. Len(wire[q]) /\ w[q][i] = wire[q][i + k]
      BY DEF Fewer
    <3>2. \A i \in 1 .. Len(v[q]) : i + k \in 1 .. Len(wire[q]) /\ v[q][i] = wire[q][i + k]
      BY <1>1, <2>2, <3>1
    <3> QED BY <3>2
  <2> QED BY <2>1, <2>2
<1> QED BY <1>2 DEF Fewer, v

LEMMA FewerAsked ==
    ASSUME Fewer(wire', wire), \A s \in serving' : Asked(wire, s.call)
    PROVE  \A d : Asked(wire, d)' => Asked(wire, d)
<1> SUFFICES ASSUME NEW d, Asked(wire, d)' PROVE Asked(wire, d)
  OBVIOUS
<1>1. CASE \E q \in Peers : \E i \in 1 .. Len(wire'[q]) :
             wire'[q][i].type = "request" /\ wire'[q][i].call = d
  BY <1>1 DEF Asked, Fewer
<1>2. CASE \E s \in serving' : s.call = d
  BY <1>2
<1> QED BY <1>1, <1>2 DEF Asked

Attention == \A p \in Peers : Attends(p)' => Attends(p)

(* A step that sends nothing, and settles no call of a peer that attends.  *)
LEMMA QuietIsTidy ==
    ASSUME Tidy, Fewer(wire', wire), Attention,
           \A s \in serving' : Asked(wire, s.call),
           \A c \in Calls : Attends(Origin(c))' /\ outcome[c] = "pending" => outcome'[c] = "pending"
    PROVE  Tidy'
<1>1. \A d : Asked(wire, d)' => Asked(wire, d)
  BY FewerAsked
<1>2. AnswersOK(wire)'
  <2> SUFFICES ASSUME NEW p \in Peers, NEW i \in 1 .. Len(wire'[p]), Attends(p)',
                      wire'[p][i].type \in Responses
               PROVE  /\ wire'[p][i].call \in CallsOf(p)
                      /\ outcome'[wire'[p][i].call] = "pending"
                      /\ ~Asked(wire, wire[p][i].call)'
                      /\ \A j \in 1 .. Len(wire'[p]) :
                           wire'[p][j].type \in Responses /\ wire'[p][j].call = wire'[p][i].call
                             => i = j
    BY DEF AnswersOK
  <2>1. PICK k \in Nat : \A j \in 1 .. Len(wire'[p]) :
          j + k \in 1 .. Len(wire[p]) /\ wire'[p][j] = wire[p][j + k]
    BY DEF Fewer
  <2>2. i + k \in 1 .. Len(wire[p]) /\ wire'[p][i] = wire[p][i + k] /\ Attends(p)
    BY <2>1 DEF Attention
  <2>3. /\ wire'[p][i].call \in CallsOf(p)
        /\ outcome[wire'[p][i].call] = "pending"
        /\ ~Asked(wire, wire'[p][i].call)
        /\ \A j \in 1 .. Len(wire[p]) :
             wire[p][j].type \in Responses /\ wire[p][j].call = wire'[p][i].call => i + k = j
    BY <2>2 DEF Tidy, AnswersOK
  <2>4. ASSUME NEW j \in 1 .. Len(wire'[p]), wire'[p][j].type \in Responses,
               wire'[p][j].call = wire'[p][i].call
        PROVE  i = j
    <3>1. j + k \in 1 .. Len(wire[p]) /\ wire'[p][j] = wire[p][j + k]
      BY <2>1
    <3>2. i + k = j + k
      BY <2>3, <2>4, <3>1
    <3> QED BY <3>2
  <2>5. outcome'[wire'[p][i].call] = "pending"
    BY <2>3 DEF CallsOf
  <2> QED BY <1>1, <2>3, <2>4, <2>5
<1>3. WaitedFor(wire)'
  BY <1>1, EndsOfLink DEF Tidy, WaitedFor, Attention
<1>4. WellFormed(wire)'
  BY DEF Tidy, WellFormed, Fewer
<1> QED BY <1>2, <1>3, <1>4 DEF Tidy

LEMMA QuietAnswers ==
    ASSUME AnswerInv, hasClient \subseteq hasClient',
           \A c \in Calls :
             outcome'[c] # "idle" => outcome[c] # "idle" \/ Origin(c) \in hasClient',
           Calm' =>
             /\ Calm /\ Attention /\ Fewer(wire', wire)
             /\ \A s \in serving' : Asked(wire, s.call)
             /\ \A c \in Calls :
                  Attends(Origin(c))' /\ outcome[c] = "pending" => outcome'[c] = "pending"
    PROVE  AnswerInv'
<1>1. MadeByClients'
  BY DEF AnswerInv, MadeByClients
<1>2. Calm' => Tidy'
  BY QuietIsTidy DEF AnswerInv
<1> QED BY <1>1, <1>2 DEF AnswerInv

(* The response that a method's end sends is the one to its call. *)
LEMMA AnswerIsTidy ==
    ASSUME Tidy, NEW v \in Wires, Fewer(v, wire), NEW p \in Peers,
           NEW c \in CallsOf(Other(p)) \ Notifications, Asked(wire, c),
           NEW m \in Messages, m.type \in Responses, m.call = c,
           wire' = Send(v, p, m),
           \A q \in Peers : \A i \in 1 .. Len(v[q]) : v[q][i].type = "request" => v[q][i].call # c,
           \A s \in serving' : s \in serving /\ s.call # c,
           UNCHANGED outcome, Attention
    PROVE  Tidy'
<1>1. m.type # "request" /\ m.type # "malformed"
  BY DEF Responses
<1>2. \A r \in Peers : \A i \in 1 .. Len(wire'[r]) :
        \/ i \in 1 .. Len(v[r]) /\ wire'[r][i] = v[r][i]
        \/ r = Other(p) /\ i = Len(v[r]) + 1 /\ wire'[r][i] = m
  BY SendAdds
<1>3. \A r \in Peers : \A i \in 1 .. Len(v[r]) : \E j \in 1 .. Len(wire[r]) : v[r][i] = wire[r][j]
  BY DEF Fewer
<1>4. ~Asked(wire, c)' /\ \A d : Asked(wire, d)' => Asked(wire, d)
  <2>1. ASSUME NEW q \in Peers, NEW i \in 1 .. Len(wire'[q]), wire'[q][i].type = "request"
        PROVE  /\ wire'[q][i].call # c
               /\ \E j \in 1 .. Len(wire[q]) : wire'[q][i] = wire[q][j]
    BY <1>1, <1>2, <1>3, <2>1
  <2> QED BY <2>1 DEF Asked
<1>5. \A i \in 1 .. Len(v[Other(p)]) :
        Attends(Other(p)) /\ v[Other(p)][i].type \in Responses => v[Other(p)][i].call # c
  BY <1>3, EndsOfLink DEF Tidy, AnswersOK
<1>6. Other(p) \in Peers /\ c \in Calls /\ Origin(c) = Other(p)
  BY EndsOfLink
<1>7. AnswersOK(wire)'
  <2> SUFFICES ASSUME NEW r \in Peers, NEW i \in 1 .. Len(wire'[r]), Attends(r)',
                      wire'[r][i].type \in Responses
               PROVE  /\ wire'[r][i].call \in CallsOf(r)
                      /\ outcome[wire'[r][i].call] = "pending"
                      /\ ~Asked(wire, wire[r][i].call)'
                      /\ \A j \in 1 .. Len(wire'[r]) :
                           wire'[r][j].type \in Responses /\ wire'[r][j].call = wire'[r][i].call
                             => i = j
    BY DEF AnswersOK
  <2>1. Attends(r)
    BY DEF Attention
  <2>2. CASE i \in 1 .. Len(v[r]) /\ wire'[r][i] = v[r][i]
    <3>1. PICK k \in Nat : \A j \in 1 .. Len(v[r]) :
            j + k \in 1 .. Len(wire[r]) /\ v[r][j] = wire[r][j + k]
      BY DEF Fewer
    <3>2. /\ v[r][i].call \in CallsOf(r)
          /\ outcome[v[r][i].call] = "pending"
          /\ ~Asked(wire, v[r][i].call)
          /\ \A j \in 1 .. Len(wire[r]) :
               wire[r][j].type \in Responses /\ wire[r][j].call = v[r][i].call => i + k = j
      BY <2>1, <2>2, <3>1 DEF Tidy, AnswersOK
    <3>3. ASSUME NEW j \in 1 .. Len(wire'[r]), wire'[r][j].type \in Responses,
                 wire'[r][j].call = wire'[r][i].call
          PROVE  i = j
      <4>1. CASE j \in 1 .. Len(v[r]) /\ wire'[r][j] = v[r][j]
        <5>1. j + k \in 1 .. Len(wire[r]) /\ wire'[r][j] = wire[r][j + k]
          BY <3>1, <4>1
        <5>2. i + k = j + k
          BY <2>2, <3>2, <3>3, <5>1
        <5> QED BY <2>2, <4>1, <5>2
      <4>2. CASE wire'[r][j] = m
        BY <2>2, <3>2, <3>3, <4>2
      <4> QED BY <1>2, <4>1, <4>2
    <3> QED BY <1>4, <2>2, <3>2, <3>3
  <2>3. CASE r = Other(p) /\ i = Len(v[r]) + 1 /\ wire'[r][i] = m
    <3>1. outcome[c] = "pending"
      BY <1>6, <2>1, <2>3 DEF Tidy, WaitedFor
    <3>2. ASSUME NEW j \in 1 .. Len(wire'[r]), wire'[r][j].type \in Responses,
                 wire'[r][j].call = c
          PROVE  i = j
      BY <1>2, <1>5, <2>1, <2>3, <3>2
    <3> QED BY <1>4, <2>3, <3>1, <3>2
  <2> QED BY <1>2, <2>2, <2>3
<1>8. WaitedFor(wire)'
  BY <1>4, EndsOfLink DEF Tidy, WaitedFor, Attention
<1>9. WellFormed(wire)'
  <2> SUFFICES ASSUME NEW r \in Peers, NEW i \in 1 .. Len(wire'[r])
               PROVE  wire'[r][i].type # "malformed"
    BY DEF WellFormed
  <2>1. CASE i \in 1 .. Len(v[r]) /\ wire'[r][i] = v[r][i]
    <3>1. PICK j \in 1 .. Len(wire[r]) : v[r][i] = wire[r][j]
      BY <1>3, <2>1
    <3> QED BY <2>1, <3>1 DEF Tidy, WellFormed
  <2>2. CASE wire'[r][i] = m
    BY <1>1, <2>2
  <2> QED BY <1>2, <2>1, <2>2
<1> QED BY <1>7, <1>8, <1>9 DEF Tidy

(* A call that is made waits unless it is a notification, and nothing has  *)
(* answered it. *)
LEMMA RequestIsTidy ==
    ASSUME LinkInv, Tidy, NEW c \in Calls, outcome[c] = "idle",
           NEW o, c \notin Notifications => o = "pending",
           outcome' = [outcome EXCEPT ![c] = o],
           wire' = Send(wire, Origin(c), Message("request", c)),
           UNCHANGED serving, Attention
    PROVE  Tidy'
<1> DEFINE m == Message("request", c)
           p == Origin(c)
<1>1. p \in Peers /\ wire \in Wires /\ m \in Messages /\ m.type = "request" /\ m.call = c
  BY EndsOfLink DEF LinkInv, TypeOK, Wires, Message, Messages
<1>2. /\ m.type \notin Responses /\ m.type # "malformed"
      /\ \A d \in Calls : d # c => outcome'[d] = outcome[d]
      /\ outcome'[c] = o
  BY <1>1 DEF Responses, LinkInv, TypeOK
<1>3. \A r \in Peers : \A i \in 1 .. Len(wire'[r]) :
        \/ i \in 1 .. Len(wire[r]) /\ wire'[r][i] = wire[r][i]
        \/ wire'[r][i] = m
  BY <1>1, SendAdds
<1> HIDE DEF m, p
<1>4. \A d : d # c /\ Asked(wire, d)' => Asked(wire, d)
  BY <1>1, <1>3 DEF Asked
<1>5. AnswersOK(wire)'
  <2> SUFFICES ASSUME NEW r \in Peers, NEW i \in 1 .. Len(wire'[r]), Attends(r)',
                      wire'[r][i].type \in Responses
               PROVE  /\ wire'[r][i].call \in CallsOf(r)
                      /\ outcome'[wire'[r][i].call] = "pending"
                      /\ ~Asked(wire, wire[r][i].call)'
                      /\ \A j \in 1 .. Len(wire'[r]) :
                           wire'[r][j].type \in Responses /\ wire'[r][j].call = wire'[r][i].call
                             => i = j
    BY DEF AnswersOK
  <2>1. i \in 1 .. Len(wire[r]) /\ wire'[r][i] = wire[r][i] /\ Attends(r)
    BY <1>2, <1>3 DEF Attention
  <2>2. /\ wire[r][i].call \in CallsOf(r)
        /\ outcome[wire[r][i].call] = "pending"
        /\ ~Asked(wire, wire[r][i].call)
        /\ \A j \in 1 .. Len(wire[r]) :
             wire[r][j].type \in Responses /\ wire[r][j].call = wire[r][i].call => i = j
    BY <2>1 DEF Tidy, AnswersOK
  <2>3. wire[r][i].call # c /\ wire[r][i].call \in Calls
    BY <2>2 DEF CallsOf
  <2> QED BY <1>2, <1>3, <1>4, <2>1, <2>2, <2>3
<1>6. WaitedFor(wire)'
  BY <1>2, <1>4, EndsOfLink DEF Tidy, WaitedFor, Attention
<1>7. WellFormed(wire)'
  BY <1>2, <1>3 DEF Tidy, WellFormed
<1> QED BY <1>5, <1>6, <1>7 DEF Tidy

(* Settling the call a response is to disturbs no other call. *)
LEMMA AnswerTakenIsTidy ==
    ASSUME LinkInv, Tidy, NEW p \in Peers, ReceiveAnswer(p)
    PROVE  Tidy'
<1> DEFINE c == Head(wire[p]).call
           v == Received(p)
<1>1. /\ wire[p] # <<>> /\ Head(wire[p]).type \in Responses
      /\ c \in CallsOf(p) /\ wire' = v
      /\ \A d \in Calls : d # c => outcome'[d] = outcome[d]
      /\ UNCHANGED <<session, setupVars, serving, faultVars>>
  BY DEF ReceiveAnswer, Receives, Matches, Settle, Ignore
<1>2. /\ Head(wire[p]) = wire[p][1] /\ 1 \in 1 .. Len(wire[p])
      /\ \A i \in 1 .. Len(v[p]) : i + 1 \in 1 .. Len(wire[p]) /\ v[p][i] = wire[p][i + 1]
  BY <1>1, ReceivedKeeps DEF LinkInv
<1>3. Fewer(v, wire) /\ \A q \in Peers : q # p => v[q] = wire[q]
  BY <1>1, FewerReceived DEF Received, LinkInv, TypeOK
<1> HIDE DEF c, v
<1>4. \A q \in Peers : Attends(q)' <=> Attends(q)
  BY <1>1 DEF Attends, setupVars, faultVars
<1>5. \A d : Asked(wire, d)' => Asked(wire, d)
  <2>1. \A s \in serving' : Asked(wire, s.call)
    BY <1>1 DEF Asked
  <2> QED BY <1>1, <1>3, <2>1, FewerAsked
<1>6. Attends(p) => /\ ~Asked(wire, c)
                    /\ \A j \in 1 .. Len(wire[p]) :
                         wire[p][j].type \in Responses /\ wire[p][j].call = c => 1 = j
  BY <1>1, <1>2 DEF Tidy, AnswersOK, c
<1>7. AnswersOK(wire)'
  <2> SUFFICES ASSUME NEW r \in Peers, NEW i \in 1 .. Len(wire'[r]), Attends(r)',
                      wire'[r][i].type \in Responses
               PROVE  /\ wire'[r][i].call \in CallsOf(r)
                      /\ outcome'[wire'[r][i].call] = "pending"
                      /\ ~Asked(wire, wire[r][i].call)'
                      /\ \A j \in 1 .. Len(wire'[r]) :
                           wire'[r][j].type \in Responses /\ wire'[r][j].call = wire'[r][i].call
                             => i = j
    BY DEF AnswersOK
  <2>1. PICK k \in Nat : \A j \in 1 .. Len(v[r]) :
          j + k \in 1 .. Len(wire[r]) /\ v[r][j] = wire[r][j + k]
    BY <1>3 DEF Fewer
  <2>2. /\ v[r][i].call \in CallsOf(r)
        /\ outcome[v[r][i].call] = "pending"
        /\ ~Asked(wire, v[r][i].call)
        /\ \A j \in 1 .. Len(wire[r]) :
             wire[r][j].type \in Responses /\ wire[r][j].call = v[r][i].call => i + k = j
    BY <1>1, <1>4, <2>1 DEF Tidy, AnswersOK
  <2>3. v[r][i].call # c
    <3>1. CASE r = p
      BY <1>1, <1>2, <1>4, <1>6, <3>1
    <3>2. CASE r # p
      BY <1>1, <2>2, <3>2, EndsOfLink
    <3> QED BY <3>1, <3>2
  <2>4. ASSUME NEW j \in 1 .. Len(v[r]), v[r][j].type \in Responses, v[r][j].call = v[r][i].call
        PROVE  i = j
    <3>1. j + k \in 1 .. Len(wire[r]) /\ v[r][j] = wire[r][j + k]
      BY <2>1
    <3>2. i + k = j + k
      BY <2>2, <2>4, <3>1
    <3> QED BY <1>1, <3>2
  <2> QED BY <1>1, <1>5, <2>2, <2>3, <2>4, EndsOfLink
<1>8. WaitedFor(wire)'
  <2> SUFFICES ASSUME NEW d \in Calls \ Notifications, Attends(Origin(d))', Asked(wire, d)'
               PROVE  outcome'[d] = "pending"
    BY DEF WaitedFor
  <2>1. Attends(Origin(d)) /\ Asked(wire, d)
    BY <1>4, <1>5, EndsOfLink
  <2>2. d # c
    BY <1>1, <1>6, <2>1, EndsOfLink
  <2> QED BY <1>1, <2>1, <2>2 DEF Tidy, WaitedFor
<1>9. WellFormed(wire)'
  BY <1>1, <1>3 DEF Tidy, WellFormed, Fewer
<1> QED BY <1>7, <1>8, <1>9 DEF Tidy

LEMMA SetupAnswers ==
    ASSUME LinkInv, AnswerInv,
           \/ AddWorker \/ AddThreadWorker \/ AddBrowserWindow
           \/ \E p \in Peers : AddWebSocketSync(p) \/ AddRTCDataChannelSync(p) \/ MakeClient(p)
    PROVE  AnswerInv'
<1>1. /\ UNCHANGED <<wire, serves, callVars, faultVars>> /\ hasClient \subseteq hasClient'
      /\ \/ UNCHANGED <<joined, session>>
         \/ \E p \in Peers : /\ p \notin joined /\ joined' = joined \union {p}
                             /\ session' = session \union {p}
  BY EndsOfLink
     DEF AddWorker, AddThreadWorker, AddBrowserWindow, AddHosted, AddWebSocketSync,
         AddRTCDataChannelSync, AddSocket, MakeClient, Join, linkVars
<1>2. Attention
  BY <1>1 DEF Attention, Attends, faultVars
<1>3. Fewer(wire', wire)
  BY <1>1, FewerSame
<1>4. \A s \in serving' : Asked(wire, s.call)
  BY <1>1 DEF Asked, callVars
<1> QED BY <1>1, <1>2, <1>3, <1>4, QuietAnswers DEF Calm, callVars, faultVars

LEMMA AnnounceAnswers ==
    ASSUME LinkInv, AnswerInv, StartWorkerEndpoint \/ AddMainProcess
    PROVE  AnswerInv'
<1>1. /\ "other" \notin joined /\ kind \in Hosted
      /\ joined' = joined \union {"other"} /\ session' = session \union {"other"}
      /\ hasClient' = hasClient \union {"other"}
      /\ outcome' = [outcome EXCEPT ![Hello] = "pending"]
      /\ wire' = Send(wire, "other", Message("request", Hello))
      /\ UNCHANGED <<serves, serving, faultVars>>
  BY DEF StartWorkerEndpoint, AddMainProcess, Announce, Join, Hosted
<1>2. /\ outcome[Hello] = "idle" /\ Hello \in Calls /\ Origin(Hello) = "other"
      /\ outcome \in [Calls -> Outcomes]
  BY <1>1, DuplexConstantsOK DEF LinkInv, HandshakeOK, TypeOK, Calls, Outcomes, Origin
<1>3. Attention
  BY <1>1 DEF Attention, Attends, faultVars
<1>4. MadeByClients'
  BY <1>1, <1>2 DEF AnswerInv, MadeByClients
<1>5. Calm' => Tidy /\ LinkInv
  BY <1>1 DEF AnswerInv, Calm, faultVars
<1>6. Calm' => Tidy'
  BY <1>1, <1>2, <1>3, <1>5, RequestIsTidy
<1> QED BY <1>4, <1>6 DEF AnswerInv

LEMMA MakeRequestAnswers ==
    ASSUME LinkInv, AnswerInv, NEW c \in Calls, MakeRequest(c)
    PROVE  AnswerInv'
<1>1. /\ outcome[c] = "idle" /\ Origin(c) \in hasClient
      /\ UNCHANGED <<session, setupVars, serving, disposed, faults, crashed>>
      /\ \/ /\ wire' = Send(wire, Origin(c), Message("request", c))
            /\ outcome' = [outcome EXCEPT ![c] = IF c \in Notifications THEN "resolved"
                                                                        ELSE "pending"]
         \/ outcome' = [outcome EXCEPT ![c] = "rejected"] /\ UNCHANGED wire
  BY DEF MakeRequest, RequestOnWebSocket, RequestOnRTC, RequestOnWorker, RequestOnThread,
         RequestOnElectron, Request
<1>2. Attention /\ (Calm' => Calm)
  BY <1>1 DEF Attention, Attends, Calm, setupVars
<1>3. /\ hasClient' = hasClient
      /\ \A d \in Calls : d # c => outcome'[d] = outcome[d]
  BY <1>1 DEF setupVars, LinkInv, TypeOK
<1>4. CASE wire' = Send(wire, Origin(c), Message("request", c))
  <2>1. CASE outcome' = [outcome EXCEPT ![c] = IF c \in Notifications THEN "resolved" ELSE "pending"]
    <3>1. MadeByClients'
      BY <1>1, <1>3 DEF AnswerInv, MadeByClients
    <3>2. Calm' => Tidy'
      BY <1>1, <1>2, <1>4, <2>1, RequestIsTidy DEF AnswerInv
    <3> QED BY <3>1, <3>2 DEF AnswerInv
  <2>2. CASE outcome' = [outcome EXCEPT ![c] = "rejected"] /\ UNCHANGED wire
    BY <1>1, <1>2, <1>3, <2>2, QuietAnswers, FewerSame DEF Asked
  <2> QED BY <1>1, <2>1, <2>2
<1>5. CASE outcome' = [outcome EXCEPT ![c] = "rejected"] /\ UNCHANGED wire
  BY <1>1, <1>2, <1>3, <1>5, QuietAnswers, FewerSame DEF Asked
<1> QED BY <1>1, <1>4, <1>5

LEMMA ConnectsAnswers ==
    ASSUME LinkInv, AnswerInv, Connects
    PROVE  AnswerInv'
<1> DEFINE v == Received("main")
           m == Message("result", Hello)
<1>1. /\ wire["main"] # <<>> /\ Head(wire["main"]).type = "request"
      /\ Head(wire["main"]).call = Hello
      /\ UNCHANGED <<session, serves, joined, hasClient, serving, outcome, faultVars>>
      /\ wire' = v \/ wire' = Send(v, "main", m)
  BY DEF Connects, WorkerConnects, ThreadConnects, WindowConnects, OnRPCConnectToEndpoint,
         Receives, IsHello
<1>2. "main" \in Peers /\ Other("main") = "other"
  BY DEF Peers, Other
<1>3. /\ v \in Wires /\ Fewer(v, wire)
      /\ Head(wire["main"]) = wire["main"][1] /\ 1 \in 1 .. Len(wire["main"])
  BY <1>1, <1>2, ReceivedKeeps, FewerReceived DEF LinkInv
<1>4. /\ \A s \in serving : s.call # Hello
      /\ \A q \in Peers : \A i \in 1 .. Len(v[q]) : v[q][i].type = "request" => v[q][i].call # Hello
  BY <1>1, <1>2, RequestTaken
<1>5. m \in Messages /\ m.type \in Responses /\ m.call = Hello
  BY DEF Message, Messages, Responses, Calls
<1> HIDE DEF v, m
<1>6. Hello \in CallsOf("other") \ Notifications
  BY DuplexConstantsOK DEF CallsOf, Origin, Calls
<1>7. Asked(wire, Hello)
  BY <1>1, <1>2, <1>3 DEF Asked
<1>8. Attention /\ (Calm' => Calm)
  BY <1>1 DEF Attention, Attends, Calm, faultVars
<1>9. CASE wire' = v
  BY <1>1, <1>3, <1>8, <1>9, QuietAnswers DEF Asked
<1>10. CASE wire' = Send(v, "main", m)
  <2>1. MadeByClients'
    BY <1>1 DEF AnswerInv, MadeByClients
  <2>2. Calm' => Tidy'
    BY <1>1, <1>2, <1>3, <1>4, <1>5, <1>6, <1>7, <1>8, <1>10, AnswerIsTidy DEF AnswerInv
  <2> QED BY <2>1, <2>2 DEF AnswerInv
<1> QED BY <1>1, <1>9, <1>10

LEMMA ComesTooEarlyAnswers ==
    ASSUME LinkInv, AnswerInv, NEW p \in Peers, ComesTooEarly(p)
    PROVE  AnswerInv'
<1>1. /\ wire[p] # <<>> /\ wire' = Received(p)
      /\ UNCHANGED <<session, setupVars, callVars, disposed, faults, crashed>>
  BY DEF ComesTooEarly
<1>2. Fewer(wire', wire)
  BY <1>1, FewerReceived
<1>3. \A s \in serving' : Asked(wire, s.call)
  BY <1>1 DEF Asked, callVars
<1>4. Attention /\ (Calm' => Calm)
  BY <1>1 DEF Attention, Attends, Calm, setupVars
<1> QED BY <1>1, <1>2, <1>3, <1>4, QuietAnswers DEF setupVars, callVars

(* What a router does with a message it cannot place sends nothing, as     *)
(* long as every router has a server and no message is malformed.          *)
LEMMA UnplacedAnswers ==
    ASSUME LinkInv, AnswerInv, NEW p \in Peers, Receive(p), ~RouteMessage(p)
    PROVE  AnswerInv'
<1> DEFINE w == Received(p)
<1>1. /\ wire[p] # <<>> /\ UNCHANGED <<setupVars, callVars, faultVars>>
      /\ \/ Head(wire[p]).type = "malformed"
         \/ /\ \/ PhantomOnSocket(p, w)
               \/ UnmatchedOnWebSocket(p, w) \/ UnmatchedOnRTC(p, w)
               \/ UnmatchedOnWorker(p, w) \/ UnmatchedOnElectron(p, w)
               \/ CatchWorker(p, w) \/ CatchElectron(p, w)
               \/ CatchThread(p, w) \/ UnmatchedOnThread(p, w)
  BY DEF Receive, RouteWebSocket, RouteRTC, RouteWorker, RouteThread, RouteElectron,
         ReceiveMalformed, ReceivePhantom, ReceiveUnmatched, Receives
<1>2. /\ w \in Wires /\ Fewer(w, wire)
      /\ Head(wire[p]) = wire[p][1] /\ 1 \in 1 .. Len(wire[p])
  BY <1>1, ReceivedKeeps, FewerReceived DEF LinkInv
<1> HIDE DEF w
<1>3. Calm' => Calm /\ p \in serves
  BY <1>1 DEF Calm, setupVars, faultVars
<1>4. Calm => Head(wire[p]).type # "malformed"
  BY <1>2 DEF AnswerInv, Tidy, WellFormed
<1>5. Calm' => /\ wire' = w \/ wire' = [w EXCEPT !["other"] = <<>>]
               /\ session' \subseteq session
  BY <1>1, <1>3, <1>4
     DEF PhantomOnSocket, UnmatchedOnWebSocket, UnmatchedOnRTC, UnmatchedOnWorker,
         UnmatchedOnElectron, CatchWorker, CatchElectron, CatchThread, UnmatchedOnThread,
         CloseOnly, Close, Ignore, ExitThread, OnConnectionEnded
<1>6. Calm' => Attention /\ Fewer(wire', wire)
  BY <1>1, <1>2, <1>5, FewerEmptied, EndsOfLink DEF Attention, Attends, Peers, setupVars, faultVars
<1>7. \A s \in serving' : Asked(wire, s.call)
  BY <1>1 DEF Asked, callVars
<1> QED BY <1>1, <1>3, <1>6, <1>7, QuietAnswers DEF setupVars, callVars

LEMMA RouteMessageAnswers ==
    ASSUME LinkInv, AnswerInv, NEW p \in Peers, RouteMessage(p)
    PROVE  AnswerInv'
<1>1. CASE ReceiveRequest(p)
  <2>1. /\ wire[p] # <<>> /\ Head(wire[p]).type = "request" /\ wire' = Received(p)
        /\ \A s \in serving' : s \in serving \/ s.call = Head(wire[p]).call
        /\ UNCHANGED <<session, setupVars, outcome, faultVars>>
    BY <1>1 DEF ReceiveRequest, Receives
  <2>2. /\ Fewer(wire', wire)
        /\ Head(wire[p]) = wire[p][1] /\ 1 \in 1 .. Len(wire[p])
    BY <2>1, ReceivedKeeps, FewerReceived DEF LinkInv
  <2>3. \A s \in serving' : Asked(wire, s.call)
    BY <2>1, <2>2 DEF Asked
  <2>4. Attention /\ (Calm' => Calm)
    BY <2>1 DEF Attention, Attends, Calm, setupVars, faultVars
  <2> QED BY <2>1, <2>2, <2>3, <2>4, QuietAnswers DEF setupVars
<1>2. CASE RefuseRequest(p)
  <2>1. ~Calm' /\ UNCHANGED <<hasClient, outcome>>
    BY <1>2 DEF RefuseRequest, Calm, setupVars, callVars
  <2> QED BY <2>1, QuietAnswers
<1>3. CASE ReceiveIgnored(p)
  <2>1. /\ wire[p] # <<>> /\ wire' = Received(p)
        /\ UNCHANGED <<session, setupVars, callVars, faultVars>>
    BY <1>3 DEF ReceiveIgnored, Receives, Ignore
  <2>2. Fewer(wire', wire)
    BY <2>1, FewerReceived
  <2>3. \A s \in serving' : Asked(wire, s.call)
    BY <2>1 DEF Asked, callVars
  <2>4. Attention /\ (Calm' => Calm)
    BY <2>1 DEF Attention, Attends, Calm, setupVars, faultVars
  <2> QED BY <2>1, <2>2, <2>3, <2>4, QuietAnswers DEF setupVars, callVars
<1>4. CASE ReceiveAnswer(p)
  <2>1. /\ \A c \in Calls : outcome'[c] # "idle" => outcome[c] # "idle"
        /\ UNCHANGED <<setupVars, faultVars>>
    BY <1>4 DEF ReceiveAnswer, Settle
  <2>2. MadeByClients'
    BY <2>1 DEF AnswerInv, MadeByClients, setupVars
  <2>3. Calm' => Tidy'
    BY <1>4, <2>1, AnswerTakenIsTidy DEF AnswerInv, Calm, setupVars, faultVars
  <2> QED BY <2>2, <2>3 DEF AnswerInv
<1> QED BY <1>1, <1>2, <1>3, <1>4 DEF RouteMessage

LEMMA ReceiveAnswers ==
    ASSUME LinkInv, AnswerInv, NEW p \in Peers, Receive(p)
    PROVE  AnswerInv'
BY UnplacedAnswers, RouteMessageAnswers

LEMMA RequestServedAnswers ==
    ASSUME LinkInv, AnswerInv, NEW p \in Peers, RequestServed(p)
    PROVE  AnswerInv'
<1>1. PICK s \in serving :
        \/ \E type \in Responses :
             /\ FinishServing(p, s, type)
             /\ \/ ReplyOnSocket(p, type, s.call) \/ ReplyToWorker(p, type, s.call)
                \/ ReplyElsewhere(p, type, s.call)
        \/ ServingThrows(p, s)
  BY DEF RequestServed, FinishWebSocket, FinishRTC, FinishWorker, FinishThread, FinishElectron
<1>2. CASE ServingThrows(p, s)
  <2>1. faults' # 0 /\ UNCHANGED <<hasClient, outcome>>
    BY <1>2, DuplexConstantsOK DEF ServingThrows, Fault, LinkInv, TypeOK, setupVars
  <2> QED BY <2>1, QuietAnswers DEF Calm
<1>3. ASSUME NEW type \in Responses, FinishServing(p, s, type),
             \/ ReplyOnSocket(p, type, s.call) \/ ReplyToWorker(p, type, s.call)
             \/ ReplyElsewhere(p, type, s.call)
      PROVE  AnswerInv'
  <2> DEFINE c == s.call
             m == Message(type, c)
  <2>1. /\ ~crashed /\ Origin(c) = Other(p) /\ serving' = serving \ {s}
        /\ UNCHANGED <<session, setupVars, outcome, disposed, faults>>
    BY <1>3 DEF FinishServing, Processed, Serves, Alive
  <2>2. wire' = wire \/ (c \notin Notifications /\ wire' = Send(wire, p, m))
    BY <1>3 DEF ReplyOnSocket, ReplyToWorker, ReplyElsewhere, Reply, IsAnswered
  <2>3. c \in Calls /\ \A t \in serving : t.call = c => t = s
    BY DEF LinkInv, TypeOK, ServingOK
  <2>4. wire \in Wires /\ Fewer(wire, wire) /\ Asked(wire, c)
    BY FewerSame DEF LinkInv, TypeOK, Wires, Asked
  <2>5. m \in Messages /\ m.type \in Responses /\ m.call = c
    BY <2>3 DEF Message, Messages, Responses
  <2>6. \A q \in Peers : \A i \in 1 .. Len(wire[q]) :
          wire[q][i].type = "request" => wire[q][i].call # c
    BY DEF LinkInv, WireOK, RequestsOK
  <2>7. \A t \in serving' : t \in serving /\ t.call # c
    BY <2>1, <2>3
  <2> HIDE DEF c, m
  <2>8. Attention /\ (Calm' => Calm)
    BY <2>1 DEF Attention, Attends, Calm, setupVars
  <2>9. CASE wire' = wire
    <3>1. \A t \in serving' : Asked(wire, t.call)
      BY <2>7 DEF Asked
    <3> QED BY <2>1, <2>4, <2>8, <2>9, <3>1, QuietAnswers DEF setupVars
  <2>10. CASE c \notin Notifications /\ wire' = Send(wire, p, m)
    <3>1. c \in CallsOf(Other(p)) \ Notifications
      BY <2>1, <2>3, <2>10 DEF CallsOf
    <3>2. MadeByClients'
      BY <2>1 DEF AnswerInv, MadeByClients, setupVars
    <3>3. Calm' => Tidy'
      BY <2>1, <2>4, <2>5, <2>6, <2>7, <2>8, <2>10, <3>1, AnswerIsTidy DEF AnswerInv
    <3> QED BY <3>2, <3>3 DEF AnswerInv
  <2> QED BY <2>2, <2>9, <2>10
<1> QED BY <1>1, <1>2, <1>3

(* The calls that the end of a link rejects are of a peer that had it.     *)
LEMMA EndAnswers ==
    ASSUME LinkInv, AnswerInv,
           \/ Lost \/ WorkerError \/ ThreadError
           \/ \E p \in Peers : \/ WebSocketClosed(p) \/ RTCChannelClosed(p)
                               \/ WebSocketError(p) \/ RTCChannelError(p)
    PROVE  AnswerInv'
<1>1. PICK p \in Peers : LinkLost(p) \/ LinkError(p)
  BY EndsOfLink
     DEF Lost, WorkerExit, ThreadExit, WindowClosed, WebSocketClosed, RTCChannelClosed,
         WorkerError, ThreadError, WebSocketError, RTCChannelError
<1>2. /\ session' = session \ {p} /\ Settle(CallsOf(p), "rejected")
      /\ wire' = wire \/ wire' = [wire EXCEPT ![p] = <<>>]
      /\ UNCHANGED <<setupVars, serving, faultVars>>
  BY <1>1 DEF LinkLost, LinkError, OnConnectionEnded, RejectAllPromises, Close
<1>3. Fewer(wire', wire)
  BY <1>2, FewerSame, FewerEmptied DEF LinkInv, TypeOK, Wires
<1>4. Attention /\ (Calm' => Calm)
  BY <1>2 DEF Attention, Attends, Calm, setupVars, faultVars
<1>5. \A s \in serving' : Asked(wire, s.call)
  BY <1>2 DEF Asked
<1>6. /\ \A c \in Calls : outcome'[c] # "idle" => outcome[c] # "idle"
      /\ \A c \in Calls : Origin(c) # p => outcome'[c] = outcome[c]
  BY <1>2 DEF Settle, CallsOf
<1>7. ASSUME NEW c \in Calls, Attends(Origin(c))', outcome[c] = "pending"
      PROVE  outcome'[c] = "pending"
  <2>1. Origin(c) \in joined
    BY <1>7 DEF AnswerInv, MadeByClients, LinkInv, TypeOK
  <2>2. Origin(c) # p
    BY <1>2, <1>7, <2>1 DEF Attends, setupVars
  <2> QED BY <1>6, <1>7, <2>2
<1> QED BY <1>2, <1>3, <1>4, <1>5, <1>6, <1>7, QuietAnswers DEF setupVars

LEMMA OtherDiesAnswers ==
    ASSUME LinkInv, AnswerInv, OtherDies
    PROVE  AnswerInv'
<1>1. /\ wire' = [wire EXCEPT !["other"] = <<>>]
      /\ UNCHANGED <<session, setupVars, callVars, faultVars>>
  BY DEF OtherDies, ExitThread
<1>2. Fewer(wire', wire)
  BY <1>1, FewerSame, FewerEmptied, EndsOfLink DEF LinkInv, TypeOK, Wires, Peers
<1>3. Attention /\ (Calm' => Calm)
  BY <1>1 DEF Attention, Attends, Calm, setupVars, faultVars
<1>4. \A s \in serving' : Asked(wire, s.call)
  BY <1>1 DEF Asked, callVars
<1> QED BY <1>1, <1>2, <1>3, <1>4, QuietAnswers DEF setupVars, callVars

LEMMA DisposeAnswers ==
    ASSUME LinkInv, AnswerInv, NEW p \in Peers, Dispose(p)
    PROVE  AnswerInv'
<1>1. disposed' = disposed \union {p} /\ UNCHANGED <<setupVars, serving, crashed>>
  BY DEF Dispose
<1>2. CASE DisposeSocket(p)
  <2>1. UNCHANGED <<outcome, faults, session, wire>>
    BY <1>2 DEF DisposeSocket, CloseOnly, Close
  <2>2. Attention /\ (Calm' => Calm)
    BY <1>1, <2>1 DEF Attention, Attends, Calm, setupVars
  <2>3. Fewer(wire', wire) /\ \A s \in serving' : Asked(wire, s.call)
    BY <1>1, <2>1, FewerSame DEF Asked
  <2> QED BY <1>1, <2>1, <2>2, <2>3, QuietAnswers DEF setupVars
<1>3. CASE DisposeWorkerTransport(p)
  <2>1. faults' # 0 /\ \A c \in Calls : outcome'[c] # "idle" => outcome[c] # "idle"
    BY <1>3, DuplexConstantsOK
       DEF DisposeWorkerTransport, Fault, RejectAllPromises, Settle, LinkInv, TypeOK
  <2> QED BY <1>1, <2>1, QuietAnswers DEF Calm, setupVars
<1> QED BY <1>2, <1>3 DEF Dispose

LEMMA TimesOutAnswers ==
    ASSUME LinkInv, AnswerInv, TimesOut
    PROVE  AnswerInv'
<1>1. ~crashed /\ UNCHANGED <<session, wire, serves, joined, hasClient, callVars, disposed, faults>>
  BY DEF TimesOut, WorkerReadyTimeout, ThreadReadyTimeout, WindowReadyTimeout, ReadyTimeout
<1>2. Attention /\ (Calm' => Calm)
  BY <1>1 DEF Attention, Attends, Calm
<1>3. Fewer(wire', wire) /\ \A s \in serving' : Asked(wire, s.call)
  BY <1>1, FewerSame DEF Asked, callVars
<1> QED BY <1>1, <1>2, <1>3, QuietAnswers DEF callVars

LEMMA SendMalformedAnswers ==
    ASSUME LinkInv, AnswerInv, NEW p \in Peers, SendMalformed(p)
    PROVE  AnswerInv'
<1>1. faults' # 0 /\ UNCHANGED <<hasClient, outcome>>
  BY DuplexConstantsOK DEF SendMalformed, Fault, LinkInv, TypeOK, setupVars, callVars
<1> QED BY <1>1, QuietAnswers DEF Calm

LEMMA NextAnswers == LinkInv /\ AnswerInv /\ [Next]_vars => AnswerInv'
<1> SUFFICES ASSUME LinkInv, AnswerInv, [Next]_vars PROVE AnswerInv'
  OBVIOUS
<1>1. CASE \/ AddWorker \/ AddThreadWorker \/ AddBrowserWindow
           \/ \E p \in Peers : AddWebSocketSync(p) \/ AddRTCDataChannelSync(p) \/ MakeClient(p)
  BY <1>1, SetupAnswers
<1>2. CASE StartWorkerEndpoint \/ AddMainProcess
  BY <1>2, AnnounceAnswers
<1>3. CASE Connects \/ TimesOut \/ OtherDies
  BY <1>3, ConnectsAnswers, TimesOutAnswers, OtherDiesAnswers
<1>4. CASE \E c \in Calls : MakeRequest(c)
  BY <1>4, MakeRequestAnswers
<1>5. CASE \E p \in Peers :
             \/ ComesTooEarly(p) \/ Receive(p) \/ RequestServed(p) \/ SendMalformed(p)
             \/ Dispose(p)
  BY <1>5, ComesTooEarlyAnswers, ReceiveAnswers, RequestServedAnswers, SendMalformedAnswers,
     DisposeAnswers
<1>6. CASE \/ Lost \/ WorkerError \/ ThreadError
           \/ \E p \in Peers : \/ WebSocketClosed(p) \/ RTCChannelClosed(p)
                               \/ WebSocketError(p) \/ RTCChannelError(p)
  BY <1>6, EndAnswers
<1>7. CASE UNCHANGED vars
  <2>1. UNCHANGED <<session, wire, setupVars, callVars, faultVars>>
    BY <1>7 DEF vars, linkVars
  <2>2. Attention /\ (Calm' => Calm)
    BY <2>1 DEF Attention, Attends, Calm, setupVars, faultVars
  <2>3. Fewer(wire', wire) /\ \A s \in serving' : Asked(wire, s.call)
    BY <2>1, FewerSame DEF Asked, callVars
  <2> QED BY <2>1, <2>2, <2>3, QuietAnswers DEF setupVars, callVars
<1> QED BY <1>1, <1>2, <1>3, <1>4, <1>5, <1>6, <1>7 DEF Next

LEMMA InitAnswers == Init => AnswerInv
<1> SUFFICES ASSUME Init PROVE AnswerInv
  OBVIOUS
<1>1. /\ \A c \in Calls : outcome[c] = "idle"
      /\ \A p \in Peers : wire[p] = <<>>
      /\ serving = {} /\ Len(<<>>) = 0
  BY EmptySeq DEF Init
<1> QED BY <1>1 DEF AnswerInv, MadeByClients, Tidy, AnswersOK, WaitedFor, WellFormed, Asked

(* As long as no message is malformed, no plugin throws and no transport   *)
(* of a worker is disposed of, and both routers have a server, a router    *)
(* that has the link meets no response but to a call its client made and   *)
(* that waits: it does not end the link as it does for a phantom or an     *)
(* unmatched response, whatever the order in which the methods end.        *)
THEOREM AnswersFindTheirCall == Spec => []AnswersMatch
<1>1. LinkInv /\ AnswerInv => AnswersMatch
  <2> SUFFICES ASSUME LinkInv, AnswerInv, faults = 0, serves = Peers, ~crashed,
                      NEW p \in Peers, p \in session, p \notin disposed,
                      NEW i \in DOMAIN wire[p], wire[p][i].type \in Responses
               PROVE  p \in hasClient /\ Matches(p, wire[p][i])
    BY DEF AnswersMatch
  <2>1. i \in 1 .. Len(wire[p])
    BY LenProperties DEF LinkInv, TypeOK
  <2>2. wire[p][i].call \in CallsOf(p) /\ outcome[wire[p][i].call] = "pending"
    BY <2>1 DEF AnswerInv, Calm, Tidy, AnswersOK, Attends
  <2>3. p \in hasClient
    BY <2>2, EndsOfLink DEF AnswerInv, MadeByClients
  <2> QED BY <2>2, <2>3 DEF Matches
<1> QED BY <1>1, InitAnswers, NextAnswers, LinkInvariant, PTL DEF Spec
=============================================================================
