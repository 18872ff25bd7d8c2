------------------------------ MODULE RpcCalls ------------------------------
(***************************************************************************)
(* What a caller of JSONRPC.Client.rpc() may rely on, whatever the         *)
(* transport does underneath: a call settles at most once, the remote side *)
(* executes it at most once (nothing is ever resent after a reconnect),    *)
(* and a call that expects an answer resolves only if the remote side      *)
(* executed it.  A rejected call may or may not have been executed.        *)
(***************************************************************************)

CONSTANTS
    Calls,          \* invocations of Client.rpc()
    Notifications   \* those made with bNotification = true

VARIABLES
    outcome,        \* state of the promise rpc() returned
    executed        \* calls the remote side has executed

vars == <<outcome, executed>>

Init ==
    /\ outcome = [c \in Calls |-> "idle"]
    /\ executed = {}

(* A call may settle as it is made: rejected, or a notification resolved.  *)
Issue(c) ==
    /\ outcome[c] = "idle"
    /\ \E o \in {"pending", "resolved", "rejected"} :
         /\ o = "resolved" => c \in Notifications
         /\ outcome' = [outcome EXCEPT ![c] = o]
    /\ UNCHANGED executed

Execute(c) ==
    /\ outcome[c] # "idle"
    /\ c \notin executed
    /\ executed' = executed \union {c}
    /\ UNCHANGED outcome

Resolve(c) ==
    /\ outcome[c] = "pending"
    /\ c \in executed \union Notifications
    /\ outcome' = [outcome EXCEPT ![c] = "resolved"]
    /\ UNCHANGED executed

(* The loss of a connection rejects every call that waits on it. *)
Reject(lost) ==
    /\ \A c \in lost : outcome[c] = "pending"
    /\ outcome' = [c \in Calls |-> IF c \in lost THEN "rejected" ELSE outcome[c]]
    /\ UNCHANGED executed

Next ==
    \/ \E c \in Calls : Issue(c) \/ Execute(c) \/ Resolve(c)
    \/ \E lost \in SUBSET Calls : Reject(lost)

Spec == Init /\ [][Next]_vars

=============================================================================
