--------------------------- MODULE CommandService ---------------------------
(***************************************************************************)
(* What IcomCommander promises to the code that calls send(), without its  *)
(* queue, worker task, futures or key table.                               *)
(*                                                                         *)
(* A call is refused, or it becomes pending on a provider: the command it  *)
(* submitted, or a pending command of another call that it shares.  A      *)
(* command is put on the wire at most once, only while the call that       *)
(* submitted it is still pending, and a call returns a result only if its  *)
(* provider has been on the wire.  Every call has at most one outcome.     *)
(***************************************************************************)
CONSTANTS
    Requests,   \* the calls of send() made in a behaviour
    NoReq       \* no request

VARIABLES
    status,     \* what has become of each call
    provider,   \* the request whose command answers the call
    performed   \* the requests whose command has been put on the wire

vars == <<status, provider, performed>>

Outcomes == {"refused", "result", "failed", "gone"}

TypeOK ==
    /\ status \in [Requests -> {"idle", "pending"} \cup Outcomes]
    /\ provider \in [Requests -> Requests \cup {NoReq}]
    /\ performed \subseteq Requests

Init ==
    /\ status = [r \in Requests |-> "idle"]
    /\ provider = [r \in Requests |-> NoReq]
    /\ performed = {}

Refuse(r) ==
    /\ status[r] = "idle"
    /\ status' = [status EXCEPT ![r] = "refused"]
    /\ UNCHANGED <<provider, performed>>

\* The call r becomes pending on the command of q, its own or a pending one.
Submit(r, q) ==
    /\ status[r] = "idle"
    /\ q # r => status[q] = "pending" /\ provider[q] = q
    /\ status' = [status EXCEPT ![r] = "pending"]
    /\ provider' = [provider EXCEPT ![r] = q]
    /\ UNCHANGED performed

Perform(r) ==
    /\ status[r] = "pending"
    /\ provider[r] = r
    /\ r \notin performed
    /\ performed' = performed \cup {r}
    /\ UNCHANGED <<status, provider>>

Answer(r) ==
    /\ status[r] = "pending"
    /\ provider[r] \in performed
    /\ status' = [status EXCEPT ![r] = "result"]
    /\ UNCHANGED <<provider, performed>>

\* The call ends without a result: an error, or its caller went away.
Drop(r, outcome) ==
    /\ status[r] = "pending"
    /\ status' = [status EXCEPT ![r] = outcome]
    /\ UNCHANGED <<provider, performed>>

Next ==
    \E r \in Requests :
        \/ Refuse(r)
        \/ \E q \in Requests : Submit(r, q)
        \/ Perform(r)
        \/ Answer(r)
        \/ \E outcome \in {"failed", "gone"} : Drop(r, outcome)

Spec == Init /\ [][Next]_vars
=============================================================================
