------------------------- MODULE ConnectionLifecycle -------------------------
(***************************************************************************)
(* The life of a LAN connection: connect, disconnect, soft_disconnect and  *)
(* soft_reconnect (runtime/_control_phase.py, runtime/radio.py), the       *)
(* watchdog with its reconnect loop (runtime/radio_reconnect.py), and the  *)
(* CI-V data watchdog with its detached recovery (runtime/_civ_rx.py).     *)
(*                                                                         *)
(* Three coroutines run these operations on one radio object: the user's,  *)
(* the reconnect loop and the recovery.  An action is what one of them     *)
(* does between two awaits that really suspend; closing a transport and    *)
(* sending a datagram do not.  pc is the await a coroutine is suspended    *)
(* at, op the operation that awaits.  A coroutine that is cancelled ends   *)
(* at its await, except where the code awaits a task it has cancelled      *)
(* itself: those joins swallow CancelledError.                             *)
(*                                                                         *)
(* Bounds: one reconnect loop and one recovery at a time.  Left out: audio *)
(* and its watchdog, the retries within one handshake, the state fetch     *)
(* that follows connect(), and the cancellation of the user's own task.    *)
(***************************************************************************)
EXTENDS Naturals, Sequences

CONSTANTS
    AutoReconnect,  \* auto_reconnect
    Faults          \* the combinations of failures considered, see fault

Failures == {"silence", "stall"}

ASSUME SettingAssumption == AutoReconnect \in BOOLEAN /\ Faults \subseteq SUBSET Failures

VARIABLES
    fault,      \* what may strike: the radio falls silent, its CI-V data stall
    host,       \* the radio object, see TypeOK
    pc,         \* the await each coroutine is suspended at
    op,         \* the operation it is suspended in
    fallback,   \* the recovery has gone over to a full reconnect
    closed      \* history: how the user's last disconnect() found the radio

vars == <<fault, host, pc, op, fallback, closed>>

Actors == {"user", "loop", "recovery"}
Tasks  == {"token", "watchdog", "data watchdog", "worker", "pump"}

\* The order in which a teardown cancels and joins what serves the CI-V stream.
Stops == <<"data watchdog", "recovery", "worker", "pump">>
Joins == {Stops[i] : i \in DOMAIN Stops}

Awaits == {"idle", "created", "sleep", "open ctrl", "handshake", "open civ",
           "discover civ", "flush", "startup", "cooldown", "raised"} \cup Joins
Operations == {"none", "connect", "abort", "disconnect", "soft disconnect",
               "soft reconnect", "cleanup"}

TypeOK ==
    /\ fault \in Faults
    /\ host \in [conn : {"disconnected", "connecting", "connected",
                         "disconnecting", "reconnecting"},  \* _conn_state
                 civ : Actors \cup {"none"},       \* _civ_transport, by its creator
                 sockets : SUBSET (Actors \cup {"ctrl"}),  \* the open endpoints
                 tasks : SUBSET Tasks,             \* the tasks that run
                 refs : SUBSET {"loop", "recovery"},  \* both _reconnect_task
                 cancelled : SUBSET {"loop", "recovery"}]  \* CancelledError pending
    /\ pc \in [Actors -> Awaits]
    /\ op \in [Actors -> Operations]
    /\ fallback \in BOOLEAN
    /\ closed \in {"no", "reachable", "unreachable"}

Init ==
    /\ fault \in Faults
    /\ host = [conn |-> "disconnected", civ |-> "none", sockets |-> {},
               tasks |-> {}, refs |-> {}, cancelled |-> {}]
    /\ pc = [a \in Actors |-> "idle"]
    /\ op = [a \in Actors |-> "none"]
    /\ fallback = FALSE
    /\ closed = "no"

-----------------------------------------------------------------------------
(* How an operation of actor a goes on, on the radio object h *)

Suspend(a, await, operation, h) ==
    /\ host' = h
    /\ pc' = [pc EXCEPT ![a] = await]
    /\ op' = [op EXCEPT ![a] = operation]
    /\ UNCHANGED <<fault, fallback>>

Ends(a, h) ==
    /\ host' = [h EXCEPT !.refs = @ \ {a}, !.cancelled = @ \ {a}]
    /\ pc' = [pc EXCEPT ![a] = "idle"]
    /\ op' = [op EXCEPT ![a] = "none"]
    /\ fallback' = (fallback /\ a # "recovery")
    /\ UNCHANGED fault

\* The operation returns to the code of the actor.
Returns(a, operation, h) ==
    IF a = "recovery" /\ operation \in {"cleanup", "disconnect"}
      THEN Suspend(a, "sleep", "none", h)
      ELSE Ends(a, h)

\* The operation raises: a connection error, an authentication error, or
\* AttributeError where another coroutine has set _civ_transport to None.
Raises(a, error, h) ==
    CASE a = "user" -> Ends(a, h)
      [] a = "loop" -> IF error = "auth"
                       THEN Ends(a, [h EXCEPT !.conn = "disconnected"])
                       ELSE Suspend(a, "sleep", "none", [h EXCEPT !.conn = "reconnecting"])
      [] a = "recovery" ->
            IF error # "connection" \/ fallback THEN Ends(a, h)
            ELSE /\ host' = h
                 /\ pc' = [pc EXCEPT ![a] = IF h.conn = "connected" THEN "raised" ELSE "sleep"]
                 /\ op' = [op EXCEPT ![a] = "none"]
                 /\ fallback' = TRUE
                 /\ UNCHANGED fault

CtrlAlive(h) == "ctrl" \in h.sockets
CloseCtrl(h) == [h EXCEPT !.sockets = @ \ {"ctrl"}]
NewCiv(h, a) == [h EXCEPT !.sockets = @ \ {a}, !.civ = a]

\* Mutant: the transport is closed and not forgotten.
CloseCivOnly(h) == [h EXCEPT !.sockets = @ \ {h.civ}, !.civ = "closed"]

CloseCiv(h) == [h EXCEPT !.sockets = @ \ {h.civ}, !.civ = "none"]

\* Mutant: a teardown that leaves _conn_state as it is.
DownUnset(h) == h

Down(h) == [h EXCEPT !.conn = "disconnected"]

WithoutCiv(h) == [h EXCEPT !.conn = IF CtrlAlive(h) THEN "reconnecting" ELSE "disconnected"]

Connecting(a, h) == Suspend(a, "open ctrl", "connect", [h EXCEPT !.conn = "connecting"])

\* soft_reconnect() from the restart of the pump on.
SoftStarts(a, h) ==
    LET up == [h EXCEPT !.conn = "connected", !.tasks = @ \cup {"pump"}]
    IN  IF h.civ = "none" THEN Raises(a, "attribute", up)
        ELSE Returns(a, "soft reconnect",
                     [up EXCEPT !.tasks = @ \cup {"worker", "data watchdog"}])

\* Everything an operation had to stop has stopped.
Stopped(a, operation, h) ==
    CASE operation = "soft reconnect" -> SoftStarts(a, h)
      [] operation = "cleanup" -> Returns(a, operation, WithoutCiv(CloseCiv(h)))
      [] operation \in {"soft disconnect", "disconnect", "abort"} ->
            IF h.civ = "none" THEN Raises(a, "attribute", h)
            ELSE CASE operation = "soft disconnect" -> Returns(a, operation, Down(CloseCiv(h)))
                   [] operation = "disconnect" -> Returns(a, operation, Down(CloseCtrl(CloseCiv(h))))
                   [] operation = "abort" -> Raises(a, "connection", Down(CloseCtrl(CloseCiv(h))))

\* Cancels and joins the first of Stops[i], Stops[i + 1], ... that is alive.
StopsFrom(a, operation, i, h) ==
    LET alive == {j \in i..Len(Stops) : Stops[j] \in h.tasks \cup h.refs}
        t == Stops[CHOOSE j \in alive : \A k \in alive : j <= k]
    IN  IF alive = {} THEN Stopped(a, operation, h)
        ELSE Suspend(a, t, operation,
                     [h EXCEPT !.cancelled = @ \cup ({t} \cap {"recovery"})])

\* Mutant: disconnect() without _stop_reconnect().
DisconnectingWithLoop(a, operation, h) ==
    LET down == [h EXCEPT !.conn = "disconnecting", !.tasks = @ \ {"watchdog", "token"}]
    IN  IF h.civ # "none" THEN StopsFrom(a, operation, 1, down)
        ELSE IF operation = "abort" THEN Raises(a, "connection", Down(CloseCtrl(down)))
        ELSE Returns(a, operation, Down(CloseCtrl(down)))

\* disconnect(), when it finds CONNECTED.
Disconnecting(a, operation, h) ==
    LET down == [h EXCEPT !.conn = "disconnecting",
                          !.tasks = @ \ {"watchdog", "token"},
                          !.cancelled = @ \cup (h.refs \cap {"loop"}),
                          !.refs = @ \ {"loop"}]
    IN  IF h.civ # "none" THEN StopsFrom(a, operation, 1, down)
        ELSE IF operation = "abort" THEN Raises(a, "connection", Down(CloseCtrl(down)))
        ELSE Returns(a, operation, Down(CloseCtrl(down)))

-----------------------------------------------------------------------------
(* Cancellation, and the joins it does not end *)

\* Nothing runs between a raise and the disconnect() of its handler.
Free == pc["recovery"] # "raised"

Runs(a, await) == Free /\ pc[a] = await /\ a \notin host.cancelled

\* A task starts, and a cancelled one ends, in a few iterations of the event
\* loop, during which no timer of several seconds expires.
Seconds == Free /\ \A a \in Actors : pc[a] \notin {"created"} \cup Tasks

\* Actor a has joined the task it waited for, which is forgotten.
JoinDone(a, h) ==
    LET i == CHOOSE j \in DOMAIN Stops : Stops[j] = pc[a]
    IN  StopsFrom(a, op[a], i + 1,
                  [h EXCEPT !.tasks = @ \ {pc[a]}, !.refs = @ \ {pc[a]}])

Joined(a) ==
    /\ \E t \in Joins : Runs(a, t) /\ (t = "recovery" => pc[t] = "idle")
    /\ JoinDone(a, host)
    /\ UNCHANGED closed

CancelDelivered(a) ==
    /\ Free /\ a \in host.cancelled /\ pc[a] # "idle"
    /\ IF pc[a] \in Joins THEN JoinDone(a, [host EXCEPT !.cancelled = @ \ {a}])
                          ELSE Ends(a, host)
    /\ UNCHANGED closed

-----------------------------------------------------------------------------
(* connect() and the part of soft_reconnect() that opens the CI-V port *)

OpenCtrlFails(a) ==
    /\ Runs(a, "open ctrl")
    /\ Raises(a, "connection", host)
    /\ UNCHANGED closed

OpenCtrl(a) ==
    /\ Runs(a, "open ctrl")
    /\ Suspend(a, "handshake", "connect", [host EXCEPT !.sockets = @ \cup {"ctrl"}])
    /\ UNCHANGED closed

\* Discovery times out or the session is rejected; or login or its answer fails.
HandshakeFails(a) ==
    /\ Runs(a, "handshake")
    /\ \/ Raises(a, "connection", Down(CloseCtrl(host)))
       \/ \E error \in {"connection", "auth"} : Raises(a, error, host)
    /\ UNCHANGED closed

Handshake(a) ==
    /\ Runs(a, "handshake") /\ CtrlAlive(host)
    /\ Suspend(a, "open civ", "connect", NewCiv(host, a))
    /\ UNCHANGED closed

OpenCivFails(a) ==
    /\ Runs(a, "open civ")
    /\ Raises(a, "connection",
              IF op[a] = "connect" THEN CloseCtrl(host)
              ELSE WithoutCiv([host EXCEPT !.civ = "none"]))
    /\ UNCHANGED closed

OpenCiv(a) ==
    /\ Runs(a, "open civ")
    /\ Suspend(a, "discover civ", op[a], [host EXCEPT !.sockets = @ \cup {a}])
    /\ UNCHANGED closed

\* No answer from the CI-V port.  connect() cleans up, and retries after a
\* cooldown three times; soft_reconnect() leaves everything as it is.
AfterTimeout(a) == IF op[a] = "connect" THEN Down(CloseCtrl(CloseCiv(host))) ELSE host

DiscoverRetries(a) ==
    /\ Seconds
    /\ Runs(a, "discover civ") /\ op[a] = "connect"
    /\ Suspend(a, "cooldown", "connect", AfterTimeout(a))
    /\ UNCHANGED closed

DiscoverFails(a) ==
    /\ Seconds
    /\ Runs(a, "discover civ")
    /\ Raises(a, "connection", AfterTimeout(a))
    /\ UNCHANGED closed

Discover(a) ==
    /\ Runs(a, "discover civ") /\ a \in host.sockets
    /\ IF host.civ = "none" THEN Raises(a, "attribute", host)
       ELSE IF op[a] = "connect" THEN Suspend(a, "flush", "connect", host)
       ELSE StopsFrom(a, "soft reconnect", Len(Stops), host)
    /\ UNCHANGED closed

CooldownOver(a) ==
    /\ Seconds
    /\ Runs(a, "cooldown")
    /\ Connecting(a, host)
    /\ UNCHANGED closed

\* The CI-V queue is flushed and the tasks start.
Flushed(a) ==
    /\ Runs(a, "flush")
    /\ LET piped == [host EXCEPT !.tasks = @ \cup {"pump", "data watchdog"}]
           watched == IF AutoReconnect THEN {"worker", "token", "watchdog"}
                                       ELSE {"worker", "token"}
       IN  IF host.civ = "none"
             THEN Raises(a, "attribute", host) \/ Raises(a, "connection", piped)
             ELSE Suspend(a, "startup", "connect",
                          [piped EXCEPT !.conn = "connected", !.tasks = @ \cup watched])
    /\ UNCHANGED closed

Ready == host.conn = "connected" /\ host.civ # "none" /\ CtrlAlive(host)

StartupReady(a) ==
    /\ Runs(a, "startup") /\ Ready
    /\ Returns(a, "connect", host)
    /\ UNCHANGED closed

StartupFails(a) ==
    /\ Seconds
    /\ Runs(a, "startup")
    /\ IF host.conn = "connected" THEN Disconnecting(a, "abort", host)
                                  ELSE Raises(a, "connection", host)
    /\ UNCHANGED closed

Proceed(a) ==
    \/ Joined(a) \/ CancelDelivered(a)
    \/ OpenCtrl(a) \/ OpenCtrlFails(a) \/ Handshake(a) \/ HandshakeFails(a)
    \/ OpenCiv(a) \/ OpenCivFails(a) \/ Discover(a)
    \/ DiscoverRetries(a) \/ DiscoverFails(a)
    \/ CooldownOver(a) \/ Flushed(a) \/ StartupReady(a) \/ StartupFails(a)

\* soft_reconnect(), called by actor a.
SoftReconnecting(a) ==
    CASE host.civ \in host.sockets ->
            Returns(a, "soft reconnect", [host EXCEPT !.conn = "connected"])
              \/ Returns(a, "soft reconnect", host)
      [] host.civ \notin host.sockets /\ host.civ # "none" ->
            Returns(a, "soft reconnect", host)
      [] host.civ = "none" /\ ~CtrlAlive(host) -> Connecting(a, host)
      [] host.civ = "none" /\ CtrlAlive(host) ->
            Suspend(a, "open civ", "soft reconnect",
                    [NewCiv(host, a) EXCEPT !.conn = "connecting"])

-----------------------------------------------------------------------------
(* The user *)

Others == Actors \ {"user"}
Quiet  == \A a \in Others : pc[a] = "idle"

\* A caller connects a radio that says DISCONNECTED, or that a failed operation
\* has left behind.
UserConnect ==
    /\ Runs("user", "idle")
    /\ host.conn = "disconnected" \/ (Quiet /\ host.conn # "connected")
    /\ Connecting("user", host)
    /\ closed' = "no"

\* Also a command that finds the CI-V transport gone.
UserSoftReconnect ==
    /\ Runs("user", "idle")
    /\ host.conn = "disconnected" \/ (host.civ = "none" /\ CtrlAlive(host))
    /\ SoftReconnecting("user")
    /\ closed' = "no"

UserDisconnect ==
    /\ Runs("user", "idle")
    /\ IF host.conn = "connected" THEN Disconnecting("user", "disconnect", host)
                                  ELSE UNCHANGED <<fault, host, pc, op, fallback>>
    /\ closed' = IF /\ host.conn = "connected" /\ host.civ \in host.sockets
                    /\ pc["recovery"] = "idle" /\ (pc["loop"] # "idle" => "loop" \in host.refs)
                 THEN "reachable" ELSE "unreachable"

UserSoftDisconnect ==
    /\ Runs("user", "idle") /\ host.conn = "connected"
    /\ LET down == [host EXCEPT !.conn = "disconnecting"]
       IN  IF host.civ = "none" THEN Returns("user", "soft disconnect", Down(down))
                                ELSE StopsFrom("user", "soft disconnect", 1, down)
    /\ UNCHANGED closed

-----------------------------------------------------------------------------
(* The tasks that watch the connection, and what they start *)

\* No packet for watchdog_timeout seconds.
WatchdogTimeout ==
    /\ Seconds
    /\ "silence" \in fault /\ "watchdog" \in host.tasks
    /\ host.conn = "connected" /\ pc["loop"] = "idle"
    /\ Suspend("loop", "created", "none",
               [host EXCEPT !.conn = "reconnecting", !.tasks = @ \ {"watchdog"},
                            !.refs = @ \cup {"loop"}])
    /\ UNCHANGED closed

\* One attempt of the loop up to connect(); what serves CI-V is not stopped.
LoopAttempt ==
    /\ Runs("loop", "created") \/ (Seconds /\ Runs("loop", "sleep"))
    /\ IF host.conn = "disconnected" THEN Ends("loop", host)
       ELSE Connecting("loop", CloseCtrl(CloseCiv([host EXCEPT !.tasks = @ \ {"token"}])))
    /\ UNCHANGED closed

\* No CI-V data for a minute of retries.
Escalate ==
    /\ Seconds
    /\ "stall" \in fault /\ "data watchdog" \in host.tasks /\ pc["recovery"] = "idle"
    /\ \A a \in Actors : pc[a] \notin {"data watchdog", "recovery"}
    /\ Suspend("recovery", "created", "none",
               [host EXCEPT !.tasks = @ \ {"data watchdog"}, !.refs = @ \cup {"recovery"}])
    /\ UNCHANGED closed

RecoveryStarts ==
    /\ Runs("recovery", "created")
    /\ StopsFrom("recovery", "cleanup", 1, host)
    /\ UNCHANGED closed

RecoveryWakes ==
    /\ Seconds
    /\ Runs("recovery", "sleep")
    /\ IF fallback THEN Connecting("recovery", host) ELSE SoftReconnecting("recovery")
    /\ UNCHANGED closed

\* The soft reconnect has raised while the radio was CONNECTED.
FallbackDisconnect ==
    /\ pc["recovery"] = "raised"
    /\ Disconnecting("recovery", "disconnect", host)
    /\ UNCHANGED closed

\* The token renewal and the watchdog end when they see another state than CONNECTED.
TickEnds(t) ==
    /\ Free /\ t \in host.tasks /\ host.conn # "connected"
    /\ host' = [host EXCEPT !.tasks = @ \ {t}]
    /\ UNCHANGED <<fault, pc, op, fallback, closed>>

PumpEnds ==
    /\ Free /\ "pump" \in host.tasks /\ host.civ = "none"
    /\ host' = [host EXCEPT !.tasks = @ \ {"pump"}]
    /\ UNCHANGED <<fault, pc, op, fallback, closed>>

Background ==
    \/ WatchdogTimeout \/ LoopAttempt
    \/ Escalate \/ RecoveryStarts \/ RecoveryWakes
    \/ \E t \in {"token", "watchdog"} : TickEnds(t)
    \/ PumpEnds

User == UserConnect \/ UserSoftReconnect \/ UserDisconnect \/ UserSoftDisconnect

Next ==
    \/ \E a \in Actors : Proceed(a)
    \/ User \/ Background \/ FallbackDisconnect

Spec == Init /\ [][Next]_vars

-----------------------------------------------------------------------------
\* disconnect() of a working radio closes its transports and ends its tasks,
\* cancels a reconnect loop it knows of, and nothing opens them again: no loop,
\* recovery or late watchdog, until the user connects.  (A radio object whose
\* transports two coroutines built at once may leave an orphaned socket.)
CleanDisconnect ==
    closed = "reachable" /\ pc["user"] = "idle" =>
        /\ host.conn = "disconnected" /\ host.civ = "none"
        /\ ~CtrlAlive(host) /\ host.tasks = {}

\* DISCONNECTING means that a disconnect is in progress: no interleaving of
\* teardowns and cancellations leaves the state behind, in which every later
\* disconnect() would return at once.
DisconnectingIsWorkedOn ==
    host.conn = "disconnecting" =>
        \E a \in Actors : op[a] \in {"disconnect", "soft disconnect", "abort"}

\* What stop_data_watchdog() promises: once disconnect() has returned, no late
\* recovery connects the radio again.
StaysDown == closed # "no" /\ pc["user"] = "idle" => host.conn # "connected"
=============================================================================
