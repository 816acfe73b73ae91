---------------------------- MODULE SerialRadio ----------------------------
(* A radio on a serial line: connect(), disconnect(), soft_reconnect() and *)
(* the watchdog of backends/_icom_serial_base.py, the session and the link *)
(* below them (drivers/serial_session.py, serial_civ_link.py), and what    *)
(* runs on the link: the CI-V pump, the commander's worker and the link's  *)
(* own writer task.                                                        *)
(*                                                                         *)
(* The user (a web request) and the watchdog are coroutines of one event   *)
(* loop: an action is what one of them does between two awaits that really *)
(* suspend.  An await of a task that the code itself has cancelled         *)
(* swallows a cancellation of the coroutine that awaits.                   *)
(***************************************************************************)
EXTENDS Integers

CONSTANTS Faults,     \* what befalls the line: of glitch, unplugged, eof and writer, see Trouble
          MaxFaults,  \* bound: faults
          MaxCalls,   \* bound: calls of the user
          MaxOpens    \* bound: ports opened

ASSUME SerialFaults == \A kind \in Faults : kind \in {"glitch", "unplugged", "eof", "writer"}
ASSUME SerialBounds == MaxFaults \in Nat /\ MaxCalls \in Nat /\ MaxOpens \in Nat

VARIABLES
    radio,    \* radio, session and link, see SerialTypeOK
    pc,       \* the await the user and the watchdog are suspended at
    doing,    \* what the user has called
    present,  \* the device is plugged in
    frozen,   \* the pump never suspends again: nothing else runs
    calls, faults,
    doubled   \* history: see Doubles

serialAll == <<radio, pc, doing, present, frozen, calls, faults, doubled>>

Actors == {"user", "watchdog"}

SerialInit ==
    /\ radio = [conn |-> "disconnected", civ |-> FALSE, pump |-> "none", worker |-> "none", shim |-> FALSE,
                connected |-> FALSE, healthy |-> FALSE, port |-> 0, alive |-> FALSE,
                task |-> 0, writers |-> {}, open |-> {}, made |-> 0]
    /\ pc = [a \in Actors |-> IF a = "user" THEN "idle" ELSE "none"] /\ doing = "nothing"
    /\ present = TRUE /\ frozen = FALSE /\ calls = 0 /\ faults = 0 /\ doubled = FALSE

-----------------------------------------------------------------------------
(* The parts of an operation o of actor a, on the radio r.                 *)

SessionUp(r) == r.shim /\ r.connected
LinkReady(r) == SessionUp(r) /\ r.healthy
IsUp(r)      == r.conn = "connected" /\ r.civ /\ SessionUp(r)

Suspends(a, o, await, r) ==
    /\ radio' = r /\ pc' = [pc EXCEPT ![a] = await]
    /\ doing' = IF a = "user" THEN o ELSE doing

Ends(a, r) == Suspends(a, "nothing", IF a = "user" THEN "idle" ELSE "sleep", r)

StartedTask(t) == IF t = "none" THEN "runs" ELSE t

\* The session is up: everything on it is started that does not run.
Connected(a, o, r) ==
    /\ radio' = [r EXCEPT !.conn = "connected", !.civ = TRUE, !.shim = TRUE,
                          !.pump = StartedTask(@), !.worker = StartedTask(@)]
    /\ doing' = IF a = "user" THEN "nothing" ELSE doing
    /\ pc' = [pc EXCEPT ![a] = IF a = "user" THEN "idle" ELSE "sleep",
                        !["watchdog"] = IF a = "watchdog" \/ (o = "connect" /\ @ = "none") THEN "sleep" ELSE @]

\* connect() of the session and of the link.
Opens(a, o, r) ==
    IF SessionUp(r) \/ r.connected THEN Connected(a, o, r)
    ELSE Suspends(a, o, "opening", [r EXCEPT !.shim = FALSE])

\* disconnect() of the session has returned.
Closed(a, o, r) ==
    IF o = "disconnect" THEN Ends(a, [r EXCEPT !.shim = FALSE, !.conn = "disconnected", !.civ = FALSE])
    ELSE Opens(a, o, [r EXCEPT !.shim = FALSE])

\* Mutant: the port is forgotten before it is closed.
ForgetsPort(a, o, r) ==
    IF r.port = 0 THEN Closed(a, o, r)
    ELSE Suspends(a, o, "closing", [r EXCEPT !.port = 0])

\* disconnect() of the link once its writer task has ended.
ClosesPort(a, o, r) ==
    IF r.port = 0 THEN Closed(a, o, r)
    ELSE Suspends(a, o, "closing", [r EXCEPT !.open = @ \ {r.port}, !.port = 0])

Closes(a, o, r) ==
    LET down == [r EXCEPT !.connected = FALSE, !.healthy = FALSE]
    IN  IF ~r.connected /\ r.port = 0 THEN Closed(a, o, down)
        ELSE IF r.task \in r.writers THEN Suspends(a, o, "writer", [down EXCEPT !.writers = @ \ {r.task}])
        ELSE ClosesPort(a, o, [down EXCEPT !.task = 0])

StopsPump(a, o, r) ==
    IF r.pump = "none" THEN Closes(a, o, r) ELSE Suspends(a, o, "pump", [r EXCEPT !.pump = "cancelled"])

StopsAll(a, o, r) ==
    IF r.worker = "none" THEN StopsPump(a, o, r) ELSE Suspends(a, o, "worker", [r EXCEPT !.worker = "cancelled"])

SoftReconnect(a) ==
    IF LinkReady(radio) /\ radio.civ THEN Ends(a, radio)
    ELSE StopsAll(a, "reconnect", [radio EXCEPT !.conn = "reconnecting"])

OperationOf(a) == IF a = "user" THEN doing ELSE "reconnect"

-----------------------------------------------------------------------------
(* How an operation goes on after an await.                                *)

Joined(t) == IF t = "cancelled" THEN "none" ELSE t

WorkerStopped(a) ==
    pc[a] = "worker" /\ StopsPump(a, OperationOf(a), [radio EXCEPT !.worker = Joined(@)])

PumpStopped(a) ==
    pc[a] = "pump" /\ Closes(a, OperationOf(a), [radio EXCEPT !.pump = Joined(@)])

\* The link forgets the writer task and the port it has now, which a connect()
\* may have opened meanwhile.
WriterStopped(a) ==
    pc[a] = "writer" /\ ClosesPort(a, OperationOf(a), [radio EXCEPT !.task = 0])

PortClosed(a) == pc[a] = "closing" /\ Closed(a, OperationOf(a), radio)

Opened(a) ==
    /\ pc[a] = "opening" /\ present /\ radio.made < MaxOpens
    /\ LET n == radio.made + 1
       IN  Connected(a, OperationOf(a),
                     [radio EXCEPT !.made = n, !.open = @ \cup {n}, !.port = n, !.alive = TRUE, !.task = n,
                                   !.writers = @ \cup {n}, !.connected = TRUE, !.healthy = TRUE])

\* No device, no permission, or five seconds have passed.  The web client then
\* falls back to connect().
OpenFails(a) ==
    /\ pc[a] = "opening"
    /\ IF OperationOf(a) = "connect" THEN Ends(a, [radio EXCEPT !.conn = "disconnected"])
       ELSE IF a = "watchdog" THEN Ends(a, [radio EXCEPT !.conn = "reconnecting"])
       ELSE Opens(a, "connect", [radio EXCEPT !.conn = "connecting"])

\* The checks of disconnect() after it has waited for the watchdog.
TearsDown ==
    IF radio.conn # "connected" /\ ~SessionUp(radio)
    THEN Ends("user", [radio EXCEPT !.conn = "disconnected"])
    ELSE StopsAll("user", "disconnect",
                  [radio EXCEPT !.conn = IF @ = "connected" THEN "disconnecting" ELSE @])

WatchdogEnded == pc["user"] = "joining" /\ pc["watchdog"] = "none" /\ TearsDown

GoesOn(a) ==
    /\ \/ WorkerStopped(a) \/ PumpStopped(a) \/ WriterStopped(a) \/ PortClosed(a)
       \/ Opened(a) \/ OpenFails(a)
       \/ a = "user" /\ WatchdogEnded
    /\ UNCHANGED <<present, frozen, calls, faults, doubled>>

-----------------------------------------------------------------------------
(* The user and the watchdog.                                              *)

\* A connect() beside a reconnect of the watchdog, or of a link that has gone
\* down and has not been closed.
Doubles == pc["watchdog"] \notin {"none", "sleep"} \/ radio.port # 0

Calls ==
    /\ pc["user"] = "idle" /\ calls < MaxCalls /\ calls' = calls + 1
    /\ UNCHANGED <<present, frozen, faults>>

UserConnects ==
    /\ Calls /\ ~IsUp(radio) /\ doubled' = (doubled \/ Doubles)
    /\ Opens("user", "connect", [radio EXCEPT !.conn = "connecting"])

\* A web client's radio_connect, refused while the backend is at it.
UserReconnects ==
    /\ Calls /\ ~IsUp(radio) /\ radio.conn \in {"disconnected", "connected"}
    /\ doubled' = (doubled \/ Doubles)
    /\ SoftReconnect("user")

\* Where the watchdog does not await a task that it has cancelled.
Cancellable == {"sleep", "closing", "opening"}

UserDisconnects ==
    /\ Calls /\ UNCHANGED doubled
    /\ IF pc["watchdog"] = "none" THEN TearsDown
       ELSE /\ pc' = [pc EXCEPT !["user"] = "joining",
                                !["watchdog"] = IF @ \in Cancellable THEN "none" ELSE @]
            /\ doing' = "disconnect" /\ UNCHANGED radio

\* A round of the watchdog's loop.
WatchdogLooks ==
    /\ pc["watchdog"] = "sleep" /\ radio.conn \in {"connected", "reconnecting"}
    /\ IF LinkReady(radio)
       THEN radio' = [radio EXCEPT !.conn = "connected"] /\ UNCHANGED <<pc, doing>>
       ELSE SoftReconnect("watchdog")
    /\ doubled' = (doubled \/ (pc["user"] \notin {"idle", "joining"} /\ ~LinkReady(radio)))
    /\ UNCHANGED <<present, frozen, calls, faults>>

-----------------------------------------------------------------------------
(* The line.                                                               *)

Using == radio.pump = "runs" \/ radio.task \in radio.writers

\* The pump reads, the writer writes, on the port of the link.
Serves ==
    /\ radio.connected /\ radio.port # 0 /\ Using
    /\ radio' = [radio EXCEPT !.healthy = radio.alive]
    /\ UNCHANGED <<pc, doing, present, frozen, calls, faults, doubled>>

\* receive() of a link that is down returns at once, and the pump takes that for
\* a timeout and asks again.
PumpSpins ==
    /\ radio.pump = "runs" /\ (~radio.connected \/ radio.port = 0)
    /\ frozen' = TRUE /\ radio' = [radio EXCEPT !.connected = FALSE, !.healthy = FALSE]
    /\ UNCHANGED <<pc, doing, present, calls, faults, doubled>>

\* A read or write fails once, the device is pulled, the stream ends, or the
\* writer task meets an error it does not expect.
Trouble(kind) ==
    /\ kind \in Faults /\ faults < MaxFaults /\ faults' = faults + 1
    /\ radio.connected /\ radio.port # 0
    /\ CASE kind = "glitch" -> Using /\ radio' = [radio EXCEPT !.healthy = FALSE] /\ UNCHANGED present
         [] kind = "unplugged" -> present /\ present' = FALSE /\ radio' = [radio EXCEPT !.alive = FALSE]
         [] kind = "eof" -> /\ radio.pump = "runs" /\ UNCHANGED present
                            /\ radio' = [radio EXCEPT !.connected = FALSE, !.healthy = FALSE]
         [] kind = "writer" -> /\ radio.task \in radio.writers /\ UNCHANGED present
                               /\ radio' = [radio EXCEPT !.connected = FALSE, !.healthy = FALSE,
                                                         !.writers = @ \ {radio.task}]
    /\ frozen' = (kind = "eof")
    /\ UNCHANGED <<pc, doing, calls, doubled>>

Plugged ==
    /\ ~present /\ present' = TRUE
    /\ UNCHANGED <<radio, pc, doing, frozen, calls, faults, doubled>>

SerialNext ==
    /\ ~frozen
    /\ \/ \E a \in Actors : GoesOn(a)
       \/ UserConnects \/ UserReconnects \/ UserDisconnects \/ WatchdogLooks
       \/ Serves \/ PumpSpins \/ Plugged
       \/ \E kind \in Faults : Trouble(kind)

\* The event loop runs what is ready.
SerialSpec ==
    /\ SerialInit /\ [][SerialNext]_serialAll
    /\ \A a \in Actors : WF_serialAll(~frozen /\ GoesOn(a))
    /\ WF_serialAll(~frozen /\ WatchdogLooks)

-----------------------------------------------------------------------------
(* Properties.                                                             *)

Tasks == {"none", "runs", "cancelled"}
Radios ==
    [conn : {"disconnected", "connecting", "connected", "disconnecting", "reconnecting"},
     civ : BOOLEAN,                                     \* _civ_transport is set
     pump : Tasks, worker : Tasks,
     shim : BOOLEAN,                                    \* the control transport of the session
     connected : BOOLEAN, healthy : BOOLEAN,            \* _connected, _healthy of the link
     port : 0..MaxOpens, alive : BOOLEAN,               \* its reader and writer; they work
     task : 0..MaxOpens, writers : SUBSET (1..MaxOpens),\* _writer_task; those that run
     open : SUBSET (1..MaxOpens), made : 0..MaxOpens]   \* the open ports, by number

AtWork == {"worker", "pump", "writer", "closing", "opening"}
Places == {"idle", "joining", "none", "sleep", "worker", "pump", "writer", "closing", "opening"}

SerialTypeOK ==
    /\ radio \in Radios
    /\ pc \in [Actors -> Places]
    /\ pc["user"] \notin {"none", "sleep"} /\ pc["watchdog"] \notin {"idle", "joining"}
    /\ doing \in {"nothing", "connect", "reconnect", "disconnect"}
    /\ present \in BOOLEAN /\ frozen \in BOOLEAN /\ doubled \in BOOLEAN
    /\ calls \in 0..MaxCalls /\ faults \in 0..MaxFaults

\* When the user and the watchdog rest, and no connect() was made beside a
\* reconnect, a radio that is connected has its one port and everything that
\* serves it, and any other has nothing open and nothing running, whatever the
\* line did and wherever a cancellation struck.
SerialClean ==
    pc["user"] = "idle" /\ pc["watchdog"] \in {"none", "sleep"} /\ ~doubled /\ ~frozen =>
        IF radio.conn = "connected"
        THEN /\ radio.open = {radio.port} /\ radio.pump = "runs" /\ radio.worker = "runs"
             /\ radio.connected => radio.writers = {radio.task}
        ELSE radio.open = {} /\ radio.writers = {} /\ radio.pump = "none" /\ radio.worker = "none"

\* A disconnect() stops the watchdog and goes on ("Always stop watchdog first to
\* avoid orphan retry loops on failed reconnects.").
WatchdogStops == pc["user"] = "joining" ~> pc["user"] # "joining"
=============================================================================
