------------------------------ MODULE YaesuCat ------------------------------
(***************************************************************************)
(* The serial line to a Yaesu radio (backends/yaesu_cat/transport.py) and  *)
(* the tasks that share it: pollers (poller.py), and a user who queries,   *)
(* writes, connects and disconnects (radio.py, called by front ends).      *)
(*                                                                         *)
(* A line shows its prefix only; the code drops trailing digits from the   *)
(* prefix it expects, so a kind of command is a prefix.  pyserial-asyncio  *)
(* opens a port without suspending.                                        *)
(***************************************************************************)
EXTENDS Integers, Sequences, SequencesExt

CONSTANTS Pollers, Kinds,
          Attempts,     \* _QUERY_MAX_ATTEMPTS
          ErrorLimit,   \* _RECONNECT_AFTER_ERRORS
          MaxLines      \* bound: lines under way

\* A query is tried once at least; errors are counted up to a limit.
ASSUME LimitsAssumption == Attempts \in Nat \ {0} /\ ErrorLimit \in Nat

\* The names of the other actors are not names of pollers.
ASSUME NamesAssumption == {"user", "nobody", "radio"} \intersect Pollers = {}

VARIABLES
    connected, port,    \* _connected; what _reader and _writer name: open, closing, none
    reconnecting,       \* the poller's _reconnecting
    cooling,            \* less than _RECONNECT_COOLDOWN since _last_reconnect
    errors,             \* _consecutive_errors, up to ErrorLimit
    lock, waiters,      \* the transport's lock: its holder, and who waits for it
    at, asks,           \* of each task: the await it is at, the call it makes
    left,               \* attempts left to the query that holds the lock
    buffer,             \* lines received and not read
    cut,                \* the endpoint that the holder of the lock reads has closed
    wire,               \* lines of the radio under way
    plugged, lost,      \* the cable; the open endpoint has lost its device
    doubtful,           \* history: when the call began, a line that could be taken for
                        \* its answer was still under way
    misread             \* history: a query was answered with a line of another call

portVars  == <<connected, port, reconnecting, cooling>>
lineVars  == <<left, buffer, cut, doubtful, misread>>
yaesuVars == <<portVars, errors, lock, waiters, at, asks, lineVars, wire, plugged, lost>>

Tasks  == Pollers \union {"user"}
Nobody == "nobody"
Calls  == [op : {"query", "write"}, kind : Kinds]
NoCall == [op |-> "none", kind |-> "none"]

Line(what, kind, of) == [what |-> what, kind |-> kind, of |-> of]

Usable == connected /\ port = "open"        \* _check_connected()

YaesuInit ==
    /\ connected = FALSE /\ port = "none" /\ reconnecting = FALSE /\ cooling = FALSE
    /\ errors = 0 /\ lock = Nobody /\ waiters = <<>>
    /\ at = [t \in Tasks |-> "idle"] /\ asks = [t \in Tasks |-> NoCall]
    /\ left = 0 /\ buffer = <<>> /\ cut = FALSE /\ doubtful = FALSE /\ misread = FALSE
    /\ wire = <<>> /\ plugged = TRUE /\ lost = FALSE

-----------------------------------------------------------------------------
(* The end of a call.                                                      *)

Held == lock # Nobody

\* Nobody waits for the rest of the lines on a call that has ended.
Unowned(t, lines) ==
    [i \in DOMAIN lines |-> IF lines[i].of = t THEN [lines[i] EXCEPT !.of = Nobody] ELSE lines[i]]

\* The holder of the lock gives it to the task that has waited longest.
Released(t, then) ==
    /\ lock' = IF lock # t THEN lock ELSE IF waiters = <<>> THEN Nobody ELSE Head(waiters)
    /\ waiters' = IF lock = t /\ waiters # <<>> THEN Tail(waiters) ELSE RemoveFirst(waiters, t)
    /\ at' = [u \in Tasks |-> IF u = t THEN then ELSE IF u = lock' /\ lock' # lock THEN "turn" ELSE at[u]]
    /\ asks' = [asks EXCEPT ![t] = NoCall]
    /\ wire' = Unowned(t, wire)
    /\ IF lock = t THEN left' = 0 /\ cut' = FALSE /\ doubtful' = FALSE
       ELSE UNCHANGED <<left, cut, doubtful>>

\* record_error().
Counted == IF errors = ErrorLimit THEN ErrorLimit ELSE errors + 1

\* _try_reconnect(): the poller whose cycle failed reconnects when errors have
\* accumulated, unless another one does, or did a moment ago.
Reconnects(t, n) == t \in Pollers /\ n = ErrorLimit /\ ~reconnecting /\ ~cooling

\* close() up to its await; it does nothing if the transport is not connected.
Closes ==
    /\ connected' = FALSE
    /\ port' = IF Usable THEN "closing" ELSE port

\* The call of t ends with an error, the n-th in a row.
EndsFailed(t, n) ==
    /\ errors' = n
    /\ Released(t, IF Reconnects(t, n) THEN IF Usable THEN "closing" ELSE "pause" ELSE "idle")
    /\ IF Reconnects(t, n) THEN Closes /\ reconnecting' = TRUE /\ cooling' = TRUE
       ELSE UNCHANGED portVars

-----------------------------------------------------------------------------
(* write() and query().                                                    *)

\* What the radio sends for a call.  The echo of a write reads like an answer.
Responses(t, call) ==
    LET answer == Line("answer", call.kind, t) IN
    {<<>>, <<answer>>, <<Line("reject", "any", t)>>}
        \union IF call.op = "query" THEN {<<Line("echo", call.kind, t), answer>>} ELSE {}

\* Could the line be taken for the answer to a query of this kind?
Takes(kind, line) == line.what = "reject" \/ (line.what = "answer" /\ line.kind = kind)

\* Mutant: the buffer is not flushed.
KeepsOld == buffer

Flushed == <<>>

\* With the lock: flush_rx() and _raw_write().
Sends(t, call) ==
    /\ buffer' = Flushed
    /\ IF Usable /\ ~lost
       THEN /\ lock' = t /\ at' = [at EXCEPT ![t] = IF call.op = "query" THEN "read" ELSE "drain"]
            /\ asks' = [asks EXCEPT ![t] = call]
            /\ left' = Attempts /\ cut' = FALSE
            /\ doubtful' = \E i \in DOMAIN wire : Takes(call.kind, wire[i])
            /\ \E r \in Responses(t, call) : Len(wire \o r) <= MaxLines /\ wire' = wire \o r
            /\ UNCHANGED <<portVars, errors, waiters>>
       ELSE EndsFailed(t, IF Usable THEN Counted ELSE errors)
    /\ UNCHANGED <<misread, plugged, lost>>

\* A call begins; _require_connected() comes before the lock.
Begins(t, call) ==
    IF ~connected THEN EndsFailed(t, errors) /\ UNCHANGED <<buffer, misread, plugged, lost>>
    ELSE IF Held
    THEN /\ waiters' = Append(waiters, t) /\ at' = [at EXCEPT ![t] = "lock"]
         /\ asks' = [asks EXCEPT ![t] = call]
         /\ UNCHANGED <<portVars, errors, lock, lineVars, wire, plugged, lost>>
    ELSE Sends(t, call)

\* The lock has been handed over.
Turn(t) == at[t] = "turn" /\ Sends(t, asks[t])

\* query() reads the next line: a rejection, its own echo, a line with another
\* prefix, or what it takes for its answer.
LineRead(t) ==
    LET line == Head(buffer) IN
    /\ at[t] = "read" /\ ~cut /\ buffer # <<>>
    /\ IF ~Takes(asks[t].kind, line)
       THEN /\ IF left = 1 THEN EndsFailed(t, Counted)
               ELSE IF ~Usable THEN EndsFailed(t, errors)
               ELSE left' = left - 1 /\ UNCHANGED <<portVars, errors, lock, waiters, at, asks, wire, cut, doubtful>>
            /\ buffer' = (IF left = 1 \/ ~Usable THEN Unowned(t, Tail(buffer)) ELSE Tail(buffer)) /\ UNCHANGED misread
       ELSE /\ misread' = (misread \/ (line.of \notin {t, "radio"} /\ ~doubtful))
            /\ IF line.what = "reject" THEN EndsFailed(t, Counted)
               ELSE errors' = 0 /\ Released(t, "idle") /\ UNCHANGED portVars
            /\ buffer' = Unowned(t, Tail(buffer))
    /\ UNCHANGED <<plugged, lost>>

\* readline() times out, which is not counted; or the endpoint has closed.
ReadFails(t) ==
    /\ at[t] = "read" /\ (cut \/ buffer = <<>>)
    /\ EndsFailed(t, IF cut THEN Counted ELSE errors) /\ buffer' = Unowned(t, buffer)
    /\ UNCHANGED <<misread, plugged, lost>>

\* write() has read what came, for a while, and counts as a success in any case.
DrainEnds(t) ==
    /\ at[t] = "drain"
    /\ buffer' = <<>> /\ errors' = 0
    /\ Released(t, "idle")
    /\ UNCHANGED <<portVars, misread, plugged, lost>>

-----------------------------------------------------------------------------
(* The pollers (_run_poll_cycle), which also share a lock of their own.    *)

Calling == {"lock", "turn", "read", "drain"}

\* A cycle is due, and none reconnects.
CycleDue(t) ==
    /\ at[t] = "idle" /\ ~reconnecting
    /\ at' = [at EXCEPT ![t] = "cycle"]
    /\ UNCHANGED <<portVars, errors, lock, waiters, asks, lineVars, wire, plugged, lost>>

\* It runs when no other cycle does, and reads a value.
CycleRuns(t) ==
    /\ at[t] = "cycle" /\ \A u \in Pollers : at[u] \notin Calling
    /\ \E kind \in Kinds : Begins(t, [op |-> "query", kind |-> kind])

\* close() ends.
ClosingEnds(t) ==
    /\ at[t] = "closing"
    /\ port' = "none"
    /\ at' = [at EXCEPT ![t] = IF t = "user" THEN "idle" ELSE "pause"]
    /\ UNCHANGED <<connected, reconnecting, cooling, errors, lock, waiters, asks, lineVars, wire, plugged, lost>>

\* connect() opens the port, unless there is one; the device may be gone.
Opens ==
    IF connected \/ ~plugged THEN UNCHANGED <<connected, port, errors, lost>>
    ELSE connected' = TRUE /\ port' = "open" /\ errors' = 0 /\ lost' = FALSE

\* Mutant: a failed reconnect does not say that it is over.
OverIfConnected == ~connected'

\* _reconnecting after an attempt, failed or not.
StillReconnecting == FALSE

\* reconnect() goes on to connect().
PauseEnds(t) ==
    /\ at[t] = "pause"
    /\ Opens
    /\ reconnecting' = StillReconnecting
    /\ at' = [at EXCEPT ![t] = "idle"]
    /\ UNCHANGED <<cooling, lock, waiters, asks, lineVars, wire, plugged>>

CooldownEnds ==
    /\ cooling /\ cooling' = FALSE
    /\ UNCHANGED <<connected, port, reconnecting, errors, lock, waiters, at, asks, lineVars, wire, plugged, lost>>

-----------------------------------------------------------------------------
(* The user, the radio and the cable.                                      *)

UserCalls == at["user"] = "idle" /\ \E call \in Calls : Begins("user", call)

\* The caller's task is cancelled.
UserGivesUp ==
    /\ at["user"] \in Calling
    /\ Released("user", "idle") /\ buffer' = Unowned("user", buffer)
    /\ UNCHANGED <<portVars, errors, misread, plugged, lost>>

\* connect() opens the port and asks for the status.
UserConnects ==
    /\ at["user"] = "idle"
    /\ Opens
    /\ at' = [at EXCEPT !["user"] = IF connected' THEN "status" ELSE "idle"]
    /\ UNCHANGED <<reconnecting, cooling, lock, waiters, asks, lineVars, wire, plugged>>

UserAsksStatus ==
    /\ at["user"] = "status" /\ \E kind \in Kinds : Begins("user", [op |-> "query", kind |-> kind])

\* disconnect(): what was received goes with the endpoint.
UserDisconnects ==
    /\ at["user"] = "idle" /\ connected
    /\ Closes
    /\ at' = [at EXCEPT !["user"] = IF Usable THEN "closing" ELSE "idle"]
    /\ cut' = Held /\ buffer' = <<>>
    /\ UNCHANGED <<reconnecting, cooling, errors, lock, waiters, asks, left, doubtful, misread, wire, plugged, lost>>

\* A line arrives, if there is an endpoint to take it.
Arrives ==
    /\ wire # <<>> /\ wire' = Tail(wire)
    /\ buffer' = IF lost \/ ~(port = "open" \/ (Held /\ ~cut)) THEN buffer ELSE Append(buffer, Head(wire))
    /\ UNCHANGED <<portVars, errors, lock, waiters, at, asks, left, cut, doubtful, misread, plugged, lost>>

\* The radio reports a change of its own accord.
Informs ==
    /\ Len(wire \o buffer) < MaxLines
    /\ \E kind \in Kinds : wire' = Append(wire, Line("answer", kind, "radio"))
    /\ UNCHANGED <<portVars, errors, lock, waiters, at, asks, lineVars, plugged, lost>>

Unplug ==
    /\ plugged /\ plugged' = FALSE
    /\ lost' = TRUE /\ cut' = Held /\ buffer' = <<>> /\ wire' = <<>>
    /\ UNCHANGED <<portVars, errors, lock, waiters, at, asks, left, doubtful, misread>>

Replug ==
    /\ ~plugged /\ plugged' = TRUE
    /\ UNCHANGED <<portVars, errors, lock, waiters, at, asks, lineVars, wire, lost>>

-----------------------------------------------------------------------------
TaskStep(t) ==
    \/ Turn(t) \/ LineRead(t) \/ ReadFails(t) \/ DrainEnds(t) \/ ClosingEnds(t)
    \/ IF t = "user" THEN UserAsksStatus ELSE CycleDue(t) \/ CycleRuns(t) \/ PauseEnds(t)

YaesuNext ==
    \/ \E t \in Tasks : TaskStep(t)
    \/ CooldownEnds
    \/ UserCalls \/ UserGivesUp \/ UserConnects \/ UserDisconnects
    \/ Arrives \/ Informs \/ Unplug \/ Replug

YaesuSpec == YaesuInit /\ [][YaesuNext]_yaesuVars

-----------------------------------------------------------------------------
(* Properties.                                                             *)

Lines == [what : {"answer", "reject", "echo"}, kind : Kinds \union {"any"},
          of : Tasks \union {Nobody, "radio"}]

YaesuTypeOK ==
    /\ {connected, reconnecting, cooling, cut, plugged, lost, doubtful, misread} \subseteq BOOLEAN
    /\ port \in {"open", "closing", "none"} /\ errors \in 0..ErrorLimit /\ left \in 0..Attempts
    /\ at \in [Tasks -> {"idle", "cycle", "status", "closing", "pause"} \union Calling]
    /\ asks \in [Tasks -> Calls \union {NoCall}]
    /\ lock \in Tasks \union {Nobody} /\ ToSet(waiters) = {t \in Tasks : at[t] = "lock"}
    /\ \A t \in Tasks : at[t] \in {"turn", "read", "drain"} <=> lock = t
    /\ ToSet(buffer) \union ToSet(wire) \subseteq Lines

\* A query is answered (or rejected) with the radio's line on that very query,
\* or with a report of the radio's own: timeouts, cancelled callers, echoes and
\* reconnects in between do not pair a query with an older answer.  The
\* exception is an answer nobody waited for that is still on its way when a
\* query of the same kind is sent, or a rejection that is.
QueryGetsItsAnswer == ~misread

\* Errors that have accumulated are cleared again: while the cable is in, some
\* poller reopens the port (or a call succeeds), however attempts, cooldowns,
\* and the user's connects and disconnects fall.
PortComesBack == <>[]plugged => []<>(errors < ErrorLimit)

\* "All public methods are safe to call concurrently": a transport that says it
\* is connected has a port to read and write.
ConnectedHasPort == connected => port = "open"
=============================================================================
