--------------------------- MODULE RigctldServer ---------------------------
(***************************************************************************)
(* The rigctld server (rigctld/server.py) with the two objects it can be   *)
(* given: a poller (rigctld/poller.py) and its circuit breaker             *)
(* (rigctld/circuit_breaker.py).  Clients come and go, their writes hold   *)
(* the poller, the poller runs while somebody is connected.                *)
(*                                                                         *)
(* One action is what a task does between two awaits.  Coroutines that the *)
(* server spawns begin in the order they were spawned.                     *)
(***************************************************************************)
EXTENDS Integers, Sequences, FiniteSets

CONSTANTS Clients,
          MaxClients,   \* max_clients
          Threshold,    \* failure_threshold
          Prewarms,     \* wsjtx_compat
          WaitsForClients, \* Server.wait_closed() waits for open connections (Python 3.12.1)
          MaxSpawned    \* bound: coroutines spawned and not begun

ASSUME ThresholdAssumption == Threshold \in Nat \ {0}

VARIABLES
    server,     \* up, or the await stop() is at: poller, listener, clients; down
    conn,       \* each client: away, reading, executing, closing
    write,      \* what a client executes: none, read, set, packet
    count,      \* _client_count
    spawned,    \* start() and stop() calls of the poller that have not begun
    prewarm,    \* the prewarm task is between its first and last step
    pollTask,   \* poller._task: none, at one of its awaits, or ended
    cancelled,  \* the poll task has been cancelled
    writeBusy, holding,         \* write_busy; now < _hold_until
    breaker, failures, elapsed, \* _state, _consecutive_failures, the window has elapsed
    radioUp,    \* the radio answers
    external,   \* external_cat_session_active
    exposed,    \* history: writers whose hold another one has ended
    missed,     \* history: the last start() found the old task still ending
    late        \* history: a start() began after stop() had dropped the poller

clientVars  == <<server, conn, write, count, spawned>>
pollVars    == <<pollTask, cancelled, missed, late>>
holdVars    == <<writeBusy, holding, prewarm, exposed>>
breakerVars == <<breaker, failures, elapsed>>
radioVars   == <<radioUp, external>>
vars == <<clientVars, pollVars, holdVars, breakerVars, radioVars>>

Connected == {c \in Clients : conn[c] # "away"}
Writers   == {c \in Clients : write[c] \in {"set", "packet"}}
HasPoller == server \in {"up", "poller"}                  \* _poller is not None
Polling   == {"sleep", "freq", "probe", "mode", "data"}   \* awaits of the poll task

Init ==
    /\ server = "up"
    /\ conn = [c \in Clients |-> "away"] /\ write = [c \in Clients |-> "none"]
    /\ count = 0 /\ spawned = <<>>
    /\ pollTask = "none" /\ cancelled = FALSE /\ missed = FALSE /\ late = FALSE
    /\ writeBusy = FALSE /\ holding = FALSE /\ prewarm = FALSE /\ exposed = {}
    /\ breaker = "CLOSED" /\ failures = 0 /\ elapsed = FALSE
    /\ radioUp = TRUE /\ external = FALSE

-----------------------------------------------------------------------------
(* Clients.                                                                *)

\* _accept_client() of a client that is taken; the first one starts the poller
\* and, in the compatibility mode, the prewarm task.
Accept(c) ==
    /\ conn[c] = "away" /\ count < MaxClients /\ HasPoller
    /\ conn' = [conn EXCEPT ![c] = "reading"]
    /\ count' = count + 1
    /\ IF count' = 1 THEN Len(spawned) < MaxSpawned /\ spawned' = Append(spawned, "start")
       ELSE UNCHANGED spawned
    /\ IF count' = 1 /\ Prewarms
       THEN prewarm' = TRUE /\ writeBusy' = TRUE
       ELSE UNCHANGED <<prewarm, writeBusy>>
    /\ UNCHANGED <<server, write, holding, exposed, pollVars, breakerVars, radioVars>>

\* A line is read and executed; a command that sets something holds the poller,
\* if there still is one.
Command(c) ==
    /\ conn[c] = "reading"
    /\ conn' = [conn EXCEPT ![c] = "executing"]
    /\ \E kind \in {"read"} \union (IF HasPoller THEN {"set", "packet"} ELSE {}) :
         /\ write' = [write EXCEPT ![c] = kind]
         /\ writeBusy' = (writeBusy \/ kind # "read")
    /\ UNCHANGED <<server, count, spawned, holding, prewarm, exposed, pollVars, breakerVars, radioVars>>

\* Mutant: the hold is lifted by a command that ends well only.
LiftsOnSuccess(held, ok) == IF held /\ ok THEN FALSE ELSE writeBusy

\* The flag when a command (or the prewarm) ends: lifted by whoever held it.
Lifts(held, ok) == IF held THEN FALSE ELSE writeBusy

\* Everybody else who writes loses the hold with it.
Exposed(held, others) == IF held THEN exposed \union others ELSE exposed

\* The command ends, in time or not; a packet mode leaves a settle window.  When
\* stop() has dropped the poller, lifting the hold raises and ends the client;
\* so does an error of the connection.
CommandEnds(c, ok) ==
    LET held == c \in Writers IN
    /\ conn[c] = "executing"
    /\ \E to \in {"closing"} \union (IF held => HasPoller THEN {"reading"} ELSE {}) :
         conn' = [conn EXCEPT ![c] = to]
    /\ write' = [write EXCEPT ![c] = "none"]
    /\ writeBusy' = Lifts(held /\ HasPoller, ok)
    /\ exposed' = Exposed(held, Writers) \ {c}
    /\ holding' = (holding \/ (write[c] = "packet" /\ HasPoller))
    /\ UNCHANGED <<server, count, spawned, prewarm, pollVars, breakerVars, radioVars>>

\* quit, end of file, a framing error or the idle timeout.
Quit(c) ==
    /\ conn[c] = "reading"
    /\ conn' = [conn EXCEPT ![c] = "closing"]
    /\ UNCHANGED <<server, write, count, spawned, pollVars, holdVars, breakerVars, radioVars>>

\* Mutant: the poller is stopped by every client that leaves.
StopsAlways(n) == TRUE

StopsPoller(n) == n <= 0

\* The connection is closed and the done callback runs: _on_client_done.
ClientDone(c) ==
    /\ conn[c] = "closing"
    /\ conn' = [conn EXCEPT ![c] = "away"]
    /\ count' = count - 1
    /\ IF StopsPoller(count') /\ HasPoller THEN Len(spawned) < MaxSpawned /\ spawned' = Append(spawned, "stop")
       ELSE UNCHANGED spawned
    /\ UNCHANGED <<server, write, pollVars, holdVars, breakerVars, radioVars>>

\* _wsjtx_compat_prewarm() ends, well (with a settle window) or not.
PrewarmEnds(ok) ==
    /\ prewarm
    /\ prewarm' = FALSE
    /\ writeBusy' = Lifts(TRUE, ok)
    /\ exposed' = Exposed(TRUE, Writers)
    /\ holding' \in {holding, TRUE}
    /\ UNCHANGED <<clientVars, pollVars, breakerVars, radioVars>>

-----------------------------------------------------------------------------
(* The life of the poll task.                                              *)

\* start(), which does nothing while there is a task, even one that is ending.
StartPoller ==
    /\ spawned # <<>> /\ Head(spawned) = "start"
    /\ spawned' = Tail(spawned)
    /\ pollTask' = IF pollTask = "none" THEN "sleep" ELSE pollTask
    /\ missed' = (pollTask # "none" /\ (cancelled \/ pollTask = "ended"))
    /\ late' = (late \/ ~HasPoller)
    /\ UNCHANGED <<server, conn, write, count, cancelled, holdVars, breakerVars, radioVars>>

\* stop() up to its await: it cancels the task and waits for it.  Between the
\* end of the task and the resumption of an earlier stop(), one iteration of the
\* event loop, no other stop() begins.
StopPoller ==
    /\ spawned # <<>> /\ Head(spawned) = "stop" /\ pollTask # "ended"
    /\ spawned' = Tail(spawned)
    /\ cancelled' = (pollTask # "none")
    /\ UNCHANGED <<server, conn, write, count, pollTask, missed, late, holdVars, breakerVars, radioVars>>

\* The cancelled task ends at its await.
PollEnds ==
    /\ cancelled /\ pollTask \in Polling
    /\ pollTask' = "ended"
    /\ UNCHANGED <<cancelled, missed, late, clientVars, holdVars, breakerVars, radioVars>>

\* Whoever awaits the task in stop() drops it; the server then drops the poller.
StopReturns ==
    /\ cancelled /\ pollTask = "ended"
    /\ pollTask' = "none" /\ cancelled' = FALSE
    /\ server' = IF server = "poller" THEN "listener" ELSE server
    /\ UNCHANGED <<conn, write, count, spawned, missed, late, holdVars, breakerVars, radioVars>>

-----------------------------------------------------------------------------
(* stop() of the server.                                                   *)

\* Mutant: the poller is dropped without being stopped.
StopServerDrops ==
    /\ server = "up" /\ server' = "listener"
    /\ UNCHANGED <<conn, write, count, spawned, pollVars, holdVars, breakerVars, radioVars>>

\* It stops the poller first.
StopServer ==
    /\ server = "up" /\ pollTask # "ended"
    /\ server' = IF pollTask = "none" THEN "listener" ELSE "poller"
    /\ cancelled' = (pollTask # "none")
    /\ UNCHANGED <<conn, write, count, spawned, pollTask, missed, late, holdVars, breakerVars, radioVars>>

\* The listener is closed; then the client tasks are cancelled.
ListenerClosed ==
    /\ server = "listener" /\ (WaitsForClients => Connected = {})
    /\ server' = "clients"
    /\ conn' = [c \in Clients |-> IF conn[c] = "away" THEN "away" ELSE "closing"]
    /\ write' = [c \in Clients |-> "none"] /\ exposed' = {}
    /\ UNCHANGED <<count, spawned, writeBusy, holding, prewarm, pollVars, breakerVars, radioVars>>

\* Every client task has ended.
StopServerEnds ==
    /\ server = "clients" /\ Connected = {}
    /\ server' = "down"
    /\ UNCHANGED <<conn, write, count, spawned, pollVars, holdVars, breakerVars, radioVars>>

-----------------------------------------------------------------------------
(* A poll cycle.                                                           *)

\* Mutant: the window is not looked at.
SeenLater == breaker

\* The state property: OPEN becomes HALF_OPEN once the window has elapsed.
Seen == IF breaker = "OPEN" /\ elapsed THEN "HALF_OPEN" ELSE breaker

\* Mutant: a cycle asks for the flag at its start only.
YieldsAtStart == pollTask = "sleep" /\ writeBusy

\* The tests of write_busy, at the start of a cycle and between its reads.
Yields == writeBusy

\* _run() wakes up: it skips the cycle or begins with get_freq().
PollWakes ==
    /\ pollTask = "sleep" /\ ~cancelled
    /\ breaker' = IF holding \/ Yields THEN breaker ELSE Seen
    /\ pollTask' = IF holding \/ Yields \/ Seen = "OPEN" \/ external THEN "sleep"
                   ELSE IF Seen = "HALF_OPEN" THEN "probe" ELSE "freq"
    /\ UNCHANGED <<failures, elapsed, cancelled, missed, late, clientVars, holdVars, radioVars>>

\* record_success().
Succeeds == breaker' = "CLOSED" /\ failures' = 0 /\ elapsed' = FALSE

\* Mutant: a failed probe is counted, too.
CountsEvery == failures + 1

\* Failures are counted while the circuit is closed.
FailuresAfter == IF breaker = "CLOSED" THEN failures + 1 ELSE failures

\* record_failure().
Fails ==
    /\ failures' = FailuresAfter
    /\ breaker' = CASE breaker = "HALF_OPEN" -> "OPEN"
                    [] breaker = "CLOSED" /\ failures' >= Threshold -> "OPEN"
                    [] OTHER -> breaker
    /\ elapsed' = FALSE

\* get_freq() ends; a radio that answers may still give an error that counts
\* neither way.  A probe is the only command of its cycle.
FreqRead ==
    /\ pollTask \in {"freq", "probe"} /\ ~cancelled
    /\ \/ radioUp /\ Succeeds
       \/ ~radioUp /\ (Fails \/ UNCHANGED breakerVars)
    /\ pollTask' = IF pollTask = "probe" \/ Yields THEN "sleep" ELSE "mode"
    /\ UNCHANGED <<cancelled, missed, late, clientVars, holdVars, radioVars>>

\* The mode and the data mode are read; their errors are only logged.
ModeRead ==
    /\ pollTask \in {"mode", "data"} /\ ~cancelled
    /\ pollTask' = IF pollTask = "mode" /\ ~Yields THEN "data" ELSE "sleep"
    /\ UNCHANGED <<cancelled, missed, late, clientVars, holdVars, breakerVars, radioVars>>

-----------------------------------------------------------------------------
(* Time and the radio.                                                     *)

HoldExpires ==
    /\ holding /\ holding' = FALSE
    /\ UNCHANGED <<writeBusy, prewarm, exposed, clientVars, pollVars, breakerVars, radioVars>>

WindowElapses ==
    /\ breaker = "OPEN" /\ ~elapsed
    /\ elapsed' = TRUE
    /\ UNCHANGED <<breaker, failures, clientVars, pollVars, holdVars, radioVars>>

RadioChanges ==
    /\ \/ radioUp' = ~radioUp /\ UNCHANGED external
       \/ external' = ~external /\ UNCHANGED radioUp
    /\ UNCHANGED <<clientVars, pollVars, holdVars, breakerVars>>

PollStep == PollWakes \/ FreqRead \/ ModeRead

Next ==
    \/ \E c \in Clients : Accept(c) \/ Command(c) \/ Quit(c) \/ ClientDone(c)
    \/ \E c \in Clients, ok \in BOOLEAN : CommandEnds(c, ok)
    \/ \E ok \in BOOLEAN : PrewarmEnds(ok)
    \/ StartPoller \/ StopPoller \/ PollEnds \/ StopReturns
    \/ StopServer \/ ListenerClosed \/ StopServerEnds
    \/ PollStep
    \/ HoldExpires \/ WindowElapses \/ RadioChanges

\* The poll task runs whenever it is ready, and time passes.
PollerFairness == WF_vars(PollStep) /\ WF_vars(WindowElapses)

-----------------------------------------------------------------------------
(* Properties.                                                             *)

ServerTypeOK ==
    /\ server \in {"up", "poller", "listener", "clients", "down"}
    /\ conn \in [Clients -> {"away", "reading", "executing", "closing"}]
    /\ write \in [Clients -> {"none", "read", "set", "packet"}]
    /\ count = Cardinality(Connected)
    /\ pollTask \in {"none", "ended"} \union Polling /\ cancelled \in BOOLEAN
    /\ {writeBusy, holding, prewarm, elapsed, missed} \subseteq BOOLEAN
    /\ breaker \in {"CLOSED", "OPEN", "HALF_OPEN"} /\ failures \in 0..Threshold

\* Between two changes of the set of clients the poller runs exactly while
\* somebody is connected, however quickly clients come and go; the exception is
\* a first client that arrives while the poll task of the last one still ends.
PollerFollowsClients ==
    spawned = <<>> /\ ~cancelled /\ HasPoller =>
        IF count = 0 THEN pollTask = "none" ELSE pollTask # "none" \/ missed

\* The hold of the poller ends with the writes: whichever way a command or the
\* prewarm ends, the flag does not outlive it and stop polling for good.
HoldHasWriter == writeBusy /\ HasPoller => Writers # {} \/ prewarm

\* After stop() no client is served and nothing polls the radio, whatever the
\* clients did meanwhile; the exception is a start() of the poller that was
\* spawned before stop() and begins after it.
StopLeavesNothing ==
    server = "down" => Connected = {} /\ (pollTask = "none" \/ late)

\* No read of the poller begins while a client writes, unless the end of another
\* client's write (or of the prewarm) has lifted the hold they share.
PollYields ==
    [][pollTask' # pollTask /\ pollTask' \in {"freq", "probe", "mode", "data"}
        => Writers \subseteq exposed]_vars

\* A breaker that has opened closes again once the radio answers, provided the
\* poller is left to poll from some time on.
BreakerCloses ==
    <>[](radioUp /\ ~external /\ ~writeBusy /\ ~holding /\ ~cancelled /\ pollTask \in Polling)
        => <>[](breaker = "CLOSED")
=============================================================================
