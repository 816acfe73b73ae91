------------------------------ MODULE WebScope ------------------------------
(* Who switches the radio's scope on and off (web/server.py).  Scope       *)
(* clients register and leave; commands to switch it go through the        *)
(* command queue, where two commands of one type are one (see WebPoller),  *)
(* to the poll task.  A monitor repairs what goes wrong.                   *)
(***************************************************************************)
EXTENDS Integers, Sequences, SequencesExt, FiniteSets

CONSTANTS ScopeClients,
          MaxRetries,   \* _scope_health_max_retries
          MaxTasks      \* bound: disable and refetch tasks at once

VARIABLES
    clients,    \* _scope_handlers
    enabled,    \* _scope_enabled
    waiting,    \* the task that waits for the radio to become ready
    disabling,  \* disable tasks in their grace time
    commands,   \* the queue's enable and disable, in the order of their types' first
    drained,    \* commands that the poll task has taken
    refetching, \* tasks that fetch the state after a reconnect
    fetched,    \* _initial_fetch_done
    ready,      \* radio_ready
    scope,      \* the radio's scope is on
    stale,      \* no data in the scope frames since the monitor's last check
    retries     \* of the monitor

scopeAll == <<clients, enabled, waiting, disabling, commands, drained,
              refetching, fetched, ready, scope, stale, retries>>

ScopeInit ==
    /\ clients = {} /\ enabled = FALSE /\ waiting = FALSE /\ disabling = 0
    /\ commands = <<>> /\ drained = <<>>
    /\ refetching = 0 /\ fetched = TRUE
    /\ ready \in BOOLEAN /\ scope = FALSE /\ stale = FALSE /\ retries = 0

\* Mutant: a command is queued again.
QueueTwice(cmd) == commands' = Append(commands, cmd)

\* put() of a command without arguments.
Queue(cmd) == commands' = IF Contains(commands, cmd) THEN commands ELSE Append(commands, cmd)

-----------------------------------------------------------------------------
(* Clients.                                                                *)

\* ensure_scope_enabled().
Register(c) ==
    /\ c \notin clients
    /\ clients' = clients \union {c}
    /\ IF enabled THEN UNCHANGED <<commands, enabled, waiting>>
       ELSE IF ready THEN Queue("enable") /\ enabled' = TRUE /\ UNCHANGED waiting
       ELSE waiting' = TRUE /\ UNCHANGED <<commands, enabled>>
    /\ UNCHANGED <<disabling, drained, refetching, fetched, ready, scope, stale, retries>>

\* unregister_scope_handler().
Unregister(c) ==
    /\ c \in clients
    /\ clients' = clients \ {c}
    /\ IF clients' = {} /\ enabled THEN disabling < MaxTasks /\ disabling' = disabling + 1
       ELSE UNCHANGED disabling
    /\ UNCHANGED <<enabled, waiting, commands, drained, refetching, fetched, ready, scope, stale, retries>>

\* _disable_scope_async() after its grace time.
GraceEnds ==
    /\ disabling > 0 /\ disabling' = disabling - 1
    /\ IF clients # {} THEN UNCHANGED <<commands, enabled>>
       ELSE Queue("disable") /\ enabled' = FALSE
    /\ UNCHANGED <<clients, waiting, drained, refetching, fetched, ready, scope, stale, retries>>

\* _wait_and_enable_scope() ends: nobody is left, the radio is ready, or it is
\* not in time.
WaitEnds ==
    /\ waiting /\ waiting' = FALSE
    /\ IF clients # {} /\ ready THEN Queue("enable") /\ enabled' = TRUE
       ELSE UNCHANGED <<commands, enabled>>
    /\ UNCHANGED <<clients, disabling, drained, refetching, fetched, ready, scope, stale, retries>>

-----------------------------------------------------------------------------
(* The poll task.                                                          *)

Drain ==
    /\ drained = <<>> /\ commands # <<>>
    /\ drained' = commands /\ commands' = <<>>
    /\ UNCHANGED <<clients, enabled, waiting, disabling, refetching, fetched, ready, scope, stale, retries>>

\* The next command is executed, or fails; enabling is put off while the state is
\* fetched.
Run(ok) ==
    /\ drained # <<>> /\ drained' = Tail(drained)
    /\ IF Head(drained) = "enable" /\ ~fetched THEN Queue("enable") ELSE UNCHANGED commands
    /\ scope' = IF ~ok \/ ~ready \/ (Head(drained) = "enable" /\ ~fetched) THEN scope
                ELSE Head(drained) = "enable"
    /\ UNCHANGED <<clients, enabled, waiting, disabling, refetching, fetched, ready, stale, retries>>

-----------------------------------------------------------------------------
(* The radio.                                                              *)

\* It comes and goes; when it is away for long the session is built again, and
\* _on_radio_reconnect() spawns a task that fetches the state.
ReadyChanges ==
    /\ ready' = ~ready
    /\ scope' \in {scope, FALSE}
    /\ UNCHANGED <<clients, enabled, waiting, disabling, commands, drained, refetching, fetched, stale, retries>>

Reconnected ==
    /\ ~ready /\ refetching < MaxTasks
    /\ scope' = FALSE /\ fetched' = FALSE /\ refetching' = refetching + 1
    /\ UNCHANGED <<clients, enabled, waiting, disabling, commands, drained, ready, stale, retries>>

\* The fetch ends, well or not, and the scope is enabled again.
RefetchEnds ==
    /\ refetching > 0 /\ refetching' = refetching - 1 /\ fetched' = TRUE
    /\ IF clients # {} THEN Queue("enable") /\ enabled' = TRUE ELSE UNCHANGED <<commands, enabled>>
    /\ UNCHANGED <<clients, waiting, disabling, drained, ready, scope, stale, retries>>

\* A frame with data reaches the clients.
Frame ==
    /\ scope /\ ready /\ clients # {} /\ stale
    /\ stale' = FALSE
    /\ UNCHANGED <<clients, enabled, waiting, disabling, commands, drained, refetching, fetched, ready, scope, retries>>

-----------------------------------------------------------------------------
(* The monitor.                                                            *)

\* Mutant: the monitor trusts the server's flag.
RepairsDisabled == stale /\ ~enabled

Repairs == stale

\* A check of _scope_health_monitor(), an interval after the one before.
Check ==
    /\ stale' = TRUE
    /\ IF clients = {} THEN UNCHANGED <<retries, commands>>
       ELSE IF ready /\ Repairs
       THEN IF retries < MaxRetries THEN retries' = retries + 1 /\ Queue("enable")
            ELSE UNCHANGED <<retries, commands>>
       ELSE retries' = 0 /\ UNCHANGED commands
    /\ UNCHANGED <<clients, enabled, waiting, disabling, drained, refetching, fetched, ready, scope>>

ScopeNext ==
    \/ \E c \in ScopeClients : Register(c) \/ Unregister(c)
    \/ GraceEnds \/ WaitEnds \/ Drain \/ RefetchEnds
    \/ \E ok \in BOOLEAN : Run(ok)
    \/ ReadyChanges \/ Reconnected
    \/ Frame \/ Check

\* The tasks run, the monitor checks, and a radio whose scope is on sends frames.
ScopeFairness ==
    /\ WF_scopeAll(GraceEnds) /\ WF_scopeAll(WaitEnds) /\ WF_scopeAll(Drain)
    /\ WF_scopeAll(RefetchEnds) /\ WF_scopeAll(\E ok \in BOOLEAN : Run(ok))
    /\ WF_scopeAll(Frame) /\ WF_scopeAll(Check)

ScopeSpec == ScopeInit /\ [][ScopeNext]_scopeAll /\ ScopeFairness

-----------------------------------------------------------------------------
(* Properties.                                                             *)

ScopeTypeOK ==
    /\ clients \subseteq ScopeClients
    /\ IsInjective(commands) /\ IsInjective(drained)
    /\ ToSet(commands) \union ToSet(drained) \subseteq {"enable", "disable"}
    /\ disabling \in 0..MaxTasks /\ refetching \in 0..MaxTasks /\ retries \in 0..MaxRetries
    /\ {enabled, waiting, fetched, ready, scope, stale} \subseteq BOOLEAN

\* While somebody watches and the radio is there, the scope comes on and stays
\* on, in spite of clients that come and go, a radio that becomes ready too late,
\* reconnects, lost commands, and an enable and a disable that change places in
\* the queue; unless the monitor has given up.
ScopeServed ==
    <>[](clients # {} /\ ready) => <>[](scope \/ retries = MaxRetries)
=============================================================================
