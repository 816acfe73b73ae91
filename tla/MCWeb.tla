------------------------------- MODULE MCWeb -------------------------------
(* The connection and the parts of the web server on top of it, for TLC.   *)
(* They share no state, so a behaviour exercises one of them (`subject`).  *)
EXTENDS MCLifecycle, WebPoller, StateBroadcast

CONSTANTS ScopeClients, MaxRetries, MaxTasks

ASSUME ScopeLimits == MaxRetries \in Nat /\ MaxTasks \in Nat

VARIABLES
    subject,
    clients, enabled, waiting, disabling, commands, drained, refetching, fetched,
    ready, scope, stale, retries

Panel == INSTANCE WebScope

linkVars  == vars
panelVars == <<clients, enabled, waiting, disabling, commands, drained, refetching, fetched,
               ready, scope, stale, retries>>

MCInit ==
    /\ subject \in {"connection", "commands", "broadcast", "scope"}
    /\ Init /\ PollerInit /\ BroadcastInit /\ Panel!ScopeInit
    /\ subject # "connection" => fault = {"stall"}
    /\ subject # "broadcast" => state = Blank
    /\ subject # "scope" => ready

MCNext ==
    \/ subject = "connection" /\ Next /\ UNCHANGED <<subject, pollerAll, broadcastAll, panelVars>>
    \/ subject = "commands" /\ PollerNext /\ UNCHANGED <<subject, linkVars, broadcastAll, panelVars>>
    \/ subject = "broadcast" /\ BroadcastNext /\ UNCHANGED <<subject, linkVars, pollerAll, panelVars>>
    \/ subject = "scope" /\ Panel!ScopeNext /\ UNCHANGED <<subject, linkVars, pollerAll, broadcastAll>>

MCSpec ==
    /\ MCInit /\ [][MCNext]_<<subject, linkVars, pollerAll, broadcastAll, panelVars>>
    /\ subject = "commands" => TaskFairness
    /\ subject = "scope" => Panel!ScopeFairness

\* Every variable of every part has its type.
WebTypesOK == TypeOK /\ PollerTypeOK /\ BroadcastTypeOK /\ Panel!ScopeTypeOK

\* The scope comes on for those who watch (see WebScope).
ScopeServed == Panel!ScopeServed
=============================================================================
