----------------------------- MODULE WebPoller -----------------------------
(* The web server's command queue (CommandQueue in                         *)
(* runtime/_poller_types.py) and the task that empties it                  *)
(* (web/radio_poller.py), with the HTTP batch that waits for its steps     *)
(* (web/server.py).  Commands are numbered as they are put.  Between       *)
(* commands the task polls; on a radio with two VFO slots it swaps them    *)
(* for a moment to read the other one.                                     *)
(***************************************************************************)
EXTENDS Integers, Sequences, SequencesExt

CONSTANTS Types,        \* types of commands that are coalesced
          MaxPuts       \* bound: commands put

\* Steps and PTT commands have lanes of their own.
ASSUME CoalescedTypes == {"none", "ptt", "step"} \cap Types = {}

VARIABLES
    segments,   \* the queue's segments, oldest first
    puts,       \* number of the last command put
    future,     \* of each step that was put: pending, cancelled, done
    batch,      \* drained entries that wait for their turn
    running,    \* the command in execution, or none
    task,       \* what the task does: top, next, gap, query, swap ..., ended
    backoff,    \* _backoff > 0
    swapped,    \* the radio is in the other VFO slot
    override,   \* replies go to the other slot
    external,   \* external_cat_session_active
    newest,     \* history: number of the last command put, by type
    ran,        \* history: number of the last command begun, by type
    swapLost,   \* history: a swap or swap-back was not sent
    cutShort    \* history: stop() came during the swap back

queueVars == <<segments, puts, future, newest>>
swapVars  == <<swapped, override, swapLost, cutShort>>
pollerAll == <<queueVars, batch, running, task, backoff, swapVars, external, ran>>

None == [type |-> "none", n |-> 0]

Waiting == {n \in DOMAIN future : future[n] = "pending"}

\* A coalesced segment keeps PTT commands and, like a dict, the entry of each
\* type at the place of the type's first command.
Coalesced  == [lane |-> "coalesced", ptt |-> <<>>, dedup |-> <<>>]
Ordered(e) == [lane |-> "ordered", ptt |-> <<>>, dedup |-> <<e>>]

PollerInit ==
    /\ segments = <<>> /\ puts = 0 /\ future = <<>>
    /\ batch = <<>> /\ running = None /\ task = "top" /\ backoff = FALSE
    /\ swapped = FALSE /\ override = FALSE /\ swapLost = FALSE /\ cutShort = FALSE
    /\ external = FALSE
    /\ newest = [t \in Types |-> 0] /\ ran = [t \in Types |-> 0]

-----------------------------------------------------------------------------
(* The queue.                                                              *)

\* Mutant: the first entry of a type stays.
FirstStays(dedup, e) ==
    IF \E i \in DOMAIN dedup : dedup[i].type = e.type THEN dedup ELSE Append(dedup, e)

\* dedup[type(cmd)] = entry.
Deduplicated(dedup, e) ==
    IF \E i \in DOMAIN dedup : dedup[i].type = e.type
    THEN [i \in DOMAIN dedup |-> IF dedup[i].type = e.type THEN e ELSE dedup[i]]
    ELSE Append(dedup, e)

Into(segment, e) ==
    IF e.type = "ptt" THEN [segment EXCEPT !.ptt = Append(@, e)]
    ELSE [segment EXCEPT !.dedup = Deduplicated(@, e)]

\* Mutant: a command joins the first segment of its kind.
JoinsFirst(e) ==
    IF segments # <<>> /\ Head(segments).lane = "coalesced"
    THEN [segments EXCEPT ![1] = Into(@, e)]
    ELSE Append(segments, Into(Coalesced, e))

\* put(): the last segment takes the command unless it belongs to a step.
WithCoalesced(e) ==
    IF segments # <<>> /\ Last(segments).lane = "coalesced"
    THEN [segments EXCEPT ![Len(segments)] = Into(@, e)]
    ELSE Append(segments, Into(Coalesced, e))

\* A control client's command.
Put(type) ==
    /\ puts < MaxPuts /\ puts' = puts + 1
    /\ segments' = WithCoalesced([type |-> type, n |-> puts + 1])
    /\ future' = Append(future, "none")
    /\ newest' = IF type \in Types THEN [newest EXCEPT ![type] = puts + 1] ELSE newest
    /\ UNCHANGED <<batch, running, task, backoff, swapVars, external, ran>>

\* The HTTP batch puts its next step when it waits for none.
PutOrdered ==
    /\ Waiting = {} /\ puts < MaxPuts /\ puts' = puts + 1
    /\ segments' = Append(segments, Ordered([type |-> "step", n |-> puts + 1]))
    /\ future' = Append(future, "pending")
    /\ UNCHANGED <<newest, batch, running, task, backoff, swapVars, external, ran>>

\* The step's time is over: wait_for() cancels its future and the batch goes on.
StepTimesOut ==
    /\ Waiting # {}
    /\ future' = [n \in DOMAIN future |-> IF n \in Waiting THEN "cancelled" ELSE future[n]]
    /\ UNCHANGED <<segments, puts, newest, batch, running, task, backoff, swapVars, external, ran>>

-----------------------------------------------------------------------------
(* _run(): commands.                                                       *)

Entries(segment) == segment.ptt \o segment.dedup

\* Mutant: the task goes on as if there were no external session.
NeverPauses == FALSE

Pauses == external

\* The top of a cycle: drain_entries(), unless an external session owns the wire.
TopOfCycle ==
    /\ task = "top" /\ ~Pauses
    /\ batch' = FlattenSeq([i \in DOMAIN segments |-> Entries(segments[i])])
    /\ segments' = <<>>
    /\ task' = "next"
    /\ UNCHANGED <<puts, future, newest, running, backoff, swapVars, external, ran>>

\* A cancelled step is skipped.
Skips(e) == future[e.n] = "cancelled"

SkipEntry ==
    /\ task = "next" /\ batch # <<>> /\ Skips(Head(batch))
    /\ batch' = Tail(batch)
    /\ UNCHANGED <<queueVars, running, task, backoff, swapVars, external, ran>>

\* _execute() begins.
Execute ==
    /\ task = "next" /\ batch # <<>> /\ ~Skips(Head(batch))
    /\ batch' = Tail(batch) /\ running' = Head(batch) /\ task' = "execute"
    /\ ran' = IF Head(batch).type \in Types THEN [ran EXCEPT ![Head(batch).type] = Head(batch).n] ELSE ran
    /\ UNCHANGED <<queueVars, backoff, swapVars, external>>

\* It ends well, because the radio is gone, or with another error; a future that
\* is still pending is told, and the task sleeps for a gap.
ExecuteEnds(outcome) ==
    /\ task = "execute"
    /\ future' = [future EXCEPT ![running.n] = IF @ = "pending" THEN "done" ELSE @]
    /\ backoff' = CASE outcome = "ok" -> FALSE [] outcome = "gone" -> TRUE [] OTHER -> backoff
    /\ running' = None /\ task' = "gap"
    /\ UNCHANGED <<segments, puts, newest, batch, swapVars, external, ran>>

GapEnds ==
    /\ task = "gap" /\ task' = "next"
    /\ UNCHANGED <<queueVars, batch, running, backoff, swapVars, external, ran>>

-----------------------------------------------------------------------------
(* _run(): queries.                                                        *)

\* Nothing is left to execute; a disconnected radio is left alone for a while
\* first.
QueryBegins ==
    /\ task = "next" /\ batch = <<>> /\ task' = "query"
    /\ UNCHANGED <<queueVars, batch, running, backoff, swapVars, external, ran>>

\* A query of a radio in backoff that fails in any way, or one that finds the
\* radio gone, ends the cycle; one that ends a backoff is followed by another.
\* Then the other slot may be looked at.
QueryEnds(outcome) ==
    /\ task = "query"
    /\ backoff' = CASE outcome = "ok" -> FALSE [] outcome = "gone" -> TRUE [] OTHER -> backoff
    /\ IF outcome = "gone" \/ (backoff /\ outcome = "error") THEN task' = "top"
       ELSE IF backoff THEN task' = "query"
       ELSE task' \in {"wait"} \union (IF segments = <<>> THEN {"swap"} ELSE {})
    /\ UNCHANGED <<queueVars, batch, running, swapVars, external, ran>>

\* wait() ends by itself or because something was put.
WaitEnds ==
    /\ task = "wait" /\ task' = "top"
    /\ UNCHANGED <<queueVars, batch, running, backoff, swapVars, external, ran>>

-----------------------------------------------------------------------------
(* _poll_unselected_slot() on a radio with one receiver.                   *)

\* An error shows whether the radio is there.
Notices(ok) == backoff' \in (IF ok THEN {backoff} ELSE {backoff, TRUE})

\* The swap is sent, or fails; in both cases it is undone at the end.
Swap(sent) ==
    /\ task = "swap"
    /\ swapped' = (swapped # sent) /\ swapLost' = (swapLost \/ ~sent)
    /\ override' = sent
    /\ task' = IF sent THEN "slot" ELSE "swap back"
    /\ Notices(sent)
    /\ UNCHANGED <<queueVars, batch, running, external, ran, cutShort>>

\* Mutant: an error of the query leaves the swap as it is.
AfterError == "wait"

AfterQuery == "swap back"

\* The other slot is queried, well or not.
SlotQueried(ok) ==
    /\ task = "slot"
    /\ task' = IF ok THEN "swap back" ELSE AfterQuery
    /\ Notices(ok)
    /\ UNCHANGED <<queueVars, batch, running, swapVars, external, ran>>

\* The swap back, whose errors are only logged; replies that are still under way
\* have a gap to arrive in before the override goes.
SwapBack(sent) ==
    /\ task = "swap back"
    /\ swapped' = (swapped # sent) /\ swapLost' = (swapLost \/ ~sent)
    /\ override' = FALSE /\ task' = "wait"
    /\ UNCHANGED <<queueVars, batch, running, backoff, external, ran, cutShort>>

-----------------------------------------------------------------------------
(* Its surroundings.                                                       *)

\* stop(): the task is cancelled at its await.  What was drained is lost.  A swap
\* is undone, although either of the two may not be sent; a cancellation of the
\* swap back skips what follows it, and the override stays.
Stop ==
    /\ task # "ended" /\ task' = "ended"
    /\ running' = None /\ batch' = <<>>
    /\ IF task \in {"swap", "slot", "swap back"}
       THEN \E unpaired \in BOOLEAN :
              /\ swapped' = (swapped # ((task = "swap") = unpaired))
              /\ swapLost' = (swapLost \/ unpaired)
              /\ override' = (override /\ task = "swap back")
              /\ cutShort' = (cutShort \/ task = "swap back")
       ELSE UNCHANGED swapVars
    /\ UNCHANGED <<queueVars, backoff, external, ran>>

SessionChanges ==
    /\ external' = ~external
    /\ UNCHANGED <<queueVars, batch, running, task, backoff, swapVars, ran>>

TaskStep ==
    \/ TopOfCycle \/ SkipEntry \/ Execute \/ GapEnds \/ QueryBegins \/ WaitEnds
    \/ \E outcome \in {"ok", "gone", "error"} : ExecuteEnds(outcome) \/ QueryEnds(outcome)
    \/ \E ok \in BOOLEAN : Swap(ok) \/ SlotQueried(ok) \/ SwapBack(ok)

PollerNext ==
    \/ \E type \in Types \union {"ptt"} : Put(type)
    \/ PutOrdered \/ StepTimesOut
    \/ TaskStep
    \/ Stop \/ SessionChanges

\* The task runs whenever it is ready.
TaskFairness == WF_pollerAll(TaskStep)

PollerSpec == PollerInit /\ [][PollerNext]_pollerAll /\ TaskFairness

-----------------------------------------------------------------------------
(* Properties.                                                             *)

PollerTypeOK ==
    /\ Len(future) = puts
    /\ \A n \in DOMAIN future : future[n] \in {"none", "pending", "cancelled", "done"}
    /\ (running # None) <=> (task = "execute")
    /\ task \in {"top", "next", "execute", "gap", "query", "wait", "swap", "slot", "swap back", "ended"}
    /\ {backoff, swapped, override, external, swapLost, cutShort} \subseteq BOOLEAN

Queued == (UNION {ToSet(Entries(segments[i])) : i \in DOMAIN segments}) \union ToSet(batch)

\* The last command of each type is the one that reaches the radio last, whatever
\* was put, in which batch and in between: coalescing loses only what a later
\* command of the type replaces.
LastWriteWins ==
    \A t \in Types :
        task # "ended" /\ (\A e \in Queued : e.type # t) => ran[t] = newest[t]

\* The order of e and f is kept.
Ordinal(e, f) == (e.type = "step" /\ ~Skips(e)) \/ f.type = "step" \/ {e.type, f.type} = {"ptt"}

\* A step runs after everything that was put before it and before everything
\* that is put after it, and PTT commands run in the order they were put, one by
\* one.
LaneIsExact ==
    [][running' # running /\ running' # None =>
        \A e \in Queued \ {running'} :
            Ordinal(e, running') => running'.n < e.n]_pollerAll

\* The radio is in the other slot only between the two swaps, and replies go to
\* the other slot only then, even when a query fails or stop() comes in between.
\* Two cases are excepted, and named: a swap that was not sent, after which the
\* radio may be in the wrong slot, and a stop() during the swap back, whose
\* cancellation skips the line that takes the override away.
SlotRestored ==
    /\ swapped /\ ~swapLost => task \in {"slot", "swap back"}
    /\ override /\ ~cutShort => task \in {"slot", "swap back"}

\* An external session that lasts is alone on the wire before long.
ExternalGetsSilence == <>[]external => <>[](task \in {"top", "ended"})
=============================================================================
