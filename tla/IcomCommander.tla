---------------------------- MODULE IcomCommander ----------------------------
(***************************************************************************)
(* The serialized CI-V command executor, commands/commander.py.            *)
(*                                                                         *)
(* Callers of send() put an item with a future into a priority queue; one  *)
(* worker task takes the items in the order (priority, submission), paces  *)
(* them, and runs each in an inner task; a caller that times out or is     *)
(* cancelled cancels the future it awaits, and a cancelled future cancels  *)
(* the inner task through a done callback.  With dedupe a call awaits the  *)
(* future of a pending call with the same key.  stop() fails what is       *)
(* queued, cancels the worker and joins it.                                *)
(*                                                                         *)
(* One action is the code one task runs between two awaits.  A task that   *)
(* is cancelled sees CancelledError at its next resumption; asyncio        *)
(* forwards the cancellation to the awaitable the task is suspended on     *)
(* when that one is still cancellable, and otherwise remembers it          *)
(* (mustCancel).  wait_for() is that of Python 3.12 and later, which never *)
(* swallows a cancellation that races with a result.  A request is one     *)
(* call of send(), made at most once.                                      *)
(***************************************************************************)
EXTENDS Naturals, Sequences, FiniteSets

CONSTANTS
    Requests,     \* the calls of send()
    NoReq,        \* no request
    Keys,         \* the dedupe keys in use
    NoKey,        \* key=None
    prio,         \* the arguments of each call: its priority, smaller is more urgent,
    key,          \* its key
    dedupe        \* and whether it may share a pending command

ASSUME RequestsAssumption == NoReq \notin Requests
ASSUME KeysAssumption     == NoKey \notin Keys
ASSUME ArgsAssumption     == /\ prio \in [Requests -> Nat]
                             /\ key \in [Requests -> Keys \cup {NoKey}]
                             /\ dedupe \in [Requests -> BOOLEAN]

VARIABLES
    running,      \* _queue and _worker are not None
    queue,        \* the requests in the priority queue
    nextSeq,      \* _seq
    seq,          \* _QueueItem.seq of each request
    fut,          \* _QueueItem.future
    pendingByKey, \* _pending_by_key
    awaits,       \* the request whose future a call awaits
    call,         \* the progress of a call of send()
    worker,       \* where the worker task is suspended
    cur,          \* the item the worker is processing
    exec,         \* the inner task that runs _execute
    mustCancel,   \* a cancellation the worker sees when it resumes
    stopper,      \* the progress of stop()
    wire,         \* history: the requests dispatched to _execute, in order
    late          \* history: the requests submitted while stop() was joining

callVars   == <<awaits, call>>
itemVars   == <<nextSeq, seq>>
workerVars == <<worker, cur, exec, mustCancel>>
vars == <<running, queue, itemVars, fut, pendingByKey, callVars, workerVars,
          stopper, wire, late>>

FutStates  == {"none", "pending", "ok", "error", "cancelled"}
Waiting    == {"waiting", "timing out", "cancelling"}
Ended      == {"refused", "result", "error", "timeout", "cancelled"}

TypeOK ==
    /\ running \in BOOLEAN
    /\ queue \subseteq Requests
    /\ nextSeq \in Nat
    /\ seq \in [Requests -> Nat]
    /\ fut \in [Requests -> FutStates]
    /\ pendingByKey \in [Keys -> Requests \cup {NoReq}]
    /\ awaits \in [Requests -> Requests \cup {NoReq}]
    /\ call \in [Requests -> {"idle"} \cup Waiting \cup Ended]
    /\ worker \in {"none", "get", "pace", "exec", "done"}
    /\ cur \in Requests \cup {NoReq}
    /\ exec \in {"none", "running", "cancelling", "ok", "error", "cancelled"}
    /\ mustCancel \in BOOLEAN
    /\ stopper \in {"idle", "joining"}
    /\ wire \in Seq(Requests)
    /\ late \subseteq Requests

Init ==
    /\ running = FALSE
    /\ queue = {}
    /\ nextSeq = 0
    /\ seq = [r \in Requests |-> 0]
    /\ fut = [r \in Requests |-> "none"]
    /\ pendingByKey = [k \in Keys |-> NoReq]
    /\ awaits = [r \in Requests |-> NoReq]
    /\ call = [r \in Requests |-> "idle"]
    /\ worker = "none"
    /\ cur = NoReq
    /\ exec = "none"
    /\ mustCancel = FALSE
    /\ stopper = "idle"
    /\ wire = << >>
    /\ late = {}

-----------------------------------------------------------------------------
(* Helpers *)

\* Mutant: the heap compares priorities only, ties in any order.
BeforeByPriority(q, r) == prio[q] <= prio[r]

\* The queue's order: by priority, then by submission.
Before(q, r) ==
    \/ prio[q] < prio[r]
    \/ prio[q] = prio[r] /\ seq[q] < seq[r]

\* Mutants: the key is never released; it is released to the wrong null.
ReleaseNoKey(r) == pendingByKey
ReleaseToNoKey(r) ==
    [k \in Keys |-> IF k = key[r] THEN NoKey ELSE pendingByKey[k]]

\* "finally": the key of item r is released if it still names r's future.
ReleaseKey(r) ==
    [k \in Keys |-> IF k = key[r] /\ pendingByKey[k] = r
                    THEN NoReq ELSE pendingByKey[k]]

\* The pending request that the call r joins instead of queueing its own.
Joinable(r) ==
    {q \in Requests : /\ dedupe[r] /\ key[r] \in Keys
                      /\ pendingByKey[key[r]] = q
                      /\ fut[q] = "pending"}

\* Mutant: an exception of _execute is logged and forgotten.
SettleResults(r, result) ==
    [fut EXCEPT ![r] = IF @ = "pending" /\ result # "error" THEN result ELSE @]

\* A future keeps its first result.
Settle(r, result) ==
    [fut EXCEPT ![r] = IF @ = "pending" THEN result ELSE @]

\* Mutant: abandoned items are executed all the same.
NeverAbandoned(r) == FALSE

\* "item.future.done()" of an item the worker has not dispatched yet.
Abandoned(r) == fut[r] # "pending"

-----------------------------------------------------------------------------
(* start() and send() *)

Start ==
    /\ worker \in {"none", "done"}
    /\ stopper = "idle"
    /\ running' = TRUE
    /\ queue' = {}
    /\ worker' = "get"
    /\ UNCHANGED <<itemVars, fut, pendingByKey, callVars, cur, exec,
                   mustCancel, stopper, wire, late>>

SendRefused(r) ==
    /\ call[r] = "idle"
    /\ ~running
    /\ call' = [call EXCEPT ![r] = "refused"]
    /\ UNCHANGED <<running, queue, itemVars, fut, pendingByKey, awaits,
                   workerVars, stopper, wire, late>>

SendJoin(r) ==
    /\ call[r] = "idle"
    /\ running
    /\ \E q \in Joinable(r) : awaits' = [awaits EXCEPT ![r] = q]
    /\ call' = [call EXCEPT ![r] = "waiting"]
    /\ UNCHANGED <<running, queue, itemVars, fut, pendingByKey, workerVars,
                   stopper, wire, late>>

SendQueue(r) ==
    /\ call[r] = "idle"
    /\ running
    /\ Joinable(r) = {}
    /\ nextSeq' = nextSeq + 1
    /\ seq' = [seq EXCEPT ![r] = nextSeq + 1]
    /\ fut' = [fut EXCEPT ![r] = "pending"]
    /\ pendingByKey' = [k \in Keys |-> IF k = key[r] THEN r ELSE pendingByKey[k]]
    /\ queue' = queue \cup {r}
    /\ awaits' = [awaits EXCEPT ![r] = r]
    /\ call' = [call EXCEPT ![r] = "waiting"]
    /\ late' = IF stopper = "joining" THEN late \cup {r} ELSE late
    /\ UNCHANGED <<running, workerVars, stopper, wire>>

\* wait_for() expires, or the calling task is cancelled: the awaited future
\* is cancelled, whoever else awaits it.
GiveUp(r, how) ==
    /\ call[r] = "waiting"
    /\ how = "timing out" => fut[awaits[r]] = "pending"
    /\ call' = [call EXCEPT ![r] = how]
    /\ fut' = Settle(awaits[r], "cancelled")
    /\ UNCHANGED <<running, queue, itemVars, pendingByKey, awaits, workerVars,
                   stopper, wire, late>>

\* Mutant: a caller that is being cancelled takes a result that is ready.
OutcomeOfFuture(r) ==
    CASE fut[awaits[r]] = "ok"        -> "result"
      [] fut[awaits[r]] = "cancelled" -> "cancelled"
      [] OTHER                        -> "error"

\* What "await fut" or "wait_for(fut, timeout)" gives the call when it resumes.
OutcomeOf(r) ==
    IF call[r] = "timing out" THEN "timeout"
    ELSE IF call[r] = "cancelling" \/ fut[awaits[r]] = "cancelled" THEN "cancelled"
    ELSE IF fut[awaits[r]] = "ok" THEN "result"
    ELSE "error"

\* send() resumes after its await and returns or raises.  Only CancelledError
\* in the call that owns the future releases the key here.
Resume(r) ==
    /\ call[r] \in Waiting
    /\ fut[awaits[r]] # "pending"
    /\ call' = [call EXCEPT ![r] = OutcomeOf(r)]
    /\ pendingByKey' = IF OutcomeOf(r) = "cancelled" /\ awaits[r] = r
                       THEN ReleaseKey(r) ELSE pendingByKey
    /\ UNCHANGED <<running, queue, itemVars, fut, awaits, workerVars, stopper,
                   wire, late>>

-----------------------------------------------------------------------------
(* The worker task, _loop() *)

\* The end of one turn of the loop: the "finally" block, then the next get().
TurnEnds(next) ==
    /\ pendingByKey' = ReleaseKey(cur)
    /\ cur' = NoReq
    /\ exec' = "none"
    /\ worker' = next

WorkerGet ==
    /\ worker = "get"
    /\ ~mustCancel
    /\ \E r \in queue :
        /\ \A q \in queue \ {r} : Before(r, q)
        /\ queue' = queue \ {r}
        /\ cur' = r
    /\ worker' = "pace"
    /\ UNCHANGED <<running, itemVars, fut, pendingByKey, callVars, exec,
                   mustCancel, stopper, wire, late>>

\* An abandoned item is skipped, before or after the pacing sleep.
WorkerSkip ==
    /\ worker = "pace"
    /\ ~mustCancel
    /\ Abandoned(cur)
    /\ TurnEnds("get")
    /\ UNCHANGED <<running, queue, itemVars, fut, callVars, mustCancel,
                   stopper, wire, late>>

WorkerDispatch ==
    /\ worker = "pace"
    /\ ~mustCancel
    /\ ~Abandoned(cur)
    /\ exec' = "running"
    /\ worker' = "exec"
    /\ wire' = Append(wire, cur)
    /\ UNCHANGED <<running, queue, itemVars, fut, pendingByKey, callVars, cur,
                   mustCancel, stopper, late>>

\* The inner task ends by itself.
ExecFinish(result) ==
    /\ exec = "running"
    /\ exec' = result
    /\ UNCHANGED <<running, queue, itemVars, fut, pendingByKey, callVars,
                   worker, cur, mustCancel, stopper, wire, late>>

\* Mutant: the future has no done callback.
NoCallback == FALSE /\ UNCHANGED vars

\* _propagate_cancel: the done callback of the item's future.
PropagateCancel ==
    /\ exec = "running"
    /\ fut[cur] = "cancelled"
    /\ exec' = "cancelling"
    /\ UNCHANGED <<running, queue, itemVars, fut, pendingByKey, callVars,
                   worker, cur, mustCancel, stopper, wire, late>>

ExecCancelled ==
    /\ exec = "cancelling"
    /\ exec' = "cancelled"
    /\ UNCHANGED <<running, queue, itemVars, fut, pendingByKey, callVars,
                   worker, cur, mustCancel, stopper, wire, late>>

\* "resp = await execute_task" returns or raises an Exception.
WorkerFinish ==
    /\ worker = "exec"
    /\ ~mustCancel
    /\ exec \in {"ok", "error"}
    /\ fut' = Settle(cur, exec)
    /\ TurnEnds("get")
    /\ UNCHANGED <<running, queue, itemVars, callVars, mustCancel, stopper,
                   wire, late>>

\* The worker sees CancelledError at its current await.
Cancelled ==
    \/ worker = "exec" /\ exec = "cancelled"
    \/ worker = "exec" /\ exec \in {"ok", "error"} /\ mustCancel
    \/ worker = "pace" /\ mustCancel

\* CancelledError of a command whose future is cancelled is taken for the
\* caller's cancellation: the loop continues.
WorkerContinue ==
    /\ Cancelled
    /\ worker = "exec"
    /\ fut[cur] = "cancelled"
    /\ mustCancel' = FALSE
    /\ TurnEnds("get")
    /\ UNCHANGED <<running, queue, itemVars, fut, callVars, stopper, wire, late>>

\* Any other CancelledError fails the item and ends the worker.
WorkerCancelled ==
    /\ Cancelled
    /\ ~(worker = "exec" /\ fut[cur] = "cancelled")
    /\ fut' = Settle(cur, "error")
    /\ mustCancel' = FALSE
    /\ TurnEnds("done")
    /\ UNCHANGED <<running, queue, itemVars, callVars, stopper, wire, late>>

WorkerCancelledIdle ==
    /\ worker = "get"
    /\ mustCancel
    /\ mustCancel' = FALSE
    /\ worker' = "done"
    /\ UNCHANGED <<running, queue, itemVars, fut, pendingByKey, callVars, cur,
                   exec, stopper, wire, late>>

-----------------------------------------------------------------------------
(* stop() *)

\* Mutant: the queue is emptied without failing the futures.
FailNothing == fut

FailQueued ==
    [r \in Requests |-> IF r \in queue /\ fut[r] = "pending" THEN "error" ELSE fut[r]]

\* Drains the queue, fails what it held, cancels the worker.  The cancellation
\* goes to the inner task while that one can still be cancelled.
StopDrain ==
    /\ running
    /\ stopper = "idle"
    /\ fut' = FailQueued
    /\ pendingByKey' = [k \in Keys |-> IF \E r \in queue : key[r] = k
                                       THEN NoReq ELSE pendingByKey[k]]
    /\ queue' = {}
    /\ stopper' = "joining"
    /\ IF worker = "exec" /\ exec \in {"running", "cancelling"}
         THEN exec' = "cancelling" /\ UNCHANGED mustCancel
         ELSE mustCancel' = TRUE /\ UNCHANGED exec
    /\ UNCHANGED <<running, itemVars, callVars, worker, cur, wire, late>>

\* "await self._worker" returns: the worker, its queue and the keys are gone.
StopJoined ==
    /\ stopper = "joining"
    /\ worker = "done"
    /\ stopper' = "idle"
    /\ running' = FALSE
    /\ queue' = {}
    /\ worker' = "none"
    /\ pendingByKey' = [k \in Keys |-> NoReq]
    /\ UNCHANGED <<itemVars, fut, callVars, cur, exec, mustCancel, wire, late>>

-----------------------------------------------------------------------------
Send(r) == SendRefused(r) \/ SendJoin(r) \/ SendQueue(r)

WorkerStep ==
    \/ WorkerGet \/ WorkerSkip \/ WorkerDispatch
    \/ WorkerFinish \/ WorkerContinue \/ WorkerCancelled \/ WorkerCancelledIdle

Next ==
    \/ Start \/ StopDrain \/ StopJoined
    \/ \E r \in Requests :
        \/ Send(r)
        \/ \E how \in {"timing out", "cancelling"} : GiveUp(r, how)
        \/ Resume(r)
    \/ WorkerStep
    \/ \E result \in {"ok", "error"} : ExecFinish(result)
    \/ PropagateCancel \/ ExecCancelled

Spec == Init /\ [][Next]_vars

(* The event loop runs every ready task: the worker, the callers that can  *)
(* resume, the callbacks and stop().  Nobody has to call, give up or stop, *)
(* and _execute itself may hang: its end is not a fairness assumption.     *)
Fairness ==
    /\ WF_vars(WorkerStep)
    /\ WF_vars(PropagateCancel)
    /\ WF_vars(ExecCancelled)
    /\ WF_vars(StopJoined)
    /\ \A r \in Requests : WF_vars(Resume(r))

FairSpec == Spec /\ Fairness

-----------------------------------------------------------------------------
(* Safety *)

\* No future is forgotten: a pending future belongs to a request that is
\* queued or in the worker's hands, so somebody will settle it and a dedupe
\* caller that joins it will not wait for ever.  The exception is a request
\* that entered the queue while stop() was already joining the worker.
NoOrphan ==
    \A r \in Requests :
        fut[r] = "pending" => r \in queue \/ r = cur \/ r \in late

\* Commands of one priority level reach the radio in the order in which they
\* were submitted, each at most once, across give-ups, stops and restarts
\* (the docstring's "strict in-order execution within priority levels").
InOrder ==
    \A i, j \in 1..Len(wire) :
        i < j /\ prio[wire[i]] = prio[wire[j]] => seq[wire[i]] < seq[wire[j]]

\* The key table never outlives the turn of the item it names: what a key
\* names carries that key and is still queued or in the worker's hands,
\* whichever of the caller, the worker and stop() released it first.
KeyTable ==
    \A k \in Keys :
        LET r == pendingByKey[k] IN
        r # NoReq => key[r] = k /\ (r \in queue \/ r = cur)

\* A caller that has given up is never answered later, and an answer is never
\* taken back: the outcome of a call is final.
Final == [][\A r \in Requests :
                /\ call[r] \in Ended => call'[r] = call[r]
                /\ call[r] = "timing out" => call'[r] \in {"timing out", "timeout"}
                /\ call[r] = "cancelling" => call'[r] \in {"cancelling", "cancelled"}]_vars

(* Liveness *)

\* A caller that gives up frees the worker even when _execute never returns
\* (the regression of issue #1188): the turn of an abandoned command ends.
AbandonedTurnEnds ==
    (worker = "exec" /\ fut[cur] = "cancelled") ~> (worker # "exec")

\* If no execution hangs for ever, every call of send() ends, however calls,
\* give-ups, stops and restarts interleave, unless it was submitted, or
\* joined a command submitted, while stop() was joining the worker.
EveryCallEnds ==
    []<>(exec # "running") =>
        \A r \in Requests :
            call[r] \in Waiting ~> (call[r] \in Ended \/ awaits[r] \in late)

\* stop() returns ("on worker stop, the outer except below handles it").
StopReturns == stopper = "joining" ~> stopper = "idle"

\* A call ends in CancelledError only if its own caller went away ("Caller
\* went away ... Cancel queued/inflight future").
OnlyOwnCancel ==
    [][\A r \in Requests :
          call'[r] = "cancelled" /\ call[r] # "cancelled" => call[r] = "cancelling"]_vars

-----------------------------------------------------------------------------
(* Refinement *)

StatusOf(c) ==
    CASE c = "idle"    -> "idle"
      [] c = "waiting" -> "pending"
      [] c = "refused" -> "refused"
      [] c = "result"  -> "result"
      [] c = "error"   -> "failed"
      [] c \in {"timing out", "cancelling", "timeout", "cancelled"} -> "gone"

Service == INSTANCE CommandService WITH
    status    <- [r \in Requests |-> StatusOf(call[r])],
    provider  <- awaits,
    performed <- {wire[i] : i \in 1..Len(wire)}

\* The commander implements the service its callers rely on.
ImplementsService == Service!Spec
=============================================================================
