------------------------- MODULE IcomCommander_proofs -------------------------
(***************************************************************************)
(* Proofs about IcomCommander, for any number of calls, keys and           *)
(* priorities and any interleaving of give-ups, stops and restarts.        *)
(*                                                                         *)
(* The properties are not inductive by themselves; the invariant that is,  *)
(* IInv, adds where the worker, the inner task, the queue and stop() can   *)
(* be relative to one another (Control), which calls have a future and in  *)
(* what state (Calls), and how submission numbers relate the queue, the    *)
(* current item and the wire (Order).                                      *)
(***************************************************************************)
EXTENDS IcomCommander, TLAPS

Wire == {wire[i] : i \in 1..Len(wire)}

\* The control state: an item is current between two gets, the inner task
\* lives while the worker awaits it, and only a stop in progress cancels the
\* worker or an inner task whose future is not cancelled.
Control ==
    /\ running <=> worker # "none"
    /\ cur # NoReq <=> worker \in {"pace", "exec"}
    /\ exec # "none" <=> worker = "exec"
    /\ worker = "none" => queue = {} /\ stopper = "idle"
    /\ worker = "done" => ~mustCancel
    /\ stopper = "joining" => queue \subseteq late
    /\ stopper = "idle" =>
          /\ worker # "done"
          /\ ~mustCancel
          /\ exec \in {"cancelling", "cancelled"} => fut[cur] = "cancelled"

\* A call that has not begun has left no trace; a pending future is awaited by
\* the call that created it; only what was on the wire has a result.
CallOK(r) ==
    /\ call[r] = "idle" =>
          /\ r \notin queue \cup {cur} \cup Wire
          /\ fut[r] = "none"
    /\ call[r] \in Waiting => awaits[r] \in Requests
    /\ fut[r] = "pending" => call[r] = "waiting" /\ awaits[r] = r
    /\ fut[r] = "ok" => r \in Wire

Calls == \A r \in Requests : CallOK(r)

\* Submission numbers: what waits was submitted after everything of the same
\* priority on the wire, and the current item before everything that waits.
Order ==
    /\ \A r \in Requests : seq[r] <= nextSeq
    /\ worker = "exec" => cur \in Wire
    /\ cur \notin queue
    /\ \A q \in queue :
          /\ q \notin Wire
          /\ \A w \in Wire : prio[w] = prio[q] => seq[w] < seq[q]
          /\ cur # NoReq /\ prio[cur] = prio[q] => seq[cur] < seq[q]
    /\ worker = "pace" =>
          \A w \in Wire : prio[w] = prio[cur] => seq[w] < seq[cur]

IInv == TypeOK /\ Control /\ Calls /\ Order /\ NoOrphan /\ InOrder /\ KeyTable

\* The set of dispatched requests changes only with the wire.
LEMMA WireSame ==
    ASSUME UNCHANGED wire
    PROVE  Wire' = Wire
BY DEF Wire

\* A dispatch adds one request to the set of the dispatched.
LEMMA WireGrows ==
    ASSUME wire \in Seq(Requests), NEW r \in Requests, wire' = Append(wire, r)
    PROVE  Wire' = Wire \cup {r}
<1>1. Len(wire') = Len(wire) + 1 /\ Len(wire) \in Nat
  OBVIOUS
<1>2. \A i \in 1..Len(wire) : wire'[i] = wire[i]
  OBVIOUS
<1>3. wire'[Len(wire) + 1] = r
  OBVIOUS
<1>4. 1..Len(wire') = 1..Len(wire) \cup {Len(wire) + 1}
  BY <1>1
<1>. QED
  BY <1>1, <1>2, <1>3, <1>4 DEF Wire

\* A call that resumes has one of the outcomes of send().
LEMMA OutcomeEnded ==
    ASSUME NEW r \in Requests
    PROVE  OutcomeOf(r) \in {"result", "error", "timeout", "cancelled"}
BY DEF OutcomeOf

\* Every step of the commander keeps the types.
LEMMA TypeStep ==
    ASSUME TypeOK, Control, Next
    PROVE  TypeOK'
<1>1. CASE Start
  BY <1>1 DEF Start, TypeOK, callVars, itemVars
<1>2. CASE StopDrain
  BY <1>2 DEF StopDrain, FailQueued, TypeOK, FutStates, callVars, itemVars
<1>3. CASE StopJoined
  BY <1>3 DEF StopJoined, TypeOK, callVars, itemVars
<1>4. ASSUME NEW r \in Requests, SendRefused(r)
       PROVE  TypeOK'
  BY <1>4 DEF SendRefused, TypeOK, Ended, itemVars, workerVars
<1>5. ASSUME NEW r \in Requests, SendJoin(r)
       PROVE  TypeOK'
  <2>1. PICK q \in Requests : awaits' = [awaits EXCEPT ![r] = q]
    BY <1>5 DEF SendJoin, Joinable
  <2>. QED
    BY <1>5, <2>1 DEF SendJoin, TypeOK, Waiting, itemVars, workerVars
<1>6. ASSUME NEW r \in Requests, SendQueue(r)
       PROVE  TypeOK'
  <2>1. /\ nextSeq' \in Nat
        /\ seq' \in [Requests -> Nat]
    BY <1>6 DEF SendQueue, TypeOK
  <2>2. /\ fut' \in [Requests -> FutStates]
        /\ pendingByKey' \in [Keys -> Requests \cup {NoReq}]
        /\ awaits' \in [Requests -> Requests \cup {NoReq}]
    BY <1>6 DEF SendQueue, TypeOK, FutStates
  <2>3. /\ call' \in [Requests -> {"idle"} \cup Waiting \cup Ended]
        /\ queue' \subseteq Requests
        /\ late' \subseteq Requests
    BY <1>6 DEF SendQueue, TypeOK, Waiting
  <2>. QED
    BY <1>6, <2>1, <2>2, <2>3 DEF SendQueue, TypeOK, workerVars
<1>7. ASSUME NEW r \in Requests, NEW how \in {"timing out", "cancelling"}, GiveUp(r, how)
       PROVE  TypeOK'
  <2>1. fut' \in [Requests -> FutStates]
    BY <1>7 DEF GiveUp, Settle, TypeOK, FutStates
  <2>2. call' \in [Requests -> {"idle"} \cup Waiting \cup Ended]
    BY <1>7 DEF GiveUp, TypeOK, Waiting
  <2>. QED
    BY <1>7, <2>1, <2>2 DEF GiveUp, TypeOK, itemVars, workerVars
<1>8. ASSUME NEW r \in Requests, Resume(r)
       PROVE  TypeOK'
  <2>1. call' \in [Requests -> {"idle"} \cup Waiting \cup Ended]
    BY <1>8, OutcomeEnded DEF Resume, TypeOK, Ended
  <2>2. pendingByKey' \in [Keys -> Requests \cup {NoReq}]
    BY <1>8 DEF Resume, ReleaseKey, TypeOK
  <2>. QED
    BY <1>8, <2>1, <2>2 DEF Resume, TypeOK, itemVars, workerVars
<1>9. CASE WorkerGet
  BY <1>9 DEF WorkerGet, TypeOK, callVars, itemVars
<1>10. CASE WorkerSkip
  BY <1>10 DEF WorkerSkip, TurnEnds, ReleaseKey, TypeOK, callVars, itemVars
<1>11. CASE WorkerDispatch
  <2>1. cur \in Requests
    BY <1>11 DEF WorkerDispatch, Control, TypeOK
  <2>2. wire' \in Seq(Requests)
    BY <1>11, <2>1 DEF WorkerDispatch, TypeOK
  <2>. QED
    BY <1>11, <2>2 DEF WorkerDispatch, TypeOK, callVars, itemVars
<1>12. CASE WorkerFinish
  BY <1>12
     DEF WorkerFinish, Settle, TurnEnds, ReleaseKey, TypeOK, FutStates, callVars,
         itemVars
<1>13. CASE WorkerContinue
  BY <1>13 DEF WorkerContinue, TurnEnds, ReleaseKey, TypeOK, callVars, itemVars
<1>14. CASE WorkerCancelled
  BY <1>14
     DEF WorkerCancelled, Settle, TurnEnds, ReleaseKey, TypeOK, FutStates, callVars,
         itemVars
<1>15. CASE WorkerCancelledIdle
  BY <1>15 DEF WorkerCancelledIdle, TypeOK, callVars, itemVars
<1>16. ASSUME NEW result \in {"ok", "error"}, ExecFinish(result)
       PROVE  TypeOK'
  BY <1>16 DEF ExecFinish, TypeOK, callVars, itemVars
<1>17. CASE PropagateCancel
  BY <1>17 DEF PropagateCancel, TypeOK, callVars, itemVars
<1>18. CASE ExecCancelled
  BY <1>18 DEF ExecCancelled, TypeOK, callVars, itemVars
<1>. QED
  BY <1>1, <1>2, <1>3, <1>4, <1>5, <1>6, <1>7, <1>8, <1>9, <1>10, <1>11, <1>12,
     <1>13, <1>14, <1>15, <1>16, <1>17, <1>18
     DEF Next, Send, WorkerStep

\* Every step keeps the worker, the inner task and stop() consistent.
LEMMA ControlStep ==
    ASSUME TypeOK, Control, Calls, NoOrphan, Next
    PROVE  Control'
<1>1. CASE Start
  BY <1>1 DEF Start, Control
<1>2. CASE StopDrain
  BY <1>2 DEF StopDrain, Control
<1>3. CASE StopJoined
  BY <1>3 DEF StopJoined, Control
<1>4. ASSUME NEW r \in Requests, SendRefused(r)
       PROVE  Control'
  BY <1>4 DEF SendRefused, Control, workerVars
<1>5. ASSUME NEW r \in Requests, SendJoin(r)
       PROVE  Control'
  BY <1>5 DEF SendJoin, Control, workerVars
<1>6. ASSUME NEW r \in Requests, SendQueue(r)
       PROVE  Control'
  BY <1>6 DEF SendQueue, Control, Calls, CallOK, workerVars
<1>7. ASSUME NEW r \in Requests, NEW how \in {"timing out", "cancelling"}, GiveUp(r, how)
       PROVE  Control'
  BY <1>7 DEF GiveUp, Settle, TypeOK, Control, workerVars
<1>8. ASSUME NEW r \in Requests, Resume(r)
       PROVE  Control'
  BY <1>8 DEF Resume, Control, workerVars
<1>9. CASE WorkerGet
  <2>1. PICK r \in queue : queue' = queue \ {r} /\ cur' = r
    BY <1>9 DEF WorkerGet
  <2>2. cur' # NoReq
    BY <2>1, RequestsAssumption DEF TypeOK
  <2>. QED
    BY <1>9, <2>1, <2>2 DEF WorkerGet, Control
<1>10. CASE WorkerSkip
  BY <1>10 DEF WorkerSkip, TurnEnds, Control
<1>11. CASE WorkerDispatch
  BY <1>11 DEF WorkerDispatch, Control
<1>12. CASE WorkerFinish
  BY <1>12 DEF WorkerFinish, TurnEnds, Control
<1>13. CASE WorkerContinue
  BY <1>13 DEF WorkerContinue, TurnEnds, Control
<1>14. CASE WorkerCancelled
  BY <1>14 DEF WorkerCancelled, TurnEnds, Cancelled, Control
<1>15. CASE WorkerCancelledIdle
  BY <1>15 DEF WorkerCancelledIdle, Control
<1>16. ASSUME NEW result \in {"ok", "error"}, ExecFinish(result)
       PROVE  Control'
  BY <1>16 DEF ExecFinish, Control
<1>17. CASE PropagateCancel
  BY <1>17 DEF PropagateCancel, Control
<1>18. CASE ExecCancelled
  BY <1>18 DEF ExecCancelled, Control
<1>. QED
  BY <1>1, <1>2, <1>3, <1>4, <1>5, <1>6, <1>7, <1>8, <1>9, <1>10, <1>11, <1>12,
     <1>13, <1>14, <1>15, <1>16, <1>17, <1>18
     DEF Next, Send, WorkerStep

\* Every step keeps the calls and their futures consistent.
LEMMA CallsStep ==
    ASSUME TypeOK, Control, Calls, Order, Next
    PROVE  Calls'
<1>1. CASE Start
  BY <1>1, WireSame DEF Start, Calls, CallOK, callVars
<1>2. CASE StopDrain
  BY <1>2, WireSame DEF StopDrain, FailQueued, Calls, CallOK, callVars
<1>3. CASE StopJoined
  BY <1>3, WireSame DEF StopJoined, Calls, CallOK, callVars
<1>4. ASSUME NEW r \in Requests, SendRefused(r)
       PROVE  Calls'
  <2>. SUFFICES ASSUME NEW x \in Requests
                PROVE  CallOK(x)'
    BY DEF Calls
  <2>1. CallOK(x) /\ Wire' = Wire
    BY <1>4, WireSame DEF SendRefused, Calls
  <2>2. CASE x = r
    BY <1>4, <2>1, <2>2 DEF SendRefused, TypeOK, CallOK, Waiting
  <2>3. CASE x # r
    BY <1>4, <2>1, <2>3 DEF SendRefused, CallOK, workerVars
  <2>. QED
    BY <2>2, <2>3
<1>5. ASSUME NEW r \in Requests, SendJoin(r)
       PROVE  Calls'
  BY <1>5, WireSame DEF SendJoin, Joinable, TypeOK, Calls, CallOK, workerVars
<1>6. ASSUME NEW r \in Requests, SendQueue(r)
       PROVE  Calls'
  BY <1>6, WireSame DEF SendQueue, TypeOK, Calls, CallOK, workerVars
<1>7. ASSUME NEW r \in Requests, NEW how \in {"timing out", "cancelling"}, GiveUp(r, how)
       PROVE  Calls'
  <2>. SUFFICES ASSUME NEW x \in Requests
                PROVE  CallOK(x)'
    BY DEF Calls
  <2>1. CallOK(x) /\ CallOK(r) /\ Wire' = Wire
    BY <1>7, WireSame DEF GiveUp, Calls
  <2>2. fut'[x] = IF x = awaits[r] /\ fut[x] = "pending" THEN "cancelled" ELSE fut[x]
    BY <1>7 DEF GiveUp, Settle, TypeOK
  <2>3. CASE x = r
    BY <1>7, <2>1, <2>2, <2>3 DEF GiveUp, TypeOK, CallOK, Waiting
  <2>4. CASE x # r
    BY <1>7, <2>1, <2>2, <2>4 DEF GiveUp, TypeOK, CallOK, workerVars
  <2>. QED
    BY <2>3, <2>4
<1>8. ASSUME NEW r \in Requests, Resume(r)
       PROVE  Calls'
  <2>1. call' = [call EXCEPT ![r] = OutcomeOf(r)] /\ OutcomeOf(r) \notin {"idle"} \cup Waiting
    BY <1>8, OutcomeEnded DEF Resume, Waiting
  <2>2. fut[r] # "pending"
    BY <1>8 DEF Resume, Calls, CallOK
  <2>. QED
    BY <1>8, <2>1, <2>2, WireSame DEF Resume, Calls, CallOK, workerVars
<1>9. CASE WorkerGet
  BY <1>9, WireSame DEF WorkerGet, Calls, CallOK, callVars
<1>10. CASE WorkerSkip
  BY <1>10, RequestsAssumption, WireSame
     DEF WorkerSkip, TurnEnds, Calls, CallOK, callVars
<1>11. CASE WorkerDispatch
  <2>1. cur \in Requests
    BY <1>11 DEF WorkerDispatch, Control, TypeOK
  <2>2. Wire' = Wire \cup {cur}
    BY <1>11, <2>1, WireGrows DEF WorkerDispatch, TypeOK
  <2>. QED
    BY <1>11, <2>1, <2>2 DEF WorkerDispatch, Calls, CallOK, callVars
<1>12. CASE WorkerFinish
  BY <1>12, WireSame, RequestsAssumption
     DEF WorkerFinish, Settle, TurnEnds, Calls, CallOK, Order, callVars
<1>13. CASE WorkerContinue
  BY <1>13, RequestsAssumption, WireSame
     DEF WorkerContinue, TurnEnds, Calls, CallOK, callVars
<1>14. CASE WorkerCancelled
  BY <1>14, RequestsAssumption, WireSame
     DEF WorkerCancelled, TurnEnds, Settle, Calls, CallOK, callVars
<1>15. CASE WorkerCancelledIdle
  BY <1>15, WireSame DEF WorkerCancelledIdle, Calls, CallOK, callVars
<1>16. ASSUME NEW result \in {"ok", "error"}, ExecFinish(result)
       PROVE  Calls'
  BY <1>16, WireSame DEF ExecFinish, Calls, CallOK, callVars
<1>17. CASE PropagateCancel
  BY <1>17, WireSame DEF PropagateCancel, Calls, CallOK, callVars
<1>18. CASE ExecCancelled
  BY <1>18, WireSame DEF ExecCancelled, Calls, CallOK, callVars
<1>. QED
  BY <1>1, <1>2, <1>3, <1>4, <1>5, <1>6, <1>7, <1>8, <1>9, <1>10, <1>11, <1>12,
     <1>13, <1>14, <1>15, <1>16, <1>17, <1>18
     DEF Next, Send, WorkerStep

\* Every step keeps the submission numbers of queue, worker and wire apart.
LEMMA OrderStep ==
    ASSUME TypeOK, Control, Calls, Order, Next
    PROVE  Order'
<1>1. CASE Start
  BY <1>1 DEF Start, Order, itemVars
<1>2. CASE StopDrain
  BY <1>2, WireSame DEF StopDrain, Order, itemVars
<1>3. CASE StopJoined
  BY <1>3 DEF StopJoined, Order, itemVars
<1>4. ASSUME NEW r \in Requests, SendRefused(r)
       PROVE  Order'
  BY <1>4, WireSame DEF SendRefused, Order, itemVars, workerVars
<1>5. ASSUME NEW r \in Requests, SendJoin(r)
       PROVE  Order'
  BY <1>5, WireSame DEF SendJoin, Order, itemVars, workerVars
<1>6. ASSUME NEW r \in Requests, SendQueue(r)
       PROVE  Order'
  <2>1. /\ r \notin queue \cup {cur} \cup Wire
        /\ Wire' = Wire /\ Wire \subseteq Requests
    BY <1>6 DEF SendQueue, Calls, CallOK, TypeOK, Wire
  <2>2. /\ nextSeq' = nextSeq + 1
        /\ seq' = [seq EXCEPT ![r] = nextSeq + 1]
        /\ queue' = queue \cup {r}
        /\ UNCHANGED <<worker, cur>>
    BY <1>6 DEF SendQueue, workerVars
  <2>3. \A x \in Requests : seq'[x] <= nextSeq'
    BY <2>2 DEF Order, TypeOK
  <2>4. \A x \in Requests \ {r} : seq'[x] = seq[x] /\ seq[x] < seq'[r]
    BY <2>2 DEF Order, TypeOK
  <2>5. cur # NoReq => cur \in Requests
    BY DEF TypeOK
  <2>6. ASSUME NEW q \in queue'
        PROVE  /\ q \notin Wire
               /\ \A w \in Wire : prio[w] = prio[q] => seq'[w] < seq'[q]
               /\ cur # NoReq /\ prio[cur] = prio[q] => seq'[cur] < seq'[q]
    <3>1. CASE q = r
      BY <2>1, <2>4, <2>5, <3>1
    <3>2. CASE q # r
      BY <2>1, <2>2, <2>4, <2>5, <3>2 DEF Order
    <3>. QED
      BY <3>1, <3>2
  <2>7. worker = "pace" => \A w \in Wire : prio[w] = prio[cur] => seq'[w] < seq'[cur]
    BY <2>1, <2>4, <2>5 DEF Order, Control
  <2>. QED
    BY <2>1, <2>2, <2>3, <2>6, <2>7 DEF Order
<1>7. ASSUME NEW r \in Requests, NEW how \in {"timing out", "cancelling"}, GiveUp(r, how)
       PROVE  Order'
  BY <1>7, WireSame DEF GiveUp, Order, itemVars, workerVars
<1>8. ASSUME NEW r \in Requests, Resume(r)
       PROVE  Order'
  BY <1>8, WireSame DEF Resume, Order, itemVars, workerVars
<1>9. CASE WorkerGet
  <2>1. PICK r \in queue : /\ \A q \in queue \ {r} : Before(r, q)
                             /\ queue' = queue \ {r}
                             /\ cur' = r
    BY <1>9 DEF WorkerGet
  <2>2. /\ r \in Requests /\ queue \subseteq Requests
        /\ \A q \in Requests : prio[q] \in Nat
    BY ArgsAssumption DEF TypeOK
  <2>3. \A q \in queue \ {r} : prio[r] = prio[q] => seq[r] < seq[q]
    BY <2>1, <2>2 DEF Before
  <2>. QED
    BY <1>9, <2>1, <2>3, WireSame DEF WorkerGet, Order, itemVars
<1>10. CASE WorkerSkip
  BY <1>10, RequestsAssumption, WireSame
     DEF WorkerSkip, TurnEnds, TypeOK, Order, itemVars
<1>11. CASE WorkerDispatch
  <2>1. cur \in Requests
    BY <1>11 DEF WorkerDispatch, Control, TypeOK
  <2>2. Wire' = Wire \cup {cur}
    BY <1>11, <2>1, WireGrows DEF WorkerDispatch, TypeOK
  <2>3. UNCHANGED <<queue, nextSeq, seq, cur>> /\ worker' = "exec" /\ worker = "pace"
    BY <1>11 DEF WorkerDispatch, itemVars
  <2>4. cur # NoReq
    BY <2>1, RequestsAssumption
  <2>. QED
    BY <2>2, <2>3, <2>4 DEF Order
<1>12. CASE WorkerFinish
  BY <1>12, RequestsAssumption, WireSame
     DEF WorkerFinish, TurnEnds, TypeOK, Order, itemVars
<1>13. CASE WorkerContinue
  BY <1>13, RequestsAssumption, WireSame
     DEF WorkerContinue, TurnEnds, TypeOK, Order, itemVars
<1>14. CASE WorkerCancelled
  BY <1>14, RequestsAssumption, WireSame
     DEF WorkerCancelled, TurnEnds, TypeOK, Order, itemVars
<1>15. CASE WorkerCancelledIdle
  BY <1>15, WireSame DEF WorkerCancelledIdle, Order, itemVars
<1>16. ASSUME NEW result \in {"ok", "error"}, ExecFinish(result)
       PROVE  Order'
  BY <1>16, WireSame DEF ExecFinish, Order, itemVars
<1>17. CASE PropagateCancel
  BY <1>17, WireSame DEF PropagateCancel, Order, itemVars
<1>18. CASE ExecCancelled
  BY <1>18, WireSame DEF ExecCancelled, Order, itemVars
<1>. QED
  BY <1>1, <1>2, <1>3, <1>4, <1>5, <1>6, <1>7, <1>8, <1>9, <1>10, <1>11, <1>12,
     <1>13, <1>14, <1>15, <1>16, <1>17, <1>18
     DEF Next, Send, WorkerStep

\* No step forgets a pending future.
LEMMA NoOrphanStep ==
    ASSUME TypeOK, Control, Calls, NoOrphan, Next
    PROVE  NoOrphan'
<1>1. CASE Start
  BY <1>1 DEF Start, Control, NoOrphan
<1>2. CASE StopDrain
  BY <1>2 DEF StopDrain, FailQueued, NoOrphan
<1>3. CASE StopJoined
  BY <1>3 DEF StopJoined, Control, NoOrphan
<1>4. ASSUME NEW r \in Requests, SendRefused(r)
       PROVE  NoOrphan'
  BY <1>4 DEF SendRefused, NoOrphan, workerVars
<1>5. ASSUME NEW r \in Requests, SendJoin(r)
       PROVE  NoOrphan'
  BY <1>5 DEF SendJoin, NoOrphan, workerVars
<1>6. ASSUME NEW r \in Requests, SendQueue(r)
       PROVE  NoOrphan'
  BY <1>6 DEF SendQueue, NoOrphan, workerVars
<1>7. ASSUME NEW r \in Requests, NEW how \in {"timing out", "cancelling"}, GiveUp(r, how)
       PROVE  NoOrphan'
  BY <1>7 DEF GiveUp, Settle, TypeOK, NoOrphan, workerVars
<1>8. ASSUME NEW r \in Requests, Resume(r)
       PROVE  NoOrphan'
  BY <1>8 DEF Resume, NoOrphan, workerVars
<1>9. CASE WorkerGet
  BY <1>9, RequestsAssumption DEF WorkerGet, Control, NoOrphan
<1>10. CASE WorkerSkip
  BY <1>10 DEF WorkerSkip, Abandoned, TurnEnds, NoOrphan
<1>11. CASE WorkerDispatch
  BY <1>11 DEF WorkerDispatch, NoOrphan
<1>12. CASE WorkerFinish
  BY <1>12 DEF WorkerFinish, Settle, TurnEnds, TypeOK, NoOrphan
<1>13. CASE WorkerContinue
  BY <1>13 DEF WorkerContinue, TurnEnds, NoOrphan
<1>14. CASE WorkerCancelled
  BY <1>14 DEF WorkerCancelled, TurnEnds, Settle, TypeOK, NoOrphan
<1>15. CASE WorkerCancelledIdle
  BY <1>15 DEF WorkerCancelledIdle, NoOrphan
<1>16. ASSUME NEW result \in {"ok", "error"}, ExecFinish(result)
       PROVE  NoOrphan'
  BY <1>16 DEF ExecFinish, NoOrphan
<1>17. CASE PropagateCancel
  BY <1>17 DEF PropagateCancel, NoOrphan
<1>18. CASE ExecCancelled
  BY <1>18 DEF ExecCancelled, NoOrphan
<1>. QED
  BY <1>1, <1>2, <1>3, <1>4, <1>5, <1>6, <1>7, <1>8, <1>9, <1>10, <1>11, <1>12,
     <1>13, <1>14, <1>15, <1>16, <1>17, <1>18
     DEF Next, Send, WorkerStep

\* No step leaves a key to a command that is over.
LEMMA KeyTableStep ==
    ASSUME TypeOK, Control, KeyTable, Next
    PROVE  KeyTable'
<1>1. CASE Start
  BY <1>1 DEF Start, Control, KeyTable
<1>2. CASE StopDrain
  BY <1>2 DEF StopDrain, KeyTable
<1>3. CASE StopJoined
  BY <1>3 DEF StopJoined, KeyTable
<1>4. ASSUME NEW r \in Requests, SendRefused(r)
       PROVE  KeyTable'
  BY <1>4 DEF SendRefused, KeyTable, workerVars
<1>5. ASSUME NEW r \in Requests, SendJoin(r)
       PROVE  KeyTable'
  BY <1>5 DEF SendJoin, KeyTable, workerVars
<1>6. ASSUME NEW r \in Requests, SendQueue(r)
       PROVE  KeyTable'
  BY <1>6 DEF SendQueue, KeyTable, workerVars
<1>7. ASSUME NEW r \in Requests, NEW how \in {"timing out", "cancelling"}, GiveUp(r, how)
       PROVE  KeyTable'
  BY <1>7 DEF GiveUp, KeyTable, workerVars
<1>8. ASSUME NEW r \in Requests, Resume(r)
       PROVE  KeyTable'
  BY <1>8 DEF Resume, ReleaseKey, KeyTable, workerVars
<1>9. CASE WorkerGet
  BY <1>9 DEF WorkerGet, Control, KeyTable
<1>10. CASE WorkerSkip
  BY <1>10 DEF WorkerSkip, TurnEnds, ReleaseKey, KeyTable
<1>11. CASE WorkerDispatch
  BY <1>11 DEF WorkerDispatch, KeyTable
<1>12. CASE WorkerFinish
  BY <1>12 DEF WorkerFinish, TurnEnds, ReleaseKey, KeyTable
<1>13. CASE WorkerContinue
  BY <1>13 DEF WorkerContinue, TurnEnds, ReleaseKey, KeyTable
<1>14. CASE WorkerCancelled
  BY <1>14 DEF WorkerCancelled, TurnEnds, ReleaseKey, KeyTable
<1>15. CASE WorkerCancelledIdle
  BY <1>15 DEF WorkerCancelledIdle, KeyTable
<1>16. ASSUME NEW result \in {"ok", "error"}, ExecFinish(result)
       PROVE  KeyTable'
  BY <1>16 DEF ExecFinish, KeyTable
<1>17. CASE PropagateCancel
  BY <1>17 DEF PropagateCancel, KeyTable
<1>18. CASE ExecCancelled
  BY <1>18 DEF ExecCancelled, KeyTable
<1>. QED
  BY <1>1, <1>2, <1>3, <1>4, <1>5, <1>6, <1>7, <1>8, <1>9, <1>10, <1>11, <1>12,
     <1>13, <1>14, <1>15, <1>16, <1>17, <1>18
     DEF Next, Send, WorkerStep

\* No step dispatches a command out of order.
LEMMA InOrderStep ==
    ASSUME TypeOK, Control, Calls, Order, InOrder, Next
    PROVE  InOrder'
<1>1. CASE Start
  BY <1>1 DEF Start, InOrder, itemVars
<1>2. CASE StopDrain
  BY <1>2 DEF StopDrain, InOrder, itemVars
<1>3. CASE StopJoined
  BY <1>3 DEF StopJoined, InOrder, itemVars
<1>4. ASSUME NEW r \in Requests, SendRefused(r)
       PROVE  InOrder'
  BY <1>4 DEF SendRefused, InOrder, itemVars
<1>5. ASSUME NEW r \in Requests, SendJoin(r)
       PROVE  InOrder'
  BY <1>5 DEF SendJoin, InOrder, itemVars
<1>6. ASSUME NEW r \in Requests, SendQueue(r)
       PROVE  InOrder'
  <2>1. \A i \in 1..Len(wire) : wire[i] \in Requests /\ wire[i] # r
    <3>1. \A i \in 1..Len(wire) : wire[i] \in Requests
      BY DEF TypeOK
    <3>2. r \notin Wire
      BY <1>6 DEF SendQueue, Calls, CallOK
    <3>. QED
      BY <3>1, <3>2 DEF Wire
  <2>2. \A x \in Requests \ {r} : seq'[x] = seq[x]
    BY <1>6 DEF SendQueue, TypeOK
  <2>. QED
    BY <1>6, <2>1, <2>2 DEF SendQueue, InOrder
<1>7. ASSUME NEW r \in Requests, NEW how \in {"timing out", "cancelling"}, GiveUp(r, how)
       PROVE  InOrder'
  BY <1>7 DEF GiveUp, InOrder, itemVars
<1>8. ASSUME NEW r \in Requests, Resume(r)
       PROVE  InOrder'
  BY <1>8 DEF Resume, InOrder, itemVars
<1>9. CASE WorkerGet
  BY <1>9 DEF WorkerGet, InOrder, itemVars
<1>10. CASE WorkerSkip
  BY <1>10 DEF WorkerSkip, TurnEnds, InOrder, itemVars
<1>11. CASE WorkerDispatch
  <2>1. cur \in Requests
    BY <1>11 DEF WorkerDispatch, Control, TypeOK
  <2>2. /\ Len(wire') = Len(wire) + 1 /\ Len(wire) \in Nat
        /\ \A i \in 1..Len(wire) : wire'[i] = wire[i]
        /\ wire'[Len(wire) + 1] = cur
    BY <1>11, <2>1 DEF WorkerDispatch
  <2>3. \A i \in 1..Len(wire) : prio[wire[i]] = prio[cur] => seq[wire[i]] < seq[cur]
    BY <1>11 DEF WorkerDispatch, Order, Wire
  <2>4. seq' = seq
    BY <1>11 DEF WorkerDispatch, itemVars
  <2>. SUFFICES ASSUME NEW i \in 1..Len(wire'), NEW j \in 1..Len(wire'), i < j,
                       prio[wire'[i]] = prio[wire'[j]]
                PROVE  seq[wire'[i]] < seq[wire'[j]]
    BY <2>4 DEF InOrder
  <2>5. i \in 1..Len(wire) /\ (j \in 1..Len(wire) \/ j = Len(wire) + 1)
    BY <2>2
  <2>. QED
    BY <2>2, <2>3, <2>5 DEF InOrder
<1>12. CASE WorkerFinish
  BY <1>12 DEF WorkerFinish, TurnEnds, InOrder, itemVars
<1>13. CASE WorkerContinue
  BY <1>13 DEF WorkerContinue, TurnEnds, InOrder, itemVars
<1>14. CASE WorkerCancelled
  BY <1>14 DEF WorkerCancelled, TurnEnds, InOrder, itemVars
<1>15. CASE WorkerCancelledIdle
  BY <1>15 DEF WorkerCancelledIdle, InOrder, itemVars
<1>16. ASSUME NEW result \in {"ok", "error"}, ExecFinish(result)
       PROVE  InOrder'
  BY <1>16 DEF ExecFinish, InOrder, itemVars
<1>17. CASE PropagateCancel
  BY <1>17 DEF PropagateCancel, InOrder, itemVars
<1>18. CASE ExecCancelled
  BY <1>18 DEF ExecCancelled, InOrder, itemVars
<1>. QED
  BY <1>1, <1>2, <1>3, <1>4, <1>5, <1>6, <1>7, <1>8, <1>9, <1>10, <1>11, <1>12,
     <1>13, <1>14, <1>15, <1>16, <1>17, <1>18
     DEF Next, Send, WorkerStep
-----------------------------------------------------------------------------
(* The invariant and its consequences.                                     *)

\* The inductive invariant holds when the commander is created.
LEMMA IInvInit == Init => IInv
<1> SUFFICES ASSUME Init PROVE IInv
  OBVIOUS
<1>1. Wire = {} /\ wire \in Seq(Requests)
  BY DEF Init, Wire
<1>2. TypeOK
  BY <1>1 DEF Init, TypeOK, FutStates
<1>3. Control /\ Calls /\ Order
  BY <1>1, RequestsAssumption DEF Init, Control, Calls, CallOK, Order, Waiting
<1>4. NoOrphan /\ InOrder /\ KeyTable
  BY DEF Init, NoOrphan, InOrder, KeyTable
<1>. QED
  BY <1>2, <1>3, <1>4 DEF IInv

\* The inductive invariant is preserved by every step.
LEMMA IInvStep == IInv /\ [Next]_vars => IInv'
<1> SUFFICES ASSUME IInv, [Next]_vars PROVE IInv'
  OBVIOUS
<1>1. CASE Next
  BY <1>1, TypeStep, ControlStep, CallsStep, OrderStep, NoOrphanStep, KeyTableStep,
     InOrderStep
     DEF IInv
<1>2. CASE UNCHANGED vars
  <2>1. /\ UNCHANGED <<running, queue, nextSeq, seq, fut, pendingByKey, awaits, call>>
        /\ UNCHANGED <<worker, cur, exec, mustCancel, stopper, wire, late>>
        /\ Wire' = Wire
    BY <1>2, WireSame DEF vars, callVars, itemVars, workerVars
  <2>2. TypeOK' /\ Control' /\ Order'
    BY <2>1 DEF IInv, TypeOK, Control, Order
  <2>3. Calls' /\ NoOrphan' /\ InOrder' /\ KeyTable'
    BY <2>1 DEF IInv, Calls, CallOK, NoOrphan, InOrder, KeyTable
  <2>. QED
    BY <2>2, <2>3 DEF IInv
<1>. QED
  BY <1>1, <1>2

\* Every reachable state of the commander satisfies the inductive invariant.
THEOREM Invariance == Spec => []IInv
BY IInvInit, IInvStep, PTL DEF Spec

\* The variables keep their types.
THEOREM TypeCorrect == Spec => []TypeOK
<1>1. IInv => TypeOK
  BY DEF IInv
<1>. QED
  BY <1>1, Invariance, PTL

\* However calls, give-ups, stops and restarts interleave, a pending future is
\* in the queue or in the worker's hands, or was submitted during a stop().
THEOREM NoFutureForgotten == Spec => []NoOrphan
<1>1. IInv => NoOrphan
  BY DEF IInv
<1>. QED
  BY <1>1, Invariance, PTL

\* Commands of one priority reach the radio in the order of their submission.
THEOREM DispatchedInOrder == Spec => []InOrder
<1>1. IInv => InOrder
  BY DEF IInv
<1>. QED
  BY <1>1, Invariance, PTL

\* The key table names only commands that are queued or in the worker's hands.
THEOREM KeysNameLiveCommands == Spec => []KeyTable
<1>1. IInv => KeyTable
  BY DEF IInv
<1>. QED
  BY <1>1, Invariance, PTL

\* A call that gave up resumes with the outcome it gave up for.
LEMMA OutcomeGivenUp ==
    ASSUME NEW r \in Requests
    PROVE  /\ call[r] = "timing out" => OutcomeOf(r) = "timeout"
           /\ call[r] = "cancelling" => OutcomeOf(r) = "cancelled"
BY DEF OutcomeOf

\* The outcome of a call of send() is final, and a call that has begun to give
\* up is not answered any more.
THEOREM OutcomesAreFinal == Spec => Final
<1>1. ASSUME IInv, [Next]_vars, NEW r \in Requests
      PROVE  /\ call[r] \in Ended => call'[r] = call[r]
             /\ call[r] = "timing out" => call'[r] \in {"timing out", "timeout"}
             /\ call[r] = "cancelling" => call'[r] \in {"cancelling", "cancelled"}
  <2>1. call \in [Requests -> {"idle"} \cup Waiting \cup Ended]
    BY <1>1 DEF IInv, TypeOK
  <2>2. CASE UNCHANGED call
    BY <2>1, <2>2
  <2>3. ASSUME NEW q \in Requests, NEW how \in Waiting \cup Ended,
               call' = [call EXCEPT ![q] = how], call[q] \in {"idle", "waiting"}
        PROVE  /\ call[r] \in Ended => call'[r] = call[r]
               /\ call[r] \in {"timing out", "cancelling"} => call'[r] = call[r]
    BY <2>1, <2>3 DEF Ended
  <2>4. ASSUME NEW q \in Requests,
               Send(q) \/ \E how \in {"timing out", "cancelling"} : GiveUp(q, how)
        PROVE  /\ call[r] \in Ended => call'[r] = call[r]
               /\ call[r] \in {"timing out", "cancelling"} => call'[r] = call[r]
    BY <2>3, <2>4 DEF Send, SendRefused, SendJoin, SendQueue, GiveUp, Waiting, Ended
  <2>5. ASSUME NEW q \in Requests, Resume(q)
        PROVE  /\ call[r] \in Ended => call'[r] = call[r]
               /\ call[r] = "timing out" => call'[r] \in {"timing out", "timeout"}
               /\ call[r] = "cancelling" => call'[r] \in {"cancelling", "cancelled"}
    <3>1. call' = [call EXCEPT ![q] = OutcomeOf(q)] /\ call[q] \notin Ended
      BY <2>5 DEF Resume, Waiting, Ended
    <3>. QED
      BY <2>1, <3>1, OutcomeGivenUp
  <2>6. CASE Start \/ StopDrain \/ StopJoined
    BY <2>2, <2>6 DEF Start, StopDrain, StopJoined, callVars
  <2>7. CASE WorkerStep
    BY <2>2, <2>7
       DEF WorkerStep, WorkerGet, WorkerSkip, WorkerDispatch, WorkerFinish,
           WorkerContinue, WorkerCancelled, WorkerCancelledIdle, callVars
  <2>8. CASE PropagateCancel \/ ExecCancelled \/ \E result \in {"ok", "error"} : ExecFinish(result)
    BY <2>2, <2>8 DEF PropagateCancel, ExecCancelled, ExecFinish, callVars
  <2>9. CASE UNCHANGED vars
    BY <2>2, <2>9 DEF vars, callVars
  <2>. QED
    BY <1>1, <2>4, <2>5, <2>6, <2>7, <2>8, <2>9 DEF Next
<1>2. IInv /\ [Next]_vars =>
        [\A r \in Requests :
            /\ call[r] \in Ended => call'[r] = call[r]
            /\ call[r] = "timing out" => call'[r] \in {"timing out", "timeout"}
            /\ call[r] = "cancelling" => call'[r] \in {"cancelling", "cancelled"}]_vars
  BY <1>1
<1>. QED
  BY <1>2, Invariance, PTL DEF Spec, Final

-----------------------------------------------------------------------------
(* The commander implements the service.                                   *)

Status == [r \in Requests |-> StatusOf(call[r])]

\* The abstract status changes only with the calls.
LEMMA StatusSame ==
    ASSUME UNCHANGED call
    PROVE  Status' = Status
BY DEF Status

\* A call that moves on changes its own abstract status.
LEMMA StatusChanges ==
    ASSUME call \in [Requests -> {"idle"} \cup Waiting \cup Ended],
           NEW r \in Requests, NEW c, call' = [call EXCEPT ![r] = c]
    PROVE  Status' = [Status EXCEPT ![r] = StatusOf(c)]
BY DEF Status

\* Every step of the commander is a step of the service or a stutter.
THEOREM StepRefines == IInv /\ Next => Service!Next \/ UNCHANGED <<Status, awaits, Wire>>
<1> SUFFICES ASSUME IInv, Next
             PROVE  Service!Next \/ UNCHANGED <<Status, awaits, Wire>>
  OBVIOUS
<1>0. /\ call \in [Requests -> {"idle"} \cup Waiting \cup Ended]
      /\ \A r \in Requests : Status[r] = StatusOf(call[r])
      /\ \A r \in Requests : CallOK(r)
  BY DEF IInv, TypeOK, Status, Calls
<1>1. ASSUME NEW r \in Requests, SendRefused(r)
      PROVE  Service!Refuse(r)
  BY <1>0, <1>1, StatusChanges, WireSame
     DEF SendRefused, Service!Refuse, StatusOf, Wire, Status
<1>2. ASSUME NEW r \in Requests, SendJoin(r)
      PROVE  \E q \in Requests : Service!Submit(r, q)
  <2>1. PICK q \in Requests : fut[q] = "pending" /\ awaits' = [awaits EXCEPT ![r] = q]
    BY <1>2 DEF SendJoin, Joinable
  <2>2. call[q] = "waiting" /\ awaits[q] = q
    BY <1>0, <2>1 DEF CallOK
  <2>. QED
    BY <1>0, <1>2, <2>1, <2>2, StatusChanges, WireSame
       DEF SendJoin, Service!Submit, StatusOf, Wire, Status
<1>3. ASSUME NEW r \in Requests, SendQueue(r)
      PROVE  Service!Submit(r, r)
  BY <1>0, <1>3, StatusChanges, WireSame
     DEF SendQueue, Service!Submit, StatusOf, Wire, Status
<1>4. ASSUME NEW r \in Requests, NEW how \in {"timing out", "cancelling"}, GiveUp(r, how)
      PROVE  Service!Drop(r, "gone")
  BY <1>0, <1>4, StatusChanges, WireSame
     DEF GiveUp, Service!Drop, StatusOf, Wire, Status
<1>5. ASSUME NEW r \in Requests, Resume(r)
      PROVE  \/ UNCHANGED <<Status, awaits, Wire>>
             \/ Service!Answer(r)
             \/ \E outcome \in {"failed", "gone"} : Service!Drop(r, outcome)
  <2>1. call' = [call EXCEPT ![r] = OutcomeOf(r)]
    BY <1>5 DEF Resume
  <2>2. Status' = [Status EXCEPT ![r] = StatusOf(OutcomeOf(r))] /\ Wire' = Wire /\ awaits' = awaits
    BY <1>0, <1>5, <2>1, StatusChanges, WireSame DEF Resume
  <2>3. CASE call[r] # "waiting"
    <3>1. Status[r] = "gone" /\ StatusOf(OutcomeOf(r)) = "gone"
      BY <1>0, <1>5, <2>3, OutcomeGivenUp DEF Resume, Waiting, StatusOf
    <3>. QED
      BY <2>2, <3>1 DEF Status
  <2>4. CASE call[r] = "waiting" /\ OutcomeOf(r) = "result"
    <3>1. fut[awaits[r]] = "ok"
      BY <2>4 DEF OutcomeOf
    <3>2. awaits[r] \in Wire
      BY <1>0, <2>4, <3>1 DEF CallOK, Waiting
    <3>. QED
      BY <1>0, <2>2, <2>4, <3>2 DEF Service!Answer, StatusOf, Status, Wire
  <2>5. CASE call[r] = "waiting" /\ OutcomeOf(r) # "result"
    <3>1. OutcomeOf(r) \in {"error", "timeout", "cancelled"}
      BY <2>5, OutcomeEnded
    <3>2. PICK outcome \in {"failed", "gone"} : StatusOf(OutcomeOf(r)) = outcome
      BY <3>1 DEF StatusOf
    <3>3. Service!Drop(r, outcome)
      BY <1>0, <2>2, <2>5, <3>2 DEF Service!Drop, StatusOf, Status, Wire
    <3>. QED
      BY <3>3
  <2>. QED
    BY <2>3, <2>4, <2>5
<1>6. CASE WorkerDispatch
  <2>1. cur \in Requests /\ cur \notin Wire
    <3>1. cur \in Requests
      BY <1>6 DEF WorkerDispatch, IInv, TypeOK, Control
    <3>2. cur \in Wire => seq[cur] < seq[cur]
      BY <1>6 DEF WorkerDispatch, IInv, Order
    <3>3. ~(seq[cur] < seq[cur])
      BY <3>1 DEF IInv, TypeOK
    <3>. QED
      BY <3>1, <3>2, <3>3
  <2>2. call[cur] = "waiting" /\ awaits[cur] = cur
    BY <1>0, <1>6, <2>1 DEF WorkerDispatch, Abandoned, CallOK
  <2>3. Wire' = Wire \cup {cur}
    BY <1>6, <2>1, WireGrows DEF WorkerDispatch, IInv, TypeOK
  <2>4. Service!Perform(cur)
    BY <1>0, <1>6, <2>1, <2>2, <2>3, StatusSame
       DEF WorkerDispatch, Service!Perform, callVars, StatusOf, Status, Wire
  <2>5. PICK r \in Requests : r = cur
    BY <2>1
  <2>. QED
    BY <2>4, <2>5 DEF Service!Next, Service!Perform
<1>7. CASE UNCHANGED <<call, awaits, wire>>
  BY <1>7, StatusSame, WireSame
<1>8. CASE Start \/ StopDrain \/ StopJoined
  BY <1>7, <1>8 DEF Start, StopDrain, StopJoined, callVars
<1>9. CASE WorkerGet \/ WorkerSkip \/ WorkerFinish \/ WorkerContinue
           \/ WorkerCancelled \/ WorkerCancelledIdle
  BY <1>7, <1>9
     DEF WorkerGet, WorkerSkip, WorkerFinish, WorkerContinue, WorkerCancelled,
         WorkerCancelledIdle, callVars
<1>10. CASE PropagateCancel \/ ExecCancelled \/ \E result \in {"ok", "error"} : ExecFinish(result)
  BY <1>7, <1>10 DEF PropagateCancel, ExecCancelled, ExecFinish, callVars
<1>11. CASE \E r \in Requests : Send(r)
  BY <1>1, <1>2, <1>3, <1>11 DEF Send, Service!Next
<1>12. CASE \E r \in Requests, how \in {"timing out", "cancelling"} : GiveUp(r, how)
  BY <1>4, <1>12 DEF Service!Next
<1>13. CASE \E r \in Requests : Resume(r)
  BY <1>5, <1>13 DEF Service!Next
<1>. QED
  BY <1>6, <1>8, <1>9, <1>10, <1>11, <1>12, <1>13 DEF Next, WorkerStep

\* What the callers of send() rely on, CommandService, is what the commander
\* does: a command is put on the wire at most once, only while the call that
\* submitted it is pending, and a result comes from a command that was.
THEOREM Refinement == Spec => ImplementsService
<1>1. Init => Service!Init
  BY DEF Init, Service!Init, StatusOf
<1>2. IInv /\ [Next]_vars => [Service!Next]_(Service!vars)
  <2>1. UNCHANGED vars => UNCHANGED <<call, awaits, wire>>
    BY DEF vars, callVars
  <2>2. UNCHANGED <<call, awaits, wire>> => UNCHANGED Service!vars
    BY DEF Service!vars
  <2>3. UNCHANGED <<Status, awaits, Wire>> => UNCHANGED Service!vars
    BY DEF Service!vars, Status, Wire
  <2>. QED
    BY <2>1, <2>2, <2>3, StepRefines
<1>. QED
  BY <1>1, <1>2, Invariance, PTL DEF Spec, ImplementsService, Service!Spec
=============================================================================
