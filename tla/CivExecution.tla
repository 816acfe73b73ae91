---------------------------- MODULE CivExecution ----------------------------
(***************************************************************************)
(* The execution of CI-V commands over one session, runtime/_civ_rx.py,    *)
(* on top of CivRequestTracker: execute_civ_raw, which the commander runs  *)
(* one at a time, and execute_civ_transaction, which bypasses the          *)
(* commander and excludes only other transactions.                         *)
(*                                                                         *)
(* The radio (external) answers commands in the order in which it receives *)
(* them: ACK or NAK for a write, a data response or NAK for a read.  An    *)
(* answer can be lost, or arrive after its command has been given up.      *)
(***************************************************************************)
EXTENDS CivRequestTracker

CONSTANTS
    kind,           \* how each command is executed
    MaxGeneration,  \* bound on the sessions of a behaviour
    MaxUnsolicited  \* bound on the unsolicited frames of a behaviour

CommanderKinds == {"set", "get", "fire set", "fire get"}
RawKinds       == {"raw none", "raw ack", "raw data"}
Kinds          == CommanderKinds \cup RawKinds

ASSUME KindAssumption == kind \in [Commands -> Kinds]
ASSUME BoundsAssumption == MaxGeneration \in Nat /\ MaxUnsolicited \in Nat

VARIABLES
    status,       \* the progress and the outcome of each command
    wire,         \* the commands the radio has yet to answer
    unsolicited,  \* how many unsolicited frames have arrived
    stray,        \* history: an ACK/NAK arrived that its command did not await
    overlap,      \* history: how a transaction and a commander command overlapped
    alone         \* history: the last command to begin, when it began on a quiet link

civVars == <<trackerVars, status, wire, unsolicited, stray, overlap, alone>>

Active   == {"draining", "pacing", "waiting", "unwinding"}
Outcomes == {"sent", "ack", "nak", "response", "failed", "gone"}
Statuses == {"idle"} \cup Active \cup Outcomes
Overlaps == {"transaction began", "command began"}

IsRaw(c)    == kind[c] \in RawKinds
IsWrite(c)  == kind[c] \in {"set", "fire set", "raw ack", "raw none"}
Blocking(c) == kind[c] \in {"set", "get", "raw ack", "raw data"}
AwaitsAck(c) == kind[c] \in {"set", "raw ack", "raw data"}
AwaitsData(c) == kind[c] \in {"get", "raw data"}

CivTypeOK ==
    /\ TrackerTypeOK
    /\ status \in [Commands -> Statuses]
    /\ wire \in Seq(Commands)
    /\ unsolicited \in 0..MaxUnsolicited
    /\ stray \in BOOLEAN
    /\ overlap \in SUBSET Overlaps
    /\ alone \in Commands \cup {NoCmd}

CivInit ==
    /\ TrackerInit
    /\ status = [c \in Commands |-> "idle"]
    /\ wire = << >>
    /\ unsolicited = 0
    /\ stray = FALSE
    /\ overlap = {}
    /\ alone = NoCmd

-----------------------------------------------------------------------------
(* Executing a command *)

Running == {c \in Commands : status[c] \in Active}

\* The commander's worker executes one command, the claim on the external CAT
\* session admits one transaction.
LaneFree(c) == \A d \in Running : IsRaw(d) # IsRaw(c)

Goes(c, s) == status' = [status EXCEPT ![c] = s]

HasSinks == \E i \in DOMAIN ackWaiters : ackWaiters[i].sink

\* The ACK waiter of a blocking command; a transaction first drops the backlog.
AwaitAck(c, waiters) ==
    IF ~AwaitsAck(c) THEN UNCHANGED <<ackFut, backlog>> /\ ackWaiters' = waiters
    ELSE IF IsRaw(c) THEN RegisterAck(waiters, << >>, c, FALSE, kind[c] = "raw data")
    ELSE RegisterAck(waiters, backlog, c, TRUE, FALSE)

AwaitData(c) ==
    IF AwaitsData(c) THEN RegisterResponse(c)
    ELSE UNCHANGED <<responseWaiters, respFut>>

\* Nothing is under way, the radio owes no answer and nothing is cached that the
\* command would accept.  Sinks may be left over.
Quiet(c) == Running = {} /\ wire = << >> /\ (IsRaw(c) \/ backlog = << >>)

Begins(c) ==
    /\ status[c] = "idle"
    /\ LaneFree(c)
    /\ overlap' = overlap \cup (IF Running = {} THEN {}
                                ELSE IF IsRaw(c) THEN {"transaction began"}
                                ELSE {"command began"})
    /\ alone' = IF Quiet(c) THEN c ELSE NoCmd
    /\ UNCHANGED <<generation, wire, unsolicited, stray>>

\* A command nobody waits for: a write leaves a sink for its ACK.
BeginFire(c) ==
    /\ ~Blocking(c)
    /\ Begins(c)
    /\ Goes(c, "pacing")
    /\ IF kind[c] = "fire set" THEN RegisterSink(c)
       ELSE UNCHANGED <<ackWaiters, backlog, ackFut>>
    /\ UNCHANGED <<responseWaiters, respFut>>

BeginBlocking(c) ==
    /\ Blocking(c)
    /\ Begins(c)
    /\ IF HasSinks
         THEN Goes(c, "draining") /\ UNCHANGED trackerVars
         ELSE Goes(c, "pacing") /\ AwaitAck(c, ackWaiters) /\ AwaitData(c)

\* _drain_ack_sinks_before_blocking returns: the sinks are gone, or the grace
\* period is over and they are dropped.
EndDrain(c) ==
    /\ status[c] = "draining"
    /\ Goes(c, "pacing")
    /\ AwaitAck(c, WithoutSinks(ackWaiters))
    /\ AwaitData(c)
    /\ UNCHANGED <<generation, wire, unsolicited, stray, overlap, alone>>

\* The deadline has passed when the drain returns.
DrainTooLate(c) ==
    /\ status[c] = "draining"
    /\ Goes(c, "gone")
    /\ ackWaiters' = WithoutSinks(ackWaiters)
    /\ backlog' = IF IsRaw(c) THEN << >> ELSE backlog
    /\ UNCHANGED <<responseWaiters, ackFut, respFut, generation, wire, unsolicited,
                   stray, overlap, alone>>

Transmit(c) ==
    /\ status[c] = "pacing"
    /\ Goes(c, IF Blocking(c) THEN "waiting" ELSE "sent")
    /\ wire' = Append(wire, c)
    /\ UNCHANGED <<trackerVars, unsolicited, stray, overlap, alone>>

\* send_tracked raises.
TransmitFails(c) ==
    /\ status[c] = "pacing"
    /\ Goes(c, "failed")
    /\ IF Blocking(c) THEN Unregister(c)
       ELSE UnregisterSink(c) /\ UNCHANGED responseWaiters
    /\ UNCHANGED <<backlog, generation, ackFut, respFut, wire, unsolicited, stray, overlap, alone>>

\* A future of the command is done: the command returns its frame or raises.
Finish(c) ==
    /\ status[c] = "waiting"
    /\ \E f \in {ackFut[c], respFut[c]} :
        \/ f.state = "done" /\ Goes(c, f.type)
        \/ f.state = "failed" /\ Goes(c, "failed")
    /\ Unregister(c)
    /\ UNCHANGED <<backlog, generation, ackFut, respFut, wire, unsolicited, stray, overlap, alone>>

\* The deadline passes or the caller cancels.  wait_for first cancels the
\* future and lets the event loop turn; a transaction, and a command that has
\* not reached its wait, unregister at once.  A cancelled fire-and-forget
\* write leaves its sink behind.
GiveUp(c) ==
    /\ status[c] \in {"draining", "pacing", "waiting"}
    /\ IF status[c] = "waiting" /\ ~IsRaw(c)
         THEN /\ Goes(c, "unwinding")
              /\ ackFut' = Failed(ackFut, {c})
              /\ respFut' = Failed(respFut, {c})
              /\ UNCHANGED <<ackWaiters, responseWaiters>>
         ELSE /\ Goes(c, "gone")
              /\ Unregister(c)
              /\ UNCHANGED <<ackFut, respFut>>
    /\ UNCHANGED <<backlog, generation, wire, unsolicited, stray, overlap, alone>>

Unwind(c) ==
    /\ status[c] = "unwinding"
    /\ Goes(c, "gone")
    /\ Unregister(c)
    /\ UNCHANGED <<backlog, generation, ackFut, respFut, wire, unsolicited, stray, overlap, alone>>

-----------------------------------------------------------------------------
(* The receive pump and the session *)

\* The command's own waiter or sink is registered.
Expected(c) ==
    \E i \in DOMAIN ackWaiters :
        ackWaiters[i].cmd = c /\ (ackWaiters[i].sink \/ ackFut[c].state = "pending")

DeliverAck(type) ==
    LET c == Head(wire)
        frame == [type |-> type, of |-> c]
    IN  /\ wire # << >>
        /\ type = "nak" \/ IsWrite(c)
        /\ wire' = Tail(wire)
        /\ stray' = (stray \/ ~Expected(c))
        /\ ResolveAck(frame)
        /\ UNCHANGED <<status, unsolicited, overlap, alone>>

DeliverResponse ==
    LET c == Head(wire) IN
    /\ wire # << >>
    /\ ~IsWrite(c)
    /\ wire' = Tail(wire)
    /\ ResolveResponse([type |-> "response", of |-> c, key |-> reqKey[c]])
    /\ UNCHANGED <<status, unsolicited, stray, overlap, alone>>

Lose ==
    /\ wire # << >>
    /\ wire' = Tail(wire)
    /\ UNCHANGED <<trackerVars, status, unsolicited, stray, overlap, alone>>

\* A transceive broadcast, a frame nobody asked for.
Unsolicited(k) ==
    /\ unsolicited < MaxUnsolicited
    /\ unsolicited' = unsolicited + 1
    /\ ResolveResponse([type |-> "response", of |-> NoCmd, key |-> k])
    /\ UNCHANGED <<status, wire, stray, overlap, alone>>

\* The periodic GC of the pump and of execute_civ_raw.
CollectStale ==
    /\ CleanupStale
    /\ UNCHANGED <<status, wire, unsolicited, stray, overlap, alone>>

\* The watchdog or disconnect(): a new generation; answers to the commands of
\* the old one can still arrive while the transport lives.
AdvanceGeneration ==
    /\ generation < MaxGeneration
    /\ generation' = generation + 1
    /\ FailAll
    /\ UNCHANGED <<status, wire, unsolicited, stray, overlap, alone>>

\* stop_pump(): everything fails and the transport is torn down.
StopPump ==
    /\ Running # {} \/ wire # << >> \/ backlog # << >>
    /\ FailAll
    /\ wire' = << >>
    /\ UNCHANGED <<generation, status, unsolicited, stray, overlap, alone>>

-----------------------------------------------------------------------------
Execute(c) ==
    \/ BeginFire(c) \/ BeginBlocking(c)
    \/ EndDrain(c) \/ DrainTooLate(c)
    \/ Transmit(c) \/ TransmitFails(c)
    \/ Finish(c) \/ GiveUp(c) \/ Unwind(c)

CivNext ==
    \/ \E c \in Commands : Execute(c)
    \/ \E type \in AckTypes : DeliverAck(type)
    \/ DeliverResponse \/ Lose
    \/ \E c \in Commands : Unsolicited(reqKey[c])
    \/ CollectStale \/ AdvanceGeneration \/ StopPump

CivSpec == CivInit /\ [][CivNext]_civVars

-----------------------------------------------------------------------------
(* Properties *)

\* While every ACK and NAK finds its own command's waiter still registered and
\* no transaction overlaps a commander command, a blocking command is answered
\* with the radio's verdict on that very command, although frames carry no
\* command: fire-and-forget sinks, their draining and losses keep the queue of
\* waiters aligned with the radio's answers.
AnswerIsOwn ==
    ~stray /\ overlap = {} =>
        \A c \in Commands : ackFut[c].state = "done" => ackFut[c].of = c

\* The lists of waiters and the futures agree.  A command that has ended, in
\* whatever way, has left no waiter behind: a leaked one would swallow the answer
\* of a later command.  And a pending future has a waiter, so that resolve() or
\* fail_all() can settle it before its deadline.
WaitersAgree ==
    /\ \A i \in DOMAIN ackWaiters :
            ackWaiters[i].sink \/ status[ackWaiters[i].cmd] \in Active
    /\ \A i \in DOMAIN responseWaiters : status[responseWaiters[i].cmd] \in Active
    /\ \A c \in Commands :
          status[c] \in Active =>
              /\ ackFut[c].state = "pending" =>
                    \E i \in DOMAIN ackWaiters : ackWaiters[i].cmd = c /\ ~ackWaiters[i].sink
              /\ respFut[c].state = "pending" =>
                    \E i \in DOMAIN responseWaiters : responseWaiters[i].cmd = c

\* Nothing survives a change of generation: every waiter and every cached
\* orphan belongs to the current session, and the backlog is bounded.
CurrentGeneration ==
    /\ \A i \in DOMAIN ackWaiters : ackWaiters[i].gen = generation
    /\ \A i \in DOMAIN responseWaiters : responseWaiters[i].gen = generation
    /\ \A i \in DOMAIN backlog : backlog[i].gen = generation
    /\ Len(backlog) <= BacklogSize

\* Misalignment does not last.  Whatever happened before - timeouts, answers lost
\* or late, sinks and orphans left behind, other sessions - a command that begins
\* on a quiet link, and that no other joins, is settled by no verdict but the
\* radio's on itself, and by that as soon as it arrives.
VerdictArrives ==
    [][\A c \in Commands \cap {alone'} :
        /\ ackFut[c].state # "done" /\ ackFut'[c].state = "done" => ackFut'[c].of = c
        /\ ackFut[c].state = "pending" /\ status[c] \in Active
            /\ (\E type \in AckTypes : DeliverAck(type)) => ackFut'[c].state = "done"]_civVars

\* No command has been given up or has failed.
NoneAbandoned ==
    \A c \in Commands : status[c] \notin {"gone", "failed", "unwinding"}

\* When no command is given up and no transaction interferes, a blocking write
\* is reported as rejected or accepted on the radio's verdict on that write
\* ("CommandError if the radio rejects the frequency").
VerdictIsOwn ==
    NoneAbandoned /\ overlap = {} =>
        \A c \in Commands :
            kind[c] = "set" /\ status[c] \in AckTypes => ackFut[c].of = c

\* When no command is given up and the pollers begin nothing during it, a
\* transaction is answered by its own command ("cooperating pollers pause ...
\* so their background traffic cannot consume or pollute the caller's
\* response").
TransactionIsOwn ==
    NoneAbandoned /\ "command began" \notin overlap =>
        \A c \in Commands :
            IsRaw(c) /\ status[c] \in AckTypes => ackFut[c].of = c
=============================================================================
