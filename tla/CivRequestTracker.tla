-------------------------- MODULE CivRequestTracker --------------------------
(***************************************************************************)
(* The request tracker of core/civ.py: the waiters for ACK/NAK frames and  *)
(* for data responses, the backlog of orphan ACK/NAK frames, and the       *)
(* generation of the CI-V session.                                         *)
(*                                                                         *)
(* An ACK (0xFB) or NAK (0xFA) frame carries no hint of the command it     *)
(* answers: the tracker gives it to the oldest waiter, or keeps it for a   *)
(* short time for the next one.  The model keeps that information as a     *)
(* ghost (of) to say what a right answer is.                               *)
(*                                                                         *)
(* Time is left out: creation times grow along each list, so an expiry     *)
(* removes some prefix of it, and every prefix is possible.                *)
(***************************************************************************)
EXTENDS Naturals, Sequences, FiniteSets

CONSTANTS
    Commands,     \* the CI-V commands of a behaviour, each executed once
    NoCmd,        \* no command: the origin of an unsolicited frame
    reqKey,       \* the CivRequestKey of each command
    BacklogSize   \* ack_backlog_size

ASSUME CommandsAssumption == NoCmd \notin Commands
ASSUME BacklogAssumption  == BacklogSize \in Nat

VARIABLES
    ackWaiters,       \* _ack_waiters
    responseWaiters,  \* _response_waiters
    backlog,          \* _ack_backlog
    generation,       \* _generation
    ackFut,           \* the future of each command's ACK waiter
    respFut           \* the future of each command's response waiter

trackerVars == <<ackWaiters, responseWaiters, backlog, generation, ackFut, respFut>>

\* A future: its state and, when it is done, the frame it holds.
Future(s) == [state |-> s, type |-> "none", of |-> NoCmd]
Holding(frame) == [state |-> "done", type |-> frame.type, of |-> frame.of]

Origins == Commands \cup {NoCmd}
AckTypes == {"ack", "nak"}
Futures ==
    [state : {"none", "pending", "failed"}, type : {"none"}, of : {NoCmd}]
        \cup [state : {"done"}, type : {"ack", "nak", "response"}, of : Origins]
AckWaiter      == [cmd : Commands, sink : BOOLEAN, nakOnly : BOOLEAN, gen : Nat]
ResponseWaiter == [cmd : Commands, gen : Nat]
Orphan         == [type : AckTypes, of : Origins, gen : Nat]

TrackerTypeOK ==
    /\ ackWaiters \in Seq(AckWaiter)
    /\ responseWaiters \in Seq(ResponseWaiter)
    /\ backlog \in Seq(Orphan)
    /\ generation \in Nat
    /\ ackFut \in [Commands -> Futures]
    /\ respFut \in [Commands -> Futures]

TrackerInit ==
    /\ ackWaiters = << >>
    /\ responseWaiters = << >>
    /\ backlog = << >>
    /\ generation = 0
    /\ ackFut = [c \in Commands |-> Future("none")]
    /\ respFut = [c \in Commands |-> Future("none")]

-----------------------------------------------------------------------------
\* The entries of s at the positions in I, in their order.
Rank(I, i) == Cardinality({j \in I : j <= i})
Part(s, I) == [k \in 1..Cardinality(I) |-> s[CHOOSE i \in I : Rank(I, i) = k]]

Earliest(indices) == CHOOSE i \in indices : \A j \in indices : i <= j

\* Settles the pending futures of the commands in cmds with an exception.
Failed(fut, cmds) ==
    [c \in Commands |-> IF c \in cmds /\ fut[c].state = "pending"
                        THEN Future("failed") ELSE fut[c]]

CmdsOf(waiters) == {waiters[i].cmd : i \in DOMAIN waiters}

\* _prune_ack_backlog: drops expired entries and those of another generation
\* from the head, up to the first fresh one.
Pruned(entries) ==
    {Part(entries, n..Len(entries)) : n \in {m \in 1..Len(entries) + 1 :
        m <= Len(entries) => entries[m].gen = generation}}

\* _pop_matching_ack_backlog
Matching(entries, nakOnly) == {i \in DOMAIN entries : nakOnly => entries[i].type = "nak"}

\* Mutant: the sinks stay.
WithSinks(waiters) == waiters

\* drop_ack_sinks
WithoutSinks(waiters) == Part(waiters, {i \in DOMAIN waiters : ~waiters[i].sink})

\* register_ack(wait=True): the oldest matching orphan answers at once,
\* otherwise the waiter joins the end of the list.
RegisterAck(waiters, entries, c, consumeBacklog, nakOnly) ==
    \E fresh \in Pruned(entries) :
        LET hits == IF consumeBacklog THEN Matching(fresh, nakOnly) ELSE {} IN
        IF hits # {}
          THEN /\ ackFut' = [ackFut EXCEPT ![c] = Holding(fresh[Earliest(hits)])]
               /\ backlog' = Part(fresh, DOMAIN fresh \ {Earliest(hits)})
               /\ ackWaiters' = waiters
          ELSE /\ ackFut' = [ackFut EXCEPT ![c] = Future("pending")]
               /\ backlog' = fresh
               /\ ackWaiters' = Append(waiters,
                    [cmd |-> c, sink |-> FALSE, nakOnly |-> nakOnly, gen |-> generation])

\* register_ack(wait=False)
RegisterSink(c) ==
    /\ backlog' \in Pruned(backlog)
    /\ ackWaiters' = Append(ackWaiters,
            [cmd |-> c, sink |-> TRUE, nakOnly |-> FALSE, gen |-> generation])
    /\ UNCHANGED ackFut

\* register_response
RegisterResponse(c) ==
    /\ responseWaiters' = Append(responseWaiters, [cmd |-> c, gen |-> generation])
    /\ respFut' = [respFut EXCEPT ![c] = Future("pending")]

\* Mutant: only the waiter of the data response is taken back.
UnregisterResponse(c) ==
    /\ responseWaiters' = Part(responseWaiters,
            {i \in DOMAIN responseWaiters : responseWaiters[i].cmd # c})
    /\ UNCHANGED ackWaiters

\* unregister, for the futures of one command
Unregister(c) ==
    /\ ackWaiters' = Part(ackWaiters,
            {i \in DOMAIN ackWaiters : ackWaiters[i].cmd # c \/ ackWaiters[i].sink})
    /\ responseWaiters' = Part(responseWaiters,
            {i \in DOMAIN responseWaiters : responseWaiters[i].cmd # c})

\* unregister_ack_sink, for the sink of one command
UnregisterSink(c) ==
    ackWaiters' = Part(ackWaiters,
            {i \in DOMAIN ackWaiters : ackWaiters[i].cmd # c \/ ~ackWaiters[i].sink})

\* fail_all
FailAll ==
    /\ ackFut' = Failed(ackFut, CmdsOf(ackWaiters))
    /\ respFut' = Failed(respFut, CmdsOf(responseWaiters))
    /\ ackWaiters' = << >>
    /\ responseWaiters' = << >>
    /\ backlog' = << >>

\* cleanup_stale: the waiters past the TTL fail.
CleanupStale ==
    \E a \in 1..Len(ackWaiters) + 1, r \in 1..Len(responseWaiters) + 1 :
        /\ ackWaiters' = Part(ackWaiters, a..Len(ackWaiters))
        /\ responseWaiters' = Part(responseWaiters, r..Len(responseWaiters))
        /\ ackFut' = Failed(ackFut, {ackWaiters[i].cmd : i \in 1..(a - 1)})
        /\ respFut' = Failed(respFut, {responseWaiters[i].cmd : i \in 1..(r - 1)})
        /\ UNCHANGED <<backlog, generation>>

-----------------------------------------------------------------------------
(* resolve() *)

\* A waiter lets the frame pass, or is popped; popped, it takes the frame
\* unless its future is already done.
LetsPass(w, frame) == w.gen = generation /\ w.nakOnly /\ frame.type = "ack"

\* Mutant: a sink is popped but does not take the frame.
TakesAwaited(w, frame) ==
    /\ w.gen = generation
    /\ w.nakOnly => frame.type = "nak"
    /\ ~w.sink /\ ackFut[w.cmd].state = "pending"

Takes(w, frame) ==
    /\ w.gen = generation
    /\ w.nakOnly => frame.type = "nak"
    /\ w.sink \/ ackFut[w.cmd].state = "pending"

Takers(frame) == {i \in DOMAIN ackWaiters : Takes(ackWaiters[i], frame)}

\* resolve() looks at the waiters up to position n and pops all that do not let
\* the frame pass.
Remaining(frame, n) ==
    Part(ackWaiters, {i \in DOMAIN ackWaiters : i <= n => LetsPass(ackWaiters[i], frame)})

\* Mutant: the bound of the backlog is off by one.
StoredPastBound(entries, frame) ==
    LET kept == IF Len(entries) > BacklogSize THEN Tail(entries) ELSE entries
    IN  Append(kept, [type |-> frame.type, of |-> frame.of, gen |-> generation])

\* An orphan is kept, at the price of the oldest one when the backlog is full.
Stored(entries, frame) ==
    LET kept == IF Len(entries) >= BacklogSize THEN Tail(entries) ELSE entries
    IN  IF BacklogSize = 0 THEN entries
        ELSE Append(kept, [type |-> frame.type, of |-> frame.of, gen |-> generation])

ResolveAck(frame) ==
    \E fresh \in Pruned(backlog) :
        /\ IF Takers(frame) # {}
             THEN LET i == Earliest(Takers(frame))
                      w == ackWaiters[i]
                  IN  /\ ackWaiters' = Remaining(frame, i)
                      /\ ackFut' = IF w.sink THEN ackFut
                                   ELSE [ackFut EXCEPT ![w.cmd] = Holding(frame)]
                      /\ backlog' = fresh
             ELSE /\ ackWaiters' = Remaining(frame, Len(ackWaiters))
                  /\ backlog' = Stored(fresh, frame)
                  /\ UNCHANGED ackFut
        /\ UNCHANGED <<responseWaiters, respFut, generation>>

ResolveResponse(frame) ==
    LET matching == {i \in DOMAIN responseWaiters :
                        /\ responseWaiters[i].gen = generation
                        /\ reqKey[responseWaiters[i].cmd] = frame.key}
        i == Earliest(matching)
        c == responseWaiters[i].cmd
        current == {j \in DOMAIN responseWaiters : responseWaiters[j].gen = generation}
    IN  /\ IF matching # {}
             THEN /\ responseWaiters' = Part(responseWaiters,
                        {j \in DOMAIN responseWaiters : j # i /\ (j < i => j \in current)})
                  /\ respFut' = IF respFut[c].state = "pending"
                                THEN [respFut EXCEPT ![c] = Holding(frame)]
                                ELSE respFut
             ELSE /\ responseWaiters' = Part(responseWaiters, current)
                  /\ UNCHANGED respFut
        /\ UNCHANGED <<ackWaiters, ackFut, backlog, generation>>
=============================================================================
