--------------------------- MODULE IcomTransport ---------------------------
(***************************************************************************)
(* One UDP connection to the radio (core/transport.py): the discovery      *)
(* handshake, the sequence numbers of what arrives, the requests for       *)
(* retransmission, and the bounded queue between the socket and its        *)
(* reader.  One action is one callback of the event loop.                  *)
(*                                                                         *)
(* The radio and the network are external: the radio numbers its packets   *)
(* consecutively from any number, the network loses, duplicates and        *)
(* reorders them.  Packets are counted from 1, without wrap; what the code *)
(* sees of the k-th is WireSeq(k).                                         *)
(***************************************************************************)
EXTENDS Integers, Sequences, FiniteSets, Functions

CONSTANTS WireMod,      \* 2^16 in the code
          MaxMissing,   \* MAX_MISSING, 50
          MaxRetries,   \* the 4 of _retransmit_loop
          QueueSize,    \* PACKET_QUEUE_MAXSIZE, 4096
          Attempts,     \* DISCOVERY_RETRIES, 10
          ReadyReads,   \* the 5 of _ready_handshake
          FirstNumbers, \* where a radio may begin to count
          Traffic,      \* what the radio sends in a connection, in this order
          MaxReplies, MaxSessions  \* bounds: handshake replies, connections

ASSUME SizesAssumption ==
    /\ WireMod \in Nat /\ WireMod % 2 = 0 /\ MaxMissing \in 1..(WireMod \div 2 - 1)
    /\ QueueSize \in Nat \ {0} /\ FirstNumbers \subseteq 0..(WireMod - 1)
    /\ MaxRetries \in Nat /\ Attempts \in Nat \ {0} /\ ReadyReads \in Nat \ {0}
    /\ Traffic \in Seq({"scope", "civ"}) /\ MaxReplies \in Nat /\ MaxSessions \in Nat

VARIABLES
    state,      \* state: "disconnected" or "connecting" (see the README on "connected")
    phase,      \* the await connect() is suspended at: none, discover, ready; open after it
    reads,      \* packets and timeouts the handshake loop has used up
    remoteKnown,\* remote_id # 0
    discard,    \* _discard_data_packets
    queue,      \* _packet_queue
    rxLast,     \* rx_last_seq
    rxMissing,  \* rx_missing: sequence number -> requests sent
    emitted,    \* how many packets the radio has sent in this connection
    first,      \* the number before the radio's first
    net,        \* packets under way; a lost one stays there
    replies,    \* handshake replies so far
    arrived,    \* history: packets that reached us
    base,       \* history: the packet that set rx_last_seq first
    gaveUp,     \* history: packets that are no longer asked for
    session     \* history: the number of the connection

rxVars   == <<rxLast, rxMissing, arrived, base, gaveUp>>
radioVars == <<emitted, first, net, replies>>
linkVars == <<state, phase, reads, remoteKnown, discard, session>>
vars     == <<linkVars, queue, rxVars, radioVars>>

NoSeq == -1
Seqs  == 0..(WireMod - 1)
Half  == WireMod \div 2
Empty == [s \in {} |-> 0]
Newest(S) == CHOOSE k \in S : \A j \in S : j <= k

\* The number on the k-th packet of the radio.
WireSeq(k) == (first + k) % WireMod

\* Packets of the radio that went through _record_rx_seq: number 0 does not.
Tracked  == {k \in arrived : WireSeq(k) # 0}

Data  == {"scope", "civ"}
Reply == {"i_am_here", "ready"}

-----------------------------------------------------------------------------
Init ==
    /\ state = "disconnected" /\ phase = "none" /\ reads = 0 /\ session = 0
    /\ remoteKnown = FALSE /\ discard = FALSE
    /\ queue = <<>>
    /\ rxLast = NoSeq /\ rxMissing = Empty
    /\ emitted = 0 /\ first \in FirstNumbers /\ net = {} /\ replies = 0
    /\ arrived = {} /\ base = 0 /\ gaveUp = {}

\* connect(), which always discovers, or reconnect(), which does not when it
\* knows its radio.  Nothing is reset: queue, rx_last_seq and rx_missing stay.
Connect ==
    /\ state = "disconnected" /\ phase = "none" /\ session < MaxSessions
    /\ state' = "connecting"
    /\ phase' \in {"discover"} \union (IF remoteKnown THEN {"ready"} ELSE {})
    /\ reads' = 0 /\ discard' = FALSE /\ session' = session + 1
    /\ UNCHANGED <<remoteKnown, queue, rxVars, radioVars>>

\* The packet that the next read of the handshake takes.
Heard(p) == queue # <<>> /\ Head(queue) = p

\* One round of _discover(): the next packet, whatever it is, or a timeout.
Discover ==
    /\ phase = "discover"
    /\ queue' = IF queue = <<>> THEN queue ELSE Tail(queue)
    /\ IF Heard("i_am_here")
       THEN phase' = "ready" /\ reads' = 0 /\ remoteKnown' = TRUE
       ELSE /\ reads' = reads + 1
            /\ phase' = IF reads' = Attempts THEN "failed" ELSE "discover"
            /\ UNCHANGED remoteKnown
    /\ UNCHANGED <<state, discard, session, rxVars, radioVars>>

\* One round of _ready_handshake(), which ends well in every case; the caller
\* starts the loops, and on the control port stops queueing data packets.
Ready ==
    /\ phase = "ready"
    /\ queue' = IF queue = <<>> THEN queue ELSE Tail(queue)
    /\ reads' = reads + 1
    /\ phase' = IF queue = <<>> \/ Heard("ready") \/ reads' = ReadyReads THEN "open" ELSE "ready"
    /\ discard' \in (IF phase' = "open" THEN BOOLEAN ELSE {discard})
    /\ UNCHANGED <<state, remoteKnown, session, rxVars, radioVars>>

\* disconnect(), of an open connection or by the caller of a failed connect().
\* With the next connection the radio numbers its packets anew.
Disconnect ==
    /\ phase \in {"open", "failed"}
    /\ state' = "disconnected" /\ phase' = "none" /\ reads' = 0
    /\ first' \in FirstNumbers /\ emitted' = 0 /\ net' = {} /\ replies' = 0
    /\ arrived' = {} /\ base' = 0 /\ gaveUp' = {}
    /\ UNCHANGED <<remoteKnown, discard, session, queue, rxLast, rxMissing>>

-----------------------------------------------------------------------------
(* What arrives: _handle_packet and its handlers.                          *)

\* Mutant: the bound is not tested.
QueuedAlways(p) == Append(queue, p)

\* The queueing part of _handle_data_packet: a full queue drops a scope
\* packet and makes room for any other by dropping its oldest.
Queued(p) ==
    IF Len(queue) < QueueSize THEN Append(queue, p)
    ELSE IF p = "scope" THEN queue
    ELSE Append(Tail(queue), p)

WithoutSeq(s) == Restrict(rxMissing, DOMAIN rxMissing \ {s})

\* rx_missing and rx_last_seq after number s: _record_rx_seq.
Delta(s) == (s - rxLast) % WireMod
Forward(s) == rxLast # NoSeq /\ Delta(s) \in 1..(Half - 1)

LastAfter(s) == IF rxLast = NoSeq \/ Forward(s) THEN s ELSE rxLast

\* Mutant: the gap ends one short.
SkippedShort(s) == {(rxLast + o) % WireMod : o \in 1..(Delta(s) - 2)}

Skipped(s) == {(rxLast + o) % WireMod : o \in 1..(Delta(s) - 1)}

MissingAfter(s) ==
    IF ~Forward(s) THEN WithoutSeq(s)
    ELSE IF Delta(s) > MaxMissing THEN Empty
    ELSE [m \in (DOMAIN rxMissing \ {s}) \union Skipped(s) |->
            IF m \in DOMAIN rxMissing THEN rxMissing[m] ELSE 0]

\* A large gap ends the search for everything older.
GaveUpAfter(k) ==
    IF Forward(WireSeq(k)) /\ Delta(WireSeq(k)) > MaxMissing
    THEN gaveUp \union {j \in 1..k : j \notin arrived}
    ELSE gaveUp

\* The network keeps every packet within half the sequence space of the
\* newest one: older and further ones are lost.
InWindow(k) == Tracked # {} => k - Newest(Tracked) \in (1 - Half)..(Half - 1)

\* A data packet arrives; a duplicate stays under way.
Receive(k) ==
    /\ state # "disconnected" /\ k \in net /\ InWindow(k)
    /\ net' \in {net, net \ {k}}
    /\ arrived' = arrived \union {k}
    /\ IF WireSeq(k) = 0 THEN UNCHANGED <<rxLast, rxMissing, base, gaveUp>>
       ELSE /\ rxLast' = LastAfter(WireSeq(k))
            /\ rxMissing' = MissingAfter(WireSeq(k))
            /\ base' = IF rxLast = NoSeq THEN k ELSE base
            /\ gaveUp' = GaveUpAfter(k)
    /\ queue' = IF discard THEN queue ELSE Queued(Traffic[k])
    /\ remoteKnown' = (remoteKnown \/ ~discard)
    /\ UNCHANGED <<state, phase, reads, discard, session, emitted, first, replies>>

\* A handshake reply arrives: it has no number, and is queued like data.
ReceiveReply(p) ==
    /\ state # "disconnected" /\ replies < MaxReplies
    /\ p = (IF phase = "discover" THEN "i_am_here" ELSE "ready")
    /\ replies' = replies + 1
    /\ queue' = Queued(p)
    /\ remoteKnown' = TRUE
    /\ UNCHANGED <<state, phase, reads, discard, session, rxVars, emitted, first, net>>

-----------------------------------------------------------------------------
(* The retransmit loop and the reader.                                     *)

\* Mutant: the requests go on for ever (with the count stopped at its maximum).
CountedAgain(r) == [s \in DOMAIN r |-> IF r[s] < MaxRetries THEN r[s] + 1 ELSE r[s]]

\* The retry counters after a round: a number that had its last request is dropped.
Counted(r) == [s \in {m \in DOMAIN r : r[m] < MaxRetries} |-> r[s] + 1]

\* One period of _retransmit_loop: everything missing is asked for, and given
\* up after MaxRetries + 1 requests.  The radio resends what it likes.
RetransmitTick ==
    /\ phase = "open" /\ DOMAIN rxMissing # {}
    /\ LET asked == {k \in 1..emitted : WireSeq(k) \in DOMAIN rxMissing}
       IN  /\ \E R \in SUBSET asked : net' = net \union R
           /\ rxMissing' = Counted(rxMissing)
           /\ gaveUp' = gaveUp \union {k \in asked : WireSeq(k) \notin DOMAIN rxMissing'}
    /\ UNCHANGED <<linkVars, queue, rxLast, arrived, base, emitted, first, replies>>

\* receive_packet() of the reader.
Read ==
    /\ phase = "open" /\ queue # <<>>
    /\ queue' = Tail(queue)
    /\ UNCHANGED <<linkVars, rxVars, radioVars>>

-----------------------------------------------------------------------------
(* The radio.                                                              *)

RadioSends ==
    /\ phase \in {"ready", "open"} /\ emitted < Len(Traffic)
    /\ emitted' = emitted + 1
    /\ net' = net \union {emitted'}
    /\ UNCHANGED <<linkVars, queue, rxVars, first, replies>>

Next ==
    \/ Connect \/ Discover \/ Ready \/ Disconnect
    \/ \E k \in DOMAIN Traffic : Receive(k)
    \/ \E p \in Reply : ReceiveReply(p)
    \/ RetransmitTick \/ Read
    \/ RadioSends

Spec == Init /\ [][Next]_vars

-----------------------------------------------------------------------------
(* Properties.                                                             *)

\* Types; in particular rx_missing holds numbers of the sequence space with
\* at most MaxRetries requests, and the queue keeps its bound.
TransportTypeOK ==
    /\ state \in {"disconnected", "connecting"}
    /\ phase \in {"none", "discover", "ready", "open", "failed"}
    /\ reads \in 0..(Attempts + ReadyReads) /\ session \in 0..MaxSessions
    /\ remoteKnown \in BOOLEAN /\ discard \in BOOLEAN
    /\ queue \in Seq(Data \union Reply) /\ Len(queue) <= QueueSize
    /\ rxLast \in Seqs \union {NoSeq}
    /\ DOMAIN rxMissing \subseteq Seqs /\ \A s \in DOMAIN rxMissing : rxMissing[s] \in 0..MaxRetries

\* In the first connection (a second starts from the rx_last_seq of the first):
\* losses, duplicates, reordering and the wrap of the numbers hide no gap, since
\* a packet of the radio between the first recorded one and the newest has
\* arrived, is asked for, or was given up after all its requests or by a gap
\* above MAX_MISSING; and nothing is asked for that has arrived, except the packet
\* numbered 0, which _handle_data_packet does not record.
MissingExactly ==
    session = 1 =>
        /\ Tracked # {} =>
              \A k \in 1..emitted :
                  base < k /\ k < Newest(Tracked) =>
                      k \in arrived \/ k \in gaveUp \/ WireSeq(k) \in DOMAIN rxMissing
        /\ \A k \in arrived : WireSeq(k) \in DOMAIN rxMissing /\ InWindow(k) => WireSeq(k) = 0

\* While the connection is open, what is missing is filled or given up.
MissingEnds == <>[](phase # "open" \/ DOMAIN rxMissing = {})

\* The loop runs as long as the connection is open.
FairSpec == Spec /\ WF_vars(RetransmitTick)
=============================================================================
