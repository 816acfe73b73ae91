---------------------------- MODULE TrackedSend ----------------------------
(***************************************************************************)
(* The sending side of an open IcomTransport (core/transport.py): numbers, *)
(* the buffer of sent packets, and what is resent when the radio asks.     *)
(* Packets are counted from 0, without wrap; the k-th carries the number   *)
(* k % SendSeqMod.                                                         *)
(***************************************************************************)
EXTENDS Integers, FiniteSets

CONSTANTS SendSeqMod,   \* 2^16 in the code
          BufSize,      \* BUFSIZE, 500
          MaxOut        \* bound: packets sent

ASSUME SendAssumption == SendSeqMod \in Nat \ {0} /\ BufSize \in Nat \ {0} /\ MaxOut \in Nat

VARIABLES
    sendSeq,    \* send_seq
    txBuffer,   \* tx_buffer, as <<number, packet>>
    sent,       \* history: how many packets have been sent
    lastAsk     \* history: the packets the radio asked for last, and those resent

sendVars == <<sendSeq, txBuffer, sent, lastAsk>>

NoAsk == [asked |-> {}, resent |-> {}]

SendInit == sendSeq = 0 /\ txBuffer = {} /\ sent = 0 /\ lastAsk = NoAsk

\* popitem(last=False): entries are in the order of their packets.
Oldest(entries) == CHOOSE e \in entries : \A f \in entries : e[2] <= f[2]

\* Mutant: a full buffer drops its newest entry.
BufferKeepsOldest(s, n) ==
    LET kept == IF s = 0 THEN {} ELSE {e \in txBuffer : e[1] # s}
        last == CHOOSE e \in kept : \A f \in kept : f[2] <= e[2]
        room == IF Cardinality(kept) >= BufSize THEN kept \ {last} ELSE kept
    IN  room \union {<<s, n>>}

\* _track_sent: the buffer starts anew with number 0 and drops its oldest entry.
BufferAfter(s, n) ==
    LET kept == IF s = 0 THEN {} ELSE {e \in txBuffer : e[1] # s}
        room == IF Cardinality(kept) >= BufSize THEN kept \ {Oldest(kept)} ELSE kept
    IN  room \union {<<s, n>>}

\* send_tracked(), for a command or by _idle_loop.
SendTracked ==
    /\ sent < MaxOut
    /\ sendSeq' = (sendSeq + 1) % SendSeqMod
    /\ txBuffer' = BufferAfter(sendSeq, sent)
    /\ sent' = sent + 1
    /\ lastAsk' = NoAsk

\* What is resent for a request of the numbers in S.
Resent(S) == {e[2] : e \in {f \in txBuffer : f[1] \in S}}

\* The radio asks again for packets it did not get, one or several.
RadioAsks(S) ==
    /\ S # {}
    /\ lastAsk' = [asked |-> S, resent |-> Resent({n % SendSeqMod : n \in S})]
    /\ UNCHANGED <<sendSeq, txBuffer, sent>>

SendNext == SendTracked \/ \E S \in SUBSET (0..(sent - 1)) : RadioAsks(S)

SendSpec == SendInit /\ [][SendNext]_sendVars

\* A request for one of the last BUFSIZE packets since number 0 is answered with
\* that packet, and nothing is resent that is not among the last BUFSIZE:
\* numbers that come round again never bring back a packet of an earlier round.
RightPacketResent ==
    /\ \A n \in lastAsk.asked :
         n >= sent - BufSize /\ n \div SendSeqMod = (sent - 1) \div SendSeqMod => n \in lastAsk.resent
    /\ \A n \in lastAsk.resent : n >= sent - BufSize
=============================================================================
