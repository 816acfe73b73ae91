---------------------------- MODULE JitterBuffer ----------------------------
(* The jitter buffer of the audio stream (audio/lan_stream.py): packets    *)
(* that arrive out of order, twice or never are played in the order of     *)
(* their numbers, which wrap.                                              *)
(***************************************************************************)
EXTENDS Integers, FiniteSets, FiniteSetsExt

CONSTANTS AudioSeqMod,   \* 2^16
          Depth,         \* packets held before delivery
          FirstAudio,    \* bounds: the place of the first packet sent
          LastAudio,     \*         and of the last
          Displaced      \* bound: how far a packet arrives before or after its place

ASSUME JitterSizes ==
    /\ AudioSeqMod \in Nat \ {0} /\ Depth \in Nat \ {0} /\ Displaced \in Nat \ {0}
    /\ FirstAudio \in Int /\ LastAudio \in Int
    \* No packet is so far from its place that its number is taken for another's,
    /\ Depth * Displaced <= AudioSeqMod \div 2
    /\ Displaced + 1 < AudioSeqMod - (AudioSeqMod \div 2)
    \* and the packets held span no more than a flush delivers.
    /\ (Depth - 1) * Displaced <= (5 * Depth) + 1

VARIABLES
    came,      \* history: the packets that have come, by their place in the stream
    held,      \* _buffer
    next,      \* _next_seq
    begun,     \* _next_seq is not None
    stopped,   \* the stream has ended
    origin,    \* history: the place of the first packet that came
    outputs,   \* history: packets and gaps delivered
    played,    \* history: <<packet, its place in the output>>
    late,      \* history: packets refused as too old
    lost       \* history: packets the flush at the end dropped

jitterAll == <<came, held, next, begun, stopped, origin, outputs, played, late, lost>>

JitterInit ==
    /\ came = {} /\ held = {} /\ next = 0 /\ begun = FALSE /\ stopped = FALSE
    /\ origin = 0 /\ outputs = 0 /\ played = {} /\ late = {} /\ lost = {}

NumberOf(p) == p % AudioSeqMod
HalfRound   == AudioSeqMod \div 2
MaxHeld     == 4 * Depth

\* How far a packet's number is ahead of n.
Ahead(p, n) == (NumberOf(p) - n + AudioSeqMod) % AudioSeqMod

\* Mutant: nothing is too old.
NeverBehind(p, n) == FALSE

Behind(p, n) == Ahead(p, n) > HalfRound

\* Where _deliver() ends, counted from n: the first number that is missing and that
\* too few packets are ahead of to call it lost.
Deliverable(h, n) ==
    LET D == { Ahead(p, n) : p \in h }
    IN  Min({ k \in 0..AudioSeqMod : /\ k \notin D
                                     /\ Cardinality({ d \in D : d > k /\ d - k < HalfRound }) < Depth })

\* Where _flush_all() ends: behind the largest number held, which is not the
\* last packet when the numbers wrap.
Flushable(h, n) ==
    IF h = {} THEN 0
    ELSE Min({ (Max({ NumberOf(p) : p \in h }) + 1 - n + AudioSeqMod) % AudioSeqMod, MaxHeld + Depth + 1 })

\* count numbers from n on are delivered, each as its packet or as a gap; what is
\* not kept is dropped.
Deliver(h, n, count, keeps) ==
    /\ next' = (n + count) % AudioSeqMod /\ outputs' = outputs + count
    /\ LET out == { p \in h : Ahead(p, n) < count }
       IN  /\ played' = played \union { <<p, outputs + Ahead(p, n)>> : p \in out }
           /\ held' = IF keeps THEN h \ out ELSE {}
           /\ lost' = IF keeps THEN lost ELSE lost \union (h \ out)

\* push() of a packet of which the network may make two.
Push(p) ==
    LET n == IF begun THEN next ELSE NumberOf(p)
        h == held \union {p}
    IN  /\ ~stopped
        /\ \A q \in came : p >= q - Displaced
        /\ p <= Max(came \union {FirstAudio}) + Displaced
        /\ came' = came \union {p} /\ begun' = TRUE
        /\ origin' = IF begun THEN origin ELSE p
        /\ late' = IF p \notin held /\ Behind(p, n) THEN late \union {p} ELSE late
        /\ IF NumberOf(p) \in { NumberOf(q) : q \in held } \/ Behind(p, n)
           THEN next' = n /\ UNCHANGED <<held, outputs, played, lost>>
           ELSE IF Cardinality(h) > MaxHeld THEN Deliver(h, n, Flushable(h, n), FALSE)
           ELSE Deliver(h, n, IF Cardinality(h) < Depth THEN 0 ELSE Deliverable(h, n), TRUE)
        /\ UNCHANGED stopped

\* stop_rx(): flush().
Stop ==
    /\ begun /\ ~stopped /\ stopped' = TRUE
    /\ Deliver(held, next, Flushable(held, next), FALSE)
    /\ UNCHANGED <<came, begun, origin, late>>

JitterNext == (\E p \in FirstAudio..LastAudio : Push(p)) \/ Stop

JitterSpec == JitterInit /\ [][JitterNext]_jitterAll

-----------------------------------------------------------------------------
(* Properties.                                                             *)

JitterTypeOK ==
    /\ held \subseteq came /\ came \subseteq FirstAudio..LastAudio
    /\ next \in 0..AudioSeqMod - 1 /\ Cardinality(held) <= MaxHeld

\* Every packet that is not too late is played once, at its own place, whatever
\* the network does to the order and wherever the numbers wrap; only the flush
\* that ends the stream can drop a packet, one whose number has wrapped.
PlayedInPlace ==
    /\ \A x \in played : x[1] = origin + x[2]
    /\ \A x, y \in played : x # y => x[1] # y[1]
    /\ came = held \union lost \union late \union { x[1] : x \in played }
    /\ \A p \in late : p < origin + outputs
    /\ lost # {} => \E x \in played, p \in lost : x[1] \div AudioSeqMod < p \div AudioSeqMod
=============================================================================
