------------------------ MODULE IcomTransport_proofs ------------------------
(***************************************************************************)
(* Proofs about IcomTransport: in a connection of fewer packets than there *)
(* are numbers (2^16), which may begin and so wrap anywhere, the search    *)
(* for missing packets is exact, for any limit on gaps and on requests and *)
(* any size of the queue.                                                  *)
(*                                                                         *)
(* rx_last_seq is the number of the newest packet that was recorded        *)
(* (Follows); every packet between the first one and it has arrived, is    *)
(* asked for or was given up (NothingHidden); and what has arrived is not  *)
(* asked for (NothingTwice).                                               *)
(***************************************************************************)
EXTENDS IcomTransport, TrackedSend, FiniteSetTheorems, TLAPS

\* Fewer packets than numbers: a number names one packet.
OneRound == Len(Traffic) < WireMod

Types ==
    /\ emitted \in 0..Len(Traffic) /\ first \in Seqs
    /\ net \subseteq 1..emitted /\ arrived \subseteq 1..emitted
    /\ base \in Nat
    /\ rxLast \in Seqs \union {NoSeq}

IsNewest(n) == n \in Tracked /\ \A j \in Tracked : j <= n

Follows ==
    /\ rxLast = NoSeq => Tracked = {} /\ rxMissing = Empty
    /\ rxLast # NoSeq => \E n \in Tracked : IsNewest(n) /\ rxLast = WireSeq(n)

NothingHidden ==
    \A n \in Tracked : IsNewest(n) =>
        \A k \in 1..emitted :
            base < k /\ k < n => k \in arrived \/ k \in gaveUp \/ WireSeq(k) \in DOMAIN rxMissing

NothingTwice == \A k \in arrived : WireSeq(k) \in DOMAIN rxMissing => WireSeq(k) = 0

\* Before the first connection, in it, and after it.
Unused == state = "disconnected" /\ rxLast = NoSeq /\ rxMissing = Empty /\ arrived = {} /\ net = {}
            /\ emitted = 0 /\ first \in Seqs /\ base = 0
FirstOne == session = 1 /\ state # "disconnected" /\ Types /\ Follows /\ NothingHidden /\ NothingTwice
Over == session = 1 /\ state = "disconnected" /\ arrived = {}

LinkInv ==
    /\ session \in Nat
    /\ phase = "none" <=> state = "disconnected"
    /\ session = 0 => Unused
    /\ session = 1 => FirstOne \/ Over

-----------------------------------------------------------------------------
(* Numbers.                                                                *)

\* The sizes, as numbers.
LEMMA Sizes ==
    /\ WireMod \in Nat /\ WireMod # 0 /\ Half \in Nat /\ WireMod = 2 * Half /\ Half > 1
    /\ Len(Traffic) \in Nat
<1>1. WireMod \in Nat /\ WireMod % 2 = 0 /\ MaxMissing \in 1..((WireMod \div 2) - 1)
  BY SizesAssumption
<1>2. WireMod = 2 * (WireMod \div 2) + (WireMod % 2) /\ WireMod \div 2 \in Nat
  BY <1>1
<1>3. WireMod \div 2 > 1
  BY <1>1, <1>2
<1>4. Len(Traffic) \in Nat
  BY SizesAssumption
<1>. QED
  BY <1>1, <1>2, <1>3, <1>4 DEF Half

\* Multiples of M that differ by less than M are one.
LEMMA OneMultiple ==
    ASSUME NEW M \in Nat \ {0}, NEW d \in Int, M * d \in (1 - M)..(M - 1)
    PROVE  d = 0
OBVIOUS

\* A number is its quotient's multiple and its remainder.
LEMMA Remainder ==
    ASSUME NEW M \in Nat \ {0}, NEW a \in Int
    PROVE  a = M * (a \div M) + (a % M) /\ a % M \in 0..(M - 1) /\ a \div M \in Int
OBVIOUS

\* A number names one packet of the connection.
LEMMA NumbersDiffer ==
    ASSUME NEW M \in Nat \ {0}, NEW a \in Int, NEW b \in Int, a - b \in (1 - M)..(M - 1), a % M = b % M
    PROVE  a = b
<1>1. a = M * (a \div M) + (a % M) /\ b = M * (b \div M) + (b % M) /\ a \div M \in Int /\ b \div M \in Int
      /\ a % M \in Int
  BY Remainder
<1>2. M * ((a \div M) - (b \div M)) = a - b
  BY <1>1
<1>3. (a \div M) - (b \div M) = 0
  BY <1>1, <1>2, OneMultiple
<1>. QED
  BY <1>1, <1>3

\* The difference of two numbers is that of what they number, if it is small.
LEMMA SmallDifference ==
    ASSUME NEW M \in Nat \ {0}, NEW a \in Int, NEW b \in Int, a - b \in 0..(M - 1)
    PROVE  ((a % M) - (b % M)) % M = a - b
<1>1. a = M * (a \div M) + (a % M) /\ b = M * (b \div M) + (b % M) /\ a \div M \in Int /\ b \div M \in Int
      /\ a % M \in 0..(M - 1) /\ b % M \in 0..(M - 1)
  BY Remainder
<1>. DEFINE c == (a % M) - (b % M)
<1>2. c \in Int /\ c = M * (c \div M) + (c % M) /\ c % M \in 0..(M - 1) /\ c \div M \in Int
  <2>1. c \in Int
    BY <1>1
  <2>. HIDE DEF c
  <2>. QED
    BY <2>1, Remainder
<1>3. M * (((a \div M) - (b \div M)) + (c \div M)) = (a - b) - (c % M)
  BY <1>1, <1>2
<1>4. ((a \div M) - (b \div M)) + (c \div M) = 0
  BY <1>1, <1>2, <1>3, OneMultiple
<1>. QED
  BY <1>1, <1>2, <1>3, <1>4

\* The distance back to a number less than a round ago.
LEMMA SmallBack ==
    ASSUME NEW M \in Nat \ {0}, NEW a \in Int, NEW b \in Int, b - a \in 1..(M - 1)
    PROVE  ((a % M) - (b % M)) % M = M - (b - a)
<1>1. a = M * (a \div M) + (a % M) /\ b = M * (b \div M) + (b % M) /\ a \div M \in Int /\ b \div M \in Int
      /\ a % M \in 0..(M - 1) /\ b % M \in 0..(M - 1)
  BY Remainder
<1>. DEFINE c == (a % M) - (b % M)
<1>2. c \in Int /\ c = M * (c \div M) + (c % M) /\ c % M \in 0..(M - 1) /\ c \div M \in Int
  <2>1. c \in Int
    BY <1>1
  <2>. HIDE DEF c
  <2>. QED
    BY <2>1, Remainder
<1>3. M * (((a \div M) - (b \div M)) + (c \div M) + 1) = (M - (b - a)) - (c % M)
  BY <1>1, <1>2
<1>4. ((a \div M) - (b \div M)) + (c \div M) + 1 = 0
  BY <1>1, <1>2, <1>3, OneMultiple
<1>. QED
  BY <1>1, <1>2, <1>3, <1>4

\* Counting on from a number.
LEMMA CountOn ==
    ASSUME NEW M \in Nat \ {0}, NEW a \in Int, NEW o \in Int
    PROVE  ((a % M) + o) % M = (a + o) % M
<1>1. a = M * (a \div M) + (a % M) /\ a \div M \in Int /\ a % M \in Int
  BY Remainder
<1>. DEFINE c == (a % M) + o
            e == a + o
<1>2. c \in Int /\ c = M * (c \div M) + (c % M) /\ c % M \in 0..(M - 1) /\ c \div M \in Int
  <2>1. c \in Int
    BY <1>1
  <2>. HIDE DEF c
  <2>. QED
    BY <2>1, Remainder
<1>3. e \in Int /\ e = M * (e \div M) + (e % M) /\ e % M \in 0..(M - 1) /\ e \div M \in Int
  BY Remainder
<1>4. M * ((a \div M) + (c \div M) - (e \div M)) = (e % M) - (c % M)
  BY <1>1, <1>2, <1>3
<1>5. (a \div M) + (c \div M) - (e \div M) = 0
  BY <1>1, <1>2, <1>3, <1>4, OneMultiple
<1>. QED
  BY <1>2, <1>3, <1>4, <1>5

-----------------------------------------------------------------------------
(* Numbers of packets of the connection.                                   *)

\* Within a round, a number names one packet.
LEMMA NamesOne ==
    ASSUME OneRound, first \in Seqs, emitted \in 0..Len(Traffic), NEW i \in 1..emitted, NEW j \in 1..emitted,
           WireSeq(i) = WireSeq(j)
    PROVE  i = j
<1>1. WireMod \in Nat \ {0} /\ Len(Traffic) \in Nat /\ first \in Int
  BY Sizes DEF Seqs
<1>2. (first + i) - (first + j) \in (1 - WireMod)..(WireMod - 1) /\ first + i \in Int /\ first + j \in Int
  BY <1>1 DEF OneRound
<1>3. (first + i) % WireMod = (first + j) % WireMod
  BY DEF WireSeq
<1>4. first + i = first + j
  BY <1>1, <1>2, <1>3, NumbersDiffer
<1>. QED
  BY <1>1, <1>4

\* How far a packet is from the newest one, k before or behind n.
LEMMA Distance ==
    ASSUME first \in Seqs, NEW n \in Nat, NEW k \in Nat, k - n \in (1 - Half)..(Half - 1),
           rxLast = WireSeq(n)
    PROVE  /\ rxLast # NoSeq /\ rxLast \in Seqs /\ WireSeq(k) \in Seqs
           /\ Forward(WireSeq(k)) <=> k > n
           /\ k > n => Delta(WireSeq(k)) = k - n
<1>1. WireMod \in Nat \ {0} /\ first \in Int /\ Half \in Nat /\ WireMod = 2 * Half
  BY Sizes DEF Seqs
<1>. DEFINE a == first + k
            b == first + n
<1>2. a \in Int /\ b \in Int /\ a - b = k - n /\ b - a = n - k
  BY <1>1
<1>3. WireSeq(k) = a % WireMod /\ rxLast = b % WireMod
  BY DEF WireSeq
<1>4. a % WireMod \in 0..(WireMod - 1) /\ b % WireMod \in 0..(WireMod - 1)
  BY <1>1, <1>2, Remainder
<1>5. rxLast # NoSeq /\ rxLast \in Seqs /\ WireSeq(k) \in Seqs
  BY <1>3, <1>4 DEF Seqs, NoSeq
<1>6. CASE k >= n
  <2>1. a - b \in 0..(WireMod - 1)
    BY <1>1, <1>2, <1>6
  <2>2. ((a % WireMod) - (b % WireMod)) % WireMod = a - b
    <3>. HIDE DEF a, b
    <3>. QED
      BY <1>1, <1>2, <2>1, SmallDifference
  <2>3. Delta(WireSeq(k)) = k - n
    BY <1>2, <1>3, <2>2 DEF Delta
  <2>4. Forward(WireSeq(k)) <=> k > n
    BY <1>1, <1>5, <1>6, <2>3 DEF Forward
  <2>. QED
    BY <1>5, <2>3, <2>4
<1>7. CASE k < n
  <2>1. b - a \in 1..(WireMod - 1)
    BY <1>1, <1>2, <1>7
  <2>2. ((a % WireMod) - (b % WireMod)) % WireMod = WireMod - (b - a)
    <3>. HIDE DEF a, b
    <3>. QED
      BY <1>1, <1>2, <2>1, SmallBack
  <2>3. Delta(WireSeq(k)) = WireMod - (n - k)
    BY <1>2, <1>3, <2>2 DEF Delta
  <2>4. ~Forward(WireSeq(k))
    BY <1>1, <1>7, <2>3 DEF Forward
  <2>. QED
    BY <1>5, <1>7, <2>4
<1>. QED
  BY <1>6, <1>7

\* What a packet makes missing are the numbers between it and the newest one.
LEMMA SkippedNumbers ==
    ASSUME first \in Seqs, NEW n \in Nat, NEW k \in Nat, k > n, rxLast = WireSeq(n), Delta(WireSeq(k)) = k - n
    PROVE  /\ \A j \in (n + 1)..(k - 1) : WireSeq(j) \in Skipped(WireSeq(k))
           /\ \A s \in Skipped(WireSeq(k)) : \E j \in (n + 1)..(k - 1) : s = WireSeq(j)
<1>1. WireMod \in Nat \ {0} /\ first \in Int
  BY Sizes DEF Seqs
<1>2. Skipped(WireSeq(k)) = {(rxLast + o) % WireMod : o \in 1..(k - n - 1)}
  BY DEF Skipped
<1>3. ASSUME NEW o \in Int PROVE (rxLast + o) % WireMod = WireSeq(n + o)
  <2>1. (((first + n) % WireMod) + o) % WireMod = ((first + n) + o) % WireMod
    <3>1. first + n \in Int
      BY <1>1
    <3>. QED
      BY <1>1, <3>1, CountOn
  <2>2. (first + n) + o = first + (n + o)
    BY <1>1
  <2>. QED
    BY <2>1, <2>2 DEF WireSeq
<1>4. ASSUME NEW j \in (n + 1)..(k - 1) PROVE WireSeq(j) \in Skipped(WireSeq(k))
  <2>1. j - n \in 1..(k - n - 1) /\ n + (j - n) = j
    OBVIOUS
  <2>2. (rxLast + (j - n)) % WireMod = WireSeq(j)
    BY <1>3, <2>1
  <2>. QED
    BY <1>2, <2>1, <2>2
<1>5. ASSUME NEW s \in Skipped(WireSeq(k)) PROVE \E j \in (n + 1)..(k - 1) : s = WireSeq(j)
  <2>1. PICK o \in 1..(k - n - 1) : s = (rxLast + o) % WireMod
    BY <1>2
  <2>2. n + o \in (n + 1)..(k - 1) /\ s = WireSeq(n + o)
    BY <1>3, <2>1
  <2>. QED
    BY <2>2
<1>. QED
  BY <1>4, <1>5

\* The newest packet, and that there is one only.
LEMMA NewestIs ==
    ASSUME Types, NEW n, IsNewest(n)
    PROVE  n \in Nat /\ Newest(Tracked) = n /\ \A m : IsNewest(m) => m = n
<1>1. \A j \in Tracked : j \in Nat
  BY Sizes DEF Types, Tracked
<1>2. n \in Tracked /\ \A j \in Tracked : j <= n
  BY DEF IsNewest
<1>3. \A m : m \in Tracked /\ (\A j \in Tracked : j <= m) => m = n
  BY <1>1, <1>2
<1>. QED
  BY <1>1, <1>2, <1>3 DEF Newest, IsNewest

-----------------------------------------------------------------------------
(* A packet arrives in the first connection.                               *)

\* What every arrival leaves as it was.
Arrived(k) ==
    /\ k \in net /\ net' \subseteq net /\ arrived' = arrived \union {k}
    /\ UNCHANGED <<session, emitted, first, state, phase>>

\* Number 0 is left alone.
LEMMA NumberZero ==
    ASSUME FirstOne, NEW k, Arrived(k), WireSeq(k) = 0, UNCHANGED <<rxLast, rxMissing, base, gaveUp>>
    PROVE  FirstOne'
<1>1. k \in 1..emitted /\ Types'
  BY DEF FirstOne, Types, Arrived
<1>2. \A j : WireSeq(j)' = WireSeq(j)
  BY DEF WireSeq, Arrived
<1>3. Tracked' = Tracked
  BY <1>2 DEF Tracked, Arrived
<1>4. \A n : IsNewest(n)' <=> IsNewest(n)
  BY <1>3 DEF IsNewest
<1>5. Follows'
  BY <1>2, <1>3, <1>4 DEF FirstOne, Follows
<1>6. NothingHidden'
  BY <1>2, <1>3, <1>4 DEF FirstOne, NothingHidden, Arrived
<1>7. NothingTwice'
  BY <1>2 DEF FirstOne, NothingTwice, Arrived
<1>. QED
  BY <1>1, <1>5, <1>6, <1>7 DEF FirstOne, Arrived

\* The first packet with a number sets rx_last_seq.
LEMMA FirstNumber ==
    ASSUME FirstOne, NEW k, Arrived(k), WireSeq(k) # 0, rxLast = NoSeq, rxLast' = WireSeq(k),
           rxMissing' = Empty, base' = k
    PROVE  FirstOne'
<1>0. k \in 1..emitted /\ k \in Nat /\ WireSeq(k) \in Seqs
  <2>1. k \in 1..emitted /\ emitted \in Nat /\ first \in Int /\ WireMod \in Nat \ {0}
    BY Sizes DEF FirstOne, Types, Arrived, Seqs
  <2>2. first + k \in Int
    BY <2>1
  <2>. QED
    BY <2>1, <2>2, Remainder DEF WireSeq, Seqs
<1>1. Types'
  BY <1>0 DEF FirstOne, Types, Arrived
<1>2. \A j : WireSeq(j)' = WireSeq(j)
  BY DEF WireSeq, Arrived
<1>3. Tracked' = {k}
  BY <1>2 DEF FirstOne, Follows, Tracked, Arrived
<1>4. rxLast' # NoSeq
  BY <1>0 DEF Seqs, NoSeq
<1>5. Follows'
  BY <1>0, <1>2, <1>3, <1>4 DEF Follows, IsNewest
<1>6. NothingHidden'
  BY <1>0, <1>3 DEF NothingHidden, IsNewest, Types, FirstOne, Arrived
<1>7. NothingTwice'
  BY DEF NothingTwice, Empty
<1>. QED
  BY <1>1, <1>5, <1>6, <1>7 DEF FirstOne, Arrived

\* A packet after the newest one.
LEMMA NewerNumber ==
    ASSUME OneRound, FirstOne, NEW k, Arrived(k), WireSeq(k) # 0, NEW n \in Tracked, IsNewest(n), rxLast = WireSeq(n),
           k - n \in 1..(Half - 1),
           rxLast' = WireSeq(k), rxMissing' = MissingAfter(WireSeq(k)), gaveUp' = GaveUpAfter(k), base' = base
    PROVE  FirstOne'
<1>0. k \in 1..emitted /\ k \in Nat /\ n \in 1..emitted /\ n \in Nat /\ k > n /\ emitted \in Nat /\ first \in Seqs
  BY Sizes DEF FirstOne, Types, Arrived, Tracked
<1>d. k - n \in (1 - Half)..(Half - 1)
  BY Sizes
<1>1. /\ rxLast # NoSeq /\ WireSeq(k) \in Seqs /\ Forward(WireSeq(k)) /\ Delta(WireSeq(k)) = k - n
  BY <1>0, <1>d, Distance
<1>2. Types'
  BY <1>0, <1>1 DEF FirstOne, Types, Arrived
<1>3. \A j : WireSeq(j)' = WireSeq(j)
  BY DEF WireSeq, Arrived
<1>4. Tracked' = Tracked \union {k}
  BY <1>3 DEF Tracked, Arrived
<1>5. IsNewest(k)' /\ \A m \in Tracked' : IsNewest(m)' => m = k
  <2>1. \A j \in Tracked : j \in Nat /\ j <= n
    BY <1>0 DEF IsNewest, FirstOne, Types, Tracked
  <2>2. \A j \in Tracked : j \in Nat /\ j < k
    BY <1>0, <2>1
  <2>. QED
    BY <1>0, <1>4, <2>2 DEF IsNewest
<1>6. Follows'
  BY <1>1, <1>3, <1>4, <1>5 DEF Follows, Seqs, NoSeq
<1>7. \A j \in 1..emitted : WireSeq(j) = WireSeq(k) => j = k
  BY <1>0, NamesOne DEF FirstOne, Types
<1>8. CASE k - n > MaxMissing
  <2>1. rxMissing' = Empty /\ gaveUp' = gaveUp \union {j \in 1..k : j \notin arrived}
    BY <1>1, <1>8 DEF MissingAfter, GaveUpAfter
  <2>2. NothingTwice'
    BY <2>1 DEF NothingTwice, Empty
  <2>3. NothingHidden'
    <3>. SUFFICES ASSUME NEW j \in 1..emitted, j < k PROVE j \in arrived' \/ j \in gaveUp'
      BY <1>5 DEF NothingHidden, Arrived
    <3>1. j \in 1..k
      BY <1>0
    <3>. QED
      BY <2>1, <3>1 DEF Arrived
  <2>. QED
    BY <1>2, <1>6, <2>2, <2>3 DEF FirstOne, Arrived
<1>9. CASE ~(k - n > MaxMissing)
  <2>1. DOMAIN rxMissing' = (DOMAIN rxMissing \ {WireSeq(k)}) \union Skipped(WireSeq(k)) /\ gaveUp' = gaveUp
    BY <1>1, <1>9 DEF MissingAfter, GaveUpAfter
  <2>2. /\ \A j \in (n + 1)..(k - 1) : WireSeq(j) \in Skipped(WireSeq(k))
        /\ \A s \in Skipped(WireSeq(k)) : \E j \in (n + 1)..(k - 1) : s = WireSeq(j)
    BY <1>0, <1>1, SkippedNumbers
  <2>3. NothingHidden'
    <3>. SUFFICES ASSUME NEW j \in 1..emitted, base < j, j < k
                  PROVE  j \in arrived' \/ j \in gaveUp' \/ WireSeq(j) \in DOMAIN rxMissing'
      BY <1>3, <1>5 DEF NothingHidden, Arrived
    <3>1. CASE j < n
      <4>1. j \in arrived \/ j \in gaveUp \/ WireSeq(j) \in DOMAIN rxMissing
        BY <3>1 DEF FirstOne, NothingHidden
      <4>2. WireSeq(j) # WireSeq(k)
        BY <1>0, <1>7
      <4>. QED
        BY <2>1, <4>1, <4>2 DEF Arrived
    <3>2. CASE j = n
      BY <3>2 DEF Tracked, Arrived
    <3>3. CASE j > n
      <4>1. j \in (n + 1)..(k - 1)
        BY <1>0, <3>3
      <4>. QED
        BY <2>1, <2>2, <4>1
    <3>. QED
      BY <1>0, <3>1, <3>2, <3>3
  <2>4. NothingTwice'
    <3>. SUFFICES ASSUME NEW j \in arrived', WireSeq(j) \in DOMAIN rxMissing', WireSeq(j) # 0 PROVE FALSE
      BY <1>3 DEF NothingTwice
    <3>0. j \in 1..emitted
      BY <1>0 DEF FirstOne, Types, Arrived
    <3>1. CASE WireSeq(j) \in Skipped(WireSeq(k))
      <4>1. PICK i \in (n + 1)..(k - 1) : WireSeq(j) = WireSeq(i)
        BY <2>2, <3>1
      <4>2. i \in 1..emitted
        BY <1>0
      <4>3. j = i
        BY <3>0, <4>1, <4>2, NamesOne DEF FirstOne, Types
      <4>4. j # k /\ j > n
        BY <1>0, <4>1, <4>3
      <4>5. j \in Tracked
        BY <4>4 DEF Tracked, Arrived
      <4>. QED
        BY <1>0, <4>4, <4>5 DEF IsNewest
    <3>2. CASE WireSeq(j) \in DOMAIN rxMissing \ {WireSeq(k)}
      <4>1. j \in arrived
        BY <3>2 DEF Arrived
      <4>. QED
        BY <3>2, <4>1 DEF FirstOne, NothingTwice
    <3>. QED
      BY <2>1, <3>1, <3>2
  <2>. QED
    BY <1>2, <1>6, <2>3, <2>4 DEF FirstOne, Arrived
<1>. QED
  BY <1>8, <1>9

\* A packet out of order, or a duplicate.
LEMMA OlderNumber ==
    ASSUME OneRound, FirstOne, NEW k, Arrived(k), WireSeq(k) # 0, NEW n \in Tracked, IsNewest(n), rxLast = WireSeq(n),
           k - n \in (1 - Half)..0,
           rxLast' = LastAfter(WireSeq(k)), rxMissing' = MissingAfter(WireSeq(k)), gaveUp' = GaveUpAfter(k), base' = base
    PROVE  FirstOne'
<1>0. /\ k \in 1..emitted /\ k \in Nat /\ n \in 1..emitted /\ n \in Nat /\ k <= n
      /\ emitted \in Nat /\ first \in Seqs
  BY Sizes DEF FirstOne, Types, Arrived, Tracked
<1>d. k - n \in (1 - Half)..(Half - 1)
  BY Sizes
<1>1. rxLast # NoSeq /\ rxLast \in Seqs /\ ~Forward(WireSeq(k))
  BY <1>0, <1>d, Distance
<1>2. rxLast' = rxLast /\ gaveUp' = gaveUp /\ DOMAIN rxMissing' = DOMAIN rxMissing \ {WireSeq(k)}
  BY <1>1 DEF LastAfter, GaveUpAfter, MissingAfter, WithoutSeq, Restrict
<1>3. Types'
  BY <1>0, <1>2 DEF FirstOne, Types, Arrived
<1>4. \A j : WireSeq(j)' = WireSeq(j)
  BY DEF WireSeq, Arrived
<1>5. Tracked' = Tracked \union {k}
  BY <1>4 DEF Tracked, Arrived
<1>6. IsNewest(n)' /\ \A m \in Tracked' : IsNewest(m)' => m = n
  <2>1. \A j \in Tracked' : j \in Nat /\ j <= n
    <3>1. \A j \in Tracked : j \in Nat /\ j <= n
      BY <1>0 DEF IsNewest, FirstOne, Types, Tracked
    <3>. QED
      BY <1>0, <1>5, <3>1
  <2>. QED
    BY <1>0, <1>5, <2>1 DEF IsNewest
<1>7. Follows'
  BY <1>1, <1>2, <1>4, <1>5, <1>6 DEF Follows
<1>8. \A j \in 1..emitted : WireSeq(j) = WireSeq(k) => j = k
  BY <1>0, NamesOne DEF FirstOne, Types
<1>9. NothingHidden'
  <2>. SUFFICES ASSUME NEW j \in 1..emitted, base < j, j < n
                PROVE  j \in arrived' \/ j \in gaveUp' \/ WireSeq(j) \in DOMAIN rxMissing'
    BY <1>4, <1>6 DEF NothingHidden, Arrived
  <2>1. j \in arrived \/ j \in gaveUp \/ WireSeq(j) \in DOMAIN rxMissing
    BY DEF FirstOne, NothingHidden
  <2>. QED
    BY <1>2, <1>8, <2>1 DEF Arrived
<1>10. NothingTwice'
  BY <1>2, <1>4 DEF FirstOne, NothingTwice, Arrived
<1>. QED
  BY <1>3, <1>7, <1>9, <1>10 DEF FirstOne, Arrived

\* A packet arrives.
LEMMA ReceiveKeeps ==
    ASSUME OneRound, FirstOne, NEW k, Receive(k)
    PROVE  FirstOne'
<1>1. Arrived(k)
  BY DEF Receive, Arrived
<1>2. CASE WireSeq(k) = 0
  BY <1>1, <1>2, NumberZero DEF Receive
<1>3. CASE WireSeq(k) # 0 /\ rxLast = NoSeq
  <2>1. Tracked = {} /\ rxMissing = Empty
    BY <1>3 DEF FirstOne, Follows
  <2>2. rxLast' = WireSeq(k) /\ base' = k /\ rxMissing' = WithoutSeq(WireSeq(k))
    BY <1>3 DEF Receive, LastAfter, MissingAfter, Forward
  <2>3. rxMissing' = Empty
    BY <2>1, <2>2 DEF WithoutSeq, Restrict, Empty
  <2>. QED
    BY <1>1, <1>3, <2>2, <2>3, FirstNumber
<1>4. CASE WireSeq(k) # 0 /\ rxLast # NoSeq
  <2>1. PICK n \in Tracked : IsNewest(n) /\ rxLast = WireSeq(n)
    BY <1>4 DEF FirstOne, Follows
  <2>2. Newest(Tracked) = n /\ n \in Nat
    BY <2>1, NewestIs DEF FirstOne
  <2>3. k - n \in (1 - Half)..(Half - 1) /\ k \in Nat
    BY <2>1, <2>2, Sizes DEF Receive, InWindow, FirstOne, Types
  <2>4. /\ rxLast' = LastAfter(WireSeq(k)) /\ rxMissing' = MissingAfter(WireSeq(k))
        /\ base' = base /\ gaveUp' = GaveUpAfter(k)
    BY <1>4 DEF Receive
  <2>5. CASE k > n
    <3>1. k - n \in 1..(Half - 1)
      BY <2>2, <2>3, <2>5, Sizes
    <3>2. Forward(WireSeq(k))
      BY <2>1, <2>2, <2>3, <2>5, Distance DEF FirstOne, Types
    <3>3. rxLast' = WireSeq(k)
      BY <2>4, <3>2 DEF LastAfter
    <3>. QED
      BY <1>1, <1>4, <2>1, <2>4, <3>1, <3>3, NewerNumber
  <2>6. CASE ~(k > n)
    <3>1. k - n \in (1 - Half)..0
      BY <2>2, <2>3, <2>6, Sizes
    <3>. QED
      BY <1>1, <1>4, <2>1, <2>4, <3>1, OlderNumber
  <2>. QED
    BY <2>5, <2>6
<1>. QED
  BY <1>2, <1>3, <1>4

-----------------------------------------------------------------------------
(* The other steps of the first connection.                                *)

\* What is dropped after its last request is given up.
LEMMA RetransmitKeeps ==
    ASSUME FirstOne, RetransmitTick
    PROVE  FirstOne'
<1>1. PICK R \in SUBSET {k \in 1..emitted : WireSeq(k) \in DOMAIN rxMissing} : net' = net \union R
  BY DEF RetransmitTick
<1>2. /\ DOMAIN rxMissing' \subseteq DOMAIN rxMissing
      /\ gaveUp' = gaveUp \union {k \in 1..emitted : WireSeq(k) \in DOMAIN rxMissing /\ WireSeq(k) \notin DOMAIN rxMissing'}
      /\ UNCHANGED <<state, session, rxLast, arrived, base, emitted, first>>
  BY DEF RetransmitTick, Counted, linkVars
<1>3. (rxMissing = Empty => rxMissing' = Empty)
  BY DEF RetransmitTick, Counted, Empty
<1>4. \A j : WireSeq(j)' = WireSeq(j)
  BY <1>2 DEF WireSeq
<1>5. Tracked' = Tracked /\ \A n : IsNewest(n)' <=> IsNewest(n)
  BY <1>2, <1>4 DEF Tracked, IsNewest
<1>6. Types'
  BY <1>1, <1>2 DEF FirstOne, Types
<1>7. Follows'
  BY <1>2, <1>3, <1>4, <1>5 DEF FirstOne, Follows
<1>8. NothingHidden'
  <2>. SUFFICES ASSUME NEW n \in Tracked, IsNewest(n), NEW j \in 1..emitted, base < j, j < n
                PROVE  j \in arrived \/ j \in gaveUp' \/ WireSeq(j) \in DOMAIN rxMissing'
    BY <1>2, <1>4, <1>5 DEF NothingHidden
  <2>1. j \in arrived \/ j \in gaveUp \/ WireSeq(j) \in DOMAIN rxMissing
    BY DEF FirstOne, NothingHidden
  <2>. QED
    BY <1>2, <2>1
<1>9. NothingTwice'
  BY <1>2, <1>4 DEF FirstOne, NothingTwice
<1>. QED
  BY <1>2, <1>6, <1>7, <1>8, <1>9 DEF FirstOne

\* The radio sends one,
LEMMA RadioSendsKeeps ==
    ASSUME FirstOne, RadioSends
    PROVE  FirstOne'
<1>1. /\ emitted \in Nat /\ Len(Traffic) \in Nat /\ emitted' = emitted + 1 /\ emitted < Len(Traffic)
      /\ net' = net \union {emitted'}
      /\ UNCHANGED <<state, session, rxLast, rxMissing, arrived, base, gaveUp, first>>
  BY Sizes DEF RadioSends, FirstOne, Types, linkVars, rxVars
<1>2. \A j : WireSeq(j)' = WireSeq(j)
  BY <1>1 DEF WireSeq
<1>3. Tracked' = Tracked /\ \A n : IsNewest(n)' <=> IsNewest(n)
  BY <1>1, <1>2 DEF Tracked, IsNewest
<1>4. Types'
  BY <1>1 DEF FirstOne, Types
<1>5. Follows'
  BY <1>1, <1>2, <1>3 DEF FirstOne, Follows
<1>6. NothingHidden'
  <2>. SUFFICES ASSUME NEW n \in Tracked, IsNewest(n), NEW j \in 1..emitted', base < j, j < n
                PROVE  j \in arrived \/ j \in gaveUp \/ WireSeq(j) \in DOMAIN rxMissing
    BY <1>1, <1>2, <1>3 DEF NothingHidden
  <2>1. n \in 1..emitted
    BY DEF Tracked, FirstOne, Types
  <2>2. j \in 1..emitted
    BY <1>1, <2>1
  <2>. QED
    BY <2>2 DEF FirstOne, NothingHidden
<1>7. NothingTwice'
  BY <1>1, <1>2 DEF FirstOne, NothingTwice
<1>. QED
  BY <1>1, <1>4, <1>5, <1>6, <1>7 DEF FirstOne

\* the first one that is tracked arrives,
LEMMA FirstOneKeeps ==
    ASSUME FirstOne, UNCHANGED <<state, session, rxVars, emitted, first, net>>
    PROVE  FirstOne'
<1>1. UNCHANGED <<rxLast, rxMissing, arrived, base, gaveUp>>
  BY DEF rxVars
<1>2. \A j : WireSeq(j)' = WireSeq(j)
  BY DEF WireSeq
<1>3. Tracked' = Tracked /\ \A n : IsNewest(n)' <=> IsNewest(n)
  BY <1>1, <1>2 DEF Tracked, IsNewest
<1>4. Types' /\ Follows'
  BY <1>1, <1>2, <1>3 DEF FirstOne, Types, Follows
<1>5. NothingHidden' /\ NothingTwice'
  BY <1>1, <1>2, <1>3 DEF FirstOne, NothingHidden, NothingTwice
<1>. QED
  BY <1>4, <1>5 DEF FirstOne

\* connect() forgets the numbers,
LEMMA ConnectKeeps ==
    ASSUME LinkInv, Connect
    PROVE  LinkInv'
<1>1. /\ session' = session + 1 /\ state' = "connecting" /\ phase' # "none" /\ state = "disconnected"
      /\ session \in Nat
      /\ UNCHANGED <<rxLast, rxMissing, arrived, base, gaveUp, emitted, first, net>>
  BY DEF Connect, LinkInv, rxVars, radioVars
<1>2. CASE session = 0
  <2>1. Unused
    BY <1>2 DEF LinkInv
  <2>2. arrived' = {} /\ Tracked' = {}
    BY <1>1, <2>1 DEF Unused, Tracked
  <2>3. Types'
    BY <1>1, <2>1, Sizes DEF Unused, Types
  <2>4. Follows' /\ NothingHidden' /\ NothingTwice'
    BY <1>1, <2>1, <2>2 DEF Unused, Follows, NothingHidden, NothingTwice
  <2>. QED
    BY <1>1, <1>2, <2>3, <2>4 DEF LinkInv, FirstOne
<1>3. CASE session # 0
  BY <1>1, <1>3 DEF LinkInv
<1>. QED
  BY <1>2, <1>3

\* and disconnect() leaves them.
LEMMA DisconnectKeeps ==
    ASSUME LinkInv, Disconnect
    PROVE  LinkInv'
BY DEF LinkInv, Disconnect, Over, Unused

\* The invariant is inductive.
LEMMA LinkStep ==
    ASSUME OneRound, LinkInv, [Next]_vars
    PROVE  LinkInv'
<1>1. CASE Connect
  BY <1>1, ConnectKeeps
<1>2. CASE Disconnect
  BY <1>2, DisconnectKeeps
<1>3. CASE Discover \/ Ready \/ Read \/ (\E p \in Reply : ReceiveReply(p))
  <2>1. /\ UNCHANGED <<state, session, rxVars, emitted, first, net>> /\ state # "disconnected" /\ phase' # "none"
    BY <1>3 DEF Discover, Ready, Read, ReceiveReply, LinkInv, linkVars, radioVars
  <2>. QED
    BY <2>1, FirstOneKeeps DEF LinkInv, Unused, Over
<1>4. CASE UNCHANGED vars
  <2>1. UNCHANGED <<state, session, phase, rxVars, emitted, first, net>>
    BY <1>4 DEF vars, linkVars, radioVars
  <2>2. UNCHANGED <<rxLast, rxMissing, arrived, base>>
    BY <2>1 DEF rxVars
  <2>. QED
    BY <2>1, <2>2, FirstOneKeeps DEF LinkInv, Unused, Over
<1>5. CASE \E k \in DOMAIN Traffic : Receive(k)
  <2>1. UNCHANGED <<state, session, phase>> /\ state # "disconnected"
    BY <1>5 DEF Receive
  <2>. QED
    BY <1>5, <2>1, ReceiveKeeps DEF LinkInv, Unused, Over
<1>6. CASE RetransmitTick
  <2>1. UNCHANGED <<state, session, phase>> /\ state # "disconnected"
    BY <1>6 DEF RetransmitTick, linkVars, LinkInv
  <2>. QED
    BY <1>6, <2>1, RetransmitKeeps DEF LinkInv, Unused, Over
<1>7. CASE RadioSends
  <2>1. UNCHANGED <<state, session, phase>> /\ state # "disconnected"
    BY <1>7 DEF RadioSends, linkVars, LinkInv
  <2>. QED
    BY <1>7, <2>1, RadioSendsKeeps DEF LinkInv, Unused, Over
<1>. QED
  BY <1>1, <1>2, <1>3, <1>4, <1>5, <1>6, <1>7 DEF Next

\* It holds of a transport that has not connected.
LEMMA LinkInit ==
    ASSUME Init
    PROVE  LinkInv
<1>1. first \in Seqs
  BY SizesAssumption DEF Init, Seqs
<1>. QED
  BY <1>1 DEF Init, LinkInv, Unused

\* The invariant says what the property does of the newest packet.
LEMMA ExactlyMissing ==
    ASSUME LinkInv
    PROVE  MissingExactly
<1>. SUFFICES ASSUME session = 1
              PROVE  /\ Tracked # {} =>
                          \A k \in 1..emitted :
                              base < k /\ k < Newest(Tracked) =>
                                  k \in arrived \/ k \in gaveUp \/ WireSeq(k) \in DOMAIN rxMissing
                     /\ \A k \in arrived : WireSeq(k) \in DOMAIN rxMissing /\ InWindow(k) => WireSeq(k) = 0
  BY DEF MissingExactly
<1>1. CASE Over
  BY <1>1 DEF Over, Tracked
<1>2. CASE FirstOne
  <2>1. ASSUME Tracked # {}
        PROVE  \A k \in 1..emitted :
                  base < k /\ k < Newest(Tracked) =>
                      k \in arrived \/ k \in gaveUp \/ WireSeq(k) \in DOMAIN rxMissing
    <3>1. PICK n \in Tracked : IsNewest(n)
      BY <1>2, <2>1 DEF FirstOne, Follows
    <3>2. Newest(Tracked) = n
      BY <1>2, <3>1, NewestIs DEF FirstOne
    <3>. QED
      BY <1>2, <3>1, <3>2 DEF FirstOne, NothingHidden
  <2>2. \A k \in arrived : WireSeq(k) \in DOMAIN rxMissing => WireSeq(k) = 0
    BY <1>2 DEF FirstOne, NothingTwice
  <2>. QED
    BY <2>1, <2>2
<1>. QED
  BY <1>1, <1>2 DEF LinkInv

\* In a first connection of fewer packets than there are numbers, losses,
\* duplicates, reordering and the wrap of the numbers hide no gap, and what has
\* arrived is not asked for again (core/transport.py, _record_rx_seq() and
\* _retransmit_loop()).
THEOREM MissingAlwaysExact ==
    ASSUME OneRound
    PROVE  Spec => []MissingExactly
<1>1. Init => LinkInv
  BY LinkInit
<1>2. LinkInv /\ [Next]_vars => LinkInv'
  BY LinkStep
<1>3. LinkInv => MissingExactly
  BY ExactlyMissing
<1>. QED
  BY <1>1, <1>2, <1>3, PTL DEF Spec

-----------------------------------------------------------------------------
(* The types, for any traffic: the handshake's reads stay within their     *)
(* limits, the queue within its bound, and each number missing is asked    *)
(* for at most MaxRetries + 1 times.                                       *)

HandshakeFits ==
    /\ phase = "discover" => reads < Attempts
    /\ phase = "ready" => reads < ReadyReads

TransportInv == TransportTypeOK /\ HandshakeFits /\ first \in Seqs

LEMMA SizesAre ==
    /\ MaxRetries \in Nat /\ Attempts \in Nat \ {0} /\ ReadyReads \in Nat \ {0}
    /\ QueueSize \in Nat \ {0} /\ MaxSessions \in Nat
    /\ \A k \in DOMAIN Traffic : Traffic[k] \in Data
BY SizesAssumption DEF Data

\* A packet is queued within the bound,
LEMMA QueuedFits ==
    ASSUME TransportInv, NEW p \in Data \union Reply
    PROVE  Queued(p) \in Seq(Data \union Reply) /\ Len(Queued(p)) <= QueueSize
<1>1. queue \in Seq(Data \union Reply) /\ Len(queue) <= QueueSize /\ QueueSize \in Nat \ {0}
  BY SizesAre DEF TransportInv, TransportTypeOK
<1>2. CASE Len(queue) < QueueSize
  <2>1. Append(queue, p) \in Seq(Data \union Reply) /\ Len(Append(queue, p)) = Len(queue) + 1
    BY <1>1
  <2>. QED
    BY <1>1, <1>2, <2>1 DEF Queued
<1>3. CASE ~(Len(queue) < QueueSize) /\ p = "scope"
  BY <1>1, <1>3 DEF Queued
<1>4. CASE ~(Len(queue) < QueueSize) /\ p # "scope"
  <2>1. queue # <<>>
    BY <1>1, <1>4
  <2>2. Tail(queue) \in Seq(Data \union Reply) /\ Len(Tail(queue)) = Len(queue) - 1
    BY <1>1, <2>1
  <2>3. /\ Append(Tail(queue), p) \in Seq(Data \union Reply)
        /\ Len(Append(Tail(queue), p)) = Len(queue)
    BY <1>1, <2>2
  <2>. QED
    BY <1>1, <1>4, <2>3 DEF Queued
<1>. QED
  BY <1>2, <1>3, <1>4

\* a packet that is read makes room,
LEMMA ReadFits ==
    ASSUME TransportInv, queue' = queue \/ (queue # <<>> /\ queue' = Tail(queue))
    PROVE  queue' \in Seq(Data \union Reply) /\ Len(queue') <= QueueSize
<1>1. queue \in Seq(Data \union Reply) /\ Len(queue) <= QueueSize /\ QueueSize \in Nat \ {0}
  BY SizesAre DEF TransportInv, TransportTypeOK
<1>2. CASE queue # <<>> /\ queue' = Tail(queue)
  <2>1. Tail(queue) \in Seq(Data \union Reply) /\ Len(Tail(queue)) = Len(queue) - 1
    BY <1>1, <1>2
  <2>. QED
    <3>1. queue' \in Seq(Data \union Reply) /\ Len(queue') = Len(queue) - 1
      BY <1>2, <2>1
    <3>2. Len(queue) \in Nat
      BY <1>1
    <3>. QED
      BY <1>1, <3>1, <3>2
<1>. QED
  BY <1>1, <1>2

\* and the table keeps numbers, with their requests counted from 0.
LEMMA MissingFits ==
    ASSUME TransportInv, NEW s \in Seqs
    PROVE  /\ LastAfter(s) \in Seqs
           /\ DOMAIN MissingAfter(s) \subseteq Seqs
           /\ \A m \in DOMAIN MissingAfter(s) : MissingAfter(s)[m] \in 0..MaxRetries
<1>. USE DEF TransportInv, TransportTypeOK
<1>1. LastAfter(s) \in Seqs
  BY DEF LastAfter
<1>2. DOMAIN rxMissing \subseteq Seqs /\ (\A m \in DOMAIN rxMissing : rxMissing[m] \in 0..MaxRetries)
  OBVIOUS
<1>3. 0 \in 0..MaxRetries
  BY SizesAre
<1>4. ASSUME Forward(s) PROVE Skipped(s) \subseteq Seqs
  <2>1. rxLast \in Int /\ WireMod \in Nat \ {0}
    BY <1>4, Sizes DEF Forward, Seqs
  <2>2. Delta(s) \in Int
    BY <1>4, Sizes DEF Forward, Half
  <2>3. \A o \in 1..(Delta(s) - 1) : (rxLast + o) % WireMod \in 0..(WireMod - 1)
    BY <2>1, <2>2
  <2>. QED
    BY <2>3 DEF Skipped, Seqs
<1>5. CASE ~Forward(s)
  BY <1>2, <1>5, <1>1 DEF MissingAfter, WithoutSeq, Restrict
<1>6. CASE Forward(s) /\ Delta(s) > MaxMissing
  BY <1>1, <1>6 DEF MissingAfter, Empty
<1>7. CASE Forward(s) /\ ~(Delta(s) > MaxMissing)
  <2>1. MissingAfter(s) = [m \in (DOMAIN rxMissing \ {s}) \union Skipped(s) |->
            IF m \in DOMAIN rxMissing THEN rxMissing[m] ELSE 0]
    BY <1>7 DEF MissingAfter
  <2>2. Skipped(s) \subseteq Seqs
    BY <1>4, <1>7
  <2>. QED
    BY <1>1, <1>2, <1>3, <2>1, <2>2
<1>. QED
  BY <1>5, <1>6, <1>7

LEMMA TransportStep ==
    ASSUME TransportInv, [Next]_vars
    PROVE  TransportInv'
<1>. USE DEF TransportInv
<1>0. /\ reads \in Nat /\ Attempts \in Nat \ {0} /\ ReadyReads \in Nat \ {0} /\ 0 \in 0..(Attempts + ReadyReads)
      /\ session \in Nat /\ MaxSessions \in Nat
  BY SizesAre DEF TransportTypeOK
<1>k. \A k \in DOMAIN Traffic : k \in Nat /\ first \in Int
  BY SizesAssumption, Sizes DEF Seqs
<1>f. first' \in Seqs
  <2>1. first' = first \/ first' \in FirstNumbers
    BY DEF Next, vars, radioVars, Connect, Discover, Ready, Disconnect, Receive, ReceiveReply,
           RetransmitTick, Read, RadioSends
  <2>. QED
    BY <2>1, SizesAssumption DEF Seqs
<1>. USE <1>f
<1>1. CASE Connect
  <2>1. phase' \in {"discover", "ready"} /\ reads' = 0 /\ session' = session + 1 /\ session < MaxSessions
        /\ state' = "connecting" /\ discard' = FALSE
        /\ UNCHANGED <<remoteKnown, queue, rxLast, rxMissing>>
    BY <1>1 DEF Connect, rxVars
  <2>. QED
    <3>1. session' \in 0..MaxSessions /\ reads' \in 0..(Attempts + ReadyReads) /\ HandshakeFits'
      BY <1>0, <2>1 DEF HandshakeFits
    <3>2. discard' \in BOOLEAN /\ remoteKnown' \in BOOLEAN
      BY <2>1 DEF TransportTypeOK
    <3>. QED
      BY <2>1, <3>1, <3>2 DEF TransportTypeOK
<1>2. CASE Discover
  <2>1. queue' \in Seq(Data \union Reply) /\ Len(queue') <= QueueSize
    BY <1>2, ReadFits DEF Discover
  <2>2. phase = "discover" /\ reads < Attempts /\ UNCHANGED <<state, discard, session, rxLast, rxMissing>>
    BY <1>2 DEF Discover, HandshakeFits, rxVars
  <2>3. \/ phase' = "ready" /\ reads' = 0 /\ remoteKnown' = TRUE
        \/ phase' = "failed" /\ reads' = reads + 1 /\ remoteKnown' = remoteKnown
        \/ phase' = "discover" /\ reads' = reads + 1 /\ reads' # Attempts /\ remoteKnown' = remoteKnown
    BY <1>2 DEF Discover
  <2>. QED
    <3>1. reads' \in 0..(Attempts + ReadyReads) /\ HandshakeFits'
      BY <1>0, <2>2, <2>3 DEF HandshakeFits
    <3>2. remoteKnown' \in BOOLEAN /\ phase' \in {"discover", "ready", "failed"}
      BY <2>3 DEF TransportTypeOK
    <3>. QED
      BY <2>1, <2>2, <3>1, <3>2 DEF TransportTypeOK
<1>3. CASE Ready
  <2>1. queue' \in Seq(Data \union Reply) /\ Len(queue') <= QueueSize
    BY <1>3, ReadFits DEF Ready
  <2>2. /\ phase = "ready" /\ reads < ReadyReads /\ reads' = reads + 1
        /\ UNCHANGED <<state, remoteKnown, session, rxLast, rxMissing>>
    BY <1>3 DEF Ready, HandshakeFits, rxVars
  <2>3. phase' = "open" \/ (phase' = "ready" /\ reads' # ReadyReads)
    BY <1>3 DEF Ready
  <2>4. discard' \in BOOLEAN
    BY <1>3 DEF Ready, TransportTypeOK
  <2>. QED
    BY <1>0, <2>1, <2>2, <2>3, <2>4 DEF TransportTypeOK, HandshakeFits
<1>4. CASE Disconnect
  BY <1>0, <1>4 DEF Disconnect, TransportTypeOK, HandshakeFits
<1>5. ASSUME NEW k \in DOMAIN Traffic, Receive(k) PROVE TransportInv'
  <2>1. queue' \in Seq(Data \union Reply) /\ Len(queue') <= QueueSize
    <3>1. Traffic[k] \in Data \union Reply
      BY SizesAre
    <3>2. Queued(Traffic[k]) \in Seq(Data \union Reply) /\ Len(Queued(Traffic[k])) <= QueueSize
      BY <3>1, QueuedFits
    <3>. QED
      BY <1>5, <3>2 DEF Receive, TransportTypeOK
  <2>2. /\ rxLast' \in Seqs \union {NoSeq} /\ DOMAIN rxMissing' \subseteq Seqs
        /\ \A s \in DOMAIN rxMissing' : rxMissing'[s] \in 0..MaxRetries
    <3>1. CASE WireSeq(k) = 0
      BY <1>5, <3>1 DEF Receive, TransportTypeOK
    <3>2. CASE WireSeq(k) # 0
      <4>1. WireSeq(k) \in Seqs
        BY <1>k, Sizes DEF WireSeq, Seqs
      <4>. QED
        BY <1>5, <3>2, <4>1, MissingFits DEF Receive
    <3>. QED
      BY <3>1, <3>2
  <2>3. remoteKnown' \in BOOLEAN
    <3>1. remoteKnown' = (remoteKnown \/ ~discard)
      BY <1>5 DEF Receive
    <3>. QED
      BY <3>1
  <2>4. UNCHANGED <<state, phase, reads, discard, session>>
    BY <1>5 DEF Receive
  <2>. QED
    BY <2>1, <2>2, <2>3, <2>4 DEF TransportTypeOK, HandshakeFits
<1>6. ASSUME NEW p \in Reply, ReceiveReply(p) PROVE TransportInv'
  <2>1. Queued(p) \in Seq(Data \union Reply) /\ Len(Queued(p)) <= QueueSize
    BY QueuedFits
  <2>. QED
    BY <1>6, <2>1 DEF ReceiveReply, TransportTypeOK, HandshakeFits, rxVars
<1>7. CASE RetransmitTick
  <2>1. /\ rxMissing' = Counted(rxMissing)
        /\ UNCHANGED <<state, phase, reads, remoteKnown, discard, session, queue, rxLast>>
    BY <1>7 DEF RetransmitTick, linkVars
  <2>2. DOMAIN rxMissing' = {m \in DOMAIN rxMissing : rxMissing[m] < MaxRetries}
    BY <2>1 DEF Counted
  <2>3. ASSUME NEW s \in DOMAIN rxMissing' PROVE rxMissing'[s] \in 0..MaxRetries
    <3>1. rxMissing'[s] = rxMissing[s] + 1 /\ rxMissing[s] < MaxRetries
      BY <2>1, <2>2 DEF Counted
    <3>2. rxMissing[s] \in 0..MaxRetries
      BY <2>2 DEF TransportTypeOK
    <3>. QED
      BY <3>1, <3>2, SizesAre
  <2>. QED
    BY <2>1, <2>2, <2>3 DEF TransportTypeOK, HandshakeFits
<1>8. CASE Read
  <2>1. queue' \in Seq(Data \union Reply) /\ Len(queue') <= QueueSize
    BY <1>8, ReadFits DEF Read
  <2>. QED
    BY <1>8, <2>1 DEF Read, TransportTypeOK, HandshakeFits, linkVars, rxVars
<1>9. CASE RadioSends \/ UNCHANGED vars
  BY <1>9 DEF RadioSends, TransportTypeOK, HandshakeFits, vars, linkVars, rxVars
<1>. QED
  BY <1>1, <1>2, <1>3, <1>4, <1>5, <1>6, <1>7, <1>8, <1>9 DEF Next

\* The queue between the socket and its reader keeps its bound, and so do the
\* requests for a missing number and the reads of a handshake.
THEOREM TransportTypeCorrect == Spec => []TransportTypeOK
<1>1. Init => TransportInv
  <2>. SUFFICES ASSUME Init PROVE TransportInv
    OBVIOUS
  <2>1. first \in Seqs
    BY SizesAssumption DEF Init, Seqs
  <2>2. 0 \in 0..(Attempts + ReadyReads) /\ 0 \in 0..MaxSessions /\ Len(<<>>) <= QueueSize
    BY SizesAre
  <2>3. DOMAIN rxMissing = {}
    BY DEF Init, Empty
  <2>. QED
    <3>1. queue \in Seq(Data \union Reply) /\ Len(queue) <= QueueSize
      BY <2>2 DEF Init
    <3>2. /\ state = "disconnected" /\ phase = "none" /\ reads = 0 /\ session = 0
          /\ remoteKnown = FALSE /\ discard = FALSE /\ rxLast = NoSeq
      BY DEF Init
    <3>3. TransportTypeOK
      BY <2>2, <2>3, <3>1, <3>2 DEF TransportTypeOK
    <3>. QED
      BY <2>1, <3>2, <3>3 DEF TransportInv, HandshakeFits
<1>2. TransportInv /\ [Next]_vars => TransportInv'
  BY TransportStep
<1>3. TransportInv => TransportTypeOK
  BY DEF TransportInv
<1>. QED
  BY <1>1, <1>2, <1>3, PTL DEF Spec

-----------------------------------------------------------------------------
(***************************************************************************)
(* Proofs about TrackedSend, for any width of the numbers and any size of  *)
(* the buffer (2^16 and 500 in the code).                                  *)
(*                                                                         *)
(* The invariant says what is in the buffer, to the packet: those of the   *)
(* current round of the numbers, but not more than BufSize.                *)
(***************************************************************************)

\* The packet with number 0 in the round of the last packet.
RoundStart == (sent - 1) - ((sent - 1) % SendSeqMod)

\* The oldest packet kept.
Lowest == IF sent - BufSize > RoundStart THEN sent - BufSize ELSE RoundStart

Numbers ==
    /\ sent \in Nat
    /\ sendSeq = sent % SendSeqMod

Buffered ==
    IF sent = 0 THEN txBuffer = {}
    ELSE txBuffer = {<<k - RoundStart, k>> : k \in Lowest..(sent - 1)}

SendInv == Numbers /\ Buffered /\ RightPacketResent

-----------------------------------------------------------------------------
\* The remainder of the next number.
LEMMA NextRemainder ==
    ASSUME NEW M \in Nat \ {0}, NEW n \in Nat
    PROVE  /\ n % M \in 0..(M - 1) /\ n % M <= n
           /\ (n + 1) % M = IF n % M = M - 1 THEN 0 ELSE (n % M) + 1
<1>1. n = M * (n \div M) + (n % M) /\ n % M \in 0..(M - 1) /\ n \div M \in Nat
  OBVIOUS
<1>4. /\ n + 1 = M * ((n + 1) \div M) + ((n + 1) % M)
      /\ (n + 1) % M \in 0..(M - 1) /\ (n + 1) \div M \in Nat
  OBVIOUS
<1>2. ASSUME NEW d \in Int, M * d \in (1 - M)..(M - 1)
      PROVE  d = 0
  BY <1>2
<1>3. CASE n % M = M - 1
  <2>1. M * ((n \div M) + 1 - ((n + 1) \div M)) = (n + 1) % M
    BY <1>1, <1>3, <1>4
  <2>2. (n \div M) + 1 - ((n + 1) \div M) = 0
    BY <1>1, <1>2, <1>4, <2>1
  <2>. QED
    BY <1>3, <1>4, <2>1, <2>2
<1>5. CASE n % M # M - 1
  <2>1. M * (((n + 1) \div M) - (n \div M)) = (n % M) + 1 - ((n + 1) % M)
    BY <1>1, <1>4
  <2>2. ((n + 1) \div M) - (n \div M) = 0
    BY <1>1, <1>2, <1>4, <1>5, <2>1
  <2>. QED
    BY <1>1, <1>4, <1>5, <2>1, <2>2
<1>6. n % M <= n
  BY <1>1
<1>. QED
  BY <1>1, <1>3, <1>5, <1>6

\* An interval of packets makes as many entries.
LEMMA EntriesCount ==
    ASSUME NEW r \in Int, NEW a \in Int, NEW b \in Int, a <= b + 1
    PROVE  Cardinality({<<k - r, k>> : k \in a..b}) = b - a + 1
<1>. DEFINE E == {<<k - r, k>> : k \in a..b}
            f == [k \in a..b |-> <<k - r, k>>]
<1>1. f \in Bijection(a..b, E)
  BY DEF Bijection, Injection, Surjection, IsInjective
<1>3. ExistsBijection(a..b, E)
  BY <1>1 DEF ExistsBijection
<1>2. IsFiniteSet(a..b) /\ Cardinality(a..b) = b - a + 1
  BY FS_Interval
<1>. QED
  BY <1>2, <1>3, FS_Bijection

\* Dropping the oldest entry of an interval leaves the rest of it.
LEMMA OldestDropped ==
    ASSUME NEW r \in Int, NEW a \in Int, NEW b \in Int, a <= b
    PROVE  {<<k - r, k>> : k \in a..b} \ {Oldest({<<k - r, k>> : k \in a..b})}
             = {<<k - r, k>> : k \in (a + 1)..b}
<1>. DEFINE E(x) == {<<k - r, k>> : k \in x..b}
<1>1. <<a - r, a>> \in E(a) /\ \A f \in E(a) : <<a - r, a>>[2] <= f[2]
  OBVIOUS
<1>2. Oldest(E(a)) \in E(a) /\ \A f \in E(a) : Oldest(E(a))[2] <= f[2]
  <2>. DEFINE P(e) == e \in E(a) /\ \A f \in E(a) : e[2] <= f[2]
  <2>1. P(<<a - r, a>>)
    BY <1>1
  <2>2. P(CHOOSE e : P(e))
    BY <2>1
  <2>. QED
    BY <2>2 DEF Oldest
<1>3. Oldest(E(a)) = <<a - r, a>>
  <2>1. PICK k \in a..b : Oldest(E(a)) = <<k - r, k>>
    BY <1>2
  <2>2. Oldest(E(a))[2] <= a
    BY <1>1, <1>2
  <2>3. k <= a
    BY <2>1, <2>2
  <2>. QED
    BY <2>1, <2>3
<1>. QED
  BY <1>3

\* The packet with number 0 stays the same until the numbers wrap.
LEMMA RoundGoesOn ==
    ASSUME Numbers, sent # 0
    PROVE  /\ RoundStart \in 0..(sent - 1) /\ sendSeq \in 0..(SendSeqMod - 1)
           /\ sendSeq # 0 => sent - sendSeq = RoundStart
<1>1. sent - 1 \in Nat /\ (sent - 1) + 1 = sent
  BY DEF Numbers
<1>2. /\ (sent - 1) % SendSeqMod \in 0..(SendSeqMod - 1) /\ (sent - 1) % SendSeqMod <= sent - 1
      /\ sent % SendSeqMod = IF (sent - 1) % SendSeqMod = SendSeqMod - 1 THEN 0 ELSE ((sent - 1) % SendSeqMod) + 1
  BY SendAssumption, <1>1, NextRemainder
<1>. QED
  BY SendAssumption, <1>1, <1>2 DEF Numbers, RoundStart

\* A packet that is sent enters the buffer, and one may leave it.
LEMMA SendStep ==
    ASSUME Numbers, Buffered, SendTracked
    PROVE  Numbers' /\ Buffered'
<1>. DEFINE E(r, a, b) == {<<k - r, k>> : k \in a..b}
<1>1. /\ sent \in Nat /\ sent' = sent + 1 /\ sent' - 1 = sent
      /\ sendSeq' = (sendSeq + 1) % SendSeqMod
      /\ txBuffer' = BufferAfter(sendSeq, sent)
  BY DEF SendTracked, Numbers
<1>2. sendSeq \in Nat /\ sendSeq \in 0..(SendSeqMod - 1) /\ sendSeq = sent % SendSeqMod
  BY SendAssumption, <1>1, NextRemainder DEF Numbers
<1>3. Numbers'
  <2>1. (sent + 1) % SendSeqMod = IF sendSeq = SendSeqMod - 1 THEN 0 ELSE sendSeq + 1
    BY SendAssumption, <1>1, <1>2, NextRemainder
  <2>2. (sendSeq + 1) % SendSeqMod = IF sendSeq % SendSeqMod = SendSeqMod - 1 THEN 0 ELSE (sendSeq % SendSeqMod) + 1
    BY SendAssumption, <1>2, NextRemainder
  <2>3. sendSeq % SendSeqMod = sendSeq
    BY SendAssumption, <1>2
  <2>. QED
    BY <1>1, <2>1, <2>2, <2>3 DEF Numbers
<1>4. RoundStart' = sent - sendSeq
  BY <1>1, <1>2 DEF RoundStart
<1>5. CASE sendSeq = 0
  <2>1. txBuffer' = {<<0, sent>>}
    BY <1>1, <1>5, FS_EmptySet DEF BufferAfter
  <2>2. RoundStart' = sent /\ Lowest' = sent
    BY SendAssumption, <1>1, <1>4, <1>5 DEF Lowest
  <2>3. txBuffer' = E(sent, sent, sent)
    BY <1>1, <2>1
  <2>. QED
    BY <1>1, <1>3, <2>2, <2>3 DEF Buffered
<1>6. CASE sendSeq # 0
  <2>1. /\ sent # 0 /\ RoundStart \in 0..(sent - 1)
        /\ RoundStart' = RoundStart /\ sendSeq = sent - RoundStart
    <3>1. sent # 0
      BY SendAssumption, <1>2, <1>6, NextRemainder
    <3>. QED
      BY <1>1, <1>4, <1>6, <3>1, RoundGoesOn
  <2>2. Lowest \in RoundStart..(sent - 1)
    BY SendAssumption, <1>1, <2>1 DEF Lowest
  <2>3. txBuffer = E(RoundStart, Lowest, sent - 1)
    BY <2>1 DEF Buffered
  <2>4. {e \in txBuffer : e[1] # sendSeq} = txBuffer
    BY <1>1, <2>1, <2>2, <2>3
  <2>5. Cardinality(txBuffer) = sent - Lowest
    <3>1. /\ RoundStart \in Int /\ Lowest \in Int /\ sent - 1 \in Int
          /\ Lowest <= (sent - 1) + 1
      BY <1>1, <2>1, <2>2
    <3>2. Cardinality(E(RoundStart, Lowest, sent - 1)) = (sent - 1) - Lowest + 1
      BY <3>1, EntriesCount
    <3>3. (sent - 1) - Lowest + 1 = sent - Lowest
      BY <3>1, <1>1
    <3>. QED
      BY <2>3, <3>2, <3>3
  <2>6. CASE sent - Lowest >= BufSize
    <3>1. Lowest' = Lowest + 1
      BY SendAssumption, <1>1, <2>1, <2>2, <2>6 DEF Lowest
    <3>2. txBuffer \ {Oldest(txBuffer)} = E(RoundStart, Lowest + 1, sent - 1)
      <4>1. /\ RoundStart \in Int /\ Lowest \in Int /\ sent - 1 \in Int
            /\ Lowest <= sent - 1
        BY <1>1, <2>1, <2>2
      <4>2. E(RoundStart, Lowest, sent - 1) \ {Oldest(E(RoundStart, Lowest, sent - 1))}
              = E(RoundStart, Lowest + 1, sent - 1)
        BY <4>1, OldestDropped
      <4>. QED
        BY <2>3, <4>2
    <3>3. txBuffer' = E(RoundStart, Lowest + 1, sent - 1) \union {<<sent - RoundStart, sent>>}
      BY <1>1, <1>6, <2>1, <2>4, <2>5, <2>6, <3>2 DEF BufferAfter
    <3>4. txBuffer' = E(RoundStart, Lowest + 1, sent)
      BY <1>1, <2>1, <2>2, <3>3
    <3>. QED
      BY <1>1, <1>3, <2>1, <3>1, <3>4 DEF Buffered
  <2>7. CASE ~(sent - Lowest >= BufSize)
    <3>1. Lowest' = Lowest
      BY SendAssumption, <1>1, <2>1, <2>2, <2>7 DEF Lowest
    <3>2. txBuffer' = E(RoundStart, Lowest, sent - 1) \union {<<sent - RoundStart, sent>>}
      BY <1>1, <1>6, <2>1, <2>3, <2>4, <2>5, <2>7 DEF BufferAfter
    <3>3. txBuffer' = E(RoundStart, Lowest, sent)
      BY <1>1, <2>1, <2>2, <3>2
    <3>. QED
      BY <1>1, <1>3, <2>1, <3>1, <3>3 DEF Buffered
  <2>. QED
    BY <2>6, <2>7
<1>. QED
  BY <1>3, <1>5, <1>6

\* What the radio asks for and is still kept is resent, and nothing older.
LEMMA AskStep ==
    ASSUME Numbers, Buffered,
           NEW S \in SUBSET (0..(sent - 1)), RadioAsks(S)
    PROVE  RightPacketResent'
<1>1. /\ sent' = sent /\ sent \in Nat
      /\ lastAsk' = [asked |-> S, resent |-> Resent({n % SendSeqMod : n \in S})]
  BY DEF RadioAsks, Numbers
<1>2. ASSUME NEW n \in S, n >= sent - BufSize, n \div SendSeqMod = (sent - 1) \div SendSeqMod
      PROVE  n \in Resent({m % SendSeqMod : m \in S})
  <2>1. /\ n \in 0..(sent - 1) /\ sent # 0
        /\ n = SendSeqMod * (n \div SendSeqMod) + (n % SendSeqMod)
        /\ n % SendSeqMod \in 0..(SendSeqMod - 1)
    <3>1. n \in Nat /\ n \in 0..(sent - 1)
      OBVIOUS
    <3>2. n = SendSeqMod * (n \div SendSeqMod) + (n % SendSeqMod)
      BY SendAssumption, <3>1
    <3>. QED
      BY SendAssumption, <1>1, <3>1, <3>2, NextRemainder
  <2>2. sent - 1 = SendSeqMod * ((sent - 1) \div SendSeqMod) + ((sent - 1) % SendSeqMod)
    BY SendAssumption, <1>1, <2>1
  <2>3. RoundStart = SendSeqMod * ((sent - 1) \div SendSeqMod)
    BY SendAssumption, <1>1, <2>2, NextRemainder DEF RoundStart
  <2>4. n % SendSeqMod = n - RoundStart /\ n \in Lowest..(sent - 1)
    BY <1>1, <1>2, <2>1, <2>3 DEF Lowest
  <2>5. <<n % SendSeqMod, n>> \in txBuffer
    BY <2>1, <2>4 DEF Buffered
  <2>. QED
    BY <2>5 DEF Resent
<1>3. ASSUME NEW n \in Resent({m % SendSeqMod : m \in S})
      PROVE  n >= sent - BufSize
  <2>1. PICK e \in txBuffer : n = e[2]
    BY <1>3 DEF Resent
  <2>2. sent # 0 /\ n \in Lowest..(sent - 1)
    BY <2>1 DEF Buffered
  <2>3. RoundStart \in 0..(sent - 1)
    BY <2>2, RoundGoesOn
  <2>. QED
    BY SendAssumption, <1>1, <2>2, <2>3 DEF Lowest
<1>. QED
  BY <1>1, <1>2, <1>3 DEF RightPacketResent

\* A request is answered with the packets it names, and never with those of an
\* earlier round, for any width of the numbers and any size of the buffer.
THEOREM RightPacketAlways == SendSpec => []RightPacketResent
<1>1. SendInit => SendInv
  <2>. SUFFICES ASSUME SendInit
                PROVE  SendInv
    OBVIOUS
  <2>1. Numbers /\ Buffered
    BY SendAssumption DEF SendInit, Numbers, Buffered
  <2>2. RightPacketResent
    BY DEF SendInit, NoAsk, RightPacketResent
  <2>. QED
    BY <2>1, <2>2 DEF SendInv
<1>2. SendInv /\ [SendNext]_sendVars => SendInv'
  <2>. SUFFICES ASSUME SendInv, [SendNext]_sendVars
                PROVE  SendInv'
    OBVIOUS
  <2>. USE DEF SendInv
  <2>1. CASE SendTracked
    <3>1. RightPacketResent'
      BY <2>1 DEF SendTracked, NoAsk, RightPacketResent
    <3>. QED
      BY <2>1, <3>1, SendStep
  <2>2. ASSUME NEW S \in SUBSET (0..(sent - 1)), RadioAsks(S)
        PROVE  SendInv'
    BY <2>2, AskStep DEF RadioAsks, Numbers, Buffered, RoundStart, Lowest
  <2>3. CASE UNCHANGED sendVars
    BY <2>3 DEF sendVars, Numbers, Buffered, RoundStart, Lowest, RightPacketResent
  <2>. QED
    BY <2>1, <2>2, <2>3 DEF SendNext
<1>3. SendInv => RightPacketResent
  BY DEF SendInv
<1>. QED
  BY <1>1, <1>2, <1>3, PTL DEF SendSpec
=============================================================================
