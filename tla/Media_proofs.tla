---------------------------- MODULE Media_proofs ----------------------------
(***************************************************************************)
(* What comes from the radio to be seen and heard: the sweeps of the scope *)
(* (SweepsShownWhole), the streams of the audio bus and the recovery loop  *)
(* (NoDyingStream) and the order in which a stream's packets are played    *)
(* (PlayedInPlace), each for every value of its constants.                 *)
(***************************************************************************)
EXTENDS ScopeAssembly, AudioPath, JitterBuffer, SequenceTheorems, FiniteSetTheorems, TLAPS

(***************************************************************************)
(* The scope assembler (ScopeAssembly).  SweepsShownWhole looks at the     *)
(* frame that a feed() returns; the invariant says what is held before:    *)
(* while the packets of a sweep come in order from its first (inOrder),    *)
(* what is held is exactly those that have come (Holds).                   *)
(***************************************************************************)
\* What is held for a receiver, and what the history says of it.
Assembly == [header : Sweeps \union {NoSweep}, outOfRange : BOOLEAN, chunks : Seq(Sweeps \X Nat), timed : BOOLEAN]
Progress == [sweep : Sweeps \union {NoSweep}, upTo : Nat]

AssemblyTypes ==
    /\ seqMax \in Nat \ {0}
    /\ assembly \in [Receivers -> Assembly] /\ inOrder \in [Receivers -> Progress]
    /\ fedFor \in Receivers \union {NoSweep}
    /\ \A r \in Receivers : assembly[r].timed => assembly[r].header # NoSweep /\ ~assembly[r].outOfRange
    /\ \A r \in Receivers : Len(assembly[r].chunks) <= MaxPieces

\* The packets of sweep w from the second to number k.
Upto(w, k) == [j \in 1..(k - 1) |-> <<w, j + 1>>]

\* While packets of a sweep come in order, what is held is what has come.
Holds(a, o) ==
    o.upTo \in 1..(seqMax - 1) =>
        a.header = o.sweep /\ ~a.outOfRange /\ a.chunks = Upto(o.sweep, o.upTo)

\* The inductive invariant.
AssemblyInv ==
    /\ AssemblyTypes /\ SweepsShownWhole
    /\ \A r \in Receivers : Holds(assembly[r], inOrder[r])

\* One packet more.
LEMMA UptoNext ==
    ASSUME NEW w \in Sweeps, NEW k \in Nat \ {0, 1}
    PROVE  Append(Upto(w, k - 1), <<w, k>>) = Upto(w, k)
<1>1. k - 1 \in Nat /\ k - 2 \in Nat /\ (k - 1) - 1 = k - 2
  OBVIOUS
<1>2. Upto(w, k - 1) = [j \in 1..(k - 2) |-> <<w, j + 1>>] /\ Upto(w, k) = [j \in 1..(k - 1) |-> <<w, j + 1>>]
  BY <1>1 DEF Upto
<1>3. Upto(w, k - 1) \in Seq({w} \X Nat) /\ Upto(w, k) \in Seq({w} \X Nat) /\ <<w, k>> \in {w} \X Nat
  <2>1. \A n \in Nat : \A j \in 1..n : <<w, j + 1>> \in {w} \X Nat
    OBVIOUS
  <2>2. \A n \in Nat : [j \in 1..n |-> <<w, j + 1>>] \in [1..n -> {w} \X Nat]
    BY <2>1
  <2>3. \A n \in Nat : [j \in 1..n |-> <<w, j + 1>>] \in Seq({w} \X Nat)
    BY <2>2, SeqDef
  <2>4. k - 2 \in Nat /\ k - 1 \in Nat
    BY <1>1
  <2>5. <<w, k>> \in {w} \X Nat
    OBVIOUS
  <2>. QED
    BY <1>2, <2>3, <2>4, <2>5
<1>4. Len(Upto(w, k - 1)) = k - 2 /\ Len(Upto(w, k)) = k - 1
  BY <1>1, <1>2
<1>. DEFINE s == Append(Upto(w, k - 1), <<w, k>>)
<1>5. /\ s \in Seq({w} \X Nat) /\ Len(s) = k - 1 /\ s[k - 1] = <<w, k>>
      /\ \A j \in 1..(k - 2) : s[j] = Upto(w, k - 1)[j]
  BY <1>1, <1>3, <1>4, AppendProperties
<1>6. \A j \in 1..(k - 1) : s[j] = Upto(w, k)[j]
  <2>. TAKE j \in 1..(k - 1)
  <2>1. CASE j = k - 1
    BY <1>1, <1>2, <1>5, <2>1
  <2>2. CASE j # k - 1
    <3>1. j \in 1..(k - 2)
      BY <1>1, <2>2
    <3>. QED
      BY <1>2, <1>5, <3>1
  <2>. QED
    BY <2>1, <2>2
<1>. HIDE DEF s
<1>. QED
  BY <1>3, <1>4, <1>5, <1>6, SeqEqual DEF s

\* What Reset, Begun and Added make of what is held.
LEMMA ResetMakes ==
    ASSUME NEW a \in Assembly
    PROVE  /\ Reset(a) \in Assembly
           /\ Reset(a).header = a.header /\ Reset(a).outOfRange = a.outOfRange
           /\ Reset(a).chunks = <<>> /\ ~Reset(a).timed
<1>1. <<>> \in Seq(Sweeps \X Nat)
  OBVIOUS
<1>2. Reset(a) \in Assembly
  BY <1>1 DEF Assembly, Reset
<1>3. Reset(a).header = a.header /\ Reset(a).outOfRange = a.outOfRange /\ Reset(a).chunks = <<>>
  BY DEF Assembly, Reset
<1>4. ~Reset(a).timed
  BY DEF Assembly, Reset
<1>. QED
  BY <1>2, <1>3, <1>4

LEMMA BegunMakes ==
    ASSUME NEW a \in Assembly, NEW w \in Sweeps, NEW out \in BOOLEAN
    PROVE  /\ Begun(a, w, out) \in Assembly
           /\ Begun(a, w, out).header = w /\ Begun(a, w, out).chunks = <<>>
           /\ Begun(a, w, out).outOfRange <=> out
           /\ Begun(a, w, out).timed <=> ~out
<1>1. <<>> \in Seq(Sweeps \X Nat)
  OBVIOUS
<1>2. Begun(a, w, out) \in Assembly
  BY <1>1 DEF Assembly, Reset, Begun
<1>3. /\ Begun(a, w, out).header = w /\ Begun(a, w, out).chunks = <<>>
      /\ Begun(a, w, out).outOfRange <=> out
      /\ Begun(a, w, out).timed <=> ~out
  BY DEF Assembly, Reset, Begun
<1>. QED
  BY <1>2, <1>3

LEMMA AddedMakes ==
    ASSUME NEW a \in Assembly, NEW w \in Sweeps, NEW k \in Nat
    PROVE  /\ Added(a, w, k) \in Assembly
           /\ Added(a, w, k).header = a.header /\ Added(a, w, k).outOfRange = a.outOfRange
           /\ Added(a, w, k).timed = a.timed /\ Added(a, w, k).chunks = Append(a.chunks, <<w, k>>)
<1>1. Append(a.chunks, <<w, k>>) \in Seq(Sweeps \X Nat)
  BY DEF Assembly
<1>2. Added(a, w, k) \in Assembly
  BY <1>1 DEF Assembly, Added
<1>3. /\ Added(a, w, k).header = a.header /\ Added(a, w, k).outOfRange = a.outOfRange
      /\ Added(a, w, k).timed = a.timed /\ Added(a, w, k).chunks = Append(a.chunks, <<w, k>>)
  BY DEF Assembly, Added
<1>. QED
  BY <1>2, <1>3

\* feed() of a packet for receiver r that leaves the others alone.
LEMMA FedKeeps ==
    ASSUME AssemblyInv, NEW r \in Receivers, NEW a \in Assembly, NEW whole \in BOOLEAN, NEW o \in Progress,
           Fed(r, a, whole), inOrder' = [inOrder EXCEPT ![r] = o], seqMax' = seqMax,
           a.timed => a.header # NoSweep /\ ~a.outOfRange, ~whole => Len(a.chunks) <= MaxPieces,
           Holds(IF whole THEN Reset(a) ELSE a, o),
           o.upTo = seqMax => frame' = [header |-> o.sweep, outOfRange |-> FALSE, pixels |-> Pixels(o.sweep)]
    PROVE  AssemblyInv'
<1>. DEFINE b == IF whole THEN Reset(a) ELSE a
<1>1. assembly' = [assembly EXCEPT ![r] = b] /\ fedFor' = r
  BY DEF Fed
<1>2. b \in Assembly /\ (b.timed => b.header # NoSweep /\ ~b.outOfRange) /\ Len(b.chunks) <= MaxPieces
  <2>1. CASE whole
    <3>1. Len(<<>>) = 0
      OBVIOUS
    <3>. QED
      BY <2>1, <3>1, AssemblyConstants, ResetMakes
  <2>2. CASE ~whole
    BY <2>2
  <2>. QED
    BY <2>1, <2>2
<1>3. Holds(b, o)
  OBVIOUS
<1>. HIDE DEF b
<1>4. AssemblyTypes'
  BY <1>1, <1>2 DEF AssemblyInv, AssemblyTypes
<1>5. \A q \in Receivers : Holds(assembly[q], inOrder[q])'
  BY <1>1, <1>3 DEF AssemblyInv, AssemblyTypes, Holds
<1>6. SweepsShownWhole'
  BY <1>1 DEF AssemblyInv, AssemblyTypes, SweepsShownWhole, Pixels
<1>. QED
  BY <1>4, <1>5, <1>6 DEF AssemblyInv

\* feed() of the first packet of a sweep: it ends the history of the one before, and
\* begins its own.
LEMMA FeedFirstKeeps ==
    ASSUME AssemblyInv, NEW r \in Receivers, NEW w \in Sweeps, NEW out \in BOOLEAN, FeedFirst(r, w, out)
    PROVE  AssemblyInv'
<1>. DEFINE a == Begun(assembly[r], w, out)
            o == [sweep |-> w, upTo |-> IF out THEN 0 ELSE 1]
<1>1. assembly[r] \in Assembly /\ seqMax \in Nat \ {0}
  BY DEF AssemblyInv, AssemblyTypes
<1>2. a \in Assembly /\ a.header = w /\ a.chunks = <<>> /\ (a.outOfRange <=> out) /\ (a.timed <=> ~out)
  BY <1>1, BegunMakes
<1>3. Len(a.chunks) = 0 /\ (a.timed => a.header # NoSweep /\ ~a.outOfRange)
  BY <1>2, AssemblyConstants
<1>4. o \in Progress /\ inOrder' = [inOrder EXCEPT ![r] = o] /\ seqMax' = seqMax
  BY DEF FeedFirst, Progress
<1>5. CASE seqMax = 1 /\ ~out
  <2>. DEFINE b == Added(a, w, 1)
  <2>1. b \in Assembly /\ b.header = w /\ ~b.outOfRange /\ b.chunks = <<<<w, 1>>>>
    <3>. HIDE DEF a
    <3>1. /\ b \in Assembly /\ b.header = a.header /\ b.outOfRange = a.outOfRange
          /\ b.chunks = Append(a.chunks, <<w, 1>>)
      <4>1. 1 \in Nat /\ a \in Assembly
        BY <1>2
      <4>. QED
        BY <4>1, AddedMakes
    <3>2. b.chunks = Append(<<>>, <<w, 1>>)
      BY <1>2, <3>1
    <3>3. Append(<<>>, <<w, 1>>) = <<<<w, 1>>>>
      OBVIOUS
    <3>4. ~b.outOfRange
      BY <1>2, <1>5, <3>1, Zenon
    <3>. QED
      BY <1>2, <3>1, <3>2, <3>3, <3>4, Zenon
  <2>2. Fed(r, b, TRUE)
    BY <1>5 DEF FeedFirst
  <2>4. b.timed => b.header # NoSweep /\ ~b.outOfRange
    BY <2>1, AssemblyConstants
  <2>5. frame' = [header |-> o.sweep, outOfRange |-> FALSE, pixels |-> Pixels(o.sweep)]
    <3>1. frame' = Built(b)
      BY <2>2 DEF Fed
    <3>2. b.outOfRange = FALSE
      BY <2>1 DEF Assembly
    <3>3. Pixels(w) = <<<<w, 1>>>>
      BY <1>5 DEF Pixels
    <3>. HIDE DEF b
    <3>. QED
      BY <2>1, <3>1, <3>2, <3>3 DEF Built
  <2>6. Holds(Reset(b), o)
    BY <1>5 DEF Holds
  <2>. HIDE DEF b, o
  <2>. QED
    BY <1>4, <2>1, <2>2, <2>4, <2>5, <2>6, FedKeeps
<1>6. CASE ~(seqMax = 1 /\ ~out)
  <2>1. Fed(r, a, out)
    BY <1>6 DEF FeedFirst
  <2>2. o.upTo # seqMax
    BY <1>1, <1>6
  <2>3. Holds(IF out THEN Reset(a) ELSE a, o)
    <3>1. CASE out
      BY <3>1 DEF Holds
    <3>2. CASE ~out
      <4>1. Upto(w, 1) = <<>>
        BY DEF Upto
      <4>. QED
        BY <1>2, <3>2, <4>1 DEF Holds
    <3>. QED
      BY <3>1, <3>2
  <2>4. Len(a.chunks) <= MaxPieces
    BY <1>3, AssemblyConstants
  <2>. HIDE DEF a, o
  <2>. QED
    BY <1>2, <1>3, <1>4, <2>1, <2>2, <2>3, <2>4, FedKeeps
<1>. QED
  BY <1>5, <1>6

\* feed() of a later packet: one that is next in order adds itself to what is held,
\* and the last of them makes the frame; any other ends the history.
LEMMA FeedNextKeeps ==
    ASSUME AssemblyInv, NEW r \in Receivers, NEW w \in Sweeps, NEW k \in 2..seqMax, NEW slow \in BOOLEAN,
           FeedNext(r, w, k, slow)
    PROVE  AssemblyInv'
<1>. DEFINE a == assembly[r]
            o == [sweep |-> w, upTo |-> IF ~slow /\ inOrder[r] = [sweep |-> w, upTo |-> k - 1] THEN k ELSE 0]
<1>1. /\ a \in Assembly /\ seqMax \in Nat \ {0} /\ k \in Nat \ {0, 1} /\ inOrder[r] \in Progress
      /\ (a.timed => a.header # NoSweep /\ ~a.outOfRange) /\ Len(a.chunks) <= MaxPieces
      /\ a.chunks \in Seq(Sweeps \X Nat) /\ Holds(a, inOrder[r])
  BY DEF AssemblyInv, AssemblyTypes, Assembly
<1>2. o \in Progress /\ inOrder' = [inOrder EXCEPT ![r] = o] /\ seqMax' = seqMax
  BY <1>1 DEF FeedNext, Progress
<1>3. CASE slow
  <2>1. Fed(r, Reset(a), FALSE)
    BY <1>3 DEF FeedNext
  <2>2. o.upTo = 0
    BY <1>3
  <2>4. Reset(a) \in Assembly /\ ~Reset(a).timed /\ Len(Reset(a).chunks) = 0
    <3>1. Len(<<>>) = 0
      OBVIOUS
    <3>. HIDE DEF a
    <3>. QED
      BY <1>1, <3>1, ResetMakes
  <2>5. Holds(Reset(a), o) /\ o.upTo # seqMax
    BY <1>1, <2>2 DEF Holds
  <2>6. Len(Reset(a).chunks) <= MaxPieces
    BY <2>4, AssemblyConstants
  <2>. DEFINE b == Reset(a)
  <2>. HIDE DEF o, a, b
  <2>7. Fed(r, b, FALSE) /\ b \in Assembly /\ ~b.timed /\ Len(b.chunks) <= MaxPieces /\ Holds(b, o) /\ o.upTo # seqMax
    BY <2>1, <2>4, <2>5, <2>6 DEF b
  <2>. QED
    BY <1>2, <2>7, FedKeeps
<1>4. CASE ~slow
  <2>. DEFINE b == Added(a, w, k)
  <2>1. Fed(r, b, k = seqMax)
    BY <1>4 DEF FeedNext
  <2>2. /\ b \in Assembly /\ b.header = a.header /\ b.outOfRange = a.outOfRange
        /\ b.timed = a.timed /\ b.chunks = Append(a.chunks, <<w, k>>)
    <3>. HIDE DEF a
    <3>. QED
      BY <1>1, AddedMakes
  <2>3. Append(a.chunks, <<w, k>>) \in Seq(Sweeps \X Nat) /\ Len(Append(a.chunks, <<w, k>>)) = Len(a.chunks) + 1
    <3>1. <<w, k>> \in Sweeps \X Nat
      BY <1>1
    <3>. QED
      BY <1>1, <3>1, AppendProperties
  <2>4. b \in Assembly /\ (b.timed => b.header # NoSweep /\ ~b.outOfRange)
    BY <1>1, <2>2, <2>3 DEF Assembly
  <2>5. k # seqMax => Len(b.chunks) <= MaxPieces
    <3>1. k # seqMax => Len(a.chunks) < MaxPieces
      BY <1>4 DEF FeedNext
    <3>2. Len(a.chunks) \in Nat
      BY <1>1
    <3>. QED
      BY <2>2, <2>3, <3>1, <3>2, AssemblyConstants
  <2>6. CASE inOrder[r] = [sweep |-> w, upTo |-> k - 1]
    <3>1. o = [sweep |-> w, upTo |-> k]
      BY <1>4, <2>6
    <3>2. a.header = w /\ ~a.outOfRange /\ a.chunks = Upto(w, k - 1)
      <4>1. k - 1 \in 1..(seqMax - 1)
        BY <1>1
      <4>. QED
        BY <1>1, <2>6, <4>1 DEF Holds
    <3>3. b.header = w /\ ~b.outOfRange /\ b.chunks = Upto(w, k)
      <4>1. Append(Upto(w, k - 1), <<w, k>>) = Upto(w, k)
        BY <1>1, UptoNext
      <4>. HIDE DEF a, b
      <4>. QED
        BY <2>2, <3>2, <4>1
    <3>4. Holds(IF k = seqMax THEN Reset(b) ELSE b, o)
      BY <1>1, <3>1, <3>3 DEF Holds
    <3>5. k = seqMax => frame' = [header |-> w, outOfRange |-> FALSE, pixels |-> Pixels(w)]
      <4>1. ASSUME k = seqMax PROVE Pixels(w) = Upto(w, k)
        BY <1>1, <4>1 DEF Pixels, Upto
      <4>2. k = seqMax => frame' = Built(b)
        BY <2>1 DEF Fed
      <4>3. b.outOfRange = FALSE
        BY <1>1, <2>2, <3>2 DEF Assembly
      <4>. HIDE DEF b
      <4>. QED
        BY <3>3, <4>1, <4>2, <4>3 DEF Built
    <3>. HIDE DEF o, a, b
    <3>. QED
      BY <1>2, <2>1, <2>4, <2>5, <3>1, <3>4, <3>5, FedKeeps
  <2>7. CASE inOrder[r] # [sweep |-> w, upTo |-> k - 1]
    <3>1. o.upTo = 0
      BY <2>7
    <3>2. Holds(IF k = seqMax THEN Reset(b) ELSE b, o) /\ o.upTo # seqMax
      BY <1>1, <3>1 DEF Holds
    <3>. HIDE DEF o, a, b
    <3>. QED
      BY <1>2, <2>1, <2>4, <2>5, <3>2, FedKeeps
  <2>. QED
    BY <2>6, <2>7
<1>. QED
  BY <1>3, <1>4

\* shed_incomplete() and what times out drop what is held with its history.
LEMMA ShedKeeps ==
    ASSUME AssemblyInv, ShedIncomplete
    PROVE  AssemblyInv'
<1>. DEFINE shed == {r \in Receivers : assembly[r].timed}
<1>1. /\ assembly' = [r \in Receivers |-> IF r \in shed THEN Reset(assembly[r]) ELSE assembly[r]]
      /\ inOrder' = [r \in Receivers |-> IF r \in shed THEN [inOrder[r] EXCEPT !.upTo = 0] ELSE inOrder[r]]
      /\ fedFor' = NoSweep /\ seqMax' = seqMax
  BY DEF ShedIncomplete
<1>. HIDE DEF shed
<1>2. ASSUME NEW r \in Receivers
      PROVE  /\ assembly'[r] \in Assembly /\ inOrder'[r] \in Progress
             /\ assembly'[r].timed => assembly'[r].header # NoSweep /\ ~assembly'[r].outOfRange
             /\ Len(assembly'[r].chunks) <= MaxPieces
             /\ Holds(assembly'[r], inOrder'[r])
  <2>1. /\ assembly[r] \in Assembly /\ inOrder[r] \in Progress
        /\ assembly[r].timed => assembly[r].header # NoSweep /\ ~assembly[r].outOfRange
        /\ Len(assembly[r].chunks) <= MaxPieces /\ Holds(assembly[r], inOrder[r])
    BY DEF AssemblyInv, AssemblyTypes
  <2>2. CASE r \in shed
    <3>0. assembly'[r] = Reset(assembly[r]) /\ Len(<<>>) = 0
      BY <1>1, <2>2
    <3>1. assembly'[r] \in Assembly /\ ~assembly'[r].timed /\ Len(assembly'[r].chunks) = 0
      BY <2>1, <3>0, ResetMakes
    <3>2. inOrder'[r] = [sweep |-> inOrder[r].sweep, upTo |-> 0]
      BY <1>1, <2>1, <2>2 DEF Progress
    <3>. QED
      BY <2>1, <3>1, <3>2, AssemblyConstants DEF Assembly, Progress, Holds
  <2>3. CASE r \notin shed
    BY <1>1, <2>1, <2>3
  <2>. QED
    BY <2>2, <2>3
<1>3. AssemblyTypes'
  <2>1. assembly' \in [Receivers -> Assembly] /\ inOrder' \in [Receivers -> Progress]
    BY <1>1, <1>2
  <2>. QED
    BY <1>1, <1>2, <2>1 DEF AssemblyInv, AssemblyTypes
<1>4. SweepsShownWhole'
  BY <1>1, AssemblyConstants DEF SweepsShownWhole
<1>5. \A r \in Receivers : Holds(assembly[r], inOrder[r])'
  BY <1>1, <1>2 DEF Holds
<1>. QED
  BY <1>3, <1>4, <1>5 DEF AssemblyInv

\* What is held is what the history says has come in order (feed() and
\* shed_incomplete() of scope/__init__.py).
THEOREM AssemblyInvariance == AssemblySpec => []AssemblyInv
<1>1. AssemblyInit => AssemblyInv
  <2>. SUFFICES ASSUME AssemblyInit PROVE AssemblyInv
    OBVIOUS
  <2>1. /\ assembly = [r \in Receivers |-> [header |-> NoSweep, outOfRange |-> FALSE, chunks |-> <<>>, timed |-> FALSE]]
        /\ inOrder = [r \in Receivers |-> [sweep |-> NoSweep, upTo |-> 0]]
        /\ fedFor = NoSweep /\ seqMax \in Nat \ {0}
    BY AssemblyConstants DEF AssemblyInit
  <2>2. AssemblyTypes
    <3>0. <<>> \in Seq(Sweeps \X Nat) /\ Len(<<>>) = 0
      OBVIOUS
    <3>1. /\ [header |-> NoSweep, outOfRange |-> FALSE, chunks |-> <<>>, timed |-> FALSE] \in Assembly
          /\ [sweep |-> NoSweep, upTo |-> 0] \in Progress
      BY <3>0 DEF Assembly, Progress
    <3>2. assembly \in [Receivers -> Assembly] /\ inOrder \in [Receivers -> Progress]
      BY <2>1, <3>1
    <3>3. \A r \in Receivers : assembly[r].chunks = <<>> /\ ~assembly[r].timed
      BY <2>1
    <3>4. \A r \in Receivers : assembly[r].timed => assembly[r].header # NoSweep /\ ~assembly[r].outOfRange
      BY <3>3, Zenon
    <3>5. \A r \in Receivers : Len(assembly[r].chunks) <= MaxPieces
      <4>1. \A r \in Receivers : Len(assembly[r].chunks) = 0
        BY <3>0, <3>3, Zenon
      <4>2. 0 <= MaxPieces
        BY AssemblyConstants
      <4>. QED
        BY <4>1, <4>2, Zenon
    <3>. QED
      BY <2>1, <3>2, <3>4, <3>5 DEF AssemblyTypes
  <2>. QED
    BY <2>1, <2>2, AssemblyConstants DEF AssemblyInv, SweepsShownWhole, Holds
<1>2. ASSUME AssemblyInv, [AssemblyNext]_assemblyAll PROVE AssemblyInv'
  <2>1. CASE UNCHANGED assemblyAll
    BY <1>2, <2>1 DEF assemblyAll, AssemblyInv, AssemblyTypes, SweepsShownWhole, Holds, Pixels
  <2>. QED
    BY <1>2, <2>1, FeedFirstKeeps, FeedNextKeeps, ShedKeeps DEF AssemblyNext
<1>. QED
  BY <1>1, <1>2, PTL DEF AssemblySpec

\* What is held for each receiver (_ReceiverState of scope/__init__.py).
THEOREM AssemblyTypeCorrect == AssemblySpec => []AssemblyTypeOK
<1>1. AssemblyInv => AssemblyTypeOK
  BY DEF AssemblyInv, AssemblyTypes, AssemblyTypeOK, Assembly
<1>. QED
  BY <1>1, AssemblyInvariance, PTL

\* A sweep that arrives whole, in order and in time is shown as it was sent (feed()
\* of scope/__init__.py), for any receivers, sweeps and numbers of packets.
THEOREM WholeSweepsAreShown == AssemblySpec => []SweepsShownWhole
<1>. QED
  BY AssemblyInvariance, PTL DEF AssemblyInv


-----------------------------------------------------------------------------
(***************************************************************************)
(* The audio bus, its stream and the recovery (AudioPath).  Members and    *)
(* LockHeld hold in every run: a subscription is one consumer's, whoever   *)
(* waits at the lock waits for what its consumer still wants, and the call *)
(* at an await is the first at the lock.  Sound is what NoDyingStream      *)
(* needs: before the connection has been lost at an await of the bus       *)
(* (disturbed) and before a start has been tried again (retried), the bus, *)
(* the stream and the recovery agree at each await of each of them on who  *)
(* receives.                                                               *)
(***************************************************************************)
\* What waits at the lock, and a stream.
Call   == [op : {"add", "remove"}, sub : 1..MaxSubs]
Stream == [state : {"idle", "receiving", "transmitting"}, task : BOOLEAN, callback : BOOLEAN]

Adding(n)   == [op |-> "add", sub |-> n]
Removing(n) == [op |-> "remove", sub |-> n]

\* Who has a subscription, who is subscribed, who waits at the lock.
BusTypes ==
    /\ mine \in [Consumers -> 0..MaxSubs] /\ made \in 0..MaxSubs /\ \A c \in Consumers : mine[c] <= made
    /\ subscribers \subseteq 1..made /\ removals \subseteq 1..made
    /\ lockQueue \in Seq(Call)

StreamTypes ==
    /\ streams \in Seq(Stream) /\ cur \in 0..Len(streams) /\ busStop \in 0..Len(streams)
    /\ opening \subseteq {"bus", "loop"}
    /\ loop \in {"idle", "attempt", "stopping", "connecting", "recovering"}
    /\ loop = "stopping" => cur # 0
    /\ snapshot \in [rx : BOOLEAN, tx : BOOLEAN]
    /\ rxActive \in BOOLEAN /\ holding \in BOOLEAN /\ userCallback \in BOOLEAN
    /\ up \in BOOLEAN /\ retried \in BOOLEAN /\ disturbed \in BOOLEAN

\* A subscription is its consumer's until it is left; a call to add it waits
\* while it is its consumer's, a call to remove it when it no longer is.
Members ==
    /\ \A c, d \in Consumers : mine[c] # 0 /\ mine[c] = mine[d] => c = d
    /\ \A n \in removals, c \in Consumers : mine[c] # n
    /\ \A n \in 1..MaxSubs : Contains(lockQueue, Removing(n)) => n <= made /\ \A c \in Consumers : mine[c] # n
    /\ \A n \in 1..MaxSubs : Contains(lockQueue, Adding(n)) => \E c \in Consumers : mine[c] = n
    /\ \A n \in subscribers : \/ n \in removals \/ Contains(lockQueue, Removing(n))
                              \/ \E c \in Consumers : mine[c] = n
    /\ \A c \in Consumers : mine[c] # 0 => mine[c] \in subscribers \/ Contains(lockQueue, Adding(mine[c]))

\* The call at an await is the first at the lock, and has done its part.
LockHeld ==
    /\ holding <=> busStop # 0 \/ "bus" \in opening
    /\ holding => lockQueue # <<>>
    /\ busStop # 0 => Head(lockQueue).op = "remove" /\ Head(lockQueue).sub \notin subscribers
    /\ "bus" \in opening => Head(lockQueue).op = "add" /\ Head(lockQueue).sub \in subscribers

Sound ==
    /\ up <=> loop = "idle" \/ loop = "recovering"
    /\ "bus" \in opening => subscribers # {} /\ ~rxActive /\ cur = 0
    /\ "bus" \notin opening => (rxActive <=> subscribers # {})
    /\ busStop # 0 => ~rxActive
    /\ userCallback <=> rxActive
    /\ "loop" \in opening => loop = "recovering"
    /\ loop = "idle" \/ loop = "attempt" =>
          /\ rxActive => Receiving
          /\ ~rxActive => cur = 0 \/ streams[cur].state = "idle"
    /\ loop = "stopping" => rxActive /\ cur # 0 /\ streams[cur].state = "idle" /\ snapshot.rx /\ ~snapshot.tx
    /\ loop = "connecting" => cur = 0 /\ (snapshot.rx <=> rxActive) /\ ~snapshot.tx
    /\ loop = "recovering" => cur = 0 /\ rxActive /\ snapshot.rx /\ ~snapshot.tx

AudioInv == BusTypes /\ StreamTypes /\ Members /\ LockHeld /\ (~disturbed /\ ~retried => Sound)

-----------------------------------------------------------------------------
\* A call that comes to the lock.
LEMMA CallWaits ==
    ASSUME NEW q \in Seq(Call), NEW x \in Call
    PROVE  /\ Append(q, x) \in Seq(Call) /\ Append(q, x) # <<>>
           /\ \A e : Contains(Append(q, x), e) <=> Contains(q, e) \/ e = x
           /\ q # <<>> => Head(Append(q, x)) = Head(q)
<1>1. /\ Append(q, x) \in Seq(Call) /\ Append(q, x) # <<>> /\ Len(Append(q, x)) = Len(q) + 1
      /\ Append(q, x)[Len(q) + 1] = x /\ \A i \in 1..Len(q) : Append(q, x)[i] = q[i]
  BY AppendProperties
<1>2. Len(q) \in Nat
  OBVIOUS
<1>3. \A e : Contains(Append(q, x), e) <=> Contains(q, e) \/ e = x
  <2>. TAKE e
  <2>1. ASSUME NEW i \in 1..Len(Append(q, x)), Append(q, x)[i] = e PROVE Contains(q, e) \/ e = x
    <3>1. i \in 1..Len(q) \/ i = Len(q) + 1
      BY <1>1, <1>2
    <3>. QED
      BY <1>1, <2>1, <3>1 DEF Contains
  <2>2. ASSUME NEW i \in 1..Len(q), q[i] = e PROVE Contains(Append(q, x), e)
    <3>1. i \in 1..Len(Append(q, x))
      BY <1>1, <1>2
    <3>. QED
      BY <1>1, <2>2, <3>1 DEF Contains
  <2>3. Contains(Append(q, x), x)
    <3>1. Len(q) + 1 \in 1..Len(Append(q, x))
      BY <1>1, <1>2
    <3>. QED
      BY <1>1, <3>1 DEF Contains
  <2>. QED
    BY <2>1, <2>2, <2>3 DEF Contains
<1>4. q # <<>> => Head(Append(q, x)) = Head(q)
  BY HeadTailAppend
<1>. QED
  BY <1>1, <1>3, <1>4

\* The first call, and the others when it is done.
LEMMA CallDone ==
    ASSUME NEW q \in Seq(Call), q # <<>>
    PROVE  /\ Head(q) \in Call /\ Tail(q) \in Seq(Call) /\ Contains(q, Head(q))
           /\ \A e : Contains(Tail(q), e) => Contains(q, e)
           /\ \A e : Contains(q, e) => e = Head(q) \/ Contains(Tail(q), e)
           /\ Head(q).sub \in 1..MaxSubs
           /\ Head(q).op = "add" => Head(q) = Adding(Head(q).sub)
           /\ Head(q).op = "remove" => Head(q) = Removing(Head(q).sub)
           /\ Head(q).op = "add" \/ Head(q).op = "remove"
<1>1. /\ Head(q) \in Call /\ Tail(q) \in Seq(Call) /\ Len(Tail(q)) = Len(q) - 1
      /\ \A i \in 1..Len(Tail(q)) : Tail(q)[i] = q[i + 1]
  BY HeadTailProperties
<1>2. Len(q) \in Nat \ {0} /\ Head(q) = q[1]
  OBVIOUS
<1>3. Contains(q, Head(q))
  BY <1>2 DEF Contains
<1>4. ASSUME NEW e, Contains(Tail(q), e) PROVE Contains(q, e)
  <2>1. PICK i \in 1..Len(Tail(q)) : Tail(q)[i] = e
    BY <1>4 DEF Contains
  <2>2. i + 1 \in 1..Len(q)
    BY <1>1, <1>2
  <2>. QED
    BY <1>1, <2>1, <2>2 DEF Contains
<1>5. ASSUME NEW e, Contains(q, e) PROVE e = Head(q) \/ Contains(Tail(q), e)
  <2>1. PICK i \in 1..Len(q) : q[i] = e
    BY <1>5 DEF Contains
  <2>2. CASE i = 1
    BY <1>2, <2>1, <2>2
  <2>3. CASE i # 1
    <3>1. i - 1 \in 1..Len(Tail(q)) /\ (i - 1) + 1 = i
      BY <1>1, <1>2, <2>3
    <3>2. Tail(q)[i - 1] = e
      BY <1>1, <2>1, <3>1
    <3>. QED
      BY <3>1, <3>2 DEF Contains
  <2>. QED
    BY <2>2, <2>3
<1>6. /\ Head(q).sub \in 1..MaxSubs
      /\ Head(q).op = "add" => Head(q) = Adding(Head(q).sub)
      /\ Head(q).op = "remove" => Head(q) = Removing(Head(q).sub)
      /\ Head(q).op = "add" \/ Head(q).op = "remove"
  BY <1>1 DEF Call, Adding, Removing
<1>. QED
  BY <1>1, <1>3, <1>4, <1>5, <1>6

\* Calls for different subscriptions, or of different kinds, are different.
LEMMA CallsDiffer ==
    /\ \A m, n : Adding(m) = Adding(n) => m = n
    /\ \A m, n : Removing(m) = Removing(n) => m = n
    /\ \A m, n : Adding(m) # Removing(n)
    /\ \A n \in 1..MaxSubs : Adding(n) \in Call /\ Removing(n) \in Call
<1>1. \A m, n : Adding(m) = Adding(n) => m = n
  <2>1. \A n : Adding(n).sub = n
    BY DEF Adding
  <2>. QED
    BY <2>1
<1>2. \A m, n : Removing(m) = Removing(n) => m = n
  <2>1. \A n : Removing(n).sub = n
    BY DEF Removing
  <2>. QED
    BY <2>1
<1>3. \A m, n : Adding(m) # Removing(n)
  <2>1. \A n : Adding(n).op = "add" /\ Removing(n).op = "remove"
    BY DEF Adding, Removing
  <2>2. "add" # "remove"
    OBVIOUS
  <2>. QED
    BY <2>1, <2>2, Zenon
<1>4. \A n \in 1..MaxSubs : Adding(n) \in Call /\ Removing(n) \in Call
  BY DEF Adding, Removing, Call
<1>. QED
  BY <1>1, <1>2, <1>3, <1>4

-----------------------------------------------------------------------------
\* The first call does its part and stays, or is done with.
LEMMA CallKeepsMembers ==
    ASSUME BusTypes, Members, lockQueue # <<>>,
           UNCHANGED <<mine, made, removals>>, lockQueue' \in {lockQueue, Tail(lockQueue)},
           Head(lockQueue).op = "add" => subscribers' = subscribers \union {Head(lockQueue).sub},
           Head(lockQueue).op = "remove" => subscribers' = subscribers \ {Head(lockQueue).sub}
    PROVE  BusTypes' /\ Members'
<1>. DEFINE h == Head(lockQueue)
            n0 == h.sub
<1>1. /\ h \in Call /\ Tail(lockQueue) \in Seq(Call) /\ Contains(lockQueue, h)
      /\ \A e : Contains(Tail(lockQueue), e) => Contains(lockQueue, e)
      /\ \A e : Contains(lockQueue, e) => e = h \/ Contains(Tail(lockQueue), e)
      /\ n0 \in 1..MaxSubs
      /\ h.op = "add" => h = Adding(n0)
      /\ h.op = "remove" => h = Removing(n0)
      /\ h.op = "add" \/ h.op = "remove"
  BY CallDone DEF BusTypes
<1>. HIDE DEF h, n0
<1>2. /\ mine' = mine /\ made' = made /\ removals' = removals
      /\ lockQueue' = lockQueue \/ lockQueue' = Tail(lockQueue)
      /\ h.op = "add" => subscribers' = subscribers \union {n0}
      /\ h.op = "remove" => subscribers' = subscribers \ {n0}
  BY DEF h, n0
<1>3. /\ \A e : Contains(lockQueue', e) => Contains(lockQueue, e)
      /\ \A e : Contains(lockQueue, e) => e = h \/ Contains(lockQueue', e)
      /\ lockQueue' \in Seq(Call)
  BY <1>1, <1>2 DEF BusTypes
<1>4. \A c \in Consumers : mine[c] # 0 => mine[c] \in 1..MaxSubs
  BY AudioLimits DEF BusTypes
<1>5. CASE h.op = "add"
  <2>1. n0 \in 1..made /\ \E c \in Consumers : mine[c] = n0
    <3>1. PICK c \in Consumers : mine[c] = n0
      BY <1>1, <1>5 DEF Members
    <3>. QED
      BY <1>1, <3>1 DEF BusTypes
  <2>2. BusTypes'
    BY <1>2, <1>3, <1>5, <2>1 DEF BusTypes
  <2>3. \A n \in subscribers' : \/ n \in removals' \/ Contains(lockQueue', Removing(n))
                                \/ \E c \in Consumers : mine'[c] = n
    <3>1. \A n : Removing(n) # h
      BY <1>1, <1>5, CallsDiffer
    <3>. QED
      BY <1>2, <1>3, <1>5, <2>1, <3>1 DEF Members
  <2>4. \A c \in Consumers : mine'[c] # 0 => mine'[c] \in subscribers' \/ Contains(lockQueue', Adding(mine'[c]))
    BY <1>1, <1>2, <1>3, <1>5, CallsDiffer DEF Members
  <2>. QED
    BY <1>2, <1>3, <2>2, <2>3, <2>4 DEF Members
<1>6. CASE h.op = "remove"
  <2>1. \A c \in Consumers : mine[c] # n0
    BY <1>1, <1>6 DEF Members
  <2>2. BusTypes'
    BY <1>2, <1>3, <1>6, <2>1 DEF BusTypes
  <2>3. \A n \in subscribers' : \/ n \in removals' \/ Contains(lockQueue', Removing(n))
                                \/ \E c \in Consumers : mine'[c] = n
    <3>1. \A n \in subscribers' : Removing(n) # h
      BY <1>1, <1>2, <1>6, CallsDiffer
    <3>. QED
      BY <1>2, <1>3, <1>6, <2>1, <3>1 DEF Members
  <2>4. \A c \in Consumers : mine'[c] # 0 => mine'[c] \in subscribers' \/ Contains(lockQueue', Adding(mine'[c]))
    BY <1>1, <1>2, <1>3, <1>6, <2>1, CallsDiffer DEF Members
  <2>. QED
    BY <1>2, <1>3, <2>2, <2>3, <2>4 DEF Members
<1>. QED
  BY <1>1, <1>5, <1>6

\* start() of a subscription.
LEMMA JoinKeepsMembers ==
    ASSUME BusTypes, Members, NEW c \in Consumers, Join(c)
    PROVE  BusTypes' /\ Members'
<1>. DEFINE n0 == made + 1
<1>1. /\ mine[c] = 0 /\ made < MaxSubs /\ made' = n0 /\ mine' = [mine EXCEPT ![c] = n0]
      /\ lockQueue' = Append(lockQueue, Adding(n0)) /\ subscribers' = subscribers /\ removals' = removals
  BY DEF Join, Adding
<1>2. n0 \in 1..MaxSubs /\ n0 \notin 1..made /\ n0 \notin subscribers /\ n0 \notin removals
  BY <1>1, AudioLimits DEF BusTypes
<1>3. \A d \in Consumers : mine[d] # n0
  BY <1>2 DEF BusTypes
<1>4. mine'[c] = n0 /\ \A d \in Consumers : d # c => mine'[d] = mine[d]
  BY <1>1 DEF BusTypes
<1>. HIDE DEF n0
<1>5. /\ lockQueue' \in Seq(Call)
      /\ \A e : Contains(lockQueue', e) <=> Contains(lockQueue, e) \/ e = Adding(n0)
  BY <1>1, <1>2, CallsDiffer, CallWaits DEF BusTypes
<1>6. BusTypes'
  <2>1. mine' \in [Consumers -> 0..MaxSubs]
    BY <1>1, <1>2 DEF BusTypes
  <2>2. made' \in 0..MaxSubs /\ \A d \in Consumers : mine'[d] <= made'
    BY <1>1, <1>2, <1>4 DEF BusTypes, n0
  <2>3. 1..made \subseteq 1..made'
    BY <1>1 DEF BusTypes, n0
  <2>. QED
    BY <1>1, <1>5, <2>1, <2>2, <2>3 DEF BusTypes
<1>7. Members'
  <2>1. \A d, e \in Consumers : mine'[d] # 0 /\ mine'[d] = mine'[e] => d = e
    BY <1>3, <1>4 DEF Members
  <2>2. \A n \in removals', d \in Consumers : mine'[d] # n
    BY <1>1, <1>2, <1>4 DEF Members
  <2>3. \A n \in 1..MaxSubs : Contains(lockQueue', Removing(n)) => n <= made' /\ \A d \in Consumers : mine'[d] # n
    <3>. TAKE n \in 1..MaxSubs
    <3>. HAVE Contains(lockQueue', Removing(n))
    <3>1. Contains(lockQueue, Removing(n))
      BY <1>5, CallsDiffer
    <3>2. n <= made /\ \A d \in Consumers : mine[d] # n
      BY <3>1 DEF Members
    <3>3. n # n0 /\ n <= made'
      BY <1>1, <1>2, <3>2 DEF BusTypes, n0
    <3>. QED
      BY <1>4, <3>2, <3>3
  <2>4. \A n \in 1..MaxSubs : Contains(lockQueue', Adding(n)) => \E d \in Consumers : mine'[d] = n
    <3>. TAKE n \in 1..MaxSubs
    <3>. HAVE Contains(lockQueue', Adding(n))
    <3>1. CASE n = n0
      BY <1>4, <3>1
    <3>2. CASE n # n0
      <4>1. PICK d \in Consumers : mine[d] = n
        BY <1>5, <3>2, CallsDiffer DEF Members
      <4>2. d # c
        BY <1>1, <4>1
      <4>. QED
        BY <1>4, <4>1, <4>2
    <3>. QED
      BY <3>1, <3>2
  <2>5. \A n \in subscribers' : \/ n \in removals' \/ Contains(lockQueue', Removing(n))
                                \/ \E d \in Consumers : mine'[d] = n
    <3>. TAKE n \in subscribers'
    <3>1. ASSUME NEW d \in Consumers, mine[d] = n PROVE \E e \in Consumers : mine'[e] = n
      <4>1. n # 0
        BY <1>1 DEF BusTypes
      <4>. QED
        BY <1>1, <1>4, <3>1, <4>1
    <3>. QED
      BY <1>1, <1>5, <3>1 DEF Members
  <2>6. \A d \in Consumers : mine'[d] # 0 => mine'[d] \in subscribers' \/ Contains(lockQueue', Adding(mine'[d]))
    BY <1>1, <1>4, <1>5 DEF Members
  <2>. QED
    BY <2>1, <2>2, <2>3, <2>4, <2>5, <2>6 DEF Members
<1>. QED
  BY <1>6, <1>7

\* stop() of a subscription whose start() has returned.
LEMMA LeaveKeepsMembers ==
    ASSUME BusTypes, Members, NEW c \in Consumers, Leave(c)
    PROVE  BusTypes' /\ Members'
<1>. DEFINE n0 == mine[c]
<1>1. /\ n0 # 0 /\ ~Contains(lockQueue, Adding(n0))
      /\ mine' = [mine EXCEPT ![c] = 0] /\ removals' = removals \union {n0}
      /\ made' = made /\ lockQueue' = lockQueue /\ subscribers' = subscribers
  BY DEF Leave, Adding
<1>2. n0 \in 1..made
  BY <1>1, AudioLimits DEF BusTypes
<1>3. mine'[c] = 0 /\ \A d \in Consumers : d # c => mine'[d] = mine[d] /\ mine[d] # n0
  BY <1>1 DEF BusTypes, Members
<1>4. BusTypes'
  <2>1. 0 \in 0..MaxSubs /\ 0 <= made
    BY AudioLimits DEF BusTypes
  <2>2. mine' \in [Consumers -> 0..MaxSubs]
    BY <1>1, <2>1 DEF BusTypes
  <2>3. \A d \in Consumers : mine'[d] <= made'
    BY <1>1, <1>3, <2>1 DEF BusTypes
  <2>. QED
    BY <1>1, <1>2, <2>2, <2>3 DEF BusTypes
<1>5. \A n \in removals' : n # 0
  BY <1>1 DEF BusTypes
<1>. HIDE DEF n0
<1>6. Members'
  <2>1. \A d, e \in Consumers : mine'[d] # 0 /\ mine'[d] = mine'[e] => d = e
    BY <1>3 DEF Members
  <2>2. \A n \in removals', d \in Consumers : mine'[d] # n
    BY <1>1, <1>3, <1>5 DEF Members
  <2>3. \A n \in 1..MaxSubs : Contains(lockQueue', Removing(n)) => n <= made' /\ \A d \in Consumers : mine'[d] # n
    BY <1>1, <1>3 DEF Members
  <2>4. \A n \in 1..MaxSubs : Contains(lockQueue', Adding(n)) => \E d \in Consumers : mine'[d] = n
    <3>. TAKE n \in 1..MaxSubs
    <3>. HAVE Contains(lockQueue', Adding(n))
    <3>1. n # n0 /\ \E d \in Consumers : mine[d] = n
      BY <1>1 DEF Members
    <3>. QED
      BY <1>3, <3>1 DEF n0
  <2>5. \A n \in subscribers' : \/ n \in removals' \/ Contains(lockQueue', Removing(n))
                                \/ \E d \in Consumers : mine'[d] = n
    BY <1>1, <1>3 DEF Members, n0
  <2>6. \A d \in Consumers : mine'[d] # 0 => mine'[d] \in subscribers' \/ Contains(lockQueue', Adding(mine'[d]))
    BY <1>1, <1>3 DEF Members
  <2>. QED
    BY <2>1, <2>2, <2>3, <2>4, <2>5, <2>6 DEF Members
<1>. QED
  BY <1>4, <1>6

\* The task made by stop() comes to the lock.
LEMMA RemovalKeepsMembers ==
    ASSUME BusTypes, Members, NEW n0 \in 1..MaxSubs, RemovalBegins(n0)
    PROVE  BusTypes' /\ Members'
<1>1. /\ n0 \in removals /\ removals' = removals \ {n0}
      /\ lockQueue' = Append(lockQueue, Removing(n0))
      /\ mine' = mine /\ made' = made /\ subscribers' = subscribers
  BY DEF RemovalBegins, Removing
<1>2. /\ lockQueue' \in Seq(Call)
      /\ \A e : Contains(lockQueue', e) <=> Contains(lockQueue, e) \/ e = Removing(n0)
  BY <1>1, CallsDiffer, CallWaits DEF BusTypes
<1>3. BusTypes'
  BY <1>1, <1>2 DEF BusTypes
<1>4. n0 <= made /\ \A c \in Consumers : mine[c] # n0
  BY <1>1 DEF BusTypes, Members
<1>5. Members'
  <2>1. \A n \in 1..MaxSubs : Contains(lockQueue', Removing(n)) => n <= made' /\ \A d \in Consumers : mine'[d] # n
    BY <1>1, <1>2, <1>4, CallsDiffer DEF Members
  <2>2. \A n \in 1..MaxSubs : Contains(lockQueue', Adding(n)) => \E d \in Consumers : mine'[d] = n
    BY <1>1, <1>2, CallsDiffer DEF Members
  <2>3. \A n \in subscribers' : \/ n \in removals' \/ Contains(lockQueue', Removing(n))
                                \/ \E d \in Consumers : mine'[d] = n
    BY <1>1, <1>2 DEF Members
  <2>4. \A d \in Consumers : mine'[d] # 0 => mine'[d] \in subscribers' \/ Contains(lockQueue', Adding(mine'[d]))
    BY <1>1, <1>2 DEF Members
  <2>. QED
    BY <1>1, <2>1, <2>2, <2>3, <2>4 DEF Members
<1>. QED
  BY <1>3, <1>5

-----------------------------------------------------------------------------
\* What becomes of a stream.
LEMMA StreamMakes ==
    ASSUME NEW s \in Stream
    PROVE  /\ Stopping(s) \in Stream /\ Stopping(s).state = "idle"
           /\ Stopped(s) \in Stream /\ Stopped(s).state = s.state
           /\ Talking(s) \in Stream
           /\ Hushed(s) \in Stream
<1>1. /\ Stopping(s) \in Stream /\ Stopping(s).state = "idle"
      /\ Stopped(s) \in Stream /\ Stopped(s).state = s.state
      /\ Talking(s) \in Stream
  BY DEF Stream, Stopping, Stopped, Talking
<1>2. CASE s.state # "transmitting"
  BY <1>1, <1>2 DEF Stream, Hushed
<1>3. CASE s.state = "transmitting" /\ s.task
  BY <1>1, <1>3 DEF Stream, Hushed
<1>4. CASE s.state = "transmitting" /\ ~s.task
  BY <1>1, <1>4 DEF Stream, Hushed
<1>. QED
  BY <1>2, <1>3, <1>4

\* A stream that starts receives.
LEMMA StartedMakes ==
    /\ NewStream \in Stream /\ NewStream.state = "idle"
    /\ Started(NewStream) \in Stream /\ Started(NewStream).state = "receiving"
    /\ \A s : Started(s) = Started(NewStream)
<1>. QED
  BY DEF NewStream, Started, Stream

\* One stream of several changes.
LEMMA StreamChanges ==
    ASSUME NEW ss \in Seq(Stream), NEW k \in 1..Len(ss), NEW s \in Stream
    PROVE  /\ ss[k] \in Stream
           /\ [ss EXCEPT ![k] = s] \in Seq(Stream) /\ Len([ss EXCEPT ![k] = s]) = Len(ss)
           /\ [ss EXCEPT ![k] = s][k] = s
           /\ \A j \in 1..Len(ss) : j # k => [ss EXCEPT ![k] = s][j] = ss[j]
<1>. QED
  BY ExceptSeq

\* One stream more.
LEMMA StreamMore ==
    ASSUME NEW ss \in Seq(Stream)
    PROVE  /\ Append(ss, NewStream) \in Seq(Stream) /\ Len(Append(ss, NewStream)) = Len(ss) + 1
           /\ Append(ss, NewStream)[Len(ss) + 1] = NewStream
           /\ Len(ss) \in Nat /\ Len(ss) + 1 \in 1..Len(Append(ss, NewStream))
<1>1. Len(ss) \in Nat
  OBVIOUS
<1>2. /\ Append(ss, NewStream) \in Seq(Stream) /\ Len(Append(ss, NewStream)) = Len(ss) + 1
      /\ Append(ss, NewStream)[Len(ss) + 1] = NewStream
  BY AppendProperties, StartedMakes
<1>. QED
  BY <1>1, <1>2

\* The radio's stream, when there is one.
LEMMA TheStream ==
    ASSUME StreamTypes
    PROVE  /\ cur # 0 => cur \in 1..Len(streams) /\ streams[cur] \in Stream
           /\ busStop # 0 => busStop \in 1..Len(streams) /\ streams[busStop] \in Stream
           /\ Len(streams) \in Nat
<1>1. Len(streams) \in Nat
  BY DEF StreamTypes
<1>. QED
  BY <1>1 DEF StreamTypes

-----------------------------------------------------------------------------
\* A step that leaves the bus alone.
LEMMA BusUntouched ==
    ASSUME BusTypes, Members, LockHeld,
           UNCHANGED <<mine, made, subscribers, removals, lockQueue, holding, busStop>>,
           "bus" \in opening' <=> "bus" \in opening
    PROVE  BusTypes' /\ Members' /\ LockHeld'
<1>. QED
  BY DEF BusTypes, Members, LockHeld

\* A call that comes to the lock changes neither the stream nor who holds the lock.
LEMMA WaitingKeeps ==
    ASSUME AudioInv, BusTypes', Members',
           UNCHANGED <<subscribers, rxActive, holding, busStop, streamVars, loopVars, disturbed>>,
           \/ lockQueue' = lockQueue
           \/ \E x \in Call : lockQueue' = Append(lockQueue, x)
    PROVE  AudioInv'
<1>1. lockQueue # <<>> => lockQueue' # <<>> /\ Head(lockQueue') = Head(lockQueue)
  BY CallWaits DEF AudioInv, BusTypes
<1>2. LockHeld'
  <2>1. holding => lockQueue # <<>>
    BY DEF AudioInv, LockHeld
  <2>2. holding <=> busStop # 0 \/ "bus" \in opening
    BY DEF AudioInv, LockHeld
  <2>. QED
    BY <1>1, <2>1, <2>2 DEF AudioInv, LockHeld, streamVars
<1>3. StreamTypes'
  BY DEF AudioInv, StreamTypes, streamVars, loopVars
<1>4. ~disturbed' /\ ~retried' => Sound'
  BY DEF AudioInv, Sound, Receiving, streamVars, loopVars
<1>. QED
  BY <1>2, <1>3, <1>4 DEF AudioInv

\* _add_subscriber() begins.
LEMMA AddKeeps ==
    ASSUME AudioInv, AddSubscriber
    PROVE  AudioInv'
<1>. DEFINE h == Head(lockQueue)
<1>1. /\ lockQueue # <<>> /\ ~holding /\ h.op = "add" /\ subscribers' = subscribers \union {h.sub}
      /\ UNCHANGED <<mine, made, removals, busStop, cur, loopVars, talks>>
      /\ lockQueue' \in {lockQueue, Tail(lockQueue)}
  BY DEF AddSubscriber, Turn
<1>2. BusTypes' /\ Members'
  <2>1. h.op # "remove"
    BY <1>1
  <2>. QED
    BY <1>1, <2>1, CallKeepsMembers DEF AudioInv
<1>3. busStop = 0 /\ "bus" \notin opening /\ busStop' = 0
  BY <1>1 DEF AudioInv, LockHeld
<1>4. StreamTypes
  BY DEF AudioInv
<1>5. CASE ~rxActive /\ up /\ cur = 0
  <2>1. /\ holding' = TRUE /\ opening' = opening \union {"bus"}
        /\ disturbed' = (disturbed \/ ~Undisturbed)
        /\ UNCHANGED <<lockQueue, rxActive, streams, userCallback>>
    BY <1>5 DEF AddSubscriber
  <2>2. StreamTypes'
    BY <1>1, <1>4, <2>1 DEF StreamTypes, loopVars
  <2>3. LockHeld'
    BY <1>1, <1>3, <2>1 DEF LockHeld
  <2>4. ASSUME ~disturbed', ~retried' PROVE Sound'
    <3>1. Sound /\ up /\ loop = "idle"
      BY <1>1, <2>1, <2>4 DEF AudioInv, Undisturbed, loopVars
    <3>. QED
      BY <1>1, <1>3, <1>5, <2>1, <3>1 DEF Sound, loopVars
  <2>. QED
    BY <1>2, <2>2, <2>3, <2>4 DEF AudioInv
<1>6. CASE ~(~rxActive /\ up /\ cur = 0)
  <2>1. /\ lockQueue' = Tail(lockQueue) /\ holding' = holding /\ opening' = opening
        /\ IF ~rxActive /\ up
           THEN /\ StartRx(streams, cur) /\ rxActive' = CanStart(streams[cur])
                /\ disturbed' = (disturbed \/ ~Undisturbed \/ ~rxActive')
           ELSE /\ disturbed' = (disturbed \/ ~Undisturbed)
                /\ UNCHANGED <<rxActive, streams, userCallback>>
    BY <1>6 DEF AddSubscriber
  <2>2. LockHeld'
    BY <1>1, <1>3, <2>1 DEF LockHeld
  <2>3. h.sub \in subscribers' /\ subscribers' # {}
    BY <1>1
  <2>4. CASE ~rxActive /\ up
    <3>1. cur \in 1..Len(streams) /\ streams[cur] \in Stream
      BY <1>4, <1>6, <2>4, TheStream
    <3>2. /\ streams' = IF CanStart(streams[cur]) THEN [streams EXCEPT ![cur] = Started(streams[cur])] ELSE streams
          /\ userCallback' = TRUE
      BY <2>1, <2>4 DEF StartRx
    <3>3. /\ streams' \in Seq(Stream) /\ Len(streams') = Len(streams)
          /\ CanStart(streams[cur]) => streams'[cur] = Started(NewStream)
      BY <1>4, <3>1, <3>2, StartedMakes, StreamChanges DEF StreamTypes
    <3>4. rxActive' \in BOOLEAN /\ disturbed' \in BOOLEAN /\ (rxActive' <=> CanStart(streams[cur]))
      BY <2>1, <2>4 DEF CanStart
    <3>5. StreamTypes'
      BY <1>1, <1>3, <1>4, <2>1, <3>2, <3>3, <3>4 DEF StreamTypes, loopVars
    <3>6. ASSUME ~disturbed', ~retried' PROVE Sound'
      <4>1. Sound /\ up /\ loop = "idle" /\ rxActive'
        BY <1>1, <2>1, <2>4, <3>6 DEF AudioInv, Undisturbed, loopVars
      <4>2. Receiving'
        BY <1>1, <3>1, <3>3, <3>4, <4>1 DEF Receiving
      <4>. QED
        BY <1>1, <1>3, <2>1, <2>3, <3>2, <4>1, <4>2 DEF Sound, loopVars
    <3>. QED
      BY <1>2, <2>2, <3>5, <3>6 DEF AudioInv
  <2>5. CASE ~(~rxActive /\ up)
    <3>1. UNCHANGED <<rxActive, streams, userCallback>> /\ disturbed' = (disturbed \/ ~Undisturbed)
      BY <2>1, <2>5
    <3>2. StreamTypes'
      BY <1>1, <1>4, <2>1, <3>1 DEF StreamTypes, loopVars
    <3>3. ASSUME ~disturbed', ~retried' PROVE Sound'
      <4>1. Sound /\ up /\ loop = "idle"
        BY <1>1, <3>1, <3>3 DEF AudioInv, Undisturbed, loopVars
      <4>2. Receiving' <=> Receiving
        BY <1>1, <3>1 DEF Receiving
      <4>. QED
        BY <1>1, <1>3, <2>1, <2>3, <2>5, <3>1, <4>1, <4>2 DEF Sound, loopVars
    <3>. QED
      BY <1>2, <2>2, <3>2, <3>3 DEF AudioInv
  <2>. QED
    BY <2>4, <2>5
<1>. QED
  BY <1>5, <1>6

\* _add_subscriber() goes on after its await.
LEMMA BusOpenedKeeps ==
    ASSUME AudioInv, NEW ok \in BOOLEAN, BusOpened(ok)
    PROVE  AudioInv'
<1>. DEFINE h == Head(lockQueue)
<1>1. /\ "bus" \in opening /\ opening' = opening \ {"bus"} /\ holding' = FALSE
      /\ lockQueue' = Tail(lockQueue) /\ disturbed' = (disturbed \/ ~Undisturbed \/ ~ok)
      /\ UNCHANGED <<mine, made, subscribers, removals, busStop, loopVars, talks>>
  BY DEF BusOpened
<1>2. lockQueue # <<>> /\ h.op = "add" /\ h.sub \in subscribers /\ busStop = 0
  <2>1. holding /\ lockQueue # <<>> /\ h.op = "add" /\ h.sub \in subscribers
    BY <1>1 DEF AudioInv, LockHeld
  <2>2. h.op # "remove"
    BY <2>1
  <2>. QED
    BY <2>1, <2>2 DEF AudioInv, LockHeld
<1>3. BusTypes' /\ Members'
  <2>1. subscribers' = subscribers \union {h.sub} /\ h.op # "remove"
    BY <1>1, <1>2
  <2>. QED
    BY <1>1, <1>2, <2>1, CallKeepsMembers DEF AudioInv
<1>4. LockHeld'
  BY <1>1, <1>2 DEF LockHeld
<1>5. StreamTypes
  BY DEF AudioInv
<1>6. CASE ok
  <2>1. /\ cur' = Len(streams) + 1 /\ rxActive' = TRUE /\ userCallback' = TRUE
        /\ streams' = [Append(streams, NewStream) EXCEPT ![cur'] = Started(Append(streams, NewStream)[cur'])]
    <3>1. cur' = Len(streams) + 1 /\ StartRx(Append(streams, NewStream), cur') /\ rxActive' = TRUE
      BY <1>6 DEF BusOpened
    <3>2. CanStart(Append(streams, NewStream)[cur'])
      BY <1>5, <3>1, StreamMore, StartedMakes DEF CanStart, StreamTypes
    <3>. QED
      BY <3>1, <3>2 DEF StartRx
  <2>2. /\ streams' \in Seq(Stream) /\ Len(streams') = Len(streams) + 1 /\ Len(streams) \in Nat
        /\ streams'[cur'] = Started(NewStream)
    <3>. DEFINE ss == Append(streams, NewStream)
                k  == Len(streams) + 1
                s  == Started(ss[k])
    <3>1. ss \in Seq(Stream) /\ Len(ss) = Len(streams) + 1 /\ Len(streams) \in Nat /\ k \in 1..Len(ss)
      BY <1>5, StreamMore DEF StreamTypes
    <3>2. s \in Stream /\ s = Started(NewStream)
      BY StartedMakes
    <3>3. streams' = [ss EXCEPT ![k] = s] /\ cur' = k
      BY <2>1
    <3>. HIDE DEF ss, k, s
    <3>. QED
      BY <3>1, <3>2, <3>3, StreamChanges
  <2>3. StreamTypes'
    <3>1. cur' \in 0..Len(streams') /\ busStop' \in 0..Len(streams') /\ cur' # 0
      BY <1>1, <1>5, <2>1, <2>2 DEF StreamTypes
    <3>2. disturbed' \in BOOLEAN
      BY <1>1
    <3>. QED
      BY <1>1, <1>5, <2>1, <2>2, <3>1, <3>2 DEF StreamTypes, loopVars
  <2>4. ASSUME ~disturbed', ~retried' PROVE Sound'
    <3>1. Sound /\ up /\ loop = "idle"
      BY <1>1, <2>4 DEF AudioInv, Undisturbed, loopVars
    <3>2. Receiving'
      BY <2>1, <2>2 DEF Receiving
    <3>. QED
      BY <1>1, <1>2, <2>1, <3>1, <3>2 DEF Sound, loopVars
  <2>. QED
    BY <1>3, <1>4, <2>3, <2>4 DEF AudioInv
<1>7. CASE ~ok
  <2>1. UNCHANGED <<cur, streams, userCallback, rxActive>> /\ disturbed'
    BY <1>1, <1>7 DEF BusOpened
  <2>2. StreamTypes'
    BY <1>1, <1>5, <2>1 DEF StreamTypes, loopVars
  <2>. QED
    BY <1>3, <1>4, <2>1, <2>2 DEF AudioInv
<1>. QED
  BY <1>6, <1>7

\* _remove_subscriber() begins.
LEMMA RemoveKeeps ==
    ASSUME AudioInv, RemoveSubscriber
    PROVE  AudioInv'
<1>. DEFINE h == Head(lockQueue)
<1>1. /\ lockQueue # <<>> /\ ~holding /\ h.op = "remove" /\ subscribers' = subscribers \ {h.sub}
      /\ UNCHANGED <<mine, made, removals, cur, opening, loopVars, talks>>
      /\ disturbed' = (disturbed \/ ~Undisturbed)
      /\ lockQueue' \in {lockQueue, Tail(lockQueue)}
  BY DEF RemoveSubscriber, Turn, KeepsLock
<1>2. BusTypes' /\ Members'
  <2>1. h.op # "add"
    BY <1>1
  <2>. QED
    BY <1>1, <2>1, CallKeepsMembers DEF AudioInv
<1>3. busStop = 0 /\ "bus" \notin opening
  BY <1>1 DEF AudioInv, LockHeld
<1>4. StreamTypes
  BY DEF AudioInv
<1>5. CASE rxActive /\ subscribers' = {} /\ cur # 0 /\ CanStop(streams[cur])
  <2>1. /\ rxActive' = FALSE /\ userCallback' = FALSE /\ busStop' = cur
        /\ streams' = [streams EXCEPT ![cur] = Stopping(streams[cur])]
        /\ holding' = TRUE /\ lockQueue' = lockQueue
    BY <1>5 DEF RemoveSubscriber, KeepsLock
  <2>2. cur \in 1..Len(streams) /\ streams[cur] \in Stream
    BY <1>4, <1>5, TheStream
  <2>3. /\ streams' \in Seq(Stream) /\ Len(streams') = Len(streams)
        /\ streams'[cur].state = "idle"
    <3>. DEFINE s == Stopping(streams[cur])
    <3>1. s \in Stream /\ s.state = "idle"
      BY <1>4, <2>2, StreamMakes
    <3>2. streams' = [streams EXCEPT ![cur] = s] /\ streams \in Seq(Stream)
      BY <1>4, <2>1, <2>2 DEF StreamTypes
    <3>. HIDE DEF s
    <3>. QED
      BY <1>4, <2>1, <2>2, <3>1, <3>2, StreamChanges
  <2>4. StreamTypes'
    BY <1>1, <1>4, <2>1, <2>2, <2>3 DEF StreamTypes, loopVars
  <2>5. LockHeld'
    BY <1>1, <1>3, <1>5, <2>1 DEF LockHeld
  <2>6. ASSUME ~disturbed', ~retried' PROVE Sound'
    <3>1. Sound /\ up /\ loop = "idle"
      BY <1>1, <2>6 DEF AudioInv, Undisturbed, loopVars
    <3>. QED
      BY <1>1, <1>3, <1>5, <2>1, <2>3, <3>1 DEF Sound, loopVars
  <2>. QED
    BY <1>2, <2>4, <2>5, <2>6 DEF AudioInv
<1>6. CASE ~(rxActive /\ subscribers' = {} /\ cur # 0 /\ CanStop(streams[cur]))
  <2>1. /\ lockQueue' = Tail(lockQueue) /\ UNCHANGED <<busStop, streams, holding>>
        /\ IF rxActive /\ subscribers' = {} THEN rxActive' = FALSE /\ userCallback' = FALSE
                                             ELSE UNCHANGED <<rxActive, userCallback>>
    BY <1>6 DEF RemoveSubscriber
  <2>2. StreamTypes'
    BY <1>1, <1>4, <2>1 DEF StreamTypes, loopVars
  <2>3. LockHeld'
    BY <1>1, <1>3, <2>1 DEF LockHeld
  <2>4. ASSUME ~disturbed', ~retried' PROVE Sound'
    <3>1. Sound /\ up /\ loop = "idle"
      BY <1>1, <2>4 DEF AudioInv, Undisturbed, loopVars
    <3>2. Receiving' <=> Receiving
      BY <1>1, <2>1 DEF Receiving
    <3>3. Receiving => cur # 0 /\ CanStop(streams[cur])
      BY StartedMakes DEF Receiving, CanStop
    <3>4. rxActive => subscribers' # {}
      BY <1>6, <3>1, <3>3 DEF Sound
    <3>5. UNCHANGED <<rxActive, userCallback>> /\ (rxActive <=> subscribers' # {})
      <4>1. rxActive <=> subscribers # {}
        BY <1>3, <3>1 DEF Sound
      <4>. QED
        BY <1>1, <2>1, <3>4, <4>1
    <3>. QED
      BY <1>1, <1>3, <2>1, <3>1, <3>2, <3>5 DEF Sound, loopVars
  <2>. QED
    BY <1>2, <2>2, <2>3, <2>4 DEF AudioInv
<1>. QED
  BY <1>5, <1>6

\* _remove_subscriber() goes on after its await.
LEMMA BusStopEndsKeeps ==
    ASSUME AudioInv, BusStopEnds
    PROVE  AudioInv'
<1>. DEFINE h == Head(lockQueue)
<1>1. /\ busStop # 0 /\ busStop' = 0 /\ streams' = [streams EXCEPT ![busStop] = Stopped(streams[busStop])]
      /\ lockQueue' = Tail(lockQueue) /\ holding' = FALSE
      /\ UNCHANGED <<mine, made, subscribers, rxActive, removals, cur, opening, userCallback, loopVars, talks, disturbed>>
  BY DEF BusStopEnds, KeepsLock
<1>2. lockQueue # <<>> /\ h.op = "remove" /\ h.sub \notin subscribers /\ "bus" \notin opening
  <2>1. holding /\ lockQueue # <<>> /\ h.op = "remove" /\ h.sub \notin subscribers
    BY <1>1 DEF AudioInv, LockHeld
  <2>2. h.op # "add"
    BY <2>1
  <2>. QED
    BY <2>1, <2>2 DEF AudioInv, LockHeld
<1>3. BusTypes' /\ Members'
  <2>1. subscribers' = subscribers \ {h.sub} /\ h.op # "add"
    BY <1>1, <1>2
  <2>. QED
    BY <1>1, <1>2, <2>1, CallKeepsMembers DEF AudioInv
<1>4. LockHeld'
  BY <1>1, <1>2 DEF LockHeld
<1>5. StreamTypes
  BY DEF AudioInv
<1>6. busStop \in 1..Len(streams) /\ streams[busStop] \in Stream
  BY <1>1, <1>5, TheStream
<1>7. /\ streams' \in Seq(Stream) /\ Len(streams') = Len(streams)
      /\ streams'[busStop].state = streams[busStop].state
      /\ \A j \in 1..Len(streams) : j # busStop => streams'[j] = streams[j]
  <2>. DEFINE s == Stopped(streams[busStop])
  <2>1. s \in Stream /\ s.state = streams[busStop].state
    BY <1>6, StreamMakes
  <2>2. streams' = [streams EXCEPT ![busStop] = s] /\ streams \in Seq(Stream)
    BY <1>1, <1>5, <1>6 DEF StreamTypes
  <2>. HIDE DEF s
  <2>. QED
    BY <1>1, <1>5, <1>6, <2>1, <2>2, StreamChanges
<1>8. StreamTypes'
  <2>1. cur' \in 0..Len(streams') /\ busStop' \in 0..Len(streams')
    <3>1. Len(streams) \in Nat
      BY <1>5, TheStream
    <3>. QED
      BY <1>1, <1>5, <1>7, <3>1 DEF StreamTypes
  <2>. QED
    BY <1>1, <1>5, <1>7, <2>1 DEF StreamTypes, loopVars
<1>9. ASSUME ~disturbed', ~retried' PROVE Sound'
  <2>1. Sound
    BY <1>1, <1>9 DEF AudioInv, loopVars
  <2>2. ~rxActive
    BY <1>1, <2>1 DEF Sound
  <2>3. cur # 0 => streams'[cur].state = streams[cur].state
    BY <1>5, <1>7, TheStream
  <2>. QED
    BY <1>1, <1>2, <2>1, <2>2, <2>3 DEF Sound, loopVars
<1>. QED
  BY <1>3, <1>4, <1>8, <1>9 DEF AudioInv

\* A transmission begins or ends; from its beginning on nothing is held against
\* the stream.
LEMMA TalkKeeps ==
    ASSUME AudioInv, Talk \/ Hush
    PROVE  AudioInv'
<1>1. cur # 0 /\ UNCHANGED <<busVars, cur, opening, userCallback, loopVars>>
  BY DEF Talk, Hush
<1>2. cur \in 1..Len(streams) /\ streams[cur] \in Stream /\ StreamTypes
  BY <1>1, TheStream DEF AudioInv
<1>3. BusTypes' /\ Members' /\ LockHeld'
  BY <1>1, BusUntouched DEF AudioInv, busVars
<1>4. CASE Talk
  <2>1. streams' = [streams EXCEPT ![cur] = Talking(streams[cur])] /\ disturbed' = TRUE
    BY <1>4 DEF Talk
  <2>2. streams' \in Seq(Stream) /\ Len(streams') = Len(streams)
    <3>. DEFINE s == Talking(streams[cur])
    <3>1. s \in Stream
      BY <1>2, StreamMakes
    <3>2. streams' = [streams EXCEPT ![cur] = s] /\ streams \in Seq(Stream)
      BY <1>2, <2>1 DEF StreamTypes
    <3>. HIDE DEF s
    <3>. QED
      BY <1>2, <2>1, <3>1, <3>2, StreamChanges
  <2>3. StreamTypes'
    BY <1>1, <1>2, <2>1, <2>2 DEF StreamTypes, busVars, loopVars
  <2>. QED
    BY <1>3, <2>1, <2>3 DEF AudioInv
<1>5. CASE Hush
  <2>1. /\ streams' = [streams EXCEPT ![cur] = Hushed(streams[cur])] /\ disturbed' = disturbed
        /\ streams[cur].state = "transmitting"
    BY <1>5 DEF Hush
  <2>2. streams' \in Seq(Stream) /\ Len(streams') = Len(streams)
    <3>. DEFINE s == Hushed(streams[cur])
    <3>1. s \in Stream
      BY <1>2, StreamMakes
    <3>2. streams' = [streams EXCEPT ![cur] = s] /\ streams \in Seq(Stream)
      BY <1>2, <2>1 DEF StreamTypes
    <3>. HIDE DEF s
    <3>. QED
      BY <1>2, <2>1, <3>1, <3>2, StreamChanges
  <2>3. StreamTypes'
    BY <1>1, <1>2, <2>1, <2>2 DEF StreamTypes, busVars, loopVars
  <2>4. ASSUME ~disturbed', ~retried' PROVE FALSE
    <3>1. Sound
      BY <1>1, <2>1, <2>4 DEF AudioInv, loopVars
    <3>2. loop \in {"idle", "attempt", "stopping", "connecting", "recovering"}
      BY <1>2 DEF StreamTypes
    <3>3. streams[cur].state = "idle" \/ Receiving
      BY <1>1, <3>1, <3>2 DEF Sound
    <3>4. Receiving => streams[cur].state = "receiving"
      BY StartedMakes DEF Receiving
    <3>. QED
      BY <2>1, <3>3, <3>4
  <2>. QED
    BY <1>3, <2>3, <2>4 DEF AudioInv
<1>. QED
  BY <1>4, <1>5

\* The watchdog gives the connection up.
LEMMA LostKeeps ==
    ASSUME AudioInv, Lost
    PROVE  AudioInv'
<1>1. /\ up /\ loop = "idle" /\ up' = FALSE /\ loop' = "attempt"
      /\ UNCHANGED <<snapshot, tries, retried, busVars, streamVars, talks, disturbed>>
  BY DEF Lost
<1>2. BusTypes' /\ Members' /\ LockHeld'
  BY <1>1, BusUntouched DEF AudioInv, busVars, streamVars
<1>3. StreamTypes'
  BY <1>1 DEF AudioInv, StreamTypes, busVars, streamVars
<1>4. ASSUME ~disturbed', ~retried' PROVE Sound'
  <2>1. Sound
    BY <1>1, <1>4 DEF AudioInv
  <2>2. Receiving' <=> Receiving
    BY <1>1 DEF Receiving, streamVars
  <2>. QED
    BY <1>1, <2>1, <2>2 DEF Sound, busVars, streamVars
<1>. QED
  BY <1>2, <1>3, <1>4 DEF AudioInv

\* What capture_snapshot() finds.
LEMMA CapturedMakes ==
    ASSUME StreamTypes
    PROVE  /\ Captured \in [rx : BOOLEAN, tx : BOOLEAN]
           /\ cur = 0 \/ streams[cur].state = "idle" => ~Captured.rx /\ ~Captured.tx
           /\ cur # 0 /\ streams[cur].state = "receiving" => (Captured.rx <=> userCallback) /\ ~Captured.tx
<1>1. CASE cur = 0 \/ streams[cur].state = "idle"
  <2>1. Captured = NoAudio
    BY <1>1 DEF Captured
  <2>. QED
    BY <1>1, <2>1 DEF NoAudio
<1>2. CASE ~(cur = 0 \/ streams[cur].state = "idle")
  <2>1. Captured = [rx |-> userCallback, tx |-> streams[cur].state = "transmitting"]
    BY <1>2 DEF Captured
  <2>2. userCallback \in BOOLEAN
    BY DEF StreamTypes
  <2>3. Captured.rx = userCallback /\ Captured.tx = (streams[cur].state = "transmitting")
    BY <2>1
  <2>4. Captured \in [rx : BOOLEAN, tx : BOOLEAN]
    BY <2>1, <2>2
  <2>5. streams[cur].state = "receiving" => streams[cur].state # "transmitting"
    OBVIOUS
  <2>. QED
    BY <1>2, <2>3, <2>4, <2>5
<1>. QED
  BY <1>1, <1>2

\* An attempt to reconnect takes the stream down.
LEMMA AttemptKeeps ==
    ASSUME AudioInv, Attempt
    PROVE  AudioInv'
<1>1. /\ loop = "attempt" /\ snapshot' = Captured
      /\ UNCHANGED <<busVars, opening, userCallback, up, drops, tries, retried, talks, disturbed>>
  BY DEF Attempt
<1>2. BusTypes' /\ Members' /\ LockHeld'
  BY <1>1, BusUntouched DEF AudioInv, busVars
<1>3. StreamTypes
  BY DEF AudioInv
<1>4. snapshot' \in [rx : BOOLEAN, tx : BOOLEAN]
  BY <1>1, <1>3, CapturedMakes
<1>5. CASE cur # 0 /\ CanStop(streams[cur])
  <2>1. streams' = [streams EXCEPT ![cur] = Stopping(streams[cur])] /\ loop' = "stopping" /\ cur' = cur
    BY <1>5 DEF Attempt
  <2>2. cur \in 1..Len(streams) /\ streams[cur] \in Stream
    BY <1>3, <1>5, TheStream
  <2>3. streams' \in Seq(Stream) /\ Len(streams') = Len(streams) /\ streams'[cur].state = "idle"
    <3>. DEFINE s == Stopping(streams[cur])
    <3>1. s \in Stream /\ s.state = "idle"
      BY <2>2, StreamMakes
    <3>2. streams' = [streams EXCEPT ![cur] = s] /\ streams \in Seq(Stream)
      BY <1>3, <2>1, <2>2 DEF StreamTypes
    <3>. HIDE DEF s
    <3>. QED
      BY <1>3, <2>1, <2>2, <3>1, <3>2, StreamChanges
  <2>4. StreamTypes'
    BY <1>1, <1>3, <1>4, <1>5, <2>1, <2>3 DEF StreamTypes, busVars
  <2>5. ASSUME ~disturbed', ~retried' PROVE Sound'
    <3>1. Sound
      BY <1>1, <2>5 DEF AudioInv
    <3>2. streams[cur].state = "receiving" /\ rxActive /\ userCallback
      BY <1>1, <1>5, <3>1 DEF Sound, CanStop
    <3>3. snapshot'.rx /\ ~snapshot'.tx
      BY <1>1, <1>3, <1>5, <3>2, CapturedMakes
    <3>. QED
      BY <1>1, <1>5, <2>1, <2>3, <3>1, <3>2, <3>3 DEF Sound, busVars
  <2>. QED
    BY <1>2, <2>4, <2>5 DEF AudioInv
<1>6. CASE ~(cur # 0 /\ CanStop(streams[cur]))
  <2>1. /\ streams' = IF cur = 0 THEN streams ELSE [streams EXCEPT ![cur] = Hushed(streams[cur])]
        /\ cur' = 0 /\ loop' = "connecting"
    BY <1>6 DEF Attempt
  <2>2. streams' \in Seq(Stream) /\ Len(streams') = Len(streams)
    <3>1. CASE cur = 0
      BY <1>3, <2>1, <3>1 DEF StreamTypes
    <3>2. CASE cur # 0
      <4>1. cur \in 1..Len(streams) /\ streams[cur] \in Stream
        BY <1>3, <3>2, TheStream
      <4>. QED
        <5>. DEFINE s == Hushed(streams[cur])
        <5>1. s \in Stream
          BY <4>1, StreamMakes
        <5>2. streams' = [streams EXCEPT ![cur] = s] /\ streams \in Seq(Stream)
          BY <1>3, <2>1, <3>2, <4>1 DEF StreamTypes
        <5>. HIDE DEF s
        <5>. QED
          BY <1>3, <2>1, <3>2, <4>1, <5>1, <5>2, StreamChanges
    <3>. QED
      BY <3>1, <3>2
  <2>3. 0 \in 0..Len(streams)
    BY <1>3, TheStream
  <2>4. StreamTypes'
    BY <1>1, <1>3, <1>4, <2>1, <2>2, <2>3 DEF StreamTypes, busVars
  <2>5. ASSUME ~disturbed', ~retried' PROVE Sound'
    <3>1. Sound
      BY <1>1, <2>5 DEF AudioInv
    <3>2. ~Receiving
      BY <1>6, StartedMakes DEF Receiving, CanStop
    <3>3. ~rxActive /\ (cur = 0 \/ streams[cur].state = "idle")
      BY <1>1, <3>1, <3>2 DEF Sound
    <3>4. ~snapshot'.rx /\ ~snapshot'.tx
      BY <1>1, <1>3, <3>3, CapturedMakes
    <3>. QED
      BY <1>1, <2>1, <3>1, <3>3, <3>4 DEF Sound, busVars
  <2>. QED
    BY <1>2, <2>4, <2>5 DEF AudioInv
<1>. QED
  BY <1>5, <1>6

\* The recovery loop's stop of the stream ends,
LEMMA LoopStopEndsKeeps ==
    ASSUME AudioInv, LoopStopEnds
    PROVE  AudioInv'
<1>1. /\ loop = "stopping" /\ loop' = "connecting" /\ cur' = 0
      /\ streams' = [streams EXCEPT ![cur] = Stopped(streams[cur])]
      /\ UNCHANGED <<busVars, opening, userCallback, up, snapshot, drops, tries, retried, talks, disturbed>>
  BY DEF LoopStopEnds
<1>2. BusTypes' /\ Members' /\ LockHeld'
  BY <1>1, BusUntouched DEF AudioInv, busVars
<1>3. StreamTypes
  BY DEF AudioInv
<1>4. cur \in 1..Len(streams) /\ streams[cur] \in Stream /\ 0 \in 0..Len(streams)
  <2>1. cur # 0
    BY <1>1, <1>3 DEF StreamTypes
  <2>. QED
    BY <1>3, <2>1, TheStream
<1>5. streams' \in Seq(Stream) /\ Len(streams') = Len(streams)
  <2>. DEFINE s == Stopped(streams[cur])
  <2>1. s \in Stream
    BY <1>4, StreamMakes
  <2>2. streams' = [streams EXCEPT ![cur] = s] /\ streams \in Seq(Stream)
    BY <1>1, <1>3, <1>4 DEF StreamTypes
  <2>. HIDE DEF s
  <2>. QED
    BY <1>1, <1>3, <1>4, <2>1, <2>2, StreamChanges
<1>6. StreamTypes'
  BY <1>1, <1>3, <1>4, <1>5 DEF StreamTypes, busVars
<1>7. ASSUME ~disturbed', ~retried' PROVE Sound'
  <2>1. Sound
    BY <1>1, <1>7 DEF AudioInv
  <2>. QED
    BY <1>1, <2>1 DEF Sound, busVars
<1>. QED
  BY <1>2, <1>6, <1>7 DEF AudioInv

\* its connect() fails,
LEMMA ConnectFailsKeeps ==
    ASSUME AudioInv, ConnectFails
    PROVE  AudioInv'
<1>1. /\ retried' = TRUE /\ loop' \in {"attempt", "idle"}
      /\ UNCHANGED <<busVars, streamVars, up, snapshot, drops, talks, disturbed>>
  BY DEF ConnectFails
<1>2. BusTypes' /\ Members' /\ LockHeld'
  BY <1>1, BusUntouched DEF AudioInv, busVars, streamVars
<1>3. StreamTypes'
  BY <1>1 DEF AudioInv, StreamTypes, busVars, streamVars
<1>. QED
  BY <1>1, <1>2, <1>3 DEF AudioInv

\* recover() with stream k of ss.
LEMMA RecoverMakes ==
    ASSUME StreamTypes, NEW ss \in Seq(Stream), NEW k \in 1..Len(ss), Recover(ss, k)
    PROVE  /\ streams' \in Seq(Stream) /\ Len(streams') = Len(ss)
           /\ userCallback' \in BOOLEAN /\ disturbed' \in BOOLEAN
           /\ disturbed => disturbed'
           /\ snapshot.rx /\ ~snapshot.tx /\ CanStart(ss[k]) =>
                 streams'[k] = Started(NewStream) /\ userCallback'
<1>. DEFINE fails    == snapshot.rx /\ ~CanStart(ss[k])
            received == IF snapshot.rx /\ ~fails THEN [ss EXCEPT ![k] = Started(ss[k])] ELSE ss
<1>1. /\ userCallback' = (userCallback \/ snapshot.rx)
      /\ streams' = IF snapshot.tx /\ ~fails THEN [received EXCEPT ![k] = Talking(received[k])] ELSE received
      /\ disturbed' = (disturbed \/ fails)
  BY DEF Recover
<1>2. /\ received \in Seq(Stream) /\ Len(received) = Len(ss) /\ received[k] \in Stream
      /\ snapshot.rx /\ ~fails => received[k] = Started(NewStream)
  <2>. DEFINE s == Started(ss[k])
  <2>1. s \in Stream /\ s = Started(NewStream)
    BY StartedMakes
  <2>2. received = IF snapshot.rx /\ ~fails THEN [ss EXCEPT ![k] = s] ELSE ss
    OBVIOUS
  <2>. HIDE DEF s, received, fails
  <2>. QED
    BY <2>1, <2>2, StreamChanges
<1>. HIDE DEF received
<1>3. streams' \in Seq(Stream) /\ Len(streams') = Len(ss)
  <2>1. CASE snapshot.tx /\ ~fails
    <3>. DEFINE s == Talking(received[k])
    <3>1. s \in Stream /\ streams' = [received EXCEPT ![k] = s]
      BY <1>1, <1>2, <2>1, StreamMakes
    <3>. HIDE DEF s
    <3>. QED
      BY <1>2, <3>1, StreamChanges
  <2>2. CASE ~(snapshot.tx /\ ~fails)
    BY <1>1, <1>2, <2>2
  <2>. QED
    BY <2>1, <2>2
<1>4. userCallback' \in BOOLEAN /\ disturbed' \in BOOLEAN /\ (disturbed => disturbed')
  BY <1>1
<1>5. snapshot.rx /\ ~snapshot.tx /\ CanStart(ss[k]) => streams'[k] = Started(NewStream) /\ userCallback'
  BY <1>1, <1>2
<1>. QED
  BY <1>3, <1>4, <1>5

\* A snapshot of nothing.
LEMMA NothingToRecover ==
    ASSUME StreamTypes
    PROVE  snapshot = NoAudio <=> ~snapshot.rx /\ ~snapshot.tx
<1>. QED
  BY DEF StreamTypes, NoAudio

\* or works, and what the snapshot says is opened again,
LEMMA ConnectWorksKeeps ==
    ASSUME AudioInv, ConnectWorks
    PROVE  AudioInv'
<1>1. /\ loop = "connecting" /\ up' = TRUE
      /\ UNCHANGED <<busVars, cur, snapshot, drops, tries, retried, talks>>
  BY DEF ConnectWorks
<1>2. StreamTypes
  BY DEF AudioInv
<1>3. CASE snapshot = NoAudio
  <2>1. loop' = "idle" /\ UNCHANGED <<opening, streams, userCallback, disturbed>>
    BY <1>3 DEF ConnectWorks
  <2>2. BusTypes' /\ Members' /\ LockHeld'
    BY <1>1, <2>1, BusUntouched DEF AudioInv, busVars
  <2>3. StreamTypes'
    BY <1>1, <1>2, <2>1 DEF StreamTypes, busVars
  <2>4. ASSUME ~disturbed', ~retried' PROVE Sound'
    <3>1. Sound /\ cur = 0
      BY <1>1, <2>1, <2>4 DEF AudioInv, Sound
    <3>2. ~rxActive
      BY <1>1, <1>2, <1>3, <3>1, NothingToRecover DEF Sound
    <3>. QED
      BY <1>1, <2>1, <3>1, <3>2 DEF Sound, busVars
  <2>. QED
    BY <2>2, <2>3, <2>4 DEF AudioInv
<1>4. CASE snapshot # NoAudio /\ cur = 0
  <2>1. /\ loop' = "recovering" /\ opening' = opening \union {"loop"}
        /\ UNCHANGED <<streams, userCallback, disturbed>>
    BY <1>4 DEF ConnectWorks
  <2>2. BusTypes' /\ Members' /\ LockHeld'
    BY <1>1, <2>1, BusUntouched DEF AudioInv, busVars
  <2>3. StreamTypes'
    BY <1>1, <1>2, <2>1 DEF StreamTypes, busVars
  <2>4. ASSUME ~disturbed', ~retried' PROVE Sound'
    <3>1. Sound
      BY <1>1, <2>1, <2>4 DEF AudioInv
    <3>2. rxActive /\ snapshot.rx /\ ~snapshot.tx
      BY <1>1, <1>2, <1>4, <3>1, NothingToRecover DEF Sound
    <3>. QED
      BY <1>1, <1>4, <2>1, <3>1, <3>2 DEF Sound, busVars
  <2>. QED
    BY <2>2, <2>3, <2>4 DEF AudioInv
<1>5. CASE snapshot # NoAudio /\ cur # 0
  <2>1. loop' = "idle" /\ Recover(streams, cur) /\ opening' = opening
    BY <1>5 DEF ConnectWorks
  <2>2. BusTypes' /\ Members' /\ LockHeld'
    BY <1>1, <2>1, BusUntouched DEF AudioInv, busVars
  <2>3. cur \in 1..Len(streams) /\ streams \in Seq(Stream)
    BY <1>2, <1>5, TheStream DEF StreamTypes
  <2>4. /\ streams' \in Seq(Stream) /\ Len(streams') = Len(streams)
        /\ userCallback' \in BOOLEAN /\ disturbed' \in BOOLEAN /\ (disturbed => disturbed')
    BY <1>2, <2>1, <2>3, RecoverMakes
  <2>5. StreamTypes'
    BY <1>1, <1>2, <2>1, <2>4 DEF StreamTypes, busVars
  <2>6. ASSUME ~disturbed', ~retried' PROVE FALSE
    <3>1. ~disturbed /\ ~retried
      BY <1>1, <2>4, <2>6
    <3>. QED
      BY <1>1, <1>5, <3>1 DEF AudioInv, Sound
  <2>. QED
    BY <2>2, <2>5, <2>6 DEF AudioInv
<1>. QED
  BY <1>3, <1>4, <1>5

\* and that ends.
LEMMA LoopOpenedKeeps ==
    ASSUME AudioInv, NEW ok \in BOOLEAN, LoopOpened(ok)
    PROVE  AudioInv'
<1>1. /\ "loop" \in opening /\ opening' = opening \ {"loop"} /\ loop' = "idle"
      /\ UNCHANGED <<busVars, up, snapshot, drops, tries, retried, talks>>
  BY DEF LoopOpened
<1>2. BusTypes' /\ Members' /\ LockHeld'
  BY <1>1, BusUntouched DEF AudioInv, busVars
<1>3. StreamTypes
  BY DEF AudioInv
<1>4. CASE ok
  <2>. DEFINE ss == Append(streams, NewStream)
              k  == Len(streams) + 1
  <2>1. cur' = k /\ Recover(ss, k)
    BY <1>4 DEF LoopOpened
  <2>2. ss \in Seq(Stream) /\ k \in 1..Len(ss) /\ ss[k] = NewStream /\ Len(ss) = Len(streams) + 1 /\ Len(streams) \in Nat
    BY <1>3, StreamMore DEF StreamTypes
  <2>. HIDE DEF ss
  <2>3. /\ streams' \in Seq(Stream) /\ Len(streams') = Len(ss)
        /\ userCallback' \in BOOLEAN /\ disturbed' \in BOOLEAN /\ (disturbed => disturbed')
        /\ snapshot.rx /\ ~snapshot.tx => streams'[k] = Started(NewStream) /\ userCallback'
    <3>1. CanStart(ss[k])
      BY <2>2, StartedMakes DEF CanStart
    <3>. HIDE DEF k
    <3>. QED
      BY <1>3, <2>1, <2>2, <3>1, RecoverMakes
  <2>4. StreamTypes'
    BY <1>1, <1>3, <2>1, <2>2, <2>3 DEF StreamTypes, busVars
  <2>5. ASSUME ~disturbed', ~retried' PROVE Sound'
    <3>1. Sound
      BY <1>1, <2>3, <2>5 DEF AudioInv
    <3>2. loop = "recovering" /\ rxActive /\ snapshot.rx /\ ~snapshot.tx /\ up
      BY <1>1, <3>1 DEF Sound
    <3>3. Receiving' /\ userCallback'
      BY <2>1, <2>2, <2>3, <3>2 DEF Receiving
    <3>. QED
      BY <1>1, <3>1, <3>2, <3>3 DEF Sound, busVars
  <2>. QED
    BY <1>2, <2>4, <2>5 DEF AudioInv
<1>5. CASE ~ok
  <2>1. disturbed' = TRUE /\ UNCHANGED <<cur, streams, userCallback>>
    BY <1>5 DEF LoopOpened
  <2>2. StreamTypes'
    BY <1>1, <1>3, <2>1 DEF StreamTypes, busVars
  <2>. QED
    BY <1>2, <2>1, <2>2 DEF AudioInv
<1>. QED
  BY <1>4, <1>5

-----------------------------------------------------------------------------
\* The subscriptions, the lock, the stream and the recovery loop fit together (audio/bus.py,
\* runtime/_audio_runtime_mixin.py, runtime/_audio_recovery.py).
THEOREM AudioInvariance == AudioSpec => []AudioInv
<1>1. AudioInit => AudioInv
  <2>. SUFFICES ASSUME AudioInit PROVE AudioInv
    OBVIOUS
  <2>1. /\ mine = [c \in Consumers |-> 0] /\ made = 0 /\ subscribers = {} /\ rxActive = FALSE
        /\ removals = {} /\ lockQueue = <<>> /\ holding = FALSE /\ busStop = 0
        /\ streams = <<>> /\ cur = 0 /\ opening = {} /\ userCallback = FALSE
        /\ up = TRUE /\ loop = "idle" /\ snapshot = NoAudio /\ retried = FALSE /\ disturbed = FALSE
    BY DEF AudioInit
  <2>2. <<>> \in Seq(Call) /\ <<>> \in Seq(Stream) /\ Len(<<>>) = 0 /\ \A e : ~Contains(<<>>, e)
    BY DEF Contains
  <2>3. BusTypes
    BY <2>1, <2>2, AudioLimits DEF BusTypes
  <2>4. StreamTypes
    <3>1. Len(streams) = 0 /\ cur \in 0..Len(streams) /\ busStop \in 0..Len(streams)
      BY <2>1, <2>2
    <3>2. snapshot \in [rx : BOOLEAN, tx : BOOLEAN]
      BY <2>1 DEF NoAudio
    <3>3. opening \subseteq {"bus", "loop"} /\ loop \in {"idle", "attempt", "stopping", "connecting", "recovering"}
      BY <2>1
    <3>. QED
      BY <2>1, <2>2, <3>1, <3>2, <3>3 DEF StreamTypes
  <2>5. Members
    BY <2>1, <2>2 DEF Members
  <2>6. LockHeld /\ Sound
    BY <2>1 DEF LockHeld, Sound
  <2>. QED
    BY <2>3, <2>4, <2>5, <2>6 DEF AudioInv
<1>2. ASSUME AudioInv, [AudioNext]_audioAll PROVE AudioInv'
  <2>1. ASSUME NEW c \in Consumers, Join(c) PROVE AudioInv'
    <3>1. BusTypes' /\ Members'
      BY <1>2, <2>1, JoinKeepsMembers DEF AudioInv
    <3>2. \E x \in Call : lockQueue' = Append(lockQueue, x)
      <4>1. Adding(made + 1) \in Call
        BY <1>2, <2>1, AudioLimits, CallsDiffer DEF AudioInv, BusTypes, Join
      <4>2. lockQueue' = Append(lockQueue, Adding(made + 1))
        BY <2>1 DEF Join, Adding
      <4>. QED
        BY <4>1, <4>2
    <3>3. UNCHANGED <<subscribers, rxActive, holding, busStop, streamVars, loopVars, disturbed>>
      BY <2>1 DEF Join
    <3>. QED
      BY <1>2, <3>1, <3>2, <3>3, WaitingKeeps
  <2>2. ASSUME NEW c \in Consumers, Leave(c) PROVE AudioInv'
    <3>1. BusTypes' /\ Members'
      BY <1>2, <2>2, LeaveKeepsMembers DEF AudioInv
    <3>2. UNCHANGED <<subscribers, rxActive, holding, busStop, streamVars, loopVars, disturbed>> /\ lockQueue' = lockQueue
      BY <2>2 DEF Leave
    <3>. QED
      BY <1>2, <3>1, <3>2, WaitingKeeps
  <2>3. ASSUME NEW n \in 1..MaxSubs, RemovalBegins(n) PROVE AudioInv'
    <3>1. BusTypes' /\ Members'
      BY <1>2, <2>3, RemovalKeepsMembers DEF AudioInv
    <3>2. /\ UNCHANGED <<subscribers, rxActive, holding, busStop, streamVars, loopVars, disturbed>>
          /\ lockQueue' = Append(lockQueue, Removing(n)) /\ Removing(n) \in Call
      BY <2>3, CallsDiffer DEF RemovalBegins, Removing
    <3>. QED
      BY <1>2, <3>1, <3>2, WaitingKeeps
  <2>4. CASE UNCHANGED audioAll
    <3>1. BusTypes' /\ Members'
      BY <1>2, <2>4 DEF audioAll, busVars, AudioInv, BusTypes, Members
    <3>2. UNCHANGED <<subscribers, rxActive, holding, busStop, streamVars, loopVars, disturbed>> /\ lockQueue' = lockQueue
      BY <2>4 DEF audioAll, busVars
    <3>. QED
      BY <1>2, <3>1, <3>2, WaitingKeeps
  <2>. QED
    BY <1>2, <2>1, <2>2, <2>3, <2>4, AddKeeps, RemoveKeeps, BusStopEndsKeeps, BusOpenedKeeps, LoopOpenedKeeps,
       TalkKeeps, LostKeeps, AttemptKeeps, LoopStopEndsKeeps, ConnectFailsKeeps, ConnectWorksKeeps DEF AudioNext
<1>. QED
  BY <1>1, <1>2, PTL DEF AudioSpec

\* The subscriptions, the calls at the lock and the streams are what the code keeps
\* (audio/bus.py, audio/lan_stream.py).
THEOREM AudioTypeCorrect == AudioSpec => []AudioTypeOK
<1>1. AudioInv => AudioTypeOK
  <2>. SUFFICES ASSUME AudioInv PROVE AudioTypeOK
    OBVIOUS
  <2>1. \A s \in ToSet(streams) : s \in Stream
    <3>1. \A i \in DOMAIN streams : streams[i] \in Stream
      BY LenProperties DEF AudioInv, StreamTypes
    <3>. QED
      BY <3>1 DEF ToSet
  <2>. QED
    BY <2>1 DEF AudioInv, BusTypes, StreamTypes, AudioTypeOK, Call, Stream
<1>. QED
  BY <1>1, AudioInvariance, PTL

\* However consumers come and go and the connection is lost and comes back at the
\* first attempt, nobody is left on a dying stream and no stream is left to nobody
\* (_add_subscriber() and _remove_subscriber() of audio/bus.py, reconnect_loop() of
\* runtime/radio_reconnect.py), for any consumers and any number of losses.
THEOREM NobodyIsLeft == AudioSpec => []NoDyingStream
<1>1. AudioInv => NoDyingStream
  <2>. SUFFICES ASSUME AudioInv, Settled, ~disturbed, ~retried
                PROVE  /\ subscribers = { mine[c] : c \in Consumers } \ {0}
                       /\ rxActive <=> subscribers # {}
                       /\ Receiving <=> subscribers # {}
    BY DEF NoDyingStream
  <2>1. Sound /\ loop = "idle" /\ lockQueue = <<>> /\ removals = {} /\ opening = {}
    BY DEF AudioInv, Settled
  <2>2. \A e : ~Contains(lockQueue, e)
    <3>1. Len(lockQueue) = 0
      BY <2>1
    <3>. QED
      BY <3>1 DEF Contains
  <2>3. subscribers = { mine[c] : c \in Consumers } \ {0}
    <3>1. \A n \in subscribers : n # 0 /\ \E c \in Consumers : mine[c] = n
      BY <2>1, <2>2 DEF AudioInv, Members, BusTypes
    <3>2. \A c \in Consumers : mine[c] # 0 => mine[c] \in subscribers
      BY <2>2 DEF AudioInv, Members
    <3>. QED
      BY <3>1, <3>2
  <2>4. rxActive <=> subscribers # {}
    BY <2>1 DEF Sound
  <2>5. Receiving <=> rxActive
    <3>1. Receiving => cur # 0 /\ streams[cur].state = "receiving"
      BY StartedMakes DEF Receiving
    <3>. QED
      BY <2>1, <3>1 DEF Sound
  <2>. QED
    BY <2>3, <2>4, <2>5
<1>. QED
  BY <1>1, AudioInvariance, PTL

-----------------------------------------------------------------------------
(***************************************************************************)
(* The jitter buffer (JitterBuffer).  PlayedInPlace is not inductive: a    *)
(* packet's number tells its place only while the packets held are near    *)
(* the next one to play.  Flowing says why they are: of as many places in  *)
(* a row as a packet can be displaced, one is held, and fewer than Depth   *)
(* are, so that what is held spans (Depth - 1) * Displaced places at most  *)
(* (HeldSpan). The lemmas on remainders are what the numbers of such       *)
(* places tell.                                                            *)
(***************************************************************************)
\* The place of the next packet to deliver.
Here == origin + outputs

JitterTypes ==
    /\ came \subseteq FirstAudio..LastAudio /\ held \subseteq came
    /\ next \in 0..(AudioSeqMod - 1) /\ begun \in BOOLEAN /\ stopped \in BOOLEAN
    /\ outputs \in Nat /\ origin \in Int
    /\ played \subseteq (Int \X Int)
    /\ Cardinality(held) <= MaxHeld

\* Nothing has come.
Idle == came = {} /\ held = {} /\ outputs = 0 /\ played = {} /\ late = {} /\ lost = {}

\* Packets come and are delivered.  Of as many places in a row as a packet can be
\* displaced one is held, as far as anything has come.
Flowing ==
    /\ next = Here % AudioSeqMod
    /\ \A p \in held : p >= Here
    /\ \E t \in came : t >= Here - 1
    /\ \A x \in Int : \A q \in came : Here <= x /\ x <= q => \E p \in held : x <= p /\ p < x + Displaced
    /\ Cardinality(held) < Depth
    /\ lost = {}

\* The inductive invariant.
JitterInv ==
    /\ JitterTypes /\ PlayedInPlace
    /\ ~stopped /\ ~begun => Idle
    /\ ~stopped /\ begun => Flowing

-----------------------------------------------------------------------------
\* A multiple of m that is less than m either way is none of it.
LEMMA NoMultiple ==
    ASSUME NEW m \in Nat \ {0}, NEW d \in Int, m * d \in (1 - m)..(m - 1)
    PROVE  d = 0
OBVIOUS

\* A number is its quotient's multiple and its remainder.
LEMMA Division ==
    ASSUME NEW m \in Nat \ {0}, NEW a \in Int
    PROVE  a = m * (a \div m) + (a % m) /\ a % m \in 0..(m - 1) /\ a \div m \in Int
OBVIOUS

\* The remainder is what is left of any multiple that leaves little enough.
LEMMA OneRemainder ==
    ASSUME NEW m \in Nat \ {0}, NEW c \in Int, NEW j \in Int, NEW r \in 0..(m - 1), c = m * j + r
    PROVE  c % m = r
<1>1. c = m * (c \div m) + (c % m) /\ c % m \in 0..(m - 1) /\ c \div m \in Int
  BY Division
<1>2. m * (j - (c \div m)) = (c % m) - r
  BY <1>1
<1>3. m * (j - (c \div m)) \in (1 - m)..(m - 1) /\ j - (c \div m) \in Int
  BY <1>1, <1>2
<1>4. j - (c \div m) = 0
  BY <1>3, NoMultiple
<1>. QED
  BY <1>1, <1>2, <1>4

\* The difference of the numbers of two places, and of the next one, tells theirs.
LEMMA NumbersTell ==
    ASSUME NEW m \in Nat \ {0}, NEW a \in Int, NEW b \in Int, NEW e \in {0, 1}
    PROVE  /\ (a + e) - b \in 0..(m - 1) => ((a % m) + e - (b % m) + m) % m = (a + e) - b
           /\ (a + e) - b \in (-m)..(-1) => ((a % m) + e - (b % m) + m) % m = (a + e) - b + m
<1>1. /\ a = m * (a \div m) + (a % m) /\ a \div m \in Int /\ a % m \in Int
      /\ b = m * (b \div m) + (b % m) /\ b \div m \in Int /\ b % m \in Int
  BY Division
<1>. DEFINE c == (a % m) + e - (b % m) + m
            x == a \div m
            y == b \div m
            u == a % m
            v == b % m
<1>2. /\ a = m * x + u /\ b = m * y + v /\ x \in Int /\ y \in Int /\ u \in Int /\ v \in Int
      /\ c = u + e - v + m
  BY <1>1
<1>. HIDE DEF x, y, u, v
<1>3. c \in Int
  BY <1>2
<1>4. c = m * (y - x + 1) + ((a + e) - b) /\ c = m * (y - x) + ((a + e) - b + m)
  <2>1. m * (y - x) = m * y - m * x /\ m * (y - x + 1) = m * y - m * x + m /\ m * x \in Int /\ m * y \in Int
    BY <1>2
  <2>. QED
    BY <1>2, <2>1
<1>. HIDE DEF c
<1>5. ASSUME (a + e) - b \in 0..(m - 1) PROVE c % m = (a + e) - b
  <2>1. y - x + 1 \in Int
    BY <1>2
  <2>. QED
    BY <1>3, <1>4, <1>5, <2>1, OneRemainder
<1>6. ASSUME (a + e) - b \in (-m)..(-1) PROVE c % m = (a + e) - b + m
  <2>1. y - x \in Int /\ (a + e) - b + m \in 0..(m - 1)
    BY <1>2, <1>6
  <2>. QED
    BY <1>3, <1>4, <2>1, OneRemainder
<1>. QED
  BY <1>5, <1>6 DEF c

\* Counting on from a number.
LEMMA CountPast ==
    ASSUME NEW m \in Nat \ {0}, NEW a \in Int, NEW k \in Int
    PROVE  ((a % m) + k) % m = (a + k) % m
<1>1. a = m * (a \div m) + (a % m) /\ a \div m \in Int /\ a % m \in Int
  BY Division
<1>. DEFINE e == a + k
<1>2. e \in Int /\ e = m * (e \div m) + (e % m) /\ e % m \in 0..(m - 1) /\ e \div m \in Int
  BY Division
<1>. DEFINE x == a \div m
            y == e \div m
            u == a % m
            v == e % m
<1>3. u + k = m * (y - x) + v /\ y - x \in Int /\ u + k \in Int
  <2>1. a = m * x + u /\ e = m * y + v /\ x \in Int /\ y \in Int /\ u \in Int /\ v \in Int /\ e = a + k
    BY <1>1, <1>2
  <2>. HIDE DEF x, y, u, v, e
  <2>2. m * (y - x) = m * y - m * x /\ m * x \in Int /\ m * y \in Int
    BY <2>1
  <2>. QED
    BY <2>1, <2>2
<1>4. v \in 0..(m - 1)
  BY <1>2
<1>. HIDE DEF x, y, u, v, e
<1>5. (u + k) % m = v
  BY <1>3, <1>4, OneRemainder
<1>. QED
  BY <1>5 DEF u, v, e

\* Of two places with the later number in the earlier one, the later is a round on.
LEMMA RoundOn ==
    ASSUME NEW m \in Nat \ {0}, NEW p \in Int, NEW q \in Int, p > q, p % m <= q % m
    PROVE  q \div m < p \div m
<1>1. /\ p = m * (p \div m) + (p % m) /\ p \div m \in Int /\ p % m \in Int
      /\ q = m * (q \div m) + (q % m) /\ q \div m \in Int /\ q % m \in Int
  BY Division
<1>2. m * ((p \div m) - (q \div m)) > 0
  BY <1>1
<1>3. (p \div m) - (q \div m) > 0
  BY <1>1, <1>2
<1>. QED
  BY <1>1, <1>3

\* A set of places with a bound has a largest, and a set of numbers a least.
LEMMA LeastOf ==
    ASSUME NEW T \in SUBSET Nat, T # {}
    PROVE  \E k \in T : \A n \in T : k <= n
<1>. DEFINE R == {x \in Nat \X Nat : x[1] < x[2]}
<1>1. IsWellFoundedOn(R, Nat)
  <2>1. R = OpToRel(<, Nat)
    BY DEF OpToRel
  <2>. QED
    BY <2>1, NatLessThanWellFounded
<1>2. PICK k \in T : \A n \in T : <<n, k>> \notin R
  <2>. HIDE DEF R
  <2>. QED
    BY <1>1, WFMin
<1>3. ASSUME NEW n \in T PROVE k <= n
  <2>1. <<n, k>> \in Nat \X Nat /\ <<n, k>>[1] = n /\ <<n, k>>[2] = k
    BY Zenon
  <2>2. ~ (n < k)
    BY <1>2, <2>1
  <2>. QED
    BY <2>2
<1>. QED
  BY <1>3

\* Min and Max are what they are called.
LEMMA LeastMin ==
    ASSUME NEW S \in SUBSET Nat, NEW t \in S
    PROVE  Min(S) \in S /\ \A n \in S : Min(S) <= n
<1>1. \E k \in S : \A n \in S : k <= n
  BY LeastOf
<1>. QED
  BY <1>1 DEF Min

LEMMA LargestIs ==
    ASSUME NEW S \in SUBSET Int, S # {}, NEW b \in Int, \A n \in S : n <= b
    PROVE  Max(S) \in S /\ \A n \in S : n <= Max(S)
<1>. DEFINE T == {b - n : n \in S}
<1>1. T \in SUBSET Nat /\ T # {}
  <2>1. \A n \in S : b - n \in Nat
    OBVIOUS
  <2>2. \E n \in S : TRUE
    OBVIOUS
  <2>. QED
    BY <2>1, <2>2
<1>2. PICK k \in T : \A n \in T : k <= n
  <2>. HIDE DEF T
  <2>. QED
    BY <1>1, LeastOf
<1>3. PICK x \in S : k = b - x
  OBVIOUS
<1>4. \A n \in S : x >= n
  <2>1. \A n \in S : k <= b - n
    BY <1>2
  <2>. QED
    BY <1>3, <2>1
<1>5. \E y \in S : \A n \in S : y >= n
  BY <1>3, <1>4
<1>6. Max(S) \in S /\ \A n \in S : Max(S) >= n
  BY <1>5 DEF Max
<1>7. \A n \in S : n \in Int
  OBVIOUS
<1>. QED
  BY <1>6, <1>7

-----------------------------------------------------------------------------
\* How far the packets held can span.
Wide == (Depth - 1) * Displaced

\* What the assumption on the sizes gives.
LEMMA JitterSizesAre ==
    /\ AudioSeqMod \in Nat \ {0} /\ Depth \in Nat \ {0} /\ Displaced \in Nat \ {0}
    /\ FirstAudio \in Int /\ LastAudio \in Int
    /\ HalfRound \in Nat /\ Wide \in Nat /\ Wide + Displaced <= HalfRound
    /\ Displaced + 1 < AudioSeqMod - HalfRound /\ HalfRound < AudioSeqMod
    /\ Wide <= MaxHeld + Depth + 1 /\ MaxHeld = 4 * Depth
<1>1. /\ AudioSeqMod \in Nat \ {0} /\ Depth \in Nat \ {0} /\ Displaced \in Nat \ {0}
      /\ Displaced + 1 < AudioSeqMod - HalfRound /\ Depth * Displaced <= HalfRound /\ Wide <= 5 * Depth + 1
      /\ FirstAudio \in Int /\ LastAudio \in Int /\ MaxHeld = 4 * Depth
  BY JitterSizes DEF HalfRound, Wide, MaxHeld
<1>2. HalfRound \in Nat
  BY <1>1 DEF HalfRound
<1>3. Depth * Displaced = Wide + Displaced /\ Wide \in Nat
  BY <1>1 DEF Wide
<1>. QED
  BY <1>1, <1>2, <1>3

\* The next multiple is a whole step further.
LEMMA Multiples ==
    ASSUME NEW d \in Nat, NEW i \in Nat, NEW j \in Nat, i < j
    PROVE  i * d \in Nat /\ j * d \in Nat /\ i * d + d <= j * d
<1>1. (j - i - 1) * d >= 0 /\ (j - i - 1) * d = j * d - i * d - d
  OBVIOUS
<1>. QED
  BY <1>1

\* Fewer than Depth packets, one in every Displaced places, do not reach far.
LEMMA HeldSpan ==
    ASSUME NEW n \in Int, NEW h \in SUBSET Int, IsFiniteSet(h), Cardinality(h) < Depth, NEW q \in Int,
           \A x \in Int : n <= x /\ x <= q => \E p \in h : x <= p /\ p < x + Displaced
    PROVE  q <= n - 1 + Wide
<1>. SUFFICES ASSUME q >= n + Wide PROVE FALSE
  BY JitterSizesAre
<1>. DEFINE S == 0..(Depth - 1)
            At(i) == n + i * Displaced
            f == [i \in S |-> CHOOSE p \in h : At(i) <= p /\ p < At(i) + Displaced]
<1>1. ASSUME NEW i \in S PROVE At(i) \in Int /\ n <= At(i) /\ At(i) <= q
  <2>1. i \in Nat /\ Displaced \in Nat /\ Depth - 1 \in Nat
    BY JitterSizesAre
  <2>2. i * Displaced \in Nat /\ i * Displaced <= Wide
    <3>1. CASE i = Depth - 1
      BY <2>1, <3>1, JitterSizesAre DEF Wide
    <3>2. CASE i < Depth - 1
      BY <2>1, <3>2, Multiples DEF Wide
    <3>. QED
      BY <2>1, <3>1, <3>2
  <2>. QED
    BY <2>2, JitterSizesAre
<1>2. ASSUME NEW i \in S PROVE f[i] \in h /\ At(i) <= f[i] /\ f[i] < At(i) + Displaced
  <2>. HIDE DEF At
  <2>1. \E p \in h : At(i) <= p /\ p < At(i) + Displaced
    BY <1>1
  <2>. QED
    BY <2>1
<1>3. f \in [S -> h]
  BY <1>2
<1>4. IsFiniteSet(S) /\ Cardinality(S) = Depth
  <2>1. 0 \in Int /\ Depth - 1 \in Int /\ ~(0 > Depth - 1) /\ (Depth - 1) - 0 + 1 = Depth
    BY JitterSizesAre
  <2>. QED
    BY <2>1, FS_Interval
<1>5. PICK i \in S, j \in S : i # j /\ f[i] = f[j]
  <2>. HIDE DEF f, S
  <2>. QED
    BY <1>3, <1>4, FS_PigeonHole
<1>6. ASSUME NEW a \in S, NEW b \in S, a < b PROVE f[a] # f[b]
  <2>1. a \in Nat /\ b \in Nat /\ Displaced \in Nat
    BY JitterSizesAre
  <2>2. At(a) + Displaced <= At(b)
    BY <1>6, <2>1, Multiples
  <2>3. f[a] < At(a) + Displaced /\ At(b) <= f[b] /\ f[a] \in Int /\ f[b] \in Int /\ At(a) \in Int /\ At(b) \in Int
    <3>. HIDE DEF f, S, At
    <3>. QED
      BY <1>1, <1>2
  <2>. HIDE DEF f, S, At
  <2>. QED
    BY <2>2, <2>3, JitterSizesAre
<1>7. i < j \/ j < i
  BY <1>5
<1>. HIDE DEF f, S
<1>. QED
  BY <1>5, <1>6, <1>7

\* How far ahead a packet's number is tells where the packet belongs.
LEMMA AheadIs ==
    ASSUME NEW p \in Int, NEW n \in Int
    PROVE  /\ n <= p /\ p - n < AudioSeqMod => Ahead(p, n % AudioSeqMod) = p - n
           /\ p < n /\ n - p <= AudioSeqMod => Ahead(p, n % AudioSeqMod) = p - n + AudioSeqMod
<1>. DEFINE m == AudioSeqMod
            u == p % m
            v == n % m
<1>1. m \in Nat \ {0} /\ u \in Int /\ v \in Int
  BY JitterSizesAre, Division
<1>2. Ahead(p, n % m) = (u + 0 - v + m) % m
  BY <1>1 DEF Ahead, NumberOf
<1>3. /\ (p + 0) - n \in 0..(m - 1) => (u + 0 - v + m) % m = (p + 0) - n
      /\ (p + 0) - n \in (-m)..(-1) => (u + 0 - v + m) % m = (p + 0) - n + m
  <2>1. 0 \in {0, 1}
    OBVIOUS
  <2>. HIDE DEF m
  <2>. QED
    BY <1>1, <2>1, NumbersTell
<1>. HIDE DEF u, v
<1>. QED
  BY <1>1, <1>2, <1>3

\* Where _deliver() ends, for packets at n or ahead and none too far.
LEMMA DeliverableIs ==
    ASSUME NEW n \in Int, NEW h \in SUBSET Int, IsFiniteSet(h), NEW t \in Int, n <= t, t - n < HalfRound,
           \A p \in h : n <= p /\ p <= t
    PROVE  LET k == Deliverable(h, n % AudioSeqMod)
           IN  /\ k \in Nat /\ k <= t + 1 - n
               /\ Cardinality({p \in h : p - n >= k}) < Depth
<1>. DEFINE A == {Ahead(p, n % AudioSeqMod) : p \in h}
            B == {p - n : p \in h}
            Beyond(k) == {d \in B : d > k /\ d - k < HalfRound}
            K == {k \in 0..AudioSeqMod : k \notin B /\ Cardinality(Beyond(k)) < Depth}
            k0 == Deliverable(h, n % AudioSeqMod)
<1>1. A = B
  <2>1. ASSUME NEW p \in h PROVE Ahead(p, n % AudioSeqMod) = p - n
    <3>1. p \in Int /\ n <= p /\ p - n < AudioSeqMod
      BY JitterSizesAre
    <3>. QED
      BY <3>1, AheadIs
  <2>. QED
    BY <2>1
<1>2. k0 = Min(K)
  <2>. HIDE DEF A, B
  <2>1. k0 = LET D == A IN Min({ k \in 0..AudioSeqMod : /\ k \notin D
                                /\ Cardinality({ d \in D : d > k /\ d - k < HalfRound }) < Depth })
    BY DEF Deliverable, A
  <2>. QED
    BY <1>1, <2>1
<1>3. B \subseteq 0..(t - n) /\ IsFiniteSet(B)
  <2>1. B \subseteq 0..(t - n)
    OBVIOUS
  <2>2. IsFiniteSet(0..(t - n))
    BY FS_Interval
  <2>. HIDE DEF B
  <2>. QED
    BY <2>1, <2>2, FS_Subset
<1>4. t + 1 - n \in K
  <2>1. t + 1 - n \in 0..AudioSeqMod /\ t + 1 - n \notin B
    <3>. HIDE DEF B
    <3>. QED
      BY <1>3, JitterSizesAre
  <2>2. Beyond(t + 1 - n) = {}
    <3>. HIDE DEF B
    <3>1. \A d \in B : ~(d > t + 1 - n)
      BY <1>3
    <3>. QED
      BY <3>1
  <2>. HIDE DEF Beyond
  <2>. QED
    BY <2>1, <2>2, FS_EmptySet, JitterSizesAre
<1>5. K \subseteq Nat
  BY JitterSizesAre
<1>6. k0 \in K /\ k0 <= t + 1 - n
  <2>. HIDE DEF K
  <2>. QED
    BY <1>2, <1>4, <1>5, LeastMin
<1>7. k0 \in Nat /\ k0 \notin B /\ Cardinality(Beyond(k0)) < Depth
  <2>. HIDE DEF B, Beyond
  <2>. QED
    BY <1>6, JitterSizesAre
<1>. DEFINE rest == {p \in h : p - n >= k0}
            f == [p \in rest |-> p - n]
<1>. HIDE DEF k0
<1>8. f \in [rest -> Beyond(k0)]
  <2>1. ASSUME NEW p \in rest PROVE p - n \in Beyond(k0)
    <3>1. p - n \in B /\ p - n >= k0 /\ p - n # k0 /\ p - n <= t - n /\ p - n \in Int
      BY <1>7
    <3>. HIDE DEF B
    <3>2. p - n > k0 /\ (p - n) - k0 < HalfRound
      BY <1>7, <3>1, JitterSizesAre
    <3>. QED
      BY <3>1, <3>2
  <2>. QED
    BY <2>1
<1>9. \A p, q \in rest : f[p] = f[q] => p = q
  OBVIOUS
<1>10. IsFiniteSet(rest) /\ IsFiniteSet(Beyond(k0)) /\ Cardinality(rest) \in Nat /\ Cardinality(Beyond(k0)) \in Nat
  <2>1. rest \in SUBSET h /\ Beyond(k0) \in SUBSET B
    OBVIOUS
  <2>. HIDE DEF rest, Beyond, B
  <2>. QED
    BY <1>3, <2>1, FS_Subset, FS_CardinalityType
<1>11. ~(Cardinality(Beyond(k0)) < Cardinality(rest))
  <2>. HIDE DEF rest, Beyond, B, f
  <2>. QED
    BY <1>8, <1>9, <1>10, FS_PigeonHole
<1>. HIDE DEF rest, Beyond
<1>12. Cardinality(rest) < Depth
  BY <1>7, <1>10, <1>11, JitterSizesAre
<1>. QED
  BY <1>6, <1>7, <1>12 DEF k0, rest

-----------------------------------------------------------------------------
\* What is played at its place is played once.
LEMMA PlayedOnce ==
    ASSUME NEW P \in SUBSET (Int \X Int), NEW o \in Int, \A x \in P : x[1] = o + x[2]
    PROVE  \A x, y \in P : x # y => x[1] # y[1]
<1>1. \A x \in P : x[1] \in Int /\ x[2] \in Int /\ x = <<x[1], x[2]>>
  OBVIOUS
<1>. TAKE x, y \in P
<1>2. SUFFICES ASSUME x[1] = y[1] PROVE x = y
  OBVIOUS
<1>3. x[2] = y[2]
  <2>1. x[1] = o + x[2] /\ y[1] = o + y[2]
    OBVIOUS
  <2>2. x[2] \in Int /\ y[2] \in Int
    BY <1>1
  <2>. DEFINE a == x[2]
              b == y[2]
  <2>3. a \in Int /\ b \in Int /\ o + a = o + b
    BY <1>2, <2>1, <2>2
  <2>. HIDE DEF a, b
  <2>4. a = b
    BY <2>3
  <2>. QED
    BY <2>4 DEF a, b
<1>4. x = <<x[1], x[2]>> /\ y = <<y[1], y[2]>>
  BY <1>1
<1>. QED
  BY <1>2, <1>3, <1>4, Zenon

\* What a delivery of k places from n on makes of packets h that are at n or ahead.
Delivered(n, h, k, keeps, o) ==
    /\ next' = (n + k) % AudioSeqMod /\ next' \in 0..(AudioSeqMod - 1)
    /\ outputs' = outputs + k /\ outputs' \in Nat
    /\ \A x : x \in played' <=> x \in played \/ \E p \in h : p - n < k /\ x = <<p, p - o>>
    /\ \A p : p \in held' <=> keeps /\ p \in h /\ p - n >= k
    /\ \A p : p \in lost' <=> p \in lost \/ (~keeps /\ p \in h /\ p - n >= k)

LEMMA DeliverMakes ==
    ASSUME NEW n \in Int, NEW h \in SUBSET Int, NEW k \in Nat, NEW keeps \in BOOLEAN, NEW o \in Int,
           outputs \in Nat, n = o + outputs, \A p \in h : n <= p /\ p - n < AudioSeqMod,
           Deliver(h, n % AudioSeqMod, k, keeps)
    PROVE  Delivered(n, h, k, keeps, o)
<1>. DEFINE s == n % AudioSeqMod
            out == {p \in h : Ahead(p, s) < k}
<1>1. /\ next' = (s + k) % AudioSeqMod /\ outputs' = outputs + k
      /\ played' = played \union { <<p, outputs + Ahead(p, s)>> : p \in out }
      /\ held' = IF keeps THEN h \ out ELSE {}
      /\ lost' = IF keeps THEN lost ELSE lost \union (h \ out)
  BY DEF Deliver
<1>2. ASSUME NEW p \in h PROVE Ahead(p, s) = p - n /\ p \in Int
  <2>1. p \in Int /\ n <= p /\ p - n < AudioSeqMod
    OBVIOUS
  <2>. QED
    BY <2>1, AheadIs
<1>3. (s + k) % AudioSeqMod = (n + k) % AudioSeqMod /\ (n + k) % AudioSeqMod \in 0..(AudioSeqMod - 1)
  <2>1. AudioSeqMod \in Nat \ {0} /\ k \in Int /\ n + k \in Int
    BY JitterSizesAre
  <2>2. ((n % AudioSeqMod) + k) % AudioSeqMod = (n + k) % AudioSeqMod
    BY <2>1, CountPast
  <2>3. (n + k) % AudioSeqMod \in 0..(AudioSeqMod - 1)
    BY <2>1, Division
  <2>. QED
    BY <2>2, <2>3
<1>. HIDE DEF s
<1>4. \A p : p \in out <=> p \in h /\ p - n < k
  BY <1>2
<1>5. \A p \in out : outputs + Ahead(p, s) = p - o
  BY <1>2
<1>6. \A x : x \in played' <=> x \in played \/ \E p \in h : p - n < k /\ x = <<p, p - o>>
  <2>1. \A x : x \in played' <=> x \in played \/ \E p \in out : x = <<p, outputs + Ahead(p, s)>>
    BY <1>1
  <2>. HIDE DEF out
  <2>. QED
    BY <1>4, <1>5, <2>1
<1>7. \A p \in h : ~(p - n < k) <=> p - n >= k
  BY <1>2
<1>. HIDE DEF out
<1>8. next' = (n + k) % AudioSeqMod /\ next' \in 0..(AudioSeqMod - 1) /\ outputs' = outputs + k /\ outputs' \in Nat
  BY <1>1, <1>3
<1>9. \A p : p \in h /\ p \notin out <=> p \in h /\ p - n >= k
  BY <1>4, <1>7
<1>10. \A p : p \in held' <=> keeps /\ p \in h /\ p - n >= k
  <2>1. CASE keeps
    BY <1>1, <1>9, <2>1
  <2>2. CASE ~keeps
    BY <1>1, <2>2
  <2>. QED
    BY <2>1, <2>2
<1>11. \A p : p \in lost' <=> p \in lost \/ (~keeps /\ p \in h /\ p - n >= k)
  <2>1. CASE keeps
    BY <1>1, <2>1
  <2>2. CASE ~keeps
    BY <1>1, <1>9, <2>2
  <2>. QED
    BY <2>1, <2>2
<1>. QED
  BY <1>6, <1>8, <1>10, <1>11 DEF Delivered

\* Delivering keeps the flow.
LEMMA DeliverKeeps ==
    ASSUME NEW n \in Int, NEW h \in SUBSET Int, NEW k \in Nat, NEW t \in came', NEW o \in Int,
           Deliver(h, n % AudioSeqMod, k, TRUE),
           origin' = o, outputs \in Nat, n = o + outputs,
           came' \subseteq FirstAudio..LastAudio, h \subseteq came',
           \A p \in h : n <= p /\ p - n < AudioSeqMod,
           \A x \in Int : \A q \in came' : n <= x /\ x <= q => \E p \in h : x <= p /\ p < x + Displaced,
           k <= t + 1 - n, Cardinality({p \in h : p - n >= k}) < Depth, IsFiniteSet(h),
           played \subseteq Int \X Int, \A x \in played : x[1] = o + x[2],
           \A p : p \in came' <=> p \in h \/ p \in late' \/ \E x \in played : p = x[1],
           \A p \in late' : p < n,
           lost = {}, begun' = TRUE, stopped' = FALSE
    PROVE  JitterInv'
<1>1. /\ next' = (n + k) % AudioSeqMod /\ next' \in 0..(AudioSeqMod - 1)
      /\ outputs' = outputs + k /\ outputs' \in Nat
      /\ \A x : x \in played' <=> x \in played \/ \E p \in h : p - n < k /\ x = <<p, p - o>>
      /\ \A p : p \in held' <=> p \in h /\ p - n >= k
      /\ lost' = {}
  <2>. DEFINE keeps == TRUE
  <2>1. keeps \in BOOLEAN /\ Deliver(h, n % AudioSeqMod, k, keeps)
    OBVIOUS
  <2>. HIDE DEF keeps
  <2>2. Delivered(n, h, k, keeps, o)
    BY <2>1, DeliverMakes
  <2>3. lost' = {}
    BY <2>2 DEF keeps, Delivered
  <2>. QED
    BY <2>2, <2>3 DEF keeps, Delivered
<1>2. came' \subseteq Int /\ t \in Int
  BY JitterSizesAre
<1>3. Here' = n + k
  BY <1>1 DEF Here
<1>4. played' \subseteq Int \X Int /\ \A x \in played' : x[1] = o + x[2]
  <2>1. ASSUME NEW p \in h PROVE <<p, p - o>> \in Int \X Int /\ <<p, p - o>>[1] = o + <<p, p - o>>[2]
    BY <1>2
  <2>. QED
    BY <1>1, <2>1
<1>5. held' = {p \in h : p - n >= k} /\ Cardinality(held') < Depth
  BY <1>1
<1>6. JitterTypes'
  <2>1. Cardinality(held') <= MaxHeld
    <3>1. Cardinality(held') \in Nat
      <4>1. held' \in SUBSET h
        BY <1>5
      <4>. QED
        BY <4>1, FS_Subset, FS_CardinalityType
    <3>. QED
      BY <1>5, <3>1, JitterSizesAre
  <2>. QED
    BY <1>1, <1>4, <1>5, <2>1 DEF JitterTypes
<1>7. PlayedInPlace'
  <2>1. \A x, y \in played' : x # y => x[1] # y[1]
    BY <1>4, PlayedOnce
  <2>2. came' = held' \union lost' \union late' \union {x[1] : x \in played'}
    <3>1. ASSUME NEW p \in came' PROVE p \in held' \/ p \in late' \/ \E x \in played' : p = x[1]
      <4>1. CASE p \in h /\ p - n >= k
        BY <1>1, <4>1
      <4>2. CASE p \in h /\ p - n < k
        <5>1. <<p, p - o>> \in played'
          BY <1>1, <4>2
        <5>2. <<p, p - o>>[1] = p
          OBVIOUS
        <5>. QED
          BY <5>1, <5>2, Zenon
      <4>3. CASE p \in late'
        BY <4>3
      <4>4. CASE \E x \in played : p = x[1]
        BY <1>1, <4>4
      <4>5. p \in h => p - n >= k \/ p - n < k
        BY <1>2
      <4>. QED
        BY <4>1, <4>2, <4>3, <4>4, <4>5
    <3>2. ASSUME NEW x \in played' PROVE x[1] \in came'
      <4>1. CASE x \in played
        BY <4>1
      <4>2. CASE \E p \in h : p - n < k /\ x = <<p, p - o>>
        BY <4>2
      <4>. QED
        BY <1>1, <4>1, <4>2
    <3>3. held' \subseteq came' /\ late' \subseteq came' /\ lost' = {}
      BY <1>1
    <3>. QED
      BY <3>1, <3>2, <3>3
  <2>3. \A p \in late' : p < origin' + outputs'
    <3>1. \A p \in late' : p \in Int /\ p < n
      BY <1>2
    <3>2. origin' + outputs' = n + k
      <4>1. outputs' = outputs + k
        BY <1>1
      <4>. QED
        BY <4>1
    <3>. QED
      BY <3>1, <3>2
  <2>4. lost' = {} /\ \A x \in played' : x[1] = origin' + x[2]
    BY <1>1, <1>4
  <2>. QED
    BY <2>1, <2>2, <2>3, <2>4 DEF PlayedInPlace
<1>8. Flowing'
  <2>1. \A p \in held' : p >= Here'
    <3>1. ASSUME NEW p \in held' PROVE p \in Int /\ p - n >= k
      BY <1>1
    <3>. QED
      BY <1>3, <3>1
  <2>2. \E q \in came' : q >= Here' - 1
    BY <1>2, <1>3
  <2>3. ASSUME NEW x \in Int, NEW q \in came', Here' <= x, x <= q
        PROVE  \E p \in held' : x <= p /\ p < x + Displaced
    <3>1. n <= x
      BY <1>2, <1>3, <2>3
    <3>2. PICK p \in h : x <= p /\ p < x + Displaced
      BY <2>3, <3>1
    <3>3. p \in held'
      BY <1>1, <1>3, <2>3, <3>2
    <3>. QED
      BY <3>2, <3>3
  <2>. QED
    BY <1>1, <1>3, <1>5, <2>1, <2>2, <2>3 DEF Flowing
<1>. QED
  BY <1>6, <1>7, <1>8 DEF JitterInv

\* push(): a packet comes at its place or ahead of it, not too far, or it is late.
LEMMA PushKeeps ==
    ASSUME JitterInv, NEW p \in FirstAudio..LastAudio, Push(p)
    PROVE  JitterInv'
<1>. DEFINE s == IF begun THEN next ELSE NumberOf(p)
            h == held \union {p}
            o == IF begun THEN origin ELSE p
            n == o + outputs
<1>1. /\ ~stopped /\ \A q \in came : p >= q - Displaced
      /\ p <= Max(came \union {FirstAudio}) + Displaced
      /\ came' = came \union {p} /\ begun' = TRUE /\ origin' = o
      /\ late' = IF p \notin held /\ Behind(p, s) THEN late \union {p} ELSE late
      /\ IF NumberOf(p) \in { NumberOf(q) : q \in held } \/ Behind(p, s)
           THEN next' = s /\ UNCHANGED <<held, outputs, played, lost>>
           ELSE IF Cardinality(h) > MaxHeld THEN Deliver(h, s, Flushable(h, s), FALSE)
           ELSE Deliver(h, s, IF Cardinality(h) < Depth THEN 0 ELSE Deliverable(h, s), TRUE)
      /\ stopped' = stopped
  BY DEF Push
<1>2. /\ came \subseteq Int /\ held \subseteq came /\ outputs \in Nat /\ o \in Int /\ n \in Int /\ p \in Int
      /\ played \subseteq Int \X Int /\ came' \subseteq FirstAudio..LastAudio /\ came' \subseteq Int
      /\ stopped \in BOOLEAN /\ begun \in BOOLEAN /\ next \in 0..(AudioSeqMod - 1)
  BY <1>1, JitterSizesAre DEF JitterInv, JitterTypes
<1>3. IsFiniteSet(came) /\ IsFiniteSet(held) /\ Cardinality(held) \in Nat
  <2>1. IsFiniteSet(FirstAudio..LastAudio)
    BY FS_Interval, JitterSizesAre
  <2>2. came \in SUBSET (FirstAudio..LastAudio) /\ held \in SUBSET came
    BY DEF JitterInv, JitterTypes
  <2>. QED
    BY <2>1, <2>2, FS_Subset, FS_CardinalityType
<1>4. /\ s = n % AudioSeqMod /\ lost = {}
      /\ \A q \in held : q >= n
      /\ \A x \in played : x[1] = o + x[2]
      /\ \A x \in came : x \in held \/ x \in late \/ \E y \in played : x = y[1]
      /\ \A x \in held \union late : x \in came
      /\ \A y \in played : y[1] \in came
      /\ \A q \in late : q < n
      /\ Cardinality(held) < Depth
      /\ \A x \in Int : \A q \in came : n <= x /\ x <= q => \E y \in held : x <= y /\ y < x + Displaced
      /\ came = {} => p = n
      /\ came # {} => \E q \in came : q >= n - 1
  <2>1. CASE begun
    <3>1. o = origin /\ n = Here /\ s = next
      BY <2>1 DEF Here
    <3>2. Flowing /\ PlayedInPlace
      BY <1>1, <2>1 DEF JitterInv
    <3>. HIDE DEF o, n, s
    <3>3. /\ came = held \union lost \union late \union {x[1] : x \in played} /\ lost = {}
      BY <3>2 DEF Flowing, PlayedInPlace
    <3>4. /\ \A x \in came : x \in held \/ x \in late \/ \E y \in played : x = y[1]
          /\ \A x \in held \union late : x \in came
          /\ \A y \in played : y[1] \in came
      BY <3>3
    <3>5. came # {}
      BY <3>2 DEF Flowing
    <3>. QED
      BY <3>1, <3>2, <3>3, <3>4, <3>5 DEF Flowing, PlayedInPlace, Here
  <2>2. CASE ~begun
    <3>1. Idle /\ o = p /\ s = NumberOf(p)
      BY <1>1, <2>2 DEF JitterInv
    <3>2. n = p
      BY <1>2, <3>1 DEF Idle
    <3>. HIDE DEF o, n, s
    <3>3. Cardinality(held) = 0
      BY <3>1, FS_EmptySet DEF Idle
    <3>. QED
      BY <3>1, <3>2, <3>3, JitterSizesAre DEF Idle, NumberOf
  <2>. QED
    BY <1>2, <2>1, <2>2
<1>. HIDE DEF s, o, n
<1>5. came # {} => /\ Max(came \union {FirstAudio}) \in came
                   /\ \A q \in came : q <= Max(came \union {FirstAudio})
  <2>. DEFINE S == came \union {FirstAudio}
  <2>2. S \in SUBSET Int /\ S # {}
    BY <1>2, JitterSizesAre
  <2>3. CASE came # {}
    <3>1. LastAudio \in Int /\ \A q \in S : q <= LastAudio
      BY <2>3, JitterSizesAre DEF JitterInv, JitterTypes
    <3>2. Max(S) \in S /\ \A q \in S : q <= Max(S)
      <4>. HIDE DEF S
      <4>. QED
        BY <2>2, <3>1, LargestIs
    <3>3. \A q \in came : q >= FirstAudio
      BY JitterSizesAre DEF JitterInv, JitterTypes
    <3>4. Max(S) = FirstAudio => Max(S) \in came
      <4>1. PICK q \in came : TRUE
        BY <2>3
      <4>2. q \in S /\ q >= FirstAudio /\ q \in Int /\ FirstAudio \in Int
        BY <1>2, <3>3, JitterSizesAre
      <4>3. Max(S) = FirstAudio => q <= FirstAudio
        BY <3>2, <4>2
      <4>. HIDE DEF S
      <4>. QED
        BY <4>1, <4>2, <4>3
    <3>. QED
      BY <3>2, <3>4
  <2>. QED
    BY <2>3
<1>6. ASSUME NEW q \in came PROVE q <= n - 1 + Wide
  <2>1. q \in Int /\ held \in SUBSET Int
    BY <1>2
  <2>. QED
    BY <1>2, <1>3, <1>4, <2>1, HeldSpan
<1>7. p - n < HalfRound /\ n - p <= Displaced + 1
  <2>1. CASE came = {}
    BY <1>2, <1>4, <2>1, JitterSizesAre
  <2>2. CASE came # {}
    <3>1. PICK m \in came : p <= m + Displaced
      BY <1>1, <1>5, <2>2
    <3>2. PICK q \in came : q >= n - 1
      BY <1>4, <2>2
    <3>. QED
      BY <1>1, <1>2, <1>6, <3>1, <3>2, JitterSizesAre
  <2>. QED
    BY <2>1, <2>2
<1>8. Behind(p, s) <=> p < n
  <2>1. CASE p < n
    <3>1. Ahead(p, s) = p - n + AudioSeqMod
      <4>1. n - p <= AudioSeqMod /\ p \in Int /\ n \in Int
        BY <1>2, <1>7, JitterSizesAre
      <4>2. Ahead(p, n % AudioSeqMod) = p - n + AudioSeqMod
        BY <2>1, <4>1, AheadIs
      <4>. QED
        BY <1>4, <4>2
    <3>. QED
      BY <1>2, <1>7, <2>1, <3>1, JitterSizesAre DEF Behind
  <2>2. CASE n <= p
    <3>1. Ahead(p, s) = p - n
      <4>1. p - n < AudioSeqMod /\ p \in Int /\ n \in Int
        BY <1>2, <1>7, JitterSizesAre
      <4>2. Ahead(p, n % AudioSeqMod) = p - n
        BY <2>2, <4>1, AheadIs
      <4>. QED
        BY <1>4, <4>2
    <3>. QED
      BY <1>2, <1>7, <2>2, <3>1, JitterSizesAre DEF Behind
  <2>. QED
    BY <1>2, <2>1, <2>2
<1>9. ASSUME p >= n, NumberOf(p) \in {NumberOf(q) : q \in held} PROVE p \in held
  <2>1. PICK q \in held : NumberOf(p) = NumberOf(q)
    BY <1>9
  <2>2. q \in Int /\ q >= n /\ q - n < AudioSeqMod /\ p - n < AudioSeqMod
    BY <1>2, <1>4, <1>6, <1>7, JitterSizesAre
  <2>3. Ahead(p, s) = p - n /\ Ahead(q, s) = q - n
    BY <1>2, <1>4, <1>9, <2>2, AheadIs
  <2>4. Ahead(p, s) = Ahead(q, s)
    BY <2>1 DEF Ahead
  <2>5. p = q
    BY <1>2, <2>2, <2>3, <2>4
  <2>. QED
    BY <2>5
<1>10. CASE p < n \/ p \in held
  <2>1. NumberOf(p) \in {NumberOf(q) : q \in held} \/ Behind(p, s)
    BY <1>8, <1>10
  <2>2. /\ next' = s /\ held' = held /\ outputs' = outputs /\ played' = played /\ lost' = lost
    BY <1>1, <2>1
  <2>3. late' = IF p < n THEN late \union {p} ELSE late
    <3>1. p < n => p \notin held
      BY <1>2, <1>4
    <3>. QED
      BY <1>1, <1>8, <1>10, <3>1
  <2>4. Here' = n /\ origin' = o /\ origin' + outputs' = n
    BY <1>1, <2>2 DEF Here, n
  <2>5. JitterTypes'
    <3>1. held' \subseteq came'
      BY <1>1, <1>2, <2>2
    <3>2. next' \in 0..(AudioSeqMod - 1)
      <4>1. AudioSeqMod \in Nat \ {0} /\ next' = n % AudioSeqMod
        BY <1>4, <2>2, JitterSizesAre
      <4>2. n % AudioSeqMod \in 0..(AudioSeqMod - 1)
        BY <1>2, <4>1, Division
      <4>. QED
        BY <4>1, <4>2
    <3>3. Cardinality(held') <= MaxHeld
      BY <2>2 DEF JitterInv, JitterTypes
    <3>. QED
      BY <1>1, <1>2, <2>2, <3>1, <3>2, <3>3 DEF JitterTypes
  <2>6. PlayedInPlace'
    <3>1. \A x, y \in played' : x # y => x[1] # y[1]
      BY <2>2 DEF JitterInv, PlayedInPlace
    <3>2. came' = held' \union lost' \union late' \union {x[1] : x \in played'}
      <4>1. \A x \in came' : x \in held' \/ x \in late' \/ \E y \in played' : x = y[1]
        BY <1>1, <1>4, <1>10, <2>2, <2>3
      <4>2. \A x \in held' \union late' : x \in came'
        BY <1>1, <1>4, <2>2, <2>3
      <4>3. \A y \in played' : y[1] \in came'
        BY <1>1, <1>4, <2>2
      <4>. QED
        BY <1>4, <2>2, <4>1, <4>2, <4>3
    <3>3. \A q \in late' : q < origin' + outputs'
      BY <1>4, <2>3, <2>4
    <3>. QED
      BY <1>1, <1>4, <2>2, <3>1, <3>2, <3>3 DEF PlayedInPlace
  <2>7. Flowing'
    <3>1. came # {}
      BY <1>2, <1>4, <1>10
    <3>2. \E q \in came' : q >= Here' - 1
      BY <1>1, <1>4, <2>4, <3>1
    <3>3. ASSUME NEW x \in Int, NEW q \in came', Here' <= x, x <= q
          PROVE  \E y \in held' : x <= y /\ y < x + Displaced
      <4>1. CASE q \in came
        BY <1>4, <2>2, <2>4, <3>3, <4>1
      <4>2. CASE q = p /\ p < n
        BY <1>2, <2>4, <3>3, <4>2
      <4>3. CASE p \in held
        BY <1>1, <1>2, <1>4, <2>2, <2>4, <3>3, <4>1, <4>3
      <4>. QED
        BY <1>1, <1>10, <4>1, <4>2, <4>3
    <3>. QED
      BY <1>4, <2>2, <2>4, <3>2, <3>3 DEF Flowing
  <2>. QED
    BY <1>1, <2>5, <2>6, <2>7 DEF JitterInv
<1>11. CASE n <= p /\ p \notin held
  <2>1. ~(NumberOf(p) \in {NumberOf(q) : q \in held} \/ Behind(p, s)) /\ late' = late
    <3>1. ~(p < n) /\ p >= n
      BY <1>2, <1>11
    <3>. QED
      BY <1>1, <1>8, <1>9, <1>11, <3>1
  <2>2. IsFiniteSet(h) /\ Cardinality(h) = Cardinality(held) + 1 /\ Cardinality(h) <= Depth
    <3>1. IsFiniteSet(h) /\ Cardinality(h) = Cardinality(held) + 1
      BY <1>3, <1>11, FS_AddElement
    <3>. QED
      BY <1>3, <1>4, <3>1, JitterSizesAre
  <2>3. ~(Cardinality(h) > MaxHeld) /\ Cardinality(h) \in Nat
    BY <1>3, <2>2, JitterSizesAre
  <2>. DEFINE k == IF Cardinality(h) < Depth THEN 0 ELSE Deliverable(h, s)
  <2>4. Deliver(h, s, k, TRUE)
    BY <1>1, <2>1, <2>3
  <2>5. PICK t \in came' : \A q \in came' : q <= t
    <3>1. came' \in SUBSET Int /\ came' # {} /\ LastAudio \in Int /\ \A q \in came' : q <= LastAudio
      BY <1>1, <1>2, JitterSizesAre
    <3>. QED
      BY <3>1, LargestIs
  <2>6. t \in Int /\ n <= t /\ t - n < HalfRound
    <3>1. t \in Int /\ p <= t
      BY <1>1, <1>2, <2>5
    <3>2. t = p \/ t \in came
      BY <1>1
    <3>. QED
      BY <1>2, <1>6, <1>7, <1>11, <3>1, <3>2, JitterSizesAre
  <2>7. h \in SUBSET Int /\ h \subseteq came' /\ \A q \in h : n <= q /\ q <= t
    BY <1>1, <1>2, <1>4, <1>11, <2>5
  <2>8. k \in Nat /\ k <= t + 1 - n /\ Cardinality({q \in h : q - n >= k}) < Depth
    <3>1. CASE Cardinality(h) < Depth
      <4>1. {q \in h : q - n >= 0} = h
        <5>1. \A q \in h : q \in Int /\ n <= q
          BY <2>7
        <5>. HIDE DEF h
        <5>2. \A q \in h : q - n >= 0
          BY <1>2, <5>1
        <5>. QED
          BY <5>2
      <4>2. k = 0
        BY <3>1
      <4>. HIDE DEF h, k
      <4>3. k \in Nat /\ k <= t + 1 - n
        BY <1>2, <2>6, <4>2
      <4>. QED
        BY <3>1, <4>1, <4>2, <4>3
    <3>2. CASE ~(Cardinality(h) < Depth)
      <4>1. k = Deliverable(h, n % AudioSeqMod)
        BY <1>4, <3>2
      <4>. HIDE DEF h, k
      <4>. QED
        BY <1>2, <2>2, <2>6, <2>7, <4>1, DeliverableIs
    <3>. QED
      BY <3>1, <3>2
  <2>9. \A x \in Int : \A q \in came' : n <= x /\ x <= q => \E y \in h : x <= y /\ y < x + Displaced
    <3>. SUFFICES ASSUME NEW x \in Int, NEW q \in came', n <= x, x <= q
                  PROVE  \E y \in h : x <= y /\ y < x + Displaced
      OBVIOUS
    <3>1. CASE \E m \in came : x <= m
      BY <1>4, <3>1
    <3>2. CASE ~ \E m \in came : x <= m
      <4>1. q = p /\ x <= p
        BY <1>1, <3>2
      <4>2. p < x + Displaced
        <5>1. CASE came = {}
          BY <1>2, <1>4, <5>1, JitterSizesAre
        <5>2. CASE came # {}
          BY <1>1, <1>2, <1>5, <3>2, <5>2, JitterSizesAre
        <5>. QED
          BY <5>1, <5>2
      <4>. QED
        BY <4>1, <4>2
    <3>. QED
      BY <3>1, <3>2
  <2>10. \A q : q \in came' <=> q \in h \/ q \in late' \/ \E x \in played : q = x[1]
    BY <1>1, <1>4, <2>1
  <2>11. \A q \in h : n <= q /\ q - n < AudioSeqMod
    BY <1>2, <2>6, <2>7, JitterSizesAre
  <2>12. \A q \in late' : q < n
    BY <1>4, <2>1
  <2>13. stopped' = FALSE
    BY <1>1, <1>2
  <2>14. n = o + outputs
    BY DEF n
  <2>15. Deliver(h, n % AudioSeqMod, k, TRUE) /\ origin' = o /\ begun' = TRUE
    BY <1>1, <1>4, <2>4
  <2>. HIDE DEF h, k
  <2>. QED
    BY <1>2, <1>4, <2>2, <2>7, <2>8, <2>9, <2>10, <2>11, <2>12, <2>13, <2>14, <2>15, DeliverKeeps
<1>12. p < n \/ n <= p
  BY <1>2
<1>. QED
  BY <1>10, <1>11, <1>12

\* stop_rx(): what is held is flushed up to the largest number; what is left has a
\* number that has wrapped.
LEMMA StopKeeps ==
    ASSUME JitterInv, Stop
    PROVE  JitterInv'
<1>. DEFINE n == Here
            k == Flushable(held, next)
<1>1. /\ begun /\ ~stopped /\ stopped' = TRUE /\ Deliver(held, next, k, FALSE)
      /\ came' = came /\ begun' = begun /\ origin' = origin /\ late' = late
  BY DEF Stop
<1>2. Flowing /\ PlayedInPlace /\ JitterTypes /\ next = n % AudioSeqMod
  BY <1>1 DEF JitterInv, Flowing
<1>3. came \subseteq Int /\ held \subseteq Int /\ n \in Int /\ outputs \in Nat /\ origin \in Int /\ played \subseteq Int \X Int
  BY <1>2, JitterSizesAre DEF JitterTypes, Here
<1>4. IsFiniteSet(held)
  <2>1. IsFiniteSet(FirstAudio..LastAudio)
    BY FS_Interval, JitterSizesAre
  <2>2. held \in SUBSET (FirstAudio..LastAudio)
    BY <1>2 DEF JitterTypes
  <2>. QED
    BY <2>1, <2>2, FS_Subset
<1>5. ASSUME NEW p \in held PROVE n <= p /\ p <= n - 1 + Wide
  <2>1. p \in Int /\ held \in SUBSET Int /\ p \in came /\ n <= p
    BY <1>2, <1>3 DEF Flowing, JitterTypes
  <2>2. Cardinality(held) < Depth
    BY <1>2 DEF Flowing
  <2>3. \A x \in Int : n <= x /\ x <= p => \E q \in held : x <= q /\ q < x + Displaced
    BY <1>2, <2>1 DEF Flowing
  <2>. HIDE DEF n
  <2>. QED
    BY <1>3, <1>4, <2>1, <2>2, <2>3, HeldSpan
<1>. HIDE DEF n
<1>6. /\ k \in Nat
      /\ held # {} => \E q \in held : k = q + 1 - n /\ \A p \in held : NumberOf(p) <= NumberOf(q)
  <2>1. CASE held = {}
    BY <2>1 DEF Flushable
  <2>2. CASE held # {}
    <3>. DEFINE S == {NumberOf(p) : p \in held}
                c == (Max(S) + 1 - next + AudioSeqMod) % AudioSeqMod
                C == {c, MaxHeld + Depth + 1}
    <3>1. k = Min(C)
      BY <2>2 DEF Flushable
    <3>2. S \in SUBSET Int /\ S # {} /\ \A x \in S : x <= AudioSeqMod - 1
      <4>1. ASSUME NEW p \in held PROVE NumberOf(p) \in Int /\ NumberOf(p) <= AudioSeqMod - 1
        BY <1>3, Division, JitterSizesAre DEF NumberOf
      <4>. QED
        BY <2>2, <4>1
    <3>3. Max(S) \in S /\ \A x \in S : x <= Max(S)
      <4>1. AudioSeqMod - 1 \in Int
        BY JitterSizesAre
      <4>. HIDE DEF S
      <4>. QED
        BY <3>2, <4>1, LargestIs
    <3>4. PICK q \in held : Max(S) = NumberOf(q)
      BY <3>3
    <3>5. \A p \in held : NumberOf(p) <= NumberOf(q)
      BY <3>3, <3>4
    <3>6. q \in Int /\ (q + 1) - n \in 0..(AudioSeqMod - 1) /\ q + 1 - n <= MaxHeld + Depth + 1 /\ q + 1 - n \in Nat
      BY <1>3, <1>5, JitterSizesAre
    <3>. HIDE DEF S
    <3>7. c = q + 1 - n
      <4>1. c = ((q % AudioSeqMod) + 1 - (n % AudioSeqMod) + AudioSeqMod) % AudioSeqMod
        BY <1>2, <3>4 DEF NumberOf
      <4>2. 1 \in {0, 1}
        OBVIOUS
      <4>. HIDE DEF c
      <4>. QED
        <5>1. AudioSeqMod \in Nat \ {0} /\ q \in Int /\ n \in Int
          BY <1>3, <3>6, JitterSizesAre
        <5>2. ((q % AudioSeqMod) + 1 - (n % AudioSeqMod) + AudioSeqMod) % AudioSeqMod = (q + 1) - n
          BY <3>6, <4>2, <5>1, NumbersTell
        <5>3. (q + 1) - n = q + 1 - n
          BY <5>1
        <5>. QED
          BY <4>1, <5>2, <5>3, Zenon
    <3>. HIDE DEF c
    <3>8. C \in SUBSET Nat /\ c \in C /\ MaxHeld + Depth + 1 \in C
      BY <3>6, <3>7, JitterSizesAre
    <3>9. Min(C) \in C /\ \A x \in C : Min(C) <= x
      <4>. HIDE DEF C
      <4>. QED
        BY <3>8, LeastMin
    <3>10. Min(C) = c
      <4>1. Min(C) = c \/ Min(C) = MaxHeld + Depth + 1
        BY <3>9
      <4>2. Min(C) <= c /\ c <= MaxHeld + Depth + 1 /\ c \in Nat
        BY <3>6, <3>7, <3>8, <3>9
      <4>. HIDE DEF C
      <4>. QED
        BY <4>1, <4>2, JitterSizesAre
    <3>. HIDE DEF k, C
    <3>. QED
      BY <3>1, <3>5, <3>6, <3>7, <3>10
  <2>. QED
    BY <2>1, <2>2
<1>7. \A p \in held : n <= p /\ p - n < AudioSeqMod
  BY <1>3, <1>5, JitterSizesAre
<1>. HIDE DEF k
<1>8. n = origin + outputs
  BY DEF n, Here
<1>9. /\ next' \in 0..(AudioSeqMod - 1) /\ outputs' = outputs + k /\ outputs' \in Nat
      /\ \A x : x \in played' <=> x \in played \/ \E p \in held : p - n < k /\ x = <<p, p - origin>>
      /\ held' = {}
      /\ \A p : p \in lost' <=> p \in lost \/ (p \in held /\ p - n >= k)
  <2>. DEFINE keeps == FALSE
  <2>1. Delivered(n, held, k, keeps, origin)
    <3>1. keeps \in BOOLEAN /\ held \in SUBSET Int /\ Deliver(held, n % AudioSeqMod, k, keeps)
      BY <1>1, <1>2, <1>3
    <3>. HIDE DEF keeps
    <3>. QED
      BY <1>3, <1>6, <1>7, <1>8, <3>1, DeliverMakes
  <2>. QED
    BY <2>1 DEF Delivered
<1>10. lost = {}
  BY <1>2 DEF Flowing
<1>11. played' \subseteq Int \X Int /\ \A x \in played' : x[1] = origin + x[2]
  <2>1. ASSUME NEW p \in held PROVE <<p, p - origin>> \in Int \X Int /\ <<p, p - origin>>[1] = origin + <<p, p - origin>>[2]
    BY <1>3
  <2>2. \A x \in played : x[1] = origin + x[2]
    BY <1>2 DEF PlayedInPlace
  <2>. QED
    BY <1>3, <1>9, <2>1, <2>2
<1>12. JitterTypes'
  <2>1. Cardinality(held') <= MaxHeld
    BY <1>9, FS_EmptySet, JitterSizesAre
  <2>. QED
    BY <1>1, <1>2, <1>9, <1>11, <2>1 DEF JitterTypes
<1>13. PlayedInPlace'
  <2>1. \A x, y \in played' : x # y => x[1] # y[1]
    BY <1>3, <1>11, PlayedOnce
  <2>2. came' = held' \union lost' \union late' \union {x[1] : x \in played'}
    <3>1. came = held \union lost \union late \union {x[1] : x \in played}
      BY <1>2 DEF PlayedInPlace
    <3>2. ASSUME NEW p \in came PROVE p \in lost' \/ p \in late' \/ \E x \in played' : p = x[1]
      <4>1. CASE p \in held /\ p - n >= k
        BY <1>9, <4>1
      <4>2. CASE p \in held /\ p - n < k
        <5>1. <<p, p - origin>> \in played' /\ <<p, p - origin>>[1] = p
          BY <1>9, <4>2
        <5>. QED
          BY <5>1
      <4>3. CASE p \in late
        BY <1>1, <4>3
      <4>4. CASE \E x \in played : p = x[1]
        BY <1>9, <4>4
      <4>5. p \in held => p - n >= k \/ p - n < k
        BY <1>3, <1>6
      <4>. QED
        BY <1>10, <3>1, <4>1, <4>2, <4>3, <4>4, <4>5
    <3>3. ASSUME NEW x \in played' PROVE x[1] \in came
      <4>1. CASE x \in played
        BY <3>1, <4>1
      <4>2. CASE \E p \in held : p - n < k /\ x = <<p, p - origin>>
        BY <3>1, <4>2
      <4>. QED
        BY <1>9, <4>1, <4>2
    <3>4. held' = {} /\ late' \subseteq came /\ lost' \subseteq came
      BY <1>1, <1>9, <3>1
    <3>. QED
      BY <1>1, <3>2, <3>3, <3>4
  <2>3. \A p \in late' : p < origin' + outputs'
    <3>1. \A p \in late : p \in Int /\ p < n
      BY <1>2, <1>3, <1>8 DEF PlayedInPlace
    <3>. QED
      BY <1>1, <1>3, <1>6, <1>8, <1>9, <3>1
  <2>4. lost' # {} => \E x \in played', p \in lost' : x[1] \div AudioSeqMod < p \div AudioSeqMod
    <3>. SUFFICES ASSUME NEW p \in lost' PROVE \E x \in played' : x[1] \div AudioSeqMod < p \div AudioSeqMod
      OBVIOUS
    <3>1. p \in held /\ p - n >= k
      BY <1>9, <1>10
    <3>2. PICK q \in held : k = q + 1 - n /\ NumberOf(p) <= NumberOf(q)
      BY <1>6, <3>1
    <3>3. <<q, q - origin>> \in played' /\ <<q, q - origin>>[1] = q
      <4>1. q - n < k
        BY <1>3, <3>2
      <4>. QED
        BY <1>9, <4>1
    <3>4. p > q /\ p \in Int /\ q \in Int
      BY <1>3, <3>1, <3>2
    <3>5. q \div AudioSeqMod < p \div AudioSeqMod
      BY <3>2, <3>4, RoundOn, JitterSizesAre DEF NumberOf
    <3>. QED
      BY <3>3, <3>5
  <2>. QED
    BY <1>1, <1>11, <2>1, <2>2, <2>3, <2>4 DEF PlayedInPlace
<1>. QED
  BY <1>1, <1>12, <1>13 DEF JitterInv

-----------------------------------------------------------------------------
\* The flow of push() and the end of flush() (audio/lan_stream.py).
THEOREM JitterInvariance == JitterSpec => []JitterInv
<1>1. JitterInit => JitterInv
  <2>. SUFFICES ASSUME JitterInit PROVE JitterInv
    OBVIOUS
  <2>1. /\ came = {} /\ held = {} /\ next = 0 /\ begun = FALSE /\ stopped = FALSE
        /\ origin = 0 /\ outputs = 0 /\ played = {} /\ late = {} /\ lost = {}
    BY DEF JitterInit
  <2>2. JitterTypes
    <3>1. Cardinality(held) <= MaxHeld
      BY <2>1, FS_EmptySet, JitterSizesAre
    <3>2. next \in 0..(AudioSeqMod - 1)
      BY <2>1, JitterSizesAre
    <3>. QED
      <4>1. came = {} /\ held = {} /\ played = {} => came \subseteq FirstAudio..LastAudio /\ held \subseteq came /\ played \subseteq Int \X Int
        OBVIOUS
      <4>2. outputs \in Nat /\ origin \in Int
        BY <2>1
      <4>3. begun \in BOOLEAN /\ stopped \in BOOLEAN
        BY <2>1, Zenon
      <4>. QED
        BY <2>1, <3>1, <3>2, <4>1, <4>2, <4>3, Zenon DEF JitterTypes
  <2>. QED
    BY <2>1, <2>2 DEF JitterInv, Idle, PlayedInPlace
<1>2. ASSUME JitterInv, [JitterNext]_jitterAll PROVE JitterInv'
  <2>1. CASE UNCHANGED jitterAll
    BY <1>2, <2>1 DEF jitterAll, JitterInv, JitterTypes, PlayedInPlace, Idle, Flowing, Here
  <2>. QED
    BY <1>2, <2>1, PushKeeps, StopKeeps DEF JitterNext
<1>. QED
  BY <1>1, <1>2, PTL DEF JitterSpec

\* The buffer never holds more than its cap (_max_held of audio/lan_stream.py).
THEOREM JitterTypeCorrect == JitterSpec => []JitterTypeOK
<1>1. JitterInv => JitterTypeOK
  BY DEF JitterInv, JitterTypes, JitterTypeOK
<1>. QED
  BY <1>1, JitterInvariance, PTL

\* Every packet that is not too late is played once, at its own place (push() and
\* flush() of audio/lan_stream.py), for any depth, any modulus and any order of
\* arrival the assumption on the sizes allows.
THEOREM PacketsPlayedInPlace == JitterSpec => []PlayedInPlace
<1>. QED
  BY JitterInvariance, PTL DEF JitterInv
=============================================================================
