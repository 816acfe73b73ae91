------------------------- MODULE CivExecution_proofs -------------------------
(***************************************************************************)
(* Proofs about CivExecution and its tracker, for any commands, keys and   *)
(* limits of the tables.                                                   *)
(*                                                                         *)
(* AnswerIsOwn is about one command; what keeps its answer its own is said *)
(* of all of them (Aligned): unless commands have overlapped or an answer  *)
(* has gone astray, one command runs, a waiter waits alone and no orphan   *)
(* is kept. WaitersAgree and CurrentGeneration need that waiters are       *)
(* registered after the drain and by commands that await them              *)
(* (WaitersFit). That a command alone gets its verdict whatever was left   *)
(* behind (VerdictArrives) needs AloneInv: nobody else can be answered     *)
(* while it runs, and no sink is before its waiter.                        *)
(***************************************************************************)
EXTENDS CivExecution, FiniteSetTheorems, SequenceTheorems, WellFoundedInduction, TLAPS

-----------------------------------------------------------------------------
(* Positions in a sequence.                                                *)

\* A set of positions is finite, and no larger than the sequence.
LEMMA Positions ==
    ASSUME NEW S, NEW s \in Seq(S), NEW I \in SUBSET DOMAIN s
    PROVE  IsFiniteSet(I) /\ Cardinality(I) \in Nat /\ Cardinality(I) <= Len(s)
<1>1. Len(s) \in Nat /\ DOMAIN s = 1..Len(s)
  OBVIOUS
<1>2. IsFiniteSet(1..Len(s)) /\ Cardinality(1..Len(s)) = Len(s)
  <2>1. 1 \in Int /\ Len(s) \in Int
    BY <1>1
  <2>2. /\ IsFiniteSet(1..Len(s))
        /\ Cardinality(1..Len(s)) = IF 1 > Len(s) THEN 0 ELSE Len(s) - 1 + 1
    BY <2>1, FS_Interval
  <2> QED
    BY <1>1, <2>2
<1> QED
  BY <1>1, <1>2, FS_Subset, FS_CardinalityType

\* Ranks count the positions from 1, without a gap or a repetition.
LEMMA Ranks ==
    ASSUME NEW S, NEW s \in Seq(S), NEW I \in SUBSET DOMAIN s
    PROVE  /\ \A i \in I : Rank(I, i) \in 1..Cardinality(I)
           /\ \A k \in 1..Cardinality(I) : \E i \in I : Rank(I, i) = k
           /\ \A i, j \in I : Rank(I, i) = Rank(I, j) => i = j
<1> DEFINE upTo(i) == {j \in I : j <= i}
           rank == [i \in I |-> Rank(I, i)]
<1>1. IsFiniteSet(I) /\ Cardinality(I) \in Nat /\ I \subseteq Nat
  BY Positions
<1>2. ASSUME NEW i \in I PROVE IsFiniteSet(upTo(i)) /\ upTo(i) \in SUBSET I /\ i \in upTo(i)
  BY <1>1, FS_Subset
<1>3. ASSUME NEW i \in I PROVE Rank(I, i) \in 1..Cardinality(I)
  <2>1. Cardinality(upTo(i)) \in Nat /\ Cardinality(upTo(i)) <= Cardinality(I)
    BY <1>1, <1>2, FS_Subset, FS_CardinalityType
  <2>2. Cardinality(upTo(i)) # 0
    BY <1>2, FS_EmptySet
  <2> QED
    BY <1>1, <2>1, <2>2 DEF Rank
<1>4. ASSUME NEW i \in I, NEW j \in I, i < j PROVE Rank(I, i) # Rank(I, j)
  <2>1. upTo(i) \in SUBSET upTo(j) /\ j \in upTo(j) /\ j \notin upTo(i)
    BY <1>1, <1>4
  <2> QED
    BY <2>1, <1>2, FS_Subset DEF Rank
<1>5. rank \in Injection(I, 1..Cardinality(I))
  <2>1. rank \in [I -> 1..Cardinality(I)]
    BY <1>3
  <2>2. ASSUME NEW i \in I, NEW j \in I, i # j PROVE rank[i] # rank[j]
    BY <2>2, <1>1, <1>4
  <2> QED
    BY <2>1, <2>2 DEF Injection, IsInjective
<1>6. IsFiniteSet(1..Cardinality(I)) /\ Cardinality(1..Cardinality(I)) = Cardinality(I)
  <2>1. 1 \in Int /\ Cardinality(I) \in Int
    BY <1>1
  <2>2. /\ IsFiniteSet(1..Cardinality(I))
        /\ Cardinality(1..Cardinality(I))
              = IF 1 > Cardinality(I) THEN 0 ELSE Cardinality(I) - 1 + 1
    BY <2>1, FS_Interval
  <2> QED
    BY <1>1, <2>2
<1>7. rank \in Surjection(I, 1..Cardinality(I))
  BY <1>5, <1>6, FS_Injection
<1> QED
  <2>1. \A k \in 1..Cardinality(I) : \E i \in I : Rank(I, i) = k
    BY <1>7 DEF Surjection
  <2>2. \A i, j \in I : Rank(I, i) = Rank(I, j) => i = j
    <3> SUFFICES ASSUME NEW i \in I, NEW j \in I, i # j
                 PROVE  Rank(I, i) # Rank(I, j)
      OBVIOUS
    <3>1. i < j \/ j < i
      BY <1>1
    <3> QED
      BY <3>1, <1>4
  <2> QED
    BY <1>3, <2>1, <2>2

\* What Part keeps: exactly the entries at the positions in I.
LEMMA PartKeeps ==
    ASSUME NEW S, NEW s \in Seq(S), NEW I \in SUBSET DOMAIN s
    PROVE  /\ Part(s, I) \in Seq(S)
           /\ Len(Part(s, I)) = Cardinality(I)
           /\ Len(Part(s, I)) <= Len(s)
           /\ \A k \in DOMAIN Part(s, I) : \E i \in I : Part(s, I)[k] = s[i]
           /\ \A i \in I : \E k \in DOMAIN Part(s, I) : Part(s, I)[k] = s[i]
<1> DEFINE n == Cardinality(I)
           at(k) == CHOOSE i \in I : Rank(I, i) = k
<1>1. n \in Nat /\ n <= Len(s) /\ DOMAIN s = 1..Len(s) /\ Len(s) \in Nat
  BY Positions
<1>2. ASSUME NEW k \in 1..n PROVE at(k) \in I /\ Rank(I, at(k)) = k
  BY Ranks
<1>3. Part(s, I) = [k \in 1..n |-> s[at(k)]]
  BY DEF Part
<1>4. \A k \in 1..n : s[at(k)] \in S
  BY <1>1, <1>2
<1> HIDE DEF n, at
<1>5. Part(s, I) \in Seq(S) /\ Len(Part(s, I)) = n /\ DOMAIN Part(s, I) = 1..n
  BY <1>1, <1>3, <1>4
<1>6. \A k \in 1..n : \E i \in I : Part(s, I)[k] = s[i]
  BY <1>2, <1>3
<1>7. ASSUME NEW i \in I PROVE \E k \in 1..n : Part(s, I)[k] = s[i]
  <2>1. Rank(I, i) \in 1..n
    BY Ranks DEF n
  <2>2. ASSUME NEW j \in I, j # i PROVE Rank(I, j) # Rank(I, i)
    BY <2>2, Ranks
  <2> QED
    BY <2>1, <2>2, <1>2, <1>3
<1> QED
  BY <1>1, <1>5, <1>6, <1>7 DEF n
-----------------------------------------------------------------------------
(* The earliest of several positions.                                      *)

Less == {p \in Nat \X Nat : p[1] < p[2]}

\* The order of the numbers, for WFMin.
LEMMA LessIsWellFounded == IsWellFoundedOn(Less, Nat)
<1>1. Less = OpToRel(<, Nat)
  BY DEF Less, OpToRel
<1> QED
  BY <1>1, NatLessThanWellFounded

\* Every nonempty set of numbers has a least element, so that Earliest is one of
\* the positions it is given.
LEMMA EarliestIsLeast ==
    ASSUME NEW T \in SUBSET Nat, T # {}
    PROVE  Earliest(T) \in T /\ \A n \in T : Earliest(T) <= n
<1>1. PICK m \in T : \A n \in T : <<n, m>> \notin Less
  BY LessIsWellFounded, WFMin
<1>2. ASSUME NEW n \in T PROVE m <= n
  <2>1. <<n, m>> \in Nat \X Nat /\ <<n, m>>[1] = n /\ <<n, m>>[2] = m
    BY Zenon
  <2>2. ~ (n < m)
    BY <1>1, <2>1 DEF Less
  <2> QED
    BY <2>2
<1> QED
  BY <1>2 DEF Earliest

-----------------------------------------------------------------------------
(* The operations of the tracker.                                          *)

\* Pruning only drops entries.
LEMMA PrunedKeeps ==
    ASSUME NEW entries \in Seq(Orphan), NEW fresh \in Pruned(entries)
    PROVE  /\ fresh \in Seq(Orphan) /\ Len(fresh) <= Len(entries)
           /\ \A k \in DOMAIN fresh : \E i \in DOMAIN entries : fresh[k] = entries[i]
<1>1. PICK n \in 1..Len(entries) + 1 : fresh = Part(entries, n..Len(entries))
  BY DEF Pruned
<1>2. n..Len(entries) \in SUBSET DOMAIN entries
  OBVIOUS
<1> QED
  BY <1>1, <1>2, PartKeeps

\* A registration is answered from the backlog, or waits at the end of the list.
LEMMA Registers ==
    ASSUME NEW c \in Commands, NEW waiters \in Seq(AckWaiter), NEW entries \in Seq(Orphan),
           NEW consume, NEW nakOnly,
           RegisterAck(waiters, entries, c, consume, nakOnly)
    PROVE  /\ backlog' \in Seq(Orphan) /\ Len(backlog') <= Len(entries)
           /\ \A k \in DOMAIN backlog' : \E i \in DOMAIN entries : backlog'[k] = entries[i]
           /\ \/ /\ consume /\ entries # << >>
                 /\ \E e \in Orphan : ackFut' = [ackFut EXCEPT ![c] = Holding(e)]
                 /\ ackWaiters' = waiters
              \/ /\ ackFut' = [ackFut EXCEPT ![c] = Future("pending")]
                 /\ ackWaiters' = Append(waiters,
                      [cmd |-> c, sink |-> FALSE, nakOnly |-> nakOnly, gen |-> generation])
<1>1. PICK fresh \in Pruned(entries) :
        LET hits == IF consume THEN Matching(fresh, nakOnly) ELSE {} IN
        IF hits # {}
          THEN /\ ackFut' = [ackFut EXCEPT ![c] = Holding(fresh[Earliest(hits)])]
               /\ backlog' = Part(fresh, DOMAIN fresh \ {Earliest(hits)})
               /\ ackWaiters' = waiters
          ELSE /\ ackFut' = [ackFut EXCEPT ![c] = Future("pending")]
               /\ backlog' = fresh
               /\ ackWaiters' = Append(waiters,
                    [cmd |-> c, sink |-> FALSE, nakOnly |-> nakOnly, gen |-> generation])
  BY DEF RegisterAck
<1> DEFINE hits == IF consume THEN Matching(fresh, nakOnly) ELSE {}
<1>2. /\ fresh \in Seq(Orphan) /\ Len(fresh) <= Len(entries)
      /\ \A k \in DOMAIN fresh : \E i \in DOMAIN entries : fresh[k] = entries[i]
  BY PrunedKeeps
<1>3. CASE hits = {}
  BY <1>1, <1>2, <1>3
<1>4. CASE hits # {}
  <2>1. hits \in SUBSET Nat /\ hits \subseteq DOMAIN fresh /\ consume
    BY <1>2, <1>4 DEF Matching
  <2>2. Earliest(hits) \in DOMAIN fresh
    BY <1>4, <2>1, EarliestIsLeast
  <2>3. fresh[Earliest(hits)] \in Orphan /\ entries # << >>
    BY <1>2, <2>2
  <2> DEFINE rest == DOMAIN fresh \ {Earliest(hits)}
             left == Part(fresh, rest)
  <2>4. rest \in SUBSET DOMAIN fresh
    OBVIOUS
  <2>5. /\ left \in Seq(Orphan) /\ Len(left) <= Len(fresh)
        /\ \A k \in DOMAIN left : \E i \in rest : left[k] = fresh[i]
    <3> HIDE DEF rest
    <3> QED
      BY <1>2, <2>4, PartKeeps
  <2>6. \A k \in DOMAIN left : \E i \in DOMAIN entries : left[k] = entries[i]
    BY <1>2, <2>5
  <2>7. Len(left) <= Len(entries)
    BY <1>2, <2>5
  <2>8. /\ ackFut' = [ackFut EXCEPT ![c] = Holding(fresh[Earliest(hits)])]
        /\ backlog' = left
        /\ ackWaiters' = waiters
    BY <1>1, <1>4
  <2> HIDE DEF hits, left
  <2> QED
    BY <2>1, <2>3, <2>5, <2>6, <2>7, <2>8
<1> QED
  BY <1>3, <1>4

\* What is left of the backlog was in it.
LEMMA RegistersBacklog ==
    ASSUME NEW c \in Commands, NEW waiters \in Seq(AckWaiter), NEW entries \in Seq(Orphan),
           NEW consume, NEW nakOnly,
           RegisterAck(waiters, entries, c, consume, nakOnly)
    PROVE  /\ backlog' \in Seq(Orphan) /\ Len(backlog') <= Len(entries)
           /\ \A k \in DOMAIN backlog' : \E i \in DOMAIN entries : backlog'[k] = entries[i]
BY Registers

\* The entries of a list are drawn from another; an entry is still there.
Drawn(new, old) == \A k \in DOMAIN new : \E i \in DOMAIN old : new[k] = old[i]
Keeps(new, entry) == \E k \in DOMAIN new : new[k] = entry

\* A part of a sequence has nothing else, and keeps what its positions name.
LEMMA PartDraws ==
    ASSUME NEW S, NEW s \in Seq(S), NEW I \in SUBSET DOMAIN s
    PROVE  /\ Part(s, I) \in Seq(S) /\ Len(Part(s, I)) <= Len(s)
           /\ Drawn(Part(s, I), s)
           /\ \A i \in I : Keeps(Part(s, I), s[i])
BY PartKeeps DEF Drawn, Keeps

\* resolve() of an ACK or NAK: the taker's future is done; whoever still waits
\* after it is still in the list; the backlog stays current and bounded.
LEMMA AckResolves ==
    ASSUME CivTypeOK, CurrentGeneration, NEW type \in AckTypes, NEW origin \in Commands,
           ResolveAck([type |-> type, of |-> origin])
    PROVE  LET frame == [type |-> type, of |-> origin] IN
           /\ ackWaiters' \in Seq(AckWaiter) /\ Drawn(ackWaiters', ackWaiters)
           /\ backlog' \in Seq(Orphan) /\ Len(backlog') <= BacklogSize
           /\ \A k \in DOMAIN backlog' : backlog'[k].gen = generation
           /\ ackFut' \in [Commands -> Futures]
           /\ \/ Takers(frame) = {} /\ ackFut' = ackFut
              \/ /\ Drawn(backlog', backlog)
                 /\ \E i \in Takers(frame) :
                        ackFut' = IF ackWaiters[i].sink THEN ackFut
                                  ELSE [ackFut EXCEPT ![ackWaiters[i].cmd] = Holding(frame)]
           /\ \A i \in DOMAIN ackWaiters :
                  ~ackWaiters[i].sink /\ ackFut'[ackWaiters[i].cmd].state = "pending"
                      => Keeps(ackWaiters', ackWaiters[i])
           /\ UNCHANGED <<responseWaiters, respFut, generation>>
<1> DEFINE frame == [type |-> type, of |-> origin]
<1>0. frame.type = type /\ frame.of = origin /\ type \in {"ack", "nak"}
  BY DEF AckTypes
<1>1. /\ ackWaiters \in Seq(AckWaiter) /\ backlog \in Seq(Orphan) /\ generation \in Nat
      /\ ackFut \in [Commands -> Futures] /\ origin \in Origins
  BY DEF CivTypeOK, TrackerTypeOK, Origins
<1>2. \A i \in DOMAIN ackWaiters :
        /\ ackWaiters[i] \in AckWaiter /\ ackWaiters[i].gen = generation
        /\ ackWaiters[i].cmd \in Commands
  <2>1. \A i \in DOMAIN ackWaiters : ackWaiters[i] \in AckWaiter
    BY <1>1
  <2> QED
    BY <2>1 DEF CurrentGeneration, AckWaiter
<1>3. PICK fresh \in Pruned(backlog) :
        IF Takers(frame) # {}
          THEN LET i == Earliest(Takers(frame))
                   w == ackWaiters[i]
               IN  /\ ackWaiters' = Remaining(frame, i)
                   /\ ackFut' = IF w.sink THEN ackFut
                                ELSE [ackFut EXCEPT ![w.cmd] = Holding(frame)]
                   /\ backlog' = fresh
          ELSE /\ ackWaiters' = Remaining(frame, Len(ackWaiters))
               /\ backlog' = Stored(fresh, frame)
               /\ UNCHANGED ackFut
  BY DEF ResolveAck
<1>4. fresh \in Seq(Orphan) /\ Len(fresh) <= Len(backlog) /\ Drawn(fresh, backlog)
  BY <1>1, PrunedKeeps DEF Drawn
<1>5. /\ \A k \in DOMAIN fresh : fresh[k].gen = generation
      /\ Len(fresh) <= BacklogSize
  BY <1>1, <1>4, BacklogAssumption DEF Drawn, CurrentGeneration
<1>6. ASSUME NEW n \in Nat
      PROVE  /\ Remaining(frame, n) \in Seq(AckWaiter)
             /\ Drawn(Remaining(frame, n), ackWaiters)
             /\ \A i \in DOMAIN ackWaiters :
                    (i <= n => LetsPass(ackWaiters[i], frame))
                        => Keeps(Remaining(frame, n), ackWaiters[i])
  <2> DEFINE I == {i \in DOMAIN ackWaiters : i <= n => LetsPass(ackWaiters[i], frame)}
  <2>1. I \in SUBSET DOMAIN ackWaiters /\ Remaining(frame, n) = Part(ackWaiters, I)
    BY DEF Remaining
  <2>2. \A i \in DOMAIN ackWaiters :
            (i <= n => LetsPass(ackWaiters[i], frame)) => i \in I
    OBVIOUS
  <2> HIDE DEF I, frame
  <2> QED
    BY <1>1, <2>1, <2>2, PartDraws
<1>7. \A i \in DOMAIN ackWaiters :
        i \notin Takers(frame) /\ ~ackWaiters[i].sink
            /\ ackFut[ackWaiters[i].cmd].state = "pending"
          => LetsPass(ackWaiters[i], frame)
  BY <1>0, <1>2 DEF Takers, Takes, LetsPass
<1>8. Holding(frame) \in Futures /\ Holding(frame).state = "done"
  BY <1>0, <1>1 DEF Holding, Futures
<1>9. UNCHANGED <<responseWaiters, respFut, generation>>
  BY DEF ResolveAck
<1> HIDE DEF frame
<1>10. CASE Takers(frame) = {}
  <2>1. ackWaiters' = Remaining(frame, Len(ackWaiters)) /\ backlog' = Stored(fresh, frame)
        /\ ackFut' = ackFut /\ Len(ackWaiters) \in Nat
    BY <1>1, <1>3, <1>10
  <2>2. /\ Stored(fresh, frame) \in Seq(Orphan) /\ Len(Stored(fresh, frame)) <= BacklogSize
        /\ \A k \in DOMAIN Stored(fresh, frame) : Stored(fresh, frame)[k].gen = generation
    <3> DEFINE kept == IF Len(fresh) >= BacklogSize THEN Tail(fresh) ELSE fresh
               orphan == [type |-> frame.type, of |-> frame.of, gen |-> generation]
    <3>1. CASE BacklogSize = 0
      BY <1>4, <1>5, <3>1 DEF Stored
    <3>2. CASE BacklogSize # 0
      <4>1. orphan \in Orphan /\ orphan.gen = generation
        BY <1>0, <1>1 DEF Orphan, AckTypes
      <4>2. /\ kept \in Seq(Orphan) /\ Len(kept) + 1 <= BacklogSize
            /\ \A k \in DOMAIN kept : kept[k].gen = generation
        BY <1>4, <1>5, <3>2, BacklogAssumption
      <4>3. Stored(fresh, frame) = Append(kept, orphan)
        BY <3>2 DEF Stored
      <4> HIDE DEF kept, orphan
      <4> QED
        BY <4>1, <4>2, <4>3, BacklogAssumption
    <3> QED
      BY <3>1, <3>2
  <2>3. \A i \in DOMAIN ackWaiters :
            ~ackWaiters[i].sink /\ ackFut'[ackWaiters[i].cmd].state = "pending"
                => Keeps(ackWaiters', ackWaiters[i])
    BY <1>6, <1>7, <1>10, <2>1
  <2> QED
    BY <1>1, <1>6, <1>9, <1>10, <2>1, <2>2, <2>3 DEF frame
<1>11. CASE Takers(frame) # {}
  <2> DEFINE t == Earliest(Takers(frame))
  <2>1. Takers(frame) \in SUBSET Nat /\ Takers(frame) \subseteq DOMAIN ackWaiters
    BY <1>1 DEF Takers
  <2>2. t \in Takers(frame) /\ t \in DOMAIN ackWaiters /\ t \in Nat
        /\ \A n \in Takers(frame) : t <= n
    BY <1>11, <2>1, EarliestIsLeast
  <2>3. /\ ackWaiters' = Remaining(frame, t) /\ backlog' = fresh
        /\ ackFut' = IF ackWaiters[t].sink THEN ackFut
                     ELSE [ackFut EXCEPT ![ackWaiters[t].cmd] = Holding(frame)]
    BY <1>3, <1>11
  <2> HIDE DEF t
  <2>4. ASSUME NEW i \in DOMAIN ackWaiters, ~ackWaiters[i].sink,
               ackFut'[ackWaiters[i].cmd].state = "pending"
        PROVE  Keeps(ackWaiters', ackWaiters[i])
    <3>1. ackFut[ackWaiters[i].cmd].state = "pending" /\ i # t
      BY <1>1, <1>2, <1>8, <2>2, <2>3, <2>4
    <3>2. i <= t => LetsPass(ackWaiters[i], frame)
      BY <1>1, <1>7, <2>2, <2>4, <3>1
    <3> QED
      BY <1>6, <2>2, <2>3, <3>2
  <2>5. ackFut' \in [Commands -> Futures]
    BY <1>1, <1>2, <1>8, <2>2, <2>3
  <2> QED
    BY <1>4, <1>5, <1>6, <1>9, <2>2, <2>3, <2>4, <2>5 DEF frame
<1> QED
  BY <1>10, <1>11

\* resolve() of a data response, from the radio or unsolicited: at most one
\* future is settled, and whoever still waits is still in the list.
LEMMA ResponseResolves ==
    ASSUME CivTypeOK, CurrentGeneration, NEW origin \in Origins, NEW key,
           ResolveResponse([type |-> "response", of |-> origin, key |-> key])
    PROVE  /\ responseWaiters' \in Seq(ResponseWaiter) /\ Drawn(responseWaiters', responseWaiters)
           /\ respFut' \in [Commands -> Futures]
           /\ \A c \in Commands : respFut'[c].state = "pending" => respFut[c].state = "pending"
           /\ \A i \in DOMAIN responseWaiters :
                  respFut'[responseWaiters[i].cmd].state = "pending"
                      => Keeps(responseWaiters', responseWaiters[i])
           /\ UNCHANGED <<ackWaiters, ackFut, backlog, generation>>
<1> DEFINE frame == [type |-> "response", of |-> origin, key |-> key]
           matching == {i \in DOMAIN responseWaiters :
                          /\ responseWaiters[i].gen = generation
                          /\ reqKey[responseWaiters[i].cmd] = frame.key}
           m == Earliest(matching)
           current == {j \in DOMAIN responseWaiters : responseWaiters[j].gen = generation}
           others == {j \in DOMAIN responseWaiters : j # m /\ (j < m => j \in current)}
<1>1. /\ responseWaiters \in Seq(ResponseWaiter) /\ respFut \in [Commands -> Futures]
      /\ \A i \in DOMAIN responseWaiters : responseWaiters[i] \in ResponseWaiter
  <2>1. responseWaiters \in Seq(ResponseWaiter) /\ respFut \in [Commands -> Futures]
    BY DEF CivTypeOK, TrackerTypeOK
  <2> QED
    BY <2>1
<1>2. \A i \in DOMAIN responseWaiters :
        /\ responseWaiters[i].gen = generation /\ responseWaiters[i].cmd \in Commands
  BY <1>1 DEF CurrentGeneration, ResponseWaiter
<1>3. UNCHANGED <<ackWaiters, ackFut, backlog, generation>>
  BY DEF ResolveResponse
<1>4. current = DOMAIN responseWaiters
  BY <1>2
<1>5. Holding(frame) \in Futures /\ Holding(frame).state = "done"
  BY DEF Holding, Futures
<1>6. CASE matching = {}
  <2>1. responseWaiters' = Part(responseWaiters, current) /\ respFut' = respFut
    BY <1>6 DEF ResolveResponse
  <2> HIDE DEF current
  <2> QED
    BY <1>1, <1>3, <1>4, <2>1, PartDraws
<1>7. CASE matching # {}
  <2>1. matching \in SUBSET Nat /\ matching \subseteq DOMAIN responseWaiters
    BY <1>1
  <2>2. m \in DOMAIN responseWaiters
    BY <1>7, <2>1, EarliestIsLeast
  <2>3. /\ responseWaiters' = Part(responseWaiters, others)
        /\ respFut' = IF respFut[responseWaiters[m].cmd].state = "pending"
                      THEN [respFut EXCEPT ![responseWaiters[m].cmd] = Holding(frame)]
                      ELSE respFut
    BY <1>7 DEF ResolveResponse
  <2>4. others \in SUBSET DOMAIN responseWaiters
        /\ \A i \in DOMAIN responseWaiters : i # m => i \in others
    BY <1>4
  <2> HIDE DEF others, m, frame
  <2>5. respFut'[responseWaiters[m].cmd].state # "pending"
    BY <1>1, <1>2, <1>5, <2>2, <2>3
  <2>6. /\ respFut' \in [Commands -> Futures]
        /\ \A c \in Commands : respFut'[c].state = "pending" => respFut[c].state = "pending"
    BY <1>1, <1>2, <1>5, <2>2, <2>3
  <2>7. \A i \in DOMAIN responseWaiters :
            respFut'[responseWaiters[i].cmd].state = "pending"
                => Keeps(responseWaiters', responseWaiters[i])
    BY <1>1, <2>3, <2>4, <2>5, PartDraws
  <2> QED
    BY <1>1, <1>3, <2>3, <2>4, <2>6, <2>7, PartDraws
<1> QED
  BY <1>6, <1>7

\* Failing futures leaves none of the given commands pending.
LEMMA FailedTypes ==
    ASSUME NEW fut \in [Commands -> Futures], NEW cmds
    PROVE  /\ Failed(fut, cmds) \in [Commands -> Futures]
           /\ \A c \in Commands :
                 /\ Failed(fut, cmds)[c].state = "pending" <=> fut[c].state = "pending" /\ c \notin cmds
                 /\ Failed(fut, cmds)[c].state = "done" => Failed(fut, cmds)[c] = fut[c]
<1>1. Future("failed") \in Futures /\ Future("failed").state = "failed"
  BY DEF Future, Futures, Origins
<1> QED
  BY <1>1 DEF Failed

-----------------------------------------------------------------------------
(* The inductive invariant.                                                *)

\* Waiters are registered by commands that await them, after their drain.
WaitersFit ==
    /\ \A i \in DOMAIN ackWaiters :
        /\ ~ackWaiters[i].sink => /\ AwaitsAck(ackWaiters[i].cmd)
                                 /\ status[ackWaiters[i].cmd] # "draining"
        /\ ackWaiters[i].nakOnly => ~ackWaiters[i].sink /\ ~IsWrite(ackWaiters[i].cmd)
    /\ \A i \in DOMAIN responseWaiters : /\ AwaitsData(responseWaiters[i].cmd)
                                         /\ status[responseWaiters[i].cmd] # "draining"
    /\ \A c \in Commands : status[c] \in {"idle", "draining"} =>
            ackFut[c].state # "pending" /\ respFut[c].state # "pending"

\* While answers and waiters stay aligned: one command runs, no orphan is kept,
\* a command that waits waits alone, and every answer is its command's own.
Aligned ==
    ~stray /\ overlap = {} =>
        /\ \A c, d \in Running : c = d
        /\ backlog = << >>
        /\ \A i, j \in DOMAIN ackWaiters :
              ~ackWaiters[i].sink =>
                  ~ackWaiters[j].sink /\ ackWaiters[j].cmd = ackWaiters[i].cmd
        /\ \A c \in Commands : ackFut[c].state = "done" => ackFut[c].of = c

CivIInv ==
    /\ CivTypeOK /\ CurrentGeneration /\ WaitersAgree
    /\ WaitersFit /\ Aligned

\* Waiters have the types of their tables.
LEMMA CivTypes ==
    ASSUME CivTypeOK
    PROVE  /\ \A i \in DOMAIN ackWaiters :
                /\ ackWaiters[i] \in AckWaiter /\ ackWaiters[i].cmd \in Commands
           /\ \A i \in DOMAIN responseWaiters :
                /\ responseWaiters[i] \in ResponseWaiter /\ responseWaiters[i].cmd \in Commands
<1>1. ackWaiters \in Seq(AckWaiter) /\ responseWaiters \in Seq(ResponseWaiter)
  BY DEF CivTypeOK, TrackerTypeOK
<1>2. /\ \A i \in DOMAIN ackWaiters : ackWaiters[i] \in AckWaiter
      /\ \A i \in DOMAIN responseWaiters : responseWaiters[i] \in ResponseWaiter
  BY <1>1
<1> QED
  BY <1>2 DEF AckWaiter, ResponseWaiter

\* Nothing waits when the radio object is made.
LEMMA CivInitially == CivInit => CivIInv
<1> SUFFICES ASSUME CivInit PROVE CivIInv
  OBVIOUS
<1> USE DEF CivInit, TrackerInit
<1>1. CivTypeOK
  <2>1. Future("none") \in Futures
    BY DEF Future, Futures, Origins
  <2>2. /\ ackWaiters \in Seq(AckWaiter) /\ responseWaiters \in Seq(ResponseWaiter)
        /\ backlog \in Seq(Orphan) /\ wire \in Seq(Commands)
    BY EmptySeq
  <2>3. ackFut \in [Commands -> Futures] /\ respFut \in [Commands -> Futures]
    BY <2>1
  <2>4. status \in [Commands -> Statuses]
    BY DEF Statuses
  <2>5. generation \in Nat /\ unsolicited \in 0..MaxUnsolicited
    BY BoundsAssumption
  <2>6. stray \in BOOLEAN /\ overlap \in SUBSET Overlaps /\ alone \in Commands \cup {NoCmd}
    BY Zenon
  <2> QED
    BY <2>2, <2>3, <2>4, <2>5, <2>6 DEF CivTypeOK, TrackerTypeOK
<1>2. \A c \in Commands : /\ ackFut[c].state = "none" /\ respFut[c].state = "none"
                          /\ status[c] = "idle"
  BY DEF Future
<1>3. Running = {}
  BY <1>2 DEF Running, Active
<1> QED
  BY <1>1, <1>2, <1>3, BacklogAssumption
  DEF CivIInv, CurrentGeneration, WaitersAgree, WaitersFit, Aligned, Active

\* A command registers what it awaits, next to waiters that are no sinks.
LEMMA Registering ==
    ASSUME CivIInv, NEW c \in Commands, status[c] \in {"idle", "draining"},
           NEW waiters \in Seq(AckWaiter), Drawn(waiters, ackWaiters),
           \A k \in DOMAIN waiters : ~waiters[k].sink,
           \A i \in DOMAIN ackWaiters : ~ackWaiters[i].sink => Keeps(waiters, ackWaiters[i]),
           AwaitAck(c, waiters), AwaitData(c), Goes(c, "pacing"),
           overlap' \in SUBSET Overlaps, alone' \in Commands \cup {NoCmd},
           ~stray /\ overlap' = {} => overlap = {} /\ Running \subseteq {c},
           UNCHANGED <<generation, wire, unsolicited, stray>>
    PROVE  CivIInv'
<1>1. /\ backlog \in Seq(Orphan) /\ generation \in Nat /\ status \in [Commands -> Statuses]
      /\ ackFut \in [Commands -> Futures] /\ respFut \in [Commands -> Futures]
      /\ responseWaiters \in Seq(ResponseWaiter)
  BY DEF CivIInv, CivTypeOK, TrackerTypeOK
<1>0. PICK nakOnly \in BOOLEAN : nakOnly = (kind[c] = "raw data")
  BY Zenon
<1>00. nakOnly <=> kind[c] = "raw data"
  BY <1>0, Zenon
<1> DEFINE record == [cmd |-> c, sink |-> FALSE, nakOnly |-> nakOnly, gen |-> generation]
<1>2. record \in AckWaiter
  BY <1>1 DEF AckWaiter
<1> DEFINE waits == /\ AwaitsAck(c) /\ ackFut' = [ackFut EXCEPT ![c] = Future("pending")]
                    /\ ackWaiters' = Append(waiters, record)
           cached == /\ AwaitsAck(c) /\ ~IsRaw(c) /\ backlog # << >> /\ ackWaiters' = waiters
                     /\ \E e \in Orphan : ackFut' = [ackFut EXCEPT ![c] = Holding(e)]
           none == ~AwaitsAck(c) /\ ackFut' = ackFut /\ ackWaiters' = waiters
<1>3. /\ backlog' \in Seq(Orphan) /\ Len(backlog') <= Len(backlog) /\ Drawn(backlog', backlog)
      /\ none \/ cached \/ waits
  <2>0. Len(backlog) \in Nat /\ Drawn(backlog, backlog)
    BY <1>1 DEF Drawn
  <2>1. CASE ~AwaitsAck(c)
    <3>1. ackFut' = ackFut /\ backlog' = backlog /\ ackWaiters' = waiters
      BY <2>1, Zenon DEF AwaitAck
    <3>2. none
      BY <2>1, <3>1
    <3> HIDE DEF none, waits, cached
    <3> QED
      BY <1>1, <2>0, <3>1, <3>2
  <2>2. CASE AwaitsAck(c) /\ IsRaw(c)
    <3>1. RegisterAck(waiters, << >>, c, FALSE, nakOnly)
      BY <1>0, <2>2, Zenon DEF AwaitAck
    <3>2. << >> \in Seq(Orphan) /\ Len(<< >>) = 0 /\ DOMAIN << >> = {}
      BY EmptySeq
    <3>3. /\ backlog' \in Seq(Orphan) /\ Len(backlog') <= Len(<< >>)
          /\ ackFut' = [ackFut EXCEPT ![c] = Future("pending")]
          /\ ackWaiters' = Append(waiters, record)
      BY <3>1, <3>2, Registers, Zenon
    <3>4. Len(backlog') <= Len(backlog) /\ Drawn(backlog', backlog)
      BY <2>0, <3>2, <3>3 DEF Drawn
    <3>5. waits
      BY <2>2, <3>3
    <3> HIDE DEF none, waits, cached
    <3> QED
      BY <3>3, <3>4, <3>5
  <2>3. CASE AwaitsAck(c) /\ ~IsRaw(c)
    <3>1. nakOnly = FALSE
      BY <1>00, <2>3 DEF IsRaw, RawKinds
    <3>2. RegisterAck(waiters, backlog, c, TRUE, nakOnly)
      BY <2>3, <3>1, Zenon DEF AwaitAck
    <3>3. /\ backlog' \in Seq(Orphan) /\ Len(backlog') <= Len(backlog)
          /\ Drawn(backlog', backlog)
          /\ \/ /\ backlog # << >>
                /\ \E e \in Orphan : ackFut' = [ackFut EXCEPT ![c] = Holding(e)]
                /\ ackWaiters' = waiters
             \/ /\ ackFut' = [ackFut EXCEPT ![c] = Future("pending")]
                /\ ackWaiters' = Append(waiters, record)
      <4>1. backlog \in Seq(Orphan)
        BY <1>1
      <4>2. /\ backlog' \in Seq(Orphan) /\ Len(backlog') <= Len(backlog)
            /\ \A k \in DOMAIN backlog' : \E i \in DOMAIN backlog : backlog'[k] = backlog[i]
        BY <3>2, <4>1, RegistersBacklog, Zenon
      <4>3. \/ /\ backlog # << >>
               /\ \E e \in Orphan : ackFut' = [ackFut EXCEPT ![c] = Holding(e)]
               /\ ackWaiters' = waiters
            \/ /\ ackFut' = [ackFut EXCEPT ![c] = Future("pending")]
               /\ ackWaiters' = Append(waiters, record)
        BY <3>2, <4>1, Registers, Zenon
      <4>4. Drawn(backlog', backlog)
        BY <4>2 DEF Drawn
      <4> QED
        BY <4>2, <4>3, <4>4
    <3>4. cached \/ waits
      BY <2>3, <3>3, Zenon
    <3> HIDE DEF none, waits, cached
    <3> QED
      BY <3>3, <3>4
  <2> QED
    BY <2>1, <2>2, <2>3
<1>4. /\ responseWaiters' \in Seq(ResponseWaiter)
      /\ \/ UNCHANGED <<responseWaiters, respFut>>
         \/ /\ AwaitsData(c) /\ respFut' = [respFut EXCEPT ![c] = Future("pending")]
            /\ responseWaiters' = Append(responseWaiters, [cmd |-> c, gen |-> generation])
  <2>1. [cmd |-> c, gen |-> generation] \in ResponseWaiter
    BY <1>1 DEF ResponseWaiter
  <2>2. CASE AwaitsData(c)
    <3>1. /\ respFut' = [respFut EXCEPT ![c] = Future("pending")]
          /\ responseWaiters' = Append(responseWaiters, [cmd |-> c, gen |-> generation])
      BY <2>2, Zenon DEF AwaitData, RegisterResponse
    <3> QED
      BY <1>1, <2>1, <2>2, <3>1, AppendProperties
  <2>3. CASE ~AwaitsData(c)
    <3>1. responseWaiters' = responseWaiters /\ respFut' = respFut
      BY <2>3, Zenon DEF AwaitData
    <3> QED
      BY <1>1, <3>1
  <2> QED
    BY <2>2, <2>3
<1> DEFINE drawn(w) == \E i \in DOMAIN ackWaiters : w = ackWaiters[i] /\ ~ackWaiters[i].sink
<1>5. /\ ackWaiters' \in Seq(AckWaiter)
      /\ \A k \in DOMAIN ackWaiters' :
            drawn(ackWaiters'[k]) \/ (ackWaiters'[k] = record /\ waits)
      /\ \A i \in DOMAIN ackWaiters : ~ackWaiters[i].sink => Keeps(ackWaiters', ackWaiters[i])
      /\ waits => Keeps(ackWaiters', record)
  <2>1. \A k \in DOMAIN waiters : drawn(waiters[k])
    BY DEF Drawn
  <2>2. CASE ackWaiters' = waiters /\ ~waits
    <3> HIDE DEF waits, record
    <3> QED
      BY <2>1, <2>2
  <2>3. CASE waits
    <3>1. ackWaiters' = Append(waiters, record) /\ record \in AckWaiter
      BY <1>2, <2>3
    <3> HIDE DEF waits, record, drawn
    <3>2. /\ ackWaiters' \in Seq(AckWaiter) /\ DOMAIN ackWaiters' = 1..Len(waiters) + 1
          /\ DOMAIN waiters = 1..Len(waiters) /\ Len(waiters) \in Nat
          /\ \A k \in DOMAIN waiters : ackWaiters'[k] = waiters[k]
          /\ ackWaiters'[Len(waiters) + 1] = record
      BY <3>1, AppendProperties, LenProperties
    <3>3. \A k \in DOMAIN ackWaiters' : drawn(ackWaiters'[k]) \/ ackWaiters'[k] = record
      BY <2>1, <3>2
    <3>4. /\ \A i \in DOMAIN ackWaiters : ~ackWaiters[i].sink => Keeps(ackWaiters', ackWaiters[i])
          /\ Keeps(ackWaiters', record)
      BY <3>2 DEF Keeps
    <3> QED
      BY <2>3, <3>2, <3>3, <3>4
  <2> QED
    BY <1>3, <2>2, <2>3
<1>6. /\ ackFut' \in [Commands -> Futures]
      /\ \A d \in Commands : d # c => ackFut'[d] = ackFut[d]
      /\ ackFut'[c].state = "pending" => waits
      /\ waits => ackFut'[c].state = "pending"
      /\ none => ackFut' = ackFut
  <2>1. Future("pending") \in Futures /\ Future("pending").state = "pending"
    BY DEF Future, Futures, Origins
  <2>2. \A e \in Orphan : Holding(e) \in Futures /\ Holding(e).state = "done"
    BY DEF Holding, Futures, Orphan, AckTypes
  <2>3. ackFut[c].state # "pending"
    BY DEF CivIInv, WaitersFit
  <2> QED
    BY <1>1, <1>3, <2>1, <2>2, <2>3
<1>7. /\ respFut' \in [Commands -> Futures]
      /\ \A d \in Commands : d # c => respFut'[d] = respFut[d]
      /\ \A k \in DOMAIN responseWaiters' :
            \/ \E i \in DOMAIN responseWaiters : responseWaiters'[k] = responseWaiters[i]
            \/ /\ responseWaiters'[k].cmd = c /\ responseWaiters'[k].gen = generation
               /\ AwaitsData(c)
      /\ \A i \in DOMAIN responseWaiters : Keeps(responseWaiters', responseWaiters[i])
      /\ respFut'[c].state = "pending" =>
            \E k \in DOMAIN responseWaiters' : responseWaiters'[k].cmd = c
  <2>1. Future("pending") \in Futures
    BY DEF Future, Futures, Origins
  <2>2. respFut[c].state # "pending"
    BY DEF CivIInv, WaitersFit
  <2> DEFINE w == [cmd |-> c, gen |-> generation]
  <2>3. w \in ResponseWaiter /\ w.cmd = c /\ w.gen = generation
    BY <1>1 DEF ResponseWaiter
  <2>4. CASE responseWaiters' = responseWaiters /\ respFut' = respFut
    BY <1>1, <2>2, <2>4 DEF Keeps
  <2>5. CASE /\ AwaitsData(c) /\ respFut' = [respFut EXCEPT ![c] = Future("pending")]
             /\ responseWaiters' = Append(responseWaiters, w)
    <3> HIDE DEF w
    <3>1. /\ DOMAIN responseWaiters' = 1..Len(responseWaiters) + 1
          /\ DOMAIN responseWaiters = 1..Len(responseWaiters) /\ Len(responseWaiters) \in Nat
          /\ \A k \in DOMAIN responseWaiters : responseWaiters'[k] = responseWaiters[k]
          /\ responseWaiters'[Len(responseWaiters) + 1] = w
      BY <1>1, <2>3, <2>5, AppendProperties, LenProperties
    <3>2. \A i \in DOMAIN responseWaiters : Keeps(responseWaiters', responseWaiters[i])
      BY <3>1 DEF Keeps
    <3>3. \A k \in DOMAIN responseWaiters' :
            (\E i \in DOMAIN responseWaiters : responseWaiters'[k] = responseWaiters[i])
              \/ responseWaiters'[k] = w
      BY <3>1
    <3>4. \E k \in DOMAIN responseWaiters' : responseWaiters'[k].cmd = c
      BY <2>3, <3>1
    <3>5. /\ respFut' \in [Commands -> Futures]
          /\ \A d \in Commands : d # c => respFut'[d] = respFut[d]
      BY <1>1, <2>1, <2>5
    <3> QED
      BY <2>3, <2>5, <3>2, <3>3, <3>4, <3>5
  <2> QED
    BY <1>4, <2>4, <2>5
<1>8. status' = [status EXCEPT ![c] = "pacing"] /\ "pacing" \in Active
      /\ "pacing" \in Statuses
  BY DEF Goes, Active, Statuses
<1> HIDE DEF drawn
<1>9. CivTypeOK'
  <2>1. wire \in Seq(Commands) /\ unsolicited \in 0..MaxUnsolicited /\ stray \in BOOLEAN
    BY DEF CivIInv, CivTypeOK
  <2>2. status' \in [Commands -> Statuses]
    BY <1>1, <1>8
  <2>3. wire' \in Seq(Commands) /\ unsolicited' \in 0..MaxUnsolicited /\ stray' \in BOOLEAN
        /\ generation' \in Nat
    BY <1>1, <2>1
  <2> QED
    BY <1>3, <1>4, <1>5, <1>6, <1>7, <2>2, <2>3 DEF CivTypeOK, TrackerTypeOK
<1>10. CurrentGeneration'
  <2>1. /\ \A i \in DOMAIN ackWaiters : ackWaiters[i].gen = generation
        /\ \A i \in DOMAIN responseWaiters : responseWaiters[i].gen = generation
        /\ \A i \in DOMAIN backlog : backlog[i].gen = generation
        /\ Len(backlog) <= BacklogSize
    BY DEF CivIInv, CurrentGeneration
  <2>2. \A k \in DOMAIN ackWaiters' : ackWaiters'[k].gen = generation
    BY <1>5, <2>1 DEF drawn
  <2>3. \A k \in DOMAIN responseWaiters' : responseWaiters'[k].gen = generation
    BY <1>7, <2>1
  <2>4. \A k \in DOMAIN backlog' : backlog'[k].gen = generation
    BY <1>3, <2>1 DEF Drawn
  <2>5. Len(backlog') <= BacklogSize
    BY <1>1, <1>3, <2>1, BacklogAssumption
  <2> QED
    BY <2>2, <2>3, <2>4, <2>5 DEF CurrentGeneration
<1>11. WaitersAgree'
  <2>1. \A k \in DOMAIN ackWaiters' : status'[ackWaiters'[k].cmd] \in Active
    <3>1. \A i \in DOMAIN ackWaiters :
            ~ackWaiters[i].sink => /\ ackWaiters[i].cmd \in Commands
                                   /\ status[ackWaiters[i].cmd] \in Active
      BY CivTypes DEF CivIInv, WaitersAgree
    <3> QED
      BY <1>1, <1>5, <1>8, <3>1 DEF drawn
  <2>2. \A k \in DOMAIN responseWaiters' : status'[responseWaiters'[k].cmd] \in Active
    <3>1. \A i \in DOMAIN responseWaiters :
            /\ responseWaiters[i].cmd \in Commands
            /\ status[responseWaiters[i].cmd] \in Active
      BY CivTypes DEF CivIInv, WaitersAgree
    <3> QED
      BY <1>1, <1>7, <1>8, <3>1
  <2>3. ASSUME NEW d \in Commands, status'[d] \in Active
        PROVE  /\ ackFut'[d].state = "pending" =>
                    \E k \in DOMAIN ackWaiters' : ackWaiters'[k].cmd = d /\ ~ackWaiters'[k].sink
               /\ respFut'[d].state = "pending" =>
                    \E k \in DOMAIN responseWaiters' : responseWaiters'[k].cmd = d
    <3>1. CASE d = c
      <4>1. record.cmd = c /\ ~record.sink
        OBVIOUS
      <4> HIDE DEF record, waits, none, cached
      <4> QED
        BY <1>5, <1>6, <1>7, <3>1, <4>1 DEF Keeps
    <3>2. CASE d # c
      <4>1. status[d] \in Active /\ ackFut'[d] = ackFut[d] /\ respFut'[d] = respFut[d]
        BY <1>1, <1>6, <1>7, <1>8, <2>3, <3>2
      <4>2. /\ ackFut[d].state = "pending" =>
                    \E i \in DOMAIN ackWaiters : ackWaiters[i].cmd = d /\ ~ackWaiters[i].sink
            /\ respFut[d].state = "pending" =>
                    \E i \in DOMAIN responseWaiters : responseWaiters[i].cmd = d
        BY <4>1 DEF CivIInv, WaitersAgree
      <4> QED
        BY <1>5, <1>7, <4>1, <4>2 DEF Keeps
    <3> QED
      BY <3>1, <3>2
  <2> QED
    BY <2>1, <2>2, <2>3 DEF WaitersAgree
<1>12. WaitersFit'
  <2>1. /\ \A i \in DOMAIN ackWaiters :
              /\ ackWaiters[i].cmd \in Commands
              /\ ~ackWaiters[i].sink => /\ AwaitsAck(ackWaiters[i].cmd)
                                       /\ status[ackWaiters[i].cmd] # "draining"
              /\ ackWaiters[i].nakOnly => ~ackWaiters[i].sink /\ ~IsWrite(ackWaiters[i].cmd)
        /\ \A i \in DOMAIN responseWaiters :
              /\ responseWaiters[i].cmd \in Commands
              /\ AwaitsData(responseWaiters[i].cmd)
              /\ status[responseWaiters[i].cmd] # "draining"
        /\ \A d \in Commands : status[d] \in {"idle", "draining"} =>
              ackFut[d].state # "pending" /\ respFut[d].state # "pending"
    BY CivTypes DEF CivIInv, WaitersFit
  <2>2. nakOnly => ~IsWrite(c)
    BY <1>00 DEF IsWrite
  <2>3. \A k \in DOMAIN ackWaiters' :
            /\ ~ackWaiters'[k].sink => /\ AwaitsAck(ackWaiters'[k].cmd)
                                      /\ status'[ackWaiters'[k].cmd] # "draining"
            /\ ackWaiters'[k].nakOnly => ~ackWaiters'[k].sink /\ ~IsWrite(ackWaiters'[k].cmd)
    <3> SUFFICES ASSUME NEW k \in DOMAIN ackWaiters'
                 PROVE  /\ ~ackWaiters'[k].sink => /\ AwaitsAck(ackWaiters'[k].cmd)
                                                  /\ status'[ackWaiters'[k].cmd] # "draining"
                        /\ ackWaiters'[k].nakOnly =>
                                ~ackWaiters'[k].sink /\ ~IsWrite(ackWaiters'[k].cmd)
      OBVIOUS
    <3>1. CASE drawn(ackWaiters'[k])
      BY <1>1, <1>8, <2>1, <3>1 DEF drawn
    <3>2. CASE ackWaiters'[k] = record /\ waits
      BY <1>1, <1>8, <2>2, <3>2
    <3> QED
      BY <1>5, <3>1, <3>2
  <2>4. \A k \in DOMAIN responseWaiters' :
            /\ AwaitsData(responseWaiters'[k].cmd) /\ status'[responseWaiters'[k].cmd] # "draining"
    BY <1>1, <1>7, <1>8, <2>1
  <2>5. \A d \in Commands : status'[d] \in {"idle", "draining"} =>
            ackFut'[d].state # "pending" /\ respFut'[d].state # "pending"
    BY <1>1, <1>6, <1>7, <1>8, <2>1
  <2> QED
    BY <2>3, <2>4, <2>5 DEF WaitersFit
<1>13. Aligned'
  <2> SUFFICES ASSUME ~stray, overlap' = {}
               PROVE  /\ \A d, e \in Running' : d = e
                      /\ backlog' = << >>
                      /\ \A i, j \in DOMAIN ackWaiters' :
                            ~ackWaiters'[i].sink =>
                                ~ackWaiters'[j].sink /\ ackWaiters'[j].cmd = ackWaiters'[i].cmd
                      /\ \A d \in Commands : ackFut'[d].state = "done" => ackFut'[d].of = d
    BY DEF Aligned
  <2>1. /\ overlap = {} /\ Running \subseteq {c}
        /\ backlog = << >> /\ \A d \in Commands : ackFut[d].state = "done" => ackFut[d].of = d
    BY DEF CivIInv, Aligned
  <2>2. \A d \in Running' : d = c
    BY <1>1, <1>8, <2>1 DEF Running
  <2>3. backlog' = << >>
    BY <1>3, <2>1, EmptySeq
  <2>4. \A k \in DOMAIN ackWaiters' : ~ackWaiters'[k].sink /\ ackWaiters'[k].cmd = c
    <3>1. \A i \in DOMAIN ackWaiters : ~ackWaiters[i].sink => ackWaiters[i].cmd = c
      BY <2>1, CivTypes DEF CivIInv, WaitersAgree, Running
    <3> QED
      BY <1>5, <3>1 DEF drawn
  <2>5. \A d \in Commands : ackFut'[d].state = "done" => ackFut'[d].of = d
    <3>1. ~cached
      BY <2>1
    <3>2. ackFut'[c].state = "done" => ackFut'[c] = ackFut[c]
      <4> HIDE DEF waits, cached
      <4> QED
        BY <1>3, <1>6, <3>1
    <3> QED
      BY <1>6, <2>1, <3>2
  <2> QED
    BY <2>2, <2>3, <2>4, <2>5
<1> QED
  BY <1>9, <1>10, <1>11, <1>12, <1>13 DEF CivIInv

\* A step that registers nobody: futures are only settled, no command becomes
\* active, the waiters that are left belong to active commands and those of a
\* pending future are left.
LEMMA NobodyRegisters ==
    ASSUME CivIInv, CivTypeOK',
           Drawn(ackWaiters', ackWaiters), Drawn(responseWaiters', responseWaiters),
           generation' = generation \/ (ackWaiters' = << >> /\ responseWaiters' = << >>),
           \A k \in DOMAIN backlog' : backlog'[k].gen = generation',
           Len(backlog') <= BacklogSize,
           stray => stray', overlap' = overlap, alone' = alone,
           ~stray' /\ overlap = {} =>
                /\ backlog' = << >>
                /\ \A c \in Commands : ackFut'[c].state = "done" =>
                        ackFut'[c].of = c \/ ackFut'[c] = ackFut[c],
           \A c \in Commands :
                /\ ackFut'[c].state = "pending" => ackFut[c].state = "pending"
                /\ respFut'[c].state = "pending" => respFut[c].state = "pending"
                /\ status'[c] \in Active => status[c] \in Active
                /\ status'[c] \in {"idle", "draining"} => status'[c] = status[c],
           \A i \in DOMAIN ackWaiters :
                ~ackWaiters[i].sink =>
                    \/ ~Keeps(ackWaiters', ackWaiters[i])
                    \/ status'[ackWaiters[i].cmd] \in Active,
           \A i \in DOMAIN responseWaiters :
                \/ ~Keeps(responseWaiters', responseWaiters[i])
                \/ status'[responseWaiters[i].cmd] \in Active,
           \A i \in DOMAIN ackWaiters :
                ~ackWaiters[i].sink /\ status'[ackWaiters[i].cmd] \in Active
                    /\ ackFut'[ackWaiters[i].cmd].state = "pending"
                  => Keeps(ackWaiters', ackWaiters[i]),
           \A i \in DOMAIN responseWaiters :
                status'[responseWaiters[i].cmd] \in Active
                    /\ respFut'[responseWaiters[i].cmd].state = "pending"
                  => Keeps(responseWaiters', responseWaiters[i])
    PROVE  CivIInv'
<1>1. /\ \A i \in DOMAIN ackWaiters : ackWaiters[i].cmd \in Commands
      /\ \A i \in DOMAIN responseWaiters : responseWaiters[i].cmd \in Commands
  BY CivTypes DEF CivIInv
<1>2. CurrentGeneration'
  <2>1. /\ \A i \in DOMAIN ackWaiters : ackWaiters[i].gen = generation
        /\ \A i \in DOMAIN responseWaiters : responseWaiters[i].gen = generation
    BY DEF CivIInv, CurrentGeneration
  <2>2. CASE generation' = generation
    <3>1. \A k \in DOMAIN ackWaiters' : ackWaiters'[k].gen = generation'
      BY <2>1, <2>2 DEF Drawn
    <3>2. \A k \in DOMAIN responseWaiters' : responseWaiters'[k].gen = generation'
      BY <2>1, <2>2 DEF Drawn
    <3> QED
      BY <3>1, <3>2 DEF CurrentGeneration
  <2>3. CASE ackWaiters' = << >> /\ responseWaiters' = << >>
    <3>1. DOMAIN ackWaiters' = {} /\ DOMAIN responseWaiters' = {}
      BY <2>3
    <3> QED
      BY <3>1 DEF CurrentGeneration
  <2> QED
    BY <2>2, <2>3
<1>3. WaitersAgree'
  <2>1. ASSUME NEW k \in DOMAIN ackWaiters'
        PROVE  ackWaiters'[k].sink \/ status'[ackWaiters'[k].cmd] \in Active
    <3>1. PICK i \in DOMAIN ackWaiters : ackWaiters'[k] = ackWaiters[i]
      BY DEF Drawn
    <3>2. Keeps(ackWaiters', ackWaiters[i])
      BY <3>1 DEF Keeps
    <3> QED
      BY <3>1, <3>2
  <2>2. ASSUME NEW k \in DOMAIN responseWaiters'
        PROVE  status'[responseWaiters'[k].cmd] \in Active
    <3>1. PICK i \in DOMAIN responseWaiters : responseWaiters'[k] = responseWaiters[i]
      BY DEF Drawn
    <3>2. Keeps(responseWaiters', responseWaiters[i])
      BY <3>1 DEF Keeps
    <3> QED
      BY <3>1, <3>2
  <2>3. ASSUME NEW c \in Commands, status'[c] \in Active, ackFut'[c].state = "pending"
        PROVE  \E k \in DOMAIN ackWaiters' : ackWaiters'[k].cmd = c /\ ~ackWaiters'[k].sink
    <3>1. PICK i \in DOMAIN ackWaiters : ackWaiters[i].cmd = c /\ ~ackWaiters[i].sink
      BY <2>3 DEF CivIInv, WaitersAgree
    <3>2. Keeps(ackWaiters', ackWaiters[i])
      BY <2>3, <3>1
    <3> QED
      BY <3>1, <3>2 DEF Keeps
  <2>4. ASSUME NEW c \in Commands, status'[c] \in Active, respFut'[c].state = "pending"
        PROVE  \E k \in DOMAIN responseWaiters' : responseWaiters'[k].cmd = c
    <3>1. PICK i \in DOMAIN responseWaiters : responseWaiters[i].cmd = c
      BY <2>4 DEF CivIInv, WaitersAgree
    <3>2. Keeps(responseWaiters', responseWaiters[i])
      BY <2>4, <3>1
    <3> QED
      BY <3>1, <3>2 DEF Keeps
  <2> QED
    BY <2>1, <2>2, <2>3, <2>4 DEF WaitersAgree
<1>4. WaitersFit'
  <2>1. ASSUME NEW k \in DOMAIN ackWaiters'
        PROVE  /\ ~ackWaiters'[k].sink => /\ AwaitsAck(ackWaiters'[k].cmd)
                                         /\ status'[ackWaiters'[k].cmd] # "draining"
               /\ ackWaiters'[k].nakOnly => ~ackWaiters'[k].sink /\ ~IsWrite(ackWaiters'[k].cmd)
    <3>1. PICK i \in DOMAIN ackWaiters : ackWaiters'[k] = ackWaiters[i]
      BY DEF Drawn
    <3>2. /\ ~ackWaiters[i].sink => /\ AwaitsAck(ackWaiters[i].cmd)
                                   /\ status[ackWaiters[i].cmd] # "draining"
          /\ ackWaiters[i].nakOnly => ~ackWaiters[i].sink /\ ~IsWrite(ackWaiters[i].cmd)
      BY DEF CivIInv, WaitersFit
    <3> QED
      BY <1>1, <3>1, <3>2
  <2>2. ASSUME NEW k \in DOMAIN responseWaiters'
        PROVE  AwaitsData(responseWaiters'[k].cmd) /\ status'[responseWaiters'[k].cmd] # "draining"
    <3>1. PICK i \in DOMAIN responseWaiters : responseWaiters'[k] = responseWaiters[i]
      BY DEF Drawn
    <3>2. AwaitsData(responseWaiters[i].cmd) /\ status[responseWaiters[i].cmd] # "draining"
      BY DEF CivIInv, WaitersFit
    <3> QED
      BY <1>1, <3>1, <3>2
  <2>3. \A c \in Commands : status'[c] \in {"idle", "draining"} =>
            ackFut'[c].state # "pending" /\ respFut'[c].state # "pending"
    BY DEF CivIInv, WaitersFit
  <2> QED
    BY <2>1, <2>2, <2>3 DEF WaitersFit
<1>5. Aligned'
  <2> SUFFICES ASSUME ~stray', overlap = {}
               PROVE  /\ \A c, d \in Running' : c = d
                      /\ \A i, j \in DOMAIN ackWaiters' :
                            ~ackWaiters'[i].sink =>
                                ~ackWaiters'[j].sink /\ ackWaiters'[j].cmd = ackWaiters'[i].cmd
                      /\ \A c \in Commands : ackFut'[c].state = "done" => ackFut'[c].of = c
    BY DEF Aligned
  <2>1. /\ \A c, d \in Running : c = d
        /\ \A i, j \in DOMAIN ackWaiters :
              ~ackWaiters[i].sink =>
                  ~ackWaiters[j].sink /\ ackWaiters[j].cmd = ackWaiters[i].cmd
        /\ \A c \in Commands : ackFut[c].state = "done" => ackFut[c].of = c
    BY DEF CivIInv, Aligned
  <2>2. Running' \subseteq Running
    BY DEF Running
  <2>3. \A i, j \in DOMAIN ackWaiters' :
            ~ackWaiters'[i].sink =>
                ~ackWaiters'[j].sink /\ ackWaiters'[j].cmd = ackWaiters'[i].cmd
    BY <2>1 DEF Drawn
  <2>4. \A c \in Commands : ackFut'[c].state = "done" => ackFut'[c].of = c
    BY <2>1
  <2> QED
    BY <2>1, <2>2, <2>3, <2>4
<1> QED
  BY <1>2, <1>3, <1>4, <1>5 DEF CivIInv

-----------------------------------------------------------------------------
(* One lemma per action, or per group of actions that do the same to the   *)
(* tracker.                                                                *)

\* The types of the state, taken apart.
LEMMA StateTypes ==
    ASSUME CivTypeOK
    PROVE  /\ ackWaiters \in Seq(AckWaiter) /\ responseWaiters \in Seq(ResponseWaiter)
           /\ backlog \in Seq(Orphan) /\ Len(backlog) \in Nat /\ generation \in Nat
           /\ ackFut \in [Commands -> Futures] /\ respFut \in [Commands -> Futures]
           /\ status \in [Commands -> Statuses] /\ wire \in Seq(Commands)
           /\ unsolicited \in 0..MaxUnsolicited /\ stray \in BOOLEAN /\ overlap \in SUBSET Overlaps
           /\ alone \in Commands \cup {NoCmd}
<1>1. backlog \in Seq(Orphan)
  BY DEF CivTypeOK, TrackerTypeOK
<1>2. Len(backlog) \in Nat
  BY <1>1, LenProperties
<1> QED
  BY <1>2 DEF CivTypeOK, TrackerTypeOK

\* A list draws from itself and keeps what it has; the empty list draws from any.
LEMMA DrawnItself ==
    ASSUME NEW S, NEW s \in Seq(S)
    PROVE  /\ Drawn(s, s) /\ \A i \in DOMAIN s : Keeps(s, s[i])
           /\ Drawn(<< >>, s)
<1>1. Drawn(s, s) /\ \A i \in DOMAIN s : Keeps(s, s[i])
  BY DEF Drawn, Keeps
<1>2. DOMAIN << >> = {}
  OBVIOUS
<1> QED
  BY <1>1, <1>2 DEF Drawn

\* Without the waiters of a command, all others are left.
LEMMA Unregisters ==
    ASSUME CivTypeOK, NEW c \in Commands, Unregister(c)
    PROVE  /\ ackWaiters' \in Seq(AckWaiter) /\ Drawn(ackWaiters', ackWaiters)
           /\ responseWaiters' \in Seq(ResponseWaiter) /\ Drawn(responseWaiters', responseWaiters)
           /\ \A i \in DOMAIN ackWaiters :
                 ackWaiters[i].cmd # c => Keeps(ackWaiters', ackWaiters[i])
           /\ \A i \in DOMAIN responseWaiters :
                 responseWaiters[i].cmd # c => Keeps(responseWaiters', responseWaiters[i])
           /\ \A k \in DOMAIN ackWaiters' : ackWaiters'[k].cmd # c \/ ackWaiters'[k].sink
           /\ \A k \in DOMAIN responseWaiters' : responseWaiters'[k].cmd # c
<1> DEFINE I == {i \in DOMAIN ackWaiters : ackWaiters[i].cmd # c \/ ackWaiters[i].sink}
           J == {i \in DOMAIN responseWaiters : responseWaiters[i].cmd # c}
<1>1. ackWaiters' = Part(ackWaiters, I) /\ responseWaiters' = Part(responseWaiters, J)
  BY DEF Unregister
<1>2. ackWaiters \in Seq(AckWaiter) /\ responseWaiters \in Seq(ResponseWaiter)
  BY StateTypes
<1>3. I \in SUBSET DOMAIN ackWaiters /\ J \in SUBSET DOMAIN responseWaiters
  OBVIOUS
<1>4. /\ \A i \in DOMAIN ackWaiters : ackWaiters[i].cmd # c => i \in I
      /\ \A i \in DOMAIN responseWaiters : responseWaiters[i].cmd # c => i \in J
      /\ \A i \in I : ackWaiters[i].cmd # c \/ ackWaiters[i].sink
      /\ \A i \in J : responseWaiters[i].cmd # c
  OBVIOUS
<1> HIDE DEF I, J
<1>5. /\ \A k \in DOMAIN ackWaiters' : \E i \in I : ackWaiters'[k] = ackWaiters[i]
      /\ \A k \in DOMAIN responseWaiters' : \E i \in J : responseWaiters'[k] = responseWaiters[i]
  BY <1>1, <1>2, <1>3, PartKeeps
<1>6. /\ \A k \in DOMAIN ackWaiters' : ackWaiters'[k].cmd # c \/ ackWaiters'[k].sink
      /\ \A k \in DOMAIN responseWaiters' : responseWaiters'[k].cmd # c
  BY <1>4, <1>5
<1> QED
  BY <1>1, <1>2, <1>3, <1>4, <1>6, PartDraws

\* A command ends and takes its waiters back.
LEMMA Ending ==
    ASSUME CivIInv, NEW c \in Commands, NEW s \in Outcomes, Goes(c, s), Unregister(c),
           UNCHANGED <<backlog, generation, ackFut, respFut, wire, unsolicited, stray, overlap, alone>>
    PROVE  CivIInv'
<1>1. CivTypeOK
  BY DEF CivIInv
<1>2. /\ status' = [status EXCEPT ![c] = s] /\ s \in Statuses /\ s \notin Active
      /\ s \notin {"idle", "draining"}
  BY DEF Goes, Outcomes, Statuses, Active
<1>3. CivTypeOK'
  <2>1. status' \in [Commands -> Statuses]
    BY <1>1, <1>2, StateTypes
  <2> QED
    BY <1>1, <2>1, StateTypes, Unregisters DEF CivTypeOK, TrackerTypeOK
<1>4. \A i \in DOMAIN ackWaiters :
        ~ackWaiters[i].sink =>
            \/ ~Keeps(ackWaiters', ackWaiters[i])
            \/ status'[ackWaiters[i].cmd] \in Active
  <2> SUFFICES ASSUME NEW i \in DOMAIN ackWaiters, ~ackWaiters[i].sink,
                      Keeps(ackWaiters', ackWaiters[i])
               PROVE  status'[ackWaiters[i].cmd] \in Active
    OBVIOUS
  <2>1. ackWaiters[i].cmd # c
    BY <1>1, Unregisters DEF Keeps
  <2>2. ackWaiters[i].cmd \in Commands /\ status[ackWaiters[i].cmd] \in Active
    BY <1>1, CivTypes DEF CivIInv, WaitersAgree
  <2> QED
    BY <1>1, <1>2, <2>1, <2>2, StateTypes
<1>5. \A i \in DOMAIN responseWaiters :
            \/ ~Keeps(responseWaiters', responseWaiters[i])
            \/ status'[responseWaiters[i].cmd] \in Active
  <2> SUFFICES ASSUME NEW i \in DOMAIN responseWaiters,
                      Keeps(responseWaiters', responseWaiters[i])
               PROVE  status'[responseWaiters[i].cmd] \in Active
    OBVIOUS
  <2>1. responseWaiters[i].cmd # c
    BY <1>1, Unregisters DEF Keeps
  <2>2. responseWaiters[i].cmd \in Commands /\ status[responseWaiters[i].cmd] \in Active
    BY <1>1, CivTypes DEF CivIInv, WaitersAgree
  <2> QED
    BY <1>1, <1>2, <2>1, <2>2, StateTypes
<1>6. /\ \A i \in DOMAIN ackWaiters :
            ~ackWaiters[i].sink /\ status'[ackWaiters[i].cmd] \in Active
                /\ ackFut'[ackWaiters[i].cmd].state = "pending"
              => Keeps(ackWaiters', ackWaiters[i])
      /\ \A i \in DOMAIN responseWaiters :
            status'[responseWaiters[i].cmd] \in Active
                /\ respFut'[responseWaiters[i].cmd].state = "pending"
              => Keeps(responseWaiters', responseWaiters[i])
  <2>1. status'[c] \notin Active
    BY <1>1, <1>2, StateTypes
  <2> QED
    BY <1>1, <2>1, Unregisters
<1>7. \A d \in Commands :
            /\ status'[d] \in Active => status[d] \in Active
            /\ status'[d] \in {"idle", "draining"} => status'[d] = status[d]
  BY <1>1, <1>2, StateTypes
<1>8. /\ \A k \in DOMAIN backlog : backlog[k].gen = generation
      /\ Len(backlog) <= BacklogSize
      /\ ~stray /\ overlap = {} => backlog = << >>
  BY DEF CivIInv, CurrentGeneration, Aligned
<1>9. Drawn(ackWaiters', ackWaiters) /\ Drawn(responseWaiters', responseWaiters)
  BY <1>1, Unregisters
<1> QED
  BY <1>3, <1>4, <1>5, <1>6, <1>7, <1>8, <1>9, NobodyRegisters

\* Only blocking commands wait.
LEMMA AwaitsBlock ==
    ASSUME NEW c, AwaitsAck(c) \/ AwaitsData(c)
    PROVE  Blocking(c)
BY DEF AwaitsAck, AwaitsData, Blocking

\* _transmit() of a blocking command: it registers its waiter, or goes on without.
LEMMA Transmitting == ASSUME CivIInv, NEW c \in Commands, Transmit(c) PROVE CivIInv'
<1>1. CivTypeOK
  BY DEF CivIInv
<1>2. /\ status[c] = "pacing" /\ wire' = Append(wire, c)
      /\ UNCHANGED <<ackWaiters, responseWaiters, backlog, generation, ackFut, respFut,
                     unsolicited, stray, overlap, alone>>
  BY DEF Transmit, trackerVars
<1>3. PICK s \in {"waiting", "sent"} :
        status' = [status EXCEPT ![c] = s] /\ (s = "sent" => ~Blocking(c))
  BY DEF Transmit, Goes
<1>4. /\ {"waiting", "sent"} \subseteq Statuses /\ {"pacing", "waiting"} \subseteq Active
      /\ "sent" \notin Active
  BY DEF Statuses, Active, Outcomes
<1>5. CivTypeOK'
  <2>1. wire' \in Seq(Commands)
    BY <1>1, <1>2, StateTypes
  <2>2. status' \in [Commands -> Statuses]
    BY <1>1, <1>3, <1>4, StateTypes
  <2> QED
    BY <1>1, <1>2, <2>1, <2>2, StateTypes DEF CivTypeOK, TrackerTypeOK
<1>6. \A d \in Commands :
            /\ status'[d] \in Active => status[d] \in Active
            /\ status'[d] \in {"idle", "draining"} => status'[d] = status[d]
  BY <1>1, <1>2, <1>3, <1>4, StateTypes
<1>7. \A d \in Commands :
        status[d] \in Active /\ (AwaitsAck(d) \/ AwaitsData(d)) => status'[d] \in Active
  BY <1>1, <1>3, <1>4, AwaitsBlock, StateTypes
<1>8. /\ \A i \in DOMAIN ackWaiters :
            ~ackWaiters[i].sink => status'[ackWaiters[i].cmd] \in Active
      /\ \A i \in DOMAIN responseWaiters : status'[responseWaiters[i].cmd] \in Active
  <2>1. /\ \A i \in DOMAIN ackWaiters :
              ~ackWaiters[i].sink => /\ status[ackWaiters[i].cmd] \in Active
                                     /\ AwaitsAck(ackWaiters[i].cmd)
        /\ \A i \in DOMAIN responseWaiters : /\ status[responseWaiters[i].cmd] \in Active
                                             /\ AwaitsData(responseWaiters[i].cmd)
    BY DEF CivIInv, WaitersAgree, WaitersFit
  <2> QED
    BY <1>1, <1>7, <2>1, CivTypes
<1>9. /\ \A k \in DOMAIN backlog : backlog[k].gen = generation
      /\ Len(backlog) <= BacklogSize
      /\ ~stray /\ overlap = {} => backlog = << >>
  BY DEF CivIInv, CurrentGeneration, Aligned
<1>10. /\ Drawn(ackWaiters', ackWaiters) /\ Drawn(responseWaiters', responseWaiters)
       /\ \A i \in DOMAIN ackWaiters : Keeps(ackWaiters', ackWaiters[i])
       /\ \A i \in DOMAIN responseWaiters : Keeps(responseWaiters', responseWaiters[i])
  BY <1>1, <1>2, StateTypes, DrawnItself
<1> QED
  BY <1>2, <1>5, <1>6, <1>8, <1>9, <1>10, NobodyRegisters

\* _transmit() that raises takes its waiter back.
LEMMA FailingToTransmit == ASSUME CivIInv, NEW c \in Commands, TransmitFails(c) PROVE CivIInv'
<1>1. CivTypeOK
  BY DEF CivIInv
<1>2. /\ status[c] = "pacing" /\ Goes(c, "failed")
      /\ UNCHANGED <<backlog, generation, ackFut, respFut, wire, unsolicited, stray, overlap, alone>>
  BY DEF TransmitFails
<1>3. CASE Blocking(c)
  <2>1. Unregister(c) /\ "failed" \in Outcomes
    BY <1>3 DEF TransmitFails, Outcomes
  <2> QED
    BY <1>2, <2>1, Ending
<1>4. CASE ~Blocking(c)
  <2>1. UnregisterSink(c) /\ responseWaiters' = responseWaiters
    BY <1>4, Zenon DEF TransmitFails
  <2> DEFINE I == {i \in DOMAIN ackWaiters : ackWaiters[i].cmd # c \/ ~ackWaiters[i].sink}
  <2>2. ackWaiters' = Part(ackWaiters, I) /\ I \in SUBSET DOMAIN ackWaiters
        /\ \A i \in DOMAIN ackWaiters : ~ackWaiters[i].sink => i \in I
    BY <2>1 DEF UnregisterSink
  <2> HIDE DEF I
  <2>3. /\ ackWaiters' \in Seq(AckWaiter) /\ Drawn(ackWaiters', ackWaiters)
        /\ \A i \in DOMAIN ackWaiters : ~ackWaiters[i].sink => Keeps(ackWaiters', ackWaiters[i])
    BY <1>1, <2>2, StateTypes, PartDraws
  <2>4. status' = [status EXCEPT ![c] = "failed"] /\ "failed" \in Statuses /\ "failed" \notin Active
    BY <1>2 DEF Goes, Statuses, Outcomes, Active
  <2>5. CivTypeOK'
    <3>1. status' \in [Commands -> Statuses]
      BY <1>1, <2>4, StateTypes
    <3> QED
      BY <1>1, <1>2, <2>1, <2>3, <3>1, StateTypes DEF CivTypeOK, TrackerTypeOK
  <2>6. \A d \in Commands :
            /\ status'[d] \in Active => status[d] \in Active
            /\ status'[d] \in {"idle", "draining"} => status'[d] = status[d]
    BY <1>1, <2>4, StateTypes
  <2>7. /\ \A i \in DOMAIN ackWaiters :
              ~ackWaiters[i].sink => status'[ackWaiters[i].cmd] \in Active
        /\ \A i \in DOMAIN responseWaiters : status'[responseWaiters[i].cmd] \in Active
    <3>1. /\ \A i \in DOMAIN ackWaiters :
                ~ackWaiters[i].sink => /\ status[ackWaiters[i].cmd] \in Active
                                       /\ ackWaiters[i].cmd # c
          /\ \A i \in DOMAIN responseWaiters : /\ status[responseWaiters[i].cmd] \in Active
                                               /\ responseWaiters[i].cmd # c
      BY <1>4, AwaitsBlock DEF CivIInv, WaitersAgree, WaitersFit
    <3> QED
      BY <1>1, <2>4, <3>1, CivTypes, StateTypes
  <2>8. /\ \A k \in DOMAIN backlog : backlog[k].gen = generation
        /\ Len(backlog) <= BacklogSize
        /\ ~stray /\ overlap = {} => backlog = << >>
    BY DEF CivIInv, CurrentGeneration, Aligned
  <2>9. /\ Drawn(responseWaiters', responseWaiters)
        /\ \A i \in DOMAIN responseWaiters : Keeps(responseWaiters', responseWaiters[i])
    BY <1>1, <2>1, StateTypes, DrawnItself
  <2> QED
    BY <1>2, <2>3, <2>5, <2>6, <2>7, <2>8, <2>9, NobodyRegisters
<1> QED
  BY <1>3, <1>4

\* The deadline passes at the wait: the futures are cancelled, the waiters are
\* still listed until the task runs again.
LEMMA Cancelling ==
    ASSUME CivIInv, NEW c \in Commands, status[c] = "waiting", Goes(c, "unwinding"),
           ackFut' = Failed(ackFut, {c}), respFut' = Failed(respFut, {c}),
           UNCHANGED <<ackWaiters, responseWaiters, backlog, generation, wire, unsolicited,
                       stray, overlap, alone>>
    PROVE  CivIInv'
<1>1. CivTypeOK
  BY DEF CivIInv
<1>2. /\ status' = [status EXCEPT ![c] = "unwinding"] /\ "unwinding" \in Statuses
      /\ {"waiting", "unwinding"} \subseteq Active
  BY DEF Goes, Statuses, Active
<1>3. /\ ackFut' \in [Commands -> Futures] /\ respFut' \in [Commands -> Futures]
      /\ \A d \in Commands :
            /\ ackFut'[d].state = "pending" => ackFut[d].state = "pending"
            /\ respFut'[d].state = "pending" => respFut[d].state = "pending"
            /\ ackFut'[d].state = "done" => ackFut'[d] = ackFut[d]
  <2>1. ackFut \in [Commands -> Futures] /\ respFut \in [Commands -> Futures]
    BY <1>1, StateTypes
  <2> QED
    BY <2>1, FailedTypes
<1>4. CivTypeOK'
  <2>1. status' \in [Commands -> Statuses]
    BY <1>1, <1>2, StateTypes
  <2> QED
    BY <1>1, <1>3, <2>1, StateTypes DEF CivTypeOK, TrackerTypeOK
<1>5. \A d \in Commands :
            /\ status'[d] \in Active <=> status[d] \in Active
            /\ status'[d] \in {"idle", "draining"} => status'[d] = status[d]
  BY <1>1, <1>2, StateTypes
<1>6. /\ \A i \in DOMAIN ackWaiters :
            ~ackWaiters[i].sink => status'[ackWaiters[i].cmd] \in Active
      /\ \A i \in DOMAIN responseWaiters : status'[responseWaiters[i].cmd] \in Active
  BY <1>1, <1>5, CivTypes DEF CivIInv, WaitersAgree
<1>7. /\ \A k \in DOMAIN backlog : backlog[k].gen = generation
      /\ Len(backlog) <= BacklogSize
      /\ ~stray /\ overlap = {} => backlog = << >>
  BY DEF CivIInv, CurrentGeneration, Aligned
<1>8. /\ Drawn(ackWaiters', ackWaiters) /\ Drawn(responseWaiters', responseWaiters)
      /\ \A i \in DOMAIN ackWaiters : Keeps(ackWaiters', ackWaiters[i])
      /\ \A i \in DOMAIN responseWaiters : Keeps(responseWaiters', responseWaiters[i])
  BY <1>1, StateTypes, DrawnItself
<1> QED
  BY <1>3, <1>4, <1>5, <1>6, <1>7, <1>8, NobodyRegisters

\* A command that has its answer, times out or is cancelled leaves no waiter.
LEMMA FinishingOrGivingUp ==
    ASSUME CivIInv, NEW c \in Commands, Finish(c) \/ GiveUp(c) \/ Unwind(c)
    PROVE  CivIInv'
<1>1. CASE Finish(c)
  <2>1. /\ Unregister(c)
        /\ UNCHANGED <<backlog, generation, ackFut, respFut, wire, unsolicited, stray, overlap, alone>>
    BY <1>1 DEF Finish
  <2>2. PICK f \in {ackFut[c], respFut[c]} :
            \/ f.state = "done" /\ Goes(c, f.type)
            \/ f.state = "failed" /\ Goes(c, "failed")
    BY <1>1 DEF Finish
  <2>3. f \in Futures
    BY StateTypes DEF CivIInv
  <2>4. f.state = "done" => f.type \in Outcomes
    BY <2>3 DEF Futures, Outcomes
  <2>5. "failed" \in Outcomes
    BY DEF Outcomes
  <2> QED
    BY <2>1, <2>2, <2>4, <2>5, Ending
<1>2. CASE GiveUp(c)
  <2>1. CASE status[c] = "waiting" /\ ~IsRaw(c)
    <3>1. /\ Goes(c, "unwinding") /\ ackFut' = Failed(ackFut, {c}) /\ respFut' = Failed(respFut, {c})
          /\ UNCHANGED <<ackWaiters, responseWaiters>>
      BY <1>2, <2>1, Zenon DEF GiveUp
    <3>2. UNCHANGED <<backlog, generation, wire, unsolicited, stray, overlap, alone>>
      BY <1>2 DEF GiveUp
    <3> QED
      BY <2>1, <3>1, <3>2, Cancelling
  <2>2. CASE ~(status[c] = "waiting" /\ ~IsRaw(c))
    <3>1. Goes(c, "gone") /\ Unregister(c) /\ UNCHANGED <<ackFut, respFut>>
      BY <1>2, <2>2, Zenon DEF GiveUp
    <3>2. UNCHANGED <<backlog, generation, wire, unsolicited, stray, overlap, alone>>
      BY <1>2 DEF GiveUp
    <3>3. "gone" \in Outcomes
      BY DEF Outcomes
    <3> QED
      BY <3>1, <3>2, <3>3, Ending
  <2> QED
    BY <2>1, <2>2
<1>3. CASE Unwind(c)
  <2>1. /\ Goes(c, "gone") /\ Unregister(c) /\ "gone" \in Outcomes
        /\ UNCHANGED <<backlog, generation, ackFut, respFut, wire, unsolicited, stray, overlap, alone>>
    BY <1>3 DEF Unwind, Outcomes
  <2> QED
    BY <2>1, Ending
<1> QED
  BY <1>1, <1>2, <1>3

\* When a command begins, no transaction of its lane is under way; one that
\* begins next to another lane is recorded.
LEMMA Beginnings ==
    ASSUME CivIInv, NEW c \in Commands, Begins(c)
    PROVE  /\ status[c] = "idle" /\ overlap' \in SUBSET Overlaps
           /\ alone' \in Commands \cup {NoCmd}
           /\ overlap' = {} => overlap = {} /\ Running = {}
           /\ UNCHANGED <<generation, wire, unsolicited, stray>>
<1>1. overlap \in SUBSET Overlaps
  BY StateTypes DEF CivIInv
<1> QED
  BY <1>1 DEF Begins, Overlaps

\* A step of an idle command that registers nothing to wait for.
LEMMA BeginningAside ==
    ASSUME CivIInv, NEW c \in Commands, Begins(c), NEW s \in Active, Goes(c, s),
           ackWaiters' = ackWaiters \/ \E w \in AckWaiter :
                /\ w.sink /\ ~w.nakOnly /\ w.gen = generation
                /\ ackWaiters' = Append(ackWaiters, w),
           backlog' \in Seq(Orphan), Drawn(backlog', backlog), Len(backlog') <= Len(backlog),
           UNCHANGED <<responseWaiters, ackFut, respFut>>
    PROVE  CivIInv'
<1>1. CivTypeOK
  BY DEF CivIInv
<1>2. /\ status[c] = "idle" /\ overlap' \in SUBSET Overlaps
      /\ alone' \in Commands \cup {NoCmd}
      /\ overlap' = {} => overlap = {} /\ Running = {}
      /\ UNCHANGED <<generation, wire, unsolicited, stray>>
  BY Beginnings
<1>3. /\ status' = [status EXCEPT ![c] = s] /\ s \in Statuses
      /\ status' \in [Commands -> Statuses]
  BY <1>1, StateTypes DEF Goes, Statuses
<1>4. /\ ackWaiters' \in Seq(AckWaiter)
      /\ \A k \in DOMAIN ackWaiters' :
            \/ \E i \in DOMAIN ackWaiters : ackWaiters'[k] = ackWaiters[i]
            \/ ackWaiters'[k].sink /\ ~ackWaiters'[k].nakOnly /\ ackWaiters'[k].gen = generation
      /\ \A i \in DOMAIN ackWaiters : Keeps(ackWaiters', ackWaiters[i])
  <2>1. CASE ackWaiters' = ackWaiters
    BY <1>1, <2>1, StateTypes DEF Keeps
  <2>2. CASE \E w \in AckWaiter :
                /\ w.sink /\ ~w.nakOnly /\ w.gen = generation
                /\ ackWaiters' = Append(ackWaiters, w)
    <3>1. PICK w \in AckWaiter : /\ w.sink /\ ~w.nakOnly /\ w.gen = generation
                                 /\ ackWaiters' = Append(ackWaiters, w)
      BY <2>2
    <3>2. /\ ackWaiters' \in Seq(AckWaiter) /\ DOMAIN ackWaiters' = 1..Len(ackWaiters) + 1
          /\ DOMAIN ackWaiters = 1..Len(ackWaiters) /\ Len(ackWaiters) \in Nat
          /\ \A k \in DOMAIN ackWaiters : ackWaiters'[k] = ackWaiters[k]
          /\ ackWaiters'[Len(ackWaiters) + 1] = w
      BY <1>1, <3>1, StateTypes, AppendProperties, LenProperties
    <3>3. \A k \in DOMAIN ackWaiters' :
            (\E i \in DOMAIN ackWaiters : ackWaiters'[k] = ackWaiters[i]) \/ ackWaiters'[k] = w
      BY <3>2
    <3>4. \A i \in DOMAIN ackWaiters : Keeps(ackWaiters', ackWaiters[i])
      BY <3>2 DEF Keeps
    <3> QED
      BY <3>1, <3>2, <3>3, <3>4
  <2> QED
    BY <2>1, <2>2
<1>5. CivTypeOK'
  BY <1>1, <1>2, <1>3, <1>4, StateTypes DEF CivTypeOK, TrackerTypeOK
<1>6. CurrentGeneration'
  <2>1. /\ \A i \in DOMAIN ackWaiters : ackWaiters[i].gen = generation
        /\ \A i \in DOMAIN responseWaiters : responseWaiters[i].gen = generation
        /\ \A i \in DOMAIN backlog : backlog[i].gen = generation
        /\ Len(backlog) <= BacklogSize
    BY DEF CivIInv, CurrentGeneration
  <2>2. \A k \in DOMAIN ackWaiters' : ackWaiters'[k].gen = generation
    BY <1>4, <2>1
  <2>3. \A k \in DOMAIN backlog' : backlog'[k].gen = generation
    BY <2>1 DEF Drawn
  <2>4. Len(backlog') <= BacklogSize
    BY <1>1, <2>1, BacklogAssumption, StateTypes
  <2> QED
    BY <1>2, <2>1, <2>2, <2>3, <2>4 DEF CurrentGeneration
<1>7. \A d \in Commands : /\ status[d] \in Active => status'[d] \in Active
                          /\ d # c => status'[d] = status[d]
  BY <1>1, <1>3, StateTypes
<1>8. WaitersAgree'
  <2>1. \A k \in DOMAIN ackWaiters' :
            ackWaiters'[k].sink \/ status'[ackWaiters'[k].cmd] \in Active
    BY <1>1, <1>4, <1>7, CivTypes DEF CivIInv, WaitersAgree
  <2>2. \A k \in DOMAIN responseWaiters : status'[responseWaiters[k].cmd] \in Active
    BY <1>1, <1>7, CivTypes DEF CivIInv, WaitersAgree
  <2>3. ASSUME NEW d \in Commands, status'[d] \in Active
        PROVE  /\ ackFut[d].state = "pending" =>
                    \E k \in DOMAIN ackWaiters' : ackWaiters'[k].cmd = d /\ ~ackWaiters'[k].sink
               /\ respFut[d].state = "pending" =>
                    \E k \in DOMAIN responseWaiters : responseWaiters[k].cmd = d
    <3>1. CASE d = c
      BY <1>2, <3>1 DEF CivIInv, WaitersFit
    <3>2. CASE d # c
      <4>1. status[d] \in Active
        BY <1>7, <2>3, <3>2
      <4>2. /\ ackFut[d].state = "pending" =>
                    \E i \in DOMAIN ackWaiters : ackWaiters[i].cmd = d /\ ~ackWaiters[i].sink
            /\ respFut[d].state = "pending" =>
                    \E i \in DOMAIN responseWaiters : responseWaiters[i].cmd = d
        BY <4>1 DEF CivIInv, WaitersAgree
      <4> QED
        BY <1>4, <4>2 DEF Keeps
    <3> QED
      BY <3>1, <3>2
  <2> QED
    BY <2>1, <2>2, <2>3 DEF WaitersAgree
<1>9. WaitersFit'
  <2>1. \A d \in Commands :
            status[d] \in Active /\ status[d] # "draining" => status'[d] # "draining"
    BY <1>2, <1>7 DEF Active
  <2>2. /\ \A i \in DOMAIN ackWaiters :
              /\ ~ackWaiters[i].sink => /\ AwaitsAck(ackWaiters[i].cmd)
                                       /\ status[ackWaiters[i].cmd] # "draining"
                                       /\ status[ackWaiters[i].cmd] \in Active
              /\ ackWaiters[i].nakOnly => ~ackWaiters[i].sink /\ ~IsWrite(ackWaiters[i].cmd)
        /\ \A i \in DOMAIN responseWaiters : /\ AwaitsData(responseWaiters[i].cmd)
                                             /\ status[responseWaiters[i].cmd] # "draining"
                                             /\ status[responseWaiters[i].cmd] \in Active
        /\ \A d \in Commands : status[d] \in {"idle", "draining"} =>
              ackFut[d].state # "pending" /\ respFut[d].state # "pending"
    BY DEF CivIInv, WaitersFit, WaitersAgree
  <2>3. \A k \in DOMAIN ackWaiters' :
            /\ ~ackWaiters'[k].sink => /\ AwaitsAck(ackWaiters'[k].cmd)
                                      /\ status'[ackWaiters'[k].cmd] # "draining"
            /\ ackWaiters'[k].nakOnly => ~ackWaiters'[k].sink /\ ~IsWrite(ackWaiters'[k].cmd)
    BY <1>1, <1>4, <2>1, <2>2, CivTypes
  <2>4. \A k \in DOMAIN responseWaiters :
            /\ AwaitsData(responseWaiters[k].cmd)
            /\ status'[responseWaiters[k].cmd] # "draining"
    BY <1>1, <2>1, <2>2, CivTypes
  <2>5. \A d \in Commands : status'[d] \in {"idle", "draining"} =>
            ackFut[d].state # "pending" /\ respFut[d].state # "pending"
    BY <1>2, <1>7, <2>2
  <2> QED
    BY <2>3, <2>4, <2>5 DEF WaitersFit
<1>10. Aligned'
  <2> SUFFICES ASSUME ~stray, overlap' = {}
               PROVE  /\ \A d, e \in Running' : d = e
                      /\ backlog' = << >>
                      /\ \A i, j \in DOMAIN ackWaiters' :
                            ~ackWaiters'[i].sink =>
                                ~ackWaiters'[j].sink /\ ackWaiters'[j].cmd = ackWaiters'[i].cmd
                      /\ \A d \in Commands : ackFut[d].state = "done" => ackFut[d].of = d
    BY <1>2 DEF Aligned
  <2>1. /\ overlap = {} /\ Running = {}
        /\ backlog = << >> /\ \A d \in Commands : ackFut[d].state = "done" => ackFut[d].of = d
    BY <1>2 DEF CivIInv, Aligned
  <2>2. \A d \in Running' : d = c
    BY <1>7, <2>1 DEF Running
  <2>3. backlog' = << >>
    BY <2>1, EmptySeq
  <2>4. \A k \in DOMAIN ackWaiters' : ackWaiters'[k].sink
    <3>1. \A i \in DOMAIN ackWaiters : ackWaiters[i].sink
      BY <1>1, <2>1, CivTypes DEF CivIInv, WaitersAgree, Running
    <3> QED
      BY <1>4, <3>1
  <2> QED
    BY <2>1, <2>2, <2>3, <2>4
<1> QED
  BY <1>5, <1>6, <1>8, <1>9, <1>10 DEF CivIInv

\* A fire-and-forget command registers a sink.
LEMMA BeginningFire == ASSUME CivIInv, NEW c \in Commands, BeginFire(c) PROVE CivIInv'
<1>1. CivTypeOK
  BY DEF CivIInv
<1>2. Begins(c) /\ Goes(c, "pacing") /\ "pacing" \in Active
      /\ UNCHANGED <<responseWaiters, respFut>>
  BY DEF BeginFire, Active
<1>3. CASE kind[c] = "fire set"
  <2>1. RegisterSink(c)
    BY <1>3, Zenon DEF BeginFire
  <2> DEFINE w == [cmd |-> c, sink |-> TRUE, nakOnly |-> FALSE, gen |-> generation]
  <2>2. w \in AckWaiter /\ w.sink /\ ~w.nakOnly /\ w.gen = generation
    BY <1>1, StateTypes DEF AckWaiter
  <2>3. backlog' \in Pruned(backlog) /\ ackWaiters' = Append(ackWaiters, w) /\ ackFut' = ackFut
    BY <2>1 DEF RegisterSink
  <2> HIDE DEF w
  <2>4. backlog' \in Seq(Orphan) /\ Drawn(backlog', backlog) /\ Len(backlog') <= Len(backlog)
    BY <1>1, <2>3, StateTypes, PrunedKeeps DEF Drawn
  <2> QED
    BY <1>2, <2>2, <2>3, <2>4, BeginningAside
<1>4. CASE kind[c] # "fire set"
  <2>1. UNCHANGED <<ackWaiters, backlog, ackFut>>
    BY <1>4, Zenon DEF BeginFire
  <2>2. backlog' \in Seq(Orphan) /\ Drawn(backlog', backlog) /\ Len(backlog') <= Len(backlog)
    BY <1>1, <2>1, StateTypes, DrawnItself
  <2> QED
    BY <1>2, <2>1, <2>2, BeginningAside
<1> QED
  BY <1>3, <1>4

\* A blocking command drains the sinks first, if there are any.
LEMMA BeginningBlocking == ASSUME CivIInv, NEW c \in Commands, BeginBlocking(c) PROVE CivIInv'
<1>1. CivTypeOK
  BY DEF CivIInv
<1>2. Begins(c) /\ Blocking(c)
  BY DEF BeginBlocking
<1>3. CASE HasSinks
  <2>1. Goes(c, "draining") /\ UNCHANGED trackerVars /\ "draining" \in Active
    BY <1>3, Zenon DEF BeginBlocking, Active
  <2>2. UNCHANGED <<ackWaiters, responseWaiters, backlog, ackFut, respFut>>
    BY <2>1 DEF trackerVars
  <2>3. backlog' \in Seq(Orphan) /\ Drawn(backlog', backlog) /\ Len(backlog') <= Len(backlog)
    BY <1>1, <2>2, StateTypes, DrawnItself
  <2> QED
    BY <1>2, <2>1, <2>2, <2>3, BeginningAside
<1>4. CASE ~HasSinks
  <2>1. Goes(c, "pacing") /\ AwaitAck(c, ackWaiters) /\ AwaitData(c)
    BY <1>4, Zenon DEF BeginBlocking
  <2>2. /\ status[c] = "idle" /\ overlap' \in SUBSET Overlaps
        /\ alone' \in Commands \cup {NoCmd}
        /\ overlap' = {} => overlap = {} /\ Running = {}
        /\ UNCHANGED <<generation, wire, unsolicited, stray>>
    BY <1>2, Beginnings
  <2>3. \A k \in DOMAIN ackWaiters : ~ackWaiters[k].sink
    BY <1>4 DEF HasSinks
  <2>4. /\ ackWaiters \in Seq(AckWaiter) /\ Drawn(ackWaiters, ackWaiters)
        /\ \A i \in DOMAIN ackWaiters : Keeps(ackWaiters, ackWaiters[i])
    BY <1>1, StateTypes, DrawnItself
  <2> QED
    BY <1>2, <2>1, <2>2, <2>3, <2>4, Registering
<1> QED
  BY <1>3, <1>4

\* Dropping the sinks keeps everybody who waits.
LEMMA SinksDropped ==
    ASSUME CivTypeOK
    PROVE  /\ WithoutSinks(ackWaiters) \in Seq(AckWaiter)
           /\ Drawn(WithoutSinks(ackWaiters), ackWaiters)
           /\ \A k \in DOMAIN WithoutSinks(ackWaiters) : ~WithoutSinks(ackWaiters)[k].sink
           /\ \A i \in DOMAIN ackWaiters :
                ~ackWaiters[i].sink => Keeps(WithoutSinks(ackWaiters), ackWaiters[i])
<1> DEFINE I == {i \in DOMAIN ackWaiters : ~ackWaiters[i].sink}
<1>1. WithoutSinks(ackWaiters) = Part(ackWaiters, I) /\ I \in SUBSET DOMAIN ackWaiters
  BY DEF WithoutSinks
<1>2. /\ \A i \in DOMAIN ackWaiters : ~ackWaiters[i].sink => i \in I
      /\ \A i \in I : ~ackWaiters[i].sink
  OBVIOUS
<1> HIDE DEF I
<1>3. ackWaiters \in Seq(AckWaiter)
  BY StateTypes
<1>4. \A k \in DOMAIN Part(ackWaiters, I) : \E i \in I : Part(ackWaiters, I)[k] = ackWaiters[i]
  BY <1>1, <1>3, PartKeeps
<1>5. \A k \in DOMAIN Part(ackWaiters, I) : ~Part(ackWaiters, I)[k].sink
  BY <1>2, <1>4
<1> QED
  BY <1>1, <1>2, <1>3, <1>5, PartDraws

\* The drain ends when the sinks are answered,
LEMMA EndingDrain == ASSUME CivIInv, NEW c \in Commands, EndDrain(c) PROVE CivIInv'
<1>1. CivTypeOK
  BY DEF CivIInv
<1>2. /\ status[c] = "draining" /\ Goes(c, "pacing")
      /\ AwaitAck(c, WithoutSinks(ackWaiters)) /\ AwaitData(c)
      /\ UNCHANGED <<generation, wire, unsolicited, stray, overlap, alone>>
  BY DEF EndDrain
<1>3. overlap' \in SUBSET Overlaps /\ alone' \in Commands \cup {NoCmd}
  BY <1>1, <1>2, StateTypes
<1>4. c \in Running
  BY <1>2 DEF Running, Active
<1>5. ~stray /\ overlap' = {} => overlap = {} /\ Running \subseteq {c}
  BY <1>2, <1>4 DEF CivIInv, Aligned
<1> QED
  BY <1>1, <1>2, <1>3, <1>5, SinksDropped, Registering

\* or when it has lasted too long, and drops them.
LEMMA DrainingTooLate == ASSUME CivIInv, NEW c \in Commands, DrainTooLate(c) PROVE CivIInv'
<1>1. CivTypeOK
  BY DEF CivIInv
<1>2. /\ status[c] = "draining" /\ Goes(c, "gone") /\ ackWaiters' = WithoutSinks(ackWaiters)
      /\ backlog' = IF IsRaw(c) THEN << >> ELSE backlog
      /\ UNCHANGED <<responseWaiters, ackFut, respFut, generation, wire, unsolicited, stray, overlap, alone>>
  BY DEF DrainTooLate
<1>3. /\ status' = [status EXCEPT ![c] = "gone"] /\ "gone" \in Statuses /\ "gone" \notin Active
  BY <1>2 DEF Goes, Statuses, Outcomes, Active
<1>4. /\ \A k \in DOMAIN backlog : backlog[k].gen = generation
      /\ Len(backlog) <= BacklogSize
      /\ ~stray /\ overlap = {} => backlog = << >>
  BY DEF CivIInv, CurrentGeneration, Aligned
<1>5. /\ backlog' \in Seq(Orphan) /\ Len(backlog') <= BacklogSize
      /\ \A k \in DOMAIN backlog' : backlog'[k].gen = generation
      /\ ~stray /\ overlap = {} => backlog' = << >>
  <2>1. CASE backlog' = backlog
    BY <1>1, <1>4, <2>1, StateTypes
  <2>2. CASE backlog' = << >>
    <3>1. << >> \in Seq(Orphan) /\ Len(<< >>) = 0 /\ DOMAIN << >> = {}
      BY EmptySeq
    <3> QED
      BY <2>2, <3>1, BacklogAssumption
  <2> QED
    BY <1>2, <2>1, <2>2
<1>6. CivTypeOK'
  <2>1. status' \in [Commands -> Statuses]
    BY <1>1, <1>3, StateTypes
  <2>2. ackWaiters' \in Seq(AckWaiter)
    BY <1>1, <1>2, SinksDropped
  <2> QED
    BY <1>1, <1>2, <1>5, <2>1, <2>2, StateTypes DEF CivTypeOK, TrackerTypeOK
<1>7. \A d \in Commands :
            /\ status'[d] \in Active => status[d] \in Active
            /\ status'[d] \in {"idle", "draining"} => status'[d] = status[d]
  BY <1>1, <1>3, StateTypes
<1>8. /\ \A i \in DOMAIN ackWaiters :
            ~ackWaiters[i].sink => status'[ackWaiters[i].cmd] \in Active
      /\ \A i \in DOMAIN responseWaiters : status'[responseWaiters[i].cmd] \in Active
  <2>1. /\ \A i \in DOMAIN ackWaiters :
              ~ackWaiters[i].sink => /\ status[ackWaiters[i].cmd] \in Active
                                     /\ ackWaiters[i].cmd # c
        /\ \A i \in DOMAIN responseWaiters : /\ status[responseWaiters[i].cmd] \in Active
                                             /\ responseWaiters[i].cmd # c
    BY <1>2 DEF CivIInv, WaitersAgree, WaitersFit
  <2> QED
    BY <1>1, <1>3, <2>1, CivTypes, StateTypes
<1>9. /\ Drawn(ackWaiters', ackWaiters)
      /\ \A i \in DOMAIN ackWaiters : ~ackWaiters[i].sink => Keeps(ackWaiters', ackWaiters[i])
  BY <1>1, <1>2, SinksDropped
<1>10. /\ Drawn(responseWaiters', responseWaiters)
       /\ \A i \in DOMAIN responseWaiters : Keeps(responseWaiters', responseWaiters[i])
  BY <1>1, <1>2, StateTypes, DrawnItself
<1> QED
  BY <1>2, <1>5, <1>6, <1>7, <1>8, <1>9, <1>10, NobodyRegisters

-----------------------------------------------------------------------------
(* The receive pump and the session.                                       *)

\* A waiter of an active command is one of an active command afterwards, when
\* no command moves.
LEMMA NobodyMoves ==
    ASSUME CivIInv, CivTypeOK', UNCHANGED <<status, overlap, alone>>,
           Drawn(ackWaiters', ackWaiters), Drawn(responseWaiters', responseWaiters),
           generation' = generation \/ (ackWaiters' = << >> /\ responseWaiters' = << >>),
           \A k \in DOMAIN backlog' : backlog'[k].gen = generation',
           Len(backlog') <= BacklogSize, stray => stray',
           ~stray' /\ overlap = {} =>
                /\ backlog' = << >>
                /\ \A c \in Commands : ackFut'[c].state = "done" =>
                        ackFut'[c].of = c \/ ackFut'[c] = ackFut[c],
           \A c \in Commands :
                /\ ackFut'[c].state = "pending" => ackFut[c].state = "pending"
                /\ respFut'[c].state = "pending" => respFut[c].state = "pending",
           \A i \in DOMAIN ackWaiters :
                ~ackWaiters[i].sink /\ ackFut'[ackWaiters[i].cmd].state = "pending"
                  => Keeps(ackWaiters', ackWaiters[i]),
           \A i \in DOMAIN responseWaiters :
                respFut'[responseWaiters[i].cmd].state = "pending"
                  => Keeps(responseWaiters', responseWaiters[i])
    PROVE  CivIInv'
<1>1. /\ \A i \in DOMAIN ackWaiters :
            ackWaiters[i].sink \/ status'[ackWaiters[i].cmd] \in Active
      /\ \A i \in DOMAIN responseWaiters : status'[responseWaiters[i].cmd] \in Active
  BY DEF CivIInv, WaitersAgree
<1>2. \A c \in Commands : /\ status'[c] \in Active => status[c] \in Active
                          /\ status'[c] \in {"idle", "draining"} => status'[c] = status[c]
  OBVIOUS
<1> QED
  BY <1>1, <1>2, NobodyRegisters

\* The backlog of a state, as the lemmas above ask for it.
LEMMA BacklogFits ==
    ASSUME CivIInv
    PROVE  /\ \A k \in DOMAIN backlog : backlog[k].gen = generation
           /\ Len(backlog) <= BacklogSize
           /\ ~stray /\ overlap = {} => backlog = << >>
BY DEF CivIInv, CurrentGeneration, Aligned

\* A frame lost on its way changes nothing of the tracker.
LEMMA Losing == ASSUME CivIInv, Lose PROVE CivIInv'
<1>1. CivTypeOK
  BY DEF CivIInv
<1>2. /\ wire # << >> /\ wire' = Tail(wire)
      /\ UNCHANGED <<ackWaiters, responseWaiters, backlog, generation, ackFut, respFut, status,
                     unsolicited, stray, overlap, alone>>
  BY DEF Lose, trackerVars
<1>3. wire' \in Seq(Commands)
  BY <1>1, <1>2, StateTypes
<1>4. CivTypeOK'
  BY <1>1, <1>2, <1>3, StateTypes DEF CivTypeOK, TrackerTypeOK
<1>5. /\ Drawn(ackWaiters', ackWaiters) /\ Drawn(responseWaiters', responseWaiters)
      /\ \A i \in DOMAIN ackWaiters : Keeps(ackWaiters', ackWaiters[i])
      /\ \A i \in DOMAIN responseWaiters : Keeps(responseWaiters', responseWaiters[i])
  BY <1>1, <1>2, StateTypes, DrawnItself
<1> QED
  BY <1>2, <1>4, <1>5, BacklogFits, NobodyMoves

\* A data response arrives, awaited or not.
LEMMA Responding ==
    ASSUME CivIInv, NEW origin \in Origins, NEW key,
           ResolveResponse([type |-> "response", of |-> origin, key |-> key]),
           wire' \in Seq(Commands), unsolicited' \in 0..MaxUnsolicited,
           UNCHANGED <<status, stray, overlap, alone>>
    PROVE  CivIInv'
<1>1. CivTypeOK /\ CurrentGeneration
  BY DEF CivIInv
<1>2. /\ responseWaiters' \in Seq(ResponseWaiter) /\ Drawn(responseWaiters', responseWaiters)
      /\ respFut' \in [Commands -> Futures]
      /\ \A c \in Commands : respFut'[c].state = "pending" => respFut[c].state = "pending"
      /\ \A i \in DOMAIN responseWaiters :
             respFut'[responseWaiters[i].cmd].state = "pending"
                 => Keeps(responseWaiters', responseWaiters[i])
      /\ UNCHANGED <<ackWaiters, ackFut, backlog, generation>>
  BY <1>1, ResponseResolves
<1>3. CivTypeOK'
  BY <1>1, <1>2, StateTypes DEF CivTypeOK, TrackerTypeOK
<1>4. Drawn(ackWaiters', ackWaiters) /\ \A i \in DOMAIN ackWaiters : Keeps(ackWaiters', ackWaiters[i])
  BY <1>1, <1>2, StateTypes, DrawnItself
<1> QED
  BY <1>2, <1>3, <1>4, BacklogFits, NobodyMoves

\* An answer with data goes to the oldest waiter of its key.
LEMMA DeliveringResponse == ASSUME CivIInv, DeliverResponse PROVE CivIInv'
<1> DEFINE c == Head(wire)
<1>1. CivTypeOK
  BY DEF CivIInv
<1>2. /\ wire # << >> /\ wire' = Tail(wire)
      /\ ResolveResponse([type |-> "response", of |-> c, key |-> reqKey[c]])
      /\ UNCHANGED <<status, unsolicited, stray, overlap, alone>>
  BY DEF DeliverResponse
<1>3. wire \in Seq(Commands) /\ unsolicited \in 0..MaxUnsolicited
  BY <1>1, StateTypes
<1>4. c \in Commands /\ wire' \in Seq(Commands)
  BY <1>2, <1>3
<1>5. c \in Origins
  BY <1>4 DEF Origins
<1> HIDE DEF c
<1> QED
  BY <1>2, <1>3, <1>4, <1>5, Responding

\* What the radio sends of its own accord answers nobody.
LEMMA ArrivingUnsolicited ==
    ASSUME CivIInv, NEW k, Unsolicited(k) PROVE CivIInv'
<1>1. /\ unsolicited < MaxUnsolicited /\ unsolicited' = unsolicited + 1
      /\ ResolveResponse([type |-> "response", of |-> NoCmd, key |-> k])
      /\ UNCHANGED <<status, wire, stray, overlap, alone>>
  BY DEF Unsolicited
<1>2. wire \in Seq(Commands) /\ unsolicited \in 0..MaxUnsolicited
  BY StateTypes DEF CivIInv
<1>3. wire' \in Seq(Commands) /\ unsolicited' \in 0..MaxUnsolicited /\ NoCmd \in Origins
  BY <1>1, <1>2, BoundsAssumption DEF Origins
<1> QED
  BY <1>1, <1>3, Responding

\* Everything fails at once; the session may change.
LEMMA FailingAll ==
    ASSUME CivIInv, FailAll, generation' \in Nat, wire' \in Seq(Commands),
           UNCHANGED <<status, unsolicited, stray, overlap, alone>>
    PROVE  CivIInv'
<1>1. CivTypeOK
  BY DEF CivIInv
<1>2. /\ ackFut' = Failed(ackFut, CmdsOf(ackWaiters))
      /\ respFut' = Failed(respFut, CmdsOf(responseWaiters))
      /\ ackWaiters' = << >> /\ responseWaiters' = << >> /\ backlog' = << >>
  BY DEF FailAll
<1>3. /\ ackFut \in [Commands -> Futures] /\ respFut \in [Commands -> Futures]
      /\ \A i \in DOMAIN ackWaiters : ackWaiters[i].cmd \in Commands
      /\ \A i \in DOMAIN responseWaiters : responseWaiters[i].cmd \in Commands
  BY <1>1, StateTypes, CivTypes
<1>4. /\ ackFut' \in [Commands -> Futures] /\ respFut' \in [Commands -> Futures]
      /\ \A c \in Commands :
            /\ ackFut'[c].state = "pending" => ackFut[c].state = "pending"
            /\ respFut'[c].state = "pending" => respFut[c].state = "pending"
            /\ ackFut'[c].state = "done" => ackFut'[c] = ackFut[c]
      /\ \A i \in DOMAIN ackWaiters : ackFut'[ackWaiters[i].cmd].state # "pending"
      /\ \A i \in DOMAIN responseWaiters : respFut'[responseWaiters[i].cmd].state # "pending"
  BY <1>2, <1>3, FailedTypes DEF CmdsOf
<1>5. /\ << >> \in Seq(AckWaiter) /\ << >> \in Seq(ResponseWaiter) /\ << >> \in Seq(Orphan)
      /\ Len(<< >>) = 0 /\ DOMAIN << >> = {}
  BY EmptySeq
<1>6. CivTypeOK'
  BY <1>1, <1>2, <1>4, <1>5, StateTypes DEF CivTypeOK, TrackerTypeOK
<1>7. Drawn(ackWaiters', ackWaiters) /\ Drawn(responseWaiters', responseWaiters)
  BY <1>2, <1>5 DEF Drawn
<1> QED
  BY <1>2, <1>4, <1>5, <1>6, <1>7, BacklogAssumption, NobodyMoves

\* advance_generation() and the end of the pump fail every waiter.
LEMMA ChangingSession == ASSUME CivIInv, AdvanceGeneration \/ StopPump PROVE CivIInv'
<1>1. generation \in Nat /\ wire \in Seq(Commands)
  BY StateTypes DEF CivIInv
<1>2. CASE AdvanceGeneration
  <2>1. /\ FailAll /\ generation' = generation + 1
        /\ UNCHANGED <<status, wire, unsolicited, stray, overlap, alone>>
    BY <1>2 DEF AdvanceGeneration
  <2> QED
    BY <1>1, <2>1, FailingAll
<1>3. CASE StopPump
  <2>1. /\ FailAll /\ wire' = << >> /\ << >> \in Seq(Commands)
        /\ UNCHANGED <<generation, status, unsolicited, stray, overlap, alone>>
    BY <1>3, EmptySeq DEF StopPump
  <2> QED
    BY <1>1, <2>1, FailingAll
<1> QED
  BY <1>2, <1>3

\* The collection of stale sinks.
LEMMA Collecting == ASSUME CivIInv, CollectStale PROVE CivIInv'
<1>1. CivTypeOK
  BY DEF CivIInv
<1>2. CleanupStale /\ UNCHANGED <<status, wire, unsolicited, stray, overlap, alone>>
  BY DEF CollectStale
<1>3. PICK a \in 1..Len(ackWaiters) + 1, r \in 1..Len(responseWaiters) + 1 :
        /\ ackWaiters' = Part(ackWaiters, a..Len(ackWaiters))
        /\ responseWaiters' = Part(responseWaiters, r..Len(responseWaiters))
        /\ ackFut' = Failed(ackFut, {ackWaiters[i].cmd : i \in 1..(a - 1)})
        /\ respFut' = Failed(respFut, {responseWaiters[i].cmd : i \in 1..(r - 1)})
        /\ UNCHANGED <<backlog, generation>>
  BY <1>2 DEF CleanupStale
<1>4. /\ ackWaiters \in Seq(AckWaiter) /\ responseWaiters \in Seq(ResponseWaiter)
      /\ ackFut \in [Commands -> Futures] /\ respFut \in [Commands -> Futures]
  BY <1>1, StateTypes
<1> DEFINE oldA == {ackWaiters[i].cmd : i \in 1..(a - 1)}
           oldR == {responseWaiters[i].cmd : i \in 1..(r - 1)}
           I == a..Len(ackWaiters)
           J == r..Len(responseWaiters)
<1>5. /\ I \in SUBSET DOMAIN ackWaiters /\ J \in SUBSET DOMAIN responseWaiters
      /\ \A i \in DOMAIN ackWaiters : i \in I \/ ackWaiters[i].cmd \in oldA
      /\ \A i \in DOMAIN responseWaiters : i \in J \/ responseWaiters[i].cmd \in oldR
  BY <1>4
<1> HIDE DEF oldA, oldR, I, J
<1>6. /\ ackFut' = Failed(ackFut, oldA) /\ respFut' = Failed(respFut, oldR)
      /\ ackWaiters' = Part(ackWaiters, I) /\ responseWaiters' = Part(responseWaiters, J)
  BY <1>3 DEF oldA, oldR, I, J
<1>7. /\ ackFut' \in [Commands -> Futures] /\ respFut' \in [Commands -> Futures]
      /\ \A c \in Commands :
            /\ ackFut'[c].state = "pending" => ackFut[c].state = "pending" /\ c \notin oldA
            /\ respFut'[c].state = "pending" => respFut[c].state = "pending" /\ c \notin oldR
            /\ ackFut'[c].state = "done" => ackFut'[c] = ackFut[c]
  BY <1>4, <1>6, FailedTypes
<1>8. /\ ackWaiters' \in Seq(AckWaiter) /\ Drawn(ackWaiters', ackWaiters)
      /\ responseWaiters' \in Seq(ResponseWaiter) /\ Drawn(responseWaiters', responseWaiters)
      /\ \A i \in I : Keeps(ackWaiters', ackWaiters[i])
      /\ \A i \in J : Keeps(responseWaiters', responseWaiters[i])
  BY <1>4, <1>5, <1>6, PartDraws
<1>9. CivTypeOK'
  BY <1>1, <1>2, <1>3, <1>7, <1>8, StateTypes DEF CivTypeOK, TrackerTypeOK
<1>10. /\ \A i \in DOMAIN ackWaiters :
            ~ackWaiters[i].sink /\ ackFut'[ackWaiters[i].cmd].state = "pending"
              => Keeps(ackWaiters', ackWaiters[i])
       /\ \A i \in DOMAIN responseWaiters :
            respFut'[responseWaiters[i].cmd].state = "pending"
              => Keeps(responseWaiters', responseWaiters[i])
  BY <1>1, <1>5, <1>7, <1>8, CivTypes
<1> QED
  BY <1>2, <1>3, <1>7, <1>8, <1>9, <1>10, BacklogFits, NobodyMoves

\* An ACK or NAK goes to the oldest waiter it can be for, or to the backlog.
LEMMA DeliveringAck ==
    ASSUME CivIInv, NEW type \in AckTypes, DeliverAck(type) PROVE CivIInv'
<1> DEFINE c == Head(wire)
           frame == [type |-> type, of |-> c]
<1>1. CivTypeOK /\ CurrentGeneration
  BY DEF CivIInv
<1>2. /\ wire # << >> /\ wire' = Tail(wire) /\ (type = "nak" \/ IsWrite(c))
      /\ stray' = (stray \/ ~Expected(c)) /\ ResolveAck(frame)
      /\ UNCHANGED <<status, unsolicited, overlap, alone>>
  BY DEF DeliverAck
<1>3. wire \in Seq(Commands)
  BY <1>1, StateTypes
<1>4. c \in Commands /\ wire' \in Seq(Commands)
  BY <1>2, <1>3
<1>5. frame.type = type /\ frame.of = c
  OBVIOUS
<1> HIDE DEF c
<1>6. /\ ackWaiters' \in Seq(AckWaiter) /\ Drawn(ackWaiters', ackWaiters)
      /\ backlog' \in Seq(Orphan) /\ Len(backlog') <= BacklogSize
      /\ \A k \in DOMAIN backlog' : backlog'[k].gen = generation
      /\ ackFut' \in [Commands -> Futures]
      /\ \/ Takers(frame) = {} /\ ackFut' = ackFut
         \/ /\ Drawn(backlog', backlog)
            /\ \E i \in Takers(frame) :
                   ackFut' = IF ackWaiters[i].sink THEN ackFut
                             ELSE [ackFut EXCEPT ![ackWaiters[i].cmd] = Holding(frame)]
      /\ \A i \in DOMAIN ackWaiters :
             ~ackWaiters[i].sink /\ ackFut'[ackWaiters[i].cmd].state = "pending"
                 => Keeps(ackWaiters', ackWaiters[i])
      /\ UNCHANGED <<responseWaiters, respFut, generation>>
  BY <1>1, <1>2, <1>4, AckResolves
<1>7. Holding(frame).state = "done" /\ Holding(frame).of = c
  BY DEF Holding
<1> HIDE DEF frame
<1>8. stray' \in BOOLEAN /\ (stray => stray') /\ (~stray' => ~stray /\ Expected(c))
  BY <1>1, <1>2, Zenon
<1>9. CivTypeOK'
  BY <1>1, <1>2, <1>4, <1>6, <1>8, StateTypes DEF CivTypeOK, TrackerTypeOK
<1>10. \A d \in Commands :
            /\ ackFut'[d].state = "pending" => ackFut[d].state = "pending"
  BY <1>1, <1>6, <1>7, CivTypes, StateTypes DEF Takers
<1>11. ASSUME ~stray', overlap = {}
       PROVE  /\ backlog' = << >>
              /\ \A d \in Commands : ackFut'[d].state = "done" =>
                        ackFut'[d].of = d \/ ackFut'[d] = ackFut[d]
  <2>1. /\ backlog = << >>
        /\ \A i, j \in DOMAIN ackWaiters :
              ~ackWaiters[i].sink =>
                  ~ackWaiters[j].sink /\ ackWaiters[j].cmd = ackWaiters[i].cmd
    BY <1>8, <1>11 DEF CivIInv, Aligned
  <2>2. PICK e \in DOMAIN ackWaiters :
            ackWaiters[e].cmd = c /\ (ackWaiters[e].sink \/ ackFut[c].state = "pending")
    BY <1>8, <1>11 DEF Expected
  <2>3. e \in Takers(frame)
    <3>1. ackWaiters[e].nakOnly => type = "nak"
      BY <1>2, <2>2 DEF CivIInv, WaitersFit
    <3>2. ackWaiters[e].gen = generation
      BY <1>1 DEF CurrentGeneration
    <3> QED
      BY <1>5, <2>2, <3>1, <3>2 DEF Takers, Takes, frame
  <2>4. PICK i \in Takers(frame) :
            ackFut' = IF ackWaiters[i].sink THEN ackFut
                      ELSE [ackFut EXCEPT ![ackWaiters[i].cmd] = Holding(frame)]
    BY <1>6, <2>3
  <2>5. backlog' = << >>
    <3>1. Drawn(backlog', backlog)
      BY <1>6, <2>3
    <3>2. DOMAIN backlog' = {}
      BY <2>1, <3>1 DEF Drawn
    <3> QED
      BY <1>6, <3>2
  <2>6. ~ackWaiters[i].sink => ackWaiters[i].cmd = c
    BY <2>1, <2>2, <2>4 DEF Takers
  <2>7. \A d \in Commands : ackFut'[d].state = "done" =>
                ackFut'[d].of = d \/ ackFut'[d] = ackFut[d]
    BY <1>1, <1>4, <1>7, <2>4, <2>6, StateTypes
  <2> QED
    BY <2>5, <2>7
<1>12. /\ Drawn(responseWaiters', responseWaiters)
       /\ \A i \in DOMAIN responseWaiters : Keeps(responseWaiters', responseWaiters[i])
  BY <1>1, <1>6, StateTypes, DrawnItself
<1> QED
  BY <1>2, <1>6, <1>8, <1>9, <1>10, <1>11, <1>12, NobodyMoves

-----------------------------------------------------------------------------
(* The theorems.                                                           *)

\* A step of others.
LEMMA CivStuttering == ASSUME CivIInv, UNCHANGED civVars PROVE CivIInv'
BY DEF civVars, trackerVars, CivIInv, CivTypeOK, TrackerTypeOK, CurrentGeneration, WaitersAgree,
       WaitersFit, Aligned, Running, AwaitsAck, AwaitsData, IsWrite, IsRaw

\* The invariant is inductive.
LEMMA CivStep == CivIInv /\ [CivNext]_civVars => CivIInv'
<1> SUFFICES ASSUME CivIInv, [CivNext]_civVars PROVE CivIInv'
  OBVIOUS
<1>1. CASE UNCHANGED civVars
  BY <1>1, CivStuttering
<1>2. ASSUME NEW c \in Commands, Execute(c) PROVE CivIInv'
  <2>1. CASE BeginFire(c)
    BY <2>1, BeginningFire
  <2>2. CASE BeginBlocking(c)
    BY <2>2, BeginningBlocking
  <2>3. CASE EndDrain(c)
    BY <2>3, EndingDrain
  <2>4. CASE DrainTooLate(c)
    BY <2>4, DrainingTooLate
  <2>5. CASE Transmit(c)
    BY <2>5, Transmitting
  <2>6. CASE TransmitFails(c)
    BY <2>6, FailingToTransmit
  <2>7. CASE Finish(c) \/ GiveUp(c) \/ Unwind(c)
    BY <2>7, FinishingOrGivingUp
  <2> QED
    BY <1>2, <2>1, <2>2, <2>3, <2>4, <2>5, <2>6, <2>7 DEF Execute
<1>3. CASE \E type \in AckTypes : DeliverAck(type)
  BY <1>3, DeliveringAck
<1>4. CASE DeliverResponse
  BY <1>4, DeliveringResponse
<1>5. CASE Lose
  BY <1>5, Losing
<1>6. CASE \E c \in Commands : Unsolicited(reqKey[c])
  BY <1>6, ArrivingUnsolicited
<1>7. CASE CollectStale
  BY <1>7, Collecting
<1>8. CASE AdvanceGeneration \/ StopPump
  BY <1>8, ChangingSession
<1> QED
  BY <1>1, <1>2, <1>3, <1>4, <1>5, <1>6, <1>7, <1>8 DEF CivNext

\* The inductive invariant of the tracker and the execution of commands holds
\* of every behaviour.
THEOREM CivInvariance == CivSpec => []CivIInv
BY CivInitially, CivStep, PTL DEF CivSpec

\* The tracker and the commands have their types, for any commands, kinds, keys,
\* backlog and bounds.
THEOREM CivTypeCorrect == CivSpec => []CivTypeOK
<1>1. CivIInv => CivTypeOK
  BY DEF CivIInv
<1> QED
  BY <1>1, CivInvariance, PTL

\* Nothing survives a change of generation, and the backlog is bounded
\* (advance_generation, _prune_ack_backlog, resolve).
THEOREM NothingOutlivesItsSession == CivSpec => []CurrentGeneration
<1>1. CivIInv => CurrentGeneration
  BY DEF CivIInv
<1> QED
  BY <1>1, CivInvariance, PTL

\* A command that has ended has left no waiter behind, and a future that is
\* pending can be settled (unregister on every way out of _execute_civ_raw and
\* execute_civ_transaction).
THEOREM NoWaiterLeaks == CivSpec => []WaitersAgree
<1>1. CivIInv => WaitersAgree
  BY DEF CivIInv
<1> QED
  BY <1>1, CivInvariance, PTL

\* While every ACK and NAK finds its command's waiter registered and nothing
\* overlaps, a command is answered with the verdict on itself: sinks, drains,
\* losses, collections and changes of session keep answers and waiters aligned.
THEOREM AlignedAnswersAreOwn == CivSpec => []AnswerIsOwn
<1>1. CivIInv => AnswerIsOwn
  BY DEF CivIInv, Aligned, AnswerIsOwn
<1> QED
  BY <1>1, CivInvariance, PTL

-----------------------------------------------------------------------------
(* A command that is alone (VerdictArrives).  While it runs, the radio can *)
(* answer nobody else, and no sink is left before its waiter.              *)

AloneInv ==
    \A c \in Commands : alone = c /\ status[c] \in Active =>
        /\ \A d \in Running : d = c
        /\ \A i \in DOMAIN wire : wire[i] = c
        /\ status[c] \in {"draining", "pacing"} => wire = << >>
        /\ status[c] = "draining" /\ ~IsRaw(c) => backlog = << >>
        /\ ackFut[c].state = "pending" => \A i \in DOMAIN ackWaiters : ~ackWaiters[i].sink

\* A step that begins and registers nothing, and puts nothing on the wire.
LEMMA AloneKept ==
    ASSUME AloneInv, CivTypeOK, CivTypeOK', alone' = alone,
           Drawn(ackWaiters', ackWaiters), Drawn(wire', wire),
           wire = << >> /\ backlog = << >> => backlog' = << >>,
           \A c \in Commands :
                /\ ackFut'[c].state = "pending" => ackFut[c].state = "pending"
                /\ status'[c] \in Active => status[c] \in Active
                /\ status'[c] \in {"draining", "pacing"} => status'[c] = status[c]
    PROVE  AloneInv'
<1> SUFFICES ASSUME NEW c \in Commands, alone = c, status'[c] \in Active
             PROVE  /\ \A d \in Running' : d = c
                    /\ \A i \in DOMAIN wire' : wire'[i] = c
                    /\ status'[c] \in {"draining", "pacing"} => wire' = << >>
                    /\ status'[c] = "draining" /\ ~IsRaw(c) => backlog' = << >>
                    /\ ackFut'[c].state = "pending" =>
                            \A i \in DOMAIN ackWaiters' : ~ackWaiters'[i].sink
  BY DEF AloneInv, IsRaw
<1>1. /\ \A d \in Running : d = c
      /\ \A i \in DOMAIN wire : wire[i] = c
      /\ status[c] \in {"draining", "pacing"} => wire = << >>
      /\ status[c] = "draining" /\ ~IsRaw(c) => backlog = << >>
      /\ ackFut[c].state = "pending" => \A i \in DOMAIN ackWaiters : ~ackWaiters[i].sink
  BY DEF AloneInv
<1>2. \A d \in Running' : d = c
  BY <1>1 DEF Running
<1>3. \A i \in DOMAIN wire' : wire'[i] = c
  BY <1>1 DEF Drawn
<1>4. ASSUME status'[c] \in {"draining", "pacing"} PROVE wire' = << >>
  <2>1. wire = << >>
    BY <1>1, <1>4
  <2>2. DOMAIN wire' = {}
    <3>1. \A k \in DOMAIN wire' : \E i \in DOMAIN wire : wire'[k] = wire[i]
      BY DEF Drawn
    <3>2. DOMAIN wire = {}
      BY <2>1
    <3> QED
      BY <3>1, <3>2
  <2>3. wire' \in Seq(Commands)
    BY DEF CivTypeOK
  <2> QED
    BY <2>2, <2>3
<1>5. status'[c] = "draining" /\ ~IsRaw(c) => backlog' = << >>
  BY <1>1
<1>6. ackFut'[c].state = "pending" => \A i \in DOMAIN ackWaiters' : ~ackWaiters'[i].sink
  BY <1>1 DEF Drawn
<1> QED
  BY <1>2, <1>3, <1>4, <1>5, <1>6

\* A list loses its head.
LEMMA TailDraws ==
    ASSUME CivTypeOK, wire # << >>
    PROVE  Drawn(Tail(wire), wire) /\ Head(wire) \in Commands /\ \E i \in DOMAIN wire : wire[i] = Head(wire)
<1>1. wire \in Seq(Commands)
  BY StateTypes
<1> QED
  BY <1>1 DEF Drawn

\* A registration that may not, or cannot, be answered from the backlog waits.
LEMMA RegistersToWait ==
    ASSUME NEW c \in Commands, NEW waiters \in Seq(AckWaiter), NEW entries \in Seq(Orphan),
           NEW consume, NEW nakOnly,
           RegisterAck(waiters, entries, c, consume, nakOnly),
           ~consume \/ entries = << >>
    PROVE  /\ ackFut' = [ackFut EXCEPT ![c] = Future("pending")]
           /\ \E n : ackWaiters' = Append(waiters,
                      [cmd |-> c, sink |-> FALSE, nakOnly |-> n, gen |-> generation])
<1>1. \/ /\ consume /\ entries # << >>
         /\ \E e \in Orphan : ackFut' = [ackFut EXCEPT ![c] = Holding(e)]
         /\ ackWaiters' = waiters
      \/ /\ ackFut' = [ackFut EXCEPT ![c] = Future("pending")]
         /\ ackWaiters' = Append(waiters,
              [cmd |-> c, sink |-> FALSE, nakOnly |-> nakOnly, gen |-> generation])
  BY Registers, ZenonT(60)
<1> QED
  BY <1>1, Zenon

\* What a registration leaves: no sink if there was none, and, of a transaction
\* or when nothing was cached, a future that no answer has settled.
LEMMA FreshlyRegistered ==
    ASSUME CivTypeOK, NEW c \in Commands, NEW waiters \in Seq(AckWaiter),
           \A i \in DOMAIN waiters : ~waiters[i].sink,
           IsRaw(c) \/ backlog = << >>,
           AwaitAck(c, waiters)
    PROVE  /\ \A i \in DOMAIN ackWaiters' : ~ackWaiters'[i].sink
           /\ \/ ackFut' = ackFut
              \/ ackFut' = [ackFut EXCEPT ![c] = Future("pending")]
<1>1. backlog \in Seq(Orphan)
  BY StateTypes
<1>2. CASE ~AwaitsAck(c)
  BY <1>2, Zenon DEF AwaitAck
<1>3. ASSUME AwaitsAck(c)
      PROVE  /\ ackFut' = [ackFut EXCEPT ![c] = Future("pending")]
             /\ \E n : ackWaiters' = Append(waiters,
                        [cmd |-> c, sink |-> FALSE, nakOnly |-> n, gen |-> generation])
  <2>1. CASE IsRaw(c)
    <3>1. RegisterAck(waiters, << >>, c, FALSE, kind[c] = "raw data") /\ << >> \in Seq(Orphan)
      BY <1>3, <2>1, EmptySeq, Zenon DEF AwaitAck
    <3> QED
      BY <3>1, RegistersToWait, Zenon
  <2>2. CASE ~IsRaw(c)
    <3>1. RegisterAck(waiters, backlog, c, TRUE, FALSE) /\ backlog = << >>
      BY <1>3, <2>2, Zenon DEF AwaitAck
    <3> QED
      BY <1>1, <3>1, RegistersToWait, Zenon
  <2> QED
    BY <2>1, <2>2
<1>4. CASE AwaitsAck(c)
  <2>1. PICK nakOnly : /\ ackFut' = [ackFut EXCEPT ![c] = Future("pending")]
                       /\ ackWaiters' = Append(waiters, [cmd |-> c, sink |-> FALSE,
                                              nakOnly |-> nakOnly, gen |-> generation])
    BY <1>3, <1>4, Zenon
  <2> DEFINE w == [cmd |-> c, sink |-> FALSE, nakOnly |-> nakOnly, gen |-> generation]
  <2>2. ackWaiters' = Append(waiters, w) /\ ~w.sink
    BY <2>1
  <2> HIDE DEF w
  <2>3. /\ DOMAIN ackWaiters' = 1..Len(waiters) + 1 /\ DOMAIN waiters = 1..Len(waiters)
        /\ Len(waiters) \in Nat
        /\ \A i \in 1..Len(waiters) : ackWaiters'[i] = waiters[i]
        /\ ackWaiters'[Len(waiters) + 1] = w
    BY <2>2
  <2>4. \A i \in DOMAIN ackWaiters' : ~ackWaiters'[i].sink
    BY <2>2, <2>3
  <2> QED
    BY <2>1, <2>4
<1> QED
  BY <1>2, <1>4

\* It concerns the command's own future only.
LEMMA RegistersItself ==
    ASSUME CivTypeOK, NEW c \in Commands, NEW waiters \in Seq(AckWaiter), AwaitAck(c, waiters)
    PROVE  \A d \in Commands : d # c => ackFut'[d] = ackFut[d]
<1>1. backlog \in Seq(Orphan) /\ << >> \in Seq(Orphan) /\ ackFut \in [Commands -> Futures]
  BY StateTypes, EmptySeq
<1>2. ackFut' = ackFut \/ \E f : ackFut' = [ackFut EXCEPT ![c] = f]
  <2>1. CASE ~AwaitsAck(c)
    BY <2>1, Zenon DEF AwaitAck
  <2>2. CASE AwaitsAck(c) /\ IsRaw(c)
    <3>1. RegisterAck(waiters, << >>, c, FALSE, kind[c] = "raw data")
      BY <2>2, Zenon DEF AwaitAck
    <3> QED
      BY <1>1, <3>1, Registers, ZenonT(60)
  <2>3. CASE AwaitsAck(c) /\ ~IsRaw(c)
    <3>1. RegisterAck(waiters, backlog, c, TRUE, FALSE)
      BY <2>3, Zenon DEF AwaitAck
    <3> QED
      BY <1>1, <3>1, Registers, ZenonT(60)
  <2> QED
    BY <2>1, <2>2, <2>3
<1> QED
  BY <1>1, <1>2

\* What a command that begins does to the one that is alone.
LEMMA AloneBegins ==
    ASSUME CivIInv, CivIInv', NEW c \in Commands, Begins(c), NEW s \in Active, Goes(c, s),
           s = "draining" => backlog' = backlog,
           Quiet(c) /\ ackFut'[c].state = "pending" => \A i \in DOMAIN ackWaiters' : ~ackWaiters'[i].sink
    PROVE  AloneInv'
<1> SUFFICES ASSUME NEW d \in Commands, alone' = d
             PROVE  /\ \A e \in Running' : e = d
                    /\ \A i \in DOMAIN wire' : wire'[i] = d
                    /\ wire' = << >>
                    /\ status'[d] = "draining" /\ ~IsRaw(d) => backlog' = << >>
                    /\ ackFut'[d].state = "pending" =>
                            \A i \in DOMAIN ackWaiters' : ~ackWaiters'[i].sink
  BY DEF AloneInv, IsRaw
<1>1. d = c /\ Quiet(c)
  BY CommandsAssumption DEF Begins
<1>2. wire' = << >> /\ DOMAIN wire' = {}
  BY <1>1 DEF Quiet, Begins
<1>3. status' = [status EXCEPT ![c] = s] /\ status \in [Commands -> Statuses]
  BY StateTypes DEF Goes, CivIInv
<1>4. \A e \in Running' : e = d
  BY <1>1, <1>3 DEF Quiet, Running
<1>5. status'[d] = "draining" /\ ~IsRaw(d) => backlog' = << >>
  BY <1>1, <1>3 DEF Quiet
<1> QED
  BY <1>1, <1>2, <1>4, <1>5

\* Execute, as far as it begins commands.
LEMMA AloneBeginnings ==
    ASSUME CivIInv, CivIInv', NEW c \in Commands, BeginFire(c) \/ BeginBlocking(c)
    PROVE  AloneInv' /\ (alone' = c => ackFut' = ackFut \/ ackFut' = [ackFut EXCEPT ![c] = Future("pending")])
                     /\ (alone' \in Commands => alone' = c)
<1>1. CivTypeOK /\ ackFut[c].state # "pending" /\ Begins(c)
  BY DEF CivIInv, WaitersFit, Begins, BeginFire, BeginBlocking
<1>2. /\ alone' \in Commands => alone' = c
      /\ alone' = c => Quiet(c)
  BY <1>1, CommandsAssumption DEF Begins
<1>3. {"draining", "pacing"} \subseteq Active
  BY DEF Active
<1>4. CASE BeginFire(c)
  <2>1. ackFut' = ackFut /\ Goes(c, "pacing")
    <3>1. CASE kind[c] = "fire set"
      <4>1. RegisterSink(c) /\ Goes(c, "pacing")
        BY <1>4, <3>1, Zenon DEF BeginFire
      <4> QED
        BY <4>1 DEF RegisterSink
    <3>2. CASE kind[c] # "fire set"
      BY <1>4, <3>2, Zenon DEF BeginFire
    <3> QED
      BY <3>1, <3>2
  <2> QED
    BY <1>1, <1>2, <1>3, <2>1, AloneBegins
<1>5. CASE BeginBlocking(c) /\ HasSinks
  <2>1. Goes(c, "draining") /\ UNCHANGED trackerVars
    BY <1>5, Zenon DEF BeginBlocking
  <2>2. ackFut' = ackFut /\ backlog' = backlog
    BY <2>1 DEF trackerVars
  <2> QED
    BY <1>1, <1>2, <1>3, <2>1, <2>2, AloneBegins
<1>6. CASE BeginBlocking(c) /\ ~HasSinks
  <2>1. Goes(c, "pacing") /\ AwaitAck(c, ackWaiters)
    BY <1>6, Zenon DEF BeginBlocking
  <2>2. \A i \in DOMAIN ackWaiters : ~ackWaiters[i].sink
    BY <1>6 DEF HasSinks
  <2>3. ackWaiters \in Seq(AckWaiter)
    BY <1>1, StateTypes
  <2>4. Quiet(c) => /\ \A i \in DOMAIN ackWaiters' : ~ackWaiters'[i].sink
                    /\ \/ ackFut' = ackFut
                       \/ ackFut' = [ackFut EXCEPT ![c] = Future("pending")]
    BY <1>1, <2>1, <2>2, <2>3, FreshlyRegistered DEF Quiet
  <2> QED
    BY <1>1, <1>2, <1>3, <2>1, <2>4, AloneBegins
<1> QED
  BY <1>4, <1>5, <1>6

\* The drain of a command that is alone ends.
LEMMA AloneDrained ==
    ASSUME CivIInv, CivIInv', AloneInv, NEW c \in Commands, EndDrain(c)
    PROVE  AloneInv' /\ \A d \in Commands : alone = d =>
                            \/ ackFut'[d] = ackFut[d]
                            \/ ackFut' = [ackFut EXCEPT ![d] = Future("pending")]
<1>1. /\ CivTypeOK /\ status[c] = "draining" /\ Goes(c, "pacing")
      /\ AwaitAck(c, WithoutSinks(ackWaiters)) /\ alone' = alone /\ wire' = wire
  BY DEF CivIInv, EndDrain
<1>2. /\ status \in [Commands -> Statuses] /\ ackFut \in [Commands -> Futures]
      /\ {"draining", "pacing"} \subseteq Active
  BY <1>1, StateTypes DEF Active
<1>3. /\ WithoutSinks(ackWaiters) \in Seq(AckWaiter)
      /\ \A k \in DOMAIN WithoutSinks(ackWaiters) : ~WithoutSinks(ackWaiters)[k].sink
  BY <1>1, SinksDropped
<1>4. status' = [status EXCEPT ![c] = "pacing"]
  BY <1>1 DEF Goes
<1>5. CASE alone = c
  <2>1. /\ \A d \in Running : d = c
        /\ wire = << >>
        /\ IsRaw(c) \/ backlog = << >>
    BY <1>1, <1>2, <1>5 DEF AloneInv
  <2>2. /\ \A i \in DOMAIN ackWaiters' : ~ackWaiters'[i].sink
        /\ \/ ackFut' = ackFut
           \/ ackFut' = [ackFut EXCEPT ![c] = Future("pending")]
    BY <1>1, <1>3, <2>1, FreshlyRegistered
  <2>3. \A d \in Running' : d = c
    BY <1>2, <1>4, <2>1 DEF Running
  <2>4. status'[c] = "pacing" /\ wire' = << >> /\ DOMAIN wire' = {}
    BY <1>1, <1>2, <1>4, <2>1
  <2> QED
    BY <1>1, <1>5, <2>2, <2>3, <2>4 DEF AloneInv
<1>6. CASE alone # c
  <2>1. \A d \in Commands : alone = d => status[d] \notin Active
    <3> SUFFICES ASSUME NEW d \in Commands, alone = d, status[d] \in Active PROVE FALSE
      OBVIOUS
    <3>1. c \in Running
      BY <1>1, <1>2 DEF Running
    <3> QED
      BY <1>6, <3>1 DEF AloneInv
  <2>2. \A d \in Commands : alone = d => status'[d] = status[d]
    BY <1>2, <1>4, <1>6
  <2>3. AloneInv'
    BY <1>1, <2>1, <2>2 DEF AloneInv
  <2>4. \A d \in Commands : d # c => ackFut'[d] = ackFut[d]
    BY <1>1, <1>2, <1>3, RegistersItself
  <2> QED
    BY <1>6, <2>3, <2>4
<1> QED
  BY <1>5, <1>6

\* A command that ends was alone, or nobody is.
LEMMA AloneEnds ==
    ASSUME CivTypeOK, AloneInv, NEW c \in Running, NEW s, s \notin Active, Goes(c, s), alone' = alone
    PROVE  AloneInv'
<1>1. /\ status \in [Commands -> Statuses] /\ status' = [status EXCEPT ![c] = s]
      /\ c \in Commands
  BY StateTypes DEF Goes, Running
<1>2. \A d \in Commands : alone = d => status'[d] \notin Active
  <2> SUFFICES ASSUME NEW d \in Commands, alone = d, status'[d] \in Active PROVE FALSE
    OBVIOUS
  <2>1. d # c /\ status[d] \in Active
    BY <1>1
  <2> QED
    BY <2>1 DEF AloneInv
<1> QED
  BY <1>2 DEF AloneInv

\* A command is transmitted.
LEMMA AloneTransmits ==
    ASSUME CivTypeOK, AloneInv, NEW c \in Commands, Transmit(c)
    PROVE  AloneInv'
<1>1. /\ status[c] = "pacing" /\ wire' = Append(wire, c) /\ wire \in Seq(Commands)
      /\ status \in [Commands -> Statuses]
      /\ UNCHANGED <<ackWaiters, backlog, ackFut, alone>>
  BY StateTypes DEF Transmit, trackerVars
<1>2. PICK s \in {"waiting", "sent"} : status' = [status EXCEPT ![c] = s]
  BY DEF Transmit, Goes
<1>3. c \in Running
  BY <1>1 DEF Running, Active
<1> SUFFICES ASSUME NEW d \in Commands, alone = d, status'[d] \in Active
             PROVE  /\ \A e \in Running' : e = d
                    /\ \A i \in DOMAIN wire' : wire'[i] = d
                    /\ status'[d] \notin {"draining", "pacing"}
                    /\ ackFut'[d].state = "pending" =>
                            \A i \in DOMAIN ackWaiters' : ~ackWaiters'[i].sink
  BY <1>1 DEF AloneInv, IsRaw
<1>4. status[d] \in Active
  BY <1>1, <1>2 DEF Active
<1>5. /\ \A e \in Running : e = d
      /\ \A i \in DOMAIN wire : wire[i] = d
      /\ ackFut[d].state = "pending" => \A i \in DOMAIN ackWaiters : ~ackWaiters[i].sink
  BY <1>1, <1>4 DEF AloneInv
<1>6. d = c
  BY <1>3, <1>5
<1>7. \A e \in Running' : e = d
  BY <1>1, <1>2, <1>5, <1>6 DEF Running
<1>8. \A i \in DOMAIN wire' : wire'[i] = d
  BY <1>1, <1>5, <1>6
<1>9. status'[d] \notin {"draining", "pacing"}
  BY <1>1, <1>2, <1>6
<1> QED
  BY <1>1, <1>5, <1>7, <1>8, <1>9

\* A verdict arrives: it is the alone command's own, and reaches its future.
LEMMA AloneHears ==
    ASSUME CivIInv, CivIInv', AloneInv, NEW type \in AckTypes, DeliverAck(type)
    PROVE  /\ AloneInv'
           /\ \A c \in Commands : alone = c =>
                /\ ackFut'[c].state = "done" => ackFut'[c] = ackFut[c] \/ ackFut'[c].of = c
                /\ ackFut[c].state = "pending" /\ status[c] \in Active => ackFut'[c].state = "done"
<1> DEFINE h == Head(wire)
           frame == [type |-> type, of |-> h]
<1>1. CivTypeOK /\ CivTypeOK' /\ CurrentGeneration
  BY DEF CivIInv
<1>2. /\ wire # << >> /\ wire' = Tail(wire) /\ (type = "nak" \/ IsWrite(h)) /\ ResolveAck(frame)
      /\ UNCHANGED <<status, alone>>
  BY DEF DeliverAck
<1>3. Drawn(wire', wire) /\ h \in Commands /\ \E i \in DOMAIN wire : wire[i] = h
  BY <1>1, <1>2, TailDraws
<1>4. frame.type = type /\ frame.of = h
  OBVIOUS
<1> HIDE DEF h
<1>5. /\ Drawn(ackWaiters', ackWaiters)
      /\ \/ Takers(frame) = {} /\ ackFut' = ackFut
         \/ \E i \in Takers(frame) :
                   ackFut' = IF ackWaiters[i].sink THEN ackFut
                             ELSE [ackFut EXCEPT ![ackWaiters[i].cmd] = Holding(frame)]
  BY <1>1, <1>2, <1>3, AckResolves
<1>6. Holding(frame).state = "done" /\ Holding(frame).of = h
  BY DEF Holding
<1> HIDE DEF frame
<1>7. ackFut \in [Commands -> Futures] /\ \A i \in DOMAIN ackWaiters : ackWaiters[i].cmd \in Commands
  BY <1>1, StateTypes, CivTypes
<1>8. \A i \in Takers(frame) : i \in DOMAIN ackWaiters /\ Takes(ackWaiters[i], frame)
  BY DEF Takers
<1>9. \A c \in Commands : ackFut'[c].state = "pending" => ackFut[c].state = "pending"
  BY <1>5, <1>6, <1>7, <1>8
<1>10. AloneInv'
  BY <1>1, <1>2, <1>3, <1>5, <1>9, AloneKept
<1>11. ASSUME NEW c \in Commands, alone = c, status[c] \in Active
       PROVE  /\ h = c
              /\ ackFut[c].state = "pending" =>
                    \A i \in DOMAIN ackWaiters : ~ackWaiters[i].sink /\ ackWaiters[i].cmd = c
  <2>1. /\ \A d \in Running : d = c
        /\ \A i \in DOMAIN wire : wire[i] = c
        /\ ackFut[c].state = "pending" => \A i \in DOMAIN ackWaiters : ~ackWaiters[i].sink
    BY <1>11 DEF AloneInv
  <2>2. \A i \in DOMAIN ackWaiters : ~ackWaiters[i].sink => ackWaiters[i].cmd \in Running
    BY <1>7 DEF CivIInv, WaitersAgree, Running
  <2> QED
    BY <1>3, <2>1, <2>2
<1>12. ASSUME NEW c \in Commands, alone = c, ackFut'[c].state = "done"
       PROVE  ackFut'[c] = ackFut[c] \/ ackFut'[c].of = c
  <2> SUFFICES ASSUME ackFut'[c] # ackFut[c] PROVE ackFut'[c].of = c
    OBVIOUS
  <2>1. PICK i \in Takers(frame) :
            ackFut' = IF ackWaiters[i].sink THEN ackFut
                      ELSE [ackFut EXCEPT ![ackWaiters[i].cmd] = Holding(frame)]
    BY <1>5
  <2>2. ~ackWaiters[i].sink /\ ackWaiters[i].cmd = c
    BY <1>7, <1>8, <2>1
  <2>3. status[c] \in Active
    BY <1>8, <2>2 DEF CivIInv, WaitersAgree
  <2> QED
    BY <1>6, <1>7, <1>11, <1>12, <2>1, <2>2, <2>3
<1>13. ASSUME NEW c \in Commands, alone = c, ackFut[c].state = "pending", status[c] \in Active
       PROVE  ackFut'[c].state = "done"
  <2>1. PICK e \in DOMAIN ackWaiters : ackWaiters[e].cmd = c /\ ~ackWaiters[e].sink
    BY <1>13 DEF CivIInv, WaitersAgree
  <2>2. e \in Takers(frame)
    <3>1. ackWaiters[e].nakOnly => type = "nak"
      BY <1>2, <1>11, <1>13, <2>1 DEF CivIInv, WaitersFit
    <3>2. ackWaiters[e].gen = generation
      BY <1>1 DEF CurrentGeneration
    <3> QED
      BY <1>4, <1>13, <2>1, <3>1, <3>2 DEF Takers, Takes
  <2>3. PICK i \in Takers(frame) :
            ackFut' = IF ackWaiters[i].sink THEN ackFut
                      ELSE [ackFut EXCEPT ![ackWaiters[i].cmd] = Holding(frame)]
    BY <1>5, <2>2
  <2>4. ~ackWaiters[i].sink /\ ackWaiters[i].cmd = c
    BY <1>8, <1>11, <1>13
  <2> QED
    BY <1>6, <1>7, <2>3, <2>4
<1> QED
  BY <1>10, <1>12, <1>13

\* Whatever happens else: futures are settled by no answer.
LEMMA AloneAside ==
    ASSUME CivIInv, CivIInv', AloneInv,
           \/ UNCHANGED civVars \/ DeliverResponse \/ Lose \/ CollectStale
           \/ \E c \in Commands : Unsolicited(reqKey[c])
           \/ AdvanceGeneration \/ StopPump
    PROVE  /\ AloneInv' /\ alone' = alone
           /\ \A c \in Commands : ackFut'[c].state = "done" => ackFut'[c] = ackFut[c]
<1>1. /\ CivTypeOK /\ CivTypeOK' /\ ackFut \in [Commands -> Futures]
      /\ ackWaiters \in Seq(AckWaiter) /\ wire \in Seq(Commands)
  BY StateTypes DEF CivIInv
<1>2. UNCHANGED <<status, alone>>
  BY DEF civVars, DeliverResponse, Lose, CollectStale, Unsolicited, AdvanceGeneration, StopPump
<1>3. Drawn(wire', wire)
  <2>1. CASE DeliverResponse \/ Lose
    BY <1>1, <2>1, TailDraws DEF DeliverResponse, Lose
  <2>2. CASE StopPump
    BY <2>2 DEF StopPump, Drawn
  <2>3. CASE ~(DeliverResponse \/ Lose \/ StopPump)
    <3>1. wire' = wire
      BY <2>3 DEF civVars, CollectStale, Unsolicited, AdvanceGeneration
    <3> QED
      BY <3>1 DEF Drawn
  <2> QED
    BY <2>1, <2>2, <2>3
<1>4. /\ Drawn(ackWaiters', ackWaiters)
      /\ wire = << >> /\ backlog = << >> => backlog' = << >>
      /\ ackFut' = ackFut \/ \E cmds : ackFut' = Failed(ackFut, cmds)
  <2>1. CASE UNCHANGED civVars \/ DeliverResponse \/ Lose \/ (\E c \in Commands : Unsolicited(reqKey[c]))
    <3>1. UNCHANGED <<ackWaiters, backlog, ackFut>>
      BY <2>1 DEF civVars, trackerVars, DeliverResponse, Lose, Unsolicited, ResolveResponse
    <3> QED
      BY <3>1 DEF Drawn
  <2>2. CASE AdvanceGeneration \/ StopPump
    BY <2>2 DEF AdvanceGeneration, StopPump, FailAll, Drawn
  <2>3. CASE CollectStale
    <3>1. PICK a \in 1..Len(ackWaiters) + 1 :
              /\ ackWaiters' = Part(ackWaiters, a..Len(ackWaiters))
              /\ ackFut' = Failed(ackFut, {ackWaiters[i].cmd : i \in 1..(a - 1)})
              /\ backlog' = backlog
      BY <2>3 DEF CollectStale, CleanupStale
    <3>2. a..Len(ackWaiters) \in SUBSET DOMAIN ackWaiters
      BY <1>1
    <3>3. Drawn(ackWaiters', ackWaiters)
      BY <1>1, <3>1, <3>2, PartDraws
    <3> QED
      BY <3>1, <3>3
  <2> QED
    BY <2>1, <2>2, <2>3
<1>5. \A c \in Commands : /\ ackFut'[c].state = "pending" => ackFut[c].state = "pending"
                          /\ ackFut'[c].state = "done" => ackFut'[c] = ackFut[c]
  BY <1>1, <1>4, FailedTypes
<1> QED
  BY <1>1, <1>2, <1>3, <1>4, <1>5, AloneKept

\* The steps of the commands.
LEMMA AloneExecutes ==
    ASSUME CivIInv, CivIInv', AloneInv, NEW c \in Commands, Execute(c)
    PROVE  /\ AloneInv'
           /\ \A d \in Commands : alone' = d /\ ackFut'[d].state = "done" => ackFut'[d] = ackFut[d]
<1>1. /\ CivTypeOK /\ CivTypeOK' /\ ackFut \in [Commands -> Futures]
      /\ status \in [Commands -> Statuses]
  BY StateTypes DEF CivIInv
<1>2. Future("pending").state # "done"
  BY DEF Future
<1>3. CASE BeginFire(c) \/ BeginBlocking(c)
  BY <1>1, <1>2, <1>3, AloneBeginnings
<1>4. CASE EndDrain(c)
  <2>1. alone' = alone
    BY <1>4 DEF EndDrain
  <2> QED
    BY <1>1, <1>2, <1>4, <2>1, AloneDrained
<1>5. CASE Transmit(c)
  <2>1. ackFut' = ackFut
    BY <1>5 DEF Transmit, trackerVars
  <2> QED
    BY <1>1, <1>5, <2>1, AloneTransmits
<1>6. CASE DrainTooLate(c) \/ TransmitFails(c) \/ Finish(c) \/ Unwind(c)
           \/ (GiveUp(c) /\ ~(status[c] = "waiting" /\ ~IsRaw(c)))
  <2>1. /\ alone' = alone /\ ackFut' = ackFut /\ c \in Running
    BY <1>6 DEF DrainTooLate, TransmitFails, Finish, Unwind, GiveUp, Running, Active
  <2>2. \E s : s \notin Active /\ Goes(c, s)
    <3>1. "gone" \notin Active /\ "failed" \notin Active
      BY DEF Active
    <3>2. CASE Finish(c)
      <4>1. PICK f \in {ackFut[c], respFut[c]} :
                (f.state = "done" /\ Goes(c, f.type)) \/ (f.state = "failed" /\ Goes(c, "failed"))
        BY <3>2 DEF Finish
      <4>2. f \in Futures
        BY <1>1, <4>1, StateTypes
      <4>3. f.state = "done" => f.type \notin Active
        BY <4>2 DEF Futures, Active
      <4> QED
        BY <3>1, <4>1, <4>3
    <3>3. CASE ~Finish(c)
      BY <1>6, <3>1, <3>3 DEF DrainTooLate, TransmitFails, Unwind, GiveUp
    <3> QED
      BY <3>2, <3>3
  <2> QED
    BY <1>1, <2>1, <2>2, AloneEnds
<1>7. CASE GiveUp(c) /\ status[c] = "waiting" /\ ~IsRaw(c)
  <2>1. /\ Goes(c, "unwinding") /\ ackFut' = Failed(ackFut, {c})
        /\ UNCHANGED <<ackWaiters, backlog, wire, alone>>
    BY <1>7, Zenon DEF GiveUp
  <2>2. /\ Drawn(ackWaiters', ackWaiters) /\ Drawn(wire', wire)
    <3>1. ackWaiters' = ackWaiters /\ wire' = wire
      BY <2>1
    <3> QED
      BY <1>1, <3>1, StateTypes, DrawnItself
  <2>3. \A d \in Commands : /\ ackFut'[d].state = "pending" => ackFut[d].state = "pending"
                            /\ ackFut'[d].state = "done" => ackFut'[d] = ackFut[d]
    BY <1>1, <2>1, FailedTypes
  <2>4. \A d \in Commands : /\ status'[d] \in Active => status[d] \in Active
                            /\ status'[d] \in {"draining", "pacing"} => status'[d] = status[d]
    BY <1>1, <1>7, <2>1 DEF Goes, Active
  <2> QED
    BY <1>1, <2>1, <2>2, <2>3, <2>4, AloneKept
<1> QED
  BY <1>3, <1>4, <1>5, <1>6, <1>7 DEF Execute

\* The invariant of a command that is alone is inductive, given CivIInv.
LEMMA AloneStep ==
    ASSUME CivIInv, CivIInv', AloneInv, [CivNext]_civVars
    PROVE  /\ AloneInv'
           /\ \A c \in Commands : alone' = c /\ ackFut'[c].state = "done" =>
                    ackFut'[c] = ackFut[c] \/ ackFut'[c].of = c
<1>1. CASE \E c \in Commands : Execute(c)
  BY <1>1, AloneExecutes
<1>2. CASE \E type \in AckTypes : DeliverAck(type)
  <2>1. alone' = alone
    BY <1>2 DEF DeliverAck
  <2> QED
    BY <1>2, <2>1, AloneHears
<1>3. CASE \/ UNCHANGED civVars \/ DeliverResponse \/ Lose \/ CollectStale
           \/ \E c \in Commands : Unsolicited(reqKey[c])
           \/ AdvanceGeneration \/ StopPump
  BY <1>3, AloneAside
<1> QED
  BY <1>1, <1>2, <1>3 DEF CivNext

LEMMA AloneInvariance == CivSpec => []AloneInv
<1>1. CivInit => AloneInv
  BY CommandsAssumption DEF CivInit, AloneInv
<1> QED
  BY <1>1, AloneStep, CivInvariance, PTL DEF CivSpec

\* A command that begins on a quiet link, and that no other joins, is settled by
\* no verdict but the radio's on itself, and by that as soon as it arrives
\* (_drain_ack_sinks_before_blocking, drop_ack_backlog, register_ack and
\* resolve), whatever was left behind before.
THEOREM VerdictsArrive == CivSpec => VerdictArrives
<1>1. CivIInv /\ CivIInv' /\ AloneInv /\ [CivNext]_civVars =>
        [\A c \in Commands \cap {alone'} :
            /\ ackFut[c].state # "done" /\ ackFut'[c].state = "done" => ackFut'[c].of = c
            /\ ackFut[c].state = "pending" /\ status[c] \in Active
                /\ (\E type \in AckTypes : DeliverAck(type)) => ackFut'[c].state = "done"]_civVars
  <2> SUFFICES ASSUME CivIInv, CivIInv', AloneInv, [CivNext]_civVars,
                      NEW c \in Commands, alone' = c
               PROVE  /\ ackFut[c].state # "done" /\ ackFut'[c].state = "done" => ackFut'[c].of = c
                      /\ ackFut[c].state = "pending" /\ status[c] \in Active
                          /\ (\E type \in AckTypes : DeliverAck(type)) => ackFut'[c].state = "done"
    OBVIOUS
  <2>1. ackFut[c].state # "done" /\ ackFut'[c].state = "done" => ackFut'[c].of = c
    BY AloneStep
  <2>2. ASSUME NEW type \in AckTypes, DeliverAck(type), ackFut[c].state = "pending",
               status[c] \in Active
        PROVE  ackFut'[c].state = "done"
    <3>1. alone = c
      BY <2>2 DEF DeliverAck
    <3> QED
      BY <2>2, <3>1, AloneHears
  <2> QED
    BY <2>1, <2>2
<1> QED
  BY <1>1, AloneInvariance, CivInvariance, PTL DEF CivSpec, VerdictArrives
=============================================================================
