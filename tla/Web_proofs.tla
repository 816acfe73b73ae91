------------------------------ MODULE Web_proofs ------------------------------
(***************************************************************************)
(* Proofs about the connection and what the web server puts on top of it:  *)
(* ConnectionLifecycle, WebPoller and StateBroadcast, with WebScope in the *)
(* composition.                                                            *)
(***************************************************************************)
EXTENDS MCWeb, SequenceTheorems, WellFoundedInduction, TLAPS

-----------------------------------------------------------------------------
(* Sequences.                                                              *)

LessPairs == {p \in Nat \X Nat : p[1] < p[2]}

\* Every nonempty set of numbers has a least element.
LEMMA LeastNumber ==
    ASSUME NEW T \in SUBSET Nat, T # {}
    PROVE  \E m \in T : \A n \in T : m <= n
<1>1. IsWellFoundedOn(LessPairs, Nat)
  <2>1. LessPairs = OpToRel(<, Nat)
    BY DEF LessPairs, OpToRel
  <2>. QED
    BY <2>1, NatLessThanWellFounded
<1>2. PICK m \in T : \A n \in T : <<n, m>> \notin LessPairs
  BY <1>1, WFMin
<1>3. ASSUME NEW n \in T PROVE m <= n
  <2>1. <<n, m>> \in Nat \X Nat /\ <<n, m>>[1] = n /\ <<n, m>>[2] = m
    BY Zenon
  <2>2. ~ (n < m)
    BY <1>2, <2>1 DEF LessPairs
  <2>. QED
    BY <2>2
<1>. QED
  BY <1>3

\* FlattenSeq concatenates from the front: there is such a function, because the
\* shortest prefix without one would extend the one before it.
LEMMA FlattenUnfolds ==
    ASSUME NEW E, NEW seqs \in Seq(Seq(E)), seqs # <<>>
    PROVE  \E f : /\ f = [i \in 1..Len(seqs) |-> IF i = 1 THEN seqs[i] ELSE f[i - 1] \o seqs[i]]
                  /\ FlattenSeq(seqs) = f[Len(seqs)]
<1>. DEFINE Unfolds(f, k) == f = [i \in 1..k |-> IF i = 1 THEN seqs[i] ELSE f[i - 1] \o seqs[i]]
            Without == {k \in Nat \ {0} : ~ \E f : Unfolds(f, k)}
<1>1. Without = {}
  <2>. SUFFICES ASSUME Without # {} PROVE FALSE
    OBVIOUS
  <2>1. PICK k \in Without : \A n \in Without : k <= n
    <3>1. Without \in SUBSET Nat
      OBVIOUS
    <3>. HIDE DEF Without
    <3>. QED
      BY <3>1, LeastNumber
  <2>2. k \in Nat /\ k # 0 /\ ~ \E f : Unfolds(f, k)
    OBVIOUS
  <2>3. CASE k = 1
    <3>1. Unfolds([i \in 1..1 |-> seqs[i]], 1)
      OBVIOUS
    <3>. QED
      BY <2>2, <2>3, <3>1
  <2>4. CASE k # 1
    <3>1. k - 1 \in Nat \ {0} /\ k - 1 \notin Without
      <4>. HIDE DEF Without, Unfolds
      <4>1. k \in Nat /\ k # 0
        BY <2>2
      <4>. QED
        BY <4>1, <2>1, <2>4
    <3>2. PICK g : Unfolds(g, k - 1)
      BY <3>1
    <3>. DEFINE h == [i \in 1..k |-> IF i = 1 THEN seqs[i] ELSE g[i - 1] \o seqs[i]]
    <3>3. ASSUME NEW i \in 1..(k - 1) PROVE h[i] = g[i]
      <4>1. g[i] = IF i = 1 THEN seqs[i] ELSE g[i - 1] \o seqs[i]
        BY <3>2
      <4>2. i \in 1..k
        BY <2>2
      <4>. QED
        BY <4>1, <4>2
    <3>4. ASSUME NEW i \in 1..k, i # 1 PROVE i - 1 \in 1..(k - 1) /\ h[i - 1] = g[i - 1]
      <4>1. i - 1 \in 1..(k - 1)
        BY <2>2, <3>4
      <4>. HIDE DEF h
      <4>. QED
        BY <4>1, <3>3
    <3>5. h = [i \in 1..k |-> IF i = 1 THEN seqs[i] ELSE h[i - 1] \o seqs[i]]
      <4>. DEFINE hh == [i \in 1..k |-> IF i = 1 THEN seqs[i] ELSE h[i - 1] \o seqs[i]]
      <4>1. ASSUME NEW i \in 1..k PROVE h[i] = hh[i]
        BY <3>4
      <4>. QED
        BY <4>1
    <3>. QED
      BY <2>2, <3>5
  <2>. QED
    BY <2>3, <2>4
<1>2. Len(seqs) \in Nat \ {0}
  OBVIOUS
<1>3. \E f : Unfolds(f, Len(seqs))
  BY <1>1, <1>2
<1>. DEFINE flatten == CHOOSE f : Unfolds(f, Len(seqs))
<1>4. Unfolds(flatten, Len(seqs))
  BY <1>3
<1>5. FlattenSeq(seqs) = flatten[Len(seqs)]
  BY <1>2 DEF FlattenSeq
<1>. QED
  BY <1>4, <1>5

\* Every element stands in the relation Good to those behind it.
Sorted(s, Good) == \A i, j \in DOMAIN s : i < j => <<s[i], s[j]>> \in Good

Before(A, B, Good) == \A a \in A, b \in B : <<a, b>> \in Good

\* What two sequences in turn make one after the other,
LEMMA ConcatSorted ==
    ASSUME NEW E, NEW s \in Seq(E), NEW t \in Seq(E), NEW Good,
           Sorted(s, Good), Sorted(t, Good), Before(ToSet(s), ToSet(t), Good)
    PROVE  s \o t \in Seq(E) /\ Sorted(s \o t, Good)
<1>1. /\ s \o t \in Seq(E) /\ Len(s) \in Nat /\ Len(t) \in Nat
      /\ DOMAIN s = 1..Len(s) /\ DOMAIN t = 1..Len(t) /\ DOMAIN (s \o t) = 1..(Len(s) + Len(t))
      /\ \A i \in 1..(Len(s) + Len(t)) : (s \o t)[i] = IF i <= Len(s) THEN s[i] ELSE t[i - Len(s)]
  OBVIOUS
<1>2. ASSUME NEW i \in DOMAIN (s \o t), NEW j \in DOMAIN (s \o t), i < j
      PROVE  <<(s \o t)[i], (s \o t)[j]>> \in Good
  <2>1. CASE j <= Len(s)
    BY <1>1, <1>2, <2>1 DEF Sorted
  <2>2. CASE Len(s) < i
    <3>1. /\ i - Len(s) \in DOMAIN t /\ j - Len(s) \in DOMAIN t /\ i - Len(s) < j - Len(s)
          /\ (s \o t)[i] = t[i - Len(s)] /\ (s \o t)[j] = t[j - Len(s)]
      BY <1>1, <1>2, <2>2
    <3>. QED
      BY <3>1 DEF Sorted
  <2>3. CASE i <= Len(s) /\ Len(s) < j
    <3>1. /\ i \in DOMAIN s /\ j - Len(s) \in DOMAIN t
          /\ (s \o t)[i] = s[i] /\ (s \o t)[j] = t[j - Len(s)]
      BY <1>1, <1>2, <2>3
    <3>. QED
      BY <3>1 DEF Before, ToSet
  <2>4. j <= Len(s) \/ Len(s) < i \/ (i <= Len(s) /\ Len(s) < j)
    BY <1>1
  <2>. QED
    BY <2>1, <2>2, <2>3, <2>4
<1>. QED
  BY <1>1, <1>2 DEF Sorted

\* and what is in it.
LEMMA ConcatSet ==
    ASSUME NEW E, NEW s \in Seq(E), NEW t \in Seq(E)
    PROVE  ToSet(s \o t) = ToSet(s) \union ToSet(t)
<1>1. /\ Len(s) \in Nat /\ Len(t) \in Nat
      /\ DOMAIN s = 1..Len(s) /\ DOMAIN t = 1..Len(t) /\ DOMAIN (s \o t) = 1..(Len(s) + Len(t))
      /\ \A i \in 1..(Len(s) + Len(t)) : (s \o t)[i] = IF i <= Len(s) THEN s[i] ELSE t[i - Len(s)]
  OBVIOUS
<1>2. ASSUME NEW i \in DOMAIN t PROVE (s \o t)[i + Len(s)] = t[i] /\ i + Len(s) \in DOMAIN (s \o t)
  BY <1>1
<1>3. ASSUME NEW i \in DOMAIN s PROVE (s \o t)[i] = s[i] /\ i \in DOMAIN (s \o t)
  BY <1>1
<1>4. ASSUME NEW i \in DOMAIN (s \o t)
      PROVE  (s \o t)[i] \in ToSet(s) \union ToSet(t)
  <2>1. CASE i <= Len(s)
    BY <1>1, <2>1 DEF ToSet
  <2>2. CASE Len(s) < i
    <3>1. i - Len(s) \in DOMAIN t /\ (s \o t)[i] = t[i - Len(s)]
      BY <1>1, <2>2
    <3>. QED
      BY <3>1 DEF ToSet
  <2>. QED
    BY <1>1, <2>1, <2>2
<1>5. ToSet(s) \subseteq ToSet(s \o t)
  BY <1>3 DEF ToSet
<1>6. ToSet(t) \subseteq ToSet(s \o t)
  BY <1>2 DEF ToSet
<1>7. ToSet(s \o t) \subseteq ToSet(s) \union ToSet(t)
  BY <1>4 DEF ToSet
<1>. QED
  BY <1>5, <1>6, <1>7

\* Sequences that are sorted one behind the other are sorted together, and
\* flattening them loses and invents nothing.
LEMMA FlattenSorted ==
    ASSUME NEW E, NEW seqs \in Seq(Seq(E)), NEW Good,
           \A k \in DOMAIN seqs : Sorted(seqs[k], Good),
           \A k, l \in DOMAIN seqs : k < l => Before(ToSet(seqs[k]), ToSet(seqs[l]), Good)
    PROVE  /\ FlattenSeq(seqs) \in Seq(E) /\ Sorted(FlattenSeq(seqs), Good)
           /\ ToSet(FlattenSeq(seqs)) = UNION {ToSet(seqs[k]) : k \in DOMAIN seqs}
<1>1. CASE seqs = <<>>
  <2>1. FlattenSeq(seqs) = <<>> /\ DOMAIN seqs = {}
    BY <1>1 DEF FlattenSeq
  <2>. QED
    BY <2>1 DEF Sorted, ToSet
<1>2. CASE seqs # <<>>
  <2>1. PICK f : /\ f = [i \in 1..Len(seqs) |-> IF i = 1 THEN seqs[i] ELSE f[i - 1] \o seqs[i]]
                 /\ FlattenSeq(seqs) = f[Len(seqs)]
    BY <1>2, FlattenUnfolds
  <2>. DEFINE Upto(k) == UNION {ToSet(seqs[l]) : l \in 1..k}
              Right(k) == f[k] \in Seq(E) /\ Sorted(f[k], Good) /\ ToSet(f[k]) = Upto(k)
              Wrong == {k \in 1..Len(seqs) : ~Right(k)}
  <2>2. Len(seqs) \in Nat \ {0} /\ DOMAIN seqs = 1..Len(seqs)
    BY <1>2
  <2>3. ASSUME NEW k \in 1..Len(seqs)
        PROVE  f[k] = IF k = 1 THEN seqs[k] ELSE f[k - 1] \o seqs[k]
    BY <2>1
  <2>4. Right(1)
    <3>1. f[1] = seqs[1] /\ 1 \in DOMAIN seqs
      BY <2>2, <2>3
    <3>2. Upto(1) = ToSet(seqs[1])
      BY <2>2
    <3>. QED
      BY <3>1, <3>2
  <2>5. ASSUME NEW k \in 1..Len(seqs), k # 1, Right(k - 1) PROVE Right(k)
    <3>1. k - 1 \in 1..Len(seqs) /\ f[k] = f[k - 1] \o seqs[k] /\ k \in DOMAIN seqs
      <4>1. k \in Nat /\ 1 <= k /\ k <= Len(seqs)
        BY <2>2
      <4>2. k - 1 \in 1..Len(seqs)
        BY <2>2, <2>5, <4>1
      <4>3. f[k] = f[k - 1] \o seqs[k]
        BY <2>3, <2>5
      <4>. QED
        BY <2>2, <4>2, <4>3
    <3>2. seqs[k] \in Seq(E) /\ Sorted(seqs[k], Good)
      BY <3>1
    <3>3. Before(Upto(k - 1), ToSet(seqs[k]), Good)
      <4>1. ASSUME NEW l \in 1..(k - 1) PROVE Before(ToSet(seqs[l]), ToSet(seqs[k]), Good)
        BY <2>2, <3>1
      <4>. QED
        BY <4>1 DEF Before
    <3>4. Upto(k) = Upto(k - 1) \union ToSet(seqs[k])
      <4>1. 1..k = (1..(k - 1)) \union {k}
        BY <2>2
      <4>. QED
        BY <4>1
    <3>5. f[k - 1] \in Seq(E) /\ Sorted(f[k - 1], Good) /\ ToSet(f[k - 1]) = Upto(k - 1)
      BY <2>5
    <3>. HIDE DEF Upto
    <3>6. f[k] \in Seq(E) /\ Sorted(f[k], Good)
      BY <3>1, <3>2, <3>3, <3>5, ConcatSorted
    <3>7. ToSet(f[k]) = Upto(k)
      BY <3>1, <3>2, <3>4, <3>5, ConcatSet
    <3>. QED
      BY <3>6, <3>7
  <2>6. Wrong = {}
    <3>. SUFFICES ASSUME Wrong # {} PROVE FALSE
      OBVIOUS
    <3>1. Wrong \in SUBSET Nat
      BY <2>2
    <3>. HIDE DEF Right, Wrong
    <3>2. PICK k \in Wrong : \A n \in Wrong : k <= n
      BY <3>1, LeastNumber
    <3>3. k \in 1..Len(seqs) /\ ~Right(k)
      BY DEF Wrong
    <3>4. k # 1 /\ k - 1 \in 1..Len(seqs)
      BY <2>2, <2>4, <3>3
    <3>5. k - 1 \notin Wrong
      BY <3>1, <3>2, <3>4
    <3>6. Right(k - 1)
      BY <3>4, <3>5 DEF Wrong
    <3>. QED
      BY <2>5, <3>3, <3>4, <3>6
  <2>7. Right(Len(seqs))
    <3>. HIDE DEF Right
    <3>. QED
      BY <2>2, <2>6
  <2>. QED
    BY <2>1, <2>2, <2>7
<1>. QED
  BY <1>1, <1>2

-----------------------------------------------------------------------------
(***************************************************************************)
(* Proofs about ConnectionLifecycle, for any combinations of failures,     *)
(* with and without automatic reconnects.                                  *)
(*                                                                         *)
(* An operation that has set DISCONNECTING is at a join until it sets      *)
(* another state, and until then there is a CI-V transport (Worked): the   *)
(* code that forgets the transport sets the state with it.  So a teardown  *)
(* never finds the transport gone while the state is its own.              *)
(***************************************************************************)

States == {"disconnected", "connecting", "connected", "disconnecting", "reconnecting"}

Host == [conn : States, civ : Actors \cup {"none"}, sockets : SUBSET (Actors \cup {"ctrl"}),
         tasks : SUBSET Tasks, refs : SUBSET {"loop", "recovery"},
         cancelled : SUBSET {"loop", "recovery"}]

Teardown == {"disconnect", "soft disconnect", "abort"}

PartTypes == host \in Host /\ pc \in [Actors -> Awaits] /\ op \in [Actors -> Operations]

Stopping == Teardown \union {"soft reconnect", "cleanup"}

\* A teardown is at a join, and who is at a join is in one, or in an operation
\* that stops tasks for another purpose.
Matched ==
    \A a \in Actors : /\ op[a] \in Teardown => pc[a] \in Joins
                      /\ pc[a] \in Joins => op[a] \in Stopping

AtJoin(a) == op[a] \in Teardown /\ pc[a] \in Joins

Worked == host.conn = "disconnecting" => host.civ # "none" /\ \E a \in Actors : AtJoin(a)

LifeInv ==
    /\ PartTypes
    /\ Matched
    /\ Worked

\* The radio object h that a leaves to the others: DISCONNECTING goes with a
\* transport ...
Fit(a, h) ==
    /\ h \in Host
    /\ h.conn = "disconnecting" => h.civ # "none"

\* ... and, if it is not the work of a, with somebody who works on it.
Left(a, h) ==
    Fit(a, h) /\ (h.conn = "disconnecting" => \E b \in Actors \ {a} : AtJoin(b))

-----------------------------------------------------------------------------
\* The tasks a teardown joins, in its order.
LEMMA JoinsValue ==
    /\ Joins = {"data watchdog", "recovery", "worker", "pump"}
    /\ Len(Stops) = 4 /\ DOMAIN Stops = 1..4 /\ \A i \in 1..4 : Stops[i] \in Joins
<1>1. DOMAIN Stops = 1..4 /\ Len(Stops) = 4
  BY DEF Stops
<1>2. /\ Stops[1] = "data watchdog" /\ Stops[2] = "recovery"
      /\ Stops[3] = "worker" /\ Stops[4] = "pump"
  BY DEF Stops
<1>3. \A i \in 1..4 : i \in {1, 2, 3, 4}
  OBVIOUS
<1>4. \A t : t \in Joins <=> \E i \in {1, 2, 3, 4} : t = Stops[i]
  BY <1>1, <1>3 DEF Joins
<1>5. \A t : t \in Joins <=> t \in {"data watchdog", "recovery", "worker", "pump"}
  BY <1>2, <1>4
<1>6. \A i \in 1..4 : Stops[i] \in Joins
  BY <1>3, <1>4
<1>. QED
  BY <1>1, <1>5, <1>6

\* The tasks are stopped one by one.
LEMMA StopsDiffer == \A i, j \in 1..4 : Stops[i] = Stops[j] => i = j
<1>1. /\ Stops[1] = "data watchdog" /\ Stops[2] = "recovery"
      /\ Stops[3] = "worker" /\ Stops[4] = "pump"
  BY DEF Stops
<1>2. \A i \in 1..4 : i \in {1, 2, 3, 4}
  OBVIOUS
<1>. QED
  BY <1>1, <1>2

\* The radio object of an actor that is at no join.
LEMMA HostLeft ==
    ASSUME LifeInv, NEW a \in Actors, ~AtJoin(a)
    PROVE  Left(a, host)
BY DEF LifeInv, PartTypes, Worked, Left, Fit

\* The radio object as it is.
LEMMA HostFit ==
    ASSUME LifeInv, NEW a \in Actors
    PROVE  Fit(a, host)
BY DEF LifeInv, PartTypes, Worked, Fit

-----------------------------------------------------------------------------
(* How an operation goes on.                                               *)

\* An actor goes to an await that is no join, and leaves the radio object h;
LEMMA MoveKeeps ==
    ASSUME LifeInv, NEW a \in Actors, NEW h, Left(a, h), NEW await \in Awaits \ Joins,
           NEW operation \in Operations \ Teardown,
           host' = h, pc' = [pc EXCEPT ![a] = await], op' = [op EXCEPT ![a] = operation]
    PROVE  LifeInv'
<1>. USE DEF LifeInv
<1>1. host' = h /\ pc' = [pc EXCEPT ![a] = await] /\ op' = [op EXCEPT ![a] = operation]
  OBVIOUS
<1>2. PartTypes'
  BY <1>1 DEF PartTypes, Left, Fit
<1>3. Matched'
  BY <1>1 DEF PartTypes, Matched, Stopping
<1>4. Worked'
  BY <1>1 DEF Worked, PartTypes, Left, Fit, AtJoin
<1>. QED
  BY <1>2, <1>3, <1>4

\* it waits there,
LEMMA SuspendKeeps ==
    ASSUME LifeInv, NEW a \in Actors, NEW h, Left(a, h), NEW await \in Awaits \ Joins,
           NEW operation \in Operations \ Teardown, Suspend(a, await, operation, h)
    PROVE  LifeInv'
BY MoveKeeps DEF Suspend

\* it is done,
LEMMA EndsKeeps ==
    ASSUME LifeInv, NEW a \in Actors, NEW h, Left(a, h), Ends(a, h)
    PROVE  LifeInv'
<1>. USE DEF LifeInv
<1>1. /\ host' = [h EXCEPT !.refs = @ \ {a}, !.cancelled = @ \ {a}]
      /\ pc' = [pc EXCEPT ![a] = "idle"] /\ op' = [op EXCEPT ![a] = "none"]
  BY DEF Ends
<1>2. host' \in Host /\ host'.conn = h.conn /\ host'.civ = h.civ /\ host'.cancelled = h.cancelled \ {a}
  BY <1>1 DEF Left, Fit, Host
<1>3. PartTypes'
  BY <1>1, <1>2 DEF PartTypes, Awaits, Operations
<1>4. Matched'
  BY <1>1, JoinsValue DEF PartTypes, Teardown, Matched
<1>5. Worked'
  BY <1>1, <1>2 DEF Worked, PartTypes, Left, Fit, AtJoin
<1>. QED
  BY <1>3, <1>4, <1>5

\* the awaits and operations that are none of a teardown's,
LEMMA AwaitNames ==
    /\ {"idle", "created", "sleep", "open ctrl", "handshake", "open civ",
        "discover civ", "flush", "startup", "cooldown", "raised"} \subseteq Awaits \ Joins
    /\ {"none", "connect", "soft reconnect", "cleanup"} \subseteq Operations \ Teardown
BY JoinsValue DEF Awaits, Operations, Teardown

\* the operation returns to its caller,
LEMMA ReturnsKeeps ==
    ASSUME LifeInv, NEW a \in Actors, NEW h, Left(a, h), NEW operation, Returns(a, operation, h)
    PROVE  LifeInv'
BY SuspendKeeps, EndsKeeps, AwaitNames DEF Returns

\* DISCONNECTING is the one state that needs somebody behind it,
LEMMA LeftWith ==
    ASSUME NEW a \in Actors, NEW h, Left(a, h), NEW s \in {"disconnected", "connecting", "connected", "reconnecting"}
    PROVE  Left(a, [h EXCEPT !.conn = s])
BY DEF Left, Fit, Host, States

\* and the operation raises.
LEMMA RaisesKeeps ==
    ASSUME LifeInv, NEW a \in Actors, NEW h, Left(a, h), NEW error, Raises(a, error, h)
    PROVE  LifeInv'
<1>1. Left(a, [h EXCEPT !.conn = "disconnected"]) /\ Left(a, [h EXCEPT !.conn = "reconnecting"])
  BY LeftWith
<1>2. CASE a = "user"
  BY <1>2, EndsKeeps DEF Raises
<1>3. CASE a = "loop"
  <2>1. \/ Ends(a, [h EXCEPT !.conn = "disconnected"])
        \/ Suspend(a, "sleep", "none", [h EXCEPT !.conn = "reconnecting"])
    BY <1>3 DEF Raises
  <2>. QED
    BY <1>1, <2>1, EndsKeeps, SuspendKeeps, AwaitNames
<1>4. CASE a = "recovery"
  <2>1. CASE Ends(a, h)
    BY <2>1, EndsKeeps
  <2>2. CASE ~Ends(a, h)
    <3>1. PICK await \in {"raised", "sleep"} :
             host' = h /\ pc' = [pc EXCEPT ![a] = await] /\ op' = [op EXCEPT ![a] = "none"]
      BY <1>4, <2>2 DEF Raises
    <3>. QED
      BY <3>1, MoveKeeps, AwaitNames
  <2>. QED
    BY <2>1, <2>2
<1>. QED
  BY <1>2, <1>3, <1>4 DEF Actors

-----------------------------------------------------------------------------
(* Teardowns.                                                              *)

\* What a teardown closes.
LEMMA CloseCivFit ==
    ASSUME NEW a \in Actors, NEW h, Fit(a, h), NEW s \in States \ {"disconnecting"}
    PROVE  /\ Left(a, [CloseCiv(h) EXCEPT !.conn = s])
           /\ Left(a, [CloseCtrl(CloseCiv(h)) EXCEPT !.conn = s])
           /\ Left(a, [CloseCtrl(h) EXCEPT !.conn = s])
           /\ Left(a, [h EXCEPT !.conn = s])
BY DEF Fit, Left, Host, CloseCiv, CloseCtrl

\* Everything has stopped: DISCONNECTING is replaced, unless the transport is
\* gone, and then it had been replaced before.
LEMMA StoppedKeeps ==
    ASSUME LifeInv, NEW a \in Actors, NEW h, Fit(a, h),
           NEW operation \in Stopping,
           Stopped(a, operation, h)
    PROVE  LifeInv'
<1>1. CASE operation = "soft reconnect"
  <2>. DEFINE up == [h EXCEPT !.conn = "connected", !.tasks = @ \cup {"pump"}]
  <2>1. Left(a, up) /\ Left(a, [up EXCEPT !.tasks = @ \cup {"worker", "data watchdog"}])
    BY DEF Fit, Left, Host, States, Tasks
  <2>2. SoftStarts(a, h)
    BY <1>1 DEF Stopped, Teardown
  <2>. QED
    BY <2>1, <2>2, RaisesKeeps, ReturnsKeeps DEF SoftStarts
<1>2. CASE operation = "cleanup"
  <2>1. Left(a, WithoutCiv(CloseCiv(h)))
    <3>1. WithoutCiv(CloseCiv(h)) = [CloseCiv(h) EXCEPT !.conn = IF CtrlAlive(CloseCiv(h)) THEN "reconnecting" ELSE "disconnected"]
      BY DEF WithoutCiv
    <3>2. \A s \in States \ {"disconnecting"} : Left(a, [CloseCiv(h) EXCEPT !.conn = s])
      BY CloseCivFit
    <3>. QED
      BY <3>1, <3>2 DEF States
  <2>2. Returns(a, operation, WithoutCiv(CloseCiv(h)))
    BY <1>2 DEF Stopped
  <2>. QED
    BY <2>1, <2>2, ReturnsKeeps
<1>3. CASE operation \in Teardown /\ h.civ = "none"
  <2>1. Left(a, h)
    BY <1>3 DEF Fit, Left
  <2>2. Raises(a, "attribute", h)
    BY <1>3 DEF Stopped, Teardown
  <2>. QED
    BY <2>1, <2>2, RaisesKeeps
<1>4. CASE operation \in Teardown /\ h.civ # "none"
  <2>1. Left(a, Down(CloseCiv(h))) /\ Left(a, Down(CloseCtrl(CloseCiv(h))))
    BY CloseCivFit DEF Down, States
  <2>2. \/ Returns(a, operation, Down(CloseCiv(h)))
        \/ Returns(a, operation, Down(CloseCtrl(CloseCiv(h))))
        \/ Raises(a, "connection", Down(CloseCtrl(CloseCiv(h))))
    BY <1>4 DEF Stopped, Teardown
  <2>. QED
    BY <2>1, <2>2, ReturnsKeeps, RaisesKeeps
<1>. QED
  BY <1>1, <1>2, <1>3, <1>4 DEF Stopping

\* A teardown waits for the next task: who waits for its own task has cancelled it.
LEMMA WaitKeeps ==
    ASSUME LifeInv, NEW a \in Actors, NEW h, Fit(a, h), NEW t \in Joins,
           NEW operation \in Stopping,
           h.conn = "disconnecting" => operation \in Teardown \/ \E b \in Actors \ {a} : AtJoin(b),
           Suspend(a, t, operation, [h EXCEPT !.cancelled = @ \cup ({t} \cap {"recovery"})])
    PROVE  LifeInv'
<1>. USE DEF LifeInv
<1>1. /\ host' = [h EXCEPT !.cancelled = @ \cup ({t} \cap {"recovery"})]
      /\ pc' = [pc EXCEPT ![a] = t] /\ op' = [op EXCEPT ![a] = operation]
  BY DEF Suspend
<1>2. /\ host' \in Host /\ host'.conn = h.conn /\ host'.civ = h.civ
      /\ host'.cancelled = h.cancelled \cup ({t} \cap {"recovery"})
  BY <1>1 DEF Fit, Host
<1>3. t \in Awaits /\ operation \in Operations
  BY DEF Awaits, Operations, Teardown, Stopping
<1>4. PartTypes'
  BY <1>1, <1>2, <1>3 DEF PartTypes
<1>5. Matched'
  BY <1>1 DEF PartTypes, Matched, Stopping
<1>6. Worked'
  BY <1>1, <1>2 DEF Worked, PartTypes, Fit, AtJoin
<1>. QED
  BY <1>4, <1>5, <1>6

\* The next task to stop is among those that are left.
LEMMA LeastOf ==
    ASSUME NEW i \in 1..5, NEW A, A \subseteq i..4, A # {}
    PROVE  LET m == CHOOSE j \in A : \A k \in A : j <= k
           IN  m \in A /\ m \in 1..4 /\ \A k \in A : m <= k
<1>1. \A j \in A : j \in Int /\ 1 <= j /\ j <= 4
  <2>1. i \in Int /\ 1 <= i
    OBVIOUS
  <2>2. \A j \in i..4 : j \in Int /\ i <= j /\ j <= 4
    BY <2>1
  <2>3. ASSUME NEW j \in A PROVE j \in i..4
    OBVIOUS
  <2>4. ASSUME NEW j \in A PROVE j \in Int /\ 1 <= j /\ j <= 4
    BY <2>1, <2>2, <2>3
  <2>. QED
    BY <2>4
<1>2. \A j \in A : j = 1 \/ j = 2 \/ j = 3 \/ j = 4
  BY <1>1
<1>3. \E j \in A : \A k \in A : j <= k
  <2>1. CASE 1 \in A
    BY <1>2, <2>1
  <2>2. CASE 1 \notin A /\ 2 \in A
    BY <1>2, <2>2
  <2>3. CASE 1 \notin A /\ 2 \notin A /\ 3 \in A
    BY <1>2, <2>3
  <2>4. CASE 1 \notin A /\ 2 \notin A /\ 3 \notin A
    <3>1. PICK m \in A : TRUE
      OBVIOUS
    <3>2. m = 4 /\ \A k \in A : k = 4
      BY <1>2, <2>4
    <3>. QED
      BY <3>1, <3>2
  <2>. QED
    BY <2>1, <2>2, <2>3, <2>4
<1>. DEFINE m == CHOOSE j \in A : \A k \in A : j <= k
<1>4. m \in A /\ \A k \in A : m <= k
  BY <1>3
<1>5. \A j \in A : j \in 1..4
  BY <1>1
<1>. QED
  BY <1>4, <1>5

\* A teardown stops what is left from Stops[i] on,
LEMMA StopsFromKeeps ==
    ASSUME LifeInv, NEW a \in Actors, NEW h, Fit(a, h), NEW i \in 1..5,
           NEW operation \in Stopping,
           h.conn = "disconnecting" => operation \in Teardown \/ \E b \in Actors \ {a} : AtJoin(b),
           StopsFrom(a, operation, i, h)
    PROVE  LifeInv'
<1>. DEFINE alive == {j \in i..Len(Stops) : Stops[j] \in h.tasks \cup h.refs}
            t == Stops[CHOOSE j \in alive : \A k \in alive : j <= k]
<1>1. CASE alive = {}
  BY <1>1, StoppedKeeps DEF StopsFrom
<1>2. CASE alive # {}
  <2>1. alive = {j \in i..4 : Stops[j] \in h.tasks \cup h.refs}
    <3>1. Len(Stops) = 4
      BY JoinsValue
    <3>. QED
      BY <3>1
  <2>2. alive \subseteq i..4
    BY <2>1
  <2>3. (CHOOSE j \in alive : \A k \in alive : j <= k) \in 1..4
    BY <1>2, <2>2, LeastOf
  <2>5. t \in Joins
    BY <2>1, <2>3, JoinsValue
  <2>4. Suspend(a, t, operation, [h EXCEPT !.cancelled = @ \cup ({t} \cap {"recovery"})])
    BY <1>2 DEF StopsFrom
  <2>. QED
    BY <2>4, <2>5, WaitKeeps
<1>. QED
  BY <1>1, <1>2

\* begins with all of it,
LEMMA DisconnectingKeeps ==
    ASSUME LifeInv, NEW a \in Actors, ~AtJoin(a), NEW operation \in {"disconnect", "abort"},
           Disconnecting(a, operation, host)
    PROVE  LifeInv'
<1>. DEFINE down == [host EXCEPT !.conn = "disconnecting",
                                 !.tasks = @ \ {"watchdog", "token"},
                                 !.cancelled = @ \cup (host.refs \cap {"loop"}),
                                 !.refs = @ \ {"loop"}]
<1>1. /\ down \in Host /\ down.civ = host.civ /\ down.conn = "disconnecting"
      /\ host.cancelled \subseteq down.cancelled
  BY DEF LifeInv, PartTypes, Host, States
<1>2. CASE host.civ # "none"
  <2>1. Fit(a, down)
    BY <1>1, <1>2 DEF Fit
  <2>2. StopsFrom(a, operation, 1, down)
    BY <1>2 DEF Disconnecting
  <2>3. operation \in Teardown
    BY DEF Teardown
  <2>4. 1 \in 1..5
    OBVIOUS
  <2>. HIDE DEF down
  <2>. QED
    BY <1>1, <2>1, <2>2, <2>3, <2>4, StopsFromKeeps DEF Stopping
<1>3. CASE host.civ = "none"
  <2>1. Left(a, Down(CloseCtrl(down)))
    BY <1>1 DEF Left, Fit, Host, Down, CloseCtrl, States
  <2>2. Raises(a, "connection", Down(CloseCtrl(down))) \/ Returns(a, operation, Down(CloseCtrl(down)))
    BY <1>3 DEF Disconnecting
  <2>. QED
    BY <2>1, <2>2, RaisesKeeps, ReturnsKeeps
<1>. QED
  BY <1>2, <1>3

-----------------------------------------------------------------------------
(* The steps of an actor.                                                  *)

\* goes on when a join is done,
LEMMA JoinDoneKeeps ==
    ASSUME LifeInv, NEW a \in Actors, pc[a] \in Joins, NEW c, c \in SUBSET {"loop", "recovery"},
           host.cancelled \ {a} \subseteq c,
           JoinDone(a, [host EXCEPT !.cancelled = c])
    PROVE  LifeInv'
<1>. DEFINE i == CHOOSE j \in DOMAIN Stops : Stops[j] = pc[a]
            h == [[host EXCEPT !.cancelled = c] EXCEPT !.tasks = @ \ {pc[a]}, !.refs = @ \ {pc[a]}]
<1>1. i \in 1..4
  BY JoinsValue DEF Joins
<1>2. /\ h \in Host /\ h.conn = host.conn /\ h.civ = host.civ /\ h.cancelled = c
  BY DEF LifeInv, PartTypes, Host
<1>3. Fit(a, h)
  BY <1>2, HostFit DEF Fit
<1>4. op[a] \in Stopping
  BY DEF LifeInv, Matched, Stopping
<1>5. h.conn = "disconnecting" => op[a] \in Teardown \/ \E b \in Actors \ {a} : AtJoin(b)
  BY <1>2 DEF LifeInv, Worked, AtJoin
<1>6. StopsFrom(a, op[a], i + 1, h)
  BY DEF JoinDone
<1>. HIDE DEF i, h
<1>7. i + 1 \in 1..5
  BY <1>1
<1>. QED
  BY <1>3, <1>4, <1>5, <1>6, <1>7, StopsFromKeeps

\* as it is or with the cancellation of who joins.
LEMMA JoinsKeep ==
    ASSUME LifeInv, NEW a \in Actors, Joined(a) \/ CancelDelivered(a)
    PROVE  LifeInv'
<1>0. host \in Host /\ host = [host EXCEPT !.cancelled = host.cancelled]
  BY DEF LifeInv, PartTypes, Host
<1>1. CASE Joined(a)
  <2>1. pc[a] \in Joins /\ JoinDone(a, host)
    BY <1>1 DEF Joined, Runs
  <2>2. host.cancelled \in SUBSET {"loop", "recovery"}
    BY <1>0 DEF Host
  <2>3. JoinDone(a, [host EXCEPT !.cancelled = host.cancelled])
    BY <1>0, <2>1
  <2>. QED
    BY <2>1, <2>2, <2>3, JoinDoneKeeps
<1>2. CASE CancelDelivered(a) /\ pc[a] \in Joins
  <2>1. JoinDone(a, [host EXCEPT !.cancelled = host.cancelled \ {a}])
    BY <1>2 DEF CancelDelivered
  <2>2. host.cancelled \ {a} \in SUBSET {"loop", "recovery"}
    BY <1>0 DEF Host
  <2>. QED
    BY <1>2, <2>1, <2>2, JoinDoneKeeps
<1>3. CASE CancelDelivered(a) /\ pc[a] \notin Joins
  <2>1. ~AtJoin(a) /\ Ends(a, host)
    BY <1>3 DEF CancelDelivered, AtJoin
  <2>. QED
    BY <2>1, HostLeft, EndsKeeps
<1>. QED
  BY <1>1, <1>2, <1>3

\* connect() begins,
LEMMA ConnectingKeeps ==
    ASSUME LifeInv, NEW a \in Actors, NEW h, Fit(a, h), Connecting(a, h)
    PROVE  LifeInv'
<1>1. Left(a, [h EXCEPT !.conn = "connecting"])
  BY CloseCivFit DEF States
<1>. QED
  BY <1>1, SuspendKeeps, AwaitNames DEF Connecting

\* connect(): none of its steps leaves DISCONNECTING behind, and it replaces the
\* CI-V transport by its own or, with the state, by none.
LEMMA ConnectKeeps ==
    ASSUME LifeInv, NEW a \in Actors,
           OpenCtrl(a) \/ OpenCtrlFails(a) \/ Handshake(a) \/ HandshakeFails(a)
             \/ OpenCiv(a) \/ CooldownOver(a)
    PROVE  LifeInv'
<1>0. pc[a] \notin Joins
  BY JoinsValue DEF OpenCtrl, OpenCtrlFails, Handshake, HandshakeFails, OpenCiv, CooldownOver, Runs
<1>1. ~AtJoin(a) /\ Left(a, host) /\ Fit(a, host)
  BY <1>0, HostLeft, HostFit DEF AtJoin
<1>2. CASE OpenCtrl(a)
  <2>1. Left(a, [host EXCEPT !.sockets = @ \cup {"ctrl"}])
    BY <1>1 DEF Left, Fit, Host
  <2>. QED
    BY <1>2, <2>1, SuspendKeeps, AwaitNames DEF OpenCtrl
<1>3. CASE OpenCtrlFails(a)
  BY <1>1, <1>3, RaisesKeeps DEF OpenCtrlFails
<1>4. CASE Handshake(a)
  <2>1. Left(a, NewCiv(host, a))
    BY <1>1 DEF Left, Fit, Host, NewCiv, Actors
  <2>. QED
    BY <1>4, <2>1, SuspendKeeps, AwaitNames DEF Handshake
<1>5. CASE HandshakeFails(a)
  <2>1. Left(a, Down(CloseCtrl(host)))
    BY <1>1, CloseCivFit DEF Down, States
  <2>. QED
    BY <1>1, <1>5, <2>1, RaisesKeeps DEF HandshakeFails
<1>6. CASE OpenCiv(a)
  <2>1. Left(a, [host EXCEPT !.sockets = @ \cup {a}])
    BY <1>1 DEF Left, Fit, Host
  <2>2. op[a] \in Operations \ Teardown
    BY <1>0 DEF LifeInv, PartTypes, Matched
  <2>. QED
    BY <1>6, <2>1, <2>2, SuspendKeeps, AwaitNames DEF OpenCiv
<1>7. CASE CooldownOver(a)
  BY <1>1, <1>7, ConnectingKeeps DEF CooldownOver
<1>. QED
  BY <1>2, <1>3, <1>4, <1>5, <1>6, <1>7

\* finds no CI-V port,
LEMMA OpenCivFailsKeeps ==
    ASSUME LifeInv, NEW a \in Actors, OpenCivFails(a)
    PROVE  LifeInv'
<1>0. pc[a] \notin Joins
  BY JoinsValue DEF OpenCivFails, Runs
<1>1. ~AtJoin(a) /\ Left(a, host) /\ Fit(a, host)
  BY <1>0, HostLeft, HostFit DEF AtJoin
<1>2. Left(a, CloseCtrl(host))
  BY <1>1 DEF Left, Fit, Host, CloseCtrl
<1>3. Left(a, WithoutCiv([host EXCEPT !.civ = "none"]))
  BY <1>1 DEF Left, Fit, Host, States, WithoutCiv
<1>. QED
  BY <1>2, <1>3, RaisesKeeps DEF OpenCivFails

\* or no radio behind it,
LEMMA DiscoverKeeps ==
    ASSUME LifeInv, NEW a \in Actors, DiscoverRetries(a) \/ DiscoverFails(a) \/ Discover(a)
    PROVE  LifeInv'
<1>0. pc[a] \notin Joins
  BY JoinsValue DEF DiscoverRetries, DiscoverFails, Discover, Runs
<1>1. ~AtJoin(a) /\ Left(a, host) /\ Fit(a, host)
  BY <1>0, HostLeft, HostFit DEF AtJoin
<1>2. Left(a, AfterTimeout(a))
  BY <1>1, CloseCivFit DEF AfterTimeout, Down, States
<1>3. CASE DiscoverRetries(a)
  BY <1>2, <1>3, SuspendKeeps, AwaitNames DEF DiscoverRetries
<1>4. CASE DiscoverFails(a)
  BY <1>2, <1>4, RaisesKeeps DEF DiscoverFails
<1>5. CASE Discover(a)
  <2>1. \/ Raises(a, "attribute", host) \/ Suspend(a, "flush", "connect", host)
        \/ StopsFrom(a, "soft reconnect", Len(Stops), host)
    BY <1>5 DEF Discover
  <2>2. CASE StopsFrom(a, "soft reconnect", Len(Stops), host)
    <3>1. StopsFrom(a, "soft reconnect", 4, host)
      BY <2>2, JoinsValue
    <3>2. "soft reconnect" \in Stopping /\ 4 \in 1..5
      BY DEF Stopping
    <3>3. host.conn = "disconnecting" => \E b \in Actors \ {a} : AtJoin(b)
      BY <1>1 DEF Left
    <3>. QED
      BY <1>1, <3>1, <3>2, <3>3, StopsFromKeeps
  <2>. QED
    BY <1>1, <2>1, <2>2, RaisesKeeps, SuspendKeeps, AwaitNames
<1>. QED
  BY <1>3, <1>4, <1>5

\* or has all it needs.
LEMMA StartupKeeps ==
    ASSUME LifeInv, NEW a \in Actors, Flushed(a) \/ StartupReady(a) \/ StartupFails(a)
    PROVE  LifeInv'
<1>0. pc[a] \notin Joins
  BY JoinsValue DEF Flushed, StartupReady, StartupFails, Runs
<1>1. ~AtJoin(a) /\ Left(a, host)
  BY <1>0, HostLeft DEF AtJoin
<1>2. CASE Flushed(a)
  <2>. DEFINE piped == [host EXCEPT !.tasks = @ \cup {"pump", "data watchdog"}]
              watched == IF AutoReconnect THEN {"worker", "token", "watchdog"} ELSE {"worker", "token"}
              up == [piped EXCEPT !.conn = "connected", !.tasks = @ \cup watched]
  <2>1. Left(a, piped) /\ Left(a, up)
    BY <1>1 DEF Left, Fit, Host, States, Tasks
  <2>2. \/ Raises(a, "attribute", host) \/ Raises(a, "connection", piped)
        \/ Suspend(a, "startup", "connect", up)
    BY <1>2 DEF Flushed
  <2>. HIDE DEF piped, up
  <2>. QED
    BY <1>1, <2>1, <2>2, RaisesKeeps, SuspendKeeps, AwaitNames
<1>3. CASE StartupReady(a)
  BY <1>1, <1>3, ReturnsKeeps DEF StartupReady
<1>4. CASE StartupFails(a)
  BY <1>1, <1>4, DisconnectingKeeps, RaisesKeeps DEF StartupFails
<1>. QED
  BY <1>2, <1>3, <1>4

\* soft_reconnect() begins.
LEMMA SoftReconnectingKeeps ==
    ASSUME LifeInv, NEW a \in Actors, pc[a] \notin Joins, SoftReconnecting(a)
    PROVE  LifeInv'
<1>1. Left(a, host) /\ Fit(a, host)
  BY HostLeft, HostFit DEF AtJoin
<1>2. Left(a, [host EXCEPT !.conn = "connected"])
  BY <1>1, LeftWith
<1>3. Left(a, [NewCiv(host, a) EXCEPT !.conn = "connecting"])
  BY <1>1 DEF Left, Fit, Host, NewCiv, States
<1>4. \/ Returns(a, "soft reconnect", [host EXCEPT !.conn = "connected"])
      \/ Returns(a, "soft reconnect", host)
      \/ Connecting(a, host)
      \/ Suspend(a, "open civ", "soft reconnect", [NewCiv(host, a) EXCEPT !.conn = "connecting"])
  BY DEF SoftReconnecting
<1>. QED
  BY <1>1, <1>2, <1>3, <1>4, ReturnsKeeps, ConnectingKeeps, SuspendKeeps, AwaitNames

\* What the user calls.
LEMMA UserKeeps ==
    ASSUME LifeInv, User
    PROVE  LifeInv'
<1>0. "user" \in Actors /\ pc["user"] \notin Joins
  BY JoinsValue DEF User, UserConnect, UserSoftReconnect, UserDisconnect, UserSoftDisconnect, Runs, Actors
<1>1. ~AtJoin("user") /\ Left("user", host) /\ Fit("user", host)
  BY <1>0, HostLeft, HostFit DEF AtJoin
<1>2. CASE UserConnect
  BY <1>0, <1>1, <1>2, ConnectingKeeps DEF UserConnect
<1>3. CASE UserSoftReconnect
  BY <1>0, <1>3, SoftReconnectingKeeps DEF UserSoftReconnect
<1>4. CASE UserDisconnect
  <2>1. CASE UNCHANGED <<fault, host, pc, op, fallback>>
    BY <2>1 DEF LifeInv, PartTypes, Matched, Worked, AtJoin
  <2>. QED
    BY <1>0, <1>1, <1>4, <2>1, DisconnectingKeeps DEF UserDisconnect
<1>5. CASE UserSoftDisconnect
  <2>. DEFINE down == [host EXCEPT !.conn = "disconnecting"]
  <2>1. /\ down \in Host /\ down.civ = host.civ /\ down.cancelled = host.cancelled
        /\ Left("user", Down(down))
    BY <1>1 DEF Left, Fit, Host, States, Down
  <2>2. IF host.civ = "none" THEN Returns("user", "soft disconnect", Down(down))
                             ELSE StopsFrom("user", "soft disconnect", 1, down)
    BY <1>5 DEF UserSoftDisconnect
  <2>3. host.civ # "none" => Fit("user", down)
    BY <1>1, <2>1 DEF Fit
  <2>4. "soft disconnect" \in Stopping /\ "soft disconnect" \in Teardown
    BY DEF Stopping, Teardown
  <2>5. 1 \in 1..5
    OBVIOUS
  <2>. HIDE DEF down
  <2>. QED
    BY <1>0, <2>1, <2>2, <2>3, <2>4, <2>5, ReturnsKeeps, StopsFromKeeps
<1>. QED
  BY <1>2, <1>3, <1>4, <1>5 DEF User

\* The watchdog and its reconnect loop.
LEMMA LoopKeeps ==
    ASSUME LifeInv, WatchdogTimeout \/ LoopAttempt
    PROVE  LifeInv'
<1>0. "loop" \in Actors /\ pc["loop"] \notin Joins
  BY JoinsValue DEF WatchdogTimeout, LoopAttempt, Runs, Actors
<1>1. ~AtJoin("loop") /\ Left("loop", host) /\ Fit("loop", host)
  BY <1>0, HostLeft, HostFit DEF AtJoin
<1>2. CASE WatchdogTimeout
  <2>. DEFINE h == [host EXCEPT !.conn = "reconnecting", !.tasks = @ \ {"watchdog"},
                                !.refs = @ \cup {"loop"}]
  <2>1. Left("loop", h)
    BY <1>1 DEF Left, Fit, Host, States
  <2>2. Suspend("loop", "created", "none", h)
    BY <1>2 DEF WatchdogTimeout
  <2>. HIDE DEF h
  <2>. QED
    BY <1>0, <2>1, <2>2, SuspendKeeps, AwaitNames
<1>3. CASE LoopAttempt
  <2>. DEFINE h == CloseCtrl(CloseCiv([host EXCEPT !.tasks = @ \ {"token"}]))
  <2>1. Left("loop", [h EXCEPT !.conn = "connecting"])
    BY <1>1 DEF Left, Fit, Host, States, CloseCtrl, CloseCiv
  <2>2. Ends("loop", host) \/ Connecting("loop", h)
    BY <1>3 DEF LoopAttempt
  <2>. HIDE DEF h
  <2>. QED
    BY <1>0, <1>1, <2>1, <2>2, EndsKeeps, SuspendKeeps, AwaitNames DEF Connecting
<1>. QED
  BY <1>2, <1>3

\* The data watchdog's recovery.
LEMMA RecoveryKeeps ==
    ASSUME LifeInv, Escalate \/ RecoveryStarts \/ RecoveryWakes \/ FallbackDisconnect
    PROVE  LifeInv'
<1>0. "recovery" \in Actors /\ pc["recovery"] \notin Joins
  BY JoinsValue DEF Escalate, RecoveryStarts, RecoveryWakes, FallbackDisconnect, Runs, Actors
<1>1. ~AtJoin("recovery") /\ Left("recovery", host) /\ Fit("recovery", host)
  BY <1>0, HostLeft, HostFit DEF AtJoin
<1>2. CASE Escalate
  <2>. DEFINE h == [host EXCEPT !.tasks = @ \ {"data watchdog"}, !.refs = @ \cup {"recovery"}]
  <2>1. Left("recovery", h)
    BY <1>1 DEF Left, Fit, Host
  <2>2. Suspend("recovery", "created", "none", h)
    BY <1>2 DEF Escalate
  <2>. HIDE DEF h
  <2>. QED
    BY <1>0, <2>1, <2>2, SuspendKeeps, AwaitNames
<1>3. CASE RecoveryStarts
  <2>1. StopsFrom("recovery", "cleanup", 1, host)
    BY <1>3 DEF RecoveryStarts
  <2>2. "cleanup" \in Stopping
    BY DEF Stopping
  <2>3. host.conn = "disconnecting" => \E b \in Actors \ {"recovery"} : AtJoin(b)
    BY <1>1 DEF Left
  <2>4. 1 \in 1..5
    OBVIOUS
  <2>. QED
    BY <1>0, <1>1, <2>1, <2>2, <2>3, <2>4, StopsFromKeeps
<1>4. CASE RecoveryWakes
  BY <1>0, <1>1, <1>4, ConnectingKeeps, SoftReconnectingKeeps DEF RecoveryWakes
<1>5. CASE FallbackDisconnect
  BY <1>0, <1>1, <1>5, DisconnectingKeeps DEF FallbackDisconnect
<1>. QED
  BY <1>2, <1>3, <1>4, <1>5

\* The token renewal, the watchdog and the pump end by themselves.
LEMMA TaskEndsKeeps ==
    ASSUME LifeInv, (\E t \in {"token", "watchdog"} : TickEnds(t)) \/ PumpEnds
    PROVE  LifeInv'
<1>1. \E t \in Tasks : host' = [host EXCEPT !.tasks = @ \ {t}] /\ UNCHANGED <<pc, op>>
  BY DEF TickEnds, PumpEnds, Tasks
<1>2. /\ host' \in Host /\ host'.conn = host.conn /\ host'.civ = host.civ
      /\ host'.cancelled = host.cancelled /\ UNCHANGED <<pc, op>>
  BY <1>1 DEF LifeInv, PartTypes, Host
<1>. QED
  BY <1>2 DEF LifeInv, PartTypes, Matched, Worked, AtJoin

-----------------------------------------------------------------------------
\* The invariant of the states is inductive.
LEMMA LifeStep ==
    ASSUME LifeInv, [Next]_vars
    PROVE  LifeInv'
<1>1. CASE \E a \in Actors : Proceed(a)
  BY <1>1, JoinsKeep, ConnectKeeps, OpenCivFailsKeeps, DiscoverKeeps, StartupKeeps DEF Proceed
<1>2. CASE User
  BY <1>2, UserKeeps
<1>3. CASE Background
  BY <1>3, LoopKeeps, RecoveryKeeps, TaskEndsKeeps DEF Background
<1>4. CASE FallbackDisconnect
  BY <1>4, RecoveryKeeps
<1>5. CASE UNCHANGED vars
  BY <1>5 DEF vars, LifeInv, PartTypes, Matched, Worked, AtJoin
<1>. QED
  BY <1>1, <1>2, <1>3, <1>4, <1>5 DEF Next

\* It holds of a radio object that has not connected.
LEMMA LifeInit ==
    ASSUME Init
    PROVE  LifeInv
<1>1. PartTypes
  BY DEF Init, PartTypes, Host, States, Awaits, Operations
<1>2. Matched
  BY JoinsValue DEF Init, Matched, Teardown
<1>3. Worked
  BY DEF Init, Worked
<1>. QED
  BY <1>1, <1>2, <1>3 DEF LifeInv

-----------------------------------------------------------------------------
(***************************************************************************)
(* disconnect() of a radio that works (CleanDisconnect): what is said once *)
(* nobody is at work is said before of the teardown that is. While it      *)
(* waits at Stops[i], only what Stops has from i on is left (Tearing);     *)
(* when it is over, nothing is (TornDown). Meanwhile nobody may start      *)
(* anything: no recovery runs, and the reconnect loop is gone or has its   *)
(* cancellation pending at an await that delivers it (LoopGone), since a   *)
(* loop that is at a join has been forgotten by the radio object before    *)
(* (LoopKnown).                                                            *)
(***************************************************************************)

\* A reconnect loop that tears down what it has connected has forgotten itself
\* before, so a disconnect() that knows of it finds it at no join, where its
\* cancellation would be swallowed.
LoopKnown ==
    /\ pc["loop"] \in Joins => "loop" \notin host.refs
    /\ op["loop"] # "soft reconnect"
    /\ pc["loop"] \in {"open civ", "discover civ"} => op["loop"] = "connect"

LoopGone == pc["loop"] = "idle" \/ ("loop" \in host.cancelled /\ pc["loop"] \notin Joins)

\* What is left to stop from Stops[i] on.
Remaining(i) == {Stops[j] : j \in i..4}

Tearing ==
    /\ op["user"] = "disconnect" /\ host.conn = "disconnecting" /\ host.civ # "none"
    /\ \E i \in 1..4 : pc["user"] = Stops[i] /\ host.tasks \subseteq Remaining(i)

TornDown ==
    /\ pc["user"] = "idle" /\ host.conn = "disconnected" /\ host.civ = "none"
    /\ ~CtrlAlive(host) /\ host.tasks = {}

Alone == pc["recovery"] = "idle" /\ LoopGone /\ (Tearing \/ TornDown)

DownInv == LoopKnown /\ (closed = "reachable" => Alone)

\* The loop is in h only if it was known before.
Known(h) == "loop" \in h.refs => "loop" \in host.refs

\* An operation that suspends: the loop never does so in soft_reconnect().
LEMMA SuspendLoop ==
    ASSUME LifeInv, LoopKnown, NEW a \in Actors, NEW h, Known(h), NEW await, NEW operation,
           Suspend(a, await, operation, h),
           a = "loop" => /\ operation # "soft reconnect" /\ (await \in Joins => "loop" \notin h.refs)
                         /\ await \in {"open civ", "discover civ"} => operation = "connect"
    PROVE  LoopKnown'
<1>1. host' = h /\ pc' = [pc EXCEPT ![a] = await] /\ op' = [op EXCEPT ![a] = operation]
  BY DEF Suspend
<1>2. pc \in [Actors -> Awaits] /\ op \in [Actors -> Operations] /\ "loop" \in Actors
  BY DEF LifeInv, PartTypes, Actors
<1>. QED
  BY <1>1, <1>2 DEF LoopKnown, Known

\* an operation that is done,
LEMMA EndsLoop ==
    ASSUME LifeInv, LoopKnown, NEW a \in Actors, NEW h \in Host, Known(h), Ends(a, h)
    PROVE  LoopKnown'
<1>1. host' = [h EXCEPT !.refs = @ \ {a}, !.cancelled = @ \ {a}]
      /\ pc' = [pc EXCEPT ![a] = "idle"] /\ op' = [op EXCEPT ![a] = "none"]
  BY DEF Ends
<1>2. pc \in [Actors -> Awaits] /\ op \in [Actors -> Operations] /\ "loop" \in Actors /\ "idle" \notin Joins
  BY JoinsValue DEF LifeInv, PartTypes, Actors
<1>3. "loop" \in host'.refs => "loop" \in host.refs
  BY <1>1 DEF Host, Known
<1>. QED
  BY <1>1, <1>2, <1>3 DEF LoopKnown

\* one that returns,
LEMMA ReturnsLoop ==
    ASSUME LifeInv, LoopKnown, NEW a \in Actors, NEW h \in Host, Known(h), NEW operation, Returns(a, operation, h)
    PROVE  LoopKnown'
BY SuspendLoop, EndsLoop DEF Returns

\* and one that raises.
LEMMA RaisesLoop ==
    ASSUME LifeInv, LoopKnown, NEW a \in Actors, NEW h \in Host, Known(h), NEW error, Raises(a, error, h)
    PROVE  LoopKnown'
<1>1. /\ [h EXCEPT !.conn = "disconnected"] \in Host /\ Known([h EXCEPT !.conn = "disconnected"])
      /\ [h EXCEPT !.conn = "reconnecting"] \in Host /\ Known([h EXCEPT !.conn = "reconnecting"])
  BY DEF Host, States, Known
<1>2. CASE a = "user"
  BY <1>2, EndsLoop DEF Raises
<1>3. CASE a = "loop"
  <2>1. \/ Ends(a, [h EXCEPT !.conn = "disconnected"])
        \/ Suspend(a, "sleep", "none", [h EXCEPT !.conn = "reconnecting"])
    BY <1>3 DEF Raises
  <2>2. "sleep" \notin Joins
    BY JoinsValue
  <2>. QED
    BY <1>1, <2>1, <2>2, EndsLoop, SuspendLoop
<1>4. CASE a = "recovery"
  <2>1. CASE Ends(a, h)
    BY <2>1, EndsLoop
  <2>2. CASE ~Ends(a, h)
    <3>1. PICK await \in {"raised", "sleep"} :
             host' = h /\ pc' = [pc EXCEPT ![a] = await] /\ op' = [op EXCEPT ![a] = "none"]
      BY <1>4, <2>2 DEF Raises
    <3>. QED
      BY <1>4, <3>1 DEF LoopKnown, Known, LifeInv, PartTypes, Actors
  <2>. QED
    BY <2>1, <2>2
<1>. QED
  BY <1>2, <1>3, <1>4 DEF Actors

\* What the handlers do to the radio object makes no loop known.
LEMMA KnownKept ==
    ASSUME NEW h \in Host, Known(h), NEW s \in States
    PROVE  /\ [h EXCEPT !.conn = s] \in Host /\ Known([h EXCEPT !.conn = s])
           /\ CloseCiv(h) \in Host /\ Known(CloseCiv(h))
           /\ CloseCtrl(h) \in Host /\ Known(CloseCtrl(h))
           /\ WithoutCiv(h) \in Host /\ Known(WithoutCiv(h))
           /\ Down(h) \in Host /\ Known(Down(h))
BY DEF Host, States, Known, CloseCiv, CloseCtrl, WithoutCiv, Down

\* Nothing is left to stop.
LEMMA StoppedLoop ==
    ASSUME LifeInv, LoopKnown, NEW a \in Actors, NEW h \in Host, Known(h), NEW operation \in Stopping,
           Stopped(a, operation, h)
    PROVE  LoopKnown'
<1>1. CASE operation = "soft reconnect"
  <2>. DEFINE up == [h EXCEPT !.conn = "connected", !.tasks = @ \cup {"pump"}]
              on == [up EXCEPT !.tasks = @ \cup {"worker", "data watchdog"}]
  <2>1. up \in Host /\ Known(up) /\ on \in Host /\ Known(on)
    BY DEF Host, States, Tasks, Known
  <2>2. Raises(a, "attribute", up) \/ Returns(a, "soft reconnect", on)
    BY <1>1 DEF Stopped, SoftStarts
  <2>. HIDE DEF up, on
  <2>. QED
    BY <2>1, <2>2, RaisesLoop, ReturnsLoop
<1>2. CASE operation # "soft reconnect"
  <2>1. /\ CloseCiv(h) \in Host /\ Known(CloseCiv(h))
        /\ WithoutCiv(CloseCiv(h)) \in Host /\ Known(WithoutCiv(CloseCiv(h)))
        /\ Down(CloseCiv(h)) \in Host /\ Known(Down(CloseCiv(h)))
        /\ Down(CloseCtrl(CloseCiv(h))) \in Host /\ Known(Down(CloseCtrl(CloseCiv(h))))
    BY KnownKept DEF States
  <2>2. \/ Returns(a, operation, WithoutCiv(CloseCiv(h)))
        \/ Raises(a, "attribute", h)
        \/ Returns(a, operation, Down(CloseCiv(h)))
        \/ Returns(a, operation, Down(CloseCtrl(CloseCiv(h))))
        \/ Raises(a, "connection", Down(CloseCtrl(CloseCiv(h))))
    BY <1>2 DEF Stopped, Stopping, Teardown
  <2>. QED
    BY <2>1, <2>2, RaisesLoop, ReturnsLoop
<1>. QED
  BY <1>1, <1>2

\* The teardown goes on from Stops[i],
LEMMA StopsFromLoop ==
    ASSUME LifeInv, LoopKnown, NEW a \in Actors, NEW h \in Host, Known(h), NEW operation \in Stopping, NEW i \in 1..5,
           a = "loop" => operation # "soft reconnect" /\ "loop" \notin h.refs,
           StopsFrom(a, operation, i, h)
    PROVE  LoopKnown'
<1>. DEFINE alive == {j \in i..Len(Stops) : Stops[j] \in h.tasks \cup h.refs}
            t == Stops[CHOOSE j \in alive : \A k \in alive : j <= k]
            joining == [h EXCEPT !.cancelled = @ \cup ({t} \cap {"recovery"})]
<1>1. CASE alive = {}
  BY <1>1, StoppedLoop DEF StopsFrom
<1>2. CASE alive # {}
  <2>1. joining.refs = h.refs /\ Known(joining)
    BY DEF Host, Known
  <2>2. Suspend(a, t, operation, joining)
    BY <1>2 DEF StopsFrom
  <2>3. alive \subseteq i..4
    BY JoinsValue
  <2>4. (CHOOSE j \in alive : \A k \in alive : j <= k) \in 1..4
    BY <1>2, <2>3, LeastOf
  <2>6. t \in Joins
    BY <2>4, JoinsValue
  <2>5. t \notin {"open civ", "discover civ"}
    <3>1. \A x \in Joins : x \notin {"open civ", "discover civ"}
      BY JoinsValue
    <3>. QED
      BY <2>6, <3>1
  <2>. HIDE DEF joining, t
  <2>. QED
    BY <2>1, <2>2, <2>5, SuspendLoop
<1>. QED
  BY <1>1, <1>2

\* begins,
LEMMA DisconnectingLoop ==
    ASSUME LifeInv, LoopKnown, NEW a \in Actors, NEW operation \in {"disconnect", "abort"},
           Disconnecting(a, operation, host)
    PROVE  LoopKnown'
<1>. DEFINE down == [host EXCEPT !.conn = "disconnecting",
                                 !.tasks = @ \ {"watchdog", "token"},
                                 !.cancelled = @ \cup (host.refs \cap {"loop"}),
                                 !.refs = @ \ {"loop"}]
<1>1. down \in Host /\ "loop" \notin down.refs /\ Known(down)
  BY DEF LifeInv, PartTypes, Host, States, Known
<1>2. Down(CloseCtrl(down)) \in Host /\ Known(Down(CloseCtrl(down)))
  BY <1>1, KnownKept DEF States
<1>3. \/ StopsFrom(a, operation, 1, down)
      \/ Raises(a, "connection", Down(CloseCtrl(down)))
      \/ Returns(a, operation, Down(CloseCtrl(down)))
  BY DEF Disconnecting
<1>4. operation \in Stopping /\ operation # "soft reconnect"
  BY DEF Stopping, Teardown
<1>5. 1 \in 1..5
  OBVIOUS
<1>. HIDE DEF down
<1>. QED
  BY <1>1, <1>2, <1>3, <1>4, <1>5, StopsFromLoop, RaisesLoop, ReturnsLoop

\* and is resumed
LEMMA JoinDoneLoop ==
    ASSUME LifeInv, LoopKnown, NEW a \in Actors, pc[a] \in Joins, NEW c \in SUBSET {"loop", "recovery"},
           JoinDone(a, [host EXCEPT !.cancelled = c])
    PROVE  LoopKnown'
<1>. DEFINE i == CHOOSE j \in DOMAIN Stops : Stops[j] = pc[a]
            h == [[host EXCEPT !.cancelled = c] EXCEPT !.tasks = @ \ {pc[a]}, !.refs = @ \ {pc[a]}]
<1>1. h \in Host /\ Known(h) /\ h.refs \subseteq host.refs
  BY DEF LifeInv, PartTypes, Host, Known
<1>2. op[a] \in Stopping
  BY DEF LifeInv, Matched, Stopping
<1>3. a = "loop" => op[a] # "soft reconnect" /\ "loop" \notin h.refs
  <2>1. ASSUME a = "loop" PROVE op["loop"] # "soft reconnect" /\ "loop" \notin host.refs
    BY <2>1 DEF LoopKnown
  <2>2. ASSUME a = "loop" PROVE "loop" \notin h.refs
    BY <1>1, <2>1, <2>2
  <2>. QED
    BY <2>1, <2>2
<1>4. StopsFrom(a, op[a], i + 1, h)
  BY DEF JoinDone
<1>5. i \in 1..4
  BY JoinsValue DEF Joins
<1>. HIDE DEF i, h
<1>6. i + 1 \in 1..5
  BY <1>5
<1>. QED
  BY <1>1, <1>2, <1>3, <1>4, <1>6, StopsFromLoop

\* at each of its joins.
LEMMA JoinsLoop ==
    ASSUME LifeInv, LoopKnown, NEW a \in Actors, Joined(a) \/ CancelDelivered(a)
    PROVE  LoopKnown'
<1>0. host \in Host /\ Known(host) /\ host = [host EXCEPT !.cancelled = host.cancelled]
      /\ host.cancelled \in SUBSET {"loop", "recovery"}
      /\ host.cancelled \ {a} \in SUBSET {"loop", "recovery"}
  BY DEF LifeInv, PartTypes, Host, Known
<1>1. CASE Joined(a)
  <2>1. pc[a] \in Joins /\ JoinDone(a, host)
    BY <1>1 DEF Joined, Runs
  <2>2. JoinDone(a, [host EXCEPT !.cancelled = host.cancelled])
    BY <1>0, <2>1
  <2>. QED
    BY <1>0, <2>1, <2>2, JoinDoneLoop
<1>2. CASE CancelDelivered(a) /\ pc[a] \in Joins
  <2>1. JoinDone(a, [host EXCEPT !.cancelled = host.cancelled \ {a}])
    BY <1>2 DEF CancelDelivered
  <2>. QED
    BY <1>0, <1>2, <2>1, JoinDoneLoop
<1>3. CASE CancelDelivered(a) /\ pc[a] \notin Joins
  BY <1>0, <1>3, EndsLoop DEF CancelDelivered
<1>. QED
  BY <1>1, <1>2, <1>3

\* connect() and soft_reconnect() begin.
LEMMA ConnectingLoop ==
    ASSUME LifeInv, LoopKnown, NEW a \in Actors, NEW h \in Host, Known(h), Connecting(a, h)
    PROVE  LoopKnown'
<1>1. Known([h EXCEPT !.conn = "connecting"]) /\ "open ctrl" \notin Joins
  BY JoinsValue DEF Known, Host
<1>. QED
  BY <1>1, SuspendLoop DEF Connecting

LEMMA SoftReconnectingLoop ==
    ASSUME LifeInv, LoopKnown, NEW a \in Actors, a # "loop", SoftReconnecting(a)
    PROVE  LoopKnown'
<1>1. host \in Host /\ Known(host)
  BY DEF LifeInv, PartTypes, Known
<1>2. [host EXCEPT !.conn = "connected"] \in Host /\ Known([host EXCEPT !.conn = "connected"])
  BY <1>1, KnownKept DEF States
<1>3. Known([NewCiv(host, a) EXCEPT !.conn = "connecting"])
  BY <1>1 DEF Known, Host, NewCiv
<1>4. \/ Returns(a, "soft reconnect", [host EXCEPT !.conn = "connected"])
      \/ Returns(a, "soft reconnect", host)
      \/ Connecting(a, host)
      \/ Suspend(a, "open civ", "soft reconnect", [NewCiv(host, a) EXCEPT !.conn = "connecting"])
  BY DEF SoftReconnecting
<1>. QED
  BY <1>1, <1>2, <1>3, <1>4, ReturnsLoop, ConnectingLoop, SuspendLoop

\* The steps of connect() and of soft_reconnect().
LEMMA ProceedLoop ==
    ASSUME LifeInv, LoopKnown, NEW a \in Actors, Proceed(a)
    PROVE  LoopKnown'
<1>0. /\ host \in Host /\ Known(host) /\ (a = "loop" => op[a] # "soft reconnect")
      /\ a = "loop" /\ pc[a] \in {"open civ", "discover civ"} => op[a] = "connect"
  BY DEF LifeInv, PartTypes, Known, LoopKnown
<1>1. CASE Joined(a) \/ CancelDelivered(a)
  BY <1>1, JoinsLoop
<1>2. CASE OpenCtrl(a)
  <2>1. Known([host EXCEPT !.sockets = @ \cup {"ctrl"}])
    BY <1>0 DEF Known, Host
  <2>. QED
    BY <1>2, <2>1, SuspendLoop, JoinsValue DEF OpenCtrl
<1>3. CASE OpenCtrlFails(a)
  BY <1>0, <1>3, RaisesLoop DEF OpenCtrlFails
<1>4. CASE Handshake(a)
  <2>1. Known(NewCiv(host, a))
    BY <1>0 DEF Known, Host, NewCiv
  <2>. QED
    BY <1>4, <2>1, SuspendLoop, JoinsValue DEF Handshake
<1>5. CASE HandshakeFails(a)
  <2>1. Down(CloseCtrl(host)) \in Host /\ Known(Down(CloseCtrl(host)))
    BY <1>0, KnownKept DEF States
  <2>. QED
    BY <1>0, <1>5, <2>1, RaisesLoop DEF HandshakeFails
<1>6. CASE OpenCiv(a)
  <2>1. Known([host EXCEPT !.sockets = @ \cup {a}])
    BY <1>0 DEF Known, Host
  <2>. QED
    BY <1>0, <1>6, <2>1, SuspendLoop, JoinsValue DEF OpenCiv, Runs
<1>7. CASE OpenCivFails(a)
  <2>. DEFINE bare == [host EXCEPT !.civ = "none"]
  <2>1. bare \in Host /\ Known(bare)
    BY <1>0 DEF Known, Host
  <2>2. WithoutCiv(bare) \in Host /\ Known(WithoutCiv(bare)) /\ CloseCtrl(host) \in Host /\ Known(CloseCtrl(host))
    BY <1>0, <2>1, KnownKept DEF States
  <2>3. Raises(a, "connection", CloseCtrl(host)) \/ Raises(a, "connection", WithoutCiv(bare))
    BY <1>7 DEF OpenCivFails
  <2>. QED
    BY <2>2, <2>3, RaisesLoop
<1>8. CASE DiscoverRetries(a) \/ DiscoverFails(a)
  <2>1. CloseCiv(host) \in Host /\ Known(CloseCiv(host))
    BY <1>0, KnownKept DEF States
  <2>2. CloseCtrl(CloseCiv(host)) \in Host /\ Known(CloseCtrl(CloseCiv(host)))
    BY <2>1, KnownKept DEF States
  <2>3. AfterTimeout(a) \in Host /\ Known(AfterTimeout(a))
    BY <1>0, <2>2, KnownKept DEF States, AfterTimeout
  <2>. QED
    BY <1>8, <2>3, SuspendLoop, RaisesLoop, JoinsValue DEF DiscoverRetries, DiscoverFails
<1>9. CASE Discover(a)
  <2>1. \/ Raises(a, "attribute", host) \/ Suspend(a, "flush", "connect", host)
        \/ a # "loop" /\ StopsFrom(a, "soft reconnect", Len(Stops), host)
    BY <1>0, <1>9 DEF Discover, Runs
  <2>2. "soft reconnect" \in Stopping
    BY DEF Stopping
  <2>3. Len(Stops) \in 1..5
    <3>1. Len(Stops) = 4
      BY JoinsValue
    <3>. QED
      BY <3>1
  <2>. QED
    BY <1>0, <2>1, <2>2, <2>3, RaisesLoop, SuspendLoop, StopsFromLoop, JoinsValue
<1>10. CASE CooldownOver(a)
  BY <1>0, <1>10, ConnectingLoop DEF CooldownOver
<1>11. CASE Flushed(a)
  <2>. DEFINE piped == [host EXCEPT !.tasks = @ \cup {"pump", "data watchdog"}]
              watched == IF AutoReconnect THEN {"worker", "token", "watchdog"} ELSE {"worker", "token"}
              up == [piped EXCEPT !.conn = "connected", !.tasks = @ \cup watched]
  <2>1. piped \in Host /\ Known(piped) /\ Known(up)
    BY <1>0 DEF Known, Host, Tasks
  <2>2. \/ Raises(a, "attribute", host) \/ Raises(a, "connection", piped)
        \/ Suspend(a, "startup", "connect", up)
    BY <1>11 DEF Flushed
  <2>. HIDE DEF piped, up
  <2>. QED
    BY <1>0, <2>1, <2>2, RaisesLoop, SuspendLoop, JoinsValue
<1>12. CASE StartupReady(a)
  BY <1>0, <1>12, ReturnsLoop DEF StartupReady
<1>13. CASE StartupFails(a)
  BY <1>0, <1>13, DisconnectingLoop, RaisesLoop DEF StartupFails
<1>. QED
  BY <1>1, <1>2, <1>3, <1>4, <1>5, <1>6, <1>7, <1>8, <1>9, <1>10, <1>11, <1>12, <1>13 DEF Proceed

\* Every step.
LEMMA LoopStep ==
    ASSUME LifeInv, LoopKnown, [Next]_vars
    PROVE  LoopKnown'
<1>0. /\ host \in Host /\ Known(host)
      /\ "user" \in Actors /\ "loop" \in Actors /\ "recovery" \in Actors
  BY DEF LifeInv, PartTypes, Known, Actors
<1>1. ASSUME NEW a \in Actors, Proceed(a) PROVE LoopKnown'
  BY <1>1, ProceedLoop
<1>2. CASE UserConnect
  BY <1>0, <1>2, ConnectingLoop DEF UserConnect
<1>3. CASE UserSoftReconnect
  BY <1>0, <1>3, SoftReconnectingLoop DEF UserSoftReconnect
<1>4. CASE UserDisconnect
  <2>1. CASE UNCHANGED <<fault, host, pc, op, fallback>>
    BY <2>1 DEF LoopKnown
  <2>. QED
    BY <1>0, <1>4, <2>1, DisconnectingLoop DEF UserDisconnect
<1>5. CASE UserSoftDisconnect
  <2>. DEFINE down == [host EXCEPT !.conn = "disconnecting"]
  <2>1. down \in Host /\ Known(down)
    BY <1>0, KnownKept DEF States
  <2>2. Down(down) \in Host /\ Known(Down(down))
    BY <2>1, KnownKept DEF States
  <2>3. Returns("user", "soft disconnect", Down(down)) \/ StopsFrom("user", "soft disconnect", 1, down)
    BY <1>5 DEF UserSoftDisconnect
  <2>4. "soft disconnect" \in Stopping
    BY DEF Stopping, Teardown
  <2>5. 1 \in 1..5
    OBVIOUS
  <2>. HIDE DEF down
  <2>. QED
    BY <1>0, <2>1, <2>2, <2>3, <2>4, <2>5, ReturnsLoop, StopsFromLoop
<1>6. CASE WatchdogTimeout
  BY <1>6, JoinsValue DEF WatchdogTimeout, Suspend, LoopKnown, LifeInv, PartTypes, Actors
<1>7. CASE LoopAttempt
  <2>. DEFINE h == [host EXCEPT !.tasks = @ \ {"token"}]
  <2>1. h \in Host /\ Known(h)
    BY <1>0 DEF Host, Known
  <2>2. CloseCiv(h) \in Host /\ Known(CloseCiv(h))
    BY <2>1, KnownKept DEF States
  <2>3. CloseCtrl(CloseCiv(h)) \in Host /\ Known(CloseCtrl(CloseCiv(h)))
    BY <2>2, KnownKept DEF States
  <2>4. Ends("loop", host) \/ Connecting("loop", CloseCtrl(CloseCiv(h)))
    BY <1>7 DEF LoopAttempt
  <2>. HIDE DEF h
  <2>. QED
    BY <1>0, <2>3, <2>4, EndsLoop, ConnectingLoop
<1>8. CASE Escalate
  <2>. DEFINE h == [host EXCEPT !.tasks = @ \ {"data watchdog"}, !.refs = @ \cup {"recovery"}]
  <2>1. Known(h)
    BY <1>0 DEF Host, Known
  <2>2. Suspend("recovery", "created", "none", h)
    BY <1>8 DEF Escalate
  <2>. HIDE DEF h
  <2>. QED
    BY <1>0, <2>1, <2>2, SuspendLoop
<1>9. CASE RecoveryStarts
  <2>1. "cleanup" \in Stopping
    BY DEF Stopping
  <2>2. 1 \in 1..5
    OBVIOUS
  <2>. QED
    BY <1>0, <1>9, <2>1, <2>2, StopsFromLoop DEF RecoveryStarts
<1>10. CASE RecoveryWakes
  BY <1>0, <1>10, ConnectingLoop, SoftReconnectingLoop DEF RecoveryWakes
<1>11. CASE (\E t \in {"token", "watchdog"} : TickEnds(t)) \/ PumpEnds
  <2>1. PICK t : host' = [host EXCEPT !.tasks = @ \ {t}] /\ UNCHANGED <<pc, op>>
    BY <1>11 DEF TickEnds, PumpEnds
  <2>2. host'.refs = host.refs
    BY <1>0, <2>1 DEF Host
  <2>. QED
    BY <2>1, <2>2 DEF LoopKnown
<1>12. CASE FallbackDisconnect
  BY <1>0, <1>12, DisconnectingLoop DEF FallbackDisconnect
<1>13. CASE UNCHANGED vars
  BY <1>13 DEF vars, LoopKnown
<1>. QED
  BY <1>1, <1>2, <1>3, <1>4, <1>5, <1>6, <1>7, <1>8, <1>9, <1>10, <1>11, <1>12, <1>13 DEF Next, User, Background

\* A disconnect() at Stops[i]: the next task that runs, or everything is down.
LEMMA TearingOn ==
    ASSUME LifeInv, NEW h \in Host, NEW i \in 1..5, h.conn = "disconnecting", h.civ # "none",
           h.tasks \subseteq Remaining(i), StopsFrom("user", "disconnect", i, h)
    PROVE  /\ Tearing' \/ TornDown'
           /\ h.cancelled \subseteq host'.cancelled
           /\ pc' = [pc EXCEPT !["user"] = pc'["user"]]
<1>. DEFINE alive == {j \in i..Len(Stops) : Stops[j] \in h.tasks \cup h.refs}
            m == CHOOSE j \in alive : \A k \in alive : j <= k
<1>0. /\ alive = {j \in i..4 : Stops[j] \in h.tasks \cup h.refs}
      /\ pc \in [Actors -> Awaits] /\ op \in [Actors -> Operations] /\ "user" \in Actors
  BY JoinsValue DEF LifeInv, PartTypes, Actors
<1>1. CASE alive = {}
  <2>1. h.tasks = {}
    BY <1>0, <1>1 DEF Remaining
  <2>2. Ends("user", Down(CloseCtrl(CloseCiv(h))))
    BY <1>1 DEF StopsFrom, Stopped, Returns
  <2>3. /\ Down(CloseCtrl(CloseCiv(h))) \in Host
        /\ host' = [Down(CloseCtrl(CloseCiv(h))) EXCEPT !.refs = @ \ {"user"}, !.cancelled = @ \ {"user"}]
        /\ pc' = [pc EXCEPT !["user"] = "idle"]
    BY <2>2 DEF Ends, Host, Down, CloseCtrl, CloseCiv, States
  <2>4. /\ host'.conn = "disconnected" /\ host'.civ = "none" /\ host'.tasks = {}
        /\ "ctrl" \notin host'.sockets /\ h.cancelled \subseteq host'.cancelled
    BY <2>1, <2>3 DEF Host, Down, CloseCtrl, CloseCiv
  <2>. QED
    BY <1>0, <2>3, <2>4 DEF TornDown, CtrlAlive
<1>2. CASE alive # {}
  <2>1. m \in alive /\ m \in 1..4 /\ \A k \in alive : m <= k
    <3>1. alive \subseteq i..4
      BY <1>0
    <3>. QED
      BY <1>2, <3>1, LeastOf
  <2>2. Suspend("user", Stops[m], "disconnect", [h EXCEPT !.cancelled = @ \cup ({Stops[m]} \cap {"recovery"})])
    BY <1>2 DEF StopsFrom
  <2>3. /\ host'.conn = "disconnecting" /\ host'.civ # "none" /\ host'.tasks = h.tasks
        /\ h.cancelled \subseteq host'.cancelled
        /\ pc' = [pc EXCEPT !["user"] = Stops[m]] /\ op'["user"] = "disconnect"
    BY <1>0, <2>2 DEF Suspend, Host
  <2>4. h.tasks \subseteq Remaining(m)
    <3>. HIDE DEF m
    <3>1. ASSUME NEW t \in h.tasks PROVE t \in Remaining(m)
      <4>1. PICK j \in i..4 : t = Stops[j]
        BY <3>1 DEF Remaining
      <4>2. j \in alive
        BY <1>0, <4>1
      <4>. HIDE DEF alive
      <4>3. j \in m..4
        BY <2>1, <4>1, <4>2
      <4>. QED
        BY <4>1, <4>3 DEF Remaining
    <3>. QED
      BY <3>1
  <2>. HIDE DEF m, alive
  <2>. QED
    BY <1>0, <2>1, <2>3, <2>4 DEF Tearing
<1>. QED
  BY <1>1, <1>2

\* The loop and the recovery are as they were.
LEMMA AloneKept ==
    ASSUME LifeInv, Alone, host.cancelled \subseteq host'.cancelled,
           pc'["loop"] = pc["loop"], pc'["recovery"] = pc["recovery"], Tearing' \/ TornDown'
    PROVE  Alone'
BY DEF Alone, LoopGone

\* Nobody but the user's disconnect() and the end of a cancelled loop does
\* anything while the radio goes down, and after.
LEMMA AloneStep ==
    ASSUME LifeInv, DownInv, [Next]_vars, closed' = "reachable"
    PROVE  Alone'
<1>0. /\ host \in Host /\ pc \in [Actors -> Awaits] /\ op \in [Actors -> Operations]
      /\ "user" \in Actors /\ "loop" \in Actors /\ "recovery" \in Actors
      /\ "user" \notin host.cancelled
  BY DEF LifeInv, PartTypes, Actors, Host
<1>1. CASE UserDisconnect
  <2>. DEFINE down == [host EXCEPT !.conn = "disconnecting",
                                   !.tasks = @ \ {"watchdog", "token"},
                                   !.cancelled = @ \cup (host.refs \cap {"loop"}),
                                   !.refs = @ \ {"loop"}]
  <2>1. /\ host.conn = "connected" /\ host.civ \in host.sockets /\ pc["recovery"] = "idle"
        /\ pc["loop"] # "idle" => "loop" \in host.refs
        /\ Disconnecting("user", "disconnect", host)
    BY <1>1 DEF UserDisconnect
  <2>2. host.civ # "none"
    BY <1>0, <2>1 DEF Host, Actors
  <2>3. StopsFrom("user", "disconnect", 1, down)
    BY <2>1, <2>2 DEF Disconnecting
  <2>4. /\ down \in Host /\ down.conn = "disconnecting" /\ down.civ # "none"
        /\ down.tasks \subseteq Tasks \ {"watchdog", "token"}
        /\ host.cancelled \cup (host.refs \cap {"loop"}) \subseteq down.cancelled
    BY <1>0, <2>2 DEF Host, States
  <2>5. Tasks \ {"watchdog", "token"} \subseteq Remaining(1)
    <3>1. "data watchdog" = Stops[1] /\ "worker" = Stops[3] /\ "pump" = Stops[4]
      BY DEF Stops
    <3>2. 1 \in 1..4 /\ 3 \in 1..4 /\ 4 \in 1..4
      OBVIOUS
    <3>. QED
      BY <3>1, <3>2 DEF Tasks, Remaining
  <2>. HIDE DEF down
  <2>6. /\ (Tearing' \/ TornDown')
        /\ down.cancelled \subseteq host'.cancelled
        /\ pc' = [pc EXCEPT !["user"] = pc'["user"]]
    BY <2>3, <2>4, <2>5, TearingOn
  <2>7. pc["loop"] # "idle" => "loop" \in host'.cancelled /\ pc["loop"] \notin Joins
    BY <2>1, <2>4, <2>6 DEF DownInv, LoopKnown
  <2>8. pc'["loop"] = pc["loop"] /\ pc'["recovery"] = "idle"
    BY <1>0, <2>1, <2>6
  <2>. QED
    BY <2>6, <2>7, <2>8 DEF Alone, LoopGone
<1>2. CASE ~UserDisconnect
  <2>1. closed = "reachable" /\ Alone
    BY <1>2 DEF DownInv, Next, Proceed, User, Background, UserConnect, UserSoftReconnect, UserSoftDisconnect,
       Joined, CancelDelivered, OpenCtrl, OpenCtrlFails, Handshake, HandshakeFails, OpenCiv, OpenCivFails, Discover,
       DiscoverRetries, DiscoverFails, CooldownOver, Flushed, StartupReady, StartupFails, WatchdogTimeout,
       LoopAttempt, Escalate, RecoveryStarts, RecoveryWakes, TickEnds, PumpEnds, FallbackDisconnect, vars
  <2>2. /\ host.conn \in {"disconnecting", "disconnected"} /\ pc["recovery"] = "idle" /\ LoopGone
        /\ pc["user"] \in Joins \cup {"idle"}
    BY <2>1, JoinsValue DEF Alone, Tearing, TornDown
  <2>3. ASSUME NEW a \in {"user", "recovery"}, NEW await \in Awaits \ (Joins \cup {"idle"}), Runs(a, await)
        PROVE  FALSE
    BY <2>2, <2>3 DEF Runs
  <2>4. ASSUME NEW await \in Awaits \ {"idle"}, Runs("loop", await) PROVE FALSE
    BY <2>2, <2>4 DEF Runs, LoopGone
  <2>5. ASSUME NEW a \in Actors, NEW await \in Awaits \ (Joins \cup {"idle"}), Runs(a, await) PROVE FALSE
    BY <2>3, <2>4, <2>5 DEF Actors
  <2>6. /\ \A t \in Joins : t \in Awaits \ {"idle"} /\ t # "raised"
        /\ {"open ctrl", "handshake", "open civ", "discover civ", "cooldown", "flush", "startup", "created",
            "sleep"} \subseteq Awaits \ (Joins \cup {"idle"})
    BY JoinsValue DEF Awaits
  <2>7. ASSUME NEW a \in Actors, Joined(a) PROVE Alone'
    <3>1. PICK t \in Joins : Runs(a, t)
      BY <2>7 DEF Joined
    <3>2. pc[a] = t /\ t # "idle" /\ a = "user"
      BY <2>2, <2>4, <2>6, <3>1 DEF Runs, Actors
    <3>3. PICK i \in 1..4 : /\ pc["user"] = Stops[i] /\ host.tasks \subseteq Remaining(i)
                            /\ op["user"] = "disconnect" /\ host.conn = "disconnecting" /\ host.civ # "none"
      BY <2>1, <3>2 DEF Alone, Tearing, TornDown
    <3>. DEFINE h == [host EXCEPT !.tasks = @ \ {pc["user"]}, !.refs = @ \ {pc["user"]}]
    <3>4. (CHOOSE j \in DOMAIN Stops : Stops[j] = pc["user"]) = i
      <4>1. \A j \in DOMAIN Stops : Stops[j] = pc["user"] <=> j = i
        <5>1. DOMAIN Stops = 1..4
          BY JoinsValue
        <5>2. i \in 1..4 /\ Stops[i] = pc["user"]
          BY <3>3
        <5>. QED
          BY <5>1, <5>2, StopsDiffer
      <4>2. DOMAIN Stops = 1..4
        BY JoinsValue
      <4>. QED
        BY <3>3, <4>1, <4>2
    <3>5. StopsFrom("user", "disconnect", i + 1, h)
      BY <2>7, <3>2, <3>3, <3>4 DEF Joined, JoinDone
    <3>6. /\ h \in Host /\ h.conn = "disconnecting" /\ h.civ # "none"
          /\ h.tasks = host.tasks \ {Stops[i]} /\ h.cancelled = host.cancelled
      BY <1>0, <3>3 DEF Host
    <3>7. h.tasks \subseteq Remaining(i + 1)
      <4>1. ASSUME NEW t2 \in h.tasks PROVE t2 \in Remaining(i + 1)
        <5>1. PICK j \in i..4 : t2 = Stops[j]
          BY <3>3, <3>6, <4>1 DEF Remaining
        <5>2. j # i
          BY <3>6, <4>1, <5>1
        <5>3. j \in (i + 1)..4
          BY <5>1, <5>2
        <5>. QED
          BY <5>1, <5>3 DEF Remaining
      <4>. QED
        BY <4>1
    <3>8. i + 1 \in 1..5
      OBVIOUS
    <3>. HIDE DEF h
    <3>9. /\ Tearing' \/ TornDown'
          /\ h.cancelled \subseteq host'.cancelled
          /\ pc' = [pc EXCEPT !["user"] = pc'["user"]]
      BY <3>5, <3>6, <3>7, <3>8, TearingOn
    <3>10. pc'["loop"] = pc["loop"] /\ pc'["recovery"] = pc["recovery"]
      BY <1>0, <3>9
    <3>. QED
      BY <2>1, <3>6, <3>9, <3>10, AloneKept
  <2>8. ASSUME NEW a \in Actors, CancelDelivered(a) PROVE Alone'
    <3>1. a = "loop" /\ pc["loop"] \notin Joins
      BY <1>0, <2>2, <2>8 DEF CancelDelivered, Actors, LoopGone
    <3>2. Ends("loop", host)
      BY <2>8, <3>1 DEF CancelDelivered
    <3>3. /\ pc' = [pc EXCEPT !["loop"] = "idle"] /\ op' = [op EXCEPT !["loop"] = "none"]
          /\ host'.conn = host.conn /\ host'.civ = host.civ /\ host'.tasks = host.tasks
          /\ host'.sockets = host.sockets
      BY <1>0, <3>2 DEF Ends, Host
    <3>4. Tearing' \/ TornDown'
      BY <1>0, <2>1, <3>3 DEF Alone, Tearing, TornDown, CtrlAlive
    <3>. QED
      BY <1>0, <2>2, <3>3, <3>4 DEF Alone, LoopGone
  <2>9. ASSUME NEW a \in Actors, Proceed(a) PROVE Alone'
    BY <2>5, <2>6, <2>7, <2>8, <2>9 DEF Proceed, OpenCtrl, OpenCtrlFails, Handshake, HandshakeFails, OpenCiv,
       OpenCivFails, Discover, DiscoverRetries, DiscoverFails, CooldownOver, Flushed, StartupReady, StartupFails
  <2>10. ASSUME User PROVE FALSE
    BY <1>2, <2>2, <2>10 DEF User, UserConnect, UserSoftReconnect, UserSoftDisconnect
  <2>11. ASSUME WatchdogTimeout \/ LoopAttempt \/ RecoveryStarts \/ RecoveryWakes \/ FallbackDisconnect
         PROVE  FALSE
    BY <1>0, <2>2, <2>5, <2>6, <2>11
       DEF WatchdogTimeout, LoopAttempt, RecoveryStarts, RecoveryWakes, FallbackDisconnect
  <2>12. ASSUME Escalate PROVE FALSE
    <3>1. "data watchdog" \in host.tasks /\ pc["user"] # "data watchdog"
      BY <1>0, <2>12 DEF Escalate
    <3>2. PICK i \in 1..4 : pc["user"] = Stops[i] /\ host.tasks \subseteq Remaining(i)
      BY <2>1, <3>1 DEF Alone, Tearing, TornDown
    <3>3. PICK j \in i..4 : "data watchdog" = Stops[j]
      BY <3>1, <3>2 DEF Remaining
    <3>4. "data watchdog" = Stops[1]
      BY DEF Stops
    <3>5. j \in 1..4 /\ 1 \in 1..4 /\ i <= j
      OBVIOUS
    <3>6. j = 1
      BY <3>3, <3>4, <3>5, StopsDiffer
    <3>7. i = 1
      BY <3>5, <3>6
    <3>. QED
      BY <3>1, <3>2, <3>4, <3>7
  <2>13. ASSUME (\E t \in {"token", "watchdog"} : TickEnds(t)) \/ PumpEnds PROVE Alone'
    <3>1. PICK t : host' = [host EXCEPT !.tasks = @ \ {t}] /\ UNCHANGED <<pc, op>>
      BY <2>13 DEF TickEnds, PumpEnds
    <3>2. /\ host'.conn = host.conn /\ host'.civ = host.civ /\ host'.tasks \subseteq host.tasks
          /\ host'.sockets = host.sockets /\ host'.cancelled = host.cancelled
      BY <1>0, <3>1 DEF Host
    <3>3. Tearing' \/ TornDown'
      BY <2>1, <3>1, <3>2 DEF Alone, Tearing, TornDown, CtrlAlive
    <3>. QED
      BY <2>1, <3>1, <3>2, <3>3, AloneKept
  <2>14. ASSUME UNCHANGED vars PROVE Alone'
    BY <2>1, <2>14 DEF vars, Alone, LoopGone, Tearing, TornDown, CtrlAlive
  <2>. QED
    BY <2>9, <2>10, <2>11, <2>12, <2>13, <2>14 DEF Next, Background
<1>. QED
  BY <1>1, <1>2

-----------------------------------------------------------------------------
(* The failures, the recovery's mode and the history have their types.     *)

Settled == fault' = fault /\ fallback' \in BOOLEAN

\* The ends of an operation choose no fault.
LEMMA EndsSettled ==
    ASSUME fallback \in BOOLEAN, NEW a \in Actors, NEW h, NEW operation, NEW error, NEW await,
           \/ Suspend(a, await, operation, h) \/ Ends(a, h) \/ Returns(a, operation, h)
           \/ Raises(a, error, h)
    PROVE  Settled
<1>1. ASSUME NEW g, NEW v, NEW o, Suspend(a, v, o, g) PROVE Settled
  BY <1>1 DEF Suspend, Settled
<1>2. ASSUME NEW g, Ends(a, g) PROVE Settled
  BY <1>2 DEF Ends, Settled
<1>3. ASSUME Returns(a, operation, h) PROVE Settled
  BY <1>1, <1>2, <1>3 DEF Returns
<1>4. ASSUME Raises(a, error, h) PROVE Settled
  <2>1. CASE a = "recovery" /\ (error # "connection" \/ fallback)
    BY <1>2, <1>4, <2>1 DEF Raises
  <2>2. CASE a = "recovery" /\ ~(error # "connection" \/ fallback)
    BY <1>4, <2>2 DEF Raises, Settled
  <2>3. CASE a # "recovery"
    BY <1>1, <1>2, <1>4, <2>3 DEF Raises, Actors
  <2>. QED
    BY <2>1, <2>2, <2>3
<1>. QED
  BY <1>1, <1>2, <1>3, <1>4

\* Nor does what stops tasks,
LEMMA StopsFromSettled ==
    ASSUME fallback \in BOOLEAN, NEW a \in Actors, NEW h, NEW operation \in Stopping, NEW i, StopsFrom(a, operation, i, h)
    PROVE  Settled
<1>1. ASSUME Stopped(a, operation, h) PROVE Settled
  BY <1>1, EndsSettled DEF Stopped, SoftStarts, Stopping, Teardown
<1>. QED
  BY <1>1, EndsSettled DEF StopsFrom

\* a teardown
LEMMA DisconnectingSettled ==
    ASSUME fallback \in BOOLEAN, NEW a \in Actors, NEW operation \in {"disconnect", "abort"},
           Disconnecting(a, operation, host)
    PROVE  Settled
<1>1. operation \in Stopping
  BY DEF Stopping, Teardown
<1>. QED
  BY <1>1, EndsSettled, StopsFromSettled DEF Disconnecting

\* or soft_reconnect().
LEMMA SoftReconnectingSettled ==
    ASSUME fallback \in BOOLEAN, NEW a \in Actors, SoftReconnecting(a)
    PROVE  Settled
BY EndsSettled DEF SoftReconnecting, Connecting

\* No step does.
LEMMA SettledStep ==
    ASSUME LifeInv, fallback \in BOOLEAN, [Next]_vars
    PROVE  Settled
<1>0. "user" \in Actors /\ "loop" \in Actors /\ "recovery" \in Actors /\ "cleanup" \in Stopping
      /\ "soft reconnect" \in Stopping /\ "soft disconnect" \in Stopping
  BY DEF Actors, Stopping, Teardown
<1>1. ASSUME NEW a \in Actors, Joined(a) \/ CancelDelivered(a) PROVE Settled
  <2>1. ASSUME NEW h, pc[a] \in Joins, JoinDone(a, h) PROVE Settled
    <3>1. op[a] \in Stopping
      BY <2>1 DEF LifeInv, Matched, Stopping
    <3>. QED
      BY <2>1, <3>1, StopsFromSettled DEF JoinDone
  <2>2. ASSUME Joined(a) PROVE Settled
    BY <2>1, <2>2 DEF Joined, Runs
  <2>3. ASSUME CancelDelivered(a) PROVE Settled
    BY <2>1, <2>3, EndsSettled DEF CancelDelivered
  <2>. QED
    BY <1>1, <2>2, <2>3
<1>2. ASSUME NEW a \in Actors, OpenCtrl(a) \/ OpenCtrlFails(a) \/ Handshake(a) \/ HandshakeFails(a)
             \/ OpenCiv(a) \/ OpenCivFails(a) \/ DiscoverRetries(a) \/ DiscoverFails(a) \/ CooldownOver(a)
      PROVE  Settled
  BY <1>2, EndsSettled DEF OpenCtrl, OpenCtrlFails, Handshake, HandshakeFails, OpenCiv, OpenCivFails,
     DiscoverRetries, DiscoverFails, CooldownOver, Connecting
<1>3. ASSUME NEW a \in Actors, Discover(a) \/ Flushed(a) \/ StartupReady(a) \/ StartupFails(a) PROVE Settled
  BY <1>0, <1>3, EndsSettled, StopsFromSettled, DisconnectingSettled DEF Discover, Flushed, StartupReady, StartupFails
<1>4. ASSUME User PROVE Settled
  <2>1. ASSUME UNCHANGED <<fault, host, pc, op, fallback>> PROVE Settled
    BY <2>1 DEF Settled
  <2>. QED
    BY <1>0, <1>4, <2>1, EndsSettled, StopsFromSettled, DisconnectingSettled, SoftReconnectingSettled
       DEF User, UserConnect, UserSoftReconnect, UserDisconnect, UserSoftDisconnect, Connecting
<1>5. ASSUME Background PROVE Settled
  <2>1. ASSUME UNCHANGED <<fault, fallback>> PROVE Settled
    BY <2>1 DEF Settled
  <2>. QED
    BY <1>0, <1>5, <2>1, EndsSettled, StopsFromSettled, SoftReconnectingSettled
       DEF Background, WatchdogTimeout, LoopAttempt, Escalate, RecoveryStarts, RecoveryWakes, TickEnds, PumpEnds,
           Connecting
<1>6. ASSUME FallbackDisconnect PROVE Settled
  BY <1>0, <1>6, DisconnectingSettled DEF FallbackDisconnect
<1>7. ASSUME UNCHANGED vars PROVE Settled
  BY <1>7 DEF vars, Settled
<1>. QED
  BY <1>1, <1>2, <1>3, <1>4, <1>5, <1>6, <1>7 DEF Next, Proceed

\* closed is what the user's last call makes it.
LEMMA ClosedStep ==
    ASSUME [Next]_vars, closed \in {"no", "reachable", "unreachable"}
    PROVE  closed' \in {"no", "reachable", "unreachable"}
<1>1. CASE UserDisconnect
  BY <1>1 DEF UserDisconnect
<1>2. CASE UserConnect \/ UserSoftReconnect
  BY <1>2 DEF UserConnect, UserSoftReconnect
<1>3. CASE ~UserDisconnect /\ ~UserConnect /\ ~UserSoftReconnect
  <2>1. closed' = closed
    BY <1>3 DEF Next, Proceed, User, Background, UserSoftDisconnect,
       Joined, CancelDelivered, OpenCtrl, OpenCtrlFails, Handshake, HandshakeFails, OpenCiv, OpenCivFails, Discover,
       DiscoverRetries, DiscoverFails, CooldownOver, Flushed, StartupReady, StartupFails, WatchdogTimeout,
       LoopAttempt, Escalate, RecoveryStarts, RecoveryWakes, TickEnds, PumpEnds, FallbackDisconnect, vars
  <2>. QED
    BY <2>1
<1>. QED
  BY <1>1, <1>2, <1>3

-----------------------------------------------------------------------------
ConnectionInv ==
    /\ LifeInv /\ DownInv
    /\ fault \in Faults /\ fallback \in BOOLEAN /\ closed \in {"no", "reachable", "unreachable"}

\* The invariant of the connection holds of every behaviour, whatever
\* combination of failures strikes.
THEOREM ConnectionInvariance == Spec => []ConnectionInv
<1>1. Init => ConnectionInv
  <2>1. "idle" \notin Joins
    BY JoinsValue
  <2>. QED
    BY <2>1, LifeInit DEF Init, ConnectionInv, DownInv, LoopKnown, Actors
<1>2. ConnectionInv /\ [Next]_vars => ConnectionInv'
  <2> SUFFICES ASSUME ConnectionInv, [Next]_vars PROVE ConnectionInv'
    OBVIOUS
  <2>1. LifeInv' /\ LoopKnown'
    BY LifeStep, LoopStep DEF ConnectionInv, DownInv
  <2>2. closed' = "reachable" => Alone'
    BY AloneStep DEF ConnectionInv
  <2>3. fault' \in Faults /\ fallback' \in BOOLEAN
    BY SettledStep DEF ConnectionInv, Settled
  <2>4. closed' \in {"no", "reachable", "unreachable"}
    BY ClosedStep DEF ConnectionInv
  <2>. QED
    BY <2>1, <2>2, <2>3, <2>4 DEF ConnectionInv, DownInv
<1>. QED
  BY <1>1, <1>2, PTL DEF Spec

\* Types of the connection, for any settings and failures.
THEOREM ConnectionTypeCorrect == Spec => []TypeOK
<1>1. ConnectionInv => TypeOK
  BY DEF ConnectionInv, LifeInv, PartTypes, Host, States, TypeOK
<1>. QED
  BY <1>1, ConnectionInvariance, PTL

\* disconnect() of a working radio leaves no transport and no task, and neither
\* a reconnect loop nor a recovery opens them again, whatever combination of
\* failures strikes.
THEOREM DisconnectIsClean == Spec => []CleanDisconnect
<1>1. ConnectionInv => CleanDisconnect
  <2>1. "idle" \notin Joins /\ \A i \in 1..4 : Stops[i] \in Joins
    BY JoinsValue
  <2>. QED
    BY <2>1 DEF ConnectionInv, DownInv, Alone, Tearing, TornDown, CleanDisconnect
<1>. QED
  BY <1>1, ConnectionInvariance, PTL

\* DISCONNECTING means that a disconnect is in progress, whatever combination of
\* failures strikes, and however teardowns, reconnects and cancellations of the
\* three coroutines fall (_conn_state of runtime/radio.py).
THEOREM DisconnectingAlwaysWorkedOn == Spec => []DisconnectingIsWorkedOn
<1>1. ConnectionInv => DisconnectingIsWorkedOn
  BY DEF ConnectionInv, LifeInv, Worked, DisconnectingIsWorkedOn, AtJoin, Teardown
<1>. QED
  BY <1>1, ConnectionInvariance, PTL

-----------------------------------------------------------------------------
(***************************************************************************)
(* Proofs about WebPoller, for any types of commands and any number of     *)
(* them: what becomes of the VFO slot.                                     *)
(*                                                                         *)
(* Unless a swap was not sent, the radio is in the other slot exactly      *)
(* while the task is between its two swaps; replies go to the other slot   *)
(* only then, or after a stop() that came during the swap back.            *)
(***************************************************************************)

Between == {"slot", "swap back"}

SlotInv ==
    /\ {swapped, swapLost, override, cutShort} \subseteq BOOLEAN
    /\ ~swapLost => (swapped <=> task \in Between)
    /\ override /\ ~cutShort => task \in Between

\* The steps of the task that do not concern the slot, and its surroundings.
LEMMA OtherStepsKeep ==
    ASSUME SlotInv, UNCHANGED swapVars, task' = task \/ (task \notin Between /\ task' \notin Between)
    PROVE  SlotInv' \/ task = "ended"
BY DEF SlotInv, swapVars, Between

\* A step that touches neither the swap nor the task.
LEMMA EndedKeeps ==
    ASSUME SlotInv, UNCHANGED swapVars, task' = task
    PROVE  SlotInv'
BY DEF SlotInv, swapVars

\* The two swaps and what is between them.
LEMMA SwapKeeps ==
    ASSUME SlotInv, NEW ok \in BOOLEAN, Swap(ok) \/ SlotQueried(ok) \/ SwapBack(ok)
    PROVE  SlotInv'
<1>1. CASE Swap(ok)
  BY <1>1 DEF Swap, SlotInv, Between
<1>2. CASE SlotQueried(ok)
  BY <1>2 DEF SlotQueried, AfterQuery, SlotInv, Between, swapVars
<1>3. CASE SwapBack(ok)
  BY <1>3 DEF SwapBack, SlotInv, Between
<1>. QED
  BY <1>1, <1>2, <1>3

\* stop() undoes a swap wherever it finds it.
LEMMA StopKeeps ==
    ASSUME SlotInv, Stop
    PROVE  SlotInv'
<1>1. CASE task \in {"swap", "slot", "swap back"}
  <2>1. PICK unpaired \in BOOLEAN :
           /\ swapped' = (swapped # ((task = "swap") = unpaired))
           /\ swapLost' = (swapLost \/ unpaired)
           /\ override' = (override /\ task = "swap back")
           /\ cutShort' = (cutShort \/ task = "swap back")
    BY <1>1 DEF Stop
  <2>. QED
    BY <1>1, <2>1 DEF Stop, SlotInv, Between
<1>2. CASE task \notin {"swap", "slot", "swap back"}
  BY <1>2 DEF Stop, SlotInv, Between, swapVars
<1>. QED
  BY <1>1, <1>2

\* The invariant of the slot is inductive.
LEMMA SlotStep ==
    ASSUME SlotInv, [PollerNext]_pollerAll
    PROVE  SlotInv'
<1>1. CASE \E ok \in BOOLEAN : Swap(ok) \/ SlotQueried(ok) \/ SwapBack(ok)
  BY <1>1, SwapKeeps
<1>2. CASE Stop
  BY <1>2, StopKeeps
<1>3. CASE \/ TopOfCycle \/ SkipEntry \/ Execute \/ GapEnds \/ QueryBegins \/ WaitEnds
           \/ \E outcome \in {"ok", "gone", "error"} : ExecuteEnds(outcome) \/ QueryEnds(outcome)
  <2>1. UNCHANGED swapVars /\ task \notin Between \union {"ended"}
    BY <1>3 DEF TopOfCycle, SkipEntry, Execute, GapEnds, QueryBegins, WaitEnds, ExecuteEnds, QueryEnds, Between
  <2>2. task' \notin Between
    BY <1>3, <2>1 DEF TopOfCycle, SkipEntry, Execute, GapEnds, QueryBegins, WaitEnds, ExecuteEnds, QueryEnds, Between
  <2>. QED
    BY <2>1, <2>2, OtherStepsKeep
<1>4. CASE \/ \E type \in Types \union {"ptt"} : Put(type)
           \/ PutOrdered \/ StepTimesOut \/ SessionChanges \/ UNCHANGED pollerAll
  <2>1. UNCHANGED swapVars /\ task' = task
    BY <1>4 DEF Put, PutOrdered, StepTimesOut, SessionChanges, pollerAll
  <2>. QED
    BY <2>1, EndedKeeps
<1>. QED
  BY <1>1, <1>2, <1>3, <1>4 DEF PollerNext, TaskStep

\* What is proved needs no fairness.
PollerSafety == PollerInit /\ [][PollerNext]_pollerAll

\* The radio is in the other slot, and replies go there, only between the two
\* swaps (_poll_unselected_slot() of web/radio_poller.py): for any commands that
\* are put, any errors and a stop() at any await, except after a swap that was
\* not sent, and for the replies after a stop() during the swap back.
THEOREM SlotIsRestored == PollerSafety => []SlotRestored
<1>1. PollerInit => SlotInv
  BY DEF PollerInit, SlotInv, Between
<1>2. SlotInv /\ [PollerNext]_pollerAll => SlotInv'
  BY SlotStep
<1>3. SlotInv => SlotRestored
  BY DEF SlotInv, SlotRestored, Between
<1>. QED
  BY <1>1, <1>2, <1>3, PTL DEF PollerSafety

-----------------------------------------------------------------------------
(***************************************************************************)
(* The queue, for any types of commands and any number of them             *)
(* (LastWriteWins, LaneIsExact). What has been drained is older than what  *)
(* has not, the segments are in the order of their entries, and of two     *)
(* related entries the older goes first wherever they are. So the last     *)
(* command of a type is in the queue, or the last that ran (Tracks).       *)
(***************************************************************************)

Kinds   == Types \union {"ptt", "step"}
Fates   == {"none", "pending", "cancelled", "done"}
Phases  == {"top", "next", "execute", "gap", "query", "wait", "swap", "slot", "swap back", "ended"}
Lanes   == {"coalesced", "ordered"}
Entry   == [type : Kinds, n : Nat]
Segment == [lane : Lanes, ptt : Seq(Entry), dedup : Seq(Entry)]

\* Of two related entries the older goes first: a step and any other, PTT
\* commands, and the commands of one type.
Related(f, e) == f.type = "step" \/ e.type = "step" \/ f.type = e.type
InTurn == {p \in Entry \X Entry : Related(p[1], p[2]) => p[1].n < p[2].n}

Older(A, B) == \A a \in A, b \in B : a.n < b.n

Members(s) == ToSet(s.ptt) \union ToSet(s.dedup)

\* A step's segment has nothing else; another one has PTT commands as they were
\* put, no step, and of each type one entry.
Formed(s) ==
    /\ Sorted(s.ptt, InTurn) /\ \A e \in ToSet(s.ptt) : e.type = "ptt"
    /\ \A i, j \in DOMAIN s.dedup : s.dedup[i].type = s.dedup[j].type => i = j
    /\ \A e \in ToSet(s.dedup) : e.type # "ptt"
    /\ s.lane = "coalesced" => \A e \in ToSet(s.dedup) : e.type # "step"
    /\ s.lane = "ordered" => s.ptt = <<>> /\ Len(s.dedup) = 1

PollerTypes ==
    /\ segments \in Seq(Segment) /\ batch \in Seq(Entry)
    /\ puts \in Nat /\ future \in Seq(Fates) /\ Len(future) = puts
    /\ running \in Entry \union {None} /\ (running # None <=> task = "execute")
    /\ task \in Phases
    /\ newest \in [Types -> Nat] /\ ran \in [Types -> Nat]
    /\ backoff \in BOOLEAN /\ swapped \in BOOLEAN /\ override \in BOOLEAN
    /\ external \in BOOLEAN /\ swapLost \in BOOLEAN /\ cutShort \in BOOLEAN

\* What was drained is older than what was not, and the segments are in the order
\* of their entries.
Segmented ==
    /\ \A k \in DOMAIN segments : Formed(segments[k]) /\ Older(ToSet(batch), Members(segments[k]))
    /\ \A k, l \in DOMAIN segments : k < l => Older(Members(segments[k]), Members(segments[l]))

InQueue == (UNION {Members(segments[k]) : k \in DOMAIN segments}) \union ToSet(batch)

\* Entries have numbers that were given out; only steps are waited for.
Numbered == \A e \in InQueue : e.n \in 1..puts /\ (e.type # "step" => future[e.n] = "none")

Drained ==
    /\ Sorted(batch, InTurn)
    /\ batch # <<>> => task \in {"next", "execute", "gap"}

\* The last command of type t is in the queue, or was the last to run and nothing
\* of the type is in the queue.
Tracks(t) ==
    /\ newest[t] <= puts
    /\ \A e \in InQueue : e.type = t => e.n <= newest[t]
    /\ task # "ended" =>
          \/ \E e \in InQueue : e.type = t /\ e.n = newest[t]
          \/ ran[t] = newest[t] /\ \A e \in InQueue : e.type # t

QueueInv == PollerTypes /\ Segmented /\ Numbered /\ Drained /\ \A t \in Types : Tracks(t)

-----------------------------------------------------------------------------
(* Segments.                                                               *)

\* PTT commands and steps are none of the coalesced types.
LEMMA KindsApart == "ptt" \notin Types /\ "step" \notin Types /\ "none" \notin Types
BY CoalescedTypes

\* A pair of entries that are not related is in turn.
LEMMA Unrelated ==
    ASSUME NEW e \in Entry, NEW f \in Entry, Related(e, f) => e.n < f.n
    PROVE  <<e, f>> \in InTurn
<1>1. <<e, f>>[1] = e /\ <<e, f>>[2] = f /\ <<e, f>> \in Entry \X Entry
  OBVIOUS
<1>. QED
  BY <1>1, Zenon DEF InTurn

\* Entries() of a segment: its members, in turn.
LEMMA EntriesInTurn ==
    ASSUME NEW s \in Segment
    PROVE  /\ Entries(s) \in Seq(Entry)
           /\ ToSet(Entries(s)) = Members(s)
           /\ Formed(s) => Sorted(Entries(s), InTurn)
<1>1. s.ptt \in Seq(Entry) /\ s.dedup \in Seq(Entry) /\ s.lane \in Lanes
  BY DEF Segment
<1>2. Entries(s) \in Seq(Entry) /\ ToSet(Entries(s)) = Members(s)
  BY <1>1, ConcatSet DEF Entries, Members
<1>3. ASSUME Formed(s) PROVE Sorted(Entries(s), InTurn)
  <2>1. Sorted(s.dedup, InTurn)
    <3>. SUFFICES ASSUME NEW i \in DOMAIN s.dedup, NEW j \in DOMAIN s.dedup, i < j
                  PROVE  <<s.dedup[i], s.dedup[j]>> \in InTurn
      BY DEF Sorted
    <3>1. i \in 1..Len(s.dedup) /\ j \in 1..Len(s.dedup) /\ Len(s.dedup) \in Nat
      BY <1>1
    <3>2. Len(s.dedup) # 1 /\ i # j
      BY <3>1
    <3>3. s.lane = "coalesced" /\ s.dedup[i].type # s.dedup[j].type
      BY <1>1, <1>3, <3>2 DEF Formed, Lanes
    <3>4. s.dedup[i] \in ToSet(s.dedup) /\ s.dedup[j] \in ToSet(s.dedup)
      BY DEF ToSet
    <3>5. ~Related(s.dedup[i], s.dedup[j])
      BY <1>3, <3>3, <3>4 DEF Formed, Related
    <3>6. s.dedup[i] \in Entry /\ s.dedup[j] \in Entry
      BY <1>1, <3>1
    <3>. QED
      BY <3>5, <3>6, Unrelated
  <2>2. Before(ToSet(s.ptt), ToSet(s.dedup), InTurn)
    <3>. SUFFICES ASSUME NEW e \in ToSet(s.ptt), NEW f \in ToSet(s.dedup)
                  PROVE  <<e, f>> \in InTurn
      BY DEF Before
    <3>1. e \in Entry /\ f \in Entry
      BY <1>1 DEF ToSet
    <3>2. s.ptt # <<>>
      BY <1>1 DEF ToSet
    <3>3. e.type = "ptt" /\ f.type # "ptt" /\ f.type # "step"
      BY <1>1, <1>3, <3>2 DEF Formed, Lanes
    <3>4. ~Related(e, f)
      BY <3>3 DEF Related
    <3>. QED
      BY <3>1, <3>4, Unrelated
  <2>3. Sorted(s.ptt, InTurn)
    BY <1>3 DEF Formed
  <2>. QED
    BY <1>1, <2>1, <2>2, <2>3, ConcatSorted DEF Entries
<1>. QED
  BY <1>2, <1>3

\* A segment of commands that takes another one, put after all of its own.
LEMMA IntoTakes ==
    ASSUME NEW s \in Segment, Formed(s), s.lane = "coalesced",
           NEW e \in Entry, e.type # "step", \A a \in Members(s) : a.n < e.n
    PROVE  /\ Into(s, e) \in Segment /\ Formed(Into(s, e)) /\ Into(s, e).lane = "coalesced"
           /\ e \in Members(Into(s, e)) /\ Members(Into(s, e)) \subseteq Members(s) \union {e}
           /\ \A a \in Members(s) : a.type # e.type => a \in Members(Into(s, e))
<1>1. s.ptt \in Seq(Entry) /\ s.dedup \in Seq(Entry) /\ s = [lane |-> "coalesced", ptt |-> s.ptt, dedup |-> s.dedup]
  BY DEF Segment
<1>2. CASE e.type = "ptt"
  <2>. DEFINE p == Append(s.ptt, e)
  <2>1. Into(s, e) = [lane |-> "coalesced", ptt |-> p, dedup |-> s.dedup]
    BY <1>1, <1>2 DEF Into
  <2>2. p = s.ptt \o <<e>> /\ <<e>> \in Seq(Entry) /\ ToSet(<<e>>) = {e} /\ Sorted(<<e>>, InTurn)
    BY <1>1 DEF ToSet, Sorted
  <2>3. Before(ToSet(s.ptt), {e}, InTurn)
    <3>. SUFFICES ASSUME NEW a \in ToSet(s.ptt) PROVE <<a, e>> \in InTurn
      BY DEF Before
    <3>1. a \in Entry /\ a.n < e.n
      BY <1>1 DEF ToSet, Members
    <3>. QED
      BY <3>1, Unrelated
  <2>4. p \in Seq(Entry) /\ Sorted(p, InTurn) /\ ToSet(p) = ToSet(s.ptt) \union {e}
    <3>1. Sorted(s.ptt, InTurn)
      BY DEF Formed
    <3>. HIDE DEF p
    <3>2. Before(ToSet(s.ptt), ToSet(<<e>>), InTurn)
      BY <2>2, <2>3
    <3>3. p \in Seq(Entry) /\ Sorted(p, InTurn)
      BY <1>1, <2>2, <3>1, <3>2, ConcatSorted
    <3>4. ToSet(p) = ToSet(s.ptt) \union ToSet(<<e>>)
      <4>. DEFINE x == <<e>>
      <4>1. ToSet(s.ptt \o x) = ToSet(s.ptt) \union ToSet(x)
        <5>1. x \in Seq(Entry) /\ s.ptt \in Seq(Entry)
          BY <1>1, <2>2
        <5>. HIDE DEF x
        <5>. QED
          BY <5>1, ConcatSet
      <4>. QED
        BY <2>2, <4>1
    <3>. QED
      BY <2>2, <3>3, <3>4
  <2>. HIDE DEF p
  <2>5. Into(s, e) \in Segment /\ Formed(Into(s, e))
    BY <1>1, <1>2, <2>1, <2>4 DEF Segment, Lanes, Formed
  <2>. QED
    BY <2>1, <2>4, <2>5 DEF Members
<1>3. CASE e.type # "ptt"
  <2>. DEFINE d == Deduplicated(s.dedup, e)
  <2>1. Into(s, e) = [lane |-> "coalesced", ptt |-> s.ptt, dedup |-> d]
    BY <1>1, <1>3 DEF Into
  <2>2. /\ d \in Seq(Entry) /\ e \in ToSet(d) /\ ToSet(d) \subseteq ToSet(s.dedup) \union {e}
        /\ \A a \in ToSet(s.dedup) : a.type # e.type => a \in ToSet(d)
        /\ \A i, j \in DOMAIN d : d[i].type = d[j].type => i = j
    <3>1. CASE \E i \in DOMAIN s.dedup : s.dedup[i].type = e.type
      <4>1. PICK i \in DOMAIN s.dedup : s.dedup[i].type = e.type
        BY <3>1
      <4>2. d = [j \in DOMAIN s.dedup |-> IF s.dedup[j].type = e.type THEN e ELSE s.dedup[j]]
        BY <3>1 DEF Deduplicated
      <4>. HIDE DEF d
      <4>3. \A j \in DOMAIN s.dedup : s.dedup[j] \in Entry
        BY <1>1
      <4>4. d \in Seq(Entry) /\ DOMAIN d = DOMAIN s.dedup
        BY <1>1, <4>2, <4>3
      <4>5. \A j \in DOMAIN d : d[j].type = s.dedup[j].type
        BY <4>2
      <4>6. \A j, k \in DOMAIN d : d[j].type = d[k].type => j = k
        BY <4>4, <4>5 DEF Formed
      <4>7. e \in ToSet(d)
        BY <4>1, <4>2 DEF ToSet
      <4>8. ToSet(d) \subseteq ToSet(s.dedup) \union {e}
        BY <4>2 DEF ToSet
      <4>9. \A a \in ToSet(s.dedup) : a.type # e.type => a \in ToSet(d)
        BY <4>2 DEF ToSet
      <4>. QED
        BY <4>4, <4>6, <4>7, <4>8, <4>9
    <3>2. CASE ~ \E i \in DOMAIN s.dedup : s.dedup[i].type = e.type
      <4>1. d = Append(s.dedup, e)
        BY <3>2 DEF Deduplicated
      <4>. HIDE DEF d
      <4>2. /\ d \in Seq(Entry) /\ DOMAIN d = 1..(Len(s.dedup) + 1)
            /\ Len(s.dedup) \in Nat /\ DOMAIN s.dedup = 1..Len(s.dedup)
            /\ \A j \in DOMAIN s.dedup : d[j] = s.dedup[j]
            /\ d[Len(s.dedup) + 1] = e
        BY <1>1, <4>1
      <4>3. DOMAIN d = DOMAIN s.dedup \union {Len(s.dedup) + 1}
        BY <4>2
      <4>4. ToSet(d) = ToSet(s.dedup) \union {e}
        BY <4>2, <4>3 DEF ToSet
      <4>5. ASSUME NEW j \in DOMAIN d, NEW k \in DOMAIN d, d[j].type = d[k].type PROVE j = k
        <5>1. CASE j \in DOMAIN s.dedup /\ k \in DOMAIN s.dedup
          BY <4>2, <4>5, <5>1 DEF Formed
        <5>2. CASE j \notin DOMAIN s.dedup \/ k \notin DOMAIN s.dedup
          BY <3>2, <4>2, <4>3, <4>5, <5>2
        <5>. QED
          BY <5>1, <5>2
      <4>. QED
        BY <4>2, <4>4, <4>5
    <3>. QED
      BY <3>1, <3>2
  <2>. HIDE DEF d
  <2>3. Into(s, e) \in Segment
    BY <1>1, <2>1, <2>2 DEF Segment, Lanes
  <2>4. Formed(Into(s, e))
    BY <1>3, <2>1, <2>2 DEF Formed
  <2>. QED
    BY <2>1, <2>2, <2>3, <2>4 DEF Members
<1>. QED
  BY <1>2, <1>3

-----------------------------------------------------------------------------
(* The steps.                                                              *)

\* The queue as the properties see it.
LEMMA QueuedMeans == PollerTypes => Queued = InQueue
<1>. SUFFICES ASSUME PollerTypes PROVE Queued = InQueue
  OBVIOUS
<1>1. ASSUME NEW k \in DOMAIN segments PROVE ToSet(Entries(segments[k])) = Members(segments[k])
  <2>1. segments[k] \in Segment
    BY DEF PollerTypes
  <2>. QED
    BY <2>1, EntriesInTurn
<1>. QED
  BY <1>1 DEF Queued, InQueue

\* What the queue holds are entries.
LEMMA MembersAreEntries ==
    ASSUME PollerTypes
    PROVE  InQueue \in SUBSET Entry
<1>1. ASSUME NEW k \in DOMAIN segments PROVE Members(segments[k]) \in SUBSET Entry
  <2>1. segments[k] \in Segment
    BY DEF PollerTypes
  <2>2. segments[k].ptt \in Seq(Entry) /\ segments[k].dedup \in Seq(Entry)
    BY <2>1 DEF Segment
  <2>. QED
    BY <2>2 DEF Members, ToSet
<1>2. ToSet(batch) \in SUBSET Entry
  BY DEF PollerTypes, ToSet
<1>3. ASSUME NEW e \in InQueue PROVE e \in Entry
  <2>1. e \in UNION {Members(segments[k]) : k \in DOMAIN segments} \/ e \in ToSet(batch)
    BY DEF InQueue
  <2>2. CASE e \in ToSet(batch)
    BY <1>2, <2>2
  <2>3. CASE e \in UNION {Members(segments[k]) : k \in DOMAIN segments}
    <3>1. PICK k \in DOMAIN segments : e \in Members(segments[k])
      BY <2>3
    <3>. QED
      BY <1>1, <3>1
  <2>. QED
    BY <2>1, <2>2, <2>3
<1>. QED
  BY <1>3

\* A step that leaves the queue and the records of what ran as they are.
LEMMA QueueKept ==
    ASSUME QueueInv, PollerTypes', UNCHANGED <<segments, puts, newest, batch, ran>>,
           \A n \in DOMAIN future : future[n] = "none" => future'[n] = "none",
           batch # <<>> => task' \in {"next", "execute", "gap"},
           task = "ended" => task' = "ended"
    PROVE  QueueInv'
<1>1. Segmented' /\ InQueue' = InQueue
  BY DEF QueueInv, Segmented, InQueue
<1>2. Numbered'
  <2>1. ASSUME NEW e \in InQueue PROVE e.n \in DOMAIN future /\ e.n \in 1..puts
    BY DEF QueueInv, Numbered, PollerTypes
  <2>. QED
    BY <1>1, <2>1 DEF QueueInv, Numbered
<1>3. Drained'
  BY DEF QueueInv, Drained
<1>4. ASSUME NEW t \in Types PROVE Tracks(t)'
  BY <1>1 DEF QueueInv, Tracks
<1>. QED
  BY <1>1, <1>2, <1>3, <1>4 DEF QueueInv

\* The queue begins empty.
LEMMA QueueInit == PollerInit => QueueInv
<1>. SUFFICES ASSUME PollerInit PROVE QueueInv
  OBVIOUS
<1>1. PollerTypes
  <2>1. segments \in Seq(Segment) /\ batch \in Seq(Entry) /\ future \in Seq(Fates) /\ Len(future) = 0
    BY DEF PollerInit
  <2>2. newest \in [Types -> Nat] /\ ran \in [Types -> Nat]
    BY DEF PollerInit
  <2>. QED
    BY <2>1, <2>2 DEF PollerInit, PollerTypes, Phases
<1>2. InQueue = {}
  BY DEF PollerInit, InQueue, ToSet
<1>3. Segmented /\ Drained
  BY DEF PollerInit, Segmented, Drained, Sorted
<1>4. ASSUME NEW t \in Types PROVE Tracks(t)
  BY <1>2 DEF PollerInit, Tracks
<1>. QED
  BY <1>1, <1>2, <1>3, <1>4 DEF QueueInv, Numbered

\* A type whose commands are as they were is tracked as before.
LEMMA TracksOn ==
    ASSUME NEW t \in Types, Tracks(t), newest'[t] <= puts', newest'[t] = newest[t],
           ran'[t] = ran[t], task = "ended" => task' = "ended",
           \A e \in InQueue' : e.type = t => e \in InQueue,
           \A e \in InQueue : e.type = t => e \in InQueue'
    PROVE  Tracks(t)'
BY DEF Tracks

\* put() of a command.
LEMMA PutStep ==
    ASSUME QueueInv, NEW type \in Types \union {"ptt"}, Put(type)
    PROVE  QueueInv'
<1>. DEFINE e == [type |-> type, n |-> puts + 1]
            last == Len(segments)
            joins == segments # <<>> /\ Last(segments).lane = "coalesced"
            old == IF joins THEN segments[last] ELSE Coalesced
            new == Into(old, e)
            at == IF joins THEN last ELSE last + 1
<1>1. /\ segments \in Seq(Segment) /\ puts \in Nat /\ future \in Seq(Fates) /\ Len(future) = puts
      /\ last \in Nat /\ DOMAIN segments = 1..last /\ batch \in Seq(Entry)
  BY DEF QueueInv, PollerTypes
<1>2. e \in Entry /\ e.type # "step" /\ e.type = type /\ e.n = puts + 1
  BY <1>1, KindsApart DEF Entry, Kinds
<1>3. \A a \in InQueue : a \in Entry /\ a.n \in Nat /\ a.n <= puts /\ a.n < e.n
  BY <1>1, <1>2, MembersAreEntries DEF QueueInv, Numbered
<1>4. old \in Segment /\ Formed(old) /\ old.lane = "coalesced"
  <2>1. CASE joins
    BY <1>1, <2>1 DEF QueueInv, Segmented, Last
  <2>2. CASE ~joins
    <3>1. Coalesced \in Segment
      BY DEF Coalesced, Segment, Lanes
    <3>2. Formed(Coalesced)
      BY DEF Coalesced, Formed, Sorted, ToSet
    <3>. QED
      BY <2>2, <3>1, <3>2 DEF Coalesced
  <2>. QED
    BY <2>1, <2>2
<1>5. joins => last \in DOMAIN segments /\ old = segments[last]
  BY <1>1
<1>6. ~joins => Members(old) = {}
  BY DEF Coalesced, Members, ToSet
<1>7. Members(old) \subseteq InQueue
  BY <1>5, <1>6 DEF InQueue
<1>. HIDE DEF old, e
<1>8. /\ new \in Segment /\ Formed(new)
      /\ e \in Members(new) /\ Members(new) \subseteq Members(old) \union {e}
      /\ \A a \in Members(old) : a.type # e.type => a \in Members(new)
  BY <1>2, <1>3, <1>4, <1>7, IntoTakes
<1>9. segments' = IF joins THEN [segments EXCEPT ![last] = new] ELSE Append(segments, new)
  BY DEF Put, WithCoalesced, old, e, Last
<1>. HIDE DEF new
<1>10. /\ segments' \in Seq(Segment) /\ at \in DOMAIN segments' /\ segments'[at] = new
       /\ \A k \in DOMAIN segments' : k # at => k \in DOMAIN segments /\ segments'[k] = segments[k] /\ k < at
       /\ \A k \in DOMAIN segments : k # at => k \in DOMAIN segments' /\ segments'[k] = segments[k]
       /\ at \in DOMAIN segments => joins
  <2>1. CASE joins
    BY <1>1, <1>8, <1>9, <2>1
  <2>2. CASE ~joins
    <3>1. segments' = Append(segments, new) /\ at = last + 1
      BY <1>9, <2>2
    <3>2. /\ segments' \in Seq(Segment) /\ DOMAIN segments' = 1..(last + 1) /\ segments'[last + 1] = new
          /\ \A k \in 1..last : segments'[k] = segments[k]
      BY <1>1, <1>8, <3>1
    <3>. HIDE DEF joins, last
    <3>. QED
      BY <1>1, <3>1, <3>2
  <2>. QED
    BY <2>1, <2>2
<1>11. batch' = batch /\ puts' = puts + 1 /\ task' = task /\ ran' = ran
  BY DEF Put
<1>. HIDE DEF at
<1>12. /\ InQueue' \subseteq InQueue \union {e} /\ e \in InQueue'
       /\ \A a \in InQueue : a.type # e.type => a \in InQueue'
  <2>1. ASSUME NEW k \in DOMAIN segments' PROVE Members(segments'[k]) \subseteq InQueue \union {e}
    <3>1. CASE k = at
      BY <1>7, <1>8, <1>10, <3>1
    <3>2. CASE k # at
      BY <1>10, <3>2 DEF InQueue
    <3>. QED
      BY <3>1, <3>2
  <2>2. ASSUME NEW k \in DOMAIN segments, NEW a \in Members(segments[k]), a.type # e.type
        PROVE  a \in InQueue'
    <3>1. CASE k = at
      <4>1. joins /\ segments[k] = old
        BY <1>4, <1>10, <3>1 DEF at, old
      <4>. QED
        BY <1>8, <1>10, <2>2, <4>1 DEF InQueue
    <3>2. CASE k # at
      BY <1>10, <3>2 DEF InQueue
    <3>. QED
      BY <3>1, <3>2
  <2>3. e \in InQueue'
    BY <1>8, <1>10 DEF InQueue
  <2>. QED
    BY <1>11, <2>1, <2>2, <2>3 DEF InQueue
<1>13. PollerTypes'
  <2>1. future' \in Seq(Fates) /\ Len(future') = puts + 1
    BY <1>1 DEF Put, Fates
  <2>2. newest' \in [Types -> Nat]
    BY <1>1 DEF Put, QueueInv, PollerTypes
  <2>. QED
    BY <1>1, <1>10, <2>1, <2>2 DEF Put, QueueInv, PollerTypes, swapVars
<1>14. Segmented'
  <2>1. ASSUME NEW k \in DOMAIN segments'
        PROVE  Formed(segments'[k]) /\ Older(ToSet(batch), Members(segments'[k]))
    <3>1. CASE k # at
      BY <1>10, <3>1 DEF QueueInv, Segmented
    <3>2. CASE k = at
      <4>1. Older(ToSet(batch), Members(old))
        BY <1>5, <1>6 DEF QueueInv, Segmented, Older
      <4>2. ASSUME NEW a \in ToSet(batch) PROVE a.n < e.n
        <5>1. a \in InQueue
          BY DEF InQueue
        <5>. QED
          BY <1>3, <5>1
      <4>. QED
        BY <1>8, <1>10, <3>2, <4>1, <4>2 DEF Older
    <3>. QED
      BY <3>1, <3>2
  <2>2. ASSUME NEW k \in DOMAIN segments', NEW l \in DOMAIN segments', k < l
        PROVE  Older(Members(segments'[k]), Members(segments'[l]))
    <3>1. k # at /\ k \in DOMAIN segments /\ segments'[k] = segments[k]
      BY <1>1, <1>10, <2>2 DEF at
    <3>2. CASE l # at
      BY <1>10, <2>2, <3>1, <3>2 DEF QueueInv, Segmented
    <3>3. CASE l = at
      <4>1. Older(Members(segments[k]), Members(old))
        BY <1>4, <1>5, <1>6, <1>10, <2>2, <3>1, <3>3 DEF QueueInv, Segmented, Older, at
      <4>2. ASSUME NEW a \in Members(segments[k]) PROVE a.n < e.n
        BY <1>3, <3>1 DEF InQueue
      <4>. QED
        BY <1>8, <1>10, <3>1, <3>3, <4>1, <4>2 DEF Older
    <3>. QED
      BY <3>2, <3>3
  <2>. QED
    BY <1>11, <2>1, <2>2 DEF Segmented
<1>15. Numbered'
  <2>1. future' = Append(future, "none")
    BY DEF Put
  <2>2. \A n \in 1..puts : future'[n] = future[n]
    BY <1>1, <2>1
  <2>3. future'[puts + 1] = "none"
    BY <1>1, <2>1
  <2>4. 1..puts \subseteq 1..(puts + 1) /\ puts + 1 \in 1..(puts + 1)
    BY <1>1
  <2>. QED
    BY <1>2, <1>11, <1>12, <2>2, <2>3, <2>4 DEF QueueInv, Numbered
<1>16. Drained'
  BY <1>11 DEF QueueInv, Drained
<1>17. ASSUME NEW t \in Types PROVE Tracks(t)'
  <2>1. CASE t = type
    <3>1. newest'[t] = puts + 1
      BY <2>1 DEF Put, QueueInv, PollerTypes
    <3>2. \A a \in InQueue' : a.n <= puts + 1
      <4>1. \A a \in InQueue : a.n <= puts + 1
        BY <1>1, <1>3
      <4>. QED
        BY <1>1, <1>2, <1>12, <4>1
    <3>3. e \in InQueue' /\ e.type = t /\ e.n = newest'[t]
      BY <1>2, <1>12, <2>1, <3>1
    <3>. QED
      BY <1>1, <1>11, <3>1, <3>2, <3>3 DEF Tracks
  <2>2. CASE t # type
    <3>1. newest'[t] = newest[t] /\ newest[t] \in Nat
      BY <2>2 DEF Put, QueueInv, PollerTypes
    <3>2. newest'[t] <= puts'
      BY <1>1, <1>11, <3>1 DEF QueueInv, Tracks
    <3>3. /\ \A a \in InQueue' : a.type = t => a \in InQueue
          /\ \A a \in InQueue : a.type = t => a \in InQueue'
      BY <1>2, <1>12, <2>2
    <3>4. Tracks(t)
      BY DEF QueueInv
    <3>. QED
      BY <1>11, <3>1, <3>2, <3>3, <3>4, TracksOn
  <2>. QED
    BY <2>1, <2>2
<1>. QED
  BY <1>13, <1>14, <1>15, <1>16, <1>17 DEF QueueInv

\* put() of a step of the HTTP batch.
LEMMA PutOrderedStep ==
    ASSUME QueueInv, PutOrdered
    PROVE  QueueInv'
<1>. DEFINE e == [type |-> "step", n |-> puts + 1]
            last == Len(segments)
            new == Ordered(e)
<1>1. /\ segments \in Seq(Segment) /\ puts \in Nat /\ future \in Seq(Fates) /\ Len(future) = puts
      /\ last \in Nat /\ DOMAIN segments = 1..last /\ batch \in Seq(Entry)
  BY DEF QueueInv, PollerTypes
<1>2. e \in Entry /\ e.type = "step" /\ e.n = puts + 1
  BY <1>1 DEF Entry, Kinds
<1>3. \A a \in InQueue : a \in Entry /\ a.n \in Nat /\ a.n <= puts /\ a.n < e.n
  BY <1>1, <1>2, MembersAreEntries DEF QueueInv, Numbered
<1>. HIDE DEF e
<1>4. new \in Segment /\ Formed(new) /\ Members(new) = {e}
  <2>1. new = [lane |-> "ordered", ptt |-> <<>>, dedup |-> <<e>>]
    BY DEF Ordered
  <2>2. <<e>> \in Seq(Entry) /\ Len(<<e>>) = 1 /\ DOMAIN <<e>> = {1} /\ <<e>>[1] = e /\ ToSet(<<e>>) = {e}
    BY <1>2 DEF ToSet
  <2>3. <<>> \in Seq(Entry) /\ Sorted(<<>>, InTurn) /\ ToSet(<<>>) = {}
    BY DEF Sorted, ToSet
  <2>. DEFINE one == <<e>>
  <2>. HIDE DEF one, new
  <2>4. new = [lane |-> "ordered", ptt |-> <<>>, dedup |-> one]
    BY <2>1 DEF one
  <2>5. one \in Seq(Entry) /\ Len(one) = 1 /\ DOMAIN one = {1} /\ one[1] = e /\ ToSet(one) = {e}
    BY <2>2 DEF one
  <2>6. new \in Segment
    BY <2>3, <2>4, <2>5 DEF Segment, Lanes
  <2>7. Formed(new)
    BY <1>2, <2>3, <2>4, <2>5 DEF Formed
  <2>8. Members(new) = {e}
    BY <2>3, <2>4, <2>5 DEF Members
  <2>. QED
    BY <2>6, <2>7, <2>8
<1>5. segments' = Append(segments, new)
  BY DEF PutOrdered, e
<1>. HIDE DEF new
<1>6. /\ segments' \in Seq(Segment) /\ DOMAIN segments' = 1..(last + 1) /\ segments'[last + 1] = new
      /\ \A k \in 1..last : segments'[k] = segments[k]
  BY <1>1, <1>4, <1>5
<1>7. batch' = batch /\ puts' = puts + 1 /\ task' = task /\ ran' = ran /\ newest' = newest
  BY DEF PutOrdered
<1>8. /\ DOMAIN segments' = DOMAIN segments \union {last + 1}
      /\ \A k \in DOMAIN segments : k # last + 1 /\ k < last + 1
  BY <1>1, <1>6
<1>9. InQueue' = InQueue \union {e}
  <2>1. \A a \in InQueue' : a \in InQueue \union {e}
    BY <1>1, <1>4, <1>6, <1>7, <1>8 DEF InQueue
  <2>2. \A a \in InQueue : a \in InQueue'
    BY <1>1, <1>6, <1>7, <1>8 DEF InQueue
  <2>3. e \in InQueue'
    BY <1>4, <1>6, <1>8 DEF InQueue
  <2>. QED
    BY <2>1, <2>2, <2>3
<1>10. PollerTypes'
  <2>1. future' \in Seq(Fates) /\ Len(future') = puts + 1
    BY <1>1 DEF PutOrdered, Fates
  <2>. QED
    BY <1>1, <1>6, <2>1 DEF PutOrdered, QueueInv, PollerTypes, swapVars
<1>11. Segmented'
  <2>1. ASSUME NEW k \in DOMAIN segments'
        PROVE  Formed(segments'[k]) /\ Older(ToSet(batch), Members(segments'[k]))
    <3>1. CASE k \in DOMAIN segments
      BY <1>1, <1>6, <3>1 DEF QueueInv, Segmented
    <3>2. CASE k = last + 1
      <4>1. ASSUME NEW a \in ToSet(batch) PROVE a.n < e.n
        <5>1. a \in InQueue
          BY DEF InQueue
        <5>. QED
          BY <1>3, <5>1
      <4>. QED
        BY <1>4, <1>6, <3>2, <4>1 DEF Older
    <3>. QED
      BY <1>8, <3>1, <3>2
  <2>2. ASSUME NEW k \in DOMAIN segments', NEW l \in DOMAIN segments', k < l
        PROVE  Older(Members(segments'[k]), Members(segments'[l]))
    <3>1. k \in DOMAIN segments /\ segments'[k] = segments[k]
      BY <1>1, <1>6, <2>2
    <3>2. CASE l \in DOMAIN segments
      BY <1>1, <1>6, <2>2, <3>1, <3>2 DEF QueueInv, Segmented
    <3>3. CASE l = last + 1
      <4>1. ASSUME NEW a \in Members(segments[k]) PROVE a.n < e.n
        <5>1. a \in InQueue
          BY <3>1 DEF InQueue
        <5>. QED
          BY <1>3, <5>1
      <4>. QED
        BY <1>4, <1>6, <3>1, <3>3, <4>1 DEF Older
    <3>. QED
      BY <1>8, <3>2, <3>3
  <2>. QED
    BY <1>7, <2>1, <2>2 DEF Segmented
<1>12. Numbered'
  <2>1. future' = Append(future, "pending")
    BY DEF PutOrdered
  <2>2. \A n \in 1..puts : future'[n] = future[n]
    BY <1>1, <2>1
  <2>3. 1..puts \subseteq 1..(puts + 1) /\ puts + 1 \in 1..(puts + 1)
    BY <1>1
  <2>. QED
    BY <1>2, <1>7, <1>9, <2>2, <2>3 DEF QueueInv, Numbered
<1>13. Drained'
  BY <1>7 DEF QueueInv, Drained
<1>14. ASSUME NEW t \in Types PROVE Tracks(t)'
  <2>1. newest[t] <= puts' /\ Tracks(t)
    BY <1>1, <1>7 DEF QueueInv, Tracks, PollerTypes
  <2>2. t # "step"
    BY KindsApart
  <2>. QED
    BY <1>2, <1>7, <1>9, <2>1, <2>2, TracksOn
<1>. QED
  BY <1>10, <1>11, <1>12, <1>13, <1>14 DEF QueueInv

\* drain_entries() at the top of a cycle: the batch is the whole queue, in turn.
LEMMA DrainStep ==
    ASSUME QueueInv, TopOfCycle
    PROVE  QueueInv'
<1>. DEFINE parts == [i \in DOMAIN segments |-> Entries(segments[i])]
<1>1. segments \in Seq(Segment) /\ Len(segments) \in Nat /\ DOMAIN segments = 1..Len(segments)
  BY DEF QueueInv, PollerTypes
<1>2. batch = <<>> /\ task = "top"
  BY DEF TopOfCycle, QueueInv, Drained
<1>3. /\ segments' = <<>> /\ batch' = FlattenSeq(parts) /\ task' = "next"
      /\ UNCHANGED <<puts, future, newest, running, backoff, swapVars, external, ran>>
  BY DEF TopOfCycle
<1>4. ASSUME NEW k \in DOMAIN segments
      PROVE  /\ parts[k] \in Seq(Entry) /\ Sorted(parts[k], InTurn)
             /\ ToSet(parts[k]) = Members(segments[k])
  <2>1. segments[k] \in Segment /\ Formed(segments[k])
    BY <1>1 DEF QueueInv, Segmented
  <2>. QED
    BY <2>1, EntriesInTurn
<1>5. parts \in Seq(Seq(Entry)) /\ DOMAIN parts = DOMAIN segments
  <2>1. \A k \in 1..Len(segments) : parts[k] \in Seq(Entry)
    BY <1>1, <1>4
  <2>. QED
    BY <1>1, <2>1
<1>. HIDE DEF parts
<1>6. ASSUME NEW k \in DOMAIN parts, NEW l \in DOMAIN parts, k < l
      PROVE  Before(ToSet(parts[k]), ToSet(parts[l]), InTurn)
  <2>. SUFFICES ASSUME NEW a \in Members(segments[k]), NEW b \in Members(segments[l])
                PROVE  <<a, b>> \in InTurn
    BY <1>4, <1>5 DEF Before
  <2>1. a.n < b.n
    BY <1>5, <1>6 DEF QueueInv, Segmented, Older
  <2>2. a \in InQueue /\ b \in InQueue
    BY <1>5 DEF InQueue
  <2>3. a \in Entry /\ b \in Entry
    BY <2>2, MembersAreEntries DEF QueueInv
  <2>. QED
    BY <2>1, <2>3, Unrelated
<1>7. /\ batch' \in Seq(Entry) /\ Sorted(batch', InTurn)
      /\ ToSet(batch') = UNION {ToSet(parts[k]) : k \in DOMAIN parts}
  BY <1>3, <1>4, <1>5, <1>6, FlattenSorted
<1>8. InQueue' = InQueue
  <2>1. ToSet(batch) = {} /\ DOMAIN (<<>>) = {}
    BY <1>2 DEF ToSet
  <2>2. \A a \in InQueue' : a \in InQueue
    BY <1>3, <1>4, <1>5, <1>7, <2>1 DEF InQueue
  <2>3. \A a \in InQueue : a \in InQueue'
    BY <1>3, <1>4, <1>5, <1>7, <2>1 DEF InQueue
  <2>. QED
    BY <2>2, <2>3
<1>9. PollerTypes'
  <2>1. segments' \in Seq(Segment)
    BY <1>3
  <2>. QED
    BY <1>2, <1>3, <1>7, <2>1 DEF QueueInv, PollerTypes, Phases, swapVars
<1>10. Segmented'
  BY <1>3 DEF Segmented
<1>11. Numbered'
  BY <1>3, <1>8 DEF QueueInv, Numbered
<1>12. Drained'
  BY <1>3, <1>7 DEF Drained
<1>13. ASSUME NEW t \in Types PROVE Tracks(t)'
  BY <1>2, <1>3, <1>8 DEF QueueInv, Tracks
<1>. QED
  BY <1>9, <1>10, <1>11, <1>12, <1>13 DEF QueueInv

\* The first of what was drained goes, as the oldest of what is related to it.
LEMMA HeadGoes ==
    ASSUME QueueInv, batch # <<>>
    PROVE  /\ Head(batch) \in Entry /\ Head(batch) \in InQueue /\ Head(batch) = batch[1]
           /\ Tail(batch) \in Seq(Entry) /\ Sorted(Tail(batch), InTurn)
           /\ ToSet(batch) = ToSet(Tail(batch)) \union {Head(batch)}
           /\ \A e \in ToSet(Tail(batch)) : Related(Head(batch), e) => Head(batch).n < e.n
<1>1. batch \in Seq(Entry) /\ Len(batch) \in Nat \ {0} /\ DOMAIN batch = 1..Len(batch)
  BY DEF QueueInv, PollerTypes
<1>2. /\ Head(batch) = batch[1] /\ Tail(batch) \in Seq(Entry) /\ 1 \in DOMAIN batch
      /\ Len(Tail(batch)) = Len(batch) - 1 /\ DOMAIN Tail(batch) = 1..(Len(batch) - 1)
      /\ \A i \in 1..(Len(batch) - 1) : Tail(batch)[i] = batch[i + 1]
  BY <1>1, HeadTailProperties
<1>3. \A i \in DOMAIN Tail(batch) : i + 1 \in DOMAIN batch /\ 1 < i + 1 /\ Tail(batch)[i] = batch[i + 1]
  BY <1>1, <1>2
<1>4. Head(batch) \in Entry /\ Head(batch) \in ToSet(batch)
  BY <1>1, <1>2 DEF ToSet
<1>5. Head(batch) \in InQueue
  BY <1>4 DEF InQueue
<1>6. Sorted(Tail(batch), InTurn)
  <2>1. \A i, j \in DOMAIN Tail(batch) : i < j => i + 1 < j + 1
    BY <1>1, <1>2
  <2>. QED
    BY <1>3, <2>1 DEF QueueInv, Drained, Sorted
<1>7. ToSet(batch) = ToSet(Tail(batch)) \union {Head(batch)}
  <2>1. ASSUME NEW i \in DOMAIN batch, i # 1 PROVE i - 1 \in DOMAIN Tail(batch) /\ Tail(batch)[i - 1] = batch[i]
    <3>1. i - 1 \in 1..(Len(batch) - 1) /\ (i - 1) + 1 = i
      BY <1>1, <2>1
    <3>. QED
      BY <1>2, <3>1
  <2>2. \A a \in ToSet(batch) : a \in ToSet(Tail(batch)) \union {Head(batch)}
    BY <1>2, <2>1 DEF ToSet
  <2>3. \A a \in ToSet(Tail(batch)) : a \in ToSet(batch)
    BY <1>3 DEF ToSet
  <2>. QED
    BY <1>4, <2>2, <2>3
<1>8. ASSUME NEW e \in ToSet(Tail(batch)), Related(Head(batch), e) PROVE Head(batch).n < e.n
  <2>1. PICK i \in DOMAIN Tail(batch) : e = Tail(batch)[i]
    BY DEF ToSet
  <2>2. <<Head(batch), e>> \in InTurn
    BY <1>2, <1>3, <2>1 DEF QueueInv, Drained, Sorted
  <2>3. <<Head(batch), e>>[1] = Head(batch) /\ <<Head(batch), e>>[2] = e
    OBVIOUS
  <2>. QED
    BY <1>8, <2>2, <2>3, Zenon DEF InTurn
<1>. QED
  BY <1>2, <1>4, <1>5, <1>6, <1>7, <1>8

\* Of everything in the queue, nothing that is related to the first is older.
LEMMA HeadIsFirst ==
    ASSUME QueueInv, batch # <<>>, NEW e \in InQueue, e # Head(batch), Related(Head(batch), e)
    PROVE  Head(batch).n < e.n
<1>1. CASE e \in ToSet(batch)
  BY <1>1, HeadGoes
<1>2. CASE e \notin ToSet(batch)
  <2>1. PICK k \in DOMAIN segments : e \in Members(segments[k])
    BY <1>2 DEF InQueue
  <2>2. Head(batch) \in ToSet(batch)
    BY HeadGoes
  <2>. QED
    BY <2>1, <2>2 DEF QueueInv, Segmented, Older
<1>. QED
  BY <1>1, <1>2

\* What becomes of the queue when the first entry is skipped or begun.
LEMMA HeadLeaves ==
    ASSUME QueueInv, batch # <<>>, batch' = Tail(batch), task' \in {"next", "execute"},
           UNCHANGED <<segments, puts, future, newest>>
    PROVE  /\ Segmented' /\ Numbered' /\ Drained'
           /\ InQueue = InQueue' \union {Head(batch)}
           /\ \A e \in InQueue' : Related(Head(batch), e) => Head(batch).n < e.n
<1>1. /\ ToSet(batch) = ToSet(batch') \union {Head(batch)} /\ Sorted(batch', InTurn)
      /\ \A e \in ToSet(batch') : Related(Head(batch), e) => Head(batch).n < e.n
  BY HeadGoes
<1>2. Segmented'
  BY <1>1 DEF QueueInv, Segmented, Older
<1>3. InQueue = InQueue' \union {Head(batch)}
  BY <1>1 DEF InQueue
<1>4. Numbered'
  BY <1>3 DEF QueueInv, Numbered
<1>5. Drained'
  BY <1>1 DEF Drained
<1>6. ASSUME NEW e \in InQueue', Related(Head(batch), e) PROVE Head(batch).n < e.n
  <2>1. CASE e \in ToSet(batch')
    BY <1>1, <1>6, <2>1
  <2>2. CASE e \notin ToSet(batch')
    <3>1. PICK k \in DOMAIN segments : e \in Members(segments[k])
      BY <2>2 DEF InQueue
    <3>2. Head(batch) \in ToSet(batch)
      BY HeadGoes
    <3>. QED
      BY <3>1, <3>2 DEF QueueInv, Segmented, Older
  <2>. QED
    BY <2>1, <2>2
<1>. QED
  BY <1>2, <1>3, <1>4, <1>5, <1>6

\* A cancelled step is skipped.
LEMMA SkipStep ==
    ASSUME QueueInv, SkipEntry
    PROVE  QueueInv'
<1>1. /\ task = "next" /\ task' = task /\ batch # <<>> /\ batch' = Tail(batch)
      /\ UNCHANGED <<segments, puts, future, newest, running, backoff, swapVars, external, ran>>
  BY DEF SkipEntry, queueVars
<1>2. /\ Segmented' /\ Numbered' /\ Drained'
      /\ InQueue = InQueue' \union {Head(batch)}
  BY <1>1, HeadLeaves
<1>3. Head(batch).type = "step"
  <2>1. future[Head(batch).n] = "cancelled"
    BY DEF SkipEntry, Skips
  <2>. QED
    BY <1>1, <2>1, HeadGoes DEF QueueInv, Numbered
<1>4. PollerTypes'
  <2>1. batch' \in Seq(Entry)
    BY <1>1, HeadGoes
  <2>. QED
    BY <1>1, <2>1 DEF QueueInv, PollerTypes, swapVars
<1>5. ASSUME NEW t \in Types PROVE Tracks(t)'
  BY <1>1, <1>2, <1>3, KindsApart DEF QueueInv, Tracks
<1>. QED
  BY <1>2, <1>4, <1>5 DEF QueueInv

\* _execute() begins: the command that goes is the oldest of its type.
LEMMA ExecuteStep ==
    ASSUME QueueInv, Execute
    PROVE  QueueInv'
<1>. DEFINE e == Head(batch)
<1>1. /\ task = "next" /\ task' = "execute" /\ batch # <<>> /\ batch' = Tail(batch) /\ running' = e
      /\ ran' = IF e.type \in Types THEN [ran EXCEPT ![e.type] = e.n] ELSE ran
      /\ UNCHANGED <<segments, puts, future, newest, backoff, swapVars, external>>
  BY DEF Execute, queueVars
<1>2. e \in Entry /\ e \in InQueue /\ Tail(batch) \in Seq(Entry)
  BY <1>1, HeadGoes
<1>. HIDE DEF e
<1>3. /\ Segmented' /\ Numbered' /\ Drained'
      /\ InQueue = InQueue' \union {e}
      /\ \A f \in InQueue' : Related(e, f) => e.n < f.n
  BY <1>1, HeadLeaves DEF e
<1>4. PollerTypes'
  <2>1. ran' \in [Types -> Nat]
    BY <1>1, <1>2 DEF QueueInv, PollerTypes, Entry
  <2>2. running' \in Entry /\ running' # None
    BY <1>1, <1>2, KindsApart DEF Entry, Kinds, None
  <2>. QED
    BY <1>1, <1>2, <2>1, <2>2 DEF QueueInv, PollerTypes, swapVars, Phases
<1>5. ASSUME NEW t \in Types PROVE Tracks(t)'
  <2>1. newest'[t] <= puts' /\ \A f \in InQueue' : f.type = t => f.n <= newest'[t]
    BY <1>1, <1>3 DEF QueueInv, Tracks
  <2>2. newest[t] \in Nat /\ e.n \in Nat /\ \A f \in InQueue' : f.n \in Nat
    BY <1>2, <1>3, MembersAreEntries DEF QueueInv, PollerTypes, Entry
  <2>3. CASE e.type # t
    BY <1>1, <1>3, <2>1, <2>3 DEF QueueInv, Tracks
  <2>4. CASE e.type = t /\ \E f \in InQueue' : f.type = t
    <3>1. e.n # newest[t]
      <4>1. PICK f \in InQueue' : f.type = t
        BY <2>4
      <4>2. e.n < f.n /\ f.n <= newest[t]
        BY <1>1, <1>3, <2>1, <2>4, <4>1 DEF Related
      <4>. QED
        BY <2>2, <4>2
    <3>2. PICK f \in InQueue : f.type = t /\ f.n = newest[t]
      BY <1>1, <1>2, <2>4 DEF QueueInv, Tracks
    <3>3. f \in InQueue'
      BY <1>3, <3>1, <3>2
    <3>. QED
      BY <1>1, <2>1, <3>2, <3>3 DEF Tracks
  <2>5. CASE e.type = t /\ \A f \in InQueue' : f.type # t
    <3>1. e.n = newest[t]
      BY <1>1, <1>2, <1>3, <2>5 DEF QueueInv, Tracks
    <3>2. ran'[t] = newest'[t]
      BY <1>1, <2>5, <3>1 DEF QueueInv, PollerTypes
    <3>. QED
      BY <2>1, <2>5, <3>2 DEF Tracks
  <2>. QED
    BY <2>3, <2>4, <2>5
<1>. QED
  BY <1>3, <1>4, <1>5 DEF QueueInv

\* stop(): what was drained is lost.
LEMMA StopStep ==
    ASSUME QueueInv, Stop
    PROVE  QueueInv'
<1>1. /\ task' = "ended" /\ running' = None /\ batch' = <<>>
      /\ UNCHANGED <<segments, puts, future, newest, backoff, external, ran>>
  BY DEF Stop, queueVars
<1>2. swapped' \in BOOLEAN /\ override' \in BOOLEAN /\ {swapLost', cutShort'} \subseteq BOOLEAN
  BY DEF Stop, QueueInv, PollerTypes, swapVars
<1>3. ToSet(<<>>) = {} /\ <<>> \in Seq(Entry)
  BY DEF ToSet
<1>4. PollerTypes'
  BY <1>1, <1>2, <1>3 DEF QueueInv, PollerTypes, Phases
<1>5. Segmented'
  BY <1>1, <1>3 DEF QueueInv, Segmented, Older
<1>6. \A e \in InQueue' : e \in InQueue
  BY <1>1, <1>3 DEF InQueue
<1>7. Numbered'
  BY <1>1, <1>6 DEF QueueInv, Numbered
<1>8. Drained'
  BY <1>1 DEF Drained, Sorted
<1>9. ASSUME NEW t \in Types PROVE Tracks(t)'
  BY <1>1, <1>6 DEF QueueInv, Tracks
<1>. QED
  BY <1>4, <1>5, <1>7, <1>8, <1>9 DEF QueueInv

\* The invariant of the queue is inductive.
LEMMA QueueStep ==
    ASSUME QueueInv, [PollerNext]_pollerAll
    PROVE  QueueInv'
<1>1. CASE \E type \in Types \union {"ptt"} : Put(type)
  BY <1>1, PutStep
<1>2. CASE PutOrdered
  BY <1>2, PutOrderedStep
<1>3. CASE StepTimesOut
  <2>1. future \in Seq(Fates) /\ Len(future) = puts /\ Waiting = {n \in DOMAIN future : future[n] = "pending"}
    BY DEF QueueInv, PollerTypes, Waiting
  <2>2. future' = [n \in DOMAIN future |-> IF n \in Waiting THEN "cancelled" ELSE future[n]]
    BY <1>3 DEF StepTimesOut
  <2>3. future' \in Seq(Fates) /\ Len(future') = puts
    <3>1. \A n \in DOMAIN future : future'[n] \in Fates
      BY <2>1, <2>2 DEF Fates
    <3>2. DOMAIN future' = 1..puts /\ DOMAIN future = 1..puts /\ puts \in Nat
      BY <2>1, <2>2 DEF QueueInv, PollerTypes
    <3>. QED
      BY <2>2, <3>1, <3>2
  <2>4. \A n \in DOMAIN future : future[n] = "none" => future'[n] = "none"
    BY <2>1, <2>2
  <2>5. UNCHANGED <<segments, puts, newest, batch, running, task, backoff, swapVars, external, ran>>
    BY <1>3 DEF StepTimesOut
  <2>6. PollerTypes'
    BY <2>3, <2>5 DEF QueueInv, PollerTypes, swapVars
  <2>. QED
    BY <2>4, <2>5, <2>6, QueueKept DEF QueueInv, Drained
<1>4. CASE TopOfCycle
  BY <1>4, DrainStep
<1>5. CASE SkipEntry
  BY <1>5, SkipStep
<1>6. CASE Execute
  BY <1>6, ExecuteStep
<1>7. CASE \E outcome \in {"ok", "gone", "error"} : ExecuteEnds(outcome)
  <2>1. /\ task = "execute" /\ task' = "gap" /\ running' = None
        /\ future' = [future EXCEPT ![running.n] = IF @ = "pending" THEN "done" ELSE @]
        /\ backoff' \in {FALSE, TRUE, backoff}
        /\ UNCHANGED <<segments, puts, newest, batch, swapVars, external, ran>>
    BY <1>7 DEF ExecuteEnds
  <2>2. future \in Seq(Fates) /\ Len(future) = puts
    BY DEF QueueInv, PollerTypes
  <2>3. future' \in Seq(Fates) /\ Len(future') = puts /\ \A n \in DOMAIN future : future[n] = "none" => future'[n] = "none"
    <3>. DEFINE n == running.n
                v == IF future[n] = "pending" THEN "done" ELSE future[n]
    <3>1. future' = [future EXCEPT ![n] = v]
      BY <2>1
    <3>2. n \in DOMAIN future => v \in Fates
      BY <2>2 DEF Fates
    <3>3. n \in DOMAIN future /\ future[n] = "none" => v = "none"
      OBVIOUS
    <3>. HIDE DEF n, v
    <3>4. DOMAIN future = 1..puts /\ puts \in Nat /\ DOMAIN future' = DOMAIN future
      BY <2>2, <3>1 DEF QueueInv, PollerTypes
    <3>5. \A k \in 1..puts : future'[k] \in Fates
      BY <2>2, <3>1, <3>2, <3>4
    <3>6. \A k \in DOMAIN future : future[k] = "none" => future'[k] = "none"
      BY <3>1, <3>3
    <3>7. future' \in Seq(Fates) /\ Len(future') = puts
      <4>1. future' = [k \in 1..puts |-> future'[k]]
        BY <3>1, <3>4
      <4>. QED
        BY <3>4, <3>5, <4>1
    <3>. QED
      BY <3>6, <3>7
  <2>4. PollerTypes'
    BY <2>1, <2>3 DEF QueueInv, PollerTypes, swapVars, Phases
  <2>. QED
    BY <2>1, <2>3, <2>4, QueueKept
<1>8. CASE GapEnds
  <2>1. PollerTypes'
    BY <1>8 DEF GapEnds, QueueInv, PollerTypes, queueVars, swapVars, Phases
  <2>. QED
    BY <1>8, <2>1, QueueKept DEF GapEnds, queueVars
<1>9. CASE \/ QueryBegins \/ WaitEnds \/ SessionChanges \/ UNCHANGED pollerAll
           \/ \E outcome \in {"ok", "gone", "error"} : QueryEnds(outcome)
           \/ \E ok \in BOOLEAN : Swap(ok) \/ SlotQueried(ok) \/ SwapBack(ok)
  <2>1. /\ UNCHANGED <<segments, puts, newest, future, batch, running, ran>>
        /\ batch # <<>> => task' = task
        /\ (task' = "execute" <=> task = "execute") /\ task' \in Phases
        /\ task = "ended" => task' = "ended"
    BY <1>9 DEF QueryBegins, WaitEnds, SessionChanges, pollerAll, queueVars, QueryEnds, Swap, SlotQueried,
                SwapBack, AfterQuery, QueueInv, Drained, PollerTypes, Phases
  <2>2. /\ backoff' \in BOOLEAN /\ swapped' \in BOOLEAN /\ override' \in BOOLEAN
        /\ external' \in BOOLEAN /\ {swapLost', cutShort'} \subseteq BOOLEAN
    BY <1>9 DEF QueryBegins, WaitEnds, SessionChanges, pollerAll, swapVars, QueryEnds, Swap, SlotQueried,
                SwapBack, Notices, QueueInv, PollerTypes
  <2>3. PollerTypes'
    BY <2>1, <2>2 DEF QueueInv, PollerTypes
  <2>. QED
    BY <2>1, <2>3, QueueKept DEF QueueInv, Drained
<1>10. CASE Stop
  BY <1>10, StopStep
<1>. QED
  BY <1>1, <1>2, <1>3, <1>4, <1>5, <1>6, <1>7, <1>8, <1>9, <1>10 DEF PollerNext, TaskStep

\* The lanes, the segments and the batch are in turn, and track the last command of each
\* type (CommandQueue of runtime/_poller_types.py, the drain of web/radio_poller.py).
THEOREM QueueInvariance == PollerSafety => []QueueInv
<1>. QED
  BY QueueInit, QueueStep, PTL DEF PollerSafety

\* The types of the queue, the task and the steps' futures (CommandQueue of
\* runtime/_poller_types.py, RadioPoller of web/radio_poller.py).
THEOREM PollerTypeCorrect == PollerSafety => []PollerTypeOK
<1>1. QueueInv => PollerTypeOK
  <2>. SUFFICES ASSUME PollerTypes PROVE PollerTypeOK
    BY DEF QueueInv
  <2>1. Len(future) = puts /\ (running # None <=> task = "execute")
    BY DEF PollerTypes
  <2>2. \A n \in DOMAIN future : future[n] \in Fates
    BY DEF PollerTypes
  <2>3. {backoff, swapped, override, external, swapLost, cutShort} \subseteq BOOLEAN
    BY Zenon DEF PollerTypes
  <2>4. task \in Phases
    BY DEF PollerTypes
  <2>. QED
    BY <2>1, <2>2, <2>3, <2>4 DEF PollerTypeOK, Fates, Phases
<1>. QED
  BY <1>1, QueueInvariance, PTL

\* The last command of each type that was put is the last to reach the radio, for
\* any types, any number of commands and any steps of an HTTP batch in between
\* (put(), drain_entries() and _run()).
THEOREM LastWriteAlwaysWins == PollerSafety => []LastWriteWins
<1>1. QueueInv => LastWriteWins
  BY QueuedMeans DEF QueueInv, Tracks, LastWriteWins
<1>. QED
  BY <1>1, QueueInvariance, PTL

\* A step runs between what was put before it and what was put after it, and PTT
\* commands run as they were put (the lanes of drain_entries()).
THEOREM LanesStayExact == PollerSafety => LaneIsExact
<1>1. ASSUME QueueInv, [PollerNext]_pollerAll, running' # running, running' # None,
             NEW e \in Queued \ {running'}, Ordinal(e, running')
      PROVE  running'.n < e.n
  <2>1. Execute
    BY <1>1 DEF PollerNext, TaskStep, Put, PutOrdered, StepTimesOut, TopOfCycle, SkipEntry, ExecuteEnds, GapEnds,
                QueryBegins, WaitEnds, QueryEnds, Swap, SlotQueried, SwapBack, Stop, SessionChanges, pollerAll
  <2>2. batch # <<>> /\ running' = Head(batch)
    BY <2>1 DEF Execute
  <2>3. e \in InQueue /\ e # Head(batch)
    BY <1>1, <2>2, QueuedMeans DEF QueueInv
  <2>4. Related(Head(batch), e)
    <3>1. ASSUME {e.type, Head(batch).type} = {"ptt"} PROVE Head(batch).type = e.type
      BY <3>1
    <3>. QED
      BY <1>1, <2>2, <3>1 DEF Ordinal, Related
  <2>. QED
    BY <1>1, <2>2, <2>3, <2>4, HeadIsFirst
<1>2. QueueInv /\ [PollerNext]_pollerAll =>
        [running' # running /\ running' # None =>
           \A e \in Queued \ {running'} : Ordinal(e, running') => running'.n < e.n]_pollerAll
  BY <1>1
<1>. QED
  BY <1>2, QueueInvariance, PTL DEF PollerSafety, LaneIsExact

-----------------------------------------------------------------------------
(***************************************************************************)
(* Proofs about StateBroadcast, for any clients, fields, interval of full  *)
(* states and size of the queues.                                          *)
(*                                                                         *)
(* The last full message is as many broadcasts old as there were deltas    *)
(* since; a client that was given more broadcasts in a row than that got   *)
(* it and everything since (Agrees).                                       *)
(***************************************************************************)

\* The view v after the messages es.
Shown(v, es) == FoldLeft(Applied, v, es)

\* The largest of the first k numbers.
LEMMA LargestOf ==
    ASSUME NEW k \in Nat \ {0}, NEW s \in SUBSET (1..k), k \in s
    PROVE  Max(s) = k
<1>1. \A y \in s : y \in Nat /\ k >= y
  OBVIOUS
<1>2. \A x \in s : (\A y \in s : x >= y) => x = k
  BY <1>1
<1>. QED
  BY <1>1, <1>2 DEF Max

\* f says what the view is after each set of messages.
Iterated(f, v, es, n) ==
    /\ f[{}] = v /\ Shown(v, es) = f[1..n]
    /\ \A s \in SUBSET (1..n) : s # {} => f[s] = Applied(f[s \ {Max(s)}], es[Max(s)])

\* FoldLeft iterates over the sets of positions: there is such a function, because
\* one for the first k - 1 positions has an extension.
LEMMA FoldIterates ==
    ASSUME NEW v, NEW es, NEW n \in Nat, DOMAIN es = 1..n
    PROVE  \E f : Iterated(f, v, es, n)
<1>. DEFINE Iterates(f, k) == f = [s \in SUBSET (1..k) |->
                                     IF s = {} THEN v ELSE Applied(f[s \ {Max(s)}], es[Max(s)])]
            Without == {k \in Nat : ~ \E f : Iterates(f, k)}
<1>1. Without = {}
  <2>. SUFFICES ASSUME Without # {} PROVE FALSE
    OBVIOUS
  <2>1. PICK k \in Without : \A j \in Without : k <= j
    <3>1. Without \in SUBSET Nat
      OBVIOUS
    <3>. HIDE DEF Without
    <3>. QED
      BY <3>1, LeastNumber
  <2>2. k \in Nat /\ ~ \E f : Iterates(f, k)
    OBVIOUS
  <2>3. CASE k = 0
    <3>. DEFINE f == [s \in SUBSET (1..0) |-> v]
    <3>1. \A s \in SUBSET (1..0) : s = {}
      OBVIOUS
    <3>2. Iterates(f, 0)
      BY <3>1
    <3>. QED
      BY <2>2, <2>3, <3>2
  <2>4. CASE k # 0
    <3>1. k - 1 \in Nat /\ k - 1 \notin Without
      <4>. HIDE DEF Without, Iterates
      <4>1. k \in Nat /\ k # 0
        BY <2>2, <2>4
      <4>. QED
        BY <4>1, <2>1
    <3>2. PICK g : Iterates(g, k - 1)
      BY <3>1
    <3>. DEFINE f == [s \in SUBSET (1..k) |->
                        IF k \in s THEN Applied(g[s \ {k}], es[k]) ELSE g[s]]
    <3>3. ASSUME NEW s \in SUBSET (1..k), k \notin s
          PROVE  s \in SUBSET (1..(k - 1)) /\ f[s] = g[s]
      BY <2>2, <2>4, <3>3
    <3>4. ASSUME NEW s \in SUBSET (1..k), k \in s
          PROVE  /\ Max(s) = k /\ s # {}
                 /\ f[s] = Applied(f[s \ {Max(s)}], es[Max(s)])
      <4>1. Max(s) = k
        BY <2>2, <2>4, <3>4, LargestOf
      <4>2. s \ {k} \in SUBSET (1..k) /\ k \notin s \ {k}
        OBVIOUS
      <4>3. f[s \ {k}] = g[s \ {k}]
        BY <3>3, <4>2
      <4>4. f[s] = Applied(g[s \ {k}], es[k])
        BY <3>4
      <4>. QED
        BY <3>4, <4>1, <4>3, <4>4
    <3>5. ASSUME NEW s \in SUBSET (1..k), k \notin s, s # {}
          PROVE  f[s] = Applied(f[s \ {Max(s)}], es[Max(s)])
      <4>1. g[s] = Applied(g[s \ {Max(s)}], es[Max(s)])
        BY <3>2, <3>3, <3>5
      <4>2. s \ {Max(s)} \in SUBSET (1..k) /\ k \notin s \ {Max(s)}
        BY <3>5
      <4>. QED
        BY <3>3, <3>5, <4>1, <4>2
    <3>6. f[{}] = v
      BY <3>2, <3>3
    <3>7. f = [s \in SUBSET (1..k) |-> f[s]]
      OBVIOUS
    <3>. HIDE DEF f
    <3>8. Iterates(f, k)
      BY <3>4, <3>5, <3>6, <3>7
    <3>. QED
      BY <2>2, <3>8
  <2>. QED
    BY <2>3, <2>4
<1>2. \E f : Iterates(f, n)
  BY <1>1
<1>. DEFINE iter == CHOOSE f : Iterates(f, n)
<1>3. Iterates(iter, n)
  BY <1>2
<1>4. Shown(v, es) = iter[1..n]
  BY DEF Shown, FoldLeft, MapThenFoldSet
<1>5. \A s \in SUBSET (1..n) : iter[s] = IF s = {} THEN v ELSE Applied(iter[s \ {Max(s)}], es[Max(s)])
  BY <1>3
<1>6. {} \in SUBSET (1..n)
  OBVIOUS
<1>. HIDE DEF iter
<1>7. iter[{}] = v
  BY <1>5, <1>6
<1>. QED
  BY <1>4, <1>5, <1>7 DEF Iterated

\* g says what the view is after each of the messages.
Steps(g, v, es, n) == g[0] = v /\ \A k \in 1..n : g[k] = Applied(g[k - 1], es[k])

\* FoldLeft applies one message after the other.
LEMMA FoldUnfolds ==
    ASSUME NEW v, NEW es, NEW n \in Nat, DOMAIN es = 1..n
    PROVE  \E g : Steps(g, v, es, n) /\ Shown(v, es) = g[n]
<1>0. PICK f : Iterated(f, v, es, n)
  BY FoldIterates
<1>1. /\ f[{}] = v /\ Shown(v, es) = f[1..n]
      /\ \A s \in SUBSET (1..n) : s # {} => f[s] = Applied(f[s \ {Max(s)}], es[Max(s)])
  BY <1>0 DEF Iterated
<1>. DEFINE g == [k \in 0..n |-> f[1..k]]
<1>2. g[0] = v
  <2>1. 1..0 = {} /\ {} \in SUBSET (1..n) /\ 0 \in 0..n
    OBVIOUS
  <2>2. f[{}] = v
    BY <1>1
  <2>. QED
    BY <2>1, <2>2
<1>3. ASSUME NEW k \in 1..n PROVE g[k] = Applied(g[k - 1], es[k])
  <2>1. k \in Nat \ {0} /\ k - 1 \in 0..n /\ k \in 0..n
    OBVIOUS
  <2>2. 1..k \in SUBSET (1..n) /\ k \in 1..k /\ 1..k # {}
    <3>1. \A j \in 1..k : j \in 1..n
      OBVIOUS
    <3>2. k \in 1..k
      OBVIOUS
    <3>. QED
      BY <3>1, <3>2
  <2>3. Max(1..k) = k
    BY <2>1, <2>2, LargestOf
  <2>4. (1..k) \ {k} = 1..(k - 1)
    BY <2>1
  <2>5. f[1..k] = Applied(f[(1..k) \ {Max(1..k)}], es[Max(1..k)])
    BY <1>1, <2>2
  <2>. QED
    BY <2>1, <2>3, <2>4, <2>5
<1>4. Shown(v, es) = g[n]
  <2>1. n \in 0..n
    OBVIOUS
  <2>. QED
    BY <1>1, <2>1
<1>. HIDE DEF g
<1>. QED
  BY <1>2, <1>3, <1>4 DEF Steps

\* Two such functions agree wherever the same messages were applied.
LEMMA StepsAgree ==
    ASSUME NEW n \in Nat, NEW g, NEW h, g[0] = h[0],
           \A k \in 1..n : g[k - 1] = h[k - 1] => g[k] = h[k]
    PROVE  g[n] = h[n]
<1>. DEFINE Apart == {k \in 0..n : g[k] # h[k]}
<1>1. Apart = {}
  <2>. SUFFICES ASSUME Apart # {} PROVE FALSE
    OBVIOUS
  <2>1. Apart \in SUBSET Nat /\ \A k \in Apart : k \in 0..n /\ g[k] # h[k]
    OBVIOUS
  <2>2. \A k \in 0..n : k \notin Apart => g[k] = h[k]
    OBVIOUS
  <2>. HIDE DEF Apart
  <2>3. PICK k \in Apart : \A j \in Apart : k <= j
    BY <2>1, LeastNumber
  <2>4. k # 0 /\ k \in 1..n /\ k - 1 \in 0..n /\ k \in Nat
    BY <2>1
  <2>5. k - 1 \notin Apart
    BY <2>3, <2>4
  <2>. QED
    BY <2>1, <2>2, <2>4, <2>5
<1>. QED
  BY <1>1

\* No message, no change.
LEMMA NothingToApply == \A v : Shown(v, <<>>) = v
<1>. SUFFICES ASSUME NEW v PROVE Shown(v, <<>>) = v
  OBVIOUS
<1>1. DOMAIN <<>> = 1..0
  OBVIOUS
<1>. QED
  BY <1>1, FoldUnfolds DEF Steps

\* A message more at the end is applied last.
LEMMA OneMore ==
    ASSUME NEW S, NEW v, NEW es \in Seq(S), NEW e \in S
    PROVE  Shown(v, Append(es, e)) = Applied(Shown(v, es), e)
<1>. DEFINE n == Len(es)
            more == Append(es, e)
<1>1. /\ n \in Nat /\ DOMAIN es = 1..n /\ n + 1 \in Nat /\ n + 1 \in 1..(n + 1)
      /\ DOMAIN more = 1..(n + 1) /\ more[n + 1] = e /\ \A k \in 1..n : more[k] = es[k]
  OBVIOUS
<1>. HIDE DEF n, more
<1>2. PICK g : Steps(g, v, es, n) /\ Shown(v, es) = g[n]
  BY <1>1, FoldUnfolds
<1>3. PICK h : Steps(h, v, more, n + 1) /\ Shown(v, more) = h[n + 1]
  BY <1>1, FoldUnfolds
<1>4. g[n] = h[n]
  <2>1. g[0] = h[0]
    BY <1>2, <1>3 DEF Steps
  <2>2. ASSUME NEW k \in 1..n, g[k - 1] = h[k - 1] PROVE g[k] = h[k]
    <3>1. k \in 1..(n + 1) /\ more[k] = es[k]
      BY <1>1
    <3>. QED
      BY <1>2, <1>3, <2>2, <3>1 DEF Steps
  <2>. QED
    BY <1>1, <2>1, <2>2, StepsAgree
<1>5. h[n + 1] = Applied(h[n], e)
  <2>1. (n + 1) - 1 = n
    BY <1>1
  <2>. QED
    BY <1>1, <1>3, <2>1 DEF Steps
<1>. QED
  BY <1>2, <1>3, <1>4, <1>5 DEF more

\* The first message is applied first.
LEMMA OneLess ==
    ASSUME NEW S, NEW v, NEW es \in Seq(S), es # <<>>
    PROVE  Shown(Applied(v, Head(es)), Tail(es)) = Shown(v, es)
<1>. DEFINE n == Len(es) - 1
            rest == Tail(es)
<1>1. /\ n \in Nat /\ DOMAIN es = 1..(n + 1) /\ n + 1 \in Nat /\ Head(es) = es[1]
      /\ DOMAIN rest = 1..n /\ \A k \in 1..n : rest[k] = es[k + 1]
  BY HeadTailProperties
<1>. HIDE DEF n, rest
<1>2. PICK g : Steps(g, v, es, n + 1) /\ Shown(v, es) = g[n + 1]
  BY <1>1, FoldUnfolds
<1>3. PICK h : Steps(h, Applied(v, Head(es)), rest, n) /\ Shown(Applied(v, Head(es)), rest) = h[n]
  BY <1>1, FoldUnfolds
<1>. DEFINE shifted == [k \in 0..n |-> g[k + 1]]
<1>4. shifted[0] = h[0]
  <2>1. 1 \in 1..(n + 1) /\ 1 - 1 = 0 /\ 0 \in 0..n /\ 0 + 1 = 1
    BY <1>1
  <2>2. g[1] = Applied(v, Head(es))
    BY <1>1, <1>2, <2>1 DEF Steps
  <2>. QED
    BY <1>3, <2>1, <2>2 DEF Steps
<1>5. ASSUME NEW k \in 1..n, shifted[k - 1] = h[k - 1] PROVE shifted[k] = h[k]
  <2>1. k + 1 \in 1..(n + 1) /\ (k + 1) - 1 = k /\ k \in 0..n /\ k - 1 \in 0..n /\ (k - 1) + 1 = k
    BY <1>1
  <2>2. g[k + 1] = Applied(g[k], es[k + 1])
    BY <1>2, <2>1 DEF Steps
  <2>3. h[k] = Applied(h[k - 1], rest[k])
    BY <1>3 DEF Steps
  <2>. QED
    BY <1>1, <1>5, <2>1, <2>2, <2>3
<1>6. n \in 0..n
  BY <1>1
<1>. HIDE DEF shifted
<1>7. shifted[n] = h[n]
  BY <1>1, <1>4, <1>5, StepsAgree
<1>. QED
  BY <1>2, <1>3, <1>6, <1>7 DEF shifted, rest

-----------------------------------------------------------------------------

Views   == [Fields -> Values]
Messages == [type : {"full"}, data : Views] \union [type : {"delta"}, data : UNION {[F -> Values] : F \in SUBSET Fields}]
              \union {Note}

BroadcastTypes ==
    /\ state \in Views /\ deltas \in 0..FullInterval
    /\ previous # Absent => previous \in Views
    /\ viewer \in [Viewers -> {"away", "first", "listening"}]
    /\ events \in [Viewers -> Seq(Messages)] /\ view \in [Viewers -> Views]
    /\ whole \in [Viewers -> BOOLEAN] /\ held \in [Viewers -> 0..(FullInterval + 1)]
    /\ \A c \in Viewers : Len(events[c]) <= QueueLimit
    /\ \A c \in Viewers : viewer[c] # "listening" => events[c] = <<>> /\ held[c] = 0 /\ ~whole[c]

\* A client that got the last full message and everything since shows, with its
\* queue worked off, what was broadcast last.
Agrees(c) == whole[c] \/ held[c] > deltas => Shown(view[c], events[c]) = previous

BroadcastInv == BroadcastTypes /\ \A c \in Viewers : Agrees(c)

\* A full state shows the state whatever was shown,
LEMMA FullShowsAll == \A v, s : Applied(v, Full(s)) = s
BY DEF Applied, Full

\* a notice shows nothing,
LEMMA NoteShowsNothing == \A v : Applied(v, Note) = v
BY DEF Applied, Note

\* and a delta what has changed since the state before.
LEMMA DeltaShowsTheRest ==
    ASSUME NEW old \in Views, NEW new \in Views
    PROVE  Applied(old, Delta(Differences(old, new))) = new
<1>. DEFINE d == Differences(old, new)
<1>1. /\ DOMAIN d = {g \in Fields : new[g] # old[g]}
      /\ \A f \in DOMAIN d : d[f] = new[f]
  BY DEF Differences
<1>2. Applied(old, Delta(d)) = [f \in Fields |-> IF f \in DOMAIN d THEN d[f] ELSE old[f]]
  BY DEF Applied, Delta
<1>. HIDE DEF d
<1>3. [f \in Fields |-> IF f \in DOMAIN d THEN d[f] ELSE old[f]] = new
  BY <1>1 DEF Views
<1>. QED
  BY <1>2, <1>3 DEF d

\* The view after a broadcast is the state broadcast.
LEMMA AppliedIsState ==
    ASSUME NEW v \in Views, NEW e \in Messages
    PROVE  Applied(v, e) \in Views
<1>1. CASE e = Note
  BY <1>1, NoteShowsNothing
<1>2. CASE e \in [type : {"full"}, data : Views]
  BY <1>2 DEF Applied
<1>3. CASE e \in [type : {"delta"}, data : UNION {[F -> Values] : F \in SUBSET Fields}]
  <2>1. e.type = "delta" /\ e.data \in UNION {[F -> Values] : F \in SUBSET Fields}
    BY <1>3
  <2>2. PICK F \in SUBSET Fields : e.data \in [F -> Values]
    BY <2>1
  <2>3. Applied(v, e) = [f \in Fields |-> IF f \in DOMAIN e.data THEN e.data[f] ELSE v[f]]
    BY <2>1 DEF Applied
  <2>. QED
    BY <2>2, <2>3 DEF Views
<1>. QED
  BY <1>1, <1>2, <1>3 DEF Messages

\* encode() gives a message that takes a client from what was broadcast last to
\* the state of now, and a full one takes it there from anywhere.
LEMMA EncodedTakesThere ==
    ASSUME BroadcastTypes
    PROVE  /\ Encoded \in Messages
           /\ Applied(previous, Encoded) = state
           /\ NeedsFull => \A v : Applied(v, Encoded) = state
<1>1. state \in Views
  BY DEF BroadcastTypes
<1>2. CASE NeedsFull
  <2>1. Encoded = Full(state) /\ Full(state) \in [type : {"full"}, data : Views]
    BY <1>1, <1>2 DEF Encoded, Full
  <2>. QED
    BY <2>1, FullShowsAll DEF Messages
<1>3. CASE ~NeedsFull
  <2>. DEFINE d == Differences(previous, state)
  <2>1. Encoded = Delta(d) /\ previous \in Views
    BY <1>3 DEF Encoded, NeedsFull, BroadcastTypes
  <2>2. d \in UNION {[F -> Values] : F \in SUBSET Fields}
    <3>1. d \in [{g \in Fields : state[g] # previous[g]} -> Values]
      BY <1>1 DEF Differences, Views
    <3>. QED
      BY <3>1
  <2>3. Delta(d) \in Messages
    <3>. HIDE DEF d
    <3>1. Delta(d) \in [type : {"delta"}, data : UNION {[F -> Values] : F \in SUBSET Fields}]
      BY <2>2 DEF Delta
    <3>. QED
      BY <3>1 DEF Messages
  <2>. QED
    BY <1>1, <1>3, <2>1, <2>3, DeltaShowsTheRest
<1>. QED
  BY <1>2, <1>3

\* Nobody is there and nothing was broadcast.
LEMMA BroadcastStarts == BroadcastInit => BroadcastInv
<1>. SUFFICES ASSUME BroadcastInit PROVE BroadcastInv
  OBVIOUS
<1>1. Blank \in Views /\ state \in Views
  BY DEF BroadcastInit, Blank, Views, Values
<1>2. \A c \in Viewers : events[c] = <<>> /\ Len(events[c]) = 0 /\ held[c] = 0 /\ ~whole[c]
  BY DEF BroadcastInit
<1>3. /\ view \in [Viewers -> Views] /\ events \in [Viewers -> Seq(Messages)]
      /\ viewer \in [Viewers -> {"away", "first", "listening"}]
  BY <1>1 DEF BroadcastInit
<1>4. /\ whole \in [Viewers -> BOOLEAN] /\ held \in [Viewers -> 0..(FullInterval + 1)]
      /\ deltas \in 0..FullInterval /\ previous = Absent
  BY BroadcastLimits DEF BroadcastInit
<1>5. BroadcastTypes
  BY <1>1, <1>2, <1>3, <1>4, BroadcastLimits DEF BroadcastTypes
<1>6. \A c \in Viewers : Agrees(c)
  BY <1>2, <1>4 DEF Agrees
<1>. QED
  BY <1>5, <1>6 DEF BroadcastInv

\* One lemma per action: a field changes,
LEMMA ChangeStep ==
    ASSUME BroadcastInv, NEW f \in Fields, Change(f)
    PROVE  BroadcastInv'
<1>1. state' \in Views
  BY DEF Change, BroadcastInv, BroadcastTypes, Views
<1>2. UNCHANGED <<previous, deltas, viewer, events, view, whole, held>>
  BY DEF Change
<1>. QED
  BY <1>1, <1>2 DEF BroadcastInv, BroadcastTypes, Agrees

\* the state is broadcast,
LEMMA BroadcastStep ==
    ASSUME BroadcastInv, Broadcast
    PROVE  BroadcastInv'
<1>1. /\ previous' = state /\ deltas' = (IF NeedsFull THEN 0 ELSE deltas + 1)
      /\ UNCHANGED <<state, viewer, view>>
  BY DEF Broadcast
<1>2. /\ Encoded \in Messages /\ Applied(previous, Encoded) = state
      /\ NeedsFull => \A v : Applied(v, Encoded) = state
  BY EncodedTakesThere DEF BroadcastInv
<1>3. /\ deltas \in 0..FullInterval /\ FullInterval \in Nat /\ deltas' \in 0..FullInterval
      /\ ~NeedsFull => deltas' = deltas + 1
      /\ NeedsFull => deltas' = 0
  BY <1>1, BroadcastLimits DEF BroadcastInv, BroadcastTypes, NeedsFull
<1>4. ASSUME NEW c \in Viewers
      PROVE  /\ events[c] \in Seq(Messages) /\ Len(events[c]) <= QueueLimit /\ held[c] \in 0..(FullInterval + 1)
             /\ whole[c] \in BOOLEAN /\ view[c] \in Views
             /\ events'[c] = (IF Fits(c) THEN Append(events[c], Encoded) ELSE events[c])
             /\ whole'[c] = (Fits(c) /\ (whole[c] \/ NeedsFull))
             /\ held'[c] = (IF ~Fits(c) THEN 0 ELSE IF held[c] > FullInterval THEN held[c] ELSE held[c] + 1)
  BY DEF Broadcast, BroadcastInv, BroadcastTypes
<1>5. ASSUME NEW c \in Viewers
      PROVE  events'[c] \in Seq(Messages) /\ Len(events'[c]) <= QueueLimit
  <2>1. CASE Fits(c)
    <3>1. events[c] \in Seq(Messages) /\ Len(events[c]) < QueueLimit /\ events'[c] = Append(events[c], Encoded)
      BY <1>4, <2>1 DEF Fits
    <3>2. Len(events'[c]) = Len(events[c]) + 1 /\ events'[c] \in Seq(Messages) /\ Len(events[c]) \in Nat
      BY <1>2, <3>1, AppendProperties, LenProperties
    <3>. QED
      BY <3>1, <3>2, BroadcastLimits
  <2>2. CASE ~Fits(c)
    BY <1>4, <2>2
  <2>. QED
    BY <2>1, <2>2
<1>6. ASSUME NEW c \in Viewers
      PROVE  held'[c] \in 0..(FullInterval + 1) /\ whole'[c] \in BOOLEAN
  <2>1. held[c] \in 0..(FullInterval + 1) /\ FullInterval \in Nat
    BY <1>3, <1>4
  <2>2. held'[c] = (IF ~Fits(c) THEN 0 ELSE IF held[c] > FullInterval THEN held[c] ELSE held[c] + 1)
    BY <1>4
  <2>3. whole'[c] = (Fits(c) /\ (whole[c] \/ NeedsFull))
    BY <1>4
  <2>. QED
    BY <2>1, <2>2, <2>3
<1>7. BroadcastTypes'
  <2>1. events' \in [Viewers -> Seq(Messages)]
    <3>1. events' = [c \in Viewers |-> events'[c]]
      BY DEF Broadcast
    <3>. QED
      BY <1>5, <3>1
  <2>2. whole' \in [Viewers -> BOOLEAN] /\ held' \in [Viewers -> 0..(FullInterval + 1)]
    <3>1. whole' = [c \in Viewers |-> whole'[c]] /\ held' = [c \in Viewers |-> held'[c]]
      BY DEF Broadcast
    <3>. QED
      BY <1>6, <3>1
  <2>3. ASSUME NEW c \in Viewers, viewer[c] # "listening"
        PROVE  events'[c] = <<>> /\ held'[c] = 0 /\ ~whole'[c]
    <3>1. ~Fits(c) /\ events[c] = <<>>
      BY <2>3 DEF Fits, BroadcastInv, BroadcastTypes
    <3>. QED
      BY <1>4, <3>1
  <2>. QED
    BY <1>1, <1>3, <1>5, <2>1, <2>2, <2>3 DEF BroadcastInv, BroadcastTypes
<1>8. ASSUME NEW c \in Viewers, whole'[c] \/ held'[c] > deltas'
      PROVE  Shown(view'[c], events'[c]) = previous'
  <2>0. /\ whole'[c] => Fits(c)
        /\ held'[c] = (IF ~Fits(c) THEN 0 ELSE IF held[c] > FullInterval THEN held[c] ELSE held[c] + 1)
        /\ deltas' \in Nat
    <3>1. whole'[c] = (Fits(c) /\ (whole[c] \/ NeedsFull))
      BY <1>4
    <3>2. held'[c] = (IF ~Fits(c) THEN 0 ELSE IF held[c] > FullInterval THEN held[c] ELSE held[c] + 1)
      BY <1>4
    <3>3. deltas' \in Nat
      BY <1>3
    <3>. QED
      BY <3>1, <3>2, <3>3
  <2>1. Fits(c)
    BY <1>8, <2>0
  <2>2. Shown(view'[c], events'[c]) = Applied(Shown(view[c], events[c]), Encoded)
    BY <1>1, <1>2, <1>4, <2>1, OneMore
  <2>3. CASE NeedsFull
    BY <1>1, <1>2, <2>2, <2>3
  <2>4. CASE ~NeedsFull
    <3>1. whole[c] \/ held[c] > deltas
      BY <1>3, <1>4, <1>8, <2>1, <2>4
    <3>2. Shown(view[c], events[c]) = previous
      BY <3>1 DEF BroadcastInv, Agrees
    <3>. QED
      BY <1>1, <1>2, <2>2, <3>2
  <2>. QED
    BY <2>3, <2>4
<1>. QED
  BY <1>7, <1>8 DEF BroadcastInv, Agrees

\* a notice is,
LEMMA NotifyStep ==
    ASSUME BroadcastInv, Notify
    PROVE  BroadcastInv'
<1>1. UNCHANGED <<state, previous, deltas, viewer, view, whole, held>>
  BY DEF Notify
<1>2. Note \in Messages
  BY DEF Messages
<1>3. ASSUME NEW c \in Viewers
      PROVE  /\ events[c] \in Seq(Messages) /\ Len(events[c]) <= QueueLimit
             /\ events'[c] = (IF Fits(c) THEN Append(events[c], Note) ELSE events[c])
  BY DEF Notify, BroadcastInv, BroadcastTypes
<1>4. ASSUME NEW c \in Viewers
      PROVE  /\ events'[c] \in Seq(Messages) /\ Len(events'[c]) <= QueueLimit
             /\ viewer[c] # "listening" => events'[c] = <<>>
             /\ Shown(view'[c], events'[c]) = Shown(view[c], events[c])
  <2>1. CASE Fits(c)
    <3>1. Shown(view[c], events'[c]) = Applied(Shown(view[c], events[c]), Note)
      BY <1>2, <1>3, <2>1, OneMore
    <3>2. events'[c] \in Seq(Messages) /\ Len(events'[c]) <= QueueLimit /\ viewer[c] = "listening"
      <4>1. /\ events[c] \in Seq(Messages) /\ Len(events[c]) < QueueLimit /\ viewer[c] = "listening"
            /\ events'[c] = Append(events[c], Note)
        BY <1>3, <2>1 DEF Fits
      <4>2. Len(events'[c]) = Len(events[c]) + 1 /\ events'[c] \in Seq(Messages) /\ Len(events[c]) \in Nat
        BY <1>2, <4>1, AppendProperties, LenProperties
      <4>. QED
        BY <4>1, <4>2, BroadcastLimits
    <3>. QED
      BY <1>1, <3>1, <3>2, NoteShowsNothing
  <2>2. CASE ~Fits(c)
    BY <1>1, <1>3, <2>2 DEF BroadcastInv, BroadcastTypes
  <2>. QED
    BY <2>1, <2>2
<1>5. events' \in [Viewers -> Seq(Messages)]
  <2>1. events' = [c \in Viewers |-> events'[c]]
    BY DEF Notify
  <2>. QED
    BY <1>4, <2>1
<1>6. BroadcastTypes'
  BY <1>1, <1>4, <1>5 DEF BroadcastInv, BroadcastTypes
<1>. QED
  BY <1>1, <1>4, <1>6 DEF BroadcastInv, Agrees

\* a client comes,
LEMMA ArriveStep ==
    ASSUME BroadcastInv, NEW c \in Viewers, Arrive(c)
    PROVE  BroadcastInv'
<1>1. /\ viewer[c] = "away"
      /\ viewer' = [viewer EXCEPT ![c] = "first"] /\ view' = [view EXCEPT ![c] = state]
      /\ UNCHANGED <<state, previous, deltas, events, whole, held>>
  BY DEF Arrive
<1>2. BroadcastTypes'
  BY <1>1 DEF BroadcastInv, BroadcastTypes
<1>3. ASSUME NEW b \in Viewers PROVE Agrees(b)'
  <2>1. CASE b = c
    BY <1>1, <2>1 DEF BroadcastInv, BroadcastTypes, Agrees
  <2>2. CASE b # c
    BY <1>1, <2>2 DEF BroadcastInv, BroadcastTypes, Agrees
  <2>. QED
    BY <2>1, <2>2
<1>. QED
  BY <1>2, <1>3 DEF BroadcastInv

\* A registered client agrees at once if nothing was broadcast since its first
\* state was put together.
LEMMA RegisterStep ==
    ASSUME BroadcastInv, NEW c \in Viewers, Register(c)
    PROVE  BroadcastInv'
<1>1. /\ viewer[c] = "first"
      /\ viewer' = [viewer EXCEPT ![c] = "listening"]
      /\ whole' = [whole EXCEPT ![c] = (view[c] = previous)]
      /\ held' = [held EXCEPT ![c] = 0]
      /\ UNCHANGED <<state, previous, deltas, events, view>>
  BY DEF Register
<1>2. BroadcastTypes'
  <2>1. whole' \in [Viewers -> BOOLEAN] /\ viewer' \in [Viewers -> {"away", "first", "listening"}]
    BY <1>1 DEF BroadcastInv, BroadcastTypes
  <2>2. held' \in [Viewers -> 0..(FullInterval + 1)]
    BY <1>1, BroadcastLimits DEF BroadcastInv, BroadcastTypes
  <2>3. \A b \in Viewers : viewer'[b] # "listening" => events'[b] = <<>> /\ held'[b] = 0 /\ ~whole'[b]
    BY <1>1 DEF BroadcastInv, BroadcastTypes
  <2>. QED
    BY <1>1, <2>1, <2>2, <2>3 DEF BroadcastInv, BroadcastTypes
<1>3. ASSUME NEW b \in Viewers PROVE Agrees(b)'
  <2>1. CASE b = c
    <3>1. events[c] = <<>> /\ held'[c] = 0 /\ deltas \in Nat /\ (whole'[c] => view[c] = previous)
      BY <1>1, BroadcastLimits DEF BroadcastInv, BroadcastTypes
    <3>2. Shown(view[c], events[c]) = view[c]
      BY <3>1, NothingToApply
    <3>. QED
      BY <1>1, <2>1, <3>1, <3>2 DEF Agrees
  <2>2. CASE b # c
    BY <1>1, <2>2 DEF BroadcastInv, BroadcastTypes, Agrees
  <2>. QED
    BY <2>1, <2>2
<1>. QED
  BY <1>2, <1>3 DEF BroadcastInv

\* is sent a message,
LEMMA SendStep ==
    ASSUME BroadcastInv, NEW c \in Viewers, Send(c)
    PROVE  BroadcastInv'
<1>1. /\ viewer[c] = "listening" /\ events[c] # <<>>
      /\ view' = [view EXCEPT ![c] = Applied(view[c], Head(events[c]))]
      /\ events' = [events EXCEPT ![c] = Tail(events[c])]
      /\ UNCHANGED <<state, previous, deltas, viewer, whole, held>>
  BY DEF Send
<1>2. /\ events[c] \in Seq(Messages) /\ view[c] \in Views
      /\ events \in [Viewers -> Seq(Messages)] /\ view \in [Viewers -> Views]
      /\ Len(events[c]) <= QueueLimit /\ QueueLimit \in Nat
  BY BroadcastLimits DEF BroadcastInv, BroadcastTypes
<1>3. /\ Head(events[c]) \in Messages /\ Tail(events[c]) \in Seq(Messages)
      /\ Len(Tail(events[c])) <= QueueLimit
  BY <1>1, <1>2, HeadTailProperties
<1>4. Applied(view[c], Head(events[c])) \in Views
  BY <1>2, <1>3, AppliedIsState
<1>5. BroadcastTypes'
  <2>1. events' \in [Viewers -> Seq(Messages)] /\ view' \in [Viewers -> Views]
    BY <1>1, <1>2, <1>3, <1>4
  <2>2. \A b \in Viewers : Len(events'[b]) <= QueueLimit
    BY <1>1, <1>2, <1>3 DEF BroadcastInv, BroadcastTypes
  <2>3. \A b \in Viewers : viewer'[b] # "listening" => events'[b] = <<>> /\ held'[b] = 0 /\ ~whole'[b]
    BY <1>1, <1>2 DEF BroadcastInv, BroadcastTypes
  <2>. QED
    BY <1>1, <2>1, <2>2, <2>3 DEF BroadcastInv, BroadcastTypes
<1>6. ASSUME NEW b \in Viewers PROVE Agrees(b)'
  <2>1. CASE b = c
    <3>1. Shown(view'[c], events'[c]) = Shown(view[c], events[c])
      BY <1>1, <1>2, OneLess
    <3>. QED
      BY <1>1, <2>1, <3>1 DEF BroadcastInv, Agrees
  <2>2. CASE b # c
    BY <1>1, <1>2, <2>2 DEF BroadcastInv, Agrees
  <2>. QED
    BY <2>1, <2>2
<1>. QED
  BY <1>5, <1>6 DEF BroadcastInv

\* and leaves.
LEMMA LeaveStep ==
    ASSUME BroadcastInv, NEW c \in Viewers, Leave(c)
    PROVE  BroadcastInv'
<1>1. /\ viewer' = [viewer EXCEPT ![c] = "away"] /\ events' = [events EXCEPT ![c] = <<>>]
      /\ view' = [view EXCEPT ![c] = Blank] /\ whole' = [whole EXCEPT ![c] = FALSE]
      /\ held' = [held EXCEPT ![c] = 0]
      /\ UNCHANGED <<state, previous, deltas>>
  BY DEF Leave
<1>2. Blank \in Views
  BY DEF Blank, Views, Values
<1>3. /\ events \in [Viewers -> Seq(Messages)] /\ view \in [Viewers -> Views] /\ deltas \in Nat
      /\ whole \in [Viewers -> BOOLEAN] /\ held \in [Viewers -> 0..(FullInterval + 1)]
      /\ viewer \in [Viewers -> {"away", "first", "listening"}]
  BY BroadcastLimits DEF BroadcastInv, BroadcastTypes
<1>4. BroadcastTypes'
  <2>1. /\ events' \in [Viewers -> Seq(Messages)] /\ view' \in [Viewers -> Views]
        /\ viewer' \in [Viewers -> {"away", "first", "listening"}]
    BY <1>1, <1>2, <1>3
  <2>2. whole' \in [Viewers -> BOOLEAN] /\ held' \in [Viewers -> 0..(FullInterval + 1)]
    BY <1>1, <1>3, BroadcastLimits
  <2>3. /\ Len(events'[c]) <= QueueLimit /\ events'[c] = <<>> /\ held'[c] = 0 /\ ~whole'[c]
        /\ \A b \in Viewers \ {c} : /\ events'[b] = events[b] /\ held'[b] = held[b]
                                    /\ whole'[b] = whole[b] /\ viewer'[b] = viewer[b]
    BY <1>1, <1>3, BroadcastLimits
  <2>4. \A b \in Viewers : Len(events'[b]) <= QueueLimit
    BY <2>3 DEF BroadcastInv, BroadcastTypes
  <2>5. \A b \in Viewers : viewer'[b] # "listening" => events'[b] = <<>> /\ held'[b] = 0 /\ ~whole'[b]
    BY <2>3 DEF BroadcastInv, BroadcastTypes
  <2>. QED
    BY <1>1, <2>1, <2>2, <2>4, <2>5 DEF BroadcastInv, BroadcastTypes
<1>5. ASSUME NEW b \in Viewers PROVE Agrees(b)'
  <2>1. CASE b = c
    BY <1>1, <1>3, <2>1 DEF Agrees
  <2>2. CASE b # c
    BY <1>1, <1>3, <2>2 DEF BroadcastInv, Agrees
  <2>. QED
    BY <2>1, <2>2
<1>. QED
  BY <1>4, <1>5 DEF BroadcastInv

\* What a client shows, with what waits in its queue, is a state that was broadcast
\* (web/_delta_encoder.py, the queues of web/handlers/control.py).
THEOREM BroadcastInvariance == BroadcastSpec => []BroadcastInv
<1>1. ASSUME BroadcastInv, [BroadcastNext]_broadcastAll PROVE BroadcastInv'
  <2>1. CASE \E f \in Fields : Change(f)
    BY <1>1, <2>1, ChangeStep
  <2>2. CASE Broadcast
    BY <1>1, <2>2, BroadcastStep
  <2>3. CASE Notify
    BY <1>1, <2>3, NotifyStep
  <2>4. CASE \E c \in Viewers : Arrive(c) \/ Register(c) \/ Send(c) \/ Leave(c)
    BY <1>1, <2>4, ArriveStep, RegisterStep, SendStep, LeaveStep
  <2>5. CASE UNCHANGED broadcastAll
    BY <1>1, <2>5 DEF broadcastAll, BroadcastInv, BroadcastTypes, Agrees
  <2>. QED
    BY <1>1, <2>1, <2>2, <2>3, <2>4, <2>5 DEF BroadcastNext
<1>. QED
  BY <1>1, BroadcastStarts, PTL DEF BroadcastSpec

\* The encoder's state, and each client's queue and view (web/_delta_encoder.py,
\* web/handlers/control.py).
THEOREM BroadcastTypeCorrect == BroadcastSpec => []BroadcastTypeOK
<1>1. BroadcastInv => BroadcastTypeOK
  BY DEF BroadcastInv, BroadcastTypes, BroadcastTypeOK, Views
<1>. QED
  BY <1>1, BroadcastInvariance, PTL

\* A client that got every broadcast since it and the encoder agreed, or more of
\* them in a row than lie between two full states, will show what was broadcast
\* last (encode() and apply_delta() of web/_delta_encoder.py).
THEOREM ViewsAgree == BroadcastSpec => []ViewAgrees
<1>1. BroadcastInv => ViewAgrees
  <2>. SUFFICES ASSUME BroadcastInv, NEW c \in Viewers, whole[c] \/ held[c] > FullInterval
                PROVE  FoldLeft(Applied, view[c], events[c]) = previous
    BY DEF ViewAgrees
  <2>1. deltas \in 0..FullInterval /\ FullInterval \in Nat /\ held[c] \in 0..(FullInterval + 1)
    BY BroadcastLimits DEF BroadcastInv, BroadcastTypes
  <2>2. whole[c] \/ held[c] > deltas
    BY <2>1
  <2>3. Shown(view[c], events[c]) = previous
    BY <2>2 DEF BroadcastInv, Agrees
  <2>. QED
    BY <2>3 DEF Shown
<1>. QED
  BY <1>1, BroadcastInvariance, PTL

-----------------------------------------------------------------------------
(***************************************************************************)
(* The scope's switch (WebScope), for any clients, limit on the repairs    *)
(* and number of tasks: the queue holds each of its two commands once.     *)
(***************************************************************************)
Switches == {"enable", "disable"}

Once(s) == s \in Seq(Switches) /\ \A i, j \in 1..Len(s) : s[i] = s[j] => i = j

SwitchInv ==
    /\ Once(commands) /\ Once(drained)
    /\ clients \subseteq ScopeClients
    /\ disabling \in 0..MaxTasks /\ refetching \in 0..MaxTasks /\ retries \in 0..MaxRetries
    /\ enabled \in BOOLEAN /\ waiting \in BOOLEAN /\ fetched \in BOOLEAN
    /\ ready \in BOOLEAN /\ scope \in BOOLEAN /\ stale \in BOOLEAN

\* A command that waits is not put again,
LEMMA QueuedOnce ==
    ASSUME Once(commands), NEW cmd \in Switches, Panel!Queue(cmd)
    PROVE  Once(commands')
<1>1. CASE Panel!Contains(commands, cmd)
  BY <1>1 DEF Panel!Queue
<1>2. CASE ~Panel!Contains(commands, cmd)
  <2>1. commands' = Append(commands, cmd) /\ \A i \in 1..Len(commands) : commands[i] # cmd
    BY <1>2 DEF Panel!Queue, Panel!Contains
  <2>2. /\ commands' \in Seq(Switches) /\ Len(commands') = Len(commands) + 1 /\ commands'[Len(commands) + 1] = cmd
        /\ \A i \in 1..Len(commands) : commands'[i] = commands[i]
    BY <2>1 DEF Once
  <2>3. Len(commands) \in Nat
    BY DEF Once
  <2>. QED
    BY <2>1, <2>2, <2>3 DEF Once
<1>. QED
  BY <1>1, <1>2

\* and those that remain were not put twice.
LEMMA TailOnce ==
    ASSUME NEW s, Once(s), s # <<>>
    PROVE  Once(Tail(s)) /\ Head(s) \in Switches
<1>1. /\ Tail(s) \in Seq(Switches) /\ Len(Tail(s)) = Len(s) - 1 /\ Len(s) \in Nat /\ Head(s) \in Switches
      /\ \A i \in 1..Len(Tail(s)) : Tail(s)[i] = s[i + 1]
  BY DEF Once
<1>2. ASSUME NEW i \in 1..Len(Tail(s)), NEW j \in 1..Len(Tail(s)), Tail(s)[i] = Tail(s)[j]
      PROVE  i = j
  <2>1. i + 1 \in 1..Len(s) /\ j + 1 \in 1..Len(s) /\ s[i + 1] = s[j + 1]
    BY <1>1, <1>2
  <2>2. i + 1 = j + 1
    BY <2>1 DEF Once
  <2>. QED
    BY <2>2
<1>. QED
  BY <1>1, <1>2 DEF Once

LEMMA SwitchStep ==
    ASSUME SwitchInv, [Panel!ScopeNext]_Panel!scopeAll
    PROVE  SwitchInv'
<1>. USE DEF SwitchInv
<1>0. /\ {"enable", "disable"} \subseteq Switches /\ <<>> \in Seq(Switches) /\ Once(<<>>)
      /\ MaxTasks \in Nat /\ MaxRetries \in Nat
  BY ScopeLimits DEF Switches, Once
<1>1. ASSUME NEW c \in ScopeClients, Panel!Register(c) PROVE SwitchInv'
  <2>1. Once(commands')
    BY <1>0, <1>1, QueuedOnce DEF Panel!Register
  <2>. QED
    BY <1>1, <2>1 DEF Panel!Register
<1>2. ASSUME NEW c \in ScopeClients, Panel!Unregister(c) PROVE SwitchInv'
  <2>1. disabling' \in 0..MaxTasks /\ clients' \subseteq ScopeClients
    BY <1>0, <1>2 DEF Panel!Unregister
  <2>. QED
    BY <1>2, <2>1 DEF Panel!Unregister
<1>3. CASE Panel!GraceEnds
  <2>1. disabling' \in 0..MaxTasks
    BY <1>0, <1>3 DEF Panel!GraceEnds
  <2>2. Once(commands') /\ enabled' \in BOOLEAN
    BY <1>0, <1>3, QueuedOnce DEF Panel!GraceEnds
  <2>. QED
    BY <1>3, <2>1, <2>2 DEF Panel!GraceEnds
<1>4. CASE Panel!WaitEnds
  <2>1. Once(commands') /\ enabled' \in BOOLEAN
    BY <1>0, <1>4, QueuedOnce DEF Panel!WaitEnds
  <2>. QED
    BY <1>4, <2>1 DEF Panel!WaitEnds
<1>5. CASE Panel!Drain
  BY <1>0, <1>5 DEF Panel!Drain
<1>6. ASSUME NEW ok \in BOOLEAN, Panel!Run(ok) PROVE SwitchInv'
  <2>1. Once(drained')
    BY <1>6, TailOnce DEF Panel!Run
  <2>2. Once(commands')
    BY <1>0, <1>6, QueuedOnce DEF Panel!Run
  <2>3. scope' \in BOOLEAN
    BY <1>6 DEF Panel!Run
  <2>. QED
    BY <1>6, <2>1, <2>2, <2>3 DEF Panel!Run
<1>7. CASE Panel!ReadyChanges
  BY <1>7 DEF Panel!ReadyChanges
<1>8. CASE Panel!Reconnected
  <2>1. refetching' \in 0..MaxTasks
    BY <1>0, <1>8 DEF Panel!Reconnected
  <2>. QED
    BY <1>8, <2>1 DEF Panel!Reconnected
<1>9. CASE Panel!RefetchEnds
  <2>1. refetching' \in 0..MaxTasks
    BY <1>0, <1>9 DEF Panel!RefetchEnds
  <2>2. Once(commands') /\ enabled' \in BOOLEAN
    BY <1>0, <1>9, QueuedOnce DEF Panel!RefetchEnds
  <2>. QED
    BY <1>9, <2>1, <2>2 DEF Panel!RefetchEnds
<1>10. CASE Panel!Frame
  BY <1>10 DEF Panel!Frame
<1>11. CASE Panel!Check
  <2>1. retries' \in 0..MaxRetries
    BY <1>0, <1>11 DEF Panel!Check
  <2>2. Once(commands')
    BY <1>0, <1>11, QueuedOnce DEF Panel!Check
  <2>. QED
    BY <1>11, <2>1, <2>2 DEF Panel!Check
<1>12. CASE UNCHANGED Panel!scopeAll
  BY <1>12 DEF Panel!scopeAll
<1>. QED
  BY <1>1, <1>2, <1>3, <1>4, <1>5, <1>6, <1>7, <1>8, <1>9, <1>10, <1>11, <1>12 DEF Panel!ScopeNext

\* Types of the scope's switch: no command waits twice (ensure_scope_enabled(),
\* unregister_scope_handler(), _scope_health_monitor() of web/server.py).
THEOREM SwitchTypeCorrect == Panel!ScopeInit /\ [][Panel!ScopeNext]_Panel!scopeAll => []Panel!ScopeTypeOK
<1>1. Panel!ScopeInit => SwitchInv
  <2>1. 0 \in 0..MaxTasks /\ 0 \in 0..MaxRetries /\ Once(<<>>)
    BY ScopeLimits DEF Once
  <2>. QED
    BY <2>1 DEF Panel!ScopeInit, SwitchInv
<1>2. SwitchInv /\ [Panel!ScopeNext]_Panel!scopeAll => SwitchInv'
  BY SwitchStep
<1>3. SwitchInv => Panel!ScopeTypeOK
  <2>. SUFFICES ASSUME SwitchInv PROVE Panel!ScopeTypeOK
    OBVIOUS
  <2>1. Panel!IsInjective(commands) /\ Panel!IsInjective(drained)
    BY DEF SwitchInv, Once, Panel!IsInjective
  <2>2. Panel!ToSet(commands) \union Panel!ToSet(drained) \subseteq {"enable", "disable"}
    BY DEF SwitchInv, Once, Switches, Panel!ToSet
  <2>3. {enabled, waiting, fetched, ready, scope, stale} \subseteq BOOLEAN
    BY DEF SwitchInv
  <2>. QED
    BY <2>1, <2>2, <2>3 DEF SwitchInv, Panel!ScopeTypeOK
<1>. QED
  BY <1>1, <1>2, <1>3, PTL

-----------------------------------------------------------------------------
(* The four together.                                                      *)

\* Every behaviour of the composition is one of each part.
LEMMA PartsOfWeb ==
    MCSpec => /\ Spec /\ PollerSafety /\ BroadcastSpec
              /\ Panel!ScopeInit /\ [][Panel!ScopeNext]_Panel!scopeAll
<1>1. MCInit => Init /\ PollerInit /\ BroadcastInit /\ Panel!ScopeInit
  BY DEF MCInit
<1>2. [MCNext]_<<subject, linkVars, pollerAll, broadcastAll, panelVars>> =>
        /\ [Next]_vars /\ [PollerNext]_pollerAll /\ [BroadcastNext]_broadcastAll
        /\ [Panel!ScopeNext]_Panel!scopeAll
  <2>1. panelVars' = panelVars => Panel!scopeAll' = Panel!scopeAll
    BY DEF panelVars, Panel!scopeAll
  <2>. QED
    BY <2>1 DEF MCNext, linkVars
<1>. QED
  BY <1>1, <1>2, PTL DEF MCSpec, Spec, PollerSafety, BroadcastSpec

\* Types of the connection and of everything the web server puts on top of it.
THEOREM WebTypesCorrect == MCSpec => []WebTypesOK
<1>1. TypeOK /\ PollerTypeOK /\ BroadcastTypeOK /\ Panel!ScopeTypeOK => WebTypesOK
  BY DEF WebTypesOK
<1>. QED
  BY <1>1, PartsOfWeb, ConnectionTypeCorrect, PollerTypeCorrect, BroadcastTypeCorrect, SwitchTypeCorrect, PTL
=============================================================================
