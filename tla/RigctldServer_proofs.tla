------------------------ MODULE RigctldServer_proofs ------------------------
(***************************************************************************)
(* Proofs about what MCRigctld composes, for any clients and pollers and   *)
(* any values of the limits: the server with its poller and breaker, the   *)
(* command handler, and the Yaesu radio.                                   *)
(*                                                                         *)
(* The server: what each client does and the flag that holds the poller    *)
(* are related by Holds; how the coroutines that are spawned and not begun *)
(* relate to the number of clients and to the poll task, by Spawns; what   *)
(* stop() has reached, by Stops.                                           *)
(***************************************************************************)
EXTENDS MCRigctld, FiniteSetTheorems, SequenceTheorems, TLAPS

\* The types, with those that ServerTypeOK leaves to the others.
Types ==
    /\ server \in {"up", "poller", "listener", "clients", "down"}
    /\ conn \in [Clients -> {"away", "reading", "executing", "closing"}]
    /\ write \in [Clients -> {"none", "read", "set", "packet"}]
    /\ spawned \in Seq({"start", "stop"})
    /\ pollTask \in {"none", "ended"} \union Polling /\ cancelled \in BOOLEAN
    /\ writeBusy \in BOOLEAN /\ holding \in BOOLEAN /\ prewarm \in BOOLEAN
    /\ elapsed \in BOOLEAN /\ missed \in BOOLEAN /\ late \in BOOLEAN
    /\ exposed \subseteq Clients

\* _client_count counts.
Counts == IsFiniteSet(Connected) /\ count = Cardinality(Connected)

\* Failures below the threshold leave the circuit closed.
Breaks ==
    /\ breaker \in {"CLOSED", "OPEN", "HALF_OPEN"}
    /\ failures \in 0..Threshold
    /\ breaker = "CLOSED" => failures < Threshold

\* Only a command in execution writes, and it is covered by the flag or has been
\* exposed.
Holds ==
    /\ \A c \in Clients : write[c] # "none" => conn[c] = "executing"
    /\ Writers \subseteq exposed \/ writeBusy
    /\ HoldHasWriter

\* With the coroutines that have begun, the poller is meant to be off.
MeantOff == IF spawned = <<>> THEN count = 0 ELSE Head(spawned) = "start"

Alternates(s) == \A i \in 1..(Len(s) - 1) : s[i] # s[i + 1]

\* Starts and stops alternate and end as the clients demand; the poll task is,
\* but for its cancellation, what they have made it.
Spawns ==
    /\ cancelled => pollTask # "none"
    /\ pollTask = "ended" => cancelled
    /\ HasPoller =>
         /\ Alternates(spawned)
         /\ spawned # <<>> => spawned[Len(spawned)] = (IF count = 0 THEN "stop" ELSE "start")
         /\ MeantOff => cancelled \/ pollTask = "none"
         /\ ~MeantOff => cancelled \/ pollTask # "none" \/ missed
         /\ ~MeantOff /\ cancelled /\ server = "up" => missed

\* Once stop() has dropped the poller, only a start that was spawned before runs
\* it again; once it has ended, nobody is connected.
Stops ==
    /\ server = "poller" => cancelled
    /\ ~HasPoller => pollTask = "none" \/ late
    /\ server = "down" => Connected = {}

ServerInv == Types /\ Counts /\ Breaks /\ Holds /\ Spawns /\ Stops

-----------------------------------------------------------------------------
USE DEF clientVars, pollVars, holdVars, breakerVars, radioVars, vars

\* Every step keeps the types.
LEMMA TypesStep ==
    ASSUME Types, Next
    PROVE  Types'
<1>1. ASSUME NEW c \in Clients, Accept(c)
      PROVE  Types'
  <2>1. spawned' \in Seq({"start", "stop"})
    BY <1>1 DEF Accept, Types
  <2>. QED
    BY <1>1, <2>1 DEF Accept, Types
<1>2. ASSUME NEW c \in Clients, Command(c)
      PROVE  Types'
  BY <1>2 DEF Command, Types, HasPoller
<1>3. ASSUME NEW c \in Clients, NEW ok \in BOOLEAN, CommandEnds(c, ok)
      PROVE  Types'
  BY <1>3 DEF CommandEnds, Lifts, Exposed, Writers, Types
<1>4. ASSUME NEW c \in Clients, Quit(c)
      PROVE  Types'
  BY <1>4 DEF Quit, Types
<1>5. ASSUME NEW c \in Clients, ClientDone(c)
      PROVE  Types'
  <2>1. spawned' \in Seq({"start", "stop"})
    BY <1>5 DEF ClientDone, Types
  <2>. QED
    BY <1>5, <2>1 DEF ClientDone, Types
<1>6. ASSUME NEW ok \in BOOLEAN, PrewarmEnds(ok)
      PROVE  Types'
  BY <1>6 DEF PrewarmEnds, Lifts, Exposed, Writers, Types
<1>7. CASE StartPoller
  <2>1. spawned' \in Seq({"start", "stop"})
    BY <1>7 DEF StartPoller, Types
  <2>2. missed' \in BOOLEAN /\ late' \in BOOLEAN
    BY <1>7 DEF StartPoller
  <2>. QED
    BY <1>7, <2>1, <2>2 DEF StartPoller, Types, Polling
<1>8. CASE StopPoller
  <2>1. spawned' \in Seq({"start", "stop"})
    BY <1>8 DEF StopPoller, Types
  <2>2. cancelled' \in BOOLEAN
    BY <1>8 DEF StopPoller
  <2>. QED
    BY <1>8, <2>1, <2>2 DEF StopPoller, Types
<1>12. CASE PollEnds \/ StopReturns
  BY <1>12 DEF PollEnds, StopReturns, Types, Polling
<1>9. CASE StopServer \/ ListenerClosed \/ StopServerEnds
  BY <1>9 DEF StopServer, ListenerClosed, StopServerEnds, Types
<1>10. CASE PollStep
  BY <1>10 DEF PollStep, PollWakes, FreqRead, ModeRead, Succeeds, Fails, Types, Polling
<1>11. CASE HoldExpires \/ WindowElapses \/ RadioChanges
  BY <1>11 DEF HoldExpires, WindowElapses, RadioChanges, Types
<1>. QED
  BY <1>1, <1>2, <1>3, <1>4, <1>5, <1>6, <1>7, <1>8, <1>9, <1>10, <1>11, <1>12 DEF Next

\* A client that comes or goes is counted.
LEMMA CountsStep ==
    ASSUME Types, Counts, Next
    PROVE  Counts'
<1>1. ASSUME NEW c \in Clients, Accept(c)
      PROVE  Counts'
  <2>1. c \notin Connected /\ Connected' = Connected \union {c}
    BY <1>1 DEF Accept, Connected, Types
  <2>. QED
    BY <1>1, <2>1, FS_AddElement DEF Accept, Counts
<1>2. ASSUME NEW c \in Clients, ClientDone(c)
      PROVE  Counts'
  <2>1. c \in Connected /\ Connected' = Connected \ {c}
    BY <1>2 DEF ClientDone, Connected, Types
  <2>. QED
    BY <1>2, <2>1, FS_RemoveElement DEF ClientDone, Counts
<1>3. ASSUME NEW c \in Clients, NEW ok \in BOOLEAN, Command(c) \/ CommandEnds(c, ok) \/ Quit(c)
      PROVE  Counts'
  <2>1. Connected' = Connected
    BY <1>3 DEF Command, CommandEnds, Quit, Connected, Types
  <2>. QED
    BY <1>3, <2>1 DEF Command, CommandEnds, Quit, Counts
<1>4. CASE ListenerClosed
  <2>1. Connected' = Connected
    BY <1>4 DEF ListenerClosed, Connected, Types
  <2>. QED
    BY <1>4, <2>1 DEF ListenerClosed, Counts
<1>5. CASE UNCHANGED <<conn, count>>
  BY <1>5 DEF Counts, Connected
<1>. QED
  BY <1>1, <1>2, <1>3, <1>4, <1>5
     DEF Next, PollStep, PrewarmEnds, StartPoller, StopPoller, PollEnds, StopReturns, StopServer,
         StopServerEnds, PollWakes, FreqRead, ModeRead, HoldExpires, WindowElapses, RadioChanges

\* The circuit opens before the failures pass the threshold.
LEMMA BreaksStep ==
    ASSUME Breaks, Next
    PROVE  Breaks'
<1>1. CASE PollWakes
  BY <1>1 DEF PollWakes, Seen, Breaks
<1>2. CASE FreqRead
  BY <1>2, ThresholdAssumption DEF FreqRead, Succeeds, Fails, FailuresAfter, Breaks
<1>3. CASE UNCHANGED <<breaker, failures>>
  BY <1>3 DEF Breaks
<1>. QED
  BY <1>1, <1>2, <1>3
     DEF Next, PollStep, Accept, Command, CommandEnds, Quit, ClientDone, PrewarmEnds, StartPoller,
         StopPoller, PollEnds, StopReturns, StopServer, ListenerClosed, StopServerEnds, ModeRead,
         HoldExpires, WindowElapses, RadioChanges

\* Whoever lifts the flag exposes all that write.
LEMMA HoldsStep ==
    ASSUME Types, Holds, Next
    PROVE  Holds'
<1>. USE DEF Types, Holds, HoldHasWriter, Writers, HasPoller
<1>1. ASSUME NEW c \in Clients, Accept(c)
      PROVE  Holds'
  BY <1>1 DEF Accept
<1>2. ASSUME NEW c \in Clients, Command(c)
      PROVE  Holds'
  BY <1>2 DEF Command
<1>3. ASSUME NEW c \in Clients, NEW ok \in BOOLEAN, CommandEnds(c, ok)
      PROVE  Holds'
  BY <1>3 DEF CommandEnds, Lifts, Exposed
<1>4. ASSUME NEW c \in Clients, Quit(c) \/ ClientDone(c)
      PROVE  Holds'
  BY <1>4 DEF Quit, ClientDone
<1>5. ASSUME NEW ok \in BOOLEAN, PrewarmEnds(ok)
      PROVE  Holds'
  BY <1>5 DEF PrewarmEnds, Lifts, Exposed
<1>6. CASE StopReturns \/ StopServer \/ StopServerEnds
  BY <1>6 DEF StopReturns, StopServer, StopServerEnds
<1>7. CASE ListenerClosed
  BY <1>7 DEF ListenerClosed
<1>8. CASE UNCHANGED <<server, conn, write, writeBusy, exposed, prewarm>>
  BY <1>8
<1>. QED
  BY <1>1, <1>2, <1>3, <1>4, <1>5, <1>6, <1>7, <1>8
     DEF Next, PollStep, StartPoller, StopPoller, PollEnds, PollWakes, FreqRead, ModeRead,
         HoldExpires, WindowElapses, RadioChanges

\* A sequence that alternates goes on doing so with another last element.
LEMMA AlternatesAppend ==
    ASSUME NEW S, NEW s \in Seq(S), NEW x \in S, Alternates(s), s # <<>> => s[Len(s)] # x
    PROVE  /\ Alternates(Append(s, x)) /\ Append(s, x) # <<>>
           /\ Append(s, x)[Len(Append(s, x))] = x
           /\ Head(Append(s, x)) = IF s = <<>> THEN x ELSE Head(s)
<1>1. /\ Len(Append(s, x)) = Len(s) + 1 /\ Len(s) \in Nat
      /\ \A i \in 1..Len(s) : Append(s, x)[i] = s[i]
      /\ Append(s, x)[Len(s) + 1] = x
  OBVIOUS
<1>2. Append(s, x) # <<>> /\ Head(Append(s, x)) = Append(s, x)[1]
  <2>1. Append(s, x) \in Seq(S)
    OBVIOUS
  <2>2. Append(s, x) # <<>>
    BY <1>1
  <2>. QED
    BY <2>1, <2>2
<1>3. s # <<>> => Len(s) \in 1..Len(s) /\ Head(s) = s[1] /\ 1 \in 1..Len(s)
  OBVIOUS
<1>4. Head(Append(s, x)) = IF s = <<>> THEN x ELSE Head(s)
  BY <1>1, <1>2, <1>3
<1>5. ASSUME NEW i \in 1..Len(s)
      PROVE  Append(s, x)[i] # Append(s, x)[i + 1]
  <2>1. CASE i = Len(s)
    BY <1>1, <1>3, <2>1
  <2>2. CASE i # Len(s)
    BY <1>1, <2>2 DEF Alternates
  <2>. QED
    BY <2>1, <2>2
<1>. QED
  BY <1>1, <1>2, <1>4, <1>5 DEF Alternates

\* The rest of a sequence that alternates begins with another element.
LEMMA AlternatesTail ==
    ASSUME NEW S, NEW s \in Seq(S), s # <<>>, Alternates(s)
    PROVE  /\ Alternates(Tail(s))
           /\ Tail(s) # <<>> => Head(Tail(s)) # Head(s) /\ Tail(s)[Len(Tail(s))] = s[Len(s)]
           /\ Tail(s) = <<>> => s[Len(s)] = Head(s)
<1>1. /\ Len(Tail(s)) = Len(s) - 1 /\ Len(s) \in Nat \ {0}
      /\ \A i \in 1..(Len(s) - 1) : Tail(s)[i] = s[i + 1]
      /\ Head(s) = s[1]
  OBVIOUS
<1>2. Tail(s) \in Seq(S)
  OBVIOUS
<1>4. Tail(s) = <<>> <=> Len(s) = 1
  BY <1>1, <1>2
<1>3. Tail(s) # <<>> => Head(Tail(s)) = s[2]
  BY <1>1, <1>2, <1>4
<1>. QED
  BY <1>1, <1>2, <1>3, <1>4 DEF Alternates

\* What has been spawned ends where the clients are.
LEMMA SpawnsStep ==
    ASSUME Types, Counts, Spawns, Stops, Next
    PROVE  Spawns'
<1>. USE DEF Spawns, MeantOff, HasPoller
<1>0. count \in Nat /\ spawned \in Seq({"start", "stop"})
  BY FS_CardinalityType DEF Counts, Types
<1>1. ASSUME NEW c \in Clients, Accept(c)
      PROVE  Spawns'
  <2>1. CASE count = 0
    <3>1. spawned' = Append(spawned, "start") /\ count' = 1 /\ HasPoller
      BY <1>1, <2>1 DEF Accept
    <3>2. /\ Alternates(spawned') /\ spawned' # <<>> /\ spawned'[Len(spawned')] = "start"
          /\ Head(spawned') = IF spawned = <<>> THEN "start" ELSE Head(spawned)
      BY <1>0, <2>1, <3>1, AlternatesAppend
    <3>. QED
      BY <1>1, <2>1, <3>1, <3>2 DEF Accept
  <2>2. CASE count # 0
    BY <1>0, <1>1, <2>2 DEF Accept
  <2>. QED
    BY <2>1, <2>2
<1>2. ASSUME NEW c \in Clients, ClientDone(c)
      PROVE  Spawns'
  <2>1. count # 0
    <3>1. c \in Connected
      BY <1>2 DEF ClientDone, Connected
    <3>. QED
      BY <3>1, FS_EmptySet DEF Counts
  <2>2. CASE count = 1 /\ HasPoller
    <3>1. spawned' = Append(spawned, "stop") /\ count' = 0
      BY <1>2, <2>2 DEF ClientDone, StopsPoller
    <3>2. /\ Alternates(spawned') /\ spawned' # <<>> /\ spawned'[Len(spawned')] = "stop"
          /\ Head(spawned') = IF spawned = <<>> THEN "stop" ELSE Head(spawned)
      BY <1>0, <2>2, <3>1, AlternatesAppend
    <3>. QED
      BY <1>2, <2>2, <3>1, <3>2 DEF ClientDone
  <2>3. CASE ~(count = 1 /\ HasPoller)
    BY <1>0, <1>2, <2>1, <2>3 DEF ClientDone, StopsPoller
  <2>. QED
    BY <2>2, <2>3
<1>3. CASE StartPoller
  <2>1. spawned # <<>> /\ Head(spawned) = "start" /\ spawned' = Tail(spawned)
    BY <1>3 DEF StartPoller
  <2>2. HasPoller => MeantOff /\ ~MeantOff'
    BY <1>0, <1>3, <2>1, AlternatesTail DEF StartPoller
  <2>3. HasPoller =>
          /\ Alternates(spawned')
          /\ spawned' # <<>> => spawned'[Len(spawned')] = spawned[Len(spawned)]
    BY <1>0, <2>1, AlternatesTail
  <2>. QED
    BY <1>3, <2>2, <2>3 DEF StartPoller, Types
<1>4. CASE StopPoller
  <2>1. spawned # <<>> /\ Head(spawned) = "stop" /\ spawned' = Tail(spawned)
    BY <1>4 DEF StopPoller
  <2>2. HasPoller => MeantOff'
    <3>1. CASE Tail(spawned) = <<>>
      BY <1>0, <1>4, <2>1, <3>1, AlternatesTail DEF StopPoller
    <3>2. CASE Tail(spawned) # <<>>
      <4>1. Head(Tail(spawned)) \in {"start", "stop"}
        BY <1>0, <2>1, <3>2
      <4>. QED
        BY <1>0, <2>1, <3>2, <4>1, AlternatesTail
    <3>. QED
      BY <3>1, <3>2
  <2>3. HasPoller =>
          /\ Alternates(spawned')
          /\ spawned' # <<>> => spawned'[Len(spawned')] = spawned[Len(spawned)]
    BY <1>0, <2>1, AlternatesTail
  <2>. QED
    BY <1>4, <2>2, <2>3 DEF StopPoller, Types
<1>5. CASE PollEnds \/ StopReturns
  BY <1>5 DEF PollEnds, StopReturns, Stops, Polling
<1>6. CASE StopServer
  BY <1>6 DEF StopServer, Types
<1>9. CASE ListenerClosed \/ StopServerEnds
  BY <1>9 DEF ListenerClosed, StopServerEnds
<1>7. CASE PollStep
  BY <1>7 DEF PollStep, PollWakes, FreqRead, ModeRead
<1>8. CASE UNCHANGED <<server, count, spawned, pollTask, cancelled, missed>>
  BY <1>8
<1>. QED
  BY <1>1, <1>2, <1>3, <1>4, <1>5, <1>6, <1>7, <1>8, <1>9
     DEF Next, Command, CommandEnds, Quit, PrewarmEnds, HoldExpires, WindowElapses, RadioChanges

\* stop() of the server goes on, and nobody is taken any more.
LEMMA StopsStep ==
    ASSUME Types, Spawns, Stops, Next
    PROVE  Stops'
<1>. USE DEF Stops, HasPoller, Connected, Types
<1>1. ASSUME NEW c \in Clients, NEW ok \in BOOLEAN,
             Accept(c) \/ Command(c) \/ CommandEnds(c, ok) \/ Quit(c) \/ ClientDone(c)
      PROVE  Stops'
  BY <1>1 DEF Accept, Command, CommandEnds, Quit, ClientDone
<1>2. CASE StartPoller \/ StopPoller \/ PollEnds \/ StopReturns
  BY <1>2 DEF StartPoller, StopPoller, PollEnds, StopReturns, Spawns, Polling
<1>3. CASE StopServer
  BY <1>3 DEF StopServer
<1>4. CASE ListenerClosed \/ StopServerEnds
  BY <1>4 DEF ListenerClosed, StopServerEnds
<1>5. CASE PollStep
  BY <1>5 DEF PollStep, PollWakes, FreqRead, ModeRead
<1>6. CASE UNCHANGED <<server, conn, pollTask, cancelled, late>>
  BY <1>6
<1>. QED
  BY <1>1, <1>2, <1>3, <1>4, <1>5, <1>6
     DEF Next, PrewarmEnds, HoldExpires, WindowElapses, RadioChanges

\* The invariant holds of every behaviour of the server.
THEOREM ServerInvariance == Init /\ [][Next]_vars => []ServerInv
<1>1. Init => ServerInv
  <2>. SUFFICES ASSUME Init
                PROVE  ServerInv
    OBVIOUS
  <2>1. Connected = {}
    BY DEF Init, Connected
  <2>2. Counts
    BY <2>1, FS_EmptySet DEF Counts, Init
  <2>3. Types
    <3>1. spawned \in Seq({"start", "stop"})
      BY DEF Init
    <3>2. /\ conn \in [Clients -> {"away", "reading", "executing", "closing"}]
          /\ write \in [Clients -> {"none", "read", "set", "packet"}]
      BY DEF Init
    <3>. QED
      BY <3>1, <3>2 DEF Init, Types
  <2>5. Breaks
    BY ThresholdAssumption DEF Init, Breaks
  <2>4. Holds /\ Spawns /\ Stops
    BY <2>1 DEF Init, Holds, HoldHasWriter, Writers, Spawns, MeantOff, Alternates, Stops, HasPoller
  <2>. QED
    BY <2>2, <2>3, <2>4, <2>5 DEF ServerInv
<1>2. ServerInv /\ [Next]_vars => ServerInv'
  <2>. SUFFICES ASSUME ServerInv, [Next]_vars
                PROVE  ServerInv'
    OBVIOUS
  <2>1. CASE Next
    BY <2>1, TypesStep, CountsStep, BreaksStep, HoldsStep, SpawnsStep, StopsStep DEF ServerInv
  <2>2. CASE UNCHANGED vars
    BY <2>2
       DEF ServerInv, Types, Counts, Connected, Breaks, Holds, HoldHasWriter, Writers, Spawns,
           MeantOff, Stops, HasPoller
  <2>. QED
    BY <2>1, <2>2
<1>. QED
  BY <1>1, <1>2, PTL

\* Every variable has its type, whatever the clients do; the failures never pass
\* the threshold.
THEOREM ServerTypeCorrect == Init /\ [][Next]_vars => []ServerTypeOK
<1>1. ServerInv => ServerTypeOK
  BY DEF ServerInv, Types, Counts, Breaks, ServerTypeOK
<1>. QED
  BY <1>1, ServerInvariance, PTL

\* The poller runs exactly while somebody is connected.
THEOREM PollerIsWhereClientsAre == Init /\ [][Next]_vars => []PollerFollowsClients
<1>1. ServerInv => PollerFollowsClients
  BY DEF ServerInv, Spawns, MeantOff, PollerFollowsClients
<1>. QED
  BY <1>1, ServerInvariance, PTL

\* The hold of the poller never outlives the writes.
THEOREM NoHoldWithoutWriter == Init /\ [][Next]_vars => []HoldHasWriter
<1>1. ServerInv => HoldHasWriter
  BY DEF ServerInv, Holds
<1>. QED
  BY <1>1, ServerInvariance, PTL

\* After stop() nobody is served, and nothing polls but for a late start.
THEOREM NothingAfterStop == Init /\ [][Next]_vars => []StopLeavesNothing
<1>1. ServerInv => StopLeavesNothing
  BY DEF ServerInv, Stops, HasPoller, StopLeavesNothing
<1>. QED
  BY <1>1, ServerInvariance, PTL

\* No read of the poller begins beside a write whose hold nobody has lifted.
THEOREM PollsYieldToWrites == Init /\ [][Next]_vars => PollYields
<1>1. ServerInv /\ [Next]_vars =>
        [pollTask' # pollTask /\ pollTask' \in {"freq", "probe", "mode", "data"}
           => Writers \subseteq exposed]_vars
  <2>. SUFFICES ASSUME Holds, Next, pollTask' # pollTask,
                       pollTask' \in {"freq", "probe", "mode", "data"}
                PROVE  ~writeBusy
    BY DEF ServerInv, Holds
  <2>. QED
    BY DEF Next, PollStep, Accept, Command, CommandEnds, Quit, ClientDone, PrewarmEnds, StartPoller,
           StopPoller, PollEnds, StopReturns, StopServer, ListenerClosed, StopServerEnds, PollWakes,
           FreqRead, ModeRead, HoldExpires, WindowElapses, RadioChanges, Yields
<1>. QED
  BY <1>1, ServerInvariance, PTL DEF PollYields

-----------------------------------------------------------------------------
(***************************************************************************)
(* Proofs about RigctldHandler, for any number of clients and of calls at  *)
(* once, and any number of reports under way.                              *)
(*                                                                         *)
(* While a client may rely on its write, the radio does what was written   *)
(* (Done), nobody is writing, and either the write is pending and no       *)
(* report that differs from it follows one that agrees (Aligned), or       *)
(* RadioState shows it, and so will every report under way.                *)
(***************************************************************************)

\* The radio does what was written.
Done(w) ==
    IF topic # "mode" THEN radio = w
    ELSE /\ w.mode = radio.mode /\ w.filter \in {0, radio.filter}
         /\ w.data \in {"as is", radio.data}

\* What the radio has been told of the write of c so far.
Told(c) ==
    IF Packet(call[c].write) /\ call[c].stage = "sent"
    THEN [call[c].write EXCEPT !.data = "as is"] ELSE call[c].write

\* A write that nothing has touched is the only one, and done as far as told.
AloneIsDone ==
    \A c \in Writing : call[c].alone => Writing = {c} /\ Done(Told(c))

Agrees(w, s) == s # Nothing /\ Matches(w, s)

AllAgree(w) == \A j \in 1..Len(reports) : Matches(w, reports[j])

\* No report that differs from w follows one that agrees.
Aligned(w) ==
    /\ Agrees(w, shown) => AllAgree(w)
    /\ \A i, j \in 1..Len(reports) : i < j /\ Matches(w, reports[i]) => Matches(w, reports[j])

Reliable ==
    expected # Nothing =>
        /\ Writing = {} /\ Done(expected)
        /\ \/ pending = expected /\ Aligned(expected)
           \/ pending = Nothing /\ Agrees(expected, shown) /\ AllAgree(expected)

HandlerInv == HandlerTypeOK /\ AloneIsDone /\ Reliable

-----------------------------------------------------------------------------
(* Values.                                                                 *)

\* What is reported and written is known to the handler, and is something.
LEMMA Values ==
    ASSUME HandlerTypeOK
    PROVE  /\ Reported(topic) \subseteq Known(topic) /\ Written(topic) \subseteq Known(topic)
           /\ Nothing \notin Known(topic)
<1>1. Nothing \notin Known(topic)
  BY NothingAssumption DEF HandlerTypeOK
<1>2. CASE topic # "mode"
  BY <1>1, <1>2 DEF Known, Written
<1>3. CASE topic = "mode"
  <2>1. \A f \in 1..2 : f \in {0, 1, 2}
    OBVIOUS
  <2>2. Reported(topic) \subseteq Known(topic)
    BY <1>3, <2>1 DEF Known, Reported
  <2>3. Written(topic) \subseteq Known(topic)
    BY <1>3 DEF Known, Written
  <2>. QED
    BY <1>1, <2>2, <2>3
<1>. QED
  BY <1>2, <1>3

\* A report of what was written agrees with it, unless no report can.
LEMMA DoneAgrees ==
    ASSUME HandlerTypeOK, NEW w \in Written(topic), Done(w)
    PROVE  Matches(w, radio) \/ \A s \in Reported(topic) : ~Matches(w, s)
<1>1. CASE topic # "mode"
  BY <1>1 DEF Done, Matches
<1>2. CASE topic = "mode" /\ w.filter # 0
  BY <1>2 DEF Done, Matches
<1>3. CASE topic = "mode" /\ w.filter = 0
  <2>1. \A s \in Reported(topic) : s.filter # 0
    BY <1>3 DEF Reported
  <2>. QED
    BY <1>3, <2>1 DEF Matches
<1>. QED
  BY <1>1, <1>2, <1>3

\* What a write lends of what is known is known.
LEMMA LentKnown ==
    ASSUME HandlerTypeOK, NEW w \in Written(topic), NEW from \in Known(topic) \union {Nothing}
    PROVE  /\ Lent(w, from) \in Known(topic)
           /\ topic # "mode" => Lent(w, from) = w
           /\ topic = "mode" => /\ Lent(w, from).mode = w.mode
                                /\ w.data = "as is" \/ Lent(w, from).data = w.data
<1>1. CASE topic # "mode"
  BY <1>1 DEF Lent, Known, Written
<1>2. CASE topic = "mode"
  <2>1. w \in [mode : {"USB", "CW"}, filter : {0, 1, 2}, data : {"on", "off", "as is"}]
    <3>1. \/ w = [mode |-> "USB", filter |-> 1, data |-> "on"]
          \/ w = [mode |-> "USB", filter |-> 1, data |-> "as is"]
          \/ w = [mode |-> "CW", filter |-> 0, data |-> "as is"]
      BY <1>2 DEF Written
    <3>2. 0 \in {0, 1, 2} /\ 1 \in {0, 1, 2}
      OBVIOUS
    <3>3. CASE w = [mode |-> "USB", filter |-> 1, data |-> "on"]
      BY <3>2, <3>3
    <3>4. CASE w = [mode |-> "USB", filter |-> 1, data |-> "as is"]
      BY <3>2, <3>4
    <3>5. CASE w = [mode |-> "CW", filter |-> 0, data |-> "as is"]
      BY <3>2, <3>5
    <3>. QED
      BY <3>1, <3>3, <3>4, <3>5
  <2>2. from # Nothing => from.data \in {"on", "off", "as is"}
    BY <1>2 DEF Known
  <2>. QED
    BY <1>2, <2>1, <2>2 DEF Lent, Known
<1>. QED
  BY <1>1, <1>2

\* Without a skew, what is told is in the order in which it was so.
LEMMA NotSkewed ==
    ASSUME HandlerTypeOK, NEW w, ~Skewed(w)
    PROVE  Aligned(w)
<1>. DEFINE told == <<shown>> \o reports
<1>1. /\ DOMAIN told = 1..(Len(reports) + 1) /\ told[1] = shown
      /\ \A j \in 1..Len(reports) : told[j + 1] = reports[j] /\ reports[j] \in Reported(topic)
      /\ Len(reports) \in Nat
  BY DEF HandlerTypeOK
<1>2. \A i, j \in DOMAIN told : i < j /\ told[i] # Nothing /\ Matches(w, told[i]) => Matches(w, told[j])
  BY DEF Skewed
<1>3. \A j \in 1..Len(reports) : reports[j] # Nothing
  BY <1>1, Values
<1>. HIDE DEF told
<1>4. ASSUME Agrees(w, shown), NEW j \in 1..Len(reports) PROVE Matches(w, reports[j])
  <2>1. 1 \in DOMAIN told /\ j + 1 \in DOMAIN told /\ 1 < j + 1
    BY <1>1
  <2>. QED
    BY <1>1, <1>2, <1>4, <2>1 DEF Agrees
<1>5. ASSUME NEW i \in 1..Len(reports), NEW j \in 1..Len(reports), i < j, Matches(w, reports[i])
      PROVE  Matches(w, reports[j])
  <2>1. i + 1 \in DOMAIN told /\ j + 1 \in DOMAIN told /\ i + 1 < j + 1
    BY <1>1, <1>5
  <2>. QED
    BY <1>1, <1>2, <1>3, <1>5, <2>1
<1>. QED
  BY <1>4, <1>5 DEF Aligned, AllAgree

\* The property follows from the invariant.
LEMMA ReadsBack ==
    ASSUME HandlerInv
    PROVE  ReadYourWrite
<1>. SUFFICES ASSUME expected # Nothing
              PROVE  /\ Answer # Nothing
                     /\ IF topic # "mode" THEN Answer = expected
                        ELSE /\ Answer.mode = expected.mode
                             /\ expected.data = "as is" \/ Answer.data = expected.data
  BY DEF ReadYourWrite
<1>. USE DEF HandlerInv
<1>0. expected \in Written(topic)
  BY DEF HandlerTypeOK
<1>1. CASE Agrees(expected, shown) /\ pending \in {expected, Nothing}
  <2>1. Answer = shown /\ Matches(expected, shown)
    BY <1>1 DEF Answer, Effective, Agrees
  <2>. QED
    BY <1>1, <2>1 DEF Agrees, Matches
<1>2. CASE ~Agrees(expected, shown) /\ pending = expected
  <2>1. Effective = expected
    BY <1>2 DEF Effective, Agrees
  <2>2. Answer = Lent(expected, IF shown # Nothing THEN shown ELSE cache)
    BY <2>1 DEF Answer
  <2>3. (IF shown # Nothing THEN shown ELSE cache) \in Known(topic) \union {Nothing}
    BY Values DEF HandlerTypeOK
  <2>. HIDE DEF HandlerInv
  <2>4. HandlerTypeOK
    BY DEF HandlerInv
  <2>. QED
    BY <1>0, <2>2, <2>3, <2>4, LentKnown, Values
<1>. QED
  BY <1>1, <1>2 DEF Reliable

-----------------------------------------------------------------------------
(* Steps that are no writes.                                               *)

\* Nobody writes or turns the dial.
LEMMA NoWriteKeeps ==
    ASSUME HandlerInv, UNCHANGED <<topic, radio, expected>>, HandlerTypeOK', Writing' = Writing,
           \A c \in Writing : call'[c] = call[c],
           expected # Nothing => \/ pending' = expected /\ Aligned(expected)'
                                 \/ pending' = Nothing /\ Agrees(expected, shown)' /\ AllAgree(expected)'
    PROVE  HandlerInv'
<1>. USE DEF HandlerInv
<1>1. \A c \in Writing : Told(c)' = Told(c)
  BY DEF Told, Packet
<1>2. \A w : Done(w)' <=> Done(w)
  BY DEF Done
<1>3. AloneIsDone'
  BY <1>1, <1>2 DEF AloneIsDone
<1>4. Reliable'
  BY <1>2 DEF Reliable
<1>. QED
  BY <1>3, <1>4

\* A call that reads changes nothing of those that write.
LEMMA WritingSame ==
    ASSUME HandlerTypeOK, NEW c \in Callers, call[c] \in {Idle, [stage |-> "reading"]},
           NEW n \in {Idle, [stage |-> "reading"]}, call' = [call EXCEPT ![c] = n]
    PROVE  /\ Writing' = Writing /\ \A d \in Writing : call'[d] = call[d]
           /\ call' \in [Callers -> {Idle, [stage |-> "reading"]} \union WriteCalls]
<1>1. c \notin Writing
  BY DEF Writing, Idle
<1>2. \A d \in Callers : d # c => call'[d] = call[d]
  BY DEF HandlerTypeOK
<1>3. call'[c].stage \notin {"sent", "readback"}
  BY DEF HandlerTypeOK, Idle
<1>. QED
  BY <1>1, <1>2, <1>3 DEF Writing, HandlerTypeOK

\* One lemma per handler: a read,
LEMMA ReadsKeep ==
    ASSUME HandlerInv, NEW c \in Callers, Get(c) \/ GetAsks(c) \/ GetAnswered(c)
    PROVE  HandlerInv'
<1>. USE DEF HandlerInv
<1>0. UNCHANGED <<topic, radio, reports, shown, expected>>
  BY DEF Get, GetAsks, GetAnswered
<1>a. \A w : (Aligned(w)' <=> Aligned(w)) /\ (AllAgree(w)' <=> AllAgree(w)) /\ (Agrees(w, shown)' <=> Agrees(w, shown))
  BY <1>0 DEF Aligned, AllAgree, Agrees, Matches
<1>1. CASE Get(c)
  <2>1. pending' = Effective /\ cache' = Answer /\ UNCHANGED call
    BY <1>1 DEF Get
  <2>2. pending' \in {pending, Nothing} /\ (pending' # pending => Agrees(pending, shown))
    BY <2>1 DEF Effective, Agrees
  <2>3. cache' \in Known(topic) \union {Nothing}
    <3>1. (IF shown # Nothing THEN shown ELSE cache) \in Known(topic) \union {Nothing}
      BY Values DEF HandlerTypeOK
    <3>2. Effective \in Written(topic) \union {Nothing}
      BY <2>1, <2>2 DEF HandlerTypeOK
    <3>3. Effective # Nothing => Lent(Effective, IF shown # Nothing THEN shown ELSE cache) \in Known(topic)
      BY <3>1, <3>2, LentKnown
    <3>. QED
      BY <2>1, <3>1, <3>3 DEF Answer
  <2>4. HandlerTypeOK'
    BY <1>0, <2>1, <2>2, <2>3 DEF HandlerTypeOK, WriteCalls
  <2>5. expected # Nothing => \/ pending' = expected /\ Aligned(expected)
                              \/ pending' = Nothing /\ Agrees(expected, shown) /\ AllAgree(expected)
    BY <2>2 DEF Reliable, Aligned
  <2>6. Writing' = Writing
    BY <2>1 DEF Writing
  <2>. QED
    BY <1>0, <1>a, <2>1, <2>4, <2>5, <2>6, NoWriteKeeps
<1>2. CASE GetAsks(c) \/ GetAnswered(c)
  <2>1. /\ call[c] \in {Idle, [stage |-> "reading"]} /\ pending' = pending /\ cache' \in {cache, radio}
        /\ \E n \in {Idle, [stage |-> "reading"]} : call' = [call EXCEPT ![c] = n]
    BY <1>2 DEF GetAsks, GetAnswered, MayCall, handlerVars, HandlerTypeOK, WriteCalls
  <2>2. /\ Writing' = Writing /\ \A d \in Writing : call'[d] = call[d]
        /\ call' \in [Callers -> {Idle, [stage |-> "reading"]} \union WriteCalls]
    BY <2>1, WritingSame
  <2>3. cache' \in Known(topic) \union {Nothing}
    BY <2>1, Values DEF HandlerTypeOK
  <2>4. HandlerTypeOK'
    BY <1>0, <2>1, <2>2, <2>3 DEF HandlerTypeOK, WriteCalls
  <2>. QED
    BY <1>0, <1>a, <2>1, <2>2, <2>4, NoWriteKeeps DEF Reliable
<1>. QED
  BY <1>1, <1>2
-----------------------------------------------------------------------------
(* Writes.                                                                 *)

\* A client in the middle of a write has a record of it.
LEMMA WritingIsWriteCall ==
    ASSUME HandlerTypeOK, NEW c \in Writing
    PROVE  c \in Callers /\ call[c] \in WriteCalls
  BY DEF HandlerTypeOK, Writing, Idle

\* The types of the calls after somebody has disturbed the writes.
LEMMA DisturbedKeeps ==
    ASSUME HandlerTypeOK
    PROVE  /\ Disturbed(Writing) \in [Callers -> {Idle, [stage |-> "reading"]} \union WriteCalls]
           /\ \A d \in Callers : Disturbed(Writing)[d].stage = call[d].stage
           /\ \A d \in Writing : Disturbed(Writing)[d].alone = FALSE
<1>1. \A d \in Writing : [call[d] EXCEPT !.alone = FALSE] \in WriteCalls
  BY WritingIsWriteCall DEF WriteCalls
<1>2. \A d \in Callers \ Writing : Disturbed(Writing)[d] = call[d]
  BY DEF Disturbed
<1>3. \A d \in Writing : Disturbed(Writing)[d] = [call[d] EXCEPT !.alone = FALSE]
  BY DEF Disturbed, Writing
<1>4. \A d \in Writing : Disturbed(Writing)[d].stage = call[d].stage /\ Disturbed(Writing)[d].alone = FALSE
  BY <1>3, WritingIsWriteCall DEF WriteCalls
<1>5. \A d \in Callers : Disturbed(Writing)[d] \in {Idle, [stage |-> "reading"]} \union WriteCalls
  BY <1>1, <1>2, <1>3 DEF HandlerTypeOK
<1>. QED
  BY <1>2, <1>4, <1>5 DEF Disturbed

\* What the radio does on receiving v is v done.
LEMMA EffectIsDone ==
    ASSUME HandlerTypeOK, NEW v, NEW r, r \in Effects(v, radio), topic = "mode" => v.filter \in {0, 1, 2}
    PROVE  /\ topic # "mode" => r = v
           /\ topic = "mode" => /\ v.mode = r.mode /\ v.filter \in {0, r.filter}
                                /\ v.data \in {"as is", r.data}
  BY DEF Effects

\* a write,
LEMMA SetKeeps ==
    ASSUME HandlerInv, NEW c \in Callers, NEW w \in Written(topic), Set(c, w)
    PROVE  HandlerInv'
<1>. USE DEF HandlerInv
<1>0. PICK v : v = IF Packet(w) THEN [w EXCEPT !.data = "as is"] ELSE w
  OBVIOUS
<1>1. PICK gone \in BOOLEAN :
        /\ IF gone THEN UNCHANGED radio ELSE radio' \in Effects(v, radio)
        /\ call' = [Disturbed(Writing) EXCEPT ![c] =
               [stage |-> "sent", write |-> w, alone |-> ~gone /\ Writing = {}]]
  BY <1>0 DEF Set
<1>2. /\ call[c] = Idle /\ expected' = Nothing
      /\ UNCHANGED <<topic, reports, shown, pending, cache>>
  BY DEF Set, MayCall, handlerVars
<1>. DEFINE new == [stage |-> "sent", write |-> w, alone |-> ~gone /\ Writing = {}]
<1>3. new \in WriteCalls /\ new.stage = "sent" /\ new.write = w /\ new.alone = (~gone /\ Writing = {})
  BY DEF WriteCalls
<1>. HIDE DEF new
<1>4. call' = [Disturbed(Writing) EXCEPT ![c] = new]
  BY <1>1 DEF new
<1>5. /\ call'[c] = new /\ \A d \in Callers : d # c => call'[d] = Disturbed(Writing)[d]
      /\ call' \in [Callers -> {Idle, [stage |-> "reading"]} \union WriteCalls]
  BY <1>3, <1>4, DisturbedKeeps
<1>6. Writing' = Writing \union {c}
  BY <1>3, <1>5, DisturbedKeeps DEF Writing
<1>7. c \notin Writing
  BY <1>2 DEF Writing, Idle
<1>8. topic = "mode" => v.filter \in {0, 1, 2} /\ v.filter = w.filter /\ v.mode = w.mode
  <2>1. topic = "mode" => w \in [mode : {"USB", "CW"}, filter : {0, 1, 2}, data : {"on", "off", "as is"}]
    BY Values DEF Known
  <2>. QED
    BY <1>0, <2>1
<1>9. radio' \in Reported(topic)
  <2>1. CASE gone
    BY <1>1, <2>1 DEF HandlerTypeOK
  <2>2. CASE ~gone /\ topic # "mode"
    <3>1. v = w
      BY <1>0, <2>2 DEF Packet
    <3>. QED
      BY <1>1, <2>2, <3>1 DEF Effects, Written
  <2>3. CASE ~gone /\ topic = "mode"
    <3>1. v.mode \in {"USB", "CW"} /\ v.data \in {"as is", "on", "off"}
      BY <1>0, <2>3, Values DEF Packet, Known
    <3>2. \A f \in {0, 1, 2} : f # 0 => f \in 1..2
      OBVIOUS
    <3>3. radio.data \in {"on", "off"}
      BY <2>3 DEF HandlerTypeOK, Reported
    <3>. QED
      BY <1>1, <1>8, <2>3, <3>1, <3>2, <3>3 DEF Effects, Reported
  <2>. QED
    BY <2>1, <2>2, <2>3
<1>10. HandlerTypeOK'
  BY <1>2, <1>5, <1>9 DEF HandlerTypeOK, WriteCalls
<1>11. Told(c)' = v
  BY <1>0, <1>2, <1>3, <1>5 DEF Told, Packet
<1>12. new.alone => Done(v)'
  <2>1. new.alone => radio' \in Effects(v, radio)
    BY <1>1, <1>3
  <2>2. new.alone => /\ topic # "mode" => radio' = v
                     /\ topic = "mode" => /\ v.mode = radio'.mode /\ v.filter \in {0, radio'.filter}
                                          /\ v.data \in {"as is", radio'.data}
    BY <1>8, <2>1, EffectIsDone
  <2>. QED
    BY <1>2, <2>2 DEF Done
<1>13. AloneIsDone'
  <2>1. \A d \in Writing : d # c /\ call'[d].alone = FALSE
    BY <1>5, <1>7, DisturbedKeeps DEF Writing
  <2>2. call'[c].alone => Writing' = {c} /\ Done(Told(c))'
    <3>1. Done(Told(c))' <=> Done(v)'
      BY <1>11 DEF Done
    <3>. QED
      BY <1>3, <1>5, <1>6, <1>12, <3>1
  <2>. QED
    BY <1>6, <2>1, <2>2 DEF AloneIsDone
<1>14. Reliable'
  BY <1>2 DEF Reliable
<1>. QED
  BY <1>10, <1>13, <1>14

\* While somebody writes, nobody may rely on anything.
LEMMA NothingExpected ==
    ASSUME HandlerInv, NEW c \in Writing
    PROVE  expected = Nothing
  BY DEF HandlerInv, Reliable

\* its second half,
LEMMA SetDataKeeps ==
    ASSUME HandlerInv, NEW c \in Callers, SetData(c)
    PROVE  HandlerInv'
<1>. USE DEF HandlerInv
<1>1. /\ call[c].stage = "sent" /\ Packet(call[c].write) /\ topic = "mode"
      /\ call' = [call EXCEPT ![c].stage = "readback"] /\ radio' = [radio EXCEPT !.data = "on"]
      /\ UNCHANGED <<topic, reports, shown, pending, cache, expected>>
  BY DEF SetData, Packet, handlerVars
<1>2. c \in Writing /\ call[c] \in WriteCalls
  BY <1>1, WritingIsWriteCall DEF Writing
<1>3. expected = Nothing
  BY <1>2, NothingExpected
<1>. DEFINE new == [call[c] EXCEPT !.stage = "readback"]
<1>4. new \in WriteCalls /\ new.stage = "readback" /\ new.write = call[c].write /\ new.alone = call[c].alone
  BY <1>2 DEF WriteCalls
<1>5. call' = [call EXCEPT ![c] = new]
  BY <1>1
<1>. HIDE DEF new
<1>6. /\ call'[c] = new /\ \A d \in Callers : d # c => call'[d] = call[d]
      /\ call' \in [Callers -> {Idle, [stage |-> "reading"]} \union WriteCalls]
  BY <1>4, <1>5 DEF HandlerTypeOK
<1>7. Writing' = Writing
  BY <1>2, <1>4, <1>6 DEF Writing
<1>8. radio \in [mode : {"USB", "CW"}, filter : 1..2, data : {"on", "off"}]
  BY <1>1 DEF HandlerTypeOK, Reported
<1>9. /\ radio' \in [mode : {"USB", "CW"}, filter : 1..2, data : {"on", "off"}]
      /\ radio'.mode = radio.mode /\ radio'.filter = radio.filter /\ radio'.data = "on"
  BY <1>1, <1>8
<1>10. HandlerTypeOK'
  BY <1>1, <1>6, <1>9 DEF HandlerTypeOK, WriteCalls, Reported
<1>b. PICK w : w = call[c].write
  OBVIOUS
<1>11. Told(c) = [w EXCEPT !.data = "as is"] /\ Told(c)' = w
  BY <1>1, <1>4, <1>6, <1>b DEF Told, Packet
<1>12. w \in Written(topic) /\ w.data = "on" /\ w \in Known(topic)
  <2>1. w \in Written(topic)
    BY <1>2, <1>b DEF WriteCalls
  <2>2. w.data # "as is"
    BY <1>1, <1>b DEF Packet
  <2>3. w \in {[mode |-> "USB", filter |-> 1, data |-> "on"], [mode |-> "USB", filter |-> 1, data |-> "as is"],
               [mode |-> "CW", filter |-> 0, data |-> "as is"]}
    BY <1>1, <2>1 DEF Written
  <2>4. w.data = "on"
    <3>1. [mode |-> "USB", filter |-> 1, data |-> "as is"].data = "as is"
          /\ [mode |-> "CW", filter |-> 0, data |-> "as is"].data = "as is"
      OBVIOUS
    <3>2. w = [mode |-> "USB", filter |-> 1, data |-> "on"]
      BY <2>2, <2>3, <3>1
    <3>. QED
      BY <3>2
  <2>. QED
    BY <2>1, <2>4, Values
<1>13. Done(Told(c)) => Done(w)'
  <2>1. w \in [mode : {"USB", "CW"}, filter : {0, 1, 2}, data : {"on", "off", "as is"}]
    BY <1>1, <1>12 DEF Known
  <2>2. Told(c).mode = w.mode /\ Told(c).filter = w.filter
    BY <1>11, <2>1
  <2>. QED
    BY <1>1, <1>9, <1>12, <2>2 DEF Done
<1>c. Done(Told(c))' <=> Done(w)'
  BY <1>11 DEF Done
<1>14. AloneIsDone'
  <2>1. \A d \in Writing : call'[d].alone => call[d].alone
    BY <1>4, <1>6 DEF Writing
  <2>2. \A d \in Writing : call'[d].alone => d = c
    BY <1>2, <2>1 DEF AloneIsDone
  <2>. QED
    BY <1>2, <1>7, <1>13, <1>c, <2>1, <2>2 DEF AloneIsDone
<1>15. Reliable'
  BY <1>1, <1>3 DEF Reliable
<1>. QED
  BY <1>10, <1>14, <1>15

\* A write of c is over.
LEMMA CallOver ==
    ASSUME HandlerInv, NEW c \in Writing, call' = [call EXCEPT ![c] = Idle], UNCHANGED <<topic, radio>>
    PROVE  /\ Writing' = Writing \ {c} /\ AloneIsDone'
           /\ call' \in [Callers -> {Idle, [stage |-> "reading"]} \union WriteCalls]
<1>. USE DEF HandlerInv
<1>1. c \in Callers /\ call'[c] = Idle /\ \A d \in Callers : d # c => call'[d] = call[d]
  BY DEF HandlerTypeOK, Writing
<1>2. Writing' = Writing \ {c}
  BY <1>1 DEF Writing, Idle
<1>3. \A d \in Writing' : ~call'[d].alone
  BY <1>1, <1>2 DEF AloneIsDone, Writing
<1>. QED
  BY <1>2, <1>3 DEF AloneIsDone, HandlerTypeOK

\* its failure,
LEMMA SetFailsKeeps ==
    ASSUME HandlerInv, NEW c \in Callers, SetFails(c)
    PROVE  HandlerInv'
<1>. USE DEF HandlerInv
<1>1. /\ c \in Writing /\ call' = [call EXCEPT ![c] = Idle]
      /\ UNCHANGED <<topic, radio, reports, shown, pending, cache, expected>>
  BY DEF SetFails, handlerVars
<1>2. expected = Nothing
  BY <1>1, NothingExpected
<1>3. HandlerTypeOK'
  BY <1>1, CallOver DEF HandlerTypeOK, WriteCalls
<1>. QED
  BY <1>1, <1>2, <1>3, CallOver DEF Reliable

\* its end,
LEMMA SetEndsKeeps ==
    ASSUME HandlerInv, NEW c \in Callers, SetEnds(c)
    PROVE  HandlerInv'
<1>. USE DEF HandlerInv
<1>0. PICK w : w = call[c].write
  OBVIOUS
<1>1. /\ c \in Writing /\ call[c].stage = (IF Packet(w) THEN "readback" ELSE "sent")
      /\ pending' = w /\ cache' = Lent(w, cache) /\ call' = [call EXCEPT ![c] = Idle]
      /\ expected' = IF call[c].alone /\ ~Skewed(w) THEN w ELSE Nothing
      /\ UNCHANGED <<topic, radio, reports, shown>>
  BY <1>0 DEF SetEnds, Remembered
<1>2. w \in Written(topic) /\ Told(c) = w
  BY <1>0, <1>1, WritingIsWriteCall DEF WriteCalls, Told
<1>3. cache' \in Known(topic)
  BY <1>1, <1>2, LentKnown DEF HandlerTypeOK
<1>4. HandlerTypeOK'
  BY <1>1, <1>2, <1>3, CallOver DEF HandlerTypeOK, WriteCalls
<1>5. AloneIsDone' /\ Writing' = Writing \ {c}
  BY <1>1, CallOver
<1>6. ASSUME call[c].alone, ~Skewed(w)
      PROVE  Writing' = {} /\ Done(w)' /\ Aligned(w)'
  <2>1. Writing = {c} /\ Done(w)
    BY <1>0, <1>1, <1>2, <1>6 DEF AloneIsDone
  <2>2. Aligned(w)
    BY <1>6, NotSkewed
  <2>3. Aligned(w)' <=> Aligned(w)
    BY <1>1 DEF Aligned, AllAgree, Agrees, Matches
  <2>. QED
    BY <1>1, <1>5, <2>1, <2>2, <2>3 DEF Done
<1>7. Reliable'
  <2>1. CASE call[c].alone /\ ~Skewed(w)
    <3>1. expected' = w /\ pending' = w
      BY <1>1, <2>1
    <3>2. Done(expected)' /\ Aligned(expected)'
      BY <1>6, <2>1, <3>1 DEF Done, Aligned, Agrees, AllAgree, Matches
    <3>. QED
      BY <1>6, <2>1, <3>1, <3>2 DEF Reliable
  <2>2. CASE ~(call[c].alone /\ ~Skewed(w))
    BY <1>1, <2>2 DEF Reliable
  <2>. QED
    BY <2>1, <2>2
<1>. QED
  BY <1>4, <1>5, <1>7

-----------------------------------------------------------------------------
(* The radio and time.                                                     *)

\* somebody at the dial,
LEMMA DialKeeps ==
    ASSUME HandlerInv, Dial
    PROVE  HandlerInv'
<1>. USE DEF HandlerInv
<1>1. /\ radio' \in Reported(topic) /\ call' = Disturbed(Writing) /\ expected' = Nothing
      /\ UNCHANGED <<topic, reports, shown, pending, cache>>
  BY DEF Dial, handlerVars
<1>2. HandlerTypeOK'
  BY <1>1, DisturbedKeeps DEF HandlerTypeOK, WriteCalls
<1>3. Writing' = Writing
  BY <1>1, DisturbedKeeps DEF Writing
<1>4. AloneIsDone'
  BY <1>1, <1>3, DisturbedKeeps DEF AloneIsDone
<1>. QED
  BY <1>1, <1>2, <1>4 DEF Reliable

\* a report of the radio,
LEMMA ReportKeeps ==
    ASSUME HandlerInv, Report
    PROVE  HandlerInv'
<1>. USE DEF HandlerInv
<1>1. reports' = Append(reports, radio) /\ UNCHANGED <<topic, radio, shown, pending, cache, call, expected>>
  BY DEF Report, handlerVars
<1>2. HandlerTypeOK'
  BY <1>1 DEF HandlerTypeOK, WriteCalls
<1>3. /\ Len(reports') = Len(reports) + 1 /\ Len(reports) \in Nat
      /\ reports'[Len(reports) + 1] = radio
      /\ \A j \in 1..Len(reports) : reports'[j] = reports[j] /\ reports[j] \in Reported(topic)
  BY <1>1 DEF HandlerTypeOK
<1>4. \A j \in 1..Len(reports)' : j = Len(reports) + 1 \/ j \in 1..Len(reports)
  BY <1>3
<1>5. Writing' = Writing
  BY <1>1 DEF Writing
<1>6. ASSUME expected # Nothing
      PROVE  \/ pending = expected /\ Aligned(expected)'
             \/ pending = Nothing /\ Agrees(expected, shown)' /\ AllAgree(expected)'
  <2>1. expected \in Written(topic) /\ Done(expected)
    BY <1>6 DEF HandlerTypeOK, Reliable
  <2>2. Agrees(expected, shown)' <=> Agrees(expected, shown)
    BY <1>1 DEF Agrees, Matches
  <2>3. \A s : Matches(expected, s)' <=> Matches(expected', s)
    BY <1>1 DEF Matches
  <2>4. CASE Matches(expected, radio)
    <3>1. AllAgree(expected) => AllAgree(expected)'
      BY <1>1, <1>3, <1>4, <2>4 DEF AllAgree, Matches
    <3>2. Aligned(expected) => Aligned(expected)'
      <4>. SUFFICES ASSUME Aligned(expected),
                           NEW i \in 1..Len(reports'), NEW j \in 1..Len(reports'),
                           i < j, Matches(expected, reports'[i])
                    PROVE  Matches(expected, reports'[j])
        BY <1>1, <2>2, <3>1 DEF Aligned, Matches
      <4>1. CASE j = Len(reports) + 1
        BY <1>3, <2>4, <4>1
      <4>2. CASE j \in 1..Len(reports)
        <5>1. i \in 1..Len(reports)
          BY <1>3, <4>2
        <5>. QED
          BY <1>3, <4>2, <5>1 DEF Aligned
      <4>. QED
        BY <1>4, <4>1, <4>2
    <3>. QED
      BY <1>6, <2>2, <3>1, <3>2 DEF Reliable
  <2>5. CASE \A s \in Reported(topic) : ~Matches(expected, s)
    <3>1. ~Agrees(expected, shown)
      BY <2>5 DEF Agrees, HandlerTypeOK
    <3>2. \A i \in 1..Len(reports') : ~Matches(expected, reports'[i])
      BY <1>3, <1>4, <2>5 DEF HandlerTypeOK
    <3>3. Aligned(expected)'
      BY <1>1, <2>2, <3>1, <3>2 DEF Aligned, Matches
    <3>. QED
      BY <1>6, <3>1, <3>3 DEF Reliable
  <2>. QED
    BY <2>1, <2>4, <2>5, DoneAgrees
<1>. QED
  BY <1>1, <1>2, <1>5, <1>6, NoWriteKeeps

\* its arrival,
LEMMA ReportArrivesKeeps ==
    ASSUME HandlerInv, ReportArrives
    PROVE  HandlerInv'
<1>. USE DEF HandlerInv
<1>1. /\ reports # <<>> /\ shown' = Head(reports) /\ reports' = Tail(reports)
      /\ UNCHANGED <<topic, radio, pending, cache, call, expected>>
  BY DEF ReportArrives, handlerVars
<1>2. /\ Len(reports) \in Nat /\ Len(reports) > 0 /\ Len(reports') = Len(reports) - 1
      /\ shown' = reports[1] /\ shown' \in Reported(topic)
      /\ reports' \in Seq(Reported(topic))
      /\ \A j \in 1..Len(reports') : reports'[j] = reports[j + 1]
  BY <1>1 DEF HandlerTypeOK
<1>3. \A j \in 1..Len(reports') : j + 1 \in 1..Len(reports) /\ 1 < j + 1
  BY <1>2
<1>4. 1 \in 1..Len(reports)
  BY <1>2
<1>5. HandlerTypeOK'
  BY <1>1, <1>2 DEF HandlerTypeOK, WriteCalls
<1>6. Writing' = Writing
  BY <1>1 DEF Writing
<1>7. Nothing \notin Reported(topic)
  BY Values
<1>8. ASSUME AllAgree(expected)
      PROVE  Agrees(expected, shown)' /\ AllAgree(expected)'
  <2>1. Matches(expected, shown')
    BY <1>2, <1>4, <1>8 DEF AllAgree
  <2>2. \A j \in 1..Len(reports') : Matches(expected, reports'[j])
    BY <1>2, <1>3, <1>8 DEF AllAgree
  <2>. QED
    BY <1>1, <1>2, <1>7, <2>1, <2>2 DEF Agrees, AllAgree, Matches
<1>9. ASSUME Aligned(expected)
      PROVE  Aligned(expected)'
  <2>1. Matches(expected, shown') => \A j \in 1..Len(reports') : Matches(expected, reports'[j])
    BY <1>2, <1>3, <1>4, <1>9 DEF Aligned
  <2>2. ASSUME NEW i \in 1..Len(reports'), NEW j \in 1..Len(reports'), i < j, Matches(expected, reports'[i])
        PROVE  Matches(expected, reports'[j])
    <3>1. i + 1 \in 1..Len(reports) /\ j + 1 \in 1..Len(reports) /\ i + 1 < j + 1
      BY <1>2, <1>3, <2>2
    <3>2. Matches(expected, reports[i + 1])
      BY <1>2, <2>2
    <3>. QED
      BY <1>2, <1>9, <3>1, <3>2 DEF Aligned
  <2>. QED
    BY <1>1, <2>1, <2>2 DEF Aligned, Agrees, AllAgree, Matches
<1>. QED
  BY <1>1, <1>5, <1>6, <1>8, <1>9, NoWriteKeeps DEF Reliable

\* and the cache's expiry.
LEMMA CacheExpiresKeeps ==
    ASSUME HandlerInv, CacheExpires
    PROVE  HandlerInv'
<1>. USE DEF HandlerInv
<1>1. cache' = Nothing /\ UNCHANGED <<topic, radio, reports, shown, pending, call, expected>>
  BY DEF CacheExpires
<1>2. HandlerTypeOK' /\ Writing' = Writing
  BY <1>1 DEF HandlerTypeOK, WriteCalls, Writing
<1>3. /\ Aligned(expected)' <=> Aligned(expected)
      /\ AllAgree(expected)' <=> AllAgree(expected)
      /\ Agrees(expected, shown)' <=> Agrees(expected, shown)
  BY <1>1 DEF Aligned, AllAgree, Agrees, Matches
<1>. QED
  BY <1>1, <1>2, <1>3, NoWriteKeeps DEF Reliable

-----------------------------------------------------------------------------
\* What a client has written and nobody has changed since is in the radio and
\* in what is shown, for any clients and any number of reports.
THEOREM HandlerInvariance == Spec => []HandlerInv
<1>1. HandlerInit => HandlerInv
  <2>. SUFFICES ASSUME HandlerInit PROVE HandlerInv
    OBVIOUS
  <2>1. HandlerTypeOK
    BY DEF HandlerInit, HandlerTypeOK, Reported
  <2>2. Writing = {}
    BY DEF HandlerInit, Writing, Idle
  <2>. QED
    BY <2>1, <2>2 DEF HandlerInit, HandlerInv, AloneIsDone, Reliable
<1>2. HandlerInv /\ [HandlerNext]_handlerAll => HandlerInv'
  <2>. SUFFICES ASSUME HandlerInv, [HandlerNext]_handlerAll PROVE HandlerInv'
    OBVIOUS
  <2>1. CASE UNCHANGED handlerAll
    <3>. USE <2>1 DEF handlerAll, handlerVars
    <3>1. HandlerTypeOK' /\ Writing' = Writing
      BY DEF HandlerInv, HandlerTypeOK, WriteCalls, Writing
    <3>2. /\ Aligned(expected)' <=> Aligned(expected)
          /\ AllAgree(expected)' <=> AllAgree(expected)
          /\ Agrees(expected, shown)' <=> Agrees(expected, shown)
      BY DEF Aligned, AllAgree, Agrees, Matches
    <3>. QED
      BY <3>1, <3>2, NoWriteKeeps DEF HandlerInv, Reliable
  <2>2. ASSUME NEW c \in Callers, Get(c) \/ GetAsks(c) \/ GetAnswered(c) PROVE HandlerInv'
    BY <2>2, ReadsKeep
  <2>3. ASSUME NEW c \in Callers, SetData(c) \/ SetEnds(c) \/ SetFails(c) PROVE HandlerInv'
    BY <2>3, SetDataKeeps, SetEndsKeeps, SetFailsKeeps
  <2>4. ASSUME NEW c \in Callers, NEW w \in Written(topic), Set(c, w) PROVE HandlerInv'
    BY <2>4, SetKeeps
  <2>5. CASE Dial \/ Report \/ ReportArrives \/ CacheExpires
    BY <2>5, DialKeeps, ReportKeeps, ReportArrivesKeeps, CacheExpiresKeeps
  <2>. QED
    BY <2>1, <2>2, <2>3, <2>4, <2>5 DEF HandlerNext
<1>. QED
  BY <1>1, <1>2, PTL DEF Spec

\* Types of the handler's cache, its calls and the reports under way.
THEOREM HandlerTypeCorrect == Spec => []HandlerTypeOK
<1>1. HandlerInv => HandlerTypeOK
  BY DEF HandlerInv
<1>. QED
  BY <1>1, HandlerInvariance, PTL

\* A client reads back what it has written, until somebody writes or turns
\* the dial.
THEOREM WritesAreReadBack == Spec => []ReadYourWrite
<1>1. HandlerInv => ReadYourWrite
  BY ReadsBack
<1>. QED
  BY <1>1, HandlerInvariance, PTL

-----------------------------------------------------------------------------
(***************************************************************************)
(* YaesuCat, for any number of pollers and of kinds of commands, any limit *)
(* on attempts and errors, and any number of lines under way.              *)
(*                                                                         *)
(* While a query reads, what is received or under way and could be taken   *)
(* for its answer is its own or the radio's (OwnLines), unless the line    *)
(* was doubtful when it began; that needs to know that nobody reads        *)
(* without the lock (Exclusive).                                           *)
(***************************************************************************)

Asked == Calls \union {NoCall}
Received  == [what : {"answer", "reject", "echo"}, kind : Kinds \union {"any", "none"},
          of : Tasks \union {Nobody, "radio"}]

Awaits == {"idle", "cycle", "status", "closing", "pause"} \union Calling

CatTypes ==
    /\ at \in [Tasks -> Awaits] /\ asks \in [Tasks -> Asked]
    /\ buffer \in Seq(Received) /\ wire \in Seq(Received)

\* Who reads, writes or is about to holds the lock.
Exclusive == \A t \in Tasks : at[t] \in {"turn", "read", "drain"} => lock = t

\* Every line that t could take for an answer of this kind is its own.
Own(lines, t, kind) ==
    \A i \in 1..Len(lines) : Takes(kind, lines[i]) => lines[i].of \in {t, "radio"}

OwnLines ==
    \A t \in Tasks : at[t] = "read" /\ ~doubtful =>
        Own(buffer, t, asks[t].kind) /\ Own(wire, t, asks[t].kind)

CatInv == CatTypes /\ Exclusive /\ OwnLines /\ QueryGetsItsAnswer

-----------------------------------------------------------------------------
(* Lines.                                                                  *)

\* Giving the lines of a task up changes nobody else's,
LEMMA UnownedLine ==
    ASSUME NEW t \in Tasks, NEW s \in Seq(Received), NEW i \in 1..Len(s)
    PROVE  /\ Unowned(t, s)[i] \in Received
           /\ Unowned(t, s)[i].what = s[i].what /\ Unowned(t, s)[i].kind = s[i].kind
           /\ s[i].of # t => Unowned(t, s)[i] = s[i]
<1>1. s[i] \in Received
  OBVIOUS
<1>2. Unowned(t, s)[i] = IF s[i].of = t THEN [s[i] EXCEPT !.of = Nobody] ELSE s[i]
  BY DEF Unowned
<1>3. CASE s[i].of = t
  <2>1. PICK w \in {"answer", "reject", "echo"}, k \in Kinds \union {"any", "none"},
             o \in Tasks \union {Nobody, "radio"} : s[i] = [what |-> w, kind |-> k, of |-> o]
    BY <1>1 DEF Received
  <2>2. Unowned(t, s)[i] = [what |-> w, kind |-> k, of |-> Nobody]
    BY <1>2, <1>3, <2>1
  <2>. QED
    BY <2>1, <2>2, <1>3 DEF Received
<1>4. CASE s[i].of # t
  BY <1>1, <1>2, <1>4
<1>. QED
  BY <1>3, <1>4

\* and makes no line of another kind.
LEMMA UnownedType ==
    ASSUME NEW t \in Tasks, NEW s \in Seq(Received)
    PROVE  Unowned(t, s) \in Seq(Received) /\ Len(Unowned(t, s)) = Len(s)
<1>1. \A i \in 1..Len(s) : Unowned(t, s)[i] \in Received
  BY UnownedLine
<1>2. DOMAIN Unowned(t, s) = 1..Len(s) /\ Unowned(t, s) = [i \in 1..Len(s) |-> Unowned(t, s)[i]]
  BY DEF Unowned
<1>3. Unowned(t, s) \in [1..Len(s) -> Received]
  BY <1>1, <1>2
<1>. QED
  BY <1>3

\* Disowning the lines of one task keeps those of the others.
LEMMA UnownedKeeps ==
    ASSUME NEW t \in Tasks, NEW s \in Seq(Received), NEW u \in Tasks, u # t, NEW kind,
           Own(s, u, kind)
    PROVE  Own(Unowned(t, s), u, kind)
<1>1. t # "radio"
  BY NamesAssumption DEF Tasks
<1>2. ASSUME NEW i \in 1..Len(s), Takes(kind, Unowned(t, s)[i])
      PROVE  Unowned(t, s)[i].of \in {u, "radio"}
  <2>1. Takes(kind, s[i])
    BY <1>2, UnownedLine DEF Takes
  <2>2. s[i].of \in {u, "radio"}
    BY <2>1 DEF Own
  <2>. QED
    BY <1>1, <2>2, UnownedLine
<1>. QED
  BY <1>2, UnownedType DEF Own

\* A line that is read leaves the others as they are.
LEMMA OwnTail ==
    ASSUME NEW t, NEW kind, NEW s \in Seq(Received), s # <<>>, Own(s, t, kind)
    PROVE  /\ Own(Tail(s), t, kind)
           /\ Takes(kind, Head(s)) => Head(s).of \in {t, "radio"}
BY DEF Own

\* A line is the task's own if it takes no line of another,
LEMMA OwnAppend ==
    ASSUME NEW t, NEW kind, NEW s \in Seq(Received), Own(s, t, kind), NEW line \in Received,
           Takes(kind, line) => line.of \in {t, "radio"}
    PROVE  Own(Append(s, line), t, kind)
BY DEF Own

\* What the radio sends for a call belongs to it.
LEMMA ResponsesOwned ==
    ASSUME NEW t \in Tasks, NEW req \in Asked, NEW r \in Responses(t, req)
    PROVE  r \in Seq(Received) /\ \A i \in 1..Len(r) : r[i].of = t
<1>1. req.kind \in Kinds \union {"any", "none"}
  BY DEF Asked, Calls, NoCall
<1>2. Line("answer", req.kind, t) \in Received /\ Line("reject", "any", t) \in Received /\ Line("echo", req.kind, t) \in Received
  BY <1>1 DEF Line, Received
<1>3. /\ Line("answer", req.kind, t).of = t /\ Line("reject", "any", t).of = t
      /\ Line("echo", req.kind, t).of = t
  BY DEF Line
<1>4. \/ r = <<>> \/ r = <<Line("answer", req.kind, t)>> \/ r = <<Line("reject", "any", t)>>
      \/ r = <<Line("echo", req.kind, t), Line("answer", req.kind, t)>>
  BY DEF Responses
<1>5. CASE r = <<>>
  BY <1>5
<1>6. CASE r = <<Line("answer", req.kind, t)>>
  BY <1>2, <1>3, <1>6
<1>7. CASE r = <<Line("reject", "any", t)>>
  BY <1>2, <1>3, <1>7
<1>8. CASE r = <<Line("echo", req.kind, t), Line("answer", req.kind, t)>>
  BY <1>2, <1>3, <1>8
<1>. QED
  BY <1>4, <1>5, <1>6, <1>7, <1>8

\* and so are the answers to its own call.
LEMMA OwnResponses ==
    ASSUME NEW t \in Tasks, NEW req \in Asked, NEW r \in Responses(t, req), NEW s \in Seq(Received),
           ~ \E i \in DOMAIN s : Takes(req.kind, s[i])
    PROVE  Own(s \o r, t, req.kind)
<1>1. r \in Seq(Received) /\ \A i \in 1..Len(r) : r[i].of = t
  BY ResponsesOwned
<1>. QED
  BY <1>1 DEF Own

-----------------------------------------------------------------------------
(* The ends of a call.                                                     *)

\* When t gives up the lock, or waiting for it, a reader other than t goes on
\* reading, with the lines it had.
LEMMA ReleasedKeeps ==
    ASSUME CatInv, NEW t \in Tasks, NEW then \in {"idle", "closing", "pause"}, Released(t, then),
           NEW rest \in Seq(Received), buffer' \in {Unowned(t, rest), rest, <<>>},
           \A u \in Tasks : \A kind : Own(buffer, u, kind) => Own(rest, u, kind)
    PROVE  CatTypes' /\ Exclusive' /\ OwnLines'
<1>. USE DEF CatInv
<1>1. at' = [u \in Tasks |-> IF u = t THEN then ELSE IF u = lock' /\ lock' # lock THEN "turn" ELSE at[u]]
  BY DEF Released
<1>2. CatTypes'
  <2>1. at' \in [Tasks -> Awaits]
    BY <1>1 DEF CatTypes, Awaits, Calling
  <2>2. asks' \in [Tasks -> Asked]
    BY DEF Released, CatTypes, Asked
  <2>3. wire' \in Seq(Received)
    BY UnownedType DEF Released, CatTypes
  <2>4. <<>> \in Seq(Received) /\ Unowned(t, rest) \in Seq(Received)
    BY UnownedType
  <2>5. buffer' \in Seq(Received)
    BY <2>4
  <2>. QED
    BY <2>1, <2>2, <2>3, <2>5 DEF CatTypes
<1>3. Exclusive'
  <2>. SUFFICES ASSUME NEW u \in Tasks, at'[u] \in {"turn", "read", "drain"}, lock' # u PROVE FALSE
    BY DEF Exclusive
  <2>1. u # t /\ at'[u] = at[u]
    BY <1>1
  <2>2. lock = u
    BY <2>1 DEF Exclusive
  <2>. QED
    BY <2>1, <2>2 DEF Released
<1>4. OwnLines'
  <2>. SUFFICES ASSUME NEW u \in Tasks, at'[u] = "read", ~doubtful'
                PROVE  Own(buffer', u, asks'[u].kind) /\ Own(wire', u, asks'[u].kind)
    BY DEF OwnLines
  <2>1. u # t /\ at[u] = "read"
    BY <1>1
  <2>2. lock = u
    BY <2>1 DEF Exclusive
  <2>3. doubtful' = doubtful /\ asks'[u] = asks[u] /\ wire' = Unowned(t, wire)
    BY <2>1, <2>2 DEF Released, CatTypes
  <2>4. Own(buffer, u, asks[u].kind) /\ Own(wire, u, asks[u].kind)
    BY <2>1, <2>3 DEF OwnLines
  <2>5. Own(wire', u, asks'[u].kind)
    BY <2>1, <2>3, <2>4, UnownedKeeps DEF CatTypes
  <2>6. Own(buffer', u, asks'[u].kind)
    <3>1. Own(rest, u, asks[u].kind)
      BY <2>4
    <3>2. CASE buffer' = Unowned(t, rest)
      BY <2>1, <2>3, <3>1, <3>2, UnownedKeeps
    <3>3. CASE buffer' = <<>>
      BY <3>3 DEF Own
    <3>4. CASE buffer' = rest
      BY <2>3, <3>1, <3>4
    <3>. QED
      BY <3>2, <3>3, <3>4
  <2>. QED
    BY <2>5, <2>6
<1>. QED
  BY <1>2, <1>3, <1>4

\* A call that fails leaves the lock.
LEMMA FailsReleases ==
    ASSUME NEW t, NEW n, EndsFailed(t, n)
    PROVE  \E then \in {"idle", "closing", "pause"} : Released(t, then)
BY DEF EndsFailed

-----------------------------------------------------------------------------
(* The steps.                                                              *)

\* No line of another task's call is under way that t could take for its answer
\* when it sends; what it has received is flushed.
LEMMA SendsKeeps ==
    ASSUME CatInv, NEW t \in Tasks, NEW req \in Asked, lock \in {t, Nobody}, Sends(t, req)
    PROVE  CatInv'
<1>. USE DEF CatInv
<1>1. QueryGetsItsAnswer'
  BY DEF Sends, QueryGetsItsAnswer
<1>2. CASE ~(Usable /\ ~lost)
  <2>1. PICK then \in {"idle", "closing", "pause"} : Released(t, then)
    BY <1>2, FailsReleases DEF Sends
  <2>2. buffer' = <<>> /\ buffer \in Seq(Received)
    BY DEF Sends, Flushed, CatTypes
  <2>3. CatTypes' /\ Exclusive' /\ OwnLines'
    BY <2>1, <2>2, ReleasedKeeps
  <2>. QED
    BY <1>1, <2>3
<1>3. CASE Usable /\ ~lost
  <2>1. /\ lock' = t /\ at' = [at EXCEPT ![t] = IF req.op = "query" THEN "read" ELSE "drain"]
        /\ asks' = [asks EXCEPT ![t] = req] /\ buffer' = <<>>
        /\ doubtful' = \E i \in DOMAIN wire : Takes(req.kind, wire[i])
    BY <1>3 DEF Sends, Flushed
  <2>2. PICK r \in Responses(t, req) : wire' = wire \o r
    BY <1>3 DEF Sends
  <2>3. CatTypes'
    <3>1. at' \in [Tasks -> Awaits] /\ asks' \in [Tasks -> Asked]
      BY <2>1 DEF CatTypes, Awaits, Calling
    <3>2. wire' \in Seq(Received)
      BY <2>2, ResponsesOwned DEF CatTypes
    <3>. QED
      BY <2>1, <3>1, <3>2 DEF CatTypes
  <2>4. \A u \in Tasks : u # t => at'[u] = at[u] /\ at[u] \notin {"turn", "read", "drain"}
    BY <2>1, NamesAssumption DEF CatTypes, Exclusive, Tasks, Nobody
  <2>5. Exclusive'
    BY <2>1, <2>4 DEF Exclusive
  <2>6. OwnLines'
    <3>. SUFFICES ASSUME NEW u \in Tasks, at'[u] = "read", ~doubtful'
                  PROVE  Own(buffer', u, asks'[u].kind) /\ Own(wire', u, asks'[u].kind)
      BY DEF OwnLines
    <3>1. u = t
      BY <2>4
    <3>2. asks'[u] = req
      BY <2>1, <3>1 DEF CatTypes
    <3>3. Own(wire \o r, t, req.kind)
      BY <2>1, OwnResponses DEF CatTypes
    <3>. QED
      BY <2>1, <2>2, <3>1, <3>2, <3>3 DEF Own
  <2>. QED
    BY <1>1, <2>3, <2>5, <2>6
<1>. QED
  BY <1>2, <1>3

\* A call begins.
LEMMA BeginsKeeps ==
    ASSUME CatInv, NEW t \in Tasks, NEW req \in Calls, Begins(t, req)
    PROVE  CatInv'
<1>. USE DEF CatInv
<1>1. CASE ~connected
  <2>1. PICK then \in {"idle", "closing", "pause"} : Released(t, then)
    BY <1>1, FailsReleases DEF Begins
  <2>2. UNCHANGED <<buffer, misread>>
    BY <1>1 DEF Begins
  <2>3. \A u \in Tasks : \A kind : Own(buffer, u, kind) => Own(buffer, u, kind)
    OBVIOUS
  <2>4. buffer \in Seq(Received) /\ buffer' \in {Unowned(t, buffer), buffer, <<>>}
    BY <2>2 DEF CatTypes
  <2>5. CatTypes' /\ Exclusive' /\ OwnLines'
    BY <2>1, <2>3, <2>4, ReleasedKeeps
  <2>. QED
    BY <2>2, <2>5 DEF QueryGetsItsAnswer
<1>2. CASE connected /\ Held
  <2>1. /\ at' = [at EXCEPT ![t] = "lock"] /\ asks' = [asks EXCEPT ![t] = req]
        /\ UNCHANGED <<lock, buffer, wire, doubtful, misread>>
    BY <1>2 DEF Begins, lineVars
  <2>2. CatTypes'
    BY <2>1 DEF CatTypes, Asked, Awaits, Calling
  <2>3. Exclusive'
    BY <2>1 DEF Exclusive, CatTypes
  <2>4. OwnLines'
    BY <2>1 DEF OwnLines, CatTypes
  <2>. QED
    BY <2>1, <2>2, <2>3, <2>4 DEF QueryGetsItsAnswer
<1>3. CASE connected /\ ~Held
  BY <1>3, SendsKeeps DEF Begins, Held, Asked
<1>. QED
  BY <1>1, <1>2, <1>3

\* What a query takes for its answer is its own, unless the line was doubtful.
LEMMA LineReadKeeps ==
    ASSUME CatInv, NEW t \in Tasks, LineRead(t)
    PROVE  CatInv'
<1>. USE DEF CatInv
<1>. DEFINE line == Head(buffer)
<1>1. at[t] = "read" /\ buffer \in Seq(Received) /\ buffer # <<>> /\ Tail(buffer) \in Seq(Received)
  BY DEF LineRead, CatTypes
<1>2. \A u \in Tasks : \A kind : Own(buffer, u, kind) => Own(Tail(buffer), u, kind)
  BY <1>1, OwnTail
<1>3. ~doubtful /\ Takes(asks[t].kind, line) => line.of \in {t, "radio"}
  BY <1>1, OwnTail DEF OwnLines
<1>4. QueryGetsItsAnswer'
  BY <1>3 DEF LineRead, QueryGetsItsAnswer
<1>5. CASE ~Takes(asks[t].kind, line) /\ left # 1 /\ Usable
  <2>1. buffer' = Tail(buffer) /\ UNCHANGED <<lock, at, asks, wire, doubtful>>
    BY <1>5 DEF LineRead
  <2>2. CatTypes'
    BY <1>1, <2>1 DEF CatTypes
  <2>3. Exclusive'
    BY <2>1 DEF Exclusive
  <2>4. OwnLines'
    BY <1>2, <2>1 DEF OwnLines
  <2>. QED
    BY <1>4, <2>2, <2>3, <2>4
<1>6. CASE ~(~Takes(asks[t].kind, line) /\ left # 1 /\ Usable)
  <2>1. \E then \in {"idle", "closing", "pause"} : Released(t, then)
    BY <1>6, FailsReleases DEF LineRead
  <2>2. PICK then \in {"idle", "closing", "pause"} : Released(t, then)
    BY <2>1
  <2>3. buffer' = Unowned(t, Tail(buffer))
    BY <1>6 DEF LineRead
  <2>4. CatTypes' /\ Exclusive' /\ OwnLines'
    BY <1>1, <1>2, <2>2, <2>3, ReleasedKeeps
  <2>. QED
    BY <1>4, <2>4
<1>. QED
  BY <1>5, <1>6

\* A call that times out, is cut off or cancelled, or ends its drain.
LEMMA CallEndKeeps ==
    ASSUME CatInv, NEW t \in Tasks,
           ReadFails(t) \/ DrainEnds(t) \/ (t = "user" /\ UserGivesUp)
    PROVE  CatInv'
<1>. USE DEF CatInv
<1>1. \E then \in {"idle", "closing", "pause"} : Released(t, then)
  BY FailsReleases DEF ReadFails, DrainEnds, UserGivesUp
<1>2. PICK then \in {"idle", "closing", "pause"} : Released(t, then)
  BY <1>1
<1>3. buffer \in Seq(Received) /\ buffer' \in {Unowned(t, buffer), buffer, <<>>}
  BY DEF ReadFails, DrainEnds, UserGivesUp, CatTypes
<1>4. \A u \in Tasks : \A kind : Own(buffer, u, kind) => Own(buffer, u, kind)
  OBVIOUS
<1>5. CatTypes' /\ Exclusive' /\ OwnLines'
  BY <1>2, <1>3, <1>4, ReleasedKeeps
<1>6. QueryGetsItsAnswer'
  BY DEF ReadFails, DrainEnds, UserGivesUp, QueryGetsItsAnswer
<1>. QED
  BY <1>5, <1>6

\* A task moves to an await outside of the lines.
LEMMA MoveKeeps ==
    ASSUME CatInv, NEW t \in Tasks, NEW then \in {"idle", "cycle", "status", "closing", "pause"},
           at' = [at EXCEPT ![t] = then], UNCHANGED <<lock, asks, wire, doubtful, misread>>,
           buffer' = buffer \/ buffer' = <<>>
    PROVE  CatInv'
<1>. USE DEF CatInv
<1>a. buffer \in Seq(Received) /\ <<>> \in Seq(Received) /\ wire \in Seq(Received)
  BY DEF CatTypes
<1>b. then \in Awaits
  BY DEF Awaits
<1>c. at' \in [Tasks -> Awaits] /\ asks' \in [Tasks -> Asked]
  BY <1>b DEF CatTypes
<1>1. CatTypes'
  BY <1>a, <1>c DEF CatTypes
<1>2. Exclusive'
  BY DEF Exclusive, CatTypes
<1>3. \A u \in Tasks : at'[u] = "read" => at[u] = "read"
  BY DEF CatTypes
<1>4. OwnLines'
  BY <1>3 DEF OwnLines, Own
<1>. QED
  BY <1>1, <1>2, <1>4 DEF QueryGetsItsAnswer

\* The lines change, and nobody's call.
LEMMA LinesKeep ==
    ASSUME CatInv, UNCHANGED <<lock, at, asks, doubtful, misread>>,
           buffer' \in Seq(Received), wire' \in Seq(Received),
           \A t \in Tasks : \A kind : Own(buffer, t, kind) /\ Own(wire, t, kind)
                                    => Own(buffer', t, kind) /\ Own(wire', t, kind)
    PROVE  CatInv'
BY DEF CatInv, CatTypes, Exclusive, OwnLines, QueryGetsItsAnswer

\* A line arrives,
LEMMA ArrivesKeeps ==
    ASSUME CatInv, Arrives
    PROVE  CatInv'
<1>. USE DEF CatInv
<1>1. wire \in Seq(Received) /\ wire # <<>> /\ Head(wire) \in Received /\ Tail(wire) \in Seq(Received) /\ wire' = Tail(wire)
  BY DEF Arrives, CatTypes
<1>2. buffer \in Seq(Received) /\ buffer' \in {buffer, Append(buffer, Head(wire))}
  BY DEF Arrives, CatTypes
<1>3. buffer' \in Seq(Received)
  BY <1>1, <1>2
<1>4. ASSUME NEW t \in Tasks, NEW kind, Own(buffer, t, kind), Own(wire, t, kind)
      PROVE  Own(buffer', t, kind) /\ Own(wire', t, kind)
  <2>1. Own(Tail(wire), t, kind) /\ (Takes(kind, Head(wire)) => Head(wire).of \in {t, "radio"})
    BY <1>1, <1>4, OwnTail
  <2>2. Own(Append(buffer, Head(wire)), t, kind)
    BY <1>1, <1>2, <1>4, <2>1, OwnAppend
  <2>. QED
    BY <1>1, <1>2, <1>4, <2>1, <2>2
<1>. QED
  BY <1>1, <1>3, <1>4, LinesKeep DEF Arrives

\* the radio reports of its own accord,
LEMMA InformsKeeps ==
    ASSUME CatInv, Informs
    PROVE  CatInv'
<1>. USE DEF CatInv
<1>1. PICK kind \in Kinds : wire' = Append(wire, Line("answer", kind, "radio"))
  BY DEF Informs
<1>2. Line("answer", kind, "radio") \in Received /\ Line("answer", kind, "radio").of = "radio"
  BY DEF Line, Received
<1>3. buffer' = buffer /\ buffer \in Seq(Received) /\ wire \in Seq(Received) /\ wire' \in Seq(Received)
  BY <1>1, <1>2 DEF Informs, CatTypes, lineVars
<1>4. ASSUME NEW t \in Tasks, NEW k, Own(wire, t, k)
      PROVE  Own(wire', t, k)
  BY <1>1, <1>2, <1>3, <1>4, OwnAppend
<1>. QED
  BY <1>3, <1>4, LinesKeep DEF Informs, lineVars

\* and the port is unplugged.
LEMMA UnplugKeeps ==
    ASSUME CatInv, Unplug
    PROVE  CatInv'
<1>1. buffer' = <<>> /\ wire' = <<>> /\ UNCHANGED <<lock, at, asks, doubtful, misread>>
  BY DEF Unplug
<1>2. \A t \in Tasks : \A kind : Own(<<>>, t, kind)
  BY DEF Own
<1>. QED
  BY <1>1, <1>2, LinesKeep

\* Steps that change nothing the invariant speaks of.
LEMMA ElsewhereKeeps ==
    ASSUME CatInv, UNCHANGED <<lock, at, asks, wire, buffer, doubtful, misread>>
    PROVE  CatInv'
BY LinesKeep DEF CatInv, CatTypes

-----------------------------------------------------------------------------
\* The steps of a task: its turn at the lock and what follows.
LEMMA TaskStepKeeps ==
    ASSUME CatInv, NEW t \in Tasks, TaskStep(t)
    PROVE  CatInv'
<1>1. CASE Turn(t)
  <2>1. lock = t /\ asks[t] \in Asked
    BY <1>1 DEF Turn, CatInv, Exclusive, CatTypes
  <2>. QED
    BY <1>1, <2>1, SendsKeeps DEF Turn
<1>2. CASE LineRead(t)
  BY <1>2, LineReadKeeps
<1>3. CASE ReadFails(t) \/ DrainEnds(t)
  BY <1>3, CallEndKeeps
<1>4. CASE ClosingEnds(t) \/ CycleDue(t) \/ PauseEnds(t)
  <2>1. /\ \E then \in {"idle", "cycle", "status", "closing", "pause"} : at' = [at EXCEPT ![t] = then]
        /\ UNCHANGED <<lock, asks, wire, doubtful, misread, buffer>>
    BY <1>4 DEF ClosingEnds, CycleDue, PauseEnds, lineVars
  <2>. QED
    BY <2>1, MoveKeeps
<1>5. CASE t = "user" /\ UserAsksStatus
  BY <1>5, BeginsKeeps DEF UserAsksStatus, Calls
<1>6. CASE CycleRuns(t)
  BY <1>6, BeginsKeeps DEF CycleRuns, Calls
<1>. QED
  BY <1>1, <1>2, <1>3, <1>4, <1>5, <1>6 DEF TaskStep

\* The invariant is inductive.
LEMMA CatStep ==
    ASSUME CatInv, [YaesuNext]_yaesuVars
    PROVE  CatInv'
<1>0. "user" \in Tasks
  BY DEF Tasks
<1>1. CASE \E t \in Tasks : TaskStep(t)
  BY <1>1, TaskStepKeeps
<1>2. CASE CooldownEnds \/ Replug \/ UNCHANGED yaesuVars
  BY <1>2, ElsewhereKeeps DEF CooldownEnds, Replug, yaesuVars, lineVars, portVars
<1>3. CASE UserCalls
  BY <1>0, <1>3, BeginsKeeps DEF UserCalls
<1>4. CASE UserGivesUp
  BY <1>0, <1>4, CallEndKeeps
<1>5. CASE UserConnects \/ UserDisconnects
  <2>1. /\ \E then \in {"idle", "cycle", "status", "closing", "pause"} : at' = [at EXCEPT !["user"] = then]
        /\ UNCHANGED <<lock, asks, wire, doubtful, misread>>
        /\ buffer' = buffer \/ buffer' = <<>>
    BY <1>5 DEF UserConnects, UserDisconnects, lineVars
  <2>. QED
    BY <1>0, <2>1, MoveKeeps
<1>6. CASE Arrives
  BY <1>6, ArrivesKeeps
<1>7. CASE Informs
  BY <1>7, InformsKeeps
<1>8. CASE Unplug
  BY <1>8, UnplugKeeps
<1>. QED
  BY <1>1, <1>2, <1>3, <1>4, <1>5, <1>6, <1>7, <1>8 DEF YaesuNext

\* It holds of a port that has not been opened.
LEMMA CatInit ==
    ASSUME YaesuInit
    PROVE  CatInv
BY DEF YaesuInit, CatInv, CatTypes, Awaits, Asked, Exclusive, OwnLines, QueryGetsItsAnswer

\* Only who holds the lock of the transport sends and reads
\* (backends/yaesu_cat/transport.py, query() and write()).
THEOREM PortIsExclusive == YaesuSpec => []Exclusive
<1>1. YaesuInit => CatInv
  BY CatInit
<1>2. CatInv /\ [YaesuNext]_yaesuVars => CatInv'
  BY CatStep
<1>3. CatInv => Exclusive
  BY DEF CatInv
<1>. QED
  BY <1>1, <1>2, <1>3, PTL DEF YaesuSpec

\* A query is answered with the radio's line on that very query, or with a
\* report of the radio's own, unless an answer nobody waited for was still on
\* its way when it began: for any number of pollers and kinds of command,
\* whatever times out, is cancelled, reconnects or is unplugged.
THEOREM AnswersAreOwn == YaesuSpec => []QueryGetsItsAnswer
<1>1. YaesuInit => CatInv
  BY CatInit
<1>2. CatInv /\ [YaesuNext]_yaesuVars => CatInv'
  BY CatStep
<1>3. CatInv => QueryGetsItsAnswer
  BY DEF CatInv
<1>. QED
  BY <1>1, <1>2, <1>3, PTL DEF YaesuSpec
-----------------------------------------------------------------------------
(* The types, and the lock: who waits for it waits once, and each step of   *)
(* a call has the call that it is a step of.                                *)

Flags ==
    /\ {connected, reconnecting, cooling, cut, plugged, lost, doubtful, misread} \subseteq BOOLEAN
    /\ port \in {"open", "closing", "none"} /\ errors \in 0..ErrorLimit

Once(s) == \A i, j \in DOMAIN s : s[i] = s[j] => i = j

Queued ==
    /\ lock \in Tasks \union {Nobody} /\ waiters \in Seq(Tasks) /\ Once(waiters)
    /\ \A t \in Tasks : (\E i \in DOMAIN waiters : waiters[i] = t) <=> at[t] = "lock"
    /\ \A t \in Tasks : at[t] \in {"turn", "read", "drain"} <=> lock = t

Asking ==
    /\ at \in [Tasks -> Awaits] /\ asks \in [Tasks -> Asked]
    /\ \A t \in Tasks : at[t] \in Calling => asks[t] \in Calls
    /\ left \in 0..Attempts /\ \A t \in Tasks : at[t] = "read" => left # 0

LineTypes == buffer \in Seq(Lines) /\ wire \in Seq(Lines)

LockInv == Flags /\ Queued /\ Asking /\ LineTypes

\* Who gives up waiting leaves the others in their order.
LEMMA RemovedOnce ==
    ASSUME NEW s \in Seq(Tasks), Once(s), NEW t \in Tasks
    PROVE  /\ RemoveFirst(s, t) \in Seq(Tasks) /\ Once(RemoveFirst(s, t))
           /\ \A u \in Tasks : (\E i \in DOMAIN RemoveFirst(s, t) : RemoveFirst(s, t)[i] = u)
                                 <=> u # t /\ \E i \in DOMAIN s : s[i] = u
<1>1. CASE ~ \E i \in 1..Len(s) : s[i] = t
  BY <1>1 DEF RemoveFirst
<1>2. CASE \E i \in 1..Len(s) : s[i] = t
  <2>1. PICK k \in 1..Len(s) : s[k] = t
    BY <1>2
  <2>. DEFINE I == {i \in 1..Len(s) : s[i] = t}
  <2>2. I = {k}
    BY <2>1 DEF Once
  <2>3. Min(I) = k
    BY <2>2 DEF Min
  <2>4. RemoveFirst(s, t) = RemoveAt(s, k)
    BY <1>2, <2>2, <2>3 DEF RemoveFirst, SelectInSeq
  <2>. DEFINE r == RemoveAt(s, k)
  <2>5. /\ r \in Seq(Tasks) /\ Len(r) = Len(s) - 1
        /\ \A i \in 1..Len(r) : r[i] = IF i < k THEN s[i] ELSE s[i + 1]
    <3>. DEFINE a == SubSeq(s, 1, k - 1)
                b == SubSeq(s, k + 1, Len(s))
    <3>1. a \in Seq(Tasks) /\ Len(a) = k - 1 /\ \A i \in 1..Len(a) : a[i] = s[i]
      BY <2>1
    <3>2. b \in Seq(Tasks) /\ Len(b) = Len(s) - k /\ \A i \in 1..Len(b) : b[i] = s[i + k]
      BY <2>1
    <3>3. r = a \o b
      BY DEF RemoveAt
    <3>. HIDE DEF a, b, r
    <3>. QED
      <4>1. r \in Seq(Tasks) /\ Len(r) = Len(a) + Len(b)
        <5>1. a \o b \in Seq(Tasks) /\ Len(a \o b) = Len(a) + Len(b)
          BY <3>1, <3>2, ConcatProperties
        <5>. QED
          BY <3>3, <5>1
      <4>2. \A i \in 1..Len(r) : r[i] = IF i <= Len(a) THEN a[i] ELSE b[i - Len(a)]
        BY <3>1, <3>2, <3>3, <4>1
      <4>3. Len(r) = Len(s) - 1
        BY <2>1, <3>1, <3>2, <4>1
      <4>4. ASSUME NEW i \in 1..Len(r) PROVE r[i] = IF i < k THEN s[i] ELSE s[i + 1]
        <5>1. CASE i < k
          BY <2>1, <3>1, <4>2, <5>1
        <5>2. CASE ~(i < k)
          <6>1. i - (k - 1) \in 1..Len(b) /\ (i - (k - 1)) + k = i + 1
            BY <2>1, <3>2, <4>3, <5>2
          <6>. QED
            BY <2>1, <3>1, <3>2, <4>2, <5>2, <6>1
        <5>. QED
          BY <5>1, <5>2
      <4>. QED
        BY <4>1, <4>3, <4>4
  <2>. HIDE DEF r
  <2>6. Once(r)
    BY <2>1, <2>5 DEF Once
  <2>7. ASSUME NEW u \in Tasks
        PROVE  (\E i \in DOMAIN r : r[i] = u) <=> u # t /\ \E i \in DOMAIN s : s[i] = u
    <3>1. ASSUME NEW i \in DOMAIN r, r[i] = u PROVE u # t /\ \E j \in DOMAIN s : s[j] = u
      <4>1. CASE i < k
        BY <2>1, <2>5, <3>1, <4>1 DEF Once
      <4>2. CASE ~(i < k)
        BY <2>1, <2>5, <3>1, <4>2 DEF Once
      <4>. QED
        BY <4>1, <4>2
    <3>2. ASSUME NEW j \in DOMAIN s, s[j] = u, u # t PROVE \E i \in DOMAIN r : r[i] = u
      <4>1. CASE j < k
        BY <2>1, <2>5, <3>2, <4>1
      <4>2. CASE j > k
        <5>1. j - 1 \in 1..Len(r) /\ r[j - 1] = s[j]
          BY <2>1, <2>5, <3>2, <4>2
        <5>. QED
          BY <3>2, <5>1
      <4>. QED
        BY <2>1, <3>2, <4>1, <4>2
    <3>. QED
      BY <3>1, <3>2
  <2>. QED
    BY <2>4, <2>5, <2>6, <2>7 DEF r
<1>. QED
  BY <1>1, <1>2

\* Nor does a line change its kind when it is disowned.
LEMMA UnownedLines ==
    ASSUME NEW t \in Tasks, NEW s \in Seq(Lines)
    PROVE  Unowned(t, s) \in Seq(Lines)
<1>1. ASSUME NEW i \in 1..Len(s) PROVE Unowned(t, s)[i] \in Lines
  <2>1. s[i] \in Lines
    OBVIOUS
  <2>2. PICK w \in {"answer", "reject", "echo"}, k \in Kinds \union {"any"}, o \in Tasks \union {Nobody, "radio"} :
            s[i] = [what |-> w, kind |-> k, of |-> o]
    BY <2>1 DEF Lines
  <2>3. Unowned(t, s)[i] = IF s[i].of = t THEN [s[i] EXCEPT !.of = Nobody] ELSE s[i]
    BY DEF Unowned
  <2>4. Unowned(t, s)[i] = s[i] \/ Unowned(t, s)[i] = [what |-> w, kind |-> k, of |-> Nobody]
    BY <2>2, <2>3
  <2>. QED
    BY <2>1, <2>4 DEF Lines
<1>2. DOMAIN Unowned(t, s) = 1..Len(s) /\ Unowned(t, s) = [i \in 1..Len(s) |-> Unowned(t, s)[i]]
  BY DEF Unowned
<1>3. Unowned(t, s) \in [1..Len(s) -> Lines]
  BY <1>1, <1>2
<1>. QED
  BY <1>3

\* The lock goes to who has waited longest, and who gives up waits no more.
LEMMA ReleasedHandsOver ==
    ASSUME LockInv, NEW t \in Tasks, NEW then \in {"idle", "closing", "pause"}, Released(t, then)
    PROVE  Queued' /\ Asking' /\ wire' \in Seq(Lines) /\ {cut', doubtful'} \subseteq BOOLEAN
<1>. USE DEF LockInv
<1>0. then \notin Calling /\ then \in Awaits /\ Nobody \notin Tasks
  BY NamesAssumption DEF Calling, Awaits, Nobody, Tasks
<1>1. at' = [u \in Tasks |-> IF u = t THEN then ELSE IF u = lock' /\ lock' # lock THEN "turn" ELSE at[u]]
  BY DEF Released
<1>2. asks' = [asks EXCEPT ![t] = NoCall] /\ wire' = Unowned(t, wire)
  BY DEF Released
<1>3. wire' \in Seq(Lines)
  BY <1>2, UnownedLines DEF LineTypes
<1>4. left' \in 0..Attempts /\ (lock # t => left' = left) /\ {cut', doubtful'} \subseteq BOOLEAN
  <2>1. \/ lock = t /\ left' = 0 /\ cut' = FALSE /\ doubtful' = FALSE
        \/ lock # t /\ left' = left /\ cut' = cut /\ doubtful' = doubtful
    BY DEF Released
  <2>2. left \in 0..Attempts /\ 0 \in 0..Attempts /\ cut \in BOOLEAN /\ doubtful \in BOOLEAN
    BY LimitsAssumption DEF Asking, Flags
  <2>. QED
    BY <2>1, <2>2
<1>5. CASE lock # t
  <2>1. lock' = lock /\ waiters' = RemoveFirst(waiters, t)
    BY <1>5 DEF Released
  <2>2. \A u \in Tasks : u # t => at'[u] = at[u]
    BY <1>1, <2>1
  <2>3. Queued'
    <3>1. /\ waiters' \in Seq(Tasks) /\ Once(waiters')
          /\ \A u \in Tasks : (\E i \in DOMAIN waiters' : waiters'[i] = u) <=> u # t /\ \E i \in DOMAIN waiters : waiters[i] = u
      <4>. DEFINE r == RemoveFirst(waiters, t)
      <4>1. /\ r \in Seq(Tasks) /\ Once(r)
            /\ \A u \in Tasks : (\E i \in DOMAIN r : r[i] = u) <=> u # t /\ \E i \in DOMAIN waiters : waiters[i] = u
        <5>1. waiters \in Seq(Tasks) /\ Once(waiters)
          BY DEF Queued
        <5>. QED
          BY <5>1, RemovedOnce
      <4>2. waiters' = r
        BY <2>1
      <4>. HIDE DEF r
      <4>. QED
        BY <4>1, <4>2
    <3>2. at'[t] \notin {"lock", "turn", "read", "drain"}
      BY <1>0, <1>1 DEF Calling
    <3>3. \A u \in Tasks : at'[u] = "lock" <=> u # t /\ at[u] = "lock"
      BY <2>2, <3>2
    <3>4. \A u \in Tasks : at'[u] \in {"turn", "read", "drain"} <=> lock' = u
      BY <1>5, <2>1, <2>2, <3>2 DEF Queued
    <3>. QED
      BY <2>1, <3>1, <3>3, <3>4 DEF Queued
  <2>4. Asking'
    BY <1>0, <1>1, <1>2, <1>4, <1>5, <2>2 DEF Asking, Asked, NoCall, Calling
  <2>. QED
    BY <1>3, <1>4, <2>3, <2>4
<1>6. CASE lock = t /\ waiters = <<>>
  <2>1. lock' = Nobody /\ waiters' = <<>>
    <3>1. lock' = Nobody /\ waiters' = RemoveFirst(<<>>, t)
      BY <1>6 DEF Released
    <3>. QED
      BY <3>1 DEF RemoveFirst
  <2>2. \A u \in Tasks : u # t => at'[u] = at[u] /\ at'[u] \notin Calling
    BY <1>0, <1>1, <1>6, <2>1 DEF Queued, Calling
  <2>3. Queued'
    <3>1. \A u \in Tasks : at'[u] \notin {"lock", "turn", "read", "drain"}
      <4>1. \A u \in Tasks : at[u] # "lock"
        BY <1>6 DEF Queued
      <4>. QED
        BY <1>0, <1>1, <2>2, <4>1 DEF Calling
    <3>2. waiters' \in Seq(Tasks) /\ DOMAIN waiters' = {}
      BY <2>1
    <3>. QED
      BY <1>0, <2>1, <3>1, <3>2 DEF Queued, Once
  <2>4. Asking'
    BY <1>0, <1>1, <1>2, <1>4, <1>6, <2>2 DEF Asking, Asked, NoCall, Calling
  <2>. QED
    BY <1>3, <1>4, <2>3, <2>4
<1>7. CASE lock = t /\ waiters # <<>>
  <2>. DEFINE h == Head(waiters)
  <2>1. h \in Tasks /\ lock' = h /\ waiters' = Tail(waiters) /\ h = waiters[1] /\ 1 \in DOMAIN waiters
    BY <1>7 DEF Released, Queued
  <2>2. at[h] = "lock" /\ h # t /\ asks[h] \in Calls
    BY <1>7, <2>1 DEF Queued, Asking, Calling
  <2>3. /\ waiters' \in Seq(Tasks) /\ Len(waiters') = Len(waiters) - 1
        /\ \A i \in 1..Len(waiters') : waiters'[i] = waiters[i + 1]
    BY <1>7, <2>1 DEF Queued
  <2>. HIDE DEF h
  <2>4. /\ at'[h] = "turn"
        /\ \A u \in Tasks : u # t /\ u # h => at'[u] = at[u] /\ at'[u] \notin {"turn", "read", "drain"}
    BY <1>1, <1>7, <2>1, <2>2 DEF Queued
  <2>5. Once(waiters)'
    <3>. SUFFICES ASSUME NEW i \in DOMAIN waiters', NEW j \in DOMAIN waiters', waiters'[i] = waiters'[j]
                  PROVE  i = j
      BY DEF Once
    <3>1. /\ i + 1 \in DOMAIN waiters /\ j + 1 \in DOMAIN waiters
          /\ waiters[i + 1] = waiters[j + 1] /\ i \in Nat /\ j \in Nat
      BY <2>3 DEF Queued
    <3>2. i + 1 = j + 1
      BY <3>1 DEF Queued, Once
    <3>. QED
      BY <3>1, <3>2
  <2>6. ASSUME NEW u \in Tasks
        PROVE  (\E i \in DOMAIN waiters' : waiters'[i] = u) <=> at'[u] = "lock"
    <3>1. ASSUME NEW i \in DOMAIN waiters', waiters'[i] = u PROVE at'[u] = "lock"
      <4>1. i + 1 \in DOMAIN waiters /\ waiters[i + 1] = u /\ i + 1 # 1
        BY <2>3, <3>1 DEF Queued
      <4>2. u # h /\ at[u] = "lock"
        BY <2>1, <4>1 DEF Queued, Once
      <4>. QED
        BY <1>7, <2>4, <4>2 DEF Queued
    <3>2. ASSUME at'[u] = "lock" PROVE \E i \in DOMAIN waiters' : waiters'[i] = u
      <4>1. u # t /\ u # h
        BY <1>0, <1>1, <2>4, <3>2 DEF Calling
      <4>2. PICK i \in DOMAIN waiters : waiters[i] = u
        BY <2>4, <3>2, <4>1 DEF Queued
      <4>3. i # 1
        BY <2>1, <4>1, <4>2
      <4>4. i - 1 \in DOMAIN waiters' /\ waiters'[i - 1] = u
        BY <2>3, <4>2, <4>3 DEF Queued
      <4>. QED
        BY <4>4
    <3>. QED
      BY <3>1, <3>2
  <2>7. \A u \in Tasks : at'[u] \in {"turn", "read", "drain"} <=> lock' = u
    BY <1>0, <1>1, <2>1, <2>2, <2>4 DEF Calling
  <2>8. Queued'
    BY <2>1, <2>3, <2>5, <2>6, <2>7 DEF Queued
  <2>9. Asking'
    <3>1. at' \in [Tasks -> Awaits] /\ asks' \in [Tasks -> Asked]
      BY <1>0, <1>1, <1>2 DEF Asking, Asked, Awaits, Calling
    <3>2. \A u \in Tasks : at'[u] \in Calling => asks'[u] \in Calls
      BY <1>0, <1>1, <1>2, <2>2, <2>4 DEF Asking
    <3>3. \A u \in Tasks : at'[u] # "read"
      BY <1>0, <1>1, <2>4 DEF Calling
    <3>. QED
      BY <1>4, <3>1, <3>2, <3>3 DEF Asking
  <2>. QED
    BY <1>3, <1>4, <2>8, <2>9
<1>. QED
  BY <1>5, <1>6, <1>7

\* A call that fails, and what a failing poller does to the port.
LEMMA FailedKeeps ==
    ASSUME LockInv, NEW t \in Tasks, NEW n \in 0..ErrorLimit, EndsFailed(t, n),
           buffer' \in Seq(Lines), UNCHANGED <<misread, plugged, lost>>
    PROVE  LockInv'
<1>1. PICK then \in {"idle", "closing", "pause"} : Released(t, then)
  BY FailsReleases
<1>2. Queued' /\ Asking' /\ wire' \in Seq(Lines) /\ {cut', doubtful'} \subseteq BOOLEAN
  BY <1>1, ReleasedHandsOver
<1>3. {connected', reconnecting', cooling'} \subseteq BOOLEAN /\ port' \in {"open", "closing", "none"}
  BY DEF EndsFailed, Closes, portVars, LockInv, Flags
<1>4. Flags'
  BY <1>2, <1>3 DEF EndsFailed, LockInv, Flags
<1>. QED
  BY <1>2, <1>4 DEF LockInv, LineTypes

\* A call that is over.
LEMMA OverKeeps ==
    ASSUME LockInv, NEW t \in Tasks, Released(t, "idle"), errors' \in 0..ErrorLimit,
           buffer' \in Seq(Lines), misread' \in BOOLEAN, UNCHANGED <<portVars, plugged, lost>>
    PROVE  LockInv'
<1>1. Queued' /\ Asking' /\ wire' \in Seq(Lines) /\ {cut', doubtful'} \subseteq BOOLEAN
  BY ReleasedHandsOver
<1>. QED
  BY <1>1 DEF LockInv, Flags, LineTypes, portVars

\* The lock is free, or the task's own, when it sends.
LEMMA SendsLocked ==
    ASSUME LockInv, NEW t \in Tasks, NEW req \in Calls, at[t] # "lock", lock \in {t, Nobody}, Sends(t, req)
    PROVE  LockInv'
<1>. USE DEF LockInv
<1>0. buffer' \in Seq(Lines) /\ UNCHANGED <<misread, plugged, lost>>
  BY DEF Sends, Flushed
<1>1. CASE ~(Usable /\ ~lost)
  <2>1. PICK n \in 0..ErrorLimit : EndsFailed(t, n)
    <3>1. Counted \in 0..ErrorLimit /\ errors \in 0..ErrorLimit
      BY LimitsAssumption DEF Counted, Flags
    <3>. DEFINE m == IF Usable THEN Counted ELSE errors
    <3>2. m \in 0..ErrorLimit
      BY <3>1
    <3>3. EndsFailed(t, m)
      BY <1>1 DEF Sends
    <3>. HIDE DEF m
    <3>. QED
      BY <3>2, <3>3
  <2>. QED
    BY <1>0, <2>1, FailedKeeps
<1>2. CASE Usable /\ ~lost
  <2>1. /\ lock' = t /\ at' = [at EXCEPT ![t] = IF req.op = "query" THEN "read" ELSE "drain"]
        /\ asks' = [asks EXCEPT ![t] = req]
        /\ left' = Attempts /\ cut' = FALSE /\ doubtful' \in BOOLEAN
        /\ UNCHANGED <<portVars, errors, waiters>>
    BY <1>2 DEF Sends
  <2>2. PICK r \in Responses(t, req) : wire' = wire \o r
    BY <1>2 DEF Sends
  <2>3. wire' \in Seq(Lines)
    <3>1. req.kind \in Kinds
      BY DEF Calls
    <3>2. /\ Line("answer", req.kind, t) \in Lines /\ Line("reject", "any", t) \in Lines
          /\ Line("echo", req.kind, t) \in Lines
      BY <3>1 DEF Line, Lines
    <3>3. \/ r = <<>> \/ r = <<Line("answer", req.kind, t)>> \/ r = <<Line("reject", "any", t)>>
          \/ r = <<Line("echo", req.kind, t), Line("answer", req.kind, t)>>
      BY DEF Responses
    <3>4. r \in Seq(Lines)
      <4>1. /\ <<>> \in Seq(Lines) /\ <<Line("answer", req.kind, t)>> \in Seq(Lines)
            /\ <<Line("reject", "any", t)>> \in Seq(Lines)
            /\ <<Line("echo", req.kind, t), Line("answer", req.kind, t)>> \in Seq(Lines)
        BY <3>2
      <4>. QED
        BY <3>3, <4>1
    <3>. QED
      BY <2>2, <3>4 DEF LineTypes
  <2>4. Flags'
    BY <1>0, <2>1 DEF Flags, portVars
  <2>5. Nobody \notin Tasks
    BY NamesAssumption DEF Nobody, Tasks
  <2>6. at'[t] \in {"read", "drain"} /\ \A u \in Tasks : u # t => at'[u] = at[u] /\ at[u] \notin {"turn", "read", "drain"}
    BY <2>1, <2>5 DEF Queued, Asking
  <2>7. Queued'
    BY <2>1, <2>6 DEF Queued
  <2>8. at' \in [Tasks -> Awaits] /\ asks' \in [Tasks -> Asked]
    BY <2>1 DEF Asking, Awaits, Asked, Calling
  <2>9. Asking'
    BY <2>1, <2>6, <2>8, LimitsAssumption DEF Asking, Calling
  <2>. QED
    BY <1>0, <2>3, <2>4, <2>7, <2>9 DEF LineTypes
<1>. QED
  BY <1>1, <1>2

LEMMA BeginsLocked ==
    ASSUME LockInv, NEW t \in Tasks, NEW req \in Calls, at[t] \notin Calling, Begins(t, req)
    PROVE  LockInv'
<1>. USE DEF LockInv
<1>0. at[t] # "lock" /\ lock # t
  BY DEF Calling, Queued
<1>1. CASE ~connected
  BY <1>1, FailedKeeps DEF Begins, Flags, LineTypes
<1>2. CASE connected /\ Held
  <2>1. /\ waiters' = Append(waiters, t) /\ at' = [at EXCEPT ![t] = "lock"]
        /\ asks' = [asks EXCEPT ![t] = req]
        /\ UNCHANGED <<portVars, errors, lock, lineVars, wire, plugged, lost>>
    BY <1>2 DEF Begins
  <2>2. /\ waiters' \in Seq(Tasks) /\ Len(waiters') = Len(waiters) + 1 /\ waiters'[Len(waiters) + 1] = t
        /\ \A i \in 1..Len(waiters) : waiters'[i] = waiters[i]
    BY <2>1 DEF Queued
  <2>3. \A i \in DOMAIN waiters : waiters[i] # t
    BY <1>0 DEF Queued
  <2>4. Once(waiters)'
    BY <2>2, <2>3 DEF Queued, Once
  <2>5. \A u \in Tasks : (\E i \in DOMAIN waiters' : waiters'[i] = u) <=> u = t \/ \E i \in DOMAIN waiters : waiters[i] = u
    <3>1. DOMAIN waiters = 1..Len(waiters) /\ DOMAIN waiters' = 1..(Len(waiters) + 1) /\ Len(waiters) \in Nat
      BY <2>2 DEF Queued
    <3>. QED
      BY <2>2, <3>1
  <2>6. Queued'
    BY <1>0, <2>1, <2>2, <2>4, <2>5 DEF Queued, Asking
  <2>7. Asking'
    BY <2>1 DEF Asking, Awaits, Asked, Calling, lineVars
  <2>8. Flags' /\ LineTypes'
    BY <2>1 DEF Flags, LineTypes, portVars, lineVars
  <2>. QED
    BY <2>6, <2>7, <2>8
<1>3. CASE connected /\ ~Held
  BY <1>0, <1>3, SendsLocked DEF Begins, Held
<1>. QED
  BY <1>1, <1>2, <1>3

LEMMA LineReadLocked ==
    ASSUME LockInv, NEW t \in Tasks, LineRead(t)
    PROVE  LockInv'
<1>. USE DEF LockInv
<1>0. /\ buffer \in Seq(Lines) /\ buffer # <<>> /\ Tail(buffer) \in Seq(Lines)
      /\ Unowned(t, Tail(buffer)) \in Seq(Lines)
  <2>1. buffer \in Seq(Lines) /\ buffer # <<>>
    BY DEF LineRead, LineTypes
  <2>2. Tail(buffer) \in Seq(Lines)
    BY <2>1
  <2>. QED
    BY <2>1, <2>2, UnownedLines
<1>1. buffer' \in Seq(Lines) /\ UNCHANGED <<plugged, lost>>
  BY <1>0 DEF LineRead
<1>2. errors \in 0..ErrorLimit /\ Counted \in 0..ErrorLimit /\ 0 \in 0..ErrorLimit
  BY LimitsAssumption DEF Counted, Flags
<1>3. CASE ~Takes(asks[t].kind, Head(buffer))
  <2>1. misread' = misread
    BY <1>3 DEF LineRead
  <2>2. CASE left = 1 \/ ~Usable
    <3>1. PICK n \in 0..ErrorLimit : EndsFailed(t, n)
      BY <1>2, <1>3, <2>2 DEF LineRead
    <3>. QED
      BY <1>1, <2>1, <3>1, FailedKeeps
  <2>3. CASE left # 1 /\ Usable
    <3>1. /\ left' = left - 1 /\ at[t] = "read"
          /\ UNCHANGED <<portVars, errors, lock, waiters, at, asks, wire, cut, doubtful>>
      BY <1>3, <2>3 DEF LineRead
    <3>2. left - 1 \in 0..Attempts /\ left - 1 # 0
      BY <2>3, <3>1, LimitsAssumption DEF Asking
    <3>3. Asking'
      BY <3>1, <3>2 DEF Asking
    <3>. QED
      BY <1>1, <2>1, <3>1, <3>3 DEF Flags, Queued, LineTypes, portVars
  <2>. QED
    BY <2>2, <2>3
<1>4. CASE Takes(asks[t].kind, Head(buffer))
  <2>1. misread' = (misread \/ (Head(buffer).of \notin {t, "radio"} /\ ~doubtful))
    BY <1>4 DEF LineRead
  <2>2. misread' \in BOOLEAN
    BY <2>1
  <2>3. CASE Head(buffer).what = "reject"
    <3>1. EndsFailed(t, Counted)
      BY <1>4, <2>3 DEF LineRead
    <3>2. PICK then \in {"idle", "closing", "pause"} : Released(t, then)
      BY <3>1, FailsReleases
    <3>3. Queued' /\ Asking' /\ wire' \in Seq(Lines) /\ {cut', doubtful'} \subseteq BOOLEAN
      BY <3>2, ReleasedHandsOver
    <3>4. /\ {connected', reconnecting', cooling'} \subseteq BOOLEAN /\ port' \in {"open", "closing", "none"}
          /\ errors' = Counted
      BY <3>1 DEF EndsFailed, Closes, portVars, Flags
    <3>. QED
      BY <1>1, <1>2, <2>2, <3>3, <3>4 DEF Flags, LineTypes
  <2>4. CASE Head(buffer).what # "reject"
    <3>1. errors' = 0 /\ Released(t, "idle") /\ UNCHANGED portVars
      BY <1>4, <2>4 DEF LineRead
    <3>. QED
      BY <1>1, <1>2, <2>2, <3>1, OverKeeps
  <2>. QED
    BY <2>3, <2>4
<1>. QED
  BY <1>3, <1>4

\* A task moves between awaits that are not of a call.
LEMMA MoveLocked ==
    ASSUME LockInv, NEW t \in Tasks, at[t] \notin Calling,
           NEW then \in {"idle", "cycle", "status", "closing", "pause"},
           at' = [at EXCEPT ![t] = then], UNCHANGED <<lock, waiters, asks, left>>, Flags', LineTypes'
    PROVE  LockInv'
<1>. USE DEF LockInv
<1>1. at[t] \notin {"turn", "read", "drain", "lock"} /\ then \notin Calling /\ then \in Awaits
  BY DEF Calling, Awaits
<1>2. \A u \in Tasks : u # t => at'[u] = at[u]
  BY DEF Asking
<1>3. at'[t] = then
  BY DEF Asking
<1>4. Queued'
  BY <1>1, <1>2, <1>3 DEF Queued, Calling
<1>5. Asking'
  BY <1>1, <1>2, <1>3 DEF Asking, Calling
<1>. QED
  BY <1>4, <1>5

LEMMA TaskStepLocked ==
    ASSUME LockInv, NEW t \in Tasks, TaskStep(t)
    PROVE  LockInv'
<1>. USE DEF LockInv
<1>0. errors \in 0..ErrorLimit /\ Counted \in 0..ErrorLimit /\ 0 \in 0..ErrorLimit
  BY LimitsAssumption DEF Counted, Flags
<1>1. CASE Turn(t)
  <2>1. lock = t /\ asks[t] \in Calls /\ at[t] # "lock"
    BY <1>1 DEF Turn, Queued, Asking, Calling
  <2>. QED
    BY <1>1, <2>1, SendsLocked DEF Turn
<1>2. CASE LineRead(t)
  BY <1>2, LineReadLocked
<1>3. CASE ReadFails(t)
  <2>1. PICK n \in 0..ErrorLimit : EndsFailed(t, n)
    BY <1>0, <1>3 DEF ReadFails
  <2>. QED
    BY <1>3, <2>1, FailedKeeps, UnownedLines DEF ReadFails, LineTypes
<1>4. CASE DrainEnds(t)
  <2>1. misread' \in BOOLEAN /\ buffer' \in Seq(Lines)
    BY <1>4 DEF DrainEnds, Flags
  <2>. QED
    BY <1>0, <1>4, <2>1, OverKeeps DEF DrainEnds
<1>5. CASE ClosingEnds(t) \/ CycleDue(t)
  <2>1. Flags' /\ LineTypes'
    BY <1>5 DEF ClosingEnds, CycleDue, Flags, LineTypes, lineVars, portVars
  <2>2. PICK then \in {"idle", "cycle", "pause"} : at' = [at EXCEPT ![t] = then]
    BY <1>5 DEF ClosingEnds, CycleDue
  <2>3. at[t] \notin Calling /\ UNCHANGED <<lock, waiters, asks, left>>
    BY <1>5 DEF ClosingEnds, CycleDue, Calling, lineVars
  <2>. QED
    BY <2>1, <2>2, <2>3, MoveLocked
<1>6. CASE PauseEnds(t)
  <2>1. Flags' /\ LineTypes'
    BY <1>0, <1>6 DEF PauseEnds, Opens, StillReconnecting, Flags, LineTypes, lineVars
  <2>2. at[t] \notin Calling /\ UNCHANGED <<lock, waiters, asks, left>> /\ at' = [at EXCEPT ![t] = "idle"]
    BY <1>6 DEF PauseEnds, Calling, lineVars
  <2>. QED
    BY <2>1, <2>2, MoveLocked
<1>7. CASE t = "user" /\ UserAsksStatus
  BY <1>7, BeginsLocked DEF UserAsksStatus, Calls, Calling
<1>8. CASE CycleRuns(t)
  BY <1>8, BeginsLocked DEF CycleRuns, Calls, Calling
<1>. QED
  BY <1>1, <1>2, <1>3, <1>4, <1>5, <1>6, <1>7, <1>8 DEF TaskStep

\* Who holds the lock and who waits for it, in every step.
LEMMA LockStep ==
    ASSUME LockInv, [YaesuNext]_yaesuVars
    PROVE  LockInv'
<1>. USE DEF LockInv
<1>0. "user" \in Tasks /\ errors \in 0..ErrorLimit /\ 0 \in 0..ErrorLimit
  BY LimitsAssumption DEF Tasks, Flags
<1>1. CASE \E t \in Tasks : TaskStep(t)
  BY <1>1, TaskStepLocked
<1>2. CASE CooldownEnds \/ Replug \/ UNCHANGED yaesuVars
  <2>1. UNCHANGED <<lock, waiters, at, asks, left, buffer, wire>>
    BY <1>2 DEF CooldownEnds, Replug, yaesuVars, lineVars, portVars
  <2>2. Flags'
    BY <1>2 DEF CooldownEnds, Replug, yaesuVars, lineVars, portVars, Flags
  <2>. QED
    BY <2>1, <2>2 DEF Queued, Asking, LineTypes
<1>3. CASE UserCalls
  BY <1>0, <1>3, BeginsLocked DEF UserCalls, Calling
<1>4. CASE UserGivesUp
  <2>1. misread' \in BOOLEAN /\ buffer' \in Seq(Lines)
    BY <1>0, <1>4, UnownedLines DEF UserGivesUp, Flags, LineTypes
  <2>. QED
    BY <1>0, <1>4, <2>1, OverKeeps DEF UserGivesUp
<1>5. CASE UserConnects
  <2>1. Flags' /\ LineTypes'
    BY <1>0, <1>5 DEF UserConnects, Opens, Flags, LineTypes, lineVars
  <2>2. at["user"] \notin Calling /\ UNCHANGED <<lock, waiters, asks, left>>
    BY <1>5 DEF UserConnects, Calling, lineVars
  <2>3. PICK then \in {"idle", "status"} : at' = [at EXCEPT !["user"] = then]
    BY <1>5 DEF UserConnects
  <2>. QED
    BY <1>0, <2>1, <2>2, <2>3, MoveLocked
<1>6. CASE UserDisconnects
  <2>1. Flags' /\ LineTypes'
    <3>1. /\ connected' = FALSE /\ port' \in {"closing", port} /\ buffer' = <<>>
          /\ UNCHANGED <<reconnecting, cooling, errors, doubtful, misread, wire, plugged, lost>>
      BY <1>6 DEF UserDisconnects, Closes
    <3>2. cut' = Held
      BY <1>6 DEF UserDisconnects
    <3>3. cut' \in BOOLEAN
      BY <3>2 DEF Held
    <3>. QED
      <4>1. buffer' \in Seq(Lines) /\ wire' \in Seq(Lines) /\ errors' \in 0..ErrorLimit
            /\ port' \in {"open", "closing", "none"}
        BY <3>1 DEF Flags, LineTypes
      <4>2. /\ connected' \in BOOLEAN /\ reconnecting' \in BOOLEAN /\ cooling' \in BOOLEAN /\ plugged' \in BOOLEAN
            /\ lost' \in BOOLEAN /\ doubtful' \in BOOLEAN /\ misread' \in BOOLEAN
        BY <3>1 DEF Flags
      <4>. QED
        BY <3>3, <4>1, <4>2 DEF Flags, LineTypes
  <2>2. at["user"] \notin Calling /\ UNCHANGED <<lock, waiters, asks, left>>
    BY <1>6 DEF UserDisconnects, Calling
  <2>3. PICK then \in {"idle", "closing"} : at' = [at EXCEPT !["user"] = then]
    BY <1>6 DEF UserDisconnects
  <2>. QED
    BY <1>0, <2>1, <2>2, <2>3, MoveLocked
<1>7. CASE Arrives
  <2>1. buffer' \in Seq(Lines) /\ wire' \in Seq(Lines)
    BY <1>7 DEF Arrives, LineTypes
  <2>. QED
    BY <1>7, <2>1 DEF Arrives, Flags, Queued, Asking, LineTypes, portVars
<1>8. CASE Informs
  <2>1. PICK kind \in Kinds : wire' = Append(wire, Line("answer", kind, "radio"))
    BY <1>8 DEF Informs
  <2>2. Line("answer", kind, "radio") \in Lines
    BY DEF Line, Lines
  <2>3. wire' \in Seq(Lines)
    BY <2>1, <2>2 DEF LineTypes
  <2>. QED
    BY <1>8, <2>3 DEF Informs, Flags, Queued, Asking, LineTypes, portVars, lineVars
<1>9. CASE Unplug
  <2>1. buffer' = <<>> /\ wire' = <<>> /\ UNCHANGED <<portVars, errors, lock, waiters, at, asks, left, doubtful, misread>>
    BY <1>9 DEF Unplug
  <2>2. Flags'
    BY <1>9, <2>1 DEF Unplug, Held, Flags, portVars
  <2>. QED
    BY <2>1, <2>2 DEF Queued, Asking, LineTypes
<1>. QED
  BY <1>1, <1>2, <1>3, <1>4, <1>5, <1>6, <1>7, <1>8, <1>9 DEF YaesuNext

\* The lock of the transport is handed over in order: who waits waits once, and
\* whoever is between taking and releasing it holds it
\* (backends/yaesu_cat/transport.py, _lock).
THEOREM CatTypeCorrect == YaesuSpec => []YaesuTypeOK
<1>1. YaesuInit => LockInv
  <2>. SUFFICES ASSUME YaesuInit PROVE LockInv
    OBVIOUS
  <2>1. Nobody \notin Tasks
    BY NamesAssumption DEF Nobody, Tasks
  <2>2. Flags
    <3>1. 0 \in 0..ErrorLimit
      BY LimitsAssumption
    <3>. QED
      BY <3>1 DEF YaesuInit, Flags
  <2>3. Queued
    BY <2>1 DEF YaesuInit, Queued, Once
  <2>4. Asking
    BY LimitsAssumption DEF YaesuInit, Asking, Awaits, Asked, Calling
  <2>5. LineTypes
    BY DEF YaesuInit, LineTypes
  <2>. QED
    BY <2>2, <2>3, <2>4, <2>5 DEF LockInv
<1>2. LockInv /\ [YaesuNext]_yaesuVars => LockInv'
  BY LockStep
<1>3. LockInv => YaesuTypeOK
  <2>. SUFFICES ASSUME LockInv PROVE YaesuTypeOK
    OBVIOUS
  <2>. USE DEF LockInv
  <2>1. ToSet(waiters) = {t \in Tasks : at[t] = "lock"}
    BY DEF ToSet, Queued
  <2>2. ToSet(buffer) \union ToSet(wire) \subseteq Lines
    BY DEF ToSet, LineTypes
  <2>. QED
    BY <2>1, <2>2 DEF YaesuTypeOK, Flags, Queued, Asking, Awaits, Asked
<1>. QED
  BY <1>1, <1>2, <1>3, PTL DEF YaesuSpec

-----------------------------------------------------------------------------
(* The three together.                                                     *)

\* Every behaviour of the composition is one of each part.
LEMMA PartsOfServer ==
    MCSpec => /\ Init /\ [][Next]_vars
              /\ Spec
              /\ YaesuSpec
<1>1. MCInit => Init /\ HandlerInit /\ YaesuInit
  BY DEF MCInit
<1>2. [MCNext]_<<vars, subject, handlerAll, yaesuVars>> =>
        [Next]_vars /\ [HandlerNext]_handlerAll /\ [YaesuNext]_yaesuVars
  <2>. SUFFICES ASSUME [MCNext]_<<vars, subject, handlerAll, yaesuVars>>
                PROVE  [Next]_vars /\ [HandlerNext]_handlerAll /\ [YaesuNext]_yaesuVars
    OBVIOUS
  <2>. HIDE DEF vars, clientVars, pollVars, holdVars, breakerVars, radioVars
  <2>. QED
    BY DEF MCNext
<1>. QED
  BY <1>1, <1>2, PTL DEF MCSpec, Spec, YaesuSpec

\* Every variable of the server, its handler and the radio behind it has its type.
THEOREM ServerTypesCorrect == MCSpec => []ServerTypesOK
<1>1. ServerTypeOK /\ HandlerTypeOK /\ YaesuTypeOK => ServerTypesOK
  BY DEF ServerTypesOK
<1>. QED
  BY <1>1, PartsOfServer, ServerTypeCorrect, HandlerTypeCorrect, CatTypeCorrect, PTL
=============================================================================
