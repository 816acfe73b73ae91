------------------------- MODULE SerialRadio_proofs -------------------------
(***************************************************************************)
(* Proofs about the serial radio and the frame codec of its line:          *)
(* SerialRadio and SerialFraming.                                          *)
(*                                                                         *)
(* A radio on a serial line that rests is either connected, with its one   *)
(* port and the tasks that serve it, or has nothing open and nothing       *)
(* running (SerialClean), for any faults and calls.                        *)
(*                                                                         *)
(* SerialClean speaks of the states in which nobody is at work.  The       *)
(* invariant also says what the one that is at work has already taken      *)
(* down, at each of its awaits, and that the other rests meanwhile.        *)
(***************************************************************************)
EXTENDS SerialRadio, SerialFraming, SequenceTheorems, WellFoundedInduction, TLAPS

\* The link's port, the open ports and the writer tasks agree.
Shape(r) ==
    /\ r.port = 0 => r.open = {} /\ r.writers = {}
    /\ r.port # 0 => r.open = {r.port}
    /\ r.writers \subseteq {r.task}
    /\ r.connected => r.port # 0 /\ r.task \in r.writers

\* What runs on the link, by the await of the one who is at work.
Rests(r) ==
    IF r.conn = "connected" THEN r.port # 0 /\ r.pump = "runs" /\ r.worker = "runs"
    ELSE r.port = 0 /\ r.pump = "none" /\ r.worker = "none"

At(stage, r) ==
    /\ stage = "rest" => Rests(r)
    /\ stage = "worker" => r.port # 0 /\ r.pump = "runs" /\ r.worker = "cancelled"
    /\ stage = "pump" => r.port # 0 /\ r.pump = "cancelled" /\ r.worker = "none"
    /\ stage = "writer" => /\ r.port # 0 /\ r.pump = "none" /\ r.worker = "none"
                           /\ ~r.connected /\ r.writers = {}
    /\ stage \in {"closing", "opening"} => r.port = 0 /\ r.pump = "none" /\ r.worker = "none"

Stage ==
    IF pc["watchdog"] \in AtWork THEN pc["watchdog"]
    ELSE IF pc["user"] \in AtWork THEN pc["user"] ELSE "rest"

\* The user and the watchdog are not at work at once.
Alone ==
    /\ pc["watchdog"] \in AtWork => pc["user"] \in {"idle", "joining"} /\ radio.conn # "connected"
    /\ pc["user"] \in {"worker", "pump"} => pc["watchdog"] = "none"

Orderly == Shape(radio) /\ At(Stage, radio) /\ Alone

SInv == SerialTypeOK /\ (doubled \/ frozen \/ Orderly)

\* The part of the types that the operations change.
Typed ==
    /\ radio \in Radios
    /\ pc \in [Actors -> Places]
    /\ pc["user"] \notin {"none", "sleep"} /\ pc["watchdog"] \notin {"idle", "joining"}
    /\ doing \in {"nothing", "connect", "reconnect", "disconnect"}

Operations == {"nothing", "connect", "reconnect", "disconnect"}

-----------------------------------------------------------------------------
(* Types.                                                                  *)

\* An operation that suspends leaves the types as they are.
LEMMA SuspendsTypes ==
    ASSUME Typed, NEW a \in Actors, NEW o \in Operations, NEW await \in AtWork, NEW r \in Radios,
           Suspends(a, o, await, r)
    PROVE  Typed'
BY DEF Typed, Actors, Operations, AtWork, Places, Suspends

\* So does one that ends.
LEMMA EndsTypes ==
    ASSUME Typed, NEW a \in Actors, NEW r \in Radios, Ends(a, r)
    PROVE  Typed'
BY DEF Typed, Actors, Places, Ends, Suspends

\* So does one that has connected.
LEMMA ConnectedTypes ==
    ASSUME Typed, NEW a \in Actors, NEW o \in Operations, NEW r \in Radios, Connected(a, o, r)
    PROVE  Typed'
<1>1. StartedTask(r.pump) \in Tasks /\ StartedTask(r.worker) \in Tasks
    BY DEF Radios, Tasks, StartedTask
<1>2. radio' \in Radios
    BY <1>1 DEF Radios, Connected
<1>3. pc' \in [Actors -> Places] /\ pc'["user"] \notin {"none", "sleep"} /\ pc'["watchdog"] \notin {"idle", "joining"}
    BY DEF Typed, Actors, Places, Connected
<1>4. doing' \in {"nothing", "connect", "reconnect", "disconnect"}
    BY DEF Typed, Connected
<1> QED BY <1>2, <1>3, <1>4 DEF Typed

\* What each part of an operation makes of the types, the innermost first.
LEMMA OpensTypes ==
    ASSUME Typed, NEW a \in Actors, NEW o \in Operations, NEW r \in Radios, Opens(a, o, r)
    PROVE  Typed'
<1>1. [r EXCEPT !.shim = FALSE] \in Radios
    BY DEF Radios
<1>2. CASE SessionUp(r) \/ r.connected
    BY <1>2, ConnectedTypes DEF Opens
<1>3. CASE ~(SessionUp(r) \/ r.connected)
    BY <1>1, <1>3, SuspendsTypes DEF Opens, AtWork
<1> QED BY <1>2, <1>3

LEMMA ClosedTypes ==
    ASSUME Typed, NEW a \in Actors, NEW o \in Operations, NEW r \in Radios, Closed(a, o, r)
    PROVE  Typed'
<1>1. [r EXCEPT !.shim = FALSE] \in Radios
    BY DEF Radios
<1>2. [r EXCEPT !.shim = FALSE, !.conn = "disconnected", !.civ = FALSE] \in Radios
    BY DEF Radios
<1>3. CASE o = "disconnect"
    BY <1>2, <1>3, EndsTypes DEF Closed
<1>4. CASE o # "disconnect"
    BY <1>1, <1>4, OpensTypes DEF Closed
<1> QED BY <1>3, <1>4

LEMMA ClosesPortTypes ==
    ASSUME Typed, NEW a \in Actors, NEW o \in Operations, NEW r \in Radios, ClosesPort(a, o, r)
    PROVE  Typed'
<1>0. r.open \ {r.port} \in SUBSET (1..MaxOpens) /\ 0 \in 0..MaxOpens
    BY SerialBounds DEF Radios
<1>1. [r EXCEPT !.open = @ \ {r.port}, !.port = 0] \in Radios
    BY <1>0 DEF Radios
<1>2. CASE r.port = 0
    BY <1>2, ClosedTypes DEF ClosesPort
<1>3. CASE r.port # 0
    BY <1>1, <1>3, SuspendsTypes DEF ClosesPort, AtWork
<1> QED BY <1>2, <1>3

LEMMA ClosesTypes ==
    ASSUME Typed, NEW a \in Actors, NEW o \in Operations, NEW r \in Radios, Closes(a, o, r)
    PROVE  Typed'
<1> DEFINE down == [r EXCEPT !.connected = FALSE, !.healthy = FALSE]
<1>1. down \in Radios
    BY DEF Radios
<1>0. r.writers \ {r.task} \in SUBSET (1..MaxOpens) /\ 0 \in 0..MaxOpens
    BY SerialBounds DEF Radios
<1>2. [down EXCEPT !.writers = @ \ {r.task}] \in Radios
    BY <1>0 DEF Radios
<1>3. [down EXCEPT !.task = 0] \in Radios
    BY <1>0 DEF Radios
<1>4. CASE ~r.connected /\ r.port = 0
    BY <1>1, <1>4, ClosedTypes DEF Closes
<1>5. CASE ~(~r.connected /\ r.port = 0) /\ r.task \in r.writers
    BY <1>2, <1>5, SuspendsTypes DEF Closes, AtWork
<1>6. CASE ~(~r.connected /\ r.port = 0) /\ r.task \notin r.writers
    BY <1>3, <1>6, ClosesPortTypes DEF Closes
<1> QED BY <1>4, <1>5, <1>6

LEMMA StopsPumpTypes ==
    ASSUME Typed, NEW a \in Actors, NEW o \in Operations, NEW r \in Radios, StopsPump(a, o, r)
    PROVE  Typed'
<1>1. [r EXCEPT !.pump = "cancelled"] \in Radios
    BY DEF Radios, Tasks
<1>2. CASE r.pump = "none"
    BY <1>2, ClosesTypes DEF StopsPump
<1>3. CASE r.pump # "none"
    BY <1>1, <1>3, SuspendsTypes DEF StopsPump, AtWork
<1> QED BY <1>2, <1>3

LEMMA StopsAllTypes ==
    ASSUME Typed, NEW a \in Actors, NEW o \in Operations, NEW r \in Radios, StopsAll(a, o, r)
    PROVE  Typed'
<1>1. [r EXCEPT !.worker = "cancelled"] \in Radios
    BY DEF Radios, Tasks
<1>2. CASE r.worker = "none"
    BY <1>2, StopsPumpTypes DEF StopsAll
<1>3. CASE r.worker # "none"
    BY <1>1, <1>3, SuspendsTypes DEF StopsAll, AtWork
<1> QED BY <1>2, <1>3

LEMMA SoftReconnectTypes ==
    ASSUME Typed, NEW a \in Actors, SoftReconnect(a)
    PROVE  Typed'
<1>1. radio \in Radios /\ [radio EXCEPT !.conn = "reconnecting"] \in Radios
    BY DEF Typed, Radios
<1>2. CASE LinkReady(radio) /\ radio.civ
    BY <1>1, <1>2, EndsTypes DEF SoftReconnect
<1>3. CASE ~(LinkReady(radio) /\ radio.civ)
    BY <1>1, <1>3, StopsAllTypes DEF SoftReconnect, Operations
<1> QED BY <1>2, <1>3

LEMMA TearsDownTypes ==
    ASSUME Typed, TearsDown
    PROVE  Typed'
<1>1. [radio EXCEPT !.conn = "disconnected"] \in Radios
    BY DEF Typed, Radios
<1>2. [radio EXCEPT !.conn = IF @ = "connected" THEN "disconnecting" ELSE @] \in Radios
    BY DEF Typed, Radios
<1>3. CASE radio.conn # "connected" /\ ~SessionUp(radio)
    BY <1>1, <1>3, EndsTypes DEF TearsDown, Actors
<1>4. CASE ~(radio.conn # "connected" /\ ~SessionUp(radio))
    BY <1>2, <1>4, StopsAllTypes DEF TearsDown, Operations, Actors
<1> QED BY <1>3, <1>4

LEMMA GoesOnTypes ==
    ASSUME Typed, NEW a \in Actors, GoesOn(a)
    PROVE  Typed'
<1> DEFINE o == OperationOf(a)
<1>0. o \in Operations /\ radio \in Radios
    BY DEF Typed, OperationOf, Operations
<1>1. CASE WorkerStopped(a)
    <2>1. [radio EXCEPT !.worker = Joined(@)] \in Radios
        BY <1>0 DEF Radios, Tasks, Joined
    <2> QED BY <1>0, <1>1, <2>1, StopsPumpTypes DEF WorkerStopped
<1>2. CASE PumpStopped(a)
    <2>1. [radio EXCEPT !.pump = Joined(@)] \in Radios
        BY <1>0 DEF Radios, Tasks, Joined
    <2> QED BY <1>0, <1>2, <2>1, ClosesTypes DEF PumpStopped
<1>3. CASE WriterStopped(a)
    <2>1. [radio EXCEPT !.task = 0] \in Radios
        BY <1>0, SerialBounds DEF Radios
    <2> QED BY <1>0, <1>3, <2>1, ClosesPortTypes DEF WriterStopped
<1>4. CASE PortClosed(a)
    BY <1>0, <1>4, ClosedTypes DEF PortClosed
<1>5. CASE Opened(a)
    <2> DEFINE n == radio.made + 1
               r == [radio EXCEPT !.made = n, !.open = @ \cup {n}, !.port = n, !.alive = TRUE, !.task = n,
                                  !.writers = @ \cup {n}, !.connected = TRUE, !.healthy = TRUE]
    <2>1. n \in 1..MaxOpens
        BY <1>0, <1>5, SerialBounds DEF Opened, Radios
    <2>2. /\ n \in 0..MaxOpens
          /\ radio.open \cup {n} \in SUBSET (1..MaxOpens)
          /\ radio.writers \cup {n} \in SUBSET (1..MaxOpens)
        BY <1>0, <2>1, SerialBounds DEF Radios
    <2>4. r \in Radios
        BY <1>0, <2>2 DEF Radios
    <2>3. Connected(a, o, r)
        BY <1>5 DEF Opened
    <2> QED BY <1>0, <2>4, <2>3, ConnectedTypes
<1>6. CASE OpenFails(a)
    <2>1. /\ [radio EXCEPT !.conn = "disconnected"] \in Radios
          /\ [radio EXCEPT !.conn = "reconnecting"] \in Radios
          /\ [radio EXCEPT !.conn = "connecting"] \in Radios
        BY <1>0 DEF Radios
    <2>2. CASE o = "connect"
        BY <1>6, <2>1, <2>2, EndsTypes DEF OpenFails
    <2>3. CASE o # "connect" /\ a = "watchdog"
        BY <1>6, <2>1, <2>3, EndsTypes DEF OpenFails
    <2>4. CASE o # "connect" /\ a # "watchdog"
        BY <1>6, <2>1, <2>4, OpensTypes DEF OpenFails, Operations
    <2> QED BY <2>2, <2>3, <2>4
<1>7. CASE a = "user" /\ WatchdogEnded
    BY <1>7, TearsDownTypes DEF WatchdogEnded
<1> QED BY <1>1, <1>2, <1>3, <1>4, <1>5, <1>6, <1>7 DEF GoesOn

\* A radio that has not connected has nothing open.
LEMMA SerialInitially == SerialInit => SInv
<1> SUFFICES ASSUME SerialInit PROVE SInv
    OBVIOUS
<1>1. radio \in Radios
    BY SerialBounds DEF SerialInit, Radios, Tasks
<1>2. SerialTypeOK
    <2>1. pc \in [Actors -> Places] /\ pc["user"] = "idle" /\ pc["watchdog"] = "none"
        BY DEF SerialInit, Actors, Places
    <2>2. 0 \in 0..MaxCalls /\ 0 \in 0..MaxFaults
        BY SerialBounds
    <2> QED BY <1>1, <2>1, <2>2 DEF SerialInit, SerialTypeOK
<1>3. Stage = "rest"
    BY DEF SerialInit, Stage, AtWork, Actors
<1>4. Orderly
    BY <1>3 DEF SerialInit, Orderly, Shape, At, Rests, Alone, AtWork, Actors
<1> QED BY <1>2, <1>4 DEF SInv

\* A step leaves the types as they are.
LEMMA SerialTypesKept ==
    ASSUME SerialTypeOK, [SerialNext]_serialAll
    PROVE  SerialTypeOK'
<1>0. Typed
    BY DEF SerialTypeOK, Typed
<1> DEFINE Rest == /\ present' \in BOOLEAN /\ frozen' \in BOOLEAN /\ doubled' \in BOOLEAN
                   /\ calls' \in 0..MaxCalls /\ faults' \in 0..MaxFaults
<1>1. SUFFICES Typed' /\ Rest
    BY DEF Typed, SerialTypeOK
<1>2. ASSUME NEW a \in Actors, GoesOn(a) PROVE Typed' /\ Rest
    <2>1. Typed'
        BY <1>0, <1>2, GoesOnTypes
    <2>2. Rest
        BY <1>2 DEF GoesOn, SerialTypeOK
    <2> QED BY <2>1, <2>2
<1>3. ASSUME Calls PROVE calls' \in 0..MaxCalls /\ UNCHANGED <<present, frozen, faults>>
    BY <1>3, SerialBounds DEF Calls, SerialTypeOK
<1>4. CASE UserConnects
    <2>1. [radio EXCEPT !.conn = "connecting"] \in Radios
        BY <1>0 DEF Typed, Radios
    <2>2. Typed'
        BY <1>0, <1>4, <2>1, OpensTypes DEF UserConnects, Actors, Operations
    <2>3. doubled' \in BOOLEAN
        BY <1>4 DEF UserConnects, SerialTypeOK, Doubles
    <2> QED BY <1>3, <1>4, <2>2, <2>3 DEF UserConnects, SerialTypeOK
<1>5. CASE UserReconnects
    <2>1. Typed'
        BY <1>0, <1>5, SoftReconnectTypes DEF UserReconnects, Actors
    <2>2. doubled' \in BOOLEAN
        BY <1>5 DEF UserReconnects, SerialTypeOK, Doubles
    <2> QED BY <1>3, <1>5, <2>1, <2>2 DEF UserReconnects, SerialTypeOK
<1>6. CASE UserDisconnects
    <2>1. ASSUME pc["watchdog"] = "none" PROVE Typed'
        BY <1>0, <1>6, <2>1, TearsDownTypes DEF UserDisconnects
    <2>2. ASSUME pc["watchdog"] # "none" PROVE Typed'
        BY <1>0, <1>6, <2>2 DEF UserDisconnects, Typed, Actors, Places, Cancellable
    <2>3. Typed'
        BY <2>1, <2>2
    <2> QED BY <1>3, <1>6, <2>3 DEF UserDisconnects, SerialTypeOK
<1>7. CASE WatchdogLooks
    <2>1. ASSUME LinkReady(radio) PROVE Typed'
        <3>1. [radio EXCEPT !.conn = "connected"] \in Radios
            BY <1>0 DEF Typed, Radios
        <3> QED BY <1>0, <1>7, <2>1, <3>1 DEF WatchdogLooks, Typed
    <2>2. ASSUME ~LinkReady(radio) PROVE Typed'
        BY <1>0, <1>7, <2>2, SoftReconnectTypes DEF WatchdogLooks, Actors
    <2>3. doubled' \in BOOLEAN
        BY <1>7 DEF WatchdogLooks, SerialTypeOK
    <2> QED BY <1>7, <2>1, <2>2, <2>3 DEF WatchdogLooks, SerialTypeOK
<1>8. CASE Serves
    BY <1>0, <1>8 DEF Serves, Typed, Radios, SerialTypeOK
<1>9. CASE PumpSpins
    BY <1>0, <1>9 DEF PumpSpins, Typed, Radios, SerialTypeOK
<1>10. CASE Plugged
    BY <1>0, <1>10 DEF Plugged, Typed, SerialTypeOK
<1>11. ASSUME NEW kind \in Faults, Trouble(kind) PROVE Typed' /\ Rest
    <2>0. radio.writers \ {radio.task} \in SUBSET (1..MaxOpens)
        BY <1>0 DEF Typed, Radios
    <2>1. radio' \in Radios /\ present' \in BOOLEAN /\ frozen' \in BOOLEAN
        <3>1. /\ [radio EXCEPT !.healthy = FALSE] \in Radios
              /\ [radio EXCEPT !.alive = FALSE] \in Radios
              /\ [radio EXCEPT !.connected = FALSE, !.healthy = FALSE] \in Radios
              /\ [radio EXCEPT !.connected = FALSE, !.healthy = FALSE, !.writers = @ \ {radio.task}] \in Radios
            BY <1>0, <2>0 DEF Typed, Radios
        <3>2. kind \in {"glitch", "unplugged", "eof", "writer"}
            BY <1>11, SerialFaults
        <3> QED BY <1>11, <3>1, <3>2 DEF Trouble, SerialTypeOK
    <2>2. faults' \in 0..MaxFaults
        BY <1>11, SerialBounds DEF Trouble, SerialTypeOK
    <2> QED BY <1>0, <1>11, <2>1, <2>2 DEF Trouble, Typed, SerialTypeOK
<1>12. CASE UNCHANGED serialAll
    BY <1>0, <1>12 DEF serialAll, Typed, SerialTypeOK
<1> QED BY <1>2, <1>4, <1>5, <1>6, <1>7, <1>8, <1>9, <1>10, <1>11, <1>12 DEF SerialNext

-----------------------------------------------------------------------------
(* What an operation that goes on leaves behind.                           *)

\* Actor a is at the await p, or done.
MovesTo(a, p, r) ==
    /\ Shape(radio') /\ At(p, radio') /\ radio'.conn = r.conn
    /\ pc' = [pc EXCEPT ![a] = p]

Leaves(a) ==
    /\ Shape(radio') /\ Rests(radio')
    /\ pc' = [pc EXCEPT ![a] = IF a = "user" THEN "idle" ELSE "sleep"]

Later == {"writer", "closing", "opening"}
Advances(a, r) == Leaves(a) \/ \E p \in Later : MovesTo(a, p, r)

Vacant(r) == r.port = 0 /\ r.pump = "none" /\ r.worker = "none"

\* With everything down, connect() of the session awaits the port.
LEMMA OpensOrder ==
    ASSUME NEW a \in Actors, NEW o \in Operations, NEW r \in Radios, Shape(r), Vacant(r), Opens(a, o, r)
    PROVE  MovesTo(a, "opening", r)
BY DEF Opens, Shape, Vacant, SessionUp, Suspends, MovesTo, At, Radios

\* After its disconnect() the operation goes on to connect() or is done.
LEMMA ClosedOrder ==
    ASSUME NEW a \in Actors, NEW o \in Operations, NEW r \in Radios, Shape(r), Vacant(r), Closed(a, o, r)
    PROVE  Advances(a, r)
<1> DEFINE s == [r EXCEPT !.shim = FALSE]
<1>1. s \in Radios /\ Shape(s) /\ Vacant(s) /\ s.conn = r.conn
    BY DEF Radios, Shape, Vacant
<1>2. CASE o = "disconnect"
    <2> DEFINE t == [r EXCEPT !.shim = FALSE, !.conn = "disconnected", !.civ = FALSE]
    <2>1. Shape(t) /\ Rests(t)
        BY DEF Radios, Shape, Vacant, Rests
    <2>2. radio' = t /\ pc' = [pc EXCEPT ![a] = IF a = "user" THEN "idle" ELSE "sleep"]
        BY <1>2 DEF Closed, Ends, Suspends
    <2> QED BY <2>1, <2>2 DEF Advances, Leaves
<1>3. CASE o # "disconnect"
    <2>1. MovesTo(a, "opening", s)
        BY <1>1, <1>3, OpensOrder DEF Closed
    <2> QED BY <1>1, <2>1 DEF MovesTo, Advances, Later
<1> QED BY <1>2, <1>3

\* disconnect() of the session and the link, after which the port is closed.
LEMMA ClosesPortOrder ==
    ASSUME NEW a \in Actors, NEW o \in Operations, NEW r \in Radios, ClosesPort(a, o, r), Shape(r),
           r.pump = "none", r.worker = "none", r.writers = {}, ~r.connected
    PROVE  Advances(a, r)
<1>1. CASE r.port = 0
    BY <1>1, ClosedOrder DEF ClosesPort, Vacant
<1>2. CASE r.port # 0
    <2> DEFINE t == [r EXCEPT !.open = @ \ {r.port}, !.port = 0]
    <2>0. Shape(t) /\ At("closing", t) /\ t.conn = r.conn
        BY <1>2 DEF Shape, At, Radios
    <2>1. MovesTo(a, "closing", r)
        BY <1>2, <2>0 DEF ClosesPort, Suspends, MovesTo
    <2> QED BY <2>1 DEF Advances, Later
<1> QED BY <1>1, <1>2

LEMMA ClosesOrder ==
    ASSUME NEW a \in Actors, NEW o \in Operations, NEW r \in Radios, Closes(a, o, r), Shape(r),
           r.pump = "none", r.worker = "none"
    PROVE  Advances(a, r)
<1> DEFINE down == [r EXCEPT !.connected = FALSE, !.healthy = FALSE]
           bare == [down EXCEPT !.task = 0]
<1>0. down \in Radios /\ Shape(down) /\ down.conn = r.conn
    BY DEF Radios, Shape
<1>1. CASE ~r.connected /\ r.port = 0
    <2>1. Advances(a, down)
        BY <1>0, <1>1, ClosedOrder DEF Closes, Vacant, Radios
    <2> QED BY <1>0, <2>1 DEF Advances, MovesTo
<1>2. CASE ~(~r.connected /\ r.port = 0) /\ r.task \in r.writers
    <2> DEFINE t == [down EXCEPT !.writers = @ \ {r.task}]
    <2>0. Shape(t) /\ At("writer", t) /\ t.conn = r.conn
        BY <1>2 DEF Shape, At, Radios
    <2>1. MovesTo(a, "writer", r)
        BY <1>2, <2>0 DEF Closes, Suspends, MovesTo
    <2> QED BY <2>1 DEF Advances, Later
<1>3. CASE ~(~r.connected /\ r.port = 0) /\ r.task \notin r.writers
    <2>0. 0 \in 0..MaxOpens
        BY SerialBounds
    <2>1. bare \in Radios
        BY <2>0 DEF Radios
    <2>2. Shape(bare) /\ bare.writers = {} /\ ~bare.connected /\ bare.conn = r.conn
          /\ bare.pump = "none" /\ bare.worker = "none"
        BY <1>3 DEF Shape, Radios
    <2>3. Advances(a, bare)
        BY <1>3, <2>1, <2>2, ClosesPortOrder DEF Closes
    <2> QED BY <2>2, <2>3 DEF Advances, MovesTo
<1> QED BY <1>1, <1>2, <1>3

\* Of a radio that rests, the worker is stopped first, if there is one.
LEMMA StopsAllOrder ==
    ASSUME NEW a \in Actors, NEW o \in Operations, NEW r \in Radios, StopsAll(a, o, r), Shape(r)
    PROVE  /\ r.port # 0 /\ r.pump = "runs" /\ r.worker = "runs" => MovesTo(a, "worker", r)
           /\ Vacant(r) => Advances(a, r)
<1>1. ASSUME r.port # 0 /\ r.pump = "runs" /\ r.worker = "runs" PROVE MovesTo(a, "worker", r)
    BY <1>1 DEF StopsAll, Suspends, MovesTo, Shape, At, Radios
<1>2. ASSUME Vacant(r) PROVE Advances(a, r)
    BY <1>2, ClosesOrder DEF StopsAll, StopsPump, Vacant
<1> QED BY <1>1, <1>2

\* The other rests while one is at work.
Other(a) ==
    /\ a = "watchdog" => pc["user"] \in {"idle", "joining"}
    /\ a = "user" => pc["watchdog"] \in {"none", "sleep"}

\* An actor that goes to work, or on to its next await.
LEMMA Placed ==
    ASSUME Typed, Typed', NEW a \in Actors, NEW p \in AtWork, NEW r, MovesTo(a, p, r), Other(a),
           a = "watchdog" => r.conn # "connected",
           a = "user" /\ p \in {"worker", "pump"} => pc["watchdog"] = "none"
    PROVE  Orderly'
<1>1. CASE a = "user"
    <2>1. pc'["user"] = p /\ pc'["watchdog"] = pc["watchdog"] /\ pc["watchdog"] \in {"none", "sleep"}
        BY <1>1 DEF MovesTo, Other, Typed, Actors
    <2>2. Stage' = p
        BY <2>1 DEF Stage, AtWork
    <2> QED BY <1>1, <2>1, <2>2 DEF MovesTo, Orderly, Alone, AtWork
<1>2. CASE a = "watchdog"
    <2>1. pc'["watchdog"] = p /\ pc'["user"] = pc["user"] /\ pc["user"] \in {"idle", "joining"}
        BY <1>2 DEF MovesTo, Other, Typed, Actors
    <2>2. Stage' = p
        BY <2>1 DEF Stage
    <2> QED BY <1>2, <2>1, <2>2 DEF MovesTo, Orderly, Alone
<1> QED BY <1>1, <1>2 DEF Actors

\* An actor that has done its work.
LEMMA Left ==
    ASSUME Typed, Typed', NEW a \in Actors, Leaves(a), Other(a)
    PROVE  Orderly'
<1>1. pc'["user"] \in {"idle", "joining"} /\ pc'["watchdog"] \in {"none", "sleep"}
    BY DEF Leaves, Other, Typed, Actors
<1>2. Stage' = "rest"
    BY <1>1 DEF Stage, AtWork
<1> QED BY <1>1, <1>2 DEF Leaves, Orderly, Alone, At, AtWork

\* Either of the two.
LEMMA Advanced ==
    ASSUME Typed, Typed', NEW a \in Actors, NEW r, Advances(a, r), Other(a), a = "watchdog" => r.conn # "connected"
    PROVE  Orderly'
<1>1. CASE Leaves(a)
    BY <1>1, Left
<1>2. ASSUME NEW p \in Later, MovesTo(a, p, r) PROVE Orderly'
    BY <1>2, Placed DEF Later, AtWork
<1> QED BY <1>1, <1>2 DEF Advances

-----------------------------------------------------------------------------
(* One lemma per action.                                                   *)

\* The one who is at work, its stage, and the other.
LEMMA AtWorkAlone ==
    ASSUME Typed, Orderly, NEW a \in Actors, pc[a] \in AtWork
    PROVE  /\ Other(a) /\ At(pc[a], radio)
           /\ a = "watchdog" => radio.conn # "connected"
           /\ a = "user" /\ pc[a] \in {"worker", "pump"} => pc["watchdog"] = "none"
<1>1. CASE a = "user"
    <2>1. pc["watchdog"] \notin AtWork
        BY <1>1 DEF Orderly, Alone, AtWork
    <2>2. pc["watchdog"] \in {"none", "sleep"}
        BY <2>1 DEF Typed, Actors, Places, AtWork
    <2>3. Stage = pc[a]
        BY <1>1, <2>1 DEF Stage
    <2> QED BY <1>1, <2>2, <2>3 DEF Orderly, Alone, Other
<1>2. CASE a = "watchdog"
    <2>1. Stage = pc[a]
        BY <1>2 DEF Stage
    <2> QED BY <1>2, <2>1 DEF Orderly, Alone, Other
<1> QED BY <1>1, <1>2 DEF Actors

\* Nobody is at work.
LEMMA NobodyAtWork ==
    ASSUME Typed, Orderly, pc["user"] \in {"idle", "joining"}, pc["watchdog"] \in {"none", "sleep"}
    PROVE  Rests(radio)
BY DEF Orderly, Stage, AtWork, At

\* soft_reconnect() begins with nothing running,
LEMMA SoftReconnectOrder ==
    ASSUME Typed, Typed', Orderly, NEW a \in Actors, SoftReconnect(a), a = "user" => radio.port = 0,
           pc["user"] \in {"idle", "joining"}, pc["watchdog"] \in {"none", "sleep"}
    PROVE  Orderly'
<1> DEFINE r == [radio EXCEPT !.conn = "reconnecting"]
<1>1. Rests(radio) /\ Shape(radio) /\ Other(a)
    BY NobodyAtWork DEF Orderly, Other
<1>2. r \in Radios /\ Shape(r) /\ r.conn = "reconnecting"
    BY <1>1 DEF Typed, Radios, Shape
<1>3. CASE LinkReady(radio) /\ radio.civ
    <2>1. Leaves(a)
        BY <1>1, <1>3 DEF SoftReconnect, Ends, Suspends, Leaves
    <2> QED BY <1>1, <2>1, Left
<1>4. CASE ~(LinkReady(radio) /\ radio.civ)
    <2>1. StopsAll(a, "reconnect", r) /\ "reconnect" \in Operations
        BY <1>4 DEF SoftReconnect, Operations
    <2>2. CASE radio.conn = "connected"
        <3>1. r.port # 0 /\ r.pump = "runs" /\ r.worker = "runs" /\ a = "watchdog"
            BY <1>1, <2>2 DEF Rests, Typed, Radios, Actors
        <3>2. MovesTo(a, "worker", r)
            BY <1>2, <2>1, <3>1, StopsAllOrder
        <3> QED BY <1>1, <1>2, <3>1, <3>2, Placed DEF AtWork
    <2>3. CASE radio.conn # "connected"
        <3>1. Vacant(r)
            BY <1>1, <2>3 DEF Rests, Vacant, Typed, Radios
        <3>2. Advances(a, r)
            BY <1>2, <2>1, <3>1, StopsAllOrder
        <3> QED BY <1>1, <1>2, <3>2, Advanced
    <2> QED BY <2>2, <2>3
<1> QED BY <1>3, <1>4

\* disconnect() with everything that rests.
LEMMA TearsDownOrder ==
    ASSUME Typed, Typed', Orderly, TearsDown, pc["user"] \in {"idle", "joining"}, pc["watchdog"] = "none"
    PROVE  Orderly'
<1>1. Rests(radio) /\ Shape(radio) /\ Other("user") /\ "user" \in Actors
    BY NobodyAtWork DEF Orderly, Other, Actors
<1>2. CASE radio.conn # "connected" /\ ~SessionUp(radio)
    <2> DEFINE r == [radio EXCEPT !.conn = "disconnected"]
    <2>1. Shape(r) /\ Rests(r)
        BY <1>1, <1>2 DEF Shape, Rests, Typed, Radios
    <2>2. Leaves("user")
        BY <1>2, <2>1 DEF TearsDown, Ends, Suspends, Leaves
    <2> QED BY <1>1, <2>2, Left
<1>3. CASE ~(radio.conn # "connected" /\ ~SessionUp(radio))
    <2> DEFINE r == [radio EXCEPT !.conn = IF @ = "connected" THEN "disconnecting" ELSE @]
    <2>1. radio.conn = "connected"
        BY <1>1, <1>3 DEF Rests, Shape, SessionUp
    <2>2. /\ r \in Radios /\ Shape(r)
          /\ r.port # 0 /\ r.pump = "runs" /\ r.worker = "runs"
        BY <1>1, <2>1 DEF Rests, Shape, Typed, Radios
    <2>3. StopsAll("user", "disconnect", r) /\ "disconnect" \in Operations
        BY <1>3 DEF TearsDown, Operations
    <2>4. MovesTo("user", "worker", r)
        BY <1>1, <2>2, <2>3, StopsAllOrder
    <2> QED BY <1>1, <2>4, Placed DEF AtWork
<1> QED BY <1>2, <1>3

\* A connect() that works starts what a connected radio has.
LEMMA ConnectedOrder ==
    ASSUME Typed, Typed', NEW a \in Actors, NEW o \in Operations, NEW r \in Radios, Connected(a, o, r), Other(a),
           Shape(r), r.port # 0, r.pump = "none", r.worker = "none"
    PROVE  Orderly'
<1>1. Shape(radio') /\ Rests(radio')
    BY DEF Connected, StartedTask, Shape, Rests, Radios
<1>2. pc'["user"] \in {"idle", "joining"} /\ pc'["watchdog"] \in {"none", "sleep"}
    BY DEF Connected, Other, Typed, Actors
<1>3. Stage' = "rest"
    BY <1>2 DEF Stage, AtWork
<1> QED BY <1>1, <1>2, <1>3 DEF Orderly, Alone, At, AtWork

\* An operation goes on from each of its awaits.
LEMMA GoesOnOrder ==
    ASSUME Typed, Typed', Orderly, NEW a \in Actors, GoesOn(a)
    PROVE  Orderly'
<1> DEFINE o == OperationOf(a)
<1>0. o \in Operations /\ radio \in Radios /\ Shape(radio)
    BY DEF Typed, OperationOf, Operations, Orderly
<1>1. CASE WorkerStopped(a)
    <2> DEFINE r == [radio EXCEPT !.worker = Joined(@)]
    <2>1. pc[a] = "worker" /\ pc[a] \in AtWork /\ StopsPump(a, o, r)
        BY <1>1 DEF WorkerStopped, AtWork
    <2>2. Other(a) /\ (a = "watchdog" => radio.conn # "connected") /\ (a = "user" => pc["watchdog"] = "none")
        BY <2>1, AtWorkAlone
    <2>3. radio.port # 0 /\ radio.pump = "runs" /\ radio.worker = "cancelled"
        BY <2>1, AtWorkAlone DEF At
    <2>4. r.conn = radio.conn /\ r.pump = "runs"
        BY <1>0, <2>3 DEF Radios
    <2>5. radio' = [r EXCEPT !.pump = "cancelled"] /\ pc' = [pc EXCEPT ![a] = "pump"]
        BY <2>1, <2>4 DEF StopsPump, Suspends
    <2>6. Shape(radio') /\ At("pump", radio') /\ radio'.conn = r.conn
        BY <1>0, <2>3, <2>5 DEF Shape, At, Radios, Joined
    <2>7. MovesTo(a, "pump", r)
        BY <2>5, <2>6 DEF MovesTo
    <2> QED BY <2>2, <2>4, <2>7, Placed DEF AtWork
<1>2. CASE PumpStopped(a)
    <2> DEFINE r == [radio EXCEPT !.pump = Joined(@)]
    <2>1. pc[a] = "pump" /\ pc[a] \in AtWork /\ Closes(a, o, r)
        BY <1>2 DEF PumpStopped, AtWork
    <2>2. Other(a) /\ (a = "watchdog" => radio.conn # "connected")
        BY <2>1, AtWorkAlone
    <2>3. radio.pump = "cancelled" /\ radio.worker = "none"
        BY <2>1, AtWorkAlone DEF At
    <2>4. r \in Radios /\ Shape(r) /\ r.conn = radio.conn /\ r.pump = "none" /\ r.worker = "none"
        BY <1>0, <2>3 DEF Radios, Joined, Shape, Tasks
    <2>5. Advances(a, r)
        BY <1>0, <2>1, <2>4, ClosesOrder
    <2> QED BY <2>2, <2>4, <2>5, Advanced
<1>3. CASE WriterStopped(a)
    <2> DEFINE r == [radio EXCEPT !.task = 0]
    <2>1. pc[a] = "writer" /\ pc[a] \in AtWork /\ ClosesPort(a, o, r)
        BY <1>3 DEF WriterStopped, AtWork
    <2>2. Other(a) /\ (a = "watchdog" => radio.conn # "connected")
        BY <2>1, AtWorkAlone
    <2>3. radio.pump = "none" /\ radio.worker = "none" /\ ~radio.connected /\ radio.writers = {}
        BY <2>1, AtWorkAlone DEF At
    <2>0. 0 \in 0..MaxOpens
        BY SerialBounds
    <2>4. /\ r \in Radios /\ Shape(r) /\ r.conn = radio.conn
          /\ r.pump = "none" /\ r.worker = "none" /\ ~r.connected /\ r.writers = {}
        BY <1>0, <2>0, <2>3 DEF Radios, Shape
    <2>5. Advances(a, r)
        BY <1>0, <2>1, <2>4, ClosesPortOrder
    <2> QED BY <2>2, <2>4, <2>5, Advanced
<1>4. CASE PortClosed(a)
    <2>1. pc[a] = "closing" /\ pc[a] \in AtWork /\ Closed(a, o, radio)
        BY <1>4 DEF PortClosed, AtWork
    <2>2. Other(a) /\ (a = "watchdog" => radio.conn # "connected")
        BY <2>1, AtWorkAlone
    <2>3. Vacant(radio)
        BY <2>1, AtWorkAlone DEF At, Vacant
    <2>4. Advances(a, radio)
        BY <1>0, <2>1, <2>3, ClosedOrder
    <2> QED BY <2>2, <2>4, Advanced
<1>5. CASE Opened(a)
    <2> DEFINE n == radio.made + 1
               r == [radio EXCEPT !.made = n, !.open = @ \cup {n}, !.port = n, !.alive = TRUE, !.task = n,
                                  !.writers = @ \cup {n}, !.connected = TRUE, !.healthy = TRUE]
    <2>1. pc[a] = "opening" /\ pc[a] \in AtWork /\ Connected(a, o, r)
        BY <1>5 DEF Opened, AtWork
    <2>2. Other(a)
        BY <2>1, AtWorkAlone
    <2>3. radio.port = 0 /\ radio.pump = "none" /\ radio.worker = "none"
        BY <2>1, AtWorkAlone DEF At
    <2>4. n \in 1..MaxOpens
        BY <1>0, <1>5, SerialBounds DEF Opened, Radios
    <2>5. /\ n \in 0..MaxOpens /\ n # 0
          /\ radio.open \cup {n} \in SUBSET (1..MaxOpens)
          /\ radio.writers \cup {n} \in SUBSET (1..MaxOpens)
        BY <1>0, <2>4 DEF Radios
    <2>6. r \in Radios
        BY <1>0, <2>5 DEF Radios
    <2>7. Shape(r) /\ r.port # 0 /\ r.pump = "none" /\ r.worker = "none"
        BY <1>0, <2>3, <2>5 DEF Shape, Radios
    <2> QED BY <1>0, <2>1, <2>2, <2>6, <2>7, ConnectedOrder
<1>6. CASE OpenFails(a)
    <2>1. pc[a] = "opening" /\ pc[a] \in AtWork
        BY <1>6 DEF OpenFails, AtWork
    <2>2. Other(a) /\ Vacant(radio)
        BY <2>1, AtWorkAlone DEF At, Vacant
    <2>3. CASE o = "connect" \/ a = "watchdog"
        <3>1. PICK conn \in {"disconnected", "reconnecting"} : Ends(a, [radio EXCEPT !.conn = conn])
            BY <1>6, <2>3 DEF OpenFails
        <3>2. Shape([radio EXCEPT !.conn = conn]) /\ Rests([radio EXCEPT !.conn = conn])
            BY <1>0, <2>2 DEF Shape, Vacant, Rests, Radios
        <3>3. Leaves(a)
            BY <3>1, <3>2 DEF Ends, Suspends, Leaves
        <3> QED BY <2>2, <3>3, Left
    <2>4. CASE ~(o = "connect" \/ a = "watchdog")
        <3> DEFINE r == [radio EXCEPT !.conn = "connecting"]
        <3>1. Opens(a, "connect", r) /\ "connect" \in Operations /\ a = "user"
            BY <1>6, <2>4 DEF OpenFails, Operations, Actors
        <3>2. r \in Radios /\ Shape(r) /\ Vacant(r)
            BY <1>0, <2>2 DEF Radios, Shape, Vacant
        <3>3. MovesTo(a, "opening", r)
            BY <3>1, <3>2, OpensOrder
        <3> QED BY <2>2, <3>1, <3>3, Placed DEF AtWork
    <2> QED BY <2>3, <2>4
<1>7. CASE a = "user" /\ WatchdogEnded
    BY <1>7, TearsDownOrder DEF WatchdogEnded
<1> QED BY <1>1, <1>2, <1>3, <1>4, <1>5, <1>6, <1>7 DEF GoesOn

\* A radio whose stage and connection stay, and nothing else that At speaks of.
LEMMA LineKeepsOrder ==
    ASSUME Typed, Orderly, UNCHANGED pc, Shape(radio'), radio'.conn = radio.conn, radio'.port = radio.port,
           radio'.pump = radio.pump, radio'.worker = radio.worker,
           radio.connected = FALSE => radio'.connected = FALSE, radio.writers = {} => radio'.writers = {}
    PROVE  Orderly'
<1>1. Stage' = Stage /\ Alone'
    BY DEF Orderly, Stage, Alone
<1>2. At(Stage, radio')
    BY DEF Orderly, At, Rests, Typed, Radios
<1> QED BY <1>1, <1>2 DEF Orderly

\* The invariant is inductive.
LEMMA SerialStep == SInv /\ [SerialNext]_serialAll => SInv'
<1> SUFFICES ASSUME SInv, [SerialNext]_serialAll PROVE SInv'
    OBVIOUS
<1>0. SerialTypeOK /\ SerialTypeOK' /\ Typed /\ Typed'
    BY SerialTypesKept DEF SInv, SerialTypeOK, Typed
<1> SUFFICES ASSUME ~doubled', ~frozen' PROVE Orderly'
    BY <1>0 DEF SInv
<1>1. CASE SerialNext
    <2>1. ~frozen
        BY <1>1 DEF SerialNext
    <2>2. ASSUME NEW a \in Actors, GoesOn(a) PROVE Orderly'
        BY <1>0, <2>1, <2>2, GoesOnOrder DEF SInv, GoesOn
    <2>3. CASE UserConnects
        <3> DEFINE r == [radio EXCEPT !.conn = "connecting"]
        <3>1. ~doubled /\ ~Doubles /\ pc["user"] = "idle" /\ Opens("user", "connect", r)
            BY <2>3 DEF UserConnects, Calls
        <3>2. Orderly /\ radio.port = 0 /\ pc["watchdog"] \in {"none", "sleep"}
            BY <2>1, <3>1 DEF SInv, Doubles
        <3>3. Rests(radio) /\ Other("user")
            BY <1>0, <3>1, <3>2, NobodyAtWork DEF Other
        <3>4. r \in Radios /\ Shape(r) /\ Vacant(r)
            BY <1>0, <3>2, <3>3 DEF Orderly, Rests, Shape, Vacant, Typed, Radios
        <3>5. MovesTo("user", "opening", r)
            BY <3>1, <3>4, OpensOrder DEF Actors, Operations
        <3> QED BY <1>0, <3>3, <3>5, Placed DEF AtWork, Actors
    <2>4. CASE UserReconnects
        <3>1. ~doubled /\ ~Doubles /\ pc["user"] = "idle" /\ SoftReconnect("user")
            BY <2>4 DEF UserReconnects, Calls
        <3>2. Orderly /\ radio.port = 0 /\ pc["watchdog"] \in {"none", "sleep"}
            BY <2>1, <3>1 DEF SInv, Doubles
        <3> QED BY <1>0, <3>1, <3>2, SoftReconnectOrder DEF Actors
    <2>5. CASE UserDisconnects
        <3>1. Orderly /\ pc["user"] = "idle"
            BY <2>1, <2>5 DEF SInv, UserDisconnects, Calls
        <3>2. CASE pc["watchdog"] = "none"
            BY <1>0, <2>5, <3>1, <3>2, TearsDownOrder DEF UserDisconnects
        <3>3. CASE pc["watchdog"] # "none"
            <4>1. /\ pc'["user"] = "joining" /\ UNCHANGED radio
                  /\ pc'["watchdog"] = IF pc["watchdog"] \in Cancellable THEN "none" ELSE pc["watchdog"]
                BY <1>0, <2>5, <3>3 DEF UserDisconnects, Typed, Actors
            <4>2. CASE pc["watchdog"] \in {"closing", "opening"}
                <5>1. Vacant(radio) /\ radio.conn # "connected" /\ pc["watchdog"] \in AtWork
                    BY <1>0, <3>1, <4>2, AtWorkAlone DEF At, Vacant, AtWork, Actors
                <5>2. Stage' = "rest" /\ pc'["watchdog"] = "none"
                    BY <4>1, <4>2 DEF Stage, AtWork, Cancellable
                <5> QED BY <3>1, <4>1, <5>1, <5>2 DEF Orderly, At, Rests, Vacant, Alone, AtWork
            <4>3. CASE pc["watchdog"] = "sleep"
                <5>1. Stage = "rest" /\ Stage' = "rest" /\ pc'["watchdog"] = "none"
                    BY <3>1, <4>1, <4>3 DEF Stage, AtWork, Cancellable
                <5> QED BY <3>1, <4>1, <5>1 DEF Orderly, At, Alone, AtWork
            <4>4. CASE pc["watchdog"] \notin {"closing", "opening", "sleep"}
                <5>1. pc["watchdog"] \in AtWork /\ pc'["watchdog"] = pc["watchdog"]
                    BY <1>0, <3>3, <4>1, <4>4 DEF Typed, Actors, Places, AtWork, Cancellable
                <5>2. Stage' = Stage
                    BY <5>1 DEF Stage
                <5> QED BY <3>1, <4>1, <5>1, <5>2 DEF Orderly, Alone
            <4> QED BY <4>2, <4>3, <4>4
        <3> QED BY <3>2, <3>3
    <2>6. CASE WatchdogLooks
        <3>1. ~doubled /\ Orderly /\ pc["watchdog"] = "sleep"
            BY <2>1, <2>6 DEF SInv, WatchdogLooks
        <3>2. CASE pc["user"] \in {"idle", "joining"}
            <4>1. Rests(radio)
                BY <1>0, <3>1, <3>2, NobodyAtWork
            <4>2. CASE LinkReady(radio)
                <5>1. radio.conn = "connected"
                    BY <3>1, <4>1, <4>2 DEF Orderly, Shape, Rests, LinkReady, SessionUp
                <5>2. radio' = radio /\ UNCHANGED pc
                    BY <1>0, <2>6, <4>2, <5>1 DEF WatchdogLooks, Typed, Radios
                <5> QED BY <3>1, <5>2 DEF Orderly, Alone, Stage
            <4>3. CASE ~LinkReady(radio)
                BY <1>0, <2>6, <3>1, <3>2, <4>3, SoftReconnectOrder DEF WatchdogLooks, Actors
            <4> QED BY <4>2, <4>3
        <3>3. CASE pc["user"] \notin {"idle", "joining"}
            <4>1. LinkReady(radio) /\ pc["user"] \in AtWork
                BY <1>0, <2>6, <3>3 DEF WatchdogLooks, Typed, Actors, Places, AtWork
            <4>2. pc["user"] \notin {"worker", "pump"} /\ At(pc["user"], radio)
                BY <1>0, <3>1, <4>1, AtWorkAlone DEF Actors
            <4>3. ~radio.connected
                BY <3>1, <4>1, <4>2 DEF At, AtWork, Orderly, Shape
            <4> QED BY <4>1, <4>3 DEF LinkReady, SessionUp
        <3> QED BY <3>2, <3>3
    <2>7. CASE Serves
        BY <1>0, <2>1, <2>7, LineKeepsOrder DEF SInv, Serves, Typed, Radios, Orderly, Shape
    <2>8. CASE PumpSpins
        BY <2>8 DEF PumpSpins
    <2>9. CASE Plugged
        BY <2>1, <2>9 DEF Plugged, SInv, Orderly, Stage, Alone
    <2>10. ASSUME NEW kind \in Faults, Trouble(kind) PROVE Orderly'
        <3>1. Orderly /\ UNCHANGED pc
            BY <2>1, <2>10 DEF Trouble, SInv
        <3>2. kind \in {"glitch", "unplugged", "writer"}
            BY <2>10, SerialFaults DEF Trouble
        <3>3. CASE kind \in {"glitch", "unplugged"}
            <4>1. PICK h, l \in BOOLEAN : radio' = [radio EXCEPT !.healthy = h, !.alive = l]
                <5>1. CASE kind = "glitch"
                    <6>1. radio' = [radio EXCEPT !.healthy = FALSE]
                        BY <2>10, <5>1 DEF Trouble
                    <6>2. radio' = [radio EXCEPT !.healthy = FALSE, !.alive = radio.alive] /\ radio.alive \in BOOLEAN
                        BY <1>0, <6>1 DEF Typed, Radios
                    <6> QED BY <6>2
                <5>2. CASE kind = "unplugged"
                    <6>1. radio' = [radio EXCEPT !.alive = FALSE]
                        BY <2>10, <5>2 DEF Trouble
                    <6>2. radio' = [radio EXCEPT !.healthy = radio.healthy, !.alive = FALSE] /\ radio.healthy \in BOOLEAN
                        BY <1>0, <6>1 DEF Typed, Radios
                    <6> QED BY <6>2
                <5> QED BY <3>3, <5>1, <5>2
            <4> QED BY <1>0, <3>1, <4>1, LineKeepsOrder DEF Typed, Radios, Orderly, Shape
        <3>4. CASE kind = "writer"
            <4>1. radio' = [radio EXCEPT !.connected = FALSE, !.healthy = FALSE, !.writers = @ \ {radio.task}]
                BY <2>10, <3>4 DEF Trouble
            <4> QED BY <1>0, <3>1, <4>1, LineKeepsOrder DEF Typed, Radios, Orderly, Shape
        <3> QED BY <3>2, <3>3, <3>4
    <2> QED BY <1>1, <2>2, <2>3, <2>4, <2>5, <2>6, <2>7, <2>8, <2>9, <2>10 DEF SerialNext
<1>2. CASE UNCHANGED serialAll
    BY <1>2 DEF serialAll, SInv, Orderly, Stage, Alone
<1> QED BY <1>1, <1>2

-----------------------------------------------------------------------------
(* Theorems.                                                               *)

\* What is proved needs no fairness.
SerialSafety == SerialInit /\ [][SerialNext]_serialAll

\* The invariant holds of every behaviour, whatever befalls the line.
THEOREM SerialInvariance == SerialSafety => []SInv
<1>1. SerialInit => SInv
    BY SerialInitially
<1>2. SInv /\ [SerialNext]_serialAll => SInv'
    BY SerialStep
<1> QED BY <1>1, <1>2, PTL DEF SerialSafety

\* Types of the radio, the session, the link and those who use them.
THEOREM SerialTypeCorrect == SerialSafety => []SerialTypeOK
<1>1. SInv => SerialTypeOK
    BY DEF SInv
<1> QED BY <1>1, SerialInvariance, PTL

\* When the user and the watchdog rest, a radio that is connected has its one
\* port and everything that serves it, and any other has nothing open and
\* nothing running.
THEOREM NothingLeftOnTheLine == SerialSafety => []SerialClean
<1>1. SInv => SerialClean
    <2> SUFFICES ASSUME SInv, pc["user"] = "idle", pc["watchdog"] \in {"none", "sleep"}, ~doubled, ~frozen
                 PROVE  IF radio.conn = "connected"
                        THEN /\ radio.open = {radio.port} /\ radio.pump = "runs" /\ radio.worker = "runs"
                             /\ radio.connected => radio.writers = {radio.task}
                        ELSE radio.open = {} /\ radio.writers = {} /\ radio.pump = "none" /\ radio.worker = "none"
        BY DEF SerialClean
    <2>1. Orderly /\ Typed
        BY DEF SInv, SerialTypeOK, Typed
    <2>2. Rests(radio) /\ Shape(radio)
        BY <2>1, NobodyAtWork DEF Orderly
    <2> QED BY <2>2 DEF Rests, Shape
<1> QED BY <1>1, SerialInvariance, PTL

-----------------------------------------------------------------------------
(***************************************************************************)
(* Proofs about SerialFraming, for any bytes on the line, any sizes of the *)
(* chunks and any limit of a frame.                                        *)
(*                                                                         *)
(* Between two chunks the codec holds exactly what the byte-by-byte        *)
(* reading is in (FramingInv).  Within one, each pass of the loop works on *)
(* a rest of the bytes, and either the reading is outside a frame where    *)
(* that rest begins or it is inside, after the start the rest begins with  *)
(* (Looking): what a pass drops, the reading has left behind.              *)
(***************************************************************************)

(* Numbers and folds.                                                      *)

LessPairs == {p \in Nat \X Nat : p[1] < p[2]}

\* Every nonempty set of numbers has a least element.
LEMMA LeastNumber ==
    ASSUME NEW T \in SUBSET Nat, T # {}
    PROVE  \E m \in T : \A n \in T : m <= n
<1>1. IsWellFoundedOn(LessPairs, Nat)
  <2>1. LessPairs = OpToRel(<, Nat)
    BY DEF LessPairs, OpToRel
  <2>. QED
    BY <2>1, NatLessThanWellFounded
<1>2. PICK m \in T : \A n \in T : <<n, m>> \notin LessPairs
  BY <1>1, WFMin
<1>3. ASSUME NEW n \in T PROVE m <= n
  <2>1. <<n, m>> \in Nat \X Nat /\ <<n, m>>[1] = n /\ <<n, m>>[2] = m
    BY Zenon
  <2>2. ~ (n < m)
    BY <1>2, <2>1 DEF LessPairs
  <2>. QED
    BY <2>2
<1>. QED
  BY <1>3

\* A set of numbers that holds the first of a range and with each its successor
\* holds them all.
LEMMA Upward ==
    ASSUME NEW lo \in Nat, NEW hi \in Nat, NEW T,
           lo <= hi => lo \in T, \A k \in lo..(hi - 1) : k \in T => k + 1 \in T
    PROVE  \A k \in lo..hi : k \in T
<1>. DEFINE Wrong == {k \in lo..hi : k \notin T}
<1>1. SUFFICES ASSUME Wrong # {} PROVE FALSE
  OBVIOUS
<1>2. Wrong \in SUBSET Nat
  OBVIOUS
<1>3. PICK k \in Wrong : \A j \in Wrong : k <= j
  <2>. HIDE DEF Wrong
  <2>. QED
    BY <1>1, <1>2, LeastNumber
<1>4. k \in lo..hi /\ k \notin T
  OBVIOUS
<1>5. k # lo /\ k - 1 \in lo..hi /\ k - 1 \in lo..(hi - 1)
  BY <1>4
<1>6. k - 1 \in T
  BY <1>3, <1>5
<1>7. (k - 1) + 1 \in T
  BY <1>5, <1>6
<1>8. (k - 1) + 1 = k
  BY <1>4
<1>. QED
  BY <1>4, <1>7, <1>8

\* The largest of the first k numbers.
LEMMA LargestOf ==
    ASSUME NEW k \in Nat \ {0}, NEW s \in SUBSET (1..k), k \in s
    PROVE  Max(s) = k
<1>1. \A y \in s : y \in Nat /\ k >= y
  OBVIOUS
<1>2. \A x \in s : (\A y \in s : x >= y) => x = k
  BY <1>1
<1>. QED
  BY <1>1, <1>2 DEF Max

\* f says what the value is after the steps at each set of places.
Iterates(f, S, n, v, F) ==
    /\ f \in [SUBSET (1..n) -> S] /\ f[{}] = v
    /\ \A s \in SUBSET (1..n) : s # {} => Max(s) \in s /\ f[s] = F[<<f[s \ {Max(s)}], Max(s)>>]

\* There is one, for any step F.
LEMMA Iterable ==
    ASSUME NEW S, NEW n \in Nat, NEW v \in S, NEW F \in [S \X (1..n) -> S]
    PROVE  \E f : Iterates(f, S, n, v, F)
<1>. DEFINE T == {k \in 0..n : \E f : Iterates(f, S, k, v, F)}
<1>1. 0 \in T
  <2>. DEFINE f == [s \in SUBSET (1..0) |-> v]
  <2>1. \A s \in SUBSET (1..0) : s = {}
    OBVIOUS
  <2>2. Iterates(f, S, 0, v, F)
    BY <2>1 DEF Iterates
  <2>. QED
    BY <2>2
<1>2. ASSUME NEW j \in 0..(n - 1), j \in T PROVE j + 1 \in T
  <2>. DEFINE k == j + 1
  <2>1. k \in 1..n /\ k \in Nat \ {0} /\ k - 1 = j /\ j \in Nat /\ k = j + 1 /\ k \in 0..n
    OBVIOUS
  <2>2. PICK g : Iterates(g, S, j, v, F)
    BY <1>2
  <2>. DEFINE f == [s \in SUBSET (1..k) |-> IF k \in s THEN F[<<g[s \ {k}], k>>] ELSE g[s]]
  <2>. HIDE DEF k
  <2>3. ASSUME NEW s \in SUBSET (1..k), k \notin s
        PROVE  s \in SUBSET (1..j) /\ f[s] = g[s] /\ g[s] \in S
    <3>1. s \in SUBSET (1..j)
      BY <2>1, <2>3
    <3>2. f[s] = g[s]
      BY <2>3
    <3>. QED
      BY <2>2, <3>1, <3>2 DEF Iterates
  <2>4. ASSUME NEW s \in SUBSET (1..k), k \in s
        PROVE  /\ s # {} /\ Max(s) \in s /\ f[s] = F[<<f[s \ {Max(s)}], Max(s)>>] /\ f[s] \in S
    <3>1. Max(s) = k
      BY <2>1, <2>4, LargestOf
    <3>2. s \ {k} \in SUBSET (1..k) /\ k \notin s \ {k}
      OBVIOUS
    <3>3. f[s \ {k}] = g[s \ {k}] /\ g[s \ {k}] \in S
      BY <2>3, <3>2
    <3>4. f[s] = F[<<g[s \ {k}], k>>]
      BY <2>4
    <3>5. F[<<g[s \ {k}], k>>] \in S
      BY <2>1, <3>3
    <3>. QED
      BY <2>4, <3>1, <3>3, <3>4, <3>5
  <2>5. ASSUME NEW s \in SUBSET (1..k), k \notin s, s # {}
        PROVE  Max(s) \in s /\ f[s] = F[<<f[s \ {Max(s)}], Max(s)>>]
    <3>1. g[s] = F[<<g[s \ {Max(s)}], Max(s)>>] /\ Max(s) \in s
      BY <2>2, <2>3, <2>5 DEF Iterates
    <3>2. s \ {Max(s)} \in SUBSET (1..k) /\ k \notin s \ {Max(s)}
      BY <2>5
    <3>. QED
      BY <2>3, <2>5, <3>1, <3>2
  <2>6. f[{}] = v
    BY <2>2, <2>3 DEF Iterates
  <2>7. f \in [SUBSET (1..k) -> S]
    <3>1. \A s \in SUBSET (1..k) : f[s] \in S
      BY <2>3, <2>4
    <3>. QED
      BY <3>1
  <2>. HIDE DEF f
  <2>8. Iterates(f, S, k, v, F)
    BY <2>4, <2>5, <2>6, <2>7 DEF Iterates
  <2>. QED
    BY <2>1, <2>8
<1>3. n \in T
  <2>. HIDE DEF T
  <2>. QED
    BY <1>1, <1>2, Upward
<1>. QED
  BY <1>3

\* h is such an iteration as far as its values stay in S.
Iterating(h, S, n, v, F) ==
    /\ h[{}] = v
    /\ \A s \in SUBSET (1..n) :
          s # {} /\ h[s \ {Max(s)}] \in S /\ Max(s) \in s => h[s] = F[<<h[s \ {Max(s)}], Max(s)>>]

\* g is a sequence of n steps from v to w.
InTurn(g, S, n, v, F, w) ==
    /\ g \in [0..n -> S] /\ g[0] = v /\ g[n] = w
    /\ \A k \in 1..n : g[k] = F[<<g[k - 1], k>>]

\* The steps at the first places, one after the other.
LEMMA IteratesInTurn ==
    ASSUME NEW S, NEW n \in Nat, NEW v \in S, NEW F \in [S \X (1..n) -> S], NEW h, Iterating(h, S, n, v, F)
    PROVE  \E g : InTurn(g, S, n, v, F, h[1..n])
<1>. DEFINE g == [k \in 0..n |-> h[1..k]]
            T == {k \in 0..n : h[1..k] \in S}
<1>1. h[1..0] = v
  <2>1. 1..0 = {}
    OBVIOUS
  <2>. QED
    BY <2>1 DEF Iterating
<1>2. ASSUME NEW k \in 1..n, h[1..(k - 1)] \in S
      PROVE  h[1..k] = F[<<h[1..(k - 1)], k>>] /\ h[1..k] \in S
  <2>1. k \in Nat \ {0} /\ k \in 1..k /\ 1..k # {}
    OBVIOUS
  <2>2. 1..k \in SUBSET (1..n)
    <3>1. \A j \in 1..k : j \in 1..n
      OBVIOUS
    <3>. QED
      BY <3>1
  <2>3. Max(1..k) = k
    BY <2>1, LargestOf
  <2>4. (1..k) \ {k} = 1..(k - 1)
    BY <2>1
  <2>5. h[1..k] = F[<<h[1..(k - 1)], k>>]
    BY <1>2, <2>1, <2>2, <2>3, <2>4 DEF Iterating
  <2>6. <<h[1..(k - 1)], k>> \in S \X (1..n)
    BY <1>2
  <2>. QED
    BY <2>5, <2>6
<1>3. \A k \in 0..n : k \in T
  <2>1. 0 \in T
    BY <1>1
  <2>2. ASSUME NEW k \in 0..(n - 1), k \in T PROVE k + 1 \in T
    <3>1. k + 1 \in 1..n /\ (k + 1) - 1 = k
      OBVIOUS
    <3>2. h[1..(k + 1)] \in S
      BY <1>2, <2>2, <3>1
    <3>. QED
      BY <3>1, <3>2
  <2>. HIDE DEF T
  <2>. QED
    BY <2>1, <2>2, Upward
<1>4. g \in [0..n -> S]
  BY <1>3
<1>5. g[0] = v /\ g[n] = h[1..n]
  BY <1>1
<1>6. ASSUME NEW k \in 1..n PROVE g[k] = F[<<g[k - 1], k>>]
  <2>1. k - 1 \in 0..n /\ k \in 0..n
    OBVIOUS
  <2>2. h[1..(k - 1)] \in S
    BY <1>3, <2>1
  <2>. QED
    BY <1>2, <2>1, <2>2
<1>. QED
  BY <1>4, <1>5, <1>6 DEF InTurn

-----------------------------------------------------------------------------
(* The reference.                                                          *)

Frames == {f \in Seq(Bytes) : Len(f) \in 3..MaxFrame}

\* A body without an end, a collision or a start.
Clean(bytes) ==
    /\ \A j \in DOMAIN bytes : bytes[j] \notin {"FD", "FC"}
    /\ \A j \in 1..(Len(bytes) - 1) : ~ (bytes[j] = "FE" /\ bytes[j + 1] = "FE")

\* What the reference decoder may be in.
Reading ==
    {r \in [mode : {"outside", "half", "inside"}, body : Seq(Bytes), expected : Seq(Frames)] :
        Clean(r.body) /\ (r.mode # "inside" => r.body = <<>>)}

\* What Append does to a sequence.
LEMMA Appending ==
    ASSUME NEW A, NEW s \in Seq(A), NEW x \in A
    PROVE  /\ Append(s, x) \in Seq(A) /\ Len(Append(s, x)) = Len(s) + 1
           /\ \A i \in 1..Len(s) : Append(s, x)[i] = s[i]
           /\ Append(s, x)[Len(s) + 1] = x
  OBVIOUS

\* A frame of a body.
LEMMA Framed ==
    ASSUME NEW bytes \in Seq(Bytes), Len(bytes) + 3 <= MaxFrame
    PROVE  SOF \o bytes \o <<"FD">> \in Frames
<1>1. SOF \in Seq(Bytes) /\ <<"FD">> \in Seq(Bytes) /\ Len(SOF) = 2 /\ Len(<<"FD">>) = 1
  BY DEF SOF, Bytes
<1>2. SOF \o bytes \in Seq(Bytes) /\ Len(SOF \o bytes) = Len(SOF) + Len(bytes)
  BY <1>1, ConcatProperties, Zenon
<1>3. /\ SOF \o bytes \o <<"FD">> \in Seq(Bytes)
      /\ Len(SOF \o bytes \o <<"FD">>) = Len(SOF \o bytes) + Len(<<"FD">>)
  BY <1>1, <1>2, ConcatProperties, Zenon
<1>4. Len(bytes) \in Nat
  OBVIOUS
<1>5. (2 + Len(bytes)) + 1 \in 3..MaxFrame
  BY <1>4, FrameSizes
<1>. QED
  BY <1>1, <1>2, <1>3, <1>5 DEF Frames

\* Reading a byte leaves a frame under way that is clean.
LEMMA ReadStays ==
    ASSUME NEW r \in Reading, NEW byte \in Bytes
    PROVE  ReadByte(r, byte) \in Reading
<1>. DEFINE q == ReadByte(r, byte)
<1>1. /\ r.mode \in {"outside", "half", "inside"} /\ r.body \in Seq(Bytes) /\ r.expected \in Seq(Frames)
      /\ Clean(r.body) /\ (r.mode # "inside" => r.body = <<>>)
      /\ r = [mode |-> r.mode, body |-> r.body, expected |-> r.expected]
  BY DEF Reading
<1>2. Clean(<<>>) /\ <<>> \in Seq(Bytes)
  BY DEF Clean
<1>3. CASE r.mode = "outside"
  <2>1. q = [mode |-> IF byte = "FE" THEN "half" ELSE "outside", body |-> r.body, expected |-> r.expected]
    BY <1>1, <1>3 DEF ReadByte
  <2>. QED
    BY <1>1, <1>2, <1>3, <2>1 DEF Reading
<1>4. CASE r.mode = "half"
  <2>1. q = [mode |-> IF byte = "FE" THEN "inside" ELSE "outside", body |-> <<>>, expected |-> r.expected]
    BY <1>1, <1>4 DEF ReadByte
  <2>. QED
    BY <1>1, <1>2, <2>1 DEF Reading
<1>5. CASE r.mode = "inside" /\ byte = "FC"
  <2>1. q = [mode |-> "outside", body |-> <<>>, expected |-> r.expected]
    BY <1>1, <1>5 DEF ReadByte
  <2>. QED
    BY <1>1, <1>2, <2>1 DEF Reading
<1>6. CASE r.mode = "inside" /\ byte = "FD"
  <2>. DEFINE found == IF Len(r.body) + 3 > MaxFrame THEN r.expected
                       ELSE Append(r.expected, SOF \o r.body \o <<"FD">>)
  <2>1. q = [mode |-> "outside", body |-> <<>>, expected |-> found]
    BY <1>6 DEF ReadByte
  <2>2. found \in Seq(Frames)
    <3>1. CASE Len(r.body) + 3 > MaxFrame
      BY <1>1, <3>1
    <3>2. CASE ~ (Len(r.body) + 3 > MaxFrame)
      <4>. DEFINE frame == SOF \o r.body \o <<"FD">>
      <4>1. frame \in Frames
        BY <1>1, <3>2, Framed, FrameSizes
      <4>. HIDE DEF frame
      <4>2. Append(r.expected, frame) \in Seq(Frames)
        BY <1>1, <4>1, Appending
      <4>. QED
        BY <3>2, <4>2 DEF frame
    <3>. QED
      BY <3>1, <3>2
  <2>. HIDE DEF found
  <2>. QED
    BY <1>2, <2>1, <2>2 DEF Reading
<1>7. CASE r.mode = "inside" /\ byte = "FE" /\ r.body # <<>> /\ Last(r.body) = "FE"
  <2>1. q = [mode |-> "inside", body |-> <<>>, expected |-> r.expected]
    BY <1>1, <1>7 DEF ReadByte
  <2>. QED
    BY <1>1, <1>2, <2>1 DEF Reading
<1>8. CASE /\ r.mode = "inside" /\ byte \notin {"FC", "FD"}
           /\ ~ (byte = "FE" /\ r.body # <<>> /\ Last(r.body) = "FE")
  <2>. DEFINE more == Append(r.body, byte)
  <2>1. q = [mode |-> "inside", body |-> more, expected |-> r.expected]
    BY <1>1, <1>8 DEF ReadByte
  <2>2. /\ more \in Seq(Bytes) /\ Len(more) = Len(r.body) + 1
        /\ \A i \in 1..Len(r.body) : more[i] = r.body[i]
        /\ more[Len(r.body) + 1] = byte
    BY <1>1, Appending
  <2>3. \A j \in DOMAIN more : more[j] \notin {"FD", "FC"}
    BY <1>1, <1>8, <2>2 DEF Clean
  <2>4. ASSUME NEW j \in 1..(Len(more) - 1) PROVE ~ (more[j] = "FE" /\ more[j + 1] = "FE")
    <3>1. CASE j = Len(r.body)
      BY <1>1, <1>8, <2>2, <3>1 DEF Last
    <3>2. CASE j # Len(r.body)
      BY <1>1, <2>2, <3>2 DEF Clean
    <3>. QED
      BY <3>1, <3>2
  <2>5. Clean(more)
    BY <2>3, <2>4 DEF Clean
  <2>. HIDE DEF more
  <2>. QED
    BY <1>1, <2>1, <2>2, <2>5 DEF Reading
<1>. QED
  BY <1>1, <1>3, <1>4, <1>5, <1>6, <1>7, <1>8

\* g says what the reference is in after each byte of b.
Traced(g, b) ==
    /\ \A k \in 0..Len(b) : g[k] \in Reading
    /\ \A k \in 1..Len(b) : g[k] = ReadByte(g[k - 1], b[k])

ReadAll(r, b) == FoldLeft(ReadByte, r, b)

\* Reading the bytes in turn (FoldLeft, unfolded) ends where their trace does.
LEMMA ReadAllTraced ==
    ASSUME NEW r \in Reading, NEW b \in Seq(Bytes)
    PROVE  \E g : Traced(g, b) /\ g[0] = r /\ g[Len(b)] = ReadAll(r, b)
<1>. DEFINE n == Len(b)
            F == [p \in Reading \X (1..n) |-> ReadByte(p[1], b[p[2]])]
            Is(f) == f = [s \in SUBSET (1..n) |-> IF s = {} THEN r ELSE ReadByte(f[s \ {Max(s)}], b[Max(s)])]
<1>1. n \in Nat /\ DOMAIN b = 1..n /\ \A k \in 1..n : b[k] \in Bytes
  OBVIOUS
<1>2. F \in [Reading \X (1..n) -> Reading]
  <2>1. ASSUME NEW p \in Reading \X (1..n) PROVE ReadByte(p[1], b[p[2]]) \in Reading
    BY <1>1, ReadStays
  <2>. QED
    BY <2>1
<1>3. \A q \in Reading, k \in 1..n : F[<<q, k>>] = ReadByte(q, b[k])
  OBVIOUS
<1>. HIDE DEF F
<1>4. PICK f : Iterates(f, Reading, n, r, F)
  BY <1>1, <1>2, Iterable
<1>5. Is(f)
  <2>1. ASSUME NEW s \in SUBSET (1..n)
        PROVE  f[s] = IF s = {} THEN r ELSE ReadByte(f[s \ {Max(s)}], b[Max(s)])
    BY <1>3, <1>4 DEF Iterates
  <2>2. f = [s \in SUBSET (1..n) |-> f[s]]
    BY <1>4 DEF Iterates
  <2>. QED
    BY <2>1, <2>2
<1>. DEFINE h == CHOOSE h : Is(h)
<1>6. Is(h)
  BY <1>5
<1>7. ReadAll(r, b) = h[1..n]
  BY <1>1 DEF ReadAll, FoldLeft, MapThenFoldSet
<1>. HIDE DEF h
<1>8. h[{}] = r
  BY <1>6
<1>9. \A s \in SUBSET (1..n) :
         s # {} /\ h[s \ {Max(s)}] \in Reading /\ Max(s) \in s => h[s] = F[<<h[s \ {Max(s)}], Max(s)>>]
  BY <1>3, <1>6
<1>10. PICK g : InTurn(g, Reading, n, r, F, h[1..n])
  <2>1. n \in Nat
    BY <1>1
  <2>2. Iterating(h, Reading, n, r, F)
    BY <1>8, <1>9 DEF Iterating
  <2>. HIDE DEF n, Is
  <2>. QED
    BY <1>2, <2>1, <2>2, IteratesInTurn
<1>11. \A k \in 1..n : g[k] = ReadByte(g[k - 1], b[k])
  <2>1. \A k \in 1..n : k - 1 \in 0..n
    BY <1>1
  <2>. HIDE DEF n
  <2>. QED
    BY <1>3, <1>10, <2>1 DEF InTurn
<1>12. \A k \in 0..n : g[k] \in Reading
  BY <1>10 DEF InTurn
<1>13. Traced(g, b)
  BY <1>11, <1>12 DEF Traced
<1>. QED
  BY <1>7, <1>10, <1>13 DEF InTurn

\* It stays among those states from any of them.
LEMMA TracedFrom ==
    ASSUME NEW b \in Seq(Bytes), NEW g, g[0] \in Reading,
           \A k \in 1..Len(b) : g[k] = ReadByte(g[k - 1], b[k])
    PROVE  Traced(g, b)
<1>. DEFINE n == Len(b)
            T == {k \in 0..n : g[k] \in Reading}
<1>1. n \in Nat /\ 0 \in T
  OBVIOUS
<1>2. ASSUME NEW k \in 0..(n - 1), k \in T PROVE k + 1 \in T
  <2>1. k + 1 \in 1..n /\ k + 1 \in 0..n /\ (k + 1) - 1 = k /\ b[k + 1] \in Bytes
    BY <1>1
  <2>2. g[k + 1] = ReadByte(g[k], b[k + 1])
    BY <2>1
  <2>. QED
    BY <1>2, <2>1, <2>2, ReadStays
<1>3. \A k \in 0..n : k \in T
  <2>. HIDE DEF T, n
  <2>. QED
    BY <1>1, <1>2, Upward
<1>. QED
  BY <1>3 DEF Traced

\* The decoder outside a frame, after one FE, and inside a frame.
Outside(found) == [mode |-> "outside", body |-> <<>>, expected |-> found]
HalfIn(found) == [mode |-> "half", body |-> <<>>, expected |-> found]
Inside(bytes, found) == [mode |-> "inside", body |-> bytes, expected |-> found]

\* What the codec holds of the frame under way.
Held(r) == CASE r.mode = "outside" -> <<>>
             [] r.mode = "half" -> <<"FE">>
             [] r.mode = "inside" -> SOF \o r.body

\* A part of a sequence that is longer by one.
LEMMA SubSeqGrows ==
    ASSUME NEW s \in Seq(Bytes), NEW i \in 1..(Len(s) + 1), NEW k \in i..Len(s)
    PROVE  SubSeq(s, i, k) = Append(SubSeq(s, i, k - 1), s[k])
<1>1. /\ SubSeq(s, i, k) \in Seq(Bytes) /\ Len(SubSeq(s, i, k)) = k - i + 1
      /\ SubSeq(s, i, k - 1) \in Seq(Bytes) /\ Len(SubSeq(s, i, k - 1)) = k - i
      /\ s[k] \in Bytes
  OBVIOUS
<1>2. Append(SubSeq(s, i, k - 1), s[k]) \in Seq(Bytes)
  BY <1>1
<1>3. \A j \in 1..(k - i + 1) : SubSeq(s, i, k)[j] = Append(SubSeq(s, i, k - 1), s[k])[j]
  BY <1>1
<1>. QED
  BY <1>1, <1>2, <1>3

\* A start and what follows it.
LEMMA AfterStart ==
    ASSUME NEW s \in Seq(Bytes)
    PROVE  /\ SOF \o s \in Seq(Bytes) /\ Len(SOF \o s) = 2 + Len(s)
           /\ (SOF \o s)[1] = "FE" /\ (SOF \o s)[2] = "FE"
           /\ \A i \in 3..(2 + Len(s)) : (SOF \o s)[i] = s[i - 2]
<1>1. SOF \in Seq(Bytes) /\ Len(SOF) = 2 /\ SOF[1] = "FE" /\ SOF[2] = "FE"
  BY DEF SOF, Bytes
<1>2. /\ SOF \o s \in Seq(Bytes) /\ Len(SOF \o s) = Len(SOF) + Len(s)
      /\ \A i \in 1..(Len(SOF) + Len(s)) : (SOF \o s)[i] = IF i <= Len(SOF) THEN SOF[i] ELSE s[i - Len(SOF)]
  BY <1>1, ConcatProperties, Zenon
<1>3. \A i \in 1..(2 + Len(s)) : (SOF \o s)[i] = IF i <= 2 THEN SOF[i] ELSE s[i - 2]
  BY <1>1, <1>2, Zenon
<1>. DEFINE t == SOF \o s
<1>4. t \in Seq(Bytes) /\ Len(t) = 2 + Len(s) /\ \A i \in 1..(2 + Len(s)) : t[i] = IF i <= 2 THEN SOF[i] ELSE s[i - 2]
  BY <1>1, <1>2, <1>3, Zenon
<1>5. Len(s) \in Nat
  OBVIOUS
<1>. HIDE DEF t
<1>6. t[1] = "FE" /\ t[2] = "FE" /\ \A i \in 3..(2 + Len(s)) : t[i] = s[i - 2]
  BY <1>1, <1>4, <1>5
<1>. QED
  BY <1>4, <1>6, Zenon DEF t

\* What was held was read from outside, and what follows it goes on from there.
LEMMA HeldTraced ==
    ASSUME NEW r \in Reading, r.expected = <<>>, NEW chunk \in Seq(Bytes), NEW g, Traced(g, chunk), g[0] = r
    PROVE  /\ Held(r) \in Seq(Bytes)
           /\ \E h : /\ Traced(h, Held(r) \o chunk) /\ h[0] = Outside(<<>>)
                     /\ h[Len(Held(r) \o chunk)] = g[Len(chunk)]
<1>. DEFINE b == Held(r)
            all == b \o chunk
            m == Len(b)
            n == Len(chunk)
            Early(k) == IF k = 0 THEN Outside(<<>>) ELSE IF k = 1 THEN HalfIn(<<>>)
                        ELSE Inside(SubSeq(r.body, 1, k - 2), <<>>)
            h == [k \in 0..(m + n) |-> IF k <= m THEN Early(k) ELSE g[k - m]]
<1>1. /\ r.mode \in {"outside", "half", "inside"} /\ r.body \in Seq(Bytes) /\ Clean(r.body)
      /\ (r.mode # "inside" => r.body = <<>>)
      /\ r = [mode |-> r.mode, body |-> r.body, expected |-> <<>>]
  BY DEF Reading
<1>2. /\ SOF \in Seq(Bytes) /\ Len(SOF) = 2 /\ SOF[1] = "FE" /\ SOF[2] = "FE"
      /\ "FE" \in Bytes /\ <<"FE">> \in Seq(Bytes)
  BY DEF SOF, Bytes
<1>3. /\ SOF \o r.body \in Seq(Bytes) /\ Len(SOF \o r.body) = 2 + Len(r.body)
      /\ (SOF \o r.body)[1] = "FE" /\ (SOF \o r.body)[2] = "FE"
      /\ \A i \in 3..(2 + Len(r.body)) : (SOF \o r.body)[i] = r.body[i - 2]
  BY <1>1, AfterStart, Zenon
<1>4. \/ r.mode = "outside" /\ b = <<>>
      \/ r.mode = "half" /\ b = <<"FE">>
      \/ r.mode = "inside" /\ b = SOF \o r.body
  BY <1>1 DEF Held
<1>5. b \in Seq(Bytes)
  <2>1. <<>> \in Seq(Bytes)
    OBVIOUS
  <2>. QED
    BY <1>2, <1>3, <1>4, <2>1, Zenon
<1>6. /\ m \in Nat /\ n \in Nat
      /\ r.mode = "outside" => m = 0
      /\ r.mode = "half" => m = 1 /\ b[1] = "FE"
      /\ r.mode = "inside" => /\ m = 2 + Len(r.body) /\ b[1] = "FE" /\ b[2] = "FE"
                              /\ \A i \in 3..m : b[i] = r.body[i - 2]
  <2>1. CASE r.mode = "outside"
    BY <1>4, <2>1
  <2>2. CASE r.mode = "half"
    BY <1>4, <2>2
  <2>3. CASE r.mode = "inside"
    <3>1. b = SOF \o r.body
      BY <1>4, <2>3
    <3>2. m = 2 + Len(r.body) /\ b[1] = "FE" /\ b[2] = "FE" /\ \A i \in 3..(2 + Len(r.body)) : b[i] = r.body[i - 2]
      BY <1>3, <3>1, Zenon
    <3>. HIDE DEF b
    <3>3. r.body \in Seq(Bytes)
      BY <1>1
    <3>. QED
      BY <2>3, <3>2, <3>3
  <2>. QED
    BY <1>1, <2>1, <2>2, <2>3
<1>. HIDE DEF b
<1>7. /\ all \in Seq(Bytes) /\ Len(all) = m + n
      /\ \A i \in 1..(m + n) : all[i] = IF i <= m THEN b[i] ELSE chunk[i - m]
  BY <1>5, ConcatProperties, Zenon
<1>8. Early(m) = r
  <2>1. CASE r.mode = "outside"
    BY <1>1, <1>6, <2>1 DEF Outside
  <2>2. CASE r.mode = "half"
    BY <1>1, <1>6, <2>2 DEF HalfIn
  <2>3. CASE r.mode = "inside"
    <3>1. m # 0 /\ m # 1 /\ m - 2 = Len(r.body)
      BY <1>1, <1>6, <2>3
    <3>2. SubSeq(r.body, 1, Len(r.body)) = r.body
      BY <1>1
    <3>. QED
      BY <1>1, <2>3, <3>1, <3>2 DEF Inside
  <2>. QED
    BY <1>1, <2>1, <2>2, <2>3
<1>9. ASSUME NEW k \in 1..m PROVE Early(k) = ReadByte(Early(k - 1), b[k])
  <2>1. CASE k = 1
    <3>1. b[1] = "FE"
      BY <1>1, <1>6, <2>1
    <3>. QED
      BY <2>1, <3>1 DEF ReadByte, Outside, HalfIn
  <2>2. CASE k = 2
    <3>1. b[2] = "FE" /\ SubSeq(r.body, 1, 0) = <<>>
      BY <1>1, <1>6, <2>2
    <3>. QED
      <4>1. Early(1) = HalfIn(<<>>) /\ Early(2) = Inside(<<>>, <<>>)
        <5>1. 2 # 0 /\ 2 # 1 /\ 1 # 0 /\ 2 - 2 = 0
          OBVIOUS
        <5>. QED
          BY <3>1, <5>1, Zenon
      <4>2. ReadByte(HalfIn(<<>>), "FE") = Inside(<<>>, <<>>)
        BY DEF ReadByte, HalfIn, Inside
      <4>. QED
        BY <2>2, <3>1, <4>1, <4>2
  <2>3. CASE k # 1 /\ k # 2
    <3>1. /\ r.mode = "inside" /\ k - 2 \in 1..Len(r.body) /\ b[k] = r.body[k - 2]
          /\ k - 1 # 0 /\ k - 1 # 1 /\ k # 0
          /\ k - 2 \in Nat \ {0} /\ (k - 1) - 2 = (k - 2) - 1
      <4>1. k \in 3..m /\ r.mode = "inside"
        <5>. HIDE DEF Early, m, n, all
        <5>1. k \in 3..m
          BY <1>6, <2>3
        <5>2. m # 0 /\ m # 1
          BY <1>6, <5>1
        <5>. QED
          BY <1>1, <1>6, <5>1, <5>2
      <4>2. m = 2 + Len(r.body) /\ \A i \in 3..m : b[i] = r.body[i - 2]
        BY <1>6, <4>1
      <4>3. Len(r.body) \in Nat
        BY <1>1
      <4>. HIDE DEF Early, m, n, all
      <4>. QED
        BY <4>1, <4>2, <4>3
    <3>. DEFINE i == k - 2
                old == SubSeq(r.body, 1, i - 1)
    <3>2. /\ old \in Seq(Bytes) /\ Len(old) = i - 1
          /\ \A j \in 1..(i - 1) : old[j] = r.body[j]
      BY <1>1, <3>1
    <3>3. SubSeq(r.body, 1, i) = Append(old, r.body[i])
      <4>1. i \in 1..Len(r.body) /\ 1 \in 1..(Len(r.body) + 1)
        BY <1>1, <3>1
      <4>. HIDE DEF i
      <4>. QED
        BY <1>1, <4>1, SubSeqGrows
    <3>4. r.body[i] \notin {"FC", "FD"}
      BY <1>1, <3>1 DEF Clean
    <3>5. ~ (r.body[i] = "FE" /\ old # <<>> /\ Last(old) = "FE")
      <4>1. SUFFICES ASSUME old # <<>>, Last(old) = "FE", r.body[i] = "FE" PROVE FALSE
        OBVIOUS
      <4>2. i - 1 \in 1..(Len(r.body) - 1) /\ (i - 1) + 1 = i
        <5>1. Len(old) # 0
          <6>. HIDE DEF old
          <6>. QED
            BY <3>2, <4>1
        <5>2. Len(old) = i - 1 /\ i \in 1..Len(r.body)
          BY <3>1, <3>2
        <5>3. Len(r.body) \in Nat
          BY <1>1
        <5>. HIDE DEF old, i
        <5>. QED
          BY <5>1, <5>2, <5>3
      <4>3. r.body[i - 1] = "FE"
        BY <3>2, <4>1, <4>2 DEF Last
      <4>. QED
        BY <1>1, <4>1, <4>2, <4>3 DEF Clean
    <3>6. Early(k) = Inside(SubSeq(r.body, 1, i), <<>>) /\ Early(k - 1) = Inside(old, <<>>)
      BY <3>1
    <3>. HIDE DEF old, i
    <3>7. ReadByte(Inside(old, <<>>), r.body[i]) = Inside(Append(old, r.body[i]), <<>>)
      BY <3>4, <3>5 DEF ReadByte, Inside
    <3>8. b[k] = r.body[i]
      BY <3>1 DEF i
    <3>. HIDE DEF Early
    <3>. QED
      BY <3>3, <3>6, <3>7, <3>8
  <2>. QED
    BY <2>1, <2>2, <2>3
<1>10. h[0] = Outside(<<>>) /\ h[m + n] = g[n]
  <2>1. CASE n = 0
    BY <1>6, <1>8, <2>1
  <2>2. CASE n # 0
    <3>1. m + n \in 0..(m + n) /\ ~ (m + n <= m) /\ (m + n) - m = n /\ 0 \in 0..(m + n) /\ 0 <= m
      BY <1>6, <2>2
    <3>. QED
      BY <3>1
  <2>. QED
    BY <2>1, <2>2
<1>11. ASSUME NEW k \in 1..(m + n) PROVE h[k] = ReadByte(h[k - 1], all[k])
  <2>1. k \in 0..(m + n) /\ k - 1 \in 0..(m + n)
    BY <1>6
  <2>2. CASE k <= m
    <3>1. k \in 1..m /\ k - 1 <= m
      BY <1>6, <2>2
    <3>2. h[k] = Early(k) /\ h[k - 1] = Early(k - 1)
      BY <2>1, <2>2, <3>1
    <3>3. all[k] = b[k]
      BY <1>7, <2>2
    <3>. HIDE DEF h, Early, all, m
    <3>. QED
      BY <1>9, <3>1, <3>2, <3>3
  <2>3. CASE ~ (k <= m)
    <3>1. k - m \in 1..n /\ (k - 1) - m = (k - m) - 1 /\ k - m \in 0..n /\ (k - m) - 1 \in 0..n
      BY <1>6, <2>3
    <3>2. h[k] = g[k - m]
      BY <2>1, <2>3
    <3>3. h[k - 1] = g[(k - m) - 1]
      <4>1. CASE k - 1 = m
        <5>1. (k - m) - 1 = 0
          BY <1>6, <4>1
        <5>2. h[k - 1] = Early(k - 1)
          BY <1>6, <2>1, <4>1
        <5>3. g[0] = r
          OBVIOUS
        <5>. QED
          BY <1>8, <4>1, <5>1, <5>2, <5>3
      <4>2. CASE k - 1 # m
        <5>1. ~ (k - 1 <= m)
          BY <1>6, <2>3, <4>2
        <5>. QED
          BY <2>1, <3>1, <5>1
      <4>. QED
        BY <4>1, <4>2
    <3>4. all[k] = chunk[k - m]
      BY <1>7, <2>3
    <3>5. g[k - m] = ReadByte(g[(k - m) - 1], chunk[k - m])
      BY <3>1 DEF Traced
    <3>. QED
      BY <3>2, <3>3, <3>4, <3>5
  <2>. QED
    BY <2>2, <2>3
<1>12. Outside(<<>>) \in Reading
  BY DEF Outside, Reading, Clean
<1>. HIDE DEF h
<1>13. Traced(h, all)
  BY <1>7, <1>10, <1>11, <1>12, TracedFrom
<1>14. h[Len(all)] = g[n]
  BY <1>7, <1>10
<1>. QED
  BY <1>5, <1>10, <1>13, <1>14, Zenon DEF b

-----------------------------------------------------------------------------
(* The codec.                                                              *)

\* A start begins at i.
StartsAt(b, i) == i \in 1..(Len(b) - 1) /\ b[i] = "FE" /\ b[i + 1] = "FE"

\* Min of a nonempty set of numbers.
LEMMA LeastIs ==
    ASSUME NEW T \in SUBSET Nat, T # {}
    PROVE  Min(T) \in T /\ \A n \in T : Min(T) <= n
BY LeastNumber DEF Min

\* What Find returns, for a pattern that begins where P says.
LEMMA FindIs ==
    ASSUME NEW b \in Seq(Bytes), NEW pattern, NEW from \in 1..(Len(b) + 1), NEW P \in SUBSET (1..Len(b)),
           \A i \in from..Len(b) : IsPrefix(pattern, SubSeq(b, i, Len(b))) <=> i \in P
    PROVE  /\ Find(b, pattern, from) \in from..(Len(b) + 1)
           /\ \A j \in from..(Find(b, pattern, from) - 1) : j \notin P
           /\ Find(b, pattern, from) <= Len(b) => Find(b, pattern, from) \in P
<1>. DEFINE found == {i \in from..Len(b) : IsPrefix(pattern, SubSeq(b, i, Len(b)))}
            n == Len(b)
<1>1. n \in Nat /\ from \in 1..(n + 1)
  OBVIOUS
<1>2. \A i \in from..n : i \in found <=> i \in P
  OBVIOUS
<1>3. found \in SUBSET (from..n)
  OBVIOUS
<1>4. Find(b, pattern, from) = IF found = {} THEN n + 1 ELSE Min(found)
  BY DEF Find
<1>. HIDE DEF found, n
<1>5. CASE found = {}
  BY <1>1, <1>2, <1>4, <1>5 DEF n
<1>6. CASE found # {}
  <2>1. found \in SUBSET Nat
    BY <1>1, <1>3
  <2>2. Min(found) \in found /\ \A i \in found : Min(found) <= i
    BY <1>6, <2>1, LeastIs
  <2>. DEFINE m == Min(found)
  <2>3. m \in from..n /\ m \in P /\ m \in found
    BY <1>2, <1>3, <2>2
  <2>4. \A i \in found : m <= i
    BY <2>2
  <2>. HIDE DEF m
  <2>5. \A j \in from..(m - 1) : j \notin P
    BY <1>1, <1>2, <2>3, <2>4
  <2>6. Find(b, pattern, from) = m
    BY <1>4, <1>6 DEF m
  <2>. QED
    BY <1>1, <2>3, <2>5, <2>6 DEF n
<1>. QED
  BY <1>5, <1>6

\* Where Find finds a byte.
LEMMA FindByte ==
    ASSUME NEW b \in Seq(Bytes), NEW x \in Bytes, NEW from \in 1..(Len(b) + 1)
    PROVE  /\ Find(b, <<x>>, from) \in from..(Len(b) + 1)
           /\ \A j \in from..(Find(b, <<x>>, from) - 1) : b[j] # x
           /\ Find(b, <<x>>, from) <= Len(b) => b[Find(b, <<x>>, from)] = x
<1>. DEFINE P == {i \in 1..Len(b) : b[i] = x}
<1>1. ASSUME NEW i \in from..Len(b)
      PROVE  IsPrefix(<<x>>, SubSeq(b, i, Len(b))) <=> i \in P
  <2>. DEFINE t == SubSeq(b, i, Len(b))
  <2>0. i \in 1..Len(b)
    OBVIOUS
  <2>1. t \in Seq(Bytes) /\ Len(t) = Len(b) - i + 1 /\ Len(t) >= 1 /\ t[1] = b[i]
    BY <2>0
  <2>. DEFINE u == <<x>>
  <2>2. u \in Seq(Bytes) /\ Len(u) = 1 /\ u[1] = x
    OBVIOUS
  <2>. HIDE DEF t, u
  <2>3. /\ SubSeq(u, 1, 1) = u
        /\ SubSeq(t, 1, 1) \in Seq(Bytes) /\ Len(SubSeq(t, 1, 1)) = 1 /\ SubSeq(t, 1, 1)[1] = t[1]
    BY <2>1, <2>2
  <2>4. IsPrefix(u, t) <=> t[1] = x
    BY <2>1, <2>2, <2>3 DEF IsPrefix
  <2>. QED
    BY <2>0, <2>1, <2>4 DEF t, u
<1>2. /\ Find(b, <<x>>, from) \in from..(Len(b) + 1)
      /\ \A j \in from..(Find(b, <<x>>, from) - 1) : j \notin P
      /\ Find(b, <<x>>, from) <= Len(b) => Find(b, <<x>>, from) \in P
  <2>1. P \in SUBSET (1..Len(b))
    OBVIOUS
  <2>. HIDE DEF P
  <2>. QED
    BY <1>1, <2>1, FindIs
<1>. QED
  BY <1>2

\* Where Find finds a start.
LEMMA FindStart ==
    ASSUME NEW b \in Seq(Bytes), NEW from \in 1..(Len(b) + 1)
    PROVE  /\ Find(b, SOF, from) \in from..(Len(b) + 1)
           /\ \A j \in from..(Find(b, SOF, from) - 1) : ~StartsAt(b, j)
           /\ Find(b, SOF, from) <= Len(b) => StartsAt(b, Find(b, SOF, from))
<1>. DEFINE P == {i \in 1..Len(b) : StartsAt(b, i)}
<1>1. ASSUME NEW i \in from..Len(b)
      PROVE  IsPrefix(SOF, SubSeq(b, i, Len(b))) <=> i \in P
  <2>. DEFINE t == SubSeq(b, i, Len(b))
  <2>0. i \in 1..Len(b)
    OBVIOUS
  <2>1. /\ t \in Seq(Bytes) /\ Len(t) = Len(b) - i + 1 /\ Len(t) >= 1 /\ t[1] = b[i] /\ i \in 1..Len(b)
        /\ Len(t) >= 2 => t[2] = b[i + 1]
    BY <2>0
  <2>2. Len(SOF) = 2 /\ SubSeq(SOF, 1, 2) = SOF /\ SOF[1] = "FE" /\ SOF[2] = "FE" /\ SOF \in Seq(Bytes)
    <3>1. SOF \in Seq(Bytes) /\ Len(SOF) = 2 /\ SOF[1] = "FE" /\ SOF[2] = "FE"
      BY DEF SOF, Bytes
    <3>. QED
      BY <3>1
  <2>3. Len(t) >= 2 <=> i \in 1..(Len(b) - 1)
    BY <2>1
  <2>. HIDE DEF t
  <2>4. Len(t) >= 2 => /\ SubSeq(t, 1, 2) \in Seq(Bytes) /\ Len(SubSeq(t, 1, 2)) = 2
                       /\ SubSeq(t, 1, 2)[1] = t[1] /\ SubSeq(t, 1, 2)[2] = t[2]
    BY <2>1
  <2>5. ASSUME Len(t) >= 2
        PROVE  SOF = SubSeq(t, 1, 2) <=> t[1] = "FE" /\ t[2] = "FE"
    BY <2>2, <2>4, <2>5
  <2>6. IsPrefix(SOF, t) <=> Len(t) >= 2 /\ t[1] = "FE" /\ t[2] = "FE"
    BY <2>1, <2>2, <2>5 DEF IsPrefix
  <2>. QED
    BY <2>0, <2>1, <2>3, <2>6 DEF t, StartsAt
<1>2. /\ Find(b, SOF, from) \in from..(Len(b) + 1)
      /\ \A j \in from..(Find(b, SOF, from) - 1) : j \notin P
      /\ Find(b, SOF, from) <= Len(b) => Find(b, SOF, from) \in P
  <2>1. P \in SUBSET (1..Len(b))
    OBVIOUS
  <2>. HIDE DEF P
  <2>. QED
    BY <1>1, <2>1, FindIs
<1>3. \A j \in from..(Find(b, SOF, from) - 1) : j \in 1..Len(b)
  BY <1>2
<1>. QED
  BY <1>2, <1>3

\* The bytes from i on.
LEMMA FromIs ==
    ASSUME NEW b \in Seq(Bytes), NEW i \in 1..(Len(b) + 1)
    PROVE  /\ From(b, i) \in Seq(Bytes) /\ Len(From(b, i)) = Len(b) + 1 - i
           /\ \A k \in 1..(Len(b) + 1 - i) : From(b, i)[k] = b[i - 1 + k]
  BY DEF From

\* The reading of the rest.
LEMMA TraceOfRest ==
    ASSUME NEW b \in Seq(Bytes), NEW g, Traced(g, b), NEW i \in 1..(Len(b) + 1)
    PROVE  \E h : /\ Traced(h, From(b, i)) /\ h[Len(From(b, i))] = g[Len(b)]
                  /\ \A k \in 0..(Len(b) + 1 - i) : h[k] = g[i - 1 + k]
<1>. DEFINE h == [k \in 0..(Len(b) + 1 - i) |-> g[i - 1 + k]]
            n == Len(b) + 1 - i
<1>1. /\ From(b, i) \in Seq(Bytes) /\ Len(From(b, i)) = n
      /\ \A k \in 1..n : From(b, i)[k] = b[i - 1 + k]
  BY FromIs
<1>2. n \in Nat /\ Len(b) \in Nat /\ i - 1 + n = Len(b)
  OBVIOUS
<1>3. ASSUME NEW k \in 0..n PROVE h[k] \in Reading
  <2>1. i - 1 + k \in 0..Len(b)
    OBVIOUS
  <2>. QED
    BY <2>1 DEF Traced
<1>4. ASSUME NEW k \in 1..n PROVE h[k] = ReadByte(h[k - 1], From(b, i)[k])
  <2>1. i - 1 + k \in 1..Len(b) /\ (i - 1 + k) - 1 = i - 1 + (k - 1) /\ k - 1 \in 0..n /\ k \in 0..n
    OBVIOUS
  <2>2. g[i - 1 + k] = ReadByte(g[(i - 1 + k) - 1], b[i - 1 + k])
    BY <2>1 DEF Traced
  <2>. QED
    BY <1>1, <2>1, <2>2
<1>5. Traced(h, From(b, i))
  BY <1>1, <1>3, <1>4 DEF Traced
<1>6. h[Len(From(b, i))] = g[Len(b)]
  <2>1. n \in 0..n
    BY <1>2
  <2>. QED
    BY <1>1, <1>2, <2>1
<1>. QED
  BY <1>5, <1>6

\* Outside a frame, until a start.
LEMMA SearchOutside ==
    ASSUME NEW b \in Seq(Bytes), NEW g, Traced(g, b), NEW found, g[0] = Outside(found),
           NEW i \in 0..Len(b), \A j \in 1..(i - 1) : ~StartsAt(b, j)
    PROVE  g[i] = IF i > 0 /\ b[i] = "FE" THEN HalfIn(found) ELSE Outside(found)
<1>. DEFINE Right(k) == g[k] = IF k > 0 /\ b[k] = "FE" THEN HalfIn(found) ELSE Outside(found)
            T == {k \in 0..i : Right(k)}
<1>1. 0 \in T
  OBVIOUS
<1>2. ASSUME NEW k \in 0..(i - 1), k \in T PROVE k + 1 \in T
  <2>1. /\ k + 1 \in 1..Len(b) /\ k + 1 \in 0..i /\ (k + 1) - 1 = k /\ k + 1 > 0
        /\ k > 0 => k \in 1..(Len(b) - 1) /\ k \in 1..(i - 1)
    OBVIOUS
  <2>2. g[k + 1] = ReadByte(g[k], b[k + 1])
    BY <2>1 DEF Traced
  <2>3. CASE k > 0 /\ b[k] = "FE"
    <3>1. g[k] = HalfIn(found)
      BY <1>2, <2>3
    <3>2. b[k + 1] # "FE"
      BY <2>1, <2>3 DEF StartsAt
    <3>3. g[k + 1] = Outside(found)
      <4>1. ASSUME NEW byte, byte # "FE" PROVE ReadByte(HalfIn(found), byte) = Outside(found)
        BY <4>1 DEF ReadByte, HalfIn, Outside
      <4>. QED
        BY <2>2, <3>1, <3>2, <4>1
    <3>. QED
      BY <2>1, <3>2, <3>3
  <2>4. CASE ~ (k > 0 /\ b[k] = "FE")
    <3>1. g[k] = Outside(found)
      BY <1>2, <2>4
    <3>2. g[k + 1] = IF b[k + 1] = "FE" THEN HalfIn(found) ELSE Outside(found)
      BY <2>2, <3>1 DEF ReadByte, HalfIn, Outside
    <3>. QED
      BY <2>1, <3>2
  <2>. QED
    BY <2>3, <2>4
<1>3. \A k \in 0..i : k \in T
  <2>. HIDE DEF T
  <2>. QED
    BY <1>1, <1>2, Upward
<1>. QED
  BY <1>3

\* Inside a frame, until its end or a collision.
LEMMA SearchInside ==
    ASSUME NEW c \in Seq(Bytes), NEW g, Traced(g, c), NEW found, g[2] = Inside(<<>>, found),
           NEW i \in 2..Len(c), \A j \in 3..i : c[j] \notin {"FD", "FC"}
    PROVE  /\ g[i].mode = "inside" /\ g[i].expected = found
           /\ (\A j \in 3..(i - 1) : ~StartsAt(c, j)) => g[i] = Inside(SubSeq(c, 3, i), found)
<1>. DEFINE Whole(k) == (\A j \in 3..(k - 1) : ~StartsAt(c, j)) => g[k] = Inside(SubSeq(c, 3, k), found)
            T == {k \in 2..i : g[k].mode = "inside" /\ g[k].expected = found /\ Whole(k)}
<1>1. 2 \in T
  <2>1. SubSeq(c, 3, 2) = <<>>
    OBVIOUS
  <2>. QED
    BY <2>1 DEF Inside
<1>2. ASSUME NEW k \in 2..(i - 1), k \in T PROVE k + 1 \in T
  <2>1. /\ k + 1 \in 1..Len(c) /\ k + 1 \in 2..i /\ k + 1 \in 3..i /\ (k + 1) - 1 = k
        /\ k \in 0..Len(c) /\ k \in 2..i
    OBVIOUS
  <2>2. g[k + 1] = ReadByte(g[k], c[k + 1]) /\ g[k] \in Reading
    BY <2>1 DEF Traced
  <2>3. c[k + 1] \notin {"FD", "FC"}
    BY <2>1
  <2>4. g[k].mode = "inside" /\ g[k].expected = found /\ Whole(k)
    BY <1>2
  <2>. DEFINE r == g[k]
              byte == c[k + 1]
  <2>5. r = Inside(r.body, found)
    BY <2>2, <2>4 DEF Reading, Inside
  <2>6. g[k + 1] = IF byte = "FE" /\ r.body # <<>> /\ Last(r.body) = "FE" THEN Inside(<<>>, found)
                   ELSE Inside(Append(r.body, byte), found)
    BY <2>2, <2>3, <2>4, <2>5 DEF ReadByte, Inside
  <2>7. g[k + 1].mode = "inside" /\ g[k + 1].expected = found
    BY <2>6 DEF Inside
  <2>8. ASSUME \A j \in 3..k : ~StartsAt(c, j)
        PROVE  g[k + 1] = Inside(SubSeq(c, 3, k + 1), found)
    <3>1. r = Inside(SubSeq(c, 3, k), found)
      BY <2>1, <2>4, <2>8
    <3>2. /\ r.body = SubSeq(c, 3, k) /\ Len(r.body) = k - 2 /\ r.body \in Seq(Bytes)
          /\ \A j \in 1..(k - 2) : r.body[j] = c[j + 2]
      BY <3>1, <2>1 DEF Inside
    <3>3. ~ (byte = "FE" /\ r.body # <<>> /\ Last(r.body) = "FE")
      <4>1. SUFFICES ASSUME byte = "FE", r.body # <<>>, Last(r.body) = "FE" PROVE FALSE
        OBVIOUS
      <4>2. Len(r.body) # 0
        <5>1. r.body \in Seq(Bytes)
          BY <3>2
        <5>. HIDE DEF r
        <5>. QED
          BY <4>1, <5>1
      <4>3. k - 2 \in 1..(k - 2) /\ (k - 2) + 2 = k /\ k \in 3..k /\ k \in 1..(Len(c) - 1)
        BY <2>1, <3>2, <4>2
      <4>4. Last(r.body) = r.body[k - 2]
        BY <3>2 DEF Last
      <4>5. c[k] = "FE"
        BY <3>2, <4>1, <4>3, <4>4
      <4>. QED
        BY <2>8, <4>1, <4>3, <4>5 DEF StartsAt
    <3>4. SubSeq(c, 3, k + 1) = Append(SubSeq(c, 3, k), byte)
      <4>1. 3 \in 1..(Len(c) + 1) /\ k + 1 \in 3..Len(c)
        BY <2>1
      <4>2. SubSeq(c, 3, k + 1) = Append(SubSeq(c, 3, (k + 1) - 1), c[k + 1])
        BY <4>1, SubSeqGrows
      <4>. QED
        BY <2>1, <4>2
    <3>. QED
      BY <2>6, <3>2, <3>3, <3>4
  <2>9. Whole(k + 1)
    BY <2>1, <2>8
  <2>. HIDE DEF Whole
  <2>. QED
    BY <2>1, <2>7, <2>9
<1>3. \A k \in 2..i : k \in T
  <2>1. 2 \in Nat /\ i \in Nat
    OBVIOUS
  <2>. HIDE DEF T
  <2>. QED
    BY <1>1, <1>2, <2>1, Upward
<1>. QED
  BY <1>3

\* What the loop of the codec works on.
Scanning == [rest : Seq(Bytes), partial : BOOLEAN, frames : Seq(Frames), runs : BOOLEAN]

\* The loop goes on with rest, or stops.
Moves(rest, found) == [rest |-> rest, partial |-> FALSE, frames |-> found, runs |-> TRUE]
Stops(rest, p, found) == [rest |-> rest, partial |-> p, frames |-> found, runs |-> FALSE]

\* No end and no collision of a frame c before k, and no start.
Unbroken(c, k) == \A j \in 3..(k - 1) : c[j] \notin {"FD", "FC"}
Single(c, k) == \A j \in 3..(k - 1) : ~StartsAt(c, j)

\* c begins with the first start of b.
FirstFrame(b, c) ==
    \E start \in 1..Len(b) : StartsAt(b, start) /\ c = From(b, start) /\ \A j \in 1..(start - 1) : ~StartsAt(b, j)

\* What a pass finds in the candidate c.
Collides(c, k) == k \in 3..Len(c) /\ c[k] = "FC" /\ Unbroken(c, k)
Restarts(c, k) == k \in 3..Len(c) /\ StartsAt(c, k) /\ Unbroken(c, k + 1) /\ Single(c, k)
Completes(c, k) == k \in 3..Len(c) /\ c[k] = "FD" /\ Unbroken(c, k) /\ Single(c, k)
Open(c)        == Unbroken(c, Len(c) + 1) /\ Single(c, Len(c) + 1)

\* What the pass makes of it.
Searched(s, c) ==
    \/ \E k \in 3..Len(c) : Collides(c, k) /\ Pass(s) = Moves(From(c, k + 1), s.frames)
    \/ \E k \in 3..Len(c) : Restarts(c, k) /\ Pass(s) = Moves(From(c, k), s.frames)
    \/ \E k \in 3..Len(c) : Completes(c, k) /\ Pass(s) = Moves(From(c, k + 1),
          IF k > MaxFrame THEN s.frames ELSE Append(s.frames, SubSeq(c, 1, k)))
    \/ Open(c) /\ Pass(s) = Stops(c, TRUE, s.frames)

\* A candidate has its start.
LEMMA FirstFrameIs ==
    ASSUME NEW b \in Seq(Bytes), NEW start \in 1..Len(b), StartsAt(b, start)
    PROVE  /\ From(b, start) \in Seq(Bytes) /\ Len(From(b, start)) = Len(b) + 1 - start
           /\ Len(From(b, start)) >= 2 /\ StartsAt(From(b, start), 1)
<1>1. /\ From(b, start) \in Seq(Bytes) /\ Len(From(b, start)) = Len(b) + 1 - start
      /\ \A k \in 1..(Len(b) + 1 - start) : From(b, start)[k] = b[start - 1 + k]
  <2>1. start \in 1..(Len(b) + 1)
    OBVIOUS
  <2>. QED
    BY <2>1, FromIs
<1>2. start \in 1..(Len(b) - 1) /\ b[start] = "FE" /\ b[start + 1] = "FE" /\ Len(b) \in Nat
  BY DEF StartsAt
<1>. DEFINE c == From(b, start)
            n == Len(b)
<1>. HIDE DEF c, n
<1>3. Len(c) >= 2 /\ c[1] = b[start - 1 + 1] /\ c[2] = b[start - 1 + 2]
  BY <1>1, <1>2 DEF c, n
<1>4. start - 1 + 1 = start /\ start - 1 + 2 = start + 1 /\ 1 \in 1..(Len(c) - 1) /\ 1 + 1 = 2
  BY <1>1, <1>2, <1>3 DEF c
<1>5. c[1] = "FE" /\ c[1 + 1] = "FE"
  BY <1>2, <1>3, <1>4
<1>6. StartsAt(c, 1)
  BY <1>4, <1>5, Zenon DEF StartsAt
<1>. QED
  BY <1>1, <1>3, <1>6 DEF c

\* The outcomes of a pass.
LEMMA PassIs ==
    ASSUME NEW s \in Scanning, s.runs
    PROVE  \/ /\ \A j \in 1..Len(s.rest) : ~StartsAt(s.rest, j)
              /\ Pass(s) = Stops(Kept(s.rest), s.partial /\ Kept(s.rest) # <<>>, s.frames)
           \/ \E c \in Seq(Bytes) : FirstFrame(s.rest, c) /\ Searched(s, c)
<1>. DEFINE b == s.rest
            start  == Find(b, SOF, 1)
            c      == From(b, start)
            end    == Find(c, <<"FD">>, 3)
            abort  == Find(c, <<"FC">>, 3)
            nested == Find(c, SOF, 3)
            closed == IF end > MaxFrame THEN s.frames ELSE Append(s.frames, SubSeq(c, 1, end))
<1>1. /\ b \in Seq(Bytes) /\ s.partial \in BOOLEAN /\ Len(b) \in Nat
      /\ s = [rest |-> b, partial |-> s.partial, frames |-> s.frames, runs |-> TRUE]
  BY DEF Scanning
<1>2. Pass(s) = IF start > Len(b) THEN Stops(Kept(b), s.partial /\ Kept(b) # <<>>, s.frames)
                ELSE IF abort < end THEN Moves(From(c, abort + 1), s.frames)
                ELSE IF nested < end THEN Moves(From(c, nested), s.frames)
                ELSE IF end > Len(c) THEN Stops(c, TRUE, s.frames)
                ELSE Moves(From(c, end + 1), closed)
  BY <1>1, Zenon DEF Pass, Moves, Stops
<1>3. /\ start \in 1..(Len(b) + 1) /\ \A j \in 1..(start - 1) : ~StartsAt(b, j)
      /\ start <= Len(b) => StartsAt(b, start)
  <2>1. 1 \in 1..(Len(b) + 1)
    BY <1>1
  <2>. QED
    BY <1>1, <2>1, FindStart
<1>. HIDE DEF start
<1>4. CASE start > Len(b)
  <2>1. \A j \in 1..Len(b) : j \in 1..(start - 1)
    BY <1>1, <1>3, <1>4
  <2>2. \A j \in 1..Len(b) : ~StartsAt(b, j)
    BY <1>3, <2>1
  <2>3. Pass(s) = Stops(Kept(b), s.partial /\ Kept(b) # <<>>, s.frames)
    BY <1>2, <1>4, Zenon
  <2>. QED
    BY <2>2, <2>3, Zenon
<1>5. CASE ~ (start > Len(b))
  <2>1. start \in 1..Len(b) /\ StartsAt(b, start)
    BY <1>1, <1>3, <1>5
  <2>2. c \in Seq(Bytes) /\ Len(c) >= 2
    BY <1>1, <2>1, FirstFrameIs
  <2>3. FirstFrame(b, c)
    BY <1>3, <2>1 DEF FirstFrame
  <2>. HIDE DEF c
  <2>4. 3 \in 1..(Len(c) + 1) /\ "FD" \in Bytes /\ "FC" \in Bytes /\ Len(c) \in Nat
    BY <2>2 DEF Bytes
  <2>5. /\ end \in 3..(Len(c) + 1) /\ \A j \in 3..(end - 1) : c[j] # "FD"
        /\ end <= Len(c) => c[end] = "FD"
    BY <2>2, <2>4, FindByte
  <2>6. /\ abort \in 3..(Len(c) + 1) /\ \A j \in 3..(abort - 1) : c[j] # "FC"
        /\ abort <= Len(c) => c[abort] = "FC"
    BY <2>2, <2>4, FindByte
  <2>7. /\ nested \in 3..(Len(c) + 1) /\ \A j \in 3..(nested - 1) : ~StartsAt(c, j)
        /\ nested <= Len(c) => StartsAt(c, nested)
    BY <2>2, <2>4, FindStart
  <2>. HIDE DEF end, abort, nested, b
  <2>8. CASE abort < end
    <3>1. abort \in 3..Len(c) /\ Collides(c, abort)
      BY <2>4, <2>5, <2>6, <2>8 DEF Collides, Unbroken
    <3>2. Pass(s) = Moves(From(c, abort + 1), s.frames)
      BY <1>2, <1>5, <2>8
    <3>. QED
      BY <2>2, <2>3, <3>1, <3>2 DEF b, Searched
  <2>9. CASE ~ (abort < end) /\ nested < end
    <3>1. nested \in 3..Len(c) /\ Restarts(c, nested)
      BY <2>4, <2>5, <2>6, <2>7, <2>9 DEF Restarts, Unbroken, Single
    <3>2. Pass(s) = Moves(From(c, nested), s.frames)
      BY <1>2, <1>5, <2>9
    <3>. QED
      BY <2>2, <2>3, <3>1, <3>2 DEF b, Searched
  <2>10. CASE ~ (abort < end) /\ ~ (nested < end) /\ end > Len(c)
    <3>1. Open(c)
      BY <2>4, <2>5, <2>6, <2>7, <2>10 DEF Open, Unbroken, Single
    <3>2. Pass(s) = Stops(c, TRUE, s.frames)
      BY <1>2, <1>5, <2>10
    <3>. QED
      BY <2>2, <2>3, <3>1, <3>2 DEF b, Searched
  <2>11. CASE ~ (abort < end) /\ ~ (nested < end) /\ ~ (end > Len(c))
    <3>1. end \in 3..Len(c) /\ Completes(c, end)
      BY <2>4, <2>5, <2>6, <2>7, <2>11 DEF Completes, Unbroken, Single
    <3>2. Pass(s) = Moves(From(c, end + 1), closed)
      BY <1>2, <1>5, <2>11
    <3>. QED
      BY <2>2, <2>3, <3>1, <3>2 DEF b, Searched
  <2>. QED
    BY <2>8, <2>9, <2>10, <2>11
<1>. QED
  BY <1>4, <1>5

\* A pass leaves a state of the loop.
LEMMA PassTypes ==
    ASSUME NEW s \in Scanning
    PROVE  Pass(s) \in Scanning
<1>1. CASE ~s.runs
  <2>1. Pass(s) = s
    BY <1>1, Zenon DEF Pass
  <2>. QED
    BY <2>1
<1>2. CASE s.runs
  <2>1. s.rest \in Seq(Bytes) /\ s.partial \in BOOLEAN /\ s.frames \in Seq(Frames)
    BY DEF Scanning
  <2>2. ASSUME NEW rest \in Seq(Bytes), NEW found \in Seq(Frames), NEW p \in BOOLEAN
        PROVE  Moves(rest, found) \in Scanning /\ Stops(rest, p, found) \in Scanning
    BY DEF Moves, Stops, Scanning
  <2>3. Kept(s.rest) \in Seq(Bytes) /\ (s.partial /\ Kept(s.rest) # <<>>) \in BOOLEAN
    <3>1. <<"FE">> \in Seq(Bytes) /\ <<>> \in Seq(Bytes)
      BY DEF Bytes
    <3>. QED
      BY <3>1, Zenon DEF Kept
  <2>4. ASSUME NEW c \in Seq(Bytes), NEW k \in 3..Len(c)
        PROVE  /\ From(c, k) \in Seq(Bytes) /\ From(c, k + 1) \in Seq(Bytes)
               /\ ~ (k > MaxFrame) => Append(s.frames, SubSeq(c, 1, k)) \in Seq(Frames)
    <3>1. k \in 1..(Len(c) + 1) /\ k + 1 \in 1..(Len(c) + 1)
      OBVIOUS
    <3>2. SubSeq(c, 1, k) \in Seq(Bytes) /\ Len(SubSeq(c, 1, k)) = k
      OBVIOUS
    <3>3. ~ (k > MaxFrame) => SubSeq(c, 1, k) \in Frames
      BY <3>2, FrameSizes DEF Frames
    <3>. QED
      BY <2>1, <3>1, <3>3, FromIs, Appending
  <2>5. ASSUME NEW c \in Seq(Bytes), Searched(s, c) PROVE Pass(s) \in Scanning
    BY <2>1, <2>2, <2>4, <2>5 DEF Searched
  <2>6. CASE Pass(s) = Stops(Kept(s.rest), s.partial /\ Kept(s.rest) # <<>>, s.frames)
    <3>. DEFINE p == s.partial /\ Kept(s.rest) # <<>>
    <3>1. p \in BOOLEAN
      BY <2>3
    <3>2. Pass(s) = Stops(Kept(s.rest), p, s.frames)
      BY <2>6
    <3>. HIDE DEF p
    <3>. QED
      BY <2>1, <2>2, <2>3, <3>1, <3>2
  <2>. QED
    BY <1>2, <2>5, <2>6, PassIs
<1>. QED
  BY <1>1, <1>2

\* The codec holds b, of which the reference has read what was dropped, or the start
\* of b too.
Entered(g, b, found) == g[0] = Outside(found) \/ (StartsAt(b, 1) /\ g[2] = Inside(<<>>, found))

Looking(s, g) ==
    /\ s.runs /\ Traced(g, s.rest) /\ Entered(g, s.rest, s.frames)
    /\ s.partial => StartsAt(s.rest, 1)

\* The codec has come to what the reference found, and holds what it is in.
Finished(s, r) ==
    ~s.runs /\ s.frames = r.expected /\ s.rest = Held(r) /\ (s.partial <=> r.mode = "inside")

\* Where the codec finds its first start the reference is inside a frame.
LEMMA Candidate ==
    ASSUME NEW b \in Seq(Bytes), NEW g, NEW found, NEW c, Traced(g, b), Entered(g, b, found), FirstFrame(b, c)
    PROVE  /\ c \in Seq(Bytes) /\ Len(c) \in 2..Len(b) /\ StartsAt(c, 1)
           /\ \E h : Traced(h, c) /\ h[Len(c)] = g[Len(b)] /\ h[2] = Inside(<<>>, found)
<1>1. PICK start \in 1..Len(b) : /\ StartsAt(b, start) /\ c = From(b, start)
                                 /\ \A j \in 1..(start - 1) : ~StartsAt(b, j)
  BY DEF FirstFrame
<1>2. c \in Seq(Bytes) /\ Len(c) = Len(b) + 1 - start /\ Len(c) >= 2 /\ StartsAt(c, 1)
  BY <1>1, FirstFrameIs
<1>3. PICK h : /\ Traced(h, c) /\ h[Len(c)] = g[Len(b)]
               /\ \A k \in 0..(Len(b) + 1 - start) : h[k] = g[start - 1 + k]
  <2>1. start \in 1..(Len(b) + 1)
    BY <1>1
  <2>. QED
    BY <1>1, <2>1, TraceOfRest
<1>4. h[0] = g[start - 1] /\ h[2] = g[start + 1] /\ start - 1 \in 0..Len(b)
  <2>1. 0 \in 0..(Len(b) + 1 - start) /\ 2 \in 0..(Len(b) + 1 - start)
    BY <1>1, <1>2
  <2>2. h[0] = g[start - 1 + 0] /\ h[2] = g[start - 1 + 2]
    BY <1>3, <2>1
  <2>3. start - 1 + 0 = start - 1 /\ start - 1 + 2 = start + 1 /\ start - 1 \in 0..Len(b)
    BY <1>1
  <2>. QED
    BY <2>2, <2>3
<1>5. h[2] = Inside(<<>>, found)
  <2>1. CASE g[0] = Outside(found)
    <3>1. \A j \in 1..((start - 1) - 1) : ~StartsAt(b, j)
      BY <1>1
    <3>2. g[start - 1] = IF start - 1 > 0 /\ b[start - 1] = "FE" THEN HalfIn(found) ELSE Outside(found)
      BY <1>4, <2>1, <3>1, SearchOutside
    <3>3. ~ (start - 1 > 0 /\ b[start - 1] = "FE")
      <4>1. SUFFICES ASSUME start - 1 > 0, b[start - 1] = "FE" PROVE FALSE
        OBVIOUS
      <4>2. start - 1 \in 1..(start - 1) /\ start - 1 \in 1..(Len(b) - 1) /\ (start - 1) + 1 = start
        BY <1>1, <4>1
      <4>. QED
        BY <1>1, <4>1, <4>2 DEF StartsAt
    <3>4. h[0] = Outside(found)
      BY <1>4, <3>2, <3>3, Zenon
    <3>5. h[1] = ReadByte(h[0], c[1]) /\ h[2] = ReadByte(h[1], c[2])
      <4>1. 1 \in 1..Len(c) /\ 2 \in 1..Len(c) /\ 1 - 1 = 0 /\ 2 - 1 = 1
        BY <1>2
      <4>2. h[1] = ReadByte(h[1 - 1], c[1]) /\ h[2] = ReadByte(h[2 - 1], c[2])
        BY <1>3, <4>1, Zenon DEF Traced
      <4>. QED
        BY <4>1, <4>2
    <3>6. c[1] = "FE" /\ c[2] = "FE"
      <4>1. c[1 + 1] = "FE" /\ c[1] = "FE" /\ 1 + 1 = 2
        BY <1>2 DEF StartsAt
      <4>. QED
        BY <4>1
    <3>7. ReadByte(Outside(found), "FE") = HalfIn(found) /\ ReadByte(HalfIn(found), "FE") = Inside(<<>>, found)
      BY DEF ReadByte, Outside, HalfIn, Inside
    <3>. QED
      BY <3>4, <3>5, <3>6, <3>7, Zenon
  <2>2. CASE StartsAt(b, 1) /\ g[2] = Inside(<<>>, found)
    <3>1. ~ (1 \in 1..(start - 1))
      BY <1>1, <2>2
    <3>2. start = 1
      BY <3>1
    <3>. QED
      BY <1>4, <2>2, <3>2
  <2>. QED
    BY <2>1, <2>2 DEF Entered
<1>6. Len(c) \in 2..Len(b)
  BY <1>1, <1>2
<1>. QED
  BY <1>2, <1>3, <1>5, <1>6

\* A candidate up to k is its start and the body up to k.
LEMMA StartAndBody ==
    ASSUME NEW c \in Seq(Bytes), StartsAt(c, 1), NEW k \in 2..Len(c)
    PROVE  SubSeq(c, 1, k) = SOF \o SubSeq(c, 3, k)
<1>. DEFINE s == SubSeq(c, 3, k)
            t == SubSeq(c, 1, k)
            u == SOF \o s
<1>1. s \in Seq(Bytes) /\ Len(s) = k - 2 /\ \A i \in 1..(k - 2) : s[i] = c[i + 2]
  OBVIOUS
<1>2. t \in Seq(Bytes) /\ Len(t) = k /\ \A i \in 1..k : t[i] = c[i]
  OBVIOUS
<1>3. c[1] = "FE" /\ c[2] = "FE"
  <2>1. c[1 + 1] = "FE" /\ c[1] = "FE" /\ 1 + 1 = 2
    BY DEF StartsAt
  <2>. QED
    BY <2>1
<1>4. /\ u \in Seq(Bytes) /\ Len(u) = 2 + Len(s) /\ u[1] = "FE" /\ u[2] = "FE"
      /\ \A i \in 3..(2 + Len(s)) : u[i] = s[i - 2]
  BY <1>1, AfterStart, Zenon
<1>. HIDE DEF s, t, u
<1>5. Len(u) = k
  BY <1>1, <1>4
<1>6. ASSUME NEW i \in 1..k PROVE t[i] = u[i]
  <2>1. CASE i = 1 \/ i = 2
    BY <1>2, <1>3, <1>4, <2>1
  <2>2. CASE i # 1 /\ i # 2
    <3>1. i \in 3..(2 + Len(s)) /\ i - 2 \in 1..(k - 2) /\ (i - 2) + 2 = i
      BY <1>1, <2>2
    <3>. QED
      BY <1>1, <1>2, <1>4, <3>1
  <2>. QED
    BY <2>1, <2>2
<1>7. t = u
  BY <1>2, <1>4, <1>5, <1>6
<1>. QED
  BY <1>7 DEF s, t, u

\* A frame is its start, its body and its end.
LEMMA WholeFrame ==
    ASSUME NEW c \in Seq(Bytes), StartsAt(c, 1), NEW k \in 3..Len(c), c[k] = "FD"
    PROVE  SubSeq(c, 1, k) = SOF \o SubSeq(c, 3, k - 1) \o <<"FD">>
<1>. DEFINE old == SubSeq(c, 1, k - 1)
<1>1. SubSeq(c, 1, k) = Append(old, "FD")
  <2>1. 1 \in 1..(Len(c) + 1) /\ k \in 1..Len(c)
    OBVIOUS
  <2>. QED
    BY <2>1, SubSeqGrows
<1>2. old = SOF \o SubSeq(c, 3, k - 1)
  <2>1. k - 1 \in 2..Len(c)
    OBVIOUS
  <2>. QED
    BY <2>1, StartAndBody
<1>3. old \in Seq(Bytes) /\ "FD" \in Bytes
  BY DEF Bytes
<1>. HIDE DEF old
<1>4. Append(old, "FD") = old \o <<"FD">>
  BY <1>3, AppendIsConcat
<1>. QED
  BY <1>1, <1>2, <1>4

\* A pass finds what the reference finds, and drops two bytes or more or is the last.
LEMMA PassAgrees ==
    ASSUME NEW s \in Scanning, NEW g, Looking(s, g)
    PROVE  \/ Finished(Pass(s), g[Len(s.rest)])
           \/ /\ Len(Pass(s).rest) <= Len(s.rest) - 2
              /\ \E h : Looking(Pass(s), h) /\ h[Len(Pass(s).rest)] = g[Len(s.rest)]
<1>. DEFINE b == s.rest
            found == s.frames
<1>1. b \in Seq(Bytes) /\ found \in Seq(Frames) /\ s.partial \in BOOLEAN /\ Len(b) \in Nat
  BY DEF Scanning
<1>2. s.runs /\ Traced(g, b) /\ Entered(g, b, found) /\ (s.partial => StartsAt(b, 1))
  BY DEF Looking
<1>3. ASSUME \A j \in 1..Len(b) : ~StartsAt(b, j),
             Pass(s) = Stops(Kept(b), s.partial /\ Kept(b) # <<>>, found)
      PROVE  Finished(Pass(s), g[Len(b)])
  <2>1. ~StartsAt(b, 1)
    BY <1>1, <1>3 DEF StartsAt
  <2>2. g[0] = Outside(found) /\ s.partial = FALSE
    BY <1>1, <1>2, <2>1, Zenon DEF Entered
  <2>3. g[Len(b)] = IF Len(b) > 0 /\ b[Len(b)] = "FE" THEN HalfIn(found) ELSE Outside(found)
    <3>1. Len(b) \in 0..Len(b) /\ \A j \in 1..(Len(b) - 1) : ~StartsAt(b, j)
      BY <1>1, <1>3
    <3>. HIDE DEF b
    <3>. QED
      BY <1>1, <1>2, <2>2, <3>1, SearchOutside
  <2>4. Kept(b) = IF Len(b) > 0 /\ b[Len(b)] = "FE" THEN <<"FE">> ELSE <<>>
    <3>1. b # <<>> <=> Len(b) > 0
      <4>. HIDE DEF b
      <4>. QED
        BY <1>1
    <3>. QED
      BY <3>1, Zenon DEF Kept, Last
  <2>5. Pass(s) = Stops(Kept(b), FALSE, found)
    BY <1>3, <2>2, Zenon
  <2>6. CASE Len(b) > 0 /\ b[Len(b)] = "FE"
    <3>1. g[Len(b)] = HalfIn(found) /\ Kept(b) = <<"FE">>
      BY <2>3, <2>4, <2>6
    <3>. QED
      BY <2>5, <3>1 DEF Finished, Stops, Held, HalfIn
  <2>7. CASE ~ (Len(b) > 0 /\ b[Len(b)] = "FE")
    <3>1. g[Len(b)] = Outside(found) /\ Kept(b) = <<>>
      BY <2>3, <2>4, <2>7
    <3>. QED
      BY <2>5, <3>1 DEF Finished, Stops, Held, Outside
  <2>. QED
    BY <2>6, <2>7
<1>4. ASSUME NEW c \in Seq(Bytes), FirstFrame(b, c), Searched(s, c)
      PROVE  \/ Finished(Pass(s), g[Len(b)])
             \/ /\ Len(Pass(s).rest) <= Len(b) - 2
                /\ \E h : Looking(Pass(s), h) /\ h[Len(Pass(s).rest)] = g[Len(b)]
  <2>1. Len(c) \in 2..Len(b) /\ StartsAt(c, 1) /\ Len(c) \in Nat
    BY <1>1, <1>2, <1>4, Candidate
  <2>2. PICK h : Traced(h, c) /\ h[Len(c)] = g[Len(b)] /\ h[2] = Inside(<<>>, found)
    BY <1>1, <1>2, <1>4, Candidate
  <2>. HIDE DEF b, found
  <2>3. ASSUME NEW i \in 1..(Len(c) + 1), i >= 3, NEW new,
               \/ h[i - 1] = Outside(new)
               \/ StartsAt(c, i) /\ h[i + 1] = Inside(<<>>, new),
               Pass(s) = Moves(From(c, i), new)
        PROVE  /\ Len(Pass(s).rest) <= Len(b) - 2
               /\ \E q : Looking(Pass(s), q) /\ q[Len(Pass(s).rest)] = g[Len(b)]
    <3>. DEFINE d == From(c, i)
    <3>1. /\ d \in Seq(Bytes) /\ Len(d) = Len(c) + 1 - i
          /\ StartsAt(c, i) => StartsAt(d, 1) /\ Len(d) >= 2
      <4>1. StartsAt(c, i) => i \in 1..Len(c)
        BY <2>1 DEF StartsAt
      <4>. QED
        BY <4>1, FromIs, FirstFrameIs
    <3>2. PICK q : /\ Traced(q, d) /\ q[Len(d)] = h[Len(c)]
                   /\ \A k \in 0..(Len(c) + 1 - i) : q[k] = h[i - 1 + k]
      BY <2>2, TraceOfRest
    <3>3. Entered(q, d, new)
      <4>1. CASE h[i - 1] = Outside(new)
        <5>1. 0 \in 0..(Len(c) + 1 - i) /\ i - 1 + 0 = i - 1
          BY <2>1
        <5>. QED
          BY <3>2, <4>1, <5>1 DEF Entered
      <4>2. CASE StartsAt(c, i) /\ h[i + 1] = Inside(<<>>, new)
        <5>1. 2 \in 0..(Len(c) + 1 - i) /\ i - 1 + 2 = i + 1
          BY <2>1, <3>1, <4>2
        <5>. QED
          BY <3>1, <3>2, <4>2, <5>1 DEF Entered
      <4>. QED
        BY <2>3, <4>1, <4>2
    <3>. HIDE DEF d
    <3>4. Pass(s).rest = d /\ Pass(s).runs /\ Pass(s).frames = new /\ ~Pass(s).partial
      BY <2>3 DEF Moves, d
    <3>5. Looking(Pass(s), q)
      BY <3>2, <3>3, <3>4, Zenon DEF Looking
    <3>6. Len(d) <= Len(b) - 2
      BY <1>1, <2>1, <2>3, <3>1
    <3>. QED
      BY <2>2, <3>2, <3>4, <3>5, <3>6
  <2>4. ASSUME NEW k \in 3..Len(c), Unbroken(c, k)
        PROVE  /\ h[k - 1].mode = "inside" /\ h[k - 1].expected = found /\ h[k - 1] \in Reading
               /\ Single(c, k) => h[k - 1] = Inside(SubSeq(c, 3, k - 1), found)
               /\ h[k] = ReadByte(h[k - 1], c[k])
               /\ k + 1 \in 1..(Len(c) + 1) /\ k \in 1..(Len(c) + 1) /\ (k + 1) - 1 = k
    <3>1. k - 1 \in 2..Len(c) /\ \A j \in 3..(k - 1) : c[j] \notin {"FD", "FC"}
      BY <2>1, <2>4 DEF Unbroken
    <3>2. /\ h[k - 1].mode = "inside" /\ h[k - 1].expected = found
          /\ (\A j \in 3..((k - 1) - 1) : ~StartsAt(c, j)) => h[k - 1] = Inside(SubSeq(c, 3, k - 1), found)
      BY <2>2, <3>1, SearchInside
    <3>3. Single(c, k) => \A j \in 3..((k - 1) - 1) : ~StartsAt(c, j)
      BY <2>1 DEF Single
    <3>4. k \in 1..Len(c) /\ k - 1 \in 0..Len(c) /\ k + 1 \in 1..(Len(c) + 1) /\ k \in 1..(Len(c) + 1) /\ (k + 1) - 1 = k
      BY <2>1
    <3>. QED
      BY <2>2, <3>2, <3>3, <3>4 DEF Traced
  <2>5. ASSUME NEW k \in 3..Len(c), Collides(c, k), Pass(s) = Moves(From(c, k + 1), found)
        PROVE  /\ Len(Pass(s).rest) <= Len(b) - 2
               /\ \E q : Looking(Pass(s), q) /\ q[Len(Pass(s).rest)] = g[Len(b)]
    <3>1. Unbroken(c, k) /\ c[k] = "FC"
      BY <2>5 DEF Collides
    <3>2. h[k] = ReadByte(h[k - 1], "FC") /\ h[k - 1].mode = "inside" /\ h[k - 1].expected = found /\ h[k - 1] \in Reading
      BY <2>4, <3>1
    <3>3. h[k] = Outside(found)
      BY <3>2 DEF ReadByte, Outside, Reading
    <3>4. k + 1 \in 1..(Len(c) + 1) /\ k + 1 >= 3 /\ h[(k + 1) - 1] = Outside(found)
      BY <2>4, <3>1, <3>3
    <3>. QED
      BY <2>3, <2>5, <3>4
  <2>6. ASSUME NEW k \in 3..Len(c), Restarts(c, k), Pass(s) = Moves(From(c, k), found)
        PROVE  /\ Len(Pass(s).rest) <= Len(b) - 2
               /\ \E q : Looking(Pass(s), q) /\ q[Len(Pass(s).rest)] = g[Len(b)]
    <3>1. /\ StartsAt(c, k) /\ k + 1 \in 3..Len(c) /\ (k + 1) - 1 = k
          /\ c[k] = "FE" /\ c[k + 1] = "FE" /\ Unbroken(c, k + 1) /\ Single(c, k)
      <4>1. k \in 1..(Len(c) - 1) /\ c[k] = "FE" /\ c[k + 1] = "FE" /\ Unbroken(c, k + 1) /\ Single(c, k) /\ StartsAt(c, k)
        BY <2>6 DEF Restarts, StartsAt
      <4>2. k + 1 \in 3..Len(c) /\ (k + 1) - 1 = k
        BY <2>1, <4>1
      <4>. QED
        BY <4>1, <4>2
    <3>2. h[k + 1] = ReadByte(h[k], "FE")
      <4>1. h[k + 1] = ReadByte(h[(k + 1) - 1], c[k + 1])
        BY <2>4, <3>1
      <4>. QED
        BY <3>1, <4>1
    <3>3. h[k] = Inside(SubSeq(c, 3, k), found)
      <4>1. k \in 2..Len(c) /\ \A j \in 3..k : c[j] \notin {"FD", "FC"}
        BY <2>1, <3>1 DEF Unbroken
      <4>2. \A j \in 3..(k - 1) : ~StartsAt(c, j)
        BY <3>1 DEF Single
      <4>. QED
        BY <2>2, <4>1, <4>2, SearchInside
    <3>4. SubSeq(c, 3, k) # <<>> /\ Last(SubSeq(c, 3, k)) = "FE"
      <4>. DEFINE t == SubSeq(c, 3, k)
      <4>1. t \in Seq(Bytes) /\ Len(t) = k - 2 /\ \A i \in 1..(k - 2) : t[i] = c[i + 2]
        BY <2>1
      <4>. HIDE DEF t
      <4>2. k - 2 \in 1..(k - 2) /\ (k - 2) + 2 = k
        BY <2>1
      <4>3. t # <<>> /\ t[Len(t)] = "FE"
        BY <3>1, <4>1, <4>2
      <4>. QED
        BY <4>3 DEF t, Last
    <3>5. h[k + 1] = Inside(<<>>, found)
      BY <3>2, <3>3, <3>4 DEF ReadByte, Inside
    <3>6. k \in 1..(Len(c) + 1) /\ k >= 3
      BY <2>1
    <3>. QED
      BY <2>3, <2>6, <3>1, <3>5, <3>6
  <2>7. ASSUME NEW k \in 3..Len(c), Completes(c, k),
               Pass(s) = Moves(From(c, k + 1), IF k > MaxFrame THEN found ELSE Append(found, SubSeq(c, 1, k)))
        PROVE  /\ Len(Pass(s).rest) <= Len(b) - 2
               /\ \E q : Looking(Pass(s), q) /\ q[Len(Pass(s).rest)] = g[Len(b)]
    <3>. DEFINE new == IF k > MaxFrame THEN found ELSE Append(found, SubSeq(c, 1, k))
                t == SubSeq(c, 3, k - 1)
    <3>1. Unbroken(c, k) /\ Single(c, k) /\ c[k] = "FD"
      BY <2>7 DEF Completes
    <3>2. h[k] = ReadByte(h[k - 1], "FD") /\ h[k - 1] = Inside(t, found)
      BY <2>4, <3>1
    <3>3. Len(t) = k - 3
      BY <2>1
    <3>4. Len(t) + 3 > MaxFrame <=> k > MaxFrame
      BY <3>3, <2>1, FrameSizes
    <3>5. SubSeq(c, 1, k) = SOF \o t \o <<"FD">>
      BY <2>1, <3>1, WholeFrame
    <3>. HIDE DEF t
    <3>6. ReadByte(Inside(t, found), "FD")
             = Outside(IF Len(t) + 3 > MaxFrame THEN found ELSE Append(found, SOF \o t \o <<"FD">>))
      BY DEF ReadByte, Inside, Outside
    <3>7. h[k] = Outside(new)
      BY <3>2, <3>4, <3>5, <3>6, Zenon
    <3>8. k + 1 \in 1..(Len(c) + 1) /\ k + 1 >= 3 /\ h[(k + 1) - 1] = Outside(new) /\ Pass(s) = Moves(From(c, k + 1), new)
      BY <2>4, <2>7, <3>1, <3>7
    <3>. HIDE DEF new
    <3>. QED
      BY <2>3, <3>8
  <2>8. ASSUME Open(c), Pass(s) = Stops(c, TRUE, found)
        PROVE  Finished(Pass(s), g[Len(b)])
    <3>1. Len(c) \in 2..Len(c) /\ \A j \in 3..Len(c) : c[j] \notin {"FD", "FC"}
      BY <2>1, <2>8 DEF Open, Unbroken
    <3>2. \A j \in 3..(Len(c) - 1) : ~StartsAt(c, j)
      BY <2>1, <2>8 DEF Open, Single
    <3>3. h[Len(c)] = Inside(SubSeq(c, 3, Len(c)), found)
      BY <2>2, <3>1, <3>2, SearchInside
    <3>4. c = SOF \o SubSeq(c, 3, Len(c))
      <4>1. SubSeq(c, 1, Len(c)) = SOF \o SubSeq(c, 3, Len(c))
        BY <2>1, <3>1, StartAndBody
      <4>2. SubSeq(c, 1, Len(c)) = c
        OBVIOUS
      <4>. QED
        BY <4>1, <4>2
    <3>. DEFINE t == SubSeq(c, 3, Len(c))
    <3>. HIDE DEF t
    <3>5. g[Len(b)] = Inside(t, found) /\ c = SOF \o t
      BY <2>2, <3>3, <3>4 DEF t
    <3>6. Held(Inside(t, found)) = SOF \o t
      BY DEF Held, Inside
    <3>. QED
      BY <2>8, <3>5, <3>6 DEF Finished, Stops, Inside
  <2>. QED
    BY <1>4, <2>5, <2>6, <2>7, <2>8 DEF Searched, found
<1>. QED
  BY <1>2, <1>3, <1>4, PassIs

\* The loop finds what the reference finds.
LEMMA ScanAgrees ==
    ASSUME NEW b \in Seq(Bytes), Len(b) # 0, NEW g, Traced(g, b), g[0] = Outside(<<>>),
           NEW p \in BOOLEAN, p => StartsAt(b, 1)
    PROVE  Scan(b, p) \in Scanning /\ Finished(Scan(b, p), g[Len(b)])
<1>. DEFINE n == Len(b)
            v == [rest |-> b, partial |-> p, frames |-> <<>>, runs |-> TRUE]
            F == [x \in Scanning \X (1..n) |-> Pass(x[1])]
            Is(f) == f = [s \in SUBSET (1..n) |-> IF s = {} THEN v ELSE Pass(f[s \ {Max(s)}])]
<1>1. n \in Nat /\ DOMAIN b = 1..n /\ n # 0
  OBVIOUS
<1>2. v \in Scanning
  BY DEF Scanning
<1>3. F \in [Scanning \X (1..n) -> Scanning]
  <2>1. ASSUME NEW x \in Scanning \X (1..n) PROVE Pass(x[1]) \in Scanning
    BY PassTypes
  <2>. QED
    BY <2>1
<1>4. \A q \in Scanning, k \in 1..n : F[<<q, k>>] = Pass(q)
  OBVIOUS
<1>. HIDE DEF F, v
<1>5. PICK f : Iterates(f, Scanning, n, v, F)
  BY <1>1, <1>2, <1>3, Iterable
<1>6. Is(f)
  <2>1. ASSUME NEW s \in SUBSET (1..n)
        PROVE  f[s] = IF s = {} THEN v ELSE Pass(f[s \ {Max(s)}])
    BY <1>4, <1>5 DEF Iterates
  <2>2. f = [s \in SUBSET (1..n) |-> f[s]]
    BY <1>5 DEF Iterates
  <2>. QED
    BY <2>1, <2>2
<1>. DEFINE h == CHOOSE h : Is(h)
<1>7. Is(h)
  BY <1>6
<1>8. Scan(b, p) = h[1..n]
  BY <1>1 DEF Scan, FoldLeft, MapThenFoldSet, v
<1>. HIDE DEF h
<1>9. h[{}] = v
  BY <1>7
<1>10. \A s \in SUBSET (1..n) :
          s # {} /\ h[s \ {Max(s)}] \in Scanning /\ Max(s) \in s => h[s] = F[<<h[s \ {Max(s)}], Max(s)>>]
  BY <1>4, <1>7
<1>11. PICK q : InTurn(q, Scanning, n, v, F, h[1..n])
  <2>1. Iterating(h, Scanning, n, v, F)
    BY <1>9, <1>10 DEF Iterating
  <2>. HIDE DEF n, Is
  <2>. QED
    BY <1>1, <1>2, <1>3, <2>1, IteratesInTurn
<1>12. /\ q[0] = v /\ q[n] = Scan(b, p)
       /\ \A k \in 0..n : q[k] \in Scanning
       /\ \A k \in 1..n : q[k] = Pass(q[k - 1])
  <2>1. \A k \in 1..n : k - 1 \in 0..n
    BY <1>1
  <2>. HIDE DEF n
  <2>. QED
    BY <1>4, <1>8, <1>11, <2>1 DEF InTurn
<1>. DEFINE target == g[n]
            OnWay(k) == /\ Len(q[k].rest) <= (n - k) - k
                        /\ \E t : Looking(q[k], t) /\ t[Len(q[k].rest)] = target
            T == {k \in 0..n : Finished(q[k], target) \/ OnWay(k)}
<1>13. 0 \in T
  <2>1. v.rest = b /\ v.runs = TRUE /\ v.frames = <<>> /\ v.partial = p
    BY DEF v
  <2>2. Looking(v, g)
    BY <2>1 DEF Looking, Entered
  <2>3. OnWay(0)
    BY <1>1, <1>12, <2>1, <2>2
  <2>. QED
    BY <1>1, <2>3
<1>14. ASSUME NEW k \in 0..(n - 1), k \in T PROVE k + 1 \in T
  <2>1. k + 1 \in 0..n /\ k + 1 \in 1..n /\ (k + 1) - 1 = k /\ k \in 0..n
    BY <1>1
  <2>2. q[k + 1] = Pass(q[k]) /\ q[k] \in Scanning /\ q[k + 1] \in Scanning
    BY <1>12, <2>1
  <2>3. CASE Finished(q[k], target)
    <3>1. Pass(q[k]) = q[k]
      BY <2>3, Zenon DEF Pass, Finished
    <3>. QED
      BY <2>1, <2>2, <2>3, <3>1
  <2>4. CASE OnWay(k)
    <3>1. PICK t : Looking(q[k], t) /\ t[Len(q[k].rest)] = target
      BY <2>4
    <3>2. \/ Finished(q[k + 1], target)
          \/ /\ Len(q[k + 1].rest) <= Len(q[k].rest) - 2
             /\ \E w : Looking(q[k + 1], w) /\ w[Len(q[k + 1].rest)] = target
      BY <2>2, <3>1, PassAgrees
    <3>3. Len(q[k].rest) <= (n - k) - k /\ Len(q[k].rest) \in Nat /\ Len(q[k + 1].rest) \in Nat
      <4>1. q[k].rest \in Seq(Bytes) /\ q[k + 1].rest \in Seq(Bytes)
        BY <2>2 DEF Scanning
      <4>. QED
        BY <2>4, <4>1
    <3>4. Len(q[k + 1].rest) <= Len(q[k].rest) - 2 => Len(q[k + 1].rest) <= (n - (k + 1)) - (k + 1)
      <4>1. k \in Nat /\ n \in Nat
        BY <1>1, <2>1
      <4>. HIDE DEF n
      <4>. QED
        BY <3>3, <4>1
    <3>5. Finished(q[k + 1], target) \/ OnWay(k + 1)
      BY <3>2, <3>4
    <3>. QED
      BY <2>1, <3>5
  <2>. QED
    BY <1>14, <2>3, <2>4
<1>15. n \in T
  <2>1. \A k \in 0..n : k \in T
    <3>. HIDE DEF T, n
    <3>. QED
      BY <1>1, <1>13, <1>14, Upward
  <2>2. n \in 0..n
    BY <1>1
  <2>. HIDE DEF T, n
  <2>. QED
    BY <2>1, <2>2
<1>16. ~OnWay(n)
  <2>1. n \in 0..n
    BY <1>1
  <2>2. Len(q[n].rest) \in Nat
    <3>1. q[n].rest \in Seq(Bytes)
      BY <1>12, <2>1 DEF Scanning
    <3>. QED
      BY <3>1
  <2>3. ~ (Len(q[n].rest) <= (n - n) - n)
    <3>. HIDE DEF n
    <3>. QED
      BY <1>1, <2>2
  <2>. QED
    BY <2>3
<1>17. Finished(q[n], target)
  BY <1>15, <1>16
<1>. QED
  BY <1>1, <1>12, <1>17

-----------------------------------------------------------------------------
(* The line.                                                               *)

\* The reference as it stands between two chunks.
Now == [mode |-> mode, body |-> body, expected |-> <<>>]

FramingInv ==
    /\ Now \in Reading
    /\ buffer = Held(Now) /\ Len(buffer) <= MaxFrame
    /\ partial \in BOOLEAN /\ (partial <=> mode = "inside")
    /\ overflowed \in BOOLEAN /\ frames \in Seq(Frames)
    /\ ~overflowed => frames = expected

\* What is held, and its length.
LEMMA HeldIs ==
    ASSUME NEW r \in Reading
    PROVE  /\ Held(r) \in Seq(Bytes)
           /\ Held(r) = CASE r.mode = "outside" -> <<>>
                          [] r.mode = "half" -> <<"FE">>
                          [] r.mode = "inside" -> SOF \o r.body
           /\ r.mode = "inside" => Len(Held(r)) = Len(r.body) + 2 /\ StartsAt(Held(r), 1)
           /\ r.mode # "inside" => Len(Held(r)) <= 1
<1>1. r.mode \in {"outside", "half", "inside"} /\ r.body \in Seq(Bytes)
  BY DEF Reading
<1>2. CASE r.mode = "inside"
  <2>1. Held(r) = SOF \o r.body
    BY <1>2 DEF Held
  <2>. DEFINE t == SOF \o r.body
  <2>2. t \in Seq(Bytes) /\ Len(t) = 2 + Len(r.body) /\ t[1] = "FE" /\ t[2] = "FE"
    BY <1>1, AfterStart, Zenon
  <2>3. Len(r.body) \in Nat
    BY <1>1
  <2>. HIDE DEF t
  <2>4. Len(t) = Len(r.body) + 2 /\ 1 \in 1..(Len(t) - 1) /\ 1 + 1 = 2
    BY <2>2, <2>3
  <2>5. StartsAt(t, 1)
    BY <2>2, <2>4 DEF StartsAt
  <2>. QED
    BY <1>2, <2>1, <2>2, <2>4, <2>5 DEF t
<1>3. CASE r.mode = "outside"
  BY <1>3 DEF Held
<1>4. CASE r.mode = "half"
  BY <1>4 DEF Held, Bytes
<1>. QED
  BY <1>1, <1>2, <1>3, <1>4

\* Nothing is held at first.
LEMMA FramingInitially == FramingInit => FramingInv
<1>. SUFFICES ASSUME FramingInit PROVE FramingInv
  OBVIOUS
<1>1. Now = Outside(<<>>)
  BY DEF FramingInit, Now, Outside
<1>2. Outside(<<>>) \in Reading /\ Held(Outside(<<>>)) = <<>>
  BY DEF Outside, Reading, Clean, Held
<1>3. Len(<<>>) <= MaxFrame /\ <<>> \in Seq(Frames)
  BY FrameSizes
<1>. QED
  BY <1>1, <1>2, <1>3 DEF FramingInit, FramingInv

\* A chunk is read by both, and one is in error where the other is.
LEMMA FeedAgrees ==
    ASSUME FramingInv, NEW n \in 1..MaxChunk, NEW chunk \in [1..n -> Bytes], Feed(chunk)
    PROVE  FramingInv'
<1>. DEFINE r == Scan(buffer \o chunk, partial)
            q == ReadAll(Now, chunk)
            tooLong == q.mode = "inside" /\ Len(q.body) + 2 > MaxFrame
<1>1. chunk \in Seq(Bytes) /\ Len(chunk) # 0
  BY FrameSizes
<1>2. Now \in Reading /\ Now.expected = <<>> /\ Now.mode = mode /\ Now.body = body
  BY DEF FramingInv, Now
<1>3. PICK g : Traced(g, chunk) /\ g[0] = Now /\ g[Len(chunk)] = q
  BY <1>1, <1>2, ReadAllTraced
<1>4. q \in Reading
  <2>1. Len(chunk) \in 0..Len(chunk)
    BY <1>1
  <2>. QED
    BY <1>3, <2>1 DEF Traced
<1>5. /\ Held(Now) \in Seq(Bytes)
      /\ \E h : /\ Traced(h, Held(Now) \o chunk) /\ h[0] = Outside(<<>>)
                /\ h[Len(Held(Now) \o chunk)] = q
  <2>. HIDE DEF q
  <2>. QED
    BY <1>1, <1>2, <1>3, HeldTraced
<1>6. buffer = Held(Now) /\ partial \in BOOLEAN /\ (partial <=> mode = "inside")
  BY DEF FramingInv
<1>7. /\ buffer \o chunk \in Seq(Bytes) /\ Len(buffer \o chunk) # 0
      /\ partial => StartsAt(buffer \o chunk, 1)
  <2>. DEFINE all == buffer \o chunk
  <2>1. /\ all \in Seq(Bytes) /\ Len(all) = Len(buffer) + Len(chunk)
        /\ \A i \in 1..(Len(buffer) + Len(chunk)) : all[i] = IF i <= Len(buffer) THEN buffer[i] ELSE chunk[i - Len(buffer)]
    BY <1>1, <1>5, <1>6, ConcatProperties, Zenon
  <2>2. Len(buffer) \in Nat /\ Len(chunk) \in Nat
    BY <1>1, <1>5, <1>6
  <2>3. partial => Len(buffer) >= 2 /\ buffer[1] = "FE" /\ buffer[2] = "FE"
    <3>1. partial => StartsAt(buffer, 1)
      BY <1>2, <1>6, HeldIs
    <3>2. 1 + 1 = 2
      OBVIOUS
    <3>3. StartsAt(buffer, 1) => Len(buffer) >= 2 /\ buffer[1] = "FE" /\ buffer[1 + 1] = "FE"
      BY <2>2 DEF StartsAt
    <3>. QED
      BY <3>1, <3>2, <3>3
  <2>. HIDE DEF all
  <2>4. partial => all[1] = "FE" /\ all[2] = "FE" /\ 1 \in 1..(Len(all) - 1)
    BY <2>1, <2>2, <2>3
  <2>5. partial => StartsAt(all, 1)
    <3>1. 1 + 1 = 2
      OBVIOUS
    <3>. QED
      BY <2>4, <3>1 DEF StartsAt
  <2>6. Len(all) # 0
    BY <1>1, <2>1, <2>2
  <2>. QED
    BY <2>1, <2>5, <2>6 DEF all
<1>8. r \in Scanning /\ Finished(r, q)
  <2>1. PICK h : /\ Traced(h, buffer \o chunk) /\ h[0] = Outside(<<>>)
                 /\ h[Len(buffer \o chunk)] = q
    BY <1>5, <1>6
  <2>. DEFINE all == buffer \o chunk
  <2>2. Scan(all, partial) \in Scanning /\ Finished(Scan(all, partial), h[Len(all)])
    <3>. HIDE DEF all
    <3>. QED
      BY <1>6, <1>7, <2>1, ScanAgrees DEF all
  <2>. QED
    BY <2>1, <2>2
<1>9. /\ overflowed' = (Len(r.rest) > MaxFrame)
      /\ buffer' = IF overflowed' THEN <<>> ELSE r.rest
      /\ frames' = IF overflowed' THEN <<>> ELSE r.frames
      /\ partial' = (r.partial /\ ~overflowed')
      /\ expected' = q.expected
      /\ mode' = IF tooLong THEN "outside" ELSE q.mode
      /\ body' = IF tooLong THEN <<>> ELSE q.body
  BY Zenon DEF Feed, ReadAll, Now
<1>. HIDE DEF r, q
<1>10. /\ r.rest = Held(q) /\ r.frames = q.expected /\ (r.partial <=> q.mode = "inside")
       /\ r.partial \in BOOLEAN /\ r.frames \in Seq(Frames)
  BY <1>8 DEF Finished, Scanning
<1>11. overflowed' \in BOOLEAN /\ (overflowed' <=> tooLong)
  <2>1. q.mode = "inside" => Len(Held(q)) = Len(q.body) + 2
    BY <1>4, HeldIs
  <2>2. q.mode # "inside" => Len(Held(q)) <= 1
    BY <1>4, HeldIs
  <2>3. Len(Held(q)) \in Nat
    BY <1>4, HeldIs
  <2>4. Len(r.rest) > MaxFrame <=> tooLong
    BY <1>10, <2>1, <2>2, <2>3, FrameSizes
  <2>5. (Len(r.rest) > MaxFrame) \in BOOLEAN
    OBVIOUS
  <2>. HIDE DEF tooLong
  <2>. QED
    BY <1>9, <2>4, <2>5, Zenon
<1>12. /\ q \in [mode : {"outside", "half", "inside"}, body : Seq(Bytes), expected : Seq(Frames)]
       /\ Clean(q.body) /\ (q.mode # "inside" => q.body = <<>>)
  BY <1>4 DEF Reading
<1>. HIDE DEF tooLong
<1>13. CASE tooLong
  <2>1. overflowed' /\ buffer' = <<>> /\ frames' = <<>> /\ partial' = FALSE /\ mode' = "outside" /\ body' = <<>>
    BY <1>9, <1>11, <1>13, Zenon
  <2>2. Now' = Outside(<<>>)
    BY <2>1 DEF Now, Outside
  <2>3. Outside(<<>>) \in Reading /\ Held(Outside(<<>>)) = <<>>
    BY DEF Outside, Reading, Clean, Held
  <2>4. Len(<<>>) <= MaxFrame /\ <<>> \in Seq(Frames)
    BY FrameSizes
  <2>. QED
    BY <1>11, <2>1, <2>2, <2>3, <2>4 DEF FramingInv
<1>14. CASE ~tooLong
  <2>1. /\ ~overflowed' /\ buffer' = Held(q) /\ frames' = q.expected /\ expected' = q.expected
        /\ mode' = q.mode /\ body' = q.body
    BY <1>9, <1>10, <1>11, <1>14, Zenon
  <2>2. partial' \in BOOLEAN /\ (partial' <=> q.mode = "inside")
    BY <1>9, <1>10, <2>1, Zenon
  <2>3. Now' = [mode |-> q.mode, body |-> q.body, expected |-> <<>>]
    BY <2>1 DEF Now
  <2>4. Now' \in Reading
    BY <1>12, <2>3 DEF Reading
  <2>5. Held(Now') = Held(q)
    BY <2>3 DEF Held
  <2>6. Len(buffer') <= MaxFrame
    <3>1. ~ (Len(r.rest) > MaxFrame)
      BY <1>9, <2>1, Zenon
    <3>2. Len(Held(q)) \in Nat
      BY <1>4, HeldIs
    <3>. QED
      BY <1>10, <2>1, <3>1, <3>2, FrameSizes
  <2>7. frames' \in Seq(Frames)
    BY <1>10, <2>1
  <2>8. buffer' = Held(Now)'
    BY <2>1, <2>5
  <2>. QED
    BY <1>11, <2>1, <2>2, <2>4, <2>6, <2>7, <2>8 DEF FramingInv
<1>. QED
  BY <1>13, <1>14

\* Every step keeps the invariant.
LEMMA FramingStep == FramingInv /\ [FramingNext]_framingAll => FramingInv'
<1>. SUFFICES ASSUME FramingInv, [FramingNext]_framingAll PROVE FramingInv'
  OBVIOUS
<1>1. CASE Expire
  <2>1. /\ buffer' = <<>> /\ partial' = FALSE /\ frames' = <<>> /\ overflowed' = FALSE /\ expected' = <<>>
        /\ mode' = "outside" /\ body' = <<>>
    BY <1>1 DEF Expire
  <2>2. Now' = Outside(<<>>)
    BY <2>1 DEF Now, Outside
  <2>3. Outside(<<>>) \in Reading /\ Held(Outside(<<>>)) = <<>>
    BY DEF Outside, Reading, Clean, Held
  <2>4. Len(<<>>) <= MaxFrame /\ <<>> \in Seq(Frames)
    BY FrameSizes
  <2>. QED
    BY <2>1, <2>2, <2>3, <2>4 DEF FramingInv
<1>2. CASE \E n \in 1..MaxChunk : \E chunk \in [1..n -> Bytes] : Feed(chunk)
  BY <1>2, FeedAgrees
<1>3. CASE UNCHANGED framingAll
  BY <1>3 DEF framingAll, FramingInv, Now
<1>. QED
  BY <1>1, <1>2, <1>3 DEF FramingNext

\* The codec holds what the byte-by-byte reading is in, and has found its frames
\* (SerialFrameCodec of serial_civ_link.py).
THEOREM FramingInvariance == FramingSpec => []FramingInv
<1>. QED
  BY FramingInitially, FramingStep, PTL DEF FramingSpec

\* The types of the codec, and the lengths of what it holds and returns (feed() and
\* expire_partial() of SerialFrameCodec).
THEOREM FramingTypeCorrect == FramingSpec => []FramingTypeOK
<1>1. FramingInv => FramingTypeOK
  <2>. SUFFICES ASSUME FramingInv PROVE FramingTypeOK
    OBVIOUS
  <2>1. Now \in Reading /\ mode = Now.mode
    BY DEF FramingInv, Now
  <2>2. buffer \in Seq(Bytes) /\ Len(buffer) <= MaxFrame
    BY <2>1, HeldIs DEF FramingInv
  <2>3. \A f \in ToSet(frames) : Len(f) \in 3..MaxFrame
    <3>1. frames \in Seq(Frames)
      BY DEF FramingInv
    <3>. QED
      BY <3>1 DEF ToSet, Frames
  <2>4. {partial, overflowed} \subseteq BOOLEAN
    BY Zenon DEF FramingInv
  <2>. QED
    BY <2>1, <2>2, <2>3, <2>4 DEF FramingTypeOK, Reading
<1>. QED
  BY <1>1, FramingInvariance, PTL

\* However the line cuts and corrupts the bytes, and whatever times out, the codec
\* finds the frames that a byte-by-byte reading finds, for any bytes, sizes of the
\* chunks and limit of a frame (feed() and expire_partial() of SerialFrameCodec).
THEOREM FramesAlwaysAgree == FramingSpec => []FramesAgree
<1>1. FramingInv => FramesAgree
  <2>. SUFFICES ASSUME FramingInv PROVE FramesAgree
    OBVIOUS
  <2>1. Now \in Reading /\ mode = Now.mode /\ body = Now.body
    BY DEF FramingInv, Now
  <2>2. buffer = CASE Now.mode = "outside" -> <<>>
                   [] Now.mode = "half" -> <<"FE">>
                   [] Now.mode = "inside" -> SOF \o Now.body
    BY <2>1, HeldIs DEF FramingInv
  <2>3. buffer = CASE mode = "outside" -> <<>>
                   [] mode = "half" -> <<"FE">>
                   [] mode = "inside" -> SOF \o body
    BY <2>1, <2>2, Zenon
  <2>. QED
    BY <2>3 DEF FramingInv, FramesAgree
<1>. QED
  BY <1>1, FramingInvariance, PTL
=============================================================================
