----------------------------- MODULE AudioPath -----------------------------
(* How received audio reaches its consumers: subscriptions on the AudioBus *)
(* (audio/bus.py), the radio's audio stream, opened and closed on demand   *)
(* (runtime/_audio_runtime_mixin.py, audio/lan_stream.py), and the         *)
(* reconnect loop that takes the stream down and, from a snapshot, puts it *)
(* up again (runtime/radio_reconnect.py, runtime/_audio_recovery.py).      *)
(***************************************************************************)
EXTENDS Integers, Sequences, SequencesExt, FiniteSets

CONSTANTS Consumers,    \* the web server's broadcaster, the audio bridge
          MaxSubs,      \* bound: subscriptions
          MaxDrops,     \* bound: losses of the connection
          MaxTries,     \* bound: failing attempts to reconnect
          MaxTalks      \* bound: transmissions

ASSUME AudioLimits == MaxSubs \in Nat /\ MaxDrops \in Nat /\ MaxTries \in Nat /\ MaxTalks \in Nat

VARIABLES
    mine,         \* a consumer's subscription, 0 without
    made,         \* subscriptions made so far, numbered from 1
    subscribers,  \* _subscribers of the bus
    rxActive,     \* _rx_active of the bus
    removals,     \* subscriptions whose _remove_subscriber task has not begun
    lockQueue,    \* calls at the lock of the bus; the first holds it
    holding,      \* the first is at an await
    busStop,      \* the stream the bus is stopping, 0 without
    streams,      \* every AudioStream made, in order
    cur,          \* the radio's _audio_stream, 0 without
    opening,      \* who awaits _ensure_audio_transport()
    userCallback, \* _opus_rx_user_callback is set
    up,           \* the radio is connected
    loop,         \* where the reconnect loop is
    snapshot,     \* what it remembers of the audio
    drops, tries, talks,
    retried,      \* history: an attempt to reconnect has failed
    disturbed     \* history: see Undisturbed

busVars   == <<mine, made, subscribers, rxActive, removals, lockQueue, holding, busStop>>
streamVars == <<streams, cur, opening, userCallback>>
loopVars  == <<up, loop, snapshot, drops, tries, retried>>
audioAll  == <<busVars, streamVars, loopVars, talks, disturbed>>

NewStream == [state |-> "idle", task |-> FALSE, callback |-> FALSE]
NoAudio   == [rx |-> FALSE, tx |-> FALSE]

AudioInit ==
    /\ mine = [c \in Consumers |-> 0] /\ made = 0
    /\ subscribers = {} /\ rxActive = FALSE
    /\ removals = {} /\ lockQueue = <<>> /\ holding = FALSE /\ busStop = 0
    /\ streams = <<>> /\ cur = 0 /\ opening = {} /\ userCallback = FALSE
    /\ up = TRUE /\ loop = "idle" /\ snapshot = NoAudio
    /\ drops = 0 /\ tries = 0 /\ talks = 0 /\ retried = FALSE /\ disturbed = FALSE

-----------------------------------------------------------------------------
(* The stream.                                                             *)

CanStart(s)  == s.state = "idle"
Started(s)   == [state |-> "receiving", task |-> TRUE, callback |-> TRUE]

\* stop_rx() up to and after its await; it does nothing while transmitting.
CanStop(s)   == s.state = "receiving"
Stopping(s)  == [s EXCEPT !.state = "idle"]
Stopped(s)   == [s EXCEPT !.task = FALSE, !.callback = FALSE]

Talking(s)   == [s EXCEPT !.state = "transmitting"]
Hushed(s)    == [s EXCEPT !.state = IF @ # "transmitting" THEN @
                                    ELSE IF s.task THEN "receiving" ELSE "idle"]

\* start_audio_rx_opus() with its stream at hand, number k of ss.
StartRx(ss, k) ==
    /\ userCallback' = TRUE
    /\ streams' = IF CanStart(ss[k]) THEN [ss EXCEPT ![k] = Started(@)] ELSE ss

\* What a call of the bus does outside a quiet, connected radio is held against it.
Undisturbed == up /\ loop = "idle"

-----------------------------------------------------------------------------
(* Consumers.                                                              *)

\* start() of a new subscription.
Join(c) ==
    /\ mine[c] = 0 /\ made < MaxSubs
    /\ made' = made + 1 /\ mine' = [mine EXCEPT ![c] = made']
    /\ lockQueue' = Append(lockQueue, [op |-> "add", sub |-> made'])
    /\ UNCHANGED <<subscribers, rxActive, removals, holding, busStop, streamVars, loopVars, talks, disturbed>>

\* stop(), after start() has returned: a task is made for the removal.
Leave(c) ==
    /\ mine[c] # 0
    /\ ~Contains(lockQueue, [op |-> "add", sub |-> mine[c]])
    /\ mine' = [mine EXCEPT ![c] = 0] /\ removals' = removals \union {mine[c]}
    /\ UNCHANGED <<made, subscribers, rxActive, lockQueue, holding, busStop, streamVars, loopVars, talks, disturbed>>

RemovalBegins(n) ==
    /\ n \in removals /\ removals' = removals \ {n}
    /\ lockQueue' = Append(lockQueue, [op |-> "remove", sub |-> n])
    /\ UNCHANGED <<mine, made, subscribers, rxActive, holding, busStop, streamVars, loopVars, talks, disturbed>>

-----------------------------------------------------------------------------
(* The bus, one call at a time.                                            *)

Turn(op) == lockQueue # <<>> /\ ~holding /\ Head(lockQueue).op = op

\* _add_subscriber(): the first subscriber starts the audio.  Its failure is
\* logged and swallowed.
AddSubscriber ==
    /\ Turn("add")
    /\ subscribers' = subscribers \union {Head(lockQueue).sub}
    /\ IF ~rxActive /\ up /\ cur = 0
       THEN /\ holding' = TRUE /\ opening' = opening \union {"bus"}
            /\ disturbed' = (disturbed \/ ~Undisturbed)
            /\ UNCHANGED <<lockQueue, rxActive, streams, userCallback>>
       ELSE /\ lockQueue' = Tail(lockQueue)
            /\ IF ~rxActive /\ up
               THEN /\ StartRx(streams, cur) /\ rxActive' = CanStart(streams[cur])
                    /\ disturbed' = (disturbed \/ ~Undisturbed \/ ~rxActive')
               ELSE /\ disturbed' = (disturbed \/ ~Undisturbed)
                    /\ UNCHANGED <<rxActive, streams, userCallback>>
            /\ UNCHANGED <<holding, opening>>
    /\ UNCHANGED <<mine, made, removals, busStop, cur, loopVars, talks>>

\* The audio port is open, or not in time.
BusOpened(ok) ==
    /\ "bus" \in opening /\ opening' = opening \ {"bus"}
    /\ holding' = FALSE /\ lockQueue' = Tail(lockQueue)
    /\ IF ok THEN /\ cur' = Len(streams) + 1
                  /\ StartRx(Append(streams, NewStream), cur') /\ rxActive' = TRUE
             ELSE UNCHANGED <<cur, streams, userCallback, rxActive>>
    /\ disturbed' = (disturbed \/ ~Undisturbed \/ ~ok)
    /\ UNCHANGED <<mine, made, subscribers, removals, busStop, loopVars, talks>>

\* Mutant: the lock is released before the stream is stopped.
LetsGo == FALSE

\* The stream is stopped with the lock held.
KeepsLock == TRUE

\* _remove_subscriber(): the last subscriber stops the audio.
RemoveSubscriber ==
    /\ Turn("remove")
    /\ subscribers' = subscribers \ {Head(lockQueue).sub}
    /\ IF rxActive /\ subscribers' = {}
       THEN /\ rxActive' = FALSE /\ userCallback' = FALSE
            /\ IF cur # 0 /\ CanStop(streams[cur])
               THEN /\ busStop' = cur /\ streams' = [streams EXCEPT ![cur] = Stopping(@)]
                    /\ holding' = KeepsLock
                    /\ lockQueue' = IF KeepsLock THEN lockQueue ELSE Tail(lockQueue)
               ELSE lockQueue' = Tail(lockQueue) /\ UNCHANGED <<busStop, streams, holding>>
       ELSE lockQueue' = Tail(lockQueue) /\ UNCHANGED <<rxActive, userCallback, busStop, streams, holding>>
    /\ disturbed' = (disturbed \/ ~Undisturbed)
    /\ UNCHANGED <<mine, made, removals, cur, opening, loopVars, talks>>

BusStopEnds ==
    /\ busStop # 0 /\ busStop' = 0
    /\ streams' = [streams EXCEPT ![busStop] = Stopped(@)]
    /\ lockQueue' = IF KeepsLock THEN Tail(lockQueue) ELSE lockQueue
    /\ holding' = (holding /\ ~KeepsLock)
    /\ UNCHANGED <<mine, made, subscribers, rxActive, removals, cur, opening, userCallback, loopVars, talks, disturbed>>

-----------------------------------------------------------------------------
(* Transmitting, on a stream that exists.                                  *)

Talk ==
    /\ up /\ cur # 0 /\ streams[cur].state # "transmitting" /\ talks < MaxTalks
    /\ talks' = talks + 1 /\ disturbed' = TRUE
    /\ streams' = [streams EXCEPT ![cur] = Talking(@)]
    /\ UNCHANGED <<busVars, cur, opening, userCallback, loopVars>>

Hush ==
    /\ cur # 0 /\ streams[cur].state = "transmitting"
    /\ streams' = [streams EXCEPT ![cur] = Hushed(@)]
    /\ UNCHANGED <<busVars, cur, opening, userCallback, loopVars, talks, disturbed>>

-----------------------------------------------------------------------------
(* The connection.                                                         *)

\* The watchdog gives the connection up; the loop of the loss before has ended.
Lost ==
    /\ up /\ loop = "idle" /\ drops < MaxDrops
    /\ up' = FALSE /\ loop' = "attempt" /\ drops' = drops + 1
    /\ UNCHANGED <<snapshot, tries, retried, busVars, streamVars, talks, disturbed>>

\* capture_snapshot().
Captured ==
    IF cur = 0 \/ streams[cur].state = "idle" THEN NoAudio
    ELSE [rx |-> userCallback, tx |-> streams[cur].state = "transmitting"]

\* An attempt of reconnect_loop() begins: snapshot, then stop_rx() and stop_tx().
Attempt ==
    /\ loop = "attempt"
    /\ snapshot' = Captured
    /\ IF cur # 0 /\ CanStop(streams[cur])
       THEN /\ streams' = [streams EXCEPT ![cur] = Stopping(@)] /\ loop' = "stopping"
            /\ UNCHANGED cur
       ELSE /\ streams' = IF cur = 0 THEN streams ELSE [streams EXCEPT ![cur] = Hushed(@)]
            /\ cur' = 0 /\ loop' = "connecting"
    /\ UNCHANGED <<busVars, opening, userCallback, up, drops, tries, retried, talks, disturbed>>

LoopStopEnds ==
    /\ loop = "stopping" /\ loop' = "connecting"
    /\ streams' = [streams EXCEPT ![cur] = Stopped(@)] /\ cur' = 0
    /\ UNCHANGED <<busVars, opening, userCallback, up, snapshot, drops, tries, retried, talks, disturbed>>

ConnectFails ==
    /\ loop = "connecting" /\ tries < MaxTries
    /\ tries' = tries + 1 /\ retried' = TRUE
    /\ loop' \in {"attempt", "idle"}    \* again, or never for a permanent error
    /\ UNCHANGED <<busVars, streamVars, up, snapshot, drops, talks, disturbed>>

\* recover() with the stream k of ss: the callback is started again, then the
\* transmission; the first that fails ends it.
Recover(ss, k) ==
    /\ userCallback' = (userCallback \/ snapshot.rx)
    /\ LET fails    == snapshot.rx /\ ~CanStart(ss[k])
           received == IF snapshot.rx /\ ~fails THEN [ss EXCEPT ![k] = Started(@)] ELSE ss
       IN  /\ streams' = IF snapshot.tx /\ ~fails THEN [received EXCEPT ![k] = Talking(@)] ELSE received
           /\ disturbed' = (disturbed \/ fails)

ConnectWorks ==
    /\ loop = "connecting" /\ up' = TRUE
    /\ IF snapshot = NoAudio
       THEN loop' = "idle" /\ UNCHANGED <<opening, streams, userCallback, disturbed>>
       ELSE IF cur = 0
       THEN /\ loop' = "recovering" /\ opening' = opening \union {"loop"}
            /\ UNCHANGED <<streams, userCallback, disturbed>>
       ELSE loop' = "idle" /\ Recover(streams, cur) /\ UNCHANGED opening
    /\ UNCHANGED <<busVars, cur, snapshot, drops, tries, retried, talks>>

LoopOpened(ok) ==
    /\ "loop" \in opening /\ opening' = opening \ {"loop"}
    /\ loop' = "idle"
    /\ IF ok THEN cur' = Len(streams) + 1 /\ Recover(Append(streams, NewStream), cur')
             ELSE disturbed' = TRUE /\ UNCHANGED <<cur, streams, userCallback>>
    /\ UNCHANGED <<busVars, up, snapshot, drops, tries, retried, talks>>

AudioNext ==
    \/ \E c \in Consumers : Join(c) \/ Leave(c)
    \/ \E n \in 1..MaxSubs : RemovalBegins(n)
    \/ AddSubscriber \/ RemoveSubscriber \/ BusStopEnds
    \/ \E ok \in BOOLEAN : BusOpened(ok) \/ LoopOpened(ok)
    \/ Talk \/ Hush
    \/ Lost \/ Attempt \/ LoopStopEnds \/ ConnectFails \/ ConnectWorks

AudioSpec == AudioInit /\ [][AudioNext]_audioAll

-----------------------------------------------------------------------------
(* Properties.                                                             *)

AudioTypeOK ==
    /\ mine \in [Consumers -> 0..MaxSubs] /\ made \in 0..MaxSubs
    /\ subscribers \subseteq 1..made /\ removals \subseteq 1..made
    /\ lockQueue \in Seq([op : {"add", "remove"}, sub : 1..MaxSubs])
    /\ \A s \in ToSet(streams) :
          s \in [state : {"idle", "receiving", "transmitting"}, task : BOOLEAN, callback : BOOLEAN]
    /\ cur \in 0..Len(streams) /\ busStop \in 0..Len(streams)
    /\ opening \subseteq {"bus", "loop"}
    /\ loop \in {"idle", "attempt", "stopping", "connecting", "recovering"}
    /\ {rxActive, holding, userCallback, up, retried, disturbed} \subseteq BOOLEAN

\* Nobody is at work, and the radio is connected.
Settled == up /\ loop = "idle" /\ lockQueue = <<>> /\ removals = {} /\ opening = {} /\ busStop = 0

Receiving == cur # 0 /\ streams[cur] = Started(NewStream)

\* Consumers come and go in any order, the last leaves while the next arrives,
\* the connection is lost and comes back at the first attempt: nobody is left on
\* a dying stream and no stream is left to nobody.
NoDyingStream ==
    Settled /\ ~disturbed /\ ~retried =>
        /\ subscribers = { mine[c] : c \in Consumers } \ {0}
        /\ rxActive <=> subscribers # {}
        /\ Receiving <=> subscribers # {}

\* Audio that was received when the connection was lost is received when it is
\* back.
AudioComesBack == Settled /\ ~disturbed /\ subscribers # {} => Receiving
=============================================================================
