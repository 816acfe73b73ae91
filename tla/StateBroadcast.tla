--------------------------- MODULE StateBroadcast ---------------------------
(* How the web server tells its control clients the radio's state: one     *)
(* encoder (web/_delta_encoder.py) for all of them, a bounded queue for    *)
(* each (web/handlers/control.py), and broadcasts that are throttled       *)
(* (web/server.py).  A client applies full and delta messages to its view. *)
(***************************************************************************)
EXTENDS Integers, Sequences, SequencesExt

CONSTANTS Viewers,
          Fields,
          Absent,       \* a field that the state does not have
          FullInterval, \* full_state_interval
          QueueLimit    \* maxsize of a client's event queue

ASSUME BroadcastLimits == FullInterval \in Nat /\ QueueLimit \in Nat

VARIABLES
    state,      \* what build_public_state() returns
    previous,   \* _previous_state, or Absent before the first broadcast
    deltas,     \* _delta_count
    viewer,     \* each client: away, being sent its first state, listening
    events,     \* its event queue
    view,       \* what it has put together
    whole,      \* history: it has got everything since a state that was previous
    held        \* history: broadcasts it has got in a row, as far as they matter

broadcastAll == <<state, previous, deltas, viewer, events, view, whole, held>>

Values == {0, Absent}
Blank  == [f \in Fields |-> Absent]

Full(s)  == [type |-> "full", data |-> s]
Delta(d) == [type |-> "delta", data |-> d]
Note     == [type |-> "note", data |-> <<>>]

\* apply_delta(): a delta names the fields that changed or went away.
Applied(v, e) ==
    CASE e.type = "full" -> e.data
      [] e.type = "delta" -> [f \in Fields |-> IF f \in DOMAIN e.data THEN e.data[f] ELSE v[f]]
      [] OTHER -> v

BroadcastInit ==
    /\ state \in [Fields -> {0, Absent}]
    /\ previous = Absent /\ deltas = 0
    /\ viewer = [c \in Viewers |-> "away"] /\ events = [c \in Viewers |-> <<>>]
    /\ view = [c \in Viewers |-> Blank]
    /\ whole = [c \in Viewers |-> FALSE] /\ held = [c \in Viewers |-> 0]

-----------------------------------------------------------------------------
(* Broadcasts.                                                             *)

\* The radio reports a change; whether it is broadcast depends on the throttle.
Change(f) ==
    /\ \E v \in Values \ {state[f]} : state' = [state EXCEPT ![f] = v]
    /\ UNCHANGED <<previous, deltas, viewer, events, view, whole, held>>

\* Mutant: fields that went away are not told.
DifferencesPresent(old, new) == [f \in {g \in Fields : new[g] # old[g] /\ new[g] # Absent} |-> new[f]]

\* The fields that changed, appeared or went away.
Differences(old, new) == [f \in {g \in Fields : new[g] # old[g]} |-> new[f]]

NeedsFull == previous = Absent \/ deltas >= FullInterval

\* encode(): the message for everybody.
Encoded == IF NeedsFull THEN Full(state) ELSE Delta(Differences(previous, state))

\* put_nowait() fails on a full queue.
Fits(c) == viewer[c] = "listening" /\ Len(events[c]) < QueueLimit

\* _broadcast_state_update(), not throttled.
Broadcast ==
    /\ events' = [c \in Viewers |-> IF Fits(c) THEN Append(events[c], Encoded) ELSE events[c]]
    /\ previous' = state
    /\ deltas' = IF NeedsFull THEN 0 ELSE deltas + 1
    /\ whole' = [c \in Viewers |-> Fits(c) /\ (whole[c] \/ NeedsFull)]
    /\ held' = [c \in Viewers |->
                  IF ~Fits(c) THEN 0 ELSE IF held[c] > FullInterval THEN held[c] ELSE held[c] + 1]
    /\ UNCHANGED <<state, viewer, view>>

\* broadcast_event(), broadcast_notification() and spots share the queue.
Notify ==
    /\ events' = [c \in Viewers |-> IF Fits(c) THEN Append(events[c], Note) ELSE events[c]]
    /\ UNCHANGED <<state, previous, deltas, viewer, view, whole, held>>

-----------------------------------------------------------------------------
(* A client.                                                               *)

\* run(): hello, and the state of this moment as the first full message.
Arrive(c) ==
    /\ viewer[c] = "away"
    /\ viewer' = [viewer EXCEPT ![c] = "first"]
    /\ view' = [view EXCEPT ![c] = state]
    /\ UNCHANGED <<state, previous, deltas, events, whole, held>>

\* When it is sent, the client is registered for what is broadcast from now on.
Register(c) ==
    /\ viewer[c] = "first"
    /\ viewer' = [viewer EXCEPT ![c] = "listening"]
    /\ whole' = [whole EXCEPT ![c] = (view[c] = previous)]
    /\ held' = [held EXCEPT ![c] = 0]
    /\ UNCHANGED <<state, previous, deltas, events, view>>

\* _event_sender_loop(): the oldest event is sent and applied.
Send(c) ==
    /\ viewer[c] = "listening" /\ events[c] # <<>>
    /\ view' = [view EXCEPT ![c] = Applied(@, Head(events[c]))]
    /\ events' = [events EXCEPT ![c] = Tail(@)]
    /\ UNCHANGED <<state, previous, deltas, viewer, whole, held>>

Leave(c) ==
    /\ viewer[c] # "away"
    /\ viewer' = [viewer EXCEPT ![c] = "away"] /\ events' = [events EXCEPT ![c] = <<>>]
    /\ view' = [view EXCEPT ![c] = Blank] /\ whole' = [whole EXCEPT ![c] = FALSE]
    /\ held' = [held EXCEPT ![c] = 0]
    /\ UNCHANGED <<state, previous, deltas>>

BroadcastNext ==
    \/ \E f \in Fields : Change(f)
    \/ Broadcast \/ Notify
    \/ \E c \in Viewers : Arrive(c) \/ Register(c) \/ Send(c) \/ Leave(c)

BroadcastSpec == BroadcastInit /\ [][BroadcastNext]_broadcastAll

-----------------------------------------------------------------------------
(* Properties.                                                             *)

BroadcastTypeOK ==
    /\ state \in [Fields -> Values] /\ deltas \in 0..FullInterval
    /\ \A c \in Viewers : Len(events[c]) <= QueueLimit /\ view[c] \in [Fields -> Values]
    /\ \A c \in Viewers : viewer[c] # "listening" => events[c] = <<>> /\ held[c] = 0

\* What a client will show when it has worked off its queue is what was last
\* broadcast, if it was given every broadcast since it and the encoder agreed, or
\* the last FullInterval + 1 of them: dropped messages and a late registration
\* are healed by the periodic full state.
ViewAgrees ==
    \A c \in Viewers :
        whole[c] \/ held[c] > FullInterval => FoldLeft(Applied, view[c], events[c]) = previous
=============================================================================
