--------------------------- MODULE RigctldHandler --------------------------
(***************************************************************************)
(* What the rigctld handler (rigctld/handler.py) tells its clients about   *)
(* the main receiver.  Writes are sent and forgotten by the radio layer,   *)
(* and RadioState learns of them only when the radio reports them, so the  *)
(* handler remembers what was written: _pending for frequency and mode,    *)
(* _ptt_state for the transmitter, and a fallback cache for the time       *)
(* before the first report.  The three are alike and do not touch each     *)
(* other; a behaviour is about one of them, its topic.                     *)
(***************************************************************************)
EXTENDS Integers, Sequences, FiniteSets

CONSTANTS Callers,
          Nothing,      \* None, for whatever there is none of
          MaxReports,   \* bound: reports of the radio under way
          MaxCalls      \* bound for each topic: calls at once

VARIABLES
    topic,      \* freq, mode or ptt
    radio,      \* what the radio really does
    reports,    \* its reports under way
    shown,      \* RadioState, Nothing before the first report
    pending,    \* _pending or _ptt_state; Nothing if there is none
    cache,      \* the fallback cache, or Nothing when it is not fresh
    call,       \* the call of each client: idle, reading, or a write at a stage
    expected    \* history: what a client may rely on to read, or Nothing

handlerVars == <<pending, cache>>
handlerAll  == <<topic, radio, reports, shown, handlerVars, call, expected>>

Idle    == [stage |-> "idle"]

\* Filter 0 of a write stands for "leave it to the radio"; only packet modes
\* write the DATA flag.
Reported(t) ==
    IF t = "freq" THEN {1, 2} ELSE IF t = "ptt" THEN BOOLEAN
    ELSE [mode : {"USB", "CW"}, filter : 1..2, data : {"on", "off"}]

Written(t) ==
    IF t # "mode" THEN Reported(t)
    ELSE {[mode |-> "USB", filter |-> 1, data |-> "on"], [mode |-> "USB", filter |-> 1, data |-> "as is"],
          [mode |-> "CW", filter |-> 0, data |-> "as is"]}

\* What may be remembered, answered or reported.
Known(t) ==
    IF t # "mode" THEN Reported(t)
    ELSE [mode : {"USB", "CW"}, filter : {0, 1, 2}, data : {"on", "off", "as is"}]

ASSUME NothingAssumption == \A t \in {"freq", "mode", "ptt"} : Nothing \notin Known(t)

\* RadioState shows exactly what was written: _effective_pending_*.
Matches(w, s) ==
    IF topic # "mode" THEN w = s
    ELSE w.mode = s.mode /\ w.filter = s.filter /\ (w.data = "as is" \/ w.data = s.data)

\* What the radio may do on receiving w.
Effects(w, r) ==
    IF topic # "mode" THEN {w}
    ELSE [mode : {w.mode}, filter : IF w.filter = 0 THEN 1..2 ELSE {w.filter},
          data : {IF w.data = "as is" THEN r.data ELSE w.data}]

HandlerInit ==
    /\ topic \in {"freq", "mode", "ptt"}
    /\ radio \in Reported(topic) /\ reports = <<>>
    /\ shown = IF topic = "ptt" THEN radio ELSE Nothing
    /\ pending = Nothing /\ cache = Nothing
    /\ call = [c \in Callers |-> Idle]
    /\ expected = Nothing

MayCall(c) == call[c] = Idle /\ Cardinality({d \in Callers : call[d] # Idle}) < MaxCalls[topic]

-----------------------------------------------------------------------------
(* Reads: get_freq, get_mode, get_ptt.                                     *)

\* The pending write as far as it is still in force.
Effective == IF pending # Nothing /\ shown # Nothing /\ Matches(pending, shown) THEN Nothing ELSE pending

\* An answer from the write w borrows the DATA flag it does not know.
Lent(w, from) ==
    IF topic # "mode" \/ w.data # "as is" THEN w
    ELSE [w EXCEPT !.data = IF from = Nothing THEN "off" ELSE from.data]

\* The answer to a read that does not need the radio, or Nothing.
Answer ==
    IF Effective # Nothing THEN Lent(Effective, IF shown # Nothing THEN shown ELSE cache)
    ELSE IF shown # Nothing THEN shown ELSE cache

\* Answered at once; the answer goes into the cache.
Get(c) ==
    /\ MayCall(c) /\ Answer # Nothing
    /\ pending' = Effective /\ cache' = Answer
    /\ UNCHANGED <<topic, radio, reports, shown, call, expected>>

\* Nothing is known: the radio is asked.
GetAsks(c) ==
    /\ MayCall(c) /\ Answer = Nothing
    /\ call' = [call EXCEPT ![c] = [stage |-> "reading"]]
    /\ UNCHANGED <<topic, radio, reports, shown, handlerVars, expected>>

\* The radio answers, or the read fails.
GetAnswered(c) ==
    /\ call[c].stage = "reading"
    /\ call' = [call EXCEPT ![c] = Idle]
    /\ cache' \in {cache, radio}
    /\ UNCHANGED <<topic, radio, reports, shown, pending, expected>>

-----------------------------------------------------------------------------
(* Writes: set_freq, set_mode, set_ptt.                                    *)

Packet(w) == topic = "mode" /\ w.data # "as is"

Writing == {c \in Callers : call[c].stage \in {"sent", "readback"}}

\* Something else touches the radio while the clients in C write.
Disturbed(C) == [c \in Callers |-> IF c \in C THEN [call[c] EXCEPT !.alone = FALSE] ELSE call[c]]

\* The command goes out and may be lost; for a packet mode without its DATA flag.
Set(c, w) ==
    /\ MayCall(c)
    /\ \E lost \in BOOLEAN :
         /\ IF lost THEN UNCHANGED radio
            ELSE radio' \in Effects(IF Packet(w) THEN [w EXCEPT !.data = "as is"] ELSE w, radio)
         /\ call' = [Disturbed(Writing) EXCEPT ![c] =
                [stage |-> "sent", write |-> w, alone |-> ~lost /\ Writing = {}]]
    /\ expected' = Nothing
    /\ UNCHANGED <<topic, reports, shown, handlerVars>>

\* set_data_mode() of a packet mode is acknowledged, then read back for a while.
SetData(c) ==
    /\ call[c].stage = "sent" /\ Packet(call[c].write)
    /\ call' = [call EXCEPT ![c].stage = "readback"]
    /\ radio' = [radio EXCEPT !.data = "on"]
    /\ UNCHANGED <<topic, reports, shown, handlerVars, expected>>

\* Mutant: nothing is remembered.
ForgottenWrite(w) == UNCHANGED handlerVars

\* The handler remembers the write.
Remembered(w) == pending' = w /\ cache' = Lent(w, cache)

\* A report under way differs from w, and RadioState or an earlier one agrees
\* with it: w will look reported before it is.
Skewed(w) ==
    LET told == <<shown>> \o reports IN
    \E i, j \in DOMAIN told :
        i < j /\ told[i] # Nothing /\ Matches(w, told[i]) /\ ~Matches(w, told[j])

\* The write ends well.  Its client may rely on it if nobody else wrote meanwhile.
SetEnds(c) ==
    /\ c \in Writing /\ call[c].stage = (IF Packet(call[c].write) THEN "readback" ELSE "sent")
    /\ Remembered(call[c].write)
    /\ call' = [call EXCEPT ![c] = Idle]
    /\ expected' = IF call[c].alone /\ ~Skewed(call[c].write) THEN call[c].write ELSE Nothing
    /\ UNCHANGED <<topic, radio, reports, shown>>

\* The write fails or times out at the server; nothing is remembered.
SetFails(c) ==
    /\ c \in Writing
    /\ call' = [call EXCEPT ![c] = Idle]
    /\ UNCHANGED <<topic, radio, reports, shown, handlerVars, expected>>

-----------------------------------------------------------------------------
(* The radio and time.                                                     *)

\* Somebody turns the dial, or another front end writes.
Dial ==
    /\ radio' \in Reported(topic) \ {radio}
    /\ call' = Disturbed(Writing)
    /\ expected' = Nothing
    /\ UNCHANGED <<topic, reports, shown, handlerVars>>

Report ==
    /\ Len(reports) < MaxReports
    /\ reports' = Append(reports, radio)
    /\ UNCHANGED <<topic, radio, shown, handlerVars, call, expected>>

ReportArrives ==
    /\ reports # <<>>
    /\ shown' = Head(reports) /\ reports' = Tail(reports)
    /\ UNCHANGED <<topic, radio, handlerVars, call, expected>>

\* cache_ttl passes.
CacheExpires ==
    /\ cache' = Nothing
    /\ UNCHANGED <<topic, radio, reports, shown, pending, call, expected>>

HandlerNext ==
    \/ \E c \in Callers : Get(c) \/ GetAsks(c) \/ GetAnswered(c) \/ SetData(c) \/ SetEnds(c) \/ SetFails(c)
    \/ \E c \in Callers, w \in Written(topic) : Set(c, w)
    \/ Dial \/ Report \/ ReportArrives \/ CacheExpires

Spec == HandlerInit /\ [][HandlerNext]_handlerAll

-----------------------------------------------------------------------------
(* Properties.                                                             *)

WriteCalls == [stage : {"sent", "readback"}, write : Written(topic), alone : BOOLEAN]

HandlerTypeOK ==
    /\ topic \in {"freq", "mode", "ptt"}
    /\ radio \in Reported(topic) /\ reports \in Seq(Reported(topic))
    /\ shown \in Reported(topic) \union {Nothing}
    /\ pending \in Written(topic) \union {Nothing}
    /\ cache \in Known(topic) \union {Nothing}
    /\ call \in [Callers -> {Idle, [stage |-> "reading"]} \union WriteCalls]
    /\ expected \in Written(topic) \union {Nothing}

\* A client that has written a value reads it back until somebody writes or
\* turns the dial, however late, early or often the radio reports: reports from
\* before the write do not show through.  The exceptions are writes of two
\* clients that overlap, writes that are lost, and a dial turned away and back
\* (Skewed).
ReadYourWrite ==
    expected # Nothing =>
        /\ Answer # Nothing
        /\ IF topic # "mode" THEN Answer = expected
           ELSE /\ Answer.mode = expected.mode
                /\ expected.data = "as is" \/ Answer.data = expected.data
=============================================================================
