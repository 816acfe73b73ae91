----------------------------- MODULE MCCommander -----------------------------
(* IcomCommander for TLC.  Three calls: a background poll and a second     *)
(* poll that may share it, and an urgent command under the same key that   *)
(* may not.  The polls are interchangeable, so the first one is called     *)
(* first.  Liveness is looked at with the polls alone (`calls`).           *)
EXTENDS IcomCommander

CONSTANTS poll1, poll2, urgent, meter

VARIABLE calls

MCPolls    == {poll1, poll2}
MCRequests == {poll1, poll2, urgent}
MCKeys     == {meter}
MCPrio     == [r \in Requests |-> IF r = urgent THEN 0 ELSE 20]
MCKey      == [r \in Requests |-> meter]
MCDedupe   == [r \in Requests |-> r # urgent]

MCNext ==
    /\ Next /\ UNCHANGED calls
    /\ call'[poll2] # "idle" => call'[poll1] # "idle"
    /\ calls = "polls" => call'[urgent] = "idle"

MCInit == calls \in {"all", "polls"} /\ Init

MCSpec == MCInit /\ [][MCNext]_<<vars, calls>> /\ Fairness

\* The polls alone, called in any order.
PollsSpec ==
    Init /\ calls = "polls" /\ [][Next /\ UNCHANGED calls]_<<vars, calls>> /\ Fairness

\* An abandoned command frees the worker (see IcomCommander).
AbandonedPollEnds == calls = "polls" => AbandonedTurnEnds

\* Every call ends (see IcomCommander).
EveryPollEnds == calls = "polls" => EveryCallEnds
=============================================================================
