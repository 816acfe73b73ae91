--------------------------- MODULE MCCivExecution ---------------------------
(* CivExecution for TLC: what a behaviour executes.                        *)
EXTENDS CivExecution

CONSTANTS cmd_a, cmd_b, cmd_c, cmd_d, cmd_e, cmd_f, freqKey, modeKey

AllCommands  == {cmd_a, cmd_b, cmd_c, cmd_d, cmd_e, cmd_f}
FourCommands == {cmd_a, cmd_b, cmd_c, cmd_d}
MCReqKey     == [x \in Commands |-> IF x \in {cmd_a, cmd_b, cmd_e} THEN freqKey ELSE modeKey]

\* Two blocking writes, a read, a fire-and-forget write, and two transactions.
LinkMix == [x \in Commands |->
    CASE x = cmd_a -> "set" [] x = cmd_b -> "set" [] x = cmd_c -> "get" [] x = cmd_d -> "fire set"
      [] x = cmd_e -> "raw ack" [] x = cmd_f -> "raw data"]

\* Polls, awaited or not, next to a blocking write and to a transaction.
PollMix == [x \in Commands |->
    CASE x = cmd_a -> "set" [] x = cmd_b -> "fire get" [] x = cmd_c -> "get" [] x = cmd_d -> "raw data"]

\* Three of the four commands of the commander, any three.
CommanderNext ==
    /\ CivNext /\ unsolicited' = 0
    /\ status'[cmd_e] = "idle" /\ status'[cmd_f] = "idle"
    /\ \E c \in FourCommands : status'[c] = "idle"

\* The transactions, next to a commander write that may overlap them and a change
\* of the generation, or next to a broadcast.
TransactionsNext ==
    /\ CivNext
    /\ \A c \in {cmd_a, cmd_b, cmd_c} : status'[c] = "idle"
    /\ unsolicited' = 0 \/ (generation' = 0 /\ status'[cmd_d] = "idle")
=============================================================================
