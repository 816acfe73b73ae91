------------------------------ MODULE MCLinks ------------------------------
(* The links to the radio for TLC: both directions of the UDP transport,   *)
(* CI-V commands and transactions, the serial radio and the codec of its   *)
(* link, the scope assembler, the jitter buffer and the path of the audio. *)
(* They share no state, so a behaviour exercises one (`subject`) and       *)
(* leaves the others as they begin.                                        *)
EXTENDS IcomTransport, TrackedSend, MCCivExecution, SerialRadio, SerialFraming,
        ScopeAssembly, JitterBuffer, AudioPath

VARIABLE subject

\* CI-V answers with a scope packet between; numbers 6, 7, 0, 1 modulo 8.
FourPackets == <<"civ", "scope", "civ", "civ">>

MCInit ==
    /\ subject \in {"receiving", "sending", "serial", "scope", "jitter", "audio",
                   "commander", "transactions", "line"}
    /\ Init /\ SendInit /\ FramingInit /\ AssemblyInit /\ JitterInit
    /\ AudioInit /\ CivInit /\ SerialInit /\ (subject # "scope" => seqMax = 1)

MCNext ==
    \/ /\ subject = "receiving" /\ Next
       /\ UNCHANGED <<subject, sendVars, framingAll, assemblyAll, jitterAll, audioAll, civVars, serialAll>>
    \/ /\ subject = "sending" /\ SendNext
       /\ UNCHANGED <<subject, vars, framingAll, assemblyAll, jitterAll, audioAll, civVars, serialAll>>
    \/ /\ subject = "serial" /\ FramingNext
       /\ UNCHANGED <<subject, vars, sendVars, assemblyAll, jitterAll, audioAll, civVars, serialAll>>
    \/ /\ subject = "scope" /\ AssemblyNext
       /\ UNCHANGED <<subject, vars, sendVars, framingAll, jitterAll, audioAll, civVars, serialAll>>
    \/ /\ subject = "jitter" /\ JitterNext
       /\ UNCHANGED <<subject, vars, sendVars, framingAll, assemblyAll, audioAll, civVars, serialAll>>
    \/ /\ subject = "audio" /\ AudioNext
       /\ UNCHANGED <<subject, vars, sendVars, framingAll, assemblyAll, jitterAll, civVars, serialAll>>
    \/ /\ subject = "commander" /\ CommanderNext
       /\ UNCHANGED <<subject, vars, sendVars, framingAll, assemblyAll, jitterAll, audioAll, serialAll>>
    \/ /\ subject = "transactions" /\ TransactionsNext
       /\ UNCHANGED <<subject, vars, sendVars, framingAll, assemblyAll, jitterAll, audioAll, serialAll>>
    \/ /\ subject = "line" /\ SerialNext
       /\ UNCHANGED <<subject, vars, sendVars, framingAll, assemblyAll, jitterAll, audioAll, civVars>>

MCSpec ==
    /\ MCInit /\ [][MCNext]_<<subject, vars, sendVars, framingAll, assemblyAll, jitterAll, audioAll, civVars, serialAll>>
    /\ WF_vars(subject = "receiving" /\ RetransmitTick)

\* Every variable of the part that runs has its type.
LinkTypesOK ==
    /\ subject = "receiving" => TransportTypeOK
    /\ subject = "serial" => FramingTypeOK
    /\ subject = "scope" => AssemblyTypeOK
    /\ subject = "jitter" => JitterTypeOK
    /\ subject = "audio" => AudioTypeOK
    /\ subject \in {"commander", "transactions"} => CivTypeOK
    /\ subject = "line" => SerialTypeOK
=============================================================================
