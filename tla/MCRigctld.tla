----------------------------- MODULE MCRigctld -----------------------------
(* The rigctld server, its command handler, and a Yaesu radio behind it,   *)
(* for TLC.  They share no state here, so a behaviour exercises one of     *)
(* them (`subject`).                                                       *)
EXTENDS RigctldServer, RigctldHandler, YaesuCat

OneModeCall == [freq |-> 2, mode |-> 1, ptt |-> 2]

VARIABLE subject

MCInit ==
    /\ subject \in {"server", "handler", "yaesu"}
    /\ Init /\ HandlerInit /\ YaesuInit
    /\ subject # "handler" => topic = "freq" /\ radio = 1

MCNext ==
    \/ subject = "server" /\ Next /\ UNCHANGED <<subject, handlerAll, yaesuVars>>
    \/ subject = "handler" /\ HandlerNext /\ UNCHANGED <<subject, vars, yaesuVars>>
    \/ subject = "yaesu" /\ YaesuNext /\ UNCHANGED <<subject, vars, handlerAll>>

\* Fairness of the part that a behaviour exercises.
MCFairness ==
    /\ WF_vars(subject = "server" /\ PollStep)
    /\ WF_vars(subject = "server" /\ WindowElapses)
    /\ \A t \in Tasks : WF_yaesuVars(subject = "yaesu" /\ TaskStep(t))
    /\ WF_yaesuVars(subject = "yaesu" /\ CooldownEnds)

MCSpec == MCInit /\ [][MCNext]_<<vars, subject, handlerAll, yaesuVars>> /\ MCFairness

\* Every variable of every part has its type.
ServerTypesOK == ServerTypeOK /\ HandlerTypeOK /\ YaesuTypeOK
=============================================================================
