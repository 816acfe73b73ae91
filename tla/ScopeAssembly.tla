--------------------------- MODULE ScopeAssembly ---------------------------
(***************************************************************************)
(* The scope assembler (scope/__init__.py), which puts the packets of a    *)
(* sweep of the band together into a frame, for each receiver on its own,  *)
(* and drops what is unfinished when it takes too long or the queue of the *)
(* transport fills (shed_incomplete).  A packet is the name of its sweep   *)
(* and its number; what it carries follows from these.  Packets are lost,  *)
(* repeated and reordered on their way.                                    *)
(***************************************************************************)
EXTENDS Naturals, Sequences

CONSTANTS Receivers, Sweeps, NoSweep,
          SeqMaxes,     \* packets of a sweep: 1 over the network, more over the serial line
          MaxPieces     \* bound: packets held for a receiver

ASSUME AssemblyConstants ==
    /\ SeqMaxes \subseteq Nat \ {0} /\ MaxPieces \in Nat
    /\ NoSweep \notin Receivers \union Sweeps

VARIABLES
    seqMax,     \* packets of a sweep in this behaviour
    assembly,   \* _ReceiverState of each receiver; timed says _start_time is set
    frame,      \* what the last feed() returned
    fedFor,     \* history: its receiver, or NoSweep if the last step was no feed()
    inOrder     \* history: the packets of one sweep that came last, in order, from its first

assemblyAll == <<seqMax, assembly, frame, fedFor, inOrder>>

NoFrame == [header |-> NoSweep, outOfRange |-> FALSE, pixels |-> <<>>]

AssemblyInit ==
    /\ seqMax \in SeqMaxes
    /\ assembly = [r \in Receivers |-> [header |-> NoSweep, outOfRange |-> FALSE, chunks |-> <<>>, timed |-> FALSE]]
    /\ frame = NoFrame /\ fedFor = NoSweep
    /\ inOrder = [r \in Receivers |-> [sweep |-> NoSweep, upTo |-> 0]]

Reset(a) == [a EXCEPT !.chunks = <<>>, !.timed = FALSE]

\* Mutant: the first packet leaves what is held.
KeepsChunks(a, w, out) == [a EXCEPT !.header = w, !.outOfRange = out, !.timed = ~out]

\* The first packet of a sweep drops what is held and carries its header.
Begun(a, w, out) == [Reset(a) EXCEPT !.header = w, !.outOfRange = out, !.timed = ~out]

Added(a, w, k) == [a EXCEPT !.chunks = Append(@, <<w, k>>)]

\* _build_frame().
Built(a) == [header |-> a.header, outOfRange |-> a.outOfRange, pixels |-> a.chunks]

\* feed() with a packet that leaves a, whole if it completes a frame.
Fed(r, a, whole) ==
    /\ assembly' = [assembly EXCEPT ![r] = IF whole THEN Reset(a) ELSE a]
    /\ frame' = IF whole THEN Built(a) ELSE NoFrame
    /\ fedFor' = r

\* The first packet; out of range it is all there is to show, over the network it
\* brings the pixels along.
FeedFirst(r, w, out) ==
    LET a == Begun(assembly[r], w, out) IN
    /\ IF seqMax = 1 /\ ~out THEN Fed(r, Added(a, w, 1), TRUE) ELSE Fed(r, a, out)
    /\ inOrder' = [inOrder EXCEPT ![r] = [sweep |-> w, upTo |-> IF out THEN 0 ELSE 1]]
    /\ UNCHANGED seqMax

\* A later one; late says that the first came longer than the timeout ago.
FeedNext(r, w, k, late) ==
    /\ late => assembly[r].timed
    /\ late \/ k = seqMax \/ Len(assembly[r].chunks) < MaxPieces
    /\ IF late THEN Fed(r, Reset(assembly[r]), FALSE)
       ELSE Fed(r, Added(assembly[r], w, k), k = seqMax)
    /\ inOrder' = [inOrder EXCEPT ![r] =
                  [sweep |-> w, upTo |-> IF ~late /\ inOrder[r] = [sweep |-> w, upTo |-> k - 1] THEN k ELSE 0]]
    /\ UNCHANGED seqMax

\* The receive queue of the transport is three quarters full.
ShedIncomplete ==
    LET shed == {r \in Receivers : assembly[r].timed} IN
    /\ assembly' = [r \in Receivers |-> IF r \in shed THEN Reset(assembly[r]) ELSE assembly[r]]
    /\ inOrder' = [r \in Receivers |-> IF r \in shed THEN [inOrder[r] EXCEPT !.upTo = 0] ELSE inOrder[r]]
    /\ frame' = NoFrame /\ fedFor' = NoSweep
    /\ UNCHANGED seqMax

AssemblyNext ==
    \/ \E r \in Receivers, w \in Sweeps, out \in BOOLEAN : FeedFirst(r, w, out)
    \/ \E r \in Receivers, w \in Sweeps, k \in 2..seqMax, late \in BOOLEAN : FeedNext(r, w, k, late)
    \/ ShedIncomplete

AssemblySpec == AssemblyInit /\ [][AssemblyNext]_assemblyAll

-----------------------------------------------------------------------------
(* Properties.                                                             *)

AssemblyTypeOK ==
    /\ \A r \in Receivers :
          /\ assembly[r].header \in Sweeps \union {NoSweep}
          /\ assembly[r].timed => assembly[r].header # NoSweep /\ ~assembly[r].outOfRange
          /\ Len(assembly[r].chunks) <= MaxPieces
    /\ fedFor \in Receivers \union {NoSweep}

\* What the radio draws in sweep w: of several packets the first has no pixels.
Pixels(w) == IF seqMax = 1 THEN <<<<w, 1>>>> ELSE [k \in 1..(seqMax - 1) |-> <<w, k + 1>>]

\* A sweep that arrives whole, in order and in time comes out exactly as it was
\* sent, under its own header, however the packets before it were cut, mixed,
\* shed or repeated, and whatever arrives for the other receiver in between.
\* Nothing of the kind holds of a sweep with a gap: what follows the gap is
\* published as well (see the README).
SweepsShownWhole ==
    \A r \in Receivers :
        fedFor = r /\ inOrder[r].upTo = seqMax =>
            frame = [header |-> inOrder[r].sweep, outOfRange |-> FALSE, pixels |-> Pixels(inOrder[r].sweep)]
=============================================================================
