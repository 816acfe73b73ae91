--------------------------- MODULE MCLinks_proofs ---------------------------
(***************************************************************************)
(* The links to the radio together: every behaviour of MCLinks is one of   *)
(* each part, so what is proved of a part holds in it.                     *)
(***************************************************************************)
EXTENDS MCLinks, CivExecution_proofs, IcomTransport_proofs, SerialRadio_proofs, Media_proofs

\* Each action of the composition is one of its part and leaves the others alone.
LEMMA PartsOfLinks ==
    MCSpec => /\ Spec /\ FramingSpec /\ AssemblySpec /\ JitterSpec
              /\ AudioSpec /\ CivSpec /\ SerialSafety
<1>1. MCInit => /\ Init /\ FramingInit /\ AssemblyInit /\ JitterInit
                /\ AudioInit /\ CivInit /\ SerialInit
  BY DEF MCInit
<1>2. [MCNext]_<<subject, vars, sendVars, framingAll, assemblyAll, jitterAll, audioAll, civVars, serialAll>> =>
        /\ [Next]_vars /\ [FramingNext]_framingAll
        /\ [AssemblyNext]_assemblyAll /\ [JitterNext]_jitterAll /\ [AudioNext]_audioAll
        /\ [CivNext]_civVars /\ [SerialNext]_serialAll
  BY DEF MCNext, CommanderNext, TransactionsNext
<1>. QED
  BY <1>1, <1>2, PTL DEF MCSpec, Spec, FramingSpec, AssemblySpec, JitterSpec, AudioSpec, CivSpec, SerialSafety

\* Types of whatever part of the links runs.
THEOREM LinkTypesCorrect == MCSpec => []LinkTypesOK
<1>1. TransportTypeOK /\ FramingTypeOK /\ AssemblyTypeOK /\ JitterTypeOK /\ AudioTypeOK /\ CivTypeOK /\ SerialTypeOK
        => LinkTypesOK
  BY DEF LinkTypesOK
<1>. QED
  BY <1>1, PartsOfLinks, TransportTypeCorrect, FramingTypeCorrect, AssemblyTypeCorrect,
     JitterTypeCorrect, AudioTypeCorrect, CivTypeCorrect, SerialTypeCorrect, PTL
=============================================================================
