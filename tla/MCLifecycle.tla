---------------------------- MODULE MCLifecycle ----------------------------
(* ConnectionLifecycle for TLC, with the failures a run considers.         *)
EXTENDS ConnectionLifecycle

\* One kind of failure in a behaviour.
OneKind == {{"silence"}, {"stall"}}

\* The CI-V data stall while control lives.
Stalls == {{"stall"}}
=============================================================================
