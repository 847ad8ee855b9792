------------------------- MODULE MCDaemonElection -------------------------
(* Model-checking instances of DaemonElection.                            *)
EXTENDS DaemonElection, TLC

\* Launchers are interchangeable, and so are the candidates of one version.
Symmetry == Permutations(Launchers) \cup Permutations(Procs \ OtherVersion)
=============================================================================
