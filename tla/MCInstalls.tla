------------------------------- MODULE MCInstalls -------------------------------
(***************************************************************************)
(* Small instances of Installs for TLC.                                    *)
(***************************************************************************)
EXTENDS Installs, TLC

\* The processes may be exchanged for one another, and so may the artifacts.
Interchangeable == Permutations(Procs) \cup Permutations(Artifacts)

=============================================================================
