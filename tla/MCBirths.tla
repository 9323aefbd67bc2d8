------------------------------- MODULE MCBirths -------------------------------
(***************************************************************************)
(* Births on small instances.  Both identifiers start at the last cell of  *)
(* EXITED, so that their walks meet.                                       *)
(***************************************************************************)
EXTENDS Births, TLC

LastHome == [k \in Keys |-> EDGES - 1]

Interchangeable == Permutations(Keys) \cup Permutations(Threads \ Spawners)

=============================================================================
