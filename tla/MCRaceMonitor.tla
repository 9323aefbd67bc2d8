----------------------------- MODULE MCRaceMonitor -----------------------------
(***************************************************************************)
(* RaceMonitor on small instances.  Every key's run starts at the last     *)
(* cell of the table, so that walks meet other keys' cells and go round    *)
(* the end of the table.                                                   *)
(***************************************************************************)
EXTENDS RaceInvariant, TLC

LastHome == [k \in Keys |-> EDGES - 1]

Interchangeable ==
    Permutations(Threads) \cup Permutations(Keys) \cup Permutations(Words)

=============================================================================
