---------------------------- MODULE MCSharedEdges ----------------------------
(***************************************************************************)
(* SharedEdges on small instances.                                         *)
(***************************************************************************)
EXTENDS SharedEdges, TLC

LastHome == [k \in Keys |-> EDGES - 1]

Interchangeable ==
    Permutations(Threads) \cup Permutations(RWLocks) \cup Permutations(Semaphores)
    \cup Permutations(Atomics)

=============================================================================
