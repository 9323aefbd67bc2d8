--------------------------------- MODULE MCHeap ---------------------------------
(***************************************************************************)
(* Small instances of Heap for TLC, and its size classes.  Sizes one and   *)
(* two make blocks of five and eight granules, so that a region of ten     *)
(* holds two small blocks or one large one and both the free lists and the *)
(* second region come into play after a call or two; and every request     *)
(* that a usize of BITS bits can hold a quarter of.                        *)
(***************************************************************************)
EXTENDS HeapInvariant, HeapClasses, TLC

\* The threads may be exchanged for one another.
Interchangeable == Permutations(Threads)

\* A store leaves a stamp, which guards nothing: one that is about an instance
\* that is alive, anywhere, is enough (bound).
OneStamp == Cardinality({g \in Granules : owned(plane[g]) /\ epochs[g] = plane[g]}) <= 1

=============================================================================
