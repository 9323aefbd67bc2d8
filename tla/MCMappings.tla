------------------------------ MODULE MCMappings ------------------------------
(***************************************************************************)
(* Mappings and its inductive invariant on small instances.                *)
(***************************************************************************)
EXTENDS MappingsInvariant, TLC

Interchangeable == Permutations(Threads)

=============================================================================
