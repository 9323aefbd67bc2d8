------------------------------ MODULE HeapClasses ------------------------------
(***************************************************************************)
(* Heap with the arithmetic it leaves out.  Heap asks for payloads of a    *)
(* class size, in granules, and has a list for each; malloc is asked for   *)
(* any number of bytes.  Here the two meet: what Heap takes for granted of *)
(* its sizes, and what malloc may be asked for as long as no refusal has   *)
(* ended the program.                                                      *)
(***************************************************************************)
EXTENDS Heap, SizeClasses

\* Heap's sizes are class sizes, and its blocks are as long as those in bytes.
ASSUME SizesAssumption ==
    \A size \in Sizes :
        /\ sized(size * GRANULE) = size * GRANULE
        /\ block(size * GRANULE) = Block(size) * GRANULE

\* heap.rs sized and class_of: the classes are a ladder with no rung missing
\* and none used twice, so that every block on a free list fits every request
\* for the list and no list is past the end of the table.
Ladder == Running => OffLadder = {}

\* heap.rs sized, which the free path depends on: what it read back from a
\* header is a size it would give out, and it names the list it came from.
Refound == Running => Misfiled = {}

\* heap.rs STEPS: a payload wastes less than one part in STEPS of itself on
\* its rounding to a class, and a payload of up to STEPS granules nothing.
WasteCapped == Running => Wasteful = {}

\* alloc.rs needed: a request it lets through has a block that a usize can
\* hold, rounding, aux and header included.
BlockFits == Running => Overlong = {}

=============================================================================
