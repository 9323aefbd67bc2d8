------------------------------ MODULE OrderedRun ------------------------------
(***************************************************************************)
(* What crates/rucc-driver/src/schedule.rs promises of run: the work is    *)
(* mapped over the items, and what comes back is the results in input      *)
(* order, or a panic when the work panics on any item.  Nothing in it      *)
(* depends on how many jobs there are, or on which finishes first.         *)
(***************************************************************************)
EXTENDS Naturals, Sequences

CONSTANT Result(_)      \* what the work makes of the item of an index

VARIABLES
    items,     \* how many items there are
    bad,       \* the indices of those the work panics on
    verdict,   \* how the call stands: "running", "returned" or "panicked"
    out        \* what came back

ovars == <<items, bad, verdict, out>>

Init ==
    /\ items \in Nat
    /\ bad \in SUBSET (0..items - 1)
    /\ verdict = "running"
    /\ out = << >>

Return ==
    /\ verdict = "running" /\ bad = {}
    /\ verdict' = "returned"
    /\ out' = [k \in 1..items |-> Result(k - 1)]
    /\ UNCHANGED <<items, bad>>

Panic ==
    /\ verdict = "running" /\ bad # {}
    /\ verdict' = "panicked"
    /\ UNCHANGED <<items, bad, out>>

Spec == Init /\ [][Return \/ Panic]_ovars

=============================================================================
