------------------------------ MODULE EdgeMoves ------------------------------
(***************************************************************************)
(* The moves of one register class on one edge, as rewrite.rs of           *)
(* rucc-regalloc makes them: ordered by Moves, judged by fits_on_edges,    *)
(* and written down by edge, where a move between two stack slots goes     *)
(* through a register held back.                                           *)
(***************************************************************************)
EXTENDS Moves

CONSTANTS Slots, Second

\* The first register held back is what breaks a cycle.
ASSUME EdgeAssumption == Slots \subseteq Places /\ Second \notin All

VARIABLES
    scratch,   \* how many registers the class holds back
    phase,     \* "order", then "edits" or, when it does not fit, "refused"
    at,        \* the next move to write down
    machine    \* whose value each place holds, after the edits so far

vars == <<mvars, scratch, phase, at, machine>>

Registers == Places \ Slots
Everywhere == All \cup {Second}

EdgeInit ==
    /\ Init
    /\ scratch \in 0..2
    /\ phase = "order"
    /\ at = 1
    /\ machine = [p \in Everywhere |-> p]

Ordering ==
    /\ phase = "order"
    /\ Next
    /\ UNCHANGED <<scratch, phase, at, machine>>

SlotToSlot(one) == one.to \in Slots /\ one.from \in Slots

\* A slip: the register is always taken to be free.
BusyNever(index) == FALSE

\* Whether the scratch holds a value at that move of the order: from the move
\* that fills it to the last that reads it.
Busy(index) ==
    /\ \E i \in 1..index - 1 : order[i].to = Scratch
    /\ \E i \in index..Len(order) : order[i].from = Scratch

\* A slip: only cycles are looked at.
FitsCycles ==
    \/ scratch > 0
    \/ \A i \in 1..Len(order) : order[i].from # Scratch

\* fits_on_edges: with two held back always; with one, when no move between
\* two slots comes while it is busy; with none, when nothing is in a slot and
\* no cycle was broken.
Fits ==
    CASE scratch = 2 -> TRUE
      [] scratch = 1 -> \A i \in 1..Len(order) : SlotToSlot(order[i]) => ~ Busy(i)
      [] scratch = 0 -> /\ \A p \in wanted : {p, asked[p]} \cap Slots = {}
                        /\ \A i \in 1..Len(order) : order[i].from # Scratch

Judge ==
    /\ phase = "order" /\ pending = {}
    /\ phase' = IF Fits THEN "edits" ELSE "refused"
    /\ UNCHANGED <<mvars, scratch, at, machine>>

\* The register a value goes through, and whether there is one.
Through == IF scratch = 2 THEN Second ELSE Scratch
HasThrough == scratch = 2 \/ (scratch = 1 /\ ~ Busy(at))

\* edge has no register to name: no scratch at all, or none to go through.
Wanting(one) ==
    \/ scratch = 0 /\ Scratch \in {one.to, one.from}
    \/ SlotToSlot(one) /\ ~ HasThrough

\* edge, one move of the order: written as it is, or through a register.
Edit ==
    /\ phase = "edits" /\ at <= Len(order)
    /\ LET one == order[at]
           passed == IF SlotToSlot(one) THEN {one.to, Through} ELSE {one.to} IN
       IF Wanting(one)
         THEN phase' = "panicked" /\ UNCHANGED <<at, machine>>
         ELSE /\ machine' = [p \in Everywhere |->
                              IF p \in passed THEN machine[one.from] ELSE machine[p]]
              /\ at' = at + 1
              /\ UNCHANGED phase
    /\ UNCHANGED <<mvars, scratch>>

EdgeNext == Ordering \/ Judge \/ Edit

\* One thread runs the compiler, and it does not stop between two steps.
EdgeSpec == EdgeInit /\ [][EdgeNext]_vars /\ WF_vars(EdgeNext)

-----------------------------------------------------------------------------

\* Once its edits are made the edge has handed every parameter the argument it
\* was to have, and no other register or slot of the class has changed, on
\* whatever registers held back.
EdgeDone ==
    phase = "edits" /\ at > Len(order) =>
        \A p \in Places : machine[p] = IF p \in wanted THEN asked[p] ELSE p

\* Every edge is written down or is refused, and what fits_on_edges lets
\* through is never in want of a register (edge's panic and its expect).
EdgeEnds == <>(phase = "refused" \/ (phase = "edits" /\ at > Len(order)))

=============================================================================
