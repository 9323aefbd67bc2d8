-------------------------------- MODULE Moves --------------------------------
(***************************************************************************)
(* sequence of crates/rucc-regalloc/src/moves.rs: moves that happen all at *)
(* once, put into an order they can be made in one at a time, with a       *)
(* scratch place to break a cycle with.                                    *)
(*                                                                         *)
(* The moves come in a list and the code takes the first that is ready;    *)
(* here it takes any, which is every order the list can have.              *)
(***************************************************************************)
EXTENDS Naturals, Sequences, FiniteSets

CONSTANTS Places, Scratch

ASSUME MovesAssumption == IsFiniteSet(Places) /\ Scratch \notin Places

VARIABLES
    wanted,    \* the places the moves write
    asked,     \* the place each of them is to have its value from
    pending,   \* the places still to be written
    from,      \* where each of them reads by now
    order,     \* the moves in the order that comes back
    held,      \* whose value each place holds once those are made
    saved      \* how often a cycle was broken

moves == <<wanted, asked>>
mvars == <<moves, pending, from, order, held, saved>>

All == Places \cup {Scratch}
Move(to, source) == [to |-> to, from |-> source]

\* No two moves write one place (sequence's assertion), and a move from a place
\* to itself is nothing to do.
Init ==
    /\ wanted \in SUBSET Places
    /\ asked \in [Places -> Places]
    /\ \A p \in Places \ wanted : asked[p] = p
    /\ pending = {p \in wanted : asked[p] # p}
    /\ from = asked
    /\ order = << >>
    /\ held = [p \in All |-> p]
    /\ saved = 0

\* A slip: what the move reads is looked for, not what it writes.
ReadySwapped(to) == \A other \in pending : from[to] = other => other = to

\* A slip: what a move read before a cycle was broken still counts.
ReadyAsked(to) == \A other \in pending : asked[other] = to => other = to

\* Nothing else still has to read the place.
Ready(to) == \A other \in pending : from[other] = to => other = to

\* A move that can go goes.
Take(to) ==
    /\ to \in pending /\ Ready(to)
    /\ order' = Append(order, Move(to, from[to]))
    /\ held' = [held EXCEPT ![to] = held[from[to]]]
    /\ pending' = pending \ {to}
    /\ UNCHANGED <<moves, from, saved>>

\* A slip: a cycle is broken although some move could go.
BreakEager(one) ==
    /\ one \in pending /\ from[one] # Scratch
    /\ order' = Append(order, Move(Scratch, from[one]))
    /\ held' = [held EXCEPT ![Scratch] = held[from[one]]]
    /\ from' = [p \in Places |->
                 IF p \in pending /\ from[p] = from[one] THEN Scratch ELSE from[p]]
    /\ saved' = saved + 1
    /\ UNCHANGED <<moves, pending>>

\* break_cycle: with nothing ready, a source is read into the scratch, and
\* whatever wanted it reads the scratch.
Break(one) ==
    /\ one \in pending /\ \A to \in pending : ~ Ready(to)
    /\ order' = Append(order, Move(Scratch, from[one]))
    /\ held' = [held EXCEPT ![Scratch] = held[from[one]]]
    /\ from' = [p \in Places |->
                 IF p \in pending /\ from[p] = from[one] THEN Scratch ELSE from[p]]
    /\ saved' = saved + 1
    /\ UNCHANGED <<moves, pending>>

Next == \E p \in Places : Take(p) \/ Break(p)

Spec == Init /\ [][Next]_mvars

-----------------------------------------------------------------------------

\* The shape of the state.  What is pending is a real move of what was asked.
TypeOK ==
    /\ wanted \in SUBSET Places /\ asked \in [Places -> Places]
    /\ pending \in SUBSET wanted
    /\ from \in [Places -> All]
    /\ \A p \in pending : from[p] # p
    /\ held \in [All -> All]
    /\ saved \in Nat

\* The moves, made one at a time in the order found so far, have done what the
\* parallel moves say (sequence: "every one of them ends up holding what the
\* input said it should", and writes no other place).
Parallel ==
    \A p \in Places \ pending : held[p] = IF p \in wanted THEN asked[p] ELSE p

\* The scratch is not filled while a move still has to read it.
ScratchFree ==
    (\A to \in pending : ~ Ready(to)) => \A p \in pending : from[p] # Scratch

-----------------------------------------------------------------------------
(* How many cycles there are to break                                      *)

\* Where following the moves back from a place leads to in n steps.
Back[n \in 0..Cardinality(Places)] ==
    [p \in Places |-> IF n = 0 THEN p ELSE asked[Back[n - 1][p]]]

Orbit(p) == {Back[n][p] : n \in 1..Cardinality(Places)}

Cycles == {Orbit(p) : p \in {q \in wanted : asked[q] # q /\ q \in Orbit(q)}}

\* A cycle costs one extra move and nothing else does (moves.rs: "as few extra
\* moves as it can").
FewestExtra == pending = {} => saved = Cardinality(Cycles)

=============================================================================
