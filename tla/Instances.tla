------------------------------- MODULE Instances -------------------------------
(***************************************************************************)
(* What judgements J4 and J5 promise about storage instances: an instance  *)
(* is known by an identifier which is unique for the whole execution, it   *)
(* begins once and ends at most once.  Addresses are reused, identifiers   *)
(* never are, and what is over never becomes live again.                   *)
(***************************************************************************)
CONSTANT Ids

VARIABLES born,   \* every identifier there has been
          live    \* the identifiers of the instances that are not over

Init == born = {} /\ live = {}

\* J4
Begin(i) ==
    /\ i \notin born
    /\ born' = born \cup {i}
    /\ live' = live \cup {i}

\* J5
End(i) ==
    /\ i \in live
    /\ live' = live \ {i}
    /\ UNCHANGED born

Next == (\E i \in Ids \ born : Begin(i)) \/ (\E i \in live : End(i))

Spec == Init /\ [][Next]_<<born, live>>

=============================================================================
