--------------------------- MODULE EdgeMovesProofs ---------------------------
(***************************************************************************)
(* Proofs about Moves and EdgeMoves, for every finite set of registers and *)
(* slots and every set of parallel moves.  First the order that sequence   *)
(* comes back with: it makes the moves, the scratch is never filled while  *)
(* it is still to be read, and it is filled once for each cycle.  Then the *)
(* writing down: what fits_on_edges lets through, edge can write, and what *)
(* it writes hands every parameter its argument.                           *)
(*                                                                         *)
(* The order is found before it is written down, so that the second proof  *)
(* keeps what the places hold after each of its moves (Trace) and follows  *)
(* the machine along it.                                                   *)
(***************************************************************************)
EXTENDS EdgeMoves, FiniteSetTheorems, SequenceTheorems, TLAPS

-----------------------------------------------------------------------------
(* The order of Moves                                                      *)

\* What a pending move reads by now holds what it was to hand on.
Waiting == \A p \in pending : held[from[p]] = asked[p]

IInv == TypeOK /\ Parallel /\ Waiting

-----------------------------------------------------------------------------

\* With nothing ready every place still to be written is still to be read, so
\* there is no reader left over for the scratch: as many places are read as
\* are written, and no more.
LEMMA ReadersAreWriters == TypeOK => ScratchFree
<1> SUFFICES ASSUME TypeOK, \A to \in pending : ~ Ready(to),
                    NEW p \in pending, from[p] = Scratch
             PROVE  FALSE
  BY DEF ScratchFree
<1> DEFINE Read == {from[q] : q \in pending}
<1>1. IsFiniteSet(pending)
  BY MovesAssumption, FS_Subset DEF TypeOK
<1>2. IsFiniteSet(Read) /\ Cardinality(Read) <= Cardinality(pending)
  <2> DEFINE source == [q \in pending |-> from[q]]
  <2>1. source \in Surjection(pending, Read)
    BY DEF Surjection
  <2>2. QED
    BY <1>1, <2>1, FS_Surjection
<1>3. pending \cup {Scratch} \subseteq Read
  <2>1. pending \subseteq Read
    BY DEF Ready
  <2>2. QED
    BY <2>1
<1>4. Scratch \notin pending
  BY MovesAssumption DEF TypeOK
<1>5. Cardinality(pending \cup {Scratch}) = Cardinality(pending) + 1
  BY <1>1, <1>4, FS_AddElement
<1>6. Cardinality(pending \cup {Scratch}) <= Cardinality(Read)
  BY <1>2, <1>3, FS_Subset
<1>7. Cardinality(pending) \in Nat /\ Cardinality(Read) \in Nat
  BY <1>1, <1>2, FS_CardinalityType
<1>8. QED
  BY <1>2, <1>5, <1>6, <1>7

-----------------------------------------------------------------------------

LEMMA Starts == Init => IInv
<1> SUFFICES ASSUME Init PROVE IInv
  OBVIOUS
<1>1. TypeOK
  BY DEF Init, TypeOK, All
<1>2. Parallel /\ Waiting
  BY <1>1 DEF Init, Parallel, Waiting, All, TypeOK
<1>3. QED
  BY <1>1, <1>2 DEF IInv

LEMMA TakeStep == ASSUME IInv, NEW to \in Places, Take(to) PROVE IInv'
<1> USE DEF IInv
<1>1. /\ to \in pending /\ to \in wanted /\ to \in All /\ from[to] \in All
      /\ wanted' = wanted /\ asked' = asked /\ from' = from /\ saved' = saved
      /\ pending' = pending \ {to}
      /\ held' = [held EXCEPT ![to] = held[from[to]]]
  BY DEF Take, moves, TypeOK, All
<1>2. /\ held' \in [All -> All]
      /\ held'[to] = held[from[to]]
      /\ \A q \in All : q # to => held'[q] = held[q]
  BY <1>1 DEF TypeOK
<1>3. TypeOK'
  BY <1>1, <1>2 DEF TypeOK
<1>4. held'[to] = asked[to]
  BY <1>1, <1>2 DEF Waiting
<1>5. Parallel'
  BY <1>1, <1>2, <1>4 DEF Parallel, All
<1>6. ASSUME NEW p \in pending, p # to PROVE held'[from[p]] = asked[p]
  <2>1. from[p] # to /\ from[p] \in All
    BY <1>6 DEF Take, Ready, TypeOK
  <2>2. QED
    BY <1>2, <2>1 DEF Waiting
<1>7. Waiting'
  BY <1>1, <1>6 DEF Waiting
<1>8. QED
  BY <1>3, <1>5, <1>7

LEMMA BreakStep == ASSUME IInv, NEW one \in Places, Break(one) PROVE IInv'
<1> USE DEF IInv
<1>1. /\ one \in pending /\ from[one] \in All /\ Scratch \in All /\ Scratch \notin Places
      /\ wanted' = wanted /\ asked' = asked /\ pending' = pending /\ saved' = saved + 1
      /\ held' = [held EXCEPT ![Scratch] = held[from[one]]]
      /\ from' = [p \in Places |->
                   IF p \in pending /\ from[p] = from[one] THEN Scratch ELSE from[p]]
  BY MovesAssumption DEF Break, moves, TypeOK, All
<1>2. /\ held' \in [All -> All]
      /\ held'[Scratch] = held[from[one]]
      /\ \A q \in All : q # Scratch => held'[q] = held[q]
  BY <1>1 DEF TypeOK
<1>3. TypeOK'
  BY <1>1, <1>2 DEF TypeOK, All
<1>4. Parallel'
  BY <1>1, <1>2 DEF Parallel, All
<1>5. \A p \in pending : from[p] # Scratch
  BY ReadersAreWriters DEF ScratchFree, Break
<1>6. ASSUME NEW p \in pending PROVE held'[from'[p]] = asked[p]
  <2>1. p \in Places /\ from[p] \in All /\ from[p] # Scratch
    BY <1>5 DEF TypeOK
  <2>2. CASE from[p] = from[one]
    BY <1>1, <1>2, <2>1, <2>2 DEF Waiting
  <2>3. CASE from[p] # from[one]
    BY <1>1, <1>2, <2>1, <2>3 DEF Waiting
  <2>4. QED
    BY <2>2, <2>3
<1>7. Waiting'
  BY <1>1, <1>6 DEF Waiting
<1>8. QED
  BY <1>3, <1>4, <1>7

LEMMA Keeps == IInv /\ [Next]_mvars => IInv'
<1> SUFFICES ASSUME IInv, [Next]_mvars PROVE IInv'
  OBVIOUS
<1>1. CASE \E p \in Places : Take(p) \/ Break(p)
  BY <1>1, TakeStep, BreakStep
<1>2. CASE UNCHANGED mvars
  BY <1>2 DEF IInv, TypeOK, Parallel, Waiting, mvars, moves
<1>3. QED
  BY <1>1, <1>2 DEF Next

LEMMA Invariance == Spec => []IInv
<1>1. QED
  BY Starts, Keeps, PTL DEF Spec

-----------------------------------------------------------------------------

\* The state of an ordering keeps its shape, and no move of a place to itself
\* is pending (sequence).
THEOREM MovesTyped == Spec => []TypeOK
<1>1. IInv => TypeOK
  BY DEF IInv
<1>2. QED
  BY <1>1, Invariance, PTL

\* The order makes the parallel moves: every place written holds what it was
\* to have, and no other place has changed (sequence).
THEOREM OrderIsParallel == Spec => []Parallel
<1>1. IInv => Parallel
  BY DEF IInv
<1>2. QED
  BY <1>1, Invariance, PTL

\* A cycle is broken only when the scratch is free again (break_cycle).
THEOREM ScratchIsFree == Spec => []ScratchFree
<1>1. IInv => ScratchFree
  BY ReadersAreWriters DEF IInv
<1>2. QED
  BY <1>1, Invariance, PTL

-----------------------------------------------------------------------------
(* The cycles of Moves                                                     *)
(*                                                                         *)
(* A cycle of the moves asked for is intact as long as none of its moves   *)
(* has gone and none reads the scratch.  A move that can go is on no       *)
(* intact cycle, since the one before it on the cycle still has to read    *)
(* the place.  When none can go, the pending moves are nothing but intact  *)
(* cycles, and what is broken is the one that the move is on.              *)

\* What holds at 0, and after every place it holds at, holds up to top.
LEMMA Forwards ==
    ASSUME NEW top \in Nat, NEW S \in SUBSET (0..top), 0 \in S,
           \A k \in S : k < top => k + 1 \in S
    PROVE  top \in S
<1> DEFINE Tails == {k..top : k \in S}
           R == StrictSubsetOrdering(Nat)
<1>1. IsWellFoundedOn(R, FiniteSubsetsOf(Nat))
  BY FS_StrictSubsetOrderingWellFounded
<1>2. Tails \subseteq FiniteSubsetsOf(Nat)
  <2> SUFFICES ASSUME NEW k \in S PROVE k..top \in FiniteSubsetsOf(Nat)
    OBVIOUS
  <2>1. k \in Int /\ top \in Int /\ k..top \in SUBSET Nat
    OBVIOUS
  <2>2. IsFiniteSet(k..top)
    BY <2>1, FS_Interval
  <2>3. QED
    BY <2>1, <2>2 DEF FiniteSubsetsOf
<1>3. Tails # {}
  OBVIOUS
<1> HIDE DEF Tails, R
<1>4. PICK least \in Tails : \A other \in Tails : ~ (<<other, least>> \in R)
  BY <1>1, <1>2, <1>3, WFMin
<1>5. PICK m \in S : least = m..top
  BY <1>4 DEF Tails
<1>6. ASSUME m # top PROVE FALSE
  <2>1. PICK j \in Nat : j = m + 1 /\ j \in S
    BY <1>6
  <2>2. j..top \in Tails
    BY <2>1 DEF Tails
  <2>3. j..top \subseteq m..top /\ m \in m..top /\ m \notin j..top
    BY <2>1
  <2>4. <<j..top, m..top>> \in R
    BY <2>3 DEF R, StrictSubsetOrdering
  <2>5. QED
    BY <1>4, <1>5, <2>2, <2>4
<1>7. QED
  BY <1>6


LEMMA BackSteps ==
    ASSUME TypeOK
    PROVE  /\ Cardinality(Places) \in Nat
           /\ \A n \in 0..Cardinality(Places) : Back[n] \in [Places -> Places]
           /\ \A p \in Places : Back[0][p] = p
           /\ \A n \in 0..Cardinality(Places) - 1 : \A p \in Places :
                Back[n + 1][p] = asked[Back[n][p]]
<1> DEFINE N == Cardinality(Places)
           e(f, n) == [p \in Places |-> IF n = 0 THEN p ELSE asked[f[n - 1][p]]]
           Leads(k, f) == f = [n \in 0..k |-> e(f, n)]
           S == {k \in 0..N : \E f : Leads(k, f)}
<1>1. N \in Nat /\ asked \in [Places -> Places]
  BY MovesAssumption, FS_CardinalityType DEF TypeOK
<1> HIDE DEF N
<1>2. 0 \in S
  <2>1. Leads(0, [n \in 0..0 |-> [p \in Places |-> p]])
    OBVIOUS
  <2> HIDE DEF Leads
  <2>2. QED
    BY <1>1, <2>1
<1>3. ASSUME NEW k \in S, k < N PROVE k + 1 \in S
  <2>1. PICK f : Leads(k, f)
    OBVIOUS
  <2>2. PICK m \in 1..N : m = k + 1 /\ k = m - 1 /\ k \in Nat
    BY <1>1, <1>3
  <2> DEFINE g == [n \in 0..m |-> IF n = m THEN e(f, m) ELSE f[n]]
  <2>3. \A n \in 0..k : g[n] = f[n]
    BY <2>2
  <2>4. ASSUME NEW n \in 0..m PROVE g[n] = e(g, n)
    <3>1. n = 0 \/ n - 1 \in 0..k
      BY <2>2
    <3>2. e(g, n) = e(f, n)
      <4> HIDE DEF g
      <4>1. n # 0 => g[n - 1] = f[n - 1]
        BY <2>3, <3>1
      <4>2. QED
        BY <4>1
    <3>3. CASE n = m
      <4> HIDE DEF e
      <4>1. QED
        BY <2>2, <3>2, <3>3
    <3>4. CASE n # m
      <4>1. n \in 0..k
        BY <2>2, <3>4
      <4> HIDE DEF e, g
      <4>2. f[n] = e(f, n)
        BY <2>1, <4>1
      <4>3. QED
        BY <2>3, <3>2, <4>1, <4>2
    <3>5. QED
      BY <3>3, <3>4
  <2>5. Leads(m, g)
    <3> HIDE DEF e
    <3>1. g = [n \in 0..m |-> g[n]]
      OBVIOUS
    <3> HIDE DEF g
    <3>2. [n \in 0..m |-> g[n]] = [n \in 0..m |-> e(g, n)]
      BY <2>4
    <3>3. QED
      BY <3>1, <3>2
  <2> HIDE DEF Leads, g
  <2>6. \E h : Leads(m, h)
    BY <2>5
  <2>7. QED
    BY <2>2, <2>6
<1>4. N \in S
  <2> HIDE DEF S
  <2>1. S \in SUBSET (0..N)
    BY DEF S
  <2>2. QED
    BY <1>1, <1>2, <1>3, <2>1, Forwards
<1>5. Leads(N, Back)
  <2>1. PICK f : Leads(N, f)
    BY <1>4
  <2>2. Back = CHOOSE h : h = [n \in 0..Cardinality(Places) |->
                                 [p \in Places |-> IF n = 0 THEN p ELSE asked[h[n - 1][p]]]]
    BY Zenon DEF Back
  <2>3. QED
    BY <2>1, <2>2 DEF N
<1> HIDE DEF S, e
<1>6. \A n \in 0..N : Back[n] = e(Back, n)
  BY <1>5
<1> HIDE DEF Leads
<1>7. \A p \in Places : Back[0][p] = p
  <2>1. Back[0] = e(Back, 0)
    BY <1>1, <1>6
  <2>2. e(Back, 0) = [p \in Places |-> p]
    BY DEF e
  <2>3. QED
    BY <2>1, <2>2
<1>8. ASSUME NEW n \in 0..N - 1, NEW p \in Places PROVE Back[n + 1][p] = asked[Back[n][p]]
  <2>1. n + 1 \in 0..N /\ n + 1 # 0 /\ (n + 1) - 1 = n
    BY <1>1
  <2>2. Back[n + 1] = e(Back, n + 1)
    BY <1>6, <2>1
  <2>3. QED
    BY <2>1, <2>2 DEF e
<1>9. \A n \in 0..N : Back[n] \in [Places -> Places]
  <2> DEFINE P == {n \in 0..N : \A m \in 0..n : Back[m] \in [Places -> Places]}
  <2>1. 0 \in P
    <3>1. Back[0] = e(Back, 0)
      BY <1>1, <1>6
    <3>2. e(Back, 0) \in [Places -> Places]
      BY DEF e
    <3>3. \A m \in 0..0 : m = 0
      OBVIOUS
    <3>4. QED
      BY <1>1, <3>1, <3>2, <3>3
  <2>2. ASSUME NEW n \in P, n < N PROVE n + 1 \in P
    <3>1. n \in 0..N - 1 /\ n \in 0..n /\ n + 1 \in 0..N /\ n + 1 # 0 /\ (n + 1) - 1 = n
      BY <1>1, <2>2
    <3>2. Back[n] \in [Places -> Places]
      BY <3>1
    <3>3. Back[n + 1] = e(Back, n + 1)
      BY <1>6, <3>1
    <3>4. e(Back, n + 1) \in [Places -> Places]
      BY <1>1, <3>1, <3>2 DEF e
    <3>5. \A m \in 0..n + 1 : m \in 0..n \/ m = n + 1
      BY <3>1
    <3>6. QED
      BY <3>1, <3>3, <3>4, <3>5
  <2>3. N \in P
    <3> HIDE DEF P
    <3>1. P \in SUBSET (0..N)
      BY DEF P
    <3>2. QED
      BY <1>1, <2>1, <2>2, <3>1, Forwards
  <2>4. QED
    BY <2>3
<1>10. QED
  BY <1>1, <1>7, <1>8, <1>9 DEF N

\* n steps back and then j more are n + j.
LEMMA Further ==
    ASSUME TypeOK, NEW n \in 0..Cardinality(Places), NEW j \in Nat,
           n + j <= Cardinality(Places), NEW x \in Places
    PROVE  Back[n + j][x] = Back[j][Back[n][x]]
<1> DEFINE N == Cardinality(Places)
           y == Back[n][x]
           S == {i \in 0..j : Back[n + i][x] = Back[i][y]}
<1>1. N \in Nat /\ y \in Places
  BY BackSteps
<1>2. 0 \in S
  <2>1. Back[0][y] = y /\ n + 0 = n
    BY <1>1, BackSteps
  <2>2. QED
    BY <2>1
<1> HIDE DEF y
<1>3. ASSUME NEW i \in S, i < j PROVE i + 1 \in S
  <2>1. n + i \in 0..N - 1 /\ i \in 0..N - 1 /\ (n + i) + 1 = n + (i + 1)
    BY <1>1, <1>3
  <2>2. Back[n + (i + 1)][x] = asked[Back[n + i][x]]
    BY <2>1, BackSteps
  <2>3. Back[i + 1][y] = asked[Back[i][y]]
    BY <1>1, <2>1, BackSteps
  <2>4. QED
    BY <1>3, <2>2, <2>3
<1>4. j \in S
  <2> HIDE DEF S
  <2>1. S \in SUBSET (0..j)
    BY DEF S
  <2>2. QED
    BY <1>2, <1>3, <2>1, Forwards
<1>5. QED
  BY <1>4 DEF y

\* A set that the moves do not lead out of has all that lies back from it.
LEMMA OrbitWithin ==
    ASSUME TypeOK, NEW S, NEW p \in S \cap Places,
           \A x \in S \cap Places : asked[x] \in S
    PROVE  Orbit(p) \subseteq S
<1> DEFINE N == Cardinality(Places)
           I == {i \in 0..N : Back[i][p] \in S}
<1>1. N \in Nat /\ asked \in [Places -> Places]
  BY BackSteps DEF TypeOK
<1>2. 0 \in I
  BY <1>1, BackSteps
<1>3. ASSUME NEW i \in I, i < N PROVE i + 1 \in I
  <2>1. i \in 0..N - 1 /\ i \in 0..N /\ i + 1 \in 0..N
    BY <1>1, <1>3
  <2>2. Back[i + 1][p] = asked[Back[i][p]] /\ Back[i][p] \in Places
    BY <2>1, BackSteps
  <2>3. QED
    BY <2>1, <2>2
<1>4. ASSUME NEW n \in 1..N PROVE Back[n][p] \in S
  <2>1. n \in Nat /\ I \cap (0..n) \in SUBSET (0..n) /\ 0 \in I \cap (0..n)
    BY <1>2
  <2>2. \A k \in I \cap (0..n) : k < n => k + 1 \in I \cap (0..n)
    BY <1>1, <1>3
  <2> HIDE DEF I
  <2>3. n \in I \cap (0..n)
    BY <2>1, <2>2, Forwards
  <2>4. QED
    BY <2>3 DEF I
<1>5. QED
  BY <1>4 DEF Orbit

\* A place that k steps lead back to is on a cycle of k steps.
LEMMA RoundTrip ==
    ASSUME TypeOK, NEW p \in Places, NEW k \in 1..Cardinality(Places), Back[k][p] = p
    PROVE  /\ Orbit(p) = {Back[i][p] : i \in 1..k}
           /\ \A i \in 1..k : \E h \in 1..k : asked[Back[i][p]] = Back[h][p]
           /\ \A i \in 1..k : \E h \in 1..k : asked[Back[h][p]] = Back[i][p]
<1> DEFINE N == Cardinality(Places)
           Round == {Back[i][p] : i \in 1..k}
<1>1. N \in Nat /\ asked \in [Places -> Places]
  BY BackSteps DEF TypeOK
<1>2. Round \subseteq Orbit(p)
  <2>1. \A i \in 1..k : i \in 1..N
    BY <1>1
  <2>2. QED
    BY <2>1 DEF Orbit
<1>3. Back[1][p] = asked[p] /\ 1 \in 1..k /\ k \in 1..k
  <2>1. 0 \in 0..N - 1 /\ 0 + 1 = 1
    BY <1>1
  <2>2. Back[1][p] = asked[Back[0][p]] /\ Back[0][p] = p
    BY <2>1, BackSteps
  <2>3. QED
    BY <2>2
<1>4. ASSUME NEW i \in 1..k PROVE \E h \in 1..k : asked[Back[i][p]] = Back[h][p]
  <2>1. CASE i < k
    <3>1. i \in 0..N - 1 /\ i + 1 \in 1..k
      BY <1>1, <2>1
    <3>2. Back[i + 1][p] = asked[Back[i][p]]
      BY <3>1, BackSteps
    <3>3. QED
      BY <3>1, <3>2
  <2>2. CASE i = k
    BY <1>3, <2>2
  <2>3. QED
    BY <2>1, <2>2
<1>5. ASSUME NEW i \in 1..k PROVE \E h \in 1..k : asked[Back[h][p]] = Back[i][p]
  <2>1. CASE i = 1
    BY <1>3, <2>1
  <2>2. CASE i # 1
    <3>1. i - 1 \in 1..k /\ i - 1 \in 0..N - 1 /\ (i - 1) + 1 = i
      BY <1>1, <2>2
    <3>2. Back[i][p] = asked[Back[i - 1][p]]
      BY <3>1, BackSteps
    <3>3. QED
      BY <3>1, <3>2
  <2>3. QED
    BY <2>1, <2>2
<1>6. Orbit(p) \subseteq Round
  <2>1. p \in Round /\ \A x \in Round : asked[x] \in Round
    BY <1>3, <1>4
  <2> HIDE DEF Round
  <2>2. QED
    BY <2>1, OrbitWithin
<1>7. QED
  BY <1>2, <1>4, <1>5, <1>6

\* The moves do not lead out of a cycle, and it has a step into every place.
LEMMA OnACycle ==
    ASSUME TypeOK, NEW p \in Places, p \in Orbit(p)
    PROVE  /\ Orbit(p) \subseteq Places
           /\ \A x \in Orbit(p) : asked[x] \in Orbit(p)
           /\ \A x \in Orbit(p) : \E y \in Orbit(p) : asked[y] = x
<1>1. PICK k \in 1..Cardinality(Places) : Back[k][p] = p
  BY DEF Orbit
<1>2. Orbit(p) \subseteq Places
  BY BackSteps DEF Orbit
<1>3. /\ Orbit(p) = {Back[i][p] : i \in 1..k}
      /\ \A i \in 1..k : \E h \in 1..k : asked[Back[i][p]] = Back[h][p]
      /\ \A i \in 1..k : \E h \in 1..k : asked[Back[h][p]] = Back[i][p]
  BY <1>1, RoundTrip
<1>4. ASSUME NEW x \in Orbit(p)
      PROVE  asked[x] \in Orbit(p) /\ \E y \in Orbit(p) : asked[y] = x
  <2>1. PICK i \in 1..k : x = Back[i][p]
    BY <1>3
  <2>2. PICK h \in 1..k : asked[x] = Back[h][p]
    BY <1>3, <2>1
  <2>3. PICK g \in 1..k : asked[Back[g][p]] = x
    BY <1>3, <2>1
  <2>4. Back[h][p] \in Orbit(p) /\ Back[g][p] \in Orbit(p)
    BY <1>3
  <2>5. QED
    BY <2>2, <2>3, <2>4
<1>5. QED
  BY <1>2, <1>4

\* Whoever is on a cycle has the whole of it for an orbit.
LEMMA SameCycle ==
    ASSUME TypeOK, NEW p \in Places, p \in Orbit(p), NEW q \in Orbit(p)
    PROVE  q \in Places /\ q \in Orbit(q) /\ Orbit(q) = Orbit(p)
<1> DEFINE N == Cardinality(Places)
<1>1. N \in Nat /\ asked \in [Places -> Places]
  BY BackSteps DEF TypeOK
<1>2. q \in Places
  BY OnACycle
<1>3. PICK k \in 1..N : Back[k][p] = p
  BY DEF Orbit
<1>4. Orbit(q) \subseteq Orbit(p)
  BY <1>2, OnACycle, OrbitWithin
<1>5. Orbit(p) = {Back[i][p] : i \in 1..k}
  BY <1>3, RoundTrip
<1>6. PICK m \in 1..k : Back[m][p] = q
  BY <1>5
<1>7. PICK j \in Nat : j = k - m /\ m + j = k /\ j <= N
  BY <1>1
<1>8. Back[j][q] = p
  <2>1. Back[m + j][p] = Back[j][Back[m][p]]
    BY <1>1, <1>7, Further
  <2>2. QED
    BY <1>3, <1>6, <1>7, <2>1
<1>9. Back[k][q] = q
  <2>1. j + m = k /\ j \in 0..N /\ m \in Nat /\ j + m <= N
    BY <1>1, <1>7
  <2>2. Back[j + m][q] = Back[m][Back[j][q]]
    BY <1>2, <2>1, Further
  <2>3. QED
    BY <1>6, <1>8, <2>1, <2>2
<1>10. q \in Orbit(q)
  BY <1>9 DEF Orbit
<1>11. p \in Orbit(q)
  <2>1. CASE j = 0
    <3>1. Back[0][q] = q
      BY <1>2, BackSteps
    <3>2. QED
      BY <1>8, <1>10, <2>1, <3>1
  <2>2. CASE j # 0
    <3>1. j \in 1..N
      BY <1>7, <2>2
    <3>2. QED
      BY <1>8, <3>1 DEF Orbit
  <2>3. QED
    BY <2>1, <2>2
<1>12. Orbit(p) \subseteq Orbit(q)
  BY <1>2, <1>10, <1>11, OnACycle, OrbitWithin
<1>13. QED
  BY <1>2, <1>4, <1>10, <1>12

\* A set that the moves permute is made of cycles.
LEMMA PermutedIsCycles ==
    ASSUME TypeOK, NEW P \in SUBSET Places, NEW p \in P,
           \A x \in P : asked[x] \in P,
           \A x, y \in P : asked[x] = asked[y] => x = y
    PROVE  p \in Orbit(p) /\ Orbit(p) \subseteq P
<1> DEFINE N == Cardinality(Places)
           I == [i \in 0..N |-> Back[i][p]]
<1>1. N \in Nat /\ p \in Places
  BY BackSteps
<1>2. Orbit(p) \subseteq P
  BY OrbitWithin
<1>3. ASSUME NEW i \in 0..N PROVE Back[i][p] \in P
  <2>1. CASE i = 0
    BY <1>1, <2>1, BackSteps
  <2>2. CASE i # 0
    <3>1. i \in 1..N
      BY <2>2
    <3>2. QED
      BY <1>2, <3>1 DEF Orbit
  <2>3. QED
    BY <2>1, <2>2
<1>4. PICK a \in 0..N, b \in 0..N : a # b /\ Back[a][p] = Back[b][p]
  <2>1. I \in [0..N -> Places]
    BY <1>3
  <2>2. IsFiniteSet(0..N) /\ Cardinality(0..N) = N + 1
    BY <1>1, FS_Interval
  <2>3. IsFiniteSet(Places) /\ N < N + 1
    BY <1>1, MovesAssumption
  <2> DEFINE D == 0..N
  <2>4. IsFiniteSet(D) /\ Cardinality(Places) < Cardinality(D) /\ I \in [D -> Places]
    BY <2>1, <2>2, <2>3
  <2> HIDE DEF I, D
  <2>5. \E x, y \in D : x # y /\ I[x] = I[y]
    BY <2>3, <2>4, FS_PigeonHole
  <2>6. QED
    BY <2>5 DEF I, D
<1>5. PICK i \in 0..N, d \in 1..N : i + d <= N /\ Back[i][p] = Back[i + d][p]
  <2>1. CASE a < b
    <3>1. b - a \in 1..N /\ a + (b - a) = b
      BY <1>1, <2>1
    <3>2. QED
      BY <1>1, <1>4, <3>1
  <2>2. CASE b < a
    <3>1. a - b \in 1..N /\ b + (a - b) = a
      BY <1>1, <2>2
    <3>2. QED
      BY <1>1, <1>4, <3>1
  <2>3. QED
    BY <1>1, <1>4, <2>1, <2>2
<1> DEFINE S == {c \in 0..i : Back[i - c][p] = Back[(i - c) + d][p]}
<1>6. 0 \in S /\ i \in Nat
  <2>1. i - 0 = i /\ i \in Nat
    BY <1>1
  <2>2. QED
    BY <1>5, <2>1
<1>7. ASSUME NEW c \in S, c < i PROVE c + 1 \in S
  <2>1. PICK j \in 0..N - 1 : j = i - (c + 1) /\ i - c = j + 1 /\ (j + 1) + d = (j + d) + 1
                              /\ j + d \in 0..N - 1 /\ j \in 0..N /\ j + d \in 0..N
    BY <1>1, <1>5, <1>7
  <2>2. Back[j + 1][p] = asked[Back[j][p]] /\ Back[(j + d) + 1][p] = asked[Back[j + d][p]]
    BY <1>1, <2>1, BackSteps
  <2>3. asked[Back[j][p]] = asked[Back[j + d][p]]
    BY <2>1, <2>2
  <2>4. Back[j][p] \in P /\ Back[j + d][p] \in P
    BY <1>3, <2>1
  <2>5. Back[j][p] = Back[j + d][p]
    BY <2>3, <2>4
  <2>6. QED
    BY <1>7, <2>1, <2>5
<1>8. i \in S
  <2> HIDE DEF S
  <2>1. S \in SUBSET (0..i)
    BY DEF S
  <2>2. QED
    BY <1>6, <1>7, <2>1, Forwards
<1>9. Back[0][p] = Back[d][p]
  <2>1. i - i = 0 /\ 0 + d = d
    BY <1>6
  <2>2. QED
    BY <1>8, <2>1
<1>10. QED
  BY <1>1, <1>2, <1>9, BackSteps DEF Orbit

-----------------------------------------------------------------------------

\* The cycles that no move of has gone and none reads the scratch.
Intact == {C \in Cycles : C \subseteq pending /\ \A p \in C : from[p] = asked[p]}

CyclesInv ==
    /\ \A p \in pending : from[p] \in {asked[p], Scratch}
    /\ saved + Cardinality(Intact) = Cardinality(Cycles)

LEMMA CycleFacts ==
    ASSUME TypeOK
    PROVE  /\ IsFiniteSet(Cycles) /\ Cardinality(Cycles) \in Nat
           /\ IsFiniteSet(Intact) /\ Cardinality(Intact) \in Nat
           /\ \A C \in Cycles : \E q \in wanted :
                q \in Places /\ asked[q] # q /\ q \in Orbit(q) /\ C = Orbit(q)
<1>1. wanted \subseteq Places
  BY DEF TypeOK
<1>2. Cycles \subseteq SUBSET Places
  <2>1. ASSUME NEW q \in Places PROVE Orbit(q) \subseteq Places
    BY BackSteps DEF Orbit
  <2>2. QED
    BY <1>1, <2>1 DEF Cycles
<1>3. IsFiniteSet(SUBSET Places)
  BY MovesAssumption, FS_SUBSET
<1>4. IsFiniteSet(Cycles) /\ IsFiniteSet(Intact)
  <2>1. Intact \subseteq SUBSET Places
    BY <1>2 DEF Intact
  <2>2. QED
    BY <1>2, <1>3, <2>1, FS_Subset
<1>5. QED
  BY <1>1, <1>4, FS_CardinalityType DEF Cycles

LEMMA CyclesStart == Init => CyclesInv
<1> SUFFICES ASSUME Init PROVE CyclesInv
  OBVIOUS
<1>1. TypeOK
  BY Starts DEF IInv
<1>2. from = asked /\ pending = {p \in wanted : asked[p] # p} /\ saved = 0
      /\ \A p \in Places \ wanted : asked[p] = p
  BY DEF Init
<1>3. ASSUME NEW C \in Cycles PROVE C \in Intact
  <2>1. PICK q \in Places : asked[q] # q /\ q \in Orbit(q) /\ C = Orbit(q)
    BY <1>1, CycleFacts
  <2>2. ASSUME NEW r \in C PROVE r \in pending
    <3>1. r \in Places /\ Orbit(r) = C
      BY <1>1, <2>1, SameCycle
    <3>2. ASSUME asked[r] = r PROVE FALSE
      <4>1. Orbit(r) \subseteq {r}
        BY <1>1, <3>1, <3>2, OrbitWithin
      <4>2. QED
        BY <2>1, <3>1, <3>2, <4>1
    <3>3. QED
      BY <1>2, <3>1, <3>2
  <2>3. QED
    BY <1>2, <2>2 DEF Intact
<1>4. Intact = Cycles
  BY <1>3 DEF Intact
<1>5. QED
  BY <1>1, <1>2, <1>4, CycleFacts DEF CyclesInv

LEMMA CyclesStay ==
    ASSUME wanted' = wanted, asked' = asked
    PROVE  Cycles' = Cycles
BY DEF Cycles, Orbit, Back

LEMMA TakeCycles ==
    ASSUME TypeOK, CyclesInv, NEW to \in Places, Take(to)
    PROVE  CyclesInv'
<1>1. /\ to \in pending /\ Ready(to) /\ from' = from /\ saved' = saved
      /\ wanted' = wanted /\ asked' = asked /\ pending' = pending \ {to}
  BY DEF Take, moves
<1>2. Cycles' = Cycles
  BY <1>1, CyclesStay
<1>3. ASSUME NEW C \in Intact PROVE to \notin C
  <2>1. C \in Cycles /\ C \subseteq pending /\ \A p \in C : from[p] = asked[p]
    BY DEF Intact
  <2>2. PICK q \in Places : q \in Orbit(q) /\ C = Orbit(q)
    BY <2>1, CycleFacts
  <2>3. SUFFICES ASSUME to \in C PROVE FALSE
    OBVIOUS
  <2>4. PICK p \in C : asked[p] = to
    BY <2>2, <2>3, OnACycle
  <2>5. p \in pending /\ from[p] = to
    BY <2>1, <2>4
  <2>6. p # to
    BY <2>5 DEF TypeOK
  <2>7. QED
    BY <1>1, <2>5, <2>6 DEF Ready
<1>4. Intact' = Intact
  BY <1>1, <1>2, <1>3 DEF Intact
<1>5. QED
  BY <1>1, <1>2, <1>4 DEF CyclesInv

\* With nothing ready the pending moves permute the places they write.
LEMMA StuckIsPermuted ==
    ASSUME TypeOK, CyclesInv, \A to \in pending : ~ Ready(to)
    PROVE  /\ \A p \in pending : from[p] = asked[p] /\ asked[p] \in pending
           /\ \A p, q \in pending : from[p] = from[q] => p = q
<1> DEFINE Read == {from[q] : q \in pending}
           source == [q \in pending |-> from[q]]
<1>1. IsFiniteSet(pending)
  BY MovesAssumption, FS_Subset DEF TypeOK
<1>2. source \in Surjection(pending, Read)
  BY DEF Surjection
<1>3. pending \subseteq Read
  BY DEF Ready
<1> HIDE DEF source, Read
<1>4. /\ IsFiniteSet(Read) /\ Cardinality(Read) <= Cardinality(pending)
      /\ Cardinality(Read) = Cardinality(pending) <=> source \in Injection(pending, Read)
  BY <1>1, <1>2, FS_Surjection
<1>5. Cardinality(pending) <= Cardinality(Read)
      /\ (Cardinality(Read) = Cardinality(pending) => Read = pending)
  BY <1>3, <1>4, FS_Subset
<1>6. Cardinality(pending) \in Nat /\ Cardinality(Read) \in Nat
  BY <1>1, <1>4, FS_CardinalityType
<1>7. Read = pending /\ source \in Injection(pending, Read)
  BY <1>4, <1>5, <1>6
<1>8. \A p \in pending : from[p] \in pending
  BY <1>7 DEF Read
<1>9. \A p, q \in pending : from[p] = from[q] => p = q
  BY <1>7 DEF source, Injection, IsInjective
<1>10. Scratch \notin pending
  BY MovesAssumption DEF TypeOK
<1>11. QED
  BY <1>8, <1>9, <1>10 DEF CyclesInv

LEMMA BreakCycles ==
    ASSUME TypeOK, CyclesInv, NEW one \in Places, Break(one)
    PROVE  CyclesInv'
<1>1. /\ one \in pending /\ \A to \in pending : ~ Ready(to)
      /\ saved' = saved + 1 /\ wanted' = wanted /\ asked' = asked /\ pending' = pending
      /\ from' = [p \in Places |->
                   IF p \in pending /\ from[p] = from[one] THEN Scratch ELSE from[p]]
  BY DEF Break, moves
<1>2. Cycles' = Cycles
  BY <1>1, CyclesStay
<1>3. /\ pending \subseteq Places /\ pending \subseteq wanted
      /\ asked \in [Places -> Places] /\ Scratch \notin Places /\ saved \in Nat
  BY MovesAssumption DEF TypeOK
<1>4. /\ \A p \in pending : from[p] = asked[p] /\ asked[p] \in pending
      /\ \A p, q \in pending : from[p] = from[q] => p = q
  BY <1>1, StuckIsPermuted
<1>5. from'[one] = Scratch /\ \A p \in pending : p # one => from'[p] = asked[p]
  BY <1>1, <1>3, <1>4
<1>6. one \in Orbit(one) /\ Orbit(one) \subseteq pending
  BY <1>1, <1>3, <1>4, PermutedIsCycles
<1>7. asked[one] # one
  BY <1>1, <1>4 DEF TypeOK
<1>8. Orbit(one) \in Intact
  <2>1. Orbit(one) \in Cycles
    BY <1>1, <1>3, <1>6, <1>7 DEF Cycles
  <2>2. QED
    BY <1>4, <1>6, <2>1 DEF Intact
<1>9. ASSUME NEW C \in Cycles, C \subseteq pending, one \in C PROVE C = Orbit(one)
  BY <1>9, CycleFacts, SameCycle
<1>10. Intact' = Intact \ {Orbit(one)}
  <2>1. ASSUME NEW C \in Cycles, C \subseteq pending, \A p \in C : from'[p] = asked[p]
        PROVE  C \in Intact /\ C # Orbit(one)
    <3>1. one \notin C
      BY <1>3, <1>5, <2>1
    <3>2. \A p \in C : from[p] = asked[p]
      BY <1>4, <2>1
    <3>3. QED
      BY <1>6, <2>1, <3>1, <3>2 DEF Intact
  <2>2. ASSUME NEW C \in Intact, C # Orbit(one)
        PROVE  C \in Cycles /\ C \subseteq pending /\ \A p \in C : from'[p] = asked[p]
    <3>1. C \in Cycles /\ C \subseteq pending
      BY DEF Intact
    <3>2. one \notin C
      BY <1>9, <2>2, <3>1
    <3>3. QED
      BY <1>5, <3>1, <3>2
  <2>3. Intact' = {C \in Cycles : C \subseteq pending /\ \A p \in C : from'[p] = asked[p]}
    BY <1>1, <1>2 DEF Intact
  <2>4. QED
    BY <2>1, <2>2, <2>3
<1>11. Cardinality(Intact') = Cardinality(Intact) - 1
  BY <1>8, <1>10, CycleFacts, FS_RemoveElement
<1>12. saved' + Cardinality(Intact') = Cardinality(Cycles)
  BY <1>1, <1>3, <1>11, CycleFacts DEF CyclesInv
<1>13. \A p \in pending : from'[p] \in {asked[p], Scratch}
  BY <1>5
<1>14. QED
  BY <1>1, <1>2, <1>12, <1>13 DEF CyclesInv

LEMMA CyclesKept == Spec => []CyclesInv
<1>1. TypeOK /\ CyclesInv /\ [Next]_mvars => CyclesInv'
  <2> SUFFICES ASSUME TypeOK, CyclesInv, [Next]_mvars PROVE CyclesInv'
    OBVIOUS
  <2>1. CASE \E p \in Places : Take(p) \/ Break(p)
    BY <2>1, TakeCycles, BreakCycles
  <2>2. CASE UNCHANGED mvars
    <3>1. /\ wanted' = wanted /\ asked' = asked /\ pending' = pending
          /\ from' = from /\ saved' = saved
      BY <2>2 DEF mvars, moves
    <3>2. Cycles' = Cycles
      BY <3>1, CyclesStay
    <3>3. Intact' = Intact
      BY <3>1, <3>2 DEF Intact
    <3>4. QED
      BY <3>1, <3>2, <3>3 DEF CyclesInv
  <2>3. QED
    BY <2>1, <2>2 DEF Next
<1>2. IInv => TypeOK
  BY DEF IInv
<1>3. QED
  BY <1>1, <1>2, CyclesStart, Invariance, PTL DEF Spec

\* A cycle costs one extra move and nothing else does (moves.rs: "as few extra
\* moves as it can"): however many moves there are, the scratch is filled once
\* for each of their cycles.
THEOREM OneMoveForACycle == Spec => []FewestExtra
<1>1. TypeOK /\ CyclesInv => FewestExtra
  <2> SUFFICES ASSUME TypeOK, CyclesInv, pending = {} PROVE saved = Cardinality(Cycles)
    BY DEF FewestExtra
  <2>1. ASSUME NEW C \in Intact PROVE FALSE
    <3>1. C \in Cycles /\ C = {}
      BY DEF Intact
    <3>2. QED
      BY <3>1, CycleFacts
  <2>2. Cardinality(Intact) = 0
    BY <2>1, FS_EmptySet
  <2>3. QED
    BY <2>2 DEF CyclesInv, TypeOK
<1>2. IInv => TypeOK
  BY DEF IInv
<1>3. QED
  BY <1>1, <1>2, CyclesKept, Invariance, PTL

-----------------------------------------------------------------------------
(* What an edge is written down from                                       *)

\* What each place holds after so many moves of an order, up to its end.
Trace(h, moved, end) ==
    /\ h \in [0..Len(moved) -> [All -> All]]
    /\ h[0] = [p \in All |-> p]
    /\ \A i \in 1..Len(moved) :
        h[i] = [h[i - 1] EXCEPT ![moved[i].to] = h[i - 1][moved[i].from]]
    /\ h[Len(moved)] = end

FilledBefore(i) == \E j \in 1..i - 1 : order[j].to = Scratch

\* The order writes the places it is to and the scratch, reads the scratch only
\* after filling it, and fills it only for a read.
Ordered ==
    /\ order \in Seq([to : wanted \cup {Scratch}, from : All])
    /\ \A i \in 1..Len(order) : order[i].from = Scratch => FilledBefore(i)
    /\ \A p \in pending : from[p] = Scratch => FilledBefore(Len(order) + 1)
    /\ \A i \in 1..Len(order) : order[i].to = Scratch =>
        \/ \E p \in pending : from[p] = Scratch
        \/ \E j \in 1..Len(order) : order[j].from = Scratch
    /\ \A i \in 1..Len(order) : order[i].from \in {asked[p] : p \in wanted} \cup {Scratch}
    /\ \A p \in pending : from[p] \in {asked[p], Scratch}

\* Where the writing down has got to.
Judged ==
    /\ scratch \in 0..2
    /\ phase \in {"order", "edits", "refused"}
    /\ at \in 1..Len(order) + 1
    /\ machine \in [Everywhere -> Everywhere]
    /\ phase = "order" => at = 1 /\ machine = [p \in Everywhere |-> p]
    /\ phase # "order" => pending = {}
    /\ phase = "edits" => Fits

\* The machine holds what the order has come to, in the scratch as well while
\* somebody still reads it.
Follows(h) ==
    /\ \A p \in Places : machine[p] = h[at - 1][p]
    /\ Busy(at) => machine[Scratch] = h[at - 1][Scratch]

EdgeInv ==
    /\ IInv /\ Ordered /\ Judged
    /\ \E h : Trace(h, order, held) /\ (phase = "edits" => Follows(h))

-----------------------------------------------------------------------------
(* The order                                                               *)

LEMMA TraceGrows ==
    ASSUME NEW moved \in Seq([to : All, from : All]), NEW end \in [All -> All],
           NEW one \in [to : All, from : All],
           NEW h, Trace(h, moved, end)
    PROVE  \E g : Trace(g, Append(moved, one), [end EXCEPT ![one.to] = end[one.from]])
<1> DEFINE n == Len(moved)
           longer == Append(moved, one)
           last == [end EXCEPT ![one.to] = end[one.from]]
           g == [i \in 0..n + 1 |-> IF i = n + 1 THEN last ELSE h[i]]
<1>1. /\ n \in Nat /\ Len(longer) = n + 1 /\ longer[n + 1] = one
      /\ \A i \in 1..n : longer[i] = moved[i]
  OBVIOUS
<1>2. last \in [All -> All]
  OBVIOUS
<1>3. g[n + 1] = last /\ \A i \in 0..n : g[i] = h[i]
  BY <1>1
<1>4. g \in [0..n + 1 -> [All -> All]]
  <2>1. \A i \in 0..n + 1 : g[i] \in [All -> All]
    BY <1>1, <1>2, <1>3 DEF Trace
  <2>2. QED
    BY <2>1
<1>5. g[0] = [p \in All |-> p]
  BY <1>1, <1>3 DEF Trace
<1>6. ASSUME NEW i \in 1..n + 1
      PROVE  g[i] = [g[i - 1] EXCEPT ![longer[i].to] = g[i - 1][longer[i].from]]
  <2>1. CASE i = n + 1
    <3>1. g[i] = last /\ g[i - 1] = h[n] /\ h[n] = end /\ longer[i] = one
      BY <1>1, <1>3, <2>1 DEF Trace
    <3>2. QED
      BY <3>1
  <2>2. CASE i # n + 1
    <3>1. i \in 1..n /\ i \in 0..n /\ i - 1 \in 0..n
      BY <1>1, <2>2
    <3>2. g[i] = h[i] /\ g[i - 1] = h[i - 1] /\ longer[i] = moved[i]
      BY <1>1, <1>3, <3>1
    <3>3. h[i] = [h[i - 1] EXCEPT ![moved[i].to] = h[i - 1][moved[i].from]]
      BY <3>1 DEF Trace
    <3>4. QED
      BY <3>2, <3>3
  <2>3. QED
    BY <2>1, <2>2
<1> HIDE DEF g, last, longer
<1>7. Trace(g, longer, last)
  BY <1>1, <1>3, <1>4, <1>5, <1>6 DEF Trace
<1>8. QED
  BY <1>7 DEF longer, last

LEMMA TakeOrders ==
    ASSUME IInv, Ordered, NEW to \in Places, Take(to)
    PROVE  Ordered'
<1> DEFINE n == Len(order)
           one == Move(to, from[to])
<1>1. /\ to \in pending /\ to \in wanted /\ from[to] \in All
      /\ order' = Append(order, one)
      /\ pending' = pending \ {to}
      /\ UNCHANGED <<wanted, asked, from>>
  BY DEF Take, moves, IInv, TypeOK
<1>2. one \in [to : wanted \cup {Scratch}, from : All] /\ one.to = to /\ one.from = from[to]
      /\ to # Scratch
  BY <1>1, MovesAssumption DEF Move
<1>3. n \in Nat /\ Len(order') = n + 1 /\ order'[n + 1] = one
      /\ \A i \in 1..n : order'[i] = order[i]
  BY <1>1, <1>2 DEF Ordered
<1>4. order' \in Seq([to : wanted' \cup {Scratch}, from : All])
  BY <1>1, <1>2 DEF Ordered
<1>5. \A i \in 1..n + 1 : order'[i].from = Scratch =>
        \E j \in 1..i - 1 : order'[j].to = Scratch
  <2>1. \A i \in 1..n + 1 : FilledBefore(i) => \E j \in 1..i - 1 : order'[j].to = Scratch
    BY <1>3 DEF FilledBefore
  <2>2. order'[n + 1].from = Scratch => FilledBefore(n + 1)
    BY <1>1, <1>2, <1>3 DEF Ordered
  <2>3. QED
    BY <1>3, <2>1, <2>2 DEF Ordered
<1>6. \A p \in pending' : from'[p] = Scratch => \E j \in 1..n + 1 : order'[j].to = Scratch
  BY <1>1, <1>3 DEF Ordered, FilledBefore
<1>7. \A i \in 1..n + 1 : order'[i].to = Scratch =>
        \/ \E p \in pending' : from'[p] = Scratch
        \/ \E j \in 1..n + 1 : order'[j].from = Scratch
  BY <1>1, <1>2, <1>3 DEF Ordered
<1>8. \A i \in 1..n + 1 : order'[i].from \in {asked'[p] : p \in wanted'} \cup {Scratch}
  BY <1>1, <1>2, <1>3 DEF Ordered
<1>9. \A p \in pending' : from'[p] \in {asked'[p], Scratch}
  BY <1>1 DEF Ordered
<1>10. QED
  <2>1. (Len(order') + 1) - 1 = n + 1
    BY <1>3
  <2>2. QED
    BY <1>3, <1>4, <1>5, <1>6, <1>7, <1>8, <1>9, <2>1 DEF Ordered, FilledBefore

LEMMA BreakOrders ==
    ASSUME IInv, Ordered, NEW p \in Places, Break(p)
    PROVE  Ordered'
<1> DEFINE n == Len(order)
           one == Move(Scratch, from[p])
<1>1. /\ p \in pending /\ p \in wanted /\ from[p] \in All /\ from[p] # Scratch
      /\ order' = Append(order, one)
      /\ from' = [q \in Places |->
                   IF q \in pending /\ from[q] = from[p] THEN Scratch ELSE from[q]]
      /\ UNCHANGED <<wanted, asked, pending>>
  BY ReadersAreWriters DEF Break, moves, IInv, TypeOK, ScratchFree
<1>2. one \in [to : wanted \cup {Scratch}, from : All] /\ one.to = Scratch /\ one.from = from[p]
  BY <1>1 DEF Move
<1>3. n \in Nat /\ Len(order') = n + 1 /\ order'[n + 1] = one
      /\ \A i \in 1..n : order'[i] = order[i]
  BY <1>1, <1>2 DEF Ordered
<1>4. order' \in Seq([to : wanted' \cup {Scratch}, from : All])
  BY <1>1, <1>2 DEF Ordered
<1>5. \A i \in 1..n + 1 : order'[i].from = Scratch =>
        \E j \in 1..i - 1 : order'[j].to = Scratch
  BY <1>1, <1>2, <1>3 DEF Ordered, FilledBefore
<1>6. \E j \in 1..n + 1 : order'[j].to = Scratch
  BY <1>2, <1>3
<1>7. p \in pending' /\ from'[p] = Scratch
  BY <1>1
<1>8. \A i \in 1..n + 1 : order'[i].from \in {asked'[q] : q \in wanted'} \cup {Scratch}
  BY <1>1, <1>2, <1>3 DEF Ordered
<1>9. \A q \in pending' : from'[q] \in {asked'[q], Scratch}
  BY <1>1 DEF Ordered, IInv, TypeOK
<1>10. QED
  <2>1. (Len(order') + 1) - 1 = n + 1
    BY <1>3
  <2>2. QED
    BY <1>3, <1>4, <1>5, <1>6, <1>7, <1>8, <1>9, <2>1 DEF Ordered, FilledBefore

LEMMA MovesOfTheOrder ==
    ASSUME IInv, Ordered
    PROVE  order \in Seq([to : All, from : All])
<1> DEFINE Some == [to : wanted \cup {Scratch}, from : All]
           Any == [to : All, from : All]
<1>1. Some \subseteq Any
  <2>1. wanted \cup {Scratch} \subseteq All
    BY DEF IInv, TypeOK, All
  <2>2. QED
    BY <2>1
<1>2. order \in Seq(Some)
  BY DEF Ordered
<1> HIDE DEF Some, Any
<1>3. order \in Seq(Any)
  BY <1>1, <1>2, SeqMonotonic
<1>4. QED
  BY <1>3 DEF Any

LEMMA OneOfTheOrder ==
    ASSUME Ordered, NEW i \in 1..Len(order)
    PROVE  /\ Len(order) \in Nat
           /\ order[i] \in [to : wanted \cup {Scratch}, from : All]
<1>1. order \in Seq([to : wanted \cup {Scratch}, from : All])
  BY DEF Ordered
<1>2. QED
  BY <1>1, ElementOfSeq, LenProperties

LEMMA OrderingKeeps ==
    ASSUME EdgeInv, Ordering
    PROVE  EdgeInv'
<1>1. IInv' /\ phase = "order" /\ UNCHANGED <<scratch, phase, at, machine>>
  BY Keeps DEF Ordering, EdgeInv
<1>2. PICK p \in Places : Take(p) \/ Break(p)
  BY DEF Ordering, Next
<1>3. Ordered'
  BY <1>2, TakeOrders, BreakOrders DEF EdgeInv
<1>4. PICK one \in [to : All, from : All] :
        /\ order' = Append(order, one)
        /\ held' = [held EXCEPT ![one.to] = held[one.from]]
  <2>1. p \in All /\ Scratch \in All /\ from[p] \in All
    BY DEF All, EdgeInv, IInv, TypeOK
  <2>2. Move(p, from[p]) \in [to : All, from : All]
        /\ Move(Scratch, from[p]) \in [to : All, from : All]
    BY <2>1 DEF Move
  <2>3. CASE Take(p)
    BY <2>2, <2>3 DEF Take, Move
  <2>4. CASE Break(p)
    BY <2>2, <2>4 DEF Break, Move
  <2>5. QED
    BY <1>2, <2>3, <2>4
<1>5. \E g : Trace(g, order', held')
  <2>1. order \in Seq([to : All, from : All]) /\ held \in [All -> All]
    BY MovesOfTheOrder DEF EdgeInv, IInv, TypeOK
  <2>2. PICK h : Trace(h, order, held)
    BY DEF EdgeInv
  <2>3. QED
    BY <1>4, <2>1, <2>2, TraceGrows
<1>6. Judged'
  <2>1. Len(order') \in Nat
    BY <1>3 DEF Ordered
  <2>2. QED
    BY <1>1, <2>1 DEF EdgeInv, Judged, Everywhere, All
<1>7. QED
  BY <1>1, <1>3, <1>5, <1>6 DEF EdgeInv

-----------------------------------------------------------------------------
(* The judgement and the writing down                                      *)

LEMMA JudgeKeeps ==
    ASSUME EdgeInv, Judge
    PROVE  EdgeInv'
<1>1. /\ phase = "order" /\ pending = {}
      /\ phase' = IF Fits THEN "edits" ELSE "refused"
      /\ UNCHANGED <<wanted, asked, pending, from, order, held, saved, scratch, at, machine>>
  BY DEF Judge, mvars, moves
<1>2. IInv' /\ Ordered'
  BY <1>1 DEF EdgeInv, IInv, TypeOK, Parallel, Waiting, Ordered, FilledBefore
<1>3. Fits' = Fits
  BY <1>1 DEF Fits, Busy, SlotToSlot
<1>4. Judged'
  BY <1>1, <1>3 DEF EdgeInv, Judged
<1>5. PICK h : Trace(h, order, held)
  BY DEF EdgeInv
<1>6. Follows(h)'
  <2>1. at = 1 /\ machine = [p \in Everywhere |-> p] /\ h[0] = [p \in All |-> p]
    BY <1>1, <1>5 DEF EdgeInv, Judged, Trace
  <2>2. \A p \in All : machine[p] = h[at - 1][p]
    BY <2>1 DEF Everywhere
  <2>3. QED
    BY <1>1, <2>2 DEF Follows, All
<1>7. QED
  BY <1>1, <1>2, <1>4, <1>5, <1>6 DEF EdgeInv

\* What fits is never in want of a register.
LEMMA NothingWanting ==
    ASSUME EdgeInv, phase = "edits", at <= Len(order)
    PROVE  ~ Wanting(order[at])
<1>1. /\ at \in 1..Len(order) /\ scratch \in 0..2 /\ Fits /\ pending = {}
      /\ order[at] \in [to : wanted \cup {Scratch}, from : All]
      /\ order[at].from \in {asked[p] : p \in wanted} \cup {Scratch}
  <2>1. at \in 1..Len(order)
    BY DEF EdgeInv, Judged, Ordered
  <2>2. QED
    BY <2>1, OneOfTheOrder DEF EdgeInv, Judged, Ordered
<1>2. Scratch \notin Slots
  BY MovesAssumption, EdgeAssumption
<1>3. CASE scratch = 0
  <2>1. /\ \A p \in wanted : {p, asked[p]} \cap Slots = {}
        /\ \A i \in 1..Len(order) : order[i].from # Scratch
    BY <1>1, <1>3 DEF Fits
  <2>2. order[at].to # Scratch /\ order[at].from # Scratch
    BY <1>1, <2>1 DEF EdgeInv, Ordered
  <2>3. ~ SlotToSlot(order[at])
    BY <1>1, <2>1, <2>2 DEF SlotToSlot
  <2>4. QED
    BY <2>2, <2>3 DEF Wanting
<1>4. CASE scratch = 1
  BY <1>1, <1>4 DEF Fits, Wanting, HasThrough
<1>5. CASE scratch = 2
  BY <1>5 DEF Wanting, HasThrough
<1>6. QED
  BY <1>1, <1>3, <1>4, <1>5

LEMMA EditFollows ==
    ASSUME EdgeInv, Edit, NEW h, Trace(h, order, held), Follows(h)
    PROVE  Follows(h)'
<1> DEFINE one == order[at]
           passed == IF SlotToSlot(one) THEN {one.to, Through} ELSE {one.to}
<1>1. /\ phase = "edits" /\ at \in 1..Len(order) /\ scratch \in 0..2 /\ Fits
      /\ one \in [to : wanted \cup {Scratch}, from : All]
      /\ machine \in [Everywhere -> Everywhere]
  <2>1. at \in 1..Len(order)
    BY DEF Edit, EdgeInv, Judged, Ordered
  <2>2. QED
    BY <2>1, OneOfTheOrder DEF Edit, EdgeInv, Judged
<1>2. /\ ~ Wanting(one)
      /\ machine' = [p \in Everywhere |-> IF p \in passed THEN machine[one.from] ELSE machine[p]]
      /\ at' = at + 1 /\ order' = order
  <2>1. ~ Wanting(one)
    BY <1>1, NothingWanting
  <2>2. QED
    BY <2>1 DEF Edit, mvars
<1>3. /\ Scratch \notin Places /\ Second \notin All /\ Slots \subseteq Places
      /\ wanted \subseteq Places
  BY MovesAssumption, EdgeAssumption DEF EdgeInv, IInv, TypeOK
<1>4. /\ one.to \in All /\ one.from \in All
      /\ h[at - 1] \in [All -> All]
      /\ h[at] = [h[at - 1] EXCEPT ![one.to] = h[at - 1][one.from]]
  <2>1. at - 1 \in 0..Len(order)
    BY <1>1
  <2>2. QED
    BY <1>1, <1>3, <2>1 DEF Trace, All
\* What is read is what the order reads.
<1>5. machine[one.from] = h[at - 1][one.from]
  <2>1. CASE one.from = Scratch
    <3>1. FilledBefore(at)
      BY <1>1, <2>1 DEF EdgeInv, Ordered
    <3>2. Busy(at)
      BY <1>1, <2>1, <3>1 DEF Busy, FilledBefore
    <3>3. QED
      BY <2>1, <3>2 DEF Follows
  <2>2. CASE one.from \in Places
    BY <2>2 DEF Follows
  <2>3. QED
    BY <1>4, <2>1, <2>2 DEF All
<1>6. Through \in {Scratch, Second} /\ Through \notin Places
  BY <1>3 DEF Through, All
<1>7. \A p \in Places : machine'[p] = h[at][p]
  <2>1. TAKE p \in Places
  <2>2. p \in All /\ p \in Everywhere /\ p # Through
    BY <1>6 DEF All, Everywhere
  <2>3. p \in passed <=> p = one.to
    BY <2>2
  <2>4. CASE p = one.to
    BY <1>2, <1>4, <1>5, <2>2, <2>3, <2>4
  <2>5. CASE p # one.to
    <3>1. machine'[p] = machine[p] /\ h[at][p] = h[at - 1][p]
      BY <1>2, <1>4, <2>2, <2>3, <2>5
    <3>2. QED
      BY <3>1 DEF Follows
  <2>6. QED
    BY <2>4, <2>5
\* A busy scratch is not gone through.
<1>8. Busy(at)' => machine'[Scratch] = h[at][Scratch]
  <2>1. SUFFICES ASSUME Busy(at)' PROVE machine'[Scratch] = h[at][Scratch]
    OBVIOUS
  <2>2. /\ \E i \in 1..at : order[i].to = Scratch
        /\ \E i \in at + 1..Len(order) : order[i].from = Scratch
    BY <1>1, <1>2, <2>1 DEF Busy
  <2>3. Scratch \in All /\ Scratch \in Everywhere
    BY DEF All, Everywhere
  <2>4. CASE one.to = Scratch
    BY <1>2, <1>4, <1>5, <2>3, <2>4
  <2>5. CASE one.to # Scratch
    <3>1. Busy(at)
      BY <1>1, <2>2, <2>5 DEF Busy
    <3>2. Scratch \notin passed
      <4>1. SUFFICES ASSUME SlotToSlot(one), Through = Scratch PROVE FALSE
        BY <2>5
      <4>2. scratch # 2
        BY <1>3, <2>3, <4>1 DEF Through
      <4>3. QED
        BY <1>2, <3>1, <4>1, <4>2 DEF Wanting, HasThrough
    <3>3. machine'[Scratch] = machine[Scratch] /\ h[at][Scratch] = h[at - 1][Scratch]
      BY <1>2, <1>4, <2>3, <2>5, <3>2
    <3>4. QED
      BY <3>1, <3>3 DEF Follows
  <2>6. QED
    BY <2>4, <2>5
<1>9. at' - 1 = at
  BY <1>1, <1>2
<1>10. QED
  BY <1>7, <1>8, <1>9 DEF Follows

LEMMA EditKeeps ==
    ASSUME EdgeInv, Edit
    PROVE  EdgeInv'
<1>1. /\ phase = "edits" /\ at \in 1..Len(order) /\ ~ Wanting(order[at])
  <2>1. phase = "edits" /\ at \in 1..Len(order)
    BY DEF Edit, EdgeInv, Judged
  <2>2. QED
    BY <2>1, NothingWanting
<1>2. /\ at' = at + 1
      /\ UNCHANGED <<wanted, asked, pending, from, order, held, saved, scratch, phase>>
  BY <1>1 DEF Edit, mvars, moves
<1>3. IInv' /\ Ordered'
  BY <1>2 DEF EdgeInv, IInv, TypeOK, Parallel, Waiting, Ordered, FilledBefore
<1>4. Fits' = Fits
  BY <1>2 DEF Fits, Busy, SlotToSlot
<1>5. machine' \in [Everywhere -> Everywhere]
  <2>1. order[at].from \in Everywhere /\ machine \in [Everywhere -> Everywhere]
    BY <1>1, OneOfTheOrder DEF EdgeInv, Judged, Everywhere
  <2>2. QED
    BY <1>1, <2>1 DEF Edit
<1>6. Judged'
  BY <1>1, <1>2, <1>4, <1>5 DEF EdgeInv, Judged
<1>7. PICK h : Trace(h, order, held) /\ Follows(h)
  BY <1>1 DEF EdgeInv
<1>8. Follows(h)'
  BY <1>7, EditFollows
<1>9. QED
  BY <1>2, <1>3, <1>6, <1>7, <1>8 DEF EdgeInv

-----------------------------------------------------------------------------

LEMMA EdgeStarts == EdgeInit => EdgeInv
<1> SUFFICES ASSUME EdgeInit PROVE EdgeInv
  OBVIOUS
<1>1. IInv /\ order = << >> /\ Len(order) = 0 /\ from = asked
      /\ held = [p \in All |-> p] /\ asked \in [Places -> Places] /\ pending \subseteq Places
  BY Starts DEF EdgeInit, Init
<1>2. Ordered
  BY <1>1, MovesAssumption DEF Ordered
<1>3. Judged
  BY <1>1 DEF EdgeInit, Judged
<1>4. Trace([i \in 0..0 |-> held], order, held)
  BY <1>1 DEF Trace, IInv, TypeOK
<1>5. QED
  BY <1>1, <1>2, <1>3, <1>4 DEF EdgeInv, EdgeInit

LEMMA EdgeKeeps == EdgeInv /\ [EdgeNext]_vars => EdgeInv'
<1> SUFFICES ASSUME EdgeInv, [EdgeNext]_vars PROVE EdgeInv'
  OBVIOUS
<1>1. CASE EdgeNext
  BY <1>1, OrderingKeeps, JudgeKeeps, EditKeeps DEF EdgeNext
<1>2. CASE UNCHANGED vars
  <2>1. UNCHANGED <<wanted, asked, pending, from, order, held, saved,
                    scratch, phase, at, machine>>
    BY <1>2 DEF vars, mvars, moves
  <2>2. IInv' /\ Ordered' /\ Judged'
    <3>1. IInv'
      BY <2>1 DEF EdgeInv, IInv, TypeOK, Parallel, Waiting
    <3>2. Ordered'
      BY <2>1 DEF EdgeInv, Ordered, FilledBefore
    <3>3. Fits' = Fits
      BY <2>1 DEF Fits, Busy, SlotToSlot
    <3>4. Judged'
      BY <2>1, <3>3 DEF EdgeInv, Judged
    <3>5. QED
      BY <3>1, <3>2, <3>4
  <2>3. PICK h : Trace(h, order, held) /\ (phase = "edits" => Follows(h))
    BY DEF EdgeInv
  <2>4. phase' = "edits" => Follows(h)'
    BY <2>1, <2>3 DEF Follows, Busy
  <2>5. QED
    BY <2>1, <2>2, <2>3, <2>4 DEF EdgeInv
<1>3. QED
  BY <1>1, <1>2

LEMMA EdgeInvariance == EdgeSpec => []EdgeInv
BY EdgeStarts, EdgeKeeps, PTL DEF EdgeSpec

\* On whatever registers held back, once the edits of an edge are made every
\* parameter holds the argument it was to have and no other register or slot
\* has changed (edge).
THEOREM EdgeIsParallel == EdgeSpec => []EdgeDone
<1>1. EdgeInv => EdgeDone
  <2> SUFFICES ASSUME EdgeInv, phase = "edits", at > Len(order)
               PROVE  \A p \in Places : machine[p] = IF p \in wanted THEN asked[p] ELSE p
    BY DEF EdgeDone
  <2>1. PICK h : Trace(h, order, held) /\ Follows(h)
    BY DEF EdgeInv
  <2>2. at - 1 = Len(order) /\ pending = {}
    BY DEF EdgeInv, Judged, Ordered
  <2>3. \A p \in Places : machine[p] = held[p]
    BY <2>1, <2>2 DEF Follows, Trace
  <2>4. QED
    BY <2>2, <2>3 DEF EdgeInv, IInv, Parallel
<1>2. QED
  BY <1>1, EdgeInvariance, PTL

\* edge never panics for want of a register over what fits_on_edges let
\* through: the judge and the writer agree, move by move.
THEOREM EdgeNeverWants == EdgeSpec => [](phase # "panicked")
<1>1. EdgeInv => phase # "panicked"
  BY DEF EdgeInv, Judged
<1>2. QED
  BY <1>1, EdgeInvariance, PTL

\* fits_on_edges and edge leave the order as sequence found it, so that what
\* the theorems above say of an ordering is true of every edge.
THEOREM EdgesAreOrderings == EdgeSpec => Spec
<1>1. EdgeInit => Init
  BY DEF EdgeInit
<1>2. [EdgeNext]_vars => [Next]_mvars
  <2>1. Judge \/ Edit \/ UNCHANGED vars => UNCHANGED mvars
    BY DEF Judge, Edit, vars
  <2>2. QED
    BY <2>1 DEF EdgeNext, Ordering
<1>3. QED
  BY <1>1, <1>2, PTL DEF EdgeSpec, Spec

=============================================================================
