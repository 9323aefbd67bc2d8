------------------------------ MODULE HeapProofs ------------------------------
(***************************************************************************)
(* Proofs about Heap, for every number of threads, set of sizes, length    *)
(* and number of regions: the invariant of HeapInvariant is inductive, and *)
(* from it follow the accounting of blocks, the runs of the plane, the     *)
(* refusals that are just, the frees that are divided, the leak sweep that *)
(* misses no live block, and that the plane implements the instances of    *)
(* Instances.                                                              *)
(*                                                                         *)
(* A step is of one of four kinds, and a lemma each says what the kind     *)
(* leaves alone: an allocation begins an instance (BeginsAt), a step       *)
(* outside the lock moves capabilities between the program and its thread  *)
(* (Outside, Handled), a fill paints one granule of the holder's block     *)
(* (FillPaints), and the end of an instance lists its block (EndsAt).      *)
(***************************************************************************)
EXTENDS HeapInvariant, FiniteSetTheorems, SequenceTheorems, TLAPS

-----------------------------------------------------------------------------
(* Versions                                                                *)

LEMMA BegunVersion ==
    ASSUME NEW n \in Nat \ {0}
    PROVE  /\ begun(n) \in Nat /\ begun(n) % 2 = 0
           /\ number(begun(n)) = n /\ owned(begun(n))
BY DEF begun, number, owned, DEAD

LEMMA EndedVersion ==
    ASSUME NEW v \in Nat, v % 2 = 0
    PROVE  /\ ended(v) = v + 1 /\ ended(v) \in Nat
           /\ ended(v) % 2 # 0 /\ number(ended(v)) = number(v)
           /\ ~ owned(ended(v))
BY DEF ended, number, owned, DEAD

LEMMA SameVersion ==
    ASSUME NEW v \in Nat, NEW w \in Nat, v % 2 = 0, w % 2 = 0, number(v) = number(w)
    PROVE  v = w
BY DEF number

LEMMA OwnedVersion ==
    ASSUME NEW v \in Nat
    PROVE  /\ number(v) \in Nat
           /\ owned(v) <=> v % 2 = 0 /\ number(v) # 0
           /\ v % 2 = 0 => v = begun(number(v))
BY DEF number, owned, DEAD, begun

-----------------------------------------------------------------------------
(* Granules                                                                *)

LEMMA Lengthy ==
    /\ LARGEST \in Nat /\ Sizes \subseteq Nat \ {0} /\ REGION \in Nat /\ REGIONS \in Nat \ {0}
    /\ \A s \in Sizes : s <= LARGEST
    /\ RegionFor(LARGEST) \in Nat
    /\ \A s \in Sizes : RegionFor(s) \in Nat /\ RegionFor(s) <= RegionFor(LARGEST)
                        /\ Block(s) <= RegionFor(s)
    /\ \A n \in Lengths : n \in Nat /\ n <= RegionFor(LARGEST)
<1>1. /\ LARGEST \in Nat /\ Sizes \subseteq Nat \ {0} /\ REGION \in Nat /\ REGIONS \in Nat \ {0}
      /\ \A s \in Sizes : s <= LARGEST
  BY HeapAssumption
<1>2. RegionFor(LARGEST) \in Nat
  BY <1>1 DEF RegionFor, Block, Aux, HEADER
<1>3. ASSUME NEW s \in Sizes
      PROVE  RegionFor(s) \in Nat /\ RegionFor(s) <= RegionFor(LARGEST) /\ Block(s) <= RegionFor(s)
  BY <1>1 DEF RegionFor, Block, Aux, HEADER
<1>4. QED
  BY <1>1, <1>2, <1>3 DEF Lengths

LEMMA Granular ==
    ASSUME NEW a, NEW k
    PROVE  <<a, k>> \in Granules <=> a \in 1..REGIONS /\ k \in 0..RegionFor(LARGEST) - 1
BY DEF Granules

LEMMA GranuleParts ==
    ASSUME NEW g \in Granules
    PROVE  /\ g = <<g[1], g[2]>> /\ g[1] \in 1..REGIONS /\ g[2] \in 0..RegionFor(LARGEST) - 1
           /\ g[1] \in Nat /\ g[2] \in Nat /\ g # <<>>
BY Lengthy DEF Granules

LEMMA InPayload ==
    ASSUME NEW p, NEW n \in Nat, NEW g, p[2] \in Nat
    PROVE  g \in Payload(p, n) <=> \E k \in 0..n - 1 : g = Spot(p, k)
BY DEF Payload, Spot

LEMMA PlacedHasSize ==
    ASSUME Shaped, Laid
    PROVE  \A p \in Granules : p \in Placed <=> headers[p].ext \in Sizes
<1>1. 0 \notin Sizes
  BY Lengthy
<1>2. ASSUME NEW p \in Granules, p \notin Placed
      PROVE  headers[p].ext = 0
  <2>1. headers[p] = NoHeader
    BY <1>2 DEF Placed
  <2>2. QED
    BY <2>1 DEF NoHeader
<1>3. QED
  BY <1>1, <1>2 DEF Laid

LEMMA ArenaFacts ==
    ASSUME Shaped, NEW a \in DOMAIN arenas
    PROVE  /\ a \in 1..Len(arenas) /\ a \in 1..REGIONS /\ a \in Nat
           /\ arenas[a] \in Arena
           /\ arenas[a].len \in Nat /\ arenas[a].next \in Nat /\ arenas[a].count \in Nat
           /\ arenas[a].free \in [Sizes -> Seq(Nat)]
<1>1. arenas \in Seq(Arena) /\ Len(arenas) \in Nat /\ Len(arenas) <= REGIONS
      /\ REGIONS \in Nat
  BY Lengthy DEF Shaped
<1>2. a \in 1..Len(arenas) /\ arenas[a] \in Arena
  BY <1>1
<1>3. QED
  BY <1>1, <1>2 DEF Arena

LEMMA PlacedFacts ==
    ASSUME Shaped, Laid, NEW p \in Placed
    PROVE  /\ p \in Granules /\ p = <<p[1], p[2]>>
           /\ p[1] \in DOMAIN arenas /\ p[1] \in 1..REGIONS /\ p[2] \in Nat
           /\ headers[p] \in Header
           /\ headers[p].ext \in Sizes /\ headers[p].ext \in Nat \ {0}
           /\ headers[p].ver \in Nat /\ headers[p].live \in BOOLEAN
           /\ Lo(p) \in Nat /\ Hi(p) \in Nat
           /\ Lo(p) < p[2] /\ p[2] < Hi(p)
           /\ Hi(p) <= arenas[p[1]].next /\ Hi(p) <= RegionFor(LARGEST)
<1>1. p \in Granules /\ p[1] \in DOMAIN arenas /\ headers[p].ext \in Sizes
  BY DEF Placed, Laid
<1>2. p = <<p[1], p[2]>> /\ p[1] \in 1..REGIONS /\ p[2] \in Nat
  BY <1>1, GranuleParts
<1>3. headers[p] \in Header /\ headers[p].ver \in Nat /\ headers[p].live \in BOOLEAN
  BY <1>1 DEF Shaped, Header
<1>4. headers[p].ext \in Nat \ {0}
  BY <1>1, Lengthy
<1>5. Lo(p) \in Nat /\ Hi(p) \in Nat /\ Lo(p) < p[2] /\ p[2] < Hi(p)
  BY <1>2, <1>4 DEF Lo, Hi, Laid, Aux, HEADER
<1>6. arenas[p[1]].len \in Nat /\ arenas[p[1]].next \in Nat
      /\ arenas[p[1]].len <= RegionFor(LARGEST) /\ RegionFor(LARGEST) \in Nat
      /\ arenas[p[1]].next <= arenas[p[1]].len
  BY <1>1, Lengthy, ArenaFacts DEF Laid
<1>7. Hi(p) <= arenas[p[1]].next
  BY DEF Laid
<1>8. QED
  BY <1>1, <1>2, <1>3, <1>4, <1>5, <1>6, <1>7

\* Two blocks have no granule in common, payloads least of all.
LEMMA PayloadsApart ==
    ASSUME Shaped, Laid, NEW p \in Placed, NEW q \in Placed,
           NEW i \in 0..headers[p].ext - 1, NEW j \in 0..headers[q].ext - 1,
           Spot(p, i) = Spot(q, j)
    PROVE  p = q /\ i = j
<1>1. p[1] = q[1] /\ p[2] + i = q[2] + j
  BY DEF Spot
<1>2. /\ p = <<p[1], p[2]>> /\ q = <<q[1], q[2]>> /\ p[2] \in Nat /\ q[2] \in Nat
      /\ headers[p].ext \in Nat /\ headers[q].ext \in Nat
      /\ Lo(p) < p[2] /\ Lo(q) < q[2] /\ Lo(p) \in Nat /\ Lo(q) \in Nat
  BY PlacedFacts
<1>3. i \in Nat /\ j \in Nat /\ p[2] + i < Hi(p) /\ q[2] + j < Hi(q)
  BY <1>2 DEF Hi
<1>4. CASE p # q
  <2>1. Hi(p) <= Lo(q) \/ Hi(q) <= Lo(p)
    BY <1>1, <1>4 DEF Laid
  <2>2. Hi(p) \in Nat /\ Hi(q) \in Nat
    BY PlacedFacts
  <2>3. QED
    BY <1>1, <1>2, <1>3, <2>1, <2>2
<1>5. QED
  BY <1>1, <1>2, <1>3, <1>4

LEMMA SpotIsAGranule ==
    ASSUME Shaped, Laid, NEW p \in Placed, NEW k \in 0..headers[p].ext - 1
    PROVE  Spot(p, k) \in Granules
<1>1. /\ p[1] \in 1..REGIONS /\ p[2] \in Nat /\ headers[p].ext \in Nat
      /\ Hi(p) <= RegionFor(LARGEST) /\ RegionFor(LARGEST) \in Nat
  BY PlacedFacts, Lengthy
<1>2. p[2] + k \in 0..RegionFor(LARGEST) - 1
  BY <1>1 DEF Hi
<1>3. QED
  BY <1>1, <1>2, Granular DEF Spot

\* A list and the list without its first.
LEMMA TailFacts ==
    ASSUME NEW list \in Seq(Nat), list # <<>>
    PROVE  /\ \A i \in DOMAIN Tail(list) :
                i + 1 \in DOMAIN list /\ Tail(list)[i] = list[i + 1]
           /\ \A i \in DOMAIN list :
                i # 1 => i - 1 \in DOMAIN Tail(list) /\ Tail(list)[i - 1] = list[i]
           /\ (\A i, j \in DOMAIN list : list[i] = list[j] => i = j) =>
                \A i \in DOMAIN Tail(list) :
                  /\ list[i + 1] # list[1]
                  /\ \A j \in DOMAIN Tail(list) : Tail(list)[i] = Tail(list)[j] => i = j
<1>1. /\ Len(list) \in Nat \ {0} /\ DOMAIN list = 1..Len(list)
      /\ DOMAIN Tail(list) = 1..Len(list) - 1
      /\ \A i \in 1..Len(list) - 1 : Tail(list)[i] = list[i + 1]
  OBVIOUS
<1>2. ASSUME NEW i \in DOMAIN Tail(list)
      PROVE  i \in Nat \ {0} /\ i + 1 \in DOMAIN list /\ Tail(list)[i] = list[i + 1]
  BY <1>1
<1>3. ASSUME NEW i \in DOMAIN list, i # 1
      PROVE  i - 1 \in DOMAIN Tail(list) /\ Tail(list)[i - 1] = list[i]
  <2>1. i - 1 \in 1..Len(list) - 1 /\ (i - 1) + 1 = i
    BY <1>1, <1>3
  <2>2. QED
    BY <1>1, <2>1
<1>4. ASSUME \A i, j \in DOMAIN list : list[i] = list[j] => i = j, NEW i \in DOMAIN Tail(list)
      PROVE  /\ list[i + 1] # list[1]
             /\ \A j \in DOMAIN Tail(list) : Tail(list)[i] = Tail(list)[j] => i = j
  <2>1. 1 \in DOMAIN list
    BY <1>1
  <2>2. list[i + 1] # list[1]
    BY <1>2, <1>4, <2>1
  <2>3. ASSUME NEW j \in DOMAIN Tail(list), Tail(list)[i] = Tail(list)[j]
        PROVE  i = j
    <3>1. i + 1 = j + 1
      BY <1>2, <1>4, <2>3
    <3>2. i \in Nat /\ j \in Nat
      BY <1>2
    <3>3. QED
      BY <3>1, <3>2
  <2>4. QED
    BY <2>2, <2>3
<1>5. QED
  BY <1>2, <1>3, <1>4

LEMMA ListFacts ==
    ASSUME Lists, NEW a \in DOMAIN arenas, NEW s \in Sizes, NEW i \in DOMAIN arenas[a].free[s]
    PROVE  /\ <<a, arenas[a].free[s][i]>> \in Placed
           /\ headers[<<a, arenas[a].free[s][i]>>].ext = s
           /\ ~ headers[<<a, arenas[a].free[s][i]>>].live
           /\ \A j \in DOMAIN arenas[a].free[s] :
                arenas[a].free[s][i] = arenas[a].free[s][j] => i = j
BY DEF Lists

-----------------------------------------------------------------------------
(* What beginning an instance does                                         *)

\* t begins an instance at here, in arena number a as it was before.
BeginsAt(t, a, before, here) ==
    /\ Running /\ lock = NoThread /\ pc[t] = "begin" /\ want[t] \in Sizes
    /\ a \in 1..REGIONS /\ before \in Arena
    /\ IF a \in DOMAIN arenas THEN before = arenas[a]
                              ELSE before = Fresh(want[t]) /\ \A b \in DOMAIN arenas : b < a
    /\ Serves(before, want[t])
    /\ here = <<a, Place(before, want[t])>>
    /\ arenas' \in Seq(Arena)
    /\ DOMAIN arenas' = DOMAIN arenas \cup {a} /\ Len(arenas') <= watched'
    /\ arenas'[a] = Served(before, want[t])
    /\ \A b \in DOMAIN arenas : b # a => arenas'[b] = arenas[b]
    /\ headers' = [headers EXCEPT ![here] =
                     [ext |-> want[t], ver |-> begun(before.count), live |-> TRUE]]
    /\ at' = [at EXCEPT ![t] = here]
    /\ lock' = t /\ pc' = [pc EXCEPT ![t] = "fill_begin"]
    /\ watched' \in 0..REGIONS
    /\ UNCHANGED <<plane, epochs, want, given, done, got, ghosts, stopped>>

LEMMA ServedIsAnArena ==
    ASSUME NEW before \in Arena, NEW size \in Sizes, Serves(before, size)
    PROVE  /\ Served(before, size) \in Arena
           /\ Served(before, size).len = before.len
           /\ Served(before, size).count = before.count + 1
           /\ \A s \in Sizes \ {size} : Served(before, size).free[s] = before.free[s]
           /\ Reusable(before, size) =>
                /\ Served(before, size).next = before.next
                /\ Served(before, size).free[size] = Tail(before.free[size])
           /\ ~ Reusable(before, size) =>
                /\ Served(before, size).next = before.next + Block(size)
                /\ Served(before, size).free[size] = before.free[size]
<1>1. Block(size) \in Nat
  BY Lengthy DEF Block, Aux, HEADER
<1>2. before.free[size] \in Seq(Nat) /\ before.free \in [Sizes -> Seq(Nat)]
      /\ before.next \in Nat /\ before.count \in Nat /\ before.len \in Nat
  BY DEF Arena
<1>3. CASE Reusable(before, size)
  <2>1. Tail(before.free[size]) \in Seq(Nat)
    BY <1>2, <1>3 DEF Reusable
  <2>2. Served(before, size) =
          [len |-> before.len, next |-> before.next, count |-> before.count + 1,
           free |-> [before.free EXCEPT ![size] = Tail(before.free[size])]]
    BY <1>2, <1>3 DEF Served, Arena
  <2>3. [before.free EXCEPT ![size] = Tail(before.free[size])] \in [Sizes -> Seq(Nat)]
    BY <1>2, <2>1
  <2>4. QED
    BY <1>2, <1>3, <2>2, <2>3 DEF Arena
<1>4. CASE ~ Reusable(before, size)
  <2>1. Served(before, size) =
          [len |-> before.len, next |-> before.next + Block(size),
           count |-> before.count + 1, free |-> before.free]
    BY <1>2, <1>4 DEF Served, Arena
  <2>2. QED
    BY <1>1, <1>2, <1>4, <2>1 DEF Arena
<1>5. QED
  BY <1>3, <1>4

LEMMA FreshIsAnArena ==
    ASSUME NEW size \in Sizes
    PROVE  Fresh(size) \in Arena /\ Serves(Fresh(size), size) /\ ~ Reusable(Fresh(size), size)
<1>1. RegionFor(size) \in Nat /\ Block(size) \in Nat /\ Block(size) <= RegionFor(size)
  BY Lengthy DEF Block, Aux, HEADER
<1>2. QED
  BY <1>1 DEF Fresh, Arena, Serves, Carvable, Reusable

LEMMA BeginInBegins ==
    ASSUME Shaped, Located, Laid, NEW t \in Threads, NEW a \in 1..REGIONS, NEW before,
           Running, lock = NoThread, pc[t] = "begin",
           IF a \in DOMAIN arenas THEN before = arenas[a]
                                  ELSE before = Fresh(want[t]) /\ a = Len(arenas) + 1,
           Serves(before, want[t]), watched' \in 0..REGIONS,
           (IF a \in DOMAIN arenas THEN Len(arenas) ELSE a) <= watched',
           BeginIn(t, a, before),
           UNCHANGED <<plane, epochs, want, given, done, got, ghosts, stopped>>
    PROVE  BeginsAt(t, a, before, <<a, Place(before, want[t])>>)
<1>1. want[t] \in Sizes
  BY DEF Located, Posted
<1>2. /\ arenas \in Seq(Arena) /\ Len(arenas) \in Nat /\ DOMAIN arenas = 1..Len(arenas)
      /\ a \in Nat
  BY Lengthy DEF Shaped
<1>3. before \in Arena
  BY <1>1, ArenaFacts, FreshIsAnArena
<1>4. Served(before, want[t]) \in Arena
  BY <1>1, <1>3, ServedIsAnArena
<1>5. /\ arenas' \in Seq(Arena) /\ DOMAIN arenas' = DOMAIN arenas \cup {a}
      /\ Len(arenas') <= watched'
      /\ arenas'[a] = Served(before, want[t])
      /\ \A b \in DOMAIN arenas : b # a => arenas'[b] = arenas[b]
  <2>1. CASE a \in DOMAIN arenas
    <3>1. before = arenas[a] /\ ~ a > Len(arenas)
      BY <1>2, <2>1
    <3>2. arenas' = [arenas EXCEPT ![a] = Served(arenas[a], want[t])]
      BY <3>1 DEF BeginIn
    <3>3. QED
      BY <1>2, <1>4, <2>1, <3>1, <3>2
  <2>2. CASE a \notin DOMAIN arenas
    <3>1. arenas' = Append(arenas, Served(before, want[t])) /\ a = Len(arenas) + 1
      BY <1>2, <2>2 DEF BeginIn
    <3>2. QED
      BY <1>2, <1>4, <2>2, <3>1
  <2>3. QED
    BY <2>1, <2>2
<1>6. a \notin DOMAIN arenas => \A b \in DOMAIN arenas : b < a
  BY <1>2
<1>7. QED
  BY <1>1, <1>3, <1>5, <1>6 DEF BeginIn, BeginsAt, Goto

\* Both ways to allocate begin an instance.
LEMMA AllocateBegins ==
    ASSUME Shaped, Located, Laid, NEW t \in Threads, AllocateHere(t) \/ AllocateFresh(t)
    PROVE  \E a \in 1..REGIONS : \E before, here : BeginsAt(t, a, before, here)
<1>1. /\ arenas \in Seq(Arena) /\ Len(arenas) \in Nat /\ DOMAIN arenas = 1..Len(arenas)
      /\ REGIONS \in Nat /\ watched \in 0..REGIONS /\ Len(arenas) <= watched
  BY Lengthy DEF Shaped
<1>2. CASE AllocateHere(t)
  <2>1. PICK a \in Serving(want[t]) : BeginIn(t, a, arenas[a])
    BY <1>2 DEF AllocateHere
  <2>2. a \in DOMAIN arenas /\ a \in 1..REGIONS /\ Serves(arenas[a], want[t])
    BY <1>1, <2>1 DEF Serving
  <2>3. /\ Running /\ lock = NoThread /\ pc[t] = "begin" /\ watched' = watched
        /\ UNCHANGED <<plane, epochs, want, given, done, got, ghosts, stopped>>
    BY <1>2 DEF AllocateHere
  <2>4. QED
    BY <1>1, <2>1, <2>2, <2>3, BeginInBegins
<1>3. CASE AllocateFresh(t)
  <2> DEFINE a == Len(arenas) + 1
  <2>1. /\ Running /\ lock = NoThread /\ pc[t] = "begin" /\ watched' = watched + 1
        /\ Len(arenas) < REGIONS /\ watched < REGIONS
        /\ BeginIn(t, a, Fresh(want[t]))
        /\ UNCHANGED <<plane, epochs, want, given, done, got, ghosts, stopped>>
    BY <1>3 DEF AllocateFresh
  <2>2. a \notin DOMAIN arenas /\ a \in 1..REGIONS /\ a <= watched' /\ watched' \in 0..REGIONS
    BY <1>1, <2>1
  <2>3. want[t] \in Sizes
    BY <2>1 DEF Located, Posted
  <2>4. Serves(Fresh(want[t]), want[t])
    BY <2>3, FreshIsAnArena
  <2>5. QED
    BY <2>1, <2>2, <2>4, BeginInBegins
<1>4. QED
  BY <1>2, <1>3

-----------------------------------------------------------------------------
(* An instance begins                                                      *)

\* What is carved at a bump ends inside the region.
LEMMA CarvedFits ==
    ASSUME NEW next \in Nat, NEW len \in Nat, NEW most \in Nat, NEW size \in Nat \ {0},
           Block(size) <= len - next, len <= most
    PROVE  next + Aux(size) + HEADER \in 0..most - 1
BY DEF Block, Aux, HEADER

\* Where the block comes from: off the list of its class, or above the bump.
LEMMA BlockFound ==
    ASSUME HeapInv, NEW t \in Threads, NEW a \in 1..REGIONS, NEW before, NEW here,
           BeginsAt(t, a, before, here)
    PROVE  /\ here \in Granules /\ here[1] = a
           /\ here \notin Placed \/ ~ headers[here].live
           /\ Reusable(before, want[t]) =>
                /\ a \in DOMAIN arenas /\ here \in Placed
                /\ headers[here].ext = want[t] /\ ~ headers[here].live
                /\ before.free[want[t]] # <<>> /\ here[2] = before.free[want[t]][1]
           /\ ~ Reusable(before, want[t]) =>
                /\ here \notin Placed
                /\ here[2] = before.next + Aux(want[t]) + HEADER
                /\ \A p \in Placed : p[1] = a => Hi(p) <= before.next
                /\ before.next + Block(want[t]) <= before.len
<1> DEFINE size == want[t]
<1>1. /\ size \in Sizes /\ size \in Nat \ {0} /\ before \in Arena /\ Serves(before, size)
      /\ here = <<a, Place(before, size)>>
      /\ before.next \in Nat /\ before.len \in Nat /\ before.free \in [Sizes -> Seq(Nat)]
  BY Lengthy DEF BeginsAt, Arena
<1>2. CASE Reusable(before, size)
  <2>1. a \in DOMAIN arenas /\ before = arenas[a]
    <3>1. CASE a \notin DOMAIN arenas
      BY <1>1, <1>2, <3>1, FreshIsAnArena DEF BeginsAt
    <3>2. QED
      BY <3>1 DEF BeginsAt
  <2>2. before.free[size] # <<>> /\ before.free[size] \in Seq(Nat)
    BY <1>1, <1>2 DEF Reusable
  <2>3. 1 \in DOMAIN before.free[size] /\ Head(before.free[size]) = before.free[size][1]
    BY <2>2
  <2>4. here = <<a, arenas[a].free[size][1]>>
    BY <1>1, <1>2, <2>1, <2>3 DEF Place
  <2>5. here \in Placed /\ headers[here].ext = size /\ ~ headers[here].live
    <3>1. Lists /\ 1 \in DOMAIN arenas[a].free[size] /\ size \in Sizes
      BY <1>1, <2>1, <2>3 DEF HeapInv
    <3>2. QED
      BY <2>1, <2>4, <3>1, ListFacts
  <2>6. QED
    BY <1>2, <2>1, <2>2, <2>4, <2>5 DEF Placed
<1>3. CASE ~ Reusable(before, size)
  <2>1. Block(size) <= before.len - before.next
    BY <1>1, <1>3 DEF Serves, Carvable
  <2>2. here = <<a, before.next + Aux(size) + HEADER>>
    BY <1>1, <1>3 DEF Place
  <2>3. before.len <= RegionFor(LARGEST) /\ RegionFor(LARGEST) \in Nat
    <3>1. before.len \in Lengths
      BY <1>1 DEF BeginsAt, Fresh, HeapInv, Laid, Lengths
    <3>2. QED
      BY <3>1, Lengthy
  <2>4. here \in Granules
    <3>1. before.next + Aux(size) + HEADER \in 0..RegionFor(LARGEST) - 1
      <4>1. before.next \in Nat /\ before.len \in Nat /\ size \in Nat \ {0}
        BY <1>1
      <4>2. Block(size) <= before.len - before.next /\ before.len <= RegionFor(LARGEST)
        BY <2>1, <2>3
      <4>3. QED
        BY <2>3, <4>1, <4>2, CarvedFits
    <3>2. QED
      BY <2>2, <3>1, Granular
  <2>5. \A p \in Placed : p[1] = a => Hi(p) <= before.next
    BY PlacedFacts DEF HeapInv, BeginsAt
  <2>6. here \notin Placed
    <3>1. ASSUME here \in Placed PROVE FALSE
      <4>1. here[2] < Hi(here) /\ here[2] \in Nat /\ Hi(here) \in Nat
        BY <3>1, PlacedFacts DEF HeapInv
      <4>2. Hi(here) <= before.next
        BY <2>2, <2>5, <3>1
      <4>3. QED
        BY <1>1, <2>2, <4>1, <4>2 DEF Aux, HEADER
    <3>2. QED
      BY <3>1
  <2>7. before.next + Block(size) <= before.len
    BY <1>1, <2>1 DEF Block, Aux, HEADER
  <2>8. QED
    BY <1>3, <2>2, <2>4, <2>5, <2>6, <2>7
<1>4. QED
  BY <1>2, <1>3

\* The headers and arenas after it.
Began(t, a, before, here) ==
    /\ headers' \in [Granules -> Header]
    /\ headers'[here] = [ext |-> want[t], ver |-> begun(before.count), live |-> TRUE]
    /\ headers'[here].ext = want[t] /\ headers'[here].ver = begun(before.count)
    /\ headers'[here].live
    /\ \A p \in Granules \ {here} : headers'[p] = headers[p]
    /\ Placed' = Placed \cup {here}
    /\ \A p \in Placed : headers'[p].ext = headers[p].ext
    /\ before.count \in Nat \ {0} /\ begun(before.count) \in Nat
    /\ number(begun(before.count)) = before.count /\ begun(before.count) % 2 = 0
    /\ arenas'[a].count = before.count + 1
    /\ \A b \in DOMAIN arenas : arenas[b].count <= arenas'[b].count
    /\ a \notin DOMAIN arenas => before.count = 1

LEMMA BeginChanges ==
    ASSUME HeapInv, NEW t \in Threads, NEW a \in 1..REGIONS, NEW before, NEW here,
           BeginsAt(t, a, before, here)
    PROVE  Began(t, a, before, here)
<1>1. here \in Granules /\ (here \in Placed => headers[here].ext = want[t])
  BY BlockFound
<1>2. want[t] \in Sizes /\ before \in Arena /\ Serves(before, want[t]) /\ 0 \notin Sizes
  BY Lengthy DEF BeginsAt
<1>3. before.count \in Nat \ {0}
  <2>1. CASE a \in DOMAIN arenas
    BY <2>1 DEF BeginsAt, HeapInv, Versioned
  <2>2. CASE a \notin DOMAIN arenas
    BY <2>2 DEF BeginsAt, Fresh
  <2>3. QED
    BY <2>1, <2>2
<1>4. begun(before.count) \in Nat /\ number(begun(before.count)) = before.count
      /\ begun(before.count) % 2 = 0
  BY <1>3, BegunVersion
<1>5. headers \in [Granules -> Header]
  BY DEF HeapInv, Shaped
<1>6. /\ headers'[here] = [ext |-> want[t], ver |-> begun(before.count), live |-> TRUE]
      /\ \A p \in Granules \ {here} : headers'[p] = headers[p]
  BY <1>1, <1>5 DEF BeginsAt
<1>7. headers' \in [Granules -> Header]
  <2>1. [ext |-> want[t], ver |-> begun(before.count), live |-> TRUE] \in Header
    BY <1>2, <1>4 DEF Header
  <2>2. QED
    BY <1>1, <1>5, <2>1 DEF BeginsAt
<1>8. /\ headers'[here].ext = want[t] /\ headers'[here].ver = begun(before.count)
      /\ headers'[here].live /\ NoHeader.ext = 0
  BY <1>6 DEF NoHeader
<1>9. Placed' = Placed \cup {here}
  BY <1>1, <1>2, <1>6, <1>8 DEF Placed
<1>10. \A p \in Placed : headers'[p].ext = headers[p].ext
  BY <1>1, <1>6, <1>8 DEF Placed
<1>11. arenas'[a].count = before.count + 1
  BY <1>2, ServedIsAnArena DEF BeginsAt
<1>12. \A b \in DOMAIN arenas : arenas[b].count <= arenas'[b].count
  <2>1. ASSUME NEW b \in DOMAIN arenas
        PROVE  arenas[b].count <= arenas'[b].count
    <3>1. arenas[b].count \in Nat
      BY ArenaFacts DEF HeapInv
    <3>2. b # a => arenas'[b] = arenas[b]
      BY DEF BeginsAt
    <3>3. b = a => before = arenas[b]
      BY DEF BeginsAt
    <3>4. QED
      BY <1>11, <3>1, <3>2, <3>3
  <2>2. QED
    BY <2>1
<1>13. a \notin DOMAIN arenas => before.count = 1
  BY DEF BeginsAt, Fresh
<1>14. QED
  BY <1>1, <1>3, <1>4, <1>6, <1>7, <1>8, <1>9, <1>10, <1>11, <1>12, <1>13
     DEF Began

LEMMA BeginShaped ==
    ASSUME HeapInv, NEW t \in Threads, NEW a \in 1..REGIONS, NEW before, NEW here,
           BeginsAt(t, a, before, here)
    PROVE  Shaped' /\ Located' /\ Paired'
<1>1. here \in Granules /\ (here \in Placed => ~ headers[here].live)
  BY BlockFound
<1>2. /\ headers' \in [Granules -> Header] /\ Placed' = Placed \cup {here}
      /\ \A p \in Granules \ {here} : headers'[p] = headers[p]
      /\ \A p \in Placed : headers'[p].ext = headers[p].ext
      /\ headers'[here].ext = want[t] /\ headers'[here].live
  <2>1. Began(t, a, before, here)
    BY BeginChanges
  <2>2. QED
    BY <2>1 DEF Began
<1>3. Shaped'
  BY <1>1, <1>2 DEF BeginsAt, HeapInv, Shaped, Labels, ghosts
<1>4. want[t] \in Nat \ {0} /\ done[t] = 0 /\ t # NoThread /\ NoThread \notin Threads
      /\ pc[t] = "begin" /\ got[t] = NoCap /\ lock = NoThread
  BY Lengthy, HeapAssumption DEF BeginsAt, HeapInv, Located, Posted, EndPCs
<1>5. pc'[t] = "fill_begin" /\ at'[t] = here
      /\ \A u \in Threads \ {t} : pc'[u] = pc[u] /\ at'[u] = at[u]
  BY DEF BeginsAt, HeapInv, Shaped
<1>6. UNCHANGED <<want, given, done, got, freed, twice>> /\ lock' = t
  BY DEF BeginsAt, ghosts
<1>7. ASSUME NEW u \in Threads
      PROVE  Posted(u)'
  <2>1. CASE u = t
    BY <1>2, <1>4, <1>5, <1>6, <2>1 DEF HeapInv, Located, Posted, HoldPCs, EndPCs
  <2>2. CASE u # t
    <3>1. pc[u] \notin HoldPCs
      BY <1>4, <2>2 DEF HeapInv, Located, Posted
    <3>2. QED
      BY <1>2, <1>4, <1>5, <1>6, <2>2, <3>1 DEF HeapInv, Located, Posted, HoldPCs, EndPCs
  <2>3. QED
    BY <2>1, <2>2
<1>8. Located'
  BY <1>7 DEF Located
<1>9. Paired'
  BY <1>6 DEF HeapInv, Paired
<1>10. QED
  BY <1>3, <1>8, <1>9

LEMMA BeginLaid ==
    ASSUME HeapInv, NEW t \in Threads, NEW a \in 1..REGIONS, NEW before, NEW here,
           BeginsAt(t, a, before, here)
    PROVE  Laid'
<1> DEFINE size == want[t]
<1>1. Began(t, a, before, here)
  BY BeginChanges
<1>2. /\ size \in Sizes /\ size \in Nat \ {0} /\ before \in Arena /\ Serves(before, size)
      /\ before.next \in Nat /\ before.len \in Nat
      /\ Aux(size) \in Nat /\ HEADER \in Nat /\ Block(size) = Aux(size) + HEADER + size
  <2>1. size \in Sizes /\ before \in Arena /\ Serves(before, size)
    BY DEF BeginsAt
  <2>2. size \in Nat \ {0} /\ before.next \in Nat /\ before.len \in Nat
    BY <2>1, Lengthy DEF Arena
  <2>3. Aux(size) \in Nat /\ HEADER \in Nat /\ Block(size) = Aux(size) + HEADER + size
    BY <2>2 DEF Aux, HEADER, Block
  <2>4. QED
    BY <2>1, <2>2, <2>3
<1>3. here \in Granules /\ here[1] = a /\ here[2] \in Nat
  BY BlockFound, GranuleParts
<1>4. /\ arenas'[a].len = before.len
      /\ Reusable(before, size) => arenas'[a].next = before.next
      /\ ~ Reusable(before, size) => arenas'[a].next = before.next + Block(size)
  BY <1>2, ServedIsAnArena DEF BeginsAt
<1>5. ASSUME NEW b \in DOMAIN arenas'
      PROVE  arenas'[b].len \in Lengths /\ arenas'[b].next <= arenas'[b].len
  <2>1. CASE b # a
    BY <2>1 DEF BeginsAt, HeapInv, Laid
  <2>2. CASE b = a
    <3>1. before.len \in Lengths /\ before.next <= before.len
      <4>1. CASE a \in DOMAIN arenas
        BY <4>1 DEF BeginsAt, HeapInv, Laid
      <4>2. CASE a \notin DOMAIN arenas
        BY <1>2, <4>2, Lengthy DEF BeginsAt, Fresh, Lengths
      <4>3. QED
        BY <4>1, <4>2
    <3>2. ~ Reusable(before, size) => before.next + Block(size) <= before.len
      BY BlockFound
    <3>3. QED
      BY <1>4, <2>2, <3>1, <3>2
  <2>3. QED
    BY <2>1, <2>2
<1>6. ASSUME NEW p \in Placed, p # here
      PROVE  /\ headers'[p] = headers[p] /\ Lo(p)' = Lo(p) /\ Hi(p)' = Hi(p)
             /\ Lo(p) \in Nat /\ Hi(p) \in Nat
  <2>1. p \in Granules \ {here}
    BY <1>6 DEF Placed
  <2>2. headers'[p] = headers[p]
    BY <1>1, <2>1 DEF Began
  <2>3. QED
    BY <2>2, PlacedFacts DEF Lo, Hi, HeapInv
<1>7. /\ Lo(here)' = here[2] - (HEADER + Aux(size)) /\ Hi(here)' = here[2] + size
      /\ headers'[here].ext \in Sizes
  BY <1>1, <1>2 DEF Began, Lo, Hi
<1>8. CASE Reusable(before, size)
  <2>1. here \in Placed /\ Lo(here)' = Lo(here) /\ Hi(here)' = Hi(here)
    BY <1>7, <1>8, BlockFound DEF Lo, Hi
  <2>2. Placed' = Placed
    BY <1>1, <2>1 DEF Began
  <2>3. \A p \in Placed : Lo(p)' = Lo(p) /\ Hi(p)' = Hi(p) /\ headers'[p].ext \in Sizes
    BY <1>6, <1>7, <2>1 DEF HeapInv, Laid
  <2>4. DOMAIN arenas' = DOMAIN arenas /\ \A b \in DOMAIN arenas : arenas'[b].next = arenas[b].next
    <3>1. a \in DOMAIN arenas /\ before = arenas[a]
      <4>1. a \in DOMAIN arenas
        BY <1>8, BlockFound
      <4>2. QED
        BY <4>1 DEF BeginsAt
    <3>2. QED
      BY <1>4, <1>8, <3>1 DEF BeginsAt
  <2>5. QED
    BY <1>5, <2>2, <2>3, <2>4 DEF HeapInv, Laid
<1>9. CASE ~ Reusable(before, size)
  <2>1. /\ here \notin Placed /\ here[2] = before.next + Aux(size) + HEADER
        /\ \A p \in Placed : p[1] = a => Hi(p) <= before.next
    BY <1>9, BlockFound
  <2>2. Lo(here)' = before.next /\ Hi(here)' = before.next + Block(size)
    BY <1>2, <1>7, <2>1
  <2>3. Placed' = Placed \cup {here}
    BY <1>1 DEF Began
  <2>4. ASSUME NEW p \in Placed'
        PROVE  /\ headers'[p].ext \in Sizes /\ p[1] \in DOMAIN arenas'
               /\ 0 <= Lo(p)' /\ Hi(p)' <= arenas'[p[1]].next
    <3>1. CASE p = here
      BY <1>2, <1>3, <1>4, <1>7, <1>9, <2>2, <3>1 DEF BeginsAt
    <3>2. CASE p # here
      <4>1. p \in Placed /\ headers'[p] = headers[p] /\ Lo(p)' = Lo(p) /\ Hi(p)' = Hi(p)
        BY <1>6, <2>3, <3>2
      <4>2. /\ headers[p].ext \in Sizes /\ p[1] \in DOMAIN arenas
            /\ Hi(p) \in Nat /\ 0 <= Lo(p) /\ Hi(p) <= arenas[p[1]].next
        BY <4>1, PlacedFacts DEF HeapInv, Laid
      <4>3. p[1] = a => Hi(p) <= before.next + Block(size)
        BY <1>2, <2>1, <4>1, <4>2
      <4>4. QED
        BY <1>4, <1>9, <4>1, <4>2, <4>3 DEF BeginsAt
    <3>3. QED
      BY <3>1, <3>2
  <2>5. ASSUME NEW p \in Placed', NEW q \in Placed', p[1] = q[1], p # q
        PROVE  Hi(p)' <= Lo(q)' \/ Hi(q)' <= Lo(p)'
    <3>1. CASE p # here /\ q # here
      <4>1. p \in Placed /\ q \in Placed
        BY <2>3, <3>1
      <4>2. Lo(p)' = Lo(p) /\ Hi(p)' = Hi(p) /\ Lo(q)' = Lo(q) /\ Hi(q)' = Hi(q)
        BY <1>6, <3>1, <4>1
      <4>3. Hi(p) <= Lo(q) \/ Hi(q) <= Lo(p)
        BY <2>5, <4>1 DEF HeapInv, Laid
      <4>4. QED
        BY <4>2, <4>3
    <3>2. CASE p = here
      <4>1. q \in Placed /\ q # here /\ q[1] = a
        BY <1>3, <2>3, <2>5, <3>2
      <4>2. Hi(q)' = Hi(q) /\ Hi(q) <= before.next
        BY <1>6, <2>1, <4>1
      <4>3. QED
        BY <2>2, <3>2, <4>2
    <3>3. CASE q = here
      <4>1. p \in Placed /\ p # here /\ p[1] = a
        BY <1>3, <2>3, <2>5, <3>3
      <4>2. Hi(p)' = Hi(p) /\ Hi(p) <= before.next
        BY <1>6, <2>1, <4>1
      <4>3. QED
        BY <2>2, <3>3, <4>2
    <3>4. QED
      BY <3>1, <3>2, <3>3
  <2>6. QED
    BY <1>5, <2>4, <2>5 DEF Laid
<1>10. QED
  BY <1>8, <1>9

LEMMA BeginLists ==
    ASSUME HeapInv, NEW t \in Threads, NEW a \in 1..REGIONS, NEW before, NEW here,
           BeginsAt(t, a, before, here)
    PROVE  Lists'
<1> DEFINE size == want[t]
<1>1. Began(t, a, before, here)
  BY BeginChanges
<1>2. size \in Sizes /\ before \in Arena /\ Serves(before, size)
  BY DEF BeginsAt
<1>3. here \in Granules /\ here[1] = a /\ here[2] \in Nat /\ here = <<a, here[2]>>
  BY BlockFound, GranuleParts
<1>4. /\ \A s \in Sizes \ {size} : arenas'[a].free[s] = before.free[s]
      /\ Reusable(before, size) => arenas'[a].free[size] = Tail(before.free[size])
      /\ ~ Reusable(before, size) => arenas'[a].free[size] = before.free[size]
  BY <1>2, ServedIsAnArena DEF BeginsAt
<1>5. ASSUME NEW b \in DOMAIN arenas', b \notin DOMAIN arenas
      PROVE  \A s \in Sizes : arenas'[b].free[s] = <<>>
  <2>1. b = a /\ before = Fresh(size)
    BY <1>5 DEF BeginsAt
  <2>2. \A s \in Sizes : before.free[s] = <<>>
    BY <2>1 DEF Fresh
  <2>3. ~ Reusable(before, size)
    BY <1>2, <2>2 DEF Reusable
  <2>4. QED
    BY <1>4, <2>1, <2>2, <2>3
<1>6. ASSUME NEW b \in DOMAIN arenas, NEW s \in Sizes, NEW i \in DOMAIN arenas[b].free[s],
             <<b, arenas[b].free[s][i]>> # here
      PROVE  LET q == <<b, arenas[b].free[s][i]>> IN
             q \in Placed' /\ headers'[q].ext = s /\ ~ headers'[q].live
  <2> DEFINE q == <<b, arenas[b].free[s][i]>>
  <2>1. q \in Placed /\ headers[q].ext = s /\ ~ headers[q].live
    BY ListFacts DEF HeapInv
  <2>2. q \in Granules \ {here}
    BY <1>6, <2>1 DEF Placed
  <2>3. headers'[q] = headers[q] /\ q \in Placed'
    BY <1>1, <2>1, <2>2 DEF Began
  <2>4. QED
    BY <2>1, <2>3
<1>7. CASE Reusable(before, size)
  <2> DEFINE list == arenas[a].free[size]
  <2>1. /\ a \in DOMAIN arenas /\ here \in Placed /\ headers[here].ext = size
        /\ ~ headers[here].live
        /\ before.free[size] # <<>> /\ here[2] = before.free[size][1]
    BY <1>7, BlockFound
  <2>2. before = arenas[a] /\ DOMAIN arenas' = DOMAIN arenas
    BY <2>1 DEF BeginsAt
  <2>3. list \in Seq(Nat) /\ list # <<>> /\ here = <<a, list[1]>> /\ 1 \in DOMAIN list
    BY <1>2, <1>3, <2>1, <2>2 DEF Arena
  <2> DEFINE rest == arenas'[a].free[size]
  <2>4. /\ \A i \in DOMAIN rest : i + 1 \in DOMAIN list /\ rest[i] = list[i + 1]
        /\ \A i \in DOMAIN list : i # 1 => i - 1 \in DOMAIN rest /\ rest[i - 1] = list[i]
        /\ (\A i, j \in DOMAIN list : list[i] = list[j] => i = j) =>
             \A i \in DOMAIN rest :
               /\ list[i + 1] # list[1]
               /\ \A j \in DOMAIN rest : rest[i] = rest[j] => i = j
    <3>1. rest = Tail(list)
      BY <1>4, <1>7, <2>2
    <3>2. \A i \in DOMAIN Tail(list) :
            i + 1 \in DOMAIN list /\ Tail(list)[i] = list[i + 1]
      BY <2>3, TailFacts
    <3>3. \A i \in DOMAIN list :
            i # 1 => i - 1 \in DOMAIN Tail(list) /\ Tail(list)[i - 1] = list[i]
      BY <2>3, TailFacts
    <3>4. (\A i, j \in DOMAIN list : list[i] = list[j] => i = j) =>
            \A i \in DOMAIN Tail(list) :
              /\ list[i + 1] # list[1]
              /\ \A j \in DOMAIN Tail(list) : Tail(list)[i] = Tail(list)[j] => i = j
      BY <2>3, TailFacts
    <3>5. QED
      BY <3>1, <3>2, <3>3, <3>4
  <2>5. \A i, j \in DOMAIN list : list[i] = list[j] => i = j
    BY <1>2, <2>1, ListFacts DEF HeapInv
  <2>6. ASSUME NEW b \in DOMAIN arenas, NEW s \in Sizes, b # a \/ s # size
        PROVE  /\ arenas'[b].free[s] = arenas[b].free[s]
               /\ \A i \in DOMAIN arenas[b].free[s] : <<b, arenas[b].free[s][i]>> # here
    <3>1. arenas'[b].free[s] = arenas[b].free[s]
      BY <1>4, <2>2, <2>6 DEF BeginsAt
    <3>2. ASSUME NEW i \in DOMAIN arenas[b].free[s]
          PROVE  <<b, arenas[b].free[s][i]>> # here
      <4>1. headers[<<b, arenas[b].free[s][i]>>].ext = s
        BY ListFacts DEF HeapInv
      <4>2. CASE b # a
        BY <1>3, <4>2
      <4>3. CASE s # size
        BY <2>1, <4>1, <4>3
      <4>4. QED
        BY <2>6, <4>2, <4>3
    <3>3. QED
      BY <3>1, <3>2
  <2>7. ASSUME NEW b \in DOMAIN arenas', NEW s \in Sizes, NEW i \in DOMAIN arenas'[b].free[s]
        PROVE  LET each == arenas'[b].free[s] IN
               /\ <<b, each[i]>> \in Placed' /\ headers'[<<b, each[i]>>].ext = s
               /\ ~ headers'[<<b, each[i]>>].live
               /\ \A j \in DOMAIN each : each[i] = each[j] => i = j
    <3>1. CASE b # a \/ s # size
      <4>1. /\ arenas'[b].free[s] = arenas[b].free[s] /\ b \in DOMAIN arenas
            /\ <<b, arenas[b].free[s][i]>> # here /\ i \in DOMAIN arenas[b].free[s]
        BY <2>2, <2>6, <3>1
      <4>2. \A j \in DOMAIN arenas[b].free[s] :
              arenas[b].free[s][i] = arenas[b].free[s][j] => i = j
        BY <4>1, ListFacts DEF HeapInv
      <4>3. QED
        BY <1>6, <4>1, <4>2
    <3>2. CASE b = a /\ s = size
      <4>1. /\ i \in DOMAIN rest /\ i + 1 \in DOMAIN list /\ rest[i] = list[i + 1]
            /\ list[i + 1] # list[1]
            /\ \A j \in DOMAIN rest : rest[i] = rest[j] => i = j
        <5>1. i \in DOMAIN rest
          BY <3>2
        <5>2. QED
          BY <2>4, <2>5, <5>1
      <4>2. <<a, list[i + 1]>> # here
        BY <2>3, <4>1
      <4>3. /\ <<a, list[i + 1]>> \in Placed' /\ headers'[<<a, list[i + 1]>>].ext = size
            /\ ~ headers'[<<a, list[i + 1]>>].live
        BY <1>2, <1>6, <2>1, <4>1, <4>2
      <4>4. QED
        BY <3>2, <4>1, <4>3
    <3>3. QED
      BY <3>1, <3>2
  <2>8. ASSUME NEW p \in Placed', ~ headers'[p].live
        PROVE  Listed(p)'
    <3>1. p # here /\ p \in Placed /\ p \in Granules \ {here}
      BY <1>1, <2>1, <2>8 DEF Began, Placed
    <3>2. headers'[p] = headers[p]
      BY <1>1, <3>1 DEF Began
    <3>3. p[1] \in DOMAIN arenas /\ p = <<p[1], p[2]>> /\ headers[p].ext \in Sizes
      BY <3>1, PlacedFacts DEF HeapInv
    <3>4. PICK i \in DOMAIN arenas[p[1]].free[headers[p].ext] :
            arenas[p[1]].free[headers[p].ext][i] = p[2]
      BY <2>8, <3>1, <3>2 DEF HeapInv, Lists, Listed
    <3>5. CASE p[1] # a \/ headers[p].ext # size
      <4>1. arenas'[p[1]].free[headers[p].ext] = arenas[p[1]].free[headers[p].ext]
        BY <2>6, <3>3, <3>5
      <4>2. QED
        BY <3>2, <3>4, <4>1 DEF Listed
    <3>6. CASE p[1] = a /\ headers[p].ext = size
      <4>1. i \in DOMAIN list /\ list[i] = p[2] /\ i # 1
        BY <2>3, <3>1, <3>3, <3>4, <3>6
      <4>2. i - 1 \in DOMAIN rest /\ rest[i - 1] = p[2]
        BY <2>4, <4>1
      <4>3. QED
        BY <3>2, <3>6, <4>2 DEF Listed
    <3>7. QED
      BY <3>5, <3>6
  <2>9. QED
    BY <2>7, <2>8 DEF Lists
<1>8. CASE ~ Reusable(before, size)
  <2>1. here \notin Placed
    BY <1>8, BlockFound
  <2>2. ASSUME NEW b \in DOMAIN arenas, NEW s \in Sizes
        PROVE  arenas'[b].free[s] = arenas[b].free[s]
    <3>1. CASE b # a
      BY <3>1 DEF BeginsAt
    <3>2. CASE b = a
      <4>1. before = arenas[a]
        BY <3>2 DEF BeginsAt
      <4>2. QED
        BY <1>4, <1>8, <3>2, <4>1
    <3>3. QED
      BY <3>1, <3>2
  <2>3. ASSUME NEW b \in DOMAIN arenas', NEW s \in Sizes, NEW i \in DOMAIN arenas'[b].free[s]
        PROVE  LET each == arenas'[b].free[s] IN
               /\ <<b, each[i]>> \in Placed' /\ headers'[<<b, each[i]>>].ext = s
               /\ ~ headers'[<<b, each[i]>>].live
               /\ \A j \in DOMAIN each : each[i] = each[j] => i = j
    <3>1. b \in DOMAIN arenas
      BY <1>5, <2>3
    <3>2. arenas'[b].free[s] = arenas[b].free[s] /\ i \in DOMAIN arenas[b].free[s]
      BY <2>2, <2>3, <3>1
    <3>3. /\ <<b, arenas[b].free[s][i]>> \in Placed
          /\ \A j \in DOMAIN arenas[b].free[s] :
                arenas[b].free[s][i] = arenas[b].free[s][j] => i = j
      BY <3>1, <3>2, ListFacts DEF HeapInv
    <3>4. QED
      BY <1>6, <2>1, <3>1, <3>2, <3>3
  <2>4. ASSUME NEW p \in Placed', ~ headers'[p].live
        PROVE  Listed(p)'
    <3>1. p # here /\ p \in Placed /\ p \in Granules \ {here}
      BY <1>1, <2>4 DEF Began, Placed
    <3>2. headers'[p] = headers[p]
      BY <1>1, <3>1 DEF Began
    <3>3. p[1] \in DOMAIN arenas /\ headers[p].ext \in Sizes
      BY <3>1, PlacedFacts DEF HeapInv
    <3>4. Listed(p)
      BY <2>4, <3>1, <3>2 DEF HeapInv, Lists
    <3>5. QED
      BY <2>2, <3>2, <3>3, <3>4 DEF Listed
  <2>5. QED
    BY <2>3, <2>4 DEF Lists
<1>9. QED
  BY <1>7, <1>8

LEMMA BeginVersioned ==
    ASSUME HeapInv, NEW t \in Threads, NEW a \in 1..REGIONS, NEW before, NEW here,
           BeginsAt(t, a, before, here)
    PROVE  Versioned'
<1>1. Began(t, a, before, here)
  BY BeginChanges
<1>2. here \in Granules /\ here[1] = a
  BY BlockFound
<1>3. /\ before.count \in Nat \ {0} /\ arenas'[a].count = before.count + 1
      /\ Placed' = Placed \cup {here}
      /\ number(headers'[here].ver) = before.count /\ headers'[here].ver % 2 = 0
      /\ headers'[here].live
  BY <1>1 DEF Began
<1>4. ASSUME NEW p \in Placed'
      PROVE  p # here => /\ p \in Placed /\ headers'[p] = headers[p] /\ p[1] \in DOMAIN arenas
                         /\ number(headers[p].ver) \in 1..arenas[p[1]].count - 1
                         /\ headers[p].live <=> headers[p].ver % 2 = 0
  <2>1. p # here => p \in Placed /\ p \in Granules \ {here}
    BY <1>3 DEF Placed
  <2>2. p # here => headers'[p] = headers[p]
    BY <1>1, <2>1 DEF Began
  <2>3. QED
    BY <2>1, <2>2 DEF HeapInv, Versioned, Laid
<1>5. \A b \in DOMAIN arenas : /\ arenas[b].count \in Nat /\ arenas'[b].count \in Nat
                               /\ arenas[b].count <= arenas'[b].count
  <2>1. ASSUME NEW b \in DOMAIN arenas
        PROVE  /\ arenas[b].count \in Nat /\ arenas'[b].count \in Nat
               /\ arenas[b].count <= arenas'[b].count
    <3>1. arenas[b].count \in Nat /\ arenas[b].count <= arenas'[b].count
      BY <1>1, ArenaFacts DEF Began, HeapInv
    <3>2. arenas'[b].count \in Nat
      BY <1>3, <3>1 DEF BeginsAt
    <3>3. QED
      BY <3>1, <3>2
  <2>2. QED
    BY <2>1
<1>6. ASSUME NEW b \in DOMAIN arenas'
      PROVE  arenas'[b].count \in Nat \ {0}
  <2>1. CASE b = a
    BY <1>3, <2>1
  <2>2. CASE b # a
    BY <2>2 DEF BeginsAt, HeapInv, Versioned
  <2>3. QED
    BY <2>1, <2>2
<1>7. ASSUME NEW p \in Placed'
      PROVE  /\ number(headers'[p].ver) \in 1..arenas'[p[1]].count - 1
             /\ headers'[p].live <=> headers'[p].ver % 2 = 0
  <2>1. CASE p = here
    BY <1>2, <1>3, <2>1
  <2>2. CASE p # here
    BY <1>4, <1>5, <2>2
  <2>3. QED
    BY <2>1, <2>2
<1>8. ASSUME NEW p \in Placed', p[1] = a, p # here
      PROVE  number(headers'[p].ver) # number(headers'[here].ver)
  <2>1. before = arenas[a] /\ number(headers'[p].ver) \in 1..before.count - 1
    BY <1>4, <1>8 DEF BeginsAt
  <2>2. QED
    BY <1>3, <2>1
<1>9. ASSUME NEW p \in Placed', NEW q \in Placed', p[1] = q[1],
             number(headers'[p].ver) = number(headers'[q].ver)
      PROVE  p = q
  <2>1. CASE p # here /\ q # here
    <3>1. /\ p \in Placed /\ q \in Placed
          /\ headers'[p] = headers[p] /\ headers'[q] = headers[q]
      BY <1>4, <2>1
    <3>2. QED
      BY <1>9, <3>1 DEF HeapInv, Versioned
  <2>2. CASE p = here
    BY <1>2, <1>8, <1>9, <2>2
  <2>3. CASE q = here
    BY <1>2, <1>8, <1>9, <2>3
  <2>4. QED
    BY <2>1, <2>2, <2>3
<1>10. QED
  BY <1>6, <1>7, <1>9 DEF Versioned

LEMMA BeginPainted ==
    ASSUME HeapInv, NEW t \in Threads, NEW a \in 1..REGIONS, NEW before, NEW here,
           BeginsAt(t, a, before, here)
    PROVE  Painted'
<1> DEFINE size == want[t]
<1>1. Began(t, a, before, here)
  BY BeginChanges
<1>2. here \in Granules /\ here[1] = a /\ here[2] \in Nat
  BY BlockFound, GranuleParts
<1>3. /\ Placed' = Placed \cup {here} /\ headers'[here].ext = size
      /\ \A p \in Placed : headers'[p].ext = headers[p].ext
      /\ \A p \in Placed \ {here} : headers'[p] = headers[p]
  BY <1>1 DEF Began, Placed
<1>4. /\ lock = NoThread /\ NoThread \notin Threads /\ size \in Sizes
      /\ plane' = plane /\ lock' = t /\ at'[t] = here /\ pc'[t] = "fill_begin" /\ done'[t] = 0
      /\ \A u \in Threads \ {t} : pc'[u] = pc[u] /\ at'[u] = at[u] /\ pc[u] \notin HoldPCs
  <2>1. /\ lock = NoThread /\ NoThread \notin Threads /\ size \in Sizes
        /\ plane' = plane /\ lock' = t
    BY HeapAssumption DEF BeginsAt
  <2>2. done'[t] = 0
    BY DEF BeginsAt, HeapInv, Located, Posted
  <2>3. /\ at'[t] = here /\ pc'[t] = "fill_begin"
        /\ \A u \in Threads \ {t} : pc'[u] = pc[u] /\ at'[u] = at[u]
    BY DEF BeginsAt, HeapInv, Shaped
  <2>4. \A u \in Threads : pc[u] \notin HoldPCs
    BY <2>1 DEF HeapInv, Located, Posted
  <2>5. QED
    BY <2>1, <2>2, <2>3, <2>4
<1>5. \A p \in Placed : ~ Busy(p)
  BY <1>4 DEF Busy
<1>6. ASSUME NEW k \in 0..size - 1
      PROVE  ~ owned(plane[Spot(here, k)])
  <2>1. CASE Reusable(before, size)
    <3>1. here \in Placed /\ headers[here].ext = size /\ ~ headers[here].live
      BY <2>1, BlockFound
    <3>2. plane[Spot(here, k)] = headers[here].ver
      BY <1>5, <3>1 DEF HeapInv, Painted
    <3>3. headers[here].ver % 2 # 0
      BY <3>1 DEF HeapInv, Versioned
    <3>4. QED
      BY <3>2, <3>3 DEF owned
  <2>2. CASE ~ Reusable(before, size)
    <3>1. /\ here[2] = before.next + Aux(size) + HEADER
          /\ \A p \in Placed : p[1] = a => Hi(p) <= before.next
          /\ before.next + Block(size) <= before.len
      BY <2>2, BlockFound
    <3>2. /\ size \in Nat \ {0} /\ before.next \in Nat /\ k \in Nat /\ before.len \in Nat
      <4>1. before \in Arena
        BY DEF BeginsAt
      <4>2. before.next \in Nat /\ before.len \in Nat
        BY <4>1 DEF Arena
      <4>3. size \in Nat \ {0}
        BY <1>4, Lengthy
      <4>4. QED
        BY <4>2, <4>3
    <3>3. ASSUME NEW p \in Placed
          PROVE  Spot(here, k) \notin Payload(p, headers[p].ext)
      <4>1. SUFFICES ASSUME NEW i \in 0..headers[p].ext - 1, Spot(here, k) = Spot(p, i)
                     PROVE  FALSE
        BY PlacedFacts, InPayload DEF HeapInv
      <4>2. p[1] = a /\ p[2] + i = here[2] + k
        BY <1>2, <4>1 DEF Spot
      <4>3. p[2] \in Nat /\ headers[p].ext \in Nat /\ Hi(p) = p[2] + headers[p].ext
        BY PlacedFacts DEF HeapInv, Hi
      <4>4. p[2] + headers[p].ext <= before.next
        BY <3>1, <4>2, <4>3
      <4>5. QED
        BY <3>1, <3>2, <4>2, <4>3, <4>4 DEF Aux, HEADER
    <3>4. Spot(here, k) \in Granules
      <4>1. before.len <= RegionFor(LARGEST) /\ RegionFor(LARGEST) \in Nat
        <5>1. before.len \in Lengths
          BY <1>4 DEF BeginsAt, Fresh, HeapInv, Laid, Lengths
        <5>2. QED
          BY <5>1, Lengthy
      <4>2. here[2] + k \in 0..RegionFor(LARGEST) - 1
        BY <3>1, <3>2, <4>1 DEF Block, Aux, HEADER
      <4>3. QED
        BY <1>2, <4>2, Granular DEF Spot
    <3>5. plane[Spot(here, k)] = DEAD
      BY <3>3, <3>4 DEF HeapInv, Painted
    <3>6. QED
      BY <3>5 DEF owned
  <2>3. QED
    BY <2>1, <2>2
<1>7. ASSUME NEW p \in Placed', NEW k \in 0..headers'[p].ext - 1
      PROVE  /\ ~ Busy(p)' => plane'[Spot(p, k)] = headers'[p].ver
             /\ \A u \in Threads : at'[u] = p =>
                  /\ pc'[u] = "fill_begin" =>
                       IF k < done'[u] THEN plane'[Spot(p, k)] = headers'[p].ver
                                       ELSE ~ owned(plane'[Spot(p, k)])
                  /\ pc'[u] = "fill_end" =>
                       plane'[Spot(p, k)] = IF k < done'[u] THEN ended(headers'[p].ver)
                                                            ELSE headers'[p].ver
                  /\ pc'[u] = "ended" => plane'[Spot(p, k)] = ended(headers'[p].ver)
  <2>1. CASE p = here
    <3>1. Busy(p)'
      BY <1>4, <2>1 DEF Busy
    <3>2. ~ owned(plane'[Spot(p, k)]) /\ ~ k < done'[t]
      BY <1>3, <1>4, <1>6, <2>1
    <3>3. QED
      BY <1>4, <3>1, <3>2 DEF HoldPCs
  <2>2. CASE p # here
    <3>1. p \in Placed /\ headers'[p] = headers[p] /\ k \in 0..headers[p].ext - 1
      BY <1>3, <2>2
    <3>2. plane[Spot(p, k)] = headers[p].ver
      BY <1>5, <3>1 DEF HeapInv, Painted
    <3>3. QED
      BY <1>4, <2>2, <3>1, <3>2 DEF HoldPCs
  <2>3. QED
    BY <2>1, <2>2
<1>8. ASSUME NEW g \in Granules, \A p \in Placed' : g \notin Payload(p, headers'[p].ext)
      PROVE  plane'[g] = DEAD
  BY <1>3, <1>4, <1>8 DEF HeapInv, Painted
<1>9. QED
  BY <1>7, <1>8 DEF Painted

LEMMA BeginBorne ==
    ASSUME HeapInv, NEW t \in Threads, NEW a \in 1..REGIONS, NEW before, NEW here,
           BeginsAt(t, a, before, here)
    PROVE  Borne' /\ Known'
<1>1. Began(t, a, before, here)
  BY BeginChanges
<1>2. here \in Granules /\ here[1] = a /\ (here \in Placed => headers[here].ext = want[t])
  BY BlockFound
<1>3. /\ Placed' = Placed \cup {here} /\ headers'[here].ver = begun(before.count)
      /\ number(begun(before.count)) = before.count
      /\ \A p \in Placed \ {here} : headers'[p] = headers[p]
      /\ \A p \in Placed : headers'[p].ext = headers[p].ext
      /\ before.count \in Nat \ {0}
      /\ \A b \in DOMAIN arenas : arenas[b].count <= arenas'[b].count
  BY <1>1 DEF Began, Placed
<1>4. /\ lock' = t /\ at'[t] = here /\ pc'[t] = "fill_begin"
      /\ \A u \in Threads \ {t} : pc'[u] = pc[u] /\ at'[u] = at[u] /\ pc[u] \notin HoldPCs
      /\ UNCHANGED <<born, caps, got>>
  <2>1. lock = NoThread /\ NoThread \notin Threads
    BY HeapAssumption DEF BeginsAt
  <2>2. \A u \in Threads : pc[u] \notin HoldPCs
    BY <2>1 DEF HeapInv, Located, Posted
  <2>3. QED
    BY <2>2 DEF BeginsAt, HeapInv, Shaped, ghosts
<1>5. \A p \in Placed : ~ Busy(p)
  BY HeapAssumption DEF Busy, BeginsAt
<1>6. ASSUME NEW b \in DOMAIN arenas
      PROVE  b \in DOMAIN arenas' /\ arenas[b].count \in Nat /\ arenas'[b].count \in Nat
             /\ arenas[b].count <= arenas'[b].count
  <2>2. arenas[b].count \in Nat /\ b \in DOMAIN arenas'
    BY ArenaFacts DEF BeginsAt, HeapInv
  <2>1. arenas'[b].count \in Nat
    <3>1. arenas'[a].count \in Nat
      BY <1>1 DEF Began
    <3>2. b # a => arenas'[b] = arenas[b]
      BY DEF BeginsAt
    <3>3. QED
      BY <2>2, <3>1, <3>2
  <2>3. QED
    BY <1>3, <2>1, <2>2
<1>7. ASSUME NEW c \in born
      PROVE  /\ c.at[1] \in DOMAIN arenas' /\ c.ver % 2 = 0
             /\ number(c.ver) \in 1..arenas'[c.at[1]].count - 1
  <2>1. /\ c.at[1] \in DOMAIN arenas /\ c.ver % 2 = 0
        /\ number(c.ver) \in 1..arenas[c.at[1]].count - 1
    BY DEF HeapInv, Borne
  <2>2. QED
    BY <1>6, <2>1
<1>8. ASSUME NEW p \in Placed', headers'[p].live, ~ Busy(p)'
      PROVE  Described(p)' \in born
  <2>1. p # here
    BY <1>4, <1>8 DEF Busy
  <2>2. p \in Placed /\ headers'[p] = headers[p]
    BY <1>3, <2>1
  <2>3. Described(p) \in born
    BY <1>5, <1>8, <2>2 DEF HeapInv, Borne
  <2>4. QED
    BY <2>2, <2>3 DEF Described
<1>9. ASSUME NEW c \in born
      PROVE  Name(c) # <<here[1], headers'[here].ver>>
  <2>1. SUFFICES ASSUME c.at[1] = a, c.ver = begun(before.count) PROVE FALSE
    BY <1>2, <1>3 DEF Name
  <2>2. a \in DOMAIN arenas /\ number(c.ver) \in 1..arenas[a].count - 1
    BY <2>1 DEF HeapInv, Borne
  <2>3. before = arenas[a]
    BY <2>2 DEF BeginsAt
  <2>4. QED
    BY <1>3, <2>1, <2>2, <2>3
<1>10. ASSUME NEW u \in Threads
       PROVE  /\ pc'[u] \notin {"fill_end", "ended"}
              /\ pc'[u] = "fill_begin" => u = t
  BY <1>4 DEF HoldPCs
<1>11. Borne'
  <2>1. \A u \in Threads : pc'[u] = "fill_begin" =>
          \A c \in born : Name(c) # <<at'[u][1], headers'[at'[u]].ver>>
    BY <1>4, <1>9, <1>10
  <2>2. /\ born \subseteq Cap /\ born' = born
        /\ \A c, d \in born : Name(c) = Name(d) => c = d
    BY <1>4 DEF HeapInv, Borne
  <2>3. \A c \in born : Name(c)' = Name(c)
    BY DEF Name
  <2>4. QED
    BY <1>7, <1>8, <1>10, <2>1, <2>2, <2>3 DEF Borne
<1>12. Known'
  <2>1. ASSUME NEW c \in caps \cup {got[u] : u \in Threads}, c # NoCap
        PROVE  /\ c.at \in Placed' /\ headers'[c.at].ext = c.ext
               /\ number(c.ver) < arenas'[c.at[1]].count
    <3>1. /\ c.at \in Placed /\ headers[c.at].ext = c.ext
          /\ number(c.ver) < arenas[c.at[1]].count
      BY <2>1 DEF HeapInv, Known
    <3>2. c.at[1] \in DOMAIN arenas
      BY <3>1, PlacedFacts DEF HeapInv
    <3>3. c \in Cap
      BY <2>1 DEF HeapInv, Shaped
    <3>4. number(c.ver) \in Nat
      BY <3>3, OwnedVersion DEF Cap
    <3>5. QED
      BY <1>3, <1>6, <3>1, <3>2, <3>4
  <2>2. QED
    BY <1>4, <2>1 DEF Known
<1>13. QED
  BY <1>11, <1>12

LEMMA BeginKept ==
    ASSUME HeapInv, NEW t \in Threads, NEW a \in 1..REGIONS, NEW before, NEW here,
           BeginsAt(t, a, before, here)
    PROVE  Kept'
<1>1. Began(t, a, before, here)
  BY BeginChanges
<1>2. here \in Granules /\ here[1] = a /\ (here \in Placed => ~ headers[here].live)
  BY BlockFound
<1>3. /\ UNCHANGED <<caps, freed, twice, given, got>>
      /\ at'[t] = here /\ pc'[t] = "fill_begin" /\ pc[t] = "begin"
      /\ \A u \in Threads \ {t} : pc'[u] = pc[u] /\ at'[u] = at[u]
  BY DEF BeginsAt, HeapInv, Shaped, ghosts
<1>4. ASSUME NEW c, Intact(c), c.at \in Placed
      PROVE  Intact(c)' /\ c.at # here
  <2>1. headers[c.at].live
    BY <1>4 DEF Intact
  <2>2. c.at # here
    BY <1>2, <1>4, <2>1
  <2>3. headers'[c.at] = headers[c.at]
    BY <1>1, <1>4, <2>2 DEF Began, Placed
  <2>4. QED
    BY <1>4, <2>2, <2>3 DEF Intact
<1>5. SUFFICES ASSUME twice = {}
               PROVE  /\ \A c \in caps \ freed : Intact(c)'
                      /\ \A u \in Threads :
                           /\ given[u] # NoCap /\ pc'[u] # "over" => Intact(given[u])'
                           /\ Own(u)' # NoCap => Intact(Own(u))' /\ Own(u)' \notin caps
                           /\ \A w \in Threads : u # w /\ Own(u)' # NoCap => Own(u)' # Own(w)'
  BY <1>3 DEF Kept
<1> DEFINE new == [at |-> here, ext |-> want[t], ver |-> begun(before.count)]
<1>6. ASSUME NEW u \in Threads, u # t
      PROVE  /\ Own(u)' = Own(u) /\ (given'[u] # NoCap /\ pc'[u] # "over" => Intact(given[u]))
             /\ Own(u) # NoCap => Intact(Own(u)) /\ Own(u) \notin caps /\ Own(u).at # here
                                  /\ Own(u).at \in Placed
  <2>1. given'[u] # NoCap /\ pc'[u] # "over" => Intact(given[u])
    BY <1>3, <1>5, <1>6 DEF HeapInv, Kept
  <2>2. Own(u) # NoCap => Intact(Own(u)) /\ Own(u) \notin caps
    BY <1>5 DEF HeapInv, Kept
  <2>3. CASE pc[u] = "begun"
    <3>1. at[u] \in Placed /\ Own(u) = Described(at[u]) /\ Own(u) \in Cap
      <4>1. at[u] \in Placed
        BY <2>3 DEF HeapInv, Located, Posted
      <4>2. Described(at[u]) \in Cap
        BY <4>1, PlacedFacts DEF HeapInv, Described, Cap
      <4>3. QED
        BY <2>3, <4>1, <4>2 DEF Own
    <3>2. Own(u) # NoCap /\ Own(u).at = at[u]
      BY <3>1, NoCapAssumption DEF Described
    <3>3. at[u] # here /\ headers'[at[u]] = headers[at[u]]
      <4>1. at[u] # here
        BY <1>4, <2>2, <3>1, <3>2
      <4>2. QED
        BY <1>1, <3>1, <4>1 DEF Began, Placed
    <3>4. Own(u)' = Own(u)
      BY <1>3, <1>6, <2>3, <3>3 DEF Own, Described
    <3>5. QED
      BY <2>1, <2>2, <3>1, <3>2, <3>3, <3>4
  <2>4. CASE pc[u] # "begun"
    <3>1. pc[u] # "fill_begin"
      BY <1>6, HeapAssumption DEF BeginsAt, HeapInv, Located, Posted, HoldPCs
    <3>2. Own(u) = got[u] /\ Own(u)' = got[u]
      BY <1>3, <1>6, <2>4, <3>1 DEF Own
    <3>3. got[u] # NoCap => got[u].at \in Placed
      BY DEF HeapInv, Known
    <3>4. QED
      BY <1>4, <2>1, <2>2, <3>2, <3>3
  <2>5. QED
    BY <2>3, <2>4
<1>7. Own(t)' = new /\ headers'[here] = [ext |-> want[t], ver |-> begun(before.count), live |-> TRUE]
  BY <1>1, <1>3 DEF Own, Described, Began
<1>8. Own(t)' \notin caps
  <2>1. ASSUME NEW c \in caps, c.at = here, c.ver = begun(before.count) PROVE FALSE
    <3>1. c \in Cap /\ c # NoCap
      BY NoCapAssumption DEF HeapInv, Shaped
    <3>2. here \in Placed /\ number(c.ver) < arenas[a].count
      BY <1>2, <2>1, <3>1 DEF HeapInv, Known
    <3>3. before = arenas[a]
      BY <1>2, <3>2, PlacedFacts DEF HeapInv, BeginsAt
    <3>4. number(c.ver) = before.count /\ before.count \in Nat
      BY <1>1, <2>1 DEF Began
    <3>5. QED
      BY <3>2, <3>3, <3>4
  <2>2. QED
    BY <1>7, <2>1
<1>9. ASSUME NEW c \in caps
      PROVE  c.at \in Placed
  BY NoCapAssumption DEF HeapInv, Known, Shaped
<1>10. \A c \in caps \ freed : Intact(c)'
  BY <1>4, <1>5, <1>9 DEF HeapInv, Kept
<1>11. ASSUME NEW u \in Threads
       PROVE  given[u] # NoCap /\ pc'[u] # "over" => Intact(given[u])'
  <2>1. given[u] # NoCap => given[u].at \in Placed
    BY <1>9 DEF HeapInv, Located, Posted, Shaped
  <2>2. given[u] # NoCap /\ pc'[u] # "over" => Intact(given[u])
    BY <1>3, <1>5 DEF HeapInv, Kept
  <2>3. QED
    BY <1>3, <1>4, <2>1, <2>2 DEF Intact
<1>12. ASSUME NEW u \in Threads, Own(u)' # NoCap
       PROVE  /\ Intact(Own(u))' /\ Own(u)' \notin caps
              /\ \A w \in Threads : u # w => Own(u)' # Own(w)'
  <2>1. CASE u = t
    <3>1. Intact(Own(u))'
      <4>1. Own(u)' = new
        BY <1>7, <2>1
      <4>2. QED
        BY <1>7, <4>1 DEF Intact
    <3>2. ASSUME NEW w \in Threads, w # t
          PROVE  Own(w)' # Own(t)'
      BY <1>6, <1>7, <1>12, <2>1, <3>2
    <3>3. QED
      BY <1>8, <2>1, <3>1, <3>2
  <2>2. CASE u # t
    <3>1. /\ Own(u)' = Own(u) /\ Intact(Own(u)) /\ Own(u) \notin caps /\ Own(u).at # here
          /\ Own(u).at \in Placed
      BY <1>6, <1>12, <2>2
    <3>2. Intact(Own(u))'
      <4>1. headers'[Own(u).at] = headers[Own(u).at]
        BY <1>1, <3>1 DEF Began, Placed
      <4>2. QED
        BY <3>1, <4>1 DEF Intact
    <3>3. ASSUME NEW w \in Threads, u # w
          PROVE  Own(u)' # Own(w)'
      <4>1. CASE w = t
        BY <1>7, <3>1, <4>1
      <4>2. CASE w # t
        <5>1. Own(w)' = Own(w)
          BY <1>6, <4>2
        <5>2. QED
          BY <1>5, <1>12, <3>1, <3>3, <5>1 DEF HeapInv, Kept
      <4>3. QED
        BY <4>1, <4>2
    <3>4. QED
      BY <3>1, <3>2, <3>3
  <2>3. QED
    BY <2>1, <2>2
<1>13. QED
  BY <1>10, <1>11, <1>12

LEMMA BeginCounted ==
    ASSUME HeapInv, NEW t \in Threads, NEW a \in 1..REGIONS, NEW before, NEW here,
           BeginsAt(t, a, before, here)
    PROVE  Counted'
<1>1. Began(t, a, before, here)
  BY BeginChanges
<1>2. born' = born
  BY DEF BeginsAt, ghosts
<1>3. /\ pc[t] = "begin" /\ pc'[t] = "fill_begin" /\ at'[t] = here
      /\ \A u \in Threads \ {t} : pc'[u] = pc[u] /\ at'[u] = at[u]
  BY DEF BeginsAt, HeapInv, Shaped
<1>4. Pending' = Pending
  BY <1>3 DEF Pending
<1>5. \A u \in Threads : pc[u] # "fill_begin"
  BY HeapAssumption DEF BeginsAt, HeapInv, Located, Posted, HoldPCs
<1>6. here[1] = a
  BY BlockFound
<1>7. Cardinality(born) \in Nat
  BY FS_CardinalityType DEF HeapInv, Counted
<1>8. ASSUME NEW b \in DOMAIN arenas'
      PROVE  arenas'[b].count - 1 <= Cardinality(born) +
               IF \E u \in Threads : pc'[u] = "fill_begin" /\ at'[u][1] = b THEN 1 ELSE 0
  <2>1. CASE b # a
    <3>1. b \in DOMAIN arenas /\ arenas'[b] = arenas[b]
      BY <2>1 DEF BeginsAt
    <3>2. arenas[b].count - 1 <= Cardinality(born) + 0 /\ arenas[b].count \in Nat
      BY <1>5, <3>1, ArenaFacts DEF HeapInv, Counted
    <3>3. QED
      BY <1>7, <3>1, <3>2
  <2>2. CASE b = a
    <3>1. \E u \in Threads : pc'[u] = "fill_begin" /\ at'[u][1] = b
      BY <1>3, <1>6, <2>2
    <3>2. before.count - 1 <= Cardinality(born) /\ before.count \in Nat
      <4>1. CASE a \in DOMAIN arenas
        <5>1. arenas[a].count - 1 <= Cardinality(born) + 0 /\ before = arenas[a]
          BY <1>5, <4>1 DEF HeapInv, Counted, BeginsAt
        <5>2. QED
          BY <1>1, <1>7, <5>1 DEF Began
      <4>2. CASE a \notin DOMAIN arenas
        BY <1>1, <1>7, <4>2 DEF Began
      <4>3. QED
        BY <4>1, <4>2
    <3>3. arenas'[a].count = before.count + 1
      BY <1>1 DEF Began
    <3>4. QED
      BY <1>7, <2>2, <3>1, <3>2, <3>3
  <2>3. QED
    BY <2>1, <2>2
<1>9. QED
  BY <1>2, <1>4, <1>8 DEF HeapInv, Counted

LEMMA BeginKeeps ==
    ASSUME HeapInv, NEW t \in Threads, AllocateHere(t) \/ AllocateFresh(t)
    PROVE  HeapInv'
<1>1. Shaped /\ Located /\ Laid
  BY DEF HeapInv
<1>0. PICK a \in 1..REGIONS : \E before, here : BeginsAt(t, a, before, here)
  BY <1>1, AllocateBegins
<1>2. PICK before, here : BeginsAt(t, a, before, here)
  BY <1>0
<1>3. Shaped' /\ Located' /\ Paired'
  BY <1>2, BeginShaped
<1>4. Laid' /\ Lists' /\ Versioned' /\ Painted'
  BY <1>2, BeginLaid, BeginLists, BeginVersioned, BeginPainted
<1>5. Borne' /\ Known' /\ Counted' /\ Kept'
  BY <1>2, BeginBorne, BeginCounted, BeginKept
<1>6. NoFalseRefusal'
  BY <1>2 DEF BeginsAt, ghosts, HeapInv, NoFalseRefusal
<1>7. QED
  BY <1>3, <1>4, <1>5, <1>6 DEF HeapInv

-----------------------------------------------------------------------------
(* Steps outside the lock                                                  *)

\* t takes a step that does not touch the heap.
Outside(t) ==
    /\ UNCHANGED <<lock, arenas, headers, plane, born>>
    /\ pc[t] \notin HoldPCs /\ pc'[t] \notin HoldPCs
    /\ \A u \in Threads \ {t} :
         /\ pc'[u] = pc[u] /\ want'[u] = want[u] /\ at'[u] = at[u] /\ done'[u] = done[u]
         /\ given'[u] = given[u] /\ got'[u] = got[u]

LEMMA HeapStays ==
    ASSUME HeapInv, UNCHANGED <<arenas, headers>>
    PROVE  /\ Laid' /\ Lists' /\ Versioned'
           /\ Placed' = Placed
           /\ \A p : Described(p)' = Described(p)
<1>1. Placed' = Placed
  BY DEF Placed
<1>2. \A p : Lo(p)' = Lo(p) /\ Hi(p)' = Hi(p) /\ (Listed(p)' <=> Listed(p))
  BY DEF Lo, Hi, Listed
<1>3. Laid'
  BY <1>1, <1>2 DEF HeapInv, Laid
<1>4. Lists'
  BY <1>1, <1>2 DEF HeapInv, Lists
<1>5. Versioned'
  BY <1>1 DEF HeapInv, Versioned
<1>6. QED
  BY <1>1, <1>3, <1>4, <1>5 DEF Described

LEMMA OutsidePainted ==
    ASSUME HeapInv, NEW t \in Threads, Outside(t)
    PROVE  Painted' /\ Borne'
<1>1. Placed' = Placed /\ \A p : Described(p)' = Described(p)
  BY HeapStays DEF Outside
<1>2. \A u \in Threads : pc'[u] \in HoldPCs \/ pc[u] \in HoldPCs =>
        u # t /\ pc'[u] = pc[u] /\ at'[u] = at[u] /\ done'[u] = done[u]
  BY DEF Outside
<1>3. \A p \in Placed : Busy(p)' <=> Busy(p)
  <2>1. lock' = lock
    BY DEF Outside
  <2>2. \A u \in Threads : lock = u => pc[u] \in HoldPCs
    BY DEF HeapInv, Located, Posted
  <2>3. \A u \in Threads : lock = u => at'[u] = at[u]
    BY <1>2, <2>2
  <2>4. QED
    BY <2>1, <2>3 DEF Busy
<1>4. Painted'
  <2>1. headers' = headers /\ plane' = plane
    BY DEF Outside
  <2>2. ASSUME NEW p \in Placed, NEW k \in 0..headers[p].ext - 1
        PROVE  /\ ~ Busy(p)' => plane[Spot(p, k)] = headers[p].ver
               /\ \A u \in Threads : at'[u] = p =>
                    /\ pc'[u] = "fill_begin" =>
                         IF k < done'[u] THEN plane[Spot(p, k)] = headers[p].ver
                                         ELSE ~ owned(plane[Spot(p, k)])
                    /\ pc'[u] = "fill_end" =>
                         plane[Spot(p, k)] = IF k < done'[u] THEN ended(headers[p].ver)
                                                             ELSE headers[p].ver
                    /\ pc'[u] = "ended" => plane[Spot(p, k)] = ended(headers[p].ver)
    BY <1>2, <1>3 DEF HeapInv, Painted, HoldPCs
  <2>3. QED
    BY <1>1, <2>1, <2>2 DEF HeapInv, Painted
<1>5. Borne'
  <2>1. born' = born /\ headers' = headers /\ arenas' = arenas
    BY DEF Outside
  <2>2. \A u \in Threads :
          /\ pc'[u] \in {"fill_end", "ended"} => Described(at'[u]) \in born
          /\ pc'[u] = "fill_begin" =>
               \A c \in born : Name(c) # <<at'[u][1], headers[at'[u]].ver>>
    BY <1>2 DEF HeapInv, Borne, HoldPCs
  <2>3. \A u \in Threads : Described(at[u])' = Described(at'[u])
    BY <2>1 DEF Described
  <2>4. \A p \in Placed : headers[p].live /\ ~ Busy(p)' => Described(p) \in born
    BY <1>3 DEF HeapInv, Borne
  <2>5. \A c : Name(c)' = Name(c)
    BY DEF Name
  <2>6. QED
    BY <1>1, <2>1, <2>2, <2>3, <2>4, <2>5 DEF HeapInv, Borne
<1>6. QED
  BY <1>4, <1>5

\* The other threads are where they were.
LEMMA OthersPosted ==
    ASSUME HeapInv, NEW t \in Threads, Outside(t), NEW u \in Threads, u # t,
           given[u] # NoCap => given[u] \in freed'
    PROVE  Posted(u)'
<1>1. Placed' = Placed
  BY HeapStays DEF Outside
<1>2. QED
  BY <1>1 DEF HeapInv, Located, Posted, Outside

\* The calls under way after a step.
LEMMA OutsideCounted ==
    ASSUME HeapInv, NEW t \in Threads, Outside(t),
           \/ pc'[t] \in {"begin", "extent"} => pc[t] \in {"begin", "extent"}
           \/ Cardinality(born) < BEGINS
    PROVE  Counted'
<1>1. IsFiniteSet(born) /\ Cardinality(born) \in Nat /\ IsFiniteSet(Threads)
      /\ Cardinality(Threads) \in Nat /\ BEGINS \in Nat
  BY FS_CardinalityType, HeapAssumption DEF HeapInv, Counted
<1>2. Pending \subseteq Threads /\ Pending' \subseteq Threads
  BY DEF Pending
<1>3. /\ IsFiniteSet(Pending) /\ Cardinality(Pending) \in Nat
      /\ IsFiniteSet(Pending') /\ Cardinality(Pending') \in Nat
      /\ Cardinality(Pending') <= Cardinality(Threads)
  BY <1>1, <1>2, FS_Subset, FS_CardinalityType
<1>4. Cardinality(born) + Cardinality(Pending') <= BEGINS + Cardinality(Threads)
  <2>1. CASE pc'[t] \in {"begin", "extent"} => pc[t] \in {"begin", "extent"}
    <3>1. Pending' \subseteq Pending
      BY <2>1 DEF Outside, Pending, HoldPCs
    <3>2. Cardinality(Pending') <= Cardinality(Pending)
      BY <1>3, <3>1, FS_Subset
    <3>3. Cardinality(born) + Cardinality(Pending) <= BEGINS + Cardinality(Threads)
      BY DEF HeapInv, Counted
    <3>4. QED
      BY <1>1, <1>3, <3>2, <3>3
  <2>2. CASE Cardinality(born) < BEGINS
    BY <1>1, <1>3, <2>2
  <2>3. QED
    BY <2>1, <2>2
<1>5. ASSUME NEW u \in Threads
      PROVE  pc'[u] = "fill_begin" <=> pc[u] = "fill_begin"
  BY DEF Outside, HoldPCs
<1>6. \A u \in Threads : pc[u] = "fill_begin" => at'[u] = at[u]
  BY DEF Outside, HoldPCs
<1>7. \A a : (\E u \in Threads : pc'[u] = "fill_begin" /\ at'[u][1] = a)
               <=> (\E u \in Threads : pc[u] = "fill_begin" /\ at[u][1] = a)
  BY <1>5, <1>6
<1>8. arenas' = arenas /\ born' = born
  BY DEF Outside
<1>9. \A a \in DOMAIN arenas :
        arenas[a].count - 1 <= Cardinality(born) +
          IF \E u \in Threads : pc'[u] = "fill_begin" /\ at'[u][1] = a THEN 1 ELSE 0
  BY <1>7 DEF HeapInv, Counted
<1>10. QED
  BY <1>1, <1>4, <1>8, <1>9 DEF Counted

\* What a thread has begun is somewhere, and of a version that was counted.
LEMMA OwnKnown ==
    ASSUME HeapInv, NEW t \in Threads, Own(t) # NoCap
    PROVE  /\ Own(t) \in Cap /\ Own(t).at \in Placed
           /\ headers[Own(t).at].ext = Own(t).ext
           /\ number(Own(t).ver) < arenas[Own(t).at[1]].count
<1>1. CASE pc[t] \in {"fill_begin", "begun"}
  <2>1. at[t] \in Placed /\ Own(t) = Described(at[t])
    BY <1>1 DEF HeapInv, Located, Posted, Own
  <2>2. /\ at[t] \in Granules /\ headers[at[t]].ext \in Sizes /\ headers[at[t]].ver \in Nat
        /\ at[t][1] \in DOMAIN arenas
    BY <2>1, PlacedFacts DEF HeapInv
  <2>3. arenas[at[t][1]].count \in Nat
    BY <2>2, ArenaFacts DEF HeapInv
  <2>4. number(headers[at[t]].ver) \in 1..arenas[at[t][1]].count - 1
    BY <2>1 DEF HeapInv, Versioned
  <2>5. number(headers[at[t]].ver) < arenas[at[t][1]].count
    BY <2>3, <2>4
  <2>6. QED
    BY <2>1, <2>2, <2>5 DEF Described, Cap
<1>2. CASE pc[t] \notin {"fill_begin", "begun"}
  <2>1. Own(t) = got[t]
    BY <1>2 DEF Own
  <2>2. got[t] \in Cap
    BY <1>2, <2>1 DEF HeapInv, Shaped
  <2>3. QED
    BY <2>1, <2>2 DEF HeapInv, Known
<1>3. QED
  BY <1>1, <1>2

\* What a step outside the lock may do to the program's capabilities and to
\* its thread's registers.
Handled(t) ==
    /\ Shaped'
    /\ caps' \cup {got'[t]} \subseteq caps \cup {Own(t), NoCap}
    /\ caps \subseteq caps' /\ twice \subseteq twice'
    /\ \/ Own(t)' = NoCap
       \/ Own(t)' = Own(t) /\ caps' = caps
    /\ twice' = {} =>
         /\ \A c \in caps' \ freed' :
              \/ c \in caps \ freed \/ c = Own(t)
              \/ c = given[t] /\ pc[t] # "over"
         /\ given'[t] # NoCap /\ pc'[t] # "over" =>
              given'[t] \in caps \ freed \/ (given'[t] = given[t] /\ pc[t] # "over")

LEMMA HandledKnown ==
    ASSUME HeapInv, NEW t \in Threads, Outside(t), Handled(t)
    PROVE  Known'
<1>1. Placed' = Placed /\ headers' = headers /\ arenas' = arenas
  BY HeapStays DEF Outside
<1>2. ASSUME NEW c \in caps' \cup {got'[u] : u \in Threads}, c # NoCap
      PROVE  /\ c.at \in Placed /\ headers[c.at].ext = c.ext
             /\ number(c.ver) < arenas[c.at[1]].count
  <2>1. c \in caps \cup {got[u] : u \in Threads} \/ c = Own(t)
    BY <1>2 DEF Handled, Outside
  <2>2. QED
    BY <1>2, <2>1, OwnKnown DEF HeapInv, Known
<1>3. QED
  BY <1>1, <1>2 DEF Known

LEMMA HandledKept ==
    ASSUME HeapInv, NEW t \in Threads, Outside(t), Handled(t)
    PROVE  Kept'
<1>1. \A c : Intact(c)' <=> Intact(c)
  BY DEF Intact, Outside
<1>2. \A u \in Threads \ {t} : Own(u)' = Own(u) /\ given'[u] = given[u] /\ pc'[u] = pc[u]
  BY DEF Own, Described, Outside
<1>3. SUFFICES ASSUME twice' = {}
               PROVE  /\ \A c \in caps' \ freed' : Intact(c)
                      /\ \A u \in Threads :
                           /\ given'[u] # NoCap /\ pc'[u] # "over" => Intact(given'[u])
                           /\ Own(u)' # NoCap => Intact(Own(u)') /\ Own(u)' \notin caps'
                           /\ \A w \in Threads : u # w /\ Own(u)' # NoCap => Own(u)' # Own(w)'
  BY <1>1 DEF Kept, Intact
<1>4. /\ twice = {}
      /\ \A c \in caps \ freed : Intact(c)
      /\ \A u \in Threads :
           /\ given[u] # NoCap /\ pc[u] # "over" => Intact(given[u])
           /\ Own(u) # NoCap => Intact(Own(u)) /\ Own(u) \notin caps
           /\ \A w \in Threads : u # w /\ Own(u) # NoCap => Own(u) # Own(w)
  <2>1. twice = {}
    BY <1>3 DEF Handled
  <2>2. QED
    BY <2>1 DEF HeapInv, Kept
<1>5. NoCap \notin caps'
  BY NoCapAssumption DEF Handled, Shaped
<1>6. \A c \in caps' \ freed' : Intact(c)
  BY <1>3, <1>4, <1>5 DEF Handled
<1>7. ASSUME NEW u \in Threads
      PROVE  given'[u] # NoCap /\ pc'[u] # "over" => Intact(given'[u])
  BY <1>2, <1>3, <1>4 DEF Handled
<1>8. ASSUME NEW u \in Threads, Own(u)' # NoCap
      PROVE  Intact(Own(u)') /\ Own(u)' \notin caps'
  <2>1. CASE u = t
    BY <1>4, <1>8, <2>1 DEF Handled
  <2>2. CASE u # t
    <3>1. Own(u) # NoCap /\ Intact(Own(u)) /\ Own(u) \notin caps /\ Own(u) # Own(t)
      BY <1>2, <1>4, <1>8, <2>2
    <3>2. QED
      BY <1>2, <2>2, <3>1 DEF Handled
  <2>3. QED
    BY <2>1, <2>2
<1>9. ASSUME NEW u \in Threads, NEW w \in Threads, u # w, Own(u)' # NoCap
      PROVE  Own(u)' # Own(w)'
  <2>1. Own(u)' = Own(u)
    BY <1>2, <1>9 DEF Handled
  <2>2. Own(w)' = Own(w) \/ Own(w)' = NoCap
    BY <1>2 DEF Handled
  <2>3. QED
    BY <1>4, <1>9, <2>1, <2>2
<1>10. QED
  BY <1>6, <1>7, <1>8, <1>9

LEMMA OutsideKeeps ==
    ASSUME HeapInv, NEW t \in Threads, Outside(t), Handled(t),
           Posted(t)', Paired', Counted', Running, stopped' = stopped,
           \A u \in Threads \ {t} : given[u] # NoCap => given[u] \in freed'
    PROVE  HeapInv'
<1>1. Located'
  BY OthersPosted DEF Located
<1>2. Laid' /\ Lists' /\ Versioned'
  BY HeapStays DEF Outside
<1>3. Painted' /\ Borne' /\ Known' /\ Kept'
  BY OutsidePainted, HandledKnown, HandledKept
<1>4. NoFalseRefusal'
  BY DEF Running, NoFalseRefusal
<1>5. Shaped'
  BY DEF Handled
<1>6. QED
  BY <1>1, <1>2, <1>3, <1>4, <1>5 DEF HeapInv

LEMMA MallocKeeps ==
    ASSUME HeapInv, NEW t \in Threads, NEW size \in Sizes, Malloc(t, size)
    PROVE  HeapInv'
<1>1. /\ Running /\ pc[t] = "run" /\ Cardinality(born) < BEGINS
      /\ want' = [want EXCEPT ![t] = size] /\ pc' = [pc EXCEPT ![t] = "begin"]
      /\ UNCHANGED <<lock, arenas, watched, headers, plane, epochs, at, given, done, got,
                     caps, freed, twice, born, stopped>>
  BY DEF Malloc, Goto, ghosts
<1>2. Shaped'
  BY <1>1 DEF HeapInv, Shaped, Labels
<1>3. pc'[t] = "begin" /\ \A u \in Threads \ {t} : pc'[u] = pc[u] /\ want'[u] = want[u]
  BY <1>1 DEF HeapInv, Shaped
<1>4. Outside(t)
  BY <1>1, <1>3 DEF Outside, HoldPCs
<1>5. got[t] = NoCap /\ given[t] = NoCap
  BY <1>1 DEF HeapInv, Located, Posted, EndPCs
<1>6. Own(t)' = NoCap
  BY <1>1, <1>3, <1>5 DEF Own
<1>7. Handled(t)
  BY <1>1, <1>2, <1>5, <1>6 DEF Handled
<1>8. Posted(t)'
  BY <1>1, <1>2, <1>3, <1>5 DEF HeapInv, Shaped, Located, Posted, HoldPCs, EndPCs
<1>9. Paired'
  BY <1>1 DEF HeapInv, Paired
<1>10. Counted'
  BY <1>1, <1>4, OutsideCounted
<1>11. QED
  BY <1>1, <1>4, <1>7, <1>8, <1>9, <1>10, OutsideKeeps DEF HeapInv, Located, Posted

\* The call that returns is back where it may be made again.
Returned(t, cap) ==
    /\ pc'[t] = "run" /\ want'[t] = 0 /\ at'[t] = <<>> /\ done'[t] = 0
    /\ given'[t] = NoCap /\ got'[t] = NoCap
    /\ \A u \in Threads \ {t} :
         /\ pc'[u] = pc[u] /\ want'[u] = want[u] /\ at'[u] = at[u] /\ done'[u] = done[u]
         /\ given'[u] = given[u] /\ got'[u] = got[u]
    /\ pc' \in [Threads -> Labels]
    /\ want' \in [Threads -> Sizes \cup {0}]
    /\ at' \in [Threads -> Granules \cup {<<>>}]
    /\ done' \in [Threads -> Nat]
    /\ given' \in [Threads -> Cap \cup {NoCap}]
    /\ got' \in [Threads -> Cap \cup {NoCap}]
    /\ caps' = caps \cup ({cap} \ {NoCap})

LEMMA ReturnReturns ==
    ASSUME Shaped, NEW t \in Threads, NEW cap, Return(t, cap)
    PROVE  Returned(t, cap)
BY DEF Shaped, Return, Goto, Returned, Labels

LEMMA ReturnIsOutside ==
    ASSUME HeapInv, NEW t \in Threads, NEW cap, Returned(t, cap), pc[t] \notin HoldPCs,
           UNCHANGED <<lock, arenas, headers, plane, born>>
    PROVE  /\ Outside(t) /\ Posted(t)' /\ Own(t)' = NoCap
           /\ twice \subseteq twice' => Paired'
           /\ Counted'
<1>1. Outside(t)
  BY DEF Returned, Outside, HoldPCs
<1>2. lock # t
  BY DEF HeapInv, Located, Posted
<1>3. Posted(t)'
  BY <1>2 DEF Returned, Posted, HoldPCs, EndPCs
<1>4. Own(t)' = NoCap
  BY DEF Own, Returned
<1>5. twice \subseteq twice' => Paired'
  BY DEF HeapInv, Paired, Returned
<1>6. Counted'
  BY <1>1, OutsideCounted DEF Returned
<1>7. QED
  BY <1>1, <1>3, <1>4, <1>5, <1>6

LEMMA NullKeeps ==
    ASSUME HeapInv, NEW t \in Threads, AllocateNull(t)
    PROVE  HeapInv'
<1>1. /\ Running /\ pc[t] = "begin" /\ freed' = freed \ ({given[t]} \ twice)
      /\ Return(t, NoCap)
      /\ UNCHANGED <<lock, arenas, watched, headers, plane, epochs, twice, born, stopped>>
  BY DEF AllocateNull
<1>2. Shaped
  BY DEF HeapInv
<1>3. Returned(t, NoCap)
  BY <1>1, <1>2, ReturnReturns
<1>4. /\ Outside(t) /\ Posted(t)' /\ Own(t)' = NoCap /\ Paired' /\ Counted'
  BY <1>1, <1>3, ReturnIsOutside DEF HoldPCs
<1>5. caps' = caps /\ got'[t] = NoCap /\ given'[t] = NoCap
  BY <1>3 DEF Returned
<1>6. Shaped'
  BY <1>1, <1>2, <1>3, <1>5 DEF Shaped, Returned
<1>7. ASSUME NEW c \in caps' \ freed'
      PROVE  c \in caps \ freed \/ c = given[t]
  BY <1>1, <1>5
<1>8. Handled(t)
  BY <1>1, <1>4, <1>5, <1>6, <1>7 DEF Handled
<1>9. ASSUME NEW u \in Threads \ {t}, given[u] # NoCap
      PROVE  given[u] \in freed'
  <2>1. given[u] \in freed
    BY <1>9 DEF HeapInv, Located, Posted
  <2>2. given[u] = given[t] => given[u] \in twice
    BY <1>9 DEF HeapInv, Paired
  <2>3. QED
    BY <1>1, <2>1, <2>2
<1>10. QED
  BY <1>1, <1>4, <1>8, <1>9, OutsideKeeps

LEMMA OverKeeps ==
    ASSUME HeapInv, NEW t \in Threads, Over(t)
    PROVE  HeapInv'
<1>1. /\ Running /\ pc[t] = "over" /\ Return(t, got[t])
      /\ epochs' = [g \in Granules |->
                      IF g \in Payload(at[t], want[t]) THEN done[t] ELSE epochs[g]]
      /\ UNCHANGED <<lock, arenas, watched, headers, plane, freed, twice, born, stopped>>
  BY DEF Over
<1>2. Shaped /\ Own(t) = got[t]
  BY <1>1 DEF HeapInv, Own
<1>3. Returned(t, got[t])
  BY <1>1, <1>2, ReturnReturns
<1>4. /\ Outside(t) /\ Posted(t)' /\ Own(t)' = NoCap /\ Paired' /\ Counted'
  BY <1>1, <1>3, ReturnIsOutside DEF HoldPCs
<1>5. caps' = caps \cup ({got[t]} \ {NoCap}) /\ got'[t] = NoCap /\ given'[t] = NoCap
  BY <1>3 DEF Returned
<1>6. epochs' \in [Granules -> Nat]
  BY <1>1, <1>2 DEF Shaped
<1>7. caps' \subseteq Cap
  BY <1>2, <1>5 DEF Shaped
<1>8. Shaped'
  BY <1>1, <1>2, <1>3, <1>5, <1>6, <1>7 DEF Shaped, Returned
<1>9. Handled(t)
  BY <1>1, <1>2, <1>4, <1>5, <1>8 DEF Handled
<1>10. QED
  BY <1>1, <1>4, <1>9, OutsideKeeps DEF HeapInv, Located, Posted

LEMMA BegunKeeps ==
    ASSUME HeapInv, NEW t \in Threads, Begun(t)
    PROVE  HeapInv'
<1> DEFINE cap == Described(at[t])
<1>1. /\ Running /\ pc[t] = "begun"
      /\ epochs' = [g \in Granules |->
                      IF g \in Payload(at[t], headers[at[t]].ext) THEN DEAD ELSE epochs[g]]
      /\ UNCHANGED <<lock, arenas, watched, headers, plane, freed, twice, born, stopped>>
  BY DEF Begun
<1>2. Shaped /\ Own(t) = cap
  BY <1>1 DEF HeapInv, Own
<1>3. epochs' \in [Granules -> Nat]
  BY <1>1, <1>2 DEF Shaped, DEAD
<1>4. at[t] \in Placed
  BY <1>1 DEF HeapInv, Located, Posted
<1>5. cap \in Cap
  BY <1>4, PlacedFacts DEF HeapInv, Described, Cap
<1>6. CASE given[t] = NoCap
  <2>1. Return(t, cap)
    BY <1>6 DEF Begun, Described
  <2>2. Returned(t, cap)
    BY <1>2, <2>1, ReturnReturns
  <2>3. /\ Outside(t) /\ Posted(t)' /\ Own(t)' = NoCap /\ Paired' /\ Counted'
    BY <1>1, <2>2, ReturnIsOutside DEF HoldPCs
  <2>4. caps' = caps \cup {cap} /\ got'[t] = NoCap /\ given'[t] = NoCap
    BY <1>5, <2>2, NoCapAssumption DEF Returned
  <2>5. Shaped'
    BY <1>1, <1>2, <1>3, <1>5, <2>2, <2>4 DEF Shaped, Returned
  <2>6. Handled(t)
    BY <1>1, <1>2, <2>3, <2>4, <2>5 DEF Handled
  <2>7. QED
    BY <1>1, <2>3, <2>6, OutsideKeeps DEF HeapInv, Located, Posted
<1>7. CASE given[t] # NoCap
  <2>1. /\ pc' = [pc EXCEPT ![t] = "end"] /\ at' = [at EXCEPT ![t] = given[t].at]
        /\ got' = [got EXCEPT ![t] = cap]
        /\ UNCHANGED <<want, given, done, caps>>
    BY <1>7 DEF Begun, Described, Goto
  <2>2. given[t] \in freed /\ given[t] \in Cap /\ given[t] \in caps
    BY <1>2, <1>7 DEF HeapInv, Located, Posted, Shaped
  <2>3. given[t].at \in Placed /\ given[t].at \in Granules
    BY <1>7, <2>2 DEF HeapInv, Known, Placed
  <2>4. Shaped'
    BY <1>1, <1>2, <1>3, <1>5, <2>1, <2>3 DEF Shaped, Labels
  <2>5. /\ pc'[t] = "end" /\ at'[t] = given[t].at /\ got'[t] = cap
        /\ \A u \in Threads \ {t} : pc'[u] = pc[u] /\ at'[u] = at[u] /\ got'[u] = got[u]
    BY <1>2, <2>1 DEF Shaped
  <2>6. Outside(t)
    BY <1>1, <2>1, <2>5 DEF Outside, HoldPCs
  <2>7. Own(t)' = cap
    BY <2>5 DEF Own
  <2>8. Handled(t)
    BY <1>1, <1>2, <2>1, <2>4, <2>5, <2>7 DEF Handled
  <2>9. done[t] = 0 /\ lock # t
    BY <1>1 DEF HeapInv, Located, Posted, HoldPCs
  <2>10. Placed' = Placed
    BY <1>1, HeapStays
  <2>11. Posted(t)'
    BY <1>1, <1>7, <2>1, <2>2, <2>3, <2>5, <2>9, <2>10 DEF Posted, HoldPCs, EndPCs
  <2>12. Paired'
    BY <1>1, <2>1 DEF HeapInv, Paired
  <2>13. Counted'
    BY <2>5, <2>6, OutsideCounted
  <2>14. QED
    BY <1>1, <2>6, <2>8, <2>11, <2>12, <2>13, OutsideKeeps DEF HeapInv, Located, Posted
<1>8. QED
  BY <1>6, <1>7

\* The program gives c away in a call of t's.
Gives(t, c) ==
    /\ pc[t] = "run" /\ c \in caps
    /\ freed' = freed \cup {c} /\ twice' = twice \cup (freed \cap {c})
    /\ given' = [given EXCEPT ![t] = c]
    /\ UNCHANGED <<lock, arenas, watched, headers, plane, epochs, done, got,
                   caps, born, stopped>>
    /\ Shaped' /\ Outside(t) /\ pc'[t] \notin {"fill_begin", "begun"}

LEMMA GivesHandles ==
    ASSUME HeapInv, NEW t \in Threads, NEW c, Gives(t, c)
    PROVE  /\ Handled(t) /\ Paired'
           /\ given'[t] = c /\ c # NoCap /\ c \in freed' /\ c.at \in Placed /\ c.at \in Granules
           /\ \A u \in Threads \ {t} : given[u] # NoCap => given[u] \in freed'
           /\ done[t] = 0 /\ got[t] = NoCap /\ lock # t
<1>1. done[t] = 0 /\ got[t] = NoCap /\ lock # t /\ given[t] = NoCap
  BY DEF HeapInv, Located, Posted, HoldPCs, EndPCs, Gives
<1>2. given'[t] = c /\ \A u \in Threads \ {t} : given'[u] = given[u]
  BY DEF Gives, HeapInv, Shaped
<1>3. c \in Cap /\ c # NoCap
  BY NoCapAssumption DEF Gives, HeapInv, Shaped
<1>4. c.at \in Placed /\ c.at \in Granules
  BY <1>3 DEF Gives, HeapInv, Known, Placed
<1>5. c \in freed' /\ \A u \in Threads : given[u] # NoCap => given[u] \in freed
  BY DEF Gives, HeapInv, Located, Posted
<1>6. Own(t)' = NoCap
  BY <1>1 DEF Own, Gives
<1>7. twice' = {} => given'[t] \in caps \ freed
  BY <1>2 DEF Gives
<1>8. Handled(t)
  BY <1>1, <1>6, <1>7 DEF Handled, Gives
<1>9. Paired'
  <2>1. ASSUME NEW u \in Threads, NEW w \in Threads, u # w,
               given'[u] # NoCap, given'[u] = given'[w]
        PROVE  given'[u] \in twice'
    <3>1. CASE u # t /\ w # t
      BY <1>2, <2>1, <3>1 DEF HeapInv, Paired, Gives
    <3>2. CASE u = t
      <4>1. given[w] = c /\ c \in freed
        BY <1>2, <1>3, <1>5, <2>1, <3>2
      <4>2. QED
        BY <1>2, <3>2, <4>1 DEF Gives
    <3>3. CASE w = t
      <4>1. given[u] = c /\ c \in freed /\ given'[u] = c
        BY <1>2, <1>3, <1>5, <2>1, <3>3
      <4>2. QED
        BY <4>1 DEF Gives
    <3>4. QED
      BY <3>1, <3>2, <3>3
  <2>2. QED
    BY <2>1 DEF Paired
<1>10. \A u \in Threads \ {t} : given[u] # NoCap => given[u] \in freed'
  BY <1>5 DEF Gives
<1>11. QED
  BY <1>1, <1>2, <1>3, <1>4, <1>5, <1>8, <1>9, <1>10

LEMMA FreeKeeps ==
    ASSUME HeapInv, NEW t \in Threads, NEW c \in caps, Free(t, c), ~ Misnamed(c)
    PROVE  HeapInv' \/ Stop(c)
<1>1. SUFFICES ASSUME ~ Stop(c) PROVE HeapInv'
  OBVIOUS
<1>2. /\ Running /\ pc[t] = "run"
      /\ given' = [given EXCEPT ![t] = c] /\ at' = [at EXCEPT ![t] = c.at]
      /\ freed' = freed \cup {c} /\ twice' = twice \cup (freed \cap {c})
      /\ pc' = [pc EXCEPT ![t] = "end"]
      /\ UNCHANGED <<lock, arenas, watched, headers, plane, epochs,
                     want, done, got, caps, born, stopped>>
  BY <1>1 DEF Free, GiveAway, Goto
<1>3. c \in Cap /\ c.at \in Granules
  BY DEF HeapInv, Shaped, Cap
<1>4. Shaped'
  BY <1>2, <1>3 DEF HeapInv, Shaped, Labels
<1>5. /\ pc'[t] = "end" /\ at'[t] = c.at
      /\ \A u \in Threads \ {t} : pc'[u] = pc[u] /\ at'[u] = at[u] /\ given'[u] = given[u]
  BY <1>2 DEF HeapInv, Shaped
<1>6. Outside(t)
  BY <1>2, <1>5 DEF Outside, HoldPCs
<1>7. Gives(t, c)
  BY <1>2, <1>4, <1>5, <1>6 DEF Gives
<1>8. /\ Handled(t) /\ Paired'
      /\ given'[t] = c /\ c # NoCap /\ c \in freed' /\ c.at \in Placed
      /\ \A u \in Threads \ {t} : given[u] # NoCap => given[u] \in freed'
      /\ done[t] = 0 /\ lock # t
  BY <1>7, GivesHandles
<1>9. Placed' = Placed
  BY <1>2, HeapStays
<1>10. Posted(t)'
  BY <1>2, <1>5, <1>8, <1>9 DEF Posted, HoldPCs, EndPCs
<1>11. Counted'
  BY <1>5, <1>6, OutsideCounted
<1>12. QED
  BY <1>2, <1>6, <1>8, <1>10, <1>11, OutsideKeeps

LEMMA ReallocKeeps ==
    ASSUME HeapInv, NEW t \in Threads, NEW c \in caps, NEW size \in Sizes,
           Realloc(t, c, size), ~ Misnamed(c)
    PROVE  HeapInv' \/ Stop(c)
<1>1. SUFFICES ASSUME ~ Stop(c) PROVE HeapInv'
  OBVIOUS
<1>2. /\ Running /\ pc[t] = "run" /\ Cardinality(born) < BEGINS
      /\ given' = [given EXCEPT ![t] = c] /\ want' = [want EXCEPT ![t] = size]
      /\ freed' = freed \cup {c} /\ twice' = twice \cup (freed \cap {c})
      /\ pc' = [pc EXCEPT ![t] = "extent"]
      /\ UNCHANGED <<lock, arenas, watched, headers, plane, epochs,
                     at, done, got, caps, born, stopped>>
  BY <1>1 DEF Realloc, GiveAway, Goto
<1>3. Shaped'
  BY <1>2 DEF HeapInv, Shaped, Labels
<1>4. /\ pc'[t] = "extent" /\ want'[t] = size
      /\ \A u \in Threads \ {t} : pc'[u] = pc[u] /\ want'[u] = want[u] /\ given'[u] = given[u]
  BY <1>2 DEF HeapInv, Shaped
<1>5. Outside(t)
  BY <1>2, <1>4 DEF Outside, HoldPCs
<1>6. Gives(t, c)
  BY <1>2, <1>3, <1>4, <1>5 DEF Gives
<1>7. /\ Handled(t) /\ Paired'
      /\ given'[t] = c /\ c # NoCap /\ c \in freed'
      /\ \A u \in Threads \ {t} : given[u] # NoCap => given[u] \in freed'
      /\ done[t] = 0 /\ got[t] = NoCap /\ lock # t
  BY <1>6, GivesHandles
<1>8. Posted(t)'
  BY <1>2, <1>4, <1>7 DEF Posted, HoldPCs, EndPCs
<1>9. Counted'
  BY <1>2, <1>5, OutsideCounted
<1>10. QED
  BY <1>2, <1>5, <1>7, <1>8, <1>9, OutsideKeeps

LEMMA ExtentKeeps ==
    ASSUME HeapInv, NEW t \in Threads, Extent(t), Endable(given[t].at)
    PROVE  HeapInv' \/ Stop(given[t])
<1>1. SUFFICES ASSUME ~ Stop(given[t]) PROVE HeapInv'
  OBVIOUS
<1>2. /\ Running /\ pc[t] = "extent" /\ pc' = [pc EXCEPT ![t] = "begin"]
      /\ UNCHANGED <<lock, arenas, watched, headers, plane, epochs, want, at, given, done,
                     got, caps, freed, twice, born, stopped>>
  BY <1>1 DEF Extent, Goto, registers, ghosts
<1>3. Shaped'
  BY <1>2 DEF HeapInv, Shaped, Labels
<1>4. pc'[t] = "begin" /\ \A u \in Threads \ {t} : pc'[u] = pc[u]
  BY <1>2 DEF HeapInv, Shaped
<1>5. Outside(t)
  BY <1>2, <1>4 DEF Outside, HoldPCs
<1>6. Posted(t)
  BY DEF HeapInv, Located
<1>7. Own(t)' = NoCap
  BY <1>2, <1>4, <1>6 DEF Own, Posted, EndPCs
<1>8. Handled(t)
  BY <1>2, <1>3, <1>4, <1>6, <1>7 DEF Handled, Posted, EndPCs
<1>9. Posted(t)'
  BY <1>2, <1>4, <1>6 DEF Posted, HoldPCs, EndPCs
<1>10. Paired'
  BY <1>2 DEF HeapInv, Paired
<1>11. Counted'
  BY <1>2, <1>5, OutsideCounted
<1>12. QED
  BY <1>2, <1>5, <1>8, <1>9, <1>10, <1>11, OutsideKeeps DEF HeapInv, Located, Posted

-----------------------------------------------------------------------------
(* Steps that refuse a capability, or leave the heap as it is              *)

\* The storage of a capability nobody gave away is owned, and by its instance.
LEMMA HeldIsOwned ==
    ASSUME HeapInv, twice = {}, NEW c \in caps \ freed, NEW k \in 0..c.ext - 1
    PROVE  /\ c.at \in Placed /\ headers[c.at].live /\ headers[c.at].ext = c.ext
           /\ plane[Spot(c.at, k)] = c.ver /\ owned(c.ver)
<1>1. Intact(c)
  BY DEF HeapInv, Kept
<1>2. c \in Cap /\ c # NoCap
  BY NoCapAssumption DEF HeapInv, Shaped
<1>3. c.at \in Placed
  BY <1>2 DEF HeapInv, Known
<1>4. headers[c.at].live /\ headers[c.at].ext = c.ext /\ headers[c.at].ver = c.ver
  BY <1>1 DEF Intact
<1>5. owned(c.ver)
  <2>1. c.at[1] \in DOMAIN arenas
    BY <1>3, PlacedFacts DEF HeapInv
  <2>2. arenas[c.at[1]].count \in Nat
    BY <2>1, ArenaFacts DEF HeapInv
  <2>3. c.ver % 2 = 0 /\ number(c.ver) \in 1..arenas[c.at[1]].count - 1
    BY <1>3, <1>4 DEF HeapInv, Versioned
  <2>4. c.ver \in Nat
    BY <1>2 DEF Cap
  <2>5. QED
    BY <2>2, <2>3, <2>4, OwnedVersion
<1>6. ~ Busy(c.at)
  <2>1. SUFFICES ASSUME NEW t \in Threads, lock = t, at[t] = c.at PROVE FALSE
    BY DEF Busy
  <2>2. pc[t] \in HoldPCs
    BY <2>1 DEF HeapInv, Located, Posted
  <2>3. CASE pc[t] = "fill_begin"
    <3>1. Own(t) = c
      <4>1. Own(t) = [at |-> c.at, ext |-> c.ext, ver |-> c.ver]
        BY <1>4, <2>1, <2>3 DEF Own, Described
      <4>2. QED
        BY <1>2, <4>1 DEF Cap
    <3>2. QED
      BY <1>2, <3>1 DEF HeapInv, Kept
  <2>4. CASE pc[t] \in {"fill_end", "ended"}
    <3>1. given[t] # NoCap /\ given[t] \in freed /\ given[t].at = c.at /\ given[t] \in Cap
      BY <2>1, <2>4 DEF HeapInv, Located, Posted, EndPCs, Shaped
    <3>2. Intact(given[t])
      BY <2>4, <3>1 DEF HeapInv, Kept
    <3>3. given[t].ext = c.ext /\ given[t].ver = c.ver
      BY <1>4, <3>1, <3>2 DEF Intact
    <3>4. given[t] = c
      BY <1>2, <3>1, <3>3 DEF Cap
    <3>5. QED
      BY <3>1, <3>4
  <2>5. QED
    BY <2>2, <2>3, <2>4 DEF HoldPCs
<1>7. plane[Spot(c.at, k)] = headers[c.at].ver
  BY <1>3, <1>4, <1>6 DEF HeapInv, Painted
<1>8. QED
  BY <1>3, <1>4, <1>5, <1>7

\* Whatever is refused was given away already, or something was twice.
Blamed(c) == c \in caps /\ (c \in freed \/ twice # {})

\* A step that only changes stamps, watched regions or what was refused.
LEMMA AsideKeeps ==
    ASSUME HeapInv, Shaped', NoFalseRefusal',
           UNCHANGED <<lock, arenas, headers, plane, pc, want, at, given,
                       done, got, caps, freed, twice, born>>
    PROVE  HeapInv'
<1>1. Laid' /\ Lists' /\ Versioned' /\ Placed' = Placed
  BY HeapStays
<1>2. Located' /\ Paired'
  BY <1>1 DEF HeapInv, Located, Posted, Paired
<1>3. (\A p : Busy(p)' <=> Busy(p)) /\ (\A p : Described(p)' = Described(p))
  BY DEF Busy, Described
<1>4. Painted'
  BY <1>1, <1>3 DEF HeapInv, Painted
<1>5. Borne'
  <2>1. \A d : Name(d)' = Name(d)
    BY DEF Name
  <2>2. QED
    BY <1>1, <1>3, <2>1 DEF HeapInv, Borne
<1>6. Counted' /\ Known'
  <2>1. Pending' = Pending
    BY DEF Pending
  <2>2. QED
    BY <1>1, <2>1 DEF HeapInv, Counted, Known
<1>7. Kept'
  <2>1. \A d : Intact(d)' <=> Intact(d)
    BY DEF Intact
  <2>2. \A u : Own(u)' = Own(u)
    BY <1>3 DEF Own
  <2>3. QED
    BY <2>1, <2>2 DEF HeapInv, Kept, Intact
<1>8. QED
  BY <1>1, <1>2, <1>4, <1>5, <1>6, <1>7 DEF HeapInv

LEMMA StopKeeps ==
    ASSUME HeapInv, NEW c, Blamed(c), Stop(c)
    PROVE  HeapInv'
<1>1. /\ stopped' = c
      /\ UNCHANGED <<lock, arenas, watched, headers, plane, epochs, pc, want, at, given,
                     done, got, caps, freed, twice, born>>
  BY DEF Stop, registers, ghosts
<1>2. Shaped'
  BY <1>1 DEF HeapInv, Shaped, Blamed
<1>3. NoFalseRefusal'
  BY <1>1 DEF NoFalseRefusal, Blamed
<1>4. QED
  BY <1>1, <1>2, <1>3, AsideKeeps

\* What J6 and the check in front of a free refuse, and what an access does.
LEMMA MisnamedIsBlamed ==
    ASSUME HeapInv, NEW c \in caps, Misnamed(c)
    PROVE  Blamed(c)
<1>1. SUFFICES ASSUME twice = {}, c \notin freed PROVE FALSE
  BY DEF Blamed
<1>2. c \in Cap /\ c.ext \in Nat \ {0} /\ c.at = Spot(c.at, 0)
  <2>1. c \in Cap
    BY DEF HeapInv, Shaped
  <2>2. c.ext \in Sizes /\ c.at \in Granules
    BY <2>1 DEF Cap
  <2>3. c.at = <<c.at[1], c.at[2]>> /\ c.at[2] \in Nat
    BY <2>2, GranuleParts
  <2>4. c.at[2] + 0 = c.at[2]
    BY <2>3
  <2>5. QED
    BY <2>1, <2>2, <2>3, <2>4, Lengthy DEF Spot
<1>3. 0 \in 0..c.ext - 1 /\ c \in caps \ freed
  BY <1>1, <1>2
<1>4. plane[c.at] = c.ver
  BY <1>1, <1>2, <1>3, HeldIsOwned
<1>5. QED
  BY <1>4 DEF Misnamed, stale

LEMMA UnpermittedIsBlamed ==
    ASSUME HeapInv, NEW c \in caps, NEW g \in Payload(c.at, c.ext), ~ Permitted(c, g)
    PROVE  Blamed(c)
<1>1. SUFFICES ASSUME twice = {}, c \notin freed PROVE FALSE
  BY DEF Blamed
<1>2. c.ext \in Nat /\ c.at[2] \in Nat
  <2>1. c \in Cap
    BY DEF HeapInv, Shaped
  <2>2. c.ext \in Sizes /\ c.at \in Granules
    BY <2>1 DEF Cap
  <2>3. QED
    BY <2>2, GranuleParts, Lengthy
<1>3. PICK k \in 0..c.ext - 1 : g = Spot(c.at, k)
  BY <1>2, InPayload
<1>4. plane[g] = c.ver /\ owned(c.ver)
  BY <1>1, <1>3, HeldIsOwned
<1>5. QED
  BY <1>4 DEF Permitted, stale

LEMMA GivenIsBlamed ==
    ASSUME HeapInv, NEW t \in Threads, pc[t] \in {"extent"} \cup EndPCs
    PROVE  Blamed(given[t])
BY DEF Blamed, HeapInv, Located, Posted, Shaped

LEMMA FreedKeeps ==
    ASSUME HeapInv, NEW t \in Threads, NEW c \in caps,
           Free(t, c) \/ \E size \in Sizes : Realloc(t, c, size)
    PROVE  HeapInv'
<1>1. CASE Stop(c) /\ Misnamed(c)
  BY <1>1, StopKeeps, MisnamedIsBlamed
<1>2. CASE ~ (Stop(c) /\ Misnamed(c))
  <2>1. CASE Free(t, c)
    <3>1. ~ Misnamed(c)
      BY <1>2, <2>1 DEF Free
    <3>2. ~ Stop(c)
      <4>1. given'[t] = c /\ given[t] = NoCap
        BY <1>2, <2>1 DEF Free, HeapInv, Shaped, Located, Posted
      <4>2. c # NoCap
        BY NoCapAssumption DEF HeapInv, Shaped
      <4>3. QED
        BY <4>1, <4>2 DEF Stop, registers
    <3>3. QED
      BY <2>1, <3>1, <3>2, FreeKeeps
  <2>2. CASE \E size \in Sizes : Realloc(t, c, size)
    <3>1. PICK size \in Sizes : Realloc(t, c, size)
      BY <2>2
    <3>2. ~ Misnamed(c)
      BY <1>2, <3>1 DEF Realloc
    <3>3. ~ Stop(c)
      <4>1. given'[t] = c /\ given[t] = NoCap
        BY <1>2, <3>1 DEF Realloc, HeapInv, Shaped, Located, Posted
      <4>2. c # NoCap
        BY NoCapAssumption DEF HeapInv, Shaped
      <4>3. QED
        BY <4>1, <4>2 DEF Stop, registers
    <3>4. QED
      BY <3>1, <3>2, <3>3, ReallocKeeps
  <2>3. QED
    BY <2>1, <2>2
<1>3. QED
  BY <1>1, <1>2

LEMMA ExtentOrStopKeeps ==
    ASSUME HeapInv, NEW t \in Threads, Extent(t)
    PROVE  HeapInv'
<1>1. pc[t] = "extent"
  BY DEF Extent
<1>2. CASE Stop(given[t])
  BY <1>1, <1>2, StopKeeps, GivenIsBlamed
<1>3. CASE ~ Stop(given[t])
  <2>1. Endable(given[t].at)
    BY <1>3 DEF Extent
  <2>2. QED
    BY <1>3, <2>1, ExtentKeeps
<1>4. QED
  BY <1>2, <1>3

LEMMA AccessKeeps ==
    ASSUME HeapInv, NEW t \in Threads, NEW c \in caps, NEW g \in Payload(c.at, c.ext),
           Load(t, c, g) \/ Store(t, c, g)
    PROVE  HeapInv'
<1>1. CASE Stop(c) /\ ~ Permitted(c, g)
  BY <1>1, StopKeeps, UnpermittedIsBlamed
<1>2. CASE ~ (Stop(c) /\ ~ Permitted(c, g))
  <2>1. /\ UNCHANGED <<lock, arenas, watched, headers, plane, pc, want, at, given, done, got,
                       caps, freed, twice, born, stopped>>
        /\ epochs' = epochs \/ epochs' = [epochs EXCEPT ![g] = c.ver]
    BY <1>2 DEF Load, Store, vars, registers, ghosts
  <2>2. c.ver \in Nat
    BY DEF HeapInv, Shaped, Cap
  <2>3. epochs' \in [Granules -> Nat]
    BY <2>1, <2>2 DEF HeapInv, Shaped
  <2>4. Shaped' /\ NoFalseRefusal'
    BY <2>1, <2>3 DEF HeapInv, Shaped, NoFalseRefusal
  <2>5. QED
    BY <2>1, <2>4, AsideKeeps
<1>3. QED
  BY <1>1, <1>2

LEMMA AdoptKeeps ==
    ASSUME HeapInv, Adopt
    PROVE  HeapInv'
<1>1. /\ watched < REGIONS /\ watched' = watched + 1
      /\ UNCHANGED <<lock, arenas, headers, plane, epochs, pc, want, at, given, done, got,
                     caps, freed, twice, born, stopped>>
  BY DEF Adopt, registers, ghosts
<1>2. watched \in 0..REGIONS /\ REGIONS \in Nat /\ Len(arenas) \in Nat /\ Len(arenas) <= watched
  BY Lengthy DEF HeapInv, Shaped
<1>3. watched' \in 0..REGIONS /\ Len(arenas') <= watched'
  BY <1>1, <1>2
<1>4. Shaped' /\ NoFalseRefusal'
  BY <1>1, <1>3 DEF HeapInv, Shaped, NoFalseRefusal
<1>5. QED
  BY <1>1, <1>4, AsideKeeps

-----------------------------------------------------------------------------
(* Steps under the lock                                                    *)

LEMMA HolderIsAlone ==
    ASSUME HeapInv, NEW t \in Threads, lock = t
    PROVE  /\ pc[t] \in HoldPCs /\ at[t] \in Placed /\ headers[at[t]].live
           /\ \A u \in Threads \ {t} : pc[u] \notin HoldPCs
           /\ \A p : Busy(p) <=> p = at[t]
BY DEF HeapInv, Located, Posted, HoldPCs, EndPCs, Busy

LEMMA EndKeeps ==
    ASSUME HeapInv, NEW t \in Threads, End(t)
    PROVE  HeapInv'
<1>1. Running /\ pc[t] = "end" /\ lock = NoThread
  BY DEF End
<1>2. CASE Stop(given[t])
  <2>1. Blamed(given[t])
    BY <1>1, GivenIsBlamed DEF EndPCs
  <2>2. QED
    BY <1>2, <2>1, StopKeeps
<1>3. CASE ~ Stop(given[t])
  <2>1. /\ headers[at[t]].live /\ lock' = t /\ pc' = [pc EXCEPT ![t] = "fill_end"]
        /\ UNCHANGED <<arenas, watched, headers, plane, epochs, want, at, given, done, got,
                       caps, freed, twice, born, stopped>>
    BY <1>3 DEF End, Endable, Goto, registers, ghosts
  <2>2. Shaped' /\ NoFalseRefusal'
    BY <2>1 DEF HeapInv, Shaped, Labels, NoFalseRefusal
  <2>3. pc'[t] = "fill_end" /\ \A u \in Threads \ {t} : pc'[u] = pc[u]
    BY <2>1 DEF HeapInv, Shaped
  <2>4. /\ Laid' /\ Lists' /\ Versioned' /\ Placed' = Placed
        /\ \A p : Described(p)' = Described(p)
    BY <2>1, HeapStays
  <2>5. \A u \in Threads : pc[u] \notin HoldPCs /\ u # NoThread
    BY <1>1, HeapAssumption DEF HeapInv, Located, Posted
  <2>6. /\ at[t] \in Placed /\ done[t] = 0 /\ 0 < headers[at[t]].ext
    <3>1. at[t] \in Placed /\ done[t] = 0
      BY <1>1 DEF HeapInv, Located, Posted, EndPCs
    <3>2. headers[at[t]].ext \in Nat \ {0}
      BY <3>1, PlacedFacts DEF HeapInv
    <3>3. QED
      BY <3>1, <3>2
  <2>7. Located' /\ Paired'
    <3>1. Posted(t)'
      BY <1>1, <2>1, <2>3, <2>4, <2>6 DEF HeapInv, Located, Posted, HoldPCs, EndPCs
    <3>2. ASSUME NEW u \in Threads \ {t} PROVE Posted(u)'
      BY <2>1, <2>3, <2>4, <2>5 DEF HeapInv, Located, Posted
    <3>3. QED
      BY <2>1, <3>1, <3>2 DEF HeapInv, Located, Paired
  <2>8. \A p : ~ Busy(p) /\ (Busy(p)' <=> p = at[t])
    BY <1>1, <2>1, <2>5 DEF Busy
  <2>9. Painted'
    <3>1. \A p \in Placed : \A k \in 0..headers[p].ext - 1 :
            plane[Spot(p, k)] = headers[p].ver
      BY <2>8 DEF HeapInv, Painted
    <3>2. ASSUME NEW p \in Placed, NEW k \in 0..headers[p].ext - 1
          PROVE  /\ plane'[Spot(p, k)] = headers'[p].ver
                 /\ \A u \in Threads :
                      /\ pc'[u] \notin {"fill_begin", "ended"}
                      /\ pc'[u] = "fill_end" => u = t /\ ~ k < done'[u]
      BY <2>1, <2>3, <2>5, <2>6, <3>1 DEF HoldPCs
    <3>3. \A g \in Granules :
            (\A p \in Placed : g \notin Payload(p, headers[p].ext)) => plane[g] = DEAD
      BY DEF HeapInv, Painted
    <3>4. QED
      BY <2>1, <2>4, <3>2, <3>3 DEF Painted
  <2>10. Borne'
    <3>1. Described(at[t]) \in born
      BY <2>1, <2>6, <2>8 DEF HeapInv, Borne
    <3>2. \A u \in Threads : /\ pc'[u] \in {"fill_end", "ended"} => u = t
                             /\ pc'[u] # "fill_begin"
      BY <2>3, <2>5 DEF HoldPCs
    <3>3. \A p \in Placed : headers[p].live => Described(p) \in born
      BY <2>8 DEF HeapInv, Borne
    <3>4. \A c : Name(c)' = Name(c)
      BY DEF Name
    <3>5. QED
      BY <2>1, <2>4, <3>1, <3>2, <3>3, <3>4 DEF HeapInv, Borne
  <2>11. Counted'
    <3>1. Pending' = Pending
      BY <1>1, <2>3 DEF Pending
    <3>2. \A u \in Threads : pc'[u] # "fill_begin" /\ pc[u] # "fill_begin"
      BY <2>3, <2>5 DEF HoldPCs
    <3>3. QED
      BY <2>1, <3>1, <3>2 DEF HeapInv, Counted
  <2>12. Known' /\ Kept'
    <3>1. \A u \in Threads : Own(u)' = Own(u) /\ (pc'[u] = "over" <=> pc[u] = "over")
      BY <1>1, <2>1, <2>3, <2>4 DEF Own
    <3>2. \A c : Intact(c)' <=> Intact(c)
      BY <2>1 DEF Intact
    <3>3. QED
      BY <2>1, <2>4, <3>1, <3>2 DEF HeapInv, Known, Kept, Intact
  <2>13. QED
    BY <2>2, <2>4, <2>7, <2>9, <2>10, <2>11, <2>12 DEF HeapInv
<1>4. QED
  BY <1>2, <1>3

\* What the fill of one granule leaves as it was.
LEMMA FillPaints ==
    ASSUME HeapInv, NEW t \in Threads, pc[t] \in {"fill_begin", "fill_end"},
           NEW v \in Nat, plane' = [plane EXCEPT ![Spot(at[t], done[t])] = v]
    PROVE  /\ plane' \in [Granules -> Nat]
           /\ done[t] \in 0..headers[at[t]].ext - 1
           /\ \A k \in 0..headers[at[t]].ext - 1 :
                plane'[Spot(at[t], k)] = IF k = done[t] THEN v ELSE plane[Spot(at[t], k)]
           /\ \A p \in Placed \ {at[t]} : \A k \in 0..headers[p].ext - 1 :
                plane'[Spot(p, k)] = plane[Spot(p, k)]
           /\ \A g \in Granules :
                (\A p \in Placed : g \notin Payload(p, headers[p].ext)) => plane'[g] = DEAD
<1>1. Shaped /\ Laid /\ plane \in [Granules -> Nat]
  BY DEF HeapInv, Shaped
<1>2. at[t] \in Placed /\ done[t] < headers[at[t]].ext /\ done[t] \in Nat
  <2>1. Posted(t)
    BY DEF HeapInv, Located
  <2>2. at[t] \in Placed /\ done[t] < headers[at[t]].ext
    BY <2>1 DEF Posted, EndPCs
  <2>3. QED
    BY <2>2 DEF HeapInv, Shaped
<1>3. headers[at[t]].ext \in Nat /\ at[t][2] \in Nat
  BY <1>1, <1>2, PlacedFacts
<1>4. done[t] \in 0..headers[at[t]].ext - 1
  BY <1>2, <1>3
<1>5. Spot(at[t], done[t]) \in Granules
  BY <1>1, <1>2, <1>4, SpotIsAGranule
<1>6. plane' \in [Granules -> Nat]
  BY <1>1
<1>7. ASSUME NEW p \in Placed, NEW k \in 0..headers[p].ext - 1
      PROVE  plane'[Spot(p, k)] = IF p = at[t] /\ k = done[t] THEN v ELSE plane[Spot(p, k)]
  <2>1. Spot(p, k) \in Granules
    BY <1>1, SpotIsAGranule
  <2>2. Spot(p, k) = Spot(at[t], done[t]) => p = at[t] /\ k = done[t]
    BY <1>1, <1>2, <1>4, PayloadsApart
  <2>3. QED
    BY <1>1, <1>5, <2>1, <2>2
<1>8. ASSUME NEW g \in Granules, \A p \in Placed : g \notin Payload(p, headers[p].ext)
      PROVE  plane'[g] = DEAD
  <2>1. Spot(at[t], done[t]) \in Payload(at[t], headers[at[t]].ext)
    BY <1>3, <1>4, InPayload
  <2>2. g # Spot(at[t], done[t])
    BY <1>2, <1>8, <2>1
  <2>3. plane[g] = DEAD
    BY <1>8 DEF HeapInv, Painted
  <2>4. QED
    BY <1>1, <2>2, <2>3
<1>9. QED
  BY <1>2, <1>4, <1>6, <1>7, <1>8

LEMMA FillBeginOn ==
    ASSUME HeapInv, NEW t \in Threads, FillBegin(t), done[t] + 1 # headers[at[t]].ext
    PROVE  HeapInv'
<1> DEFINE v == headers[at[t]].ver
<1>1. /\ Running /\ pc[t] = "fill_begin"
      /\ plane' = [plane EXCEPT ![Spot(at[t], done[t])] = v]
      /\ done' = [done EXCEPT ![t] = done[t] + 1]
      /\ UNCHANGED <<lock, arenas, watched, headers, epochs, pc, want, at, given, got,
                     caps, freed, twice, born, stopped>>
  BY DEF FillBegin, Spot
<1>2. lock = t /\ at[t] \in Placed
  BY <1>1 DEF HeapInv, Located, Posted, HoldPCs
<1>3. headers[at[t]].ext \in Nat /\ v \in Nat
  BY <1>2, PlacedFacts DEF HeapInv
<1>4. /\ plane' \in [Granules -> Nat]
      /\ done[t] \in 0..headers[at[t]].ext - 1
      /\ \A k \in 0..headers[at[t]].ext - 1 :
           plane'[Spot(at[t], k)] = IF k = done[t] THEN v ELSE plane[Spot(at[t], k)]
      /\ \A p \in Placed \ {at[t]} : \A k \in 0..headers[p].ext - 1 :
           plane'[Spot(p, k)] = plane[Spot(p, k)]
      /\ \A g \in Granules :
           (\A p \in Placed : g \notin Payload(p, headers[p].ext)) => plane'[g] = DEAD
  BY <1>1, <1>3, FillPaints
<1>5. done'[t] = done[t] + 1 /\ \A u \in Threads \ {t} : done'[u] = done[u]
  BY <1>1 DEF HeapInv, Shaped
<1>6. done[t] + 1 < headers[at[t]].ext
  BY <1>3, <1>4
<1>7. Shaped' /\ NoFalseRefusal'
  BY <1>1, <1>4 DEF HeapInv, Shaped, NoFalseRefusal
<1>8. /\ Laid' /\ Lists' /\ Versioned' /\ Placed' = Placed
      /\ \A p : Described(p)' = Described(p)
  BY <1>1, HeapStays
<1>9. \A u \in Threads \ {t} : pc[u] \notin HoldPCs
  BY <1>2, HolderIsAlone
<1>10. Located' /\ Paired'
  <2>1. Posted(t)'
    BY <1>1, <1>2, <1>5, <1>6, <1>8 DEF HeapInv, Located, Posted, HoldPCs, EndPCs
  <2>2. ASSUME NEW u \in Threads \ {t} PROVE Posted(u)'
    BY <1>1, <1>5, <1>8 DEF HeapInv, Located, Posted
  <2>3. QED
    BY <1>1, <2>1, <2>2 DEF HeapInv, Located, Paired
<1>11. \A p : Busy(p)' <=> Busy(p)
  BY <1>1 DEF Busy
<1>12. Painted'
  <2>1. ASSUME NEW p \in Placed, NEW k \in 0..headers[p].ext - 1
        PROVE  /\ ~ Busy(p) => plane'[Spot(p, k)] = headers[p].ver
               /\ \A u \in Threads : at[u] = p =>
                    /\ pc[u] = "fill_begin" =>
                         IF k < done'[u] THEN plane'[Spot(p, k)] = headers[p].ver
                                         ELSE ~ owned(plane'[Spot(p, k)])
                    /\ pc[u] \notin {"fill_end", "ended"}
    <3>1. CASE p # at[t]
      BY <1>1, <1>4, <1>9, <3>1 DEF HeapInv, Painted, HoldPCs
    <3>2. CASE p = at[t]
      <4>1. Busy(p)
        BY <1>2, <3>2 DEF Busy
      <4>2. IF k < done[t] THEN plane[Spot(p, k)] = headers[p].ver
                           ELSE ~ owned(plane[Spot(p, k)])
        BY <1>1, <3>2 DEF HeapInv, Painted
      <4>3. plane'[Spot(p, k)] = IF k = done[t] THEN v ELSE plane[Spot(p, k)]
        BY <1>4, <3>2
      <4>4. k \in Nat /\ done[t] \in Nat
        BY <1>3, <1>4, <3>2
      <4>5. IF k < done'[t] THEN plane'[Spot(p, k)] = headers[p].ver
                            ELSE ~ owned(plane'[Spot(p, k)])
        BY <1>5, <3>2, <4>2, <4>3, <4>4
      <4>6. QED
        BY <1>1, <1>9, <4>1, <4>5 DEF HoldPCs
    <3>3. QED
      BY <3>1, <3>2
  <2>2. QED
    BY <1>1, <1>4, <1>8, <1>11, <2>1 DEF Painted
<1>13. Borne'
  <2>1. \A d : Name(d)' = Name(d)
    BY DEF Name
  <2>2. QED
    BY <1>1, <1>8, <1>11, <2>1 DEF HeapInv, Borne
<1>14. Counted' /\ Known' /\ Kept'
  <2>1. Pending' = Pending
    BY <1>1 DEF Pending
  <2>2. \A d : Intact(d)' <=> Intact(d)
    BY <1>1 DEF Intact
  <2>3. \A u : Own(u)' = Own(u)
    BY <1>1, <1>8 DEF Own
  <2>4. QED
    BY <1>1, <1>8, <2>1, <2>2, <2>3 DEF HeapInv, Counted, Known, Kept, Intact
<1>15. QED
  BY <1>7, <1>8, <1>10, <1>12, <1>13, <1>14 DEF HeapInv

LEMMA FillBeginLast ==
    ASSUME HeapInv, NEW t \in Threads, FillBegin(t), done[t] + 1 = headers[at[t]].ext
    PROVE  HeapInv'
<1> DEFINE v == headers[at[t]].ver
           new == Described(at[t])
<1>1. /\ Running /\ pc[t] = "fill_begin"
      /\ plane' = [plane EXCEPT ![Spot(at[t], done[t])] = v]
      /\ done' = [done EXCEPT ![t] = 0]
      /\ lock' = NoThread /\ born' = born \cup {new}
      /\ pc' = [pc EXCEPT ![t] = "begun"]
      /\ UNCHANGED <<arenas, watched, headers, epochs, want, at, given, got,
                     caps, freed, twice, stopped>>
  BY DEF FillBegin, Spot, Described, Goto
<1>2. lock = t /\ at[t] \in Placed /\ headers[at[t]].live /\ NoThread \notin Threads
  BY <1>1, HeapAssumption DEF HeapInv, Located, Posted, HoldPCs
<1>3. /\ headers[at[t]].ext \in Nat /\ v \in Nat /\ at[t] \in Granules
      /\ headers[at[t]].ext \in Sizes /\ at[t][1] \in DOMAIN arenas
  BY <1>2, PlacedFacts DEF HeapInv
<1>4. /\ plane' \in [Granules -> Nat]
      /\ done[t] \in 0..headers[at[t]].ext - 1
      /\ \A k \in 0..headers[at[t]].ext - 1 :
           plane'[Spot(at[t], k)] = IF k = done[t] THEN v ELSE plane[Spot(at[t], k)]
      /\ \A p \in Placed \ {at[t]} : \A k \in 0..headers[p].ext - 1 :
           plane'[Spot(p, k)] = plane[Spot(p, k)]
      /\ \A g \in Granules :
           (\A p \in Placed : g \notin Payload(p, headers[p].ext)) => plane'[g] = DEAD
  BY <1>1, <1>3, FillPaints
<1>5. /\ done'[t] = 0 /\ pc'[t] = "begun"
      /\ \A u \in Threads \ {t} : done'[u] = done[u] /\ pc'[u] = pc[u]
  BY <1>1 DEF HeapInv, Shaped
<1>6. Shaped' /\ NoFalseRefusal'
  BY <1>1, <1>4 DEF HeapInv, Shaped, NoFalseRefusal, Labels
<1>7. /\ Laid' /\ Lists' /\ Versioned' /\ Placed' = Placed
      /\ \A p : Described(p)' = Described(p)
  BY <1>1, HeapStays
<1>8. (\A u \in Threads \ {t} : pc[u] \notin HoldPCs) /\ (\A p : Busy(p) <=> p = at[t])
  BY <1>2, HolderIsAlone
<1>9. Located' /\ Paired'
  <2>1. Posted(t)'
    BY <1>1, <1>2, <1>5, <1>7 DEF HeapInv, Located, Posted, HoldPCs, EndPCs
  <2>2. ASSUME NEW u \in Threads \ {t} PROVE Posted(u)'
    BY <1>1, <1>2, <1>5, <1>7, <1>8 DEF HeapInv, Located, Posted
  <2>3. QED
    BY <1>1, <2>1, <2>2 DEF HeapInv, Located, Paired
<1>10. \A u \in Threads : pc'[u] \notin HoldPCs
  BY <1>5, <1>8 DEF HoldPCs
<1>11. Painted'
  <2>1. ASSUME NEW p \in Placed, NEW k \in 0..headers[p].ext - 1
        PROVE  plane'[Spot(p, k)] = headers[p].ver
    <3>1. CASE p # at[t]
      BY <1>4, <1>8, <3>1 DEF HeapInv, Painted
    <3>2. CASE p = at[t]
      <4>1. IF k < done[t] THEN plane[Spot(p, k)] = headers[p].ver
                           ELSE ~ owned(plane[Spot(p, k)])
        BY <1>1, <3>2 DEF HeapInv, Painted
      <4>2. plane'[Spot(p, k)] = IF k = done[t] THEN v ELSE plane[Spot(p, k)]
        BY <1>4, <3>2
      <4>3. k = done[t] \/ k < done[t]
        BY <1>3, <1>4, <3>2
      <4>4. QED
        BY <3>2, <4>1, <4>2, <4>3
    <3>3. QED
      BY <3>1, <3>2
  <2>2. QED
    BY <1>1, <1>4, <1>7, <1>10, <2>1 DEF Painted, HoldPCs
<1>12. new \in Cap /\ new.at = at[t] /\ new.ver = v
  BY <1>3 DEF Described, Cap
<1>13. /\ \A c \in born : Name(c) # Name(new)
       /\ new \notin born
  <2>1. \A c \in born : Name(c) # Name(new)
    BY <1>1, <1>12 DEF HeapInv, Borne, Name
  <2>2. QED
    BY <2>1
<1>14. Borne'
  <2>1. \A d : Name(d)' = Name(d)
    BY DEF Name
  <2>2. /\ new.at[1] \in DOMAIN arenas /\ new.ver % 2 = 0
        /\ number(new.ver) \in 1..arenas[new.at[1]].count - 1
    BY <1>2, <1>3, <1>12 DEF HeapInv, Versioned
  <2>3. \A c \in born' : /\ c.at[1] \in DOMAIN arenas
                         /\ c.ver % 2 = 0 /\ number(c.ver) \in 1..arenas[c.at[1]].count - 1
    BY <1>1, <2>2 DEF HeapInv, Borne
  <2>4. \A c, d \in born' : Name(c) = Name(d) => c = d
    BY <1>1, <1>13 DEF HeapInv, Borne
  <2>5. born' \subseteq Cap
    BY <1>1, <1>12 DEF HeapInv, Borne
  <2>6. \A p \in Placed : headers[p].live => Described(p) \in born'
    BY <1>1, <1>8 DEF HeapInv, Borne
  <2>7. QED
    BY <1>1, <1>7, <1>10, <2>1, <2>3, <2>4, <2>5, <2>6 DEF Borne, HoldPCs
<1>15. Counted'
  <2>1. IsFiniteSet(born) /\ IsFiniteSet(Threads) /\ IsFiniteSet(Pending)
    BY HeapAssumption, FS_Subset DEF HeapInv, Counted, Pending
  <2>2. t \in Pending /\ Pending' = Pending \ {t}
    BY <1>1, <1>5 DEF Pending
  <2>3. IsFiniteSet(born') /\ Cardinality(born') = Cardinality(born) + 1
    BY <1>1, <1>13, <2>1, FS_AddElement
  <2>4. Cardinality(Pending') = Cardinality(Pending) - 1
    BY <2>1, <2>2, FS_RemoveElement
  <2>5. Cardinality(born) \in Nat /\ Cardinality(Pending) \in Nat
    BY <2>1, FS_CardinalityType
  <2>6. Cardinality(born') + Cardinality(Pending') <= BEGINS + Cardinality(Threads)
    <3>1. Cardinality(born) + Cardinality(Pending) <= BEGINS + Cardinality(Threads)
      BY DEF HeapInv, Counted
    <3>2. Cardinality(born') + Cardinality(Pending') = Cardinality(born) + Cardinality(Pending)
      BY <2>3, <2>4, <2>5
    <3>3. QED
      BY <3>1, <3>2
  <2>7. ASSUME NEW a \in DOMAIN arenas
        PROVE  arenas[a].count - 1 <= Cardinality(born')
    <3>1. arenas[a].count - 1 <= Cardinality(born) + 1
      <4>1. arenas[a].count - 1 <= Cardinality(born) +
              IF \E u \in Threads : pc[u] = "fill_begin" /\ at[u][1] = a THEN 1 ELSE 0
        BY DEF HeapInv, Counted
      <4>2. arenas[a].count \in Nat
        BY ArenaFacts DEF HeapInv
      <4>3. QED
        BY <2>5, <4>1, <4>2
    <3>2. QED
      BY <2>3, <3>1
  <2>8. \A u \in Threads : pc'[u] # "fill_begin"
    BY <1>10 DEF HoldPCs
  <2>9. Cardinality(born') + 0 = Cardinality(born')
    BY <2>3, <2>5
  <2>10. QED
    BY <1>1, <2>3, <2>6, <2>7, <2>8, <2>9 DEF Counted
<1>16. Known' /\ Kept'
  <2>1. \A d : Intact(d)' <=> Intact(d)
    BY <1>1 DEF Intact
  <2>2. \A u \in Threads : Own(u)' = Own(u) /\ (pc'[u] = "over" <=> pc[u] = "over")
    BY <1>1, <1>5, <1>7 DEF Own
  <2>3. QED
    BY <1>1, <1>7, <2>1, <2>2 DEF HeapInv, Known, Kept, Intact
<1>17. QED
  BY <1>6, <1>7, <1>9, <1>11, <1>14, <1>15, <1>16 DEF HeapInv

LEMMA FillEndKeeps ==
    ASSUME HeapInv, NEW t \in Threads, FillEnd(t)
    PROVE  HeapInv'
<1> DEFINE v == ended(headers[at[t]].ver)
           last == done[t] + 1 = headers[at[t]].ext
<1>1. /\ Running /\ pc[t] = "fill_end"
      /\ plane' = [plane EXCEPT ![Spot(at[t], done[t])] = v]
      /\ done' = [done EXCEPT ![t] = IF last THEN 0 ELSE done[t] + 1]
      /\ pc' = IF last THEN [pc EXCEPT ![t] = "ended"] ELSE pc
      /\ UNCHANGED <<lock, arenas, watched, headers, epochs, want, at, given, got,
                     caps, freed, twice, born, stopped>>
  BY DEF FillEnd, Spot, Goto, ghosts
<1>2. lock = t /\ at[t] \in Placed /\ headers[at[t]].live
  BY <1>1 DEF HeapInv, Located, Posted, HoldPCs, EndPCs
<1>3. headers[at[t]].ext \in Nat /\ headers[at[t]].ver \in Nat /\ v \in Nat
  BY <1>2, PlacedFacts DEF HeapInv, ended
<1>4. /\ plane' \in [Granules -> Nat]
      /\ done[t] \in 0..headers[at[t]].ext - 1
      /\ \A k \in 0..headers[at[t]].ext - 1 :
           plane'[Spot(at[t], k)] = IF k = done[t] THEN v ELSE plane[Spot(at[t], k)]
      /\ \A p \in Placed \ {at[t]} : \A k \in 0..headers[p].ext - 1 :
           plane'[Spot(p, k)] = plane[Spot(p, k)]
      /\ \A g \in Granules :
           (\A p \in Placed : g \notin Payload(p, headers[p].ext)) => plane'[g] = DEAD
  BY <1>1, <1>3, FillPaints
<1>5. /\ done'[t] = IF last THEN 0 ELSE done[t] + 1
      /\ pc'[t] = IF last THEN "ended" ELSE "fill_end"
      /\ \A u \in Threads \ {t} : done'[u] = done[u] /\ pc'[u] = pc[u]
  BY <1>1 DEF HeapInv, Shaped
<1>6. ~ last => done'[t] < headers[at[t]].ext
  BY <1>3, <1>4, <1>5
<1>7. Shaped' /\ NoFalseRefusal'
  <2>1. done' \in [Threads -> Nat] /\ pc' \in [Threads -> Labels]
    BY <1>1 DEF HeapInv, Shaped, Labels
  <2>2. QED
    BY <1>1, <1>4, <2>1 DEF HeapInv, Shaped, NoFalseRefusal
<1>8. /\ Laid' /\ Lists' /\ Versioned' /\ Placed' = Placed
      /\ \A p : Described(p)' = Described(p)
  BY <1>1, HeapStays
<1>9. (\A u \in Threads \ {t} : pc[u] \notin HoldPCs) /\ (\A p : Busy(p) <=> p = at[t])
  BY <1>2, HolderIsAlone
<1>10. Located' /\ Paired'
  <2>1. Posted(t)'
    <3>1. Posted(t)
      BY DEF HeapInv, Located
    <3>2. QED
      BY <1>1, <1>2, <1>5, <1>6, <1>8, <3>1 DEF Posted, HoldPCs, EndPCs
  <2>2. ASSUME NEW u \in Threads \ {t} PROVE Posted(u)'
    BY <1>1, <1>5, <1>8 DEF HeapInv, Located, Posted
  <2>3. QED
    BY <1>1, <2>1, <2>2 DEF HeapInv, Located, Paired
<1>11. \A p : Busy(p)' <=> Busy(p)
  BY <1>1 DEF Busy
<1>12. Painted'
  <2>1. ASSUME NEW p \in Placed, NEW k \in 0..headers[p].ext - 1
        PROVE  /\ ~ Busy(p) => plane'[Spot(p, k)] = headers[p].ver
               /\ \A u \in Threads : at[u] = p =>
                    /\ pc'[u] # "fill_begin"
                    /\ pc'[u] = "fill_end" =>
                         plane'[Spot(p, k)] = IF k < done'[u] THEN ended(headers[p].ver)
                                                              ELSE headers[p].ver
                    /\ pc'[u] = "ended" => plane'[Spot(p, k)] = ended(headers[p].ver)
    <3>1. CASE p # at[t]
      BY <1>1, <1>4, <1>5, <1>9, <3>1 DEF HeapInv, Painted, HoldPCs
    <3>2. CASE p = at[t]
      <4>1. Busy(p)
        BY <1>9, <3>2
      <4>2. plane[Spot(p, k)] = IF k < done[t] THEN v ELSE headers[p].ver
        BY <1>1, <3>2 DEF HeapInv, Painted
      <4>3. plane'[Spot(p, k)] = IF k = done[t] THEN v ELSE plane[Spot(p, k)]
        BY <1>4, <3>2
      <4>4. k \in Nat /\ done[t] \in Nat /\ k < headers[p].ext
        BY <1>3, <1>4, <3>2
      <4>5. last => plane'[Spot(p, k)] = v
        BY <1>3, <3>2, <4>2, <4>3, <4>4
      <4>6. plane'[Spot(p, k)] = IF k < done[t] + 1 THEN v ELSE headers[p].ver
        BY <4>2, <4>3, <4>4
      <4>7. QED
        BY <1>5, <1>9, <3>2, <4>1, <4>5, <4>6 DEF HoldPCs
    <3>3. QED
      BY <3>1, <3>2
  <2>2. QED
    BY <1>1, <1>4, <1>8, <1>11, <2>1 DEF Painted
<1>13. Borne'
  <2>1. \A d : Name(d)' = Name(d)
    BY DEF Name
  <2>2. \A u \in Threads : /\ pc'[u] \in {"fill_end", "ended"} => Described(at[u]) \in born
                           /\ pc'[u] # "fill_begin"
    BY <1>1, <1>5, <1>9 DEF HeapInv, Borne, HoldPCs
  <2>3. QED
    BY <1>1, <1>8, <1>11, <2>1, <2>2 DEF HeapInv, Borne
<1>14. Counted' /\ Known' /\ Kept'
  <2>1. Pending' = Pending
    BY <1>1, <1>5 DEF Pending
  <2>2. \A u \in Threads : pc'[u] # "fill_begin" /\ pc[u] # "fill_begin"
    BY <1>1, <1>5, <1>9 DEF HoldPCs
  <2>3. \A d : Intact(d)' <=> Intact(d)
    BY <1>1 DEF Intact
  <2>4. \A u \in Threads : Own(u)' = Own(u) /\ (pc'[u] = "over" <=> pc[u] = "over")
    BY <1>1, <1>5, <1>8 DEF Own
  <2>5. Counted'
    BY <1>1, <2>1, <2>2 DEF HeapInv, Counted
  <2>6. Known' /\ Kept'
    BY <1>1, <1>8, <2>3, <2>4 DEF HeapInv, Known, Kept, Intact
  <2>7. QED
    BY <2>5, <2>6
<1>15. QED
  BY <1>7, <1>8, <1>10, <1>12, <1>13, <1>14 DEF HeapInv

\* A list and the list with one more in front.
LEMMA PushFacts ==
    ASSUME NEW list \in Seq(Nat), NEW n \in Nat
    PROVE  /\ <<n>> \o list \in Seq(Nat)
           /\ \A i \in DOMAIN (<<n>> \o list) :
                \/ i = 1 /\ (<<n>> \o list)[i] = n
                \/ i - 1 \in DOMAIN list /\ (<<n>> \o list)[i] = list[i - 1] /\ i # 1
           /\ 1 \in DOMAIN (<<n>> \o list) /\ (<<n>> \o list)[1] = n
           /\ \A i \in DOMAIN list :
                i + 1 \in DOMAIN (<<n>> \o list) /\ (<<n>> \o list)[i + 1] = list[i]
           /\ \A i \in DOMAIN (<<n>> \o list) : i \in Nat
<1> DEFINE longer == <<n>> \o list
<1>1. /\ Len(list) \in Nat /\ DOMAIN list = 1..Len(list)
      /\ DOMAIN longer = 1..Len(list) + 1
      /\ longer \in Seq(Nat)
      /\ longer[1] = n
  OBVIOUS
<1>2. ASSUME NEW i \in 1..Len(list) + 1, i # 1
      PROVE  i - 1 \in 1..Len(list) /\ longer[i] = list[i - 1]
  BY <1>1, <1>2
<1>3. ASSUME NEW i \in 1..Len(list)
      PROVE  i + 1 \in 1..Len(list) + 1 /\ longer[i + 1] = list[i]
  BY <1>1, <1>3
<1> HIDE DEF longer
<1>4. \A i \in DOMAIN longer : \/ i = 1 /\ longer[i] = n
                               \/ i - 1 \in DOMAIN list /\ longer[i] = list[i - 1] /\ i # 1
  BY <1>1, <1>2
<1>5. \A i \in DOMAIN list : i + 1 \in DOMAIN longer /\ longer[i + 1] = list[i]
  BY <1>1, <1>3
<1>6. 1 \in DOMAIN longer /\ \A i \in DOMAIN longer : i \in Nat
  BY <1>1
<1>7. QED
  BY <1>1, <1>4, <1>5, <1>6 DEF longer

LEMMA ListReplaced ==
    ASSUME NEW old \in Arena, NEW s \in Sizes, NEW list \in Seq(Nat)
    PROVE  LET arena == [old EXCEPT !.free[s] = list] IN
           /\ arena \in Arena /\ arena.len = old.len /\ arena.next = old.next
           /\ arena.count = old.count
           /\ arena.free = [old.free EXCEPT ![s] = list]
<1> DEFINE arena == [old EXCEPT !.free[s] = list]
           free == [old.free EXCEPT ![s] = list]
<1>1. old.free \in [Sizes -> Seq(Nat)] /\ old.len \in Nat /\ old.next \in Nat /\ old.count \in Nat
  BY DEF Arena
<1>2. free \in [Sizes -> Seq(Nat)]
  BY <1>1
<1>3. arena = [old EXCEPT !.free = free]
  BY <1>1 DEF Arena
<1>4. QED
  <2>1. ASSUME NEW f \in [Sizes -> Seq(Nat)]
        PROVE  LET new == [old EXCEPT !.free = f] IN
               /\ new.len = old.len /\ new.next = old.next /\ new.count = old.count
               /\ new.free = f
               /\ new \in Arena
    BY <1>1 DEF Arena
  <2>2. QED
    BY <1>2, <1>3, <2>1

\* The arenas and headers after t has ended the instance at its block.
EndsAt(t, p) ==
    /\ Running /\ pc[t] = "ended" /\ lock = t /\ p = at[t] /\ p \in Placed
    /\ headers[p].live
    /\ headers' \in [Granules -> Header]
    /\ headers'[p].ext = headers[p].ext /\ headers'[p].ver = ended(headers[p].ver)
    /\ ~ headers'[p].live
    /\ \A q \in Granules \ {p} : headers'[q] = headers[q]
    /\ Placed' = Placed
    /\ \A q \in Placed : headers'[q].ext = headers[q].ext
    /\ arenas' \in Seq(Arena) /\ Len(arenas') = Len(arenas) /\ DOMAIN arenas' = DOMAIN arenas
    /\ \A a \in DOMAIN arenas : /\ arenas'[a].len = arenas[a].len
                                /\ arenas'[a].next = arenas[a].next
                                /\ arenas'[a].count = arenas[a].count
    /\ \A a \in DOMAIN arenas : \A s \in Sizes :
         arenas'[a].free[s] = IF a = p[1] /\ s = headers[p].ext
                                THEN <<p[2]>> \o arenas[a].free[s] ELSE arenas[a].free[s]
    /\ lock' = NoThread
    /\ pc' \in [Threads -> Labels] /\ pc'[t] = "over"
    /\ want' \in [Threads -> Sizes \cup {0}] /\ want'[t] = headers[p].ext
    /\ done' \in [Threads -> Nat]
    /\ \A u \in Threads \ {t} : pc'[u] = pc[u] /\ want'[u] = want[u] /\ done'[u] = done[u]
    /\ UNCHANGED <<watched, plane, epochs, at, given, got, caps, freed, twice, born, stopped>>

LEMMA EndedEnds ==
    ASSUME HeapInv, NEW t \in Threads, Ended(t)
    PROVE  EndsAt(t, at[t])
<1> DEFINE p == at[t]
           head == headers[p]
<1>1. /\ Running /\ pc[t] = "ended"
      /\ headers' = [headers EXCEPT ![p] =
                       [ext |-> head.ext, ver |-> ended(head.ver), live |-> FALSE]]
      /\ arenas' = [arenas EXCEPT ![p[1]].free[head.ext] =
                       <<p[2]>> \o arenas[p[1]].free[head.ext]]
      /\ lock' = NoThread
      /\ done' = [done EXCEPT ![t] = head.ver] /\ want' = [want EXCEPT ![t] = head.ext]
      /\ pc' = [pc EXCEPT ![t] = "over"]
      /\ UNCHANGED <<watched, plane, epochs, at, given, got, caps, freed, twice, born, stopped>>
  BY DEF Ended, Goto, ghosts
<1>2. lock = t /\ p \in Placed /\ head.live
  <2>1. Posted(t)
    BY DEF HeapInv, Located
  <2>2. QED
    BY <1>1, <2>1 DEF Posted, HoldPCs, EndPCs
<1>3. /\ p \in Granules /\ p[1] \in DOMAIN arenas /\ p[2] \in Nat
      /\ head.ext \in Sizes /\ head.ext \in Nat \ {0} /\ head.ver \in Nat
  BY <1>2, PlacedFacts DEF HeapInv
<1>4. ended(head.ver) \in Nat
  BY <1>3 DEF ended
<1>5. headers \in [Granules -> Header] /\ arenas \in Seq(Arena)
  BY DEF HeapInv, Shaped
<1>6. /\ headers' \in [Granules -> Header]
      /\ headers'[p] = [ext |-> head.ext, ver |-> ended(head.ver), live |-> FALSE]
      /\ \A q \in Granules \ {p} : headers'[q] = headers[q]
  <2>1. [ext |-> head.ext, ver |-> ended(head.ver), live |-> FALSE] \in Header
    BY <1>3, <1>4 DEF Header
  <2>2. QED
    BY <1>1, <1>3, <1>5, <2>1
<1>7. /\ headers'[p].ext = head.ext /\ headers'[p].ver = ended(head.ver)
      /\ ~ headers'[p].live
  BY <1>6
<1>8. Placed' = Placed
  <2>1. headers'[p] # NoHeader
    BY <1>3, <1>7 DEF NoHeader
  <2>2. QED
    BY <1>2, <1>6, <2>1 DEF Placed
<1>9. \A q \in Placed : headers'[q].ext = headers[q].ext
  BY <1>6, <1>7 DEF Placed
<1> DEFINE old == arenas[p[1]]
           list == <<p[2]>> \o old.free[head.ext]
           arena == [old EXCEPT !.free[head.ext] = list]
<1>10. old \in Arena /\ old.free \in [Sizes -> Seq(Nat)] /\ old.free[head.ext] \in Seq(Nat)
  BY <1>3, ArenaFacts DEF HeapInv
<1>11. list \in Seq(Nat)
  BY <1>3, <1>10, PushFacts
<1>12. /\ arena \in Arena /\ arena.len = old.len /\ arena.next = old.next
       /\ arena.count = old.count
       /\ arena.free = [old.free EXCEPT ![head.ext] = list]
  <2>1. ASSUME NEW l \in Seq(Nat), NEW o \in Arena, NEW s \in Sizes
        PROVE  LET new == [o EXCEPT !.free[s] = l] IN
               /\ new \in Arena /\ new.len = o.len /\ new.next = o.next
               /\ new.count = o.count
               /\ new.free = [o.free EXCEPT ![s] = l]
    BY ListReplaced
  <2> HIDE DEF old, list
  <2>2. QED
    BY <1>3, <1>10, <1>11, <2>1
<1>13. arenas' = [arenas EXCEPT ![p[1]] = arena]
  BY <1>1
<1>14. /\ arenas' \in Seq(Arena) /\ Len(arenas') = Len(arenas) /\ DOMAIN arenas' = DOMAIN arenas
       /\ arenas'[p[1]] = arena
       /\ \A a \in DOMAIN arenas : a # p[1] => arenas'[a] = arenas[a]
  BY <1>3, <1>5, <1>12, <1>13
<1>15. \A a \in DOMAIN arenas : /\ arenas'[a].len = arenas[a].len
                                /\ arenas'[a].next = arenas[a].next
                                /\ arenas'[a].count = arenas[a].count
  BY <1>12, <1>14
<1>16. \A s \in Sizes : arena.free[s] = IF s = head.ext THEN list ELSE old.free[s]
  BY <1>3, <1>10, <1>12
<1>17. \A a \in DOMAIN arenas : \A s \in Sizes :
         arenas'[a].free[s] = IF a = p[1] /\ s = head.ext
                                THEN <<p[2]>> \o arenas[a].free[s] ELSE arenas[a].free[s]
  BY <1>14, <1>16
<1>18. /\ pc' \in [Threads -> Labels] /\ pc'[t] = "over"
       /\ want' \in [Threads -> Sizes \cup {0}] /\ want'[t] = head.ext
       /\ done' \in [Threads -> Nat]
       /\ \A u \in Threads \ {t} : pc'[u] = pc[u] /\ want'[u] = want[u] /\ done'[u] = done[u]
  BY <1>1, <1>3 DEF HeapInv, Shaped, Labels
<1>19. QED
  BY <1>1, <1>2, <1>6, <1>7, <1>8, <1>9, <1>14, <1>15, <1>17, <1>18 DEF EndsAt

LEMMA EndsShaped ==
    ASSUME HeapInv, NEW t \in Threads, NEW p, EndsAt(t, p)
    PROVE  Shaped' /\ Located' /\ Paired' /\ NoFalseRefusal'
<1>1. /\ lock = t /\ p = at[t] /\ pc[t] = "ended" /\ lock' = NoThread /\ NoThread \notin Threads
      /\ UNCHANGED <<watched, plane, epochs, at, given, got, caps, freed, twice, born, stopped>>
      /\ Placed' = Placed /\ pc'[t] = "over" /\ want'[t] = headers[p].ext
      /\ \A u \in Threads \ {t} : pc'[u] = pc[u] /\ want'[u] = want[u] /\ done'[u] = done[u]
      /\ \A q \in Placed : headers'[q].ext = headers[q].ext
  BY HeapAssumption DEF EndsAt
<1>2. Shaped' /\ NoFalseRefusal'
  BY <1>1 DEF EndsAt, HeapInv, Shaped, NoFalseRefusal
<1>3. \A u \in Threads \ {t} : pc[u] \notin HoldPCs
  BY <1>1, HolderIsAlone
<1>4. Posted(t)'
  <2>1. Posted(t)
    BY DEF HeapInv, Located
  <2>2. QED
    BY <1>1, <2>1 DEF Posted, HoldPCs, EndPCs
<1>5. ASSUME NEW u \in Threads \ {t} PROVE Posted(u)'
  <2>1. Posted(u) /\ pc[u] \notin HoldPCs
    BY <1>3 DEF HeapInv, Located
  <2>2. pc[u] = "over" => at[u] \in Placed
    BY <2>1 DEF Posted, EndPCs
  <2>3. QED
    BY <1>1, <2>1, <2>2 DEF Posted, HoldPCs
<1>6. Located'
  BY <1>4, <1>5 DEF Located
<1>7. Paired'
  BY <1>1 DEF HeapInv, Paired
<1>8. QED
  BY <1>2, <1>6, <1>7

LEMMA EndsLaid ==
    ASSUME HeapInv, NEW t \in Threads, NEW p, EndsAt(t, p)
    PROVE  Laid'
<1>1. /\ Placed' = Placed /\ DOMAIN arenas' = DOMAIN arenas
      /\ \A q \in Placed : headers'[q].ext = headers[q].ext
      /\ \A a \in DOMAIN arenas : arenas'[a].len = arenas[a].len /\ arenas'[a].next = arenas[a].next
  BY DEF EndsAt
<1>2. \A q \in Placed : Lo(q)' = Lo(q) /\ Hi(q)' = Hi(q)
  BY <1>1 DEF Lo, Hi
<1>3. QED
  BY <1>1, <1>2 DEF HeapInv, Laid

LEMMA EndsLists ==
    ASSUME HeapInv, NEW t \in Threads, NEW p, EndsAt(t, p)
    PROVE  Lists'
<1> DEFINE size == headers[p].ext
           list == arenas[p[1]].free[size]
           longer == arenas'[p[1]].free[size]
<1>1. /\ p \in Placed /\ headers[p].live /\ ~ headers'[p].live
      /\ Placed' = Placed /\ DOMAIN arenas' = DOMAIN arenas
      /\ \A q \in Placed : headers'[q].ext = headers[q].ext
      /\ \A q \in Placed \ {p} : headers'[q] = headers[q]
      /\ \A a \in DOMAIN arenas : \A s \in Sizes :
           a # p[1] \/ s # size => arenas'[a].free[s] = arenas[a].free[s]
  BY DEF EndsAt, Placed
<1>2. p[1] \in DOMAIN arenas /\ p[2] \in Nat /\ size \in Sizes /\ p = <<p[1], p[2]>>
  BY <1>1, PlacedFacts DEF HeapInv
<1>3. list \in Seq(Nat) /\ longer = <<p[2]>> \o list
  <2>1. list \in Seq(Nat)
    BY <1>2, ArenaFacts DEF HeapInv
  <2>2. longer = <<p[2]>> \o list
    BY <1>2 DEF EndsAt
  <2>3. QED
    BY <2>1, <2>2
<1>4. /\ \A i \in DOMAIN longer : \/ i = 1 /\ longer[i] = p[2]
                                  \/ i - 1 \in DOMAIN list /\ longer[i] = list[i - 1] /\ i # 1
      /\ 1 \in DOMAIN longer /\ longer[1] = p[2]
      /\ \A i \in DOMAIN list : i + 1 \in DOMAIN longer /\ longer[i + 1] = list[i]
      /\ \A i \in DOMAIN longer : i \in Nat
  <2> DEFINE pushed == <<p[2]>> \o list
  <2>1. \A i \in DOMAIN pushed : \/ i = 1 /\ pushed[i] = p[2]
                                 \/ i - 1 \in DOMAIN list /\ pushed[i] = list[i - 1] /\ i # 1
    BY <1>2, <1>3, PushFacts, ZenonT(60)
  <2>2. 1 \in DOMAIN pushed /\ pushed[1] = p[2]
    BY <1>2, <1>3, PushFacts
  <2>3. \A i \in DOMAIN list : i + 1 \in DOMAIN pushed /\ pushed[i + 1] = list[i]
    BY <1>2, <1>3, PushFacts
  <2>4. \A i \in DOMAIN pushed : i \in Nat
    BY <1>2, <1>3, PushFacts
  <2>5. longer = pushed
    BY <1>3
  <2> HIDE DEF pushed, longer
  <2>6. QED
    BY <2>1, <2>2, <2>3, <2>4, <2>5
<1>5. ASSUME NEW a \in DOMAIN arenas, NEW s \in Sizes, NEW i \in DOMAIN arenas[a].free[s]
      PROVE  LET q == <<a, arenas[a].free[s][i]>> IN
             q # p /\ q \in Placed /\ headers'[q].ext = s /\ ~ headers'[q].live
  <2> DEFINE q == <<a, arenas[a].free[s][i]>>
  <2>1. q \in Placed /\ headers[q].ext = s /\ ~ headers[q].live
    BY ListFacts DEF HeapInv
  <2>2. q # p
    BY <1>1, <2>1
  <2>3. QED
    BY <1>1, <2>1, <2>2
<1>6. ASSUME NEW i \in DOMAIN longer
      PROVE  /\ <<p[1], longer[i]>> \in Placed /\ headers'[<<p[1], longer[i]>>].ext = size
             /\ ~ headers'[<<p[1], longer[i]>>].live
             /\ \A j \in DOMAIN longer : longer[i] = longer[j] => i = j
  <2>1. \A j \in DOMAIN list : list[j] # p[2]
    BY <1>2, <1>5
  <2>2. CASE i = 1
    <3>1. longer[i] = p[2]
      BY <1>4, <2>2
    <3>2. ASSUME NEW j \in DOMAIN longer, longer[i] = longer[j]
          PROVE  i = j
      <4>1. j = 1 \/ (j - 1 \in DOMAIN list /\ longer[j] = list[j - 1])
        BY <1>4
      <4>2. longer[j] = p[2]
        BY <3>1, <3>2
      <4>3. QED
        BY <2>1, <2>2, <4>1, <4>2
    <3>3. QED
      BY <1>1, <1>2, <3>1, <3>2
  <2>3. CASE i # 1
    <3>1. i - 1 \in DOMAIN list /\ longer[i] = list[i - 1]
      BY <1>4, <2>3
    <3>2. /\ <<p[1], list[i - 1]>> \in Placed /\ headers'[<<p[1], list[i - 1]>>].ext = size
          /\ ~ headers'[<<p[1], list[i - 1]>>].live
      BY <1>2, <1>5, <3>1, ZenonT(60)
    <3>3. ASSUME NEW j \in DOMAIN longer, longer[i] = longer[j]
          PROVE  i = j
      <4>1. j # 1
        BY <1>4, <2>1, <3>1, <3>3
      <4>2. j - 1 \in DOMAIN list /\ longer[j] = list[j - 1]
        BY <1>4, <4>1
      <4>3. i - 1 = j - 1
        <5>1. \A k, l \in DOMAIN list : list[k] = list[l] => k = l
          BY <1>2, ListFacts, ZenonT(60) DEF HeapInv
        <5>2. list[i - 1] = list[j - 1]
          BY <3>1, <3>3, <4>2
        <5>3. QED
          BY <3>1, <4>2, <5>1, <5>2
      <4>4. i \in Nat /\ j \in Nat
        BY <1>4
      <4>5. QED
        BY <4>3, <4>4
    <3>4. QED
      BY <3>1, <3>2, <3>3
  <2>4. QED
    BY <2>2, <2>3
<1>7. ASSUME NEW a \in DOMAIN arenas', NEW s \in Sizes, NEW i \in DOMAIN arenas'[a].free[s]
      PROVE  LET each == arenas'[a].free[s] IN
             /\ <<a, each[i]>> \in Placed' /\ headers'[<<a, each[i]>>].ext = s
             /\ ~ headers'[<<a, each[i]>>].live
             /\ \A j \in DOMAIN each : each[i] = each[j] => i = j
  <2>1. CASE a = p[1] /\ s = size
    BY <1>1, <1>6, <2>1
  <2>2. CASE ~ (a = p[1] /\ s = size)
    <3>1. a \in DOMAIN arenas /\ arenas'[a].free[s] = arenas[a].free[s]
      BY <1>1, <2>2
    <3>2. \A j \in DOMAIN arenas[a].free[s] :
            arenas[a].free[s][i] = arenas[a].free[s][j] => i = j
      BY <3>1, ListFacts DEF HeapInv
    <3>3. QED
      BY <1>1, <1>5, <3>1, <3>2
  <2>3. QED
    BY <2>1, <2>2
<1>8. ASSUME NEW q \in Placed', ~ headers'[q].live
      PROVE  Listed(q)'
  <2>1. CASE q = p
    <3>1. headers'[q].ext = size
      BY <1>1, <2>1
    <3>2. QED
      BY <1>4, <2>1, <3>1 DEF Listed
  <2>2. CASE q # p
    <3>1. q \in Placed /\ headers'[q] = headers[q]
      BY <1>1, <2>2
    <3>2. q[1] \in DOMAIN arenas /\ headers[q].ext \in Sizes
      BY <3>1, PlacedFacts DEF HeapInv
    <3>3. PICK i \in DOMAIN arenas[q[1]].free[headers[q].ext] :
            arenas[q[1]].free[headers[q].ext][i] = q[2]
      BY <1>8, <3>1 DEF HeapInv, Lists, Listed
    <3>4. CASE q[1] = p[1] /\ headers[q].ext = size
      <4>1. i + 1 \in DOMAIN longer /\ longer[i + 1] = q[2]
        BY <1>4, <3>3, <3>4
      <4>2. QED
        BY <3>1, <3>4, <4>1 DEF Listed
    <3>5. CASE ~ (q[1] = p[1] /\ headers[q].ext = size)
      <4>1. arenas'[q[1]].free[headers[q].ext] = arenas[q[1]].free[headers[q].ext]
        BY <1>1, <3>2, <3>5
      <4>2. QED
        BY <3>1, <3>3, <4>1 DEF Listed
    <3>6. QED
      BY <3>4, <3>5
  <2>3. QED
    BY <2>1, <2>2
<1>9. QED
  BY <1>7, <1>8 DEF Lists

LEMMA EndsVersioned ==
    ASSUME HeapInv, NEW t \in Threads, NEW p, EndsAt(t, p)
    PROVE  /\ Versioned'
           /\ \A q \in Placed : headers'[q].live => q # p /\ headers'[q] = headers[q]
           /\ \A q \in Placed \ {p} : headers'[q] = headers[q]
<1>1. /\ p \in Placed /\ headers[p].live /\ ~ headers'[p].live
      /\ headers'[p].ver = ended(headers[p].ver)
      /\ Placed' = Placed /\ DOMAIN arenas' = DOMAIN arenas
      /\ \A q \in Placed \ {p} : headers'[q] = headers[q]
      /\ \A a \in DOMAIN arenas : arenas'[a].count = arenas[a].count
  BY DEF EndsAt, Placed
<1>2. headers[p].ver \in Nat /\ headers[p].ver % 2 = 0
  BY <1>1, PlacedFacts DEF HeapInv, Versioned
<1>3. headers'[p].ver % 2 # 0 /\ number(headers'[p].ver) = number(headers[p].ver)
  BY <1>1, <1>2, EndedVersion
<1>4. \A q \in Placed : number(headers'[q].ver) = number(headers[q].ver)
  BY <1>1, <1>3
<1>5. \A q \in Placed : q[1] \in DOMAIN arenas
  BY DEF HeapInv, Laid
<1>6. ASSUME NEW q \in Placed
      PROVE  headers'[q].live <=> headers'[q].ver % 2 = 0
  BY <1>1, <1>3 DEF HeapInv, Versioned
<1>7. Versioned'
  BY <1>1, <1>4, <1>5, <1>6 DEF HeapInv, Versioned
<1>8. QED
  BY <1>1, <1>7

LEMMA EndsPainted ==
    ASSUME HeapInv, NEW t \in Threads, NEW p, EndsAt(t, p)
    PROVE  Painted' /\ Borne' /\ Known' /\ Counted'
<1>1. /\ p \in Placed /\ p = at[t] /\ lock = t /\ lock' = NoThread /\ pc[t] = "ended"
      /\ pc'[t] = "over" /\ NoThread \notin Threads
      /\ headers'[p].ver = ended(headers[p].ver)
      /\ Placed' = Placed /\ DOMAIN arenas' = DOMAIN arenas
      /\ \A q \in Placed : headers'[q].ext = headers[q].ext
      /\ \A a \in DOMAIN arenas : arenas'[a].count = arenas[a].count
      /\ \A u \in Threads \ {t} : pc'[u] = pc[u]
      /\ UNCHANGED <<plane, at, got, caps, born>>
  BY HeapAssumption DEF EndsAt
<1>2. /\ \A q \in Placed : headers'[q].live => q # p /\ headers'[q] = headers[q]
      /\ \A q \in Placed \ {p} : headers'[q] = headers[q]
  BY EndsVersioned
<1>3. /\ \A u \in Threads : u # t => pc[u] \notin HoldPCs
      /\ \A q : Busy(q) <=> q = at[t]
  BY <1>1, HolderIsAlone
<1>4. \A u \in Threads : pc'[u] \notin HoldPCs /\ (u # t => pc[u] # "fill_begin")
  BY <1>1, <1>3 DEF HoldPCs
<1>5. Painted'
  <2>1. ASSUME NEW q \in Placed, NEW k \in 0..headers[q].ext - 1
        PROVE  plane[Spot(q, k)] = headers'[q].ver
    <3>1. CASE q = p
      BY <1>1, <3>1 DEF HeapInv, Painted
    <3>2. CASE q # p
      BY <1>1, <1>2, <1>3, <3>2 DEF HeapInv, Painted
    <3>3. QED
      BY <3>1, <3>2
  <2>2. \A g \in Granules :
          (\A q \in Placed : g \notin Payload(q, headers'[q].ext)) => plane[g] = DEAD
    BY <1>1 DEF HeapInv, Painted
  <2>3. QED
    BY <1>1, <1>4, <2>1, <2>2 DEF Painted, HoldPCs
<1>6. Borne'
  <2>1. \A c : Name(c)' = Name(c)
    BY DEF Name
  <2>2. ASSUME NEW q \in Placed, headers'[q].live
        PROVE  Described(q)' \in born
    <3>1. q # p /\ headers'[q] = headers[q]
      BY <1>2, <2>2
    <3>2. Described(q) \in born
      BY <1>1, <1>3, <2>2, <3>1 DEF HeapInv, Borne
    <3>3. QED
      BY <3>1, <3>2 DEF Described
  <2>3. born \subseteq Cap /\ \A c, d \in born : Name(c) = Name(d) => c = d
    BY DEF HeapInv, Borne
  <2>4. \A c \in born :
          /\ c.at[1] \in DOMAIN arenas'
          /\ c.ver % 2 = 0 /\ number(c.ver) \in 1..arenas'[c.at[1]].count - 1
    BY <1>1 DEF HeapInv, Borne
  <2>5. QED
    BY <1>1, <1>4, <2>1, <2>2, <2>3, <2>4 DEF Borne, HoldPCs
<1>7. Known'
  <2>1. ASSUME NEW c \in caps \cup {got[u] : u \in Threads}, c # NoCap
        PROVE  /\ c.at \in Placed' /\ headers'[c.at].ext = c.ext
               /\ number(c.ver) < arenas'[c.at[1]].count
    <3>1. c.at \in Placed /\ headers[c.at].ext = c.ext /\ number(c.ver) < arenas[c.at[1]].count
      BY <2>1 DEF HeapInv, Known
    <3>2. c.at[1] \in DOMAIN arenas
      BY <3>1 DEF HeapInv, Laid
    <3>3. QED
      BY <1>1, <3>1, <3>2
  <2>2. QED
    BY <1>1, <2>1 DEF Known
<1>8. Counted'
  <2>1. Pending' = Pending
    BY <1>1 DEF Pending
  <2>2. \A u \in Threads : pc[u] # "fill_begin" /\ pc'[u] # "fill_begin"
    BY <1>1, <1>4 DEF HoldPCs
  <2>3. QED
    BY <1>1, <2>1, <2>2 DEF HeapInv, Counted
<1>9. QED
  BY <1>5, <1>6, <1>7, <1>8

\* Nobody else stands on the block: what was given away once is what ends.
LEMMA EndsKept ==
    ASSUME HeapInv, NEW t \in Threads, NEW p, EndsAt(t, p)
    PROVE  Kept'
<1>1. /\ p \in Placed /\ p = at[t] /\ pc[t] = "ended" /\ pc'[t] = "over"
      /\ Placed' = Placed
      /\ \A u \in Threads \ {t} : pc'[u] = pc[u]
      /\ UNCHANGED <<at, given, got, caps, freed, twice, born>>
  BY DEF EndsAt
<1>2. \A q \in Placed \ {p} : headers'[q] = headers[q]
  BY EndsVersioned
<1>3. SUFFICES ASSUME twice = {}
               PROVE  /\ \A c \in caps \ freed : Intact(c)'
                      /\ \A u \in Threads :
                           /\ given[u] # NoCap /\ pc'[u] # "over" => Intact(given[u])'
                           /\ Own(u)' # NoCap => Intact(Own(u))' /\ Own(u)' \notin caps
                           /\ \A w \in Threads : u # w /\ Own(u)' # NoCap => Own(u)' # Own(w)'
  BY <1>1 DEF Kept
<1>4. given[t] # NoCap /\ given[t] \in freed /\ given[t].at = p /\ given[t] \in Cap
  BY <1>1 DEF HeapInv, Located, Posted, EndPCs, Shaped
<1>5. Intact(given[t])
  BY <1>1, <1>3, <1>4 DEF HeapInv, Kept
<1>6. ASSUME NEW c \in Cap, c.at \in Placed, Intact(c), c # given[t]
      PROVE  Intact(c)' /\ c.at # p
  <2>1. c.at # p
    <3>1. SUFFICES ASSUME c.at = p PROVE FALSE
      OBVIOUS
    <3>2. c.ext = given[t].ext /\ c.ver = given[t].ver
      BY <1>4, <1>5, <1>6, <3>1 DEF Intact
    <3>3. c = given[t]
      BY <1>4, <3>1, <3>2 DEF Cap
    <3>4. QED
      BY <1>6, <3>3
  <2>2. headers'[c.at] = headers[c.at]
    BY <1>2, <1>6, <2>1
  <2>3. QED
    BY <1>6, <2>1, <2>2 DEF Intact
<1>7. \A c \in caps : c \in Cap /\ c.at \in Placed /\ c # NoCap
  BY NoCapAssumption DEF HeapInv, Shaped, Known
<1>8. given[t] \in caps
  BY <1>4 DEF HeapInv, Shaped
<1>9. ASSUME NEW c \in caps \ freed PROVE Intact(c)'
  BY <1>3, <1>4, <1>6, <1>7 DEF HeapInv, Kept
<1>10. ASSUME NEW u \in Threads, given[u] # NoCap, pc'[u] # "over"
       PROVE  Intact(given[u])'
  <2>1. u # t
    BY <1>1, <1>10
  <2>2. given[u] # given[t]
    BY <1>3, <1>10, <2>1 DEF HeapInv, Paired
  <2>3. Intact(given[u]) /\ given[u] \in caps
    BY <1>1, <1>3, <1>10, <2>1 DEF HeapInv, Kept, Located, Posted, Shaped
  <2>4. Intact(given[u])' <=> headers'[given[u].at] =
            [ext |-> given[u].ext, ver |-> given[u].ver, live |-> TRUE]
    BY <1>1 DEF Intact
  <2>5. headers'[given[u].at] = headers[given[u].at]
    BY <1>2, <1>6, <1>7, <2>2, <2>3
  <2>6. QED
    BY <2>3, <2>4, <2>5 DEF Intact
<1>11. ASSUME NEW u \in Threads, Own(u) # NoCap
       PROVE  /\ Own(u).at # p /\ Own(u).at \in Placed /\ Intact(Own(u)) /\ Own(u) \notin caps
  <2>1. Own(u) \in Cap /\ Own(u).at \in Placed
    BY <1>11, OwnKnown
  <2>2. Intact(Own(u)) /\ Own(u) \notin caps
    BY <1>3, <1>11 DEF HeapInv, Kept
  <2>3. QED
    BY <1>6, <1>8, <2>1, <2>2
<1>12. ASSUME NEW u \in Threads
       PROVE  Own(u)' = Own(u)
  <2>1. CASE pc[u] \in {"fill_begin", "begun"}
    <3>1. u # t /\ at[u] \in Placed
      BY <1>1, <2>1 DEF HeapInv, Located, Posted
    <3>2. Own(u) = Described(at[u]) /\ Described(at[u]) \in Cap
      BY <2>1, <3>1, PlacedFacts DEF HeapInv, Own, Described, Cap
    <3>3. Own(u) # NoCap /\ Own(u).at = at[u]
      BY <3>2, NoCapAssumption DEF Described
    <3>4. at[u] # p
      BY <1>11, <3>3
    <3>5. headers'[at[u]] = headers[at[u]]
      BY <1>2, <3>1, <3>4
    <3>6. QED
      BY <1>1, <2>1, <3>1, <3>5 DEF Own, Described
  <2>2. CASE pc[u] \notin {"fill_begin", "begun"}
    BY <1>1, <2>2 DEF Own
  <2>3. QED
    BY <2>1, <2>2
<1>13. ASSUME NEW u \in Threads, Own(u)' # NoCap
       PROVE  Intact(Own(u))' /\ Own(u)' \notin caps
  <2>1. Own(u) # NoCap
    BY <1>12, <1>13
  <2>2. headers'[Own(u).at] = headers[Own(u).at] /\ Intact(Own(u)) /\ Own(u) \notin caps
    BY <1>2, <1>11, <2>1
  <2>3. QED
    BY <1>12, <2>2 DEF Intact
<1>14. ASSUME NEW u \in Threads, NEW w \in Threads, u # w, Own(u)' # NoCap
       PROVE  Own(u)' # Own(w)'
  BY <1>3, <1>12, <1>14 DEF HeapInv, Kept
<1>15. QED
  BY <1>9, <1>10, <1>13, <1>14

LEMMA EndedKeeps ==
    ASSUME HeapInv, NEW t \in Threads, Ended(t)
    PROVE  HeapInv'
<1>1. EndsAt(t, at[t])
  BY EndedEnds
<1>2. Shaped' /\ Located' /\ Paired' /\ NoFalseRefusal'
  BY <1>1, EndsShaped
<1>3. Laid' /\ Lists' /\ Versioned'
  BY <1>1, EndsLaid, EndsLists, EndsVersioned
<1>4. Painted' /\ Borne' /\ Known' /\ Counted' /\ Kept'
  BY <1>1, EndsPainted, EndsKept
<1>5. QED
  BY <1>2, <1>3, <1>4 DEF HeapInv

-----------------------------------------------------------------------------
(* The invariant                                                           *)

LEMMA InitHolds ==
    ASSUME Init
    PROVE  HeapInv
<1>1. Placed = {}
  BY DEF Init, Placed
<1>2. arenas = <<>> /\ DOMAIN arenas = {} /\ Len(arenas) = 0 /\ arenas \in Seq(Arena)
  BY DEF Init
<1>3. Shaped
  <2>1. headers \in [Granules -> Header]
    BY DEF Init, NoHeader, Header, DEAD
  <2>2. watched \in 0..REGIONS /\ Len(arenas) <= watched
    BY <1>2, Lengthy DEF Init
  <2>3. plane \in [Granules -> Nat] /\ epochs \in [Granules -> Nat]
    BY DEF Init, DEAD
  <2>4. QED
    BY <1>2, <2>1, <2>2, <2>3 DEF Init, Shaped, Labels
<1>4. \A t \in Threads : pc[t] = "run" /\ given[t] = NoCap /\ done[t] = 0 /\ got[t] = NoCap
                         /\ lock # t
  BY HeapAssumption DEF Init
<1>5. Located /\ Paired
  BY <1>4 DEF Located, Posted, Paired, HoldPCs, EndPCs
<1>6. Laid /\ Lists /\ Versioned
  BY <1>1, <1>2 DEF Laid, Lists, Versioned
<1>7. Painted
  BY <1>1 DEF Init, Painted
<1>8. Borne
  BY <1>1, <1>4 DEF Init, Borne
<1>9. Counted
  <2>1. Pending = {}
    BY <1>4 DEF Pending
  <2>2. born = {} /\ IsFiniteSet({}) /\ Cardinality({}) = 0
    BY FS_EmptySet DEF Init
  <2>3. BEGINS \in Nat /\ Cardinality(Threads) \in Nat
    BY HeapAssumption, FS_CardinalityType
  <2>4. QED
    BY <1>2, <2>1, <2>2, <2>3 DEF Counted
<1>10. Known /\ Kept
  <2>1. \A t \in Threads : Own(t) = NoCap
    BY <1>4 DEF Own
  <2>2. caps = {} /\ twice = {}
    BY DEF Init
  <2>3. QED
    BY <1>4, <2>1, <2>2 DEF Known, Kept
<1>11. NoFalseRefusal
  BY DEF Init, NoFalseRefusal
<1>12. QED
  BY <1>3, <1>5, <1>6, <1>7, <1>8, <1>9, <1>10, <1>11 DEF HeapInv

LEMMA StepHolds ==
    ASSUME HeapInv, [Next]_vars
    PROVE  HeapInv'
<1>1. CASE UNCHANGED vars
  <2>1. UNCHANGED <<lock, arenas, watched, headers, plane, epochs, pc, want, at, given, done,
                    got, caps, freed, twice, born, stopped>>
    BY <1>1 DEF vars, registers, ghosts
  <2>2. Shaped' /\ NoFalseRefusal'
    BY <2>1 DEF HeapInv, Shaped, NoFalseRefusal
  <2>3. QED
    BY <2>1, <2>2, AsideKeeps
<1>2. CASE Adopt
  BY <1>2, AdoptKeeps
<1>3. ASSUME NEW t \in Threads, ThreadStep(t)
      PROVE  HeapInv'
  <2>1. CASE \E size \in Sizes : Malloc(t, size)
    BY <2>1, MallocKeeps
  <2>2. CASE AllocateHere(t) \/ AllocateFresh(t)
    BY <2>2, BeginKeeps
  <2>3. CASE AllocateNull(t)
    BY <2>3, NullKeeps
  <2>4. CASE FillBegin(t)
    BY <2>4, FillBeginOn, FillBeginLast
  <2>5. CASE Begun(t)
    BY <2>5, BegunKeeps
  <2>6. CASE \E c \in caps : Free(t, c) \/ \E size \in Sizes : Realloc(t, c, size)
    BY <2>6, FreedKeeps
  <2>7. CASE Extent(t)
    BY <2>7, ExtentOrStopKeeps
  <2>8. CASE End(t)
    BY <2>8, EndKeeps
  <2>9. CASE FillEnd(t)
    BY <2>9, FillEndKeeps
  <2>10. CASE Ended(t)
    BY <2>10, EndedKeeps
  <2>11. CASE Over(t)
    BY <2>11, OverKeeps
  <2>12. CASE \E c \in caps : \E g \in Payload(c.at, c.ext) : Load(t, c, g) \/ Store(t, c, g)
    BY <2>12, AccessKeeps
  <2>13. QED
    BY <1>3, <2>1, <2>2, <2>3, <2>4, <2>5, <2>6, <2>7, <2>8, <2>9, <2>10, <2>11, <2>12
       DEF ThreadStep
<1>4. QED
  BY <1>1, <1>2, <1>3 DEF Next

\* alloc.rs malloc, realloc and free, heap.rs take, put and bump, plane.rs begin
\* and end: whatever threads interleave between the check, the lock, the
\* granules of a fill and the stamp, headers, lists, plane and what the
\* program holds agree up to the block the lock's holder is at.
THEOREM HeapInvariance == Spec => []HeapInv
<1>1. Init => HeapInv
  BY InitHolds
<1>2. HeapInv /\ [Next]_vars => HeapInv'
  BY StepHolds
<1>3. QED
  BY <1>1, <1>2, PTL DEF Spec

LEMMA HeapTyped == HeapInv => TypeOK
<1> SUFFICES ASSUME HeapInv PROVE TypeOK
  OBVIOUS
<1>1. ASSUME NEW a \in DOMAIN arenas
      PROVE  /\ arenas[a].len \in Lengths /\ arenas[a].next \in 0..arenas[a].len
             /\ arenas[a].count \in Nat \ {0}
             /\ \A s \in Sizes : \A i \in DOMAIN arenas[a].free[s] :
                  arenas[a].free[s][i] \in 0..arenas[a].next - 1
  <2>1. arenas[a].len \in Nat /\ arenas[a].next \in Nat
    BY ArenaFacts DEF HeapInv
  <2>2. /\ arenas[a].len \in Lengths /\ arenas[a].next <= arenas[a].len
        /\ arenas[a].count \in Nat \ {0}
    BY DEF HeapInv, Laid, Versioned
  <2>3. ASSUME NEW s \in Sizes, NEW i \in DOMAIN arenas[a].free[s]
        PROVE  arenas[a].free[s][i] \in 0..arenas[a].next - 1
    <3> DEFINE n == arenas[a].free[s][i]
    <3>1. <<a, n>> \in Placed
      BY ListFacts DEF HeapInv
    <3>2. n \in Nat /\ n < Hi(<<a, n>>) /\ Hi(<<a, n>>) \in Nat /\ Hi(<<a, n>>) <= arenas[a].next
      BY <3>1, PlacedFacts DEF HeapInv
    <3>3. QED
      BY <2>1, <3>2
  <2>4. QED
    BY <2>1, <2>2, <2>3
<1>2. \A t \in Threads : pc[t] \in {"fill_begin", "fill_end", "ended"} => lock = t
  BY DEF HeapInv, Located, Posted, HoldPCs
<1>3. QED
  BY <1>1, <1>2 DEF HeapInv, Shaped, TypeOK

\* A granule of a block is between the ends of the block.
LEMMA InBlock ==
    ASSUME Shaped, Laid, NEW p \in Placed, NEW g \in BlockAt(p)
    PROVE  g[1] = p[1] /\ g[2] \in Int /\ Lo(p) <= g[2] /\ g[2] < Hi(p)
<1> DEFINE ext == headers[p].ext
<1>1. ext \in Nat \ {0} /\ p[2] \in Nat
  BY PlacedFacts
<1>2. CASE g \in {<<p[1], p[2] - k>> : k \in 1..HEADER + Aux(ext)}
  <2>1. PICK k \in 1..HEADER + Aux(ext) : g = <<p[1], p[2] - k>>
    BY <1>2
  <2>2. QED
    BY <1>1, <2>1 DEF Lo, Hi, HEADER, Aux
<1>3. CASE g \in Payload(p, ext)
  <2>1. PICK k \in 0..ext - 1 : g = <<p[1], p[2] + k>>
    BY <1>3 DEF Payload
  <2>2. QED
    BY <1>1, <2>1 DEF Lo, Hi, HEADER, Aux
<1>4. QED
  BY <1>2, <1>3 DEF BlockAt

LEMMA HeapAccounts == HeapInv => BlocksAccounted
<1> SUFFICES ASSUME HeapInv PROVE BlocksAccounted
  OBVIOUS
<1>1. ASSUME NEW p \in Placed, NEW q \in Placed, p # q
      PROVE  BlockAt(p) \cap BlockAt(q) = {}
  <2>1. SUFFICES ASSUME NEW g \in BlockAt(p), g \in BlockAt(q) PROVE FALSE
    OBVIOUS
  <2>2. /\ g[1] = p[1] /\ g[2] \in Int /\ Lo(p) <= g[2] /\ g[2] < Hi(p)
        /\ g[1] = q[1] /\ Lo(q) <= g[2] /\ g[2] < Hi(q)
    BY <2>1, InBlock DEF HeapInv
  <2>3. Hi(p) <= Lo(q) \/ Hi(q) <= Lo(p)
    BY <1>1, <2>2 DEF HeapInv, Laid
  <2>4. Lo(p) \in Nat /\ Hi(p) \in Nat /\ Lo(q) \in Nat /\ Hi(q) \in Nat
    BY PlacedFacts DEF HeapInv
  <2>5. QED
    BY <2>2, <2>3, <2>4
<1>2. ASSUME NEW p \in Placed
      PROVE  Listed(p) # headers[p].live
  <2>1. /\ headers[p].live \in BOOLEAN /\ p[1] \in DOMAIN arenas /\ headers[p].ext \in Sizes
        /\ p = <<p[1], p[2]>>
    BY PlacedFacts DEF HeapInv
  <2>2. CASE ~ headers[p].live
    <3>1. Listed(p)
      BY <2>2 DEF HeapInv, Lists
    <3>2. QED
      BY <2>2, <3>1
  <2>3. CASE headers[p].live
    <3>1. ASSUME NEW i \in DOMAIN arenas[p[1]].free[headers[p].ext]
          PROVE  arenas[p[1]].free[headers[p].ext][i] # p[2]
      <4>1. ~ headers[<<p[1], arenas[p[1]].free[headers[p].ext][i]>>].live
        BY <2>1, ListFacts DEF HeapInv
      <4>2. QED
        BY <2>1, <2>3, <4>1
    <3>2. ~ Listed(p)
      BY <3>1 DEF Listed
    <3>3. QED
      BY <2>3, <3>2
  <2>4. QED
    BY <2>1, <2>2, <2>3
<1>3. QED
  BY <1>1, <1>2 DEF BlocksAccounted, HeapInv, Lists

\* With the lock free the plane says of every payload what its header does.
LEMMA PlaneAgrees ==
    ASSUME HeapInv, lock = NoThread, NEW p \in Placed, NEW k \in 0..headers[p].ext - 1
    PROVE  plane[Spot(p, k)] = headers[p].ver
BY HeapAssumption DEF HeapInv, Painted, Busy

LEMMA LiveIsOwned ==
    ASSUME HeapInv, NEW p \in Placed
    PROVE  headers[p].live <=> owned(headers[p].ver)
<1>1. headers[p].ver \in Nat /\ p[1] \in DOMAIN arenas /\ headers[p].live \in BOOLEAN
  BY PlacedFacts DEF HeapInv
<1>2. arenas[p[1]].count \in Nat
  BY <1>1, ArenaFacts DEF HeapInv
<1>3. /\ number(headers[p].ver) \in 1..arenas[p[1]].count - 1
      /\ headers[p].live <=> headers[p].ver % 2 = 0
  BY DEF HeapInv, Versioned
<1>4. number(headers[p].ver) # 0
  BY <1>2, <1>3
<1>5. owned(headers[p].ver) <=> headers[p].ver % 2 = 0 /\ number(headers[p].ver) # 0
  BY <1>1, OwnedVersion
<1>6. QED
  BY <1>3, <1>4, <1>5

\* The run that a granule of a live instance is in is its payload.
LEMMA RunIsPayload ==
    ASSUME HeapInv, lock = NoThread, NEW p \in LiveAt, NEW k \in 0..headers[p].ext - 1
    PROVE  Run(Spot(p, k)) = Payload(p, headers[p].ext)
<1>1. p \in Placed /\ headers[p].live /\ Shaped /\ Laid
  BY DEF LiveAt, HeapInv
<1>2. headers[p].ext \in Nat /\ p[2] \in Nat
  BY <1>1, PlacedFacts
<1>3. Spot(p, k)[1] = p[1] /\ plane[Spot(p, k)] = headers[p].ver
  BY <1>1, PlaneAgrees DEF Spot
<1>4. owned(headers[p].ver)
  BY <1>1, LiveIsOwned
<1>5. ASSUME NEW h \in Run(Spot(p, k))
      PROVE  h \in Payload(p, headers[p].ext)
  <2>1. h \in Granules /\ h[1] = p[1] /\ plane[h] = headers[p].ver
    BY <1>3 DEF Run
  <2>2. plane[h] # DEAD
    BY <1>4, <2>1 DEF owned
  <2>3. PICK q \in Placed : h \in Payload(q, headers[q].ext)
    BY <2>1, <2>2 DEF HeapInv, Painted
  <2>4. q[2] \in Nat /\ headers[q].ext \in Nat
    BY <1>1, PlacedFacts
  <2>5. PICK j \in 0..headers[q].ext - 1 : h = Spot(q, j)
    BY <2>3, <2>4, InPayload
  <2>6. plane[h] = headers[q].ver /\ q[1] = p[1]
    BY <2>1, <2>5, PlaneAgrees DEF Spot
  <2>7. q = p
    BY <1>1, <2>1, <2>6 DEF HeapInv, Versioned
  <2>8. QED
    BY <2>3, <2>7
<1>6. ASSUME NEW h \in Payload(p, headers[p].ext)
      PROVE  h \in Run(Spot(p, k))
  <2>1. PICK j \in 0..headers[p].ext - 1 : h = Spot(p, j)
    BY <1>2, InPayload
  <2>2. h \in Granules
    BY <1>1, <2>1, SpotIsAGranule
  <2>3. plane[h] = headers[p].ver /\ h[1] = p[1]
    BY <1>1, <2>1, PlaneAgrees DEF Spot
  <2>4. QED
    BY <1>3, <2>2, <2>3 DEF Run
<1>7. QED
  BY <1>5, <1>6

LEMMA HeapRuns == HeapInv => RunsAreInstances
<1> SUFFICES ASSUME HeapInv, lock = NoThread
             PROVE  /\ {Run(g) : g \in {h \in Granules : owned(plane[h])}}
                         = {Payload(p, headers[p].ext) : p \in LiveAt}
                    /\ \A p \in LiveAt : headers[p].ver = plane[p]
  BY DEF RunsAreInstances
<1>1. Shaped /\ Laid
  BY DEF HeapInv
<1>2. ASSUME NEW g \in Granules, owned(plane[g])
      PROVE  \E p \in LiveAt : Run(g) = Payload(p, headers[p].ext)
  <2>1. PICK p \in Placed : g \in Payload(p, headers[p].ext)
    BY <1>2 DEF HeapInv, Painted, owned
  <2>2. p[2] \in Nat /\ headers[p].ext \in Nat
    BY <1>1, PlacedFacts
  <2>3. PICK k \in 0..headers[p].ext - 1 : g = Spot(p, k)
    BY <2>1, <2>2, InPayload
  <2>4. plane[g] = headers[p].ver
    BY <2>3, PlaneAgrees
  <2>5. p \in LiveAt
    BY <1>2, <2>4, LiveIsOwned DEF LiveAt
  <2>6. QED
    BY <2>3, <2>5, RunIsPayload
<1>3. ASSUME NEW p \in LiveAt
      PROVE  /\ p \in Granules /\ owned(plane[p]) /\ headers[p].ver = plane[p]
             /\ Run(p) = Payload(p, headers[p].ext)
  <2>1. p \in Placed /\ headers[p].live
    BY DEF LiveAt
  <2>2. p \in Granules /\ p = <<p[1], p[2]>> /\ p[2] \in Nat /\ headers[p].ext \in Nat \ {0}
    BY <1>1, <2>1, PlacedFacts
  <2>3. 0 \in 0..headers[p].ext - 1 /\ p[2] + 0 = p[2]
    BY <2>2
  <2>4. Spot(p, 0) = p
    BY <2>2, <2>3 DEF Spot
  <2>5. plane[p] = headers[p].ver
    BY <2>1, <2>3, <2>4, PlaneAgrees
  <2>6. owned(plane[p])
    BY <2>1, <2>5, LiveIsOwned
  <2>7. Run(Spot(p, 0)) = Payload(p, headers[p].ext)
    BY <2>3, RunIsPayload
  <2>8. QED
    BY <2>2, <2>4, <2>5, <2>6, <2>7
<1>4. QED
  BY <1>2, <1>3

-----------------------------------------------------------------------------
(* The walk of the leak sweep                                              *)

\* What holds at the end of 0..n, and before every place it holds from, holds
\* from 0 on.
LEMMA Backwards ==
    ASSUME NEW n \in Nat, NEW S \in SUBSET (0..n), n \in S,
           \A k \in S : k # 0 => k - 1 \in S
    PROVE  0 \in S
<1> DEFINE All == {0..k : k \in S}
           R == StrictSubsetOrdering(Nat)
<1>1. IsWellFoundedOn(R, FiniteSubsetsOf(Nat))
  BY FS_StrictSubsetOrderingWellFounded
<1>2. All \subseteq FiniteSubsetsOf(Nat)
  <2> SUFFICES ASSUME NEW k \in S PROVE 0..k \in FiniteSubsetsOf(Nat)
    OBVIOUS
  <2>1. k \in Nat /\ 0 \in Int /\ k \in Int /\ 0..k \in SUBSET Nat
    OBVIOUS
  <2>2. IsFiniteSet(0..k)
    BY <2>1, FS_Interval
  <2>3. QED
    BY <2>1, <2>2 DEF FiniteSubsetsOf
<1>3. All # {}
  OBVIOUS
<1> HIDE DEF All, R
<1>4. PICK least \in All : \A other \in All : ~ (<<other, least>> \in R)
  BY <1>1, <1>2, <1>3, WFMin
<1>5. PICK m \in S : least = 0..m
  BY <1>4 DEF All
<1>6. ASSUME m # 0 PROVE FALSE
  <2>1. PICK j \in Nat : j = m - 1 /\ m = j + 1
    BY <1>6
  <2>2. 0..j \in All
    BY <1>6, <2>1 DEF All
  <2>3. 0..j \subseteq 0..m /\ m \in 0..m /\ m \notin 0..j
    BY <2>1
  <2>4. <<0..j, 0..m>> \in R
    BY <2>3 DEF R, StrictSubsetOrdering
  <2>5. QED
    BY <1>4, <1>5, <2>2, <2>4
<1>7. QED
  BY <1>6

\* f is what a walk to n finds from each place on, when it steps over the
\* lengths of ext at the places in live and one on from any other.
Walks(f, n, live, ext) ==
    f = [pos \in 0..n |-> IF pos >= n THEN {}
                          ELSE IF pos \in live THEN {pos} \cup f[pos + ext[pos]] ELSE f[pos + 1]]

\* The places apart that a walk steps over.
Steps(n, live, ext) ==
    /\ live \subseteq 0..n
    /\ ext \in [live -> Nat \ {0}]
    /\ \A p \in live : p + ext[p] <= n
    /\ \A p, q \in live : p < q => p + ext[p] <= q

\* There is such a walk: it is built backwards, from its end.
LEMMA WalkExists ==
    ASSUME NEW n \in Nat, NEW live, NEW ext, Steps(n, live, ext)
    PROVE  \E f : Walks(f, n, live, ext)
<1> DEFINE From(k, f) == f = [pos \in k..n |-> IF pos >= n THEN {}
                                ELSE IF pos \in live THEN {pos} \cup f[pos + ext[pos]] ELSE f[pos + 1]]
           S == {k \in 0..n : \E f : From(k, f)}
<1>1. n \in S
  <2>1. From(n, [pos \in n..n |-> {}])
    OBVIOUS
  <2> HIDE DEF From
  <2>2. QED
    BY <2>1
<1>2. ASSUME NEW k \in S, k # 0 PROVE k - 1 \in S
  <2>1. PICK f : From(k, f)
    BY <1>2
  <2>2. PICK j \in Nat : j = k - 1 /\ k = j + 1 /\ j < n
    BY <1>2
  <2>3. j \in live => j + ext[j] \in k..n
    BY <2>2 DEF Steps
  <2>4. DEFINE v == IF j \in live THEN {j} \cup f[j + ext[j]] ELSE f[k]
               g == [pos \in j..n |-> IF pos = j THEN v ELSE f[pos]]
  <2>5. ASSUME NEW pos \in k..n
        PROVE  /\ pos \in j..n /\ g[pos] = f[pos]
               /\ pos < n => pos + 1 \in k..n /\ (pos \in live => pos + ext[pos] \in k..n)
    BY <2>2 DEF Steps
  <2>6. \A pos \in k..n : g[pos] = f[pos]
    BY <2>5
  <2>7. g[j] = v /\ k \in k..n /\ j \in j..n
    BY <2>2, <1>2
  <2>8. ASSUME NEW pos \in j..n
        PROVE  g[pos] = IF pos >= n THEN {}
                        ELSE IF pos \in live THEN {pos} \cup g[pos + ext[pos]] ELSE g[pos + 1]
    <3>1. CASE pos = j
      <4>1. ~ (j >= n)
        BY <2>2
      <4>2. j \in live => g[j + ext[j]] = f[j + ext[j]]
        BY <2>3, <2>6
      <4>3. g[j + 1] = f[k]
        BY <2>2, <2>6, <2>7
      <4> HIDE DEF g
      <4>4. QED
        BY <2>7, <3>1, <4>1, <4>2, <4>3
    <3>2. CASE pos # j
      <4>1. pos \in k..n
        BY <2>2, <3>2
      <4> HIDE DEF g
      <4>2. f[pos] = IF pos >= n THEN {}
                     ELSE IF pos \in live THEN {pos} \cup f[pos + ext[pos]] ELSE f[pos + 1]
        BY <2>1, <4>1
      <4>3. /\ g[pos] = f[pos] /\ (pos >= n \/ pos < n)
            /\ pos < n => g[pos + 1] = f[pos + 1]
            /\ pos < n /\ pos \in live => g[pos + ext[pos]] = f[pos + ext[pos]]
        <5>1. pos \in Nat
          BY <2>2, <4>1
        <5>2. pos < n => pos + 1 \in k..n /\ (pos \in live => pos + ext[pos] \in k..n)
          BY <2>5, <4>1
        <5>3. QED
          BY <2>6, <4>1, <5>1, <5>2
      <4>4. pos >= n \/ ~ (pos >= n)
        OBVIOUS
      <4>5. pos \in Nat /\ (~ (pos >= n) => pos < n)
        BY <2>2, <4>1
      <4>6. QED
        BY <4>2, <4>3, <4>5
    <3>3. QED
      BY <3>1, <3>2
  <2>9. From(j, g)
    <3> DEFINE e(pos) == IF pos >= n THEN {}
                         ELSE IF pos \in live THEN {pos} \cup g[pos + ext[pos]] ELSE g[pos + 1]
    <3>1. \A pos \in j..n : g[pos] = e(pos)
      BY <2>8
    <3>2. g = [pos \in j..n |-> g[pos]]
      OBVIOUS
    <3> HIDE DEF g
    <3>3. [pos \in j..n |-> g[pos]] = [pos \in j..n |-> e(pos)]
      BY <3>1
    <3>4. QED
      BY <3>2, <3>3
  <2> HIDE DEF From, g
  <2>10. \E f2 : From(j, f2)
    BY <2>9
  <2>11. QED
    BY <2>2, <2>10
<1>3. 0 \in S
  <2> HIDE DEF S
  <2>1. S \in SUBSET (0..n)
    BY DEF S
  <2>2. QED
    BY <1>1, <1>2, <2>1, Backwards
<1>4. QED
  BY <1>3 DEF Walks

\* From a place that no step leads over, a walk finds what lies from it on.
LEMMA WalkFinds ==
    ASSUME NEW n \in Nat, NEW live, NEW ext, Steps(n, live, ext),
           NEW f, Walks(f, n, live, ext),
           NEW start \in 0..n, \A p \in live : start <= p
    PROVE  f[start] = live
<1> DEFINE Clear(pos) == \A p \in live : p < pos => p + ext[p] <= pos
           S == {k \in 0..n : \A pos \in k..n : Clear(pos) => f[pos] = {p \in live : pos <= p}}
<1>1. n \in S
  <2>1. f[n] = {}
    BY DEF Walks
  <2>2. ASSUME NEW p \in live, n <= p PROVE FALSE
    BY <2>2 DEF Steps
  <2>3. \A pos \in n..n : pos = n
    OBVIOUS
  <2>4. QED
    BY <2>1, <2>2, <2>3
<1>2. ASSUME NEW k \in S, k # 0 PROVE k - 1 \in S
  <2>1. PICK j \in Nat : j = k - 1 /\ k = j + 1 /\ j < n
    BY <1>2
  <2>2. SUFFICES ASSUME Clear(j) PROVE f[j] = {p \in live : j <= p}
    BY <1>2, <2>1
  <2>3. CASE j \in live
    <3>1. PICK m \in k..n : m = j + ext[j]
      BY <2>1, <2>3 DEF Steps
    <3>2. Clear(m)
      BY <2>1, <2>2, <2>3, <3>1 DEF Steps
    <3>3. f[m] = {p \in live : m <= p}
      BY <1>2, <3>1, <3>2
    <3>4. f[j] = {j} \cup f[m]
      BY <2>1, <2>3, <3>1 DEF Walks
    <3>5. \A p \in live : j <= p <=> p = j \/ m <= p
      BY <2>1, <2>3, <3>1 DEF Steps
    <3>6. QED
      BY <2>3, <3>3, <3>4, <3>5
  <2>4. CASE j \notin live
    <3>1. Clear(k)
      BY <2>1, <2>2, <2>4 DEF Steps
    <3>2. f[k] = {p \in live : k <= p}
      BY <1>2, <3>1
    <3>3. f[j] = f[k]
      <4>1. j \in 0..n /\ ~ (j >= n)
        BY <2>1
      <4>2. f[j] = IF j >= n THEN {}
                   ELSE IF j \in live THEN {j} \cup f[j + ext[j]] ELSE f[j + 1]
        BY <4>1 DEF Walks
      <4>3. QED
        BY <2>1, <2>4, <4>1, <4>2
    <3>4. \A p \in live : j <= p <=> k <= p
      BY <2>1, <2>4 DEF Steps
    <3>5. QED
      BY <3>2, <3>3, <3>4
  <2>5. QED
    BY <2>3, <2>4
<1>3. 0 \in S
  <2> HIDE DEF S
  <2>1. S \in SUBSET (0..n)
    BY DEF S
  <2>2. QED
    BY <1>1, <1>2, <2>1, Backwards
<1>4. Clear(start) /\ start \in 0..n
  BY DEF Steps
<1>5. f[start] = {p \in live : start <= p}
  BY <1>3, <1>4
<1>6. QED
  BY <1>5

\* The walk takes for the start of an instance what is one.
LEMMA BeginsAreLive ==
    ASSUME HeapInv, lock = NoThread, NEW a \in DOMAIN arenas,
           NEW pos \in 0..arenas[a].next
    PROVE  pos < arenas[a].next /\ Begins(a, pos) <=> <<a, pos>> \in LiveAt
<1>1. Shaped /\ Laid
  BY DEF HeapInv
<1>2. ASSUME pos < arenas[a].next, Begins(a, pos)
      PROVE  <<a, pos>> \in LiveAt
  <2>1. a \in 1..REGIONS /\ arenas[a].next \in Nat /\ arenas[a].len \in Nat
    BY <1>1, ArenaFacts
  <2>2. arenas[a].next <= arenas[a].len /\ arenas[a].len \in Lengths
    BY <1>1 DEF Laid
  <2>3. arenas[a].len <= RegionFor(LARGEST) /\ RegionFor(LARGEST) \in Nat
    BY <2>2, Lengthy
  <2>4. <<a, pos>> \in Granules
    BY <1>2, <2>1, <2>2, <2>3, Granular
  <2>5. headers[<<a, pos>>].live
    BY <1>2 DEF Begins
  <2>6. headers[<<a, pos>>] # NoHeader
    BY <2>5 DEF NoHeader
  <2>7. QED
    BY <2>4, <2>5, <2>6 DEF LiveAt, Placed
<1>3. ASSUME <<a, pos>> \in LiveAt
      PROVE  pos < arenas[a].next /\ Begins(a, pos)
  <2>1. PICK p \in Placed : p = <<a, pos>> /\ headers[p].live /\ p[1] = a /\ p[2] = pos
    BY <1>3 DEF LiveAt
  <2>2. /\ headers[p].ext \in Nat \ {0} /\ Hi(p) <= arenas[a].next
        /\ arenas[a].next \in Nat
    BY <1>1, <2>1, PlacedFacts, ArenaFacts
  <2>3. pos + headers[p].ext <= arenas[a].next /\ pos < arenas[a].next
    BY <2>1, <2>2 DEF Hi
  <2>4. 0 \in 0..headers[p].ext - 1 /\ Spot(p, 0) = p
    BY <2>1, <2>2 DEF Spot
  <2>5. plane[p] = headers[p].ver
    BY <2>4, PlaneAgrees
  <2>6. owned(headers[p].ver)
    BY <2>1, LiveIsOwned
  <2>7. QED
    BY <2>1, <2>3, <2>5, <2>6 DEF Begins
<1>4. QED
  BY <1>2, <1>3

\* f is what heap.rs each finds in arena number a from each place on.
Sweeps(a, f) ==
    f = [pos \in 0..arenas[a].next |->
           IF pos >= arenas[a].next THEN {}
           ELSE IF Begins(a, pos)
             THEN {pos} \cup f[pos + headers[<<a, pos>>].ext]
             ELSE f[pos + 1]]

LEMMA HeapSweeps == HeapInv => SweepFindsLive
<1> SUFFICES ASSUME HeapInv, lock = NoThread, NEW a \in DOMAIN arenas
             PROVE  {<<a, pos>> : pos \in Sweep(a)} = {p \in LiveAt : p[1] = a}
  BY DEF SweepFindsLive
<1> DEFINE n == arenas[a].next
           live == {pos \in 0..n : <<a, pos>> \in LiveAt}
           ext == [pos \in live |-> headers[<<a, pos>>].ext]
<1>1. Shaped /\ Laid /\ n \in Nat
  BY ArenaFacts DEF HeapInv
<1>2. ASSUME NEW p \in LiveAt, p[1] = a
      PROVE  /\ p \in Placed /\ p = <<a, p[2]>> /\ p[2] \in 0..n /\ HEADER <= p[2]
             /\ headers[p].ext \in Nat \ {0} /\ p[2] + headers[p].ext <= n
             /\ p[2] \in live /\ ext[p[2]] = headers[p].ext
  <2>1. p \in Placed
    BY DEF LiveAt
  <2>2. /\ p = <<a, p[2]>> /\ p[2] \in Nat /\ headers[p].ext \in Nat \ {0}
        /\ Lo(p) \in Nat /\ p[2] < Hi(p) /\ Hi(p) <= n
    BY <1>1, <1>2, <2>1, PlacedFacts
  <2>3. p[2] \in 0..n /\ HEADER <= p[2] /\ p[2] + headers[p].ext <= n
    BY <1>1, <2>2 DEF Lo, Hi, Aux, HEADER
  <2>4. p[2] \in live
    BY <1>2, <2>2, <2>3
  <2>5. QED
    BY <2>1, <2>2, <2>3, <2>4
<1>3. ASSUME NEW pos \in live
      PROVE  <<a, pos>> \in LiveAt /\ <<a, pos>>[1] = a /\ <<a, pos>>[2] = pos
  OBVIOUS
<1> HIDE DEF live, ext
<1>4. Steps(n, live, ext)
  <2>1. live \subseteq 0..n
    BY DEF live
  <2>2. ASSUME NEW p \in live
        PROVE  ext[p] \in Nat \ {0} /\ p + ext[p] <= n
    BY <1>2, <1>3
  <2>3. ext \in [live -> Nat \ {0}]
    BY <2>2 DEF ext
  <2>4. ASSUME NEW p \in live, NEW q \in live, p < q PROVE p + ext[p] <= q
    <3>1. PICK x \in LiveAt : x = <<a, p>> /\ x[1] = a /\ x[2] = p
      BY <1>3
    <3>2. PICK y \in LiveAt : y = <<a, q>> /\ y[1] = a /\ y[2] = q
      BY <1>3
    <3>3. x \in Placed /\ y \in Placed /\ x # y
          /\ ext[p] = headers[x].ext /\ ext[q] = headers[y].ext
          /\ ext[p] \in Nat /\ p \in Nat /\ q \in Nat
      BY <1>2, <2>1, <2>2, <2>4, <3>1, <3>2
    <3>4. /\ Hi(x) <= Lo(y) \/ Hi(y) <= Lo(x)
          /\ Lo(x) < x[2] /\ Lo(y) < y[2] /\ Lo(x) \in Nat /\ Lo(y) \in Nat
          /\ Hi(x) \in Nat /\ Hi(y) \in Nat /\ y[2] < Hi(y)
      BY <1>1, <3>1, <3>2, <3>3, PlacedFacts DEF Laid
    <3>5. QED
      BY <2>4, <3>1, <3>2, <3>3, <3>4 DEF Hi
  <2>5. QED
    BY <2>1, <2>2, <2>3, <2>4 DEF Steps
<1>5. ASSUME NEW f PROVE Sweeps(a, f) <=> Walks(f, n, live, ext)
  <2> DEFINE here(pos) == IF pos >= n THEN {}
                          ELSE IF pos \in live THEN {pos} \cup f[pos + ext[pos]] ELSE f[pos + 1]
             there(pos) == IF pos >= n THEN {}
                           ELSE IF Begins(a, pos)
                             THEN {pos} \cup f[pos + headers[<<a, pos>>].ext] ELSE f[pos + 1]
  <2>1. ASSUME NEW pos \in 0..n PROVE here(pos) = there(pos)
    <3>1. pos < n /\ Begins(a, pos) <=> pos \in live
      BY BeginsAreLive DEF live
    <3>2. pos < n <=> ~ (pos >= n)
      BY <1>1
    <3>3. pos \in live => ext[pos] = headers[<<a, pos>>].ext
      BY DEF ext
    <3>4. QED
      BY <3>1, <3>2, <3>3
  <2> HIDE DEF here, there
  <2>2. [pos \in 0..n |-> here(pos)] = [pos \in 0..n |-> there(pos)]
    BY <2>1
  <2>3. QED
    BY <2>2 DEF here, there, Walks, Sweeps
<1> DEFINE each == CHOOSE f : Sweeps(a, f)
<1>6. Walks(each, n, live, ext)
  <2>1. PICK f : Walks(f, n, live, ext)
    BY <1>1, <1>4, WalkExists
  <2>2. Sweeps(a, f)
    BY <1>5, <2>1
  <2>3. Sweeps(a, each)
    BY <2>2
  <2>4. QED
    BY <1>5, <2>3
<1>7. Sweep(a) = IF HEADER > n THEN {} ELSE each[HEADER]
  BY Zenon DEF Sweep, Sweeps
<1> HIDE DEF each
<1>8. Sweep(a) = live
  <2>1. \A p \in live : HEADER <= p
    BY <1>2, <1>3
  <2>2. CASE HEADER > n
    <3>1. live = {}
      BY <1>1, <2>1, <2>2 DEF live, HEADER
    <3>2. QED
      BY <1>7, <2>2, <3>1
  <2>3. CASE ~ (HEADER > n)
    <3>1. HEADER \in 0..n
      BY <1>1, <2>3 DEF HEADER
    <3>2. each[HEADER] = live
      BY <1>1, <1>4, <1>6, <2>1, <3>1, WalkFinds
    <3>3. QED
      BY <1>7, <2>3, <3>2
  <2>4. QED
    BY <2>2, <2>3
<1>9. QED
  BY <1>2, <1>3, <1>8

-----------------------------------------------------------------------------
(* The frees that are let through                                          *)

\* Only t's own free or realloc takes it from the program into one.
LEMMA OnlyAFree ==
    ASSUME HeapInv, [Next]_vars, NEW t \in Threads,
           pc[t] = "run", pc'[t] \in {"end", "extent"}
    PROVE  \E c \in caps : ~ Misnamed(c) /\ given'[t] = c
<1> USE DEF Goto
<1>1. pc \in [Threads -> Labels] /\ given \in [Threads -> Cap \cup {NoCap}]
  BY DEF HeapInv, Shaped
<1>2. PICK u \in Threads : ThreadStep(u)
  BY DEF Next, Adopt, vars
<1>3. /\ pc' # pc
      /\ \A c : ~ Stop(c)
  BY DEF Stop
<1>4. CASE \E c \in caps : Free(u, c) \/ \E size \in Sizes : Realloc(u, c, size)
  <2>1. PICK c \in caps : Free(u, c) \/ \E size \in Sizes : Realloc(u, c, size)
    BY <1>4
  <2>2. /\ ~ Misnamed(c) /\ given' = [given EXCEPT ![u] = c]
        /\ \E label \in {"end", "extent"} : pc' = [pc EXCEPT ![u] = label]
    BY <1>3, <2>1 DEF Free, Realloc
  <2>3. u = t
    BY <1>1, <2>2
  <2>4. QED
    BY <1>1, <2>2, <2>3
<1>5. CASE ~ \E c \in caps : Free(u, c) \/ \E size \in Sizes : Realloc(u, c, size)
  <2>1. CASE pc[u] = "run"
    <3>1. \E size \in Sizes : Malloc(u, size)
      BY <1>2, <1>3, <1>5, <2>1
         DEF ThreadStep, AllocateHere, AllocateFresh, AllocateNull, FillBegin, Begun,
             Extent, End, FillEnd, Ended, Over, Load, Store, vars
    <3>2. pc' = [pc EXCEPT ![u] = "begin"]
      BY <3>1 DEF Malloc
    <3>3. QED
      BY <1>1, <3>2
  <2>2. CASE pc[u] # "run"
    <3>1. \E label : pc' = [pc EXCEPT ![u] = label]
      BY <1>2, <1>3, <1>5, <2>2
         DEF ThreadStep, Malloc, AllocateHere, AllocateFresh, AllocateNull, BeginIn, FillBegin,
             Begun, Extent, End, FillEnd, Ended, Over, Load, Store, Return, vars
    <3>2. u # t
      BY <2>2
    <3>3. QED
      BY <1>1, <3>1, <3>2
  <2>3. QED
    BY <2>1, <2>2
<1>6. QED
  BY <1>4, <1>5

LEMMA CheckDivides ==
    ASSUME HeapInv, [Next]_vars, NEW t \in Threads,
           pc[t] = "run", pc'[t] \in {"end", "extent"}, lock = NoThread
    PROVE  headers[given'[t].at].live => headers[given'[t].at].ver = given'[t].ver
<1>1. PICK c \in caps : ~ Misnamed(c) /\ given'[t] = c
  BY OnlyAFree
<1>2. SUFFICES ASSUME headers[c.at].live PROVE headers[c.at].ver = c.ver
  BY <1>1
<1>3. c # NoCap /\ c.at \in Placed
  BY NoCapAssumption DEF HeapInv, Shaped, Known
<1>4. /\ c.at = <<c.at[1], c.at[2]>> /\ c.at[2] \in Nat /\ headers[c.at].ext \in Nat \ {0}
  BY <1>3, PlacedFacts DEF HeapInv
<1>5. 0 \in 0..headers[c.at].ext - 1 /\ Spot(c.at, 0) = c.at
  <2>1. c.at[2] + 0 = c.at[2]
    BY <1>4
  <2>2. QED
    BY <1>4, <2>1 DEF Spot
<1>6. plane[c.at] = headers[c.at].ver
  BY <1>3, <1>5, PlaneAgrees
<1>7. owned(plane[c.at])
  BY <1>2, <1>3, <1>6, LiveIsOwned
<1>8. QED
  BY <1>1, <1>6, <1>7 DEF Misnamed, stale

-----------------------------------------------------------------------------
(* Instances begin once and end at most once                               *)

begunNames == {Name(c) : c \in born}
livingNames == {Name(c) : c \in Living}

LEMMA NothingChanges ==
    ASSUME born' = born, plane' = plane
    PROVE  UNCHANGED <<begunNames, livingNames>>
BY DEF begunNames, livingNames, Name, Living

\* The version under a thread that holds the lock is one the bound allows.
LEMMA NamedInBounds ==
    ASSUME HeapInv, NEW t \in Threads, pc[t] \in {"fill_begin", "fill_end"}
    PROVE  Name(Described(at[t])) \in (1..REGIONS) \X Versions
<1> DEFINE p == at[t]
           n == number(headers[p].ver)
<1>1. lock = t
  BY DEF HeapInv, Located, Posted, HoldPCs
<1>2. p \in Placed /\ headers[p].live /\ \A u \in Threads \ {t} : pc[u] \notin HoldPCs
  BY <1>1, HolderIsAlone
<1>3. p[1] \in 1..REGIONS /\ p[1] \in DOMAIN arenas /\ headers[p].ver \in Nat
  BY <1>2, PlacedFacts DEF HeapInv
<1>4. arenas[p[1]].count \in Nat
  BY <1>3, ArenaFacts DEF HeapInv
<1>5. headers[p].ver % 2 = 0 /\ n \in 1..arenas[p[1]].count - 1
  BY <1>2 DEF HeapInv, Versioned
<1>6. headers[p].ver = begun(n)
  BY <1>3, <1>5, OwnedVersion
<1>7. /\ Cardinality(born) \in Nat /\ Cardinality(Pending) \in Nat
      /\ BEGINS + Cardinality(Threads) \in Nat
      /\ Cardinality(born) + Cardinality(Pending) <= BEGINS + Cardinality(Threads)
  BY HeapAssumption, FS_Subset, FS_CardinalityType DEF HeapInv, Counted, Pending
<1>8. n <= Cardinality(born) + Cardinality(Pending)
  <2>1. arenas[p[1]].count - 1 <= Cardinality(born) +
          IF \E u \in Threads : pc[u] = "fill_begin" /\ at[u][1] = p[1] THEN 1 ELSE 0
    BY <1>3 DEF HeapInv, Counted
  <2>2. CASE pc[t] = "fill_begin"
    <3>1. t \in Pending /\ IsFiniteSet(Pending)
      BY <2>2, HeapAssumption, FS_Subset DEF Pending
    <3>2. Cardinality(Pending) # 0
      BY <3>1, FS_EmptySet
    <3>3. QED
      BY <1>4, <1>5, <1>7, <2>1, <3>2
  <2>3. CASE pc[t] = "fill_end"
    <3>1. \A u \in Threads : pc[u] # "fill_begin"
      BY <1>2, <2>3 DEF HoldPCs
    <3>2. arenas[p[1]].count - 1 <= Cardinality(born) + 0
      BY <2>1, <3>1
    <3>3. QED
      BY <1>4, <1>5, <1>7, <3>2
  <2>4. QED
    BY <2>2, <2>3
<1>9. n \in 1..BEGINS + Cardinality(Threads)
  BY <1>4, <1>5, <1>7, <1>8
<1>10. QED
  BY <1>3, <1>6, <1>9 DEF Name, Described, Versions

\* The granules an instance is living by are another's when it is another.
LEMMA AnotherGranule ==
    ASSUME HeapInv, NEW c \in born, NEW p \in Placed, NEW k \in 0..headers[p].ext - 1,
           Spot(p, k) \in Payload(c.at, c.ext)
    PROVE  c.at[1] = p[1] /\ owned(c.ver) /\ c.ver \in Nat
<1>1. c \in Cap
  BY DEF HeapInv, Borne
<1>2. c.at \in Granules /\ c.ext \in Sizes /\ c.ver \in Nat
  BY <1>1 DEF Cap
<1>3. c.at[2] \in Nat /\ c.ext \in Nat
  BY <1>2, GranuleParts, Lengthy
<1>4. PICK j \in 0..c.ext - 1 : Spot(p, k) = Spot(c.at, j)
  BY <1>3, InPayload
<1>5. c.at[1] = p[1]
  BY <1>4 DEF Spot
<1>6. /\ c.at[1] \in DOMAIN arenas
      /\ c.ver % 2 = 0 /\ number(c.ver) \in 1..arenas[c.at[1]].count - 1
  BY DEF HeapInv, Borne
<1>7. arenas[c.at[1]].count \in Nat
  BY <1>6, ArenaFacts DEF HeapInv
<1>8. number(c.ver) # 0
  BY <1>6, <1>7
<1>9. QED
  BY <1>2, <1>5, <1>6, <1>8, OwnedVersion

LEMMA FillBeginLiving ==
    ASSUME HeapInv, NEW t \in Threads, FillBegin(t)
    PROVE  \/ UNCHANGED <<begunNames, livingNames>>
           \/ \E i \in (1..REGIONS) \X Versions :
                /\ i \notin begunNames /\ begunNames' = begunNames \cup {i}
                /\ livingNames' = livingNames \cup {i}
<1> DEFINE v == headers[at[t]].ver
           new == Described(at[t])
           here == Spot(at[t], done[t])
           last == done[t] + 1 = headers[at[t]].ext
<1>1. /\ pc[t] = "fill_begin"
      /\ plane' = [plane EXCEPT ![here] = v]
      /\ born' = IF last THEN born \cup {new} ELSE born
  BY DEF FillBegin, Spot, Described
<1>2. at[t] \in Placed
  BY <1>1 DEF HeapInv, Located, Posted
<1>3. headers[at[t]].ext \in Nat /\ v \in Nat /\ at[t][2] \in Nat
  BY <1>2, PlacedFacts DEF HeapInv
<1>4. /\ done[t] \in 0..headers[at[t]].ext - 1
      /\ \A k \in 0..headers[at[t]].ext - 1 :
           plane'[Spot(at[t], k)] = IF k = done[t] THEN v ELSE plane[Spot(at[t], k)]
  BY <1>1, <1>3, FillPaints, ZenonT(60)
<1>5. \A k \in 0..headers[at[t]].ext - 1 :
        IF k < done[t] THEN plane[Spot(at[t], k)] = v ELSE ~ owned(plane[Spot(at[t], k)])
  BY <1>1, <1>2 DEF HeapInv, Painted
<1>6. plane'[here] = v /\ ~ owned(plane[here])
  <2>1. done[t] \in Nat /\ ~ done[t] < done[t]
    BY <1>3, <1>4
  <2>2. QED
    BY <1>4, <1>5, <2>1
<1>7. \A g \in Granules : g # here => plane'[g] = plane[g]
  BY <1>1 DEF HeapInv, Shaped
<1>8. \A c \in born : Name(c) # <<at[t][1], v>>
  BY <1>1 DEF HeapInv, Borne
<1>9. ASSUME NEW c \in born
      PROVE  (\A g \in Payload(c.at, c.ext) : plane'[g] = c.ver)
               <=> (\A g \in Payload(c.at, c.ext) : plane[g] = c.ver)
  <2>1. CASE here \in Payload(c.at, c.ext)
    <3>1. c.at[1] = at[t][1] /\ owned(c.ver)
      BY <1>2, <1>4, <2>1, AnotherGranule
    <3>2. c.ver # v
      BY <1>8, <3>1 DEF Name
    <3>3. QED
      BY <1>6, <2>1, <3>1, <3>2
  <2>2. CASE here \notin Payload(c.at, c.ext)
    <3>1. \A g \in Payload(c.at, c.ext) : plane'[g] = plane[g]
      BY <1>1, <2>2 DEF HeapInv, Shaped
    <3>2. QED
      BY <3>1
  <2>3. QED
    BY <2>1, <2>2
<1>10. \A c \in born : c \in Living' <=> c \in Living
  <2>1. ASSUME NEW c \in born
        PROVE  c \in Living' <=> c \in Living
    <3>1. c \in born'
      BY <1>1
    <3>2. QED
      BY <1>9, <3>1 DEF Living
  <2>2. QED
    BY <2>1
<1>11. CASE ~ last
  <2>1. born' = born
    BY <1>1, <1>11
  <2>2. Living' = Living
    BY <1>10, <2>1 DEF Living
  <2>3. QED
    BY <2>1, <2>2 DEF begunNames, livingNames, Name
<1>12. CASE last
  <2>1. born' = born \cup {new}
    BY <1>1, <1>12
  <2>2. new \in Living'
    <3>1. ASSUME NEW g \in Payload(at[t], headers[at[t]].ext)
          PROVE  plane'[g] = v
      <4>1. PICK k \in 0..headers[at[t]].ext - 1 : g = Spot(at[t], k)
        BY <1>3, InPayload
      <4>2. k = done[t] \/ k < done[t]
        BY <1>3, <1>4, <1>12
      <4>3. QED
        BY <1>4, <1>5, <4>1, <4>2
    <3>2. QED
      BY <2>1, <3>1 DEF Living, Described
  <2>3. Living' = Living \cup {new}
    BY <1>10, <2>1, <2>2 DEF Living
  <2>4. Name(new) \notin begunNames
    BY <1>8 DEF begunNames, Name, Described
  <2>5. Name(new) \in (1..REGIONS) \X Versions
    BY <1>1, NamedInBounds
  <2>6. /\ begunNames' = begunNames \cup {Name(new)}
        /\ livingNames' = livingNames \cup {Name(new)}
    BY <2>1, <2>3 DEF begunNames, livingNames, Name
  <2>7. QED
    BY <2>4, <2>5, <2>6
<1>13. QED
  BY <1>11, <1>12

LEMMA FillEndLiving ==
    ASSUME HeapInv, NEW t \in Threads, FillEnd(t)
    PROVE  \/ UNCHANGED <<begunNames, livingNames>>
           \/ \E i \in (1..REGIONS) \X Versions :
                /\ i \in livingNames /\ begunNames' = begunNames
                /\ livingNames' = livingNames \ {i}
<1> DEFINE v == headers[at[t]].ver
           old == Described(at[t])
           here == Spot(at[t], done[t])
<1>1. /\ pc[t] = "fill_end"
      /\ plane' = [plane EXCEPT ![here] = ended(v)]
      /\ born' = born
  BY DEF FillEnd, Spot, ghosts
<1>2. at[t] \in Placed /\ headers[at[t]].live
  BY <1>1 DEF HeapInv, Located, Posted, HoldPCs, EndPCs
<1>3. /\ headers[at[t]].ext \in Nat /\ v \in Nat /\ at[t][2] \in Nat /\ v % 2 = 0
  BY <1>2, PlacedFacts DEF HeapInv, Versioned
<1>4. ended(v) \in Nat /\ ~ owned(ended(v)) /\ ended(v) # v
  BY <1>3, EndedVersion
<1>5. /\ done[t] \in 0..headers[at[t]].ext - 1
      /\ \A k \in 0..headers[at[t]].ext - 1 :
           plane'[Spot(at[t], k)] = IF k = done[t] THEN ended(v) ELSE plane[Spot(at[t], k)]
  BY <1>1, <1>4, FillPaints
<1>6. plane'[here] = ended(v) /\ plane[here] = v
  <2>1. plane[here] = IF done[t] < done[t] THEN ended(v) ELSE v
    BY <1>1, <1>2, <1>5 DEF HeapInv, Painted
  <2>2. ~ done[t] < done[t]
    BY <1>3, <1>5
  <2>3. QED
    BY <1>5, <2>1, <2>2
<1>7. old \in born /\ here \in Payload(old.at, old.ext) /\ old.ver = v
  <2>1. old \in born
    BY <1>1 DEF HeapInv, Borne
  <2>2. here \in Payload(at[t], headers[at[t]].ext)
    BY <1>3, <1>5, InPayload
  <2>3. QED
    BY <2>1, <2>2 DEF Described
<1>8. ASSUME NEW c \in born
      PROVE  c \in Living' <=> c \in Living /\ c # old
  <2>1. CASE here \in Payload(c.at, c.ext)
    <3>1. c.at[1] = at[t][1] /\ owned(c.ver)
      BY <1>2, <1>5, <2>1, AnotherGranule
    <3>2. c.ver # ended(v)
      BY <1>4, <3>1
    <3>3. c \notin Living'
      BY <1>6, <2>1, <3>2 DEF Living
    <3>4. c \in Living => c = old
      <4>1. SUFFICES ASSUME c \in Living PROVE c = old
        OBVIOUS
      <4>2. c.ver = v
        BY <1>6, <2>1, <4>1 DEF Living
      <4>3. Name(c) = Name(old)
        BY <3>1, <4>2 DEF Name, Described
      <4>4. QED
        BY <1>7, <4>3 DEF HeapInv, Borne
    <3>5. QED
      BY <3>3, <3>4
  <2>2. CASE here \notin Payload(c.at, c.ext)
    <3>1. \A g \in Payload(c.at, c.ext) : plane'[g] = plane[g]
      BY <1>1, <2>2 DEF HeapInv, Shaped
    <3>2. c # old
      BY <1>7, <2>2
    <3>3. QED
      BY <1>1, <3>1, <3>2 DEF Living
  <2>3. QED
    BY <2>1, <2>2
<1>9. Living' = Living \ {old}
  BY <1>1, <1>8 DEF Living
<1>10. begunNames' = begunNames
  BY <1>1 DEF begunNames, Name
<1>11. CASE old \notin Living
  <2>1. Living' = Living
    BY <1>9, <1>11
  <2>2. QED
    BY <1>10, <2>1 DEF livingNames, Name
<1>12. CASE old \in Living
  <2>1. \A c \in Living : Name(c) = Name(old) => c = old
    BY <1>7 DEF Living, HeapInv, Borne
  <2>2. livingNames' = livingNames \ {Name(old)}
    BY <1>9, <2>1 DEF livingNames, Name
  <2>3. Name(old) \in livingNames
    BY <1>12 DEF livingNames
  <2>4. Name(old) \in (1..REGIONS) \X Versions
    BY <1>1, NamedInBounds
  <2>5. QED
    BY <1>10, <2>2, <2>3, <2>4
<1>13. QED
  BY <1>11, <1>12

LEMMA StepsBeginOrEnd ==
    ASSUME HeapInv, [Next]_vars
    PROVE  \/ UNCHANGED <<begunNames, livingNames>>
           \/ \E i \in (1..REGIONS) \X Versions :
                /\ i \notin begunNames /\ begunNames' = begunNames \cup {i}
                /\ livingNames' = livingNames \cup {i}
           \/ \E i \in (1..REGIONS) \X Versions :
                /\ i \in livingNames /\ begunNames' = begunNames
                /\ livingNames' = livingNames \ {i}
<1>1. CASE \E t \in Threads : FillBegin(t)
  BY <1>1, FillBeginLiving
<1>2. CASE \E t \in Threads : FillEnd(t)
  BY <1>2, FillEndLiving
<1>3. CASE ~ (\E t \in Threads : FillBegin(t)) /\ ~ (\E t \in Threads : FillEnd(t))
  <2>1. born' = born /\ plane' = plane
    <3>1. CASE UNCHANGED vars
      BY <3>1 DEF vars, ghosts
    <3>2. CASE Adopt
      BY <3>2 DEF Adopt, ghosts
    <3>3. ASSUME NEW t \in Threads, ThreadStep(t)
          PROVE  born' = born /\ plane' = plane
      BY <1>3, <3>3 DEF ThreadStep, Malloc, AllocateHere, AllocateFresh, AllocateNull, Begun,
                        Free, Realloc, Extent, End, Ended, Over, Load, Store, Stop, vars, ghosts
    <3>4. QED
      BY <3>1, <3>2, <3>3 DEF Next
  <2>2. QED
    BY <2>1, NothingChanges
<1>4. QED
  BY <1>1, <1>2, <1>3

-----------------------------------------------------------------------------
(* The theorems                                                            *)

\* alloc.rs publish, heap.rs bump and put: no arena is without a region that
\* is watched, no bump and no listed block is past its region, and the plane
\* is filled under the lock only, for any number of threads, sizes and arenas.
THEOREM HeapTypes == Spec => []TypeOK
BY HeapInvariance, HeapTyped, PTL

\* alloc.rs dealloc, check.rs live and freeing: a program that gives each
\* pointer away once is never stopped.
THEOREM RefusalsAreJust == Spec => []NoFalseRefusal
<1>1. HeapInv => NoFalseRefusal
  BY DEF HeapInv
<1>2. QED
  BY <1>1, HeapInvariance, PTL

\* heap.rs take, put and bump: blocks never overlap, and with the lock free
\* each is either live or listed, once, under its own class.
THEOREM BlocksNeverShared == Spec => []BlocksAccounted
BY HeapInvariance, HeapAccounts, PTL

\* recover.rs and check.rs extent: with the lock free a run of one owned
\* version in the plane is one live instance, whole.
THEOREM RunsMeasure == Spec => []RunsAreInstances
BY HeapInvariance, HeapRuns, PTL

\* heap.rs each: the walk of the leak sweep, which steps from plane to header
\* and back without a list, finds every live instance and nothing else.
THEOREM SweepIsComplete == Spec => []SweepFindsLive
BY HeapInvariance, HeapSweeps, PTL

\* check.rs freeing and heap.rs header: with the lock free no free of a live
\* instance is let through in another one's name.
THEOREM WrongFreesDivided == Spec => ChecksDivide
<1>1. HeapInv /\ [Next]_vars =>
        [\A t \in Threads :
           pc[t] = "run" /\ pc'[t] \in {"end", "extent"} /\ lock = NoThread =>
             LET head == headers[given'[t].at] IN
             head.live => head.ver = given'[t].ver]_vars
  BY CheckDivides
<1>2. QED
  BY <1>1, HeapInvariance, PTL DEF Spec, ChecksDivide

\* plane.rs begin and end, J4 and J5: the granule by granule fills begin an
\* instance once and end it at most once, and no version ever names two.
THEOREM LifetimesHold == Spec => Lifetimes
<1>1. Init => Abstract!Init
  BY DEF Init, Abstract!Init, Living
<1>2. HeapInv /\ [Next]_vars =>
        [Abstract!Next]_<<{Name(c) : c \in born}, {Name(c) : c \in Living}>>
  <2> SUFFICES ASSUME HeapInv, [Next]_vars
               PROVE  [Abstract!Next]_<<{Name(c) : c \in born}, {Name(c) : c \in Living}>>
    OBVIOUS
  <2>1. CASE UNCHANGED <<begunNames, livingNames>>
    BY <2>1 DEF begunNames, livingNames
  <2>2. ASSUME NEW i \in (1..REGIONS) \X Versions,
               i \notin begunNames, begunNames' = begunNames \cup {i},
               livingNames' = livingNames \cup {i}
        PROVE  Abstract!Next
    BY <2>2 DEF Abstract!Next, Abstract!Begin, begunNames, livingNames
  <2>3. ASSUME NEW i \in (1..REGIONS) \X Versions,
               i \in livingNames, begunNames' = begunNames,
               livingNames' = livingNames \ {i}
        PROVE  Abstract!Next
    BY <2>3 DEF Abstract!Next, Abstract!End, begunNames, livingNames
  <2>4. QED
    BY <2>1, <2>2, <2>3, StepsBeginOrEnd
<1>3. QED
  BY <1>1, <1>2, HeapInvariance, PTL DEF Spec, Lifetimes, Abstract!Spec

=============================================================================
