------------------------------ MODULE EdgesProofs ------------------------------
(***************************************************************************)
(* Proofs about the edges that are not a mutex's: SharedEdges (read-write  *)
(* locks, semaphores, atomics) and Births (threads made and joined), for   *)
(* every number of threads, keys, words and cells and every width of a     *)
(* stamp.                                                                  *)
(*                                                                         *)
(* No lock serializes the publications of a key here.  What takes its      *)
(* place is that some publishers are alone under their key for as long as  *)
(* they walk, and that the others, readers of a lock, have all taken what  *)
(* the key hands on before they publish.  The first part is about walks of *)
(* the table by whoever is or is not alone, and about how many cells their *)
(* keys can take; the second and the third say who is alone, in            *)
(* SharedEdges and in Births.                                              *)
(***************************************************************************)
EXTENDS SharedEdges, Births, RaceMonitorProofs

USE WidthAssumption, TableAssumption, NamesAssumption

MakePCs == {"claim", "fill", "create", "create_bare"}
HoldPCs == {"fill", "create", "born", "born_free"}
BirthPCs == MakePCs \cup HoldPCs \cup {"born_sync"}

-----------------------------------------------------------------------------
(* Walks of several publishers                                             *)

\* Some walk has found every cell of its run taken, and is about to take the
\* first one over.
Crowded == \E t \in Threads : pc[t] = "publish_steal"

\* The cell a walk for k stops at: k's, and after none that is k's or free.
First(k, s) ==
    /\ cells[cell(k, s)].key = k
    /\ \A r \in 0..s - 1 : cells[cell(k, r)].key \notin {k, NoKey}

\* A walk for k finds a clock that is not before c.
Covers(k, c) == \E s \in Steps : First(k, s) /\ c <= cells[cell(k, s)].stamp.clock

\* Where a walk can be.  What it has passed is taken, and it is at its key's
\* cell once it has found or claimed that.  Of a lookup, and of a publisher
\* that is alone under its key, what it has passed is taken by others.
Walked(t, alone) ==
    /\ pc[t] \in PublishPCs \cup LookupPCs =>
         /\ about[t] \in Keys /\ step[t] \in Steps
         /\ \A r \in 0..step[t] - 1 : cells[cell(about[t], r)].key # NoKey
    /\ pc[t] \in LookupPCs \/ (pc[t] \in PublishPCs /\ alone) =>
         \A r \in 0..step[t] - 1 : cells[cell(about[t], r)].key # about[t]
    /\ pc[t] = "publish_claim" /\ alone => cells[cell(about[t], step[t])].key # about[t]
    /\ pc[t] = "publish_steal" =>
         \A r \in Steps : /\ cells[cell(about[t], r)].key # NoKey
                          /\ alone => cells[cell(about[t], r)].key # about[t]
    /\ pc[t] \in {"publish_store", "lookup_read"} =>
         cells[cell(about[t], step[t])].key = about[t]
    /\ pc[t] = "published" => about[t] \in Keys /\ (alone => Covers(about[t], held[t].clock))

\* The shape of the table and of the walks.
Table ==
    /\ cells \in [Cells -> [key : Keys \cup {NoKey}, stamp : Stamp]]
    /\ pc \in [Threads -> PCs \cup BirthPCs]
    /\ about \in [Threads -> Keys \cup {NoKey}]
    /\ step \in [Threads -> Nat]
    /\ held \in [Threads -> Stamp]

\* Cells that are taken stay their keys'.
KeysStay == \A c \in Cells : cells[c].key # NoKey => cells'[c].key = cells[c].key

LEMMA FirstStays ==
    ASSUME KeysStay, NEW k \in Keys, NEW s \in Steps, First(k, s)
    PROVE  First(k, s)'
<1>1. \A r \in 0..s : cell(k, r) \in Cells /\ cells[cell(k, r)].key # NoKey
  BY CellInCells DEF First, Steps
<1>2. \A r \in 0..s : cells'[cell(k, r)].key = cells[cell(k, r)].key
  BY <1>1 DEF KeysStay
<1>3. s \in 0..s /\ \A r \in 0..s - 1 : r \in 0..s
  BY DEF Steps
<1>4. QED
  BY <1>2, <1>3 DEF First, cell

LEMMA FirstIsOne ==
    ASSUME NEW k \in Keys, NEW s \in Steps, NEW r \in Steps, First(k, s),
           cells[cell(k, r)].key = k,
           \A q \in 0..r - 1 : cells[cell(k, q)].key # k
    PROVE  s = r
BY DEF First, Steps

LEMMA CoversStay ==
    ASSUME KeysStay, NEW k \in Keys, NEW c \in Nat, Covers(k, c),
           \A x \in Cells : cells[x].key = k =>
               cells'[x].stamp = cells[x].stamp \/ c <= cells'[x].stamp.clock
    PROVE  Covers(k, c)'
<1>1. PICK s \in Steps : First(k, s) /\ c <= cells[cell(k, s)].stamp.clock
  BY DEF Covers
<1>2. First(k, s)'
  BY <1>1, FirstStays
<1>3. cell(k, s) \in Cells /\ cells[cell(k, s)].key = k
  BY <1>1, CellInCells DEF First
<1>4. c <= cells'[cell(k, s)].stamp.clock
  BY <1>1, <1>3
<1>5. QED
  BY <1>2, <1>4 DEF Covers, cell

\* Another's walk, while this thread stays where it is.
LEMMA WalkedStays ==
    ASSUME Table, NEW u \in Threads, NEW alone \in BOOLEAN, Walked(u, alone), KeysStay,
           pc'[u] = pc[u], about'[u] = about[u], step'[u] = step[u], held'[u] = held[u],
           alone /\ Publishing(u) => \A c \in Cells :
               /\ cells'[c].key = about[u] => cells[c].key = about[u]
               /\ cells[c].key = about[u] => cells'[c].stamp = cells[c].stamp
    PROVE  Walked(u, alone)'
<1> DEFINE k == about[u]
           n == step[u]
<1>1. CASE pc[u] \in PublishPCs \cup LookupPCs
  <2>1. k \in Keys /\ n \in Steps /\ \A r \in 0..n - 1 : r \in Steps
    BY <1>1 DEF Walked, Steps
  <2>2. \A r \in Steps : cell(k, r) \in Cells
    BY <2>1, CellInCells
  <2>3. \A r \in Steps : cells[cell(k, r)].key # NoKey
          => cells'[cell(k, r)].key = cells[cell(k, r)].key
    BY <2>2 DEF KeysStay
  <2>4. alone /\ pc[u] \in PublishPCs =>
          \A r \in Steps : cells[cell(k, r)].key # k => cells'[cell(k, r)].key # k
    BY <2>2 DEF Publishing
  <2>5. k # NoKey
    BY <2>1
  <2>6. /\ \A r \in 0..n - 1 : cells'[cell(k, r)].key # NoKey
        /\ pc[u] \in LookupPCs \/ (pc[u] \in PublishPCs /\ alone) =>
             \A r \in 0..n - 1 : cells'[cell(k, r)].key # k
    BY <1>1, <2>1, <2>3 DEF Walked
  <2>7. pc[u] = "publish_claim" /\ alone => cells'[cell(k, n)].key # k
    BY <2>1, <2>4 DEF Walked, PublishPCs
  <2>8. pc[u] = "publish_steal" =>
          \A r \in Steps : /\ cells'[cell(k, r)].key # NoKey
                           /\ alone => cells'[cell(k, r)].key # k
    BY <2>3 DEF Walked
  <2>9. pc[u] \in {"publish_store", "lookup_read"} => cells'[cell(k, n)].key = k
    BY <2>1, <2>3, <2>5 DEF Walked
  <2>10. pc[u] # "published"
    BY <1>1 DEF PublishPCs, LookupPCs
  <2>11. cell(k, n)' = cell(k, n) /\ \A r \in Steps : cell(about[u], r)' = cell(k, r)
    BY DEF cell
  <2> HIDE DEF k, n
  <2>12. about'[u] = k /\ step'[u] = n
    BY DEF k, n
  <2>13. QED
    BY <1>1, <2>1, <2>6, <2>7, <2>8, <2>9, <2>10, <2>12 DEF Walked, cell
<1>2. CASE pc[u] = "published"
  <2>1. k \in Keys /\ held[u].clock \in Nat /\ (alone => Covers(k, held[u].clock))
    BY <1>2 DEF Walked, Table, Stamp
  <2>2. PICK c \in Nat : c = held[u].clock
    BY <2>1
  <2>3. PICK j \in Keys : j = about[u]
    BY <2>1
  <2>4. alone => Covers(j, c)'
    BY <1>2, <2>1, <2>2, <2>3, CoversStay DEF Publishing
  <2>5. alone => Covers(about[u], held[u].clock)'
    BY <2>2, <2>3, <2>4 DEF Covers, First, cell
  <2>6. QED
    BY <1>2, <2>1, <2>5 DEF Walked, PublishPCs, LookupPCs
<1>3. CASE pc[u] \notin PublishPCs \cup LookupPCs \cup {"published"}
  BY <1>3 DEF Walked, PublishPCs, LookupPCs
<1>4. QED
  BY <1>1, <1>2, <1>3

\* A step of a walk that takes no cell over: where it leads, and what it does
\* to the cells.
Stores(t) ==
    /\ about[t] \in Keys /\ held' = held /\ KeysStay
    /\ \A c \in Cells : cells[c].key = about[t] =>
         cells'[c].stamp \in {cells[c].stamp, held[t]}
    /\ \A c \in Cells : cells[c].key # about[t] =>
         cells'[c].stamp = cells[c].stamp /\ cells'[c].key \in {cells[c].key, about[t]}

Finds(t) ==
    /\ about[t] \in Keys /\ cells' = cells
    /\ pc'[t] = "looked_up" => \A c \in Nat : Covers(about[t], c) => c <= held'[t].clock

LEMMA MovesOn ==
    ASSUME Table, NEW t \in Threads, NEW alone \in BOOLEAN, Walked(t, alone),
           pc[t] \in {"publish_load", "publish_claim", "lookup_load"},
           cells[cell(about[t], step[t])].key # NoKey,
           pc[t] = "lookup_load" \/ alone => cells[cell(about[t], step[t])].key # about[t],
           NEW again \in {"publish_load", "lookup_load"},
           NEW atEnd \in {"publish_steal", "looked_up"},
           pc[t] = "lookup_load" <=> again = "lookup_load",
           pc[t] = "lookup_load" <=> atEnd = "looked_up",
           Onward(t, again, atEnd), cells' = cells, about' = about
    PROVE  /\ Walked(t, alone)'
           /\ pc'[t] = atEnd => step[t] = PROBES - 1
<1> DEFINE k == about[t]
           n == step[t]
<1>1. /\ k \in Keys /\ n \in Steps
      /\ \A r \in 0..n - 1 : cells[cell(k, r)].key # NoKey
      /\ pc[t] = "lookup_load" \/ alone => \A r \in 0..n - 1 : cells[cell(k, r)].key # k
  BY DEF Walked, PublishPCs, LookupPCs
<1>2. CASE n + 1 < PROBES
  <2>1. pc'[t] = again /\ step'[t] = n + 1
    BY <1>2 DEF Onward, Table
  <2>2. n + 1 \in Steps /\ \A r \in 0..(n + 1) - 1 : r = n \/ r \in 0..n - 1
    BY <1>1, <1>2 DEF Steps
  <2>3. /\ \A r \in 0..(n + 1) - 1 : cells[cell(k, r)].key # NoKey
        /\ pc[t] = "lookup_load" \/ alone =>
             \A r \in 0..(n + 1) - 1 : cells[cell(k, r)].key # k
    BY <1>1, <2>2
  <2> HIDE DEF k, n
  <2>4. about'[t] = k /\ step'[t] = n + 1
    BY <2>1 DEF k, n
  <2>5. QED
    BY <1>1, <2>1, <2>2, <2>3, <2>4 DEF Walked, cell, PublishPCs, LookupPCs
<1>3. CASE ~ (n + 1 < PROBES)
  <2>1. pc'[t] = atEnd /\ step'[t] = 0
    BY <1>3 DEF Onward, Table
  <2>2. n = PROBES - 1 /\ \A r \in Steps : r = n \/ r \in 0..n - 1
    BY <1>1, <1>3 DEF Steps
  <2>3. \A r \in Steps : /\ cells[cell(k, r)].key # NoKey
                         /\ pc[t] = "lookup_load" \/ alone => cells[cell(k, r)].key # k
    BY <1>1, <2>2
  <2>4. 0 \in Steps /\ 0..0 - 1 = {}
    BY DEF Steps
  <2> HIDE DEF k, n
  <2>5. about'[t] = k /\ step'[t] = 0
    BY <2>1 DEF k, n
  <2>6. QED
    BY <1>1, <2>1, <2>2, <2>3, <2>4, <2>5 DEF Walked, cell, PublishPCs, LookupPCs, n
<1>4. QED
  BY <1>2, <1>3

LEMMA OthersWait ==
    ASSUME Table, NEW t \in Threads, TableStep(t)
    PROVE  /\ about' = about
           /\ \A u \in Threads : u # t => /\ pc'[u] = pc[u] /\ step'[u] = step[u]
                                          /\ held'[u] = held[u]
           /\ pc[t] \in PublishPCs => pc'[t] \in PublishPCs \cup {"published"}
           /\ pc[t] \in LookupPCs => pc'[t] \in LookupPCs \cup {"looked_up"}
           /\ pc[t] \in PublishPCs \cup LookupPCs
BY DEF Table, TableStep, PublishLoad, PublishClaim, PublishStore, PublishSteal,
       LookupLoad, LookupRead, Onward, PublishPCs, LookupPCs

LEMMA PublishStep ==
    ASSUME Table, NEW t \in Threads, NEW alone \in BOOLEAN, Walked(t, alone),
           pc[t] \in PublishPCs \ {"publish_steal"}, TableStep(t)
    PROVE  Walked(t, alone)' /\ Stores(t)
<1> DEFINE k == about[t]
           n == step[t]
           x == cell(k, n)
<1>1. /\ k \in Keys /\ n \in Steps /\ x \in Cells
      /\ \A r \in Steps : cell(k, r) \in Cells
      /\ \A r \in 0..n - 1 : r \in Steps /\ cells[cell(k, r)].key # NoKey
      /\ alone => \A r \in 0..n - 1 : cells[cell(k, r)].key # k
  BY CellInCells DEF Walked, Steps
<1>2. CASE PublishLoad(t)
  <2>1. /\ cells' = cells /\ about' = about /\ held' = held /\ pc[t] = "publish_load"
        /\ \/ cells[x].key = k /\ pc'[t] = "publish_store" /\ step' = step
           \/ cells[x].key = NoKey /\ pc'[t] = "publish_claim" /\ step' = step
           \/ cells[x].key \notin {NoKey, k} /\ Onward(t, "publish_load", "publish_steal")
    BY <1>2 DEF PublishLoad, Table
  <2>2. Stores(t)
    BY <1>1, <2>1 DEF Stores, KeysStay
  <2>3. CASE cells[x].key \in {k, NoKey}
    <3>1. /\ pc'[t] = IF cells[x].key = k THEN "publish_store" ELSE "publish_claim"
          /\ step' = step
      BY <1>1, <2>1, <2>3
    <3>2. about'[t] = k /\ step'[t] = n /\ cells' = cells
      BY <2>1, <3>1
    <3> HIDE DEF k, n
    <3>3. Walked(t, alone)'
      BY <1>1, <2>3, <3>1, <3>2 DEF Walked, cell, PublishPCs, LookupPCs
    <3>4. QED
      BY <2>2, <3>3
  <2>4. CASE cells[x].key \notin {k, NoKey}
    BY <2>1, <2>2, <2>4, MovesOn
  <2>5. QED
    BY <2>3, <2>4
<1>3. CASE PublishClaim(t)
  <2>1. /\ about' = about /\ held' = held /\ pc[t] = "publish_claim"
        /\ \/ /\ cells[x].key = NoKey /\ cells' = [cells EXCEPT ![x].key = k]
              /\ pc'[t] = "publish_store" /\ step' = step
           \/ cells[x].key # NoKey /\ Onward(t, "publish_load", "publish_steal")
              /\ cells' = cells
    BY <1>3 DEF PublishClaim, Table
  <2>2. CASE cells[x].key = NoKey
    <3>1. /\ cells' = [cells EXCEPT ![x].key = k]
          /\ pc'[t] = "publish_store" /\ step' = step
      BY <2>1, <2>2
    <3>2. \A c \in Cells : /\ cells'[c].stamp = cells[c].stamp
                           /\ cells'[c].key = IF c = x THEN k ELSE cells[c].key
      BY <1>1, <3>1 DEF Table
    <3>3. Stores(t)
      BY <1>1, <2>1, <2>2, <3>2 DEF Stores, KeysStay
    <3>4. /\ about'[t] = k /\ step'[t] = n
          /\ \A r \in Steps : cells'[cell(k, r)].key = IF cell(k, r) = x THEN k
                                                       ELSE cells[cell(k, r)].key
          /\ \A r \in 0..n - 1 : cell(k, r) # x
      <4>1. \A r \in 0..n - 1 : r # n
        BY <1>1 DEF Steps
      <4>2. QED
        BY <1>1, <2>1, <3>1, <3>2, <4>1, CellsApart
    <3>5. cells'[x].key = k /\ k # NoKey
      BY <1>1, <3>2
    <3> HIDE DEF k, n
    <3>6. Walked(t, alone)'
      BY <1>1, <3>1, <3>4, <3>5 DEF Walked, cell, PublishPCs, LookupPCs
    <3>7. QED
      BY <3>3, <3>6
  <2>3. CASE cells[x].key # NoKey
    <3>1. alone => cells[x].key # k
      BY <2>1 DEF Walked
    <3>2. Stores(t)
      BY <1>1, <2>1, <2>3 DEF Stores, KeysStay
    <3>3. QED
      BY <2>1, <2>3, <3>1, <3>2, MovesOn
  <2>4. QED
    BY <2>2, <2>3
<1>4. CASE PublishStore(t)
  <2>1. /\ about' = about /\ held' = held /\ step' = step /\ pc[t] = "publish_store"
        /\ cells' = [cells EXCEPT ![x].stamp = held[t]] /\ pc'[t] = "published"
    BY <1>4 DEF PublishStore, Table
  <2>2. cells[x].key = k
    BY <2>1 DEF Walked
  <2>3. \A c \in Cells : /\ cells'[c].key = cells[c].key
                         /\ cells'[c].stamp = IF c = x THEN held[t] ELSE cells[c].stamp
    BY <1>1, <2>1 DEF Table
  <2>4. Stores(t)
    BY <1>1, <2>1, <2>2, <2>3 DEF Stores, KeysStay
  <2>5. alone => Covers(k, held[t].clock)'
    <3>1. alone => First(k, n)
      BY <1>1, <2>2 DEF First
    <3>2. alone => First(k, n)'
      BY <1>1, <3>1, <2>1, <2>3 DEF First, cell
    <3>3. held[t].clock \in Nat /\ cells'[x].stamp = held[t] /\ held'[t] = held[t]
      BY <1>1, <2>1, <2>3 DEF Table, Stamp
    <3>4. QED
      BY <1>1, <2>1, <3>2, <3>3 DEF Covers, cell
  <2>6. about'[t] = k /\ pc'[t] = "published"
    BY <2>1
  <2>7. Walked(t, alone)'
    BY <1>1, <2>5, <2>6 DEF Walked, PublishPCs, LookupPCs
  <2>8. QED
    BY <2>4, <2>7
<1>5. QED
  BY <1>2, <1>3, <1>4
  DEF TableStep, PublishSteal, LookupLoad, LookupRead, PublishPCs, LookupPCs

LEMMA LookupStep ==
    ASSUME Table, NEW t \in Threads, NEW alone \in BOOLEAN, Walked(t, alone),
           pc[t] \in LookupPCs, TableStep(t)
    PROVE  Walked(t, alone)' /\ Finds(t)
<1> DEFINE k == about[t]
           n == step[t]
           x == cell(k, n)
<1>1. /\ k \in Keys /\ n \in Steps /\ x \in Cells
      /\ \A r \in 0..n - 1 : cells[cell(k, r)].key \notin {NoKey, k}
  BY CellInCells DEF Walked, Steps
<1>2. CASE LookupLoad(t)
  <2>1. /\ cells' = cells /\ about' = about /\ held' = held /\ pc[t] = "lookup_load"
        /\ \/ cells[x].key = k /\ pc'[t] = "lookup_read" /\ step' = step
           \/ cells[x].key = NoKey /\ pc'[t] = "looked_up" /\ step' = step
           \/ cells[x].key \notin {NoKey, k} /\ Onward(t, "lookup_load", "looked_up")
    BY <1>2 DEF LookupLoad, Table
  <2>2. CASE cells[x].key = k
    <3>1. pc'[t] = "lookup_read" /\ step'[t] = n /\ about'[t] = k
      BY <1>1, <2>1, <2>2
    <3>2. Finds(t)
      BY <1>1, <2>1, <3>1 DEF Finds
    <3> HIDE DEF k, n
    <3>3. QED
      BY <1>1, <2>1, <2>2, <3>1, <3>2 DEF Walked, cell, PublishPCs, LookupPCs
  <2>3. CASE cells[x].key = NoKey
    <3>1. pc'[t] = "looked_up"
      BY <1>1, <2>1, <2>3
    <3>2. ~ \E s \in Steps : First(k, s)
      <4> SUFFICES ASSUME NEW s \in Steps, First(k, s) PROVE FALSE
        OBVIOUS
      <4>1. cells[cell(k, s)].key = k /\ \A r \in 0..s - 1 : cells[cell(k, r)].key # NoKey
        BY DEF First
      <4>2. s \notin 0..n - 1 /\ s # n /\ n \notin 0..s - 1
        BY <1>1, <2>3, <4>1
      <4>3. QED
        BY <1>1, <4>2 DEF Steps
    <3>3. QED
      BY <1>1, <2>1, <3>1, <3>2 DEF Finds, Covers, Walked, PublishPCs, LookupPCs
  <2>4. CASE cells[x].key \notin {k, NoKey}
    <3>1. Walked(t, alone)' /\ (pc'[t] = "looked_up" => n = PROBES - 1)
      BY <2>1, <2>4, MovesOn
    <3>2. pc'[t] = "looked_up" => ~ \E s \in Steps : First(k, s)
      <4> SUFFICES ASSUME n = PROBES - 1, NEW s \in Steps, First(k, s) PROVE FALSE
        BY <3>1
      <4>1. s = n \/ s \in 0..n - 1
        BY DEF Steps
      <4>2. QED
        BY <1>1, <2>4, <4>1 DEF First
    <3>3. QED
      BY <1>1, <2>1, <3>1, <3>2 DEF Finds, Covers
  <2>5. QED
    BY <2>2, <2>3, <2>4
<1>3. CASE LookupRead(t)
  <2>1. /\ cells' = cells /\ about' = about /\ pc[t] = "lookup_read"
        /\ held'[t] = cells[x].stamp /\ pc'[t] = "looked_up"
    BY <1>3 DEF LookupRead, Table
  <2>2. cells[x].key = k
    BY <2>1 DEF Walked
  <2>3. \A s \in Steps : First(k, s) => s = n
    BY <1>1, <2>2, FirstIsOne
  <2>4. QED
    BY <1>1, <2>1, <2>2, <2>3 DEF Finds, Covers, Walked, PublishPCs, LookupPCs
<1>4. QED
  BY <1>2, <1>3
  DEF TableStep, PublishLoad, PublishClaim, PublishStore, PublishSteal, PublishPCs, LookupPCs


-----------------------------------------------------------------------------
(* Room for every key                                                      *)

\* A key has one cell, which a walk for it comes to before any free one.
Entered == OneCellPerKey /\ InRun

LEMMA HowManySteps == IsFiniteSet(Steps) /\ Cardinality(Steps) = PROBES
<1>1. PICK n \in Int : n = PROBES - 1 /\ n >= 0
  OBVIOUS
<1>2. IsFiniteSet(0..n) /\ Cardinality(0..n) = IF 0 > n THEN 0 ELSE n - 0 + 1
  BY FS_Interval
<1>3. QED
  BY <1>1, <1>2 DEF Steps

\* With room for every key no walk finds its run full of other keys.
LEMMA RoomyHasRoom ==
    ASSUME Roomy, Table, Entered, NEW k \in Keys
    PROVE  \E r \in Steps : cells[cell(k, r)].key \in {NoKey, k}
<1> DEFINE others == Neighbours(k) \ {k}
           f == [r \in Steps |-> cells[cell(k, r)].key]
<1> SUFFICES ASSUME \A r \in Steps : cells[cell(k, r)].key \notin {NoKey, k} PROVE FALSE
  OBVIOUS
<1>1. \A r \in Steps : cell(k, r) \in Cells
  BY CellInCells
<1>2. ASSUME NEW r \in Steps PROVE f[r] \in others
  <2>1. PICK j \in Keys : j = cells[cell(k, r)].key
    BY <1>1 DEF Table
  <2>2. \E s \in Steps : cell(k, r) = cell(j, s)
    BY <1>1, <2>1 DEF Entered, InRun
  <2>3. cell(k, r) \in Run(k) /\ cell(k, r) \in Run(j)
    BY <2>2 DEF Run
  <2>4. QED
    BY <2>1, <2>3 DEF Neighbours
<1>3. f \in [Steps -> others]
  BY <1>2
<1>4. \A x, y \in Steps : f[x] = f[y] => x = y
  BY <1>1, CellsApart DEF Entered, OneCellPerKey
<1>5. IsFiniteSet(Steps) /\ Cardinality(Steps) = PROBES
  BY HowManySteps
<1>6. k \in Neighbours(k)
  <2>1. cell(k, 0) \in Run(k)
    BY DEF Run, Steps
  <2>2. QED
    BY <2>1 DEF Neighbours
<1>7. IsFiniteSet(Neighbours(k)) /\ Cardinality(Neighbours(k)) <= PROBES
  BY DEF Roomy
<1>8. IsFiniteSet(others) /\ Cardinality(others) = Cardinality(Neighbours(k)) - 1
  BY <1>6, <1>7, FS_RemoveElement
<1>9. Cardinality(others) < Cardinality(Steps)
  BY <1>5, <1>7, <1>8, FS_CardinalityType
<1> HIDE DEF others, f
<1>10. \E x, y \in Steps : x # y /\ f[x] = f[y]
  BY <1>3, <1>5, <1>8, <1>9, FS_PigeonHole
<1>11. QED
  BY <1>4, <1>10

\* A publisher that is alone under its key claims a first cell for it or none.
LEMMA WalksEnter ==
    ASSUME Table, Entered, NEW t \in Threads, Walked(t, TRUE), TableStep(t),
           pc[t] # "publish_steal"
    PROVE  Entered'
<1>1. CASE \A c \in Cells : cells'[c].key = cells[c].key
  <2>1. \A k \in Keys, s \in Steps : \A r \in 0..s - 1 : cell(k, r) \in Cells
    BY CellInCells DEF Steps
  <2>2. OneCellPerKey'
    BY <1>1 DEF Entered, OneCellPerKey
  <2>3. InRun'
    <3> SUFFICES ASSUME NEW c \in Cells, cells[c].key # NoKey
                 PROVE  \E s \in Steps : /\ c = cell(cells[c].key, s)
                                         /\ \A r \in 0..s - 1 :
                                               cells'[cell(cells[c].key, r)].key # NoKey
      BY <1>1 DEF InRun, cell
    <3>1. PICK s \in Steps : /\ c = cell(cells[c].key, s)
                             /\ \A r \in 0..s - 1 : cells[cell(cells[c].key, r)].key # NoKey
      BY DEF Entered, InRun
    <3>2. cells[c].key \in Keys
      BY DEF Table
    <3>3. QED
      BY <1>1, <2>1, <3>1, <3>2
  <2>4. QED
    BY <2>2, <2>3 DEF Entered
<1>2. CASE ~ \A c \in Cells : cells'[c].key = cells[c].key
  <2> DEFINE here == cell(about[t], step[t])
  <2>1. /\ pc[t] = "publish_claim" /\ cells[here].key = NoKey
        /\ cells' = [cells EXCEPT ![here].key = about[t]]
    BY <1>2 DEF TableStep, PublishLoad, PublishClaim, PublishStore, PublishSteal, LookupLoad,
                LookupRead, Table
  <2>2. PICK k \in Keys, n \in Steps : k = about[t] /\ n = step[t]
    BY <2>1 DEF Walked, PublishPCs
  <2>3. here = cell(k, n) /\ here \in Cells /\ k # NoKey
    BY <2>2, CellInCells
  <2>4. \A r \in 0..n - 1 : r \in Steps /\ cell(k, r) \in Cells
                            /\ cells[cell(k, r)].key \notin {NoKey, k}
    <3>1. \A r \in 0..n - 1 : cells[cell(k, r)].key # NoKey
      BY <2>1, <2>2 DEF Walked, PublishPCs
    <3>2. \A r \in 0..n - 1 : cells[cell(k, r)].key # k
      BY <2>1, <2>2 DEF Walked, PublishPCs
    <3>3. \A r \in 0..n - 1 : r \in Steps
      BY DEF Steps
    <3>4. QED
      BY <3>1, <3>2, <3>3, CellInCells
  <2>5. /\ cells'[here].key = k
        /\ \A c \in Cells : c # here => cells'[c].key = cells[c].key
    BY <2>1, <2>2, <2>3 DEF Table
  <2> HIDE DEF here
  <2>6. ASSUME NEW c \in Cells PROVE cells[c].key # k
    <3> SUFFICES ASSUME cells[c].key = k PROVE FALSE
      OBVIOUS
    <3>1. PICK s \in Steps : /\ c = cell(k, s)
                             /\ \A r \in 0..s - 1 : cells[cell(k, r)].key # NoKey
      BY <2>3 DEF Entered, InRun
    <3>2. s < n \/ s = n \/ n \in 0..s - 1
      BY DEF Steps
    <3>3. s < n => s \in 0..n - 1
      BY DEF Steps
    <3>4. QED
      BY <2>1, <2>3, <2>4, <3>1, <3>2, <3>3
  <2>7. OneCellPerKey'
    BY <2>5, <2>6 DEF Entered, OneCellPerKey
  <2>8. InRun'
    <3> SUFFICES ASSUME NEW c \in Cells, cells'[c].key # NoKey
                 PROVE  \E s \in Steps : /\ c = cell(cells'[c].key, s)
                                         /\ \A r \in 0..s - 1 :
                                               cells'[cell(cells'[c].key, r)].key # NoKey
      BY DEF InRun, cell
    <3>1. \A d \in Cells : cells[d].key # NoKey => cells'[d].key # NoKey
      BY <2>3, <2>5
    <3>2. CASE c = here
      BY <2>3, <2>4, <2>5, <3>1, <3>2
    <3>3. CASE c # here
      <4>1. PICK j \in Keys : j = cells[c].key /\ j = cells'[c].key
        BY <2>5, <3>3 DEF Table
      <4>2. PICK s \in Steps : c = cell(j, s) /\ \A r \in 0..s - 1 : cells[cell(j, r)].key # NoKey
        BY <4>1 DEF Entered, InRun
      <4>3. \A r \in 0..s - 1 : cell(j, r) \in Cells
        BY CellInCells DEF Steps
      <4>4. QED
        BY <3>1, <4>1, <4>2, <4>3
    <3>4. QED
      BY <3>2, <3>3
  <2>9. QED
    BY <2>7, <2>8 DEF Entered
<1>3. QED
  BY <1>1, <1>2

-----------------------------------------------------------------------------
(* Room for every publisher                                                *)
(*                                                                         *)
(* A publisher that loses a cell to another publisher of its own key goes  *)
(* on and may claim a second cell for that key, so that a key can have as  *)
(* many cells as publishers, though never two from one of them.            *)

\* Room for every key, each in as many cells as there are threads.
RoomForAll ==
    /\ IsFiniteSet(Threads)
    /\ \A k \in Keys : /\ IsFiniteSet(Neighbours(k))
                       /\ Cardinality(Neighbours(k)) * Cardinality(Threads) <= PROBES

Claiming == {"publish_load", "publish_claim", "publish_steal"}

\* Thread t claimed cell c, in its key's run with nothing free before it, and
\* a walk of t's for the same key has not gone past it.
Claimed(t, c) ==
    /\ t \in Threads
    /\ \E s \in Steps :
         /\ c = cell(cells[c].key, s)
         /\ \A r \in 0..s - 1 : cells[cell(cells[c].key, r)].key # NoKey
         /\ about[t] = cells[c].key /\ pc[t] \in Claiming =>
              pc[t] = "publish_load" /\ step[t] <= s

\* Who claimed which cell: nobody two for one key.
Claimers(by) ==
    /\ by \in [Cells -> Threads \cup {NoThread}]
    /\ \A c \in Cells : cells[c].key # NoKey => Claimed(by[c], c)
    /\ \A c, d \in Cells :
         cells[c].key # NoKey /\ cells[c].key = cells[d].key /\ by[c] = by[d] => c = d

EachClaimed == \E by \in [Cells -> Threads \cup {NoThread}] : Claimers(by)

LEMMA RoomForAllHasRoom ==
    ASSUME RoomForAll, Table, EachClaimed, NEW t \in Threads, NEW k \in Keys,
           pc[t] = "publish_steal", about[t] = k
    PROVE  \E r \in Steps : cells[cell(k, r)].key = NoKey
<1> SUFFICES ASSUME \A r \in Steps : cells[cell(k, r)].key # NoKey PROVE FALSE
  OBVIOUS
<1>0. PICK by \in [Cells -> Threads \cup {NoThread}] : Claimers(by)
  BY DEF EachClaimed
<1> DEFINE pairs == Neighbours(k) \X Threads
           others == pairs \ {<<k, t>>}
           f == [r \in Steps |-> <<cells[cell(k, r)].key, by[cell(k, r)]>>]
<1>1. \A r \in Steps : cell(k, r) \in Cells
  BY CellInCells
<1>2. ASSUME NEW r \in Steps PROVE f[r] \in others
  <2>1. PICK j \in Keys : j = cells[cell(k, r)].key
    BY <1>1 DEF Table
  <2>2. Claimed(by[cell(k, r)], cell(k, r))
    BY <1>0, <1>1 DEF Claimers
  <2>3. by[cell(k, r)] \in Threads /\ \E s \in Steps : cell(k, r) = cell(j, s)
    BY <2>1, <2>2 DEF Claimed
  <2>4. cell(k, r) \in Run(k) /\ cell(k, r) \in Run(j)
    BY <2>3 DEF Run
  <2>5. j \in Neighbours(k)
    BY <2>1, <2>4 DEF Neighbours
  <2>6. j = k => by[cell(k, r)] # t
    BY <2>1, <2>2 DEF Claimed, Claiming
  <2>7. QED
    BY <2>1, <2>3, <2>5, <2>6
<1>3. f \in [Steps -> others]
  BY <1>2
<1>4. \A x, y \in Steps : f[x] = f[y] => x = y
  <2> SUFFICES ASSUME NEW x \in Steps, NEW y \in Steps, f[x] = f[y] PROVE x = y
    OBVIOUS
  <2>1. cells[cell(k, x)].key = cells[cell(k, y)].key /\ by[cell(k, x)] = by[cell(k, y)]
    OBVIOUS
  <2>2. cell(k, x) = cell(k, y)
    BY <1>0, <1>1, <2>1 DEF Claimers
  <2>3. QED
    BY <2>2, CellsApart
<1>5. IsFiniteSet(Steps) /\ Cardinality(Steps) = PROBES
  BY HowManySteps
<1>6. <<k, t>> \in pairs
  <2>1. cell(k, 0) \in Run(k)
    BY DEF Run, Steps
  <2>2. QED
    BY <2>1 DEF Neighbours
<1>7. IsFiniteSet(pairs) /\ Cardinality(pairs) <= PROBES
  <2>1. IsFiniteSet(Neighbours(k)) /\ IsFiniteSet(Threads)
    BY DEF RoomForAll
  <2>2. IsFiniteSet(pairs) /\ Cardinality(pairs) = Cardinality(Neighbours(k)) * Cardinality(Threads)
    BY <2>1, FS_Product
  <2>3. QED
    BY <2>2 DEF RoomForAll
<1> HIDE DEF pairs
<1>8. IsFiniteSet(others) /\ Cardinality(others) = Cardinality(pairs) - 1
  BY <1>6, <1>7, FS_RemoveElement
<1>9. Cardinality(others) < Cardinality(Steps)
  BY <1>5, <1>7, <1>8, FS_CardinalityType
<1> HIDE DEF others, f
<1>10. \E x, y \in Steps : x # y /\ f[x] = f[y]
  BY <1>3, <1>5, <1>8, <1>9, FS_PigeonHole
<1>11. QED
  BY <1>4, <1>10

\* A step that changes no cell's key, and takes no walk past its own cells.
LEMMA ClaimsStay ==
    ASSUME Table, EachClaimed,
           \A c \in Cells : cells'[c].key = cells[c].key,
           \A u \in Threads, k \in Keys, s \in Steps :
               /\ cells[cell(k, s)].key = k
               /\ \A r \in 0..s - 1 : cells[cell(k, r)].key # NoKey
               /\ about[u] = k /\ pc[u] \in Claiming => pc[u] = "publish_load" /\ step[u] <= s
               /\ about'[u] = k /\ pc'[u] \in Claiming
               => pc'[u] = "publish_load" /\ step'[u] <= s
    PROVE  EachClaimed'
<1>1. PICK by \in [Cells -> Threads \cup {NoThread}] : Claimers(by)
  BY DEF EachClaimed
<1>2. ASSUME NEW c \in Cells, cells[c].key # NoKey PROVE Claimed(by[c], c)'
  <2>1. PICK k \in Keys, u \in Threads : k = cells[c].key /\ u = by[c]
    BY <1>1, <1>2 DEF Claimers, Claimed, Table
  <2>2. PICK s \in Steps :
          /\ c = cell(k, s)
          /\ \A r \in 0..s - 1 : cells[cell(k, r)].key # NoKey
          /\ about[u] = k /\ pc[u] \in Claiming => pc[u] = "publish_load" /\ step[u] <= s
    BY <1>1, <1>2, <2>1 DEF Claimers, Claimed
  <2>3. about'[u] = k /\ pc'[u] \in Claiming => pc'[u] = "publish_load" /\ step'[u] <= s
    BY <2>1, <2>2
  <2>4. \A r \in 0..s - 1 : cells'[cell(k, r)].key # NoKey
    <3>1. \A r \in 0..s - 1 : r \in Steps
      BY DEF Steps
    <3>2. \A r \in 0..s - 1 : cell(k, r) \in Cells
      BY <3>1, CellInCells
    <3>3. QED
      BY <2>2, <3>2
  <2>5. Claimed(u, c)'
    BY <2>1, <2>2, <2>3, <2>4 DEF Claimed, cell
  <2>6. QED
    BY <2>1, <2>5
<1>3. Claimers(by)'
  BY <1>1, <1>2 DEF Claimers
<1>4. QED
  BY <1>3 DEF EachClaimed

\* A step that starts a walk for one thread, or none.
LEMMA ClaimsStart ==
    ASSUME Table, EachClaimed, cells' = cells,
           \A u \in Threads :
               \/ pc'[u] \notin Claiming
               \/ pc'[u] = "publish_load" /\ step'[u] = 0
               \/ pc'[u] = pc[u] /\ about'[u] = about[u] /\ step'[u] = step[u]
    PROVE  EachClaimed'
BY ClaimsStay DEF Steps

\* A walk that takes no cell over, alone under its key or not.
LEMMA WalksClaim ==
    ASSUME Table, EachClaimed, NEW t \in Threads, NEW alone \in BOOLEAN, Walked(t, alone),
           TableStep(t), pc[t] # "publish_steal"
    PROVE  EachClaimed'
<1> DEFINE here == cell(about[t], step[t])
<1>1. /\ about' = about
      /\ \A u \in Threads \ {t} : pc'[u] = pc[u] /\ step'[u] = step[u]
      /\ pc[t] \in PublishPCs \cup LookupPCs
  BY OthersWait
<1>2. PICK n \in Steps : n = step[t]
  BY <1>1 DEF Walked
<1>3. CASE \A c \in Cells : cells'[c].key = cells[c].key
  <2>1. ASSUME NEW k \in Keys, NEW s \in Steps, cells[cell(k, s)].key = k,
               \A r \in 0..s - 1 : cells[cell(k, r)].key # NoKey,
               pc[t] \in Claiming => pc[t] = "publish_load" /\ step[t] <= s,
               about[t] = k, pc'[t] \in Claiming
        PROVE  pc'[t] = "publish_load" /\ step'[t] <= s
    <3>1. /\ pc[t] = "publish_load" /\ n <= s /\ here = cell(k, n)
      <4>1. pc[t] \in Claiming
        BY <1>1, <2>1 DEF TableStep, PublishLoad, PublishClaim, PublishStore, PublishSteal,
                          LookupLoad, LookupRead, Onward, Claiming, Table
      <4>2. QED
        BY <1>2, <2>1, <4>1
    <3>2. cells[here].key # NoKey
      <4>1. n \in 0..s - 1 \/ n = s
        BY <3>1 DEF Steps
      <4>2. QED
        BY <2>1, <3>1, <4>1
    <3>3. CASE cells[here].key = k
      BY <2>1, <3>1, <3>2, <3>3
      DEF TableStep, PublishLoad, PublishClaim, PublishStore, PublishSteal, LookupLoad,
          LookupRead, Onward, Claiming, Table
    <3>4. CASE cells[here].key # k
      <4>1. n # s /\ n + 1 <= s /\ n + 1 < PROBES
        BY <2>1, <3>1, <3>4 DEF Steps
      <4>2. Onward(t, "publish_load", "publish_steal")
        BY <2>1, <3>1, <3>2, <3>4
        DEF TableStep, PublishLoad, PublishClaim, PublishStore, PublishSteal, LookupLoad,
            LookupRead
      <4>3. QED
        BY <1>2, <4>1, <4>2 DEF Onward, Table
    <3>5. QED
      BY <3>3, <3>4
  <2>2. QED
    BY <1>1, <1>3, <2>1, ClaimsStay
<1>4. CASE ~ \A c \in Cells : cells'[c].key = cells[c].key
  <2>1. /\ pc[t] = "publish_claim" /\ cells[here].key = NoKey /\ pc'[t] = "publish_store"
        /\ cells' = [cells EXCEPT ![here].key = about[t]]
    BY <1>4 DEF TableStep, PublishLoad, PublishClaim, PublishStore, PublishSteal, LookupLoad,
                LookupRead, Table
  <2>2. PICK k \in Keys : k = about[t]
    BY <2>1 DEF Walked, PublishPCs
  <2>3. PICK h \in Cells : h = here /\ h = cell(k, n) /\ k # NoKey
    BY <1>2, <2>2, CellInCells
  <2>4. \A r \in 0..n - 1 : cells[cell(k, r)].key # NoKey
    BY <1>2, <2>1, <2>2 DEF Walked, PublishPCs
  <2>5. /\ cells'[h].key = k
        /\ \A c \in Cells : c # h => cells'[c].key = cells[c].key
        /\ \A c \in Cells : cells[c].key # NoKey => cells'[c].key # NoKey
    BY <2>1, <2>2, <2>3 DEF Table
  <2>6. PICK by \in [Cells -> Threads \cup {NoThread}] : Claimers(by)
    BY DEF EachClaimed
  <2>7. \A c \in Cells : cells[c].key = k => by[c] # t
    <3> SUFFICES ASSUME NEW c \in Cells, cells[c].key = k, by[c] = t PROVE FALSE
      OBVIOUS
    <3>1. Claimed(t, c)
      BY <2>3, <2>6 DEF Claimers
    <3>2. QED
      BY <2>1, <2>2, <3>1 DEF Claimed, Claiming
  <2>8. PICK new \in [Cells -> Threads \cup {NoThread}] : new = [by EXCEPT ![h] = t]
    OBVIOUS
  <2>9. new[h] = t /\ \A c \in Cells : c # h => new[c] = by[c]
    BY <2>3, <2>8
  <2>10. \A j \in Keys, s \in Steps : \A r \in 0..s - 1 :
            cells[cell(j, r)].key # NoKey => cells'[cell(j, r)].key # NoKey
    <3>1. \A s \in Steps : \A r \in 0..s - 1 : r \in Steps
      BY DEF Steps
    <3>2. QED
      BY <2>5, <3>1, CellInCells
  <2>11. Claimed(t, h)'
    <3>1. \A r \in 0..n - 1 : cells'[cell(k, r)].key # NoKey
      BY <2>4, <2>10
    <3>2. pc'[t] \notin Claiming
      BY <2>1 DEF Claiming
    <3>3. QED
      BY <2>3, <2>5, <3>1, <3>2 DEF Claimed, cell
  <2>12. ASSUME NEW c \in Cells, c # h, cells[c].key # NoKey PROVE Claimed(by[c], c)'
    <3>1. PICK j \in Keys, u \in Threads : j = cells[c].key /\ u = by[c]
      BY <2>6, <2>12 DEF Claimers, Claimed, Table
    <3>2. PICK s \in Steps :
            /\ c = cell(j, s)
            /\ \A r \in 0..s - 1 : cells[cell(j, r)].key # NoKey
            /\ about[u] = j /\ pc[u] \in Claiming => pc[u] = "publish_load" /\ step[u] <= s
      BY <2>6, <2>12, <3>1 DEF Claimers, Claimed
    <3>3. about'[u] = j /\ pc'[u] \in Claiming => pc'[u] = "publish_load" /\ step'[u] <= s
      BY <1>1, <2>1, <3>2 DEF Claiming
    <3>4. cells'[c].key = j /\ \A r \in 0..s - 1 : cells'[cell(j, r)].key # NoKey
      BY <2>5, <2>10, <2>12, <3>1, <3>2
    <3>5. Claimed(u, c)'
      BY <3>2, <3>3, <3>4 DEF Claimed, cell
    <3>6. QED
      BY <3>1, <3>5
  <2>13. \A c \in Cells : cells'[c].key # NoKey => Claimed(new[c], c)'
    <3> SUFFICES ASSUME NEW c \in Cells, cells'[c].key # NoKey PROVE Claimed(new[c], c)'
      OBVIOUS
    <3>1. CASE c = h
      BY <2>9, <2>11, <3>1
    <3>2. CASE c # h
      BY <2>5, <2>9, <2>12, <3>2
    <3>3. QED
      BY <3>1, <3>2
  <2>14. ASSUME NEW c \in Cells, NEW d \in Cells, cells'[c].key # NoKey,
                cells'[c].key = cells'[d].key, new[c] = new[d]
         PROVE  c = d
    <3>1. CASE c # h /\ d # h
      BY <2>5, <2>6, <2>9, <2>14, <3>1 DEF Claimers
    <3>2. CASE c = h /\ d # h
      BY <2>5, <2>7, <2>9, <2>14, <3>2
    <3>3. CASE c # h /\ d = h
      BY <2>5, <2>7, <2>9, <2>14, <3>3
    <3>4. QED
      BY <3>1, <3>2, <3>3
  <2>15. Claimers(new)'
    BY <2>13, <2>14 DEF Claimers
  <2>16. QED
    BY <2>15 DEF EachClaimed
<1>5. QED
  BY <1>3, <1>4

LEMMA NobodyClaimed ==
    ASSUME \A c \in Cells : cells[c].key = NoKey
    PROVE  EachClaimed
<1>1. PICK by \in [Cells -> Threads \cup {NoThread}] : by = [c \in Cells |-> NoThread]
  OBVIOUS
<1>2. Claimers(by)
  BY DEF Claimers
<1>3. QED
  BY <1>2 DEF EachClaimed
-----------------------------------------------------------------------------
(* The invariant of SharedEdges                                            *)

\* The publisher of a key that is the only one: a writer, or who signals.
Alone(t) == about[t] \in RWLocks => holder[about[t]] = t

\* A lock is held by one writer or by readers, and walked for by its holders;
\* semaphores and atomics are published by their owner.
Held ==
    /\ \A k \in RWLocks : holder[k] # NoThread => readers[k] = {}
    /\ \A t \in Threads :
         /\ (Looking(t) \/ Publishing(t)) /\ about[t] \in RWLocks =>
              holder[about[t]] = t \/ t \in readers[about[t]]
         /\ Publishing(t) /\ about[t] \notin RWLocks => owner[about[t]] = t

\* Whoever may publish under a key has behind it all that the key hands on.
Behind ==
    /\ \A k \in RWLocks :
         /\ holder[k] # NoThread => carried[k] \subseteq ordered[holder[k]]
         /\ \A u \in readers[k] : carried[k] \subseteq ordered[u]
    /\ \A k \in Semaphores \cup Atomics :
         carried[k] # {} => owner[k] # NoThread /\ carried[k] \subseteq ordered[owner[k]]
    /\ \A k \in RWLocks : readCarried[k] = {}

\* A thread has passed what is ordered before it, or is about to find a clock
\* past it under the key it took the ordering from.
SharedPassed(t) ==
    \A w \in ordered[t] :
        \/ Passed(plane[w], clock[t])
        \/ pc[t] \in LookupPCs /\ w \in carried[about[t]]
        \/ pc[t] = "looked_up" /\ plane[w].clock <= held[t].clock

\* What a key hands on is covered by its first cell.
HandedOn ==
    \A k \in Keys : \A w \in carried[k] : plane[w] = NONE \/ Covers(k, plane[w].clock)

SharedInv ==
    /\ SharedTypeOK /\ Held /\ Behind /\ HandedOn
    /\ \A t \in Threads : /\ Walked(t, Alone(t))
                          /\ RealClock(t) /\ CarriesOwnClock(t) /\ SharedPassed(t)
    /\ \A w \in Words : RealStamp(w)
    /\ NoFalseReport


-----------------------------------------------------------------------------
(* SharedEdges: the shape of the state                                     *)

USE SharedAssumption

LEMMA SharedShape == SharedTypeOK => TypeOK /\ Table
BY DEF SharedTypeOK, TypeOK, TableTypeOK, Table, Steps

LEMMA SharedInitTypes == SharedInit => SharedTypeOK
BY InitTypes DEF SharedInit, SharedTypeOK

\* epoch::here() and the question asked with it.
LEMMA RacedTypes ==
    ASSUME TypeOK, NEW t \in Threads, NEW w \in Words, Raced(t, w)
    PROVE  /\ clock' \in [Threads -> Stamp] /\ numbers' \in 1..THREADS + 1
           /\ reports' \subseteq Report
<1>1. Here(t) /\ Mine(t) \in Stamp
  BY MineIsAStamp DEF Raced
<1>2. Stopped(Mine(t)) \in BOOLEAN /\ (w \in ordered[t]) \in BOOLEAN
  BY DEF Stopped
<1>3. [word |-> w, ordered |-> w \in ordered[t], stopped |-> Stopped(Mine(t))] \in Report
  BY <1>2, Zenon DEF Report
<1>4. reports \subseteq Report
  BY DEF TypeOK
<1>5. reports' \subseteq Report
  BY <1>3, <1>4, Zenon DEF Raced
<1>6. QED
  BY <1>1, <1>5, KeepTypes DEF Here

LEMMA StampedTypes ==
    ASSUME TypeOK, NEW t \in Threads, Stamped(t)
    PROVE  TypeOK'
<1>1. word[t] \in Words /\ Mine(t) \in Stamp /\ Ticked(Mine(t)) \in Stamp
  BY MineIsAStamp, TickedIsAStamp DEF Stamped, TypeOK
<1>2. clock' \in [Threads -> Stamp] /\ numbers' \in 1..THREADS + 1
  BY <1>1, KeepTypes DEF Stamped
<1>3. /\ plane' \in [Words -> Stamp]
      /\ ordered' \in [Threads -> SUBSET Words]
      /\ carried' \in [Keys -> SUBSET Words]
      /\ fencedOrder' \subseteq Words
  <2>1. CASE Stopped(Mine(t))
    BY <2>1 DEF Stamped, TypeOK, truth
  <2>2. CASE ~ Stopped(Mine(t))
    <3>1. tick(Mine(t)) \in Stamp
      BY <2>2, <1>1, TickedIsAStamp
    <3>2. QED
      BY <1>1, <2>2, <3>1 DEF Stamped, TypeOK
  <2>3. QED
    BY <2>1, <2>2
<1>4. QED
  BY <1>2, <1>3 DEF Stamped, TypeOK, TableTypeOK, PCs, PublishPCs, LookupPCs

LEMMA WalkTypes ==
    ASSUME TypeOK, NEW t \in Threads, Walk(t)
    PROVE  TypeOK'
<1>1. /\ TableTypeOK' /\ pc' \in [Threads -> PCs] /\ pc'[t] # "stamp" /\ about' = about
      /\ \A u \in Threads : u # t => pc'[u] = pc[u]
  BY TableStepTypes DEF Walk
<1>2. about[t] \in Keys
  BY DEF Walk, TypeOK, TableTypeOK, PublishPCs, LookupPCs, TableStep,
         PublishLoad, PublishClaim, PublishStore, PublishSteal, LookupLoad, LookupRead
<1>3. QED
  BY <1>1, <1>2 DEF Walk, TypeOK, monitorVars, truth

LEMMA AcquiredTypes ==
    ASSUME TypeOK, NEW t \in Threads, Acquired(t)
    PROVE  TypeOK'
<1>1. Mine(t) \in Stamp /\ held[t] \in Stamp /\ Synced(Mine(t), held[t]) \in Stamp
  BY MineIsAStamp, SyncedIsAStamp DEF TypeOK, TableTypeOK
<1>2. clock' \in [Threads -> Stamp] /\ numbers' \in 1..THREADS + 1
  BY <1>1, KeepTypes DEF Acquired
<1>3. NONE \in Stamp /\ 0 \in Steps
  BY NoneIsAStamp DEF Steps
<1>4. QED
  BY <1>2, <1>3
  DEF Acquired, EndWalk, TypeOK, TableTypeOK, truth, PCs, PublishPCs, LookupPCs

\* A walk that begins, for a release or after an acquire.
LEMMA BeginTypes ==
    ASSUME TypeOK, NEW t \in Threads, NEW k \in Keys, NEW mine \in Stamp,
           BeginPublish(t, k, mine) \/ BeginLookup(t, k)
    PROVE  /\ TableTypeOK' /\ pc' \in [Threads -> PCs]
           /\ \A u \in Threads : /\ pc'[u] \in {"published", "looked_up", "asleep"}
                                      => about'[u] \in Keys
                                 /\ pc'[u] = "stamp" => word[u] \in Words
<1>1. NONE \in Stamp /\ 0 \in Steps
  BY NoneIsAStamp DEF Steps
<1>2. CASE BeginPublish(t, k, mine)
  BY <1>1, <1>2 DEF BeginPublish, TypeOK, TableTypeOK, PCs, PublishPCs, LookupPCs
<1>3. CASE BeginLookup(t, k)
  BY <1>1, <1>3 DEF BeginLookup, TypeOK, TableTypeOK, PCs, PublishPCs, LookupPCs
<1>4. QED
  BY <1>2, <1>3

LEMMA ReturnTypes ==
    ASSUME TypeOK, NEW t \in Threads, Returns(t), cells' = cells
    PROVE  /\ TableTypeOK' /\ pc' \in [Threads -> PCs]
           /\ \A u \in Threads : /\ pc'[u] \in {"published", "looked_up", "asleep"}
                                      => about'[u] \in Keys
                                 /\ pc'[u] = "stamp" => word[u] \in Words
<1>1. NONE \in Stamp /\ 0 \in Steps
  BY NoneIsAStamp DEF Steps
<1>2. QED
  BY <1>1 DEF Returns, EndWalk, TypeOK, TableTypeOK, PCs, PublishPCs, LookupPCs

LEMMA AcquireTypes ==
    ASSUME TypeOK, NEW t \in Threads, NEW k \in Keys, NEW o \in SUBSET Words,
           Acquires(t, k, o), holder' \in [Keys -> Threads \cup {NoThread}]
    PROVE  TypeOK'
<1>1. NONE \in Stamp
  BY NoneIsAStamp
<1>2. /\ TableTypeOK' /\ pc' \in [Threads -> PCs]
      /\ \A u \in Threads : /\ pc'[u] \in {"published", "looked_up", "asleep"}
                                 => about'[u] \in Keys
                            /\ pc'[u] = "stamp" => word[u] \in Words
  BY <1>1, BeginTypes DEF Acquires
<1>3. ordered' \in [Threads -> SUBSET Words]
  BY DEF Acquires, TypeOK
<1>4. QED
  BY <1>2, <1>3 DEF Acquires, TypeOK, monitorVars

LEMMA ReleaseTypes ==
    ASSUME TypeOK, NEW t \in Threads, NEW k \in Keys, Releases(t, k)
    PROVE  TypeOK'
<1>1. Mine(t) \in Stamp /\ clock' \in [Threads -> Stamp] /\ numbers' \in 1..THREADS + 1
  BY MineIsAStamp, KeepTypes DEF Releases, Here
<1>2. /\ TableTypeOK' /\ pc' \in [Threads -> PCs]
      /\ \A u \in Threads : /\ pc'[u] \in {"published", "looked_up", "asleep"}
                                 => about'[u] \in Keys
                            /\ pc'[u] = "stamp" => word[u] \in Words
  BY <1>1, BeginTypes DEF Releases
<1>3. QED
  BY <1>1, <1>2 DEF Releases, TypeOK, truth

LEMMA SharedStepTypes ==
    ASSUME SharedTypeOK, NEW t \in Threads, SharedStep(t)
    PROVE  SharedTypeOK'
<1>1. TypeOK /\ uses \subseteq Keys
  BY DEF SharedTypeOK
<1> DEFINE same == UNCHANGED sharedVars
<1>2. ASSUME TypeOK', same PROVE SharedTypeOK'
  BY <1>2 DEF SharedTypeOK, sharedVars
<1>3. ASSUME NEW w \in Words, Load(t, w) \/ Store(t, w), same PROVE SharedTypeOK'
  <2>1. /\ clock' \in [Threads -> Stamp] /\ numbers' \in 1..THREADS + 1
        /\ reports' \subseteq Report
    BY <1>1, <1>3, RacedTypes DEF Load, Store
  <2>2. CASE Load(t, w)
    BY <1>1, <1>2, <1>3, <2>1, <2>2 DEF Load, TypeOK, TableTypeOK, tableVars, truth
  <2>3. CASE Store(t, w)
    BY <1>1, <1>2, <1>3, <2>1, <2>3
    DEF Store, TypeOK, TableTypeOK, truth, PCs, PublishPCs, LookupPCs
  <2>4. QED
    BY <1>3, <2>2, <2>3
<1>4. CASE SharedStamped(t)
  <2>1. TypeOK'
    BY <1>1, <1>4, StampedTypes DEF SharedStamped
  <2>2. readCarried' \in [RWLocks -> SUBSET Words]
    BY <1>4 DEF SharedStamped, SharedTypeOK
  <2>3. QED
    BY <1>4, <2>1, <2>2 DEF SharedStamped, SharedTypeOK
<1>5. ASSUME Walk(t) \/ Acquired(t), same PROVE SharedTypeOK'
  BY <1>1, <1>2, <1>5, WalkTypes, AcquiredTypes
<1>6. ASSUME NEW k \in uses, WrLock(t, k) PROVE SharedTypeOK'
  <2>1. holder' \in [Keys -> Threads \cup {NoThread}] /\ k \in Keys
        /\ carried[k] \cup readCarried[k] \in SUBSET Words
    BY <1>6 DEF WrLock, SharedTypeOK, TypeOK
  <2>2. QED
    BY <1>1, <1>2, <1>6, <2>1, AcquireTypes DEF WrLock
<1>7. ASSUME NEW k \in uses, RdLock(t, k) PROVE SharedTypeOK'
  <2>1. holder' \in [Keys -> Threads \cup {NoThread}] /\ k \in Keys
        /\ carried[k] \in SUBSET Words
    BY <1>7 DEF RdLock, SharedTypeOK, TypeOK
  <2>2. TypeOK'
    BY <1>1, <1>7, <2>1, AcquireTypes DEF RdLock
  <2>3. QED
    BY <1>7, <2>2 DEF RdLock, SharedTypeOK
<1>8. ASSUME NEW k \in uses, RwReleased(t, k) PROVE SharedTypeOK'
  BY <1>1, <1>2, <1>8, ReleaseTypes DEF RwReleased
<1>9. CASE WrUnlock(t)
  <2>1. holder' \in [Keys -> Threads \cup {NoThread}] /\ carried' \in [Keys -> SUBSET Words]
    BY <1>1, <1>9 DEF WrUnlock, TypeOK
  <2>2. TypeOK'
    BY <1>1, <1>9, <2>1, ReturnTypes DEF WrUnlock, TypeOK, monitorVars
  <2>3. QED
    BY <1>2, <1>9, <2>2 DEF WrUnlock
<1>10. CASE RdUnlock(t)
  <2>1. TypeOK'
    BY <1>1, <1>10, ReturnTypes DEF RdUnlock, TypeOK, monitorVars, truth
  <2>2. readers' \in [RWLocks -> SUBSET Threads] /\ readCarried' \in [RWLocks -> SUBSET Words]
    BY <1>1, <1>10 DEF RdUnlock, SharedTypeOK, TypeOK
  <2>3. QED
    BY <1>10, <2>1, <2>2 DEF RdUnlock, SharedTypeOK
<1>11. ASSUME NEW k \in uses, Signals(t, k) PROVE SharedTypeOK'
  <2>1. TypeOK'
    BY <1>1, <1>11, ReleaseTypes DEF Signals
  <2>2. QED
    BY <1>11, <2>1 DEF Signals, SharedTypeOK
<1>12. ASSUME NEW k \in uses, SemWait(t, k) PROVE SharedTypeOK'
  <2>1. k \in Keys /\ (IF value[k] = 1 THEN carried[k] ELSE {}) \in SUBSET Words
    BY <1>1, <1>12 DEF SemWait, TypeOK
  <2>2. TypeOK'
    <3>1. holder' \in [Keys -> Threads \cup {NoThread}]
      BY <1>1, <1>12 DEF SemWait, TypeOK
    <3>2. QED
      BY <1>1, <1>12, <2>1, <3>1, AcquireTypes DEF SemWait
  <2>3. value' \in [Semaphores -> 0..POSTS]
    BY <1>12 DEF SemWait, SharedTypeOK
  <2>4. QED
    BY <1>12, <2>2, <2>3 DEF SemWait, SharedTypeOK
<1>13. ASSUME NEW k \in uses, AtomicLoad(t, k) PROVE SharedTypeOK'
  <2>1. k \in Keys /\ carried[k] \in SUBSET Words /\ holder' \in [Keys -> Threads \cup {NoThread}]
    BY <1>1, <1>13 DEF AtomicLoad, TypeOK
  <2>2. QED
    BY <1>1, <1>2, <1>13, <2>1, AcquireTypes DEF AtomicLoad
<1>14. CASE SemPost(t)
  <2>1. about[t] \in Semaphores
    BY <1>14 DEF SemPost, Publishes
  <2>2. value' \in [Semaphores -> 0..POSTS] /\ carried' \in [Keys -> SUBSET Words]
    BY <1>1, <1>14, <2>1 DEF SemPost, SharedTypeOK, TypeOK
  <2>3. TypeOK'
    BY <1>1, <1>14, <2>2, ReturnTypes DEF SemPost, TypeOK, monitorVars
  <2>4. QED
    BY <1>14, <2>2, <2>3 DEF SemPost, SharedTypeOK
<1>15. CASE AtomicStore(t)
  <2>1. carried' \in [Keys -> SUBSET Words]
    BY <1>1, <1>15 DEF AtomicStore, TypeOK
  <2>2. TypeOK'
    BY <1>1, <1>15, <2>1, ReturnTypes DEF AtomicStore, TypeOK, monitorVars
  <2>3. QED
    BY <1>2, <1>15, <2>2 DEF AtomicStore
<1>16. CASE AtomicUpdate(t)
  <2>1. about[t] \in Keys /\ NONE \in Stamp
    BY <1>16, NoneIsAStamp DEF AtomicUpdate, Publishes
  <2>2. carried' \in [Keys -> SUBSET Words] /\ ordered' \in [Threads -> SUBSET Words]
    BY <1>1, <1>16, <2>1 DEF AtomicUpdate, TypeOK
  <2>3. TypeOK'
    BY <1>1, <1>16, <2>1, <2>2, BeginTypes DEF AtomicUpdate, TypeOK, monitorVars
  <2>4. QED
    BY <1>2, <1>16, <2>3 DEF AtomicUpdate
<1>17. QED
  BY <1>3, <1>4, <1>5, <1>6, <1>7, <1>8, <1>9, <1>10, <1>11, <1>12, <1>13, <1>14, <1>15,
     <1>16 DEF SharedStep

-----------------------------------------------------------------------------
(* SharedEdges: what a step of one thread leaves to the others             *)

\* A lock being walked for is held; whoever is alone under a key is the only
\* one to publish it.
LEMMA OnlyPublisher ==
    ASSUME SharedTypeOK, Held, NEW t \in Threads, NEW u \in Threads,
           Publishing(t), Publishing(u), about[t] = about[u], about[u] \in Keys, Alone(u)
    PROVE  t = u
<1>1. CASE about[u] \in RWLocks
  <2>1. holder[about[u]] = u /\ readers[about[u]] = {}
    BY <1>1 DEF Alone, Held
  <2>2. QED
    BY <1>1, <2>1 DEF Held
<1>2. CASE about[u] \notin RWLocks
  BY <1>2 DEF Held
<1>3. QED
  BY <1>1, <1>2

\* A publisher has passed all that its key hands on.
LEMMA PublisherKnows ==
    ASSUME SharedTypeOK, Held, Behind, NEW t \in Threads, Publishing(t),
           NEW k \in Keys, about[t] = k
    PROVE  carried[k] \subseteq ordered[t]
<1>1. CASE k \in RWLocks
  BY <1>1 DEF Held, Behind
<1>2. CASE k \in Semaphores \cup Atomics
  BY <1>2 DEF Held, Behind
<1>3. QED
  BY <1>1, <1>2

LEMMA PublisherCovers ==
    ASSUME SharedInv, NEW t \in Threads, Publishing(t), NEW w \in ordered[t]
    PROVE  w \in Words /\ plane[w] \in Stamp /\ plane[w].clock <= held[t].clock
<1>1. w \in Words /\ plane[w] \in Stamp /\ clock[t] \in Stamp
  BY DEF SharedInv, SharedTypeOK, TypeOK
<1>2. Passed(plane[w], clock[t]) /\ held[t] = clock[t]
  BY DEF SharedInv, SharedPassed, CarriesOwnClock, Publishing, PublishPCs, LookupPCs
<1>3. QED
  BY <1>1, <1>2, PassedIsCovered

LEMMA SharedOthers ==
    ASSUME SharedInv, NEW t \in Threads, NEW u \in Threads, u # t,
           \* What the step leaves to u.
           pc'[u] = pc[u], about'[u] = about[u], step'[u] = step[u], held'[u] = held[u],
           clock'[u] = clock[u], plane' = plane, ordered'[u] = ordered[u], KeysStay,
           \A k \in Keys : carried[k] \subseteq carried'[k],
           \A k \in RWLocks : /\ holder'[k] = u <=> holder[k] = u
                              /\ u \in readers[k] => u \in readers'[k],
           \A k \in Semaphores \cup Atomics : owner[k] = u => owner'[k] = u,
           \* And what it does to the cells of a key that u publishes alone.
           Alone(u) /\ Publishing(u) => \A c \in Cells :
               /\ cells'[c].key = about[u] => cells[c].key = about[u]
               /\ cells[c].key = about[u] => cells'[c].stamp = cells[c].stamp
    PROVE  /\ Walked(u, Alone(u))'
           /\ RealClock(u)' /\ CarriesOwnClock(u)' /\ SharedPassed(u)'
           /\ (Looking(u)' \/ Publishing(u)') /\ about'[u] \in RWLocks =>
                holder'[about'[u]] = u \/ u \in readers'[about'[u]]
           /\ Publishing(u)' /\ about'[u] \notin RWLocks => owner'[about'[u]] = u
<1>1. /\ Walked(u, Alone(u)) /\ Table /\ Held
      /\ RealClock(u) /\ CarriesOwnClock(u) /\ SharedPassed(u)
      /\ Looking(u) \/ Publishing(u) => about[u] \in Keys
  BY SharedShape DEF SharedInv, Walked, Looking, Publishing, SharedTypeOK, TypeOK, TableTypeOK
<1>2. PICK a \in BOOLEAN : a = Alone(u)
  BY DEF Alone
<1>3. a = Alone(u)'
  BY <1>2 DEF Alone
<1>4. Walked(u, a)'
  BY <1>1, <1>2, WalkedStays
<1>5. Walked(u, Alone(u))'
  BY <1>3, <1>4
<1>6. RealClock(u)' /\ CarriesOwnClock(u)'
  BY <1>1 DEF RealClock, CarriesOwnClock, Publishing
<1>7. SharedPassed(u)'
  <2> SUFFICES ASSUME NEW w \in ordered[u]
               PROVE  \/ Passed(plane[w], clock[u])
                      \/ pc[u] \in LookupPCs /\ w \in carried'[about[u]]
                      \/ pc[u] = "looked_up" /\ plane[w].clock <= held[u].clock
    BY DEF SharedPassed
  <2>1. pc[u] \in LookupPCs => about[u] \in Keys
    BY <1>1 DEF Looking
  <2>2. QED
    BY <1>1, <2>1 DEF SharedPassed
<1>8. /\ (Looking(u)' \/ Publishing(u)') /\ about'[u] \in RWLocks =>
           holder'[about'[u]] = u \/ u \in readers'[about'[u]]
      /\ Publishing(u)' /\ about'[u] \notin RWLocks => owner'[about'[u]] = u
  <2>1. (Looking(u)' <=> Looking(u)) /\ (Publishing(u)' <=> Publishing(u))
    BY DEF Looking, Publishing
  <2>2. Publishing(u) /\ about[u] \notin RWLocks => about[u] \in Semaphores \cup Atomics
    BY <1>1
  <2>3. QED
    BY <1>1, <2>1, <2>2 DEF Held
<1>9. QED
  BY <1>5, <1>6, <1>7, <1>8

\* What a step of t shows about t, for the whole invariant to be kept.
LEMMA SharedFrame ==
    ASSUME SharedInv, SharedTypeOK', NEW t \in Threads,
           plane' = plane, KeysStay,
           \A u \in Threads \ {t} :
               /\ pc'[u] = pc[u] /\ about'[u] = about[u] /\ step'[u] = step[u]
               /\ held'[u] = held[u] /\ clock'[u] = clock[u] /\ ordered'[u] = ordered[u],
           \A k \in Keys : carried[k] \subseteq carried'[k],
           \A u \in Threads \ {t}, k \in RWLocks :
               /\ holder'[k] = u <=> holder[k] = u
               /\ u \in readers[k] => u \in readers'[k],
           \A u \in Threads \ {t}, k \in Semaphores \cup Atomics : owner[k] = u => owner'[k] = u,
           \A u \in Threads \ {t} : Alone(u) /\ Publishing(u) => \A c \in Cells :
               /\ cells'[c].key = about[u] => cells[c].key = about[u]
               /\ cells[c].key = about[u] => cells'[c].stamp = cells[c].stamp,
           Walked(t, Alone(t))', RealClock(t)', CarriesOwnClock(t)', SharedPassed(t)',
           (Looking(t)' \/ Publishing(t)') /\ about'[t] \in RWLocks =>
               holder'[about'[t]] = t \/ t \in readers'[about'[t]],
           Publishing(t)' /\ about'[t] \notin RWLocks => owner'[about'[t]] = t,
           \A k \in RWLocks : holder'[k] # NoThread => readers'[k] = {},
           Behind', HandedOn', NoFalseReport'
    PROVE  SharedInv'
<1>1. \A u \in Threads \ {t} :
           /\ Walked(u, Alone(u))'
           /\ RealClock(u)' /\ CarriesOwnClock(u)' /\ SharedPassed(u)'
           /\ (Looking(u)' \/ Publishing(u)') /\ about'[u] \in RWLocks =>
                holder'[about'[u]] = u \/ u \in readers'[about'[u]]
           /\ Publishing(u)' /\ about'[u] \notin RWLocks => owner'[about'[u]] = u
  <2> SUFFICES ASSUME NEW u \in Threads \ {t}
               PROVE  /\ Walked(u, Alone(u))'
                      /\ RealClock(u)' /\ CarriesOwnClock(u)' /\ SharedPassed(u)'
                      /\ (Looking(u)' \/ Publishing(u)') /\ about'[u] \in RWLocks =>
                           holder'[about'[u]] = u \/ u \in readers'[about'[u]]
                      /\ Publishing(u)' /\ about'[u] \notin RWLocks => owner'[about'[u]] = u
    OBVIOUS
  <2>1. u \in Threads /\ u # t
    OBVIOUS
  <2>2. QED
    BY <2>1, SharedOthers
<1>2. Held'
  BY <1>1 DEF Held
<1>3. \A u \in Threads : /\ Walked(u, Alone(u))'
                         /\ RealClock(u)' /\ CarriesOwnClock(u)' /\ SharedPassed(u)'
  BY <1>1
<1>4. \A w \in Words : RealStamp(w)'
  BY DEF SharedInv, RealStamp
<1>5. QED
  BY <1>2, <1>3, <1>4 DEF SharedInv

\* What a step that moves no cell hands on: what was handed on before, and what
\* is ordered before a publisher that is alone and is done.
LEMMA HandsOn ==
    ASSUME SharedInv, NEW t \in Threads, cells' = cells, plane' = plane,
           \A k \in Keys : \/ carried'[k] = carried[k]
                           \/ /\ pc[t] = "published" /\ about[t] = k /\ Alone(t)
                              /\ carried'[k] \subseteq carried[k] \cup ordered[t]
    PROVE  HandedOn'
<1> SUFFICES ASSUME NEW k \in Keys, NEW w \in carried'[k]
             PROVE  plane[w] = NONE \/ Covers(k, plane[w].clock)
  BY DEF HandedOn, Covers, First, cell
<1>1. CASE w \in carried[k]
  BY <1>1 DEF SharedInv, HandedOn
<1>2. CASE w \notin carried[k]
  <2>1. pc[t] = "published" /\ about[t] = k /\ Alone(t) /\ w \in ordered[t]
    BY <1>2
  <2>2. Covers(k, held[t].clock) /\ held[t].clock \in Nat
    BY <2>1 DEF SharedInv, Walked, SharedTypeOK, TypeOK, TableTypeOK, Stamp
  <2>3. plane[w].clock <= held[t].clock /\ plane[w].clock \in Nat
    BY <2>1, PublisherCovers DEF Publishing, Stamp
  <2>4. PICK s \in Steps : First(k, s) /\ held[t].clock <= cells[cell(k, s)].stamp.clock
    BY <2>2 DEF Covers
  <2>5. cells[cell(k, s)].stamp.clock \in Nat
    BY CellInCells DEF SharedInv, SharedTypeOK, TypeOK, TableTypeOK, Stamp
  <2>6. QED
    BY <2>2, <2>3, <2>4, <2>5 DEF Covers
<1>3. QED
  BY <1>1, <1>2

-----------------------------------------------------------------------------
(* SharedEdges: the steps                                                  *)

LEMMA SharedStart == ~ Whole /\ SharedInit => SharedInv
<1> SUFFICES ASSUME SharedInit PROVE SharedInv
  OBVIOUS
<1>1. SharedTypeOK /\ TableInit /\ Init
  BY SharedInitTypes DEF SharedInit, Init
<1>2. /\ \A t \in Threads : pc[t] = "run" /\ clock[t] = NONE
      /\ \A w \in Words : plane[w] = NONE
      /\ \A k \in Keys : carried[k] = {} /\ holder[k] = NoThread
      /\ \A k \in RWLocks : readers[k] = {} /\ readCarried[k] = {}
      /\ reports = {}
  BY DEF SharedInit, Init
<1>3. Held /\ Behind /\ HandedOn /\ NoFalseReport
  BY <1>2 DEF Held, Behind, HandedOn, NoFalseReport, Looking, Publishing, PublishPCs, LookupPCs
<1>4. ASSUME NEW t \in Threads
      PROVE  /\ Walked(t, Alone(t))
             /\ RealClock(t) /\ CarriesOwnClock(t) /\ SharedPassed(t)
  <2>1. ordered[t] \subseteq Words
    BY <1>1 DEF SharedTypeOK, TypeOK
  <2>2. \A w \in ordered[t] : Passed(plane[w], clock[t])
    BY <1>2, <2>1 DEF Passed, NONE
  <2>3. QED
    BY <1>2, <2>2 DEF Walked, RealClock, CarriesOwnClock, SharedPassed, Publishing,
       PublishPCs, LookupPCs
<1>5. \A w \in Words : RealStamp(w)
  BY <1>2 DEF RealStamp
<1>6. QED
  BY <1>1, <1>3, <1>4, <1>5 DEF SharedInv

\* Outside a lookup a thread has passed everything ordered before it.
LEMMA SharedMinePasses ==
    ASSUME SharedInv, NEW t \in Threads, ~ Looking(t), NEW w \in ordered[t]
    PROVE  /\ w \in Words /\ plane[w] \in Stamp
           /\ Passed(plane[w], clock[t]) /\ Passed(plane[w], Mine(t))
<1>1. w \in Words /\ plane[w] \in Stamp /\ clock[t] \in Stamp /\ TypeOK /\ RealClock(t)
  BY DEF SharedInv, SharedTypeOK, TypeOK
<1>2. Passed(plane[w], clock[t])
  BY DEF SharedInv, SharedPassed, Looking
<1>3. QED
  BY <1>1, <1>2, MineFollows, PassedStays

LEMMA SharedRacedIsRight ==
    ASSUME SharedInv, NEW t \in Threads, pc[t] = "run", NEW w \in Words, Raced(t, w)
    PROVE  NoFalseReport'
<1>1. ASSUME unordered(plane[w], Mine(t)), w \in ordered[t] PROVE Stopped(Mine(t))
  <2>1. Passed(plane[w], Mine(t)) /\ plane[w] \in Stamp /\ TypeOK
    BY <1>1, SharedMinePasses DEF Looking, LookupPCs, SharedInv, SharedTypeOK
  <2>2. QED
    BY <1>1, <2>1, MineIsAStamp, PassedIsNotReported
<1>2. \A r \in reports : r.ordered => r.stopped
  BY DEF SharedInv, NoFalseReport
<1>3. CASE unordered(plane[w], Mine(t))
  <2> DEFINE new == [word |-> w, ordered |-> w \in ordered[t], stopped |-> Stopped(Mine(t))]
  <2>1. new.ordered => new.stopped
    BY <1>1, <1>3
  <2>2. reports' = reports \cup {new}
    BY <1>3 DEF Raced
  <2> HIDE DEF new
  <2>3. QED
    BY <1>2, <2>1, <2>2 DEF NoFalseReport
<1>4. CASE ~ unordered(plane[w], Mine(t))
  BY <1>2, <1>4 DEF Raced, NoFalseReport
<1>5. QED
  BY <1>3, <1>4

\* A step that walks for nobody afterwards, and whose thread keeps what it has
\* passed.
LEMMA SharedQuiet ==
    ASSUME SharedInv, SharedTypeOK', NEW t \in Threads,
           cells' = cells, plane' = plane, carried' = carried, ordered' = ordered,
           holder' = holder, UNCHANGED sharedVars,
           \A u \in Threads \ {t} :
               /\ pc'[u] = pc[u] /\ about'[u] = about[u] /\ step'[u] = step[u]
               /\ held'[u] = held[u] /\ clock'[u] = clock[u],
           pc'[t] \in {"run", "stamp"}, clock'[t].clock > 0,
           \A w \in ordered[t] : Passed(plane[w], clock'[t]),
           NoFalseReport'
    PROVE  SharedInv'
<1>1. /\ Walked(t, Alone(t))' /\ CarriesOwnClock(t)' /\ SharedPassed(t)' /\ RealClock(t)'
      /\ ~ Looking(t)' /\ ~ Publishing(t)'
  BY DEF Walked, RealClock, CarriesOwnClock, SharedPassed, Looking, Publishing, PublishPCs,
         LookupPCs
<1>2. Behind' /\ \A k \in RWLocks : holder'[k] # NoThread => readers'[k] = {}
  BY DEF SharedInv, Held, Behind, sharedVars
<1>3. HandedOn' /\ KeysStay
  BY HandsOn DEF KeysStay
<1>4. \A k \in Keys : carried[k] \subseteq carried'[k]
  OBVIOUS
<1>5. /\ \A u \in Threads \ {t}, k \in RWLocks :
           /\ holder'[k] = u <=> holder[k] = u
           /\ u \in readers[k] => u \in readers'[k]
      /\ \A u \in Threads \ {t}, k \in Semaphores \cup Atomics : owner[k] = u => owner'[k] = u
  BY DEF sharedVars
<1>6. QED
  BY <1>1, <1>2, <1>3, <1>4, <1>5, SharedFrame

LEMMA SharedAccess ==
    ASSUME SharedInv, SharedTypeOK', NEW t \in Threads, NEW w \in Words,
           Load(t, w) \/ Store(t, w), UNCHANGED sharedVars
    PROVE  SharedInv'
<1>1. pc[t] = "run" /\ Raced(t, w) /\ Here(t) /\ TypeOK /\ RealClock(t)
  BY DEF Load, Store, Raced, SharedInv, SharedTypeOK
<1>2. /\ cells' = cells /\ plane' = plane /\ carried' = carried /\ ordered' = ordered
      /\ holder' = holder /\ pc'[t] \in {"run", "stamp"}
      /\ \A u \in Threads \ {t} : /\ pc'[u] = pc[u] /\ about'[u] = about[u]
                                  /\ step'[u] = step[u] /\ held'[u] = held[u]
  BY <1>1 DEF Load, Store, tableVars, truth, TypeOK
<1>3. clock'[t] = Mine(t) /\ \A u \in Threads \ {t} : clock'[u] = clock[u]
  BY <1>1 DEF Here, Keep, TypeOK
<1>4. \A x \in ordered[t] : Passed(plane[x], clock'[t])
  BY <1>1, <1>3, SharedMinePasses DEF Looking, LookupPCs
<1>5. clock'[t].clock > 0
  BY <1>1, <1>3, MineFollows
<1>6. NoFalseReport'
  BY <1>1, SharedRacedIsRight
<1>7. QED
  BY <1>2, <1>3, <1>4, <1>5, <1>6, SharedQuiet

LEMMA SharedAcquired ==
    ASSUME SharedInv, SharedTypeOK', NEW t \in Threads, Acquired(t), UNCHANGED sharedVars
    PROVE  SharedInv'
<1>1. /\ pc[t] = "looked_up" /\ TypeOK /\ RealClock(t) /\ SharedPassed(t)
      /\ clock'[t] = Synced(Mine(t), held[t])
      /\ held[t] \in Stamp /\ clock[t] \in Stamp
  BY DEF Acquired, Keep, SharedInv, SharedTypeOK, TypeOK, TableTypeOK
<1>2. /\ cells' = cells /\ plane' = plane /\ carried' = carried /\ ordered' = ordered
      /\ holder' = holder /\ reports' = reports /\ pc'[t] = "run"
      /\ \A u \in Threads \ {t} : /\ pc'[u] = pc[u] /\ about'[u] = about[u]
                                  /\ step'[u] = step[u] /\ held'[u] = held[u]
                                  /\ clock'[u] = clock[u]
  BY <1>1 DEF Acquired, EndWalk, Keep, truth, TypeOK, TableTypeOK
<1>3. /\ Mine(t) \in Stamp /\ Mine(t).clock > 0
      /\ Synced(Mine(t), held[t]) \in Stamp
      /\ Synced(Mine(t), held[t]).thread = Mine(t).thread
      /\ Synced(Mine(t), held[t]).clock >= Mine(t).clock
  BY <1>1, MineFollows, SyncedIsAStamp
<1>4. ASSUME NEW w \in ordered[t] PROVE Passed(plane[w], clock'[t])
  <2>1. w \in Words /\ plane[w] \in Stamp /\ (plane[w].clock = 0 => plane[w] = NONE)
    BY <1>1 DEF SharedInv, TypeOK, RealStamp
  <2>2. CASE Passed(plane[w], clock[t])
    <3>1. Passed(plane[w], Mine(t))
      BY <1>1, <2>1, <2>2, MineFollows, PassedStays
    <3>2. QED
      BY <1>1, <1>3, <2>1, <3>1, PassedStays
  <2>3. CASE plane[w].clock <= held[t].clock
    BY <1>1, <1>3, <2>1, <2>3, CoveredIsPassed
  <2>4. QED
    BY <1>1, <2>2, <2>3 DEF SharedPassed, LookupPCs
<1>5. clock'[t].clock > 0
  BY <1>1, <1>3 DEF Stamp
<1>6. NoFalseReport'
  BY <1>2 DEF SharedInv, NoFalseReport
<1>7. QED
  BY <1>2, <1>4, <1>5, <1>6, SharedQuiet

\* check::stamped: the write is behind its own thread and ahead of nobody it
\* is still said to be ordered before.
LEMMA SharedStampedKeeps ==
    ASSUME SharedInv, SharedTypeOK', NEW t \in Threads, SharedStamped(t)
    PROVE  SharedInv'
<1> DEFINE x == word[t]
<1>1. /\ pc[t] = "stamp" /\ pc'[t] = "run" /\ x \in Words
      /\ cells' = cells /\ about' = about /\ step' = step /\ held' = held /\ holder' = holder
      /\ reports' = reports /\ UNCHANGED <<uses, readers, value, owner>>
      /\ clock'[t] = Ticked(Mine(t))
      /\ \A u \in Threads \ {t} : pc'[u] = pc[u] /\ clock'[u] = clock[u]
  BY DEF SharedStamped, Stamped, Keep, SharedInv, SharedTypeOK, TypeOK
<1>2. /\ TypeOK /\ RealClock(t) /\ ~ Looking(t)
      /\ Mine(t) \in Stamp /\ Mine(t).clock > 0 /\ Ticked(Mine(t)) \in Stamp
  BY <1>1, MineFollows, TickedIsAStamp DEF SharedInv, SharedTypeOK, Looking, LookupPCs
<1>3. CASE Stopped(Mine(t))
  <2>1. /\ plane' = plane /\ ordered' = ordered /\ carried' = carried
        /\ clock'[t] = Mine(t) /\ readCarried' = readCarried
    BY <1>1, <1>3 DEF SharedStamped, Stamped, truth, Ticked
  <2>2. \A w \in ordered[t] : Passed(plane[w], clock'[t])
    BY <1>2, <2>1, SharedMinePasses
  <2>3. clock'[t].clock > 0 /\ UNCHANGED sharedVars /\ NoFalseReport'
    BY <1>1, <1>2, <2>1 DEF sharedVars, SharedInv, NoFalseReport
  <2>4. QED
    BY <1>1, <2>1, <2>2, <2>3, SharedQuiet
<1>4. CASE ~ Stopped(Mine(t))
  <2>1. /\ tick(Mine(t)) = Ticked(Mine(t))
        /\ Ticked(Mine(t)).clock = Mine(t).clock + 1
        /\ Ticked(Mine(t)).thread = Mine(t).thread
    BY <1>2, <1>4, TickedIsAStamp
  <2>2. /\ plane' = [plane EXCEPT ![x] = Ticked(Mine(t))]
        /\ ordered' = [u \in Threads |-> IF u = t THEN ordered[u] \cup {x} ELSE ordered[u] \ {x}]
        /\ carried' = [m \in Keys |-> carried[m] \ {x}]
        /\ readCarried' = [k \in RWLocks |-> readCarried[k] \ {x}]
    BY <1>4, <2>1 DEF SharedStamped, Stamped
  <2>3. /\ plane'[x] = Ticked(Mine(t))
        /\ \A w \in Words : w # x => plane'[w] = plane[w]
    BY <1>1, <1>2, <2>2 DEF TypeOK
  <2>4. Ticked(Mine(t)).clock > 0 /\ Ticked(Mine(t)).clock >= Mine(t).clock
    BY <1>2, <2>1 DEF Stamp
  <2> HIDE DEF x
  <2>5. ASSUME NEW w \in ordered'[t] PROVE Passed(plane'[w], clock'[t])
    <3>1. CASE w = x
      BY <1>1, <2>3, <3>1 DEF Passed
    <3>2. CASE w # x
      <4>1. w \in ordered[t]
        BY <2>2, <3>2
      <4>2. w \in Words /\ plane[w] \in Stamp /\ Passed(plane[w], Mine(t))
        BY <1>2, <4>1, SharedMinePasses
      <4>3. QED
        BY <1>1, <1>2, <2>1, <2>3, <2>4, <3>2, <4>2, PassedStays
    <3>3. QED
      BY <3>1, <3>2
  <2>6. ASSUME NEW u \in Threads \ {t}
        PROVE  SharedPassed(u)' /\ RealClock(u)' /\ CarriesOwnClock(u)'
    <3>1. /\ SharedPassed(u) /\ RealClock(u) /\ CarriesOwnClock(u) /\ ordered[u] \subseteq Words
          /\ pc[u] \in LookupPCs => about[u] \in Keys
      BY DEF SharedInv, SharedTypeOK, TypeOK, TableTypeOK
    <3>2. ordered'[u] = ordered[u] \ {x} /\ pc[u] \in LookupPCs => carried'[about[u]] = carried[about[u]] \ {x}
      BY <2>2, <3>1
    <3>3. SharedPassed(u)'
      <4> SUFFICES ASSUME NEW w \in ordered[u] \ {x}
                   PROVE  \/ Passed(plane'[w], clock'[u])
                          \/ pc'[u] \in LookupPCs /\ w \in carried'[about'[u]]
                          \/ pc'[u] = "looked_up" /\ plane'[w].clock <= held'[u].clock
        BY <2>2 DEF SharedPassed
      <4>1. w \in Words /\ plane'[w] = plane[w]
        BY <2>3, <3>1
      <4>2. CASE Passed(plane[w], clock[u])
        BY <1>1, <4>1, <4>2
      <4>3. CASE pc[u] \in LookupPCs /\ w \in carried[about[u]]
        BY <1>1, <2>2, <3>1, <4>3
      <4>4. CASE pc[u] = "looked_up" /\ plane[w].clock <= held[u].clock
        BY <1>1, <4>1, <4>4
      <4>5. QED
        BY <3>1, <4>2, <4>3, <4>4 DEF SharedPassed
    <3>4. QED
      BY <1>1, <3>1, <3>3 DEF RealClock, CarriesOwnClock, Publishing
  <2>7. ASSUME NEW u \in Threads PROVE Walked(u, Alone(u))'
    <3>1. Walked(u, Alone(u)) /\ Table
      BY SharedShape DEF SharedInv
    <3>2. CASE u = t
      BY <1>1, <3>2 DEF Walked, PublishPCs, LookupPCs
    <3>3. CASE u # t
      <4>1. PICK a \in BOOLEAN : a = Alone(u)
        BY DEF Alone
      <4>2. a = Alone(u)' /\ pc'[u] = pc[u] /\ KeysStay
        BY <1>1, <3>3, <4>1 DEF Alone, KeysStay
      <4>3. Walked(u, a)'
        BY <1>1, <3>1, <4>1, <4>2, WalkedStays
      <4>4. QED
        BY <4>2, <4>3
    <3>4. QED
      BY <3>2, <3>3
  <2>8. Held'
    <3>1. \A u \in Threads : /\ (Looking(u)' => Looking(u)) /\ (Publishing(u)' => Publishing(u))
      BY <1>1 DEF Looking, Publishing, PublishPCs, LookupPCs
    <3>2. QED
      BY <1>1, <3>1 DEF SharedInv, Held
  <2>9. Behind'
    <3>1. Behind /\ holder \in [Keys -> Threads \cup {NoThread}]
          /\ owner \in [Semaphores \cup Atomics -> Threads \cup {NoThread}]
          /\ readers \in [RWLocks -> SUBSET Threads]
      BY DEF SharedInv, SharedTypeOK, TypeOK
    <3>2. \A u \in Threads : ordered[u] \ {x} \subseteq ordered'[u]
      BY <2>2
    <3>3. \A k \in Keys : carried'[k] = carried[k] \ {x}
      BY <2>2
    <3>4. \A k \in RWLocks : readCarried'[k] = {}
      BY <2>2, <3>1 DEF Behind
    <3>5. \A k \in RWLocks : /\ holder[k] # NoThread => carried'[k] \subseteq ordered'[holder[k]]
                             /\ \A u \in readers[k] : carried'[k] \subseteq ordered'[u]
      BY <3>1, <3>2, <3>3 DEF Behind
    <3>6. \A k \in Semaphores \cup Atomics :
            carried'[k] # {} => owner[k] # NoThread /\ carried'[k] \subseteq ordered'[owner[k]]
      BY <3>1, <3>2, <3>3 DEF Behind
    <3>7. QED
      BY <1>1, <3>4, <3>5, <3>6 DEF Behind
  <2>10. HandedOn'
    <3> SUFFICES ASSUME NEW k \in Keys, NEW w \in carried'[k]
                 PROVE  plane'[w] = NONE \/ Covers(k, plane'[w].clock)
      BY <1>1 DEF HandedOn, Covers, First, cell
    <3>1. w \in carried[k] /\ w # x /\ w \in Words
      BY <2>2 DEF SharedInv, SharedTypeOK, TypeOK
    <3>2. QED
      BY <2>3, <3>1 DEF SharedInv, HandedOn
  <2>11. ASSUME NEW w \in Words PROVE RealStamp(w)'
    BY <2>3, <2>4 DEF SharedInv, RealStamp
  <2>12. SharedPassed(t)' /\ RealClock(t)' /\ CarriesOwnClock(t)'
    BY <1>1, <2>4, <2>5 DEF SharedPassed, RealClock, CarriesOwnClock, Publishing, PublishPCs
  <2>13. NoFalseReport'
    BY <1>1 DEF SharedInv, NoFalseReport
  <2>14. QED
    BY <2>6, <2>7, <2>8, <2>9, <2>10, <2>11, <2>12, <2>13 DEF SharedInv
<1>5. QED
  BY <1>3, <1>4

LEMMA SharedWalk ==
    ASSUME SharedInv, SharedTypeOK', NEW t \in Threads, Walk(t), UNCHANGED sharedVars,
           ~ Crowded
    PROVE  SharedInv'
<1>1. /\ Table /\ TableStep(t) /\ pc[t] # "publish_steal"
      /\ plane' = plane /\ carried' = carried /\ ordered' = ordered /\ clock' = clock
      /\ holder' = holder /\ reports' = reports
      /\ uses' = uses /\ readers' = readers /\ readCarried' = readCarried /\ owner' = owner
  BY SharedShape DEF SharedInv, Walk, monitorVars, truth, sharedVars, Crowded
<1>2. /\ about' = about
      /\ \A u \in Threads \ {t} : pc'[u] = pc[u] /\ step'[u] = step[u] /\ held'[u] = held[u]
      /\ pc[t] \in PublishPCs => pc'[t] \in PublishPCs \cup {"published"}
      /\ pc[t] \in LookupPCs => pc'[t] \in LookupPCs \cup {"looked_up"}
      /\ pc[t] \in PublishPCs \cup LookupPCs
  BY <1>1, OthersWait
<1>3. PICK a \in BOOLEAN : a = Alone(t)
  BY DEF Alone
<1>4. Walked(t, a) /\ a = Alone(t)' /\ SharedPassed(t) /\ RealClock(t) /\ CarriesOwnClock(t)
  BY <1>1, <1>2, <1>3 DEF SharedInv, Alone
<1>5. PICK k \in Keys : k = about[t]
  BY <1>2, <1>4 DEF Walked
<1>6. Behind' /\ NoFalseReport' /\ \A j \in RWLocks : holder'[j] # NoThread => readers'[j] = {}
  BY <1>1 DEF SharedInv, Held, Behind, NoFalseReport
<1>7. RealClock(t)' /\ (CarriesOwnClock(t)' <=> (Publishing(t)' => held'[t] = clock[t] /\ clock[t] # NONE))
  BY <1>1, <1>4 DEF RealClock, CarriesOwnClock
<1>8. /\ Looking(t)' => Looking(t)
      /\ Publishing(t)' => Publishing(t)
  BY <1>2 DEF Looking, Publishing, PublishPCs, LookupPCs
<1>9. /\ (Looking(t)' \/ Publishing(t)') /\ about'[t] \in RWLocks =>
           holder'[about'[t]] = t \/ t \in readers'[about'[t]]
      /\ Publishing(t)' /\ about'[t] \notin RWLocks => owner'[about'[t]] = t
  BY <1>1, <1>2, <1>8 DEF SharedInv, Held
<1>10. CASE pc[t] \in PublishPCs
  <2>1. Walked(t, a)' /\ Stores(t)
    BY <1>1, <1>4, <1>10, PublishStep
  <2>2. Publishing(t) /\ KeysStay /\ held' = held
    BY <1>10, <2>1 DEF Publishing, Stores
  <2>3. ASSUME NEW w \in carried[k]
        PROVE  /\ w \in Words /\ plane[w] \in Stamp /\ plane[w].clock <= held[t].clock
    <3>1. w \in ordered[t]
      BY <1>5, <2>2, PublisherKnows DEF SharedInv
    <3>2. QED
      BY <2>2, <3>1, PublisherCovers
  <2>4. HandedOn'
    <3> SUFFICES ASSUME NEW j \in Keys, NEW w \in carried[j]
                 PROVE  plane[w] = NONE \/ Covers(j, plane[w].clock)'
      BY <1>1 DEF HandedOn, Covers, First, cell
    <3>1. PICK c : c = plane[w].clock
      OBVIOUS
    <3>2. c \in Nat
      BY <3>1 DEF SharedInv, SharedTypeOK, TypeOK, Stamp
    <3>3. SUFFICES ASSUME Covers(j, c) PROVE Covers(j, c)'
      BY <1>1, <3>1 DEF SharedInv, HandedOn, Covers, First, cell
    <3>4. \A x \in Cells : cells[x].key = j =>
              cells'[x].stamp = cells[x].stamp \/ c <= cells'[x].stamp.clock
      <4>1. CASE j = k
        BY <1>5, <2>1, <2>3, <3>1, <4>1 DEF Stores
      <4>2. CASE j # k
        BY <1>5, <2>1, <4>2 DEF Stores
      <4>3. QED
        BY <4>1, <4>2
    <3>5. QED
      BY <2>2, <3>2, <3>3, <3>4, CoversStay
  <2>5. ASSUME NEW u \in Threads \ {t}, Alone(u), Publishing(u)
        PROVE  \A c \in Cells : /\ cells'[c].key = about[u] => cells[c].key = about[u]
                                /\ cells[c].key = about[u] => cells'[c].stamp = cells[c].stamp
    <3>1. about[u] # k
      BY <1>5, <2>2, <2>5, OnlyPublisher DEF SharedInv
    <3>2. QED
      BY <1>5, <2>1, <3>1 DEF Stores, KeysStay
  <2>6. SharedPassed(t)'
    <3>1. \A w \in ordered[t] : Passed(plane[w], clock[t])
      BY <1>4, <1>10 DEF SharedPassed, PublishPCs, LookupPCs
    <3>2. QED
      BY <1>1, <3>1 DEF SharedPassed
  <2>7. CarriesOwnClock(t)'
    BY <1>4, <1>7, <2>2 DEF CarriesOwnClock
  <2>8. Walked(t, Alone(t))'
    BY <1>4, <2>1
  <2>9. /\ \A u \in Threads \ {t}, j \in RWLocks :
             /\ holder'[j] = u <=> holder[j] = u
             /\ u \in readers[j] => u \in readers'[j]
        /\ \A u \in Threads \ {t}, j \in Semaphores \cup Atomics :
             owner[j] = u => owner'[j] = u
    BY <1>1
  <2>10. QED
    BY <1>1, <1>2, <1>6, <1>7, <1>9, <2>2, <2>4, <2>5, <2>6, <2>7, <2>8, <2>9, SharedFrame
<1>11. CASE pc[t] \in LookupPCs
  <2>1. Walked(t, a)' /\ Finds(t)
    BY <1>1, <1>4, <1>11, LookupStep
  <2>2. cells' = cells /\ KeysStay
    BY <2>1 DEF Finds, KeysStay
  <2>3. HandedOn'
    BY <1>1, <2>2, HandsOn
  <2>4. CarriesOwnClock(t)'
    BY <1>2, <1>7, <1>11 DEF Publishing, PublishPCs, LookupPCs
  <2>5. SharedPassed(t)'
    <3> SUFFICES ASSUME NEW w \in ordered[t], ~ Passed(plane[w], clock[t])
                 PROVE  \/ pc'[t] \in LookupPCs /\ w \in carried[k]
                        \/ pc'[t] = "looked_up" /\ plane[w].clock <= held'[t].clock
      BY <1>1, <1>2, <1>5 DEF SharedPassed
    <3>1. w \in carried[k]
      BY <1>4, <1>5, <1>11 DEF SharedPassed, LookupPCs
    <3>2. CASE pc'[t] = "looked_up"
      <4>1. plane[w].clock \in Nat /\ held'[t].clock \in Nat
        BY DEF SharedInv, SharedTypeOK, TypeOK, TableTypeOK, Stamp
      <4>2. CASE plane[w] = NONE
        BY <3>2, <4>1, <4>2 DEF NONE
      <4>3. CASE Covers(k, plane[w].clock)
        BY <1>5, <2>1, <3>2, <4>1, <4>3 DEF Finds
      <4>4. QED
        BY <3>1, <4>2, <4>3 DEF SharedInv, HandedOn
    <3>3. QED
      BY <1>2, <1>11, <3>1, <3>2
  <2>6. Walked(t, Alone(t))'
    BY <1>4, <2>1
  <2>7. /\ \A u \in Threads \ {t}, j \in RWLocks :
             /\ holder'[j] = u <=> holder[j] = u
             /\ u \in readers[j] => u \in readers'[j]
        /\ \A u \in Threads \ {t}, j \in Semaphores \cup Atomics :
             owner[j] = u => owner'[j] = u
        /\ \A u \in Threads \ {t} : Alone(u) /\ Publishing(u) => \A c \in Cells :
               /\ cells'[c].key = about[u] => cells[c].key = about[u]
               /\ cells[c].key = about[u] => cells'[c].stamp = cells[c].stamp
    BY <1>1, <2>2
  <2>8. QED
    BY <1>1, <1>2, <1>6, <1>7, <1>9, <2>2, <2>3, <2>4, <2>5, <2>6, <2>7, SharedFrame
<1>12. QED
  BY <1>2, <1>10, <1>11

\* The end of a real call that takes an ordering: the lookup that is to cover
\* it has begun.
LEMMA SharedTakes ==
    ASSUME SharedInv, SharedTypeOK', NEW t \in Threads, NEW k \in Keys, pc[t] = "run",
           NEW o \in SUBSET Words, o \subseteq carried[k], Acquires(t, k, o),
           owner' = owner, readCarried' = readCarried,
           \A j \in RWLocks : \/ holder'[j] = holder[j]
                              \/ j = k /\ holder[j] = NoThread /\ holder'[j] = t /\ o = carried[k],
           \A j \in RWLocks : \/ readers'[j] = readers[j]
                              \/ j = k /\ readers'[j] = readers[j] \cup {t} /\ o = carried[k],
           \A j \in RWLocks : holder'[j] # NoThread => readers'[j] = {},
           k \in RWLocks => holder'[k] = t \/ t \in readers'[k]
    PROVE  SharedInv'
<1>1. /\ cells' = cells /\ plane' = plane /\ carried' = carried /\ clock' = clock
      /\ reports' = reports /\ pc'[t] = "lookup_load" /\ about'[t] = k /\ step'[t] = 0
      /\ ordered'[t] = ordered[t] \cup o
      /\ \A u \in Threads \ {t} :
           /\ pc'[u] = pc[u] /\ about'[u] = about[u] /\ step'[u] = step[u]
           /\ held'[u] = held[u] /\ ordered'[u] = ordered[u]
  BY DEF Acquires, BeginLookup, monitorVars, SharedInv, SharedTypeOK, TypeOK, TableTypeOK
<1>2. \A w \in ordered[t] : Passed(plane[w], clock[t])
  BY SharedMinePasses DEF Looking, LookupPCs
<1>3. SharedPassed(t)'
  BY <1>1, <1>2 DEF SharedPassed, LookupPCs
<1>4. RealClock(t)' /\ CarriesOwnClock(t)' /\ ~ Publishing(t)'
  BY <1>1 DEF SharedInv, RealClock, CarriesOwnClock, Publishing, PublishPCs
<1>5. Walked(t, Alone(t))'
  BY <1>1 DEF Walked, PublishPCs, LookupPCs, Steps
<1>6. Behind'
  <2>1. \A u \in Threads : ordered[u] \subseteq ordered'[u]
    BY <1>1
  <2>2. ASSUME NEW j \in RWLocks
        PROVE  /\ holder'[j] # NoThread => carried[j] \subseteq ordered'[holder'[j]]
               /\ \A u \in readers'[j] : carried[j] \subseteq ordered'[u]
    <3>1. /\ holder[j] # NoThread => carried[j] \subseteq ordered[holder[j]]
          /\ \A u \in readers[j] : carried[j] \subseteq ordered[u]
          /\ holder[j] \in Threads \cup {NoThread} /\ readers[j] \subseteq Threads
      BY DEF SharedInv, Behind, SharedTypeOK, TypeOK
    <3>2. holder'[j] # NoThread => carried[j] \subseteq ordered'[holder'[j]]
      BY <1>1, <2>1, <3>1
    <3>3. \A u \in readers'[j] : carried[j] \subseteq ordered'[u]
      BY <1>1, <2>1, <3>1
    <3>4. QED
      BY <3>2, <3>3
  <2>3. \A j \in Semaphores \cup Atomics :
          carried[j] # {} => owner[j] # NoThread /\ carried[j] \subseteq ordered'[owner[j]]
    BY <2>1 DEF SharedInv, Behind, SharedTypeOK
  <2>4. QED
    BY <1>1, <2>2, <2>3 DEF SharedInv, Behind
<1>7. HandedOn' /\ NoFalseReport' /\ KeysStay
  BY <1>1, HandsOn DEF SharedInv, NoFalseReport, KeysStay
<1>8. /\ \A j \in Keys : carried[j] \subseteq carried'[j]
      /\ \A u \in Threads \ {t}, j \in RWLocks :
           /\ holder'[j] = u <=> holder[j] = u
           /\ u \in readers[j] => u \in readers'[j]
      /\ \A u \in Threads \ {t}, j \in Semaphores \cup Atomics : owner[j] = u => owner'[j] = u
  BY <1>1
<1>9. QED
  BY <1>1, <1>3, <1>4, <1>5, <1>6, <1>7, <1>8, SharedFrame

\* The beginning of released(): the clock the walk carries is the thread's own.
LEMMA SharedGives ==
    ASSUME SharedInv, SharedTypeOK', NEW t \in Threads, NEW k \in Keys, pc[t] = "run",
           Releases(t, k), readers' = readers, readCarried' = readCarried,
           \A j \in Semaphores \cup Atomics :
               owner'[j] = owner[j] \/ (j = k /\ owner[j] \in {NoThread, t} /\ owner'[j] = t),
           k \in RWLocks => holder[k] = t \/ t \in readers[k],
           k \notin RWLocks => owner'[k] = t
    PROVE  SharedInv'
<1>1. /\ cells' = cells /\ plane' = plane /\ carried' = carried /\ ordered' = ordered
      /\ holder' = holder /\ reports' = reports
      /\ pc'[t] = "publish_load" /\ about'[t] = k /\ step'[t] = 0
      /\ held'[t] = Mine(t) /\ clock'[t] = Mine(t)
      /\ \A u \in Threads \ {t} :
           /\ pc'[u] = pc[u] /\ about'[u] = about[u] /\ step'[u] = step[u]
           /\ held'[u] = held[u] /\ clock'[u] = clock[u]
  BY DEF Releases, Here, Keep, BeginPublish, truth, SharedInv, SharedTypeOK, TypeOK, TableTypeOK
<1>2. Mine(t) # NONE /\ Mine(t).clock > 0
  BY MineFollows DEF SharedInv, SharedTypeOK
<1>3. \A w \in ordered[t] : Passed(plane[w], Mine(t))
  BY SharedMinePasses DEF Looking, LookupPCs
<1>4. /\ SharedPassed(t)' /\ RealClock(t)' /\ CarriesOwnClock(t)' /\ ~ Looking(t)'
  BY <1>1, <1>2, <1>3 DEF SharedPassed, RealClock, CarriesOwnClock, Looking, LookupPCs
<1>5. Walked(t, Alone(t))'
  BY <1>1 DEF Walked, PublishPCs, LookupPCs, Steps
<1>6. Behind' /\ \A j \in RWLocks : holder'[j] # NoThread => readers'[j] = {}
  <2>1. NoThread \notin Threads /\ Behind /\ Held
    BY DEF SharedInv
  <2>2. \A j \in Semaphores \cup Atomics :
          carried[j] # {} => owner'[j] # NoThread /\ carried[j] \subseteq ordered[owner'[j]]
    BY <2>1 DEF Behind
  <2>3. QED
    BY <1>1, <2>1, <2>2 DEF Behind, Held
<1>7. HandedOn' /\ NoFalseReport' /\ KeysStay
  BY <1>1, HandsOn DEF SharedInv, NoFalseReport, KeysStay
<1>8. /\ \A j \in Keys : carried[j] \subseteq carried'[j]
      /\ \A u \in Threads \ {t}, j \in RWLocks :
           /\ holder'[j] = u <=> holder[j] = u
           /\ u \in readers[j] => u \in readers'[j]
      /\ \A u \in Threads \ {t}, j \in Semaphores \cup Atomics : owner[j] = u => owner'[j] = u
  BY <1>1
<1>9. QED
  BY <1>1, <1>4, <1>5, <1>6, <1>7, <1>8, SharedFrame

\* The real call after a release: what the key hands on grows, if at all, by
\* what is ordered before the publisher, and only when it was alone.
LEMMA SharedReturns ==
    ASSUME SharedInv, SharedTypeOK', NEW t \in Threads, NEW k \in Keys, about[t] = k,
           pc[t] = "published", Returns(t), cells' = cells,
           UNCHANGED <<plane, clock, ordered, reports, readCarried, owner>>,
           \A j \in Keys : carried'[j] = carried[j] \/ j = k,
           carried[k] \subseteq carried'[k], carried'[k] \subseteq carried[k] \cup ordered[t],
           carried'[k] = carried[k] \/ Alone(t),
           \A j \in RWLocks : \/ holder'[j] = holder[j]
                              \/ j = k /\ holder[j] = t /\ holder'[j] = NoThread,
           \A j \in RWLocks : \/ readers'[j] = readers[j]
                              \/ j = k /\ readers'[j] = readers[j] \ {t} /\ holder'[j] = holder[j],
           k \in RWLocks /\ holder'[k] # NoThread => carried'[k] = carried[k],
           k \in RWLocks => readers'[k] = {} \/ carried'[k] = carried[k]
    PROVE  SharedInv'
<1>1. /\ pc'[t] = "run"
      /\ \A u \in Threads \ {t} :
           /\ pc'[u] = pc[u] /\ about'[u] = about[u] /\ step'[u] = step[u]
           /\ held'[u] = held[u]
  BY DEF Returns, EndWalk, SharedInv, SharedTypeOK, TypeOK, TableTypeOK
<1>2. \A w \in ordered[t] : Passed(plane[w], clock[t])
  BY SharedMinePasses DEF Looking, LookupPCs
<1>3. /\ SharedPassed(t)' /\ RealClock(t)' /\ CarriesOwnClock(t)'
      /\ ~ Looking(t)' /\ ~ Publishing(t)' /\ Walked(t, Alone(t))'
  BY <1>1, <1>2 DEF SharedPassed, RealClock, CarriesOwnClock, Looking, Publishing, Walked,
     PublishPCs, LookupPCs, SharedInv
<1>4. Publishing(t) /\ carried[k] \subseteq ordered[t]
  BY PublisherKnows DEF SharedInv, Publishing
<1>5. Behind'
  <2>1. Behind /\ Held /\ NoThread \notin Threads
    BY DEF SharedInv
  <2>2. ASSUME NEW j \in RWLocks
        PROVE  /\ holder'[j] # NoThread => carried'[j] \subseteq ordered[holder'[j]]
               /\ \A u \in readers'[j] : carried'[j] \subseteq ordered[u]
    BY <2>1 DEF Behind
  <2>3. ASSUME NEW j \in Semaphores \cup Atomics
        PROVE  carried'[j] # {} => owner[j] # NoThread /\ carried'[j] \subseteq ordered[owner[j]]
    <3>1. CASE j = k
      <4>1. owner[k] = t
        BY <1>4, <2>1, <3>1 DEF Held
      <4>2. QED
        BY <1>4, <3>1, <4>1
    <3>2. CASE j # k
      BY <2>1, <3>2 DEF Behind
    <3>3. QED
      BY <3>1, <3>2
  <2>4. QED
    BY <2>1, <2>2, <2>3 DEF Behind
<1>6. HandedOn'
  BY HandsOn
<1>7. /\ NoFalseReport' /\ KeysStay
      /\ \A j \in RWLocks : holder'[j] # NoThread => readers'[j] = {}
  BY DEF SharedInv, Held, NoFalseReport, KeysStay
<1>8. /\ \A j \in Keys : carried[j] \subseteq carried'[j]
      /\ \A u \in Threads \ {t}, j \in RWLocks :
           /\ holder'[j] = u <=> holder[j] = u
           /\ u \in readers[j] => u \in readers'[j]
      /\ \A u \in Threads \ {t}, j \in Semaphores \cup Atomics : owner[j] = u => owner'[j] = u
      /\ \A u \in Threads \ {t} : clock'[u] = clock[u] /\ ordered'[u] = ordered[u]
      /\ \A u \in Threads \ {t} : Alone(u) /\ Publishing(u) => \A c \in Cells :
           /\ cells'[c].key = about[u] => cells[c].key = about[u]
           /\ cells[c].key = about[u] => cells'[c].stamp = cells[c].stamp
  BY DEF SharedInv
<1>9. QED
  BY <1>1, <1>3, <1>5, <1>6, <1>7, <1>8, SharedFrame

LEMMA SharedUpdates ==
    ASSUME SharedInv, SharedTypeOK', NEW t \in Threads, AtomicUpdate(t)
    PROVE  SharedInv'
<1>1. /\ pc[t] = "published" /\ about[t] \in Atomics
      /\ cells' = cells /\ plane' = plane /\ clock' = clock /\ reports' = reports
      /\ holder' = holder /\ UNCHANGED sharedVars
      /\ pc'[t] = "lookup_load" /\ about'[t] = about[t] /\ step'[t] = 0
      /\ carried' = [carried EXCEPT ![about[t]] = @ \cup ordered[t]]
      /\ ordered'[t] = ordered[t] \cup carried[about[t]]
      /\ \A u \in Threads \ {t} :
           /\ pc'[u] = pc[u] /\ about'[u] = about[u] /\ step'[u] = step[u]
           /\ held'[u] = held[u] /\ ordered'[u] = ordered[u]
  BY DEF AtomicUpdate, Publishes, BeginLookup, monitorVars, SharedInv, SharedTypeOK, TypeOK,
         TableTypeOK
<1>2. PICK k \in Atomics : k = about[t]
  BY <1>1
<1>3. /\ carried'[k] = carried[k] \cup ordered[t]
      /\ \A j \in Keys : j # k => carried'[j] = carried[j]
  BY <1>1, <1>2 DEF SharedInv, SharedTypeOK, TypeOK
<1>4. /\ Publishing(t) /\ owner[k] = t /\ carried[k] \subseteq ordered[t]
  BY <1>1, <1>2, PublisherKnows DEF SharedInv, Held, Publishing
<1>5. \A w \in ordered[t] : Passed(plane[w], clock[t])
  BY <1>1, SharedMinePasses DEF Looking, LookupPCs
<1>6. SharedPassed(t)' /\ RealClock(t)' /\ CarriesOwnClock(t)' /\ ~ Publishing(t)'
  BY <1>1, <1>4, <1>5, <1>2 DEF SharedPassed, RealClock, CarriesOwnClock, Publishing, PublishPCs,
     LookupPCs, SharedInv
<1>7. Walked(t, Alone(t))'
  BY <1>1 DEF Walked, PublishPCs, LookupPCs, Steps
<1>8. Behind'
  <2>1. Behind /\ \A u \in Threads : ordered[u] \subseteq ordered'[u]
    BY <1>1 DEF SharedInv
  <2>2. ASSUME NEW j \in RWLocks
        PROVE  /\ holder[j] # NoThread => carried'[j] \subseteq ordered'[holder[j]]
               /\ \A u \in readers[j] : carried'[j] \subseteq ordered'[u]
    <3>1. carried'[j] = carried[j] /\ holder[j] \in Threads \cup {NoThread}
          /\ readers[j] \subseteq Threads
      BY <1>2, <1>3 DEF SharedInv, SharedTypeOK, TypeOK
    <3>2. QED
      BY <2>1, <3>1 DEF Behind
  <2>3. ASSUME NEW j \in Semaphores \cup Atomics, carried'[j] # {}
        PROVE  owner[j] # NoThread /\ carried'[j] \subseteq ordered'[owner[j]]
    <3>1. CASE j = k
      BY <1>3, <1>4, <2>1, <3>1
    <3>2. CASE j # k
      <4>1. carried'[j] = carried[j] /\ owner[j] \in Threads \cup {NoThread}
        BY <1>3, <3>2 DEF SharedInv, SharedTypeOK
      <4>2. QED
        BY <2>1, <2>3, <4>1 DEF Behind
    <3>3. QED
      BY <3>1, <3>2
  <2>4. QED
    BY <1>1, <2>1, <2>2, <2>3 DEF Behind, sharedVars
<1>9. HandedOn'
  <2>1. Alone(t)
    BY <1>1 DEF Alone
  <2>2. QED
    BY <1>1, <1>2, <1>3, <2>1, HandsOn
<1>10. /\ NoFalseReport' /\ KeysStay
       /\ \A j \in RWLocks : holder'[j] # NoThread => readers'[j] = {}
  BY <1>1 DEF SharedInv, Held, NoFalseReport, KeysStay, sharedVars
<1>11. /\ \A j \in Keys : carried[j] \subseteq carried'[j]
       /\ \A u \in Threads \ {t}, j \in RWLocks :
            /\ holder'[j] = u <=> holder[j] = u
            /\ u \in readers[j] => u \in readers'[j]
       /\ \A u \in Threads \ {t}, j \in Semaphores \cup Atomics : owner[j] = u => owner'[j] = u
       /\ about'[t] \notin RWLocks
  BY <1>1, <1>2, <1>3 DEF sharedVars
<1>12. QED
  BY <1>1, <1>6, <1>7, <1>8, <1>9, <1>10, <1>11, SharedFrame

LEMMA SharedStepKeeps ==
    ASSUME ~ Whole, ~ Crowded, SharedInv, SharedTypeOK', NEW t \in Threads, SharedStep(t)
    PROVE  SharedInv'
<1>1. /\ uses \subseteq Keys /\ Held /\ Behind
      /\ carried \in [Keys -> SUBSET Words] /\ holder \in [Keys -> Threads \cup {NoThread}]
      /\ readers \in [RWLocks -> SUBSET Threads]
      /\ owner \in [Semaphores \cup Atomics -> Threads \cup {NoThread}]
  BY DEF SharedInv, SharedTypeOK, TypeOK
<1>2. ASSUME NEW w \in Words, Load(t, w) \/ Store(t, w), UNCHANGED sharedVars
      PROVE  SharedInv'
  BY <1>2, SharedAccess
<1>3. CASE SharedStamped(t)
  BY <1>3, SharedStampedKeeps
<1>4. ASSUME Walk(t) \/ Acquired(t), UNCHANGED sharedVars PROVE SharedInv'
  BY <1>4, SharedWalk, SharedAcquired
<1>5. ASSUME NEW k \in uses, WrLock(t, k) PROVE SharedInv'
  <2>1. /\ k \in RWLocks /\ k \in Keys /\ pc[t] = "run" /\ holder[k] = NoThread /\ readers[k] = {}
        /\ readCarried[k] = {} /\ carried[k] \in SUBSET Words
        /\ holder' = [holder EXCEPT ![k] = t] /\ UNCHANGED sharedVars
        /\ Acquires(t, k, carried[k])
    <3>1. readCarried[k] = {} /\ carried[k] \cup {} = carried[k]
      BY <1>1, <1>5 DEF WrLock, Behind
    <3>2. Acquires(t, k, carried[k])
      BY <1>5, <3>1 DEF WrLock
    <3>3. QED
      BY <1>1, <1>5, <3>1, <3>2 DEF WrLock, Idle
  <2>2. /\ \A j \in RWLocks : \/ holder'[j] = holder[j]
                              \/ j = k /\ holder[j] = NoThread /\ holder'[j] = t
        /\ \A j \in RWLocks : holder'[j] # NoThread => readers'[j] = {}
        /\ holder'[k] = t /\ owner' = owner /\ readCarried' = readCarried /\ readers' = readers
    BY <1>1, <2>1 DEF Held, sharedVars
  <2>3. QED
    BY <2>1, <2>2, SharedTakes
<1>6. ASSUME NEW k \in uses, RdLock(t, k) PROVE SharedInv'
  <2>1. /\ k \in RWLocks /\ k \in Keys /\ pc[t] = "run" /\ holder[k] = NoThread
        /\ carried[k] \in SUBSET Words
        /\ readers' = [readers EXCEPT ![k] = @ \cup {t}]
        /\ UNCHANGED <<holder, readCarried, owner>>
        /\ Acquires(t, k, carried[k])
    BY <1>1, <1>6 DEF RdLock, Idle
  <2>2. /\ \A j \in RWLocks : \/ readers'[j] = readers[j]
                              \/ j = k /\ readers'[j] = readers[j] \cup {t}
        /\ \A j \in RWLocks : holder'[j] # NoThread => readers'[j] = {}
        /\ t \in readers'[k] /\ holder' = holder /\ owner' = owner /\ readCarried' = readCarried
    BY <1>1, <2>1 DEF Held
  <2>3. QED
    BY <2>1, <2>2, SharedTakes
<1>7. ASSUME NEW k \in uses, RwReleased(t, k) PROVE SharedInv'
  <2>1. /\ k \in RWLocks /\ k \in Keys /\ pc[t] = "run" /\ Releases(t, k)
        /\ holder[k] = t \/ t \in readers[k]
        /\ readers' = readers /\ readCarried' = readCarried /\ owner' = owner
    BY <1>1, <1>7 DEF RwReleased, Idle, sharedVars
  <2>2. QED
    BY <2>1, SharedGives
<1>8. ASSUME NEW k \in uses, Signals(t, k) PROVE SharedInv'
  <2>1. /\ k \in Semaphores \cup Atomics /\ k \in Keys /\ k \notin RWLocks
        /\ pc[t] = "run" /\ Releases(t, k) /\ owner[k] \in {NoThread, t}
        /\ owner' = [owner EXCEPT ![k] = t]
        /\ readers' = readers /\ readCarried' = readCarried
    BY <1>1, <1>8 DEF Signals, Idle
  <2>2. /\ \A j \in Semaphores \cup Atomics :
             owner'[j] = owner[j] \/ (j = k /\ owner[j] \in {NoThread, t} /\ owner'[j] = t)
        /\ owner'[k] = t
    BY <1>1, <2>1
  <2>3. QED
    BY <2>1, <2>2, SharedGives
<1>9. ASSUME NEW k \in uses, SemWait(t, k) PROVE SharedInv'
  <2>1. PICK o \in SUBSET Words : o = IF value[k] = 1 THEN carried[k] ELSE {}
    BY <1>1, <1>9 DEF SemWait
  <2>2. /\ k \in Semaphores /\ k \in Keys /\ k \notin RWLocks /\ pc[t] = "run"
        /\ Acquires(t, k, o) /\ o \subseteq carried[k]
        /\ UNCHANGED <<holder, readers, readCarried, owner>>
    BY <1>1, <1>9, <2>1 DEF SemWait, Idle
  <2>3. \A j \in RWLocks : holder'[j] # NoThread => readers'[j] = {}
    BY <1>1, <2>2 DEF Held
  <2>4. QED
    BY <2>2, <2>3, SharedTakes
<1>10. ASSUME NEW k \in uses, AtomicLoad(t, k) PROVE SharedInv'
  <2>1. /\ k \in Atomics /\ k \in Keys /\ k \notin RWLocks /\ pc[t] = "run"
        /\ carried[k] \in SUBSET Words /\ Acquires(t, k, carried[k])
        /\ UNCHANGED <<holder, readers, readCarried, owner>>
    BY <1>1, <1>10 DEF AtomicLoad, Idle, sharedVars
  <2>2. \A j \in RWLocks : holder'[j] # NoThread => readers'[j] = {}
    BY <1>1, <2>1 DEF Held
  <2>3. QED
    BY <2>1, <2>2, SharedTakes
<1>11. CASE WrUnlock(t)
  <2>1. /\ pc[t] = "published" /\ about[t] \in RWLocks /\ holder[about[t]] = t
        /\ readers[about[t]] = {} /\ Returns(t) /\ cells' = cells
        /\ UNCHANGED <<plane, clock, ordered, reports, readers, readCarried, owner>>
        /\ holder' = [holder EXCEPT ![about[t]] = NoThread]
        /\ carried' = [carried EXCEPT ![about[t]] = @ \cup ordered[t]]
    BY <1>1, <1>11 DEF WrUnlock, Publishes, monitorVars, sharedVars, Held
  <2>2. PICK k \in RWLocks : k = about[t]
    BY <2>1
  <2>3. /\ Alone(t) /\ k \in Keys /\ holder'[k] = NoThread /\ readers'[k] = {}
        /\ carried'[k] = carried[k] \cup ordered[t]
        /\ \A j \in Keys : j # k => carried'[j] = carried[j] /\ holder'[j] = holder[j]
    BY <1>1, <2>1, <2>2 DEF Alone
  <2>4. QED
    BY <2>1, <2>2, <2>3, SharedReturns
<1>12. CASE RdUnlock(t)
  <2>1. /\ pc[t] = "published" /\ about[t] \in RWLocks
        /\ Returns(t) /\ cells' = cells
        /\ UNCHANGED <<plane, clock, ordered, reports, holder, carried, owner>>
        /\ readers' = [readers EXCEPT ![about[t]] = @ \ {t}]
        /\ readCarried' = [readCarried EXCEPT ![about[t]] = @]
    BY <1>12 DEF RdUnlock, Publishes, monitorVars, truth
  <2>2. readCarried' = readCarried
    BY <2>1 DEF SharedInv, SharedTypeOK
  <2>3. PICK k \in RWLocks : k = about[t]
    BY <2>1
  <2>4. /\ k \in Keys
        /\ \A j \in RWLocks : readers'[j] = readers[j] \/ (j = k /\ readers'[j] = readers[j] \ {t})
    BY <1>1, <2>1, <2>3
  <2>5. QED
    BY <2>1, <2>2, <2>3, <2>4, SharedReturns
<1>13. CASE SemPost(t)
  <2>1. /\ pc[t] = "published" /\ about[t] \in Semaphores
        /\ Returns(t) /\ cells' = cells
        /\ UNCHANGED <<plane, clock, ordered, reports, holder, readers, readCarried, owner>>
        /\ carried' \in {carried, [carried EXCEPT ![about[t]] = @ \cup ordered[t]]}
    BY <1>13 DEF SemPost, Publishes, monitorVars
  <2>2. PICK k \in Semaphores : k = about[t]
    BY <2>1
  <2>3. /\ Alone(t) /\ k \in Keys /\ k \notin RWLocks
        /\ carried'[k] \in {carried[k], carried[k] \cup ordered[t]}
        /\ \A j \in Keys : j # k => carried'[j] = carried[j]
    BY <1>1, <2>1, <2>2 DEF Alone
  <2>4. QED
    BY <2>1, <2>2, <2>3, SharedReturns
<1>14. CASE AtomicStore(t)
  <2>1. /\ pc[t] = "published" /\ about[t] \in Atomics
        /\ Returns(t) /\ cells' = cells
        /\ UNCHANGED <<plane, clock, ordered, reports, holder, readers, readCarried, owner>>
        /\ carried' = [carried EXCEPT ![about[t]] = ordered[t]]
    BY <1>14 DEF AtomicStore, Publishes, monitorVars, sharedVars
  <2>2. PICK k \in Atomics : k = about[t]
    BY <2>1
  <2>3. /\ Alone(t) /\ k \in Keys /\ k \notin RWLocks
        /\ carried'[k] = ordered[t] /\ carried[k] \subseteq ordered[t]
        /\ \A j \in Keys : j # k => carried'[j] = carried[j]
    BY <1>1, <2>1, <2>2, PublisherKnows DEF Alone, SharedInv, Publishing
  <2>4. QED
    BY <2>1, <2>2, <2>3, SharedReturns
<1>15. CASE AtomicUpdate(t)
  BY <1>15, SharedUpdates
<1>16. QED
  BY <1>2, <1>3, <1>4, <1>5, <1>6, <1>7, <1>8, <1>9, <1>10, <1>11, <1>12, <1>13, <1>14,
     <1>15 DEF SharedStep

LEMMA SharedStutters ==
    ASSUME SharedInv, UNCHANGED edgeVars
    PROVE  SharedInv'
<1>1. UNCHANGED vars /\ UNCHANGED sharedVars
  BY DEF edgeVars
<1>2. SharedTypeOK'
  BY <1>1 DEF SharedInv, SharedTypeOK, TypeOK, TableTypeOK, vars, sharedVars
<1>3. Held' /\ Behind' /\ HandedOn' /\ NoFalseReport'
  BY <1>1 DEF SharedInv, Held, Behind, HandedOn, NoFalseReport, Covers, First, cell, Looking,
     Publishing, vars, sharedVars
<1>4. \A u \in Threads : /\ Walked(u, Alone(u))'
                         /\ RealClock(u)' /\ CarriesOwnClock(u)' /\ SharedPassed(u)'
  BY <1>1 DEF SharedInv, Walked, Alone, RealClock, CarriesOwnClock, SharedPassed, Publishing,
     Covers, First, cell, vars, sharedVars
<1>5. \A w \in Words : RealStamp(w)'
  BY <1>1 DEF SharedInv, RealStamp, vars
<1>6. QED
  BY <1>2, <1>3, <1>4, <1>5 DEF SharedInv

LEMMA SharedNextKeeps ==
    ASSUME ~ Whole
    PROVE  SharedInv /\ ~ Crowded /\ [SharedNext]_edgeVars => SharedInv'
<1> SUFFICES ASSUME SharedInv, ~ Crowded, [SharedNext]_edgeVars PROVE SharedInv'
  OBVIOUS
<1>1. ASSUME NEW t \in Threads, SharedStep(t) PROVE SharedInv'
  <2>1. SharedTypeOK'
    BY <1>1, SharedStepTypes DEF SharedInv
  <2>2. QED
    BY <1>1, <2>1, SharedStepKeeps
<1>2. CASE UNCHANGED edgeVars
  BY <1>2, SharedStutters
<1>3. QED
  BY <1>1, <1>2 DEF SharedNext

\* The shape of the state, whole ordering or not and crowded or not.
THEOREM SharedTypeCorrect == SharedSpec => []SharedTypeOK
<1>1. SharedTypeOK /\ [SharedNext]_edgeVars => SharedTypeOK'
  <2> SUFFICES ASSUME SharedTypeOK, [SharedNext]_edgeVars PROVE SharedTypeOK'
    OBVIOUS
  <2>1. CASE UNCHANGED edgeVars
    BY <2>1 DEF SharedTypeOK, TypeOK, TableTypeOK, edgeVars, vars, sharedVars
  <2>2. QED
    BY <2>1, SharedStepTypes DEF SharedNext
<1>2. QED
  BY <1>1, SharedInitTypes, PTL DEF SharedSpec

\* Table::publish is a plain store and nothing serializes the publishers of a
\* read-write lock, a semaphore or an atomic; and yet what write locks and
\* single signallers hand on is never pulled back, as long as no walk finds its
\* whole run taken.
THEOREM HandedOnStaysCovered ==
    ASSUME ~ Whole
    PROVE  SharedSpec /\ []~ Crowded => []HandedOnIsCovered
<1>1. SharedInit => SharedInv
  BY SharedStart
<1>2. SharedInv /\ ~ Crowded /\ [SharedNext]_edgeVars => SharedInv'
  BY SharedNextKeeps
<1>3. SharedInv => HandedOnIsCovered
  BY DEF SharedInv, HandedOnIsCovered, HandedOn, Covers, First
<1>4. QED
  BY <1>1, <1>2, <1>3, PTL DEF SharedSpec

\* No false positives under the same keys: J9 never reports a write that a
\* write lock, a semaphore's last post or an atomic's release puts before the
\* access, unless the accessing thread's clock has stopped.
THEOREM SharedNoFalseReports ==
    ASSUME ~ Whole
    PROVE  SharedSpec /\ []~ Crowded => []NoFalseReport
<1>1. SharedInit => SharedInv
  BY SharedStart
<1>2. SharedInv /\ ~ Crowded /\ [SharedNext]_edgeVars => SharedInv'
  BY SharedNextKeeps
<1>3. SharedInv => NoFalseReport
  BY DEF SharedInv
<1>4. QED
  BY <1>1, <1>2, <1>3, PTL DEF SharedSpec

-----------------------------------------------------------------------------
(* SharedEdges: room for every publisher                                   *)

LEMMA SharedHasRoom ==
    ASSUME RoomForAll, SharedInv, EachClaimed
    PROVE  ~ Crowded
<1> SUFFICES ASSUME NEW t \in Threads, pc[t] = "publish_steal" PROVE FALSE
  BY DEF Crowded
<1>1. PICK k \in Keys : k = about[t] /\ \A r \in Steps : cells[cell(k, r)].key # NoKey
  BY DEF SharedInv, Walked, PublishPCs
<1>2. QED
  BY <1>1, RoomForAllHasRoom, SharedShape DEF SharedInv

LEMMA SharedClaims ==
    ASSUME SharedInv, EachClaimed, ~ Crowded, [SharedNext]_edgeVars
    PROVE  EachClaimed'
<1>1. Table /\ pc \in [Threads -> PCs]
  BY SharedShape DEF SharedInv, TypeOK
<1>2. CASE UNCHANGED edgeVars
  BY <1>1, <1>2, ClaimsStart DEF edgeVars, vars
<1>3. ASSUME NEW t \in Threads, Walk(t) PROVE EachClaimed'
  <2>1. PICK a \in BOOLEAN : a = Alone(t)
    BY DEF Alone
  <2>2. Walked(t, a) /\ pc[t] # "publish_steal" /\ TableStep(t)
    BY <1>3, <2>1 DEF SharedInv, Crowded, Walk
  <2>3. QED
    BY <1>1, <2>2, WalksClaim
<1>4. ASSUME NEW t \in Threads, SharedStep(t), ~ Walk(t) PROVE EachClaimed'
  <2> SUFFICES /\ cells' = cells
               /\ \/ pc'[t] \notin Claiming
                  \/ pc'[t] = "publish_load" /\ step'[t] = 0
                  \/ pc'[t] = pc[t] /\ about'[t] = about[t] /\ step'[t] = step[t]
               /\ \A u \in Threads \ {t} :
                     pc'[u] = pc[u] /\ about'[u] = about[u] /\ step'[u] = step[u]
    BY <1>1, ClaimsStart
  <2> USE DEF Claiming
  <2>1. CASE \E w \in Words : (Load(t, w) \/ Store(t, w)) /\ UNCHANGED sharedVars
    BY <1>1, <2>1 DEF Load, Store, tableVars
  <2>2. CASE SharedStamped(t)
    BY <1>1, <2>2 DEF SharedStamped, Stamped
  <2>3. CASE Acquired(t) /\ UNCHANGED sharedVars
    BY <1>1, <2>3 DEF Acquired, EndWalk, Table
  <2>4. CASE \E k \in uses : WrLock(t, k) \/ RdLock(t, k) \/ SemWait(t, k) \/ AtomicLoad(t, k)
    BY <1>1, <2>4 DEF WrLock, RdLock, SemWait, AtomicLoad, Acquires, BeginLookup, Table
  <2>5. CASE \E k \in uses : RwReleased(t, k) \/ Signals(t, k)
    BY <1>1, <2>5 DEF RwReleased, Signals, Releases, BeginPublish, Table
  <2>6. CASE WrUnlock(t) \/ RdUnlock(t) \/ SemPost(t) \/ AtomicStore(t)
    BY <1>1, <2>6 DEF WrUnlock, RdUnlock, SemPost, AtomicStore, Returns, EndWalk, Table
  <2>7. CASE AtomicUpdate(t)
    BY <1>1, <2>7 DEF AtomicUpdate, BeginLookup, Table
  <2>8. QED
    BY <1>4, <2>1, <2>2, <2>3, <2>4, <2>5, <2>6, <2>7 DEF SharedStep
<1>5. QED
  BY <1>2, <1>3, <1>4 DEF SharedNext

LEMMA SharedStartClaimed == SharedInit => EachClaimed
BY NobodyClaimed DEF SharedInit, Init, TableInit

\* The same from the sizes alone: where every run has a cell for each of its
\* keys and threads, no walk finds its whole run taken, so that what a write
\* lock or a single signaller hands on stays covered and is not reported.
THEOREM HandedOnStaysCoveredWithRoom ==
    ASSUME ~ Whole, RoomForAll
    PROVE  SharedSpec => [](HandedOnIsCovered /\ NoFalseReport)
<1>1. SharedInit => SharedInv /\ EachClaimed
  BY SharedStart, SharedStartClaimed
<1>2. SharedInv /\ EachClaimed /\ [SharedNext]_edgeVars => SharedInv' /\ EachClaimed'
  BY SharedHasRoom, SharedNextKeeps, SharedClaims
<1>3. SharedInv => HandedOnIsCovered /\ NoFalseReport
  BY DEF SharedInv, HandedOnIsCovered, HandedOn, Covers, First
<1>4. QED
  BY <1>1, <1>2, <1>3, PTL DEF SharedSpec

HIDE SharedAssumption

-----------------------------------------------------------------------------
(* Births: the slots                                                       *)
(*                                                                         *)
(* The slots are the lock free part, and what the invariant adds says who  *)
(* may touch which: a slot is its holder's, the thread being made is its   *)
(* creator's, and nobody acts for a thread that does not exist yet.        *)

USE BirthsAssumption

\* The part of the monitor's state that reaches a slot, a clock on its way to
\* another thread, and the identifiers that threads are known by.
Carried ==
    /\ cells \in [Cells -> [key : Keys \cup {NoKey}, stamp : Stamp]]
    /\ pc \in [Threads -> PCs \cup BirthPCs]
    /\ about \in [Threads -> Keys \cup {NoKey}]
    /\ step \in [Threads -> Nat]
    /\ held \in [Threads -> Stamp]
    /\ numbers \in Nat
    /\ clock \in [Threads -> Stamp]
    /\ \A t \in Threads : pc[t] \in PublishPCs \cup LookupPCs => about[t] \in Keys
    /\ \A t \in Threads : life[t] # "unborn" => name[t] \in Keys

\* A thread that does not exist yet has done nothing and holds nothing.
NotYet == \A t \in Threads : life[t] = "unborn" => pc[t] = "run"

\* A thread is being made by one creator and does not exist meanwhile.
OneMaker ==
    \A t \in Threads : pc[t] \in MakePCs =>
        /\ life[child[t]] = "unborn"
        /\ \A u \in Threads : pc[u] \in MakePCs /\ child[u] = child[t] => u = t

\* What a slot says is what its creator, and then its thread, will read.
FilledIn ==
    \A t \in Threads :
        /\ pc[t] = "create" => /\ slots[slotOf[t]].state = "READY"
                               /\ slots[slotOf[t]].start = child[t]
        /\ pc[t] = "born" => slots[slotOf[t]].start = t

BirthsInv ==
    Carried /\ SlotsAccounted /\ BornAsAsked /\ NotYet /\ OneMaker /\ FilledIn

-----------------------------------------------------------------------------
(* The monitor's own steps                                                 *)

\* A step that is not about births: one thread's, from outside the birth
\* slots' code to outside it.
Elsewhere(t) ==
    /\ pc[t] \in PCs
    /\ \E p \in PCs : pc' = [pc EXCEPT ![t] = p]
    /\ \A u \in Threads \ {t} : step'[u] = step[u]
    /\ UNCHANGED birthVars
    /\ reports' \subseteq Report

LEMMA KeepCarries ==
    ASSUME Carried, NEW t \in Threads, NEW mine \in Stamp, Keep(t, mine)
    PROVE  numbers' \in Nat /\ clock' \in [Threads -> Stamp]
BY DEF Carried, Keep

LEMMA MineCarries ==
    ASSUME Carried, NEW t \in Threads
    PROVE  Mine(t) \in Stamp
BY StampIsAStamp DEF Carried, Mine, NewClock

LEMMA CarriedCell ==
    ASSUME Carried, NEW t \in Threads, about[t] \in Keys
    PROVE  cell(about[t], step[t]) \in Cells /\ cell(about[t], 0) \in Cells
<1>1. Home[about[t]] \in Nat /\ step[t] \in Nat
  BY DEF Carried
<1>2. QED
  BY <1>1 DEF cell, Cells

LEMMA WalkCarries ==
    ASSUME Carried, NEW t \in Threads, TableStep(t), UNCHANGED <<clock, numbers, life, name>>
    PROVE  /\ Carried'
           /\ pc[t] \in PublishPCs \cup LookupPCs
           /\ \E p \in PCs : pc' = [pc EXCEPT ![t] = p]
           /\ \A u \in Threads \ {t} : step'[u] = step[u]
<1> USE DEF PublishPCs, LookupPCs
<1>1. pc[t] \in PublishPCs \cup LookupPCs /\ about[t] \in Keys
  BY DEF TableStep, PublishLoad, PublishClaim, PublishStore, PublishSteal,
         LookupLoad, LookupRead, Carried
<1>2. cell(about[t], step[t]) \in Cells /\ cell(about[t], 0) \in Cells
  BY <1>1, CarriedCell
<1>3. \E p \in PCs : pc' = [pc EXCEPT ![t] = p]
  BY DEF TableStep, PublishLoad, PublishClaim, PublishStore, PublishSteal,
         LookupLoad, LookupRead, Onward, PCs
<1>4. /\ step' \in [Threads -> Nat] /\ UNCHANGED about
      /\ \A u \in Threads \ {t} : step'[u] = step[u]
  BY DEF TableStep, PublishLoad, PublishClaim, PublishStore, PublishSteal,
         LookupLoad, LookupRead, Onward, Carried
<1>5. cells' \in [Cells -> [key : Keys \cup {NoKey}, stamp : Stamp]]
  BY <1>1, <1>2 DEF TableStep, PublishLoad, PublishClaim, PublishStore, PublishSteal,
         LookupLoad, LookupRead, Carried
<1>6. held' \in [Threads -> Stamp]
  BY <1>2 DEF TableStep, PublishLoad, PublishClaim, PublishStore, PublishSteal,
         LookupLoad, LookupRead, Carried
<1>7. pc' \in [Threads -> PCs \cup BirthPCs]
  BY <1>3 DEF Carried
<1>8. \A u \in Threads : pc'[u] \in PublishPCs \cup LookupPCs => about'[u] \in Keys
  BY <1>1, <1>3, <1>4 DEF Carried
<1>9. QED
  BY <1>1, <1>3, <1>4, <1>5, <1>6, <1>7, <1>8 DEF Carried

\* What the monitor does outside the birth slots leaves them as they are.
LEMMA ElsewhereKeeps ==
    ASSUME BirthsInv, NEW t \in Threads, life[t] # "unborn", Elsewhere(t), Carried'
    PROVE  BirthsInv'
<1> USE DEF BirthPCs, MakePCs, HoldPCs
<1>1. PCs \cap BirthPCs = {}
  BY DEF PCs, PublishPCs, LookupPCs
<1>2. PICK p \in PCs : pc' = [pc EXCEPT ![t] = p]
  BY DEF Elsewhere
<1>3. /\ pc[t] \notin BirthPCs /\ pc'[t] \notin BirthPCs
      /\ \A u \in Threads \ {t} : pc'[u] = pc[u]
  BY <1>1, <1>2 DEF Elsewhere, BirthsInv, Carried
<1>4. UNCHANGED <<slots, slotOf, child, name, life>>
  BY DEF Elsewhere, birthVars
<1>5. SlotsAccounted'
  <2>1. \A u \in Threads : pc'[u] = "claim" => step'[u] \in Slots
    BY <1>3 DEF Elsewhere, BirthsInv, SlotsAccounted, BirthsTypeOK
  <2>2. \A u \in Threads : pc'[u] \in HoldPCs <=> slotOf'[u] \in Slots
    BY <1>3, <1>4 DEF BirthsInv, SlotsAccounted, BirthsTypeOK
  <2>3. \A u \in Threads : pc'[u] \in MakePCs => child'[u] \in Threads
    BY <1>3, <1>4 DEF BirthsInv, SlotsAccounted, BirthsTypeOK
  <2>4. BirthsTypeOK'
    BY <1>4, <2>1, <2>2, <2>3 DEF Elsewhere, BirthsInv, SlotsAccounted, BirthsTypeOK, Slots
  <2>5. QED
    BY <1>4, <2>4 DEF BirthsInv, SlotsAccounted, Holding
<1>6. BornAsAsked' /\ OneMaker' /\ FilledIn'
  BY <1>3, <1>4 DEF BirthsInv, BornAsAsked, OneMaker, FilledIn
<1>7. NotYet'
  BY <1>3, <1>4 DEF BirthsInv, NotYet
<1>8. QED
  BY <1>5, <1>6, <1>7 DEF BirthsInv

LEMMA RacedElsewhere ==
    ASSUME BirthsInv, NEW t \in Threads, NEW w \in Words, Load(t, w) \/ Store(t, w),
           UNCHANGED birthVars
    PROVE  Carried' /\ Elsewhere(t)
<1>1. Mine(t) \in Stamp
  BY MineCarries DEF BirthsInv
<1>2. numbers' \in Nat /\ clock' \in [Threads -> Stamp]
  BY <1>1, KeepCarries DEF Load, Store, Raced, Here, BirthsInv
<1>3. /\ UNCHANGED <<cells, about, step, held, life, name>>
      /\ pc[t] = "run" /\ \E p \in {"run", "stamp"} : pc' = [pc EXCEPT ![t] = p]
  BY DEF Load, Store, tableVars, birthVars, BirthsInv, Carried
<1>4. Carried'
  BY <1>2, <1>3 DEF BirthsInv, Carried, PublishPCs, LookupPCs, PCs
<1>5. reports' \subseteq Report
  <2>1. Stopped(Mine(t)) \in BOOLEAN /\ (w \in ordered[t]) \in BOOLEAN
    BY DEF Stopped
  <2>2. [word |-> w, ordered |-> w \in ordered[t], stopped |-> Stopped(Mine(t))] \in Report
    BY <2>1, Zenon DEF Report
  <2>3. reports \subseteq Report /\ Raced(t, w)
    BY DEF Load, Store, BirthsInv, SlotsAccounted, BirthsTypeOK
  <2>4. QED
    BY <2>2, <2>3, Zenon DEF Raced
<1>6. QED
  BY <1>3, <1>4, <1>5 DEF Elsewhere, PCs

LEMMA EdgeElsewhere ==
    ASSUME BirthsInv, NEW t \in Threads, Stamped(t) \/ Acquired(t), UNCHANGED birthVars
    PROVE  Carried' /\ Elsewhere(t)
<1>1. Mine(t) \in Stamp /\ held[t] \in Stamp
  BY MineCarries DEF BirthsInv, Carried
<1>2. Ticked(Mine(t)) \in Stamp /\ Synced(Mine(t), held[t]) \in Stamp
  BY <1>1, TickedIsAStamp, SyncedIsAStamp
<1>3. numbers' \in Nat /\ clock' \in [Threads -> Stamp]
  BY <1>2, KeepCarries DEF Stamped, Acquired, BirthsInv
<1>4. /\ UNCHANGED <<cells, life, name, reports>>
      /\ pc[t] \in {"stamp", "looked_up"} /\ pc' = [pc EXCEPT ![t] = "run"]
  BY DEF Stamped, Acquired, birthVars
<1>5. /\ about' \in [Threads -> Keys \cup {NoKey}]
      /\ step' \in [Threads -> Nat] /\ held' \in [Threads -> Stamp]
      /\ \A u \in Threads \ {t} : step'[u] = step[u] /\ about'[u] = about[u]
  BY NoneIsAStamp DEF Stamped, Acquired, EndWalk, BirthsInv, Carried
<1>6. Carried'
  BY <1>3, <1>4, <1>5 DEF BirthsInv, Carried, PublishPCs, LookupPCs, PCs
<1>7. QED
  BY <1>4, <1>5, <1>6
  DEF Elsewhere, PCs, BirthsInv, SlotsAccounted, BirthsTypeOK

LEMMA ExitedElsewhere ==
    ASSUME BirthsInv, NEW t \in Threads, Exited(t)
    PROVE  Carried' /\ Elsewhere(t)
<1>1. Mine(t) \in Stamp /\ name[t] \in Keys
  BY MineCarries DEF BirthsInv, Carried, Exited
<1>2. numbers' \in Nat /\ clock' \in [Threads -> Stamp]
  BY <1>1, KeepCarries DEF Exited, Here, BirthsInv
<1>3. Carried'
  BY <1>1, <1>2
  DEF Exited, BeginPublish, birthVars, BirthsInv, Carried, PublishPCs, LookupPCs, PCs
<1>4. pc[t] \in PCs /\ \E p \in PCs : pc' = [pc EXCEPT ![t] = p]
  BY DEF Exited, Running, BeginPublish, PublishPCs, PCs
<1>5. \A u \in Threads \ {t} : step'[u] = step[u]
  BY DEF Exited, BeginPublish, BirthsInv, Carried
<1>6. UNCHANGED birthVars /\ reports' \subseteq Report
  BY DEF Exited, birthVars, BirthsInv, SlotsAccounted, BirthsTypeOK
<1>7. QED
  BY <1>3, <1>4, <1>5, <1>6 DEF Elsewhere

LEMMA WalkElsewhere ==
    ASSUME BirthsInv, NEW t \in Threads, Walk(t), UNCHANGED birthVars
    PROVE  Carried' /\ Elsewhere(t)
<1>1. TableStep(t) /\ UNCHANGED <<clock, numbers, life, name, reports>>
  BY DEF Walk, monitorVars, birthVars
<1>2. /\ Carried'
      /\ pc[t] \in PublishPCs \cup LookupPCs
      /\ \E p \in PCs : pc' = [pc EXCEPT ![t] = p]
      /\ \A u \in Threads \ {t} : step'[u] = step[u]
  BY <1>1, WalkCarries DEF BirthsInv
<1>3. reports' \subseteq Report /\ pc[t] \in PCs
  BY <1>1, <1>2 DEF BirthsInv, SlotsAccounted, BirthsTypeOK, PCs
<1>4. QED
  BY <1>2, <1>3 DEF Elsewhere, birthVars

\* A thread that is somewhere but in its program's own code exists.
LEMMA Exists ==
    ASSUME BirthsInv, NEW t \in Threads, pc[t] # "run" \/ Running(t)
    PROVE  life[t] # "unborn"
BY DEF BirthsInv, NotYet, Running

LEMMA MonitorKeeps ==
    ASSUME BirthsInv, NEW t \in Threads,
           \/ \E w \in Words : (Load(t, w) \/ Store(t, w)) /\ Running(t) /\ UNCHANGED birthVars
           \/ (Stamped(t) \/ Acquired(t) \/ Walk(t)) /\ UNCHANGED birthVars
           \/ Exited(t)
    PROVE  BirthsInv'
<1>1. Carried' /\ Elsewhere(t)
  BY RacedElsewhere, EdgeElsewhere, ExitedElsewhere, WalkElsewhere
<1>2. life[t] # "unborn"
  <2>1. Stamped(t) \/ Acquired(t) \/ Walk(t) => pc[t] # "run"
    BY DEF Stamped, Acquired, Walk, TableStep, PublishLoad, PublishClaim, PublishStore,
           PublishSteal, LookupLoad, LookupRead
  <2>2. QED
    BY <2>1, Exists DEF Exited
<1>3. QED
  BY <1>1, <1>2, ElsewhereKeeps

-----------------------------------------------------------------------------
(* pthread_create                                                          *)

LEMMA StateOfSlot ==
    ASSUME NEW f \in [Slots -> Slot], NEW s \in Slots, NEW q \in {"EMPTY", "FILLING", "READY"}
    PROVE  [f EXCEPT ![s].state = q] \in [Slots -> Slot]
<1>1. [f[s] EXCEPT !.state = q] \in Slot
  BY DEF Slot
<1>2. QED
  BY <1>1

LEMMA CreateKeeps ==
    ASSUME BirthsInv, NEW t \in Threads, NEW u \in Threads, Create(t, u)
    PROVE  BirthsInv'
<1> USE DEF BirthPCs, MakePCs, HoldPCs
<1>1. Carried'
  <2>1. Mine(t) \in Stamp
    BY MineCarries DEF BirthsInv
  <2>2. numbers' \in Nat /\ clock' \in [Threads -> Stamp]
    BY <2>1, KeepCarries DEF Create, Here, BirthsInv
  <2>3. QED
    BY <2>1, <2>2 DEF Create, Goto, BirthsInv, Carried, PublishPCs, LookupPCs
<1>2. SlotsAccounted'
  <2>1. BirthsTypeOK'
    BY DEF Create, Running, Goto, BirthsInv, Carried, SlotsAccounted, BirthsTypeOK, Slots
  <2>2. QED
    BY <2>1 DEF Create, BirthsInv, SlotsAccounted, Holding
<1>3. NotYet' /\ OneMaker'
  BY DEF Create, Running, Goto, BirthsInv, Carried, SlotsAccounted, BirthsTypeOK, NotYet, OneMaker
<1>4. BornAsAsked' /\ FilledIn'
  BY DEF Create, Running, Goto, BirthsInv, Carried, SlotsAccounted, BirthsTypeOK,
         BornAsAsked, FilledIn
<1>5. QED
  BY <1>1, <1>2, <1>3, <1>4 DEF BirthsInv

LEMMA ClaimKeeps ==
    ASSUME BirthsInv, NEW t \in Threads, Claim(t)
    PROVE  BirthsInv'
<1> USE DEF BirthPCs, MakePCs, HoldPCs
<1>0. step[t] \in Slots /\ slotOf[t] = NoSlot /\ child[t] \in Threads /\ pc[t] = "claim"
  BY DEF Claim, At, BirthsInv, SlotsAccounted, BirthsTypeOK, Slots
<1>1. Carried'
  BY <1>0 DEF Claim, Goto, BirthsInv, Carried, PublishPCs, LookupPCs, raceVars, Slots
<1>2. CASE slots[step[t]].state = "EMPTY"
  <2>1. /\ slots' = [slots EXCEPT ![step[t]].state = "FILLING"]
        /\ slotOf' = [slotOf EXCEPT ![t] = step[t]]
        /\ pc' = [pc EXCEPT ![t] = "fill"]
        /\ step' = [step EXCEPT ![t] = 0]
        /\ UNCHANGED <<child, name, life, reports>>
    BY <1>2 DEF Claim, Goto, raceVars
  <2>2. \A u \in Threads : slotOf[u] # step[t]
    BY <1>0, <1>2 DEF BirthsInv, SlotsAccounted
  <2>3. BirthsTypeOK'
    <3>1. slots' \in [Slots -> Slot] /\ slotOf' \in [Threads -> Slots \cup {NoSlot}]
      BY <1>0, <2>1, StateOfSlot DEF BirthsInv, SlotsAccounted, BirthsTypeOK
    <3>2. QED
      BY <1>0, <2>1, <3>1 DEF BirthsInv, Carried, SlotsAccounted, BirthsTypeOK, Slots
  <2>4. SlotsAccounted'
    BY <1>0, <2>1, <2>2, <2>3 DEF BirthsInv, SlotsAccounted, BirthsTypeOK, Holding
  <2>5. NotYet' /\ OneMaker'
    BY <1>0, <2>1 DEF BirthsInv, Carried, NotYet, OneMaker
  <2>6. BornAsAsked' /\ FilledIn'
    BY <1>0, <2>1, <2>2
    DEF BirthsInv, Carried, BornAsAsked, FilledIn, SlotsAccounted, BirthsTypeOK
  <2>7. QED
    BY <1>1, <2>4, <2>5, <2>6 DEF BirthsInv
<1>3. CASE slots[step[t]].state # "EMPTY"
  <2>1. /\ step' = [step EXCEPT ![t] = IF step[t] + 1 < BIRTHS THEN step[t] + 1 ELSE 0]
        /\ pc' = [pc EXCEPT ![t] = IF step[t] + 1 < BIRTHS THEN "claim" ELSE "create_bare"]
        /\ UNCHANGED <<slots, slotOf, child, name, life, reports>>
    BY <1>3 DEF Claim, Goto, raceVars
  <2>2. BirthsTypeOK'
    BY <1>0, <2>1 DEF BirthsInv, Carried, SlotsAccounted, BirthsTypeOK, Slots
  <2>3. SlotsAccounted'
    BY <2>1, <2>2 DEF BirthsInv, SlotsAccounted, Holding
  <2>4. NotYet' /\ OneMaker'
    BY <1>0, <2>1 DEF BirthsInv, Carried, NotYet, OneMaker
  <2>5. BornAsAsked' /\ FilledIn'
    BY <1>0, <2>1 DEF BirthsInv, Carried, BornAsAsked, FilledIn
  <2>6. QED
    BY <1>1, <2>3, <2>4, <2>5 DEF BirthsInv
<1>4. QED
  BY <1>2, <1>3

LEMMA FillKeeps ==
    ASSUME BirthsInv, NEW t \in Threads, Fill(t)
    PROVE  BirthsInv'
<1> USE DEF BirthPCs, MakePCs, HoldPCs
<1>0. /\ slotOf[t] \in Slots /\ child[t] \in Threads /\ pc[t] = "fill"
      /\ \A u \in Threads : slotOf[u] = slotOf[t] => u = t
  BY DEF Fill, At, BirthsInv, SlotsAccounted, BirthsTypeOK, Holding, Slots
<1>1. Carried'
  BY DEF Fill, Goto, BirthsInv, Carried, PublishPCs, LookupPCs, raceVars
<1>2. BirthsTypeOK'
  <2>1. slots' \in [Slots -> Slot]
    BY <1>0 DEF Fill, BirthsInv, Carried, SlotsAccounted, BirthsTypeOK, Slot
  <2>2. QED
    BY <1>0, <2>1
    DEF Fill, Goto, raceVars, BirthsInv, Carried, SlotsAccounted, BirthsTypeOK, Slots
<1>3. SlotsAccounted'
  BY <1>0, <1>2 DEF Fill, BirthsInv, SlotsAccounted, BirthsTypeOK, Holding
<1>4. NotYet' /\ OneMaker'
  BY <1>0 DEF Fill, Goto, BirthsInv, Carried, NotYet, OneMaker
<1>5. BornAsAsked' /\ FilledIn'
  BY <1>0
  DEF Fill, Goto, BirthsInv, Carried, BornAsAsked, FilledIn, SlotsAccounted, BirthsTypeOK
<1>6. QED
  BY <1>1, <1>3, <1>4, <1>5 DEF BirthsInv

\* The new thread takes the slot over from its creator, in one step of the C
\* library's, which is why a slot always has one holder.
LEMMA CreateBornKeeps ==
    ASSUME BirthsInv, NEW t \in Threads, CreateBorn(t)
    PROVE  BirthsInv'
<1> USE DEF BirthPCs, MakePCs, HoldPCs
<1> DEFINE u == child[t]
<1>1. /\ pc[t] = "create" /\ slotOf[t] \in Slots /\ u \in Threads
      /\ life[u] = "unborn" /\ pc[u] = "run" /\ u # t
      /\ slotOf[u] = NoSlot
      /\ slots[slotOf[t]].state = "READY" /\ slots[slotOf[t]].start = u
      /\ \A v \in Threads : slotOf[v] = slotOf[t] => v = t
      /\ \A v \in Threads : pc[v] \in MakePCs /\ child[v] = u => v = t
  <2>1. pc[t] = "create" /\ slotOf[t] \in Slots /\ u \in Threads
    BY DEF CreateBorn, At, BirthsInv, SlotsAccounted, BirthsTypeOK
  <2>2. /\ life[u] = "unborn" /\ pc[u] = "run" /\ u # t
        /\ \A v \in Threads : pc[v] \in MakePCs /\ child[v] = u => v = t
    BY <2>1 DEF BirthsInv, NotYet, OneMaker
  <2>3. slotOf[u] = NoSlot
    BY <2>1, <2>2 DEF BirthsInv, SlotsAccounted, BirthsTypeOK
  <2>4. slots[slotOf[t]].state = "READY" /\ slots[slotOf[t]].start = u
    BY <2>1 DEF BirthsInv, FilledIn
  <2>5. \A v \in Threads : slotOf[v] = slotOf[t] => v = t
    BY <2>1 DEF BirthsInv, SlotsAccounted, Holding, Slots
  <2>6. QED
    BY <2>1, <2>2, <2>3, <2>4, <2>5
<1>2. PICK k \in Keys : Made(t, u, k, "alive")
  BY DEF CreateBorn
<1>3. /\ name' = [name EXCEPT ![u] = k]
      /\ life' = [life EXCEPT ![u] = "alive"]
      /\ child' = [child EXCEPT ![t] = NoThread]
      /\ slotOf' = [slotOf EXCEPT ![t] = NoSlot, ![u] = slotOf[t]]
      /\ pc' = [pc EXCEPT ![t] = "run", ![u] = "born"]
      /\ held' = [held EXCEPT ![t] = NONE]
      /\ UNCHANGED <<cells, about, step, numbers, clock, slots, reports>>
  BY <1>2 DEF CreateBorn, Made, monitorVars
<1>4. Carried'
  BY <1>1, <1>3, NoneIsAStamp
  DEF BirthsInv, Carried, SlotsAccounted, BirthsTypeOK, PublishPCs, LookupPCs, PCs
<1>5. BirthsTypeOK'
  BY <1>1, <1>3 DEF BirthsInv, Carried, SlotsAccounted, BirthsTypeOK, Slots
<1>6. SlotsAccounted'
  <2>1. \A v \in Threads : slotOf'[v] = IF v = t THEN NoSlot
                                        ELSE IF v = u THEN slotOf[t] ELSE slotOf[v]
    BY <1>1, <1>3 DEF BirthsInv, SlotsAccounted, BirthsTypeOK
  <2>2. \A s \in Slots : slots'[s].state # "EMPTY" <=> \E v \in Threads : slotOf'[v] = s
    <3>1. \A s \in Slots : slots[s].state # "EMPTY" <=> \E v \in Threads : slotOf[v] = s
      BY DEF BirthsInv, SlotsAccounted
    <3>2. \A s \in Slots : s # NoSlot
      BY DEF Slots
    <3>3. \A s \in Slots : (\E v \in Threads : slotOf[v] = s) <=> \E v \in Threads : slotOf'[v] = s
      BY <1>1, <2>1, <3>2
    <3>4. QED
      BY <1>3, <3>1, <3>3
  <2>3. \A v, w \in Threads : slotOf'[v] # NoSlot /\ slotOf'[v] = slotOf'[w] => v = w
    BY <1>1, <2>1 DEF BirthsInv, SlotsAccounted, Holding
  <2>4. QED
    BY <1>5, <2>2, <2>3 DEF SlotsAccounted, Holding
<1>7. NotYet' /\ OneMaker'
  BY <1>1, <1>3 DEF BirthsInv, Carried, SlotsAccounted, BirthsTypeOK, NotYet, OneMaker
<1>8. BornAsAsked' /\ FilledIn'
  BY <1>1, <1>3
  DEF BirthsInv, Carried, SlotsAccounted, BirthsTypeOK, BornAsAsked, FilledIn
<1>9. QED
  BY <1>4, <1>6, <1>7, <1>8 DEF BirthsInv

LEMMA CreateBareKeeps ==
    ASSUME BirthsInv, NEW t \in Threads, CreateBare(t)
    PROVE  BirthsInv'
<1> USE DEF BirthPCs, MakePCs, HoldPCs
<1> DEFINE u == child[t]
<1>1. /\ pc[t] = "create_bare" /\ slotOf[t] = NoSlot /\ u \in Threads
      /\ life[u] = "unborn" /\ pc[u] = "run" /\ u # t
      /\ \A v \in Threads : pc[v] \in MakePCs /\ child[v] = u => v = t
  BY DEF CreateBare, At, BirthsInv, SlotsAccounted, BirthsTypeOK, NotYet, OneMaker
<1>2. PICK k \in Keys : Made(t, u, k, "bare")
  BY DEF CreateBare
<1>3. /\ name' = [name EXCEPT ![u] = k]
      /\ life' = [life EXCEPT ![u] = "bare"]
      /\ child' = [child EXCEPT ![t] = NoThread]
      /\ pc' = [pc EXCEPT ![t] = "run"]
      /\ held' = [held EXCEPT ![t] = NONE]
      /\ UNCHANGED <<cells, about, step, numbers, clock, slots, slotOf, reports>>
  BY <1>2 DEF CreateBare, Made, Goto, monitorVars
<1>4. Carried'
  BY <1>1, <1>3, NoneIsAStamp
  DEF BirthsInv, Carried, SlotsAccounted, BirthsTypeOK, PublishPCs, LookupPCs, PCs
<1>5. BirthsTypeOK'
  BY <1>1, <1>3 DEF BirthsInv, Carried, SlotsAccounted, BirthsTypeOK, Slots
<1>6. SlotsAccounted'
  BY <1>3, <1>5 DEF BirthsInv, SlotsAccounted, Holding
<1>7. NotYet' /\ OneMaker'
  BY <1>1, <1>3 DEF BirthsInv, Carried, SlotsAccounted, BirthsTypeOK, NotYet, OneMaker
<1>8. BornAsAsked' /\ FilledIn'
  BY <1>1, <1>3
  DEF BirthsInv, Carried, SlotsAccounted, BirthsTypeOK, BornAsAsked, FilledIn
<1>9. QED
  BY <1>4, <1>6, <1>7, <1>8 DEF BirthsInv

\* A create that made no thread, with a slot to hand back or without one.
LEMMA CreateFailedKeeps ==
    ASSUME BirthsInv, NEW t \in Threads, CreateFailed(t) \/ CreateBareFailed(t)
    PROVE  BirthsInv'
<1> USE DEF BirthPCs, MakePCs, HoldPCs
<1>1. /\ child' = [child EXCEPT ![t] = NoThread]
      /\ pc' = [pc EXCEPT ![t] = "run"]
      /\ held' = [held EXCEPT ![t] = NONE]
      /\ UNCHANGED <<cells, about, step, numbers, clock, name, life, reports>>
  BY DEF CreateFailed, CreateBareFailed, Goto, raceVars
<1>2. Carried'
  BY <1>1, NoneIsAStamp DEF BirthsInv, Carried, PublishPCs, LookupPCs, PCs
<1>3. NotYet' /\ OneMaker'
  BY <1>1 DEF BirthsInv, Carried, SlotsAccounted, BirthsTypeOK, NotYet, OneMaker
<1>4. CASE CreateFailed(t)
  <2>1. /\ slotOf[t] \in Slots
        /\ slots' = [slots EXCEPT ![slotOf[t]].state = "EMPTY"]
        /\ slotOf' = [slotOf EXCEPT ![t] = NoSlot]
        /\ \A u \in Threads : slotOf[u] = slotOf[t] => u = t
    BY <1>4 DEF CreateFailed, At, BirthsInv, SlotsAccounted, BirthsTypeOK, Holding, Slots
  <2>2. slots' \in [Slots -> Slot] /\ slotOf' \in [Threads -> Slots \cup {NoSlot}]
    BY <2>1, StateOfSlot DEF BirthsInv, SlotsAccounted, BirthsTypeOK
  <2>3. BirthsTypeOK'
    BY <1>1, <2>1, <2>2 DEF BirthsInv, Carried, SlotsAccounted, BirthsTypeOK, Slots
  <2>4. SlotsAccounted'
    BY <2>1, <2>3 DEF BirthsInv, SlotsAccounted, BirthsTypeOK, Holding, Slots
  <2>5. BornAsAsked' /\ FilledIn'
    BY <1>1, <2>1
    DEF BirthsInv, Carried, SlotsAccounted, BirthsTypeOK, BornAsAsked, FilledIn
  <2>6. QED
    BY <1>2, <1>3, <2>4, <2>5 DEF BirthsInv
<1>5. CASE CreateBareFailed(t)
  <2>1. pc[t] = "create_bare" /\ UNCHANGED <<slots, slotOf>>
    BY <1>5 DEF CreateBareFailed, At
  <2>2. BirthsTypeOK'
    BY <1>1, <2>1 DEF BirthsInv, Carried, SlotsAccounted, BirthsTypeOK, Slots
  <2>3. SlotsAccounted'
    BY <2>1, <2>2 DEF BirthsInv, SlotsAccounted, Holding
  <2>4. BornAsAsked' /\ FilledIn'
    BY <1>1, <2>1
    DEF BirthsInv, Carried, SlotsAccounted, BirthsTypeOK, BornAsAsked, FilledIn
  <2>5. QED
    BY <1>2, <1>3, <2>3, <2>4 DEF BirthsInv
<1>6. QED
  BY <1>4, <1>5

-----------------------------------------------------------------------------
(* born, the end of a thread, and its join                                 *)

LEMMA BornReadKeeps ==
    ASSUME BirthsInv, NEW t \in Threads, BornRead(t)
    PROVE  BirthsInv'
<1> USE DEF BirthPCs, MakePCs, HoldPCs
<1>1. /\ pc[t] = "born" /\ slotOf[t] \in Slots
      /\ slots[slotOf[t]] \in Slot /\ slots[slotOf[t]].start = t
  BY DEF BornRead, At, BirthsInv, SlotsAccounted, BirthsTypeOK, FilledIn
<1>2. /\ child' = [child EXCEPT ![t] = t]
      /\ pc' = [pc EXCEPT ![t] = "born_free"]
      /\ held' = [held EXCEPT ![t] = slots[slotOf[t]].stamp]
      /\ UNCHANGED <<cells, about, step, numbers, clock, slots, slotOf, name, life, reports>>
  BY <1>1 DEF BornRead, Goto, raceVars
<1>3. Carried'
  BY <1>1, <1>2 DEF BirthsInv, Carried, Slot, PublishPCs, LookupPCs, PCs
<1>4. BirthsTypeOK'
  BY <1>1, <1>2 DEF BirthsInv, Carried, SlotsAccounted, BirthsTypeOK, Slots
<1>5. SlotsAccounted'
  BY <1>2, <1>4 DEF BirthsInv, SlotsAccounted, Holding
<1>6. NotYet' /\ OneMaker'
  BY <1>1, <1>2 DEF BirthsInv, Carried, SlotsAccounted, BirthsTypeOK, NotYet, OneMaker
<1>7. BornAsAsked' /\ FilledIn'
  BY <1>1, <1>2
  DEF BirthsInv, Carried, SlotsAccounted, BirthsTypeOK, BornAsAsked, FilledIn
<1>8. QED
  BY <1>3, <1>5, <1>6, <1>7 DEF BirthsInv

LEMMA BornFreeKeeps ==
    ASSUME BirthsInv, NEW t \in Threads, BornFree(t)
    PROVE  BirthsInv'
<1> USE DEF BirthPCs, MakePCs, HoldPCs
<1>1. /\ pc[t] = "born_free" /\ slotOf[t] \in Slots
      /\ \A u \in Threads : slotOf[u] = slotOf[t] => u = t
  BY DEF BornFree, At, BirthsInv, SlotsAccounted, BirthsTypeOK, Holding, Slots
<1>2. /\ slots' = [slots EXCEPT ![slotOf[t]].state = "EMPTY"]
      /\ slotOf' = [slotOf EXCEPT ![t] = NoSlot]
      /\ pc' = [pc EXCEPT ![t] = "born_sync"]
      /\ UNCHANGED <<cells, about, step, held, numbers, clock, child, name, life, reports>>
  BY DEF BornFree, Goto, raceVars
<1>3. Carried'
  BY <1>1, <1>2 DEF BirthsInv, Carried, PublishPCs, LookupPCs, PCs
<1>4. BirthsTypeOK'
  <2>1. slots' \in [Slots -> Slot] /\ slotOf' \in [Threads -> Slots \cup {NoSlot}]
    BY <1>1, <1>2, StateOfSlot DEF BirthsInv, SlotsAccounted, BirthsTypeOK
  <2>2. QED
    BY <1>1, <1>2, <2>1 DEF BirthsInv, Carried, SlotsAccounted, BirthsTypeOK, Slots
<1>5. SlotsAccounted'
  BY <1>1, <1>2, <1>4 DEF BirthsInv, SlotsAccounted, BirthsTypeOK, Holding, Slots
<1>6. NotYet' /\ OneMaker'
  BY <1>1, <1>2 DEF BirthsInv, Carried, SlotsAccounted, BirthsTypeOK, NotYet, OneMaker
<1>7. BornAsAsked' /\ FilledIn'
  BY <1>1, <1>2
  DEF BirthsInv, Carried, SlotsAccounted, BirthsTypeOK, BornAsAsked, FilledIn
<1>8. QED
  BY <1>3, <1>5, <1>6, <1>7 DEF BirthsInv

LEMMA BornStartKeeps ==
    ASSUME BirthsInv, NEW t \in Threads, BornStart(t)
    PROVE  BirthsInv'
<1> USE DEF BirthPCs, MakePCs, HoldPCs
<1>1. Mine(t) \in Stamp /\ held[t] \in Stamp
  BY MineCarries DEF BirthsInv, Carried
<1>2. numbers' \in Nat /\ clock' \in [Threads -> Stamp]
  BY <1>1, SyncedIsAStamp, KeepCarries DEF BornStart, BirthsInv
<1>3. /\ pc[t] = "born_sync"
      /\ child' = [child EXCEPT ![t] = NoThread]
      /\ pc' = [pc EXCEPT ![t] = "run"]
      /\ held' = [held EXCEPT ![t] = NONE]
      /\ UNCHANGED <<cells, about, step, slots, slotOf, name, life, reports>>
  BY DEF BornStart, At, Goto
<1>4. Carried'
  BY <1>2, <1>3, NoneIsAStamp DEF BirthsInv, Carried, PublishPCs, LookupPCs, PCs
<1>5. BirthsTypeOK'
  BY <1>3 DEF BirthsInv, Carried, SlotsAccounted, BirthsTypeOK, Slots
<1>6. SlotsAccounted'
  BY <1>3, <1>5 DEF BirthsInv, SlotsAccounted, Holding
<1>7. NotYet' /\ OneMaker'
  BY <1>3 DEF BirthsInv, Carried, SlotsAccounted, BirthsTypeOK, NotYet, OneMaker
<1>8. BornAsAsked' /\ FilledIn'
  BY <1>3
  DEF BirthsInv, Carried, SlotsAccounted, BirthsTypeOK, BornAsAsked, FilledIn
<1>9. QED
  BY <1>4, <1>6, <1>7, <1>8 DEF BirthsInv

\* A thread that ends or is joined was no creator's to make any more.
LEMMA EndKeeps ==
    ASSUME BirthsInv, NEW t \in Threads, End(t) \/ EndUnpublished(t)
    PROVE  BirthsInv'
<1> USE DEF BirthPCs, MakePCs, HoldPCs
<1>1. /\ pc[t] \in {"published", "run"} /\ life[t] # "unborn"
      /\ life' = [life EXCEPT ![t] = "ended"]
      /\ pc' = [pc EXCEPT ![t] = "run"]
      /\ UNCHANGED <<cells, numbers, clock, slots, slotOf, child, name, reports>>
  <2>1. CASE End(t)
    BY <2>1, Exists DEF End, At, Goto, raceVars
  <2>2. CASE EndUnpublished(t)
    BY <2>2, Exists
    DEF EndUnpublished, Running, tableVars, monitorVars, BirthsInv, Carried
  <2>3. QED
    BY <2>1, <2>2
<1>2. /\ about' \in [Threads -> Keys \cup {NoKey}]
      /\ step' \in [Threads -> Nat] /\ held' \in [Threads -> Stamp]
      /\ \A u \in Threads \ {t} : step'[u] = step[u] /\ about'[u] = about[u]
  BY NoneIsAStamp DEF End, EndUnpublished, EndWalk, tableVars, BirthsInv, Carried
<1>3. Carried'
  BY <1>1, <1>2
  DEF BirthsInv, Carried, SlotsAccounted, BirthsTypeOK, PublishPCs, LookupPCs, PCs
<1>4. BirthsTypeOK'
  BY <1>1, <1>2 DEF BirthsInv, Carried, SlotsAccounted, BirthsTypeOK, Slots
<1>5. SlotsAccounted'
  BY <1>1, <1>4 DEF BirthsInv, SlotsAccounted, Holding
<1>6. NotYet' /\ OneMaker'
  BY <1>1 DEF BirthsInv, Carried, SlotsAccounted, BirthsTypeOK, NotYet, OneMaker
<1>7. BornAsAsked' /\ FilledIn'
  BY <1>1 DEF BirthsInv, Carried, BornAsAsked, FilledIn
<1>8. QED
  BY <1>3, <1>5, <1>6, <1>7 DEF BirthsInv

LEMMA JoinKeeps ==
    ASSUME BirthsInv, NEW t \in Threads, NEW u \in Threads, Join(t, u)
    PROVE  BirthsInv'
<1> USE DEF BirthPCs, MakePCs, HoldPCs
<1>1. /\ pc[t] = "run" /\ life[t] # "unborn" /\ life[u] = "ended" /\ name[u] \in Keys
      /\ life' = [life EXCEPT ![u] = "joined"]
      /\ pc' = [pc EXCEPT ![t] = "lookup_load"]
      /\ about' = [about EXCEPT ![t] = name[u]]
      /\ step' = [step EXCEPT ![t] = 0]
      /\ held' = [held EXCEPT ![t] = NONE]
      /\ UNCHANGED <<cells, numbers, clock, slots, slotOf, child, name, reports>>
  BY Exists DEF Join, Running, BeginLookup, monitorVars, BirthsInv, Carried
<1>2. Carried'
  BY <1>1, NoneIsAStamp
  DEF BirthsInv, Carried, SlotsAccounted, BirthsTypeOK, PublishPCs, LookupPCs, PCs
<1>3. BirthsTypeOK'
  BY <1>1 DEF BirthsInv, Carried, SlotsAccounted, BirthsTypeOK, Slots
<1>4. SlotsAccounted'
  BY <1>1, <1>3 DEF BirthsInv, SlotsAccounted, Holding
<1>5. NotYet' /\ OneMaker'
  BY <1>1 DEF BirthsInv, Carried, SlotsAccounted, BirthsTypeOK, NotYet, OneMaker
<1>6. BornAsAsked' /\ FilledIn'
  BY <1>1 DEF BirthsInv, Carried, BornAsAsked, FilledIn
<1>7. QED
  BY <1>2, <1>4, <1>5, <1>6 DEF BirthsInv

-----------------------------------------------------------------------------

LEMMA BirthsStart == BirthsInit => BirthsInv
<1> SUFFICES ASSUME BirthsInit PROVE BirthsInv
  OBVIOUS
<1> USE DEF BirthPCs, MakePCs, HoldPCs
<1>1. PICK k \in Keys : name = [t \in Threads |-> IF t = Main THEN k ELSE NoKey]
  BY DEF BirthsInit
<1>2. Carried
  BY <1>1, NoneIsAStamp
  DEF BirthsInit, Init, TableInit, Carried, Cells, PublishPCs, LookupPCs, PCs
<1>3. BirthsTypeOK
  <2>1. slots \in [Slots -> Slot]
    BY NoneIsAStamp DEF BirthsInit, EmptySlot, Slot
  <2>2. QED
    BY <1>1, <2>1 DEF BirthsInit, Init, BirthsTypeOK, Slots
<1>4. SlotsAccounted
  BY <1>3 DEF BirthsInit, EmptySlot, SlotsAccounted, Holding, Slots
<1>5. BornAsAsked /\ NotYet /\ OneMaker /\ FilledIn
  BY DEF BirthsInit, Init, BornAsAsked, NotYet, OneMaker, FilledIn
<1>6. QED
  BY <1>2, <1>4, <1>5 DEF BirthsInv

LEMMA BirthsKeep == BirthsInv /\ [BirthsNext]_allVars => BirthsInv'
<1> SUFFICES ASSUME BirthsInv, [BirthsNext]_allVars PROVE BirthsInv'
  OBVIOUS
<1>1. ASSUME NEW t \in Threads, Program(t) PROVE BirthsInv'
  <2>1. CASE \E w \in Words : (Load(t, w) \/ Store(t, w)) /\ Running(t) /\ UNCHANGED birthVars
    BY <2>1, MonitorKeeps
  <2>2. CASE Exited(t)
    BY <2>2, MonitorKeeps
  <2>3. CASE EndUnpublished(t)
    BY <2>3, EndKeeps
  <2>4. CASE \E u \in Threads : Create(t, u)
    BY <2>4, CreateKeeps
  <2>5. CASE \E u \in Threads : Join(t, u)
    BY <2>5, JoinKeeps
  <2>6. QED
    BY <1>1, <2>1, <2>2, <2>3, <2>4, <2>5 DEF Program
<1>2. ASSUME NEW t \in Threads, Inside(t) PROVE BirthsInv'
  <2>1. CASE (Stamped(t) \/ Acquired(t) \/ Walk(t)) /\ UNCHANGED birthVars
    BY <2>1, MonitorKeeps
  <2>2. CASE Claim(t) \/ Fill(t)
    BY <2>2, ClaimKeeps, FillKeeps
  <2>3. CASE CreateBorn(t) \/ CreateFailed(t) \/ CreateBare(t) \/ CreateBareFailed(t)
    BY <2>3, CreateBornKeeps, CreateBareKeeps, CreateFailedKeeps
  <2>4. CASE BornRead(t) \/ BornFree(t) \/ BornStart(t)
    BY <2>4, BornReadKeeps, BornFreeKeeps, BornStartKeeps
  <2>5. CASE End(t)
    BY <2>5, EndKeeps
  <2>6. QED
    BY <1>2, <2>1, <2>2, <2>3, <2>4, <2>5 DEF Inside
<1>3. CASE UNCHANGED allVars
  <2>1. UNCHANGED <<cells, pc, about, step, held, numbers, clock, reports,
                    slots, slotOf, child, name, life>>
    BY <1>3 DEF allVars, vars, birthVars
  <2>2. Carried' /\ SlotsAccounted'
    BY <2>1 DEF BirthsInv, Carried, SlotsAccounted, BirthsTypeOK, Holding
  <2>3. QED
    BY <2>1, <2>2 DEF BirthsInv, BornAsAsked, NotYet, OneMaker, FilledIn
<1>4. QED
  BY <1>1, <1>2, <1>3 DEF BirthsNext

LEMMA BirthsInvariance == BirthsSpec => []BirthsInv
BY BirthsStart, BirthsKeep, PTL DEF BirthsSpec

\* Whatever the threads, the slots and the failures of the C library, a birth
\* slot is in use exactly while one creator or one new thread is between
\* claiming it and giving it back (claim, born, and the create that fails).
THEOREM SlotsNeverLeak == BirthsSpec => []SlotsAccounted
<1>1. BirthsInv => SlotsAccounted
  BY DEF BirthsInv
<1>2. QED
  BY <1>1, BirthsInvariance, PTL

\* A new thread finds its slot READY at its first look, so that the loop in
\* born never waits, and what it then runs is what it was made for.
THEOREM BornReady == BirthsSpec => []BornAsAsked
<1>1. BirthsInv => BornAsAsked
  BY DEF BirthsInv
<1>2. QED
  BY <1>1, BirthsInvariance, PTL
-----------------------------------------------------------------------------
(* The clocks of Births                                                    *)

\* The rest of the monitor's state.
Written ==
    /\ plane \in [Words -> Stamp]
    /\ word \in [Threads -> Words \cup {NoWord}]
    /\ \A t \in Threads : pc[t] = "stamp" => word[t] \in Words
    /\ ordered \in [Threads -> SUBSET Words]

\* Who is somewhere in the monitor's code, and under whose identifier.
Acting(t) ==
    /\ life[t] \notin {"alive", "bare"} => pc[t] = "run"
    /\ Publishing(t) => life[t] = "alive" /\ about[t] = name[t]
    /\ pc[t] \in LookupPCs => about[t] \notin InUse

\* An identifier is one thread's until that thread has been joined.
Named ==
    \A t, u \in Threads :
        /\ life[t] \in {"alive", "bare", "ended"} /\ life[u] \in {"alive", "bare", "ended"}
        /\ name[t] = name[u]
        => t = u

\* A creator's clock on its way to the thread it makes.
Sent(t) ==
    /\ pc[t] \in {"claim", "fill", "create"} => held[t] = clock[t]
    /\ pc[t] = "create" => slots[slotOf[t]].stamp = clock[t]

\* A thread has passed what is ordered before it, or is about to take a clock
\* that is past it: a joined thread's or its creator's.
BirthsPassed(t) ==
    \A w \in ordered[t] :
        \/ Passed(plane[w], clock[t])
        \/ pc[t] \in LookupPCs /\ Covers(about[t], plane[w].clock)
        \/ pc[t] \in {"looked_up", "born_free", "born_sync"} /\ plane[w].clock <= held[t].clock
        \/ pc[t] = "born" /\ plane[w].clock <= slots[slotOf[t]].stamp.clock

\* What a finished thread leaves is covered by the cell of its identifier.
LeftBehind(t) ==
    life[t] = "ended" =>
        \A w \in ordered[t] : plane[w] = NONE \/ Covers(name[t], plane[w].clock)

ClocksInv ==
    /\ Written /\ Named
    /\ \A t \in Threads : /\ Acting(t) /\ Walked(t, TRUE) /\ Sent(t)
                          /\ RealClock(t) /\ CarriesOwnClock(t)
                          /\ BirthsPassed(t) /\ LeftBehind(t)
    /\ \A w \in Words : RealStamp(w)
    /\ NoFalseReport


-----------------------------------------------------------------------------
(* Births: what a step leaves to the threads it is not about               *)

LEMMA BirthsTable == Carried => Table
BY DEF Carried, Table

\* What epoch::here() answers.
LEMMA MineMovesOn ==
    ASSUME Carried, NEW t \in Threads, RealClock(t)
    PROVE  /\ Mine(t) \in Stamp /\ Mine(t) # NONE
           /\ Mine(t).clock > 0
           /\ Mine(t).clock >= clock[t].clock
           /\ Mine(t).thread = clock[t].thread \/ Mine(t).clock > clock[t].clock
<1>1. clock[t] \in Stamp /\ numbers \in Nat
  BY DEF Carried
<1>2. NewClock(numbers) \in Stamp /\ NewClock(numbers).clock = 1
  BY <1>1, StampIsAStamp DEF NewClock
<1>3. CASE clock[t] = NONE
  BY <1>2, <1>3 DEF Mine, NONE
<1>4. CASE clock[t] # NONE
  BY <1>1, <1>4 DEF Mine, RealClock, Stamp
<1>5. QED
  BY <1>3, <1>4

\* A step that leaves the cells of k as they are, and takes none more for it.
Leaves(k) ==
    \A c \in Cells : /\ cells'[c].key = k => cells[c].key = k
                     /\ cells[c].key = k => cells'[c].stamp = cells[c].stamp

LEMMA LeftCovers ==
    ASSUME KeysStay, NEW k \in Keys, Leaves(k), NEW c \in Nat, Covers(k, c)
    PROVE  Covers(k, c)'
BY CoversStay DEF Leaves

Clocks(t) ==
    /\ Acting(t) /\ Walked(t, TRUE) /\ Sent(t)
    /\ RealClock(t) /\ CarriesOwnClock(t) /\ BirthsPassed(t) /\ LeftBehind(t)

LEMMA BirthsOthers ==
    ASSUME BirthsInv, ClocksInv, NEW u \in Threads,
           pc'[u] = pc[u], about'[u] = about[u], step'[u] = step[u], held'[u] = held[u],
           clock'[u] = clock[u], ordered'[u] = ordered[u], plane' = plane,
           slotOf'[u] = slotOf[u], name'[u] = name[u], life'[u] = life[u], KeysStay,
           slotOf[u] \in Slots => slots'[slotOf[u]].stamp = slots[slotOf[u]].stamp,
           Publishing(u) \/ pc[u] \in LookupPCs => Leaves(about[u]),
           life[u] = "ended" => Leaves(name[u]),
           pc[u] \in LookupPCs => about[u] \notin InUse'
    PROVE  Clocks(u)'
<1>1. /\ Table /\ Acting(u) /\ Walked(u, TRUE) /\ Sent(u)
      /\ RealClock(u) /\ CarriesOwnClock(u) /\ BirthsPassed(u) /\ LeftBehind(u)
  BY BirthsTable DEF BirthsInv, ClocksInv
<1>2. \A w \in ordered[u] : w \in Words /\ plane[w].clock \in Nat
  BY DEF ClocksInv, Written, Stamp
<1>3. pc[u] \in {"create", "born"} => slotOf[u] \in Slots
  BY DEF BirthsInv, SlotsAccounted, BirthsTypeOK
<1>4. Acting(u)'
  BY <1>1 DEF Acting, Publishing
<1>5. Walked(u, TRUE)'
  BY <1>1, WalkedStays DEF Leaves
<1>6. Sent(u)'
  BY <1>1, <1>3 DEF Sent
<1>7. RealClock(u)' /\ CarriesOwnClock(u)'
  BY <1>1 DEF RealClock, CarriesOwnClock, Publishing
<1>8. BirthsPassed(u)'
  <2> SUFFICES ASSUME NEW w \in ordered[u]
               PROVE  \/ Passed(plane[w], clock[u])
                      \/ pc[u] \in LookupPCs /\ Covers(about[u], plane[w].clock)'
                      \/ /\ pc[u] \in {"looked_up", "born_free", "born_sync"}
                         /\ plane[w].clock <= held[u].clock
                      \/ pc[u] = "born" /\ plane[w].clock <= slots'[slotOf[u]].stamp.clock
    BY DEF BirthsPassed, Covers, First, cell
  <2>1. PICK c \in Nat : c = plane[w].clock
    BY <1>2
  <2>2. CASE pc[u] \in LookupPCs /\ Covers(about[u], plane[w].clock)
    <3>1. PICK k \in Keys : k = about[u]
      BY <1>1, <2>2 DEF Walked
    <3>2. Covers(k, c)'
      BY <2>1, <2>2, <3>1, LeftCovers
    <3>3. QED
      BY <2>1, <2>2, <3>1, <3>2 DEF Covers, First, cell
  <2>3. CASE pc[u] = "born" /\ plane[w].clock <= slots[slotOf[u]].stamp.clock
    BY <1>3, <2>3
  <2>4. QED
    BY <1>1, <2>2, <2>3 DEF BirthsPassed
<1>9. LeftBehind(u)'
  <2> SUFFICES ASSUME life[u] = "ended", NEW w \in ordered[u], plane[w] # NONE
               PROVE  Covers(name[u], plane[w].clock)'
    BY DEF LeftBehind, Covers, First, cell
  <2>1. PICK k \in Keys : k = name[u]
    BY DEF BirthsInv, Carried
  <2>2. PICK c \in Nat : c = plane[w].clock
    BY <1>2
  <2>3. Covers(k, c)'
    BY <1>1, <2>1, <2>2, LeftCovers DEF LeftBehind
  <2>4. QED
    BY <2>1, <2>2, <2>3 DEF Covers, First, cell
<1>10. QED
  BY <1>4, <1>5, <1>6, <1>7, <1>8, <1>9 DEF Clocks

\* What a step shows about the threads it is about, for the clocks to be kept.
LEMMA BirthsFrame ==
    ASSUME BirthsInv, ClocksInv, NEW S \in SUBSET Threads,
           plane' = plane, KeysStay, Written', Named', NoFalseReport',
           \A u \in Threads \ S :
               /\ pc'[u] = pc[u] /\ about'[u] = about[u] /\ step'[u] = step[u]
               /\ held'[u] = held[u] /\ clock'[u] = clock[u] /\ ordered'[u] = ordered[u]
               /\ slotOf'[u] = slotOf[u] /\ name'[u] = name[u] /\ life'[u] = life[u],
           \A u \in Threads \ S :
               slotOf[u] \in Slots => slots'[slotOf[u]].stamp = slots[slotOf[u]].stamp,
           \A u \in Threads \ S :
               /\ Publishing(u) \/ pc[u] \in LookupPCs => Leaves(about[u])
               /\ life[u] = "ended" => Leaves(name[u])
               /\ pc[u] \in LookupPCs => about[u] \notin InUse',
           \A u \in S : Clocks(u)'
    PROVE  ClocksInv'
<1>1. ASSUME NEW u \in Threads \ S PROVE Clocks(u)'
  BY <1>1, BirthsOthers
<1>2. \A u \in Threads : Clocks(u)'
  BY <1>1
<1>3. \A w \in Words : RealStamp(w)'
  BY DEF ClocksInv, RealStamp
<1>4. QED
  BY <1>2, <1>3 DEF ClocksInv, Clocks

\* Nothing about the lives of the threads changes.
LEMMA SameLives ==
    ASSUME name' = name, life' = life
    PROVE  InUse' = InUse /\ (Named => Named')
BY DEF InUse, Named

-----------------------------------------------------------------------------
(* Births: the monitor's own steps                                         *)

LEMMA BirthsStartsClocked == ~ Gaps /\ BirthsInit => ClocksInv
<1> SUFFICES ASSUME BirthsInit PROVE ClocksInv
  OBVIOUS
<1>1. PICK k \in Keys : name = [t \in Threads |-> IF t = Main THEN k ELSE NoKey]
  BY DEF BirthsInit
<1>2. /\ \A t \in Threads : /\ pc[t] = "run" /\ clock[t] = NONE /\ ordered[t] = Words
                            /\ life[t] \in {"alive", "unborn"} /\ (life[t] = "alive" => t = Main)
      /\ \A w \in Words : plane[w] = NONE
      /\ reports = {}
  BY DEF BirthsInit, Init
<1>3. Written
  BY <1>2, NoneIsAStamp DEF BirthsInit, Init, Written
<1>4. Named /\ NoFalseReport /\ \A w \in Words : RealStamp(w)
  BY <1>2 DEF Named, NoFalseReport, RealStamp
<1>5. ASSUME NEW t \in Threads PROVE Clocks(t)
  <2>1. \A w \in ordered[t] : Passed(plane[w], clock[t])
    BY <1>2 DEF Passed, NONE
  <2>2. BirthsPassed(t) /\ LeftBehind(t) /\ RealClock(t)
    BY <1>2, <2>1 DEF BirthsPassed, LeftBehind, RealClock
  <2>3. Acting(t) /\ Walked(t, TRUE) /\ Sent(t) /\ CarriesOwnClock(t)
    BY <1>2 DEF Acting, Walked, Sent, CarriesOwnClock, Publishing, PublishPCs, LookupPCs
  <2>4. QED
    BY <2>2, <2>3 DEF Clocks
<1>6. QED
  BY <1>3, <1>4, <1>5 DEF ClocksInv, Clocks

\* A thread in its program's code, or in pthread_create, has passed everything
\* ordered before it.
LEMMA BirthsMinePasses ==
    ASSUME BirthsInv, ClocksInv, NEW t \in Threads,
           ~ Looking(t), pc[t] \notin {"born", "born_free", "born_sync"}, NEW w \in ordered[t]
    PROVE  /\ w \in Words /\ plane[w] \in Stamp
           /\ Passed(plane[w], clock[t]) /\ Passed(plane[w], Mine(t))
           /\ plane[w].clock <= clock[t].clock
<1>1. w \in Words /\ plane[w] \in Stamp /\ clock[t] \in Stamp /\ RealClock(t)
  BY DEF ClocksInv, Written, BirthsInv, Carried
<1>2. Passed(plane[w], clock[t])
  BY DEF ClocksInv, BirthsPassed, Looking
<1>3. Mine(t) \in Stamp /\ Mine(t).clock >= clock[t].clock
      /\ (Mine(t).thread = clock[t].thread \/ Mine(t).clock > clock[t].clock)
  BY <1>1, MineMovesOn DEF BirthsInv
<1>4. QED
  BY <1>1, <1>2, <1>3, PassedStays, PassedIsCovered

LEMMA BirthsRacedIsRight ==
    ASSUME BirthsInv, ClocksInv, NEW t \in Threads, pc[t] = "run", NEW w \in Words, Raced(t, w)
    PROVE  NoFalseReport'
<1>1. ASSUME unordered(plane[w], Mine(t)), w \in ordered[t] PROVE Stopped(Mine(t))
  <2>1. Passed(plane[w], Mine(t)) /\ plane[w] \in Stamp /\ Mine(t) \in Stamp
    BY <1>1, BirthsMinePasses, MineCarries DEF Looking, LookupPCs, BirthsInv
  <2>2. QED
    BY <1>1, <2>1, PassedIsNotReported
<1>2. \A r \in reports : r.ordered => r.stopped
  BY DEF ClocksInv, NoFalseReport
<1>3. CASE unordered(plane[w], Mine(t))
  <2> DEFINE new == [word |-> w, ordered |-> w \in ordered[t], stopped |-> Stopped(Mine(t))]
  <2>1. new.ordered => new.stopped
    BY <1>1, <1>3
  <2>2. reports' = reports \cup {new}
    BY <1>3 DEF Raced
  <2> HIDE DEF new
  <2>3. QED
    BY <1>2, <2>1, <2>2 DEF NoFalseReport
<1>4. CASE ~ unordered(plane[w], Mine(t))
  BY <1>2, <1>4 DEF Raced, NoFalseReport
<1>5. QED
  BY <1>3, <1>4

\* A step that leaves the table, the writes and every life alone, and whose
\* thread goes on, or goes back, to its program's code.
LEMMA BirthsQuiet ==
    ASSUME BirthsInv, ClocksInv, NEW t \in Threads, life[t] \in {"alive", "bare"},
           cells' = cells, plane' = plane, ordered' = ordered, name' = name, life' = life,
           \A u \in Threads \ {t} :
               /\ pc'[u] = pc[u] /\ about'[u] = about[u] /\ step'[u] = step[u]
               /\ held'[u] = held[u] /\ clock'[u] = clock[u] /\ slotOf'[u] = slotOf[u]
               /\ slotOf[u] \in Slots => slots'[slotOf[u]].stamp = slots[slotOf[u]].stamp,
           pc'[t] \in {"run", "stamp", "claim", "fill", "create", "create_bare"},
           clock'[t].clock > 0 \/ clock'[t] = clock[t],
           \A w \in ordered[t] : Passed(plane[w], clock'[t]),
           Sent(t)',
           word' \in [Threads -> Words \cup {NoWord}],
           \A u \in Threads : pc'[u] = "stamp" => word'[u] \in Words,
           NoFalseReport'
    PROVE  ClocksInv'
<1>1. InUse' = InUse /\ Named'
  BY SameLives DEF ClocksInv
<1>2. Written'
  BY DEF ClocksInv, Written
<1>3. KeysStay /\ \A k : Leaves(k)
  BY DEF KeysStay, Leaves
<1>4. \A u \in Threads \ {t} : pc[u] \in LookupPCs => about[u] \notin InUse'
  BY <1>1 DEF ClocksInv, Acting
<1>5. Clocks(t)'
  <2>1. RealClock(t)' /\ BirthsPassed(t)'
    <3>1. RealClock(t)
      BY DEF ClocksInv
    <3>2. RealClock(t)'
      BY <3>1 DEF RealClock
    <3>3. BirthsPassed(t)'
      BY DEF BirthsPassed
    <3>4. QED
      BY <3>2, <3>3
  <2>2. Acting(t)' /\ CarriesOwnClock(t)' /\ Walked(t, TRUE)' /\ LeftBehind(t)'
    BY DEF Acting, CarriesOwnClock, Walked, LeftBehind, Publishing, PublishPCs, LookupPCs
  <2>3. QED
    BY <2>1, <2>2 DEF Clocks
<1>6. PICK S \in SUBSET Threads : S = {t}
  OBVIOUS
<1>7. \A u \in Threads \ S :
         /\ Publishing(u) \/ pc[u] \in LookupPCs => Leaves(about[u])
         /\ life[u] = "ended" => Leaves(name[u])
         /\ pc[u] \in LookupPCs => about[u] \notin InUse'
  BY <1>3, <1>4, <1>6
<1>8. QED
  BY <1>1, <1>2, <1>3, <1>5, <1>6, <1>7, BirthsFrame

LEMMA BirthsAccess ==
    ASSUME BirthsInv, ClocksInv, NEW t \in Threads, NEW w \in Words,
           Load(t, w) \/ Store(t, w), Running(t), UNCHANGED birthVars
    PROVE  ClocksInv'
<1>1. /\ pc[t] = "run" /\ Raced(t, w) /\ Here(t) /\ life[t] \in {"alive", "bare"}
      /\ RealClock(t) /\ Carried
  BY DEF Load, Store, Raced, Running, BirthsInv, ClocksInv
<1>2. /\ cells' = cells /\ plane' = plane /\ ordered' = ordered
      /\ slots' = slots /\ slotOf' = slotOf /\ name' = name /\ life' = life
      /\ pc'[t] \in {"run", "stamp"}
      /\ \A u \in Threads \ {t} : /\ pc'[u] = pc[u] /\ about'[u] = about[u]
                                  /\ step'[u] = step[u] /\ held'[u] = held[u]
  BY <1>1 DEF Load, Store, tableVars, truth, birthVars, Carried
<1>3. clock'[t] = Mine(t) /\ \A u \in Threads \ {t} : clock'[u] = clock[u]
  BY <1>1 DEF Here, Keep, Carried
<1>4. \A x \in ordered[t] : Passed(plane[x], clock'[t])
  BY <1>1, <1>3, BirthsMinePasses DEF Looking, LookupPCs
<1>5. clock'[t].clock > 0
  BY <1>1, <1>3, MineMovesOn
<1>6. NoFalseReport' /\ Sent(t)'
  BY <1>1, <1>2, BirthsRacedIsRight DEF Sent
<1>7. /\ word' \in [Threads -> Words \cup {NoWord}]
      /\ \A u \in Threads : pc'[u] = "stamp" => word'[u] \in Words
  BY <1>1 DEF Load, Store, tableVars, ClocksInv, Written, Carried
<1>8. QED
  BY <1>1, <1>2, <1>3, <1>4, <1>5, <1>6, <1>7, BirthsQuiet

\* epoch::sync, at the end of a join or in born.
LEMMA SyncPasses ==
    ASSUME BirthsInv, ClocksInv, NEW t \in Threads,
           pc[t] \in {"looked_up", "born_sync"}, Keep(t, Synced(Mine(t), held[t]))
    PROVE  /\ clock'[t].clock > 0
           /\ \A w \in ordered[t] : Passed(plane[w], clock'[t])
<1>1. /\ RealClock(t) /\ BirthsPassed(t) /\ held[t] \in Stamp /\ clock[t] \in Stamp /\ Carried
      /\ clock'[t] = Synced(Mine(t), held[t])
  BY DEF ClocksInv, BirthsInv, Carried, Keep
<1>2. /\ Mine(t) \in Stamp /\ Mine(t).clock > 0
      /\ Synced(Mine(t), held[t]) \in Stamp
      /\ Synced(Mine(t), held[t]).thread = Mine(t).thread
      /\ Synced(Mine(t), held[t]).clock >= Mine(t).clock
  BY <1>1, MineMovesOn, SyncedIsAStamp
<1>3. ASSUME NEW w \in ordered[t] PROVE Passed(plane[w], clock'[t])
  <2>1. w \in Words /\ plane[w] \in Stamp /\ (plane[w].clock = 0 => plane[w] = NONE)
    BY DEF ClocksInv, Written, RealStamp
  <2>2. CASE Passed(plane[w], clock[t])
    <3>1. Passed(plane[w], Mine(t))
      BY <1>1, <2>1, <2>2, MineMovesOn, PassedStays
    <3>2. QED
      BY <1>1, <1>2, <2>1, <3>1, PassedStays
  <2>3. CASE plane[w].clock <= held[t].clock
    BY <1>1, <1>2, <2>1, <2>3, CoveredIsPassed
  <2>4. QED
    BY <1>1, <2>2, <2>3 DEF BirthsPassed, LookupPCs
<1>4. QED
  BY <1>1, <1>2, <1>3 DEF Stamp

LEMMA BirthsSyncs ==
    ASSUME BirthsInv, ClocksInv, NEW t \in Threads,
           (Acquired(t) /\ UNCHANGED birthVars) \/ BornStart(t)
    PROVE  ClocksInv'
<1>1. /\ pc[t] \in {"looked_up", "born_sync"} /\ Keep(t, Synced(Mine(t), held[t]))
      /\ life[t] \in {"alive", "bare"} /\ Carried
  BY DEF Acquired, BornStart, At, BirthsInv, ClocksInv, Acting
<1>2. clock'[t].clock > 0 /\ \A w \in ordered[t] : Passed(plane[w], clock'[t])
  BY <1>1, SyncPasses
<1>3. /\ cells' = cells /\ plane' = plane /\ ordered' = ordered /\ word' = word
      /\ reports' = reports /\ slots' = slots /\ slotOf' = slotOf /\ name' = name /\ life' = life
      /\ pc'[t] = "run" /\ \A u \in Threads \ {t} : pc'[u] = pc[u]
      /\ \A u \in Threads \ {t} : /\ about'[u] = about[u] /\ step'[u] = step[u]
                                  /\ held'[u] = held[u] /\ clock'[u] = clock[u]
  BY <1>1 DEF Acquired, BornStart, Goto, EndWalk, Keep, truth, birthVars, Carried
<1>4. NoFalseReport' /\ Sent(t)'
  BY <1>3 DEF ClocksInv, NoFalseReport, Sent
<1>5. /\ word' \in [Threads -> Words \cup {NoWord}]
      /\ \A u \in Threads : pc'[u] = "stamp" => word'[u] \in Words
  BY <1>3 DEF ClocksInv, Written
<1>6. QED
  BY <1>1, <1>2, <1>3, <1>4, <1>5, BirthsQuiet

LEMMA BirthsStamped ==
    ASSUME BirthsInv, ClocksInv, NEW t \in Threads, Stamped(t), UNCHANGED birthVars
    PROVE  ClocksInv'
<1> DEFINE x == word[t]
<1>1. /\ pc[t] = "stamp" /\ pc'[t] = "run" /\ x \in Words /\ Carried
      /\ cells' = cells /\ about' = about /\ step' = step /\ held' = held
      /\ reports' = reports /\ slots' = slots /\ slotOf' = slotOf
      /\ name' = name /\ life' = life
      /\ clock'[t] = Ticked(Mine(t)) /\ word' = [word EXCEPT ![t] = NoWord]
      /\ \A u \in Threads \ {t} : pc'[u] = pc[u] /\ clock'[u] = clock[u]
  BY DEF Stamped, Keep, BirthsInv, ClocksInv, Written, Carried, birthVars
<1>2. /\ RealClock(t) /\ ~ Looking(t) /\ life[t] \in {"alive", "bare"}
      /\ Mine(t) \in Stamp /\ Mine(t).clock > 0 /\ Ticked(Mine(t)) \in Stamp
  BY <1>1, MineMovesOn, TickedIsAStamp
  DEF ClocksInv, Acting, BirthsInv, SlotsAccounted, BirthsTypeOK, Looking, LookupPCs
<1>3. /\ word' \in [Threads -> Words \cup {NoWord}]
      /\ \A u \in Threads : pc'[u] = "stamp" => word'[u] \in Words
  BY <1>1 DEF ClocksInv, Written
<1>4. CASE Stopped(Mine(t))
  <2>1. /\ plane' = plane /\ ordered' = ordered /\ clock'[t] = Mine(t)
    BY <1>1, <1>4 DEF Stamped, truth, Ticked
  <2>2. \A w \in ordered[t] : Passed(plane[w], clock'[t])
    BY <1>1, <1>2, <2>1, BirthsMinePasses
  <2>3. NoFalseReport' /\ Sent(t)' /\ clock'[t].clock > 0
    BY <1>1, <1>2, <2>1 DEF ClocksInv, NoFalseReport, Sent
  <2>4. QED
    BY <1>1, <1>2, <1>3, <2>1, <2>2, <2>3, BirthsQuiet
<1>5. CASE ~ Stopped(Mine(t))
  <2>1. /\ tick(Mine(t)) = Ticked(Mine(t))
        /\ Ticked(Mine(t)).clock = Mine(t).clock + 1
        /\ Ticked(Mine(t)).thread = Mine(t).thread
    BY <1>2, <1>5, TickedIsAStamp
  <2>2. /\ plane' = [plane EXCEPT ![x] = Ticked(Mine(t))]
        /\ ordered' = [u \in Threads |-> IF u = t THEN ordered[u] \cup {x} ELSE ordered[u] \ {x}]
    BY <1>5, <2>1 DEF Stamped
  <2>3. /\ plane'[x] = Ticked(Mine(t))
        /\ \A w \in Words : w # x => plane'[w] = plane[w]
    BY <1>1, <2>2 DEF ClocksInv, Written
  <2>4. Ticked(Mine(t)).clock > 0 /\ Ticked(Mine(t)).clock >= Mine(t).clock
    BY <1>2, <2>1 DEF Stamp
  <2>5. Written'
    BY <1>1, <1>2, <1>3, <2>2 DEF ClocksInv, Written
  <2> HIDE DEF x
  <2>6. BirthsPassed(t)'
    <3> SUFFICES ASSUME NEW w \in ordered'[t] PROVE Passed(plane'[w], clock'[t])
      BY DEF BirthsPassed
    <3>1. CASE w = x
      BY <1>1, <2>3, <3>1 DEF Passed
    <3>2. CASE w # x
      <4>1. w \in ordered[t]
        BY <2>2, <3>2
      <4>2. w \in Words /\ plane[w] \in Stamp /\ Passed(plane[w], Mine(t))
        BY <1>1, <1>2, <4>1, BirthsMinePasses
      <4>3. QED
        BY <1>1, <1>2, <2>1, <2>3, <2>4, <3>2, <4>2, PassedStays
    <3>3. QED
      BY <3>1, <3>2
  <2>7. ASSUME NEW u \in Threads \ {t} PROVE BirthsPassed(u)'
    <3> SUFFICES ASSUME NEW w \in ordered'[u]
                 PROVE  \/ Passed(plane'[w], clock'[u])
                        \/ pc'[u] \in LookupPCs /\ Covers(about[u], plane[w].clock)'
                        \/ /\ pc'[u] \in {"looked_up", "born_free", "born_sync"}
                           /\ plane'[w].clock <= held'[u].clock
                        \/ pc'[u] = "born" /\ plane'[w].clock <= slots'[slotOf'[u]].stamp.clock
      BY DEF BirthsPassed
    <3>1. w \in ordered[u] /\ w # x /\ w \in Words
      BY <2>2 DEF ClocksInv, Written
    <3>2. plane'[w] = plane[w] /\ plane[w].clock \in Nat
      BY <2>3, <3>1 DEF ClocksInv, Written, Stamp
    <3>3. CASE pc[u] \in LookupPCs /\ Covers(about[u], plane[w].clock)
      <4>1. Covers(about[u], plane[w].clock)'
        BY <1>1, <3>2, <3>3 DEF Covers, First, cell
      <4>2. QED
        BY <1>1, <3>3, <4>1
    <3>4. CASE pc[u] = "born" /\ plane[w].clock <= slots[slotOf[u]].stamp.clock
      BY <1>1, <3>2, <3>4
    <3>5. QED
      BY <1>1, <3>1, <3>2, <3>3, <3>4 DEF ClocksInv, BirthsPassed
  <2>8. ASSUME NEW u \in Threads PROVE LeftBehind(u)'
    <3> SUFFICES ASSUME life[u] = "ended", NEW w \in ordered'[u], plane'[w] # NONE
                 PROVE  Covers(name[u], plane'[w].clock)
      BY <1>1 DEF LeftBehind, Covers, First, cell
    <3>1. u # t
      BY <1>2
    <3>2. w \in ordered[u] /\ w # x /\ w \in Words
      BY <2>2, <3>1 DEF ClocksInv, Written
    <3>3. QED
      BY <2>3, <3>2 DEF ClocksInv, LeftBehind
  <2>9. ASSUME NEW u \in Threads PROVE RealClock(u)' /\ CarriesOwnClock(u)' /\ Sent(u)'
    <3>1. RealClock(u) /\ CarriesOwnClock(u) /\ Sent(u)
      BY DEF ClocksInv
    <3>2. CASE u = t
      BY <1>1, <2>4, <3>2 DEF RealClock, CarriesOwnClock, Sent, Publishing, PublishPCs
    <3>3. CASE u # t
      BY <1>1, <3>1, <3>3 DEF RealClock, CarriesOwnClock, Sent, Publishing
    <3>4. QED
      BY <3>2, <3>3
  <2>10. ASSUME NEW u \in Threads PROVE Acting(u)' /\ Walked(u, TRUE)'
    <3>1. Acting(u) /\ Walked(u, TRUE) /\ Table /\ InUse' = InUse /\ KeysStay
      BY <1>1, BirthsTable, SameLives DEF ClocksInv, KeysStay
    <3>2. CASE u = t
      BY <1>1, <3>1, <3>2 DEF Acting, Walked, Publishing, PublishPCs, LookupPCs
    <3>3. CASE u # t
      <4>1. Acting(u)'
        BY <1>1, <3>1, <3>3 DEF Acting, Publishing
      <4>2. QED
        BY <1>1, <3>1, <3>3, <4>1, WalkedStays
    <3>4. QED
      BY <3>2, <3>3
  <2>11. Named' /\ NoFalseReport'
    BY <1>1, SameLives DEF ClocksInv, NoFalseReport
  <2>12. ASSUME NEW w \in Words PROVE RealStamp(w)'
    BY <2>3, <2>4 DEF ClocksInv, RealStamp
  <2>13. QED
    BY <2>5, <2>6, <2>7, <2>8, <2>9, <2>10, <2>11, <2>12 DEF ClocksInv
<1>6. QED
  BY <1>4, <1>5

\* Nobody else walks for the identifier a thread ends under, or waits for it to
\* be looked up: it is that thread's own.
LEMMA OwnIdentifier ==
    ASSUME BirthsInv, ClocksInv, NEW t \in Threads, Publishing(t), NEW u \in Threads, u # t
    PROVE  /\ Publishing(u) \/ pc[u] \in LookupPCs => about[u] # about[t]
           /\ life[u] = "ended" => name[u] # about[t]
<1>1. life[t] = "alive" /\ about[t] = name[t] /\ name[t] \in InUse
  BY DEF ClocksInv, Acting, InUse
<1>2. Publishing(u) => life[u] = "alive" /\ about[u] = name[u]
  BY DEF ClocksInv, Acting
<1>3. pc[u] \in LookupPCs => about[u] \notin InUse
  BY DEF ClocksInv, Acting
<1>4. QED
  BY <1>1, <1>2, <1>3 DEF ClocksInv, Named

LEMMA BirthsWalk ==
    ASSUME BirthsInv, ClocksInv, NEW t \in Threads, Walk(t), UNCHANGED birthVars, ~ Crowded
    PROVE  ClocksInv'
<1>1. /\ Table /\ TableStep(t) /\ pc[t] # "publish_steal" /\ Walked(t, TRUE)
      /\ plane' = plane /\ ordered' = ordered /\ clock' = clock /\ word' = word
      /\ reports' = reports /\ slots' = slots /\ slotOf' = slotOf
      /\ name' = name /\ life' = life
  BY BirthsTable DEF BirthsInv, ClocksInv, Walk, monitorVars, truth, birthVars, Crowded
<1>2. /\ about' = about
      /\ \A u \in Threads \ {t} : pc'[u] = pc[u] /\ step'[u] = step[u] /\ held'[u] = held[u]
      /\ pc[t] \in PublishPCs => pc'[t] \in PublishPCs \cup {"published"}
      /\ pc[t] \in LookupPCs => pc'[t] \in LookupPCs \cup {"looked_up"}
      /\ pc[t] \in PublishPCs \cup LookupPCs
  BY <1>1, OthersWait
<1>3. PICK k \in Keys : k = about[t]
  BY <1>1, <1>2 DEF Walked
<1>4. PICK S \in SUBSET Threads : S = {t}
  OBVIOUS
<1>5. InUse' = InUse /\ Named' /\ NoFalseReport'
  BY <1>1, SameLives DEF ClocksInv, NoFalseReport
<1>6. Written'
  <2>1. pc'[t] # "stamp"
    BY <1>2 DEF PublishPCs, LookupPCs
  <2>2. QED
    BY <1>1, <1>2, <2>1 DEF ClocksInv, Written
<1>7. /\ Acting(t) /\ RealClock(t) /\ CarriesOwnClock(t) /\ BirthsPassed(t)
      /\ life[t] \in {"alive", "bare"}
  BY <1>2
  DEF ClocksInv, Acting, BirthsInv, SlotsAccounted, BirthsTypeOK, PublishPCs, LookupPCs
<1>8. /\ RealClock(t)' /\ LeftBehind(t)'
  BY <1>1, <1>7 DEF RealClock, LeftBehind
<1>9. Sent(t)'
  BY <1>2 DEF Sent, PublishPCs, LookupPCs
<1>10. \A u \in Threads \ S : pc[u] \in LookupPCs => about[u] \notin InUse'
  BY <1>5 DEF ClocksInv, Acting
<1>11. CASE pc[t] \in PublishPCs
  <2>1. Walked(t, TRUE)' /\ Stores(t)
    BY <1>1, <1>11, PublishStep
  <2>2. Publishing(t) /\ KeysStay /\ held' = held
    BY <1>11, <2>1 DEF Publishing, Stores
  <2>3. \A j \in Keys : j # k => Leaves(j)
    BY <1>3, <2>1 DEF Stores, KeysStay, Leaves
  <2>4. ASSUME NEW u \in Threads \ S
        PROVE  /\ Publishing(u) \/ pc[u] \in LookupPCs => Leaves(about[u])
               /\ life[u] = "ended" => Leaves(name[u])
    <3>1. /\ Publishing(u) \/ pc[u] \in LookupPCs => about[u] # k /\ about[u] \in Keys
          /\ life[u] = "ended" => name[u] # k /\ name[u] \in Keys
      BY <1>3, <1>4, <2>2, OwnIdentifier
      DEF ClocksInv, Walked, Publishing, BirthsInv, Carried
    <3>2. QED
      BY <2>3, <3>1
  <2>5. Acting(t)' /\ CarriesOwnClock(t)'
    BY <1>1, <1>2, <1>7, <1>11, <2>2
    DEF Acting, CarriesOwnClock, Publishing, PublishPCs, LookupPCs
  <2>6. BirthsPassed(t)'
    <3>1. \A w \in ordered[t] : Passed(plane[w], clock[t])
      BY <1>7, <1>11 DEF BirthsPassed, PublishPCs, LookupPCs
    <3>2. QED
      BY <1>1, <3>1 DEF BirthsPassed
  <2>7. Clocks(t)'
    BY <1>8, <1>9, <2>1, <2>5, <2>6 DEF Clocks
  <2>8. QED
    BY <1>1, <1>2, <1>4, <1>5, <1>6, <1>10, <2>2, <2>4, <2>7, BirthsFrame
<1>12. CASE pc[t] \in LookupPCs
  <2>1. Walked(t, TRUE)' /\ Finds(t)
    BY <1>1, <1>12, LookupStep
  <2>2. cells' = cells /\ KeysStay
    BY <2>1 DEF Finds, KeysStay
  <2>3. \A u \in Threads \ S :
           /\ Publishing(u) \/ pc[u] \in LookupPCs => Leaves(about[u])
           /\ life[u] = "ended" => Leaves(name[u])
    BY <2>2 DEF Leaves
  <2>4. Acting(t)' /\ CarriesOwnClock(t)'
    BY <1>1, <1>2, <1>5, <1>7, <1>12
    DEF Acting, CarriesOwnClock, Publishing, PublishPCs, LookupPCs
  <2>5. BirthsPassed(t)'
    <3> SUFFICES ASSUME NEW w \in ordered[t], ~ Passed(plane[w], clock[t])
                 PROVE  \/ pc'[t] \in LookupPCs /\ Covers(k, plane[w].clock)'
                        \/ pc'[t] = "looked_up" /\ plane[w].clock <= held'[t].clock
      BY <1>1, <1>2, <1>3 DEF BirthsPassed, Covers, First, cell
    <3>1. Covers(k, plane[w].clock)
      BY <1>3, <1>7, <1>12 DEF BirthsPassed, LookupPCs
    <3>2. plane[w].clock \in Nat
      BY DEF ClocksInv, Written, Stamp
    <3>3. CASE pc'[t] = "looked_up"
      BY <1>3, <2>1, <3>1, <3>2, <3>3 DEF Finds
    <3>4. CASE pc'[t] \in LookupPCs
      BY <1>1, <2>2, <3>1, <3>4 DEF Covers, First, cell
    <3>5. QED
      BY <1>2, <1>12, <3>3, <3>4
  <2>6. Clocks(t)'
    BY <1>8, <1>9, <2>1, <2>4, <2>5 DEF Clocks
  <2>7. QED
    BY <1>1, <1>2, <1>4, <1>5, <1>6, <1>10, <2>2, <2>3, <2>6, BirthsFrame
<1>13. QED
  BY <1>2, <1>11, <1>12

LEMMA BirthsExited ==
    ASSUME BirthsInv, ClocksInv, NEW t \in Threads, Exited(t)
    PROVE  ClocksInv'
<1>1. /\ pc[t] = "run" /\ life[t] = "alive" /\ Here(t) /\ Carried /\ RealClock(t)
      /\ cells' = cells /\ plane' = plane /\ ordered' = ordered /\ reports' = reports
      /\ word' = word /\ slots' = slots /\ slotOf' = slotOf /\ name' = name /\ life' = life
      /\ pc'[t] = "publish_load" /\ about'[t] = name[t] /\ step'[t] = 0 /\ held'[t] = Mine(t)
      /\ \A u \in Threads \ {t} : /\ pc'[u] = pc[u] /\ about'[u] = about[u]
                                  /\ step'[u] = step[u] /\ held'[u] = held[u]
  BY DEF Exited, Running, BeginPublish, truth, birthVars, BirthsInv, Carried, ClocksInv
<1>2. clock'[t] = Mine(t) /\ \A u \in Threads \ {t} : clock'[u] = clock[u]
  BY <1>1 DEF Here, Keep, Carried
<1>3. Mine(t) # NONE /\ Mine(t).clock > 0
  BY <1>1, MineMovesOn
<1>4. InUse' = InUse /\ Named' /\ NoFalseReport'
  BY <1>1, SameLives DEF ClocksInv, NoFalseReport
<1>5. Written'
  BY <1>1 DEF ClocksInv, Written
<1>6. KeysStay /\ \A u \in Threads : Leaves(about[u]) /\ Leaves(name[u])
  BY <1>1 DEF KeysStay, Leaves
<1>7. \A u \in Threads \ {t} : pc[u] \in LookupPCs => about[u] \notin InUse'
  BY <1>4 DEF ClocksInv, Acting
<1>8. BirthsPassed(t)'
  <2>1. \A w \in ordered[t] : Passed(plane[w], Mine(t))
    BY <1>1, BirthsMinePasses DEF Looking, LookupPCs
  <2>2. QED
    BY <1>1, <1>2, <2>1 DEF BirthsPassed
<1>9. Walked(t, TRUE)'
  <2>1. name[t] \in Keys
    BY <1>1 DEF Carried
  <2>2. QED
    BY <1>1, <2>1 DEF Walked, PublishPCs, LookupPCs, Steps
<1>10. Acting(t)' /\ Sent(t)' /\ RealClock(t)' /\ CarriesOwnClock(t)' /\ LeftBehind(t)'
  BY <1>1, <1>2, <1>3
  DEF Acting, Sent, RealClock, CarriesOwnClock, LeftBehind, Publishing, PublishPCs, LookupPCs
<1>11. PICK S \in SUBSET Threads : S = {t}
  OBVIOUS
<1>12. Clocks(t)'
  BY <1>8, <1>9, <1>10 DEF Clocks
<1>13. QED
  BY <1>1, <1>2, <1>4, <1>5, <1>6, <1>7, <1>11, <1>12, BirthsFrame

-----------------------------------------------------------------------------
(* Births: pthread_create                                                  *)

LEMMA BirthsCreates ==
    ASSUME BirthsInv, ClocksInv, NEW t \in Threads, NEW u \in Threads, Create(t, u)
    PROVE  ClocksInv'
<1>1. /\ pc[t] = "run" /\ life[t] \in {"alive", "bare"} /\ Here(t) /\ RealClock(t) /\ Carried
  BY DEF Create, Running, BirthsInv, ClocksInv
<1>2. /\ cells' = cells /\ plane' = plane /\ ordered' = ordered /\ word' = word
      /\ reports' = reports /\ slots' = slots /\ slotOf' = slotOf /\ name' = name /\ life' = life
      /\ pc'[t] = "claim" /\ held'[t] = Mine(t)
      /\ \A v \in Threads \ {t} : /\ pc'[v] = pc[v] /\ about'[v] = about[v]
                                  /\ step'[v] = step[v] /\ held'[v] = held[v]
  BY <1>1 DEF Create, Goto, truth, Carried
<1>3. clock'[t] = Mine(t) /\ \A v \in Threads \ {t} : clock'[v] = clock[v]
  BY <1>1 DEF Here, Keep, Carried
<1>4. \A w \in ordered[t] : Passed(plane[w], clock'[t])
  BY <1>1, <1>3, BirthsMinePasses DEF Looking, LookupPCs
<1>5. clock'[t].clock > 0
  BY <1>1, <1>3, MineMovesOn
<1>6. NoFalseReport' /\ Sent(t)'
  BY <1>2, <1>3 DEF ClocksInv, NoFalseReport, Sent
<1>7. /\ word' \in [Threads -> Words \cup {NoWord}]
      /\ \A v \in Threads : pc'[v] = "stamp" => word'[v] \in Words
  BY <1>2 DEF ClocksInv, Written
<1>8. QED
  BY <1>1, <1>2, <1>3, <1>4, <1>5, <1>6, <1>7, BirthsQuiet

\* Claiming a slot, filling it in, and the create that fails: the creator's
\* clock reaches the slot as it was read.
LEMMA BirthsSlotSteps ==
    ASSUME BirthsInv, ClocksInv, NEW t \in Threads,
           Claim(t) \/ Fill(t) \/ CreateFailed(t) \/ CreateBareFailed(t)
    PROVE  ClocksInv'
<1>1. /\ pc[t] \in MakePCs /\ life[t] \in {"alive", "bare"} /\ Sent(t) /\ Carried
      /\ slots \in [Slots -> Slot] /\ slotOf \in [Threads -> Slots \cup {NoSlot}]
  BY DEF Claim, Fill, CreateFailed, CreateBareFailed, At, MakePCs, BirthsInv, ClocksInv,
         Acting, SlotsAccounted, BirthsTypeOK
<1>2. /\ cells' = cells /\ plane' = plane /\ ordered' = ordered /\ word' = word
      /\ reports' = reports /\ name' = name /\ life' = life
      /\ clock' = clock /\ about' = about
  BY DEF Claim, Fill, CreateFailed, CreateBareFailed, raceVars
<1>3. /\ pc'[t] \in {"run", "claim", "fill", "create", "create_bare"}
      /\ \A v \in Threads \ {t} : /\ pc'[v] = pc[v] /\ step'[v] = step[v]
                                  /\ held'[v] = held[v] /\ slotOf'[v] = slotOf[v]
  BY <1>1 DEF Claim, Fill, CreateFailed, CreateBareFailed, Goto, Carried
<1>4. ASSUME NEW v \in Threads \ {t}, slotOf[v] \in Slots
      PROVE  slots'[slotOf[v]].stamp = slots[slotOf[v]].stamp
  <2>1. CASE Fill(t)
    <3>1. slotOf[t] \in Slots
      BY <2>1 DEF Fill, At, BirthsInv, SlotsAccounted, BirthsTypeOK
    <3>2. slotOf[v] # slotOf[t]
      BY <1>4, <3>1 DEF BirthsInv, SlotsAccounted, Holding, BirthsAssumption, Slots
    <3>3. QED
      BY <1>1, <1>4, <2>1, <3>2 DEF Fill
  <2>2. CASE Claim(t) \/ CreateFailed(t) \/ CreateBareFailed(t)
    BY <1>1, <1>4, <2>2 DEF Claim, CreateFailed, CreateBareFailed, Slot
  <2>3. QED
    BY <2>1, <2>2
<1>5. \A w \in ordered[t] : Passed(plane[w], clock'[t])
  BY <1>1, <1>2, BirthsMinePasses DEF Looking, LookupPCs, MakePCs
<1>6. Sent(t)'
  <2>1. CASE Claim(t)
    BY <1>1, <1>2, <2>1 DEF Claim, At, Goto, Sent, Carried
  <2>2. CASE Fill(t)
    <3>1. slotOf[t] \in Slots /\ held[t] = clock[t]
      BY <1>1, <2>2 DEF Fill, At, Sent, BirthsInv, SlotsAccounted, BirthsTypeOK
    <3>2. QED
      BY <1>1, <1>2, <2>2, <3>1 DEF Fill, At, Goto, Sent, Carried
  <2>3. CASE CreateFailed(t) \/ CreateBareFailed(t)
    BY <1>1, <2>3 DEF CreateFailed, CreateBareFailed, Goto, Sent, Carried
  <2>4. QED
    BY <2>1, <2>2, <2>3
<1>7. NoFalseReport'
  BY <1>2 DEF ClocksInv, NoFalseReport
<1>8. /\ word' \in [Threads -> Words \cup {NoWord}]
      /\ \A v \in Threads : pc'[v] = "stamp" => word'[v] \in Words
  BY <1>2, <1>3 DEF ClocksInv, Written
<1>9. QED
  BY <1>1, <1>2, <1>3, <1>4, <1>5, <1>6, <1>7, <1>8, BirthsQuiet

\* The C library makes a thread under an identifier that no thread has and no
\* join is looking up.
LEMMA MadeKeeps ==
    ASSUME ~ Gaps, BirthsInv, ClocksInv, NEW t \in Threads, NEW u \in Threads, NEW k \in Keys,
           NEW how \in {"alive", "bare"}, life[u] = "unborn", Made(t, u, k, how)
    PROVE  /\ Named'
           /\ \A v \in Threads : pc[v] \in LookupPCs => about[v] \notin InUse'
           /\ name'[u] = k /\ life'[u] = how
           /\ \A v \in Threads \ {u} : name'[v] = name[v] /\ life'[v] = life[v]
<1>1. /\ name'[u] = k /\ life'[u] = how
      /\ \A v \in Threads \ {u} : name'[v] = name[v] /\ life'[v] = life[v]
  BY DEF Made, BirthsInv, SlotsAccounted, BirthsTypeOK
<1>2. /\ k \notin LookedUp
      /\ \A v \in Threads : life[v] \in {"alive", "bare", "ended"} => name[v] # k
  BY DEF Made, InUse
<1>3. Named'
  BY <1>1, <1>2 DEF ClocksInv, Named
<1>4. InUse' \subseteq InUse \cup {k}
  BY <1>1 DEF InUse
<1>5. ASSUME NEW v \in Threads, pc[v] \in LookupPCs PROVE about[v] \notin InUse'
  <2>1. about[v] # k
    BY <1>2, <1>5 DEF LookedUp
  <2>2. about[v] \notin InUse
    BY <1>5 DEF ClocksInv, Acting
  <2>3. QED
    BY <1>4, <2>1, <2>2
<1>6. QED
  BY <1>1, <1>3, <1>5

LEMMA BirthsCreated ==
    ASSUME ~ Gaps, BirthsInv, ClocksInv, NEW t \in Threads, CreateBorn(t) \/ CreateBare(t)
    PROVE  ClocksInv'
<1>1. PICK u \in Threads : u = child[t]
  BY DEF CreateBorn, CreateBare, At, BirthsInv, SlotsAccounted, BirthsTypeOK
<1>2. /\ pc[t] \in {"create", "create_bare"} /\ life[u] = "unborn" /\ pc[u] = "run"
      /\ life[t] \in {"alive", "bare"} /\ t # u /\ Carried /\ Sent(t)
      /\ (pc[t] = "create" <=> CreateBorn(t)) /\ (pc[t] = "create_bare" <=> CreateBare(t))
      /\ slotOf \in [Threads -> Slots \cup {NoSlot}]
      /\ (pc[t] = "create" => slotOf[t] \in Slots) /\ ordered \in [Threads -> SUBSET Words]
  BY <1>1 DEF CreateBorn, CreateBare, At, BirthsInv, ClocksInv, OneMaker, NotYet, MakePCs,
              Acting, SlotsAccounted, BirthsTypeOK, Written
<1>3. PICK how \in {"alive", "bare"}, k \in Keys : Made(t, u, k, how)
  BY <1>1 DEF CreateBorn, CreateBare
<1>4. /\ Named'
      /\ \A v \in Threads : pc[v] \in LookupPCs => about[v] \notin InUse'
      /\ name'[u] = k /\ life'[u] = how
      /\ \A v \in Threads \ {u} : name'[v] = name[v] /\ life'[v] = life[v]
  BY <1>2, <1>3, MadeKeeps
<1>5. /\ cells' = cells /\ plane' = plane /\ word' = word /\ reports' = reports
      /\ slots' = slots /\ clock' = clock /\ about' = about /\ step' = step
  BY DEF CreateBorn, CreateBare, monitorVars
<1>6. /\ pc'[t] = "run" /\ held'[u] = held[u] /\ ordered'[t] = ordered[t]
      /\ \A v \in Threads \ {t, u} :
            /\ pc'[v] = pc[v] /\ held'[v] = held[v] /\ slotOf'[v] = slotOf[v]
            /\ ordered'[v] = ordered[v]
  BY <1>1, <1>2 DEF CreateBorn, CreateBare, Goto, Carried
<1>7. \/ /\ pc'[u] = "born" /\ ordered'[u] = ordered[t] /\ slotOf'[u] = slotOf[t]
         /\ pc[t] = "create"
      \/ pc'[u] = "run" /\ ordered'[u] = {}
  BY <1>1, <1>2 DEF CreateBorn, CreateBare, Goto, Carried
<1>8. /\ Written' /\ NoFalseReport' /\ KeysStay /\ \A j : Leaves(j)
  <2>1. ordered' \in [Threads -> SUBSET Words]
    BY <1>1, <1>2 DEF CreateBorn, CreateBare
  <2>2. \A v \in Threads : pc'[v] = "stamp" => pc[v] = "stamp"
    BY <1>6, <1>7
  <2>3. QED
    BY <1>5, <2>1, <2>2 DEF ClocksInv, Written, NoFalseReport, KeysStay, Leaves
<1>9. \A w \in ordered[t] : Passed(plane[w], clock[t]) /\ plane[w].clock <= clock[t].clock
  BY <1>2, BirthsMinePasses DEF Looking, LookupPCs
<1>10. Clocks(t)'
  <2>1. BirthsPassed(t)' /\ LeftBehind(t)'
    BY <1>2, <1>4, <1>5, <1>6, <1>9 DEF BirthsPassed, LeftBehind
  <2>2. RealClock(t)' /\ Sent(t)' /\ CarriesOwnClock(t)'
    BY <1>5, <1>6 DEF ClocksInv, RealClock, Sent, CarriesOwnClock, Publishing, PublishPCs
  <2>3. Acting(t)' /\ Walked(t, TRUE)'
    BY <1>2, <1>4, <1>6 DEF Acting, Walked, Publishing, PublishPCs, LookupPCs
  <2>4. QED
    BY <2>1, <2>2, <2>3 DEF Clocks
<1>11. Clocks(u)'
  <2>1. BirthsPassed(u)'
    <3>1. CASE pc[t] = "create" /\ pc'[u] = "born"
      <4>1. ordered'[u] = ordered[t] /\ slotOf'[u] = slotOf[t]
        BY <1>7, <3>1
      <4>2. slots[slotOf[t]].stamp = clock[t]
        BY <1>2, <3>1 DEF Sent
      <4>3. QED
        BY <1>5, <1>9, <3>1, <4>1, <4>2 DEF BirthsPassed
    <3>2. CASE ordered'[u] = {}
      BY <3>2 DEF BirthsPassed
    <3>3. QED
      BY <1>7, <3>1, <3>2
  <2>2. RealClock(u)' /\ Sent(u)' /\ CarriesOwnClock(u)' /\ LeftBehind(u)'
    BY <1>4, <1>5, <1>7
    DEF ClocksInv, RealClock, Sent, CarriesOwnClock, LeftBehind, Publishing, PublishPCs
  <2>3. Acting(u)' /\ Walked(u, TRUE)'
    BY <1>4, <1>7 DEF Acting, Walked, Publishing, PublishPCs, LookupPCs
  <2>4. QED
    BY <2>1, <2>2, <2>3 DEF Clocks
<1>12. PICK S \in SUBSET Threads : S = {t, u}
  OBVIOUS
<1>13. QED
  BY <1>4, <1>5, <1>6, <1>8, <1>10, <1>11, <1>12, BirthsFrame

-----------------------------------------------------------------------------
(* Births: born                                                            *)

\* The creator's clock moves from the slot to the new thread's hands.
LEMMA BirthsTakes ==
    ASSUME BirthsInv, ClocksInv, NEW t \in Threads, BornRead(t) \/ BornFree(t)
    PROVE  ClocksInv'
<1>1. /\ pc[t] \in {"born", "born_free"} /\ slotOf[t] \in Slots /\ slots \in [Slots -> Slot]
      /\ life[t] \in {"alive", "bare"} /\ Carried /\ BirthsPassed(t) /\ RealClock(t)
      /\ slotOf \in [Threads -> Slots \cup {NoSlot}]
  BY DEF BornRead, BornFree, At, BirthsInv, SlotsAccounted, BirthsTypeOK, ClocksInv, Acting
<1>2. /\ cells' = cells /\ plane' = plane /\ ordered' = ordered /\ word' = word
      /\ reports' = reports /\ clock' = clock /\ name' = name /\ life' = life
      /\ about' = about /\ step' = step
  BY DEF BornRead, BornFree, raceVars
<1>3. /\ pc'[t] \in {"born_free", "born_sync"}
      /\ \A v \in Threads \ {t} : /\ pc'[v] = pc[v] /\ held'[v] = held[v]
                                  /\ slotOf'[v] = slotOf[v]
  BY <1>1 DEF BornRead, BornFree, Goto, Carried
<1>4. \A s \in Slots : slots'[s].stamp = slots[s].stamp
  BY <1>1 DEF BornRead, BornFree, Slot
<1>5. InUse' = InUse /\ Named' /\ NoFalseReport' /\ KeysStay /\ \A j : Leaves(j)
  BY <1>2, SameLives DEF ClocksInv, NoFalseReport, KeysStay, Leaves
<1>6. Written'
  BY <1>2, <1>3 DEF ClocksInv, Written
<1>7. \A v \in Threads : pc[v] \in LookupPCs => about[v] \notin InUse'
  BY <1>5 DEF ClocksInv, Acting
<1>8. BirthsPassed(t)'
  <2>1. CASE BornRead(t)
    <3>1. pc[t] = "born" /\ held'[t] = slots[slotOf[t]].stamp
      BY <1>1, <2>1 DEF BornRead, At, Carried
    <3>2. QED
      BY <1>1, <1>2, <1>3, <3>1 DEF BirthsPassed, LookupPCs
  <2>2. CASE BornFree(t)
    <3>1. pc[t] = "born_free" /\ held' = held
      BY <2>2 DEF BornFree, At
    <3>2. QED
      BY <1>1, <1>2, <1>3, <3>1 DEF BirthsPassed, LookupPCs
  <2>3. QED
    BY <2>1, <2>2
<1>9. Clocks(t)'
  <2>1. RealClock(t)' /\ Sent(t)' /\ CarriesOwnClock(t)' /\ LeftBehind(t)'
    BY <1>1, <1>2, <1>3
    DEF RealClock, Sent, CarriesOwnClock, LeftBehind, Publishing, PublishPCs
  <2>2. Acting(t)' /\ Walked(t, TRUE)'
    BY <1>1, <1>2, <1>3 DEF Acting, Walked, Publishing, PublishPCs, LookupPCs
  <2>3. QED
    BY <1>8, <2>1, <2>2 DEF Clocks
<1>10. PICK S \in SUBSET Threads : S = {t}
  OBVIOUS
<1>11. QED
  BY <1>1, <1>2, <1>3, <1>4, <1>5, <1>6, <1>7, <1>9, <1>10, BirthsFrame

-----------------------------------------------------------------------------
(* Births: the end of a thread, and its join                               *)

LEMMA BirthsEnds ==
    ASSUME ~ Gaps, BirthsInv, ClocksInv, NEW t \in Threads, End(t) \/ EndUnpublished(t)
    PROVE  ClocksInv'
<1>1. /\ pc[t] \in {"published", "run"} /\ life[t] \in {"alive", "bare"} /\ Carried
      /\ RealClock(t) /\ ordered \in [Threads -> SUBSET Words] /\ name[t] \in Keys
      /\ life \in [Threads -> {"unborn", "alive", "bare", "ended", "joined"}]
      /\ BirthsPassed(t) /\ CarriesOwnClock(t) /\ Walked(t, TRUE) /\ Acting(t)
  BY DEF End, EndUnpublished, At, Running, BirthsInv, ClocksInv, Acting, Carried, Written,
         SlotsAccounted, BirthsTypeOK
<1>2. /\ cells' = cells /\ plane' = plane /\ word' = word /\ reports' = reports
      /\ clock' = clock /\ name' = name /\ slots' = slots /\ slotOf' = slotOf
      /\ life' = [life EXCEPT ![t] = "ended"]
  BY DEF End, EndUnpublished, raceVars, monitorVars, tableVars
<1>3. /\ pc'[t] = "run" /\ life'[t] = "ended"
      /\ \A v \in Threads \ {t} :
            /\ pc'[v] = pc[v] /\ about'[v] = about[v] /\ step'[v] = step[v]
            /\ held'[v] = held[v] /\ ordered'[v] = ordered[v] /\ life'[v] = life[v]
  BY <1>1, <1>2 DEF End, EndUnpublished, EndWalk, Goto, raceVars, tableVars, Running, Carried
<1>4. InUse' = InUse /\ Named'
  BY <1>1, <1>2, <1>3 DEF ClocksInv, Named, InUse
<1>5. /\ NoFalseReport' /\ KeysStay /\ \A j : Leaves(j)
  BY <1>2 DEF ClocksInv, NoFalseReport, KeysStay, Leaves
<1>6. Written'
  <2>1. ordered' \in [Threads -> SUBSET Words]
    BY <1>1 DEF End, EndUnpublished, raceVars
  <2>2. QED
    BY <1>2, <1>3, <2>1 DEF ClocksInv, Written
<1>7. \A v \in Threads : pc[v] \in LookupPCs => about[v] \notin InUse'
  BY <1>4 DEF ClocksInv, Acting
<1>8. LeftBehind(t)' /\ BirthsPassed(t)'
  <2>1. CASE End(t)
    <3>1. /\ ordered' = ordered /\ pc[t] = "published"
      BY <2>1 DEF End, At, raceVars
    <3>2. /\ about[t] = name[t] /\ held[t] = clock[t] /\ Covers(name[t], clock[t].clock)
      BY <1>1, <3>1 DEF Acting, CarriesOwnClock, Walked, Publishing
    <3>3. ASSUME NEW w \in ordered[t]
          PROVE  /\ Passed(plane[w], clock[t]) /\ Covers(name[t], plane[w].clock)
      <4>1. /\ Passed(plane[w], clock[t]) /\ plane[w].clock <= clock[t].clock
            /\ plane[w].clock \in Nat
        BY <3>1, BirthsMinePasses DEF Looking, LookupPCs, Stamp
      <4>2. PICK s \in Steps : First(name[t], s)
                               /\ clock[t].clock <= cells[cell(name[t], s)].stamp.clock
        BY <3>2 DEF Covers
      <4>3. cell(name[t], s) \in Cells
        BY <1>1, CellInCells DEF Steps
      <4>4. cells[cell(name[t], s)].stamp.clock \in Nat /\ clock[t].clock \in Nat
        BY <1>1, <4>3 DEF Carried, Stamp
      <4>5. QED
        BY <4>1, <4>2, <4>4 DEF Covers
    <3>4. BirthsPassed(t)'
      BY <1>2, <3>1, <3>3 DEF BirthsPassed
    <3>5. LeftBehind(t)'
      BY <1>2, <3>1, <3>3 DEF LeftBehind, Covers, First, cell
    <3>6. QED
      BY <3>4, <3>5
  <2>2. CASE EndUnpublished(t)
    <3>1. ordered'[t] = {}
      BY <1>1, <2>2 DEF EndUnpublished
    <3>2. QED
      BY <3>1 DEF BirthsPassed, LeftBehind
  <2>3. QED
    BY <2>1, <2>2
<1>9. Clocks(t)'
  <2>1. RealClock(t)' /\ Sent(t)' /\ CarriesOwnClock(t)'
    BY <1>1, <1>2, <1>3 DEF RealClock, Sent, CarriesOwnClock, Publishing, PublishPCs
  <2>2. Acting(t)' /\ Walked(t, TRUE)'
    BY <1>3 DEF Acting, Walked, Publishing, PublishPCs, LookupPCs
  <2>3. QED
    BY <1>8, <2>1, <2>2 DEF Clocks
<1>10. PICK S \in SUBSET Threads : S = {t}
  OBVIOUS
<1>11. QED
  BY <1>2, <1>3, <1>4, <1>5, <1>6, <1>7, <1>9, <1>10, BirthsFrame

\* The cell of the identifier that a join looks up covers what the joined
\* thread left, and no thread alive has that identifier any more.
LEMMA BirthsJoins ==
    ASSUME BirthsInv, ClocksInv, NEW t \in Threads, NEW u \in Threads, Join(t, u)
    PROVE  ClocksInv'
<1>1. /\ pc[t] = "run" /\ life[t] \in {"alive", "bare"} /\ life[u] = "ended" /\ t # u
      /\ pc[u] = "run" /\ Carried /\ RealClock(t) /\ ordered \in [Threads -> SUBSET Words]
      /\ LeftBehind(u) /\ name[u] \in Keys
      /\ life \in [Threads -> {"unborn", "alive", "bare", "ended", "joined"}]
  BY DEF Join, Running, BirthsInv, ClocksInv, Acting, Carried, Written, SlotsAccounted,
         BirthsTypeOK
<1>2. /\ cells' = cells /\ plane' = plane /\ word' = word /\ reports' = reports
      /\ clock' = clock /\ name' = name /\ slots' = slots /\ slotOf' = slotOf
      /\ life' = [life EXCEPT ![u] = "joined"]
      /\ ordered' = [ordered EXCEPT ![t] = @ \cup ordered[u], ![u] = {}]
  BY DEF Join, BeginLookup, monitorVars
<1>3. /\ pc'[t] = "lookup_load" /\ about'[t] = name[u] /\ step'[t] = 0
      /\ \A v \in Threads \ {t} : /\ pc'[v] = pc[v] /\ about'[v] = about[v]
                                  /\ step'[v] = step[v] /\ held'[v] = held[v]
  BY <1>1 DEF Join, BeginLookup, Carried
<1>4. /\ ordered'[t] = ordered[t] \cup ordered[u] /\ ordered'[u] = {} /\ life'[u] = "joined"
      /\ \A v \in Threads \ {t, u} : ordered'[v] = ordered[v]
      /\ \A v \in Threads \ {u} : life'[v] = life[v]
  BY <1>1, <1>2
<1>5. Named' /\ InUse' \subseteq InUse /\ name[u] \notin InUse'
  BY <1>1, <1>2, <1>4 DEF ClocksInv, Named, InUse
<1>6. /\ NoFalseReport' /\ KeysStay /\ \A j : Leaves(j)
  BY <1>2 DEF ClocksInv, NoFalseReport, KeysStay, Leaves
<1>7. Written'
  <2>1. ordered' \in [Threads -> SUBSET Words]
    BY <1>1, <1>2
  <2>2. QED
    BY <1>2, <1>3, <2>1 DEF ClocksInv, Written
<1>8. \A v \in Threads : pc[v] \in LookupPCs => about[v] \notin InUse'
  BY <1>5 DEF ClocksInv, Acting
<1>9. BirthsPassed(t)'
  <2> SUFFICES ASSUME NEW w \in ordered'[t]
               PROVE  Passed(plane[w], clock[t]) \/ Covers(name[u], plane[w].clock)'
    BY <1>2, <1>3 DEF BirthsPassed, LookupPCs, Covers, First, cell
  <2>1. CASE w \in ordered[t]
    BY <1>1, <2>1, BirthsMinePasses DEF Looking, LookupPCs
  <2>2. CASE w \in ordered[u] /\ plane[w] = NONE
    <3>1. clock[t].clock = 0 \/ clock[t].clock > 0
      BY <1>1 DEF Carried, Stamp
    <3>2. QED
      BY <1>1, <2>2, <3>1 DEF RealClock, Passed, NONE
  <2>3. CASE w \in ordered[u] /\ plane[w] # NONE
    BY <1>1, <1>2, <2>3 DEF LeftBehind, Covers, First, cell
  <2>4. QED
    BY <1>4, <2>1, <2>2, <2>3
<1>10. Clocks(t)'
  <2>1. RealClock(t)' /\ Sent(t)' /\ CarriesOwnClock(t)' /\ LeftBehind(t)'
    BY <1>1, <1>2, <1>3, <1>4
    DEF RealClock, Sent, CarriesOwnClock, LeftBehind, Publishing, PublishPCs
  <2>2. Acting(t)' /\ Walked(t, TRUE)'
    BY <1>1, <1>3, <1>4, <1>5 DEF Acting, Walked, Publishing, PublishPCs, LookupPCs, Steps
  <2>3. QED
    BY <1>9, <2>1, <2>2 DEF Clocks
<1>11. Clocks(u)'
  <2>1. RealClock(u)' /\ Sent(u)' /\ CarriesOwnClock(u)' /\ LeftBehind(u)' /\ BirthsPassed(u)'
    BY <1>1, <1>2, <1>3, <1>4
    DEF ClocksInv, RealClock, Sent, CarriesOwnClock, LeftBehind, BirthsPassed, Publishing, PublishPCs
  <2>2. Acting(u)' /\ Walked(u, TRUE)'
    BY <1>1, <1>3, <1>4 DEF Acting, Walked, Publishing, PublishPCs, LookupPCs
  <2>3. QED
    BY <2>1, <2>2 DEF Clocks
<1>12. PICK S \in SUBSET Threads : S = {t, u}
  OBVIOUS
<1>13. \A v \in Threads \ S :
          /\ pc'[v] = pc[v] /\ about'[v] = about[v] /\ step'[v] = step[v]
          /\ held'[v] = held[v] /\ clock'[v] = clock[v] /\ ordered'[v] = ordered[v]
          /\ slotOf'[v] = slotOf[v] /\ name'[v] = name[v] /\ life'[v] = life[v]
  BY <1>2, <1>3, <1>4, <1>12
<1>14. \A v \in Threads \ S :
          /\ slotOf[v] \in Slots => slots'[slotOf[v]].stamp = slots[slotOf[v]].stamp
          /\ Publishing(v) \/ pc[v] \in LookupPCs => Leaves(about[v])
          /\ life[v] = "ended" => Leaves(name[v])
          /\ pc[v] \in LookupPCs => about[v] \notin InUse'
  BY <1>2, <1>6, <1>8
<1>15. \A v \in S : Clocks(v)'
  BY <1>10, <1>11, <1>12
<1>16. QED
  BY <1>2, <1>5, <1>6, <1>7, <1>13, <1>14, <1>15, BirthsFrame

LEMMA BirthsStutters ==
    ASSUME ClocksInv, UNCHANGED allVars
    PROVE  ClocksInv'
<1>1. /\ UNCHANGED <<cells, pc, about, step, held>> /\ UNCHANGED <<clock, plane, word, ordered, reports>>
      /\ UNCHANGED <<slots, slotOf, name, life>>
  BY DEF allVars, vars, birthVars
<1>2. Written' /\ Named' /\ NoFalseReport' /\ \A w \in Words : RealStamp(w)'
  BY <1>1 DEF ClocksInv, Written, Named, NoFalseReport, RealStamp
<1>3. ASSUME NEW t \in Threads
      PROVE  /\ Acting(t)' /\ Walked(t, TRUE)' /\ Sent(t)' /\ RealClock(t)'
             /\ CarriesOwnClock(t)' /\ BirthsPassed(t)' /\ LeftBehind(t)'
  BY <1>1 DEF ClocksInv, Acting, InUse, Walked, Sent, RealClock, CarriesOwnClock, BirthsPassed,
              LeftBehind, Publishing, Covers, First, cell
<1>4. QED
  BY <1>2, <1>3 DEF ClocksInv

LEMMA BirthsClocksKeep ==
    ASSUME ~ Gaps, BirthsInv, ClocksInv, ~ Crowded, [BirthsNext]_allVars
    PROVE  ClocksInv'
<1>1. ASSUME NEW t \in Threads, Program(t) PROVE ClocksInv'
  <2>1. CASE \E w \in Words : (Load(t, w) \/ Store(t, w)) /\ Running(t) /\ UNCHANGED birthVars
    BY <2>1, BirthsAccess
  <2>2. CASE Exited(t)
    BY <2>2, BirthsExited
  <2>3. CASE EndUnpublished(t)
    BY <2>3, BirthsEnds
  <2>4. CASE \E u \in Threads : Create(t, u)
    BY <2>4, BirthsCreates
  <2>5. CASE \E u \in Threads : Join(t, u)
    BY <2>5, BirthsJoins
  <2>6. QED
    BY <1>1, <2>1, <2>2, <2>3, <2>4, <2>5 DEF Program
<1>2. ASSUME NEW t \in Threads, Inside(t) PROVE ClocksInv'
  <2>1. CASE Stamped(t) /\ UNCHANGED birthVars
    BY <2>1, BirthsStamped
  <2>2. CASE Walk(t) /\ UNCHANGED birthVars
    BY <2>2, BirthsWalk
  <2>3. CASE (Acquired(t) /\ UNCHANGED birthVars) \/ BornStart(t)
    BY <2>3, BirthsSyncs
  <2>4. CASE Claim(t) \/ Fill(t) \/ CreateFailed(t) \/ CreateBareFailed(t)
    BY <2>4, BirthsSlotSteps
  <2>5. CASE CreateBorn(t) \/ CreateBare(t)
    BY <2>5, BirthsCreated
  <2>6. CASE BornRead(t) \/ BornFree(t)
    BY <2>6, BirthsTakes
  <2>7. CASE End(t)
    BY <2>7, BirthsEnds
  <2>8. QED
    BY <1>2, <2>1, <2>2, <2>3, <2>4, <2>5, <2>6, <2>7 DEF Inside
<1>3. QED
  BY <1>1, <1>2, BirthsStutters DEF BirthsNext

\* However creates, starts, ends and joins interleave, J9 reports no write that
\* a chain of creates and joins puts before the access while the accessing
\* thread's clock counts (the birth slots, exited, joined).  It holds of the
\* orderings that sync.rs carries, those of a thread that had a slot, ended by
\* its return and was joined before its identifier was used again, as long as
\* no cell of EXITED is taken over.
THEOREM BirthsNoFalseReports ==
    ASSUME ~ Gaps
    PROVE  BirthsSpec /\ []~ Crowded => []NoFalseReport
<1>1. BirthsInit => ClocksInv
  BY BirthsStartsClocked
<1>2. BirthsInv /\ ClocksInv /\ ~ Crowded /\ [BirthsNext]_allVars => ClocksInv'
  BY BirthsClocksKeep
<1>3. ClocksInv => NoFalseReport
  BY DEF ClocksInv
<1>4. QED
  BY <1>1, <1>2, <1>3, BirthsInvariance, PTL DEF BirthsSpec

\* With room for every identifier in the cells of EXITED, no publisher walks
\* over all of its run: the cells it passes belong to other identifiers.
LEMMA BirthsHaveRoom ==
    ASSUME Roomy, BirthsInv, ClocksInv, Entered
    PROVE  ~ Crowded
<1> SUFFICES ASSUME NEW t \in Threads, pc[t] = "publish_steal" PROVE FALSE
  BY DEF Crowded
<1>1. PICK k \in Keys : k = about[t] /\ \A r \in Steps : cells[cell(k, r)].key \notin {NoKey, k}
  BY DEF ClocksInv, Walked, PublishPCs
<1>2. QED
  BY <1>1, RoomyHasRoom, BirthsTable DEF BirthsInv

LEMMA BirthsEnter ==
    ASSUME BirthsInv, ClocksInv, Entered, ~ Crowded, [BirthsNext]_allVars
    PROVE  Entered'
<1>1. ASSUME cells' = cells PROVE Entered'
  BY <1>1 DEF Entered, OneCellPerKey, InRun, cell
<1>2. ASSUME NEW t \in Threads, Walk(t) PROVE Entered'
  BY <1>2, BirthsTable, WalksEnter DEF BirthsInv, ClocksInv, Crowded, Walk
<1>3. ASSUME NEW t \in Threads, Program(t) PROVE cells' = cells
  BY <1>3 DEF Program, Load, Store, Exited, BeginPublish, EndUnpublished, Create, Join,
              BeginLookup, tableVars
<1>4. ASSUME NEW t \in Threads, Inside(t), ~ Walk(t) PROVE cells' = cells
  BY <1>4 DEF Inside, Stamped, Acquired, Claim, Fill, CreateBorn, CreateFailed, CreateBare,
              CreateBareFailed, BornRead, BornFree, BornStart, End
<1>5. UNCHANGED allVars => cells' = cells
  BY DEF allVars, vars
<1>6. QED
  BY <1>1, <1>2, <1>3, <1>4, <1>5 DEF BirthsNext

LEMMA BirthsStartEntered == BirthsInit => Entered
BY DEF BirthsInit, Init, TableInit, Entered, OneCellPerKey, InRun

\* The same from the sizes alone: where no run of EXITED has more identifiers
\* than cells, no cell is taken over, and J9 reports no write that the creates
\* and joins sync.rs carries put before the access.
THEOREM BirthsNoFalseReportsWithRoom ==
    ASSUME ~ Gaps, Roomy
    PROVE  BirthsSpec => []NoFalseReport
<1>1. BirthsInit => ClocksInv /\ Entered
  BY BirthsStartsClocked, BirthsStartEntered
<1>2. BirthsInv /\ ClocksInv /\ Entered /\ [BirthsNext]_allVars => ClocksInv' /\ Entered'
  BY BirthsHaveRoom, BirthsClocksKeep, BirthsEnter
<1>3. ClocksInv => NoFalseReport
  BY DEF ClocksInv
<1>4. QED
  BY <1>1, <1>2, <1>3, BirthsInvariance, PTL DEF BirthsSpec
=============================================================================
