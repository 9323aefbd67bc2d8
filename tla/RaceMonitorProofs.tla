--------------------------- MODULE RaceMonitorProofs ---------------------------
(***************************************************************************)
(* What RaceMonitor does for every number of threads, mutexes and words,   *)
(* every size of the table and every width of a stamp.                     *)
(*                                                                         *)
(* TypeCorrect and OneCell hold of the monitor as it is.  NoFalseReports   *)
(* needs Roomy: that no mutex ever finds its whole run taken by others.    *)
(* The three halves of Inv are carried in turn: the types, the table, and  *)
(* the clocks, each using the ones before it.                              *)
(***************************************************************************)
EXTENDS RaceInvariant, FiniteSetTheorems, TLAPS

USE WidthAssumption, TableAssumption, NamesAssumption

LEMMA CellInCells ==
    ASSUME NEW k \in Keys, NEW s \in Steps
    PROVE  cell(k, s) \in Cells
BY DEF cell, Cells, Steps

LEMMA CellsApart ==
    ASSUME NEW k \in Keys, NEW s \in Steps, NEW r \in Steps, cell(k, s) = cell(k, r)
    PROVE  s = r
BY DEF cell, Cells, Steps

LEMMA NoneIsAStamp == NONE \in Stamp
BY DEF NONE, Stamp

LEMMA StampIsAStamp ==
    ASSUME NEW n \in Nat, NEW c \in Nat
    PROVE  /\ stamp(n, c) \in Stamp
           /\ stamp(n, c).clock = IF c > CLOCKS THEN CLOCKS ELSE c
           /\ stamp(n, c).thread = IF n > THREADS THEN THREADS ELSE n
BY DEF stamp, Stamp

LEMMA TickedIsAStamp ==
    ASSUME NEW mine \in Stamp
    PROVE  /\ Ticked(mine) \in Stamp
           /\ ~ Stopped(mine) => /\ tick(mine) = Ticked(mine)
                                 /\ Ticked(mine).clock = mine.clock + 1
                                 /\ Ticked(mine).thread = mine.thread
BY DEF Ticked, tick, Stopped, stamp, Stamp

LEMMA SyncedIsAStamp ==
    ASSUME NEW mine \in Stamp, NEW seen \in Stamp
    PROVE  /\ Synced(mine, seen) \in Stamp
           /\ Synced(mine, seen).thread = mine.thread
           /\ Synced(mine, seen).clock >= mine.clock
           /\ seen # NONE => \/ Synced(mine, seen).clock > seen.clock
                             \/ Stopped(Synced(mine, seen))
BY DEF Synced, Stopped, Stamp, NONE

LEMMA MineIsAStamp ==
    ASSUME TypeOK, NEW t \in Threads
    PROVE  /\ Mine(t) \in Stamp
           /\ Mine(t) # NONE
           /\ clock[t] # NONE => Mine(t) = clock[t]
           /\ clock[t] = NONE => Mine(t).clock = 1
<1>1. numbers \in Nat /\ clock[t] \in Stamp
  BY DEF TypeOK
<1>2. NewClock(numbers) \in Stamp /\ NewClock(numbers).clock = 1
  BY <1>1, StampIsAStamp DEF NewClock
<1> QED
  BY <1>1, <1>2 DEF Mine, NONE

-----------------------------------------------------------------------------
(* Type correctness                                                        *)

LEMMA KeepTypes ==
    ASSUME TypeOK, NEW t \in Threads, NEW mine \in Stamp, Keep(t, mine)
    PROVE  clock' \in [Threads -> Stamp] /\ numbers' \in 1..THREADS + 1
BY DEF TypeOK, Keep

LEMMA CellUpdateTypes ==
    ASSUME TypeOK, NEW c \in Cells
    PROVE  /\ \A k \in Keys : [cells EXCEPT ![c].key = k]
                  \in [Cells -> [key : Keys \cup {NoKey}, stamp : Stamp]]
           /\ \A s \in Stamp : [cells EXCEPT ![c].stamp = s]
                  \in [Cells -> [key : Keys \cup {NoKey}, stamp : Stamp]]
BY DEF TypeOK, TableTypeOK

LEMMA TableStepTypes ==
    ASSUME TypeOK, NEW t \in Threads, TableStep(t)
    PROVE  TableTypeOK' /\ pc' \in [Threads -> PCs]
           /\ pc'[t] # "stamp"
           /\ about' = about
           /\ \A u \in Threads : u # t => pc'[u] = pc[u]
<1> USE DEF TypeOK, TableTypeOK, PublishPCs, LookupPCs, PCs, Steps, Onward
<1>0. about[t] \in Keys /\ step[t] \in Steps /\ 0 \in Steps
  BY DEF TableStep, PublishLoad, PublishClaim, PublishStore, PublishSteal, LookupLoad, LookupRead
<1>a. cell(about[t], step[t]) \in Cells /\ cell(about[t], 0) \in Cells
  <2> HIDE DEF Steps
  <2> QED BY <1>0, CellInCells
<1> HIDE DEF Steps
<1>1. CASE PublishLoad(t)
  BY <1>1, <1>0 DEF PublishLoad, Steps
<1>2. CASE PublishClaim(t)
  <2>1. cells' \in [Cells -> [key : Keys \cup {NoKey}, stamp : Stamp]]
    <3>1. CASE cells' = cells
      BY <3>1
    <3>2. CASE cells' = [cells EXCEPT ![cell(about[t], step[t])].key = about[t]]
      BY <3>2, <1>0, <1>a, CellUpdateTypes
    <3> QED
      BY <1>2, <3>1, <3>2 DEF PublishClaim
  <2> QED
    BY <1>2, <1>0, <2>1 DEF PublishClaim, Steps
<1>3. CASE PublishStore(t)
  <2>1. cells' \in [Cells -> [key : Keys \cup {NoKey}, stamp : Stamp]]
    BY <1>3, <1>a, CellUpdateTypes DEF PublishStore
  <2> QED
    BY <1>3, <1>0, <2>1 DEF PublishStore
<1>4. CASE PublishSteal(t)
  <2>1. cells' \in [Cells -> [key : Keys \cup {NoKey}, stamp : Stamp]]
    BY <1>4, <1>0, <1>a, CellUpdateTypes DEF PublishSteal
  <2> QED
    BY <1>4, <1>0, <2>1 DEF PublishSteal
<1>5. CASE LookupLoad(t)
  BY <1>5, <1>0 DEF LookupLoad, Steps
<1>6. CASE LookupRead(t)
  BY <1>6, <1>0, <1>a DEF LookupRead
<1> QED
  BY <1>1, <1>2, <1>3, <1>4, <1>5, <1>6 DEF TableStep

LEMMA InitTypes == Init => TypeOK
BY CellInCells, NoneIsAStamp
DEF Init, TypeOK, TableInit, TableTypeOK, PublishPCs, LookupPCs, PCs, Steps, Cells

LEMMA NextTypes == TypeOK /\ [Next]_vars => TypeOK'
<1> SUFFICES ASSUME TypeOK, [Next]_vars PROVE TypeOK'
  OBVIOUS
<1>s. CASE UNCHANGED vars
  BY <1>s DEF TypeOK, TableTypeOK, vars
<1>t. ASSUME NEW t \in Threads, ThreadStep(t) PROVE TypeOK'
  <2>m. /\ Mine(t) \in Stamp
        /\ Here(t) => clock' \in [Threads -> Stamp] /\ numbers' \in 1..THREADS + 1
    BY MineIsAStamp, KeepTypes DEF Here
  <2>n. NONE \in Stamp /\ 0 \in Steps
    BY NoneIsAStamp DEF Steps
  <2>r. ASSUME NEW w \in Words, Raced(t, w) PROVE reports' \subseteq Report
    <3>1. Stopped(Mine(t)) \in BOOLEAN /\ (w \in ordered[t]) \in BOOLEAN
      BY DEF Stopped
    <3>2. [word |-> w, ordered |-> w \in ordered[t], stopped |-> Stopped(Mine(t))] \in Report
      BY <3>1, Zenon DEF Report
    <3>3. reports \subseteq Report
      BY DEF TypeOK
    <3> QED
      BY <2>r, <3>2, <3>3, Zenon DEF Raced
  <2>1. ASSUME NEW w \in Words, Load(t, w) PROVE TypeOK'
    <3>1. Raced(t, w) /\ Here(t) /\ reports' \subseteq Report
      BY <2>1, <2>r DEF Load, Raced
    <3> QED
      BY <2>1, <2>m, <3>1 DEF Load, TypeOK, TableTypeOK, tableVars, truth
  <2>2. ASSUME NEW w \in Words, Store(t, w) PROVE TypeOK'
    <3>1. Raced(t, w) /\ Here(t) /\ reports' \subseteq Report
      BY <2>2, <2>r DEF Store, Raced
    <3> QED
      BY <2>2, <2>m, <3>1
      DEF Store, TypeOK, TableTypeOK, truth, PCs, PublishPCs, LookupPCs
  <2>3. CASE Stamped(t)
    <3>1. word[t] \in Words /\ Ticked(Mine(t)) \in Stamp
      BY <2>3, <2>m, TickedIsAStamp DEF Stamped, TypeOK
    <3>2. clock' \in [Threads -> Stamp] /\ numbers' \in 1..THREADS + 1
      BY <2>3, <3>1, KeepTypes DEF Stamped
    <3>3. /\ plane' \in [Words -> Stamp]
          /\ ordered' \in [Threads -> SUBSET Words]
          /\ carried' \in [Keys -> SUBSET Words]
          /\ fencedOrder' \subseteq Words
      <4>1. CASE Stopped(Mine(t))
        BY <2>3, <4>1 DEF Stamped, TypeOK, truth
      <4>2. CASE ~ Stopped(Mine(t))
        <5>1. tick(Mine(t)) \in Stamp
          BY <4>2, <2>m, <3>1, TickedIsAStamp
        <5> QED
          BY <2>3, <3>1, <4>2, <5>1 DEF Stamped, TypeOK
      <4> QED
        BY <4>1, <4>2
    <3> QED
      BY <2>3, <3>2, <3>3 DEF Stamped, TypeOK, TableTypeOK, PCs, PublishPCs, LookupPCs
  <2>4. ASSUME NEW m \in Keys, Take(t, m) PROVE TypeOK'
    <3>1. TableTypeOK' /\ pc' \in [Threads -> PCs]
      BY <2>4, <2>n
      DEF Take, BeginLookup, TypeOK, TableTypeOK, PCs, PublishPCs, LookupPCs
    <3> QED
      BY <2>4, <3>1 DEF Take, BeginLookup, TypeOK, TableTypeOK, monitorVars
  <2>5. ASSUME NEW m \in Keys, Lock(t, m) PROVE TypeOK'
    BY <2>4, <2>5 DEF Lock
  <2>6. ASSUME NEW m \in Keys, TryLockBusy(t, m) PROVE TypeOK'
    BY <2>6, <1>s DEF TryLockBusy
  <2>7. ASSUME NEW m \in Keys, Released(t, m) PROVE TypeOK'
    <3>1. TableTypeOK' /\ pc' \in [Threads -> PCs]
      BY <2>7, <2>m, <2>n
      DEF Released, BeginPublish, TypeOK, TableTypeOK, PCs, PublishPCs, LookupPCs
    <3> QED
      BY <2>7, <2>m, <3>1 DEF Released, BeginPublish, TypeOK, TableTypeOK, truth
  <2>8. CASE Acquired(t)
    <3>1. Synced(Mine(t), held[t]) \in Stamp
      BY <2>m, SyncedIsAStamp DEF TypeOK, TableTypeOK
    <3>2. clock' \in [Threads -> Stamp] /\ numbers' \in 1..THREADS + 1
      BY <2>8, <3>1, KeepTypes DEF Acquired
    <3> QED
      BY <2>8, <2>n, <3>2
      DEF Acquired, EndWalk, TypeOK, TableTypeOK, truth, PCs, PublishPCs, LookupPCs
  <2>9. ASSUME GiveUp(t) PROVE holder' \in [Keys -> Threads \cup {NoThread}]
                               /\ carried' \in [Keys -> SUBSET Words]
    BY <2>9 DEF GiveUp, TypeOK
  <2>10. CASE Unlock(t)
    BY <2>10, <2>9, <2>n
    DEF Unlock, GiveUp, EndWalk, TypeOK, TableTypeOK, monitorVars, PCs, PublishPCs, LookupPCs
  <2>11. CASE CondSleep(t)
    BY <2>11, <2>9
    DEF CondSleep, GiveUp, TypeOK, TableTypeOK, monitorVars, PCs, PublishPCs, LookupPCs
  <2>12. CASE CondWake(t)
    BY <2>12, <2>4 DEF CondWake, TypeOK
  <2>13. CASE FenceRelease(t)
    <3>1. Mine(t).clock \in 0..CLOCKS
      BY <2>m DEF Stamp
    <3> QED
      BY <2>13, <2>m, <3>1 DEF FenceRelease, TypeOK, TableTypeOK, tableVars
  <2>14. CASE FenceAcquire(t)
    <3>1. clock' \in [Threads -> Stamp] /\ numbers' \in 1..THREADS + 1
      <4>1. CASE fenced = 0
        BY <2>14, <4>1 DEF FenceAcquire, TypeOK
      <4>2. CASE fenced # 0
        <5>1. stamp(0, fenced) \in Stamp
          BY StampIsAStamp DEF TypeOK
        <5>2. Synced(Mine(t), stamp(0, fenced)) \in Stamp
          BY <2>m, <5>1, SyncedIsAStamp
        <5> QED
          BY <2>14, <4>2, <5>2, KeepTypes DEF FenceAcquire
      <4> QED
        BY <4>1, <4>2
    <3> QED
      BY <2>14, <3>1 DEF FenceAcquire, TypeOK, TableTypeOK, tableVars
  <2>15. CASE Walk(t)
    <3>1. /\ TableTypeOK' /\ pc' \in [Threads -> PCs]
          /\ pc'[t] # "stamp"
          /\ about' = about
          /\ \A u \in Threads : u # t => pc'[u] = pc[u]
      BY <2>15, TableStepTypes DEF Walk
    <3>2. about[t] \in Keys
      BY <2>15 DEF Walk, TypeOK, TableTypeOK, PublishPCs, LookupPCs, TableStep,
         PublishLoad, PublishClaim, PublishStore, PublishSteal, LookupLoad, LookupRead
    <3> QED
      BY <2>15, <3>1, <3>2 DEF Walk, TypeOK, monitorVars, truth
  <2> QED
    BY <1>t, <2>1, <2>2, <2>3, <2>5, <2>6, <2>7, <2>8, <2>10, <2>11, <2>12, <2>13,
       <2>14, <2>15 DEF ThreadStep
<1> QED
  BY <1>s, <1>t DEF Next

\* Every field of the monitor's state stays in range: clocks and thread numbers
\* clamp at the widths of a stamp, the counter of numbers stops one past its
\* last, and a walk never leaves its key's run.
THEOREM TypeCorrect == Spec => []TypeOK
BY InitTypes, NextTypes, PTL DEF Spec

-----------------------------------------------------------------------------
(* The table half of the invariant                                         *)

LEMMA WalkerTypes ==
    ASSUME TypeOK, NEW t \in Threads, Looking(t) \/ Publishing(t)
    PROVE  /\ about[t] \in Keys
           /\ step[t] \in Steps
           /\ \A s \in Steps : cell(about[t], s) \in Cells
<1>1. about[t] \in Keys
  BY DEF TypeOK, TableTypeOK, Looking, Publishing
<1>2. step[t] \in Steps
  BY DEF TypeOK, TableTypeOK
<1> QED
  BY <1>1, <1>2, CellInCells

\* Two threads never walk for one key, because one of them holds it.
LEMMA WalkersDiffer ==
    ASSUME TypeOK, TableInv, NEW t \in Threads, NEW u \in Threads, t # u,
           Looking(t) \/ Publishing(t), Looking(u) \/ Publishing(u)
    PROVE  about[t] # about[u]
BY DEF TableInv, WalkInv, HolderWalks

\* A walk that meets a free cell has a key that is in no cell.
LEMMA FreeMeansAbsent ==
    ASSUME TypeOK, TableInv, NEW t \in Threads,
           pc[t] \in {"publish_load", "publish_claim", "lookup_load"},
           cells[cell(about[t], step[t])].key = NoKey,
           NEW c \in Cells
    PROVE  cells[c].key # about[t]
<1>1. about[t] \in Keys /\ step[t] \in Steps
  BY WalkerTypes DEF Looking, Publishing, PublishPCs, LookupPCs
<1> SUFFICES ASSUME cells[c].key = about[t] PROVE FALSE
  OBVIOUS
<1>2. PICK s \in Steps : /\ c = cell(about[t], s)
                         /\ \A r \in 0..s - 1 : cells[cell(about[t], r)].key # NoKey
  BY <1>1 DEF TableInv, InRun
<1>3. \A r \in 0..step[t] - 1 : cells[cell(about[t], r)].key # about[t]
  BY DEF TableInv, WalkInv, WalkedPast
<1>4. CASE s < step[t]
  BY <1>1, <1>2, <1>3, <1>4 DEF Steps
<1>5. CASE s = step[t]
  BY <1>1, <1>2, <1>5
<1>6. CASE s > step[t]
  BY <1>1, <1>2, <1>6 DEF Steps
<1> QED
  BY <1>1, <1>4, <1>5, <1>6 DEF Steps

\* A walk that has passed its whole run has a key that is in no cell.
LEMMA FullMeansAbsent ==
    ASSUME TypeOK, TableInv, NEW k \in Keys,
           \A r \in Steps : cells[cell(k, r)].key # k,
           NEW c \in Cells
    PROVE  cells[c].key # k
BY DEF TableInv, InRun

\* With room for every key, no publisher finds its run full of other keys.
LEMMA NothingIsStolen ==
    ASSUME Roomy, TypeOK, TableInv, NEW t \in Threads, pc[t] = "publish_steal"
    PROVE  FALSE
<1> DEFINE k == about[t]
           others == Neighbours(k) \ {k}
           f == [r \in Steps |-> cells[cell(k, r)].key]
<1>1. k \in Keys /\ \A s \in Steps : cell(k, s) \in Cells
  BY WalkerTypes DEF Publishing, PublishPCs
<1>2. \A r \in Steps : cells[cell(k, r)].key \notin {NoKey, k}
  BY DEF TableInv, WalkInv, WalkedPast
<1>3. ASSUME NEW r \in Steps PROVE cells[cell(k, r)].key \in others
  <2>1. cells[cell(k, r)].key \in Keys
    BY <1>1, <1>2 DEF TypeOK, TableTypeOK
  <2>2. PICK s \in Steps : cell(k, r) = cell(cells[cell(k, r)].key, s)
    BY <1>1, <1>2 DEF TableInv, InRun
  <2>3. cell(k, r) \in Run(k) /\ cell(k, r) \in Run(cells[cell(k, r)].key)
    BY <2>2 DEF Run
  <2> QED
    BY <1>2, <2>1, <2>3 DEF Neighbours
<1>4. f \in [Steps -> others]
  BY <1>3
<1>5. \A x, y \in Steps : f[x] = f[y] => x = y
  <2>1. SUFFICES ASSUME NEW x \in Steps, NEW y \in Steps, f[x] = f[y] PROVE x = y
    OBVIOUS
  <2>2. cell(k, x) = cell(k, y)
    BY <1>1, <1>2, <2>1 DEF TableInv, OneCellPerKey
  <2> QED
    BY <1>1, <2>2, CellsApart
<1>6. IsFiniteSet(Steps) /\ Cardinality(Steps) = PROBES
  BY FS_Interval DEF Steps
<1>7. k \in Neighbours(k)
  <2>1. cell(k, 0) \in Run(k)
    BY DEF Run, Steps
  <2> QED
    BY <1>1, <2>1 DEF Neighbours
<1>8. IsFiniteSet(Neighbours(k)) /\ Cardinality(Neighbours(k)) <= PROBES
  BY <1>1 DEF Roomy
<1>9. IsFiniteSet(others) /\ Cardinality(others) = Cardinality(Neighbours(k)) - 1
  BY <1>7, <1>8, FS_RemoveElement
<1>10. Cardinality(others) < Cardinality(Steps)
  BY <1>6, <1>8, <1>9, FS_CardinalityType
<1> HIDE DEF others, f
<1>11. \E x, y \in Steps : x # y /\ f[x] = f[y]
  BY <1>4, <1>6, <1>9, <1>10, FS_PigeonHole
<1> QED
  BY <1>5, <1>11

LEMMA InitTable == Init => TableInv
BY CellInCells
DEF Init, TableInit, TableInv, OneCellPerKey, InRun, WalkInv, HolderWalks, WalkedPast,
    Unclaimed, AtItsCell, Looking, Publishing, PublishPCs, LookupPCs

\* A step that changes no cell's key, moves one thread and takes no mutex from
\* another keeps the table half if the thread that moved is where it should be.
LEMMA TableFrame ==
    ASSUME TypeOK, TypeOK', TableInv, NEW t \in Threads,
           \A c \in Cells : cells'[c].key = cells[c].key,
           \A u \in Threads : u # t => /\ pc'[u] = pc[u] /\ about'[u] = about[u]
                                       /\ step'[u] = step[u],
           \A u \in Threads : u # t =>
               \A m \in Keys : holder[m] = u => holder'[m] = u,
           WalkInv(t)'
    PROVE  TableInv'
<1>1. OneCellPerKey'
  BY DEF TableInv, OneCellPerKey
<1>2. InRun'
  <2> SUFFICES ASSUME NEW c \in Cells, cells[c].key # NoKey
               PROVE  \E s \in Steps : /\ c = cell(cells[c].key, s)
                                       /\ \A r \in 0..s - 1 :
                                           cells'[cell(cells[c].key, r)].key # NoKey
    BY DEF InRun, cell
  <2>1. PICK s \in Steps : /\ c = cell(cells[c].key, s)
                           /\ \A r \in 0..s - 1 : cells[cell(cells[c].key, r)].key # NoKey
    BY DEF TableInv, InRun
  <2>2. cells[c].key \in Keys
    BY DEF TypeOK, TableTypeOK
  <2>3. \A r \in 0..s - 1 : r \in Steps
    BY DEF Steps
  <2>4. \A r \in 0..s - 1 : cell(cells[c].key, r) \in Cells
    BY <2>2, <2>3, CellInCells
  <2> QED
    BY <2>1, <2>4
<1>3. ASSUME NEW u \in Threads, u # t PROVE WalkInv(u)'
  <2>1. WalkInv(u)
    BY DEF TableInv
  <2>2. CASE ~ (Looking(u) \/ Publishing(u))
    BY <1>3, <2>2 DEF WalkInv, HolderWalks, WalkedPast, Unclaimed, AtItsCell,
       Looking, Publishing, PublishPCs, LookupPCs
  <2>3. CASE Looking(u) \/ Publishing(u)
    <3>1. about[u] \in Keys /\ step[u] \in Steps /\ \A s \in Steps : cell(about[u], s) \in Cells
      BY <2>3, WalkerTypes
    <3>2. \A s \in 0..step[u] - 1 : s \in Steps
      BY <3>1 DEF Steps
    <3>3. HolderWalks(u)'
      BY <1>3, <2>1, <3>1 DEF WalkInv, HolderWalks, Looking, Publishing
    <3>4. WalkedPast(u)'
      BY <1>3, <2>1, <3>1, <3>2 DEF WalkInv, WalkedPast, cell
    <3>5. Unclaimed(u)' /\ AtItsCell(u)'
      BY <1>3, <2>1, <3>1 DEF WalkInv, Unclaimed, AtItsCell, cell
    <3> QED
      BY <3>3, <3>4, <3>5 DEF WalkInv
  <2> QED
    BY <2>2, <2>3
<1> QED
  BY <1>1, <1>2, <1>3 DEF TableInv

\* The claim of a free cell: the one step that gives a cell a key.
LEMMA ClaimKeepsTable ==
    ASSUME TypeOK, TypeOK', TableInv, NEW t \in Threads, PublishClaim(t),
           cells[cell(about[t], step[t])].key = NoKey,
           holder' = holder
    PROVE  TableInv'
<1> DEFINE k == about[t]
           here == cell(about[t], step[t])
<1>1. /\ pc[t] = "publish_claim"
      /\ cells' = [cells EXCEPT ![here].key = k]
      /\ pc' = [pc EXCEPT ![t] = "publish_store"]
      /\ step' = step /\ about' = about
  BY DEF PublishClaim
<1>2. k \in Keys /\ step[t] \in Steps /\ here \in Cells /\ k # NoKey
  BY <1>1, WalkerTypes DEF Publishing, PublishPCs
<1>3. /\ cells'[here].key = k
      /\ \A c \in Cells : c # here => cells'[c].key = cells[c].key
      /\ \A c \in Cells : cells[c].key # NoKey => cells'[c].key = cells[c].key
      /\ \A c \in Cells : cells[c].key # NoKey => cells'[c].key # NoKey
  BY <1>1, <1>2 DEF TypeOK, TableTypeOK
<1>4. \A c \in Cells : cells[c].key # k
  BY <1>1 DEF TableInv, WalkInv, Unclaimed
<1> HIDE DEF here
<1>5. OneCellPerKey'
  BY <1>2, <1>3, <1>4 DEF TableInv, OneCellPerKey
<1>6. InRun'
  <2> SUFFICES ASSUME NEW c \in Cells, cells'[c].key # NoKey
               PROVE  \E s \in Steps : /\ c = cell(cells'[c].key, s)
                                       /\ \A r \in 0..s - 1 :
                                           cells'[cell(cells'[c].key, r)].key # NoKey
    BY DEF InRun, cell
  <2>1. CASE c = here
    <3>1. \A r \in 0..step[t] - 1 : /\ r \in Steps
                                    /\ cells[cell(k, r)].key # NoKey
      BY <1>1, <1>2 DEF TableInv, WalkInv, WalkedPast, Steps
    <3>2. \A r \in 0..step[t] - 1 : cell(k, r) \in Cells
      BY <1>2, <3>1, CellInCells
    <3>3. \A r \in 0..step[t] - 1 : cells'[cell(k, r)].key # NoKey
      BY <1>3, <3>1, <3>2
    <3> QED
      BY <1>2, <1>3, <2>1, <3>3 DEF here
  <2>2. CASE c # here
    <3>1. cells'[c].key = cells[c].key /\ cells[c].key \in Keys
      BY <1>3, <2>2 DEF TypeOK, TableTypeOK
    <3>2. PICK s \in Steps : /\ c = cell(cells[c].key, s)
                             /\ \A r \in 0..s - 1 : cells[cell(cells[c].key, r)].key # NoKey
      BY <3>1 DEF TableInv, InRun
    <3>3. \A r \in 0..s - 1 : r \in Steps
      BY DEF Steps
    <3>4. \A r \in 0..s - 1 : cell(cells[c].key, r) \in Cells
      BY <3>1, <3>3, CellInCells
    <3> QED
      BY <1>3, <3>1, <3>2, <3>4
  <2> QED
    BY <2>1, <2>2
<1>7. WalkInv(t)'
  <2>1. HolderWalks(t)'
    BY <1>1 DEF TableInv, WalkInv, HolderWalks, Publishing, PublishPCs
  <2>2. pc'[t] = "publish_store" /\ about'[t] = k /\ cell(k, step'[t]) = here
    BY <1>1 DEF TypeOK, here
  <2>3. AtItsCell(t)'
    BY <1>3, <2>2 DEF AtItsCell, cell
  <2> QED
    BY <2>1, <2>2, <2>3 DEF WalkInv, WalkedPast, Unclaimed
<1>8. ASSUME NEW u \in Threads, u # t PROVE WalkInv(u)'
  <2>1. WalkInv(u) /\ pc'[u] = pc[u] /\ about'[u] = about[u] /\ step'[u] = step[u]
    BY <1>1, <1>8 DEF TableInv
  <2>2. CASE ~ (Looking(u) \/ Publishing(u))
    BY <2>1, <2>2 DEF WalkInv, HolderWalks, WalkedPast, Unclaimed, AtItsCell,
       Looking, Publishing, PublishPCs, LookupPCs
  <2>3. CASE Looking(u) \/ Publishing(u)
    <3>1. about[u] \in Keys /\ step[u] \in Steps /\ \A s \in Steps : cell(about[u], s) \in Cells
      BY <2>3, WalkerTypes
    <3>2. about[u] # k
      BY <1>1, <1>8, <2>3, WalkersDiffer DEF Publishing, PublishPCs
    <3>3. \A s \in 0..step[u] - 1 : s \in Steps
      BY <3>1 DEF Steps
    <3>4. \A c \in Cells : cells'[c].key = about[u] <=> cells[c].key = about[u]
      BY <1>2, <1>3, <3>1, <3>2, <1>4 DEF TypeOK, TableTypeOK, here
    <3>5. HolderWalks(u)'
      BY <2>1 DEF WalkInv, HolderWalks, Looking, Publishing
    <3>6. WalkedPast(u)'
      BY <1>3, <2>1, <3>1, <3>3, <3>4 DEF WalkInv, WalkedPast, cell
    <3>7. Unclaimed(u)' /\ AtItsCell(u)'
      BY <2>1, <3>1, <3>4 DEF WalkInv, Unclaimed, AtItsCell, cell
    <3> QED
      BY <3>5, <3>6, <3>7 DEF WalkInv
  <2> QED
    BY <2>2, <2>3
<1> QED
  BY <1>5, <1>6, <1>7, <1>8 DEF TableInv

\* Taking a cell over, when a run is full of other keys: the key that loses
\* its cell is in none, the one that takes it had none.
LEMMA StealKeepsTable ==
    ASSUME TypeOK, TypeOK', TableInv, NEW t \in Threads, PublishSteal(t), ~ Roomy,
           holder' = holder
    PROVE  TableInv'
<1> DEFINE k == about[t]
           here == cell(about[t], 0)
<1>1. /\ pc[t] = "publish_steal"
      /\ cells' = [cells EXCEPT ![here].key = k]
      /\ pc' = [pc EXCEPT ![t] = "publish_store"]
      /\ step' = [step EXCEPT ![t] = 0] /\ about' = about
  BY DEF PublishSteal
<1>2. k \in Keys /\ 0 \in Steps /\ here \in Cells /\ k # NoKey
  BY <1>1, WalkerTypes, CellInCells DEF Publishing, PublishPCs, Steps
<1>3. /\ cells'[here].key = k
      /\ \A c \in Cells : c # here => cells'[c].key = cells[c].key
      /\ \A c \in Cells : cells[c].key # NoKey => cells'[c].key # NoKey
  BY <1>1, <1>2 DEF TypeOK, TableTypeOK
<1>4. \A c \in Cells : cells[c].key # k
  BY <1>1, <1>2 DEF TableInv, WalkInv, WalkedPast, InRun
<1> HIDE DEF here
<1>5. OneCellPerKey'
  BY <1>2, <1>3, <1>4 DEF TableInv, OneCellPerKey
<1>6. InRun'
  <2> SUFFICES ASSUME NEW c \in Cells, cells'[c].key # NoKey
               PROVE  \E s \in Steps : /\ c = cell(cells'[c].key, s)
                                       /\ \A r \in 0..s - 1 :
                                           cells'[cell(cells'[c].key, r)].key # NoKey
    BY DEF InRun, cell
  <2>1. CASE c = here
    <3>1. c = cell(cells'[c].key, 0)
      BY <1>3, <2>1 DEF here
    <3> QED
      BY <1>2, <3>1
  <2>2. CASE c # here
    <3>1. cells'[c].key = cells[c].key /\ cells[c].key \in Keys
      BY <1>3, <2>2 DEF TypeOK, TableTypeOK
    <3>2. PICK s \in Steps : /\ c = cell(cells[c].key, s)
                             /\ \A r \in 0..s - 1 : cells[cell(cells[c].key, r)].key # NoKey
      BY <3>1 DEF TableInv, InRun
    <3>3. \A r \in 0..s - 1 : r \in Steps
      BY DEF Steps
    <3>4. \A r \in 0..s - 1 : cell(cells[c].key, r) \in Cells
      BY <3>1, <3>3, CellInCells
    <3> QED
      BY <1>3, <3>1, <3>2, <3>4
  <2> QED
    BY <2>1, <2>2
<1>7. WalkInv(t)'
  <2>1. HolderWalks(t)'
    BY <1>1 DEF TableInv, WalkInv, HolderWalks, Publishing, PublishPCs
  <2>2. pc'[t] = "publish_store"
    BY <1>1 DEF TypeOK
  <2> QED
    BY <2>1, <2>2 DEF WalkInv, WalkedPast, Unclaimed, AtItsCell
<1>8. ASSUME NEW u \in Threads, u # t PROVE WalkInv(u)'
  <2>1. WalkInv(u) /\ pc'[u] = pc[u] /\ about'[u] = about[u] /\ step'[u] = step[u]
    BY <1>1, <1>8 DEF TableInv, TypeOK, TableTypeOK
  <2>2. CASE ~ (Looking(u) \/ Publishing(u))
    BY <2>1, <2>2 DEF WalkInv, HolderWalks, WalkedPast, Unclaimed, AtItsCell,
       Looking, Publishing, PublishPCs, LookupPCs
  <2>3. CASE Looking(u) \/ Publishing(u)
    <3>1. about[u] \in Keys /\ step[u] \in Steps /\ \A s \in Steps : cell(about[u], s) \in Cells
      BY <2>3, WalkerTypes
    <3>2. about[u] # k
      BY <1>1, <1>8, <2>3, WalkersDiffer DEF Publishing, PublishPCs
    <3>3. \A s \in 0..step[u] - 1 : s \in Steps
      BY <3>1 DEF Steps
    <3>4. \A c \in Cells : cells[c].key # about[u] => cells'[c].key # about[u]
      BY <1>3, <3>2
    <3>5. HolderWalks(u)'
      BY <2>1 DEF WalkInv, HolderWalks, Looking, Publishing
    <3>6. WalkedPast(u)'
      BY <1>3, <2>1, <3>1, <3>3, <3>4 DEF WalkInv, WalkedPast, cell
    <3>7. Unclaimed(u)' /\ AtItsCell(u)'
      BY <2>1, <3>1, <3>4 DEF WalkInv, Unclaimed, AtItsCell, cell
    <3> QED
      BY <3>5, <3>6, <3>7 DEF WalkInv
  <2> QED
    BY <2>2, <2>3
<1> QED
  BY <1>5, <1>6, <1>7, <1>8 DEF TableInv

\* A walk that meets another key's cell and moves along has still passed only
\* cells of other keys.
LEMMA OnwardKeepsWalk ==
    ASSUME TypeOK, TypeOK', TableInv, NEW t \in Threads,
           pc[t] \in {"publish_load", "publish_claim", "lookup_load"},
           cells[cell(about[t], step[t])].key \notin {NoKey, about[t]},
           NEW again \in {"publish_load", "lookup_load"},
           NEW atEnd \in {"publish_steal", "looked_up"},
           Onward(t, again, atEnd),
           cells' = cells, about' = about, holder' = holder
    PROVE  WalkInv(t)'
<1>1. about[t] \in Keys /\ step[t] \in Steps
  BY WalkerTypes DEF Looking, Publishing, PublishPCs, LookupPCs
<1>2. holder[about[t]] = t
  BY DEF TableInv, WalkInv, HolderWalks, Looking, Publishing, PublishPCs, LookupPCs
<1>3. \A r \in 0..step[t] : cells[cell(about[t], r)].key \notin {NoKey, about[t]}
  <2>1. \A r \in 0..step[t] - 1 : cells[cell(about[t], r)].key \notin {NoKey, about[t]}
    BY DEF TableInv, WalkInv, WalkedPast
  <2>2. \A r \in 0..step[t] : r = step[t] \/ r \in 0..step[t] - 1
    BY <1>1 DEF Steps
  <2> QED
    BY <2>1, <2>2
<1>4. CASE step[t] + 1 < PROBES
  <2>1. pc'[t] = again /\ step'[t] = step[t] + 1
    BY <1>4 DEF Onward, TypeOK, TableTypeOK
  <2>2. 0..step'[t] - 1 = 0..step[t]
    BY <1>1, <2>1 DEF Steps
  <2> QED
    BY <1>2, <1>3, <2>1, <2>2
    DEF WalkInv, HolderWalks, WalkedPast, Unclaimed, AtItsCell, cell
<1>5. CASE ~ (step[t] + 1 < PROBES)
  <2>1. pc'[t] = atEnd
    BY <1>5 DEF Onward, TypeOK
  <2>2. Steps = 0..step[t]
    BY <1>1, <1>5 DEF Steps
  <2> QED
    BY <1>2, <1>3, <2>1, <2>2
    DEF WalkInv, HolderWalks, WalkedPast, Unclaimed, AtItsCell, cell
<1> QED
  BY <1>4, <1>5

LEMMA WalkKeepsTable ==
    ASSUME TypeOK, TypeOK', TableInv, NEW t \in Threads, TableStep(t),
           holder' = holder
    PROVE  TableInv'
<1>1. /\ about' = about
      /\ \A u \in Threads : u # t => pc'[u] = pc[u] /\ step'[u] = step[u]
      /\ Looking(t) \/ Publishing(t)
  BY DEF TableStep, PublishLoad, PublishClaim, PublishStore, PublishSteal, LookupLoad,
     LookupRead, Onward, TypeOK, TableTypeOK, Looking, Publishing, PublishPCs, LookupPCs
<1>2. about[t] \in Keys /\ step[t] \in Steps /\ holder[about[t]] = t
  BY <1>1, WalkerTypes DEF TableInv, WalkInv, HolderWalks
<1>f. ASSUME \A c \in Cells : cells'[c].key = cells[c].key, WalkInv(t)' PROVE TableInv'
  BY <1>1, <1>f, TableFrame
<1>3. CASE PublishLoad(t)
  <2>1. CASE cells[cell(about[t], step[t])].key = about[t]
    BY <1>1, <1>2, <1>3, <1>f, <2>1
    DEF PublishLoad, TypeOK, TableTypeOK, WalkInv, HolderWalks, WalkedPast, Unclaimed,
        AtItsCell, cell
  <2>2. CASE cells[cell(about[t], step[t])].key = NoKey
    <3>1. \A c \in Cells : cells[c].key # about[t]
      BY <1>3, <2>2, FreeMeansAbsent DEF PublishLoad
    <3>2. pc'[t] = "publish_claim" /\ step' = step /\ cells' = cells
      BY <1>2, <1>3, <2>2 DEF PublishLoad, TypeOK
    <3>3. WalkInv(t)
      BY DEF TableInv
    <3> QED
      BY <1>1, <1>2, <1>3, <1>f, <3>1, <3>2, <3>3
      DEF PublishLoad, WalkInv, HolderWalks, WalkedPast, Unclaimed, AtItsCell, cell
  <2>3. CASE cells[cell(about[t], step[t])].key \notin {NoKey, about[t]}
    BY <1>3, <1>f, <2>3, OnwardKeepsWalk DEF PublishLoad
  <2> QED
    BY <2>1, <2>2, <2>3
<1>4. CASE PublishClaim(t)
  <2>1. CASE cells[cell(about[t], step[t])].key = NoKey
    BY <1>4, <2>1, ClaimKeepsTable
  <2>2. CASE cells[cell(about[t], step[t])].key # NoKey
    <3>1. cells[cell(about[t], step[t])].key # about[t]
      BY <1>1, <1>4, WalkerTypes DEF PublishClaim, TableInv, WalkInv, Unclaimed
    <3> QED
      BY <1>4, <1>f, <2>2, <3>1, OnwardKeepsWalk DEF PublishClaim
  <2> QED
    BY <2>1, <2>2
<1>5. CASE PublishStore(t)
  <2>1. \A c \in Cells : cells'[c].key = cells[c].key
    BY <1>5 DEF PublishStore, TypeOK, TableTypeOK
  <2>2. pc'[t] = "published"
    BY <1>5 DEF PublishStore, TypeOK
  <2> QED
    BY <1>1, <1>2, <1>f, <2>1, <2>2
    DEF WalkInv, HolderWalks, WalkedPast, Unclaimed, AtItsCell
<1>6. CASE PublishSteal(t)
  BY <1>6, NothingIsStolen, StealKeepsTable DEF PublishSteal
<1>7. CASE LookupLoad(t)
  <2>1. CASE cells[cell(about[t], step[t])].key = about[t]
    BY <1>1, <1>2, <1>7, <1>f, <2>1
    DEF LookupLoad, TypeOK, TableTypeOK, WalkInv, HolderWalks, WalkedPast, Unclaimed,
        AtItsCell, cell
  <2>2. CASE cells[cell(about[t], step[t])].key = NoKey
    BY <1>1, <1>2, <1>7, <1>f, <2>2
    DEF LookupLoad, TypeOK, TableTypeOK, WalkInv, HolderWalks, WalkedPast, Unclaimed,
        AtItsCell
  <2>3. CASE cells[cell(about[t], step[t])].key \notin {NoKey, about[t]}
    BY <1>7, <1>f, <2>3, OnwardKeepsWalk DEF LookupLoad
  <2> QED
    BY <2>1, <2>2, <2>3
<1>8. CASE LookupRead(t)
  <2>1. pc'[t] = "looked_up" /\ cells' = cells
    BY <1>8 DEF LookupRead, TypeOK
  <2> QED
    BY <1>1, <1>2, <1>f, <2>1
    DEF WalkInv, HolderWalks, WalkedPast, Unclaimed, AtItsCell
<1> QED
  BY <1>3, <1>4, <1>5, <1>6, <1>7, <1>8 DEF TableStep

LEMMA NextKeepsTable ==
    ASSUME TypeOK, TypeOK', TableInv, [Next]_vars
    PROVE  TableInv'
<1>s. CASE UNCHANGED vars
  BY <1>s DEF vars, TableInv, OneCellPerKey, InRun, WalkInv, HolderWalks, WalkedPast,
     Unclaimed, AtItsCell, Looking, Publishing, cell
<1>t. ASSUME NEW t \in Threads, ThreadStep(t) PROVE TableInv'
  <2> DEFINE idle == {"run", "stamp", "asleep"}
  \* Steps that leave the table alone and walk for nobody afterwards.
  <2>i. ASSUME cells' = cells, pc'[t] \in idle,
               \A u \in Threads : u # t => /\ pc'[u] = pc[u] /\ about'[u] = about[u]
                                           /\ step'[u] = step[u],
               \A u \in Threads : u # t =>
                   \A m \in Keys : holder[m] = u => holder'[m] = u
        PROVE  TableInv'
    <3>1. WalkInv(t)'
      BY <2>i DEF WalkInv, HolderWalks, WalkedPast, Unclaimed, AtItsCell, Looking,
         Publishing, PublishPCs, LookupPCs
    <3> QED
      BY <2>i, <3>1, TableFrame
  \* Steps that start a walk for a mutex the thread now holds.
  <2>b. ASSUME NEW m \in Keys, cells' = cells,
               pc'[t] \in {"publish_load", "lookup_load"},
               about'[t] = m, step'[t] = 0, holder'[m] = t,
               \A u \in Threads : u # t => /\ pc'[u] = pc[u] /\ about'[u] = about[u]
                                           /\ step'[u] = step[u],
               \A u \in Threads : u # t =>
                   \A n \in Keys : holder[n] = u => holder'[n] = u
        PROVE  TableInv'
    <3>1. WalkInv(t)'
      BY <2>b DEF WalkInv, HolderWalks, WalkedPast, Unclaimed, AtItsCell
    <3> QED
      BY <2>b, <3>1, TableFrame
  <2>1. ASSUME NEW w \in Words, Load(t, w) PROVE TableInv'
    BY <2>1, <2>i DEF Load, tableVars
  <2>2. ASSUME NEW w \in Words, Store(t, w) PROVE TableInv'
    BY <2>2, <2>i DEF Store, TypeOK
  <2>3. CASE Stamped(t)
    BY <2>3, <2>i DEF Stamped, TypeOK
  <2>4. ASSUME NEW m \in Keys, Take(t, m) PROVE TableInv'
    BY <2>4, <2>b DEF Take, BeginLookup, TypeOK, TableTypeOK
  <2>5. ASSUME NEW m \in Keys, Lock(t, m) PROVE TableInv'
    BY <2>4, <2>5 DEF Lock
  <2>6. ASSUME NEW m \in Keys, TryLockBusy(t, m) PROVE TableInv'
    BY <1>s, <2>6 DEF TryLockBusy
  <2>7. ASSUME NEW m \in Keys, Released(t, m) PROVE TableInv'
    BY <2>7, <2>b DEF Released, BeginPublish, TypeOK, TableTypeOK
  <2>8. CASE Acquired(t)
    BY <2>8, <2>i DEF Acquired, EndWalk, TypeOK, TableTypeOK
  <2>9. ASSUME GiveUp(t)
        PROVE  \A u \in Threads : u # t =>
                   \A m \in Keys : holder[m] = u => holder'[m] = u
    <3>1. holder[about[t]] = t
      BY <2>9 DEF GiveUp, TableInv, WalkInv, HolderWalks, Publishing
    <3> QED
      BY <2>9, <3>1 DEF GiveUp, TypeOK
  <2>10. CASE Unlock(t)
    BY <2>10, <2>9, <2>i DEF Unlock, GiveUp, EndWalk, TypeOK, TableTypeOK
  <2>11. CASE CondSleep(t)
    BY <2>11, <2>9, <2>i DEF CondSleep, GiveUp, TypeOK
  <2>12. CASE CondWake(t)
    BY <2>12, <2>4 DEF CondWake, TypeOK
  <2>13. CASE FenceRelease(t)
    BY <2>13, <2>i DEF FenceRelease, tableVars
  <2>14. CASE FenceAcquire(t)
    BY <2>14, <2>i DEF FenceAcquire, tableVars
  <2>15. CASE Walk(t)
    BY <2>15, WalkKeepsTable DEF Walk
  <2> QED
    BY <1>t, <2>1, <2>2, <2>3, <2>5, <2>6, <2>7, <2>8, <2>10, <2>11, <2>12, <2>13,
       <2>14, <2>15 DEF ThreadStep
<1> QED
  BY <1>s, <1>t DEF Next

\* Table::publish and Table::published, whatever the threads do at once and
\* however full the table is: a mutex is in one cell at most, so that no walk
\* can read an old publication of it beside a newer one.
THEOREM OneCell == Spec => []OneCellPerKey
<1>1. TypeOK /\ TableInv /\ [Next]_vars => TableInv'
  BY NextTypes, NextKeepsTable
<1>2. TableInv => OneCellPerKey
  BY DEF TableInv
<1> QED
  BY InitTable, <1>1, <1>2, TypeCorrect, PTL DEF Spec

-----------------------------------------------------------------------------
(* The clock half of the invariant                                         *)

LEMMA InitClock == Init => ClockInv
BY DEF Init, TableInit, ClockInv, ThreadInv, MutexInv, RealClock, RealStamp, CarriesOwnClock,
    StoredIt, OrderedIsPassed, FoundCovers, HolderKnows, CarriedIsCovered, FenceCovers,
    NoFalseReport, Passed, Stopped, Looking, Publishing, PublishPCs, LookupPCs, NONE

\* A thread's clock only moves on, so what it has passed stays passed.
LEMMA PassedStays ==
    ASSUME NEW found \in Stamp, NEW mine \in Stamp, NEW later \in Stamp,
           Passed(found, mine), later.clock >= mine.clock,
           later.thread = mine.thread \/ later.clock > mine.clock
    PROVE  Passed(found, later)
BY DEF Passed, Stopped, Stamp

\* What is covered by a clock that was taken as an edge has been passed.
LEMMA CoveredIsPassed ==
    ASSUME NEW found \in Stamp, NEW mine \in Stamp, NEW seen \in Stamp,
           found.clock <= seen.clock,
           mine.clock > 0,
           found.clock = 0 => found = NONE
    PROVE  Passed(found, Synced(mine, seen))
BY DEF Passed, Synced, Stopped, Stamp, NONE

\* What a thread has passed is covered by the clock it publishes.
LEMMA PassedIsCovered ==
    ASSUME NEW found \in Stamp, NEW mine \in Stamp, Passed(found, mine)
    PROVE  found.clock <= mine.clock
BY DEF Passed, Stopped, Stamp

\* unordered never reports what has been passed, unless the clock has stopped.
LEMMA PassedIsNotReported ==
    ASSUME NEW found \in Stamp, NEW mine \in Stamp, Passed(found, mine),
           unordered(found, mine)
    PROVE  Stopped(mine)
BY DEF Passed, Stopped, unordered, Stamp

LEMMA MineFollows ==
    ASSUME TypeOK, NEW t \in Threads, RealClock(t)
    PROVE  /\ Mine(t) \in Stamp /\ Mine(t) # NONE
           /\ Mine(t).clock > 0
           /\ Mine(t).clock >= clock[t].clock
           /\ Mine(t).thread = clock[t].thread \/ Mine(t).clock > clock[t].clock
<1>1. clock[t] \in Stamp
  BY DEF TypeOK
<1>2. CASE clock[t] = NONE
  BY <1>2, MineIsAStamp DEF NONE
<1>3. CASE clock[t] # NONE
  BY <1>1, <1>3, MineIsAStamp DEF RealClock, Stamp
<1> QED
  BY <1>2, <1>3

\* Outside a lookup a thread has passed everything ordered before it.
LEMMA MinePasses ==
    ASSUME TypeOK, NEW t \in Threads, ThreadInv(t), ~ Looking(t),
           NEW w \in ordered[t]
    PROVE  Passed(plane[w], clock[t]) /\ Passed(plane[w], Mine(t))
<1>1. w \in Words /\ plane[w] \in Stamp /\ clock[t] \in Stamp
  BY DEF TypeOK
<1>2. Passed(plane[w], clock[t])
  BY DEF ThreadInv, OrderedIsPassed
<1> QED
  BY <1>1, <1>2, MineFollows, PassedStays DEF ThreadInv

\* A step of one thread that makes no write, gives up no mutex and changes no
\* published stamp keeps the clock half if it keeps the thread's own part.
LEMMA ClockFrame ==
    ASSUME TypeOK, TypeOK', ClockInv, NEW t \in Threads,
           plane' = plane, carried' = carried,
           \A u \in Threads : u # t => /\ pc'[u] = pc[u] /\ about'[u] = about[u]
                                       /\ held'[u] = held[u] /\ clock'[u] = clock[u]
                                       /\ ordered'[u] = ordered[u],
           ordered[t] \subseteq ordered'[t],
           \A m \in Keys : \/ holder'[m] = holder[m]
                           \/ holder'[m] = t /\ carried[m] \subseteq ordered'[t],
           \A c \in Cells : cells[c].key # NoKey =>
               cells'[c].key = cells[c].key /\ cells'[c].stamp = cells[c].stamp,
           ThreadInv(t)', FenceCovers', NoFalseReport'
    PROVE  ClockInv'
<1>1. ASSUME NEW u \in Threads, u # t PROVE ThreadInv(u)'
  <2>1. ThreadInv(u) /\ about[u] \in Keys \cup {NoKey}
    BY DEF ClockInv, TypeOK, TableTypeOK
  <2>2. RealClock(u)' /\ CarriesOwnClock(u)' /\ OrderedIsPassed(u)' /\ FoundCovers(u)'
    BY <1>1, <2>1 DEF ThreadInv, RealClock, CarriesOwnClock, OrderedIsPassed, FoundCovers,
       Looking, Publishing
  <2>3. StoredIt(u)'
    <3>1. pc[u] = "published" => about[u] \in Keys
      BY DEF TypeOK
    <3> QED
      BY <1>1, <2>1, <3>1 DEF ThreadInv, StoredIt
  <2> QED
    BY <2>2, <2>3 DEF ThreadInv
<1>2. ASSUME NEW m \in Keys PROVE MutexInv(m)'
  <2>1. HolderKnows(m) /\ CarriedIsCovered(m)
    BY DEF ClockInv, MutexInv
  <2>2. HolderKnows(m)'
    <3>1. CASE holder'[m] = t /\ carried[m] \subseteq ordered'[t]
      BY <3>1 DEF HolderKnows
    <3>2. CASE holder'[m] = holder[m]
      BY <2>1, <3>2 DEF HolderKnows, TypeOK
    <3> QED
      BY <3>1, <3>2
  <2>3. CarriedIsCovered(m)'
    BY <2>1 DEF CarriedIsCovered
  <2> QED
    BY <2>2, <2>3 DEF MutexInv
<1> QED
  BY <1>1, <1>2 DEF ClockInv, RealStamp

\* The judgement: a report of an ordered write means a clock that has stopped.
LEMMA RacedIsRight ==
    ASSUME TypeOK, ClockInv, NEW t \in Threads, pc[t] = "run", NEW w \in Words, Raced(t, w)
    PROVE  NoFalseReport'
<1>1. ASSUME unordered(plane[w], Mine(t)), w \in ordered[t] PROVE Stopped(Mine(t))
  <2>1. Passed(plane[w], Mine(t))
    BY <1>1, MinePasses DEF ClockInv, Looking, LookupPCs
  <2> QED
    BY <1>1, <2>1, MineIsAStamp, PassedIsNotReported DEF TypeOK
<1>2. \A r \in reports : r.ordered => r.stopped
  BY DEF ClockInv, NoFalseReport
<1>3. CASE unordered(plane[w], Mine(t))
  <2> DEFINE new == [word |-> w, ordered |-> w \in ordered[t], stopped |-> Stopped(Mine(t))]
  <2>1. new.ordered => new.stopped
    BY <1>1, <1>3
  <2>2. reports' = reports \cup {new}
    BY <1>3 DEF Raced
  <2> HIDE DEF new
  <2> QED
    BY <1>2, <2>1, <2>2 DEF NoFalseReport
<1>4. CASE ~ unordered(plane[w], Mine(t))
  BY <1>2, <1>4 DEF Raced, NoFalseReport
<1> QED
  BY <1>3, <1>4

\* A thread that is not walking, and goes on with the clock it has or is given.
LEMMA IdleKeepsThread ==
    ASSUME TypeOK, TypeOK', ClockInv, NEW t \in Threads, ~ Looking(t),
           clock'[t] \in {clock[t], Mine(t)},
           ~ (Looking(t) \/ Publishing(t))' \/ (Publishing(t)' /\ pc'[t] # "published"
                                              /\ held'[t] = Mine(t) /\ clock'[t] = Mine(t)),
           plane' = plane, ordered'[t] = ordered[t]
    PROVE  ThreadInv(t)'
<1>1. ThreadInv(t)
  BY DEF ClockInv
<1>2. Mine(t) # NONE /\ Mine(t).clock > 0
  BY <1>1, MineFollows DEF ThreadInv
<1>3. OrderedIsPassed(t)'
  BY <1>1, MinePasses DEF OrderedIsPassed
<1>4. RealClock(t)'
  BY <1>1, <1>2 DEF ThreadInv, RealClock
<1> QED
  BY <1>2, <1>3, <1>4
  DEF ThreadInv, CarriesOwnClock, StoredIt, FoundCovers, Looking, Publishing, PublishPCs,
      LookupPCs

\* check::stamped: the write is behind its own thread and ahead of nobody it
\* is still said to be ordered before.
LEMMA StampedKeepsClock ==
    ASSUME TypeOK, TypeOK', ClockInv, NEW t \in Threads, Stamped(t)
    PROVE  ClockInv'
<1> DEFINE x == word[t]
<1>1. /\ pc[t] = "stamp" /\ pc'[t] = "run" /\ x \in Words
      /\ cells' = cells /\ about' = about /\ held' = held /\ holder' = holder
      /\ fenced' = fenced /\ reports' = reports
      /\ clock'[t] = Ticked(Mine(t))
      /\ \A u \in Threads : u # t => pc'[u] = pc[u] /\ clock'[u] = clock[u]
  BY DEF Stamped, Keep, TypeOK
<1>2. /\ ThreadInv(t) /\ ~ Looking(t)
      /\ Mine(t) \in Stamp /\ Mine(t).clock > 0 /\ Ticked(Mine(t)) \in Stamp
  BY <1>1, MineFollows, TickedIsAStamp DEF ClockInv, ThreadInv, Looking, LookupPCs
<1>3. FenceCovers /\ NoFalseReport /\ NoFalseReport'
  BY <1>1 DEF ClockInv, NoFalseReport
<1>4. CASE Stopped(Mine(t))
  <2>1. /\ plane' = plane /\ ordered' = ordered /\ carried' = carried
        /\ fencedOrder' = fencedOrder /\ clock'[t] = Mine(t)
    BY <1>1, <1>4 DEF Stamped, truth, Ticked
  <2>2. ThreadInv(t)'
    BY <1>1, <1>2, <2>1, IdleKeepsThread
    DEF Looking, Publishing, PublishPCs, LookupPCs
  <2>3. FenceCovers'
    BY <1>1, <1>3, <2>1 DEF FenceCovers
  <2>4. /\ \A u \in Threads : u # t => /\ pc'[u] = pc[u] /\ about'[u] = about[u]
                                       /\ held'[u] = held[u] /\ clock'[u] = clock[u]
                                       /\ ordered'[u] = ordered[u]
        /\ ordered[t] \subseteq ordered'[t]
        /\ \A m \in Keys : \/ holder'[m] = holder[m]
                           \/ holder'[m] = t /\ carried[m] \subseteq ordered'[t]
        /\ \A c \in Cells : cells[c].key # NoKey =>
               cells'[c].key = cells[c].key /\ cells'[c].stamp = cells[c].stamp
    BY <1>1, <2>1
  <2> QED
    BY <1>3, <2>1, <2>2, <2>3, <2>4, ClockFrame, Zenon
<1>5. CASE ~ Stopped(Mine(t))
  <2>1. /\ tick(Mine(t)) = Ticked(Mine(t))
        /\ Ticked(Mine(t)).clock = Mine(t).clock + 1
        /\ Ticked(Mine(t)).thread = Mine(t).thread
    BY <1>2, <1>5, TickedIsAStamp
  <2>2. /\ plane' = [plane EXCEPT ![x] = Ticked(Mine(t))]
        /\ ordered' = [u \in Threads |-> IF u = t THEN ordered[u] \cup {x} ELSE ordered[u] \ {x}]
        /\ carried' = [m \in Keys |-> carried[m] \ {x}]
        /\ fencedOrder' = fencedOrder \ {x}
    BY <1>5, <2>1 DEF Stamped
  <2>3. /\ plane'[x] = Ticked(Mine(t))
        /\ \A w \in Words : w # x => plane'[w] = plane[w]
    BY <1>1, <2>2 DEF TypeOK
  <2>4. Ticked(Mine(t)).clock > 0
    BY <1>2, <2>1 DEF Stamp
  <2>5. ThreadInv(t)'
    <3>1. ASSUME NEW w \in ordered'[t] PROVE Passed(plane'[w], clock'[t])
      <4>1. CASE w = x
        BY <1>1, <2>3, <4>1 DEF Passed
      <4>2. CASE w # x
        <5>1. w \in ordered[t] /\ w \in Words /\ plane[w] \in Stamp
          BY <2>2, <4>2 DEF TypeOK
        <5>2. Passed(plane[w], Mine(t))
          BY <1>2, <5>1, MinePasses
        <5>3. Ticked(Mine(t)).clock >= Mine(t).clock
          BY <1>2, <2>1 DEF Stamp
        <5> QED
          BY <1>1, <1>2, <2>1, <2>3, <4>2, <5>1, <5>2, <5>3, PassedStays
      <4> QED
        BY <4>1, <4>2
    <3>2. OrderedIsPassed(t)'
      BY <3>1 DEF OrderedIsPassed
    <3>3. RealClock(t)'
      BY <1>1, <2>4 DEF RealClock
    <3> QED
      BY <1>1, <3>2, <3>3 DEF ThreadInv, CarriesOwnClock, StoredIt, FoundCovers, Publishing,
         PublishPCs
  <2>6. ASSUME NEW u \in Threads, u # t PROVE ThreadInv(u)'
    <3>1. ThreadInv(u)
      BY DEF ClockInv
    <3>2. RealClock(u)' /\ CarriesOwnClock(u)' /\ StoredIt(u)'
      BY <1>1, <2>6, <3>1 DEF ThreadInv, RealClock, CarriesOwnClock, StoredIt, Publishing
    <3>3. ordered'[u] = ordered[u] \ {x} /\ ordered[u] \subseteq Words
      BY <2>2, <2>6 DEF TypeOK
    <3>4. Looking(u) => about[u] \in Keys
      BY WalkerTypes
    <3>5. OrderedIsPassed(u)'
      BY <1>1, <2>2, <2>3, <2>6, <3>1, <3>3, <3>4
      DEF ThreadInv, OrderedIsPassed, Looking
    <3>6. FoundCovers(u)'
      BY <1>1, <2>2, <2>3, <2>6, <3>1, <3>4
      DEF ThreadInv, FoundCovers, Looking, TypeOK
    <3> QED
      BY <3>2, <3>5, <3>6 DEF ThreadInv
  <2>7. ASSUME NEW m \in Keys PROVE MutexInv(m)'
    <3>1. HolderKnows(m) /\ CarriedIsCovered(m) /\ carried'[m] = carried[m] \ {x}
      BY <2>2 DEF ClockInv, MutexInv
    <3>2. HolderKnows(m)'
      BY <1>1, <2>2, <3>1 DEF HolderKnows, TypeOK
    <3>3. CarriedIsCovered(m)'
      BY <1>1, <2>3, <3>1 DEF CarriedIsCovered, TypeOK
    <3> QED
      BY <3>2, <3>3 DEF MutexInv
  <2>8. ASSUME NEW w \in Words PROVE RealStamp(w)'
    BY <2>3, <2>4 DEF ClockInv, RealStamp
  <2>9. FenceCovers'
    BY <1>1, <1>3, <2>2, <2>3 DEF FenceCovers, TypeOK
  <2> QED
    BY <1>3, <2>5, <2>6, <2>7, <2>8, <2>9 DEF ClockInv
<1> QED
  BY <1>4, <1>5

\* The C library gives a thread a mutex: what it carries is now ordered before
\* the thread, and the walk that is to cover it has begun.
LEMMA TakeKeepsClock ==
    ASSUME TypeOK, TypeOK', ClockInv, NEW t \in Threads, NEW m \in Keys, Take(t, m),
           ~ Looking(t)
    PROVE  ClockInv'
<1>1. /\ cells' = cells /\ plane' = plane /\ carried' = carried
      /\ clock' = clock /\ reports' = reports /\ fenced' = fenced
      /\ fencedOrder' = fencedOrder
      /\ pc'[t] = "lookup_load" /\ about'[t] = m
      /\ holder' = [holder EXCEPT ![m] = t]
      /\ ordered'[t] = ordered[t] \cup carried[m]
  BY DEF Take, BeginLookup, monitorVars, TypeOK, TableTypeOK
<1>2. \A u \in Threads : u # t => /\ pc'[u] = pc[u] /\ about'[u] = about[u]
                                  /\ held'[u] = held[u] /\ clock'[u] = clock[u]
                                  /\ ordered'[u] = ordered[u]
  BY <1>1 DEF Take, BeginLookup, TypeOK, TableTypeOK
<1>3. ThreadInv(t)'
  <2>1. ThreadInv(t)
    BY DEF ClockInv
  <2>2. \A w \in ordered[t] : Passed(plane[w], clock[t])
    BY <2>1, MinePasses
  <2>3. OrderedIsPassed(t)'
    BY <1>1, <2>2 DEF OrderedIsPassed, Looking, LookupPCs
  <2> QED
    BY <1>1, <2>1, <2>3 DEF ThreadInv, RealClock, CarriesOwnClock, StoredIt, FoundCovers,
       Publishing, PublishPCs
<1>4. FenceCovers' /\ NoFalseReport'
  BY <1>1 DEF ClockInv, FenceCovers, NoFalseReport
<1>5. \A n \in Keys : \/ holder'[n] = holder[n]
                      \/ holder'[n] = t /\ carried[n] \subseteq ordered'[t]
  BY <1>1 DEF TypeOK
<1>6. ordered[t] \subseteq ordered'[t]
  BY <1>1
<1>7. \A c \in Cells : cells[c].key # NoKey =>
          cells'[c].key = cells[c].key /\ cells'[c].stamp = cells[c].stamp
  BY <1>1
<1> QED
  BY <1>1, <1>2, <1>3, <1>4, <1>5, <1>6, <1>7, ClockFrame

\* The C library takes a mutex back: everything ordered before its holder is
\* covered by what the holder has just published.
LEMMA GiveUpKeepsClock ==
    ASSUME TypeOK, TypeOK', TableInv, ClockInv, NEW t \in Threads, GiveUp(t),
           pc'[t] \in {"run", "asleep"},
           \A u \in Threads : u # t => /\ pc'[u] = pc[u] /\ about'[u] = about[u]
                                       /\ held'[u] = held[u]
    PROVE  ClockInv'
<1> DEFINE k == about[t]
<1>1. /\ pc[t] = "published" /\ k \in Keys
      /\ cells' = cells /\ plane' = plane /\ ordered' = ordered
      /\ clock' = clock /\ reports' = reports /\ fenced' = fenced
      /\ fencedOrder' = fencedOrder
      /\ holder' = [holder EXCEPT ![k] = NoThread]
      /\ carried' = [carried EXCEPT ![k] = @ \cup ordered[t]]
  BY DEF GiveUp, monitorVars, TypeOK
<1>2. ThreadInv(t) /\ ~ Looking(t) /\ Publishing(t)
  BY <1>1 DEF ClockInv, Looking, Publishing, LookupPCs
<1>3. ThreadInv(t)'
  <2>1. OrderedIsPassed(t)'
    BY <1>1, <1>2, MinePasses DEF OrderedIsPassed
  <2> QED
    BY <1>1, <1>2, <2>1 DEF ThreadInv, RealClock, CarriesOwnClock, StoredIt, FoundCovers,
       Publishing, PublishPCs
<1>4. ASSUME NEW u \in Threads, u # t PROVE ThreadInv(u)'
  <2>1. ThreadInv(u)
    BY DEF ClockInv
  <2>2. Looking(u) => about[u] \in Keys /\ carried'[about[u]] = carried[about[u]]
    <3>1. ASSUME Looking(u) PROVE about[u] \in Keys /\ about[u] # k
      BY <1>2, <1>4, <3>1, WalkerTypes, WalkersDiffer
    <3> QED
      BY <1>1, <3>1 DEF TypeOK
  <2>3. OrderedIsPassed(u)' /\ FoundCovers(u)'
    BY <1>1, <1>4, <2>1, <2>2 DEF ThreadInv, OrderedIsPassed, FoundCovers, Looking
  <2> QED
    BY <1>1, <1>4, <2>1, <2>3 DEF ThreadInv, RealClock, CarriesOwnClock, StoredIt, Publishing
<1>5. ASSUME NEW m \in Keys PROVE MutexInv(m)'
  <2>1. HolderKnows(m) /\ CarriedIsCovered(m)
    BY DEF ClockInv, MutexInv
  <2>2. CASE m # k
    BY <1>1, <2>1, <2>2 DEF MutexInv, HolderKnows, CarriedIsCovered, TypeOK
  <2>3. CASE m = k
    <3>1. holder'[m] = NoThread /\ carried'[m] = carried[m] \cup ordered[t]
      BY <1>1, <2>3 DEF TypeOK
    <3>2. PICK c \in Cells : cells[c].key = m /\ cells[c].stamp = clock[t]
      BY <1>1, <1>2, <2>3 DEF ThreadInv, StoredIt, CarriesOwnClock
    <3>3. ASSUME NEW w \in ordered[t] PROVE plane[w].clock <= cells[c].stamp.clock
      <4>1. Passed(plane[w], clock[t]) /\ plane[w] \in Stamp /\ clock[t] \in Stamp
        BY <1>2, MinePasses DEF TypeOK
      <4> QED
        BY <3>2, <4>1, PassedIsCovered
    <3>4. CarriedIsCovered(m)'
      BY <1>1, <2>1, <3>1, <3>2, <3>3 DEF CarriedIsCovered
    <3> QED
      BY <3>1, <3>4 DEF MutexInv, HolderKnows
  <2> QED
    BY <2>2, <2>3
<1>6. FenceCovers' /\ NoFalseReport' /\ \A w \in Words : RealStamp(w)'
  BY <1>1 DEF ClockInv, FenceCovers, NoFalseReport, RealStamp
<1> QED
  BY <1>3, <1>4, <1>5, <1>6 DEF ClockInv

\* The store of the stamp: the holder's clock covers whatever the mutex
\* carried before, so replacing the stamp uncovers nothing.
LEMMA StoreKeepsClock ==
    ASSUME Roomy, TypeOK, TypeOK', TableInv, ClockInv, NEW t \in Threads, PublishStore(t),
           UNCHANGED <<monitorVars, holder, truth, reports>>
    PROVE  ClockInv'
<1> DEFINE k == about[t]
           x == cell(k, step[t])
<1>1. /\ pc[t] = "publish_store" /\ pc'[t] = "published"
      /\ about' = about /\ held' = held
      /\ \A u \in Threads : u # t => pc'[u] = pc[u]
      /\ clock' = clock /\ plane' = plane /\ fenced' = fenced /\ holder' = holder
      /\ ordered' = ordered /\ carried' = carried /\ fencedOrder' = fencedOrder
      /\ reports' = reports
  BY DEF PublishStore, monitorVars, truth, TypeOK
<1>2. Publishing(t) /\ ~ Looking(t) /\ ThreadInv(t) /\ holder[k] = t
  BY <1>1 DEF Publishing, Looking, PublishPCs, LookupPCs, ClockInv, TableInv, WalkInv,
     HolderWalks
<1>3. k \in Keys /\ x \in Cells /\ cells[x].key = k
  BY <1>1, <1>2, WalkerTypes DEF TableInv, WalkInv, AtItsCell
<1>4. /\ cells' = [cells EXCEPT ![x].stamp = held[t]]
      /\ held[t] = clock[t]
  BY <1>2 DEF PublishStore, ThreadInv, CarriesOwnClock
<1> HIDE DEF x
<1>5. /\ \A c \in Cells : cells'[c].key = cells[c].key
      /\ cells'[x].stamp = held[t]
      /\ \A c \in Cells : c # x => cells'[c].stamp = cells[c].stamp
  BY <1>3, <1>4 DEF TypeOK, TableTypeOK
<1>6. ThreadInv(t)'
  <2>1. OrderedIsPassed(t)'
    BY <1>1, <1>2, MinePasses DEF OrderedIsPassed
  <2>2. StoredIt(t)'
    BY <1>1, <1>3, <1>5 DEF StoredIt
  <2> QED
    BY <1>1, <1>2, <2>1, <2>2 DEF ThreadInv, RealClock, CarriesOwnClock, FoundCovers,
       Publishing
<1>7. ASSUME NEW u \in Threads, u # t PROVE ThreadInv(u)'
  <2>1. ThreadInv(u)
    BY DEF ClockInv
  <2>2. StoredIt(u)'
    <3>1. pc[u] = "published" => about[u] # k
      BY <1>2, <1>7, WalkersDiffer DEF Publishing
    <3> QED
      BY <1>1, <1>3, <1>5, <1>7, <2>1, <3>1 DEF ThreadInv, StoredIt
  <2> QED
    BY <1>1, <1>7, <2>1, <2>2 DEF ThreadInv, RealClock, CarriesOwnClock, OrderedIsPassed,
       FoundCovers, Looking, Publishing
<1>8. ASSUME NEW m \in Keys PROVE MutexInv(m)'
  <2>1. HolderKnows(m) /\ CarriedIsCovered(m)
    BY DEF ClockInv, MutexInv
  <2>2. CASE m # k
    BY <1>1, <1>3, <1>5, <2>1, <2>2 DEF MutexInv, HolderKnows, CarriedIsCovered
  <2>3. CASE m = k
    <3>1. ASSUME NEW w \in carried[m] PROVE plane[w].clock <= cells'[x].stamp.clock
      <4>1. w \in ordered[t] /\ w \in Words
        BY <1>2, <2>1, <2>3 DEF HolderKnows, TypeOK
      <4>2. Passed(plane[w], clock[t]) /\ plane[w] \in Stamp /\ clock[t] \in Stamp
        BY <1>2, <4>1, MinePasses DEF TypeOK
      <4> QED
        BY <1>4, <1>5, <4>2, PassedIsCovered
    <3>2. CarriedIsCovered(m)'
      BY <1>1, <1>3, <1>5, <2>3, <3>1 DEF CarriedIsCovered
    <3> QED
      BY <1>1, <2>1, <3>2 DEF MutexInv, HolderKnows
  <2> QED
    BY <2>2, <2>3
<1>9. FenceCovers' /\ NoFalseReport' /\ \A w \in Words : RealStamp(w)'
  BY <1>1 DEF ClockInv, FenceCovers, NoFalseReport, RealStamp
<1> QED
  BY <1>6, <1>7, <1>8, <1>9 DEF ClockInv

\* A walk that ends without a cell: the mutex carries no write there is a
\* stamp of.
LEMMA AbsentCarriesNothing ==
    ASSUME TypeOK, ClockInv, NEW k \in Keys, \A c \in Cells : cells[c].key # k
    PROVE  \A w \in carried[k] : plane[w] = NONE
BY DEF ClockInv, MutexInv, CarriedIsCovered

\* The other steps of a walk.
LEMMA WalkKeepsClock ==
    ASSUME Roomy, TypeOK, TypeOK', TableInv, ClockInv, NEW t \in Threads, Walk(t)
    PROVE  ClockInv'
<1>1. /\ clock' = clock /\ plane' = plane /\ fenced' = fenced /\ holder' = holder
      /\ ordered' = ordered /\ carried' = carried /\ fencedOrder' = fencedOrder
      /\ reports' = reports /\ TableStep(t)
  BY DEF Walk, monitorVars, truth
<1>2. ThreadInv(t)
  BY DEF ClockInv
<1>3. FenceCovers' /\ NoFalseReport'
  BY <1>1 DEF ClockInv, FenceCovers, NoFalseReport
<1>f. ASSUME \A u \in Threads : u # t => /\ pc'[u] = pc[u] /\ about'[u] = about[u]
                                         /\ held'[u] = held[u],
             \A c \in Cells : cells[c].key # NoKey =>
                 cells'[c].key = cells[c].key /\ cells'[c].stamp = cells[c].stamp,
             ThreadInv(t)'
      PROVE  ClockInv'
  <2>1. /\ \A u \in Threads : u # t => /\ pc'[u] = pc[u] /\ about'[u] = about[u]
                                       /\ held'[u] = held[u] /\ clock'[u] = clock[u]
                                       /\ ordered'[u] = ordered[u]
        /\ ordered[t] \subseteq ordered'[t]
        /\ \A n \in Keys : \/ holder'[n] = holder[n]
                           \/ holder'[n] = t /\ carried[n] \subseteq ordered'[t]
    BY <1>1, <1>f
  <2> QED
    BY <1>1, <1>3, <1>f, <2>1, ClockFrame
\* A publisher that is not yet done.
<1>p. ASSUME Publishing(t), pc'[t] \in PublishPCs, held' = held
      PROVE  ThreadInv(t)'
  <2>1. OrderedIsPassed(t)'
    BY <1>1, <1>2, <1>p, MinePasses DEF OrderedIsPassed, Publishing, Looking, PublishPCs,
       LookupPCs
  <2> QED
    BY <1>1, <1>2, <1>p, <2>1 DEF ThreadInv, RealClock, CarriesOwnClock, StoredIt,
       FoundCovers, Publishing, PublishPCs
\* A reader that is not yet done.
<1>l. ASSUME Looking(t), Looking(t)', about' = about,
             pc'[t] = "looked_up" =>
                 \A w \in carried[about[t]] : plane[w].clock <= held'[t].clock
      PROVE  ThreadInv(t)'
  <2>1. OrderedIsPassed(t)'
    BY <1>1, <1>2, <1>l DEF ThreadInv, OrderedIsPassed
  <2> QED
    BY <1>1, <1>2, <1>l, <2>1 DEF ThreadInv, RealClock, CarriesOwnClock, StoredIt,
       FoundCovers, Publishing, Looking, PublishPCs, LookupPCs
<1>4. CASE PublishLoad(t)
  <2>1. /\ cells' = cells /\ held' = held /\ about' = about /\ pc[t] = "publish_load"
        /\ pc'[t] \in PublishPCs
        /\ \A u \in Threads : u # t => pc'[u] = pc[u]
    BY <1>4 DEF PublishLoad, Onward, TypeOK, PublishPCs
  <2> QED
    BY <1>f, <1>p, <2>1 DEF Publishing, PublishPCs
<1>5. CASE PublishClaim(t)
  <2>1. /\ held' = held /\ about' = about /\ pc[t] = "publish_claim"
        /\ pc'[t] \in PublishPCs
        /\ \A u \in Threads : u # t => pc'[u] = pc[u]
        /\ \A c \in Cells : cells[c].key # NoKey => cells'[c] = cells[c]
    BY <1>5 DEF PublishClaim, Onward, TypeOK, TableTypeOK, PublishPCs
  <2> QED
    BY <1>f, <1>p, <2>1 DEF Publishing, PublishPCs
<1>6. CASE PublishStore(t)
  BY <1>6, StoreKeepsClock DEF Walk
<1>7. CASE PublishSteal(t)
  BY <1>7, NothingIsStolen DEF PublishSteal
<1>8. CASE LookupLoad(t)
  <2>1. /\ cells' = cells /\ held' = held /\ about' = about /\ pc[t] = "lookup_load"
        /\ pc'[t] \in {"lookup_load", "lookup_read", "looked_up"}
        /\ \A u \in Threads : u # t => pc'[u] = pc[u]
    BY <1>8 DEF LookupLoad, Onward, TypeOK
  <2>2. about[t] \in Keys /\ step[t] \in Steps /\ held'[t] \in Stamp
    BY <2>1, WalkerTypes DEF Looking, LookupPCs, TypeOK, TableTypeOK
  <2>3. ASSUME pc'[t] = "looked_up" PROVE \A c \in Cells : cells[c].key # about[t]
    <3>1. CASE cells[cell(about[t], step[t])].key = NoKey
      BY <2>1, <3>1, FreeMeansAbsent
    <3>2. CASE cells[cell(about[t], step[t])].key = about[t]
      BY <1>8, <2>2, <2>3, <3>2 DEF LookupLoad, TypeOK
    <3>3. CASE cells[cell(about[t], step[t])].key \notin {NoKey, about[t]}
      <4>1. ~ (step[t] + 1 < PROBES)
        BY <1>8, <2>2, <2>3, <3>3 DEF LookupLoad, Onward, TypeOK
      <4>2. \A r \in Steps : r = step[t] \/ r \in 0..step[t] - 1
        BY <2>2, <4>1 DEF Steps
      <4>3. \A r \in 0..step[t] - 1 : cells[cell(about[t], r)].key # about[t]
        BY <2>1 DEF TableInv, WalkInv, WalkedPast
      <4>4. \A r \in Steps : cells[cell(about[t], r)].key # about[t]
        BY <3>3, <4>2, <4>3
      <4> QED
        BY <2>2, <4>4, FullMeansAbsent
    <3> QED
      BY <3>1, <3>2, <3>3
  <2>4. ASSUME pc'[t] = "looked_up", NEW w \in carried[about[t]]
        PROVE  plane[w].clock <= held'[t].clock
    <3>1. plane[w] = NONE
      BY <2>2, <2>3, <2>4, AbsentCarriesNothing
    <3> QED
      BY <2>2, <3>1 DEF NONE, Stamp
  <2> QED
    BY <1>f, <1>l, <2>1, <2>4 DEF Looking, LookupPCs
<1>9. CASE LookupRead(t)
  <2> DEFINE x == cell(about[t], step[t])
  <2>1. /\ cells' = cells /\ about' = about /\ pc[t] = "lookup_read"
        /\ pc'[t] = "looked_up" /\ held'[t] = cells[x].stamp
        /\ \A u \in Threads : u # t => pc'[u] = pc[u] /\ held'[u] = held[u]
    BY <1>9 DEF LookupRead, TypeOK, TableTypeOK
  <2>2. about[t] \in Keys /\ x \in Cells /\ cells[x].key = about[t] /\ about[t] # NoKey
    BY <2>1, WalkerTypes DEF Looking, LookupPCs, TableInv, WalkInv, AtItsCell
  <2> HIDE DEF x
  <2>3. ASSUME NEW w \in carried[about[t]] PROVE plane[w].clock <= held'[t].clock
    <3>1. CASE plane[w] = NONE
      BY <2>1, <2>2, <3>1 DEF TypeOK, TableTypeOK, NONE, Stamp
    <3>2. CASE plane[w] # NONE
      <4>1. PICK c \in Cells : /\ cells[c].key = about[t]
                               /\ plane[w].clock <= cells[c].stamp.clock
        BY <2>2, <3>2 DEF ClockInv, MutexInv, CarriedIsCovered
      <4>2. c = x
        BY <2>2, <4>1 DEF TableInv, OneCellPerKey
      <4> QED
        BY <2>1, <4>1, <4>2
    <3> QED
      BY <3>1, <3>2
  <2> QED
    BY <1>f, <1>l, <2>1, <2>3 DEF Looking, LookupPCs
<1> QED
  BY <1>1, <1>4, <1>5, <1>6, <1>7, <1>8, <1>9 DEF TableStep

LEMMA NextKeepsClock ==
    ASSUME Roomy, TypeOK, TypeOK', TableInv, ClockInv, [Next]_vars
    PROVE  ClockInv'
<1>s. CASE UNCHANGED vars
  BY <1>s DEF vars, ClockInv, ThreadInv, MutexInv, RealClock, RealStamp, CarriesOwnClock,
     StoredIt, OrderedIsPassed, FoundCovers, HolderKnows, CarriedIsCovered, FenceCovers,
     NoFalseReport, Looking, Publishing
<1>t. ASSUME NEW t \in Threads, ThreadStep(t) PROVE ClockInv'
  <2>1. /\ ThreadInv(t) /\ Mine(t) \in Stamp /\ Mine(t).clock > 0
        /\ Mine(t).clock >= clock[t].clock
        /\ Mine(t).thread = clock[t].thread \/ Mine(t).clock > clock[t].clock
    BY MineFollows DEF ClockInv, ThreadInv
  \* What most steps leave alone.
  <2>f. ASSUME cells' = cells, plane' = plane, carried' = carried, holder' = holder,
               \A u \in Threads : u # t => /\ pc'[u] = pc[u] /\ about'[u] = about[u]
                                           /\ held'[u] = held[u] /\ clock'[u] = clock[u]
                                           /\ ordered'[u] = ordered[u],
               ordered[t] \subseteq ordered'[t],
               ThreadInv(t)', FenceCovers', NoFalseReport'
        PROVE  ClockInv'
    <3>1. /\ \A m \in Keys : \/ holder'[m] = holder[m]
                             \/ holder'[m] = t /\ carried[m] \subseteq ordered'[t]
          /\ \A c \in Cells : cells[c].key # NoKey =>
                 cells'[c].key = cells[c].key /\ cells'[c].stamp = cells[c].stamp
      BY <2>f
    <3> QED
      BY <2>f, <3>1, ClockFrame
  <2>n. fenced' = fenced /\ plane' = plane /\ fencedOrder' = fencedOrder => FenceCovers'
    BY DEF ClockInv, FenceCovers
  <2>r. reports' = reports => NoFalseReport'
    BY DEF ClockInv, NoFalseReport
  <2>k. ASSUME NEW mine, Keep(t, mine)
        PROVE  clock'[t] = mine /\ \A u \in Threads : u # t => clock'[u] = clock[u]
    BY <2>k DEF Keep, TypeOK
  <2>2. ASSUME NEW w \in Words, Load(t, w) PROVE ClockInv'
    <3>1. /\ cells' = cells /\ pc' = pc /\ about' = about /\ held' = held
          /\ plane' = plane /\ fenced' = fenced /\ holder' = holder /\ pc[t] = "run"
          /\ ordered' = ordered /\ carried' = carried /\ fencedOrder' = fencedOrder
          /\ Raced(t, w) /\ Keep(t, Mine(t))
      BY <2>2 DEF Load, Raced, Here, tableVars, truth
    <3>2. clock'[t] = Mine(t) /\ \A u \in Threads : u # t => clock'[u] = clock[u]
      BY <3>1, <2>k
    <3>3. NoFalseReport'
      BY <3>1, RacedIsRight
    <3>4. ThreadInv(t)'
      BY <3>1, <3>2, IdleKeepsThread DEF Looking, Publishing, PublishPCs, LookupPCs
    <3> QED
      BY <2>f, <2>n, <3>1, <3>2, <3>3, <3>4
  <2>3. ASSUME NEW w \in Words, Store(t, w) PROVE ClockInv'
    <3>1. /\ cells' = cells /\ pc'[t] = "stamp" /\ about' = about /\ held' = held
          /\ \A u \in Threads : u # t => pc'[u] = pc[u]
          /\ plane' = plane /\ fenced' = fenced /\ holder' = holder /\ pc[t] = "run"
          /\ ordered' = ordered /\ carried' = carried /\ fencedOrder' = fencedOrder
          /\ Raced(t, w) /\ Keep(t, Mine(t))
      BY <2>3 DEF Store, Raced, Here, truth, TypeOK
    <3>2. clock'[t] = Mine(t) /\ \A u \in Threads : u # t => clock'[u] = clock[u]
      BY <3>1, <2>k
    <3>3. NoFalseReport'
      BY <3>1, RacedIsRight
    <3>4. ThreadInv(t)'
      BY <3>1, <3>2, IdleKeepsThread DEF Looking, Publishing, PublishPCs, LookupPCs
    <3> QED
      BY <2>f, <2>n, <3>1, <3>2, <3>3, <3>4
  <2>4. CASE Stamped(t)
    BY <2>4, StampedKeepsClock
  <2>5. ASSUME NEW m \in Keys, Lock(t, m) PROVE ClockInv'
    BY <2>5, TakeKeepsClock DEF Lock, Looking, LookupPCs
  <2>6. ASSUME NEW m \in Keys, TryLockBusy(t, m) PROVE ClockInv'
    BY <1>s, <2>6 DEF TryLockBusy
  <2>7. ASSUME NEW m \in Keys, Released(t, m) PROVE ClockInv'
    <3>1. /\ cells' = cells /\ pc'[t] = "publish_load" /\ held'[t] = Mine(t)
          /\ \A u \in Threads : u # t => /\ pc'[u] = pc[u] /\ about'[u] = about[u]
                                         /\ held'[u] = held[u]
          /\ plane' = plane /\ fenced' = fenced /\ holder' = holder /\ pc[t] = "run"
          /\ ordered' = ordered /\ carried' = carried /\ fencedOrder' = fencedOrder
          /\ reports' = reports /\ Keep(t, Mine(t))
      BY <2>7 DEF Released, BeginPublish, Here, truth, TypeOK, TableTypeOK
    <3>2. clock'[t] = Mine(t) /\ \A u \in Threads : u # t => clock'[u] = clock[u]
      BY <3>1, <2>k
    <3>3. ThreadInv(t)'
      BY <3>1, <3>2, IdleKeepsThread DEF Looking, Publishing, PublishPCs, LookupPCs
    <3> QED
      BY <2>f, <2>n, <2>r, <3>1, <3>2, <3>3
  <2>8. CASE Acquired(t)
    <3>1. /\ cells' = cells /\ pc[t] = "looked_up" /\ pc'[t] = "run"
          /\ \A u \in Threads : u # t => /\ pc'[u] = pc[u] /\ about'[u] = about[u]
                                         /\ held'[u] = held[u]
          /\ plane' = plane /\ fenced' = fenced /\ holder' = holder
          /\ ordered' = ordered /\ carried' = carried /\ fencedOrder' = fencedOrder
          /\ reports' = reports /\ Keep(t, Synced(Mine(t), held[t]))
      BY <2>8 DEF Acquired, EndWalk, truth, TypeOK, TableTypeOK
    <3>2. /\ clock'[t] = Synced(Mine(t), held[t])
          /\ \A u \in Threads : u # t => clock'[u] = clock[u]
      BY <3>1, <2>k
    <3>3. /\ held[t] \in Stamp /\ clock[t] \in Stamp
          /\ clock'[t] \in Stamp /\ clock'[t].thread = Mine(t).thread
          /\ clock'[t].clock >= Mine(t).clock
      BY <2>1, <3>2, SyncedIsAStamp DEF TypeOK, TableTypeOK
    <3>4. /\ clock'[t].clock >= clock[t].clock /\ clock'[t].clock > 0
          /\ clock'[t].thread = clock[t].thread \/ clock'[t].clock > clock[t].clock
      BY <2>1, <3>3 DEF Stamp
    <3>5. ASSUME NEW w \in ordered[t] PROVE Passed(plane[w], clock'[t])
      <4>1. plane[w] \in Stamp /\ (plane[w].clock = 0 => plane[w] = NONE)
        BY DEF TypeOK, ClockInv, RealStamp
      <4>2. CASE Passed(plane[w], clock[t])
        BY <3>3, <3>4, <4>1, <4>2, PassedStays
      <4>3. CASE w \in carried[about[t]]
        <5>1. plane[w].clock <= held[t].clock
          BY <2>1, <3>1, <4>3 DEF ThreadInv, FoundCovers
        <5> QED
          BY <2>1, <3>2, <3>3, <4>1, <5>1, CoveredIsPassed
      <4> QED
        BY <2>1, <4>2, <4>3 DEF ThreadInv, OrderedIsPassed
    <3>6. ThreadInv(t)'
      <4>1. OrderedIsPassed(t)'
        BY <3>1, <3>5 DEF OrderedIsPassed
      <4>2. RealClock(t)'
        BY <3>4 DEF RealClock
      <4> QED
        BY <3>1, <4>1, <4>2 DEF ThreadInv, CarriesOwnClock, StoredIt, FoundCovers,
           Publishing, PublishPCs
    <3> QED
      BY <2>f, <2>n, <2>r, <3>1, <3>2, <3>6
  <2>9. CASE Unlock(t)
    BY <2>9, GiveUpKeepsClock DEF Unlock, GiveUp, EndWalk, TypeOK, TableTypeOK
  <2>10. CASE CondSleep(t)
    BY <2>10, GiveUpKeepsClock DEF CondSleep, GiveUp, TypeOK, TableTypeOK
  <2>11. CASE CondWake(t)
    BY <2>11, TakeKeepsClock DEF CondWake, Looking, LookupPCs, TypeOK
  <2>12. CASE FenceRelease(t)
    <3>1. /\ cells' = cells /\ pc' = pc /\ about' = about /\ held' = held
          /\ plane' = plane /\ holder' = holder /\ pc[t] = "run"
          /\ ordered' = ordered /\ carried' = carried /\ reports' = reports
          /\ fencedOrder' = fencedOrder \cup ordered[t]
          /\ fenced' = IF Mine(t).clock > fenced THEN Mine(t).clock ELSE fenced
          /\ Keep(t, Mine(t))
      BY <2>12 DEF FenceRelease, Here, tableVars
    <3>2. clock'[t] = Mine(t) /\ \A u \in Threads : u # t => clock'[u] = clock[u]
      BY <3>1, <2>k
    <3>3. ThreadInv(t)'
      BY <3>1, <3>2, IdleKeepsThread DEF Looking, Publishing, PublishPCs, LookupPCs
    <3>4. FenceCovers'
      <4>1. /\ Mine(t).clock \in Nat /\ fenced \in Nat
            /\ fenced' >= fenced /\ fenced' >= Mine(t).clock /\ fenced' \in Nat
        BY <2>1, <3>1 DEF Stamp, TypeOK
      <4>2. ASSUME NEW w \in ordered[t] PROVE plane[w].clock <= Mine(t).clock
        <5>1. Passed(plane[w], Mine(t)) /\ plane[w] \in Stamp
          BY <2>1, <3>1, MinePasses DEF Looking, LookupPCs, TypeOK
        <5> QED
          BY <2>1, <5>1, PassedIsCovered
      <4>3. \A w \in Words : plane[w].clock \in Nat
        BY DEF TypeOK, Stamp
      <4>4. ordered[t] \subseteq Words /\ fencedOrder \subseteq Words
        BY DEF TypeOK
      <4> QED
        BY <3>1, <4>1, <4>2, <4>3, <4>4 DEF ClockInv, FenceCovers
    <3> QED
      BY <2>f, <2>r, <3>1, <3>2, <3>3, <3>4
  <2>13. CASE FenceAcquire(t)
    <3>1. /\ cells' = cells /\ pc' = pc /\ about' = about /\ held' = held
          /\ plane' = plane /\ holder' = holder /\ fenced' = fenced /\ pc[t] = "run"
          /\ ordered' = [ordered EXCEPT ![t] = @ \cup fencedOrder]
          /\ carried' = carried /\ reports' = reports /\ fencedOrder' = fencedOrder
      BY <2>13 DEF FenceAcquire, tableVars
    <3>2. /\ ordered'[t] = ordered[t] \cup fencedOrder
          /\ \A u \in Threads : u # t => ordered'[u] = ordered[u]
      BY <3>1 DEF TypeOK
    <3>3. /\ \A w \in ordered[t] : Passed(plane[w], clock[t]) /\ Passed(plane[w], Mine(t))
          /\ \A w \in ordered'[t] : /\ plane[w] \in Stamp
                                    /\ plane[w].clock = 0 => plane[w] = NONE
          /\ clock[t] \in Stamp
      BY <2>1, <3>1, MinePasses DEF Looking, LookupPCs, TypeOK, ClockInv, RealStamp
    <3>4. /\ \A u \in Threads : u # t => clock'[u] = clock[u]
          /\ RealClock(t)'
          /\ \A w \in ordered'[t] : Passed(plane[w], clock'[t])
      <4>1. CASE fenced = 0
        <5>1. clock' = clock
          BY <2>13, <4>1 DEF FenceAcquire
        <5>2. ASSUME NEW w \in fencedOrder PROVE Passed(plane[w], clock[t])
          <6>1. w \in ordered'[t] /\ plane[w].clock <= 0
            BY <3>2, <4>1 DEF ClockInv, FenceCovers
          <6>2. plane[w] = NONE
            BY <3>3, <6>1 DEF Stamp
          <6> QED
            BY <2>1, <3>3, <6>2 DEF Passed, NONE, Stamp, ThreadInv, RealClock
        <5> QED
          BY <2>1, <3>2, <3>3, <5>1, <5>2 DEF ThreadInv, RealClock
      <4>2. CASE fenced # 0
        <5> DEFINE seen == stamp(0, fenced)
                   later == Synced(Mine(t), seen)
        <5>0. fenced \in Nat /\ fenced <= CLOCKS /\ 0 \in Nat
          BY WidthAssumption DEF TypeOK
        <5>1. seen \in Stamp /\ seen.clock = fenced
          BY <5>0, StampIsAStamp
        <5>2. /\ later \in Stamp /\ later.thread = Mine(t).thread
              /\ later.clock >= Mine(t).clock
          BY <2>1, <5>1, SyncedIsAStamp
        <5>3. Keep(t, later)
          BY <2>13, <4>2 DEF FenceAcquire
        <5>4. clock'[t] = later /\ \A u \in Threads : u # t => clock'[u] = clock[u]
          BY <5>3, <2>k
        <5> HIDE DEF seen
        <5>5. ASSUME NEW w \in ordered'[t] PROVE Passed(plane[w], later)
          <6>1. CASE w \in ordered[t]
            BY <2>1, <3>3, <5>2, <6>1, PassedStays
          <6>2. CASE w \in fencedOrder
            <7>1. plane[w].clock <= seen.clock
              BY <5>1, <6>2 DEF ClockInv, FenceCovers
            <7> QED
              BY <2>1, <3>3, <5>1, <7>1, CoveredIsPassed
          <6> QED
            BY <3>2, <5>5, <6>1, <6>2
        <5>6. later.clock > 0
          BY <2>1, <5>2 DEF Stamp
        <5> QED
          BY <5>4, <5>5, <5>6 DEF RealClock
      <4> QED
        BY <4>1, <4>2
    <3>5. ThreadInv(t)'
      BY <3>1, <3>4 DEF ThreadInv, OrderedIsPassed, CarriesOwnClock, StoredIt, FoundCovers,
         Publishing, PublishPCs
    <3> QED
      BY <2>f, <2>n, <2>r, <3>1, <3>2, <3>4, <3>5
  <2>14. CASE Walk(t)
    BY <2>14, WalkKeepsClock
  <2> QED
    BY <1>t, <2>2, <2>3, <2>4, <2>5, <2>6, <2>7, <2>8, <2>9, <2>10, <2>11, <2>12, <2>13,
       <2>14 DEF ThreadStep
<1> QED
  BY <1>s, <1>t DEF Next

\* Inv is an inductive invariant of the monitor.
THEOREM Invariance == ASSUME Roomy PROVE Spec => []Inv
<1>1. Init => Inv
  BY InitTypes, InitTable, InitClock DEF Inv
<1>2. Inv /\ [Next]_vars => Inv'
  BY NextTypes, NextKeepsTable, NextKeepsClock DEF Inv
<1> QED
  BY <1>1, <1>2, PTL DEF Spec

\* No write that the program's mutexes, waits and fences order before an access
\* is reported as a race, however the monitor's own steps interleave.
THEOREM NoFalseReports == ASSUME Roomy PROVE Spec => []NoFalseReport
<1>1. Inv => NoFalseReport
  BY DEF Inv, ClockInv
<1> QED
  BY <1>1, Invariance, PTL

-----------------------------------------------------------------------------
(* Publications                                                            *)
(*                                                                         *)
(* A published clock never goes back, and what a mutex hands on is never   *)
(* lost.  Only the holder of a mutex publishes under its key, and what it  *)
(* stores is its own clock.  So it is enough that the clock of a holder is *)
(* never behind what its mutex has published, from the end of the walk     *)
(* that the lock began with until the mutex is given up.                   *)

\* The holder of the mutex that a cell belongs to is still reading, has read
\* what the cell holds, or has moved its clock to it.
NotAhead(c) ==
    cells[c].key # NoKey /\ holder[cells[c].key] # NoThread =>
        LET t == holder[cells[c].key] IN
        \/ Looking(t) /\ about[t] = cells[c].key /\ pc[t] # "looked_up"
        \/ Looking(t) /\ about[t] = cells[c].key /\ cells[c].stamp.clock <= held[t].clock
        \/ cells[c].stamp.clock <= clock[t].clock

\* A cell nobody has taken has no stamp yet.
Blank(c) == cells[c].key = NoKey => cells[c].stamp.clock = 0

AdvanceInv == \A c \in Cells : NotAhead(c) /\ Blank(c)

-----------------------------------------------------------------------------

LEMMA InitAdvance == Init => AdvanceInv
BY DEF Init, TableInit, AdvanceInv, NotAhead, Blank, NONE

\* A thread that keeps a clock keeps one that is not behind its own.
LEMMA KeepAdvances ==
    ASSUME TypeOK, NEW t \in Threads, NEW mine \in Stamp, Keep(t, mine),
           mine.clock >= Mine(t).clock
    PROVE  /\ clock'[t].clock >= clock[t].clock /\ clock'[t] = mine
           /\ \A u \in Threads : u # t => clock'[u] = clock[u]
<1>1. clock' = [clock EXCEPT ![t] = mine] /\ clock \in [Threads -> Stamp]
  BY DEF Keep, TypeOK
<1>2. Mine(t).clock >= clock[t].clock
  <2>1. CASE clock[t] = NONE
    BY <1>1, <2>1, MineIsAStamp DEF NONE, Stamp
  <2>2. CASE clock[t] # NONE
    BY <1>1, <2>2, MineIsAStamp DEF Stamp
  <2> QED
    BY <2>1, <2>2
<1>3. mine.clock \in Nat /\ Mine(t).clock \in Nat /\ clock[t].clock \in Nat
  BY <1>1, MineIsAStamp DEF Stamp
<1> QED
  BY <1>1, <1>2, <1>3

LEMMA HereAdvances ==
    ASSUME TypeOK, NEW t \in Threads, Here(t)
    PROVE  /\ clock'[t].clock >= clock[t].clock
           /\ \A u \in Threads : u # t => clock'[u] = clock[u]
<1>1. Mine(t) \in Stamp /\ Mine(t).clock >= Mine(t).clock
  BY MineIsAStamp DEF Stamp
<1> QED
  BY <1>1, KeepAdvances DEF Here

\* A step that leaves the cells as they are, of a thread that is not reading a
\* mutex's clock.
LEMMA QuietStep ==
    ASSUME TypeOK, TypeOK', AdvanceInv, NEW t \in Threads, cells' = cells, ~ Looking(t),
           clock'[t].clock >= clock[t].clock,
           \A u \in Threads : u # t => /\ pc'[u] = pc[u] /\ about'[u] = about[u]
                                       /\ held'[u] = held[u] /\ clock'[u] = clock[u],
           \A k \in Keys : \/ holder'[k] = holder[k]
                           \/ holder'[k] = NoThread
                           \/ holder'[k] = t /\ pc'[t] = "lookup_load" /\ about'[t] = k
    PROVE  AdvanceInv'
<1> SUFFICES ASSUME NEW c \in Cells, cells[c].key # NoKey, holder'[cells[c].key] # NoThread
             PROVE  NotAhead(c)'
  BY DEF AdvanceInv, Blank, NotAhead, Cells
<1> DEFINE k == cells[c].key
<1>1. k \in Keys /\ NotAhead(c) /\ cells[c].stamp.clock \in Nat
  BY DEF TypeOK, TableTypeOK, AdvanceInv, Stamp
<1>2. /\ holder'[k] \in Threads
      /\ \A u \in Threads : clock[u].clock \in Nat /\ clock'[u].clock \in Nat
  BY <1>1 DEF TypeOK, Stamp
<1>3. CASE holder'[k] = holder[k] /\ holder[k] = t
  BY <1>1, <1>2, <1>3 DEF NotAhead
<1>4. CASE holder'[k] = holder[k] /\ holder[k] # t
  BY <1>1, <1>2, <1>4 DEF NotAhead, Looking
<1>5. CASE holder'[k] = t /\ pc'[t] = "lookup_load" /\ about'[t] = k
  BY <1>1, <1>2, <1>5 DEF NotAhead, Looking, LookupPCs
<1> QED
  BY <1>1, <1>3, <1>4, <1>5

\* A step that leaves the cells and their mutexes as they are: only the cells of
\* the mutexes that the moving thread holds can be disturbed.
LEMMA OwnStep ==
    ASSUME TypeOK, AdvanceInv, NEW t \in Threads, cells' = cells, holder' = holder,
           \A u \in Threads : u # t => /\ pc'[u] = pc[u] /\ about'[u] = about[u]
                                       /\ held'[u] = held[u] /\ clock'[u] = clock[u],
           \A c \in Cells : cells[c].key # NoKey /\ holder[cells[c].key] = t => NotAhead(c)'
    PROVE  AdvanceInv'
<1> SUFFICES ASSUME NEW c \in Cells, cells[c].key # NoKey, holder[cells[c].key] # NoThread
             PROVE  NotAhead(c)'
  BY DEF AdvanceInv, Blank, NotAhead, Cells
<1>1. cells[c].key \in Keys /\ NotAhead(c)
  BY DEF TypeOK, TableTypeOK, AdvanceInv
<1>2. holder[cells[c].key] \in Threads
  BY <1>1 DEF TypeOK
<1>3. CASE holder[cells[c].key] # t
  BY <1>1, <1>2, <1>3 DEF NotAhead, Looking
<1> QED
  BY <1>3

\* A walk that ends without the key's cell ends with no cell of that key.
LEMMA EndOfWalkIsAbsent ==
    ASSUME TypeOK, TableInv, NEW t \in Threads, LookupLoad(t), pc'[t] = "looked_up",
           NEW c \in Cells
    PROVE  cells[c].key # about[t]
<1>1. pc[t] = "lookup_load" /\ about[t] \in Keys /\ step[t] \in Steps
  BY WalkerTypes DEF LookupLoad, Looking, LookupPCs
<1>2. CASE cells[cell(about[t], step[t])].key = NoKey
  BY <1>1, <1>2, FreeMeansAbsent
<1>3. CASE cells[cell(about[t], step[t])].key = about[t]
  BY <1>1, <1>3 DEF LookupLoad, TypeOK, TableTypeOK
<1>4. CASE cells[cell(about[t], step[t])].key \notin {NoKey, about[t]}
  <2>1. ~ (step[t] + 1 < PROBES)
    BY <1>1, <1>4 DEF LookupLoad, Onward, TypeOK
  <2>2. \A r \in Steps : r = step[t] \/ r \in 0..step[t] - 1
    BY <1>1, <2>1 DEF Steps
  <2>3. \A r \in 0..step[t] - 1 : cells[cell(about[t], r)].key # about[t]
    BY <1>1 DEF TableInv, WalkInv, WalkedPast
  <2>4. \A r \in Steps : cells[cell(about[t], r)].key # about[t]
    BY <1>4, <2>2, <2>3
  <2> QED
    BY <1>1, <2>4, FullMeansAbsent
<1> QED
  BY <1>2, <1>3, <1>4

LEMMA WalkAdvances ==
    ASSUME Roomy, TypeOK, TypeOK', TableInv, ClockInv, AdvanceInv,
           NEW t \in Threads, Walk(t)
    PROVE  AdvanceInv'
<1>w. clock' = clock /\ holder' = holder /\ TableStep(t)
  BY DEF Walk, monitorVars
<1>c. \A u \in Threads : clock[u].clock \in Nat /\ clock[u].clock >= clock[u].clock
  BY DEF TypeOK, Stamp
<1>1. ASSUME cells' = cells, ~ Looking(t),
             \A u \in Threads : u # t => /\ pc'[u] = pc[u] /\ about'[u] = about[u]
                                         /\ held'[u] = held[u]
      PROVE  AdvanceInv'
  BY <1>1, <1>w, <1>c, QuietStep
<1>2. CASE PublishLoad(t)
  BY <1>1, <1>2 DEF PublishLoad, Onward, TypeOK, Looking, LookupPCs
<1>3. CASE PublishClaim(t)
  <2>1. /\ pc[t] = "publish_claim" /\ about' = about /\ held' = held
        /\ \A u \in Threads : u # t => pc'[u] = pc[u]
    BY <1>3 DEF PublishClaim, Onward, TypeOK
  <2>2. about[t] \in Keys /\ about[t] # NoKey /\ cell(about[t], step[t]) \in Cells
    BY <2>1, WalkerTypes DEF Publishing, PublishPCs
  <2>3. holder[about[t]] = t
    BY <2>1 DEF TableInv, WalkInv, HolderWalks, Publishing, PublishPCs
  <2>x. PICK x \in Cells : x = cell(about[t], step[t])
    BY <2>2
  <2>4. CASE cells' = cells
    BY <1>1, <2>1, <2>4 DEF Looking, LookupPCs
  <2>5. CASE cells[x].key = NoKey /\ cells' = [cells EXCEPT ![x].key = about[t]]
    <3>1. pc'[t] = "publish_store"
      BY <1>3, <2>2, <2>x, <2>5 DEF PublishClaim, TypeOK
    <3>2. cells'[x].key = about[t] /\ cells'[x].stamp = cells[x].stamp
      BY <2>2, <2>5 DEF TypeOK, TableTypeOK
    <3>3. \A c \in Cells : c # x => cells'[c] = cells[c]
      BY <2>2, <2>5 DEF TypeOK, TableTypeOK
    <3>4. cells[x].stamp.clock = 0 /\ clock[t].clock \in Nat
      BY <1>c, <2>2, <2>5 DEF AdvanceInv, Blank
    <3>5. NotAhead(x)' /\ Blank(x)'
      BY <1>w, <2>2, <2>3, <3>2, <3>4 DEF NotAhead, Blank
    <3>6. ASSUME NEW c \in Cells, c # x PROVE NotAhead(c)' /\ Blank(c)'
      <4>1. cells'[c] = cells[c] /\ NotAhead(c) /\ Blank(c)
        BY <3>3, <3>6 DEF AdvanceInv
      <4>2. cells[c].key # NoKey /\ holder[cells[c].key] # NoThread
              => holder[cells[c].key] \in Threads
        BY <3>6 DEF TypeOK, TableTypeOK
      <4> QED
        BY <1>w, <2>1, <4>1, <4>2 DEF NotAhead, Blank, Looking, LookupPCs
    <3> QED
      BY <3>5, <3>6 DEF AdvanceInv, Cells
  <2> QED
    BY <1>3, <2>x, <2>4, <2>5 DEF PublishClaim
<1>4. CASE PublishStore(t)
  <2>1. /\ pc[t] = "publish_store" /\ pc'[t] = "published" /\ about' = about /\ held' = held
        /\ \A u \in Threads : u # t => pc'[u] = pc[u]
    BY <1>4 DEF PublishStore, TypeOK
  <2>2. /\ about[t] \in Keys /\ about[t] # NoKey /\ cell(about[t], step[t]) \in Cells
        /\ cells[cell(about[t], step[t])].key = about[t]
    BY <2>1, WalkerTypes DEF Publishing, PublishPCs, TableInv, WalkInv, AtItsCell
  <2>3. holder[about[t]] = t /\ held[t] = clock[t]
    BY <2>1 DEF TableInv, WalkInv, HolderWalks, Publishing, PublishPCs, ClockInv, ThreadInv,
       CarriesOwnClock
  <2>x. PICK x \in Cells : x = cell(about[t], step[t])
    BY <2>2
  <2>4. cells' = [cells EXCEPT ![x].stamp = held[t]]
    BY <1>4, <2>x DEF PublishStore
  <2>5. /\ cells'[x].key = about[t] /\ cells'[x].stamp = clock[t]
        /\ \A c \in Cells : c # x => cells'[c] = cells[c]
    BY <2>2, <2>x, <2>3, <2>4 DEF TypeOK, TableTypeOK
  <2>6. NotAhead(x)' /\ Blank(x)'
    BY <1>w, <1>c, <2>2, <2>3, <2>5 DEF NotAhead, Blank
  <2>7. ASSUME NEW c \in Cells, c # x PROVE NotAhead(c)' /\ Blank(c)'
    <3>1. cells'[c] = cells[c] /\ NotAhead(c) /\ Blank(c)
      BY <2>5, <2>7 DEF AdvanceInv
    <3>2. cells[c].key # NoKey /\ holder[cells[c].key] # NoThread
            => holder[cells[c].key] \in Threads
      BY <2>7 DEF TypeOK, TableTypeOK
    <3> QED
      BY <1>w, <2>1, <3>1, <3>2 DEF NotAhead, Blank, Looking, LookupPCs
  <2> QED
    BY <2>6, <2>7 DEF AdvanceInv, Cells
<1>5. CASE PublishSteal(t)
  BY <1>5, NothingIsStolen DEF PublishSteal
<1>6. CASE LookupLoad(t)
  <2>1. /\ cells' = cells /\ about' = about /\ held' = held /\ pc[t] = "lookup_load"
        /\ pc'[t] \in {"lookup_load", "lookup_read", "looked_up"}
        /\ \A u \in Threads : u # t => pc'[u] = pc[u]
    BY <1>6 DEF LookupLoad, Onward, TypeOK
  <2>2. ASSUME NEW c \in Cells, cells[c].key # NoKey, holder[cells[c].key] = t
        PROVE  NotAhead(c)'
    <3>1. NotAhead(c) /\ (pc'[t] = "looked_up" => cells[c].key # about[t])
      BY <1>6, EndOfWalkIsAbsent DEF AdvanceInv
    <3> QED
      BY <1>w, <2>1, <2>2, <3>1, NamesAssumption DEF NotAhead, Looking, LookupPCs
  <2> QED
    BY <1>w, <2>1, <2>2, OwnStep
<1>7. CASE LookupRead(t)
  <2>1. /\ cells' = cells /\ about' = about /\ pc[t] = "lookup_read"
        /\ pc'[t] = "looked_up" /\ held'[t] = cells[cell(about[t], step[t])].stamp
        /\ \A u \in Threads : u # t => pc'[u] = pc[u] /\ held'[u] = held[u]
    BY <1>7 DEF LookupRead, TypeOK, TableTypeOK
  <2>2. PICK x \in Cells : /\ x = cell(about[t], step[t])
                           /\ cells[x].key = about[t] /\ cells[x].stamp.clock \in Nat
    <3>1. cell(about[t], step[t]) \in Cells
      BY <2>1, WalkerTypes DEF Looking, LookupPCs
    <3>2. cells[cell(about[t], step[t])].key = about[t]
      BY <2>1 DEF TableInv, WalkInv, AtItsCell
    <3> QED
      BY <3>1, <3>2 DEF TypeOK, TableTypeOK, Stamp
  <2>3. ASSUME NEW c \in Cells, cells[c].key # NoKey, holder[cells[c].key] = t
        PROVE  NotAhead(c)'
    <3>1. CASE cells[c].key = about[t]
      <4>1. c = x
        BY <2>2, <2>3, <3>1 DEF TableInv, OneCellPerKey
      <4> QED
        BY <1>w, <2>1, <2>2, <2>3, <4>1 DEF NotAhead, Looking, LookupPCs
    <3>2. CASE cells[c].key # about[t]
      <4>1. cells[c].stamp.clock <= clock[t].clock
        BY <2>3, <3>2 DEF AdvanceInv, NotAhead
      <4> QED
        BY <1>w, <2>1, <2>3, <4>1 DEF NotAhead
    <3> QED
      BY <3>1, <3>2
  <2> QED
    BY <1>w, <2>1, <2>3, OwnStep
<1> QED
  BY <1>w, <1>2, <1>3, <1>4, <1>5, <1>6, <1>7 DEF TableStep

LEMMA TakeAdvances ==
    ASSUME TypeOK, TypeOK', AdvanceInv, NEW t \in Threads, NEW m \in Keys, Take(t, m),
           pc[t] \in {"run", "asleep"}
    PROVE  AdvanceInv'
<1>1. /\ cells' = cells /\ clock' = clock
      /\ pc'[t] = "lookup_load" /\ about'[t] = m /\ holder' = [holder EXCEPT ![m] = t]
      /\ \A u \in Threads : u # t => /\ pc'[u] = pc[u] /\ about'[u] = about[u]
                                     /\ held'[u] = held[u]
  BY DEF Take, BeginLookup, TypeOK, TableTypeOK, monitorVars
<1>2. clock'[t].clock >= clock[t].clock
  BY <1>1 DEF TypeOK, Stamp
<1>3. ASSUME NEW k \in Keys
      PROVE  \/ holder'[k] = holder[k]
             \/ holder'[k] = t /\ pc'[t] = "lookup_load" /\ about'[t] = k
  <2>1. holder \in [Keys -> Threads \cup {NoThread}]
    BY DEF TypeOK
  <2>2. k # m => holder'[k] = holder[k]
    BY <1>1, <2>1
  <2>3. k = m => holder'[k] = t
    BY <1>1, <2>1
  <2> QED
    BY <1>1, <2>2, <2>3
<1> QED
  BY <1>1, <1>2, <1>3, QuietStep DEF Looking, LookupPCs

LEMMA GiveUpAdvances ==
    ASSUME TypeOK, TypeOK', AdvanceInv, NEW t \in Threads, GiveUp(t),
           \A u \in Threads : u # t => /\ pc'[u] = pc[u] /\ about'[u] = about[u]
                                       /\ held'[u] = held[u]
    PROVE  AdvanceInv'
<1>1. /\ cells' = cells /\ clock' = clock /\ pc[t] = "published"
      /\ \A k \in Keys : holder'[k] = holder[k] \/ holder'[k] = NoThread
  BY DEF GiveUp, monitorVars, TypeOK
<1>2. clock'[t].clock >= clock[t].clock
  BY <1>1 DEF TypeOK, Stamp
<1> QED
  BY <1>1, <1>2, QuietStep DEF Looking, LookupPCs

LEMMA NextAdvances ==
    ASSUME Roomy, TypeOK, TypeOK', TableInv, ClockInv, AdvanceInv, [Next]_vars
    PROVE  AdvanceInv'
<1>s. CASE UNCHANGED vars
  <2>1. cells' = cells /\ pc' = pc /\ about' = about /\ held' = held
        /\ clock' = clock /\ holder' = holder
    BY <1>s DEF vars
  <2>2. ASSUME NEW c \in Cells PROVE NotAhead(c)' /\ Blank(c)'
    BY <2>1 DEF AdvanceInv, NotAhead, Blank, Looking
  <2> QED
    BY <2>2 DEF AdvanceInv, Cells
<1>t. ASSUME NEW t \in Threads, ThreadStep(t) PROVE AdvanceInv'
  \* A step of a thread that is not walking and takes or gives up no mutex.
  <2>q. ASSUME cells' = cells, holder' = holder, pc[t] \in {"run", "stamp"},
               clock'[t].clock >= clock[t].clock,
               \A u \in Threads : u # t => /\ pc'[u] = pc[u] /\ about'[u] = about[u]
                                           /\ held'[u] = held[u] /\ clock'[u] = clock[u]
        PROVE  AdvanceInv'
    BY <2>q, QuietStep DEF Looking, LookupPCs
  <2>m. Mine(t) \in Stamp /\ held[t] \in Stamp /\ clock[t] \in Stamp
    BY MineIsAStamp DEF TypeOK, TableTypeOK
  <2>1. ASSUME NEW w \in Words, Load(t, w) PROVE AdvanceInv'
    BY <2>1, <2>q, HereAdvances DEF Load, Raced, tableVars
  <2>2. ASSUME NEW w \in Words, Store(t, w) PROVE AdvanceInv'
    <3>1. /\ cells' = cells /\ holder' = holder /\ pc[t] = "run" /\ Here(t)
          /\ about' = about /\ held' = held /\ \A u \in Threads : u # t => pc'[u] = pc[u]
      BY <2>2 DEF Store, Raced, TypeOK
    <3> QED
      BY <3>1, <2>q, HereAdvances
  <2>3. CASE Stamped(t)
    <3>1. /\ cells' = cells /\ holder' = holder /\ pc[t] = "stamp" /\ Keep(t, Ticked(Mine(t)))
          /\ about' = about /\ held' = held /\ \A u \in Threads : u # t => pc'[u] = pc[u]
      BY <2>3 DEF Stamped, TypeOK
    <3>2. Ticked(Mine(t)) \in Stamp /\ Ticked(Mine(t)).clock >= Mine(t).clock
      BY <2>m, TickedIsAStamp DEF Ticked, Stamp
    <3> QED
      BY <3>1, <3>2, <2>q, KeepAdvances
  <2>4. ASSUME NEW m \in Keys, Lock(t, m) PROVE AdvanceInv'
    BY <2>4, TakeAdvances DEF Lock
  <2>5. ASSUME NEW m \in Keys, TryLockBusy(t, m) PROVE AdvanceInv'
    BY <2>5, <1>s DEF TryLockBusy
  <2>6. ASSUME NEW m \in Keys, Released(t, m) PROVE AdvanceInv'
    <3>1. /\ cells' = cells /\ holder' = holder /\ pc[t] = "run" /\ Here(t)
          /\ \A u \in Threads : u # t => /\ pc'[u] = pc[u] /\ about'[u] = about[u]
                                         /\ held'[u] = held[u]
      BY <2>6 DEF Released, BeginPublish, TypeOK, TableTypeOK
    <3> QED
      BY <3>1, <2>q, HereAdvances
  <2>7. CASE Acquired(t)
    <3> DEFINE later == Synced(Mine(t), held[t])
    <3>1. /\ cells' = cells /\ holder' = holder /\ pc[t] = "looked_up" /\ Keep(t, later)
          /\ \A u \in Threads : u # t => /\ pc'[u] = pc[u] /\ about'[u] = about[u]
                                         /\ held'[u] = held[u]
      BY <2>7 DEF Acquired, EndWalk, TypeOK, TableTypeOK
    <3>2. /\ later \in Stamp /\ later.clock >= Mine(t).clock
          /\ held[t] # NONE => later.clock > held[t].clock \/ Stopped(later)
      BY <2>m, SyncedIsAStamp
    <3>3. /\ clock'[t] = later /\ clock'[t].clock >= clock[t].clock
          /\ \A u \in Threads : u # t => clock'[u] = clock[u]
      BY <3>1, <3>2, KeepAdvances
    <3>4. later.clock >= held[t].clock \/ later.clock >= CLOCKS
      BY <2>m, <3>2 DEF NONE, Stopped, Stamp
    <3> HIDE DEF later
    <3>5. ASSUME NEW c \in Cells, cells[c].key # NoKey, holder[cells[c].key] = t
          PROVE  cells[c].stamp.clock <= clock'[t].clock
      <4>1. NotAhead(c) /\ cells[c].stamp.clock \in 0..CLOCKS
        BY DEF AdvanceInv, TypeOK, TableTypeOK, Stamp
      <4>2. \/ cells[c].stamp.clock <= held[t].clock
            \/ cells[c].stamp.clock <= clock[t].clock
        BY <3>1, <3>5, <4>1 DEF NotAhead
      <4> QED
        BY <2>m, <3>2, <3>3, <3>4, <4>1, <4>2 DEF Stamp
    <3>6. \A c \in Cells : cells[c].key # NoKey /\ holder[cells[c].key] = t => NotAhead(c)'
      BY <3>1, <3>5 DEF NotAhead
    <3> QED
      BY <3>1, <3>3, <3>6, OwnStep
  <2>8. CASE Unlock(t)
    BY <2>8, GiveUpAdvances DEF Unlock, EndWalk, TypeOK, TableTypeOK
  <2>9. CASE CondSleep(t)
    BY <2>9, GiveUpAdvances DEF CondSleep, TypeOK
  <2>10. CASE CondWake(t)
    BY <2>10, TakeAdvances DEF CondWake, TypeOK
  <2>11. CASE FenceRelease(t)
    BY <2>11, <2>q, HereAdvances DEF FenceRelease, tableVars
  <2>12. CASE FenceAcquire(t)
    <3>1. cells' = cells /\ holder' = holder /\ pc[t] = "run" /\ pc' = pc
          /\ about' = about /\ held' = held
      BY <2>12 DEF FenceAcquire, tableVars
    <3>2. CASE fenced = 0
      <4>1. clock' = clock
        BY <2>12, <3>2 DEF FenceAcquire
      <4> QED
        BY <2>m, <3>1, <4>1, <2>q DEF Stamp
    <3>3. CASE fenced # 0
      <4>1. stamp(0, fenced) \in Stamp
        BY StampIsAStamp DEF TypeOK
      <4>2. /\ Synced(Mine(t), stamp(0, fenced)) \in Stamp
            /\ Synced(Mine(t), stamp(0, fenced)).clock >= Mine(t).clock
        BY <2>m, <4>1, SyncedIsAStamp
      <4>3. Keep(t, Synced(Mine(t), stamp(0, fenced)))
        BY <2>12, <3>3 DEF FenceAcquire
      <4> QED
        BY <3>1, <4>2, <4>3, <2>q, KeepAdvances
    <3> QED
      BY <3>2, <3>3
  <2>13. CASE Walk(t)
    BY <2>13, WalkAdvances
  <2> QED
    BY <1>t, <2>1, <2>2, <2>3, <2>4, <2>5, <2>6, <2>7, <2>8, <2>9, <2>10, <2>11, <2>12,
       <2>13 DEF ThreadStep
<1> QED
  BY <1>s, <1>t DEF Next

\* Only the store of a publisher changes the stamp beside a key that stays.
LEMMA StampsAdvance ==
    ASSUME Roomy, TypeOK, TableInv, ClockInv, AdvanceInv, [Next]_vars,
           NEW c \in Cells, cells[c].key # NoKey, cells'[c].key = cells[c].key
    PROVE  cells'[c].stamp.clock >= cells[c].stamp.clock
<1>c. cells[c].stamp.clock \in Nat
  BY DEF TypeOK, TableTypeOK, Stamp
<1>1. CASE cells'[c] = cells[c]
  BY <1>c, <1>1
<1>2. CASE \E t \in Threads : TableStep(t)
  <2> PICK t \in Threads : TableStep(t)
    BY <1>2
  <2>1. CASE PublishStore(t)
    <3>1. pc[t] = "publish_store" /\ about[t] \in Keys /\ cell(about[t], step[t]) \in Cells
      BY <2>1, WalkerTypes DEF PublishStore, Publishing, PublishPCs
    <3>2. /\ cells[cell(about[t], step[t])].key = about[t]
          /\ holder[about[t]] = t /\ held[t] = clock[t]
      BY <3>1 DEF TableInv, WalkInv, HolderWalks, AtItsCell, Publishing, PublishPCs, ClockInv,
         ThreadInv, CarriesOwnClock
    <3>3. CASE c = cell(about[t], step[t])
      <4>1. cells[c].stamp.clock <= clock[t].clock
        BY <3>1, <3>2, <3>3 DEF AdvanceInv, NotAhead, Looking, LookupPCs
      <4>2. cells'[c].stamp = clock[t] /\ clock[t].clock \in Nat
        BY <2>1, <3>2, <3>3 DEF PublishStore, TypeOK, TableTypeOK, Stamp
      <4> QED
        BY <1>c, <4>1, <4>2
    <3>4. CASE c # cell(about[t], step[t])
      BY <1>1, <2>1, <3>1, <3>4 DEF PublishStore, TypeOK, TableTypeOK
    <3> QED
      BY <3>3, <3>4
  <2>2. CASE PublishClaim(t)
    <3>1. cell(about[t], step[t]) \in Cells /\ about[t] # NoKey
      BY <2>2, WalkerTypes DEF PublishClaim, Publishing, PublishPCs
    <3> QED
      BY <1>1, <2>2, <3>1 DEF PublishClaim, TypeOK, TableTypeOK
  <2>3. CASE PublishSteal(t)
    BY <2>3, NothingIsStolen DEF PublishSteal
  <2>4. CASE PublishLoad(t) \/ LookupLoad(t) \/ LookupRead(t)
    BY <1>1, <2>4 DEF PublishLoad, LookupLoad, LookupRead
  <2> QED
    BY <2>1, <2>2, <2>3, <2>4 DEF TableStep
<1>3. CASE ~ \E t \in Threads : TableStep(t)
  <2>1. cells' = cells
    BY <1>3 DEF Next, vars, ThreadStep, Load, Store, Stamped, Lock, TryLockBusy, Released,
       Acquired, Unlock, CondSleep, CondWake, FenceRelease, FenceAcquire, Walk, Take, GiveUp,
       BeginLookup, BeginPublish, tableVars
  <2> QED
    BY <1>1, <2>1
<1> QED
  BY <1>2, <1>3

\* While a cell belongs to a key its clock only advances, although the store
\* that publishes it is a plain one: the mutex is what keeps its publishers in
\* order.
THEOREM PublicationsOnlyAdvance == ASSUME Roomy PROVE Spec => PublicationsAdvance
<1>1. Init => Inv /\ AdvanceInv
  BY InitTypes, InitTable, InitClock, InitAdvance DEF Inv
<1>2. Inv /\ AdvanceInv /\ [Next]_vars => (Inv /\ AdvanceInv)'
  BY NextTypes, NextKeepsTable, NextKeepsClock, NextAdvances DEF Inv
<1> DEFINE Advance == \A c \in Cells : cells[c].key # NoKey /\ cells'[c].key = cells[c].key
                         => cells'[c].stamp.clock >= cells[c].stamp.clock
<1>3. Inv /\ AdvanceInv /\ [Next]_vars => [Advance]_vars
  BY StampsAdvance DEF Inv
<1>4. Spec => [][Advance]_vars
  BY <1>1, <1>2, <1>3, PTL DEF Spec
<1> QED
  BY <1>4 DEF PublicationsAdvance

\* Whoever holds a mutex has behind it everything the mutex carries, and what
\* the mutex carries is covered by the clock its key has published.
THEOREM EdgesAreCarried == ASSUME Roomy PROVE Spec => []EdgesCarry
<1>1. Inv => EdgesCarry
  BY DEF Inv, ClockInv, EdgesCarry
<1> QED
  BY <1>1, Invariance, PTL

=============================================================================
