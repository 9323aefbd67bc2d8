----------------------------- MODULE RaceInvariant -----------------------------
(***************************************************************************)
(* The inductive invariant behind NoFalseReport: why a program ordered by  *)
(* mutexes, condition variables and fences is never reported, as long as   *)
(* no key finds its run full of other keys.                                *)
(*                                                                         *)
(* The argument has two halves.  The table half says that a key has one    *)
(* cell, that a walk which has passed a cell never has to come back to it, *)
(* and so that a walk finds the key's cell whenever it has one.  The clock *)
(* half follows a write from the thread that made it to the threads it is  *)
(* ordered before: its clock is covered by the writer's clock, then by     *)
(* what the writer publishes, then by what the next holder reads, and last *)
(* by the clock the next holder moves to.                                  *)
(***************************************************************************)
EXTENDS RaceMonitor

\* The cells a key may be in, and the keys that compete for them.
Run(k) == {cell(k, s) : s \in Steps}
Neighbours(k) == {j \in Keys : Run(j) \cap Run(k) # {}}

\* No run has more keys than cells: the case in which nothing is taken over.
Roomy == \A k \in Keys : /\ IsFiniteSet(Neighbours(k))
                         /\ Cardinality(Neighbours(k)) <= PROBES

Looking(t) == pc[t] \in LookupPCs \cup {"looked_up"}
Publishing(t) == pc[t] \in PublishPCs \cup {"published"}

-----------------------------------------------------------------------------
(* The table half                                                          *)

\* A key is in one cell at most.
OneCellPerKey ==
    \A c, d \in Cells : cells[c].key # NoKey /\ cells[c].key = cells[d].key => c = d

\* A key is in its own run, and no cell before it in the run is free.
InRun ==
    \A c \in Cells : cells[c].key # NoKey =>
        \E s \in Steps : /\ c = cell(cells[c].key, s)
                         /\ \A r \in 0..s - 1 : cells[cell(cells[c].key, r)].key # NoKey

\* A thread walks the table only for a mutex it holds.
HolderWalks(t) == Looking(t) \/ Publishing(t) => holder[about[t]] = t

\* What a walk has passed is taken, and taken by other keys.
WalkedPast(t) ==
    /\ pc[t] \in {"publish_load", "publish_claim", "lookup_load"} =>
         \A r \in 0..step[t] - 1 : cells[cell(about[t], r)].key \notin {NoKey, about[t]}
    /\ pc[t] = "publish_steal" =>
         \A r \in Steps : cells[cell(about[t], r)].key \notin {NoKey, about[t]}

\* A publisher that is about to claim a cell has none, and nobody else can
\* give it one.
Unclaimed(t) ==
    pc[t] = "publish_claim" => \A c \in Cells : cells[c].key # about[t]

\* A walk that has found or claimed its key's cell is at that cell, unless the
\* cell was taken over since.
AtItsCell(t) ==
    Roomy /\ pc[t] \in {"publish_store", "lookup_read"} =>
        cells[cell(about[t], step[t])].key = about[t]

WalkInv(t) == HolderWalks(t) /\ WalkedPast(t) /\ Unclaimed(t) /\ AtItsCell(t)

TableInv == OneCellPerKey /\ InRun /\ \A t \in Threads : WalkInv(t)

-----------------------------------------------------------------------------
(* The clock half                                                          *)

\* A stamp that unordered never reports to a reader at mine.
Passed(found, mine) ==
    \/ Stopped(mine)
    \/ found.clock < mine.clock
    \/ found.clock = mine.clock /\ found.thread = mine.thread

\* Only NONE has clock zero.
RealClock(t) == clock[t].clock = 0 => clock[t] = NONE
RealStamp(w) == plane[w].clock = 0 => plane[w] = NONE

\* What a publisher carries is its own clock, and it has one.
CarriesOwnClock(t) == Publishing(t) => held[t] = clock[t] /\ clock[t] # NONE

\* After the store, the key's cell holds what the publisher carries.
StoredIt(t) ==
    pc[t] = "published" =>
        \E c \in Cells : cells[c].key = about[t] /\ cells[c].stamp = held[t]

\* A thread has passed every write ordered before it, except while it is still
\* reading the clock of a mutex it has just taken.
OrderedIsPassed(t) ==
    \A w \in ordered[t] :
        Passed(plane[w], clock[t]) \/ (Looking(t) /\ w \in carried[about[t]])

\* What a finished walk has found covers what the mutex carries.
FoundCovers(t) ==
    pc[t] = "looked_up" =>
        \A w \in carried[about[t]] : plane[w].clock <= held[t].clock

ThreadInv(t) ==
    RealClock(t) /\ CarriesOwnClock(t) /\ StoredIt(t) /\ OrderedIsPassed(t) /\ FoundCovers(t)

\* Whoever holds a mutex has everything the mutex carries behind it.
HolderKnows(m) == holder[m] # NoThread => carried[m] \subseteq ordered[holder[m]]

\* What a mutex carries is covered by the clock its key has published.
CarriedIsCovered(m) ==
    \A w \in carried[m] :
        \/ plane[w] = NONE
        \/ \E c \in Cells : cells[c].key = m /\ plane[w].clock <= cells[c].stamp.clock

MutexInv(m) == HolderKnows(m) /\ CarriedIsCovered(m)

\* What a mutex hands on is never lost between two of its holders, whichever
\* other walks their accesses to the table interleave with.
EdgesCarry == \A m \in Keys : MutexInv(m)

\* What release fences carry is covered by the fence cell.
FenceCovers == \A w \in fencedOrder : plane[w].clock <= fenced

ClockInv ==
    /\ \A t \in Threads : ThreadInv(t)
    /\ \A m \in Keys : MutexInv(m)
    /\ \A w \in Words : RealStamp(w)
    /\ FenceCovers
    /\ NoFalseReport

\* The inductive invariant.
Inv == TypeOK /\ TableInv /\ ClockInv

=============================================================================
