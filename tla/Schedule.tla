------------------------------- MODULE Schedule -------------------------------
(***************************************************************************)
(* run of crates/rucc-driver/src/schedule.rs: jobs run across scoped       *)
(* threads, each worker claims the next index, works, and stores into the  *)
(* slot of that index; the scope joins them and the slots are taken in     *)
(* order.  The work may panic on any of the items.                         *)
(***************************************************************************)
EXTENDS Naturals, Sequences

CONSTANTS ITEMS, JOBS   \* bounds: how many items a call has, and asks jobs for

ASSUME ScheduleAssumption == ITEMS \in Nat /\ JOBS \in Nat \ {0}

VARIABLES
    items, bad, jobs,   \* the call: its items, those work panics on, the jobs
    phase,              \* where the calling thread is
    next,               \* the next index to claim
    slots,              \* a slot per item
    doing, mine,        \* where each worker is, and the index it claimed
    runs,               \* how often work was called on each item
    out                 \* what came back

call == <<items, bad, jobs>>
vars == <<call, phase, next, slots, doing, mine, runs, out>>

None == [filled |-> FALSE, value |-> 0]
Some(v) == [filled |-> TRUE, value |-> v]

\* What the work makes of the item of an index.
Result(i) == 2 * i + 1

\* jobs.count().min(items.len()).
workers == IF jobs < items THEN jobs ELSE items
Workers == 1..workers
Threads == 1..JOBS
Indices == 0..items - 1

Init ==
    /\ items \in 0..ITEMS
    /\ bad \in SUBSET (0..items - 1)
    /\ jobs \in Threads
    /\ phase = "called"
    /\ next = 0
    /\ slots = [i \in 0..ITEMS |-> None]
    /\ doing = [w \in Threads |-> "idle"]
    /\ mine = [w \in Threads |-> 0]
    /\ runs = [i \in 0..ITEMS |-> 0]
    /\ out = << >>

\* No items is no threads and no results; one worker is the calling thread.
Call ==
    /\ phase = "called"
    /\ phase' = IF items = 0 THEN "returned" ELSE IF workers <= 1 THEN "serial" ELSE "scope"
    /\ doing' = IF workers <= 1
                  THEN doing
                  ELSE [w \in Threads |-> IF w \in Workers THEN "claim" ELSE "idle"]
    /\ UNCHANGED <<call, next, slots, mine, runs, out>>

\* The serial path, where the first panic is the call's.
SerialWork ==
    /\ phase = "serial" /\ next < items
    /\ runs' = [runs EXCEPT ![next] = @ + 1]
    /\ IF next \in bad
         THEN phase' = "panicked" /\ UNCHANGED <<next, slots>>
         ELSE /\ slots' = [slots EXCEPT ![next] = Some(Result(next))]
              /\ next' = next + 1
              /\ UNCHANGED phase
    /\ UNCHANGED <<call, doing, mine, out>>

Collected == [k \in 1..items |-> slots[k - 1].value]

SerialReturn ==
    /\ phase = "serial" /\ next = items
    /\ phase' = "returned"
    /\ out' = Collected
    /\ UNCHANGED <<call, next, slots, doing, mine, runs>>

-----------------------------------------------------------------------------
(* A worker                                                                *)

\* A slip: the index is read and another worker may read it again.
ClaimUncounted(w) ==
    /\ doing[w] = "claim"
    /\ doing' = [doing EXCEPT ![w] = IF next < items THEN "work" ELSE "ended"]
    /\ mine' = [mine EXCEPT ![w] = next]
    /\ next' = IF \E u \in Threads : u # w /\ doing[u] = "claim" THEN next ELSE next + 1
    /\ UNCHANGED <<call, phase, slots, runs, out>>

\* fetch_add, and the end of the loop when there is no such item.
Claim(w) ==
    /\ doing[w] = "claim"
    /\ doing' = [doing EXCEPT ![w] = IF next < items THEN "work" ELSE "ended"]
    /\ mine' = [mine EXCEPT ![w] = next]
    /\ next' = next + 1
    /\ UNCHANGED <<call, phase, slots, runs, out>>

\* work, which unwinds the worker when it panics.
Work(w) ==
    /\ doing[w] = "work"
    /\ runs' = [runs EXCEPT ![mine[w]] = @ + 1]
    /\ doing' = [doing EXCEPT ![w] = IF mine[w] \in bad THEN "panicked" ELSE "store"]
    /\ UNCHANGED <<call, phase, next, slots, mine, out>>

\* A slip: the results are kept in the order they come.
StoreNextFree(w) ==
    /\ doing[w] = "store"
    /\ slots' = [slots EXCEPT ![CHOOSE i \in Indices :
                    /\ ~ slots[i].filled
                    /\ \A j \in Indices : ~ slots[j].filled => i <= j] = Some(Result(mine[w]))]
    /\ doing' = [doing EXCEPT ![w] = "claim"]
    /\ UNCHANGED <<call, phase, next, mine, runs, out>>

\* The result into the slot, under its lock.
Store(w) ==
    /\ doing[w] = "store"
    /\ slots' = [slots EXCEPT ![mine[w]] = Some(Result(mine[w]))]
    /\ doing' = [doing EXCEPT ![w] = "claim"]
    /\ UNCHANGED <<call, phase, next, mine, runs, out>>

-----------------------------------------------------------------------------
(* The calling thread, while the workers run and after                     *)

Panicked == \E w \in Workers : doing[w] = "panicked"

\* A slip: the first panic ends the scope.
JoinEarly ==
    /\ phase = "scope"
    /\ Panicked \/ \A w \in Workers : doing[w] = "ended"
    /\ phase' = IF Panicked THEN "panicked" ELSE "joined"
    /\ UNCHANGED <<call, next, slots, doing, mine, runs, out>>

\* A slip: a worker that panicked is waited for.
JoinAll ==
    /\ phase = "scope"
    /\ \A w \in Workers : doing[w] = "ended"
    /\ phase' = "joined"
    /\ UNCHANGED <<call, next, slots, doing, mine, runs, out>>

\* The scope waits for every worker, and panics when one of them did.
Join ==
    /\ phase = "scope"
    /\ \A w \in Workers : doing[w] \in {"ended", "panicked"}
    /\ phase' = IF Panicked THEN "panicked" ELSE "joined"
    /\ UNCHANGED <<call, next, slots, doing, mine, runs, out>>

\* The slots in order; one with nothing in it is a panic of run's own.
Merge ==
    /\ phase = "joined"
    /\ IF \A i \in Indices : slots[i].filled
         THEN phase' = "returned" /\ out' = Collected
         ELSE phase' = "panicked" /\ UNCHANGED out
    /\ UNCHANGED <<call, next, slots, doing, mine, runs>>

Ended == phase \in {"returned", "panicked"} /\ UNCHANGED vars

Worker(w) == Claim(w) \/ Work(w) \/ Store(w)
Caller == Call \/ SerialWork \/ SerialReturn \/ Join \/ Merge

Next == Caller \/ (\E w \in Threads : Worker(w)) \/ Ended

Spec == Init /\ [][Next]_vars

\* The calling thread and every worker are threads the system runs, and the
\* work on an item comes to an end.
FairSpec == Spec /\ WF_vars(Caller) /\ \A w \in Threads : WF_vars(Worker(w))

-----------------------------------------------------------------------------

\* The shape of the state.  Each worker's index is one it claimed.
TypeOK ==
    /\ items \in 0..ITEMS /\ bad \in SUBSET Indices /\ jobs \in Threads
    /\ phase \in {"called", "serial", "scope", "joined", "returned", "panicked"}
    /\ next \in Nat
    /\ slots \in [0..ITEMS -> [filled : BOOLEAN, value : Nat]]
    /\ doing \in [Threads -> {"idle", "claim", "work", "store", "ended", "panicked"}]
    /\ mine \in [Threads -> Nat]
    /\ \A w \in Threads : doing[w] \in {"work", "store", "panicked"} => mine[w] \in Indices
    /\ runs \in [0..ITEMS -> Nat]

\* Every item is worked on at most once, and no two workers have one index
\* (schedule.rs, every_item_runs_exactly_once).
RunOnce ==
    /\ \A i \in 0..ITEMS : runs[i] <= 1
    /\ \A u, w \in Threads :
        u # w /\ doing[u] \in {"work", "store"} /\ doing[w] \in {"work", "store"} =>
            mine[u] # mine[w]

\* When the slots are taken none is empty, so that run's own panic ("every
\* index was claimed exactly once") is never met.
EveryIndexClaimed == phase = "joined" => \A i \in Indices : slots[i].filled

\* A panic is passed on only when no worker runs any longer, and an item no
\* worker came to is left only when every one of them panicked (run: "A panic
\* in the closure propagates once every other job has finished").
PanicWaits ==
    phase = "panicked" /\ workers > 1 =>
        /\ \A w \in Workers : doing[w] \in {"ended", "panicked"}
        /\ (\E w \in Workers : doing[w] = "ended") => \A i \in Indices : runs[i] = 1

\* run is a map over the items in input order, whatever the jobs and whichever
\* finishes first.
Ordered == INSTANCE OrderedRun WITH
    verdict <- IF phase \in {"returned", "panicked"} THEN phase ELSE "running"

MapsInOrder == Ordered!Spec

\* Every call comes back.
CallEnds == <>(phase \in {"returned", "panicked"})

=============================================================================
