---------------------------- MODULE ScheduleProofs ----------------------------
(***************************************************************************)
(* Proofs about Schedule, for every number of items and of jobs: its type  *)
(* invariant, that each item runs at most once and none is left out, what  *)
(* a panic waits for, and that run is a map in input order (OrderedRun).   *)
(***************************************************************************)
EXTENDS Schedule, TLAPS

\* A worker has claimed an index and not given its result.
Held(w) == doing[w] \in {"work", "store", "panicked"}

Sized ==
    /\ phase = "serial" => workers <= 1
    /\ phase \in {"scope", "joined"} => workers > 1

\* The workers are those of the scope, from the call on.
Started ==
    \A w \in Threads :
        doing[w] = "idle" <=> ~ (workers > 1 /\ phase # "called" /\ w \in Workers)

\* An index is one worker's, and that worker's part of the work is done on it.
Owned == \A u, w \in Threads : Held(u) /\ Held(w) /\ mine[u] = mine[w] => u = w

Stages ==
    \A w \in Threads :
        /\ Held(w) => mine[w] < next /\ ~ slots[mine[w]].filled
        /\ doing[w] = "work" => runs[mine[w]] = 0
        /\ doing[w] \in {"store", "panicked"} => runs[mine[w]] = 1
        /\ doing[w] = "store" => mine[w] \notin bad
        /\ doing[w] = "panicked" => mine[w] \in bad

\* A slot that is filled has the result of its item.
Filled ==
    \A i \in 0..ITEMS : slots[i].filled =>
        i < next /\ i < items /\ i \notin bad /\ slots[i].value = Result(i) /\ runs[i] = 1

\* What was not claimed was not run, but for the item the serial path stopped at.
Unclaimed ==
    \A i \in 0..ITEMS : i >= next \/ i >= items =>
        runs[i] = 0 \/ (runs[i] = 1 /\ phase = "panicked" /\ workers <= 1)

\* What was claimed is done or is with a worker.
Claimed ==
    \A i \in Indices : i < next =>
        slots[i].filled \/ \E w \in Threads : Held(w) /\ mine[w] = i

\* A worker ends when there is nothing left to claim, and the caller goes on
\* when every worker has.
Waited ==
    /\ \A w \in Threads : doing[w] = "ended" => next >= items
    /\ phase \in {"joined", "returned", "panicked"} =>
        \A w \in Threads : doing[w] \in {"idle", "ended", "panicked"}
    /\ phase = "joined" => \A w \in Threads : doing[w] # "panicked"

IInv ==
    /\ TypeOK /\ Sized /\ Started /\ Owned /\ Stages
    /\ Filled /\ Unclaimed /\ Claimed /\ Waited

-----------------------------------------------------------------------------

LEMMA Numbers ==
    ASSUME TypeOK
    PROVE  /\ ITEMS \in Nat /\ JOBS \in Nat /\ JOBS >= 1
           /\ items \in Nat /\ items <= ITEMS /\ jobs \in Nat /\ jobs <= JOBS
           /\ workers \in Nat /\ workers <= JOBS
           /\ Workers \subseteq Threads /\ Indices \subseteq 0..ITEMS
BY ScheduleAssumption DEF TypeOK, workers, Workers, Threads, Indices

LEMMA Starts == Init => IInv
<1> SUFFICES ASSUME Init PROVE IInv
  OBVIOUS
<1>1. TypeOK
  BY ScheduleAssumption
  DEF Init, TypeOK, Indices, Threads, None
<1>2. Sized /\ Started /\ Owned /\ Stages /\ Waited
  BY <1>1, Numbers DEF Init, Sized, Started, Owned, Stages, Waited, Held
<1>3. Filled /\ Unclaimed /\ Claimed
  BY <1>1, Numbers DEF Init, Filled, Unclaimed, Claimed, None, Indices
<1>4. QED
  BY <1>1, <1>2, <1>3 DEF IInv

-----------------------------------------------------------------------------
(* Each action preserves the invariant                                     *)

LEMMA CallStep == IInv /\ Call => IInv'
<1> SUFFICES ASSUME IInv, Call PROVE IInv'
  OBVIOUS
<1> USE Numbers DEF IInv
<1>0. workers' = workers /\ Workers' = Workers /\ Indices' = Indices
  BY DEF Call, call, workers, Workers, Indices
<1>1. TypeOK'
  BY <1>0 DEF Call, call, TypeOK
<1>2. Sized' /\ Started'
  BY <1>0 DEF Call, call, Sized, Started, TypeOK
<1>3. \A w \in Threads :
        /\ ~ Held(w) /\ doing[w] = "idle"
        /\ ~ Held(w)' /\ doing'[w] \in {"idle", "claim"}
  BY DEF Call, Started, Held, TypeOK
<1>4. Owned' /\ Stages' /\ Waited'
  <2>1. phase' = "returned" => doing' = doing
    BY DEF Call, workers, TypeOK
  <2>2. phase' # "joined" /\ phase' # "panicked"
    BY DEF Call
  <2>3. QED
    BY <1>3, <2>1, <2>2 DEF Owned, Stages, Waited, Held
<1>5. Filled' /\ Unclaimed' /\ Claimed'
  BY <1>0, <1>3 DEF Call, call, Filled, Unclaimed, Claimed, Held
<1>6. QED
  BY <1>1, <1>2, <1>4, <1>5

LEMMA SerialWorkStep == IInv /\ SerialWork => IInv'
<1> SUFFICES ASSUME IInv, SerialWork PROVE IInv'
  OBVIOUS
<1> USE Numbers DEF IInv
<1>0. workers' = workers /\ Workers' = Workers /\ Indices' = Indices
  BY DEF SerialWork, call, workers, Workers, Indices
<1>1. /\ next \in 0..ITEMS /\ runs[next] = 0 /\ workers <= 1
      /\ \A w \in Threads : doing[w] = "idle" /\ ~ Held(w)
  BY DEF SerialWork, Unclaimed, Sized, Started, Held, TypeOK
<1>2. TypeOK'
  <2>1. runs' \in [0..ITEMS -> Nat]
    BY <1>1 DEF SerialWork, TypeOK
  <2>2. slots' \in [0..ITEMS -> [filled : BOOLEAN, value : Nat]] /\ next' \in Nat
    <3>1. Some(Result(next)) \in [filled : BOOLEAN, value : Nat]
      BY <1>1 DEF Some, Result
    <3>2. QED
      BY <1>1, <3>1 DEF SerialWork, TypeOK
  <2>3. phase' \in {"serial", "panicked"}
    BY DEF SerialWork
  <2>4. QED
    BY <1>0, <2>1, <2>2, <2>3 DEF SerialWork, call, TypeOK
<1>3. Sized' /\ Started' /\ Owned' /\ Stages' /\ Waited'
  BY <1>0, <1>1 DEF SerialWork, call, Sized, Started, Owned, Stages, Waited, Held
<1>4. Filled' /\ Unclaimed' /\ Claimed'
  <2>1. CASE next \in bad
    BY <1>0, <1>1, <2>1
    DEF SerialWork, call, Filled, Unclaimed, Claimed, Held, TypeOK
  <2>2. CASE next \notin bad
    <3>1. /\ next' = next + 1 /\ phase' = phase /\ items' = items /\ bad' = bad
          /\ \A i \in 0..ITEMS : slots'[i] = IF i = next THEN Some(Result(next)) ELSE slots[i]
          /\ \A i \in 0..ITEMS : runs'[i] = IF i = next THEN runs[next] + 1 ELSE runs[i]
      BY <1>1, <2>2 DEF SerialWork, call, TypeOK
    <3>2. next < items /\ next \in Nat /\ phase = "serial"
      BY DEF SerialWork, TypeOK
    <3>3. Filled'
      BY <1>1, <2>2, <3>1, <3>2 DEF Filled, Some, Result
    <3>4. Unclaimed'
      BY <1>1, <3>1, <3>2 DEF Unclaimed
    <3>5. Claimed'
      BY <1>0, <1>1, <3>1, <3>2 DEF Claimed, Some, Indices
    <3>6. QED
      BY <3>3, <3>4, <3>5
  <2>3. QED
    BY <2>1, <2>2
<1>5. QED
  BY <1>2, <1>3, <1>4

\* A step of the calling thread that only says how the call stands.
LEMMA PhaseStep ==
    ASSUME IInv, phase # "called", phase \notin {"panicked", "returned"},
           phase' \in {"joined", "returned", "panicked"},
           phase' = "joined" => workers > 1,
           UNCHANGED <<call, next, slots, doing, mine, runs>>,
           \A w \in Threads : doing[w] \in {"idle", "ended", "panicked"},
           phase' = "joined" => \A w \in Threads : doing[w] # "panicked"
    PROVE  IInv'
<1> USE Numbers DEF IInv
<1>0. workers' = workers /\ Workers' = Workers /\ Indices' = Indices
  BY DEF call, workers, Workers, Indices
<1>1. TypeOK'
  BY <1>0 DEF call, TypeOK
<1>2. Sized' /\ Started' /\ Waited'
  BY <1>0 DEF call, Sized, Started, Waited
<1>3. Owned' /\ Stages'
  BY DEF call, Owned, Stages, Held
<1>4. Filled' /\ Unclaimed' /\ Claimed'
  BY <1>0 DEF call, Filled, Unclaimed, Claimed, Held
<1>5. QED
  BY <1>1, <1>2, <1>3, <1>4

LEMMA CallerStep == IInv /\ (SerialReturn \/ Join \/ Merge) => IInv'
<1> SUFFICES ASSUME IInv, SerialReturn \/ Join \/ Merge PROVE IInv'
  OBVIOUS
<1> USE Numbers DEF IInv
<1>1. CASE SerialReturn
  BY <1>1, PhaseStep DEF SerialReturn, Sized, Started, TypeOK
<1>2. CASE Join
  <2>1. \A w \in Threads : doing[w] \in {"idle", "ended", "panicked"}
    BY <1>2 DEF Join, Started
  <2>2. workers > 1
    BY <1>2 DEF Join, Sized
  <2>3. phase' = "joined" => \A w \in Threads : doing[w] # "panicked"
    BY <1>2, <2>1 DEF Join, Panicked, Started
  <2>4. QED
    BY <1>2, <2>1, <2>2, <2>3, PhaseStep DEF Join
<1>3. CASE Merge
  BY <1>3, PhaseStep DEF Merge, Waited
<1>4. QED
  BY <1>1, <1>2, <1>3

\* What a worker's step leaves alone.
LEMMA WorkerStarted ==
    ASSUME IInv, NEW w \in Threads, doing[w] # "idle", UNCHANGED <<call, phase>>,
           NEW at \in {"claim", "work", "store", "ended", "panicked"},
           doing' = [doing EXCEPT ![w] = at]
    PROVE  /\ workers' = workers /\ Workers' = Workers /\ Indices' = Indices
           /\ w \in Workers /\ phase \in {"scope", "joined", "returned", "panicked"}
           /\ Sized' /\ Started'
           /\ doing'[w] = at /\ \A u \in Threads : u # w => doing'[u] = doing[u]
           /\ doing' \in [Threads -> {"idle", "claim", "work", "store", "ended", "panicked"}]
<1> USE DEF IInv
<1>1. workers' = workers /\ Workers' = Workers /\ Indices' = Indices
  BY DEF call, workers, Workers, Indices
<1>2. w \in Workers /\ workers > 1 /\ phase # "called"
  BY DEF Started
<1>3. /\ doing'[w] = at /\ \A u \in Threads : u # w => doing'[u] = doing[u]
      /\ doing' \in [Threads -> {"idle", "claim", "work", "store", "ended", "panicked"}]
  BY DEF TypeOK
<1>4. phase \in {"scope", "joined", "returned", "panicked"}
  BY <1>2, Numbers DEF TypeOK, Sized
<1>5. Sized' /\ Started'
  BY <1>1, <1>2, <1>3 DEF Sized, Started
<1>6. QED
  BY <1>1, <1>2, <1>3, <1>4, <1>5

LEMMA ClaimStep == ASSUME IInv, NEW w \in Threads, Claim(w) PROVE IInv'
<1> USE DEF IInv
<1> DEFINE at == IF next < items THEN "work" ELSE "ended"
<1>1. /\ workers' = workers /\ Indices' = Indices
      /\ phase = "scope" /\ phase' = phase
      /\ Sized' /\ Started'
      /\ doing'[w] = at /\ \A u \in Threads : u # w => doing'[u] = doing[u]
      /\ doing' \in [Threads -> {"idle", "claim", "work", "store", "ended", "panicked"}]
  BY WorkerStarted DEF Claim, Waited
<1>2. /\ mine' \in [Threads -> Nat] /\ mine'[w] = next
      /\ \A u \in Threads : u # w => mine'[u] = mine[u]
      /\ next' = next + 1 /\ next \in Nat /\ items \in Nat /\ items <= ITEMS
      /\ ITEMS \in Nat /\ items' = items /\ bad' = bad /\ slots' = slots /\ runs' = runs
      /\ ~ Held(w) /\ doing[w] = "claim"
  BY Numbers DEF Claim, TypeOK, call, Held
<1>3. \A u \in Threads : u # w => (Held(u)' <=> Held(u))
  BY <1>1 DEF Held
<1>4. TypeOK'
  BY <1>1, <1>2 DEF TypeOK, Claim, call, Indices
<1>5. Owned' /\ Stages'
  <2>1. Held(w)' => next < items /\ ~ slots[next].filled /\ runs[next] = 0
    BY <1>1, <1>2 DEF Held, Filled, Unclaimed
  <2>2. \A u \in Threads : u # w /\ Held(u) => mine[u] < next /\ mine[u] \in Nat
    BY DEF Stages, TypeOK
  <2>3. Owned'
    BY <1>2, <1>3, <2>2 DEF Owned
  <2>4. Stages'
    BY <1>1, <1>2, <1>3, <2>1, <2>2 DEF Stages, Held
  <2>5. QED
    BY <2>3, <2>4
<1>6. Filled' /\ Unclaimed'
  BY <1>1, <1>2 DEF Filled, Unclaimed
<1>7. Claimed'
  <2> SUFFICES ASSUME NEW i \in Indices, i < next + 1
               PROVE  slots[i].filled \/ \E u \in Threads : Held(u)' /\ mine'[u] = i
    BY <1>1, <1>2 DEF Claimed
  <2>1. CASE i < next
    BY <2>1, <1>2, <1>3 DEF Claimed
  <2>2. CASE i = next
    BY <2>2, <1>1, <1>2 DEF Held, Indices
  <2>3. QED
    BY <2>1, <2>2, <1>2 DEF Indices
<1>8. Waited'
  BY <1>1, <1>2 DEF Waited
<1>9. QED
  BY <1>1, <1>4, <1>5, <1>6, <1>7, <1>8

LEMMA WorkStep == ASSUME IInv, NEW w \in Threads, Work(w) PROVE IInv'
<1> USE DEF IInv
<1> DEFINE at == IF mine[w] \in bad THEN "panicked" ELSE "store"
<1>1. /\ workers' = workers /\ Indices' = Indices
      /\ phase = "scope" /\ phase' = phase
      /\ Sized' /\ Started'
      /\ doing'[w] = at /\ \A u \in Threads : u # w => doing'[u] = doing[u]
      /\ doing' \in [Threads -> {"idle", "claim", "work", "store", "ended", "panicked"}]
  BY WorkerStarted DEF Work, Waited
<1>2. /\ mine' = mine /\ mine[w] \in Indices /\ mine[w] \in 0..ITEMS
      /\ next' = next /\ items' = items /\ bad' = bad /\ slots' = slots
      /\ Held(w) /\ doing[w] = "work" /\ runs[mine[w]] = 0 /\ mine[w] < next
      /\ mine[w] < items /\ ~ slots[mine[w]].filled
  BY Numbers DEF Work, TypeOK, call, Held, Stages, Indices
<1>3. /\ runs' \in [0..ITEMS -> Nat] /\ runs'[mine[w]] = 1
      /\ \A i \in 0..ITEMS : i # mine[w] => runs'[i] = runs[i]
  BY <1>2 DEF Work, TypeOK
<1>4. \A u \in Threads : Held(u)' <=> Held(u)
  BY <1>1, <1>2 DEF Held
<1>5. \A u \in Threads : u # w /\ Held(u) => mine[u] # mine[w] /\ mine[u] \in 0..ITEMS
  BY <1>2, Numbers DEF Owned, TypeOK, Held, Indices
<1>6. TypeOK'
  BY <1>1, <1>2, <1>3 DEF TypeOK, Work, call
<1>7. Owned'
  BY <1>2, <1>4 DEF Owned
<1>8. Stages'
  BY <1>1, <1>2, <1>3, <1>4, <1>5 DEF Stages, Held
<1>9. Filled' /\ Unclaimed'
  BY <1>1, <1>2, <1>3, Numbers DEF Filled, Unclaimed, TypeOK
<1>10. Claimed' /\ Waited'
  BY <1>1, <1>2, <1>4 DEF Claimed, Waited
<1>11. QED
  BY <1>1, <1>6, <1>7, <1>8, <1>9, <1>10

LEMMA StoreStep == ASSUME IInv, NEW w \in Threads, Store(w) PROVE IInv'
<1> USE DEF IInv
<1>1. /\ workers' = workers /\ Indices' = Indices
      /\ phase = "scope" /\ phase' = phase
      /\ Sized' /\ Started'
      /\ doing'[w] = "claim" /\ \A u \in Threads : u # w => doing'[u] = doing[u]
      /\ doing' \in [Threads -> {"idle", "claim", "work", "store", "ended", "panicked"}]
  BY WorkerStarted DEF Store, Waited
<1>2. /\ mine' = mine /\ mine[w] \in Indices /\ mine[w] \in 0..ITEMS
      /\ next' = next /\ items' = items /\ bad' = bad /\ runs' = runs
      /\ Held(w) /\ doing[w] = "store" /\ runs[mine[w]] = 1 /\ mine[w] < next
      /\ mine[w] < items /\ mine[w] \notin bad
  BY Numbers DEF Store, TypeOK, call, Held, Stages, Indices
<1>3. /\ slots' \in [0..ITEMS -> [filled : BOOLEAN, value : Nat]]
      /\ slots'[mine[w]].filled /\ slots'[mine[w]].value = Result(mine[w])
      /\ \A i \in 0..ITEMS : i # mine[w] => slots'[i] = slots[i]
  <2>1. Some(Result(mine[w])) \in [filled : BOOLEAN, value : Nat]
    BY <1>2 DEF Some, Result
  <2>2. slots' = [slots EXCEPT ![mine[w]] = Some(Result(mine[w]))]
    BY DEF Store
  <2>3. slots'[mine[w]] = Some(Result(mine[w]))
    BY <2>2, <1>2 DEF TypeOK
  <2>4. QED
    BY <1>2, <2>1, <2>2, <2>3 DEF TypeOK, Some
<1>4. /\ ~ Held(w)'
      /\ \A u \in Threads : u # w => (Held(u)' <=> Held(u))
      /\ \A u \in Threads : u # w /\ Held(u) => mine[u] # mine[w] /\ mine[u] \in 0..ITEMS
  BY <1>1, <1>2, Numbers DEF Held, Owned, TypeOK, Indices
<1>5. TypeOK'
  BY <1>1, <1>2, <1>3 DEF TypeOK, Store, call
<1>6. Owned' /\ Stages'
  BY <1>1, <1>2, <1>3, <1>4 DEF Owned, Stages, Held
<1>7. Filled' /\ Unclaimed'
  BY <1>1, <1>2, <1>3 DEF Filled, Unclaimed
<1>8. Claimed'
  <2> SUFFICES ASSUME NEW i \in Indices, i < next
               PROVE  slots'[i].filled \/ \E u \in Threads : Held(u)' /\ mine'[u] = i
    BY <1>1, <1>2 DEF Claimed
  <2>1. CASE i = mine[w]
    BY <2>1, <1>3
  <2>2. CASE i # mine[w]
    BY <2>2, <1>2, <1>3, <1>4, Numbers DEF Claimed
  <2>3. QED
    BY <2>1, <2>2
<1>9. Waited'
  BY <1>1, <1>2 DEF Waited
<1>10. QED
  BY <1>1, <1>5, <1>6, <1>7, <1>8, <1>9

\* A call that has ended changes nothing, and neither does a stutter.
LEMMA Stutters == IInv /\ UNCHANGED vars => IInv'
<1> SUFFICES ASSUME IInv, UNCHANGED vars PROVE IInv'
  OBVIOUS
<1>1. /\ TypeOK' /\ Sized' /\ Started'
  BY DEF IInv, vars, call, TypeOK, Sized, Started, workers, Workers, Indices
<1>2. Owned' /\ Stages' /\ Filled' /\ Unclaimed' /\ Claimed' /\ Waited'
  BY DEF IInv, vars, call, Owned, Stages, Filled, Unclaimed, Claimed, Waited, Held,
         workers, Indices
<1>3. QED
  BY <1>1, <1>2 DEF IInv

LEMMA Keeps == IInv /\ [Next]_vars => IInv'
<1> SUFFICES ASSUME IInv, [Next]_vars PROVE IInv'
  OBVIOUS
<1>1. CASE Caller
  BY <1>1, CallStep, SerialWorkStep, CallerStep DEF Caller
<1>2. CASE \E w \in Threads : Worker(w)
  BY <1>2, ClaimStep, WorkStep, StoreStep DEF Worker
<1>3. CASE Ended \/ UNCHANGED vars
  BY <1>3, Stutters DEF Ended
<1>4. QED
  BY <1>1, <1>2, <1>3 DEF Next

\* The state keeps what the step lemmas rely on (schedule.rs, run).
THEOREM Invariance == Spec => []IInv
<1>1. QED
  BY Starts, Keeps, PTL DEF Spec

-----------------------------------------------------------------------------
(* The theorems                                                            *)

\* The state of a call of run keeps its shape.
THEOREM ScheduleTyped == Spec => []TypeOK
<1>1. IInv => TypeOK
  BY DEF IInv
<1>2. QED
  BY <1>1, Invariance, PTL

\* No item is worked on twice, however many workers claim at once.
THEOREM ItemsRunOnce == Spec => []RunOnce
<1>1. IInv => RunOnce
  <2> SUFFICES ASSUME IInv PROVE RunOnce
    OBVIOUS
  <2>1. ASSUME NEW i \in 0..ITEMS PROVE runs[i] <= 1
    <3>1. CASE i < items /\ i < next
      BY <3>1, Numbers DEF IInv, Claimed, Filled, Stages, Held, Indices
    <3>2. CASE i >= items \/ i >= next
      BY <3>2 DEF IInv, Unclaimed
    <3>3. QED
      BY <3>1, <3>2, Numbers DEF IInv, TypeOK
  <2>2. QED
    BY <2>1 DEF RunOnce, IInv, Owned, Held
<1>2. QED
  BY <1>1, Invariance, PTL

\* When the scope has joined its workers every slot is filled.
THEOREM NoIndexLost == Spec => []EveryIndexClaimed
<1>1. IInv => EveryIndexClaimed
  <2> SUFFICES ASSUME IInv, phase = "joined", NEW i \in Indices
               PROVE  slots[i].filled
    BY DEF EveryIndexClaimed
  <2>1. 1 \in Workers /\ 1 \in Threads /\ doing[1] = "ended"
    BY Numbers DEF IInv, Sized, Started, Waited, Workers
  <2>2. i < next
    BY <2>1, Numbers DEF IInv, Waited, Indices, TypeOK
  <2>3. \A w \in Threads : ~ Held(w)
    BY DEF IInv, Waited, Held
  <2>4. QED
    BY <2>2, <2>3 DEF IInv, Claimed
<1>2. QED
  BY <1>1, Invariance, PTL

\* A panic is passed on only when every worker has stopped, and leaves an item
\* unworked only when every worker panicked.
THEOREM PanicsWait == Spec => []PanicWaits
<1>1. IInv => PanicWaits
  <2> SUFFICES ASSUME IInv, phase = "panicked", workers > 1 PROVE
                 /\ \A w \in Workers : doing[w] \in {"ended", "panicked"}
                 /\ (\E w \in Workers : doing[w] = "ended") => \A i \in Indices : runs[i] = 1
    BY DEF PanicWaits
  <2>1. \A w \in Workers : doing[w] \in {"ended", "panicked"}
    BY Numbers DEF IInv, Waited, Started
  <2>2. ASSUME NEW w \in Workers, doing[w] = "ended", NEW i \in Indices PROVE runs[i] = 1
    <3>1. i < next /\ i \in 0..ITEMS
      BY <2>2, Numbers DEF IInv, Waited, Indices, TypeOK
    <3>2. CASE slots[i].filled
      BY <3>1, <3>2 DEF IInv, Filled
    <3>3. CASE \E u \in Threads : Held(u) /\ mine[u] = i
      BY <3>3 DEF IInv, Waited, Stages, Held
    <3>4. QED
      BY <3>1, <3>2, <3>3 DEF IInv, Claimed
  <2>3. QED
    BY <2>1, <2>2
<1>2. QED
  BY <1>1, Invariance, PTL

\* When the slots are taken in order, nothing panicked and each holds its own.
LEMMA SlotsInOrder ==
    ASSUME IInv, \A i \in Indices : i < next /\ slots[i].filled
    PROVE  bad = {} /\ Collected = [k \in 1..items |-> Result(k - 1)]
<1>1. \A i \in Indices : i \notin bad /\ slots[i].value = Result(i)
  BY Numbers DEF IInv, Filled
<1>2. bad = {}
  BY <1>1 DEF IInv, TypeOK
<1>3. \A k \in 1..items : k - 1 \in Indices
  BY Numbers DEF IInv, Indices
<1>4. QED
  BY <1>1, <1>2, <1>3 DEF Collected

LEMMA Quiet ==
    ASSUME UNCHANGED <<items, bad, out>>,
           phase' = phase \/ {phase, phase'} \cap {"returned", "panicked"} = {}
    PROVE  UNCHANGED Ordered!ovars
BY DEF Ordered!ovars

LEMMA Returns ==
    ASSUME UNCHANGED <<items, bad>>, phase \notin {"returned", "panicked"},
           phase' = "returned", bad = {}, out' = [k \in 1..items |-> Result(k - 1)]
    PROVE  Ordered!Return
BY DEF Ordered!Return

LEMMA Panics ==
    ASSUME UNCHANGED <<items, bad, out>>, phase \notin {"returned", "panicked"},
           phase' = "panicked", bad # {}
    PROVE  Ordered!Panic
BY DEF Ordered!Panic

\* Nothing comes back before the call does.
Unreturned == phase # "returned" => out = << >>

LEMMA NothingEarly == Spec => []Unreturned
<1>1. Init => Unreturned
  BY DEF Init, Unreturned
<1>2. Unreturned /\ [Next]_vars => Unreturned'
  BY DEF Unreturned, Next, vars, call, Caller, Call, SerialWork, SerialReturn, Join, Merge,
         Worker, Claim, Work, Store, Ended
<1>3. QED
  BY <1>1, <1>2, PTL DEF Spec

LEMMA StepsInOrder ==
    IInv /\ Unreturned /\ [Next]_vars => [Ordered!Return \/ Ordered!Panic]_(Ordered!ovars)
<1> SUFFICES ASSUME IInv, Unreturned, [Next]_vars
             PROVE  Ordered!Return \/ Ordered!Panic \/ UNCHANGED Ordered!ovars
  OBVIOUS
<1>1. CASE Call
  <2>1. CASE items = 0
    <3>1. bad = {} /\ out' = out /\ phase' = "returned" /\ phase = "called"
      BY <1>1, <2>1 DEF Call, IInv, TypeOK, Indices
    <3>2. out = [k \in 1..items |-> Result(k - 1)]
      BY <2>1, <3>1 DEF Unreturned
    <3>3. QED
      BY <1>1, <3>1, <3>2, Returns DEF Call, call
  <2>2. CASE items # 0
    BY <1>1, <2>2, Quiet DEF Call, call
  <2>3. QED
    BY <2>1, <2>2
<1>2. CASE SerialWork
  <2>1. CASE next \in bad
    BY <1>2, <2>1, Panics DEF SerialWork, call
  <2>2. CASE next \notin bad
    BY <1>2, <2>2, Quiet DEF SerialWork, call
  <2>3. QED
    BY <2>1, <2>2
<1>3. CASE SerialReturn
  <2>1. \A w \in Threads : ~ Held(w)
    BY <1>3, Numbers DEF SerialReturn, IInv, Sized, Started, Held
  <2>2. \A i \in Indices : i < next /\ slots[i].filled
    BY <1>3, <2>1, Numbers DEF SerialReturn, IInv, Claimed, Indices
  <2>3. QED
    BY <1>3, <2>2, SlotsInOrder, Returns DEF SerialReturn, call
<1>4. CASE Join
  <2>1. CASE Panicked
    <3>1. bad # {}
      BY <2>1, Numbers DEF Panicked, IInv, Stages
    <3>2. QED
      BY <1>4, <2>1, <3>1, Panics DEF Join, call
  <2>2. CASE ~ Panicked
    BY <1>4, <2>2, Quiet DEF Join, call
  <2>3. QED
    BY <2>1, <2>2
<1>5. CASE Merge
  <2>1. \A w \in Threads : ~ Held(w)
    BY <1>5 DEF Merge, IInv, Waited, Held
  <2>2. 1 \in Workers /\ 1 \in Threads /\ doing[1] = "ended"
    BY <1>5, Numbers DEF Merge, IInv, Sized, Started, Waited, Workers
  <2>3. \A i \in Indices : i < next /\ slots[i].filled
    BY <2>1, <2>2, Numbers DEF IInv, Claimed, Waited, Indices, TypeOK
  <2>4. QED
    BY <1>5, <2>3, SlotsInOrder, Returns DEF Merge, call
<1>6. CASE \E w \in Threads : Worker(w)
  BY <1>6, Quiet DEF Worker, Claim, Work, Store, call
<1>7. CASE Ended \/ UNCHANGED vars
  BY <1>7, Quiet DEF Ended, vars, call
<1>8. QED
  BY <1>1, <1>2, <1>3, <1>4, <1>5, <1>6, <1>7 DEF Next, Caller

\* run is a map over its items in input order: what it does, on however many
\* workers and in whatever order they finish, is what OrderedRun allows.
THEOREM RunIsAMap == Spec => MapsInOrder
<1>1. Init => Ordered!Init
  BY ScheduleAssumption DEF Init, Ordered!Init
<1>2. QED
  BY <1>1, StepsInOrder, Invariance, NothingEarly, PTL DEF Spec, MapsInOrder, Ordered!Spec

=============================================================================
