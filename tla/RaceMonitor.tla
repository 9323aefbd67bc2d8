------------------------------ MODULE RaceMonitor ------------------------------
(***************************************************************************)
(* The race detector of runtime/rucc-safe-rt: epoch.rs (clocks and the     *)
(* epoch plane), sync.rs (the edges a mutex, a condition variable and a    *)
(* fence carry) and the two judgements of check.rs, raced and stamped.     *)
(*                                                                         *)
(* The program is a set of threads that load and store watched words, take *)
(* and give up mutexes, wait on condition variables and execute fences in  *)
(* any order it likes, races included.  The monitor's code runs inside     *)
(* those calls one atomic access at a time.                                *)
(*                                                                         *)
(* Beside the program's and the monitor's state the module keeps what      *)
(* really happened before what (ordered, carried, fencedOrder).  No guard  *)
(* reads these: they are what the reports are judged against.              *)
(***************************************************************************)
EXTENDS EdgeTable

CONSTANTS Words,     \* watched pointer words, one granule each
          NoThread,
          NoWord,
          Continues  \* the posture: whether the program goes on after a report

ASSUME NamesAssumption ==
    NoThread \notin Threads /\ NoWord \notin Words /\ Continues \in BOOLEAN

VARIABLES
    numbers,     \* NUMBERS: the next thread number
    clock,       \* CLOCK: each thread's clock, NONE until it first asks
    plane,       \* the epoch plane: the stamp of each word
    fenced,      \* FENCED: the furthest clock a release fence was at
    holder,      \* which thread has each mutex (the C library's state)
    word,        \* the word a store has been checked for and not yet stamped
    ordered,     \* words whose remembered write happens before t's next step
    carried,     \* words whose remembered write happens before a mutex's next lock
    fencedOrder, \* words whose remembered write happens before the next acquire fence
    reports      \* what J9 reported

monitorVars == <<numbers, clock, plane, fenced>>
truth == <<ordered, carried, fencedOrder>>
vars == <<cells, pc, about, step, held,
          numbers, clock, plane, fenced, holder, word,
          ordered, carried, fencedOrder, reports>>

\* A report says which word, whether the write it names really was ordered
\* before the access, and whether the accessing thread's clock had stopped.
Report == [word : Words, ordered : BOOLEAN, stopped : BOOLEAN]

Init ==
    /\ TableInit
    /\ pc = [t \in Threads |-> "run"]
    /\ numbers = 1
    /\ clock = [t \in Threads |-> NONE]
    /\ plane = [w \in Words |-> NONE]
    /\ fenced = 0
    /\ holder = [m \in Keys |-> NoThread]
    /\ word = [t \in Threads |-> NoWord]
    /\ ordered = [t \in Threads |-> Words]
    /\ carried = [m \in Keys |-> {}]
    /\ fencedOrder = {}
    /\ reports = {}

\* Under the abort posture the first report is the end of the process.
Ended == reports # {} /\ ~ Continues

-----------------------------------------------------------------------------
(* A thread's own clock                                                    *)

\* mine(): the clock this thread has, or a fresh one with the next number.
\* Threads past the last number all share it.
Mine(t) == IF clock[t] = NONE THEN NewClock(numbers) ELSE clock[t]

\* A slip: Threads::next without putting the counter back at its end.
KeepCounting(t, mine) ==
    /\ clock' = [clock EXCEPT ![t] = mine]
    /\ numbers' = IF clock[t] # NONE THEN numbers ELSE numbers + 1

\* keep(): write the thread's clock back, and with it the number it took.
Keep(t, mine) ==
    /\ clock' = [clock EXCEPT ![t] = mine]
    /\ numbers' = IF clock[t] # NONE THEN numbers
                  ELSE IF numbers > THREADS THEN THREADS + 1 ELSE numbers + 1

\* epoch::here() keeps what it found and answers it.
Here(t) == Keep(t, Mine(t))

-----------------------------------------------------------------------------
(* The judgements                                                          *)

\* check::raced over one word.
Raced(t, w) ==
    /\ Here(t)
    /\ reports' = IF unordered(plane[w], Mine(t))
                    THEN reports \cup {[word |-> w, ordered |-> w \in ordered[t],
                                        stopped |-> Stopped(Mine(t))]}
                    ELSE reports

\* A load of a watched word asks.
Load(t, w) ==
    /\ ~ Ended
    /\ pc[t] = "run"
    /\ Raced(t, w)
    /\ UNCHANGED <<tableVars, plane, fenced, holder, word, truth>>

\* A store asks first, because stamping overwrites what is asked about.
Store(t, w) ==
    /\ ~ Ended
    /\ pc[t] = "run"
    /\ Raced(t, w)
    /\ pc' = [pc EXCEPT ![t] = "stamp"]
    /\ word' = [word EXCEPT ![t] = w]
    /\ UNCHANGED <<cells, about, step, held, plane, fenced, holder, truth>>

\* check::stamped: count the store and leave its stamp, unless the clock has
\* stopped.  The write it records is the thread's own and nobody else's.
Stamped(t) ==
    /\ ~ Ended
    /\ pc[t] = "stamp"
    /\ Keep(t, Ticked(Mine(t)))
    /\ IF Stopped(Mine(t))
         THEN UNCHANGED <<plane, truth>>
         ELSE /\ plane' = [plane EXCEPT ![word[t]] = tick(Mine(t))]
              /\ ordered' = [u \in Threads |->
                               IF u = t THEN ordered[u] \cup {word[t]}
                                        ELSE ordered[u] \ {word[t]}]
              /\ carried' = [m \in Keys |-> carried[m] \ {word[t]}]
              /\ fencedOrder' = fencedOrder \ {word[t]}
    /\ pc' = [pc EXCEPT ![t] = "run"]
    /\ word' = [word EXCEPT ![t] = NoWord]
    /\ UNCHANGED <<cells, about, step, held, fenced, holder, reports>>

-----------------------------------------------------------------------------
(* The rows of the interposition table                                     *)

\* The C library gives t the mutex; acquired() starts its walk.
Take(t, m) ==
    /\ ~ Ended
    /\ holder[m] = NoThread
    /\ holder' = [holder EXCEPT ![m] = t]
    /\ ordered' = [ordered EXCEPT ![t] = @ \cup carried[m]]
    /\ BeginLookup(t, m)
    /\ UNCHANGED <<monitorVars, word, carried, fencedOrder, reports>>

\* pthread_mutex_lock, and a pthread_mutex_trylock that got the lock.
Lock(t, m) == pc[t] = "run" /\ Take(t, m)

\* A pthread_mutex_trylock that came back EBUSY takes no edge at all.
TryLockBusy(t, m) ==
    /\ ~ Ended
    /\ pc[t] = "run"
    /\ holder[m] # NoThread
    /\ UNCHANGED vars

\* A slip: the lock is taken and its edge is not.
AcquiredNothing(t) ==
    /\ ~ Ended
    /\ pc[t] = "looked_up"
    /\ Here(t)
    /\ pc' = [pc EXCEPT ![t] = "run"]
    /\ EndWalk(t)
    /\ UNCHANGED <<cells, plane, fenced, holder, word, truth, reports>>

\* The end of acquired(): epoch::sync with what the walk found.
Acquired(t) ==
    /\ ~ Ended
    /\ pc[t] = "looked_up"
    /\ Keep(t, Synced(Mine(t), held[t]))
    /\ pc' = [pc EXCEPT ![t] = "run"]
    /\ EndWalk(t)
    /\ UNCHANGED <<cells, plane, fenced, holder, word, truth, reports>>

\* released(), from pthread_mutex_unlock or from a wait on a condition
\* variable: publish before the lock is really given up.
Released(t, m) ==
    /\ ~ Ended
    /\ pc[t] = "run"
    /\ holder[m] = t
    /\ Here(t)
    /\ BeginPublish(t, m, Mine(t))
    /\ UNCHANGED <<plane, fenced, holder, word, truth, reports>>

\* The C library takes the mutex back.
GiveUp(t) ==
    /\ ~ Ended
    /\ pc[t] = "published"
    /\ holder' = [holder EXCEPT ![about[t]] = NoThread]
    /\ carried' = [carried EXCEPT ![about[t]] = @ \cup ordered[t]]
    /\ UNCHANGED <<cells, monitorVars, word, ordered, fencedOrder, reports>>

\* pthread_mutex_unlock returns.
Unlock(t) ==
    /\ GiveUp(t)
    /\ EndWalk(t)
    /\ pc' = [pc EXCEPT ![t] = "run"]

\* pthread_cond_wait (and timedwait) gives the mutex up and sleeps.
CondSleep(t) ==
    /\ GiveUp(t)
    /\ pc' = [pc EXCEPT ![t] = "asleep"]
    /\ UNCHANGED <<about, step, held>>

\* The wait comes back, signalled, timed out or spuriously, with the mutex
\* held again; the edge is taken however it came back.
CondWake(t) == pc[t] = "asleep" /\ Take(t, about[t])

\* published_everywhere(), then the release fence.
FenceRelease(t) ==
    /\ ~ Ended
    /\ pc[t] = "run"
    /\ Here(t)
    /\ fenced' = IF Mine(t).clock > fenced THEN Mine(t).clock ELSE fenced
    /\ fencedOrder' = fencedOrder \cup ordered[t]
    /\ UNCHANGED <<tableVars, plane, holder, word, ordered, carried, reports>>

\* The acquire fence, then taken_everywhere().
FenceAcquire(t) ==
    /\ ~ Ended
    /\ pc[t] = "run"
    /\ IF fenced = 0 THEN UNCHANGED <<clock, numbers>>
                     ELSE Keep(t, Synced(Mine(t), stamp(0, fenced)))
    /\ ordered' = [ordered EXCEPT ![t] = @ \cup fencedOrder]
    /\ UNCHANGED <<tableVars, plane, fenced, holder, word,
                   carried, fencedOrder, reports>>

\* One atomic access of a walk.
Walk(t) ==
    /\ ~ Ended
    /\ TableStep(t)
    /\ UNCHANGED <<monitorVars, holder, word, truth, reports>>

ThreadStep(t) ==
    \/ \E w \in Words : Load(t, w) \/ Store(t, w)
    \/ Stamped(t)
    \/ \E m \in Keys : Lock(t, m) \/ TryLockBusy(t, m) \/ Released(t, m)
    \/ Acquired(t) \/ Unlock(t) \/ CondSleep(t) \/ CondWake(t)
    \/ FenceRelease(t) \/ FenceAcquire(t)
    \/ Walk(t)

Next ==
    \/ \E t \in Threads : ThreadStep(t)
    \/ Ended /\ UNCHANGED vars

Spec == Init /\ [][Next]_vars

-----------------------------------------------------------------------------

PCs == {"run", "stamp", "published", "looked_up", "asleep"} \cup PublishPCs \cup LookupPCs

\* The shape of the state, with what a program counter says about the
\* registers that go with it.
TypeOK ==
    /\ TableTypeOK
    /\ pc \in [Threads -> PCs]
    /\ \A t \in Threads : pc[t] \in {"published", "looked_up", "asleep"} => about[t] \in Keys
    /\ numbers \in 1..THREADS + 1
    /\ clock \in [Threads -> Stamp]
    /\ plane \in [Words -> Stamp]
    /\ fenced \in 0..CLOCKS
    /\ holder \in [Keys -> Threads \cup {NoThread}]
    /\ word \in [Threads -> Words \cup {NoWord}]
    /\ \A t \in Threads : pc[t] = "stamp" => word[t] \in Words
    /\ ordered \in [Threads -> SUBSET Words]
    /\ carried \in [Keys -> SUBSET Words]
    /\ fencedOrder \subseteq Words
    /\ reports \subseteq Report

\* No false positives (epoch.rs, "What this detector is"): J9 never reports a
\* write that a chain of locks, waits and fences puts before the access, as
\* long as the accessing thread's clock has not reached the end of its range.
NoFalseReport == \A r \in reports : r.ordered => r.stopped

\* The same without the reservation, which is what the comment on Clock::tick
\* promises: a clock that stops loses reports and invents none.
NoFalseReportEver == \A r \in reports : ~ r.ordered

\* What a key publishes never goes back (Table::publish): while a cell belongs
\* to a key its clock only advances, so that an edge taken late is never
\* weaker than the one taken early.
PublicationsAdvance ==
    [][\A c \in Cells : cells[c].key # NoKey /\ cells'[c].key = cells[c].key
                          => cells'[c].stamp.clock >= cells[c].stamp.clock]_vars

=============================================================================
