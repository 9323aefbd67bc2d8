------------------------------ MODULE SharedEdges ------------------------------
(***************************************************************************)
(* The edges of runtime/rucc-safe-rt/src/sync.rs under keys that more than *)
(* one thread may publish under at once: read-write locks, semaphores, and *)
(* the C11 atomics whose edges the compiler emits (__rucc_meta_release and *)
(* __rucc_meta_acquire).  They go into the table of the mutexes with the   *)
(* mutexes' code, published before the real call and looked up after it,   *)
(* and a publication is a plain store: nothing keeps a thread that is      *)
(* behind from pulling a key's clock back.                                 *)
(***************************************************************************)
EXTENDS RaceMonitor

CONSTANTS RWLocks, Semaphores, Atomics,
          OBJECTS, \* how many of them one program uses (a bound)
          POSTS,   \* the largest value of a semaphore
          Whole    \* whether to ask about the whole ordering of the program, or
                   \* only about the part that keys with one publisher at a
                   \* time carry

ASSUME SharedAssumption ==
    /\ Keys = RWLocks \cup Semaphores \cup Atomics
    /\ RWLocks \cap Semaphores = {} /\ RWLocks \cap Atomics = {}
    /\ Semaphores \cap Atomics = {}
    /\ POSTS \in Nat \ {0} /\ OBJECTS \in Nat \ {0}
    /\ Whole \in BOOLEAN

VARIABLES
    uses,      \* the objects the program synchronizes through
    readers,   \* who holds each lock for reading (the C library's state)
    value,     \* the value of each semaphore (the C library's state)
    readCarried, \* as carried, for a lock's next writer alone
    owner      \* the only thread that signals through a semaphore or an atomic,
               \* once one has; unused when the whole ordering is asked about

sharedVars == <<uses, readers, value, readCarried, owner>>
edgeVars == <<vars, sharedVars>>

SharedInit ==
    /\ Init
    /\ uses \in {ks \in SUBSET Keys : Cardinality(ks) \in 1..OBJECTS}
    /\ readers = [k \in RWLocks |-> {}]
    /\ value = [k \in Semaphores |-> 0]
    /\ readCarried = [k \in RWLocks |-> {}]
    /\ owner = [k \in Semaphores \cup Atomics |-> NoThread]

Idle(t) == ~ Ended /\ pc[t] = "run"

\* A release has published and its real call is next.
Publishes(t, kind) == ~ Ended /\ pc[t] = "published" /\ about[t] \in kind

Returns(t) ==
    /\ EndWalk(t)
    /\ pc' = [pc EXCEPT ![t] = "run"]

\* t takes an ordering from k's real call, and the monitor starts looking up
\* what k has published.
Acquires(t, k, ordering) ==
    /\ ordered' = [ordered EXCEPT ![t] = @ \cup ordering]
    /\ BeginLookup(t, k)
    /\ UNCHANGED <<monitorVars, word, carried, fencedOrder, reports>>

\* released(k): the walk that ends at "published".
Releases(t, k) ==
    /\ Here(t)
    /\ BeginPublish(t, k, Mine(t))
    /\ UNCHANGED <<plane, fenced, holder, word, truth, reports>>

-----------------------------------------------------------------------------
(* Read-write locks                                                        *)

\* pthread_rwlock_wrlock, or a trywrlock that got the lock.
WrLock(t, k) ==
    /\ Idle(t)
    /\ k \in RWLocks
    /\ holder[k] = NoThread /\ readers[k] = {}
    /\ holder' = [holder EXCEPT ![k] = t]
    /\ Acquires(t, k, carried[k] \cup readCarried[k])
    /\ UNCHANGED sharedVars

\* pthread_rwlock_rdlock, or a tryrdlock that got it.
RdLock(t, k) ==
    /\ Idle(t)
    /\ k \in RWLocks
    /\ holder[k] = NoThread /\ t \notin readers[k]
    /\ readers' = [readers EXCEPT ![k] = @ \cup {t}]
    /\ Acquires(t, k, carried[k])
    /\ UNCHANGED <<uses, holder, value, readCarried, owner>>

\* pthread_rwlock_unlock publishes whichever of the two was held.
RwReleased(t, k) ==
    /\ Idle(t)
    /\ k \in RWLocks
    /\ holder[k] = t \/ t \in readers[k]
    /\ Releases(t, k)
    /\ UNCHANGED sharedVars

\* The real unlock of a writer.  A reader that takes the lock next is ordered
\* behind it, and so is a writer.
WrUnlock(t) ==
    /\ Publishes(t, RWLocks)
    /\ holder[about[t]] = t
    /\ holder' = [holder EXCEPT ![about[t]] = NoThread]
    /\ carried' = [carried EXCEPT ![about[t]] = @ \cup ordered[t]]
    /\ Returns(t)
    /\ UNCHANGED <<cells, monitorVars, word, ordered, fencedOrder, reports, sharedVars>>

\* The real unlock of a reader, which orders the next writer behind it and
\* nobody else.
RdUnlock(t) ==
    /\ Publishes(t, RWLocks)
    /\ t \in readers[about[t]]
    /\ readers' = [readers EXCEPT ![about[t]] = @ \ {t}]
    /\ readCarried' = [readCarried EXCEPT ![about[t]] =
                         IF Whole THEN @ \cup ordered[t] ELSE @]
    /\ Returns(t)
    /\ UNCHANGED <<cells, monitorVars, holder, word, truth, reports,
                   uses, value, owner>>

-----------------------------------------------------------------------------
(* Semaphores and atomics                                                  *)

\* sem_post, and an atomic with release ordering, publish first.
Signals(t, k) ==
    /\ Idle(t)
    /\ k \in Semaphores \cup Atomics
    /\ Whole \/ owner[k] \in {NoThread, t}
    /\ owner' = [owner EXCEPT ![k] = IF Whole THEN @ ELSE t]
    /\ Releases(t, k)
    /\ UNCHANGED <<uses, readers, value, readCarried>>

\* The real sem_post, which at the largest value fails.
SemPost(t) ==
    /\ Publishes(t, Semaphores)
    /\ LET k == about[t] IN
       IF value[k] < POSTS
         THEN /\ value' = [value EXCEPT ![k] = @ + 1]
              /\ carried' = [carried EXCEPT ![k] = @ \cup ordered[t]]
         ELSE UNCHANGED <<value, carried>>
    /\ Returns(t)
    /\ UNCHANGED <<cells, monitorVars, holder, word, ordered, fencedOrder, reports,
                   uses, readers, readCarried, owner>>

\* A slip: the row of sem_wait takes no edge.
SemWaitBare(t, k) ==
    /\ Idle(t)
    /\ k \in Semaphores
    /\ value[k] > 0
    /\ value' = [value EXCEPT ![k] = @ - 1]
    /\ ordered' = [ordered EXCEPT ![t] = @ \cup IF value[k] = 1 THEN carried[k] ELSE {}]
    /\ UNCHANGED <<tableVars, monitorVars, word, carried, fencedOrder, reports,
                   uses, holder, readers, readCarried, owner>>

\* sem_wait, and a sem_trywait that found something to take.  It is ordered
\* behind every post when it takes the last of them.  (A try that found
\* nothing, of a semaphore or of a lock, changes nothing.)
SemWait(t, k) ==
    /\ Idle(t)
    /\ k \in Semaphores
    /\ value[k] > 0
    /\ value' = [value EXCEPT ![k] = @ - 1]
    /\ Acquires(t, k, IF value[k] = 1 THEN carried[k] ELSE {})
    /\ UNCHANGED <<uses, holder, readers, readCarried, owner>>

\* The atomic store after its release: whoever reads it is ordered behind it.
AtomicStore(t) ==
    /\ Publishes(t, Atomics)
    /\ carried' = [carried EXCEPT ![about[t]] = ordered[t]]
    /\ Returns(t)
    /\ UNCHANGED <<cells, monitorVars, holder, word, ordered, fencedOrder, reports, sharedVars>>

\* The same of a read-modify-write, which reads what it replaces as well and
\* takes the edge after it.
AtomicUpdate(t) ==
    /\ Publishes(t, Atomics)
    /\ LET k == about[t] IN
       /\ carried' = [carried EXCEPT ![k] = @ \cup ordered[t]]
       /\ ordered' = [ordered EXCEPT ![t] = @ \cup carried[k]]
       /\ BeginLookup(t, k)
    /\ UNCHANGED <<monitorVars, holder, word, fencedOrder, reports, sharedVars>>

\* An atomic load with acquire ordering.
AtomicLoad(t, k) ==
    /\ Idle(t)
    /\ k \in Atomics
    /\ Acquires(t, k, carried[k])
    /\ UNCHANGED <<holder, sharedVars>>

-----------------------------------------------------------------------------

\* A store of a watched word, after which nothing carries the write it hid.
SharedStamped(t) ==
    /\ Stamped(t)
    /\ readCarried' = IF Stopped(Mine(t)) THEN readCarried
                      ELSE [k \in RWLocks |-> readCarried[k] \ {word[t]}]
    /\ UNCHANGED <<uses, readers, value, owner>>

SharedStep(t) ==
    \/ \E w \in Words : (Load(t, w) \/ Store(t, w)) /\ UNCHANGED sharedVars
    \/ SharedStamped(t)
    \/ (Walk(t) \/ Acquired(t)) /\ UNCHANGED sharedVars
    \/ \E k \in uses : WrLock(t, k) \/ RdLock(t, k) \/ RwReleased(t, k)
    \/ WrUnlock(t) \/ RdUnlock(t)
    \/ \E k \in uses : Signals(t, k) \/ SemWait(t, k) \/ AtomicLoad(t, k)
    \/ SemPost(t) \/ AtomicStore(t) \/ AtomicUpdate(t)

SharedNext ==
    \/ \E t \in Threads : SharedStep(t)
    \/ Ended /\ UNCHANGED edgeVars

SharedSpec == SharedInit /\ [][SharedNext]_edgeVars

-----------------------------------------------------------------------------

\* The shape of the state, and that a lock is held the way a lock is.
SharedTypeOK ==
    /\ TypeOK
    /\ uses \subseteq Keys
    /\ readers \in [RWLocks -> SUBSET Threads]
    /\ value \in [Semaphores -> 0..POSTS]
    /\ readCarried \in [RWLocks -> SUBSET Words]
    /\ owner \in [Semaphores \cup Atomics -> Threads \cup {NoThread}]

\* What the last of several publishers leaves under a key covers everything
\* the key's real calls carry (Table::publish being a plain store): what
\* write locks and single signallers hand on is never pulled back, by a reader
\* that is behind or by a walk that lost its cell.
HandedOnIsCovered == SharedTypeOK /\
    \A k \in Keys : \A w \in carried[k] :
        \/ plane[w] = NONE
        \/ \E s \in Steps :
             /\ cells[cell(k, s)].key = k
             /\ \A r \in 0..s - 1 : cells[cell(k, r)].key \notin {k, NoKey}
             /\ plane[w].clock <= cells[cell(k, s)].stamp.clock

=============================================================================
