-------------------------------- MODULE Births --------------------------------
(***************************************************************************)
(* The edges of runtime/rucc-safe-rt/src/sync.rs that a thread's creation  *)
(* and its join carry: the birth slots, the trampoline born, and the table *)
(* EXITED of finished threads' clocks.                                     *)
(*                                                                         *)
(* EXITED is the same code as the table of locks and shares no cell with   *)
(* it, so that here the cells of EdgeTable are EXITED and its keys are     *)
(* thread identifiers.  An identifier is the C library's, and it names     *)
(* another thread once the one it named has been joined.                   *)
(***************************************************************************)
EXTENDS RaceMonitor

CONSTANTS Main,      \* the thread the process starts with
          Spawners,  \* the threads the program creates and joins others from
          Writers,   \* the threads that store
          Quits,     \* whether the program uses pthread_exit
          Fails,     \* whether the C library may fail to make a thread
          Gaps,      \* whether to ask about the whole ordering of the program, or only
                     \* about what is left without the cases sync.rs calls harmless
          BIRTHS,    \* how many threads may be starting at once, 64 in the code
          NoSlot

ASSUME BirthsAssumption ==
    /\ Main \in Spawners
    /\ Spawners \subseteq Threads
    /\ Writers \subseteq Threads
    /\ Quits \in BOOLEAN /\ Fails \in BOOLEAN /\ Gaps \in BOOLEAN
    /\ BIRTHS \in Nat \ {0}
    /\ NoSlot \notin 0..BIRTHS - 1

VARIABLES
    slots,     \* BEING_BORN
    slotOf,    \* the slot a creator has claimed, or a new thread was handed
    child,     \* the thread a creator is making
    name,      \* the identifier each thread answers to
    life       \* "unborn", "alive", "bare" (alive, but not through born),
               \* "ended" or "joined"

birthVars == <<slots, slotOf, child, name, life>>
raceVars == <<numbers, clock, plane, fenced, holder, word,
              ordered, carried, fencedOrder, reports>>
allVars == <<vars, birthVars>>

Slots == 0..BIRTHS - 1
EmptySlot == [state |-> "EMPTY", start |-> NoThread, stamp |-> NONE]

\* The state of a slot, the thread its start routine and argument make, and
\* the creator's clock.
Slot == [state : {"EMPTY", "FILLING", "READY"},
         start : Threads \cup {NoThread},
         stamp : Stamp]

\* An identifier is free again when its thread has been joined.
InUse == {name[u] : u \in {v \in Threads : life[v] \in {"alive", "bare", "ended"}}}

BirthsInit ==
    /\ Init
    /\ slots = [s \in Slots |-> EmptySlot]
    /\ slotOf = [t \in Threads |-> NoSlot]
    /\ child = [t \in Threads |-> NoThread]
    /\ life = [t \in Threads |-> IF t = Main THEN "alive" ELSE "unborn"]
    /\ \E k \in Keys : name = [t \in Threads |-> IF t = Main THEN k ELSE NoKey]

Running(t) == ~ Ended /\ life[t] \in {"alive", "bare"} /\ pc[t] = "run"
At(t, here) == ~ Ended /\ pc[t] = here
Goto(t, there) == pc' = [pc EXCEPT ![t] = there]

-----------------------------------------------------------------------------
(* pthread_create                                                          *)

\* The row reads the creator's clock and starts along the slots.
Create(t, u) ==
    /\ Running(t)
    /\ t \in Spawners
    /\ life[u] = "unborn"
    /\ \A v \in Threads : child[v] # u
    /\ Here(t)
    /\ held' = [held EXCEPT ![t] = Mine(t)]
    /\ child' = [child EXCEPT ![t] = u]
    /\ Goto(t, "claim")
    /\ step' = [step EXCEPT ![t] = 0]
    /\ UNCHANGED <<cells, about, plane, fenced, holder, word, truth, reports,
                   slots, slotOf, name, life>>

\* A slip: a load and a store where the claim is one compare exchange, so
\* that a slot still being filled in is taken as well.
ClaimUnready(t) ==
    /\ At(t, "claim")
    /\ slots[step[t]].state # "READY"
    /\ slots' = [slots EXCEPT ![step[t]].state = "FILLING"]
    /\ slotOf' = [slotOf EXCEPT ![t] = step[t]]
    /\ Goto(t, "fill")
    /\ step' = [step EXCEPT ![t] = 0]
    /\ UNCHANGED <<cells, about, held, raceVars, child, name, life>>

\* claim(): one compare exchange, of the next slot along.
Claim(t) ==
    /\ At(t, "claim")
    /\ LET s == step[t] IN
       \/ /\ slots[s].state = "EMPTY"
          /\ slots' = [slots EXCEPT ![s].state = "FILLING"]
          /\ slotOf' = [slotOf EXCEPT ![t] = s]
          /\ Goto(t, "fill")
          /\ step' = [step EXCEPT ![t] = 0]
       \/ /\ slots[s].state # "EMPTY"
          /\ step' = [step EXCEPT ![t] = IF s + 1 < BIRTHS THEN s + 1 ELSE 0]
          /\ Goto(t, IF s + 1 < BIRTHS THEN "claim" ELSE "create_bare")
          /\ UNCHANGED <<slots, slotOf>>
    /\ UNCHANGED <<cells, about, held, raceVars, child, name, life>>

\* The words of a claimed slot, and READY.
Fill(t) ==
    /\ At(t, "fill")
    /\ slots' = [slots EXCEPT ![slotOf[t]] =
                   [state |-> "READY", start |-> child[t], stamp |-> held[t]]]
    /\ Goto(t, "create")
    /\ UNCHANGED <<cells, about, step, held, raceVars, slotOf, child, name, life>>

\* It fails when the C library has no identifier left, if nothing else.
MayFail == Fails \/ Keys \subseteq InUse

\* The identifiers joins are still looking up.
LookedUp == {about[v] : v \in {w \in Threads : pc[w] \in LookupPCs}}

\* The real pthread_create makes u, which is from then on ordered behind what
\* its creator has done.  It may give u the identifier of a thread whose join
\* has come back and has not looked that identifier up yet.
Made(t, u, k, how) ==
    /\ k \in Keys \ InUse
    /\ Gaps \/ k \notin LookedUp
    /\ name' = [name EXCEPT ![u] = k]
    /\ life' = [life EXCEPT ![u] = how]
    /\ child' = [child EXCEPT ![t] = NoThread]

\* It starts the new thread in born and hands it the slot.
CreateBorn(t) ==
    /\ At(t, "create")
    /\ LET u == child[t] IN
       /\ \E k \in Keys : Made(t, u, k, "alive")
       /\ slotOf' = [slotOf EXCEPT ![t] = NoSlot, ![u] = slotOf[t]]
       /\ pc' = [pc EXCEPT ![t] = "run", ![u] = "born"]
       /\ ordered' = [ordered EXCEPT ![u] = ordered[t]]
    /\ held' = [held EXCEPT ![t] = NONE]
    /\ UNCHANGED <<cells, about, step, monitorVars, holder, word,
                   carried, fencedOrder, reports, slots>>

\* A slip: a create that failed keeps its slot.
CreateFailedLeaks(t) ==
    /\ At(t, "create")
    /\ MayFail
    /\ slotOf' = [slotOf EXCEPT ![t] = NoSlot]
    /\ child' = [child EXCEPT ![t] = NoThread]
    /\ held' = [held EXCEPT ![t] = NONE]
    /\ Goto(t, "run")
    /\ UNCHANGED <<cells, about, step, raceVars, slots, name, life>>

\* It fails, and the slot is handed back.
CreateFailed(t) ==
    /\ At(t, "create")
    /\ MayFail
    /\ slots' = [slots EXCEPT ![slotOf[t]].state = "EMPTY"]
    /\ slotOf' = [slotOf EXCEPT ![t] = NoSlot]
    /\ child' = [child EXCEPT ![t] = NoThread]
    /\ held' = [held EXCEPT ![t] = NONE]
    /\ Goto(t, "run")
    /\ UNCHANGED <<cells, about, step, raceVars, name, life>>

\* No slot was free: the thread the program asked for, with no edge on it.
CreateBare(t) ==
    /\ At(t, "create_bare")
    /\ LET u == child[t] IN
       /\ \E k \in Keys : Made(t, u, k, "bare")
       /\ Goto(t, "run")
       /\ ordered' = [ordered EXCEPT ![u] = IF Gaps THEN ordered[t] ELSE {}]
    /\ held' = [held EXCEPT ![t] = NONE]
    /\ UNCHANGED <<cells, about, step, monitorVars, holder, word,
                   carried, fencedOrder, reports, slots, slotOf>>

\* Or no thread at all.
CreateBareFailed(t) ==
    /\ At(t, "create_bare")
    /\ MayFail
    /\ child' = [child EXCEPT ![t] = NoThread]
    /\ held' = [held EXCEPT ![t] = NONE]
    /\ Goto(t, "run")
    /\ UNCHANGED <<cells, about, step, raceVars, slots, slotOf, name, life>>

-----------------------------------------------------------------------------
(* born                                                                    *)

\* The load that finds READY, and the words beside it.
BornRead(t) ==
    /\ At(t, "born")
    /\ slots[slotOf[t]].state = "READY"
    /\ held' = [held EXCEPT ![t] = slots[slotOf[t]].stamp]
    /\ child' = [child EXCEPT ![t] = slots[slotOf[t]].start]
    /\ Goto(t, "born_free")
    /\ UNCHANGED <<cells, about, step, raceVars, slots, slotOf, name, life>>

\* The slot is given back.
BornFree(t) ==
    /\ At(t, "born_free")
    /\ slots' = [slots EXCEPT ![slotOf[t]].state = "EMPTY"]
    /\ slotOf' = [slotOf EXCEPT ![t] = NoSlot]
    /\ Goto(t, "born_sync")
    /\ UNCHANGED <<cells, about, step, held, raceVars, child, name, life>>

\* A slip: the program's start routine is entered with the edge not taken.
BornStartBehind(t) ==
    /\ At(t, "born_sync")
    /\ Here(t)
    /\ Goto(t, "run")
    /\ held' = [held EXCEPT ![t] = NONE]
    /\ child' = [child EXCEPT ![t] = NoThread]
    /\ UNCHANGED <<cells, about, step, plane, fenced, holder, word, truth, reports,
                   slots, slotOf, name, life>>

\* The creator's clock is taken and the program's start routine entered.
BornStart(t) ==
    /\ At(t, "born_sync")
    /\ Keep(t, Synced(Mine(t), held[t]))
    /\ Goto(t, "run")
    /\ held' = [held EXCEPT ![t] = NONE]
    /\ child' = [child EXCEPT ![t] = NoThread]
    /\ UNCHANGED <<cells, about, step, plane, fenced, holder, word, truth, reports,
                   slots, slotOf, name, life>>

-----------------------------------------------------------------------------
(* The end of a thread, and its join                                       *)

\* exited(): the start routine has returned into born.  The main thread's
\* return ends the process and is left out.
Exited(t) ==
    /\ Running(t)
    /\ t # Main
    /\ life[t] = "alive"
    /\ Here(t)
    /\ BeginPublish(t, name[t], Mine(t))
    /\ UNCHANGED <<plane, fenced, holder, word, truth, reports, birthVars>>

\* born returns, and the thread is over.
End(t) ==
    /\ At(t, "published")
    /\ life' = [life EXCEPT ![t] = "ended"]
    /\ EndWalk(t)
    /\ Goto(t, "run")
    /\ UNCHANGED <<cells, raceVars, slots, slotOf, child, name>>

\* pthread_exit, and the return of a thread that born did not start: nothing
\* is published.
EndUnpublished(t) ==
    /\ Running(t)
    /\ t # Main
    /\ Quits \/ life[t] = "bare"
    /\ life' = [life EXCEPT ![t] = "ended"]
    /\ ordered' = [ordered EXCEPT ![t] = IF Gaps THEN @ ELSE {}]
    /\ UNCHANGED <<tableVars, monitorVars, holder, word, carried, fencedOrder,
                   reports, slots, slotOf, child, name>>

\* The real pthread_join comes back, its thread's identifier is the C
\* library's to use again, and joined() starts its walk.
Join(t, u) ==
    /\ Running(t)
    /\ t \in Spawners
    /\ life[u] = "ended"
    /\ life' = [life EXCEPT ![u] = "joined"]
    /\ ordered' = [ordered EXCEPT ![t] = @ \cup ordered[u], ![u] = {}]
    /\ BeginLookup(t, name[u])
    /\ UNCHANGED <<monitorVars, holder, word, carried, fencedOrder, reports,
                   slots, slotOf, child, name>>

\* The end of joined() is the end of acquired(): Acquired.

-----------------------------------------------------------------------------

\* What a thread's program does.
Program(t) ==
    \/ /\ Running(t)
       /\ \E w \in Words : Load(t, w) \/ (t \in Writers /\ Store(t, w))
       /\ UNCHANGED birthVars
    \/ Exited(t) \/ EndUnpublished(t)
    \/ \E u \in Threads : Create(t, u) \/ Join(t, u)

\* What is under way inside the monitor and the C library.
Inside(t) ==
    \/ (Stamped(t) \/ Acquired(t) \/ Walk(t)) /\ UNCHANGED birthVars
    \/ Claim(t) \/ Fill(t)
    \/ CreateBorn(t) \/ CreateFailed(t) \/ CreateBare(t) \/ CreateBareFailed(t)
    \/ BornRead(t) \/ BornFree(t) \/ BornStart(t)
    \/ End(t)

BirthsNext ==
    \/ \E t \in Threads : Program(t) \/ Inside(t)
    \/ Ended /\ UNCHANGED allVars

BirthsSpec == BirthsInit /\ [][BirthsNext]_allVars

-----------------------------------------------------------------------------

\* Who is between claiming a slot and giving it back.
Holding(t) == slotOf[t] # NoSlot

\* The shape of the state, with what a program counter says about the slot and
\* the thread that go with it.
BirthsTypeOK ==
    /\ slots \in [Slots -> Slot]
    /\ slotOf \in [Threads -> Slots \cup {NoSlot}]
    /\ child \in [Threads -> Threads \cup {NoThread}]
    /\ name \in [Threads -> Keys \cup {NoKey}]
    /\ life \in [Threads -> {"unborn", "alive", "bare", "ended", "joined"}]
    /\ \A t \in Threads :
        /\ pc[t] = "claim" => step[t] \in Slots
        /\ pc[t] \in {"fill", "create", "born", "born_free"} <=> slotOf[t] \in Slots
        /\ pc[t] \in {"claim", "fill", "create", "create_bare"} => child[t] \in Threads
    /\ reports \subseteq Report

\* Birth slots are never leaked and never shared (claim, born, and the create
\* that fails): a slot is in use exactly while one creator or one new thread
\* is between claiming it and giving it back.
SlotsAccounted ==
    /\ BirthsTypeOK
    /\ \A s \in Slots : slots[s].state # "EMPTY" <=> \E t \in Threads : slotOf[t] = s
    /\ \A t, u \in Threads : Holding(t) /\ slotOf[t] = slotOf[u] => t = u

\* A new thread finds its slot READY at its first look and runs the routine it
\* was made for (the comment in born: the loop never has to wait).
BornAsAsked ==
    \A t \in Threads :
        /\ pc[t] = "born" => slots[slotOf[t]].state = "READY"
        /\ pc[t] \in {"born_free", "born_sync"} => child[t] = t

=============================================================================
