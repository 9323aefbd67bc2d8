------------------------------- MODULE EdgeTable -------------------------------
(***************************************************************************)
(* The fixed table of published clocks of runtime/rucc-safe-rt/src/sync.rs *)
(* (struct Table), at the grain of its atomic accesses.                    *)
(*                                                                         *)
(* Cells are open addressed, taken and never given back.  A publisher or a *)
(* reader walks at most PROBES cells from its key's home, one relaxed      *)
(* load, compare exchange or store at a time, so that walks of several     *)
(* threads interleave between any two of them.                             *)
(*                                                                         *)
(* This module holds the table and the two walks.  Whoever extends it says *)
(* who starts a walk and what happens with the answer.                     *)
(***************************************************************************)
EXTENDS EpochClock, FiniteSets

CONSTANTS Threads,   \* the threads of the program
          Keys,      \* the lock addresses (or thread identifiers) in use
          NoKey,     \* a cell nobody has taken
          EDGES,     \* the cells of the table
          PROBES,    \* how far a walk goes
          Home       \* where a key's run starts, a function on Keys

ASSUME TableAssumption ==
    /\ EDGES \in Nat \ {0}
    /\ PROBES \in 1..EDGES
    /\ NoKey \notin Keys
    /\ Home \in [Keys -> 0..EDGES - 1]

VARIABLES
    cells,   \* the table: a key and a stamp in each cell
    pc,      \* where each thread is in the monitor's own code
    about,   \* the key each thread's walk is about
    step,    \* how far along its run each thread is
    held     \* the stamp a publisher carries, or a reader has found

tableVars == <<cells, pc, about, step, held>>

Cells == 0..EDGES - 1
Steps == 0..PROBES - 1

\* The cell so many places along from where key would start.
cell(key, at) == (Home[key] + at) % EDGES

PublishPCs == {"publish_load", "publish_claim", "publish_store", "publish_steal"}
LookupPCs  == {"lookup_load", "lookup_read"}

TableInit ==
    /\ cells = [c \in Cells |-> [key |-> NoKey, stamp |-> NONE]]
    /\ about = [t \in Threads |-> NoKey]
    /\ step  = [t \in Threads |-> 0]
    /\ held  = [t \in Threads |-> NONE]

\* Move a walk that found its cell taken by another key one place along, and
\* to atEnd when it was the last place of the run.
Onward(t, again, atEnd) ==
    /\ step' = [step EXCEPT ![t] = IF @ + 1 < PROBES THEN @ + 1 ELSE 0]
    /\ pc' = [pc EXCEPT ![t] = IF step[t] + 1 < PROBES THEN again ELSE atEnd]

-----------------------------------------------------------------------------
(* Table::publish                                                          *)

BeginPublish(t, key, carried) ==
    /\ pc' = [pc EXCEPT ![t] = "publish_load"]
    /\ about' = [about EXCEPT ![t] = key]
    /\ step' = [step EXCEPT ![t] = 0]
    /\ held' = [held EXCEPT ![t] = carried]
    /\ UNCHANGED cells

\* A slip: taking over the first cell that is not this key's own.
PublishLoadEager(t) ==
    /\ pc[t] = "publish_load"
    /\ LET found == cells[cell(about[t], step[t])].key IN
       pc' = [pc EXCEPT ![t] = CASE found = about[t] -> "publish_store"
                                 [] found = NoKey -> "publish_claim"
                                 [] OTHER -> "publish_steal"]
    /\ UNCHANGED <<cells, about, step, held>>

\* The load of the cell's key and what the walk makes of it.
PublishLoad(t) ==
    /\ pc[t] = "publish_load"
    /\ LET found == cells[cell(about[t], step[t])].key IN
       \/ /\ found = about[t]
          /\ pc' = [pc EXCEPT ![t] = "publish_store"]
          /\ UNCHANGED step
       \/ /\ found = NoKey
          /\ pc' = [pc EXCEPT ![t] = "publish_claim"]
          /\ UNCHANGED step
       \/ /\ found \notin {NoKey, about[t]}
          /\ Onward(t, "publish_load", "publish_steal")
    /\ UNCHANGED <<cells, about, held>>

\* The compare exchange of a cell that read as free.  A loser goes on to the
\* next cell without asking which key it lost to.
PublishClaim(t) ==
    /\ pc[t] = "publish_claim"
    /\ LET c == cell(about[t], step[t]) IN
       \/ /\ cells[c].key = NoKey
          /\ cells' = [cells EXCEPT ![c].key = about[t]]
          /\ pc' = [pc EXCEPT ![t] = "publish_store"]
          /\ UNCHANGED step
       \/ /\ cells[c].key # NoKey
          /\ Onward(t, "publish_load", "publish_steal")
          /\ UNCHANGED cells
    /\ UNCHANGED <<about, held>>

\* The store of the stamp, into the cell this key now has.
PublishStore(t) ==
    /\ pc[t] = "publish_store"
    /\ cells' = [cells EXCEPT ![cell(about[t], step[t])].stamp = held[t]]
    /\ pc' = [pc EXCEPT ![t] = "published"]
    /\ UNCHANGED <<about, step, held>>

\* Every cell of the run is another key's: take the first one over.
PublishSteal(t) ==
    /\ pc[t] = "publish_steal"
    /\ cells' = [cells EXCEPT ![cell(about[t], 0)].key = about[t]]
    /\ pc' = [pc EXCEPT ![t] = "publish_store"]
    /\ step' = [step EXCEPT ![t] = 0]
    /\ UNCHANGED <<about, held>>

-----------------------------------------------------------------------------
(* Table::published                                                        *)

BeginLookup(t, key) ==
    /\ pc' = [pc EXCEPT ![t] = "lookup_load"]
    /\ about' = [about EXCEPT ![t] = key]
    /\ step' = [step EXCEPT ![t] = 0]
    /\ held' = [held EXCEPT ![t] = NONE]
    /\ UNCHANGED cells

\* The load of the cell's key; a free cell ends the walk with NONE.
LookupLoad(t) ==
    /\ pc[t] = "lookup_load"
    /\ LET found == cells[cell(about[t], step[t])].key IN
       \/ /\ found = about[t]
          /\ pc' = [pc EXCEPT ![t] = "lookup_read"]
          /\ UNCHANGED step
       \/ /\ found = NoKey
          /\ pc' = [pc EXCEPT ![t] = "looked_up"]
          /\ UNCHANGED step
       \/ /\ found \notin {NoKey, about[t]}
          /\ Onward(t, "lookup_load", "looked_up")
    /\ UNCHANGED <<cells, about, held>>

\* The load of the stamp beside the key that matched.
LookupRead(t) ==
    /\ pc[t] = "lookup_read"
    /\ held' = [held EXCEPT ![t] = cells[cell(about[t], step[t])].stamp]
    /\ pc' = [pc EXCEPT ![t] = "looked_up"]
    /\ UNCHANGED <<cells, about, step>>

\* A walk is over and its caller returns: what it kept in registers is dead.
EndWalk(t) ==
    /\ about' = [about EXCEPT ![t] = NoKey]
    /\ step' = [step EXCEPT ![t] = 0]
    /\ held' = [held EXCEPT ![t] = NONE]

TableStep(t) ==
    \/ PublishLoad(t) \/ PublishClaim(t) \/ PublishStore(t) \/ PublishSteal(t)
    \/ LookupLoad(t) \/ LookupRead(t)

-----------------------------------------------------------------------------

\* The shape of the table's part of the state.
TableTypeOK ==
    /\ cells \in [Cells -> [key : Keys \cup {NoKey}, stamp : Stamp]]
    /\ about \in [Threads -> Keys \cup {NoKey}]
    /\ step \in [Threads -> Steps]
    /\ held \in [Threads -> Stamp]
    /\ \A t \in Threads : pc[t] \in PublishPCs \cup LookupPCs => about[t] \in Keys

=============================================================================
