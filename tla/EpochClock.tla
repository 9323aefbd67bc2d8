------------------------------ MODULE EpochClock ------------------------------
(***************************************************************************)
(* The arithmetic of runtime/rucc-safe-rt/src/epoch.rs: stamps, the one    *)
(* comparison of the race detector, and a thread's Lamport clock.          *)
(*                                                                         *)
(* A stamp is a 64-bit word of a thread number over a 48-bit clock; here   *)
(* it is the record of the two fields.  Zero is the stamp of a word        *)
(* nothing was seen to write.  A thread keeps its Clock as the stamp it    *)
(* stands at, so one set serves for both.  CLOCKS and THREADS are the      *)
(* widths of the two fields and every operator clamps exactly as the code  *)
(* does, so that the ends of both ranges are part of the model.            *)
(***************************************************************************)
EXTENDS Naturals

CONSTANTS CLOCKS,    \* the largest clock, 2^48 - 1 in the code
          THREADS    \* the largest thread number, 2^16 - 1 in the code

ASSUME WidthAssumption == CLOCKS \in Nat \ {0} /\ THREADS \in Nat \ {0}

-----------------------------------------------------------------------------

Stamp == [thread : 0..THREADS, clock : 0..CLOCKS]

NONE == [thread |-> 0, clock |-> 0]

\* Out of range arguments are clamped rather than refused.
stamp(thread, clock) ==
    [thread |-> IF thread > THREADS THEN THREADS ELSE thread,
     clock  |-> IF clock > CLOCKS THEN CLOCKS ELSE clock]

\* Whether nothing a reader standing at mine has done orders the write that
\* left found: another thread's, and not older than the reader's own clock.
unordered(found, mine) ==
    /\ found # NONE
    /\ found.thread # mine.thread
    /\ found.clock >= mine.clock

-----------------------------------------------------------------------------
(* A thread's clock, kept as the stamp it stands at.                       *)

\* Clock::new: a fresh thread starts its counting at 1.
NewClock(thread) == stamp(thread, 1)

\* Clock::tick is a pair: whether this store is stamped at all, and the clock
\* after counting it.  A clock that has stopped answers NONE and stays.
Stopped(mine) == mine.clock >= CLOCKS

Ticked(mine) ==
    IF Stopped(mine) THEN mine ELSE stamp(mine.thread, mine.clock + 1)

tick(mine) == IF Stopped(mine) THEN NONE ELSE Ticked(mine)

\* A slip Clock::sync warns of: landing on the count that was seen.
SyncedLevel(mine, seen) ==
    IF seen = NONE \/ mine.clock >= seen.clock
      THEN mine
      ELSE [mine EXCEPT !.clock = seen.clock]

\* Clock::sync: one past what was seen, never backwards, never past the end.
Synced(mine, seen) ==
    IF seen = NONE \/ mine.clock > seen.clock
      THEN mine
      ELSE [mine EXCEPT !.clock = IF seen.clock + 1 > CLOCKS
                                    THEN CLOCKS ELSE seen.clock + 1]

=============================================================================
