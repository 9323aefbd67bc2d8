----------------------------- MODULE InstallsProofs -----------------------------
(***************************************************************************)
(* What is proved of Installs, for every set of processes and artifacts    *)
(* and every number of crashes and faults.                                 *)
(***************************************************************************)
EXTENDS Installs, TLAPS

\* A tree process p moved aside, or one an earlier process of its id left
\* aside, which p is not about to delete.
Holds(p) == pc[p] \notin {"clear", "drop"} /\ aside[p] \in Artifacts

\* A process that has not ended wants an artifact.
Wanting == \A p \in Procs : pc[p] # "idle" => want[p] \in Artifacts

\* What is staged when swap begins was checked.
Checked ==
    \A p \in Procs : pc[p] \in {"look", "clear", "aside", "place"} => staging[p] \in Artifacts

\* A process that found a sysroot and is between its two renames has one aside.
Between(p) == pc[p] \in {"place", "back"} /\ there[p] # Nothing

\* What a process could put back is the sysroot it moved aside.
AsideWhole ==
    \A p \in Procs :
        /\ pc[p] \in {"clear", "aside", "back"} => there[p] # Nothing
        /\ Between(p) => aside[p] \in Artifacts

\* Only an install puts an artifact under the name, and a directory with no
\* record is never there after one.
Recorded ==
    /\ root \in Artifacts => ever
    /\ root = Unrecorded => ~ ever
    /\ \A p \in Procs : pc[p] \in {"clear", "aside", "drop"} \/ Between(p) => ever

\* NothingLost, and the tree that is aside is one that stays.
Kept == ever => root \in Artifacts \/ \E p \in Procs : Holds(p)

\* With nobody killed and one fault at most, a name that holds no sysroot is
\* about to be given one: by an install whose rename has not been tried, or by
\* one whose rename was the call that failed and whose next one will not.
Settled ==
    crashes = 0 /\ faults <= 1 /\ ever =>
        \/ root \in Artifacts
        \/ \E p \in Procs : pc[p] = "place" /\ there[p] # Nothing
        \/ faults = 1 /\ \E p \in Procs : pc[p] = "back"

IInv == TypeOK /\ Wanting /\ Checked /\ AsideWhole /\ Recorded /\ NeverHalf /\ Kept /\ Settled

-----------------------------------------------------------------------------

\* Init establishes the invariant: no process is inside a fetch.
LEMMA InitIInv == Init => IInv
<1> SUFFICES ASSUME Init PROVE IInv
  OBVIOUS
<1> USE InstallsAssumption DEF Init
<1>1. TypeOK
  <2>1. root \in Trees /\ archives \subseteq Artifacts /\ ever \in BOOLEAN
    BY DEF Trees
  <2>2. aside \in [Procs -> Trees] /\ staging \in [Procs -> Trees]
    BY DEF Trees
  <2>3. pc \in [Procs -> Labels] /\ outcome \in [Procs -> Outcomes]
    BY DEF Labels, Outcomes
  <2>4. /\ want \in [Procs -> Artifacts \cup {Nothing}]
        /\ there \in [Procs -> Artifacts \cup {Nothing}]
    OBVIOUS
  <2>5. starts \in 0..STARTS /\ crashes \in 0..CRASHES /\ faults \in 0..FAULTS
    OBVIOUS
  <2> QED
    BY <2>1, <2>2, <2>3, <2>4, <2>5 DEF TypeOK
<1>2. Wanting /\ Checked /\ AsideWhole /\ Recorded
  BY DEF Wanting, Checked, AsideWhole, Between, Recorded
<1>3. NeverHalf /\ Kept /\ Settled
  BY DEF NeverHalf, Kept, Settled
<1> QED
  BY <1>1, <1>2, <1>3 DEF IInv

\* Every action keeps the shape of the state.
LEMMA TypeStep == TypeOK /\ Wanting /\ [Next]_vars => TypeOK'
<1> SUFFICES ASSUME TypeOK, Wanting, [Next]_vars PROVE TypeOK'
  OBVIOUS
<1> USE InstallsAssumption DEF TypeOK, Wanting, Labels, Outcomes, Trees, disk, counters,
        Goto, At, End, Fault, NoFault
<1>1. ASSUME NEW p \in Procs, NEW artifact \in Artifacts, Start(p, artifact) PROVE TypeOK'
  BY <1>1 DEF Start
<1>2. ASSUME NEW p \in Procs, Download(p) PROVE TypeOK'
  BY <1>2 DEF Download
<1>3. ASSUME NEW p \in Procs, DownloadFails(p) PROVE TypeOK'
  BY <1>3 DEF DownloadFails
<1>4. ASSUME NEW p \in Procs, Verify(p) PROVE TypeOK'
  BY <1>4 DEF Verify
<1>5. ASSUME NEW p \in Procs, Unpack(p) PROVE TypeOK'
  BY <1>5 DEF Unpack
<1>6. ASSUME NEW p \in Procs, StagedFails(p) PROVE TypeOK'
  BY <1>6 DEF StagedFails
<1>7. ASSUME NEW p \in Procs, LookSame(p) PROVE TypeOK'
  BY <1>7 DEF LookSame
<1>8. ASSUME NEW p \in Procs, LookOther(p) PROVE TypeOK'
  BY <1>8 DEF LookOther, Existing
<1>9. ASSUME NEW p \in Procs, ClearAside(p) PROVE TypeOK'
  BY <1>9 DEF ClearAside, RemoveAside
<1>10. ASSUME NEW p \in Procs, MoveAside(p) PROVE TypeOK'
  BY <1>10 DEF MoveAside
<1>11. ASSUME NEW p \in Procs, MoveAsideFails(p) PROVE TypeOK'
  BY <1>11 DEF MoveAsideFails
<1>12. ASSUME NEW p \in Procs, Place(p) PROVE TypeOK'
  BY <1>12 DEF Place
<1>13. ASSUME NEW p \in Procs, PlaceFails(p) PROVE TypeOK'
  BY <1>13 DEF PlaceFails
<1>14. ASSUME NEW p \in Procs, PutBack(p) PROVE TypeOK'
  BY <1>14 DEF PutBack
<1>15. ASSUME NEW p \in Procs, DropAside(p) PROVE TypeOK'
  BY <1>15 DEF DropAside, RemoveAside
<1>16. ASSUME NEW p \in Procs, Crash(p) PROVE TypeOK'
  BY <1>16 DEF Crash
<1>17. CASE UNCHANGED vars
  BY <1>17 DEF vars
<1> QED
  BY <1>1, <1>2, <1>3, <1>4, <1>5, <1>6, <1>7, <1>8, <1>9, <1>10, <1>11, <1>12,
     <1>13, <1>14, <1>15, <1>16, <1>17 DEF Next, Step

\* Every action keeps what is known of each process's own register and trees,
\* and the name holds no half tree.
LEMMA OwnStep == IInv /\ [Next]_vars => (Wanting /\ Checked /\ AsideWhole /\ Recorded /\ NeverHalf)'
<1> SUFFICES ASSUME IInv, [Next]_vars PROVE (Wanting /\ Checked /\ AsideWhole /\ Recorded /\ NeverHalf)'
  OBVIOUS
<1> DEFINE Own == Wanting /\ Checked /\ AsideWhole /\ Recorded /\ NeverHalf
<1> USE InstallsAssumption DEF IInv, TypeOK, Wanting, Checked, AsideWhole, Between, Recorded,
        NeverHalf, Trees, disk, counters, Goto, At, End, Fault, NoFault
<1>1. ASSUME NEW p \in Procs, NEW artifact \in Artifacts, Start(p, artifact) PROVE Own'
  BY <1>1 DEF Start
<1>2. ASSUME NEW p \in Procs, Download(p) PROVE Own'
  BY <1>2 DEF Download
<1>3. ASSUME NEW p \in Procs, DownloadFails(p) PROVE Own'
  BY <1>3 DEF DownloadFails
<1>4. ASSUME NEW p \in Procs, Verify(p) PROVE Own'
  BY <1>4 DEF Verify
<1>5. ASSUME NEW p \in Procs, Unpack(p) PROVE Own'
  BY <1>5 DEF Unpack
<1>6. ASSUME NEW p \in Procs, StagedFails(p) PROVE Own'
  BY <1>6 DEF StagedFails
<1>7. ASSUME NEW p \in Procs, LookSame(p) PROVE Own'
  BY <1>7 DEF LookSame
<1>8. ASSUME NEW p \in Procs, LookOther(p) PROVE Own'
  BY <1>8 DEF LookOther, Existing
<1>9. ASSUME NEW p \in Procs, ClearAside(p) PROVE Own'
  BY <1>9 DEF ClearAside, RemoveAside
<1>10. ASSUME NEW p \in Procs, MoveAside(p) PROVE Own'
  BY <1>10 DEF MoveAside
<1>11. ASSUME NEW p \in Procs, MoveAsideFails(p) PROVE Own'
  BY <1>11 DEF MoveAsideFails
<1>12. ASSUME NEW p \in Procs, Place(p) PROVE Own'
  BY <1>12 DEF Place
<1>13. ASSUME NEW p \in Procs, PlaceFails(p) PROVE Own'
  BY <1>13 DEF PlaceFails
<1>14. ASSUME NEW p \in Procs, PutBack(p) PROVE Own'
  BY <1>14 DEF PutBack
<1>15. ASSUME NEW p \in Procs, DropAside(p) PROVE Own'
  BY <1>15 DEF DropAside, RemoveAside
<1>16. ASSUME NEW p \in Procs, Crash(p) PROVE Own'
  BY <1>16 DEF Crash
<1>17. CASE UNCHANGED vars
  BY <1>17 DEF vars
<1> QED
  BY <1>1, <1>2, <1>3, <1>4, <1>5, <1>6, <1>7, <1>8, <1>9, <1>10, <1>11, <1>12,
     <1>13, <1>14, <1>15, <1>16, <1>17 DEF Next, Step

\* A step that takes the name from no artifact, and from no other process what
\* it holds, keeps a tree.
LEMMA KeptAsItWas ==
    ASSUME Kept, ever' = ever,
           root \in Artifacts => root' \in Artifacts,
           \A q \in Procs : Holds(q) => Holds(q)' \/ root' \in Artifacts
    PROVE  Kept'
BY DEF Kept

\* Every action keeps a tree: what is deleted is never the last one.
LEMMA KeptStep == IInv /\ [Next]_vars => Kept'
<1> SUFFICES ASSUME IInv, [Next]_vars PROVE Kept'
  OBVIOUS
<1> USE InstallsAssumption DEF IInv, TypeOK, Checked, Holds, disk,
        counters, Goto, At, End, Fault, NoFault
<1>1. ASSUME NEW p \in Procs, NEW artifact \in Artifacts, Start(p, artifact) PROVE Kept'
  BY <1>1, KeptAsItWas DEF Start
<1>2. ASSUME NEW p \in Procs, Download(p) PROVE Kept'
  BY <1>2, KeptAsItWas DEF Download
<1>3. ASSUME NEW p \in Procs, DownloadFails(p) PROVE Kept'
  BY <1>3, KeptAsItWas DEF DownloadFails
<1>4. ASSUME NEW p \in Procs, Verify(p) PROVE Kept'
  BY <1>4, KeptAsItWas DEF Verify
<1>5. ASSUME NEW p \in Procs, Unpack(p) PROVE Kept'
  BY <1>5, KeptAsItWas DEF Unpack
<1>6. ASSUME NEW p \in Procs, StagedFails(p) PROVE Kept'
  BY <1>6, KeptAsItWas DEF StagedFails
<1>7. ASSUME NEW p \in Procs, LookSame(p) PROVE Kept'
  BY <1>7, KeptAsItWas DEF LookSame
<1>8. ASSUME NEW p \in Procs, LookOther(p) PROVE Kept'
  BY <1>8 DEF LookOther, Existing, Kept
<1>9. ASSUME NEW p \in Procs, ClearAside(p) PROVE Kept'
  BY <1>9, KeptAsItWas DEF ClearAside, RemoveAside
<1>10. ASSUME NEW p \in Procs, MoveAside(p) PROVE Kept'
  BY <1>10 DEF MoveAside, Kept
<1>11. ASSUME NEW p \in Procs, MoveAsideFails(p) PROVE Kept'
  BY <1>11, KeptAsItWas DEF MoveAsideFails
<1>12. ASSUME NEW p \in Procs, Place(p) PROVE Kept'
  BY <1>12 DEF Place, Kept
<1>13. ASSUME NEW p \in Procs, PlaceFails(p) PROVE Kept'
  BY <1>13, KeptAsItWas DEF PlaceFails
<1>14. ASSUME NEW p \in Procs, PutBack(p) PROVE Kept'
  BY <1>14, KeptAsItWas DEF PutBack
<1>15. ASSUME NEW p \in Procs, DropAside(p) PROVE Kept'
  BY <1>15, KeptAsItWas DEF DropAside, RemoveAside
<1>16. ASSUME NEW p \in Procs, Crash(p) PROVE Kept'
  BY <1>16, KeptAsItWas DEF Crash
<1>17. CASE UNCHANGED vars
  BY <1>17 DEF vars, Kept
<1> QED
  BY <1>1, <1>2, <1>3, <1>4, <1>5, <1>6, <1>7, <1>8, <1>9, <1>10, <1>11, <1>12,
     <1>13, <1>14, <1>15, <1>16, <1>17 DEF Next, Step

\* Every action settles: an install that fails puts back what it moved.
LEMMA SettledStep == IInv /\ [Next]_vars => Settled'
<1> SUFFICES ASSUME IInv, [Next]_vars PROVE Settled'
  OBVIOUS
<1> USE InstallsAssumption DEF IInv, TypeOK, Checked, AsideWhole, Between, Recorded, NeverHalf,
        Trees, Settled, disk, counters, Goto, At, End, Fault, NoFault
<1>1. ASSUME NEW p \in Procs, NEW artifact \in Artifacts, Start(p, artifact) PROVE Settled'
  BY <1>1 DEF Start
<1>2. ASSUME NEW p \in Procs, Download(p) PROVE Settled'
  BY <1>2 DEF Download
<1>3. ASSUME NEW p \in Procs, DownloadFails(p) PROVE Settled'
  BY <1>3 DEF DownloadFails
<1>4. ASSUME NEW p \in Procs, Verify(p) PROVE Settled'
  BY <1>4 DEF Verify
<1>5. ASSUME NEW p \in Procs, Unpack(p) PROVE Settled'
  BY <1>5 DEF Unpack
<1>6. ASSUME NEW p \in Procs, StagedFails(p) PROVE Settled'
  BY <1>6 DEF StagedFails
<1>7. ASSUME NEW p \in Procs, LookSame(p) PROVE Settled'
  BY <1>7 DEF LookSame
<1>8. ASSUME NEW p \in Procs, LookOther(p) PROVE Settled'
  BY <1>8 DEF LookOther, Existing
<1>9. ASSUME NEW p \in Procs, ClearAside(p) PROVE Settled'
  BY <1>9 DEF ClearAside, RemoveAside
<1>10. ASSUME NEW p \in Procs, MoveAside(p) PROVE Settled'
  BY <1>10 DEF MoveAside
<1>11. ASSUME NEW p \in Procs, MoveAsideFails(p) PROVE Settled'
  BY <1>11 DEF MoveAsideFails
<1>12. ASSUME NEW p \in Procs, Place(p) PROVE Settled'
  BY <1>12 DEF Place
<1>13. ASSUME NEW p \in Procs, PlaceFails(p) PROVE Settled'
  BY <1>13 DEF PlaceFails
<1>14. ASSUME NEW p \in Procs, PutBack(p) PROVE Settled'
  BY <1>14 DEF PutBack
<1>15. ASSUME NEW p \in Procs, DropAside(p) PROVE Settled'
  BY <1>15 DEF DropAside, RemoveAside
<1>16. ASSUME NEW p \in Procs, Crash(p) PROVE Settled'
  BY <1>16 DEF Crash
<1>17. CASE UNCHANGED vars
  BY <1>17 DEF vars
<1> QED
  BY <1>1, <1>2, <1>3, <1>4, <1>5, <1>6, <1>7, <1>8, <1>9, <1>10, <1>11, <1>12,
     <1>13, <1>14, <1>15, <1>16, <1>17 DEF Next, Step

\* The invariant is inductive.
LEMMA Inductive == Spec => []IInv
<1>1. IInv /\ [Next]_vars => IInv'
  BY TypeStep, OwnStep, KeptStep, SettledStep DEF IInv
<1> QED
  BY InitIInv, <1>1, PTL DEF Spec

-----------------------------------------------------------------------------

\* Installs keeps its shape, whoever runs, crashes or fails.
THEOREM TypesCorrect == Spec => []TypeOK
BY Inductive, PTL DEF IInv

\* install.rs: no install, failure or kill ever gives a half tree the name a
\* compile looks under.
THEOREM NoHalfTree == Spec => []NeverHalf
BY Inductive, PTL DEF IInv

\* install.rs swap: a cache that had a sysroot installed never is without a
\* whole one, under its name or aside.
THEOREM SysrootKept == Spec => []NothingLost
<1>1. IInv => NothingLost
  BY DEF IInv, Kept, Holds, NothingLost
<1> QED
  BY Inductive, <1>1, PTL

\* install.rs swap: a failed install puts back what was there, whoever else is
\* installing.
THEOREM FailureRestores == Spec => []PutBackOnFailure
<1>1. IInv => PutBackOnFailure
  BY DEF IInv, Settled, PutBackOnFailure, Quiet, At
<1> QED
  BY Inductive, <1>1, PTL

=============================================================================
