-------------------------------- MODULE Installs --------------------------------
(***************************************************************************)
(* rucc --fetch: how a sysroot reaches the cache (crates/rucc-driver       *)
(* lib.rs fetch_sysroot, fetch.rs fetch, install.rs install and swap).     *)
(* Several builds run it for one target at once, over one cache, with no   *)
(* lock between them: what keeps them apart is that each works under names *)
(* of its own and gives a tree its final name by a rename.  A build may be *)
(* killed between any two calls, and a call to the file system may fail.   *)
(*                                                                         *)
(* A tree is the artifact it was unpacked from; Half is a tree with files  *)
(* missing or wrong, Unrecorded one with no manifest, Nothing no directory *)
(* at all.  A rename of a directory is one step, and fails when the name   *)
(* it goes to is taken, as POSIX has it for a directory that is not empty. *)
(***************************************************************************)
EXTENDS Naturals

CONSTANTS
    Procs,       \* the process ids, each of which may be used again
    Artifacts,   \* the archives there are of this target's sysroot
    Nothing, Half, Unrecorded,
    STARTS,      \* bound: how many fetches are started
    CRASHES,     \* bound: how many of them are killed
    FAULTS       \* bound: how many calls to the file system fail

ASSUME InstallsAssumption ==
    /\ STARTS \in Nat /\ CRASHES \in Nat /\ FAULTS \in Nat
    /\ Nothing \notin Artifacts /\ Half \notin Artifacts /\ Unrecorded \notin Artifacts
    /\ Nothing # Half /\ Nothing # Unrecorded /\ Half # Unrecorded

VARIABLES
    root,      \* what is at sysroots/<tuple>
    aside,     \* what is at <tuple>.old.<pid>, for each pid
    archives,  \* the artifacts whose archive is under downloads/
    staging,   \* what is in each running install's staging directory
    pc, want, there,  \* each process's place, its artifact, what it found
    outcome,   \* how each process's last fetch ended
    ever,      \* whether an install ever put a tree in place
    starts, crashes, faults

disk == <<root, aside, archives, staging>>
counters == <<starts, crashes, faults>>
vars == <<disk, pc, want, there, outcome, ever, counters>>

Labels == {"idle", "download", "verify", "unpack", "look", "clear", "aside",
           "place", "back", "drop"}
Outcomes == {"none", "installed", "same", "failed", "killed"}

Init ==
    /\ root \in {Nothing, Unrecorded}
    /\ aside = [p \in Procs |-> Nothing]
    /\ archives = {}
    /\ staging = [p \in Procs |-> Nothing]
    /\ pc = [p \in Procs |-> "idle"]
    /\ want = [p \in Procs |-> Nothing]
    /\ there = [p \in Procs |-> Nothing]
    /\ outcome = [p \in Procs |-> "none"]
    /\ ever = FALSE
    /\ starts = 0 /\ crashes = 0 /\ faults = 0

Goto(p, label) == pc' = [pc EXCEPT ![p] = label]
At(p, label) == pc[p] = label

\* The fetch ends.  staged takes the staging directory away when it failed;
\* when it did not, the swap has renamed or removed it.
End(p, how) ==
    /\ Goto(p, "idle")
    /\ outcome' = [outcome EXCEPT ![p] = how]
    /\ staging' = [staging EXCEPT ![p] = Nothing]
    /\ want' = [want EXCEPT ![p] = Nothing]
    /\ there' = [there EXCEPT ![p] = Nothing]

\* Fault is a call to the file system that fails on its own account.
Fault == faults < FAULTS /\ faults' = faults + 1
NoFault == UNCHANGED faults

-----------------------------------------------------------------------------
(* The archive                                                             *)

Start(p, artifact) ==
    /\ At(p, "idle") /\ starts < STARTS
    /\ starts' = starts + 1
    /\ want' = [want EXCEPT ![p] = artifact]
    /\ Goto(p, IF artifact \in archives THEN "verify" ELSE "download")
    /\ UNCHANGED <<disk, there, outcome, ever, crashes, faults>>

\* The download arrived under its own name and has the hash: it is renamed.
Download(p) ==
    /\ At(p, "download")
    /\ archives' = archives \cup {want[p]}
    /\ Goto(p, "verify")
    /\ UNCHANGED <<root, aside, staging, want, there, outcome, ever, counters>>

\* No downloader, a downloader that failed, or bytes without the hash.
DownloadFails(p) ==
    /\ At(p, "download")
    /\ End(p, "failed")
    /\ UNCHANGED <<root, aside, archives, ever, counters>>

\* install::verify, and staged makes the staging directory.
Verify(p) ==
    /\ At(p, "verify")
    /\ staging' = [staging EXCEPT ![p] = Half]
    /\ Goto(p, "unpack")
    /\ UNCHANGED <<root, aside, archives, want, there, outcome, ever, counters>>

-----------------------------------------------------------------------------
(* The tree                                                                *)

\* A slip: what the unpacker left is not held against the record.
UnpackUnchecked(p) ==
    /\ At(p, "unpack")
    /\ staging' \in {[staging EXCEPT ![p] = want[p]], staging}
    /\ Goto(p, "look")
    /\ UNCHANGED <<root, aside, archives, want, there, outcome, ever, counters>>

\* unpack, and check of the tree against the record and the record against
\* the tree.
Unpack(p) ==
    /\ At(p, "unpack")
    /\ staging' = [staging EXCEPT ![p] = want[p]]
    /\ Goto(p, "look")
    /\ UNCHANGED <<root, aside, archives, want, there, outcome, ever, counters>>

\* The hash, the unpacker, the record or a file disagrees, or the disk is full.
StagedFails(p) ==
    /\ pc[p] \in {"verify", "unpack"}
    /\ End(p, "failed")
    /\ UNCHANGED <<root, aside, archives, ever, counters>>

\* existing: the digest in the manifest at root, if there is one.
Existing == IF root \in Artifacts THEN root ELSE Nothing

\* What swap decides by, read once and before everything else it does.
LookSame(p) ==
    /\ At(p, "look") /\ Existing = want[p]
    /\ End(p, "same")
    /\ UNCHANGED <<root, aside, archives, ever, counters>>

\* A slip: whatever directory is there counts as a sysroot.
LookAny(p) ==
    /\ At(p, "look") /\ Existing # want[p]
    /\ there' = [there EXCEPT ![p] = root]
    /\ Goto(p, IF root = Nothing THEN "place" ELSE "clear")
    /\ UNCHANGED <<disk, want, outcome, ever, counters>>

LookOther(p) ==
    /\ At(p, "look") /\ Existing # want[p]
    /\ there' = [there EXCEPT ![p] = Existing]
    /\ Goto(p, IF Existing = Nothing THEN "place" ELSE "clear")
    /\ UNCHANGED <<disk, want, outcome, ever, counters>>

\* remove_dir_all of what is aside, whose failure nobody asks about: it may
\* have removed nothing, or some of the files.
RemoveAside(p) ==
    \/ NoFault /\ aside' = [aside EXCEPT ![p] = Nothing]
    \/ Fault /\ \/ UNCHANGED aside
                \/ aside[p] # Nothing /\ aside' = [aside EXCEPT ![p] = Half]

\* Whatever an earlier process of the same id left aside is removed.
ClearAside(p) ==
    /\ At(p, "clear")
    /\ RemoveAside(p)
    /\ Goto(p, "aside")
    /\ UNCHANGED <<root, archives, staging, want, there, outcome, ever, starts, crashes>>

\* A slip: the old tree is deleted first.
MoveAsideDeletes(p) ==
    /\ At(p, "aside")
    /\ root' = Nothing
    /\ Goto(p, "place")
    /\ UNCHANGED <<aside, archives, staging, want, there, outcome, ever, counters>>

MoveAside(p) ==
    /\ At(p, "aside")
    /\ root # Nothing /\ aside[p] = Nothing
    /\ aside' = [aside EXCEPT ![p] = root]
    /\ root' = Nothing
    /\ Goto(p, "place")
    /\ UNCHANGED <<archives, staging, want, there, outcome, ever, counters>>

MoveAsideFails(p) ==
    /\ At(p, "aside")
    /\ \/ NoFault /\ (root = Nothing \/ aside[p] # Nothing)
       \/ Fault
    /\ End(p, "failed")
    /\ UNCHANGED <<root, aside, archives, ever, starts, crashes>>

\* The rename that puts the tree in place.
Place(p) ==
    /\ At(p, "place") /\ root = Nothing
    /\ root' = staging[p]
    /\ ever' = TRUE
    /\ IF there[p] = Nothing
         THEN End(p, "installed")
         ELSE /\ Goto(p, "drop")
              /\ staging' = [staging EXCEPT ![p] = Nothing]
              /\ UNCHANGED <<want, there, outcome>>
    /\ UNCHANGED <<aside, archives, counters>>

\* The rename is refused.  What was moved aside is to be put back.
PlaceFails(p) ==
    /\ At(p, "place")
    /\ (NoFault /\ root # Nothing) \/ Fault
    /\ IF there[p] = Nothing
         THEN End(p, "failed")
         ELSE Goto(p, "back") /\ UNCHANGED <<staging, want, there, outcome>>
    /\ UNCHANGED <<root, aside, archives, ever, starts, crashes>>

\* A slip: the failed install leaves the old tree aside.
PutBackForgotten(p) ==
    /\ At(p, "back")
    /\ End(p, "failed")
    /\ UNCHANGED <<root, aside, archives, ever, counters>>

\* A slip: an install waits for the name to be free.
PutBackWaits(p) ==
    /\ At(p, "back") /\ root = Nothing
    /\ root' = aside[p]
    /\ aside' = [aside EXCEPT ![p] = Nothing]
    /\ End(p, "failed")
    /\ UNCHANGED <<archives, ever, counters>>

\* The old tree goes back unless the name is taken, and the install failed.
PutBack(p) ==
    /\ At(p, "back")
    /\ \/ /\ NoFault /\ root = Nothing
          /\ root' = aside[p]
          /\ aside' = [aside EXCEPT ![p] = Nothing]
       \/ /\ (NoFault /\ root # Nothing) \/ Fault
          /\ UNCHANGED <<root, aside>>
    /\ End(p, "failed")
    /\ UNCHANGED <<archives, ever, starts, crashes>>

\* The old tree is deleted.
DropAside(p) ==
    /\ At(p, "drop")
    /\ RemoveAside(p)
    /\ End(p, "installed")
    /\ UNCHANGED <<root, archives, ever, starts, crashes>>

\* The process is killed.  Its staging directory stays under a name nobody
\* uses again, and a tree it was deleting stays half deleted.
Crash(p) ==
    /\ ~ At(p, "idle") /\ crashes < CRASHES
    /\ crashes' = crashes + 1
    /\ \/ UNCHANGED aside
       \/ /\ pc[p] \in {"clear", "drop"} /\ aside[p] # Nothing
          /\ aside' = [aside EXCEPT ![p] = Half]
    /\ End(p, "killed")
    /\ UNCHANGED <<root, archives, ever, starts, faults>>

\* Everything a process does on its way through a fetch.
Step(p) ==
    \/ Download(p) \/ DownloadFails(p) \/ Verify(p)
    \/ Unpack(p) \/ StagedFails(p)
    \/ LookSame(p) \/ LookOther(p) \/ ClearAside(p)
    \/ MoveAside(p) \/ MoveAsideFails(p)
    \/ Place(p) \/ PlaceFails(p) \/ PutBack(p) \/ DropAside(p)

Next ==
    \E p \in Procs :
        \/ \E artifact \in Artifacts : Start(p, artifact)
        \/ Step(p)
        \/ Crash(p)

\* A process that is not killed goes on: nothing in a fetch waits.
Fairness == \A p \in Procs : WF_vars(Step(p))

Spec == Init /\ [][Next]_vars /\ Fairness

-----------------------------------------------------------------------------
(* Properties                                                              *)

Quiet == \A p \in Procs : At(p, "idle")

Trees == Artifacts \cup {Nothing, Half, Unrecorded}

\* The state has its shape.
TypeOK ==
    /\ root \in Trees
    /\ aside \in [Procs -> Trees] /\ staging \in [Procs -> Trees]
    /\ archives \subseteq Artifacts
    /\ pc \in [Procs -> Labels]
    /\ want \in [Procs -> Artifacts \cup {Nothing}]
    /\ there \in [Procs -> Artifacts \cup {Nothing}]
    /\ outcome \in [Procs -> Outcomes]
    /\ ever \in BOOLEAN
    /\ starts \in 0..STARTS /\ crashes \in 0..CRASHES /\ faults \in 0..FAULTS

\* install.rs, the order of its steps: what has a sysroot's name is a tree
\* whose every file was checked, or one that was there before any install,
\* whoever else is installing and whoever was killed, and no half deleted
\* tree comes back.
NeverHalf == root # Half

\* install.rs swap: once there was a sysroot there is one, under its name or
\* whole under the name of one of the processes that moved it aside.  The
\* tree is moved and never deleted first, and what a process deletes is not
\* the last one.
NothingLost ==
    ever => root \in Artifacts \/ \E p \in Procs : aside[p] \in Artifacts

\* install.rs swap: a failed install puts back what was there.  When nobody
\* is inside an install and none was killed, a cache that had a sysroot has
\* one under its name, though an install's rename may have failed.
PutBackOnFailure ==
    Quiet /\ crashes = 0 /\ faults <= 1 /\ ever => root \in Artifacts

\* install.rs install, "nothing waits": every fetch that is not killed ends,
\* and two that run at once do not hold each other up.
EveryFetchEnds == \A p \in Procs : ~ At(p, "idle") ~> At(p, "idle")

\* install.rs swap, its comment: a compile that starts during the swap finds
\* either the old tree or the new one.
FindsOldOrNew == ever => root # Nothing

\* install.rs existing, its comment: a directory with no manifest in it is
\* replaced like anything else, so an install that gets as far as the rename
\* puts its tree there.
UnrecordedIsReplaced ==
    [][\A p \in Procs :
          pc[p] = "place" /\ pc'[p] # "place" /\ root = Unrecorded => root' # Unrecorded]_vars

=============================================================================
