------------------------------- MODULE Mappings -------------------------------
(***************************************************************************)
(* The mapping arena of runtime/rucc-safe-rt/src/mapping.rs and what       *)
(* adopt.rs does inside it: mmap, munmap, mremap, MAP_FIXED over the       *)
(* arena, an allocator adopting a mapping and carving it.                  *)
(*                                                                         *)
(* The arena is a few pages of a few granules each.  The lifetime plane    *)
(* has a slot per granule; the kernel has, per page, the arena's own       *)
(* reservation, a mapping of the program, or nothing.  Beside them the     *)
(* module keeps whose each granule really is, which no guard of the        *)
(* monitor's code reads, and two records of what has gone wrong: the pages *)
(* the arena lost to a refused reservation or a failed move, and the gaps  *)
(* the code leaves open that a call has gone through.                      *)
(***************************************************************************)
EXTENDS Integers, FiniteSets

CONSTANTS Threads,
          PAGES, GRAINS,  \* the arena, and the granules of a page
          ADOPTED,        \* the slots of GIVEN, 64 in the code
          MAPS, CARVES,   \* how many mappings begin and objects are carved (bounds)
          INSTANCES       \* how many of both together (bound)

ASSUME MappingsAssumption ==
    /\ PAGES \in Nat \ {0} /\ GRAINS \in Nat \ {0} /\ ADOPTED \in Nat
    /\ MAPS \in Nat /\ CARVES \in Nat /\ INSTANCES \in Nat
    /\ IsFiniteSet(Threads)

VARIABLES
    plane,     \* the lifetime plane over the arena
    maps,      \* mapping.rs VERSIONS: the next mapping's number
    carves,    \* adopt.rs VERSIONS: the next object's number
    given,     \* GIVEN: the adopted mappings
    cursor,    \* CURSOR, a page
    kernel,    \* what the kernel has at each page
    doing,     \* the call each thread is in the middle of
    whose,     \* the instance each granule really belongs to
    arena,     \* the version of the adopted mapping each granule is in, or DEAD
    refused,   \* whether a split or a merge was refused
    lost,      \* the pages that were taken down and could not be reserved again
    gaps       \* what has been done that the monitor does not keep up with

monitor == <<plane, maps, carves, given, cursor>>
os == <<kernel, lost>>
truth == <<whose, arena, refused>>
vars == <<monitor, os, doing, truth, gaps>>

-----------------------------------------------------------------------------
(* plane.rs                                                                *)

DEAD == 0
begun(n) == 2 * n
ended(version) == IF version % 2 = 0 THEN version + 1 ELSE version
owned(slot) == slot # DEAD /\ slot % 2 = 0

Pages == 0..PAGES - 1
Granules == 0..PAGES * GRAINS - 1
Page(g) == g \div GRAINS
Start(p) == p * GRAINS

\* A range of granules, its end not in it, and the granules of some pages.
Between(lo, hi) == lo..hi - 1
GrainsOf(ps) == {g \in Granules : Page(g) \in ps}

\* The plane at the first granule of a page, which is all a walk by pages sees.
PageVersion(p) == plane[Start(p)]

Fill(f, gs, value) == [g \in Granules |-> IF g \in gs THEN value ELSE f[g]]

Nobody == [by |-> "nobody", n |-> 0]
Instance == {Nobody} \cup [by : {"mmap", "split"}, n : Nat \ {0}]
Key(i) == begun(i.n)

-----------------------------------------------------------------------------
(* The gaps                                                                *)

\* "met":   a carved object goes back that ends where a mapping of the same
\*          number begins, and the walk over it does not stop there;
\* "full":  an allocator adopts one mapping more than GIVEN has room for;
\* "left":  the kernel moves or shrinks a mapping and then does not let the
\*          pages it left be reserved, and their instance is not ended;
\* "mixed": a mapping is put over pages that several ended instances left
\*          behind, and is several instances;
\* "cut":   part of what an allocator adopted is unmapped or mapped over;
\* "part":  an allocator adopts a mapping but not the end of its last page.
Gaps == {"met", "full", "left", "mixed", "cut", "part"}

Opens(gap, open) == IF open THEN {gap} ELSE {}

-----------------------------------------------------------------------------

Idle == [call |-> "none", old |-> {}, new |-> {}, worked |-> TRUE]
Empty == [lo |-> 0, hi |-> 0, version |-> DEAD]
Slots == 1..ADOPTED

Init ==
    /\ plane = [g \in Granules |-> DEAD]
    /\ maps = 1
    /\ carves = 1
    /\ given = [s \in Slots |-> Empty]
    /\ cursor = 0
    /\ kernel = [p \in Pages |-> "reserved"]
    /\ doing = [t \in Threads |-> Idle]
    /\ whose = [g \in Granules |-> Nobody]
    /\ arena = [g \in Granules |-> DEAD]
    /\ refused = FALSE
    /\ lost = {}
    /\ gaps = {}

\* The calls that a thread makes with HELD, and HELD is free.
Holding == {"map", "grow", "remap"}
Unlocked == \A t \in Threads : doing[t].call \notin Holding

\* t may call: it is in no call, no refusal has ended the program, and nobody
\* maps where only a program whose other threads map nothing can.
Free(t) == doing[t] = Idle /\ ~ refused /\ \A u \in Threads : doing[u].call # "alone"

\* The bounds.  A call that is under way counts as an instance.
More == maps + carves + Cardinality({t \in Threads : doing[t] # Idle}) < INSTANCES + 2
MoreMaps == maps <= MAPS /\ More
MoreCarves == carves <= CARVES /\ More

Surrendered(version) == \E s \in Slots : given[s].hi # 0 /\ given[s].version = version

\* Pages that a walk by pages takes for one run: adjacent, and of one version.
RunsTogether(ps, p, q) ==
    \A r \in Pages : (p <= r /\ r <= q) \/ (q <= r /\ r <= p) =>
        r \in ps /\ PageVersion(r) = PageVersion(p)

\* The runs of pages nobody owns, as far as a walk by pages sees them.
FreeRuns(ps) ==
    {{q \in ps : RunsTogether(ps, p, q)} : p \in {r \in ps : ~ owned(PageVersion(r))}}

First(ps) == CHOOSE p \in ps : \A q \in ps : p <= q

-----------------------------------------------------------------------------
(* place: where a mapping goes                                             *)

\* A slip: mappings an allocator adopted are not looked at.
FitsOverGiven(ps) == \A p \in ps : ~ owned(PageVersion(p))

\* Whether the pages are free, and not a gap of just this size between two
\* pieces of one instance.
Fits(ps) ==
    /\ \A s \in Slots : GrainsOf(ps) \cap Between(given[s].lo, given[s].hi) = {}
    /\ \A p \in ps : ~ owned(PageVersion(p))
    /\ LET before == First(ps) - 1
           after == First(ps) + Cardinality(ps) IN
       before \in Pages /\ after \in Pages =>
           ~ (owned(PageVersion(before)) /\ PageVersion(before) = PageVersion(after))

Spans(size) == {p..p + size - 1 : p \in 0..PAGES - size}

\* Next fit: the first fit from the cursor on, or else the first of all.
Placed(size) ==
    LET fits == {ps \in Spans(size) : Fits(ps)}
        ahead == {ps \in fits : First(ps) >= cursor}
        among == IF ahead # {} THEN ahead ELSE fits IN
    {ps \in among : \A qs \in among : First(ps) <= First(qs)}

-----------------------------------------------------------------------------
(* What the rows do to the plane                                           *)

\* begin: one new instance.
Begin(ps) ==
    /\ maps' = maps + 1
    /\ plane' = Fill(plane, GrainsOf(ps), begun(maps))
    /\ whose' = Fill(whose, GrainsOf(ps), [by |-> "mmap", n |-> maps])

\* A slip: only the front of what was adopted is looked at.
CoveredFront(ps) == {s \in Slots : given[s].hi # 0 /\ given[s].lo >= Start(First(ps))}

\* The slots release forgets: what was adopted is in the range altogether.
Covered(ps) ==
    {s \in Slots : given[s].hi # 0 /\ Between(given[s].lo, given[s].hi) \subseteq GrainsOf(ps)}

\* A slip: what was adopted is walked by pages, like everything else.
ReleasedByPages(ps) ==
    [g \in Granules |->
        IF g \in GrainsOf(ps) /\ owned(PageVersion(Page(g)))
          THEN ended(PageVersion(Page(g)))
          ELSE plane[g]]

\* release's walks: by granules over what was adopted and is forgotten, then
\* by pages, where every granule of an owned run is ended as its first one.
Released(ps) ==
    LET carved == UNION {Between(given[s].lo, given[s].hi) : s \in Covered(ps)}
        walked == [g \in Granules |->
                     IF g \in carved /\ owned(plane[g]) THEN ended(plane[g]) ELSE plane[g]] IN
    [g \in Granules |->
        IF g \in GrainsOf(ps) /\ owned(walked[Start(Page(g))])
          THEN ended(walked[Start(Page(g))])
          ELSE walked[g]]

Forgotten(ps) == [s \in Slots |-> IF s \in Covered(ps) THEN Empty ELSE given[s]]

\* claim over a plane as it stands: a new instance for each run nobody owns,
\* in order, and which of the program's instances it should be.
Claimed(f, ps, runs) ==
    [g \in Granules |->
        IF \E run \in runs : Page(g) \in run
          THEN LET mine == CHOOSE run \in runs : Page(g) \in run IN
               begun(maps + Cardinality({run \in runs : First(run) < First(mine)}))
          ELSE f[g]]

\* What the program has mapped where it had nothing is one instance to it.
Taken(ps, runs) ==
    Fill(whose, GrainsOf(UNION runs), [by |-> "mmap", n |-> maps])

\* What mapping over the pages goes through.
MixedOver(ps) == \E r, s \in FreeRuns(ps) : r # s
CutsInto(ps) == \E g \in GrainsOf(ps) : arena[g] # DEAD
Over(ps) == Opens("mixed", MixedOver(ps)) \cup Opens("cut", CutsInto(ps))

\* No other call is in the middle of these pages.
Apart(ps) == \A t \in Threads : (doing[t].old \cup doing[t].new) \cap ps = {}

\* The granules are of one mapping the program has, the first one's.
OneMapping(gs, lo) == whose[lo].by = "mmap" /\ \A g \in gs : whose[g] = whose[lo]

\* The granules an allocator has adopted.
Adopted == {g \in Granules : arena[g] # DEAD}

Kernel(ps, has) == [p \in Pages |-> IF p \in ps THEN has ELSE kernel[p]]

\* Pages stay lost as long as the kernel has nothing there.
Losing(ps) == lost' = {p \in lost \cup ps : kernel'[p] = "none"}

\* What a call with an address in it leaves behind: the mapping, or nothing
\* done, or the range taken down.
KernelMaps(ps, worked) ==
    \/ worked /\ kernel' = Kernel(ps, "program")
    \/ ~ worked /\ kernel' \in {kernel, Kernel(ps, "none")}

\* reserve, of each of the ranges.  It is such a call too: the kernel denies
\* some of them, and has taken down some of those before it did.
Reserve(ranges, denied) ==
    /\ \E down \in SUBSET denied :
        kernel' = [p \in Pages |->
                    IF p \in UNION (ranges \ denied) THEN "reserved"
                    ELSE IF p \in UNION down THEN "none" ELSE kernel[p]]
    /\ Losing(UNION denied)

Enter(t, call, old, new, worked) ==
    doing' = [doing EXCEPT ![t] =
                [call |-> call, old |-> old, new |-> new, worked |-> worked]]

Leave(t) == doing' = [doing EXCEPT ![t] = Idle]

-----------------------------------------------------------------------------
(* mmap                                                                    *)

\* The row finds a place and maps there.  (With no place the call goes through
\* and the arena is not touched.)
MapCall(t, size, worked) ==
    /\ Free(t) /\ Unlocked
    /\ MoreMaps
    /\ \E ps \in Placed(size) :
        /\ cursor' = First(ps) + size
        /\ KernelMaps(ps, worked) /\ Losing({})
        /\ Enter(t, "map", {}, ps, worked)
    /\ UNCHANGED <<plane, maps, carves, given, truth, gaps>>

\* A slip: what the failed call took down is not reserved again.
MapFinishBare(t) ==
    /\ doing[t].call = "map"
    /\ IF doing[t].worked
         THEN Begin(doing[t].new)
         ELSE UNCHANGED <<plane, maps, whose>>
    /\ Leave(t)
    /\ UNCHANGED <<carves, given, cursor, os, arena, refused, gaps>>

\* It begins the instance, or puts the reservation back, or does not manage to
\* (the answer of reserve is dropped), and lets go of HELD.
MapFinish(t) ==
    /\ doing[t].call = "map"
    /\ IF doing[t].worked
         THEN Begin(doing[t].new) /\ UNCHANGED os
         ELSE /\ \E denied \in SUBSET {doing[t].new} : Reserve({doing[t].new}, denied)
              /\ UNCHANGED <<plane, maps, whose>>
    /\ Leave(t)
    /\ UNCHANGED <<carves, given, cursor, arena, refused, gaps>>

\* The program has something at every page, so that no other thread is given it.
Its(ps) == \A g \in GrainsOf(ps) : whose[g] # Nobody

\* A MAP_FIXED goes straight through, before HELD is taken.  Over what is not
\* its own the program maps only while its other threads map nothing.
FixedCall(t, ps, worked) ==
    /\ Free(t)
    /\ MoreMaps
    /\ Apart(ps)
    /\ Its(ps) \/ \A u \in Threads : doing[u] = Idle
    /\ gaps' = gaps \cup Over(ps)
    /\ KernelMaps(ps, worked) /\ Losing({})
    /\ Enter(t, IF Its(ps) THEN "fixed" ELSE "alone", {}, ps, worked)
    /\ UNCHANGED <<monitor, truth>>

\* fixed: what nobody owned becomes an instance, or is reserved again run by
\* run, each time with the answer dropped.
FixedFinish(t) ==
    /\ doing[t].call \in {"fixed", "alone"}
    /\ Unlocked
    /\ LET runs == FreeRuns(doing[t].new) IN
       IF doing[t].worked
         THEN /\ plane' = Claimed(plane, doing[t].new, runs)
              /\ whose' = Taken(doing[t].new, runs)
              /\ maps' = maps + Cardinality(runs)
              /\ UNCHANGED os
         ELSE /\ \E denied \in SUBSET runs : Reserve(runs, denied)
              /\ UNCHANGED <<plane, maps, whose>>
    /\ Leave(t)
    /\ UNCHANGED <<carves, given, cursor, arena, refused, gaps>>

-----------------------------------------------------------------------------
(* munmap                                                                  *)

\* Not all of what an allocator adopted as one goes with the pages.
CutsOff(ps) ==
    \E g \in Adopted \cap GrainsOf(ps), h \in Adopted \ GrainsOf(ps) : arena[g] = arena[h]

\* When the pages cannot be reserved munmap answers that it failed, and the
\* monitor takes them to be what they were.
Unmap(ps) ==
    /\ ~ refused /\ Unlocked
    /\ Apart(ps)
    /\ gaps' = gaps \cup Opens("cut", CutsOff(ps))
    /\ \E denied \in SUBSET {ps} :
        /\ Reserve({ps}, denied)
        /\ IF denied = {}
             THEN /\ plane' = Released(ps)
                  /\ given' = Forgotten(ps)
                  /\ whose' = Fill(whose, GrainsOf(ps), Nobody)
                  /\ arena' = Fill(arena, GrainsOf(ps), DEAD)
             ELSE UNCHANGED <<plane, given, whose, arena>>
    /\ UNCHANGED <<maps, carves, cursor, doing, refused>>

-----------------------------------------------------------------------------
(* mremap, of pages of one mapping                                         *)

\* What the kernel has when a mapping has moved.
KernelMoves(ps, to) ==
    kernel' = [p \in Pages |-> CASE p \in to -> "program"
                                 [] p \in ps -> "none"
                                 [] OTHER -> kernel[p]]

\* It shrinks in place: the kernel gives up the tail.
Shrink(t, ps, keep) ==
    LET tail == {p \in ps : p >= First(ps) + keep} IN
    /\ tail # {}
    /\ kernel' = Kernel(tail, "none") /\ Losing({})
    /\ Enter(t, "remap", tail, {}, TRUE)
    /\ UNCHANGED <<cursor, gaps>>

\* It grows, to a new place in the arena if there is one, or else out of it.
Grow(t, ps, size, worked) ==
    IF Placed(size) = {}
      THEN /\ worked
           /\ kernel' = Kernel(ps, "none") /\ Losing({})
           /\ Enter(t, "remap", ps, {}, TRUE)
           /\ UNCHANGED <<cursor, gaps>>
      ELSE \E to \in Placed(size) :
           /\ cursor' = First(to) + size
           /\ IF worked
                THEN KernelMoves(ps, to) /\ Enter(t, "grow", ps, to, TRUE)
                ELSE KernelMaps(to, FALSE) /\ Enter(t, "grow", {}, to, FALSE)
           /\ Losing({})
           /\ gaps' = gaps \cup Over(to)

\* It moves where the program says.  A move that fails after the kernel took
\* the target down is over: the row reserves only a place that it chose itself.
MoveTo(t, ps, to, worked) ==
    /\ ps \cap to = {} /\ Apart(to)
    /\ Its(to) \/ \A u \in Threads : doing[u] = Idle
    /\ IF worked
         THEN KernelMoves(ps, to) /\ Losing({}) /\ Enter(t, "remap", ps, to, TRUE)
         ELSE kernel' = Kernel(to, "none") /\ Losing(to) /\ UNCHANGED doing
    /\ gaps' = gaps \cup Over(to)
    /\ UNCHANGED cursor

\* The row up to the kernel's answer, with HELD.
RemapCall(t, ps) ==
    /\ Free(t) /\ Unlocked
    /\ MoreMaps
    /\ Apart(ps)
    /\ OneMapping(GrainsOf(ps), Start(First(ps)))
    /\ \A p \in ps : kernel[p] = "program"
    /\ \/ \E keep \in 1..Cardinality(ps) - 1 : Shrink(t, ps, keep)
       \/ \E size \in Cardinality(ps) + 1..PAGES, worked \in BOOLEAN :
            Grow(t, ps, size, worked)
       \/ \E size \in 1..PAGES, worked \in BOOLEAN : \E to \in Spans(size) :
            MoveTo(t, ps, to, worked)
    /\ UNCHANGED <<plane, maps, carves, given, truth>>

\* And from there on: the old pages are reserved and their instance ends, the
\* new ones begin.  Both answers of reserve are dropped: an instance whose
\* pages could not be reserved goes on where the program has nothing.
RemapFinish(t) ==
    LET old == doing[t].old
        new == doing[t].new
        runs == FreeRuns(new) IN
    /\ doing[t].call \in {"remap", "grow"}
    /\ IF doing[t].worked
         THEN \E denied \in SUBSET ({old} \ {{}}) :
              LET ends == old # {} /\ denied = {} IN
              /\ Reserve({old}, denied)
              /\ plane' = Claimed(IF ends THEN Released(old) ELSE plane, new, runs)
              /\ given' = IF ends THEN Forgotten(old) ELSE given
              /\ whose' = [g \in Granules |->
                            IF g \in GrainsOf(old) THEN Nobody ELSE Taken(new, runs)[g]]
              /\ maps' = maps + Cardinality(runs)
              /\ gaps' = gaps \cup Opens("left", denied # {})
         ELSE /\ \E denied \in SUBSET {new} : Reserve({new}, denied)
              /\ UNCHANGED <<plane, given, whose, maps, gaps>>
    /\ Leave(t)
    /\ UNCHANGED <<carves, cursor, arena, refused>>

-----------------------------------------------------------------------------
(* The allocator's calls, none of which takes HELD but adopt               *)

\* adopt of part of a mapping: surrender, or, when that answers no, an overlap
\* that leaves everything as it was.  The allocator is not told which.
Adopt(lo, hi) ==
    /\ ~ refused /\ Unlocked
    /\ OneMapping(Between(lo, hi), lo)
    /\ Apart({Page(g) : g \in Between(lo, hi)})
    /\ arena' = Fill(arena, Between(lo, hi), Key(whose[lo]))
    /\ whose' = Fill(whose, Between(lo, hi), Nobody)
    /\ LET free == {s \in Slots : given[s].hi = 0}
           version == plane[lo] IN
       IF owned(version) /\ plane[hi - 1] = version /\ free # {}
         THEN /\ given' = [given EXCEPT ![First(free)] =
                             [lo |-> lo, hi |-> hi, version |-> version]]
              /\ plane' = Fill(plane, Between(lo, hi), ended(version))
         ELSE UNCHANGED <<given, plane>>
    /\ gaps' = gaps \cup Opens("part", hi % GRAINS # 0)
                   \cup Opens("full", \A s \in Slots : given[s].hi # 0)
    /\ UNCHANGED <<maps, carves, cursor, os, doing, refused>>

\* split: an allocator carves storage that it adopted and has carved nothing
\* out of.
Split(lo, hi) ==
    /\ ~ refused
    /\ MoreCarves
    /\ \A g \in Between(lo, hi) : arena[g] = arena[lo] /\ whose[g] = Nobody
    /\ IF \E g \in Between(lo, hi) : owned(plane[g])
         THEN refused' = TRUE /\ UNCHANGED <<plane, carves, whose>>
         ELSE /\ plane' = Fill(plane, Between(lo, hi), begun(carves))
              /\ whose' = Fill(whose, Between(lo, hi), [by |-> "split", n |-> carves])
              /\ carves' = carves + 1
              /\ UNCHANGED refused
    /\ UNCHANGED <<maps, given, cursor, os, doing, arena, gaps>>

\* The instance of a granule begins there.
Begins(lo) == lo > 0 => whose[lo - 1] # whose[lo]

\* The object ends where a mapping of its number begins.
Meets(object) ==
    \E g \in Granules : /\ g + 1 \in Granules /\ whose[g] = object
                        /\ whose[g + 1] = [by |-> "mmap", n |-> object.n]

\* A slip: the walk goes one granule past the run.
RunPast(lo) ==
    {g \in Granules : g >= lo /\ \A h \in Between(lo, g) : plane[h] = plane[lo]}

\* How far a walk that stops where the version changes gets.
RunFrom(lo) ==
    {g \in Granules : g >= lo /\ \A h \in Between(lo, g + 1) : plane[h] = plane[lo]}

\* merge: an object the allocator carved goes back.
Merge(lo) ==
    /\ ~ refused
    /\ whose[lo].by = "split" /\ Begins(lo)
    /\ IF owned(plane[lo])
         THEN plane' = Fill(plane, RunFrom(lo), ended(plane[lo])) /\ UNCHANGED refused
         ELSE refused' = TRUE /\ UNCHANGED plane
    /\ whose' = [g \in Granules |-> IF whose[g] = whose[lo] THEN Nobody ELSE whose[g]]
    /\ gaps' = gaps \cup Opens("met", Meets(whose[lo]))
    /\ UNCHANGED <<maps, carves, given, cursor, os, doing, arena>>

\* purge: every object of a pool that starts where an object does.  The walk
\* ends an object whole that the range only starts.
Purge(lo, hi) ==
    LET owners == {whose[g] : g \in Between(lo, hi)} \ {Nobody} IN
    /\ ~ refused
    /\ \A g \in Between(lo, hi) : arena[g] = arena[lo]
    /\ whose[lo] # Nobody => Begins(lo)
    /\ owners # {}
    /\ plane' = [g \in Granules |->
                  IF \E h \in Between(lo, hi) : owned(plane[h]) /\ g \in RunFrom(h)
                    THEN ended(plane[g]) ELSE plane[g]]
    /\ whose' = [g \in Granules |-> IF whose[g] \in owners THEN Nobody ELSE whose[g]]
    /\ gaps' = gaps \cup Opens("met", \E object \in owners : Meets(object))
    /\ UNCHANGED <<maps, carves, given, cursor, os, doing, arena, refused>>

-----------------------------------------------------------------------------

Next ==
    \/ \E t \in Threads, size \in 1..PAGES, worked \in BOOLEAN :
        \/ MapCall(t, size, worked)
        \/ \E ps \in Spans(size) : FixedCall(t, ps, worked)
    \/ \E t \in Threads : MapFinish(t) \/ FixedFinish(t) \/ RemapFinish(t)
    \/ \E size \in 1..PAGES : \E ps \in Spans(size) :
        \/ Unmap(ps)
        \/ \E t \in Threads : RemapCall(t, ps)
    \/ \E lo \in Granules : \E hi \in lo + 1..PAGES * GRAINS : Adopt(lo, hi)
    \/ \E lo \in Adopted : \E hi \in lo + 1..PAGES * GRAINS :
        Split(lo, hi) \/ Purge(lo, hi)
    \/ \E lo \in Granules : Merge(lo)

Spec == Init /\ [][Next]_vars

-----------------------------------------------------------------------------

Call == [call : {"none", "map", "fixed", "alone", "grow", "remap"},
         old : SUBSET Pages, new : SUBSET Pages, worked : BOOLEAN]

\* The shape of the state.  An adopted mapping is kept as a range of granules
\* that is not empty, and HELD has one holder.
TypeOK ==
    /\ plane \in [Granules -> Nat]
    /\ maps \in Nat /\ carves \in Nat
    /\ \A s \in Slots :
        /\ given[s] \in [lo : Granules, hi : 0..PAGES * GRAINS, version : Nat]
        /\ given[s] = Empty \/ (given[s].lo < given[s].hi /\ owned(given[s].version))
    /\ cursor \in 0..PAGES
    /\ kernel \in [Pages -> {"reserved", "program", "none"}]
    /\ doing \in [Threads -> Call]
    /\ Cardinality({t \in Threads : doing[t].call \in Holding}) <= 1
    /\ whose \in [Granules -> Instance]
    /\ arena \in [Granules -> Nat]
    /\ refused \in BOOLEAN
    /\ lost \in SUBSET Pages
    /\ gaps \in SUBSET Gaps

\* What follows holds until the first of the gaps is gone through, whatever the
\* kernel refuses and whatever numbers mappings and objects have by then.
Sound == gaps = {}

\* The plane says of every granule exactly whose it is: every instance that is
\* alive is owned under its own version from one end to the other, so that no
\* pointer to it is refused, and whatever has ended is owned by nobody.
PlaneTells == Sound =>
    /\ TypeOK
    /\ \A g \in Granules :
        IF whose[g] = Nobody THEN ~ owned(plane[g]) ELSE plane[g] = Key(whose[g])

\* Nothing is placed over the program: where mmap has put a mapping, or a
\* growing mremap has, in a place that place found, there is neither an
\* instance nor anything an allocator adopted (why GIVEN is remembered).
PlacedFree == Sound =>
    \A t \in Threads : doing[t].call \in {"map", "grow"} =>
        \A g \in GrainsOf(doing[t].new) : whose[g] = Nobody /\ arena[g] = DEAD

\* Between calls a page is the program's or is reserved, unless it is lost; and
\* no page the program has is reserved away.
Ranged ==
    \A p \in Pages :
        /\ kernel[p] = "reserved" =>
             \A g \in GrainsOf({p}) : whose[g] = Nobody /\ arena[g] = DEAD
        /\ kernel[p] = "none" /\ Apart({p}) =>
             p \in lost \/ \E g \in GrainsOf({p}) : whose[g] # Nobody \/ arena[g] # DEAD

\* The range stays ours (mapping.rs, One arena), but for the pages that a move
\* to an address of the program's choosing took down and failed, or that
\* reserve was refused.
RangeKept == Sound => Ranged

\* An allocator reaches what it carves through the pointer mmap gave it (check
\* calls a pointer stale whose version is another's and was not surrendered).
ArenaReached == Sound => \A g \in Granules : arena[g] # DEAD => Surrendered(arena[g])

\* No split or merge is refused of an allocator that hands no storage out twice
\* and gives none back twice, which is all the two refusals are for (adopt.rs,
\* Who is allowed to call these).
NoneRefused == Sound => ~ refused

\* What a program has mapped stays its own, under the version it has, for as
\* long as the program has it: no merge, for one, ends more than the object it
\* is given ("The instance is a run of granules carrying one version, so the
\* plane already knows where it ends").
MappingStays ==
    [][\A g \in Granules : whose[g].by = "mmap" /\ whose'[g] = whose[g] =>
        plane'[g] = plane[g]]_vars

=============================================================================
