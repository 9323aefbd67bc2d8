--------------------------- MODULE MappingsInvariant ---------------------------
(***************************************************************************)
(* The inductive invariant of Mappings.  PlaneTells is about one granule   *)
(* and the rows of the monitor look at the first granule of a page, at a   *)
(* run of one version and at what GIVEN has; the parts below say how what  *)
(* they look at relates to the granules they do not look at, and what a    *)
(* call that is under way has to itself.                                   *)
(***************************************************************************)
EXTENDS Mappings

\* A mapping's number and an object's are each from a counter of its own.
Numbered ==
    /\ maps \in Nat \ {0} /\ carves \in Nat \ {0}
    /\ \A g \in Granules :
        \/ whose[g] = Nobody
        \/ whose[g] \in [by : {"mmap"}, n : 1..maps - 1]
        \/ whose[g] \in [by : {"split"}, n : 1..carves - 1]

\* The plane says whose each granule is.
Tells(g) == IF whose[g] = Nobody THEN ~ owned(plane[g]) ELSE plane[g] = Key(whose[g])

Told == \A g \in Granules : Tells(g)

\* A page is one mapping's, or nobody's, up to where an allocator adopted it;
\* only an allocator carves, and only what it adopted.
Paged ==
    \A g \in Granules :
        /\ IF arena[g] = DEAD THEN whose[g].by # "split" ELSE whose[g].by # "mmap"
        /\ \A h \in Granules : Page(h) = Page(g) =>
            /\ arena[g] = DEAD /\ arena[h] = DEAD => whose[h] = whose[g]
            /\ arena[g] # DEAD /\ g < h => arena[h] = arena[g]

\* What was carved as one lies in one arena, without a gap.
Objects ==
    \A g, h \in Granules : g < h /\ whose[g] = whose[h] /\ whose[g].by = "split" =>
        \A k \in Between(g, h) : whose[k] = whose[g] /\ arena[k] = arena[h]

\* GIVEN has what the allocators adopted.
Gives(s, g) == given[s].hi # 0 /\ g \in Between(given[s].lo, given[s].hi)

Given ==
    /\ \A s \in Slots :
        \/ given[s] = Empty
        \/ /\ given[s] \in [lo : Granules, hi : 1..PAGES * GRAINS, version : Nat]
           /\ given[s].lo < given[s].hi /\ owned(given[s].version)
           /\ \A g \in Between(given[s].lo, given[s].hi) : arena[g] = given[s].version
    /\ \A g \in Granules : arena[g] # DEAD => \E s \in Slots : Gives(s, g)

\* The pages nobody owns are one run, if there are any.
OneRun(ps) == \A r, s \in FreeRuns(ps) : r = s

\* The pages are nobody's, and no allocator's.
Vacant(ps) == \A g \in GrainsOf(ps) : whose[g] = Nobody /\ arena[g] = DEAD

\* What a call that is under way has of the arena.
Has(mine) ==
    /\ mine.call = "none" => mine = Idle
    /\ mine.call \notin {"grow", "remap"} => mine.old = {}
    /\ mine.old \cap mine.new = {}
    /\ mine.call \in {"map", "grow"} => Vacant(mine.new)
    /\ mine.call = "fixed" => Its(mine.new)
    /\ mine.call = "remap" => mine.worked
    /\ mine.call = "grow" /\ ~ mine.worked => mine.old = {}
    /\ mine.worked => \A p \in mine.new : kernel[p] = "program"
    /\ \A g \in GrainsOf(mine.old \cup mine.new) : arena[g] = DEAD
    /\ mine.call # "map" => OneRun(mine.new)

Occupied(t) == doing[t].old \cup doing[t].new

\* HELD has one holder, and no two calls have a page in common.
Held ==
    /\ \A t \in Threads : Has(doing[t])
    /\ \A t, u \in Threads : t # u =>
        /\ doing[t].call \in Holding => doing[u].call \notin Holding
        /\ Occupied(t) \cap Occupied(u) = {}

Shaped ==
    /\ plane \in [Granules -> Nat]
    /\ given \in [Slots -> [lo : Granules \cup {0}, hi : 0..PAGES * GRAINS, version : Nat]]
    /\ cursor \in 0..PAGES
    /\ kernel \in [Pages -> {"reserved", "program", "none"}]
    /\ doing \in [Threads -> Call]
    /\ whose \in [Granules -> Instance]
    /\ arena \in [Granules -> Nat]
    /\ refused = FALSE
    /\ lost \in SUBSET Pages

\* What holds until the first of the gaps is gone through.
Kept == Shaped /\ Numbered /\ Told /\ Paged /\ Objects /\ Given /\ Held /\ Ranged

MappingsInv ==
    /\ gaps \in SUBSET Gaps
    /\ Sound => Kept

=============================================================================
