---------------------------- MODULE MappingsProofs ----------------------------
(***************************************************************************)
(* What the rows of mapping.rs and adopt.rs keep, for every arena, number  *)
(* of threads and size of GIVEN, until a call goes through one of the      *)
(* gaps.  Kept is inductive as long as the step opens none: the steps that *)
(* start a call all go by CallKeeps, those that end one by Settled, those  *)
(* that the kernel refused at once by TakenDown, and an allocator's by     *)
(* CarvesKeep; munmap and adopt, which change GIVEN, stand by themselves.  *)
(***************************************************************************)
EXTENDS MappingsInvariant, FiniteSetTheorems, TLAPS

-----------------------------------------------------------------------------
(* Pages and granules                                                      *)

\* Half-open ranges of granules that start at a page.
LEMMA Division ==
    ASSUME NEW g \in Nat, NEW d \in Nat \ {0}
    PROVE  /\ g \div d \in Nat
           /\ (g \div d) * d <= g /\ g < (g \div d) * d + d
OBVIOUS

LEMMA Quotient ==
    ASSUME NEW g \in Nat, NEW d \in Nat \ {0}, NEW q \in Nat, q * d <= g, g < q * d + d
    PROVE  g \div d = q
OBVIOUS

LEMMA TimesGrows ==
    ASSUME NEW a \in Nat, NEW b \in Nat, NEW d \in Nat, a < b
    PROVE  a * d + d <= b * d
OBVIOUS

LEMMA Exact ==
    ASSUME NEW h \in Nat, NEW d \in Nat \ {0}, h % d = 0
    PROVE  h = (h \div d) * d
OBVIOUS

LEMMA Arena ==
    /\ PAGES \in Nat \ {0} /\ GRAINS \in Nat \ {0} /\ PAGES * GRAINS \in Nat
    /\ Granules \subseteq Nat /\ Pages \subseteq Nat
    /\ \A g \in Granules : g < PAGES * GRAINS
BY MappingsAssumption DEF Granules, Pages

\* The page of a granule, and where it starts.
LEMMA PageOf ==
    ASSUME NEW g \in Granules
    PROVE  /\ Page(g) \in Pages /\ Start(Page(g)) \in Granules
           /\ Start(Page(g)) <= g /\ g < Start(Page(g)) + GRAINS
<1> DEFINE p == g \div GRAINS
<1>1. g \in Nat /\ g < PAGES * GRAINS /\ PAGES \in Nat /\ GRAINS \in Nat \ {0}
      /\ PAGES * GRAINS \in Nat
  BY Arena
<1>2. p \in Nat /\ p * GRAINS <= g /\ g < p * GRAINS + GRAINS /\ p * GRAINS \in Nat
  BY <1>1, Division
<1> HIDE DEF p
<1>3. p < PAGES
  <2>1. CASE PAGES < p
    BY <1>1, <1>2, <2>1, TimesGrows
  <2>2. QED
    BY <1>1, <1>2, <2>1
<1>4. QED
  BY <1>1, <1>2, <1>3 DEF p, Page, Start, Pages, Granules

LEMMA StartOf ==
    ASSUME NEW p \in Pages
    PROVE  Start(p) \in Granules /\ Page(Start(p)) = p
<1>1. p \in Nat /\ p < PAGES /\ PAGES \in Nat /\ GRAINS \in Nat \ {0}
  BY Arena DEF Pages
<1>2. p * GRAINS \in Nat /\ p * GRAINS + GRAINS <= PAGES * GRAINS
  BY <1>1, TimesGrows
<1>3. (p * GRAINS) \div GRAINS = p
  BY <1>1, <1>2, Quotient
<1>4. QED
  BY <1>1, <1>2, <1>3 DEF Start, Page, Granules

\* A page lies on one side of the end of a page.
LEMMA Aligned ==
    ASSUME NEW hi \in Nat, hi % GRAINS = 0,
           NEW g \in Granules, NEW h \in Granules, Page(g) = Page(h), g < hi
    PROVE  h < hi
<1> DEFINE p == Page(g)
           q == hi \div GRAINS
<1>1. GRAINS \in Nat \ {0} /\ p \in Nat /\ g \in Nat /\ h \in Nat
  BY Arena, PageOf
<1>2. p * GRAINS <= g /\ h < p * GRAINS + GRAINS
  BY PageOf DEF Start
<1>3. hi = q * GRAINS /\ q \in Nat
  BY <1>1, Exact, Division
<1> HIDE DEF p, q
<1>4. p < q
  <2>1. CASE q < p
    BY <1>1, <1>2, <1>3, <2>1, TimesGrows
  <2>2. QED
    BY <1>1, <1>2, <1>3, <2>1
<1>5. p * GRAINS + GRAINS <= hi
  BY <1>1, <1>3, <1>4, TimesGrows
<1>6. QED
  BY <1>1, <1>2, <1>3, <1>5

\* What lies between two granules of a page is of the page.
LEMMA Inside ==
    ASSUME NEW g \in Granules, NEW h \in Granules, Page(g) = Page(h),
           NEW k \in Granules, g <= k, k <= h
    PROVE  Page(k) = Page(g)
<1> DEFINE p == Page(g)
<1>1. GRAINS \in Nat \ {0} /\ p \in Nat /\ g \in Nat /\ h \in Nat /\ k \in Nat
  BY Arena, PageOf
<1>2. p * GRAINS <= g /\ h < p * GRAINS + GRAINS
  BY PageOf DEF Start
<1> HIDE DEF p
<1>3. k \div GRAINS = p
  BY <1>1, <1>2, Quotient
<1>4. QED
  BY <1>3 DEF p, Page

-----------------------------------------------------------------------------
(* Runs of pages                                                           *)

\* A set of numbers has a least one: of the finite sets of its members up to
\* one of them, the smallest is a single one's.
LEMMA Least ==
    ASSUME NEW S \in SUBSET Nat, S # {}
    PROVE  \E m \in S : \A n \in S : m <= n
<1> DEFINE Below(n) == {k \in S : k <= n}
           All == {Below(n) : n \in S}
           R == StrictSubsetOrdering(Nat)
<1>1. IsWellFoundedOn(R, FiniteSubsetsOf(Nat))
  BY FS_StrictSubsetOrderingWellFounded
<1>2. All \subseteq FiniteSubsetsOf(Nat)
  <2> SUFFICES ASSUME NEW n \in S PROVE Below(n) \in FiniteSubsetsOf(Nat)
    OBVIOUS
  <2>1. n \in Nat /\ Below(n) \in SUBSET Nat /\ \A k \in Below(n) : k <= n
    OBVIOUS
  <2>2. IsFiniteSet(Below(n))
    BY <2>1, FS_BoundedSetOfNaturals
  <2>3. QED
    BY <2>1, <2>2 DEF FiniteSubsetsOf
<1>3. All # {}
  OBVIOUS
<1> HIDE DEF All, R
<1>4. PICK least \in All : \A other \in All : ~ (<<other, least>> \in R)
  BY <1>1, <1>2, <1>3, WFMin
<1>5. PICK m \in S : least = Below(m)
  BY <1>4 DEF All
<1>6. ASSUME NEW n \in S PROVE m <= n
  <2>1. SUFFICES ASSUME n < m PROVE FALSE
    BY <2>1
  <2>0. m \in Nat /\ n \in Nat /\ \A k \in S : k \in Nat
    OBVIOUS
  <2>2. m \in Below(m) /\ m \notin Below(n)
    BY <2>0, <2>1
  <2>3. Below(n) \subseteq Below(m)
    <3> SUFFICES ASSUME NEW k \in S, k <= n PROVE k <= m
      OBVIOUS
    <3>1. k \in Nat
      OBVIOUS
    <3>2. QED
      BY <2>0, <2>1, <3>1
  <2>4. Below(n) \in SUBSET Nat /\ Below(m) \in SUBSET Nat
    OBVIOUS
  <2>5. Below(n) \in All
    BY DEF All
  <2> HIDE DEF Below
  <2>6. <<Below(n), Below(m)>> \in R
    BY <2>2, <2>3, <2>4 DEF R, StrictSubsetOrdering
  <2>7. QED
    BY <1>4, <1>5, <2>5, <2>6
<1>7. QED
  BY <1>6

LEMMA FirstOf ==
    ASSUME NEW S \in SUBSET Nat, S # {}
    PROVE  First(S) \in S /\ \A n \in S : First(S) <= n
<1>1. \E m \in S : \A n \in S : m <= n
  BY Least
<1>2. QED
  BY <1>1 DEF First

\* The pages of a span, and the first of them.
LEMMA SpanOf ==
    ASSUME NEW size \in 1..PAGES, NEW ps \in Spans(size)
    PROVE  /\ ps \in SUBSET Pages /\ ps # {} /\ First(ps) \in ps
           /\ First(ps) + size \in 0..PAGES
<1>1. PICK p \in 0..PAGES - size : ps = p..p + size - 1
  BY DEF Spans
<1>2. PAGES \in Nat /\ p \in Nat /\ size \in Nat \ {0} /\ p + size <= PAGES
  BY <1>1, Arena
<1>3. ps \in SUBSET Nat /\ p \in ps /\ \A q \in ps : p <= q
  BY <1>1, <1>2
<1>4. First(ps) \in ps /\ \A q \in ps : First(ps) <= q
  BY <1>3, FirstOf
<1>5. First(ps) = p
  <2>1. First(ps) <= p /\ p <= First(ps) /\ First(ps) \in Nat
    BY <1>3, <1>4
  <2>2. QED
    BY <1>2, <2>1
<1>6. QED
  BY <1>1, <1>2, <1>3, <1>5 DEF Pages

\* A walk by pages meets each page that nobody owns in one run.
LEMMA RunsOf ==
    ASSUME NEW ps \in SUBSET Pages
    PROVE  /\ FreeRuns(ps) \in SUBSET SUBSET ps
           /\ {} \notin FreeRuns(ps)
           /\ UNION FreeRuns(ps) = {p \in ps : ~ owned(PageVersion(p))}
<1>1. Pages \subseteq Nat
  BY Arena
<1>2. ASSUME NEW p \in ps, NEW q \in ps, RunsTogether(ps, p, q)
      PROVE  PageVersion(q) = PageVersion(p)
  BY <1>1, <1>2 DEF RunsTogether
<1>3. ASSUME NEW p \in ps
      PROVE  RunsTogether(ps, p, p)
  <2> SUFFICES ASSUME NEW r \in Pages, (p <= r /\ r <= p) \/ (p <= r /\ r <= p)
               PROVE  r \in ps /\ PageVersion(r) = PageVersion(p)
    BY DEF RunsTogether
  <2>1. r = p
    BY <1>1
  <2>2. QED
    BY <2>1
<1>4. ASSUME NEW run \in FreeRuns(ps)
      PROVE  /\ run \in SUBSET ps /\ run # {}
             /\ \A q \in run : ~ owned(PageVersion(q))
  <2>1. PICK p \in ps : ~ owned(PageVersion(p)) /\ run = {q \in ps : RunsTogether(ps, p, q)}
    BY DEF FreeRuns
  <2>2. p \in run
    BY <2>1, <1>3
  <2>3. QED
    BY <2>1, <2>2, <1>2
<1>5. ASSUME NEW p \in ps, ~ owned(PageVersion(p))
      PROVE  p \in UNION FreeRuns(ps)
  BY <1>3, <1>5 DEF FreeRuns
<1>6. QED
  BY <1>4, <1>5

\* The walk reads no more than the first granule of each page of the range.
LEMMA RunsKept ==
    ASSUME NEW ps \in SUBSET Pages, \A p \in ps : PageVersion(p)' = PageVersion(p)
    PROVE  FreeRuns(ps)' = FreeRuns(ps)
<1>1. ASSUME NEW p \in ps, NEW q \in ps
      PROVE  RunsTogether(ps, p, q)' <=> RunsTogether(ps, p, q)
  BY DEF RunsTogether
<1>2. QED
  BY <1>1 DEF FreeRuns

LEMMA RunsFinite ==
    ASSUME NEW ps \in SUBSET Pages
    PROVE  IsFiniteSet(FreeRuns(ps))
<1>1. PAGES - 1 \in Int /\ 0 \in Int
  BY Arena
<1>2. IsFiniteSet(Pages)
  BY <1>1, FS_Interval DEF Pages
<1>3. IsFiniteSet(ps)
  BY <1>2, FS_Subset
<1>4. IsFiniteSet(SUBSET ps)
  BY <1>3, FS_SUBSET
<1>5. QED
  BY <1>4, RunsOf, FS_Subset

LEMMA RunsCounted ==
    ASSUME NEW ps \in SUBSET Pages, OneRun(ps)
    PROVE  \/ FreeRuns(ps) = {} /\ Cardinality(FreeRuns(ps)) = 0
           \/ Cardinality(FreeRuns(ps)) = 1
<1>1. CASE FreeRuns(ps) = {}
  BY <1>1, FS_EmptySet
<1>2. CASE FreeRuns(ps) # {}
  <2>1. PICK r : FreeRuns(ps) = {r}
    BY <1>2 DEF OneRun
  <2>2. QED
    BY <2>1, FS_Singleton
<1>3. QED
  BY <1>1, <1>2

\* What a claim of one run makes of the plane and of the program's own.
Unowned(ps, g) == Page(g) \in ps /\ ~ owned(PageVersion(Page(g)))

LEMMA ClaimedOne ==
    ASSUME NEW ps \in SUBSET Pages, OneRun(ps), maps \in Nat, NEW f
    PROVE  Claimed(f, ps, FreeRuns(ps)) =
             [g \in Granules |-> IF Unowned(ps, g) THEN begun(maps) ELSE f[g]]
<1> DEFINE runs == FreeRuns(ps)
<1>1. \A g \in Granules : Unowned(ps, g) <=> \E run \in runs : Page(g) \in run
  BY RunsOf DEF Unowned
<1>2. ASSUME NEW g \in Granules, Unowned(ps, g)
      PROVE  LET mine == CHOOSE run \in runs : Page(g) \in run IN
             begun(maps + Cardinality({run \in runs : First(run) < First(mine)})) = begun(maps)
  <2> DEFINE mine == CHOOSE run \in runs : Page(g) \in run
  <2>1. mine \in runs
    BY <1>1, <1>2
  <2> HIDE DEF mine
  <2>2. mine \in SUBSET Nat /\ mine # {}
    <3>1. FreeRuns(ps) \in SUBSET SUBSET ps /\ {} \notin FreeRuns(ps)
      BY RunsOf
    <3>2. mine \in SUBSET ps /\ mine # {}
      BY <2>1, <3>1
    <3>3. QED
      BY <3>2, Arena
  <2>3. First(mine) \in Nat
    BY <2>2, FirstOf
  <2>4. {run \in runs : First(run) < First(mine)} = {}
    BY <2>1, <2>3 DEF OneRun
  <2>5. maps + Cardinality({run \in runs : First(run) < First(mine)}) = maps
    BY <2>4, FS_EmptySet
  <2>6. QED
    BY <2>5 DEF mine
<1>3. QED
  BY <1>1, <1>2 DEF Claimed

LEMMA TakenOne ==
    ASSUME NEW ps \in SUBSET Pages
    PROVE  Taken(ps, FreeRuns(ps)) =
             [g \in Granules |->
                IF Unowned(ps, g) THEN [by |-> "mmap", n |-> maps] ELSE whose[g]]
<1>1. \A g \in Granules : g \in GrainsOf(UNION FreeRuns(ps)) <=> Unowned(ps, g)
  BY RunsOf DEF Unowned, GrainsOf
<1>2. QED
  BY <1>1 DEF Taken, Fill

-----------------------------------------------------------------------------
(* Versions                                                                *)

LEMMA Begun ==
    ASSUME NEW n \in Nat \ {0}
    PROVE  owned(begun(n)) /\ begun(n) \in Nat
BY DEF begun, owned, DEAD

LEMMA Ended ==
    ASSUME NEW v \in Nat
    PROVE  ended(v) \in Nat /\ ~ owned(ended(v))
BY DEF ended, owned, DEAD

LEMMA Twice ==
    ASSUME NEW m \in Nat, NEW n \in Nat, begun(m) = begun(n)
    PROVE  m = n
BY DEF begun

\* Every instance there is has a key no other of its kind has.
LEMMA Keys ==
    ASSUME Numbered, NEW g \in Granules, whose[g] # Nobody
    PROVE  /\ whose[g].n \in Nat \ {0} /\ owned(Key(whose[g])) /\ Key(whose[g]) \in Nat
           /\ whose[g].by \in {"mmap", "split"}
           /\ whose[g] = [by |-> whose[g].by, n |-> whose[g].n]
           /\ \A h \in Granules : whose[h] # Nobody /\ Key(whose[h]) = Key(whose[g]) =>
                \/ whose[h] = whose[g]
                \/ /\ whose[h] = [by |-> whose[h].by, n |-> whose[g].n]
                   /\ whose[h].by # whose[g].by
<1>1. maps \in Nat /\ carves \in Nat
  BY DEF Numbered
<1>2. ASSUME NEW h \in Granules, whose[h] # Nobody
      PROVE  \/ whose[h] \in [by : {"mmap"}, n : 1..maps - 1]
             \/ whose[h] \in [by : {"split"}, n : 1..carves - 1]
  BY <1>2 DEF Numbered
<1>3. ASSUME NEW h \in Granules, whose[h] # Nobody
      PROVE  /\ whose[h].n \in Nat \ {0} /\ whose[h].by \in {"mmap", "split"}
             /\ whose[h] = [by |-> whose[h].by, n |-> whose[h].n]
  BY <1>1, <1>2, <1>3
<1>4. ASSUME NEW h \in Granules, whose[h] # Nobody, Key(whose[h]) = Key(whose[g])
      PROVE  whose[h].n = whose[g].n
  BY <1>3, <1>4, Twice DEF Key
<1>5. owned(Key(whose[g])) /\ Key(whose[g]) \in Nat
  BY <1>3, Begun DEF Key
<1>6. ASSUME NEW h \in Granules, whose[h] # Nobody, Key(whose[h]) = Key(whose[g])
      PROVE  \/ whose[h] = whose[g]
             \/ /\ whose[h] = [by |-> whose[h].by, n |-> whose[g].n]
                /\ whose[h].by # whose[g].by
  BY <1>3, <1>4, <1>6
<1>7. QED
  BY <1>3, <1>5, <1>6

\* A granule is owned exactly when it is somebody's.
LEMMA Owners ==
    ASSUME Numbered, Told, NEW g \in Granules
    PROVE  /\ owned(plane[g]) <=> whose[g] # Nobody
           /\ whose[g] # Nobody => plane[g] = Key(whose[g])
<1>1. Tells(g)
  BY DEF Told
<1>2. QED
  BY <1>1, Keys DEF Tells

\* Who owns two granules under one version: one instance, or two of which one
\* is a mapping and the other an object of the same number.
LEMMA SameOwner ==
    ASSUME Numbered, Told, NEW g \in Granules, NEW h \in Granules, whose[g] # Nobody
    PROVE  /\ whose[h] = whose[g] => plane[h] = plane[g]
           /\ plane[h] = plane[g] =>
                \/ whose[h] = whose[g]
                \/ /\ whose[h] = [by |-> whose[h].by, n |-> whose[g].n]
                   /\ whose[h].by # whose[g].by /\ whose[h].by \in {"mmap", "split"}
<1>1. owned(plane[g]) /\ plane[g] = Key(whose[g])
  BY Owners
<1>2. plane[h] = plane[g] => whose[h] # Nobody /\ Key(whose[h]) = Key(whose[g])
  BY <1>1, Owners
<1>3. whose[h] = whose[g] => plane[h] = Key(whose[h])
  BY Owners
<1>4. whose[h] # Nobody => whose[h].by \in {"mmap", "split"}
  BY Keys
<1>5. whose[h] # Nobody /\ Key(whose[h]) = Key(whose[g]) =>
        \/ whose[h] = whose[g]
        \/ /\ whose[h] = [by |-> whose[h].by, n |-> whose[g].n]
           /\ whose[h].by # whose[g].by
  BY Keys
<1>6. QED
  BY <1>1, <1>2, <1>3, <1>4, <1>5

-----------------------------------------------------------------------------
(* What place finds                                                        *)

LEMMA PlacedVacant ==
    ASSUME Kept, NEW size \in 1..PAGES, NEW ps \in Placed(size)
    PROVE  ps \in Spans(size) /\ Vacant(ps) /\ \A p \in ps : ~ owned(PageVersion(p))
<1>1. ps \in Spans(size) /\ Fits(ps)
  BY DEF Placed
<1>2. ps \in SUBSET Pages
  BY <1>1, SpanOf
<1>3. \A p \in ps : ~ owned(PageVersion(p))
  BY <1>1 DEF Fits
<1>4. ASSUME NEW g \in GrainsOf(ps) PROVE arena[g] = DEAD
  <2>1. g \in Granules
    BY DEF GrainsOf
  <2>2. \A s \in Slots : g \notin Between(given[s].lo, given[s].hi)
    BY <1>1 DEF Fits
  <2>3. QED
    BY <2>1, <2>2 DEF Kept, Given, Gives
<1>5. ASSUME NEW g \in GrainsOf(ps) PROVE whose[g] = Nobody
  <2>1. g \in Granules /\ Page(g) \in ps
    BY DEF GrainsOf
  <2>2. Start(Page(g)) \in GrainsOf(ps) /\ Start(Page(g)) \in Granules
        /\ Page(Start(Page(g))) = Page(g)
    BY <1>2, <2>1, StartOf DEF GrainsOf
  <2>3. whose[Start(Page(g))] = Nobody
    BY <1>3, <2>1, <2>2, Owners DEF PageVersion, Kept
  <2>4. QED
    BY <1>4, <2>1, <2>2, <2>3 DEF Kept, Paged
<1>6. QED
  BY <1>1, <1>3, <1>4, <1>5 DEF Vacant

-----------------------------------------------------------------------------
(* Calls and their ends                                                    *)

\* The pages that are lost stay so while the kernel has nothing there.
Lasting ==
    /\ lost' \in SUBSET Pages
    /\ \A p \in lost : kernel'[p] = "none" => p \in lost'

LEMMA Lost ==
    ASSUME Kept, NEW ps \in SUBSET Pages, Losing(ps)
    PROVE  Lasting /\ \A p \in ps : kernel'[p] = "none" => p \in lost'
BY DEF Kept, Shaped, Losing, Lasting

\* The pages of some ranges are reserved, or stay what they were, or are lost.
LEMMA Reserves ==
    ASSUME Kept, NEW ranges \in SUBSET SUBSET Pages, NEW denied \in SUBSET ranges,
           Reserve(ranges, denied)
    PROVE  /\ kernel' \in [Pages -> {"reserved", "program", "none"}] /\ Lasting
           /\ \A p \in Pages :
                \/ kernel'[p] = kernel[p]
                \/ p \in UNION ranges /\ kernel'[p] \in {"reserved", "none"}
           /\ \A p \in UNION ranges : kernel'[p] = "none" => p \in lost'
           /\ denied = {} => \A p \in UNION ranges : kernel'[p] = "reserved"
           /\ denied = ranges =>
                \A p \in Pages : kernel'[p] = "reserved" => kernel[p] = "reserved"
<1>1. PICK down \in SUBSET denied :
        kernel' = [p \in Pages |->
                    IF p \in UNION (ranges \ denied) THEN "reserved"
                    ELSE IF p \in UNION down THEN "none" ELSE kernel[p]]
  BY DEF Reserve
<1>2. kernel \in [Pages -> {"reserved", "program", "none"}]
  BY DEF Kept, Shaped
<1>3. UNION denied \in SUBSET Pages /\ UNION ranges \in SUBSET Pages
  OBVIOUS
<1>4. Lasting /\ \A p \in UNION denied : kernel'[p] = "none" => p \in lost'
  BY <1>3, Lost DEF Reserve
<1>5. ASSUME NEW p \in Pages
      PROVE  /\ kernel'[p] \in {"reserved", "program", "none"}
             /\ \/ kernel'[p] = kernel[p]
                \/ p \in UNION ranges /\ kernel'[p] \in {"reserved", "none"}
  BY <1>1, <1>2
<1>6. kernel' \in [Pages -> {"reserved", "program", "none"}]
  BY <1>1, <1>5
<1>7. ASSUME NEW p \in UNION ranges, p \notin UNION denied \/ denied = {}
      PROVE  kernel'[p] = "reserved"
  BY <1>1, <1>3, <1>7
<1>8. ASSUME denied = ranges, NEW p \in Pages, kernel'[p] = "reserved"
      PROVE  kernel[p] = "reserved"
  BY <1>1, <1>8
<1>9. QED
  BY <1>4, <1>5, <1>6, <1>7, <1>8

\* What a call has to itself stays so while others keep off its pages.
LEMMA HasKept ==
    ASSUME NEW mine \in Call, Has(mine),
           \A g \in GrainsOf(mine.old \cup mine.new) :
               plane'[g] = plane[g] /\ whose'[g] = whose[g] /\ arena'[g] = arena[g],
           \A p \in mine.new : kernel'[p] = kernel[p]
    PROVE  Has(mine)'
<1>1. mine.new \in SUBSET Pages /\ mine.old \in SUBSET Pages
  BY DEF Call
<1>2. \A p \in mine.new : PageVersion(p)' = PageVersion(p)
  <2> SUFFICES ASSUME NEW p \in mine.new PROVE plane'[Start(p)] = plane[Start(p)]
    BY DEF PageVersion
  <2>1. Start(p) \in GrainsOf(mine.old \cup mine.new)
    BY <1>1, StartOf DEF GrainsOf
  <2>2. QED
    BY <2>1
<1>3. FreeRuns(mine.new)' = FreeRuns(mine.new)
  BY <1>1, <1>2, RunsKept
<1>4. GrainsOf(mine.new) \subseteq GrainsOf(mine.old \cup mine.new)
  BY DEF GrainsOf
<1>5. Vacant(mine.new) => Vacant(mine.new)'
  BY <1>4 DEF Vacant
<1>6. Its(mine.new) => Its(mine.new)'
  BY <1>4 DEF Its
<1>7. OneRun(mine.new) => OneRun(mine.new)'
  BY <1>3 DEF OneRun
<1>8. QED
  BY <1>5, <1>6, <1>7 DEF Has

-----------------------------------------------------------------------------
(* Calls and their ends                                                    *)

\* What nobody's call is about is untouched by the call.
LEMMA CallKeeps ==
    ASSUME Kept, NEW t \in Threads, NEW d \in Call,
           doing[t] = Idle, doing' = [doing EXCEPT ![t] = d], Lasting,
           UNCHANGED <<plane, maps, carves, given, truth>>,
           cursor' \in 0..PAGES,
           kernel' \in [Pages -> {"reserved", "program", "none"}],
           \A p \in Pages : /\ kernel'[p] = "reserved" => kernel[p] = "reserved"
                            /\ p \notin d.old \cup d.new => kernel'[p] = kernel[p],
           \A u \in Threads \ {t} :
               /\ Occupied(u) \cap (d.old \cup d.new) = {}
               /\ d.call \in Holding => doing[u].call \notin Holding,
           Has(d)'
    PROVE  Kept'
<1>1. /\ doing \in [Threads -> Call] /\ doing' \in [Threads -> Call]
      /\ doing'[t] = d /\ \A u \in Threads \ {t} : doing'[u] = doing[u]
  BY DEF Kept, Shaped
<1>2. Shaped'
  BY <1>1 DEF Kept, Shaped, truth, Lasting
<1>3. Numbered'
  BY DEF Kept, Numbered, truth
<1>4. Told' /\ Paged' /\ Objects' /\ Given'
  BY DEF Kept, Told, Tells, Paged, Objects, Given, Gives, truth
<1>5. \A u \in Threads \ {t} : Has(doing[u])'
  <2> SUFFICES ASSUME NEW u \in Threads \ {t}, NEW mine \in Call, mine = doing[u]
               PROVE  Has(mine)'
    BY <1>1
  <2>1. Has(mine)
    BY DEF Kept, Held
  <2>2. \A p \in mine.new : kernel'[p] = kernel[p]
    BY DEF Occupied, Call
  <2>3. QED
    BY <2>1, <2>2, HasKept DEF truth
<1>6. Held'
  <2>1. \A u \in Threads : Has(doing[u])'
    BY <1>1, <1>5
  <2>2. \A u, v \in Threads : u # v =>
          /\ doing'[u].call \in Holding => doing'[v].call \notin Holding
          /\ Occupied(u)' \cap Occupied(v)' = {}
    BY <1>1 DEF Kept, Held, Occupied
  <2>3. QED
    BY <2>1, <2>2 DEF Held
<1>7. Ranged'
  <2> SUFFICES ASSUME NEW p \in Pages
               PROVE  /\ kernel'[p] = "reserved" =>
                           \A g \in GrainsOf({p}) : whose[g] = Nobody /\ arena[g] = DEAD
                      /\ kernel'[p] = "none" /\ Apart({p})' => p \in lost' \/
                           \E g \in GrainsOf({p}) : whose[g] # Nobody \/ arena[g] # DEAD
    BY DEF Ranged, truth
  <2>1. Apart({p})' => p \notin d.old \cup d.new /\ Apart({p})
    BY <1>1 DEF Apart, Idle
  <2>2. QED
    BY <2>1 DEF Kept, Ranged, Lasting
<1>8. QED
  BY <1>2, <1>3, <1>4, <1>6, <1>7 DEF Kept

\* A call that nobody is in the middle of leaves the others what they have.
LEMMA OthersKeep ==
    ASSUME Kept, doing' = doing,
           \A t \in Threads : \A g \in GrainsOf(Occupied(t)) :
               plane'[g] = plane[g] /\ whose'[g] = whose[g] /\ arena'[g] = arena[g],
           \A t \in Threads : \A p \in doing[t].new : kernel'[p] = kernel[p]
    PROVE  Held'
<1>1. \A t \in Threads : Has(doing[t])'
  <2> SUFFICES ASSUME NEW t \in Threads, NEW mine \in Call, mine = doing[t]
               PROVE  Has(mine)'
    BY DEF Kept, Shaped
  <2>1. Has(mine)
    BY DEF Kept, Held
  <2>2. \A g \in GrainsOf(mine.old \cup mine.new) :
          plane'[g] = plane[g] /\ whose'[g] = whose[g] /\ arena'[g] = arena[g]
    BY DEF Occupied
  <2>3. QED
    BY <2>1, <2>2, HasKept
<1>2. QED
  BY <1>1 DEF Kept, Held, Occupied

\* Where place finds room no other thread is at work.
LEMMA VacantApart ==
    ASSUME Kept, NEW t \in Threads, NEW u \in Threads \ {t},
           Free(t), Unlocked, NEW ps \in SUBSET Pages, Vacant(ps)
    PROVE  Occupied(u) \cap ps = {}
<1>1. doing[u] \in Call /\ doing[u].call \in {"none", "fixed"} /\ Has(doing[u])
  BY DEF Free, Unlocked, Holding, Kept, Shaped, Held, Call
<1>2. CASE doing[u].call = "none"
  BY <1>1, <1>2 DEF Has, Idle, Occupied
<1>3. CASE doing[u].call = "fixed"
  <2>1. Its(doing[u].new) /\ doing[u].old = {}
    BY <1>1, <1>3 DEF Has
  <2>2. ASSUME NEW p \in ps, p \in doing[u].new PROVE FALSE
    <3>1. Start(p) \in GrainsOf(ps) /\ Start(p) \in GrainsOf(doing[u].new)
      BY <2>2, StartOf DEF GrainsOf
    <3>2. QED
      BY <2>1, <3>1 DEF Its, Vacant
  <2>3. QED
    BY <2>1, <2>2 DEF Occupied
<1>4. QED
  BY <1>1, <1>2, <1>3

LEMMA MapCallKeeps ==
    ASSUME Kept, NEW t \in Threads, NEW size \in 1..PAGES, NEW worked \in BOOLEAN,
           MapCall(t, size, worked)
    PROVE  Kept'
<1>1. PICK ps \in Placed(size) :
        /\ cursor' = First(ps) + size
        /\ KernelMaps(ps, worked) /\ Losing({})
        /\ Enter(t, "map", {}, ps, worked)
  BY DEF MapCall
<1> DEFINE d == [call |-> "map", old |-> {}, new |-> ps, worked |-> worked]
<1>2. /\ Free(t) /\ Unlocked /\ Lasting
      /\ UNCHANGED <<plane, maps, carves, given, truth>>
  BY <1>1, Lost DEF MapCall
<1>3. ps \in Spans(size) /\ Vacant(ps)
  BY PlacedVacant
<1>4. ps \in SUBSET Pages /\ First(ps) + size \in 0..PAGES
  BY <1>3, SpanOf
<1>5. d \in Call /\ d.call = "map" /\ d.old = {} /\ d.new = ps /\ d.worked = worked
  BY <1>4 DEF Call
<1>6. doing[t] = Idle /\ doing' = [doing EXCEPT ![t] = d]
  BY <1>1, <1>2 DEF Free, Enter
<1> HIDE DEF d
<1>7. /\ kernel' \in [Pages -> {"reserved", "program", "none"}]
      /\ \A p \in Pages : /\ kernel'[p] = "reserved" => kernel[p] = "reserved"
                          /\ p \notin ps => kernel'[p] = kernel[p]
      /\ worked => \A p \in ps : kernel'[p] = "program"
  BY <1>1, <1>4 DEF KernelMaps, Kernel, Kept, Shaped
<1>8. \A u \in Threads \ {t} : Occupied(u) \cap ps = {}
  BY <1>2, <1>3, <1>4, VacantApart
<1>9. Has(d)'
  <2>1. Vacant(ps)'
    BY <1>2, <1>3 DEF Vacant, truth
  <2>2. \A g \in GrainsOf({} \cup ps) : arena'[g] = DEAD
    BY <2>1 DEF Vacant
  <2>3. QED
    BY <1>5, <1>7, <2>1, <2>2 DEF Has
<1>10. QED
  BY <1>1, <1>2, <1>4, <1>5, <1>6, <1>7, <1>8, <1>9, CallKeeps DEF Unlocked, Holding

\* Mapping over the pages goes through no gap: they are one run, and no
\* allocator's.
LEMMA NothingOver ==
    ASSUME NEW ps, gaps' = gaps \cup Over(ps), Sound'
    PROVE  ~ MixedOver(ps) /\ ~ CutsInto(ps)
BY DEF Over, Opens, Sound

LEMMA FixedCallKeeps ==
    ASSUME Kept, NEW t \in Threads, NEW size \in 1..PAGES, NEW worked \in BOOLEAN,
           NEW ps \in Spans(size), FixedCall(t, ps, worked), Sound'
    PROVE  Kept'
<1>0. PICK call \in {"fixed", "alone"} : call = IF Its(ps) THEN "fixed" ELSE "alone"
  OBVIOUS
<1> DEFINE d == [call |-> call, old |-> {}, new |-> ps, worked |-> worked]
<1>1. /\ Free(t) /\ ~ MixedOver(ps) /\ ~ CutsInto(ps) /\ Apart(ps)
      /\ KernelMaps(ps, worked) /\ Lasting /\ Enter(t, call, {}, ps, worked)
      /\ UNCHANGED <<monitor, truth>>
  BY <1>0, Lost, NothingOver DEF FixedCall
<1>2. ps \in SUBSET Pages
  BY SpanOf
<1>3. /\ d \in Call /\ d.call = call /\ d.old = {} /\ d.new = ps /\ d.worked = worked
      /\ call \in {"fixed", "alone"} /\ (call = "fixed" => Its(ps))
  BY <1>0, <1>2 DEF Call
<1>4. doing[t] = Idle /\ doing' = [doing EXCEPT ![t] = d]
  BY <1>1 DEF Free, Enter
<1> HIDE DEF d
<1>5. /\ kernel' \in [Pages -> {"reserved", "program", "none"}]
      /\ \A p \in Pages : /\ kernel'[p] = "reserved" => kernel[p] = "reserved"
                          /\ p \notin ps => kernel'[p] = kernel[p]
      /\ worked => \A p \in ps : kernel'[p] = "program"
  BY <1>1, <1>2 DEF KernelMaps, Kernel, Kept, Shaped
<1>6. \A u \in Threads \ {t} : Occupied(u) \cap ps = {}
  BY <1>1 DEF Apart, Occupied
<1>7. Has(d)'
  <2>1. \A g \in GrainsOf(ps) : arena[g] = DEAD
    BY <1>1 DEF CutsInto
  <2>2. OneRun(ps)
    BY <1>1 DEF MixedOver, OneRun
  <2>3. FreeRuns(ps)' = FreeRuns(ps)
    BY <1>1, <1>2, RunsKept DEF PageVersion, monitor
  <2>4. OneRun(ps)'
    BY <2>2, <2>3 DEF OneRun
  <2>5. Its(ps) => Its(ps)'
    BY <1>1 DEF Its, truth
  <2>6. \A g \in GrainsOf({} \cup ps) : arena'[g] = DEAD
    BY <1>1, <2>1 DEF truth
  <2>7. QED
    BY <1>3, <1>5, <2>4, <2>5, <2>6 DEF Has, Holding
<1>8. cursor' \in 0..PAGES /\ UNCHANGED <<plane, maps, carves, given, truth>>
  BY <1>1 DEF Kept, Shaped, monitor
<1>9. QED
  BY <1>1, <1>3, <1>4, <1>5, <1>6, <1>7, <1>8, CallKeeps DEF Holding

LEMMA NoRuns == OneRun({})
BY DEF OneRun, FreeRuns

\* A remap goes from the old pages, which were the program's, to the new ones,
\* of which nobody adopted any.
Goes(t, call, old, new, worked, both) ==
    /\ both = old \cup new /\ old \cap new = {}
    /\ call \in {"grow", "remap"} /\ Enter(t, call, old, new, worked)
    /\ cursor' \in 0..PAGES /\ Lasting
    /\ call = "grow" => Vacant(new)
    /\ ~ worked => call = "grow" /\ old = {}
    /\ \A g \in GrainsOf(both) : arena[g] = DEAD
    /\ OneRun(new)
    /\ \A u \in Threads \ {t} : Occupied(u) \cap both = {}
    /\ kernel' \in [Pages -> {"reserved", "program", "none"}]
    /\ \A p \in Pages : /\ kernel'[p] = "reserved" => kernel[p] = "reserved"
                        /\ p \notin both => kernel'[p] = kernel[p]
    /\ worked => \A p \in new : kernel'[p] = "program"

LEMMA RemapKeeps ==
    ASSUME Kept, NEW t \in Threads, Free(t), Unlocked,
           UNCHANGED <<plane, maps, carves, given, truth>>,
           NEW call \in {"grow", "remap"}, NEW old \in SUBSET Pages, NEW new \in SUBSET Pages,
           NEW worked \in BOOLEAN, NEW both \in SUBSET Pages,
           Goes(t, call, old, new, worked, both)
    PROVE  Kept'
<1> DEFINE d == [call |-> call, old |-> old, new |-> new, worked |-> worked]
<1>1. d \in Call /\ d.call = call /\ d.old = old /\ d.new = new /\ d.worked = worked
  BY DEF Call
<1>2. doing[t] = Idle /\ doing' = [doing EXCEPT ![t] = d]
  BY DEF Free, Enter, Goes
<1> HIDE DEF d
<1>3. Has(d)'
  <2>1. FreeRuns(new)' = FreeRuns(new)
    BY RunsKept DEF PageVersion, Goes
  <2>2. OneRun(new)'
    BY <2>1 DEF OneRun, Goes
  <2>3. Vacant(new) => Vacant(new)'
    BY DEF Vacant, truth
  <2>4. \A g \in GrainsOf(old \cup new) : arena'[g] = DEAD
    BY DEF truth, Goes
  <2>5. QED
    BY <1>1, <2>2, <2>3, <2>4 DEF Has, Goes
<1>4. QED
  BY <1>1, <1>2, <1>3, CallKeeps DEF Unlocked, Holding, Goes

LEMMA MappingIsOurs ==
    ASSUME Kept, NEW size \in 1..PAGES, NEW ps \in Spans(size),
           OneMapping(GrainsOf(ps), Start(First(ps)))
    PROVE  /\ ps \in SUBSET Pages /\ ps # {} /\ First(ps) \in ps
           /\ \A g \in GrainsOf(ps) : arena[g] = DEAD /\ whose[g] # Nobody
<1>1. ps \in SUBSET Pages /\ ps # {} /\ First(ps) \in ps
  BY SpanOf
<1>2. ASSUME NEW g \in GrainsOf(ps) PROVE arena[g] = DEAD /\ whose[g] # Nobody
  <2>1. whose[g].by = "mmap" /\ g \in Granules
    BY DEF OneMapping, GrainsOf
  <2>2. QED
    BY <2>1 DEF Kept, Paged, Nobody
<1>3. QED
  BY <1>1, <1>2

\* Vacant pages are none of the program's.
LEMMA VacantElsewhere ==
    ASSUME NEW ps \in SUBSET Pages, NEW qs \in SUBSET Pages, Vacant(ps),
           \A g \in GrainsOf(qs) : whose[g] # Nobody
    PROVE  qs \cap ps = {}
<1> SUFFICES ASSUME NEW p \in ps, p \in qs PROVE FALSE
  OBVIOUS
<1>1. Start(p) \in GrainsOf(ps) /\ Start(p) \in GrainsOf(qs)
  BY StartOf DEF GrainsOf
<1>2. QED
  BY <1>1 DEF Vacant

\* What the kernel has once it moved a mapping.
LEMMA KernelMoved ==
    ASSUME kernel \in [Pages -> {"reserved", "program", "none"}],
           NEW ps \in SUBSET Pages, NEW to \in SUBSET Pages,
           NEW both \in SUBSET Pages, both = ps \cup to, ps \cap to = {},
           KernelMoves(ps, to)
    PROVE  /\ kernel' \in [Pages -> {"reserved", "program", "none"}]
           /\ \A p \in Pages : /\ kernel'[p] = "reserved" => kernel[p] = "reserved"
                               /\ p \notin both => kernel'[p] = kernel[p]
           /\ \A p \in to : kernel'[p] = "program"
<1>1. ASSUME NEW p \in Pages
      PROVE  kernel'[p] = IF p \in to THEN "program"
                          ELSE IF p \in ps THEN "none" ELSE kernel[p]
  BY DEF KernelMoves
<1>2. DOMAIN kernel' = Pages /\ kernel' = [p \in Pages |-> kernel'[p]]
  BY DEF KernelMoves
<1>3. \A p \in Pages : kernel'[p] \in {"reserved", "program", "none"}
  BY <1>1
<1>4. kernel' \in [Pages -> {"reserved", "program", "none"}]
  BY <1>2, <1>3
<1>5. QED
  BY <1>1, <1>4

\* A call that the kernel refused may have taken pages down, and leaves the rest
\* what it was.
LEMMA TakenDown ==
    ASSUME Kept, NEW to \in SUBSET Pages, Apart(to),
           kernel' \in [Pages -> {"reserved", "program", "none"}], Lasting,
           \A p \in Pages : /\ p \notin to => kernel'[p] = kernel[p]
                            /\ kernel'[p] = "reserved" => kernel[p] = "reserved"
                            /\ p \in to /\ kernel'[p] = "none" => p \in lost',
           UNCHANGED <<plane, maps, carves, given, truth, cursor, doing>>
    PROVE  Kept'
<1>1. Shaped'
  BY DEF Kept, Shaped, truth, Lasting
<1>2. Numbered' /\ Told' /\ Paged' /\ Objects' /\ Given'
  BY DEF Kept, Numbered, Told, Tells, Paged, Objects, Given, Gives, truth
<1>3. Held'
  <2>1. \A t \in Threads : \A p \in doing[t].new : kernel'[p] = kernel[p]
    <3>1. \A t \in Threads : doing[t] \in Call
      BY DEF Kept, Shaped
    <3>2. QED
      BY <3>1 DEF Apart, Call
  <2>2. QED
    BY <2>1, OthersKeep DEF truth
<1>4. Ranged'
  BY DEF Kept, Ranged, Apart, Lasting, truth
<1>5. QED
  BY <1>1, <1>2, <1>3, <1>4 DEF Kept

LEMMA RemapCallKeeps ==
    ASSUME Kept, NEW t \in Threads, NEW length \in 1..PAGES,
           NEW ps \in Spans(length), RemapCall(t, ps), Sound'
    PROVE  Kept'
<1>1. /\ Free(t) /\ Unlocked /\ Apart(ps)
      /\ UNCHANGED <<plane, maps, carves, given, truth>>
  BY DEF RemapCall
<1>2. /\ ps \in SUBSET Pages /\ ps # {} /\ First(ps) \in ps
      /\ \A g \in GrainsOf(ps) : arena[g] = DEAD /\ whose[g] # Nobody
  BY MappingIsOurs DEF RemapCall
<1>3. \A u \in Threads : Occupied(u) \cap ps = {}
  BY <1>1 DEF Apart, Occupied
<1>4. kernel \in [Pages -> {"reserved", "program", "none"}] /\ cursor \in 0..PAGES
  BY DEF Kept, Shaped
<1>5. ASSUME NEW keep \in 1..Cardinality(ps) - 1, Shrink(t, ps, keep)
      PROVE  Kept'
  <2> DEFINE tail == {p \in ps : p >= First(ps) + keep}
  <2>1. /\ kernel' = Kernel(tail, "none") /\ Enter(t, "remap", tail, {}, TRUE)
        /\ cursor' = cursor /\ Lasting
    BY <1>5, Lost DEF Shrink
  <2>2. PICK old \in SUBSET ps : old = tail
    OBVIOUS
  <2> HIDE DEF tail
  <2>3. \A g \in GrainsOf(old) : arena[g] = DEAD
    BY <1>2, <2>2 DEF GrainsOf
  <2>4. old \in SUBSET Pages /\ \A u \in Threads \ {t} : Occupied(u) \cap old = {}
    BY <1>2, <1>3
  <2>5. /\ kernel' \in [Pages -> {"reserved", "program", "none"}]
        /\ \A p \in Pages : /\ kernel'[p] = "reserved" => kernel[p] = "reserved"
                            /\ p \notin old => kernel'[p] = kernel[p]
    BY <1>4, <2>1, <2>2 DEF Kernel
  <2>6. old = old \cup {} /\ old \cap {} = {} /\ {} \in SUBSET Pages /\ TRUE \in BOOLEAN
    OBVIOUS
  <2>7. Goes(t, "remap", old, {}, TRUE, old)
    BY <1>4, <2>1, <2>2, <2>3, <2>4, <2>5, <2>6, NoRuns DEF Goes
  <2>8. QED
    BY <1>1, <2>4, <2>6, <2>7, RemapKeeps
<1>6. ASSUME NEW size \in Cardinality(ps) + 1..PAGES, NEW worked \in BOOLEAN,
             size \in 1..PAGES, Grow(t, ps, size, worked), Placed(size) = {}
      PROVE  Kept'
  <2>1. /\ kernel' = Kernel(ps, "none") /\ Enter(t, "remap", ps, {}, TRUE)
        /\ cursor' = cursor /\ Lasting
    BY <1>6, Lost DEF Grow
  <2>2. \A g \in GrainsOf(ps) : arena[g] = DEAD
    BY <1>2
  <2>3. \A u \in Threads \ {t} : Occupied(u) \cap ps = {}
    BY <1>3
  <2>4. /\ kernel' \in [Pages -> {"reserved", "program", "none"}]
        /\ \A p \in Pages : /\ kernel'[p] = "reserved" => kernel[p] = "reserved"
                            /\ p \notin ps => kernel'[p] = kernel[p]
    BY <1>4, <2>1 DEF Kernel
  <2>5. ps = ps \cup {} /\ ps \cap {} = {} /\ {} \in SUBSET Pages /\ TRUE \in BOOLEAN
    OBVIOUS
  <2>6. Goes(t, "remap", ps, {}, TRUE, ps)
    BY <1>4, <2>1, <2>2, <2>3, <2>4, <2>5, NoRuns DEF Goes
  <2>7. QED
    BY <1>1, <1>2, <2>5, <2>6, RemapKeeps
<1>7. ASSUME NEW size \in Cardinality(ps) + 1..PAGES, NEW worked \in BOOLEAN,
             size \in 1..PAGES, Grow(t, ps, size, worked), Placed(size) # {}
      PROVE  Kept'
  <2>1. PICK to \in Placed(size) :
         /\ ~ MixedOver(to) /\ Lasting
         /\ cursor' = First(to) + size
         /\ IF worked
              THEN KernelMoves(ps, to) /\ Enter(t, "grow", ps, to, TRUE)
              ELSE KernelMaps(to, FALSE) /\ Enter(t, "grow", {}, to, FALSE)
    BY <1>7, Lost, NothingOver DEF Grow
  <2>2. to \in Spans(size) /\ Vacant(to)
    BY <1>7, PlacedVacant
  <2>3. to \in SUBSET Pages /\ cursor' \in 0..PAGES
    BY <1>7, <2>1, <2>2, SpanOf
  <2>4. OneRun(to)
    BY <2>1 DEF MixedOver, OneRun
  <2>5. \A u \in Threads \ {t} : Occupied(u) \cap to = {}
    BY <1>1, <2>2, <2>3, VacantApart
  <2>6. ps \cap to = {}
    BY <1>2, <2>2, <2>3, VacantElsewhere
  <2>7. CASE worked
    <3>1. PICK both \in SUBSET Pages : both = ps \cup to
      BY <1>2, <2>3
    <3>2. \A g \in GrainsOf(both) : arena[g] = DEAD
      BY <1>2, <2>2, <3>1 DEF Vacant, GrainsOf
    <3>3. KernelMoves(ps, to) /\ Enter(t, "grow", ps, to, TRUE)
      BY <2>1, <2>7
    <3>4. \A u \in Threads \ {t} : Occupied(u) \cap both = {}
      BY <1>3, <2>5, <3>1
    <3>5. /\ kernel' \in [Pages -> {"reserved", "program", "none"}]
          /\ \A p \in Pages : /\ kernel'[p] = "reserved" => kernel[p] = "reserved"
                              /\ p \notin both => kernel'[p] = kernel[p]
          /\ \A p \in to : kernel'[p] = "program"
      BY <1>2, <1>4, <2>3, <2>6, <3>1, <3>3, KernelMoved
    <3>6. Enter(t, "grow", ps, to, TRUE) /\ TRUE \in BOOLEAN
      BY <3>3
    <3>7. Goes(t, "grow", ps, to, TRUE, both)
      BY <2>1, <2>2, <2>3, <2>4, <2>6, <3>1, <3>2, <3>4, <3>5, <3>6 DEF Goes
    <3>8. QED
      BY <1>1, <1>2, <2>3, <3>6, <3>7, RemapKeeps
  <2>8. CASE ~ worked
    <3>1. \A g \in GrainsOf(to) : arena[g] = DEAD
      BY <2>2 DEF Vacant
    <3>2. \A u \in Threads \ {t} : Occupied(u) \cap to = {}
      BY <2>5
    <3>3. /\ kernel' \in [Pages -> {"reserved", "program", "none"}]
          /\ \A p \in Pages : /\ kernel'[p] = "reserved" => kernel[p] = "reserved"
                              /\ p \notin to => kernel'[p] = kernel[p]
      BY <1>4, <2>1, <2>3, <2>8 DEF KernelMaps, Kernel
    <3>4. /\ Enter(t, "grow", {}, to, FALSE)
          /\ to = {} \cup to /\ {} \cap to = {} /\ {} \in SUBSET Pages /\ FALSE \in BOOLEAN
      BY <2>1, <2>8
    <3>5. Goes(t, "grow", {}, to, FALSE, to)
      BY <2>1, <2>2, <2>3, <2>4, <3>1, <3>2, <3>3, <3>4 DEF Goes
    <3>6. QED
      BY <1>1, <2>3, <3>4, <3>5, RemapKeeps
  <2>9. QED
    BY <2>7, <2>8
<1>8. ASSUME NEW size \in 1..PAGES, NEW to \in Spans(size), MoveTo(t, ps, to, TRUE)
      PROVE  Kept'
  <2>1. /\ ps \cap to = {} /\ Apart(to) /\ ~ MixedOver(to) /\ ~ CutsInto(to)
        /\ KernelMoves(ps, to) /\ Lasting /\ cursor' = cursor
        /\ Enter(t, "remap", ps, to, TRUE)
    BY <1>8, Lost, NothingOver DEF MoveTo
  <2>2. to \in SUBSET Pages
    BY <1>8, SpanOf
  <2>3. OneRun(to) /\ \A g \in GrainsOf(to) : arena[g] = DEAD
    BY <2>1 DEF MixedOver, CutsInto, OneRun
  <2>4. PICK both \in SUBSET Pages : both = ps \cup to
    BY <1>2, <2>2
  <2>5. \A g \in GrainsOf(both) : arena[g] = DEAD
    BY <1>2, <2>3, <2>4 DEF GrainsOf
  <2>6. \A u \in Threads \ {t} : Occupied(u) \cap both = {}
    BY <1>3, <2>1, <2>4 DEF Apart, Occupied
  <2>7. /\ kernel' \in [Pages -> {"reserved", "program", "none"}]
        /\ \A p \in Pages : /\ kernel'[p] = "reserved" => kernel[p] = "reserved"
                            /\ p \notin both => kernel'[p] = kernel[p]
        /\ \A p \in to : kernel'[p] = "program"
    BY <1>2, <1>4, <2>1, <2>2, <2>4, KernelMoved
  <2>8. /\ Enter(t, "remap", ps, to, TRUE) /\ TRUE \in BOOLEAN
        /\ ps \cap to = {} /\ cursor' \in 0..PAGES /\ Lasting
    BY <1>4, <2>1
  <2>9. Goes(t, "remap", ps, to, TRUE, both)
    BY <2>3, <2>4, <2>5, <2>6, <2>7, <2>8 DEF Goes
  <2>10. QED
    BY <1>1, <1>2, <2>2, <2>8, <2>9, RemapKeeps
<1>9. ASSUME NEW size \in 1..PAGES, NEW to \in Spans(size), MoveTo(t, ps, to, FALSE)
       PROVE  Kept'
  <2>1. /\ Apart(to) /\ kernel' = Kernel(to, "none") /\ Losing(to)
        /\ cursor' = cursor /\ doing' = doing
    BY <1>9 DEF MoveTo
  <2>2. to \in SUBSET Pages
    BY <1>9, SpanOf
  <2>3. /\ Lasting /\ \A p \in to : kernel'[p] = "none" => p \in lost'
        /\ kernel' \in [Pages -> {"reserved", "program", "none"}]
        /\ \A p \in Pages : /\ p \notin to => kernel'[p] = kernel[p]
                            /\ kernel'[p] = "reserved" => kernel[p] = "reserved"
    BY <1>4, <2>1, <2>2, Lost DEF Kernel
  <2>4. QED
    BY <1>1, <2>1, <2>2, <2>3, TakenDown
<1>10. Cardinality(ps) \in Nat
  <2>1. IsFiniteSet(Pages)
    BY Arena, FS_Interval DEF Pages
  <2>2. QED
    BY <1>2, <2>1, FS_Subset, FS_CardinalityType
<1>11. \A size \in Cardinality(ps) + 1..PAGES : size \in 1..PAGES
  BY <1>10, Arena
<1>12. QED
  BY <1>5, <1>6, <1>7, <1>8, <1>11, <1>9 DEF RemapCall

\* The end of a call, on the pages the call had to itself: some of them become
\* one new instance, some are given up, and the kernel's side follows.
Settles(t, both) ==
    /\ Leave(t) /\ Lasting /\ UNCHANGED <<carves, given, cursor, arena, refused>>
    /\ maps' \in {maps, maps + 1}
    /\ plane' \in [Granules -> Nat] /\ DOMAIN whose' = Granules
    /\ whose' = [g \in Granules |-> whose'[g]]
    /\ kernel' \in [Pages -> {"reserved", "program", "none"}]
    /\ \A g \in Granules :
        \/ plane'[g] = plane[g] /\ whose'[g] = whose[g]
        \/ Page(g) \in both /\ whose'[g] = Nobody /\ ~ owned(plane'[g])
        \/ /\ Page(g) \in both /\ maps' = maps + 1
           /\ whose'[g] = [by |-> "mmap", n |-> maps] /\ plane'[g] = begun(maps)
    /\ \A g, h \in Granules : Page(g) = Page(h) /\ Page(g) \in both => whose'[g] = whose'[h]
    /\ \A p \in Pages \ both : kernel'[p] = kernel[p]
    /\ \A p \in both :
        /\ kernel'[p] = "reserved" => \A g \in GrainsOf({p}) : whose'[g] = Nobody
        /\ kernel'[p] = "none" => p \in lost' \/ \E g \in GrainsOf({p}) : whose'[g] # Nobody

LEMMA Settled ==
    ASSUME Kept, NEW t \in Threads, doing[t].call # "none",
           NEW both \in SUBSET Pages, both = Occupied(t), Settles(t, both)
    PROVE  Kept'
<1>1. /\ doing \in [Threads -> Call] /\ doing' \in [Threads -> Call]
      /\ doing'[t] = Idle /\ \A u \in Threads \ {t} : doing'[u] = doing[u]
      /\ doing[t] # Idle
  BY DEF Kept, Shaped, Settles, Leave, Idle, Call
<1>2. \A g \in Granules : Page(g) \in both => arena[g] = DEAD
  BY DEF Kept, Held, Has, Occupied, GrainsOf
<1>3. maps \in Nat \ {0}
  BY DEF Kept, Numbered
<1>4. /\ UNCHANGED <<carves, given, cursor, arena, refused>>
      /\ maps' \in {maps, maps + 1} /\ maps' \in Nat \ {0}
      /\ \A g \in Granules :
            \/ plane'[g] = plane[g] /\ whose'[g] = whose[g]
            \/ Page(g) \in both /\ whose'[g] = Nobody /\ ~ owned(plane'[g])
            \/ /\ Page(g) \in both /\ maps' = maps + 1
               /\ whose'[g] = [by |-> "mmap", n |-> maps] /\ plane'[g] = begun(maps)
  BY <1>3 DEF Settles
<1>5. Shaped'
  <2>1. [by |-> "mmap", n |-> maps] \in Instance
    BY <1>3 DEF Instance
  <2>2. Nobody \in Instance
    BY DEF Instance
  <2>3. \A g \in Granules : whose'[g] \in Instance
    BY <1>4, <2>1, <2>2 DEF Kept, Shaped
  <2>4. whose' \in [Granules -> Instance]
    BY <2>3 DEF Settles
  <2>5. QED
    BY <1>1, <1>4, <2>4 DEF Settles, Kept, Shaped, Lasting
<1>6. Numbered'
  <2>1. ASSUME NEW g \in Granules
        PROVE  \/ whose'[g] = Nobody
               \/ whose'[g] \in [by : {"mmap"}, n : 1..maps' - 1]
               \/ whose'[g] \in [by : {"split"}, n : 1..carves - 1]
    <3>1. CASE whose'[g] = whose[g]
      <4>1. \A n \in 1..maps - 1 : n \in 1..maps' - 1
        <5>1. maps' = maps \/ maps' = maps + 1
          BY <1>4
        <5>2. QED
          BY <1>3, <5>1
      <4>2. QED
        BY <3>1, <4>1 DEF Kept, Numbered
    <3>2. CASE maps' = maps + 1 /\ whose'[g] = [by |-> "mmap", n |-> maps]
      <4>1. maps \in 1..maps' - 1
        BY <1>3, <3>2
      <4>2. QED
        BY <3>2, <4>1
    <3>3. QED
      BY <1>4, <3>1, <3>2
  <2>2. QED
    BY <1>4, <2>1 DEF Kept, Numbered
<1>7. Told'
  <2> SUFFICES ASSUME NEW g \in Granules
               PROVE  IF whose'[g] = Nobody THEN ~ owned(plane'[g])
                                            ELSE plane'[g] = Key(whose'[g])
    BY DEF Told, Tells, Key
  <2>1. [by |-> "mmap", n |-> maps] # Nobody /\ Key([by |-> "mmap", n |-> maps]) = begun(maps)
    BY DEF Nobody, Key
  <2>2. QED
    BY <1>4, <2>1 DEF Kept, Told, Tells
<1>8. Paged'
  <2>1. \A g \in Granules :
          IF arena[g] = DEAD THEN whose'[g].by # "split" ELSE whose'[g].by # "mmap"
    BY <1>2, <1>4 DEF Kept, Paged, Nobody
  <2>2. \A g, h \in Granules : Page(h) = Page(g) =>
          /\ arena[g] = DEAD /\ arena[h] = DEAD => whose'[h] = whose'[g]
          /\ arena[g] # DEAD /\ g < h => arena[h] = arena[g]
    BY <1>4 DEF Kept, Paged, Settles
  <2>3. QED
    BY <1>4, <2>1, <2>2 DEF Paged
<1>9. Objects'
  <2> SUFFICES ASSUME NEW g \in Granules, NEW h \in Granules, g < h,
                      whose'[g] = whose'[h], whose'[g].by = "split",
                      NEW k \in Between(g, h)
               PROVE  whose'[k] = whose'[g] /\ arena[k] = arena[h]
    BY <1>4 DEF Objects
  <2>1. whose'[g] = whose[g] /\ whose'[h] = whose[h]
    BY <1>4 DEF Nobody
  <2>2. whose[k] = whose[g] /\ arena[k] = arena[h]
    BY <2>1 DEF Kept, Objects
  <2>3. k \in Granules
    BY Arena DEF Between, Granules
  <2>4. arena[k] # DEAD
    BY <2>1, <2>2, <2>3 DEF Kept, Paged
  <2>5. whose'[k] = whose[k]
    BY <1>2, <1>4, <2>3, <2>4
  <2>6. QED
    BY <2>1, <2>2, <2>5
<1>10. Given'
  BY <1>4 DEF Kept, Given, Gives
<1>11. \A u \in Threads \ {t} : Has(doing[u])' /\ Occupied(u) \cap both = {}
  <2> SUFFICES ASSUME NEW u \in Threads \ {t}, NEW mine \in Call, mine = doing[u]
               PROVE  Has(mine)' /\ Occupied(u) \cap both = {}
    BY <1>1
  <2>1. Has(mine) /\ Occupied(u) \cap both = {}
    BY DEF Kept, Held
  <2>2. \A p \in mine.new : kernel'[p] = kernel[p]
    BY <2>1 DEF Occupied, Call, Settles
  <2>3. \A g \in GrainsOf(mine.old \cup mine.new) :
          plane'[g] = plane[g] /\ whose'[g] = whose[g] /\ arena'[g] = arena[g]
    BY <1>4, <2>1 DEF GrainsOf, Occupied
  <2>4. QED
    BY <2>1, <2>2, <2>3, HasKept
<1>12. Held'
  <2>1. Has(Idle)'
    BY NoRuns DEF Has, Idle, OneRun, FreeRuns, GrainsOf
  <2>2. \A u \in Threads : Has(doing[u])'
    BY <1>1, <1>11, <2>1
  <2>3. \A u, v \in Threads : u # v =>
          /\ doing'[u].call \in Holding => doing'[v].call \notin Holding
          /\ Occupied(u)' \cap Occupied(v)' = {}
    BY <1>1 DEF Kept, Held, Occupied, Idle, Holding
  <2>4. QED
    BY <2>2, <2>3 DEF Held
<1>13. Ranged'
  <2> SUFFICES ASSUME NEW p \in Pages
               PROVE  /\ kernel'[p] = "reserved" =>
                           \A g \in GrainsOf({p}) : whose'[g] = Nobody /\ arena[g] = DEAD
                      /\ kernel'[p] = "none" /\ Apart({p})' => p \in lost' \/
                           \E g \in GrainsOf({p}) : whose'[g] # Nobody \/ arena[g] # DEAD
    BY <1>4 DEF Ranged
  <2>1. CASE p \in both
    <3>1. \A g \in GrainsOf({p}) : arena[g] = DEAD
      BY <1>2, <2>1 DEF GrainsOf
    <3>2. QED
      BY <2>1, <3>1 DEF Settles
  <2>2. CASE p \notin both
    <3>1. kernel'[p] = kernel[p] /\ \A g \in GrainsOf({p}) : whose'[g] = whose[g]
      BY <1>4, <2>2 DEF GrainsOf, Settles
    <3>2. Apart({p})' => Apart({p})
      BY <1>1, <2>2 DEF Apart, Occupied
    <3>3. p \in lost /\ kernel'[p] = "none" => p \in lost'
      BY DEF Settles, Lasting
    <3>4. QED
      BY <3>1, <3>2, <3>3 DEF Kept, Ranged
  <2>3. QED
    BY <2>1, <2>2
<1>14. QED
  BY <1>5, <1>6, <1>7, <1>8, <1>9, <1>10, <1>12, <1>13 DEF Kept

LEMMA MapFinishKeeps ==
    ASSUME Kept, NEW t \in Threads, MapFinish(t)
    PROVE  Kept'
<1>1. PICK mine \in Call : mine = doing[t]
  BY DEF Kept, Shaped
<1>2. Has(mine) /\ mine.call = "map" /\ mine.old = {} /\ Vacant(mine.new)
  BY <1>1 DEF MapFinish, Kept, Held, Has
<1>3. PICK both \in SUBSET Pages : both = mine.new /\ both = Occupied(t)
  BY <1>1, <1>2 DEF Call, Occupied
<1>4. /\ Leave(t) /\ UNCHANGED <<carves, given, cursor, arena, refused>>
      /\ plane \in [Granules -> Nat] /\ whose \in [Granules -> Instance]
      /\ kernel \in [Pages -> {"reserved", "program", "none"}]
      /\ maps \in Nat \ {0}
  BY DEF MapFinish, Kept, Shaped, Numbered
<1>5. CASE mine.worked
  <2>1. /\ maps' = maps + 1 /\ kernel' = kernel /\ lost' = lost
        /\ plane' = [g \in Granules |-> IF g \in GrainsOf(both) THEN begun(maps) ELSE plane[g]]
        /\ whose' = [g \in Granules |->
                       IF g \in GrainsOf(both) THEN [by |-> "mmap", n |-> maps] ELSE whose[g]]
    BY <1>1, <1>3, <1>5 DEF MapFinish, Begin, Fill, os
  <2>2. \A g \in Granules : g \in GrainsOf(both) <=> Page(g) \in both
    BY DEF GrainsOf
  <2>3. begun(maps) \in Nat
    BY <1>4, Begun
  <2>4. \A p \in both : kernel'[p] = "program"
    BY <1>2, <1>3, <1>5, <2>1 DEF Has
  <2>5. Lasting
    BY <2>1 DEF Lasting, Kept, Shaped
  <2>6. Settles(t, both)
    BY <1>4, <2>1, <2>2, <2>3, <2>4, <2>5 DEF Settles
  <2>7. QED
    BY <1>1, <1>2, <1>3, <2>6, Settled
<1>6. CASE ~ mine.worked
  <2>1. /\ UNCHANGED <<plane, maps, whose>>
        /\ \E denied \in SUBSET {both} : Reserve({both}, denied)
    BY <1>1, <1>3, <1>6 DEF MapFinish
  <2>2. \A g \in Granules : Page(g) \in both => whose[g] = Nobody
    BY <1>2, <1>3 DEF Vacant, GrainsOf
  <2>3. /\ kernel' \in [Pages -> {"reserved", "program", "none"}] /\ Lasting
        /\ \A p \in Pages \ both : kernel'[p] = kernel[p]
        /\ \A p \in both : kernel'[p] = "none" => p \in lost'
    <3>1. {both} \in SUBSET SUBSET Pages /\ UNION {both} = both
      OBVIOUS
    <3>2. QED
      BY <2>1, <3>1, Reserves
  <2>4. whose' = [g \in Granules |-> whose'[g]]
    BY <1>4, <2>1
  <2>5. \A p \in both : \A g \in GrainsOf({p}) : whose'[g] = Nobody
    BY <2>1, <2>2 DEF GrainsOf
  <2>6. Settles(t, both)
    BY <1>4, <2>1, <2>2, <2>3, <2>4, <2>5 DEF Settles
  <2>7. QED
    BY <1>1, <1>2, <1>3, <2>6, Settled
<1>7. QED
  BY <1>5, <1>6

\* A page that no allocator adopted any of is of whom its first granule is.
LEMMA WholePage ==
    ASSUME Kept, NEW p \in Pages, \A g \in GrainsOf({p}) : arena[g] = DEAD
    PROVE  /\ owned(PageVersion(p)) <=> whose[Start(p)] # Nobody
           /\ Start(p) \in GrainsOf({p})
           /\ \A g \in GrainsOf({p}) : whose[g] = whose[Start(p)]
<1>1. Start(p) \in Granules /\ Page(Start(p)) = p
  BY StartOf
<1>2. Start(p) \in GrainsOf({p})
  BY <1>1 DEF GrainsOf
<1>3. \A g \in GrainsOf({p}) : whose[g] = whose[Start(p)]
  BY <1>1, <1>2 DEF Kept, Paged, GrainsOf
<1>4. QED
  BY <1>1, <1>2, <1>3, Owners DEF Kept, PageVersion

\* A claim over pages that are one run begins one instance, or none.
LEMMA ClaimsOne ==
    ASSUME Kept, NEW new \in SUBSET Pages, OneRun(new), NEW f,
           maps' = maps + Cardinality(FreeRuns(new))
    PROVE  /\ Claimed(f, new, FreeRuns(new)) =
                [g \in Granules |-> IF Unowned(new, g) THEN begun(maps) ELSE f[g]]
           /\ Taken(new, FreeRuns(new)) =
                [g \in Granules |->
                   IF Unowned(new, g) THEN [by |-> "mmap", n |-> maps] ELSE whose[g]]
           /\ maps' \in {maps, maps + 1}
           /\ \A g \in Granules : Unowned(new, g) => maps' = maps + 1
<1>1. maps \in Nat
  BY DEF Kept, Numbered
<1>2. FreeRuns(new) = {} => \A g \in Granules : ~ Unowned(new, g)
  BY RunsOf DEF Unowned
<1>3. \/ FreeRuns(new) = {} /\ maps' = maps
      \/ maps' = maps + 1
  BY <1>1, RunsCounted
<1>4. QED
  BY <1>1, <1>2, <1>3, ClaimedOne, TakenOne

LEMMA FixedFinishKeeps ==
    ASSUME Kept, NEW t \in Threads, FixedFinish(t)
    PROVE  Kept'
<1>1. PICK mine \in Call : mine = doing[t]
  BY DEF Kept, Shaped
<1>2. /\ Has(mine) /\ mine.call \in {"fixed", "alone"} /\ mine.old = {} /\ OneRun(mine.new)
      /\ \A g \in GrainsOf(mine.new) : arena[g] = DEAD
  BY <1>1 DEF FixedFinish, Kept, Held, Has
<1>3. PICK both \in SUBSET Pages : both = mine.new /\ both = Occupied(t)
  BY <1>1, <1>2 DEF Call, Occupied
<1>4. /\ Leave(t) /\ UNCHANGED <<carves, given, cursor, arena, refused>>
      /\ plane \in [Granules -> Nat] /\ whose \in [Granules -> Instance]
      /\ kernel \in [Pages -> {"reserved", "program", "none"}]
      /\ maps \in Nat \ {0}
  BY DEF FixedFinish, Kept, Shaped, Numbered
<1>5. \A p \in both : \A g \in GrainsOf({p}) : arena[g] = DEAD
  BY <1>2, <1>3 DEF GrainsOf
<1>6. ASSUME NEW g \in Granules, NEW h \in Granules, Page(g) = Page(h), Page(g) \in both
      PROVE  whose[g] = whose[h]
  BY <1>5, <1>6, WholePage DEF GrainsOf
<1>7. CASE mine.worked
  <2>1. /\ maps' = maps + Cardinality(FreeRuns(both)) /\ kernel' = kernel /\ lost' = lost
        /\ plane' = Claimed(plane, both, FreeRuns(both))
        /\ whose' = Taken(both, FreeRuns(both))
    BY <1>1, <1>3, <1>7 DEF FixedFinish, os
  <2>2. /\ plane' = [g \in Granules |-> IF Unowned(both, g) THEN begun(maps) ELSE plane[g]]
        /\ whose' = [g \in Granules |->
                       IF Unowned(both, g) THEN [by |-> "mmap", n |-> maps] ELSE whose[g]]
        /\ maps' \in {maps, maps + 1}
        /\ \A g \in Granules : Unowned(both, g) => maps' = maps + 1
    BY <1>2, <1>3, <2>1, ClaimsOne
  <2>3. begun(maps) \in Nat
    BY <1>4, Begun
  <2>4. \A p \in both : kernel'[p] = "program"
    BY <1>2, <1>3, <1>7, <2>1 DEF Has
  <2>5. \A g \in Granules : Unowned(both, g) => Page(g) \in both
    BY DEF Unowned
  <2>6. \A g, h \in Granules : Page(g) = Page(h) => (Unowned(both, g) <=> Unowned(both, h))
    BY DEF Unowned
  <2>7. \A g, h \in Granules : Page(g) = Page(h) /\ Page(g) \in both => whose'[g] = whose'[h]
    BY <1>6, <2>2, <2>6
  <2>8. /\ plane' \in [Granules -> Nat] /\ DOMAIN whose' = Granules
        /\ whose' = [g \in Granules |-> whose'[g]]
    BY <1>4, <2>2, <2>3
  <2>9. \A g \in Granules :
          \/ plane'[g] = plane[g] /\ whose'[g] = whose[g]
          \/ /\ Page(g) \in both /\ maps' = maps + 1
             /\ whose'[g] = [by |-> "mmap", n |-> maps] /\ plane'[g] = begun(maps)
    BY <2>2, <2>5
  <2>10. Lasting
    BY <2>1 DEF Lasting, Kept, Shaped
  <2>11. Settles(t, both)
    BY <1>4, <2>1, <2>2, <2>4, <2>7, <2>8, <2>9, <2>10 DEF Settles
  <2>12. QED
    BY <1>1, <1>2, <1>3, <2>11, Settled
<1>8. CASE ~ mine.worked
  <2>1. /\ UNCHANGED <<plane, maps, whose>>
        /\ \E denied \in SUBSET FreeRuns(both) : Reserve(FreeRuns(both), denied)
    BY <1>1, <1>3, <1>8 DEF FixedFinish
  <2>2. /\ FreeRuns(both) \in SUBSET SUBSET Pages
        /\ UNION FreeRuns(both) = {p \in both : ~ owned(PageVersion(p))}
    BY RunsOf
  <2>3. /\ kernel' \in [Pages -> {"reserved", "program", "none"}] /\ Lasting
        /\ \A p \in Pages : kernel'[p] = kernel[p] \/ (p \in both /\ ~ owned(PageVersion(p)))
        /\ \A p \in both : ~ owned(PageVersion(p)) /\ kernel'[p] = "none" => p \in lost'
    BY <2>1, <2>2, Reserves
  <2>4. ASSUME NEW p \in both, kernel'[p] = "reserved", NEW g \in GrainsOf({p})
        PROVE  whose'[g] = Nobody
    <3>1. CASE ~ owned(PageVersion(p))
      BY <1>5, <2>1, <2>4, <3>1, WholePage
    <3>2. CASE owned(PageVersion(p))
      BY <2>1, <2>3, <2>4, <3>2 DEF Kept, Ranged
    <3>3. QED
      BY <3>1, <3>2
  <2>5. ASSUME NEW p \in both, kernel'[p] = "none"
        PROVE  p \in lost' \/ \E g \in GrainsOf({p}) : whose'[g] # Nobody
    <3>1. CASE owned(PageVersion(p))
      BY <1>5, <2>1, <3>1, WholePage
    <3>2. QED
      BY <2>3, <2>5, <3>1
  <2>6. Settles(t, both)
    BY <1>4, <1>6, <2>1, <2>3, <2>4, <2>5 DEF Settles
  <2>7. QED
    BY <1>1, <1>2, <1>3, <2>6, Settled
<1>9. QED
  BY <1>7, <1>8

\* A slot of GIVEN that is in use.
LEMMA SlotOf ==
    ASSUME Kept, NEW s \in Slots, given[s].hi # 0
    PROVE  /\ given[s].lo \in Granules /\ given[s].hi \in 1..PAGES * GRAINS
           /\ given[s].lo < given[s].hi /\ given[s].lo \in Between(given[s].lo, given[s].hi)
           /\ owned(given[s].version) /\ given[s].version # DEAD
           /\ Between(given[s].lo, given[s].hi) \subseteq Granules
           /\ \A g \in Between(given[s].lo, given[s].hi) : arena[g] = given[s].version
<1>1. given[s] # Empty
  BY DEF Empty
<1>2. /\ given[s].lo \in Granules /\ given[s].hi \in 1..PAGES * GRAINS
      /\ given[s].lo < given[s].hi /\ owned(given[s].version)
      /\ \A g \in Between(given[s].lo, given[s].hi) : arena[g] = given[s].version
  BY <1>1 DEF Kept, Given
<1>3. /\ given[s].lo \in Between(given[s].lo, given[s].hi)
      /\ Between(given[s].lo, given[s].hi) \subseteq Granules
  BY <1>2, Arena DEF Between, Granules
<1>4. QED
  BY <1>2, <1>3 DEF owned

\* Over pages no allocator has any of, GIVEN has nothing to forget.
LEMMA NothingCovered ==
    ASSUME Kept, NEW ps \in SUBSET Pages, \A g \in GrainsOf(ps) : arena[g] = DEAD
    PROVE  Covered(ps) = {} /\ Forgotten(ps) = given
<1>1. ASSUME NEW s \in Covered(ps) PROVE FALSE
  <2>1. s \in Slots /\ given[s].hi # 0
        /\ Between(given[s].lo, given[s].hi) \subseteq GrainsOf(ps)
    BY DEF Covered
  <2>2. QED
    BY <2>1, SlotOf
<1>2. Covered(ps) = {}
  BY <1>1
<1>3. \A s \in Slots : s \notin Covered(ps)
  BY <1>2
<1>4. given = [s \in Slots |-> given[s]]
  BY DEF Kept, Shaped
<1>5. Forgotten(ps) = [s \in Slots |-> given[s]]
  BY <1>3 DEF Forgotten
<1>6. QED
  BY <1>2, <1>4, <1>5

LEMMA ReleasedPlain ==
    ASSUME NEW ps \in SUBSET Pages, Covered(ps) = {}
    PROVE  Released(ps) = ReleasedByPages(ps)
<1>1. UNION {Between(given[s].lo, given[s].hi) : s \in Covered(ps)} = {}
  OBVIOUS
<1>2. \A g \in Granules : Page(g) \in Pages /\ Start(Page(g)) \in Granules
  BY PageOf
<1>3. PICK carved : carved = UNION {Between(given[s].lo, given[s].hi) : s \in Covered(ps)}
  OBVIOUS
<1> DEFINE walked == [g \in Granules |->
                          IF g \in carved /\ owned(plane[g]) THEN ended(plane[g]) ELSE plane[g]]
<1>5. \A g \in Granules : walked[g] = plane[g]
  BY <1>1, <1>3
<1>6. Released(ps) = [g \in Granules |->
                        IF g \in GrainsOf(ps) /\ owned(walked[Start(Page(g))])
                          THEN ended(walked[Start(Page(g))])
                          ELSE walked[g]]
  BY <1>3 DEF Released
<1> HIDE DEF walked
<1>7. QED
  BY <1>2, <1>5, <1>6 DEF ReleasedByPages, PageVersion

LEMMA RemapFinishKeeps ==
    ASSUME Kept, NEW t \in Threads, RemapFinish(t), Sound'
    PROVE  Kept'
<1>1. PICK mine \in Call : mine = doing[t]
  BY DEF Kept, Shaped
<1>2. PICK old \in SUBSET Pages, new \in SUBSET Pages : old = mine.old /\ new = mine.new
  BY DEF Call
<1>3. PICK both \in SUBSET Pages : both = old \cup new
  OBVIOUS
<1>4. /\ both = Occupied(t) /\ old \cap new = {} /\ mine.call # "none" /\ OneRun(new)
      /\ ~ mine.worked => old = {} /\ Vacant(new)
      /\ mine.worked => \A p \in new : kernel[p] = "program"
      /\ \A g \in GrainsOf(both) : arena[g] = DEAD
  <2>1. Has(mine) /\ mine.call \in {"grow", "remap"}
    BY <1>1 DEF RemapFinish, Kept, Held
  <2>2. QED
    BY <1>1, <1>2, <1>3, <2>1 DEF Has, Occupied
<1>5. /\ Leave(t) /\ UNCHANGED <<carves, cursor, arena, refused>>
      /\ plane \in [Granules -> Nat] /\ whose \in [Granules -> Instance]
      /\ kernel \in [Pages -> {"reserved", "program", "none"}]
      /\ maps \in Nat \ {0}
  BY DEF RemapFinish, Kept, Shaped, Numbered
<1>6. \A p \in both : \A g \in GrainsOf({p}) : arena[g] = DEAD
  BY <1>4 DEF GrainsOf
<1>7. ASSUME NEW g \in Granules, NEW h \in Granules, Page(g) = Page(h), Page(g) \in both
      PROVE  whose[g] = whose[h]
  BY <1>6, <1>7, WholePage DEF GrainsOf
<1>8. \A g \in GrainsOf(old) : arena[g] = DEAD
  BY <1>3, <1>4 DEF GrainsOf
<1>9. Covered(old) = {} /\ Forgotten(old) = given
  BY <1>8, NothingCovered
<1>10. CASE mine.worked
  <2> DEFINE f == IF old = {} THEN plane ELSE Released(old)
  <2>1. /\ Reserve({old}, {})
        /\ plane' = Claimed(f, new, FreeRuns(new))
        /\ given' = IF old = {} THEN given ELSE Forgotten(old)
        /\ whose' = [g \in Granules |->
                      IF g \in GrainsOf(old) THEN Nobody ELSE Taken(new, FreeRuns(new))[g]]
        /\ maps' = maps + Cardinality(FreeRuns(new))
    <3>1. PICK denied \in SUBSET ({old} \ {{}}) :
           LET ends == old # {} /\ denied = {} IN
           /\ Reserve({old}, denied)
           /\ plane' = Claimed(IF ends THEN Released(old) ELSE plane, new, FreeRuns(new))
           /\ given' = IF ends THEN Forgotten(old) ELSE given
           /\ whose' = [g \in Granules |->
                         IF g \in GrainsOf(old) THEN Nobody ELSE Taken(new, FreeRuns(new))[g]]
           /\ maps' = maps + Cardinality(FreeRuns(new))
           /\ gaps' = gaps \cup Opens("left", denied # {})
      BY <1>1, <1>2, <1>10 DEF RemapFinish
    <3>2. denied = {}
      BY <3>1 DEF Opens, Sound
    <3>3. QED
      BY <3>1, <3>2
  <2>2. ASSUME NEW g \in Granules
        PROVE  /\ Page(g) \notin old => f[g] = plane[g]
               /\ Page(g) \in old => ~ owned(f[g])
               /\ f[g] \in Nat
    <3>1. CASE old = {}
      BY <1>5, <3>1
    <3>2. CASE old # {}
      <4>1. f[g] = IF g \in GrainsOf(old) /\ owned(PageVersion(Page(g)))
                     THEN ended(PageVersion(Page(g))) ELSE plane[g]
        BY <1>9, <3>2, ReleasedPlain DEF ReleasedByPages
      <4>2. Page(g) \in Pages /\ PageVersion(Page(g)) \in Nat
        BY <1>5, PageOf DEF PageVersion
      <4>3. ~ owned(ended(PageVersion(Page(g)))) /\ ended(PageVersion(Page(g))) \in Nat
        BY <4>2, Ended
      <4>4. Page(g) \in old /\ ~ owned(PageVersion(Page(g))) => ~ owned(plane[g])
        <5>1. SUFFICES ASSUME Page(g) \in old, ~ owned(PageVersion(Page(g)))
                       PROVE  ~ owned(plane[g])
          OBVIOUS
        <5>2. Page(g) \in both
          BY <1>3, <5>1
        <5>3. whose[Start(Page(g))] = Nobody /\ g \in GrainsOf({Page(g)})
              /\ \A h \in GrainsOf({Page(g)}) : whose[h] = whose[Start(Page(g))]
          BY <1>6, <5>1, <5>2, WholePage DEF GrainsOf
        <5>4. QED
          BY <5>3, Owners DEF Kept
      <4>5. g \in GrainsOf(old) <=> Page(g) \in old
        BY DEF GrainsOf
      <4>6. QED
        BY <1>5, <4>1, <4>3, <4>4, <4>5
    <3>3. QED
      BY <3>1, <3>2
  <2> HIDE DEF f
  <2>3. given' = given
    BY <1>9, <2>1
  <2>4. /\ Claimed(f, new, FreeRuns(new)) =
             [g \in Granules |-> IF Unowned(new, g) THEN begun(maps) ELSE f[g]]
        /\ Taken(new, FreeRuns(new)) =
             [g \in Granules |->
                IF Unowned(new, g) THEN [by |-> "mmap", n |-> maps] ELSE whose[g]]
        /\ maps' \in {maps, maps + 1}
        /\ \A g \in Granules : Unowned(new, g) => maps' = maps + 1
    BY <1>4, <2>1, ClaimsOne
  <2>5. /\ plane' = [g \in Granules |-> IF Unowned(new, g) THEN begun(maps) ELSE f[g]]
        /\ whose' = [g \in Granules |->
             IF Page(g) \in old THEN Nobody
             ELSE IF Unowned(new, g) THEN [by |-> "mmap", n |-> maps] ELSE whose[g]]
    <3>1. \A g \in Granules : g \in GrainsOf(old) <=> Page(g) \in old
      BY DEF GrainsOf
    <3>2. QED
      BY <2>1, <2>4, <3>1
  <2>6. begun(maps) \in Nat
    BY <1>5, Begun
  <2>7. /\ \A g \in Granules : Unowned(new, g) => Page(g) \in new
        /\ \A g, h \in Granules : Page(g) = Page(h) => (Unowned(new, g) <=> Unowned(new, h))
    BY DEF Unowned
  <2>8. \A g, h \in Granules : Page(g) = Page(h) /\ Page(g) \in both => whose'[g] = whose'[h]
    BY <1>7, <2>5, <2>7
  <2>9. /\ plane' \in [Granules -> Nat] /\ DOMAIN whose' = Granules
        /\ whose' = [g \in Granules |-> whose'[g]]
    BY <2>2, <2>5, <2>6
  <2>10. ASSUME NEW g \in Granules
         PROVE  \/ plane'[g] = plane[g] /\ whose'[g] = whose[g]
                \/ Page(g) \in both /\ whose'[g] = Nobody /\ ~ owned(plane'[g])
                \/ /\ Page(g) \in both /\ maps' = maps + 1
                   /\ whose'[g] = [by |-> "mmap", n |-> maps] /\ plane'[g] = begun(maps)
    <3>1. CASE Page(g) \in old
      <4>1. ~ Unowned(new, g)
        BY <1>4, <2>7, <3>1
      <4>2. QED
        BY <1>3, <2>2, <2>5, <3>1, <4>1
    <3>2. CASE Page(g) \notin old
      BY <1>3, <2>2, <2>4, <2>5, <2>7, <3>2
    <3>3. QED
      BY <3>1, <3>2
  <2>11. /\ kernel' \in [Pages -> {"reserved", "program", "none"}] /\ Lasting
         /\ \A p \in Pages : kernel'[p] = IF p \in old THEN "reserved" ELSE kernel[p]
    <3>1. /\ {old} \in SUBSET SUBSET Pages /\ UNION {old} = old
          /\ {} \in SUBSET {old}
      OBVIOUS
    <3>2. QED
      BY <2>1, <3>1, Reserves
  <2>12. \A p \in Pages \ both : kernel'[p] = kernel[p]
    BY <1>3, <2>11
  <2>13. ASSUME NEW p \in both
         PROVE  /\ kernel'[p] = "reserved" => \A g \in GrainsOf({p}) : whose'[g] = Nobody
                /\ kernel'[p] = "none" =>
                     p \in lost' \/ \E g \in GrainsOf({p}) : whose'[g] # Nobody
    <3>1. CASE p \in old
      <4>1. \A g \in GrainsOf({p}) : whose'[g] = Nobody
        BY <2>5, <3>1 DEF GrainsOf
      <4>2. kernel'[p] = "reserved"
        BY <2>11, <3>1
      <4>3. QED
        BY <4>1, <4>2
    <3>2. CASE p \in new
      BY <1>4, <1>10, <2>11, <3>2
    <3>3. QED
      BY <1>3, <3>1, <3>2
  <2>14. Settles(t, both)
    BY <1>5, <2>3, <2>4, <2>8, <2>9, <2>10, <2>11, <2>12, <2>13 DEF Settles
  <2>15. QED
    BY <1>1, <1>4, <2>14, Settled
<1>11. CASE ~ mine.worked
  <2>1. /\ UNCHANGED <<plane, given, whose, maps>>
        /\ \E denied \in SUBSET {new} : Reserve({new}, denied)
    BY <1>1, <1>2, <1>11 DEF RemapFinish
  <2>2. both = new /\ \A g \in Granules : Page(g) \in both => whose[g] = Nobody
    BY <1>3, <1>4, <1>11 DEF Vacant, GrainsOf
  <2>3. /\ kernel' \in [Pages -> {"reserved", "program", "none"}] /\ Lasting
        /\ \A p \in Pages \ both : kernel'[p] = kernel[p]
        /\ \A p \in both : kernel'[p] = "none" => p \in lost'
    <3>1. {both} \in SUBSET SUBSET Pages /\ UNION {both} = both /\ both = new
      BY <2>2
    <3>2. QED
      BY <2>1, <3>1, Reserves
  <2>4. whose' = [g \in Granules |-> whose'[g]]
    BY <1>5, <2>1
  <2>5. \A p \in both : \A g \in GrainsOf({p}) : whose'[g] = Nobody
    BY <2>1, <2>2 DEF GrainsOf
  <2>6. Settles(t, both)
    BY <1>5, <2>1, <2>2, <2>3, <2>4, <2>5 DEF Settles
  <2>7. QED
    BY <1>1, <1>4, <2>6, Settled
<1>12. QED
  BY <1>10, <1>11

-----------------------------------------------------------------------------
(* munmap, and an allocator's calls                                        *)

\* What an allocator adopted is in a range altogether or not at all.
LEMMA WholeSlots ==
    ASSUME Kept, NEW ps \in SUBSET Pages, ~ CutsOff(ps), NEW s \in Slots,
           given[s].hi # 0
    PROVE  \/ s \in Covered(ps)
           \/ \A g \in Between(given[s].lo, given[s].hi) : Page(g) \notin ps
<1> SUFFICES ASSUME NEW g \in Between(given[s].lo, given[s].hi), Page(g) \in ps
             PROVE  s \in Covered(ps)
  OBVIOUS
<1>1. /\ Between(given[s].lo, given[s].hi) \subseteq Granules
      /\ given[s].version # DEAD
      /\ \A k \in Between(given[s].lo, given[s].hi) : arena[k] = given[s].version
  BY SlotOf
<1>2. ASSUME NEW k \in Between(given[s].lo, given[s].hi) PROVE k \in GrainsOf(ps)
  <2>1. g \in Adopted /\ k \in Adopted /\ arena[k] = arena[g]
    BY <1>1 DEF Adopted
  <2>2. QED
    BY <2>1 DEF CutsOff, GrainsOf, Adopted
<1>3. QED
  BY <1>2 DEF Covered

\* What is released is what the allocators adopted there, by granules, and
\* whole pages; nothing of it is owned afterwards.
LEMMA ReleasedAll ==
    ASSUME Kept, NEW ps \in SUBSET Pages, ~ CutsOff(ps)
    PROVE  \A g \in Granules :
             /\ Released(ps)[g] \in Nat
             /\ Page(g) \notin ps => Released(ps)[g] = plane[g]
             /\ Page(g) \in ps => ~ owned(Released(ps)[g])
<1>1. PICK carved : carved = UNION {Between(given[s].lo, given[s].hi) : s \in Covered(ps)}
  OBVIOUS
<1> DEFINE walked == [g \in Granules |->
                        IF g \in carved /\ owned(plane[g]) THEN ended(plane[g]) ELSE plane[g]]
<1>2. ASSUME NEW g \in Granules
      PROVE  g \in carved <=> Page(g) \in ps /\ arena[g] # DEAD
  <2>1. ASSUME g \in carved PROVE Page(g) \in ps /\ arena[g] # DEAD
    <3>1. PICK s \in Covered(ps) : g \in Between(given[s].lo, given[s].hi)
      BY <1>1, <2>1
    <3>2. s \in Slots /\ given[s].hi # 0 /\ g \in GrainsOf(ps)
      BY <3>1 DEF Covered
    <3>3. QED
      BY <3>1, <3>2, SlotOf DEF GrainsOf
  <2>2. ASSUME Page(g) \in ps, arena[g] # DEAD PROVE g \in carved
    <3>1. PICK s \in Slots : Gives(s, g)
      BY <2>2 DEF Kept, Given
    <3>2. s \in Covered(ps)
      BY <2>2, <3>1, WholeSlots DEF Gives
    <3>3. QED
      BY <1>1, <3>1, <3>2 DEF Gives
  <2>3. QED
    BY <2>1, <2>2
<1>3. ASSUME NEW g \in Granules
      PROVE  /\ walked[g] \in Nat
             /\ ~ (Page(g) \in ps /\ arena[g] # DEAD) => walked[g] = plane[g]
             /\ Page(g) \in ps /\ arena[g] # DEAD => ~ owned(walked[g])
  <2>1. plane[g] \in Nat
    BY DEF Kept, Shaped
  <2>2. QED
    BY <1>2, <2>1, Ended
<1>4. Released(ps) = [g \in Granules |->
                        IF g \in GrainsOf(ps) /\ owned(walked[Start(Page(g))])
                          THEN ended(walked[Start(Page(g))])
                          ELSE walked[g]]
  BY <1>1 DEF Released
<1> HIDE DEF walked
<1>5. ASSUME NEW g \in Granules, Page(g) \in ps, ~ owned(walked[Start(Page(g))])
      PROVE  ~ owned(walked[g])
  <2>1. CASE arena[g] # DEAD
    BY <1>3, <1>5, <2>1
  <2>2. CASE arena[g] = DEAD
    <3>1. PICK b \in Granules : b = Start(Page(g)) /\ b <= g /\ Page(b) = Page(g)
      BY PageOf, StartOf
    <3>2. arena[b] = DEAD
      <4>1. CASE b = g
        BY <2>2, <4>1
      <4>2. CASE b < g
        BY <2>2, <3>1, <4>2 DEF Kept, Paged
      <4>3. QED
        BY <3>1, <4>1, <4>2, Arena
    <3>3. whose[b] = whose[g]
      BY <2>2, <3>1, <3>2 DEF Kept, Paged
    <3>4. walked[b] = plane[b] /\ walked[g] = plane[g]
      BY <1>3, <2>2, <3>2
    <3>5. QED
      BY <1>5, <3>1, <3>3, <3>4, Owners DEF Kept
  <2>3. QED
    BY <2>1, <2>2
<1>6. SUFFICES ASSUME NEW g \in Granules
               PROVE  /\ Released(ps)[g] \in Nat
                      /\ Page(g) \notin ps => Released(ps)[g] = plane[g]
                      /\ Page(g) \in ps => ~ owned(Released(ps)[g])
  OBVIOUS
<1>7. Start(Page(g)) \in Granules /\ (g \in GrainsOf(ps) <=> Page(g) \in ps)
  BY PageOf DEF GrainsOf
<1>8. ended(walked[Start(Page(g))]) \in Nat /\ ~ owned(ended(walked[Start(Page(g))]))
  BY <1>3, <1>7, Ended
<1>9. QED
  BY <1>3, <1>4, <1>5, <1>7, <1>8

LEMMA UnmapDone ==
    ASSUME Kept, NEW ps \in SUBSET Pages, ~ CutsOff(ps), Apart(ps), Reserve({ps}, {}),
           plane' = Released(ps), given' = Forgotten(ps),
           whose' = Fill(whose, GrainsOf(ps), Nobody), arena' = Fill(arena, GrainsOf(ps), DEAD),
           UNCHANGED <<maps, carves, cursor, doing, refused>>
    PROVE  Kept'
<1>1. /\ kernel' \in [Pages -> {"reserved", "program", "none"}] /\ Lasting
      /\ \A p \in Pages : kernel'[p] = IF p \in ps THEN "reserved" ELSE kernel[p]
  <2>1. /\ {ps} \in SUBSET SUBSET Pages /\ UNION {ps} = ps /\ {} \in SUBSET {ps}
    OBVIOUS
  <2>2. QED
    BY <2>1, Reserves
<1>2. /\ ~ CutsOff(ps) /\ Apart(ps)
      /\ UNCHANGED <<maps, carves, cursor, doing, refused>>
  OBVIOUS
<1>3. \A g \in Granules : g \in GrainsOf(ps) <=> Page(g) \in ps
  BY DEF GrainsOf
<1>4. /\ plane' = Released(ps) /\ DOMAIN plane' = Granules
      /\ plane' = [g \in Granules |-> plane'[g]]
      /\ whose' = [g \in Granules |-> IF Page(g) \in ps THEN Nobody ELSE whose[g]]
      /\ arena' = [g \in Granules |-> IF Page(g) \in ps THEN DEAD ELSE arena[g]]
      /\ given' = [s \in Slots |-> IF s \in Covered(ps) THEN Empty ELSE given[s]]
  BY <1>3 DEF Fill, Forgotten, Released
<1>5. \A g \in Granules : /\ plane'[g] \in Nat
                          /\ Page(g) \notin ps => plane'[g] = plane[g]
                          /\ Page(g) \in ps => ~ owned(plane'[g])
  BY <1>2, <1>4, ReleasedAll
<1>6. Shaped'
  <2>1. Nobody \in Instance /\ DEAD \in Nat
    BY DEF Instance, DEAD
  <2>2. Empty \in [lo : Granules \cup {0}, hi : 0..PAGES * GRAINS, version : Nat]
    BY Arena DEF Empty, DEAD
  <2>3. whose' \in [Granules -> Instance] /\ arena' \in [Granules -> Nat]
    BY <1>4, <2>1 DEF Kept, Shaped
  <2>4. given' \in [Slots -> [lo : Granules \cup {0}, hi : 0..PAGES * GRAINS, version : Nat]]
    BY <1>4, <2>2 DEF Kept, Shaped
  <2>5. plane' \in [Granules -> Nat]
    BY <1>4, <1>5
  <2>6. QED
    BY <1>1, <1>2, <2>3, <2>4, <2>5 DEF Kept, Shaped, Lasting
<1>7. Numbered'
  BY <1>2, <1>4 DEF Kept, Numbered
<1>8. Told'
  <2> SUFFICES ASSUME NEW g \in Granules
               PROVE  IF whose'[g] = Nobody THEN ~ owned(plane'[g])
                                            ELSE plane'[g] = Key(whose'[g])
    BY DEF Told, Tells, Key
  <2>1. CASE Page(g) \in ps
    BY <1>4, <1>5, <2>1
  <2>2. CASE Page(g) \notin ps
    BY <1>4, <1>5, <2>2 DEF Kept, Told, Tells
  <2>3. QED
    BY <2>1, <2>2
<1>9. Paged'
  <2> SUFFICES ASSUME NEW g \in Granules
               PROVE  /\ IF arena'[g] = DEAD THEN whose'[g].by # "split" ELSE whose'[g].by # "mmap"
                      /\ \A h \in Granules : Page(h) = Page(g) =>
                          /\ arena'[g] = DEAD /\ arena'[h] = DEAD => whose'[h] = whose'[g]
                          /\ arena'[g] # DEAD /\ g < h => arena'[h] = arena'[g]
    BY DEF Paged
  <2>1. CASE Page(g) \in ps
    BY <1>4, <2>1 DEF Nobody
  <2>2. CASE Page(g) \notin ps
    BY <1>4, <2>2 DEF Kept, Paged
  <2>3. QED
    BY <2>1, <2>2
<1>10. Objects'
  <2> SUFFICES ASSUME NEW g \in Granules, NEW h \in Granules, g < h,
                      whose'[g] = whose'[h], whose'[g].by = "split", NEW k \in Between(g, h)
               PROVE  whose'[k] = whose'[g] /\ arena'[k] = arena'[h]
    BY DEF Objects, Between
  <2>1. Page(g) \notin ps /\ Page(h) \notin ps
    BY <1>4 DEF Nobody
  <2>2. k \in Granules
    BY Arena DEF Between, Granules
  <2>3. whose[k] = whose[g] /\ arena[k] = arena[h] /\ whose[h].by = "split"
    BY <1>4, <2>1 DEF Kept, Objects
  <2>4. arena[h] # DEAD
    BY <2>3 DEF Kept, Paged
  <2>5. Page(k) \notin ps
    BY <1>2, <2>1, <2>2, <2>3, <2>4 DEF CutsOff, Adopted, GrainsOf
  <2>6. QED
    BY <1>4, <2>1, <2>2, <2>3, <2>5
<1>11. Given'
  <2>1. ASSUME NEW s \in Slots, s \notin Covered(ps), given[s].hi # 0
        PROVE  \A g \in Between(given[s].lo, given[s].hi) : arena'[g] = arena[g]
    BY <1>2, <1>4, <2>1, WholeSlots, SlotOf
  <2>2. ASSUME NEW s \in Slots
        PROVE  \/ given'[s] = Empty
               \/ /\ given'[s] \in [lo : Granules, hi : 1..PAGES * GRAINS, version : Nat]
                  /\ given'[s].lo < given'[s].hi /\ owned(given'[s].version)
                  /\ \A g \in Between(given'[s].lo, given'[s].hi) : arena'[g] = given'[s].version
    <3>1. CASE s \in Covered(ps)
      BY <1>4, <3>1
    <3>2. CASE s \notin Covered(ps)
      <4>1. given'[s] = given[s]
        BY <1>4, <3>2
      <4>2. CASE given[s] = Empty
        BY <4>1, <4>2
      <4>3. CASE given[s] # Empty
        <5>1. /\ given[s] \in [lo : Granules, hi : 1..PAGES * GRAINS, version : Nat]
              /\ given[s].lo < given[s].hi /\ owned(given[s].version)
              /\ \A g \in Between(given[s].lo, given[s].hi) : arena[g] = given[s].version
          BY <4>3 DEF Kept, Given
        <5>2. given[s].hi # 0
          BY <5>1, Arena
        <5>3. QED
          BY <2>1, <3>2, <4>1, <5>1, <5>2
      <4>4. QED
        BY <4>2, <4>3
    <3>3. QED
      BY <3>1, <3>2
  <2>3. ASSUME NEW g \in Granules, arena'[g] # DEAD
        PROVE  \E s \in Slots : given'[s].hi # 0 /\ g \in Between(given'[s].lo, given'[s].hi)
    <3>1. Page(g) \notin ps /\ arena[g] # DEAD
      BY <1>4, <2>3
    <3>2. PICK s \in Slots : Gives(s, g)
      BY <3>1 DEF Kept, Given
    <3>3. s \notin Covered(ps)
      BY <1>3, <3>1, <3>2 DEF Covered, Gives
    <3>4. given'[s] = given[s]
      BY <1>4, <3>3
    <3>5. QED
      BY <3>2, <3>4 DEF Gives
  <2>4. QED
    BY <2>2, <2>3 DEF Given, Gives, Empty, Between
<1>12. Held'
  <2>1. \A t \in Threads : Occupied(t) \cap ps = {} /\ doing[t].new \subseteq Pages
    BY <1>2 DEF Apart, Occupied, Kept, Shaped, Call
  <2>2. \A t \in Threads : \A g \in GrainsOf(Occupied(t)) :
          plane'[g] = plane[g] /\ whose'[g] = whose[g] /\ arena'[g] = arena[g]
    BY <1>4, <1>5, <2>1 DEF GrainsOf
  <2>3. \A t \in Threads : \A p \in doing[t].new : kernel'[p] = kernel[p]
    BY <1>1, <2>1 DEF Occupied
  <2>4. QED
    BY <1>2, <2>2, <2>3, OthersKeep
<1>13. Ranged'
  <2> SUFFICES ASSUME NEW p \in Pages
               PROVE  /\ kernel'[p] = "reserved" =>
                           \A g \in GrainsOf({p}) : whose'[g] = Nobody /\ arena'[g] = DEAD
                      /\ kernel'[p] = "none" /\ Apart({p})' => p \in lost' \/
                           \E g \in GrainsOf({p}) : whose'[g] # Nobody \/ arena'[g] # DEAD
    BY DEF Ranged
  <2>1. CASE p \in ps
    BY <1>1, <1>4, <2>1 DEF GrainsOf
  <2>2. CASE p \notin ps
    <3>1. \A g \in GrainsOf({p}) : whose'[g] = whose[g] /\ arena'[g] = arena[g]
      BY <1>4, <2>2 DEF GrainsOf
    <3>2. Apart({p})' => Apart({p})
      BY <1>2 DEF Apart
    <3>3. kernel'[p] = kernel[p]
      BY <1>1, <2>2
    <3>4. QED
      BY <1>1, <3>1, <3>2, <3>3 DEF Kept, Ranged, Lasting
  <2>3. QED
    BY <2>1, <2>2
<1>14. QED
  BY <1>6, <1>7, <1>8, <1>9, <1>10, <1>11, <1>12, <1>13 DEF Kept

LEMMA UnmapKeeps ==
    ASSUME Kept, NEW size \in 1..PAGES, NEW ps \in Spans(size), Unmap(ps), Sound'
    PROVE  Kept'
<1>1. ps \in SUBSET Pages
  BY SpanOf
<1>2. ~ CutsOff(ps) /\ Apart(ps) /\ UNCHANGED <<maps, carves, cursor, doing, refused>>
  BY DEF Unmap, Opens, Sound
<1>3. PICK denied \in SUBSET {ps} :
        /\ Reserve({ps}, denied)
        /\ IF denied = {}
             THEN /\ plane' = Released(ps) /\ given' = Forgotten(ps)
                  /\ whose' = Fill(whose, GrainsOf(ps), Nobody)
                  /\ arena' = Fill(arena, GrainsOf(ps), DEAD)
             ELSE UNCHANGED <<plane, given, whose, arena>>
  BY DEF Unmap
<1>4. CASE denied = {}
  BY <1>1, <1>2, <1>3, <1>4, UnmapDone
<1>5. CASE denied = {ps}
  <2>1. UNCHANGED <<plane, given, whose, arena>>
    BY <1>3, <1>5
  <2>2. {ps} \in SUBSET SUBSET Pages /\ UNION {ps} = ps
    BY <1>1
  <2>3. /\ kernel' \in [Pages -> {"reserved", "program", "none"}] /\ Lasting
        /\ \A p \in Pages : /\ p \notin ps => kernel'[p] = kernel[p]
                            /\ kernel'[p] = "reserved" => kernel[p] = "reserved"
                            /\ p \in ps /\ kernel'[p] = "none" => p \in lost'
    BY <1>3, <1>5, <2>2, Reserves
  <2>4. QED
    BY <1>1, <1>2, <2>1, <2>3, TakenDown DEF truth
<1>6. QED
  BY <1>4, <1>5

LEMMA AdoptKeeps ==
    ASSUME Kept, NEW lo \in Granules, NEW hi \in lo + 1..PAGES * GRAINS,
           Adopt(lo, hi), Sound'
    PROVE  Kept'
<1> DEFINE range == Between(lo, hi)
<1>1. /\ lo \in Nat /\ hi \in Nat /\ lo < hi /\ hi <= PAGES * GRAINS /\ PAGES * GRAINS \in Nat
      /\ hi \in 1..PAGES * GRAINS
      /\ range \subseteq Granules /\ lo \in range /\ hi - 1 \in range
  BY Arena DEF Between, Granules
<1>2. /\ hi % GRAINS = 0 /\ whose[lo].by = "mmap" /\ \A g \in range : whose[g] = whose[lo]
      /\ Apart({Page(g) : g \in range})
      /\ UNCHANGED <<maps, carves, cursor, os, doing, refused>>
  BY DEF Adopt, Opens, Sound, OneMapping
<1>3. whose[lo] # Nobody
  BY <1>2 DEF Nobody
<1>4. PICK version \in Nat : /\ version = plane[lo] /\ version = Key(whose[lo])
                             /\ owned(version) /\ version # DEAD /\ plane[hi - 1] = version
  <2>1. /\ plane[lo] = Key(whose[lo]) /\ owned(plane[lo]) /\ plane[hi - 1] = plane[lo]
        /\ plane[lo] \in Nat
    BY <1>1, <1>2, <1>3, Owners DEF Kept, Shaped
  <2>2. QED
    BY <2>1 DEF owned
<1>5. PICK s0 \in Slots :
        /\ given[s0].hi = 0
        /\ given' = [given EXCEPT ![s0] = [lo |-> lo, hi |-> hi, version |-> version]]
        /\ plane' = Fill(plane, range, ended(version))
  <2> DEFINE free == {s \in Slots : given[s].hi = 0}
  <2>1. free # {} /\ given' = [given EXCEPT ![First(free)] =
                                 [lo |-> lo, hi |-> hi, version |-> version]]
        /\ plane' = Fill(plane, range, ended(version))
    <3>1. free # {}
      BY DEF Adopt, Opens, Sound
    <3>2. QED
      BY <1>4, <3>1 DEF Adopt
  <2>2. free \in SUBSET Nat
    BY MappingsAssumption DEF Slots
  <2>3. First(free) \in free
    BY <2>1, <2>2, FirstOf
  <2>4. QED
    BY <2>1, <2>3
<1>6. /\ plane' = [g \in Granules |-> IF g \in range THEN ended(version) ELSE plane[g]]
      /\ arena' = [g \in Granules |-> IF g \in range THEN version ELSE arena[g]]
      /\ whose' = [g \in Granules |-> IF g \in range THEN Nobody ELSE whose[g]]
  BY <1>4, <1>5 DEF Adopt, Fill
<1>7. ended(version) \in Nat /\ ~ owned(ended(version))
  BY <1>4, Ended
<1>8. \A g \in range : arena[g] = DEAD
  BY <1>1, <1>2 DEF Kept, Paged
<1> HIDE DEF range
<1>9. given \in [Slots -> [lo : Granules \cup {0}, hi : 0..PAGES * GRAINS, version : Nat]]
  BY DEF Kept, Shaped
<1>10. /\ given'[s0] = [lo |-> lo, hi |-> hi, version |-> version]
       /\ \A s \in Slots \ {s0} : given'[s] = given[s]
  BY <1>5, <1>9
<1>11. Shaped'
  <2>1. Nobody \in Instance
    BY DEF Instance
  <2>2. whose' \in [Granules -> Instance] /\ arena' \in [Granules -> Nat]
        /\ plane' \in [Granules -> Nat]
    BY <1>6, <1>7, <2>1 DEF Kept, Shaped
  <2>3. [lo |-> lo, hi |-> hi, version |-> version] \in
          [lo : Granules \cup {0}, hi : 0..PAGES * GRAINS, version : Nat]
    BY <1>1
  <2>4. given' \in [Slots -> [lo : Granules \cup {0}, hi : 0..PAGES * GRAINS, version : Nat]]
    BY <1>5, <1>9, <2>3
  <2>5. QED
    BY <1>2, <2>2, <2>4 DEF Kept, Shaped, os
<1>12. Numbered'
  BY <1>2, <1>6 DEF Kept, Numbered
<1>13. Told'
  <2> SUFFICES ASSUME NEW g \in Granules
               PROVE  IF whose'[g] = Nobody THEN ~ owned(plane'[g])
                                            ELSE plane'[g] = Key(whose'[g])
    BY DEF Told, Tells, Key
  <2>1. CASE g \in range
    BY <1>6, <1>7, <2>1
  <2>2. CASE g \notin range
    BY <1>6, <2>2 DEF Kept, Told, Tells
  <2>3. QED
    BY <2>1, <2>2
<1>14. Paged'
  <2>1. ASSUME NEW g \in Granules
        PROVE  IF arena'[g] = DEAD THEN whose'[g].by # "split" ELSE whose'[g].by # "mmap"
    <3>1. CASE g \in range
      BY <1>4, <1>6, <3>1 DEF Nobody
    <3>2. CASE g \notin range
      BY <1>6, <3>2 DEF Kept, Paged
    <3>3. QED
      BY <3>1, <3>2
  <2>2. ASSUME NEW g \in Granules, NEW h \in Granules, Page(h) = Page(g),
               arena'[g] = DEAD, arena'[h] = DEAD
        PROVE  whose'[h] = whose'[g]
    <3>1. g \notin range /\ h \notin range
      BY <1>4, <1>6, <2>2
    <3>2. QED
      BY <1>6, <2>2, <3>1 DEF Kept, Paged
  <2>3. ASSUME NEW g \in Granules, NEW h \in Granules, Page(h) = Page(g),
               arena'[g] # DEAD, g < h
        PROVE  arena'[h] = arena'[g]
    <3>1. CASE g \in range
      <4>1. lo <= g /\ g < hi /\ g \in Nat /\ h \in Nat
        BY <1>1, <3>1, Arena DEF Between, range
      <4>2. h < hi
        BY <1>1, <1>2, <2>3, <4>1, Aligned
      <4>3. h \in range
        BY <1>1, <2>3, <4>1, <4>2 DEF Between, range
      <4>4. QED
        BY <1>6, <3>1, <4>3
    <3>2. CASE g \notin range
      <4>1. arena'[g] = arena[g] /\ arena[g] # DEAD
        BY <1>6, <2>3, <3>2
      <4>2. arena[h] = arena[g]
        BY <2>3, <4>1 DEF Kept, Paged
      <4>3. QED
        BY <1>6, <1>8, <4>1, <4>2
    <3>3. QED
      BY <3>1, <3>2
  <2>4. QED
    BY <2>1, <2>2, <2>3 DEF Paged
<1>15. Objects'
  <2> SUFFICES ASSUME NEW g \in Granules, NEW h \in Granules, g < h,
                      whose'[g] = whose'[h], whose'[g].by = "split", NEW k \in Between(g, h)
               PROVE  whose'[k] = whose'[g] /\ arena'[k] = arena'[h]
    BY DEF Objects, Between
  <2>1. g \notin range /\ h \notin range
    BY <1>6 DEF Nobody
  <2>2. k \in Granules
    BY Arena DEF Between, Granules
  <2>3. whose[k] = whose[g] /\ arena[k] = arena[h] /\ whose[g].by = "split"
    BY <1>6, <2>1 DEF Kept, Objects
  <2>4. k \notin range
    BY <1>2, <2>3
  <2>5. QED
    BY <1>6, <2>1, <2>2, <2>3, <2>4
<1>16. Given'
  <2>1. ASSUME NEW s \in Slots
        PROVE  \/ given'[s] = Empty
               \/ /\ given'[s] \in [lo : Granules, hi : 1..PAGES * GRAINS, version : Nat]
                  /\ given'[s].lo < given'[s].hi /\ owned(given'[s].version)
                  /\ \A g \in Between(given'[s].lo, given'[s].hi) : arena'[g] = given'[s].version
    <3>1. CASE s = s0
      <4>1. \A g \in Between(lo, hi) : arena'[g] = version
        BY <1>1, <1>6 DEF range
      <4>2. QED
        BY <1>1, <1>4, <1>10, <3>1, <4>1
    <3>2. CASE s # s0
      <4>1. given'[s] = given[s]
        BY <1>10, <3>2
      <4>2. CASE given[s] = Empty
        BY <4>1, <4>2
      <4>3. CASE given[s] # Empty
        <5>1. /\ given[s] \in [lo : Granules, hi : 1..PAGES * GRAINS, version : Nat]
              /\ given[s].lo < given[s].hi /\ owned(given[s].version)
              /\ \A g \in Between(given[s].lo, given[s].hi) : arena[g] = given[s].version
          BY <4>3 DEF Kept, Given
        <5>2. given[s].hi # 0 /\ given[s].version # DEAD
          BY <5>1, Arena DEF owned
        <5>3. Between(given[s].lo, given[s].hi) \subseteq Granules
          BY <5>2, SlotOf
        <5>4. \A g \in Between(given[s].lo, given[s].hi) : g \notin range
          BY <1>8, <5>1, <5>2
        <5>5. \A g \in Between(given[s].lo, given[s].hi) : arena'[g] = given[s].version
          BY <1>6, <5>1, <5>3, <5>4
        <5>6. QED
          BY <4>1, <5>1, <5>5
      <4>4. QED
        BY <4>2, <4>3
    <3>3. QED
      BY <3>1, <3>2
  <2>2. ASSUME NEW g \in Granules, arena'[g] # DEAD
        PROVE  \E s \in Slots : given'[s].hi # 0 /\ g \in Between(given'[s].lo, given'[s].hi)
    <3>1. CASE g \in range
      BY <1>1, <1>10, <3>1 DEF range
    <3>2. CASE g \notin range
      <4>1. PICK s \in Slots : Gives(s, g)
        BY <1>6, <2>2, <3>2 DEF Kept, Given
      <4>2. given'[s] = given[s]
        BY <1>5, <1>10, <4>1 DEF Gives
      <4>3. QED
        BY <4>1, <4>2 DEF Gives
    <3>3. QED
      BY <3>1, <3>2
  <2>3. QED
    BY <2>1, <2>2 DEF Given, Gives, Empty, Between
<1>17. Held'
  <2>1. \A t \in Threads : \A g \in GrainsOf(Occupied(t)) : g \notin range
    BY <1>2 DEF Apart, Occupied, GrainsOf
  <2>2. \A t \in Threads : \A g \in GrainsOf(Occupied(t)) :
          plane'[g] = plane[g] /\ whose'[g] = whose[g] /\ arena'[g] = arena[g]
    BY <1>6, <2>1 DEF GrainsOf
  <2>3. QED
    BY <1>2, <2>2, OthersKeep DEF os
<1>18. Ranged'
  <2> SUFFICES ASSUME NEW p \in Pages
               PROVE  /\ kernel[p] = "reserved" =>
                           \A g \in GrainsOf({p}) : whose'[g] = Nobody /\ arena'[g] = DEAD
                      /\ kernel[p] = "none" /\ Apart({p}) => p \in lost \/
                           \E g \in GrainsOf({p}) : whose'[g] # Nobody \/ arena'[g] # DEAD
    BY <1>2 DEF Ranged, Apart, os
  <2>1. \A g \in GrainsOf({p}) : g \in Granules
    BY DEF GrainsOf
  <2>2. ASSUME NEW g \in GrainsOf({p}), whose[g] = Nobody, arena[g] = DEAD
        PROVE  whose'[g] = Nobody /\ arena'[g] = DEAD
    BY <1>2, <1>3, <1>6, <2>1, <2>2
  <2>3. ASSUME NEW g \in GrainsOf({p}), whose[g] # Nobody \/ arena[g] # DEAD
        PROVE  whose'[g] # Nobody \/ arena'[g] # DEAD
    BY <1>4, <1>6, <2>1, <2>3
  <2>4. QED
    BY <2>2, <2>3 DEF Kept, Ranged
<1>19. QED
  BY <1>11, <1>12, <1>13, <1>14, <1>15, <1>16, <1>17, <1>18 DEF Kept

\* A step on what was adopted: some granules become one new object, or nobody's.
Carves ==
    /\ UNCHANGED <<maps, given, cursor, os, doing, arena, refused>>
    /\ carves' \in {carves, carves + 1}
    /\ plane' = [g \in Granules |-> plane'[g]] /\ whose' = [g \in Granules |-> whose'[g]]
    /\ \A g \in Granules :
        \/ plane'[g] = plane[g] /\ whose'[g] = whose[g]
        \/ /\ arena[g] # DEAD /\ whose'[g] = Nobody
           /\ plane'[g] \in Nat /\ ~ owned(plane'[g])
        \/ /\ arena[g] # DEAD /\ carves' = carves + 1
           /\ whose'[g] = [by |-> "split", n |-> carves] /\ plane'[g] = begun(carves)

LEMMA CarvesKeep ==
    ASSUME Kept, Carves, Objects'
    PROVE  Kept'
<1>1. carves \in Nat \ {0} /\ carves' \in Nat \ {0} /\ carves <= carves'
  BY DEF Kept, Numbered, Carves
<1>2. /\ UNCHANGED <<maps, given, cursor, os, doing, arena, refused>>
      /\ \A g \in Granules :
            \/ plane'[g] = plane[g] /\ whose'[g] = whose[g]
            \/ /\ arena[g] # DEAD /\ whose'[g] = Nobody
               /\ plane'[g] \in Nat /\ ~ owned(plane'[g])
            \/ /\ arena[g] # DEAD /\ carves' = carves + 1
               /\ whose'[g] = [by |-> "split", n |-> carves] /\ plane'[g] = begun(carves)
  BY DEF Carves
<1>3. Shaped'
  <2>1. [by |-> "split", n |-> carves] \in Instance
    BY <1>1 DEF Instance
  <2>2. Nobody \in Instance /\ begun(carves) \in Nat
    BY <1>1, Begun DEF Instance
  <2>3. \A g \in Granules : whose'[g] \in Instance /\ plane'[g] \in Nat
    BY <1>2, <2>1, <2>2 DEF Kept, Shaped
  <2>4. whose' \in [Granules -> Instance] /\ plane' \in [Granules -> Nat]
    BY <2>3 DEF Carves
  <2>5. QED
    BY <1>2, <2>4 DEF Kept, Shaped, os
<1>4. Numbered'
  <2>1. ASSUME NEW g \in Granules
        PROVE  \/ whose'[g] = Nobody
               \/ whose'[g] \in [by : {"mmap"}, n : 1..maps - 1]
               \/ whose'[g] \in [by : {"split"}, n : 1..carves' - 1]
    <3>1. CASE whose'[g] = whose[g]
      <4>1. \A n \in 1..carves - 1 : n \in 1..carves' - 1
        <5>1. carves' = carves \/ carves' = carves + 1
          BY DEF Carves
        <5>2. carves \in Nat
          BY <1>1
        <5>3. QED
          BY <5>1, <5>2
      <4>2. QED
        BY <3>1, <4>1 DEF Kept, Numbered
    <3>2. CASE carves' = carves + 1 /\ whose'[g] = [by |-> "split", n |-> carves]
      <4>1. carves \in 1..carves' - 1
        BY <1>1, <3>2
      <4>2. QED
        BY <3>2, <4>1
    <3>3. QED
      BY <1>2, <3>1, <3>2
  <2>2. QED
    BY <1>1, <1>2, <2>1 DEF Kept, Numbered
<1>5. Told'
  <2> SUFFICES ASSUME NEW g \in Granules
               PROVE  IF whose'[g] = Nobody THEN ~ owned(plane'[g])
                                            ELSE plane'[g] = Key(whose'[g])
    BY DEF Told, Tells, Key
  <2>1. /\ [by |-> "split", n |-> carves] # Nobody
        /\ Key([by |-> "split", n |-> carves]) = begun(carves)
    BY DEF Nobody, Key
  <2>2. QED
    BY <1>2, <2>1 DEF Kept, Told, Tells
<1>6. Paged'
  <2>1. ASSUME NEW g \in Granules
        PROVE  IF arena[g] = DEAD THEN whose'[g].by # "split" ELSE whose'[g].by # "mmap"
    <3>1. CASE whose'[g] = whose[g]
      BY <3>1 DEF Kept, Paged
    <3>2. CASE arena[g] # DEAD /\ whose'[g] = Nobody
      BY <3>2 DEF Nobody
    <3>3. CASE arena[g] # DEAD /\ whose'[g] = [by |-> "split", n |-> carves]
      BY <3>3
    <3>4. QED
      BY <1>2, <3>1, <3>2, <3>3
  <2>2. \A g \in Granules : arena[g] = DEAD => whose'[g] = whose[g]
    BY <1>2
  <2>3. \A g, h \in Granules : Page(h) = Page(g) =>
          /\ arena[g] = DEAD /\ arena[h] = DEAD => whose'[h] = whose'[g]
          /\ arena[g] # DEAD /\ g < h => arena[h] = arena[g]
    BY <2>2 DEF Kept, Paged
  <2>4. QED
    BY <1>2, <2>1, <2>3 DEF Paged
<1>7. Given'
  BY <1>2 DEF Kept, Given, Gives
<1>8. Held'
  <2>1. \A t \in Threads : \A g \in GrainsOf(Occupied(t)) : arena[g] = DEAD /\ g \in Granules
    BY DEF Kept, Held, Has, Occupied, GrainsOf
  <2>2. \A t \in Threads : \A g \in GrainsOf(Occupied(t)) :
          plane'[g] = plane[g] /\ whose'[g] = whose[g] /\ arena'[g] = arena[g]
    BY <1>2, <2>1
  <2>3. QED
    BY <1>2, <2>2, OthersKeep DEF os
<1>9. Ranged'
  <2> SUFFICES ASSUME NEW p \in Pages
               PROVE  /\ kernel[p] = "reserved" =>
                           \A g \in GrainsOf({p}) : whose'[g] = Nobody /\ arena[g] = DEAD
                      /\ kernel[p] = "none" /\ Apart({p}) => p \in lost \/
                           \E g \in GrainsOf({p}) : whose'[g] # Nobody \/ arena[g] # DEAD
    BY <1>2 DEF Ranged, Apart, os
  <2>1. \A g \in GrainsOf({p}) : arena[g] = DEAD => whose'[g] = whose[g]
    BY <1>2 DEF GrainsOf
  <2>2. QED
    BY <2>1 DEF Kept, Ranged
<1>10. QED
  BY <1>3, <1>4, <1>5, <1>6, <1>7, <1>8, <1>9 DEF Kept

LEMMA SplitKeeps ==
    ASSUME Kept, NEW lo \in Adopted, NEW hi \in lo + 1..PAGES * GRAINS,
           Split(lo, hi)
    PROVE  Kept'
<1> DEFINE range == Between(lo, hi)
           new == [by |-> "split", n |-> carves]
<1>1. /\ lo \in Granules /\ arena[lo] # DEAD /\ range \subseteq Granules
  BY Arena DEF Adopted, Between, Granules
<1>2. /\ carves \in Nat
      /\ \A g \in range : arena[g] = arena[lo] /\ whose[g] = Nobody
      /\ UNCHANGED <<maps, given, cursor, os, doing, arena>>
  BY DEF Split, Kept, Numbered
<1>3. \A g \in range : ~ owned(plane[g])
  BY <1>1, <1>2, Owners DEF Kept
<1>4. /\ plane' = [g \in Granules |-> IF g \in range THEN begun(carves) ELSE plane[g]]
      /\ whose' = [g \in Granules |-> IF g \in range THEN new ELSE whose[g]]
      /\ carves' = carves + 1 /\ refused' = refused
  BY <1>3 DEF Split, Fill
<1>5. Carves
  <2>1. carves' \in {carves, carves + 1}
    BY <1>4
  <2>2. plane' = [g \in Granules |-> plane'[g]] /\ whose' = [g \in Granules |-> whose'[g]]
    BY <1>4
  <2>3. \A g \in Granules :
          \/ plane'[g] = plane[g] /\ whose'[g] = whose[g]
          \/ arena[g] # DEAD /\ whose'[g] = new /\ plane'[g] = begun(carves)
    BY <1>1, <1>2, <1>4
  <2>4. QED
    BY <1>2, <1>4, <2>1, <2>2, <2>3 DEF Carves
<1>6. \A g \in Granules : whose[g] # new
  <2>1. \A n \in 1..maps - 1 : [by |-> "mmap", n |-> n] # new
    OBVIOUS
  <2>2. \A n \in 1..carves - 1 : n # carves
    BY <1>2
  <2>3. Nobody # new
    BY DEF Nobody
  <2>4. QED
    BY <2>2, <2>3 DEF Kept, Numbered
<1>7. Objects'
  <2> SUFFICES ASSUME NEW g \in Granules, NEW h \in Granules, g < h,
                      whose'[g] = whose'[h], whose'[g].by = "split", NEW k \in Between(g, h)
               PROVE  whose'[k] = whose'[g] /\ arena[k] = arena[h]
    BY <1>2 DEF Objects
  <2>1. k \in Granules /\ g \in Nat /\ h \in Nat /\ k \in Nat /\ g <= k /\ k < h
    BY Arena DEF Between, Granules
  <2>2. CASE g \in range
    <3>1. h \in range
      BY <1>4, <1>6, <2>2
    <3>2. k \in range
      <4>1. lo \in Nat /\ hi \in Nat /\ lo <= g /\ h < hi
        BY <1>1, <2>2, <3>1, Arena DEF Between
      <4>2. QED
        BY <2>1, <4>1 DEF Between
    <3>3. QED
      BY <1>2, <1>4, <2>1, <2>2, <3>1, <3>2
  <2>3. CASE g \notin range
    <3>1. h \notin range /\ whose[g] = whose[h] /\ whose[g].by = "split"
      BY <1>4, <1>6, <2>3
    <3>2. whose[k] = whose[g] /\ arena[k] = arena[h]
      BY <3>1 DEF Kept, Objects
    <3>3. k \notin range
      BY <1>2, <3>1, <3>2 DEF Nobody
    <3>4. QED
      BY <1>4, <2>1, <2>3, <3>2, <3>3
  <2>4. QED
    BY <2>2, <2>3
<1>8. QED
  BY <1>5, <1>7, CarvesKeep

\* A walk from a granule of an object stays within the object, and from the
\* granule on it reaches all of it.
LEMMA RunWithin ==
    ASSUME Kept, NEW h \in Granules, whose[h].by = "split", ~ Meets(whose[h]),
           NEW g \in RunFrom(h)
    PROVE  g \in Granules /\ whose[g] = whose[h]
<1>1. g \in Granules /\ g >= h /\ \A k \in Between(h, g + 1) : plane[k] = plane[h]
  BY DEF RunFrom
<1>2. /\ g \in Nat /\ h \in Nat /\ g \in Between(h, g + 1)
      /\ Between(h, g + 1) \subseteq Granules /\ whose[h] # Nobody
  BY <1>1, Arena DEF Between, Granules, Nobody
<1>3. PICK other : other = {k \in Between(h, g + 1) : whose[k] # whose[h]}
  OBVIOUS
<1>4. other = {}
  <2>1. SUFFICES ASSUME other # {} PROVE FALSE
    OBVIOUS
  <2>2. other \in SUBSET Nat
    BY <1>2, <1>3, Arena
  <2>3. PICK k \in other : \A j \in other : k <= j
    BY <2>1, <2>2, Least
  <2>4. /\ k \in Granules /\ k \in Nat /\ h < k /\ k <= g
        /\ whose[k] # whose[h] /\ plane[k] = plane[h]
    BY <1>1, <1>2, <1>3, Arena DEF Between
  <2>5. k - 1 \in Granules /\ k - 1 \in Between(h, g + 1) /\ (k - 1) + 1 = k
    BY <1>2, <2>4, Arena DEF Between, Granules
  <2>6. k - 1 \notin other
    BY <2>3, <2>4
  <2>7. whose[k - 1] = whose[h]
    BY <1>3, <2>5, <2>6
  <2>8. whose[k] = [by |-> "mmap", n |-> whose[h].n]
    <3>1. /\ whose[k] = [by |-> whose[k].by, n |-> whose[h].n]
          /\ whose[k].by # whose[h].by /\ whose[k].by \in {"mmap", "split"}
      BY <1>2, <2>4, SameOwner DEF Kept
    <3>2. whose[k].by = "mmap"
      BY <3>1
    <3>3. QED
      BY <3>1, <3>2
  <2>9. QED
    BY <2>4, <2>5, <2>7, <2>8 DEF Meets
<1>5. QED
  BY <1>1, <1>2, <1>3, <1>4

LEMMA RunReaches ==
    ASSUME Kept, NEW h \in Granules, whose[h].by = "split",
           NEW g \in Granules, whose[g] = whose[h], h <= g
    PROVE  g \in RunFrom(h)
<1>1. g \in Nat /\ h \in Nat /\ whose[h] # Nobody
  BY Arena DEF Nobody
<1>2. ASSUME NEW k \in Between(h, g + 1) PROVE plane[k] = plane[h]
  <2>1. k \in Granules /\ (k = g \/ k \in Between(h, g)) /\ (k = h \/ h < g)
    BY <1>1, Arena DEF Between, Granules
  <2>2. whose[k] = whose[h]
    BY <2>1 DEF Kept, Objects
  <2>3. QED
    BY <1>1, <2>1, <2>2, SameOwner DEF Kept
<1>3. QED
  BY <1>1, <1>2 DEF RunFrom

\* Nothing of an object lies before the granule where it begins.
LEMMA NothingBefore ==
    ASSUME Kept, NEW lo \in Granules, whose[lo].by = "split", Begins(lo),
           NEW g \in Granules, whose[g] = whose[lo]
    PROVE  lo <= g
<1> SUFFICES ASSUME g < lo PROVE FALSE
  BY Arena
<1>1. g \in Nat /\ lo \in Nat /\ lo > 0 /\ lo - 1 \in Between(g, lo)
  BY Arena DEF Between
<1>2. whose[lo - 1] = whose[g]
  BY <1>1 DEF Kept, Objects
<1>3. QED
  BY <1>1, <1>2 DEF Begins

\* What an object gives back is its own, whole.
LEMMA GivingBack ==
    ASSUME Kept, NEW owners, Nobody \notin owners,
           \A g \in Granules : whose[g] \in owners => whose[g].by = "split",
           UNCHANGED <<maps, carves, given, cursor, os, doing, arena, refused>>,
           plane' = [g \in Granules |-> IF whose[g] \in owners THEN ended(plane[g]) ELSE plane[g]],
           whose' = [g \in Granules |-> IF whose[g] \in owners THEN Nobody ELSE whose[g]]
    PROVE  Kept'
<1>1. \A g \in Granules : whose[g] \in owners => arena[g] # DEAD
  BY DEF Kept, Paged
<1>2. \A g \in Granules : ended(plane[g]) \in Nat /\ ~ owned(ended(plane[g]))
  BY Ended DEF Kept, Shaped
<1>3. Carves
  <2>1. carves \in Nat
    BY DEF Kept, Numbered
  <2>2. plane' = [g \in Granules |-> plane'[g]] /\ whose' = [g \in Granules |-> whose'[g]]
    OBVIOUS
  <2>3. \A g \in Granules :
          \/ plane'[g] = plane[g] /\ whose'[g] = whose[g]
          \/ /\ arena[g] # DEAD /\ whose'[g] = Nobody
             /\ plane'[g] \in Nat /\ ~ owned(plane'[g])
    BY <1>1, <1>2
  <2>4. QED
    BY <2>1, <2>2, <2>3 DEF Carves
<1>4. Objects'
  <2> SUFFICES ASSUME NEW g \in Granules, NEW h \in Granules, g < h,
                      whose'[g] = whose'[h], whose'[g].by = "split", NEW k \in Between(g, h)
               PROVE  whose'[k] = whose'[g] /\ arena[k] = arena[h]
    BY DEF Objects
  <2>1. /\ whose[g] \notin owners /\ whose[h] \notin owners
        /\ whose'[g] = whose[g] /\ whose'[h] = whose[h]
    BY DEF Nobody
  <2>2. whose[k] = whose[g] /\ arena[k] = arena[h]
    BY <2>1 DEF Kept, Objects
  <2>3. k \in Granules
    BY Arena DEF Between, Granules
  <2>4. QED
    BY <2>1, <2>2, <2>3
<1>5. QED
  BY <1>3, <1>4, CarvesKeep

LEMMA MergeKeeps ==
    ASSUME Kept, NEW lo \in Granules, Merge(lo), Sound'
    PROVE  Kept'
<1>1. /\ whose[lo].by = "split" /\ Begins(lo) /\ whose[lo] # Nobody
      /\ UNCHANGED <<maps, carves, given, cursor, os, doing, arena>>
      /\ whose' = [g \in Granules |-> IF whose[g] = whose[lo] THEN Nobody ELSE whose[g]]
  BY DEF Merge, Nobody
<1>2. owned(plane[lo]) /\ ~ Meets(whose[lo])
  BY <1>1, Owners DEF Kept, Merge, Sound, Opens
<1>3. /\ plane' = [g \in Granules |-> IF g \in RunFrom(lo) THEN ended(plane[lo]) ELSE plane[g]]
      /\ refused' = refused
  BY <1>2 DEF Merge, Fill
<1>4. ASSUME NEW g \in Granules
      PROVE  /\ g \in RunFrom(lo) <=> whose[g] = whose[lo]
             /\ whose[g] = whose[lo] => plane[g] = plane[lo]
  <2>1. g \in RunFrom(lo) => whose[g] = whose[lo]
    BY <1>1, <1>2, RunWithin
  <2>2. whose[g] = whose[lo] => g \in RunFrom(lo)
    BY <1>1, NothingBefore, RunReaches
  <2>3. whose[g] = whose[lo] => plane[g] = plane[lo]
    BY <1>1, SameOwner DEF Kept
  <2>4. QED
    BY <2>1, <2>2, <2>3
<1>5. PICK owners : owners = {whose[lo]}
  OBVIOUS
<1>6. /\ plane' = [g \in Granules |-> IF whose[g] \in owners THEN ended(plane[g]) ELSE plane[g]]
      /\ whose' = [g \in Granules |-> IF whose[g] \in owners THEN Nobody ELSE whose[g]]
  BY <1>1, <1>3, <1>4, <1>5
<1>7. Nobody \notin owners /\ \A g \in Granules : whose[g] \in owners => whose[g].by = "split"
  BY <1>1, <1>5
<1>8. QED
  BY <1>1, <1>3, <1>6, <1>7, GivingBack

LEMMA PurgeKeeps ==
    ASSUME Kept, NEW lo \in Adopted, NEW hi \in lo + 1..PAGES * GRAINS,
           Purge(lo, hi), Sound'
    PROVE  Kept'
<1>1. PICK owners : owners = {whose[g] : g \in Between(lo, hi)} \ {Nobody}
  OBVIOUS
<1>2. /\ \A g \in Between(lo, hi) : arena[g] = arena[lo]
      /\ whose[lo] # Nobody => Begins(lo)
      /\ plane' = [g \in Granules |->
                    IF \E h \in Between(lo, hi) : owned(plane[h]) /\ g \in RunFrom(h)
                      THEN ended(plane[g]) ELSE plane[g]]
      /\ whose' = [g \in Granules |-> IF whose[g] \in owners THEN Nobody ELSE whose[g]]
      /\ UNCHANGED <<maps, carves, given, cursor, os, doing, arena, refused>>
      /\ \A object \in owners : ~ Meets(object)
  BY <1>1 DEF Purge, Sound, Opens
<1>3. /\ lo \in Granules /\ arena[lo] # DEAD /\ Between(lo, hi) \subseteq Granules
      /\ lo \in Nat /\ hi \in Nat /\ lo < hi /\ lo \in Between(lo, hi)
  BY Arena DEF Adopted, Between, Granules
<1>4. ASSUME NEW g \in Between(lo, hi), whose[g] # Nobody PROVE whose[g].by = "split"
  <2>1. whose[g].by # "mmap"
    BY <1>2, <1>3 DEF Kept, Paged
  <2>2. QED
    BY <1>3, <1>4, <2>1, Keys DEF Kept
<1>5. Nobody \notin owners /\ \A g \in Granules : whose[g] \in owners => whose[g].by = "split"
  BY <1>1, <1>4
<1>6. ASSUME NEW g \in Granules
      PROVE  (\E h \in Between(lo, hi) : owned(plane[h]) /\ g \in RunFrom(h))
               <=> whose[g] \in owners
  <2>1. ASSUME NEW h \in Between(lo, hi), owned(plane[h]), g \in RunFrom(h)
        PROVE  whose[g] \in owners
    <3>1. whose[h] # Nobody
      BY <1>3, <2>1, Owners DEF Kept
    <3>2. whose[g] = whose[h]
      BY <1>1, <1>2, <1>3, <1>4, <2>1, <3>1, RunWithin
    <3>3. QED
      BY <1>1, <3>1, <3>2
  <2>2. ASSUME whose[g] \in owners
        PROVE  \E h \in Between(lo, hi) : owned(plane[h]) /\ g \in RunFrom(h)
    <3>1. PICK h \in Between(lo, hi) : whose[h] = whose[g] /\ whose[g] # Nobody
      BY <1>1, <2>2
    <3>2. whose[g].by = "split" /\ h \in Granules /\ h \in Nat /\ g \in Nat /\ lo <= h /\ h < hi
      BY <1>3, <1>5, <2>2, <3>1, Arena DEF Between
    <3>3. lo <= g
      <4>1. SUFFICES ASSUME g < lo PROVE FALSE
        BY <1>3, <3>2
      <4>2. whose[lo] = whose[g]
        <5>1. CASE lo = h
          BY <3>1, <5>1
        <5>2. CASE lo < h
          <6>1. lo \in Between(g, h) /\ g < h
            BY <1>3, <3>2, <4>1, <5>2 DEF Between
          <6>2. QED
            BY <3>1, <3>2, <6>1 DEF Kept, Objects
        <5>3. QED
          BY <1>3, <3>2, <5>1, <5>2
      <4>3. Begins(lo) /\ whose[lo].by = "split"
        BY <1>2, <3>1, <3>2, <4>2
      <4>4. lo <= g
        BY <1>3, <4>2, <4>3, NothingBefore
      <4>5. QED
        BY <1>3, <3>2, <4>1, <4>4
    <3>4. owned(plane[g]) /\ owned(plane[h])
      BY <3>1, <3>2, Owners DEF Kept
    <3>5. CASE h <= g
      BY <3>1, <3>2, <3>4, <3>5, RunReaches
    <3>6. CASE g < h
      <4>1. g \in Between(lo, hi)
        BY <1>3, <3>2, <3>3, <3>6 DEF Between
      <4>2. g \in RunFrom(g)
        BY <3>2, RunReaches
      <4>3. QED
        BY <3>4, <4>1, <4>2
    <3>7. QED
      BY <3>2, <3>5, <3>6
  <2>3. QED
    BY <2>1, <2>2
<1>7. plane' = [g \in Granules |-> IF whose[g] \in owners THEN ended(plane[g]) ELSE plane[g]]
  BY <1>2, <1>6
<1>8. QED
  BY <1>2, <1>5, <1>7, GivingBack

-----------------------------------------------------------------------------
(* The invariant of the whole                                              *)

LEMMA InitHolds ==
    ASSUME Init
    PROVE  MappingsInv
<1>1. PAGES * GRAINS \in Nat /\ PAGES \in Nat
  BY Arena
<1>2. Idle \in Call /\ Nobody \in Instance /\ DEAD \in Nat
  BY DEF Idle, Call, Instance, DEAD
<1>3. Empty \in [lo : Granules \cup {0}, hi : 0..PAGES * GRAINS, version : Nat]
  BY <1>1 DEF Empty, DEAD
<1>4. Shaped
  <2>1. given \in [Slots -> [lo : Granules \cup {0}, hi : 0..PAGES * GRAINS, version : Nat]]
    BY <1>3 DEF Init
  <2>2. /\ plane \in [Granules -> Nat] /\ cursor \in 0..PAGES
        /\ kernel \in [Pages -> {"reserved", "program", "none"}]
        /\ doing \in [Threads -> Call] /\ whose \in [Granules -> Instance]
        /\ arena \in [Granules -> Nat] /\ refused = FALSE /\ lost \in SUBSET Pages
    BY <1>1, <1>2 DEF Init
  <2>3. QED
    BY <2>1, <2>2 DEF Shaped
<1>5. Numbered
  BY DEF Init, Numbered
<1>6. Told /\ Paged /\ Objects /\ Given
  <2>1. Told
    BY DEF Init, Told, Tells, owned, DEAD
  <2>2. Paged
    BY DEF Init, Paged, Nobody
  <2>3. Objects
    BY DEF Init, Objects, Nobody
  <2>4. Given
    BY DEF Init, Given
  <2>5. QED
    BY <2>1, <2>2, <2>3, <2>4
<1>7. Held
  <2>1. \A t \in Threads : doing[t] = Idle
    BY DEF Init
  <2>2. Has(Idle)
    BY NoRuns DEF Has, Idle, GrainsOf
  <2>3. \A t \in Threads : doing[t].call = "none" /\ Occupied(t) = {}
    BY <2>1 DEF Occupied, Idle
  <2>4. QED
    BY <2>1, <2>2, <2>3 DEF Held, Holding
<1>8. Ranged
  BY DEF Init, Ranged, GrainsOf
<1>9. gaps \in SUBSET Gaps
  BY DEF Init
<1>10. QED
  BY <1>4, <1>5, <1>6, <1>7, <1>8, <1>9 DEF MappingsInv, Kept

LEMMA StaysStill ==
    ASSUME Kept, UNCHANGED vars
    PROVE  Kept'
<1>1. /\ UNCHANGED <<plane, maps, carves, given, cursor, kernel, lost, doing>>
      /\ UNCHANGED <<whose, arena, refused>>
  BY DEF vars, monitor, os, truth
<1>2. Shaped' /\ Told' /\ Paged' /\ Objects' /\ Given'
  BY <1>1 DEF Kept, Shaped, Told, Tells, Paged, Objects, Given, Gives
<1>3. Numbered'
  BY <1>1 DEF Kept, Numbered
<1>4. Held'
  BY <1>1, OthersKeep
<1>5. Ranged'
  BY <1>1 DEF Kept, Ranged, Apart
<1>6. QED
  BY <1>2, <1>3, <1>4, <1>5 DEF Kept

\* A gap that a call has gone through stays recorded.
LEMMA GapsStay ==
    ASSUME gaps \in SUBSET Gaps, [Next]_vars
    PROVE  gaps \subseteq gaps' /\ gaps' \in SUBSET Gaps
<1>1. ASSUME NEW gap \in Gaps, NEW open PROVE Opens(gap, open) \in SUBSET Gaps
  BY DEF Opens
<1>2. {"met", "full", "left", "mixed", "cut", "part"} \subseteq Gaps
  BY DEF Gaps
<1>3. \A ps : Over(ps) \in SUBSET Gaps
  BY <1>1, <1>2 DEF Over
<1>4. CASE UNCHANGED vars
  BY <1>4 DEF vars
<1>5. ASSUME NEW t \in Threads, NEW size \in 1..PAGES, NEW worked \in BOOLEAN,
             \/ MapCall(t, size, worked)
             \/ \E ps \in Spans(size) : FixedCall(t, ps, worked)
      PROVE  gaps \subseteq gaps' /\ gaps' \in SUBSET Gaps
  BY <1>3, <1>5 DEF MapCall, FixedCall
<1>6. ASSUME NEW t \in Threads, MapFinish(t) \/ FixedFinish(t) \/ RemapFinish(t)
      PROVE  gaps \subseteq gaps' /\ gaps' \in SUBSET Gaps
  <2>1. CASE MapFinish(t)
    BY <2>1 DEF MapFinish
  <2>2. CASE FixedFinish(t)
    BY <2>2 DEF FixedFinish
  <2>3. CASE RemapFinish(t)
    <3>1. gaps' = gaps \/ \E denied : gaps' = gaps \cup Opens("left", denied # {})
      BY <2>3 DEF RemapFinish
    <3>2. QED
      BY <1>1, <1>2, <3>1
  <2>4. QED
    BY <1>6, <2>1, <2>2, <2>3
<1>7. ASSUME NEW size \in 1..PAGES, NEW ps \in Spans(size),
             Unmap(ps) \/ \E t \in Threads : RemapCall(t, ps)
      PROVE  gaps \subseteq gaps' /\ gaps' \in SUBSET Gaps
  <2>1. CASE Unmap(ps)
    BY <1>1, <1>2, <2>1 DEF Unmap
  <2>2. ASSUME NEW t \in Threads, RemapCall(t, ps)
        PROVE  gaps \subseteq gaps' /\ gaps' \in SUBSET Gaps
    <3>1. gaps' = gaps \/ \E to : gaps' = gaps \cup Over(to)
      BY <2>2 DEF RemapCall, Shrink, Grow, MoveTo
    <3>2. QED
      BY <1>3, <3>1
  <2>3. QED
    BY <1>7, <2>1, <2>2
<1>8. ASSUME NEW lo \in Granules, NEW hi \in lo + 1..PAGES * GRAINS, Adopt(lo, hi)
      PROVE  gaps \subseteq gaps' /\ gaps' \in SUBSET Gaps
  BY <1>1, <1>2, <1>8 DEF Adopt
<1>9. ASSUME NEW lo \in Adopted, NEW hi \in lo + 1..PAGES * GRAINS,
             Split(lo, hi) \/ Purge(lo, hi)
      PROVE  gaps \subseteq gaps' /\ gaps' \in SUBSET Gaps
  BY <1>1, <1>2, <1>9 DEF Split, Purge
<1>10. ASSUME NEW lo \in Granules, Merge(lo)
       PROVE  gaps \subseteq gaps' /\ gaps' \in SUBSET Gaps
  BY <1>1, <1>2, <1>10 DEF Merge
<1>11. QED
  BY <1>4, <1>5, <1>6, <1>7, <1>8, <1>9, <1>10 DEF Next

LEMMA NextKeeps ==
    ASSUME Kept, [Next]_vars, Sound'
    PROVE  Kept'
<1>1. CASE UNCHANGED vars
  BY <1>1, StaysStill
<1>2. ASSUME NEW t \in Threads, NEW size \in 1..PAGES, NEW worked \in BOOLEAN,
             \/ MapCall(t, size, worked)
             \/ \E ps \in Spans(size) : FixedCall(t, ps, worked)
      PROVE  Kept'
  BY <1>2, MapCallKeeps, FixedCallKeeps
<1>3. ASSUME NEW t \in Threads, MapFinish(t) \/ FixedFinish(t) \/ RemapFinish(t)
      PROVE  Kept'
  BY <1>3, MapFinishKeeps, FixedFinishKeeps, RemapFinishKeeps
<1>4. ASSUME NEW size \in 1..PAGES, NEW ps \in Spans(size),
             Unmap(ps) \/ \E t \in Threads : RemapCall(t, ps)
      PROVE  Kept'
  BY <1>4, UnmapKeeps, RemapCallKeeps
<1>5. ASSUME NEW lo \in Granules, NEW hi \in lo + 1..PAGES * GRAINS, Adopt(lo, hi)
      PROVE  Kept'
  BY <1>5, AdoptKeeps
<1>6. ASSUME NEW lo \in Adopted, NEW hi \in lo + 1..PAGES * GRAINS,
             Split(lo, hi) \/ Purge(lo, hi)
      PROVE  Kept'
  BY <1>6, SplitKeeps, PurgeKeeps
<1>7. ASSUME NEW lo \in Granules, Merge(lo)
      PROVE  Kept'
  BY <1>7, MergeKeeps
<1>8. QED
  BY <1>1, <1>2, <1>3, <1>4, <1>5, <1>6, <1>7 DEF Next

\* From the start, where both counters say one, and whatever the kernel denies:
\* until a call goes through one of the gaps, what the rows of mapping.rs and
\* adopt.rs take the plane, GIVEN and HELD to say holds in every state, calls
\* under way included.
THEOREM MappingsInvariance == Spec => []MappingsInv
<1>1. Init => MappingsInv
  BY InitHolds
<1>2. MappingsInv /\ [Next]_vars => MappingsInv'
  <2> SUFFICES ASSUME MappingsInv, [Next]_vars PROVE MappingsInv'
    OBVIOUS
  <2>1. gaps \subseteq gaps' /\ gaps' \in SUBSET Gaps
    BY GapsStay DEF MappingsInv
  <2>2. ASSUME Sound' PROVE Kept'
    <3>1. Kept
      BY <2>1, <2>2 DEF MappingsInv, Sound
    <3>2. QED
      BY <2>2, <3>1, NextKeeps
  <2>3. QED
    BY <2>1, <2>2 DEF MappingsInv
<1>3. QED
  BY <1>1, <1>2, PTL DEF Spec

-----------------------------------------------------------------------------
(* The properties                                                          *)

LEMMA Shape ==
    ASSUME Kept, gaps \in SUBSET Gaps
    PROVE  TypeOK
<1>1. maps \in Nat /\ carves \in Nat
  BY DEF Kept, Numbered
<1>2. ASSUME NEW s \in Slots
      PROVE  /\ given[s] \in [lo : Granules, hi : 0..PAGES * GRAINS, version : Nat]
             /\ given[s] = Empty \/ (given[s].lo < given[s].hi /\ owned(given[s].version))
  <2>1. CASE given[s] = Empty
    <3>1. 0 \in Granules
      BY Arena, TimesGrows DEF Granules
    <3>2. QED
      BY <2>1, <3>1, Arena DEF Empty, DEAD
  <2>2. CASE given[s] # Empty
    <3>1. /\ given[s] \in [lo : Granules, hi : 1..PAGES * GRAINS, version : Nat]
          /\ given[s].lo < given[s].hi /\ owned(given[s].version)
      BY <2>2 DEF Kept, Given
    <3>2. \A n \in 1..PAGES * GRAINS : n \in 0..PAGES * GRAINS
      BY Arena
    <3>3. QED
      BY <3>1, <3>2
  <2>3. QED
    BY <2>1, <2>2
<1>3. Cardinality({t \in Threads : doing[t].call \in Holding}) <= 1
  <2> DEFINE holders == {t \in Threads : doing[t].call \in Holding}
  <2>1. \A t, u \in holders : t = u
    BY DEF Kept, Held
  <2> HIDE DEF holders
  <2>2. CASE holders = {}
    BY <2>2, FS_EmptySet DEF holders
  <2>3. CASE holders # {}
    <3>1. PICK t : holders = {t}
      BY <2>1, <2>3
    <3>2. Cardinality(holders) = 1
      BY <3>1, FS_Singleton
    <3>3. QED
      BY <3>2 DEF holders
  <2>4. QED
    BY <2>2, <2>3
<1>4. QED
  BY <1>1, <1>2, <1>3 DEF Kept, Shaped, TypeOK

\* The plane names the owner of every granule of the arena: mmap, mremap and
\* MAP_FIXED begin a mapping under one version from its first granule to its
\* last, split an object under another, and what munmap, adopt, merge and
\* purge end is owned by nobody.  Nothing alive is refused as stale and nothing
\* that ended is let through before a call goes through a gap, in an arena of
\* any size, with any number of threads and adopted mappings, although a
\* mapping and an object may have the same number.
THEOREM PlaneIsRight == Spec => []PlaneTells
<1>1. MappingsInv => PlaneTells
  BY Shape DEF MappingsInv, Kept, Told, Tells, PlaneTells
<1>2. QED
  BY <1>1, MappingsInvariance, PTL

\* place, with HELD, finds pages that neither the program nor an allocator has
\* for mmap and for a growing mremap, and they are still nobody's when the
\* instance begins there, although MAP_FIXED and the allocators' calls run in
\* between.
THEOREM PlacesStayFree == Spec => []PlacedFree
<1>1. MappingsInv => PlacedFree
  BY DEF MappingsInv, Kept, Held, Has, Vacant, PlacedFree
<1>2. QED
  BY <1>1, MappingsInvariance, PTL

\* One arena: every row that takes pages from the program, or that failed half
\* way, reserves them again before it is over, and none reserves what somebody
\* has; the pages lost to a refused reservation and to a failed move onto an
\* address of the program's are all there is missing.
THEOREM RangeStaysOurs == Spec => []RangeKept
<1>1. MappingsInv => RangeKept
  BY DEF MappingsInv, Kept, RangeKept
<1>2. QED
  BY <1>1, MappingsInvariance, PTL

\* What adopt surrendered stays known for as long as the allocator has it:
\* release forgets a place of GIVEN only when all of it goes, so that the
\* pointer mmap gave reaches everything that was carved there.
THEOREM ArenasStayReached == Spec => []ArenaReached
<1>1. ASSUME MappingsInv PROVE ArenaReached
  <2> SUFFICES ASSUME Sound, NEW g \in Granules, arena[g] # DEAD PROVE Surrendered(arena[g])
    BY DEF ArenaReached
  <2>1. Kept
    BY <1>1 DEF MappingsInv
  <2>2. PICK s \in Slots : Gives(s, g)
    BY <2>1 DEF Kept, Given
  <2>3. given[s].hi # 0 /\ arena[g] = given[s].version
    BY <2>1, <2>2, SlotOf DEF Gives
  <2>4. QED
    BY <2>3 DEF Surrendered
<1>2. QED
  BY <1>1, MappingsInvariance, PTL

\* split and merge never meet a granule that is not as the allocator left it,
\* before a call goes through a gap: adopt ended the mapping's version on all
\* of it, and no other row writes the plane where an allocator is.
THEOREM NothingIsRefused == Spec => []NoneRefused
<1>1. MappingsInv => NoneRefused
  BY DEF MappingsInv, Kept, Shaped, NoneRefused
<1>2. QED
  BY <1>1, MappingsInvariance, PTL

=============================================================================
