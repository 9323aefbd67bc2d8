---------------------------------- MODULE Heap ----------------------------------
(***************************************************************************)
(* The allocator of runtime/rucc-safe-rt: the arenas of heap.rs behind the *)
(* heap lock of alloc.rs, the lifetime plane of plane.rs that says who     *)
(* owns a granule, and the three judgements that read it: live at an       *)
(* access, freeing in front of a free, and J6 inside one.                  *)
(*                                                                         *)
(* The lock covers the arenas and nothing covers the planes.  A section    *)
(* under the lock that only touches the arenas is one step; the fills of   *)
(* the planes go granule by granule, and what alloc.rs does before it      *)
(* takes the lock and after it gives it back are steps of their own.       *)
(*                                                                         *)
(* An address is an arena and a granule in it.  Sizes are in granules,     *)
(* rounded up to a class already (SizeClasses.tla).  A payload's aux and   *)
(* header lie in front of it as layout.rs puts them.  Under the abort      *)
(* posture, which is the default, the first refusal ends the process.      *)
(***************************************************************************)
EXTENDS Naturals, Sequences, FiniteSets

CONSTANTS
    Threads,
    Sizes,      \* the payload sizes asked for, class sizes in granules
    LARGEST,    \* a size none of them is above
    REGION,     \* the granules of an ordinary region
    REGIONS,    \* how many regions the monitor can watch
    BEGINS,     \* bound: how many instances there ever are
    NoThread,
    NoCap

ASSUME HeapAssumption ==
    /\ LARGEST \in Nat /\ Sizes \subseteq 1..LARGEST
    /\ REGION \in Nat /\ REGIONS \in Nat \ {0} /\ BEGINS \in Nat
    /\ IsFiniteSet(Threads) /\ NoThread \notin Threads

VARIABLES
    lock,      \* the heap lock's holder
    arenas,    \* HEAP.arenas, the slots that are filled
    watched,   \* FILLED: how many regions are published
    headers,   \* the header in front of each payload
    plane,     \* the lifetime plane, a version per granule
    epochs,    \* the epoch plane: the instance each stamp was left about
    pc, want, at, given, done, got,  \* each thread's place, and its registers
    caps,      \* the capabilities the program has been handed
    freed,     \* those it has given to free or realloc
    twice,     \* those it has given away when they were given away already
    born,      \* every instance that ever began
    stopped    \* the capability whose refusal ended the process

registers == <<want, at, given, done, got>>
ghosts == <<caps, freed, twice, born>>
vars == <<lock, arenas, watched, headers, plane, epochs, pc, registers, ghosts, stopped>>

-----------------------------------------------------------------------------
(* layout.rs, in granules                                                  *)

HEADER == 2
Aux(size) == 2 * size
Block(size) == Aux(size) + HEADER + size

\* How many granules a region has when it is reserved for one block of size.
RegionFor(size) == IF Block(size) > REGION THEN Block(size) ELSE REGION

Lengths == {RegionFor(size) : size \in Sizes}
Granules == (1..REGIONS) \X (0..RegionFor(LARGEST) - 1)

\* The granules of a payload.
Payload(a, size) == {<<a[1], a[2] + g>> : g \in 0..size - 1}

-----------------------------------------------------------------------------
(* plane.rs                                                                *)

DEAD == 0
begun(n) == 2 * n
ended(version) == IF version % 2 = 0 THEN version + 1 ELSE version
owned(slot) == slot # DEAD /\ slot % 2 = 0

\* What a program holds of an instance: where it is, how long, which one.
Cap == [at : Granules, ext : Sizes, ver : Nat]

ASSUME NoCapAssumption == NoCap \notin Cap

NoHeader == [ext |-> 0, ver |-> DEAD, live |-> FALSE]

Init ==
    /\ lock = NoThread
    /\ arenas = <<>>
    /\ watched = 0
    /\ headers = [a \in Granules |-> NoHeader]
    /\ plane = [a \in Granules |-> DEAD]
    /\ epochs = [a \in Granules |-> DEAD]
    /\ pc = [t \in Threads |-> "run"]
    /\ want = [t \in Threads |-> 0]
    /\ at = [t \in Threads |-> <<>>]
    /\ given = [t \in Threads |-> NoCap]
    /\ done = [t \in Threads |-> 0]
    /\ got = [t \in Threads |-> NoCap]
    /\ caps = {} /\ freed = {} /\ twice = {} /\ born = {}
    /\ stopped = NoCap

Running == stopped = NoCap

\* fail::refused, and fail::report under the abort posture.
Stop(c) ==
    /\ stopped' = c
    /\ UNCHANGED <<lock, arenas, watched, headers, plane, epochs, pc, registers, ghosts>>

Goto(t, label) == pc' = [pc EXCEPT ![t] = label]

\* The call returns cap, or nothing, and its registers are dead.
Return(t, cap) ==
    /\ Goto(t, "run")
    /\ caps' = caps \cup ({cap} \ {NoCap})
    /\ want' = [want EXCEPT ![t] = 0]
    /\ at' = [at EXCEPT ![t] = <<>>]
    /\ given' = [given EXCEPT ![t] = NoCap]
    /\ done' = [done EXCEPT ![t] = 0]
    /\ got' = [got EXCEPT ![t] = NoCap]

-----------------------------------------------------------------------------
(* malloc                                                                  *)

Malloc(t, size) ==
    /\ Running /\ pc[t] = "run" /\ Cardinality(born) < BEGINS
    /\ want' = [want EXCEPT ![t] = size]
    /\ Goto(t, "begin")
    /\ UNCHANGED <<lock, arenas, watched, headers, plane, epochs,
                   at, given, done, got, ghosts, stopped>>

Reusable(arena, size) == arena.free[size] # <<>>
Carvable(arena, size) == Block(size) <= arena.len - arena.next
Serves(arena, size) == Reusable(arena, size) \/ Carvable(arena, size)

Fresh(size) == [len |-> RegionFor(size), next |-> 0, count |-> 1,
                free |-> [s \in Sizes |-> <<>>]]

\* A slip of Arena::take: the block stays on its list.
ServedTwice(arena, size) ==
    IF Reusable(arena, size)
      THEN [arena EXCEPT !.count = @ + 1]
      ELSE [arena EXCEPT !.count = @ + 1, !.next = @ + Block(size)]

\* The arena after Arena::begin: take or bump, and the next version counted.
Served(arena, size) ==
    IF Reusable(arena, size)
      THEN [arena EXCEPT !.count = @ + 1, !.free[size] = Tail(@)]
      ELSE [arena EXCEPT !.count = @ + 1, !.next = @ + Block(size)]

\* Where the payload is of the block that Arena::begin hands out.
Place(arena, size) ==
    IF Reusable(arena, size) THEN Head(arena.free[size])
                             ELSE arena.next + Aux(size) + HEADER

\* A slip of Counter::next: a version is given out again.
BeginSame(t, a, before) ==
    LET size == want[t]
        here == <<a, Place(before, size)>> IN
    /\ arenas' = IF a > Len(arenas) THEN Append(arenas, [Served(before, size) EXCEPT !.count = @ - 1])
                                    ELSE [arenas EXCEPT ![a] = [Served(@, size) EXCEPT !.count = @ - 1]]
    /\ headers' = [headers EXCEPT ![here] =
                     [ext |-> size, ver |-> begun(before.count), live |-> TRUE]]
    /\ at' = [at EXCEPT ![t] = here]
    /\ lock' = t
    /\ Goto(t, "fill_begin")

\* Arena::begin in arena number a, up to the fill of the plane.
BeginIn(t, a, before) ==
    LET size == want[t]
        here == <<a, Place(before, size)>> IN
    /\ arenas' = IF a > Len(arenas) THEN Append(arenas, Served(before, size))
                                    ELSE [arenas EXCEPT ![a] = Served(@, size)]
    /\ headers' = [headers EXCEPT ![here] =
                     [ext |-> size, ver |-> begun(before.count), live |-> TRUE]]
    /\ at' = [at EXCEPT ![t] = here]
    /\ lock' = t
    /\ Goto(t, "fill_begin")

Serving(size) == {a \in 1..Len(arenas) : Serves(arenas[a], size)}

\* Heap::allocate, from an arena there is: the first one that can.
AllocateHere(t) ==
    /\ Running /\ pc[t] = "begin" /\ lock = NoThread
    /\ \E a \in Serving(want[t]) :
         /\ \A b \in Serving(want[t]) : a <= b
         /\ BeginIn(t, a, arenas[a])
    /\ UNCHANGED <<watched, plane, epochs, want, given, done, got, ghosts, stopped>>

\* A slip of publish: the count is not held against the table.
AllocateUnwatched(t) ==
    /\ Running /\ pc[t] = "begin" /\ lock = NoThread
    /\ Serving(want[t]) = {}
    /\ Len(arenas) < REGIONS
    /\ watched' = watched + 1
    /\ BeginIn(t, Len(arenas) + 1, Fresh(want[t]))
    /\ UNCHANGED <<plane, epochs, want, given, done, got, ghosts, stopped>>

\* Heap::allocate, when every arena is full: reserve and publish one more.
AllocateFresh(t) ==
    /\ Running /\ pc[t] = "begin" /\ lock = NoThread
    /\ Serving(want[t]) = {}
    /\ Len(arenas) < REGIONS /\ watched < REGIONS
    /\ watched' = watched + 1
    /\ BeginIn(t, Len(arenas) + 1, Fresh(want[t]))
    /\ UNCHANGED <<plane, epochs, want, given, done, got, ghosts, stopped>>

\* Heap::allocate answers null: no slot in either table, or no address space.
\* A realloc that gets null leaves the old instance as it was.
AllocateNull(t) ==
    /\ Running /\ pc[t] = "begin" /\ lock = NoThread
    /\ Serving(want[t]) = {}
    /\ freed' = freed \ ({given[t]} \ twice)
    /\ Return(t, NoCap)
    /\ UNCHANGED <<lock, arenas, watched, headers, plane, epochs, twice, born, stopped>>

\* Lifetime::begin: one granule of the fill, and the unlock after the last.
FillBegin(t) ==
    LET head == headers[at[t]]
        here == <<at[t][1], at[t][2] + done[t]>>
        last == done[t] + 1 = head.ext IN
    /\ Running /\ pc[t] = "fill_begin"
    /\ plane' = [plane EXCEPT ![here] = head.ver]
    /\ done' = [done EXCEPT ![t] = IF last THEN 0 ELSE @ + 1]
    /\ IF last
         THEN /\ lock' = NoThread
              /\ born' = born \cup {[at |-> at[t], ext |-> head.ext, ver |-> head.ver]}
              /\ Goto(t, "begun")
         ELSE UNCHANGED <<lock, born, pc>>
    /\ UNCHANGED <<arenas, watched, headers, epochs, want, at, given, got,
                   caps, freed, twice, stopped>>

\* alloc::begun clears what the previous occupant left, and the call returns;
\* a realloc goes on to end the instance it copied from.
Begun(t) ==
    LET head == headers[at[t]]
        cap == [at |-> at[t], ext |-> head.ext, ver |-> head.ver] IN
    /\ Running /\ pc[t] = "begun"
    /\ epochs' = [g \in Granules |->
                    IF g \in Payload(at[t], head.ext) THEN DEAD ELSE epochs[g]]
    /\ IF given[t] = NoCap
         THEN Return(t, cap)
         ELSE /\ Goto(t, "end")
              /\ at' = [at EXCEPT ![t] = given[t].at]
              /\ got' = [got EXCEPT ![t] = cap]
              /\ UNCHANGED <<want, given, done, caps>>
    /\ UNCHANGED <<lock, arenas, watched, headers, plane, freed, twice, born, stopped>>

-----------------------------------------------------------------------------
(* free and realloc                                                        *)

\* check::stale, for a capability that came from the allocator.
stale(c, holder) == c.ver # holder

\* check::freeing: the one case the header cannot see.
Misnamed(c) == owned(plane[c.at]) /\ stale(c, plane[c.at])

\* The program gives c away.
GiveAway(c) ==
    /\ freed' = freed \cup {c}
    /\ twice' = twice \cup (freed \cap {c})

\* A slip: free without the check in front of it.
FreeUnchecked(t, c) ==
    /\ Running /\ pc[t] = "run"
    /\ given' = [given EXCEPT ![t] = c]
    /\ at' = [at EXCEPT ![t] = c.at]
    /\ GiveAway(c)
    /\ Goto(t, "end")
    /\ UNCHANGED <<lock, arenas, watched, headers, plane, epochs,
                   want, done, got, caps, born, stopped>>

\* free(c), with the check the compiler puts in front of it.
Free(t, c) ==
    /\ Running /\ pc[t] = "run"
    /\ \/ Misnamed(c) /\ Stop(c)
       \/ /\ ~ Misnamed(c)
          /\ given' = [given EXCEPT ![t] = c]
          /\ at' = [at EXCEPT ![t] = c.at]
          /\ GiveAway(c)
          /\ Goto(t, "end")
          /\ UNCHANGED <<lock, arenas, watched, headers, plane, epochs,
                         want, done, got, caps, born, stopped>>

\* realloc(c, size), with the same check.
Realloc(t, c, size) ==
    /\ Running /\ pc[t] = "run"
    /\ Cardinality(born) < BEGINS
    /\ \/ Misnamed(c) /\ Stop(c)
       \/ /\ ~ Misnamed(c)
          /\ given' = [given EXCEPT ![t] = c]
          /\ want' = [want EXCEPT ![t] = size]
          /\ GiveAway(c)
          /\ Goto(t, "extent")
          /\ UNCHANGED <<lock, arenas, watched, headers, plane, epochs,
                         at, done, got, caps, born, stopped>>

\* Arena::header: judgement J6 on what lies in front of the payload.
Endable(a) == headers[a].live

\* realloc asks how long the old instance is, under the lock.
Extent(t) ==
    /\ Running /\ pc[t] = "extent" /\ lock = NoThread
    /\ \/ ~ Endable(given[t].at) /\ Stop(given[t])
       \/ /\ Endable(given[t].at)
          /\ Goto(t, "begin")
          /\ UNCHANGED <<lock, arenas, watched, headers, plane, epochs,
                         registers, ghosts, stopped>>

\* A slip of J6: the state of the instance is not asked about.
EndAnyState(t) ==
    /\ Running /\ pc[t] = "end" /\ lock = NoThread
    /\ lock' = t
    /\ Goto(t, "fill_end")
    /\ UNCHANGED <<arenas, watched, headers, plane, epochs, registers, ghosts, stopped>>

\* alloc::dealloc takes the lock and Arena::end asks J6.
End(t) ==
    /\ Running /\ pc[t] = "end" /\ lock = NoThread
    /\ \/ ~ Endable(at[t]) /\ Stop(given[t])
       \/ /\ Endable(at[t])
          /\ lock' = t
          /\ Goto(t, "fill_end")
          /\ UNCHANGED <<arenas, watched, headers, plane, epochs,
                         registers, ghosts, stopped>>

\* A slip of Lifetime::fill: rounding the granules down.
FillEndShort(t) ==
    LET head == headers[at[t]]
        here == <<at[t][1], at[t][2] + done[t]>>
        last == done[t] + 2 >= head.ext IN
    /\ Running /\ pc[t] = "fill_end"
    /\ plane' = [plane EXCEPT ![here] = ended(head.ver)]
    /\ done' = [done EXCEPT ![t] = IF last THEN 0 ELSE @ + 1]
    /\ IF last THEN Goto(t, "ended") ELSE UNCHANGED pc
    /\ UNCHANGED <<lock, arenas, watched, headers, epochs, want, at, given, got,
                   ghosts, stopped>>

\* Lifetime::end: one granule of the fill.
FillEnd(t) ==
    LET head == headers[at[t]]
        here == <<at[t][1], at[t][2] + done[t]>>
        last == done[t] + 1 = head.ext IN
    /\ Running /\ pc[t] = "fill_end"
    /\ plane' = [plane EXCEPT ![here] = ended(head.ver)]
    /\ done' = [done EXCEPT ![t] = IF last THEN 0 ELSE @ + 1]
    /\ IF last THEN Goto(t, "ended") ELSE UNCHANGED pc
    /\ UNCHANGED <<lock, arenas, watched, headers, epochs, want, at, given, got,
                   ghosts, stopped>>

\* The rest of Arena::end: the header, the free list, and the unlock.
Ended(t) ==
    LET head == headers[at[t]] IN
    /\ Running /\ pc[t] = "ended"
    /\ headers' = [headers EXCEPT ![at[t]] =
                     [ext |-> head.ext, ver |-> ended(head.ver), live |-> FALSE]]
    /\ arenas' = [arenas EXCEPT ![at[t][1]].free[head.ext] = <<at[t][2]>> \o @]
    /\ lock' = NoThread
    /\ done' = [done EXCEPT ![t] = head.ver]
    /\ want' = [want EXCEPT ![t] = head.ext]
    /\ Goto(t, "over")
    /\ UNCHANGED <<watched, plane, epochs, at, given, got, ghosts, stopped>>

\* alloc::over: the freeing thread's stamp, after the lock is given back.
Over(t) ==
    /\ Running /\ pc[t] = "over"
    /\ epochs' = [g \in Granules |->
                    IF g \in Payload(at[t], want[t]) THEN done[t] ELSE epochs[g]]
    /\ Return(t, got[t])
    /\ UNCHANGED <<lock, arenas, watched, headers, plane, freed, twice, born, stopped>>

-----------------------------------------------------------------------------
(* Arena::each, the leak sweep's walk of arena number a                    *)

\* A slip: the last instance below the bump is taken to run past it.
BeginsBelow(a, pos) ==
    LET head == headers[<<a, pos>>] IN
    /\ owned(plane[<<a, pos>>]) /\ head.ver = plane[<<a, pos>>] /\ head.live
    /\ pos + head.ext < arenas[a].next

\* Whether the walk takes pos for the first granule of an instance.
Begins(a, pos) ==
    LET head == headers[<<a, pos>>] IN
    /\ owned(plane[<<a, pos>>]) /\ head.ver = plane[<<a, pos>>] /\ head.live
    /\ pos + head.ext <= arenas[a].next

\* What the walk finds from pos on.
Sweep(a) ==
    LET each[pos \in 0..arenas[a].next] ==
            IF pos >= arenas[a].next THEN {}
            ELSE IF Begins(a, pos)
              THEN {pos} \cup each[pos + headers[<<a, pos>>].ext]
              ELSE each[pos + 1]
    IN  IF HEADER > arenas[a].next THEN {} ELSE each[HEADER]

-----------------------------------------------------------------------------
(* The program's accesses, and other allocators                            *)

\* check::live: the granule is owned, and by the instance the capability names.
Permitted(c, g) == owned(plane[g]) /\ ~ stale(c, plane[g])

Load(t, c, g) ==
    /\ Running /\ pc[t] = "run"
    /\ \/ Permitted(c, g) /\ UNCHANGED vars
       \/ ~ Permitted(c, g) /\ Stop(c)

\* A store that is permitted leaves its thread's stamp.
Store(t, c, g) ==
    /\ Running /\ pc[t] = "run"
    /\ \/ ~ Permitted(c, g) /\ Stop(c)
       \/ /\ Permitted(c, g)
          /\ epochs' = [epochs EXCEPT ![g] = c.ver]
          /\ UNCHANGED <<lock, arenas, watched, headers, plane, pc, registers, ghosts, stopped>>

\* adopt::adopt publishes a region of another allocator's.
Adopt ==
    /\ Running /\ watched < REGIONS
    /\ watched' = watched + 1
    /\ UNCHANGED <<lock, arenas, headers, plane, epochs, pc, registers, ghosts, stopped>>

ThreadStep(t) ==
    \/ \E size \in Sizes : Malloc(t, size)
    \/ AllocateHere(t) \/ AllocateFresh(t) \/ AllocateNull(t)
    \/ FillBegin(t) \/ Begun(t)
    \/ \E c \in caps : Free(t, c) \/ \E size \in Sizes : Realloc(t, c, size)
    \/ Extent(t) \/ End(t) \/ FillEnd(t) \/ Ended(t) \/ Over(t)
    \/ \E c \in caps : \E g \in Payload(c.at, c.ext) : Load(t, c, g) \/ Store(t, c, g)

Next ==
    \/ \E t \in Threads : ThreadStep(t)
    \/ Adopt
    \/ ~ Running /\ UNCHANGED vars

Spec == Init /\ [][Next]_vars

-----------------------------------------------------------------------------
(* Properties                                                              *)

Labels == {"run", "begin", "fill_begin", "begun", "extent", "end", "fill_end", "ended", "over"}

\* The state has its shape.  In it: the table of watched regions is never
\* counted past its end (alloc.rs publish), every arena has a region that is
\* watched, and a thread fills the plane only while it holds the lock.
TypeOK ==
    /\ lock \in Threads \cup {NoThread}
    /\ watched \in 0..REGIONS /\ Len(arenas) <= watched
    /\ \A a \in DOMAIN arenas :
         /\ arenas[a].len \in Lengths
         /\ arenas[a].next \in 0..arenas[a].len
         /\ arenas[a].count \in Nat \ {0}
         /\ \A s \in Sizes : \A i \in DOMAIN arenas[a].free[s] :
              arenas[a].free[s][i] \in 0..arenas[a].next - 1
    /\ pc \in [Threads -> Labels]
    /\ \A t \in Threads :
         pc[t] \in {"fill_begin", "fill_end", "ended"} => lock = t
    /\ \A g \in Granules : plane[g] \in Nat /\ epochs[g] \in Nat
    /\ freed \subseteq caps /\ twice \subseteq freed
    /\ stopped \in caps \cup {NoCap}

\* An instance is known by its arena and its version.
Name(c) == <<c.at[1], c.ver>>
Versions == {begun(n) : n \in 1..BEGINS + Cardinality(Threads)}

\* The instances whose whole payload the plane says is theirs.
Living == {c \in born : \A g \in Payload(c.at, c.ext) : plane[g] = c.ver}

Abstract == INSTANCE Instances WITH
    Ids <- (1..REGIONS) \X Versions,
    born <- {Name(c) : c \in born},
    live <- {Name(c) : c \in Living}

\* J4 and J5 over the heap as it is written (plane.rs begin, end; alloc.rs):
\* the plane's granule by granule fills begin an instance once and end it
\* once, and an instance that is over is never live again, whatever is freed
\* twice and whoever is handed the same block.
Lifetimes == Abstract!Spec

\* The refusals of alloc.rs dealloc and check.rs live and freeing blame a
\* pointer that was given away already, or come after some pointer was freed
\* twice: a program that frees each pointer once and then forgets it is never
\* stopped, on any schedule.
NoFalseRefusal == stopped # NoCap => stopped \in freed \/ twice # {}

\* The block whose payload is at p, aux and header and all.
BlockAt(p) == {<<p[1], p[2] - k>> : k \in 1..HEADER + Aux(headers[p].ext)}
                \cup Payload(p, headers[p].ext)

Placed == {p \in Granules : headers[p] # NoHeader}

Listed(p) == \E i \in DOMAIN arenas[p[1]].free[headers[p].ext] :
                 arenas[p[1]].free[headers[p].ext][i] = p[2]

\* heap.rs take, put and bump: no two blocks share a granule, aux and header
\* included, and with the lock free every block there is either carries a
\* live instance or is on the free list of its own class, once and on no
\* other.
BlocksAccounted ==
    /\ \A p, q \in Placed : p # q => BlockAt(p) \cap BlockAt(q) = {}
    /\ lock = NoThread =>
         /\ \A p \in Placed : Listed(p) # headers[p].live
         /\ \A a \in DOMAIN arenas : \A s \in Sizes :
              LET list == arenas[a].free[s] IN
              \A i, j \in DOMAIN list :
                /\ headers[<<a, list[i]>>].ext = s
                /\ list[i] = list[j] => i = j

LiveAt == {p \in Placed : headers[p].live}

\* The granules of g's arena that carry the version g does.
Run(g) == {h \in Granules : h[1] = g[1] /\ plane[h] = plane[g]}

\* What recover.rs and check.rs extent stand on when they measure an instance
\* by probing the plane: with the lock free, the granules of an arena that
\* carry one owned version are the payload of one live instance, whole and
\* with no granule of anybody else's.
RunsAreInstances ==
    lock = NoThread =>
        /\ {Run(g) : g \in {h \in Granules : owned(plane[h])}}
             = {Payload(p, headers[p].ext) : p \in LiveAt}
        /\ \A p \in LiveAt : headers[p].ver = plane[p]

\* heap.rs each, which the leak sweep counts by: under the lock the walk,
\* which has no list to go by and steps from plane to header and back, finds
\* every instance of the arena that is live and nothing else.
SweepFindsLive ==
    lock = NoThread =>
        \A a \in DOMAIN arenas : {<<a, pos>> : pos \in Sweep(a)} = {p \in LiveAt : p[1] = a}

\* check.rs freeing and heap.rs header divide the wrong frees between them:
\* when nobody is inside the heap, a free that the check lets through is of
\* the instance that lives at the address, or of an address where none does
\* and the header refuses it.
ChecksDivide ==
    [][\A t \in Threads :
          pc[t] = "run" /\ pc'[t] \in {"end", "extent"} /\ lock = NoThread =>
              LET head == headers[given'[t].at] IN
              head.live => head.ver = given'[t].ver]_vars

\* alloc.rs over: what it writes is gone before anybody may write the range
\* again (its comment: begun clears the range before anybody may write it),
\* so a live instance that has been handed out carries no stamp that is about
\* another one.
StampsAreItsOwn ==
    \A c \in caps \cap Living : \A g \in Payload(c.at, c.ext) :
        epochs[g] \in {DEAD, c.ver}

=============================================================================
