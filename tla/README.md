# A verification of rucc where its actors meet

rucc is an optimizing C compiler in Rust. Most of it is sequential: crates that
turn one form of a program into the next. Three parts of it are not, and they
are most of what this directory is about:

- **the safe runtime** (`runtime/rucc-safe-rt`). `rucc -fsafety` links the
  programs it builds against it; it runs inside the threads of those programs,
  watches their memory and reports what the C abstract machine does not allow.
  It promises to stop no innocent program, on any schedule.
- **fetch and install** (`crates/rucc-driver`, `rucc --fetch`). Several builds
  put a target's sysroot into one cache at once, with no lock, and any of them
  may be killed.
- **the job scheduler** (`crates/rucc-driver/src/schedule.rs`), which the driver
  does not call yet.

From the sequential rest it takes the one algorithm whose own comment calls it
"wrong in a startling number of compilers": putting the parallel moves of a
control flow edge into an order (`crates/rucc-regalloc/src/moves.rs`,
`rewrite.rs`).

The directory holds TLA+ modules translated from the source, TLC configurations
that check them on small instances, and theorems that TLAPS proves for every
instance. `PROJECT.json` lists the parts, the runs, a mutant of the code for
every property, the map from definitions to source lines, the findings and the
hazards.

## 1. Inventory

### 1.1 The safe runtime

| part | state | operations | meets |
|---|---|---|---|
| race detector: `epoch.rs`, `sync.rs`, `raced` and `stamped` of `check.rs` | a Lamport clock per thread, the counter of thread numbers, a stamp per word (the epoch plane), the tables of published clocks, the clock of the last release fence, 64 birth slots | load, store, lock, unlock, wait, fence, post, create, join | the threads of the program run it inside their own calls; the tables are shared and unlocked, made of relaxed atomics |
| allocator: `alloc.rs`, `heap.rs`, `plane.rs`, `layout.rs` | arenas (bump, free lists, version counter) behind one lock; headers in the regions; the lifetime plane with a version per granule; the table of watched regions | malloc, calloc, realloc, free, the leak sweep | the checks read the plane without the lock, while it is filled; `adopt` shares the region table |
| judgements at an access: `check.rs` | none of its own | bounds, live, type, init, provenance, free, race | reads every plane |
| adoption: `adopt.rs` | other allocators' regions, a version counter, 256 tags by version | adopt, split, merge, purge, tag | the region table, the planes, the mapping arena |
| mapping arena: `mapping.rs` | one region with a cursor, a version counter, 64 adopted mappings (`GIVEN`), a spin lock (`HELD`); the kernel's mappings in it | mmap, munmap, mremap, MAP_FIXED, surrender | the lifetime plane, shared with adoption and walked by pages where adoption writes granules |
| capabilities: `cap.rs`, `aux_slot.rs`, `wide.rs`, `recover.rs`, `member.rs`, `restrict.rs`, `witness.rs` | bounds beside pointers | derive, spill, recover | an access of one thread |
| other planes: `types.rs`, `init.rs`, `frame.rs`, `stack.rs` | a type and an initialization mark per granule, frames | fills and asks | follow the lifetime plane |
| interposition: `wrap.rs`, `syscall.rs`, `call.rs`, `effects.rs`, `aside.rs` | tables | a row per library call | the C library |
| posture and reports: `posture.rs`, `fail.rs`, `report.rs`, `format.rs` | the posture, the sites already reported | refuse, report | ends the process, or not |
| threads: `tls.rs` | a block per thread | get | the C library's keys |

What makes them correct: a report names something that happened (no false
reports, no false refusals); a lock's ordering is handed on whatever else is in
the table; each byte belongs to at most one live instance, and the plane says
which; an instance that is over never lives again; every block can be found
again by the next request for its class.

What is hard: steps of several threads between the atomic accesses of one
operation; code before and after a lock; fixed tables that fill up; counters at
the end of their range.

### 1.2 The compiler's processes

| part | state | operations | meets |
|---|---|---|---|
| fetch: `fetch.rs` | archives in the cache, partial downloads | download, check, rename | other processes, by names of its own |
| install: `install.rs` | the sysroot, a staging directory, the tree moved aside | unpack, check, swap | other processes, by three renames |
| scheduler: `schedule.rs` | the next index, a slot per job | claim, run, merge | worker threads |
| pool: `crates/rucc/src/pool.rs` | free lists and a region per thread | alloc, dealloc | blocks freed on other threads |

What makes them correct: the name of a sysroot holds a checked tree or none; no
failure or kill takes the last one away; results do not depend on who finishes
first; nothing waits for ever.

### 1.3 The compiler proper

The remaining crates (`rucc-pp`, `rucc-lex`, `rucc-parse`, `rucc-sema`,
`rucc-lower`, `rucc-ir`, `rucc-opt`, `rucc-codegen`, the rest of
`rucc-regalloc`, `rucc-asm`, `rucc-object`, the wasm crates, the targets, `xtask` and the build
tools) are sequential functions of large inputs. Their correctness is that a
program keeps its meaning, which needs a semantics of C and of the IR rather
than a transition system, and it is tested in the repository against other
compilers. They are listed in `PROJECT.json` and not modelled.

## 2. Plan

Written, in this order:

1. `EpochClock`, `EdgeTable`, `RaceMonitor`, `RaceInvariant`,
   `RaceMonitorProofs`: the race detector, because a false report is the worst
   thing a checker can do and the code that avoids it is lock free.
2. `Instances`, `Heap`, `HeapInvariant`, `HeapProofs`, `SizeClasses`,
   `HeapClasses`, `SizeClassesProofs`: the allocator, because every other judgement stands on the
   lifetime plane.
3. `Installs`, `InstallsProofs`: fetch and install.
4. `SharedEdges`, over `EdgeTable` and `RaceMonitor`: read-write locks,
   semaphores and the C11 atomics' edges, where no lock serializes the
   publications of a key.
5. `Births`: `pthread_create` and `pthread_join` over the birth slots and the
   table of finished threads; and `EdgesProofs`, about both.
6. `Mappings`, `MappingsInvariant`, `MappingsProofs`: the mapping arena and the
   adopting allocators in it.
7. `OrderedRun`, `Schedule`, `ScheduleProofs`: the scheduler.
8. `Moves`, `EdgeMoves`, `EdgeMovesProofs`: the moves on an edge.

Left, in this order:

9. `TagTable`: tags by version, with the two stores of a tag read in between.
10. Adoption outside the arena: the overlap question and the publication of a
    region under two acquisitions of the lock.
11. `Pool`: the compiler's allocator, with blocks that cross threads.

The abstract specifications worth stating are the life of an instance
(`Instances`, under `Heap`), a map over a list (`OrderedRun`, under `Schedule`),
and, not written, a table that hands each key's last clock on and a cache that
holds a sysroot.

## 3. Modules

### 3.1 The race detector

`EpochClock` is the arithmetic of `epoch.rs`: stamps, `unordered`, `tick`,
`sync`, with both fields' widths as constants so that their ends are reached.

`EdgeTable` is `sync.rs`'s `struct Table` at the grain of its atomic accesses:
`BeginPublish`, `PublishLoad`, `PublishClaim` (the compare exchange),
`PublishStore`, `PublishSteal` (the take-over, its two stores), `BeginLookup`,
`LookupLoad`, `LookupRead`. Walks of several threads interleave between any two.

`RaceMonitor` is the program and the monitor around it. Its actions are the
rows of `sync.rs` (`Lock`, `TryLockBusy`, `Released`, `Unlock`, `CondSleep`,
`CondWake`, `FenceRelease`, `FenceAcquire`) and the two judgements (`Load`,
`Store`, `Stamped`). Three more variables, `ordered`, `carried` and
`fencedOrder`, keep the real happens-before order; no guard reads them, and the
reports are judged against them. `Continues` is the posture.

`RaceInvariant` is the inductive invariant.

`SharedEdges` is the same monitor under a program of read-write locks
(`WrLock`, `RdLock`, `RwReleased`, then `WrUnlock` or `RdUnlock`), semaphores
(`Signals`, `SemPost`, `SemWait`) and C11 atomics (`Signals`, `AtomicStore`,
`AtomicUpdate`, `AtomicLoad`). The rows are those of a mutex, a publication in
front of the real call or a lookup behind it; what differs is who may be inside
them at once. The C library's and the machine's side is external: `readers` and
`value` are its locks and semaphores, and `carried` and `readCarried` what an
acquirer of each is really ordered behind. A read lock orders the next writer
and nobody else; a wait is ordered behind every post when it takes the last of
them. With `Whole = FALSE` the real order is only what write locks and keys
with a single signaller carry, which is the part the table keeps.

`Births` is the same monitor again under threads that are made and joined. Its
cells are `EXITED`'s, and its keys thread identifiers. `Create`, `Claim` (a
compare exchange per slot), `Fill`, `CreateBorn`, `CreateFailed`, `CreateBare`
and `CreateBareFailed` are the row of `pthread_create`; `BornRead`, `BornFree`
and `BornStart` the trampoline `born`; `Exited` and `End` its other end;
`EndUnpublished` a `pthread_exit`; `Join` the row of `pthread_join`, whose walk
is `EdgeTable`'s. An identifier is free for another thread once its join has
come back. With `Gaps = FALSE` three cases that `sync.rs` names as gaps are not
asked about: a thread made without a slot, one that ends by `pthread_exit`, and
an identifier that is used again while a join still looks it up.

| variable | code |
|---|---|
| `cells`, `step`, `held`, `about` | `PUBLISHED`, and the locals of `Table::publish` and `Table::published` |
| `numbers`, `clock` | `epoch::NUMBERS`, the thread local `Clock` |
| `plane` | the epoch plane of a region |
| `fenced` | `FENCED`, what `published_everywhere` and `taken_everywhere` use |
| `holder` | the C library's mutexes |

The atomics of the table are relaxed and the model is sequentially consistent.
For mutexes nothing is lost by it: two publications under one key, and a
publication and the walk that should find it, have the mutex's own unlock and
lock between them, which order the accesses to the key's cell; and a cell once
taken is never given back, so an old value of another key's cell is one the
walk could have met earlier. In `SharedEdges` and `Births` the second half still
holds, and so does the first wherever the real call orders the two threads;
where it does not, two publications under one key are already unordered in the
model. `claim` and `born` use acquire and release.

A wait comes back at any time, as POSIX allows. `Threads::next` is two atomic
accesses and one step here: its second only ever undoes increments beyond the
last number.

### 3.2 The allocator

`Heap` is `alloc.rs` and `heap.rs` by several threads: `Malloc`,
`AllocateHere`, `AllocateFresh`, `AllocateNull`, `FillBegin`, `Begun` for
`malloc`; `Free`, `End`, `FillEnd`, `Ended`, `Over` for `free`; `Realloc` and
`Extent` in front of both for `realloc`; `Load` and `Store` by a capability the
program still has, dangling or not; `Adopt` for the other user of the region
table. What is done under the heap lock to the arenas is one step, because
nothing else reads them; the fills of the plane are a step per granule, because
the checks read it without the lock; and what `alloc.rs` does before it takes
the lock (the compiler's check) or after it gave it back (`begun`, `over`) are
steps of their own.

| variable | code |
|---|---|
| `lock`, `arenas` | `HEAP` (`alloc.rs`), each arena's `next`, `free`, counter |
| `watched` | `FILLED` |
| `headers` | the `Header` in front of a payload |
| `plane`, `epochs` | the lifetime and the epoch plane |
| `caps`, `freed`, `twice`, `born` | what the program has been handed, has given away once and twice, and every instance: ghosts |
| `stopped` | the capability whose refusal ended the process (abort posture) |

A program of the model is any sequence of mallocs, reallocs, frees, loads and
stores through capabilities it was handed, double frees and uses after a free
included. It does not make up pointers, and does not write headers: a payload
that imitates a header is not in the model. The stamp in `epochs` is the
version of the instance it was left about, which is what `StampsAreItsOwn`
compares. A granule of the model is a granule of the code, and a header takes
two.

Left out: the contents of a payload, so calloc and the copy of `realloc`; the
slack between the request and the class; the init and type planes; alignment
above a granule. `realloc(NULL, n)` is `malloc(n)` and `realloc(p, 0)` is
`free(p)` in the code and are not repeated.

`Instances` is judgements J4 and J5 as a specification: an instance begins
once, under an identifier nothing had before, and ends at most once. `Heap`
implements it with the identifier being the arena and the version, `live` being
the instances whose whole payload carries their version.

`HeapInvariant` is the inductive invariant of `Heap`. `BlocksAccounted` and
`RunsAreInstances` speak of the moments when the lock is free; the invariant says
the same of every moment, up to the one block the holder is at work on.

`SizeClasses` is `sized`, `class_of`, `layout::block` and `needed`, over a
machine word of `BITS` bits, and what could be wrong with a request that
`needed` lets through (`OffLadder`, `Misfiled`, `Wasteful`, `Overlong`). `STEPS`
and `GRANULE` are the code's constants, and `bit[k]` is its `1 << k`.

`HeapClasses` puts the two together. `Heap` counts in granules and asks only for
sizes of a class; `SizesAssumption` says that its sizes are class sizes and its
blocks as long as the code's, and `Ladder`, `Refound`, `WasteCapped` and
`BlockFits` that no request goes wrong while the program runs.

### 3.3 The mapping arena

`Mappings` is `mapping.rs`'s arena and what `adopt.rs` does inside it, over an
arena of `PAGES` pages of `GRAINS` granules. What a row does under `HELD` before
and after its call of the kernel are two steps (`MapCall`, `MapFinish`;
`RemapCall`, `RemapFinish`), because the allocators' calls do not take `HELD`
and interleave with them; a `MAP_FIXED` goes to the kernel before it takes
`HELD` (`FixedCall`, `FixedFinish`). `Unmap`, `Adopt`, `Split`, `Merge` and
`Purge` are one step each, since each belongs to storage that only its caller
may touch.

| variable | code |
|---|---|
| `plane` | the lifetime plane over the arena |
| `maps`, `carves` | `VERSIONS` of `mapping.rs`, `VERSIONS` of `adopt.rs` |
| `given`, `cursor` | `GIVEN`, `CURSOR` |
| `kernel` | per page the reservation, a mapping of the program's, or nothing |
| `doing` | `HELD`, and the locals of a row between its two steps |
| `whose`, `arena` | whose every granule really is: ghosts, read by no guard of the monitor's code |
| `refused` | `refused_at` in `split` or `merge` |
| `lost`, `gaps` | the pages of the arena that were lost, and the gaps gone through: ghosts |

`MappingsInvariant` is its inductive invariant: how what a row looks at (the first
granule of a page, a run of one version, a place in `GIVEN`) relates to the
granules it does not look at, and what a call under way has to itself.

`Placed` is next fit (`place`); the distance by which the code jumps over what
is busy is left out, since it never jumps over a place that fits. `FreeRuns` is
the walk by pages (`runs`), which sees of a page only its first granule;
`Released` walks what was adopted by granules first, as `release` does.

Every mapping and move may fail, and a failed one with an address in it may have
taken the range down (`KernelMaps`). `Reserve` is `reserve`: the kernel may deny
it too, and take the range down with that. `munmap` answers that it failed then.
The other rows drop the answer (`mapping.rs:601`, `620`, `702`, `714`) and so do
their steps. A failed `mremap` to an address the program names reserves nothing
again, since the row reserves only a place it found itself (`mapping.rs:701`,
`MoveTo`). `lost` has the pages that came to nothing in either way, until
something is mapped or reserved there.

The program keeps to what it owns: it unmaps and remaps what it mapped, an
allocator carves storage it adopted, and nobody maps over a range that another
thread's call is in the middle of. Both counters start at one, as in the code.

The code leaves six gaps that such a program can go through, and from there on the
monitor no longer has what the program has. `gaps` records which of them a
behaviour has gone through. The steps are in the model, with what the code does
there; the five properties of the run say what holds until the first of them
(`Sound`), and TLC finds each of them broken somewhere behind one.

- `"met"`: an object goes back that ends where a mapping of its number begins.
  Mappings are numbered by one counter and carved objects by another, both
  from one (`mapping.rs:270`, `adopt.rs:62`), and in an adopted mapping both write
  one plane. (`adopt.rs:58-61` says of two regions' numbers that nothing ever
  compares them; these two are in one region.) `merge` and `purge` go on into the
  mapping and end it. This is the finding of `mappings_met`. Behind it `place` maps
  over what is left of the mapping, and a later `split` there is refused.
- `"full"`: one adoption more than `GIVEN` has room for. `surrender` answers no,
  `adopt` meets the overlap and gives up, the range stays one owned instance,
  and the first `split` is refused, which ends the process. `adopt.rs:78` says
  "None of the three refuses anything. The storage is simply not watched".
- `"left"`: the kernel shrinks or moves a mapping and then does not let the pages it
  left be reserved. `release` answers no before it ends anything, the answer is
  dropped (`mapping.rs:714`), and the old instance stays owned over pages the
  program has given up.
- `"mixed"`: a `MAP_FIXED`, or an `mremap` to a place with an address, over
  pages that several ended instances left behind. `claim` begins an instance
  per run of old versions, so that one mapping of the program's is several on
  the plane.
- `"cut"`: an unmapping or a `MAP_FIXED` over part of what was adopted. `release`
  forgets a mapping only when all of it goes, and walks the rest by pages.
- `"part"`: an adoption that stops inside a page. Its page's tail keeps the
  mapping's version and the walk by pages does not see it.

Left out: making the arena; ranges that reach past its ends; hints and the flags
that go straight to the kernel outside the arena; `MREMAP_DONTUNMAP`; an
`mremap` that grows in place, or has no place to go to and fails, which changes
nothing; a kernel that puts something of its own in a hole; the types,
init and epoch planes that `begin` resets; and tags.

### 3.4 Fetch and install

`Installs` is `fetch_sysroot` by several processes. `Start` decides as
`fetch_with` does, `Download` and `Verify` are the archive, `Unpack` and
`StagedFails` are everything in the staging directory, and `swap` is taken
apart into each of its calls: `LookSame` and `LookOther` (the manifest of what
is there, read once), `ClearAside`, `MoveAside`, `Place`, `PutBack`,
`DropAside`, with the failure of each. A tree is the artifact it came from;
`Half` is a tree with files missing or unchecked, and `Unrecorded` a directory
somebody filled by hand.

| variable | code |
|---|---|
| `root` | `<cache>/sysroots/<tuple>` |
| `aside` | `<tuple>.old.<pid>` |
| `archives` | `<cache>/downloads` |
| `staging` | the staging directory of the running install |
| `there` | what `existing` answered |

`Crash` kills a process between any two calls, or in the middle of deleting a
tree; its process id may be used again, and finds what it left aside. `Fault`
makes one call fail on its own account. A rename onto a name that is taken
fails, as POSIX has it for directories with files in them. The file system is
one that renames atomically. One target is modelled, and the kernel header tree
is the same code under another name.

### 3.5 The scheduler

`Schedule` is `run`: `Call` chooses between no items, the serial path
(`SerialWork`, `SerialReturn`) and a scope of workers; a worker is `Claim` (the
`fetch_add`), `Work`, which may panic on any item, and `Store`; `Join` is the
end of the scope, which waits for every worker and panics if one did; `Merge`
takes the slots in order. `runs` counts the calls of `work` on each item. A slot's
lock is held by nobody else and is left out. `OrderedRun` is what the comment
above `run` promises, with one step from the call to its result, and
`MapsInOrder` says that `Schedule` implements it.

| variable | code |
|---|---|
| `items`, `bad`, `jobs` | the arguments, and the items `work` panics on |
| `next`, `slots` | `next`, `slots` |
| `doing`, `mine` | a worker's place in the loop, its `i` |
| `phase`, `out` | where the caller is, what it is given |

### 3.6 The moves on an edge

`Moves` is `sequence` of `moves.rs`. `Take` appends a move that is ready,
`Break` is `break_cycle`. The code takes the first in its list; the model takes
any, which stands for every order the list can come in. `held` runs the order
found so far on a machine whose every place starts with a value of its own.
`wanted` and `asked` are the parallel moves; two that write one place are what
the assertion of `sequence` excludes.

`EdgeMoves` is what `rewrite.rs` does with the order: `Judge` is
`fits_on_edges`, with none, one or two registers held back (`scratch`), `Busy` is
`busy`, and `Edit` is one round of `edge`'s loop, where a move from slot to slot
goes through a register. `machine` runs the edits. The order of the two is the
code's: the same `sequence` in both, the same `busy` asked by both. `stacked` asks
about every slot of the function and here about those of the edge, which lets
more through and so asks more of `edge`. One class and one edge are modelled;
classes share no place, and edges nothing at all.

## 4. Runs

| run | asks | bounds | result |
|---|---|---|---|
| `race_two_locks` | is every report true, is an edge ever lost, does a published clock ever go back | 2 threads, 2 mutexes whose runs collide in 2 cells, 1 word, clocks to 4 | holds |
| `race_full_table` | does a mutex ever get two cells | 3 mutexes over 2 cells, 2 threads over 1 number, clocks to 2 | holds |
| `births` | does a slot leak or reach the wrong thread, do creation and join order what they should | 4 threads, 2 of them creating, 1 slot, 3 identifiers over 2 cells, creates that fail, `pthread_exit` | holds |
| `births_reused` | may an identifier used again make an ordered pair look concurrent (module comment of `sync.rs`) | 4 threads, 3 slots, clocks to 5 | it may |
| `shared` | is what write locks and single signallers hand on ever lost or pulled back, and is every report true of it | 2 threads, a lock, a semaphore to 2 and an atomic, one of them per program, 1 word | holds |
| `shared_readers` | does a reader's unlock give the next writer an edge (comment on `pthread_rwlock_unlock`) | 2 threads, 1 lock | not always |
| `heap` | is an innocent program ever stopped; are the free lists, the plane, the sweep and the lives of instances exact; do the size classes have gaps or overlaps, what do they waste, does a block fit a word | 2 threads, regions of 10 granules (one block of 2 or two of 1), 2 regions, 3 instances, one stamp about a living instance; every request of a 12-bit word | holds |
| `mappings` | does the plane say whose everything is; is anything placed over the program; is the range kept; is an allocator refused | 2 threads, 3 pages of 2 granules, 1 place in `GIVEN`, 2 mappings and 2 carved objects but 3 of both together, until a gap is gone through | holds |
| `mappings_met` | does a merge end the object and nothing else (comment on `merge`) | 1 thread, 2 pages of 1 granule, 1 place in `GIVEN`, 2 mappings, 2 carved objects | not always |
| `installs` | may a half tree get the name, may the last tree be lost, is a failure undone, does every fetch end | 3 processes, 2 artifacts, 4 fetches, 2 kills, 1 fault | holds |
| `schedule` | is a call a map in input order, does a panic wait, does a call end | up to 5 items, up to 3 jobs, any items bad | holds |
| `edge_moves` | does the order do what the parallel moves say, with the fewest moves, and do the edits | every set of moves over 2 registers and 3 slots, 0 to 2 registers held back | holds |

Why the bounds are enough. A false report needs a writer, a reader and a mutex
between them, and a second mutex to get in the table's way; the third in
`race_full_table` makes a take-over meet a walk. A clock range of four lets two
edges and two writes follow each other below the end. In the heap a block has
to be handed out, freed and handed out again while another call is under way:
three instances and two threads; a region that holds two small blocks or one
large one makes both the second list and the second region happen. In
`installs` the third process is the one that takes a name between another's
failed rename and its way back, and a killed process has to come back under its
id, which is the fourth start. In `births` one slot makes "none is free" and the
wait for another's happen, and a third generation of threads meets an
identifier used before. In `shared` two threads are the reader or signaller
that is behind and the one that is ahead; a program uses one of the three
objects, since objects meet only in the table, which `race_two_locks` covers. In
`mappings` three pages are a mapping, a gap and a mapping, two granules are the
least a page can be carved into, and one place in `GIVEN` is full after one
adoption; three instances are two mappings of which one is carved, or one that is
carved twice, and a mapping and an object of one number are there from the second
on. Five items over three workers leave each worker at a different point
when one panics or runs out. Five places hold a cycle of two, one of three, both
at once, chains off either, and a slot-to-slot move while a cycle is broken. 12 bits reach seven magnitudes of the
ladder, all of them alike but the first, and the end of the word.

In `heap` the regions and counts are the named constants `REGION`, `REGIONS` and
`BEGINS` (`LARGEST` is a size no request is above, and bounds nothing else); in `Installs` `STARTS`, `CRASHES` and `FAULTS`; in `Mappings` `MAPS`,
`CARVES` and `INSTANCES`, where a call under way counts as an instance; in `Schedule` `ITEMS` and `JOBS`; in `SharedEdges` `OBJECTS` and `POSTS`.
Symmetry is over threads, mutexes and words where a run has no liveness
property; `LastHome` gives every key the last cell as its home, so that runs
wrap and collide.

Two runs have a `CONSTRAINT`. `OneStamp` in `heap` bounds the stamps that stores
leave in the epoch plane, which no guard reads: at most one at a time is about an
instance that is alive. `Sound` in `mappings` ends a behaviour at its first gap,
where the five properties stop saying anything; the state behind the gap is still
checked.

`CHECK_DEADLOCK FALSE` is said of `Mappings`, where a refusal ends the program and
the mappings and objects are used up, of `Installs`, where the bounded number of fetches
does end, and of `EdgeMoves`, where an edge is done.

**Fairness.** `Installs` assumes weak fairness of each process's steps: a fetch
never waits for anything, and the operating system runs a process that can run.
A kill and a start are not fair. `Schedule` assumes it of the calling thread and
of each worker, which are threads of one process that nothing holds up, and so
that `work` comes to an end. `EdgeMoves` assumes it of the compiler's one thread:
the loop of `sequence` is a loop, and that it ends is what is shown. The other
modules state safety alone: a program may stop at any point.

### What the violated runs show

Three comments of the source do not hold of the code beside them, and a run shows
each:

- `births_reused`: `sync.rs:48-54` says that a reused thread identifier "can only
  put a thread further ahead". A joins B; before A's `joined` has walked the
  table, C is made under B's identifier, stores little, and ends; its clock
  replaces B's, and A takes the smaller one. What B wrote is then reported as a
  race with A. The argument of the comment, that "taking an edge only ever moves
  a clock forward", is about taking; what is lost here is the edge itself.
- `shared_readers`: `sync.rs:515` says the edge from a reader to the next writer
  is a real one. It is, but only the last reader's clock is kept.
- `mappings_met`: `adopt.rs:215-216` says that the plane knows where an instance
  ends, since it is a run of one version. The program maps two pages, an allocator
  adopts the first (in the run a page is one granule) and splits all of it. The
  mapping is number one of its counter and the object number one of the other's,
  so both are `begun(1)`; `merge` of the object ends what is left of the mapping
  as well, and the next access there is refused as one to an ended instance
  (`check.rs:289`). With two mappings, of which one is adopted and split twice, it is
  the other mapping that goes. Programs that map and carve from their start are
  the most likely to meet it, as the two counters are close together.

Eight more do not hold, are stated as properties in the modules where there is
something to state, and have no run of their own:

- `epoch.rs:263`, a stopped clock "loses reports and invents none": `sync`
  cannot move past a stamp that is at the end, and `unordered` reports a
  writer that stands level (`NoFalseReportEver`). 2^48 steps are out of reach of
  a test, and of most programs.
- `sync.rs:142`, a lost edge "is lost reports rather than invented ones": an
  edge that is lost is an order the monitor does not know of, and the ordered
  pair is then reported (`NoFalseReport` over a table with fewer cells than
  keys). `sync.rs:354` says the same of a thread with no birth slot, with the same
  answer (`births` with `Gaps = TRUE`).
- `alloc.rs:734`, "`begun` clears the range before anybody may write it again":
  the stamp of a free comes after the unlock, so it can land on the next
  instance after its `begun` (`StampsAreItsOwn`).
- `install.rs:433`, a compile "finds either the old tree or the new one": there
  is an instant between the two renames, and a kill makes it last
  (`FindsOldOrNew`). The comment inside `swap` does say so.
- `install.rs:484`, an unrecorded directory "is replaced like anything else":
  it is not moved aside, and the rename onto it fails (`UnrecordedIsReplaced`).

- `adopt.rs:78`, "None of the three refuses anything": an adoption that finds
  `GIVEN` full leaves the mapping an instance, and the allocator's next `split`
  there is refused (`NoneRefused`, behind the gap `"full"`).
- `mapping.rs:23-24`, "The range stays ours": not the target of an `mremap` to an
  address of the program's choosing that fails after the kernel took the target
  down, and not what a denied `reserve` leaves (`RangeKept` without `lost`).
- `mapping.rs:340`, "Whether `version` belonged to a mapping an allocator has since
  adopted": an object carved anywhere may have the number of such a mapping, and a
  dangling pointer to it is then not stale to `check.rs:1607`. It is a missed report
  and no false one; no property states it.

And `schedule.rs:93`, "A panic in the closure propagates once every other job has
finished", is true of jobs that had started: the serial path runs no item after
the one that panicked, and when every worker has panicked the items nobody
claimed are not run. `PanicWaits` states what does hold. The gaps of
`Mappings` are in 3.3.

One more, found while `STEPS` was a parameter of `SizeClasses` rather than by a
listed run: `heap.rs:46` says that `STEPS` "is a change to one constant", but
`sized` and `class_of` also hold its logarithm, the `2` of `magnitude - 2`. With
`STEPS = 8` `WasteCapped` fails. That is why `SizeClasses` defines it and leaves only
the width of the word free.

## 5. Proofs

| theorem | property | argument |
|---|---|---|
| `RaceMonitorProofs!TypeCorrect` | `TypeOK` | inductive by itself |
| `RaceMonitorProofs!OneCell` | `OneCellPerKey` | the table half of the invariant |
| `RaceMonitorProofs!NoFalseReports` | `NoFalseReport`, assuming `Roomy` | both halves |
| `RaceMonitorProofs!PublicationsOnlyAdvance` | `PublicationsAdvance`, assuming `Roomy` | with `AdvanceInv` |
| `RaceMonitorProofs!EdgesAreCarried` | `EdgesCarry`, assuming `Roomy` | part of the clock half |
| `InstallsProofs!TypesCorrect` | `TypeOK` | with the others |
| `InstallsProofs!NoHalfTree` | `NeverHalf` | |
| `InstallsProofs!SysrootKept` | `NothingLost` | |
| `InstallsProofs!FailureRestores` | `PutBackOnFailure` | |
| `ScheduleProofs!ScheduleTyped` | `TypeOK` | part of `IInv` |
| `ScheduleProofs!ItemsRunOnce` | `RunOnce` | claimed indices are distinct and below `next` |
| `ScheduleProofs!NoIndexLost` | `EveryIndexClaimed` | a slot below `next` is filled or somebody's |
| `ScheduleProofs!PanicsWait` | `PanicWaits` | a worker that ended saw `next` past the items |
| `ScheduleProofs!RunIsAMap` | `MapsInOrder`, the refinement of `OrderedRun` | with the others |
| `EdgeMovesProofs!MovesTyped` | `TypeOK` | part of the invariant |
| `EdgeMovesProofs!OrderIsParallel` | `Parallel` | what a pending move reads still holds what was asked |
| `EdgeMovesProofs!ScratchIsFree` | `ScratchFree` | pigeonhole |
| `EdgeMovesProofs!EdgeIsParallel` | `EdgeDone` | the machine follows the order's trace |
| `EdgeMovesProofs!OneMoveForACycle` | `FewestExtra` | the cycles still intact are counted |
| `EdgeMovesProofs!EdgesAreOrderings` | the refinement of `Moves` | every step of the edge is the order's or a stutter |
| `EdgeMovesProofs!EdgeNeverWants` | | the judge and the writer ask the same |
| `EdgesProofs!SharedTypeCorrect` | `SharedTypeOK`, in `HandedOnIsCovered` | inductive by itself |
| `EdgesProofs!HandedOnStaysCovered` | `HandedOnIsCovered`, without `Whole` and never `Crowded` | `SharedInv` |
| `EdgesProofs!SharedNoFalseReports` | `NoFalseReport`, the same | `SharedInv` |
| `EdgesProofs!HandedOnStaysCoveredWithRoom` | both, assuming `RoomForAll` | with `EachClaimed` |
| `EdgesProofs!SlotsNeverLeak` | `SlotsAccounted` | part of `BirthsInv` |
| `EdgesProofs!BornReady` | `BornAsAsked` | part of `BirthsInv` |
| `EdgesProofs!BirthsNoFalseReports` | `NoFalseReport`, without `Gaps` and never `Crowded` | `BirthsInv`, `ClocksInv` |
| `EdgesProofs!BirthsNoFalseReportsWithRoom` | `NoFalseReport`, without `Gaps`, assuming `Roomy` | with `Entered` |
| `HeapProofs!HeapTypes` | `TypeOK` | `Shaped`, `Located` |
| `HeapProofs!BlocksNeverShared` | `BlocksAccounted` | `Laid`, `Lists`, the holder's block apart |
| `HeapProofs!RunsMeasure` | `RunsAreInstances` | `Painted` |
| `HeapProofs!SweepIsComplete` | `SweepFindsLive` | the walk, followed back from its end |
| `HeapProofs!WrongFreesDivided` | `ChecksDivide` | `Versioned`, `Painted` |
| `HeapProofs!RefusalsAreJust` | `NoFalseRefusal` | `Known`, `Kept` |
| `HeapProofs!LifetimesHold` | `Lifetimes`, the refinement of `Instances` | the four kinds of steps |
| `SizeClassesProofs!ClassesAreALadder` | `Ladder` | a rank and a size for every rung |
| `SizeClassesProofs!ClassIsFoundAgain` | `Refound` | `Spaced`, `Ranked` |
| `SizeClassesProofs!WasteIsCapped` | `WasteCapped` | `Spaced` |
| `SizeClassesProofs!BlocksFit` | `BlockFits` | `Needed` |
| `MappingsProofs!MappingsInvariance` | | `MappingsInv` |
| `MappingsProofs!PlaneIsRight` | `PlaneTells` | `Told`, from `Paged`, `Objects` and `Given` |
| `MappingsProofs!PlacesStayFree` | `PlacedFree` | part of `Held` |
| `MappingsProofs!RangeStaysOurs` | `RangeKept` | part of the invariant |
| `MappingsProofs!ArenasStayReached` | `ArenaReached` | `Given` |
| `MappingsProofs!NothingIsRefused` | `NoneRefused` | `Told` |

**The race monitor.** `OneCellPerKey` is not inductive: a walk that is about to
claim a cell must know that its key is in none. `RaceInvariant` adds that a key
lies in its own run with no free cell before it, that what a walk has passed is
taken by other keys, and that only the holder of a mutex walks for it. With it
a lookup finds the cell whenever there is one, provided the cell is not taken
over, which is what `Roomy` excludes (no run has more keys than cells; with fewer cells
than keys the property does not hold, see 4). The clock half follows a write to
every thread it is ordered before: covered by the writer's clock, then by what
it publishes, then by what the next holder finds, then by the clock it moves
to. The assumptions are `WidthAssumption`, `TableAssumption` and
`NamesAssumption`, all of which TLC evaluates, and nothing bounds the threads,
mutexes or words, or the clocks.

`PublicationsAdvance` needs one more invariant. The store of `Table::publish`
is a plain one and compares nothing, so it could put an older clock over a
newer. `AdvanceInv` says why it does not: the holder of a mutex, once its
walk for the mutex's clock is over, is never behind what the mutex has
published, and only the holder publishes. The proof leans on the mutex being
exclusive. Keys whose edges several threads may publish at once (read-write
locks, semaphores) are not covered by it: their publications do go back, and
what holds of them instead is next.

**Shared edges.** `Table::publish` stores without comparing, and readers of a
lock publish at once, so that a reader's older clock may replace a newer one.
`HandedOnIsCovered` says that nothing is lost by it which a write lock or a
single signaller hands on. `SharedInv` has three parts for it. `Held` and
`Behind` say who may publish: a writer holds its lock `Alone`, a semaphore or an
atomic has its owner, and every reader has behind it all that the lock carries.
So whatever it stores covers that (`HandedOn`), by whoever it is stored and in
whatever order. `Walked` says where a walk can be. A lookup reads the first cell of
its key (`First`, `Covers`), and a publisher may be at a later one: it
lost a free cell to another reader and went on, as `publish` does without asking to
which key it lost. Its store is then one that no lookup finds, and no later one
is needed, because the first cell keeps covering what the lock carries. A
publisher that is alone is at the first cell, and its clock is found.
`SharedPassed` takes it from there to the thread that acquires.

A cell that is taken over loses its clock, and with fewer cells than
keys the property does not hold (see 4). `Crowded` is the instant before: a
walk that has found its whole run taken. Two theorems assume that it does not occur,
which covers every behaviour where the table is large enough for what that
behaviour did. The third derives it from sizes. `Roomy` is not enough here, since a
key has several cells once readers raced for them; but a thread claims at most one
for a key (`Claimers`: its next walk stops at that cell or before), so that
`RoomForAll`, a run of as many cells as it has keys times threads, is. `EachClaimed` is an
invariant that quantifies over who claimed which cell, as no variable says it.
The ordering is the one of `Whole = FALSE`; with the whole ordering, the run
`shared_readers` shows what is lost.

**Installs.** `NothingLost` says too little about who is going to delete what.
The invariant `IInv` adds that a tree which is aside counts only if its process
is not at a deletion (`Kept`), that what is staged at a swap was checked
(`Checked`), that a process between its two renames has a sysroot aside
(`AsideWhole`), and that a directory with no record is never there after an
install (`Recorded`). `Settled` counts the one fault: a name that is free is
free because of a process whose rename is still to come, or of one whose rename
was the call that failed. The only assumption is that the four kinds of tree
differ.

**The scheduler.** `IInv` of `ScheduleProofs` is the conjunction of what is
true of the counter and the slots at every step: the indices that workers hold
or held are distinct and below `next` (`Claimed`, `Unclaimed`), and a slot below
`next` is filled, or held by a worker, or was the item of a worker that panicked
(`Filled`). A worker that ended took an index past the items, so `next` is past
them and, if nobody panicked, no slot is empty. The refinement of `OrderedRun`
follows: a step either fills one slot with the value of its own item or maps to
a stutter. The only assumption is `ScheduleAssumption`, and neither the workers
nor the items are bounded.

**The moves on an edge.** The invariant says that what each pending move reads
still holds what was asked at that place before the edge, which is what makes a
sequence of moves equal to the parallel ones. The scratch register is written
only when nothing is ready; the lemma `ReadersAreWriters` shows by counting
that every pending place is then read by exactly one pending move, so none
reads the scratch and what it held is not needed. `MovesAssumption` asks for
finitely many places and a scratch that is none of them.

`FewestExtra` compares the order with the cycles of the moves as they were asked
for. `CyclesInv` counts the cycles none of whose moves has been taken: with the
moves already made for a cycle they are all there were. A move that is ready is
on no intact cycle, since its place would still be read by the next of the
cycle; and when none is ready the pending moves are a permutation of their
places (`PermutedIsCycles`), so that the move broken then opens one intact cycle
and no other (`SameCycle`).

`EdgeMovesProofs` follows the edits along the order, which is complete before the
first of them. `Trace` is what the places hold after each of its moves; the
machine agrees with it on every place, and on the scratch for as long as `Busy`
says that somebody still reads it (`Follows`). A value goes through the scratch
only when it is not busy, which is what `fits_on_edges` asked of every move, so
the writer is never without a register. That a filled scratch is always read
(`Ordered`) is needed for the case of no register held back.

**Births.** `BirthsInv` adds to the two properties that a thread which does not
exist yet has done nothing and holds no slot (`NotYet`), that a thread being made
has one maker (`OneMaker`), and that a slot handed over says what its new thread
will read (`FilledIn`). The monitor's own steps leave all of it alone, because
they are never in the birth slots' code (`Elsewhere`). `Carried` keeps the types
of what travels through a slot and of the identifiers. The assumptions are the
race monitor's and `BirthsAssumption`; the number of slots and threads is free.

`ClocksInv` is what `NoFalseReport` needs beside it. A creator's clock is on its way
in three places, in the creator's hands, in the slot and in the new thread's
(`Sent`, `BirthsPassed`), and all it was ordered behind is covered wherever it is. A
finished thread leaves its own under its identifier (`LeftBehind`), and the cell
stays as it is because nobody else has the identifier until the join has come back
(`Named`), and nobody publishes under it while the join still looks
(`Acting`). That last fact is what an identifier used again takes away, which is
one of the three gaps that `Gaps = FALSE` leaves out and what `births_reused` shows.
An identifier has one publisher at a time and so one cell, in its run
and with no free one before it (`Entered`); `Roomy` is therefore enough to exclude
that a cell is taken over.

**The heap.** `BlocksAccounted` says that with the lock free every block is live or
on a list once, and no step of a call under way is covered by it. `HeapInvariant`
says for every moment what the arenas, headers, plane and calls have to do with
each other: `Shaped` and `Located` are the types and that all blocks and headers
are inside watched regions; `Paired` that a call past the lock is the holder's;
`Laid` that blocks lie end to end up to each arena's cursor; `Lists` that a free
list has the free blocks of its class, each once, but the holder's; `Versioned`
that an arena's versions are below its counter and a dead slot's is odd;
`Painted` that every live block is owned from one end to the other under its own
version, and the holder's as far as its fill has come. `Borne` and `Counted` make
every version one instance's for ever. For `NoFalseRefusal` two more parts are
needed, `Known` and `Kept`: as long as no pointer was given away twice, what the
program holds, what threads have just been given, and what they have begun to
free are all intact and all different; a check refuses a pointer only if its
instance is none of these. The steps fall in four kinds: those that begin an
instance (`BeginsAt`), those that touch only what is the caller's own
(`Outside`, `Handled`), the fills (`FillPaints`) and those that end one
(`EndsAt`); each has a lemma for the whole invariant. `SweepFindsLive` is about the sequence `heap.rs` `each` visits: `HeapSweeps` shows
that an arena's walk exists up to its cursor (`WalkExists`), and that a live
block is on it (`WalkFinds`) because each step from a block's begin lands on the next
block's. The refinement of
`Instances` maps each fill's last granule to a birth or a death and all else to a
stutter. The assumptions are `HeapAssumption` and `NoCapAssumption`; threads,
regions, their size, sizes and the number of instances are free. TLC has checked
the invariant on the instance of `heap`, which is how it was found.

**The mapping arena.** The theorems are about `Spec` as it stands, from both
counters at one, with a kernel that may fail or deny anything, and about every
state before a call goes through one of the gaps of 3.3, which is how the
properties are stated. Nothing is bounded: pages, granules,
threads, places in `GIVEN`, mappings and objects are free. `PlaneTells` is not
inductive, because `release` ends a whole page by its first granule, `place`
looks at first granules and at `GIVEN`, and `merge` and `purge` walk while the
version stays the same. `Numbered` makes versions of different mappings, and of
different objects, different; a mapping and an object may have one number, and
what keeps a walk from the one out of the other is that a behaviour in which they
lie side by side when the object goes back has gone through a gap. `Paged` says
that a page is one mapping's up to where an allocator's
part begins, so that the first granule answers for the others; `Objects` that a
carved object has no gap and lies in one arena, so that a run of one version that
does not meet a mapping is the object; `Given` that what is in `GIVEN` is exactly
what is adopted. `Held` is
what a call under way relies on: its pages are no other call's, no allocator's,
vacant if they were found by `place` for an mmap or a growing mremap, the program's
if they are a `MAP_FIXED`'s, and claimed as one run. `Ranged` is `RangeKept` itself,
with the pages that are lost. Steps that start a call keep all this by `CallKeeps`,
those that end one by `Settled` (pages of its own begin or end, or are reserved or
denied), an allocator's by `CarvesKeep`; munmap and adopt stand by themselves. TLC
has checked each part on the instance of `mappings`.

**The size classes.** A class is `q * bit[k]` granules with `q` from 4 to 8, or fewer
than four. A count between `4 * bit[k]` and `8 * bit[k]` is rounded to the next
multiple of `bit[k]` (`Spaced`), and `class_of` gives that one the rank
`3 + 4 * k + (q - 4)` (`Ranked`); eight at one `k` and four at the next are one
class with one rank. That classes are found again, waste less than a quarter, and
hold header and payload is arithmetic from there. The only assumption is
`ClassAssumption`, a word of at least eight bits.

**Recursive functions.** `bit`, `Back` and the sweep's walk are recursive
functions, and the library's induction theorems cannot be used with this prover.
They are defined over finite ranges, and what is proved of them goes by the set of
the indices up to which it holds: one that has 0 and, with each index, the next,
reaches the end of the range (`Forwards`, and `Backwards` the other way), since its
members are finitely many and the last of them would have a next one.

**Model-checked only.** The liveness properties (`EveryFetchEnds`, `CallEnds`,
`EdgeEnds`), which are out of the prover's reach. Every safety property of a run
that holds is a theorem as well.

## 6. Not modelled

- **The compiler proper** (front end, IR, optimizer, code generation, assembler,
  objects, linking, the wasm crates, targets). These are sequential functions
  from one large data structure to the next. The property of each is that the
  program keeps its meaning, which needs a semantics of C, of the IR and of the
  machines; a transition system adds nothing to it. They are most of the
  repository's lines, so the map covers a small part of it.
- **Tags** (`TagTable` of the plan) and **adoption outside the arena**. The two
  hazards are listed with their lines and no property.
- **Bounds, type, initialization, frame and stack planes.** They follow the
  lifetime plane in the thread that makes the access, and what they promise is
  about the semantics of C.
- **Interposed calls.** A table of rows, each the contract of a library call.
- **The pool of the compiler** (`crates/rucc/src/pool.rs`): in the plan.
- **The rest of `rucc-regalloc`.** Liveness, intervals and the choice of a place
  for each value come before the moves; `EdgeMoves` takes their result as input.
- **Installs of several targets at once.** `Installs` has the names of one target;
  what two targets share is in the hazards (`install.rs:461`).
- **The reactor** (`rucc-reactor`). It keeps the outputs of its last run for
  one host thread, and replaces all three when the next one returns.
- **The build tools**, which are run by developers and not by a compile.
