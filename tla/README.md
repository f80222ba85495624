# A verification of the glibc malloc study

The repository is a study of glibc 2.43's allocator. `upstream-src/malloc.c` and
`upstream-src/arena.c` are the code; `annotated-src/` is the same code with the author's
comments; `design/` and `open-questions.md` are notes; `dynamic-analysis/` holds sixteen
client programs to be stepped through in a debugger, each with a record of what was seen;
`linked-lists/` holds seven list programs that lead up to the bins of the allocator. This
directory holds TLA+ models of all of these, the TLC runs that check them and TLAPS proofs
about six of them. A line number without a file is one of `upstream-src/malloc.c`.

## 1. Inventory

| Component | State | Operations | Talks to | What is hard | What makes it correct |
|---|---|---|---|---|---|
| **Arenas and threads** (`arena.c`) | `thread_arena` of each thread, `free_list` and its lock, the circular list of arenas and `list_lock`, a mutex and `attached_threads` per arena, `narenas`, `narenas_limit`, `next_to_use` | `arena_get`, `arena_get2`, `get_free_list`, `_int_new_arena`, `reused_arena`, `arena_get_retry`, thread exit, the three fork handlers, the walks of `mallinfo`, `malloc_stats` and `malloc_trim` | every malloc and free locks the arena it works in | three kinds of locks with an order, a list read without its lock, a counter taken before the thing it counts exists, fork in the middle of anything | counters are the threads they count, no arena is lost, nobody waits for ever |
| **One arena: chunks, bins, top** | chunk headers (size, `PREV_INUSE`, `prev_size`), unsorted list, bins, `binmap`, `top`, `last_remainder`, `system_mem`, contiguity, the break | `_int_malloc`, `_int_free_chunk`, `_int_realloc`, `_int_memalign`, `systrim`, `sysmalloc`, `calloc` | the kernel, other users of `sbrk` | boundary tags left stale by an earlier call, lazily cleared bits, a break that others move, failure of one of two system calls | memory is neither lost nor given twice; the checks of a debugging build hold; calloc clears |
| **Large bins** | the ring of `fd_nextsize`/`bk_nextsize` in a bin | insertion, search, `unlink_chunk` | bins | a ring through some nodes of another ring | the sorted sequence it stands for |
| **Heaps of the other arenas** (`arena.c`) | `heap_info` chains, `size`, `mprotect_size` | `alloc_new_heap`, `grow_heap`, `shrink_heap`, `heap_trim` | `sysmalloc`, `free` | top moves between heaps, fenceposts between them | every heap but the newest ends with the fencepost `heap_trim` looks for |
| **Blocks served by mmap** | regions, `n_mmaps`, `mmapped_mem`, their maxima, the thresholds | `sysmalloc_mmap`, `memalign`, `munmap_chunk`, `mremap_chunk`, `realloc`, sliding thresholds, `mallopt`, tunables | the kernel | no lock: separate atomic operations and plain writes | statistics follow the blocks; blocks hold their request; the user's thresholds stay |
| **tcache** | per thread: slots and mangled lists per size, the key in each cached block | lookup, put, large and aligned lookup, stashing, `tcache_init`, the double-free test, thread shutdown | in front of arenas | links mangled with their place, a cache made or shut down inside other calls, re-entrant `free` | lists, slots and keys agree; correct programs are never stopped; every call ends |
| **Size classes, sizes of the entry points** | none | `request2size`, `bin_index`, tcache indices, `memalign`, `posix_memalign`, `aligned_alloc`, `pvalloc`, usable size | every allocation | wrap-around at the end of `size_t`, many range boundaries | a chunk holds its request and has the right bin |
| **Parameters, statistics** | `mp_` | `mallopt`, tunables, `mallinfo`, `malloc_info`, `malloc_stats` | thresholds, arenas | plain variables, sums over arenas in motion | sums that add up |
| **Debug checks** | none | `do_check_*` | an arena | they are what its author holds to be invariant | used as invariants |
| **Linked-list exercises** | headers and nodes | push, delete, link, unlink, display | libc's malloc | either end, the last node, both directions | they are sequences |
| **Experiments** | their pointers | straight-line programs | malloc | whether the notes are right | the notes are right |
| Memory tagging, perturbation; annotated copies | contents of blocks | | | | not modelled (section 6) |

A call goes: the thread's cache → size class → an arena, locked → `_int_malloc` in it →
`sysmalloc` when `top` is too small → `mmap`, `sbrk` or a heap. When it fails,
`arena_get_retry` gives the arena back and tries one other. A free goes to the cache of the
thread, or to the arena of the *chunk*, whichever thread calls it, or to `munmap_chunk`.
Components share `mp_` and, through the chunk header, the flags that say which owns a block.

## 2. Modules

| Module | Models | Composition |
|---|---|---|
| `ArenaList` | `arena.c`: arenas, threads, locks, fork, walks | an allocation inside an arena is the stay at `pc = "inarena"` |
| `Chunks` | headers, bins and top of any arena, as operators on an arena record | extended by `Heaps`; instantiated for the refinement of `LargeBin` |
| `Heaps` | the heaps under an arena, as operators on the same record | `EXTENDS Chunks` |
| `Arena` | all public calls on one arena, main or not, step by step | `EXTENDS Heaps`; `INSTANCE Allocator` |
| `Allocator` | abstract: blocks that never overlap and stay put | implemented by `Arena` |
| `Nodes`, `LinkedLists`, `SkipList` | the memory of the list programs; programs 1 to 4; program 6 | each extends the one before |
| `LargeBin` | the nextsize ring of a large bin, pointer by pointer | `EXTENDS SkipList` for its memory and displays; implements the sequences of `Chunks` |
| `ListSpec` | abstract: sequences that grow and shrink at their ends, or sorted | implemented by the list programs |
| `MmapChunks` | mapped blocks, statistics, thresholds, `mallopt`, tunables | stands alone |
| `SizeClasses` | `request2size` and `bin_index` | its theorems are the assumption `Chunks` makes of `BinIndex` |
| `CallSizes` | what the entry points make of sizes and alignments | `EXTENDS SizeClasses` |
| `Experiments` | the sixteen client programs | `EXTENDS CallSizes`, `INSTANCE Arena` with the real 64-bit sizes |
| `Tcache` | the caches of threads over abstract arenas | stands alone |
| `SizeClassesProofs` | theorems of `SizeClasses` | `EXTENDS SizeClasses` |
| `ArenaListProofs`, `ArenaLocksProofs` | theorems of `ArenaList` | each extends the one before |
| `MmapChunksProofs`, `TcacheProofs` | theorems of `MmapChunks` and `Tcache` | each extends its module and `NumberLemmas` |
| `ChunksProofs` | theorems about the operators of `Chunks` | `EXTENDS Chunks`, `NumberLemmas` |
| `ArenaProofs` | theorems of `Arena` for main_arena | `EXTENDS Arena`, `ChunksProofs` |
| `NumberLemmas` | induction, division and sums over finite sets, for the proofs | |
| `MC...` | instances for TLC, and refinement mappings | |

A definition with the suffix `_slip` (or `_undetached`, `_joins`, `_uncapped`, `_anywhere`)
is a mistake one could make in the definition after it. No specification uses it: it is there
so that each property can be seen to fail when the code is wrong.

### ArenaList

State: the globals of `arena.c` by name, and for each thread a program counter and the
locals `result`/`ar_ptr` (`res`), `replaced_arena` (`rep`), `n` (`num`). `tried` says that a
call has already been through `arena_get_retry`. A step is one lock operation, one access to
data that is read without a lock (`free_list`'s head, `narenas`, the `next` links,
`next_to_use`), or one critical section of `free_list_lock`. Joining a critical section
into one step is sound because what it writes is read elsewhere only under the same lock,
but for the head of `free_list`, which it writes once.

A fork is followed into parent and child. In the child only the forking thread is left, at
`__malloc_fork_unlock_child`; mutexes of arenas that another thread was still creating keep
their state and those arenas are lost, as in the code. `Walk` is the loop that
`mallinfo`, `malloc_stats` and `malloc_trim` share: it locks one arena at a time and reads
`next` after unlocking. The single-thread fast path takes no lock and is left out.

### Chunks, Heaps and Arena

Addresses and sizes count units of `MALLOC_ALIGNMENT`, so a header of 16 bytes is one unit
and `MINSIZE` two. A chunk is an entry of `av.chunk`: merging removes the entry, splitting
adds one. `prev` is `prev_size`, which exists only while the chunk before is free; the model
sets it to 0 (user data) when that one is taken. A bin is the sequence of its chunks.

`_int_malloc` runs as one step per stage: small bin, unsorted list chunk by chunk with
`MAX_ITERS`, large bin, binmap scan, top, `sysmalloc`. `realloc`, `memalign` and `calloc` set
`op.kind` and go on where the inner allocation returns. The consistency tests that end in
`malloc_printerr`, and the assertions of `heap_trim`, set `av.bad`, after which nothing
happens.

`sysmalloc` has the mmap threshold; for main_arena the contiguous and the non-contiguous
case, foreign `sbrk` between calls (`ForeignSbrk`), the correction call for page alignment
and the mmap fallback; for the others growth of the newest heap and a new heap behind
fenceposts. Every system call may fail when `SysOutcomes` says so. `Systrim` is written in
the unsigned arithmetic of its C (`% Word`). `shrink_heap` leaves the memory accessible or
not, as the process may shrink heaps or not.

`dirty` is the set of units anybody may have written since the kernel last gave them; what
`calloc` does not clear must lie outside it. `Retries` lets a failed `calloc` be served by
the same arena again after others have used it, which `arena_get_retry` allows. What may leave
several arenas behind, because a system call may fail (`FreeChunk`, `MoveTop`, `CutTail`), is the set
of them.

The `Check...` operators are `do_check_chunk` and the others, without the nextsize part,
which is `LargeBin`'s; `Fordblks` and `ArenaInfo` are what `mallinfo` and `malloc_info` add up.

### Nodes, LinkedLists, SkipList, LargeBin

`mem` holds the fields of every node and header by address; reading through a bad pointer
gives `Wild`, writing through one sets `bad`. Each program's functions are sequences of
assignments in the order of the C, and any sequence of calls is allowed, not only that of
`main`. The deletes of `node_ptr` (program 3) get the headers by value and so cannot change
them: they leave the caller's header at the node they free. `dangling` remembers such headers,
and no call is made on a list that has one (`Usable`), because what it would do is undefined.
`ListsSound` says that no other program gets there, and that the nodes which remain in a list of
program 3 are still a sound ring, to be entered from its other end. `unlinkNode` of the skip list, marked "To be written", does not
mend the skip links: `relinked` records that, and the next `linkNode` makes all of them anew.

`LargeBin` is the same memory read as a bin of `malloc.c`: `skip_next` and `skip_prev` are
`fd_nextsize` and `bk_nextsize`, and the bin head is the fake node.

### MmapChunks

Every access to `mp_` is a step: the test in `_int_free_chunk` is `Compare`, of
`no_dyn_threshold`, and `Measure`, of `mmap_threshold`. `SlideTrim` may read `mmap_threshold` again or use the value
in a register, because it is a plain variable. The comparison in `_int_free_chunk` uses
`chunksize_nomask`: with its flag bit the size is above an equal threshold, which `Slides`
keeps. `offset` is the distance of an aligned block from its region. The tunables
(`Tuned`) run the functions of `mallopt`, before any thread.

### Tcache

A link is the pair of what it points to and the place it is mangled with; revealed from
another place it is garbage. The arenas are a set of places of which any free one, of a
fitting size, may be handed out. A thread's cache is `inactive`, `live` or `disabled`;
`tcache_init` runs inside `_int_malloc` and inside `free`, and disables the cache while it
allocates. What the program leaves in a block may equal the key by chance.

### SizeClasses, CallSizes, Experiments

The macros as they are, with `SIZE_SZ` and `MALLOC_ALIGNMENT` as parameters, sums modulo
`Word`, and one action that makes a request of any size after another, so that properties
compare two sizes. The experiments are sequences of instructions with the real byte counts;
the assertion at a breakpoint is the claim in the program's `[ANALYSIS]` comment. They run
without tcache. `dynamic-analysis/bins/build` switches it off; `chunk/build` does not, but what
the experiments in `chunk` record fits only runs without it. In them every `mmap` succeeds.

## 3. Runs

| Run | Bounds | Shows |
|---|---|---|
| `arena_shared` | 3 threads, 2 arenas, `arena_max` 2, no walks | `AttachedIsCount`, `FreeListUnused`, `DetachPositive`, `NoArenaLost`: the places that write `attached_threads` and `free_list` agree, the assertions of `arena.c` cannot fail. `LocksSafe`: the lock order, and whoever works in an arena holds it. `ScanStaysOnList`, `NarenasBounds` |
| `arena_fork` | 2 threads, 2 arenas, no limit set, one fork, one thread walks | `ForkReturns`, `CallsReturn` under fairness |
| `arena` | main_arena, and an arena of up to 3 heaps; small and large requests, `memalign`, `calloc`, mmap threshold | consistency between any two steps, best fit, the sums of the statistics, clearing, and the refinement of `Allocator` |
| `main_foreign` | foreign `sbrk`, `sbrk` failing at will, mmap fallback, retries | `StatePassesChecks`, `OwnMemoryOnly`, `GrowthSuffices` |
| `mmap_stats` | 2 threads, 2 blocks, aligned or not, two options | `StatsTrack`, `BlocksHold`, `UserThresholdStays` |
| `layout_64` | both sides of every boundary of the 64-bit layout, and the experiments | sizes, bins, cache bins, alignments; the experiments' notes |
| `lists` | 5 nodes, 2 lists, 3 values, every program | `ListsSound`, `SkipExact`, and the refinements of `ListSpec` and of the bins of `Chunks` |
| `tcache` | 2 threads, 3 places, caches of 2 slots, one small and one large bin | `CachesSound`, `NothingOverlooked`, `FitsRequest`, `NoFalseAlarm`, `CallsEnd` under fairness |
| `main_entry`, `main_trim`, `mmap_memory`, `calloc_retry` | | violated: see Findings |

Why the bounds are enough. *Arenas*: two arenas with a limit of two already force sharing,
reuse and waiting; with three threads an arena can gain one thread while it loses another
and a third looks at the lists. A third arena cannot be published below the limit of the
two-core instance of `arena_fork`, but by a race that leaves it symmetric to the second. Walks
for statistics are left to that run, where calls of others must return beside them, and to the proof
of `ScanStaysOnList`, which holds for any number of them.
*One arena*: with a page of four units and memory up to 20 to 24 units it holds several
chunks, so that a free merges backward, forward, both ways and with top; bins of one and of
several sizes occur; top grows, shrinks and is exhausted. `MaxIters` is 1 in `arena`: the search
of the unsorted list stops after one binned chunk and goes on with others left on the list, one
of them large enough (memory of this size never holds more than two chunks to bin in one search);
it is 3 in `main_foreign`, where the search always ends by itself. The first break of
main_arena is not at a page boundary, so the first growth needs its correction. Three heaps are
enough for `heap_trim` to meet a heap in the middle and to delete two heaps in one call, and with
requests of 3 and 5 units in heaps of 8 the run gets there.
*Mapped blocks*: each property is about one update racing another. *Sizes*: a symbolic
`Word` of 2^24 keeps every range and every wrap, and TLC's integers have 32 bits;
the experiments use the default parameters. *Lists*: five nodes in two lists give a list
of three with both ends apart, and two nodes of one value next to others. *tcache*: three
blocks fill a cache of two and leave one for the other thread.

Symmetry permutes threads, arenas, nodes or blocks that the specification treats alike, in
safety runs and in the list refinements, which have no fairness. The `VIEW` of `mmap_stats`
leaves out the peak of `mmapped_mem`, which nothing reads. Deadlock is checked everywhere but in
`lists`, where program 3 may have spoilt all of its lists and stops.

`arena_shared` has neither a fork nor a walk for statistics; `arena_fork` has both, for two
threads, but asks only whether calls return. That the safety properties of `arena_shared` hold
across forks, too, is shown by the theorems of `ArenaListProofs` and `ArenaLocksProofs`, whose
specification is the whole one, and by no run.

### Fairness

`FairSpec` of `ArenaList` assumes weak fairness of each thread's own steps (the kernel
schedules it) and strong fairness of each lock acquisition (a lock that is released again
and again is obtained at last; futex-based locks promise it only statistically, and no
call could be shown to end without it). No thread must ever start a call, exit or fork. A
call that allocates may still go round the compare-and-swap loop on `narenas` for ever if
others win each time, so `MallocReturns` excepts that. `FairSpec` of `Tcache` has weak
fairness of the steps that continue a call; nothing there waits for a lock.

### Findings

Each violated run is a disagreement between the code and what it, or a comment in it, says;
`PROJECT.json` quotes both.

- `main_entry`: when the second `sbrk` of `sysmalloc` fails the correction is dropped, and the
  next `sysmalloc` fails its own assertion on a page-aligned end of top (2386).
- `main_trim`: with top at its minimum `malloc_trim` takes memory from the system (2764).
- `mmap_memory`: each `mremap_chunk` adds `CHUNK_HDR_SZ` too much to `mmapped_mem` (2883).
- `calloc_retry`: a `calloc` that failed, unlocked, and was served by the same arena skips
  clearing by the size top had before (3713).

### What else modelling showed

These hold of the code as modelled, and contradict nothing that it states.

- `reused_arena` can return the arena it was told to avoid: its first scan does not look at
  `avoid_arena` (`arena.c:758`), only the wait does (`arena.c:768`).
- Freeing the old top inside `sysmalloc` may give back the memory just obtained, so the request
  fails although the kernel gave what was asked. In main_arena (2708, 4542) this takes a request
  above `top_pad` that with `top_pad` is less than two pages below the trim threshold; all others
  succeed, which `MainGrowthSuffices` proves. In another arena (2434, `arena.c:526`) the heap
  just added is deleted again when the one before has `top_pad`, `MINSIZE` and a page free; the
  request must be above `top_pad` and below the mmap threshold, which happens with the default
  settings once that threshold has slid up. `arena_get_retry` then takes the request to main_arena.
- A free that passed the test of `no_dyn_threshold` before `mallopt` stores its values after
  it and overwrites the user's threshold; `UserThresholdStays` speaks of later frees.
- `malloc_info` adds up size fields with their flag bits (5454), so its free total differs from
  that of `mallinfo`, by less than one unit per chunk.
- `n_mmaps` is tested (2352) long before it is incremented (2276), so threads together exceed
  `n_mmaps_max`.
- `large_csize2tidx` passes a `size_t` to the `clz` of an `unsigned int`: a `tcache_max` of 4 GiB
  or more would give wrong bins. `CallSizesAssumption` excludes it.
- The comment at 3221 says later calls retry the initialisation of tcache, that at 3240 that
  they do not; they do not.
- In a large bin a NULL `fd_nextsize` tells a chunk that is not the first of its size; of the
  last chunk, `unlink_chunk` asks the bin head, whose field overlaps the next bin and is never
  NULL: `SkipExact` and `ListsSound` include it.
- In programs 1 and 2 of `linked-lists` a single node has NULL links and must not be
  displayed; the `main` of program 3 displays from the tail with the head; several functions end
  without the value they promise.
- "Step3: Modify the list head ptr" (`3-node_ptr-array.c:116`, the tail at 146) modifies a copy.
  The caller's header stays at the node that is freed next; its `main` never deletes.
- `misc/exp3.c` finds that of several chunks of one size the most recently freed duplicate is
  taken, "180 degrees opposite to the annotation"; the code does what the experiment saw.

## 4. Proofs

Everything in this section holds for every value of the constants that the named assumptions
allow, and `tlapm` checks it to the last step. TLC checked each inductive invariant on the
instances of section 3 before it was proved.

| Module | Proved | Inductive invariant |
|---|---|---|
| `SizeClassesProofs` | `HoldsRequest`, `HasBin`, `Ordered`, `Exact` | what `nb` is for `req` |
| `ArenaListProofs` | `TypeOK`, `AttachedIsCount`, `FreeListUnused`, `NoArenaLost`, `DetachPositive`, `ScanStaysOnList` | `IInv` |
| `ArenaLocksProofs` | `LocksSafe`, `NarenasBounds` | `IInv /\ LocksInv`, and `LimitInv` |
| `MmapChunksProofs` | `BlocksHold`, `StatsTrack`, `UserThresholdStays` | `HoldInv /\ CountInv` |
| `TcacheProofs` | `CachesSound`, `NoFalseAlarm`, `FitsRequest`, `NothingOverlooked` | `CacheInv` |
| `ChunksProofs` | `MergeChunkIs`, `FreeChecksHold`, `TakeVictimIs`, `PlaceInBinIs`, `TakeFromTopIs` | each operator keeps `Sound` |
| `ArenaProofs` | `NoAbort`, `TagsAgree`, `NoLeak`, `OwnMemoryOnly`, `ImplementsAllocator`, and `GrowthSuffices` for requests that are `Modest` | `IInv == MemoryOk /\ Fits /\ OpOk` |

### SizeClasses

For every request size and word width, and for the three layouts (`SIZE_SZ`,
`MALLOC_ALIGNMENT`) = (8, 16), (4, 16), (4, 8), what `layout_64` checks holds. The inductive
invariant says of `nb` that it is `SIZE_MAX`, or a multiple of the alignment that holds `req`
tightly; the lemmas about `bin_index` are proved layout by layout, where they are linear
arithmetic.

### ArenaList

Any finite sets of threads, walkers and arenas, any number of forks and any values of the
tunables. The assumptions are those of `ArenaAssumption`; finiteness is there because the
counters are cardinalities. `ArenaListProofs` rests on one inductive invariant, `IInv`. None of
the properties is inductive alone:

- `AttachedIsCount` needs to know that a step which moves a thread's counters moves it from
  where it was counted, so `ThreadInv` ties the program counter to `res`, `thread_arena` and
  `replaced_arena`: a thread on its way to another arena comes from `main_arena` or from none
  (`threadArena[t] \in {Main, NoArena}`), because `arena_get_retry` only goes on to
  `arena_get2` from `main_arena` and a first call has no arena.
- The same fact gives `NoArenaLost`: `detach_arena` puts nothing on the free list, and need
  not, as it only ever detaches from `main_arena`.
- `ScanStaysOnList` needs `ListInv`, that `next` leads from the list to the list, for the scan of
  `reused_arena` as for the walks of the statistics. Its one delicate step is the
  publication of an arena, whose own `next` was written before, under
  `list_lock`; so `ThreadInv` also says what an arena that is not published yet looks like and
  `ListInv` that no two threads create the same one.
- `DetachPositive` follows from `AttachedIsCount`, since the thread that detaches is one of
  those counted.

The proof has three general lemmas, for a step that leaves the thread with the same arenas
(`QuietStep`, most of the actions), for one that moves the counters (`MoveStep`: `PopFreeList`,
`DetachReplaced`, `AttachReused`, `ExitDetach`) and for what other threads rely on
(`OthersKeep`); `NewHeap`, `LinkArena`, `PublishArena` and `ForkChild` change which arenas
there are and are proved directly. `RemoveFirstSpec` and `SetToSeqsSpec` say what the two
sequence operators of the model do.

`ArenaLocksProofs` adds `LocksInv`: the mutexes each thread holds, as a set (`Held`), at each
program counter. Outside fork that is at most the arena of its call. The hard case is fork, which
collects the mutex of every arena along the circular list, and gives them back along it. That the
second walk unlocks exactly what the first locked needs that the walk meets every arena once
before it is back at `main_arena`. `RingInv` states this without any order on the arenas: no set
but the whole list contains `main_arena` and is closed under `next`, and `next` is one to one on the
list. `LockedUpTo` and `UnlockedUpTo` say that what has been passed so far is closed but for
the arena that comes next; when that one is `main_arena`, `RingInv` makes it everything. Almost
every other action has one of three shapes (a thread keeps, acquires or releases, `KeepsStep`,
`AcquiresStep`, `ReleasesStep`), and the `...Shape` lemmas sort the actions into them.

`NarenasBounds` follows from the cardinalities of the two sets it adds, which a step changes by
one (`CasLimit`, `PublishLimit`, `NewHeapFailsLimit`), and from `LimitInv`: a thread that is about
to do the compare-and-swap with a fixed `arena_max` has read a `narenas` below it. The
compare-and-swap turns that reading into a fact about the present. In a fork's child `Creating`
loses the threads that are gone, so only the inequality remains.

### MmapChunks

Any threads, any finite set of blocks, any requests. `AlignmentAssumption` says what the code makes
sure of before the model starts: `memalign` raises an alignment to `MINSIZE`, and alignments and
pages are powers of two; in the form the proof can use, an alignment below a page divides it. The
exponents are written out as a set, since the provers know nothing of `^`.

`HoldInv` says that a thread in the middle of a call owns its block: no other thread is at work on
it and the program does not have it (`OwnInv`, `Apart`), although no lock is held. So only one
thread's step can change what `BlocksHold` says of a block. The arithmetic is that of two
roundings, one inside the other (`AlignedOffset`, from `AlignedBehind` and `RoundUp` of
`NumberLemmas`). `UserThresholdStays` needs `HoldInv` only for where a thread comes from.

`CountInv` compares the counters with the blocks while updates are still on their way. `CountExact`
is exact; `mmapped_mem` is at least the sum of what each block has contributed so far (`Weight`:
nothing before its addition and after its subtraction, the old size while `mremap_chunk` has
not added yet), and `max_n_mmaps` is at least `n_mmaps` unless a thread carries the missing
value (`Pending`). It is "at least" because each `mremap_chunk` adds too much, as `mmap_memory`
finds. The maximum of `mmapped_mem` is stored from a value that may be old; nothing is claimed of it.

### Tcache

Any threads, any finite set of places, any bins and sizes, any assignment of sizes to bins that
`TcacheAssumption` allows. The caches are linked lists through the blocks themselves,
with each link mangled with the place that holds it, and the model walks them as the code does.
The proof has three layers:

1. *Lists.* `IsList(nx, h, s)`: from head `h` along the revealed links of `nx` lie just the blocks of
   the sequence `s`, none twice. `ChainIs` shows that the model's walk, a recursive function,
   then gives `s`; `PutList` and `GetList` that putting a block behind a link, and taking one
   out, gives `s` with one block more or less (`Ins`, `Del`), the link before it mended with the
   right mangling. `LocationIs` and `AlignLinkIs` say where the two searches stop.
2. *The invariant.* `CacheInv` says that there are a list for every bin of every thread, and a use
   (`role`) and thread (`own`) for every place, such that slots plus length is `tcache_count`, bins
   of large blocks are sorted, what is in a list is exactly what has that use, and a cached block
   carries the key. A place has one use: that is why no block is in two lists, or cached while the
   program has it. `CachesSound` counts sets, which would not be inductive.
3. *The actions*, one lemma each. The longest is `Stash`, where malloc takes a block out of a small
   bin and moves others into the cache, after making the cache if there is none. The
   number moved is what the slots allow, so `StashEnd` is by induction over the sequence of them
   (`PutAllList`).

`NoFalseAlarm` then says that `tcache_double_free_verify` walks an intact list in which the block
being freed, which has the use `freed`, cannot lie, whatever the program has written where the key
would be. `NothingOverlooked` needs the order of the large bins: the search stops at the first
block that is not too small (`FoundIfThere`).

### Chunks

Any memory, any sizes and any `bin_index` that `ChunksAssumption` allows, with the header and
`MINSIZE` of the 64-bit layout. `Sound(a, F, X, G)` says of an arena record that its headers tile
memory, `F` being the free chunks and `X` those in use, by the program or by the call in progress;
`G` is the set of the intervals of memory a chunk may cover, which is all that is assumed about
memory: a part of an interval, and two that meet, are intervals again (`Closed`), and a size that fits in
one can be binned (`Memory`). `Tiled` is the part about headers: order, the boundary tags of free
chunks and of those in use, no two free neighbours and none beside top, and what fenceposts look
like. `Lists` and `Sorted` are the part about bins.

1. *Headers.* Every change that the code makes to headers is a sequence of a few changes between
   tilings: use a free chunk, split or join chunks in use, free one between two in use, give one
   to top, cut top, move it. `UseIs`, `SplitIs`, `JoinIs`, `FreeUsedIs`, `ToTopIs`, `TakeTopIs`,
   `GrowIntoTopIs`, `SizeTopIs`, `MarkIs` and `FencedIs` say that each keeps `Tiled`.
2. *Lists.* `RemovedIs` and `InsertedIs` are about any list; `UnlinkLists`, `FrontLists`, `PushLists`
   and `InsertLists` about the operations of the model.
3. *Operations.* A free that merges forward, say, is: use the next chunk, join, free; that this writes
   what the code writes is `MergeHead`, an equation between headers. `CreateChunkIs` puts the three
   cases together, `MergeChunkIs` adds the merge backward. `Leaves` says what else stays: the
   sizes of other blocks in use, the end of top, and that top is last where it was.

`FreeChecksHold` is why no legal free is stopped: every test that ends in `malloc_printerr` compares
two words of which `Sound` says that they agree.

### Arena

The theorems are about main_arena, `MainArena = {TRUE}`: any memory, any requests and alignments,
any thresholds, foreign `sbrk` at any time and system calls that fail at any time. They rest on
`ChunksProofs`, and on one inductive invariant:

- `MemoryOk`: before the first growth the arena is `Fresh`; from then on `Good`, that is, `Sound` for
  some set of free chunks, for the blocks of the program and the block of the call in progress
  (`Held`), and for the memory it owns. That memory (`Owned`) is what lies below the break, without what
  other code took from it, and what the mmap fallback mapped. `Numbers` says that
  `system_mem` is not less than all of it, for the tests of `_int_malloc` and `_int_realloc` compare sizes
  with `system_mem`; and that a contiguous arena has nothing mapped.
- `Fits`: the chunk of every block of the program holds what the program asked for.
- `OpOk`: what the locals of the call in progress say at each stage: that a chunk returned to
  `realloc` or `memalign` is not a block of the program yet, that the padded request of `memalign` is
  what its cuts assume, that `sysmalloc` is called only when top is too small.

None of the properties would do alone. That no test stops a legal program (`NoAbort`) needs
that boundary tags agree on both sides of every chunk, which needs that nothing is lost or on two lists,
and that in turn that the arena only writes headers in its own memory.

There is one lemma for each action (`MallocKeeps` to `ForeignSbrkKeeps`; `NextKeeps` puts them
together). The long ones are those in which a free happens in the middle of something else:

- `MoveTopIs`, `MorecoreKeeps`, `MmapFallbackKeeps`: top moves, the old one ends in two fenceposts, and
  what is left of it is freed, which may trim the new top. `Gap` keeps `system_mem` the distance to
  the end of top, and `TopBelow` is why that is never negative.
- `ReallocInPlaceKeeps`, `ReallocJoinKeeps`: the next chunk, free, top, or just allocated, is absorbed and
  the rest is freed (`AbsorbIs`, `StretchIs`, `AbsorbTailIs`).
- `MemalignCutKeeps`: the front is freed, then the tail, whose neighbour the first free may have
  changed (`LeadIs`, `FreeTailIs`).
- `SystrimIs`, `ExtraIs`: the unsigned arithmetic. With top at its minimum `top_area` is -1 and the pages to
  release come out negative: the break moves up (the finding `main_trim`), but the arena stays sound.

`MainImplementsAllocator` is the refinement of `Allocator`: `BlocksApart` for the state, and
`MovesImplement` for the steps, each of which gives, drops or swaps one block, or none (`NextMoves`).
`MainNoLeak` counts: a list of a bin has as many members as entries (`BinCount`), and every header is
that of a free chunk, a block, a fencepost or top (`GoodUses`).

`MainGrowthSuffices` is by a second invariant, `Reached`, on top of `IInv`. Between obtaining memory and
serving the request `sysmalloc` frees the rest of the old top, and that free may trim. `TopLeft` says
that a trim leaves `top_pad`, `TopHolds` that a top below the trim threshold stays as it is, for which
the rest that is freed must not touch the new top (`MergeTopKept`). `RequestIs` bounds what `sysmalloc` asks
for, page rounding and correction included. So the request is served if it is at most `top_pad`, or,
with `top_pad`, two pages below the trim threshold (`Modest`); the second is the case of
`main_foreign`, where `TopPad` is 0.

Assumed of the constants, besides what the code makes of them, is `MemoryAssumption`: that
sizes of memory can be binned, and that no distance in it comes near the width of a word, so that
unsigned arithmetic wraps only where it is meant to. With it goes that a `pad` of `malloc_trim` lies
in the lower half of `size_t`; a larger one, when top is at its minimum, is below a `top_area` of
-1 and makes `systrim` give back memory in use. `PROJECT.json` has that line among the hazards.

### What is out of reach

The library's induction theorems take an operator as a parameter, which the provers here cannot
instantiate. `NumberLemmas` gets around this for numbers: it derives from the well-foundedness of `<`
that a *set* of numbers with 0 and closed under successor is `Nat`, and a predicate is then
proved through the set of the numbers that have it. `Sum`, a recursion over a finite set, is defined
there and shown to be what one adds and removes (`SumAdd`, `SumRemove`, `SumChange`).
Nothing of this kind is possible for `RECURSIVE` operators, which the theorem modules do not use.

Only model-checked:

- `Arena`: everything about the heaps of the other arenas (`HeapsEndWell`, and in them the
  properties that are proved for main_arena), for `HeapTrim` is a recursion over heaps. In
  main_arena, `StatePassesChecks`, which asks more than `IInv` (the exact accounts, the order in the
  bins, the walk of `do_check_remalloced_chunk` as a recursive function); `TopIsLastResort`;
  `ResultPassesChecks` and `CallocClears`.
- The list programs and the large bin (`ListsSound`, `SkipExact`), whose invariants are about the
  paths along the links, and `Experiments`, which are single executions.
- `CallSizesSound`: it is about powers of two and `clz`, and the provers have no facts of `^`.
- The refinements but that of `Allocator`: their abstractions are computed by these same walks.
- Liveness, `CallsEnd` and `ForkReturns` included: TLAPS does neither fairness nor `ENABLED`.

## 5. Plan

Done, in this order: `ArenaList` with its proofs; `Chunks` and main_arena; `MmapChunks`;
`SizeClasses` with its proofs; `Heaps` and the other arenas, `calloc` and the debug checks in
`Arena`; `Tcache`; the list programs and `LargeBin`; `CallSizes` and `Experiments`; statistics,
tunables and `mallopt`; the proofs of locks and limits, of the mapped blocks, of the caches and of the operators of `Chunks`; and
with these, the proofs about main_arena.

Next, to be proved:

1. The same for the other arenas: an `Owned` made of heaps, and `HeapTrim` by induction on their chain.
2. The order in the bins and the `binmap` as parts of `Sound`, for `StatePassesChecks` and
   `TopIsLastResort`.
3. The ring of a large bin against its sequence, by the method of `IsList`.

## 6. Not modelled

- Memory tagging and perturbation: they change bytes of blocks and tags of pointers, which
  nothing modelled here looks at.
- Huge pages: `hugetlb` and `madvise_thp` change where memory comes from and how large its pages
  are. With them on, the page size of each heap differs.
- Printing: the text of `malloc_stats`, `malloc_info` and `dump_heap`; what they read is modelled.
  `malloc_info` reads `system_mem` after it has unlocked the arena; the sums here are of one
  moment.
- `mallopt` of `arena_max`, `arena_test` and `top_pad` at run time: they are constants. A later
  `arena_max` has no effect once the limit has been computed.
- `tcache_count`, `tcache_unsorted_limit`: a constant, and no limit.
- A program that frees what it does not own. The double-free tests of the code are modelled;
  that they find every double free is not claimed, nor does the code claim it.
- Other code that moves the break back; mmap of memory at addresses below an arena.
- `annotated-src`: the same code a second time. A model of it would be the same model.
