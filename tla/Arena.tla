------------------------------- MODULE Arena -------------------------------
(***************************************************************************)
(* malloc, calloc, free, realloc, memalign, malloc_trim and the statistics  *)
(* of one arena, as the owner of its mutex runs them (upstream-src/         *)
(* malloc.c): main_arena with the process break under it, which other code  *)
(* may move between two calls, or another arena with its heaps. A call of   *)
(* _int_malloc is a sequence of steps, one per stage of the search; calloc, *)
(* realloc and memalign go on from its result. Blocks served by mmap belong *)
(* to no arena and leave the model.                                         *)
(*                                                                          *)
(* A definition whose name ends in _slip or _joins is a plausible mistake   *)
(* in the one that follows it; nothing uses it but the check of the         *)
(* properties.                                                              *)
(***************************************************************************)
EXTENDS Heaps

CONSTANTS
  MainArena,      \* {TRUE}, or BOOLEAN: which arenas are looked at
  Requests,       \* request sizes, after request2size
  Clears,         \* request sizes of calloc
  Contents,       \* whether the model follows what memory holds
  Retries,        \* whether calloc's retry may come back to main_arena
  Alignments,     \* alignments of memalign, powers of two above MinSize
  TrimPads,       \* arguments of malloc_trim
  AttemptTrim,    \* ATTEMPT_TRIMMING_THRESHOLD
  MmapThreshold,  \* mp_.mmap_threshold
  MorecoreMin,    \* MMAP_AS_MORECORE_SIZE
  MaxIters,       \* MAX_ITERS
  Word,           \* 2^64
  FirstBrk,       \* the break when the process starts
  MaxBrk,         \* bound of the model: where the break meets something
  SysOutcomes,   \* {TRUE}, or BOOLEAN: sbrk, mmap and mprotect may also fail
  ForeignIncs,    \* increments by which other code moves the break
  MapBase, MaxMap \* bound of the model: where mmap finds room for an arena

ASSUME ArenaAssumption ==
  /\ MainArena \subseteq BOOLEAN /\ Retries \in BOOLEAN /\ Contents \in BOOLEAN
  /\ FirstBrk \in Nat \ {InitialTop} /\ MaxBrk < MapBase
  /\ Word % Page = 0 /\ Word > 2 * MaxMap
  /\ Requests \cup Clears \subseteq Sizes /\ SysOutcomes \subseteq BOOLEAN

(* Sizes that may occur can be binned, and no distance in memory, a pad of  *)
(* malloc_trim included, comes near the width of a word.                    *)
ASSUME MemoryAssumption ==
  /\ MinSize <= Page
  /\ FirstBrk <= MaxBrk /\ MaxBrk \in Nat /\ MapBase \in Nat /\ MaxMap \in Nat /\ MapBase <= MaxMap
  /\ 2 .. MaxBrk - FirstBrk \subseteq Sizes /\ 2 .. MaxMap - MapBase \subseteq Sizes
  /\ \A al \in Alignments, nb \in Requests : al \in Nat \ {0} /\ nb + al + MinSize + Hdr \in Sizes
  /\ Word \in Nat /\ \A pad \in TrimPads \cup {TopPad} : pad \in Nat /\ pad + Page <= Word \div 2
  /\ ForeignIncs \subseteq Nat /\ MorecoreMin \in Nat

VARIABLES
  av,        \* the arena and the break
  sbrkBase,  \* mp_.sbrk_base, 0 when null
  mapEnd,    \* end of the regions mapped in place of sbrk
  foreign,   \* memory other code got from sbrk
  live,      \* blocks the program owns: chunk to request
  pc,        \* stage of the call in progress
  op,        \* its arguments and locals
  waiting,   \* op of a calloc that has unlocked the arena to try again
  dirty      \* memory that may hold something else than zeros

vars == <<av, sbrkBase, mapEnd, foreign, live, pc, op, waiting, dirty>>
system == <<sbrkBase, mapEnd, foreign, waiting>>

Signed(x)       == IF x >= Word \div 2 THEN x - Word ELSE x

NoOp == [kind |-> "none", nb |-> 0, want |-> 0, old |-> 0, align |-> 0,
         ret |-> 0, iters |-> 0, grown |-> FALSE, top |-> 0, topSize |-> 0, again |-> FALSE]

(* malloc_init_state *)
Blank(main) ==
  [chunk  |-> [p \in {InitialTop} |-> [size |-> 0, pinuse |-> FALSE, prev |-> 0]],
   bins   |-> [i \in 1 .. NBins |-> <<>>], binmap |-> {},
   top |-> InitialTop, last |-> 0, contig |-> main, sysmem |-> 0, maxmem |-> 0,
   brk |-> FirstBrk, bad |-> FALSE,
   main |-> main, heaps |-> [h \in {} |-> 0], shrinks |-> FALSE]

Created(nb) ==
  UNION { NewArenas([DropHead(Blank(FALSE), InitialTop) EXCEPT !.shrinks = s], nb, SysOutcomes) :
          s \in MayShrink }

Init ==
  /\ \/ TRUE \in MainArena /\ av = Blank(TRUE)
     \/ FALSE \in MainArena /\ \E nb \in Requests : av \in Created(nb)
  /\ sbrkBase = 0 /\ mapEnd = MapBase /\ foreign = {}
  /\ live = [p \in {} |-> 0]
  /\ pc = "idle" /\ op = NoOp /\ waiting = {} /\ dirty = {}

----------------------------------------------------------------------------
(* Giving memory back. *)

GiveBack(a, extra) ==
  [SetHead(a, a.top, TopSize(a) - extra, TRUE) EXCEPT !.brk = @ - extra, !.sysmem = @ - extra]

(* systrim, in the unsigned arithmetic of size_t pad. *)
Systrim(a, pad, ok) ==
  LET topArea == (TopSize(a) - MinSize - 1) % Word
      extra   == Signed(AlignDown((topArea - pad) % Word, Page))
  IN IF topArea <= pad \/ extra = 0 \/ a.brk # TopEnd(a) \/ ~ ok \/ a.brk - extra > MaxBrk
     THEN a
     ELSE GiveBack(a, extra)

(* _int_free_maybe_trim, then: free of a chunk from the first test on. The  *)
(* value is the set of the arenas it may leave.                             *)
MaybeTrim(a, size) ==
  IF size < AttemptTrim THEN {a}
  ELSE IF ~ a.main THEN HeapTrim(a, TopPad, SysOutcomes)
  ELSE IF TopSize(a) >= TrimThreshold THEN { Systrim(a, TopPad, ok) : ok \in SysOutcomes } ELSE {a}
FreeChunk(a, p, sz) ==
  IF FreeChecks(a, p, sz)
  THEN UNION { MaybeTrim(r.av, r.size) : r \in {MergeChunk(a, p, sz)} }
  ELSE {[a EXCEPT !.bad = TRUE]}

----------------------------------------------------------------------------
(* How a call goes on and ends. *)

Step(from, to) == pc = from /\ pc' = to

(* malloc_printerr: a consistency test failed and the process stops. *)
Abort == av' = [av EXCEPT !.bad = TRUE] /\ UNCHANGED <<live, pc, op>>

(* _int_malloc returns chunk p; malloc and calloc are done, realloc and memalign go on. *)
Return(p) ==
  IF op.kind \in {"malloc", "calloc"}
  THEN /\ pc' = "idle" /\ op' = NoOp
       /\ live' = [q \in DOMAIN live \cup {p} |-> IF q = p THEN op.want ELSE live[q]]
  ELSE pc' = op.kind /\ op' = [op EXCEPT !.ret = p] /\ UNCHANGED live

(* The call is over; the program owns the blocks of l. *)
Finish(l) == pc' = "idle" /\ op' = NoOp /\ live' = l

Drop(f, p) == [q \in DOMAIN f \ {p} |-> f[q]]
Give(f, p, n) == [q \in DOMAIN f \cup {p} |-> IF q = p THEN n ELSE f[q]]

----------------------------------------------------------------------------
(* _int_malloc *)

Malloc(nb) ==
  /\ Step("idle", "malloc")
  /\ op' = [NoOp EXCEPT !.kind = "malloc", !.nb = nb, !.want = nb]
  /\ UNCHANGED <<av, system, live>>

Small == InSmallbinRange(op.nb)
Index == BinIndex[op.nb]

SmallbinHit ==
  /\ pc = "malloc" /\ Small /\ av.bins[Index] # <<>>
  /\ LET v == Last(av.bins[Index])
     IN /\ av' = SetInUseBit([av EXCEPT !.bins[Index] = Front(@)], v + op.nb)
        /\ Return(v)
  /\ UNCHANGED system

SmallbinMiss ==
  /\ Step("malloc", "unsorted") /\ (Small => av.bins[Index] = <<>>)
  /\ UNCHANGED <<av, system, live, op>>

UnsortedChecks(v) ==
  /\ SizeOf(av, v) > Hdr /\ SizeOf(av, v) <= av.sysmem
  /\ NextOf(av, v) \in DOMAIN av.chunk
  /\ SizeOf(av, NextOf(av, v)) >= Hdr /\ SizeOf(av, NextOf(av, v)) <= av.sysmem
  /\ av.chunk[NextOf(av, v)].prev = SizeOf(av, v)
  /\ ~ InUse(av, v)

(* The one exception to best fit: the remainder of the last small split. *)
UseLastRemainder(v) ==
  /\ Small /\ Len(av.bins[Unsorted]) = 1 /\ v = av.last
  /\ SizeOf(av, v) > op.nb + MinSize

Unqueue == [av EXCEPT !.bins[Unsorted] = Front(@)]

SplitLastRemainder(v) ==
  /\ UseLastRemainder(v)
  /\ av' = [TakeVictim(Unqueue, v, op.nb) EXCEPT !.last = v + op.nb]
  /\ Return(v)

ExactFit(v) ==
  /\ ~ UseLastRemainder(v) /\ SizeOf(av, v) = op.nb
  /\ av' = SetInUseBit(Unqueue, v + op.nb)
  /\ Return(v)

BinChunk(v) ==
  /\ ~ UseLastRemainder(v) /\ SizeOf(av, v) # op.nb
  /\ av' = PlaceInBin(Unqueue, v)
  /\ op' = [op EXCEPT !.iters = @ + 1]
  /\ pc' = IF op'.iters >= MaxIters THEN "fit" ELSE "unsorted"
  /\ UNCHANGED live

(* One turn of the loop over the unsorted list, from its back. *)
ProcessUnsorted ==
  /\ pc = "unsorted" /\ av.bins[Unsorted] # <<>>
  /\ LET v == Last(av.bins[Unsorted])
     IN IF UnsortedChecks(v)
        THEN SplitLastRemainder(v) \/ ExactFit(v) \/ BinChunk(v)
        ELSE Abort
  /\ UNCHANGED system

UnsortedDone ==
  /\ Step("unsorted", "fit") /\ av.bins[Unsorted] = <<>>
  /\ UNCHANGED <<av, system, live, op>>

(* A large request searches its own bin first, whose head is its largest. *)
FitsInBin == ~ Small /\ av.bins[Index] # <<>> /\ SizeOf(av, Head(av.bins[Index])) >= op.nb

TakeBest(v, a) ==
  IF UnlinkChecks(av, v)
  THEN av' = TakeVictim(Unlink(a, v), v, op.nb) /\ Return(v)
  ELSE Abort

LargeFit ==
  /\ pc = "fit" /\ FitsInBin
  /\ TakeBest(LargeVictim(av, Index, op.nb), av)
  /\ UNCHANGED system

NoLargeFit ==
  /\ Step("fit", "scan") /\ ~ FitsInBin
  /\ UNCHANGED <<av, system, live, op>>

(* The bins above, by the binmap; a small split sets last_remainder. *)
ScanFit ==
  /\ pc = "scan" /\ ScanBin(av, Index) # 0
  /\ LET v == Last(av.bins[ScanBin(av, Index)])
         rest == SizeOf(av, v) - op.nb
     IN TakeBest(v, [av EXCEPT !.binmap = ScanBinmap(av, Index),
                               !.last = IF Small /\ rest >= MinSize THEN v + op.nb ELSE @])
  /\ UNCHANGED system

ScanMiss ==
  /\ Step("scan", "top") /\ ScanBin(av, Index) = 0
  /\ av' = [av EXCEPT !.binmap = ScanBinmap(av, Index)]
  /\ UNCHANGED <<system, live, op>>

(* Room for nb and for the top that must remain. *)
TopServes(nb) == TopSize(av) >= nb + MinSize

UseTop ==
  /\ pc = "top"
  /\ IF TopSize(av) > av.sysmem THEN Abort
     ELSE TopServes(op.nb) /\ av' = TakeFromTop(av, op.nb) /\ Return(av.top)
  /\ UNCHANGED system

TopTooSmall ==
  /\ Step("top", "sysmalloc") /\ ~ TopServes(op.nb) /\ TopSize(av) <= av.sysmem
  /\ UNCHANGED <<av, system, live, op>>

----------------------------------------------------------------------------
(* sysmalloc *)

(* A heap grows by what is missing; mprotect may refuse.                    *)
Missing == MinSize + op.nb - TopSize(av)
HeapGrows ==
  FitsHeap(av, Missing) /\ (NeedsMprotect(av, Missing) => TRUE \in SysOutcomes)
HeapStays ==
  FitsHeap(av, Missing) => NeedsMprotect(av, Missing) /\ FALSE \in SysOutcomes
NewHeapNeed == op.nb + MinSize + HeapInfo
NoNewHeap == Room(av, NewHeapNeed) = {} \/ FALSE \in SysOutcomes

(* Beyond the mmap threshold, or when no heap gives room, the block is      *)
(* mapped on its own and is no chunk here; realloc goes on with a result    *)
(* outside the arena (0).                                                   *)
MmapServes ==
  /\ pc = "sysmalloc" /\ (op.nb >= MmapThreshold \/ (~ av.main /\ HeapStays /\ NoNewHeap))
  /\ IF op.kind = "realloc"
     THEN pc' = "realloc" /\ op' = [op EXCEPT !.ret = 0]
     ELSE pc' = "idle" /\ op' = NoOp
  /\ UNCHANGED <<av, system, live>>

SbrkRequest_joins == AlignUp(op.nb + TopPad + MinSize - TopSize(av), Page)
SbrkRequest ==
  AlignUp(op.nb + TopPad + MinSize - (IF av.contig THEN TopSize(av) ELSE 0), Page)

(* After the new memory is there, all of what was asked for or not, the      *)
(* allocation is tried once more.                                           *)
Obtained(a, all) ==
  /\ av' = [a EXCEPT !.maxmem = IF a.sysmem > @ THEN a.sysmem ELSE @]
  /\ pc' = "sys_alloc" /\ op' = [op EXCEPT !.grown = all]
  /\ UNCHANGED live
Grown(a, brk, all) == Obtained(a, all) /\ sbrkBase' = IF sbrkBase = 0 THEN brk ELSE sbrkBase

FreeOldTop(a, old, left) == IF left >= MinSize THEN FreeChunk(a, old, left) ELSE {a}

(* A new top at brk that the old one cannot be joined with: two fenceposts  *)
(* end the old top, and what is left of it is freed.                        *)
MoveTop(a, brk, size) ==
  LET new  == [SetHead(a, brk, size, TRUE) EXCEPT !.top = brk]
      old  == a.top
      left == TopSize(a) - 2 * Hdr
      fenced == SetHead(SetHead(SetHead(new, old, left, TRUE), old + left, Hdr, TRUE),
                        old + left + Hdr, Hdr, TRUE)
  IN IF TopSize(a) = 0 THEN {DropHead(new, old)}
     ELSE UNION { FreeOldTop(b, old, left) : b \in {fenced} }

GrowsHeap ==
  /\ pc = "sysmalloc" /\ ~ av.main /\ HeapGrows
  /\ LET a == GrowHeap(av, Missing)
     IN Obtained(SetHead(a, a.top, HeapEnd(a, NewestHeap(a)) - a.top, TRUE), TRUE)
  /\ UNCHANGED system

(* A heap of its own for the new top; what is left of the old top is freed, *)
(* and that may trim the heaps again.                                       *)
AddsHeap ==
  /\ pc = "sysmalloc" /\ ~ av.main /\ HeapStays
  /\ \E b \in Room(av, NewHeapNeed) :
     \E fenced \in {FenceHeap(AddHeap(av, b, NewHeapNeed, NewestHeap(av), HeapInfo),
                              av.top, FencedRest(av))} :
     \E a \in FreeOldTop(fenced, av.top, FencedRest(av)) : Obtained(a, TRUE)
  /\ UNCHANGED system

Extends_slip(brk) == av.contig /\ TopSize(av) # 0
Extends(brk) == brk = TopEnd(av)

(* Foreign memory between top and new memory counts as system memory. *)
Gap_slip(brk) == 0
Gap(brk) == IF av.contig /\ TopSize(av) # 0 THEN brk - TopEnd(av) ELSE 0

(* MORECORE gives size more. If the break is not at the end of top, someone *)
(* else has moved it: a second MORECORE makes room for all of the request   *)
(* up to a page boundary, as far as it can.                                 *)
Morecore ==
  /\ pc = "sysmalloc" /\ av.main
  /\ LET size    == SbrkRequest
         brk     == av.brk
         taken   == [av EXCEPT !.brk = @ + size, !.sysmem = @ + size]
         correct == IF av.contig
                    THEN AlignUp(brk + size + TopSize(av), Page) - (brk + size) ELSE 0
     IN /\ brk + size <= MaxBrk
        /\ IF Extends(brk)
           THEN Grown(SetHead(taken, av.top, TopSize(av) + size, TRUE), brk, TRUE)
           ELSE IF av.contig /\ TopSize(av) # 0 /\ brk < TopEnd(av)
           THEN Abort /\ UNCHANGED sbrkBase
           ELSE \E more \in SysOutcomes :
                  LET extra == IF more /\ brk + size + correct <= MaxBrk THEN correct ELSE 0
                      all   == [taken EXCEPT !.brk = @ + extra, !.sysmem = @ + Gap(brk) + extra]
                  IN \E a \in MoveTop(all, brk, size + extra) : Grown(a, brk, extra = correct)
  /\ UNCHANGED <<mapEnd, foreign, waiting>>

MorecoreFails == av.brk + SbrkRequest > MaxBrk \/ FALSE \in SysOutcomes

(* sysmalloc_mmap_fallback: a mapping stands in for the break, and from now *)
(* on nothing is assumed about where the next region lies.                  *)
MmapFallback ==
  /\ pc = "sysmalloc" /\ av.main /\ MorecoreFails
  /\ LET up   == AlignUp(op.nb + TopPad + MinSize, Page)
         size == IF up < MorecoreMin THEN MorecoreMin ELSE up
     IN /\ mapEnd + size <= MaxMap
        /\ mapEnd' = mapEnd + size
        /\ \E a \in MoveTop([av EXCEPT !.contig = FALSE, !.sysmem = @ + size], mapEnd, size) :
             Grown(a, mapEnd, TRUE)
  /\ UNCHANGED <<foreign, waiting>>

(* Neither sbrk, a heap nor mmap gave anything. *)
NoMemory ==
  /\ Step("sysmalloc", "sys_alloc")
  /\ IF av.main THEN MorecoreFails ELSE HeapStays /\ NoNewHeap
  /\ UNCHANGED <<av, system, live, op>>

SysAllocate ==
  /\ pc = "sys_alloc" /\ TopServes(op.nb)
  /\ av' = TakeFromTop(av, op.nb)
  /\ Return(av.top)
  /\ UNCHANGED system

(* ENOMEM, in this arena and in any other; realloc keeps the old block.     *)
SysFails ==
  /\ pc = "sys_alloc" /\ ~ TopServes(op.nb)
  /\ Finish(live)
  /\ UNCHANGED <<av, system>>

----------------------------------------------------------------------------
(* calloc clears the block, except what it takes to be fresh from the       *)
(* system: if the block is where top was, what lies beyond the end that top *)
(* had, or that main_arena or the heap ever had.                            *)

EverUsed(a) ==
  IF a.main THEN (sbrkBase + a.maxmem - a.top) % Word
  ELSE NewestHeap(a) + a.heaps[NewestHeap(a)].prot - a.top
OldTopSize_slip(a) == TopSize(a)
OldTopSize(a) == IF TopSize(a) < EverUsed(a) THEN EverUsed(a) ELSE TopSize(a)

Calloc(nb) ==
  /\ Step("idle", "malloc")
  /\ op' = [NoOp EXCEPT !.kind = "calloc", !.nb = nb, !.want = nb,
                        !.top = av.top, !.topSize = OldTopSize(av)]
  /\ UNCHANGED <<av, system, live>>

Cleared(p, sz) == p .. p + (IF p = op.top /\ sz > op.topSize THEN op.topSize ELSE sz) - 1

(* There was no memory: calloc unlocks the arena and tries another, but     *)
(* after main_arena that may be main_arena again (arena_get_retry), with    *)
(* what it had noted of top before.                                         *)
CallocWaits ==
  /\ Step("sys_alloc", "idle") /\ ~ TopServes(op.nb)
  /\ op.kind = "calloc" /\ av.main /\ Retries /\ ~ op.again /\ waiting = {}
  /\ waiting' = {[op EXCEPT !.again = TRUE, !.iters = 0, !.grown = FALSE]}
  /\ op' = NoOp
  /\ UNCHANGED <<av, sbrkBase, mapEnd, foreign, live>>

CallocRetries ==
  /\ Step("idle", "malloc")
  /\ op' \in waiting /\ waiting' = {}
  /\ UNCHANGED <<av, sbrkBase, mapEnd, foreign, live>>

(* What the program, the headers and the list links may have written. The   *)
(* memory of a heap is fresh again when it was unmapped or made             *)
(* inaccessible; the break may come back to memory that is not.             *)
Written ==
  LET a == av'
      links == UNION { { a.bins[i][k] + Hdr : k \in DOMAIN a.bins[i] } : i \in DOMAIN a.bins }
      data  == UNION { p + Hdr .. NextOf(a, p) - 1 : p \in DOMAIN live' }
      kept(x) == a.main \/ \E h \in DOMAIN a.heaps : h <= x /\ x < h + a.heaps[h].prot
  IN IF ~ Contents \/ a.bad THEN dirty
     ELSE { x \in dirty \cup DOMAIN a.chunk \cup links \cup data : kept(x) }

----------------------------------------------------------------------------
(* free of a block of this arena. *)

Free(p) ==
  /\ pc = "idle"
  /\ av' \in FreeChunk(av, p, SizeOf(av, p))
  /\ Finish(Drop(live, p))
  /\ UNCHANGED system

----------------------------------------------------------------------------
(* _int_realloc *)

(* Cut the in-use chunk p of size sz down to nb, if the rest makes a chunk. *)
CutTail(a, p, sz, nb) ==
  LET r == p + nb
      whole == SetHead(a, p, sz, PrevInUse(a, p))
      parts == SetHead(SetHead(a, p, nb, PrevInUse(a, p)), r, sz - nb, TRUE)
  IN IF sz - nb < MinSize THEN {SetInUseBit(whole, p + sz)}
     ELSE UNION { FreeChunk(b, r, sz - nb) : b \in {SetInUseBit(parts, p + sz)} }

ReallocChecks(p) ==
  LET next == NextOf(av, p)
  IN /\ SizeOf(av, p) > Hdr /\ SizeOf(av, p) < av.sysmem
     /\ SizeOf(av, next) > Hdr \/ (SizeOf(av, next) = Hdr /\ PrevInUse(av, next))
     /\ SizeOf(av, next) < av.sysmem

(* The block stays where it is: it is large enough, or top or a free chunk  *)
(* behind it makes it so.                                                   *)
ReallocInPlace(p, nb) ==
  LET sz   == SizeOf(av, p)
      next == NextOf(av, p)
      both == sz + SizeOf(av, next)
  IN /\ pc = "idle" /\ ReallocChecks(p)
     /\ \/ sz >= nb /\ av' \in CutTail(av, p, sz, nb)
        \/ /\ sz < nb /\ next = av.top /\ both >= nb + MinSize
           /\ av' = [SetHead(SetHead(DropHead(av, next), p, nb, PrevInUse(av, p)),
                             p + nb, both - nb, TRUE) EXCEPT !.top = p + nb]
        \/ /\ sz < nb /\ next # av.top /\ ~ InUse(av, next) /\ both >= nb
           /\ IF UnlinkChecks(av, next)
              THEN \E a \in {DropHead(Unlink(av, next), next)} : av' \in CutTail(a, p, both, nb)
              ELSE av' = [av EXCEPT !.bad = TRUE]
     /\ Finish(Give(live, p, nb))
     /\ UNCHANGED system

(* Otherwise a new block is allocated first; a failed test stops either. *)
ReallocMoves(p, nb) ==
  LET next == NextOf(av, p)
      both == SizeOf(av, p) + SizeOf(av, next)
  IN /\ pc = "idle"
     /\ IF ~ ReallocChecks(p) THEN Abort
        ELSE /\ SizeOf(av, p) < nb
             /\ ~ (next = av.top /\ both >= nb + MinSize)
             /\ ~ (next # av.top /\ ~ InUse(av, next) /\ both >= nb)
             /\ pc' = "malloc"
             /\ op' = [NoOp EXCEPT !.kind = "realloc", !.nb = nb, !.want = nb, !.old = p]
             /\ UNCHANGED <<av, live>>
     /\ UNCHANGED system

(* There was no memory for a new block here, but another arena has some.    *)
ReallocElsewhere ==
  /\ Step("sys_alloc", "realloc") /\ ~ TopServes(op.nb) /\ op.kind = "realloc"
  /\ op' = [op EXCEPT !.ret = 0]
  /\ UNCHANGED <<av, system, live>>

Adjoins_slip(p, q) == q > p
Adjoins(p, q) == q = NextOf(av, p)

(* A new chunk right behind the old one is joined to it instead of copying. *)
ReallocJoin ==
  /\ pc = "realloc" /\ Adjoins(op.old, op.ret)
  /\ LET p  == op.old
         sz == SizeOf(av, p) + SizeOf(av, op.ret)
     IN \E a \in {DropHead(av, op.ret)} : av' \in CutTail(a, p, sz, op.nb)
  /\ Finish(Give(live, op.old, op.want))
  /\ UNCHANGED system

ReallocCopy_slip ==
  /\ pc = "realloc" /\ ~ Adjoins(op.old, op.ret)
  /\ Finish(IF op.ret = 0 THEN Drop(live, op.old)
            ELSE Give(Drop(live, op.old), op.ret, op.want))
  /\ UNCHANGED <<av, system>>

ReallocCopy ==
  /\ pc = "realloc" /\ ~ Adjoins(op.old, op.ret)
  /\ av' \in FreeChunk(av, op.old, SizeOf(av, op.old))
  /\ Finish(IF op.ret = 0 THEN Drop(live, op.old)
            ELSE Give(Drop(live, op.old), op.ret, op.want))
  /\ UNCHANGED system

----------------------------------------------------------------------------
(* _int_memalign: a padded block, whose unaligned front and spare end are   *)
(* freed again. The padded request grows by the header a second time.       *)

Memalign(al, nb) ==
  /\ Step("idle", "malloc")
  /\ op' = [NoOp EXCEPT !.kind = "memalign", !.nb = nb + al + MinSize + Hdr, !.want = nb,
                        !.align = al]
  /\ UNCHANGED <<av, system, live>>

Aligned(p, al) == (p + Hdr) % al = 0

AlignedChunk_slip(p, al) ==
  IF Aligned(p, al) THEN p ELSE AlignUp(p + MinSize, al)
AlignedChunk(p, al) ==
  IF Aligned(p, al) THEN p ELSE AlignUp(p + Hdr + MinSize, al) - Hdr

(* The chunk at q that is left when the front of p, up to q, is split off.  *)
SplitLead(p, q, size) ==
  SetHead(SetInUseBit(SetHead(av, q, size, TRUE), q + size), p, q - p, PrevInUse(av, p))

FreeLead(p, q, size) ==
  IF p = q THEN {av} ELSE UNION { FreeChunk(a, p, q - p) : a \in {SplitLead(p, q, size)} }

FreeTail(a, q, size) ==
  IF size - op.want < MinSize THEN {a}
  ELSE LET cut == SetHead(a, q, op.want, PrevInUse(a, q))
       IN UNION { MaybeTrim(r.av, r.size) : r \in {CreateChunk(cut, q + op.want, size - op.want)} }

MemalignCut ==
  /\ pc = "memalign"
  /\ LET p    == op.ret
         q    == AlignedChunk(p, op.align)
         size == SizeOf(av, p) - (q - p)
     IN /\ \E a \in FreeLead(p, q, size) : av' \in FreeTail(a, q, size)
        /\ Finish(Give(live, q, op.want))
  /\ UNCHANGED system

----------------------------------------------------------------------------
(* malloc_trim: the pages inside free chunks are advised away, which        *)
(* changes no chunk, and the end of top is given back.                      *)
Trim(pad) ==
  /\ pc = "idle" /\ av.main
  /\ \E ok \in SysOutcomes : av' = Systrim(av, pad, ok)
  /\ UNCHANGED <<system, live, pc, op>>

(* Code outside the allocator moves the break. *)
ForeignSbrk(inc) ==
  /\ pc = "idle" /\ av.main
  /\ av.brk + inc <= MaxBrk
  /\ av' = [av EXCEPT !.brk = @ + inc]
  /\ foreign' = foreign \cup (av.brk .. av.brk + inc - 1)
  /\ UNCHANGED <<sbrkBase, mapEnd, waiting, live, pc, op>>

----------------------------------------------------------------------------
(* The checks of a build with MALLOC_DEBUG (do_check_chunk and the others), *)
(* without those of the nextsize links, which are LargeBin's subject.      *)

CheckChunk(a, p) ==
  IF p = a.top THEN SizeOf(a, p) >= MinSize /\ PrevInUse(a, p)
  ELSE a.contig => p >= TopEnd(a) - a.sysmem /\ NextOf(a, p) <= a.top

CheckFreeChunk(a, p) ==
  LET next == NextOf(a, p)
  IN /\ CheckChunk(a, p) /\ ~ InUse(a, p)
     /\ SizeOf(a, p) >= MinSize /\ a.chunk[next].prev = SizeOf(a, p) /\ PrevInUse(a, p)
     /\ next = a.top \/ InUse(a, next)
     /\ \E i \in DOMAIN a.bins : \E k \in DOMAIN a.bins[i] : a.bins[i][k] = p

CheckInuseChunk(a, p) ==
  LET next == NextOf(a, p)
      prev == PrevOf(a, p)
  IN /\ CheckChunk(a, p) /\ InUse(a, p)
     /\ ~ PrevInUse(a, p) => prev \in DOMAIN a.chunk /\ NextOf(a, prev) = p /\ CheckFreeChunk(a, prev)
     /\ IF next = a.top THEN CheckChunk(a, next) ELSE InUse(a, next) \/ CheckFreeChunk(a, next)

CheckMallocedChunk(a, p, nb) ==
  /\ CheckInuseChunk(a, p)
  /\ SizeOf(a, p) >= MinSize /\ SizeOf(a, p) \in nb .. nb + MinSize - 1
  /\ PrevInUse(a, p)

(* The chunks in use that follow p, up to top, a free one or a fencepost.   *)
UsedAfter(a, p) ==
  LET stops(q) == q = a.top \/ ~ InUse(a, q) \/ SizeOf(a, q) < MinSize
      f[n \in 0 .. Cardinality(DOMAIN a.chunk)] ==
        IF n = 0 THEN NextOf(a, p) ELSE IF stops(f[n - 1]) THEN f[n - 1] ELSE NextOf(a, f[n - 1])
  IN { q \in { f[n] : n \in DOMAIN f } : ~ stops(q) }

CheckMallocState(a) ==
  a.top = InitialTop \/
  /\ a.main /\ a.contig => sbrkBase + a.sysmem = TopEnd(a)
  /\ \A i \in 1 .. NBins :
       /\ i # Unsorted /\ i \notin a.binmap => a.bins[i] = <<>>
       /\ \A k \in DOMAIN a.bins[i] :
            LET p == a.bins[i][k]
            IN /\ CheckFreeChunk(a, p)
               /\ i # Unsorted =>
                    /\ BinIndex[SizeOf(a, p)] = i
                    /\ k > 1 => SizeInBin(a, i, k - 1) >= SizeOf(a, p)
               /\ \A q \in UsedAfter(a, p) : CheckInuseChunk(a, q)
  /\ CheckChunk(a, a.top)

(* int_mallinfo *)
Fordblks(a) ==
  TopSize(a) + FoldFunction(LAMBDA b, n : n + FoldSeq(LAMBDA p, m : m + SizeOf(a, p), 0, b), 0, a.bins)
Uordblks(a) == a.sysmem - Fordblks(a)

(* malloc_info: what it reports of a bin, which counts the flag bits of the  *)
(* size fields (chunksize_nomask), and of an arena. Bytes, but for counts.  *)
Unit     == 16   \* MALLOC_ALIGNMENT
FlagBits == 5    \* at most PREV_INUSE and NON_MAIN_ARENA
Reported(a, p) == Unit * SizeOf(a, p) + (IF a.main THEN 1 ELSE FlagBits)
BinInfo(a, i) ==
  LET sizes == { Reported(a, a.bins[i][k]) : k \in DOMAIN a.bins[i] }
  IN [count |-> Len(a.bins[i]),
      total |-> FoldSeq(LAMBDA p, n : Reported(a, p) + n, 0, a.bins[i]),
      from  |-> IF sizes = {} THEN 0 ELSE Min(sizes),
      to    |-> IF sizes = {} THEN 0 ELSE Max(sizes)]
ArenaInfo(a) ==
  LET bins == [i \in DOMAIN a.bins |-> BinInfo(a, i)]
      heaps(size(_)) == FoldFunction(LAMBDA h, n : size(h) + n, 0, a.heaps)
  IN [nblocks  |-> 1 + FoldFunction(LAMBDA b, n : b.count + n, 0, bins),
      rest     |-> Unit * TopSize(a) + FoldFunction(LAMBDA b, n : b.total + n, 0, bins),
      current  |-> Unit * a.sysmem,
      max      |-> Unit * a.maxmem,
      aspace   |-> Unit * (IF a.main THEN a.sysmem ELSE heaps(LAMBDA h : h.size)),
      mprotect |-> Unit * (IF a.main THEN a.sysmem ELSE heaps(LAMBDA h : h.prot))]

----------------------------------------------------------------------------
IntMalloc ==
  \/ SmallbinHit \/ SmallbinMiss \/ ProcessUnsorted \/ UnsortedDone
  \/ LargeFit \/ NoLargeFit \/ ScanFit \/ ScanMiss \/ UseTop \/ TopTooSmall

Sysmalloc ==
  \/ MmapServes \/ GrowsHeap \/ AddsHeap \/ Morecore \/ MmapFallback \/ NoMemory
  \/ SysAllocate \/ SysFails

Realloc ==
  \/ \E p \in DOMAIN live, nb \in Requests : ReallocInPlace(p, nb) \/ ReallocMoves(p, nb)
  \/ ReallocElsewhere \/ ReallocJoin \/ ReallocCopy

Next ==
  /\ ~ av.bad
  /\ \/ \E nb \in Requests : Malloc(nb)
     \/ \E nb \in Clears : Calloc(nb)
     \/ CallocWaits \/ CallocRetries
     \/ IntMalloc \/ Sysmalloc
     \/ \E p \in DOMAIN live : Free(p)
     \/ Realloc
     \/ \E al \in Alignments, nb \in Requests : Memalign(al, nb)
     \/ MemalignCut
     \/ \E pad \in TrimPads : Trim(pad)
     \/ \E inc \in ForeignIncs : ForeignSbrk(inc)
  /\ dirty' = Written

Spec == Init /\ [][Next]_vars

----------------------------------------------------------------------------
Heads == DOMAIN av.chunk
Started == av.top # InitialTop

Binned(i) == { av.bins[i][k] : k \in 1 .. Len(av.bins[i]) }
AllBinned == UNION { Binned(i) : i \in 1 .. NBins }

(* The chunks that are free: neither top nor last before unowned memory,    *)
(* and the header behind says so.                                           *)
FreeChunks == { p \in Heads \ {av.top} : NextOf(av, p) \in Heads /\ ~ InUse(av, p) }
(* Fenceposts and the sliver that may be left in front of them.             *)
Slivers == { p \in Heads \ {av.top} :
             SizeOf(av, p) < MinSize \/ (NextOf(av, p) \in Heads /\ SizeOf(av, NextOf(av, p)) = 0) }
(* Chunks the call in progress holds outside any list. *)
Held == {op.ret} \ {0}

(* No legal sequence of calls, with other code moving the break forward in  *)
(* between, trips one of the consistency tests that end in malloc_printerr. *)
NoAbort == ~ av.bad

(* Chunks tile the memory of the arena: each ends where the next begins, at *)
(* the end of top, or behind a fencepost, and no header lies inside a chunk.*)
ChunksTile ==
  /\ \A p \in Heads \ {av.top} : NextOf(av, p) \in Heads \/ SizeOf(av, p) = Hdr
  /\ \A p, q \in Heads : p < q => NextOf(av, p) <= q

(* No two free chunks touch and none touches top: "no consolidated chunk    *)
(* physically borders another one" (malloc.c:1477).                         *)
NoFreeNeighbours ==
  /\ \A p \in FreeChunks : PrevInUse(av, p) /\ NextOf(av, p) # av.top
  /\ PrevInUse(av, av.top) \/ ~ Started

(* Boundary tags agree: in front of a clear PREV_INUSE bit lies a free      *)
(* chunk whose size is prev_size.                                           *)
FootersAgree ==
  \A p \in Heads \ {InitialTop} : ~ PrevInUse(av, p) =>
    /\ PrevOf(av, p) \in FreeChunks
    /\ SizeOf(av, PrevOf(av, p)) = av.chunk[p].prev

(* All that free and realloc read from the words around a block is right,   *)
(* between any two steps of a call.                                         *)
TagsAgree == ChunksTile /\ NoFreeNeighbours /\ FootersAgree

(* A chunk is free exactly when it is on a list, on one list, once, and     *)
(* that is the unsorted list or the bin of its size.                        *)
FreeIsBinned ==
  /\ FreeChunks = AllBinned
  /\ \A i \in 1 .. NBins :
       /\ Cardinality(Binned(i)) = Len(av.bins[i])
       /\ \A j \in 1 .. NBins : i # j => Binned(i) \cap Binned(j) = {}
       /\ i # Unsorted => \A p \in Binned(i) : BinIndex[SizeOf(av, p)] = i

(* What mallinfo reports as allocated covers the program's blocks and never *)
(* wraps around; malloc_info counts each free chunk once, its bins follow   *)
(* each other in size, and although it adds flag bits to sizes, what it     *)
(* calls free is not more than the arena has. (The arena may have more than *)
(* it is said ever to have had: malloc_trim, as TrimNeverGrows shows it, may *)
(* add to system_mem without regard to max_system_mem.)                     *)
StatisticsAdd ==
  LET info == ArenaInfo(av)
      bins == [i \in DOMAIN av.bins |-> BinInfo(av, i)]
  IN /\ Uordblks(av) >= FoldFunction(+, 0, [p \in DOMAIN live |-> SizeOf(av, p)])
     /\ info.nblocks = 1 + Cardinality(FreeChunks)
     /\ info.rest <= info.current
     /\ info.aspace = info.current /\ info.aspace <= info.mprotect
     /\ \A i, j \in DOMAIN bins \ {Unsorted} :
          i < j /\ bins[i].count # 0 /\ bins[j].count # 0 => bins[i].to < bins[j].from

(* Every chunk is free and on its list, a block the program owns, a         *)
(* fencepost, or in the hands of the call in progress: nothing is lost and  *)
(* nothing handed twice, between any two steps of a call.                   *)
NoLeak ==
  /\ FreeIsBinned
  /\ Heads \ (FreeChunks \cup {av.top} \cup Slivers) = DOMAIN live \cup Held
  /\ DOMAIN live \cap Held = {}

(* Best fit: when a request is about to be cut from top, no free chunk is   *)
(* large enough; when the search of the unsorted list was cut short (4122), *)
(* only what it left on that list may be.                                   *)
TopIsLastResort ==
  pc \in {"top", "sysmalloc"} =>
    \A p \in FreeChunks :
      SizeOf(av, p) >= op.nb => op.iters >= MaxIters /\ p \in ToSet(av.bins[Unsorted])

(* The assertion at the entry of sysmalloc (malloc.c:2386): top is initial, *)
(* or has its room, a used neighbour and a page-aligned end.                *)
SysmallocEntry ==
  pc = "sysmalloc" => \/ ~ Started
                      \/ TopSize(av) >= MinSize /\ PrevInUse(av, av.top) /\ TopEnd(av) % Page = 0

(* "check that one of the above allocation paths succeeded" (malloc.c:2724): *)
(* once sysmalloc has obtained all the memory it asked for, the request is  *)
(* served.                                                                  *)
GrowthSuffices == pc = "sys_alloc" /\ op.grown => TopSize(av) >= op.nb + MinSize

(* main_arena lives in memory it got itself: no chunk, not even top, covers *)
(* memory other code got from sbrk, or reaches past the break or the        *)
(* mapping.                                                                 *)
OwnMemoryOnly ==
  \A p \in Heads \ {InitialTop} :
    av.main => /\ \A x \in foreign : ~ (p <= x /\ x < NextOf(av, p))
               /\ NextOf(av, p) <= av.brk \/ (MapBase <= p /\ NextOf(av, p) <= mapEnd)

(* The chain of heaps: system_mem is what they hold, top is the end of the  *)
(* newest and every other one ends with the fencepost heap_trim relies on   *)
(* ("must be fencepost", arena.c:547), so heap_trim can take the newest     *)
(* away at any free.                                                        *)
HeapsEndWell ==
  ~ av.main =>
    LET newest == NewestHeap(av)
    IN /\ newest \in DOMAIN av.heaps /\ TopEnd(av) = HeapEnd(av, newest)
       /\ av.sysmem = FoldFunction(LAMBDA h, n : h.size + n, 0, av.heaps)
       /\ \A h \in DOMAIN av.heaps :
            /\ av.heaps[h].size <= av.heaps[h].prot
            /\ \A p \in Heads : p < HeapEnd(av, h) => p < h \/ NextOf(av, p) <= HeapEnd(av, h)
            /\ h # newest => /\ HeapEnd(av, h) - Hdr \in Heads
                             /\ SizeOf(av, HeapEnd(av, h) - Hdr) = 0
                             /\ \E g \in DOMAIN av.heaps : av.heaps[g].prev = h

(* Between calls the arena passes the checks of a debugging build, in       *)
(* particular: chunks in the right bin, large bins sorted, footers right,   *)
(* free chunks consolidated, and all memory from sbrk_base to the end of    *)
(* top accounted for; and the sums of malloc.c:4873 and 5408 add up.        *)
StatePassesChecks == pc = "idle" /\ ~ av.bad => CheckMallocState(av) /\ StatisticsAdd

(* Every block that malloc and calloc return passes the check of a          *)
(* debugging build: it fits, and borders a chunk in use or the base of its  *)
(* memory. Every block of memalign is in use, is "aligned in accord with    *)
(* the alignment argument" (malloc.c:634) and holds the request, whichever  *)
(* pieces it was cut from.                                                  *)
ResultPassesChecks ==
  [][\A p \in DOMAIN live' \ DOMAIN live :
       CASE op.kind \in {"malloc", "calloc"} -> CheckMallocedChunk(av', p, op.want)
         [] op.kind = "memalign" -> /\ CheckInuseChunk(av', p) /\ Aligned(p, op.align)
                                    /\ SizeOf(av', p) >= op.want
         [] OTHER -> TRUE]_vars

(* "with all locations set to zero" (malloc.c:598): what calloc does not    *)
(* clear of a block it returns, nobody has written since the system gave it.*)
Zeroed == \A p \in DOMAIN live' \ DOMAIN live :
            ((p + Hdr .. NextOf(av', p) - 1) \ Cleared(p, SizeOf(av', p))) \cap dirty = {}
CallocClears == [][op.kind = "calloc" /\ ~ op.again => Zeroed]_vars

(* The same of a calloc that found no memory and tried again.               *)
CallocRetryClears == [][op.kind = "calloc" /\ op.again => Zeroed]_vars

(* "It returns 1 if it actually released any memory" and is "an inverse of  *)
(* sorts to sysmalloc" (malloc.c:2743-2748): malloc_trim never takes memory *)
(* from the system.                                                         *)
TrimNeverGrows ==
  [][pc = "idle" /\ UNCHANGED <<live, pc, foreign>> => av'.brk <= av.brk]_vars

(* The program's view: an allocator of blocks that never overlap.           *)
Blocks == INSTANCE Allocator WITH owned <- live
ImplementsAllocator == Blocks!Spec
=============================================================================
