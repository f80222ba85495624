----------------------------- MODULE MmapChunks -----------------------------
(***************************************************************************)
(* Blocks served by mmap (upstream-src/malloc.c): mapping, remapping and    *)
(* unmapping them, also for memalign and realloc, the statistics kept in    *)
(* mp_ with atomic additions and atomic_max, the sliding thresholds, which  *)
(* are plain variables, and mallopt, which sets them. No lock is held here  *)
(* but by mallopt: every access to mp_ is a step of its own.                *)
(*                                                                          *)
(* A block is a region of total bytes: offset of them in front, which       *)
(* memalign leaves, then its chunk, then Hdr bytes. Sizes count units of    *)
(* MALLOC_ALIGNMENT.                                                        *)
(*                                                                          *)
(* A definition whose name ends in _slip is a plausible mistake in the one  *)
(* that follows it; nothing uses it but the check of the properties.        *)
(***************************************************************************)
EXTENDS Integers, FiniteSets, FiniteSetsExt

CONSTANTS
  Threads,
  Blocks,         \* places where mmap can put a region
  NoBlock,
  Hdr,            \* CHUNK_HDR_SZ
  Page,
  MinSize,        \* MINSIZE
  Requests,       \* request sizes, after request2size
  Alignments,     \* of memalign; 0 is a call of malloc
  ArenaMissing,   \* sysmalloc may be called without an arena
  MmapMax,        \* DEFAULT_MMAP_MAX
  InitThreshold,  \* DEFAULT_MMAP_THRESHOLD, also of trimming
  ThresholdMax,   \* DEFAULT_MMAP_THRESHOLD_MAX
  Options,        \* parameters and values of tunables and of mallopt
  MaxMem          \* bound of the model: no remapping at or above it

ASSUME MmapAssumption ==
  /\ Hdr \in Nat \ {0} /\ Page \in Nat \ {0} /\ MmapMax \in Nat /\ MaxMem \in Nat
  /\ MinSize \in Nat /\ Alignments \subseteq Nat
  /\ Options \subseteq {"trim_threshold", "top_pad", "mmap_threshold", "mmaps_max"} \X Nat
  /\ InitThreshold \in Nat /\ ThresholdMax \in Nat /\ InitThreshold <= ThresholdMax
  /\ Requests \subseteq Nat /\ NoBlock \notin Blocks /\ ArenaMissing \in BOOLEAN
  /\ IsFiniteSet(Blocks)

(* The header, the page and every alignment are powers of two (malloc.c:2155, *)
(* 2166, 3598-3604), and memalign raises small ones to MINSIZE (3585).      *)
PowersOfTwo == { 2 ^ k : k \in 0 .. 20 } \cup {0}

ASSUME AlignmentAssumption ==
  /\ Hdr % Page \in PowersOfTwo
  /\ \A al \in Alignments \ {0} :
       Hdr <= al /\ (al % Page = 0 \/ (Page % al = 0 /\ al \in PowersOfTwo))

VARIABLES
  pc, blk, val,   \* of each thread: step, block and local of the call in progress
  alignment,      \* of each thread: that of the memalign in progress, or 0
  total, offset,  \* of each block: bytes mapped, 0 when none, and those in front
  asked,          \* of each block: size of the request it serves
  live,           \* blocks the program owns
  nMmaps, mmappedMem, maxNMmaps, maxMmappedMem,              \* mp_
  mmapThreshold, trimThreshold, noDynThreshold, nMmapsMax    \* mp_

blocks == <<total, offset, asked, live>>
counts == <<nMmaps, mmappedMem>>
peaks  == <<maxNMmaps, maxMmappedMem>>
sliding == <<mmapThreshold, trimThreshold>>
params == <<sliding, noDynThreshold, nMmapsMax>>
vars == <<pc, blk, val, alignment, blocks, counts, peaks, params>>

(* do_set_trim_threshold and the others: the parameter after some options.  *)
Value(name, old, options) ==
  LET given == { o \in options : o[1] = name }
  IN IF given = {} THEN old ELSE (CHOOSE o \in given : TRUE)[2]

(* __ptmalloc_init sets the tunables that are given, each once; all of them *)
(* set no_dyn_threshold too.                                                *)
Tuned(options) ==
  /\ mmapThreshold = Value("mmap_threshold", InitThreshold, options)
  /\ trimThreshold = Value("trim_threshold", InitThreshold, options)
  /\ nMmapsMax = Value("mmaps_max", MmapMax, options)
  /\ noDynThreshold = (options # {})

Init ==
  /\ pc = [t \in Threads |-> "idle"]
  /\ blk = [t \in Threads |-> NoBlock] /\ val = [t \in Threads |-> 0]
  /\ alignment = [t \in Threads |-> 0]
  /\ total = [p \in Blocks |-> 0] /\ offset = total /\ asked = total /\ live = {}
  /\ nMmaps = 0 /\ mmappedMem = 0 /\ maxNMmaps = 0 /\ maxMmappedMem = 0
  /\ \E options \in SUBSET Options :
       /\ \A o, q \in options : o # q => o[1] # q[1]
       /\ Tuned(options)

AlignUp(x, a) == ((x + a - 1) \div a) * a
ChunkSize(p)  == total[p] - offset[p] - Hdr
Larger(x, y)  == IF x > y THEN x ELSE y

Goto(t, from, to) == pc[t] = from /\ pc' = [pc EXCEPT ![t] = to]
Keep(t, x)        == val' = [val EXCEPT ![t] = x]
Leave(t)          == blk' = [blk EXCEPT ![t] = NoBlock]

(* The thread takes a block of the program's for its call. *)
Take(t, p) ==
  /\ p \in live
  /\ live' = live \ {p}
  /\ blk' = [blk EXCEPT ![t] = p]

----------------------------------------------------------------------------
(* sysmalloc: the test for mmap, then sysmalloc_mmap. memalign asks for     *)
(* enough to find an aligned block of nb in what it gets; the header is     *)
(* added to what it asks for a second time (malloc.c:4717).                 *)

Padding(al) == IF al = 0 THEN 0 ELSE al + MinSize + Hdr

Malloc(t, nb, al) ==
  /\ Goto(t, "idle", "map")
  /\ LET size == nb + Padding(al)
     IN /\ ArenaMissing \/ (size >= mmapThreshold /\ nMmaps < nMmapsMax)
        /\ Keep(t, AlignUp(size + Hdr, Page))
        /\ alignment' = [alignment EXCEPT ![t] = al]
        /\ \E p \in Blocks : /\ total[p] = 0 /\ p \notin { blk[u] : u \in Threads }
                             /\ blk' = [blk EXCEPT ![t] = p]
                             /\ asked' = [asked EXCEPT ![p] = nb]
  /\ UNCHANGED <<total, offset, live, counts, peaks, params>>

Map(t) ==
  /\ Goto(t, "map", "count")
  /\ total' = [total EXCEPT ![blk[t]] = val[t]]
  /\ UNCHANGED <<blk, val, alignment, offset, asked, live, counts, peaks, params>>

(* The arena goes on without it, or malloc fails. *)
MapFails(t) ==
  /\ Goto(t, "map", "idle")
  /\ asked' = [asked EXCEPT ![blk[t]] = 0]
  /\ Keep(t, 0) /\ Leave(t)
  /\ alignment' = [alignment EXCEPT ![t] = 0]
  /\ UNCHANGED <<total, offset, live, counts, peaks, params>>

CountMap(t) ==
  /\ Goto(t, "count", "max_count")
  /\ nMmaps' = nMmaps + 1
  /\ Keep(t, nMmaps + 1)
  /\ UNCHANGED <<blk, alignment, blocks, mmappedMem, peaks, params>>

MaxCount(t) ==
  /\ Goto(t, "max_count", "sum")
  /\ maxNMmaps' = Larger(maxNMmaps, val[t])
  /\ Keep(t, 0)
  /\ UNCHANGED <<blk, alignment, blocks, counts, maxMmappedMem, params>>

SumMap(t) ==
  /\ Goto(t, "sum", "max_sum")
  /\ mmappedMem' = mmappedMem + total[blk[t]]
  /\ Keep(t, mmappedMem')
  /\ UNCHANGED <<blk, alignment, blocks, nMmaps, peaks, params>>

(* malloc and realloc return the block. *)
MaxSum(t) ==
  /\ pc[t] = "max_sum"
  /\ maxMmappedMem' = Larger(maxMmappedMem, val[t])
  /\ Keep(t, 0)
  /\ IF alignment[t] = 0
     THEN pc' = [pc EXCEPT ![t] = "idle"] /\ live' = live \cup {blk[t]} /\ Leave(t)
     ELSE pc' = [pc EXCEPT ![t] = "align"] /\ UNCHANGED <<blk, live>>
  /\ UNCHANGED <<alignment, total, offset, asked, counts, maxNMmaps, params>>

(* _int_memalign of a mapped block moves its chunk up to the alignment; the *)
(* region begins at some page.                                              *)
AlignBlock(t) ==
  /\ Goto(t, "align", "idle")
  /\ LET al == alignment[t]
     IN \E base \in { Page * k : k \in 0 .. al \div Page } :
          offset' = [offset EXCEPT ![blk[t]] = AlignUp(base + Hdr, al) - Hdr - base]
  /\ live' = live \cup {blk[t]} /\ Leave(t)
  /\ alignment' = [alignment EXCEPT ![t] = 0]
  /\ UNCHANGED <<val, total, asked, counts, peaks, params>>

----------------------------------------------------------------------------
(* _int_free_chunk of a mapped block: slide the thresholds, munmap_chunk. *)

Free(t) ==
  /\ Goto(t, "idle", "compare")
  /\ \E p \in live : Take(t, p)
  /\ UNCHANGED <<val, alignment, total, offset, asked, counts, peaks, params>>

Compare_slip(t) ==
  /\ Goto(t, "compare", "measure")
  /\ UNCHANGED <<blk, val, alignment, blocks, counts, peaks, params>>

(* no_dyn_threshold is read, then mmap_threshold.                           *)
Compare(t) ==
  /\ Goto(t, "compare", IF noDynThreshold THEN "uncount" ELSE "measure")
  /\ UNCHANGED <<blk, val, alignment, blocks, counts, peaks, params>>

(* The size is compared with its IS_MMAPPED bit (chunksize_nomask), which   *)
(* makes it larger than an equal threshold or maximum.                      *)
Slides(p) == mmapThreshold <= ChunkSize(p) /\ ChunkSize(p) < ThresholdMax

Measure(t) ==
  /\ Goto(t, "measure", IF Slides(blk[t]) THEN "slide_mmap" ELSE "uncount")
  /\ UNCHANGED <<blk, val, alignment, blocks, counts, peaks, params>>

SlideMmap(t) ==
  /\ Goto(t, "slide_mmap", "slide_trim")
  /\ mmapThreshold' = ChunkSize(blk[t])
  /\ UNCHANGED <<blk, val, alignment, blocks, counts, peaks,
                 trimThreshold, noDynThreshold, nMmapsMax>>

(* 2 * mp_.mmap_threshold, read again or still in a register. *)
SlideTrim(t) ==
  /\ Goto(t, "slide_trim", "uncount")
  /\ \E thr \in {mmapThreshold, ChunkSize(blk[t])} : trimThreshold' = 2 * thr
  /\ UNCHANGED <<blk, val, alignment, blocks, counts, peaks,
                 mmapThreshold, noDynThreshold, nMmapsMax>>

(* munmap_chunk, whose test is below (MayUnmap). *)
Uncount(t) ==
  /\ Goto(t, "uncount", "unsum")
  /\ nMmaps' = nMmaps - 1
  /\ UNCHANGED <<blk, val, alignment, blocks, mmappedMem, peaks, params>>

Unsum_slip(t) ==
  /\ Goto(t, "unsum", "unmap")
  /\ mmappedMem' = mmappedMem - ChunkSize(blk[t]) - 2 * Hdr
  /\ UNCHANGED <<blk, val, alignment, blocks, nMmaps, peaks, params>>

Unsum(t) ==
  /\ Goto(t, "unsum", "unmap")
  /\ mmappedMem' = mmappedMem - total[blk[t]]
  /\ UNCHANGED <<blk, val, alignment, blocks, nMmaps, peaks, params>>

Unmap(t) ==
  /\ Goto(t, "unmap", "idle")
  /\ total' = [total EXCEPT ![blk[t]] = 0]
  /\ offset' = [offset EXCEPT ![blk[t]] = 0]
  /\ asked' = [asked EXCEPT ![blk[t]] = 0]
  /\ Leave(t)
  /\ UNCHANGED <<val, alignment, live, counts, peaks, params>>

----------------------------------------------------------------------------
(* realloc of a mapped block: mremap_chunk, which keeps what is in front.   *)

RemapSize_slip(p, nb) == AlignUp(nb + Hdr, Page)
RemapSize(p, nb) == AlignUp(nb + offset[p] + Hdr, Page)

Serves(p, nb) == asked' = [asked EXCEPT ![p] = nb]

(* The number of pages does not change, or mremap fails and the block       *)
(* shrinks: realloc returns it as it is.                                    *)
ReallocSame(t, nb) ==
  /\ pc[t] = "idle"
  /\ \E p \in live : /\ RemapSize(p, nb) = total[p] \/ nb <= ChunkSize(p)
                     /\ Serves(p, nb)
  /\ UNCHANGED <<pc, blk, val, alignment, total, offset, live, counts, peaks, params>>

(* What to add to the statistics comes from the size of the old chunk. *)
Remap(t, nb) ==
  /\ mmappedMem < MaxMem
  /\ Goto(t, "idle", "remapped")
  /\ \E p \in live :
       LET new == RemapSize(p, nb)
       IN /\ total[p] # new
          /\ total' = [total EXCEPT ![p] = new]
          /\ Keep(t, new - ChunkSize(p) - offset[p])
          /\ Take(t, p) /\ Serves(p, nb)
  /\ UNCHANGED <<alignment, offset, counts, peaks, params>>

SumRemap(t) ==
  /\ Goto(t, "remapped", "max_sum")
  /\ mmappedMem' = mmappedMem + val[t]
  /\ Keep(t, mmappedMem')
  /\ UNCHANGED <<blk, alignment, blocks, nMmaps, peaks, params>>

(* mremap fails and the block does not shrink: malloc, copy, munmap_chunk,  *)
(* which leaves the thresholds alone. The malloc is a call before this one; *)
(* here the old block goes.                                                 *)
Replace(t) ==
  /\ Goto(t, "idle", "uncount")
  /\ \E p \in live : (\E nb \in Requests : nb > ChunkSize(p)) /\ Take(t, p)
  /\ UNCHANGED <<val, alignment, total, offset, asked, counts, peaks, params>>

----------------------------------------------------------------------------
(* mallopt, under the mutex of main_arena: the value, then no_dyn_threshold. *)

Mallopt(t, option) ==
  /\ \A u \in Threads : pc[u] # "no_dyn"
  /\ Goto(t, "idle", "no_dyn")
  /\ mmapThreshold' = Value("mmap_threshold", mmapThreshold, {option})
  /\ trimThreshold' = Value("trim_threshold", trimThreshold, {option})
  /\ nMmapsMax' = Value("mmaps_max", nMmapsMax, {option})
  /\ UNCHANGED <<blk, val, alignment, blocks, counts, peaks, noDynThreshold>>

NoDyn(t) ==
  /\ Goto(t, "no_dyn", "idle")
  /\ noDynThreshold' = TRUE
  /\ UNCHANGED <<blk, val, alignment, blocks, counts, peaks, sliding, nMmapsMax>>

----------------------------------------------------------------------------
Next ==
  \E t \in Threads :
    \/ \E nb \in Requests : \/ \E al \in Alignments : Malloc(t, nb, al)
                            \/ Remap(t, nb) \/ ReallocSame(t, nb)
    \/ Map(t) \/ MapFails(t) \/ CountMap(t) \/ MaxCount(t) \/ SumMap(t) \/ MaxSum(t)
    \/ AlignBlock(t)
    \/ Free(t) \/ Compare(t) \/ Measure(t) \/ SlideMmap(t) \/ SlideTrim(t)
    \/ Uncount(t) \/ Unsum(t) \/ Unmap(t)
    \/ SumRemap(t) \/ Replace(t)
    \/ (\E option \in Options : Mallopt(t, option)) \/ NoDyn(t)

Spec == Init /\ [][Next]_vars

----------------------------------------------------------------------------
Mapped == { p \in Blocks : total[p] # 0 }
InCall(S) == { blk[t] : t \in { u \in Threads : pc[u] \in S } }

(* n_mmaps is the number of mapped blocks, but for those a thread is about  *)
(* to count or has just taken off the count, however calls interleave.      *)
CountExact == nMmaps = Cardinality(Mapped \ InCall({"count", "unsum", "unmap"}))

(* mmapped_mem counts at least the bytes of every block it should, so the   *)
(* subtraction in munmap_chunk never wraps below zero.                      *)
Summed == Mapped \ InCall({"count", "max_count", "sum", "unmap", "remapped"})
BytesOf(S) == MapThenSumSet(LAMBDA p : total[p], S)
MemCovers == mmappedMem >= BytesOf(Summed)

(* max_n_mmaps is at least every value n_mmaps has reached, although the    *)
(* addition and the maximum are two steps: no update is lost.               *)
MaxTracks ==
  (\A t \in Threads : pc[t] # "max_count") => maxNMmaps >= nMmaps

(* The statistics of malloc.c:2275-2281, 2834-2835 and 2883 follow the      *)
(* mapped blocks in every interleaving of their atomic operations.          *)
StatsTrack == CountExact /\ MemCovers /\ MaxTracks

(* After every sequence of memalign, realloc and mremap a block the program *)
(* owns holds what it asked for last, and passes the test with which        *)
(* munmap_chunk and mremap_chunk abort (malloc.c:2826-2833): the region is  *)
(* whole pages, and the block is at a power of two in its page.             *)
MayUnmap(p) == total[p] % Page = 0 /\ (offset[p] + Hdr) % Page \in PowersOfTwo
BlocksHold == \A p \in live : MayUnmap(p) /\ asked[p] <= ChunkSize(p)

(* Once mallopt has set no_dyn_threshold and every free that had read it    *)
(* before has stored its values, the thresholds change by mallopt only      *)
(* ("until the user sets it manually, at which point we need to disable any *)
(* dynamic behavior", malloc.c:1767): not by any later free.                *)
Sliding == \E t \in Threads : pc[t] \in {"measure", "slide_mmap", "slide_trim"}
UserThresholdStays ==
  [][ noDynThreshold /\ ~Sliding
        => \/ UNCHANGED sliding /\ ~Sliding'
           \/ \E t \in Threads : pc'[t] = "no_dyn" /\ pc[t] # "no_dyn" ]_vars

(* mallinfo's hblkhd is the "total bytes held in mmapped regions"           *)
(* (malloc.c:663): that is what mmapped_mem says when no call is running.   *)
MemExact == (\A t \in Threads : pc[t] = "idle") => mmappedMem = BytesOf(Mapped)
=============================================================================
