------------------------------- MODULE Chunks -------------------------------
(***************************************************************************)
(* Chunks, boundary tags and bins of one arena (upstream-src/malloc.c): the *)
(* operations every arena, main or not, is built from, as functions from    *)
(* the state of an arena to the state it leaves.                            *)
(*                                                                          *)
(* An arena is a record                                                     *)
(*   chunk   header of every chunk by address: its size, the PREV_INUSE bit *)
(*           and prev_size, the footer of the chunk before it (0 while that *)
(*           one is in use: the word is then user data);                    *)
(*   bins    unsorted list (index 1) and bins, from fd to bk of the head;   *)
(*   binmap  the bins whose bit is set;                                     *)
(*   top, last (last_remainder), contig (the NONCONTIGUOUS bit is clear),   *)
(*   sysmem (system_mem), brk, the break of the process, and bad, set when  *)
(*   a consistency test has called malloc_printerr.                         *)
(* Addresses and sizes count units of MALLOC_ALIGNMENT.                     *)
(*                                                                          *)
(* A definition whose name ends in _slip is a plausible mistake in the one  *)
(* that follows it; nothing uses it but the check of the properties.        *)
(***************************************************************************)
EXTENDS Integers, Sequences, FiniteSets, SequencesExt

CONSTANTS
  Hdr,         \* CHUNK_HDR_SZ
  MinSize,     \* MINSIZE
  LargeMin,    \* MIN_LARGE_SIZE: first size that is not a small one
  NBins,       \* number of bins
  Sizes,       \* chunk sizes that can be binned
  BinIndex     \* bin_index: size to bin, monotone, one size per small bin

Unsorted == 1
InitialTop == 0   \* initial_top (av): a chunk of size 0 before the first sysmalloc

InSmallbinRange(sz) == sz < LargeMin

(* Header and MINSIZE are those of the 64-bit layout.                       *)
ASSUME ChunksAssumption ==
  /\ Hdr = 1 /\ MinSize = 2
  /\ LargeMin \in Nat /\ LargeMin >= MinSize
  /\ NBins \in Nat /\ Sizes \subseteq { s \in Nat : s >= MinSize }
  /\ BinIndex \in [Sizes -> 2 .. NBins]
  /\ \A s, u \in Sizes : s < u => BinIndex[s] <= BinIndex[u]
  /\ \A s, u \in Sizes : InSmallbinRange(s) /\ s # u => BinIndex[s] # BinIndex[u]

----------------------------------------------------------------------------
(* Headers. *)

SizeOf(av, p)    == av.chunk[p].size
PrevInUse(av, p) == av.chunk[p].pinuse
NextOf(av, p)    == p + SizeOf(av, p)
PrevOf(av, p)    == p - av.chunk[p].prev
InUse(av, p)     == PrevInUse(av, NextOf(av, p))
TopSize(av)      == SizeOf(av, av.top)
TopEnd(av)       == NextOf(av, av.top)

(* The footer in front of a header stays; a new header has none. *)
SetHead(av, p, sz, pin) ==
  [av EXCEPT !.chunk =
     [q \in DOMAIN @ \cup {p} |->
        IF q # p THEN @[q]
        ELSE [size |-> sz, pinuse |-> pin, prev |-> IF p \in DOMAIN @ THEN @[p].prev ELSE 0]]]

SetFoot_slip(av, p, sz) == av
SetFoot(av, p, sz) == [av EXCEPT !.chunk[p + sz].prev = sz]

(* set_inuse_bit_at_offset, clear_inuse_bit_at_offset, at the chunk after. *)
SetInUseBit_slip(av, q) == [av EXCEPT !.chunk[q].prev = 0]
SetInUseBit(av, q)   == [av EXCEPT !.chunk[q].pinuse = TRUE, !.chunk[q].prev = 0]
ClearInUseBit(av, q) == [av EXCEPT !.chunk[q].pinuse = FALSE]

(* The header at q becomes data of the chunk before it. *)
DropHead(av, q) ==
  [av EXCEPT !.chunk = [p \in DOMAIN @ \ {q} |-> @[p]]]

----------------------------------------------------------------------------
(* Bins. *)

SizeInBin(av, i, k) == SizeOf(av, av.bins[i][k])

(* unlink_chunk: its consistency check, and the removal. *)
UnlinkChecks(av, p) == NextOf(av, p) \in DOMAIN av.chunk
                       /\ av.chunk[NextOf(av, p)].prev = SizeOf(av, p)
Unlink(av, p) ==
  [av EXCEPT !.bins = [i \in DOMAIN @ |-> RemoveFirst(@[i], p)]]

PushFront(av, i, p) == [av EXCEPT !.bins[i] = <<p>> \o @]

(* mark_bin *)
MarkBin_slip(av, i) == av
MarkBin(av, i) == [av EXCEPT !.binmap = @ \cup {i}]

(* Where a chunk of size sz goes in a large bin: before the first chunk     *)
(* that is not larger, or behind it when it has the same size.              *)
LargePosition_slip(av, i, sz) == 1
LargePosition(av, i, sz) ==
  LET n == Len(av.bins[i])
      notLarger == { k \in 1 .. n : SizeInBin(av, i, k) <= sz }
  IN IF notLarger = {} THEN n + 1
     ELSE LET k == Min(notLarger) IN IF SizeInBin(av, i, k) = sz THEN k + 1 ELSE k

(* Place a chunk taken from the unsorted list in its bin. *)
PlaceInBin(av, p) ==
  LET sz == SizeOf(av, p)
      i  == BinIndex[sz]
      k  == IF InSmallbinRange(sz) THEN 1 ELSE LargePosition(av, i, sz)
  IN MarkBin([av EXCEPT !.bins[i] = InsertAt(@, k, p)], i)

----------------------------------------------------------------------------
(* The pieces of free. *)

Borders(av, next) == next # av.top /\ ~ InUse(av, next)

(* _int_free_create_chunk: p, of size sz, becomes free or part of top. The  *)
(* result is the arena and the size of the new chunk.                       *)
CreateChunk(av, p, sz) ==
  LET next  == p + sz
      nsz   == SizeOf(av, next)
      merge == Borders(av, next)
      size  == IF next = av.top \/ merge THEN sz + nsz ELSE sz
      av1   == IF next = av.top THEN DropHead(av, next)
               ELSE IF merge THEN DropHead(Unlink(av, next), next)
               ELSE ClearInUseBit(av, next)
      av2   == IF InSmallbinRange(size)
               THEN MarkBin(PushFront(av1, BinIndex[size], p), BinIndex[size])
               ELSE PushFront(av1, Unsorted, p)
  IN IF next = av.top
     THEN [av |-> [SetHead(av1, p, size, TRUE) EXCEPT !.top = p], size |-> size]
     ELSE [av |-> SetFoot(SetHead(av2, p, size, TRUE), p, size), size |-> size]

(* The tests of _int_free_merge_chunk, and of the unlinks that follow them. *)
FreeChecks(av, p, sz) ==
  LET next == p + sz
      prev == PrevOf(av, p)
  IN /\ p # av.top
     /\ av.contig => next < TopEnd(av)
     /\ next \in DOMAIN av.chunk
     /\ PrevInUse(av, next)
     /\ SizeOf(av, next) > Hdr \/ (SizeOf(av, next) = Hdr /\ PrevInUse(av, next))
     /\ SizeOf(av, next) < av.sysmem
     /\ PrevInUse(av, p)
        \/ (prev \in DOMAIN av.chunk /\ SizeOf(av, prev) = av.chunk[p].prev /\ UnlinkChecks(av, prev))
     /\ next = av.top \/ InUse(av, next) \/ UnlinkChecks(av, next)

(* _int_free_merge_chunk: consolidate backward, then create the chunk. *)
MergeChunk(av, p, sz) ==
  LET prev == PrevOf(av, p)
  IN IF PrevInUse(av, p) THEN CreateChunk(av, p, sz)
     ELSE CreateChunk(DropHead(Unlink(av, prev), p), prev, p + sz - prev)

----------------------------------------------------------------------------
(* The pieces of malloc. *)

(* Victim v, on no list any more, serves nb: the rest of it goes to the     *)
(* front of the unsorted list, or is too small and stays with it.           *)
TooSmall(rest) == rest < MinSize
TakeVictim(av, v, nb) ==
  LET rest == SizeOf(av, v) - nb
      r    == v + nb
  IN IF TooSmall(rest)
     THEN SetInUseBit(av, NextOf(av, v))
     ELSE LET av1 == SetHead(SetHead(av, v, nb, TRUE), r, rest, TRUE)
          IN SetFoot(PushFront(av1, Unsorted, r), r, rest)

(* Split nb off the bottom of top. *)
TakeFromTop(av, nb) ==
  LET r == av.top + nb
  IN [SetHead(SetHead(av, av.top, nb, TRUE), r, TopSize(av) - nb, TRUE) EXCEPT !.top = r]

(* The chunk a large request takes from its own bin: the smallest that      *)
(* fits, but not the first of its size when there is a second.              *)
LargeVictim(av, i, nb) ==
  LET bin == av.bins[i]
      fit == { k \in 1 .. Len(bin) : SizeInBin(av, i, k) >= nb }
      best == Min({ SizeInBin(av, i, k) : k \in fit })
      k   == Min({ j \in fit : SizeInBin(av, i, j) = best })
  IN IF k < Len(bin) /\ SizeInBin(av, i, k + 1) = best THEN bin[k + 1] ELSE bin[k]

(* The binmap scan above bin i: the first marked bin that is not empty (0   *)
(* when there is none), and the binmap without the false alarms passed.     *)
ScanBin_slip(av, i) ==
  LET full == { j \in i + 2 .. NBins : j \in av.binmap /\ av.bins[j] # <<>> }
  IN IF full = {} THEN 0 ELSE Min(full)
ScanBin(av, i) ==
  LET full == { j \in i + 1 .. NBins : j \in av.binmap /\ av.bins[j] # <<>> }
  IN IF full = {} THEN 0 ELSE Min(full)
ScanBinmap(av, i) ==
  { j \in av.binmap : j <= i \/ (ScanBin(av, i) # 0 /\ j >= ScanBin(av, i)) }
=============================================================================
