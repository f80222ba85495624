----------------------------- MODULE SizeClasses -----------------------------
(***************************************************************************)
(* How malloc sizes its chunks and chooses their bins (malloc.c):           *)
(* request2size, checked_request2size and the bin_index macros, for the     *)
(* three layouts the macros distinguish. Memory tagging is off.             *)
(*                                                                          *)
(* A definition whose name ends in _slip or _uncapped is a plausible        *)
(* mistake in the one that follows it; nothing uses it but the check of the *)
(* properties.                                                              *)
(***************************************************************************)
EXTENDS Integers

CONSTANTS
  SIZE_SZ, MALLOC_ALIGNMENT,
  Word,        \* 2 ^ (8 * SIZE_SZ), the number of values of a size_t
  Requests     \* sizes the program asks for

(* x86-64 and other 64-bit targets; i386; other 32-bit targets. *)
ASSUME SizeAssumption ==
  /\ <<SIZE_SZ, MALLOC_ALIGNMENT>> \in { <<8, 16>>, <<4, 16>>, <<4, 8>> }
  /\ Word \in Nat /\ Word >= 64 /\ Word % 32 = 0
  /\ Requests \subseteq 0 .. Word - 1

VARIABLES req, nb     \* the last request and the chunk size malloc works with
vars == <<req, nb>>

SIZE_MAX     == Word - 1
PTRDIFF_MAX  == Word \div 2 - 1
CHUNK_HDR_SZ == 2 * SIZE_SZ

AlignDown(x) == (x \div MALLOC_ALIGNMENT) * MALLOC_ALIGNMENT

MIN_CHUNK_SIZE == 4 * SIZE_SZ
MINSIZE        == AlignDown(MIN_CHUNK_SIZE + MALLOC_ALIGNMENT - 1)

(* The sum is computed in a size_t. *)
Padded_slip(r) == (r + MALLOC_ALIGNMENT - 1) % Word
Padded(r)    == (r + SIZE_SZ + MALLOC_ALIGNMENT - 1) % Word
request2size(r) == IF Padded(r) < MINSIZE THEN MINSIZE ELSE AlignDown(Padded(r))

checked_request2size(r) == IF r > PTRDIFF_MAX THEN SIZE_MAX ELSE request2size(r)

----------------------------------------------------------------------------
NSMALLBINS == 64
SMALLBIN_CORRECTION == IF MALLOC_ALIGNMENT > CHUNK_HDR_SZ THEN 1 ELSE 0
MIN_LARGE_SIZE == (NSMALLBINS - SMALLBIN_CORRECTION) * MALLOC_ALIGNMENT

in_smallbin_range(sz) == sz < MIN_LARGE_SIZE

smallbin_index_slip(sz) == sz \div 32 + SMALLBIN_CORRECTION
smallbin_index(sz) ==
  (IF MALLOC_ALIGNMENT = 16 THEN sz \div 16 ELSE sz \div 8) + SMALLBIN_CORRECTION

(* The bins above the first range of large ones are the same everywhere. *)
upper_bins_uncapped(sz) == IF sz \div 512 <= 20 THEN 91 + sz \div 512 ELSE 124 + sz \div 262144
upper_bins_slip(sz) == IF sz \div 512 <= 20 THEN 81 + sz \div 512 ELSE 126
upper_bins(sz) ==
  IF sz \div 512 <= 20 THEN 91 + sz \div 512
  ELSE IF sz \div 4096 <= 10 THEN 110 + sz \div 4096
  ELSE IF sz \div 32768 <= 4 THEN 119 + sz \div 32768
  ELSE IF sz \div 262144 <= 2 THEN 124 + sz \div 262144
  ELSE 126

largebin_index_32(sz)     == IF sz \div 64 <= 38 THEN 56 + sz \div 64 ELSE upper_bins(sz)
largebin_index_32_big(sz) == IF sz \div 64 <= 45 THEN 49 + sz \div 64 ELSE upper_bins(sz)
largebin_index_64(sz)     == IF sz \div 64 <= 48 THEN 48 + sz \div 64 ELSE upper_bins(sz)

largebin_index(sz) ==
  IF SIZE_SZ = 8 THEN largebin_index_64(sz)
  ELSE IF MALLOC_ALIGNMENT = 16 THEN largebin_index_32_big(sz)
  ELSE largebin_index_32(sz)

bin_index(sz) == IF in_smallbin_range(sz) THEN smallbin_index(sz) ELSE largebin_index(sz)

----------------------------------------------------------------------------
Init == req = 0 /\ nb = MINSIZE

(* A call asks for r bytes; SIZE_MAX makes it fail with ENOMEM. *)
Ask(r) == req' = r /\ nb' = checked_request2size(r)

Next == \E r \in Requests : Ask(r)

Spec == Init /\ [][Next]_vars

----------------------------------------------------------------------------
Sized == nb # SIZE_MAX

(* The chunk is a multiple of the alignment, holds the request together     *)
(* with its size field (the last word is shared with the next chunk), and   *)
(* is at most one alignment step larger than it must be, or minimal: no     *)
(* request near the end of the address space wraps to a small chunk         *)
(* (malloc.c:1258-1262).                                                    *)
ChunkHoldsRequest ==
  Sized => /\ nb % MALLOC_ALIGNMENT = 0 /\ nb >= MINSIZE
           /\ nb - SIZE_SZ >= req
           /\ nb > MINSIZE => nb - SIZE_SZ < req + MALLOC_ALIGNMENT

(* Every chunk size has a real bin: not bin 0, which does not exist, nor    *)
(* bin 1, the unsorted list; and the small ones use the first 64.           *)
BinExists ==
  Sized => /\ bin_index(nb) \in 2 .. 126
           /\ in_smallbin_range(nb) <=> bin_index(nb) < NSMALLBINS

(* Bins are ordered by size, which the best-fit search relies on when it    *)
(* takes the first non-empty bin above the request's.                       *)
BinsOrdered ==
  [][ Sized /\ Sized' /\ nb <= nb' => bin_index(nb) <= bin_index(nb') ]_vars

(* A small bin holds chunks of one size only, so the fast path takes its    *)
(* last chunk without looking at the size.                                  *)
SmallBinsExact ==
  [][ Sized /\ Sized' /\ in_smallbin_range(nb) /\ nb # nb'
        => bin_index(nb) # bin_index(nb') ]_vars
=============================================================================
