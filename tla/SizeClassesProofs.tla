-------------------------- MODULE SizeClassesProofs --------------------------
(***************************************************************************)
(* Every request gets a chunk that holds it and a bin, and bins are ordered, *)
(* whatever the layout and the width of a size_t. The facts about BinIndex   *)
(* that Chunks assumes are the ones proved of bin_index here.                *)
(***************************************************************************)
EXTENDS SizeClasses, TLAPS

(* A chunk size malloc can work with: what request2size can return.         *)
ChunkSizes == { s \in Nat : s >= MINSIZE /\ s % MALLOC_ALIGNMENT = 0 }

(* The padded request stays below the size of the address space.            *)
LEMMA PaddedExact ==
  ASSUME NEW r \in Nat, r <= PTRDIFF_MAX
  PROVE  Padded(r) = r + SIZE_SZ + MALLOC_ALIGNMENT - 1
<1>1. SIZE_SZ \in {4, 8} /\ MALLOC_ALIGNMENT \in {8, 16}
  BY SizeAssumption
<1>2. r + SIZE_SZ + MALLOC_ALIGNMENT - 1 \in 0 .. Word - 1
  BY <1>1, SizeAssumption DEF PTRDIFF_MAX
<1>3. \A x, w \in Nat : x < w => x % w = x
  OBVIOUS
<1> QED BY <1>2, <1>3, SizeAssumption DEF Padded

(* request2size of any request up to PTRDIFF_MAX.                           *)
LEMMA RequestSize ==
  ASSUME NEW r \in Nat, r <= PTRDIFF_MAX
  PROVE  LET n == request2size(r)
         IN /\ n \in ChunkSizes
            /\ n - SIZE_SZ >= r
            /\ n > MINSIZE => n - SIZE_SZ < r + MALLOC_ALIGNMENT
<1>1. Padded(r) = r + SIZE_SZ + MALLOC_ALIGNMENT - 1
  BY PaddedExact
<1>2. CASE SIZE_SZ = 8 /\ MALLOC_ALIGNMENT = 16
  BY <1>1, <1>2 DEF request2size, ChunkSizes, AlignDown, MINSIZE, MIN_CHUNK_SIZE
<1>3. CASE SIZE_SZ = 4 /\ MALLOC_ALIGNMENT = 16
  BY <1>1, <1>3 DEF request2size, ChunkSizes, AlignDown, MINSIZE, MIN_CHUNK_SIZE
<1>4. CASE SIZE_SZ = 4 /\ MALLOC_ALIGNMENT = 8
  BY <1>1, <1>4 DEF request2size, ChunkSizes, AlignDown, MINSIZE, MIN_CHUNK_SIZE
<1> QED BY <1>2, <1>3, <1>4, SizeAssumption

----------------------------------------------------------------------------
(* The bins of chunk sizes, layout by layout.                               *)

LEMMA BinRange ==
  ASSUME NEW s \in ChunkSizes
  PROVE  bin_index(s) \in 2 .. 126 /\ (in_smallbin_range(s) <=> bin_index(s) < NSMALLBINS)
<1> USE DEF ChunkSizes, bin_index, in_smallbin_range, smallbin_index, largebin_index,
            largebin_index_64, largebin_index_32, largebin_index_32_big, upper_bins,
            MIN_LARGE_SIZE, NSMALLBINS, SMALLBIN_CORRECTION, CHUNK_HDR_SZ,
            MINSIZE, MIN_CHUNK_SIZE, AlignDown
<1>1. CASE SIZE_SZ = 8 /\ MALLOC_ALIGNMENT = 16  BY <1>1
<1>2. CASE SIZE_SZ = 4 /\ MALLOC_ALIGNMENT = 16  BY <1>2
<1>3. CASE SIZE_SZ = 4 /\ MALLOC_ALIGNMENT = 8   BY <1>3
<1> QED BY <1>1, <1>2, <1>3, SizeAssumption

(* A larger chunk is in the same bin or a later one.                        *)
LEMMA BinMonotone ==
  ASSUME NEW s \in ChunkSizes, NEW u \in ChunkSizes, s <= u
  PROVE  bin_index(s) <= bin_index(u)
<1> USE DEF ChunkSizes, bin_index, in_smallbin_range, smallbin_index, largebin_index,
            largebin_index_64, largebin_index_32, largebin_index_32_big, upper_bins,
            MIN_LARGE_SIZE, NSMALLBINS, SMALLBIN_CORRECTION, CHUNK_HDR_SZ
<1>1. CASE SIZE_SZ = 8 /\ MALLOC_ALIGNMENT = 16  BY <1>1
<1>2. CASE SIZE_SZ = 4 /\ MALLOC_ALIGNMENT = 16  BY <1>2
<1>3. CASE SIZE_SZ = 4 /\ MALLOC_ALIGNMENT = 8   BY <1>3
<1> QED BY <1>1, <1>2, <1>3, SizeAssumption

(* A small bin is for one size only.                                        *)
LEMMA SmallBinExact ==
  ASSUME NEW s \in ChunkSizes, NEW u \in ChunkSizes, in_smallbin_range(s), s # u
  PROVE  bin_index(s) # bin_index(u)
<1> USE DEF ChunkSizes, bin_index, in_smallbin_range, smallbin_index, largebin_index,
            largebin_index_64, largebin_index_32, largebin_index_32_big, upper_bins,
            MIN_LARGE_SIZE, NSMALLBINS, SMALLBIN_CORRECTION, CHUNK_HDR_SZ
<1>1. CASE SIZE_SZ = 8 /\ MALLOC_ALIGNMENT = 16  BY <1>1
<1>2. CASE SIZE_SZ = 4 /\ MALLOC_ALIGNMENT = 16  BY <1>2
<1>3. CASE SIZE_SZ = 4 /\ MALLOC_ALIGNMENT = 8   BY <1>3
<1> QED BY <1>1, <1>2, <1>3, SizeAssumption

----------------------------------------------------------------------------
(* The inductive invariant: what nb holds when it is a size.                *)
Inv == /\ req \in Nat
       /\ Sized => /\ nb \in ChunkSizes
                   /\ nb - SIZE_SZ >= req
                   /\ nb > MINSIZE => nb - SIZE_SZ < req + MALLOC_ALIGNMENT

(* The invariant at first.                                                  *)
LEMMA InitInv == Init => Inv
<1> SUFFICES ASSUME Init PROVE Inv
  OBVIOUS
<1>1. MINSIZE \in Nat /\ MINSIZE % MALLOC_ALIGNMENT = 0 /\ MINSIZE >= SIZE_SZ
  <2> USE DEF MINSIZE, MIN_CHUNK_SIZE, AlignDown
  <2>1. CASE SIZE_SZ = 8 /\ MALLOC_ALIGNMENT = 16  BY <2>1
  <2>2. CASE SIZE_SZ = 4 /\ MALLOC_ALIGNMENT = 16  BY <2>2
  <2>3. CASE SIZE_SZ = 4 /\ MALLOC_ALIGNMENT = 8   BY <2>3
  <2> QED BY <2>1, <2>2, <2>3, SizeAssumption
<1> QED BY <1>1, SizeAssumption DEF Init, Inv, ChunkSizes

(* The invariant is inductive.                                              *)
LEMMA StepInv == Inv /\ [Next]_vars => Inv'
<1> SUFFICES ASSUME Inv, [Next]_vars PROVE Inv'
  OBVIOUS
<1>1. ASSUME NEW r \in Requests, Ask(r) PROVE Inv'
  <2>1. r \in Nat
    BY SizeAssumption
  <2>2. CASE r > PTRDIFF_MAX
    BY <1>1, <2>1, <2>2 DEF Ask, Inv, Sized, checked_request2size
  <2>3. CASE ~ (r > PTRDIFF_MAX)
    <3>1. r <= PTRDIFF_MAX
      BY <2>1, <2>3, SizeAssumption DEF PTRDIFF_MAX
    <3> QED BY <1>1, <2>1, <2>3, <3>1, RequestSize DEF Ask, Inv, checked_request2size
  <2> QED BY <2>2, <2>3
<1>2. CASE UNCHANGED vars
  BY <1>2 DEF vars, Inv, Sized
<1> QED BY <1>1, <1>2 DEF Next

(* The invariant holds always.                                              *)
LEMMA AlwaysInv == Spec => []Inv
  BY InitInv, StepInv, PTL DEF Spec

(* No request, however large, gets a chunk too small for it.                *)
THEOREM HoldsRequest == Spec => []ChunkHoldsRequest
<1>1. Inv => ChunkHoldsRequest
  BY DEF Inv, ChunkHoldsRequest, ChunkSizes
<1> QED BY <1>1, AlwaysInv, PTL

(* Every chunk size has a bin, and the small ones a small bin.              *)
THEOREM HasBin == Spec => []BinExists
<1>1. Inv => BinExists
  BY BinRange DEF Inv, BinExists
<1> QED BY <1>1, AlwaysInv, PTL

(* A larger chunk is never in a lower bin.                                  *)
THEOREM Ordered == Spec => BinsOrdered
<1>1. Inv /\ Inv' => (Sized /\ Sized' /\ nb <= nb' => bin_index(nb) <= bin_index(nb'))
  BY BinMonotone DEF Inv
<1>2. Inv /\ Inv' => [ Sized /\ Sized' /\ nb <= nb' => bin_index(nb) <= bin_index(nb') ]_vars
  BY <1>1
<1> QED BY <1>2, AlwaysInv, PTL DEF BinsOrdered

(* Two sizes never share a small bin.                                       *)
THEOREM Exact == Spec => SmallBinsExact
<1>1. Inv /\ Inv' => (Sized /\ Sized' /\ in_smallbin_range(nb) /\ nb # nb'
                         => bin_index(nb) # bin_index(nb'))
  BY SmallBinExact DEF Inv
<1>2. Inv /\ Inv' => [ Sized /\ Sized' /\ in_smallbin_range(nb) /\ nb # nb'
                         => bin_index(nb) # bin_index(nb') ]_vars
  BY <1>1
<1> QED BY <1>2, AlwaysInv, PTL DEF SmallBinsExact
=============================================================================
