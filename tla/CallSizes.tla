------------------------------ MODULE CallSizes ------------------------------
(***************************************************************************)
(* What the entry points of malloc.c compute from the sizes and alignments *)
(* they are given, before any list is touched: the index macros of tcache, *)
(* do_set_tcache_max, what calloc clears of a cached block, the usable     *)
(* size, the alignments memalign, posix_memalign and aligned_alloc accept  *)
(* and what they become, and the rounding of pvalloc.                      *)
(*                                                                         *)
(* A definition whose name ends in _slip is a plausible mistake in the one *)
(* that follows it; nothing uses it but the check of the properties.       *)
(***************************************************************************)
EXTENDS SizeClasses

CONSTANTS
  IntBits,      \* width of an unsigned int
  PageSize,     \* GLRO (dl_pagesize)
  CacheLimits,  \* values of the tunable tcache_max
  AskedAligns   \* alignments the program asks for

(* clz is given an unsigned int: sizes that do not fit lose their high bits *)
(* first. The limits considered fit.                                        *)
ASSUME CallSizesAssumption ==
  /\ IntBits \in Nat /\ PageSize \in Nat \ {0}
  /\ \A v \in CacheLimits : v \in Nat /\ request2size(v) < 2 ^ IntBits
  /\ AskedAligns \subseteq 0 .. Word - 1

----------------------------------------------------------------------------
TCACHE_SMALL_BINS == 64
TCACHE_MAX_BINS   == TCACHE_SMALL_BINS + 12

tidx2csize(i) == i * MALLOC_ALIGNMENT + MINSIZE
tidx2usize(i) == tidx2csize(i) - SIZE_SZ
csize2tidx_slip(x) == x \div MALLOC_ALIGNMENT
csize2tidx(x) == (x - MINSIZE) \div MALLOC_ALIGNMENT
MAX_TCACHE_SMALL_SIZE == tidx2csize(TCACHE_SMALL_BINS - 1)

clz(x) == LET y == x % 2 ^ IntBits
          IN CHOOSE z \in 0 .. IntBits - 1 :
               2 ^ (IntBits - 1 - z) <= y /\ y < 2 ^ (IntBits - z)

large_csize2tidx(x) == TCACHE_SMALL_BINS + clz(MAX_TCACHE_SMALL_SIZE) - clz(x)

(* malloc, calloc, memalign and free choose the bin alike. *)
CacheIndex(x) ==
  IF csize2tidx(x) < TCACHE_SMALL_BINS THEN csize2tidx(x) ELSE large_csize2tidx(x)

(* tcache_max_bytes after do_set_tcache_max of a value it accepts. *)
Accepted(v)        == v <= PTRDIFF_MAX /\ CacheIndex(request2size(v)) < TCACHE_MAX_BINS
tcache_max_bytes(v) == request2size(v) + 1

(* The usable size of a chunk of size x, which ends with the size field of  *)
(* the next one, and that of a region mapped for a chunk of size x.         *)
memsize(x) == x - CHUNK_HDR_SZ + SIZE_SZ
MmapBytes(x) == ((x + CHUNK_HDR_SZ + PageSize - 1) \div PageSize) * PageSize
musable(x, mapped) == memsize(IF mapped THEN MmapBytes(x) - CHUNK_HDR_SZ ELSE x)

(* What calloc clears of a block it takes from the cache.                   *)
CallocClears(x) ==
  IF csize2tidx(x) < TCACHE_SMALL_BINS THEN tidx2usize(csize2tidx(x)) ELSE memsize(x)

----------------------------------------------------------------------------
Powers == { 2 ^ k : k \in 0 .. 30 }

(* 0 stands for a plain malloc. aligned_alloc only lets powers of two       *)
(* through; the others are rounded up to one, starting from two units.      *)
NextPower(a) == CHOOSE x \in Powers :
  /\ x >= 2 * MALLOC_ALIGNMENT /\ x >= a
  /\ \A y \in Powers : y >= 2 * MALLOC_ALIGNMENT /\ y >= a => x <= y

Raised(a) == IF a < MINSIZE THEN MINSIZE ELSE a
AlignmentErrors(a) == Raised(a) > SIZE_MAX \div 2 + 1
mid_memalign(a) ==
  IF a <= MALLOC_ALIGNMENT THEN 0
  ELSE IF Raised(a) \in Powers THEN Raised(a) ELSE NextPower(a)

(* EINVAL, without an allocation. powerof2 (0) is true.                     *)
PosixMemalignErrors(a) == a % SIZE_SZ # 0 \/ a \div SIZE_SZ \notin Powers \cup {0} \/ a = 0
AlignedAllocErrors(a)  == a \notin Powers

(* _int_memalign fails beyond PTRDIFF_MAX, then asks _int_malloc for this.  *)
MemalignFails(a, x) == AlignmentErrors(a) \/ mid_memalign(a) > PTRDIFF_MAX \/ x = SIZE_MAX
MemalignTotal(a, x) == (x + mid_memalign(a) + MINSIZE) % Word

(* pvalloc fails when the sum leaves the range of a size_t. *)
PvallocFails(r) == r + PageSize - 1 > SIZE_MAX
PvallocBytes(r) == ((r + PageSize - 1) \div PageSize) * PageSize

----------------------------------------------------------------------------
(* Whatever tcache_max is set to, a chunk small enough for the cache has a  *)
(* bin of it, of one size below bin 64 and of a range of sizes above; and   *)
(* calloc, which below bin 64 does not read the chunk's size                *)
(* (malloc.c:3781), clears all of a cached block and nothing behind it.     *)
CacheBinsSound ==
  \A v \in CacheLimits :
    Accepted(v) /\ Sized /\ nb < tcache_max_bytes(v) =>
      LET i == CacheIndex(nb)
      IN /\ i \in 0 .. TCACHE_MAX_BINS - 1
         /\ i <= CacheIndex(request2size(v))
         /\ i < TCACHE_SMALL_BINS => tidx2csize(i) = nb
         /\ req <= CallocClears(nb) /\ CallocClears(nb) <= musable(nb, FALSE)
         /\ i >= TCACHE_SMALL_BINS => nb > MAX_TCACHE_SMALL_SIZE

(* memalign works with a power of two that is at least what was asked for   *)
(* and less than twice it, and the padded size from which it cuts the block *)
(* never wraps (malloc.c:4710-4713); what posix_memalign and aligned_alloc  *)
(* let through is a multiple of what was asked for, even where it becomes a *)
(* plain malloc; pvalloc gives whole pages.                                 *)
AlignmentSound ==
  /\ \A a \in AskedAligns :
       ~ MemalignFails(a, nb) /\ a > MALLOC_ALIGNMENT =>
         LET al == mid_memalign(a)
         IN /\ al \in Powers /\ al >= a /\ (al < 2 * a \/ al = MINSIZE)
            /\ Sized => MemalignTotal(a, nb) = nb + al + MINSIZE
  /\ \A a \in AskedAligns :
       ~ (PosixMemalignErrors(a) /\ AlignedAllocErrors(a)) /\ ~ MemalignFails(a, nb) =>
         (IF mid_memalign(a) = 0 THEN MALLOC_ALIGNMENT ELSE mid_memalign(a)) % a = 0
  /\ ~ PvallocFails(req) => PvallocBytes(req) >= req /\ PvallocBytes(req) % PageSize = 0
                            /\ PvallocBytes(req) < Word

(* malloc_usable_size covers the request and stays within the chunk and its *)
(* shared last word, or within the mapping.                                 *)
UsableSound ==
  Sized => /\ req <= musable(nb, FALSE) /\ musable(nb, FALSE) < nb
           /\ req <= musable(nb, TRUE) /\ CHUNK_HDR_SZ + musable(nb, TRUE) <= MmapBytes(nb)

CallSizesSound == CacheBinsSound /\ AlignmentSound /\ UsableSound
=============================================================================
