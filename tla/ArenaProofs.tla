---------------------------- MODULE ArenaProofs ----------------------------
(***************************************************************************)
(* main_arena over the process break: the inductive invariant IInv, that    *)
(* every step of Arena keeps it, and what follows from it. IInv says that   *)
(* the arena is sound in the sense of ChunksProofs - its chunks tile the    *)
(* memory it owns, free ones are on one list each and the others are the    *)
(* blocks of the program, the block of the call in progress, top and        *)
(* fenceposts -, that it owns what it got from sbrk and mmap and other code *)
(* did not, that every block holds its request, and what the locals of the  *)
(* call in progress say. The theorems are about main_arena: MainArena is    *)
(* {TRUE}. The heaps of the other arenas stay with TLC.                     *)
(***************************************************************************)
EXTENDS Arena, ChunksProofs, FiniteSetTheorems, TLAPS

(* The memory main_arena got itself, as intervals: what lies below the      *)
(* break and is not foreign, and the mappings that stand in for sbrk.       *)
Owned(brk, end, other) ==
  { i \in Nat \X Nat :
      /\ i[1] < i[2]
      /\ \/ FirstBrk <= i[1] /\ i[2] <= brk /\ \A x \in other : x < i[1] \/ i[2] <= x
         \/ MapBase <= i[1] /\ i[2] <= end }

(* What sbrk gave the allocator, and what system_mem says of it.            *)
Obtains(brk, other) == brk - FirstBrk - Cardinality(other)
Region(brk, end, other) ==
  brk \in FirstBrk .. MaxBrk /\ end \in MapBase .. MaxMap /\ other \subseteq FirstBrk .. brk - 1
Numbers(a, end, other) ==
  /\ {"main", "maxmem"} \subseteq DOMAIN a /\ a.main = TRUE /\ a.bad = FALSE
  /\ Region(a.brk, end, other)
  /\ a.sysmem \in Nat /\ a.sysmem >= Obtains(a.brk, other) + (end - MapBase)
  /\ a.contig \in BOOLEAN /\ (a.contig => end = MapBase)

(* The arena is sound, X are its chunks in use, and while the break is      *)
(* taken to be contiguous top is its last chunk.                            *)
Good(a, X, end, other) ==
  /\ Numbers(a, end, other)
  /\ a.contig => \A q \in DOMAIN a.chunk : q <= a.top
  /\ \E F : Sound(a, F, X, Owned(a.brk, end, other))

----------------------------------------------------------------------------
(* The constants, as the leaves below use them.                             *)
LEMMA Consts ==
  /\ Hdr = 1 /\ MinSize = 2 /\ InitialTop = 0 /\ Unsorted = 1
  /\ FirstBrk \in Nat /\ FirstBrk > 0 /\ MaxBrk \in Nat /\ FirstBrk <= MaxBrk
  /\ MapBase \in Nat /\ MaxBrk < MapBase /\ MaxMap \in Nat /\ MapBase <= MaxMap
  /\ Word \in Nat /\ Word > 2 * MaxMap /\ Page \in Nat /\ Page >= 2 /\ TopPad \in Nat /\ MorecoreMin \in Nat
BY ChunksAssumption, HeapsAssumption, ArenaAssumption, MemoryAssumption DEF InitialTop, Unsorted

(* Sizes that occur.                                                        *)
LEMMA SizesAre ==
  /\ \A s \in Sizes : s \in Nat /\ s >= 2 /\ BinIndex[s] \in 2 .. NBins /\ BinIndex[s] \in 1 .. NBins
  /\ NBins \in Nat
BY ChunksAssumption

(* Rounding to pages.                                                       *)
LEMMA DownIs ==
  ASSUME NEW x \in Int
  PROVE  /\ AlignDown(x, Page) \in Int /\ AlignDown(x, Page) <= x /\ AlignDown(x, Page) > x - Page
         /\ x >= 0 => AlignDown(x, Page) >= 0
<1> DEFINE q == x \div Page
           r == x % Page
<1>1. Page \in Nat \ {0}
  BY HeapsAssumption
<1>2. q \in Int /\ r \in 0 .. Page - 1 /\ x = Page * q + r
  BY <1>1, DivMod
<1>3. AlignDown(x, Page) = q * Page
  BY DEF AlignDown
<1> HIDE DEF q, r
<1>4. q * Page \in Int /\ q * Page = Page * q
  BY <1>1, <1>2
<1>5. Page * q = x - r
  BY <1>1, <1>2, <1>4
<1>6. x >= 0 => Page * q >= 0
  <2> SUFFICES ASSUME x >= 0, q < 0 PROVE FALSE
    BY <1>1, <1>2
  <2>1. Page * q <= 0 - Page
    BY <1>1, <1>2
  <2> QED BY <1>1, <1>2, <2>1
<1> QED BY <1>1, <1>2, <1>3, <1>4, <1>5, <1>6

(* Rounding up to pages.                                                    *)
LEMMA UpIs ==
  ASSUME NEW x \in Int
  PROVE  /\ AlignUp(x, Page) \in Int /\ AlignUp(x, Page) >= x /\ AlignUp(x, Page) < x + Page
         /\ x >= 1 => AlignUp(x, Page) >= 2
<1>1. Page \in Nat /\ Page >= 2
  BY Consts
<1> DEFINE y == x + Page - 1
<1>2. AlignUp(x, Page) = AlignDown(y, Page) /\ y \in Int
  BY <1>1 DEF AlignUp, AlignDown
<1> HIDE DEF y
<1>3. AlignDown(y, Page) \in Int /\ AlignDown(y, Page) > y - Page /\ AlignDown(y, Page) <= y
  BY <1>2, DownIs
<1>4. x >= 1 => AlignDown(y, Page) >= 2
  <2> SUFFICES ASSUME x >= 1 PROVE AlignDown(y, Page) >= 2
    OBVIOUS
  <2> DEFINE q == y \div Page
  <2>1. q \in Int /\ y % Page \in 0 .. Page - 1 /\ y = Page * q + (y % Page)
    BY <1>1, <1>2, DivMod
  <2> HIDE DEF q
  <2>2. q >= 1
    <3> SUFFICES ASSUME q <= 0 PROVE FALSE
      BY <2>1
    <3>1. Page * q <= 0
      BY <1>1, <2>1
    <3> QED BY <1>1, <2>1, <3>1 DEF y
  <2>3. q * Page >= Page
    BY <1>1, <2>1, <2>2
  <2>4. AlignDown(y, Page) = q * Page
    BY DEF AlignDown, q
  <2>5. q * Page \in Int
    BY <1>1, <2>1
  <2> QED BY ONLY <1>1, <2>3, <2>4, <2>5
<1> QED BY <1>1, <1>2, <1>3, <1>4 DEF y

----------------------------------------------------------------------------
(* An interval of the arena's memory, spelled out.                          *)
LEMMA OwnedAre ==
  ASSUME NEW brk, NEW end, NEW other, NEW b \in Nat, NEW e \in Nat
  PROVE  <<b, e>> \in Owned(brk, end, other) <=>
           /\ b < e
           /\ \/ FirstBrk <= b /\ e <= brk /\ \A x \in other : x < b \/ e <= x
              \/ MapBase <= b /\ e <= end
BY DEF Owned

(* The memory has the shape the operations of Chunks need.                  *)
LEMMA OwnedMemory ==
  ASSUME NEW brk, NEW end, NEW other, Region(brk, end, other)
  PROVE  Memory(Owned(brk, end, other)) /\ Closed(Owned(brk, end, other))
<1> DEFINE G == Owned(brk, end, other)
<1>1. brk \in Nat /\ brk <= MaxBrk /\ brk >= FirstBrk /\ end \in Nat /\ end <= MaxMap /\ end >= MapBase /\ other \subseteq Nat
  BY Consts DEF Region
<1>2. ASSUME NEW a \in Nat, NEW b \in Nat, NEW d \in Nat, NEW e \in Nat, <<a, e>> \in G, a <= b, b < d, d <= e
      PROVE  <<b, d>> \in G
  <2>1. a < e /\ (\/ FirstBrk <= a /\ e <= brk /\ \A x \in other : x < a \/ e <= x
                  \/ MapBase <= a /\ e <= end)
    BY <1>2, OwnedAre
  <2>2. b < d /\ (\/ FirstBrk <= b /\ d <= brk /\ \A x \in other : x < b \/ d <= x
                  \/ MapBase <= b /\ d <= end)
    BY <1>1, <1>2, <2>1, Consts
  <2> QED BY <2>2, OwnedAre
<1>3. ASSUME NEW a \in Nat, NEW b \in Nat, NEW d \in Nat, <<a, b>> \in G, <<b, d>> \in G
      PROVE  <<a, d>> \in G
  <2>1. a < b /\ (\/ FirstBrk <= a /\ b <= brk /\ \A x \in other : x < a \/ b <= x
                  \/ MapBase <= a /\ b <= end)
    BY <1>3, OwnedAre
  <2>2. b < d /\ (\/ FirstBrk <= b /\ d <= brk /\ \A x \in other : x < b \/ d <= x
                  \/ MapBase <= b /\ d <= end)
    BY <1>3, OwnedAre
  <2>3. a < d /\ (\/ FirstBrk <= a /\ d <= brk /\ \A x \in other : x < a \/ d <= x
                  \/ MapBase <= a /\ d <= end)
    BY <1>1, <2>1, <2>2, Consts
  <2> QED BY <2>3, OwnedAre
<1>4. ASSUME NEW b \in Nat, NEW e \in Nat, <<b, e>> \in G, e - b >= 2 PROVE e - b \in Sizes
  <2>1. b < e /\ (\/ FirstBrk <= b /\ e <= brk
                  \/ MapBase <= b /\ e <= end)
    BY <1>4, OwnedAre
  <2>2. e - b \in 2 .. MaxBrk - FirstBrk \/ e - b \in 2 .. MaxMap - MapBase
    BY <1>1, <1>4, <2>1, Consts
  <2> QED BY <2>2, MemoryAssumption
<1>5. Closed(G)
  BY <1>2, <1>3 DEF Closed
<1> QED BY <1>4, <1>5 DEF Memory

(* No interval is longer than system_mem.                                   *)
LEMMA OwnedFits ==
  ASSUME NEW a, NEW end, NEW other, Numbers(a, end, other)
  PROVE  a.sysmem \in Int /\ \A b, f \in Nat : <<b, f>> \in Owned(a.brk, end, other) => f - b <= a.sysmem
<1> DEFINE brk == a.brk
<1>1. /\ brk \in Nat /\ brk <= MaxBrk /\ brk >= FirstBrk /\ end \in Nat /\ end <= MaxMap /\ end >= MapBase /\ other \subseteq Nat
      /\ other \subseteq FirstBrk .. brk - 1
      /\ a.sysmem \in Nat /\ a.sysmem >= Obtains(brk, other) + (end - MapBase)
  BY Consts DEF Region, Numbers
<1> HIDE DEF brk
<1>2. IsFiniteSet(FirstBrk .. brk - 1) /\ Cardinality(FirstBrk .. brk - 1) = brk - FirstBrk
  <2>1. FirstBrk \in Int /\ brk - 1 \in Int /\ ~ (FirstBrk > brk - 1 /\ brk # FirstBrk) /\ (brk - 1) - FirstBrk + 1 = brk - FirstBrk
    BY <1>1, Consts
  <2>2. /\ IsFiniteSet(FirstBrk .. brk - 1)
        /\ Cardinality(FirstBrk .. brk - 1) = IF FirstBrk > brk - 1 THEN 0 ELSE (brk - 1) - FirstBrk + 1
    BY <2>1, FS_Interval
  <2> QED BY <1>1, <2>1, <2>2, Consts
<1>3. IsFiniteSet(other) /\ Cardinality(other) \in Nat /\ Cardinality(other) <= brk - FirstBrk
  BY <1>1, <1>2, FS_Subset, FS_CardinalityType
<1>4. ASSUME NEW b \in Nat, NEW f \in Nat, <<b, f>> \in Owned(brk, end, other) PROVE f - b <= a.sysmem
  <2>1. b < f /\ (\/ FirstBrk <= b /\ f <= brk /\ \A x \in other : x < b \/ f <= x
                  \/ MapBase <= b /\ f <= end)
    BY <1>4, OwnedAre
  <2>2. CASE MapBase <= b /\ f <= end
    BY <1>1, <1>3, <2>2, Consts DEF Obtains
  <2>3. CASE FirstBrk <= b /\ f <= brk /\ \A x \in other : x < b \/ f <= x
    <3> DEFINE I == b .. f - 1
               J == FirstBrk .. brk - 1
    <3>1. IsFiniteSet(I) /\ Cardinality(I) = f - b
      <4>1. b \in Int /\ f - 1 \in Int /\ ~ (b > f - 1) /\ (f - 1) - b + 1 = f - b
        BY <2>1
      <4>2. IsFiniteSet(b .. f - 1) /\ Cardinality(b .. f - 1) = IF b > f - 1 THEN 0 ELSE (f - 1) - b + 1
        BY <4>1, FS_Interval
      <4> QED BY <4>1, <4>2
    <3>2. I \cap other = {} /\ I \cup other \subseteq J
      BY <1>1, <2>3, Consts
    <3> HIDE DEF I, J
    <3>3. IsFiniteSet(I \cup other) /\ Cardinality(I \cup other) = Cardinality(I) + Cardinality(other) - Cardinality(I \cap other)
      BY <1>3, <3>1, FS_Union
    <3>4. Cardinality(I \cap other) = 0
      BY <3>2, FS_EmptySet
    <3>5. Cardinality(I \cup other) <= brk - FirstBrk
      BY <1>2, <3>2, FS_Subset DEF J
    <3> QED BY <1>1, <1>3, <3>1, <3>3, <3>4, <3>5, Consts DEF Obtains
  <2> QED BY <2>1, <2>2, <2>3
<1> QED BY <1>1, <1>4 DEF brk

(* sbrk never gave more than lies between its first break and the last.     *)
LEMMA ObtainsNat ==
  ASSUME NEW brk, NEW end, NEW other, Region(brk, end, other)
  PROVE  Obtains(brk, other) \in Nat /\ IsFiniteSet(other) /\ Cardinality(other) \in Nat
<1>1. brk \in Nat /\ brk >= FirstBrk /\ other \subseteq FirstBrk .. brk - 1 /\ FirstBrk \in Int /\ brk - 1 \in Int
      /\ (brk - 1) - FirstBrk + 1 = brk - FirstBrk
  BY Consts DEF Region
<1>2. IsFiniteSet(FirstBrk .. brk - 1)
      /\ Cardinality(FirstBrk .. brk - 1) = IF FirstBrk > brk - 1 THEN 0 ELSE (brk - 1) - FirstBrk + 1
  BY <1>1, FS_Interval
<1>3. IsFiniteSet(other) /\ Cardinality(other) \in Nat /\ Cardinality(other) <= Cardinality(FirstBrk .. brk - 1)
  BY <1>1, <1>2, FS_Subset, FS_CardinalityType
<1> QED BY <1>1, <1>2, <1>3, Consts DEF Obtains

(* Where a chunk can be.                                                    *)
LEMMA ChunkPlaces ==
  ASSUME NEW c, Headers(c), NEW brk, NEW end, NEW other, Region(brk, end, other), Within(c, Owned(brk, end, other)),
         NEW u \in DOMAIN c
  PROVE  /\ u \in Nat /\ c[u].size \in Nat
         /\ \/ FirstBrk <= u /\ u < brk /\ u + c[u].size <= brk
               /\ \A x \in other : c[u].size > 0 => x < u \/ u + c[u].size <= x
            \/ MapBase <= u /\ u < end /\ u + c[u].size <= end
<1>1. u \in Nat /\ c[u].size \in Nat /\ Span(c, u) \in Owned(brk, end, other)
  BY Fields DEF Within
<1> DEFINE e == IF c[u].size = 0 THEN u + 1 ELSE u + c[u].size
<1>2. e \in Nat /\ <<u, e>> \in Owned(brk, end, other)
  BY <1>1 DEF Span
<1>3. e >= u + c[u].size /\ (c[u].size > 0 => e = u + c[u].size)
  BY <1>1
<1> HIDE DEF e
<1>4. /\ u < e
      /\ \/ FirstBrk <= u /\ e <= brk /\ \A x \in other : x < u \/ e <= x
         \/ MapBase <= u /\ e <= end
  BY <1>1, <1>2, OwnedAre
<1>5. brk \in Int /\ end \in Int
  BY DEF Region
<1>6. CASE FirstBrk <= u /\ e <= brk /\ \A x \in other : x < u \/ e <= x
  BY <1>1, <1>2, <1>3, <1>4, <1>5, <1>6
<1>7. CASE MapBase <= u /\ e <= end
  BY <1>1, <1>2, <1>3, <1>4, <1>5, <1>7
<1> QED BY <1>4, <1>6, <1>7

(* Other fields do not matter to soundness.                                 *)
LEMMA SoundKept ==
  ASSUME NEW a, NEW F, NEW X, NEW G, Sound(a, F, X, G), NEW d, NEW S, Differs(a, d, S),
         "chunk" \notin S, "bins" \notin S, "top" \notin S
  PROVE  Sound(d, F, X, G)
<1>1. IsArena(a)
  BY DEF Sound
<1>2. IsArena(d) /\ d.chunk = a.chunk /\ d.bins = a.bins /\ d.top = a.top
  BY <1>1, KeptFields
<1> QED BY <1>2 DEF Sound

(* An operation on chunks that leaves the arena sound leaves it good.       *)
ChunkFields == {"chunk", "bins", "binmap", "top", "last", "maxmem"}

(* Operations on chunks leave the other numbers alone.                      *)
LEMMA NumbersKept ==
  ASSUME NEW a, NEW end, NEW other, Numbers(a, end, other), IsArena(a), NEW d, Differs(a, d, ChunkFields)
  PROVE  Numbers(d, end, other) /\ d.brk = a.brk /\ d.contig = a.contig /\ d.sysmem = a.sysmem
<1>1. d.brk = a.brk /\ d.contig = a.contig /\ d.sysmem = a.sysmem /\ d.main = a.main /\ d.bad = a.bad
  BY DEF Differs, ChunkFields, Numbers, IsArena, ArenaFields
<1>2. DOMAIN d = DOMAIN a
  BY DEF Differs
<1> QED BY <1>1, <1>2 DEF Numbers

(* An operation on chunks that leaves the arena sound leaves it good.       *)
LEMMA GoodAgain ==
  ASSUME NEW a, NEW X, NEW end, NEW other, Good(a, X, end, other), NEW d, NEW Y, Differs(a, d, ChunkFields),
         (\A q \in DOMAIN a.chunk : q <= a.top) => \A q \in DOMAIN d.chunk : q <= d.top,
         \E F : Sound(d, F, Y, Owned(a.brk, end, other))
  PROVE  Good(d, Y, end, other)
<1>1. Numbers(a, end, other) /\ IsArena(a) /\ (a.contig => \A q \in DOMAIN a.chunk : q <= a.top)
  BY DEF Good, Sound
<1>2. Numbers(d, end, other) /\ d.brk = a.brk /\ d.contig = a.contig
  BY <1>1, NumbersKept
<1> QED BY <1>1, <1>2 DEF Good

----------------------------------------------------------------------------
(* Small facts on remainders.                                               *)
LEMMA ModWord ==
  ASSUME NEW x \in Nat, x < Word
  PROVE  x % Word = x /\ (x - Word) % Word = x
<1>1. Word \in Nat \ {0} /\ x \in 0 .. Word - 1
  BY Consts
<1> DEFINE z == 0
           m == 0 - 1
<1>2. z \in Int /\ m \in Int /\ Word * z + x = x /\ Word * m + x = x - Word
  BY <1>1
<1>3. (Word * z + x) % Word = x /\ (Word * m + x) % Word = x
  <2> HIDE DEF z, m
  <2> QED BY <1>1, <1>2, DivModUnique
<1> QED BY <1>2, <1>3

(* What systrim asks sbrk to take back.                                     *)
Extra(a, pad) == Signed(AlignDown((((TopSize(a) - MinSize - 1) % Word) - pad) % Word, Page))

(* systrim takes back, or gives, but never leaves less than MINSIZE.        *)
LEMMA ExtraIs ==
  ASSUME NEW a, TopSize(a) \in Nat, TopSize(a) >= 2, TopSize(a) <= MaxMap,
         NEW pad \in Nat, pad + Page <= Word \div 2, ~ ((TopSize(a) - MinSize - 1) % Word <= pad)
  PROVE  /\ Extra(a, pad) \in Int /\ TopSize(a) - Extra(a, pad) >= 2
         /\ TopSize(a) >= 3 => TopSize(a) - Extra(a, pad) >= pad + 3
<1> DEFINE T  == TopSize(a)
           t  == (T - MinSize - 1) % Word
           hw == Word \div 2
           z  == t - pad
           w  == AlignDown(z % Word, Page)
<1>1. /\ T \in Nat /\ T >= 2 /\ T <= MaxMap /\ Word \in Nat /\ MaxMap \in Nat /\ Word > 2 * MaxMap
      /\ Page \in Nat /\ Page >= 2 /\ MinSize = 2
  BY Consts
<1>2. hw \in Nat /\ Word >= 2 * hw /\ Word <= 2 * hw + 1 /\ MaxMap <= hw /\ pad + Page <= hw
  BY <1>1
<1>3. T = 2 => t = Word - 1
  <2>1. Word - 1 \in Nat /\ Word - 1 < Word /\ (Word - 1) - Word = 0 - 1
    BY <1>1
  <2>2. ((Word - 1) - Word) % Word = Word - 1
    BY <2>1, ModWord
  <2> QED BY <1>1, <2>1, <2>2
<1>4. T >= 3 => t = T - 3
  <2> SUFFICES ASSUME T >= 3 PROVE t = T - 3
    OBVIOUS
  <2>1. T - 3 \in Nat /\ T - 3 < Word /\ T - MinSize - 1 = T - 3
    BY <1>1
  <2>2. (T - 3) % Word = T - 3
    BY <2>1, ModWord
  <2> QED BY <2>1, <2>2
<1>5. Extra(a, pad) = Signed(w) /\ ~ (t <= pad)
  BY DEF Extra
<1> HIDE DEF T, t, hw
<1>6. t \in Nat /\ t < Word /\ (T = 2 \/ T >= 3)
  BY <1>1, <1>3, <1>4
<1>7. z \in Nat /\ z < Word /\ z >= 1
  BY <1>1, <1>5, <1>6
<1>8. z % Word = z
  BY <1>7, ModWord
<1>9. w \in Int /\ w <= z /\ w > z - Page /\ w >= 0
  <2>1. w = AlignDown(z, Page)
    BY <1>8
  <2> HIDE DEF w, z
  <2> QED BY <1>7, <2>1, DownIs
<1>10. Signed(w) = IF w >= hw THEN w - Word ELSE w
  BY DEF Signed, hw
<1> HIDE DEF w
<1>11. CASE T >= 3
  BY <1>1, <1>2, <1>4, <1>5, <1>7, <1>9, <1>10, <1>11 DEF T
<1>12. CASE T = 2
  <2>1. w >= hw
    BY <1>1, <1>2, <1>3, <1>7, <1>9, <1>12
  <2> QED BY <1>1, <1>2, <1>5, <1>7, <1>9, <1>10, <1>12, <2>1 DEF T
<1> QED BY <1>6, <1>11, <1>12

(* What free may trim of a top of size n leaves top_pad, at least.          *)
TopLeft(n, d) == \A m \in 3 .. TopPad + 3 : n >= m => TopSize(d) >= m

(* A top below trim_threshold, or one that does not end at the break, stays. *)
TopHolds(n, e, brk, d) == n < TrimThreshold \/ e # brk => TopSize(d) = n

(* GiveBack, on the fields.                                                 *)
LEMMA GiveBackIs ==
  ASSUME NEW a, IsArena(a), NEW x, NEW d, d = GiveBack(a, x)
  PROVE  /\ Differs(a, d, {"chunk", "brk", "sysmem"}) /\ d.chunk = UsedHead(a.chunk, a.top, a.chunk[a.top].size - x)
         /\ d.brk = a.brk - x /\ d.sysmem = a.sysmem - x
BY DEF GiveBack, SetHead, UsedHead, TopSize, SizeOf, IsArena, ArenaFields, Differs

(* The end of top moves with the break.                                     *)
LEMMA ResizeTopIs ==
  ASSUME NEW a, NEW X, NEW end, NEW other, Good(a, X, end, other), a.brk = TopEnd(a),
         NEW x \in Int, a.chunk[a.top].size - x >= 2, ~ (a.brk - x > MaxBrk),
         NEW d, Differs(a, d, {"chunk", "brk", "sysmem"}),
         d.chunk = UsedHead(a.chunk, a.top, a.chunk[a.top].size - x), d.brk = a.brk - x, d.sysmem = a.sysmem - x
  PROVE  Good(d, X, end, other) /\ \A u \in X : d.chunk[u].size = a.chunk[u].size
<1> DEFINE c   == a.chunk
           top == a.top
           n   == c[top].size - x
           brk == a.brk
           new == a.brk - x
<1>1. brk = TopEnd(a) /\ ~ (brk - x > MaxBrk)
  OBVIOUS
<1>2. PICK F : Sound(a, F, X, Owned(brk, end, other))
  BY DEF Good
<1>3. /\ IsArena(a) /\ Tiled(c, top, F, X, Owned(brk, end, other)) /\ Lists(a.bins, F) /\ Sorted(c, a.bins)
      /\ Headers(c) /\ Within(c, Owned(brk, end, other)) /\ Ordered(c)
  BY <1>2 DEF Sound, Tiled
<1>4. /\ top \in DOMAIN c /\ top \in Nat /\ c[top].size \in Nat /\ c[top].size >= 2 /\ top \notin X /\ X \subseteq DOMAIN c
      /\ top \notin F /\ F \subseteq DOMAIN c
  BY <1>3, Fields DEF Tiled, Parts
<1>5. Numbers(a, end, other) /\ Region(brk, end, other) /\ (a.contig => \A q \in DOMAIN c : q <= top)
  BY DEF Good, Numbers
<1>6. brk \in Nat /\ brk <= MaxBrk /\ brk >= FirstBrk /\ end \in Nat /\ end >= MapBase /\ end <= MaxMap
      /\ other \subseteq FirstBrk .. brk - 1 /\ brk = top + c[top].size /\ TopSize(a) = c[top].size
  BY <1>1, <1>5, Consts DEF Region, TopEnd, NextOf, SizeOf, TopSize
<1>7. FirstBrk <= top /\ \A y \in other : y < top
  <2>1. \/ FirstBrk <= top /\ \A y \in other : c[top].size > 0 => y < top \/ top + c[top].size <= y
        \/ MapBase <= top
    BY <1>3, <1>4, <1>5, ChunkPlaces
  <2>2. ~ (MapBase <= top)
    BY <1>4, <1>6, Consts
  <2>3. \A y \in other : y \in Int /\ y < brk
    BY <1>6, Consts
  <2>4. c[top].size > 0 /\ top + c[top].size = brk
    BY <1>4, <1>6
  <2> HIDE DEF brk, c, top
  <2> QED BY ONLY <1>6, <2>1, <2>2, <2>3, <2>4
<1>8. x \in Int /\ n >= 2 /\ n \in Nat
  BY <1>4
<1>9. new = top + n /\ new \in Nat /\ new <= MaxBrk /\ new >= FirstBrk
  BY <1>1, <1>4, <1>6, <1>7, <1>8, Consts
<1>10. Region(new, end, other)
  <2>1. \A y \in other : y \in FirstBrk .. new - 1
    BY <1>4, <1>6, <1>7, <1>8, <1>9
  <2> QED BY <1>5, <1>9, <2>1, Consts DEF Region
<1>11. /\ Differs(a, d, {"chunk", "brk", "sysmem"}) /\ d.chunk = UsedHead(c, top, n)
       /\ d.brk = new /\ d.sysmem = a.sysmem - x
  OBVIOUS
<1>12. Numbers(d, end, other)
  <2>1. Obtains(new, other) \in Nat
    BY <1>10, ObtainsNat
  <2>2. Obtains(brk, other) \in Nat /\ Obtains(new, other) = Obtains(brk, other) - x
    BY <1>5, <1>6, <1>8, <1>9, ObtainsNat, Consts DEF Obtains
  <2>3. a.sysmem \in Nat /\ a.sysmem >= Obtains(brk, other) + (end - MapBase)
    BY <1>5 DEF Numbers
  <2>4. d.sysmem \in Nat /\ d.sysmem >= Obtains(new, other) + (end - MapBase)
    BY <1>6, <1>8, <1>11, <2>1, <2>2, <2>3, Consts
  <2>5. DOMAIN d = DOMAIN a /\ d.main = a.main /\ d.bad = a.bad /\ d.contig = a.contig
    BY <1>3, <1>5, <1>11 DEF Differs, Numbers, IsArena, ArenaFields
  <2> QED BY <1>5, <1>10, <1>11, <2>4, <2>5 DEF Numbers
<1>13. IsArena(d) /\ d.bins = a.bins /\ d.top = top
  BY <1>3, <1>11, KeptFields
<1> DEFINE H == Owned(new, end, other)
           G == Owned(brk, end, other)
           v == UsedHead(c, top, n)
<1>14. \A u \in DOMAIN c : u > top => top + n <= u
  <2> SUFFICES ASSUME NEW u \in DOMAIN c, u > top PROVE top + n <= u
    OBVIOUS
  <2>1. u \in Nat /\ (u < brk \/ MapBase <= u)
    BY <1>3, <1>5, ChunkPlaces
  <2>2. End(c, top) <= u
    BY <1>3, <1>4 DEF Ordered
  <2> QED BY <1>4, <1>6, <1>8, <1>9, <2>1, <2>2, Consts DEF End
<1>15. <<top, top + n>> \in H
  <2>1. top + n \in Nat /\ top < top + n /\ FirstBrk <= top /\ top + n <= new /\ \A y \in other : y < top \/ top + n <= y
    BY <1>4, <1>7, <1>8, <1>9
  <2> HIDE DEF n, new
  <2> QED BY <1>4, <2>1, OwnedAre
<1>16. \A u \in DOMAIN c \ {top} : Span(c, u) \in H
  <2> SUFFICES ASSUME NEW u \in DOMAIN c, u # top PROVE Span(c, u) \in H
    OBVIOUS
  <2> DEFINE e == IF c[u].size = 0 THEN u + 1 ELSE u + c[u].size
  <2>1. u \in Nat /\ c[u].size \in Nat /\ Span(c, u) \in G /\ Span(c, u) = <<u, e>> /\ e \in Nat /\ e >= u + 1
    BY <1>3, Fields DEF Within, Span
  <2>2. \/ FirstBrk <= u /\ e <= brk /\ \A y \in other : y < u \/ e <= y
        \/ MapBase <= u /\ e <= end
    BY <2>1, OwnedAre
  <2>3. u < top => e <= top
    BY <1>3, <1>4, <2>1 DEF Ordered, End
  <2>4. u > top => u >= brk
    BY <1>3, <1>4, <1>6, <2>1 DEF Ordered, End
  <2> HIDE DEF e
  <2>5. \/ FirstBrk <= u /\ e <= new /\ \A y \in other : y < u \/ e <= y
        \/ MapBase <= u /\ e <= end
    BY <1>4, <1>6, <1>8, <1>9, <2>1, <2>2, <2>3, <2>4
  <2> QED BY <2>1, <2>5, OwnedAre
<1> HIDE DEF G, H, v, n, c, top
<1>17. /\ Tiled(v, top, F, X, H)
       /\ DOMAIN v = DOMAIN c /\ v[top].size = n
       /\ \A q \in DOMAIN c \ {top} : v[q].size = c[q].size
  <2>1. Tiled(c, top, F, X, G)
    BY <1>3 DEF G
  <2>2. /\ Tiled(UsedHead(c, top, n), top, F, X, H)
        /\ DOMAIN UsedHead(c, top, n) = DOMAIN c /\ UsedHead(c, top, n)[top].size = n
        /\ \A q \in DOMAIN c \ {top} : UsedHead(c, top, n)[q].size = c[q].size
    BY ONLY <1>8, <1>14, <1>15, <1>16, <2>1, SizeTopIs
  <2> QED BY <2>2 DEF v
<1>18. Sorted(v, a.bins)
  BY <1>3, <1>4, <1>17, SortedSame
<1>19. Sound(d, F, X, H)
  BY <1>3, <1>11, <1>13, <1>17, <1>18 DEF Sound, v
<1>20. d.contig = a.contig
  BY <1>3, <1>11 DEF Differs, IsArena, ArenaFields
<1>21. Good(d, X, end, other)
  BY <1>5, <1>11, <1>12, <1>13, <1>17, <1>19, <1>20 DEF Good, H, v
<1> QED BY <1>4, <1>11, <1>17, <1>21 DEF v, c

(* systrim keeps the arena good.                                            *)
LEMMA SystrimIs ==
  ASSUME NEW a, NEW X, NEW end, NEW other, Good(a, X, end, other),
         NEW pad \in Nat, pad + Page <= Word \div 2, NEW ok, NEW d, d = Systrim(a, pad, ok)
  PROVE  /\ Good(d, X, end, other) /\ \A u \in X : d.chunk[u].size = a.chunk[u].size
         /\ pad = TopPad => TopLeft(TopSize(a), d)
<1> DEFINE x   == Extra(a, pad)
           c   == a.chunk
           top == a.top
           G   == Owned(a.brk, end, other)
<1>0. CASE d = a
  BY <1>0 DEF TopLeft
<1>1. CASE d # a
  <2>1. d = GiveBack(a, x) /\ ~ ((TopSize(a) - MinSize - 1) % Word <= pad) /\ a.brk = TopEnd(a) /\ ~ (a.brk - x > MaxBrk)
    BY <1>1 DEF Systrim, Extra
  <2>2. PICK F : Sound(a, F, X, G)
    BY DEF Good
  <2>3. IsArena(a) /\ Headers(c) /\ Within(c, G) /\ Region(a.brk, end, other) /\ top \in DOMAIN c /\ c[top].size >= 2
    BY <2>2 DEF Sound, Tiled, Parts, Good, Numbers
  <2>4. top \in Nat /\ c[top].size \in Nat /\ top + c[top].size = a.brk /\ TopSize(a) = c[top].size
    BY <2>1, <2>3, Fields DEF TopEnd, NextOf, SizeOf, TopSize
  <2>5. c[top].size <= MaxMap
    <3>1. a.brk \in Nat /\ a.brk <= MaxBrk
      BY <2>3, Consts DEF Region
    <3> QED BY <2>4, <3>1, Consts
  <2>6. x \in Int /\ c[top].size - x >= 2 /\ (c[top].size >= 3 => c[top].size - x >= pad + 3)
    BY <2>1, <2>3, <2>4, <2>5, ExtraIs
  <2> HIDE DEF x
  <2>7. /\ Differs(a, d, {"chunk", "brk", "sysmem"}) /\ d.chunk = UsedHead(c, top, c[top].size - x)
        /\ d.brk = a.brk - x /\ d.sysmem = a.sysmem - x
    BY <2>1, <2>3, GiveBackIs
  <2>8. d.top = top
    BY <2>3, <2>7, KeptFields
  <2>9. TopSize(d) = c[top].size - x
    BY <2>3, <2>7, <2>8 DEF UsedHead, TopSize, SizeOf
  <2>10. pad = TopPad => TopLeft(TopSize(a), d)
    <3> SUFFICES ASSUME pad = TopPad, NEW m \in 3 .. TopPad + 3, c[top].size >= m PROVE c[top].size - x >= m
      BY <2>4, <2>9 DEF TopLeft
    <3>1. m \in Int /\ m >= 3 /\ m <= pad + 3
      BY Consts
    <3> QED BY <2>4, <2>6, <3>1
  <2> QED BY <2>1, <2>6, <2>7, <2>10, ResizeTopIs
<1> QED BY <1>0, <1>1

(* The bound on a pad that MemoryAssumption gives.                          *)
LEMMA Pads == \A pad \in TrimPads \cup {TopPad} : pad \in Nat /\ pad + Page <= Word \div 2
BY MemoryAssumption

(* _int_free_maybe_trim                                                     *)
LEMMA MaybeTrimIs ==
  ASSUME NEW a, NEW X, NEW end, NEW other, Good(a, X, end, other), NEW size, NEW d \in MaybeTrim(a, size)
  PROVE  /\ Good(d, X, end, other) /\ \A u \in X : d.chunk[u].size = a.chunk[u].size
         /\ TopLeft(TopSize(a), d) /\ TopHolds(TopSize(a), TopEnd(a), a.brk, d)
<1>1. a.main
  BY DEF Good, Numbers
<1>2. d = a \/ \E ok \in SysOutcomes : d = Systrim(a, TopPad, ok)
  BY <1>1 DEF MaybeTrim
<1>3. ASSUME NEW ok \in SysOutcomes, d = Systrim(a, TopPad, ok)
      PROVE  /\ Good(d, X, end, other) /\ \A u \in X : d.chunk[u].size = a.chunk[u].size
             /\ TopLeft(TopSize(a), d)
  <2>1. TopPad \in Nat /\ TopPad + Page <= Word \div 2
    BY Pads
  <2> QED BY <1>3, <2>1, SystrimIs
<1>4. d = a => TopLeft(TopSize(a), d)
  BY DEF TopLeft
<1>5. TopSize(a) \in Nat
  <2>1. PICK F : Sound(a, F, X, Owned(a.brk, end, other))
    BY DEF Good
  <2>2. Headers(a.chunk) /\ a.top \in DOMAIN a.chunk
    BY <2>1 DEF Sound, Tiled, Parts
  <2> QED BY <2>2, Fields DEF TopSize, SizeOf
<1>6. TopHolds(TopSize(a), TopEnd(a), a.brk, d)
  <2>1. TopSize(a) < TrimThreshold \/ TopEnd(a) # a.brk => d = a
    BY <1>1, <1>5, HeapsAssumption DEF MaybeTrim, Systrim
  <2> QED BY <1>5, <2>1 DEF TopHolds
<1> QED BY <1>2, <1>3, <1>4, <1>6

(* The operations of a free but the merge with top leave top where it is.   *)
TopKept(a, d) == DOMAIN d = DOMAIN a /\ d.top = a.top

(* Each of them keeps it.                                                   *)
LEMMA TopKeptBy ==
  ASSUME NEW a, "top" \in DOMAIN a, NEW p, NEW n, NEW b
  PROVE  /\ TopKept(a, SetHead(a, p, n, b)) /\ TopKept(a, SetFoot(a, p, n)) /\ TopKept(a, ClearInUseBit(a, p))
         /\ TopKept(a, DropHead(a, p)) /\ TopKept(a, Unlink(a, p)) /\ TopKept(a, PushFront(a, n, p))
         /\ TopKept(a, MarkBin(a, n))
<1>1. TopKept(a, SetHead(a, p, n, b)) /\ TopKept(a, SetFoot(a, p, n)) /\ TopKept(a, ClearInUseBit(a, p))
  BY DEF TopKept, SetHead, SetFoot, ClearInUseBit
<1>2. TopKept(a, DropHead(a, p)) /\ TopKept(a, Unlink(a, p))
  BY DEF TopKept, DropHead, Unlink
<1>3. TopKept(a, PushFront(a, n, p)) /\ TopKept(a, MarkBin(a, n))
  BY DEF TopKept, PushFront, MarkBin
<1> QED BY <1>1, <1>2, <1>3

(* _int_free_create_chunk below anything but top.                           *)
LEMMA CreateTopKept ==
  ASSUME NEW a, "top" \in DOMAIN a, NEW p, NEW sz, p + sz # a.top
  PROVE  CreateChunk(a, p, sz).av.top = a.top
<1> DEFINE q  == p + sz
           n  == IF Borders(a, q) THEN sz + SizeOf(a, q) ELSE sz
           a0 == Unlink(a, q)
           a1 == IF Borders(a, q) THEN DropHead(a0, q) ELSE ClearInUseBit(a, q)
           f  == PushFront(a1, BinIndex[n], p)
           a2 == IF InSmallbinRange(n) THEN MarkBin(f, BinIndex[n]) ELSE PushFront(a1, Unsorted, p)
           a3 == SetHead(a2, p, n, TRUE)
           a4 == SetFoot(a3, p, n)
<1>1. CreateChunk(a, p, sz).av = a4
  BY DEF CreateChunk
<1>2. /\ a0 = Unlink(a, q) /\ a1 = (IF Borders(a, q) THEN DropHead(a0, q) ELSE ClearInUseBit(a, q))
      /\ f = PushFront(a1, BinIndex[n], p)
      /\ a2 = (IF InSmallbinRange(n) THEN MarkBin(f, BinIndex[n]) ELSE PushFront(a1, Unsorted, p))
      /\ a3 = SetHead(a2, p, n, TRUE) /\ a4 = SetFoot(a3, p, n)
  OBVIOUS
<1> HIDE DEF a0, a1, a2, a3, a4, f, n, q
<1>3. TopKept(a, a0)
  BY <1>2, TopKeptBy
<1>4. TopKept(a, a1)
  BY <1>2, <1>3, TopKeptBy DEF TopKept
<1>5. TopKept(a, f)
  BY <1>2, <1>4, TopKeptBy DEF TopKept
<1>6. TopKept(a, a2)
  <2>1. "top" \in DOMAIN a1 /\ "top" \in DOMAIN f
    BY <1>4, <1>5 DEF TopKept
  <2>2. TopKept(a1, PushFront(a1, Unsorted, p)) /\ TopKept(f, MarkBin(f, BinIndex[n]))
    BY <2>1, TopKeptBy
  <2> QED BY <1>2, <1>4, <1>5, <2>2 DEF TopKept
<1>7. TopKept(a, a3)
  <2>1. "top" \in DOMAIN a2
    BY <1>6 DEF TopKept
  <2>2. TopKept(a2, SetHead(a2, p, n, TRUE))
    BY <2>1, TopKeptBy
  <2> QED BY <1>2, <1>6, <2>2 DEF TopKept
<1>8. TopKept(a, a4)
  <2>1. "top" \in DOMAIN a3
    BY <1>7 DEF TopKept
  <2>2. TopKept(a3, SetFoot(a3, p, n))
    BY <2>1, TopKeptBy
  <2> QED BY <1>2, <1>7, <2>2 DEF TopKept
<1> QED BY <1>1, <1>8 DEF TopKept

(* _int_free_merge_chunk below anything but top.                            *)
LEMMA MergeTopKept ==
  ASSUME NEW a, "top" \in DOMAIN a, NEW p \in Nat, NEW sz \in Nat, p + sz # a.top, a.chunk[p].prev \in Nat
  PROVE  MergeChunk(a, p, sz).av.top = a.top
<1>1. CASE PrevInUse(a, p)
  BY <1>1, CreateTopKept DEF MergeChunk
<1>2. CASE ~ PrevInUse(a, p)
  <2> DEFINE v  == PrevOf(a, p)
             n  == p + sz - v
             a0 == Unlink(a, v)
             a1 == DropHead(a0, p)
  <2>1. MergeChunk(a, p, sz) = CreateChunk(a1, v, n)
    BY <1>2 DEF MergeChunk
  <2>2. v + n = p + sz
    <3>1. v \in Int
      BY DEF PrevOf
    <3> HIDE DEF v
    <3> QED BY <3>1
  <2>3. a0 = Unlink(a, v) /\ a1 = DropHead(a0, p)
    OBVIOUS
  <2> HIDE DEF a0, a1, v, n
  <2>4. TopKept(a, a0)
    BY <2>3, TopKeptBy
  <2>5. TopKept(a, a1)
    BY <2>3, <2>4, TopKeptBy DEF TopKept
  <2>6. CreateChunk(a1, v, n).av.top = a1.top
    BY <2>2, <2>5, CreateTopKept DEF TopKept
  <2> QED BY <2>1, <2>5, <2>6 DEF TopKept
<1> QED BY <1>1, <1>2

(* free of a chunk in use.                                                  *)
LEMMA FreeChunkIs ==
  ASSUME NEW a, NEW X, NEW end, NEW other, Good(a, X, end, other), NEW p \in X,
         NEW sz, sz = a.chunk[p].size, NEW d \in FreeChunk(a, p, sz)
  PROVE  /\ Good(d, X \ {p}, end, other) /\ \A u \in X \ {p} : d.chunk[u].size = a.chunk[u].size
         /\ TopLeft(TopSize(a), d) /\ (p + sz # a.top => TopHolds(TopSize(a), TopEnd(a), a.brk, d))
<1> DEFINE G == Owned(a.brk, end, other)
           r == MergeChunk(a, p, sz)
           m == r.av
<1>1. PICK F : Sound(a, F, X, G)
  BY DEF Good
<1>2. Numbers(a, end, other) /\ (a.contig => \A q \in DOMAIN a.chunk : q <= a.top)
  BY DEF Good
<1>3. Memory(G)
  BY <1>2, OwnedMemory DEF Numbers
<1>4. a.sysmem \in Int /\ \A b, f \in Nat : <<b, f>> \in G => f - b <= a.sysmem
  BY <1>2, OwnedFits
<1> HIDE DEF G
<1>5. FreeChecks(a, p, sz)
  BY <1>1, <1>2, <1>3, <1>4, FreeChecksHold
<1>6. d \in MaybeTrim(m, r.size)
  BY <1>5 DEF FreeChunk
<1>7. (\E H : Sound(m, H, X \ {p}, G)) /\ Leaves(a, a.chunk, m, X \ {p})
  BY <1>1, <1>3, MergeChunkIs
<1> HIDE DEF m, r
<1>8. Good(m, X \ {p}, end, other) /\ m.brk = a.brk
  <2>1. Differs(a, m, ChunkFields)
    BY <1>7 DEF Leaves, Differs, FreeFields, ChunkFields
  <2>2. (\A q \in DOMAIN a.chunk : q <= a.top) => \A q \in DOMAIN m.chunk : q <= m.top
    BY <1>7 DEF Leaves
  <2>3. m.brk = a.brk
    BY <1>1, <2>1 DEF Sound, IsArena, ArenaFields, Differs, ChunkFields
  <2> QED BY <1>7, <2>1, <2>2, <2>3, GoodAgain DEF G
<1>9. /\ Good(d, X \ {p}, end, other) /\ (\A u \in X \ {p} : d.chunk[u].size = m.chunk[u].size) /\ TopLeft(TopSize(m), d)
      /\ TopHolds(TopSize(m), TopEnd(m), m.brk, d)
  BY <1>6, <1>8, MaybeTrimIs
<1>10. \A u \in X \ {p} : m.chunk[u].size = a.chunk[u].size
  BY <1>7 DEF Leaves
<1>11. TopSize(m) \in Nat /\ TopSize(a) \in Nat /\ TopSize(m) >= TopSize(a)
  <2>1. Headers(a.chunk) /\ a.top \in DOMAIN a.chunk
    BY <1>1 DEF Sound, Tiled, Parts
  <2>2. Headers(m.chunk) /\ m.top \in DOMAIN m.chunk
    BY <1>8 DEF Good, Sound, Tiled, Parts
  <2>3. a.top \in Nat /\ a.chunk[a.top].size \in Nat /\ m.top \in Nat /\ m.chunk[m.top].size \in Nat
    BY <2>1, <2>2, Fields
  <2>4. m.top <= a.top /\ m.top + m.chunk[m.top].size = a.top + a.chunk[a.top].size
    BY <1>7 DEF Leaves, End
  <2> QED BY <2>3, <2>4 DEF TopSize, SizeOf
<1>12. TopLeft(TopSize(a), d)
  <2> SUFFICES ASSUME NEW k \in 3 .. TopPad + 3, TopSize(a) >= k PROVE TopSize(d) >= k
    BY DEF TopLeft
  <2>1. TopSize(m) >= k
    BY <1>11, Consts
  <2> QED BY <1>9, <2>1 DEF TopLeft
<1>13. ASSUME p + sz # a.top PROVE TopHolds(TopSize(a), TopEnd(a), a.brk, d)
  <2>1. Headers(a.chunk) /\ p \in DOMAIN a.chunk /\ a.top \in DOMAIN a.chunk /\ IsArena(a)
    BY <1>1 DEF Sound, Tiled, Parts
  <2>2. /\ p \in Nat /\ sz \in Nat /\ a.chunk[p].prev \in Nat /\ "top" \in DOMAIN a
        /\ a.top \in Nat /\ a.chunk[a.top].size \in Nat
    BY <2>1, Fields DEF IsArena, ArenaFields
  <2>3. m.top = a.top
    BY <1>13, <2>2, MergeTopKept DEF m, r
  <2>4. m.top \in DOMAIN m.chunk /\ Headers(m.chunk)
    BY <1>8 DEF Good, Sound, Tiled, Parts
  <2>5. m.chunk[m.top].size \in Nat
    BY <2>4, Fields
  <2>6. m.top + m.chunk[m.top].size = a.top + a.chunk[a.top].size
    BY <1>7 DEF Leaves, End
  <2>7. m.chunk[m.top].size = a.chunk[a.top].size
    BY <2>2, <2>3, <2>5, <2>6
  <2>8. TopSize(m) = TopSize(a) /\ TopEnd(m) = TopEnd(a)
    BY <2>3, <2>7 DEF TopSize, TopEnd, NextOf, SizeOf
  <2> QED BY <1>8, <1>9, <2>8
<1> QED BY <1>9, <1>10, <1>12, <1>13

----------------------------------------------------------------------------
(* Headers written in two orders.                                           *)
LEMMA NewHeadSet ==
  ASSUME NEW c, NEW p, NEW n, NEW b, NEW e, p # e
  PROVE  NewHead(SetBit(c, e), p, n, b) = SetBit(NewHead(c, p, n, b), e)
BY DEF NewHead, SetBit

(* A header written twice holds what was written last.                      *)
LEMMA NewHeadTwice ==
  ASSUME NEW c, NEW p, NEW m, NEW n, NEW b, NEW z
  PROVE  NewHead(NewHead(c, p, m, z), p, n, b) = NewHead(c, p, n, b)
BY DEF NewHead

(* What a header holds after it was written.                                *)
LEMMA NewHeadAt ==
  ASSUME NEW c, NEW p, NEW n, NEW b, NEW e, p # e
  PROVE  /\ SetBit(NewHead(c, p, n, b), e)[p] = NewHead(c, p, n, b)[p]
         /\ NewHead(c, p, n, b)[p].size = n /\ NewHead(c, p, n, b)[p].pinuse = b
BY DEF NewHead, SetBit

(* The headers of a chunk written as one of size sz and then split at nb,   *)
(* as the code writes them.                                                 *)
LEMMA CutHeads ==
  ASSUME NEW c, NEW p, NEW sz \in Nat, NEW nb \in Nat, p + sz # p, p + nb # p + sz, NEW b,
         NEW c1, c1 = SetBit(NewHead(c, p, sz, b), p + sz)
  PROVE  Split(c1, p, nb) = SetBit(UsedHead(NewHead(c, p, nb, b), p + nb, sz - nb), p + sz)
<1> DEFINE e == p + sz
           r == p + nb
           n == sz - nb
           h == NewHead(c, p, sz, b)
<1>1. e # p /\ r # e /\ c1 = SetBit(h, e)
  OBVIOUS
<1>2. h[p].size = sz /\ h[p].pinuse = b /\ SetBit(h, e)[p] = h[p]
  BY <1>1, NewHeadAt
<1>3. Split(c1, p, nb) = UsedHead(NewHead(c1, p, nb, b), r, n)
  BY <1>1, <1>2 DEF Split
<1>4. NewHead(h, p, nb, b) = NewHead(c, p, nb, b)
  BY NewHeadTwice
<1> HIDE DEF h, e, r, n
<1>5. NewHead(SetBit(h, e), p, nb, b) = SetBit(NewHead(h, p, nb, b), e)
  BY <1>1, NewHeadSet
<1>6. UsedHead(SetBit(NewHead(c, p, nb, b), e), r, n) = SetBit(UsedHead(NewHead(c, p, nb, b), r, n), e)
  BY <1>1, HeadSet
<1> QED BY <1>1, <1>3, <1>4, <1>5, <1>6 DEF e, r, n

Tailed(d, X, p, nb, c) == d.chunk[p].size >= nb /\ \A u \in X \ {p} : d.chunk[u].size = c[u].size

(* A chunk of size sz, that c1 takes for one chunk in use, is cut down.     *)
LEMMA CutTailIs ==
  ASSUME NEW a, IsArena(a), NEW end, NEW other, Numbers(a, end, other), NEW p, NEW sz \in Nat, NEW F, NEW X,
         NEW c1, c1 = SetBit(NewHead(a.chunk, p, sz, a.chunk[p].pinuse), p + sz),
         Tiled(c1, a.top, F, X, Owned(a.brk, end, other)), p \in X, Lists(a.bins, F), Sorted(c1, a.bins),
         a.contig => \A q \in DOMAIN c1 : q <= a.top,
         NEW nb \in Nat, nb >= 2, sz >= nb, NEW d \in CutTail(a, p, sz, nb)
  PROVE  Good(d, X, end, other) /\ Tailed(d, X, p, nb, c1)
<1> DEFINE G    == Owned(a.brk, end, other)
           c    == a.chunk
           top  == a.top
           b    == a.chunk[p].pinuse
           e    == p + sz
           r    == p + nb
           n    == sz - nb
           s1   == SetHead(a, p, sz, b)
           s2   == SetHead(a, p, nb, b)
           s3   == SetUsed(s2, r, n)
           s4   == SetInUseBit(s3, e)
<1>1. Headers(c1) /\ Ordered(c1) /\ p \in DOMAIN c1 /\ top \in DOMAIN c1 /\ X \subseteq DOMAIN c1 /\ F \subseteq DOMAIN c1 /\ F \cap X = {} /\ top \notin X
  BY DEF Tiled, Parts
<1>2. p \in Nat /\ p > 0 /\ top \in Nat /\ \A u \in DOMAIN c1 : u \in Nat /\ c1[u].size \in Nat
  BY <1>1, Fields
<1>3. e # p /\ e \in Nat /\ r \in Nat /\ c1[p].size = sz
  <2>1. e # p /\ e \in Nat /\ r \in Nat
    BY <1>2
  <2> QED BY <2>1, NewHeadAt
<1>4. e \in DOMAIN c1 /\ End(c1, p) = e
  BY <1>3 DEF Tiled, UsedTags, End
<1>5. /\ Differs(a, s1, {"chunk"}) /\ s1.chunk = NewHead(c, p, sz, b) /\ IsArena(s1)
      /\ Differs(a, s2, {"chunk"}) /\ s2.chunk = NewHead(c, p, nb, b) /\ IsArena(s2)
  BY SetHeadIs, KeptFields
<1>6. CASE n < MinSize
  <2>1. d = SetInUseBit(s1, e)
    BY <1>6 DEF CutTail, PrevInUse
  <2> HIDE DEF s1, e, b, c
  <2>2. Differs(s1, d, {"chunk"}) /\ d.chunk = SetBit(s1.chunk, e) /\ IsArena(d)
    BY <1>5, <2>1, SetInUseIs, KeptFields
  <2>3. d.chunk = c1
    BY <1>5, <2>2 DEF b, e, c
  <2>4. Differs(a, d, {"chunk"})
    BY <1>5, <2>2 DEF Differs
  <2>5. d.bins = a.bins /\ d.top = a.top
    BY <2>4, KeptFields
  <2>6. Sound(d, F, X, G)
    BY <2>2, <2>3, <2>5 DEF Sound
  <2>7. Differs(a, d, ChunkFields)
    BY <2>4 DEF Differs, ChunkFields
  <2>8. Numbers(d, end, other) /\ d.brk = a.brk /\ d.contig = a.contig
    BY <2>7, NumbersKept
  <2>9. Good(d, X, end, other)
    BY <2>3, <2>5, <2>6, <2>8 DEF Good
  <2> QED BY <1>3, <2>3, <2>9 DEF Tailed
<1>7. CASE ~ (n < MinSize)
  <2>1. n >= 2 /\ n \in Nat
    BY <1>7, Consts
  <2>2. d \in FreeChunk(s4, r, n)
    BY <1>7 DEF CutTail, PrevInUse, SetUsed
  <2>3. s3 = SetUsed(s2, r, n) /\ s4 = SetInUseBit(s3, e)
    OBVIOUS
  <2> HIDE DEF s1, s2, s3, s4, b, c
  <2>4. Differs(s2, s3, {"chunk"}) /\ s3.chunk = UsedHead(s2.chunk, r, n) /\ IsArena(s3)
    BY <1>5, <2>3, SetUsedIs, KeptFields
  <2>5. Differs(s3, s4, {"chunk"}) /\ s4.chunk = SetBit(s3.chunk, e) /\ IsArena(s4)
    BY <2>3, <2>4, SetInUseIs, KeptFields
  <2>6. Differs(a, s4, {"chunk"})
    BY <1>5, <2>4, <2>5 DEF Differs
  <2>7. s4.bins = a.bins /\ s4.top = a.top
    BY <2>6, KeptFields
  <2> DEFINE v == Split(c1, p, nb)
  <2>8. s4.chunk = v
    <3>1. p + sz # p /\ p + nb # p + sz
      BY <1>2, <1>3, <2>1
    <3>2. Split(c1, p, nb) = SetBit(UsedHead(NewHead(c, p, nb, b), p + nb, sz - nb), p + sz)
      BY <3>1, CutHeads DEF b, c
    <3> QED BY <1>5, <2>4, <2>5, <3>2
  <2> HIDE DEF e, r, n
  <2>9. /\ Tiled(v, top, F, X \cup {r}, G) /\ r \notin DOMAIN c1
        /\ \A q : q \in DOMAIN v <=> q \in DOMAIN c1 \/ q = r
        /\ \A q \in DOMAIN c1 \ {p} : v[q].size = c1[q].size
        /\ v[p].size = nb /\ v[r].size = n
    <3>1. Tiled(c1, top, F, X, G) /\ Closed(G) /\ c1[p].size - nb >= 2
      BY <1>3, <2>1, OwnedMemory DEF n, Numbers
    <3> HIDE DEF G, top
    <3>2. /\ Tiled(Split(c1, p, nb), top, F, X \cup {p + nb}, G) /\ p + nb \notin DOMAIN c1
          /\ \A q : q \in DOMAIN Split(c1, p, nb) <=> q \in DOMAIN c1 \/ q = p + nb
          /\ \A q \in DOMAIN c1 \ {p} : Split(c1, p, nb)[q].size = c1[q].size
          /\ Split(c1, p, nb)[p].size = nb /\ Split(c1, p, nb)[p + nb].size = c1[p].size - nb
          /\ (Split(c1, p, nb)[p].pinuse <=> c1[p].pinuse) /\ Split(c1, p, nb)[p + nb].pinuse
      BY ONLY <3>1, p \in X, nb \in Nat, nb >= 2, SplitIs
    <3> QED BY <1>3, <3>2 DEF r, n
  <2> HIDE DEF v
  <2>10. Sorted(v, a.bins)
    <3>1. \A q \in F : v[q].size = c1[q].size
      BY <1>1, <2>9
    <3> QED BY <3>1, SortedSame
  <2>11. Sound(s4, F, X \cup {r}, G)
    BY <2>5, <2>7, <2>8, <2>9, <2>10 DEF Sound
  <2>12. Differs(a, s4, ChunkFields)
    BY <2>6 DEF Differs, ChunkFields
  <2>13. Numbers(s4, end, other) /\ s4.brk = a.brk /\ s4.contig = a.contig
    BY <2>12, NumbersKept
  <2>14. s4.contig => \A q \in DOMAIN s4.chunk : q <= s4.top
    <3> SUFFICES ASSUME s4.contig PROVE \A q \in DOMAIN v : q <= top
      BY <2>7, <2>8
    <3>1. \A q \in DOMAIN c1 : q <= top
      BY <2>13
    <3>2. r <= e
      BY <1>2, <2>1 DEF r, e, n
    <3>3. r <= top
      BY <1>2, <1>3, <1>4, <3>1, <3>2
    <3> QED BY <2>9, <3>1, <3>3
  <2>15. Good(s4, X \cup {r}, end, other)
    BY <2>11, <2>13, <2>14 DEF Good
  <2>16. Good(d, (X \cup {r}) \ {r}, end, other) /\ \A u \in (X \cup {r}) \ {r} : d.chunk[u].size = s4.chunk[u].size
    <3> DEFINE Y == X \cup {r}
    <3>1. Good(s4, Y, end, other) /\ r \in Y /\ n = s4.chunk[r].size /\ d \in FreeChunk(s4, r, n)
      BY <2>2, <2>8, <2>9, <2>15
    <3> HIDE DEF Y
    <3>2. Good(d, Y \ {r}, end, other) /\ \A u \in Y \ {r} : d.chunk[u].size = s4.chunk[u].size
      BY ONLY <3>1, FreeChunkIs
    <3> QED BY <3>2 DEF Y
  <2>17. (X \cup {r}) \ {r} = X
    BY <1>1, <2>9
  <2>18. Good(d, X, end, other) /\ \A u \in X : d.chunk[u].size = v[u].size
    BY ONLY <2>8, <2>16, <2>17
  <2>19. d.chunk[p].size >= nb
    BY <1>2, <2>9, <2>18
  <2>20. \A u \in X \ {p} : v[u].size = c1[u].size
    BY <1>1, <2>9
  <2> QED BY <2>18, <2>19, <2>20 DEF Tailed
<1> QED BY <1>6, <1>7

(* New memory, or foreign memory behind the break: the old one stays.       *)
GrowFields == {"brk", "sysmem", "contig", "maxmem"}

(* Soundness does not depend on how much there is behind it.                *)
LEMMA GoodGrows ==
  ASSUME NEW a, NEW X, NEW end, NEW other, Good(a, X, end, other), NEW d, Differs(a, d, GrowFields),
         NEW end2, NEW other2, Numbers(d, end2, other2), d.contig => a.contig, d.brk >= a.brk, end2 >= end,
         \A x \in other2 : x \in other \/ x >= a.brk
  PROVE  Good(d, X, end2, other2) /\ d.chunk = a.chunk /\ d.top = a.top
<1> DEFINE G == Owned(a.brk, end, other)
           H == Owned(d.brk, end2, other2)
           c == a.chunk
<1>1. PICK F : Sound(a, F, X, G)
  BY DEF Good
<1>2. IsArena(a) /\ Tiled(c, a.top, F, X, G) /\ Headers(c) /\ Within(c, G)
  BY <1>1 DEF Sound, Tiled
<1>3. Differs(a, d, GrowFields) /\ IsArena(d) /\ d.chunk = c /\ d.top = a.top /\ d.bins = a.bins
  BY <1>2, KeptFields DEF GrowFields
<1>4. Region(a.brk, end, other) /\ Region(d.brk, end2, other2)
  BY DEF Good, Numbers
<1>5. /\ a.brk \in Nat /\ d.brk \in Nat /\ a.brk <= MaxBrk /\ end \in Nat /\ end2 \in Nat /\ other2 \subseteq Nat /\ other \subseteq Nat
  BY <1>4, Consts DEF Region
<1>6. Within(c, H)
  <2> SUFFICES ASSUME NEW u \in DOMAIN c PROVE Span(c, u) \in H
    BY DEF Within
  <2> DEFINE e == IF c[u].size = 0 THEN u + 1 ELSE u + c[u].size
  <2>1. u \in Nat /\ Span(c, u) = <<u, e>> /\ e \in Nat /\ Span(c, u) \in G /\ u < e
    BY <1>2, Fields DEF Within, Span
  <2>2. \/ FirstBrk <= u /\ e <= a.brk /\ \A x \in other : x < u \/ e <= x
        \/ MapBase <= u /\ e <= end
    BY <2>1, OwnedAre
  <2> HIDE DEF e
  <2>3. \/ FirstBrk <= u /\ e <= d.brk /\ \A x \in other2 : x < u \/ e <= x
        \/ MapBase <= u /\ e <= end2
    BY <1>5, <2>1, <2>2
  <2> QED BY <2>1, <2>3, OwnedAre
<1>7. Tiled(c, a.top, F, X, H)
  <2> HIDE DEF G, H, c
  <2> QED BY <1>2, <1>6, MemoryChanges
<1>8. Sound(d, F, X, H)
  BY <1>1, <1>3, <1>7 DEF Sound
<1>9. d.contig => \A q \in DOMAIN d.chunk : q <= d.top
  BY <1>3 DEF Good
<1> QED BY <1>3, <1>8, <1>9 DEF Good

(* sysmalloc moves top to memory that does not touch it.                    *)
LEMMA MoveTopIs ==
  ASSUME NEW a, NEW X, NEW end, NEW other, Good(a, X, end, other), NEW b \in Nat \ {0}, b \notin DOMAIN a.chunk,
         NEW n \in Nat, n >= 2, <<b, b + n>> \in Owned(a.brk, end, other),
         \A u \in DOMAIN a.chunk : End(a.chunk, u) <= b \/ b + n <= u,
         a.contig => \A u \in DOMAIN a.chunk : End(a.chunk, u) <= b,
         NEW d \in MoveTop(a, b, n)
  PROVE  /\ Good(d, X, end, other) /\ \A u \in X : d.chunk[u].size = a.chunk[u].size
         /\ TopLeft(n, d) /\ TopHolds(n, b + n, a.brk, d)
<1> DEFINE G     == Owned(a.brk, end, other)
           c     == a.chunk
           top   == a.top
           left  == TopSize(a) - 2 * Hdr
           new   == [SetUsed(a, b, n) EXCEPT !.top = b]
           s1    == SetUsed(new, top, left)
           s2    == SetUsed(s1, top + left, 1)
           s3    == SetUsed(s2, top + left + 1, 1)
           v     == Fenced(c, top, b, n)
           Y     == X \cup LeftTop(c, top)
<1>1. PICK F : Sound(a, F, X, G)
  BY DEF Good
<1>2. /\ IsArena(a) /\ Tiled(c, top, F, X, G) /\ Headers(c) /\ Ordered(c) /\ Lists(a.bins, F) /\ Sorted(c, a.bins)
      /\ top \in DOMAIN c /\ X \subseteq DOMAIN c /\ F \subseteq DOMAIN c /\ top \notin X /\ top \notin F /\ c[top].size >= 2
  BY <1>1 DEF Sound, Tiled, Parts
<1>3. \A u \in DOMAIN c : u \in Nat /\ c[u].size \in Nat
  BY <1>2, Fields
<1>4. TopSize(a) = c[top].size /\ TopSize(a) # 0 /\ left = c[top].size - 2 /\ left \in Nat
  BY <1>2, <1>3, Consts DEF TopSize, SizeOf
<1>5. d \in FreeOldTop(s3, top, left)
  BY <1>4, Consts DEF MoveTop, SetUsed
<1>6. new = [SetUsed(a, b, n) EXCEPT !.top = b] /\ s1 = SetUsed(new, top, left) /\ s2 = SetUsed(s1, top + left, 1)
      /\ s3 = SetUsed(s2, top + left + 1, 1)
  OBVIOUS
<1> DEFINE one == 1
           h1 == top + left
           h2 == top + left + 1
<1>7. s2 = SetUsed(s1, h1, one) /\ s3 = SetUsed(s2, h2, one)
  OBVIOUS
<1>8. /\ Differs(a, new, {"chunk", "top"}) /\ new.chunk = UsedHead(c, b, n) /\ new.top = b /\ IsArena(new)
  <2> DEFINE s0 == SetUsed(a, b, n)
  <2>1. Differs(a, s0, {"chunk"}) /\ s0.chunk = UsedHead(a.chunk, b, n) /\ IsArena(s0)
    BY <1>2, SetUsedIs, KeptFields
  <2> HIDE DEF s0
  <2>2. new = [s0 EXCEPT !.top = b]
    BY DEF s0
  <2>3. Differs(s0, new, {"top"}) /\ new.top = b /\ new.chunk = s0.chunk
    BY <2>1, <2>2 DEF IsArena, ArenaFields, Differs
  <2> HIDE DEF new
  <2> QED BY <1>2, <2>1, <2>3, KeptFields DEF Differs
<1> HIDE DEF new, s1, s2, s3, one, h1, h2, v, G, left, c
<1>9. Differs(new, s1, {"chunk"}) /\ s1.chunk = UsedHead(new.chunk, top, left) /\ IsArena(s1)
  BY <1>6, <1>8, SetUsedIs, KeptFields
<1>10. Differs(s1, s2, {"chunk"}) /\ s2.chunk = UsedHead(s1.chunk, h1, one) /\ IsArena(s2)
  BY ONLY <1>7, <1>9, SetUsedIs, KeptFields
<1>11. Differs(s2, s3, {"chunk"}) /\ s3.chunk = UsedHead(s2.chunk, h2, one) /\ IsArena(s3)
  BY ONLY <1>7, <1>10, SetUsedIs, KeptFields
<1>12. Differs(a, s3, {"chunk", "top"})
  BY <1>8, <1>9, <1>10, <1>11 DEF Differs
<1>13. s3.chunk = v
  <2>1. s3.chunk = UsedHead(UsedHead(UsedHead(UsedHead(c, b, n), top, left), top + left, 1), top + left + 1, 1)
    BY <1>8, <1>9, <1>10, <1>11 DEF one, h1, h2
  <2> QED BY <1>4, <2>1 DEF Fenced, v
<1>14. s3.top = b
  BY <1>2, <1>8, <1>9, <1>10, <1>11 DEF Differs, IsArena, ArenaFields
<1>15. s3.bins = a.bins
  BY <1>2, <1>12, KeptFields
<1>16. Numbers(a, end, other) /\ (a.contig => \A q \in DOMAIN c : q <= top) /\ Closed(G)
  BY OwnedMemory DEF Good, Numbers, G, c
<1>17. /\ Tiled(v, b, F, Y, G)
       /\ \A u \in DOMAIN v : u \in DOMAIN c \/ u = b \/ (top <= u /\ u < End(c, top))
       /\ \A u \in DOMAIN c \ {top} : u \in DOMAIN v /\ v[u].size = c[u].size
       /\ v[b].size = n /\ (c[top].size >= 4 => v[top].size = c[top].size - 2)
  <2>1. Tiled(c, top, F, X, G) /\ Closed(G) /\ b \in Nat \ {0} /\ b \notin DOMAIN c /\ n \in Nat /\ n >= 2
        /\ <<b, b + n>> \in G /\ \A u \in DOMAIN c : End(c, u) <= b \/ b + n <= u
    BY <1>2, <1>16 DEF G, c
  <2>2. v = Fenced(c, top, b, n) /\ Y = X \cup LeftTop(c, top)
    BY DEF v
  <2> HIDE DEF Y, top
  <2>3. Tiled(v, b, F, Y, G) /\ TopMoved(c, top, b, n, v)
    BY ONLY <2>1, <2>2, FencedIs
  <2> QED BY <2>3 DEF TopMoved
<1>18. Sorted(v, a.bins)
  <2>1. \A q \in F : v[q].size = c[q].size
    BY <1>2, <1>17
  <2> QED BY <1>2, <2>1, SortedSame
<1>19. Sound(s3, F, Y, G)
  BY <1>2, <1>11, <1>13, <1>14, <1>15, <1>17, <1>18 DEF Sound
<1>20. Differs(a, s3, ChunkFields)
  BY <1>12 DEF Differs, ChunkFields
<1>21. Numbers(s3, end, other) /\ s3.brk = a.brk /\ s3.contig = a.contig
  BY <1>2, <1>16, <1>20, NumbersKept
<1>22. s3.contig => \A q \in DOMAIN s3.chunk : q <= s3.top
  <2> SUFFICES ASSUME s3.contig, NEW q \in DOMAIN v PROVE q <= b
    BY <1>13, <1>14
  <2>1. \A u \in DOMAIN c : End(c, u) <= b
    BY <1>21 DEF c
  <2>2. \A u \in DOMAIN c : u <= b
    BY <1>3, <2>1 DEF End
  <2>3. CASE top <= q /\ q < End(c, top)
    <3>1. End(c, top) <= b /\ End(c, top) \in Nat /\ q \in Nat
      BY <1>2, <1>3, <1>17, <2>1, Fields DEF End, Tiled, Headers
    <3> QED BY <2>3, <3>1
  <2> QED BY <1>17, <2>2, <2>3
<1>23. Good(s3, Y, end, other)
  BY <1>19, <1>21, <1>22 DEF Good, G
<1>24. \A u \in X : v[u].size = c[u].size
  BY <1>2, <1>17
<1>24a. TopSize(s3) = n /\ TopEnd(s3) = b + n
  BY <1>13, <1>14, <1>17 DEF TopSize, TopEnd, NextOf, SizeOf
<1>24b. top + left # b
  <2>1. End(c, top) <= b \/ b + n <= top
    BY <1>2 DEF c
  <2> QED BY <1>2, <1>3, <1>4, <2>1 DEF End
<1>25. CASE left >= MinSize
  <2>1. d \in FreeChunk(s3, top, left) /\ c[top].size >= 4 /\ left = v[top].size /\ Y = X \cup {top} /\ Y \ {top} = X
    BY <1>2, <1>3, <1>4, <1>5, <1>17, <1>25, Consts DEF FreeOldTop, LeftTop
  <2>2. /\ Good(d, Y \ {top}, end, other) /\ \A u \in Y \ {top} : d.chunk[u].size = s3.chunk[u].size
        /\ TopLeft(TopSize(s3), d) /\ TopHolds(TopSize(s3), TopEnd(s3), s3.brk, d)
    <3>1. top \in Y /\ left = s3.chunk[top].size
      BY <1>13, <2>1
    <3>2. /\ Good(s3, Y, end, other) /\ top \in Y /\ left = s3.chunk[top].size /\ d \in FreeChunk(s3, top, left)
          /\ top + left # s3.top
      BY <1>14, <1>23, <1>24b, <2>1, <3>1
    <3> HIDE DEF Y, top
    <3> QED BY ONLY <3>2, FreeChunkIs
  <2> QED BY <1>24a, <1>21, <1>13, <1>24, <2>1, <2>2 DEF c
<1>26. CASE ~ (left >= MinSize)
  <2>1. d = s3 /\ Y = X
    BY <1>2, <1>3, <1>4, <1>5, <1>26, Consts DEF FreeOldTop, LeftTop
  <2>2. TopLeft(n, d) /\ TopHolds(n, b + n, a.brk, d)
    BY <1>24a, <2>1 DEF TopLeft, TopHolds
  <2> QED BY <1>13, <1>23, <1>24, <2>1, <2>2 DEF c
<1> QED BY <1>25, <1>26

(* Before the first sysmalloc: top is initial_top and there is no chunk.    *)
Fresh(a, X, end, other) ==
  /\ IsArena(a) /\ Numbers(a, end, other) /\ X = {}
  /\ a.top = InitialTop /\ DOMAIN a.chunk = {InitialTop} /\ a.chunk[InitialTop].size = 0
  /\ a.bins = [i \in 1 .. NBins |-> <<>>]
Healthy(a, X, end, other) == Good(a, X, end, other) \/ Fresh(a, X, end, other)

(* Empty lists are in order.                                                *)
LEMMA EmptyLists ==
  ASSUME NEW bins, bins = [i \in 1 .. NBins |-> <<>>], NEW c
  PROVE  Lists(bins, {}) /\ Sorted(c, bins)
<1>1. \A i \in 1 .. NBins : bins[i] = <<>> /\ Len(bins[i]) = 0 /\ bins[i] \in Seq({})
  OBVIOUS
<1>2. \A i \in 2 .. NBins : i \in 1 .. NBins
  BY SizesAre
<1> QED BY <1>1, <1>2 DEF Lists, Sorted

(* The first top.                                                           *)
LEMMA MoveTopFresh ==
  ASSUME NEW a, NEW end, NEW other, NEW X, Fresh(a, X, end, other), NEW b \in Nat \ {0},
         NEW n \in Nat, n >= 2, <<b, b + n>> \in Owned(a.brk, end, other), NEW d \in MoveTop(a, b, n)
  PROVE  Good(d, X, end, other) /\ TopLeft(n, d) /\ TopHolds(n, b + n, a.brk, d)
<1> DEFINE G   == Owned(a.brk, end, other)
           c   == a.chunk
           s0  == SetUsed(a, b, n)
           new == [s0 EXCEPT !.top = b]
           zero == InitialTop
<1>1. IsArena(a) /\ Numbers(a, end, other) /\ a.top = zero /\ DOMAIN c = {zero} /\ TopSize(a) = 0 /\ X = {}
      /\ a.bins = [i \in 1 .. NBins |-> <<>>] /\ zero = 0
  BY DEF Fresh, TopSize, SizeOf, InitialTop
<1>2. d = DropHead(new, zero)
  BY <1>1 DEF MoveTop, SetUsed
<1>3. Differs(a, s0, {"chunk"}) /\ s0.chunk = UsedHead(c, b, n) /\ IsArena(s0)
  BY <1>1, SetUsedIs, KeptFields
<1>4. new = [s0 EXCEPT !.top = b]
  OBVIOUS
<1> HIDE DEF s0, zero
<1>5. Differs(s0, new, {"top"}) /\ new.top = b /\ new.chunk = s0.chunk /\ IsArena(new)
  BY <1>3, <1>4 DEF IsArena, ArenaFields, Differs
<1> HIDE DEF new
<1>6. Differs(new, d, {"chunk"}) /\ d.chunk = Without(new.chunk, zero) /\ IsArena(d)
  BY <1>2, <1>5, DropHeadIs, KeptFields
<1>7. Differs(a, d, {"chunk", "top"}) /\ d.top = b
  BY <1>3, <1>5, <1>6 DEF Differs, IsArena, ArenaFields
<1>8. d.bins = a.bins
  BY <1>1, <1>7, KeptFields
<1>9. /\ DOMAIN d.chunk = {b} /\ d.chunk[b].size = n /\ d.chunk[b].pinuse
      /\ d.chunk[b] = [size |-> n, pinuse |-> TRUE, prev |-> 0]
  <2>1. d.chunk = Without(UsedHead(c, b, n), zero) /\ b # zero
    BY <1>1, <1>3, <1>5, <1>6
  <2> HIDE DEF c
  <2> QED BY <1>1, <2>1 DEF Without, UsedHead
<1>10. Headers(d.chunk)
  <2>1. d.chunk = [q \in {b} |-> d.chunk[q]]
    <3>1. d.chunk = [q \in DOMAIN new.chunk \ {zero} |-> new.chunk[q]]
      BY <1>6 DEF Without
    <3> QED BY <1>9, <3>1
  <2>2. d.chunk[b] \in Header
    BY <1>9 DEF Header
  <2> QED BY <1>9, <2>1, <2>2 DEF Headers
<1>11. Tiled(d.chunk, b, {}, {}, G)
  <2> DEFINE v == d.chunk
  <2>1. DOMAIN v = {b} /\ Headers(v) /\ v[b].size = n /\ v[b].pinuse /\ <<b, b + n>> \in G
    BY <1>9, <1>10
  <2> HIDE DEF v, G
  <2>2. Tiled(v, b, {}, {}, G)
    BY <2>1, FirstTopIs
  <2> QED BY <2>2 DEF v
<1>12. Lists(d.bins, {}) /\ Sorted(d.chunk, d.bins)
  BY <1>1, <1>8, EmptyLists
<1>13. Sound(d, {}, {}, G)
  BY <1>6, <1>7, <1>11, <1>12 DEF Sound
<1>14. Differs(a, d, ChunkFields)
  BY <1>7 DEF Differs, ChunkFields
<1>15. Numbers(d, end, other) /\ d.brk = a.brk
  BY <1>1, <1>14, NumbersKept
<1>16. \A q \in DOMAIN d.chunk : q <= d.top
  BY <1>7, <1>9
<1>17. TopLeft(n, d) /\ TopHolds(n, b + n, a.brk, d)
  BY <1>7, <1>9 DEF TopLeft, TopHolds, TopSize, SizeOf
<1> QED BY <1>1, <1>13, <1>15, <1>16, <1>17 DEF Good

(* sysmalloc moves top to memory it has just got, from sbrk or mmap.        *)
LEMMA GrowMoveIs ==
  ASSUME NEW a, NEW X, NEW end, NEW other, Healthy(a, X, end, other), NEW d, Differs(a, d, GrowFields),
         NEW end2, Numbers(d, end2, other), d.contig => a.contig, d.brk >= a.brk, end2 >= end,
         NEW b \in Nat, NEW n \in Nat, n >= 2,
         (b = a.brk /\ b + n <= d.brk) \/ (b = end /\ b + n <= end2 /\ ~ d.contig),
         NEW e \in MoveTop(d, b, n)
  PROVE  /\ Good(e, X, end2, other) /\ (\A u \in X : e.chunk[u].size = a.chunk[u].size)
         /\ TopLeft(n, e) /\ TopHolds(n, b + n, d.brk, e)
<1>1. Region(a.brk, end, other) /\ Region(d.brk, end2, other)
  BY DEF Healthy, Good, Fresh, Numbers
<1>2. /\ a.brk \in Nat /\ d.brk \in Nat /\ a.brk <= MaxBrk /\ a.brk >= FirstBrk /\ d.brk <= MaxBrk
      /\ end \in Nat /\ end2 \in Nat /\ end >= MapBase /\ other \subseteq Nat /\ \A y \in other : y < a.brk
  BY <1>1, Consts DEF Region
<1>3. b \in Nat \ {0} /\ <<b, b + n>> \in Owned(d.brk, end2, other)
  <2>1. b > 0 /\ b + n \in Nat /\ b < b + n
    BY <1>2, Consts
  <2>2. \/ FirstBrk <= b /\ b + n <= d.brk /\ \A y \in other : y < b \/ b + n <= y
        \/ MapBase <= b /\ b + n <= end2
    BY <1>2
  <2> QED BY <2>1, <2>2, OwnedAre
<1>4. CASE Fresh(a, X, end, other)
  <2>1. IsArena(d) /\ d.chunk = a.chunk /\ d.top = a.top /\ d.bins = a.bins /\ X = {}
    BY <1>4, KeptFields DEF Fresh, GrowFields
  <2>2. Fresh(d, X, end2, other)
    BY <1>4, <2>1 DEF Fresh
  <2> QED BY <1>3, <2>1, <2>2, MoveTopFresh
<1>5. CASE Good(a, X, end, other)
  <2>1. Good(d, X, end2, other) /\ d.chunk = a.chunk /\ d.top = a.top
    <3>1. \A x \in other : x \in other \/ x >= a.brk
      OBVIOUS
    <3> QED BY <1>5, <3>1, GoodGrows
  <2> DEFINE c == a.chunk
  <2>2. Headers(c) /\ Within(c, Owned(a.brk, end, other))
    BY <1>5 DEF Good, Sound, Tiled
  <2>3. ASSUME NEW u \in DOMAIN c
        PROVE  /\ u \in Nat /\ End(c, u) \in Nat /\ u # b /\ (End(c, u) <= b \/ b + n <= u)
               /\ (d.contig => End(c, u) <= b)
    <3>1. /\ u \in Nat /\ c[u].size \in Nat /\ End(c, u) = u + c[u].size
          /\ \/ FirstBrk <= u /\ u < a.brk /\ u + c[u].size <= a.brk
             \/ MapBase <= u /\ u < end /\ u + c[u].size <= end
      <4> HIDE DEF c
      <4> QED BY <1>1, <2>2, ChunkPlaces DEF End
    <3>2. d.contig => end = MapBase
      BY <1>5 DEF Good, Numbers
    <3> HIDE DEF c
    <3> QED BY <1>2, <3>1, <3>2, Consts
  <2>4. /\ b \notin DOMAIN d.chunk /\ \A u \in DOMAIN d.chunk : End(d.chunk, u) <= b \/ b + n <= u
        /\ d.contig => \A u \in DOMAIN d.chunk : End(d.chunk, u) <= b
    BY <2>1, <2>3
  <2>5. /\ Good(e, X, end2, other) /\ (\A u \in X : e.chunk[u].size = d.chunk[u].size) /\ TopLeft(n, e)
        /\ TopHolds(n, b + n, d.brk, e)
    BY <1>3, <2>1, <2>4, MoveTopIs
  <2> QED BY <2>1, <2>5
<1> QED BY <1>4, <1>5 DEF Healthy

(* A call in progress: the arguments and locals of the code.                *)
IsOp(o)  == DOMAIN NoOp \subseteq DOMAIN o /\ o = [x \in DOMAIN o |-> o[x]]
Asked(o) == IsOp(o) /\ o.nb \in Sizes /\ o.want \in Nat /\ o.want >= 2 /\ o.want <= o.nb

MemoryOk == Healthy(av, DOMAIN live \cup Held, mapEnd, foreign)
Fits == \A p \in DOMAIN live : live[p] \in Nat /\ live[p] > 0 /\ live[p] <= av.chunk[p].size
OpOk ==
  /\ IF pc = "idle" THEN op = NoOp ELSE Asked(op)
  /\ op.ret # 0 => /\ pc \in {"realloc", "memalign"} /\ op.ret \notin DOMAIN live
                   /\ av.chunk[op.ret].size >= op.nb
  /\ pc # "idle" => op.kind \in {"malloc", "calloc", "realloc", "memalign"}
  /\ pc # "idle" /\ op.kind = "realloc" => op.old \in DOMAIN live
  /\ pc # "idle" /\ op.kind = "memalign" => op.align \in Nat \ {0} /\ op.nb = op.want + op.align + MinSize + Hdr
  /\ pc = "realloc" => op.kind = "realloc"
  /\ pc = "memalign" => op.kind = "memalign" /\ op.ret # 0
  /\ pc = "sysmalloc" => ~ TopServes(op.nb)
  /\ \A w \in waiting : Asked(w) /\ w.ret = 0 /\ w.kind = "calloc"
IInv == MemoryOk /\ Fits /\ OpOk

(* No call is in progress.                                                  *)
LEMMA NoOpIs == IsOp(NoOp) /\ NoOp.ret = 0 /\ NoOp.kind = "none"
BY DEF IsOp, NoOp

(* Sizes of requests.                                                       *)
LEMMA RequestsAre ==
  ASSUME NEW nb \in Requests \cup Clears
  PROVE  nb \in Sizes /\ nb \in Nat /\ nb >= 2
BY ArenaAssumption, SizesAre

(* A step that changes nothing but the call in progress.                    *)
LEMMA QuietKeeps ==
  ASSUME IInv, UNCHANGED <<av, mapEnd, foreign, live>>, op'.ret = op.ret, OpOk'
  PROVE  IInv'
<1>1. Held' = Held
  BY DEF Held
<1> QED BY <1>1 DEF IInv, MemoryOk, Fits

(* malloc begins.                                                           *)
LEMMA MallocKeeps ==
  ASSUME IInv, NEW nb \in Requests, Malloc(nb)
  PROVE  IInv'
<1>1. nb \in Sizes /\ nb \in Nat /\ nb >= 2
  BY RequestsAre
<1>2. op = NoOp /\ pc' = "malloc" /\ UNCHANGED <<av, mapEnd, foreign, live, waiting>>
  BY DEF IInv, OpOk, Malloc, Step, system
<1>3. op' = [NoOp EXCEPT !.kind = "malloc", !.nb = nb, !.want = nb]
  BY DEF Malloc
<1>4. IsOp(op') /\ op'.ret = 0 /\ op'.kind = "malloc" /\ op'.nb = nb /\ op'.want = nb
  BY <1>3 DEF IsOp, NoOp
<1>5. OpOk'
  BY <1>1, <1>2, <1>4 DEF IInv, OpOk, Asked
<1> QED BY <1>2, <1>4, <1>5, NoOpIs, QuietKeeps

(* calloc begins, and notes where top is.                                   *)
LEMMA CallocKeeps ==
  ASSUME IInv, NEW nb \in Clears, Calloc(nb)
  PROVE  IInv'
<1>1. nb \in Sizes /\ nb \in Nat /\ nb >= 2
  BY RequestsAre
<1>2. op = NoOp /\ pc' = "malloc" /\ UNCHANGED <<av, mapEnd, foreign, live, waiting>>
  BY DEF IInv, OpOk, Calloc, Step, system
<1>3. PICK t : op' = [NoOp EXCEPT !.kind = "calloc", !.nb = nb, !.want = nb, !.top = av.top, !.topSize = t]
  BY DEF Calloc
<1>4. IsOp(op') /\ op'.ret = 0 /\ op'.kind = "calloc" /\ op'.nb = nb /\ op'.want = nb
  BY <1>3 DEF IsOp, NoOp
<1>5. OpOk'
  BY <1>1, <1>2, <1>4 DEF IInv, OpOk, Asked
<1> QED BY <1>2, <1>4, <1>5, NoOpIs, QuietKeeps

(* memalign begins, with a padded request.                                  *)
LEMMA MemalignKeeps ==
  ASSUME IInv, NEW al \in Alignments, NEW nb \in Requests, Memalign(al, nb)
  PROVE  IInv'
<1>1. nb \in Sizes /\ nb \in Nat /\ nb >= 2 /\ al \in Nat \ {0} /\ nb + al + MinSize + Hdr \in Sizes
  BY RequestsAre, MemoryAssumption
<1>2. op = NoOp /\ pc' = "malloc" /\ UNCHANGED <<av, mapEnd, foreign, live, waiting>>
  BY DEF IInv, OpOk, Memalign, Step, system
<1> DEFINE n == nb + al + MinSize + Hdr
<1>3. op' = [NoOp EXCEPT !.kind = "memalign", !.nb = n, !.want = nb, !.align = al]
  BY DEF Memalign
<1>4. n >= nb
  BY <1>1, Consts
<1> HIDE DEF n
<1>5. IsOp(op') /\ op'.ret = 0 /\ op'.kind = "memalign" /\ op'.nb = n /\ op'.want = nb /\ op'.align = al
  BY <1>3 DEF IsOp, NoOp
<1>6. OpOk'
  BY <1>1, <1>2, <1>4, <1>5 DEF IInv, OpOk, Asked, n
<1> QED BY <1>2, <1>5, <1>6, NoOpIs, QuietKeeps

(* calloc found no memory and unlocks the arena.                            *)
LEMMA CallocWaitsKeeps ==
  ASSUME IInv, CallocWaits
  PROVE  IInv'
<1>1. /\ pc = "sys_alloc" /\ pc' = "idle" /\ op.kind = "calloc" /\ op.ret = 0 /\ Asked(op) /\ op' = NoOp
      /\ UNCHANGED <<av, mapEnd, foreign, live>>
  BY DEF IInv, OpOk, CallocWaits, Step
<1> DEFINE w == [op EXCEPT !.again = TRUE, !.iters = 0, !.grown = FALSE]
<1>2. waiting' = {w}
  BY DEF CallocWaits
<1>3. IsOp(w) /\ w.ret = op.ret /\ w.kind = op.kind /\ w.nb = op.nb /\ w.want = op.want
  BY <1>1 DEF IsOp, Asked, NoOp
<1> HIDE DEF w
<1>4. OpOk'
  BY <1>1, <1>2, <1>3, NoOpIs DEF OpOk, Asked
<1> QED BY <1>1, <1>4, NoOpIs, QuietKeeps

(* calloc comes back with what it had noted.                                *)
LEMMA CallocRetriesKeeps ==
  ASSUME IInv, CallocRetries
  PROVE  IInv'
<1>1. /\ op = NoOp /\ pc' = "malloc" /\ Asked(op') /\ op'.ret = 0 /\ op'.kind = "calloc"
      /\ UNCHANGED <<av, mapEnd, foreign, live>> /\ waiting' = {}
  BY DEF IInv, OpOk, CallocRetries, Step
<1>2. OpOk'
  BY <1>1 DEF OpOk
<1> QED BY <1>1, <1>2, NoOpIs, QuietKeeps

(* The steps that only move on.                                             *)
LEMMA MovesOnKeeps ==
  ASSUME IInv, SmallbinMiss \/ UnsortedDone \/ NoLargeFit \/ TopTooSmall \/ NoMemory
  PROVE  IInv'
<1>1. /\ UNCHANGED <<av, mapEnd, foreign, live, op, waiting>>
      /\ pc \in {"malloc", "unsorted", "fit", "top", "sysmalloc"}
      /\ pc' \in {"unsorted", "fit", "scan", "sysmalloc", "sys_alloc"}
      /\ (pc' = "sysmalloc" => ~ TopServes(op.nb))
  BY DEF SmallbinMiss, UnsortedDone, NoLargeFit, TopTooSmall, NoMemory, Step, system
<1>2. (TopServes(op.nb))' <=> TopServes(op.nb)
  BY <1>1 DEF TopServes
<1>3. OpOk'
  BY <1>1, <1>2 DEF IInv, OpOk
<1> QED BY <1>1, <1>3, QuietKeeps

(* The steps by which a call leaves the arena without a block of it.        *)
LEMMA EndsKeeps ==
  ASSUME IInv, MmapServes \/ SysFails \/ ReallocElsewhere
  PROVE  IInv'
<1>1. /\ UNCHANGED <<av, mapEnd, foreign, live, waiting>> /\ pc \in {"sysmalloc", "sys_alloc"}
      /\ \/ pc' = "idle" /\ op' = NoOp
         \/ pc' = "realloc" /\ op.kind = "realloc" /\ op' = [op EXCEPT !.ret = 0]
  BY DEF MmapServes, SysFails, ReallocElsewhere, Step, system, Finish
<1>2. Asked(op) /\ op.ret = 0
  BY <1>1 DEF IInv, OpOk
<1>3. CASE pc' = "idle" /\ op' = NoOp
  <2>1. OpOk'
    BY <1>1, <1>3, NoOpIs DEF OpOk, IInv
  <2> QED BY <1>1, <1>2, <1>3, <2>1, NoOpIs, QuietKeeps
<1>4. CASE pc' = "realloc" /\ op.kind = "realloc" /\ op' = [op EXCEPT !.ret = 0]
  <2>1. op' = op
    BY <1>2, <1>4 DEF Asked, IsOp
  <2>2. OpOk'
    BY <1>1, <1>2, <1>4, <2>1 DEF OpOk, IInv
  <2> QED BY <1>1, <2>1, <2>2, QuietKeeps
<1> QED BY <1>1, <1>3, <1>4

(* Chunks in use are chunks, and none is at address 0.                      *)
LEMMA GoodUsed ==
  ASSUME NEW a, NEW X, NEW end, NEW other, Good(a, X, end, other)
  PROVE  \A p \in X : p \in DOMAIN a.chunk /\ p \in Nat \ {0} /\ p # a.top /\ a.chunk[p].size \in Nat
<1>1. PICK F : Sound(a, F, X, Owned(a.brk, end, other))
  BY DEF Good
<1>2. Headers(a.chunk) /\ X \subseteq DOMAIN a.chunk \ {a.top}
  BY <1>1 DEF Sound, Tiled, Parts
<1> QED BY <1>2, Fields

(* The stages of _int_malloc and sysmalloc.                                 *)
Stages == {"malloc", "unsorted", "fit", "scan", "top", "sysmalloc", "sys_alloc"}

(* No block is held while the search is under way.                          *)
LEMMA StageIs ==
  ASSUME IInv, pc \in Stages
  PROVE  /\ Asked(op) /\ op.ret = 0 /\ Held = {} /\ op.nb \in Nat /\ op.nb >= 2
         /\ Healthy(av, DOMAIN live, mapEnd, foreign)
<1>1. Asked(op) /\ op.ret = 0
  BY DEF IInv, OpOk, Stages
<1>2. Held = {} /\ DOMAIN live \cup Held = DOMAIN live
  BY <1>1 DEF Held
<1> QED BY <1>1, <1>2, SizesAre DEF Asked, IInv, MemoryOk

(* A chunk found is returned: to the caller, or to realloc and memalign.    *)
LEMMA ReturnIs ==
  ASSUME IInv, pc \in Stages, NEW p, p \notin DOMAIN live, Return(p), UNCHANGED <<mapEnd, foreign, waiting>>,
         Good(av', DOMAIN live \cup {p}, mapEnd, foreign), av'.chunk[p].size >= op.nb,
         \A u \in DOMAIN live : av'.chunk[u].size = av.chunk[u].size
  PROVE  IInv'
<1> DEFINE s == av'.chunk[p].size
<1>1. p # 0 /\ s \in Nat
  BY GoodUsed
<1>2. /\ Asked(op) /\ op.ret = 0 /\ op.nb \in Nat /\ op.want \in Nat /\ op.want >= 2 /\ op.want <= op.nb
      /\ op.kind \in {"malloc", "calloc", "realloc", "memalign"}
      /\ (op.kind = "realloc" => op.old \in DOMAIN live)
      /\ (op.kind = "memalign" => op.align \in Nat \ {0} /\ op.nb = op.want + op.align + MinSize + Hdr)
      /\ \A w \in waiting : Asked(w) /\ w.ret = 0 /\ w.kind = "calloc"
  BY StageIs DEF IInv, OpOk, Asked, Stages
<1>3. CASE op.kind \in {"malloc", "calloc"}
  <2>1. /\ pc' = "idle" /\ op' = NoOp
        /\ DOMAIN live' = DOMAIN live \cup {p} /\ live'[p] = op.want
        /\ \A u \in DOMAIN live : live'[u] = live[u]
    BY <1>3 DEF Return
  <2>2. Held' = {} /\ DOMAIN live' \cup Held' = DOMAIN live \cup {p}
    BY <2>1, NoOpIs DEF Held
  <2>3. MemoryOk'
    BY <2>2 DEF MemoryOk, Healthy
  <2>4. Fits'
    <3> SUFFICES ASSUME NEW u \in DOMAIN live'
                 PROVE  live'[u] \in Nat /\ live'[u] > 0 /\ live'[u] <= av'.chunk[u].size
      BY DEF Fits
    <3>1. CASE u = p
      BY <1>1, <1>2, <2>1, <3>1
    <3>2. CASE u \in DOMAIN live
      BY <2>1, <3>2 DEF IInv, Fits
    <3> QED BY <2>1, <3>1, <3>2
  <2>5. OpOk'
    BY <1>2, <2>1, NoOpIs DEF OpOk
  <2> QED BY <2>3, <2>4, <2>5 DEF IInv
<1>4. CASE op.kind \notin {"malloc", "calloc"}
  <2>1. pc' = op.kind /\ live' = live /\ op' = [op EXCEPT !.ret = p] /\ pc' \in {"realloc", "memalign"}
    BY <1>2, <1>4 DEF Return
  <2>2. /\ IsOp(op') /\ op'.ret = p /\ op'.kind = op.kind /\ op'.nb = op.nb /\ op'.want = op.want /\ op'.old = op.old
        /\ op'.align = op.align
    BY <1>2, <2>1 DEF Asked, IsOp, NoOp
  <2>3. Held' = {p} /\ DOMAIN live' \cup Held' = DOMAIN live \cup {p}
    BY <1>1, <2>1, <2>2 DEF Held
  <2>4. MemoryOk'
    BY <2>3 DEF MemoryOk, Healthy
  <2>5. Fits'
    BY <2>1 DEF IInv, Fits
  <2>6. Asked(op')
    BY <1>2, <2>2 DEF Asked
  <2>7. OpOk'
    BY <1>1, <1>2, <2>1, <2>2, <2>6 DEF OpOk
  <2> QED BY <2>4, <2>5, <2>7 DEF IInv
<1> QED BY <1>3, <1>4

(* A chunk is cut from the bottom of top.                                   *)
LEMMA CutFromTopKeeps ==
  ASSUME IInv, pc \in Stages, TopServes(op.nb), av' = TakeFromTop(av, op.nb), Return(av.top), UNCHANGED system
  PROVE  IInv'
<1> DEFINE X   == DOMAIN live
           nb  == op.nb
           G   == Owned(av.brk, mapEnd, foreign)
           top == av.top
           d   == TakeFromTop(av, nb)
<1>1. Asked(op) /\ nb \in Nat /\ nb >= 2 /\ Healthy(av, X, mapEnd, foreign) /\ UNCHANGED <<mapEnd, foreign, waiting>>
  BY StageIs DEF system
<1>2. TopSize(av) >= nb + MinSize
  BY DEF TopServes
<1>3. Good(av, X, mapEnd, foreign)
  <2>1. Fresh(av, X, mapEnd, foreign) => TopSize(av) = 0
    BY DEF Fresh, TopSize, SizeOf
  <2> QED BY <1>1, <1>2, <2>1, Consts DEF Healthy
<1>4. PICK F : Sound(av, F, X, G)
  BY <1>3 DEF Good
<1>5. Closed(G) /\ Region(av.brk, mapEnd, foreign)
  BY <1>3, OwnedMemory DEF Good, Numbers
<1> HIDE DEF G, d
<1>6. /\ Sound(d, F, X \cup {top}, G) /\ Differs(av, d, {"chunk", "top"}) /\ d.top = top + nb
      /\ d.chunk[top].size = nb /\ top \notin X /\ \A u \in X : d.chunk[u].size = av.chunk[u].size
      /\ \A u \in DOMAIN d.chunk : u \in DOMAIN av.chunk \/ u = d.top
  <2>1. d = TakeFromTop(av, nb)
    BY DEF d
  <2> DEFINE a == av
  <2>2. Sound(a, F, X, G) /\ Closed(G) /\ nb \in Nat /\ nb >= 2 /\ TopSize(a) >= nb + MinSize /\ d = TakeFromTop(a, nb)
    BY <1>1, <1>2, <1>4, <1>5, <2>1
  <2> HIDE DEF a, nb, X
  <2>3. Sound(d, F, X \cup {a.top}, G) /\ TopCut(a, d, nb, X)
    BY ONLY <2>2, TakeFromTopIs
  <2> QED BY <2>3 DEF a, TopCut
<1>7. Differs(av, d, ChunkFields)
  BY <1>6 DEF Differs, ChunkFields
<1>8. (\A q \in DOMAIN av.chunk : q <= top) => \A q \in DOMAIN d.chunk : q <= d.top
  <2>1. top \in Nat /\ \A q \in DOMAIN av.chunk : q \in Nat
    BY <1>4, Fields DEF Sound, Tiled, Parts
  <2> QED BY <1>1, <1>6, <2>1
<1>9. Good(d, X \cup {top}, mapEnd, foreign)
  <2> HIDE DEF top, X
  <2>1. \E H : Sound(d, H, X \cup {top}, Owned(av.brk, mapEnd, foreign))
    BY <1>6 DEF G
  <2> QED BY <1>3, <1>7, <1>8, <2>1, GoodAgain DEF top
<1>10. av' = d
  BY DEF d
<1>11. d.chunk[top].size >= nb
  BY <1>1, <1>6
<1> HIDE DEF nb
<1> QED BY <1>1, <1>6, <1>9, <1>10, <1>11, ReturnIs DEF nb

(* The request is cut from the top that sysmalloc has made.                 *)
LEMMA SysAllocateKeeps ==
  ASSUME IInv, SysAllocate
  PROVE  IInv'
BY CutFromTopKeeps DEF SysAllocate, Stages

(* Top is never larger than system_mem.                                     *)
LEMMA UseTopKeeps ==
  ASSUME IInv, UseTop
  PROVE  IInv'
<1>1. pc \in Stages /\ Healthy(av, DOMAIN live, mapEnd, foreign)
  BY StageIs DEF UseTop, Stages
<1>2. ~ (TopSize(av) > av.sysmem)
  <2>1. CASE Fresh(av, DOMAIN live, mapEnd, foreign)
    BY <2>1 DEF Fresh, Numbers, TopSize, SizeOf
  <2>2. CASE Good(av, DOMAIN live, mapEnd, foreign)
    <3> DEFINE c == av.chunk
               top == av.top
               G == Owned(av.brk, mapEnd, foreign)
    <3>1. Numbers(av, mapEnd, foreign) /\ Headers(c) /\ Within(c, G) /\ top \in DOMAIN c /\ c[top].size >= 2
      BY <2>2 DEF Good, Sound, Tiled, Parts
    <3>2. top \in Nat /\ c[top].size \in Nat /\ Span(c, top) \in G
      BY <3>1, Fields DEF Within
    <3>3. <<top, top + c[top].size>> \in G /\ top + c[top].size \in Nat
      BY <3>1, <3>2 DEF Span
    <3>4. (top + c[top].size) - top <= av.sysmem
      BY <3>1, <3>2, <3>3, OwnedFits
    <3> QED BY <3>1, <3>2, <3>4, OwnedFits DEF TopSize, SizeOf
  <2> QED BY <1>1, <2>1, <2>2 DEF Healthy
<1>3. TopServes(op.nb) /\ av' = TakeFromTop(av, op.nb) /\ Return(av.top) /\ UNCHANGED system
  BY <1>2 DEF UseTop
<1> QED BY <1>1, <1>3, CutFromTopKeeps

(* A step between calls that leaves the blocks where they are.              *)
LEMMA IdleIs ==
  ASSUME IInv, pc = "idle"
  PROVE  op = NoOp /\ Held = {} /\ Healthy(av, DOMAIN live, mapEnd, foreign)
<1>1. op = NoOp
  BY DEF IInv, OpOk
<1>2. Held = {} /\ DOMAIN live \cup Held = DOMAIN live
  BY <1>1, NoOpIs DEF Held
<1> QED BY <1>1, <1>2 DEF IInv, MemoryOk

(* Between calls only the memory itself has to be looked at.                *)
LEMMA IdleKeeps ==
  ASSUME IInv, pc = "idle", UNCHANGED <<live, pc, op, waiting>>, Healthy(av', DOMAIN live, mapEnd', foreign'),
         \A u \in DOMAIN live : av'.chunk[u].size = av.chunk[u].size
  PROVE  IInv'
<1>1. op = NoOp /\ op' = NoOp /\ Held' = {} /\ DOMAIN live' \cup Held' = DOMAIN live
  BY IdleIs, NoOpIs DEF Held
<1>2. MemoryOk'
  BY <1>1 DEF MemoryOk, Healthy
<1>3. Fits'
  BY DEF IInv, Fits
<1>4. OpOk'
  BY <1>1, NoOpIs DEF IInv, OpOk
<1> QED BY <1>2, <1>3, <1>4 DEF IInv

(* malloc_trim.                                                             *)
LEMMA TrimKeeps ==
  ASSUME IInv, NEW pad \in TrimPads, Trim(pad)
  PROVE  IInv'
<1>1. pc = "idle" /\ UNCHANGED <<live, pc, op, waiting, mapEnd, foreign>> /\ Healthy(av, DOMAIN live, mapEnd, foreign)
  BY IdleIs DEF Trim, system
<1>2. PICK ok \in SysOutcomes : av' = Systrim(av, pad, ok)
  BY DEF Trim
<1>3. pad \in Nat /\ pad + Page <= Word \div 2
  BY Pads
<1>4. CASE Good(av, DOMAIN live, mapEnd, foreign)
  <2>1. Good(av', DOMAIN live, mapEnd, foreign) /\ \A u \in DOMAIN live : av'.chunk[u].size = av.chunk[u].size
    BY <1>2, <1>3, <1>4, SystrimIs
  <2> QED BY <1>1, <2>1, IdleKeeps DEF Healthy
<1>5. CASE Fresh(av, DOMAIN live, mapEnd, foreign)
  <2>1. TopEnd(av) = 0 /\ av.brk # 0
    <3>1. av.brk >= FirstBrk /\ av.brk \in Int
      BY <1>5 DEF Fresh, Numbers, Region
    <3> QED BY <1>5, <3>1, Consts DEF Fresh, TopEnd, NextOf, SizeOf
  <2>2. av' = av
    BY <1>2, <2>1 DEF Systrim
  <2> QED BY <1>1, <2>2, IdleKeeps
<1> QED BY <1>1, <1>4, <1>5 DEF Healthy

(* Other code moves the break forward.                                      *)
LEMMA ForeignSbrkKeeps ==
  ASSUME IInv, NEW inc \in ForeignIncs, ForeignSbrk(inc)
  PROVE  IInv'
<1> DEFINE brk == av.brk
           more == brk .. brk + inc - 1
           other2 == foreign \cup more
           d == [av EXCEPT !.brk = @ + inc]
<1>1. /\ pc = "idle" /\ UNCHANGED <<live, pc, op, waiting, mapEnd>> /\ Healthy(av, DOMAIN live, mapEnd, foreign)
      /\ brk + inc <= MaxBrk /\ av' = d /\ foreign' = other2
  BY IdleIs DEF ForeignSbrk
<1>2. IsArena(av) /\ Numbers(av, mapEnd, foreign) /\ Region(brk, mapEnd, foreign) /\ inc \in Nat
  BY <1>1, MemoryAssumption DEF Healthy, Good, Fresh, Sound, Numbers
<1>3. /\ brk \in Nat /\ brk >= FirstBrk /\ mapEnd \in MapBase .. MaxMap /\ foreign \subseteq FirstBrk .. brk - 1
  BY <1>2, Consts DEF Region
<1>4. Differs(av, d, GrowFields) /\ d.brk = brk + inc /\ d.sysmem = av.sysmem /\ d.contig = av.contig
      /\ d.main = av.main /\ d.bad = av.bad /\ DOMAIN d = DOMAIN av /\ IsArena(d) /\ d.chunk = av.chunk /\ d.top = av.top
      /\ d.bins = av.bins
  BY <1>2 DEF Differs, GrowFields, IsArena, ArenaFields, Numbers
<1> HIDE DEF d
<1>5. Region(d.brk, mapEnd, other2)
  <2>1. d.brk \in FirstBrk .. MaxBrk /\ d.brk = brk + inc
    BY <1>1, <1>2, <1>3, <1>4, Consts
  <2>2. foreign \subseteq FirstBrk .. d.brk - 1 /\ more \subseteq FirstBrk .. d.brk - 1
    <3> HIDE DEF brk
    <3> QED BY <1>2, <1>3, <2>1, Consts
  <2> HIDE DEF more
  <2> QED BY <1>3, <2>1, <2>2 DEF Region
<1>6. Obtains(brk + inc, other2) = Obtains(brk, foreign)
  <2>1. brk \in Int /\ brk + inc - 1 \in Int /\ (brk + inc - 1) - brk + 1 = inc /\ (brk > brk + inc - 1 => inc = 0)
    BY <1>2, <1>3
  <2>2. IsFiniteSet(more) /\ Cardinality(more) = IF brk > brk + inc - 1 THEN 0 ELSE (brk + inc - 1) - brk + 1
    BY <2>1, FS_Interval
  <2>3. Cardinality(more) = inc
    BY <2>1, <2>2
  <2>4. IsFiniteSet(foreign) /\ Cardinality(foreign) \in Nat
    BY <1>2, ObtainsNat
  <2>5. foreign \cap more = {}
    BY <1>2, <1>3
  <2> HIDE DEF more
  <2>6. Cardinality(other2) = Cardinality(foreign) + Cardinality(more) - Cardinality(foreign \cap more)
    BY <2>2, <2>4, FS_Union
  <2>7. Cardinality(foreign \cap more) = 0
    BY <2>5, FS_EmptySet
  <2>8. Cardinality(other2) = Cardinality(foreign) + inc
    BY <1>2, <2>3, <2>4, <2>6, <2>7
  <2> HIDE DEF other2
  <2> QED BY <1>2, <1>3, <2>4, <2>8, Consts DEF Obtains
<1>7. Numbers(d, mapEnd, other2)
  BY <1>2, <1>4, <1>5, <1>6 DEF Numbers
<1>8. Healthy(d, DOMAIN live, mapEnd, other2)
  <2>1. CASE Good(av, DOMAIN live, mapEnd, foreign)
    <3>1. \A x \in other2 : x \in foreign \/ x >= av.brk
      BY <1>3
    <3>2. d.brk >= av.brk /\ (d.contig => av.contig) /\ mapEnd >= mapEnd
      BY <1>2, <1>3, <1>4, Consts
    <3> HIDE DEF other2, brk
    <3>3. Good(d, DOMAIN live, mapEnd, other2)
      BY <1>4, <1>7, <2>1, <3>1, <3>2, GoodGrows
    <3> QED BY <3>3 DEF Healthy
  <2>2. CASE Fresh(av, DOMAIN live, mapEnd, foreign)
    BY <1>4, <1>7, <2>2 DEF Healthy, Fresh
  <2> QED BY <1>1, <2>1, <2>2 DEF Healthy
<1> HIDE DEF other2
<1>9. Healthy(av', DOMAIN live, mapEnd', foreign')
  BY <1>1, <1>8
<1> QED BY <1>1, <1>4, <1>9, IdleKeeps

(* max_system_mem is written and nothing else.                              *)
LEMMA MaxKept ==
  ASSUME NEW a, NEW X, NEW end, NEW other, Good(a, X, end, other), NEW m, NEW d, d = [a EXCEPT !.maxmem = m]
  PROVE  Good(d, X, end, other) /\ d.chunk = a.chunk /\ d.top = a.top
<1>1. PICK F : Sound(a, F, X, Owned(a.brk, end, other))
  BY DEF Good
<1>2. IsArena(a)
  BY <1>1 DEF Sound
<1>3. Differs(a, d, {"maxmem"})
  BY <1>2 DEF Differs, IsArena, ArenaFields
<1>4. d.chunk = a.chunk /\ d.top = a.top
  BY <1>2, <1>3, KeptFields
<1>5. Sound(d, F, X, Owned(a.brk, end, other))
  BY <1>1, <1>3, SoundKept
<1>6. Differs(a, d, ChunkFields)
  BY <1>3 DEF Differs, ChunkFields
<1> QED BY <1>4, <1>5, <1>6, GoodAgain

(* A request of at most top_pad finds what it asked for in the new top, also *)
(* when what sysmalloc frees on the way there trims it; and so does one that *)
(* with top_pad is two pages below trim_threshold, as nothing is trimmed.   *)
Modest == op.nb <= TopPad + 1 \/ op.nb + TopPad + 2 * Page < TrimThreshold
Enough(a) == Modest => TopSize(a) >= op.nb + MinSize
Suffices == Modest => GrowthSuffices

(* A new top of what was asked for, with top_pad, is enough after any trim. *)
LEMMA LeftEnough ==
  ASSUME op.nb \in Nat, op.nb >= 2, NEW n \in Int, n >= op.nb + TopPad + MinSize, NEW a, TopLeft(n, a),
         NEW e, NEW brk, TopHolds(n, e, brk, a), n <= op.nb + TopPad + 2 * Page \/ e # brk
  PROVE  Enough(a)
<1> DEFINE m == op.nb + MinSize
<1>1. ASSUME op.nb <= TopPad + 1 PROVE TopSize(a) >= m
  <2>1. m \in 3 .. TopPad + 3 /\ n >= m
    BY <1>1, Consts
  <2> HIDE DEF m
  <2> QED BY <2>1 DEF TopLeft
<1>2. ASSUME op.nb + TopPad + 2 * Page < TrimThreshold PROVE TopHolds(n, e, brk, a) => TopSize(a) = n
  BY <1>2, Consts, HeapsAssumption DEF TopHolds
<1>3. ASSUME TopSize(a) = n PROVE TopSize(a) >= m
  BY <1>3, Consts
<1> QED BY <1>1, <1>2, <1>3 DEF Enough, Modest

(* sysmalloc has obtained memory.                                           *)
LEMMA ObtainedIs ==
  ASSUME IInv, pc = "sysmalloc", NEW a, NEW all, Obtained(a, all), UNCHANGED waiting,
         Good(a, DOMAIN live, mapEnd', foreign'), \A u \in DOMAIN live : a.chunk[u].size = av.chunk[u].size,
         all => Enough(a)
  PROVE  IInv' /\ Suffices'
<1>1. /\ Asked(op) /\ op.ret = 0 /\ op.kind \in {"malloc", "calloc", "realloc", "memalign"}
      /\ (op.kind = "realloc" => op.old \in DOMAIN live)
      /\ (op.kind = "memalign" => op.align \in Nat \ {0} /\ op.nb = op.want + op.align + MinSize + Hdr)
      /\ \A w \in waiting : Asked(w) /\ w.ret = 0 /\ w.kind = "calloc"
  BY DEF IInv, OpOk
<1>2. PICK m : av' = [a EXCEPT !.maxmem = m]
  BY DEF Obtained
<1>3. pc' = "sys_alloc" /\ op' = [op EXCEPT !.grown = all] /\ live' = live
  BY DEF Obtained
<1>4. Good(av', DOMAIN live, mapEnd', foreign') /\ av'.chunk = a.chunk /\ av'.top = a.top
  BY <1>2, MaxKept
<1>5. /\ IsOp(op') /\ op'.ret = 0 /\ op'.kind = op.kind /\ op'.nb = op.nb /\ op'.want = op.want /\ op'.old = op.old
      /\ op'.align = op.align /\ op'.grown = all
  BY <1>1, <1>3 DEF Asked, IsOp, NoOp
<1>6. Held' = {} /\ DOMAIN live' \cup Held' = DOMAIN live
  BY <1>3, <1>5 DEF Held
<1>7. MemoryOk'
  BY <1>4, <1>6 DEF MemoryOk, Healthy
<1>8. Fits'
  BY <1>3, <1>4 DEF IInv, Fits
<1>9. OpOk'
  BY <1>1, <1>3, <1>5 DEF OpOk, Asked
<1>10. Suffices'
  <2>1. TopSize(av') = TopSize(a)
    BY <1>4 DEF TopSize, SizeOf
  <2>2. Modest' <=> Modest
    BY <1>5 DEF Modest
  <2> QED BY <1>5, <2>1, <2>2 DEF Suffices, GrowthSuffices, Enough
<1> QED BY <1>7, <1>8, <1>9, <1>10 DEF IInv

(* What sysmalloc asks for.                                                 *)
LEMMA RequestIs ==
  ASSUME IInv, pc = "sysmalloc"
  PROVE  /\ SbrkRequest \in Nat /\ SbrkRequest >= 2 /\ TopSize(av) \in Nat
         /\ AlignUp(op.nb + TopPad + MinSize, Page) \in Nat /\ AlignUp(op.nb + TopPad + MinSize, Page) >= 2
         /\ SbrkRequest + (IF av.contig THEN TopSize(av) ELSE 0) >= op.nb + TopPad + MinSize
         /\ SbrkRequest + (IF av.contig THEN TopSize(av) ELSE 0) < op.nb + TopPad + MinSize + Page
         /\ AlignUp(op.nb + TopPad + MinSize, Page) >= op.nb + TopPad + MinSize
         /\ op.nb \in Nat /\ op.nb >= 2
<1>1. op.nb \in Nat /\ op.nb >= 2 /\ Healthy(av, DOMAIN live, mapEnd, foreign) /\ ~ (TopSize(av) >= op.nb + MinSize)
  BY StageIs DEF IInv, OpOk, Stages, TopServes
<1>2. TopSize(av) \in Nat
  <2>1. CASE Fresh(av, DOMAIN live, mapEnd, foreign)
    BY <2>1 DEF Fresh, TopSize, SizeOf
  <2>2. CASE Good(av, DOMAIN live, mapEnd, foreign)
    <3>1. Headers(av.chunk) /\ av.top \in DOMAIN av.chunk
      BY <2>2 DEF Good, Sound, Tiled, Parts
    <3> QED BY <3>1, Fields DEF TopSize, SizeOf
  <2> QED BY <1>1, <2>1, <2>2 DEF Healthy
<1> DEFINE x == op.nb + TopPad + MinSize - (IF av.contig THEN TopSize(av) ELSE 0)
           y == op.nb + TopPad + MinSize
<1>3. x \in Int /\ x >= 1 /\ y \in Int /\ y >= 1 /\ MinSize = 2 /\ TopPad \in Nat
  BY <1>1, <1>2, Consts
<1>4. SbrkRequest = AlignUp(x, Page)
  BY DEF SbrkRequest
<1> HIDE DEF x, y
<1>5. /\ AlignUp(x, Page) \in Int /\ AlignUp(x, Page) >= 2 /\ AlignUp(y, Page) \in Int /\ AlignUp(y, Page) >= 2
      /\ AlignUp(x, Page) >= x /\ AlignUp(y, Page) >= y /\ AlignUp(x, Page) < x + Page
  BY <1>3, UpIs
<1>6. /\ SbrkRequest + (IF av.contig THEN TopSize(av) ELSE 0) >= op.nb + TopPad + MinSize
      /\ SbrkRequest + (IF av.contig THEN TopSize(av) ELSE 0) < op.nb + TopPad + MinSize + Page
  BY Consts, <1>1, <1>2, <1>3, <1>4, <1>5 DEF x
<1> QED BY <1>1, <1>2, <1>4, <1>5, <1>6 DEF y

(* While the break is contiguous, it is not below the end of top.           *)
LEMMA TopBelow ==
  ASSUME NEW a, NEW X, NEW end, NEW other, Good(a, X, end, other), a.contig
  PROVE  TopEnd(a) \in Nat /\ TopEnd(a) <= a.brk
<1>1. Numbers(a, end, other) /\ Region(a.brk, end, other) /\ end = MapBase
  BY DEF Good, Numbers
<1> DEFINE c == a.chunk
           top == a.top
<1>2. Headers(c) /\ Within(c, Owned(a.brk, end, other)) /\ top \in DOMAIN c
  BY DEF Good, Sound, Tiled, Parts
<1>3. TopEnd(a) = top + c[top].size
  BY DEF TopEnd, NextOf, SizeOf
<1> HIDE DEF c, top
<1>4. /\ top \in Nat /\ c[top].size \in Nat
      /\ \/ FirstBrk <= top /\ top < a.brk /\ top + c[top].size <= a.brk
         \/ MapBase <= top /\ top < end /\ top + c[top].size <= end
  BY <1>1, <1>2, ChunkPlaces
<1> QED BY <1>1, <1>3, <1>4, Consts

(* sbrk gives more: top grows in place or moves.                            *)
LEMMA MorecoreKeeps ==
  ASSUME IInv, Morecore
  PROVE  IInv' /\ Suffices'
<1> DEFINE X    == DOMAIN live
           size == SbrkRequest
           brk  == av.brk
           T    == TopSize(av)
           taken == [av EXCEPT !.brk = @ + size, !.sysmem = @ + size]
           correct == IF av.contig THEN AlignUp(brk + size + T, Page) - (brk + size) ELSE 0
<1>1. /\ pc = "sysmalloc" /\ UNCHANGED <<mapEnd, foreign, waiting>> /\ brk + size <= MaxBrk
      /\ Healthy(av, X, mapEnd, foreign)
  BY StageIs DEF Morecore, Stages
<1>2. /\ size \in Nat /\ size >= 2 /\ T \in Nat /\ op.nb \in Nat /\ op.nb >= 2
      /\ size + (IF av.contig THEN T ELSE 0) >= op.nb + TopPad + MinSize
      /\ size + (IF av.contig THEN T ELSE 0) < op.nb + TopPad + MinSize + Page
  BY <1>1, RequestIs
<1>3. IsArena(av) /\ Numbers(av, mapEnd, foreign) /\ Region(brk, mapEnd, foreign)
  BY <1>1 DEF Healthy, Good, Fresh, Sound, Numbers
<1>4. brk \in Nat /\ brk >= FirstBrk /\ mapEnd \in MapBase .. MaxMap /\ foreign \subseteq FirstBrk .. brk - 1 /\ av.sysmem \in Nat
  BY <1>3, Consts DEF Region, Numbers
<1>5. Obtains(brk, foreign) \in Nat /\ Cardinality(foreign) \in Nat
  BY <1>3, ObtainsNat
<1>6. ASSUME NEW b2 \in Nat, b2 >= brk, b2 <= MaxBrk, NEW s2 \in Nat, s2 >= av.sysmem + (b2 - brk),
             NEW d, Differs(av, d, {"chunk", "brk", "sysmem", "maxmem", "top", "bins"}), d.brk = b2, d.sysmem = s2
      PROVE  Numbers(d, mapEnd, foreign)
  <2>1. Region(b2, mapEnd, foreign)
    <3>1. \A x \in foreign : x \in FirstBrk .. b2 - 1
      BY <1>4, <1>6, Consts
    <3> QED BY <1>4, <1>6, <3>1, Consts DEF Region
  <2>2. Obtains(b2, foreign) = Obtains(brk, foreign) + (b2 - brk)
    BY <1>4, <1>5, <1>6, Consts DEF Obtains
  <2>3. s2 >= Obtains(b2, foreign) + (mapEnd - MapBase)
    BY <1>3, <1>4, <1>5, <1>6, <2>2, Consts DEF Numbers
  <2>4. d.main = av.main /\ d.bad = av.bad /\ d.contig = av.contig /\ DOMAIN d = DOMAIN av
    BY <1>3, <1>6 DEF Differs, IsArena, ArenaFields, Numbers
  <2> QED BY <1>3, <1>6, <2>1, <2>3, <2>4 DEF Numbers
<1>7. CASE Extends(brk)
  <2> DEFINE d == SetHead(taken, av.top, T + size, TRUE)
  <2>1. Grown(d, brk, TRUE)
    BY <1>7 DEF Morecore
  <2>2. Good(av, X, mapEnd, foreign)
    <3>1. Fresh(av, X, mapEnd, foreign) => TopEnd(av) = 0
      BY Consts DEF Fresh, TopEnd, NextOf, SizeOf
    <3> QED BY <1>1, <1>4, <1>7, <3>1, Consts DEF Healthy, Extends
  <2> DEFINE x == 0 - size
  <2>3. /\ Differs(av, d, {"chunk", "brk", "sysmem"}) /\ d.chunk = UsedHead(av.chunk, av.top, T + size)
        /\ d.brk = brk + size /\ d.sysmem = av.sysmem + size
    BY <1>3 DEF SetHead, UsedHead, IsArena, ArenaFields, Differs
  <2>4. x \in Int /\ T - x = T + size /\ brk - x = brk + size /\ av.sysmem - x = av.sysmem + size
    BY <1>2, <1>4
  <2>5. T = av.chunk[av.top].size
    BY DEF TopSize, SizeOf
  <2> HIDE DEF d, x
  <2>6. brk = TopEnd(av) /\ T - x >= 2 /\ ~ (brk - x > MaxBrk)
    BY <1>1, <1>2, <1>4, <1>7, <2>4, Consts DEF Extends
  <2>7. Good(d, X, mapEnd, foreign) /\ \A u \in X : d.chunk[u].size = av.chunk[u].size
    BY <2>2, <2>3, <2>4, <2>5, <2>6, ResizeTopIs
  <2>8. Enough(d)
    <3>1. d.top = av.top
      BY <2>3, <1>3, KeptFields
    <3>2. TopSize(d) = T + size
      BY <2>3, <3>1 DEF UsedHead, TopSize, SizeOf
    <3> HIDE DEF T, size
    <3>3. T + size >= op.nb + MinSize
      BY <1>2, Consts
    <3> QED BY <3>2, <3>3 DEF Enough
  <2> QED BY <1>1, <2>1, <2>7, <2>8, ObtainedIs DEF Grown
<1>8. CASE ~ Extends(brk)
  <2>1. av.contig /\ TopSize(av) # 0 => TopEnd(av) \in Nat /\ TopEnd(av) <= brk
    <3>1. Fresh(av, X, mapEnd, foreign) => TopSize(av) = 0
      BY DEF Fresh, TopSize, SizeOf
    <3> QED BY <1>1, <3>1, TopBelow DEF Healthy
  <2>2. ~ (av.contig /\ TopSize(av) # 0 /\ brk < TopEnd(av))
    BY <1>4, <2>1
  <2>3. PICK more \in SysOutcomes :
          LET extra == IF more /\ brk + size + correct <= MaxBrk THEN correct ELSE 0
              all   == [taken EXCEPT !.brk = @ + extra, !.sysmem = @ + Gap(brk) + extra]
          IN \E a \in MoveTop(all, brk, size + extra) : Grown(a, brk, extra = correct)
    BY <1>8, <2>2 DEF Morecore
  <2> DEFINE extra == IF more /\ brk + size + correct <= MaxBrk THEN correct ELSE 0
             gap == Gap(brk)
             d   == [taken EXCEPT !.brk = @ + extra, !.sysmem = @ + gap + extra]
             n   == size + extra
  <2>4. PICK a \in MoveTop(d, brk, n) : Grown(a, brk, extra = correct)
    BY <2>3
  <2>5. correct \in Nat /\ (av.contig => correct >= T /\ correct < T + Page) /\ (~ av.contig => correct = 0)
    <3> DEFINE z == brk + size + T
    <3>1. z \in Int /\ z >= brk + size /\ brk + size \in Int
      BY <1>2, <1>4
    <3> HIDE DEF z
    <3>2. AlignUp(z, Page) \in Int /\ AlignUp(z, Page) >= z /\ AlignUp(z, Page) < z + Page
      BY <3>1, UpIs
    <3> DEFINE up == AlignUp(z, Page)
    <3>3. correct = IF av.contig THEN up - (brk + size) ELSE 0
      BY DEF z
    <3>4. z = (brk + size) + T
      BY DEF z
    <3> HIDE DEF up, correct, z, T, size, brk
    <3> QED BY <1>2, <3>1, <3>2, <3>3, <3>4, Consts DEF up
  <2>6. gap \in Nat
    BY <1>4, <2>1 DEF Gap
  <2> HIDE DEF correct, gap
  <2>7. extra \in Nat /\ brk + n <= MaxBrk
    BY <1>1, <1>2, <1>4, <2>5, Consts
  <2>8. Differs(av, d, {"brk", "sysmem"}) /\ d.brk = (brk + size) + extra /\ d.sysmem = (av.sysmem + size) + gap + extra
        /\ d.contig = av.contig
    BY <1>3 DEF Differs, IsArena, ArenaFields
  <2>13. extra = correct => size + extra >= op.nb + TopPad + MinSize /\ size + extra <= op.nb + TopPad + 2 * Page
    <3> HIDE DEF extra, T, size
    <3> QED BY <1>2, <2>5, <2>7, Consts
  <2> HIDE DEF d, extra
  <2>9. d.brk \in Nat /\ d.brk = brk + n /\ d.brk >= brk /\ d.sysmem \in Nat /\ d.sysmem >= av.sysmem + (d.brk - brk) /\ n \in Nat /\ n >= 2
    BY <1>2, <1>4, <2>6, <2>7, <2>8
  <2>10. Differs(av, d, {"chunk", "brk", "sysmem", "maxmem", "top", "bins"}) /\ Differs(av, d, GrowFields)
    BY <2>8 DEF Differs, GrowFields
  <2>11. Numbers(d, mapEnd, foreign)
    BY <1>6, <2>7, <2>9, <2>10
  <2>12. /\ Good(a, X, mapEnd, foreign) /\ (\A u \in X : a.chunk[u].size = av.chunk[u].size) /\ TopLeft(n, a)
         /\ TopHolds(n, brk + n, d.brk, a)
    <3>1. mapEnd >= mapEnd /\ brk + n <= d.brk /\ brk \in Nat /\ (d.contig => av.contig)
      BY <1>4, <2>8, <2>9, Consts
    <3> HIDE DEF brk, n, X
    <3> QED BY <1>1, <2>4, <2>9, <2>10, <2>11, <3>1, GrowMoveIs DEF brk
  <2>14. extra = correct => Enough(a)
    <3> SUFFICES ASSUME extra = correct PROVE Enough(a)
      OBVIOUS
    <3>1. n \in Int /\ n >= op.nb + TopPad + MinSize /\ n <= op.nb + TopPad + 2 * Page
      BY <2>9, <2>13
    <3> HIDE DEF n
    <3> QED BY <1>2, <2>12, <3>1, LeftEnough
  <2> QED BY <1>1, <2>4, <2>12, <2>14, ObtainedIs DEF Grown
<1> QED BY <1>7, <1>8

(* A mapping stands in for sbrk.                                            *)
LEMMA MmapFallbackKeeps ==
  ASSUME IInv, MmapFallback
  PROVE  IInv' /\ Suffices'
<1> DEFINE X    == DOMAIN live
           up   == AlignUp(op.nb + TopPad + MinSize, Page)
           size == IF up < MorecoreMin THEN MorecoreMin ELSE up
           d    == [av EXCEPT !.contig = FALSE, !.sysmem = @ + size]
           end2 == mapEnd + size
<1>1. /\ pc = "sysmalloc" /\ UNCHANGED <<foreign, waiting>> /\ end2 <= MaxMap /\ mapEnd' = end2
      /\ Healthy(av, X, mapEnd, foreign)
  BY StageIs DEF MmapFallback, Stages
<1>2. PICK a \in MoveTop(d, mapEnd, size) : Grown(a, mapEnd, TRUE)
  BY DEF MmapFallback
<1>3. up \in Nat /\ up >= 2 /\ MorecoreMin \in Nat /\ op.nb \in Nat /\ op.nb >= 2 /\ up >= op.nb + TopPad + MinSize
  BY <1>1, RequestIs, Consts
<1> HIDE DEF up
<1>4. size \in Nat /\ size >= 2 /\ size >= op.nb + TopPad + MinSize
  BY <1>3, Consts
<1>5. IsArena(av) /\ Numbers(av, mapEnd, foreign) /\ Region(av.brk, mapEnd, foreign)
  BY <1>1 DEF Healthy, Good, Fresh, Sound, Numbers
<1>6. /\ mapEnd \in Nat /\ mapEnd >= MapBase /\ mapEnd <= MaxMap /\ av.sysmem \in Nat /\ av.brk \in Int
      /\ av.sysmem >= Obtains(av.brk, foreign) + (mapEnd - MapBase) /\ Obtains(av.brk, foreign) \in Nat
  BY <1>5, ObtainsNat, Consts DEF Region, Numbers
<1> HIDE DEF size
<1>7. Differs(av, d, {"contig", "sysmem"}) /\ d.brk = av.brk /\ d.sysmem = av.sysmem + size /\ d.contig = FALSE
      /\ d.main = av.main /\ d.bad = av.bad /\ DOMAIN d = DOMAIN av
  BY <1>5 DEF Differs, IsArena, ArenaFields, Numbers
<1> HIDE DEF d
<1>8. Numbers(d, end2, foreign)
  <2>1. Region(av.brk, end2, foreign)
    BY <1>1, <1>4, <1>5, <1>6, Consts DEF Region
  <2>2. d.sysmem \in Nat /\ d.sysmem >= Obtains(av.brk, foreign) + (end2 - MapBase)
    BY <1>4, <1>6, <1>7, Consts
  <2> QED BY <1>5, <1>7, <2>1, <2>2 DEF Numbers
<1>9. /\ Good(a, X, end2, foreign) /\ (\A u \in X : a.chunk[u].size = av.chunk[u].size) /\ TopLeft(size, a)
      /\ TopHolds(size, mapEnd + size, d.brk, a)
  <2>1. Differs(av, d, GrowFields)
    BY <1>7 DEF Differs, GrowFields
  <2>2. /\ d.brk >= av.brk /\ end2 >= mapEnd /\ (d.contig => av.contig) /\ ~ d.contig /\ mapEnd + size <= end2 /\ mapEnd \in Nat
    BY <1>1, <1>4, <1>6, <1>7, Consts
  <2> HIDE DEF end2, X
  <2> QED BY <1>1, <1>2, <1>4, <1>8, <2>1, <2>2, GrowMoveIs
<1>10. Enough(a)
  <2>1. d.brk \in Int /\ d.brk <= MaxBrk
    BY <1>5, <1>7, Consts DEF Region
  <2>2. mapEnd + size # d.brk
    BY <1>4, <1>6, <2>1, Consts
  <2> HIDE DEF d, size
  <2> QED BY <1>3, <1>4, <1>9, <2>2, LeftEnough
<1> QED BY <1>1, <1>2, <1>9, <1>10, ObtainedIs DEF Grown

(* A call ends and the program owns the blocks of l.                        *)
LEMMA FinishIs ==
  ASSUME IInv, NEW l, Finish(l), UNCHANGED system, Good(av', DOMAIN l, mapEnd, foreign),
         \A p \in DOMAIN l : l[p] \in Nat /\ l[p] > 0 /\ l[p] <= av'.chunk[p].size
  PROVE  IInv'
<1>1. pc' = "idle" /\ op' = NoOp /\ live' = l /\ UNCHANGED <<mapEnd, foreign, waiting>>
  BY DEF Finish, system
<1>2. Held' = {} /\ DOMAIN live' \cup Held' = DOMAIN l
  BY <1>1, NoOpIs DEF Held
<1>3. MemoryOk'
  BY <1>1, <1>2 DEF MemoryOk, Healthy
<1>4. Fits'
  BY <1>1 DEF Fits
<1>5. OpOk'
  BY <1>1, NoOpIs DEF IInv, OpOk
<1> QED BY <1>3, <1>4, <1>5 DEF IInv

(* A program that owns a block has an arena.                                *)
LEMMA UsedGood ==
  ASSUME IInv, NEW p, p \in DOMAIN live \cup Held
  PROVE  Good(av, DOMAIN live \cup Held, mapEnd, foreign)
BY DEF IInv, MemoryOk, Healthy, Fresh

(* free.                                                                    *)
LEMMA FreeKeeps ==
  ASSUME IInv, NEW p \in DOMAIN live, Free(p)
  PROVE  IInv'
<1> DEFINE X == DOMAIN live
           sz == SizeOf(av, p)
           l  == Drop(live, p)
<1>1. pc = "idle" /\ Finish(l) /\ UNCHANGED system /\ Held = {} /\ Good(av, X, mapEnd, foreign)
  BY IdleIs, UsedGood DEF Free
<1>2. av' \in FreeChunk(av, p, sz) /\ sz = av.chunk[p].size
  BY DEF Free, SizeOf
<1>3. Good(av', X \ {p}, mapEnd, foreign) /\ \A u \in X \ {p} : av'.chunk[u].size = av.chunk[u].size
  <2>1. Good(av, X, mapEnd, foreign) /\ p \in X /\ sz = av.chunk[p].size /\ av' \in FreeChunk(av, p, sz)
    BY <1>1, <1>2
  <2> HIDE DEF X, sz
  <2> QED BY ONLY <2>1, FreeChunkIs
<1>4. DOMAIN l = X \ {p} /\ \A u \in DOMAIN l : l[u] = live[u]
  BY DEF Drop
<1>5. \A u \in DOMAIN l : l[u] \in Nat /\ l[u] > 0 /\ l[u] <= av'.chunk[u].size
  BY <1>3, <1>4 DEF IInv, Fits
<1> HIDE DEF l
<1> QED BY <1>1, <1>3, <1>4, <1>5, FinishIs

(* The stage after _int_malloc has served realloc.                          *)
LEMMA ReallocIs ==
  ASSUME IInv, pc = "realloc"
  PROVE  /\ op.old \in DOMAIN live /\ op.want \in Nat /\ op.want >= 2 /\ op.want <= op.nb /\ op.nb \in Nat
         /\ op.ret # 0 => op.ret \notin DOMAIN live /\ av.chunk[op.ret].size >= op.nb
         /\ Good(av, DOMAIN live \cup Held, mapEnd, foreign)
<1>1. op.old \in DOMAIN live /\ Asked(op) /\ (op.ret # 0 => op.ret \notin DOMAIN live /\ av.chunk[op.ret].size >= op.nb)
  BY DEF IInv, OpOk
<1> QED BY <1>1, UsedGood, SizesAre DEF Asked

(* realloc has copied to a new block and frees the old one.                 *)
LEMMA ReallocCopyKeeps ==
  ASSUME IInv, ReallocCopy
  PROVE  IInv'
<1> DEFINE X   == DOMAIN live \cup Held
           old == op.old
           sz  == SizeOf(av, old)
           dropped == Drop(live, old)
           l   == IF op.ret = 0 THEN dropped ELSE Give(dropped, op.ret, op.want)
<1>1. /\ old \in DOMAIN live /\ op.want \in Nat /\ op.want >= 2 /\ op.want <= op.nb /\ op.nb \in Nat
      /\ op.ret # 0 => op.ret \notin DOMAIN live /\ av.chunk[op.ret].size >= op.nb
      /\ Good(av, X, mapEnd, foreign) /\ Finish(l) /\ UNCHANGED system
      /\ av' \in FreeChunk(av, old, sz) /\ sz = av.chunk[old].size
  BY ReallocIs DEF ReallocCopy, SizeOf
<1>2. Good(av', X \ {old}, mapEnd, foreign) /\ \A u \in X \ {old} : av'.chunk[u].size = av.chunk[u].size
  <2>1. PICK p : p = old
    OBVIOUS
  <2>2. Good(av, X, mapEnd, foreign) /\ p \in X /\ sz = av.chunk[p].size /\ av' \in FreeChunk(av, p, sz)
    BY <1>1, <2>1
  <2> HIDE DEF X, sz
  <2>3. Good(av', X \ {p}, mapEnd, foreign) /\ \A u \in X \ {p} : av'.chunk[u].size = av.chunk[u].size
    BY ONLY <2>2, FreeChunkIs
  <2> QED BY <2>1, <2>3
<1>3. DOMAIN dropped = DOMAIN live \ {old} /\ \A u \in DOMAIN dropped : dropped[u] = live[u]
  BY DEF Drop
<1>4. \A u \in X \ {old} : av'.chunk[u].size \in Nat
  BY <1>2, GoodUsed
<1> HIDE DEF dropped, old
<1>5. CASE op.ret = 0
  <2>1. l = dropped /\ DOMAIN l = X \ {old}
    BY <1>3, <1>5 DEF Held
  <2>2. \A u \in DOMAIN l : l[u] \in Nat /\ l[u] > 0 /\ l[u] <= av'.chunk[u].size
    BY <1>2, <1>3, <2>1 DEF IInv, Fits
  <2> HIDE DEF l
  <2> QED BY <1>1, <1>2, <2>1, <2>2, FinishIs
<1>6. CASE op.ret # 0
  <2>1. /\ DOMAIN l = DOMAIN dropped \cup {op.ret} /\ l[op.ret] = op.want
        /\ \A u \in DOMAIN dropped : l[u] = dropped[u]
    BY <1>1, <1>3, <1>6 DEF Give
  <2>2. Held = {op.ret} /\ op.ret \in X \ {old} /\ DOMAIN l = X \ {old}
    BY <1>1, <1>3, <1>6, <2>1 DEF Held
  <2>3. \A u \in DOMAIN l : l[u] \in Nat /\ l[u] > 0 /\ l[u] <= av'.chunk[u].size
    <3> SUFFICES ASSUME NEW u \in DOMAIN l PROVE l[u] \in Nat /\ l[u] > 0 /\ l[u] <= av'.chunk[u].size
      OBVIOUS
    <3>1. CASE u = op.ret
      <4>1. av'.chunk[u].size >= op.nb /\ av'.chunk[u].size \in Nat
        BY <1>1, <1>2, <1>4, <1>6, <2>2, <3>1
      <4> QED BY <1>1, <2>1, <3>1, <4>1
    <3>2. CASE u # op.ret
      BY <1>2, <1>3, <2>1, <2>2, <3>2 DEF IInv, Fits
    <3> QED BY <3>1, <3>2
  <2> HIDE DEF l
  <2> QED BY <1>1, <1>2, <2>2, <2>3, FinishIs
<1> QED BY <1>5, <1>6

(* A header written as it is.                                               *)
LEMMA SameNewHead ==
  ASSUME NEW c, Headers(c), NEW p \in DOMAIN c
  PROVE  NewHead(c, p, c[p].size, c[p].pinuse) = c
<1>1. c[p] = [size |-> c[p].size, pinuse |-> c[p].pinuse, prev |-> c[p].prev] /\ c = [q \in DOMAIN c |-> c[q]]
  BY Fields DEF Headers
<1> QED BY <1>1 DEF NewHead

(* The chunk that ends where a chunk in use does is marked once more.       *)
LEMMA MarkAfter ==
  ASSUME NEW c, NEW top, NEW F, NEW X, NEW G, Tiled(c, top, F, X, G), NEW p \in X, NEW e, e = End(c, p)
  PROVE  Tiled(SetBit(c, e), top, F, X, G) /\ DOMAIN SetBit(c, e) = DOMAIN c
         /\ \A q \in DOMAIN c : SetBit(c, e)[q].size = c[q].size
<1>1. e \in DOMAIN c /\ c[e].pinuse
  BY DEF Tiled, UsedTags
<1>2. c[e].size > 0
  <2>1. CASE e = top
    <3>1. c[top].size >= 2 /\ c[top].size \in Nat
      BY Fields DEF Tiled, Parts
    <3> QED BY <2>1, <3>1
  <2>2. CASE e # top
    BY <2>2 DEF Tiled, Follows
  <2> QED BY <2>1, <2>2
<1>3. /\ Tiled(SetBit(c, e), top, F, X, G)
      /\ DOMAIN SetBit(c, e) = DOMAIN c
      /\ \A q \in DOMAIN c : SetBit(c, e)[q].size = c[q].size /\ (SetBit(c, e)[q].pinuse <=> c[q].pinuse)
  BY <1>1, <1>2, MarkIs
<1> QED BY <1>3

(* A chunk grown over the one behind it.                                    *)
Over(c, p, q) == NewHead(Without(c, q), p, c[p].size + c[q].size, c[p].pinuse)
Covers(c, p, q, d) ==
  /\ \A u : u \in DOMAIN d <=> u \in DOMAIN c /\ u # q
  /\ \A u \in DOMAIN c \ {p, q} : d[u].size = c[u].size
  /\ d[p].size = c[p].size + c[q].size

(* Writing the header of a chunk in use as it is changes nothing.           *)
LEMMA WholeIs ==
  ASSUME NEW c, NEW top, NEW F, NEW X, NEW G, Tiled(c, top, F, X, G), NEW p \in X,
         NEW d, d = SetBit(NewHead(c, p, c[p].size, c[p].pinuse), p + c[p].size)
  PROVE  Tiled(d, top, F, X, G) /\ DOMAIN d = DOMAIN c /\ \A u \in DOMAIN c : d[u].size = c[u].size
<1>1. Headers(c) /\ p \in DOMAIN c
  BY DEF Tiled, Parts
<1>2. d = SetBit(c, End(c, p))
  BY <1>1, SameNewHead DEF End
<1> QED BY <1>2, MarkAfter

(* A chunk of realloc joined with the new one behind it.                    *)
LEMMA JoinMarked ==
  ASSUME NEW c, NEW top, NEW F, NEW X, NEW G, Tiled(c, top, F, X, G), Closed(G), NEW p \in X, NEW q \in X, q = End(c, p),
         NEW d, d = SetBit(Over(c, p, q), p + (c[p].size + c[q].size))
  PROVE  Tiled(d, top, F, X \ {q}, G) /\ Covers(c, p, q, d)
<1> DEFINE v == Join(c, p, q)
           Y == X \ {q}
           e == p + (c[p].size + c[q].size)
<1>1. v = Over(c, p, q)
  BY DEF Join, Over
<1>2. Headers(c) /\ p \in DOMAIN c /\ q \in DOMAIN c /\ c[p].size >= 2 /\ p \in Nat /\ c[p].size \in Nat
  BY Fields DEF Tiled, Parts, UsedTags
<1>3. p # q
  BY <1>2 DEF End
<1>4. /\ Tiled(v, top, F, Y, G)
      /\ \A u : u \in DOMAIN v <=> u \in DOMAIN c /\ u # q
      /\ \A u \in DOMAIN c \ {p, q} : v[u].size = c[u].size
      /\ v[p].size = c[p].size + c[q].size
  BY JoinIs
<1> HIDE DEF v
<1>5. p \in Y /\ e = End(v, p)
  BY <1>3, <1>4 DEF End
<1> HIDE DEF Y, e
<1>6. Tiled(SetBit(v, e), top, F, Y, G) /\ DOMAIN SetBit(v, e) = DOMAIN v
      /\ \A u \in DOMAIN v : SetBit(v, e)[u].size = v[u].size
  BY <1>4, <1>5, MarkAfter
<1>7. d = SetBit(v, e)
  BY <1>1 DEF e
<1> QED BY <1>2, <1>3, <1>4, <1>6, <1>7 DEF Covers, Y

(* A chunk of realloc grown over the free one behind it.                    *)
LEMMA AbsorbIs ==
  ASSUME NEW c, NEW top, NEW F, NEW X, NEW G, Tiled(c, top, F, X, G), Closed(G), NEW p \in X, NEW q \in F, q = End(c, p),
         NEW d, d = SetBit(Over(c, p, q), p + (c[p].size + c[q].size))
  PROVE  Tiled(d, top, F \ {q}, X, G) /\ Covers(c, p, q, d)
<1> DEFINE w == Use(c, q)
           E == F \ {q}
           Y == X \cup {q}
           e == End(c, q)
           n == c[p].size + c[q].size
           b == c[p].pinuse
<1>1. /\ Headers(c) /\ p \in DOMAIN c /\ q \in DOMAIN c /\ c[p].size >= 2 /\ p \in Nat /\ c[p].size \in Nat
      /\ c[q].size >= 2 /\ c[q].size \in Nat /\ q \notin X /\ e \in DOMAIN c /\ q \in Nat
  BY Fields DEF Tiled, Parts, UsedTags, FreeTags
<1>2. p # q /\ q # e /\ p # e /\ e = p + n
  BY <1>1 DEF End
<1>3. Tiled(w, top, E, Y, G) /\ DOMAIN w = DOMAIN c /\ \A u \in DOMAIN c : w[u].size = c[u].size
  BY UseIs
<1>4. w = SetBit(c, e)
  BY DEF Use
<1>5. w[p] = c[p]
  BY <1>1, <1>2, <1>4 DEF SetBit
<1> HIDE DEF w, E, Y, e
<1>6. p \in Y /\ q \in Y /\ q = End(w, p)
  BY <1>1, <1>3 DEF Y, End
<1>7. /\ Tiled(Join(w, p, q), top, E, Y \ {q}, G)
      /\ \A u : u \in DOMAIN Join(w, p, q) <=> u \in DOMAIN w /\ u # q
      /\ \A u \in DOMAIN w \ {p, q} : Join(w, p, q)[u].size = w[u].size
      /\ Join(w, p, q)[p].size = w[p].size + w[q].size
  BY <1>3, <1>6, JoinIs
<1>8. d = Join(w, p, q)
  <2>1. Join(w, p, q) = NewHead(Without(SetBit(c, e), q), p, n, b)
    BY <1>1, <1>3, <1>4, <1>5 DEF Join
  <2>2. Without(SetBit(c, e), q) = SetBit(Without(c, q), e)
    BY <1>2, WithoutSet
  <2> HIDE DEF n, b
  <2>3. NewHead(SetBit(Without(c, q), e), p, n, b) = SetBit(NewHead(Without(c, q), p, n, b), e)
    BY <1>2, NewHeadSet
  <2> QED BY <1>2, <2>1, <2>2, <2>3 DEF Over, n, b
<1>9. Y \ {q} = X
  BY <1>1 DEF Y
<1> QED BY <1>1, <1>3, <1>7, <1>8, <1>9 DEF Covers, E

(* CutTail on an arena whose headers and lists realloc has changed.         *)
LEMMA TailIs ==
  ASSUME NEW a, NEW X, NEW end, NEW other, Good(a, X, end, other), NEW b, Differs(a, b, {"chunk", "bins"}),
         NEW p, NEW sz \in Nat, NEW F, NEW Y, NEW c1, c1 = SetBit(NewHead(b.chunk, p, sz, b.chunk[p].pinuse), p + sz),
         Tiled(c1, a.top, F, Y, Owned(a.brk, end, other)), p \in Y, Lists(b.bins, F), Sorted(c1, b.bins),
         DOMAIN c1 \subseteq DOMAIN a.chunk, NEW nb \in Nat, nb >= 2, sz >= nb, NEW d \in CutTail(b, p, sz, nb)
  PROVE  Good(d, Y, end, other) /\ Tailed(d, Y, p, nb, c1)
<1>1. IsArena(a) /\ Numbers(a, end, other) /\ (a.contig => \A q \in DOMAIN a.chunk : q <= a.top)
  BY DEF Good, Sound
<1>2. Differs(a, b, ChunkFields)
  BY DEF Differs, ChunkFields
<1>3. Numbers(b, end, other) /\ b.brk = a.brk /\ b.contig = a.contig /\ IsArena(b) /\ b.top = a.top
  BY <1>1, <1>2, NumbersKept, KeptFields
<1>4. Tiled(c1, b.top, F, Y, Owned(b.brk, end, other)) /\ (b.contig => \A q \in DOMAIN c1 : q <= b.top)
  BY <1>1, <1>3
<1> QED BY <1>3, <1>4, CutTailIs

(* realloc to a smaller size, or the same.                                  *)
LEMMA ShrinkIs ==
  ASSUME NEW a, NEW X, NEW end, NEW other, Good(a, X, end, other), NEW p \in X, NEW sz, sz = a.chunk[p].size,
         NEW nb \in Nat, nb >= 2, sz >= nb, NEW d \in CutTail(a, p, sz, nb)
  PROVE  Good(d, X, end, other) /\ d.chunk[p].size >= nb /\ \A u \in X \ {p} : d.chunk[u].size = a.chunk[u].size
<1> DEFINE G  == Owned(a.brk, end, other)
           c  == a.chunk
           c1 == SetBit(NewHead(c, p, sz, c[p].pinuse), p + sz)
<1>1. PICK F : Sound(a, F, X, G)
  BY DEF Good
<1>2. IsArena(a) /\ Tiled(c, a.top, F, X, G) /\ Lists(a.bins, F) /\ Sorted(c, a.bins) /\ X \subseteq DOMAIN c /\ F \subseteq DOMAIN c
  BY <1>1 DEF Sound, Tiled, Parts
<1>3. Tiled(c1, a.top, F, X, G) /\ DOMAIN c1 = DOMAIN c /\ \A u \in DOMAIN c : c1[u].size = c[u].size
  <2>1. c1 = SetBit(NewHead(c, p, c[p].size, c[p].pinuse), p + c[p].size)
    OBVIOUS
  <2> HIDE DEF c1, c, G
  <2> QED BY <1>2, <2>1, WholeIs
<1>4. c1 = SetBit(NewHead(a.chunk, p, sz, a.chunk[p].pinuse), p + sz)
  OBVIOUS
<1> HIDE DEF c1, c
<1>5. Sorted(c1, a.bins)
  BY <1>2, <1>3, SortedSame
<1>6. Differs(a, a, {"chunk", "bins"}) /\ sz \in Nat /\ DOMAIN c1 \subseteq DOMAIN a.chunk
  BY <1>2, <1>3, GoodUsed DEF Differs, IsArena, c
<1>7. Good(d, X, end, other) /\ Tailed(d, X, p, nb, c1)
  BY <1>2, <1>3, <1>4, <1>5, <1>6, TailIs
<1> QED BY <1>2, <1>3, <1>7 DEF c, Tailed

(* realloc joins the new chunk behind the old one.                          *)
JoinedAs(a, p, q, sz, b) ==
  q = End(a.chunk, p) /\ sz = a.chunk[p].size + a.chunk[q].size /\ b = DropHead(a, q)

(* The joined block is cut down to the request.                             *)
LEMMA JoinTailIs ==
  ASSUME NEW a, NEW X, NEW end, NEW other, Good(a, X, end, other), NEW p \in X, NEW q \in X,
         NEW sz, NEW b, JoinedAs(a, p, q, sz, b),
         NEW nb \in Nat, nb >= 2, sz >= nb, NEW d \in CutTail(b, p, sz, nb)
  PROVE  /\ Good(d, X \ {q}, end, other) /\ d.chunk[p].size >= nb
         /\ \A u \in X : u # p /\ u # q => d.chunk[u].size = a.chunk[u].size
<1> DEFINE G  == Owned(a.brk, end, other)
           c  == a.chunk
           Y  == X \ {q}
           c1 == SetBit(Over(c, p, q), p + (c[p].size + c[q].size))
<1> USE DEF JoinedAs
<1>1. PICK F : Sound(a, F, X, G)
  BY DEF Good
<1>2. /\ IsArena(a) /\ Tiled(c, a.top, F, X, G) /\ Lists(a.bins, F) /\ Sorted(c, a.bins) /\ X \subseteq DOMAIN c /\ F \subseteq DOMAIN c
      /\ F \cap X = {} /\ c[p].size \in Nat /\ c[q].size \in Nat /\ p # q
  <2>1. c[p].size >= 2 /\ p \in Nat /\ c[p].size \in Nat /\ c[q].size \in Nat
    BY <1>1, GoodUsed DEF Sound, Tiled, UsedTags
  <2> QED BY <1>1, <2>1 DEF Sound, Tiled, Parts, End
<1>3. Closed(G)
  BY OwnedMemory DEF Good, Numbers
<1>4. Tiled(c1, a.top, F, Y, G) /\ Covers(c, p, q, c1)
  <2> HIDE DEF G
  <2> QED BY <1>2, <1>3, JoinMarked
<1>5. Differs(a, b, {"chunk"}) /\ b.chunk = Without(c, q) /\ b.bins = a.bins
  BY <1>2, DropHeadIs, KeptFields
<1>6. c1 = SetBit(NewHead(b.chunk, p, sz, b.chunk[p].pinuse), p + sz)
  BY <1>2, <1>5 DEF Over, Without
<1> HIDE DEF c1, c
<1>7. Sorted(c1, b.bins) /\ Lists(b.bins, F)
  <2>1. \A u \in F : c1[u].size = c[u].size
    BY <1>2, <1>4 DEF Covers
  <2> QED BY <1>2, <1>5, <2>1, SortedSame
<1>8. Differs(a, b, {"chunk", "bins"}) /\ sz \in Nat /\ DOMAIN c1 \subseteq DOMAIN a.chunk /\ p \in Y
  BY <1>2, <1>4, <1>5 DEF Differs, Covers, c
<1> HIDE DEF Y
<1>9. Good(d, Y, end, other) /\ Tailed(d, Y, p, nb, c1)
  BY <1>4, <1>6, <1>7, <1>8, TailIs
<1> QED BY <1>2, <1>4, <1>9 DEF c, Covers, Y, Tailed

(* realloc takes the free chunk behind the old one.                         *)
LEMMA AbsorbTailIs ==
  ASSUME NEW a, NEW X, NEW end, NEW other, Good(a, X, end, other), NEW p \in X, NEW q, q = End(a.chunk, p),
         q # a.top, ~ InUse(a, q),
         NEW sz, sz = a.chunk[p].size + a.chunk[q].size, NEW b, b = DropHead(Unlink(a, q), q),
         NEW nb \in Nat, nb >= 2, sz >= nb, NEW d \in CutTail(b, p, sz, nb)
  PROVE  /\ UnlinkChecks(a, q) /\ Good(d, X, end, other) /\ d.chunk[p].size >= nb
         /\ \A u \in X \ {p} : d.chunk[u].size = a.chunk[u].size
<1> DEFINE G  == Owned(a.brk, end, other)
           c  == a.chunk
           c1 == SetBit(Over(c, p, q), p + (c[p].size + c[q].size))
           a1 == Unlink(a, q)
<1>1. PICK F : Sound(a, F, X, G)
  BY DEF Good
<1> DEFINE E == F \ {q}
<1>2. /\ IsArena(a) /\ Tiled(c, a.top, F, X, G) /\ Lists(a.bins, F) /\ Sorted(c, a.bins) /\ X \subseteq DOMAIN c /\ F \subseteq DOMAIN c
      /\ F \cap X = {} /\ Headers(c)
  BY <1>1 DEF Sound, Tiled, Parts
<1>3. Closed(G)
  BY OwnedMemory DEF Good, Numbers
<1>4. q \in F
  <2>1. ~ c[End(c, q)].pinuse
    BY DEF InUse, PrevInUse, NextOf, SizeOf, End
  <2> HIDE DEF c, G
  <2>2. q \in F <=> ~ c[End(c, q)].pinuse
    BY <1>2, AfterUsed DEF c
  <2> QED BY <2>1, <2>2
<1>5. c[p].size \in Nat /\ c[q].size \in Nat /\ c[p].size >= 2 /\ p \in Nat /\ p # q /\ p \in DOMAIN c /\ q \in DOMAIN c
  BY <1>2, <1>4, Fields DEF Tiled, UsedTags, End
<1>6. UnlinkChecks(a, q)
  BY <1>2, <1>4 DEF Tiled, FreeTags, UnlinkChecks, NextOf, SizeOf, End
<1>7. Tiled(c1, a.top, E, X, G) /\ Covers(c, p, q, c1)
  <2> HIDE DEF G
  <2> QED BY <1>2, <1>3, <1>4, AbsorbIs
<1>8. a1 = Unlink(a, q) /\ b = DropHead(a1, q)
  OBVIOUS
<1> HIDE DEF a1
<1>9. Differs(a, a1, {"bins"}) /\ a1.bins = [i \in DOMAIN a.bins |-> RemoveFirst(a.bins[i], q)] /\ IsArena(a1) /\ a1.chunk = c
  BY <1>2, <1>8, UnlinkIs, KeptFields
<1>10. Differs(a1, b, {"chunk"}) /\ b.chunk = Without(c, q) /\ b.bins = a1.bins
  BY <1>8, <1>9, DropHeadIs, KeptFields
<1>11. c1 = SetBit(NewHead(b.chunk, p, sz, b.chunk[p].pinuse), p + sz)
  BY <1>5, <1>10 DEF Over, Without
<1>12. Lists(b.bins, E) /\ Sorted(c, b.bins)
  <2> HIDE DEF c
  <2> QED BY <1>2, <1>4, <1>9, <1>10, UnlinkLists
<1> HIDE DEF c1, c
<1>13. Sorted(c1, b.bins)
  <2>1. \A u \in E : c1[u].size = c[u].size
    BY <1>2, <1>5, <1>7 DEF Covers
  <2> HIDE DEF E
  <2> QED BY <1>12, <2>1, SortedSame
<1>14. Differs(a, b, {"chunk", "bins"}) /\ sz \in Nat /\ DOMAIN c1 \subseteq DOMAIN a.chunk
  BY <1>5, <1>7, <1>9, <1>10 DEF Differs, Covers, c
<1> HIDE DEF E
<1>15. Good(d, X, end, other) /\ Tailed(d, X, p, nb, c1)
  BY <1>7, <1>11, <1>12, <1>13, <1>14, TailIs
<1> QED BY <1>2, <1>4, <1>6, <1>7, <1>15 DEF c, Covers, Tailed

(* realloc grows the last block into top.                                   *)
Stretched(a, p, nb) ==
  [SetHead(SetHead(DropHead(a, a.top), p, nb, PrevInUse(a, p)), p + nb,
           (SizeOf(a, p) + SizeOf(a, a.top)) - nb, TRUE) EXCEPT !.top = p + nb]

(* The new top behind the grown block.                                      *)
LEMMA StretchIs ==
  ASSUME NEW a, NEW X, NEW end, NEW other, Good(a, X, end, other), NEW p \in X, End(a.chunk, p) = a.top,
         NEW nb \in Nat, nb >= 2, a.chunk[p].size < nb, a.chunk[p].size + a.chunk[a.top].size >= nb + 2,
         NEW d, d = Stretched(a, p, nb)
  PROVE  Good(d, X, end, other) /\ Tailed(d, X, p, nb, a.chunk)
<1> DEFINE G  == Owned(a.brk, end, other)
           c  == a.chunk
           top == a.top
           r  == p + nb
           m  == c[p].size + c[top].size - nb
           b  == c[p].pinuse
           a1 == DropHead(a, top)
           a2 == SetHead(a1, p, nb, b)
           a3 == SetUsed(a2, r, m)
           v  == GrowIntoTop(c, p, top, nb)
<1>1. PICK F : Sound(a, F, X, G)
  BY DEF Good
<1>2. /\ IsArena(a) /\ Tiled(c, top, F, X, G) /\ Lists(a.bins, F) /\ Sorted(c, a.bins) /\ X \subseteq DOMAIN c \ {top} /\ F \subseteq DOMAIN c \ {top}
      /\ F \cap X = {} /\ Headers(c) /\ top \in DOMAIN c
  BY <1>1 DEF Sound, Tiled, Parts
<1>3. Closed(G) /\ Numbers(a, end, other) /\ (a.contig => \A q \in DOMAIN c : q <= top)
  BY OwnedMemory DEF Good, Numbers
<1>4. p \in DOMAIN c /\ p \in Nat /\ c[p].size \in Nat /\ c[top].size \in Nat /\ c[p].size + c[top].size - nb >= 2 /\ End(c, p) = top
      /\ top = p + c[p].size
  BY <1>2, Fields DEF End
<1> DEFINE t == (c[p].size + c[top].size) - nb
<1>a. t = m
  BY <1>4
<1>5. d = [a3 EXCEPT !.top = r] /\ a1 = DropHead(a, top) /\ a2 = SetHead(a1, p, nb, b) /\ a3 = SetUsed(a2, r, m)
      /\ v = GrowIntoTop(c, p, top, nb)
  <2>1. d = [SetHead(SetHead(DropHead(a, top), p, nb, b), r, t, TRUE) EXCEPT !.top = r]
    BY DEF Stretched, PrevInUse, SizeOf
  <2> HIDE DEF t, m
  <2>2. d = [SetHead(SetHead(DropHead(a, top), p, nb, b), r, m, TRUE) EXCEPT !.top = r]
    BY ONLY <1>a, <2>1, Zenon
  <2> QED BY <2>2 DEF SetUsed, m
<1>6. v = UsedHead(NewHead(Without(c, top), p, nb, b), r, m)
  BY DEF GrowIntoTop
<1> HIDE DEF a1, a2, a3, v, b, m, r, c, top
<1>7. Differs(a, a1, {"chunk"}) /\ a1.chunk = Without(c, top) /\ IsArena(a1)
  BY <1>2, <1>5, DropHeadIs, KeptFields DEF c
<1>8. Differs(a1, a2, {"chunk"}) /\ a2.chunk = NewHead(a1.chunk, p, nb, b) /\ IsArena(a2)
  BY <1>5, <1>7, SetHeadIs, KeptFields
<1>9. Differs(a2, a3, {"chunk"}) /\ a3.chunk = UsedHead(a2.chunk, r, m) /\ IsArena(a3)
  BY ONLY <1>5, <1>8, SetUsedIs, KeptFields
<1>10. Differs(a, a3, {"chunk"}) /\ a3.chunk = v
  BY <1>6, <1>7, <1>8, <1>9 DEF Differs
<1>11. Differs(a3, d, {"top"}) /\ d.top = r /\ IsArena(d) /\ d.chunk = a3.chunk
  BY <1>5, <1>9 DEF IsArena, ArenaFields, Differs
<1>12. Differs(a, d, {"chunk", "top"})
  BY <1>10, <1>11 DEF Differs
<1>13. d.bins = a.bins
  BY <1>2, <1>12, KeptFields
<1>14. /\ Tiled(v, r, F, X, G)
       /\ \A u : u \in DOMAIN v <=> (u \in DOMAIN c /\ u # top) \/ u = r
       /\ \A u \in DOMAIN c \ {p, top} : v[u].size = c[u].size
       /\ v[p].size = nb
  <2> DEFINE w == GrowIntoTop(c, p, top, nb)
  <2>1. /\ Tiled(w, p + nb, F, X, G)
        /\ \A u : u \in DOMAIN w <=> (u \in DOMAIN c /\ u # top) \/ u = p + nb
        /\ \A u \in DOMAIN c \ {p, top} : w[u].size = c[u].size
        /\ w[p].size = nb
        /\ w[p + nb].size = c[p].size + c[top].size - nb
    BY ONLY <1>2, <1>3, <1>4, p \in X, nb \in Nat, nb >= 2, GrowIntoTopIs
  <2> QED BY <1>5, <2>1 DEF r
<1>15. Sorted(v, a.bins)
  <2>1. \A u \in F : v[u].size = c[u].size
    BY <1>2, <1>14
  <2> QED BY <1>2, <2>1, SortedSame
<1>16. Sound(d, F, X, G)
  BY <1>2, <1>10, <1>11, <1>13, <1>14, <1>15 DEF Sound
<1>17. Differs(a, d, ChunkFields)
  BY <1>12 DEF Differs, ChunkFields
<1>18. (\A q \in DOMAIN a.chunk : q <= a.top) => \A q \in DOMAIN d.chunk : q <= d.top
  <2>1. top < r /\ r \in Nat /\ top \in Nat /\ \A u \in DOMAIN c : u \in Nat
    BY <1>2, <1>4, Fields DEF r, c
  <2> QED BY <1>10, <1>11, <1>14, <2>1 DEF c, top
<1>19. Good(d, X, end, other)
  BY <1>16, <1>17, <1>18, GoodAgain DEF G
<1> QED BY <1>2, <1>10, <1>11, <1>14, <1>19 DEF Tailed, c

(* The tests of _int_realloc hold of every block.                           *)
LEMMA ReallocChecksHold ==
  ASSUME NEW p \in DOMAIN live, Good(av, DOMAIN live, mapEnd, foreign)
  PROVE  /\ ReallocChecks(p)
         /\ NextOf(av, p) = End(av.chunk, p) /\ NextOf(av, p) \in DOMAIN av.chunk
<1> DEFINE G == Owned(av.brk, mapEnd, foreign)
           c == av.chunk
           X == DOMAIN live
           q == End(c, p)
<1>1. PICK F : Sound(av, F, X, G)
  BY DEF Good
<1>2. /\ Tiled(c, av.top, F, X, G) /\ Headers(c) /\ Within(c, G) /\ p \in DOMAIN c
  BY <1>1 DEF Sound, Tiled, Parts
<1>3. c[p].size >= 2 /\ q \in DOMAIN c /\ c[q].pinuse
  BY <1>2 DEF Tiled, UsedTags
<1>4. c[q].size >= 1
  <2>1. q = av.top => c[q].size >= 2
    BY <1>2 DEF Tiled, Parts
  <2>2. q # av.top => c[q].size > 0
    BY <1>2 DEF Tiled, Follows
  <2>3. c[q].size \in Nat
    BY <1>2, <1>3, Fields
  <2> QED BY <2>1, <2>2, <2>3
<1> HIDE DEF q
<1>5. /\ p \in Nat /\ q \in Nat /\ c[p].size \in Nat /\ c[q].size \in Nat /\ q = p + c[p].size
      /\ End(c, q) = q + c[q].size /\ End(c, q) \in Nat
  BY <1>2, <1>3, Fields DEF q
<1>6. <<p, q>> \in G /\ <<q, End(c, q)>> \in G
  BY <1>2, <1>3, <1>4, <1>5 DEF Within, Span, End
<1>7. Closed(G) /\ Numbers(av, mapEnd, foreign)
  BY OwnedMemory DEF Good, Numbers
<1>8. <<p, End(c, q)>> \in G
  BY <1>5, <1>6, <1>7 DEF Closed
<1>9. av.sysmem \in Int /\ End(c, q) - p <= av.sysmem
  BY <1>5, <1>7, <1>8, OwnedFits
<1>10. c[p].size < av.sysmem /\ c[q].size < av.sysmem
  BY <1>3, <1>4, <1>5, <1>9
<1>11. NextOf(av, p) = q
  BY <1>5 DEF NextOf, SizeOf
<1> HIDE DEF c
<1>12. SizeOf(av, p) = c[p].size /\ SizeOf(av, q) = c[q].size /\ (PrevInUse(av, q) <=> c[q].pinuse)
  BY DEF SizeOf, PrevInUse, c
<1>13. ReallocChecks(p)
  BY <1>3, <1>4, <1>5, <1>10, <1>11, <1>12, Consts DEF ReallocChecks
<1> QED BY <1>3, <1>11, <1>13 DEF q, c

(* realloc asks for a new block.                                            *)
LEMMA ReallocMovesKeeps ==
  ASSUME IInv, NEW p \in DOMAIN live, NEW nb \in Requests, ReallocMoves(p, nb)
  PROVE  IInv'
<1>1. pc = "idle" /\ op = NoOp /\ Held = {} /\ Good(av, DOMAIN live \cup Held, mapEnd, foreign)
  BY IdleIs, UsedGood DEF ReallocMoves
<1>2. ReallocChecks(p)
  <2>1. DOMAIN live \cup Held = DOMAIN live
    BY <1>1
  <2> QED BY <1>1, <2>1, ReallocChecksHold
<1>3. /\ pc' = "malloc" /\ op' = [NoOp EXCEPT !.kind = "realloc", !.nb = nb, !.want = nb, !.old = p]
      /\ UNCHANGED <<av, live, mapEnd, foreign, waiting>>
  BY <1>2 DEF ReallocMoves, system
<1>4. nb \in Sizes /\ nb \in Nat /\ nb >= 2
  BY RequestsAre
<1>5. IsOp(op') /\ op'.ret = 0 /\ op'.kind = "realloc" /\ op'.nb = nb /\ op'.want = nb /\ op'.old = p
  BY <1>3 DEF IsOp, NoOp
<1>6. OpOk'
  BY <1>1, <1>3, <1>4, <1>5 DEF IInv, OpOk, Asked
<1> QED BY <1>1, <1>3, <1>5, <1>6, NoOpIs, QuietKeeps

(* A block that realloc leaves in its place.                                *)
LEMMA StaysIs ==
  ASSUME IInv, NEW p \in DOMAIN live, NEW n \in Nat, n > 0, Finish(Give(live, p, n)), UNCHANGED system,
         Good(av', DOMAIN live, mapEnd, foreign), NEW nb \in Nat, n <= nb, av'.chunk[p].size >= nb,
         \A u \in DOMAIN live \ {p} : av'.chunk[u].size = av.chunk[u].size
  PROVE  IInv'
<1> DEFINE l == Give(live, p, n)
           s == av'.chunk[p].size
<1>1. DOMAIN l = DOMAIN live /\ l[p] = n /\ \A u \in DOMAIN live \ {p} : l[u] = live[u]
  BY DEF Give
<1>2. s \in Nat
  BY GoodUsed
<1>3. ASSUME NEW u \in DOMAIN l PROVE l[u] \in Nat /\ l[u] > 0 /\ l[u] <= av'.chunk[u].size
  <2>1. CASE u = p
    BY <1>1, <1>2, <2>1
  <2>2. CASE u # p
    BY <1>1, <1>3, <2>2 DEF IInv, Fits
  <2> QED BY <2>1, <2>2
<1>4. Finish(l) /\ Good(av', DOMAIN l, mapEnd, foreign)
  BY <1>1
<1> HIDE DEF l
<1> QED BY <1>3, <1>4, FinishIs

(* realloc serves the request where the block lies.                         *)
LEMMA ReallocInPlaceKeeps ==
  ASSUME IInv, NEW p \in DOMAIN live, NEW nb \in Requests, ReallocInPlace(p, nb)
  PROVE  IInv'
<1> DEFINE X    == DOMAIN live
           sz   == SizeOf(av, p)
           next == NextOf(av, p)
           both == sz + SizeOf(av, next)
<1>1. pc = "idle" /\ Held = {} /\ Finish(Give(live, p, nb)) /\ UNCHANGED system /\ Good(av, X, mapEnd, foreign)
  BY IdleIs, UsedGood DEF ReallocInPlace
<1>2. nb \in Nat /\ nb >= 2
  BY RequestsAre
<1>3. /\ next = End(av.chunk, p) /\ sz = av.chunk[p].size /\ both = av.chunk[p].size + av.chunk[next].size
      /\ sz \in Nat
  BY <1>1, ReallocChecksHold, GoodUsed DEF SizeOf
<1>4. \/ sz >= nb /\ av' \in CutTail(av, p, sz, nb)
      \/ /\ sz < nb /\ next = av.top /\ both >= nb + MinSize
         /\ av' = [SetHead(SetHead(DropHead(av, next), p, nb, PrevInUse(av, p)),
                           p + nb, both - nb, TRUE) EXCEPT !.top = p + nb]
      \/ /\ sz < nb /\ next # av.top /\ ~ InUse(av, next) /\ both >= nb
         /\ IF UnlinkChecks(av, next)
            THEN \E a \in {DropHead(Unlink(av, next), next)} : av' \in CutTail(a, p, both, nb)
            ELSE av' = [av EXCEPT !.bad = TRUE]
  BY DEF ReallocInPlace
<1>5. /\ Good(av', X, mapEnd, foreign) /\ av'.chunk[p].size >= nb
      /\ \A u \in X \ {p} : av'.chunk[u].size = av.chunk[u].size
  <2>1. CASE sz >= nb /\ av' \in CutTail(av, p, sz, nb)
    <3> HIDE DEF X, sz
    <3> QED BY ONLY <1>1, <1>2, <1>3, <2>1, p \in DOMAIN live, ShrinkIs DEF X
  <2>2. CASE /\ sz < nb /\ next = av.top /\ both >= nb + MinSize
             /\ av' = [SetHead(SetHead(DropHead(av, next), p, nb, PrevInUse(av, p)),
                               p + nb, both - nb, TRUE) EXCEPT !.top = p + nb]
    <3>1. av' = Stretched(av, p, nb)
      <4>1. next = av.top
        BY <2>2
      <4>2. both = SizeOf(av, p) + SizeOf(av, next)
        OBVIOUS
      <4> HIDE DEF next, both
      <4>3. av' = [SetHead(SetHead(DropHead(av, av.top), p, nb, PrevInUse(av, p)),
                           p + nb, both - nb, TRUE) EXCEPT !.top = p + nb]
        BY ONLY <2>2, <4>1, Zenon
      <4>4. both = SizeOf(av, p) + SizeOf(av, av.top)
        BY ONLY <4>1, <4>2, Zenon
      <4> QED BY ONLY <4>3, <4>4, Zenon DEF Stretched
    <3>2. /\ End(av.chunk, p) = av.top /\ av.chunk[p].size < nb
          /\ av.chunk[p].size + av.chunk[av.top].size >= nb + 2
      BY <1>3, <2>2, Consts
    <3>3. Good(av', X, mapEnd, foreign) /\ Tailed(av', X, p, nb, av.chunk)
      <4> HIDE DEF X
      <4> QED BY ONLY <1>1, <1>2, <3>1, <3>2, p \in DOMAIN live, StretchIs DEF X
    <3> QED BY <1>2, <3>3 DEF Tailed
  <2>3. CASE /\ sz < nb /\ next # av.top /\ ~ InUse(av, next) /\ both >= nb
             /\ IF UnlinkChecks(av, next)
                THEN \E a \in {DropHead(Unlink(av, next), next)} : av' \in CutTail(a, p, both, nb)
                ELSE av' = [av EXCEPT !.bad = TRUE]
    <3> DEFINE b == DropHead(Unlink(av, next), next)
    <3> HIDE DEF X, next, both
    <3>1. b = DropHead(Unlink(av, next), next)
      OBVIOUS
    <3>2. \/ UnlinkChecks(av, next) /\ av' \in CutTail(b, p, both, nb)
          \/ ~ UnlinkChecks(av, next)
      BY <2>3
    <3> HIDE DEF b
    <3>3. ASSUME NEW d \in CutTail(b, p, both, nb)
          PROVE  /\ UnlinkChecks(av, next) /\ Good(d, X, mapEnd, foreign) /\ d.chunk[p].size >= nb
                 /\ \A u \in X \ {p} : d.chunk[u].size = av.chunk[u].size
      BY ONLY <1>1, <1>2, <1>3, <2>3, <3>1, d \in CutTail(b, p, both, nb), p \in DOMAIN live, AbsorbTailIs DEF X
    <3>4. UnlinkChecks(av, next)
      <4>1. PICK F : Sound(av, F, X, Owned(av.brk, mapEnd, foreign))
        BY <1>1 DEF Good
      <4>2. Tiled(av.chunk, av.top, F, X, Owned(av.brk, mapEnd, foreign)) /\ p \in X
        BY <4>1 DEF Sound, X
      <4>3. next \in F
        <5>1. ~ av.chunk[End(av.chunk, next)].pinuse
          BY <2>3 DEF InUse, PrevInUse, NextOf, SizeOf, End
        <5> DEFINE c == av.chunk
                   G == Owned(av.brk, mapEnd, foreign)
        <5>2. Tiled(c, av.top, F, X, G)
          BY <4>2
        <5> HIDE DEF c, G
        <5>3. next \in F <=> ~ c[End(c, next)].pinuse
          BY <1>3, <2>3, <4>2, <5>2, AfterUsed DEF c
        <5> QED BY <5>1, <5>3 DEF c
      <4> QED BY <4>2, <4>3 DEF Tiled, FreeTags, UnlinkChecks, NextOf, SizeOf, End
    <3> QED BY <3>2, <3>3, <3>4
  <2> QED BY <1>4, <2>1, <2>2, <2>3
<1> HIDE DEF X, sz, next, both
<1>6. nb > 0 /\ nb <= nb
  BY <1>2
<1> QED BY <1>1, <1>2, <1>5, <1>6, StaysIs DEF X

(* realloc was given the chunk behind the old block.                        *)
LEMMA ReallocJoinKeeps ==
  ASSUME IInv, ReallocJoin
  PROVE  IInv'
<1> DEFINE X == DOMAIN live \cup Held
<1>1. PICK p : p = op.old
  OBVIOUS
<1>2. PICK q : q = op.ret
  OBVIOUS
<1>3. PICK nb : nb = op.nb
  OBVIOUS
<1>4. PICK n : n = op.want
  OBVIOUS
<1> DEFINE b == DropHead(av, q)
<1>5. b = DropHead(av, q)
  OBVIOUS
<1>6. PICK sz : sz = SizeOf(av, p) + SizeOf(av, q)
  OBVIOUS
<1>7. /\ p \in DOMAIN live /\ n \in Nat /\ n >= 2 /\ n <= nb /\ nb \in Nat
      /\ q # 0 => q \notin DOMAIN live /\ av.chunk[q].size >= nb
      /\ Good(av, X, mapEnd, foreign)
  BY <1>1, <1>2, <1>3, <1>4, ReallocIs DEF ReallocJoin
<1>8. Finish(Give(live, p, n)) /\ UNCHANGED system /\ q = NextOf(av, p) /\ av' \in CutTail(b, p, sz, nb)
  BY <1>1, <1>2, <1>3, <1>4, <1>5, <1>6 DEF ReallocJoin, Adjoins
<1>9. p \in Nat \ {0} /\ av.chunk[p].size \in Nat /\ q = End(av.chunk, p) /\ sz = av.chunk[p].size + av.chunk[q].size
  BY <1>6, <1>7, <1>8, GoodUsed DEF NextOf, SizeOf, End
<1>10. q # 0 /\ q = p + av.chunk[p].size
  BY <1>9 DEF End
<1>11. Held = {q} /\ q \in X /\ p \in X /\ X \ {q} = DOMAIN live /\ p # q
  BY <1>2, <1>7, <1>10 DEF Held
<1>12. av.chunk[q].size \in Nat
  BY <1>7, <1>11, GoodUsed
<1>13. sz >= nb /\ nb >= 2
  BY <1>7, <1>9, <1>10, <1>12
<1> HIDE DEF X, b
<1>14. /\ Good(av', X \ {q}, mapEnd, foreign) /\ av'.chunk[p].size >= nb
       /\ \A u \in X : u # p /\ u # q => av'.chunk[u].size = av.chunk[u].size
  <2>1. ASSUME NEW d \in CutTail(b, p, sz, nb)
        PROVE  /\ Good(d, X \ {q}, mapEnd, foreign) /\ d.chunk[p].size >= nb
               /\ \A u \in X : u # p /\ u # q => d.chunk[u].size = av.chunk[u].size
    <3>1. Good(av, X, mapEnd, foreign) /\ nb \in Nat /\ nb >= 2 /\ sz >= nb
      BY <1>7, <1>13
    <3>2. p \in X /\ q \in X /\ q = End(av.chunk, p) /\ sz = av.chunk[p].size + av.chunk[q].size
      BY <1>9, <1>11
    <3> DEFINE a == av
    <3>3. /\ Good(a, X, mapEnd, foreign) /\ q = End(a.chunk, p) /\ sz = a.chunk[p].size + a.chunk[q].size
          /\ JoinedAs(a, p, q, sz, b)
      BY <1>5, <3>1, <3>2 DEF JoinedAs
    <3> HIDE DEF a
    <3>4. /\ Good(d, X \ {q}, mapEnd, foreign) /\ d.chunk[p].size >= nb
          /\ \A u \in X : u # p /\ u # q => d.chunk[u].size = a.chunk[u].size
      BY ONLY <3>1, <3>2, <3>3, d \in CutTail(b, p, sz, nb), JoinTailIs
    <3> QED BY <3>4 DEF a
  <2> QED BY <1>8, <2>1
<1>15. Good(av', DOMAIN live, mapEnd, foreign) /\ \A u \in DOMAIN live \ {p} : av'.chunk[u].size = av.chunk[u].size
  BY <1>11, <1>14 DEF X
<1>16. n > 0
  BY <1>7
<1> QED BY <1>7, <1>8, <1>14, <1>15, <1>16, StaysIs

(* Chunk v, no longer on a list, serves a request of nb.                    *)
Served(a, d, X, v, nb, end, other) ==
  /\ v \notin X /\ Good(d, X \cup {v}, end, other) /\ d.chunk[v].size >= nb
  /\ \A u \in X : d.chunk[u].size = a.chunk[u].size

SizesKept(a, d, Z) == \A u \in Z : d.chunk[u].size = a.chunk[u].size
ListFields == {"bins", "binmap", "last"}

(* Taking a chunk off its list, and what follows, leaves the arena good.    *)
LEMMA LeavesGood ==
  ASSUME NEW a, NEW X, NEW end, NEW other, Good(a, X, end, other), NEW b, Differs(a, b, ListFields),
         NEW d, NEW Z, Leaves(b, b.chunk, d, Z), NEW Y, NEW H, Sound(d, H, Y, Owned(a.brk, end, other))
  PROVE  Good(d, Y, end, other) /\ SizesKept(a, d, Z)
<1>1. IsArena(a)
  BY DEF Good, Sound
<1>2. b.chunk = a.chunk /\ b.top = a.top /\ IsArena(b)
  BY <1>1, KeptFields DEF ListFields
<1>3. /\ Differs(b, d, FreeFields) /\ (\A u \in Z : d.chunk[u].size = a.chunk[u].size)
      /\ ((\A q \in DOMAIN a.chunk : q <= a.top) => \A q \in DOMAIN d.chunk : q <= d.top)
  BY <1>2 DEF Leaves
<1>4. Differs(a, d, ChunkFields)
  BY <1>3 DEF Differs, ListFields, FreeFields, ChunkFields
<1> QED BY <1>3, <1>4, GoodAgain DEF SizesKept

(* The whole of a chunk is used.                                            *)
LEMMA UseAllServes ==
  ASSUME NEW a, NEW X, NEW end, NEW other, Good(a, X, end, other), NEW b, Differs(a, b, ListFields),
         NEW v, NEW F, Loose(b, v, F, X, Owned(a.brk, end, other)), NEW nb, a.chunk[v].size >= nb,
         NEW q, q = End(a.chunk, v), NEW d, d = SetInUseBit(b, q)
  PROVE  Served(a, d, X, v, nb, end, other)
<1> DEFINE G == Owned(a.brk, end, other)
           Y == X \cup {v}
<1>1. IsArena(a) /\ b.chunk = a.chunk
  BY KeptFields DEF Good, Sound, ListFields
<1>2. v \notin X
  BY DEF Loose, Tiled, Parts
<1>3. Sound(d, F \ {v}, Y, G) /\ Leaves(b, b.chunk, d, Y)
  <2> HIDE DEF G
  <2>1. q = End(b.chunk, v) /\ Loose(b, v, F, X, G)
    BY <1>1 DEF G
  <2> QED BY <2>1, UseAllIs
<1> HIDE DEF Y
<1>4. Good(d, Y, end, other) /\ SizesKept(a, d, Y)
  BY <1>3, LeavesGood
<1> QED BY <1>2, <1>4 DEF Served, Y, SizesKept

(* A chunk is used and its rest, if there is one, becomes a free chunk.     *)
LEMMA VictimServes ==
  ASSUME NEW a, NEW X, NEW end, NEW other, Good(a, X, end, other), NEW b, Differs(a, b, ListFields),
         NEW v, NEW F, Loose(b, v, F, X, Owned(a.brk, end, other)), NEW nb \in Nat, nb >= 2, a.chunk[v].size >= nb,
         NEW d, d = TakeVictim(b, v, nb)
  PROVE  Served(a, d, X, v, nb, end, other)
<1> DEFINE G == Owned(a.brk, end, other)
           Y == X \cup {v}
<1>1. IsArena(a) /\ b.chunk = a.chunk /\ Memory(G)
  BY KeptFields, OwnedMemory DEF Good, Sound, ListFields, Numbers
<1>2. (\E H : Sound(d, H, Y, G)) /\ Leaves(b, b.chunk, d, X) /\ v \notin X /\ d.chunk[v].size >= nb
  <2> HIDE DEF G
  <2>1. Loose(b, v, F, X, G) /\ b.chunk[v].size >= nb
    BY <1>1 DEF G
  <2> QED BY <1>1, <2>1, TakeVictimIs
<1>3. PICK H : Sound(d, H, Y, G)
  BY <1>2
<1> HIDE DEF Y
<1>4. Good(d, Y, end, other) /\ SizesKept(a, d, X)
  BY <1>2, <1>3, LeavesGood
<1> QED BY <1>2, <1>4 DEF Served, Y, SizesKept

(* last_remainder is of no consequence to the memory.                       *)
LEMMA LastServes ==
  ASSUME NEW a, NEW d, NEW X, NEW v, NEW nb, NEW end, NEW other, Served(a, d, X, v, nb, end, other),
         NEW e, Differs(d, e, {"last"})
  PROVE  Served(a, e, X, v, nb, end, other)
<1> DEFINE Y == X \cup {v}
<1>1. Good(d, Y, end, other) /\ v \notin X /\ d.chunk[v].size >= nb /\ \A u \in X : d.chunk[u].size = a.chunk[u].size
  BY DEF Served
<1>2. PICK F : Sound(d, F, Y, Owned(d.brk, end, other))
  BY <1>1 DEF Good
<1> HIDE DEF Y
<1>3. Sound(e, F, Y, Owned(d.brk, end, other))
  BY <1>2, SoundKept
<1>4. e.chunk = d.chunk /\ e.top = d.top
  BY <1>2, KeptFields DEF Sound
<1>5. Differs(d, e, ChunkFields)
  BY DEF Differs, ChunkFields
<1>6. Good(e, Y, end, other)
  BY <1>1, <1>3, <1>4, <1>5, GoodAgain
<1> QED BY <1>1, <1>4, <1>6 DEF Served, Y

(* A stage of _int_malloc that returns a block.                             *)
LEMMA ServedKeeps ==
  ASSUME IInv, pc \in Stages, NEW v, Return(v), UNCHANGED system, Served(av, av', DOMAIN live, v, op.nb, mapEnd, foreign)
  PROVE  IInv'
BY ReturnIs DEF Served, system

(* A list that is not empty belongs to an arena that has started.           *)
LEMMA ListGood ==
  ASSUME IInv, pc \in Stages, NEW i \in 1 .. NBins, av.bins[i] # <<>>
  PROVE  Good(av, DOMAIN live, mapEnd, foreign)
BY StageIs DEF Healthy, Fresh

(* A free chunk passes the tests of unlink and of the unsorted list.        *)
LEMMA FreeTested ==
  ASSUME NEW a, NEW X, NEW end, NEW other, Good(a, X, end, other),
         NEW F, Sound(a, F, X, Owned(a.brk, end, other)), NEW v \in F
  PROVE  /\ UnlinkChecks(a, v) /\ v \in DOMAIN a.chunk /\ a.chunk[v].size \in Nat /\ NextOf(a, v) = End(a.chunk, v)
         /\ SizeOf(a, v) > Hdr /\ SizeOf(a, v) <= a.sysmem
         /\ SizeOf(a, NextOf(a, v)) >= Hdr /\ SizeOf(a, NextOf(a, v)) <= a.sysmem /\ ~ InUse(a, v)
<1> DEFINE G == Owned(a.brk, end, other)
           c == a.chunk
           q == End(c, v)
<1>1. Tiled(c, a.top, F, X, G) /\ Headers(c) /\ Within(c, G) /\ v \in DOMAIN c
  BY DEF Sound, Tiled, Parts
<1>2. c[v].size >= 2 /\ q \in DOMAIN c \ {a.top} /\ ~ c[q].pinuse /\ c[q].prev = c[v].size
  BY <1>1 DEF Tiled, FreeTags
<1>3. c[q].size > 0
  BY <1>1, <1>2 DEF Tiled, Follows
<1> HIDE DEF q
<1>4. v \in Nat /\ q \in Nat /\ c[v].size \in Nat /\ c[q].size \in Nat /\ q = v + c[v].size /\ End(c, q) = q + c[q].size
  BY <1>1, <1>2, Fields DEF q
<1>5. <<v, q>> \in G /\ <<q, End(c, q)>> \in G
  BY <1>1, <1>2, <1>3, <1>4 DEF Within, Span, End
<1>6. Numbers(a, end, other)
  BY DEF Good
<1>7. q - v <= a.sysmem /\ End(c, q) - q <= a.sysmem
  <2>1. End(c, q) \in Nat
    BY <1>4
  <2> QED BY <1>4, <1>5, <1>6, <2>1, OwnedFits
<1>8. c[v].size <= a.sysmem /\ c[q].size <= a.sysmem
  BY <1>4, <1>7
<1>9. NextOf(a, v) = q
  BY <1>4 DEF NextOf, SizeOf
<1>10. UnlinkChecks(a, v)
  BY <1>2, <1>9 DEF UnlinkChecks, SizeOf
<1>11. ~ InUse(a, v)
  BY <1>2, <1>9 DEF InUse, PrevInUse
<1>12. c[v].size > Hdr /\ c[q].size >= Hdr
  BY <1>2, <1>3, <1>4, Consts
<1> HIDE DEF c
<1>13. SizeOf(a, v) = c[v].size /\ SizeOf(a, q) = c[q].size
  BY DEF SizeOf, c
<1> QED BY <1>1, <1>4, <1>8, <1>9, <1>10, <1>11, <1>12, <1>13 DEF c, q

(* A chunk of exactly the size, from a small bin.                           *)
LEMMA SmallbinHitKeeps ==
  ASSUME IInv, SmallbinHit
  PROVE  IInv'
<1>1. PICK nb : nb = op.nb
  OBVIOUS
<1>2. PICK i : i = Index
  OBVIOUS
<1>3. PICK v : v = Last(av.bins[i])
  OBVIOUS
<1> DEFINE b == [av EXCEPT !.bins[i] = Front(@)]
<1>4. /\ pc \in Stages /\ InSmallbinRange(nb) /\ av.bins[i] # <<>> /\ av' = SetInUseBit(b, v + nb) /\ Return(v)
      /\ UNCHANGED system
  BY <1>1, <1>2, <1>3 DEF SmallbinHit, Stages, Small
<1>5. nb \in Sizes /\ i = BinIndex[nb] /\ i \in 2 .. NBins /\ i \in 1 .. NBins /\ i > 1 /\ nb \in Nat
  BY <1>1, <1>2, <1>4, StageIs, SizesAre DEF Asked, Index
<1>6. Good(av, DOMAIN live, mapEnd, foreign)
  BY <1>4, <1>5, ListGood
<1>7. PICK F : Sound(av, F, DOMAIN live, Owned(av.brk, mapEnd, foreign))
  BY <1>6 DEF Good
<1>8. b = [av EXCEPT !.bins[i] = Front(@)]
  OBVIOUS
<1> HIDE DEF b
<1>9. Loose(b, v, F, DOMAIN live, Owned(av.brk, mapEnd, foreign)) /\ Differs(av, b, {"bins"}) /\ InBin(av.chunk, v, i)
  BY <1>3, <1>4, <1>5, <1>7, <1>8, LastLoose
<1>10. av.chunk[v].size = nb
  <2>1. av.chunk[v].size \in Sizes /\ BinIndex[av.chunk[v].size] = BinIndex[nb]
    BY <1>5, <1>9 DEF InBin
  <2> QED BY <1>4, <1>5, <2>1, ChunksAssumption
<1>11. v + nb = End(av.chunk, v) /\ av.chunk[v].size >= nb
  BY <1>5, <1>10 DEF End
<1>12. Differs(av, b, ListFields)
  BY <1>9 DEF Differs, ListFields
<1>13. Served(av, av', DOMAIN live, v, nb, mapEnd, foreign)
  BY <1>4, <1>6, <1>9, <1>11, <1>12, UseAllServes
<1> QED BY <1>1, <1>4, <1>13, ServedKeeps

(* A step of the search that returns nothing.                               *)
LEMMA SearchKeeps ==
  ASSUME IInv, pc \in Stages, pc' \in Stages \ {"sysmalloc"}, UNCHANGED live, UNCHANGED system,
         IsOp(op'), op'.ret = op.ret, op'.nb = op.nb, op'.want = op.want, op'.kind = op.kind, op'.old = op.old,
         op'.align = op.align, Healthy(av', DOMAIN live, mapEnd, foreign), SizesKept(av, av', DOMAIN live)
  PROVE  IInv'
<1>1. Asked(op) /\ op.ret = 0
  BY StageIs
<1>2. Held' = {} /\ DOMAIN live' \cup Held' = DOMAIN live /\ UNCHANGED <<mapEnd, foreign, waiting>>
  BY <1>1 DEF Held, system
<1>3. MemoryOk'
  BY <1>2 DEF MemoryOk, Healthy
<1>4. Fits'
  BY DEF IInv, Fits, SizesKept
<1>5. OpOk'
  BY <1>1, <1>2 DEF IInv, OpOk, Asked, Stages
<1> QED BY <1>3, <1>4, <1>5 DEF IInv

(* One turn of the loop over the unsorted list.                             *)
LEMMA ProcessUnsortedKeeps ==
  ASSUME IInv, ProcessUnsorted
  PROVE  IInv'
<1> DEFINE X == DOMAIN live
           b == Unqueue
           G == Owned(av.brk, mapEnd, foreign)
<1>1. PICK nb : nb = op.nb
  OBVIOUS
<1>2. PICK v : v = Last(av.bins[Unsorted])
  OBVIOUS
<1>3. /\ pc \in Stages /\ av.bins[Unsorted] # <<>> /\ UNCHANGED system
      /\ UnsortedChecks(v) => SplitLastRemainder(v) \/ ExactFit(v) \/ BinChunk(v)
  BY <1>2 DEF ProcessUnsorted, Stages
<1>4. nb \in Nat /\ nb >= 2 /\ Unsorted = 1 /\ 1 \in 1 .. NBins /\ Asked(op)
  BY <1>1, <1>3, StageIs, SizesAre, Consts DEF Asked
<1>5. Good(av, X, mapEnd, foreign)
  BY <1>3, <1>4, ListGood
<1>6. PICK F : Sound(av, F, X, G)
  BY <1>5 DEF Good
<1>7. b = [av EXCEPT !.bins[1] = Front(@)] /\ av.bins[1] # <<>> /\ v = Last(av.bins[1])
  BY <1>2, <1>3, <1>4 DEF Unqueue
<1>8. b = Unqueue
  OBVIOUS
<1> HIDE DEF b, X
<1>9. Loose(b, v, F, X, G) /\ Differs(av, b, {"bins"})
  <2> HIDE DEF G
  <2> QED BY <1>4, <1>6, <1>7, LastLoose
<1>10. Differs(av, b, ListFields) /\ IsArena(av)
  BY <1>6, <1>9 DEF Differs, ListFields, Sound
<1>11. b.chunk = av.chunk /\ v \in F /\ IsArena(b)
  BY <1>9, <1>10, KeptFields DEF Loose, ListFields
<1>12. UnsortedChecks(v) /\ v \in DOMAIN av.chunk /\ av.chunk[v].size \in Nat
  BY <1>5, <1>6, <1>11, FreeTested DEF UnsortedChecks, UnlinkChecks
<1>13. CASE SplitLastRemainder(v)
  <2> DEFINE d == TakeVictim(b, v, nb)
             e == [d EXCEPT !.last = v + nb]
  <2>1. av' = e /\ Return(v) /\ SizeOf(av, v) > nb + MinSize
    BY <1>1, <1>8, <1>13 DEF SplitLastRemainder, UseLastRemainder
  <2>2. av.chunk[v].size >= nb
    BY <1>4, <1>12, <2>1, Consts DEF SizeOf
  <2>3. d = TakeVictim(b, v, nb) /\ e = [d EXCEPT !.last = v + nb]
    OBVIOUS
  <2> HIDE DEF d, e
  <2>4. Served(av, d, X, v, nb, mapEnd, foreign)
    BY <1>4, <1>5, <1>9, <1>10, <2>2, <2>3, VictimServes
  <2>5. IsArena(d)
    BY <2>4 DEF Served, Good, Sound
  <2>6. Differs(d, e, {"last"})
    BY <2>3, <2>5 DEF IsArena, ArenaFields, Differs
  <2>7. Served(av, e, X, v, nb, mapEnd, foreign)
    BY <2>4, <2>6, LastServes
  <2> QED BY <1>1, <1>3, <2>1, <2>7, ServedKeeps DEF X
<1>14. CASE ExactFit(v)
  <2>1. av' = SetInUseBit(b, v + nb) /\ Return(v) /\ av.chunk[v].size = nb
    BY <1>1, <1>8, <1>14 DEF ExactFit, SizeOf
  <2>2. v + nb = End(av.chunk, v) /\ av.chunk[v].size >= nb
    BY <1>4, <2>1 DEF End
  <2>3. Served(av, av', X, v, nb, mapEnd, foreign)
    BY <1>5, <1>9, <1>10, <2>1, <2>2, UseAllServes
  <2> QED BY <1>1, <1>3, <2>1, <2>3, ServedKeeps DEF X
<1>15. CASE BinChunk(v)
  <2>1. av' = PlaceInBin(b, v) /\ op' = [op EXCEPT !.iters = @ + 1] /\ pc' \in {"fit", "unsorted"} /\ UNCHANGED live
    BY <1>8, <1>15 DEF BinChunk
  <2> DEFINE d == av'
  <2>2. d = PlaceInBin(b, v)
    BY <2>1
  <2>3. Memory(G)
    BY <1>5, OwnedMemory DEF Good, Numbers
  <2> HIDE DEF d
  <2>4. Sound(d, F, X, G) /\ Differs(b, d, {"bins", "binmap"})
    <3> HIDE DEF G
    <3> QED BY <1>9, <2>2, <2>3, PlaceInBinIs
  <2>5. d.chunk = av.chunk /\ d.top = av.top
    <3>1. Differs(av, d, ListFields)
      BY <1>9, <2>4 DEF Differs, ListFields
    <3> QED BY <1>10, <3>1, KeptFields DEF ListFields
  <2>6. Differs(av, d, ChunkFields)
    BY <1>9, <2>4 DEF Differs, ChunkFields
  <2>7. Good(d, X, mapEnd, foreign)
    <3>1. (\A q \in DOMAIN av.chunk : q <= av.top) => \A q \in DOMAIN d.chunk : q <= d.top
      BY <2>5
    <3>2. \E H : Sound(d, H, X, Owned(av.brk, mapEnd, foreign))
      BY <2>4
    <3> QED BY <1>5, <2>6, <3>1, <3>2, GoodAgain
  <2>8. SizesKept(av, d, X) /\ Healthy(d, X, mapEnd, foreign)
    BY <2>5, <2>7 DEF SizesKept, Healthy
  <2>9. /\ IsOp(op') /\ op'.ret = op.ret /\ op'.nb = op.nb /\ op'.want = op.want /\ op'.kind = op.kind
        /\ op'.old = op.old /\ op'.align = op.align
    BY <1>4, <2>1 DEF Asked, IsOp, NoOp
  <2>10. pc' \in Stages \ {"sysmalloc"}
    BY <2>1 DEF Stages
  <2> QED BY <1>3, <2>1, <2>8, <2>9, <2>10, SearchKeeps DEF X, d
<1> QED BY <1>3, <1>12, <1>13, <1>14, <1>15

(* The chunk a large request takes from its bin is large enough.            *)
LEMMA LargeVictimIs ==
  ASSUME NEW a, NEW F, Lists(a.bins, F), NEW i \in 1 .. NBins, a.bins[i] # <<>>, NEW nb,
         \A p \in F : SizeOf(a, p) \in Nat, SizeOf(a, Head(a.bins[i])) >= nb
  PROVE  LargeVictim(a, i, nb) \in F /\ SizeOf(a, LargeVictim(a, i, nb)) >= nb
<1> DEFINE bin == a.bins[i]
           fit == { k \in 1 .. Len(bin) : SizeInBin(a, i, k) >= nb }
           S   == { SizeInBin(a, i, k) : k \in fit }
           best == Min(S)
           K   == { j \in fit : SizeInBin(a, i, j) = best }
           k   == Min(K)
<1>1. bin \in Seq(F) /\ Len(bin) \in Nat /\ Len(bin) > 0 /\ Head(bin) = bin[1] /\ \A m \in 1 .. Len(bin) : bin[m] \in F
  BY ListedOnce
<1>2. 1 \in fit
  BY <1>1 DEF SizeInBin
<1>3. \A m \in fit : SizeInBin(a, i, m) \in Nat /\ SizeInBin(a, i, m) >= nb /\ m \in 1 .. Len(bin)
  BY <1>1 DEF SizeInBin
<1>4. S \subseteq Nat /\ S # {}
  BY <1>2, <1>3
<1>5. best \in S
  <2> HIDE DEF S
  <2> QED BY <1>4, MinIs
<1>6. K \subseteq Nat /\ K # {}
  <2> HIDE DEF best
  <2> QED BY <1>3, <1>5
<1>7. k \in K
  <2> HIDE DEF K
  <2> QED BY <1>6, MinIs
<1>8. best >= nb /\ k \in 1 .. Len(bin) /\ SizeInBin(a, i, k) = best
  <2> HIDE DEF best, k
  <2> QED BY <1>3, <1>5, <1>7
<1>9. LargeVictim(a, i, nb) = IF k < Len(bin) /\ SizeInBin(a, i, k + 1) = best THEN bin[k + 1] ELSE bin[k]
  BY DEF LargeVictim
<1> HIDE DEF best, k, bin
<1> QED BY <1>1, <1>8, <1>9 DEF SizeInBin, bin

(* A chunk is unlinked from its bin and serves the request.                 *)
LEMMA TakeBestKeeps ==
  ASSUME IInv, pc \in Stages, Good(av, DOMAIN live, mapEnd, foreign), NEW F,
         Sound(av, F, DOMAIN live, Owned(av.brk, mapEnd, foreign)), NEW v \in F, av.chunk[v].size >= op.nb,
         NEW a, Differs(av, a, {"binmap", "last"}), TakeBest(v, a), UNCHANGED system
  PROVE  IInv'
<1> DEFINE X == DOMAIN live
           G == Owned(av.brk, mapEnd, foreign)
           b == Unlink(a, v)
<1>1. PICK nb : nb = op.nb
  OBVIOUS
<1>2. nb \in Nat /\ nb >= 2
  BY <1>1, StageIs
<1>3. UnlinkChecks(av, v)
  BY FreeTested
<1>4. av' = TakeVictim(b, v, nb) /\ Return(v)
  BY <1>1, <1>3 DEF TakeBest
<1>5. b = Unlink(a, v)
  OBVIOUS
<1> HIDE DEF b, X, G
<1>6. Sound(av, F, X, G)
  BY DEF X, G
<1>7. Sound(a, F, X, G)
  BY <1>6, SoundKept
<1>8. Loose(b, v, F, X, G) /\ Differs(a, b, {"bins"})
  BY <1>5, <1>7, UnlinkLoose
<1>9. Differs(av, b, ListFields)
  BY <1>8 DEF Differs, ListFields
<1>10. Served(av, av', X, v, nb, mapEnd, foreign)
  <2>1. Good(av, X, mapEnd, foreign) /\ Loose(b, v, F, X, Owned(av.brk, mapEnd, foreign)) /\ av.chunk[v].size >= nb
    BY <1>1, <1>8 DEF X, G
  <2> QED BY <1>2, <1>4, <1>9, <2>1, VictimServes
<1> QED BY <1>1, <1>4, <1>10, ServedKeeps DEF X

(* The best fit of the request's own large bin.                             *)
LEMMA LargeFitKeeps ==
  ASSUME IInv, LargeFit
  PROVE  IInv'
<1> DEFINE X == DOMAIN live
           G == Owned(av.brk, mapEnd, foreign)
<1>1. PICK nb : nb = op.nb
  OBVIOUS
<1>2. PICK i : i = Index
  OBVIOUS
<1>3. PICK v : v = LargeVictim(av, i, nb)
  OBVIOUS
<1>4. /\ pc \in Stages /\ UNCHANGED system /\ av.bins[i] # <<>> /\ SizeOf(av, Head(av.bins[i])) >= nb
      /\ TakeBest(v, av)
  BY <1>1, <1>2, <1>3 DEF LargeFit, FitsInBin, Stages
<1>5. i \in 1 .. NBins
  BY <1>2, <1>4, StageIs, SizesAre DEF Asked, Index
<1>6. Good(av, X, mapEnd, foreign)
  BY <1>4, <1>5, ListGood
<1>7. PICK F : Sound(av, F, X, G)
  BY <1>6 DEF Good
<1>8. Lists(av.bins, F) /\ \A p \in F : SizeOf(av, p) \in Nat
  BY <1>7, Fields DEF Sound, Tiled, Parts, SizeOf
<1>9. v \in F /\ SizeOf(av, v) >= nb
  BY <1>3, <1>4, <1>5, <1>8, LargeVictimIs
<1>10. av.chunk[v].size >= op.nb
  BY <1>1, <1>9 DEF SizeOf
<1>11. Differs(av, av, {"binmap", "last"})
  BY <1>7 DEF Differs, Sound, IsArena
<1> HIDE DEF X, G
<1> QED BY <1>4, <1>6, <1>7, <1>9, <1>10, <1>11, TakeBestKeeps DEF X, G

(* The best fit of the bins above.                                          *)
LEMMA ScanFitKeeps ==
  ASSUME IInv, ScanFit
  PROVE  IInv'
<1> DEFINE X == DOMAIN live
           G == Owned(av.brk, mapEnd, foreign)
<1>1. PICK nb : nb = op.nb
  OBVIOUS
<1>2. PICK i : i = Index
  OBVIOUS
<1>3. PICK j : j = ScanBin(av, i)
  OBVIOUS
<1>4. PICK v : v = Last(av.bins[j])
  OBVIOUS
<1> DEFINE rest == SizeOf(av, v) - op.nb
           last == IF Small /\ rest >= MinSize THEN v + op.nb ELSE av.last
           map  == ScanBinmap(av, Index)
           a    == [av EXCEPT !.binmap = map, !.last = last]
<1>5. /\ pc \in Stages /\ UNCHANGED system /\ j # 0 /\ TakeBest(v, a)
  BY <1>2, <1>3, <1>4 DEF ScanFit, Stages
<1>6. a = [av EXCEPT !.binmap = map, !.last = last]
  OBVIOUS
<1> HIDE DEF a, last, map
<1>7. i \in 1 .. NBins /\ nb \in Sizes /\ i = BinIndex[nb] /\ NBins \in Nat /\ nb \in Nat
  BY <1>1, <1>2, <1>5, StageIs, SizesAre DEF Asked, Index
<1>8. j \in i + 1 .. NBins /\ av.bins[j] # <<>>
  <2> DEFINE full == { n \in i + 1 .. NBins : n \in av.binmap /\ av.bins[n] # <<>> }
  <2>1. j = IF full = {} THEN 0 ELSE Min(full)
    BY <1>3 DEF ScanBin
  <2>2. full \subseteq Nat
    BY <1>7
  <2>3. j \in full
    <3> HIDE DEF full
    <3> QED BY <1>5, <2>1, <2>2, MinIs
  <2> QED BY <2>3
<1>9. j \in 1 .. NBins /\ j > 1 /\ j > i
  BY <1>7, <1>8
<1>10. Good(av, X, mapEnd, foreign)
  BY <1>5, <1>8, <1>9, ListGood
<1>11. PICK F : Sound(av, F, X, G)
  BY <1>10 DEF Good
<1> DEFINE e == [av EXCEPT !.bins[j] = Front(@)]
<1>12. e = [av EXCEPT !.bins[j] = Front(@)]
  OBVIOUS
<1> HIDE DEF e, X, G
<1>13. Loose(e, v, F, X, G) /\ InBin(av.chunk, v, j)
  BY <1>4, <1>8, <1>9, <1>11, <1>12, LastLoose
<1>14. v \in F
  BY <1>13 DEF Loose
<1>15. av.chunk[v].size >= op.nb
  <2>1. av.chunk[v].size \in Sizes /\ BinIndex[av.chunk[v].size] = j /\ av.chunk[v].size \in Nat
    BY <1>13, SizesAre DEF InBin
  <2>2. SUFFICES ASSUME av.chunk[v].size < nb PROVE FALSE
    BY <1>1, <1>7, <2>1
  <2>3. BinIndex[av.chunk[v].size] <= BinIndex[nb]
    BY <1>7, <2>1, <2>2, ChunksAssumption
  <2> QED BY <1>7, <1>9, <2>1, <2>3
<1>16. Differs(av, a, {"binmap", "last"})
  BY <1>6, <1>11 DEF Differs, Sound, IsArena, ArenaFields
<1> QED BY <1>5, <1>10, <1>11, <1>14, <1>15, <1>16, TakeBestKeeps DEF X, G

(* No bin above has a chunk.                                                *)
LEMMA ScanMissKeeps ==
  ASSUME IInv, ScanMiss
  PROVE  IInv'
<1> DEFINE X == DOMAIN live
           d == av'
<1>1. /\ pc \in Stages /\ pc' \in Stages \ {"sysmalloc"} /\ UNCHANGED <<live, op>> /\ UNCHANGED system
      /\ d = [av EXCEPT !.binmap = ScanBinmap(av, Index)]
  BY DEF ScanMiss, Step, Stages, system
<1>2. Asked(op) /\ Healthy(av, X, mapEnd, foreign)
  BY <1>1, StageIs
<1>3. IsArena(av)
  BY <1>2 DEF Healthy, Fresh, Good, Sound
<1>4. Differs(av, d, {"binmap"})
  BY <1>1, <1>3 DEF IsArena, ArenaFields, Differs
<1> HIDE DEF d, X
<1>5. d.chunk = av.chunk /\ d.bins = av.bins /\ d.top = av.top /\ IsArena(d)
  BY <1>3, <1>4, KeptFields
<1>6. Differs(av, d, ChunkFields)
  BY <1>4 DEF Differs, ChunkFields
<1>7. Healthy(d, X, mapEnd, foreign)
  <2>1. CASE Good(av, X, mapEnd, foreign)
    <3>1. PICK F : Sound(av, F, X, Owned(av.brk, mapEnd, foreign))
      BY <2>1 DEF Good
    <3>2. Sound(d, F, X, Owned(av.brk, mapEnd, foreign))
      BY <1>4, <3>1, SoundKept
    <3>3. (\A q \in DOMAIN av.chunk : q <= av.top) => \A q \in DOMAIN d.chunk : q <= d.top
      BY <1>5
    <3>4. Good(d, X, mapEnd, foreign)
      BY <1>6, <2>1, <3>2, <3>3, GoodAgain
    <3> QED BY <3>4 DEF Healthy
  <2>2. CASE Fresh(av, X, mapEnd, foreign)
    <3>1. Numbers(d, mapEnd, foreign)
      BY <1>3, <1>6, <2>2, NumbersKept DEF Fresh
    <3> QED BY <1>5, <2>2, <3>1 DEF Fresh, Healthy
  <2> QED BY <1>2, <2>1, <2>2 DEF Healthy
<1>8. SizesKept(av, d, X)
  BY <1>5 DEF SizesKept
<1>9. IsOp(op') /\ op' = op
  BY <1>1, <1>2 DEF Asked
<1> QED BY <1>1, <1>7, <1>8, <1>9, SearchKeeps DEF d, X

(* Rounding to an alignment.                                                *)
LEMMA AlignIs ==
  ASSUME NEW x \in Nat, NEW al \in Nat \ {0}
  PROVE  AlignUp(x, al) \in Int /\ AlignUp(x, al) >= x /\ AlignUp(x, al) <= x + al - 1
<1> DEFINE y == x + al - 1
           k == y \div al
           r == y % al
<1>1. y \in Int /\ k \in Int /\ r \in 0 .. al - 1 /\ y = al * k + r
  BY DivMod
<1>2. AlignUp(x, al) = k * al
  BY DEF AlignUp, AlignDown
<1> HIDE DEF k, r
<1>3. k * al \in Int /\ k * al = al * k
  BY <1>1
<1>4. k * al = y - r
  BY <1>1, <1>3
<1> QED BY <1>1, <1>2, <1>3, <1>4

(* The aligned chunk lies in front of the padding that was asked for.       *)
LEMMA AlignedChunkIs ==
  ASSUME NEW p \in Nat, NEW al \in Nat \ {0}, NEW q, q = AlignedChunk(p, al)
  PROVE  q \in Nat /\ (q = p \/ (q >= p + 2 /\ q <= p + al + 1))
<1>1. CASE Aligned(p, al)
  BY <1>1 DEF AlignedChunk
<1>2. CASE ~ Aligned(p, al)
  <2> DEFINE x == p + Hdr + MinSize
             y == AlignUp(x, al)
  <2>1. x = p + 3 /\ x \in Nat /\ q = y - 1
    BY <1>2, Consts DEF AlignedChunk
  <2>2. y \in Int /\ y >= x /\ y <= x + al - 1
    <3> HIDE DEF x
    <3> QED BY <2>1, AlignIs
  <2> HIDE DEF x, y
  <2> QED BY <2>1, <2>2
<1> QED BY <1>1, <1>2

(* The order in which the two headers are written does not matter.          *)
LEMMA LeadHeads ==
  ASSUME NEW c, NEW p, NEW q, NEW e, p # q, p # e, NEW m, NEW n, NEW b
  PROVE  NewHead(SetBit(UsedHead(c, q, m), e), p, n, b) = SetBit(UsedHead(NewHead(c, p, n, b), q, m), e)
<1>1. NewHead(UsedHead(c, q, m), p, n, b) = UsedHead(NewHead(c, p, n, b), q, m)
  BY DEF NewHead, UsedHead
<1> DEFINE h == UsedHead(c, q, m)
<1>2. NewHead(SetBit(h, e), p, n, b) = SetBit(NewHead(h, p, n, b), e)
  <2> HIDE DEF h
  <2> QED BY NewHeadSet
<1> QED BY <1>1, <1>2

(* The front of a padded block becomes a chunk of its own.                  *)
Lead(a, p, q, size, b) == SetHead(SetInUseBit(SetUsed(a, q, size), q + size), p, q - p, b)
LeadAs(a, p, n, q, size, d) ==
  q = p + n /\ a.chunk[p].size = n + size /\ d = Lead(a, p, q, size, a.chunk[p].pinuse)
LeadCut(a, p, n, q, size, d, X) ==
  q \notin X /\ d.chunk[p].size = n /\ d.chunk[q].size = size /\ SizesKept(a, d, X \ {p})

(* Both pieces are in use, and sized as cut.                                *)
LEMMA LeadIs ==
  ASSUME NEW a, NEW X, NEW end, NEW other, Good(a, X, end, other), NEW p \in X, NEW n \in Nat, n >= 2,
         NEW size \in Nat, size >= 2, NEW q, NEW d, LeadAs(a, p, n, q, size, d)
  PROVE  Good(d, X \cup {q}, end, other) /\ LeadCut(a, p, n, q, size, d, X)
<1> DEFINE G == Owned(a.brk, end, other)
           c == a.chunk
           b == c[p].pinuse
           e == q + size
           v == Split(c, p, n)
           s1 == SetUsed(a, q, size)
           s2 == SetInUseBit(s1, e)
<1>0. q = p + n /\ c[p].size = n + size /\ d = Lead(a, p, q, size, c[p].pinuse)
  BY DEF LeadAs
<1>1. PICK F : Sound(a, F, X, G)
  BY DEF Good
<1>2. /\ IsArena(a) /\ Tiled(c, a.top, F, X, G) /\ Lists(a.bins, F) /\ Sorted(c, a.bins) /\ X \subseteq DOMAIN c \ {a.top}
      /\ F \subseteq DOMAIN c /\ F \cap X = {} /\ Headers(c) /\ a.top \in DOMAIN c
  BY <1>1 DEF Sound, Tiled, Parts
<1>3. Closed(G)
  BY OwnedMemory DEF Good, Numbers
<1>4. p \in Nat /\ q \in Nat /\ e \in Nat /\ e = End(c, p) /\ e \in DOMAIN c /\ c[e].pinuse /\ p # q /\ p # e /\ q # e
      /\ p < q /\ q < e
  <2>1. p \in Nat /\ c[p].size = n + size
    BY <1>0, <1>2, Fields
  <2> QED BY <1>0, <1>2, <2>1 DEF Tiled, UsedTags, End
<1>5. c[e].size > 0
  <2>1. e = a.top => c[e].size >= 2
    BY <1>2 DEF Tiled, Parts
  <2>2. e # a.top => c[e].size > 0
    BY <1>2, <1>4 DEF Tiled, Follows
  <2>3. c[e].size \in Nat
    BY <1>2, <1>4, Fields
  <2> QED BY <2>1, <2>2, <2>3
<1>6. /\ Tiled(v, a.top, F, X \cup {q}, G) /\ q \notin DOMAIN c
      /\ \A u : u \in DOMAIN v <=> u \in DOMAIN c \/ u = q
      /\ \A u \in DOMAIN c \ {p} : v[u].size = c[u].size
      /\ v[p].size = n /\ v[q].size = size
  <2>1. Tiled(c, a.top, F, X, G) /\ Closed(G) /\ c[p].size - n >= 2
    BY <1>0, <1>2, <1>3
  <2> DEFINE top == a.top
  <2>0. Tiled(c, top, F, X, G) /\ Closed(G) /\ c[p].size - n >= 2
    BY <2>1
  <2> HIDE DEF G, c, v, top
  <2>2. /\ Tiled(Split(c, p, n), top, F, X \cup {p + n}, G) /\ p + n \notin DOMAIN c
        /\ \A u : u \in DOMAIN Split(c, p, n) <=> u \in DOMAIN c \/ u = p + n
        /\ \A u \in DOMAIN c \ {p} : Split(c, p, n)[u].size = c[u].size
        /\ Split(c, p, n)[p].size = n /\ Split(c, p, n)[p + n].size = c[p].size - n
        /\ (Split(c, p, n)[p].pinuse <=> c[p].pinuse) /\ Split(c, p, n)[p + n].pinuse
    BY ONLY <2>0, p \in X, n \in Nat, n >= 2, SplitIs
  <2>3. v = Split(c, p, n)
    BY DEF v
  <2>4. c[p].size - n = size
    BY <1>0
  <2>5. Tiled(v, top, F, X \cup {q}, G)
    BY ONLY <1>0, <2>2, <2>3
  <2>6. /\ q \notin DOMAIN c /\ \A u : u \in DOMAIN v <=> u \in DOMAIN c \/ u = q
        /\ \A u \in DOMAIN c \ {p} : v[u].size = c[u].size
        /\ v[p].size = n /\ v[q].size = size
    BY <1>0, <2>2, <2>3, <2>4
  <2> QED BY <2>5, <2>6 DEF top
<1>7. v = UsedHead(NewHead(c, p, n, b), q, size)
  <2>1. c[p].size - n = size
    BY <1>0
  <2> HIDE DEF c
  <2> QED BY <1>0, <2>1 DEF Split
<1>8. e \in DOMAIN v /\ v[e].pinuse /\ v[e].size > 0
  <2>1. v[e] = c[e]
    <3> HIDE DEF c, e, v, b
    <3> QED BY <1>4, <1>7 DEF UsedHead, NewHead
  <2> QED BY <1>4, <1>5, <1>6, <2>1
<1> DEFINE w == SetBit(v, e)
<1>9. Tiled(w, a.top, F, X \cup {q}, G) /\ DOMAIN w = DOMAIN v /\ \A u \in DOMAIN v : w[u].size = v[u].size
  <2> DEFINE Y == X \cup {q}
  <2> HIDE DEF v, e, G, Y
  <2>1. Tiled(v, a.top, F, Y, G)
    BY <1>6 DEF Y
  <2>2. Tiled(w, a.top, F, Y, G) /\ DOMAIN w = DOMAIN v /\ \A u \in DOMAIN v : w[u].size = v[u].size
    BY <1>8, <2>1, MarkIs
  <2> QED BY <2>2 DEF Y
<1>10. s1 = SetUsed(a, q, size) /\ s2 = SetInUseBit(s1, e) /\ d = SetHead(s2, p, n, b)
  BY <1>0, <1>4 DEF Lead
<1>a. w = SetBit(v, e)
  OBVIOUS
<1> HIDE DEF s1, s2, c, e, b, v, w
<1>11. Differs(a, s1, {"chunk"}) /\ s1.chunk = UsedHead(c, q, size) /\ IsArena(s1)
  BY <1>2, <1>10, SetUsedIs, KeptFields DEF c
<1>12. Differs(s1, s2, {"chunk"}) /\ s2.chunk = SetBit(s1.chunk, e) /\ IsArena(s2)
  BY <1>10, <1>11, SetInUseIs, KeptFields
<1>13. Differs(s2, d, {"chunk"}) /\ d.chunk = NewHead(s2.chunk, p, n, b) /\ IsArena(d)
  BY <1>10, <1>12, SetHeadIs, KeptFields
<1>14. d.chunk = w
  <2>1. d.chunk = NewHead(SetBit(UsedHead(c, q, size), e), p, n, b)
    BY <1>11, <1>12, <1>13
  <2> QED BY <1>4, <1>7, <1>a, <2>1, LeadHeads
<1>15. Differs(a, d, {"chunk"}) /\ d.top = a.top /\ d.bins = a.bins
  <2>1. Differs(a, d, {"chunk"})
    BY <1>11, <1>12, <1>13 DEF Differs
  <2> QED BY <1>2, <2>1, KeptFields
<1>16. Sorted(w, a.bins)
  <2>1. \A u \in F : w[u].size = c[u].size
    <3>1. p \notin F
      BY <1>2
    <3> QED BY <1>2, <1>6, <1>9, <3>1
  <2> QED BY <1>2, <2>1, SortedSame
<1>17. Sound(d, F, X \cup {q}, G)
  BY <1>2, <1>9, <1>13, <1>14, <1>15, <1>16 DEF Sound
<1>18. Differs(a, d, ChunkFields)
  BY <1>15 DEF Differs, ChunkFields
<1>19. (\A u \in DOMAIN a.chunk : u <= a.top) => \A u \in DOMAIN d.chunk : u <= d.top
  <2> SUFFICES ASSUME \A u \in DOMAIN c : u <= a.top PROVE \A u \in DOMAIN w : u <= a.top
    BY <1>14, <1>15 DEF c
  <2>1. e <= a.top /\ a.top \in Nat
    BY <1>2, <1>4, Fields
  <2>2. q <= a.top
    BY <1>4, <2>1
  <2> QED BY <1>6, <1>9, <2>2
<1> DEFINE Y == X \cup {q}
<1>20. Good(d, Y, end, other)
  <2>1. \E H : Sound(d, H, Y, Owned(a.brk, end, other))
    BY <1>17 DEF G
  <2> HIDE DEF Y
  <2> QED BY <1>18, <1>19, <2>1, GoodAgain
<1>21. q \notin X /\ d.chunk[p].size = n /\ d.chunk[q].size = size /\ \A u \in X \ {p} : d.chunk[u].size = c[u].size
  BY <1>2, <1>6, <1>9, <1>14
<1> QED BY <1>20, <1>21 DEF SizesKept, c, LeadCut

(* The spare end of a block is freed.                                       *)
LEMMA FreeTailIs ==
  ASSUME NEW a, NEW X, NEW end, NEW other, Good(a, X, end, other), NEW q \in X, NEW size, size = a.chunk[q].size,
         op.want \in Nat, op.want >= 2, size >= op.want, NEW d \in FreeTail(a, q, size)
  PROVE  Good(d, X, end, other) /\ Tailed(d, X, q, op.want, a.chunk)
<1> DEFINE G    == Owned(a.brk, end, other)
           c    == a.chunk
           want == op.want
           r    == q + want
           n    == size - want
           b    == c[q].pinuse
           cut  == SetHead(a, q, want, b)
           z    == CreateChunk(cut, r, n)
           m    == z.av
           c0   == UsedHead(cut.chunk, r, n)
<1>1. PICK F : Sound(a, F, X, G)
  BY DEF Good
<1>2. /\ IsArena(a) /\ Tiled(c, a.top, F, X, G) /\ Lists(a.bins, F) /\ Sorted(c, a.bins) /\ X \subseteq DOMAIN c \ {a.top}
      /\ F \subseteq DOMAIN c /\ F \cap X = {} /\ Headers(c) /\ a.top \in DOMAIN c /\ Numbers(a, end, other)
  BY <1>1 DEF Sound, Tiled, Parts, Good
<1>3. q \in Nat /\ size \in Nat /\ size = c[q].size /\ End(c, q) \in DOMAIN c /\ want \in Nat
  BY <1>2, Fields DEF Tiled, UsedTags
<1>4. CASE n < MinSize
  <2>1. d = a
    BY <1>4 DEF FreeTail
  <2> QED BY <1>3, <2>1 DEF Tailed
<1>5. CASE ~ (n < MinSize)
  <2>1. n \in Nat /\ n >= 2 /\ r \in Nat /\ r < End(c, q) /\ r > q
    BY <1>3, <1>5, Consts DEF End
  <2>2. d \in MaybeTrim(m, z.size)
    BY <1>5 DEF FreeTail, PrevInUse
  <2>3. cut = SetHead(a, q, want, b) /\ m = CreateChunk(cut, r, n).av /\ c0 = UsedHead(cut.chunk, r, n)
    OBVIOUS
  <2>a. Memory(G)
    BY <1>2, OwnedMemory DEF Numbers
  <2> HIDE DEF cut, m, z, c0, G
  <2>4. Differs(a, cut, {"chunk"}) /\ cut.chunk = NewHead(c, q, want, b) /\ IsArena(cut)
    BY <1>2, <2>3, SetHeadIs, KeptFields
  <2>5. cut.top = a.top /\ cut.bins = a.bins
    BY <1>2, <2>4, KeptFields
  <2>6. c0 = Split(c, q, want)
    BY <1>3, <2>3, <2>4 DEF Split
  <2>7. /\ Tiled(c0, a.top, F, X \cup {r}, G) /\ r \notin DOMAIN c
        /\ \A u : u \in DOMAIN c0 <=> u \in DOMAIN c \/ u = r
        /\ \A u \in DOMAIN c \ {q} : c0[u].size = c[u].size
        /\ c0[q].size = want
    <3>1. Tiled(c, a.top, F, X, G) /\ Closed(G) /\ c[q].size - want >= 2
      BY <1>2, <1>3, <2>1, <2>a DEF Memory
    <3> HIDE DEF c, want
    <3>2. /\ Tiled(Split(c, q, want), a.top, F, X \cup {q + want}, G) /\ q + want \notin DOMAIN c
          /\ \A u : u \in DOMAIN Split(c, q, want) <=> u \in DOMAIN c \/ u = q + want
          /\ \A u \in DOMAIN c \ {q} : Split(c, q, want)[u].size = c[u].size
          /\ Split(c, q, want)[q].size = want /\ Split(c, q, want)[q + want].size = c[q].size - want
          /\ (Split(c, q, want)[q].pinuse <=> c[q].pinuse) /\ Split(c, q, want)[q + want].pinuse
      <4>1. want >= 2
        BY DEF want
      <4>2. /\ Tiled(c, a.top, F, X, G) /\ Closed(G) /\ c[q].size - want >= 2
            /\ q \in X /\ want \in Nat /\ want >= 2
        BY <1>3, <3>1, <4>1
      <4>3. PICK w : w = want
        OBVIOUS
      <4>4. w \in Nat /\ w >= 2 /\ c[q].size - w >= 2
        BY <4>2, <4>3
      <4>5. Tiled(Split(c, q, w), a.top, F, X \cup {q + w}, G) /\ q + w \notin DOMAIN c
        BY ONLY <4>2, <4>4, SplitIs, ZenonT(60)
      <4>6. /\ \A u : u \in DOMAIN Split(c, q, w) <=> u \in DOMAIN c \/ u = q + w
            /\ \A u \in DOMAIN c \ {q} : Split(c, q, w)[u].size = c[u].size
        BY ONLY <4>2, <4>4, SplitIs, ZenonT(60)
      <4>7. Split(c, q, w)[q].size = w
        BY ONLY <4>2, <4>4, SplitIs, ZenonT(60)
      <4>8. Split(c, q, w)[q + w].size = c[q].size - w
        BY ONLY <4>2, <4>4, SplitIs, ZenonT(60)
      <4>9. (Split(c, q, w)[q].pinuse <=> c[q].pinuse) /\ Split(c, q, w)[q + w].pinuse
        BY ONLY <4>2, <4>4, SplitIs, ZenonT(60)
      <4> QED BY <4>3, <4>5, <4>6, <4>7, <4>8, <4>9
    <3> QED BY <2>6, <3>2
  <2>8. Headers(cut.chunk)
    <3>1. q \in DOMAIN c /\ b \in BOOLEAN
      BY <1>2, Fields
    <3> DEFINE h == cut.chunk
    <3>2. h = NewHead(c, q, want, b) /\ c0 = UsedHead(h, r, n)
      BY <2>3, <2>4
    <3>3. Headers(c0) /\ DOMAIN c \subseteq Nat \ {0} /\ \A u \in DOMAIN c : u # r /\ u \in DOMAIN c0
      BY <1>2, <2>7 DEF Tiled, Headers
    <3> HIDE DEF c, b, want, h, r, n
    <3>4. h = [u \in DOMAIN c |-> h[u]] /\ DOMAIN h = DOMAIN c
      BY <3>1, <3>2 DEF NewHead
    <3>5. \A u \in DOMAIN c : h[u] = c0[u]
      BY <3>2, <3>3, <3>4 DEF UsedHead
    <3>6. \A u \in DOMAIN c : c0[u] \in Header
      BY <3>3 DEF Headers
    <3>7. h \in [DOMAIN c -> Header]
      BY <3>4, <3>5, <3>6
    <3> QED BY <3>3, <3>4, <3>7 DEF Headers, h
  <2>9. Sorted(c0, a.bins)
    <3>1. \A u \in F : c0[u].size = c[u].size
      <4>1. q \notin F
        BY <1>2
      <4> QED BY <1>2, <2>7, <4>1
    <3> QED BY <1>2, <3>1, SortedSame
  <2> DEFINE Y == X \cup {r}
  <2>10. (\E H : Sound(m, H, Y \ {r}, G)) /\ Leaves(cut, c0, m, Y \ {r})
    <3>1. Tiled(c0, cut.top, F, Y, G) /\ r \in Y /\ Lists(cut.bins, F) /\ Sorted(c0, cut.bins)
      BY <1>2, <2>5, <2>7, <2>9
    <3> HIDE DEF Y, r, n
    <3> QED BY <2>1, <2>3, <2>4, <2>8, <2>a, <3>1, CreateChunkIs
  <2>11. Y \ {r} = X
    BY <1>2, <2>7
  <2> HIDE DEF Y
  <2>12. /\ \E H : Sound(m, H, X, G)
         /\ Differs(cut, m, FreeFields) /\ (\A u \in X : m.chunk[u].size = c0[u].size)
         /\ (\A u \in DOMAIN c0 : u <= cut.top) => \A u \in DOMAIN m.chunk : u <= m.top
    BY <2>10, <2>11 DEF Leaves
  <2>13. Differs(a, m, ChunkFields)
    BY <2>4, <2>12 DEF Differs, ChunkFields, FreeFields
  <2>14. (\A u \in DOMAIN a.chunk : u <= a.top) => \A u \in DOMAIN m.chunk : u <= m.top
    <3> SUFFICES ASSUME \A u \in DOMAIN c : u <= a.top PROVE \A u \in DOMAIN c0 : u <= a.top
      BY <2>5, <2>12
    <3>1. End(c, q) <= a.top /\ a.top \in Nat /\ End(c, q) \in Nat
      BY <1>2, <1>3, Fields
    <3>2. r <= a.top
      BY <2>1, <3>1
    <3> QED BY <2>7, <3>2
  <2>15. Good(m, X, end, other)
    BY <2>12, <2>13, <2>14, GoodAgain DEF G
  <2>16. Good(d, X, end, other) /\ \A u \in X : d.chunk[u].size = m.chunk[u].size
    BY <2>2, <2>15, MaybeTrimIs
  <2>17. d.chunk[q].size >= want /\ \A u \in X \ {q} : d.chunk[u].size = c[u].size
    BY <1>2, <1>3, <2>7, <2>12, <2>16
  <2> QED BY <2>16, <2>17 DEF Tailed
<1> QED BY <1>4, <1>5

(* memalign cuts an aligned block out of the padded one.                    *)
LEMMA MemalignCutKeeps ==
  ASSUME IInv, MemalignCut
  PROVE  IInv'
<1> DEFINE X == DOMAIN live
<1>1. PICK p : p = op.ret
  OBVIOUS
<1>2. PICK al : al = op.align
  OBVIOUS
<1>3. PICK q : q = AlignedChunk(p, al)
  OBVIOUS
<1>4. PICK want : want = op.want
  OBVIOUS
<1>5. PICK size : size = SizeOf(av, p) - (q - p)
  OBVIOUS
<1>6. PICK a : a \in FreeLead(p, q, size) /\ av' \in FreeTail(a, q, size)
  BY <1>1, <1>2, <1>3, <1>5 DEF MemalignCut
<1>7. pc = "memalign" /\ Finish(Give(live, q, want)) /\ UNCHANGED system
  BY <1>1, <1>2, <1>3, <1>4 DEF MemalignCut
<1>8. /\ Asked(op) /\ p # 0 /\ p \notin X /\ av.chunk[p].size >= op.nb /\ al \in Nat \ {0}
      /\ op.nb = want + al + MinSize + Hdr /\ want \in Nat /\ want >= 2
  BY <1>1, <1>2, <1>4, <1>7 DEF IInv, OpOk, Asked
<1>9. Held = {p} /\ Good(av, X \cup {p}, mapEnd, foreign)
  <2>1. Held = {p}
    BY <1>1, <1>8 DEF Held
  <2> QED BY <2>1, UsedGood
<1>10. p \in Nat /\ av.chunk[p].size \in Nat
  BY <1>9, GoodUsed
<1>11. av.chunk[p].size >= want + al + 3
  BY <1>8, Consts
<1>12. q \in Nat /\ (q = p \/ (q >= p + 2 /\ q <= p + al + 1))
  BY <1>3, <1>8, <1>10, AlignedChunkIs
<1>13. size = av.chunk[p].size - (q - p)
  BY <1>5 DEF SizeOf
<1>14. size \in Nat /\ size >= want + 2 /\ size >= 2 /\ size >= want
  BY <1>8, <1>10, <1>11, <1>12, <1>13
<1>15. Good(a, X \cup {q}, mapEnd, foreign) /\ a.chunk[q].size = size /\ \A u \in X : a.chunk[u].size = av.chunk[u].size
  <2>1. CASE q = p
    <3>1. a = av
      BY <1>6, <2>1 DEF FreeLead
    <3>2. size = av.chunk[p].size
      BY <1>10, <1>13, <2>1
    <3> QED BY <1>9, <2>1, <3>1, <3>2
  <2>2. CASE q # p
    <3> DEFINE b == av.chunk[p].pinuse
               s == Lead(av, p, q, size, b)
               n == q - p
               Y == X \cup {p}
    <3>1. a \in FreeChunk(s, p, n)
      BY <1>6, <2>2 DEF FreeLead, SplitLead, PrevInUse, Lead, SetUsed
    <3>2. s = Lead(av, p, q, size, av.chunk[p].pinuse)
      OBVIOUS
    <3>3. n \in Nat /\ n >= 2 /\ q = p + n /\ av.chunk[p].size = n + size
      BY <1>10, <1>12, <1>13, <2>2
    <3> HIDE DEF s, n
    <3>4. Good(av, Y, mapEnd, foreign) /\ p \in Y
      BY <1>9
    <3> HIDE DEF Y
    <3>b. LeadAs(av, p, n, q, size, s)
      BY <3>2, <3>3 DEF LeadAs
    <3>c. Good(s, Y \cup {q}, mapEnd, foreign) /\ LeadCut(av, p, n, q, size, s, Y)
      BY ONLY <1>14, <3>3, <3>4, <3>b, LeadIs
    <3>5. /\ Good(s, Y \cup {q}, mapEnd, foreign) /\ q \notin Y /\ s.chunk[p].size = n /\ s.chunk[q].size = size
          /\ SizesKept(av, s, Y \ {p})
      BY <3>c DEF LeadCut
    <3> DEFINE Z == Y \cup {q}
    <3>6. Good(s, Z, mapEnd, foreign) /\ p \in Z /\ n = s.chunk[p].size
      BY <3>4, <3>5
    <3> HIDE DEF Z
    <3>7. Good(a, Z \ {p}, mapEnd, foreign) /\ \A u \in Z \ {p} : a.chunk[u].size = s.chunk[u].size
      BY ONLY <3>1, <3>6, FreeChunkIs
    <3>8. Z \ {p} = X \cup {q}
      BY <1>8, <2>2 DEF Z, Y
    <3>9. \A u \in X : a.chunk[u].size = av.chunk[u].size
      BY <1>8, <2>2, <3>5, <3>7, <3>8 DEF SizesKept, Y
    <3> QED BY <3>5, <3>7, <3>8, <3>9
  <2> QED BY <2>1, <2>2
<1> DEFINE Y == X \cup {q}
<1>16. Good(av', Y, mapEnd, foreign) /\ Tailed(av', Y, q, want, a.chunk)
  <2>1. Good(a, Y, mapEnd, foreign) /\ q \in Y /\ size = a.chunk[q].size
    BY <1>15
  <2> HIDE DEF Y
  <2>2. op.want \in Nat /\ op.want >= 2 /\ size >= op.want
    BY <1>4, <1>8, <1>14
  <2>3. Good(av', Y, mapEnd, foreign) /\ Tailed(av', Y, q, op.want, a.chunk)
    BY ONLY <1>6, <2>1, <2>2, FreeTailIs
  <2> QED BY <1>4, <2>3
<1> DEFINE l == Give(live, q, want)
<1>17. DOMAIN l = Y /\ l[q] = want /\ \A u \in X \ {q} : l[u] = live[u]
  BY DEF Give
<1>18. \A u \in Y : l[u] \in Nat /\ l[u] > 0 /\ l[u] <= av'.chunk[u].size
  <2> SUFFICES ASSUME NEW u \in Y PROVE l[u] \in Nat /\ l[u] > 0 /\ l[u] <= av'.chunk[u].size
    OBVIOUS
  <2>1. CASE u = q
    <3>1. av'.chunk[q].size >= want /\ av'.chunk[q].size \in Nat
      <4>1. q \in Y
        OBVIOUS
      <4> HIDE DEF Y
      <4> QED BY <1>16, <4>1, GoodUsed DEF Tailed
    <3> QED BY <1>8, <1>17, <2>1, <3>1
  <2>2. CASE u # q
    <3>1. u \in X /\ av'.chunk[u].size = av.chunk[u].size
      BY <1>15, <1>16, <2>2 DEF Tailed
    <3> QED BY <1>17, <2>2, <3>1 DEF IInv, Fits
  <2> QED BY <2>1, <2>2
<1> HIDE DEF l
<1>19. Finish(l) /\ Good(av', DOMAIN l, mapEnd, foreign)
  BY <1>7, <1>16, <1>17 DEF l
<1> QED BY <1>7, <1>17, <1>18, <1>19, FinishIs

(* The process starts.                                                      *)
LEMMA InitKeeps ==
  ASSUME MainArena = {TRUE}, Init
  PROVE  IInv
<1>1. /\ av = Blank(TRUE) /\ mapEnd = MapBase /\ foreign = {} /\ live = [p \in {} |-> 0]
      /\ pc = "idle" /\ op = NoOp /\ waiting = {}
  BY DEF Init
<1>2. /\ IsArena(av) /\ {"main", "maxmem"} \subseteq DOMAIN av /\ av.main = TRUE /\ av.bad = FALSE /\ av.brk = FirstBrk
      /\ av.sysmem = 0 /\ av.contig = TRUE /\ av.top = InitialTop /\ av.bins = [i \in 1 .. NBins |-> <<>>]
      /\ av.chunk = [p \in {InitialTop} |-> [size |-> 0, pinuse |-> FALSE, prev |-> 0]]
  BY <1>1 DEF Blank, IsArena, ArenaFields
<1>3. Region(av.brk, mapEnd, foreign) /\ Obtains(av.brk, foreign) = 0
  <2>1. Cardinality({}) = 0
    BY FS_EmptySet
  <2>2. Obtains(FirstBrk, {}) = 0
    BY <2>1, Consts DEF Obtains
  <2>3. Region(FirstBrk, MapBase, {})
    BY Consts DEF Region
  <2> QED BY <1>1, <1>2, <2>2, <2>3
<1>4. Numbers(av, mapEnd, foreign)
  <2>1. av.sysmem \in Nat /\ av.sysmem >= Obtains(av.brk, foreign) + (mapEnd - MapBase)
    <3>1. MapBase \in Int
      BY Consts
    <3>2. mapEnd = MapBase
      BY <1>1
    <3>3. av.sysmem = 0
      BY <1>2
    <3>4. Obtains(av.brk, foreign) = 0
      BY <1>3
    <3> QED BY ONLY <3>1, <3>2, <3>3, <3>4
  <2>2. av.contig \in BOOLEAN
    BY <1>2
  <2> QED BY <1>1, <1>2, <1>3, <2>1, <2>2 DEF Numbers
<1>5. DOMAIN av.chunk = {InitialTop} /\ av.chunk[InitialTop].size = 0
  BY <1>2
<1>6. Held = {} /\ DOMAIN live = {}
  BY <1>1, NoOpIs DEF Held
<1>7. MemoryOk
  BY <1>2, <1>4, <1>5, <1>6 DEF MemoryOk, Healthy, Fresh
<1>8. Fits
  BY <1>6 DEF Fits
<1>9. OpOk
  BY <1>1, NoOpIs DEF OpOk
<1> QED BY <1>7, <1>8, <1>9 DEF IInv

(* The arena is main_arena and no test has failed.                          *)
LEMMA MainIs ==
  ASSUME IInv
  PROVE  av.main = TRUE /\ av.bad = FALSE
BY DEF IInv, MemoryOk, Healthy, Good, Fresh, Numbers

(* Every stage of _int_malloc.                                              *)
LEMMA IntMallocKeeps ==
  ASSUME IInv, IntMalloc
  PROVE  IInv'
BY SmallbinHitKeeps, ProcessUnsortedKeeps, LargeFitKeeps, ScanFitKeeps, ScanMissKeeps, UseTopKeeps, MovesOnKeeps
   DEF IntMalloc

(* Every stage of sysmalloc; heaps are for other arenas.                    *)
LEMMA SysmallocKeeps ==
  ASSUME IInv, Sysmalloc
  PROVE  IInv'
<1>1. ~ GrowsHeap /\ ~ AddsHeap
  BY MainIs DEF GrowsHeap, AddsHeap
<1> QED BY <1>1, EndsKeeps, MorecoreKeeps, MmapFallbackKeeps, MovesOnKeeps, SysAllocateKeeps DEF Sysmalloc

(* Every step of realloc.                                                   *)
LEMMA ReallocKeeps ==
  ASSUME IInv, Realloc
  PROVE  IInv'
<1>1. CASE \E p \in DOMAIN live, nb \in Requests : ReallocInPlace(p, nb) \/ ReallocMoves(p, nb)
  BY <1>1, ReallocInPlaceKeeps, ReallocMovesKeeps
<1>2. CASE ReallocElsewhere \/ ReallocJoin \/ ReallocCopy
  BY <1>2, EndsKeeps, ReallocJoinKeeps, ReallocCopyKeeps
<1> QED BY <1>1, <1>2 DEF Realloc

(* Every step of the arena.                                                 *)
LEMMA NextKeeps ==
  ASSUME IInv, Next
  PROVE  IInv'
<1>1. CASE \E nb \in Requests : Malloc(nb)
  BY <1>1, MallocKeeps
<1>2. CASE \E nb \in Clears : Calloc(nb)
  BY <1>2, CallocKeeps
<1>3. CASE CallocWaits \/ CallocRetries
  BY <1>3, CallocWaitsKeeps, CallocRetriesKeeps
<1>4. CASE IntMalloc
  BY <1>4, IntMallocKeeps
<1>5. CASE Sysmalloc
  BY <1>5, SysmallocKeeps
<1>6. CASE \E p \in DOMAIN live : Free(p)
  BY <1>6, FreeKeeps
<1>7. CASE Realloc
  BY <1>7, ReallocKeeps
<1>8. CASE \E al \in Alignments, nb \in Requests : Memalign(al, nb)
  BY <1>8, MemalignKeeps
<1>9. CASE MemalignCut
  BY <1>9, MemalignCutKeeps
<1>10. CASE \E pad \in TrimPads : Trim(pad)
  BY <1>10, TrimKeeps
<1>11. CASE \E inc \in ForeignIncs : ForeignSbrk(inc)
  BY <1>11, ForeignSbrkKeeps
<1> QED BY <1>1, <1>2, <1>3, <1>4, <1>5, <1>6, <1>7, <1>8, <1>9, <1>10, <1>11 DEF Next

(* A step of others.                                                        *)
LEMMA StutterKeeps ==
  ASSUME IInv, UNCHANGED vars
  PROVE  IInv'
<1>1. UNCHANGED <<av, mapEnd, foreign, live, pc, op, waiting>>
  BY DEF vars
<1>2. OpOk'
  BY <1>1 DEF IInv, OpOk, TopServes
<1> QED BY <1>1, <1>2, QuietKeeps

(* The inductive invariant of main_arena.                                   *)
THEOREM MainInvariant ==
  ASSUME MainArena = {TRUE}
  PROVE  Spec => []IInv
<1>1. Init => IInv
  BY InitKeeps
<1>2. IInv /\ [Next]_vars => IInv'
  BY NextKeeps, StutterKeeps
<1> QED BY <1>1, <1>2, PTL DEF Spec

(* main_arena: no sequence of calls, with other code moving the break in    *)
(* between and sbrk or mmap failing at will, trips a test that ends in      *)
(* malloc_printerr.                                                         *)
THEOREM MainNeverAborts ==
  ASSUME MainArena = {TRUE}
  PROVE  Spec => []NoAbort
<1>1. IInv => NoAbort
  BY MainIs DEF NoAbort
<1> QED BY <1>1, MainInvariant, PTL

----------------------------------------------------------------------------
(* What the invariant says of the headers.                                  *)
LEMMA FreeChunksAre ==
  ASSUME NEW F, NEW X, NEW G, Tiled(av.chunk, av.top, F, X, G)
  PROVE  FreeChunks = F
<1> DEFINE c == av.chunk
<1>1. Headers(c) /\ F \subseteq DOMAIN c \ {av.top}
  BY DEF Tiled, Parts
<1>2. ASSUME NEW p \in F PROVE p \in FreeChunks
  <2>1. End(c, p) \in DOMAIN c /\ ~ c[End(c, p)].pinuse
    BY <1>2 DEF Tiled, FreeTags
  <2>2. p \in Heads \ {av.top} /\ NextOf(av, p) = End(c, p)
    BY <1>1, <1>2 DEF Heads, NextOf, SizeOf, End
  <2> QED BY <2>1, <2>2 DEF FreeChunks, InUse, PrevInUse, Heads
<1>3. ASSUME NEW p \in FreeChunks PROVE p \in F
  <2>1. p \in DOMAIN c /\ NextOf(av, p) \in DOMAIN c /\ ~ c[NextOf(av, p)].pinuse
    BY <1>3 DEF FreeChunks, InUse, PrevInUse, Heads
  <2>2. NextOf(av, p) = End(c, p)
    BY DEF NextOf, SizeOf, End
  <2>3. c[p].size > 0
    <3> SUFFICES ASSUME ~ (c[p].size > 0) PROVE FALSE
      OBVIOUS
    <3>1. c[p].size = 0 /\ p \in Nat
      BY <1>1, <2>1, Fields
    <3>2. End(c, p) = p /\ c[p].pinuse
      BY <2>1, <3>1 DEF End, Tiled, LastFences
    <3> QED BY <2>1, <2>2, <3>2
  <2> HIDE DEF c
  <2>4. Tiled(c, av.top, F, X, G)
    BY DEF c
  <2> QED BY <2>1, <2>2, <2>3, <2>4, FreeBefore
<1> QED BY <1>2, <1>3

(* The tags of an arena that has started agree.                             *)
LEMMA GoodTags ==
  ASSUME NEW X, Good(av, X, mapEnd, foreign)
  PROVE  TagsAgree
<1> DEFINE G == Owned(av.brk, mapEnd, foreign)
           c == av.chunk
<1>1. PICK F : Sound(av, F, X, G)
  BY DEF Good
<1>2. Tiled(c, av.top, F, X, G) /\ FreeChunks = F
  BY <1>1, FreeChunksAre DEF Sound
<1>3. \A p : NextOf(av, p) = End(c, p) /\ SizeOf(av, p) = c[p].size /\ (PrevInUse(av, p) <=> c[p].pinuse)
             /\ PrevOf(av, p) = p - c[p].prev
  BY DEF NextOf, SizeOf, End, PrevInUse, PrevOf
<1>4. ChunksTile
  <2>1. ASSUME NEW p \in Heads \ {av.top} PROVE NextOf(av, p) \in Heads \/ SizeOf(av, p) = Hdr
    <3>1. p \in DOMAIN c \ {av.top}
      BY DEF Heads
    <3>2. p \in F => End(c, p) \in DOMAIN c
      BY <1>2 DEF Tiled, FreeTags
    <3>3. p \in X => End(c, p) \in DOMAIN c
      BY <1>2 DEF Tiled, UsedTags
    <3>4. p \notin F /\ p \notin X => End(c, p) \in DOMAIN c \/ c[p].size = 1
      BY <1>2, <3>1 DEF Tiled, Fences
    <3> QED BY <1>3, <3>2, <3>3, <3>4, Consts DEF Heads
  <2>2. \A p, q \in Heads : p < q => NextOf(av, p) <= q
    BY <1>2, <1>3 DEF Tiled, Ordered, Heads
  <2> QED BY <2>1, <2>2 DEF ChunksTile
<1>5. NoFreeNeighbours
  <2>1. \A p \in F : c[p].pinuse /\ End(c, p) # av.top
    BY <1>2 DEF Tiled, FreeTags
  <2>2. c[av.top].pinuse
    BY <1>2 DEF Tiled, PrevTags, Parts
  <2> QED BY <1>2, <1>3, <2>1, <2>2 DEF NoFreeNeighbours
<1>6. FootersAgree
  <2>1. \A q \in DOMAIN c : ~ c[q].pinuse => q - c[q].prev \in F /\ c[q - c[q].prev].size = c[q].prev
    BY <1>2 DEF Tiled, PrevTags
  <2> QED BY <1>2, <1>3, <2>1 DEF FootersAgree, Heads
<1> QED BY <1>4, <1>5, <1>6 DEF TagsAgree

(* Before the first sysmalloc there is no chunk but initial_top.            *)
LEMMA FreshTags ==
  ASSUME NEW X, Fresh(av, X, mapEnd, foreign)
  PROVE  TagsAgree /\ FreeChunks = {} /\ Heads = {InitialTop} /\ av.top = InitialTop
<1>1. Heads = {0} /\ av.top = 0 /\ InitialTop = 0
  BY Consts DEF Fresh, Heads
<1>2. FreeChunks = {}
  BY <1>1 DEF FreeChunks
<1>3. ChunksTile
  BY <1>1 DEF ChunksTile
<1>4. NoFreeNeighbours
  BY <1>1, <1>2 DEF NoFreeNeighbours, Started
<1>5. FootersAgree
  BY <1>1 DEF FootersAgree
<1> QED BY <1>1, <1>2, <1>3, <1>4, <1>5 DEF TagsAgree

(* main_arena: chunks tile its memory, no two free chunks touch, and each   *)
(* clear PREV_INUSE bit has the size of a free chunk in front of it.        *)
THEOREM MainTagsAgree ==
  ASSUME MainArena = {TRUE}
  PROVE  Spec => []TagsAgree
<1>1. IInv => TagsAgree
  BY GoodTags, FreshTags DEF IInv, MemoryOk, Healthy
<1> QED BY <1>1, MainInvariant, PTL

(* Every chunk lies in memory the arena got itself.                         *)
LEMMA GoodOwns ==
  ASSUME NEW X, Good(av, X, mapEnd, foreign)
  PROVE  OwnMemoryOnly
<1> DEFINE G == Owned(av.brk, mapEnd, foreign)
           c == av.chunk
<1>1. PICK F : Sound(av, F, X, G)
  BY DEF Good
<1>2. Headers(c) /\ Within(c, G) /\ Region(av.brk, mapEnd, foreign)
  BY <1>1 DEF Sound, Tiled, Good, Numbers
<1>3. foreign \subseteq Int
  BY <1>2 DEF Region
<1> SUFFICES ASSUME NEW p \in Heads \ {InitialTop}
             PROVE  /\ \A x \in foreign : ~ (p <= x /\ x < NextOf(av, p))
                    /\ NextOf(av, p) <= av.brk \/ (MapBase <= p /\ NextOf(av, p) <= mapEnd)
  BY DEF OwnMemoryOnly
<1>4. p \in DOMAIN c /\ NextOf(av, p) = p + c[p].size
  BY DEF Heads, NextOf, SizeOf
<1>5. /\ p \in Nat /\ c[p].size \in Nat
      /\ \/ FirstBrk <= p /\ p < av.brk /\ p + c[p].size <= av.brk
            /\ \A x \in foreign : c[p].size > 0 => x < p \/ p + c[p].size <= x
         \/ MapBase <= p /\ p < mapEnd /\ p + c[p].size <= mapEnd
  BY <1>2, <1>4, ChunkPlaces
<1>6. av.brk \in Int /\ av.brk <= MaxBrk /\ foreign \subseteq FirstBrk .. av.brk - 1 /\ FirstBrk \in Int
      /\ MaxBrk \in Int /\ MapBase \in Int /\ MaxBrk < MapBase
  BY <1>2, Consts DEF Region
<1>7. CASE FirstBrk <= p /\ p < av.brk /\ p + c[p].size <= av.brk
           /\ \A x \in foreign : c[p].size > 0 => x < p \/ p + c[p].size <= x
  BY <1>3, <1>4, <1>5, <1>7
<1>8. CASE MapBase <= p /\ p < mapEnd /\ p + c[p].size <= mapEnd
  <2>1. \A x \in foreign : x < p
    BY <1>5, <1>6, <1>8
  <2> QED BY <1>3, <1>4, <1>5, <1>8, <2>1
<1> QED BY <1>5, <1>7, <1>8

(* main_arena: no chunk, not even top, covers memory that other code got    *)
(* from sbrk, or reaches past the break or the mappings.                    *)
THEOREM MainOwnMemoryOnly ==
  ASSUME MainArena = {TRUE}
  PROVE  Spec => []OwnMemoryOnly
<1>1. IInv => OwnMemoryOnly
  <2>1. \A X : Fresh(av, X, mapEnd, foreign) => OwnMemoryOnly
    BY FreshTags DEF OwnMemoryOnly
  <2> QED BY <2>1, GoodOwns DEF IInv, MemoryOk, Healthy
<1> QED BY <1>1, MainInvariant, PTL

----------------------------------------------------------------------------
(* What a step does to the blocks the program owns.                         *)
Gives == \E p, n : live' = Give(live, p, n)
Drops == \E p \in DOMAIN live : live' = Drop(live, p)
Swaps == \E p \in DOMAIN live : \E q, n : q \notin DOMAIN live /\ live' = Give(Drop(live, p), q, n)
LiveMoves == UNCHANGED live \/ Gives \/ Drops \/ Swaps

(* A block that _int_malloc returns is given to the program, or kept for    *)
(* realloc or memalign.                                                     *)
LEMMA ReturnMoves ==
  ASSUME NEW p, Return(p)
  PROVE  LiveMoves
<1>1. CASE op.kind \in {"malloc", "calloc"}
  <2>1. live' = Give(live, p, op.want)
    BY <1>1 DEF Return, Give
  <2> QED BY <2>1 DEF LiveMoves, Gives
<1>2. CASE op.kind \notin {"malloc", "calloc"}
  BY <1>2 DEF Return, LiveMoves
<1> QED BY <1>1, <1>2

(* The stages of _int_malloc and sysmalloc.                                 *)
LEMMA SearchMoves ==
  ASSUME IntMalloc \/ Sysmalloc
  PROVE  LiveMoves
<1>1. CASE SmallbinHit \/ UseTop \/ SysAllocate
  BY <1>1, ReturnMoves DEF SmallbinHit, UseTop, SysAllocate, Abort, LiveMoves
<1>2. CASE ProcessUnsorted
  BY <1>2, ReturnMoves DEF ProcessUnsorted, SplitLastRemainder, ExactFit, BinChunk, Abort, LiveMoves
<1>3. CASE LargeFit \/ ScanFit
  BY <1>3, ReturnMoves DEF LargeFit, ScanFit, TakeBest, Abort, LiveMoves
<1>4. CASE SmallbinMiss \/ UnsortedDone \/ NoLargeFit \/ ScanMiss \/ TopTooSmall \/ MmapServes \/ NoMemory \/ SysFails
  BY <1>4 DEF SmallbinMiss, UnsortedDone, NoLargeFit, ScanMiss, TopTooSmall, MmapServes, NoMemory, SysFails,
              Finish, LiveMoves
<1>5. CASE GrowsHeap \/ AddsHeap \/ Morecore \/ MmapFallback
  BY <1>5 DEF GrowsHeap, AddsHeap, Morecore, MmapFallback, Grown, Obtained, Abort, LiveMoves
<1> QED BY <1>1, <1>2, <1>3, <1>4, <1>5 DEF IntMalloc, Sysmalloc

(* realloc: in place, joined, copied to a new block or to another arena.    *)
LEMMA ReallocMovesBlocks ==
  ASSUME IInv, Realloc
  PROVE  LiveMoves
<1>1. ASSUME NEW p \in DOMAIN live, NEW nb \in Requests, ReallocInPlace(p, nb) PROVE LiveMoves
  BY <1>1 DEF ReallocInPlace, Finish, LiveMoves, Gives
<1>2. ASSUME NEW p \in DOMAIN live, NEW nb \in Requests, ReallocMoves(p, nb) PROVE LiveMoves
  BY <1>2 DEF ReallocMoves, Abort, LiveMoves
<1>3. CASE ReallocElsewhere
  BY <1>3 DEF ReallocElsewhere, LiveMoves
<1>4. CASE ReallocJoin
  BY <1>4 DEF ReallocJoin, Finish, LiveMoves, Gives
<1>5. CASE ReallocCopy
  <2>1. op.old \in DOMAIN live /\ (op.ret # 0 => op.ret \notin DOMAIN live)
    BY <1>5, ReallocIs DEF ReallocCopy
  <2>2. live' = IF op.ret = 0 THEN Drop(live, op.old) ELSE Give(Drop(live, op.old), op.ret, op.want)
    BY <1>5 DEF ReallocCopy, Finish
  <2> QED BY <2>1, <2>2 DEF LiveMoves, Drops, Swaps
<1> QED BY <1>1, <1>2, <1>3, <1>4, <1>5 DEF Realloc

(* Every step.                                                              *)
LEMMA NextMoves ==
  ASSUME IInv, Next
  PROVE  LiveMoves
<1>1. CASE (\E nb \in Requests : Malloc(nb)) \/ (\E nb \in Clears : Calloc(nb))
           \/ (\E al \in Alignments, nb \in Requests : Memalign(al, nb)) \/ CallocWaits \/ CallocRetries
  BY <1>1 DEF Malloc, Calloc, Memalign, CallocWaits, CallocRetries, LiveMoves
<1>2. CASE \E p \in DOMAIN live : Free(p)
  BY <1>2 DEF Free, Finish, LiveMoves, Drops
<1>3. CASE MemalignCut
  BY <1>3 DEF MemalignCut, Finish, LiveMoves, Gives
<1>4. CASE (\E pad \in TrimPads : Trim(pad)) \/ (\E inc \in ForeignIncs : ForeignSbrk(inc))
  BY <1>4 DEF Trim, ForeignSbrk, LiveMoves
<1> QED BY <1>1, <1>2, <1>3, <1>4, SearchMoves, ReallocMovesBlocks DEF Next

NoOverlap == \A p, q \in DOMAIN live : p # q => Blocks!Disjoint(live, p, q)

(* Blocks of the program never overlap: their chunks do not.                *)
LEMMA BlocksApart ==
  ASSUME IInv
  PROVE  NoOverlap
<1> SUFFICES ASSUME NEW p \in DOMAIN live, NEW q \in DOMAIN live, p # q
             PROVE  p + live[p] <= q \/ q + live[q] <= p
  BY DEF NoOverlap, Blocks!Disjoint
<1> DEFINE c == av.chunk
<1>1. Good(av, DOMAIN live \cup Held, mapEnd, foreign)
  BY UsedGood
<1>2. PICK F : Sound(av, F, DOMAIN live \cup Held, Owned(av.brk, mapEnd, foreign))
  BY <1>1 DEF Good
<1>3. Ordered(c)
  BY <1>2 DEF Sound, Tiled
<1>4. /\ p \in DOMAIN c /\ p \in Nat /\ c[p].size \in Nat
      /\ q \in DOMAIN c /\ q \in Nat /\ c[q].size \in Nat
  BY <1>1, GoodUsed
<1>5. live[p] \in Nat /\ live[p] <= c[p].size /\ live[q] \in Nat /\ live[q] <= c[q].size
  BY DEF IInv, Fits
<1>6. (p < q => p + c[p].size <= q) /\ (q < p => q + c[q].size <= p)
  BY <1>3, <1>4 DEF Ordered, End
<1> QED BY <1>4, <1>5, <1>6

(* Each of these is a step of the abstract allocator.                       *)
LEMMA MovesImplement ==
  ASSUME LiveMoves, NoOverlap'
  PROVE  [Blocks!Next]_live
<1>1. \A p, q \in DOMAIN live' : p # q => Blocks!Disjoint(live', p, q)
  BY DEF NoOverlap, Blocks!Disjoint
<1>2. ASSUME Gives PROVE Blocks!Next
  <2>1. PICK p, n : live' = Give(live, p, n)
    BY <1>2 DEF Gives
  <2>2. DOMAIN live' = DOMAIN live \cup {p} /\ \A q \in DOMAIN live \ {p} : live'[q] = live[q]
    BY <2>1 DEF Give
  <2>3. CASE p \notin DOMAIN live
    <3>1. Blocks!OthersKept({})
      BY <1>1, <2>2, <2>3 DEF Blocks!OthersKept
    <3> QED BY <2>2, <2>3, <3>1 DEF Blocks!Allocate, Blocks!Next
  <2>4. CASE p \in DOMAIN live
    <3>1. Blocks!OthersKept({p}) /\ DOMAIN live' = (DOMAIN live \ {p}) \cup {p} /\ p \in DOMAIN live'
      BY <1>1, <2>2, <2>4 DEF Blocks!OthersKept
    <3> QED BY <2>4, <3>1 DEF Blocks!Reallocate, Blocks!Next
  <2> QED BY <2>3, <2>4
<1>3. ASSUME Drops PROVE Blocks!Next
  <2>1. PICK p \in DOMAIN live : live' = Drop(live, p)
    BY <1>3 DEF Drops
  <2>2. DOMAIN live' = DOMAIN live \ {p} /\ \A q \in DOMAIN live \ {p} : live'[q] = live[q]
    BY <2>1 DEF Drop
  <2>3. Blocks!OthersKept({p})
    BY <1>1, <2>2 DEF Blocks!OthersKept
  <2> QED BY <2>2, <2>3 DEF Blocks!Free, Blocks!Next
<1>4. ASSUME Swaps PROVE Blocks!Next
  <2>0. PICK p \in DOMAIN live : \E q, n : q \notin DOMAIN live /\ live' = Give(Drop(live, p), q, n)
    BY <1>4 DEF Swaps
  <2>1. PICK q, n : q \notin DOMAIN live /\ live' = Give(Drop(live, p), q, n)
    BY <2>0
  <2>2. DOMAIN live' = (DOMAIN live \ {p}) \cup {q} /\ \A u \in DOMAIN live \ {p} : live'[u] = live[u]
    BY <2>1 DEF Drop, Give
  <2>3. Blocks!OthersKept({p}) /\ q \in DOMAIN live'
    BY <1>1, <2>2 DEF Blocks!OthersKept
  <2> QED BY <2>2, <2>3 DEF Blocks!Reallocate, Blocks!Next
<1> QED BY <1>2, <1>3, <1>4 DEF LiveMoves

(* main_arena is an allocator of blocks that never overlap and stay where   *)
(* and as they are until the program frees or reallocates them.             *)
THEOREM MainImplementsAllocator ==
  ASSUME MainArena = {TRUE}
  PROVE  Spec => ImplementsAllocator
<1>1. Init => Blocks!Init
  BY DEF Init, Blocks!Init
<1>2. IInv /\ IInv' /\ [Next]_vars => [Blocks!Next]_live
  <2> SUFFICES ASSUME IInv, IInv', [Next]_vars PROVE [Blocks!Next]_live
    OBVIOUS
  <2>1. NoOverlap'
    BY BlocksApart, PTL
  <2>2. CASE Next
    BY <2>1, <2>2, NextMoves, MovesImplement
  <2>3. CASE UNCHANGED vars
    BY <2>3 DEF vars
  <2> QED BY <2>2, <2>3
<1> QED BY <1>1, <1>2, MainInvariant, PTL DEF Spec, ImplementsAllocator, Blocks!Spec

----------------------------------------------------------------------------
(* A list without repetitions has as many places as members.                *)
LEMMA BinCount ==
  ASSUME NEW S, NEW s \in Seq(S), \A k, l \in 1 .. Len(s) : s[k] = s[l] => k = l
  PROVE  Cardinality({ s[k] : k \in 1 .. Len(s) }) = Len(s)
<1> DEFINE T == { s[k] : k \in 1 .. Len(s) }
           n == Len(s)
           f == [k \in 1 .. n |-> s[k]]
<1>1. n \in Nat
  OBVIOUS
<1> HIDE DEF n
<1>2. f \in [1 .. n -> T] /\ (\A k, l \in 1 .. n : f[k] = f[l] => k = l) /\ \A t \in T : \E k \in 1 .. n : f[k] = t
  BY DEF n
<1> HIDE DEF f, T
<1>3. f \in Bijection(1 .. n, T)
  BY ONLY <1>2 DEF Bijection, Injection, Surjection, IsInjective
<1>4. ExistsBijection(1 .. n, T)
  BY <1>3 DEF ExistsBijection
<1>5. Cardinality(T) = n
  BY <1>1, <1>4, FS_CountingElements
<1> QED BY <1>5 DEF n, T

(* The lists hold the free chunks, each once, and each bin those of its     *)
(* size.                                                                    *)
LEMMA GoodBinned ==
  ASSUME NEW F, IsArena(av), FreeChunks = F, Lists(av.bins, F), Sorted(av.chunk, av.bins)
  PROVE  FreeIsBinned
<1>1. /\ \A i \in 1 .. NBins : av.bins[i] \in Seq(F)
      /\ \A i \in 1 .. NBins : \A k \in 1 .. Len(av.bins[i]) : av.bins[i][k] \in F
      /\ \A i, j \in 1 .. NBins : \A k \in 1 .. Len(av.bins[i]) : \A l \in 1 .. Len(av.bins[j]) :
           av.bins[i][k] = av.bins[j][l] => i = j /\ k = l
  BY ListedOnce
<1>2. \A p \in F : \E i \in 1 .. NBins : \E k \in 1 .. Len(av.bins[i]) : av.bins[i][k] = p
  BY DEF Lists
<1>3. AllBinned = F
  <2>1. \A i \in 1 .. NBins : Binned(i) \subseteq F
    BY <1>1 DEF Binned
  <2>2. \A p \in F : \E i \in 1 .. NBins : p \in Binned(i)
    BY <1>2 DEF Binned
  <2> QED BY <2>1, <2>2 DEF AllBinned
<1>4. ASSUME NEW i \in 1 .. NBins PROVE Cardinality(Binned(i)) = Len(av.bins[i])
  <2> DEFINE s == av.bins[i]
  <2>1. s \in Seq(F) /\ \A k, l \in 1 .. Len(s) : s[k] = s[l] => k = l
    BY <1>1
  <2>2. Binned(i) = { s[k] : k \in 1 .. Len(s) }
    BY DEF Binned
  <2> HIDE DEF s
  <2>3. Cardinality({ s[k] : k \in 1 .. Len(s) }) = Len(s)
    BY <2>1, BinCount
  <2> QED BY <2>2, <2>3 DEF s
<1>5. ASSUME NEW i \in 1 .. NBins, NEW j \in 1 .. NBins, i # j PROVE Binned(i) \cap Binned(j) = {}
  BY <1>1, <1>5 DEF Binned
<1>6. ASSUME NEW i \in 1 .. NBins, i # Unsorted, NEW p \in Binned(i) PROVE BinIndex[SizeOf(av, p)] = i
  <2>1. i \in 2 .. NBins
    BY <1>6 DEF Unsorted
  <2> QED BY <1>6, <2>1 DEF Binned, Sorted, InBin, SizeOf
<1> QED BY <1>3, <1>4, <1>5, <1>6 DEF FreeIsBinned

(* What is neither free nor top nor a fencepost is in use.                  *)
LEMMA GoodUses ==
  ASSUME NEW F, NEW X, NEW G, Tiled(av.chunk, av.top, F, X, G)
  PROVE  Heads \ (F \cup {av.top} \cup Slivers) = X
<1> DEFINE c == av.chunk
           top == av.top
<1>1. Headers(c) /\ Parts(c, top, F, X) /\ UsedTags(c, X) /\ Follows(c, top, F \cup X)
      /\ Fences(c, DOMAIN c \ (F \cup X \cup {top}))
  BY DEF Tiled
<1>2. Heads = DOMAIN c /\ \A p : NextOf(av, p) = End(c, p) /\ SizeOf(av, p) = c[p].size
  BY DEF Heads, NextOf, SizeOf, End
<1>3. Slivers = { p \in DOMAIN c \ {top} : c[p].size < 2 \/ (End(c, p) \in DOMAIN c /\ c[End(c, p)].size = 0) }
  BY <1>2, Consts DEF Slivers
<1> HIDE DEF c, top
<1>4. ASSUME NEW p \in X PROVE p \in DOMAIN c /\ p \notin F /\ p # top /\ p \notin Slivers
  <2>1. p \in DOMAIN c /\ p \notin F /\ p # top
    BY <1>1 DEF Parts
  <2>2. c[p].size \in Nat /\ c[p].size >= 2 /\ End(c, p) \in DOMAIN c
    BY <1>1, <2>1, Fields DEF UsedTags
  <2>3. c[End(c, p)].size # 0
    <3>1. c[top].size >= 2
      BY <1>1 DEF Parts
    <3>2. End(c, p) = top \/ c[End(c, p)].size > 0
      BY <1>1, <1>4 DEF Follows
    <3> QED BY <3>1, <3>2
  <2> QED BY <1>3, <2>1, <2>2, <2>3
<1>5. ASSUME NEW p \in DOMAIN c, p \notin F, p # top, p \notin X PROVE p \in Slivers
  BY <1>1, <1>3, <1>5 DEF Fences
<1> QED BY <1>2, <1>4, <1>5 DEF c, top

(* So nothing is lost and nothing handed twice.                             *)
LEMMA GoodNoLeak ==
  ASSUME NEW X, Good(av, X, mapEnd, foreign)
  PROVE  FreeIsBinned /\ Heads \ (FreeChunks \cup {av.top} \cup Slivers) = X
<1>1. PICK F : Sound(av, F, X, Owned(av.brk, mapEnd, foreign))
  BY DEF Good
<1>2. FreeChunks = F
  BY <1>1, FreeChunksAre DEF Sound
<1>3. FreeIsBinned
  BY <1>1, <1>2, GoodBinned DEF Sound
<1>4. Heads \ (F \cup {av.top} \cup Slivers) = X
  BY <1>1, GoodUses DEF Sound
<1> QED BY <1>2, <1>3, <1>4

(* Nor before the first sysmalloc.                                          *)
LEMMA FreshNoLeak ==
  ASSUME NEW X, Fresh(av, X, mapEnd, foreign)
  PROVE  FreeIsBinned /\ Heads \ (FreeChunks \cup {av.top} \cup Slivers) = X
<1>1. FreeChunks = {} /\ Heads = {InitialTop} /\ av.top = InitialTop
  BY FreshTags
<1>2. IsArena(av) /\ X = {} /\ Lists(av.bins, {}) /\ Sorted(av.chunk, av.bins)
  BY EmptyLists DEF Fresh
<1>3. FreeIsBinned
  BY <1>1, <1>2, GoodBinned
<1> QED BY <1>1, <1>2, <1>3

(* Nothing is lost and nothing handed twice.                                *)
THEOREM MainNoLeak ==
  ASSUME MainArena = {TRUE}
  PROVE  Spec => []NoLeak
<1>1. IInv => NoLeak
  <2> SUFFICES ASSUME IInv PROVE NoLeak
    OBVIOUS
  <2>1. DOMAIN live \cap Held = {}
    BY DEF IInv, OpOk, Held
  <2>2. FreeIsBinned /\ Heads \ (FreeChunks \cup {av.top} \cup Slivers) = DOMAIN live \cup Held
    BY GoodNoLeak, FreshNoLeak DEF IInv, MemoryOk, Healthy
  <2> QED BY <2>1, <2>2 DEF NoLeak
<1> QED BY <1>1, MainInvariant, PTL

----------------------------------------------------------------------------
(* op.grown is set where sysmalloc has obtained memory, and nowhere before. *)
GrownLate == /\ op.grown => pc \in {"sys_alloc", "realloc", "memalign"}
             /\ \A w \in waiting : ~ w.grown
Reached == GrownLate /\ Suffices

(* No call in progress has obtained memory while there is none.             *)
LEMMA NoOpLate == ~ NoOp.grown
BY DEF NoOp

(* A step that does not lead to sys_alloc need only mind op.grown.          *)
LEMMA LateElsewhere ==
  ASSUME GrownLate', pc' # "sys_alloc"
  PROVE  Reached'
BY DEF Reached, Suffices, GrowthSuffices

(* The call is over.                                                        *)
LEMMA IdleLate ==
  ASSUME Reached, pc' = "idle", op' = NoOp, UNCHANGED waiting
  PROVE  Reached'
BY NoOpLate, LateElsewhere DEF Reached, GrownLate

(* The call is stopped where it was.                                        *)
LEMMA AbortLate ==
  ASSUME Reached, pc # "sys_alloc", Abort, UNCHANGED waiting
  PROVE  Reached'
BY LateElsewhere DEF Abort, Reached, GrownLate

(* _int_malloc returns a chunk.                                             *)
LEMMA ReturnLate ==
  ASSUME IInv, Reached, pc \in Stages, NEW p, Return(p), UNCHANGED waiting
  PROVE  Reached'
<1>1. CASE op.kind \in {"malloc", "calloc"}
  BY <1>1, IdleLate DEF Return
<1>2. CASE op.kind \notin {"malloc", "calloc"}
  <2>1. pc' = op.kind /\ op.kind \in {"realloc", "memalign"}
    BY <1>2 DEF Return, IInv, OpOk, Stages
  <2>2. GrownLate'
    BY <2>1 DEF Reached, GrownLate
  <2> QED BY <2>1, <2>2, LateElsewhere
<1> QED BY <1>1, <1>2

(* A step from one stage to another that is not sys_alloc.                  *)
LEMMA MovesOnLate ==
  ASSUME Reached, pc \notin {"sys_alloc", "realloc", "memalign"}, pc' # "sys_alloc",
         op' = op, UNCHANGED waiting
  PROVE  Reached'
BY LateElsewhere DEF Reached, GrownLate

(* The call begins: nothing has been obtained for it yet.                   *)
LEMMA BeginsLate ==
  ASSUME Reached, pc' = "malloc", ~ op'.grown, UNCHANGED waiting
  PROVE  Reached'
BY LateElsewhere DEF Reached, GrownLate

(* The stages of _int_malloc.                                               *)
LEMMA SearchLate ==
  ASSUME IInv, Reached, IntMalloc
  PROVE  Reached'
<1>1. CASE SmallbinHit
  BY <1>1, ReturnLate DEF SmallbinHit, system, Stages
<1>2. CASE SmallbinMiss \/ UnsortedDone \/ NoLargeFit \/ ScanMiss \/ TopTooSmall
  BY <1>2, MovesOnLate DEF SmallbinMiss, UnsortedDone, NoLargeFit, ScanMiss, TopTooSmall, Step, system
<1>3. CASE LargeFit \/ ScanFit
  BY <1>3, ReturnLate, AbortLate DEF LargeFit, ScanFit, TakeBest, system, Stages
<1>4. CASE UseTop
  BY <1>4, ReturnLate, AbortLate DEF UseTop, system, Stages
<1>5. CASE ProcessUnsorted
  <2>1. pc = "unsorted" /\ UNCHANGED waiting
    BY <1>5 DEF ProcessUnsorted, system
  <2>2. ASSUME NEW v, SplitLastRemainder(v) \/ ExactFit(v) PROVE Reached'
    BY <2>1, <2>2, ReturnLate DEF SplitLastRemainder, ExactFit, Stages
  <2>3. ASSUME NEW v, BinChunk(v) PROVE Reached'
    <3>1. pc' # "sys_alloc" /\ op' = [op EXCEPT !.iters = @ + 1]
      BY <2>3 DEF BinChunk
    <3>2. IsOp(op)
      BY <2>1, StageIs DEF Stages, Asked
    <3>3. op'.grown = op.grown
      BY <3>1, <3>2 DEF IsOp, NoOp
    <3> QED BY <2>1, <3>1, <3>3, LateElsewhere DEF Reached, GrownLate
  <2> QED BY <1>5, <2>1, <2>2, <2>3, AbortLate DEF ProcessUnsorted
<1> QED BY <1>1, <1>2, <1>3, <1>4, <1>5 DEF IntMalloc

(* sysmalloc: where memory is obtained, and where there is none.            *)
LEMMA SysmallocLate ==
  ASSUME IInv, Reached, Sysmalloc
  PROVE  Reached'
<1>1. CASE MmapServes
  <2>1. CASE op.kind = "realloc"
    <3>1. pc' = "realloc" /\ UNCHANGED waiting
      BY <1>1, <2>1 DEF MmapServes, system
    <3> QED BY <3>1, LateElsewhere DEF Reached, GrownLate
  <2>2. CASE op.kind # "realloc"
    BY <1>1, <2>2, IdleLate DEF MmapServes, system
  <2> QED BY <2>1, <2>2
<1>2. CASE Morecore \/ MmapFallback
  <2>1. Suffices'
    BY <1>2, MorecoreKeeps, MmapFallbackKeeps
  <2>2. CASE pc' = "sys_alloc"
    BY <1>2, <2>1, <2>2 DEF Morecore, MmapFallback, Reached, GrownLate
  <2>3. CASE pc' # "sys_alloc"
    <3>1. pc = "sysmalloc" /\ UNCHANGED waiting
      BY <1>2 DEF Morecore, MmapFallback
    <3>2. Abort
      BY <1>2, <2>3 DEF Morecore, MmapFallback, Grown, Obtained
    <3> QED BY <3>1, <3>2, AbortLate
  <2> QED BY <2>2, <2>3
<1>3. CASE NoMemory
  <2>1. pc = "sysmalloc" /\ op' = op /\ UNCHANGED waiting
    BY <1>3 DEF NoMemory, Step, system
  <2>2. ~ op'.grown /\ GrownLate'
    BY <2>1 DEF Reached, GrownLate
  <2> QED BY <2>2 DEF Reached, Suffices, GrowthSuffices
<1>4. CASE SysAllocate
  BY <1>4, ReturnLate DEF SysAllocate, system, Stages
<1>5. CASE SysFails
  BY <1>5, IdleLate DEF SysFails, Finish, system
<1>6. ~ GrowsHeap /\ ~ AddsHeap
  BY MainIs DEF GrowsHeap, AddsHeap
<1> QED BY <1>1, <1>2, <1>3, <1>4, <1>5, <1>6 DEF Sysmalloc

(* realloc begins, goes on or ends.                                         *)
LEMMA ReallocLate ==
  ASSUME IInv, Reached, Realloc
  PROVE  Reached'
<1>1. ASSUME NEW p \in DOMAIN live, NEW nb \in Requests, ReallocInPlace(p, nb) PROVE Reached'
  BY <1>1, IdleLate DEF ReallocInPlace, Finish, system
<1>2. ASSUME NEW p \in DOMAIN live, NEW nb \in Requests, ReallocMoves(p, nb) PROVE Reached'
  <2>1. pc = "idle" /\ UNCHANGED waiting
    BY <1>2 DEF ReallocMoves, system
  <2>2. CASE ~ ReallocChecks(p)
    BY <1>2, <2>1, <2>2, AbortLate DEF ReallocMoves
  <2>3. CASE ReallocChecks(p)
    <3>1. pc' = "malloc" /\ ~ op'.grown
      BY <1>2, <2>3 DEF ReallocMoves, NoOp
    <3> QED BY <2>1, <3>1, BeginsLate
  <2> QED BY <2>2, <2>3
<1>3. CASE ReallocElsewhere
  <2>1. pc' = "realloc" /\ UNCHANGED waiting
    BY <1>3 DEF ReallocElsewhere, Step, system
  <2> QED BY <2>1, LateElsewhere DEF Reached, GrownLate
<1>4. CASE ReallocJoin \/ ReallocCopy
  BY <1>4, IdleLate DEF ReallocJoin, ReallocCopy, Finish, system
<1> QED BY <1>1, <1>2, <1>3, <1>4 DEF Realloc

(* Every step.                                                              *)
LEMMA NextLate ==
  ASSUME IInv, Reached, Next
  PROVE  Reached'
<1>1. CASE (\E nb \in Requests : Malloc(nb)) \/ (\E nb \in Clears : Calloc(nb))
           \/ (\E al \in Alignments, nb \in Requests : Memalign(al, nb))
  <2>1. pc' = "malloc" /\ UNCHANGED waiting
    BY <1>1 DEF Malloc, Calloc, Memalign, Step, system
  <2>2. ~ op'.grown
    BY <1>1 DEF Malloc, Calloc, Memalign, NoOp
  <2> QED BY <2>1, <2>2, BeginsLate
<1>2. CASE CallocWaits
  <2>1. pc' = "idle" /\ op' = NoOp /\ waiting' = {[op EXCEPT !.again = TRUE, !.iters = 0, !.grown = FALSE]}
        /\ pc = "sys_alloc"
    BY <1>2 DEF CallocWaits, Step
  <2>2. IsOp(op)
    BY <2>1, StageIs DEF Stages, Asked
  <2>3. \A w \in waiting' : ~ w.grown
    BY <2>1, <2>2 DEF IsOp, NoOp
  <2> QED BY <2>1, <2>3, NoOpLate, LateElsewhere DEF GrownLate
<1>3. CASE CallocRetries
  <2>1. pc' = "malloc" /\ op' \in waiting /\ waiting' = {}
    BY <1>3 DEF CallocRetries, Step
  <2> QED BY <2>1, LateElsewhere DEF Reached, GrownLate
<1>4. CASE (\E p \in DOMAIN live : Free(p)) \/ MemalignCut
  BY <1>4, IdleLate DEF Free, MemalignCut, Finish, system
<1>5. CASE (\E pad \in TrimPads : Trim(pad)) \/ (\E inc \in ForeignIncs : ForeignSbrk(inc))
  <2>1. pc = "idle" /\ pc' = pc /\ op' = op /\ UNCHANGED waiting
    BY <1>5 DEF Trim, ForeignSbrk, system
  <2> QED BY <2>1, MovesOnLate
<1> QED BY <1>1, <1>2, <1>3, <1>4, <1>5, SearchLate, SysmallocLate, ReallocLate DEF Next

(* When sysmalloc has been given all it asked for, the request succeeds,    *)
(* although the free of what is left of the old top may trim the new one: a *)
(* trim leaves top_pad, enough for a request of that size, and a larger one *)
(* is safe when with top_pad it is two pages below the trim threshold.      *)
THEOREM MainGrowthSuffices ==
  ASSUME MainArena = {TRUE}
  PROVE  Spec => [](Modest => GrowthSuffices)
<1>1. Init => Reached
  <2> SUFFICES ASSUME Init PROVE Reached
    OBVIOUS
  <2>1. pc = "idle" /\ op = NoOp /\ waiting = {}
    BY DEF Init
  <2> QED BY <2>1, NoOpLate DEF Reached, GrownLate, Suffices, GrowthSuffices
<1>2. IInv /\ Reached /\ [Next]_vars => Reached'
  <2>1. ASSUME Reached, UNCHANGED vars PROVE Reached'
    <3>1. UNCHANGED <<av, pc, op, waiting>>
      BY <2>1 DEF vars
    <3> QED BY <2>1, <3>1 DEF Reached, GrownLate, Suffices, Modest, GrowthSuffices, TopSize
  <2> QED BY <2>1, NextLate
<1>3. Reached => (Modest => GrowthSuffices)
  BY DEF Reached, Suffices
<1> QED BY <1>1, <1>2, <1>3, MainInvariant, PTL DEF Spec
=============================================================================
