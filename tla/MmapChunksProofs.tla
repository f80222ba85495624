-------------------------- MODULE MmapChunksProofs --------------------------
(***************************************************************************)
(* Blocks served by mmap, proved for any number of threads and blocks, any  *)
(* request and any page size: the statistics of mp_ follow the mapped       *)
(* blocks, and every block the program owns holds what it asked for.        *)
(*                                                                          *)
(* OwnInv says what a thread in the middle of a call knows of its block,    *)
(* which no other thread can reach. The counters are then compared with the *)
(* blocks: n_mmaps with their number, mmapped_mem with the sum of what each *)
(* has added to it so far (Weight), max_n_mmaps with the value a thread     *)
(* carries between the addition and the maximum.                            *)
(***************************************************************************)
EXTENDS MmapChunks, NumberLemmas

(* Where a call makes a block, and where it works on one.                   *)
Making    == {"map", "count", "max_count", "sum", "max_sum", "align"}
Working   == {"compare", "measure", "slide_mmap", "slide_trim", "uncount", "unsum", "unmap", "remapped"}
WithBlock == Making \cup Working

TypeInv ==
  /\ pc \in [Threads -> WithBlock \cup {"idle", "no_dyn"}]
  /\ blk \in [Threads -> Blocks \cup {NoBlock}]
  /\ val \in [Threads -> Int]
  /\ alignment \in [Threads -> Alignments \cup {0}]
  /\ total \in [Blocks -> Nat] /\ offset \in [Blocks -> Nat] /\ asked \in [Blocks -> Nat]
  /\ live \in SUBSET Blocks
  /\ nMmaps \in Int /\ mmappedMem \in Int /\ maxNMmaps \in Int

(* The block of a call in progress. What mremap_chunk adds to mmapped_mem is *)
(* never more than what it mapped.                                          *)
OwnInv(t) ==
  /\ pc[t] \in WithBlock <=> blk[t] # NoBlock
  /\ blk[t] \notin live
  /\ pc[t] = "map" => /\ total[blk[t]] = 0 /\ val[t] > 0 /\ val[t] % Page = 0
                      /\ asked[blk[t]] + Padding(alignment[t]) + Hdr <= val[t]
  /\ pc[t] \in WithBlock \ {"map"} => total[blk[t]] # 0
  /\ pc[t] \notin Making => alignment[t] = 0
  /\ pc[t] = "align" => alignment[t] # 0
  /\ pc[t] \in Making \ {"map"} /\ alignment[t] # 0 =>
       /\ offset[blk[t]] = 0
       /\ asked[blk[t]] + Padding(alignment[t]) + Hdr <= total[blk[t]]
  /\ pc[t] = "remapped" => val[t] <= total[blk[t]] + Hdr

(* No two calls work on one block.                                          *)
Apart == \A t, u \in Threads : blk[t] = blk[u] => t = u \/ blk[t] = NoBlock

(* A block that is mapped is as BlocksHold wants it, owned or not.          *)
BlockInv(p) ==
  /\ total[p] = 0 => offset[p] = 0 /\ p \notin live
  /\ total[p] # 0 => MayUnmap(p) /\ asked[p] <= ChunkSize(p)

HoldInv ==
  /\ TypeInv
  /\ \A t \in Threads : OwnInv(t)
  /\ Apart
  /\ \A p \in Blocks : BlockInv(p)

(* What a block has added to mmapped_mem: nothing before its sum and after  *)
(* its subtraction, its old size while mremap_chunk has not added yet.      *)
Weight(p) ==
  IF total[p] = 0 \/ p \in InCall({"count", "max_count", "sum", "unmap"}) THEN 0
  ELSE IF p \in InCall({"remapped"})
       THEN total[p] + Hdr - val[CHOOSE t \in Threads : blk[t] = p]
       ELSE total[p]
Weights == [p \in Blocks |-> Weight(p)]

(* The sum of what the blocks have added; w, so that a prime is not moved    *)
(* into Sum.                                                                *)
SumCovers == \E w \in [Blocks -> Nat] : w = Weights /\ mmappedMem >= Sum(w, Blocks)

(* A thread that has raised n_mmaps beyond the maximum is about to store it. *)
Pending == \E t \in Threads : pc[t] = "max_count" /\ val[t] >= nMmaps

PeakCovers == maxNMmaps >= nMmaps \/ Pending

CountInv ==
  CountExact /\ SumCovers /\ PeakCovers

----------------------------------------------------------------------------
(* A step of thread t leaves the calls of the others and their blocks alone. *)
Local(t) ==
  \A u \in Threads \ {t} :
    /\ pc'[u] = pc[u] /\ blk'[u] = blk[u] /\ val'[u] = val[u] /\ alignment'[u] = alignment[u]
    /\ blk'[t] = blk[u] => blk[u] = NoBlock
    /\ blk[u] # NoBlock =>
         /\ total'[blk[u]] = total[blk[u]] /\ offset'[blk[u]] = offset[blk[u]]
         /\ asked'[blk[u]] = asked[blk[u]] /\ blk[u] \notin live'

(* What a thread does outside the other threads' blocks leaves their part   *)
(* of the invariant true.                                                   *)
LEMMA LocalStep ==
  ASSUME HoldInv, NEW t \in Threads, Local(t), TypeInv', OwnInv(t)', \A p \in Blocks : BlockInv(p)'
  PROVE  HoldInv' /\ Local(t)
<1>1. ASSUME NEW u \in Threads PROVE OwnInv(u)'
  <2>1. CASE u = t
    BY <2>1
  <2>2. CASE u # t
    <3>1. /\ OwnInv(u)
          /\ pc'[u] = pc[u] /\ blk'[u] = blk[u] /\ val'[u] = val[u] /\ alignment'[u] = alignment[u]
      BY <2>2 DEF HoldInv, Local
    <3>2. CASE blk[u] # NoBlock
      <4>1. /\ total'[blk[u]] = total[blk[u]] /\ offset'[blk[u]] = offset[blk[u]]
            /\ asked'[blk[u]] = asked[blk[u]] /\ blk[u] \notin live'
        BY <2>2, <3>2 DEF Local
      <4> QED BY <3>1, <4>1 DEF OwnInv, Padding
    <3>3. CASE blk[u] = NoBlock
      <4>1. NoBlock \notin live'
        BY MmapAssumption DEF TypeInv
      <4> QED BY <3>1, <3>3, <4>1 DEF OwnInv, WithBlock, Making, Working
    <3> QED BY <3>2, <3>3
  <2> QED BY <2>1, <2>2
<1>2. Apart'
  BY DEF HoldInv, Apart, Local
<1> QED BY <1>1, <1>2 DEF HoldInv

(* Rounding up to pages, and the address memalign chooses in them.          *)
LEMMA Pages ==
  ASSUME NEW x \in Nat, NEW a \in Nat \ {0}
  PROVE  AlignUp(x, a) \in Nat /\ AlignUp(x, a) >= x /\ AlignUp(x, a) <= x + a - 1 /\ AlignUp(x, a) % a = 0
  BY RoundUp DEF AlignUp

(* The front of the padding that memalign leaves is less than the           *)
(* alignment, and the user's address stays a power of two into its page.    *)
LEMMA AlignedOffset ==
  ASSUME NEW al \in Alignments \ {0}, NEW k \in Nat,
         NEW o, o = AlignUp(Page * k + Hdr, al) - Hdr - Page * k
  PROVE  o \in Nat /\ o < al /\ (o + Hdr) % Page \in PowersOfTwo
<1>1. /\ Page \in Nat \ {0} /\ Hdr \in Nat \ {0} /\ al \in Nat \ {0} /\ Hdr <= al
      /\ al % Page = 0 \/ (Page % al = 0 /\ al \in PowersOfTwo)
  BY MmapAssumption, AlignmentAssumption
<1>2. /\ o \in Nat /\ o < al
      /\ al % Page = 0 => (o + Hdr) % Page = 0
      /\ Page % al = 0 => (o + Hdr) % Page \in {al, 0}
  BY <1>1, AlignedBehind DEF AlignUp
<1>3. 0 \in PowersOfTwo
  BY DEF PowersOfTwo
<1> QED BY <1>1, <1>2, <1>3

(* What the proofs use of the constants.                                    *)
LEMMA Constants ==
  /\ Page \in Nat \ {0} /\ Hdr \in Nat \ {0} /\ MinSize \in Nat
  /\ NoBlock \notin Blocks /\ IsFiniteSet(Blocks)
  /\ \A nb \in Requests : nb \in Nat
  /\ \A al \in Alignments \cup {0} : al \in Nat /\ Padding(al) \in Nat
                                     /\ (al # 0 => Padding(al) >= al)
  /\ 0 \in PowersOfTwo
<1>1. \A al \in Alignments \cup {0} : al \in Nat
  BY MmapAssumption
<1>2. 0 \in PowersOfTwo
  BY DEF PowersOfTwo
<1> QED BY <1>1, <1>2, MmapAssumption DEF Padding

(* The block of a call in progress is the program's no more, and no other   *)
(* call's.                                                                  *)
LEMMA OwnBlock ==
  ASSUME HoldInv, NEW t \in Threads, pc[t] \in WithBlock
  PROVE  /\ blk[t] \in Blocks /\ blk[t] # NoBlock /\ blk[t] \notin live
         /\ total[blk[t]] \in Nat /\ offset[blk[t]] \in Nat /\ asked[blk[t]] \in Nat
         /\ val[t] \in Int
         /\ \A u \in Threads \ {t} : blk[u] # blk[t]
BY DEF HoldInv, TypeInv, OwnInv, Apart

(* A step that moves a call on and changes neither blocks nor alignments.   *)
Moves(t, to, v) ==
  /\ pc' = [pc EXCEPT ![t] = to] /\ val' = [val EXCEPT ![t] = v] /\ v \in Int
  /\ UNCHANGED <<blk, alignment, blocks>>
  /\ nMmaps' \in Int /\ mmappedMem' \in Int /\ maxNMmaps' \in Int

(* A step inside a call, or outside one, that moves no block.               *)
LEMMA QuietStep ==
  ASSUME HoldInv, NEW t \in Threads, NEW to \in WithBlock \cup {"idle", "no_dyn"}, NEW v,
         Moves(t, to, v), pc[t] # "map", to \notin {"map", "remapped"},
         pc[t] \in WithBlock <=> to \in WithBlock,
         pc[t] \in Making => to \in Making,
         to = "align" => alignment[t] # 0
  PROVE  HoldInv' /\ Local(t)
<1>1. TypeInv'
  BY DEF HoldInv, TypeInv, blocks, Moves
<1>2. Local(t)
  BY DEF HoldInv, TypeInv, OwnInv, Apart, Local, blocks, Moves
<1>3. OwnInv(t)'
  <2>1. pc'[t] = to /\ OwnInv(t)
    BY DEF HoldInv, TypeInv, Moves
  <2> QED BY <2>1 DEF OwnInv, blocks, WithBlock, Making, Working, Moves
<1>4. \A p \in Blocks : BlockInv(p)'
  BY DEF HoldInv, BlockInv, blocks, MayUnmap, ChunkSize, Moves
<1> QED BY <1>1, <1>2, <1>3, <1>4, LocalStep

(* From which step of a call to which.                                      *)
LEMMA Quietly ==
  ASSUME HoldInv, NEW t \in Threads, NEW to, NEW v, Moves(t, to, v),
         \/ pc[t] = "count" /\ to = "max_count"
         \/ pc[t] = "max_count" /\ to = "sum"
         \/ pc[t] \in {"sum", "remapped"} /\ to = "max_sum"
         \/ pc[t] = "max_sum" /\ to = "align" /\ alignment[t] # 0
         \/ pc[t] = "compare" /\ to \in {"measure", "uncount"}
         \/ pc[t] = "measure" /\ to \in {"slide_mmap", "uncount"}
         \/ pc[t] = "slide_mmap" /\ to = "slide_trim"
         \/ pc[t] = "slide_trim" /\ to = "uncount"
         \/ pc[t] = "uncount" /\ to = "unsum"
         \/ pc[t] = "unsum" /\ to = "unmap"
         \/ pc[t] = "idle" /\ to = "no_dyn"
         \/ pc[t] = "no_dyn" /\ to = "idle"
  PROVE  HoldInv' /\ Local(t)
<1>1. /\ to \in WithBlock \cup {"idle", "no_dyn"} /\ pc[t] # "map" /\ to \notin {"map", "remapped"}
      /\ pc[t] \in WithBlock <=> to \in WithBlock
      /\ pc[t] \in Making => to \in Making
      /\ to = "align" => alignment[t] # 0
  BY DEF WithBlock, Making, Working
<1> QED BY <1>1, QuietStep

(* The actions that are such steps.                                         *)
LEMMA QuietSteps ==
  ASSUME HoldInv, NEW t \in Threads,
         \/ CountMap(t) \/ MaxCount(t) \/ SumMap(t) \/ Compare(t) \/ Measure(t) \/ SlideMmap(t) \/ SlideTrim(t)
         \/ Uncount(t) \/ Unsum(t) \/ SumRemap(t) \/ NoDyn(t)
         \/ \E option \in Options : Mallopt(t, option)
         \/ (MaxSum(t) /\ alignment[t] # 0)
  PROVE  HoldInv' /\ Local(t)
<1> USE DEF Goto, Keep, blocks, counts, peaks, Moves
<1>1. /\ val = [val EXCEPT ![t] = val[t]] /\ val[t] \in Int
      /\ nMmaps \in Int /\ mmappedMem \in Int /\ maxNMmaps \in Int
  BY DEF HoldInv, TypeInv
<1>2. ASSUME pc[t] \in {"sum", "unsum"} PROVE total[blk[t]] \in Int
  BY <1>2, OwnBlock DEF WithBlock, Making, Working
<1>3. CASE CountMap(t)
  <2>1. Moves(t, "max_count", nMmaps + 1)
    BY <1>1, <1>3 DEF CountMap
  <2>2. HoldInv' /\ Local(t)
    <3> HIDE DEF Moves
    <3> QED BY <1>3, <2>1, Quietly DEF CountMap
  <2> QED BY <2>2
<1>4. CASE MaxCount(t)
  <2>1. Moves(t, "sum", 0)
    BY <1>1, <1>4 DEF MaxCount, Larger
  <2>2. HoldInv' /\ Local(t)
    <3> HIDE DEF Moves
    <3> QED BY <1>4, <2>1, Quietly DEF MaxCount
  <2> QED BY <2>2
<1>5. CASE SumMap(t)
  <2>1. Moves(t, "max_sum", mmappedMem + total[blk[t]])
    BY <1>1, <1>2, <1>5 DEF SumMap
  <2>2. HoldInv' /\ Local(t)
    <3> HIDE DEF Moves
    <3> QED BY <1>5, <2>1, Quietly DEF SumMap
  <2> QED BY <2>2
<1>6. CASE SlideMmap(t)
  <2>1. Moves(t, "slide_trim", val[t])
    BY <1>1, <1>6 DEF SlideMmap
  <2>2. HoldInv' /\ Local(t)
    <3> HIDE DEF Moves
    <3> QED BY <1>6, <2>1, Quietly DEF SlideMmap
  <2> QED BY <2>2
<1>7. CASE SlideTrim(t)
  <2>1. Moves(t, "uncount", val[t])
    BY <1>1, <1>7 DEF SlideTrim
  <2>2. HoldInv' /\ Local(t)
    <3> HIDE DEF Moves
    <3> QED BY <1>7, <2>1, Quietly DEF SlideTrim
  <2> QED BY <2>2
<1>8. CASE Uncount(t)
  <2>1. Moves(t, "unsum", val[t])
    BY <1>1, <1>8 DEF Uncount
  <2>2. HoldInv' /\ Local(t)
    <3> HIDE DEF Moves
    <3> QED BY <1>8, <2>1, Quietly DEF Uncount
  <2> QED BY <2>2
<1>9. CASE Unsum(t)
  <2>1. Moves(t, "unmap", val[t])
    BY <1>1, <1>2, <1>9 DEF Unsum
  <2>2. HoldInv' /\ Local(t)
    <3> HIDE DEF Moves
    <3> QED BY <1>9, <2>1, Quietly DEF Unsum
  <2> QED BY <2>2
<1>10. CASE SumRemap(t)
  <2>1. Moves(t, "max_sum", mmappedMem + val[t])
    BY <1>1, <1>10 DEF SumRemap
  <2>2. HoldInv' /\ Local(t)
    <3> HIDE DEF Moves
    <3> QED BY <1>10, <2>1, Quietly DEF SumRemap
  <2> QED BY <2>2
<1>11. CASE NoDyn(t)
  <2>1. Moves(t, "idle", val[t])
    BY <1>1, <1>11 DEF NoDyn
  <2>2. HoldInv' /\ Local(t)
    <3> HIDE DEF Moves
    <3> QED BY <1>11, <2>1, Quietly DEF NoDyn
  <2> QED BY <2>2
<1>12. CASE Compare(t)
  <2>1. PICK to \in {"measure", "uncount"} : Moves(t, to, val[t])
    BY <1>1, <1>12 DEF Compare
  <2>2. HoldInv' /\ Local(t)
    <3> HIDE DEF Moves
    <3> QED BY <1>12, <2>1, Quietly DEF Compare
  <2> QED BY <2>2
<1>15. CASE Measure(t)
  <2>1. PICK to \in {"slide_mmap", "uncount"} : Moves(t, to, val[t])
    BY <1>1, <1>15 DEF Measure
  <2>2. HoldInv' /\ Local(t)
    <3> HIDE DEF Moves
    <3> QED BY <1>15, <2>1, Quietly DEF Measure
  <2> QED BY <2>2
<1>13. CASE \E option \in Options : Mallopt(t, option)
  <2>1. Moves(t, "no_dyn", val[t]) /\ pc[t] = "idle"
    BY <1>1, <1>13 DEF Mallopt
  <2>2. HoldInv' /\ Local(t)
    <3> HIDE DEF Moves
    <3> QED BY <2>1, Quietly
  <2> QED BY <2>2
<1>14. CASE (MaxSum(t) /\ alignment[t] # 0)
  <2>1. Moves(t, "align", 0)
    BY <1>1, <1>14 DEF MaxSum
  <2>2. HoldInv' /\ Local(t)
    <3> HIDE DEF Moves
    <3> QED BY <1>14, <2>1, Quietly DEF MaxSum
  <2> QED BY <2>2
<1> QED BY <1>3, <1>4, <1>5, <1>6, <1>7, <1>8, <1>9, <1>10, <1>11, <1>12, <1>13, <1>14, <1>15

(* The mapping of a block, from the choice of its place to its alignment.   *)
LEMMA MallocStep ==
  ASSUME HoldInv, NEW t \in Threads, NEW nb \in Requests, NEW al \in Alignments, Malloc(t, nb, al)
  PROVE  HoldInv' /\ Local(t)
<1> DEFINE new == AlignUp(nb + Padding(al) + Hdr, Page)
<1>1. PICK p \in Blocks : /\ total[p] = 0 /\ \A u \in Threads : blk[u] # p
                          /\ blk' = [blk EXCEPT ![t] = p] /\ asked' = [asked EXCEPT ![p] = nb]
  BY DEF Malloc
<1>2. /\ pc[t] = "idle" /\ pc' = [pc EXCEPT ![t] = "map"] /\ val' = [val EXCEPT ![t] = new]
      /\ alignment' = [alignment EXCEPT ![t] = al]
      /\ UNCHANGED <<total, offset, live, nMmaps, mmappedMem, maxNMmaps>>
  BY DEF Malloc, Goto, Keep, counts, peaks
<1>3. new \in Nat /\ new >= nb + Padding(al) + Hdr /\ new % Page = 0
  <2>1. nb + Padding(al) + Hdr \in Nat
    BY Constants
  <2> QED BY <2>1, Constants, Pages
<1> HIDE DEF new
<1>4. p \notin live /\ p # NoBlock /\ nb \in Nat /\ Padding(al) \in Nat /\ Hdr \in Nat \ {0}
  BY <1>1, Constants DEF HoldInv, BlockInv
<1>5. TypeInv'
  BY <1>1, <1>2, <1>3, <1>4 DEF HoldInv, TypeInv, WithBlock, Making
<1>6. Local(t)
  BY <1>1, <1>2 DEF HoldInv, TypeInv, OwnInv, Local
<1>7. OwnInv(t)'
  <2>1. /\ pc'[t] = "map" /\ blk'[t] = p /\ val'[t] = new /\ alignment'[t] = al /\ asked'[p] = nb
    BY <1>1, <1>2 DEF HoldInv, TypeInv
  <2>2. new > 0 /\ nb + Padding(al) + Hdr <= new
    BY <1>3, <1>4
  <2> QED BY <1>1, <1>2, <1>3, <1>4, <2>1, <2>2 DEF OwnInv, WithBlock, Making, Padding
<1>8. \A q \in Blocks : BlockInv(q)'
  <2> SUFFICES ASSUME NEW q \in Blocks PROVE BlockInv(q)'
    OBVIOUS
  <2>1. BlockInv(q) /\ (q # p => asked'[q] = asked[q])
    BY <1>1 DEF HoldInv, TypeInv
  <2> QED BY <1>1, <1>2, <2>1 DEF BlockInv, MayUnmap, ChunkSize
<1> QED BY <1>5, <1>6, <1>7, <1>8, LocalStep

(* mmap has given the pages: they belong to the block of the call.          *)
LEMMA MapStep ==
  ASSUME HoldInv, NEW t \in Threads, Map(t)
  PROVE  HoldInv' /\ Local(t)
<1> DEFINE b == blk[t]
<1>1. /\ pc[t] = "map" /\ pc' = [pc EXCEPT ![t] = "count"] /\ total' = [total EXCEPT ![b] = val[t]]
      /\ UNCHANGED <<blk, val, alignment, offset, asked, live, nMmaps, mmappedMem, maxNMmaps>>
  BY DEF Map, Goto, counts, peaks
<1>2. /\ b \in Blocks /\ b # NoBlock /\ b \notin live /\ \A u \in Threads \ {t} : blk[u] # b
      /\ asked[b] \in Nat
  BY <1>1, OwnBlock DEF WithBlock, Making
<1>3. /\ total[b] = 0 /\ offset[b] = 0 /\ val[t] \in Nat /\ val[t] > 0 /\ val[t] % Page = 0
      /\ asked[b] + Padding(alignment[t]) + Hdr <= val[t]
  BY <1>1, <1>2 DEF HoldInv, TypeInv, OwnInv, BlockInv
<1>4. Hdr \in Nat \ {0} /\ Padding(alignment[t]) \in Nat /\ Hdr % Page \in PowersOfTwo
  BY Constants, AlignmentAssumption DEF HoldInv, TypeInv
<1> HIDE DEF b
<1>5. TypeInv'
  BY <1>1, <1>2, <1>3 DEF HoldInv, TypeInv, WithBlock, Making
<1>6. Local(t)
  BY <1>1, <1>2 DEF HoldInv, TypeInv, OwnInv, Apart, Local, b
<1>7. OwnInv(t)'
  <2>1. pc'[t] = "count" /\ total'[b] = val[t] /\ OwnInv(t) /\ blk[t] = b
    BY <1>1, <1>2 DEF HoldInv, TypeInv, b
  <2> QED BY <1>1, <1>2, <1>3, <2>1 DEF OwnInv, WithBlock, Making, Working, Padding
<1>8. \A q \in Blocks : BlockInv(q)'
  <2> SUFFICES ASSUME NEW q \in Blocks PROVE BlockInv(q)'
    OBVIOUS
  <2>1. CASE q = b
    <3>1. total'[q] = val[t] /\ offset'[q] = 0 /\ asked'[q] = asked[b]
      BY <1>1, <1>2, <1>3, <2>1 DEF HoldInv, TypeInv
    <3>2. asked[b] <= val[t] - 0 - Hdr /\ 0 + Hdr = Hdr
      BY <1>2, <1>3, <1>4
    <3> QED BY <1>3, <1>4, <3>1, <3>2 DEF BlockInv, MayUnmap, ChunkSize
  <2>2. CASE q # b
    <3>1. BlockInv(q) /\ total'[q] = total[q]
      BY <1>1, <2>2 DEF HoldInv, TypeInv
    <3> QED BY <1>1, <3>1 DEF BlockInv, MayUnmap, ChunkSize
  <2> QED BY <2>1, <2>2
<1> QED BY <1>5, <1>6, <1>7, <1>8, LocalStep

(* mmap has failed: the call ends without a block.                          *)
LEMMA MapFailsStep ==
  ASSUME HoldInv, NEW t \in Threads, MapFails(t)
  PROVE  HoldInv' /\ Local(t)
<1> DEFINE b == blk[t]
<1>1. /\ pc[t] = "map" /\ pc' = [pc EXCEPT ![t] = "idle"] /\ asked' = [asked EXCEPT ![b] = 0]
      /\ val' = [val EXCEPT ![t] = 0] /\ blk' = [blk EXCEPT ![t] = NoBlock]
      /\ alignment' = [alignment EXCEPT ![t] = 0]
      /\ UNCHANGED <<total, offset, live, nMmaps, mmappedMem, maxNMmaps>>
  BY DEF MapFails, Goto, Keep, Leave, counts, peaks
<1>2. b \in Blocks /\ b \notin live /\ \A u \in Threads \ {t} : blk[u] # b
  BY <1>1, OwnBlock DEF WithBlock, Making
<1>3. total[b] = 0
  BY <1>1 DEF HoldInv, OwnInv
<1> HIDE DEF b
<1>4. TypeInv'
  BY <1>1, <1>2 DEF HoldInv, TypeInv
<1>5. Local(t)
  BY <1>1, <1>2 DEF HoldInv, TypeInv, OwnInv, Apart, Local
<1>6. OwnInv(t)'
  <2>1. pc'[t] = "idle" /\ blk'[t] = NoBlock /\ alignment'[t] = 0 /\ NoBlock \notin live
    BY <1>1, Constants DEF HoldInv, TypeInv
  <2> QED BY <1>1, <2>1 DEF OwnInv, WithBlock, Making, Working
<1>7. \A q \in Blocks : BlockInv(q)'
  <2> SUFFICES ASSUME NEW q \in Blocks PROVE BlockInv(q)'
    OBVIOUS
  <2>1. BlockInv(q) /\ (q # b => asked'[q] = asked[q])
    BY <1>1 DEF HoldInv, TypeInv
  <2> QED BY <1>1, <1>3, <2>1 DEF BlockInv, MayUnmap, ChunkSize
<1> QED BY <1>4, <1>5, <1>6, <1>7, LocalStep

(* The call returns the block.                                              *)
LEMMA DoneStep ==
  ASSUME HoldInv, NEW t \in Threads, MaxSum(t), alignment[t] = 0
  PROVE  HoldInv' /\ Local(t)
<1> DEFINE b == blk[t]
<1>1. /\ pc[t] = "max_sum" /\ pc' = [pc EXCEPT ![t] = "idle"] /\ live' = live \cup {b}
      /\ val' = [val EXCEPT ![t] = 0] /\ blk' = [blk EXCEPT ![t] = NoBlock]
      /\ UNCHANGED <<alignment, total, offset, asked, nMmaps, mmappedMem, maxNMmaps>>
  BY DEF MaxSum, Keep, Leave, counts
<1>2. b \in Blocks /\ b # NoBlock /\ \A u \in Threads \ {t} : blk[u] # b
  BY <1>1, OwnBlock DEF WithBlock, Making
<1>3. total[b] # 0
  BY <1>1 DEF HoldInv, OwnInv, WithBlock, Making
<1> HIDE DEF b
<1>4. TypeInv'
  BY <1>1, <1>2 DEF HoldInv, TypeInv
<1>5. Local(t)
  BY <1>1, <1>2 DEF HoldInv, TypeInv, OwnInv, Apart, Local
<1>6. OwnInv(t)'
  <2>1. pc'[t] = "idle" /\ blk'[t] = NoBlock /\ alignment'[t] = 0 /\ NoBlock \notin live'
    BY <1>1, <1>2, Constants DEF HoldInv, TypeInv
  <2> QED BY <2>1 DEF OwnInv, WithBlock, Making, Working
<1>7. \A q \in Blocks : BlockInv(q)'
  BY <1>1, <1>3 DEF HoldInv, BlockInv, MayUnmap, ChunkSize
<1> QED BY <1>4, <1>5, <1>6, <1>7, LocalStep

(* memalign moves the chunk's start to the alignment; the call ends.        *)
LEMMA AlignStep ==
  ASSUME HoldInv, NEW t \in Threads, AlignBlock(t)
  PROVE  HoldInv' /\ Local(t)
<1> DEFINE b == blk[t]
           al == alignment[t]
<1>1. /\ pc[t] = "align" /\ pc' = [pc EXCEPT ![t] = "idle"] /\ live' = live \cup {b}
      /\ blk' = [blk EXCEPT ![t] = NoBlock] /\ alignment' = [alignment EXCEPT ![t] = 0]
      /\ UNCHANGED <<val, total, asked, nMmaps, mmappedMem, maxNMmaps>>
  BY DEF AlignBlock, Goto, Leave, counts, peaks
<1>2. b \in Blocks /\ b # NoBlock /\ (\A u \in Threads \ {t} : blk[u] # b) /\ total[b] \in Nat /\ asked[b] \in Nat
  BY <1>1, OwnBlock DEF WithBlock, Making
<1>3. al \in Alignments \ {0} /\ total[b] # 0 /\ asked[b] + Padding(al) + Hdr <= total[b]
  BY <1>1 DEF HoldInv, TypeInv, OwnInv, WithBlock, Making
<1>4. PICK o : /\ offset' = [offset EXCEPT ![b] = o]
               /\ o \in Nat /\ o < al /\ (o + Hdr) % Page \in PowersOfTwo
  <2>1. PICK k \in 0 .. al \div Page :
          offset' = [offset EXCEPT ![b] = AlignUp(Page * k + Hdr, al) - Hdr - Page * k]
    BY DEF AlignBlock
  <2>2. k \in Nat
    OBVIOUS
  <2> HIDE DEF b, al
  <2> QED BY <1>3, <2>1, <2>2, AlignedOffset
<1>5. /\ Hdr \in Nat \ {0} /\ al \in Nat /\ Padding(al) \in Nat /\ Padding(al) >= al
  BY <1>3, Constants
<1> HIDE DEF b, al
<1>6. TypeInv'
  BY <1>1, <1>2, <1>4 DEF HoldInv, TypeInv
<1>7. Local(t)
  BY <1>1, <1>2, <1>4 DEF HoldInv, TypeInv, OwnInv, Apart, Local
<1>8. OwnInv(t)'
  <2>1. pc'[t] = "idle" /\ blk'[t] = NoBlock /\ alignment'[t] = 0 /\ NoBlock \notin live'
    BY <1>1, <1>2, Constants DEF HoldInv, TypeInv
  <2> QED BY <2>1 DEF OwnInv, WithBlock, Making, Working
<1>9. \A q \in Blocks : BlockInv(q)'
  <2> SUFFICES ASSUME NEW q \in Blocks PROVE BlockInv(q)'
    OBVIOUS
  <2>1. CASE q = b
    <3>1. BlockInv(b) /\ total'[q] = total[b] /\ offset'[q] = o /\ asked'[q] = asked[b]
      BY <1>1, <1>2, <1>4, <2>1 DEF HoldInv, TypeInv
    <3>2. asked[b] <= total[b] - o - Hdr
      BY <1>2, <1>3, <1>4, <1>5
    <3> QED BY <1>3, <1>4, <3>1, <3>2 DEF BlockInv, MayUnmap, ChunkSize
  <2>2. CASE q # b
    <3>1. BlockInv(q) /\ offset'[q] = offset[q]
      BY <1>4, <2>2 DEF HoldInv, TypeInv
    <3> QED BY <1>1, <2>2, <3>1 DEF BlockInv, MayUnmap, ChunkSize
  <2> QED BY <2>1, <2>2
<1> QED BY <1>6, <1>7, <1>8, <1>9, LocalStep

(* A block the program owns is mapped, and no call works on it.             *)
LEMMA LiveBlock ==
  ASSUME HoldInv, NEW p \in live
  PROVE  /\ p \in Blocks /\ p # NoBlock /\ total[p] \in Nat \ {0} /\ offset[p] \in Nat
         /\ MayUnmap(p) /\ asked[p] <= ChunkSize(p)
         /\ \A u \in Threads : blk[u] # p
BY Constants DEF HoldInv, TypeInv, BlockInv, OwnInv

(* A block given back: taken from the program, and at last unmapped.        *)
LEMMA TakeStep ==
  ASSUME HoldInv, NEW t \in Threads, Free(t) \/ Replace(t)
  PROVE  HoldInv' /\ Local(t)
<1>1. PICK p \in live, to \in {"compare", "uncount"} :
        /\ pc[t] = "idle" /\ pc' = [pc EXCEPT ![t] = to] /\ live' = live \ {p}
        /\ blk' = [blk EXCEPT ![t] = p]
        /\ UNCHANGED <<val, alignment, total, offset, asked, nMmaps, mmappedMem, maxNMmaps>>
  BY DEF Free, Replace, Goto, Take, counts, peaks
<1>2. p \in Blocks /\ p # NoBlock /\ total[p] # 0 /\ \A u \in Threads : blk[u] # p
  BY LiveBlock
<1>3. TypeInv'
  BY <1>1, <1>2 DEF HoldInv, TypeInv, WithBlock, Working
<1>4. Local(t)
  BY <1>1, <1>2 DEF HoldInv, TypeInv, OwnInv, Apart, Local
<1>5. OwnInv(t)'
  <2>1. /\ pc'[t] = to /\ blk'[t] = p /\ alignment'[t] = alignment[t] /\ p \notin live'
        /\ alignment[t] = 0
    BY <1>1, <1>2 DEF HoldInv, TypeInv, OwnInv, Making
  <2> QED BY <1>1, <1>2, <2>1 DEF OwnInv, WithBlock, Making, Working
<1>6. \A q \in Blocks : BlockInv(q)'
  BY <1>1 DEF HoldInv, BlockInv, MayUnmap, ChunkSize
<1> QED BY <1>3, <1>4, <1>5, <1>6, LocalStep

(* munmap has taken the pages back; the call ends.                          *)
LEMMA UnmapStep ==
  ASSUME HoldInv, NEW t \in Threads, Unmap(t)
  PROVE  HoldInv' /\ Local(t)
<1> DEFINE b == blk[t]
<1>1. /\ pc[t] = "unmap" /\ pc' = [pc EXCEPT ![t] = "idle"] /\ blk' = [blk EXCEPT ![t] = NoBlock]
      /\ total' = [total EXCEPT ![b] = 0] /\ offset' = [offset EXCEPT ![b] = 0]
      /\ asked' = [asked EXCEPT ![b] = 0]
      /\ UNCHANGED <<val, alignment, live, nMmaps, mmappedMem, maxNMmaps>>
  BY DEF Unmap, Goto, Leave, counts, peaks
<1>2. b \in Blocks /\ b \notin live /\ \A u \in Threads \ {t} : blk[u] # b
  BY <1>1, OwnBlock DEF WithBlock, Working
<1> HIDE DEF b
<1>3. TypeInv'
  BY <1>1, <1>2 DEF HoldInv, TypeInv
<1>4. Local(t)
  BY <1>1, <1>2 DEF HoldInv, TypeInv, OwnInv, Apart, Local
<1>5. OwnInv(t)'
  <2>1. /\ pc'[t] = "idle" /\ blk'[t] = NoBlock /\ alignment'[t] = 0 /\ NoBlock \notin live'
    BY <1>1, Constants DEF HoldInv, TypeInv, OwnInv, Making
  <2> QED BY <2>1 DEF OwnInv, WithBlock, Making, Working
<1>6. \A q \in Blocks : BlockInv(q)'
  <2> SUFFICES ASSUME NEW q \in Blocks PROVE BlockInv(q)'
    OBVIOUS
  <2>1. CASE q = b
    BY <1>1, <1>2, <2>1 DEF HoldInv, TypeInv, BlockInv
  <2>2. CASE q # b
    <3>1. BlockInv(q) /\ total'[q] = total[q] /\ offset'[q] = offset[q] /\ asked'[q] = asked[q]
      BY <1>1, <2>2 DEF HoldInv, TypeInv
    <3> QED BY <1>1, <3>1 DEF BlockInv, MayUnmap, ChunkSize
  <2> QED BY <2>1, <2>2
<1> QED BY <1>3, <1>4, <1>5, <1>6, LocalStep

(* realloc of a block, in the pages it has or in others.                    *)
LEMMA NewSize ==
  ASSUME HoldInv, NEW p \in live, NEW nb \in Requests
  PROVE  /\ RemapSize(p, nb) \in Nat \ {0} /\ RemapSize(p, nb) % Page = 0
         /\ nb \in Nat /\ nb <= RemapSize(p, nb) - offset[p] - Hdr
<1>1. nb + offset[p] + Hdr \in Nat \ {0} /\ nb \in Nat /\ offset[p] \in Nat /\ Hdr \in Nat
  BY LiveBlock, Constants
<1> DEFINE new == RemapSize(p, nb)
<1>2. new \in Nat /\ new >= nb + offset[p] + Hdr /\ new % Page = 0
  BY <1>1, Constants, Pages DEF RemapSize
<1> HIDE DEF new
<1>3. new \in Nat \ {0} /\ nb <= new - offset[p] - Hdr
  BY <1>1, <1>2
<1> QED BY <1>1, <1>2, <1>3 DEF new

(* realloc finds that the pages it has are enough.                          *)
LEMMA ReallocSameStep ==
  ASSUME HoldInv, NEW t \in Threads, NEW nb \in Requests, ReallocSame(t, nb)
  PROVE  HoldInv' /\ Local(t)
<1>1. PICK p \in live : /\ RemapSize(p, nb) = total[p] \/ nb <= ChunkSize(p)
                        /\ asked' = [asked EXCEPT ![p] = nb]
  BY DEF ReallocSame, Serves
<1>2. UNCHANGED <<pc, blk, val, alignment, total, offset, live, nMmaps, mmappedMem, maxNMmaps>>
  BY DEF ReallocSame, counts, peaks
<1>3. p \in Blocks /\ nb \in Nat /\ \A u \in Threads : blk[u] # p
  BY LiveBlock, NewSize
<1>4. nb <= ChunkSize(p)
  BY <1>1, NewSize DEF ChunkSize
<1>5. TypeInv'
  BY <1>1, <1>2, <1>3 DEF HoldInv, TypeInv
<1>6. Local(t)
  BY <1>1, <1>2, <1>3 DEF HoldInv, TypeInv, OwnInv, Apart, Local
<1>7. OwnInv(t)'
  <2>1. OwnInv(t) /\ (blk[t] # NoBlock => asked'[blk[t]] = asked[blk[t]])
    BY <1>1, <1>3 DEF HoldInv, TypeInv
  <2> QED BY <1>2, <2>1 DEF OwnInv, WithBlock, Making, Padding
<1>8. \A q \in Blocks : BlockInv(q)'
  <2> SUFFICES ASSUME NEW q \in Blocks PROVE BlockInv(q)'
    OBVIOUS
  <2>1. BlockInv(q) /\ asked'[q] = IF q = p THEN nb ELSE asked[q]
    BY <1>1, <1>3 DEF HoldInv, TypeInv
  <2> QED BY <1>2, <1>4, <2>1 DEF BlockInv, MayUnmap, ChunkSize
<1> QED BY <1>5, <1>6, <1>7, <1>8, LocalStep

(* mremap gives the block other pages, the offset staying what it was.      *)
LEMMA RemapStep ==
  ASSUME HoldInv, NEW t \in Threads, NEW nb \in Requests, Remap(t, nb)
  PROVE  HoldInv' /\ Local(t)
<1>1. PICK p \in live : /\ total' = [total EXCEPT ![p] = RemapSize(p, nb)]
                        /\ val' = [val EXCEPT ![t] = RemapSize(p, nb) - ChunkSize(p) - offset[p]]
                        /\ live' = live \ {p} /\ blk' = [blk EXCEPT ![t] = p]
                        /\ asked' = [asked EXCEPT ![p] = nb]
  BY DEF Remap, Keep, Take, Serves
<1> DEFINE new == RemapSize(p, nb)
           add == new - ChunkSize(p) - offset[p]
<1>2. /\ pc[t] = "idle" /\ pc' = [pc EXCEPT ![t] = "remapped"]
      /\ UNCHANGED <<alignment, offset, nMmaps, mmappedMem, maxNMmaps>>
  BY DEF Remap, Goto, counts, peaks
<1>3. /\ p \in Blocks /\ p # NoBlock /\ (\A u \in Threads : blk[u] # p)
      /\ total[p] \in Nat \ {0} /\ offset[p] \in Nat /\ MayUnmap(p)
  BY LiveBlock
<1>4. /\ new \in Nat \ {0} /\ new % Page = 0 /\ nb \in Nat /\ nb <= new - offset[p] - Hdr
  BY NewSize
<1> HIDE DEF new
<1>5. add \in Int /\ add <= new + Hdr
  BY <1>3, <1>4, Constants DEF ChunkSize
<1>6. /\ total' = [total EXCEPT ![p] = new] /\ val' = [val EXCEPT ![t] = add]
  BY <1>1 DEF new
<1> HIDE DEF add
<1>7. TypeInv'
  BY <1>1, <1>2, <1>3, <1>4, <1>5, <1>6 DEF HoldInv, TypeInv, WithBlock, Working
<1>8. Local(t)
  BY <1>1, <1>2, <1>3, <1>6 DEF HoldInv, TypeInv, OwnInv, Apart, Local
<1>9. OwnInv(t)'
  <2>1. /\ pc'[t] = "remapped" /\ blk'[t] = p /\ alignment'[t] = 0 /\ p \notin live'
        /\ total'[p] = new /\ val'[t] = add
    BY <1>1, <1>2, <1>3, <1>6 DEF HoldInv, TypeInv, OwnInv, Making
  <2> QED BY <1>3, <1>4, <1>5, <2>1 DEF OwnInv, WithBlock, Making, Working
<1>10. \A q \in Blocks : BlockInv(q)'
  <2> SUFFICES ASSUME NEW q \in Blocks PROVE BlockInv(q)'
    OBVIOUS
  <2>1. CASE q = p
    <3>1. total'[p] = new /\ asked'[p] = nb
      BY <1>1, <1>3, <1>6 DEF HoldInv, TypeInv
    <3> QED BY <1>2, <1>3, <1>4, <2>1, <3>1 DEF BlockInv, MayUnmap, ChunkSize
  <2>2. CASE q # p
    <3>1. BlockInv(q) /\ total'[q] = total[q] /\ asked'[q] = asked[q]
      BY <1>1, <1>6, <2>2 DEF HoldInv, TypeInv
    <3> QED BY <1>1, <1>2, <2>2, <3>1 DEF BlockInv, MayUnmap, ChunkSize
  <2> QED BY <2>1, <2>2
<1> QED BY <1>7, <1>8, <1>9, <1>10, LocalStep

(* Nothing is mapped at first.                                              *)
LEMMA InitHold == Init => HoldInv
<1> SUFFICES ASSUME Init PROVE HoldInv
  OBVIOUS
<1>1. TypeInv
  BY DEF Init, TypeInv
<1>2. ASSUME NEW t \in Threads PROVE OwnInv(t)
  <2>1. pc[t] = "idle" /\ blk[t] = NoBlock /\ alignment[t] = 0 /\ NoBlock \notin live
    BY DEF Init
  <2> QED BY <2>1 DEF OwnInv, WithBlock, Making, Working
<1>3. Apart /\ \A p \in Blocks : BlockInv(p)
  BY DEF Init, Apart, BlockInv
<1> QED BY <1>1, <1>2, <1>3 DEF HoldInv

(* HoldInv is inductive.                                                    *)
LEMMA StepHold == HoldInv /\ [Next]_vars => HoldInv'
<1> SUFFICES ASSUME HoldInv, [Next]_vars PROVE HoldInv'
  OBVIOUS
<1>1. CASE UNCHANGED vars
  <2>1. UNCHANGED <<pc, blk, val, alignment, total, offset, asked, live,
                    nMmaps, mmappedMem, maxNMmaps>>
    BY <1>1 DEF vars, blocks, counts, peaks
  <2> QED BY <2>1 DEF HoldInv, TypeInv, OwnInv, Apart, BlockInv, MayUnmap, ChunkSize, Padding
<1>2. CASE Next
  <2>1. PICK t \in Threads :
          \/ \E nb \in Requests : \/ \E al \in Alignments : Malloc(t, nb, al)
                                  \/ Remap(t, nb) \/ ReallocSame(t, nb)
          \/ Map(t) \/ MapFails(t) \/ CountMap(t) \/ MaxCount(t) \/ SumMap(t) \/ MaxSum(t)
          \/ AlignBlock(t)
          \/ Free(t) \/ Compare(t) \/ Measure(t) \/ SlideMmap(t) \/ SlideTrim(t)
          \/ Uncount(t) \/ Unsum(t) \/ Unmap(t)
          \/ SumRemap(t) \/ Replace(t)
          \/ (\E option \in Options : Mallopt(t, option)) \/ NoDyn(t)
    BY <1>2 DEF Next
  <2> QED BY <2>1, MallocStep, MapStep, MapFailsStep, DoneStep, AlignStep, TakeStep, UnmapStep,
             ReallocSameStep, RemapStep, QuietSteps
<1> QED BY <1>1, <1>2

(* Every mapped block is held by at most one call or by the program, and is *)
(* sized, aligned and padded for what it was asked for.                     *)
THEOREM AlwaysHold == Spec => []HoldInv
BY InitHold, StepHold, PTL DEF Spec

(* Whatever memalign, realloc and mremap did to it, in any interleaving     *)
(* with the other threads' calls, a block the program owns holds what it    *)
(* asked for, is whole pages and is placed so that munmap_chunk and         *)
(* mremap_chunk do not abort.                                               *)
THEOREM AlwaysBlocksHold == Spec => []BlocksHold
<1>1. HoldInv => BlocksHold
  BY LiveBlock DEF BlocksHold
<1> QED BY <1>1, AlwaysHold, PTL

----------------------------------------------------------------------------
(* The counters. What a thread's step says of its block, and what is so of  *)
(* a block no call works on.                                                *)
Counted == Mapped \ InCall({"count", "unsum", "unmap"})

OwnCounted(t) == total[blk[t]] # 0 /\ pc[t] \notin {"count", "unsum", "unmap"}
OwnWeight(t) ==
  IF total[blk[t]] = 0 \/ pc[t] \in {"count", "max_count", "sum", "unmap"} THEN 0
  ELSE IF pc[t] = "remapped" THEN total[blk[t]] + Hdr - val[t] ELSE total[blk[t]]

OwnFacts ==
  \A t \in Threads : pc[t] \in WithBlock =>
    (blk[t] \in Counted <=> OwnCounted(t)) /\ Weight(blk[t]) = OwnWeight(t)
FreeFacts ==
  \A p \in Blocks : (\A t \in Threads : blk[t] # p) =>
    (p \in Counted <=> total[p] # 0) /\ Weight(p) = total[p]
WeightFacts == \A p \in Blocks : Weight(p) \in Nat

(* Whether, and with how many bytes, a block counts is what the phase of    *)
(* the call that holds it says; a block in no call counts when it is        *)
(* mapped.                                                                  *)
LEMMA BlockFacts == HoldInv => OwnFacts /\ FreeFacts /\ WeightFacts
<1> SUFFICES ASSUME HoldInv PROVE OwnFacts /\ FreeFacts /\ WeightFacts
  OBVIOUS
<1>1. ASSUME NEW t \in Threads, pc[t] \in WithBlock, NEW S
      PROVE  blk[t] \in InCall(S) <=> pc[t] \in S
  BY <1>1, OwnBlock DEF InCall
<1>2. ASSUME NEW t \in Threads, pc[t] \in WithBlock
      PROVE  (blk[t] \in Counted <=> OwnCounted(t)) /\ Weight(blk[t]) = OwnWeight(t)
  <2>1. blk[t] \in Blocks /\ \A u \in Threads : blk[u] = blk[t] <=> u = t
    BY <1>2, OwnBlock
  <2>2. (CHOOSE u \in Threads : blk[u] = blk[t]) = t
    BY <2>1
  <2>3. Weight(blk[t]) = OwnWeight(t)
    BY <1>1, <1>2, <2>2 DEF Weight, OwnWeight
  <2>4. blk[t] \in Counted <=> OwnCounted(t)
    BY <1>1, <1>2, <2>1 DEF Counted, Mapped, OwnCounted
  <2> QED BY <2>3, <2>4
<1>3. ASSUME NEW p \in Blocks, \A t \in Threads : blk[t] # p
      PROVE  (p \in Counted <=> total[p] # 0) /\ Weight(p) = total[p]
  <2>1. \A S : p \notin InCall(S)
    BY <1>3 DEF InCall
  <2> QED BY <2>1 DEF Counted, Mapped, Weight
<1>4. ASSUME NEW p \in Blocks PROVE Weight(p) \in Nat
  <2>1. CASE \A t \in Threads : blk[t] # p
    BY <1>3, <2>1 DEF HoldInv, TypeInv
  <2>2. CASE \E t \in Threads : blk[t] = p
    <3>1. PICK t \in Threads : blk[t] = p
      BY <2>2
    <3>2. pc[t] \in WithBlock
      BY <3>1, Constants DEF HoldInv, OwnInv
    <3>3. total[p] \in Nat /\ val[t] \in Int /\ Hdr \in Nat /\ (pc[t] = "remapped" => val[t] <= total[p] + Hdr)
      BY <3>1, Constants DEF HoldInv, TypeInv, OwnInv
    <3>4. OwnWeight(t) \in Nat
      BY <3>1, <3>3 DEF OwnWeight
    <3> QED BY <1>2, <3>1, <3>2, <3>4
  <2> QED BY <2>1, <2>2
<1> QED BY <1>2, <1>3, <1>4 DEF OwnFacts, FreeFacts, WeightFacts

(* The same of the next state.                                              *)
LEMMA BlockFactsNext == HoldInv' => OwnFacts' /\ FreeFacts' /\ WeightFacts'
BY BlockFacts, PTL

(* A step concerns at most one block, e: that of the thread before or after *)
(* it.                                                                      *)
Concerns(t, e) ==
  /\ Local(t) /\ blk[t] \in {e, NoBlock} /\ blk'[t] \in {e, NoBlock}
  /\ \A p \in Blocks \ {e} : total'[p] = total[p]

(* What another block counts for does not change.                           *)
LEMMA OtherBlocks ==
  ASSUME HoldInv, HoldInv', NEW t \in Threads, NEW e, Concerns(t, e), NEW p \in Blocks \ {e}
  PROVE  (p \in Counted' <=> p \in Counted) /\ Weight(p)' = Weight(p)
<1> USE BlockFacts, BlockFactsNext
<1>1. p # NoBlock /\ total'[p] = total[p] /\ blk[t] # p /\ blk'[t] # p
  BY Constants DEF Concerns
<1>2. CASE \A u \in Threads : blk[u] # p
  <2>1. \A u \in Threads : blk'[u] # p
    BY <1>1, <1>2 DEF Concerns, Local
  <2>2. (p \in Counted <=> total[p] # 0) /\ Weight(p) = total[p]
    BY <1>2 DEF FreeFacts
  <2>3. (p \in Counted' <=> total'[p] # 0) /\ Weight(p)' = total'[p]
    BY <2>1 DEF FreeFacts
  <2> QED BY <1>1, <2>2, <2>3
<1>3. CASE \E u \in Threads : blk[u] = p
  <2>1. PICK u \in Threads : blk[u] = p
    BY <1>3
  <2>2. /\ pc[u] \in WithBlock /\ pc'[u] = pc[u] /\ blk'[u] = p /\ val'[u] = val[u]
    BY <1>1, <2>1 DEF HoldInv, OwnInv, Concerns, Local
  <2>3. (p \in Counted <=> OwnCounted(u)) /\ Weight(p) = OwnWeight(u)
    BY <2>1, <2>2 DEF OwnFacts
  <2>4. (p \in Counted' <=> OwnCounted(u)') /\ Weight(p)' = OwnWeight(u)'
    BY <2>2 DEF OwnFacts
  <2>5. OwnCounted(u)' = OwnCounted(u) /\ OwnWeight(u)' = OwnWeight(u)
    BY <1>1, <2>1, <2>2 DEF OwnCounted, OwnWeight
  <2> QED BY <2>3, <2>4, <2>5
<1> QED BY <1>2, <1>3

Num(b) == IF b THEN 1 ELSE 0

(* Only finitely many blocks are counted.                                   *)
LEMMA CountedFinite == IsFiniteSet(Counted) /\ Cardinality(Counted) \in Nat
BY Constants, FS_Subset, FS_CardinalityType DEF Counted, Mapped

(* The same of the next state.                                              *)
LEMMA CountedFiniteNext == IsFiniteSet(Counted') /\ Cardinality(Counted') \in Nat
BY Constants, FS_Subset, FS_CardinalityType DEF Counted, Mapped

(* A step that counts its block when it comes to be counted, and so on.     *)
LEMMA CountStep ==
  ASSUME HoldInv, HoldInv', CountExact, SumCovers,
         NEW t \in Threads, NEW e \in Blocks, Concerns(t, e),
         nMmaps' = nMmaps + Num(e \in Counted') - Num(e \in Counted),
         mmappedMem' >= mmappedMem + Weight(e)' - Weight(e)
  PROVE  CountExact' /\ SumCovers'
<1>1. Counted' \ {e} = Counted \ {e}
  BY OtherBlocks DEF Counted, Mapped
<1>2. nMmaps = Cardinality(Counted)
  BY DEF CountExact, Counted
<1>3. nMmaps' = Cardinality(Counted')
  <2>1. CASE e \in Counted' /\ e \in Counted
    <3>1. Counted' = Counted
      BY <1>1, <2>1
    <3> QED BY <1>2, <2>1, <3>1 DEF HoldInv, TypeInv, Num
  <2>2. CASE e \notin Counted' /\ e \notin Counted
    <3>1. Counted' = Counted
      BY <1>1, <2>2
    <3> QED BY <1>2, <2>2, <3>1 DEF HoldInv, TypeInv, Num
  <2>3. CASE e \in Counted' /\ e \notin Counted
    <3>1. Counted' = Counted \cup {e}
      BY <1>1, <2>3
    <3>2. Cardinality(Counted \cup {e}) = Cardinality(Counted) + 1
      BY <2>3, CountedFinite, FS_AddElement
    <3> QED BY <1>2, <2>3, <3>1, <3>2 DEF HoldInv, TypeInv, Num
  <2>4. CASE e \notin Counted' /\ e \in Counted
    <3>1. Counted = Counted' \cup {e}
      BY <1>1, <2>4
    <3>2. Cardinality(Counted' \cup {e}) = Cardinality(Counted') + 1
      BY <2>4, CountedFiniteNext, FS_AddElement
    <3> QED BY <1>2, <2>4, <3>1, <3>2, CountedFiniteNext DEF HoldInv, TypeInv, Num
  <2> QED BY <2>1, <2>2, <2>3, <2>4
<1>4. CountExact'
  BY <1>3 DEF CountExact, Counted
<1>5. PICK w \in [Blocks -> Nat] : w = Weights /\ mmappedMem >= Sum(w, Blocks)
  BY DEF SumCovers
<1>6. PICK z \in [Blocks -> Nat] : z = Weights'
  BY BlockFactsNext DEF Weights, WeightFacts
<1>7. Sum(z, Blocks) = Sum(w, Blocks) + z[e] - w[e]
  <2>1. \A x \in Blocks \ {e} : z[x] = w[x]
    BY <1>5, <1>6, OtherBlocks DEF Weights
  <2>2. \A x \in Blocks : w[x] \in Int /\ z[x] \in Int
    OBVIOUS
  <2> QED BY <2>1, <2>2, Constants, SumChange
<1>8. w[e] = Weight(e) /\ z[e] = Weight(e)'
  BY <1>5, <1>6 DEF Weights
<1>9. Sum(w, Blocks) \in Int
  <2>1. \A x \in Blocks : w[x] \in Int
    OBVIOUS
  <2> QED BY <2>1, Constants, SumType
<1>10. mmappedMem' >= Sum(z, Blocks)
  <2>1. w[e] \in Nat /\ z[e] \in Nat /\ mmappedMem \in Int /\ mmappedMem' \in Int
    BY DEF HoldInv, TypeInv
  <2> QED BY <1>5, <1>7, <1>8, <1>9, <2>1
<1>11. SumCovers'
  BY <1>6, <1>10 DEF SumCovers
<1> QED BY <1>4, <1>11

(* A step outside a call that moves no block and no counter.                *)
LEMMA IdleStep ==
  ASSUME HoldInv, HoldInv', CountExact, SumCovers, NEW t \in Threads, Concerns(t, NoBlock),
         UNCHANGED <<nMmaps, mmappedMem>>
  PROVE  CountExact' /\ SumCovers'
<1>1. \A p \in Blocks : (p \in Counted' <=> p \in Counted) /\ Weight(p)' = Weight(p)
  BY Constants, OtherBlocks
<1>2. Counted' = Counted
  BY <1>1 DEF Counted, Mapped
<1>3. Weights' = Weights
  BY <1>1 DEF Weights
<1>4. CountExact'
  BY <1>2 DEF CountExact, Counted
<1> QED BY <1>3, <1>4 DEF SumCovers

(* The three ways a step meets its block: in the middle of a call, at its   *)
(* end, at its beginning.                                                   *)
LEMMA StaysInCall ==
  ASSUME HoldInv, HoldInv', CountExact, SumCovers, NEW t \in Threads, Local(t),
         pc[t] \in WithBlock, pc'[t] \in WithBlock, blk'[t] = blk[t],
         \A p \in Blocks \ {blk[t]} : total'[p] = total[p],
         nMmaps' = nMmaps + Num(OwnCounted(t)') - Num(OwnCounted(t)),
         mmappedMem' >= mmappedMem + OwnWeight(t)' - OwnWeight(t)
  PROVE  CountExact' /\ SumCovers'
<1> DEFINE e == blk[t]
<1>1. e \in Blocks /\ Concerns(t, e)
  BY OwnBlock DEF Concerns
<1>2. (e \in Counted <=> OwnCounted(t)) /\ Weight(e) = OwnWeight(t)
  BY BlockFacts DEF OwnFacts
<1>3. (blk'[t] \in Counted' <=> OwnCounted(t)') /\ Weight(blk[t])' = OwnWeight(t)'
  BY BlockFactsNext DEF OwnFacts
<1>4. \E x \in Blocks : x = e
  BY <1>1
<1>5. PICK x \in Blocks : x = e
  BY <1>4
<1>6. Weight(blk[t])' = Weight(x)'
  BY <1>5 DEF Weight
<1>7. /\ Concerns(t, x)
      /\ nMmaps' = nMmaps + Num(x \in Counted') - Num(x \in Counted)
      /\ mmappedMem' >= mmappedMem + Weight(x)' - Weight(x)
  BY <1>1, <1>2, <1>3, <1>5, <1>6 DEF Num
<1> QED BY <1>7, CountStep

(* A call ends that had block e: it counts now for all its bytes, if        *)
(* mapped.                                                                  *)
LEMMA LeavesCall ==
  ASSUME HoldInv, HoldInv', CountExact, SumCovers, NEW t \in Threads, Local(t),
         pc[t] \in WithBlock, NEW e \in Blocks, blk[t] = e, blk'[t] = NoBlock,
         \A p \in Blocks \ {e} : total'[p] = total[p],
         nMmaps' = nMmaps + Num(total'[e] # 0) - Num(OwnCounted(t)),
         mmappedMem' >= mmappedMem + total'[e] - OwnWeight(t)
  PROVE  CountExact' /\ SumCovers'
<1>1. Concerns(t, e)
  BY DEF Concerns
<1>2. (e \in Counted <=> OwnCounted(t)) /\ Weight(e) = OwnWeight(t)
  BY BlockFacts DEF OwnFacts
<1>3. \A u \in Threads : blk'[u] # e
  BY OwnBlock, Constants DEF Local
<1>4. (e \in Counted' <=> total'[e] # 0) /\ Weight(e)' = total'[e]
  BY <1>3, BlockFactsNext DEF FreeFacts
<1>5. /\ nMmaps' = nMmaps + Num(e \in Counted') - Num(e \in Counted)
      /\ mmappedMem' >= mmappedMem + Weight(e)' - Weight(e)
  BY <1>2, <1>4 DEF Num
<1> QED BY <1>1, <1>5, CountStep

(* A call begins with block e.                                              *)
LEMMA EntersCall ==
  ASSUME HoldInv, HoldInv', CountExact, SumCovers, NEW t \in Threads, Local(t),
         NEW e \in Blocks, \A u \in Threads : blk[u] # e, blk[t] = NoBlock,
         pc'[t] \in WithBlock, blk'[t] = e,
         \A p \in Blocks \ {e} : total'[p] = total[p],
         nMmaps' = nMmaps + Num(OwnCounted(t)') - Num(total[e] # 0),
         mmappedMem' >= mmappedMem + OwnWeight(t)' - total[e]
  PROVE  CountExact' /\ SumCovers'
<1>1. Concerns(t, e)
  BY DEF Concerns
<1>2. (e \in Counted <=> total[e] # 0) /\ Weight(e) = total[e]
  BY BlockFacts DEF FreeFacts
<1>3. (e \in Counted' <=> OwnCounted(t)') /\ Weight(e)' = OwnWeight(t)'
  <2>1. (blk'[t] \in Counted' <=> OwnCounted(t)') /\ Weight(blk[t])' = OwnWeight(t)'
    BY BlockFactsNext DEF OwnFacts
  <2>2. Weight(blk[t])' = Weight(e)'
    BY DEF Weight
  <2> QED BY <2>1, <2>2
<1>4. /\ nMmaps' = nMmaps + Num(e \in Counted') - Num(e \in Counted)
      /\ mmappedMem' >= mmappedMem + Weight(e)' - Weight(e)
  BY <1>2, <1>3 DEF Num
<1> QED BY <1>1, <1>4, CountStep

(* Action by action.                                                        *)
LEMMA CallSteps ==
  ASSUME HoldInv, HoldInv', CountExact, SumCovers, NEW t \in Threads, Local(t),
         \/ Map(t) \/ CountMap(t) \/ MaxCount(t) \/ SumMap(t) \/ (MaxSum(t) /\ alignment[t] # 0)
         \/ Compare(t) \/ Measure(t) \/ SlideMmap(t) \/ SlideTrim(t) \/ Uncount(t) \/ Unsum(t) \/ SumRemap(t)
  PROVE  CountExact' /\ SumCovers'
<1> DEFINE e == blk[t]
<1>1. pc[t] \in WithBlock
  BY DEF Map, CountMap, MaxCount, SumMap, MaxSum, Compare, Measure, SlideMmap, SlideTrim, Uncount, Unsum,
         SumRemap, Goto, WithBlock, Making, Working
<1>2. /\ e \in Blocks /\ e # NoBlock /\ total[e] \in Nat /\ val[t] \in Int
      /\ nMmaps \in Int /\ mmappedMem \in Int /\ Hdr \in Nat
      /\ pc \in [Threads -> WithBlock \cup {"idle", "no_dyn"}] /\ val \in [Threads -> Int]
      /\ total \in [Blocks -> Nat]
  BY <1>1, OwnBlock, Constants DEF HoldInv, TypeInv
<1>3. /\ pc[t] = "map" => total[e] = 0
      /\ pc[t] \in WithBlock \ {"map"} => total[e] # 0
  BY DEF HoldInv, OwnInv
<1> DEFINE Shape ==
      /\ pc'[t] \in WithBlock /\ blk'[t] = e /\ \A p \in Blocks \ {e} : total'[p] = total[p]
      /\ nMmaps' = nMmaps + Num(OwnCounted(t)') - Num(OwnCounted(t))
      /\ mmappedMem' >= mmappedMem + OwnWeight(t)' - OwnWeight(t)
<1> USE DEF Goto, Keep, blocks, counts, Num, OwnCounted, OwnWeight, WithBlock, Making, Working
<1>4. ASSUME Map(t) PROVE Shape
  BY <1>2, <1>3, <1>4 DEF Map
<1>5. ASSUME CountMap(t) PROVE Shape
  BY <1>2, <1>3, <1>5 DEF CountMap
<1>6. ASSUME MaxCount(t) PROVE Shape
  BY <1>2, <1>3, <1>6 DEF MaxCount
<1>7. ASSUME SumMap(t) PROVE Shape
  BY <1>2, <1>3, <1>7 DEF SumMap
<1>8. ASSUME (MaxSum(t) /\ alignment[t] # 0) PROVE Shape
  BY <1>2, <1>3, <1>8 DEF MaxSum
<1>9. ASSUME Compare(t) \/ Measure(t) \/ SlideMmap(t) \/ SlideTrim(t) PROVE Shape
  BY <1>2, <1>3, <1>9 DEF Compare, Measure, SlideMmap, SlideTrim
<1>10. ASSUME Uncount(t) PROVE Shape
  BY <1>2, <1>3, <1>10 DEF Uncount
<1>11. ASSUME Unsum(t) PROVE Shape
  BY <1>2, <1>3, <1>11 DEF Unsum
<1>12. ASSUME SumRemap(t) PROVE Shape
  BY <1>2, <1>3, <1>12 DEF SumRemap
<1>13. Shape
  BY <1>4, <1>5, <1>6, <1>7, <1>8, <1>9, <1>10, <1>11, <1>12
<1> QED BY <1>1, <1>13, StaysInCall

(* The actions that end a call.                                             *)
LEMMA EndSteps ==
  ASSUME HoldInv, HoldInv', CountExact, SumCovers, NEW t \in Threads, Local(t),
         MapFails(t) \/ (MaxSum(t) /\ alignment[t] = 0) \/ AlignBlock(t) \/ Unmap(t)
  PROVE  CountExact' /\ SumCovers'
<1>1. pc[t] \in WithBlock
  BY DEF MapFails, MaxSum, AlignBlock, Unmap, Goto, WithBlock, Making, Working
<1>2. PICK e \in Blocks : blk[t] = e
  BY <1>1, OwnBlock
<1>3. /\ nMmaps \in Int /\ mmappedMem \in Int /\ total \in [Blocks -> Nat]
      /\ blk \in [Threads -> Blocks \cup {NoBlock}]
      /\ pc[t] = "map" => total[e] = 0
      /\ pc[t] \in WithBlock \ {"map"} => total[e] # 0
  BY <1>2 DEF HoldInv, TypeInv, OwnInv
<1> DEFINE Shape ==
      /\ blk'[t] = NoBlock /\ \A p \in Blocks \ {e} : total'[p] = total[p]
      /\ nMmaps' = nMmaps + Num(total'[e] # 0) - Num(OwnCounted(t))
      /\ mmappedMem' >= mmappedMem + total'[e] - OwnWeight(t)
<1> USE DEF Goto, Keep, Leave, blocks, counts, Num, OwnCounted, OwnWeight, WithBlock, Making, Working
<1>4. ASSUME MapFails(t) PROVE Shape
  BY <1>2, <1>3, <1>4 DEF MapFails
<1>5. ASSUME MaxSum(t), alignment[t] = 0 PROVE Shape
  BY <1>2, <1>3, <1>5 DEF MaxSum
<1>6. ASSUME AlignBlock(t) PROVE Shape
  BY <1>2, <1>3, <1>6 DEF AlignBlock
<1>7. ASSUME Unmap(t) PROVE Shape
  BY <1>2, <1>3, <1>7 DEF Unmap
<1>8. Shape
  BY <1>4, <1>5, <1>6, <1>7
<1> QED BY <1>1, <1>2, <1>8, LeavesCall

(* The actions that begin one.                                              *)
LEMMA BeginSteps ==
  ASSUME HoldInv, HoldInv', CountExact, SumCovers, NEW t \in Threads, Local(t),
         \/ Free(t) \/ Replace(t)
         \/ \E nb \in Requests : Remap(t, nb) \/ \E al \in Alignments : Malloc(t, nb, al)
  PROVE  CountExact' /\ SumCovers'
<1> DEFINE Shape(e) ==
      /\ (\A u \in Threads : blk[u] # e) /\ pc'[t] \in WithBlock /\ blk'[t] = e
      /\ \A p \in Blocks \ {e} : total'[p] = total[p]
      /\ nMmaps' = nMmaps + Num(OwnCounted(t)') - Num(total[e] # 0)
      /\ mmappedMem' >= mmappedMem + OwnWeight(t)' - total[e]
<1>1. /\ nMmaps \in Int /\ mmappedMem \in Int /\ total \in [Blocks -> Nat]
      /\ blk \in [Threads -> Blocks \cup {NoBlock}] /\ val \in [Threads -> Int]
      /\ pc \in [Threads -> WithBlock \cup {"idle", "no_dyn"}]
  BY DEF HoldInv, TypeInv
<1>2. blk[t] = NoBlock
  <2>1. pc[t] = "idle"
    BY DEF Free, Replace, Remap, Malloc, Goto
  <2> QED BY <2>1 DEF HoldInv, OwnInv, WithBlock, Making, Working
<1> USE DEF Goto, Keep, blocks, counts, Num, OwnCounted, OwnWeight, WithBlock, Making, Working
<1>3. ASSUME Free(t) \/ Replace(t) PROVE \E e \in Blocks : Shape(e)
  <2>1. PICK e \in live : Take(t, e)
    BY <1>3 DEF Free, Replace
  <2>2. e \in Blocks /\ (\A u \in Threads : blk[u] # e) /\ total[e] \in Nat \ {0}
    BY LiveBlock
  <2>3. /\ pc' = [pc EXCEPT ![t] = "compare"] \/ pc' = [pc EXCEPT ![t] = "uncount"]
        /\ blk' = [blk EXCEPT ![t] = e] /\ UNCHANGED <<total, nMmaps, mmappedMem>>
    BY <1>3, <2>1 DEF Free, Replace, Take
  <2>4. Shape(e)
    BY <1>1, <2>2, <2>3
  <2> QED BY <2>2, <2>4
<1>4. ASSUME NEW nb \in Requests, NEW al \in Alignments, Malloc(t, nb, al)
      PROVE  \E e \in Blocks : Shape(e)
  <2>1. PICK e \in Blocks : /\ total[e] = 0 /\ \A u \in Threads : blk[u] # e
                            /\ blk' = [blk EXCEPT ![t] = e]
    BY <1>4 DEF Malloc
  <2>2. pc' = [pc EXCEPT ![t] = "map"] /\ UNCHANGED <<total, nMmaps, mmappedMem>>
    BY <1>4 DEF Malloc
  <2>3. Shape(e)
    BY <1>1, <2>1, <2>2
  <2> QED BY <2>3
<1>5. ASSUME NEW nb \in Requests, Remap(t, nb) PROVE \E e \in Blocks : Shape(e)
  <2>1. PICK e \in live : /\ total' = [total EXCEPT ![e] = RemapSize(e, nb)]
                          /\ val' = [val EXCEPT ![t] = RemapSize(e, nb) - ChunkSize(e) - offset[e]]
                          /\ blk' = [blk EXCEPT ![t] = e]
    BY <1>5 DEF Remap, Take
  <2>2. pc' = [pc EXCEPT ![t] = "remapped"] /\ UNCHANGED <<nMmaps, mmappedMem>>
    BY <1>5 DEF Remap
  <2>3. /\ e \in Blocks /\ (\A u \in Threads : blk[u] # e) /\ total[e] \in Nat \ {0}
        /\ RemapSize(e, nb) \in Nat \ {0} /\ offset[e] \in Nat /\ Hdr \in Nat
    BY LiveBlock, NewSize, Constants
  <2>4. total'[e] = RemapSize(e, nb) /\ val'[t] = RemapSize(e, nb) - (total[e] - offset[e] - Hdr) - offset[e]
    BY <1>1, <2>1, <2>3 DEF ChunkSize
  <2>5. OwnWeight(t)' = total[e]
    BY <1>1, <2>1, <2>2, <2>3, <2>4
  <2>6. Shape(e)
    <3>1. pc'[t] = "remapped" /\ blk'[t] = e /\ OwnCounted(t)'
      BY <1>1, <2>1, <2>2, <2>3, <2>4
    <3>2. \A p \in Blocks \ {e} : total'[p] = total[p]
      BY <1>1, <2>1
    <3> QED BY <1>1, <2>2, <2>3, <2>5, <3>1, <3>2
  <2> QED BY <2>3, <2>6
<1>6. PICK e \in Blocks : Shape(e)
  BY <1>3, <1>4, <1>5
<1> QED BY <1>2, <1>6, EntersCall

(* The actions of a thread that has no block.                               *)
LEMMA OutsideSteps ==
  ASSUME HoldInv, HoldInv', CountExact, SumCovers, NEW t \in Threads, Local(t),
         \/ \E nb \in Requests : ReallocSame(t, nb)
         \/ (\E option \in Options : Mallopt(t, option)) \/ NoDyn(t)
  PROVE  CountExact' /\ SumCovers'
<1>1. /\ UNCHANGED <<total, blk, nMmaps, mmappedMem>>
      /\ pc[t] \in {"idle", "no_dyn"}
  BY DEF ReallocSame, Mallopt, NoDyn, Goto, blocks, counts
<1>2. blk[t] = NoBlock
  BY <1>1 DEF HoldInv, OwnInv, WithBlock, Making, Working
<1>3. Concerns(t, NoBlock)
  BY <1>1, <1>2 DEF Concerns
<1> QED BY <1>1, <1>3, IdleStep

(* max_n_mmaps: the thread that raised n_mmaps carries the value.           *)
LEMMA PeakStep ==
  ASSUME HoldInv, PeakCovers, Next
  PROVE  PeakCovers'
<1>1. /\ nMmaps \in Int /\ maxNMmaps \in Int /\ val \in [Threads -> Int]
      /\ pc \in [Threads -> WithBlock \cup {"idle", "no_dyn"}]
  BY DEF HoldInv, TypeInv
<1> USE DEF Goto, Keep, counts, peaks
<1>2. CASE \E t \in Threads : CountMap(t)
  <2>1. PICK t \in Threads : CountMap(t)
    BY <1>2
  <2>2. pc'[t] = "max_count" /\ val'[t] = nMmaps + 1 /\ nMmaps' = nMmaps + 1
    BY <1>1, <2>1 DEF CountMap
  <2> QED BY <1>1, <2>2 DEF PeakCovers, Pending
<1>3. CASE \E t \in Threads : MaxCount(t)
  <2>1. PICK t \in Threads : MaxCount(t)
    BY <1>3
  <2>2. /\ nMmaps' = nMmaps /\ maxNMmaps' = Larger(maxNMmaps, val[t])
        /\ \A u \in Threads \ {t} : pc'[u] = pc[u] /\ val'[u] = val[u]
    BY <1>1, <2>1 DEF MaxCount
  <2>3. maxNMmaps' >= maxNMmaps /\ maxNMmaps' >= val[t] /\ maxNMmaps' \in Int
    BY <1>1, <2>2 DEF Larger
  <2> QED BY <1>1, <2>2, <2>3 DEF PeakCovers, Pending
<1>4. CASE \E t \in Threads :
             \/ \E nb \in Requests : \/ \E al \in Alignments : Malloc(t, nb, al)
                                     \/ Remap(t, nb) \/ ReallocSame(t, nb)
             \/ Map(t) \/ MapFails(t) \/ SumMap(t) \/ MaxSum(t) \/ AlignBlock(t)
             \/ Free(t) \/ Compare(t) \/ Measure(t) \/ SlideMmap(t) \/ SlideTrim(t)
             \/ Uncount(t) \/ Unsum(t) \/ Unmap(t) \/ SumRemap(t) \/ Replace(t)
             \/ (\E option \in Options : Mallopt(t, option)) \/ NoDyn(t)
  <2>1. PICK t \in Threads :
             \/ \E nb \in Requests : \/ \E al \in Alignments : Malloc(t, nb, al)
                                     \/ Remap(t, nb) \/ ReallocSame(t, nb)
             \/ Map(t) \/ MapFails(t) \/ SumMap(t) \/ MaxSum(t) \/ AlignBlock(t)
             \/ Free(t) \/ Compare(t) \/ Measure(t) \/ SlideMmap(t) \/ SlideTrim(t)
             \/ Uncount(t) \/ Unsum(t) \/ Unmap(t) \/ SumRemap(t) \/ Replace(t)
             \/ (\E option \in Options : Mallopt(t, option)) \/ NoDyn(t)
    BY <1>4
  <2>2. maxNMmaps' = maxNMmaps /\ pc[t] # "max_count"
    BY <2>1 DEF Malloc, Remap, ReallocSame, Map, MapFails, SumMap, MaxSum, AlignBlock, Free,
       Compare, Measure, SlideMmap, SlideTrim, Uncount, Unsum, Unmap, SumRemap, Replace, Mallopt, NoDyn
  <2>3. nMmaps' = nMmaps \/ nMmaps' = nMmaps - 1
    BY <2>1 DEF Malloc, Remap, ReallocSame, Map, MapFails, SumMap, MaxSum, AlignBlock, Free,
       Compare, Measure, SlideMmap, SlideTrim, Uncount, Unsum, Unmap, SumRemap, Replace, Mallopt, NoDyn
  <2>4. ASSUME NEW u \in Threads \ {t} PROVE pc'[u] = pc[u] /\ val'[u] = val[u]
    <3>1. pc' = pc \/ \E to : pc' = [pc EXCEPT ![t] = to]
      BY <2>1 DEF Malloc, Remap, ReallocSame, Map, MapFails, SumMap, MaxSum, AlignBlock, Free,
         Compare, Measure, SlideMmap, SlideTrim, Uncount, Unsum, Unmap, SumRemap, Replace, Mallopt, NoDyn
    <3>2. val' = val \/ \E v : val' = [val EXCEPT ![t] = v]
      BY <2>1 DEF Malloc, Remap, ReallocSame, Map, MapFails, SumMap, MaxSum, AlignBlock, Free,
         Compare, Measure, SlideMmap, SlideTrim, Uncount, Unsum, Unmap, SumRemap, Replace, Mallopt, NoDyn
    <3> QED BY <1>1, <3>1, <3>2
  <2> QED BY <1>1, <2>2, <2>3, <2>4 DEF PeakCovers, Pending
<1> QED BY <1>2, <1>3, <1>4 DEF Next

(* Nothing is counted at first.                                             *)
LEMMA InitCount == Init => CountInv
<1> SUFFICES ASSUME Init PROVE CountInv
  OBVIOUS
<1>1. HoldInv
  BY InitHold
<1>2. \A p \in Blocks : total[p] = 0
  BY DEF Init
<1>3. CountExact
  <2>1. Mapped \ InCall({"count", "unsum", "unmap"}) = {}
    BY <1>2 DEF Mapped
  <2> QED BY <2>1, FS_EmptySet DEF CountExact, Init
<1>4. SumCovers
  <2> DEFINE w == [p \in Blocks |-> 0]
  <2>1. w \in [Blocks -> Nat] /\ w = Weights
    BY <1>2 DEF Weights, Weight
  <2> HIDE DEF w
  <2>2. \A p \in Blocks : w[p] = 0
    BY DEF w
  <2>3. Sum(w, Blocks) = 0
    BY <2>2, Constants, SumZero
  <2> QED BY <2>1, <2>3 DEF SumCovers, Init
<1>5. PeakCovers
  BY DEF PeakCovers, Init
<1> QED BY <1>3, <1>4, <1>5 DEF CountInv

(* CountInv is inductive, relative to HoldInv.                              *)
LEMMA StepCount == HoldInv /\ HoldInv' /\ CountInv /\ [Next]_vars => CountInv'
<1> SUFFICES ASSUME HoldInv, HoldInv', CountInv, [Next]_vars PROVE CountInv'
  OBVIOUS
<1>1. CountExact /\ SumCovers /\ PeakCovers
  BY DEF CountInv
<1>2. CASE UNCHANGED vars
  <2>1. UNCHANGED <<pc, blk, val, total, nMmaps, mmappedMem, maxNMmaps>>
    BY <1>2 DEF vars, blocks, counts, peaks
  <2>2. Counted' = Counted /\ Weights' = Weights /\ (Pending' <=> Pending)
    BY <2>1 DEF Counted, Mapped, InCall, Weights, Weight, Pending
  <2> QED BY <1>1, <2>1, <2>2 DEF CountInv, CountExact, Counted, SumCovers, PeakCovers
<1>3. CASE Next
  <2>1. PICK t \in Threads :
          \/ \E nb \in Requests : \/ \E al \in Alignments : Malloc(t, nb, al)
                                  \/ Remap(t, nb) \/ ReallocSame(t, nb)
          \/ Map(t) \/ MapFails(t) \/ CountMap(t) \/ MaxCount(t) \/ SumMap(t) \/ MaxSum(t)
          \/ AlignBlock(t)
          \/ Free(t) \/ Compare(t) \/ Measure(t) \/ SlideMmap(t) \/ SlideTrim(t)
          \/ Uncount(t) \/ Unsum(t) \/ Unmap(t)
          \/ SumRemap(t) \/ Replace(t)
          \/ (\E option \in Options : Mallopt(t, option)) \/ NoDyn(t)
    BY <1>3 DEF Next
  <2>2. Local(t)
    BY <2>1, MallocStep, MapStep, MapFailsStep, DoneStep, AlignStep, TakeStep, UnmapStep,
       ReallocSameStep, RemapStep, QuietSteps
  <2>3. CountExact' /\ SumCovers'
    <3>1. CASE \/ Map(t) \/ CountMap(t) \/ MaxCount(t) \/ SumMap(t) \/ (MaxSum(t) /\ alignment[t] # 0)
               \/ Compare(t) \/ Measure(t) \/ SlideMmap(t) \/ SlideTrim(t) \/ Uncount(t) \/ Unsum(t)
               \/ SumRemap(t)
      BY <1>1, <2>2, <3>1, CallSteps
    <3>2. CASE MapFails(t) \/ (MaxSum(t) /\ alignment[t] = 0) \/ AlignBlock(t) \/ Unmap(t)
      BY <1>1, <2>2, <3>2, EndSteps
    <3>3. CASE \/ Free(t) \/ Replace(t)
               \/ \E nb \in Requests : Remap(t, nb) \/ \E al \in Alignments : Malloc(t, nb, al)
      BY <1>1, <2>2, <3>3, BeginSteps
    <3>4. CASE \/ \E nb \in Requests : ReallocSame(t, nb)
               \/ (\E option \in Options : Mallopt(t, option)) \/ NoDyn(t)
      BY <1>1, <2>2, <3>4, OutsideSteps
    <3>5. CASE \E nb \in Requests : \/ \E al \in Alignments : Malloc(t, nb, al)
                                    \/ Remap(t, nb) \/ ReallocSame(t, nb)
      <4>1. \/ \E nb \in Requests : Remap(t, nb) \/ \E al \in Alignments : Malloc(t, nb, al)
            \/ \E nb \in Requests : ReallocSame(t, nb)
        BY <3>5
      <4> QED BY <3>3, <3>4, <4>1
    <3>6. CASE MaxSum(t)
      BY <3>1, <3>2, <3>6
    <3> QED BY <2>1, <3>1, <3>2, <3>3, <3>4, <3>5, <3>6
  <2>4. PeakCovers'
    BY <1>1, <1>3, PeakStep
  <2> QED BY <2>3, <2>4 DEF CountInv
<1> QED BY <1>2, <1>3

(* n_mmaps and mmapped_mem agree with the blocks the calls have come so far *)
(* as to count.                                                             *)
THEOREM AlwaysCount == Spec => [](HoldInv /\ CountInv)
<1>1. HoldInv /\ CountInv /\ [Next]_vars => HoldInv' /\ CountInv'
  BY StepHold, StepCount
<1> QED BY InitHold, InitCount, <1>1, PTL DEF Spec

(* n_mmaps counts the mapped blocks, mmapped_mem covers their bytes and     *)
(* max_n_mmaps the count, whatever the interleaving of the atomic           *)
(* additions, subtractions and maxima of any number of threads.             *)
THEOREM AlwaysStatsTrack == Spec => []StatsTrack
<1>1. HoldInv /\ CountInv => StatsTrack
  <2> SUFFICES ASSUME HoldInv, CountInv PROVE StatsTrack
    OBVIOUS
  <2>1. MemCovers
    <3>1. PICK w \in [Blocks -> Nat] : w = Weights /\ mmappedMem >= Sum(w, Blocks)
      BY DEF CountInv, SumCovers
    <3>2. Summed \in SUBSET Blocks
      BY DEF Summed, Mapped
    <3>3. \A p \in Summed : total[p] <= w[p]
      BY <3>1, <3>2 DEF Summed, Mapped, InCall, Weights, Weight, HoldInv, TypeInv
    <3>4. \A p \in Blocks : total[p] \in Int /\ w[p] \in Nat
      BY DEF HoldInv, TypeInv
    <3>5. Sum(total, Summed) <= Sum(w, Blocks)
      BY <3>2, <3>3, <3>4, Constants, SumMonotone
    <3>6. Sum(total, Summed) \in Int /\ Sum(w, Blocks) \in Int
      <4>1. IsFiniteSet(Summed)
        BY <3>2, Constants, FS_Subset
      <4>2. (\A p \in Summed : total[p] \in Int) /\ (\A p \in Blocks : w[p] \in Int)
        BY <3>2, <3>4
      <4>3. Sum(total, Summed) \in Int
        BY <4>1, <4>2, SumType
      <4> QED BY <4>2, <4>3, Constants, SumType
    <3>7. BytesOf(Summed) = Sum(total, Summed)
      BY DEF BytesOf, Sum
    <3> QED BY <3>1, <3>5, <3>6, <3>7 DEF MemCovers, HoldInv, TypeInv
  <2>2. CountExact /\ MaxTracks
    BY DEF CountInv, PeakCovers, Pending, MaxTracks
  <2> QED BY <2>1, <2>2 DEF StatsTrack
<1> QED BY <1>1, AlwaysCount, PTL

----------------------------------------------------------------------------
(* Once no_dyn_threshold is set and no free that had passed the test before *)
(* is still storing, only mallopt changes the thresholds.                   *)
THEOREM AlwaysUserThresholdStays == Spec => UserThresholdStays
<1> DEFINE Stays == noDynThreshold /\ ~Sliding
                      => \/ UNCHANGED sliding /\ ~Sliding'
                         \/ \E t \in Threads : pc'[t] = "no_dyn" /\ pc[t] # "no_dyn"
<1>1. HoldInv /\ [Next]_vars => [Stays]_vars
  <2> SUFFICES ASSUME HoldInv, Next, noDynThreshold, ~Sliding
               PROVE  \/ UNCHANGED sliding /\ ~Sliding'
                      \/ \E t \in Threads : pc'[t] = "no_dyn" /\ pc[t] # "no_dyn"
    OBVIOUS
  <2>1. pc \in [Threads -> WithBlock \cup {"idle", "no_dyn"}]
    BY DEF HoldInv, TypeInv
  <2>2. \A t \in Threads : pc[t] \notin {"measure", "slide_mmap", "slide_trim"}
    BY DEF Sliding
  <2>3. CASE \E t \in Threads, option \in Options : Mallopt(t, option)
    BY <2>1, <2>3 DEF Mallopt, Goto
  <2>4. CASE \E t \in Threads : SlideMmap(t) \/ SlideTrim(t)
    BY <2>2, <2>4 DEF SlideMmap, SlideTrim, Goto
  <2>5. CASE \E t \in Threads :
               \/ \E nb \in Requests : \/ \E al \in Alignments : Malloc(t, nb, al)
                                       \/ Remap(t, nb) \/ ReallocSame(t, nb)
               \/ Map(t) \/ MapFails(t) \/ CountMap(t) \/ MaxCount(t) \/ SumMap(t) \/ MaxSum(t)
               \/ AlignBlock(t) \/ Free(t) \/ Compare(t) \/ Measure(t)
               \/ Uncount(t) \/ Unsum(t) \/ Unmap(t) \/ SumRemap(t) \/ Replace(t) \/ NoDyn(t)
    <3>1. PICK t \in Threads :
               \/ \E nb \in Requests : \/ \E al \in Alignments : Malloc(t, nb, al)
                                       \/ Remap(t, nb) \/ ReallocSame(t, nb)
               \/ Map(t) \/ MapFails(t) \/ CountMap(t) \/ MaxCount(t) \/ SumMap(t) \/ MaxSum(t)
               \/ AlignBlock(t) \/ Free(t) \/ Compare(t) \/ Measure(t)
               \/ Uncount(t) \/ Unsum(t) \/ Unmap(t) \/ SumRemap(t) \/ Replace(t) \/ NoDyn(t)
      BY <2>5
    <3>a. ~ Measure(t)
      BY <2>2 DEF Measure, Goto
    <3>2. UNCHANGED sliding
      BY <3>1 DEF Malloc, Remap, ReallocSame, Map, MapFails, CountMap, MaxCount, SumMap, MaxSum,
         AlignBlock, Free, Compare, Measure, Uncount, Unsum, Unmap, SumRemap, Replace, NoDyn, params
    <3> DEFINE To(to) == pc' = [pc EXCEPT ![t] = to]
    <3>3. pc' = pc \/ \E to \in (WithBlock \cup {"idle", "no_dyn"}) \ {"measure", "slide_mmap", "slide_trim"} : To(to)
      <4>1. CASE Compare(t)
        <5>1. To("uncount")
          BY <4>1 DEF Compare, Goto
        <5> QED BY <5>1 DEF WithBlock, Working
      <4>2. CASE MaxSum(t)
        <5>1. To("idle") \/ To("align")
          BY <4>2 DEF MaxSum
        <5> QED BY <5>1 DEF WithBlock, Making
      <4>3. CASE ~Compare(t) /\ ~MaxSum(t)
        <5>1. \/ pc' = pc \/ To("map") \/ To("remapped") \/ To("count") \/ To("idle")
              \/ To("max_count") \/ To("sum") \/ To("max_sum") \/ To("compare")
              \/ To("uncount") \/ To("unsum") \/ To("unmap")
          BY <3>1, <3>a, <4>3 DEF Malloc, Remap, ReallocSame, Map, MapFails, CountMap, MaxCount, SumMap,
             AlignBlock, Free, Uncount, Unsum, Unmap, SumRemap, Replace, NoDyn, Goto
        <5> HIDE DEF To
        <5> QED BY <5>1 DEF WithBlock, Making, Working
      <4> QED BY <4>1, <4>2, <4>3
    <3>4. ~Sliding'
      BY <2>1, <2>2, <3>3 DEF Sliding
    <3> QED BY <3>2, <3>4
  <2> QED BY <2>3, <2>4, <2>5 DEF Next
<1> QED BY <1>1, AlwaysHold, PTL DEF Spec, UserThresholdStays

=============================================================================
