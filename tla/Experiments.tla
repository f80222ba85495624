---------------------------- MODULE Experiments ----------------------------
(***************************************************************************)
(* The experiments of src/dynamic-analysis: programs that call malloc and   *)
(* free in a fixed order and stop at breakpoints, where their authors read  *)
(* the heap in a debugger and wrote down what they saw. Each program drives *)
(* the models of the size classes and of the main arena with its real       *)
(* sizes; addresses and chunk sizes count 16 bytes. The experiments switch  *)
(* tcache off.                                                              *)
(***************************************************************************)
EXTENDS CallSizes, Sequences, FiniteSets

CONSTANTS
  NBins, Sizes, BinIndex, Page, TopPad, AttemptTrim, TrimThreshold, MmapThreshold,
  MorecoreMin, MaxIters, HeapWord, FirstBrk, MaxBrk

VARIABLES
  exp,      \* the program that runs; "sizes" asks for sizes only
  line,     \* index of its next instruction
  ptr,      \* its pointers: variable to chunk, 0 for a block outside the arena
  av, sbrkBase, mapEnd, foreign, live, pc, op   \* as in Arena

heap == <<av, sbrkBase, mapEnd, foreign, live, pc, op>>
all  == <<exp, line, ptr, heap, req, nb>>

Arena == INSTANCE Arena WITH
  Hdr <- CHUNK_HDR_SZ \div MALLOC_ALIGNMENT, MinSize <- MINSIZE \div MALLOC_ALIGNMENT,
  LargeMin <- MIN_LARGE_SIZE \div MALLOC_ALIGNMENT, Requests <- {}, Alignments <- {},
  Word <- HeapWord, SysOutcomes <- {TRUE}, ForeignIncs <- {}, MapBase <- MaxBrk + 1, MaxMap <- MaxBrk,
  MainArena <- {TRUE}, Clears <- {}, Retries <- FALSE, Contents <- FALSE, TrimPads <- {}, HeapBases <- {}, MayShrink <- {},
  HeapInfo <- 1, StateSize <- 1, MinHeap <- Page, MaxHeap <- 16 * Page, waiting <- {}, dirty <- {}

SX == INSTANCE SequencesExt

----------------------------------------------------------------------------
(* The programs. *)

m(v, bytes) == [do |-> "malloc", var |-> v, bytes |-> bytes]
f(v)        == [do |-> "free", var |-> v, bytes |-> 0]
bp(k)       == [do |-> "break", var |-> k, bytes |-> 0]

(* Blocks c1, c2, ... of the given sizes, each with a barrier b1, b2, ...    *)
(* behind it; in programs with loops c_i is variable i and b_i is -i.       *)
Pairs(sizes, barrier) ==
  SX!FlattenSeq([i \in DOMAIN sizes |-> <<m(i, sizes[i]), m(-i, barrier)>>])
FreeAll(n)      == [i \in 1 .. n |-> f(i)]
FreeBarriers(n) == [i \in 1 .. n |-> f(-i)]
IB == 0   \* the variable ib, whose allocation sorts the unsorted list

bins_exp1 == <<m(1, 10), m(2, 1010), m(3, 10), f(2), bp(1), f(1), f(3)>>

bins_exp2 == Pairs([i \in 1 .. 62 |-> 20 + 16 * (i - 1)], 20) \o FreeAll(62)
             \o <<bp(1)>> \o FreeBarriers(62)

bins_exp3 == <<m(1, 1008), m(-1, 10), f(1), m(IB, 1100), bp(1), f(-1), f(IB)>>

bins_exp4 == Pairs(<<60, 60>>, 20) \o <<bp(1)>> \o FreeAll(2) \o <<bp(3)>> \o FreeBarriers(2)

bins_exp5 == Pairs(<<1010, 1026, 1042, 1058>>, 2000) \o FreeAll(4)
             \o <<m(IB, 2000), bp(1)>> \o FreeBarriers(4) \o <<f(IB)>>

exp6_sizes == <<1010, 1044, 1029, 1060, 1041, 1010, 1061, 1031>>
bins_exp6 == Pairs(exp6_sizes, 2000) \o FreeAll(8)
             \o <<m(IB, 2000), bp(1)>> \o FreeBarriers(8) \o <<f(IB)>>
bins_exp6_reversed == Pairs(exp6_sizes, 2000) \o SX!Reverse(FreeAll(8)) \o <<m(IB, 2000), bp(1)>>

bins_exp7 == Pairs([i \in 1 .. 5 |-> 3057 + 16 * (i - 1)], 5000) \o FreeAll(5)
             \o <<m(IB, 5000), bp(1)>> \o FreeBarriers(5) \o <<f(IB)>>

bins_exp8 == <<m(1, 20), bp(1)>>

chunk_exp1 == <<m(1, 0), bp(1), f(1)>>
chunk_exp2 == <<m(1, 20), bp(1), f(1)>>
chunk_exp3 == <<m(1, 20), bp(1), bp(2), f(1), bp(3)>>
chunk_exp4 == <<m(1, 20), m(-1, 20), bp(1), f(1), bp(2), f(-1)>>

misc_exp1 == <<m(1, 1080), m(-1, 10), f(1), bp(1), m(2, 1010), bp(2)>>
misc_exp2 == <<m(1, 20), m(2, 20), f(2), bp(1)>>
misc_exp3 == Pairs(<<1010, 1010, 1010, 1010, 1010>>, 2000) \o FreeAll(5)
             \o <<m(IB, 5000), bp(1), m(6, 1010), bp(2)>> \o FreeBarriers(5) \o <<f(6)>>
misc_exp4 == <<m(1, 128 * 1024 + 4096), bp(1)>>

Programs ==
  [bins1 |-> bins_exp1, bins2 |-> bins_exp2, bins3 |-> bins_exp3, bins4 |-> bins_exp4,
   bins5 |-> bins_exp5, bins6 |-> bins_exp6, bins6r |-> bins_exp6_reversed,
   bins7 |-> bins_exp7, bins8 |-> bins_exp8,
   chunk1 |-> chunk_exp1, chunk2 |-> chunk_exp2, chunk3 |-> chunk_exp3, chunk4 |-> chunk_exp4,
   misc1 |-> misc_exp1, misc2 |-> misc_exp2, misc3 |-> misc_exp3, misc4 |-> misc_exp4,
   sizes |-> <<>>]

----------------------------------------------------------------------------
ExpInit ==
  /\ exp \in DOMAIN Programs /\ line = 1 /\ ptr = [v \in {} |-> 0]
  /\ Init /\ Arena!Init

Ended == line > Len(Programs[exp])
Now   == Programs[exp][line]
Is(d) == pc = "idle" /\ ~ Ended /\ Now.do = d

CallMalloc ==
  /\ Is("malloc")
  /\ Ask(Now.bytes) /\ Arena!Malloc(nb' \div MALLOC_ALIGNMENT)
  /\ UNCHANGED <<exp, line, ptr>>

(* The call goes on; when it returns, its result is assigned. Every mmap    *)
(* succeeds.                                                                *)
InMalloc ==
  /\ pc # "idle"
  /\ \/ Arena!IntMalloc
     \/ IF op.nb >= MmapThreshold THEN Arena!MmapServes ELSE Arena!Sysmalloc
  /\ IF pc' = "idle"
     THEN LET new == DOMAIN live' \ DOMAIN live
              v   == Now.var
              p   == IF new = {} THEN 0 ELSE CHOOSE q \in new : TRUE
          IN ptr' = [w \in DOMAIN ptr \cup {v} |-> IF w = v THEN p ELSE ptr[w]] /\ line' = line + 1
     ELSE UNCHANGED <<ptr, line>>
  /\ UNCHANGED <<exp, req, nb>>

CallFree ==
  /\ Is("free")
  /\ Arena!Free(ptr[Now.var])
  /\ line' = line + 1
  /\ UNCHANGED <<exp, ptr, req, nb>>

Break == Is("break") /\ line' = line + 1 /\ UNCHANGED <<exp, ptr, heap, req, nb>>

(* A program that has ended stays; a program that cannot go on is a         *)
(* deadlock, and the check would report it.                                 *)
End == exp # "sizes" /\ Ended /\ UNCHANGED all

(* The size classes on their own. *)
Sizing == exp = "sizes" /\ Next /\ UNCHANGED <<exp, line, ptr, heap>>

ExpNext == ~ av.bad /\ (CallMalloc \/ InMalloc \/ CallFree \/ Break \/ End \/ Sizing)

ExpSpec == ExpInit /\ [][ExpNext]_all

----------------------------------------------------------------------------
(* What a debugger shows. *)

At(e, k)   == exp = e /\ Is("break") /\ Now.var = k
SizeAt(v)  == MALLOC_ALIGNMENT * Arena!SizeOf(av, ptr[v])
PrevUsed(v) == Arena!PrevInUse(av, ptr[v])
Bin(i)     == av.bins[i]
BinIs(i, vs) == Bin(i) = [k \in DOMAIN vs |-> ptr[vs[k]]]
SizesIn(i) == [k \in DOMAIN Bin(i) |-> MALLOC_ALIGNMENT * Arena!SizeInBin(av, i, k)]
TopBytes   == MALLOC_ALIGNMENT * Arena!TopSize(av)
Unsorted   == 1

(* The chunks of a large bin that carry nextsize links: the first of each   *)
(* size.                                                                    *)
Unique(i)  == SelectSeq(Bin(i), LAMBDA c : \A k \in DOMAIN Bin(i) :
                Arena!SizeOf(av, Bin(i)[k]) = Arena!SizeOf(av, c) =>
                  \E j \in 1 .. k : Bin(i)[j] = c)

(* Every breakpoint shows what the [ANALYSIS] part of the experiment says.  *)
BinsAnalysis ==
  /\ At("bins1", 1) => Bin(64) = <<>> /\ BinIs(Unsorted, <<2>>) /\ SizeAt(2) = 1024
  /\ At("bins2", 1) => \A i \in 2 .. 63 : BinIs(i, <<i - 1>>) /\ SizesIn(i) = <<16 * i>>
  /\ At("bins3", 1) => BinIs(64, <<1>>) /\ SizeAt(1) = 1024
  /\ At("bins4", 1) => SizeAt(1) = 80 /\ SizeAt(2) = 80
  /\ At("bins4", 3) => BinIs(5, <<2, 1>>)
  /\ At("bins5", 1) => BinIs(64, <<4, 3, 2, 1>>) /\ SizesIn(64) = <<1072, 1056, 1040, 1024>>
  /\ At("bins6", 1) => /\ BinIs(64, <<4, 7, 2, 5, 3, 8, 1, 6>>)
                       /\ Unique(64) = <<ptr[4], ptr[2], ptr[3], ptr[1]>>
  /\ At("bins6r", 1) => /\ BinIs(64, <<7, 4, 5, 2, 8, 3, 6, 1>>)
                        /\ Unique(64) = <<ptr[7], ptr[5], ptr[8], ptr[6]>>
  /\ At("bins7", 1) => SizesIn(96) = <<3120, 3104, 3088, 3072>> /\ SizesIn(97) = <<3136>>
  /\ At("bins8", 1) => Cardinality(DOMAIN av.bins) = 127
ChunkAnalysis ==
  /\ At("chunk1", 1) => SizeAt(1) = MINSIZE /\ PrevUsed(1)
  /\ At("chunk2", 1) => SizeAt(1) = 32 /\ PrevUsed(1) /\ TopBytes = 135136
  /\ At("chunk3", 1) => TopBytes = 135136 /\ av.top = Arena!NextOf(av, ptr[1])
  /\ At("chunk3", 3) => av.top = ptr[1] /\ TopBytes = 135136 + 32
  /\ At("chunk4", 2) => BinIs(2, <<1>>) /\ ~ PrevUsed(-1) /\ SizeAt(-1) = 32
                        /\ MALLOC_ALIGNMENT * av.chunk[ptr[-1]].prev = 32
MiscAnalysis ==
  /\ At("misc1", 1) => BinIs(Unsorted, <<1>>) /\ SizeAt(1) = 1088
  /\ At("misc1", 2) => ptr[2] = ptr[1] /\ SizesIn(Unsorted) = <<64>> /\ bin_index(1088) \in av.binmap
  /\ At("misc2", 1) => av.top = ptr[2] /\ PrevUsed(2)
  /\ At("misc3", 1) => BinIs(64, <<1, 5, 4, 3, 2>>)
  /\ At("misc3", 2) => ptr[6] = ptr[5] /\ BinIs(64, <<1, 4, 3, 2>>) /\ Unique(64) = <<ptr[1]>>
  /\ At("misc4", 1) => ptr[1] = 0 /\ DOMAIN live = {}

(* The experiments' records of the heap are what the code does.             *)
AnalysisHolds == BinsAnalysis /\ ChunkAnalysis /\ MiscAnalysis
=============================================================================
