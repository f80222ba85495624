------------------------------- MODULE Heaps -------------------------------
(***************************************************************************)
(* The memory under an arena other than main_arena (upstream-src/arena.c):  *)
(* a chain of heaps, each at a multiple of HEAP_MAX_SIZE and beginning with *)
(* its heap_info, the first one also holding the arena. The arena record of *)
(* Chunks is extended by                                                    *)
(*   main     whether this is main_arena;                                   *)
(*   heaps    base of each heap to its size, mprotect_size and prev (0 for  *)
(*            the first);                                                   *)
(*   shrinks  what check_may_shrink_heap says in this process;              *)
(*   maxmem   max_system_mem.                                               *)
(* Huge pages are off, so the page size of every heap is Page.              *)
(***************************************************************************)
EXTENDS Chunks

CONSTANTS
  Page,           \* GLRO (dl_pagesize)
  TopPad,         \* mp_.top_pad
  TrimThreshold,  \* mp_.trim_threshold
  HeapInfo,       \* sizeof (heap_info)
  StateSize,      \* sizeof (struct malloc_state)
  MinHeap,        \* heap_min_size ()
  MaxHeap,        \* heap_max_size ()
  HeapBases,      \* bound of the model: where the kernel has room for a heap
  MayShrink       \* what check_may_shrink_heap may say

AlignUp(x, a)   == ((x + a - 1) \div a) * a
AlignDown(x, a) == (x \div a) * a

ASSUME HeapsAssumption ==
  /\ Page \in Nat \ {0} /\ TopPad \in Nat /\ TrimThreshold \in Nat
  /\ MinHeap \in Nat /\ MaxHeap \in Nat \ {0} /\ MinHeap <= MaxHeap
  /\ MaxHeap % Page = 0 /\ MinHeap % Page = 0
  /\ HeapInfo \in Nat \ {0} /\ StateSize \in Nat \ {0}
  /\ HeapInfo + StateSize + MinSize < MaxHeap
  /\ \A b \in HeapBases : b \in Nat \ {InitialTop} /\ b % MaxHeap = 0
  /\ MayShrink \subseteq BOOLEAN

HeapFor(p) == AlignDown(p, MaxHeap)
NewestHeap(a) == HeapFor(a.top)
HeapEnd(a, h) == h + a.heaps[h].size

----------------------------------------------------------------------------
(* alloc_new_heap: the size a heap is given; none fits a larger request.    *)
TooLarge(size) == size + TopPad > MaxHeap /\ size > MaxHeap
HeapSize(size) ==
  AlignUp(IF size + TopPad < MinHeap THEN MinHeap
          ELSE IF size + TopPad <= MaxHeap THEN size + TopPad ELSE MaxHeap, Page)

Room(a, size) == IF TooLarge(size) THEN {} ELSE HeapBases \ DOMAIN a.heaps

(* A new heap at base b, in front of heap prev; top is all of it behind     *)
(* skip. The old top's chunk is left as it is.                              *)
AddHeap(a, b, size, prev, skip) ==
  LET n == HeapSize(size)
      h == [size |-> n, prot |-> n, prev |-> prev]
  IN SetHead([a EXCEPT !.heaps = [x \in DOMAIN @ \cup {b} |-> IF x = b THEN h ELSE @[x]],
                       !.sysmem = @ + n, !.top = b + skip],
             b + skip, n - skip, TRUE)

(* _int_new_arena: when no heap is had for the request, because it is too   *)
(* large or the system refuses, a smallest one is tried.                    *)
NewArenas(a, nb, oks) ==
  LET own   == HeapInfo + StateSize + 1
      sizes == {nb + own} \cup IF TooLarge(nb + own) \/ FALSE \in oks THEN {own} ELSE {}
  IN UNION { { [AddHeap(a, b, size, 0, HeapInfo + StateSize) EXCEPT !.maxmem = HeapSize(size)] :
               b \in Room(a, size) } : size \in sizes }

(* grow_heap: mprotect is asked for what was never accessible.              *)
GrownSize(a, diff) == a.heaps[NewestHeap(a)].size + AlignUp(diff, Page)
FitsHeap(a, diff)  == GrownSize(a, diff) <= MaxHeap
NeedsMprotect(a, diff) == GrownSize(a, diff) > a.heaps[NewestHeap(a)].prot
GrowHeap(a, diff) ==
  LET h == NewestHeap(a)
      n == GrownSize(a, diff)
  IN [a EXCEPT !.heaps[h].size = n, !.heaps[h].prot = IF n > @ THEN n ELSE @,
               !.sysmem = @ + n - a.heaps[h].size]

----------------------------------------------------------------------------
(* The end of a heap that is no longer the newest: top's rest is freed and  *)
(* two headers stay, of which the last, of size 0, is the fencepost. A      *)
(* footer lies between them, though the first is in use. Where the rest is  *)
(* too small it stays with the first.                                       *)
FencedRest(a) == TopSize(a) - MinSize

FenceHeap_slip(a, old, rest) ==
  LET fence == SetHead(SetHead(a, old + rest + Hdr, Hdr, TRUE), old + rest, Hdr, TRUE)
  IN SetHead(fence, old, rest, TRUE)
FenceHeap(a, old, rest) ==
  LET end    == old + rest
      fence  == SetHead(a, end + Hdr, 0, TRUE)
  IN IF rest >= MinSize
     THEN SetHead(SetFoot(SetHead(fence, end, Hdr, TRUE), end, Hdr), old, rest, TRUE)
     ELSE SetFoot(SetHead(fence, old, rest + Hdr, TRUE), old, rest + Hdr)

----------------------------------------------------------------------------
(* heap_trim *)

TopFillsHeap(a) == a.top = NewestHeap(a) + HeapInfo

(* The free end of the heap before the newest: from `from`, of size `size`, *)
(* up to its end, with its fencepost. `ok` is what the assertions ask.      *)
EndOfPrevious(a) ==
  LET prev  == a.heaps[NewestHeap(a)].prev
      end   == HeapEnd(a, prev)
      fence == end - Hdr
      p     == PrevOf(a, fence)
      free  == ~ PrevInUse(a, p)
      from  == IF free THEN PrevOf(a, p) ELSE p
  IN [from |-> from, size |-> end - from, p |-> p, fence |-> fence, room |-> MaxHeap - a.heaps[prev].size,
      ok |-> /\ fence \in DOMAIN a.chunk /\ SizeOf(a, fence) = 0 /\ PrevInUse(a, fence)
             /\ SizeOf(a, p) + Hdr \in 1 .. 2 * MinSize - 1
             /\ p + SizeOf(a, p) = fence
             /\ end - from \in 1 .. MaxHeap - 1 /\ end % Page = 0
             /\ free => UnlinkChecks(a, from)]

(* One turn of the loop: the newest heap, all of it top, goes away, unless  *)
(* what is left would be too little.                                        *)
DeleteHeap(a, pad) ==
  LET e == EndOfPrevious(a)
      h == NewestHeap(a)
      unlinked == Unlink(a, e.from)
      bare == [unlinked EXCEPT !.chunk = [q \in DOMAIN @ \ {a.top, e.fence, e.p} |-> @[q]],
                               !.heaps = [x \in DOMAIN @ \ {h} |-> @[x]],
                               !.sysmem = @ - a.heaps[h].size, !.top = e.from]
  IN IF ~ e.ok THEN [a EXCEPT !.bad = TRUE]
     ELSE IF e.size + e.room < pad + MinSize + Page THEN a
     ELSE SetHead(bare, e.from, e.size, TRUE)

DeleteHeaps(a, pad) ==
  LET f[n \in 0 .. Cardinality(DOMAIN a.heaps)] ==
        IF n = 0 THEN a
        ELSE IF TopFillsHeap(f[n - 1]) /\ ~ f[n - 1].bad THEN DeleteHeap(f[n - 1], pad) ELSE f[n - 1]
  IN f[Cardinality(DOMAIN a.heaps)]

(* shrink_heap: the end is mapped afresh, which may fail, or advised away   *)
(* and stays accessible.                                                    *)
ShrinkHeap(a, extra) ==
  LET h == NewestHeap(a)
      n == a.heaps[h].size - extra
  IN SetHead([a EXCEPT !.heaps[h].size = n, !.heaps[h].prot = IF a.shrinks THEN n ELSE @,
                       !.sysmem = @ - extra],
             a.top, TopSize(a) - extra, TRUE)

TrimTop(a, pad, ok) ==
  LET topArea == TopSize(a) - MinSize - 1
      extra   == AlignDown(topArea - pad, Page)
  IN IF a.bad \/ TopSize(a) < TrimThreshold \/ topArea <= pad \/ extra = 0
        \/ a.heaps[NewestHeap(a)].size - extra < HeapInfo \/ (a.shrinks /\ ~ ok)
     THEN a
     ELSE ShrinkHeap(a, extra)

(* The arenas it may leave. *)
HeapTrim(a, pad, oks) == { TrimTop(b, pad, ok) : b \in {DeleteHeaps(a, pad)}, ok \in oks }
=============================================================================
