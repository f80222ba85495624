------------------------------- MODULE MCLists -------------------------------
(* All linked-list programs and the large bin of malloc.c, each from its    *)
(* own initial state, and what they promise.                                *)
EXTENDS LargeBin, TLC

Next == DequeNext \/ SkipNext \/ BinNext
Spec == Init /\ [][Next]_vars

Symmetry == Permutations(NodeIds)

----------------------------------------------------------------------------
Dangles(f, l) == <<f, l>> \in mem.dangling

(* The node at an end of a list: its header's, or the neighbour of the      *)
(* other header's where this one dangles.                                   *)
First(l) == IF Dangles("next", l) THEN Get(mem, "next", mem.prev[l]) ELSE mem.next[l]
Final(l) == IF Dangles("prev", l) THEN Get(mem, "prev", mem.next[l]) ELSE mem.prev[l]

(* The nodes of a list from its first to its last.                          *)
Contents(l) ==
  IF prog \in Faked THEN displayFromHead(mem, prog, l)
  ELSE IF mem.next[l] = NULL \/ (Dangles("next", l) /\ Dangles("prev", l)) THEN <<>>
  ELSE IF mem.next[l] = mem.prev[l] THEN <<mem.next[l]>>
  ELSE Printed(mem, "next", First(l), First(l))

(* No function follows a NULL, an uninitialised or a freed pointer, whatever *)
(* the calls before it, and only program 3 leaves a header at a freed node. *)
NoBadAccess == ~ mem.bad /\ (mem.dangling # {} => prog = "node_ptr")

(* A display prints the list in order from its head, in reverse from its    *)
(* tail, and ends: the links are circular and each other's inverse. In      *)
(* programs 1 and 2 a list pushed once has NULL links and must not be       *)
(* displayed; with two pointers no empty list may be, and with a header     *)
(* that dangles only from the other end.                                    *)
DisplaysContents ==
  \A l \in InUse(prog) :
    LET s == Contents(l)
    IN (prog \in Headered => Len(s) > (IF prog = "node_ptr" THEN 0 ELSE 1)) =>
         /\ Dangles("next", l) \/ displayFromHead(mem, prog, l) = s
         /\ IF Dangles("prev", l) THEN Printed(mem, "prev", Final(l), Final(l)) = Reverse(s)
            ELSE displayFromTail(mem, prog, l) = Reverse(s)

(* No node is lost: every node malloc gave and free did not take back is in *)
(* one list, once.                                                          *)
NoLostNode ==
  /\ UNION { Range(Contents(l)) : l \in InUse(prog) } = mem.alive
  /\ Cardinality(mem.alive) = FoldSet(LAMBDA l, n : n + Len(Contents(l)), 0, InUse(prog))

(* No link is followed to nowhere, no node drops out of its list, and both  *)
(* directions of a list agree, whatever pushes and deletes came before.     *)
(* Program 3 is the exception that its deletes, given the headers by value  *)
(* (3-node_ptr-array.c:95, 125), leave the caller's header at the node they *)
(* free: up to its first delete a list of it is as sound as the others, and *)
(* after it the nodes that remain still are a sound ring, to be entered     *)
(* from the other end; but nothing may be called on the list any more       *)
(* (Usable).                                                                *)
ListsSound == NoBadAccess /\ NoLostNode /\ DisplaysContents

(* The skip ring passes the first node of each value, in the order of the   *)
(* list, both ways round, and no other node has skip links: what the walk   *)
(* and the search of a large bin rely on, though unlink_chunk may take the  *)
(* first of a size. An unlinkNode breaks it, the next linkNode mends it.    *)
SkipExact ==
  prog \in {"skip", "large_bin"} /\ relinked =>
    LET s      == Contents(1)
        first  == SelectSeq(s, LAMBDA n : \A i \in 1 .. Len(s) :
                               mem.data[s[i]] = mem.data[n] => Min({ j \in 1 .. Len(s) : s[j] = n }) <= i)
    IN /\ displaySkipList(mem, 1) = first
       /\ \A n \in mem.alive \ Range(first) : mem.skip_next[n] = NULL /\ mem.skip_prev[n] = NULL
       /\ \A n \in Range(first) : mem.skip_prev[mem.skip_next[n]] = n

(* The programs keep lists. *)
Abstract == INSTANCE ListSpec WITH
  Nodes <- NodeIds,
  kind  <- IF prog = "skip" THEN "sorted" ELSE "deque",
  lists <- [l \in Lists |-> IF prog = "large_bin" THEN <<>> ELSE Contents(l)],
  data  <- [n \in (IF prog = "large_bin" THEN {} ELSE mem.alive) |-> mem.data[n]]
ImplementsLists == Abstract!Spec

(* A large bin is the sequence Chunks takes it for: a chunk is inserted at  *)
(* LargePosition, the search by sizes ends at LargeVictim, and whatever     *)
(* leaves it leaves the others in their order.                              *)
Bins == INSTANCE Chunks WITH
  Hdr <- 1, MinSize <- 1, LargeMin <- 1, NBins <- 2, Sizes <- Values, BinIndex <- [s \in Values |-> 2]
Bin == Contents(BinHead)
AsArena == [chunk |-> [n \in mem.alive |-> [size |-> mem.data[n]]], bins |-> <<<<>>, Bin>>]
ImplementsBin ==
  [][prog = "large_bin" =>
       /\ \A n \in mem'.alive \ mem.alive :
            Bin' = InsertAt(Bin, Bins!LargePosition(AsArena, 2, mem'.data[n]), n)
       /\ mem'.alive \subseteq mem.alive => Bin' = SelectSeq(Bin, LAMBDA n : n \in mem'.alive)
       /\ \A nb \in Values : Fits(mem, nb) => VictimFor(mem, nb) = Bins!LargeVictim(AsArena, 2, nb)]_vars
=============================================================================
