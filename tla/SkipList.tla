------------------------------ MODULE SkipList ------------------------------
(***************************************************************************)
(* 6-skip-list.c: a sorted list with a fake node, and a second ring of      *)
(* links through the first node of every value, the way a large bin keeps   *)
(* fd_nextsize and bk_nextsize.                                             *)
(*                                                                          *)
(* A definition whose name ends in _slip is a plausible mistake in the one  *)
(* that follows it; nothing uses it but the check of the properties.        *)
(***************************************************************************)
EXTENDS LinkedLists

(* The first node with a larger value, or the fake node. The loop compares  *)
(* with the fake node's data too, which is no value of a node: the result   *)
(* of that comparison does not matter.                                      *)
InsertionPoint_slip(m, l, v) ==
  LET s     == displayFromHead(m, "skip", l)
      above == { i \in 1 .. Len(s) : v <= m.data[s[i]] }
  IN IF above = {} THEN l ELSE s[Min(above)]
InsertionPoint(m, l, v) ==
  LET s     == displayFromHead(m, "skip", l)
      above == { i \in 1 .. Len(s) : v < m.data[s[i]] }
  IN IF above = {} THEN l ELSE s[Min(above)]

(* The second half of linkNode: one pass over the nodes that makes all the  *)
(* skip links anew. u is unique_node.                                       *)
SkipStep(acc, tmp) ==
  IF acc.m.data[acc.u] = acc.m.data[tmp]
  THEN [acc EXCEPT !.m = Assign(@, <<<<"skip_next", tmp, NULL>>, <<"skip_prev", tmp, NULL>>>>)]
  ELSE [m |-> Assign(acc.m, <<<<"skip_next", acc.u, tmp>>, <<"skip_prev", tmp, acc.u>>>>), u |-> tmp]

SkipLinks(m, l) ==
  LET s    == displayFromHead(m, "skip", l)
      done == FoldLeft(SkipStep, [m |-> m, u |-> Head(s)], Tail(s))
  IN Assign(done.m, <<<<"skip_next", done.u, Head(s)>>, <<"skip_prev", Head(s), done.u>>>>)

linkNode(l, v) ==
  /\ \/ UNCHANGED <<mem, relinked>>
     \/ /\ \E n \in NodeIds \ mem.alive :
             LET m == createNode(mem, n, v)
             IN mem' = SkipLinks(LinkBefore(m, InsertionPoint(m, l, v), n), l)
        /\ relinked' = TRUE
  /\ UNCHANGED prog

(* "To be written": only the first ring is mended; the node is the caller's *)
(* to free.                                                                 *)
unlinkNode(n) ==
  /\ LET next == Get(mem, "next", n)
         prev == Get(mem, "prev", n)
     IN mem' = Release(Assign(mem, <<<<"next", prev, next>>, <<"prev", next, prev>>>>), n)
  /\ relinked' = FALSE
  /\ UNCHANGED prog

SkipNext ==
  /\ prog = "skip" /\ ~ mem.bad
  /\ \/ \E v \in Values : linkNode(1, v)
     \/ \E n \in mem.alive : unlinkNode(n)

(* displaySkipList: from the first node along skip_next back to it. *)
displaySkipList(m, l) ==
  IF m.next[l] = l THEN <<>> ELSE Printed(m, "skip_next", m.next[l], m.next[l])
=============================================================================
