------------------------------ MODULE LargeBin ------------------------------
(***************************************************************************)
(* A large bin as malloc.c links it: chunks by descending size on fd and    *)
(* bk, and the first chunk of every size on the ring of fd_nextsize and     *)
(* bk_nextsize, which is NULL in the others. Here fd is next, bk is prev,   *)
(* the ring is skip_next and skip_prev, the size is the node's data, and    *)
(* the bin is the fake node 1: what lies where its ring fields would be is  *)
(* the next bin's, and never NULL. Chunks takes the bin for a sequence;     *)
(* this is the memory under it.                                             *)
(*                                                                          *)
(* A definition whose name ends in _slip is a plausible mistake in the one  *)
(* that follows it; nothing uses it but the check of the properties.        *)
(***************************************************************************)
EXTENDS SkipList

BinHead == 1

(* A consistency test, before malloc_printerr. *)
Checked(m, test) == IF test THEN m ELSE [m EXCEPT !.bad = TRUE]

(* What free and the splits put in the unsorted list has a NULL ring.       *)
FromUnsorted(m, n, size) ==
  Assign(createNode(m, n, size), <<<<"skip_next", n, NULL>>, <<"skip_prev", n, NULL>>>>)

Between(m, n, bck, fwd) ==
  Assign(m, <<<<"prev", n, bck>>, <<"next", n, fwd>>, <<"prev", fwd, n>>, <<"next", bck, n>>>>)

(* n enters the ring in front of fwd. *)
RingBefore(m, fwd, n) ==
  LET back == Get(m, "skip_prev", fwd)
  IN Checked(Assign(m, <<<<"skip_next", n, fwd>>, <<"skip_prev", n, back>>,
                         <<"skip_prev", fwd, n>>, <<"skip_next", back, n>>>>),
             Get(m, "skip_next", back) = fwd)

(* The first node along ring field f from a whose size passes the test. *)
AlongRing(m, f, a, pass(_)) ==
  LET p    == Path(m, f, a)
      hits == { k \in DOMAIN p : p[k] \in m.alive /\ pass(m.data[p[k]]) }
  IN IF hits = {} THEN Wild ELSE p[Min(hits)]

(* The second position of its size if there is one; the walk goes by sizes, *)
(* and not at all for a new smallest.                                       *)
InsertChunk(m, n, size) ==
  LET first == m.next[BinHead]
      last  == m.prev[BinHead]
      fwd   == AlongRing(m, "skip_next", first, LAMBDA s : s <= size)
      next  == Get(m, "next", fwd)
  IN CASE first = BinHead ->
            Between(Assign(m, <<<<"skip_next", n, n>>, <<"skip_prev", n, n>>>>), n, BinHead, BinHead)
       [] first # BinHead /\ size < m.data[last] -> Between(RingBefore(m, first, n), n, last, BinHead)
       [] first # BinHead /\ size >= m.data[last] /\ Get(m, "data", fwd) = size ->
            Checked(Between(m, n, Get(m, "prev", next), next), Get(m, "next", Get(m, "prev", next)) = next)
       [] OTHER ->
            Checked(Between(RingBefore(m, fwd, n), n, Get(m, "prev", fwd), fwd),
                    Get(m, "next", Get(m, "prev", fwd)) = fwd)

(* unlink_chunk: the second of its size takes the place in the ring. *)
RingOut_slip(m, p, fd) ==
  LET up == Get(m, "skip_next", p) down == Get(m, "skip_prev", p)
  IN Assign(m, <<<<"skip_prev", up, down>>, <<"skip_next", down, up>>>>)
RingOut(m, p, fd) ==
  LET up   == Get(m, "skip_next", p)
      down == Get(m, "skip_prev", p)
  IN IF Get(m, "skip_next", fd) # NULL
     THEN Assign(m, <<<<"skip_prev", up, down>>, <<"skip_next", down, up>>>>)
     ELSE IF up = p THEN Assign(m, <<<<"skip_next", fd, fd>>, <<"skip_prev", fd, fd>>>>)
     ELSE Assign(m, <<<<"skip_next", fd, up>>, <<"skip_prev", fd, down>>,
                      <<"skip_prev", up, fd>>, <<"skip_next", down, fd>>>>)

unlink_chunk(m, p) ==
  LET fd   == Get(m, "next", p)
      bk   == Get(m, "prev", p)
      up   == Get(m, "skip_next", p)
      down == Get(m, "skip_prev", p)
      out  == Assign(m, <<<<"prev", fd, bk>>, <<"next", bk, fd>>>>)
  IN Checked(IF up = NULL THEN out
             ELSE Checked(RingOut(out, p, fd), Get(m, "skip_prev", up) = p /\ Get(m, "skip_next", down) = p),
             Get(m, "prev", fd) = p /\ Get(m, "next", bk) = p)

(* A large request's search of its own bin, from the smallest size up. *)
Fits(m, nb) == m.next[BinHead] # BinHead /\ m.data[m.next[BinHead]] >= nb
VictimFor_slip(m, nb) ==
  LET v == AlongRing(m, "skip_next", m.next[BinHead], LAMBDA s : s >= nb)
  IN IF v # m.prev[BinHead] /\ Get(m, "data", v) = Get(m, "data", Get(m, "next", v))
     THEN Get(m, "next", v) ELSE v
VictimFor(m, nb) ==
  LET v == AlongRing(m, "skip_prev", Get(m, "skip_prev", m.next[BinHead]), LAMBDA s : s >= nb)
  IN IF v # m.prev[BinHead] /\ Get(m, "data", v) = Get(m, "data", Get(m, "next", v))
     THEN Get(m, "next", v) ELSE v

BinInsert(size) ==
  \E n \in NodeIds \ mem.alive : mem' = InsertChunk(FromUnsorted(mem, n, size), n, size)

BinServes(nb) ==
  Fits(mem, nb) /\ LET v == VictimFor(mem, nb) IN mem' = Release(unlink_chunk(mem, v), v)

(* Consolidation with a neighbour takes any chunk. *)
BinUnlink(p) == mem' = Release(unlink_chunk(mem, p), p)

BinNext ==
  /\ prog = "large_bin" /\ ~ mem.bad
  /\ \/ \E size \in Values : BinInsert(size)
     \/ \E nb \in Values : BinServes(nb)
     \/ \E p \in mem.alive : BinUnlink(p)
  /\ UNCHANGED <<prog, relinked>>
=============================================================================
