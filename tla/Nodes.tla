-------------------------------- MODULE Nodes --------------------------------
(***************************************************************************)
(* The memory of the linked-list programs (src/linked-lists): nodes from    *)
(* malloc and the array of list headers.                                    *)
(*                                                                          *)
(* The two header words of list l are a head and a tail pointer, or, in the *)
(* programs with a fake node, the next and the prev field of a node that    *)
(* starts 8 bytes in front of them. Either way they are next[l] and prev[l] *)
(* here, and l is the address of that node.                                 *)
(***************************************************************************)
EXTENDS Integers, Sequences, FiniteSets, SequencesExt

CONSTANTS
  NodeIds,    \* addresses malloc can return
  NULL,
  Wild,       \* what an uninitialised field, or a field of a freed node, holds
  Lists,      \* indices of the header array
  Values,     \* data of the nodes; only the sorted lists look at it
  Programs    \* the programs of an instance

Headered == {"simple_dll", "list_ptr", "node_ptr"}  \* head and tail pointers
Faked    == {"fake1", "fake2", "fake3", "skip",      \* 4-fake-node-impl, (2), (3), 6-skip-list
             "large_bin"}                           \* a large bin of malloc.c (LargeBin)

ASSUME NodesAssumption ==
  /\ IsFiniteSet(NodeIds) /\ NULL \notin NodeIds /\ Wild \notin NodeIds
  /\ Lists \subseteq Nat /\ 1 \in Lists /\ Values \subseteq Int
  /\ Programs \subseteq Headered \cup Faked

VARIABLES
  prog,     \* the program that runs
  mem,      \* its memory: the fields by address; the nodes allocated (alive); the
            \* header words <<field, list>> left at a freed node (dangling); and bad,
            \* set when a NULL, wild or freed pointer is written through
  relinked  \* skip list: nothing was unlinked since the skip links were made

vars == <<prog, mem, relinked>>

Addresses == NodeIds \cup Lists

Valid(m, a)   == a \in m.alive \cup Lists
Get(m, f, a)  == IF Valid(m, a) THEN m[f][a] ELSE Wild
Put(m, f, a, v) ==
  IF Valid(m, a) THEN [m EXCEPT ![f] = [@ EXCEPT ![a] = v], !.dangling = @ \ {<<f, a>>}]
  ELSE [m EXCEPT !.bad = TRUE]

(* A run of assignments <<field, node, value>>; none of the functions reads *)
(* a field again that it has written.                                       *)
Assign(m, stores) == FoldLeft(LAMBDA g, s : Put(g, s[1], s[2], s[3]), m, stores)

createNode(m, n, v) ==
  [m EXCEPT !.alive = @ \cup {n}, !.data[n] = v, !.next[n] = NULL, !.prev[n] = NULL,
            !.skip_next[n] = Wild, !.skip_prev[n] = Wild]

(* free: the fields of the node are not read again. *)
Release(m, n) ==
  IF n \notin m.alive THEN [m EXCEPT !.bad = TRUE]
  ELSE [m EXCEPT !.alive = @ \ {n}, !.data[n] = Wild, !.next[n] = Wild, !.prev[n] = Wild,
                 !.skip_next[n] = Wild, !.skip_prev[n] = Wild,
                 !.dangling = @ \cup { w \in {"next", "prev"} \X Lists : m[w[1]][w[2]] = n }]

(* initLists, initListHeaders *)
InitialHeader(p, l) == IF p \in Headered THEN NULL ELSE l

Init ==
  /\ prog \in Programs
  /\ LET fields(word) == [a \in Addresses |-> IF a \in Lists THEN word[a] ELSE Wild]
         headers == [l \in Lists |-> InitialHeader(prog, l)]
         none    == [l \in Lists |-> Wild]
     IN mem = [next |-> fields(headers), prev |-> fields(headers), data |-> fields(none),
               skip_next |-> fields(none), skip_prev |-> fields(none),
               alive |-> {}, dangling |-> {}, bad |-> FALSE]
  /\ relinked = TRUE

----------------------------------------------------------------------------
(* The addresses a pointer passes when it follows field f from a. *)
Path(m, f, a) ==
  LET p[k \in 0 .. Cardinality(NodeIds)] == IF k = 0 THEN a ELSE Get(m, f, p[k - 1]) IN p

(* The nodes a display loop prints before its pointer is at stop; Wild when *)
(* it follows a bad pointer or never gets there.                            *)
Printed(m, f, start, stop) ==
  LET p    == Path(m, f, start)
      ends == { k \in DOMAIN p : Get(m, f, p[k]) = stop /\ \A j \in 0 .. k : p[j] \in m.alive }
  IN IF ends = {} THEN Wild ELSE [i \in 1 .. Min(ends) + 1 |-> p[i - 1]]

(* What a display prints along f. With a fake node an empty list is no list *)
(* to walk; with two pointers the loop reads *head first.                   *)
Display(m, p, f, l) ==
  IF p \in Headered THEN Printed(m, f, m[f][l], m[f][l])
  ELSE IF m[f][l] = l THEN <<>> ELSE Printed(m, f, m[f][l], l)

displayFromHead(m, p, l) == Display(m, p, "next", l)
displayFromTail(m, p, l) == Display(m, p, "prev", l)
=============================================================================
