----------------------------- MODULE LinkedLists -----------------------------
(***************************************************************************)
(* The circular doubly linked lists of src/linked-lists: one List, an array *)
(* of Lists, an array of node pointers, and three versions with a fake node *)
(* in the place of the headers. The program is chosen in the initial state. *)
(*                                                                          *)
(* A definition whose name ends in _slip is a plausible mistake in the one  *)
(* that follows it; nothing uses it but the check of the properties.        *)
(***************************************************************************)
EXTENDS Nodes

InUse(p) == IF p = "simple_dll" THEN {1} ELSE Lists

----------------------------------------------------------------------------
(* Head and tail pointers (programs 1, 2 and 3). Program 3 links the only   *)
(* node of a list to itself, the others leave its links NULL.               *)

HeaderPush_slip(m, l, n, end, self) ==
  LET head == m.next[l]
      tail == m.prev[l]
  IN IF head = NULL /\ tail = NULL
     THEN Assign(m, <<<<"next", l, n>>, <<"prev", l, n>>, <<"next", n, self>>, <<"prev", n, self>>>>)
     ELSE Assign(m, <<<<"prev", n, tail>>, <<"next", n, head>>, <<"next", tail, n>>, <<end, l, n>>>>)
HeaderPush(m, l, n, end, self) ==
  LET head == m.next[l]
      tail == m.prev[l]
  IN IF head = NULL /\ tail = NULL
     THEN Assign(m, <<<<"next", l, n>>, <<"prev", l, n>>, <<"next", n, self>>, <<"prev", n, self>>>>)
     ELSE Assign(m, <<<<"prev", n, tail>>, <<"next", n, head>>, <<"next", tail, n>>,
                      <<end, l, n>>, <<"prev", head, n>>>>)

(* Take out the node at an end. In program 3 the headers are parameters, so *)
(* what is assigned to them is lost (byValue) and the caller's stay at the  *)
(* node that is freed.                                                      *)
HeaderDelete(m, l, end, byValue) ==
  LET head    == m.next[l]
      tail    == m.prev[l]
      next    == Get(m, "next", head)
      prev    == Get(m, "prev", tail)
      h(f, v) == IF byValue THEN <<>> ELSE <<<<f, l, v>>>>
  IN IF head = NULL THEN m
     ELSE IF head = tail THEN Release(Assign(m, h("next", NULL) \o h("prev", NULL)), head)
     ELSE IF end = "next"
     THEN Release(Assign(m, <<<<"next", tail, next>>, <<"prev", next, tail>>>> \o h("next", next)), head)
     ELSE Release(Assign(m, <<<<"prev", head, prev>>, <<"next", prev, head>>>> \o h("prev", prev)), tail)

SimpleDelete(m, l, end)  == HeaderDelete(m, l, end, FALSE)

ListPtrPush(m, l, n, end) == HeaderPush(m, l, n, end, NULL)
ListPtrDelete(m, l, end)  == HeaderDelete(m, l, end, FALSE)

NodePtrPush(m, l, n, end) == HeaderPush(m, l, n, end, n)
NodePtrDelete(m, l, end)  == HeaderDelete(m, l, end, TRUE)

----------------------------------------------------------------------------
(* A fake node (programs 4): version 1 tells the empty list, and the list   *)
(* of one node, apart; version 2 does not; version 3 links next to the node *)
(* at that end.                                                             *)

Fake1PushHead(m, l, n) ==
  IF m.next[l] = l
  THEN Assign(m, <<<<"next", n, m.prev[l]>>, <<"prev", n, m.next[l]>>, <<"next", l, n>>, <<"prev", l, n>>>>)
  ELSE Assign(m, <<<<"next", n, m.next[l]>>, <<"prev", n, l>>,
                   <<"prev", m.next[l], n>>, <<"next", l, n>>>>)

Fake1PushTail(m, l, n) ==
  IF m.next[l] = l
  THEN Assign(m, <<<<"next", l, n>>, <<"prev", l, n>>, <<"next", n, l>>, <<"prev", n, l>>>>)
  ELSE Assign(m, <<<<"prev", n, m.prev[l]>>, <<"next", n, l>>,
                   <<"next", m.prev[l], n>>, <<"prev", l, n>>>>)

Fake2PushHead(m, l, n) ==
  Assign(m, <<<<"next", n, m.next[l]>>, <<"prev", n, l>>, <<"prev", m.next[l], n>>, <<"next", l, n>>>>)

Fake2PushTail(m, l, n) ==
  Assign(m, <<<<"prev", n, m.prev[l]>>, <<"next", n, l>>, <<"next", m.prev[l], n>>, <<"prev", l, n>>>>)

(* A new node between the node cur and the one in front of it, or behind.   *)
LinkBefore(m, cur, n) ==
  LET prev == Get(m, "prev", cur)
  IN Assign(m, <<<<"next", n, cur>>, <<"prev", n, prev>>, <<"next", prev, n>>, <<"prev", cur, n>>>>)
LinkAfter(m, cur, n) ==
  LET next == Get(m, "next", cur)
  IN Assign(m, <<<<"prev", n, cur>>, <<"next", n, next>>, <<"prev", next, n>>, <<"next", cur, n>>>>)

Fake3PushHead(m, l, n) == LinkBefore(m, m.next[l], n)
Fake3PushTail(m, l, n) == LinkAfter(m, m.prev[l], n)

Fake1Single(m, l, n) == Release(Assign(m, <<<<"next", l, l>>, <<"prev", l, l>>>>), n)

FakeDeleteHead(m, l) ==
  LET head == m.next[l]
      next == Get(m, "next", head)
  IN IF head = l THEN m
     ELSE Release(Assign(m, <<<<"prev", next, l>>, <<"next", l, next>>>>), head)

FakeDeleteTail(m, l) ==
  LET tail == m.prev[l]
      prev == Get(m, "prev", tail)
  IN IF m.next[l] = l THEN m
     ELSE Release(Assign(m, <<<<"prev", l, prev>>, <<"next", prev, l>>>>), tail)

Fake1DeleteHead(m, l) ==
  LET head == m.next[l]
  IN IF head # l /\ Get(m, "next", head) = l THEN Fake1Single(m, l, head) ELSE FakeDeleteHead(m, l)

Fake1DeleteTail(m, l) ==
  LET tail == m.prev[l]
  IN IF m.next[l] # l /\ Get(m, "prev", tail) = l
     THEN Fake1Single(m, l, tail) ELSE FakeDeleteTail(m, l)

----------------------------------------------------------------------------
pushAtHead(m, l, n) ==
  CASE prog = "simple_dll" -> HeaderPush(m, l, n, "next", NULL)
    [] prog = "list_ptr" -> ListPtrPush(m, l, n, "next")
    [] prog = "node_ptr" -> NodePtrPush(m, l, n, "next")
    [] prog = "fake1" -> Fake1PushHead(m, l, n)
    [] prog = "fake2" -> Fake2PushHead(m, l, n)
    [] prog = "fake3" -> Fake3PushHead(m, l, n)

pushAtTail(m, l, n) ==
  CASE prog = "simple_dll" -> HeaderPush(m, l, n, "prev", NULL)
    [] prog = "list_ptr" -> ListPtrPush(m, l, n, "prev")
    [] prog = "node_ptr" -> NodePtrPush(m, l, n, "prev")
    [] prog = "fake1" -> Fake1PushTail(m, l, n)
    [] prog = "fake2" -> Fake2PushTail(m, l, n)
    [] prog = "fake3" -> Fake3PushTail(m, l, n)

deleteFrom(m, l, end) ==
  CASE prog = "simple_dll" -> SimpleDelete(m, l, end)
    [] prog = "list_ptr" -> ListPtrDelete(m, l, end)
    [] prog = "node_ptr" -> NodePtrDelete(m, l, end)
    [] prog = "fake1" /\ end = "next" -> Fake1DeleteHead(m, l)
    [] prog = "fake1" /\ end = "prev" -> Fake1DeleteTail(m, l)
    [] prog \in {"fake2", "fake3"} /\ end = "next" -> FakeDeleteHead(m, l)
    [] prog \in {"fake2", "fake3"} /\ end = "prev" -> FakeDeleteTail(m, l)

(* A list with a header at a freed node is of no more use: what a call      *)
(* would do with it is undefined, even where malloc has given the address   *)
(* again. Only the deletes of program 3 leave such a list (ListsSound).     *)
Usable(l) == \A f \in {"next", "prev"} : <<f, l>> \notin mem.dangling

(* malloc may return any address that is not in use; when it returns NULL,  *)
(* a push returns -1 and leaves everything as it is.                        *)
Push(l) ==
  /\ \/ UNCHANGED mem
     \/ \E n \in NodeIds \ mem.alive :
          LET m == createNode(mem, n, Min(Values))
          IN mem' = pushAtHead(m, l, n) \/ mem' = pushAtTail(m, l, n)
  /\ UNCHANGED <<prog, relinked>>

Delete(l) ==
  /\ \E end \in {"next", "prev"} : mem' = deleteFrom(mem, l, end)
  /\ UNCHANGED <<prog, relinked>>

DequeNext ==
  /\ prog \notin {"skip", "large_bin"} /\ ~ mem.bad
  /\ \E l \in InUse(prog) : Usable(l) /\ (Push(l) \/ Delete(l))
=============================================================================
