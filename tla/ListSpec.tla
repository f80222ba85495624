------------------------------ MODULE ListSpec ------------------------------
(***************************************************************************)
(* What the linked-list programs promise: lists are sequences of nodes that *)
(* grow and shrink at their ends, or, in the sorted program, one sequence   *)
(* in which a new node goes behind those whose value is not larger.         *)
(***************************************************************************)
EXTENDS Integers, Sequences, FiniteSets, SequencesExt

CONSTANT Nodes
VARIABLES
  kind,   \* "deque" or "sorted"
  lists,  \* index to sequence of nodes
  data    \* node to value, for the nodes in a list

In(l) == { lists[l][i] : i \in 1 .. Len(lists[l]) }
Linked == UNION { In(l) : l \in DOMAIN lists }

Init == kind \in {"deque", "sorted"} /\ lists = [l \in DOMAIN lists |-> <<>>] /\ data = [n \in {} |-> 0]

PushFront(l, n) == lists' = [lists EXCEPT ![l] = <<n>> \o @]
PushBack(l, n)  == lists' = [lists EXCEPT ![l] = Append(@, n)]
PopFront(l)     == lists[l] # <<>> /\ lists' = [lists EXCEPT ![l] = Tail(@)]
PopBack(l)      == lists[l] # <<>> /\ lists' = [lists EXCEPT ![l] = Front(@)]

(* Equal values stay in the order in which they came. *)
InsertSorted(l, n) ==
  LET notLarger == { i \in 1 .. Len(lists[l]) : data[lists[l][i]] <= data'[n] }
  IN lists' = [lists EXCEPT ![l] = InsertAt(@, Cardinality(notLarger) + 1, n)]
Unlink(l, i) == lists' = [lists EXCEPT ![l] = RemoveAt(@, i)]

Next ==
  /\ UNCHANGED kind
  /\ \E l \in DOMAIN lists :
       \/ \E n \in Nodes \ Linked :
            /\ DOMAIN data' = DOMAIN data \cup {n} /\ \A p \in DOMAIN data : data'[p] = data[p]
            /\ \/ kind = "deque" /\ (PushFront(l, n) \/ PushBack(l, n))
               \/ kind = "sorted" /\ InsertSorted(l, n)
       \/ /\ DOMAIN data' = DOMAIN data \cap (Linked')
          /\ \A p \in DOMAIN data' : data'[p] = data[p]
          /\ \/ kind = "deque" /\ (PopFront(l) \/ PopBack(l))
             \/ kind = "sorted" /\ \E i \in 1 .. Len(lists[l]) : Unlink(l, i)

Spec == Init /\ [][Next]_<<kind, lists, data>>
=============================================================================
