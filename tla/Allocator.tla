----------------------------- MODULE Allocator -----------------------------
(***************************************************************************)
(* What malloc promises its caller, whatever the arena does inside: blocks  *)
(* that never overlap a block the caller still owns, and that stay put      *)
(* until the caller frees or reallocates them.                              *)
(***************************************************************************)
EXTENDS Integers

VARIABLE owned     \* blocks the caller owns: address to length

Disjoint(b, p, q) == p + b[p] <= q \/ q + b[q] <= p

Init == owned = [p \in {} |-> 0]

(* Blocks other than those of S keep their place and length, and what is    *)
(* new overlaps none of them.                                               *)
OthersKept(S) ==
  /\ DOMAIN owned \ S \subseteq DOMAIN owned'
  /\ \A p \in DOMAIN owned \ S : owned'[p] = owned[p]
  /\ \A p, q \in DOMAIN owned' : p # q => Disjoint(owned', p, q)

Allocate == \E p \in DOMAIN owned' \ DOMAIN owned :
              DOMAIN owned' = DOMAIN owned \cup {p} /\ OthersKept({})

Free == \E p \in DOMAIN owned : DOMAIN owned' = DOMAIN owned \ {p} /\ OthersKept({p})

(* The block grows or shrinks in place, or moves; its old place is free.    *)
Reallocate ==
  \E p \in DOMAIN owned, q \in DOMAIN owned' :
    DOMAIN owned' = (DOMAIN owned \ {p}) \cup {q} /\ OthersKept({p})

Next == Allocate \/ Free \/ Reallocate

Spec == Init /\ [][Next]_owned
=============================================================================
