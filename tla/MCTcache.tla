------------------------------ MODULE MCTcache ------------------------------
(* Tcache with small bins of one size and a large one of two sizes. *)
EXTENDS Tcache, TLC

MCTcIndex == 2 :> 1 @@ 3 :> 2 @@ 5 :> 2
=============================================================================
