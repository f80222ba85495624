---------------------------- MODULE MCArenaList ----------------------------
(* ArenaList on a few threads and arenas; everything but the initial thread *)
(* and main_arena is interchangeable.                                       *)
EXTENDS ArenaList, TLC

CONSTANTS t1, t2, t3, main, a1, a2

TwoThreads == {t1, t2}
ThreeThreads == {t1, t2, t3}
TwoArenas == {main, a1}

Symmetry == Permutations(Threads \ {InitThread}) \cup Permutations(Arenas \ {Main})
=============================================================================
