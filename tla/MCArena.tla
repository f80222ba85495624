---------------------------- MODULE MCArena --------------------------------
(* Arena with small sizes: chunks of 2 and 3 units are small, larger    *)
(* ones share large bins of two sizes each.                                 *)
EXTENDS Arena

CONSTANT MaxSize     \* largest chunk size that can occur

MCSizes == MinSize .. MaxSize
MCBinIndex == [s \in MCSizes |-> IF s < LargeMin THEN s
                                 ELSE LET i == LargeMin + (s - LargeMin) \div 2
                                      IN IF i > NBins THEN NBins ELSE i]
=============================================================================
