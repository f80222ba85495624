--------------------------- MODULE MCExperiments ---------------------------
(* The experiments, and requests around every boundary of the size classes *)
(* and around the ends of a 24-bit address space, in the 64-bit layout.    *)
EXTENDS Experiments

MCWord == 16777216

Boundaries == {512, 1008, 1024, 2048, 2496, 2944, 3136, 4096, 10752, 45056, 163840, 786432, 4194304,
               MCWord \div 2, MCWord}
MCRequests == 0 .. 150 \cup
  { r \in UNION { {b + d : d \in {-33, -25, -17, -16, -9, -8, -7, -1, 0, 1, 7, 8, 9, 17, 40}} :
                  b \in Boundaries } : r < MCWord }

MCCacheLimits == {0, 24, 25, 1032, 1033, 1049, 2047, 2048, 4194280, 4194303, 4194304, 8000000}
MCAskedAligns == {0, 1, 2, 8, 16, 17, 24, 31, 32, 33, 40, 48, 64, 100, 4096, 4097, 65537,
                  MCWord \div 4 + 1, MCWord \div 2 - 1, MCWord \div 2, MCWord \div 2 + 1, MCWord - 1}

(* The sizes that are searched for or put in a bin, in units. *)
MCSizes == 2 .. 330 \cup {8449}
MCBinIndex == [s \in MCSizes |-> bin_index(MALLOC_ALIGNMENT * s)]
=============================================================================
