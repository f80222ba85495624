----------------------------- MODULE MCMmapChunks -----------------------------
(* MmapChunks with two threads, pages of four units and headers of one, and *)
(* a program that may set the thresholds with mallopt.                      *)
EXTENDS MmapChunks, TLC

MCOptions == { <<"mmap_threshold", 7>>, <<"trim_threshold", 9>> }

(* Nothing reads the peak of mmapped_mem, and no property of the run is about it. *)
View == <<pc, blk, val, alignment, blocks, counts, maxNMmaps, params>>

Symmetry == Permutations(Threads) \cup Permutations(Blocks)
=============================================================================
