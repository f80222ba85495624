\* Every interleaving of the statistics and of the sliding thresholds.
CONSTANTS
  Threads = {t1, t2}
  Blocks = {b1, b2}
  NoBlock = NoBlock
  Hdr = 1
  MinSize = 2
  Page = 4
  Requests = {2, 8}
  Alignments = {0, 8}
  ArenaMissing = TRUE
  MmapMax = 1
  InitThreshold = 5
  ThresholdMax = 12
  Options <- MCOptions
  MaxMem = 17
SPECIFICATION Spec
VIEW View
SYMMETRY Symmetry
INVARIANTS
  StatsTrack
  BlocksHold
PROPERTY
  UserThresholdStays
