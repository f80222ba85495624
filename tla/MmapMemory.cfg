\* What mallinfo says of the mapped bytes.
CONSTANTS
  Threads = {t1, t2}
  Blocks = {b1}
  NoBlock = NoBlock
  Hdr = 1
  Page = 4
  Requests = {5, 8}
  ArenaMissing = FALSE
  MinSize = 2
  Alignments = {0}
  Options = {}
  MmapMax = 1
  InitThreshold = 5
  ThresholdMax = 14
  MaxMem = 40
SPECIFICATION Spec
SYMMETRY Symmetry
INVARIANT MemExact
