\* malloc_trim with the smallest top there is.
CONSTANTS
  Hdr = 1
  MinSize = 2
  LargeMin = 4
  NBins = 6
  MaxSize = 24
  Sizes <- MCSizes
  BinIndex <- MCBinIndex
  MainArena = {TRUE}
  Clears = {}
  Contents = FALSE
  Retries = FALSE
  HeapInfo = 1
  StateSize = 1
  MinHeap = 4
  MaxHeap = 12
  HeapBases = {}
  MayShrink = {TRUE, FALSE}
  Requests = {2, 4}
  Alignments = {}
  Page = 4
  TopPad = 0
  TrimPads = {0}
  AttemptTrim = 6
  TrimThreshold = 16
  MmapThreshold = 100
  MorecoreMin = 8
  MaxIters = 3
  Word = 512
  FirstBrk = 4
  MaxBrk = 24
  SysOutcomes = {TRUE}
  ForeignIncs = {}
  MapBase = 40
  MaxMap = 40
SPECIFICATION Spec
PROPERTY TrimNeverGrows
