\* The break moves by less than a page after mmap stood in for it.
CONSTANTS
  Hdr = 1
  MinSize = 2
  LargeMin = 4
  NBins = 6
  MaxSize = 24
  Sizes <- MCSizes
  BinIndex <- MCBinIndex
  MainArena = {TRUE}
  Clears = {}
  Contents = FALSE
  Retries = FALSE
  HeapInfo = 1
  StateSize = 1
  MinHeap = 4
  MaxHeap = 12
  HeapBases = {}
  MayShrink = {TRUE, FALSE}
  Requests = {2, 5}
  Alignments = {}
  Page = 4
  TopPad = 0
  TrimPads = {0}
  AttemptTrim = 6
  TrimThreshold = 16
  MmapThreshold = 100
  MorecoreMin = 8
  MaxIters = 3
  Word = 512
  FirstBrk = 4
  MaxBrk = 24
  SysOutcomes = {TRUE, FALSE}
  ForeignIncs = {1}
  MapBase = 40
  MaxMap = 48
SPECIFICATION Spec
INVARIANT SysmallocEntry
