\* Other code moves the break, sbrk fails, mmap stands in for it, calloc tries again.
CONSTANTS
  Hdr = 1
  MinSize = 2
  LargeMin = 4
  NBins = 6
  MaxSize = 24
  Sizes <- MCSizes
  BinIndex <- MCBinIndex
  MainArena = {TRUE}
  Clears = {5}
  Contents = FALSE
  Retries = TRUE
  HeapInfo = 1
  StateSize = 1
  MinHeap = 4
  MaxHeap = 12
  HeapBases = {}
  MayShrink = {TRUE, FALSE}
  Requests = {5}
  Alignments = {}
  Page = 4
  TopPad = 0
  TrimPads = {0}
  AttemptTrim = 8
  TrimThreshold = 16
  MmapThreshold = 100
  MorecoreMin = 8
  MaxIters = 3
  Word = 512
  FirstBrk = 4
  MaxBrk = 21
  SysOutcomes = {TRUE, FALSE}
  ForeignIncs = {1}
  MapBase = 40
  MaxMap = 48
SPECIFICATION Spec
INVARIANTS
  StatePassesChecks
  GrowthSuffices
  OwnMemoryOnly
