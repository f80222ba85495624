\* A calloc that finds no memory, and one caller more.
CONSTANTS
  Hdr = 1
  MinSize = 2
  LargeMin = 4
  NBins = 6
  MaxSize = 24
  Sizes <- MCSizes
  BinIndex <- MCBinIndex
  MainArena = {TRUE}
  Clears = {8}
  Contents = TRUE
  Retries = TRUE
  HeapInfo = 1
  StateSize = 1
  MinHeap = 4
  MaxHeap = 12
  HeapBases = {12, 24}
  MayShrink = {TRUE, FALSE}
  Requests = {4}
  Alignments = {}
  Page = 4
  TopPad = 0
  TrimPads = {0}
  AttemptTrim = 6
  TrimThreshold = 8
  MmapThreshold = 100
  MorecoreMin = 8
  MaxIters = 3
  Word = 512
  FirstBrk = 4
  MaxBrk = 24
  SysOutcomes = {TRUE, FALSE}
  ForeignIncs = {}
  MapBase = 40
  MaxMap = 48
SPECIFICATION Spec
PROPERTY CallocRetryClears
