\* Main and other arenas, memalign and calloc included.
CONSTANTS
  Hdr = 1
  MinSize = 2
  LargeMin = 4
  NBins = 6
  MaxSize = 24
  Sizes <- MCSizes
  BinIndex <- MCBinIndex
  MainArena = {TRUE, FALSE}
  Clears = {5}
  Contents = TRUE
  Retries = FALSE
  HeapInfo = 1
  StateSize = 1
  MinHeap = 4
  MaxHeap = 8
  HeapBases = {8, 16, 24}
  MayShrink = {TRUE, FALSE}
  Requests = {3, 5}
  Alignments = {4}
  Page = 4
  TopPad = 0
  TrimPads = {}
  AttemptTrim = 4
  TrimThreshold = 6
  MmapThreshold = 9
  MorecoreMin = 8
  MaxIters = 1
  Word = 512
  FirstBrk = 5
  MaxBrk = 20
  SysOutcomes = {TRUE, FALSE}
  ForeignIncs = {}
  MapBase = 40
  MaxMap = 40
SPECIFICATION Spec
INVARIANTS
  NoAbort
  StatePassesChecks
  TagsAgree
  HeapsEndWell
  NoLeak
  TopIsLastResort
PROPERTIES
  ResultPassesChecks
  CallocClears
  ImplementsAllocator
