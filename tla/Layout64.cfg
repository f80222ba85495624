\* SIZE_SZ 8, MALLOC_ALIGNMENT 16, and the default parameters in units of 16 bytes.
CONSTANTS
  SIZE_SZ = 8
  MALLOC_ALIGNMENT = 16
  Word <- MCWord
  Requests <- MCRequests
  IntBits = 24
  PageSize = 4096
  CacheLimits <- MCCacheLimits
  AskedAligns <- MCAskedAligns
  NBins = 127
  Sizes <- MCSizes
  BinIndex <- MCBinIndex
  Page = 256
  TopPad = 8192
  AttemptTrim = 4096
  TrimThreshold = 8192
  MmapThreshold = 8192
  MorecoreMin = 65536
  MaxIters = 10000
  HeapWord = 1048576
  FirstBrk = 256
  MaxBrk = 100000
SPECIFICATION ExpSpec
INVARIANTS
  ChunkHoldsRequest
  BinExists
  AnalysisHolds
  CallSizesSound
PROPERTIES
  BinsOrdered
  SmallBinsExact
