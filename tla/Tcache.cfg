\* Two threads, caches of two blocks for each size.
CONSTANTS
  Threads = {t1, t2}
  Places = {1, 2, 3}
  Aligned = {2}
  NULL = NULL
  Garbage = Garbage
  Sizes = {2, 3, 5, 6}
  Requests = {2, 3, 5}
  TcIndex <- MCTcIndex
  Bins = {1, 2}
  SmallBins = {1}
  MaxBytes = 6
  Count = 2
  StructSize = 6
SPECIFICATION FairSpec
INVARIANTS
  CachesSound
  NoFalseAlarm
PROPERTIES
  NothingOverlooked
  FitsRequest
  CallsEnd
