\* arena_max = 2: two arenas for three threads, arenas are shared and reused.
CONSTANTS
  t1 = t1 t2 = t2 t3 = t3 main = main a1 = a1 a2 = a2
  Threads <- ThreeThreads
  InitThread = t1
  Arenas <- TwoArenas
  Main = main
  NoArena = NoArena
  NoThread = NoThread
  ArenaMax = 2
  ArenaTest = 1
  CoreLimit = 2
  Walkers = {}
  MaxForks = 0
SPECIFICATION Spec
SYMMETRY Symmetry
INVARIANTS
  TypeOK
  AttachedIsCount
  FreeListUnused
  DetachPositive
  NoArenaLost
  LocksSafe
  ScanStaysOnList
  NarenasBounds
