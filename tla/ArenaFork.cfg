\* One fork, two threads, two arenas, no limit set; liveness.
CONSTANTS
  t1 = t1 t2 = t2 t3 = t3 main = main a1 = a1 a2 = a2
  Threads <- TwoThreads
  InitThread = t1
  Arenas <- TwoArenas
  Main = main
  NoArena = NoArena
  NoThread = NoThread
  ArenaMax = 0
  ArenaTest = 1
  CoreLimit = 2
  Walkers = {t1}
  MaxForks = 1
SPECIFICATION FairSpec
PROPERTIES
  ForkReturns
  CallsReturn
