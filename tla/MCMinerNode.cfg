CONSTANTS
  Stale = Stale
  NoThread = NoThread
  Threads = {m1, s1, n1}
  Miners = {m1}
  Minters = {s1}
  numSimultaneous = 1
  numWorkers = 1
  N = 2
  MaxBest = 1
SPECIFICATION NodeSpec
INVARIANTS
  FlagOwned
  NoStaleMined
PROPERTY
  CheckCompletes
