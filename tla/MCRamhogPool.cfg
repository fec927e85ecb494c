CONSTANTS
  Stale = Stale
  Threads = {t1, t2, t3}
  numSimultaneous = 2
  numWorkers = 2
  N = 2
  MaxBest = 1
SYMMETRY ThreadSymmetry
SPECIFICATION Spec
INVARIANTS
  TypeOK
  PadsSound
  JobsBelong
  HashFromOwnInput
  CheckNeverInterrupted
