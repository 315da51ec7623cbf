SPECIFICATION Spec
CONSTANTS
  t1 = t1
  t2 = t2
  n1 = n1
  f1 = f1
  Threads = {t1, t2}
  Names = {n1}
  Files = {f1}
  NoThread = NoThread
  NoFile = NoFile
  MaxPaths = 1
  MaxLost = 1
  MemoryFaults = TRUE
INVARIANT
  OpenedOnce
