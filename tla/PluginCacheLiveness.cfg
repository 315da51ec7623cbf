\* No allocation fails: every request returns.  Two names on one file make the
\* threads compete for open_mutex.
SPECIFICATION FairSpec
CONSTANTS
  t1 = t1
  t2 = t2
  n1 = n1
  n2 = n2
  f1 = f1
  Threads = {t1, t2}
  Names = {n1, n2}
  Files = {f1}
  NoThread = NoThread
  NoFile = NoFile
  MaxPaths = 1
  MaxLost = 1
  MemoryFaults = FALSE
INVARIANT
  OpenedOnce
PROPERTY
  RequestsReturn
