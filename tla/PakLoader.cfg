\* An owner, a thread that waits for it and one that overwrites its record; one
\* change to the file, by a new file or in place.
SPECIFICATION Spec
CONSTANTS
  t1 = t1
  t2 = t2
  t3 = t3
  i1 = i1
  Threads = {t1, t2, t3}
  Identities = {i1}
  NoThread = NoThread
  MaxVersion = 1
  InPlace = TRUE
  MemoryFaults = TRUE
SYMMETRY Symmetry
INVARIANTS
  TypeOK
  SeesOpenedFile
  WaiterHasOwner
  OrphanIsBroken
  UnchangedCheckedOnce
