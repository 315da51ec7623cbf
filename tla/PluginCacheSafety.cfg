\* Three threads, two names and one file: an owner, a sharer and a late
\* request can meet, two names can end at one file, and either a location is
\* added or the file is opened once without a record.
SPECIFICATION Spec
CONSTANTS
  t1 = t1
  t2 = t2
  t3 = t3
  n1 = n1
  n2 = n2
  f1 = f1
  Threads = {t1, t2, t3}
  Names = {n1, n2}
  Files = {f1}
  NoThread = NoThread
  NoFile = NoFile
  MaxPaths = 1
  MaxLost = 1
  MemoryFaults = TRUE
SYMMETRY Symmetry
CONSTRAINT OneOfBoth
INVARIANTS
  TypeOK
  OneLoadPerName
  WaiterHasOwner
  OrphanIsBroken
  ReturnsRemembered
  FailureSawLocations
  OpensAccounted
PROPERTY
  RememberedForGood
