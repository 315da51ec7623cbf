\* Two writers and a reader; three working names, one of them taken; contents
\* of two bytes, so that a write can be short; three working files, so that a
\* call can follow a killed one.
SPECIFICATION Spec
CONSTANTS
  p1 = p1
  p2 = p2
  r1 = r1
  w1 = w1
  w2 = w2
  w3 = w3
  Writers = {p1, p2}
  Readers = {r1}
  WorkNames = {w1, w2, w3}
  Taken = {w3}
  Size = 2
  MaxAttempts = 2
  MaxFiles = 3
  UnlinkFails = FALSE
  NoFile = NoFile
  Foreign = Foreign
  NoName = NoName
INVARIANTS
  TypeOK
  TargetComplete
  NoLeftovers
  PermissionsKept
  ReadersSeeWhole
PROPERTIES
  OthersUntouched
  KeepsPromise
