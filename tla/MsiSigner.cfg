\* One signer and one change by another tool: packages of both versions, sorted
\* and unsorted, signed before and not, and damaged in one place.  The header
\* lists one FAT sector, so that packages of some streams need the extended
\* index.
SPECIFICATION Spec
CONSTANTS
  alice = alice
  Signers <- MCSigners
  Geometry <- MCGeometry
  Blobs <- MCBlobs
  Packages <- MCPackages
  Others <- MCOthers
  MiniSectorSize = 2
  MiniStreamCutoff = 5
  HeaderDifatEntries = 1
  FatTurns = 8
  MaxStorageDepth = 2
  MaxSectors = 20
  Uint32Max = 20
  MaxEdits = 1
INVARIANTS
  ContentKept
  Canonical
  RebuildSound
  SignatureTold
  WalksEnd
\* On a file that is not a package no call gets past its checks.
CHECK_DEADLOCK FALSE
