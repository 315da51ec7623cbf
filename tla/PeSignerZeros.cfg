SPECIFICATION Spec
CONSTANTS
  alice = alice
  bob = bob
  Signers <- MCSigners
  Sig <- MCSig
  Programs <- Unsigned
  CheckSumAt = 4
  SecurityAt = 8
  EntrySize = 8
  RawSizeAt = 0
  RawPointerAt = 4
  Uint32Max = 36
INVARIANT
  ZerosLostAtBoundaryOnly
