\* Two signers, one change by another tool; thin and universal files, unsigned,
\* signed by other producers, and some that are refused; pages of 128 bytes; a
\* limit of 1430 in place of 2^32 - 1, which two signed slices of a 32-bit
\* universal file can reach.
SPECIFICATION Spec
CONSTANTS
  alice = alice
  bob = bob
  Signers <- MCSigners
  Request <- MCRequest
  Programs <- MCPrograms
  PageSize = 128
  Uint32Max = 1430
  MaxCapacity = 64
  MaxEdits = 1
INVARIANTS
  SignatureCovers
  WrittenIsSignable
  ProgramKept
  PreparedStaysValid
