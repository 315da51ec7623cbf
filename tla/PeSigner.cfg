\* Two signers with signatures of 3 and 8 bytes; programs of every length
\* modulo 8 with and without zeros at the end, with section tables that are not
\* where they belong, files signed by other tools and unreadable ones; section
\* headers of 8 bytes in place of 40 and a limit of 36 in place of 2^32 - 1, so
\* that a table can lie past it.
SPECIFICATION Spec
CONSTANTS
  alice = alice
  bob = bob
  Signers <- MCSigners
  Sig <- MCSig
  Programs <- MCPrograms
  CheckSumAt = 4
  SecurityAt = 8
  EntrySize = 8
  RawSizeAt = 0
  RawPointerAt = 4
  Uint32Max = 36
INVARIANTS
  SignatureMatches
  ProgramKept
  ChecksumCurrent
