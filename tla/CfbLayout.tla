----------------------------- MODULE CfbLayout -----------------------------
(***************************************************************************)
(* The sizes the writer of compound files computes (CfbWriter.cpp,         *)
(* ComputeLayout): units for a size, and the sectors of the allocation     *)
(* index (FAT) and of the extended index (DIFAT) that lists it.            *)
(***************************************************************************)
EXTENDS Integers, FiniteSetsExt

CONSTANTS
  HeaderDifatEntries,  \* kHeaderDifatEntries: FAT sectors the header lists
  FatTurns             \* turns ComputeLayout takes to find the size of the FAT

ASSUME LayoutAssumption == HeaderDifatEntries \in Nat /\ FatTurns \in Nat

UnitsFor(size, unit) == (size \div unit) + (IF size % unit # 0 THEN 1 ELSE 0)

\* The extended index sectors that list a FAT of that many sectors.
DifatSectors(fat, per_sector) ==
  UnitsFor(Max({fat - HeaderDifatEntries, 0}), per_sector - 1)

\* Mutant: the FAT does not list the sectors of the extended index.
MutNextFat(others, per_sector, fat) == UnitsFor(others + fat, per_sector)

\* The FAT sectors that list all other sectors, a FAT of that many sectors and
\* its extended index.
NextFat(others, per_sector, fat) ==
  UnitsFor(others + DifatSectors(fat, per_sector) + fat, per_sector)

\* Turns towards the smallest fixed point; a turn does not leave it.
FatSectors(others, per_sector) ==
  LET fat[step \in 0..FatTurns] ==
        IF step = 0 THEN 0 ELSE NextFat(others, per_sector, fat[step - 1])
  IN  fat[FatTurns]

=============================================================================
