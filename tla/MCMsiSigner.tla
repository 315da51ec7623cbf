---------------------------- MODULE MCMsiSigner ----------------------------
(* A small instance of MsiSigner for TLC. *)
EXTENDS MsiSigner

CONSTANTS alice

MCSigners == {alice}

\* Sectors of 4 cells, 4 index entries, 2 directory entries; twice that in
\* version 4.
MCGeometry ==
  3 :> [cells |-> 4, index |-> 4, entries |-> 2] @@ 4 :> [cells |-> 8, index |-> 8, entries |-> 4]

\* Signatures of the mini stream and of ordinary sectors; one with another
\* algorithm and too long for version 3; an empty one, which is none.
MCBlobs ==
  {[algorithm |-> "sha256", size |-> 3], [algorithm |-> "sha256", size |-> 6],
   [algorithm |-> "sha1", size |-> 22], [algorithm |-> "none", size |-> 0]}

Blank(version) ==
  [version |-> version, magic |-> TRUE, sound |-> TRUE, difat |-> <<>>, first_dir |-> 0,
   first_mini_fat |-> 0, total_mini_fat |-> 0, first_difat |-> 0, total_difat |-> 0,
   missing |-> 0, sectors |-> <<>>]

Bytes(v, n) == [i \in 1..n |-> <<v + i>>]

Stream(path, bytes) ==
  [name |-> Last(path), path |-> path, storage |-> FALSE, class |-> 0, meta |-> 0, bytes |-> bytes]

Storage(path) ==
  [name |-> Last(path), path |-> path, storage |-> TRUE, class |-> 3, meta |-> 1, bytes |-> <<>>]

Root == [name |-> <<82>>, path |-> <<>>, storage |-> TRUE, class |-> 9, meta |-> 1, bytes |-> <<>>]

\* An image in the writer's layout, with the entries as they are given.
Written(version, nodes) ==
  LET entries == <<Root>> \o nodes
  IN  Serialise(Blank(version), entries, ComputeLayout(entries, version))

InOrderOf(nodes) == Tail(Expand(<<Root>> \o nodes))

\* Names whose two orders differ: by length and by case.
a == Stream(<<<<97>>>>, Bytes(10, 3))
B == Stream(<<<<66>>>>, Bytes(20, 6))
AA == Stream(<<<<65, 65>>>>, Bytes(30, 2))
Summary == Stream(<<<<5, 83>>>>, Bytes(40, 5))
Empty == Stream(<<<<69>>>>, <<>>)
Inner(path) ==
  <<Stream(path \o <<<<98>>>>, Bytes(50, 1)), Stream(path \o <<<<65>>>>, Bytes(60, 5))>>
OldSignature == Stream(<<SignatureName>>, Bytes(70, 4))
OldSignatureEx == Stream(<<SignatureExName>>, Bytes(80, 2))
UpperA == Stream(<<<<65>>>>, Bytes(90, 1))
LowerSignature == Stream(<<<<5, 100>>>>, Bytes(95, 1))
S == <<<<83>>>>
T == <<<<83>>, <<84>>>>
U == <<<<83>>, <<84>>, <<83>>>>

Plain == Written(3, InOrderOf(<<a, B, AA, Storage(S)>> \o Inner(S)))
Signed == Written(4, InOrderOf(<<a, B, Summary, OldSignature, OldSignatureEx>>))
Unsorted == Written(3, <<AA, B, a, OldSignature>>)
OnlyLarge == Written(3, InOrderOf(<<B, Empty>>))
NoEntry == Written(3, <<>>)
TwoNames == Written(3, <<a, UpperA>>)
NearName == Written(3, <<LowerSignature>>)
Deep == Written(4, <<Storage(S), Storage(T), Storage(U)>> \o Inner(U))

\* A signature entry that clashes with another entry: no fingerprint is defined.
Clash == Written(3, <<LowerSignature, OldSignature, B>>)

\* As Plain, and so large that no signature fits below MaxSectors.
Full == Written(3, InOrderOf(<<a, B, AA, Storage(S), Summary>> \o Inner(S)))

\* The directory between the sectors of a stream, and a last sector that is
\* cut off.
Scattered ==
  [Blank(3) EXCEPT !.difat = <<0>>, !.first_dir = 2, !.first_mini_fat = EndOfChain,
     !.first_difat = EndOfChain, !.missing = 1,
     !.sectors =
       <<Sector(<<>>, <<FatSector, 3, EndOfChain, EndOfChain>>, <<>>),
         Sector(Bytes(0, 4), <<>>, <<>>),
         Sector(<<>>, <<>>, <<[UnusedEntry EXCEPT !.name = <<82>>, !.type = "root", !.child = 1,
                                                  !.start = EndOfChain],
                              [UnusedEntry EXCEPT !.name = <<66>>, !.type = "stream", !.start = 1,
                                                  !.size = 7]>>),
         Sector(Bytes(4, 3), <<>>, <<>>)>>]

\* One value of the allocation table, or one field of a directory entry, is
\* another one.
DamagedIndex(image) ==
  LET places == {p \in (1..Len(image.sectors)) \X (1..4) : p[2] \in DOMAIN image.sectors[p[1]].index}
      values == {0, 3, EndOfChain}
  IN  {[image EXCEPT !.sectors[p[1]].index[p[2]] = v] : p \in places, v \in values}

DamagedDirectory(image) ==
  LET places == {p \in (1..Len(image.sectors)) \X (1..4) : p[2] \in DOMAIN image.sectors[p[1]].entries}
      values == {0, 1, FreeSector}
  IN  UNION {{[image EXCEPT !.sectors[p[1]].entries[p[2]].left = v],
              [image EXCEPT !.sectors[p[1]].entries[p[2]].child = v],
              [image EXCEPT !.sectors[p[1]].entries[p[2]].start = v],
              [image EXCEPT !.sectors[p[1]].entries[p[2]].size = v]} : p \in places, v \in values}

TwoStreams == Written(3, <<B, Stream(<<<<67>>>>, Bytes(70, 6))>>)

\* A stream that is not in the mini stream and two that are.
TwoSmall ==
  Written(3, <<B, Stream(<<<<67>>>>, Bytes(10, 3)), Stream(<<<<68>>>>, Bytes(70, 4))>>)

MCPackages ==
  {Plain, Full, Signed, Unsorted, OnlyLarge, NoEntry, Scattered, Deep, TwoNames, NearName, Clash}
  \cup DamagedIndex(TwoStreams) \cup DamagedIndex(TwoSmall) \cup DamagedDirectory(TwoSmall)
MCOthers == {Unsorted, [Plain EXCEPT !.magic = FALSE, !.sound = FALSE]}

=============================================================================
