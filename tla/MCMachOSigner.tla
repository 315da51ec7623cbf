--------------------------- MODULE MCMachOSigner ---------------------------
(* A small instance of MachOSigner for TLC. *)
EXTENDS MachOSigner, TLC

CONSTANTS alice, bob

MCSigners == {alice, bob}

\* The CMS of one signer fills what it reserved.
MCRequest ==
  alice :> [identity |-> 3, nul |-> FALSE, capacity |-> 40, cms |-> 40]
  @@ bob :> [identity |-> 8, nul |-> FALSE, capacity |-> 10, cms |-> 7]

Text(first) == [cmd |-> "segment", name |-> "__TEXT", size |-> 72, fileoff |-> 0,
                filesize |-> 300, vmsize |-> 320, sections |-> {first}]
Link(from, to) == [cmd |-> "segment", name |-> "__LINKEDIT", size |-> 72, fileoff |-> from,
                   filesize |-> to - from, vmsize |-> AlignUp(to - from, PageSize), sections |-> {}]
Library == [cmd |-> "other", size |-> 24]
Signature(size, dataoff, datasize) ==
  [cmd |-> "signature", size |-> size, dataoff |-> dataoff, datasize |-> datasize]

Slice(cpu, cmds, len, size) ==
  [magic |-> "supported", cpu |-> cpu, ncmds |-> Len(cmds), sizeofcmds |-> SizeOf(cmds),
   cmds |-> cmds, code |-> 0, len |-> len, size |-> size, blob |-> <<>>]

\* Unsigned programs of lengths that need padding or none; the one without
\* room for a command; one whose link-edit segment is not at its end.
Plain(cpu, len) == Slice(cpu, <<Text(220), Link(300, len), Library>>, len, len)
NoRoom == Slice("x86_64", <<Text(210), Link(300, 309), Library>>, 309, 309)
NoLinkedit == Slice("x86_64", <<Text(220), Link(300, 308), Library>>, 309, 309)

\* Signed by another producer: 32 bytes of data after 310 bytes of program; a
\* command of 24 bytes in front of the link-edit segment; a command that points
\* at nothing; a link-edit segment that ends early; data after the signature.
Foreign == Slice("arm64", <<Text(240), Link(300, 342), Library, Signature(16, 310, 32)>>, 310, 342)
EarlyCommand == Slice("x86_64", <<Text(240), Signature(24, 310, 32), Link(300, 342), Library>>, 310, 342)
Pointless == Slice("x86_64", <<Text(240), Link(300, 309), Library, Signature(16, 0, 0)>>, 309, 309)
LinkShort == Slice("x86_64", <<Text(240), Link(300, 308), Library, Signature(16, 310, 32)>>, 310, 342)
DataAfter == Slice("x86_64", <<Text(240), Link(300, 350), Library, Signature(16, 310, 32)>>, 350, 350)

ThinFile(s) ==
  [form |-> "thin", table |-> <<[offset |-> 0, size |-> s.size, align |-> 0]>>,
   at |-> 0 :> s, clean |-> TRUE, size |-> s.size]

\* Two slices, the second one first in the file, with bytes after the last.
FatFile(form, s1, s2, align, tail, clean) ==
  [form |-> form,
   table |-> <<[offset |-> 512, size |-> s1.size, align |-> align],
               [offset |-> 96, size |-> s2.size, align |-> 4]>>,
   at |-> 512 :> s1 @@ 96 :> s2, clean |-> clean, size |-> 512 + s1.size + tail]

MCPrograms ==
  {ThinFile(s) : s \in {Plain("x86_64", 309), Plain("arm64", 320), NoRoom, NoLinkedit,
                        Foreign, EarlyCommand, Pointless, LinkShort, DataAfter}}
  \cup {FatFile("fat32", Plain("x86_64", 309), Plain("arm64", 320), 6, 5, TRUE),
        FatFile("fat64", Foreign, Plain("arm64", 316), 5, 0, TRUE),
        FatFile("fat64", Foreign, NoLinkedit, 5, 0, TRUE),
        FatFile("fat64", EarlyCommand, Foreign, 5, 0, TRUE),
        FatFile("fat32", Plain("x86_64", 309), Plain("arm64", 320), 6, 0, FALSE),
        FatFile("fat32", Plain("x86_64", 309), [Plain("ppc", 320) EXCEPT !.magic = "declined"],
                6, 0, TRUE),
        FatFile("fat32", Plain("x86_64", 309), Plain("arm64", 320), 32, 0, TRUE)}
=============================================================================
