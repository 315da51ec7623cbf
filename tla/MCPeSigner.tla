----------------------------- MODULE MCPeSigner -----------------------------
(* A small instance of PeSigner for TLC. *)
EXTENDS PeSigner, TLC

CONSTANTS alice, bob

MCSigners == {alice, bob}

\* Signatures of which one needs padding and ends in a zero byte.
MCSig == alice :> <<255, 255, 7>> @@ bob :> <<9, 255, 255, 255, 1, 2, 3, 0>>

\* Eight bytes of headers, the CheckSum field (holding anything) and the entry.
Headers(address, size) == <<77, 90, 255, 255>> \o <<1, 2, 3, 4>>
                          \o Num4(address) \o Num4(size)

Program(bytes, headers, table, count) ==
  [pe |-> TRUE, headers |-> headers, table |-> table, count |-> count, bytes |-> bytes]

Code(n) == [i \in 1..n |-> 255]

\* A section header: SizeOfRawData and PointerToRawData.
Section(size, pointer) == Num4(size) \o Num4(pointer)

\* Unsigned: n bytes of code and z zeros, of which `data` belong to a section.
Unsigned ==
  {Program(Headers(0, 0) \o Section(n + data, 24) \o Code(n) \o Zeros(z), 24, 16, 1) :
     n \in {0, 3, 5}, z \in 0..9, data \in {0, 2}}

\* Unsigned, with a section table that lies behind the program, where embedding
\* puts the certificate, or over the certificate directory entry.
Misplaced ==
  {Program(Headers(0, 0) \o Code(n), 16, table, 1) : n \in {3, 8, 11}, table \in {8, 24}}

\* Signed by another tool: at any offset, with a longer table than the
\* certificate needs and with bytes behind it, or headers that end early.
Table(length) == Num4(length) \o <<0, 2, 2, 0>>
Signed ==
  {Program(Headers(16 + n + z, 16) \o Code(n) \o Zeros(z) \o Table(10) \o Code(8 + tail),
           headers, 16, 0) :
     n \in {0, 1}, z \in {0, 3, 7}, tail \in {0, 4}, headers \in {0, 16}}

\* Not readable: the table runs past the file, overlaps the headers, is too
\* small, holds a longer certificate, or the file is no program at all.
Unreadable ==
  {Program(Headers(24, 64) \o Code(8) \o Table(10) \o Code(8), 16, 16, 0),
   Program(Headers(8, 16) \o Code(8) \o Table(10) \o Code(8), 16, 16, 0),
   Program(Headers(24, 4) \o Code(8) \o Table(10) \o Code(8), 16, 16, 0),
   Program(Headers(24, 8) \o Code(8) \o Table(10) \o Code(8), 16, 16, 0),
   Program(Headers(24, 16) \o Code(8) \o Table(7) \o Code(8), 16, 16, 0),
   [Program(Code(16), 0, 16, 0) EXCEPT !.pe = FALSE]}

MCPrograms == Unsigned \cup Misplaced \cup Signed \cup Unreadable
=============================================================================
