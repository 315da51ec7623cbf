------------------------------ MODULE PeSigner ------------------------------
(***************************************************************************)
(* PeSigner (src/PeSigner.cpp): the Authenticode digest of a PE file and   *)
(* the embedding, extraction and stripping of its signature, on the bytes  *)
(* of the file, by several signers that read, compute and replace it.      *)
(*                                                                         *)
(* A file is a sequence of bytes; an offset counts from 0.  Of the headers *)
(* the CheckSum field, the certificate directory entry and the section     *)
(* table are at their places; the fields nobody writes are in the record   *)
(* `program`.  WriteFileBytes is one step that may fail (FileReplace shows *)
(* that it is).  A signature is the bytes its signer makes for a digest,   *)
(* and the digest is the sequence of bytes hashed.                         *)
(***************************************************************************)
EXTENDS Integers, Sequences, FiniteSetsExt

CONSTANTS
  Signers,       \* callers of PeSigner
  Sig,           \* per signer: the bytes of its PKCS#7 blob
  Programs,      \* files somebody may want to sign
  CheckSumAt,    \* layout.checksum_offset
  SecurityAt,    \* layout.dd_security_offset
  EntrySize,     \* the size of a section header (40), and in it the places of
  RawSizeAt,     \* SizeOfRawData (16)
  RawPointerAt,  \* and PointerToRawData (20)
  Uint32Max      \* kUint32Max, smaller here so that it can be met

ASSUME SigAssumption == Sig \in [Signers -> Seq(0..255)]
ASSUME LayoutAssumption ==
  CheckSumAt \in Nat /\ SecurityAt \in Nat /\ CheckSumAt + 4 <= SecurityAt
ASSUME SectionAssumption ==
  /\ EntrySize \in Nat /\ RawSizeAt \in Nat /\ RawPointerAt \in Nat
  /\ RawSizeAt + 4 <= EntrySize /\ RawPointerAt + 4 <= EntrySize
ASSUME Uint32MaxAssumption == Uint32Max \in Nat /\ Uint32Max \div 65536 < 65536
ASSUME ProgramsAssumption ==
  \A p \in Programs :
    /\ p.pe \in BOOLEAN
    /\ p.bytes \in Seq(0..255)
    /\ p.headers \in Nat /\ p.table \in Nat /\ p.count \in Nat

VARIABLES
  program,  \* what the headers say: pe, headers (SizeOfHeaders), table (where the
            \* section table starts) and count (NumberOfSections); its bytes
  file,     \* the bytes the path holds
  pc,       \* per signer: "idle", "signed", "embed" or "strip"
  digest,   \* per signer: the digest its signature covers
  snap,     \* per signer: what ReadFileBytes gave it
  last      \* history: the signature embedded last and the digest it covers

vars == <<program, file, pc, digest, snap, last>>

-----------------------------------------------------------------------------
(* Bytes *)

ByteAt(b, at) == b[at + 1]

\* The little-endian number in two or four bytes.
Le2(b, at) == ByteAt(b, at) + 256 * ByteAt(b, at + 1)
Le4(b, at) == Le2(b, at) + 65536 * Le2(b, at + 2)

\* The low 16 or 32 bits of a number as bytes.
Num2(n) == <<n % 256, (n \div 256) % 256>>
Num4(n) == Num2(n) \o Num2(n \div 65536)

\* MutableByteSpan::Write and Copy.
Put(b, at, v) ==
  [i \in DOMAIN b |-> IF i - at \in DOMAIN v THEN v[i - at] ELSE b[i]]

Zeros(n) == [i \in 1..n |-> 0]

\* The zero bytes that fill up to the next multiple of eight.
Padding(n) == (8 - (n % 8)) % 8

Slice(b, from, to) == SubSeq(b, from + 1, to)

\* What an operation that throws gives instead of new bytes.
Rejected == <<>>

HeadersEnd == SecurityAt + 8

-----------------------------------------------------------------------------
(* Parsing *)

\* The headers are those of a PE file and hold both fields.
ParsePeLayout(b) == program.pe /\ Len(b) >= HeadersEnd

\* Where the section headers are.
SectionTable == {program.table + i * EntrySize : i \in 0..(program.count - 1)}

RawSize(b, at) == Le4(b, at + RawSizeAt)
SectionEnd(b, at) == Le4(b, at + RawPointerAt) + RawSize(b, at)

\* The lowest offset stripping may cut back to.  Section headers from the first
\* that does not fit in the file contribute nothing; SizeOfHeaders always fits,
\* because ParsePeLayout found the directory entry behind it.
StripFloor(b) ==
  Max({program.headers} \cup
      {SectionEnd(b, at) :
         at \in {e \in SectionTable : e + EntrySize <= Len(b) /\ RawSize(b, e) # 0}})

\* The certificate table; `ok` is false where the code throws.
ValidateCertificateTable(b) ==
  LET address == Le4(b, SecurityAt)
      size == Le4(b, SecurityAt + 4)
      present == address # 0 /\ size # 0
      fits == address + size <= Len(b) /\ address >= HeadersEnd /\ size >= 8
      length == IF present /\ fits THEN Le4(b, address) ELSE 0
      sound == /\ fits
               /\ 8 <= length /\ length <= size
               /\ Le2(b, address + 4) = 512
               /\ Le2(b, address + 6) = 2
  IN [ok |-> present => sound, present |-> present,
      address |-> address, size |-> size, length |-> length]

Readable(b) == ParsePeLayout(b) /\ ValidateCertificateTable(b).ok

HasEmbeddedSignature(b) == Readable(b) /\ ValidateCertificateTable(b).present

\* The end of the program: the certificate table or the end of the file.
ProgramEnd(b) ==
  IF ValidateCertificateTable(b).present
  THEN ValidateCertificateTable(b).address
  ELSE Len(b)

\* Mutant: the padding is forgotten.
MutDigestNoPadding(b) ==
  Slice(b, 0, CheckSumAt) \o Slice(b, CheckSumAt + 4, SecurityAt)
  \o Slice(b, HeadersEnd, ProgramEnd(b))

\* What is hashed.  An unsigned file counts the padding embedding will add.
ComputeAuthenticodeDigest(b) ==
  Slice(b, 0, CheckSumAt) \o Slice(b, CheckSumAt + 4, SecurityAt)
  \o Slice(b, HeadersEnd, ProgramEnd(b))
  \o (IF ValidateCertificateTable(b).present THEN <<>> ELSE Zeros(Padding(Len(b))))

ExtractSignature(b) ==
  LET table == ValidateCertificateTable(b)
  IN  Slice(b, table.address + 8, table.address + table.length)

-----------------------------------------------------------------------------
(* Writing *)

\* Mutant: the carry is dropped.
MutFold16(n) == n % 65536

\* A carry above 16 bits is added in again.
Fold16(n) == (n % 65536) + (n \div 65536)

\* The carry-folding sums over the first words but those of the field.
Sums(z) ==
  LET sum[i \in 0..(Len(z) \div 2)] ==
        IF i = 0 THEN 0
        ELSE IF 2 * (i - 1) \in {CheckSumAt, CheckSumAt + 2} THEN sum[i - 1]
        ELSE Fold16(sum[i - 1] + Le2(z, 2 * (i - 1)))
  IN  sum

\* The sum over all words and a last odd byte.
FoldedSum(z) ==
  IF Len(z) % 2 = 0
  THEN Fold16(Sums(z)[Len(z) \div 2])
  ELSE Fold16(Fold16(Sums(z)[Len(z) \div 2] + ByteAt(z, Len(z) - 1)))

\* The field is zeroed, and gets the sum plus the size.
Unchecked(b) == Put(b, CheckSumAt, Zeros(4))
RecalcChecksum(b) ==
  Put(Unchecked(b), CheckSumAt, Num4(FoldedSum(Unchecked(b)) + Len(b)))

\* The signed file, or Rejected.
Embed(b, pkcs7) ==
  LET kept == ProgramEnd(b)
      offset == kept + Padding(kept)
      length == 8 + Len(pkcs7)
      size == length + Padding(length)
      table == Num4(length) \o Num2(512) \o Num2(2) \o pkcs7 \o Zeros(Padding(length))
      cut == Slice(b, 0, kept) \o Zeros(Padding(kept)) \o table
  IN  IF \/ ~Readable(b)
         \/ Len(pkcs7) > Uint32Max - 8
         \/ offset > Uint32Max \/ size > Uint32Max
      THEN Rejected
      ELSE RecalcChecksum(Put(cut, SecurityAt, Num4(offset) \o Num4(size)))

\* Mutant: the floor is not looked at.
MutPaddingRemoved(b, end) ==
  Max({n \in 0..7 : n <= end /\ \A i \in 1..n : ByteAt(b, end - i) = 0})

\* How many bytes the loop removes before the table: up to seven, while they
\* are zero and above the floor.
PaddingRemoved(b, end) ==
  LET removable(n) == \A i \in 1..n : end - i >= StripFloor(b) /\ ByteAt(b, end - i) = 0
  IN  Max({n \in 0..7 : n <= end /\ removable(n)})

\* The unsigned file, or Rejected when the cut leaves no directory entry.
Strip(b) ==
  LET end == ProgramEnd(b)
      cut == Slice(b, 0, end - PaddingRemoved(b, end))
  IN  IF ~Readable(b) \/ Len(cut) < HeadersEnd THEN Rejected
      ELSE RecalcChecksum(Put(cut, SecurityAt, Zeros(8)))

-----------------------------------------------------------------------------
(* The signers *)

Init ==
  /\ program \in Programs
  /\ file = program.bytes
  /\ pc = [s \in Signers |-> "idle"]
  /\ digest = [s \in Signers |-> <<>>]
  /\ snap = [s \in Signers |-> <<>>]
  /\ last = [sig |-> <<>>, digest |-> <<>>]

\* ComputeAuthenticodeDigest, and a signature made for what it returns.
Digest(s) ==
  /\ pc[s] = "idle" /\ Readable(file)
  /\ digest' = [digest EXCEPT ![s] = ComputeAuthenticodeDigest(file)]
  /\ pc' = [pc EXCEPT ![s] = "signed"]
  /\ UNCHANGED <<program, file, snap, last>>

\* EmbedSignature reads the file.
EmbedRead(s) ==
  /\ pc[s] = "signed"
  /\ snap' = [snap EXCEPT ![s] = file]
  /\ pc' = [pc EXCEPT ![s] = "embed"]
  /\ UNCHANGED <<program, file, digest, last>>

\* StripSignature reads the file.
StripRead(s) ==
  /\ pc[s] = "idle"
  /\ snap' = [snap EXCEPT ![s] = file]
  /\ pc' = [pc EXCEPT ![s] = "strip"]
  /\ UNCHANGED <<program, file, digest, last>>

Finish(s) ==
  /\ pc' = [pc EXCEPT ![s] = "idle"]
  /\ snap' = [snap EXCEPT ![s] = <<>>]
  /\ digest' = [digest EXCEPT ![s] = <<>>]
  /\ UNCHANGED program

\* EmbedSignature replaces the file.
EmbedWrite(s) ==
  LET b == Embed(snap[s], Sig[s])
  IN  /\ pc[s] = "embed" /\ b # Rejected
      /\ file' = b
      /\ last' = [sig |-> Sig[s], digest |-> digest[s]]
      /\ Finish(s)

\* StripSignature replaces the file; an unsigned one is left alone.
StripWrite(s) ==
  LET b == Strip(snap[s])
  IN  /\ pc[s] = "strip" /\ b # Rejected
      /\ file' = IF HasEmbeddedSignature(snap[s]) THEN b ELSE file
      /\ Finish(s)
      /\ UNCHANGED last

\* The call throws before it writes, or WriteFileBytes fails.
Fail(s) ==
  /\ pc[s] \in {"embed", "strip"}
  /\ Finish(s)
  /\ UNCHANGED <<file, last>>

Next ==
  \E s \in Signers :
    \/ Digest(s) \/ EmbedRead(s) \/ EmbedWrite(s)
    \/ StripRead(s) \/ StripWrite(s) \/ Fail(s)

Spec == Init /\ [][Next]_vars

-----------------------------------------------------------------------------
(* Properties *)

\* Zero bytes up to the next boundary do not count as program.
Padded(b) == Slice(b, HeadersEnd, ProgramEnd(b)) \o Zeros(Padding(ProgramEnd(b)))

\* A table that was there before starts on an eight-byte boundary, as embedding
\* would have put it.
Aligned == Readable(program.bytes) /\
  (HasEmbeddedSignature(program.bytes) => ProgramEnd(program.bytes) % 8 = 0)

(***************************************************************************)
(* Whatever signers and strippers do to a program, and however their reads *)
(* and writes cross, its digest stays what it was: the padding an unsigned *)
(* file is credited with is the padding embedding adds, and the zeros that *)
(* stripping removes are the zeros it is credited with again.  So a        *)
(* signature found in the file, which is the one embedded last and         *)
(* complete, covers the digest of that file, although its signer computed  *)
(* it before others signed or stripped.  A file that is not a readable     *)
(* program is never written.                                               *)
(***************************************************************************)
SignatureMatches ==
  /\ Readable(program.bytes) => Readable(file)
  /\ ~Readable(program.bytes) => file = program.bytes
  /\ Aligned => ComputeAuthenticodeDigest(file) = ComputeAuthenticodeDigest(program.bytes)
  /\ file # program.bytes /\ HasEmbeddedSignature(file) =>
       /\ ExtractSignature(file) = last.sig
       /\ Aligned => ComputeAuthenticodeDigest(file) = last.digest

\* The section table is where the format has it: behind the directory entry, in
\* the headers and in the file.
TableInHeaders ==
  \A at \in SectionTable :
    /\ HeadersEnd <= at
    /\ at + EntrySize <= program.headers
    /\ at + EntrySize <= ProgramEnd(program.bytes)

(***************************************************************************)
(* No sequence of embeddings and strippings costs a program more than the  *)
(* zeros at its very end: what is left is the original up to padding,      *)
(* within seven bytes of the boundary after it.  With a section table in   *)
(* the headers no section data and no part of the headers is ever cut, and *)
(* an unsigned program whose last byte is not zero and that holds its      *)
(* sections has its old length.  The documentation promises more, which    *)
(* NonzeroEndRestored and ZerosLostAtBoundaryOnly below state.             *)
(***************************************************************************)
ProgramKept ==
  Aligned =>
    LET before == ProgramEnd(program.bytes)
        after == ProgramEnd(file)
        floor == StripFloor(program.bytes)
    IN  /\ Padded(file) = Padded(program.bytes)
        /\ after > before - 8
        /\ TableInHeaders =>
             /\ after >= Min({before, floor})
             /\ ~HasEmbeddedSignature(file) => after <= Max({before, floor})
             /\ /\ ~HasEmbeddedSignature(file)
                /\ ByteAt(program.bytes, before - 1) # 0 /\ before >= floor
                => after = before

\* The sum of all words, the CheckSum field taken as zero, as a number modulo
\* 2^16 - 1 that is 0 for no bits at all, plus the size.
Totals(z) ==
  LET total[i \in 0..(Len(z) \div 2)] ==
        IF i = 0 THEN 0 ELSE total[i - 1] + Le2(z, 2 * (i - 1))
  IN  total

ReferenceChecksum(b) ==
  LET z == Unchecked(b) \o Zeros(Len(b) % 2)
      n == Totals(z)[Len(z) \div 2]
  IN  Len(b) + (IF n = 0 THEN 0 ELSE 1 + ((n - 1) % 65535))

(***************************************************************************)
(* A file the library wrote carries the checksum of the bytes it has now,  *)
(* directory entry included, whatever carries the sum had on the way; of a *)
(* file of nearly 4 GiB, its low 32 bits.                                  *)
(***************************************************************************)
ChecksumCurrent ==
  file # program.bytes =>
    Slice(file, CheckSumAt, CheckSumAt + 4) = Num4(ReferenceChecksum(file))

-----------------------------------------------------------------------------
(* What the documentation says and the code does not do. *)

\* An unsigned program that was signed, or not, and is unsigned now.
UnsignedAgain ==
  /\ Readable(program.bytes) /\ ~HasEmbeddedSignature(program.bytes)
  /\ ~HasEmbeddedSignature(file)

\* "A program whose last byte is not zero is restored to its original length and
\* content, except that the CheckSum field holds the calculated checksum"
\* (PeSigner.hpp on StripSignature).
NonzeroEndRestored ==
  UnsignedAgain /\ ByteAt(program.bytes, Len(program.bytes) - 1) # 0 =>
    Unchecked(file) = Unchecked(program.bytes)

\* "One that ends in zeros may lose up to seven of them when its length was a
\* multiple of eight" (PeSigner.hpp on StripSignature): at other lengths no zero
\* is lost.
ZerosLostAtBoundaryOnly ==
  UnsignedAgain /\ Len(program.bytes) % 8 # 0 => Len(file) >= Len(program.bytes)
=============================================================================
