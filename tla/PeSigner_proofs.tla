---------------------------- MODULE PeSigner_proofs ----------------------------
(***************************************************************************)
(* Proofs about PeSigner: for any number of signers, any signatures, any   *)
(* programs and any place of the two header fields, the digest of a        *)
(* program survives embedding and stripping, the program's bytes survive   *)
(* up to the zeros at its end, and what is written carries its checksum.   *)
(*                                                                         *)
(* The first sections say byte by byte what the operators of the model     *)
(* return.  The invariant is that every file, and every copy of it that a  *)
(* signer holds between its read and its write, is a version (VersionOf)   *)
(* of the program the run began with: a relation between two files that    *)
(* embedding and stripping preserve, so that it does not matter which of   *)
(* the versions was read.                                                  *)
(***************************************************************************)
EXTENDS PeSigner, NaturalSets, SequenceTheorems, TLAPS

----------------------------------------------------------------------------
(* Bytes. *)

Byte == 0..255

LEMMA ByteRange == \A x : x \in Byte <=> x \in Nat /\ x < 256
BY DEF Byte

\* Files of the same bytes are the same.
LEMMA SameBytes ==
  ASSUME NEW s \in Seq(Byte), NEW t \in Seq(Byte), Len(s) = Len(t),
         \A i \in 1..Len(s) : s[i] = t[i]
  PROVE  s = t
BY SeqEqual

\* Bytes v stand in b from offset `at` on.
Holds(b, at, v) == \A i \in 1..Len(v) : b[at + i] = v[i]

\* Offset i is in none of the fields embedding and stripping write.
Plain(i) == i \in Nat /\ ~(CheckSumAt < i /\ i <= CheckSumAt + 4) /\ ~(SecurityAt < i /\ i <= HeadersEnd)

\* MutableByteSpan::Write changes the bytes it is given and no others.
LEMMA PutBytes ==
  ASSUME NEW b \in Seq(Byte), NEW v \in Seq(Byte), NEW at \in Nat, at + Len(v) <= Len(b)
  PROVE  /\ Put(b, at, v) \in Seq(Byte)
         /\ Len(Put(b, at, v)) = Len(b)
         /\ Holds(Put(b, at, v), at, v)
         /\ \A i \in 1..Len(b) : ~(at < i /\ i <= at + Len(v)) => Put(b, at, v)[i] = b[i]
<1> DEFINE r == Put(b, at, v)
<1>0. Len(b) \in Nat /\ Len(v) \in Nat /\ DOMAIN b = 1..Len(b) /\ DOMAIN v = 1..Len(v)
  OBVIOUS
<1>1. ASSUME NEW i \in 1..Len(b)
      PROVE  /\ r[i] \in Byte
             /\ ~(at < i /\ i <= at + Len(v)) => r[i] = b[i]
  <2>1. r[i] = IF i - at \in 1..Len(v) THEN v[i - at] ELSE b[i]
    BY <1>0 DEF Put
  <2>2. i - at \in 1..Len(v) <=> at < i /\ i <= at + Len(v)
    BY <1>0
  <2>3. b[i] \in Byte /\ (i - at \in 1..Len(v) => v[i - at] \in Byte)
    BY <1>0
  <2> QED BY <2>1, <2>2, <2>3
<1>2. r \in [1..Len(b) -> Byte]
  <2>1. DOMAIN r = 1..Len(b) /\ r = [i \in 1..Len(b) |-> r[i]]
    BY <1>0 DEF Put
  <2> QED BY <1>1, <2>1
<1>3. r \in Seq(Byte) /\ Len(r) = Len(b)
  BY <1>0, <1>2
<1>4. ASSUME NEW i \in 1..Len(v) PROVE r[at + i] = v[i]
  <2>1. at + i \in 1..Len(b) /\ (at + i) - at = i
    BY <1>0
  <2> QED BY <1>0, <2>1 DEF Put
<1> QED BY <1>1, <1>3, <1>4 DEF Holds

\* Part of a file.
LEMMA SliceBytes ==
  ASSUME NEW b \in Seq(Byte), NEW from \in Nat, NEW to \in Nat, to <= Len(b)
  PROVE  /\ Slice(b, from, to) \in Seq(Byte)
         /\ from <= to => Len(Slice(b, from, to)) = to - from
         /\ from >= to => Slice(b, from, to) = <<>>
         /\ \A i \in 1..(to - from) : Slice(b, from, to)[i] = b[from + i]
<1>1. \A i \in (from + 1)..to : b[i] \in Byte
  OBVIOUS
<1>2. /\ SubSeq(b, from + 1, to) \in Seq(Byte)
      /\ Len(SubSeq(b, from + 1, to)) = IF from + 1 <= to THEN to - (from + 1) + 1 ELSE 0
      /\ \A i \in 1..(to - (from + 1) + 1) : SubSeq(b, from + 1, to)[i] = b[(from + 1) + i - 1]
  BY <1>1, SubSeqProperties
<1>3. from >= to => Len(Slice(b, from, to)) = 0 /\ Slice(b, from, to) \in Seq(Byte)
  BY <1>2 DEF Slice
<1>4. from >= to => Slice(b, from, to) = <<>>
  BY <1>3
<1>5. /\ to - (from + 1) + 1 = to - from
      /\ \A i \in 1..(to - from) : (from + 1) + i - 1 = from + i
  OBVIOUS
<1> QED BY <1>2, <1>4, <1>5 DEF Slice

LEMMA PrefixBytes ==
  ASSUME NEW b \in Seq(Byte), NEW to \in Nat, to <= Len(b)
  PROVE  /\ Slice(b, 0, to) \in Seq(Byte) /\ Len(Slice(b, 0, to)) = to
         /\ \A i \in 1..to : Slice(b, 0, to)[i] = b[i]
<1>1. PICK from \in Nat : from = 0 /\ from <= to /\ to - from = to
  OBVIOUS
<1> DEFINE g == Slice(b, from, to)
<1>2. /\ g \in Seq(Byte) /\ Len(g) = to - from
      /\ \A i \in 1..(to - from) : g[i] = b[from + i]
  <2>1. from <= to
    BY <1>1
  <2> QED BY <2>1, SliceBytes, Zenon
<1>3. g = Slice(b, 0, to)
  BY <1>1
<1> HIDE DEF g
<1>4. \A i \in 1..to : g[i] = b[i]
  <2> SUFFICES ASSUME NEW i \in 1..to PROVE g[i] = b[i]
    OBVIOUS
  <2>1. from + i = i /\ i \in 1..(to - from)
    BY <1>1
  <2>2. g[i] = b[from + i]
    BY <1>2, <2>1
  <2> QED BY <2>1, <2>2
<1> QED BY <1>1, <1>2, <1>3, <1>4

\* Two files, one after the other.
LEMMA ConcatBytes ==
  ASSUME NEW s \in Seq(Byte), NEW t \in Seq(Byte)
  PROVE  /\ s \o t \in Seq(Byte)
         /\ Len(s \o t) = Len(s) + Len(t)
         /\ \A i \in 1..Len(s) : (s \o t)[i] = s[i]
         /\ \A i \in 1..Len(t) : (s \o t)[Len(s) + i] = t[i]
<1>1. /\ s \o t \in Seq(Byte) /\ Len(s) \in Nat /\ Len(t) \in Nat
      /\ Len(s \o t) = Len(s) + Len(t)
      /\ \A i \in 1 .. Len(s) + Len(t) : (s \o t)[i] = IF i <= Len(s) THEN s[i] ELSE t[i - Len(s)]
  BY ConcatProperties
<1> QED BY <1>1

LEMMA ConcatLength ==
  ASSUME NEW s \in Seq(Byte), NEW t \in Seq(Byte)
  PROVE  s \o t \in Seq(Byte) /\ Len(s \o t) = Len(s) + Len(t)
BY ConcatBytes

\* Zero bytes.
LEMMA ZeroBytes ==
  ASSUME NEW n \in Nat
  PROVE  Zeros(n) \in Seq(Byte) /\ Len(Zeros(n)) = n /\ \A i \in 1..n : Zeros(n)[i] = 0
<1>1. 0 \in Byte
  BY ByteRange
<1> QED BY <1>1 DEF Zeros

LEMMA ZeroLength ==
  ASSUME NEW n \in Nat
  PROVE  Zeros(n) \in Seq(Byte) /\ Len(Zeros(n)) = n
BY ZeroBytes

\* What embedding pads with reaches the next multiple of eight.
LEMMA PaddingAligns ==
  ASSUME NEW n \in Nat
  PROVE  Padding(n) \in Nat /\ Padding(n) < 8 /\ (n + Padding(n)) % 8 = 0
BY DEF Padding

\* The bytes of a number.
LEMMA NumBytes ==
  ASSUME NEW n \in Nat
  PROVE  /\ Num2(n) \in Seq(Byte) /\ Len(Num2(n)) = 2
         /\ Num2(n)[1] = n % 256 /\ Num2(n)[2] = (n \div 256) % 256
         /\ Num4(n) \in Seq(Byte) /\ Len(Num4(n)) = 4
         /\ Num4(n)[1] = n % 256 /\ Num4(n)[2] = (n \div 256) % 256
         /\ Num4(n)[3] = (n \div 65536) % 256
         /\ Num4(n)[4] = ((n \div 65536) \div 256) % 256
<1>1. ASSUME NEW m \in Nat PROVE Num2(m) \in Seq(Byte) /\ Len(Num2(m)) = 2
  <2>1. m % 256 \in Byte /\ (m \div 256) % 256 \in Byte
    BY ByteRange
  <2> QED BY <2>1 DEF Num2
<1>2. PICK h \in Nat : h = n \div 65536
  OBVIOUS
<1>3. /\ Num2(n) \in Seq(Byte) /\ Len(Num2(n)) = 2
      /\ Num2(h) \in Seq(Byte) /\ Len(Num2(h)) = 2
      /\ Num2(n)[1] = n % 256 /\ Num2(n)[2] = (n \div 256) % 256
      /\ Num2(h)[1] = h % 256 /\ Num2(h)[2] = (h \div 256) % 256
  <2>1. Num2(n)[1] = n % 256 /\ Num2(n)[2] = (n \div 256) % 256
    BY DEF Num2
  <2>2. Num2(h)[1] = h % 256 /\ Num2(h)[2] = (h \div 256) % 256
    BY DEF Num2
  <2>3. Num2(n) \in Seq(Byte) /\ Len(Num2(n)) = 2
    BY <1>1
  <2>4. Num2(h) \in Seq(Byte) /\ Len(Num2(h)) = 2
    BY <1>1
  <2> QED BY <2>1, <2>2, <2>3, <2>4
<1>4. Num4(n) = Num2(n) \o Num2(h)
  BY <1>2 DEF Num4
<1> HIDE DEF Num2
<1>5. /\ Num4(n) \in Seq(Byte) /\ Len(Num4(n)) = 2 + 2
      /\ \A i \in 1..Len(Num2(n)) : Num4(n)[i] = Num2(n)[i]
      /\ \A i \in 1..Len(Num2(h)) : Num4(n)[2 + i] = Num2(h)[i]
  <2>1. PICK p \in Seq(Byte), q \in Seq(Byte) :
          p = Num2(n) /\ q = Num2(h) /\ Len(p) = 2 /\ Len(q) = 2
    BY <1>3
  <2>2. Num4(n) = p \o q
    BY <1>4, <2>1
  <2>3. /\ p \o q \in Seq(Byte) /\ Len(p \o q) = Len(p) + Len(q)
        /\ \A i \in 1..Len(p) : (p \o q)[i] = p[i]
        /\ \A i \in 1..Len(q) : (p \o q)[Len(p) + i] = q[i]
    BY ConcatBytes, Zenon
  <2> QED BY <2>1, <2>2, <2>3
<1>6. 1 \in 1..Len(Num2(n)) /\ 2 \in 1..Len(Num2(n)) /\ 1 \in 1..Len(Num2(h)) /\ 2 \in 1..Len(Num2(h))
  BY <1>3
<1>7. /\ Num4(n)[1] = Num2(n)[1] /\ Num4(n)[2] = Num2(n)[2]
      /\ Num4(n)[2 + 1] = Num2(h)[1] /\ Num4(n)[2 + 2] = Num2(h)[2]
  BY <1>5, <1>6
<1>8. 2 + 1 = 3 /\ 2 + 2 = 4
  OBVIOUS
<1>9. Num4(n)[3] = h % 256 /\ Num4(n)[4] = (h \div 256) % 256 /\ Len(Num4(n)) = 4
  BY <1>3, <1>5, <1>7, <1>8
<1> QED BY <1>2, <1>3, <1>5, <1>7, <1>9

LEMMA NumLength ==
  ASSUME NEW n \in Nat
  PROVE  /\ Num2(n) \in Seq(Byte) /\ Len(Num2(n)) = 2
         /\ Num4(n) \in Seq(Byte) /\ Len(Num4(n)) = 4
BY NumBytes

\* A number that fits is read back.
LEMMA ReadBack ==
  ASSUME NEW n \in Nat, NEW b, NEW at \in Nat
  PROVE  /\ Holds(b, at, Num2(n)) /\ n < 65536 => Le2(b, at) = n
         /\ Holds(b, at, Num4(n)) /\ n \div 65536 < 65536 => Le4(b, at) = n
<1>1. ASSUME Holds(b, at, Num2(n)), n < 65536 PROVE Le2(b, at) = n
  <2>0. 1 \in 1..Len(Num2(n)) /\ 2 \in 1..Len(Num2(n))
    <3>1. Len(Num2(n)) = 2
      BY NumBytes
    <3> QED BY <3>1
  <2>1. b[at + 1] = n % 256 /\ b[at + 2] = (n \div 256) % 256
    BY <1>1, <2>0, NumBytes DEF Holds
  <2>2. ByteAt(b, at) = n % 256 /\ ByteAt(b, at + 1) = (n \div 256) % 256
    BY <2>1 DEF ByteAt
  <2>3. n = (n % 256) + 256 * ((n \div 256) % 256)
    BY <1>1
  <2> QED BY <2>2, <2>3 DEF Le2
<1>2. ASSUME Holds(b, at, Num4(n)), n \div 65536 < 65536 PROVE Le4(b, at) = n
  <2>1. /\ b[at + 1] = n % 256 /\ b[at + 2] = (n \div 256) % 256
        /\ b[at + 3] = (n \div 65536) % 256 /\ b[at + 4] = ((n \div 65536) \div 256) % 256
    <3>0. Len(Num4(n)) = 4
      BY NumBytes
    <3>1. \A i \in {1, 2, 3, 4} : i \in 1..Len(Num4(n))
      BY <3>0
    <3>2. \A i \in {1, 2, 3, 4} : b[at + i] = Num4(n)[i]
      BY <1>2, <3>1 DEF Holds
    <3> QED BY <3>2, NumBytes
  <2>2. /\ ByteAt(b, at) = n % 256 /\ ByteAt(b, at + 1) = (n \div 256) % 256
        /\ ByteAt(b, at + 2) = (n \div 65536) % 256
        /\ ByteAt(b, at + 2 + 1) = ((n \div 65536) \div 256) % 256
    BY <2>1 DEF ByteAt
  <2>3. PICK h \in Nat, l \in Nat : l < 65536 /\ n = 65536 * h + l /\ n \div 65536 = h
    <3>1. /\ n \div 65536 \in Nat /\ n % 65536 \in Nat /\ n % 65536 < 65536
          /\ n = 65536 * (n \div 65536) + (n % 65536)
      OBVIOUS
    <3> QED BY <3>1
  <2>4. h < 65536
    BY <1>2, <2>3
  <2>5. (n \div 256) % 256 = l \div 256 /\ n % 256 = l % 256
    BY <2>3
  <2>6. /\ l = 256 * (l \div 256) + (l % 256)
        /\ h = 256 * ((h \div 256) % 256) + (h % 256)
    BY <2>3, <2>4
  <2>7. Le2(b, at) = l /\ Le2(b, at + 2) = h
    BY <2>2, <2>3, <2>5, <2>6 DEF Le2
  <2> QED BY <2>3, <2>7 DEF Le4
<1> QED BY <1>1, <1>2

\* Numbers that are read.
LEMMA LeNat ==
  ASSUME NEW b \in Seq(Byte), NEW at \in Nat
  PROVE  /\ at + 2 <= Len(b) => Le2(b, at) \in Nat /\ Le2(b, at) < 65536
         /\ at + 4 <= Len(b) => Le4(b, at) \in Nat
<1>1. ASSUME NEW k \in Nat, k + 2 <= Len(b) PROVE Le2(b, k) \in Nat /\ Le2(b, k) < 65536
  <2>1. ByteAt(b, k) \in Byte /\ ByteAt(b, k + 1) \in Byte
    BY <1>1 DEF ByteAt
  <2> QED BY <2>1, ByteRange DEF Le2
<1>2. ASSUME at + 4 <= Len(b) PROVE Le4(b, at) \in Nat
  <2>1. Le2(b, at) \in Nat /\ Le2(b, at + 2) \in Nat
    BY <1>1, <1>2
  <2> QED BY <2>1 DEF Le4
<1> QED BY <1>1, <1>2

----------------------------------------------------------------------------
(* The certificate table. *)

\* The fields ValidateCertificateTable returns.
LEMMA TableFields ==
  ASSUME NEW b
  PROVE  LET t == ValidateCertificateTable(b)
         IN  /\ t.address = Le4(b, SecurityAt)
             /\ t.size = Le4(b, SecurityAt + 4)
             /\ t.present \in BOOLEAN /\ t.ok \in BOOLEAN
             /\ t.present <=> t.address # 0 /\ t.size # 0
             /\ t.length = IF t.present /\ t.address + t.size <= Len(b) /\ t.address >= HeadersEnd /\ t.size >= 8
                           THEN Le4(b, t.address) ELSE 0
             /\ t.ok <=> (t.present =>
                            /\ t.address + t.size <= Len(b) /\ t.address >= HeadersEnd /\ t.size >= 8
                            /\ 8 <= t.length /\ t.length <= t.size
                            /\ Le2(b, t.address + 4) = 512
                            /\ Le2(b, t.address + 6) = 2)
<1> DEFINE t == ValidateCertificateTable(b)
           address == Le4(b, SecurityAt)
           size == Le4(b, SecurityAt + 4)
           present == address # 0 /\ size # 0
           fits == address + size <= Len(b) /\ address >= HeadersEnd /\ size >= 8
           length == IF present /\ fits THEN Le4(b, address) ELSE 0
           sound == /\ fits
                    /\ 8 <= length /\ length <= size
                    /\ Le2(b, address + 4) = 512
                    /\ Le2(b, address + 6) = 2
<1>1. t = [ok |-> present => sound, present |-> present,
           address |-> address, size |-> size, length |-> length]
  BY DEF ValidateCertificateTable
<1> HIDE DEF t, address, size, present, fits, length, sound
<1>2. t.address = address /\ t.size = size /\ t.length = length
  BY <1>1
<1>3. t.present = present /\ t.ok = (present => sound)
  BY <1>1
<1>4. present \in BOOLEAN /\ (present => sound) \in BOOLEAN
  BY DEF present
<1>5. /\ t.present <=> present
      /\ t.ok <=> (present => sound)
      /\ t.present \in BOOLEAN /\ t.ok \in BOOLEAN
  BY <1>3, <1>4, Zenon
<1>6. /\ t.present <=> t.address # 0 /\ t.size # 0
      /\ fits <=> t.address + t.size <= Len(b) /\ t.address >= HeadersEnd /\ t.size >= 8
  BY <1>2, <1>5 DEF present, fits
<1>7. t.length = IF t.present /\ fits THEN Le4(b, t.address) ELSE 0
  BY <1>2, <1>5 DEF length
<1>8. sound <=> /\ fits
                /\ 8 <= t.length /\ t.length <= t.size
                /\ Le2(b, t.address + 4) = 512
                /\ Le2(b, t.address + 6) = 2
  BY <1>2 DEF sound
<1>9. t.address = Le4(b, SecurityAt) /\ t.size = Le4(b, SecurityAt + 4)
  BY <1>2 DEF address, size
<1> QED BY <1>5, <1>6, <1>7, <1>8, <1>9 DEF t

\* The program ends within the file and behind the headers.
LEMMA ProgramEndRange ==
  ASSUME NEW b \in Seq(Byte), Len(b) >= HeadersEnd, ValidateCertificateTable(b).ok
  PROVE  /\ ProgramEnd(b) \in Nat
         /\ HeadersEnd <= ProgramEnd(b) /\ ProgramEnd(b) <= Len(b)
         /\ ~ValidateCertificateTable(b).present => ProgramEnd(b) = Len(b)
<1> DEFINE t == ValidateCertificateTable(b)
<1>1. HeadersEnd \in Nat /\ SecurityAt \in Nat /\ HeadersEnd = SecurityAt + 8 /\ Len(b) \in Nat
  BY LayoutAssumption DEF HeadersEnd
<1>2. t.address \in Nat /\ t.size \in Nat
  <2>1. SecurityAt + 4 <= Len(b) /\ SecurityAt + 4 + 4 <= Len(b) /\ SecurityAt + 4 \in Nat
    BY <1>1
  <2>2. Le4(b, SecurityAt) \in Nat /\ Le4(b, SecurityAt + 4) \in Nat
    BY <1>1, <2>1, LeNat
  <2> QED BY <2>2, TableFields
<1>3. CASE t.present
  <2>1. ProgramEnd(b) = t.address
    BY <1>3 DEF ProgramEnd
  <2>2. t.address + t.size <= Len(b) /\ t.address >= HeadersEnd
    BY <1>3, TableFields
  <2> HIDE DEF t
  <2> QED BY <1>1, <1>2, <1>3, <2>1, <2>2 DEF t
<1>4. CASE ~t.present
  <2>1. ProgramEnd(b) = Len(b)
    BY <1>4 DEF ProgramEnd
  <2> QED BY <1>1, <2>1
<1> QED BY <1>3, <1>4

\* With an entry of zeros a file is unsigned.
LEMMA NoTable ==
  ASSUME NEW b \in Seq(Byte), Len(b) >= HeadersEnd, Holds(b, SecurityAt, Zeros(8))
  PROVE  ValidateCertificateTable(b).ok /\ ~ValidateCertificateTable(b).present
<1>0. SecurityAt \in Nat
  BY LayoutAssumption
<1>1. PICK z \in Seq(Byte) : z = Zeros(8) /\ Len(z) = 8 /\ \A i \in 1..Len(z) : z[i] = 0
  <2>1. PICK n \in Nat : n = 8
    OBVIOUS
  <2>2. Zeros(n) \in Seq(Byte) /\ Len(Zeros(n)) = n /\ \A i \in 1..n : Zeros(n)[i] = 0
    BY ZeroBytes
  <2> QED BY <2>1, <2>2
<1>2. /\ 1 \in 1..Len(z) /\ 2 \in 1..Len(z)
      /\ 3 \in 1..Len(z) /\ 4 \in 1..Len(z)
  <2>1. Len(z) = 8
    BY <1>1
  <2> QED BY <2>1
<1>3. \A i \in 1..Len(z) : b[SecurityAt + i] = 0
  BY <1>1 DEF Holds
<1>4. /\ b[SecurityAt + 1] = 0 /\ b[SecurityAt + 2] = 0
      /\ b[SecurityAt + 3] = 0 /\ b[SecurityAt + 4] = 0
  BY <1>2, <1>3
<1>5. Le2(b, SecurityAt) = 0 /\ Le2(b, SecurityAt + 2) = 0
  <2>1. ByteAt(b, SecurityAt) = 0 /\ ByteAt(b, SecurityAt + 1) = 0
    BY <1>0, <1>4 DEF ByteAt
  <2>2. ByteAt(b, SecurityAt + 2) = 0 /\ ByteAt(b, SecurityAt + 2 + 1) = 0
    BY <1>0, <1>4 DEF ByteAt
  <2> QED BY <2>1, <2>2 DEF Le2
<1>6. Le4(b, SecurityAt) = 0
  BY <1>5 DEF Le4
<1> QED BY <1>6, TableFields

\* Reading continues where it stopped.
LEMMA HoldsBoth ==
  ASSUME NEW b, NEW at \in Nat, NEW v \in Seq(Byte), NEW w \in Seq(Byte), Holds(b, at, v \o w)
  PROVE  Holds(b, at, v) /\ Holds(b, at + Len(v), w)
<1>1. /\ Len(v) \in Nat /\ Len(w) \in Nat /\ Len(v \o w) = Len(v) + Len(w)
      /\ \A i \in 1..Len(v) : (v \o w)[i] = v[i]
      /\ \A i \in 1..Len(w) : (v \o w)[Len(v) + i] = w[i]
  BY ConcatBytes
<1>2. \A i \in 1..Len(v \o w) : b[at + i] = (v \o w)[i]
  BY DEF Holds
<1>3. ASSUME NEW i \in 1..Len(v) PROVE b[at + i] = v[i]
  BY <1>1, <1>2
<1>4. ASSUME NEW i \in 1..Len(w) PROVE b[(at + Len(v)) + i] = w[i]
  <2>1. Len(v) + i \in 1..Len(v \o w) /\ (at + Len(v)) + i = at + (Len(v) + i)
    BY <1>1
  <2> QED BY <1>1, <1>2, <2>1
<1> QED BY <1>3, <1>4 DEF Holds

\* Offsets and sizes that are not rejected fit their fields.
LEMMA FitsField ==
  ASSUME NEW n \in Nat, n <= Uint32Max
  PROVE  n \div 65536 < 65536
<1>1. Uint32Max \in Nat /\ Uint32Max \div 65536 < 65536
  BY Uint32MaxAssumption
<1>2. n \div 65536 <= Uint32Max \div 65536
  BY <1>1
<1>3. n \div 65536 \in Nat /\ Uint32Max \div 65536 \in Nat
  BY <1>1
<1> QED BY <1>1, <1>2, <1>3

\* The certificate table embedding writes, with nothing behind its padding.
CertificateTable(length, pkcs7) ==
  Num4(length) \o Num2(512) \o Num2(2) \o pkcs7 \o Zeros(Padding(length))

\* Its parts, from offset `at` on.
LEMMA CertificateTableBytes ==
  ASSUME NEW pkcs7 \in Seq(Byte), NEW length \in Nat, length = 8 + Len(pkcs7)
  PROVE  /\ CertificateTable(length, pkcs7) \in Seq(Byte)
         /\ Len(CertificateTable(length, pkcs7)) = length + Padding(length)
         /\ \A b : \A at \in Nat :
              Holds(b, at, CertificateTable(length, pkcs7)) =>
                /\ Holds(b, at, Num4(length))
                /\ Holds(b, at + 4, Num2(512))
                /\ Holds(b, at + 6, Num2(2))
                /\ Holds(b, at + 8, pkcs7)
<1> DEFINE n4 == Num4(length)
           r2 == Num2(512)
           t2 == Num2(2)
           z == Zeros(Padding(length))
           h == n4 \o r2
           k == h \o t2
           m == k \o pkcs7
<1>1. n4 \in Seq(Byte) /\ Len(n4) = 4
  BY NumLength
<1>2. r2 \in Seq(Byte) /\ Len(r2) = 2
  BY NumLength
<1>3. t2 \in Seq(Byte) /\ Len(t2) = 2
  BY NumLength
<1>4. z \in Seq(Byte) /\ Len(z) = Padding(length) /\ Padding(length) \in Nat
  <2>1. Padding(length) \in Nat
    BY PaddingAligns
  <2> QED BY <2>1, ZeroLength
<1> HIDE DEF n4, r2, t2, z
<1>5. h \in Seq(Byte) /\ Len(h) = 6
  <2>1. n4 \o r2 \in Seq(Byte) /\ Len(n4 \o r2) = Len(n4) + Len(r2)
    BY <1>1, <1>2, ConcatLength, Zenon
  <2> QED BY <1>1, <1>2, <2>1
<1> HIDE DEF h
<1>6. k \in Seq(Byte) /\ Len(k) = 8
  <2>1. h \o t2 \in Seq(Byte) /\ Len(h \o t2) = Len(h) + Len(t2)
    BY <1>3, <1>5, ConcatLength, Zenon
  <2> QED BY <1>3, <1>5, <2>1
<1> HIDE DEF k
<1>7. m \in Seq(Byte) /\ Len(m) = length
  <2>1. k \o pkcs7 \in Seq(Byte) /\ Len(k \o pkcs7) = Len(k) + Len(pkcs7)
    BY <1>6, ConcatLength, Zenon
  <2> QED BY <1>6, <2>1
<1> HIDE DEF m
<1> DEFINE w == m \o z
<1>8. w \in Seq(Byte) /\ Len(w) = Len(m) + Len(z)
  BY <1>4, <1>7, ConcatLength, Zenon
<1>9. ASSUME NEW b, NEW at \in Nat, Holds(b, at, w)
      PROVE  /\ Holds(b, at, n4) /\ Holds(b, at + 4, r2)
             /\ Holds(b, at + 6, t2) /\ Holds(b, at + 8, pkcs7)
  <2>1. Holds(b, at, m)
    BY <1>4, <1>7, <1>9, HoldsBoth, Zenon
  <2>2. Holds(b, at, k) /\ Holds(b, at + Len(k), pkcs7)
    BY <1>6, <2>1, HoldsBoth, Zenon DEF m
  <2>3. Holds(b, at, h) /\ Holds(b, at + Len(h), t2)
    BY <1>3, <1>5, <2>2, HoldsBoth, Zenon DEF k
  <2>4. Holds(b, at, n4) /\ Holds(b, at + Len(n4), r2)
    BY <1>1, <1>2, <2>3, HoldsBoth, Zenon DEF h
  <2> HIDE DEF w
  <2> QED BY <1>1, <1>5, <1>6, <2>2, <2>3, <2>4
<1>10. CertificateTable(length, pkcs7) = w
  BY DEF CertificateTable, n4, r2, t2, z, h, k, m
<1> HIDE DEF w
<1>11. /\ CertificateTable(length, pkcs7) \in Seq(Byte)
       /\ Len(CertificateTable(length, pkcs7)) = length + Padding(length)
  BY <1>4, <1>7, <1>8, <1>10
<1>12. ASSUME NEW b, NEW at \in Nat, Holds(b, at, CertificateTable(length, pkcs7))
       PROVE  /\ Holds(b, at, Num4(length)) /\ Holds(b, at + 4, Num2(512))
              /\ Holds(b, at + 6, Num2(2)) /\ Holds(b, at + 8, pkcs7)
  BY <1>9, <1>10, <1>12 DEF n4, r2, t2
<1> QED BY <1>11, <1>12

\* A table that stands where the entry says is read back, signature included.
LEMMA NewTable ==
  ASSUME NEW b \in Seq(Byte), NEW pkcs7 \in Seq(Byte),
         NEW offset \in Nat, NEW size \in Nat, NEW length \in Nat,
         length = 8 + Len(pkcs7), length <= size,
         HeadersEnd <= offset, offset + size <= Len(b),
         offset <= Uint32Max, size <= Uint32Max,
         Holds(b, SecurityAt, Num4(offset) \o Num4(size)),
         Holds(b, offset, CertificateTable(length, pkcs7))
  PROVE  /\ ValidateCertificateTable(b).ok /\ ValidateCertificateTable(b).present
         /\ ProgramEnd(b) = offset
         /\ ExtractSignature(b) = pkcs7
<1> DEFINE t == ValidateCertificateTable(b)
<1>0. /\ SecurityAt \in Nat /\ HeadersEnd = SecurityAt + 8 /\ HeadersEnd \in Nat /\ Uint32Max \in Nat
      /\ Len(b) \in Nat /\ Len(pkcs7) \in Nat
  BY LayoutAssumption, Uint32MaxAssumption DEF HeadersEnd
<1>1. Le4(b, SecurityAt) = offset /\ Le4(b, SecurityAt + 4) = size
  <2>1. PICK p \in Seq(Byte), q \in Seq(Byte) : p = Num4(offset) /\ Len(p) = 4 /\ q = Num4(size)
    BY NumLength
  <2>2. Holds(b, SecurityAt, Num4(offset)) /\ Holds(b, SecurityAt + 4, Num4(size))
    <3>1. Holds(b, SecurityAt, p \o q)
      BY <2>1
    <3>2. Holds(b, SecurityAt, p) /\ Holds(b, SecurityAt + Len(p), q)
      BY <1>0, <3>1, HoldsBoth, Zenon
    <3> QED BY <2>1, <3>2
  <2>3. offset \div 65536 < 65536 /\ size \div 65536 < 65536
    BY FitsField
  <2> QED BY <1>0, <2>2, <2>3, ReadBack
<1>2. /\ Holds(b, offset, Num4(length)) /\ Holds(b, offset + 4, Num2(512))
      /\ Holds(b, offset + 6, Num2(2)) /\ Holds(b, offset + 8, pkcs7)
  BY CertificateTableBytes
<1>3. Le4(b, offset) = length
  <2>1. length <= Uint32Max
    BY <1>0
  <2>2. length \div 65536 < 65536
    BY <2>1, FitsField
  <2> QED BY <1>2, <2>2, ReadBack
<1>4. Le2(b, offset + 4) = 512 /\ Le2(b, offset + 6) = 2
  <2>1. 512 \in Nat /\ 2 \in Nat /\ 512 < 65536 /\ 2 < 65536 /\ offset + 4 \in Nat /\ offset + 6 \in Nat
    OBVIOUS
  <2> QED BY <1>2, <2>1, ReadBack
<1>5. offset # 0 /\ size # 0 /\ size >= 8 /\ offset >= HeadersEnd /\ 8 <= length
  BY <1>0
<1>6. t.address = offset /\ t.size = size
  BY <1>1, TableFields
<1>7. t.present
  BY <1>5, <1>6, TableFields
<1>8. t.length = length
  BY <1>3, <1>5, <1>6, <1>7, TableFields
<1>9. t.ok
  <2>1. /\ t.address + t.size <= Len(b) /\ t.address >= HeadersEnd /\ t.size >= 8
        /\ 8 <= t.length /\ t.length <= t.size
        /\ Le2(b, t.address + 4) = 512
        /\ Le2(b, t.address + 6) = 2
    BY <1>4, <1>5, <1>6, <1>8
  <2> QED BY <2>1, TableFields, Zenon
<1>10. ProgramEnd(b) = offset
  BY <1>6, <1>7 DEF ProgramEnd
<1>11. ExtractSignature(b) = Slice(b, offset + 8, offset + length)
  BY <1>6, <1>8 DEF ExtractSignature
<1>12. PICK from \in Nat, to \in Nat :
         /\ from = offset + 8 /\ to = offset + length
         /\ to <= Len(b) /\ from <= to /\ to - from = Len(pkcs7)
  BY <1>0
<1> DEFINE g == Slice(b, from, to)
<1>13. /\ g \in Seq(Byte) /\ Len(g) = to - from
       /\ \A i \in 1..(to - from) : g[i] = b[from + i]
  <2>1. to <= Len(b) /\ from <= to
    BY <1>12
  <2> QED BY <2>1, SliceBytes, ZenonT(40)
<1> HIDE DEF g
<1>14. \A i \in 1..Len(pkcs7) : b[from + i] = pkcs7[i]
  BY <1>2, <1>12 DEF Holds
<1>15. Len(g) = Len(pkcs7) /\ \A i \in 1..Len(pkcs7) : g[i] = pkcs7[i]
  <2>1. 1..(to - from) = 1..Len(pkcs7)
    BY <1>12
  <2> QED BY <1>12, <1>13, <1>14, <2>1
<1>16. g = pkcs7
  BY <1>12, <1>13, <1>15, SameBytes
<1> QED BY <1>7, <1>9, <1>10, <1>11, <1>12, <1>16 DEF g

----------------------------------------------------------------------------
(* The checksum. *)

\* Folding keeps a sum of two words below 2^16, the same modulo 2^16 - 1, and
\* does not make it zero.
LEMMA FoldCarry ==
  ASSUME NEW n \in Nat, n < 131071
  PROVE  /\ Fold16(n) \in Nat /\ Fold16(n) < 65536
         /\ n < 65536 => Fold16(n) = n
         /\ n >= 65536 => Fold16(n) = n - 65535
<1>1. CASE n < 65536
  <2>1. n % 65536 = n /\ n \div 65536 = 0
    BY <1>1
  <2> QED BY <1>1, <2>1 DEF Fold16
<1>2. CASE n >= 65536
  <2>1. n % 65536 = n - 65536 /\ n \div 65536 = 1
    BY <1>2
  <2> QED BY <1>2, <2>1 DEF Fold16
<1> QED BY <1>1, <1>2

\* What Sums computes.
LEMMA SumsValues ==
  ASSUME NEW z \in Seq(Byte)
  PROVE  LET N == Len(z) \div 2
         IN  /\ Sums(z)[0] = 0
             /\ \A i \in 1..N : Sums(z)[i] =
                  IF 2 * (i - 1) \in {CheckSumAt, CheckSumAt + 2} THEN Sums(z)[i - 1]
                  ELSE Fold16(Sums(z)[i - 1] + Le2(z, 2 * (i - 1)))
<1> DEFINE N == Len(z) \div 2
           Step(i, v) == IF 2 * (i - 1) \in {CheckSumAt, CheckSumAt + 2} THEN v
                         ELSE Fold16(v + Le2(z, 2 * (i - 1)))
           Body(g) == [i \in 0..N |-> IF i = 0 THEN 0 ELSE Step(i, g[i - 1])]
           step == [i \in 1..N |-> [v \in Nat |-> Step(i, v)]]
<1>1. N \in Nat
  OBVIOUS
<1>2. Sums(z) = CHOOSE g : g = Body(g)
  BY DEF Sums
<1>3. \E g : g = Body(g)
  <2>1. step \in [1..N -> [Nat -> Nat]]
    <3>1. ASSUME NEW i \in 1..N, NEW v \in Nat PROVE Step(i, v) \in Nat
      <4>1. Le2(z, 2 * (i - 1)) \in Nat
        <5>1. 2 * (i - 1) \in Nat /\ 2 * (i - 1) + 2 <= Len(z)
          BY <1>1
        <5> QED BY <5>1, LeNat
      <4>2. ASSUME NEW n \in Nat PROVE Fold16(n) \in Nat
        BY DEF Fold16
      <4>3. v + Le2(z, 2 * (i - 1)) \in Nat
        BY <4>1
      <4> QED BY <4>2, <4>3
    <3> HIDE DEF Step
    <3> QED BY <3>1
  <2> HIDE DEF step, N
  <2>2. PICK f \in [0..N -> Nat] : f[0] = 0 /\ \A i \in 1..N : f[i] = step[i][f[i - 1]]
    <3>1. 0 \in Nat
      OBVIOUS
    <3>2. Iterable(N, Nat, 0, step)
      BY <1>1, <2>1, <3>1, Iteration, Zenon
    <3> QED BY <3>2, Zenon DEF Iterable
  <2>3. f = Body(f)
    <3>1. ASSUME NEW i \in 0..N PROVE f[i] = Body(f)[i]
      <4>1. CASE i = 0
        BY <2>2, <4>1
      <4>2. CASE i # 0
        <5>1. i \in 1..N /\ i - 1 \in 0..N
          BY <1>1, <4>2
        <5>2. f[i] = step[i][f[i - 1]] /\ f[i - 1] \in Nat
          BY <2>2, <5>1
        <5>3. step[i][f[i - 1]] = Step(i, f[i - 1])
          <6> HIDE DEF Step
          <6> QED BY <5>1, <5>2 DEF step
        <5> HIDE DEF Step
        <5> QED BY <4>2, <5>2, <5>3
      <4> QED BY <4>1, <4>2
    <3> HIDE DEF Step
    <3> QED BY <3>1
  <2> HIDE DEF Body
  <2> QED BY <2>3
<1> HIDE DEF Body
<1>4. Sums(z) = Body(Sums(z))
  BY <1>2, <1>3, Zenon
<1> HIDE DEF N, Step
<1>5. /\ 0 \in 0..N /\ \A i \in 1..N : i \in 0..N /\ i # 0
  BY <1>1
<1>6. \A i \in 0..N : Sums(z)[i] = IF i = 0 THEN 0 ELSE Step(i, Sums(z)[i - 1])
  <2>1. \A i \in 0..N : Body(Sums(z))[i] = IF i = 0 THEN 0 ELSE Step(i, Sums(z)[i - 1])
    BY DEF Body
  <2> QED BY <1>4, <2>1
<1>7. Sums(z)[0] = 0 /\ \A i \in 1..N : Sums(z)[i] = Step(i, Sums(z)[i - 1])
  BY <1>5, <1>6
<1> QED BY <1>7 DEF N, Step

\* What Totals computes.
LEMMA TotalsValues ==
  ASSUME NEW z \in Seq(Byte)
  PROVE  LET N == Len(z) \div 2
         IN  /\ Totals(z)[0] = 0
             /\ \A i \in 1..N : Totals(z)[i] = Totals(z)[i - 1] + Le2(z, 2 * (i - 1))
<1> DEFINE N == Len(z) \div 2
           Step(i, v) == v + Le2(z, 2 * (i - 1))
           Body(g) == [i \in 0..N |-> IF i = 0 THEN 0 ELSE Step(i, g[i - 1])]
           step == [i \in 1..N |-> [v \in Nat |-> Step(i, v)]]
<1>1. N \in Nat
  OBVIOUS
<1>2. Totals(z) = CHOOSE g : g = Body(g)
  BY DEF Totals
<1>3. \E g : g = Body(g)
  <2>1. step \in [1..N -> [Nat -> Nat]]
    <3>1. ASSUME NEW i \in 1..N, NEW v \in Nat PROVE Step(i, v) \in Nat
      <4>1. Le2(z, 2 * (i - 1)) \in Nat
        <5>1. 2 * (i - 1) \in Nat /\ 2 * (i - 1) + 2 <= Len(z)
          BY <1>1
        <5> QED BY <5>1, LeNat
      <4> QED BY <4>1
    <3> HIDE DEF Step
    <3> QED BY <3>1
  <2> HIDE DEF step, N
  <2>2. PICK f \in [0..N -> Nat] : f[0] = 0 /\ \A i \in 1..N : f[i] = step[i][f[i - 1]]
    <3>1. 0 \in Nat
      OBVIOUS
    <3>2. Iterable(N, Nat, 0, step)
      BY <1>1, <2>1, <3>1, Iteration, Zenon
    <3> QED BY <3>2, Zenon DEF Iterable
  <2>3. f = Body(f)
    <3>1. ASSUME NEW i \in 0..N PROVE f[i] = Body(f)[i]
      <4>1. CASE i = 0
        BY <2>2, <4>1
      <4>2. CASE i # 0
        <5>1. i \in 1..N /\ i - 1 \in 0..N
          BY <1>1, <4>2
        <5>2. f[i] = step[i][f[i - 1]] /\ f[i - 1] \in Nat
          BY <2>2, <5>1
        <5>3. step[i][f[i - 1]] = Step(i, f[i - 1])
          <6> HIDE DEF Step
          <6> QED BY <5>1, <5>2 DEF step
        <5> HIDE DEF Step
        <5> QED BY <4>2, <5>2, <5>3
      <4> QED BY <4>1, <4>2
    <3> HIDE DEF Step
    <3> QED BY <3>1
  <2> HIDE DEF Body
  <2> QED BY <2>3
<1> HIDE DEF Body
<1>4. Totals(z) = Body(Totals(z))
  BY <1>2, <1>3, Zenon
<1> HIDE DEF N, Step
<1>5. /\ 0 \in 0..N /\ \A i \in 1..N : i \in 0..N /\ i # 0
  BY <1>1
<1>6. \A i \in 0..N : Totals(z)[i] = IF i = 0 THEN 0 ELSE Step(i, Totals(z)[i - 1])
  <2>1. \A i \in 0..N : Body(Totals(z))[i] = IF i = 0 THEN 0 ELSE Step(i, Totals(z)[i - 1])
    BY DEF Body
  <2> QED BY <1>4, <2>1
<1>7. Totals(z)[0] = 0 /\ \A i \in 1..N : Totals(z)[i] = Step(i, Totals(z)[i - 1])
  BY <1>5, <1>6
<1> QED BY <1>7 DEF N, Step

\* A folded sum s stands for the total t: it is t modulo 2^16 - 1, but 0 only
\* for 0.
StandsFor(s, t) ==
  /\ s \in Nat /\ s < 65536
  /\ t \in Nat
  /\ s = 0 => t = 0
  /\ \E k \in Nat : t = s + 65535 * k

LEMMA StandsForNext ==
  ASSUME NEW s, NEW t, StandsFor(s, t), NEW x \in Nat, x < 65536
  PROVE  StandsFor(Fold16(s + x), t + x)
<1>1. /\ s \in Nat /\ s < 65536 /\ t \in Nat /\ (s = 0 => t = 0)
      /\ s + x \in Nat /\ s + x < 131071
  BY DEF StandsFor
<1>2. PICK k \in Nat : t = s + 65535 * k
  BY DEF StandsFor
<1> DEFINE f == Fold16(s + x)
<1>3. /\ f \in Nat /\ f < 65536
      /\ s + x < 65536 => f = s + x
      /\ s + x >= 65536 => f = (s + x) - 65535
  BY <1>1, FoldCarry
<1> HIDE DEF f
<1>4. CASE s + x < 65536
  <2>1. t + x = f + 65535 * k /\ (f = 0 => t + x = 0)
    BY <1>1, <1>2, <1>3, <1>4
  <2> QED BY <1>1, <1>3, <2>1 DEF StandsFor, f
<1>5. CASE s + x >= 65536
  <2>1. t + x = f + 65535 * (k + 1) /\ f # 0 /\ k + 1 \in Nat
    BY <1>1, <1>2, <1>3, <1>5
  <2>2. \E j \in Nat : t + x = f + 65535 * j
    <3>1. PICK j \in Nat : j = k + 1
      BY <1>2
    <3>2. t + x = f + 65535 * j
      BY <2>1, <3>1
    <3> QED BY <3>2
  <2>3. t + x \in Nat
    BY <1>1
  <2>4. StandsFor(f, t + x)
    BY <1>3, <2>1, <2>2, <2>3 DEF StandsFor
  <2> QED BY <2>4 DEF f
<1> QED BY <1>1, <1>4, <1>5

LEMMA StandsForValue ==
  ASSUME NEW s, NEW t, StandsFor(s, t)
  PROVE  s = IF t = 0 THEN 0 ELSE 1 + ((t - 1) % 65535)
<1>1. s \in Nat /\ s < 65536 /\ t \in Nat /\ (s = 0 => t = 0)
  BY DEF StandsFor
<1>2. PICK k \in Nat : t = s + 65535 * k
  BY DEF StandsFor
<1>3. CASE t = 0
  BY <1>1, <1>2, <1>3
<1>4. CASE t # 0
  <2>1. s - 1 \in Nat /\ s - 1 < 65535 /\ t - 1 = 65535 * k + (s - 1) /\ t - 1 \in Nat
    BY <1>1, <1>2, <1>4
  <2>2. (t - 1) % 65535 = s - 1
    BY <2>1
  <2> QED BY <1>1, <1>4, <2>2
<1> QED BY <1>3, <1>4

\* Word for word, the folded sum stands for the total: the words of the field
\* that are left out are zero.
LEMMA SumsStandForTotals ==
  ASSUME NEW z \in Seq(Byte), NEW w \in Seq(Byte), Len(z) <= Len(w),
         \A i \in 1..Len(z) : w[i] = z[i],
         \A i \in Nat : CheckSumAt < i /\ i <= CheckSumAt + 4 => z[i] = 0
  PROVE  \A i \in 0..(Len(z) \div 2) : StandsFor(Sums(z)[i], Totals(w)[i])
<1> DEFINE N == Len(z) \div 2
           M == Len(w) \div 2
           S == {i \in 0..N : StandsFor(Sums(z)[i], Totals(w)[i])}
<1>0. N \in Nat /\ M \in Nat /\ N <= M /\ Len(z) \in Nat /\ Len(w) \in Nat /\ 2 * N <= Len(z)
  OBVIOUS
<1>1. 0 \in S
  <2>1. Sums(z)[0] = 0 /\ Totals(w)[0] = 0
    BY SumsValues, TotalsValues
  <2>2. StandsFor(0, 0)
    BY DEF StandsFor
  <2> QED BY <1>0, <2>1, <2>2
<1>2. ASSUME NEW n \in 0..(N - 1), n \in S PROVE n + 1 \in S
  <2>0. /\ n \in Nat /\ n + 1 \in 1..N /\ n + 1 \in 1..M /\ n + 1 \in 0..N
        /\ (n + 1) - 1 = n /\ 2 * n \in Nat /\ 2 * n + 2 <= Len(z)
    BY <1>0, <1>2
  <2>1. StandsFor(Sums(z)[n], Totals(w)[n])
    BY <1>2
  <2>2. Le2(w, 2 * n) = Le2(z, 2 * n)
    <3>1. 2 * n + 1 \in 1..Len(z) /\ (2 * n + 1) + 1 \in 1..Len(z)
      BY <1>0, <2>0
    <3>2. w[2 * n + 1] = z[2 * n + 1] /\ w[(2 * n + 1) + 1] = z[(2 * n + 1) + 1]
      BY <3>1
    <3> QED BY <3>2 DEF Le2, ByteAt
  <2>3. Le2(z, 2 * n) \in Nat /\ Le2(z, 2 * n) < 65536
    BY <2>0, LeNat
  <2>4. Totals(w)[n + 1] = Totals(w)[n] + Le2(z, 2 * n)
    <3>1. Totals(w)[n + 1] = Totals(w)[(n + 1) - 1] + Le2(w, 2 * ((n + 1) - 1))
      BY <2>0, TotalsValues
    <3> QED BY <2>0, <2>2, <3>1
  <2>5. Sums(z)[n + 1] = IF 2 * n \in {CheckSumAt, CheckSumAt + 2} THEN Sums(z)[n]
                         ELSE Fold16(Sums(z)[n] + Le2(z, 2 * n))
    <3>1. Sums(z)[n + 1] =
            IF 2 * ((n + 1) - 1) \in {CheckSumAt, CheckSumAt + 2} THEN Sums(z)[(n + 1) - 1]
            ELSE Fold16(Sums(z)[(n + 1) - 1] + Le2(z, 2 * ((n + 1) - 1)))
      BY <2>0, SumsValues
    <3> QED BY <2>0, <3>1
  <2>6. CASE 2 * n \in {CheckSumAt, CheckSumAt + 2}
    <3>1. z[2 * n + 1] = 0 /\ z[(2 * n + 1) + 1] = 0
      BY <2>0, <2>6, LayoutAssumption
    <3>2. Le2(z, 2 * n) = 0
      BY <3>1 DEF Le2, ByteAt
    <3>3. Totals(w)[n] + 0 = Totals(w)[n]
      BY <2>1 DEF StandsFor
    <3> QED BY <2>0, <2>1, <2>4, <2>5, <2>6, <3>2, <3>3
  <2>7. CASE ~(2 * n \in {CheckSumAt, CheckSumAt + 2})
    <3>1. StandsFor(Fold16(Sums(z)[n] + Le2(z, 2 * n)), Totals(w)[n] + Le2(z, 2 * n))
      BY <2>1, <2>3, StandsForNext
    <3> QED BY <2>0, <2>4, <2>5, <2>7, <3>1
  <2> QED BY <2>6, <2>7
<1> HIDE DEF S, N
<1>3. 0..N \subseteq S
  BY <1>0, <1>1, <1>2, IntervalInduction, Zenon
<1> QED BY <1>3 DEF S, N

\* With the field zeroed.
LEMMA UncheckedBytes ==
  ASSUME NEW b \in Seq(Byte), CheckSumAt + 4 <= Len(b)
  PROVE  /\ Unchecked(b) \in Seq(Byte) /\ Len(Unchecked(b)) = Len(b)
         /\ \A i \in 1..Len(b) :
              Unchecked(b)[i] = IF CheckSumAt < i /\ i <= CheckSumAt + 4 THEN 0 ELSE b[i]
<1> DEFINE v == Zeros(4)
<1>1. v \in Seq(Byte) /\ Len(v) = 4 /\ \A i \in 1..4 : v[i] = 0
  <2>1. PICK n \in Nat : n = 4
    OBVIOUS
  <2>2. Zeros(n) \in Seq(Byte) /\ Len(Zeros(n)) = n /\ \A i \in 1..n : Zeros(n)[i] = 0
    BY ZeroBytes
  <2> QED BY <2>1, <2>2
<1> HIDE DEF v
<1>2. CheckSumAt \in Nat /\ CheckSumAt + Len(v) <= Len(b) /\ Len(b) \in Nat
  BY <1>1, LayoutAssumption
<1> DEFINE r == Put(b, CheckSumAt, v)
<1>3. /\ r \in Seq(Byte) /\ Len(r) = Len(b)
      /\ Holds(r, CheckSumAt, v)
      /\ \A i \in 1..Len(b) : ~(CheckSumAt < i /\ i <= CheckSumAt + Len(v)) => r[i] = b[i]
  BY <1>1, <1>2, PutBytes, Zenon
<1>4. r = Unchecked(b)
  BY DEF Unchecked, v
<1> HIDE DEF r
<1>5. ASSUME NEW i \in 1..Len(b), CheckSumAt < i, i <= CheckSumAt + 4 PROVE r[i] = 0
  <2>1. PICK j \in 1..Len(v) : i = CheckSumAt + j /\ v[j] = 0
    <3>1. i - CheckSumAt \in 1..4 /\ i = CheckSumAt + (i - CheckSumAt)
      BY <1>2, <1>5
    <3>2. i - CheckSumAt \in 1..Len(v)
      BY <1>1, <1>2, <1>5
    <3> QED BY <1>1, <3>1, <3>2
  <2> QED BY <1>3, <2>1 DEF Holds
<1>6. ASSUME NEW i \in 1..Len(b), ~(CheckSumAt < i /\ i <= CheckSumAt + 4) PROVE r[i] = b[i]
  BY <1>1, <1>3, <1>6
<1>7. r \in Seq(Byte) /\ Len(r) = Len(b)
  BY <1>3
<1> QED BY <1>4, <1>5, <1>6, <1>7

\* RecalcChecksum's sum is the reference sum.
LEMMA ChecksumIsReference ==
  ASSUME NEW b \in Seq(Byte), CheckSumAt + 4 <= Len(b)
  PROVE  /\ FoldedSum(Unchecked(b)) + Len(b) \in Nat
         /\ ReferenceChecksum(b) = FoldedSum(Unchecked(b)) + Len(b)
<1> DEFINE z == Unchecked(b)
           odd == Len(b) % 2
           w == z \o Zeros(odd)
           N == Len(z) \div 2
           total == Totals(w)[Len(w) \div 2]
<1>0. CheckSumAt \in Nat /\ Len(b) \in Nat /\ odd \in Nat
  BY LayoutAssumption
<1>1. /\ z \in Seq(Byte) /\ Len(z) = Len(b)
      /\ \A i \in Nat : CheckSumAt < i /\ i <= CheckSumAt + 4 => z[i] = 0
  <2>1. \A i \in Nat : CheckSumAt < i /\ i <= CheckSumAt + 4 => i \in 1..Len(b)
    BY <1>0
  <2> QED BY <2>1, UncheckedBytes
<1>2. Zeros(odd) \in Seq(Byte) /\ Len(Zeros(odd)) = odd /\ \A i \in 1..odd : Zeros(odd)[i] = 0
  BY <1>0, ZeroBytes
<1> HIDE DEF z, odd
<1>3. /\ w \in Seq(Byte) /\ Len(w) = Len(z) + Len(Zeros(odd))
      /\ \A i \in 1..Len(z) : w[i] = z[i]
      /\ \A i \in 1..Len(Zeros(odd)) : w[Len(z) + i] = Zeros(odd)[i]
  BY <1>1, <1>2, ConcatBytes, Zenon
<1> HIDE DEF w
<1>4. Len(w) = Len(b) + odd /\ (odd = 1 => w[Len(b) + 1] = 0)
  <2>1. Len(w) = Len(b) + odd
    BY <1>1, <1>2, <1>3
  <2>2. ASSUME odd = 1 PROVE w[Len(b) + 1] = 0
    <3>1. 1 \in 1..Len(Zeros(odd)) /\ 1 \in 1..odd
      BY <1>2, <2>2
    <3> QED BY <1>1, <1>2, <1>3, <3>1
  <2> QED BY <2>1, <2>2
<1>5. \A i \in 0..N : StandsFor(Sums(z)[i], Totals(w)[i])
  <2>1. Len(z) <= Len(w)
    BY <1>0, <1>1, <1>4
  <2> QED BY <1>1, <1>3, <2>1, SumsStandForTotals
<1>6. StandsFor(FoldedSum(z), total)
  <2>1. StandsFor(Sums(z)[N], Totals(w)[N]) /\ N \in Nat
    BY <1>0, <1>1, <1>5
  <2>2. Sums(z)[N] \in Nat /\ Sums(z)[N] < 65536 /\ Totals(w)[N] \in Nat
    BY <2>1 DEF StandsFor
  <2>3. CASE odd = 0
    <3>1. Len(w) \div 2 = N /\ Len(z) % 2 = 0
      <4>1. Len(w) = Len(b) /\ Len(z) = Len(b)
        BY <1>0, <1>1, <1>4, <2>3
      <4>2. Len(b) % 2 = 0
        BY <2>3 DEF odd
      <4> QED BY <4>1, <4>2
    <3>2. FoldedSum(z) = Fold16(Sums(z)[N])
      BY <3>1 DEF FoldedSum
    <3>3. Fold16(Sums(z)[N]) = Sums(z)[N]
      BY <2>2, FoldCarry
    <3> QED BY <2>1, <3>1, <3>2, <3>3
  <2>4. CASE odd = 1
    <3>1. /\ Len(w) \div 2 = N + 1 /\ Len(z) % 2 # 0
          /\ 2 * N = Len(z) - 1 /\ 2 * N \in Nat /\ Len(z) \in 1..Len(z)
          /\ N + 1 \in 1..(Len(w) \div 2) /\ (N + 1) - 1 = N
      BY <1>0, <1>1, <1>4, <2>1, <2>4 DEF odd
    <3> DEFINE x == ByteAt(z, Len(z) - 1)
               f == Fold16(Sums(z)[N] + x)
    <3>2. x \in Nat /\ x < 65536 /\ x = z[Len(z)]
      <4>1. x = z[Len(z)]
        BY <1>0, <1>1 DEF ByteAt
      <4>2. z[Len(z)] \in Byte
        BY <1>1, <3>1
      <4> QED BY <4>1, <4>2, ByteRange
    <3>3. Le2(w, 2 * N) = x
      <4>1. w[Len(z)] = z[Len(z)] /\ w[Len(z) + 1] = 0
        BY <1>1, <1>3, <1>4, <2>4, <3>1
      <4>2. 2 * N + 1 = Len(z) /\ (2 * N + 1) + 1 = Len(z) + 1
        BY <1>0, <1>1, <3>1
      <4>3. ByteAt(w, 2 * N) = x /\ ByteAt(w, 2 * N + 1) = 0
        BY <3>2, <4>1, <4>2 DEF ByteAt
      <4> HIDE DEF x, N
      <4> QED BY <3>2, <4>3 DEF Le2
    <3>4. total = Totals(w)[N] + x
      <4>1. Totals(w)[N + 1] = Totals(w)[(N + 1) - 1] + Le2(w, 2 * ((N + 1) - 1))
        BY <1>3, <3>1, TotalsValues
      <4> QED BY <3>1, <3>3, <4>1
    <3> HIDE DEF x
    <3>5. StandsFor(f, total)
      BY <2>1, <3>2, <3>4, StandsForNext
    <3>6. FoldedSum(z) = Fold16(f)
      BY <3>1 DEF FoldedSum, x
    <3>7. Fold16(f) = f
      <4>1. f \in Nat /\ f < 65536
        BY <3>5 DEF StandsFor
      <4> HIDE DEF f
      <4> QED BY <4>1, FoldCarry
    <3> QED BY <3>5, <3>6, <3>7
  <2> QED BY <1>0, <2>3, <2>4 DEF odd
<1>7. FoldedSum(z) \in Nat
  BY <1>6 DEF StandsFor
<1>8. FoldedSum(z) = IF total = 0 THEN 0 ELSE 1 + ((total - 1) % 65535)
  BY <1>6, StandsForValue
<1>9. ReferenceChecksum(b) = Len(b) + (IF total = 0 THEN 0 ELSE 1 + ((total - 1) % 65535))
  BY DEF ReferenceChecksum, z, w, odd
<1> HIDE DEF total
<1>10. ReferenceChecksum(b) = Len(b) + FoldedSum(z)
  BY <1>8, <1>9
<1> QED BY <1>0, <1>7, <1>10 DEF z

\* RecalcChecksum writes its field and nothing else.
LEMMA RecalcBytes ==
  ASSUME NEW c \in Seq(Byte), CheckSumAt + 4 <= Len(c)
  PROVE  /\ RecalcChecksum(c) \in Seq(Byte) /\ Len(RecalcChecksum(c)) = Len(c)
         /\ \A i \in 1..Len(c) :
              ~(CheckSumAt < i /\ i <= CheckSumAt + 4) => RecalcChecksum(c)[i] = c[i]
         /\ Slice(RecalcChecksum(c), CheckSumAt, CheckSumAt + 4)
              = Num4(ReferenceChecksum(RecalcChecksum(c)))
<1> DEFINE z == Unchecked(c)
           sum == FoldedSum(z) + Len(c)
           v == Num4(sum)
           r == Put(z, CheckSumAt, v)
<1>0. CheckSumAt \in Nat /\ Len(c) \in Nat
  BY LayoutAssumption
<1>1. sum \in Nat
  BY ChecksumIsReference
<1>2. /\ z \in Seq(Byte) /\ Len(z) = Len(c)
      /\ \A i \in 1..Len(c) :
           z[i] = IF CheckSumAt < i /\ i <= CheckSumAt + 4 THEN 0 ELSE c[i]
  BY UncheckedBytes, Zenon
<1>3. r = RecalcChecksum(c)
  BY DEF RecalcChecksum
<1> HIDE DEF sum
<1>4. v \in Seq(Byte) /\ Len(v) = 4
  BY <1>1, NumLength
<1> HIDE DEF z, v
<1>5. CheckSumAt + Len(v) <= Len(z)
  BY <1>2, <1>4
<1>6. /\ r \in Seq(Byte) /\ Len(r) = Len(z) /\ Holds(r, CheckSumAt, v)
      /\ \A i \in 1..Len(z) : ~(CheckSumAt < i /\ i <= CheckSumAt + Len(v)) => r[i] = z[i]
  BY <1>0, <1>2, <1>4, <1>5, PutBytes, Zenon
<1> HIDE DEF r
<1>7. \A i \in 1..Len(c) : ~(CheckSumAt < i /\ i <= CheckSumAt + 4) => r[i] = c[i]
  BY <1>2, <1>4, <1>6
<1>8. Len(r) = Len(c) /\ CheckSumAt + 4 <= Len(r)
  BY <1>2, <1>6
<1> DEFINE u == Unchecked(r)
<1>9. u = z
  <2>1. /\ u \in Seq(Byte) /\ Len(u) = Len(r)
        /\ \A i \in 1..Len(r) :
             u[i] = IF CheckSumAt < i /\ i <= CheckSumAt + 4 THEN 0 ELSE r[i]
    BY <1>6, <1>8, UncheckedBytes, Zenon
  <2> HIDE DEF u
  <2>2. \A i \in 1..Len(u) : u[i] = z[i]
    BY <1>2, <1>7, <1>8, <2>1
  <2>3. Len(u) = Len(z)
    BY <1>2, <1>8, <2>1
  <2> QED BY <1>2, <2>1, <2>2, <2>3, SameBytes, Zenon
<1>10. ReferenceChecksum(r) = sum
  <2>1. ReferenceChecksum(r) = FoldedSum(u) + Len(r)
    BY <1>6, <1>8, ChecksumIsReference
  <2> QED BY <1>8, <1>9, <2>1 DEF sum
<1> DEFINE g == Slice(r, CheckSumAt, CheckSumAt + 4)
<1>11. g = v
  <2>1. PICK to \in Nat : to = CheckSumAt + 4 /\ to <= Len(r) /\ CheckSumAt <= to /\ to - CheckSumAt = 4
    BY <1>0, <1>8
  <2> DEFINE h == Slice(r, CheckSumAt, to)
  <2>2. /\ h \in Seq(Byte) /\ Len(h) = to - CheckSumAt
        /\ \A i \in 1..(to - CheckSumAt) : h[i] = r[CheckSumAt + i]
    <3>1. CheckSumAt <= to /\ to <= Len(r)
      BY <2>1
    <3> QED BY <1>0, <1>6, <3>1, SliceBytes, Zenon
  <2>3. g = h
    BY <2>1
  <2> HIDE DEF h, g
  <2>4. Len(h) = Len(v) /\ 1..Len(h) = 1..Len(v) /\ 1..Len(h) = 1..(to - CheckSumAt)
    BY <1>4, <2>1, <2>2
  <2>5. \A i \in 1..Len(h) : h[i] = v[i]
    BY <1>6, <2>2, <2>4 DEF Holds
  <2>6. h = v
    BY <1>4, <2>2, <2>4, <2>5, SameBytes, Zenon
  <2> QED BY <2>3, <2>6
<1>12. /\ r \in Seq(Byte) /\ Len(r) = Len(c)
       /\ Slice(r, CheckSumAt, CheckSumAt + 4) = Num4(ReferenceChecksum(r))
  BY <1>6, <1>8, <1>10, <1>11 DEF v
<1> QED BY <1>3, <1>7, <1>12

\* Writing the directory entry and the checksum.
LEMMA FinishBytes ==
  ASSUME NEW c \in Seq(Byte), HeadersEnd <= Len(c), NEW e \in Seq(Byte), Len(e) = 8
  PROVE  LET r == RecalcChecksum(Put(c, SecurityAt, e))
         IN  /\ r \in Seq(Byte) /\ Len(r) = Len(c)
             /\ \A i \in 1..Len(c) : Plain(i) => r[i] = c[i]
             /\ Holds(r, SecurityAt, e)
             /\ Slice(r, CheckSumAt, CheckSumAt + 4) = Num4(ReferenceChecksum(r))
<1> DEFINE d == Put(c, SecurityAt, e)
           r == RecalcChecksum(d)
<1>0. /\ CheckSumAt \in Nat /\ SecurityAt \in Nat /\ CheckSumAt + 4 <= SecurityAt
      /\ HeadersEnd = SecurityAt + 8 /\ Len(c) \in Nat
      /\ SecurityAt + Len(e) <= Len(c)
  BY LayoutAssumption DEF HeadersEnd
<1>1. /\ d \in Seq(Byte) /\ Len(d) = Len(c) /\ Holds(d, SecurityAt, e)
      /\ \A i \in 1..Len(c) : ~(SecurityAt < i /\ i <= SecurityAt + Len(e)) => d[i] = c[i]
  BY <1>0, PutBytes, Zenon
<1> HIDE DEF d
<1>2. CheckSumAt + 4 <= Len(d)
  BY <1>0, <1>1
<1>3. /\ r \in Seq(Byte) /\ Len(r) = Len(d)
      /\ \A i \in 1..Len(d) : ~(CheckSumAt < i /\ i <= CheckSumAt + 4) => r[i] = d[i]
      /\ Slice(r, CheckSumAt, CheckSumAt + 4) = Num4(ReferenceChecksum(r))
  BY <1>1, <1>2, RecalcBytes, Zenon
<1> HIDE DEF r
<1>4. ASSUME NEW i \in 1..Len(c), Plain(i) PROVE r[i] = c[i]
  BY <1>0, <1>1, <1>3, <1>4 DEF Plain
<1>5. ASSUME NEW i \in 1..Len(e) PROVE r[SecurityAt + i] = e[i]
  <2>1. /\ SecurityAt + i \in 1..Len(d)
        /\ ~(CheckSumAt < SecurityAt + i /\ SecurityAt + i <= CheckSumAt + 4)
    BY <1>0, <1>1
  <2>2. d[SecurityAt + i] = e[i]
    BY <1>1 DEF Holds
  <2>3. r[SecurityAt + i] = d[SecurityAt + i]
    BY <1>3, <2>1
  <2> QED BY <2>2, <2>3
<1>6. r \in Seq(Byte) /\ Len(r) = Len(c) /\ Holds(r, SecurityAt, e)
  BY <1>1, <1>3, <1>5 DEF Holds
<1> QED BY <1>3, <1>4, <1>6 DEF d, r

----------------------------------------------------------------------------
(* Embedding and stripping. *)

\* What is in a file after EmbedSignature: the program as it was, zeros up to
\* the boundary, and there a table that is read back as the signature given.
LEMMA EmbedBytes ==
  ASSUME NEW b \in Seq(Byte), NEW pkcs7 \in Seq(Byte), Embed(b, pkcs7) # Rejected
  PROVE  LET r == Embed(b, pkcs7)
             kept == ProgramEnd(b)
             offset == kept + Padding(kept)
         IN  /\ Readable(b)
             /\ r \in Seq(Byte) /\ HeadersEnd <= Len(r)
             /\ ValidateCertificateTable(r).ok /\ ValidateCertificateTable(r).present
             /\ ProgramEnd(r) = offset /\ ExtractSignature(r) = pkcs7
             /\ \A i \in 1..kept : Plain(i) => r[i] = b[i]
             /\ \A i \in (kept + 1)..offset : r[i] = 0
             /\ Slice(r, CheckSumAt, CheckSumAt + 4) = Num4(ReferenceChecksum(r))
<1> DEFINE r == Embed(b, pkcs7)
           kept == ProgramEnd(b)
           pad == Padding(kept)
           offset == kept + pad
           length == 8 + Len(pkcs7)
           size == length + Padding(length)
           e == Num4(offset) \o Num4(size)
           head == Slice(b, 0, kept)
           zeros == Zeros(pad)
           program0 == head \o zeros
           table == CertificateTable(length, pkcs7)
           cut == program0 \o table
<1>1. /\ Readable(b) /\ ~(Len(pkcs7) > Uint32Max - 8) /\ ~(offset > Uint32Max) /\ ~(size > Uint32Max)
      /\ r = RecalcChecksum(Put(cut, SecurityAt, e))
  BY DEF Embed, CertificateTable
<1> HIDE DEF r
<1>2. HeadersEnd <= Len(b) /\ ValidateCertificateTable(b).ok
  BY <1>1 DEF Readable, ParsePeLayout
<1>3. /\ kept \in Nat /\ HeadersEnd <= kept /\ kept <= Len(b)
      /\ HeadersEnd \in Nat /\ HeadersEnd = SecurityAt + 8 /\ SecurityAt \in Nat /\ Uint32Max \in Nat
      /\ CheckSumAt \in Nat /\ CheckSumAt + 4 <= SecurityAt
  BY <1>2, ProgramEndRange, LayoutAssumption, Uint32MaxAssumption DEF HeadersEnd
<1> HIDE DEF kept
<1>4. pad \in Nat
  BY <1>3, PaddingAligns
<1> HIDE DEF pad
<1>5. length \in Nat /\ Padding(length) \in Nat /\ length = 8 + Len(pkcs7)
  <2>1. length \in Nat
    OBVIOUS
  <2> HIDE DEF length
  <2> QED BY <2>1, PaddingAligns DEF length
<1> HIDE DEF length
<1>6. offset \in Nat /\ size \in Nat /\ offset <= Uint32Max /\ size <= Uint32Max /\ length <= size
  BY <1>1, <1>3, <1>4, <1>5
<1>7. offset = kept + pad /\ size = length + Padding(length)
  OBVIOUS
<1> HIDE DEF offset, size
<1>8. e \in Seq(Byte) /\ Len(e) = 8
  <2>1. Num4(offset) \in Seq(Byte) /\ Len(Num4(offset)) = 4
    BY <1>6, NumLength
  <2>2. Num4(size) \in Seq(Byte) /\ Len(Num4(size)) = 4
    BY <1>6, NumLength
  <2>3. e \in Seq(Byte) /\ Len(e) = Len(Num4(offset)) + Len(Num4(size))
    BY <2>1, <2>2, ConcatLength, Zenon
  <2> HIDE DEF e
  <2> QED BY <2>1, <2>2, <2>3
<1> HIDE DEF e
<1>9. head \in Seq(Byte) /\ Len(head) = kept /\ \A i \in 1..kept : head[i] = b[i]
  BY <1>3, PrefixBytes
<1> HIDE DEF head
<1>10. zeros \in Seq(Byte) /\ Len(zeros) = pad /\ \A i \in 1..pad : zeros[i] = 0
  BY <1>4, ZeroBytes
<1> HIDE DEF zeros
<1>11. /\ program0 \in Seq(Byte) /\ Len(program0) = offset
       /\ \A i \in 1..kept : program0[i] = b[i]
       /\ \A i \in (kept + 1)..offset : program0[i] = 0
  <2>1. /\ program0 \in Seq(Byte) /\ Len(program0) = Len(head) + Len(zeros)
        /\ \A i \in 1..Len(head) : program0[i] = head[i]
        /\ \A i \in 1..Len(zeros) : program0[Len(head) + i] = zeros[i]
    BY <1>9, <1>10, ConcatBytes, Zenon
  <2> HIDE DEF program0
  <2>2. Len(program0) = offset /\ \A i \in 1..kept : program0[i] = b[i]
    BY <1>7, <1>9, <1>10, <2>1
  <2>3. ASSUME NEW i \in (kept + 1)..offset PROVE program0[i] = 0
    <3>1. PICK j \in 1..pad : i = kept + j
      <4>1. i - kept \in 1..pad /\ i = kept + (i - kept)
        BY <1>3, <1>4, <1>7
      <4> QED BY <4>1
    <3> QED BY <1>9, <1>10, <2>1, <3>1
  <2> QED BY <2>1, <2>2, <2>3
<1> HIDE DEF program0
<1>12. table \in Seq(Byte) /\ Len(table) = size
  BY <1>5, <1>7, CertificateTableBytes
<1> HIDE DEF table
<1>13. /\ cut \in Seq(Byte) /\ Len(cut) = Len(program0) + Len(table)
       /\ \A i \in 1..Len(program0) : cut[i] = program0[i]
       /\ \A i \in 1..Len(table) : cut[Len(program0) + i] = table[i]
  BY <1>11, <1>12, ConcatBytes, Zenon
<1> HIDE DEF cut
<1>14. Len(cut) = offset + size /\ HeadersEnd <= Len(cut)
  BY <1>3, <1>4, <1>6, <1>7, <1>11, <1>12, <1>13
<1>15. /\ r \in Seq(Byte) /\ Len(r) = Len(cut)
       /\ \A i \in 1..Len(cut) : Plain(i) => r[i] = cut[i]
       /\ Holds(r, SecurityAt, e)
       /\ Slice(r, CheckSumAt, CheckSumAt + 4) = Num4(ReferenceChecksum(r))
  BY <1>1, <1>8, <1>13, <1>14, FinishBytes
<1>16. Holds(r, offset, table)
  <2> SUFFICES ASSUME NEW i \in 1..Len(table) PROVE r[offset + i] = table[i]
    BY DEF Holds
  <2>1. offset + i \in 1..Len(cut) /\ Plain(offset + i)
    BY <1>3, <1>4, <1>6, <1>7, <1>12, <1>14 DEF Plain
  <2> QED BY <1>11, <1>13, <1>15, <2>1
<1>17. /\ ValidateCertificateTable(r).ok /\ ValidateCertificateTable(r).present
       /\ ProgramEnd(r) = offset /\ ExtractSignature(r) = pkcs7
  <2>1. HeadersEnd <= offset /\ offset + size <= Len(r)
    BY <1>3, <1>4, <1>7, <1>14, <1>15
  <2> QED BY <1>5, <1>6, <1>15, <1>16, <2>1, NewTable DEF e, table
<1>18. ASSUME NEW i \in 1..kept, Plain(i) PROVE r[i] = b[i]
  <2>1. i \in 1..Len(program0) /\ i \in 1..Len(cut)
    BY <1>3, <1>4, <1>6, <1>7, <1>11, <1>14
  <2> QED BY <1>11, <1>13, <1>15, <1>18, <2>1
<1>19. ASSUME NEW i \in (kept + 1)..offset PROVE r[i] = 0
  <2>1. i \in 1..Len(program0) /\ i \in 1..Len(cut) /\ Plain(i)
    BY <1>3, <1>4, <1>6, <1>7, <1>11, <1>14 DEF Plain
  <2> QED BY <1>11, <1>13, <1>15, <2>1
<1>20. HeadersEnd <= Len(r)
  BY <1>14, <1>15
<1> QED BY <1>1, <1>7, <1>15, <1>17, <1>18, <1>19, <1>20 DEF r, kept, offset, pad

\* The section table of the headers p, the lowest offset stripping cuts bytes b
\* with those headers to, and the program's own.
TableOf(p) == {p.table + i * EntrySize : i \in 0..(p.count - 1)}

FloorIn(p, b) ==
  Max({p.headers} \cup
      {SectionEnd(b, at) :
         at \in {e \in TableOf(p) : e + EntrySize <= Len(b) /\ RawSize(b, e) # 0}})

FloorOf(p) == FloorIn(p, p.bytes)

TableIn(p) ==
  \A at \in TableOf(p) :
    /\ HeadersEnd <= at
    /\ at + EntrySize <= p.headers
    /\ at + EntrySize <= ProgramEnd(p.bytes)

\* A finite set of naturals that is not empty has a greatest element, Max's.
LEMMA MaxOfFinite ==
  ASSUME NEW S \in SUBSET Nat, IsFiniteSet(S), S # {}
  PROVE  Max(S) \in S /\ \A x \in S : x <= Max(S)
<1>1. Cardinality(S) \in Nat /\ Cardinality(S) # 0
  BY FS_CardinalityType, FS_EmptySet
<1>2. PICK u \in [1..Cardinality(S) -> S] : \A i, j \in DOMAIN u : i < j => u[i] < u[j]
  BY Ascending, Zenon
<1>3. \A x \in S : \E i \in 1..Cardinality(S) : u[i] = x
  BY <1>2, AscendingIsOnto, Zenon
<1> DEFINE m == u[Cardinality(S)]
<1>4. Cardinality(S) \in 1..Cardinality(S) /\ m \in S
  BY <1>1
<1>5. ASSUME NEW x \in S PROVE x <= m
  <2>1. PICK i \in 1..Cardinality(S) : u[i] = x
    BY <1>3
  <2>2. CASE i = Cardinality(S)
    BY <2>1, <2>2
  <2>3. CASE i < Cardinality(S)
    <3>1. u[i] < u[Cardinality(S)]
      BY <1>2, <1>4, <2>3
    <3>2. u[i] \in Nat /\ m \in Nat
      <4>1. u[i] \in S
        BY <1>2
      <4> HIDE DEF m
      <4> QED BY <1>4, <4>1, Zenon
    <3> HIDE DEF m
    <3> QED BY <2>1, <3>1, <3>2 DEF m
  <2> QED BY <1>1, <2>2, <2>3
<1>6. \E x \in S : \A y \in S : x >= y
  <2>1. \A y \in S : m >= y
    BY <1>4, <1>5
  <2> HIDE DEF m
  <2> QED BY <1>4, <2>1
<1> DEFINE g == CHOOSE x \in S : \A y \in S : x >= y
<1>7. g \in S /\ \A y \in S : g >= y
  BY <1>6, Zenon
<1>8. Max(S) = g
  BY DEF Max
<1> HIDE DEF g
<1> QED BY <1>7, <1>8

\* Section headers are at natural offsets, finitely many.
LEMMA TableFinite ==
  ASSUME NEW p \in Programs
  PROVE  TableOf(p) \subseteq Nat /\ IsFiniteSet(TableOf(p))
<1>1. p.table \in Nat /\ p.count \in Nat /\ EntrySize \in Nat
  BY ProgramsAssumption, SectionAssumption
<1> DEFINE I == 0..(p.count - 1)
           T == {p.table + i * EntrySize : i \in I}
           f == [i \in I |-> p.table + i * EntrySize]
<1>2. IsFiniteSet(I)
  <2>1. 0 \in Int /\ p.count - 1 \in Int
    BY <1>1
  <2> QED BY <2>1, FS_Interval
<1>3. f \in Surjection(I, T)
  BY DEF Surjection
<1>4. IsFiniteSet(T)
  <2> HIDE DEF f, I, T
  <2> QED BY <1>2, <1>3, FS_Surjection
<1>5. T \subseteq Nat
  BY <1>1
<1> QED BY <1>4, <1>5 DEF TableOf

\* SizeOfHeaders and the ends of the sections have a greatest.
LEMMA FloorNat ==
  ASSUME NEW p \in Programs, NEW b \in Seq(Byte)
  PROVE  FloorIn(p, b) \in Nat /\ p.headers \in Nat /\ p.headers <= FloorIn(p, b)
<1> DEFINE T == {e \in TableOf(p) : e + EntrySize <= Len(b) /\ RawSize(b, e) # 0}
           E == {SectionEnd(b, at) : at \in T}
           S == {p.headers} \cup E
<1>1. p.headers \in Nat /\ TableOf(p) \subseteq Nat /\ IsFiniteSet(TableOf(p))
  BY ProgramsAssumption, TableFinite
<1>2. IsFiniteSet(T)
  BY <1>1, FS_Subset
<1>3. IsFiniteSet(E)
  <2> DEFINE f == [at \in T |-> SectionEnd(b, at)]
  <2>1. f \in Surjection(T, E)
    BY DEF Surjection
  <2> HIDE DEF f, T, E
  <2> QED BY <1>2, <2>1, FS_Surjection
<1>4. ASSUME NEW at \in T PROVE SectionEnd(b, at) \in Nat
  <2>1. /\ at + RawSizeAt \in Nat /\ (at + RawSizeAt) + 4 <= Len(b)
        /\ at + RawPointerAt \in Nat /\ (at + RawPointerAt) + 4 <= Len(b)
    BY <1>1, SectionAssumption
  <2>2. Le4(b, at + RawSizeAt) \in Nat /\ Le4(b, at + RawPointerAt) \in Nat
    BY <2>1, LeNat
  <2> QED BY <2>2 DEF SectionEnd, RawSize
<1>5. S \subseteq Nat /\ S # {} /\ p.headers \in S
  <2> HIDE DEF T
  <2> QED BY <1>1, <1>4
<1>6. IsFiniteSet(S)
  <2>1. IsFiniteSet(E \cup {p.headers})
    <3> HIDE DEF E
    <3> QED BY <1>3, FS_AddElement, Zenon
  <2>2. S = E \cup {p.headers}
    <3> HIDE DEF E
    <3> QED OBVIOUS
  <2> HIDE DEF S
  <2> QED BY <2>1, <2>2
<1>7. FloorIn(p, b) = Max(S)
  BY DEF FloorIn
<1> HIDE DEF S, FloorIn
<1>8. Max(S) \in S /\ \A x \in S : x <= Max(S)
  BY <1>5, <1>6, MaxOfFinite
<1> QED BY <1>1, <1>5, <1>7, <1>8, Zenon

\* The loop stops at the first byte that is not zero or not above the floor, or
\* after seven.
LEMMA PaddingRemovedRange ==
  ASSUME NEW b, NEW end \in Nat, NEW floor \in Nat, StripFloor(b) = floor
  PROVE  LET k == PaddingRemoved(b, end)
         IN  /\ k \in Nat /\ k < 8 /\ k <= end
             /\ \A i \in 1..k : end - i >= floor /\ b[(end - i) + 1] = 0
             /\ k + 1 < 8 /\ k + 1 <= end /\ end - (k + 1) >= floor => b[(end - (k + 1)) + 1] # 0
<1> DEFINE removable(n) == \A i \in 1..n : end - i >= floor /\ b[(end - i) + 1] = 0
           S == {n \in 0..7 : n <= end /\ removable(n)}
           k == PaddingRemoved(b, end)
<1>1. k = Max(S)
  BY DEF PaddingRemoved, ByteAt
<1> HIDE DEF k
<1>2. \A n : n \in S <=> n \in Nat /\ n < 8 /\ n <= end /\ removable(n)
  <2> HIDE DEF removable
  <2>1. \A n : n \in 0..7 <=> n \in Nat /\ n < 8
    OBVIOUS
  <2> QED BY <2>1
<1> HIDE DEF S
<1>3. 0 \in S
  <2>1. removable(0)
    OBVIOUS
  <2> HIDE DEF removable
  <2> QED BY <1>2, <2>1
<1>4. S \subseteq Nat
  BY <1>2
<1>5. IsFiniteSet(S)
  <2>1. PICK m \in Nat : m = 7
    OBVIOUS
  <2>2. \A n \in S : n <= m
    BY <1>2, <2>1
  <2> QED BY <1>4, <2>2, FS_BoundedSetOfNaturals, Zenon
<1>6. k \in S /\ \A n \in S : n <= k
  BY <1>1, <1>3, <1>4, <1>5, MaxOfFinite
<1>7. k \in Nat /\ k < 8 /\ k <= end /\ removable(k)
  BY <1>2, <1>6
<1>8. ASSUME k + 1 < 8, k + 1 <= end, end - (k + 1) >= floor, b[(end - (k + 1)) + 1] = 0
      PROVE  FALSE
  <2>1. removable(k + 1)
    <3> SUFFICES ASSUME NEW i \in 1..(k + 1) PROVE end - i >= floor /\ b[(end - i) + 1] = 0
      OBVIOUS
    <3>1. CASE i = k + 1
      BY <1>8, <3>1
    <3>2. CASE i \in 1..k
      BY <1>7, <3>2
    <3> QED BY <1>7, <3>1, <3>2
  <2> HIDE DEF removable
  <2>2. k + 1 \in S
    BY <1>2, <1>7, <1>8, <2>1
  <2> QED BY <1>6, <1>7, <2>2
<1> QED BY <1>7, <1>8 DEF k

\* What is in a file after StripSignature: the program up to the cut, and no
\* certificate table.
LEMMA StripBytes ==
  ASSUME NEW b \in Seq(Byte), NEW floor \in Nat, StripFloor(b) = floor, Strip(b) # Rejected
  PROVE  LET r == Strip(b)
             end == ProgramEnd(b)
             k == PaddingRemoved(b, end)
         IN  /\ Readable(b)
             /\ r \in Seq(Byte) /\ HeadersEnd <= Len(r)
             /\ ValidateCertificateTable(r).ok /\ ~ValidateCertificateTable(r).present
             /\ ProgramEnd(r) = end - k
             /\ \A i \in 1..(end - k) : Plain(i) => r[i] = b[i]
             /\ Slice(r, CheckSumAt, CheckSumAt + 4) = Num4(ReferenceChecksum(r))
<1> DEFINE r == Strip(b)
           end == ProgramEnd(b)
           k == PaddingRemoved(b, end)
           to == end - k
           cut == Slice(b, 0, to)
           e == Zeros(8)
<1>1. Readable(b) /\ ~(Len(cut) < HeadersEnd) /\ r = RecalcChecksum(Put(cut, SecurityAt, e))
  BY DEF Strip
<1> HIDE DEF r
<1>2. HeadersEnd <= Len(b) /\ ValidateCertificateTable(b).ok
  BY <1>1 DEF Readable, ParsePeLayout
<1>3. end \in Nat /\ end <= Len(b) /\ HeadersEnd \in Nat /\ SecurityAt \in Nat
  BY <1>2, ProgramEndRange, LayoutAssumption DEF HeadersEnd
<1> HIDE DEF end
<1>4. k \in Nat /\ k <= end
  BY <1>3, PaddingRemovedRange
<1> HIDE DEF k
<1>5. to \in Nat /\ to <= Len(b)
  BY <1>3, <1>4
<1> HIDE DEF to
<1>6. cut \in Seq(Byte) /\ Len(cut) = to /\ \A i \in 1..to : cut[i] = b[i]
  BY <1>5, PrefixBytes, Zenon
<1> HIDE DEF cut
<1>7. HeadersEnd <= Len(cut)
  BY <1>1, <1>3, <1>5, <1>6
<1>8. e \in Seq(Byte) /\ Len(e) = 8
  <2>1. PICK n \in Nat : n = 8
    OBVIOUS
  <2>2. Zeros(n) \in Seq(Byte) /\ Len(Zeros(n)) = n
    BY ZeroLength
  <2> QED BY <2>1, <2>2
<1> HIDE DEF e
<1>9. /\ r \in Seq(Byte) /\ Len(r) = Len(cut)
      /\ \A i \in 1..Len(cut) : Plain(i) => r[i] = cut[i]
      /\ Holds(r, SecurityAt, e)
      /\ Slice(r, CheckSumAt, CheckSumAt + 4) = Num4(ReferenceChecksum(r))
  BY <1>1, <1>6, <1>7, <1>8, FinishBytes
<1>10. HeadersEnd <= Len(r)
  BY <1>7, <1>9
<1>11. ValidateCertificateTable(r).ok /\ ~ValidateCertificateTable(r).present
  BY <1>9, <1>10, NoTable DEF e
<1>12. ProgramEnd(r) = to
  BY <1>6, <1>9, <1>11 DEF ProgramEnd
<1>13. \A i \in 1..to : Plain(i) => r[i] = b[i]
  BY <1>6, <1>9
<1> QED BY <1>1, <1>9, <1>10, <1>11, <1>12, <1>13 DEF r, to, end, k

----------------------------------------------------------------------------
(* Versions of a program. *)

\* The headers p describe b, and its table is sound.
ReadableAs(p, b) == p.pe /\ HeadersEnd <= Len(b) /\ ValidateCertificateTable(b).ok

SignedAs(b) == ValidateCertificateTable(b).present

AlignedAs(p) ==
  ReadableAs(p, p.bytes) /\ (SignedAs(p.bytes) => ProgramEnd(p.bytes) % 8 = 0)

\* The eight-byte boundary at or after the end of the program.
Boundary(b) == ProgramEnd(b) + Padding(ProgramEnd(b))

\* Byte i of the program and the zeros behind it.
Extended(b, i) == IF i <= ProgramEnd(b) THEN b[i] ELSE 0

\* What embeddings and strippings make of a program whose table, if it had one,
\* was aligned.
KeepsProgram(p, b) ==
  LET o == p.bytes
  IN  /\ Boundary(b) = Boundary(o)
      /\ \A i \in (HeadersEnd + 1)..Boundary(o) : Extended(b, i) = Extended(o, i)
      /\ SignedAs(b) => ProgramEnd(b) % 8 = 0
      /\ TableIn(p) =>
           /\ ProgramEnd(b) >= ProgramEnd(o) \/ ProgramEnd(b) >= FloorOf(p)
           /\ ~SignedAs(b) => ProgramEnd(b) <= ProgramEnd(o) \/ ProgramEnd(b) <= FloorOf(p)

\* What they make of any program they can read.
VersionOf(p, b) ==
  /\ b \in Seq(Byte)
  /\ ReadableAs(p, b)
  /\ \A i \in 1..HeadersEnd : Plain(i) => b[i] = p.bytes[i]
  /\ AlignedAs(p) => KeepsProgram(p, b)

\* The boundary is at most seven bytes on, none from a multiple of eight, and
\* the same after a cut of up to seven bytes back from one.
LEMMA BoundaryOf ==
  ASSUME NEW n \in Nat
  PROVE  n + Padding(n) \in Nat /\ n <= n + Padding(n) /\ n + Padding(n) < n + 8
BY DEF Padding

LEMMA NoPadding ==
  ASSUME NEW n \in Nat, n % 8 = 0
  PROVE  Padding(n) = 0
BY DEF Padding

LEMMA CutBoundary ==
  ASSUME NEW n \in Nat, n % 8 = 0, NEW k \in Nat, k < 8, k <= n
  PROVE  (n - k) + Padding(n - k) = n
BY DEF Padding

LEMMA ProgramBytes ==
  ASSUME NEW p \in Programs
  PROVE  p.bytes \in Seq(Byte)
BY ProgramsAssumption, Zenon DEF Byte

LEMMA SignatureBytes ==
  ASSUME NEW s \in Signers
  PROVE  Sig[s] \in Seq(Byte)
<1>1. Sig \in [Signers -> Seq(Byte)]
  BY SigAssumption, Zenon DEF Byte
<1> QED BY <1>1

\* The program and its zeros, byte by byte.
LEMMA PaddedBytes ==
  ASSUME NEW b \in Seq(Byte), HeadersEnd <= Len(b), ValidateCertificateTable(b).ok
  PROVE  /\ Padded(b) \in Seq(Byte) /\ Len(Padded(b)) = Boundary(b) - HeadersEnd
         /\ \A i \in 1..(Boundary(b) - HeadersEnd) : Padded(b)[i] = Extended(b, HeadersEnd + i)
<1> DEFINE end == ProgramEnd(b)
           pad == Padding(end)
           c == Slice(b, HeadersEnd, end)
           z == Zeros(pad)
           g == c \o z
<1>1. /\ end \in Nat /\ HeadersEnd \in Nat /\ HeadersEnd <= end /\ end <= Len(b)
  BY ProgramEndRange, LayoutAssumption DEF HeadersEnd
<1>2. g = Padded(b) /\ Boundary(b) = end + pad
  BY DEF Padded, Boundary
<1>3. \A i : Extended(b, i) = IF i <= end THEN b[i] ELSE 0
  BY DEF Extended
<1> HIDE DEF end
<1>4. pad \in Nat
  BY <1>1, PaddingAligns
<1> HIDE DEF pad
<1>5. /\ c \in Seq(Byte) /\ Len(c) = end - HeadersEnd
      /\ \A i \in 1..(end - HeadersEnd) : c[i] = b[HeadersEnd + i]
  BY <1>1, SliceBytes, Zenon
<1>6. z \in Seq(Byte) /\ Len(z) = pad /\ \A i \in 1..pad : z[i] = 0
  BY <1>4, ZeroBytes, Zenon
<1> HIDE DEF c, z
<1>7. /\ g \in Seq(Byte) /\ Len(g) = Len(c) + Len(z)
      /\ \A i \in 1..Len(c) : g[i] = c[i]
      /\ \A i \in 1..Len(z) : g[Len(c) + i] = z[i]
  BY <1>5, <1>6, ConcatBytes, Zenon
<1> HIDE DEF g
<1>8. Len(g) = Boundary(b) - HeadersEnd
  BY <1>1, <1>2, <1>4, <1>5, <1>6, <1>7
<1>9. ASSUME NEW i \in 1..(Boundary(b) - HeadersEnd)
      PROVE  g[i] = Extended(b, HeadersEnd + i)
  <2>1. CASE i <= end - HeadersEnd
    <3>1. i \in 1..Len(c) /\ i \in 1..(end - HeadersEnd) /\ HeadersEnd + i <= end
      BY <1>1, <1>5, <2>1
    <3>2. g[i] = c[i] /\ c[i] = b[HeadersEnd + i]
      BY <1>5, <1>7, <3>1
    <3> QED BY <1>3, <3>1, <3>2
  <2>2. CASE ~(i <= end - HeadersEnd)
    <3>1. PICK j \in 1..pad : i = Len(c) + j
      <4>1. i - Len(c) \in 1..pad /\ i = Len(c) + (i - Len(c))
        BY <1>1, <1>2, <1>4, <1>5, <2>2
      <4> QED BY <4>1
    <3>2. j \in 1..Len(z) /\ ~(HeadersEnd + i <= end)
      BY <1>1, <1>4, <1>6, <2>2
    <3>3. g[i] = 0
      BY <1>6, <1>7, <3>1, <3>2
    <3> QED BY <1>3, <3>2, <3>3
  <2> QED BY <2>1, <2>2
<1> QED BY <1>2, <1>7, <1>8, <1>9

\* What is hashed: the headers without the two fields, then the program and its
\* zeros, provided that a table is aligned.
LEMMA DigestParts ==
  ASSUME NEW b \in Seq(Byte), HeadersEnd <= Len(b), ValidateCertificateTable(b).ok,
         SignedAs(b) => ProgramEnd(b) % 8 = 0
  PROVE  ComputeAuthenticodeDigest(b) =
           (Slice(b, 0, CheckSumAt) \o Slice(b, CheckSumAt + 4, SecurityAt)) \o Padded(b)
<1> DEFINE end == ProgramEnd(b)
           h == Slice(b, 0, CheckSumAt) \o Slice(b, CheckSumAt + 4, SecurityAt)
           c == Slice(b, HeadersEnd, end)
           z == Zeros(Padding(end))
           y == IF ValidateCertificateTable(b).present THEN <<>> ELSE Zeros(Padding(Len(b)))
<1>1. /\ end \in Nat /\ HeadersEnd \in Nat /\ HeadersEnd <= end /\ end <= Len(b)
      /\ CheckSumAt \in Nat /\ SecurityAt \in Nat /\ CheckSumAt + 4 <= SecurityAt
      /\ HeadersEnd = SecurityAt + 8 /\ Len(b) \in Nat
      /\ ~ValidateCertificateTable(b).present => end = Len(b)
  BY ProgramEndRange, LayoutAssumption DEF HeadersEnd
<1>2. z = y
  <2>1. CASE ValidateCertificateTable(b).present
    <3>1. Padding(end) = 0
      BY <1>1, <2>1, NoPadding DEF SignedAs
    <3>2. Zeros(0) = <<>>
      BY DEF Zeros
    <3> QED BY <2>1, <3>1, <3>2
  <2>2. CASE ~ValidateCertificateTable(b).present
    BY <1>1, <2>2
  <2> QED BY <2>1, <2>2
<1>3. ComputeAuthenticodeDigest(b) = (h \o c) \o y
  BY DEF ComputeAuthenticodeDigest
<1>4. Padded(b) = c \o z
  BY DEF Padded
<1>5. c \in Seq(Byte) /\ z \in Seq(Byte)
  <2>1. Padding(end) \in Nat
    BY <1>1, PaddingAligns
  <2> HIDE DEF end
  <2> QED BY <1>1, <2>1, SliceBytes, ZeroLength, Zenon
<1>6. h \in Seq(Byte)
  <2>1. CheckSumAt <= Len(b) /\ SecurityAt <= Len(b) /\ CheckSumAt + 4 \in Nat
    BY <1>1
  <2>2. Slice(b, 0, CheckSumAt) \in Seq(Byte)
    BY <1>1, <2>1, PrefixBytes, Zenon
  <2>3. Slice(b, CheckSumAt + 4, SecurityAt) \in Seq(Byte)
    BY <1>1, <2>1, SliceBytes, Zenon
  <2> QED BY <2>2, <2>3, ConcatLength, Zenon
<1> HIDE DEF h, c, z, y
<1>7. (h \o c) \o z = h \o (c \o z)
  BY <1>5, <1>6, ConcatAssociative
<1> QED BY <1>2, <1>3, <1>4, <1>7, Zenon DEF h

\* A version of a program has its digest and, up to padding, its bytes.
LEMMA SameDigest ==
  ASSUME NEW p \in Programs, NEW b, VersionOf(p, b), AlignedAs(p)
  PROVE  /\ ComputeAuthenticodeDigest(b) = ComputeAuthenticodeDigest(p.bytes)
         /\ Padded(b) = Padded(p.bytes)
<1> DEFINE o == p.bytes
<1>1. /\ b \in Seq(Byte) /\ HeadersEnd <= Len(b) /\ ValidateCertificateTable(b).ok
      /\ KeepsProgram(p, b) /\ \A i \in 1..HeadersEnd : Plain(i) => b[i] = o[i]
  BY DEF VersionOf, ReadableAs
<1>2. /\ o \in Seq(Byte) /\ HeadersEnd <= Len(o) /\ ValidateCertificateTable(o).ok
      /\ SignedAs(o) => ProgramEnd(o) % 8 = 0
  BY ProgramBytes DEF AlignedAs, ReadableAs
<1>3. /\ Boundary(b) = Boundary(o)
      /\ \A i \in (HeadersEnd + 1)..Boundary(o) : Extended(b, i) = Extended(o, i)
      /\ SignedAs(b) => ProgramEnd(b) % 8 = 0
  BY <1>1 DEF KeepsProgram
<1> HIDE DEF o
<1>4. /\ CheckSumAt \in Nat /\ SecurityAt \in Nat /\ CheckSumAt + 4 <= SecurityAt
      /\ HeadersEnd = SecurityAt + 8 /\ HeadersEnd \in Nat
  BY LayoutAssumption DEF HeadersEnd
<1>5. Padded(b) = Padded(o)
  <2> DEFINE x == Padded(b)
             y == Padded(o)
             n == Boundary(o) - HeadersEnd
  <2>1. x \in Seq(Byte) /\ Len(x) = n /\ \A i \in 1..n : x[i] = Extended(b, HeadersEnd + i)
    BY <1>1, <1>3, PaddedBytes
  <2>2. y \in Seq(Byte) /\ Len(y) = n /\ \A i \in 1..n : y[i] = Extended(o, HeadersEnd + i)
    BY <1>2, PaddedBytes
  <2>3. Boundary(o) \in Nat
    <3>1. ProgramEnd(o) \in Nat
      BY <1>2, ProgramEndRange
    <3> QED BY <3>1, BoundaryOf DEF Boundary
  <2>4. ASSUME NEW i \in 1..n PROVE x[i] = y[i]
    <3>1. HeadersEnd + i \in (HeadersEnd + 1)..Boundary(o)
      BY <1>4, <2>3
    <3> QED BY <1>3, <2>1, <2>2, <3>1
  <2> HIDE DEF x, y, n
  <2>5. Len(x) = Len(y) /\ \A i \in 1..Len(x) : x[i] = y[i]
    BY <2>1, <2>2, <2>4
  <2> QED BY <2>1, <2>2, <2>5, SameBytes DEF x, y
<1>6. Slice(b, 0, CheckSumAt) = Slice(o, 0, CheckSumAt)
  <2> DEFINE x == Slice(b, 0, CheckSumAt)
             y == Slice(o, 0, CheckSumAt)
  <2>1. CheckSumAt <= Len(b) /\ CheckSumAt <= Len(o)
    BY <1>1, <1>2, <1>4
  <2>2. x \in Seq(Byte) /\ Len(x) = CheckSumAt /\ \A i \in 1..CheckSumAt : x[i] = b[i]
    BY <1>1, <1>4, <2>1, PrefixBytes, Zenon
  <2>3. y \in Seq(Byte) /\ Len(y) = CheckSumAt /\ \A i \in 1..CheckSumAt : y[i] = o[i]
    BY <1>2, <1>4, <2>1, PrefixBytes, Zenon
  <2>4. \A i \in 1..CheckSumAt : i \in 1..HeadersEnd /\ Plain(i)
    BY <1>4 DEF Plain
  <2> HIDE DEF x, y
  <2>5. \A i \in 1..Len(x) : x[i] = y[i]
    BY <1>1, <2>2, <2>3, <2>4
  <2> QED BY <2>2, <2>3, <2>5, SameBytes DEF x, y
<1>7. Slice(b, CheckSumAt + 4, SecurityAt) = Slice(o, CheckSumAt + 4, SecurityAt)
  <2>0. PICK from \in Nat : from = CheckSumAt + 4 /\ from <= SecurityAt
    BY <1>4
  <2> DEFINE x == Slice(b, from, SecurityAt)
             y == Slice(o, from, SecurityAt)
  <2>1. /\ SecurityAt \in Nat /\ from <= SecurityAt
        /\ b \in Seq(Byte) /\ SecurityAt <= Len(b)
        /\ o \in Seq(Byte) /\ SecurityAt <= Len(o)
    BY <1>1, <1>2, <1>4, <2>0
  <2>2. /\ x \in Seq(Byte) /\ Len(x) = SecurityAt - from
        /\ \A i \in 1..(SecurityAt - from) : x[i] = b[from + i]
    BY <2>1, SliceBytes, Zenon
  <2>3. /\ y \in Seq(Byte) /\ Len(y) = SecurityAt - from
        /\ \A i \in 1..(SecurityAt - from) : y[i] = o[from + i]
    BY <2>1, SliceBytes, Zenon
  <2>4. \A i \in 1..(SecurityAt - from) : from + i \in 1..HeadersEnd /\ Plain(from + i)
    BY <1>4, <2>0 DEF Plain
  <2> HIDE DEF x, y
  <2>5. ASSUME NEW i \in 1..(SecurityAt - from) PROVE x[i] = y[i]
    BY <1>1, <2>2, <2>3, <2>4
  <2>6. Len(x) = Len(y) /\ \A i \in 1..Len(x) : x[i] = y[i]
    BY <2>2, <2>3, <2>5
  <2>7. x = y
    BY <2>2, <2>3, <2>6, SameBytes
  <2> QED BY <2>0, <2>7 DEF x, y
<1>8. ComputeAuthenticodeDigest(b) =
        (Slice(b, 0, CheckSumAt) \o Slice(b, CheckSumAt + 4, SecurityAt)) \o Padded(b)
  BY <1>1, <1>3, DigestParts, Zenon
<1>9. ComputeAuthenticodeDigest(o) =
        (Slice(o, 0, CheckSumAt) \o Slice(o, CheckSumAt + 4, SecurityAt)) \o Padded(o)
  BY <1>2, DigestParts, Zenon
<1> QED BY <1>5, <1>6, <1>7, <1>8, <1>9, Zenon DEF o

\* Embedding makes a version out of a version.
LEMMA EmbedKeeps ==
  ASSUME NEW p \in Programs, NEW b, VersionOf(p, b), NEW pkcs7 \in Seq(Byte),
         Embed(b, pkcs7) # Rejected
  PROVE  VersionOf(p, Embed(b, pkcs7))
<1> DEFINE r == Embed(b, pkcs7)
           o == p.bytes
           kept == ProgramEnd(b)
           offset == kept + Padding(kept)
<1>1. /\ b \in Seq(Byte) /\ ReadableAs(p, b)
      /\ \A i \in 1..HeadersEnd : Plain(i) => b[i] = o[i]
      /\ AlignedAs(p) => KeepsProgram(p, b)
  BY DEF VersionOf
<1>2. /\ p.pe /\ HeadersEnd <= Len(b) /\ ValidateCertificateTable(b).ok
  BY <1>1 DEF ReadableAs
<1>3. /\ r \in Seq(Byte) /\ HeadersEnd <= Len(r)
      /\ ValidateCertificateTable(r).ok /\ SignedAs(r)
      /\ ProgramEnd(r) = offset
      /\ \A i \in 1..kept : Plain(i) => r[i] = b[i]
      /\ \A i \in (kept + 1)..offset : r[i] = 0
  BY <1>1, EmbedBytes DEF SignedAs
<1> HIDE DEF r
<1>4. kept \in Nat /\ HeadersEnd <= kept /\ HeadersEnd \in Nat /\ HeadersEnd = SecurityAt + 8
      /\ CheckSumAt \in Nat /\ SecurityAt \in Nat /\ CheckSumAt + 4 <= SecurityAt
  BY <1>1, <1>2, ProgramEndRange, LayoutAssumption DEF HeadersEnd
<1>5. offset = Boundary(b)
  BY DEF Boundary
<1>6. /\ offset \in Nat /\ kept <= offset /\ offset % 8 = 0 /\ offset + Padding(offset) = offset
  <2>1. offset \in Nat /\ kept <= offset /\ offset % 8 = 0
    <3> HIDE DEF kept
    <3>1. offset \in Nat /\ kept <= offset
      BY <1>4, BoundaryOf, Zenon
    <3>2. offset % 8 = 0
      BY <1>4, PaddingAligns, Zenon
    <3> QED BY <3>1, <3>2
  <2> HIDE DEF offset
  <2>2. Padding(offset) = 0
    BY <2>1, NoPadding
  <2> QED BY <2>1, <2>2
<1>7. \A i : Extended(b, i) = IF i <= kept THEN b[i] ELSE 0
  BY DEF Extended
<1>8. \A i : Extended(r, i) = IF i <= offset THEN r[i] ELSE 0
  BY <1>3 DEF Extended
<1>9. Boundary(r) = offset
  BY <1>3, <1>6 DEF Boundary
<1>10. ReadableAs(p, r)
  BY <1>2, <1>3 DEF ReadableAs
<1> HIDE DEF kept, offset
<1>11. \A i \in 1..HeadersEnd : Plain(i) => r[i] = o[i]
  <2>1. \A i \in 1..HeadersEnd : i \in 1..kept
    BY <1>4
  <2> QED BY <1>1, <1>3, <2>1
<1>12. ASSUME AlignedAs(p) PROVE KeepsProgram(p, r)
  <2>1. /\ offset = Boundary(o)
        /\ \A i \in (HeadersEnd + 1)..Boundary(o) : Extended(b, i) = Extended(o, i)
        /\ TableIn(p) => kept >= ProgramEnd(o) \/ kept >= FloorOf(p)
    BY <1>1, <1>5, <1>12 DEF KeepsProgram, kept
  <2>2. ASSUME NEW i \in (HeadersEnd + 1)..offset PROVE Extended(r, i) = Extended(b, i)
    <3>1. i <= offset /\ Plain(i)
      BY <1>4, <1>6 DEF Plain
    <3>2. CASE i <= kept
      <4>1. i \in 1..kept
        BY <1>4, <1>6, <3>2
      <4> QED BY <1>3, <1>7, <1>8, <3>1, <3>2, <4>1
    <3>3. CASE ~(i <= kept)
      <4>1. i \in (kept + 1)..offset
        BY <1>4, <1>6, <3>3
      <4> QED BY <1>3, <1>7, <1>8, <3>1, <3>3, <4>1
    <3> QED BY <3>2, <3>3
  <2>3. ProgramEnd(o) \in Nat /\ FloorOf(p) \in Nat
    <3>1. o \in Seq(Byte) /\ HeadersEnd <= Len(o) /\ ValidateCertificateTable(o).ok
      BY <1>12, ProgramBytes DEF AlignedAs, ReadableAs
    <3>2. FloorOf(p) \in Nat
      BY <3>1, FloorNat DEF FloorOf
    <3> HIDE DEF o
    <3> QED BY <3>1, <3>2, ProgramEndRange
  <2>4. TableIn(p) => ProgramEnd(r) >= ProgramEnd(o) \/ ProgramEnd(r) >= FloorOf(p)
    BY <1>3, <1>4, <1>6, <2>1, <2>3
  <2>5. \A i \in (HeadersEnd + 1)..Boundary(o) : Extended(r, i) = Extended(o, i)
    BY <2>1, <2>2
  <2>6. ProgramEnd(r) % 8 = 0 /\ Boundary(r) = Boundary(o)
    BY <1>3, <1>6, <1>9, <2>1
  <2> QED BY <1>3, <2>4, <2>5, <2>6 DEF KeepsProgram
<1>13. VersionOf(p, r)
  BY <1>3, <1>10, <1>11, <1>12 DEF VersionOf
<1> QED BY <1>13 DEF r

\* A section table in the headers reads the same in every version.
LEMMA SameFloor ==
  ASSUME NEW p \in Programs, NEW b, VersionOf(p, b), AlignedAs(p), TableIn(p)
  PROVE  FloorIn(p, b) = FloorOf(p)
<1> DEFINE o == p.bytes
<1>1. /\ b \in Seq(Byte) /\ HeadersEnd <= Len(b) /\ ValidateCertificateTable(b).ok
      /\ \A i \in (HeadersEnd + 1)..Boundary(o) : Extended(b, i) = Extended(o, i)
      /\ ProgramEnd(b) >= ProgramEnd(o) \/ ProgramEnd(b) >= FloorOf(p)
  BY DEF VersionOf, ReadableAs, KeepsProgram
<1>2. o \in Seq(Byte) /\ HeadersEnd <= Len(o) /\ ValidateCertificateTable(o).ok
  BY ProgramBytes DEF AlignedAs, ReadableAs
<1> HIDE DEF o
<1>3. /\ ProgramEnd(b) \in Nat /\ ProgramEnd(b) <= Len(b)
      /\ ProgramEnd(o) \in Nat /\ ProgramEnd(o) <= Len(o) /\ HeadersEnd \in Nat
  BY <1>1, <1>2, ProgramEndRange, LayoutAssumption DEF HeadersEnd
<1>4. /\ FloorOf(p) \in Nat /\ p.headers \in Nat /\ p.headers <= FloorOf(p)
      /\ ProgramEnd(o) <= Boundary(o) /\ Boundary(o) \in Nat
  <2>1. FloorOf(p) \in Nat /\ p.headers \in Nat /\ p.headers <= FloorOf(p)
    BY <1>2, FloorNat DEF FloorOf, o
  <2>2. ProgramEnd(o) <= Boundary(o) /\ Boundary(o) \in Nat
    BY <1>3, BoundaryOf DEF Boundary
  <2> QED BY <2>1, <2>2
<1>5. ASSUME NEW at \in TableOf(p)
      PROVE  /\ at \in Nat /\ HeadersEnd <= at
             /\ at + EntrySize <= ProgramEnd(b) /\ at + EntrySize <= ProgramEnd(o)
  <2>1. /\ at \in Nat /\ HeadersEnd <= at /\ at + EntrySize <= p.headers
        /\ at + EntrySize <= ProgramEnd(o)
    BY TableFinite DEF TableIn, o
  <2> QED BY <1>1, <1>3, <1>4, <2>1, SectionAssumption
<1>6. ASSUME NEW at \in TableOf(p), NEW k \in Nat, k < EntrySize
      PROVE  ByteAt(b, at + k) = ByteAt(o, at + k)
  <2>1. /\ at + k + 1 \in (HeadersEnd + 1)..Boundary(o)
        /\ at + k + 1 <= ProgramEnd(b) /\ at + k + 1 <= ProgramEnd(o)
    BY <1>3, <1>4, <1>5, <1>6, SectionAssumption
  <2>2. Extended(b, at + k + 1) = Extended(o, at + k + 1)
    BY <1>1, <2>1
  <2> QED BY <2>1, <2>2 DEF Extended, ByteAt
<1>7. ASSUME NEW at \in TableOf(p), NEW k \in Nat, k + 4 <= EntrySize
      PROVE  Le4(b, at + k) = Le4(o, at + k)
  <2>1. /\ at \in Nat /\ EntrySize \in Nat
        /\ (at + k) + 1 = at + (k + 1) /\ (at + k) + 2 = at + (k + 2)
        /\ (at + (k + 2)) + 1 = at + (k + 3)
    BY <1>5, SectionAssumption
  <2>2. /\ ByteAt(b, at + k) = ByteAt(o, at + k)
        /\ ByteAt(b, at + (k + 1)) = ByteAt(o, at + (k + 1))
        /\ ByteAt(b, at + (k + 2)) = ByteAt(o, at + (k + 2))
        /\ ByteAt(b, at + (k + 3)) = ByteAt(o, at + (k + 3))
    <3>1. /\ k + 1 \in Nat /\ k + 2 \in Nat /\ k + 3 \in Nat
          /\ k < EntrySize /\ k + 1 < EntrySize /\ k + 2 < EntrySize /\ k + 3 < EntrySize
      BY <1>7, <2>1
    <3> QED BY <1>6, <3>1
  <2> QED BY <2>1, <2>2 DEF Le4, Le2
<1>8. ASSUME NEW at \in TableOf(p)
      PROVE  /\ RawSize(b, at) = RawSize(o, at) /\ SectionEnd(b, at) = SectionEnd(o, at)
             /\ at + EntrySize <= Len(b) /\ at + EntrySize <= Len(o)
  <2>1. Le4(b, at + RawSizeAt) = Le4(o, at + RawSizeAt)
    BY <1>7, SectionAssumption
  <2>2. Le4(b, at + RawPointerAt) = Le4(o, at + RawPointerAt)
    BY <1>7, SectionAssumption
  <2>3. at + EntrySize <= Len(b) /\ at + EntrySize <= Len(o)
    BY <1>1, <1>2, <1>3, <1>5, SectionAssumption
  <2> QED BY <2>1, <2>2, <2>3 DEF RawSize, SectionEnd
<1> DEFINE T(z) == {e \in TableOf(p) : e + EntrySize <= Len(z) /\ RawSize(z, e) # 0}
           E(z) == {SectionEnd(z, at) : at \in T(z)}
<1>9. E(b) = E(o)
  <2>1. T(b) = T(o)
    BY <1>8
  <2>2. \A at \in T(o) : SectionEnd(b, at) = SectionEnd(o, at)
    BY <1>8
  <2> HIDE DEF T
  <2> QED BY <2>1, <2>2
<1> QED BY <1>9 DEF FloorIn, FloorOf, o

\* Stripping makes a version out of a signed version.
LEMMA StripKeeps ==
  ASSUME NEW p \in Programs, NEW b, VersionOf(p, b), SignedAs(b),
         StripFloor(b) = FloorIn(p, b), Strip(b) # Rejected
  PROVE  VersionOf(p, Strip(b))
<1> DEFINE r == Strip(b)
           o == p.bytes
           end == ProgramEnd(b)
           k == PaddingRemoved(b, end)
           after == end - k
           floor == FloorIn(p, b)
<1>1. /\ b \in Seq(Byte) /\ ReadableAs(p, b)
      /\ \A i \in 1..HeadersEnd : Plain(i) => b[i] = o[i]
      /\ AlignedAs(p) => KeepsProgram(p, b)
  BY DEF VersionOf
<1>2. p.pe /\ HeadersEnd <= Len(b) /\ ValidateCertificateTable(b).ok
  BY <1>1 DEF ReadableAs
<1>3. floor \in Nat
  BY <1>1, FloorNat
<1> HIDE DEF floor
<1>4. StripFloor(b) = floor
  BY DEF floor
<1>5. /\ r \in Seq(Byte) /\ HeadersEnd <= Len(r)
      /\ ValidateCertificateTable(r).ok /\ ~SignedAs(r)
      /\ ProgramEnd(r) = after
      /\ \A i \in 1..after : Plain(i) => r[i] = b[i]
  BY <1>1, <1>3, <1>4, StripBytes DEF SignedAs
<1> HIDE DEF r
<1>6. /\ end \in Nat /\ HeadersEnd <= end /\ HeadersEnd \in Nat /\ HeadersEnd = SecurityAt + 8
      /\ CheckSumAt \in Nat /\ SecurityAt \in Nat /\ CheckSumAt + 4 <= SecurityAt
  BY <1>1, <1>2, ProgramEndRange, LayoutAssumption DEF HeadersEnd
<1>7. \A i : Extended(b, i) = IF i <= end THEN b[i] ELSE 0
  BY DEF Extended
<1>8. Boundary(b) = end + Padding(end)
  BY DEF Boundary
<1>9. AlignedAs(p) => end % 8 = 0
  BY <1>1 DEF KeepsProgram
<1> HIDE DEF end
<1>10. /\ k \in Nat /\ k < 8 /\ k <= end
       /\ \A i \in 1..k : end - i >= floor /\ b[(end - i) + 1] = 0
       /\ k + 1 < 8 /\ k + 1 <= end /\ end - (k + 1) >= floor => b[(end - (k + 1)) + 1] # 0
  BY <1>3, <1>4, <1>6, PaddingRemovedRange
<1> HIDE DEF k
<1>11. after \in Nat /\ after <= end /\ HeadersEnd <= after
  <2>1. HeadersEnd <= ProgramEnd(r)
    BY <1>5, ProgramEndRange DEF SignedAs
  <2> QED BY <1>5, <1>6, <1>10, <2>1
<1>12. \A i : Extended(r, i) = IF i <= after THEN r[i] ELSE 0
  BY <1>5 DEF Extended
<1>13. ReadableAs(p, r)
  BY <1>2, <1>5 DEF ReadableAs
<1>14. \A i \in 1..HeadersEnd : Plain(i) => r[i] = o[i]
  <2>1. \A i \in 1..HeadersEnd : i \in 1..after
    BY <1>6, <1>11
  <2> HIDE DEF after
  <2> QED BY <1>1, <1>5, <2>1
<1>15. ASSUME AlignedAs(p) PROVE KeepsProgram(p, r)
  <2>1. /\ Boundary(b) = Boundary(o)
        /\ \A i \in (HeadersEnd + 1)..Boundary(o) : Extended(b, i) = Extended(o, i)
        /\ TableIn(p) => (end >= ProgramEnd(o) \/ end >= floor) /\ floor = FloorOf(p)
    BY <1>1, <1>15, SameFloor DEF KeepsProgram, end, floor
  <2>2. Padding(end) = 0 /\ after + Padding(after) = end
    <3>1. end % 8 = 0
      BY <1>9, <1>15
    <3>2. Padding(end) = 0
      BY <1>6, <3>1, NoPadding, Zenon
    <3>3. after + Padding(after) = end
      BY <1>6, <1>10, <3>1, CutBoundary, Zenon
    <3> QED BY <3>2, <3>3
  <2>3. Boundary(o) = end /\ Boundary(r) = end
    BY <1>5, <1>6, <1>8, <2>1, <2>2 DEF Boundary
  <2>4. /\ o \in Seq(Byte) /\ HeadersEnd <= Len(o) /\ ValidateCertificateTable(o).ok
    BY <1>15, ProgramBytes DEF AlignedAs, ReadableAs
  <2> HIDE DEF o
  <2>5. ProgramEnd(o) \in Nat /\ HeadersEnd <= ProgramEnd(o)
    BY <2>4, ProgramEndRange
  <2>6. end < ProgramEnd(o) + 8
    <3>1. Boundary(o) < ProgramEnd(o) + 8
      BY <2>5, BoundaryOf DEF Boundary
    <3> QED BY <2>3, <3>1
  <2>7. ASSUME NEW i \in (HeadersEnd + 1)..end PROVE Extended(r, i) = Extended(b, i)
    <3>1. i <= end /\ Plain(i) /\ Extended(b, i) = b[i]
      BY <1>6, <1>7 DEF Plain
    <3>2. CASE i <= after
      <4>1. i \in 1..after
        BY <1>6, <1>11, <3>2
      <4> HIDE DEF after
      <4> QED BY <1>5, <1>12, <3>1, <3>2, <4>1
    <3>3. CASE ~(i <= after)
      <4>1. PICK j \in 1..k : (end - j) + 1 = i
        <5>1. (end - i) + 1 \in 1..k /\ (end - ((end - i) + 1)) + 1 = i
          BY <1>6, <1>10, <3>3
        <5> QED BY <5>1
      <4>2. b[i] = 0
        BY <1>10, <4>1
      <4> HIDE DEF after
      <4> QED BY <1>12, <3>1, <3>3, <4>2
    <3> QED BY <3>2, <3>3
  <2>8. ASSUME TableIn(p) PROVE after >= ProgramEnd(o) \/ after >= floor
    <3>1. CASE k = 0
      BY <1>6, <2>1, <2>8, <3>1
    <3>2. CASE k # 0
      <4>1. k \in 1..k
        BY <1>10, <3>2
      <4> QED BY <1>10, <4>1
    <3> QED BY <3>1, <3>2
  <2>9. after <= ProgramEnd(o) \/ after <= floor
    <3> SUFFICES ASSUME after > ProgramEnd(o), after > floor PROVE FALSE
      BY <1>3, <1>11, <2>5
    <3>1. k + 1 < 8 /\ k + 1 <= end /\ end - (k + 1) >= floor /\ (end - (k + 1)) + 1 = after
      BY <1>3, <1>6, <1>10, <1>11, <2>5, <2>6
    <3>2. after \in (HeadersEnd + 1)..end
      BY <1>6, <1>11, <2>5
    <3> HIDE DEF after
    <3>3. Extended(b, after) = Extended(o, after) /\ Extended(b, after) = b[after]
      BY <1>7, <1>11, <2>1, <2>3, <3>2
    <3>4. Extended(o, after) = 0
      BY <1>11, <2>5 DEF Extended
    <3>5. k + 1 < 8 /\ k + 1 <= end /\ end - (k + 1) >= floor => b[(end - (k + 1)) + 1] # 0
      BY <1>10
    <3>6. b[(end - (k + 1)) + 1] # 0
      BY <3>1, <3>5, Zenon
    <3>7. b[after] # 0
      BY <3>1, <3>6, Zenon
    <3> QED BY <3>3, <3>4, <3>7, Zenon
  <2> HIDE DEF after
  <2>10. ProgramEnd(r) = after /\ ~SignedAs(r)
    BY <1>5
  <2>11. \A i \in (HeadersEnd + 1)..Boundary(o) : Extended(r, i) = Extended(o, i)
    BY <2>1, <2>3, <2>7
  <2> HIDE DEF floor
  <2> QED BY <2>1, <2>3, <2>8, <2>9, <2>10, <2>11 DEF KeepsProgram, o
<1>16. VersionOf(p, r)
  BY <1>5, <1>13, <1>14, <1>15 DEF VersionOf
<1> QED BY <1>16 DEF r

\* A program is a version of itself.
LEMMA SelfVersion ==
  ASSUME NEW p \in Programs, ReadableAs(p, p.bytes)
  PROVE  VersionOf(p, p.bytes)
<1>1. p.bytes \in Seq(Byte)
  BY ProgramBytes
<1>2. ProgramEnd(p.bytes) \in Nat
  BY <1>1, ProgramEndRange DEF ReadableAs
<1>3. AlignedAs(p) => KeepsProgram(p, p.bytes)
  BY <1>2 DEF AlignedAs, KeepsProgram
<1> QED BY <1>1, <1>3 DEF VersionOf

----------------------------------------------------------------------------
(* The signers. *)

\* The bytes a program p may turn into; what cannot be read is never written.
KeptAs(p, b) == IF ReadableAs(p, p.bytes) THEN VersionOf(p, b) ELSE b = p.bytes

\* Whatever was read is a version of the program, a digest that was taken is the
\* program's, and a signature in the file is the last one embedded.
SnapInv == \A s \in Signers : pc[s] \in {"embed", "strip"} => KeptAs(program, snap[s])

DigestInv ==
  \A s \in Signers : pc[s] \in {"signed", "embed"} /\ AlignedAs(program) =>
    digest[s] = ComputeAuthenticodeDigest(program.bytes)

LastInv ==
  file # program.bytes /\ SignedAs(file) =>
    /\ ExtractSignature(file) = last.sig
    /\ AlignedAs(program) => last.digest = ComputeAuthenticodeDigest(program.bytes)

Inv ==
  /\ program \in Programs
  /\ DOMAIN pc = Signers /\ DOMAIN digest = Signers /\ DOMAIN snap = Signers
  /\ KeptAs(program, file)
  /\ SnapInv /\ DigestInv /\ LastInv
  /\ ChecksumCurrent

\* The predicates of the model, with the headers as a parameter.
LEMMA OfProgram ==
  /\ \A b : Readable(b) <=> ReadableAs(program, b)
  /\ \A b : HasEmbeddedSignature(b) <=> ReadableAs(program, b) /\ SignedAs(b)
  /\ Aligned <=> AlignedAs(program)
  /\ \A b : StripFloor(b) = FloorIn(program, b)
  /\ TableInHeaders <=> TableIn(program)
<1>1. \A b : Readable(b) <=> ReadableAs(program, b)
  BY DEF Readable, ParsePeLayout, ReadableAs
<1>2. \A b : HasEmbeddedSignature(b) <=> ReadableAs(program, b) /\ SignedAs(b)
  BY <1>1 DEF HasEmbeddedSignature, SignedAs
<1>3. Aligned <=> AlignedAs(program)
  BY <1>1, <1>2 DEF Aligned, AlignedAs
<1>4. SectionTable = TableOf(program)
  BY DEF SectionTable, TableOf
<1>5. \A b : StripFloor(b) = FloorIn(program, b)
  BY <1>4 DEF StripFloor, FloorIn
<1>6. TableInHeaders <=> TableIn(program)
  BY <1>4 DEF TableInHeaders, TableIn
<1> QED BY <1>1, <1>2, <1>3, <1>5, <1>6

\* A kept file is bytes, and readable if the program is.
LEMMA KeptIsBytes ==
  ASSUME NEW p \in Programs, NEW b, KeptAs(p, b)
  PROVE  /\ b \in Seq(Byte)
         /\ ReadableAs(p, b) <=> ReadableAs(p, p.bytes)
         /\ ReadableAs(p, b) => VersionOf(p, b)
<1>1. p.bytes \in Seq(Byte)
  BY ProgramBytes
<1> QED BY <1>1 DEF KeptAs, VersionOf

LEMMA InitInv == Init => Inv
<1> SUFFICES ASSUME Init PROVE Inv
  OBVIOUS
<1>1. program \in Programs /\ file = program.bytes /\ pc = [s \in Signers |-> "idle"]
  BY DEF Init
<1>2. DOMAIN pc = Signers /\ DOMAIN digest = Signers /\ DOMAIN snap = Signers
  BY DEF Init
<1>3. KeptAs(program, file)
  BY <1>1, SelfVersion DEF KeptAs
<1>4. \A s \in Signers : pc[s] = "idle"
  BY <1>1
<1>5. SnapInv /\ DigestInv
  BY <1>4 DEF SnapInv, DigestInv
<1>6. LastInv /\ ChecksumCurrent
  BY <1>1 DEF LastInv, ChecksumCurrent
<1> QED BY <1>1, <1>2, <1>3, <1>5, <1>6 DEF Inv

\* The signature is made for the program's digest, whichever version is read.
LEMMA DigestStep ==
  ASSUME Inv, NEW s \in Signers, Digest(s)
  PROVE  Inv'
<1>1. /\ pc[s] = "idle" /\ Readable(file)
      /\ digest' = [digest EXCEPT ![s] = ComputeAuthenticodeDigest(file)]
      /\ pc' = [pc EXCEPT ![s] = "signed"]
      /\ program' = program /\ file' = file /\ snap' = snap /\ last' = last
  BY DEF Digest
<1>2. program \in Programs /\ KeptAs(program, file) /\ DOMAIN pc = Signers /\ DOMAIN digest = Signers
  BY DEF Inv
<1>3. AlignedAs(program) => ComputeAuthenticodeDigest(file) = ComputeAuthenticodeDigest(program.bytes)
  <2>1. VersionOf(program, file)
    BY <1>1, <1>2, OfProgram, KeptIsBytes
  <2> QED BY <1>2, <2>1, SameDigest
<1>4. \A q \in Signers : q # s => pc'[q] = pc[q] /\ digest'[q] = digest[q]
  BY <1>1, <1>2
<1>5. pc'[s] = "signed" /\ digest'[s] = ComputeAuthenticodeDigest(file)
  BY <1>1, <1>2
<1>6. SnapInv'
  BY <1>1, <1>4, <1>5 DEF Inv, SnapInv
<1>7. DigestInv'
  BY <1>1, <1>3, <1>4, <1>5 DEF Inv, DigestInv
<1>8. LastInv' /\ ChecksumCurrent'
  BY <1>1 DEF Inv, LastInv, ChecksumCurrent
<1>9. DOMAIN pc' = Signers /\ DOMAIN digest' = Signers /\ DOMAIN snap' = Signers
  BY <1>1 DEF Inv
<1> QED BY <1>1, <1>2, <1>6, <1>7, <1>8, <1>9 DEF Inv

\* Reading takes a version.
LEMMA ReadStep ==
  ASSUME Inv, NEW s \in Signers, EmbedRead(s) \/ StripRead(s)
  PROVE  Inv'
<1>1. /\ snap' = [snap EXCEPT ![s] = file]
      /\ program' = program /\ file' = file /\ digest' = digest /\ last' = last
      /\ \/ pc[s] = "signed" /\ pc' = [pc EXCEPT ![s] = "embed"]
         \/ pc[s] = "idle" /\ pc' = [pc EXCEPT ![s] = "strip"]
  BY DEF EmbedRead, StripRead
<1>2. program \in Programs /\ KeptAs(program, file) /\ DOMAIN pc = Signers /\ DOMAIN snap = Signers
  BY DEF Inv
<1>3. \A q \in Signers : q # s => pc'[q] = pc[q] /\ snap'[q] = snap[q]
  BY <1>1, <1>2
<1>4. /\ snap'[s] = file
      /\ (pc'[s] = "embed" /\ pc[s] = "signed") \/ pc'[s] = "strip"
  BY <1>1, <1>2
<1>5. SnapInv'
  BY <1>1, <1>2, <1>3, <1>4 DEF Inv, SnapInv
<1>6. DigestInv'
  BY <1>1, <1>3, <1>4 DEF Inv, DigestInv
<1>7. LastInv' /\ ChecksumCurrent'
  BY <1>1 DEF Inv, LastInv, ChecksumCurrent
<1>8. DOMAIN pc' = Signers /\ DOMAIN digest' = Signers /\ DOMAIN snap' = Signers
  BY <1>1, <1>2 DEF Inv
<1> QED BY <1>1, <1>2, <1>5, <1>6, <1>7, <1>8 DEF Inv

\* A signer that is done leaves the others as they were.
LEMMA FinishStep ==
  ASSUME Inv, NEW s \in Signers, Finish(s)
  PROVE  /\ program' = program
         /\ DOMAIN pc' = Signers /\ DOMAIN digest' = Signers /\ DOMAIN snap' = Signers
         /\ SnapInv' /\ DigestInv'
<1>1. /\ pc' = [pc EXCEPT ![s] = "idle"] /\ snap' = [snap EXCEPT ![s] = <<>>]
      /\ digest' = [digest EXCEPT ![s] = <<>>] /\ program' = program
  BY DEF Finish
<1>2. DOMAIN pc = Signers /\ DOMAIN digest = Signers /\ DOMAIN snap = Signers
  BY DEF Inv
<1>3. /\ \A q \in Signers : q # s => pc'[q] = pc[q] /\ snap'[q] = snap[q] /\ digest'[q] = digest[q]
      /\ pc'[s] = "idle"
  BY <1>1, <1>2
<1>4. SnapInv' /\ DigestInv'
  BY <1>1, <1>3 DEF Inv, SnapInv, DigestInv
<1> QED BY <1>1, <1>2, <1>4

\* Embedding writes a version that carries its signature and checksum.
LEMMA EmbedWriteStep ==
  ASSUME Inv, NEW s \in Signers, EmbedWrite(s)
  PROVE  Inv'
<1> DEFINE b == snap[s]
           r == Embed(b, Sig[s])
<1>1. /\ pc[s] = "embed" /\ r # Rejected /\ file' = r
      /\ last' = [sig |-> Sig[s], digest |-> digest[s]] /\ Finish(s)
  BY DEF EmbedWrite
<1>2. /\ program' = program
      /\ DOMAIN pc' = Signers /\ DOMAIN digest' = Signers /\ DOMAIN snap' = Signers
      /\ SnapInv' /\ DigestInv'
  BY <1>1, FinishStep
<1>3. program \in Programs /\ KeptAs(program, b)
  BY <1>1 DEF Inv, SnapInv
<1>4. Sig[s] \in Seq(Byte) /\ b \in Seq(Byte)
  BY <1>3, SignatureBytes, KeptIsBytes
<1>5. /\ Readable(b) /\ ExtractSignature(r) = Sig[s]
      /\ Slice(r, CheckSumAt, CheckSumAt + 4) = Num4(ReferenceChecksum(r))
  BY <1>1, <1>4, EmbedBytes
<1>6. VersionOf(program, b) /\ ReadableAs(program, program.bytes)
  BY <1>3, <1>5, OfProgram, KeptIsBytes
<1>7. VersionOf(program, r)
  BY <1>1, <1>3, <1>4, <1>6, EmbedKeeps
<1>8. AlignedAs(program) => digest[s] = ComputeAuthenticodeDigest(program.bytes)
  BY <1>1 DEF Inv, DigestInv
<1> HIDE DEF r
<1>9. LastInv'
  BY <1>1, <1>2, <1>5, <1>8 DEF LastInv
<1>10. ChecksumCurrent'
  BY <1>1, <1>5 DEF ChecksumCurrent
<1>11. KeptAs(program', file')
  BY <1>1, <1>2, <1>6, <1>7 DEF KeptAs
<1> QED BY <1>2, <1>3, <1>9, <1>10, <1>11 DEF Inv

\* Stripping writes an unsigned version, or nothing.
LEMMA StripWriteStep ==
  ASSUME Inv, NEW s \in Signers, StripWrite(s)
  PROVE  Inv'
<1> DEFINE b == snap[s]
           r == Strip(b)
<1>1. /\ pc[s] = "strip" /\ r # Rejected
      /\ file' = IF HasEmbeddedSignature(b) THEN r ELSE file
      /\ last' = last /\ Finish(s)
  BY DEF StripWrite
<1>2. /\ program' = program
      /\ DOMAIN pc' = Signers /\ DOMAIN digest' = Signers /\ DOMAIN snap' = Signers
      /\ SnapInv' /\ DigestInv'
  BY <1>1, FinishStep
<1>3. program \in Programs /\ KeptAs(program, b)
  BY <1>1 DEF Inv, SnapInv
<1>4. CASE HasEmbeddedSignature(b)
  <2>1. file' = r /\ b \in Seq(Byte)
    BY <1>1, <1>3, <1>4, KeptIsBytes
  <2>2. SignedAs(b) /\ VersionOf(program, b) /\ ReadableAs(program, program.bytes)
    BY <1>3, <1>4, OfProgram, KeptIsBytes
  <2>3. StripFloor(b) = FloorIn(program, b) /\ FloorIn(program, b) \in Nat
    BY <1>3, <2>1, OfProgram, FloorNat
  <2>4. /\ ~ValidateCertificateTable(r).present
        /\ Slice(r, CheckSumAt, CheckSumAt + 4) = Num4(ReferenceChecksum(r))
    BY <1>1, <2>1, <2>3, StripBytes
  <2>5. VersionOf(program, r)
    BY <1>1, <1>3, <2>2, <2>3, StripKeeps
  <2> HIDE DEF r
  <2>6. LastInv' /\ ChecksumCurrent' /\ KeptAs(program', file')
    BY <1>2, <2>1, <2>2, <2>4, <2>5 DEF LastInv, ChecksumCurrent, KeptAs, SignedAs
  <2> QED BY <1>2, <1>3, <2>6 DEF Inv
<1>5. CASE ~HasEmbeddedSignature(b)
  <2>1. file' = file
    BY <1>1, <1>5
  <2>2. LastInv' /\ ChecksumCurrent' /\ KeptAs(program', file')
    BY <1>1, <1>2, <2>1 DEF Inv, LastInv, ChecksumCurrent
  <2> QED BY <1>2, <1>3, <2>2 DEF Inv
<1> QED BY <1>4, <1>5

LEMMA FailStep ==
  ASSUME Inv, NEW s \in Signers, Fail(s)
  PROVE  Inv'
<1>1. Finish(s) /\ file' = file /\ last' = last
  BY DEF Fail
<1>2. /\ program' = program
      /\ DOMAIN pc' = Signers /\ DOMAIN digest' = Signers /\ DOMAIN snap' = Signers
      /\ SnapInv' /\ DigestInv'
  BY <1>1, FinishStep
<1>3. LastInv' /\ ChecksumCurrent' /\ KeptAs(program', file') /\ program' \in Programs
  BY <1>1, <1>2 DEF Inv, LastInv, ChecksumCurrent
<1> QED BY <1>2, <1>3 DEF Inv

LEMMA InvStep == Inv /\ [Next]_vars => Inv'
<1> SUFFICES ASSUME Inv, [Next]_vars PROVE Inv'
  OBVIOUS
<1>1. ASSUME NEW s \in Signers, Digest(s) PROVE Inv'
  BY <1>1, DigestStep
<1>2. ASSUME NEW s \in Signers, EmbedRead(s) \/ StripRead(s) PROVE Inv'
  BY <1>2, ReadStep
<1>3. ASSUME NEW s \in Signers, EmbedWrite(s) PROVE Inv'
  BY <1>3, EmbedWriteStep
<1>4. ASSUME NEW s \in Signers, StripWrite(s) PROVE Inv'
  BY <1>4, StripWriteStep
<1>5. ASSUME NEW s \in Signers, Fail(s) PROVE Inv'
  BY <1>5, FailStep
<1>6. CASE UNCHANGED vars
  <2>1. /\ program' = program /\ file' = file /\ pc' = pc
        /\ digest' = digest /\ snap' = snap /\ last' = last
    BY <1>6 DEF vars
  <2> QED BY <2>1 DEF Inv, SnapInv, DigestInv, LastInv, ChecksumCurrent
<1> QED BY <1>1, <1>2, <1>3, <1>4, <1>5, <1>6 DEF Next

(***************************************************************************)
(* Every file and every copy a signer works on is a version of the program *)
(* - the same headers outside the two fields, the same bytes up to the     *)
(* zeros before the boundary - every digest taken is the program's, and    *)
(* the table in the file holds the signature embedded last.                *)
(***************************************************************************)
THEOREM InvHolds == Spec => []Inv
<1>1. Inv /\ [Next]_vars => Inv'
  BY InvStep
<1> QED BY <1>1, InitInv, PTL DEF Spec

\* Of any two naturals.
LEMMA MaxMinOfTwo ==
  ASSUME NEW x \in Nat, NEW y \in Nat, NEW n \in Nat
  PROVE  /\ n <= x \/ n <= y => n <= Max({x, y})
         /\ n >= x \/ n >= y => n >= Min({x, y})
<1>1. \E m \in {x, y} : \A k \in {x, y} : m >= k
  OBVIOUS
<1>2. \E m \in {x, y} : \A k \in {x, y} : m =< k
  OBVIOUS
<1>3. Max({x, y}) \in {x, y} /\ \A k \in {x, y} : Max({x, y}) >= k
  BY <1>1, Zenon DEF Max
<1>4. Min({x, y}) \in {x, y} /\ \A k \in {x, y} : Min({x, y}) =< k
  BY <1>2, Zenon DEF Min
<1> QED BY <1>3, <1>4

(***************************************************************************)
(* PeSigner's promise (EmbedSignature, StripSignature, HasEmbeddedSignature, *)
(* ExtractSignature): however signers interleave, the digest of a program  *)
(* stays what it was and the signature in the file is the one embedded     *)
(* last, made for that digest.                                             *)
(***************************************************************************)
THEOREM SignatureFits == Spec => []SignatureMatches
<1>1. Inv => SignatureMatches
  <2> SUFFICES ASSUME Inv PROVE SignatureMatches
    OBVIOUS
  <2>1. program \in Programs /\ KeptAs(program, file) /\ LastInv
    BY DEF Inv
  <2>2. Readable(program.bytes) => Readable(file)
    BY <2>1, OfProgram, KeptIsBytes
  <2>3. ~Readable(program.bytes) => file = program.bytes
    BY <2>1, OfProgram DEF KeptAs
  <2>4. Aligned => ComputeAuthenticodeDigest(file) = ComputeAuthenticodeDigest(program.bytes)
    <3> SUFFICES ASSUME Aligned
                 PROVE  ComputeAuthenticodeDigest(file) = ComputeAuthenticodeDigest(program.bytes)
      OBVIOUS
    <3>1. AlignedAs(program) /\ ReadableAs(program, program.bytes)
      BY OfProgram DEF AlignedAs
    <3>2. VersionOf(program, file)
      BY <2>1, <3>1, KeptIsBytes
    <3> QED BY <2>1, <3>1, <3>2, SameDigest
  <2>5. ASSUME file # program.bytes, HasEmbeddedSignature(file)
        PROVE  /\ ExtractSignature(file) = last.sig
               /\ Aligned => ComputeAuthenticodeDigest(file) = last.digest
    <3>1. SignedAs(file) /\ (Aligned <=> AlignedAs(program))
      BY <2>5, OfProgram
    <3>2. /\ ExtractSignature(file) = last.sig
          /\ AlignedAs(program) => last.digest = ComputeAuthenticodeDigest(program.bytes)
      BY <2>1, <2>5, <3>1 DEF LastInv
    <3> QED BY <2>4, <3>1, <3>2
  <2> QED BY <2>2, <2>3, <2>4, <2>5 DEF SignatureMatches
<1> QED BY <1>1, InvHolds, PTL

(***************************************************************************)
(* No sequence of embeddings and strippings costs a program more than the  *)
(* zeros at its end: StripSignature's loop takes back what EmbedSignature's *)
(* padding added, and stops at the floor.                                  *)
(***************************************************************************)
THEOREM ProgramIsKept == Spec => []ProgramKept
<1>1. Inv => ProgramKept
  <2> SUFFICES ASSUME Inv, Aligned PROVE ProgramKept
    BY DEF ProgramKept
  <2> DEFINE o == program.bytes
             before == ProgramEnd(o)
             after == ProgramEnd(file)
             floor == StripFloor(o)
  <2>1. program \in Programs /\ KeptAs(program, file)
    BY DEF Inv
  <2>2. /\ AlignedAs(program) /\ floor = FloorOf(program) /\ floor \in Nat
        /\ TableInHeaders <=> TableIn(program)
    BY <2>1, OfProgram, ProgramBytes, FloorNat DEF FloorOf
  <2>3. VersionOf(program, file)
    BY <2>1, <2>2, KeptIsBytes DEF AlignedAs
  <2>4. Padded(file) = Padded(o)
    BY <2>1, <2>2, <2>3, SameDigest
  <2>5. /\ Boundary(file) = Boundary(o)
        /\ \A i \in (HeadersEnd + 1)..Boundary(o) : Extended(file, i) = Extended(o, i)
        /\ TableInHeaders =>
             /\ after >= before \/ after >= floor
             /\ ~SignedAs(file) => after <= before \/ after <= floor
    BY <2>2, <2>3 DEF VersionOf, KeepsProgram
  <2>6. /\ o \in Seq(Byte) /\ HeadersEnd <= Len(o) /\ ValidateCertificateTable(o).ok
    BY <2>1, <2>2, ProgramBytes DEF AlignedAs, ReadableAs
  <2>7. /\ file \in Seq(Byte) /\ HeadersEnd <= Len(file) /\ ValidateCertificateTable(file).ok
        /\ ReadableAs(program, file)
    BY <2>3 DEF VersionOf, ReadableAs
  <2>8. /\ before \in Nat /\ HeadersEnd <= before /\ after \in Nat /\ HeadersEnd <= after
        /\ HeadersEnd \in Nat
    BY <2>6, <2>7, ProgramEndRange, LayoutAssumption DEF HeadersEnd
  <2>9. HasEmbeddedSignature(file) <=> SignedAs(file)
    BY <2>7, OfProgram
  <2>10. Boundary(o) \in Nat /\ before <= Boundary(o) /\ Boundary(file) < after + 8
    BY <2>8, BoundaryOf DEF Boundary
  <2>11. \A i : Extended(o, i) = (IF i <= before THEN o[i] ELSE 0)
             /\ Extended(file, i) = (IF i <= after THEN file[i] ELSE 0)
    BY DEF Extended
  <2> HIDE DEF before, after, floor, o
  <2>12. after > before - 8
    BY <2>5, <2>8, <2>10
  <2>13. TableInHeaders => after >= Min({before, floor})
    BY <2>2, <2>5, <2>8, MaxMinOfTwo, Zenon
  <2>14. TableInHeaders /\ ~SignedAs(file) => after <= Max({before, floor})
    BY <2>2, <2>5, <2>8, MaxMinOfTwo, Zenon
  <2>15. ASSUME TableInHeaders, ~SignedAs(file), ByteAt(o, before - 1) # 0, before >= floor
         PROVE  after = before
    <3>1. after <= before
      BY <2>2, <2>5, <2>8, <2>15
    <3>2. CASE before = HeadersEnd
      BY <2>8, <3>1, <3>2
    <3>3. CASE before # HeadersEnd
      <4>1. before \in (HeadersEnd + 1)..Boundary(o)
        BY <2>8, <2>10, <3>3
      <4>2. o[before] # 0
        <5>1. (before - 1) + 1 = before
          BY <2>8
        <5> QED BY <2>15, <5>1 DEF ByteAt
      <4>3. Extended(file, before) = o[before]
        BY <2>5, <2>8, <2>11, <4>1
      <4>4. before <= after
        BY <2>11, <4>2, <4>3
      <4> QED BY <2>8, <3>1, <4>4
    <3> QED BY <3>2, <3>3
  <2> QED BY <2>4, <2>9, <2>12, <2>13, <2>14, <2>15 DEF ProgramKept, before, after, floor, o
<1> QED BY <1>1, InvHolds, PTL

(***************************************************************************)
(* A file the library wrote carries the checksum of its own bytes: the     *)
(* carry-folding sum of RecalcChecksum is the sum modulo 2^16 - 1, for     *)
(* files of any length.                                                    *)
(***************************************************************************)
THEOREM ChecksumIsCurrent == Spec => []ChecksumCurrent
<1>1. Inv => ChecksumCurrent
  BY DEF Inv
<1> QED BY <1>1, InvHolds, PTL
=============================================================================
