--------------------------- MODULE MachOSigner_proofs ---------------------------
(***************************************************************************)
(* Theorems about MachOSigner: what it writes verifies, is accepted again, *)
(* keeps the program, and completes what was prepared.                     *)
(*                                                                         *)
(* Every file the signers meet is a version of the original (FileVersion): *)
(* each slice parses, has the original's commands but the signature's, and *)
(* is either as it was but for its code, or as the library leaves it       *)
(* (Finished).  Signing, stripping and a change of the code turn versions  *)
(* into versions, so the stale file that a call has read is one too, and   *)
(* what it writes does not depend on what happened in between.             *)
(*                                                                         *)
(* The first sections are about one slice, the next about a file, the last *)
(* about the signers.                                                      *)
(***************************************************************************)
EXTENDS MachOSigner, NaturalSets, SequenceTheorems, TLAPS

-----------------------------------------------------------------------------
(* Arithmetic. *)

\* Rounding up adds less than a unit.
LEMMA AlignUpBounds ==
  ASSUME NEW n \in Nat, NEW u \in Nat, u > 0
  PROVE  AlignUp(n, u) \in Nat /\ n <= AlignUp(n, u) /\ AlignUp(n, u) < n + u
<1> DEFINE q == (n + u - 1) \div u
           r == (n + u - 1) % u
<1>1. n + u - 1 \in Nat
  OBVIOUS
<1>2. q \in Nat /\ r \in Nat /\ r < u /\ n + u - 1 = q * u + r
  BY <1>1
<1>3. AlignUp(n, u) = q * u
  BY DEF AlignUp
<1>4. q * u \in Nat
  BY <1>2
<1> HIDE DEF q, r
<1> QED BY <1>2, <1>3, <1>4

\* A multiple has no remainder.
LEMMA MultipleRemainder ==
  ASSUME NEW q \in Nat, NEW u \in Nat, u > 0
  PROVE  (q * u) % u = 0
<1> DEFINE p == q * u
           k == p \div u
           m == p % u
<1>1. p \in Nat
  OBVIOUS
<1>2. k \in Nat /\ m \in Nat /\ m < u /\ p = k * u + m
  BY <1>1
<1>3. (q - k) * u = m
  BY <1>2
<1> HIDE DEF k, m
<1>4. q - k \in Int
  BY <1>2
<1>5. ASSUME q - k >= 1 PROVE FALSE
  <2>1. (q - k) * u >= u
    BY <1>4, <1>5
  <2> QED BY <1>2, <1>3, <2>1
<1>6. ASSUME q - k <= -1 PROVE FALSE
  <2>1. (q - k) * u <= -u
    BY <1>4, <1>6
  <2> QED BY <1>2, <1>3, <2>1
<1>7. q = k
  BY <1>2, <1>4, <1>5, <1>6
<1>8. m = 0
  BY <1>2, <1>7
<1> QED BY <1>8 DEF m

\* What is rounded up is a multiple of the unit.
LEMMA AlignUpIsAligned ==
  ASSUME NEW n \in Nat, NEW u \in Nat, u > 0
  PROVE  (AlignUp(n, u)) % u = 0
<1> DEFINE q == (n + u - 1) \div u
<1>1. q \in Nat
  OBVIOUS
<1>2. AlignUp(n, u) = q * u
  BY DEF AlignUp
<1> HIDE DEF q
<1> QED BY <1>1, <1>2, MultipleRemainder

\* Rounding up to 16 bytes adds at most 15, and nothing the second time.
LEMMA Align16Facts ==
  ASSUME NEW n \in Nat
  PROVE  /\ Align16(n) \in Nat /\ n <= Align16(n) /\ Align16(n) < n + 16
         /\ Align16(Align16(n)) = Align16(n)
BY DEF Align16, AlignUp

-----------------------------------------------------------------------------
(* The least of a set of numbers. *)

\* The least number of a set is in it.
LEMMA MinIs ==
  ASSUME NEW S \in SUBSET Nat, S # {}
  PROVE  Min(S) \in S /\ \A k \in S : Min(S) <= k
<1>1. \E m \in S : \A k \in S : m <= k
  BY Least
<1>2. \E x \in S : \A y \in S : x =< y
  BY <1>1
<1> QED BY <1>2 DEF Min

\* The least of two numbers.
LEMMA MinOfTwo ==
  ASSUME NEW x \in Nat, NEW y \in Nat, x <= y
  PROVE  Min({x, y}) = x
<1>1. {x, y} \in SUBSET Nat /\ {x, y} # {}
  OBVIOUS
<1> HIDE DEF Min
<1>2. Min({x, y}) \in {x, y} /\ \A k \in {x, y} : Min({x, y}) <= k
  BY <1>1, MinIs
<1> QED BY <1>2

\* The first position of a set of positions, 0 when there is none.
LEMMA FirstOfIs ==
  ASSUME NEW S \in SUBSET (Nat \ {0})
  PROVE  /\ FirstOf(S) \in Nat
         /\ FirstOf(S) = 0 <=> S = {}
         /\ S # {} => FirstOf(S) \in S /\ \A k \in S : FirstOf(S) <= k
<1>1. CASE S = {}
  BY <1>1 DEF FirstOf
<1>2. CASE S # {}
  <2>1. S \in SUBSET Nat
    OBVIOUS
  <2>2. Min(S) \in S /\ \A k \in S : Min(S) <= k
    BY <1>2, <2>1, MinIs
  <2> QED BY <1>2, <2>2 DEF FirstOf
<1> QED BY <1>1, <1>2

-----------------------------------------------------------------------------
(* Load commands. *)

\* What the walk over the load commands has used after each of them.
LEMMA CursorValues ==
  ASSUME NEW c \in Seq(Command)
  PROVE  /\ \A i \in 0..Len(c) : Cursor(c)[i] \in Nat
         /\ Cursor(c)[0] = 0
         /\ \A i \in 1..Len(c) : Cursor(c)[i] = Cursor(c)[i - 1] + c[i].size
<1> DEFINE N == Len(c)
           Step(i, v) == v + c[i].size
           Body(g) == [i \in 0..N |-> IF i = 0 THEN 0 ELSE Step(i, g[i - 1])]
           step == [i \in 1..N |-> [v \in Nat |-> Step(i, v)]]
<1>1. N \in Nat
  OBVIOUS
<1>2. Cursor(c) = CHOOSE g : g = Body(g)
  BY DEF Cursor
<1>3. PICK f \in [0..N -> Nat] : f = Body(f)
  <2>1. step \in [1..N -> [Nat -> Nat]]
    <3>1. ASSUME NEW i \in 1..N, NEW v \in Nat PROVE Step(i, v) \in Nat
      <4>1. c[i] \in Command
        OBVIOUS
      <4>2. c[i].size \in Nat
        BY <4>1 DEF Command, Segment, CodeSignature, OtherCommand
      <4> QED BY <4>2
    <3> HIDE DEF Step
    <3> QED BY <3>1
  <2> HIDE DEF step, N
  <2>2. PICK f \in [0..N -> Nat] : f[0] = 0 /\ \A i \in 1..N : f[i] = step[i][f[i - 1]]
    <3>1. 0 \in Nat
      OBVIOUS
    <3>2. Iterable(N, Nat, 0, step)
      BY <1>1, <2>1, <3>1, Iteration, Zenon
    <3> QED BY <3>2, Zenon DEF Iterable
  <2>3. f = Body(f)
    <3>1. ASSUME NEW i \in 0..N PROVE f[i] = Body(f)[i]
      <4>1. CASE i = 0
        BY <2>2, <4>1
      <4>2. CASE i # 0
        <5>1. i \in 1..N /\ i - 1 \in 0..N
          BY <1>1, <4>2
        <5>2. f[i] = step[i][f[i - 1]] /\ f[i - 1] \in Nat
          BY <2>2, <5>1
        <5>3. step[i][f[i - 1]] = Step(i, f[i - 1])
          <6> HIDE DEF Step
          <6> QED BY <5>1, <5>2 DEF step
        <5> HIDE DEF Step
        <5> QED BY <4>2, <5>2, <5>3
      <4> QED BY <4>1, <4>2
    <3> HIDE DEF Step
    <3> QED BY <3>1
  <2> HIDE DEF Body
  <2> QED BY <2>3
<1> HIDE DEF Body
<1>4. Cursor(c) = Body(Cursor(c))
  BY <1>2, <1>3, Zenon
<1> HIDE DEF N, Step
<1>5. /\ 0 \in 0..N /\ \A i \in 1..N : i \in 0..N /\ i # 0
  BY <1>1
<1>6. \A i \in 0..N : Cursor(c)[i] = IF i = 0 THEN 0 ELSE Step(i, Cursor(c)[i - 1])
  <2>1. \A i \in 0..N : Body(Cursor(c))[i] = IF i = 0 THEN 0 ELSE Step(i, Cursor(c)[i - 1])
    BY DEF Body
  <2> QED BY <1>4, <2>1
<1>7. Cursor(c)[0] = 0 /\ \A i \in 1..N : Cursor(c)[i] = Step(i, Cursor(c)[i - 1])
  BY <1>5, <1>6
<1>8. \A i \in 0..N : Cursor(c)[i] \in Nat
  <2> DEFINE S == {i \in 0..N : Cursor(c)[i] \in Nat}
  <2>1. 0 \in S
    BY <1>1, <1>7
  <2>2. ASSUME NEW i \in 0..(N - 1), i \in S PROVE i + 1 \in S
    <3>1. i + 1 \in 1..N /\ i + 1 \in 0..N /\ (i + 1) - 1 = i
      BY <1>1
    <3>2. Cursor(c)[i + 1] = Step(i + 1, Cursor(c)[i])
      BY <1>7, <3>1
    <3>3. c[i + 1] \in Command
      BY <3>1 DEF N
    <3>4. c[i + 1].size \in Nat
      BY <3>3 DEF Command, Segment, CodeSignature, OtherCommand
    <3> QED BY <2>2, <3>1, <3>2, <3>4 DEF Step
  <2> HIDE DEF S
  <2>3. 0..N \subseteq S
    BY <1>1, <2>1, <2>2, IntervalInduction, Zenon
  <2> QED BY <2>3 DEF S
<1> QED BY <1>7, <1>8 DEF N, Step

\* The kinds of commands and what they hold.
LEMMA Kinds ==
  ASSUME NEW c \in Command
  PROVE  /\ c.size \in Nat
         /\ c.cmd \in {"segment", "signature", "other"}
         /\ c.cmd = "segment" => c \in Segment
         /\ c.cmd = "signature" => c \in CodeSignature
         /\ c.cmd = "other" => c \in OtherCommand
BY DEF Command, Segment, CodeSignature, OtherCommand

\* The parts of a segment command.
LEMMA SegmentParts ==
  ASSUME NEW c \in Segment
  PROVE  /\ c \in Command /\ c.cmd = "segment" /\ c.name \in STRING
         /\ c.size \in Nat /\ c.fileoff \in Nat
         /\ c.filesize \in Nat /\ c.vmsize \in Nat /\ c.sections \in SUBSET Nat
BY DEF Command, Segment

\* The parts of a signature command.
LEMMA CodeSignatureParts ==
  ASSUME NEW c \in CodeSignature
  PROVE  c \in Command /\ c.cmd = "signature" /\ c.size \in Nat /\ c.dataoff \in Nat /\ c.datasize \in Nat
BY DEF Command, CodeSignature

\* Resizing a segment command changes its sizes alone.
LEMMA ResizedParts ==
  ASSUME NEW c \in Segment, NEW filesize \in Nat, NEW vmsize \in Nat,
         NEW r, r = Resized(c, filesize, vmsize)
  PROVE  /\ r \in Segment /\ r \in Command /\ r.cmd = "segment" /\ r.name = c.name /\ r.size = c.size
         /\ r.fileoff = c.fileoff /\ r.filesize = filesize /\ r.vmsize = vmsize
         /\ r.sections = c.sections
BY DEF Resized, Segment, Command

\* Commands of the same sizes take the same space.
LEMMA SameSizes ==
  ASSUME NEW c \in Seq(Command), NEW d \in Seq(Command), Len(c) <= Len(d),
         \A i \in 1..Len(c) : d[i].size = c[i].size
  PROVE  \A i \in 0..Len(c) : Cursor(d)[i] = Cursor(c)[i]
<1> DEFINE N == Len(c)
           S == {i \in 0..N : Cursor(d)[i] = Cursor(c)[i]}
<1>1. N \in Nat /\ Len(d) \in Nat /\ N <= Len(d)
  OBVIOUS
<1>2. 0 \in S
  BY <1>1, CursorValues
<1>3. ASSUME NEW i \in 0..(N - 1), i \in S PROVE i + 1 \in S
  <2>1. i + 1 \in 1..N /\ i + 1 \in 1..Len(d) /\ i + 1 \in 0..N /\ (i + 1) - 1 = i
    BY <1>1
  <2>2. Cursor(c)[i + 1] = Cursor(c)[i] + c[i + 1].size
    BY <2>1, CursorValues
  <2>3. Cursor(d)[i + 1] = Cursor(d)[i] + d[i + 1].size
    BY <2>1, CursorValues
  <2> QED BY <1>3, <2>1, <2>2, <2>3
<1> HIDE DEF S
<1>4. 0..N \subseteq S
  BY <1>1, <1>2, <1>3, IntervalInduction, Zenon
<1> QED BY <1>4 DEF S

\* Lists of commands of the same sizes are of the same size.
LEMMA SizeSame ==
  ASSUME NEW c \in Seq(Command), NEW d \in Seq(Command), Len(c) = Len(d),
         \A i \in 1..Len(c) : d[i].size = c[i].size
  PROVE  SizeOf(d) = SizeOf(c)
<1>1. Len(c) \in 0..Len(c) /\ Len(c) <= Len(d)
  OBVIOUS
<1> QED BY <1>1, SameSizes DEF SizeOf

\* The size of a list of commands is a number.
LEMMA SizeNat ==
  ASSUME NEW c \in Seq(Command)
  PROVE  SizeOf(c) \in Nat
<1>1. Len(c) \in 0..Len(c)
  OBVIOUS
<1> QED BY <1>1, CursorValues DEF SizeOf

\* One more command.
LEMMA SizeAppend ==
  ASSUME NEW c \in Seq(Command), NEW d \in Seq(Command), Len(d) = Len(c) + 1,
         \A i \in 1..Len(c) : d[i].size = c[i].size
  PROVE  SizeOf(d) = SizeOf(c) + d[Len(d)].size
<1>1. Len(c) \in 0..Len(c) /\ Len(c) <= Len(d) /\ Len(d) \in 1..Len(d) /\ Len(d) - 1 = Len(c)
  OBVIOUS
<1>2. Cursor(d)[Len(c)] = Cursor(c)[Len(c)]
  BY <1>1, SameSizes
<1>3. Cursor(d)[Len(d)] = Cursor(d)[Len(c)] + d[Len(d)].size
  BY <1>1, CursorValues
<1> QED BY <1>2, <1>3 DEF SizeOf

\* One command less.
LEMMA SizeWithout ==
  ASSUME NEW c \in Seq(Command), NEW d \in Seq(Command), NEW k \in 1..Len(c), Len(d) = Len(c) - 1,
         \A i \in 1..Len(d) : d[i].size = IF i < k THEN c[i].size ELSE c[i + 1].size
  PROVE  SizeOf(c) = SizeOf(d) + c[k].size
<1> DEFINE N == Len(d)
           Due(i) == IF i < k THEN Cursor(d)[i] = Cursor(c)[i]
                     ELSE Cursor(d)[i] + c[k].size = Cursor(c)[i + 1]
           S == {i \in 0..N : Due(i)}
<1>1. N \in Nat /\ Len(c) = N + 1 /\ k \in Nat /\ k >= 1 /\ k <= N + 1
  OBVIOUS
<1>2. c[k].size \in Nat
  BY Kinds
<1>3. ASSUME NEW i \in 0..N, i < k, Cursor(d)[i] = Cursor(c)[i], i + 1 = k
      PROVE  Cursor(d)[i] + c[k].size = Cursor(c)[k]
  <2>1. k - 1 = i
    BY <1>1, <1>3
  <2> QED BY <1>3, <2>1, CursorValues
<1>4. 0 \in S
  BY <1>1, CursorValues
<1>5. ASSUME NEW i \in 0..(N - 1), i \in S PROVE i + 1 \in S
  <2>1. i + 1 \in 1..N /\ i + 1 \in 0..N /\ (i + 1) - 1 = i /\ i + 1 \in 1..Len(c) /\ i + 2 \in 1..Len(c)
        /\ (i + 2) - 1 = i + 1 /\ i \in 0..N
    BY <1>1
  <2>2. Cursor(d)[i + 1] = Cursor(d)[i] + d[i + 1].size
    BY <2>1, CursorValues
  <2>3. Cursor(c)[i + 1] = Cursor(c)[i] + c[i + 1].size
    BY <2>1, CursorValues
  <2>4. Cursor(c)[i + 2] = Cursor(c)[i + 1] + c[i + 2].size
    BY <2>1, CursorValues
  <2>5. d[i + 1].size = IF i + 1 < k THEN c[i + 1].size ELSE c[i + 2].size
    <3>1. (i + 1) + 1 = i + 2
      OBVIOUS
    <3> QED BY <2>1, <3>1
  <2>6. /\ Cursor(c)[i] \in Nat /\ Cursor(c)[i + 1] \in Nat /\ Cursor(d)[i] \in Nat
        /\ c[i + 1].size \in Nat /\ c[i + 2].size \in Nat
    BY <2>1, CursorValues, Kinds
  <2>7. Due(i + 1)
    <3>1. CASE i + 1 < k
      BY <1>5, <2>2, <2>3, <2>5, <3>1
    <3>2. CASE i + 1 = k
      <4>1. Cursor(d)[i] + c[k].size = Cursor(c)[i + 1]
        BY <1>3, <1>5, <2>1, <3>2
      <4>2. Cursor(d)[i + 1] + c[k].size = Cursor(c)[i + 2]
        BY <1>2, <2>2, <2>4, <2>5, <2>6, <3>2, <4>1, SMTT(30)
      <4>3. (i + 1) + 1 = i + 2 /\ ~(i + 1 < k)
        BY <3>2
      <4> QED BY <4>2, <4>3
    <3>3. CASE i + 1 > k
      <4>1. Cursor(d)[i] + c[k].size = Cursor(c)[i + 1]
        BY <1>1, <1>5, <3>3
      <4>2. Cursor(d)[i + 1] + c[k].size = Cursor(c)[i + 2]
        BY <1>1, <1>2, <2>2, <2>4, <2>5, <2>6, <3>3, <4>1, SMTT(30)
      <4>3. (i + 1) + 1 = i + 2 /\ ~(i + 1 < k)
        BY <1>1, <3>3
      <4> QED BY <4>2, <4>3
    <3> QED BY <1>1, <3>1, <3>2, <3>3
  <2> QED BY <2>1, <2>7
<1>6. N \in S
  <2> HIDE DEF S
  <2>1. 0..N \subseteq S
    BY <1>1, <1>4, <1>5, IntervalInduction, Zenon
  <2> QED BY <1>1, <2>1
<1>7. Cursor(d)[N] \in Nat /\ N \in 0..N
  BY <1>1, CursorValues
<1>8. Cursor(d)[N] + c[k].size = Cursor(c)[N + 1]
  <2>1. CASE N < k
    <3>1. N + 1 = k
      BY <1>1, <2>1
    <3> QED BY <1>3, <1>6, <1>7, <2>1, <3>1
  <2>2. CASE ~(N < k)
    BY <1>6, <2>2
  <2> QED BY <2>1, <2>2
<1> QED BY <1>1, <1>8 DEF SizeOf

-----------------------------------------------------------------------------
(* One slice. *)

Sig(s) == FirstOf(Positions(s.cmds, "signature"))
Link(s) == FirstOf(Segments(s.cmds, "__LINKEDIT"))
HeaderEnd(s) == Header64Size + s.sizeofcmds

\* A slice that parses and is of a supported kind.
Good(s) == IsSlice(s) /\ s.magic = "supported" /\ Consistent(s)

\* Command i is a segment of that name.
Named(c, i, name) == c[i].cmd = "segment" /\ c[i].name = name

\* What the reader says of a slice that is well formed.
LEMMA ParseGood ==
  ASSUME NEW s, s.magic = "supported", Consistent(s)
  PROVE  LET layout == ParseMachOSlice(s)
         IN  /\ layout.ok /\ layout.supported
             /\ layout.header_end = HeaderEnd(s)
             /\ layout.first_content = FirstContent(s.cmds, s.size)
             /\ layout.linkedit = Link(s)
             /\ layout.codesig = Sig(s)
BY DEF ParseMachOSlice, Thin, HeaderEnd, Link, Sig

\* The reader accepts and supports well-formed slices alone.
LEMMA ParseOnlyGood ==
  ASSUME NEW s, ParseMachOSlice(s).ok, ParseMachOSlice(s).supported
  PROVE  s.magic = "supported" /\ Consistent(s)
<1>1. CASE s.magic \notin Thin
  BY <1>1 DEF ParseMachOSlice, Malformed
<1>2. CASE s.magic = "declined"
  BY <1>2 DEF ParseMachOSlice, Thin
<1>3. CASE s.magic = "supported" /\ ~Consistent(s)
  BY <1>3 DEF ParseMachOSlice, Thin, Malformed
<1> QED BY <1>1, <1>2, <1>3 DEF Thin

\* Positions are those of commands, counted from 1.
LEMMA Numbered ==
  ASSUME NEW c \in Seq(Command), NEW kind, NEW name
  PROVE  /\ Positions(c, kind) \in SUBSET (Nat \ {0})
         /\ Segments(c, name) \in SUBSET (Nat \ {0})
         /\ \A i : i \in Positions(c, kind) <=> i \in 1..Len(c) /\ c[i].cmd = kind
         /\ \A i : i \in Segments(c, name) <=> i \in 1..Len(c) /\ Named(c, i, name)
<1>1. DOMAIN c = 1..Len(c) /\ Len(c) \in Nat /\ 1..Len(c) \subseteq Nat \ {0}
  OBVIOUS
<1> QED BY <1>1 DEF Positions, Segments, Named

\* The signature command that is found, and when one is found.
LEMMA SigOf ==
  ASSUME NEW s, Good(s)
  PROVE  /\ Sig(s) \in 0..Len(s.cmds)
         /\ Sig(s) # 0 => Sig(s) \in 1..Len(s.cmds) /\ s.cmds[Sig(s)] \in CodeSignature
         /\ \A i \in 1..Len(s.cmds) : s.cmds[i].cmd = "signature" <=> i = Sig(s)
<1> DEFINE c == s.cmds
           P == Positions(c, "signature")
<1>1. c \in Seq(Command) /\ Len(c) \in Nat /\ \A i, j \in P : i = j
  BY DEF Good, IsSlice, Consistent
<1>2. /\ P \in SUBSET (Nat \ {0})
      /\ \A i : i \in P <=> i \in 1..Len(c) /\ c[i].cmd = "signature"
  BY <1>1, Numbered
<1>3. /\ Sig(s) = 0 <=> P = {}
      /\ P # {} => Sig(s) \in P
  BY <1>2, FirstOfIs DEF Sig
<1> HIDE DEF c, P
<1>4. \A i \in 1..Len(c) : c[i] \in Command
  BY <1>1
<1>5. Sig(s) # 0 => Sig(s) \in 1..Len(c) /\ c[Sig(s)] \in CodeSignature
  BY <1>2, <1>3, <1>4, Kinds
<1>6. Sig(s) \in 0..Len(c)
  BY <1>1, <1>5
<1>7. \A i \in 1..Len(c) : c[i].cmd = "signature" <=> i = Sig(s)
  BY <1>1, <1>2, <1>3
<1> QED BY <1>5, <1>6, <1>7 DEF c

\* The link-edit segment that is found, and when one is found.
LEMMA LinkOf ==
  ASSUME NEW s, IsSlice(s)
  PROVE  /\ Link(s) \in 0..Len(s.cmds)
         /\ Link(s) # 0 =>
              /\ Link(s) \in 1..Len(s.cmds)
              /\ s.cmds[Link(s)] \in Segment
              /\ Named(s.cmds, Link(s), "__LINKEDIT")
              /\ \A i \in 1..Len(s.cmds) : i < Link(s) => ~Named(s.cmds, i, "__LINKEDIT")
         /\ Link(s) = 0 => \A i \in 1..Len(s.cmds) : ~Named(s.cmds, i, "__LINKEDIT")
<1> DEFINE c == s.cmds
           P == Segments(c, "__LINKEDIT")
<1>1. c \in Seq(Command) /\ Len(c) \in Nat
  BY DEF IsSlice
<1>2. /\ P \in SUBSET (Nat \ {0})
      /\ \A i : i \in P <=> i \in 1..Len(c) /\ Named(c, i, "__LINKEDIT")
  BY <1>1, Numbered
<1>3. /\ Link(s) = 0 <=> P = {}
      /\ P # {} => Link(s) \in P /\ \A k \in P : Link(s) <= k
  BY <1>2, FirstOfIs DEF Link
<1> HIDE DEF c, P
<1>4. \A i \in 1..Len(c) : c[i] \in Command
  BY <1>1
<1>5. Link(s) # 0 =>
        /\ Link(s) \in 1..Len(c) /\ c[Link(s)] \in Segment /\ Named(c, Link(s), "__LINKEDIT")
  BY <1>2, <1>3, <1>4, Kinds DEF Named
<1>6. Link(s) \in 0..Len(c)
  BY <1>1, <1>5
<1>7. /\ Link(s) # 0 => \A i \in 1..Len(c) : i < Link(s) => ~Named(c, i, "__LINKEDIT")
      /\ Link(s) = 0 => \A i \in 1..Len(c) : ~Named(c, i, "__LINKEDIT")
  BY <1>1, <1>2, <1>3
<1> QED BY <1>5, <1>6, <1>7 DEF c

\* The signature command that is found when there is one at most.
LEMMA SigIs ==
  ASSUME NEW s, s.cmds \in Seq(Command), NEW k \in 0..Len(s.cmds),
         \A i \in 1..Len(s.cmds) : s.cmds[i].cmd = "signature" <=> i = k
  PROVE  /\ Sig(s) = k
         /\ \A i, j \in Positions(s.cmds, "signature") : i = j
<1> DEFINE P == Positions(s.cmds, "signature")
<1>1. /\ P \in SUBSET (Nat \ {0})
      /\ \A i : i \in P <=> i \in 1..Len(s.cmds) /\ s.cmds[i].cmd = "signature"
  BY Numbered
<1>2. /\ Sig(s) = 0 <=> P = {}
      /\ P # {} => Sig(s) \in P
  BY <1>1, FirstOfIs DEF Sig
<1>3. Len(s.cmds) \in Nat
  OBVIOUS
<1>4. k = 0 \/ k \in 1..Len(s.cmds)
  BY <1>3
<1> HIDE DEF P
<1>5. \A i, j \in P : i = j
  BY <1>1
<1>6. Sig(s) = k
  BY <1>1, <1>2, <1>3, <1>4
<1> QED BY <1>5, <1>6 DEF P

\* The link-edit segment that is found is the first one.
LEMMA LinkIs ==
  ASSUME NEW s, s.cmds \in Seq(Command), NEW k \in 1..Len(s.cmds), Named(s.cmds, k, "__LINKEDIT"),
         \A i \in 1..Len(s.cmds) : i < k => ~Named(s.cmds, i, "__LINKEDIT")
  PROVE  Link(s) = k
<1> DEFINE P == Segments(s.cmds, "__LINKEDIT")
<1>1. /\ P \in SUBSET (Nat \ {0})
      /\ \A i : i \in P <=> i \in 1..Len(s.cmds) /\ Named(s.cmds, i, "__LINKEDIT")
  BY Numbered
<1>2. P # {} => Link(s) \in P /\ \A j \in P : Link(s) <= j
  BY <1>1, FirstOfIs DEF Link
<1> HIDE DEF P
<1>3. k \in P /\ k \in Nat /\ Link(s) \in Nat
  BY <1>1, <1>2
<1>4. Link(s) <= k /\ ~(Link(s) < k)
  BY <1>1, <1>2, <1>3
<1> QED BY <1>3, <1>4

\* What a consistent slice holds.
LEMMA GoodParts ==
  ASSUME NEW s, Good(s)
  PROVE  /\ s.cmds \in Seq(Command) /\ Len(s.cmds) \in Nat /\ DOMAIN s.cmds = 1..Len(s.cmds)
         /\ s.ncmds = Len(s.cmds) /\ s.sizeofcmds \in Nat /\ s.len \in Nat /\ s.size \in Nat
         /\ SizeOf(s.cmds) = s.sizeofcmds
         /\ HeaderEnd(s) \in Nat /\ HeaderEnd(s) <= s.size /\ HeaderEnd(s) >= 32
         /\ \A i \in 1..Len(s.cmds) : s.cmds[i] \in Command /\ CommandFits(s.cmds[i], HeaderEnd(s), s.size)
<1>1. s.cmds \in Seq(Command) /\ s.sizeofcmds \in Nat /\ s.len \in Nat /\ s.size \in Nat
  BY DEF Good, IsSlice
<1>2. DOMAIN s.cmds = 1..Len(s.cmds) /\ Len(s.cmds) \in Nat /\ \A i \in 1..Len(s.cmds) : s.cmds[i] \in Command
  BY <1>1
<1>3. /\ s.ncmds = Len(s.cmds) /\ SizeOf(s.cmds) = s.sizeofcmds /\ HeaderEnd(s) <= s.size
      /\ \A i \in 1..Len(s.cmds) : CommandFits(s.cmds[i], HeaderEnd(s), s.size)
  BY <1>2 DEF Good, Consistent, HeaderEnd
<1>4. HeaderEnd(s) \in Nat /\ HeaderEnd(s) >= 32
  BY <1>1 DEF HeaderEnd, Header64Size
<1> QED BY <1>1, <1>2, <1>3, <1>4

\* The checks on one command, by the kind of command.
LEMMA FitsParts ==
  ASSUME NEW c \in Command, NEW h \in Nat, NEW n \in Nat
  PROVE  CommandFits(c, h, n) <=>
           /\ c.size >= 8 /\ c.size % 4 = 0
           /\ c \in Segment => c.size >= 72 /\ c.fileoff + c.filesize <= n
           /\ c \in CodeSignature =>
                /\ c.size >= 16 /\ c.dataoff + c.datasize <= n
                /\ c.datasize # 0 => c.dataoff >= h
<1>1. /\ c.cmd = "segment" <=> c \in Segment
      /\ c.cmd = "signature" <=> c \in CodeSignature
  BY Kinds, SegmentParts, CodeSignatureParts
<1> QED BY <1>1 DEF CommandFits, SignatureCommandSize

\* The bytes that are kept.
LEMMA KeptIs ==
  ASSUME NEW s, Good(s)
  PROVE  /\ Sig(s) = 0 => Kept(s) = s.size
         /\ Sig(s) # 0 =>
              /\ Kept(s) = SignatureStart(s)
              /\ Kept(s) = IF s.cmds[Sig(s)].dataoff = 0 /\ s.cmds[Sig(s)].datasize = 0 THEN s.size
                           ELSE IF s.cmds[Sig(s)].dataoff + s.cmds[Sig(s)].datasize # s.size THEN -1
                           ELSE s.cmds[Sig(s)].dataoff
         /\ Kept(s) = -1 \/ (Kept(s) \in Nat /\ HeaderEnd(s) <= Kept(s) /\ Kept(s) <= s.size)
<1>1. ParseMachOSlice(s).codesig = Sig(s)
  BY ParseGood DEF Good
<1>2. s.size \in Nat /\ HeaderEnd(s) \in Nat /\ HeaderEnd(s) <= s.size
  BY GoodParts
<1>3. CASE Sig(s) = 0
  BY <1>1, <1>2, <1>3 DEF Kept
<1>4. CASE Sig(s) # 0
  <2> DEFINE g == s.cmds[Sig(s)]
  <2>1. Sig(s) \in 1..Len(s.cmds) /\ g \in CodeSignature
    BY <1>4, SigOf
  <2>2. g \in Command /\ g.dataoff \in Nat /\ g.datasize \in Nat
    BY <2>1, CodeSignatureParts
  <2>3. CommandFits(g, HeaderEnd(s), s.size)
    BY <2>1, GoodParts
  <2>4. g.dataoff + g.datasize <= s.size /\ (g.datasize # 0 => g.dataoff >= HeaderEnd(s))
    BY <1>2, <2>1, <2>2, <2>3, FitsParts
  <2>5. Kept(s) = SignatureStart(s)
    BY <1>1, <1>4 DEF Kept
  <2>6. Kept(s) = IF g.dataoff = 0 /\ g.datasize = 0 THEN s.size
                  ELSE IF g.dataoff + g.datasize # s.size THEN -1 ELSE g.dataoff
    BY <1>1, <2>5 DEF SignatureStart, DataStart
  <2> HIDE DEF g
  <2>7. Kept(s) = -1 \/ (Kept(s) \in Nat /\ HeaderEnd(s) <= Kept(s) /\ Kept(s) <= s.size)
    BY <1>2, <2>2, <2>4, <2>6
  <2> QED BY <1>4, <2>5, <2>6, <2>7 DEF g
<1> QED BY <1>3, <1>4

\* No segment but __LINKEDIT is in the data of the signature.
Tidy(s) ==
  \A i \in 1..Len(s.cmds) : s.cmds[i].cmd = "segment" /\ i # Link(s) =>
    s.cmds[i].fileoff + s.cmds[i].filesize <= Kept(s)

\* All data that is not headers is at offset h or behind it.
Behind(c, n, h) ==
  /\ n >= h
  /\ \A i \in 1..Len(c) : c[i].cmd = "segment" =>
       /\ c[i].name # "__TEXT" /\ c[i].filesize > 0 /\ c[i].fileoff > 0 => c[i].fileoff >= h
       /\ \A x \in c[i].sections : x >= h

\* The lowest content is at or behind h when all content is.
LEMMA FirstContentIs ==
  ASSUME NEW c \in Seq(Command), NEW n \in Nat
  PROVE  /\ FirstContent(c, n) \in Nat /\ FirstContent(c, n) <= n
         /\ \A h \in Nat : FirstContent(c, n) >= h <=> Behind(c, n, h)
<1> DEFINE P == Positions(c, "segment")
           J == {j \in P : c[j].name # "__TEXT" /\ c[j].filesize > 0 /\ c[j].fileoff > 0}
           A == {c[i].fileoff : i \in J}
           B == UNION {c[i].sections : i \in P}
           S == {n} \cup A \cup B
<1>1. \A i : i \in P <=> i \in 1..Len(c) /\ c[i].cmd = "segment"
  BY Numbered
<1>2. \A i \in P : c[i] \in Segment
  <2>1. \A i \in 1..Len(c) : c[i] \in Command
    OBVIOUS
  <2> QED BY <1>1, <2>1, Kinds
<1>3. \A i \in P : c[i].fileoff \in Nat /\ c[i].sections \in SUBSET Nat
  BY <1>2, SegmentParts
<1>4. FirstContent(c, n) = Min(S)
  BY DEF FirstContent
<1> HIDE DEF P
<1>5. S \in SUBSET Nat /\ S # {} /\ n \in S
  BY <1>3
<1> DEFINE F == FirstContent(c, n)
<1>6. F \in S /\ \A k \in S : F <= k
  <2>1. F = Min(S)
    BY <1>4
  <2> HIDE DEF S, F
  <2>2. Min(S) \in S /\ \A k \in S : Min(S) <= k
    BY <1>5, MinIs
  <2> QED BY <2>1, <2>2
<1>7. F \in Nat /\ F <= n
  BY <1>5, <1>6
<1>8. ASSUME NEW h \in Nat PROVE F >= h <=> \A k \in S : k >= h
  BY <1>5, <1>6, <1>7
<1>9. ASSUME NEW h \in Nat PROVE (\A k \in S : k >= h) <=> Behind(c, n, h)
  <2>1. ASSUME \A k \in S : k >= h PROVE Behind(c, n, h)
    <3>1. n >= h
      BY <2>1
    <3>2. ASSUME NEW i \in 1..Len(c), c[i].cmd = "segment"
          PROVE  /\ c[i].name # "__TEXT" /\ c[i].filesize > 0 /\ c[i].fileoff > 0 => c[i].fileoff >= h
                 /\ \A x \in c[i].sections : x >= h
      <4>1. i \in P
        BY <1>1, <3>2
      <4>2. c[i].name # "__TEXT" /\ c[i].filesize > 0 /\ c[i].fileoff > 0 => c[i].fileoff \in S
        BY <4>1
      <4>3. \A x \in c[i].sections : x \in S
        BY <4>1
      <4> HIDE DEF S
      <4> QED BY <2>1, <4>2, <4>3
    <3> QED BY <3>1, <3>2 DEF Behind
  <2>2. ASSUME Behind(c, n, h), NEW k \in S PROVE k >= h
    <3>1. CASE k = n
      BY <2>2, <3>1 DEF Behind
    <3>2. CASE k \in A
      BY <1>1, <2>2, <3>2 DEF Behind
    <3>3. CASE k \in B
      BY <1>1, <2>2, <3>3 DEF Behind
    <3> QED BY <3>1, <3>2, <3>3
  <2> QED BY <2>1, <2>2
<1> QED BY <1>7, <1>8, <1>9

\* The conditions for signing, by the parts of the slice.
LEMMA SignableIs ==
  ASSUME NEW s, Good(s)
  PROVE  Signable(s) <=>
           /\ Kept(s) >= 0
           /\ Link(s) # 0
           /\ s.cmds[Link(s)].fileoff <= Kept(s)
           /\ s.cmds[Link(s)].fileoff + s.cmds[Link(s)].filesize = s.size
           /\ Sig(s) = 0 => Behind(s.cmds, s.size, HeaderEnd(s) + 16)
<1>1. LET layout == ParseMachOSlice(s)
      IN  /\ layout.header_end = HeaderEnd(s) /\ layout.first_content = FirstContent(s.cmds, s.size)
          /\ layout.linkedit = Link(s) /\ layout.codesig = Sig(s)
  BY ParseGood DEF Good
<1>2. HeaderEnd(s) \in Nat /\ HeaderEnd(s) + 16 \in Nat /\ s.cmds \in Seq(Command) /\ s.size \in Nat
  BY GoodParts
<1>3. /\ FirstContent(s.cmds, s.size) \in Nat
      /\ FirstContent(s.cmds, s.size) >= HeaderEnd(s) + 16 <=> Behind(s.cmds, s.size, HeaderEnd(s) + 16)
  BY <1>2, FirstContentIs
<1> DEFINE F == FirstContent(s.cmds, s.size)
           H == HeaderEnd(s)
<1> HIDE DEF F, H
<1>4. FreeHeaderSpace(ParseMachOSlice(s)) = IF F > H THEN F - H ELSE 0
  BY <1>1 DEF FreeHeaderSpace, F, H
<1>5. FreeHeaderSpace(ParseMachOSlice(s)) >= 16 <=> F >= H + 16
  BY <1>2, <1>3, <1>4 DEF F, H
<1>6. FreeHeaderSpace(ParseMachOSlice(s)) >= SignatureCommandSize <=> Behind(s.cmds, s.size, H + 16)
  BY <1>3, <1>5 DEF SignatureCommandSize, F, H
<1> QED BY <1>1, <1>6 DEF Signable, SignableAs, H

\* A page of memory is not empty.
LEMMA VmPageNat ==
  ASSUME NEW s
  PROVE  VmPage(s) \in Nat /\ VmPage(s) > 0
BY BoundsAssumption DEF VmPage

-----------------------------------------------------------------------------
(* Signing a slice. *)

\* Where the signature command is after signing.
NewSig(s) == IF Sig(s) # 0 THEN Sig(s) ELSE Len(s.cmds) + 1

\* Commands a are those of s and, at k, the signature command.
WithSignature(s, K, d, a, k) ==
  /\ a \in Seq(Command)
  /\ Len(a) = Len(s.cmds) + (IF Sig(s) # 0 THEN 0 ELSE 1)
  /\ k \in 1..Len(a) /\ a[k] \in CodeSignature
  /\ a[k].dataoff = K /\ a[k].datasize = d
  /\ a[k].size = IF Sig(s) # 0 THEN s.cmds[k].size ELSE 16
  /\ \A i \in 1..Len(s.cmds) : i # k => a[i] = s.cmds[i]
  /\ \A i \in 1..Len(a) : i # k => i \in 1..Len(s.cmds)

\* The list of commands with the signature command in it.
LEMMA SignedCommandsAre ==
  ASSUME NEW s, Good(s), NEW K \in Nat, NEW d \in Nat
  PROVE  WithSignature(s, K, d, SignedCommands(s, K, d), NewSig(s))
<1> DEFINE b == s.cmds
           new(size) == [cmd |-> "signature", size |-> size, dataoff |-> K, datasize |-> d]
<1>1. /\ b \in Seq(Command) /\ Len(b) \in Nat /\ DOMAIN b = 1..Len(b)
      /\ \A i \in 1..Len(b) : b[i] \in Command
  BY GoodParts
<1>2. ParseMachOSlice(s).codesig = Sig(s)
  BY ParseGood DEF Good
<1>3. ASSUME NEW n \in Nat
      PROVE  /\ new(n) \in CodeSignature /\ new(n) \in Command
             /\ new(n).dataoff = K /\ new(n).datasize = d /\ new(n).size = n
  BY DEF CodeSignature, Command
<1>4. CASE Sig(s) # 0
  <2>1. Sig(s) \in 1..Len(b) /\ b[Sig(s)].size \in Nat
    BY <1>1, <1>4, SigOf, Kinds
  <2> DEFINE x == new(b[Sig(s)].size)
  <2>2. x \in CodeSignature /\ x \in Command /\ x.dataoff = K /\ x.datasize = d /\ x.size = b[Sig(s)].size
    BY <1>3, <2>1
  <2>3. SignedCommands(s, K, d) = [b EXCEPT ![Sig(s)] = x]
    BY <1>2, <1>4 DEF SignedCommands, PutSignature
  <2> HIDE DEF x, b
  <2> DEFINE c == [b EXCEPT ![Sig(s)] = x]
  <2>4. c \in Seq(Command) /\ Len(c) = Len(b)
    BY <1>1, <2>1, <2>2
  <2>5. c[Sig(s)] = x /\ \A i \in 1..Len(b) : i # Sig(s) => c[i] = b[i]
    BY <1>1, <2>1
  <2>6. NewSig(s) = Sig(s)
    BY <1>4 DEF NewSig
  <2> HIDE DEF c
  <2>7. WithSignature(s, K, d, c, Sig(s))
    BY <1>1, <1>4, <2>1, <2>2, <2>4, <2>5 DEF WithSignature, b
  <2> QED BY <2>3, <2>6, <2>7 DEF c
<1>5. CASE Sig(s) = 0
  <2> DEFINE x == new(16)
  <2>2. x \in CodeSignature /\ x \in Command /\ x.dataoff = K /\ x.datasize = d /\ x.size = 16
    BY <1>3
  <2>3. SignedCommands(s, K, d) = Append(b, x)
    BY <1>2, <1>5 DEF SignedCommands, PutSignature, SignatureCommandSize
  <2> HIDE DEF x, b
  <2> DEFINE c == Append(b, x)
  <2>4. c \in Seq(Command) /\ Len(c) = Len(b) + 1
    BY <1>1, <2>2
  <2>5. c[Len(b) + 1] = x /\ \A i \in 1..Len(b) : c[i] = b[i]
    BY <1>1, <2>2
  <2>6. NewSig(s) = Len(b) + 1
    BY <1>5 DEF NewSig, b
  <2> HIDE DEF c
  <2>7. Len(b) + 1 \in 1..(Len(b) + 1) /\ \A i \in 1..(Len(b) + 1) : i # Len(b) + 1 => i \in 1..Len(b)
    BY <1>1
  <2>8. WithSignature(s, K, d, c, Len(b) + 1)
    BY <1>5, <2>2, <2>4, <2>5, <2>7 DEF WithSignature, b
  <2> QED BY <2>3, <2>6, <2>8 DEF c
<1> QED BY <1>4, <1>5

\* The commands of a signed slice, one by one.
Relinked(s, K, d, z, v, c, k, l) ==
  /\ c \in Seq(Command)
  /\ Len(c) = Len(s.cmds) + (IF Sig(s) # 0 THEN 0 ELSE 1)
  /\ k \in 1..Len(c) /\ c[k] \in CodeSignature
  /\ c[k].dataoff = K /\ c[k].datasize = d
  /\ c[k].size = IF Sig(s) # 0 THEN s.cmds[k].size ELSE 16
  /\ l \in 1..Len(s.cmds) /\ l \in 1..Len(c) /\ l # k
  /\ c[l] = Resized(s.cmds[l], z, v) /\ s.cmds[l] \in Segment
  /\ \A i \in 1..Len(c) : i # k => i \in 1..Len(s.cmds)
  /\ \A i \in 1..Len(s.cmds) : i # k /\ i # l => c[i] = s.cmds[i]

\* The same with the link-edit segment resized.
LEMMA ReservedCommands ==
  ASSUME NEW s, Good(s), Link(s) # 0, NEW K \in Nat, NEW d \in Nat,
         NEW z \in Nat, NEW v \in Nat,
         NEW c, c = [SignedCommands(s, K, d) EXCEPT ![Link(s)] = Resized(@, z, v)],
         NEW k, k = NewSig(s), NEW l, l = Link(s)
  PROVE  Relinked(s, K, d, z, v, c, k, l)
<1> DEFINE b == s.cmds
           a == SignedCommands(s, K, d)
           r == Resized(b[l], z, v)
<1>1. /\ a \in Seq(Command)
      /\ Len(a) = Len(b) + (IF Sig(s) # 0 THEN 0 ELSE 1)
      /\ k \in 1..Len(a) /\ a[k] \in CodeSignature
      /\ a[k].dataoff = K /\ a[k].datasize = d
      /\ a[k].size = IF Sig(s) # 0 THEN b[k].size ELSE 16
      /\ \A i \in 1..Len(b) : i # k => a[i] = b[i]
      /\ \A i \in 1..Len(a) : i # k => i \in 1..Len(b)
  <2>1. WithSignature(s, K, d, a, k)
    BY SignedCommandsAre
  <2> HIDE DEF a
  <2> QED BY <2>1 DEF WithSignature
<1>2. l \in 1..Len(b) /\ b[l] \in Segment /\ IsSlice(s)
  <2>1. IsSlice(s)
    BY DEF Good
  <2> QED BY <2>1, LinkOf
<1>3. Len(b) \in Nat /\ Sig(s) \in 0..Len(b)
  BY GoodParts, SigOf
<1>4. l # k
  <2>1. b[l].cmd = "segment"
    BY <1>2, SegmentParts
  <2>2. CASE Sig(s) # 0
    <3>1. b[Sig(s)].cmd = "signature"
      BY <2>2, SigOf, CodeSignatureParts
    <3> QED BY <2>1, <2>2, <3>1 DEF NewSig
  <2>3. CASE Sig(s) = 0
    BY <1>2, <1>3, <2>3 DEF NewSig
  <2> QED BY <2>2, <2>3
<1>5. r \in Command
  BY <1>2, ResizedParts
<1>6. Len(a) \in Nat /\ l \in 1..Len(a) /\ DOMAIN a = 1..Len(a)
  <2> HIDE DEF a, b, r
  <2>1. Len(a) \in Nat /\ DOMAIN a = 1..Len(a)
    BY <1>1
  <2>2. Len(a) >= Len(b)
    BY <1>1, <1>3
  <2> QED BY <1>2, <1>3, <2>1, <2>2
<1>7. a[l] = b[l]
  BY <1>1, <1>2, <1>4
<1>8. c = [a EXCEPT ![l] = r]
  BY <1>7
<1> HIDE DEF a, b, r
<1>9. c \in Seq(Command) /\ Len(c) = Len(a)
  <2> DEFINE e == [a EXCEPT ![l] = r]
  <2>1. e \in Seq(Command) /\ Len(e) = Len(a)
    BY <1>1, <1>5, <1>6
  <2> QED BY <1>8, <2>1
<1>10. c[l] = r /\ \A i \in 1..Len(a) : i # l => c[i] = a[i]
  BY <1>1, <1>6, <1>8
<1>11. /\ k \in 1..Len(c) /\ c[k] = a[k] /\ l \in 1..Len(c)
       /\ \A i \in 1..Len(b) : i # k /\ i # l => c[i] = b[i]
  <2>1. \A i \in 1..Len(b) : i \in 1..Len(a)
    BY <1>1, <1>3
  <2> QED BY <1>1, <1>4, <1>6, <1>9, <1>10, <2>1
<1>12. /\ c \in Seq(Command) /\ Len(c) = Len(b) + (IF Sig(s) # 0 THEN 0 ELSE 1)
       /\ k \in 1..Len(c) /\ c[k] \in CodeSignature /\ c[k].dataoff = K /\ c[k].datasize = d
       /\ c[k].size = IF Sig(s) # 0 THEN b[k].size ELSE 16
       /\ l \in 1..Len(b) /\ l \in 1..Len(c) /\ l # k /\ c[l] = Resized(b[l], z, v) /\ b[l] \in Segment
       /\ \A i \in 1..Len(c) : i # k => i \in 1..Len(b)
       /\ \A i \in 1..Len(b) : i # k /\ i # l => c[i] = b[i]
  BY <1>1, <1>2, <1>4, <1>9, <1>10, <1>11 DEF r
<1> QED BY <1>12 DEF Relinked, b

\* The parts of a signed slice.
LEMMA ReservedParts ==
  ASSUME NEW s, Good(s), NEW d \in Nat
  PROVE  LET t == Reserved(s, d)
             K == Align16(Kept(s))
             z == K + d - s.cmds[Link(s)].fileoff
         IN  /\ t.magic = s.magic /\ t.cpu = s.cpu /\ t.code = s.code
             /\ t.len = Min({s.len, Kept(s)}) /\ t.size = K + d
             /\ t.cmds = [SignedCommands(s, K, d) EXCEPT ![Link(s)] =
                            Resized(@, z, AlignUp(z, VmPage(s)))]
             /\ t.ncmds = s.ncmds + (IF Sig(s) # 0 THEN 0 ELSE 1)
             /\ t.sizeofcmds = s.sizeofcmds + (IF Sig(s) # 0 THEN 0 ELSE 16)
             /\ t.blob = <<>>
             /\ t = [magic |-> t.magic, cpu |-> t.cpu, code |-> t.code, len |-> t.len, size |-> t.size,
                     cmds |-> t.cmds, ncmds |-> t.ncmds, sizeofcmds |-> t.sizeofcmds, blob |-> t.blob]
<1>1. ParseMachOSlice(s).codesig = Sig(s) /\ ParseMachOSlice(s).linkedit = Link(s)
  BY ParseGood DEF Good
<1> DEFINE n == IF Sig(s) # 0 THEN 0 ELSE 1
<1>2. s.sizeofcmds \in Nat /\ s.sizeofcmds + n * 16 = s.sizeofcmds + (IF Sig(s) # 0 THEN 0 ELSE 16)
  BY GoodParts
<1> QED BY <1>1, <1>2 DEF Reserved, ReservedAs, SignatureCommandSize

\* What a slice becomes when it is signed: it parses, its signature command is found
\* and points at the reserved region, and what is kept of it is what was kept
\* before, padded.
SignedAs(s, d, t) ==
  LET K == Align16(Kept(s))
      l == Link(s)
      z == K + d - s.cmds[l].fileoff
      v == AlignUp(z, VmPage(s))
  IN  /\ Good(t) /\ Sig(t) = NewSig(s) /\ Sig(t) # 0 /\ Link(t) = l
      /\ t.size = K + d /\ Kept(t) = K /\ K > 0 /\ Tidy(t)
      /\ t.cpu = s.cpu /\ t.code = s.code /\ t.len = Min({s.len, Kept(s)})
      /\ t.cmds[Sig(t)].dataoff = K /\ t.cmds[Sig(t)].datasize = d
      /\ HeaderEnd(t) = HeaderEnd(s) + (IF Sig(s) # 0 THEN 0 ELSE 16)
      /\ z \in Nat /\ v \in Nat /\ v >= z /\ s.cmds[l].fileoff + z = t.size
      /\ Relinked(s, K, d, z, v, t.cmds, NewSig(s), l)

\* Reserving the region of a signature gives a well-formed slice.
LEMMA ReservedGood ==
  ASSUME NEW s, Good(s), Signable(s), Tidy(s), NEW d \in Nat, d > 0
  PROVE  SignedAs(s, d, Reserved(s, d))
<1> DEFINE t == Reserved(s, d)
           c == t.cmds
           b == s.cmds
           K == Align16(Kept(s))
           l == Link(s)
           k == NewSig(s)
           z == K + d - b[l].fileoff
           v == AlignUp(z, VmPage(s))
           n == IF Sig(s) # 0 THEN 0 ELSE 1
<1>1. /\ Kept(s) >= 0 /\ l # 0 /\ b[l].fileoff <= Kept(s)
      /\ b[l].fileoff + b[l].filesize = s.size
      /\ Sig(s) = 0 => Behind(b, s.size, HeaderEnd(s) + 16)
  BY SignableIs
<1>2. Kept(s) \in Nat /\ HeaderEnd(s) <= Kept(s) /\ Kept(s) <= s.size
  BY <1>1, KeptIs
<1>3. K \in Nat /\ Kept(s) <= K /\ Align16(K) = K
  BY <1>2, Align16Facts
<1>4. l \in 1..Len(b) /\ b[l] \in Segment /\ Named(b, l, "__LINKEDIT")
      /\ \A i \in 1..Len(b) : i < l => ~Named(b, i, "__LINKEDIT")
  <2>1. IsSlice(s)
    BY DEF Good
  <2> QED BY <1>1, <2>1, LinkOf
<1>5. b[l].fileoff \in Nat /\ b[l].size \in Nat
  BY <1>4, SegmentParts
<1>6. /\ b \in Seq(Command) /\ Len(b) \in Nat /\ s.ncmds = Len(b) /\ s.sizeofcmds \in Nat /\ s.len \in Nat
      /\ s.size \in Nat /\ SizeOf(b) = s.sizeofcmds /\ HeaderEnd(s) \in Nat /\ HeaderEnd(s) >= 32
      /\ \A i \in 1..Len(b) : b[i] \in Command /\ CommandFits(b[i], HeaderEnd(s), s.size)
  BY GoodParts
<1>7. Sig(s) \in 0..Len(b) /\ \A i \in 1..Len(b) : b[i].cmd = "signature" <=> i = Sig(s)
  BY SigOf
<1>8. /\ \A i \in 1..Len(b) : b[i].cmd = "segment" /\ i # l => b[i].fileoff + b[i].filesize <= Kept(s)
      /\ Kept(s) = -1 \/ Kept(s) \in Nat
  BY <1>2 DEF Tidy
<1>9. /\ t.magic = s.magic /\ t.cpu = s.cpu /\ t.code = s.code /\ t.len = Min({s.len, Kept(s)}) /\ t.size = K + d
      /\ t.ncmds = s.ncmds + n
      /\ t.sizeofcmds = s.sizeofcmds + (IF Sig(s) # 0 THEN 0 ELSE 16)
      /\ c = [SignedCommands(s, K, d) EXCEPT ![l] = Resized(@, z, v)]
      /\ t = [magic |-> t.magic, cpu |-> t.cpu, code |-> t.code, len |-> t.len, size |-> t.size,
              cmds |-> t.cmds, ncmds |-> t.ncmds, sizeofcmds |-> t.sizeofcmds, blob |-> t.blob]
  BY ReservedParts
<1>10. s.magic = "supported"
  BY DEF Good
<1>11. b[l].size >= 72 /\ b[l].size % 4 = 0
  BY <1>4, <1>6, SegmentParts, FitsParts
<1>12. Sig(s) # 0 => b[k].size >= 16 /\ b[k].size % 4 = 0 /\ k \in 1..Len(b)
  <2> SUFFICES ASSUME Sig(s) # 0 PROVE b[k].size >= 16 /\ b[k].size % 4 = 0 /\ k \in 1..Len(b)
    OBVIOUS
  <2>1. k = Sig(s) /\ k \in 1..Len(b) /\ b[k] \in CodeSignature
    BY SigOf DEF NewSig
  <2> QED BY <1>6, <2>1, CodeSignatureParts, FitsParts
<1> HIDE DEF t, c, b, K, l, k
<1>13. VmPage(s) \in Nat /\ VmPage(s) > 0
  BY VmPageNat
<1>14. z \in Nat /\ b[l].fileoff + z = K + d
  BY <1>1, <1>2, <1>3, <1>5
<1> HIDE DEF z
<1>15. v \in Nat /\ v >= z
  BY <1>13, <1>14, AlignUpBounds
<1> HIDE DEF v
<1>cmds. Relinked(s, K, d, z, v, c, k, l)
  <2>1. Link(s) # 0 /\ c = [SignedCommands(s, K, d) EXCEPT ![Link(s)] = Resized(@, z, v)]
    BY <1>1, <1>9 DEF l
  <2>2. k = NewSig(s) /\ l = Link(s)
    BY DEF k, l
  <2>3. K \in Nat /\ z \in Nat /\ v \in Nat
    BY <1>3, <1>14, <1>15
  <2> QED BY <2>1, <2>2, <2>3, ReservedCommands, Zenon
<1>16. /\ c \in Seq(Command) /\ Len(c) = Len(b) + n
       /\ k \in 1..Len(c) /\ c[k] \in CodeSignature /\ c[k].dataoff = K /\ c[k].datasize = d
       /\ c[k].size = IF Sig(s) # 0 THEN b[k].size ELSE 16
       /\ l \in 1..Len(c) /\ l # k
       /\ c[l] = Resized(b[l], z, v)
       /\ \A i \in 1..Len(c) : i # k => i \in 1..Len(b)
       /\ \A i \in 1..Len(b) : i # k /\ i # l => c[i] = b[i]
  <2> QED BY <1>cmds DEF Relinked, b
<1>17. /\ c[l] \in Segment /\ c[l] \in Command /\ c[l].size = b[l].size /\ c[l].fileoff = b[l].fileoff
       /\ c[l].filesize = z /\ c[l].name = b[l].name /\ c[l].cmd = "segment"
  <2>1. b[l] \in Segment /\ z \in Nat /\ v \in Nat /\ c[l] = Resized(b[l], z, v)
    BY <1>4, <1>14, <1>15, <1>16
  <2> QED BY <2>1, ResizedParts
<1>18. c[k] \in Command /\ c[k].cmd = "signature"
  BY <1>16, CodeSignatureParts
<1>19. Len(c) \in Nat /\ Sig(t) = k /\ \A i, j \in Positions(c, "signature") : i = j
  <2>1. Len(c) \in Nat /\ k \in 0..Len(c)
    BY <1>16
  <2>2. ASSUME NEW i \in 1..Len(c) PROVE c[i].cmd = "signature" <=> i = k
    <3>1. CASE i = k
      BY <1>18, <3>1
    <3>2. CASE i = l
      BY <1>16, <1>17, <3>2
    <3>3. CASE i # k /\ i # l
      <4>1. c[i] = b[i] /\ i \in 1..Len(b)
        BY <1>16, <3>3
      <4>2. i # Sig(s)
        BY <1>7, <3>3, <4>1 DEF k, NewSig
      <4> QED BY <1>7, <3>3, <4>1, <4>2
    <3> QED BY <3>1, <3>2, <3>3
  <2> QED BY <1>16, <2>1, <2>2, SigIs DEF c
<1>20. Link(t) = l
  <2>1. Named(c, l, "__LINKEDIT")
    BY <1>4, <1>17 DEF Named
  <2>2. ASSUME NEW i \in 1..Len(c), i < l PROVE ~Named(c, i, "__LINKEDIT")
    <3>1. CASE i = k
      BY <1>18, <3>1 DEF Named
    <3>2. CASE i # k
      <4>1. i \in 1..Len(b) /\ i # l
        BY <1>4, <1>16, <2>2, <3>2
      <4> QED BY <1>4, <1>16, <2>2, <3>2, <4>1 DEF Named
    <3> QED BY <3>1, <3>2
  <2> QED BY <1>16, <2>1, <2>2, LinkIs DEF c
<1>21. SizeOf(c) = s.sizeofcmds + (IF Sig(s) # 0 THEN 0 ELSE 16)
  <2>1. CASE Sig(s) # 0
    <3>1. Len(b) = Len(c)
      BY <1>6, <1>16, <2>1
    <3>2. \A i \in 1..Len(b) : c[i].size = b[i].size
      BY <1>16, <1>17, <2>1
    <3> QED BY <1>6, <1>16, <2>1, <3>1, <3>2, SizeSame
  <2>2. CASE Sig(s) = 0
    <3>1. Len(c) = Len(b) + 1 /\ k = Len(c)
      BY <1>6, <1>16, <2>2 DEF k, NewSig, b
    <3>2. \A i \in 1..Len(b) : c[i].size = b[i].size
      <4>1. \A i \in 1..Len(b) : i # k
        BY <1>6, <3>1
      <4> QED BY <1>16, <1>17, <4>1
    <3>3. c[Len(c)].size = 16
      BY <1>16, <2>2, <3>1
    <3>4. SizeOf(c) = SizeOf(b) + c[Len(c)].size
      BY <1>6, <1>16, <3>1, <3>2, SizeAppend
    <3> QED BY <1>6, <2>2, <3>3, <3>4
  <2> QED BY <2>1, <2>2
<1>22. HeaderEnd(t) = HeaderEnd(s) + (IF Sig(s) # 0 THEN 0 ELSE 16) /\ HeaderEnd(t) \in Nat
  BY <1>6, <1>9, SMTT(30) DEF HeaderEnd, Header64Size
<1>23. HeaderEnd(t) <= K
  <2>1. CASE Sig(s) # 0
    BY <1>2, <1>3, <1>6, <1>22, <2>1
  <2>2. CASE Sig(s) = 0
    <3>1. s.size >= HeaderEnd(s) + 16 /\ Kept(s) = s.size
      BY <1>1, <2>2, KeptIs DEF Behind
    <3> QED BY <1>3, <1>6, <1>22, <2>2, <3>1
  <2> QED BY <2>1, <2>2
<1>24. t.size \in Nat /\ t.size = K + d
  BY <1>3, <1>9
<1>25. ASSUME NEW i \in 1..Len(c) PROVE CommandFits(c[i], HeaderEnd(t), t.size)
  <2>1. CASE i = k
    <3>1. c[k].size >= 16 /\ c[k].size % 4 = 0
      BY <1>12, <1>16
    <3>2. c[k].size \in Nat /\ c[k] \notin Segment
      BY <1>18, Kinds, SegmentParts
    <3>3. c[k].size >= 8 /\ c[k].dataoff + c[k].datasize <= t.size /\ c[k].dataoff >= HeaderEnd(t)
      BY <1>3, <1>16, <1>23, <1>24, <3>1, <3>2
    <3> QED BY <1>18, <1>22, <1>24, <2>1, <3>1, <3>2, <3>3, FitsParts
  <2>2. CASE i = l
    <3>1. c[l] \notin CodeSignature
      BY <1>17, CodeSignatureParts
    <3>2. c[l].size >= 72 /\ c[l].size % 4 = 0 /\ c[l].fileoff + c[l].filesize <= t.size
      BY <1>5, <1>11, <1>14, <1>17, <1>24
    <3>3. c[l].size >= 8
      BY <1>5, <1>17, <3>2
    <3> QED BY <1>17, <1>22, <1>24, <2>2, <3>1, <3>2, <3>3, FitsParts
  <2>3. CASE i # k /\ i # l
    <3>1. c[i] = b[i] /\ i \in 1..Len(b) /\ b[i] \in Command /\ CommandFits(b[i], HeaderEnd(s), s.size)
      BY <1>6, <1>16, <2>3
    <3>2. b[i] \notin CodeSignature
      <4>1. i # Sig(s)
        BY <1>7, <2>3, <3>1 DEF k, NewSig
      <4> QED BY <1>7, <3>1, <4>1, CodeSignatureParts
    <3>3. b[i].size >= 8 /\ b[i].size % 4 = 0 /\ (b[i] \in Segment => b[i].size >= 72)
      BY <1>6, <3>1, FitsParts
    <3>4. b[i] \in Segment => b[i].fileoff + b[i].filesize <= t.size
      <4> SUFFICES ASSUME b[i] \in Segment PROVE b[i].fileoff + b[i].filesize <= t.size
        OBVIOUS
      <4>1. b[i].cmd = "segment" /\ b[i].fileoff \in Nat /\ b[i].filesize \in Nat
        BY SegmentParts
      <4>2. b[i].fileoff + b[i].filesize <= Kept(s)
        BY <1>8, <2>3, <3>1, <4>1
      <4> QED BY <1>2, <1>3, <1>24, <4>1, <4>2
    <3> QED BY <1>22, <1>24, <3>1, <3>2, <3>3, <3>4, FitsParts
  <2> QED BY <2>1, <2>2, <2>3
<1>26. Consistent(t)
  <2>1. t.ncmds = Len(c) /\ SizeOf(c) = t.sizeofcmds
    BY <1>6, <1>9, <1>16, <1>21
  <2>2. HeaderEnd(t) <= t.size
    BY <1>3, <1>22, <1>23, <1>24
  <2>3. DOMAIN c = 1..Len(c)
    BY <1>16
  <2> QED BY <1>19, <1>25, <2>1, <2>2, <2>3 DEF Consistent, HeaderEnd, c
<1>27. Good(t)
  <2>1. t.len \in Nat
    <3>1. {s.len, Kept(s)} \in SUBSET Nat /\ {s.len, Kept(s)} # {}
      BY <1>2, <1>6
    <3>2. Min({s.len, Kept(s)}) \in {s.len, Kept(s)}
      BY <3>1, MinIs
    <3> QED BY <1>9, <3>1, <3>2
  <2>2. t.ncmds \in Nat /\ t.sizeofcmds \in Nat
    BY <1>6, <1>9
  <2>3. IsSlice(t)
    BY <1>9, <1>16, <1>24, <2>1, <2>2 DEF IsSlice, c
  <2> QED BY <1>9, <1>10, <1>26, <2>3 DEF Good
<1>28. K > 0
  BY <1>3, <1>6, <1>22, <1>23
<1>29. Kept(t) = K
  <2>1. Sig(t) # 0 /\ c[Sig(t)].dataoff + c[Sig(t)].datasize = t.size
    BY <1>16, <1>19, <1>24
  <2> QED BY <1>16, <1>19, <1>27, <1>28, <2>1, KeptIs DEF c
<1>30. Tidy(t)
  <2> SUFFICES ASSUME NEW i \in 1..Len(c), c[i].cmd = "segment", i # l
               PROVE  c[i].fileoff + c[i].filesize <= K
    BY <1>20, <1>29 DEF Tidy, c
  <2>1. i # k
    BY <1>18
  <2>2. c[i] = b[i] /\ i \in 1..Len(b) /\ b[i] \in Segment
    BY <1>6, <1>16, <2>1, Kinds
  <2>3. b[i].fileoff \in Nat /\ b[i].filesize \in Nat /\ b[i].fileoff + b[i].filesize <= Kept(s)
    BY <1>8, <2>2, SegmentParts
  <2> QED BY <1>2, <1>3, <2>2, <2>3
<1>31. Sig(t) # 0
  BY <1>16, <1>19
<1> QED BY <1>9, <1>14, <1>15, <1>16, <1>19, <1>20, <1>22, <1>24, <1>27, <1>28, <1>29, <1>30, <1>31, <1>cmds
     DEF SignedAs, t, c, b, K, l, k, z, v
-----------------------------------------------------------------------------
(* What does not depend on the code or on the signature's data. *)

Alike(s, t) ==
  /\ t.magic = s.magic /\ t.cpu = s.cpu /\ t.len = s.len /\ t.size = s.size
  /\ t.cmds = s.cmds /\ t.ncmds = s.ncmds /\ t.sizeofcmds = s.sizeofcmds
  /\ t = [magic |-> t.magic, cpu |-> t.cpu, code |-> t.code, len |-> t.len, size |-> t.size,
          cmds |-> t.cmds, ncmds |-> t.ncmds, sizeofcmds |-> t.sizeofcmds, blob |-> t.blob]

\* Filling the region changes the signature data alone.
LEMMA FilledAlike ==
  ASSUME NEW s, NEW b
  PROVE  Alike(s, Filled(s, b)) /\ Filled(s, b).code = s.code /\ Filled(s, b).blob = <<b>>
BY DEF Filled, Alike

\* Another tool's change is one of the code alone.
LEMMA RecodedAlike ==
  ASSUME NEW s, NEW x
  PROVE  Alike(s, Recoded(s, x)) /\ Recoded(s, x).code = x /\ Recoded(s, x).blob = s.blob
BY DEF Recoded, Alike

\* The reader looks at neither the code nor the signature data.
LEMMA AlikeParse ==
  ASSUME NEW s, NEW t, Alike(s, t)
  PROVE  ParseMachOSlice(t) = ParseMachOSlice(s) /\ Consistent(t) = Consistent(s)
<1>1. Consistent(t) = Consistent(s)
  BY DEF Alike, Consistent
<1>2. t.magic = s.magic /\ t.cmds = s.cmds /\ t.size = s.size /\ t.sizeofcmds = s.sizeofcmds
  BY DEF Alike
<1> HIDE DEF Alike
<1>3. ParseMachOSlice(t) = ParseMachOSlice(s)
  BY <1>1, <1>2 DEF ParseMachOSlice
<1> QED BY <1>1, <1>3

\* Nothing that the signer asks of a slice depends on them.
LEMMA AlikeSame ==
  ASSUME NEW s, NEW t, Alike(s, t)
  PROVE  /\ IsSlice(s) => IsSlice(t)
         /\ Good(s) => Good(t)
         /\ Sig(t) = Sig(s) /\ Link(t) = Link(s) /\ HeaderEnd(t) = HeaderEnd(s)
         /\ Kept(t) = Kept(s) /\ VmPage(t) = VmPage(s)
         /\ Tidy(s) => Tidy(t)
<1>1. ParseMachOSlice(t) = ParseMachOSlice(s) /\ Consistent(t) = Consistent(s)
  BY AlikeParse
<1>2. /\ t.magic = s.magic /\ t.cpu = s.cpu /\ t.len = s.len /\ t.size = s.size
      /\ t.cmds = s.cmds /\ t.ncmds = s.ncmds /\ t.sizeofcmds = s.sizeofcmds
  BY DEF Alike
<1>3. IsSlice(s) => IsSlice(t)
  BY DEF Alike, IsSlice
<1>4. Sig(t) = Sig(s) /\ Link(t) = Link(s) /\ HeaderEnd(t) = HeaderEnd(s) /\ VmPage(t) = VmPage(s)
  BY <1>2 DEF Sig, Link, HeaderEnd, VmPage
<1>5. Kept(t) = Kept(s)
  BY <1>1, <1>2 DEF Kept, SignatureStart, DataStart
<1>6. Good(s) => Good(t)
  BY <1>1, <1>2, <1>3 DEF Good
<1>7. Tidy(s) => Tidy(t)
  BY <1>2, <1>4, <1>5 DEF Tidy
<1> QED BY <1>3, <1>4, <1>5, <1>6, <1>7
-----------------------------------------------------------------------------
(* Stripping a slice. *)

\* Where a command is when the one at k is gone, and where it was.
Up(i, k) == IF i > k THEN i - 1 ELSE i
Down(i, k) == IF i < k THEN i ELSE i + 1

\* Commands c are those of b without the one at k, the one that was at l resized.
Shortened(b, z, v, c, k, l) ==
  /\ c \in Seq(Command) /\ Len(c) = Len(b) - 1
  /\ Up(l, k) \in 1..Len(c) /\ c[Up(l, k)] = Resized(b[l], z, v)
  /\ \A i \in 1..Len(c) : /\ Down(i, k) \in 1..Len(b) /\ Down(i, k) # k
                          /\ i # Up(l, k) => c[i] = b[Down(i, k)] /\ Down(i, k) # l

\* The list of commands without the signature command, the link-edit segment resized.
LEMMA CutCommands ==
  ASSUME NEW b \in Seq(Command), NEW k \in 1..Len(b), NEW l \in 1..Len(b), k # l,
         b[l] \in Segment, NEW z \in Nat, NEW v \in Nat,
         NEW c, c = [Without(b, k) EXCEPT ![Up(l, k)] = Resized(@, z, v)]
  PROVE  Shortened(b, z, v, c, k, l)
<1> DEFINE a == Without(b, k)
           m == Up(l, k)
           r == Resized(b[l], z, v)
<1>1. Len(b) \in Nat /\ k \in Nat /\ l \in Nat /\ \A i \in 1..Len(b) : b[i] \in Command
  OBVIOUS
<1>2. r \in Command
  BY ResizedParts
<1>3. m \in 1..(Len(b) - 1) /\ Down(m, k) = l
  BY <1>1 DEF Up, Down
<1>4. ASSUME NEW i \in 1..(Len(b) - 1)
      PROVE  Down(i, k) \in 1..Len(b) /\ Down(i, k) # k /\ (i # m => Down(i, k) # l)
  BY <1>1 DEF Up, Down
<1>5. a = [i \in 1..(Len(b) - 1) |-> b[Down(i, k)]]
  BY DEF Without, Down
<1> HIDE DEF m, r
<1>6. a[m] = b[l]
  BY <1>3, <1>5
<1>7. c = [a EXCEPT ![m] = r]
  BY <1>6 DEF r, m
<1> HIDE DEF a
<1>8. c = [i \in 1..(Len(b) - 1) |-> IF i = m THEN r ELSE b[Down(i, k)]]
  BY <1>5, <1>7
<1>9. c \in [1..(Len(b) - 1) -> Command]
  BY <1>1, <1>2, <1>4, <1>8
<1>10. Len(b) - 1 \in Nat
  BY <1>1
<1>11. c \in Seq(Command) /\ Len(c) = Len(b) - 1
  <2> DEFINE n == Len(b) - 1
  <2>1. n \in Nat /\ DOMAIN c = 1..n /\ \A i \in 1..n : c[i] \in Command
    BY <1>9, <1>10
  <2>2. c \in Seq(Command)
    <3> DEFINE e == [i \in 1..n |-> c[i]]
    <3> HIDE DEF n
    <3>1. e \in Seq(Command)
      BY <2>1
    <3>2. c = e
      BY <1>9 DEF n
    <3> QED BY <3>1, <3>2
  <2> HIDE DEF n
  <2>3. Len(c) = n
    BY <2>1, <2>2, LenProperties
  <2> QED BY <2>2, <2>3 DEF n
<1>12. c[m] = r /\ \A i \in 1..(Len(b) - 1) : i # m => c[i] = b[Down(i, k)]
  BY <1>3, <1>8
<1> QED BY <1>3, <1>4, <1>11, <1>12 DEF Shortened, m, r

\* What a slice becomes when it is stripped.
Stripped(s, t) ==
  LET k == Sig(s)
      l == Link(s)
      m == Up(l, k)
  IN  /\ Good(t) /\ Sig(t) = 0 /\ Link(t) = m /\ m # 0
      /\ t.size = Kept(s) /\ Kept(t) = Kept(s) /\ Tidy(t)
      /\ t.cpu = s.cpu /\ t.len = Min({s.len, Kept(s)})
      /\ HeaderEnd(t) + s.cmds[k].size = HeaderEnd(s) /\ s.cmds[k].size >= 16
      /\ t.cmds[m].filesize + s.cmds[l].fileoff = t.size /\ t.cmds[m].vmsize >= t.cmds[m].filesize
      /\ Shortened(s.cmds, t.cmds[m].filesize, t.cmds[m].vmsize, t.cmds, k, l)

\* The parts of a slice that was cut off.
LEMMA CutParts ==
  ASSUME NEW s, Good(s), NEW cut
  PROVE  LET t == CutSlice(s, cut)
             link == s.cmds[Link(s)]
             z == cut - link.fileoff
             v == IF link.vmsize < z THEN AlignUp(z, VmPage(s)) ELSE link.vmsize
         IN  /\ t.magic = s.magic /\ t.cpu = s.cpu /\ t.code = s.code
             /\ t.len = Min({s.len, cut}) /\ t.size = cut
             /\ t.cmds = [Without(s.cmds, Sig(s)) EXCEPT ![Up(Link(s), Sig(s))] = Resized(@, z, v)]
             /\ t.ncmds = s.ncmds - 1
             /\ t.sizeofcmds = s.sizeofcmds - s.cmds[Sig(s)].size
             /\ t.blob = <<>>
             /\ t = [magic |-> t.magic, cpu |-> t.cpu, code |-> t.code, len |-> t.len, size |-> t.size,
                     cmds |-> t.cmds, ncmds |-> t.ncmds, sizeofcmds |-> t.sizeofcmds, blob |-> t.blob]
<1>1. ParseMachOSlice(s).codesig = Sig(s) /\ ParseMachOSlice(s).linkedit = Link(s)
  BY ParseGood DEF Good
<1> QED BY <1>1 DEF CutSlice, Up

\* Cutting the signature off gives a well-formed slice.
LEMMA CutGood ==
  ASSUME NEW s, Good(s), Tidy(s), Sig(s) # 0, Kept(s) >= 0, Link(s) # 0,
         s.cmds[Link(s)].fileoff <= Kept(s)
  PROVE  Stripped(s, CutSlice(s, Kept(s)))
<1> DEFINE K == Kept(s)
           t == CutSlice(s, K)
           c == t.cmds
           b == s.cmds
           l == Link(s)
           k == Sig(s)
           m == Up(l, k)
           z == K - b[l].fileoff
           v == IF b[l].vmsize < z THEN AlignUp(z, VmPage(s)) ELSE b[l].vmsize
<1>2. K \in Nat /\ HeaderEnd(s) <= K /\ K <= s.size
  BY KeptIs
<1>4. l \in 1..Len(b) /\ b[l] \in Segment /\ Named(b, l, "__LINKEDIT")
      /\ \A i \in 1..Len(b) : i < l => ~Named(b, i, "__LINKEDIT")
  <2>1. IsSlice(s)
    BY DEF Good
  <2> QED BY <2>1, LinkOf
<1>5. b[l].fileoff \in Nat /\ b[l].size \in Nat /\ b[l].vmsize \in Nat
  BY <1>4, SegmentParts
<1>6. /\ b \in Seq(Command) /\ Len(b) \in Nat /\ s.ncmds = Len(b) /\ s.sizeofcmds \in Nat /\ s.len \in Nat
      /\ s.size \in Nat /\ SizeOf(b) = s.sizeofcmds /\ HeaderEnd(s) \in Nat /\ HeaderEnd(s) >= 32
      /\ \A i \in 1..Len(b) : b[i] \in Command /\ CommandFits(b[i], HeaderEnd(s), s.size)
  BY GoodParts
<1>7. /\ k \in 1..Len(b) /\ b[k] \in CodeSignature
      /\ \A i \in 1..Len(b) : b[i].cmd = "signature" <=> i = k
  BY SigOf
<1>8. \A i \in 1..Len(b) : b[i].cmd = "segment" /\ i # l => b[i].fileoff + b[i].filesize <= K
  BY DEF Tidy
<1>9. /\ t.magic = s.magic /\ t.cpu = s.cpu /\ t.len = Min({s.len, K}) /\ t.size = K
      /\ t.ncmds = s.ncmds - 1
      /\ t.sizeofcmds = s.sizeofcmds - b[k].size
      /\ c = [Without(b, k) EXCEPT ![m] = Resized(@, z, v)]
      /\ t = [magic |-> t.magic, cpu |-> t.cpu, code |-> t.code, len |-> t.len, size |-> t.size,
              cmds |-> t.cmds, ncmds |-> t.ncmds, sizeofcmds |-> t.sizeofcmds, blob |-> t.blob]
  BY CutParts
<1>10. s.magic = "supported"
  BY DEF Good
<1>11. b[l].size >= 72 /\ b[l].size % 4 = 0
  BY <1>4, <1>6, SegmentParts, FitsParts
<1>12. b[k].size >= 16 /\ b[k].size \in Nat
  BY <1>6, <1>7, CodeSignatureParts, FitsParts
<1>13. k # l
  BY <1>4, <1>7, SegmentParts
<1> HIDE DEF t, c, b, K, l, k
<1>14. VmPage(s) \in Nat /\ VmPage(s) > 0
  BY VmPageNat
<1>15. z \in Nat /\ b[l].fileoff + z = K
  BY <1>2, <1>5 DEF K, l, b
<1> HIDE DEF z
<1>16. v \in Nat /\ v >= z
  <2>1. AlignUp(z, VmPage(s)) \in Nat /\ AlignUp(z, VmPage(s)) >= z
    BY <1>14, <1>15, AlignUpBounds
  <2> QED BY <1>5, <1>15, <2>1
<1> HIDE DEF v, m
<1>17. Shortened(b, z, v, c, k, l)
  <2>1. c = [Without(b, k) EXCEPT ![Up(l, k)] = Resized(@, z, v)]
    BY <1>9 DEF m
  <2> QED BY <1>4, <1>6, <1>7, <1>13, <1>15, <1>16, <2>1, CutCommands, Zenon
<1>18. /\ c \in Seq(Command) /\ Len(c) = Len(b) - 1 /\ Len(c) \in Nat /\ DOMAIN c = 1..Len(c)
       /\ m \in 1..Len(c) /\ c[m] = Resized(b[l], z, v)
       /\ \A i \in 1..Len(c) : /\ Down(i, k) \in 1..Len(b) /\ Down(i, k) # k
                               /\ i # m => c[i] = b[Down(i, k)] /\ Down(i, k) # l
  BY <1>17 DEF Shortened, m
<1>19. /\ c[m] \in Segment /\ c[m] \in Command /\ c[m].size = b[l].size /\ c[m].fileoff = b[l].fileoff
       /\ c[m].filesize = z /\ c[m].vmsize = v /\ c[m].name = b[l].name /\ c[m].cmd = "segment"
  <2>1. b[l] \in Segment /\ z \in Nat /\ v \in Nat /\ c[m] = Resized(b[l], z, v)
    BY <1>4, <1>15, <1>16, <1>18
  <2>2. PICK r : r = c[m]
    OBVIOUS
  <2>3. /\ r \in Segment /\ r \in Command /\ r.cmd = "segment" /\ r.name = b[l].name
        /\ r.size = b[l].size /\ r.fileoff = b[l].fileoff /\ r.filesize = z /\ r.vmsize = v
    <3>1. r = Resized(b[l], z, v)
      BY <2>1, <2>2
    <3>2. PICK q \in Segment : q = b[l]
      BY <2>1
    <3>3. r = Resized(q, z, v)
      BY <3>1, <3>2
    <3>4. r \in Segment /\ r \in Command /\ r.cmd = "segment"
      <4>1. z \in Nat /\ v \in Nat
        BY <2>1
      <4> HIDE <2>1
      <4> QED BY <3>3, <4>1 DEF Resized, Segment, Command
    <3>5. /\ r.name = q.name /\ r.size = q.size /\ r.fileoff = q.fileoff
          /\ r.filesize = z /\ r.vmsize = v
      BY <3>3 DEF Resized
    <3> QED BY <3>2, <3>4, <3>5
  <2> QED BY <2>2, <2>3
<1>20. Down(m, k) = l
  BY <1>4, <1>6, <1>7, <1>13 DEF m, Up, Down
<1>21. Sig(t) = 0 /\ \A i, j \in Positions(c, "signature") : i = j
  <2>1. 0 \in 0..Len(c)
    BY <1>18
  <2>2. ASSUME NEW i \in 1..Len(c) PROVE c[i].cmd = "signature" <=> i = 0
    <3>1. CASE i = m
      BY <1>18, <1>19, <3>1
    <3>2. CASE i # m
      <4>1. c[i].cmd # "signature"
        BY <1>7, <1>18, <3>2
      <4> QED BY <1>18, <4>1
    <3> QED BY <3>1, <3>2
  <2> QED BY <1>18, <2>1, <2>2, SigIs DEF c
<1>22. Link(t) = m
  <2>1. Named(c, m, "__LINKEDIT")
    BY <1>4, <1>19 DEF Named
  <2>2. ASSUME NEW i \in 1..Len(c), i < m PROVE ~Named(c, i, "__LINKEDIT")
    <3>1. i # m /\ Down(i, k) < l
      BY <1>4, <1>6, <1>7, <1>13, <1>18, <2>2 DEF m, Up, Down
    <3>2. c[i] = b[Down(i, k)] /\ Down(i, k) \in 1..Len(b)
      BY <1>18, <3>1
    <3>3. ~Named(b, Down(i, k), "__LINKEDIT")
      BY <1>4, <3>1, <3>2
    <3> QED BY <3>2, <3>3 DEF Named
  <2> QED BY <1>18, <2>1, <2>2, LinkIs DEF c
<1>23. SizeOf(b) = SizeOf(c) + b[k].size /\ SizeOf(c) \in Nat
  <2>1. ASSUME NEW i \in 1..Len(c) PROVE c[i].size = IF i < k THEN b[i].size ELSE b[i + 1].size
    <3>1. c[i].size = b[Down(i, k)].size
      BY <1>18, <1>19, <1>20
    <3> QED BY <3>1 DEF Down
  <2> QED BY <1>6, <1>7, <1>18, <2>1, SizeWithout, SizeNat
<1>24. /\ t.sizeofcmds = SizeOf(c) /\ HeaderEnd(t) \in Nat /\ HeaderEnd(t) + b[k].size = HeaderEnd(s)
       /\ t.sizeofcmds \in Nat
  <2>1. t.sizeofcmds = SizeOf(c) /\ t.sizeofcmds \in Nat
    BY <1>6, <1>9, <1>12, <1>23
  <2>2. t.sizeofcmds + b[k].size = s.sizeofcmds
    BY <1>6, <1>12, <1>23, <2>1
  <2>3. HeaderEnd(t) = 32 + t.sizeofcmds /\ HeaderEnd(s) = 32 + s.sizeofcmds
    BY DEF HeaderEnd, Header64Size
  <2> QED BY <1>12, <2>1, <2>2, <2>3
<1>25. t.size \in Nat /\ t.size = K /\ HeaderEnd(t) <= t.size
  BY <1>2, <1>6, <1>9, <1>12, <1>24
<1>26. ASSUME NEW i \in 1..Len(c)
       PROVE  /\ CommandFits(c[i], HeaderEnd(t), t.size)
              /\ c[i].cmd = "segment" => c[i].fileoff + c[i].filesize <= K
  <2>2. CASE i = m
    <3>1. c[m] \notin CodeSignature
      BY <1>19, CodeSignatureParts
    <3>2. c[m].size >= 72 /\ c[m].size % 4 = 0 /\ c[m].fileoff + c[m].filesize <= t.size
      BY <1>5, <1>11, <1>15, <1>19, <1>25
    <3>3. c[m].size >= 8
      BY <1>5, <1>19, <3>2
    <3> QED BY <1>19, <1>24, <1>25, <2>2, <3>1, <3>2, <3>3, FitsParts
  <2>3. CASE i # m
    <3> DEFINE j == Down(i, k)
    <3>1. c[i] = b[j] /\ j \in 1..Len(b) /\ b[j] \in Command /\ j # k /\ j # l
          /\ CommandFits(b[j], HeaderEnd(s), s.size)
      BY <1>6, <1>18, <2>3
    <3> HIDE DEF j
    <3>2. b[j] \notin CodeSignature
      BY <1>7, <3>1, CodeSignatureParts
    <3>3. b[j].size >= 8 /\ b[j].size % 4 = 0 /\ (b[j] \in Segment => b[j].size >= 72)
      BY <1>6, <3>1, FitsParts
    <3>4. b[j].cmd = "segment" => b[j].fileoff + b[j].filesize <= K
      BY <1>8, <3>1
    <3>5. b[j] \in Segment => b[j].fileoff + b[j].filesize <= t.size
      BY <1>25, <3>4, SegmentParts
    <3> QED BY <1>24, <1>25, <3>1, <3>2, <3>3, <3>4, <3>5, FitsParts
  <2> QED BY <2>2, <2>3
<1>27. Consistent(t)
  <2>1. t.ncmds = Len(c) /\ SizeOf(c) = t.sizeofcmds
    BY <1>6, <1>9, <1>18, <1>24
  <2> QED BY <1>18, <1>21, <1>25, <1>26, <2>1 DEF Consistent, HeaderEnd, c
<1>28. Good(t)
  <2>1. t.len \in Nat
    <3>1. {s.len, K} \in SUBSET Nat /\ {s.len, K} # {}
      BY <1>2, <1>6
    <3>2. Min({s.len, K}) \in {s.len, K}
      BY <3>1, MinIs
    <3> QED BY <1>9, <3>1, <3>2
  <2>2. t.ncmds \in Nat /\ t.sizeofcmds \in Nat
    BY <1>6, <1>9, <1>18, <1>24
  <2>3. IsSlice(t)
    BY <1>9, <1>18, <1>25, <2>1, <2>2 DEF IsSlice, c
  <2> QED BY <1>9, <1>10, <1>27, <2>3 DEF Good
<1>29. Kept(t) = K
  BY <1>21, <1>25, <1>28, KeptIs
<1>30. Tidy(t)
  BY <1>26, <1>29 DEF Tidy, c
<1>31. c[m].filesize + b[l].fileoff = t.size /\ c[m].vmsize >= c[m].filesize /\ m # 0
  BY <1>5, <1>15, <1>16, <1>18, <1>19, <1>25
<1>32. Shortened(b, c[m].filesize, c[m].vmsize, c, k, l)
  BY <1>17, <1>19
<1> QED BY <1>9, <1>12, <1>21, <1>22, <1>24, <1>25, <1>28, <1>29, <1>30, <1>31, <1>32
     DEF Stripped, t, c, b, K, l, k, m
-----------------------------------------------------------------------------
(* The commands without the signature's. *)

Count(s) == IF Sig(s) # 0 THEN Len(s.cmds) - 1 ELSE Len(s.cmds)
Place(s, i) == IF Sig(s) # 0 THEN Down(i, Sig(s)) ELSE i

\* Command i of s, its link-edit segment resized to nothing.
Rest(s, i) == IF i = Link(s) THEN Resized(s.cmds[i], 0, 0) ELSE s.cmds[i]

\* The last resizing counts.
LEMMA ResizedTwice ==
  ASSUME NEW c, NEW z, NEW v
  PROVE  Resized(Resized(c, z, v), 0, 0) = Resized(c, 0, 0)
BY DEF Resized

\* Removing a command from a list of commands.
LEMMA WithoutIs ==
  ASSUME NEW b \in Seq(Command), NEW k \in 1..Len(b)
  PROVE  /\ Without(b, k) \in Seq(Command) /\ Len(Without(b, k)) = Len(b) - 1
         /\ \A i \in 1..(Len(b) - 1) :
              Without(b, k)[i] = b[Down(i, k)] /\ Down(i, k) \in 1..Len(b) /\ Down(i, k) # k
<1> DEFINE o == Without(b, k)
           n == Len(b) - 1
<1>1. Len(b) \in Nat /\ n \in Nat /\ \A i \in 1..Len(b) : b[i] \in Command
  OBVIOUS
<1>2. ASSUME NEW i \in 1..n PROVE Down(i, k) \in 1..Len(b) /\ Down(i, k) # k
  BY <1>1 DEF Down
<1>3. o = [i \in 1..n |-> b[Down(i, k)]]
  BY DEF Without, Down
<1>4. \A i \in 1..n : o[i] = b[Down(i, k)] /\ o[i] \in Command
  BY <1>1, <1>2, <1>3
<1>5. o = [i \in 1..n |-> o[i]]
  BY <1>3
<1> HIDE DEF o, n
<1>6. [i \in 1..n |-> o[i]] \in Seq(Command) /\ Len([i \in 1..n |-> o[i]]) = n
  BY <1>1, <1>4
<1>7. o \in Seq(Command) /\ Len(o) = n
  BY <1>5, <1>6
<1> QED BY <1>2, <1>4, <1>7 DEF o, n

\* The first __LINKEDIT segment of a list of commands.
LEMMA FirstLink ==
  ASSUME NEW c \in Seq(Command)
  PROVE  LET f == FirstOf(Segments(c, "__LINKEDIT"))
         IN  /\ f # 0 => /\ f \in 1..Len(c) /\ Named(c, f, "__LINKEDIT")
                         /\ \A i \in 1..Len(c) : i < f => ~Named(c, i, "__LINKEDIT")
             /\ f = 0 => \A i \in 1..Len(c) : ~Named(c, i, "__LINKEDIT")
             /\ f \in Nat
<1> DEFINE P == Segments(c, "__LINKEDIT")
           f == FirstOf(P)
<1>1. /\ P \in SUBSET (Nat \ {0}) /\ Len(c) \in Nat
      /\ \A i : i \in P <=> i \in 1..Len(c) /\ Named(c, i, "__LINKEDIT")
  BY Numbered
<1> HIDE DEF P
<1>2. /\ f \in Nat
      /\ f = 0 <=> P = {}
      /\ P # {} => f \in P /\ \A k \in P : f <= k
  BY <1>1, FirstOfIs
<1> HIDE DEF f
<1>3. f # 0 => f \in 1..Len(c) /\ Named(c, f, "__LINKEDIT")
  BY <1>1, <1>2
<1>4. f # 0 => \A i \in 1..Len(c) : i < f => ~Named(c, i, "__LINKEDIT")
  <2> SUFFICES ASSUME f # 0, NEW i \in 1..Len(c), i < f, i \in P PROVE FALSE
    BY <1>1
  <2>1. f <= i /\ i \in Nat
    BY <1>1, <1>2
  <2> QED BY <1>2, <2>1
<1>5. f = 0 => \A i \in 1..Len(c) : ~Named(c, i, "__LINKEDIT")
  BY <1>1, <1>2
<1> QED BY <1>2, <1>3, <1>4, <1>5 DEF f, P

\* The commands without the signature command, by their positions in the slice.
LEMMA UnsignedIs ==
  ASSUME NEW s, Good(s)
  PROVE  /\ Unsigned(s.cmds) = [i \in 1..Count(s) |-> Rest(s, Place(s, i))]
         /\ Count(s) \in Nat
         /\ \A i \in 1..Count(s) : Place(s, i) \in 1..Len(s.cmds) /\ Place(s, i) # Sig(s)
<1> DEFINE b == s.cmds
           P == Positions(b, "signature")
<1>1. b \in Seq(Command) /\ Len(b) \in Nat /\ DOMAIN b = 1..Len(b) /\ IsSlice(s)
  BY GoodParts DEF Good
<1>2. P \in SUBSET (Nat \ {0})
  BY <1>1, Numbered
<1>3. Sig(s) = 0 <=> P = {}
  BY <1>2, FirstOfIs DEF Sig
<1>4. Sig(s) \in 0..Len(b) /\ (Sig(s) # 0 => Sig(s) \in 1..Len(b))
  BY SigOf
<1>5. CASE Sig(s) = 0
  <2>1. Unsigned(b) = [i \in 1..Len(b) |-> Rest(s, i)]
    BY <1>1, <1>3, <1>5 DEF Unsigned, Rest, Link
  <2>2. \A i \in 1..Len(b) : i # 0
    BY <1>1
  <2> QED BY <1>1, <1>5, <2>1, <2>2 DEF Count, Place
<1>6. CASE Sig(s) # 0
  <2>1. Min(P) = Sig(s)
    BY <1>3, <1>6 DEF Sig, FirstOf
  <2> DEFINE o == Without(b, Sig(s))
             n == Len(b) - 1
             f == FirstOf(Segments(o, "__LINKEDIT"))
             D(i) == Down(i, Sig(s))
  <2>2. /\ o \in Seq(Command) /\ Len(o) = n
        /\ \A i \in 1..n : o[i] = b[D(i)] /\ D(i) \in 1..Len(b) /\ D(i) # Sig(s)
    BY <1>1, <1>4, <1>6, WithoutIs
  <2>3. Unsigned(b) = [i \in DOMAIN o |-> IF i = f THEN Resized(o[i], 0, 0) ELSE o[i]]
    BY <1>3, <1>6, <2>1 DEF Unsigned
  <2>4. /\ f # 0 => /\ f \in 1..Len(o) /\ Named(o, f, "__LINKEDIT")
                    /\ \A i \in 1..Len(o) : i < f => ~Named(o, i, "__LINKEDIT")
        /\ f = 0 => \A i \in 1..Len(o) : ~Named(o, i, "__LINKEDIT")
        /\ f \in Nat
    BY <2>2, FirstLink
  <2>5. /\ Link(s) # 0 => /\ Link(s) \in 1..Len(b) /\ Named(b, Link(s), "__LINKEDIT")
                          /\ \A i \in 1..Len(b) : i < Link(s) => ~Named(b, i, "__LINKEDIT")
        /\ Link(s) = 0 => \A i \in 1..Len(b) : ~Named(b, i, "__LINKEDIT")
    BY <1>1, LinkOf
  <2>6. n \in Nat /\ Len(b) = n + 1 /\ Sig(s) \in 1..(n + 1) /\ b[Sig(s)].cmd = "signature"
    BY <1>1, <1>4, <1>6, SigOf, CodeSignatureParts
  <2> HIDE DEF o, f, n, b
  <2>7. \A i \in 1..n : Named(o, i, "__LINKEDIT") <=> Named(b, D(i), "__LINKEDIT")
    BY <2>2 DEF Named
  <2>8. ASSUME NEW i \in 1..n PROVE i = f <=> D(i) = Link(s)
    <3>1. ASSUME i = f PROVE D(i) = Link(s)
      <4>1. f # 0 /\ Named(b, D(i), "__LINKEDIT") /\ D(i) \in 1..Len(b)
        BY <2>2, <2>4, <2>6, <2>7, <3>1
      <4>2. Link(s) # 0 /\ ~(D(i) < Link(s)) /\ Link(s) \in 1..Len(b) /\ Named(b, Link(s), "__LINKEDIT")
        BY <2>5, <4>1
      <4>3. Link(s) # Sig(s)
        BY <2>6, <4>2 DEF Named
      <4> DEFINE m == Up(Link(s), Sig(s))
      <4>4. m \in 1..n /\ D(m) = Link(s)
        BY <2>6, <4>2, <4>3 DEF Up, Down
      <4>5. Named(o, m, "__LINKEDIT")
        BY <2>7, <4>2, <4>4
      <4> HIDE DEF m
      <4>6. ~(m < f)
        BY <2>2, <2>4, <4>1, <4>4, <4>5
      <4>7. i <= m
        BY <2>4, <2>6, <3>1, <4>4, <4>6
      <4>8. D(i) <= D(m)
        BY <2>6, <4>4, <4>7 DEF Down
      <4> QED BY <2>6, <4>1, <4>2, <4>4, <4>8
    <3>2. ASSUME D(i) = Link(s) PROVE i = f
      <4>1. Link(s) # 0 /\ D(i) \in 1..Len(b)
        BY <2>2, <2>6, <3>2
      <4>2. Named(b, D(i), "__LINKEDIT")
        BY <2>5, <3>2, <4>1
      <4>3. Named(o, i, "__LINKEDIT")
        BY <2>7, <4>2
      <4>4. f # 0 /\ ~(i < f) /\ f \in 1..n /\ Named(o, f, "__LINKEDIT")
        BY <2>2, <2>4, <4>3
      <4>5. Named(b, D(f), "__LINKEDIT") /\ D(f) \in 1..Len(b)
        BY <2>2, <2>7, <4>4
      <4>6. ~(D(f) < D(i))
        BY <2>5, <3>2, <4>1, <4>5
      <4> QED BY <2>6, <4>4, <4>6 DEF Down
    <3> QED BY <3>1, <3>2
  <2>9. DOMAIN o = 1..n
    BY <2>2
  <2>10. Unsigned(b) = [i \in 1..n |-> Rest(s, D(i))]
    <3>1. ASSUME NEW i \in 1..n
          PROVE  (IF i = f THEN Resized(o[i], 0, 0) ELSE o[i]) = Rest(s, D(i))
      BY <2>2, <2>8 DEF Rest, b
    <3> HIDE DEF D
    <3> QED BY <2>3, <2>9, <3>1
  <2> QED BY <1>6, <2>2, <2>6, <2>10 DEF Count, Place, n, b
<1> QED BY <1>5, <1>6

\* Signing keeps the other commands.
LEMMA SignedUnsigned ==
  ASSUME NEW s, Good(s), Link(s) # 0, NEW d, NEW t, SignedAs(s, d, t)
  PROVE  Unsigned(t.cmds) = Unsigned(s.cmds)
<1> DEFINE b == s.cmds
           c == t.cmds
           k == NewSig(s)
           l == Link(s)
<1>1. Good(t) /\ Sig(t) = k /\ k # 0
  BY DEF SignedAs
<1>2. /\ Len(c) = Len(b) + (IF Sig(s) # 0 THEN 0 ELSE 1)
      /\ l \in 1..Len(b) /\ \E z, v : c[l] = Resized(b[l], z, v)
      /\ \A i \in 1..Len(b) : i # k /\ i # l => c[i] = b[i]
  BY DEF SignedAs, Relinked
<1>3. b[l] \in Segment /\ b[l].name = "__LINKEDIT" /\ Len(b) \in Nat /\ Len(c) \in Nat
  <2>1. IsSlice(s)
    BY DEF Good
  <2>2. Named(b, l, "__LINKEDIT") /\ b[l] \in Segment
    BY <2>1, LinkOf
  <2> QED BY <1>1, <2>2, GoodParts DEF Named
<1>4. Link(t) = l /\ Resized(c[l], 0, 0) = Resized(b[l], 0, 0)
  BY <1>2, ResizedTwice DEF SignedAs
<1>5. Count(t) = Count(s) /\ Count(s) \in Nat
  <2>1. Len(c) = Len(b) + (IF Sig(s) # 0 THEN 0 ELSE 1)
    BY <1>2
  <2>2. Count(t) = Len(c) - 1
    BY <1>1 DEF Count
  <2>3. Count(s) = IF Sig(s) # 0 THEN Len(b) - 1 ELSE Len(b)
    BY DEF Count
  <2>4. Count(s) \in Nat
    BY UnsignedIs
  <2> HIDE DEF b, c
  <2> QED BY <1>3, <2>1, <2>2, <2>3, <2>4
<1>6. ASSUME NEW i \in 1..Count(s) PROVE Rest(t, Place(t, i)) = Rest(s, Place(s, i))
  <2>1. Place(t, i) = Place(s, i) /\ Place(s, i) \in 1..Len(b)
    <3>1. Place(s, i) \in 1..Len(b)
      BY UnsignedIs
    <3>2. CASE Sig(s) # 0
      BY <1>1, <3>1, <3>2 DEF Place, NewSig
    <3>3. CASE Sig(s) = 0
      BY <1>1, <1>3, <3>1, <3>3 DEF Place, NewSig, Down, Count
    <3> QED BY <3>2, <3>3
  <2>2. Place(t, i) # k
    BY <1>1, <1>5, UnsignedIs
  <2>3. CASE Place(s, i) = l
    BY <1>4, <2>1, <2>3 DEF Rest
  <2>4. CASE Place(s, i) # l
    <3>1. c[Place(s, i)] = b[Place(s, i)]
      BY <1>2, <2>1, <2>2, <2>4
    <3> QED BY <1>4, <2>1, <2>4, <3>1 DEF Rest
  <2> QED BY <2>3, <2>4
<1>7. /\ Unsigned(c) = [i \in 1..Count(t) |-> Rest(t, Place(t, i))]
      /\ Unsigned(b) = [i \in 1..Count(s) |-> Rest(s, Place(s, i))]
  BY <1>1, UnsignedIs
<1> HIDE DEF b, c
<1> QED BY <1>5, <1>6, <1>7 DEF b, c

\* Stripping keeps the other commands.
LEMMA StrippedUnsigned ==
  ASSUME NEW s, Good(s), Sig(s) # 0, Link(s) # 0, NEW t, Stripped(s, t)
  PROVE  Unsigned(t.cmds) = Unsigned(s.cmds)
<1> DEFINE b == s.cmds
           c == t.cmds
           k == Sig(s)
           l == Link(s)
           m == Up(l, k)
<1>1. Good(t) /\ Sig(t) = 0
  BY DEF Stripped
<1>2. /\ Len(c) = Len(b) - 1
      /\ \E z, v : c[m] = Resized(b[l], z, v)
      /\ \A i \in 1..Len(c) : i # m => c[i] = b[Down(i, k)] /\ Down(i, k) # l
  BY DEF Stripped, Shortened
<1>3. b[l] \in Segment /\ b[l].name = "__LINKEDIT" /\ l \in 1..Len(b) /\ Len(b) \in Nat /\ Len(c) \in Nat
  <2>1. IsSlice(s)
    BY DEF Good
  <2>2. Named(b, l, "__LINKEDIT") /\ b[l] \in Segment /\ l \in 1..Len(b)
    BY <2>1, LinkOf
  <2> QED BY <1>1, <2>2, GoodParts DEF Named
<1>4. Link(t) = m /\ Resized(c[m], 0, 0) = Resized(b[l], 0, 0)
  BY <1>2, ResizedTwice DEF Stripped
<1>5. k \in 1..Len(b) /\ b[k] \in CodeSignature
  BY SigOf
<1>6. k # l
  BY <1>3, <1>5, SegmentParts, CodeSignatureParts
<1>7. Down(m, k) = l
  BY <1>3, <1>5, <1>6 DEF Up, Down
<1>8. Count(t) = Count(s) /\ Count(s) = Len(c)
  BY <1>1, <1>2 DEF Count
<1>9. ASSUME NEW i \in 1..Count(s) PROVE Rest(t, Place(t, i)) = Rest(s, Place(s, i))
  <2>1. Place(t, i) = i /\ Place(s, i) = Down(i, k)
    BY <1>1 DEF Place
  <2>2. CASE i = m
    BY <1>4, <1>7, <2>1, <2>2 DEF Rest
  <2>3. CASE i # m
    <3>1. c[i] = b[Down(i, k)] /\ Down(i, k) # l
      BY <1>2, <1>8, <2>3
    <3> QED BY <1>4, <2>1, <2>3, <3>1 DEF Rest
  <2> QED BY <2>2, <2>3
<1>10. /\ Unsigned(c) = [i \in 1..Count(t) |-> Rest(t, Place(t, i))]
       /\ Unsigned(b) = [i \in 1..Count(s) |-> Rest(s, Place(s, i))]
  BY <1>1, UnsignedIs
<1> HIDE DEF b, c
<1> QED BY <1>8, <1>9, <1>10 DEF b, c
-----------------------------------------------------------------------------
(* The versions of a slice. *)

\* A slice as Regular asks for it.
Sound(s) ==
  /\ Behind(s.cmds, s.size, HeaderEnd(s))
  /\ Link(s) # 0 => s.cmds[Link(s)].fileoff >= HeaderEnd(s)
  /\ Kept(s) >= 0 => s.len <= Kept(s) /\ Tidy(s)

\* A slice as the library leaves it.
Finished(s) ==
  /\ Link(s) # 0 /\ s.cmds[Link(s)].fileoff <= Kept(s)
  /\ s.cmds[Link(s)].fileoff + s.cmds[Link(s)].filesize = s.size
  /\ s.cmds[Link(s)].vmsize >= s.cmds[Link(s)].filesize
  /\ Sig(s) = 0 => Behind(s.cmds, s.size, HeaderEnd(s) + 16)

\* The signature command is of 16 bytes and the last one.
AtEnd(s) == \A i \in Positions(s.cmds, "signature") :
              s.cmds[i].size = SignatureCommandSize /\ i = Len(s.cmds)

\* Slice s was signed or stripped since it was o.
Touched(o, s) ==
  /\ Kept(o) >= 0 /\ Kept(s) \in {Kept(o), Align16(Kept(o))}
  /\ Finished(s)
  /\ Sig(o) = 0 => Signable(o)
  /\ AtEnd(o) => AtEnd(s)

\* Slice s is what signing, stripping and edits made of o.
Version(o, s) ==
  /\ Good(s) /\ Sound(s)
  /\ s.cpu = o.cpu /\ s.len = o.len /\ Unsigned(s.cmds) = Unsigned(o.cmds)
  /\ (Alike(o, s) /\ s.blob = o.blob) \/ Touched(o, s)

\* What is asked of the original, by the parts of the slice.
LEMMA RegularSound ==
  ASSUME NEW s, Good(s), Regular(s)
  PROVE  Sound(s)
<1>1. LET layout == ParseMachOSlice(s)
      IN  /\ layout.ok /\ layout.supported
          /\ layout.header_end = HeaderEnd(s) /\ layout.first_content = FirstContent(s.cmds, s.size)
          /\ layout.linkedit = Link(s)
  BY ParseGood DEF Good
<1>2. HeaderEnd(s) \in Nat /\ s.cmds \in Seq(Command) /\ s.size \in Nat
  BY GoodParts
<1>3. FirstContent(s.cmds, s.size) >= HeaderEnd(s) <=> Behind(s.cmds, s.size, HeaderEnd(s))
  BY <1>2, FirstContentIs
<1>4. /\ FirstContent(s.cmds, s.size) >= HeaderEnd(s)
      /\ Link(s) # 0 => s.cmds[Link(s)].fileoff >= HeaderEnd(s)
      /\ Kept(s) >= 0 =>
           /\ s.len <= Kept(s)
           /\ \A i \in Positions(s.cmds, "segment") : i # Link(s) =>
                s.cmds[i].fileoff + s.cmds[i].filesize <= Kept(s)
  BY <1>1 DEF Regular
<1>5. \A i \in 1..Len(s.cmds) : s.cmds[i].cmd = "segment" => i \in Positions(s.cmds, "segment")
  BY <1>2, Numbered
<1> QED BY <1>3, <1>4, <1>5 DEF Sound, Tidy

\* A slice as the library leaves it can be signed.
LEMMA FinishedSignable ==
  ASSUME NEW s, Good(s), Finished(s), Kept(s) >= 0
  PROVE  Signable(s) /\ EndsWithLinkedit(s)
<1>1. Signable(s)
  BY SignableIs DEF Finished
<1>2. ParseMachOSlice(s).linkedit = Link(s)
  BY ParseGood DEF Good
<1> QED BY <1>1, <1>2 DEF Finished, EndsWithLinkedit, Signable, SignableAs

\* None of these depends on the code or on the signature data.
LEMMA AlikeVersion ==
  ASSUME NEW s, NEW t, Alike(s, t)
  PROVE  /\ Sound(s) => Sound(t)
         /\ Finished(s) => Finished(t)
         /\ AtEnd(s) => AtEnd(t)
         /\ Signable(s) <=> Signable(t)
<1>1. /\ Sig(t) = Sig(s) /\ Link(t) = Link(s) /\ HeaderEnd(t) = HeaderEnd(s)
      /\ Kept(t) = Kept(s) /\ (Tidy(s) => Tidy(t)) /\ ParseMachOSlice(t) = ParseMachOSlice(s)
  BY AlikeSame, AlikeParse
<1>2. t.len = s.len /\ t.size = s.size /\ t.cmds = s.cmds
  BY DEF Alike
<1>3. Sound(s) => Sound(t)
  BY <1>1, <1>2 DEF Sound
<1>4. Finished(s) => Finished(t)
  BY <1>1, <1>2 DEF Finished
<1>5. AtEnd(s) => AtEnd(t)
  BY <1>2 DEF AtEnd
<1>6. Signable(s) <=> Signable(t)
  BY <1>1, <1>2 DEF Signable, SignableAs
<1> QED BY <1>3, <1>4, <1>5, <1>6

\* Any slice is a version of itself, and with other code it stays the version it is.
LEMMA VersionSelf ==
  ASSUME NEW o, Good(o), Sound(o)
  PROVE  Version(o, o)
<1>1. Alike(o, o)
  BY DEF Good, IsSlice, Alike
<1> QED BY <1>1 DEF Version

\* After a change of the code a slice is a version of the same original.
LEMMA RecodedVersion ==
  ASSUME NEW o, NEW s, Version(o, s), NEW x
  PROVE  Version(o, Recoded(s, x))
<1> DEFINE t == Recoded(s, x)
<1>1. Alike(s, t) /\ t.blob = s.blob
  BY RecodedAlike
<1>2. /\ Good(s) /\ Sound(s) /\ s.cpu = o.cpu /\ s.len = o.len /\ Unsigned(s.cmds) = Unsigned(o.cmds)
      /\ (Alike(o, s) /\ s.blob = o.blob) \/ Touched(o, s)
  BY DEF Version
<1> HIDE DEF t
<1>3. t.cpu = s.cpu /\ t.len = s.len /\ t.cmds = s.cmds
  BY <1>1 DEF Alike
<1>4. Good(t) /\ Kept(t) = Kept(s)
  BY <1>1, <1>2, AlikeSame
<1>5. Sound(t) /\ (Finished(s) => Finished(t)) /\ (AtEnd(s) => AtEnd(t))
  BY <1>1, <1>2, AlikeVersion
<1>6. Alike(o, s) => Alike(o, t)
  BY <1>1 DEF Alike
<1>7. Touched(o, s) => Touched(o, t)
  BY <1>4, <1>5 DEF Touched
<1> QED BY <1>1, <1>2, <1>3, <1>4, <1>5, <1>6, <1>7 DEF Version, t
\* After signing, all data is behind the load commands.
LEMMA SignedBehind ==
  ASSUME NEW s, Good(s), Sound(s), Signable(s), NEW d \in Nat, NEW t, SignedAs(s, d, t)
  PROVE  /\ Behind(t.cmds, t.size, HeaderEnd(t))
         /\ t.cmds[Link(t)].fileoff >= HeaderEnd(t)
         /\ t.cmds[Link(t)].fileoff + t.cmds[Link(t)].filesize = t.size
         /\ t.cmds[Link(t)].vmsize >= t.cmds[Link(t)].filesize
         /\ t.cmds[Link(t)].fileoff = s.cmds[Link(s)].fileoff
<1> DEFINE b == s.cmds
           c == t.cmds
           K == Align16(Kept(s))
           k == NewSig(s)
           l == Link(s)
           h == HeaderEnd(t)
           z == K + d - b[l].fileoff
           v == AlignUp(z, VmPage(s))
<1>1. /\ Kept(s) >= 0 /\ l # 0 /\ b[l].fileoff <= Kept(s)
      /\ b[l].fileoff + b[l].filesize = s.size
      /\ Sig(s) = 0 => Behind(b, s.size, HeaderEnd(s) + 16)
  BY SignableIs
<1>2. Behind(b, s.size, HeaderEnd(s)) /\ b[l].fileoff >= HeaderEnd(s)
  BY <1>1 DEF Sound
<1>3. HeaderEnd(s) \in Nat /\ HeaderEnd(s) >= 32 /\ s.size \in Nat /\ Len(b) \in Nat
  BY GoodParts
<1>4. /\ h = HeaderEnd(s) + (IF Sig(s) # 0 THEN 0 ELSE 16) /\ Link(t) = l /\ t.size = K + d
      /\ Good(t) /\ Kept(t) = K /\ Relinked(s, K, d, z, v, c, k, l)
      /\ z \in Nat /\ v \in Nat /\ v >= z /\ b[l].fileoff + z = t.size
  BY DEF SignedAs
<1> HIDE DEF z, v, K
<1>5. /\ k \in 1..Len(c) /\ c[k] \in CodeSignature
      /\ l \in 1..Len(b) /\ c[l] = Resized(b[l], z, v) /\ b[l] \in Segment
      /\ \A i \in 1..Len(c) : i # k => i \in 1..Len(b)
      /\ \A i \in 1..Len(b) : i # k /\ i # l => c[i] = b[i]
  BY <1>4 DEF Relinked
<1>6. h \in Nat /\ Behind(b, s.size, h)
  <2>1. CASE Sig(s) # 0
    BY <1>2, <1>3, <1>4, <2>1
  <2>2. CASE Sig(s) = 0
    BY <1>1, <1>3, <1>4, <2>2
  <2> QED BY <2>1, <2>2
<1>7. b[l].name = "__LINKEDIT" /\ b[l].cmd = "segment" /\ b[l].fileoff \in Nat /\ b[l].filesize \in Nat
  <2>1. IsSlice(s)
    BY DEF Good
  <2>2. Named(b, l, "__LINKEDIT")
    BY <1>1, <2>1, LinkOf
  <2> QED BY <1>5, <2>2, SegmentParts DEF Named
<1>8. b[l].fileoff >= h
  <2>1. CASE b[l].filesize > 0
    <3>1. b[l].name # "__TEXT" /\ b[l].filesize > 0 /\ b[l].fileoff > 0 => b[l].fileoff >= h
      BY <1>5, <1>6, <1>7 DEF Behind
    <3>2. b[l].fileoff > 0
      BY <1>2, <1>3, <1>7
    <3>3. b[l].name # "__TEXT"
      BY <1>7
    <3> QED BY <2>1, <3>1, <3>2, <3>3
  <2>2. CASE b[l].filesize = 0
    <3>1. s.size >= h
      BY <1>6 DEF Behind
    <3> QED BY <1>1, <1>7, <2>2, <3>1
  <2> QED BY <1>7, <2>1, <2>2
<1>9. /\ c[l].cmd = "segment" /\ c[l].name = "__LINKEDIT" /\ c[l].fileoff = b[l].fileoff
      /\ c[l].filesize = z /\ c[l].vmsize = v /\ c[l].sections = b[l].sections
  BY <1>5, <1>7 DEF Resized
<1>10. h <= t.size
  BY <1>4, GoodParts
<1>11. ASSUME NEW i \in 1..Len(c), c[i].cmd = "segment"
       PROVE  /\ c[i].name # "__TEXT" /\ c[i].filesize > 0 /\ c[i].fileoff > 0 => c[i].fileoff >= h
              /\ \A x \in c[i].sections : x >= h
  <2>1. i # k
    BY <1>5, <1>11, CodeSignatureParts
  <2>2. CASE i = l
    <3>1. \A x \in b[l].sections : x >= h
      BY <1>5, <1>6, <1>7 DEF Behind
    <3> QED BY <1>8, <1>9, <2>2, <3>1
  <2>3. CASE i # l
    <3>1. c[i] = b[i] /\ i \in 1..Len(b)
      BY <1>5, <2>1, <2>3
    <3> QED BY <1>6, <1>11, <3>1 DEF Behind
  <2> QED BY <2>2, <2>3
<1>12. Behind(c, t.size, h)
  <2>1. t.size >= h
    BY <1>4, <1>6, <1>10, GoodParts
  <2> QED BY <1>11, <2>1 DEF Behind
<1> QED BY <1>4, <1>8, <1>9, <1>12

\* After signing a slice is a version of the same original.
LEMMA SignedVersion ==
  ASSUME NEW o, NEW s, Good(o), Version(o, s), Signable(s), NEW d \in Nat, d > 0
  PROVE  /\ SignedAs(s, d, Reserved(s, d))
         /\ Version(o, Reserved(s, d)) /\ Touched(o, Reserved(s, d))
<1> DEFINE t == Reserved(s, d)
           K == Align16(Kept(s))
<1>1. /\ Good(s) /\ Sound(s) /\ s.cpu = o.cpu /\ s.len = o.len /\ Unsigned(s.cmds) = Unsigned(o.cmds)
      /\ (Alike(o, s) /\ s.blob = o.blob) \/ Touched(o, s)
  BY DEF Version
<1>2. /\ Kept(s) >= 0 /\ Link(s) # 0 /\ s.cmds[Link(s)].fileoff <= Kept(s)
      /\ Kept(s) \in Nat /\ s.len \in Nat /\ s.len <= Kept(s) /\ Tidy(s)
  BY <1>1, SignableIs, KeptIs, GoodParts DEF Sound
<1>3. SignedAs(s, d, t)
  BY <1>1, <1>2, ReservedGood
<1> HIDE DEF t
<1>4. /\ Good(t) /\ Sig(t) = NewSig(s) /\ Sig(t) # 0 /\ Link(t) = Link(s)
      /\ Kept(t) = K /\ Tidy(t) /\ t.cpu = s.cpu /\ t.len = Min({s.len, Kept(s)})
  BY <1>3 DEF SignedAs
<1>5. t.len = s.len
  BY <1>2, <1>4, MinOfTwo
<1>6. Unsigned(t.cmds) = Unsigned(s.cmds)
  BY <1>1, <1>2, <1>3, SignedUnsigned
<1>7. /\ Behind(t.cmds, t.size, HeaderEnd(t))
      /\ t.cmds[Link(t)].fileoff >= HeaderEnd(t)
      /\ t.cmds[Link(t)].fileoff + t.cmds[Link(t)].filesize = t.size
      /\ t.cmds[Link(t)].vmsize >= t.cmds[Link(t)].filesize
      /\ t.cmds[Link(t)].fileoff = s.cmds[Link(s)].fileoff
  BY <1>1, <1>3, SignedBehind
<1>8. K \in Nat /\ Kept(s) <= K /\ Align16(K) = K
  BY <1>2, Align16Facts
<1>9. Sound(t)
  BY <1>2, <1>4, <1>5, <1>7, <1>8 DEF Sound
<1>10. s.cmds[Link(s)].fileoff \in Nat
  <2>1. IsSlice(s)
    BY <1>1 DEF Good
  <2> QED BY <1>2, <2>1, LinkOf, SegmentParts
<1>11. Finished(t)
  BY <1>2, <1>4, <1>7, <1>8, <1>10 DEF Finished
<1>12. Kept(o) >= 0 /\ K = Align16(Kept(o)) /\ (Sig(o) = 0 => Signable(o))
  <2>1. CASE Alike(o, s)
    <3>1. Kept(s) = Kept(o)
      BY <2>1, AlikeSame
    <3>2. Signable(o)
      BY <2>1, AlikeVersion
    <3> QED BY <1>2, <3>1, <3>2
  <2>2. CASE Touched(o, s)
    <3>1. Kept(o) >= 0 /\ Kept(s) \in {Kept(o), Align16(Kept(o))} /\ (Sig(o) = 0 => Signable(o))
      BY <2>2 DEF Touched
    <3>2. Kept(o) \in Nat
      BY <3>1, KeptIs
    <3>3. Align16(Align16(Kept(o))) = Align16(Kept(o))
      BY <3>2, Align16Facts
    <3> QED BY <3>1, <3>3
  <2> QED BY <1>1, <2>1, <2>2
<1>13. AtEnd(s) => AtEnd(t)
  <2> SUFFICES ASSUME AtEnd(s), NEW i \in Positions(t.cmds, "signature")
               PROVE  t.cmds[i].size = 16 /\ i = Len(t.cmds)
    BY DEF AtEnd, SignatureCommandSize
  <2>1. i \in 1..Len(t.cmds) /\ t.cmds[i].cmd = "signature"
    BY <1>4, Numbered, GoodParts, ZenonT(30)
  <2>2. i = NewSig(s)
    BY <1>4, <2>1, SigOf
  <2>3. /\ t.cmds[NewSig(s)].size = IF Sig(s) # 0 THEN s.cmds[NewSig(s)].size ELSE 16
        /\ Len(t.cmds) = Len(s.cmds) + (IF Sig(s) # 0 THEN 0 ELSE 1)
    BY <1>3 DEF SignedAs, Relinked
  <2>4. Len(s.cmds) \in Nat /\ s.cmds \in Seq(Command)
    BY <1>1, GoodParts
  <2>5. CASE Sig(s) # 0
    <3>1. Sig(s) \in 1..Len(s.cmds) /\ s.cmds[Sig(s)].cmd = "signature"
      BY <1>1, <2>5, SigOf, CodeSignatureParts
    <3>2. Sig(s) \in Positions(s.cmds, "signature")
      BY <2>4, <3>1, Numbered
    <3>3. s.cmds[Sig(s)].size = 16 /\ Sig(s) = Len(s.cmds)
      BY <3>2 DEF AtEnd, SignatureCommandSize
    <3> QED BY <2>2, <2>3, <2>4, <2>5, <3>3 DEF NewSig
  <2>6. CASE Sig(s) = 0
    BY <2>2, <2>3, <2>4, <2>6 DEF NewSig
  <2> QED BY <2>5, <2>6
<1>14. AtEnd(o) => AtEnd(s)
  BY <1>1, AlikeVersion DEF Touched
<1>15. Touched(o, t)
  BY <1>4, <1>11, <1>12, <1>13, <1>14 DEF Touched
<1>16. Version(o, t)
  BY <1>1, <1>4, <1>5, <1>6, <1>9, <1>15 DEF Version
<1> QED BY <1>3, <1>15, <1>16 DEF t
\* Stripping, once StripSlice accepts the slice.
LEMMA StripIs ==
  ASSUME NEW s, Good(s), Sig(s) # 0, StripSlice(s).ok
  PROVE  /\ Kept(s) >= 0 /\ Link(s) # 0 /\ s.cmds[Link(s)].fileoff <= Kept(s)
         /\ StripSlice(s).slice = CutSlice(s, Kept(s))
<1>1. ParseMachOSlice(s).linkedit = Link(s)
  BY ParseGood DEF Good
<1>2. Kept(s) = SignatureStart(s)
  BY KeptIs
<1>3. ~(Kept(s) < 0 \/ Link(s) = 0 \/ s.cmds[Link(s)].fileoff > Kept(s))
  BY <1>1, <1>2 DEF StripSlice, Malformed
<1>4. StripSlice(s).slice = CutSlice(s, Kept(s))
  BY <1>1, <1>2, <1>3 DEF StripSlice
<1>5. Kept(s) \in Int
  BY KeptIs
<1>6. s.cmds[Link(s)].fileoff \in Nat
  <2>1. IsSlice(s)
    BY DEF Good
  <2> QED BY <1>3, <2>1, LinkOf, SegmentParts
<1> QED BY <1>3, <1>4, <1>5, <1>6

\* After stripping there is room for a signature command.
LEMMA StrippedBehind ==
  ASSUME NEW s, Good(s), Sound(s), Sig(s) # 0, Link(s) # 0, Kept(s) >= 0,
         NEW t, Stripped(s, t)
  PROVE  /\ Behind(t.cmds, t.size, HeaderEnd(t) + 16)
         /\ Behind(t.cmds, t.size, HeaderEnd(t))
         /\ t.cmds[Link(t)].fileoff >= HeaderEnd(t)
         /\ t.cmds[Link(t)].fileoff + t.cmds[Link(t)].filesize = t.size
         /\ t.cmds[Link(t)].vmsize >= t.cmds[Link(t)].filesize
         /\ t.cmds[Link(t)].fileoff = s.cmds[Link(s)].fileoff
<1> DEFINE b == s.cmds
           c == t.cmds
           k == Sig(s)
           l == Link(s)
           m == Up(l, k)
           h == HeaderEnd(s)
           z == c[m].filesize
           v == c[m].vmsize
<1>1. Behind(b, s.size, h) /\ b[l].fileoff >= h
  BY DEF Sound
<1>2. h \in Nat /\ h >= 32 /\ s.size \in Nat /\ Len(b) \in Nat /\ b[k].size \in Nat
      /\ \A i \in 1..Len(b) : b[i] \in Command
  BY GoodParts, SigOf, CodeSignatureParts
<1>3. /\ Good(t) /\ Link(t) = m /\ t.size = Kept(s) /\ HeaderEnd(t) + b[k].size = h /\ b[k].size >= 16
      /\ z + b[l].fileoff = t.size /\ v >= z /\ Shortened(b, z, v, c, k, l)
  BY DEF Stripped
<1>4. /\ m \in 1..Len(c) /\ c[m] = Resized(b[l], z, v)
      /\ \A i \in 1..Len(c) : i # m => c[i] = b[Down(i, k)] /\ Down(i, k) \in 1..Len(b)
  BY <1>3 DEF Shortened
<1>5. b[l] \in Segment /\ l \in 1..Len(b)
  <2>1. IsSlice(s)
    BY DEF Good
  <2> QED BY <2>1, LinkOf
<1>6. c[m].fileoff = b[l].fileoff /\ c[m].sections = b[l].sections
  BY <1>4 DEF Resized
<1>7. b[l].fileoff \in Nat /\ b[l].sections \in SUBSET Nat /\ b[l].cmd = "segment"
  BY <1>5, SegmentParts
<1>8. Kept(s) \in Nat /\ h <= Kept(s) /\ HeaderEnd(t) \in Nat
  BY <1>3, KeptIs, GoodParts
<1>9. z \in Nat
  <2>1. c[m] \in Command
    BY <1>3, <1>4, GoodParts
  <2>2. c[m].cmd = "segment"
    BY <1>4, <1>7 DEF Resized
  <2> QED BY <2>1, <2>2, Kinds, SegmentParts
<1>10. ASSUME NEW g \in Nat, g <= h PROVE Behind(c, t.size, g)
  <2>1. t.size >= g
    BY <1>2, <1>3, <1>8, <1>10
  <2>2. ASSUME NEW i \in 1..Len(c), c[i].cmd = "segment"
        PROVE  /\ c[i].name # "__TEXT" /\ c[i].filesize > 0 /\ c[i].fileoff > 0 => c[i].fileoff >= g
               /\ \A x \in c[i].sections : x >= g
    <3>1. CASE i = m
      <4>1. \A x \in b[l].sections : x >= h
        BY <1>1, <1>5, <1>7 DEF Behind
      <4>2. b[l].fileoff >= g
        BY <1>1, <1>2, <1>7, <1>10
      <4>3. \A x \in b[l].sections : x >= g
        BY <1>2, <1>7, <1>10, <4>1
      <4> QED BY <1>6, <3>1, <4>2, <4>3
    <3>2. CASE i # m
      <4> DEFINE j == Down(i, k)
      <4>1. c[i] = b[j] /\ j \in 1..Len(b)
        BY <1>4, <3>2
      <4> HIDE DEF j
      <4>2. b[j] \in Segment /\ b[j].fileoff \in Nat /\ b[j].sections \in SUBSET Nat
        BY <1>2, <2>2, <4>1, Kinds, SegmentParts
      <4>3. /\ b[j].name # "__TEXT" /\ b[j].filesize > 0 /\ b[j].fileoff > 0 => b[j].fileoff >= h
            /\ \A x \in b[j].sections : x >= h
        BY <1>1, <2>2, <4>1 DEF Behind
      <4>4. b[j].fileoff >= h => b[j].fileoff >= g
        BY <1>2, <1>10, <4>2
      <4>5. \A x \in b[j].sections : x >= g
        BY <1>2, <1>10, <4>2, <4>3
      <4> QED BY <4>1, <4>3, <4>4, <4>5
    <3> QED BY <3>1, <3>2
  <2> QED BY <2>1, <2>2 DEF Behind
<1>11. HeaderEnd(t) + 16 \in Nat /\ HeaderEnd(t) + 16 <= h /\ HeaderEnd(t) <= h
  BY <1>2, <1>3, <1>8, SMTT(30)
<1>12. Behind(c, t.size, HeaderEnd(t) + 16) /\ Behind(c, t.size, HeaderEnd(t))
  BY <1>8, <1>10, <1>11
<1>13. c[m].fileoff >= HeaderEnd(t)
  BY <1>1, <1>2, <1>6, <1>7, <1>8, <1>11
<1>14. c[m].fileoff + c[m].filesize = t.size
  BY <1>3, <1>6, <1>7, <1>9
<1> QED BY <1>3, <1>6, <1>12, <1>13, <1>14

\* After stripping a slice is a version of the same original.
LEMMA StrippedVersion ==
  ASSUME NEW o, NEW s, Good(o), Version(o, s), Sig(s) # 0, StripSlice(s).ok
  PROVE  LET t == StripSlice(s).slice
         IN  Version(o, t) /\ Touched(o, t) /\ Sig(t) = 0
<1> DEFINE t == StripSlice(s).slice
           K == Kept(s)
<1>1. /\ Good(s) /\ Sound(s) /\ s.cpu = o.cpu /\ s.len = o.len /\ Unsigned(s.cmds) = Unsigned(o.cmds)
      /\ (Alike(o, s) /\ s.blob = o.blob) \/ Touched(o, s)
  BY DEF Version
<1>2. /\ K >= 0 /\ Link(s) # 0 /\ s.cmds[Link(s)].fileoff <= K /\ t = CutSlice(s, K)
      /\ K \in Nat /\ s.len \in Nat /\ s.len <= K /\ Tidy(s)
  BY <1>1, StripIs, KeptIs, GoodParts DEF Sound
<1>3. Stripped(s, t)
  BY <1>1, <1>2, CutGood
<1> HIDE DEF t
<1>4. /\ Good(t) /\ Sig(t) = 0 /\ Link(t) = Up(Link(s), Sig(s)) /\ Link(t) # 0
      /\ Kept(t) = K /\ Tidy(t) /\ t.cpu = s.cpu /\ t.len = Min({s.len, K})
  BY <1>3 DEF Stripped
<1>5. t.len = s.len
  BY <1>2, <1>4, MinOfTwo
<1>6. Unsigned(t.cmds) = Unsigned(s.cmds)
  BY <1>1, <1>2, <1>3, StrippedUnsigned
<1>7. /\ Behind(t.cmds, t.size, HeaderEnd(t)) /\ Behind(t.cmds, t.size, HeaderEnd(t) + 16)
      /\ t.cmds[Link(t)].fileoff >= HeaderEnd(t)
      /\ t.cmds[Link(t)].fileoff + t.cmds[Link(t)].filesize = t.size
      /\ t.cmds[Link(t)].vmsize >= t.cmds[Link(t)].filesize
      /\ t.cmds[Link(t)].fileoff = s.cmds[Link(s)].fileoff
  BY <1>1, <1>2, <1>3, StrippedBehind
<1>8. Sound(t)
  BY <1>2, <1>4, <1>5, <1>7 DEF Sound
<1>9. Finished(t)
  BY <1>2, <1>4, <1>7 DEF Finished
<1>10. Kept(o) >= 0 /\ K \in {Kept(o), Align16(Kept(o))} /\ (Sig(o) = 0 => Signable(o))
  <2>1. CASE Alike(o, s)
    BY <1>2, <2>1, AlikeSame
  <2>2. CASE Touched(o, s)
    BY <2>2 DEF Touched
  <2> QED BY <1>1, <2>1, <2>2
<1>11. AtEnd(t)
  <2> SUFFICES ASSUME NEW i \in Positions(t.cmds, "signature") PROVE FALSE
    BY DEF AtEnd
  <2>1. i \in 1..Len(t.cmds) /\ t.cmds[i].cmd = "signature" /\ i # 0
    <3>1. t.cmds \in Seq(Command) /\ Len(t.cmds) \in Nat
      BY <1>4, GoodParts
    <3>2. i \in 1..Len(t.cmds) /\ t.cmds[i].cmd = "signature"
      BY <3>1, Numbered, ZenonT(30)
    <3> QED BY <3>1, <3>2
  <2> QED BY <1>4, <2>1, SigOf
<1>12. Touched(o, t)
  BY <1>4, <1>9, <1>10, <1>11 DEF Touched
<1>13. Version(o, t)
  BY <1>1, <1>4, <1>5, <1>6, <1>8, <1>12 DEF Version
<1> QED BY <1>4, <1>12, <1>13 DEF t
-----------------------------------------------------------------------------
(* The order of the slices and where they end. *)

\* A universal file's alignments are positive.
LEMMA Powers ==
  PowerOfTwo[0] = 1 /\ \A n \in 0..31 : PowerOfTwo[n] \in Nat /\ PowerOfTwo[n] > 0
<1> DEFINE Body(g) == [n \in 0..31 |-> IF n = 0 THEN 1 ELSE 2 * g[n - 1]]
           step == [i \in 1..31 |-> [v \in Nat |-> 2 * v]]
<1>1. PowerOfTwo = CHOOSE g : g = Body(g)
  BY DEF PowerOfTwo
<1>2. PICK f \in [0..31 -> Nat] : f = Body(f)
  <2>1. step \in [1..31 -> [Nat -> Nat]]
    OBVIOUS
  <2>2. PICK f \in [0..31 -> Nat] : f[0] = 1 /\ \A i \in 1..31 : f[i] = step[i][f[i - 1]]
    <3> HIDE DEF step
    <3>1. 31 \in Nat /\ 1 \in Nat
      OBVIOUS
    <3>2. Iterable(31, Nat, 1, step)
      BY <2>1, <3>1, Iteration, Zenon
    <3> QED BY <3>2, Zenon DEF Iterable
  <2>3. ASSUME NEW i \in 0..31 PROVE f[i] = IF i = 0 THEN 1 ELSE 2 * f[i - 1]
    <3>1. CASE i = 0
      BY <2>2, <3>1
    <3>2. CASE i # 0
      <4>1. i \in 1..31 /\ i - 1 \in 0..31
        BY <3>2
      <4>2. f[i] = step[i][f[i - 1]] /\ f[i - 1] \in Nat
        BY <2>2, <4>1
      <4> QED BY <3>2, <4>1, <4>2
    <3> QED BY <3>1, <3>2
  <2>4. f = Body(f)
    BY <2>3
  <2> QED BY <2>4
<1> HIDE DEF Body
<1>3. PowerOfTwo = Body(PowerOfTwo)
  BY <1>1, <1>2, Zenon
<1>4. \A n \in 0..31 : PowerOfTwo[n] = IF n = 0 THEN 1 ELSE 2 * PowerOfTwo[n - 1]
  <2>1. \A n \in 0..31 : Body(PowerOfTwo)[n] = IF n = 0 THEN 1 ELSE 2 * PowerOfTwo[n - 1]
    BY DEF Body
  <2> QED BY <1>3, <2>1
<1> DEFINE S == {n \in 0..31 : PowerOfTwo[n] \in Nat /\ PowerOfTwo[n] > 0}
<1>5. 0 \in 0..31
  OBVIOUS
<1>6. PowerOfTwo[0] = 1
  BY <1>4, <1>5
<1>7. 0 \in S
  BY <1>5, <1>6
<1>8. ASSUME NEW n \in 0..(31 - 1), n \in S PROVE n + 1 \in S
  <2>1. n + 1 \in 0..31 /\ n + 1 # 0 /\ (n + 1) - 1 = n
    OBVIOUS
  <2>2. PowerOfTwo[n + 1] = 2 * PowerOfTwo[n]
    BY <1>4, <2>1
  <2> QED BY <1>8, <2>1, <2>2
<1> HIDE DEF S
<1>9. PICK N \in Nat : N = 31
  OBVIOUS
<1>10. 0..N \subseteq S
  BY <1>7, <1>8, <1>9, IntervalInduction, Zenon
<1> QED BY <1>6, <1>9, <1>10 DEF S

\* Sequence `order` lists the slices of f by offset.
Lists(f, order) ==
  /\ order \in [1..Len(f.table) -> 1..Len(f.table)]
  /\ \A j, k \in 1..Len(f.table) : j < k => f.table[order[j]].offset < f.table[order[k]].offset
  /\ \A j, k \in 1..Len(f.table) : order[j] = order[k] => j = k
  /\ \A i \in 1..Len(f.table) : \E k \in 1..Len(f.table) : order[k] = i

\* The table of a file.
LEMMA TableParts ==
  ASSUME NEW f, IsFile(f)
  PROVE  /\ Len(f.table) \in Nat /\ DOMAIN f.table = 1..Len(f.table)
         /\ \A i \in 1..Len(f.table) :
              f.table[i].offset \in Nat /\ f.table[i].size \in Nat /\ f.table[i].align \in Nat
<1>1. f.table \in Seq([offset : Nat, size : Nat, align : Nat])
  BY DEF IsFile
<1>2. Len(f.table) \in Nat /\ DOMAIN f.table = 1..Len(f.table)
  BY <1>1, LenProperties
<1>3. \A i \in 1..Len(f.table) : f.table[i] \in [offset : Nat, size : Nat, align : Nat]
  BY <1>1, ElementOfSeq
<1> QED BY <1>2, <1>3

\* There is an order of the slices by offset.
LEMMA OrderIs ==
  ASSUME NEW f, IsFile(f),
         \A i, j \in 1..Len(f.table) : f.table[i].offset = f.table[j].offset => i = j
  PROVE  Lists(f, ByOffset(f))
<1> DEFINE n == Len(f.table)
           w == [i \in 1..n |-> f.table[i].offset]
<1>1. n \in Nat /\ DOMAIN f.table = 1..n /\ \A i \in 1..n : f.table[i].offset \in Nat
  BY TableParts
<1>2. w \in [1..n -> Nat] /\ \A i, j \in 1..n : w[i] = w[j] => i = j
  BY <1>1
<1> HIDE DEF n
<1>3. \A i \in 1..n : w[i] = f.table[i].offset
  OBVIOUS
<1> HIDE DEF w
<1>4. PICK u : Sorted(n, w, u)
  BY <1>1, <1>2, Sorting
<1>5. u \in [1..n -> 1..n] /\ \A j, k \in 1..n : j < k => f.table[u[j]].offset < f.table[u[k]].offset
  BY <1>3, <1>4 DEF Sorted
<1>6. u \in Orders(f)
  BY <1>1, <1>5 DEF Orders
<1> DEFINE x == ByOffset(f)
<1>7. x \in Orders(f)
  BY <1>6 DEF ByOffset, TheOne
<1> HIDE DEF x
<1>8. /\ x \in [1..n -> 1..n]
      /\ \A j, k \in 1..n : j < k => f.table[x[j]].offset < f.table[x[k]].offset
  BY <1>1, <1>7 DEF Orders
<1>9. Sorted(n, w, x)
  BY <1>3, <1>8 DEF Sorted
<1>10. Permutes(n, x)
  BY <1>1, <1>2, <1>9, SortingIsOnto, Zenon
<1> QED BY <1>8, <1>10 DEF Lists, Permutes, n, x

\* Every slice has a place in it.
LEMMA RankIs ==
  ASSUME NEW f, IsFile(f), Lists(f, ByOffset(f)), NEW i \in 1..Len(f.table)
  PROVE  Rank(f, i) \in 1..Len(f.table) /\ ByOffset(f)[Rank(f, i)] = i
<1>1. DOMAIN f.table = 1..Len(f.table)
  BY TableParts
<1>2. \E k \in 1..Len(f.table) : ByOffset(f)[k] = i
  BY DEF Lists
<1> QED BY <1>1, <1>2 DEF Rank

\* The ends of the slices of a file when they are put one after the other.
Follow(f, slices, ends) ==
  LET n == Len(f.table)
      order == ByOffset(f)
  IN  /\ \A k \in 0..n : ends[k] \in Nat
      /\ ends[0] = f.table[order[1]].offset
      /\ \A k \in 1..n : ends[k] = AlignUp(ends[k - 1], PowerOfTwo[f.table[order[k]].align])
                                   + slices[order[k]].size

\* The ends of the slices follow each other.
LEMMA SliceEndsAre ==
  ASSUME NEW f, IsFile(f), Lists(f, ByOffset(f)), Len(f.table) >= 1,
         \A i \in 1..Len(f.table) : f.table[i].align < 32,
         NEW slices, \A i \in 1..Len(f.table) : slices[i].size \in Nat
  PROVE  Follow(f, slices, SliceEnds(f, slices))
<1> DEFINE n == Len(f.table)
           order == ByOffset(f)
           unit(k) == PowerOfTwo[f.table[order[k]].align]
           add(k) == slices[order[k]].size
           a == f.table[order[1]].offset
           Step(k, v) == AlignUp(v, unit(k)) + add(k)
           Body(g) == [k \in 0..n |-> IF k = 0 THEN a ELSE Step(k, g[k - 1])]
           step == [k \in 1..n |-> [v \in Nat |-> Step(k, v)]]
           E == SliceEnds(f, slices)
<1>1. /\ n \in Nat /\ n >= 1
      /\ \A i \in 1..n : f.table[i].offset \in Nat /\ f.table[i].align \in Nat
  BY TableParts
<1>2. \A k \in 1..n : order[k] \in 1..n
  BY DEF Lists
<1>3. \A k \in 1..n : unit(k) \in Nat /\ unit(k) > 0 /\ add(k) \in Nat
  <2> SUFFICES ASSUME NEW k \in 1..n PROVE unit(k) \in Nat /\ unit(k) > 0 /\ add(k) \in Nat
    OBVIOUS
  <2>1. order[k] \in 1..n
    BY <1>2
  <2>2. f.table[order[k]].align \in 0..31
    <3>1. f.table[order[k]].align \in Nat /\ f.table[order[k]].align < 32
      BY <1>1, <2>1
    <3>2. \A y \in Nat : y < 32 => y \in 0..31
      OBVIOUS
    <3> QED BY <3>1, <3>2, Zenon
  <2>3. add(k) \in Nat
    BY <2>1
  <2> QED BY <2>2, <2>3, Powers
<1>4. a \in Nat
  <2>1. order[1] \in 1..n
    BY <1>1, <1>2
  <2> QED BY <1>1, <2>1
<1>5. E = CHOOSE g : g = Body(g)
  BY DEF SliceEnds
<1> HIDE DEF n, order, unit, add, a, E
<1>6. ASSUME NEW k \in 1..n, NEW v \in Nat PROVE Step(k, v) \in Nat
  <2>1. AlignUp(v, unit(k)) \in Nat
    BY <1>3, AlignUpBounds
  <2> QED BY <1>3, <2>1
<1> HIDE DEF Step
<1>7. PICK g \in [0..n -> Nat] : g = Body(g)
  <2>1. step \in [1..n -> [Nat -> Nat]]
    BY <1>6
  <2> HIDE DEF step
  <2>2. PICK g \in [0..n -> Nat] : g[0] = a /\ \A i \in 1..n : g[i] = step[i][g[i - 1]]
    <3>1. Iterable(n, Nat, a, step)
      BY <1>1, <1>4, <2>1, Iteration, Zenon
    <3> QED BY <3>1, Zenon DEF Iterable
  <2>3. ASSUME NEW i \in 0..n PROVE g[i] = IF i = 0 THEN a ELSE Step(i, g[i - 1])
    <3>1. CASE i = 0
      BY <2>2, <3>1
    <3>2. CASE i # 0
      <4>1. i \in 1..n /\ i - 1 \in 0..n
        BY <1>1, <3>2
      <4>2. g[i] = step[i][g[i - 1]] /\ g[i - 1] \in Nat
        BY <2>2, <4>1
      <4>3. step[i][g[i - 1]] = Step(i, g[i - 1])
        BY <4>1, <4>2 DEF step
      <4> QED BY <3>2, <4>2, <4>3
    <3> QED BY <3>1, <3>2
  <2>4. g = Body(g)
    BY <2>3
  <2> QED BY <2>4
<1> HIDE DEF Body
<1>8. E = Body(E)
  BY <1>5, <1>7, Zenon
<1>9. \A k \in 0..n : E[k] = IF k = 0 THEN a ELSE Step(k, E[k - 1])
  <2>1. \A k \in 0..n : Body(E)[k] = IF k = 0 THEN a ELSE Step(k, E[k - 1])
    BY DEF Body
  <2> QED BY <1>8, <2>1
<1>10. E[0] = a /\ \A k \in 1..n : E[k] = Step(k, E[k - 1])
  <2>1. 0 \in 0..n /\ \A k \in 1..n : k \in 0..n /\ k # 0
    BY <1>1
  <2> QED BY <1>9, <2>1
<1>11. \A k \in 0..n : E[k] \in Nat
  <2> DEFINE S == {k \in 0..n : E[k] \in Nat}
  <2>1. 0 \in S
    BY <1>1, <1>4, <1>10
  <2>2. ASSUME NEW k \in 0..(n - 1), k \in S PROVE k + 1 \in S
    <3>1. k + 1 \in 1..n /\ k + 1 \in 0..n /\ (k + 1) - 1 = k
      BY <1>1
    <3>2. E[k + 1] = Step(k + 1, E[k])
      BY <1>10, <3>1
    <3> QED BY <1>6, <2>2, <3>1, <3>2
  <2> HIDE DEF S
  <2>3. 0..n \subseteq S
    BY <1>1, <2>1, <2>2, IntervalInduction, Zenon
  <2> QED BY <2>3 DEF S
<1> QED BY <1>10, <1>11 DEF Follow, n, order, unit, add, a, E, Step
-----------------------------------------------------------------------------
(* A file around new slices. *)

\* The greatest number of a set is in it.
LEMMA MaxIs ==
  ASSUME NEW N \in Nat, NEW S \in SUBSET (0..N), S # {}
  PROVE  Max(S) \in S /\ \A k \in S : k <= Max(S)
<1>1. PICK m \in S : \A k \in S : k <= m
  BY Greatest
<1>2. \A k \in S : m >= k
  BY <1>1
<1>3. \E x \in S : \A y \in S : x >= y
  BY <1>2
<1>4. Max(S) \in S /\ \A k \in S : Max(S) >= k
  BY <1>3 DEF Max
<1> QED BY <1>4

\* New offsets that are aligned, apart, in the old order and behind the table.
Placed(f, slices, N) ==
  /\ \A i \in 1..Len(f.table) : /\ N[i] \in Nat /\ N[i] % PowerOfTwo[f.table[i].align] = 0
                                /\ N[i] >= f.table[ByOffset(f)[1]].offset
  /\ \A i, j \in 1..Len(f.table) :
       f.table[i].offset < f.table[j].offset => N[i] + slices[i].size <= N[j]

\* The new offsets are aligned, in the old order, and the slices apart.
LEMMA NewOffsetsAre ==
  ASSUME NEW f, IsFile(f), Lists(f, ByOffset(f)), Len(f.table) >= 1,
         \A i \in 1..Len(f.table) : f.table[i].align < 32,
         NEW slices, \A i \in 1..Len(f.table) : slices[i].size \in Nat
  PROVE  Placed(f, slices, NewOffsets(f, slices))
<1> DEFINE n == Len(f.table)
           order == ByOffset(f)
           E == SliceEnds(f, slices)
           N == NewOffsets(f, slices)
           unit(i) == PowerOfTwo[f.table[i].align]
<1>1. /\ n \in Nat /\ n >= 1 /\ DOMAIN f.table = 1..n
      /\ \A i \in 1..n : f.table[i].offset \in Nat /\ f.table[i].align \in Nat
  BY TableParts
<1>2. ASSUME NEW i \in 1..n PROVE unit(i) \in Nat /\ unit(i) > 0
  <2>1. f.table[i].align \in Nat /\ f.table[i].align < 32
    BY <1>1
  <2>2. \A y \in Nat : y < 32 => y \in 0..31
    OBVIOUS
  <2>3. f.table[i].align \in 0..31
    BY <2>1, <2>2, Zenon
  <2> QED BY <2>3, Powers
<1>3. Follow(f, slices, E)
  BY SliceEndsAre
<1>4. /\ \A k \in 0..n : E[k] \in Nat
      /\ E[0] = f.table[order[1]].offset
      /\ \A k \in 1..n : E[k] = AlignUp(E[k - 1], unit(order[k])) + slices[order[k]].size
  BY <1>3 DEF Follow
<1>5. /\ \A k \in 1..n : order[k] \in 1..n
      /\ \A j, k \in 1..n : j < k => f.table[order[j]].offset < f.table[order[k]].offset
  BY DEF Lists
<1>6. \A i \in 1..n : Rank(f, i) \in 1..n /\ order[Rank(f, i)] = i
  BY RankIs
<1>7. \A i \in 1..n : N[i] = AlignUp(E[Rank(f, i) - 1], unit(i))
  BY <1>1 DEF NewOffsets
<1> HIDE DEF n, order, E, N, unit
<1>8. \A k \in 0..n : \A j \in 0..k : E[j] <= E[k]
  <2> DEFINE S == {k \in 0..n : \A j \in 0..k : E[j] <= E[k]}
  <2>1. 0 \in S
    <3>1. E[0] <= E[0] /\ 0 \in 0..n /\ \A j \in 0..0 : j = 0
      BY <1>1, <1>4
    <3> QED BY <3>1
  <2>2. ASSUME NEW k \in 0..(n - 1), k \in S PROVE k + 1 \in S
    <3>1. k + 1 \in 1..n /\ k + 1 \in 0..n /\ (k + 1) - 1 = k /\ k \in 0..n
      BY <1>1
    <3> DEFINE i == order[k + 1]
    <3>2. E[k + 1] = AlignUp(E[k], unit(i)) + slices[i].size
      BY <1>4, <3>1
    <3>3. i \in 1..n
      BY <1>5, <3>1
    <3> HIDE DEF i
    <3>4. E[k] \in Nat /\ unit(i) \in Nat /\ unit(i) > 0 /\ slices[i].size \in Nat
      BY <1>2, <1>4, <3>1, <3>3 DEF n
    <3>5. AlignUp(E[k], unit(i)) \in Nat /\ E[k] <= AlignUp(E[k], unit(i))
      BY <3>4, AlignUpBounds
    <3>6. E[k] <= E[k + 1] /\ E[k + 1] \in Nat
      BY <3>2, <3>4, <3>5
    <3>7. ASSUME NEW j \in 0..(k + 1) PROVE E[j] <= E[k + 1]
      <4>1. CASE j = k + 1
        BY <3>6, <4>1
      <4>2. CASE j # k + 1
        <5>1. j \in 0..k /\ j \in 0..n
          BY <1>1, <4>2
        <5>2. E[j] \in Nat /\ E[j] <= E[k]
          BY <1>4, <2>2, <5>1
        <5> QED BY <3>4, <3>6, <5>2
      <4> QED BY <4>1, <4>2
    <3> QED BY <3>1, <3>7
  <2> HIDE DEF S
  <2>3. 0..n \subseteq S
    BY <1>1, <2>1, <2>2, IntervalInduction, Zenon
  <2> QED BY <2>3 DEF S
<1>9. ASSUME NEW i \in 1..n
      PROVE  LET k == Rank(f, i)
             IN  /\ k \in 1..n /\ k - 1 \in 0..n /\ k \in 0..n
                 /\ E[k - 1] \in Nat /\ N[i] \in Nat /\ E[k - 1] <= N[i]
                 /\ N[i] + slices[i].size = E[k] /\ N[i] % unit(i) = 0
  <2> DEFINE k == Rank(f, i)
  <2>1. k \in 1..n /\ order[k] = i
    BY <1>6
  <2> HIDE DEF k
  <2>2. k - 1 \in 0..n /\ k \in 0..n
    BY <1>1, <2>1
  <2>3. E[k - 1] \in Nat /\ unit(i) \in Nat /\ unit(i) > 0
    BY <1>2, <1>4, <2>2
  <2>4. N[i] = AlignUp(E[k - 1], unit(i))
    BY <1>7 DEF k
  <2>5. N[i] \in Nat /\ E[k - 1] <= N[i] /\ N[i] % unit(i) = 0
    BY <2>3, <2>4, AlignUpBounds, AlignUpIsAligned
  <2>6. N[i] + slices[i].size = E[k]
    BY <1>4, <2>1, <2>4
  <2> QED BY <2>1, <2>2, <2>3, <2>5, <2>6 DEF k
<1>10. ASSUME NEW i \in 1..n PROVE N[i] >= f.table[order[1]].offset
  <2> DEFINE k == Rank(f, i)
  <2>1. k - 1 \in 0..n /\ E[k - 1] \in Nat /\ N[i] \in Nat /\ E[k - 1] <= N[i]
    BY <1>9
  <2> HIDE DEF k
  <2>2. 0 \in 0..(k - 1) /\ 0 \in 0..n
    BY <1>1, <2>1
  <2>3. E[0] <= E[k - 1] /\ E[0] \in Nat
    BY <1>4, <1>8, <2>1, <2>2
  <2>4. E[0] <= N[i]
    BY <2>1, <2>3
  <2> QED BY <1>4, <2>1, <2>3, <2>4
<1>11. ASSUME NEW i \in 1..n, NEW j \in 1..n, f.table[i].offset < f.table[j].offset
       PROVE  N[i] + slices[i].size <= N[j]
  <2> DEFINE k == Rank(f, i)
             m == Rank(f, j)
  <2>1. /\ k \in 1..n /\ order[k] = i /\ k \in 0..n /\ N[i] + slices[i].size = E[k]
        /\ m \in 1..n /\ order[m] = j /\ m - 1 \in 0..n /\ E[m - 1] <= N[j]
        /\ E[m - 1] \in Nat /\ N[j] \in Nat
    BY <1>6, <1>9
  <2> HIDE DEF k, m
  <2>2. k < m
    <3>1. ~(f.table[j].offset < f.table[i].offset) /\ i # j
      BY <1>1, <1>11
    <3>2. ~(m < k) /\ k # m
      BY <1>5, <2>1, <3>1
    <3> QED BY <1>1, <2>1, <3>2
  <2>3. k \in 0..(m - 1)
    BY <1>1, <2>1, <2>2
  <2>4. E[k] <= E[m - 1] /\ E[k] \in Nat
    BY <1>4, <1>8, <2>1, <2>3
  <2>5. E[k] <= N[j]
    BY <2>1, <2>4
  <2> QED BY <2>1, <2>5
<1>12. \A i \in 1..n : N[i] \in Nat /\ N[i] % unit(i) = 0
  BY <1>9
<1> QED BY <1>10, <1>11, <1>12 DEF Placed, n, order, N, unit
\* The slices of a file that can be signed.
LEMMA AcceptableParts ==
  ASSUME NEW f, IsFile(f), Acceptable(f)
  PROVE  /\ Len(f.table) \in Nat /\ Len(f.table) >= 1 /\ DOMAIN f.table = 1..Len(f.table)
         /\ f.form \in {"thin", "fat32", "fat64"} /\ f.clean
         /\ \A i \in 1..Len(f.table) :
              /\ Good(SliceAt(f, i)) /\ SliceAt(f, i).size = f.table[i].size
              /\ f.table[i].size >= 32 /\ f.table[i].offset + f.table[i].size <= f.size
<1> DEFINE n == Len(f.table)
<1>1. /\ n \in Nat /\ DOMAIN f.table = 1..n
      /\ \A i \in 1..n : f.table[i].offset \in Nat /\ f.table[i].size \in Nat
  BY TableParts
<1>2. ParseMachOContainer(f) /\ Supported(f) /\ f.clean
  BY DEF Acceptable
<1>3. f.form \in {"thin", "fat32", "fat64"}
  BY <1>2 DEF ParseMachOContainer
<1>4. n >= 1
  <2>1. CASE f.form = "thin"
    <3>1. f.table = <<[offset |-> 0, size |-> f.size, align |-> 0]>>
      BY <2>1 DEF IsFile
    <3>2. Len(f.table) = 1
      BY <3>1
    <3> QED BY <3>2
  <2>2. CASE f.form # "thin"
    <3>1. n \in 1..256
      BY <1>2, <2>2 DEF ParseMachOContainer
    <3> HIDE DEF n
    <3> QED BY <3>1
  <2> QED BY <2>1, <2>2
<1>5. ASSUME NEW i \in 1..n
      PROVE  /\ Good(SliceAt(f, i)) /\ SliceAt(f, i).size = f.table[i].size
             /\ f.table[i].size >= 32 /\ f.table[i].offset + f.table[i].size <= f.size
  <2> DEFINE s == SliceAt(f, i)
             o == f.table[i].offset
  <2>1. ParseMachOSlice(s).ok /\ f.table[i].offset + f.table[i].size <= f.size
    BY <1>2 DEF ParseMachOContainer
  <2>2. ParseMachOSlice(s).supported
    BY <1>1, <1>2 DEF Supported
  <2>3. s.magic = "supported" /\ Consistent(s)
    BY <2>1, <2>2, ParseOnlyGood
  <2>4. o \in DOMAIN f.at /\ f.at[o].size = f.table[i].size
    <3> SUFFICES ASSUME ~(o \in DOMAIN f.at /\ f.at[o].size = f.table[i].size) PROVE FALSE
      OBVIOUS
    <3>1. s = [magic |-> "other"]
      BY DEF SliceAt
    <3> QED BY <2>3, <3>1
  <2>5. s = f.at[o]
    BY <2>4 DEF SliceAt
  <2>6. IsSlice(s)
    BY <2>4, <2>5 DEF IsFile
  <2>7. Good(s)
    BY <2>3, <2>6 DEF Good
  <2>8. HeaderEnd(s) \in Nat /\ HeaderEnd(s) <= s.size /\ HeaderEnd(s) >= 32 /\ s.size \in Nat
    BY <2>7, GoodParts
  <2>9. s.size >= 32
    BY <2>8
  <2> QED BY <2>1, <2>4, <2>5, <2>7, <2>9
<1> QED BY <1>1, <1>2, <1>3, <1>4, <1>5

\* The slices do not overlap, so that their offsets give an order.
LEMMA AcceptableOrder ==
  ASSUME NEW f, IsFile(f), Acceptable(f)
  PROVE  Lists(f, ByOffset(f))
<1>1. /\ \A i \in 1..Len(f.table) : f.table[i].size >= 32
      /\ \A i \in 1..Len(f.table) : f.table[i].size \in Nat /\ f.table[i].offset \in Nat
  BY AcceptableParts, TableParts
<1>2. \A i, j \in 1..Len(f.table) : i # j =>
        \/ f.table[i].offset + f.table[i].size <= f.table[j].offset
        \/ f.table[j].offset + f.table[j].size <= f.table[i].offset
  BY DEF Acceptable, ParseMachOContainer
<1>3. \A i, j \in 1..Len(f.table) : f.table[i].offset = f.table[j].offset => i = j
  <2> SUFFICES ASSUME NEW i \in 1..Len(f.table), NEW j \in 1..Len(f.table),
                      f.table[i].offset = f.table[j].offset, i # j
               PROVE  FALSE
    OBVIOUS
  <2>1. /\ f.table[i].size >= 32 /\ f.table[j].size >= 32 /\ f.table[i].size \in Nat
        /\ f.table[j].size \in Nat /\ f.table[i].offset \in Nat /\ f.table[j].offset \in Nat
    BY <1>1
  <2>2. \/ f.table[i].offset + f.table[i].size <= f.table[j].offset
        \/ f.table[j].offset + f.table[j].size <= f.table[i].offset
    BY <1>2
  <2> QED BY <2>1, <2>2
<1> QED BY <1>3, OrderIs

\* The end of the last slice is in the file.
LEMMA EndIs ==
  ASSUME NEW f, IsFile(f), Acceptable(f)
  PROVE  EndOf(f) \in Nat /\ EndOf(f) <= f.size
<1> DEFINE S == {f.table[i].offset + f.table[i].size : i \in 1..Len(f.table)}
<1>1. /\ Len(f.table) \in Nat /\ Len(f.table) >= 1 /\ DOMAIN f.table = 1..Len(f.table)
      /\ \A i \in 1..Len(f.table) : f.table[i].offset + f.table[i].size <= f.size
  BY AcceptableParts
<1>2. f.size \in Nat
  BY DEF IsFile
<1>3. \A i \in 1..Len(f.table) : f.table[i].offset + f.table[i].size \in Nat
  BY TableParts
<1>4. S \in SUBSET (0..f.size)
  BY <1>1, <1>2, <1>3
<1>5. 1 \in 1..Len(f.table)
  BY <1>1
<1>6. S # {}
  BY <1>5
<1>7. EndOf(f) = Max(S)
  BY <1>1 DEF EndOf
<1> HIDE DEF S
<1>8. Max(S) \in S
  BY <1>2, <1>4, <1>6, MaxIs
<1>9. \A x \in 0..f.size : x \in Nat /\ x <= f.size
  BY <1>2
<1>10. Max(S) \in 0..f.size
  BY <1>4, <1>8
<1> QED BY <1>7, <1>9, <1>10

\* What a file becomes when its slices are replaced.
Rebuilt(f, slices, g) ==
  /\ IsFile(g) /\ Acceptable(g) /\ g.form = f.form /\ Len(g.table) = Len(f.table)
  /\ g.size - EndOf(g) = f.size - EndOf(f)
  /\ \A i \in 1..Len(f.table) :
       /\ SliceAt(g, i) = slices[i] /\ g.table[i].align = f.table[i].align
       /\ g.table[i].offset % PowerOfTwo[g.table[i].align] = 0
  /\ \A i, j \in 1..Len(f.table) :
       g.table[i].offset < g.table[j].offset <=> f.table[i].offset < f.table[j].offset

\* A file of one program.
LEMMA ThinRebuilt ==
  ASSUME NEW f, IsFile(f), Acceptable(f), f.form = "thin",
         NEW slices, Good(slices[1]), NewFile(f, slices).ok
  PROVE  Rebuilt(f, slices, NewFile(f, slices).file)
<1> DEFINE s == slices[1]
           e == [offset |-> 0, size |-> s.size, align |-> f.table[1].align]
           g == NewFile(f, slices).file
<1>1. f.table = <<[offset |-> 0, size |-> f.size, align |-> 0]>> /\ f.size \in Nat
  BY DEF IsFile
<1>2. Len(f.table) = 1 /\ f.table[1].align = 0 /\ f.table[1].offset = 0 /\ f.table[1].size = f.size
  BY <1>1
<1>3. f.clean
  BY DEF Acceptable
<1>4. g = [form |-> f.form, table |-> <<e>>, at |-> [o \in {0} |-> s], clean |-> f.clean, size |-> s.size]
  BY DEF NewFile
<1> HIDE DEF g, s
<1>5. /\ g.form = "thin" /\ g.table = <<e>> /\ g.at = [o \in {0} |-> s] /\ g.clean = f.clean /\ g.size = s.size
      /\ g = [form |-> g.form, table |-> g.table, at |-> g.at, clean |-> g.clean, size |-> g.size]
  BY <1>4
<1>6. e = [offset |-> 0, size |-> s.size, align |-> 0] /\ e.offset = 0 /\ e.size = s.size /\ e.align = 0
  BY <1>2
<1>7. s.size \in Nat /\ Good(s) /\ IsSlice(s)
  BY GoodParts DEF Good, s
<1>8. e \in [offset : Nat, size : Nat, align : Nat]
  BY <1>6, <1>7
<1> HIDE DEF e
<1>9. Len(g.table) = 1 /\ g.table[1] = e /\ DOMAIN g.table = {1} /\ 1..1 = {1}
      /\ g.table \in Seq([offset : Nat, size : Nat, align : Nat])
  BY <1>5, <1>8
<1>10. IsFile(g)
  <2>1. DOMAIN g.at \subseteq Nat /\ \A o \in DOMAIN g.at : IsSlice(g.at[o])
    BY <1>5, <1>7
  <2>2. g.table = <<[offset |-> 0, size |-> g.size, align |-> 0]>> /\ DOMAIN g.at = {0}
    BY <1>5, <1>6
  <2>3. g.size \in Nat
    BY <1>5, <1>7
  <2> QED BY <1>5, <1>9, <2>1, <2>2, <2>3 DEF IsFile
<1>11. SliceAt(g, 1) = s
  BY <1>5, <1>6, <1>9 DEF SliceAt
<1>12. ParseMachOSlice(s).ok /\ ParseMachOSlice(s).supported
  BY <1>7, ParseGood DEF Good
<1>13. Acceptable(g)
  <2>1. Supported(g)
    BY <1>9, <1>11, <1>12 DEF Supported
  <2>2. e.offset + e.size <= g.size
    BY <1>5, <1>6, <1>7
  <2>3. ParseMachOContainer(g)
    BY <1>5, <1>9, <1>11, <1>12, <2>2 DEF ParseMachOContainer
  <2> QED BY <1>3, <1>5, <2>1, <2>3 DEF Acceptable
<1>14. ASSUME NEW h, NEW x \in Nat, DOMAIN h.table = {1}, h.table[1].offset + h.table[1].size = x
       PROVE  EndOf(h) = x
  <2>1. {h.table[i].offset + h.table[i].size : i \in DOMAIN h.table} = {x}
    BY <1>14
  <2>2. {x} \in SUBSET (0..x) /\ {x} # {}
    BY <1>14
  <2>3. Max({x}) \in {x}
    BY <1>14, <2>2, MaxIs
  <2> QED BY <2>1, <2>3 DEF EndOf
<1>15. EndOf(g) = g.size
  BY <1>5, <1>6, <1>7, <1>9, <1>14
<1>16. EndOf(f) = f.size
  <2>1. DOMAIN f.table = {1}
    BY <1>1
  <2> QED BY <1>1, <1>2, <1>14, <2>1
<1>17. g.size - EndOf(g) = f.size - EndOf(f)
  BY <1>1, <1>5, <1>7, <1>15, <1>16
<1>18. 0 % PowerOfTwo[0] = 0
  BY Powers
<1> QED BY <1>2, <1>5, <1>6, <1>9, <1>10, <1>11, <1>13, <1>17, <1>18 DEF Rebuilt, g, s
\* A universal file.
LEMMA UniversalRebuilt ==
  ASSUME NEW f, IsFile(f), Acceptable(f), f.form # "thin",
         NEW slices, \A i \in 1..Len(f.table) : Good(slices[i]), NewFile(f, slices).ok
  PROVE  Rebuilt(f, slices, NewFile(f, slices).file)
<1> DEFINE n == Len(f.table)
           N == NewOffsets(f, slices)
           Ends == {N[i] + slices[i].size : i \in 1..n}
           end == Max(Ends)
           entry(i) == [offset |-> N[i], size |-> slices[i].size, align |-> f.table[i].align]
           at == [o \in {N[i] : i \in 1..n} |-> slices[CHOOSE i \in 1..n : N[i] = o]]
           g == NewFile(f, slices).file
<1>1. /\ n \in Nat /\ n >= 1 /\ DOMAIN f.table = 1..n /\ f.form \in {"thin", "fat32", "fat64"}
      /\ \A i \in 1..n : f.table[i].offset \in Nat /\ f.table[i].size \in Nat /\ f.table[i].align \in Nat
      /\ \A i \in 1..n : f.table[i].size >= 32
  BY AcceptableParts, TableParts
<1>2. /\ NewFile(f, slices) = AssembleUniversal(f, slices)
      /\ ~(\E i \in 1..n : f.table[i].align >= 32)
      /\ g = [form |-> f.form, table |-> [i \in 1..n |-> entry(i)], at |-> at, clean |-> TRUE,
              size |-> end + (f.size - EndOf(f))]
  <2>1. NewFile(f, slices) = AssembleUniversal(f, slices)
    BY DEF NewFile
  <2>2. /\ ~(\E i \in DOMAIN f.table : f.table[i].align >= 32)
        /\ ~(f.form = "fat32" /\ Max({N[i] + slices[i].size : i \in DOMAIN f.table}) > Uint32Max)
    BY <2>1 DEF AssembleUniversal, Malformed
  <2>3. AssembleUniversal(f, slices).file =
          [form |-> f.form,
           table |-> [i \in DOMAIN f.table |-> entry(i)],
           at |-> [o \in {N[i] : i \in DOMAIN f.table} |-> slices[CHOOSE i \in DOMAIN f.table : N[i] = o]],
           clean |-> TRUE,
           size |-> Max({N[i] + slices[i].size : i \in DOMAIN f.table}) + (f.size - EndOf(f))]
    BY <2>2 DEF AssembleUniversal
  <2> QED BY <1>1, <2>1, <2>2, <2>3
<1>3. Lists(f, ByOffset(f))
  BY AcceptableOrder
<1>4. \A i \in 1..n : slices[i].size \in Nat /\ slices[i].size >= 32 /\ IsSlice(slices[i])
  <2> SUFFICES ASSUME NEW i \in 1..n
               PROVE  slices[i].size \in Nat /\ slices[i].size >= 32 /\ IsSlice(slices[i])
    OBVIOUS
  <2>1. Good(slices[i])
    OBVIOUS
  <2>2. /\ slices[i].size \in Nat /\ HeaderEnd(slices[i]) \in Nat /\ HeaderEnd(slices[i]) >= 32
        /\ HeaderEnd(slices[i]) <= slices[i].size
    BY <2>1, GoodParts
  <2> QED BY <2>1, <2>2 DEF Good
<1>5. Placed(f, slices, N)
  <2>1. \A i \in 1..n : f.table[i].align < 32
    BY <1>1, <1>2
  <2> QED BY <1>1, <1>3, <1>4, <2>1, NewOffsetsAre
<1> DEFINE first == f.table[ByOffset(f)[1]].offset
<1>6. /\ \A i \in 1..n : N[i] \in Nat /\ N[i] % PowerOfTwo[f.table[i].align] = 0 /\ N[i] >= first
      /\ \A i, j \in 1..n : f.table[i].offset < f.table[j].offset => N[i] + slices[i].size <= N[j]
  BY <1>5 DEF Placed
<1>7. first \in Nat /\ first >= TableEnd(f.form, n)
  <2>1. ByOffset(f)[1] \in 1..n
    <3>1. 1 \in 1..n
      BY <1>1
    <3>2. ByOffset(f) \in [1..n -> 1..n]
      BY <1>3 DEF Lists
    <3> QED BY <3>1, <3>2
  <2>2. \A i \in 1..n : f.table[i].offset >= TableEnd(f.form, n)
    BY DEF Acceptable, ParseMachOContainer
  <2> QED BY <1>1, <2>1, <2>2
<1>8. EndOf(f) \in Nat /\ EndOf(f) <= f.size /\ f.size \in Nat
  BY EndIs DEF IsFile
<1>9. n \in 1..256
  BY DEF Acceptable, ParseMachOContainer
<1>10. \A i \in 1..n : Good(slices[i]) /\ ParseMachOSlice(slices[i]).ok /\ ParseMachOSlice(slices[i]).supported
  BY ParseGood DEF Good
<1>11. \A i, j \in 1..n : i # j => f.table[i].offset < f.table[j].offset \/ f.table[j].offset < f.table[i].offset
  <2> SUFFICES ASSUME NEW i \in 1..n, NEW j \in 1..n, i # j
               PROVE  f.table[i].offset < f.table[j].offset \/ f.table[j].offset < f.table[i].offset
    OBVIOUS
  <2>1. \/ f.table[i].offset + f.table[i].size <= f.table[j].offset
        \/ f.table[j].offset + f.table[j].size <= f.table[i].offset
    BY <1>1 DEF Acceptable, ParseMachOContainer
  <2>2. /\ f.table[i].offset \in Nat /\ f.table[j].offset \in Nat /\ f.table[i].size \in Nat
        /\ f.table[j].size \in Nat /\ f.table[i].size >= 32 /\ f.table[j].size >= 32
    BY <1>1
  <2>3. \A a, b, c, d \in Nat :
          (a + c <= b \/ b + d <= a) /\ c >= 32 /\ d >= 32 => a < b \/ b < a
    OBVIOUS
  <2> QED BY <2>1, <2>2, <2>3, Zenon
<1> HIDE DEF n, N, end, entry, at, g, first
<1>12. \A i, j \in 1..n : i # j => N[i] + slices[i].size <= N[j] \/ N[j] + slices[j].size <= N[i]
  BY <1>6, <1>11
<1>13. \A i, j \in 1..n : N[i] = N[j] => i = j
  <2> SUFFICES ASSUME NEW i \in 1..n, NEW j \in 1..n, N[i] = N[j], i # j PROVE FALSE
    OBVIOUS
  <2>1. /\ N[i] \in Nat /\ slices[i].size \in Nat /\ slices[i].size >= 32
        /\ slices[j].size \in Nat /\ slices[j].size >= 32
    BY <1>4, <1>6
  <2>2. N[i] + slices[i].size <= N[j] \/ N[j] + slices[j].size <= N[i]
    BY <1>12
  <2> QED BY <2>1, <2>2
<1>14. \A i, j \in 1..n : N[i] < N[j] <=> f.table[i].offset < f.table[j].offset
  <2>1. ASSUME NEW i \in 1..n, NEW j \in 1..n, f.table[i].offset < f.table[j].offset
        PROVE  N[i] < N[j]
    <3>1. N[i] \in Nat /\ N[j] \in Nat /\ slices[i].size \in Nat /\ slices[i].size >= 32
      BY <1>4, <1>6
    <3>2. N[i] + slices[i].size <= N[j]
      BY <1>6, <2>1
    <3> QED BY <3>1, <3>2
  <2>2. ASSUME NEW i \in 1..n, NEW j \in 1..n, N[i] < N[j]
        PROVE  f.table[i].offset < f.table[j].offset
    <3>1. N[i] \in Nat /\ N[j] \in Nat
      BY <1>6
    <3>2. i # j /\ ~(N[j] < N[i])
      BY <2>2, <3>1
    <3>3. ~(f.table[j].offset < f.table[i].offset)
      BY <2>1, <3>2
    <3> QED BY <1>11, <3>2, <3>3
  <2> QED BY <2>1, <2>2
<1>15. end \in Nat /\ \A i \in 1..n : N[i] + slices[i].size <= end
  <2>1. \A i \in 1..n : N[i] + slices[i].size \in Nat
    BY <1>4, <1>6
  <2>2. PICK last1 \in 1..n : \A j \in 1..n : f.table[j].offset <= f.table[last1].offset
    <3>1. n \in 1..n
      BY <1>1
    <3>2. \E k \in 1..n : \A j \in 1..n : f.table[j].offset <= f.table[k].offset
      <4> DEFINE k == ByOffset(f)[n]
      <4>1. k \in 1..n
        BY <1>3, <3>1 DEF Lists, n
      <4>2. ASSUME NEW j \in 1..n PROVE f.table[j].offset <= f.table[k].offset
        <5>1. PICK m \in 1..n : ByOffset(f)[m] = j
          BY <1>3 DEF Lists, n
        <5>2. m < n \/ m = n
          BY <1>1
        <5>3. m < n => f.table[ByOffset(f)[m]].offset < f.table[ByOffset(f)[n]].offset
          BY <1>3, <3>1 DEF Lists, n
        <5>4. f.table[j].offset \in Nat /\ f.table[k].offset \in Nat
          BY <1>1, <4>1
        <5> QED BY <5>1, <5>2, <5>3, <5>4
      <4> HIDE DEF k
      <4> QED BY <4>1, <4>2
    <3> QED BY <3>2
  <2> DEFINE top == N[last1] + slices[last1].size
  <2>3. top \in Nat /\ \A i \in 1..n : N[i] + slices[i].size <= top
    <3>1. ASSUME NEW i \in 1..n PROVE N[i] + slices[i].size <= top
      <4>1. CASE i = last1
        BY <2>1, <4>1
      <4>2. CASE i # last1
        <5>1. f.table[i].offset < f.table[last1].offset
          <6>1. f.table[i].offset \in Nat /\ f.table[last1].offset \in Nat
            BY <1>1
          <6> QED BY <1>11, <2>2, <4>2, <6>1
        <5>2. N[i] + slices[i].size <= N[last1]
          BY <1>6, <5>1
        <5>3. N[i] + slices[i].size \in Nat /\ N[last1] \in Nat /\ slices[last1].size \in Nat
          BY <1>4, <1>6, <2>1
        <5> QED BY <5>2, <5>3
      <4> QED BY <4>1, <4>2
    <3> QED BY <2>1, <3>1
  <2> HIDE DEF top
  <2>4. Ends \in SUBSET (0..top) /\ Ends # {}
    <3>1. 1 \in 1..n
      BY <1>1
    <3> QED BY <2>1, <2>3, <3>1
  <2>5. Max(Ends) \in Ends /\ \A k \in Ends : k <= Max(Ends)
    BY <2>3, <2>4, MaxIs
  <2> QED BY <2>1, <2>5 DEF end
<1>16. /\ g.form = f.form /\ g.table = [i \in 1..n |-> entry(i)] /\ g.at = at /\ g.clean = TRUE
       /\ g.size = end + (f.size - EndOf(f))
       /\ g = [form |-> g.form, table |-> g.table, at |-> g.at, clean |-> g.clean, size |-> g.size]
  BY <1>2
<1>17. /\ DOMAIN at = {N[i] : i \in 1..n}
       /\ \A i \in 1..n : at[N[i]] = slices[i]
  <2>1. \A i \in 1..n : (CHOOSE j \in 1..n : N[j] = N[i]) = i
    BY <1>13
  <2> QED BY <2>1 DEF at
<1>18. \A i \in 1..n : /\ entry(i).offset = N[i] /\ entry(i).size = slices[i].size
                       /\ entry(i).align = f.table[i].align
                       /\ entry(i) \in [offset : Nat, size : Nat, align : Nat]
  BY <1>1, <1>4, <1>6 DEF entry
<1>19. /\ g.table \in Seq([offset : Nat, size : Nat, align : Nat]) /\ Len(g.table) = n
       /\ DOMAIN g.table = 1..n
       /\ \A i \in 1..n : /\ g.table[i].offset = N[i] /\ g.table[i].size = slices[i].size
                          /\ g.table[i].align = f.table[i].align
  <2>1. [i \in 1..n |-> entry(i)] \in Seq([offset : Nat, size : Nat, align : Nat])
        /\ Len([i \in 1..n |-> entry(i)]) = n /\ DOMAIN [i \in 1..n |-> entry(i)] = 1..n
    <3> DEFINE R == [offset : Nat, size : Nat, align : Nat]
               T == [i \in 1..n |-> entry(i)]
    <3>1. \A i \in 1..n : T[i] \in R
      BY <1>18
    <3> HIDE DEF R
    <3>2. T = [i \in 1..n |-> T[i]]
      OBVIOUS
    <3> HIDE DEF T
    <3>3. [i \in 1..n |-> T[i]] \in Seq(R) /\ Len([i \in 1..n |-> T[i]]) = n
      BY <1>1, <3>1
    <3>4. T \in Seq(R) /\ Len(T) = n
      BY <3>2, <3>3
    <3> QED BY <3>4 DEF T, R
  <2>2. \A i \in 1..n : g.table[i] = entry(i)
    BY <1>16
  <2> QED BY <1>16, <1>18, <2>1, <2>2
<1>20. g.size \in Nat /\ end <= g.size
  BY <1>8, <1>15, <1>16
<1>21. \A i \in 1..n : SliceAt(g, i) = slices[i]
  <2> SUFFICES ASSUME NEW i \in 1..n PROVE SliceAt(g, i) = slices[i]
    OBVIOUS
  <2>1. g.table[i].offset = N[i] /\ g.table[i].size = slices[i].size
    BY <1>19
  <2>2. N[i] \in DOMAIN g.at /\ g.at[N[i]] = slices[i]
    BY <1>16, <1>17
  <2> QED BY <2>1, <2>2 DEF SliceAt
<1>22. IsFile(g)
  <2>1. DOMAIN g.at \subseteq Nat /\ \A o \in DOMAIN g.at : IsSlice(g.at[o])
    BY <1>4, <1>6, <1>16, <1>17
  <2>2. g.form # "thin"
    BY <1>16
  <2> QED BY <1>16, <1>19, <1>20, <2>1, <2>2 DEF IsFile
<1>23. Acceptable(g)
  <2>1. Supported(g)
    BY <1>10, <1>19, <1>21 DEF Supported
  <2>2. \A i \in 1..n : N[i] + slices[i].size <= g.size /\ N[i] >= TableEnd(g.form, n)
    <3> SUFFICES ASSUME NEW i \in 1..n
                 PROVE  N[i] + slices[i].size <= g.size /\ N[i] >= TableEnd(g.form, n)
      OBVIOUS
    <3>1. N[i] \in Nat /\ slices[i].size \in Nat /\ N[i] + slices[i].size <= end /\ N[i] >= first
      BY <1>4, <1>6, <1>15
    <3>2. TableEnd(g.form, n) \in Nat
      BY <1>1 DEF TableEnd
    <3> QED BY <1>7, <1>15, <1>16, <1>20, <3>1, <3>2
  <2>3. TableEnd(g.form, n) <= g.size
    <3>1. 1 \in 1..n
      BY <1>1
    <3>2. N[1] \in Nat /\ slices[1].size \in Nat /\ N[1] + slices[1].size <= g.size /\ N[1] >= TableEnd(g.form, n)
      BY <1>4, <1>6, <2>2, <3>1
    <3>3. TableEnd(g.form, n) \in Nat
      BY <1>1 DEF TableEnd
    <3> QED BY <1>20, <3>2, <3>3
  <2>4. ParseMachOContainer(g)
    BY <1>1, <1>9, <1>10, <1>12, <1>16, <1>19, <1>21, <2>2, <2>3, ZenonT(30) DEF ParseMachOContainer
  <2> QED BY <1>16, <2>1, <2>4 DEF Acceptable
<1>24. EndOf(g) = end
  <2>1. {g.table[i].offset + g.table[i].size : i \in DOMAIN g.table} = Ends
    <3>1. /\ DOMAIN g.table = 1..n
          /\ \A i \in 1..n : g.table[i].offset + g.table[i].size = N[i] + slices[i].size
      BY <1>19
    <3> QED BY <3>1
  <2> QED BY <2>1 DEF EndOf, end
<1>25. g.size - EndOf(g) = f.size - EndOf(f)
  BY <1>8, <1>15, <1>16, <1>24
<1> QED BY <1>6, <1>14, <1>16, <1>19, <1>21, <1>22, <1>23, <1>25, ZenonT(30) DEF Rebuilt, n, g

\* Either: the new file is one the library accepts, with the given slices.
LEMMA NewFileIs ==
  ASSUME NEW f, IsFile(f), Acceptable(f),
         NEW slices, \A i \in 1..Len(f.table) : Good(slices[i]), NewFile(f, slices).ok
  PROVE  Rebuilt(f, slices, NewFile(f, slices).file)
<1>1. 1 \in 1..Len(f.table)
  BY AcceptableParts
<1> QED BY <1>1, ThinRebuilt, UniversalRebuilt
-----------------------------------------------------------------------------
(* The versions of a file. *)

\* A slice that differs in code or signature data is the same version.
LEMMA AlikeTouched ==
  ASSUME NEW o, NEW s, NEW t, Version(o, s), Touched(o, s), Alike(s, t)
  PROVE  Version(o, t) /\ Touched(o, t)
<1>1. Good(s) /\ Sound(s) /\ s.cpu = o.cpu /\ s.len = o.len /\ Unsigned(s.cmds) = Unsigned(o.cmds)
  BY DEF Version
<1>2. t.cpu = s.cpu /\ t.len = s.len /\ t.cmds = s.cmds
  BY DEF Alike
<1>3. Good(t) /\ Kept(t) = Kept(s)
  BY <1>1, AlikeSame
<1>4. Sound(t) /\ (Finished(s) => Finished(t)) /\ (AtEnd(s) => AtEnd(t))
  BY <1>1, AlikeVersion
<1>5. Touched(o, t)
  BY <1>3, <1>4 DEF Touched
<1> QED BY <1>1, <1>2, <1>3, <1>4, <1>5 DEF Version

\* A version without a signature is at most 15 bytes longer than the program.
LEMMA UnsignedSize ==
  ASSUME NEW o, NEW s, Good(o), Version(o, s), Sig(s) = 0
  PROVE  s.size < Kept(o) + 16
<1>1. Good(s) /\ (Alike(o, s) \/ Touched(o, s))
  BY DEF Version
<1>2. Kept(s) = s.size /\ s.size \in Nat
  BY <1>1, KeptIs, GoodParts
<1>3. Kept(s) = Kept(o) \/ (Kept(o) >= 0 /\ Kept(s) = Align16(Kept(o)))
  BY <1>1, AlikeSame DEF Touched
<1>4. CASE Kept(s) = Kept(o)
  BY <1>2, <1>4
<1>5. CASE Kept(o) >= 0 /\ Kept(s) = Align16(Kept(o))
  <2>1. Kept(o) \in Nat
    BY <1>5, KeptIs
  <2>2. Align16(Kept(o)) < Kept(o) + 16
    BY <2>1, Align16Facts
  <2> QED BY <1>2, <1>5, <2>2
<1> QED BY <1>3, <1>4, <1>5

\* Files f and o have tables of the same form.
Shaped(o, f) ==
  /\ f.form = o.form /\ Len(f.table) = Len(o.table)
  /\ f.size - EndOf(f) = o.size - EndOf(o)
  /\ \A i \in 1..Len(o.table) : f.table[i].align = o.table[i].align
  /\ \A i, j \in 1..Len(o.table) :
       f.table[i].offset < f.table[j].offset <=> o.table[i].offset < o.table[j].offset

\* File f is what signing, stripping and edits made of o.
FileVersion(o, f) ==
  /\ IsFile(f) /\ Shaped(o, f)
  /\ Acceptable(f) <=> Acceptable(o)
  /\ Acceptable(o) => \A i \in 1..Len(o.table) : Version(SliceAt(o, i), SliceAt(f, i))
  /\ ~Acceptable(o) => \A i \in 1..Len(o.table) :
       SliceAt(f, i) = SliceAt(o, i) \/ Alike(SliceAt(o, i), SliceAt(f, i))

\* A file is a version of itself.
LEMMA FileVersionSelf ==
  ASSUME NEW o, IsFile(o), \A s \in Slices(o) : Regular(s)
  PROVE  FileVersion(o, o)
<1>1. Shaped(o, o)
  BY DEF Shaped
<1>2. ASSUME Acceptable(o), NEW i \in 1..Len(o.table) PROVE Version(SliceAt(o, i), SliceAt(o, i))
  <2>1. Good(SliceAt(o, i)) /\ DOMAIN o.table = 1..Len(o.table)
    BY <1>2, AcceptableParts
  <2>2. Regular(SliceAt(o, i))
    BY <2>1 DEF Slices
  <2> QED BY <2>1, <2>2, RegularSound, VersionSelf
<1> QED BY <1>1, <1>2 DEF FileVersion

\* The order of the slices does not change.
LEMMA SameOrder ==
  ASSUME NEW o, NEW f, IsFile(o), IsFile(f), Shaped(o, f)
  PROVE  ByOffset(f) = ByOffset(o)
<1> DEFINE D == 1..Len(o.table)
<1>1. DOMAIN o.table = D /\ DOMAIN f.table = D
  BY TableParts DEF Shaped
<1>2. \A i, j \in D : f.table[i].offset < f.table[j].offset <=> o.table[i].offset < o.table[j].offset
  BY DEF Shaped
<1> HIDE DEF D
<1>3. ASSUME NEW order \in [D -> D]
      PROVE  (\A j, k \in D : j < k => f.table[order[j]].offset < f.table[order[k]].offset)
             <=> (\A j, k \in D : j < k => o.table[order[j]].offset < o.table[order[k]].offset)
  BY <1>2
<1>4. Orders(f) = Orders(o)
  BY <1>1, <1>3 DEF Orders
<1> QED BY <1>4 DEF ByOffset

\* Another tool's change of a slice.
EditedTo(f, g, x) ==
  /\ IsFile(g) /\ g.form = f.form /\ g.table = f.table /\ g.size = f.size
  /\ Acceptable(g) <=> Acceptable(f)
  /\ \A i \in 1..Len(f.table) :
       SliceAt(g, i) = SliceAt(f, i) \/ SliceAt(g, i) = Recoded(SliceAt(f, i), x)

\* What a change of the code of one program leaves as it was.
LEMMA Edited ==
  ASSUME NEW f, IsFile(f), NEW o \in DOMAIN f.at, NEW x,
         NEW g, g = [form |-> f.form, table |-> f.table,
                     at |-> [f.at EXCEPT ![o] = Recoded(@, x)],
                     clean |-> f.clean, size |-> f.size]
  PROVE  EditedTo(f, g, x)
<1>1. /\ g.form = f.form /\ g.table = f.table /\ g.clean = f.clean /\ g.size = f.size
      /\ g.at = [f.at EXCEPT ![o] = Recoded(@, x)]
      /\ g = [form |-> g.form, table |-> g.table, at |-> g.at, clean |-> g.clean, size |-> g.size]
  OBVIOUS
<1>2. /\ DOMAIN g.at = DOMAIN f.at
      /\ \A p \in DOMAIN f.at : g.at[p] = IF p = o THEN Recoded(f.at[p], x) ELSE f.at[p]
  <2>1. DOMAIN g.at = DOMAIN f.at
    BY <1>1
  <2>2. g.at = [p \in DOMAIN f.at |-> IF p = o THEN Recoded(f.at[o], x) ELSE f.at[p]]
    BY <1>1
  <2> QED BY <2>1, <2>2
<1>3. /\ f.table \in Seq([offset : Nat, size : Nat, align : Nat]) /\ f.size \in Nat
      /\ DOMAIN f.at \subseteq Nat
      /\ \A p \in DOMAIN f.at : IsSlice(f.at[p])
      /\ f.form = "thin" =>
           f.table = <<[offset |-> 0, size |-> f.size, align |-> 0]>> /\ DOMAIN f.at = {0}
  BY DEF IsFile
<1>4. ASSUME NEW p \in DOMAIN f.at PROVE IsSlice(g.at[p])
  <2>1. IsSlice(f.at[p])
    BY <1>3
  <2>2. IsSlice(Recoded(f.at[p], x))
    BY <2>1, RecodedAlike, AlikeSame
  <2> QED BY <1>2, <2>1, <2>2
<1>5. IsFile(g)
  BY <1>1, <1>2, <1>3, <1>4 DEF IsFile
<1>6. ASSUME NEW i \in 1..Len(f.table)
      PROVE  SliceAt(g, i) = SliceAt(f, i) \/ SliceAt(g, i) = Recoded(SliceAt(f, i), x)
  <2> DEFINE p == f.table[i].offset
  <2>1. CASE p \in DOMAIN f.at
    <3>1. g.at[p] = f.at[p] \/ g.at[p] = Recoded(f.at[p], x)
      BY <1>2, <2>1
    <3>2. g.at[p].size = f.at[p].size
      BY <3>1 DEF Recoded
    <3> QED BY <1>1, <1>2, <2>1, <3>1, <3>2 DEF SliceAt
  <2>2. CASE p \notin DOMAIN f.at
    BY <1>1, <1>2, <2>2 DEF SliceAt
  <2> QED BY <2>1, <2>2
<1>7. ASSUME NEW i \in 1..Len(f.table)
      PROVE  ParseMachOSlice(SliceAt(g, i)) = ParseMachOSlice(SliceAt(f, i))
  BY <1>6, RecodedAlike, AlikeParse
<1>8. DOMAIN f.table = 1..Len(f.table)
  BY TableParts
<1>9. ParseMachOContainer(g) <=> ParseMachOContainer(f)
  BY <1>1, <1>7 DEF ParseMachOContainer
<1>10. Supported(g) <=> Supported(f)
  BY <1>1, <1>7, <1>8 DEF Supported
<1>11. Acceptable(g) <=> Acceptable(f)
  BY <1>1, <1>9, <1>10 DEF Acceptable
<1> QED BY <1>1, <1>5, <1>6, <1>11 DEF EditedTo

\* After a change of the code a file is a version of the same original.
LEMMA EditedVersion ==
  ASSUME NEW o, IsFile(o), NEW f, FileVersion(o, f), NEW g, NEW x, EditedTo(f, g, x)
  PROVE  FileVersion(o, g)
<1>1. /\ IsFile(g) /\ g.form = f.form /\ g.table = f.table /\ g.size = f.size
      /\ Acceptable(g) <=> Acceptable(f)
      /\ \A i \in 1..Len(f.table) :
           SliceAt(g, i) = SliceAt(f, i) \/ SliceAt(g, i) = Recoded(SliceAt(f, i), x)
  BY DEF EditedTo
<1>2. /\ Shaped(o, f) /\ Len(f.table) = Len(o.table)
      /\ Acceptable(f) <=> Acceptable(o)
      /\ Acceptable(o) => \A i \in 1..Len(o.table) : Version(SliceAt(o, i), SliceAt(f, i))
      /\ ~Acceptable(o) => \A i \in 1..Len(o.table) :
           SliceAt(f, i) = SliceAt(o, i) \/ Alike(SliceAt(o, i), SliceAt(f, i))
  BY DEF FileVersion, Shaped
<1>3. EndOf(g) = EndOf(f)
  BY <1>1 DEF EndOf
<1>4. Shaped(o, g)
  BY <1>1, <1>2, <1>3 DEF Shaped
<1>5. ASSUME Acceptable(o), NEW i \in 1..Len(o.table) PROVE Version(SliceAt(o, i), SliceAt(g, i))
  BY <1>1, <1>2, <1>5, RecodedVersion
<1>6. ASSUME ~Acceptable(o), NEW i \in 1..Len(o.table)
      PROVE  SliceAt(g, i) = SliceAt(o, i) \/ Alike(SliceAt(o, i), SliceAt(g, i))
  <2>1. SliceAt(f, i) = SliceAt(o, i) \/ Alike(SliceAt(o, i), SliceAt(f, i))
    BY <1>2, <1>6
  <2>2. SliceAt(g, i) = SliceAt(f, i) \/ Alike(SliceAt(f, i), SliceAt(g, i))
    BY <1>1, <1>2, RecodedAlike
  <2> QED BY <2>1, <2>2 DEF Alike
<1> QED BY <1>1, <1>2, <1>4, <1>5, <1>6 DEF FileVersion
-----------------------------------------------------------------------------
(* What signing and stripping write. *)

Aligned(g) == \A i \in 1..Len(g.table) :
                g.table[i].offset % PowerOfTwo[g.table[i].align] = 0

\* File g holds these slices and is a version of o.
Holds(o, slices, g) ==
  /\ FileVersion(o, g) /\ Acceptable(o) /\ Aligned(g)
  /\ \A i \in 1..Len(o.table) : SliceAt(g, i) = slices[i]

\* A file around versions of the slices is a version of the same original.
LEMMA RebuiltVersion ==
  ASSUME NEW o, IsFile(o), NEW f, FileVersion(o, f), Acceptable(f),
         NEW slices, \A i \in 1..Len(o.table) : Version(SliceAt(o, i), slices[i]),
         NewFile(f, slices).ok
  PROVE  Holds(o, slices, NewFile(f, slices).file)
<1> DEFINE g == NewFile(f, slices).file
<1>1. IsFile(f) /\ Shaped(o, f) /\ Acceptable(o) /\ Len(f.table) = Len(o.table)
  BY DEF FileVersion, Shaped
<1>2. \A i \in 1..Len(f.table) : Good(slices[i])
  BY <1>1 DEF Version
<1>3. Rebuilt(f, slices, g)
  BY <1>1, <1>2, NewFileIs
<1> HIDE DEF g
<1>4. /\ IsFile(g) /\ Acceptable(g) /\ g.form = f.form /\ Len(g.table) = Len(f.table)
      /\ g.size - EndOf(g) = f.size - EndOf(f)
      /\ \A i \in 1..Len(f.table) :
           /\ SliceAt(g, i) = slices[i] /\ g.table[i].align = f.table[i].align
           /\ g.table[i].offset % PowerOfTwo[g.table[i].align] = 0
      /\ \A i, j \in 1..Len(f.table) :
           g.table[i].offset < g.table[j].offset <=> f.table[i].offset < f.table[j].offset
  BY <1>3 DEF Rebuilt
<1>5. Shaped(o, g)
  BY <1>1, <1>4 DEF Shaped
<1>6. FileVersion(o, g)
  BY <1>1, <1>4, <1>5 DEF FileVersion
<1> QED BY <1>1, <1>4, <1>6 DEF Holds, Aligned, g

-----------------------------------------------------------------------------
(* The plan of a slice. *)

\* A CodeDirectory has room for its magic and its length.
LEMMA DirectorySize ==
  ASSUME NEW r, r.identity \in Nat, NEW limit \in Nat
  PROVE  CodeDirectorySize(r, limit) \in Nat /\ CodeDirectorySize(r, limit) >= 8
<1> DEFINE a == AlignUp(limit, PageSize)
           q == a \div PageSize
<1>1. PageSize \in Nat /\ PageSize > 0
  BY BoundsAssumption
<1>2. a \in Nat
  BY <1>1, AlignUpBounds
<1> HIDE DEF a
<1>3. q \in Nat
  <2>1. PICK u \in Nat : u = PageSize /\ u > 0
    BY <1>1
  <2>2. a \div u \in Nat
    BY <1>2, <2>1
  <2> QED BY <2>1, <2>2
<1>4. CodeSlots(limit) = q
  BY DEF CodeSlots, a
<1> HIDE DEF q
<1> QED BY <1>3, <1>4 DEF CodeDirectorySize

\* Slice s can be planned for r: with size d reserved, n bytes of directory.
PlannedAs(s, r, d, n, p) ==
  /\ Signable(s) /\ d \in Nat /\ d > 0 /\ n \in Nat /\ n >= 8
  /\ 56 + n + r.capacity <= d
  /\ p.slice = Reserved(s, d)
  /\ p.cd = [covers |-> Covered(Reserved(s, d), Align16(Kept(s))), identity |-> r.identity,
             size |-> n, cpu |-> s.cpu]

\* The region that is planned has room for the signature.
LEMMA PlanIs ==
  ASSUME NEW s, Good(s), NEW r, r.identity \in Nat, r.capacity \in Nat, PlanSlice(s, r).ok
  PROVE  \E d, n : PlannedAs(s, r, d, n, PlanSlice(s, r))
<1> DEFINE K == Align16(Kept(s))
           n == CodeDirectorySize(r, K)
           d == Align16(SuperBlobFixedSize + n + r.capacity)
           p == PlanSlice(s, r)
<1>1. Signable(s) /\ p.slice = Reserved(s, d)
      /\ p.cd = [covers |-> Covered(Reserved(s, d), K), identity |-> r.identity, size |-> n, cpu |-> s.cpu]
  BY DEF PlanSlice, PlanAs, Malformed
<1>2. Kept(s) \in Nat
  BY <1>1, KeptIs, SignableIs
<1>3. K \in Nat
  BY <1>2, Align16Facts
<1>4. n \in Nat /\ n >= 8
  BY <1>3, DirectorySize
<1> HIDE DEF n, p, K
<1>5. SuperBlobFixedSize + n + r.capacity = 56 + n + r.capacity /\ 56 + n + r.capacity \in Nat
  BY <1>4 DEF SuperBlobFixedSize
<1>6. d \in Nat /\ 56 + n + r.capacity <= d
  BY <1>5, Align16Facts
<1> HIDE DEF d
<1>7. d > 0
  BY <1>4, <1>6
<1>8. PlannedAs(s, r, d, n, p)
  BY <1>1, <1>4, <1>6, <1>7 DEF PlannedAs, K
<1> QED BY <1>8 DEF p

-----------------------------------------------------------------------------
(* The blobs of a signature. *)

\* The least number of a set of one.
LEMMA OneIn ==
  ASSUME NEW k \in Nat
  PROVE  Min({k}) = k
BY MinOfTwo, {k, k} = {k}

\* The CodeDirectory and the CMS are found where they were put.
LEMMA SuperBlobIs ==
  ASSUME NEW cd, NEW cms, cd.size \in Nat, cd.size >= 8, cms.size \in Nat
  PROVE  LET b == BuildSuperBlob(cd, cms)
         IN  /\ b.length = 56 + cd.size + cms.size
             /\ \E x \in FindSuperBlobSlot(b, "directory") : x.data = cd
             /\ \E x \in FindSuperBlobSlot(b, "cms") : x.data = cms
<1> DEFINE b == BuildSuperBlob(cd, cms)
           e1 == [slot |-> "directory", offset |-> 36]
           e2 == [slot |-> "requirements", offset |-> 36 + cd.size]
           e3 == [slot |-> "cms", offset |-> 48 + cd.size]
           x1 == [offset |-> 36, magic |-> "directory", length |-> cd.size, data |-> cd]
           x2 == [offset |-> 36 + cd.size, magic |-> "requirements", length |-> 12, data |-> 0]
           x3 == [offset |-> 48 + cd.size, magic |-> "cms", length |-> 8 + cms.size, data |-> cms]
<1>1. 12 + 3 * 8 = 36 /\ (36 + cd.size) + 12 = 48 + cd.size
      /\ (48 + cd.size) + 8 + cms.size = 56 + cd.size + cms.size
  OBVIOUS
<1>2. b.length = 56 + cd.size + cms.size /\ b.index = <<e1, e2, e3>> /\ b.blobs = {x1, x2, x3}
  BY <1>1 DEF BuildSuperBlob
<1> HIDE DEF b
<1>3. Len(b.index) = 3 /\ DOMAIN b.index = {1, 2, 3}
      /\ b.index[1] = e1 /\ b.index[2] = e2 /\ b.index[3] = e3
  BY <1>2
<1>4. /\ e1.slot = "directory" /\ e2.slot = "requirements" /\ e3.slot = "cms"
      /\ e1.offset = 36 /\ e2.offset = 36 + cd.size /\ e3.offset = 48 + cd.size
  OBVIOUS
<1>5. /\ x1.offset = 36 /\ x1.magic = "directory" /\ x1.length = cd.size /\ x1.data = cd
      /\ x3.offset = 48 + cd.size /\ x3.magic = "cms" /\ x3.length = 8 + cms.size /\ x3.data = cms
      /\ x1 \in b.blobs /\ x3 \in b.blobs
  BY <1>2
<1> HIDE DEF e1, e2, e3, x1, x2, x3
<1>6. ~(b.length < 12 \/ 12 + 8 * Len(b.index) > b.length)
  BY <1>2, <1>3
<1>7. ~(\E i \in DOMAIN b.index : \/ b.index[i].offset < 12 + 8 * Len(b.index)
                                  \/ b.index[i].offset + 8 > b.length)
  <2> SUFFICES ASSUME NEW i \in {1, 2, 3}
               PROVE  ~(b.index[i].offset < 36) /\ ~(b.index[i].offset + 8 > b.length)
    BY <1>3
  <2>1. b.index[i].offset \in {36, 36 + cd.size, 48 + cd.size}
    BY <1>3, <1>4
  <2> QED BY <1>2, <2>1
<1>8. {i \in DOMAIN b.index : b.index[i].slot = "directory"} = {1}
  BY <1>3, <1>4
<1>9. {i \in DOMAIN b.index : b.index[i].slot = "cms"} = {3}
  BY <1>3, <1>4
<1>10. Min({1}) = 1 /\ Min({3}) = 3 /\ {1} # {} /\ {3} # {}
  BY OneIn
<1>11. x1 \in FindSuperBlobSlot(b, "directory")
  <2>1. x1.length >= 8 /\ x1.offset + x1.length <= b.length
    BY <1>2, <1>5
  <2>2. x1.offset = b.index[1].offset
    BY <1>3, <1>4, <1>5
  <2> QED BY <1>5, <1>6, <1>7, <1>8, <1>10, <2>1, <2>2 DEF FindSuperBlobSlot
<1>12. x3 \in FindSuperBlobSlot(b, "cms")
  <2>1. x3.length >= 8 /\ x3.offset + x3.length <= b.length
    BY <1>2, <1>5
  <2>2. x3.offset = b.index[3].offset
    BY <1>3, <1>4, <1>5
  <2> QED BY <1>5, <1>6, <1>7, <1>9, <1>10, <2>1, <2>2 DEF FindSuperBlobSlot
<1> QED BY <1>2, <1>5, <1>11, <1>12 DEF b

\* A slice that was planned and filled verifies.
LEMMA FilledVerifies ==
  ASSUME NEW s, Good(s), NEW r, r.capacity \in Nat, NEW d, NEW n, NEW p, PlannedAs(s, r, d, n, p),
         SignedAs(s, d, p.slice),
         NEW cms, cms.size \in Nat, cms.size <= r.capacity, cms.over = p.cd
  PROVE  LET t == Filled(p.slice, BuildSuperBlob(p.cd, cms))
         IN  Verifies(t) /\ SignatureOfSlice(t) # <<>>
<1> DEFINE u == p.slice
           b == BuildSuperBlob(p.cd, cms)
           t == Filled(u, b)
           K == Align16(Kept(s))
<1>1. /\ d \in Nat /\ d > 0 /\ n \in Nat /\ n >= 8 /\ 56 + n + r.capacity <= d /\ u = Reserved(s, d)
      /\ p.cd = [covers |-> Covered(Reserved(s, d), K), identity |-> r.identity, size |-> n, cpu |-> s.cpu]
  BY DEF PlannedAs
<1>2. p.cd.size = n /\ p.cd.covers = Covered(u, K)
  BY <1>1
<1>3. /\ b.length = 56 + n + cms.size
      /\ \E x \in FindSuperBlobSlot(b, "directory") : x.data = p.cd
      /\ \E x \in FindSuperBlobSlot(b, "cms") : x.data = cms
  BY <1>1, <1>2, SuperBlobIs
<1>4. /\ Good(u) /\ Sig(u) # 0 /\ u.size = K + d /\ K > 0
      /\ u.cmds[Sig(u)].dataoff = K /\ u.cmds[Sig(u)].datasize = d
  BY DEF SignedAs
<1>5. Alike(u, t) /\ t.code = u.code /\ t.blob = <<b>>
  BY FilledAlike
<1> HIDE DEF t, b
<1>6. Good(t) /\ Sig(t) = Sig(u)
  BY <1>4, <1>5, AlikeSame
<1>7. ParseMachOSlice(t).codesig = Sig(u) /\ t.magic = "supported"
  BY <1>6, ParseGood DEF Good
<1>8. t.cmds = u.cmds /\ t.size = u.size /\ t.blob[1] = b /\ t.blob # <<>>
  BY <1>5 DEF Alike
<1>9. Signed(t)
  BY <1>4, <1>7 DEF Signed
<1>10. SignatureOfSlice(t) # <<>>
  BY <1>1, <1>4, <1>7, <1>8, <1>9 DEF SignatureOfSlice
<1>11. Covered(t, K) = Covered(u, K)
  BY <1>5 DEF Alike, Covered
<1>12. Verifies(t)
  <2>1. t.blob[1].length <= d
    BY <1>1, <1>3, <1>8
  <2>2. \E x \in FindSuperBlobSlot(t.blob[1], "directory") : x.data.covers = Covered(t, K)
    BY <1>2, <1>3, <1>8, <1>11
  <2>3. \E x \in FindSuperBlobSlot(t.blob[1], "directory"),
           c \in FindSuperBlobSlot(t.blob[1], "cms") : c.data.over = x.data
    BY <1>3, <1>8
  <2> QED BY <1>4, <1>7, <1>8, <1>9, <2>1, <2>2, <2>3 DEF Verifies
<1> QED BY <1>10, <1>12 DEF t, b
-----------------------------------------------------------------------------
(* The plan of a file, and what CompleteSignature and StripSignature make of it. *)

\* When a file can be planned, and its plans.
LEMMA PlanAllIs ==
  ASSUME NEW f, NEW r
  PROVE  /\ PlanAll(f, r).ok <=>
              /\ Acceptable(f) /\ ~(r.capacity > MaxCapacity)
              /\ \A i \in DOMAIN f.table : PlanSlice(SliceAt(f, i), r).ok
         /\ PlanAll(f, r).ok =>
              PlanAll(f, r).slices = [i \in DOMAIN f.table |-> PlanSlice(SliceAt(f, i), r)]
<1> DEFINE plans == [i \in DOMAIN f.table |-> PlanSlice(SliceAt(f, i), r)]
<1>1. PlanAll(f, r) =
        IF ~Acceptable(f) \/ r.capacity > MaxCapacity \/ \E i \in DOMAIN f.table : ~plans[i].ok
        THEN Malformed
        ELSE [ok |-> TRUE, slices |-> plans]
  BY DEF PlanAll
<1>2. \A i \in DOMAIN f.table : plans[i] = PlanSlice(SliceAt(f, i), r)
  OBVIOUS
<1> DEFINE bad == ~Acceptable(f) \/ r.capacity > MaxCapacity \/ \E i \in DOMAIN f.table : ~plans[i].ok
<1>3. bad <=> ~(/\ Acceptable(f) /\ ~(r.capacity > MaxCapacity)
                /\ \A i \in DOMAIN f.table : PlanSlice(SliceAt(f, i), r).ok)
  BY <1>2
<1> HIDE DEF plans, bad
<1>4. CASE bad
  BY <1>1, <1>3, <1>4 DEF Malformed, bad
<1>5. CASE ~bad
  <2>1. PlanAll(f, r) = [ok |-> TRUE, slices |-> plans]
    BY <1>1, <1>5 DEF bad
  <2>2. PlanAll(f, r).ok /\ PlanAll(f, r).slices = plans
    BY <2>1
  <2> QED BY <1>3, <1>5, <2>2 DEF plans
<1> QED BY <1>4, <1>5

\* File g is a version of o that was signed as a whole.
SignedFile(o, g) ==
  /\ FileVersion(o, g) /\ Acceptable(o) /\ Aligned(g)
  /\ \A i \in 1..Len(o.table) :
       /\ Touched(SliceAt(o, i), SliceAt(g, i))
       /\ Verifies(SliceAt(g, i)) /\ SignatureOfSlice(SliceAt(g, i)) # <<>>

\* What CompleteSignature writes is a version of the original that verifies.
LEMMA CompletedFile ==
  ASSUME NEW o, IsFile(o), NEW f, FileVersion(o, f),
         NEW r, r.identity \in Nat, r.capacity \in Nat,
         NEW cds, DOMAIN cds = 1..Len(o.table),
         NEW cms, DOMAIN cms = 1..Len(o.table),
         \A i \in 1..Len(o.table) : cms[i].size \in Nat /\ cms[i].over = cds[i],
         Complete(f, r, cds, cms).ok
  PROVE  SignedFile(o, Complete(f, r, cds, cms).file)
<1> DEFINE n == Len(o.table)
           plan == PlanAll(f, r)
           P(i) == PlanSlice(SliceAt(f, i), r)
           blob(i) == BuildSuperBlob(plan.slices[i].cd, cms[i])
           slices == [i \in DOMAIN f.table |-> Filled(plan.slices[i].slice, blob(i))]
           g == Complete(f, r, cds, cms).file
<1>1. /\ IsFile(f) /\ Shaped(o, f) /\ Len(f.table) = n
      /\ Acceptable(f) <=> Acceptable(o)
      /\ Acceptable(o) => \A i \in 1..n : Version(SliceAt(o, i), SliceAt(f, i))
  BY DEF FileVersion, Shaped
<1>2. DOMAIN f.table = 1..n /\ DOMAIN o.table = 1..n
  BY <1>1, TableParts
<1>3. /\ ~(\/ ~SameDirectories(plan, cds) \/ Len(cms) # Len(plan.slices)
           \/ \E i \in DOMAIN cms : cms[i].size > r.capacity)
      /\ Complete(f, r, cds, cms) = NewFile(f, slices)
  BY DEF Complete, CompleteAs, SignedSlice, Malformed
<1>4. plan.ok /\ (\A i \in 1..n : plan.slices[i].cd = cds[i]) /\ \A i \in 1..n : ~(cms[i].size > r.capacity)
  BY <1>3 DEF SameDirectories
<1>5. Acceptable(f) /\ (\A i \in 1..n : P(i).ok) /\ \A i \in 1..n : plan.slices[i] = P(i)
  <2>0. PlanAll(f, r).ok
    BY <1>4
  <2>1. Acceptable(f) /\ \A i \in DOMAIN f.table : PlanSlice(SliceAt(f, i), r).ok
    BY <2>0, PlanAllIs, Zenon
  <2>2. plan.slices = [i \in DOMAIN f.table |-> PlanSlice(SliceAt(f, i), r)]
    <3>1. PlanAll(f, r).ok =>
            PlanAll(f, r).slices = [i \in DOMAIN f.table |-> PlanSlice(SliceAt(f, i), r)]
      BY PlanAllIs
    <3> QED BY <2>0, <3>1
  <2> HIDE DEF plan, n
  <2> QED BY <1>2, <2>1, <2>2
<1>6. \A i \in 1..n : slices[i] = Filled(P(i).slice, BuildSuperBlob(P(i).cd, cms[i]))
  BY <1>2, <1>5
<1>7. Acceptable(o) /\ \A i \in 1..n : Version(SliceAt(o, i), SliceAt(f, i)) /\ Good(SliceAt(o, i))
  BY <1>1, <1>5, AcceptableParts
<1>8. \A i \in 1..n : cms[i].size \in Nat /\ cms[i].size <= r.capacity /\ cms[i].over = P(i).cd
  BY <1>4, <1>5
<1> HIDE DEF slices, g, n, plan
<1>9. ASSUME NEW i \in 1..n
      PROVE  /\ Version(SliceAt(o, i), slices[i]) /\ Touched(SliceAt(o, i), slices[i])
             /\ Verifies(slices[i]) /\ SignatureOfSlice(slices[i]) # <<>>
  <2> DEFINE s == SliceAt(f, i)
             p == P(i)
             t == SliceAt(o, i)
             u == Filled(p.slice, BuildSuperBlob(p.cd, cms[i]))
  <2>1. Version(t, s) /\ Good(t) /\ Good(s) /\ p.ok
    BY <1>5, <1>7 DEF Version
  <2>2. PICK d, m : PlannedAs(s, r, d, m, p)
    BY <2>1, PlanIs
  <2>3. Signable(s) /\ d \in Nat /\ d > 0 /\ p.slice = Reserved(s, d)
    BY <2>2 DEF PlannedAs
  <2>4. SignedAs(s, d, p.slice) /\ Version(t, p.slice) /\ Touched(t, p.slice)
    BY <2>1, <2>3, SignedVersion
  <2>5. Alike(p.slice, u)
    BY FilledAlike
  <2>6. cms[i].size \in Nat /\ cms[i].size <= r.capacity /\ cms[i].over = p.cd
    BY <1>8
  <2>7. slices[i] = u
    BY <1>6
  <2> HIDE DEF s, p, t
  <2>8. Verifies(u) /\ SignatureOfSlice(u) # <<>>
    BY <2>1, <2>2, <2>4, <2>6, FilledVerifies
  <2> HIDE DEF u
  <2>9. Version(t, u) /\ Touched(t, u)
    BY <2>4, <2>5, AlikeTouched
  <2> QED BY <2>7, <2>8, <2>9 DEF t
<1>10. NewFile(f, slices).ok
  BY <1>3 DEF slices, plan
<1>11. Holds(o, slices, NewFile(f, slices).file)
  BY <1>5, <1>9, <1>10, RebuiltVersion DEF n
<1>12. g = NewFile(f, slices).file
  BY <1>3 DEF slices, plan, g
<1>13. Holds(o, slices, g)
  BY <1>11, <1>12
<1> QED BY <1>9, <1>13 DEF Holds, SignedFile, g, n

\* File g is a version of o that was stripped.
StrippedFile(o, g) ==
  /\ FileVersion(o, g) /\ Acceptable(o) /\ Aligned(g)
  /\ \A i \in 1..Len(o.table) :
       /\ Sig(SliceAt(g, i)) = 0
       /\ \/ Touched(SliceAt(o, i), SliceAt(g, i))
          \/ Alike(SliceAt(o, i), SliceAt(g, i)) /\ Sig(SliceAt(o, i)) = 0

\* What StripSignature writes is a version of the original without signatures.
LEMMA StrippedFileIs ==
  ASSUME NEW o, IsFile(o), NEW f, FileVersion(o, f), Strip(f).ok, Strip(f).file # f
  PROVE  StrippedFile(o, Strip(f).file)
<1> DEFINE n == Len(o.table)
           S(i) == IF Signed(SliceAt(f, i)) THEN StripSlice(SliceAt(f, i))
                   ELSE [ok |-> TRUE, slice |-> SliceAt(f, i)]
           stripped == [i \in DOMAIN f.table |-> S(i)]
           slices == [i \in DOMAIN stripped |-> stripped[i].slice]
           g == Strip(f).file
<1>1. /\ IsFile(f) /\ Shaped(o, f) /\ Len(f.table) = n
      /\ Acceptable(f) <=> Acceptable(o)
      /\ Acceptable(o) => \A i \in 1..n : Version(SliceAt(o, i), SliceAt(f, i))
  BY DEF FileVersion, Shaped
<1>2. DOMAIN f.table = 1..n /\ DOMAIN o.table = 1..n
  BY <1>1, TableParts
<1>3. Strip(f) = IF ~Acceptable(f) \/ \E i \in DOMAIN stripped : ~stripped[i].ok THEN Malformed
                 ELSE IF \A i \in DOMAIN f.table : ~Signed(SliceAt(f, i)) THEN [ok |-> TRUE, file |-> f]
                 ELSE NewFile(f, slices)
  BY DEF Strip
<1>4. DOMAIN stripped = 1..n /\ \A i \in 1..n : stripped[i] = S(i) /\ slices[i] = S(i).slice
  BY <1>2
<1> HIDE DEF stripped, slices, S
<1>5. Acceptable(f) /\ (\A i \in 1..n : S(i).ok) /\ Strip(f) = NewFile(f, slices)
  BY <1>3, <1>4 DEF Malformed
<1>6. Acceptable(o) /\ \A i \in 1..n : Version(SliceAt(o, i), SliceAt(f, i)) /\ Good(SliceAt(o, i))
  BY <1>1, <1>5, AcceptableParts
<1> HIDE DEF n, g
<1>7. ASSUME NEW i \in 1..n
      PROVE  /\ Version(SliceAt(o, i), slices[i]) /\ Sig(slices[i]) = 0
             /\ \/ Touched(SliceAt(o, i), slices[i])
                \/ Alike(SliceAt(o, i), slices[i]) /\ Sig(SliceAt(o, i)) = 0
  <2> DEFINE s == SliceAt(f, i)
             t == SliceAt(o, i)
  <2>1. Version(t, s) /\ Good(t) /\ Good(s) /\ (Alike(t, s) \/ Touched(t, s))
    BY <1>6 DEF Version
  <2>2. Signed(s) <=> Sig(s) # 0
    BY <2>1, ParseGood DEF Good, Signed
  <2>3. CASE Sig(s) # 0
    <3>1. S(i) = StripSlice(s) /\ slices[i] = StripSlice(s).slice /\ StripSlice(s).ok
      BY <1>4, <1>5, <2>2, <2>3 DEF S
    <3>2. Version(t, StripSlice(s).slice) /\ Touched(t, StripSlice(s).slice) /\ Sig(StripSlice(s).slice) = 0
      <4> HIDE DEF s, t
      <4> QED BY <2>1, <2>3, <3>1, StrippedVersion
    <3> QED BY <3>1, <3>2
  <2>4. CASE Sig(s) = 0
    <3>1. slices[i] = s
      BY <1>4, <2>2, <2>4 DEF S
    <3>2. Alike(t, s) => Sig(t) = 0
      BY <2>4, AlikeSame
    <3> QED BY <2>1, <2>4, <3>1, <3>2
  <2> QED BY <2>3, <2>4
<1>8. Holds(o, slices, NewFile(f, slices).file)
  BY <1>5, <1>7, RebuiltVersion DEF n
<1>9. Holds(o, slices, g)
  BY <1>5, <1>8 DEF g
<1> QED BY <1>7, <1>9 DEF Holds, StrippedFile, g, n
-----------------------------------------------------------------------------
(* The inductive invariant. *)

\* Every slice could be signed from the beginning, or was signed or stripped.
Ready(o, f) ==
  \A i \in 1..Len(o.table) : Signable(SliceAt(o, i)) \/ Touched(SliceAt(o, i), SliceAt(f, i))

\* Readiness survives a change of the code.
LEMMA ReadyEdited ==
  ASSUME NEW o, NEW f, FileVersion(o, f), Ready(o, f), NEW g, NEW x, EditedTo(f, g, x)
  PROVE  Ready(o, g)
<1> SUFFICES ASSUME NEW i \in 1..Len(o.table), Touched(SliceAt(o, i), SliceAt(f, i))
             PROVE  Touched(SliceAt(o, i), SliceAt(g, i))
  BY DEF Ready
<1> DEFINE s == SliceAt(f, i)
           t == SliceAt(g, i)
           b == SliceAt(o, i)
<1>1. t = s \/ Alike(s, t)
  BY RecodedAlike DEF FileVersion, Shaped, EditedTo
<1> HIDE DEF s, t, b
<1>2. Touched(b, s)
  BY DEF s, b
<1>3. CASE Alike(s, t)
  <2>1. Kept(t) = Kept(s) /\ (Finished(s) => Finished(t)) /\ (AtEnd(s) => AtEnd(t))
    BY <1>3, AlikeSame, AlikeVersion
  <2> QED BY <1>2, <2>1 DEF Touched, t, b
<1> QED BY <1>1, <1>2, <1>3 DEF s, t, b

\* Readiness survives stripping.
LEMMA ReadyStripped ==
  ASSUME NEW o, NEW f, Ready(o, f), NEW g, StrippedFile(o, g)
  PROVE  Ready(o, g)
<1> SUFFICES ASSUME NEW i \in 1..Len(o.table)
             PROVE  Signable(SliceAt(o, i)) \/ Touched(SliceAt(o, i), SliceAt(g, i))
  BY DEF Ready
<1>1. Touched(SliceAt(o, i), SliceAt(g, i)) \/ Sig(SliceAt(o, i)) = 0
  BY DEF StrippedFile
<1>2. Signable(SliceAt(o, i)) \/ Touched(SliceAt(o, i), SliceAt(f, i))
  BY DEF Ready
<1>3. Touched(SliceAt(o, i), SliceAt(f, i)) /\ Sig(SliceAt(o, i)) = 0 => Signable(SliceAt(o, i))
  BY DEF Touched
<1> QED BY <1>1, <1>2, <1>3

\* A signed file is ready.
LEMMA ReadySigned ==
  ASSUME NEW o, NEW g, SignedFile(o, g)
  PROVE  Ready(o, g)
BY DEF SignedFile, Ready

\* A file that can be planned is ready.
LEMMA ReadyPlanned ==
  ASSUME NEW o, IsFile(o), NEW f, FileVersion(o, f), NEW r, PlanAll(f, r).ok
  PROVE  Ready(o, f)
<1> SUFFICES ASSUME NEW i \in 1..Len(o.table)
             PROVE  Signable(SliceAt(o, i)) \/ Touched(SliceAt(o, i), SliceAt(f, i))
  BY DEF Ready
<1>1. DOMAIN f.table = 1..Len(o.table)
  BY TableParts DEF FileVersion, Shaped
<1>2. Acceptable(f) /\ \A j \in DOMAIN f.table : PlanSlice(SliceAt(f, j), r).ok
  BY PlanAllIs, Zenon
<1>3. Version(SliceAt(o, i), SliceAt(f, i))
  BY <1>2 DEF FileVersion
<1>4. Signable(SliceAt(f, i))
  BY <1>1, <1>2 DEF PlanSlice, PlanAs, Malformed
<1>5. Alike(SliceAt(o, i), SliceAt(f, i)) => Signable(SliceAt(o, i))
  BY <1>4, AlikeVersion
<1> QED BY <1>3, <1>5 DEF Version

\* What signer s prepared, from a version of the file that could be signed.
PreparedFrom(s, v) ==
  /\ FileVersion(origin, v) /\ PlanAll(v, Request[s]).ok
  /\ prepared[s] = [i \in DOMAIN v.table |-> PlanAll(v, Request[s]).slices[i].cd]

SignerInv(s) ==
  /\ pc[s] \in {"complete", "strip"} => FileVersion(origin, snap[s][1])
  /\ pc[s] \in {"prepared", "complete"} => Ready(origin, file) /\ \E v : PreparedFrom(s, v)

FileInv ==
  /\ FileVersion(origin, file)
  /\ last = "complete" => SignedFile(origin, file)
  /\ last = "strip" => StrippedFile(origin, file)

IInv ==
  /\ origin \in Programs
  /\ DOMAIN pc = Signers /\ DOMAIN prepared = Signers /\ DOMAIN snap = Signers
  /\ IsRegular => FileInv /\ \A s \in Signers : SignerInv(s)

\* The invariant holds at first.
LEMMA Initially == Init => IInv
<1> SUFFICES ASSUME Init PROVE IInv
  OBVIOUS
<1>1. origin \in Programs /\ file = origin /\ last = "none" /\ \A s \in Signers : pc[s] = "idle"
  BY DEF Init
<1>2. DOMAIN pc = Signers /\ DOMAIN prepared = Signers /\ DOMAIN snap = Signers
  BY DEF Init
<1>3. IsRegular => FileVersion(origin, origin)
  BY <1>1, ProgramsAssumption, FileVersionSelf DEF IsRegular
<1> QED BY <1>1, <1>2, <1>3 DEF IInv, FileInv, SignerInv

\* A signer for which nothing changes, when the file still is ready if it was.
LEMMA SameSigner ==
  ASSUME NEW s, SignerInv(s), origin' = origin,
         pc'[s] = pc[s], snap'[s] = snap[s], prepared'[s] = prepared[s],
         Ready(origin, file) => Ready(origin, file')
  PROVE  SignerInv(s)'
<1>1. \A v : PreparedFrom(s, v) => PreparedFrom(s, v)'
  BY DEF PreparedFrom
<1>2. Ready(origin, file) => Ready(origin, file)'
  OBVIOUS
<1> QED BY <1>1, <1>2 DEF SignerInv

\* What a step of signer s does to the others.
LEMMA OtherSigners ==
  ASSUME NEW s \in Signers,
         DOMAIN pc = Signers /\ DOMAIN prepared = Signers /\ DOMAIN snap = Signers,
         \/ prepared' = prepared
         \/ \E x : prepared' = [prepared EXCEPT ![s] = x],
         \/ snap' = snap
         \/ \E x : snap' = [snap EXCEPT ![s] = x],
         \E x : pc' = [pc EXCEPT ![s] = x]
  PROVE  /\ DOMAIN pc' = Signers /\ DOMAIN prepared' = Signers /\ DOMAIN snap' = Signers
         /\ \A t \in Signers \ {s} :
              pc'[t] = pc[t] /\ snap'[t] = snap[t] /\ prepared'[t] = prepared[t]
OBVIOUS
-----------------------------------------------------------------------------
(* The steps. *)

\* Whether the original is regular never changes.
LEMMA SameOrigin ==
  ASSUME origin' = origin
  PROVE  IsRegular' = IsRegular
BY DEF IsRegular

\* A step of one signer keeps the invariant when it does for the file and this signer.
LEMMA SignerStep ==
  ASSUME IInv, NEW s \in Signers, origin' = origin,
         \/ prepared' = prepared
         \/ \E x : prepared' = [prepared EXCEPT ![s] = x],
         \/ snap' = snap
         \/ \E x : snap' = [snap EXCEPT ![s] = x],
         \E x : pc' = [pc EXCEPT ![s] = x],
         IsRegular => FileInv' /\ SignerInv(s)' /\ (Ready(origin, file) => Ready(origin, file'))
  PROVE  IInv'
<1>1. DOMAIN pc = Signers /\ DOMAIN prepared = Signers /\ DOMAIN snap = Signers /\ origin \in Programs
  BY DEF IInv
<1>2. /\ DOMAIN pc' = Signers /\ DOMAIN prepared' = Signers /\ DOMAIN snap' = Signers
      /\ \A t \in Signers \ {s} :
           pc'[t] = pc[t] /\ snap'[t] = snap[t] /\ prepared'[t] = prepared[t]
  BY <1>1, OtherSigners
<1>3. IsRegular' = IsRegular
  BY SameOrigin
<1>4. ASSUME IsRegular, NEW t \in Signers PROVE SignerInv(t)'
  <2>1. CASE t = s
    BY <1>4, <2>1
  <2>2. CASE t # s
    <3>1. SignerInv(t)
      BY <1>4 DEF IInv
    <3>2. pc'[t] = pc[t] /\ snap'[t] = snap[t] /\ prepared'[t] = prepared[t]
      BY <1>2, <2>2
    <3>3. Ready(origin, file) => Ready(origin, file')
      BY <1>4
    <3> QED BY <3>1, <3>2, <3>3, SameSigner
  <2> QED BY <2>1, <2>2
<1> QED BY <1>1, <1>2, <1>3, <1>4 DEF IInv

\* Nothing is asked of an idle signer.
LEMMA IdleSigner ==
  ASSUME NEW s, pc'[s] = "idle"
  PROVE  SignerInv(s)'
BY DEF SignerInv

\* A step that leaves the file alone.
LEMMA FileUnchanged ==
  ASSUME FileInv, origin' = origin, file' = file, last' = last
  PROVE  FileInv' /\ (Ready(origin, file) => Ready(origin, file'))
BY DEF FileInv

\* PrepareSignature keeps the invariant.
LEMMA PrepareStep ==
  ASSUME IInv, NEW s \in Signers, Prepare(s)
  PROVE  IInv'
<1>1. /\ PlanAll(file, Request[s]).ok
      /\ prepared' = [prepared EXCEPT ![s] =
                        [i \in DOMAIN file.table |-> PlanAll(file, Request[s]).slices[i].cd]]
      /\ pc' = [pc EXCEPT ![s] = "prepared"]
      /\ origin' = origin /\ file' = file /\ snap' = snap /\ last' = last
  BY DEF Prepare
<1>2. origin \in Programs /\ DOMAIN pc = Signers /\ DOMAIN prepared = Signers
  BY DEF IInv
<1>3. IsFile(origin)
  BY <1>2, ProgramsAssumption
<1>4. ASSUME IsRegular PROVE FileInv' /\ SignerInv(s)' /\ (Ready(origin, file) => Ready(origin, file'))
  <2>1. FileInv /\ FileVersion(origin, file)
    BY <1>4 DEF IInv, FileInv
  <2>2. Ready(origin, file)
    BY <1>1, <1>3, <2>1, ReadyPlanned
  <2>3. pc'[s] = "prepared"
    BY <1>1, <1>2
  <2>4. prepared'[s] = [i \in DOMAIN file.table |-> PlanAll(file, Request[s]).slices[i].cd]
    BY <1>1, <1>2
  <2>5. PreparedFrom(s, file)'
    BY <1>1, <2>1, <2>4 DEF PreparedFrom
  <2>6. SignerInv(s)'
    <3>1. \E v : PreparedFrom(s, v)'
      BY <2>5, <1>1
    <3> QED BY <1>1, <2>2, <2>3, <3>1 DEF SignerInv
  <2> QED BY <1>1, <2>1, <2>6, FileUnchanged
<1> QED BY <1>1, <1>4, SignerStep

\* So do CompleteSignature and StripSignature when they read the file.
LEMMA ReadStep ==
  ASSUME IInv, NEW s \in Signers, CompleteRead(s) \/ StripRead(s)
  PROVE  IInv'
<1>1. PICK from, to : Read(s, from, to) /\ (<<from, to>> = <<"prepared", "complete">> \/ <<from, to>> = <<"idle", "strip">>)
  BY DEF CompleteRead, StripRead
<1>2. /\ pc[s] = from /\ snap' = [snap EXCEPT ![s] = <<file>>] /\ pc' = [pc EXCEPT ![s] = to]
      /\ origin' = origin /\ file' = file /\ prepared' = prepared /\ last' = last
  BY <1>1 DEF Read
<1>3. DOMAIN pc = Signers /\ DOMAIN snap = Signers
  BY DEF IInv
<1>4. ASSUME IsRegular PROVE FileInv' /\ SignerInv(s)' /\ (Ready(origin, file) => Ready(origin, file'))
  <2>1. FileInv /\ FileVersion(origin, file) /\ SignerInv(s)
    BY <1>4 DEF IInv, FileInv
  <2>2. pc'[s] = to /\ snap'[s][1] = file
    BY <1>2, <1>3
  <2>3. FileVersion(origin', snap'[s][1])
    BY <1>2, <2>1, <2>2
  <2>4. pc'[s] \in {"prepared", "complete"} => pc[s] = "prepared"
    BY <1>1, <1>2, <2>2
  <2>5. pc'[s] \in {"prepared", "complete"} => Ready(origin', file') /\ \E v : PreparedFrom(s, v)'
    <3>1. \A v : PreparedFrom(s, v) => PreparedFrom(s, v)'
      BY <1>2 DEF PreparedFrom
    <3>2. pc[s] = "prepared" => Ready(origin, file) /\ \E v : PreparedFrom(s, v)
      BY <2>1 DEF SignerInv
    <3> QED BY <1>2, <2>4, <3>1, <3>2
  <2>6. SignerInv(s)'
    BY <2>3, <2>5 DEF SignerInv
  <2> QED BY <1>2, <2>1, <2>6, FileUnchanged
<1> QED BY <1>2, <1>4, SignerStep

\* So does a call that fails.
LEMMA FailStep ==
  ASSUME IInv, NEW s \in Signers, Fail(s)
  PROVE  IInv'
<1>1. /\ pc' = [pc EXCEPT ![s] = "idle"] /\ snap' = [snap EXCEPT ![s] = <<>>]
      /\ prepared' = [prepared EXCEPT ![s] = <<>>]
      /\ origin' = origin /\ file' = file /\ last' = last
  BY DEF Fail, Finish
<1>2. pc'[s] = "idle"
  BY <1>1 DEF IInv
<1>3. IsRegular => FileInv' /\ SignerInv(s)' /\ (Ready(origin, file) => Ready(origin, file'))
  BY <1>1, <1>2, IdleSigner, FileUnchanged DEF IInv
<1> QED BY <1>1, <1>3, SignerStep

\* So does CompleteSignature when it writes.
LEMMA CompleteWriteStep ==
  ASSUME IInv, NEW s \in Signers, CompleteWrite(s)
  PROVE  IInv'
<1> DEFINE cms == [i \in DOMAIN prepared[s] |->
                    [by |-> s, over |-> prepared[s][i], size |-> Request[s].cms]]
           new == Complete(snap[s][1], Request[s], prepared[s], cms)
<1>1. /\ pc[s] = "complete" /\ new.ok /\ file' = new.file /\ last' = "complete"
      /\ pc' = [pc EXCEPT ![s] = "idle"] /\ snap' = [snap EXCEPT ![s] = <<>>]
      /\ prepared' = [prepared EXCEPT ![s] = <<>>] /\ origin' = origin
  BY DEF CompleteWrite, Finish
<1>2. pc'[s] = "idle" /\ origin \in Programs
  BY <1>1 DEF IInv
<1>3. IsFile(origin)
  BY <1>2, ProgramsAssumption
<1>4. ASSUME IsRegular PROVE FileInv' /\ SignerInv(s)' /\ (Ready(origin, file) => Ready(origin, file'))
  <2>1. FileVersion(origin, snap[s][1]) /\ \E v : PreparedFrom(s, v)
    BY <1>1, <1>4 DEF IInv, SignerInv
  <2>2. DOMAIN prepared[s] = 1..Len(origin.table)
    <3>1. PICK v : PreparedFrom(s, v)
      BY <2>1
    <3>2. IsFile(v) /\ Len(v.table) = Len(origin.table) /\ DOMAIN prepared[s] = DOMAIN v.table
      BY <3>1 DEF PreparedFrom, FileVersion, Shaped
    <3> QED BY <3>2, TableParts
  <2>3. Request[s].identity \in Nat /\ Request[s].capacity \in Nat /\ Request[s].cms \in Nat
    BY RequestAssumption
  <2>4. /\ DOMAIN cms = 1..Len(origin.table)
        /\ \A i \in 1..Len(origin.table) : cms[i].size \in Nat /\ cms[i].over = prepared[s][i]
    BY <2>2, <2>3
  <2> HIDE DEF cms
  <2>5. SignedFile(origin, file')
    BY <1>1, <1>3, <2>1, <2>2, <2>3, <2>4, CompletedFile
  <2>6. Ready(origin, file')
    BY <2>5, ReadySigned
  <2>7. FileInv'
    BY <1>1, <2>5 DEF FileInv, SignedFile
  <2> QED BY <1>2, <2>6, <2>7, IdleSigner
<1> QED BY <1>1, <1>4, SignerStep

\* So does StripSignature when it writes.
LEMMA StripWriteStep ==
  ASSUME IInv, NEW s \in Signers, StripWrite(s)
  PROVE  IInv'
<1> DEFINE v == snap[s][1]
<1>1. /\ pc[s] = "strip" /\ Strip(v).ok
      /\ IF Strip(v).file = v THEN file' = file /\ last' = last
         ELSE file' = Strip(v).file /\ last' = "strip"
      /\ pc' = [pc EXCEPT ![s] = "idle"] /\ snap' = [snap EXCEPT ![s] = <<>>]
      /\ prepared' = [prepared EXCEPT ![s] = <<>>] /\ origin' = origin
  BY DEF StripWrite, Finish
<1>2. pc'[s] = "idle" /\ origin \in Programs
  BY <1>1 DEF IInv
<1>3. IsFile(origin)
  BY <1>2, ProgramsAssumption
<1>4. ASSUME IsRegular PROVE FileInv' /\ SignerInv(s)' /\ (Ready(origin, file) => Ready(origin, file'))
  <2>1. FileVersion(origin, v) /\ FileInv
    BY <1>1, <1>4 DEF IInv, SignerInv
  <2>2. CASE Strip(v).file = v
    BY <1>1, <1>2, <2>1, <2>2, IdleSigner, FileUnchanged
  <2>3. CASE Strip(v).file # v
    <3>1. StrippedFile(origin, file')
      BY <1>1, <1>3, <2>1, <2>3, StrippedFileIs
    <3>2. Ready(origin, file) => Ready(origin, file')
      BY <3>1, ReadyStripped
    <3>3. FileInv'
      BY <1>1, <2>3, <3>1 DEF FileInv, StrippedFile
    <3> QED BY <1>2, <3>2, <3>3, IdleSigner
  <2> QED BY <2>2, <2>3
<1> QED BY <1>1, <1>4, SignerStep

\* So does another tool that changes the code.
LEMMA EditStep ==
  ASSUME IInv, Edit
  PROVE  IInv'
<1>1. PICK o \in DOMAIN file.at :
        file' = [form |-> file.form, table |-> file.table,
                 at |-> [file.at EXCEPT ![o] = Recoded(@, edits + 1)],
                 clean |-> file.clean, size |-> file.size]
  BY DEF Edit
<1>2. /\ origin' = origin /\ pc' = pc /\ prepared' = prepared /\ snap' = snap /\ last' = "edit"
      /\ origin \in Programs
  BY DEF Edit, IInv
<1>3. IsFile(origin)
  BY <1>2, ProgramsAssumption
<1>4. ASSUME IsRegular PROVE FileInv' /\ \A s \in Signers : SignerInv(s)'
  <2>1. FileVersion(origin, file) /\ \A s \in Signers : SignerInv(s)
    BY <1>4 DEF IInv, FileInv
  <2>2. IsFile(file)
    BY <2>1 DEF FileVersion
  <2>3. EditedTo(file, file', edits + 1)
    BY <1>1, <2>2, Edited
  <2>4. FileVersion(origin, file')
    BY <1>3, <2>1, <2>3, EditedVersion
  <2>5. Ready(origin, file) => Ready(origin, file')
    BY <2>1, <2>3, ReadyEdited
  <2>6. FileInv'
    BY <1>2, <2>4 DEF FileInv
  <2>7. ASSUME NEW s \in Signers PROVE SignerInv(s)'
    BY <1>2, <2>1, <2>5, SameSigner
  <2> QED BY <2>6, <2>7
<1>5. IsRegular' = IsRegular
  BY <1>2, SameOrigin
<1> QED BY <1>2, <1>4, <1>5 DEF IInv

\* So does a step of somebody else.
LEMMA Stuttering ==
  ASSUME IInv, UNCHANGED vars
  PROVE  IInv'
<1>1. /\ origin' = origin /\ file' = file /\ pc' = pc /\ prepared' = prepared
      /\ snap' = snap /\ last' = last
  BY DEF vars
<1>2. IsRegular' = IsRegular
  BY <1>1, SameOrigin
<1>3. FileInv => FileInv'
  BY <1>1, FileUnchanged
<1>4. \A s \in Signers : SignerInv(s) => SignerInv(s)'
  BY <1>1, SameSigner
<1> QED BY <1>1, <1>2, <1>3, <1>4 DEF IInv

(***************************************************************************)
(* The inductive invariant: whatever PrepareSignature, CompleteSignature,  *)
(* StripSignature and another tool did to the file, and whichever versions *)
(* of it the calls under way have read, each of these files is a version   *)
(* of the original; one CompleteSignature wrote last verifies and one      *)
(* StripSignature wrote last has no signature.                             *)
(***************************************************************************)
THEOREM InvHolds == Spec => []IInv
<1>1. Init => IInv
  BY Initially
<1>2. IInv /\ [Next]_vars => IInv'
  <2> SUFFICES ASSUME IInv, [Next]_vars PROVE IInv'
    OBVIOUS
  <2>1. CASE Next
    <3>1. \/ \E s \in Signers : \/ Prepare(s) \/ CompleteRead(s) \/ CompleteWrite(s)
                                \/ StripRead(s) \/ StripWrite(s) \/ Fail(s)
          \/ Edit
      BY <2>1 DEF Next
    <3>2. CASE Edit
      BY <3>2, EditStep
    <3>3. CASE \E s \in Signers : \/ Prepare(s) \/ CompleteRead(s) \/ CompleteWrite(s)
                                  \/ StripRead(s) \/ StripWrite(s) \/ Fail(s)
      <4>1. PICK s \in Signers : \/ Prepare(s) \/ CompleteRead(s) \/ CompleteWrite(s)
                                 \/ StripRead(s) \/ StripWrite(s) \/ Fail(s)
        BY <3>3
      <4> QED BY <4>1, PrepareStep, ReadStep, CompleteWriteStep, StripWriteStep, FailStep
    <3> QED BY <3>1, <3>2, <3>3
  <2>2. CASE UNCHANGED vars
    BY <2>2, Stuttering
  <2> QED BY <2>1, <2>2
<1> QED BY <1>1, <1>2, PTL DEF Spec
-----------------------------------------------------------------------------
(* What signing writes depends on the original alone. *)

\* Signature commands with the same fields are the same.
LEMMA SignatureEqual ==
  ASSUME NEW c \in CodeSignature, NEW e \in CodeSignature,
         c.size = e.size, c.dataoff = e.dataoff, c.datasize = e.datasize
  PROVE  c = e
BY DEF CodeSignature

\* Resizing two commands that were equal but for their sizes.
LEMMA ResizedSame ==
  ASSUME NEW c, NEW e, NEW z, NEW v, NEW z0, NEW v0,
         Resized(c, z0, v0) = Resized(e, z0, v0)
  PROVE  /\ Resized(c, z, v) = Resized(e, z, v)
         /\ c.fileoff = e.fileoff /\ c.name = e.name /\ c.cmd = e.cmd
<1>1. /\ c.cmd = e.cmd /\ c.name = e.name /\ c.size = e.size /\ c.fileoff = e.fileoff
      /\ c.sections = e.sections
  BY DEF Resized
<1> QED BY <1>1 DEF Resized

\* The commands of a slice whose signature command is the last one.
LEMMA LastSignature ==
  ASSUME NEW t, Good(t), Sig(t) # 0, AtEnd(t)
  PROVE  /\ Sig(t) = Len(t.cmds) /\ t.cmds[Len(t.cmds)].size = 16
         /\ Count(t) = Len(t.cmds) - 1 /\ Len(t.cmds) \in Nat /\ Len(t.cmds) >= 1
         /\ Unsigned(t.cmds) = [i \in 1..(Len(t.cmds) - 1) |-> Rest(t, i)]
<1>1. t.cmds \in Seq(Command) /\ Len(t.cmds) \in Nat
  BY GoodParts
<1>2. Sig(t) \in 1..Len(t.cmds) /\ t.cmds[Sig(t)].cmd = "signature"
  BY SigOf, CodeSignatureParts
<1>3. Sig(t) \in Positions(t.cmds, "signature")
  BY <1>1, <1>2, Numbered
<1>4. Sig(t) = Len(t.cmds) /\ t.cmds[Sig(t)].size = 16
  BY <1>3 DEF AtEnd, SignatureCommandSize
<1>5. Count(t) = Len(t.cmds) - 1
  BY DEF Count
<1>6. Unsigned(t.cmds) = [i \in 1..Count(t) |-> Rest(t, Place(t, i))]
  BY UnsignedIs
<1>7. \A i \in 1..Count(t) : Place(t, i) = i
  BY <1>1, <1>4, <1>5 DEF Place, Down
<1>8. Unsigned(t.cmds) = [i \in 1..Count(t) |-> Rest(t, i)]
  BY <1>6, <1>7
<1>9. Len(t.cmds) >= 1
  BY <1>1, <1>2
<1> QED BY <1>1, <1>4, <1>5, <1>8, <1>9

\* The link-edit segment after signing.
LinkedAs(t, d, K, page) ==
  LET c == t.cmds[Link(t)]
      z == K + d - c.fileoff
  IN  /\ Link(t) \in 1..Len(t.cmds) /\ Link(t) # Sig(t)
      /\ c = Resized(c, z, AlignUp(z, page))

\* Where the link-edit segment of a signed slice ends.
LEMMA SignedLink ==
  ASSUME NEW s, Good(s), NEW d, NEW t, SignedAs(s, d, t)
  PROVE  LinkedAs(t, d, Align16(Kept(s)), VmPage(s))
<1> DEFINE K == Align16(Kept(s))
           l == Link(s)
           z == K + d - s.cmds[l].fileoff
           v == AlignUp(z, VmPage(s))
<1>1. Relinked(s, K, d, z, v, t.cmds, NewSig(s), l) /\ Link(t) = l /\ Sig(t) = NewSig(s)
  BY DEF SignedAs
<1>2. l \in 1..Len(t.cmds) /\ l # NewSig(s) /\ t.cmds[l] = Resized(s.cmds[l], z, v)
  BY <1>1 DEF Relinked
<1>3. t.cmds[l].fileoff = s.cmds[l].fileoff
  BY <1>2 DEF Resized
<1> HIDE DEF z, v, K, l
<1>4. Resized(t.cmds[l], z, v) = t.cmds[l]
  BY <1>2 DEF Resized
<1> QED BY <1>1, <1>2, <1>3, <1>4 DEF LinkedAs, z, v, K, l

\* Two signed slices with the same other commands and the same layout.
LEMMA SameCommands ==
  ASSUME NEW t, Good(t), Sig(t) # 0, AtEnd(t), NEW u, Good(u), Sig(u) # 0, AtEnd(u),
         Unsigned(t.cmds) = Unsigned(u.cmds),
         NEW K, NEW d, NEW page, LinkedAs(t, d, K, page), LinkedAs(u, d, K, page),
         t.cmds[Sig(t)].dataoff = K /\ t.cmds[Sig(t)].datasize = d,
         u.cmds[Sig(u)].dataoff = K /\ u.cmds[Sig(u)].datasize = d
  PROVE  t.cmds = u.cmds
<1> DEFINE c == t.cmds
           e == u.cmds
           n == Len(c)
<1>1. /\ Sig(t) = n /\ c[n].size = 16 /\ n \in Nat /\ n >= 1
      /\ Unsigned(c) = [i \in 1..(n - 1) |-> Rest(t, i)]
  BY LastSignature
<1>2. /\ Sig(u) = Len(e) /\ e[Len(e)].size = 16 /\ Len(e) \in Nat /\ Len(e) >= 1
      /\ Unsigned(e) = [i \in 1..(Len(e) - 1) |-> Rest(u, i)]
  BY LastSignature
<1>3. c \in Seq(Command) /\ e \in Seq(Command) /\ IsSlice(t) /\ IsSlice(u)
  BY GoodParts DEF Good
<1>4. c[Sig(t)] \in CodeSignature /\ e[Sig(u)] \in CodeSignature
  BY SigOf
<1>5. /\ Link(t) \in 1..n /\ Link(t) # n /\ Link(u) \in 1..Len(e) /\ Link(u) # Len(e)
  BY <1>1, <1>2 DEF LinkedAs
<1>6. /\ Named(c, Link(t), "__LINKEDIT") /\ \A i \in 1..n : i < Link(t) => ~Named(c, i, "__LINKEDIT")
  BY <1>1, <1>3, <1>5, LinkOf
<1>7. /\ Named(e, Link(u), "__LINKEDIT") /\ \A i \in 1..Len(e) : i < Link(u) => ~Named(e, i, "__LINKEDIT")
  BY <1>2, <1>3, <1>5, LinkOf
<1> HIDE DEF c, e, n
<1>8. [i \in 1..(n - 1) |-> Rest(t, i)] = [i \in 1..(Len(e) - 1) |-> Rest(u, i)]
  BY <1>1, <1>2 DEF c, e
<1>9. Len(e) = n
  <2> DEFINE p == n - 1
             q == Len(e) - 1
  <2>1. p \in Nat /\ q \in Nat
    BY <1>1, <1>2
  <2>2. 1..p = 1..q
    BY <1>8
  <2> HIDE DEF p, q
  <2>3. p = q
    <3>1. \A i \in Nat : i \in 1..p <=> i \in 1..q
      BY <2>2
    <3>2. p > q => FALSE
      BY <2>1, <3>1
    <3>3. q > p => FALSE
      BY <2>1, <3>1
    <3> QED BY <2>1, <3>2, <3>3
  <2> QED BY <1>1, <1>2, <2>3 DEF p, q
<1>10. \A i \in 1..(n - 1) : Rest(t, i) = Rest(u, i)
  BY <1>8, <1>9
<1>11. ASSUME NEW i \in 1..(n - 1)
       PROVE  Named(c, i, "__LINKEDIT") <=> Named(e, i, "__LINKEDIT")
  <2>1. Rest(t, i).cmd = c[i].cmd /\ Rest(u, i).cmd = e[i].cmd
    BY DEF Rest, Resized, c, e
  <2>2. c[i].cmd = "segment" => Rest(t, i).name = c[i].name
    BY DEF Rest, Resized, c
  <2>3. e[i].cmd = "segment" => Rest(u, i).name = e[i].name
    BY DEF Rest, Resized, e
  <2> QED BY <1>10, <2>1, <2>2, <2>3 DEF Named
<1>12. Link(t) = Link(u)
  <2>1. Link(t) \in 1..(n - 1) /\ Link(u) \in 1..(n - 1)
    BY <1>1, <1>5, <1>9
  <2>2. ~(Link(u) < Link(t)) /\ ~(Link(t) < Link(u))
    BY <1>1, <1>5, <1>6, <1>7, <1>9, <1>11, <2>1
  <2> QED BY <1>1, <2>1, <2>2
<1>13. ASSUME NEW i \in 1..n PROVE c[i] = e[i]
  <2>1. CASE i = n
    <3>1. c[n] \in CodeSignature /\ e[n] \in CodeSignature /\ c[n].size = e[n].size
      BY <1>1, <1>2, <1>4, <1>9
    <3>2. c[n].dataoff = e[n].dataoff /\ c[n].datasize = e[n].datasize
      BY <1>1, <1>2, <1>9 DEF c, e
    <3> QED BY <2>1, <3>1, <3>2, SignatureEqual
  <2>2. CASE i # n /\ i # Link(t)
    <3>1. i \in 1..(n - 1)
      BY <1>1, <2>2
    <3>2. Rest(t, i) = c[i] /\ Rest(u, i) = e[i]
      BY <1>12, <2>2 DEF Rest, c, e
    <3> QED BY <1>10, <3>1, <3>2
  <2>3. CASE i = Link(t)
    <3>1. i \in 1..(n - 1)
      BY <1>1, <1>5, <2>3
    <3>2. Resized(c[i], 0, 0) = Resized(e[i], 0, 0)
      BY <1>10, <1>12, <2>3, <3>1 DEF Rest, c, e
    <3> DEFINE z == K + d - c[i].fileoff
               w == AlignUp(z, page)
    <3>3. c[i].fileoff = e[i].fileoff
      BY <3>2, ResizedSame
    <3>4. c[i] = Resized(c[i], z, w)
      BY <2>3 DEF LinkedAs, c
    <3>5. e[i] = Resized(e[i], z, w)
      BY <1>12, <2>3, <3>3 DEF LinkedAs, e
    <3> HIDE DEF z, w
    <3>6. Resized(c[i], z, w) = Resized(e[i], z, w)
      BY <3>2, ResizedSame
    <3> QED BY <3>4, <3>5, <3>6
  <2> QED BY <2>1, <2>2, <2>3
<1>14. /\ c = [i \in 1..n |-> c[i]] /\ e = [i \in 1..n |-> e[i]]
  <2>1. c = [i \in 1..Len(c) |-> c[i]]
    BY <1>3 DEF c
  <2>2. e = [i \in 1..Len(e) |-> e[i]]
    BY <1>3 DEF e
  <2> QED BY <1>9, <2>1, <2>2 DEF n
<1> QED BY <1>13, <1>14 DEF c, e

\* The bytes in front of the signature are as many for every version.
LEMMA KeptAligned ==
  ASSUME NEW o, NEW s, Good(o), Version(o, s), Signable(s)
  PROVE  Align16(Kept(s)) = Align16(Kept(o))
<1>1. Good(s) /\ (Alike(o, s) \/ Touched(o, s))
  BY DEF Version
<1>2. CASE Alike(o, s)
  BY <1>2, AlikeSame
<1>3. CASE Touched(o, s)
  <2>1. Kept(o) >= 0 /\ Kept(s) \in {Kept(o), Align16(Kept(o))}
    BY <1>3 DEF Touched
  <2>2. Kept(o) \in Nat
    BY <2>1, KeptIs
  <2>3. Align16(Align16(Kept(o))) = Align16(Kept(o))
    BY <2>2, Align16Facts
  <2> QED BY <2>1, <2>3
<1> QED BY <1>1, <1>2, <1>3

\* The slice with its signature region reserved is the same for all versions.
LEMMA SameReserved ==
  ASSUME NEW o, Good(o), AtEnd(o),
         NEW a, Version(o, a), Signable(a), NEW b, Version(o, b), Signable(b), a.code = b.code,
         NEW d \in Nat, d > 0
  PROVE  LET K == Align16(Kept(o))
         IN  Covered(Reserved(a, d), K) = Covered(Reserved(b, d), K)
<1> DEFINE t == Reserved(a, d)
           u == Reserved(b, d)
           K == Align16(Kept(o))
           page == VmPage(o)
<1>1. Good(a) /\ Good(b) /\ a.cpu = o.cpu /\ b.cpu = o.cpu
  BY DEF Version
<1>2. VmPage(a) = page /\ VmPage(b) = page
  BY <1>1 DEF VmPage
<1>3. Align16(Kept(a)) = K /\ Align16(Kept(b)) = K
  BY KeptAligned
<1>4. /\ SignedAs(a, d, t) /\ Version(o, t) /\ Touched(o, t)
      /\ SignedAs(b, d, u) /\ Version(o, u) /\ Touched(o, u)
  BY SignedVersion
<1> HIDE DEF t, u, K, page
<1>5. /\ Good(t) /\ Sig(t) # 0 /\ t.code = a.code
      /\ t.cmds[Sig(t)].dataoff = K /\ t.cmds[Sig(t)].datasize = d
  BY <1>3, <1>4 DEF SignedAs
<1>6. /\ Good(u) /\ Sig(u) # 0 /\ u.code = b.code
      /\ u.cmds[Sig(u)].dataoff = K /\ u.cmds[Sig(u)].datasize = d
  BY <1>3, <1>4 DEF SignedAs
<1>7. LinkedAs(t, d, K, page) /\ LinkedAs(u, d, K, page)
  <2>1. LinkedAs(t, d, Align16(Kept(a)), VmPage(a))
    BY <1>1, <1>4, SignedLink
  <2>2. LinkedAs(u, d, Align16(Kept(b)), VmPage(b))
    BY <1>1, <1>4, SignedLink
  <2> QED BY <1>2, <1>3, <2>1, <2>2
<1>8. AtEnd(t) /\ AtEnd(u)
  BY <1>4 DEF Touched
<1>9. /\ Unsigned(t.cmds) = Unsigned(o.cmds) /\ t.len = o.len
      /\ Unsigned(u.cmds) = Unsigned(o.cmds) /\ u.len = o.len
  BY <1>4 DEF Version
<1>10. t.cmds = u.cmds
  BY <1>5, <1>6, <1>7, <1>8, <1>9, SameCommands
<1>11. /\ t.ncmds = Len(t.cmds) /\ t.sizeofcmds = SizeOf(t.cmds)
       /\ u.ncmds = Len(u.cmds) /\ u.sizeofcmds = SizeOf(u.cmds)
  BY <1>5, <1>6, GoodParts
<1> QED BY <1>5, <1>6, <1>9, <1>10, <1>11 DEF Covered, t, u, K

\* The plan of a slice is the same for all versions with the same code.
LEMMA SamePlan ==
  ASSUME NEW o, Good(o), AtEnd(o), NEW r, r.identity \in Nat, r.capacity \in Nat,
         NEW a, Version(o, a), Signable(a),
         NEW b, Version(o, b), PlanSlice(b, r).ok, a.code = PlanSlice(b, r).cd.covers.code
  PROVE  PlanSlice(a, r).ok /\ PlanSlice(a, r).cd = PlanSlice(b, r).cd
<1> DEFINE K == Align16(Kept(o))
           n == CodeDirectorySize(r, K)
           d == Align16(SuperBlobFixedSize + n + r.capacity)
<1>1. Good(a) /\ Good(b) /\ a.cpu = o.cpu /\ b.cpu = o.cpu
  BY DEF Version
<1>2. Signable(b)
  BY DEF PlanSlice, PlanAs, Malformed
<1>3. Align16(Kept(a)) = K /\ Align16(Kept(b)) = K
  BY <1>2, KeptAligned
<1>4. ~(r.nul \/ K + d > Uint32Max \/ n > Uint32Max)
  BY <1>3 DEF PlanSlice, PlanAs, Malformed
<1>5. /\ PlanSlice(a, r).ok
      /\ PlanSlice(a, r).cd = [covers |-> Covered(Reserved(a, d), K), identity |-> r.identity,
                               size |-> n, cpu |-> a.cpu]
  BY <1>3, <1>4 DEF PlanSlice, PlanAs
<1>6. PlanSlice(b, r).cd = [covers |-> Covered(Reserved(b, d), K), identity |-> r.identity,
                            size |-> n, cpu |-> b.cpu]
  BY <1>2, <1>3, <1>4 DEF PlanSlice, PlanAs
<1>7. K \in Nat
  <2>1. Kept(b) \in Nat
    BY <1>1, <1>2, KeptIs, SignableIs
  <2> QED BY <1>3, <2>1, Align16Facts
<1>8. n \in Nat
  BY <1>7, DirectorySize
<1> HIDE DEF n, K
<1>9. SuperBlobFixedSize + n + r.capacity \in Nat /\ SuperBlobFixedSize + n + r.capacity > 0
  BY <1>8 DEF SuperBlobFixedSize
<1>10. d \in Nat /\ SuperBlobFixedSize + n + r.capacity <= d
  BY <1>9, Align16Facts
<1> HIDE DEF d
<1>11. d > 0
  BY <1>8, <1>9, <1>10
<1>12. a.code = b.code
  <2>1. Reserved(b, d).code = b.code
    BY DEF Reserved, ReservedAs
  <2> QED BY <1>6, <2>1 DEF Covered
<1>13. Covered(Reserved(a, d), K) = Covered(Reserved(b, d), K)
  BY <1>2, <1>10, <1>11, <1>12, SameReserved DEF K
<1> QED BY <1>1, <1>5, <1>6, <1>13

-----------------------------------------------------------------------------
(* The theorems. *)

\* What the invariant says of the file.
LEMMA Regularly ==
  ASSUME IInv, IsRegular
  PROVE  /\ IsFile(origin) /\ IsFile(file) /\ FileVersion(origin, file) /\ Len(file.table) = Len(origin.table)
         /\ DOMAIN file.table = 1..Len(origin.table) /\ DOMAIN origin.table = 1..Len(origin.table)
<1>1. origin \in Programs /\ FileVersion(origin, file)
  BY DEF IInv, FileInv
<1>2. IsFile(origin) /\ IsFile(file) /\ Len(file.table) = Len(origin.table)
  BY <1>1, ProgramsAssumption DEF FileVersion, Shaped
<1> QED BY <1>1, <1>2, TableParts

(***************************************************************************)
(* A file that CompleteSignature wrote last has a signature in every       *)
(* slice, found through its SuperBlob, that covers the bytes now in front  *)
(* of it.                                                                  *)
(***************************************************************************)
THEOREM WrittenSignatureCovers == Spec => []SignatureCovers
<1>1. IInv => SignatureCovers
  <2> SUFFICES ASSUME IInv, IsRegular, last = "complete"
               PROVE  HasEmbeddedSignature(file) /\ \A s \in Slices(file) : Verifies(s)
    BY DEF SignatureCovers
  <2>1. DOMAIN file.table = 1..Len(origin.table)
    BY Regularly
  <2>2. \A i \in 1..Len(origin.table) :
          Verifies(SliceAt(file, i)) /\ SignatureOfSlice(SliceAt(file, i)) # <<>>
    BY DEF IInv, FileInv, SignedFile
  <2> QED BY <2>1, <2>2 DEF HasEmbeddedSignature, Slices
<1> QED BY <1>1, InvHolds, PTL

\* A slice of a written file is the original's or ends with its link-edit segment.
LEMMA WrittenSlice ==
  ASSUME NEW o, NEW s, Version(o, s)
  PROVE  \/ Touched(o, s) /\ EndsWithLinkedit(s)
         \/ Alike(o, s) /\ s = Recoded(o, s.code)
<1>1. Good(s) /\ ((Alike(o, s) /\ s.blob = o.blob) \/ Touched(o, s))
  BY DEF Version
<1>2. CASE Touched(o, s)
  <2>1. Finished(s) /\ Kept(o) >= 0 /\ Kept(s) \in {Kept(o), Align16(Kept(o))}
    BY <1>2 DEF Touched
  <2>2. Finished(s) => Kept(s) >= 0
    <3>1. Kept(s) = -1 \/ Kept(s) \in Nat
      BY <1>1, KeptIs
    <3>2. Finished(s) => s.cmds[Link(s)].fileoff <= Kept(s) /\ Link(s) # 0
      BY DEF Finished
    <3>3. Link(s) # 0 => s.cmds[Link(s)].fileoff \in Nat
      <4>1. IsSlice(s)
        BY <1>1 DEF Good
      <4> QED BY <4>1, LinkOf, SegmentParts
    <3> QED BY <3>1, <3>2, <3>3
  <2> QED BY <1>1, <1>2, <2>1, <2>2, FinishedSignable
<1>3. CASE Alike(o, s) /\ s.blob = o.blob
  BY <1>3 DEF Alike, Recoded
<1> QED BY <1>1, <1>2, <1>3

(***************************************************************************)
(* The library accepts what CompleteSignature and StripSignature wrote: it *)
(* parses, its slices are aligned and in their old order, and each that is *)
(* not as it was can be signed again.                                      *)
(***************************************************************************)
THEOREM WrittenIsAccepted == Spec => []WrittenIsSignable
<1>1. IInv => WrittenIsSignable
  <2> SUFFICES ASSUME IInv, IsRegular, last \in {"complete", "strip"}
               PROVE  /\ Acceptable(file)
                      /\ ByOffset(file) = ByOffset(origin)
                      /\ \A i \in DOMAIN file.table :
                           /\ file.table[i].offset % PowerOfTwo[file.table[i].align] = 0
                           /\ \/ SliceAt(file, i) = Recoded(SliceAt(origin, i), SliceAt(file, i).code)
                              \/ EndsWithLinkedit(SliceAt(file, i))
    BY DEF WrittenIsSignable
  <2>1. /\ IsFile(origin) /\ IsFile(file) /\ FileVersion(origin, file)
        /\ Len(file.table) = Len(origin.table)
        /\ DOMAIN file.table = 1..Len(origin.table)
    BY Regularly
  <2>2. Acceptable(origin) /\ Aligned(file)
    BY DEF IInv, FileInv, SignedFile, StrippedFile
  <2>3. Acceptable(file) /\ Shaped(origin, file)
        /\ \A i \in 1..Len(origin.table) : Version(SliceAt(origin, i), SliceAt(file, i))
    BY <2>1, <2>2 DEF FileVersion
  <2>4. ByOffset(file) = ByOffset(origin)
    BY <2>1, <2>3, SameOrder
  <2>5. \A i \in 1..Len(origin.table) :
          \/ SliceAt(file, i) = Recoded(SliceAt(origin, i), SliceAt(file, i).code)
          \/ EndsWithLinkedit(SliceAt(file, i))
    BY <2>3, WrittenSlice
  <2> QED BY <2>1, <2>2, <2>3, <2>4, <2>5 DEF Aligned
<1> QED BY <1>1, InvHolds, PTL

(***************************************************************************)
(* No sequence of signing, signing again and stripping loses a command, a  *)
(* byte or the trailing bytes of the program, and stripping leaves at most *)
(* 15 bytes of padding.                                                    *)
(***************************************************************************)
THEOREM ProgramIsKept == Spec => []ProgramKept
<1>1. IInv => ProgramKept
  <2> SUFFICES ASSUME IInv, IsRegular
               PROVE  /\ Len(file.table) = Len(origin.table)
                      /\ file.size - EndOf(file) = origin.size - EndOf(origin)
                      /\ \A i \in DOMAIN file.table :
                           LET now == SliceAt(file, i)
                               before == SliceAt(origin, i)
                           IN  now.magic \in Thin =>
                                 /\ now.cpu = before.cpu /\ now.len = before.len
                                 /\ Unsigned(now.cmds) = Unsigned(before.cmds)
                                 /\ last = "strip" => ~Signed(now) /\ now.size < Kept(before) + 16
    BY DEF ProgramKept
  <2>1. /\ IsFile(origin) /\ FileVersion(origin, file) /\ Len(file.table) = Len(origin.table)
        /\ DOMAIN file.table = 1..Len(origin.table)
    BY Regularly
  <2>2. file.size - EndOf(file) = origin.size - EndOf(origin)
    BY <2>1 DEF FileVersion, Shaped
  <2>3. ASSUME NEW i \in 1..Len(origin.table)
        PROVE  LET now == SliceAt(file, i)
                   before == SliceAt(origin, i)
               IN  /\ now.cpu = before.cpu /\ now.len = before.len
                   /\ Unsigned(now.cmds) = Unsigned(before.cmds)
                   /\ last = "strip" => ~Signed(now) /\ now.size < Kept(before) + 16
    <3> DEFINE now == SliceAt(file, i)
               before == SliceAt(origin, i)
    <3>1. CASE Acceptable(origin)
      <4>1. Version(before, now)
        BY <2>1, <3>1 DEF FileVersion
      <4>2. now.cpu = before.cpu /\ now.len = before.len /\ Unsigned(now.cmds) = Unsigned(before.cmds)
            /\ Good(now)
        BY <4>1 DEF Version
      <4>3. ASSUME last = "strip" PROVE ~Signed(now) /\ now.size < Kept(before) + 16
        <5>1. Sig(now) = 0
          BY <4>3 DEF IInv, FileInv, StrippedFile
        <5>2. Good(before)
          BY <2>1, <3>1, AcceptableParts
        <5>3. ~Signed(now)
          BY <4>2, <5>1, ParseGood DEF Good, Signed
        <5>4. now.size < Kept(before) + 16
          BY <4>1, <5>1, <5>2, UnsignedSize
        <5> QED BY <5>3, <5>4
      <4> QED BY <4>2, <4>3
    <3>2. CASE ~Acceptable(origin)
      <4>1. now = before \/ Alike(before, now)
        BY <2>1, <3>2 DEF FileVersion
      <4>2. last # "strip"
        BY <3>2 DEF IInv, FileInv, StrippedFile
      <4> QED BY <4>1, <4>2 DEF Alike
    <3> QED BY <3>1, <3>2
  <2> QED BY <2>1, <2>2, <2>3
<1> QED BY <1>1, InvHolds, PTL

(***************************************************************************)
(* A prepared signature can be completed as long as the program's own      *)
(* bytes are those it was prepared for, whatever other signers did to the  *)
(* file.                                                                   *)
(***************************************************************************)
THEOREM PreparedIsValid == Spec => []PreparedStaysValid
<1>1. IInv => PreparedStaysValid
  <2> SUFFICES ASSUME IInv, IsRegular,
                      \A s \in Slices(origin) : \A i \in Positions(s.cmds, "signature") :
                        s.cmds[i].size = SignatureCommandSize /\ i = Len(s.cmds),
                      NEW s \in Signers, pc[s] \in {"prepared", "complete"},
                      \A i \in DOMAIN prepared[s] : SliceAt(file, i).code = prepared[s][i].covers.code
               PROVE  SameDirectories(PlanAll(file, Request[s]), prepared[s])
    BY DEF PreparedStaysValid
  <2> DEFINE n == Len(origin.table)
             r == Request[s]
  <2>1. /\ IsFile(origin) /\ FileVersion(origin, file)
        /\ DOMAIN file.table = 1..n /\ DOMAIN origin.table = 1..n
    BY Regularly
  <2>2. Ready(origin, file) /\ \E v : PreparedFrom(s, v)
    BY DEF IInv, SignerInv
  <2>3. PICK v : PreparedFrom(s, v)
    BY <2>2
  <2>4. /\ FileVersion(origin, v) /\ PlanAll(v, r).ok
        /\ prepared[s] = [i \in DOMAIN v.table |-> PlanAll(v, r).slices[i].cd]
    BY <2>3 DEF PreparedFrom
  <2>5. DOMAIN v.table = 1..n
    BY <2>4, TableParts DEF FileVersion, Shaped
  <2>6. Acceptable(v) /\ ~(r.capacity > MaxCapacity) /\ \A i \in DOMAIN v.table : PlanSlice(SliceAt(v, i), r).ok
    BY <2>4, PlanAllIs, Zenon
  <2>7. PlanAll(v, r).slices = [i \in DOMAIN v.table |-> PlanSlice(SliceAt(v, i), r)]
    <3>1. PlanAll(v, r).ok =>
            PlanAll(v, r).slices = [i \in DOMAIN v.table |-> PlanSlice(SliceAt(v, i), r)]
      BY PlanAllIs
    <3> QED BY <2>4, <3>1
  <2>8. r.identity \in Nat /\ r.capacity \in Nat
    BY RequestAssumption
  <2>9. /\ Acceptable(origin) /\ Acceptable(file)
        /\ \A i \in 1..n : Version(SliceAt(origin, i), SliceAt(file, i))
        /\ \A i \in 1..n : Version(SliceAt(origin, i), SliceAt(v, i))
    BY <2>1, <2>4, <2>6 DEF FileVersion
  <2>10. \A i \in 1..n : Good(SliceAt(origin, i)) /\ AtEnd(SliceAt(origin, i))
    <3>1. \A i \in 1..n : Good(SliceAt(origin, i))
      BY <2>1, <2>9, AcceptableParts
    <3>2. \A i \in 1..n : SliceAt(origin, i) \in Slices(origin)
      BY <2>1 DEF Slices
    <3> QED BY <3>1, <3>2 DEF AtEnd
  <2> HIDE DEF n, r
  <2>11. \A i \in 1..n : prepared[s][i] = PlanSlice(SliceAt(v, i), r).cd
    BY <2>4, <2>5, <2>7
  <2>12. DOMAIN prepared[s] = 1..n
    BY <2>4, <2>5
  <2>13. ASSUME NEW i \in 1..n
         PROVE  /\ PlanSlice(SliceAt(file, i), r).ok
                /\ PlanSlice(SliceAt(file, i), r).cd = prepared[s][i]
    <3> DEFINE o == SliceAt(origin, i)
               a == SliceAt(file, i)
               b == SliceAt(v, i)
    <3>1. Version(o, a) /\ Version(o, b) /\ Good(o) /\ AtEnd(o) /\ PlanSlice(b, r).ok
      BY <2>5, <2>6, <2>9, <2>10
    <3>2. a.code = PlanSlice(b, r).cd.covers.code
      BY <2>11, <2>12
    <3>3. Signable(o) \/ Touched(o, a)
      BY <2>2 DEF Ready, n
    <3> HIDE DEF o, a, b
    <3>4. Signable(a)
      <4>1. Good(a) /\ (Alike(o, a) \/ Touched(o, a))
        BY <3>1 DEF Version
      <4>2. CASE Touched(o, a)
        <5>1. Finished(a) /\ Kept(o) >= 0 /\ Kept(a) \in {Kept(o), Align16(Kept(o))}
          BY <4>2 DEF Touched
        <5>2. Kept(o) \in Nat
          BY <3>1, <5>1, KeptIs
        <5>3. Kept(a) >= 0
          <6>1. Align16(Kept(o)) \in Nat
            BY <5>2, Align16Facts
          <6> HIDE DEF o
          <6> QED BY <5>1, <5>2, <6>1
        <5> QED BY <4>1, <5>1, <5>3, FinishedSignable
      <4>3. CASE Alike(o, a) /\ ~Touched(o, a)
        BY <3>3, <4>3, AlikeVersion
      <4> QED BY <4>1, <4>2, <4>3
    <3>5. PlanSlice(a, r).ok /\ PlanSlice(a, r).cd = PlanSlice(b, r).cd
      BY <2>8, <3>1, <3>2, <3>4, SamePlan
    <3> QED BY <2>11, <3>5 DEF a, b
  <2>14. PlanAll(file, r).ok
    <3>1. \A i \in DOMAIN file.table : PlanSlice(SliceAt(file, i), r).ok
      BY <2>1, <2>13 DEF n
    <3> QED BY <2>6, <2>9, <3>1, PlanAllIs, Zenon
  <2>15. PlanAll(file, r).slices = [i \in 1..n |-> PlanSlice(SliceAt(file, i), r)]
    <3>1. PlanAll(file, r).ok =>
            PlanAll(file, r).slices = [i \in DOMAIN file.table |-> PlanSlice(SliceAt(file, i), r)]
      BY PlanAllIs
    <3> QED BY <2>1, <2>14, <3>1 DEF n
  <2>16. Len(PlanAll(file, r).slices) = Len(prepared[s])
    <3>1. n \in Nat
      BY <2>1, TableParts DEF n
    <3>2. Len([i \in 1..n |-> PlanSlice(SliceAt(file, i), r)]) = n
      BY <3>1
    <3>3. prepared[s] = [i \in 1..n |-> PlanAll(v, r).slices[i].cd]
      BY <2>4, <2>5
    <3>4. Len([i \in 1..n |-> PlanAll(v, r).slices[i].cd]) = n
      BY <3>1
    <3> QED BY <2>15, <3>2, <3>3, <3>4
  <2>17. \A i \in DOMAIN prepared[s] : PlanAll(file, r).slices[i].cd = prepared[s][i]
    BY <2>12, <2>13, <2>15
  <2> QED BY <2>14, <2>16, <2>17 DEF SameDirectories, r
<1> QED BY <1>1, InvHolds, PTL
=============================================================================
