---------------------------- MODULE MachOLayout ----------------------------
(***************************************************************************)
(* The layout of a Mach-O file as src/internal/MachOLayout.cpp reads it.   *)
(*                                                                         *)
(* A program (slice) is a record: its magic, cpu, the header's counts      *)
(* `ncmds` and `sizeofcmds`, the load commands that are really there, its  *)
(* other bytes as `code` (their identity) of length `len`, zero from there *)
(* on, its `size`, and `blob`, the signature data at the signature         *)
(* command's dataoff.  A file has a form, the table of a universal file,   *)
(* the programs at the offsets they really have, whether the bytes between *)
(* them are all zero, and its size.                                        *)
(***************************************************************************)
EXTENDS Integers, Sequences, FiniteSetsExt

Header64Size == 32
SignatureCommandSize == 16

Thin == {"supported", "declined"}

\* The result of a parse that throws, and of a request that is refused.
Malformed == [ok |-> FALSE]

\* The load commands, by what signing looks at; `sections` are the offsets of
\* sections with content.
Segment == [cmd : {"segment"}, name : STRING, size : Nat, fileoff : Nat, filesize : Nat,
            vmsize : Nat, sections : SUBSET Nat]
CodeSignature == [cmd : {"signature"}, size : Nat, dataoff : Nat, datasize : Nat]
OtherCommand == [cmd : {"other"}, size : Nat]
Command == Segment \cup CodeSignature \cup OtherCommand

\* The cursor of the walk over the load commands, after each of them.
Cursor(cmds) ==
  LET at[i \in 0..Len(cmds)] == IF i = 0 THEN 0 ELSE at[i - 1] + cmds[i].size
  IN  at

SizeOf(cmds) == Cursor(cmds)[Len(cmds)]

Positions(cmds, kind) == {i \in DOMAIN cmds : cmds[i].cmd = kind}

\* Positions of the segments with a name; the first one counts.
Segments(cmds, name) == {i \in Positions(cmds, "segment") : cmds[i].name = name}

FirstOf(S) == IF S = {} THEN 0 ELSE Min(S)

\* The checks on one command by itself.  Section counts and library names, which
\* signing neither reads nor writes, are taken to be sound.
CommandFits(c, header_end, size) ==
  /\ c.size >= 8 /\ c.size % 4 = 0
  /\ c.cmd = "segment" => c.size >= 72 /\ c.fileoff + c.filesize <= size
  /\ c.cmd = "signature" => /\ c.size >= SignatureCommandSize
                            /\ c.dataoff + c.datasize <= size
                            /\ c.datasize # 0 => c.dataoff >= header_end

\* Lowest offset of data that is not headers: sections, and segments other
\* than __TEXT.
FirstContent(cmds, size) ==
  Min({size}
      \cup {cmds[i].fileoff : i \in {j \in Positions(cmds, "segment") :
              cmds[j].name # "__TEXT" /\ cmds[j].filesize > 0 /\ cmds[j].fileoff > 0}}
      \cup UNION {cmds[i].sections : i \in Positions(cmds, "segment")})

\* The walk over the load commands, which must use exactly `sizeofcmds`.  A
\* command that is counted and not there is one of freed bytes, of size 0.
Consistent(s) ==
  LET header_end == Header64Size + s.sizeofcmds
  IN  /\ header_end <= s.size
      /\ s.ncmds = Len(s.cmds)
      /\ SizeOf(s.cmds) = s.sizeofcmds
      /\ \A i \in DOMAIN s.cmds : CommandFits(s.cmds[i], header_end, s.size)
      /\ \A i, j \in Positions(s.cmds, "signature") : i = j

ParseMachOSlice(s) ==
  IF s.magic \notin Thin THEN Malformed
  ELSE IF s.magic = "declined" THEN [ok |-> TRUE, supported |-> FALSE]
  ELSE IF ~Consistent(s) THEN Malformed
  ELSE [ok |-> TRUE, supported |-> TRUE,
        header_end |-> Header64Size + s.sizeofcmds,
        first_content |-> FirstContent(s.cmds, s.size),
        text |-> FirstOf(Segments(s.cmds, "__TEXT")),
        linkedit |-> FirstOf(Segments(s.cmds, "__LINKEDIT")),
        codesig |-> FirstOf(Positions(s.cmds, "signature"))]

FreeHeaderSpace(layout) ==
  IF layout.first_content > layout.header_end
  THEN layout.first_content - layout.header_end ELSE 0

TableEnd(form, count) == 8 + count * (IF form = "fat64" THEN 32 ELSE 20)

\* The slice a table entry leads to.
SliceAt(f, i) ==
  LET e == f.table[i]
  IN  IF e.offset \in DOMAIN f.at /\ f.at[e.offset].size = e.size
      THEN f.at[e.offset]
      ELSE [magic |-> "other"]

\* Every program of the file, in table order, is readable.
ParseMachOContainer(f) ==
  LET n == Len(f.table)
      end(i) == f.table[i].offset + f.table[i].size
  IN  /\ f.form \in {"thin", "fat32", "fat64"}
      /\ f.form # "thin" =>
           /\ n \in 1..256 /\ TableEnd(f.form, n) <= f.size
           /\ \A i \in 1..n : f.table[i].offset >= TableEnd(f.form, n)
      /\ \A i \in 1..n : end(i) <= f.size /\ ParseMachOSlice(SliceAt(f, i)).ok
      /\ \A i, j \in 1..n : i # j =>
           end(i) <= f.table[j].offset \/ end(j) <= f.table[i].offset

\* A slice and a file are made of these parts.
IsSlice(s) ==
  /\ s = [magic |-> s.magic, cpu |-> s.cpu, code |-> s.code, len |-> s.len, size |-> s.size,
          cmds |-> s.cmds, ncmds |-> s.ncmds, sizeofcmds |-> s.sizeofcmds, blob |-> s.blob]
  /\ s.cmds \in Seq(Command)
  /\ s.ncmds \in Nat /\ s.sizeofcmds \in Nat /\ s.len \in Nat /\ s.size \in Nat

IsFile(f) ==
  /\ f = [form |-> f.form, table |-> f.table, at |-> f.at, clean |-> f.clean, size |-> f.size]
  /\ f.table \in Seq([offset : Nat, size : Nat, align : Nat]) /\ f.size \in Nat
  /\ DOMAIN f.at \subseteq Nat
  /\ \A o \in DOMAIN f.at : IsSlice(f.at[o])
  /\ f.form = "thin" =>
       f.table = <<[offset |-> 0, size |-> f.size, align |-> 0]>> /\ DOMAIN f.at = {0}

Supported(f) == \A i \in DOMAIN f.table : ParseMachOSlice(SliceAt(f, i)).supported
=============================================================================
