---------------------------- MODULE MachOSigner ----------------------------
(***************************************************************************)
(* MachOSigner (src/MachOSigner.cpp): PrepareSignature computes the        *)
(* CodeDirectories of the file as it will be, the caller signs them, and   *)
(* CompleteSignature computes them again and writes; StripSignature undoes *)
(* it.  Several signers work on one file and another tool may change the   *)
(* program between any two of their steps.                                 *)
(*                                                                         *)
(* A CodeDirectory is the record of what its page hashes cover: equal      *)
(* records stand for equal bytes.  WriteFileBytes is one step that may     *)
(* fail (see FileReplace).                                                 *)
(***************************************************************************)
EXTENDS MachOLayout

CONSTANTS
  Signers,
  Request,     \* per signer: identity size, NUL in it, cms_capacity, CMS size
  Programs,    \* Mach-O files somebody may want to sign
  PageSize,    \* CS_PAGE_SIZE
  Uint32Max,   \* UINT32_MAX, smaller here so that it can be met
  MaxCapacity, \* kMaxCapacity
  MaxEdits     \* bound on the changes another tool makes

ASSUME BoundsAssumption ==
  /\ PageSize \in Nat \ {0} /\ Uint32Max \in Nat
  /\ MaxCapacity \in Nat /\ MaxEdits \in Nat
ASSUME RequestAssumption ==
  \A s \in Signers : Request[s].identity \in Nat /\ Request[s].capacity \in Nat
                     /\ Request[s].cms \in Nat
ASSUME ProgramsAssumption == \A f \in Programs : IsFile(f)

VARIABLES
  origin,    \* the file as it was at first
  file,      \* the file the path holds
  pc,        \* per signer: "idle", "prepared", "complete" or "strip"
  prepared,  \* per signer: its PreparedSignature's slices
  snap,      \* per signer: what ReadFileBytes gave it
  edits,     \* changes another tool has made
  last       \* history: what changed the file last

vars == <<origin, file, pc, prepared, snap, edits, last>>

-----------------------------------------------------------------------------
(* One slice *)

AlignUp(n, unit) == ((n + unit - 1) \div unit) * unit
Align16(n) == AlignUp(n, 16)

\* Mutant: the old signature is not cut off.
MutSignatureStart(s) == s.size

\* Where the data of a signature begins, or -1 when it is not the end of the slice.
DataStart(s, sig) ==
  IF sig.dataoff = 0 /\ sig.datasize = 0 THEN s.size
  ELSE IF sig.dataoff + sig.datasize # s.size THEN -1
  ELSE sig.dataoff

SignatureStart(s) == DataStart(s, s.cmds[ParseMachOSlice(s).codesig])

\* The bytes of the program that stay when it is signed.
Kept(s) == IF ParseMachOSlice(s).codesig # 0 THEN SignatureStart(s) ELSE s.size

\* The bytes a CodeDirectory with this code limit covers.
Covered(s, limit) ==
  [code |-> s.code, len |-> s.len, ncmds |-> s.ncmds, sizeofcmds |-> s.sizeofcmds,
   cmds |-> s.cmds, limit |-> limit]

CodeSlots(limit) == AlignUp(limit, PageSize) \div PageSize

CodeDirectorySize(r, limit) == 88 + r.identity + 1 + (2 + CodeSlots(limit)) * 32

SuperBlobFixedSize == 12 + 3 * 8 + 12 + 8

VmPage(s) == IF s.cpu = "arm64" THEN 4 * PageSize ELSE PageSize

\* The command of a segment with its new sizes.
Resized(c, filesize, vmsize) ==
  [cmd |-> c.cmd, name |-> c.name, size |-> c.size, fileoff |-> c.fileoff,
   filesize |-> filesize, vmsize |-> vmsize, sections |-> c.sections]

\* What PlanSlice asks of a slice, whatever is to be signed.
SignableAs(s, layout, kept) ==
  LET link == s.cmds[layout.linkedit]
  IN  /\ kept >= 0
      /\ layout.linkedit # 0
      /\ link.fileoff <= kept /\ link.fileoff + link.filesize = s.size
      /\ layout.codesig = 0 => FreeHeaderSpace(layout) >= SignatureCommandSize

Signable(s) == SignableAs(s, ParseMachOSlice(s), Kept(s))

\* The signature command, in place of the old one or after the last.  There the
\* code overwrites 16 bytes without looking at them; between the commands and the
\* first content they are taken for padding, never for bytes of the program.
PutSignature(cmds, at, dataoff, datasize) ==
  LET command(size) == [cmd |-> "signature", size |-> size,
                        dataoff |-> dataoff, datasize |-> datasize]
  IN  IF at # 0 THEN [cmds EXCEPT ![at] = command(cmds[at].size)]
      ELSE Append(cmds, command(SignatureCommandSize))

SignedCommands(s, dataoff, datasize) ==
  PutSignature(s.cmds, ParseMachOSlice(s).codesig, dataoff, datasize)

\* The slice with the signature region reserved and __LINKEDIT ended with it.
ReservedAs(s, layout, kept, datasize) ==
  LET dataoff == Align16(kept)
      linkedit_size == dataoff + datasize - s.cmds[layout.linkedit].fileoff
      added == IF layout.codesig # 0 THEN 0 ELSE 1
  IN  [magic |-> s.magic, cpu |-> s.cpu, code |-> s.code,
       len |-> Min({s.len, kept}),
       size |-> dataoff + datasize,
       cmds |-> [SignedCommands(s, dataoff, datasize) EXCEPT ![layout.linkedit] =
                   Resized(@, linkedit_size, AlignUp(linkedit_size, VmPage(s)))],
       ncmds |-> s.ncmds + added,
       sizeofcmds |-> s.sizeofcmds + added * SignatureCommandSize,
       blob |-> <<>>]

Reserved(s, datasize) == ReservedAs(s, ParseMachOSlice(s), Kept(s), datasize)

\* The layout after signing and its CodeDirectory, or Malformed.
PlanAs(s, r, kept) ==
  LET dataoff == Align16(kept)
      cd_size == CodeDirectorySize(r, dataoff)
      datasize == Align16(SuperBlobFixedSize + cd_size + r.capacity)
      out == Reserved(s, datasize)
  IN  IF ~Signable(s) \/ r.nul \/ dataoff + datasize > Uint32Max \/ cd_size > Uint32Max
      THEN Malformed
      ELSE [ok |-> TRUE, slice |-> out, dataoff |-> dataoff,
            cd |-> [covers |-> Covered(out, dataoff), identity |-> r.identity,
                    size |-> cd_size, cpu |-> s.cpu]]

PlanSlice(s, r) == PlanAs(s, r, Kept(s))

\* The blobs of a signature at their offsets.
BuildSuperBlob(cd, cms) ==
  LET cd_at == 12 + 3 * 8
      req_at == cd_at + cd.size
      cms_at == req_at + 12
  IN  [length |-> cms_at + 8 + cms.size,
       index |-> <<[slot |-> "directory", offset |-> cd_at],
                   [slot |-> "requirements", offset |-> req_at],
                   [slot |-> "cms", offset |-> cms_at]>>,
       blobs |-> {[offset |-> cd_at, magic |-> "directory", length |-> cd.size, data |-> cd],
                  [offset |-> req_at, magic |-> "requirements", length |-> 12, data |-> 0],
                  [offset |-> cms_at, magic |-> "cms", length |-> 8 + cms.size, data |-> cms]}]

\* The blobs that the index of a SuperBlob gives for a slot; none when any
\* entry of the index is out of range or the blob is not what it should be.
FindSuperBlobSlot(blob, slot) ==
  LET index_end == 12 + 8 * Len(blob.index)
      wanted == {i \in DOMAIN blob.index : blob.index[i].slot = slot}
  IN  IF \/ blob.length < 12 \/ index_end > blob.length
         \/ \E i \in DOMAIN blob.index : \/ blob.index[i].offset < index_end
                                         \/ blob.index[i].offset + 8 > blob.length
         \/ wanted = {}
      THEN {}
      ELSE {b \in blob.blobs : /\ b.offset = blob.index[Min(wanted)].offset
                               /\ b.magic = slot /\ b.length >= 8
                               /\ b.offset + b.length <= blob.length}

\* The commands without the one at a position.
Without(cmds, k) == [i \in 1..(Len(cmds) - 1) |-> IF i < k THEN cmds[i] ELSE cmds[i + 1]]

\* The slice cut off at `cut`, its signature command removed.
CutSlice(s, cut) ==
  LET layout == ParseMachOSlice(s)
      sig == layout.codesig
      segment == IF layout.linkedit > sig THEN layout.linkedit - 1 ELSE layout.linkedit
      link == s.cmds[layout.linkedit]
      filesize == cut - link.fileoff
      vmsize == IF link.vmsize < filesize THEN AlignUp(filesize, VmPage(s)) ELSE link.vmsize
  IN  [magic |-> s.magic, cpu |-> s.cpu, code |-> s.code,
       len |-> Min({s.len, cut}), size |-> cut,
       cmds |-> [Without(s.cmds, sig) EXCEPT ![segment] = Resized(@, filesize, vmsize)],
       ncmds |-> s.ncmds - 1,
       sizeofcmds |-> s.sizeofcmds - s.cmds[sig].size,
       blob |-> <<>>]

\* Mutant: the bytes before the signature are taken for padding.
MutStripSlice(s) ==
  LET cut == SignatureStart(s) - (SignatureStart(s) % 16)
  IN  IF s.cmds[ParseMachOSlice(s).linkedit].fileoff > cut THEN Malformed
      ELSE [ok |-> TRUE, slice |-> CutSlice(s, cut)]

\* The slice without its signature and its command, or Malformed.
StripSlice(s) ==
  LET linkedit == ParseMachOSlice(s).linkedit
      cut == SignatureStart(s)
  IN  IF cut < 0 \/ linkedit = 0 \/ s.cmds[linkedit].fileoff > cut THEN Malformed
      ELSE [ok |-> TRUE, slice |-> CutSlice(s, cut)]

-----------------------------------------------------------------------------
(* The whole file *)

\* Table positions in the order of their offsets.  Slices that do not overlap
\* have distinct offsets, so there is one order and it does not matter that the
\* sort is stable.
Orders(f) ==
  {order \in [DOMAIN f.table -> DOMAIN f.table] :
     \A j, k \in DOMAIN f.table :
       j < k => f.table[order[j]].offset < f.table[order[k]].offset}
TheOne(S) == CHOOSE x \in S : TRUE
ByOffset(f) == TheOne(Orders(f))

\* What PlanAll and StripSignature ask of the file before they look at slices.
Acceptable(f) == ParseMachOContainer(f) /\ Supported(f) /\ f.clean

\* The plans of all slices, or Malformed.
PlanAll(f, r) ==
  LET plans == [i \in DOMAIN f.table |-> PlanSlice(SliceAt(f, i), r)]
  IN  IF ~Acceptable(f) \/ r.capacity > MaxCapacity \/ \E i \in DOMAIN f.table : ~plans[i].ok
      THEN Malformed
      ELSE [ok |-> TRUE, slices |-> plans]

\* The alignments a table may ask for: 1 << align.
PowerOfTwo[n \in 0..31] == IF n = 0 THEN 1 ELSE 2 * PowerOfTwo[n - 1]

\* The end of each slice when they are laid out one after the other.
SliceEnds(f, slices) ==
  LET order == ByOffset(f)
      cursor[k \in 0..Len(f.table)] ==
        IF k = 0 THEN f.table[order[1]].offset
        ELSE AlignUp(cursor[k - 1], PowerOfTwo[f.table[order[k]].align]) + slices[order[k]].size
  IN  cursor

\* The position of a slice in the order of offsets.
Rank(f, i) == LET order == ByOffset(f) IN CHOOSE k \in DOMAIN f.table : order[k] = i

\* Mutant: the alignment of the slices is lost.
MutNewOffsets(f, slices) ==
  [i \in DOMAIN f.table |-> SliceEnds(f, slices)[Rank(f, i) - 1]]

\* The new offsets, in the order of the old ones.
NewOffsets(f, slices) ==
  LET ends == SliceEnds(f, slices)
  IN  [i \in DOMAIN f.table |-> AlignUp(ends[Rank(f, i) - 1], PowerOfTwo[f.table[i].align])]

\* Where the last slice ends.
EndOf(f) == Max({f.table[i].offset + f.table[i].size : i \in DOMAIN f.table})

\* A universal file around the finished slices; the bytes after the last slice
\* are kept.
AssembleUniversal(f, slices) ==
  LET offsets == NewOffsets(f, slices)
      end == Max({offsets[i] + slices[i].size : i \in DOMAIN f.table})
  IN  IF \/ \E i \in DOMAIN f.table : f.table[i].align >= 32
         \/ f.form = "fat32" /\ end > Uint32Max
      THEN Malformed
      ELSE [ok |-> TRUE, file |->
             [form |-> f.form,
              table |-> [i \in DOMAIN f.table |->
                 [offset |-> offsets[i], size |-> slices[i].size, align |-> f.table[i].align]],
              at |-> [o \in {offsets[i] : i \in DOMAIN f.table} |->
                 slices[CHOOSE i \in DOMAIN f.table : offsets[i] = o]],
              clean |-> TRUE,
              size |-> end + (f.size - EndOf(f))]]

\* The new file: the one slice, or the universal file around the slices.
NewFile(f, slices) ==
  IF f.form = "thin"
  THEN [ok |-> TRUE, file |->
         [form |-> f.form,
          table |-> <<[offset |-> 0, size |-> slices[1].size, align |-> f.table[1].align]>>,
          at |-> [o \in {0} |-> slices[1]],
          clean |-> f.clean,
          size |-> slices[1].size]]
  ELSE AssembleUniversal(f, slices)

\* Mutant: the CodeDirectories are not compared.
MutSameDirectories(plan, slices) ==
  plan.ok /\ Len(plan.slices) = Len(slices)

\* The CodeDirectories of the program as it is now are the prepared ones.
SameDirectories(plan, slices) ==
  /\ plan.ok
  /\ Len(plan.slices) = Len(slices)
  /\ \A i \in DOMAIN slices : plan.slices[i].cd = slices[i]

\* A slice with its signature in the reserved region, or with another code.
Filled(s, blob) ==
  [magic |-> s.magic, cpu |-> s.cpu, code |-> s.code, len |-> s.len, size |-> s.size,
   cmds |-> s.cmds, ncmds |-> s.ncmds, sizeofcmds |-> s.sizeofcmds, blob |-> <<blob>>]
Recoded(s, code) ==
  [magic |-> s.magic, cpu |-> s.cpu, code |-> code, len |-> s.len, size |-> s.size,
   cmds |-> s.cmds, ncmds |-> s.ncmds, sizeofcmds |-> s.sizeofcmds, blob |-> s.blob]

\* CompleteSignature on what it read, with one CMS per prepared slice.
SignedSlice(p, cms) == Filled(p.slice, BuildSuperBlob(p.cd, cms))

CompleteAs(f, r, plan, slices, cms) ==
  IF \/ ~SameDirectories(plan, slices)
     \/ Len(cms) # Len(plan.slices)
     \/ \E i \in DOMAIN cms : cms[i].size > r.capacity
  THEN Malformed
  ELSE NewFile(f, [i \in DOMAIN f.table |-> SignedSlice(plan.slices[i], cms[i])])

Complete(f, r, slices, cms) == CompleteAs(f, r, PlanAll(f, r), slices, cms)

Signed(s) == s.magic = "supported" /\ ParseMachOSlice(s).codesig # 0

\* StripSignature on what it read.
Strip(f) ==
  LET stripped == [i \in DOMAIN f.table |->
        IF Signed(SliceAt(f, i)) THEN StripSlice(SliceAt(f, i))
        ELSE [ok |-> TRUE, slice |-> SliceAt(f, i)]]
  IN  IF ~Acceptable(f) \/ \E i \in DOMAIN stripped : ~stripped[i].ok THEN Malformed
      ELSE IF \A i \in DOMAIN f.table : ~Signed(SliceAt(f, i)) THEN [ok |-> TRUE, file |-> f]
      ELSE NewFile(f, [i \in DOMAIN stripped |-> stripped[i].slice])

\* The signature of a slice: none, or what is at the command's offset.
SignatureOfSlice(s) ==
  IF /\ Signed(s)
     /\ s.cmds[ParseMachOSlice(s).codesig].dataoff # 0
     /\ s.cmds[ParseMachOSlice(s).codesig].datasize # 0
  THEN s.blob ELSE <<>>

HasEmbeddedSignature(f) == \A i \in DOMAIN f.table : SignatureOfSlice(SliceAt(f, i)) # <<>>

-----------------------------------------------------------------------------
(* The signers *)

Init ==
  /\ origin \in Programs
  /\ file = origin
  /\ pc = [s \in Signers |-> "idle"]
  /\ prepared = [s \in Signers |-> <<>>]
  /\ snap = [s \in Signers |-> <<>>]
  /\ edits = 0
  /\ last = "none"

\* PrepareSignature: never writes.
Prepare(s) ==
  LET plan == PlanAll(file, Request[s])
  IN  /\ pc[s] = "idle" /\ plan.ok
      /\ prepared' = [prepared EXCEPT ![s] = [i \in DOMAIN file.table |-> plan.slices[i].cd]]
      /\ pc' = [pc EXCEPT ![s] = "prepared"]
      /\ UNCHANGED <<origin, file, snap, edits, last>>

\* CompleteSignature or StripSignature reads the file.
Read(s, from, to) ==
  /\ pc[s] = from
  /\ snap' = [snap EXCEPT ![s] = <<file>>]
  /\ pc' = [pc EXCEPT ![s] = to]
  /\ UNCHANGED <<origin, file, prepared, edits, last>>

CompleteRead(s) == Read(s, "prepared", "complete")

StripRead(s) == Read(s, "idle", "strip")

Finish(s) ==
  /\ pc' = [pc EXCEPT ![s] = "idle"]
  /\ snap' = [snap EXCEPT ![s] = <<>>]
  /\ prepared' = [prepared EXCEPT ![s] = <<>>]
  /\ UNCHANGED <<origin, edits>>

\* CompleteSignature checks, builds and writes.
CompleteWrite(s) ==
  LET cms == [i \in DOMAIN prepared[s] |->
               [by |-> s, over |-> prepared[s][i], size |-> Request[s].cms]]
      new == Complete(snap[s][1], Request[s], prepared[s], cms)
  IN  /\ pc[s] = "complete" /\ new.ok
      /\ file' = new.file
      /\ last' = "complete"
      /\ Finish(s)

\* StripSignature writes, unless there was nothing to strip.
StripWrite(s) ==
  LET new == Strip(snap[s][1])
  IN  /\ pc[s] = "strip" /\ new.ok
      /\ IF new.file = snap[s][1] THEN UNCHANGED <<file, last>>
         ELSE file' = new.file /\ last' = "strip"
      /\ Finish(s)

\* The call is refused, or WriteFileBytes fails.
Fail(s) ==
  /\ pc[s] \in {"complete", "strip"}
  /\ Finish(s)
  /\ UNCHANGED <<file, last>>

\* Another tool changes the code of one program and leaves the signature.
Edit ==
  /\ edits < MaxEdits
  /\ edits' = edits + 1
  /\ \E o \in DOMAIN file.at :
       file' = [form |-> file.form, table |-> file.table,
                at |-> [file.at EXCEPT ![o] = Recoded(@, edits + 1)],
                clean |-> file.clean, size |-> file.size]
  /\ last' = "edit"
  /\ UNCHANGED <<origin, pc, prepared, snap>>

Next ==
  \/ \E s \in Signers :
       \/ Prepare(s) \/ CompleteRead(s) \/ CompleteWrite(s)
       \/ StripRead(s) \/ StripWrite(s) \/ Fail(s)
  \/ Edit

Spec == Init /\ [][Next]_vars

-----------------------------------------------------------------------------
(* Properties *)

Slices(f) == {SliceAt(f, i) : i \in DOMAIN f.table}

\* What the CodeDirectory of a slice says, looked at from the outside.
Verifies(s) ==
  LET sig == s.cmds[ParseMachOSlice(s).codesig]
      directories == FindSuperBlobSlot(s.blob[1], "directory")
      signatures == FindSuperBlobSlot(s.blob[1], "cms")
  IN  /\ Signed(s) /\ s.blob # <<>>
      /\ s.blob[1].length <= sig.datasize
      /\ sig.dataoff + sig.datasize = s.size
      /\ \E d \in directories : d.data.covers = Covered(s, sig.dataoff)
      /\ \E d \in directories, c \in signatures : c.data.over = d.data

\* A program as linkers lay it out, which the code takes for granted: its data is
\* behind the load commands, and so is an empty __LINKEDIT; no segment but
\* __LINKEDIT and none of its own bytes are in the data of its signature.
Regular(s) ==
  LET layout == ParseMachOSlice(s)
  IN  layout.ok /\ layout.supported =>
        /\ layout.first_content >= layout.header_end
        /\ layout.linkedit # 0 => s.cmds[layout.linkedit].fileoff >= layout.header_end
        /\ Kept(s) >= 0 =>
             /\ s.len <= Kept(s)
             /\ \A i \in Positions(s.cmds, "segment") : i # layout.linkedit =>
                  s.cmds[i].fileoff + s.cmds[i].filesize <= Kept(s)

IsRegular == \A s \in Slices(origin) : Regular(s)

(***************************************************************************)
(* A file that CompleteSignature wrote last verifies: in every slice the   *)
(* CodeDirectory found through the SuperBlob covers the very bytes now in  *)
(* front of the signature, the CMS found there signs that CodeDirectory,   *)
(* and both lie in the reserved region, whatever happened to the file      *)
(* between Prepare and Complete.                                           *)
(***************************************************************************)
SignatureCovers ==
  IsRegular /\ last = "complete" =>
    HasEmbeddedSignature(file) /\ \A s \in Slices(file) : Verifies(s)

\* The slice ends with its __LINKEDIT segment, which has room in memory, and has
\* a signature command or space for one.
EndsWithLinkedit(s) ==
  LET layout == ParseMachOSlice(s)
      link == s.cmds[layout.linkedit]
  IN  /\ layout.linkedit # 0
      /\ link.fileoff + link.filesize = s.size /\ link.vmsize >= link.filesize
      /\ layout.codesig = 0 => FreeHeaderSpace(layout) >= SignatureCommandSize

(***************************************************************************)
(* What the library wrote it accepts again: the file parses, its slices    *)
(* are aligned, apart and in their old order, and every slice that is not  *)
(* as it was in the original has what PlanSlice needs to sign it again: it *)
(* ends with its __LINKEDIT segment and has a signature command or space   *)
(* for one (StripSignature leaves an unsigned slice of a universal file    *)
(* alone, whatever it looks like).                                         *)
(***************************************************************************)
WrittenIsSignable ==
  IsRegular /\ last \in {"complete", "strip"} =>
    /\ Acceptable(file)
    /\ ByOffset(file) = ByOffset(origin)
    /\ \A i \in DOMAIN file.table :
         /\ file.table[i].offset % PowerOfTwo[file.table[i].align] = 0
         /\ LET now == SliceAt(file, i)
                before == SliceAt(origin, i)
            IN  now = Recoded(before, now.code) \/ EndsWithLinkedit(now)

\* The commands without what signing adds, and changes in the link-edit segment.
Unsigned(cmds) ==
  LET signatures == Positions(cmds, "signature")
      others == IF signatures = {} THEN cmds ELSE Without(cmds, Min(signatures))
      link == FirstOf(Segments(others, "__LINKEDIT"))
  IN  [i \in DOMAIN others |-> IF i = link THEN Resized(others[i], 0, 0) ELSE others[i]]

(***************************************************************************)
(* No sequence of signing, signing again and stripping loses any of the    *)
(* program: every command but the signature's is as it was, in its order,  *)
(* all bytes are there, a stripped slice grew by less than 16 bytes of     *)
(* padding, and the bytes after the last slice are kept.  The header       *)
(* padding in which a signature command was placed is not looked at.       *)
(***************************************************************************)
ProgramKept ==
  IsRegular =>
    /\ Len(file.table) = Len(origin.table)
    /\ file.size - EndOf(file) = origin.size - EndOf(origin)
    /\ \A i \in DOMAIN file.table :
         LET now == SliceAt(file, i)
             before == SliceAt(origin, i)
         IN  now.magic \in Thin =>
               /\ now.cpu = before.cpu /\ now.len = before.len
               /\ Unsigned(now.cmds) = Unsigned(before.cmds)
               /\ last = "strip" => ~Signed(now) /\ now.size < Kept(before) + 16

(***************************************************************************)
(* A prepared signature can be completed whenever the program's own bytes  *)
(* are those it was prepared for, however often other signers signed,      *)
(* signed again or stripped meanwhile: the CodeDirectories do not depend   *)
(* on the signature that is there.  (The command of another producer's     *)
(* signature is not restored by signing after a strip when it was larger   *)
(* than 16 bytes or not the last one.)                                     *)
(***************************************************************************)
PreparedStaysValid ==
  /\ IsRegular
  /\ \A s \in Slices(origin) : \A i \in Positions(s.cmds, "signature") :
       s.cmds[i].size = SignatureCommandSize /\ i = Len(s.cmds)
  =>
  \A s \in Signers :
    /\ pc[s] \in {"prepared", "complete"}
    /\ \A i \in DOMAIN prepared[s] : SliceAt(file, i).code = prepared[s][i].covers.code
    => SameDirectories(PlanAll(file, Request[s]), prepared[s])
=============================================================================
