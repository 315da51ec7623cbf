----------------------------- MODULE CfbWriter -----------------------------
(***************************************************************************)
(* Writer of compound files (src/internal/CfbWriter.cpp): a package is     *)
(* rebuilt whole from its model and a signature, in one canonical layout,  *)
(* and read back before it is returned.                                    *)
(***************************************************************************)
EXTENDS CfbReader

-----------------------------------------------------------------------------
(* Writing: the entries *)

SignatureStream(bytes) ==
  [name |-> SignatureName, path |-> <<SignatureName>>, storage |-> FALSE, class |-> 0, meta |-> 0,
   bytes |-> bytes]

\* The nodes to write: the old signature streams are gone, the new one is in.
Run(contents, signature) ==
  contents.nodes \o (IF signature = <<>> THEN <<>> ELSE <<SignatureStream(signature)>>)

\* Names that are equal in the format's order are refused, also where one of
\* them is the new signature's.
CheckUniqueNames(m, signature) ==
  \E kept \in {{i \in DOMAIN m.nodes : ~IsSignature(m.nodes[i])}} :
    /\ UniqueNames(m.nodes, kept)
    /\ signature # <<>> => \A i \in kept : \/ PathLess(m.nodes[i].path, <<SignatureName>>)
                                          \/ PathLess(<<SignatureName>>, m.nodes[i].path)

\* Different elements in the order of their paths: each comes after as many as
\* are less.
Ranked(elements, Less(_, _)) ==
  [k \in 1..Cardinality(elements) |->
     CHOOSE e \in elements : Cardinality({d \in elements : Less(d.path, e.path)}) = k - 1]

\* The entries: those of one storage at consecutive positions, in the format's
\* order, then those of each of its storages.
Expand(nodes) == Ranked(ToSet(nodes), PathLess)

\* The positions of the entries of a storage.
Children(entries, path) ==
  {i \in DOMAIN entries : entries[i].path # <<>> /\ Front(entries[i].path) = path}

\* The middle entry is the root of the tree, the halves are its subtrees.
Middle(low, high) == (low + high) \div 2

Half(place, range) ==
  IF place = Middle(range.low, range.high) THEN range
  ELSE IF place < Middle(range.low, range.high)
       THEN [range EXCEPT !.high = Middle(range.low, range.high)]
       ELSE [range EXCEPT !.low = Middle(range.low, range.high) + 1]

\* The part of a storage's entries that the subtree of one of them holds.
Subtree(count, place) ==
  LET range[i \in 0..count] ==
        IF i = 0 THEN [low |-> 0, high |-> count] ELSE Half(place, range[i - 1])
  IN  range[count]

Link(first, low, high) == IF low >= high THEN NoStream ELSE first + Middle(low, high)

-----------------------------------------------------------------------------
(* Writing: the layout *)

Small(entry) == Len(entry.bytes) < MiniStreamCutoff

\* The units taken by the streams of one region before an entry.
UnitsBefore(entries, i, unit, small) ==
  LET units[j \in 0..(i - 1)] ==
        IF j = 0 THEN 0
        ELSE units[j - 1] + (IF Small(entries[j]) = small THEN UnitsFor(Len(entries[j].bytes), unit)
                             ELSE 0)
  IN  units[i - 1]

\* Where each region starts and how many sectors it takes.
ComputeLayout(entries, version) ==
  LET g == Geometry[version]
      streams == UnitsBefore(entries, Len(entries) + 1, g.cells, FALSE)
      mini == UnitsBefore(entries, Len(entries) + 1, MiniSectorSize, TRUE)
      mini_stream == UnitsFor(mini * MiniSectorSize, g.cells)
      mini_index == UnitsFor(mini, g.index)
      directory == UnitsFor(Len(entries), g.entries)
      others == streams + mini_stream + mini_index + directory
      fat == FatSectors(others, g.index)
      difat == DifatSectors(fat, g.index)
      mini_index_start == streams + mini_stream
      directory_start == mini_index_start + mini_index
  IN [mini |-> mini, mini_stream_start |-> streams, mini_stream |-> mini_stream,
      mini_index_start |-> mini_index_start, mini_index |-> mini_index,
      directory_start |-> directory_start, directory |-> directory,
      difat_start |-> others, difat |-> difat, fat_start |-> others + difat, fat |-> fat,
      total |-> others + difat + fat]

-----------------------------------------------------------------------------
(* Writing: the image *)

\* A sequence cut into that many pieces of one size, padded.
Pages(s, count, size, pad) ==
  [k \in 1..count |-> [i \in 1..size |-> At(s, (k - 1) * size + i - 1, pad)]]

Paged(s, size, pad) == Pages(s, UnitsFor(Len(s), size), size, pad)

\* Where the streams of one region end.
Ends(entries, unit, small) ==
  {UnitsBefore(entries, i, unit, small) : i \in 1..(Len(entries) + 1)}

\* SetRun: runs that follow each other as chains; each sector links to the next,
\* the last of a run to none.
Chains(count, ends) == [i \in 1..count |-> IF i \in ends THEN EndOfChain ELSE i]

\* The streams of one region, each filled up to whole units.
Data(entries, unit, small) ==
  FlattenSeq(FlattenSeq([i \in DOMAIN entries |->
    IF Small(entries[i]) = small THEN Paged(entries[i].bytes, unit, <<>>) ELSE <<>>]))

Sector(data, index, entries) == [data |-> data, index |-> index, entries |-> entries]

\* The links of a storage's entries and of the storage to its tree.
LeftOf(first, range, place) == Link(first, range.low, place)
RightOf(first, range, place) == Link(first, place + 1, range.high)
ChildOf(inner) == IF inner = {} THEN NoStream ELSE Link(Min(inner) - 1, 0, Cardinality(inner))

DirectoryEntry(entries, i, layout, cells) ==
  LET e == entries[i]
      siblings == Children(entries, Front(e.path))
      first == Min(siblings)
      range == Subtree(Cardinality(siblings), i - first)
      start == IF e.bytes = <<>> THEN EndOfChain
               ELSE UnitsBefore(entries, i, IF Small(e) THEN MiniSectorSize ELSE cells, Small(e))
  IN [name |-> e.name, class |-> e.class, meta |-> e.meta,
      type |-> IF i = 1 THEN "root" ELSE IF e.storage THEN "storage" ELSE "stream",
      left |-> IF i = 1 THEN NoStream ELSE LeftOf(first - 1, range, i - first),
      right |-> IF i = 1 THEN NoStream ELSE RightOf(first - 1, range, i - first),
      child |-> ChildOf(Children(entries, e.path)),
      start |-> IF i = 1 THEN IF layout.mini = 0 THEN EndOfChain ELSE layout.mini_stream_start
                ELSE IF e.storage THEN 0 ELSE start,
      size |-> IF i = 1 THEN layout.mini * MiniSectorSize ELSE Len(e.bytes)]

\* The place in the FAT's own list, for the header and the extended index.
FatSectorAt(layout, k) == IF k < layout.fat THEN layout.fat_start + k ELSE FreeSector

\* The header of the new file; the version is kept.
Header(image, layout) ==
  LET start(at, count) == IF count = 0 THEN EndOfChain ELSE at
  IN [version |-> image.version, magic |-> TRUE, sound |-> TRUE,
      difat |-> [i \in 1..HeaderDifatEntries |-> FatSectorAt(layout, i - 1)],
      first_dir |-> layout.directory_start,
      first_mini_fat |-> start(layout.mini_index_start, layout.mini_index),
      total_mini_fat |-> layout.mini_index,
      first_difat |-> start(layout.difat_start, layout.difat), total_difat |-> layout.difat,
      missing |-> 0, sectors |-> <<>>]

\* Mutant: the buffer of the old package is reused and never shrinks.
MutAssemble(image, layout, sectors) ==
  [Header(image, layout) EXCEPT
     !.sectors = sectors \o SubSeq(image.sectors, Len(sectors) + 1, Len(image.sectors))]

\* A new buffer, with the header and the sectors.
Assemble(image, layout, sectors) == [Header(image, layout) EXCEPT !.sectors = sectors]

\* The FAT: the chains of the regions in their order, then the index sectors.
\* What is past the index sectors would be lost.
FatTable(entries, layout, g) ==
  LET ends == Ends(entries, g.cells, FALSE)
              \cup {layout.mini_index_start, layout.directory_start, layout.difat_start}
      table == Chains(layout.difat_start, ends)
               \o [d \in 1..layout.difat |-> DifatSector]
               \o [f \in 1..layout.fat |-> FatSector]
  IN  Pages(table, layout.fat, g.index, FreeSector)

\* The extended index: the FAT sectors the header has no room for, and a link.
DifatTable(layout, g) ==
  LET per_difat == g.index - 1
      at(d, j) == HeaderDifatEntries + (d - 1) * per_difat + j - 1
  IN [d \in 1..layout.difat |->
        [j \in 1..per_difat |-> FatSectorAt(layout, at(d, j))]
        \o <<IF d < layout.difat THEN layout.difat_start + d ELSE EndOfChain>>]

Serialise(image, entries, layout) ==
  LET g == Geometry[image.version]
      data(s) == [k \in DOMAIN s |-> Sector(s[k], <<>>, <<>>)]
      index(s) == [k \in DOMAIN s |-> Sector(<<>>, s[k], <<>>)]
      slots == Paged([i \in DOMAIN entries |-> DirectoryEntry(entries, i, layout, g.cells)],
                     g.entries, UnusedEntry)
  IN  Assemble(image, layout,
        data(Paged(Data(entries, g.cells, FALSE), g.cells, <<>>))
        \o data(Paged(Data(entries, MiniSectorSize, TRUE), g.cells, <<>>))
        \o index(Paged(Chains(layout.mini, Ends(entries, MiniSectorSize, TRUE)), g.index, FreeSector))
        \o [k \in DOMAIN slots |-> Sector(<<>>, <<>>, slots[k])]
        \o index(DifatTable(layout, g)) \o index(FatTable(entries, layout, g)))

\* The self-check: exactly the entries read back, and a search in its storage
\* finds every one of them.
CompareEntry(entries, check, reread) ==
  /\ reread.ok
  /\ Len(reread.nodes) = Len(entries)
  /\ ToSet(reread.nodes) = ToSet(entries)
  /\ \A n, storage \in ToSet(check.nodes) :
       n.path # <<>> /\ storage.path = Front(n.path)
         => FindBySearch(check.nodes, storage, n.name) = n.id

Refused == [ok |-> FALSE, why |-> "refused"]

\* The new image, unless it does not read back: `why` tells a refusal from an
\* internal error of the writer.
Verified(entries, out, check) ==
  IF check.ok /\ CompareEntry(entries, check, Contents(check, TRUE))
  THEN [ok |-> TRUE, image |-> out]
  ELSE [ok |-> FALSE, why |-> "internal"]

Verify(entries, out) == Verified(entries, out, Parse(out))

WriteEntries(image, entries, layout) ==
  IF layout.total > MaxSectors THEN Refused
  ELSE Verify(entries, Serialise(image, entries, layout))

LayOut(image, entries) == WriteEntries(image, entries, ComputeLayout(entries, image.version))

WriteContents(m, contents, signature) ==
  IF contents.ok /\ CheckUniqueNames(m, signature)
  THEN LayOut(m.image, Expand(Run(contents, signature)))
  ELSE Refused

WriteCfb(m, signature) == WriteContents(m, Contents(m, FALSE), signature)

=============================================================================
