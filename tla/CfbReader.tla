----------------------------- MODULE CfbReader -----------------------------
(***************************************************************************)
(* Reader of compound files, the container of installer packages           *)
(* (src/internal/CfbReader.cpp): an image is parsed into a model, and the  *)
(* streams of a model are resolved into their bytes.                       *)
(*                                                                         *)
(* An image is the header fields and the sectors after the header.  A      *)
(* sector is what its bytes read as: data cells, index entries, directory  *)
(* entries; a kind it was not written as reads as zeros, free entries and  *)
(* unused entries.  A cell is one byte: <<>> for zero, else a tuple.  A    *)
(* name is a sequence of UTF-16 units.  `meta` stands for state bits and   *)
(* times.  An operator for code that may throw returns a record with `ok`. *)
(***************************************************************************)
EXTENDS CfbLayout, SequencesExt

CONSTANTS
  Geometry,            \* per major version: cells, index entries, directory entries of a sector
  MiniSectorSize,      \* kMiniSectorSize
  MiniStreamCutoff,    \* kMiniStreamCutoff
  MaxStorageDepth,     \* kCfbMaxStorageDepth
  MaxSectors,          \* kCfbMaxSectors
  Uint32Max            \* UINT32_MAX, for the stream sizes of version 3

ASSUME GeometryAssumption ==
  /\ DOMAIN Geometry = {3, 4}
  /\ \A v \in {3, 4} : /\ Geometry[v].cells \in Nat \ {0} /\ Geometry[v].cells % MiniSectorSize = 0
                       /\ Geometry[v].index \in Nat \ {0, 1} /\ Geometry[v].entries \in Nat \ {0}

ASSUME LimitsAssumption ==
  /\ MiniSectorSize \in Nat \ {0} /\ MiniStreamCutoff \in Nat \ {0}
  /\ MaxSectors \in Nat /\ MaxStorageDepth \in Nat /\ Uint32Max \in Nat

\* The reserved numbers, in their places above the highest sector.
DifatSector == MaxSectors + 2
FatSector == MaxSectors + 3
EndOfChain == MaxSectors + 4
FreeSector == MaxSectors + 5
NoStream == FreeSector

UnusedEntry ==
  [name |-> <<>>, type |-> "unknown", left |-> NoStream, right |-> NoStream, child |-> NoStream,
   class |-> 0, meta |-> 0, start |-> FreeSector, size |-> 0]

DirEntry ==
  [name : Seq(Nat), type : {"unknown", "root", "storage", "stream"}, left : Nat, right : Nat,
   child : Nat, class : Nat, meta : Nat, start : Nat, size : Nat]

\* What the bytes of any file read as, once the header says it is a compound file.
IsImage(image) ==
  /\ image.version \in {3, 4}
  /\ image.difat \in Seq(Nat)
  /\ \A f \in {"first_dir", "first_mini_fat", "total_mini_fat", "first_difat", "total_difat",
              "missing"} : image[f] \in Nat
  /\ image.sectors \in Seq(ToSet(image.sectors))
  /\ \A s \in ToSet(image.sectors) : s.index \in Seq(Nat) /\ s.entries \in Seq(DirEntry)

SignatureName == <<5, 68>>
SignatureExName == <<5, 77, 69>>

\* Element k, from 0, or the padding.
At(s, k, pad) == IF k < Len(s) THEN s[k + 1] ELSE pad

CellsOf(image) == Geometry[image.version].cells
IndexOf(image) == Geometry[image.version].index
EntriesOf(image) == Geometry[image.version].entries

-----------------------------------------------------------------------------
(* Names *)

UpperCase(unit) == IF unit \in 97..122 THEN unit - 32 ELSE unit

\* The format's order: the shorter first, then the upper-cased units.
NameLess(a, b) ==
  \/ Len(a) < Len(b)
  \/ /\ Len(a) = Len(b)
     /\ \E i \in DOMAIN a : /\ UpperCase(a[i]) < UpperCase(b[i])
                            /\ \A j \in 1..(i - 1) : UpperCase(a[j]) = UpperCase(b[j])

SameName(a, b) == ~NameLess(a, b) /\ ~NameLess(b, a)

IsSignatureName(name) == name \in {SignatureName, SignatureExName}

\* The format's order of a package: the entries of a storage come before the
\* entries of its storages, and either come in the order of the names.
PathLess(p, q) ==
  \E k \in 1..Len(q) :
    /\ k <= Len(p) + 1
    /\ \A i \in 1..(k - 1) : p[i] = q[i]
    /\ \/ k > Len(p)
       \/ k = Len(p) /\ k < Len(q) /\ p[k] # q[k]
       \/ (k = Len(p) <=> k = Len(q)) /\ NameLess(p[k], q[k])

\* No two of these nodes have one name in one storage.
UniqueNames(nodes, positions) ==
  \A i, j \in positions :
    i # j => PathLess(nodes[i].path, nodes[j].path) \/ PathLess(nodes[j].path, nodes[i].path)

\* A signature stream of the root, or what is below a storage of that name.
IsSignature(node) == node.path # <<>> /\ IsSignatureName(node.path[1])

-----------------------------------------------------------------------------
(* Reading: sectors and chains *)

SectorCount(image) == Len(image.sectors)

\* The first n cells of a sector are inside the file.
RangeFits(image, s, n) ==
  /\ s < SectorCount(image)
  /\ n <= CellsOf(image) - (IF s = SectorCount(image) - 1 THEN image.missing ELSE 0)

WholeSector(image, s) == RangeFits(image, s, CellsOf(image))

IndexCell(image, s, k) == At(image.sectors[s + 1].index, k, FreeSector)

\* The entries of a list up to the first unused one.
Listed(s) ==
  LET stops == {i \in DOMAIN s : s[i] \in {FreeSector, EndOfChain}}
  IN  IF stops = {} THEN s ELSE SubSeq(s, 1, Min(stops) - 1)

ReadDifatSector(image, w) ==
  IF ~w.ok \/ w.at \in {EndOfChain, FreeSector} THEN w
  ELSE IF ~WholeSector(image, w.at) \/ w.at \in w.seen THEN [w EXCEPT !.ok = FALSE]
  ELSE LET last == IndexOf(image) - 1
       IN [ok |-> TRUE, seen |-> w.seen \cup {w.at}, at |-> IndexCell(image, w.at, last),
           list |-> w.list \o Listed([k \in 1..last |-> IndexCell(image, w.at, k - 1)])]

\* The sectors of the FAT, listed once and inside the file.
FatOf(image, w) ==
  [ok |-> /\ w.ok
          /\ IsInjective(w.list)
          /\ \A i \in DOMAIN w.list : WholeSector(image, w.list[i]),
   list |-> w.list]

\* The FAT is found from the header and the extended index.
BuildFat(image) ==
  LET difat[i \in 0..image.total_difat] ==
        IF i = 0 THEN [ok |-> TRUE, seen |-> {}, at |-> image.first_difat,
                       list |-> Listed(image.difat)]
        ELSE ReadDifatSector(image, difat[i - 1])
  IN  FatOf(image, difat[image.total_difat])

FatSize(m) == Len(m.fat) * IndexOf(m.image)

FatEntry(m, s) ==
  IndexCell(m.image, m.fat[s \div IndexOf(m.image) + 1], s % IndexOf(m.image))

\* Mutant: a sector that was visited before is accepted.
MutVisit(link, limit, w) ==
  IF ~w.ok \/ w.current = EndOfChain THEN w
  ELSE IF w.current >= limit THEN [w EXCEPT !.ok = FALSE]
  ELSE [ok |-> TRUE, used |-> w.used \cup {w.current}, chain |-> Append(w.chain, w.current),
        current |-> link[w.current]]

\* One turn of a walk: a sector past the tables, or one that this walk or the
\* walk of another stream has visited, ends it with an error.
Visit(link, limit, w) ==
  IF ~w.ok \/ w.current = EndOfChain THEN w
  ELSE IF w.current >= limit \/ w.current \in w.used THEN [w EXCEPT !.ok = FALSE]
  ELSE [ok |-> TRUE, used |-> w.used \cup {w.current}, chain |-> Append(w.chain, w.current),
        current |-> link[w.current]]

\* `limit` visits and one more turn end every walk that marks what it visits.
Walk(link, limit, start, used) ==
  LET walk[i \in 0..(limit + 1)] ==
        IF i = 0 THEN [ok |-> TRUE, current |-> start, chain |-> <<>>, used |-> used]
        ELSE Visit(link, limit, walk[i - 1])
  IN  walk[limit + 1]

Ended(walk) == walk.ok => walk.current = EndOfChain

\* Sectors that have an entry in the FAT and a place in the file.
ChainLimit(m) == Min({FatSize(m), SectorCount(m.image)})

WalkChain(m, start, used) ==
  Walk([s \in 0..(ChainLimit(m) - 1) |-> FatEntry(m, s)], ChainLimit(m), start, used)

FollowChain(m, start) == WalkChain(m, start, {})

WalkMiniChain(m, start, used) ==
  Walk([s \in 0..(Len(m.mini_fat) - 1) |-> m.mini_fat[s + 1]], Len(m.mini_fat), start, used)

-----------------------------------------------------------------------------
(* Reading: streams.  `u` is what resolving leaves in the model: the used   *)
(* sectors and mini sectors, and the mini stream's chain once it is known.  *)

Unresolved == [ok |-> TRUE, used |-> {}, mini_used |-> {}, ready |-> FALSE, container |-> <<>>,
               bytes |-> <<>>]

\* The `chunk`th piece of `unit` cells of a stream of that size.
Chunk(size, unit, k) == Min({unit, size - (k - 1) * unit})

CheckChainLength(size, chain, unit) == Len(chain) = UnitsFor(size, unit)

ReadOrdinary(m, u, stream, cells, walk) ==
  LET fits == /\ walk.ok
              /\ CheckChainLength(stream.size, walk.chain, cells)
              /\ \A k \in DOMAIN walk.chain :
                    RangeFits(m.image, walk.chain[k], Chunk(stream.size, cells, k))
  IN [u EXCEPT !.ok = fits, !.used = walk.used,
      !.bytes = IF ~fits THEN <<>>
                ELSE [i \in 1..stream.size |->
                        At(m.image.sectors[walk.chain[(i - 1) \div cells + 1] + 1].data,
                           (i - 1) % cells, <<>>)]]

ResolveOrdinary(m, u, stream) ==
  ReadOrdinary(m, u, stream, CellsOf(m.image), WalkChain(m, stream.start, u.used))

\* The mini stream's own chain covers the mini stream.
KeepMiniStream(m, u, cells, walk) ==
  LET needed == UnitsFor(m.mini_size, cells)
      fits == /\ walk.ok
              /\ Len(walk.chain) >= needed
              /\ \A k \in 1..needed : RangeFits(m.image, walk.chain[k], Chunk(m.mini_size, cells, k))
  IN  [u EXCEPT !.ok = fits, !.used = walk.used, !.ready = fits,
                !.container = IF fits THEN walk.chain ELSE <<>>]

EnsureMiniStream(m, u) ==
  IF u.ready THEN u
  ELSE IF m.mini_size = 0 THEN [u EXCEPT !.ready = TRUE]
  ELSE KeepMiniStream(m, u, CellsOf(m.image), WalkChain(m, m.mini_start, u.used))

\* The bytes of a mini stream once the mini stream's own chain is known.
ReadMini(m, u, stream, cells, walk) ==
  LET place(i) == walk.chain[(i - 1) \div MiniSectorSize + 1] * MiniSectorSize
                  + ((i - 1) % MiniSectorSize)
      cell(at) == At(m.image.sectors[u.container[at \div cells + 1] + 1].data, at % cells, <<>>)
      fits == /\ walk.ok
              /\ CheckChainLength(stream.size, walk.chain, MiniSectorSize)
              /\ \A i \in 1..stream.size : place(i) < m.mini_size
  IN  [u EXCEPT !.ok = fits, !.mini_used = walk.used,
         !.bytes = IF fits THEN [i \in 1..stream.size |-> cell(place(i))] ELSE <<>>]

ResolveInContainer(m, u, stream) ==
  IF ~u.ok THEN u
  ELSE ReadMini(m, u, stream, CellsOf(m.image), WalkMiniChain(m, stream.start, u.mini_used))

ResolveMini(m, u, stream) == ResolveInContainer(m, EnsureMiniStream(m, u), stream)

Resolve(m, u, stream) ==
  IF stream.storage \/ stream.size = 0 THEN [u EXCEPT !.bytes = <<>>]
  ELSE IF stream.size < MiniStreamCutoff THEN ResolveMini(m, u, stream)
  ELSE ResolveOrdinary(m, u, stream)

-----------------------------------------------------------------------------
(* Reading: the directory *)

\* The index entries, or the directory entries, of the sectors of a chain.
IndexAlong(m, chain, per_sector) ==
  [k \in 1..(Len(chain) * per_sector) |->
     IndexCell(m.image, chain[(k - 1) \div per_sector + 1], (k - 1) % per_sector)]

BuildMiniFat(m) == IndexAlong(m, FollowChain(m, m.image.first_mini_fat).chain, IndexOf(m.image))

\* Version 3 keeps the low 32 bits of a size.
ReadEntry(image, e) ==
  IF image.version = 4 THEN e ELSE [e EXCEPT !.size = @ % (Uint32Max + 1)]

EntriesAlong(m, chain, per_sector) ==
  [k \in 1..(Len(chain) * per_sector) |->
     ReadEntry(m.image, At(m.image.sectors[chain[(k - 1) \div per_sector + 1] + 1].entries,
                           (k - 1) % per_sector, UnusedEntry))]

ParseDirectory(m) == EntriesAlong(m, FollowChain(m, m.image.first_dir).chain, EntriesOf(m.image))

\* push: every entry is reached once.
Push(directory, id, w) ==
  IF id = NoStream THEN w
  ELSE IF \/ id >= Len(directory)
          \/ id \in w.visited
          \/ directory[id + 1].type = "unknown"
       THEN [w EXCEPT !.ok = FALSE]
  ELSE [w EXCEPT !.visited = @ \cup {id}, !.stack = <<[id |-> id, left |-> FALSE]>> \o @]

IsNode(directory, id) == directory[id + 1].type \in {"storage", "stream"}

\* The top of the stack goes to its left subtree, then takes its place in the
\* sequence, if it becomes a node, and gives way to its right subtree.
Descend(directory, w) ==
  IF ~w.ok \/ w.stack = <<>> THEN w
  ELSE LET id == Head(w.stack).id
       IN  IF ~Head(w.stack).left
           THEN Push(directory, directory[id + 1].left,
                     [w EXCEPT !.stack = <<[id |-> id, left |-> TRUE]>> \o Tail(@)])
           ELSE Push(directory, directory[id + 1].right,
                     [w EXCEPT !.stack = Tail(@),
                               !.order = IF IsNode(directory, id) THEN Append(@, id) ELSE @])

\* The in-order sequence of a search tree, walked with an explicit stack.
InOrder(directory, id, visited) ==
  LET walk[i \in 0..(2 * Len(directory))] ==
        IF i = 0 THEN Push(directory, id, [ok |-> TRUE, visited |-> visited, stack |-> <<>>,
                                           order |-> <<>>])
        ELSE Descend(directory, walk[i - 1])
  IN  walk[2 * Len(directory)]

\* A link of the search tree, if it leads to a node.
Lookup(directory, id) ==
  IF id < Len(directory) /\ id # NoStream /\ IsNode(directory, id) THEN id ELSE NoStream

Node(directory, id, path) ==
  LET d == directory[id + 1]
  IN [id |-> id, name |-> d.name, path |-> path, storage |-> d.type # "stream",
      class |-> d.class, meta |-> d.meta,
      start |-> IF d.type = "stream" THEN d.start ELSE EndOfChain,
      size |-> IF d.type = "stream" THEN d.size ELSE 0,
      child |-> IF d.type = "stream" THEN NoStream ELSE Lookup(directory, d.child),
      left |-> Lookup(directory, d.left), right |-> Lookup(directory, d.right)]

\* The nodes of one storage follow those known before.
AddChildren(directory, w, storage, walk) ==
  [ok |-> walk.ok /\ Len(storage.path) < MaxStorageDepth, visited |-> walk.visited,
   nodes |-> w.nodes \o [i \in 1..Len(walk.order) |->
                           Node(directory, walk.order[i],
                                Append(storage.path, directory[walk.order[i] + 1].name))]]

\* The children of the i-th node, where there is one and it is a storage.
ReadChildren(directory, w, i) ==
  IF ~w.ok \/ i > Len(w.nodes) THEN w
  ELSE IF ~w.nodes[i].storage THEN w
  ELSE AddChildren(directory, w, w.nodes[i],
                   InOrder(directory, directory[w.nodes[i].id + 1].child, w.visited))

\* The tree below the root entry as a list of nodes, each with its path.
ReadStorage(directory) ==
  LET read[i \in 0..Len(directory)] ==
        IF i = 0 THEN [ok |-> TRUE, visited |-> {0}, nodes |-> <<Node(directory, 0, <<>>)>>]
        ELSE ReadChildren(directory, read[i - 1], i)
  IN  read[Len(directory)]

\* Every sector of a chain can be read.
Readable(image, walk) ==
  walk.ok /\ \A i \in DOMAIN walk.chain : WholeSector(image, walk.chain[i])

ChainReads(m, start) == Readable(m.image, FollowChain(m, start))

Malformed == [ok |-> FALSE]

\* The model with the tree; the root's own stream is the mini stream.
WithTree(m, root, tree) ==
  [m EXCEPT !.ok = tree.ok, !.mini_start = root.start, !.mini_size = root.size,
            !.nodes = tree.nodes]

BuildTree(m, directory) ==
  IF directory = <<>> \/ directory[1].type # "root" THEN Malformed
  ELSE WithTree(m, directory[1], ReadStorage(directory))

WithDirectory(m) ==
  IF ~m.ok \/ ~ChainReads(m, m.image.first_dir) THEN Malformed
  ELSE BuildTree(m, ParseDirectory(m))

WithMiniFat(m) ==
  IF ~m.ok \/ m.image.first_mini_fat = EndOfChain \/ m.image.total_mini_fat = 0 THEN m
  ELSE IF ChainReads(m, m.image.first_mini_fat) THEN [m EXCEPT !.mini_fat = BuildMiniFat(m)]
  ELSE Malformed

WithFat(image, fat) ==
  [ok |-> fat.ok, image |-> image, fat |-> fat.list, mini_fat |-> <<>>, mini_start |-> EndOfChain,
   mini_size |-> 0, nodes |-> <<>>]

\* The model of an image, with `ok` FALSE where the reader throws.
Parse(image) ==
  IF image.sound THEN WithDirectory(WithMiniFat(WithFat(image, BuildFat(image)))) ELSE Malformed

\* The position of the first child of the root with this name, by enumeration;
\* 0 when there is none.
FindByEnumeration(nodes, name) ==
  LET at == {i \in DOMAIN nodes : nodes[i].path = <<name>>}
  IN  IF at = {} THEN 0 ELSE Min(at)

\* The child a search by the format's order finds; NoStream when there is none.
FindBySearch(nodes, storage, name) ==
  LET node(id) == CHOOSE n \in ToSet(nodes) : n.id = id
      search[i \in 0..Len(nodes)] ==
        IF i = 0 THEN storage.child
        ELSE LET at == search[i - 1]
             IN  IF at = NoStream \/ SameName(name, node(at).name) THEN at
                 ELSE IF NameLess(name, node(at).name) THEN node(at).left ELSE node(at).right
  IN  search[Len(nodes)]

-----------------------------------------------------------------------------
(* The content of a package *)

\* What an entry of a package is, wherever its bytes are.
Content(n, bytes) ==
  [name |-> n.name, path |-> n.path, storage |-> n.storage, class |-> n.class, meta |-> n.meta,
   bytes |-> bytes]

AddContent(acc, n, u) == [u |-> u, nodes |-> Append(acc.nodes, Content(n, u.bytes))]

\* One more node, with the bytes that were read for it; the signature streams
\* only where they are asked for.
AddNode(m, acc, n, with_signature) ==
  IF ~acc.u.ok \/ (IsSignature(n) /\ ~with_signature) THEN acc
  ELSE AddContent(acc, n, Resolve(m, acc.u, n))

\* The nodes with the bytes of their streams, resolved one after the other.
Fill(m, with_signature) ==
  LET fill[i \in 0..Len(m.nodes)] ==
        IF i = 0 THEN [u |-> Unresolved, nodes |-> <<>>]
        ELSE AddNode(m, fill[i - 1], m.nodes[i], with_signature)
  IN  fill[Len(m.nodes)]

ContentsOf(filled) == [ok |-> filled.u.ok, used |-> filled.u, nodes |-> filled.nodes]

Contents(m, with_signature) == ContentsOf(Fill(m, with_signature))

=============================================================================
