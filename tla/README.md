# A TLA+ verification of libthe-seed

libthe-seed is the C++ support library of the Seed engine.  It finds and opens
plugins (components and systems) by name, reads resource packages ("paks"),
loads scenes from JSON, lists what a program depends on, and signs PE, MSI and
Mach-O files.  This directory holds TLA+ models of the parts of it whose
correctness depends on the order in which things happen, TLC configurations
that check them on small instances, and TLAPS proofs for every instance.

`PROJECT.json` is the index: components, runs, mutants (a deliberately broken
definition for every property, which TLC must catch), the map from definitions
to source lines, findings, hazards and theorems.

    cd tla
    tlc -workers 2 -config PluginCacheSafety.cfg MCPluginCache
    tlapm PluginCache_proofs.tla

## 1. Inventory

| Part | State it keeps | Operations | Hard because |
|---|---|---|---|
| **ComponentLoader, SystemLoader** (both are `internal/PluginCache.hpp`) | search locations with a version, `entries`, `in_flight`, `libraries`; `mutex` (shared) and `open_mutex` | `Create`/`Get` -> `Load`, `Fail`, `Deliver`; `PathAdd` | many threads, one load per name, futures, locations that change under a running load, exceptions between two steps |
| **PluginSearch, NameParser** | none | `SearchListBuild`, `SearchFirst`, `OpenPinned`, `SymbolFind`, name checks | the file system changes between the search and the open |
| **PakLoader** | search locations, `remembered` (one description per pak), `in_flight`; one `mutex` | `Request`, `IndexGet`, `PathAdd` | many threads and a pak that is replaced or rewritten while requests run |
| **PakIndex, PakAccess** | none | `PakIndexRead`, `PakResourceRead` | a description must explain the whole file, sizes near the limits |
| **ResourcePak** | one description shared by all copies, its `mutex` | `IndexFor`, `Load`, `ResourceNames` | copies that opened different versions |
| **RandomAccessFile, PagedFile** | a handle; a page cache | `Open`, `Size`, `Stamp`, `ReadAt` | stamps that do not tell two versions apart |
| **FileIO** | the file system | `WriteFileBytes`, `ReadFileBytes` | kills, loss of power, concurrent calls, each system call failing |
| **JSONLoader** | a libecs-cpp container | `Load` in four phases | all or nothing although the last phase can throw |
| **DependencyLister** | nodes and memo tables of one call | `ListDependencies` | cycles, aliases, one array reused by several searches |
| **ElfParser, PeParser, MachOParser** | none | dependency names of one file | untrusted offsets and lengths |
| **PeSigner** | none (the file) | digest, embed, extract, strip | padding and checksum arithmetic, read-modify-write of a file |
| **MsiSigner, CfbReader, CfbWriter** | sectors, chains, the tree of a storage | digest, embed, strip, check | layout that depends on itself, chains that loop |
| **MachOSigner, MachOLayout** | the prepared layout | prepare, complete, strip | the program may change between prepare and complete |
| **LibraryLoader** | one handle | open, symbol, close | nothing |
| **LoadError** | a reason and texts | copied across threads | copying allocates and can throw |
| **picosha2** | vendored | hash | a black box here |

How the parts meet.  The two loaders are thin users of `PluginCache`, which
calls `PluginSearch` without its lock.  `PakLoader` and `ResourcePak` open a
`RandomAccessFile`, take its stamp and give it to `PakIndexRead`.  All three
signers read a file with `ReadFileBytes`, compute new bytes and hand them to
`WriteFileBytes`; two signers of one file therefore meet only in the file
system.  `DependencyLister` reads a file with `ReadFileBytes` and gives the
bytes to the ELF or PE parser; `MachOParser` reads the file itself.

What makes each part correct, in one line each:

- PluginCache: one load per name at a time, one open per file ever; nobody
  waits for a promise nobody will set; what is remembered stays and is what
  everybody gets; a failure is never based on locations older than the request.
- PakLoader: a request uses a description of the very version it has open; no
  lost wake-up although records are overwritten; an unchanged pak is checked
  once.
- FileIO: the path always leads to one complete content; a call replaces it in
  one step or not at all and says which; nothing of anybody else's is touched.
- ResourcePak: as PakLoader, without sharing of validations.
- JSONLoader: the container is as before, or holds the whole scene.
- DependencyLister: a file is reported if and only if it is reachable, for the
  inputs it is reachable from.
- Signers: strip undoes embed; the digest does not depend on the signature;
  the emitted layout is consistent with its own size.

The hazards these properties are for are listed at their lines in
`PROJECT.json`; those without a property are the work of the plan below.

## 2. The modules

### PluginCache (`PluginCache`, `MCPluginCache`, `PluginCache_proofs`)

State: the five members of the class (`paths` as a number, because `PathAdd`
only appends and a snapshot is a prefix), the two counters of the settings, and
per thread a program counter and Get's locals.  A critical section of `mutex`
contains nothing that blocks and is one action.  `open_mutex` is held across
`OpenPinned`, so it is a variable.  A future is the thread that holds its
promise; a promise destroyed unset marks the record `broken`, and a wait for a
broken promise is over at once.

| Code (`PluginCache.hpp`) | Actions |
|---|---|
| `PathAdd` | `PathAdd` |
| `Get`, shared-lock lookup | `FoundOnFirstLook`, `MissedOnFirstLook` |
| `Get`, unique-lock lookup and decision | `FoundOnSecondLook`, `Join`, `Drain`, `Own`; `SnapshotThrows` when `SearchListBuild` throws with the record already stored |
| waiting | `JoinDelivers`, `DrainLoops`, `GetThrows` |
| `Load` | `SearchFinds`, `SearchMisses`, `OpenKnown`, `OpenBegin`, `OpenSucceeds`, `OpenFails`, `RecordThrows` (the file is open and `libraries.emplace` throws), the `Symbol...` actions and the load's other allocation failures |
| publishing and `Fail` | the actions after "publish" and "fail"; the set of the promise; the three copies of a LoadError that can throw: for `Fail` (`FailThrows`), into the promise after the record was erased (`OutcomeThrows`), for the owner's own caller (`RethrowThrows`); `PromiseDestroyed` when the owner leaves with its promise unset |

Three variables are history: `owed`, the locations configured when the request
began, and per file `opened`, the successful calls of `OpenPinned`, and `lost`,
those whose handle could not be recorded.  NotFound, NotLoadable and
EntryPointMissing are one reason, because the cache treats every LoadError
alike.  What a search finds, whether an open succeeds and whether a library has
the entry point are free choices, made once per open library.  `MemoryFaults`
switches `std::bad_alloc` on wherever the code allocates.

Left out: names that NameParser rejects (they never reach the cache) and the
call of the creator after Get returned; a plugin initialiser that calls the
same loader; a link that is retargeted between the search and the open.

### FileReplace (`AtomicReplace`, `FileReplace`, `MCFileReplace`, `FileReplace_proofs`)

`FileReplace` is the POSIX branch of `WriteFileBytes`, one action per system
call, and `ReadFileBytes` as open, size and read.  Every call can fail, a
writer can be killed between two calls, and `PowerLoss` keeps of each file what
was flushed and lets the path go back to any move whose folder entry was not.
`AtomicReplace` is the promise of `FileIO.hpp` with one step per replacement;
`FileReplace` implements it under `content <- target`, `status <- Status(p)`.

Left out: the Windows branch; a retry after EINTR (it changes nothing); a
chmod of the original by somebody else between stat and fchmod; a working name
that reappears after a loss of power because its removal was not flushed.

### PakLoader (`PakLoader`, `MCPakLoader`, `PakLoader_proofs`)

`Request` and `IndexGet` for paks found by the search, with other programs that
move a new file over the path (`Replace`: open handles keep the old one) or
rewrite it in place (`Rewrite`: open handles see the new bytes).  A stamp is
the pair of file and version.  `PakIndexRead` is its own stamp and then its
reading of the description, in which the verdict is free.  `checks` is a
history variable that counts the descriptions stored.

Left out: `PathAdd`, the search and the choice of resources; two versions with
equal stamps (same size and time), which the code cannot tell apart.
`PakIndexRead` reads the description in one step: a mix of two versions needs
a rewrite in place meanwhile, and then `SeesOpenedFile` asks nothing of it.

### DependencyLister (`DependencyLister`, `MCDependencyLister`, `DependencyLister_proofs`)

The one call `ListDependencies`, which has one thread and four loops:

| Code | Model |
| --- | --- |
| `FileNode` for each input | `InputNode` |
| the walk by index and `Expand`, which appends to what is walked | `WalkSkip`, `ExpandBegin`, one of `ResolveCached`, `ResolveFound`, `ResolveMissing` per name, `ExpandEnd` |
| the credit search of each input over one `seen` array | `VisitNew`, `VisitSeen`, `NextHead`, `NextInput` |
| the report per key | `ReportNode`, `ReportSkip`, `ReportEnd` |

Nodes are numbered from 1, so 0 is "absent" in the maps.  An input is its
position in the order of spellings.  A file is the key of its node.  What a
file records and where a name leads are chosen when the code looks, so two
lookups need not agree; the code's caches are what makes the graph one graph.
`refs` stays in the node after the expansion, for the properties to read.
`Needs` is the reference: a node is needed by an input if every set of nodes
that holds the input's successors and is closed under successors holds it.

Left out: the order of search folders and the case rule inside one lookup; an
input that cannot be resolved when inputs are normalised and can be a moment
later; the texts of reasons.

### PeSigner (`PeSigner`, `MCPeSigner`, `PeSigner_proofs`)

The file is a sequence of bytes, numbers in it are little-endian pairs and
quadruples of them (`Le2`, `Le4`, `Num2`, `Num4`), and the checksum's loop is
the recursive function `Sums`.  The CheckSum field, the certificate directory
entry and the section table are at their places in it; what else the headers say
and nobody writes (that it is a PE file, SizeOfHeaders, where the section table
starts and how many entries it has) is a record.  `StripFloor` reads the section
headers from the bytes at hand, up to the first that does not fit, as the code
does: a table behind the program, where no linker puts it, is read from the
certificate once there is one (`Misplaced` in the instance).
`ComputeAuthenticodeDigest`, `Embed`, `Strip`, `ExtractSignature` and
`RecalcChecksum` are the functions of that name on bytes; the digest is the
sequence of bytes hashed.  The actions are `Digest`, then `EmbedRead` and
`EmbedWrite`, or `StripRead` and `StripWrite`, per signer, so that two calls
can read before either writes; `Fail` is a refusal or a failing
`WriteFileBytes`.  `last` is history.

A section header has `EntrySize` bytes with its two fields at `RawSizeAt` and
`RawPointerAt`: 40, 16 and 20 in the code, 8, 0 and 4 in the instance, which
keeps the files short.

### MachOSigner (`MachOLayout`, `MachOSigner`, `MCMachOSigner`, `MachOSigner_proofs`)

`MachOLayout` is the reader of `MachOLayout.cpp` over records: a program has a
header with its counts, load commands, code of some length, a size and the
signature at its command's offset; a file is one program or a table of them.
`MachOSigner` has `PlanSlice`, `AssembleUniversal`, `StripSlice`,
`BuildSuperBlob` and `FindSuperBlobSlot` with the code's arithmetic on offsets
and sizes, and the actions `Prepare`, `CompleteRead`, `CompleteWrite`,
`StripRead`, `StripWrite`, `Fail` per signer.  `Edit` is another tool that
changes the code of a program.  A CodeDirectory is the record of all it covers,
so two are equal if and only if their bytes would be.

The properties ask for a program as linkers lay it out (`IsRegular`): sections
and segments other than `__TEXT` begin behind the load commands, an empty
`__LINKEDIT` too, and neither another segment nor the program's own bytes reach
into the data of an old signature.  The code takes this for granted; which
conditions are needed came out of the proofs (see "Other observations").

Left out: section counts and library names; hashes as numbers; bytes between
slices other than whether they are all zero; the bytes between the load commands
and the first content, which are taken for padding.

### MsiSigner (`CfbLayout`, `CfbReader`, `CfbWriter`, `MsiSigner`, `MCMsiSigner`, `MsiSigner_proofs`)

One chain of modules, as the code has it.  `CfbLayout` holds the sizes:
`FatSectors` is the loop for the allocation index that must list itself and the
extended index.  `CfbReader` turns an image into a model (`BuildFat`,
`BuildMiniFat`, `ParseDirectory`, `ReadStorage`) and resolves streams with the
owners of sectors carried along (`Resolve`).  The tree of a package is a list of
nodes, each with the path of names that leads to it: what the code does by
recursion over storages is done node after node here, and `PathLess` is the
order in which `Expand` numbers entries (those of one storage at consecutive
positions, in the order of `CompareNames`, then those of its storages).  In the
same way `HashedBefore` is the order in which `HashStorage` feeds the hash, and
`Subtree` the part of a storage that `BuildTree` gives one entry.
`CfbWriter` is the rebuild:
`Run` and `Expand` order and place the entries, `ComputeLayout` the regions,
`Serialise` writes them, and `WriteCfb` reads all of it back and compares, as
the code does.  `MsiSigner` adds the fingerprint and the operations; `Embed` and
`Strip` end before `WriteFileBytes`, `Replace` or `Fail` is its outcome, and
`OtherTool` puts another package there at any time.

A sector is a record of what its bytes read as, so that a damaged index can
lead a data chain into a directory sector.  Sectors have 4 or 8 cells instead
of 512 or 4096 bytes, with one FAT sector listed by the header instead of 109.
`sound` stands for the checks of `ParseHeader`; a PKCS#7 blob is its algorithm,
its digest and its length.  The loop for the size of the allocation index has
`FatTurns` turns, 64 in the code and 8 in the instance; each turn adds about an
index-sector's share of what the turn before added, so that both are far more
than it needs to come to its fixed point.

## 3. The runs

| Run | What it asks | Bounds |
|---|---|---|
| `plugin_cache` | safety of the cache with failing allocations | 3 threads, 2 names, 1 file, and 1 `PathAdd` or 1 open without a record (the constraint `OneOfBoth`): an owner, a sharer and a late request can meet, a load can be drained, two names can end at one file, and it can be opened again |
| `plugin_cache_liveness` | without failing allocations every request returns and no file is opened twice | 2 threads, 2 names on 1 file, 1 `PathAdd` |
| `plugin_cache_orphan` (violated) | "A failure ... is not remembered, so the next request tries again" | failing allocations |
| `plugin_cache_reopen` (violated) | "A plugin file is opened once per cache however many names resolve to it" | 2 threads, 1 name, failing allocations |
| `file_replace` | the promise of `FileIO.hpp`, part by part and as a refinement | 2 writers, 1 reader, 3 working names of which 1 is taken, 2-byte contents so that a write can be short, 3 working files so that a call can follow a killed one |
| `pak_loader` | safety of the shared validation | 3 threads (owner, waiter, one that overwrites the record), 1 change of the file |
| `dependency_lister` | the graph, the credits, the report and the end of the call | 2 files that may need each other and themselves, 2 names that lead anywhere, 1 name that is a path and is never looked up, 2 names per file |
| `pe_signer` | digest, content and checksum under two crossing signers | signatures of 3 and 8 bytes; programs of every length modulo 8, with zeros at the end, sections past the end, section tables behind the program or over the directory entry, an old signature (one at an unaligned address), tables out of range, and one that is no PE file; a `Uint32Max` of 36, so that a certificate table can lie past it; words whose sum carries |
| `pe_signer_restored` (violated) | "a program whose last byte is not zero is restored to its original length and content" | the unsigned programs of `pe_signer` |
| `pe_signer_zeros` (violated) | "one that ends in zeros may lose up to seven of them when its length was a multiple of eight" | the same |
| `macho_signer` | what is written verifies, can be signed again and keeps the program | 2 signers, 1 edit; thin and universal files (32 and 64 bit tables, slices out of order, bytes after the last, one slice that cannot be signed beside one that is), programs without room, without `__LINKEDIT` at the end, with a foreign, an early and an empty signature command, with a signature behind a short `__LINKEDIT` |
| `msi_signer` | content, canonical layout, self-check and chain walks | 1 signer, 1 edit; 11 packages of both versions, one of them with a signature entry that clashes with another entry, and three values for every entry of the FAT, the extended index and the mini FAT of two more, one with two ordinary streams and one with an ordinary stream and two in the mini stream, and for every field of the directory of the latter: loops, streams that share a sector or a mini sector with the right length, an ordinary stream inside the mini stream, sizes that do not fit the chain; a signature in the mini stream, one in sectors, one too long, an empty one; packages that need the extended index and one at the sector limit |

Bounds named in the guards: `FatTurns` (turns of the loop in `ComputeLayout`), `MaxEdits` (writes of another tool), `MaxPaths` (calls of PathAdd), `MaxLost` (opens of one file that are not recorded), `MaxFiles` (working
files), `MaxVersion` (changes of a pak), `Many` (the history count of
PakLoader), `MaxRefs` (names one file records).  `MaxAttempts` is the code's own `kMaxNameAttempts`.  `MaxPaths` is
also what makes `RequestsReturn` true: with a new location before every look a
request could drain one older load after another for ever.

Symmetry is used for threads and names in safety runs only.

Fairness.  `PluginCache!FairSpec` has weak fairness for every thread's next
step (threads are scheduled, a search and an open of a plugin end) and strong
fairness for taking `open_mutex`: std::mutex promises no order, so with weak
fairness alone a thread could lose the race for ever, and the implementations
the library runs on do not let that happen.
`DependencyLister!FairSpec` is weak fairness of the one thread, and its run
checks no deadlock because the call returns.  `PakLoader`, `FileReplace` and the
signers need none: their properties are safety, and a signer may stop.  In
`msi_signer` deadlock is not checked, because on a file that is no package every
call is refused.

### What the violated runs show

1. When `SearchListBuild` throws with the record already in `in_flight`, or the
   copy of a LoadError throws in its handler, the record is never erased.
2. When `libraries.emplace` throws after `OpenPinned` succeeded, the file is
   open without a record and the next request opens it again.  Every open
   beyond the first is of this kind: `OpensAccounted` holds and is proved.
3. Stripping a PE program whose last section reaches past the end of the file
   leaves padding that embedding added, because the floor is the section's end;
   the header promises the original length for every program whose last byte is
   not zero.
4. Stripping takes up to seven zeros whether embedding added them or not, so a
   PE program that ends in zeros loses some at most lengths, not only when its
   length was a multiple of eight.

### Other observations

- A request made after `PathAdd` that meets an older load waits for it, looks
  again (`PluginCache.hpp:95-100`) and returns what the older search
  remembered; `ComponentLoader.hpp:31-32` says that "a request made after
  PathAdd returned uses the new location".  That holds for failures
  (`FailureSawLocations`) and not for successes.
- A request that still has a replaced pak open overwrites what the newer version
  stored (`PakLoader.cpp:93`), which is then checked again;
  `PakLoader.hpp:43-45` says that a description is "read and checked once per
  version of the file".  `UnchangedCheckedOnce` says what holds, and
  `SeesOpenedFile` that no request is misled.
- When storing the description or the text of an error throws in PakLoader
  (`PakLoader.cpp:80-93`), the record stays in `in_flight` and every later
  request for the unchanged pak throws; `PakLoader.hpp:47-48` says that "a pak
  that fails is not remembered".  Such a record is broken, so nobody waits for
  it for ever (`OrphanIsBroken`).
- `open_mutex` is held while a plugin's initialisers run (`OpenBegin` to
  `OpenSucceeds`), so one slow plugin delays every other load of a new file;
  `ComponentLoader.hpp:29-30` says no loader lock is held then.
- `~WorkingFile` ignores the result of `unlink`; with `UnlinkFails` a failed
  call leaves its working file, which `FileIO.hpp:30-31` excludes.
- How much of a PE program embedding and stripping can cost is what
  `ProgramKept` says; runs 3 and 4 above show where the documentation promises
  more.
- Signing an unsigned Mach-O program writes its command over the 16 bytes after
  the last one (`MachOSigner.cpp:294-303`) once `FreeHeaderSpace` says that no
  section or segment begins there; the bytes themselves are not looked at, and
  stripping leaves zeros.  Linkers leave padding there; the model takes it for
  that, and `ProgramKept` says nothing of it.
- A PE file signed by another producer with its table at an unaligned address
  gets another digest when it is signed again, because the padding before the
  new table is hashed.  The properties about digests ask for an aligned one.
- Two signers of one file: the later move wins and the earlier signature is
  gone without an error, in all three signers; what is left is consistent.
- A prepared Mach-O signature survives other signings and strippings, unless
  the original had a signature command of another size or at another place.
- A Mach-O program with another segment that reaches into its old signature
  passes `RequireSignatureAtEnd`, but the old data is cut off and the segment's
  range is left alone: when the file shrinks below it the library's own reader
  refuses what was written.  Linkers write no such program, and `Regular`
  excludes it.
- `StripSignature` on a universal file leaves an unsigned slice alone, so a
  slice that could not be signed before cannot be afterwards;
  `WrittenIsSignable` asks it only of slices that were rewritten.
- A package whose signature entry has, up to case, the name of another entry of
  the root has no fingerprint, because `RejectDuplicateNames` looks at the
  signature entries too; `StripSignature` accepts it and leaves a package that
  has one.  The proof of `ContentKept` found this: it asks for the same
  fingerprint only where there was one, and for a fingerprint after every write.
- A version 3 package keeps 32 bits of a size.  The mini stream can exceed
  them only in packages far larger than the instances; the writer's own check
  would then stop it.

## 4. The proofs

`PluginCache_proofs` proves the type invariant, all safety properties of
`plugin_cache` and, under `~MemoryFaults`, `OpenedOnce` and
`InFlightIsRunning`, (every record has a running load behind it), for any sets of threads, names and
files and any number of `PathAdd` calls.  The assumptions are the ASSUMEs of `PluginCache` only.  The inductive invariant `Inv` is

- `TypeOK` and `LocalsInv`: which locals are meaningful at which program
  counter (a file between search and symbol, an entry before publishing, an
  error with a search behind it before failing);
- `OwnerInv`: a thread that loads is the one its name's record points to, so
  there is at most one; a record that is not broken belongs to a thread that
  loads or is about to destroy its promise; a name with a record is not
  remembered, but for a load that failed after it had published;
- `WaitInv`: a waiter's promise is held by a thread on its way to set it, for
  the same name;
- `OpenInv`: the thread inside `OpenPinned` holds `open_mutex`, and the
  identity it opens has no handle yet, which is what keeps `OpensAccounted`, the
  next part, true;
- `RememberInv`: an entry in anybody's hands, except the one about to be
  published, is the remembered one;
- `SearchInv`: the version counts the locations, and the snapshot behind a
  load, its error included, covers what every request that shares it is owed.

None of the safety properties is inductive alone: `FailureSawLocations`, for
one, needs that the version kept in a record moves with the number of
locations, that a joiner saw the same version, and that nothing but the owner's
own search can produce the error.

`FileReplace_proofs` proves the type invariant and all properties of
`file_replace`, among them the refinement `Spec => Promise!Spec`, for any
writers, readers, names and sizes; `NoLeftovers` under `~UnlinkFails`.
Its `Inv` adds to `TypeOK`: `NamesInv` (working names hold distinct, existing
files that neither the path nor a survivor leads to), `WorkInv` (which writer
has which name at which program counter, no name with two writers), `DataInv`
(how much of a working file is written, flushed and what its mode is, by
program counter) and `PathInv` (every survivor is complete, flushed and has the
original's mode, and the path leads to a survivor, which is what makes a loss
of power harmless).

`DependencyLister_proofs` proves the type invariant, `OneNodePerFile`,
`GraphComplete` and `CreditsExact` for any files, names and inputs.  `Inv` adds
to `TypeOK`: `GraphInv` (the maps and the nodes name each other; successors
exist and agree with the caches; nodes before the walk's place are expanded),
`MarksInv` (no mark is ahead of the search at hand), `QueueInv` (the queue holds
exactly the nodes with this search's mark, every closed set contains it, and
the successors visited so far are in it) and `CreditsInv` (the search's credits
are the queue up to `head`).  A credited node is needed because every closed
set contains the queue; a needed node is credited because the finished queue is
itself closed.

`ReportInv` carries the same to the report: what has been reported is what was
credited (`CreditedInv`), the errors are the nodes that failed (`ErrorsInv`),
and each list holds, strictly sorted, the credits of exactly the nodes visited
under its key (`ListsInv`).  With `CreditsExact` that is `ReportExact`.

`PakLoader_proofs` proves the type invariant and the four safety properties of
`pak_loader` for any threads, paks and number of versions, with and without
rewriting in place and failing allocations.  Its `Inv` adds to `TypeOK`:
`FilesInv` (version numbers are never reused), `LocalsInv` (what a request
knows is of the file it has open and no older than its stamp, whether it read
the description, found it remembered or was given it by another thread),
`WaitInv` (a future's promise is held by a thread on its way to set it, for the
same pak and stamp), `OwnerInv` (a record that is not broken names a thread that
validates that version) and `OnceInv` (while nobody touches a pak every request
has its first stamp, so there is one record and what was stored is found).
`SeesOpenedFile` is not inductive: a waiter gets its description from a thread
that opened the pak at another time, and only the equality of stamps, kept by
`WaitInv`, ties the two files together.  `UnchangedCheckedOnce` needs `OnceInv`
because a version may be checked again as soon as a second one exists.

`PeSigner_proofs` proves the three properties of `pe_signer` for any signers,
signatures, programs, section tables and places of the header fields.  It
assumes what the ASSUMEs of `PeSigner` say: programs and signatures are bytes,
the two fields of a section header are inside it, the checksum field is in front
of the certificate directory entry, and `Uint32Max` has at most 32 bits.  Its `Inv` says that the
file, and every copy a signer holds between its read and its write, is a
version of the program (`VersionOf`): bytes and headers agree outside the two
fields, and the part before the signature is the program up to its padding.
Embedding and stripping turn a version into a version, so it does not matter
which one was read, nor that a write of another signer came between
(`SnapInv`); all versions have one digest (`DigestInv`), and the signature in a
file is the one of the last write (`LastInv`).  Where the section table is in
the headers (`TableInHeaders`) all versions have one floor too (`SameFloor`),
because versions agree there; elsewhere a stale copy may be stripped to another
floor than the program's, and `ProgramKept` then bounds the loss by seven bytes
only.  `ChecksumCurrent` is an
argument about end-around carries: `Fold16` of a running sum stands for the
plain total modulo 65535, and is zero only when that is (`StandsFor`), which
makes the code's folding after every word equal to one folding at the end.

`MachOSigner_proofs` proves the four properties of `macho_signer` for any
signers, requests, files of any number of slices, page size and limit.  It
assumes what the ASSUMEs of `MachOSigner` say: the limits are numbers
(`BoundsAssumption`), so are the sizes in a request (`RequestAssumption`), and
the files are built from slices and load commands (`ProgramsAssumption`; they
need not parse).  Its `IInv` has three parts.

- The file, and every copy a call holds between its read and its write, is a
  `FileVersion` of the original: the same table but for offsets and sizes, and
  every slice a `Version`.  A version parses, has the original's cpu, length
  and commands but for the signature's, and is either as it was but for its
  code (`Alike`) or as the library leaves it (`Touched`): it ends with
  `__LINKEDIT`, has a signature command or room for one, and keeps the
  original's bytes up to less than 16 of padding.  Signing (`SignedVersion`),
  stripping (`StrippedVersion`) and a change of the code turn versions into
  versions, so it does not matter how stale the copy is that a call works on.
- What was written last: after signing every slice verifies, after stripping
  none is signed.
- A signer that prepared did so on a version that could be signed, and since
  then every slice could be signed originally or was touched (`Ready`).

The properties are not inductive alone: that a file can be signed again says
nothing about the copy another signer read before.  For a slice the work is in
`ReservedGood` and `CutGood`, where the reader's checks are shown for the new
commands, the cursor of its walk included; for a universal file in
`UniversalRebuilt`, where aligned offsets in the old order keep the slices
apart and behind the table.  `PreparedStaysValid` rests on `SamePlan`: two
versions with the same code have the same plan, because signing after a strip
puts back the same commands and `Align16` of what is kept is the same.

`MsiSigner_proofs` proves `ContentKept`, `Canonical`, `SignatureTold` and
`WalksEnd` for any signers, packages (damaged in any way), signatures, sector
sizes and limits.  It assumes what the ASSUMEs of the four modules say: the
numbers of the header and of the writer's loop are numbers (`LayoutAssumption`),
mini sectors divide sectors and an index sector has room for an entry and a link
(`GeometryAssumption`), limits are numbers (`LimitsAssumption`), and packages
are images, that is, sectors of index and directory entries of any content
(`PackagesAssumption`).

The inductive invariant `AllSound` says of the file, and of every image a signer
holds between reading and writing, that it is `Made` from the package another
tool wrote: it is that package, or what one `WriteCfb` of some signature into it
gives; and where a match was asked for, that its signature matches.  The
properties are not inductive alone, because a signer writes an image that was
made from an older file, and because none of them says how the file came about.
That every step keeps `AllSound` is `WriteAgain`: writing into a file that was
written gives what writing into the original would have given.  It rests on

- `WalkApart` and `ContentsIs`: a walk gives the same chain whatever was walked
  before, unless it meets a used sector, so that the streams of a package can be
  read together or not independently of their order, and have the bytes they
  have when read alone (in the code the owners of sectors are shared state of
  all reads of one model, which is why this is not obvious); `WalksEnd` follows
  from it together with `WalkEnds`, that a walk which marks what it visits ends,
  and `OrdinaryLength` and `MiniLength`, what reading a stream checks of its
  chain;
- `ExpandIs`: the writer's entries depend on the set of nodes and on the
  signature, not on the order in which the reader found them;
- `SerialiseType`: what is written is an image again, for every layout;
- `Written` and `Reread`: the self-check of `WriteCfb` accepts only an image
  whose entries are exactly those written.  Because the code checks itself, these
  theorems need no proof that the layout is right: a wrong layout would be
  refused, not written.

`Canonical` then reads the signature back from the file (`Extracted`), and
`SignatureTold` needs that the fingerprint, computed with the signature skipped,
leaves the signature's sectors free (`ReadTogether`).

`NaturalSets` is what these proofs need about numbers.  The library's induction
theorems have an operator as a parameter, which the provers cannot instantiate,
so induction is stated over sets instead: `Least`, `SetInduction`,
`IntervalInduction`; `Iteration` says that a recursive function over an
interval exists, `Ascending` that a finite set of numbers can be sorted, and
`SortingIsOnto` that an order of table positions leaves none out.

Only model-checked: `RebuildSound` of the MSI signer, that the self-check never
refuses what the writer wrote, which is the correctness of the whole layout and
depends on the geometry (the code's fixed number of turns need not reach a
fixed point for every geometry the ASSUMEs allow);
`Terminates` and `RequestsReturn`, because liveness under
fairness and ENABLED are outside this prover; the violated runs, which are
counterexamples.

## 5. Not modelled, and the plan

In this order:

1. A proof of `RebuildSound` for geometries in which `FatTurns` reaches the
   fixed point of `NextFat`: the index has a place for every sector and the
   extended index for every index sector, each region reads back as it was
   written, and the search trees of a storage find every entry.
2. PakLoader: `PathAdd` and the search.  ResourcePak: copies sharing one
   description, validated under the mutex.
3. JSONLoader: four phases against an abstract all-or-nothing `Load`, the
   container as an external part.
4. DependencyLister: the folder search and the case rule as operators.
5. PluginSearch, NameParser, PakIndex: order of locations, states of a
   location, the layout rules, as operators against reference definitions.
6. The Windows branch of FileIO: move retries, attributes and its write loop.

Not planned: LibraryLoader (one handle, sequential), picosha2 (vendored), the
ELF and PE dependency readers (data, no control), the bit layout of headers and
of PKCS#7 structures, texts of messages.
