----------------------------- MODULE MsiSigner -----------------------------
(***************************************************************************)
(* MsiSigner (src/MsiSigner.cpp) with MsiAuthenticode: the fingerprint of  *)
(* an installer package, and the embedding, checking and stripping of its  *)
(* signature by signers, while another tool may replace or damage the      *)
(* package between any two steps.                                          *)
(*                                                                         *)
(* A signature is bytes of which the first stands for the whole structure: *)
(* the digest algorithm and the fingerprint it holds.  The fingerprint is  *)
(* the sequence of bytes hashed.  WriteFileBytes is one step that may fail *)
(* (FileReplace shows that it is).                                         *)
(***************************************************************************)
EXTENDS CfbWriter

CONSTANTS
  Signers,   \* callers of MsiSigner
  Blobs,     \* what a signer may make of a digest: algorithm and size
  Packages,  \* images the path may hold at first
  Others,    \* images another tool may put there
  MaxEdits   \* how often it does

ASSUME PackagesAssumption ==
  /\ \A image \in Packages \cup Others : IsImage(image)
  /\ \A kind \in Blobs : kind.size \in Nat

VARIABLES
  file,    \* the image at the path
  pc,      \* per signer: "idle", "signed" or "write"
  digest,  \* per signer: the digest its signature is made for
  next,    \* per signer: what it is about to write, and from which image
  base,    \* history: the image of another tool that `file` was made from
  asked,   \* history: the last embedding had to match
  edits    \* how often another tool wrote

vars == <<file, pc, digest, next, base, asked, edits>>

Nothing == [image |-> <<>>, base |-> <<>>, asked |-> FALSE]

-----------------------------------------------------------------------------
(* The fingerprint *)

\* The order of the fingerprint: the raw bytes, the low byte of a unit first.
RawNameLess(a, b) ==
  LET differ == {i \in DOMAIN a \cap DOMAIN b : a[i] # b[i]}
      i == Min(differ)
  IN  IF differ = {} THEN Len(a) < Len(b)
      ELSE \/ a[i] % 256 < b[i] % 256
           \/ a[i] % 256 = b[i] % 256 /\ a[i] \div 256 < b[i] \div 256

\* The order in which a package is hashed: a storage after what is in it, else
\* by the raw names.
HashedBefore(p, q) ==
  \E k \in 1..Len(p) :
    /\ k <= Len(q) + 1
    /\ \A i \in 1..(k - 1) : p[i] = q[i]
    /\ k > Len(q) \/ RawNameLess(p[k], q[k])

\* A stream is hashed with its bytes, a storage with its class identifier.
Hashed(n) == IF n.storage THEN <<<<n.class>>>> ELSE n.bytes

HashInOrder(nodes) == FlattenSeq([i \in DOMAIN nodes |-> Hashed(nodes[i])])

\* Mutant: the children are hashed in the order of the package.
MutHashStorage(nodes) == HashInOrder(nodes)

HashStorage(nodes) == HashInOrder(Ranked(ToSet(nodes), HashedBefore))

\* Nodes of one name in one storage are refused where a storage is hashed: the
\* signature streams of the root are looked at, what is below them is not.
RejectDuplicateNames(m) ==
  UniqueNames(m.nodes, {i \in DOMAIN m.nodes : IsSignature(m.nodes[i]) => Len(m.nodes[i].path) = 1})

FingerprintOf(m, contents) ==
  IF contents.ok /\ RejectDuplicateNames(m)
  THEN [ok |-> TRUE, digest |-> HashStorage(contents.nodes)]
  ELSE [ok |-> FALSE, digest |-> <<>>]

ComputeFingerprint(m) == FingerprintOf(m, Contents(m, FALSE))

-----------------------------------------------------------------------------
(* Signatures *)

Blob(kind, d) ==
  [i \in 1..kind.size |-> IF i > 1 THEN <<7>>
                          ELSE IF kind.algorithm = "none" THEN <<8>> ELSE <<kind.algorithm, d>>]

ReadAuthenticodeDigestField(blob) ==
  IF Len(blob[1]) = 2
  THEN [readable |-> TRUE, sha256 |-> blob[1][1] = "sha256", digest |-> blob[1][2]]
  ELSE [readable |-> FALSE, sha256 |-> FALSE, digest |-> <<>>]

CheckMsiSignatureSize(size, version) == version < 4 => size <= Uint32Max

IsMsi(image) == image.magic

\* The signature stream of the root; a size of zero is no signature.
SignatureEntry(m) ==
  LET at == FindByEnumeration(m.nodes, SignatureName)
  IN  IF at = 0 THEN {} ELSE {n \in {m.nodes[at]} : n.size # 0}

\* {} where there is no signature and where the code throws.
ExtractSignature(image) ==
  UNION {{r.bytes : r \in {q \in {Resolve(m, Unresolved, n) : n \in SignatureEntry(m)} : q.ok}} :
           m \in {p \in {Parse(image)} : p.ok}}

HasEmbeddedSignature(image) ==
  \E m \in {Parse(image)} :
    m.ok /\ \E n \in SignatureEntry(m) : Resolve(m, Unresolved, n).ok

\* The answer for a signature whose bytes were read.
Compared(field, digest_now) ==
  IF ~field.readable \/ ~field.sha256 THEN "Unreadable"
  ELSE IF field.digest = digest_now THEN "Matches" ELSE "Mismatch"

CompareSignature(resolved, digest_now) ==
  IF resolved.ok THEN Compared(ReadAuthenticodeDigestField(resolved.bytes), digest_now)
  ELSE "Unreadable"

\* The stream is resolved in the model the fingerprint was computed from.
CheckModel(m, contents, computed, entry) ==
  IF ~computed.ok THEN "throws"
  ELSE IF entry = {} THEN "None"
  ELSE CompareSignature(Resolve(m, contents.used, CHOOSE n \in entry : TRUE), computed.digest)

CheckContents(m, contents) == CheckModel(m, contents, FingerprintOf(m, contents), SignatureEntry(m))

CheckParsed(m) == IF m.ok THEN CheckContents(m, Contents(m, FALSE)) ELSE "throws"

CheckSignature(image) == CheckParsed(Parse(image))

-----------------------------------------------------------------------------
(* Rebuilding *)

\* Mutant: the fingerprint is compared with that of nothing.
MutMatchesWritten(blob, rebuilt) == ComputeFingerprint(Parse(rebuilt)).ok

\* The fingerprint of what is written is the one the signature holds.
MatchesWritten(blob, rebuilt) ==
  ComputeFingerprint(Parse(rebuilt))
    = [ok |-> TRUE, digest |-> ReadAuthenticodeDigestField(blob).digest]

HoldsSha256(field) == field.readable /\ field.sha256

EmbedAccepts(m, blob, require_matching_digest) ==
  /\ m.ok
  /\ CheckMsiSignatureSize(Len(blob), m.image.version)
  /\ require_matching_digest => HoldsSha256(ReadAuthenticodeDigestField(blob))

CheckWritten(rebuilt, blob, require_matching_digest) ==
  IF rebuilt.ok /\ require_matching_digest /\ ~MatchesWritten(blob, rebuilt.image)
  THEN Refused ELSE rebuilt

EmbedInto(m, blob, require_matching_digest) ==
  IF EmbedAccepts(m, blob, require_matching_digest)
  THEN CheckWritten(WriteCfb(m, blob), blob, require_matching_digest)
  ELSE Refused

EmbedSignature(image, blob, require_matching_digest) ==
  IF blob = <<>> THEN Refused ELSE EmbedInto(Parse(image), blob, require_matching_digest)

IsSigned(m) ==
  \/ FindByEnumeration(m.nodes, SignatureName) # 0
  \/ FindByEnumeration(m.nodes, SignatureExName) # 0

StripFrom(m) == IF m.ok /\ IsSigned(m) THEN WriteCfb(m, <<>>) ELSE Refused

StripSignature(image) == StripFrom(Parse(image))

-----------------------------------------------------------------------------
(* The signers *)

Init ==
  /\ file \in Packages
  /\ pc = [s \in Signers |-> "idle"]
  /\ digest = [s \in Signers |-> <<>>]
  /\ next = [s \in Signers |-> Nothing]
  /\ base = file
  /\ asked = FALSE
  /\ edits = 0

\* A signer takes the digest of the file and makes its signature from it.
ComputeAuthenticodeDigest(s) ==
  /\ pc[s] = "idle"
  /\ IsMsi(file)
  /\ \E m \in {Parse(file)} : m.ok /\ \E computed \in {ComputeFingerprint(m)} :
       computed.ok /\ digest' = [digest EXCEPT ![s] = computed.digest]
  /\ pc' = [pc EXCEPT ![s] = "signed"]
  /\ UNCHANGED <<file, next, base, asked, edits>>

\* EmbedSignature up to WriteFileBytes; a rejected call changes nothing.
Embed(s, kind, require_matching_digest) ==
  /\ pc[s] = "signed"
  /\ \E rebuilt \in {EmbedSignature(file, Blob(kind, digest[s]), require_matching_digest)} :
       IF rebuilt.ok
       THEN /\ pc' = [pc EXCEPT ![s] = "write"]
            /\ next' = [next EXCEPT ![s] = [image |-> rebuilt.image, base |-> base,
                                            asked |-> require_matching_digest]]
       ELSE pc' = [pc EXCEPT ![s] = "idle"] /\ UNCHANGED next
  /\ digest' = [digest EXCEPT ![s] = <<>>]
  /\ UNCHANGED <<file, base, asked, edits>>

\* StripSignature up to WriteFileBytes.
Strip(s) ==
  /\ pc[s] = "idle"
  /\ \E rebuilt \in {StripSignature(file)} :
         /\ rebuilt.ok
         /\ next' = [next EXCEPT ![s] = [image |-> rebuilt.image, base |-> base, asked |-> FALSE]]
  /\ pc' = [pc EXCEPT ![s] = "write"]
  /\ UNCHANGED <<file, digest, base, asked, edits>>

\* WriteFileBytes moves the new image into place, or fails.
Replace(s) ==
  /\ pc[s] = "write"
  /\ file' = next[s].image /\ base' = next[s].base /\ asked' = next[s].asked
  /\ pc' = [pc EXCEPT ![s] = "idle"]
  /\ next' = [next EXCEPT ![s] = Nothing]
  /\ UNCHANGED <<digest, edits>>

Fail(s) ==
  /\ pc[s] = "write"
  /\ pc' = [pc EXCEPT ![s] = "idle"]
  /\ next' = [next EXCEPT ![s] = Nothing]
  /\ UNCHANGED <<file, digest, base, asked, edits>>

\* Another tool replaces the package.
OtherTool ==
  /\ edits < MaxEdits
  /\ file' \in Others
  /\ base' = file' /\ asked' = FALSE
  /\ edits' = edits + 1
  /\ UNCHANGED <<pc, digest, next>>

Next ==
  \/ \E s \in Signers :
       \/ ComputeAuthenticodeDigest(s)
       \/ \E kind \in Blobs, matching \in BOOLEAN : Embed(s, kind, matching)
       \/ Strip(s) \/ Replace(s) \/ Fail(s)
  \/ OtherTool

Spec == Init /\ [][Next]_vars

-----------------------------------------------------------------------------
(* Properties *)

\* Signing and stripping keep the package: whatever was embedded, replaced and
\* stripped since another tool wrote it, the file has that tool's entries with
\* their fields and bytes, but for the signature, and the same fingerprint
\* (MsiSigner.hpp: the value is the same before signing, after signing and after
\* the signature is removed).  Only where that tool's package had none, because
\* its signature entries clash, does the file have one that the package had not.
ContentKept ==
  file # base =>
    \E now \in {Parse(file)}, then \in {Parse(base)} :
       /\ now.ok
       /\ ComputeFingerprint(now).ok
       /\ ComputeFingerprint(then).ok => ComputeFingerprint(now) = ComputeFingerprint(then)
       /\ {n \in ToSet(Contents(now, TRUE).nodes) : ~IsSignature(n)}
            = ToSet(Contents(then, FALSE).nodes)

\* What a write leaves depends only on the content and the signature, never on
\* what was signed or stripped before: the file is what one write of this
\* signature into the other tool's package gives, and writing again changes
\* nothing (MsiSigner.hpp: repeated signing never grows the file).
Canonical ==
  file # base =>
    \E signatures \in {ExtractSignature(file)} :
    \E signature \in IF signatures = {} THEN {<<>>} ELSE signatures :
       /\ WriteCfb(Parse(base), signature) = [ok |-> TRUE, image |-> file]
       /\ WriteCfb(Parse(file), signature) = [ok |-> TRUE, image |-> file]

\* The self-check of the writer never fires: a package the reader accepts is
\* rebuilt, with every signature that fits and with none, or refused for its
\* content or its size, and never stopped by an error of the writer itself; and
\* the allocation index written lists every sector of the file, its own included.
\* A version 3 package whose mini stream passes 32 bits is outside the instance.
RebuildSound ==
  \A m \in {Parse(file)} : m.ok =>
    \A b \in {<<>>} \cup {Blob(kind, <<>>) : kind \in Blobs} :
      CheckMsiSignatureSize(Len(b), file.version) =>
        \A r \in {WriteCfb(m, b)} :
          IF r.ok
          THEN \A w \in {Parse(r.image)} :
                 /\ SectorCount(r.image) <= FatSize(w)
                 /\ \A sector \in 0..(SectorCount(r.image) - 1) : FatEntry(w, sector) # FreeSector
          ELSE r.why = "refused"

\* What the three questions about a signature answer agrees, and a signature
\* that had to match still matches, although the package may have been replaced
\* after its digest was taken.
SignatureTold ==
  \A state \in {CheckSignature(file)}, has \in {HasEmbeddedSignature(file)} :
      /\ asked => state = "Matches"
      /\ has <=> ExtractSignature(file) # {}
      /\ state \in {"Matches", "Mismatch"} => has
      /\ state = "None" => ~has

\* The walk of a stream by itself, along the mini FAT where it is small, and the
\* cells of a sector or mini sector on it.
InMiniStream(n) == n.size < MiniStreamCutoff
WalkOf(m, n) ==
  IF InMiniStream(n) THEN WalkMiniChain(m, n.start, {}) ELSE FollowChain(m, n.start)
UnitOf(m, n) == IF InMiniStream(n) THEN MiniSectorSize ELSE CellsOf(m.image)

Disjoint(walk, other) == ToSet(walk.chain) \cap ToSet(other.chain) = {}

EachWalkEnds(m, streams) ==
  /\ \A start \in {m.image.first_dir, m.image.first_mini_fat, m.mini_start} :
       Ended(FollowChain(m, start))
  /\ \A n \in streams : Ended(WalkOf(m, n))

StreamsApart(m, mini_stream, streams) ==
  \A n \in streams :
    /\ Len(WalkOf(m, n).chain) = UnitsFor(n.size, UnitOf(m, n))
    /\ InMiniStream(n) => Len(mini_stream.chain) >= UnitsFor(m.mini_size, CellsOf(m.image))
    /\ \A other \in streams \ {n} :
         /\ InMiniStream(n) = InMiniStream(other) => Disjoint(WalkOf(m, n), WalkOf(m, other))
         /\ InMiniStream(n) /\ ~InMiniStream(other) => Disjoint(mini_stream, WalkOf(m, other))

\* However the FAT and the mini FAT are damaged, the walks along them end: those
\* of the directory, the mini FAT, the mini stream and every stream.  Where the
\* streams of a package can be read, each takes exactly the sectors, or mini
\* sectors, that its size needs, and shares none with another stream; an ordinary
\* stream shares none with the mini stream, which covers its own size
\* (WalkChain, WalkMiniChain and CheckChainLength, CfbReader.cpp).
WalksEnd ==
  \A m \in {Parse(file)} : m.ok =>
    \A streams \in {{n \in ToSet(m.nodes) : ~n.storage /\ n.size # 0}} :
      /\ EachWalkEnds(m, streams)
      /\ Contents(m, TRUE).ok => StreamsApart(m, FollowChain(m, m.mini_start), streams)

=============================================================================
