---------------------------- MODULE FileReplace ----------------------------
(***************************************************************************)
(* WriteFileBytes and ReadFileBytes (src/internal/FileIO.cpp, the POSIX    *)
(* branch) on one file: every signer rewrites its file through them.       *)
(* Writers are calls of WriteFileBytes in any threads or processes, each   *)
(* of which can be killed between two system calls; power can be lost; any *)
(* system call can fail; readers read the path meanwhile.                  *)
(*                                                                         *)
(* A file is a number: 0 is the original and each working file gets the    *)
(* next one, so a number also stands for the content its creator writes.   *)
(* A content is Size bytes long, of which `written` are in the file and    *)
(* `synced` would survive a loss of power.                                 *)
(***************************************************************************)
EXTENDS Naturals

CONSTANTS
  Writers,      \* calls of WriteFileBytes
  Readers,      \* calls of ReadFileBytes
  WorkNames,    \* names WorkingName can come up with
  Taken,        \* those that exist beforehand and belong to somebody else
  Size,         \* bytes.size() of every content
  MaxAttempts,  \* kMaxNameAttempts
  MaxFiles,     \* bound on the number of working files
  UnlinkFails,  \* whether unlink of a working file may fail
  NoFile, Foreign, NoName

ASSUME TakenAssumption == Taken \subseteq WorkNames
ASSUME SizeAssumption == Size \in Nat
ASSUME MaxAttemptsAssumption == MaxAttempts \in Nat \ {0}
ASSUME MaxFilesAssumption == MaxFiles \in Nat
ASSUME UnlinkFailsAssumption == UnlinkFails \in BOOLEAN
ASSUME NoFileAssumption == NoFile \notin Nat /\ Foreign \notin Nat /\ Foreign # NoFile
ASSUME NoNameAssumption == NoName \notin WorkNames

VARIABLES
  target,     \* the file the resolved path leads to
  names,      \* per working name: the file under it, Foreign or NoFile
  written,    \* per file: bytes in it
  synced,     \* per file: bytes known to be on the device
  mode,       \* per file: its permissions
  survivors,  \* files the path may lead to after a loss of power
  next,       \* the number of the next file
  orphans,    \* working files a kill or a loss of power left behind
  pc,         \* per writer: where it is in WriteFileBytes
  attempt,    \* per writer: working names it has tried
  working,    \* per writer: the name of its working file
  result,     \* per writer: how its last call ended
  rfile,      \* per reader: the file it has open
  rsize       \* per reader: what Size() answered, or NoFile

disk == <<target, names, written, synced, mode, survivors, next, orphans>>
calls == <<pc, attempt, working, result>>
reads == <<rfile, rsize>>
vars == <<target, names, written, synced, mode, survivors, next, orphans,
          pc, attempt, working, result, rfile, rsize>>

Files == 0..MaxFiles

\* "cleanup" is the destructor of WorkingFile after a failure.
States == {"idle", "create", "write", "chmod", "fsync", "close", "rename",
           "folder", "cleanup"}
Results == {"none", "ok", "error", "killed"}

\* Permissions: none at all, those of the original, or wider than those.
Modes == {"none", "original", "wide"}

Init ==
  /\ target = 0
  /\ names = [n \in WorkNames |-> IF n \in Taken THEN Foreign ELSE NoFile]
  /\ written = [f \in Files |-> IF f = 0 THEN Size ELSE 0]
  /\ synced = [f \in Files |-> IF f = 0 THEN Size ELSE 0]
  /\ mode = [f \in Files |-> IF f = 0 THEN "original" ELSE "none"]
  /\ survivors = {0}
  /\ next = 1
  /\ orphans = {}
  /\ pc = [p \in Writers |-> "idle"]
  /\ attempt = [p \in Writers |-> 0]
  /\ working = [p \in Writers |-> NoName]
  /\ result = [p \in Writers |-> "none"]
  /\ rfile = [r \in Readers |-> NoFile]
  /\ rsize = [r \in Readers |-> NoFile]

\* The file a writer has created and not yet moved or removed.
Own(p) == names[working[p]]

----------------------------------------------------------------------------
(* Up to the working file. *)

\* ResolveTarget, stat and both access checks pass.
Begin(p) ==
  /\ pc[p] = "idle"
  /\ next <= MaxFiles
  /\ pc' = [pc EXCEPT ![p] = "create"]
  /\ attempt' = [attempt EXCEPT ![p] = 0]
  /\ result' = [result EXCEPT ![p] = "none"]
  /\ UNCHANGED working
  /\ UNCHANGED disk
  /\ UNCHANGED reads

\* The call is over.
Return(p, how) ==
  /\ pc' = [pc EXCEPT ![p] = "idle"]
  /\ working' = [working EXCEPT ![p] = NoName]
  /\ attempt' = [attempt EXCEPT ![p] = 0]
  /\ result' = [result EXCEPT ![p] = how]

\* One of them refuses: a missing file, a dangling link, a folder, a special
\* file, a read-only file or folder.  Nothing has been touched.
Refuse(p) ==
  /\ pc[p] = "idle"
  /\ Return(p, "error")
  /\ UNCHANGED disk
  /\ UNCHANGED reads

\* Mutant: the working file is opened with the usual mode.
UsualMode == "wide"

\* The mode argument of open: no permission until fchmod.
CreateMode == "none"

\* Mutant: open without O_EXCL takes over whatever has the name.
Anything(n) == TRUE

\* O_CREAT | O_EXCL | O_NOFOLLOW: only a name that does not exist.
Free(n) == names[n] = NoFile

Create(p, n) ==
  /\ pc[p] = "create"
  /\ Free(n)
  /\ next <= MaxFiles
  /\ names' = [names EXCEPT ![n] = next]
  /\ mode' = [mode EXCEPT ![next] = CreateMode]
  /\ next' = next + 1
  /\ working' = [working EXCEPT ![p] = n]
  /\ pc' = [pc EXCEPT ![p] = "write"]
  /\ UNCHANGED <<target, written, synced, survivors, orphans>>
  /\ UNCHANGED <<attempt, result>>
  /\ UNCHANGED reads

\* Mutant: the attempts are not counted.
CreateForEver(p, n) ==
  /\ pc[p] = "create"
  /\ ~Free(n)
  /\ attempt' = [attempt EXCEPT ![p] = @ + 1]
  /\ UNCHANGED <<pc, working, result>>
  /\ UNCHANGED disk
  /\ UNCHANGED reads

\* EEXIST: another name, as long as there are attempts left.
CreateExists(p, n) ==
  /\ pc[p] = "create"
  /\ ~Free(n)
  /\ attempt[p] + 1 < MaxAttempts
  /\ attempt' = [attempt EXCEPT ![p] = @ + 1]
  /\ UNCHANGED <<pc, working, result>>
  /\ UNCHANGED disk
  /\ UNCHANGED reads

\* The attempts are used up, or open failed for another reason.
CreateFails(p) ==
  /\ pc[p] = "create"
  /\ Return(p, "error")
  /\ UNCHANGED disk
  /\ UNCHANGED reads

----------------------------------------------------------------------------
(* With the working file open. *)

\* To the next step of the call, leaving names and the path alone.
Step(p, from, to) ==
  /\ pc[p] = from
  /\ pc' = [pc EXCEPT ![p] = to]
  /\ UNCHANGED <<attempt, working, result>>
  /\ UNCHANGED <<target, names, survivors, next, orphans>>
  /\ UNCHANGED reads

\* One write(2): some bytes, at least one.
Write(p) ==
  /\ Step(p, "write", "write")
  /\ \E k \in 1..(Size - written[Own(p)]) :
       written' = [written EXCEPT ![Own(p)] = @ + k]
  /\ UNCHANGED <<synced, mode>>

\* Mutant: a short write counts as the whole content.
ShortIsEnough(p) == Size = 0 \/ written[Own(p)] > 0

\* The loop is over once offset reaches bytes.size().
AllWritten(p) == written[Own(p)] = Size

WriteEnds(p) ==
  /\ Step(p, "write", "chmod")
  /\ AllWritten(p)
  /\ UNCHANGED <<written, synced, mode>>

\* fchown (best effort, its result is ignored) and fchmod.
Chmod(p) ==
  /\ Step(p, "chmod", "fsync")
  /\ mode' = [mode EXCEPT ![Own(p)] = "original"]
  /\ UNCHANGED <<written, synced>>

\* Mutant: the data is not flushed before the move.
NoFsync(p) ==
  /\ Step(p, "fsync", "close")
  /\ UNCHANGED <<written, synced, mode>>

Fsync(p) ==
  /\ Step(p, "fsync", "close")
  /\ synced' = [synced EXCEPT ![Own(p)] = written[Own(p)]]
  /\ UNCHANGED <<written, mode>>

Close(p) ==
  /\ Step(p, "close", "rename")
  /\ UNCHANGED <<written, synced, mode>>

\* rename(2) moves the working file over the path; then Commit().
Rename(p) ==
  /\ pc[p] = "rename"
  /\ target' = Own(p)
  /\ names' = [names EXCEPT ![working[p]] = NoFile]
  /\ survivors' = survivors \cup {Own(p)}
  /\ working' = [working EXCEPT ![p] = NoName]
  /\ pc' = [pc EXCEPT ![p] = "folder"]
  /\ UNCHANGED <<written, synced, mode, next, orphans>>
  /\ UNCHANGED <<attempt, result>>
  /\ UNCHANGED reads

\* Mutant: a folder that cannot be flushed fails the call.
SyncFolderReports(p) ==
  /\ pc[p] = "folder"
  /\ \/ survivors' = {target} /\ Return(p, "ok")
     \/ survivors' = survivors /\ Return(p, "error")
  /\ UNCHANGED <<target, names, written, synced, mode, next, orphans>>
  /\ UNCHANGED reads

\* fsync_folder, best effort: it may or may not reach the device.
SyncFolder(p) ==
  /\ pc[p] = "folder"
  /\ survivors' \in {survivors, {target}}
  /\ Return(p, "ok")
  /\ UNCHANGED <<target, names, written, synced, mode, next, orphans>>
  /\ UNCHANGED reads

----------------------------------------------------------------------------
(* Failure. *)

\* write (also one that wrote nothing), fchmod, fsync, close or rename fails.
Fault(p) ==
  /\ \E from \in {"write", "chmod", "fsync", "close", "rename"} :
       Step(p, from, "cleanup")
  /\ UNCHANGED <<written, synced, mode>>

\* Mutant: the destructor leaves the working file there.
CleanupKeeps(p) ==
  /\ pc[p] = "cleanup"
  /\ Return(p, "error")
  /\ UNCHANGED disk
  /\ UNCHANGED reads

\* ~WorkingFile: close, unlink the working name, whose result is ignored.
Cleanup(p) ==
  /\ pc[p] = "cleanup"
  /\ \/ names' = [names EXCEPT ![working[p]] = NoFile]
     \/ UnlinkFails /\ names' = names
  /\ Return(p, "error")
  /\ UNCHANGED <<target, written, synced, mode, survivors, next, orphans>>
  /\ UNCHANGED reads

\* The process is killed part way; its working file stays behind.
Kill(p) ==
  /\ pc[p] # "idle"
  /\ orphans' = orphans \cup (IF working[p] = NoName THEN {} ELSE {Own(p)})
  /\ Return(p, "killed")
  /\ UNCHANGED <<target, names, written, synced, mode, survivors, next>>
  /\ UNCHANGED reads

\* Everything stops.  The path leads to one of the survivors, and of each file
\* only what was flushed is certain to be there.
PowerLoss ==
  /\ target' \in survivors
  /\ survivors' = {target'}
  /\ written' = synced
  /\ orphans' = orphans \cup {Own(p) : p \in {q \in Writers : working[q] # NoName}}
  /\ pc' = [p \in Writers |-> "idle"]
  /\ attempt' = [p \in Writers |-> 0]
  /\ working' = [p \in Writers |-> NoName]
  /\ result' = [p \in Writers |-> "killed"]
  /\ rfile' = [r \in Readers |-> NoFile]
  /\ rsize' = [r \in Readers |-> NoFile]
  /\ UNCHANGED <<names, synced, mode, next>>

----------------------------------------------------------------------------
(* ReadFileBytes. *)

ReadOpen(r) ==
  /\ rfile[r] = NoFile
  /\ rfile' = [rfile EXCEPT ![r] = target]
  /\ UNCHANGED rsize
  /\ UNCHANGED disk
  /\ UNCHANGED calls

\* Size(): how many bytes ReadAt will ask for.
ReadSize(r) ==
  /\ rfile[r] # NoFile
  /\ rsize[r] = NoFile
  /\ rsize' = [rsize EXCEPT ![r] = written[rfile[r]]]
  /\ UNCHANGED rfile
  /\ UNCHANGED disk
  /\ UNCHANGED calls

\* ReadAt fills the buffer or throws on a short read; the file is closed.
ReadAll(r) ==
  /\ rsize[r] # NoFile
  /\ rfile' = [rfile EXCEPT ![r] = NoFile]
  /\ rsize' = [rsize EXCEPT ![r] = NoFile]
  /\ UNCHANGED disk
  /\ UNCHANGED calls

----------------------------------------------------------------------------
(* The specification. *)

Proceed(p) ==
  \/ \E n \in WorkNames : Create(p, n) \/ CreateExists(p, n)
  \/ CreateFails(p)
  \/ Write(p) \/ WriteEnds(p) \/ Chmod(p) \/ Fsync(p) \/ Close(p)
  \/ Rename(p) \/ SyncFolder(p)
  \/ Fault(p) \/ Cleanup(p)

Next ==
  \/ \E p \in Writers : Begin(p) \/ Refuse(p) \/ Proceed(p) \/ Kill(p)
  \/ \E r \in Readers : ReadOpen(r) \/ ReadSize(r) \/ ReadAll(r)
  \/ PowerLoss

Spec == Init /\ [][Next]_vars

----------------------------------------------------------------------------
(* Properties. *)

\* Every variable has its type.
TypeOK ==
  /\ target \in Files
  /\ names \in [WorkNames -> Files \cup {NoFile, Foreign}]
  /\ written \in [Files -> 0..Size]
  /\ synced \in [Files -> 0..Size]
  /\ mode \in [Files -> Modes]
  /\ survivors \subseteq Files
  /\ next \in 1..(MaxFiles + 1)
  /\ orphans \subseteq Files
  /\ pc \in [Writers -> States]
  /\ attempt \in [Writers -> 0..(MaxAttempts - 1)]
  /\ working \in [Writers -> WorkNames \cup {NoName}]
  /\ result \in [Writers -> Results]
  /\ rfile \in [Readers -> Files \cup {NoFile}]
  /\ rsize \in [Readers -> 0..Size \cup {NoFile}]

\* "After a failure, or after the process is killed part way, the target holds
\* the complete old or the complete new content", and so it does after a loss
\* of power: the path never leads to a file that is not all there.
TargetComplete == written[target] = Size

\* "No working file remains after the function returns, on success or on
\* failure": every working file belongs to a call that is running or was cut
\* short by a kill or a loss of power.
NoLeftovers ==
  \A n \in WorkNames : names[n] \in Files =>
    names[n] \in orphans \/ \E p \in Writers : working[p] = n

\* "A file or link that already exists under any name is left alone", and a
\* working file left by a kill "is never reused and never touched by a later
\* call": such a name keeps its file, and that file its content but for what
\* a loss of power takes.
OthersUntouched ==
  [][/\ \A n \in WorkNames : names[n] \in orphans \cup {Foreign} => names'[n] = names[n]
     /\ \A f \in orphans : /\ written'[f] \in {written[f], synced[f]}
                           /\ mode'[f] = mode[f]
                           /\ target' # f]_vars

\* "The permission bits are those of the original, and are never wider on the
\* working file at any moment."
PermissionsKept ==
  /\ mode[target] = "original"
  /\ \A f \in Files : mode[f] # "wide"

\* "A reader of the path sees the complete old content or the complete new
\* content", however many moves happen between its open, its Size() and its
\* reads: the file it has open is whole and stays whole.
ReadersSeeWhole ==
  \A r \in Readers :
    /\ rfile[r] # NoFile => written[rfile[r]] = Size
    /\ rsize[r] # NoFile => rsize[r] = Size

\* The promise of FileIO.hpp as a whole: a call is pending until its rename,
\* which is the step in which the path changes; it returns success after that
\* step only and throws before it only.
Status(p) ==
  IF pc[p] = "idle" THEN "idle"
  ELSE IF pc[p] = "folder" THEN "replaced"
  ELSE "pending"

Promise == INSTANCE AtomicReplace WITH
  Contents <- Files,
  content <- target,
  status <- [p \in Writers |-> Status(p)]

KeepsPromise == Promise!Spec
=============================================================================
