------------------------- MODULE FileReplace_proofs -------------------------
(***************************************************************************)
(* Theorems about FileReplace, for any number of writers, readers, working *)
(* names and files and any size of content: every safety property the runs *)
(* check, and that each step is a step of AtomicReplace or a stutter.      *)
(***************************************************************************)
EXTENDS FileReplace, TLAPS

----------------------------------------------------------------------------
(* The inductive invariant. *)

\* Places in WriteFileBytes where the call has a working file.
Busy == {"write", "chmod", "fsync", "close", "rename", "cleanup"}

\* A file has at most one working name, and none once a path or a reader has
\* it; numbers from `next` on are unused.
NamesInv ==
  /\ \A n \in WorkNames : names[n] \in Files =>
       /\ names[n] < next
       /\ names[n] \notin survivors
       /\ \A r \in Readers : rfile[r] # names[n]
  /\ \A m, n \in WorkNames : names[m] \in Files /\ names[m] = names[n] => m = n
  /\ \A f \in orphans : f < next

\* The calls that run have working files of their own.
WorkInv ==
  \A p \in Writers :
    /\ working[p] # NoName <=> pc[p] \in Busy
    /\ working[p] # NoName => Own(p) \in Files \ orphans
    /\ \A q \in Writers : working[p] # NoName /\ working[q] = working[p] => q = p

\* What a call has done to its working file by the time it is where it is.
DataInv ==
  /\ \A p \in Writers :
       /\ pc[p] \in {"chmod", "fsync", "close", "rename"} => written[Own(p)] = Size
       /\ pc[p] \in {"fsync", "close", "rename"} => mode[Own(p)] = "original"
       /\ pc[p] \in {"close", "rename"} => synced[Own(p)] = Size
  /\ \A f \in Files : mode[f] # "wide"

\* Whatever the path leads to, now or after a loss of power, is finished and
\* flushed; what a reader has open is finished.
PathInv ==
  /\ target \in survivors
  /\ \A f \in survivors :
       /\ f < next
       /\ written[f] = Size
       /\ synced[f] = Size
       /\ mode[f] = "original"
       /\ f \notin orphans
  /\ \A r \in Readers :
       /\ rfile[r] # NoFile => rfile[r] < next /\ written[rfile[r]] = Size
       /\ rsize[r] # NoFile => rsize[r] = Size

\* All of it.
Inv == TypeOK /\ NamesInv /\ WorkInv /\ DataInv /\ PathInv

----------------------------------------------------------------------------
(* Each part is preserved by every step. *)

\* A call that begins has made no attempt yet.
LEMMA NoAttempts == 0 \in 0..(MaxAttempts - 1)
  BY MaxAttemptsAssumption

\* The types.  A running call has a working file, so Own is a file where a step
\* uses it.
LEMMA TypeStep ==
  ASSUME TypeOK, WorkInv, [Next]_vars
  PROVE  TypeOK'
<1>1. CASE UNCHANGED vars
  BY <1>1 DEF vars, TypeOK
<1>2. \A p \in Writers : working[p] # NoName => Own(p) \in Files
  BY DEF WorkInv
<1>3. \A p \in Writers : pc[p] \in Busy => Own(p) \in Files
  BY <1>2 DEF WorkInv
<1>4. CASE PowerLoss
  BY <1>2, <1>4, NoAttempts DEF TypeOK, PowerLoss, States, Results
<1>5. ASSUME NEW p \in Writers, Begin(p) \/ Refuse(p) \/ Proceed(p) \/ Kill(p)
      PROVE  TypeOK'
  <2> USE DEF TypeOK
  <2>1. CASE Begin(p) \/ Refuse(p) \/ CreateFails(p)
    BY <2>1, NoAttempts DEF Begin, Refuse, CreateFails, Return, disk, reads, States, Results
  <2>2. ASSUME NEW n \in WorkNames, Create(p, n) PROVE TypeOK'
    <3>1. next \in Files /\ next + 1 \in 1..(MaxFiles + 1)
      BY <2>2, MaxFilesAssumption DEF Create, Files
    <3>2. names' \in [WorkNames -> Files \cup {NoFile, Foreign}] /\ mode' \in [Files -> Modes]
      BY <2>2, <3>1 DEF Create, CreateMode, Modes
    <3> QED BY <2>2, <3>1, <3>2 DEF Create, reads, States
  <2>3. CASE \E n \in WorkNames : CreateExists(p, n)
    BY <2>3, MaxAttemptsAssumption DEF CreateExists, disk, reads
  <2>4. CASE Write(p)
    BY <1>3, <2>4, SizeAssumption DEF Write, Step, reads, States, Busy
  <2>5. CASE WriteEnds(p) \/ Close(p) \/ Fault(p)
    BY <2>5 DEF WriteEnds, Close, Fault, Step, reads, States
  <2>6. CASE Chmod(p)
    BY <1>3, <2>6 DEF Chmod, Step, reads, States, Modes, Busy
  <2>7. CASE Fsync(p)
    BY <1>3, <2>7 DEF Fsync, Step, reads, States, Busy
  <2>8. CASE Rename(p)
    BY <1>3, <2>8 DEF Rename, reads, States, Busy
  <2>9. CASE SyncFolder(p)
    BY <2>9, NoAttempts DEF SyncFolder, Return, reads, States, Results
  <2>10. CASE Cleanup(p)
    BY <2>10, NoAttempts DEF Cleanup, Return, reads, States, Results
  <2>11. CASE Kill(p)
    BY <1>2, <2>11, NoAttempts DEF Kill, Return, reads, States, Results
  <2> QED BY <1>5, <2>1, <2>2, <2>3, <2>4, <2>5, <2>6, <2>7, <2>8, <2>9, <2>10, <2>11
           DEF Proceed
<1>6. ASSUME NEW r \in Readers, ReadOpen(r) \/ ReadSize(r) \/ ReadAll(r)
      PROVE  TypeOK'
  BY <1>6 DEF TypeOK, ReadOpen, ReadSize, ReadAll, disk, calls
<1> QED BY <1>1, <1>4, <1>5, <1>6 DEF Next

\* A new file gets a number and a name nobody has; a rename takes the name away
\* in the step that puts the file on the path.
LEMMA NamesStep ==
  ASSUME TypeOK, NamesInv, WorkInv, PathInv, [Next]_vars
  PROVE  NamesInv'
<1> USE SizeAssumption, MaxAttemptsAssumption, MaxFilesAssumption, NoFileAssumption,
        NoNameAssumption
<1> USE DEF TypeOK, NamesInv, WorkInv, PathInv, Own, Files, Busy
<1>1. CASE UNCHANGED vars
  BY <1>1 DEF vars
<1>2. CASE PowerLoss
  BY <1>2 DEF PowerLoss
<1>3. ASSUME NEW p \in Writers, Begin(p) \/ Refuse(p) \/ Proceed(p) \/ Kill(p)
      PROVE  NamesInv'
  <2>1. CASE Begin(p)
    BY <2>1 DEF Begin, disk, reads
  <2>2. CASE Refuse(p)
    BY <2>2 DEF Refuse, Return, disk, reads
  <2>3. CASE \E n \in WorkNames : Create(p, n)
    <3>1. PICK n \in WorkNames : Create(p, n)
      BY <2>3
    <3>2. next \in Files /\ names[n] = NoFile /\ next' = next + 1
      BY <3>1 DEF Create, Free
    <3>3. names'[n] = next /\ \A m \in WorkNames \ {n} : names'[m] = names[m]
      BY <3>1 DEF Create
    <3>4. \A m \in WorkNames \ {n} : names'[m] \in Files => names'[m] < next
      BY <3>3
    <3>5. survivors' = survivors /\ orphans' = orphans /\ rfile' = rfile
      BY <3>1 DEF Create, reads
    <3>6. next \notin survivors /\ \A r \in Readers : rfile[r] # next
      BY <3>2
    <3>7. /\ next < next + 1 /\ \A k \in Files : k < next => k < next + 1
          /\ \A m \in WorkNames \ {n} : names'[m] \in Files => names'[m] # next
      BY <3>4
    <3> HIDE DEF TypeOK, WorkInv, PathInv, Files
    <3>8. ASSUME NEW m \in WorkNames, names'[m] \in Files
          PROVE  /\ names'[m] < next'
                 /\ names'[m] \notin survivors'
                 /\ \A r \in Readers : rfile'[r] # names'[m]
      <4>1. CASE m = n
        BY <3>2, <3>3, <3>5, <3>6, <3>7, <4>1
      <4>2. CASE m # n
        BY <3>2, <3>3, <3>4, <3>5, <3>7, <3>8, <4>2
      <4> QED BY <4>1, <4>2
    <3>9. ASSUME NEW m \in WorkNames, NEW k \in WorkNames, names'[m] \in Files,
                 names'[m] = names'[k]
          PROVE  m = k
      BY <3>3, <3>7, <3>9
    <3>10. \A f \in orphans' : f < next'
      BY <3>2, <3>5, <3>7 DEF TypeOK
    <3> QED BY <3>8, <3>9, <3>10
  <2>4. CASE \E n \in WorkNames : CreateExists(p, n)
    BY <2>4 DEF CreateExists, disk, reads
  <2>5. CASE CreateFails(p)
    BY <2>5 DEF CreateFails, Return, disk, reads
  <2>6. CASE Write(p)
    BY <2>6 DEF Write, Step, reads
  <2>7. CASE WriteEnds(p)
    BY <2>7 DEF WriteEnds, AllWritten, Step, reads
  <2>8. CASE Chmod(p)
    BY <2>8 DEF Chmod, Step, reads
  <2>9. CASE Fsync(p)
    BY <2>9 DEF Fsync, Step, reads
  <2>10. CASE Close(p)
    BY <2>10 DEF Close, Step, reads
  <2>11. CASE Rename(p)
    BY <2>11 DEF Rename, reads
  <2>12. CASE SyncFolder(p)
    BY <2>12 DEF SyncFolder, Return, reads
  <2>13. CASE Fault(p)
    BY <2>13 DEF Fault, Step, reads
  <2>14. CASE Cleanup(p)
    <3>1. \A m \in WorkNames : names'[m] \in {names[m], NoFile}
      BY <2>14 DEF Cleanup
    <3>2. /\ survivors' = survivors /\ orphans' = orphans
          /\ next' = next /\ rfile' = rfile
      BY <2>14 DEF Cleanup, reads
    <3>3. NoFile \notin Files
      OBVIOUS
    <3>4. \A m \in WorkNames : names'[m] \in Files => names'[m] = names[m]
      BY <3>1, <3>3
    <3> HIDE DEF TypeOK, WorkInv, PathInv, Files
    <3> QED BY <3>2, <3>4
  <2>15. CASE Kill(p)
    BY <2>15 DEF Kill, Return, reads
  <2> QED BY <1>3, <2>1, <2>2, <2>3, <2>4, <2>5, <2>6, <2>7, <2>8, <2>9, <2>10, <2>11,
           <2>12, <2>13, <2>14, <2>15
           DEF Proceed
<1>4. ASSUME NEW r \in Readers, ReadOpen(r) \/ ReadSize(r) \/ ReadAll(r)
      PROVE  NamesInv'
  <2>1. CASE ReadOpen(r)
    BY <2>1 DEF ReadOpen, disk, calls
  <2>2. CASE ReadSize(r)
    BY <2>2 DEF ReadSize, disk, calls
  <2>3. CASE ReadAll(r)
    BY <2>3 DEF ReadAll, disk, calls
  <2> QED BY <1>4, <2>1, <2>2, <2>3
<1> QED BY <1>1, <1>2, <1>3, <1>4 DEF Next

\* O_EXCL keeps two calls, and a call and an orphan, from sharing a name.
LEMMA WorkStep ==
  ASSUME TypeOK, NamesInv, WorkInv, [Next]_vars
  PROVE  WorkInv'
<1> USE SizeAssumption, MaxAttemptsAssumption, MaxFilesAssumption, NoFileAssumption,
        NoNameAssumption
<1> USE DEF TypeOK, NamesInv, WorkInv, Own, Files, Busy
<1>1. CASE UNCHANGED vars
  BY <1>1 DEF vars
<1>2. CASE PowerLoss
  BY <1>2 DEF PowerLoss
<1>3. ASSUME NEW p \in Writers, Begin(p) \/ Refuse(p) \/ Proceed(p) \/ Kill(p)
      PROVE  WorkInv'
  <2>1. CASE Begin(p)
    BY <2>1 DEF Begin, disk, reads
  <2>2. CASE Refuse(p)
    BY <2>2 DEF Refuse, Return, disk, reads
  <2>3. CASE \E n \in WorkNames : Create(p, n)
    BY <2>3 DEF Create, Free, CreateMode, reads
  <2>4. CASE \E n \in WorkNames : CreateExists(p, n)
    BY <2>4 DEF CreateExists, disk, reads
  <2>5. CASE CreateFails(p)
    BY <2>5 DEF CreateFails, Return, disk, reads
  <2>6. CASE Write(p)
    BY <2>6 DEF Write, Step, reads
  <2>7. CASE WriteEnds(p)
    BY <2>7 DEF WriteEnds, AllWritten, Step, reads
  <2>8. CASE Chmod(p)
    BY <2>8 DEF Chmod, Step, reads
  <2>9. CASE Fsync(p)
    BY <2>9 DEF Fsync, Step, reads
  <2>10. CASE Close(p)
    BY <2>10 DEF Close, Step, reads
  <2>11. CASE Rename(p)
    BY <2>11 DEF Rename, reads
  <2>12. CASE SyncFolder(p)
    BY <2>12 DEF SyncFolder, Return, reads
  <2>13. CASE Fault(p)
    BY <2>13 DEF Fault, Step, reads
  <2>14. CASE Cleanup(p)
    BY <2>14 DEF Cleanup, Return, reads
  <2>15. CASE Kill(p)
    BY <2>15 DEF Kill, Return, reads
  <2> QED BY <1>3, <2>1, <2>2, <2>3, <2>4, <2>5, <2>6, <2>7, <2>8, <2>9, <2>10, <2>11,
           <2>12, <2>13, <2>14, <2>15
           DEF Proceed
<1>4. ASSUME NEW r \in Readers, ReadOpen(r) \/ ReadSize(r) \/ ReadAll(r)
      PROVE  WorkInv'
  <2>1. CASE ReadOpen(r)
    BY <2>1 DEF ReadOpen, disk, calls
  <2>2. CASE ReadSize(r)
    BY <2>2 DEF ReadSize, disk, calls
  <2>3. CASE ReadAll(r)
    BY <2>3 DEF ReadAll, disk, calls
  <2> QED BY <1>4, <2>1, <2>2, <2>3
<1> QED BY <1>1, <1>2, <1>3, <1>4 DEF Next

\* A step on one working file leaves those of the other calls alone.
LEMMA DataStep ==
  ASSUME TypeOK, NamesInv, WorkInv, DataInv, [Next]_vars
  PROVE  DataInv'
<1> USE SizeAssumption, MaxAttemptsAssumption, MaxFilesAssumption, NoFileAssumption,
        NoNameAssumption
<1> USE DEF TypeOK, NamesInv, WorkInv, DataInv, Own, Files, Busy
<1>1. CASE UNCHANGED vars
  BY <1>1 DEF vars
<1>2. CASE PowerLoss
  BY <1>2 DEF PowerLoss
<1>3. ASSUME NEW p \in Writers, Begin(p) \/ Refuse(p) \/ Proceed(p) \/ Kill(p)
      PROVE  DataInv'
  <2>1. CASE Begin(p)
    BY <2>1 DEF Begin, disk, reads
  <2>2. CASE Refuse(p)
    BY <2>2 DEF Refuse, Return, disk, reads
  <2>3. CASE \E n \in WorkNames : Create(p, n)
    BY <2>3 DEF Create, Free, CreateMode, reads
  <2>4. CASE \E n \in WorkNames : CreateExists(p, n)
    BY <2>4 DEF CreateExists, disk, reads
  <2>5. CASE CreateFails(p)
    BY <2>5 DEF CreateFails, Return, disk, reads
  <2>6. CASE Write(p)
    BY <2>6 DEF Write, Step, reads
  <2>7. CASE WriteEnds(p)
    BY <2>7 DEF WriteEnds, AllWritten, Step, reads
  <2>8. CASE Chmod(p)
    BY <2>8 DEF Chmod, Step, reads
  <2>9. CASE Fsync(p)
    BY <2>9 DEF Fsync, Step, reads
  <2>10. CASE Close(p)
    BY <2>10 DEF Close, Step, reads
  <2>11. CASE Rename(p)
    BY <2>11 DEF Rename, reads
  <2>12. CASE SyncFolder(p)
    BY <2>12 DEF SyncFolder, Return, reads
  <2>13. CASE Fault(p)
    BY <2>13 DEF Fault, Step, reads
  <2>14. CASE Cleanup(p)
    BY <2>14 DEF Cleanup, Return, reads
  <2>15. CASE Kill(p)
    BY <2>15 DEF Kill, Return, reads
  <2> QED BY <1>3, <2>1, <2>2, <2>3, <2>4, <2>5, <2>6, <2>7, <2>8, <2>9, <2>10, <2>11,
           <2>12, <2>13, <2>14, <2>15
           DEF Proceed
<1>4. ASSUME NEW r \in Readers, ReadOpen(r) \/ ReadSize(r) \/ ReadAll(r)
      PROVE  DataInv'
  <2>1. CASE ReadOpen(r)
    BY <2>1 DEF ReadOpen, disk, calls
  <2>2. CASE ReadSize(r)
    BY <2>2 DEF ReadSize, disk, calls
  <2>3. CASE ReadAll(r)
    BY <2>3 DEF ReadAll, disk, calls
  <2> QED BY <1>4, <2>1, <2>2, <2>3
<1> QED BY <1>1, <1>2, <1>3, <1>4 DEF Next

\* Only a finished and flushed file reaches the path, and nobody writes to a file
\* that has no working name.
LEMMA PathStep ==
  ASSUME TypeOK, NamesInv, WorkInv, DataInv, PathInv, [Next]_vars
  PROVE  PathInv'
<1> USE SizeAssumption, MaxAttemptsAssumption, MaxFilesAssumption, NoFileAssumption,
        NoNameAssumption
<1> USE DEF TypeOK, NamesInv, WorkInv, DataInv, PathInv, Own, Files, Busy
<1>1. CASE UNCHANGED vars
  BY <1>1 DEF vars
<1>2. CASE PowerLoss
  BY <1>2 DEF PowerLoss
<1>3. ASSUME NEW p \in Writers, Begin(p) \/ Refuse(p) \/ Proceed(p) \/ Kill(p)
      PROVE  PathInv'
  <2>1. CASE Begin(p)
    BY <2>1 DEF Begin, disk, reads
  <2>2. CASE Refuse(p)
    BY <2>2 DEF Refuse, Return, disk, reads
  <2>3. CASE \E n \in WorkNames : Create(p, n)
    BY <2>3 DEF Create, Free, CreateMode, reads
  <2>4. CASE \E n \in WorkNames : CreateExists(p, n)
    BY <2>4 DEF CreateExists, disk, reads
  <2>5. CASE CreateFails(p)
    BY <2>5 DEF CreateFails, Return, disk, reads
  <2>6. CASE Write(p)
    BY <2>6 DEF Write, Step, reads
  <2>7. CASE WriteEnds(p)
    BY <2>7 DEF WriteEnds, AllWritten, Step, reads
  <2>8. CASE Chmod(p)
    BY <2>8 DEF Chmod, Step, reads
  <2>9. CASE Fsync(p)
    BY <2>9 DEF Fsync, Step, reads
  <2>10. CASE Close(p)
    BY <2>10 DEF Close, Step, reads
  <2>11. CASE Rename(p)
    BY <2>11 DEF Rename, reads
  <2>12. CASE SyncFolder(p)
    BY <2>12 DEF SyncFolder, Return, reads
  <2>13. CASE Fault(p)
    BY <2>13 DEF Fault, Step, reads
  <2>14. CASE Cleanup(p)
    BY <2>14 DEF Cleanup, Return, reads
  <2>15. CASE Kill(p)
    BY <2>15 DEF Kill, Return, reads
  <2> QED BY <1>3, <2>1, <2>2, <2>3, <2>4, <2>5, <2>6, <2>7, <2>8, <2>9, <2>10, <2>11,
           <2>12, <2>13, <2>14, <2>15
           DEF Proceed
<1>4. ASSUME NEW r \in Readers, ReadOpen(r) \/ ReadSize(r) \/ ReadAll(r)
      PROVE  PathInv'
  <2>1. CASE ReadOpen(r)
    BY <2>1 DEF ReadOpen, disk, calls
  <2>2. CASE ReadSize(r)
    BY <2>2 DEF ReadSize, disk, calls
  <2>3. CASE ReadAll(r)
    BY <2>3 DEF ReadAll, disk, calls
  <2> QED BY <1>4, <2>1, <2>2, <2>3
<1> QED BY <1>1, <1>2, <1>3, <1>4 DEF Next

\* The initial states satisfy Inv.
LEMMA InvInit == Init => Inv
  BY NoAttempts, SizeAssumption, MaxFilesAssumption, NoFileAssumption, NoNameAssumption
     DEF Init, Inv, TypeOK, NamesInv, WorkInv, DataInv, PathInv, Own, Files, Busy,
         States, Results, Modes

\* Every step preserves Inv.
LEMMA InvStep == Inv /\ [Next]_vars => Inv'
  BY TypeStep, NamesStep, WorkStep, DataStep, PathStep DEF Inv

\* Inv holds in every reachable state.
THEOREM InvHolds == Spec => []Inv
  BY InvInit, InvStep, PTL DEF Spec

----------------------------------------------------------------------------
(* What follows. *)

\* Every variable keeps its type.
THEOREM TypeCorrect == Spec => []TypeOK
<1>1. Inv => TypeOK
  BY DEF Inv
<1> QED BY <1>1, InvHolds, PTL

\* At every moment, a kill or a loss of power included, the path leads to a
\* complete content.
THEOREM PathIsComplete == Spec => []TargetComplete
<1>1. Inv => TargetComplete
  BY DEF Inv, PathInv, TargetComplete
<1> QED BY <1>1, InvHolds, PTL

\* The permissions of the original are on the path and never exceeded.
THEOREM ModeIsKept == Spec => []PermissionsKept
<1>1. Inv => PermissionsKept
  BY DEF Inv, PathInv, DataInv, PermissionsKept
<1> QED BY <1>1, InvHolds, PTL

\* A reader gets one whole content however many replacements it overlaps.
THEOREM ReadsAreWhole == Spec => []ReadersSeeWhole
<1>1. Inv => ReadersSeeWhole
  BY DEF Inv, PathInv, ReadersSeeWhole
<1> QED BY <1>1, InvHolds, PTL

\* Working files that a kill left and files of somebody else stay as they are.
THEOREM OthersAreUntouched == Spec => OthersUntouched
<1> DEFINE Kept == /\ \A n \in WorkNames :
                        names[n] \in orphans \cup {Foreign} => names'[n] = names[n]
                   /\ \A f \in orphans : /\ written'[f] \in {written[f], synced[f]}
                                         /\ mode'[f] = mode[f]
                                         /\ target' # f
<1>1. Inv /\ [Next]_vars => [Kept]_vars
  <2> SUFFICES ASSUME Inv, Next PROVE Kept
    OBVIOUS
  <2>1. \A p \in Writers : pc[p] \in Busy =>
          /\ working[p] \in WorkNames
          /\ Own(p) \in Files \ (orphans \cup {Foreign})
    BY NoFileAssumption DEF Inv, TypeOK, WorkInv, Files
  <2>2. target \notin orphans /\ survivors \cap orphans = {}
    BY DEF Inv, PathInv
  <2>3. CASE PowerLoss
    BY <2>2, <2>3 DEF PowerLoss, Inv, TypeOK
  <2>4. ASSUME NEW p \in Writers, NEW n \in WorkNames, Create(p, n) PROVE Kept
    <3>1. names[n] = NoFile /\ next \notin orphans
      BY <2>4 DEF Create, Free, Inv, NamesInv, TypeOK
    <3>2. NoFile \notin orphans \cup {Foreign}
      <4>1. orphans \subseteq Nat
        BY MaxFilesAssumption DEF Inv, TypeOK, Files
      <4> QED BY <4>1, NoFileAssumption
    <3>3. \A m \in WorkNames : m # n => names'[m] = names[m]
      BY <2>4 DEF Create, Inv, TypeOK
    <3>4. \A f \in orphans : mode'[f] = mode[f]
      BY <2>4, <3>1 DEF Create, Inv, TypeOK
    <3>5. written' = written /\ target' = target
      BY <2>4 DEF Create
    <3> QED BY <2>2, <3>1, <3>2, <3>3, <3>4, <3>5
  <2>5. ASSUME NEW p \in Writers, Write(p) \/ Chmod(p) PROVE Kept
    BY <2>1, <2>2, <2>5 DEF Write, Chmod, Step, Busy, Inv, TypeOK
  <2>6. ASSUME NEW p \in Writers, Rename(p) \/ Cleanup(p) PROVE Kept
    BY <2>1, <2>2, <2>6 DEF Rename, Cleanup, Own, Busy, Inv, TypeOK
  <2>7. ASSUME NEW p \in Writers, Begin(p) \/ Refuse(p) \/ Proceed(p) \/ Kill(p),
               ~Write(p), ~Chmod(p), ~Rename(p), ~Cleanup(p),
               ~\E n \in WorkNames : Create(p, n)
        PROVE  UNCHANGED <<names, written, mode, target>>
    BY <2>7 DEF Proceed, Begin, Refuse, Kill, CreateExists, CreateFails, WriteEnds, Fsync,
         Close, SyncFolder, Fault, Step, disk
  <2>8. ASSUME NEW r \in Readers, ReadOpen(r) \/ ReadSize(r) \/ ReadAll(r)
        PROVE  UNCHANGED <<names, written, mode, target>>
    BY <2>8 DEF ReadOpen, ReadSize, ReadAll, disk
  <2> QED BY <2>2, <2>3, <2>4, <2>5, <2>6, <2>7, <2>8 DEF Next
<1>2. [][Kept]_vars => OthersUntouched
  BY PTL DEF OthersUntouched
<1> QED BY <1>1, <1>2, InvHolds, PTL DEF Spec

----------------------------------------------------------------------------
(* Working files, when unlink does what it is asked. *)

\* A call that returned or threw left no working file, as long as unlink works.
THEOREM WorkingFilesRemoved ==
  ASSUME ~UnlinkFails
  PROVE  Spec => []NoLeftovers
<1>1. Init => NoLeftovers
  BY NoFileAssumption DEF Init, NoLeftovers, Files
<1>2. Inv /\ NoLeftovers /\ [Next]_vars => NoLeftovers'
  <2> SUFFICES ASSUME Inv, NoLeftovers, [Next]_vars PROVE NoLeftovers'
    OBVIOUS
  <2>1. ASSUME UNCHANGED <<names, orphans, working>> PROVE NoLeftovers'
    BY <2>1 DEF NoLeftovers
  <2>2. NoFile \notin Files /\ Foreign \notin Files
    BY NoFileAssumption DEF Files
  <2>3. CASE PowerLoss
    BY <2>3 DEF PowerLoss, NoLeftovers, Own, Inv, TypeOK, WorkInv
  <2>4. ASSUME NEW p \in Writers, NEW n \in WorkNames, Create(p, n) PROVE NoLeftovers'
    <3>1. working[p] = NoName /\ working'[p] = n
      BY <2>4 DEF Create, Inv, WorkInv, TypeOK, Busy
    <3>2. \A q \in Writers \ {p} : working'[q] = working[q]
      BY <2>4 DEF Create, Inv, TypeOK
    <3>3. \A m \in WorkNames \ {n} : names'[m] = names[m]
      BY <2>4 DEF Create, Inv, TypeOK
    <3>4. orphans' = orphans
      BY <2>4 DEF Create
    <3> QED BY <3>1, <3>2, <3>3, <3>4, NoNameAssumption DEF NoLeftovers
  <2>5. ASSUME NEW p \in Writers, Rename(p) \/ Cleanup(p) PROVE NoLeftovers'
    <3>1. names' = [names EXCEPT ![working[p]] = NoFile]
      BY <2>5 DEF Rename, Cleanup
    <3>2. \A q \in Writers \ {p} : working'[q] = working[q]
      BY <2>5 DEF Rename, Cleanup, Return, Inv, TypeOK
    <3>3. orphans' = orphans
      BY <2>5 DEF Rename, Cleanup
    <3> QED BY <2>2, <3>1, <3>2, <3>3 DEF NoLeftovers, Inv, TypeOK
  <2>6. ASSUME NEW p \in Writers, Kill(p) PROVE NoLeftovers'
    BY <2>6 DEF Kill, Return, NoLeftovers, Own, Inv, TypeOK
  <2>7. ASSUME NEW p \in Writers, Refuse(p) \/ CreateFails(p) \/ SyncFolder(p)
        PROVE  UNCHANGED <<names, orphans, working>>
    BY <2>7 DEF Refuse, CreateFails, SyncFolder, Return, disk, Inv, TypeOK, WorkInv, Busy
  <2>8. ASSUME NEW p \in Writers,
               Begin(p) \/ Write(p) \/ WriteEnds(p) \/ Chmod(p) \/ Fsync(p) \/ Close(p)
                 \/ Fault(p) \/ \E n \in WorkNames : CreateExists(p, n)
        PROVE  UNCHANGED <<names, orphans, working>>
    BY <2>8 DEF Begin, CreateExists, Write, WriteEnds, Chmod, Fsync, Close, Fault, Step, disk
  <2>9. ASSUME NEW r \in Readers, ReadOpen(r) \/ ReadSize(r) \/ ReadAll(r)
        PROVE  UNCHANGED <<names, orphans, working>>
    BY <2>9 DEF ReadOpen, ReadSize, ReadAll, disk, calls
  <2>10. CASE UNCHANGED vars
    BY <2>1, <2>10 DEF vars
  <2> QED BY <2>1, <2>3, <2>4, <2>5, <2>6, <2>7, <2>8, <2>9, <2>10 DEF Next, Proceed
<1> QED BY <1>1, <1>2, InvHolds, PTL DEF Spec

----------------------------------------------------------------------------
(* Refinement. *)

\* The initial states are initial states of AtomicReplace.
LEMMA PromiseInit == Init => Promise!Init
  BY MaxFilesAssumption DEF Init, Promise!Init, Status, Files

\* Every step is a step of AtomicReplace or leaves its variables alone: the
\* rename of a call is the step that replaces the content.
LEMMA PromiseStep ==
  ASSUME Inv, [Next]_vars
  PROVE  [Promise!Next]_(Promise!vars)
<1> DEFINE status == [p \in Writers |-> Status(p)]
<1> USE DEF Promise!Next, Promise!vars
<1>1. TypeOK
  BY DEF Inv
<1>2. ASSUME pc' = pc, UNCHANGED <<target, survivors, result>>
      PROVE  UNCHANGED Promise!vars
  BY <1>2 DEF Status
<1>3. CASE UNCHANGED vars
  BY <1>2, <1>3 DEF vars
<1>4. CASE PowerLoss
  <2>1. status' = [p \in Writers |-> "idle"]
    BY <1>4 DEF PowerLoss, Status
  <2>2. Promise!PowerLoss
    BY <1>4, <2>1 DEF PowerLoss, Promise!PowerLoss
  <2> QED BY <2>2
<1>5. ASSUME NEW p \in Writers, Begin(p) \/ Refuse(p) \/ Proceed(p) \/ Kill(p)
      PROVE  [Promise!Next]_(Promise!vars)
  <2>1. ASSUME NEW to, pc' = [pc EXCEPT ![p] = to],
               NEW s, (IF to = "idle" THEN "idle" ELSE
                       IF to = "folder" THEN "replaced" ELSE "pending") = s
        PROVE  status' = [status EXCEPT ![p] = s]
    BY <1>1, <2>1 DEF Status, TypeOK
  <2>2. /\ status[p] = "idle" <=> pc[p] = "idle"
        /\ status[p] = "replaced" <=> pc[p] = "folder"
        /\ status[p] \in {"idle", "pending", "replaced"}
    BY DEF Status
  <2>3. ASSUME NEW from, NEW to, Step(p, from, to),
               from \notin {"idle", "folder"}, to \notin {"idle", "folder"}
        PROVE  UNCHANGED Promise!vars
    <3>1. status' = [status EXCEPT ![p] = "pending"]
      BY <2>1, <2>3 DEF Step
    <3>2. status[p] = "pending"
      BY <2>2, <2>3 DEF Step
    <3> QED BY <2>3, <3>1, <3>2 DEF Step
  <2>4. CASE Begin(p)
    <3>1. status' = [status EXCEPT ![p] = "pending"]
      BY <1>1, <2>4 DEF Begin, Status, TypeOK
    <3>2. Promise!Begin(p)
      BY <2>2, <2>4, <3>1 DEF Begin, Promise!Begin, disk
    <3> QED BY <3>2
  <2>5. CASE Refuse(p) \/ CreateFails(p) \/ Cleanup(p)
    <3>1. status' = [status EXCEPT ![p] = "idle"]
      BY <2>1, <2>5 DEF Refuse, CreateFails, Cleanup, Return
    <3>2. Promise!ReturnError(p)
      BY <2>2, <2>5, <3>1 DEF Refuse, CreateFails, Cleanup, Return, disk, Promise!ReturnError
    <3> QED BY <3>2
  <2>6. CASE \E n \in WorkNames : CreateExists(p, n)
    BY <1>2, <2>6 DEF CreateExists, disk
  <2>7. CASE \E n \in WorkNames : Create(p, n)
    <3>1. status' = [status EXCEPT ![p] = "pending"] /\ status[p] = "pending"
      BY <1>1, <2>7 DEF Create, Status, TypeOK
    <3> QED BY <2>7, <3>1 DEF Create
  <2>8. CASE Write(p) \/ WriteEnds(p) \/ Chmod(p) \/ Fsync(p) \/ Close(p) \/ Fault(p)
    BY <2>3, <2>8 DEF Write, WriteEnds, Chmod, Fsync, Close, Fault
  <2>9. CASE Rename(p)
    <3>1. status' = [status EXCEPT ![p] = "replaced"] /\ status[p] = "pending"
      BY <2>1, <2>2, <2>9 DEF Rename
    <3>2. working[p] \in WorkNames /\ Own(p) \in Files
      BY <1>1, <2>9 DEF Rename, Inv, WorkInv, TypeOK, Busy
    <3>3. Own(p) \notin survivors
      BY <3>2 DEF Inv, NamesInv, Own
    <3>4. Promise!Replace(p)
      BY <2>9, <3>1, <3>2, <3>3 DEF Rename, Promise!Replace
    <3> QED BY <3>4
  <2>10. CASE SyncFolder(p)
    <3>1. status' = [status EXCEPT ![p] = "idle"]
      BY <2>1, <2>10 DEF SyncFolder, Return
    <3>2. Promise!ReturnOk(p)
      BY <2>2, <2>10, <3>1 DEF SyncFolder, Return, Promise!ReturnOk
    <3> QED BY <3>2
  <2>11. CASE Kill(p)
    <3>1. status' = [status EXCEPT ![p] = "idle"]
      BY <2>1, <2>11 DEF Kill, Return
    <3>2. Promise!Kill(p)
      BY <2>2, <2>11, <3>1 DEF Kill, Return, Promise!Kill
    <3> QED BY <3>2
  <2> QED BY <1>5, <2>4, <2>5, <2>6, <2>7, <2>8, <2>9, <2>10, <2>11 DEF Proceed
<1>6. ASSUME NEW r \in Readers, ReadOpen(r) \/ ReadSize(r) \/ ReadAll(r)
      PROVE  UNCHANGED Promise!vars
  BY <1>2, <1>6 DEF ReadOpen, ReadSize, ReadAll, disk, calls
<1> QED BY <1>3, <1>4, <1>5, <1>6 DEF Next

\* WriteFileBytes implements the promise of FileIO.hpp.
THEOREM PromiseKept == Spec => KeepsPromise
<1>1. Inv /\ [Next]_vars => [Promise!Next]_(Promise!vars)
  BY PromiseStep
<1> QED BY <1>1, PromiseInit, InvHolds, PTL DEF Spec, KeepsPromise, Promise!Spec

=============================================================================
