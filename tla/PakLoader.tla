----------------------------- MODULE PakLoader -----------------------------
(***************************************************************************)
(* PakLoader::Request and IndexGet (src/PakLoader.cpp): threads request    *)
(* resource paks while other programs replace the files or rewrite them in *)
(* place.  The description of a pak is remembered with the stamp of the    *)
(* file it was read from; one thread validates a version, the others wait. *)
(*                                                                         *)
(* A file is a number and so is each version of its bytes, drawn from one  *)
(* counter: file i is created holding version i.  A stamp is the file      *)
(* (device and inode) and its version (size and modification time), so two *)
(* versions of one file are taken to differ in size or time.  Critical     *)
(* sections of `mutex` contain no blocking call and are one step each.     *)
(* The search and the reads are external: they may fail at any time.       *)
(***************************************************************************)
EXTENDS Naturals

CONSTANTS
  Threads,       \* threads that call Load
  Identities,    \* canonical paths a search can end at
  NoThread,      \* nobody
  MaxVersion,    \* bound on the versions other programs write
  InPlace,       \* whether they also rewrite files in place
  MemoryFaults   \* whether storing an outcome may throw std::bad_alloc

ASSUME NoThreadAssumption == NoThread \notin Threads
ASSUME MaxVersionAssumption == MaxVersion \in Nat
ASSUME InPlaceAssumption == InPlace \in BOOLEAN
ASSUME MemoryFaultsAssumption == MemoryFaults \in BOOLEAN

VARIABLES
  disk,        \* per identity: the file the path leads to
  content,     \* per file: the version it holds
  latest,      \* the last version written
  remembered,  \* per identity: the description kept, or NoIndex
  in_flight,   \* per identity: the validation under way, or NoFlight
  pc,          \* per thread: where it is in Request and IndexGet
  identity,    \* per thread: what its search ended at
  handle,      \* per thread: the file it opened
  stamp,       \* per thread: the stamp IndexGet took
  index,       \* per thread: the description it has, or NoIndex
  awaits,      \* per thread: whose promise its future belongs to
  result,      \* per thread: how its validation or its request ended
  checks       \* per identity and version: times its description was stored

files == <<disk, content, latest>>
loader == <<remembered, in_flight, checks>>
locals == <<pc, identity, handle, stamp, index, awaits, result>>
vars == <<disk, content, latest, remembered, in_flight, pc, identity, handle,
          stamp, index, awaits, result, checks>>

----------------------------------------------------------------------------
(* Values. *)

Versions == 0..MaxVersion

\* FileStamp.
Stamps == [file : Versions, version : Versions]
Stamp(f) == [file |-> f, version |-> content[f]]

\* PakIndex: the stamp it was validated against, and the version whose
\* description was read.
Indexes == [stamp : Stamps, layout : Versions]
NoStamp == [file |-> 0, version |-> 0]
NoIndex == [stamp |-> NoStamp, layout |-> MaxVersion + 1]

\* PakLoader::InFlight: the stamp and the future, named by the thread that
\* holds its promise, with `broken` once that promise was destroyed unset.
InFlight == [by : Threads \cup {NoThread}, stamp : Stamps, broken : BOOLEAN]
NoFlight == [by |-> NoThread, stamp |-> NoStamp, broken |-> FALSE]

\* The owner of a validation goes from "validate" to "set".
Validating == {"validate", "describe", "publish"}
States == {"idle", "open", "stamp", "lookup", "decide", "wait", "set", "outcome",
           "read"}
            \cup Validating

Results == {"none", "ok", "failed", "broken"}

\* Bound on the counts in `checks`.
Many == 2

Init ==
  /\ disk = [i \in Identities |-> 0]
  /\ content = [f \in Versions |-> f]
  /\ latest = 0
  /\ remembered = [i \in Identities |-> NoIndex]
  /\ in_flight = [i \in Identities |-> NoFlight]
  /\ pc = [t \in Threads |-> "idle"]
  /\ identity \in [Threads -> Identities]
  /\ handle = [t \in Threads |-> 0]
  /\ stamp = [t \in Threads |-> NoStamp]
  /\ index = [t \in Threads |-> NoIndex]
  /\ awaits = [t \in Threads |-> NoThread]
  /\ result = [t \in Threads |-> "none"]
  /\ checks = [i \in Identities |-> [v \in Versions |-> 0]]

----------------------------------------------------------------------------
(* Other programs. *)

\* A new file is moved over the path; open handles keep the old one.
Replace(i) ==
  /\ latest < MaxVersion
  /\ latest' = latest + 1
  /\ disk' = [disk EXCEPT ![i] = latest + 1]
  /\ UNCHANGED content
  /\ UNCHANGED loader
  /\ UNCHANGED locals

\* The file is rewritten in place; open handles see the new bytes.
Rewrite(i) ==
  /\ InPlace
  /\ latest < MaxVersion
  /\ latest' = latest + 1
  /\ content' = [content EXCEPT ![disk[i]] = latest + 1]
  /\ UNCHANGED disk
  /\ UNCHANGED loader
  /\ UNCHANGED locals

----------------------------------------------------------------------------
(* Request, up to IndexGet. *)

\* Thread t goes to `to`; what it knows stays.
Goto(t, to) ==
  /\ pc' = [pc EXCEPT ![t] = to]
  /\ UNCHANGED <<identity, handle, stamp, index, awaits, result>>

\* The request returns or throws; the file is closed.
Return(t) ==
  /\ pc' = [pc EXCEPT ![t] = "idle"]
  /\ result' = [result EXCEPT ![t] = "none"]
  /\ handle' = [handle EXCEPT ![t] = 0]
  /\ stamp' = [stamp EXCEPT ![t] = NoStamp]
  /\ index' = [index EXCEPT ![t] = NoIndex]
  /\ UNCHANGED <<identity, awaits>>

\* The name is valid and SearchFirst ended at i.
Request(t, i) ==
  /\ pc[t] = "idle"
  /\ pc' = [pc EXCEPT ![t] = "open"]
  /\ identity' = [identity EXCEPT ![t] = i]
  /\ UNCHANGED <<handle, stamp, index, awaits, result>>
  /\ UNCHANGED files
  /\ UNCHANGED loader

\* Mutant: a failed open goes unnoticed and leaves an invalid handle.
OpenUnchecked(t) ==
  /\ pc[t] = "open"
  /\ pc' = [pc EXCEPT ![t] = "stamp"]
  /\ handle' = [handle EXCEPT ![t] = MaxVersion + 1]
  /\ UNCHANGED <<identity, stamp, index, awaits, result>>
  /\ UNCHANGED files
  /\ UNCHANGED loader

Open(t) ==
  /\ pc[t] = "open"
  /\ pc' = [pc EXCEPT ![t] = "stamp"]
  /\ handle' = [handle EXCEPT ![t] = disk[identity[t]]]
  /\ UNCHANGED <<identity, stamp, index, awaits, result>>
  /\ UNCHANGED files
  /\ UNCHANGED loader

TakeStamp(t) ==
  /\ pc[t] = "stamp"
  /\ pc' = [pc EXCEPT ![t] = "lookup"]
  /\ stamp' = [stamp EXCEPT ![t] = Stamp(handle[t])]
  /\ UNCHANGED <<identity, handle, index, awaits, result>>
  /\ UNCHANGED files
  /\ UNCHANGED loader

\* Open or Stamp throws; so may the reads of the resources, which also end
\* here when a requested name is missing, and the allocations of IndexGet
\* before this thread owns a validation.
RequestFails(t) ==
  /\ \/ pc[t] \in {"open", "stamp", "read"}
     \/ MemoryFaults /\ pc[t] \in {"lookup", "decide"}
  /\ Return(t)
  /\ UNCHANGED files
  /\ UNCHANGED loader

----------------------------------------------------------------------------
(* IndexGet: the two lookups. *)

\* Mutant: a remembered description is used whatever version it is of.
AnyVersion(t) == remembered[identity[t]] # NoIndex

\* The remembered description is of the version this thread opened.
Known(t) ==
  /\ remembered[identity[t]] # NoIndex
  /\ remembered[identity[t]].stamp = stamp[t]

Found(t, where) ==
  /\ pc[t] = where
  /\ Known(t)
  /\ pc' = [pc EXCEPT ![t] = "read"]
  /\ index' = [index EXCEPT ![t] = remembered[identity[t]]]
  /\ UNCHANGED <<identity, handle, stamp, awaits, result>>
  /\ UNCHANGED files
  /\ UNCHANGED loader

\* Under the shared lock, then again under the unique lock.
FoundOnFirstLook(t) == Found(t, "lookup")
FoundOnSecondLook(t) == Found(t, "decide")

MissedOnFirstLook(t) ==
  /\ pc[t] = "lookup"
  /\ ~Known(t)
  /\ Goto(t, "decide")
  /\ UNCHANGED files
  /\ UNCHANGED loader

\* Mutant: the second lookup is left out.
NoSecondLook(t) == pc[t] = "decide"

Undecided(t) == pc[t] = "decide" /\ ~Known(t)

\* A validation of the same version is under way.
SameFlight(t) ==
  /\ in_flight[identity[t]] # NoFlight
  /\ in_flight[identity[t]].stamp = stamp[t]

\* Share its outcome.  A broken promise is ready at once.
Join(t) ==
  LET flight == in_flight[identity[t]] IN
  /\ Undecided(t)
  /\ SameFlight(t)
  /\ pc' = [pc EXCEPT ![t] = "wait"]
  /\ awaits' = [awaits EXCEPT ![t] = IF flight.broken THEN NoThread ELSE flight.by]
  /\ result' = [result EXCEPT ![t] = IF flight.broken THEN "broken" ELSE @]
  /\ UNCHANGED <<identity, handle, stamp, index>>
  /\ UNCHANGED files
  /\ UNCHANGED loader

\* Become the owner, in place of whatever in_flight says of other versions.
Own(t) ==
  /\ Undecided(t)
  /\ ~SameFlight(t)
  /\ in_flight' = [in_flight EXCEPT ![identity[t]] =
                     [by |-> t, stamp |-> stamp[t], broken |-> FALSE]]
  /\ Goto(t, "validate")
  /\ UNCHANGED <<remembered, checks>>
  /\ UNCHANGED files

----------------------------------------------------------------------------
(* IndexGet: the owner. *)

\* PakIndexRead takes a stamp of its own ...
ValidateStamp(t) ==
  /\ pc[t] = "validate"
  /\ pc' = [pc EXCEPT ![t] = "describe"]
  /\ index' = [index EXCEPT ![t] = [stamp |-> Stamp(handle[t]), layout |-> 0]]
  /\ UNCHANGED <<identity, handle, stamp, awaits, result>>
  /\ UNCHANGED files
  /\ UNCHANGED loader

\* ... and reads the description, of the version that is there by then.
ValidateDescription(t) ==
  /\ pc[t] = "describe"
  /\ pc' = [pc EXCEPT ![t] = "publish"]
  /\ index' = [index EXCEPT ![t].layout = content[handle[t]]]
  /\ result' = [result EXCEPT ![t] = "ok"]
  /\ UNCHANGED <<identity, handle, stamp, awaits>>
  /\ UNCHANGED files
  /\ UNCHANGED loader

\* A rule is broken, the file changed in between, or a read failed.
ValidateFails(t) ==
  /\ pc[t] \in {"validate", "describe"}
  /\ pc' = [pc EXCEPT ![t] = "publish"]
  /\ index' = [index EXCEPT ![t] = NoIndex]
  /\ result' = [result EXCEPT ![t] = "failed"]
  /\ UNCHANGED <<identity, handle, stamp, awaits>>
  /\ UNCHANGED files
  /\ UNCHANGED loader

\* Mutant: the record is erased only if the validation succeeded.
EraseOnSuccess(t) ==
  IF in_flight[identity[t]].stamp = stamp[t] /\ result[t] = "ok"
    THEN NoFlight
    ELSE in_flight[identity[t]]

\* What becomes of the record: erased if it is for the version this thread
\* validated.
Erase(t) ==
  IF in_flight[identity[t]].stamp = stamp[t]
    THEN NoFlight
    ELSE in_flight[identity[t]]

\* One more description of version v was stored; counted up to Many.
Stored(i, v) ==
  [checks EXCEPT ![i][v] = IF @ < Many THEN @ + 1 ELSE @]

\* Under the unique lock: keep a sound description, erase the record.
Publish(t) ==
  /\ pc[t] = "publish"
  /\ in_flight' = [in_flight EXCEPT ![identity[t]] = Erase(t)]
  /\ \/ /\ result[t] = "ok"
        /\ remembered' = [remembered EXCEPT ![identity[t]] = index[t]]
        /\ checks' = Stored(identity[t], index[t].stamp.version)
     \/ /\ result[t] = "failed"
        /\ UNCHANGED <<remembered, checks>>
  /\ Goto(t, "set")
  /\ UNCHANGED files

\* Storing the description, or keeping the text of the error, throws: the
\* record stays and the promise will be destroyed.
StoreThrows(t) ==
  /\ MemoryFaults
  /\ pc[t] = "publish"
  /\ result[t] = "ok" => remembered[identity[t]] = NoIndex
  /\ pc' = [pc EXCEPT ![t] = "set"]
  /\ index' = [index EXCEPT ![t] = NoIndex]
  /\ result' = [result EXCEPT ![t] = "broken"]
  /\ UNCHANGED <<identity, handle, stamp, awaits>>
  /\ UNCHANGED files
  /\ UNCHANGED loader

\* Copying the text of the error into the promise throws after the record was
\* erased: the promise will be destroyed.
SetThrows(t) ==
  /\ MemoryFaults
  /\ pc[t] = "set"
  /\ result[t] = "failed"
  /\ result' = [result EXCEPT ![t] = "broken"]
  /\ UNCHANGED <<pc, identity, handle, stamp, index, awaits>>
  /\ UNCHANGED files
  /\ UNCHANGED loader

\* Mutant: the outcome is not given to the waiters.
Nobody(t) == {}

\* The threads whose future belongs to t's promise.
Waiters(t) == {u \in Threads : awaits[u] = t}

\* promise.set_value, or the destruction of a promise that was never set; the
\* owner goes on to its own copy of the outcome.
SetValue(t) ==
  /\ pc[t] = "set"
  /\ pc' = [pc EXCEPT ![t] = "outcome"]
  /\ index' = [u \in Threads |-> IF u \in Waiters(t) THEN index[t] ELSE index[u]]
  /\ result' = [u \in Threads |-> IF u \in Waiters(t) THEN result[t] ELSE result[u]]
  /\ awaits' = [u \in Threads |-> IF u \in Waiters(t) THEN NoThread ELSE awaits[u]]
  /\ in_flight' = IF result[t] = "broken" /\ in_flight[identity[t]].by = t
                    THEN [in_flight EXCEPT ![identity[t]].broken = TRUE]
                    ELSE in_flight
  /\ UNCHANGED <<remembered, checks, identity, handle, stamp>>
  /\ UNCHANGED files

\* future.get() returns.
WaitEnds(t) ==
  /\ pc[t] = "wait"
  /\ awaits[t] = NoThread
  /\ Goto(t, "outcome")
  /\ UNCHANGED files
  /\ UNCHANGED loader

\* An outcome with a description: Request reads the resources with it.
Succeed(t) ==
  /\ pc[t] = "outcome"
  /\ result[t] = "ok"
  /\ Goto(t, "read")
  /\ UNCHANGED files
  /\ UNCHANGED loader

\* A failed outcome, or the exception of a broken promise.
Throw(t) ==
  /\ pc[t] = "outcome"
  /\ result[t] # "ok"
  /\ Return(t)
  /\ UNCHANGED files
  /\ UNCHANGED loader

\* Every resource wanted was read; the file is closed.
ReadEnds(t) ==
  /\ pc[t] = "read"
  /\ Return(t)
  /\ UNCHANGED files
  /\ UNCHANGED loader

----------------------------------------------------------------------------
(* The specification. *)

Proceed(t) ==
  \/ Open(t) \/ TakeStamp(t) \/ RequestFails(t)
  \/ FoundOnFirstLook(t) \/ MissedOnFirstLook(t) \/ FoundOnSecondLook(t)
  \/ Join(t) \/ Own(t)
  \/ ValidateStamp(t) \/ ValidateDescription(t) \/ ValidateFails(t)
  \/ Publish(t) \/ StoreThrows(t) \/ SetThrows(t) \/ SetValue(t) \/ WaitEnds(t)
  \/ Succeed(t) \/ Throw(t) \/ ReadEnds(t)

Next ==
  \/ \E i \in Identities : Replace(i) \/ Rewrite(i)
  \/ \E t \in Threads : Proceed(t) \/ \E i \in Identities : Request(t, i)

Spec == Init /\ [][Next]_vars

----------------------------------------------------------------------------
(* Properties. *)

\* Every variable has its type.
TypeOK ==
  /\ disk \in [Identities -> Versions]
  /\ content \in [Versions -> Versions]
  /\ latest \in Versions
  /\ remembered \in [Identities -> Indexes \cup {NoIndex}]
  /\ in_flight \in [Identities -> InFlight]
  /\ pc \in [Threads -> States]
  /\ identity \in [Threads -> Identities]
  /\ handle \in [Threads -> Versions]
  /\ stamp \in [Threads -> Stamps]
  /\ index \in [Threads -> Indexes \cup {NoIndex}]
  /\ awaits \in [Threads -> Threads \cup {NoThread}]
  /\ result \in [Threads -> Results]
  /\ checks \in [Identities -> [Versions -> 0..Many]]

\* "A request sees the one version of the file it opened": whoever read the
\* description a request uses, and whatever the path leads to by now, it is of
\* the file the request has open, and of the very version the request stamped
\* unless that file was rewritten in place since.
SeesOpenedFile ==
  \A t \in Threads : pc[t] = "read" =>
    /\ index[t].stamp.file = handle[t]
    /\ content[handle[t]] = stamp[t].version => index[t].layout = stamp[t].version

\* No wake-up is lost: a request blocked on a future waits for a thread that is
\* on its way to set that promise, for the same version of the same pak, also
\* after the record both found in in_flight was overwritten.
WaiterHasOwner ==
  \A u \in Threads : awaits[u] # NoThread =>
    /\ pc[awaits[u]] \in Validating \cup {"set"}
    /\ identity[awaits[u]] = identity[u]
    /\ stamp[awaits[u]] = stamp[u]

\* A record in in_flight belongs to a validation of its version that is running,
\* or its promise was destroyed and it can only deliver an error.
OrphanIsBroken ==
  \A i \in Identities : in_flight[i] # NoFlight =>
    LET t == in_flight[i].by IN
    \/ in_flight[i].broken
    \/ /\ identity[t] = i
       /\ stamp[t] = in_flight[i].stamp
       /\ pc[t] \in Validating \/ (pc[t] = "set" /\ result[t] = "broken")

\* "Concurrent requests for one unchanged file check its description once and
\* share the result": while nobody touches the file, one thread at a time
\* validates it, and none after its description was stored.
UnchangedCheckedOnce ==
  \A i \in Identities : disk[i] = 0 /\ content[0] = 0 =>
    /\ checks[i][0] <= 1
    /\ \A t, u \in Threads :
         /\ pc[t] \in Validating /\ identity[t] = i
         /\ pc[u] \in Validating /\ identity[u] = i
         => t = u
=============================================================================
