---------------------------- MODULE PluginCache ----------------------------
(***************************************************************************)
(* The cache behind ComponentLoader and SystemLoader                       *)
(* (src/internal/PluginCache.hpp): any number of threads request plugins   *)
(* by name, one of them loads a name and the others wait for its result,   *)
(* and PathAdd changes the search locations while loads are running.       *)
(*                                                                         *)
(* A critical section of `mutex` contains no blocking call, so each one is *)
(* one atomic step here.  `open_mutex` is held across OpenPinned, which    *)
(* runs foreign code, and is therefore a variable.  PathAdd only appends,  *)
(* so a snapshot of the search list is its number of configured locations  *)
(* (the code's configured_count).  The file system is external: a search   *)
(* may find any file or none, an open may fail.                            *)
(***************************************************************************)
EXTENDS Naturals

CONSTANTS
  Threads,       \* threads that call the loader
  Names,         \* plugin names that NameParser accepts
  Files,         \* identities (canonical paths) a search can end at
  NoThread,      \* nobody
  NoFile,        \* no file
  MaxPaths,      \* bound on the number of PathAdd calls
  MaxLost,       \* bound on the opens of one file that are not recorded
  MemoryFaults   \* whether an allocation may throw std::bad_alloc

ASSUME NoThreadAssumption == NoThread \notin Threads
ASSUME NoFileAssumption == NoFile \notin Files
ASSUME MaxPathsAssumption == MaxPaths \in Nat
ASSUME MaxLostAssumption == MaxLost \in Nat
ASSUME MemoryFaultsAssumption == MemoryFaults \in BOOLEAN

VARIABLES
  paths,       \* number of configured locations
  version,     \* counts the changes to `paths`
  entries,     \* per name: the remembered load, or None
  in_flight,   \* per name: the load that is running, or NoFlight
  open_mutex,  \* the thread that holds it, or NoThread
  libraries,   \* per identity: the pinned handle, or NoHandle
  opened,      \* history, per identity: how often OpenPinned opened it
  lost,        \* history, per identity: opens that `libraries` has no record of
  pc,          \* per thread: where it is in Get
  name,        \* per thread: the name it asked for
  owed,        \* per thread: locations a search for its request must include
  locations,   \* per thread: size of the snapshot its own load searches
  file,        \* per thread: what its search found
  awaits,      \* per thread: whose promise its future belongs to
  outcome      \* per thread: what its load or its request ended with

cache == <<paths, version, entries, in_flight, open_mutex, libraries, opened, lost>>
locals == <<pc, name, owed, locations, file, awaits, outcome>>
vars == <<paths, version, entries, in_flight, open_mutex, libraries, opened, lost,
          pc, name, owed, locations, file, awaits, outcome>>

----------------------------------------------------------------------------
(* Values. *)

\* Where a call of Get can be.  The owner of a load goes from "search" to
\* "set"; every other request stays with the rest.
Loading == {"search", "lock", "open", "symbol", "publish", "fail"}
States == {"idle", "lookup", "decide", "join", "drain", "set"} \cup Loading

\* Errors no search stands behind: a promise destroyed unset, an allocation of
\* Get itself.
Searchless == {"Broken", "NoMemory"}
\* A load fails with a LoadError, which is copied to be handed on (its reasons
\* NotFound, NotLoadable and EntryPointMissing are treated alike), or with some
\* other exception, which is shared.
Reasons == {"LoadError", "Other"} \cup Searchless

\* Outcome of the code: an entry or an error; `searched` is the number of
\* configured locations the load looked at.
Outcome == [reason : Reasons \cup {"none", "ok"},
            file : Files \cup {NoFile},
            searched : Nat]

None == [reason |-> "none", file |-> NoFile, searched |-> 0]
Entries == [reason : {"ok"}, file : Files, searched : Nat]

Entry(f, n) == [reason |-> "ok", file |-> f, searched |-> n]
Error(why, n) == [reason |-> why, file |-> NoFile, searched |-> n]

\* InFlight: the future (named by the thread that holds its promise, with
\* `broken` once that promise was destroyed unset) and the settings' version.
InFlight == [by : Threads \cup {NoThread}, version : Nat, broken : BOOLEAN]
NoFlight == [by |-> NoThread, version |-> 0, broken |-> FALSE]
BrokenPromise(flight) ==
  [by |-> flight.by, version |-> flight.version, broken |-> TRUE]

\* A handle is a pinned library that has the entry point or has not: the
\* file cannot change under a mapping that is never unmapped.
Handles == {"exports", "bare"}
NoHandle == "closed"

Init ==
  /\ paths = 0
  /\ version = 0
  /\ entries = [n \in Names |-> None]
  /\ in_flight = [n \in Names |-> NoFlight]
  /\ open_mutex = NoThread
  /\ libraries = [f \in Files |-> NoHandle]
  /\ opened = [f \in Files |-> 0]
  /\ lost = [f \in Files |-> 0]
  /\ pc = [t \in Threads |-> "idle"]
  /\ name \in [Threads -> Names]
  /\ owed = [t \in Threads |-> 0]
  /\ locations = [t \in Threads |-> 0]
  /\ file = [t \in Threads |-> NoFile]
  /\ awaits = [t \in Threads |-> NoThread]
  /\ outcome = [t \in Threads |-> None]

----------------------------------------------------------------------------
(* PathAdd and the entry of Get. *)

PathAdd ==
  /\ paths < MaxPaths
  /\ paths' = paths + 1
  /\ version' = version + 1
  /\ UNCHANGED <<entries, in_flight, open_mutex, libraries, opened, lost>>
  /\ UNCHANGED locals

\* A thread calls Create or Get with a name; NameParser accepted it.  `owed`
\* only serves the properties: the locations configured by now, unless the
\* name is remembered already and no search is due.
Request(t, n) ==
  /\ pc[t] = "idle"
  /\ pc' = [pc EXCEPT ![t] = "lookup"]
  /\ name' = [name EXCEPT ![t] = n]
  /\ owed' = [owed EXCEPT ![t] = IF entries[n] = None THEN paths ELSE 0]
  /\ outcome' = [outcome EXCEPT ![t] = None]
  /\ UNCHANGED <<locations, file, awaits>>
  /\ UNCHANGED cache

\* The call returns `o` (an entry) or throws it (an error).
Return(t, o) ==
  /\ pc' = [pc EXCEPT ![t] = "idle"]
  /\ outcome' = [outcome EXCEPT ![t] = o]
  /\ UNCHANGED <<name, owed, locations, file, awaits>>

----------------------------------------------------------------------------
(* The two lookups at the head of Get's loop. *)

\* Under the shared lock: a remembered entry is returned.
FoundOnFirstLook(t) ==
  /\ pc[t] = "lookup"
  /\ entries[name[t]] # None
  /\ Return(t, entries[name[t]])
  /\ UNCHANGED cache

MissedOnFirstLook(t) ==
  /\ pc[t] = "lookup"
  /\ entries[name[t]] = None
  /\ pc' = [pc EXCEPT ![t] = "decide"]
  /\ UNCHANGED <<name, owed, locations, file, awaits, outcome>>
  /\ UNCHANGED cache

\* Under the unique lock: the entry may have arrived in between.
FoundOnSecondLook(t) ==
  /\ pc[t] = "decide"
  /\ entries[name[t]] # None
  /\ Return(t, entries[name[t]])
  /\ UNCHANGED cache

\* Mutant: the second lookup under the unique lock is left out.
NoSecondLook(t) == pc[t] = "decide"

Undecided(t) ==
  /\ pc[t] = "decide"
  /\ entries[name[t]] = None

\* Mutant: a load in flight is shared whatever settings it started with.
AnySettings(flight) == TRUE

SameSettings(flight) == flight.version = version

\* Wait on the future of a load that is running, in state `where`.  A broken
\* promise is ready at once.
Wait(t, where) ==
  LET flight == in_flight[name[t]] IN
  /\ pc' = [pc EXCEPT ![t] = where]
  /\ awaits' = [awaits EXCEPT ![t] = IF flight.broken THEN NoThread ELSE flight.by]
  /\ outcome' = [outcome EXCEPT ![t] = IF flight.broken THEN Error("Broken", 0) ELSE @]
  /\ UNCHANGED <<name, owed, locations, file>>
  /\ UNCHANGED cache

\* A load with the same settings is running: share its result.
Join(t) ==
  /\ Undecided(t)
  /\ in_flight[name[t]] # NoFlight
  /\ SameSettings(in_flight[name[t]])
  /\ Wait(t, "join")

\* A load with older settings is running: let it finish, then look again.
Drain(t) ==
  /\ Undecided(t)
  /\ in_flight[name[t]] # NoFlight
  /\ ~SameSettings(in_flight[name[t]])
  /\ Wait(t, "drain")

\* Mutant: nobody looks for a running load of the name.
AnybodyMayLoad(t) == TRUE

NobodyLoads(t) == in_flight[name[t]] = NoFlight

\* Nobody loads the name: become its owner and snapshot the settings.
Own(t) ==
  /\ Undecided(t)
  /\ NobodyLoads(t)
  /\ pc' = [pc EXCEPT ![t] = "search"]
  /\ in_flight' = [in_flight EXCEPT ![name[t]] =
                     [by |-> t, version |-> version, broken |-> FALSE]]
  /\ locations' = [locations EXCEPT ![t] = paths]
  /\ UNCHANGED <<paths, version, entries, open_mutex, libraries, opened, lost>>
  /\ UNCHANGED <<name, owed, file, awaits, outcome>>

\* SearchListBuild throws after the record was put in in_flight: nothing
\* catches it inside Get, so the record stays and the promise is destroyed.
SnapshotThrows(t) ==
  /\ MemoryFaults
  /\ Undecided(t)
  /\ NobodyLoads(t)
  /\ pc' = [pc EXCEPT ![t] = "set"]
  /\ in_flight' = [in_flight EXCEPT ![name[t]] =
                     [by |-> t, version |-> version, broken |-> FALSE]]
  /\ outcome' = [outcome EXCEPT ![t] = Error("Broken", 0)]
  /\ UNCHANGED <<paths, version, entries, open_mutex, libraries, opened, lost>>
  /\ UNCHANGED <<name, owed, locations, file, awaits>>

----------------------------------------------------------------------------
(* The waiters. *)

\* Deliver(pending.get()): return or throw what the load ended with.
JoinDelivers(t) ==
  /\ pc[t] = "join"
  /\ awaits[t] = NoThread
  /\ Return(t, outcome[t])
  /\ UNCHANGED cache

\* pending.wait() is over and the loop starts again.
DrainLoops(t) ==
  /\ pc[t] = "drain"
  /\ awaits[t] = NoThread
  /\ pc' = [pc EXCEPT ![t] = "lookup"]
  /\ outcome' = [outcome EXCEPT ![t] = None]
  /\ UNCHANGED <<name, owed, locations, file, awaits>>
  /\ UNCHANGED cache

\* An allocation of Get itself throws (the promise, the copy of an entry or of
\* an error) before this request owns a load.
GetThrows(t) ==
  /\ MemoryFaults
  /\ pc[t] \in {"lookup", "decide"} \/ (pc[t] = "join" /\ awaits[t] = NoThread)
  /\ Return(t, Error("NoMemory", 0))
  /\ UNCHANGED cache

----------------------------------------------------------------------------
(* The owner: Load, without `mutex`. *)

\* The load throws: Load's locals are gone, the error says why.
FailWith(t, why) ==
  /\ pc' = [pc EXCEPT ![t] = "fail"]
  /\ outcome' = [outcome EXCEPT ![t] = Error(why, locations[t])]
  /\ locations' = [locations EXCEPT ![t] = 0]
  /\ file' = [file EXCEPT ![t] = NoFile]
  /\ UNCHANGED <<name, owed, awaits>>

SearchFinds(t, f) ==
  /\ pc[t] = "search"
  /\ pc' = [pc EXCEPT ![t] = "lock"]
  /\ file' = [file EXCEPT ![t] = f]
  /\ UNCHANGED <<name, owed, locations, awaits, outcome>>
  /\ UNCHANGED cache

SearchMisses(t) ==
  /\ pc[t] = "search"
  /\ FailWith(t, "LoadError")
  /\ UNCHANGED cache

\* The identity is open already: use its handle.
OpenKnown(t) ==
  /\ pc[t] = "lock"
  /\ open_mutex = NoThread
  /\ libraries[file[t]] # NoHandle
  /\ pc' = [pc EXCEPT ![t] = "symbol"]
  /\ UNCHANGED <<name, owed, locations, file, awaits, outcome>>
  /\ UNCHANGED cache

\* Mutant: open_mutex does not keep a second opener out.
OpenUnserialised(t) ==
  /\ pc[t] = "lock"
  /\ libraries[file[t]] = NoHandle
  /\ pc' = [pc EXCEPT ![t] = "open"]
  /\ open_mutex' = t
  /\ UNCHANGED <<name, owed, locations, file, awaits, outcome>>
  /\ UNCHANGED <<paths, version, entries, in_flight, libraries, opened, lost>>

\* The identity is new: hold open_mutex while OpenPinned runs.
OpenBegin(t) ==
  /\ pc[t] = "lock"
  /\ open_mutex = NoThread
  /\ libraries[file[t]] = NoHandle
  /\ pc' = [pc EXCEPT ![t] = "open"]
  /\ open_mutex' = t
  /\ UNCHANGED <<name, owed, locations, file, awaits, outcome>>
  /\ UNCHANGED <<paths, version, entries, in_flight, libraries, opened, lost>>

\* OpenPinned returned a handle; it is kept for the life of the cache.
OpenSucceeds(t, h) ==
  /\ pc[t] = "open"
  /\ libraries' = [libraries EXCEPT ![file[t]] = h]
  /\ opened' = [opened EXCEPT ![file[t]] = @ + 1]
  /\ open_mutex' = NoThread
  /\ pc' = [pc EXCEPT ![t] = "symbol"]
  /\ UNCHANGED <<name, owed, locations, file, awaits, outcome>>
  /\ UNCHANGED <<paths, version, entries, in_flight, lost>>

\* Mutant: the error path leaves open_mutex locked.
OpenFailsLocked(t, why) ==
  /\ pc[t] = "open"
  /\ why = "Other" => MemoryFaults
  /\ FailWith(t, why)
  /\ UNCHANGED cache

\* OpenPinned opened nothing, or (with `why` = "Other") an allocation threw on
\* the way to saying so; the lock_guard lets open_mutex go either way.
OpenFails(t, why) ==
  /\ pc[t] = "open"
  /\ why = "Other" => MemoryFaults
  /\ open_mutex' = NoThread
  /\ FailWith(t, why)
  /\ UNCHANGED <<paths, version, entries, in_flight, libraries, opened, lost>>

\* OpenPinned returned a handle and recording it threw: the file is open for
\* the rest of the process and the cache does not know.
RecordThrows(t) ==
  /\ MemoryFaults
  /\ pc[t] = "open"
  /\ lost[file[t]] < MaxLost
  /\ opened' = [opened EXCEPT ![file[t]] = @ + 1]
  /\ lost' = [lost EXCEPT ![file[t]] = @ + 1]
  /\ open_mutex' = NoThread
  /\ FailWith(t, "Other")
  /\ UNCHANGED <<paths, version, entries, in_flight, libraries>>

SymbolFound(t) ==
  /\ pc[t] = "symbol"
  /\ libraries[file[t]] = "exports"
  /\ pc' = [pc EXCEPT ![t] = "publish"]
  /\ outcome' = [outcome EXCEPT ![t] = Entry(file[t], locations[t])]
  /\ locations' = [locations EXCEPT ![t] = 0]
  /\ file' = [file EXCEPT ![t] = NoFile]
  /\ UNCHANGED <<name, owed, awaits>>
  /\ UNCHANGED cache

SymbolMissing(t) ==
  /\ pc[t] = "symbol"
  /\ libraries[file[t]] # "exports"
  /\ FailWith(t, "LoadError")
  /\ UNCHANGED cache

\* An allocation throws somewhere else in Load, if in the look at `libraries`
\* then with open_mutex held for that step only.
LoadThrows(t) ==
  /\ MemoryFaults
  /\ pc[t] \in {"search", "lock", "symbol"}
  /\ pc[t] = "lock" => open_mutex = NoThread
  /\ FailWith(t, "Other")
  /\ UNCHANGED cache

\* Storing the entry throws and the load has failed.  If its place in `entries`
\* could not be allocated nothing was stored; if copying its file text threw,
\* the creator already is.
PublishThrows(t) ==
  /\ MemoryFaults
  /\ pc[t] = "publish"
  /\ entries' \in {entries, [entries EXCEPT ![name[t]] = outcome[t]]}
  /\ pc' = [pc EXCEPT ![t] = "fail"]
  /\ outcome' = [outcome EXCEPT ![t] = Error("Other", outcome[t].searched)]
  /\ UNCHANGED <<name, owed, locations, file, awaits>>
  /\ UNCHANGED <<paths, version, in_flight, open_mutex, libraries, opened, lost>>

----------------------------------------------------------------------------
(* The owner: publishing what Load ended with. *)

\* Mutant: the record is erased but the entry is not stored.
PublishWithoutEntry(t) ==
  /\ pc[t] = "publish"
  /\ in_flight' = [in_flight EXCEPT ![name[t]] = NoFlight]
  /\ pc' = [pc EXCEPT ![t] = "set"]
  /\ UNCHANGED <<name, owed, locations, file, awaits, outcome>>
  /\ UNCHANGED <<paths, version, entries, open_mutex, libraries, opened, lost>>

\* Under the unique lock: store the entry and erase the record together.
Publish(t) ==
  /\ pc[t] = "publish"
  /\ entries' = [entries EXCEPT ![name[t]] = outcome[t]]
  /\ in_flight' = [in_flight EXCEPT ![name[t]] = NoFlight]
  /\ pc' = [pc EXCEPT ![t] = "set"]
  /\ UNCHANGED <<name, owed, locations, file, awaits, outcome>>
  /\ UNCHANGED <<paths, version, open_mutex, libraries, opened, lost>>

\* Mutant: Fail leaves the record in in_flight.
FailKeepsRecord(t) ==
  /\ pc[t] = "fail"
  /\ pc' = [pc EXCEPT ![t] = "set"]
  /\ UNCHANGED <<name, owed, locations, file, awaits, outcome>>
  /\ UNCHANGED cache

\* Mutant: Fail stores the failure for later requests.
FailRemembers(t) ==
  /\ pc[t] = "fail"
  /\ entries' = [entries EXCEPT ![name[t]] = outcome[t]]
  /\ in_flight' = [in_flight EXCEPT ![name[t]] = NoFlight]
  /\ pc' = [pc EXCEPT ![t] = "set"]
  /\ UNCHANGED <<name, owed, locations, file, awaits, outcome>>
  /\ UNCHANGED <<paths, version, open_mutex, libraries, opened, lost>>

\* Fail, under the unique lock: erase the record; nothing is remembered.
Fail(t) ==
  /\ pc[t] = "fail"
  /\ in_flight' = [in_flight EXCEPT ![name[t]] = NoFlight]
  /\ pc' = [pc EXCEPT ![t] = "set"]
  /\ UNCHANGED <<name, owed, locations, file, awaits, outcome>>
  /\ UNCHANGED <<paths, version, entries, open_mutex, libraries, opened, lost>>

\* Copying the LoadError for Fail throws inside the handler, before Fail runs:
\* the record stays and the promise is destroyed.
FailThrows(t) ==
  /\ MemoryFaults
  /\ pc[t] = "fail"
  /\ outcome[t].reason = "LoadError"
  /\ pc' = [pc EXCEPT ![t] = "set"]
  /\ outcome' = [outcome EXCEPT ![t] = Error("Broken", 0)]
  /\ UNCHANGED <<name, owed, locations, file, awaits>>
  /\ UNCHANGED cache

\* Copying the entry for the waiters throws after it was published: Fail runs
\* (there is no record left to erase) and the waiters get the error.
AnswerThrows(t) ==
  /\ MemoryFaults
  /\ pc[t] = "set"
  /\ outcome[t].reason = "ok"
  /\ in_flight' = [in_flight EXCEPT ![name[t]] = NoFlight]
  /\ outcome' = [outcome EXCEPT ![t] = Error("Other", outcome[t].searched)]
  /\ UNCHANGED <<pc, name, owed, locations, file, awaits>>
  /\ UNCHANGED <<paths, version, entries, open_mutex, libraries, opened, lost>>

\* Copying the LoadError into the Outcome or into the promise throws after Fail
\* erased the record: the promise is destroyed with nothing left of the load.
OutcomeThrows(t) ==
  /\ MemoryFaults
  /\ pc[t] = "set"
  /\ outcome[t].reason = "LoadError"
  /\ outcome' = [outcome EXCEPT ![t] = Error("Broken", 0)]
  /\ UNCHANGED <<pc, name, owed, locations, file, awaits>>
  /\ UNCHANGED cache

\* The waiters get what the load ended with and the owner's call ends with `own`.
Settle(t, own) ==
  /\ pc' = [pc EXCEPT ![t] = "idle"]
  /\ outcome' = [u \in Threads |-> IF u = t THEN own
                                   ELSE IF awaits[u] = t THEN outcome[t] ELSE outcome[u]]
  /\ awaits' = [u \in Threads |-> IF awaits[u] = t THEN NoThread ELSE awaits[u]]
  /\ UNCHANGED <<name, owed, locations, file>>

\* Mutant: the owner returns without setting its promise.
SetNobody(t) ==
  /\ pc[t] = "set"
  /\ outcome[t].reason # "Broken"
  /\ pc' = [pc EXCEPT ![t] = "idle"]
  /\ UNCHANGED <<name, owed, locations, file, awaits, outcome>>
  /\ UNCHANGED cache

\* promise.set_value, and the owner's own return or throw.
SetValue(t) ==
  /\ pc[t] = "set"
  /\ outcome[t].reason # "Broken"
  /\ Settle(t, outcome[t])
  /\ UNCHANGED cache

\* The waiters have the LoadError and the owner's own copy of it throws.
RethrowThrows(t) ==
  /\ MemoryFaults
  /\ pc[t] = "set"
  /\ outcome[t].reason = "LoadError"
  /\ Settle(t, Error("NoMemory", 0))
  /\ UNCHANGED cache

\* The owner leaves Get with std::bad_alloc and its promise is destroyed unset:
\* the waiters, and the record if it is still there, are left with a broken one.
PromiseDestroyed(t) ==
  /\ pc[t] = "set"
  /\ outcome[t].reason = "Broken"
  /\ Settle(t, Error("NoMemory", 0))
  /\ in_flight' = IF in_flight[name[t]].by = t
                    THEN [in_flight EXCEPT ![name[t]] = BrokenPromise(@)]
                    ELSE in_flight
  /\ UNCHANGED <<paths, version, entries, open_mutex, libraries, opened, lost>>

----------------------------------------------------------------------------
(* The specification. *)

\* What thread t does on its own once its request has begun.
Proceed(t) ==
  \/ FoundOnFirstLook(t) \/ MissedOnFirstLook(t) \/ FoundOnSecondLook(t)
  \/ Join(t) \/ Drain(t) \/ Own(t) \/ SnapshotThrows(t)
  \/ JoinDelivers(t) \/ DrainLoops(t) \/ GetThrows(t)
  \/ \E f \in Files : SearchFinds(t, f)
  \/ SearchMisses(t)
  \/ OpenKnown(t) \/ OpenBegin(t)
  \/ \E h \in Handles : OpenSucceeds(t, h)
  \/ \E why \in {"LoadError", "Other"} : OpenFails(t, why)
  \/ RecordThrows(t)
  \/ SymbolFound(t) \/ SymbolMissing(t) \/ LoadThrows(t)
  \/ Publish(t) \/ PublishThrows(t) \/ Fail(t) \/ FailThrows(t)
  \/ AnswerThrows(t) \/ OutcomeThrows(t)
  \/ SetValue(t) \/ RethrowThrows(t) \/ PromiseDestroyed(t)

Next ==
  \/ PathAdd
  \/ \E t \in Threads : Proceed(t) \/ \E n \in Names : Request(t, n)

Spec == Init /\ [][Next]_vars

\* A thread that can take its next step takes it; a thread that keeps asking
\* for open_mutex gets it in the end.
Fairness ==
  \A t \in Threads :
    /\ WF_vars(Proceed(t))
    /\ SF_vars(OpenKnown(t) \/ OpenBegin(t))

FairSpec == Spec /\ Fairness

----------------------------------------------------------------------------
(* Properties. *)

\* Every variable has its type; in particular `entries` remembers successes
\* only, never a failure.
TypeOK ==
  /\ paths \in Nat
  /\ version \in Nat
  /\ entries \in [Names -> Entries \cup {None}]
  /\ in_flight \in [Names -> InFlight]
  /\ open_mutex \in Threads \cup {NoThread}
  /\ libraries \in [Files -> Handles \cup {NoHandle}]
  /\ opened \in [Files -> Nat]
  /\ lost \in [Files -> Nat]
  /\ pc \in [Threads -> States]
  /\ name \in [Threads -> Names]
  /\ owed \in [Threads -> Nat]
  /\ locations \in [Threads -> Nat]
  /\ file \in [Threads -> Files \cup {NoFile}]
  /\ awaits \in [Threads -> Threads \cup {NoThread}]
  /\ outcome \in [Threads -> Outcome]

\* "The first caller for a name does the work, every other caller for that
\* name waits": two threads never load one name at the same time, and none
\* loads a name that is remembered.
OneLoadPerName ==
  \A t \in Threads : pc[t] \in Loading =>
    /\ pc[t] # "fail" => entries[name[t]] = None
    /\ \A u \in Threads : pc[u] \in Loading /\ name[u] = name[t] => u = t

\* No wake-up is lost: a request that is blocked on a future waits for a
\* thread that is still on its way to set that promise, for the same name.
WaiterHasOwner ==
  \A u \in Threads : awaits[u] # NoThread =>
    /\ pc[awaits[u]] \in Loading \cup {"set"}
    /\ name[awaits[u]] = name[u]
    /\ awaits[awaits[u]] = NoThread

\* What holds of in_flight even when an allocation of Get can throw: a record
\* that no load stands behind is one whose promise was destroyed, and it can
\* only deliver an error, never hang its waiters.
OrphanIsBroken ==
  \A n \in Names : in_flight[n] # NoFlight =>
    LET t == in_flight[n].by IN
    \/ in_flight[n].broken
    \/ /\ name[t] = n
       /\ pc[t] \in Loading \/ (pc[t] = "set" /\ outcome[t].reason = "Broken")

\* "A plugin file is opened once per cache however many names resolve to it":
\* OpenPinned opens no file twice.  It holds as long as no allocation fails.
OpenedOnce == \A f \in Files : opened[f] <= 1

\* What holds of the opens even when an allocation can throw: OpenPinned opens a
\* file again only if an earlier open of it could not be recorded, and never one
\* that is recorded, whichever names and threads meet at the file.
OpensAccounted ==
  \A f \in Files : opened[f] = lost[f] + (IF libraries[f] = NoHandle THEN 0 ELSE 1)

\* "Concurrent requests for one name ... get the same result": a request that
\* returned an entry returned the one that is remembered for its name.
ReturnsRemembered ==
  \A t \in Threads : pc[t] = "idle" /\ outcome[t].reason = "ok" =>
    outcome[t] = entries[name[t]]

\* A request that failed was failed by a search that included every location
\* configured before the request began (the version check in Get), unless no
\* search stands behind the error at all.
FailureSawLocations ==
  \A t \in Threads :
    pc[t] = "idle" /\ outcome[t].reason \in Reasons \ Searchless =>
      owed[t] <= outcome[t].searched

\* An entry and a pinned library stay as they are for the life of the cache:
\* creators handed out stay valid and every later request agrees.
RememberedForGood ==
  [][/\ \A n \in Names : entries[n] # None => entries'[n] = entries[n]
     /\ \A f \in Files : libraries[f] # NoHandle => libraries'[f] = libraries[f]]_vars

\* Every request returns or throws in the end, whether it loads, shares a load
\* or has to wait for an older one and look again (no allocation fails).
RequestsReturn ==
  \A t \in Threads : pc[t] = "lookup" ~> pc[t] = "idle"

----------------------------------------------------------------------------
(* What the documentation says and the code does not do. *)

\* "A failure is delivered to every waiter and is not remembered": a record of
\* a running load goes away in the end.
FlightsEnd ==
  \A n \in Names : in_flight[n] # NoFlight ~> in_flight[n] = NoFlight
=============================================================================
