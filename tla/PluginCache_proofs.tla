------------------------- MODULE PluginCache_proofs -------------------------
(***************************************************************************)
(* Theorems about PluginCache, for every number of threads, names, files   *)
(* and PathAdd calls, with allocation failures allowed.  The invariants of *)
(* PluginCache are not inductive as they stand; Inv is.                    *)
(***************************************************************************)
EXTENDS PluginCache, TLAPS

----------------------------------------------------------------------------
(* The inductive invariant. *)

\* Locals of Get hold what their place in it says: a file once the search
\* succeeded, an entry when it is about to be published.
LocalsInv ==
  \A t \in Threads :
    /\ pc[t] \in {"lock", "open", "symbol"} => file[t] \in Files
    /\ outcome[t].reason = "ok" => outcome[t] \in Entries
    /\ pc[t] = "publish" => outcome[t].reason = "ok"
    /\ pc[t] = "fail" => outcome[t].reason \in Reasons \ Searchless

\* A thread about to leave Get whose promise will be destroyed unset.
Abandoning(t) == pc[t] = "set" /\ outcome[t].reason = "Broken"

\* in_flight and the threads that load agree: a loading thread owns the record
\* of its name, a record not yet broken belongs to such a thread or to one that
\* is giving up, and a name with a record is not remembered, but for a load
\* whose entry could not be stored whole.
OwnerInv ==
  /\ \A t \in Threads : pc[t] \in Loading =>
       /\ in_flight[name[t]].by = t
       /\ ~in_flight[name[t]].broken
  /\ \A n \in Names : in_flight[n] # NoFlight =>
       /\ in_flight[n].by \in Threads
       /\ \/ entries[n] = None
          \/ /\ ~in_flight[n].broken
             /\ pc[in_flight[n].by] = "fail"
             /\ outcome[in_flight[n].by].reason = "Other"
  /\ \A n \in Names : in_flight[n] # NoFlight /\ ~in_flight[n].broken =>
       /\ name[in_flight[n].by] = n
       /\ pc[in_flight[n].by] \in Loading \/ Abandoning(in_flight[n].by)
  /\ \A t \in Threads : pc[t] = "set" /\ outcome[t].reason = "ok" =>
       in_flight[name[t]] = NoFlight

\* Only waiting threads hold a future, and its promise is still to be set.
WaitInv ==
  \A u \in Threads : awaits[u] # NoThread =>
    /\ pc[u] \in {"join", "drain"}
    /\ pc[awaits[u]] \in Loading \cup {"set"}
    /\ name[awaits[u]] = name[u]

\* The thread inside OpenPinned holds open_mutex and opens something new.
OpenInv ==
  \A t \in Threads : pc[t] = "open" =>
    /\ open_mutex = t
    /\ libraries[file[t]] = NoHandle

\* An entry in anybody's hands, except the one about to be published, is the
\* remembered one.
RememberInv ==
  \A t \in Threads : pc[t] # "publish" /\ outcome[t].reason = "ok" =>
    outcome[t] = entries[name[t]]

\* The number of configured locations behind the load of thread t.
Searched(t) ==
  IF pc[t] \in {"search", "lock", "open", "symbol"}
    THEN locations[t]
    ELSE outcome[t].searched

\* Versions count locations; a load covers what its owner and everyone sharing
\* it is owed, and so does every failure that was delivered.
SearchInv ==
  /\ version = paths
  /\ \A t \in Threads :
       /\ owed[t] <= paths
       /\ pc[t] \in Loading =>
            /\ in_flight[name[t]].version = Searched(t)
            /\ owed[t] <= Searched(t)
       /\ pc[t] = "set" /\ outcome[t].reason # "Broken" =>
            owed[t] <= outcome[t].searched
       /\ pc[t] = "join" /\ awaits[t] # NoThread =>
            \/ owed[t] <= Searched(awaits[t])
            \/ Abandoning(awaits[t])
       /\ pc[t] \in {"join", "idle"} /\ awaits[t] = NoThread
            /\ outcome[t].reason \in Reasons \ Searchless =>
              owed[t] <= outcome[t].searched

\* All of it.
Inv ==
  /\ TypeOK
  /\ LocalsInv
  /\ OwnerInv
  /\ WaitInv
  /\ OpenInv
  /\ OpensAccounted
  /\ RememberInv
  /\ SearchInv

----------------------------------------------------------------------------
(* Each part is preserved by every step. *)

\* What Settle leaves in the locals of the owner and of the threads that waited.
LEMMA Settled ==
  ASSUME TypeOK, LocalsInv, WaitInv,
         NEW t \in Threads, NEW own \in Outcome, own.reason # "ok" \/ own = outcome[t],
         Settle(t, own)
  PROVE  /\ pc' \in [Threads -> States]
         /\ outcome' \in [Threads -> Outcome]
         /\ awaits' \in [Threads -> Threads \cup {NoThread}]
         /\ UNCHANGED <<name, owed, locations, file>>
         /\ LocalsInv'
<1> USE DEF TypeOK
<1>1. pc' \in [Threads -> States] /\ UNCHANGED <<name, owed, locations, file>>
  BY DEF Settle, States
<1>2. awaits' \in [Threads -> Threads \cup {NoThread}]
  BY DEF Settle
<1>3. ASSUME NEW u \in Threads
      PROVE  /\ pc'[u] = IF u = t THEN "idle" ELSE pc[u]
             /\ outcome'[u] = IF u = t THEN own
                                ELSE IF awaits[u] = t THEN outcome[t] ELSE outcome[u]
  BY <1>3 DEF Settle
<1>4. outcome' \in [Threads -> Outcome]
  BY <1>3 DEF Settle
<1>5. ASSUME NEW u \in Threads
      PROVE  /\ pc'[u] \in {"lock", "open", "symbol"} => file'[u] \in Files
             /\ outcome'[u].reason = "ok" => outcome'[u] \in Entries
             /\ pc'[u] = "publish" => outcome'[u].reason = "ok"
             /\ pc'[u] = "fail" => outcome'[u].reason \in Reasons \ Searchless
  <2>1. CASE u = t
    BY <1>3, <2>1 DEF LocalsInv
  <2>2. CASE u # t /\ awaits[u] = t
    <3>1. pc'[u] \in {"join", "drain"} /\ outcome'[u] = outcome[t]
      BY <1>3, <2>2, NoThreadAssumption DEF WaitInv
    <3> QED BY <3>1 DEF LocalsInv
  <2>3. CASE u # t /\ awaits[u] # t
    BY <1>1, <1>3, <2>3 DEF LocalsInv
  <2> QED BY <2>1, <2>2, <2>3
<1>6. LocalsInv'
  BY <1>5 DEF LocalsInv, Entries, Reasons, Searchless
<1> QED BY <1>1, <1>2, <1>4, <1>6

\* The types, and the locals each place in Get relies on.
LEMMA TypeStep == TypeOK /\ LocalsInv /\ WaitInv /\ [Next]_vars => (TypeOK /\ LocalsInv)'
<1> SUFFICES ASSUME TypeOK, LocalsInv, WaitInv, [Next]_vars PROVE (TypeOK /\ LocalsInv)'
  OBVIOUS
<1> USE NoThreadAssumption, NoFileAssumption, MaxPathsAssumption
<1> USE DEF TypeOK, LocalsInv, WaitInv, Outcome, Entries, Entry, Error, None, InFlight,
        NoFlight, States, Loading, Reasons, Searchless, Handles, NoHandle
<1>1. CASE PathAdd
  BY <1>1 DEF PathAdd, locals
<1>2. CASE UNCHANGED vars
  BY <1>2 DEF vars
<1>3. ASSUME NEW t \in Threads, Proceed(t) \/ \E n \in Names : Request(t, n)
      PROVE  (TypeOK /\ LocalsInv)'
  <2>1. CASE FoundOnFirstLook(t)
    BY <2>1 DEF FoundOnFirstLook, Return, cache
  <2>2. CASE MissedOnFirstLook(t)
    BY <2>2 DEF MissedOnFirstLook, cache
  <2>3. CASE FoundOnSecondLook(t)
    BY <2>3 DEF FoundOnSecondLook, Return, cache
  <2>4. CASE Join(t)
    BY <2>4 DEF Join, Undecided, Wait, cache
  <2>5. CASE Drain(t)
    BY <2>5 DEF Drain, Undecided, Wait, cache
  <2>6. CASE Own(t)
    BY <2>6 DEF Own, Undecided, NobodyLoads
  <2>7. CASE SnapshotThrows(t)
    BY <2>7 DEF SnapshotThrows, Undecided, NobodyLoads
  <2>8. CASE JoinDelivers(t)
    BY <2>8 DEF JoinDelivers, Return, cache
  <2>9. CASE DrainLoops(t)
    BY <2>9 DEF DrainLoops, cache
  <2>10. CASE \E f \in Files : SearchFinds(t, f)
    BY <2>10 DEF SearchFinds, cache
  <2>11. CASE SearchMisses(t)
    BY <2>11 DEF SearchMisses, FailWith, cache
  <2>12. CASE OpenKnown(t)
    BY <2>12 DEF OpenKnown, cache
  <2>13. CASE OpenBegin(t)
    BY <2>13 DEF OpenBegin
  <2>14. CASE \E h \in Handles : OpenSucceeds(t, h)
    BY <2>14 DEF OpenSucceeds
  <2>15. CASE \E why \in {"LoadError", "Other"} : OpenFails(t, why)
    BY <2>15 DEF OpenFails, FailWith
  <2>16. CASE SymbolFound(t)
    BY <2>16 DEF SymbolFound, cache
  <2>17. CASE SymbolMissing(t)
    BY <2>17 DEF SymbolMissing, FailWith, cache
  <2>18. CASE LoadThrows(t)
    BY <2>18 DEF LoadThrows, FailWith, cache
  <2>19. CASE Publish(t)
    BY <2>19 DEF Publish
  <2>20. CASE PublishThrows(t)
    <3>1. entries' \in [Names -> Entries \cup {None}]
      <4>1. outcome[t] \in Entries /\ name[t] \in Names
        BY <2>20 DEF PublishThrows
      <4>2. entries' = entries \/ entries' = [entries EXCEPT ![name[t]] = outcome[t]]
        BY <2>20 DEF PublishThrows
      <4> HIDE DEF Entries, None
      <4> QED BY <4>1, <4>2
    <3>2. Error("Other", outcome[t].searched) \in Outcome
      OBVIOUS
    <3>3. pc' \in [Threads -> States] /\ outcome' \in [Threads -> Outcome]
      BY <2>20, <3>2 DEF PublishThrows
    <3>4. LocalsInv'
      BY <2>20, <3>2 DEF PublishThrows
    <3> QED BY <2>20, <3>1, <3>3, <3>4 DEF PublishThrows
  <2>21. CASE Fail(t)
    BY <2>21 DEF Fail
  <2>22. CASE SetValue(t)
    BY <2>22, Settled DEF SetValue, cache
  <2>23. CASE \E n \in Names : Request(t, n)
    BY <2>23 DEF Request, cache
  <2>24. CASE GetThrows(t)
    BY <2>24 DEF GetThrows, Return, cache
  <2>25. CASE AnswerThrows(t)
    BY <2>25 DEF AnswerThrows
  <2>26. CASE FailThrows(t)
    BY <2>26 DEF FailThrows, cache, Error
  <2>27. CASE RecordThrows(t)
    BY <2>27 DEF RecordThrows, FailWith
  <2>28. CASE OutcomeThrows(t)
    BY <2>28 DEF OutcomeThrows, cache
  <2>29. CASE RethrowThrows(t)
    <3>1. Error("NoMemory", 0) \in Outcome /\ Error("NoMemory", 0).reason # "ok"
      OBVIOUS
    <3> QED BY <2>29, <3>1, Settled DEF RethrowThrows, cache
  <2>30. CASE PromiseDestroyed(t)
    <3>1. Error("NoMemory", 0) \in Outcome /\ Error("NoMemory", 0).reason # "ok"
      OBVIOUS
    <3>2. BrokenPromise(in_flight[name[t]]) \in InFlight
      BY DEF BrokenPromise
    <3>3. in_flight' \in [Names -> InFlight]
      <4>1. name[t] \in Names /\ in_flight \in [Names -> InFlight]
        OBVIOUS
      <4> HIDE DEF InFlight, TypeOK
      <4> QED BY <2>30, <3>2, <4>1 DEF PromiseDestroyed
    <3>4. /\ pc' \in [Threads -> States]
          /\ outcome' \in [Threads -> Outcome]
          /\ awaits' \in [Threads -> Threads \cup {NoThread}]
          /\ UNCHANGED <<name, owed, locations, file>>
          /\ LocalsInv'
      <4> HIDE DEF TypeOK, LocalsInv, WaitInv, Outcome, Error, States
      <4> QED BY <2>30, <3>1, Settled DEF PromiseDestroyed
    <3>5. UNCHANGED <<paths, version, entries, open_mutex, libraries, opened, lost>>
      BY <2>30 DEF PromiseDestroyed
    <3> HIDE DEF LocalsInv, Outcome, Entries, InFlight, States, Handles
    <3> QED BY <3>3, <3>4, <3>5
  <2> QED BY <1>3, <2>1, <2>2, <2>3, <2>4, <2>5, <2>6, <2>7, <2>8, <2>9, <2>10, <2>11,
           <2>12, <2>13, <2>14, <2>15, <2>16, <2>17, <2>18, <2>19, <2>20,
           <2>21, <2>22, <2>23, <2>24, <2>25, <2>26, <2>27, <2>28, <2>29,
           <2>30 DEF Proceed
<1> QED BY <1>1, <1>2, <1>3 DEF Next

\* Records of in_flight and loading threads stay paired.
LEMMA OwnerStep ==
  TypeOK /\ LocalsInv /\ OwnerInv /\ WaitInv /\ RememberInv /\ [Next]_vars => OwnerInv'
<1> SUFFICES ASSUME TypeOK, LocalsInv, OwnerInv, WaitInv, RememberInv, [Next]_vars
             PROVE  OwnerInv'
  OBVIOUS
<1> USE NoThreadAssumption, NoFileAssumption, MaxPathsAssumption
<1> USE DEF TypeOK, LocalsInv, OwnerInv, WaitInv, Abandoning, Loading
<1>1. CASE PathAdd
  BY <1>1 DEF PathAdd, locals
<1>2. CASE UNCHANGED vars
  BY <1>2 DEF vars
<1>3. ASSUME NEW t \in Threads, Proceed(t) \/ \E n \in Names : Request(t, n)
      PROVE  OwnerInv'
  <2>1. CASE FoundOnFirstLook(t)
    BY <2>1 DEF FoundOnFirstLook, Return, cache, Outcome, Error, Entry, States, Reasons,
        Searchless
  <2>2. CASE MissedOnFirstLook(t)
    BY <2>2 DEF MissedOnFirstLook, cache, Outcome, Error, Entry, States, Reasons, Searchless
  <2>3. CASE FoundOnSecondLook(t)
    BY <2>3 DEF FoundOnSecondLook, Return, cache, Outcome, Error, Entry, States, Reasons,
        Searchless
  <2>4. CASE Join(t)
    BY <2>4 DEF Join, Undecided, Wait, cache, Outcome, Error, Entry, States, Reasons, Searchless
  <2>5. CASE Drain(t)
    BY <2>5 DEF Drain, Undecided, Wait, cache, Outcome, Error, Entry, States, Reasons,
        Searchless
  <2>6. CASE Own(t)
    <3>1. ASSUME NEW u \in Threads, pc'[u] \in Loading
          PROVE  in_flight'[name'[u]].by = u /\ ~in_flight'[name'[u]].broken
      BY <2>6, <3>1 DEF Own, Undecided, NobodyLoads, NoFlight, InFlight
    <3>2. ASSUME NEW n \in Names, in_flight'[n] # NoFlight
          PROVE  /\ in_flight'[n].by \in Threads
                 /\ \/ entries'[n] = None
                    \/ /\ ~in_flight'[n].broken
                       /\ pc'[in_flight'[n].by] = "fail"
                       /\ outcome'[in_flight'[n].by].reason = "Other"
      BY <2>6, <3>2 DEF Own, Undecided, NobodyLoads, NoFlight, InFlight
    <3>3. ASSUME NEW n \in Names, in_flight'[n] # NoFlight, ~in_flight'[n].broken
          PROVE  /\ name'[in_flight'[n].by] = n
                 /\ pc'[in_flight'[n].by] \in Loading \/ Abandoning(in_flight[n].by)'
      BY <2>6, <3>3 DEF Own, Undecided, NobodyLoads, NoFlight, InFlight
    <3>4. ASSUME NEW u \in Threads, pc'[u] = "set", outcome'[u].reason = "ok"
          PROVE  in_flight'[name'[u]] = NoFlight
      <4>1. pc[u] = "set" /\ outcome[u].reason = "ok" /\ name'[u] = name[u]
        BY <2>6, <3>4 DEF Own
      <4>2. in_flight[name[u]] = NoFlight /\ outcome[u] = entries[name[u]]
        BY <4>1 DEF RememberInv
      <4>3. name[u] # name[t]
        BY <2>6, <4>1, <4>2 DEF Own, Undecided, None
      <4> QED BY <2>6, <4>1, <4>2, <4>3 DEF Own
    <3> QED BY <3>1, <3>2, <3>3, <3>4
  <2>7. CASE SnapshotThrows(t)
    <3>1. ASSUME NEW u \in Threads, pc'[u] \in Loading
          PROVE  in_flight'[name'[u]].by = u /\ ~in_flight'[name'[u]].broken
      BY <2>7, <3>1 DEF SnapshotThrows, Undecided, NobodyLoads, NoFlight, InFlight, Error
    <3>2. ASSUME NEW n \in Names, in_flight'[n] # NoFlight
          PROVE  /\ in_flight'[n].by \in Threads
                 /\ \/ entries'[n] = None
                    \/ /\ ~in_flight'[n].broken
                       /\ pc'[in_flight'[n].by] = "fail"
                       /\ outcome'[in_flight'[n].by].reason = "Other"
      BY <2>7, <3>2 DEF SnapshotThrows, Undecided, NobodyLoads, NoFlight, InFlight, Error
    <3>3. ASSUME NEW n \in Names, in_flight'[n] # NoFlight, ~in_flight'[n].broken
          PROVE  /\ name'[in_flight'[n].by] = n
                 /\ pc'[in_flight'[n].by] \in Loading \/ Abandoning(in_flight[n].by)'
      BY <2>7, <3>3 DEF SnapshotThrows, Undecided, NobodyLoads, NoFlight, InFlight, Error
    <3>4. ASSUME NEW u \in Threads, pc'[u] = "set", outcome'[u].reason = "ok"
          PROVE  in_flight'[name'[u]] = NoFlight
      BY <2>7, <3>4 DEF SnapshotThrows, Undecided, NobodyLoads, NoFlight, InFlight,
           Error, RememberInv, Entries, None
    <3> QED BY <3>1, <3>2, <3>3, <3>4
  <2>8. CASE JoinDelivers(t)
    BY <2>8 DEF JoinDelivers, Return, cache, Outcome, Error, Entry, States, Reasons, Searchless
  <2>9. CASE DrainLoops(t)
    BY <2>9 DEF DrainLoops, cache, Outcome, Error, Entry, States, Reasons, Searchless
  <2>10. CASE \E f \in Files : SearchFinds(t, f)
    BY <2>10 DEF SearchFinds, cache, Outcome, Error, Entry, States, Reasons, Searchless
  <2>11. CASE SearchMisses(t)
    BY <2>11 DEF SearchMisses, FailWith, cache, Outcome, Error, Entry, States, Reasons,
        Searchless
  <2>12. CASE OpenKnown(t)
    BY <2>12 DEF OpenKnown, cache, Outcome, Error, Entry, States, Reasons, Searchless
  <2>13. CASE OpenBegin(t)
    BY <2>13 DEF OpenBegin, Outcome, Error, Entry, States, Reasons, Searchless
  <2>14. CASE \E h \in Handles : OpenSucceeds(t, h)
    BY <2>14 DEF OpenSucceeds, Outcome, Error, Entry, States, Reasons, Searchless
  <2>15. CASE \E why \in {"LoadError", "Other"} : OpenFails(t, why)
    BY <2>15 DEF OpenFails, FailWith, Outcome, Error, Entry, States, Reasons, Searchless
  <2>16. CASE SymbolFound(t)
    BY <2>16 DEF SymbolFound, cache, Outcome, Error, Entry, States, Reasons, Searchless
  <2>17. CASE SymbolMissing(t)
    BY <2>17 DEF SymbolMissing, FailWith, cache, Outcome, Error, Entry, States, Reasons,
        Searchless
  <2>18. CASE LoadThrows(t)
    BY <2>18 DEF LoadThrows, FailWith, cache, Outcome, Error, Entry, States, Reasons, Searchless
  <2>19. CASE Publish(t)
    <3>1. ASSUME NEW u \in Threads, pc'[u] \in Loading
          PROVE  in_flight'[name'[u]].by = u /\ ~in_flight'[name'[u]].broken
      BY <2>19, <3>1 DEF Publish
    <3>2. ASSUME NEW n \in Names, in_flight'[n] # NoFlight
          PROVE  /\ in_flight'[n].by \in Threads
                 /\ \/ entries'[n] = None
                    \/ /\ ~in_flight'[n].broken
                       /\ pc'[in_flight'[n].by] = "fail"
                       /\ outcome'[in_flight'[n].by].reason = "Other"
      BY <2>19, <3>2 DEF Publish
    <3>3. ASSUME NEW n \in Names, in_flight'[n] # NoFlight, ~in_flight'[n].broken
          PROVE  /\ name'[in_flight'[n].by] = n
                 /\ pc'[in_flight'[n].by] \in Loading \/ Abandoning(in_flight[n].by)'
      BY <2>19, <3>3 DEF Publish
    <3>4. ASSUME NEW u \in Threads, pc'[u] = "set", outcome'[u].reason = "ok"
          PROVE  in_flight'[name'[u]] = NoFlight
      BY <2>19, <3>4 DEF Publish
    <3> QED BY <3>1, <3>2, <3>3, <3>4
  <2>20. CASE PublishThrows(t)
    BY <2>20 DEF PublishThrows, Outcome, Error, Entry, States, Reasons, Searchless
  <2>21. CASE Fail(t)
    <3>1. ASSUME NEW u \in Threads, pc'[u] \in Loading
          PROVE  in_flight'[name'[u]].by = u /\ ~in_flight'[name'[u]].broken
      <4>1. outcome[t].reason # "Broken"
        BY <2>21 DEF Fail, Searchless
      <4>2. u # t /\ pc[u] \in Loading
        BY <2>21, <3>1, <4>1 DEF Fail
      <4>3. name[u] # name[t]
        BY <2>21, <4>2 DEF Fail
      <4> QED BY <2>21, <4>2, <4>3 DEF Fail
    <3>2. ASSUME NEW n \in Names, in_flight'[n] # NoFlight
          PROVE  /\ in_flight'[n].by \in Threads
                 /\ \/ entries'[n] = None
                    \/ /\ ~in_flight'[n].broken
                       /\ pc'[in_flight'[n].by] = "fail"
                       /\ outcome'[in_flight'[n].by].reason = "Other"
      <4>1. n # name[t] /\ in_flight'[n] = in_flight[n] /\ entries' = entries
        BY <2>21, <3>2 DEF Fail
      <4>2. ~in_flight[n].broken => in_flight[n].by # t
        BY <3>2, <4>1
      <4> QED BY <2>21, <3>2, <4>1, <4>2 DEF Fail
    <3>3. ASSUME NEW n \in Names, in_flight'[n] # NoFlight, ~in_flight'[n].broken
          PROVE  /\ name'[in_flight'[n].by] = n
                 /\ pc'[in_flight'[n].by] \in Loading \/ Abandoning(in_flight[n].by)'
      BY <2>21, <3>3 DEF Fail
    <3>4. ASSUME NEW u \in Threads, pc'[u] = "set", outcome'[u].reason = "ok"
          PROVE  in_flight'[name'[u]] = NoFlight
      BY <2>21, <3>4 DEF Fail
    <3> QED BY <3>1, <3>2, <3>3, <3>4
  <2>22. CASE SetValue(t)
    BY <2>22 DEF SetValue, Settle, cache
  <2>23. CASE \E n \in Names : Request(t, n)
    BY <2>23 DEF Request, cache, Outcome, Error, Entry, States, Reasons, Searchless
  <2>24. CASE GetThrows(t)
    BY <2>24 DEF GetThrows, Return, cache, Outcome, Error, Entry, States, Reasons, Searchless
  <2>25. CASE AnswerThrows(t)
    <3>1. in_flight' = in_flight
      BY <2>25 DEF AnswerThrows
    <3> QED BY <2>25, <3>1 DEF AnswerThrows, Error
  <2>26. CASE FailThrows(t)
    BY <2>26 DEF FailThrows, cache, Error
  <2>27. CASE RecordThrows(t)
    BY <2>27 DEF RecordThrows, FailWith, Error, Outcome, States, Reasons, Searchless
  <2>28. CASE OutcomeThrows(t)
    BY <2>28 DEF OutcomeThrows, cache, Error, Outcome, States, Reasons, Searchless
  <2>29. CASE RethrowThrows(t)
    <3>1. ASSUME NEW u \in Threads
          PROVE  /\ name'[u] = name[u] /\ in_flight' = in_flight /\ entries' = entries
                 /\ u # t => pc'[u] = pc[u]
                 /\ pc[t] = "set" /\ pc'[t] = "idle" /\ outcome[t].reason = "LoadError"
                 /\ u # t /\ awaits[u] # t => outcome'[u] = outcome[u]
                 /\ u # t /\ awaits[u] = t => pc[u] \in {"join", "drain"}
      BY <2>29, <3>1 DEF RethrowThrows, Settle, cache
    <3>2. \A u \in Threads : pc'[u] \in Loading => pc[u] \in Loading /\ u # t
      BY <3>1
    <3>3. \A u \in Threads : pc'[u] = "set" /\ outcome'[u].reason = "ok" =>
            pc[u] = "set" /\ outcome[u].reason = "ok"
      BY <3>1
    <3>4. \A u \in Threads : u # t /\ (pc[u] \in Loading \/ Abandoning(u)) =>
            pc'[u] = pc[u] /\ outcome'[u] = outcome[u]
      BY <3>1
    <3> QED BY <3>1, <3>2, <3>3, <3>4
  <2>30. CASE PromiseDestroyed(t)
    <3>1. ASSUME NEW u \in Threads
          PROVE  /\ name'[u] = name[u] /\ entries' = entries
                 /\ u # t => pc'[u] = pc[u]
                 /\ pc[t] = "set" /\ pc'[t] = "idle" /\ outcome[t].reason = "Broken"
                 /\ u # t /\ awaits[u] # t => outcome'[u] = outcome[u]
                 /\ u # t /\ awaits[u] = t => pc[u] \in {"join", "drain"}
      BY <2>30, <3>1 DEF PromiseDestroyed, Settle
    <3>2. \A u \in Threads : pc'[u] \in Loading => pc[u] \in Loading /\ u # t
      BY <3>1
    <3>3. \A u \in Threads : pc'[u] = "set" /\ outcome'[u].reason = "ok" =>
            pc[u] = "set" /\ outcome[u].reason = "ok"
      BY <3>1
    <3>4. \A u \in Threads : u # t /\ (pc[u] \in Loading \/ Abandoning(u)) =>
            pc'[u] = pc[u] /\ outcome'[u] = outcome[u]
      BY <3>1
    <3>5. CASE in_flight[name[t]].by # t
      <4>1. in_flight' = in_flight
        BY <2>30, <3>5 DEF PromiseDestroyed
      <4> QED BY <3>1, <3>2, <3>3, <3>4, <3>5, <4>1
    <3>6. CASE in_flight[name[t]].by = t
      <4>1. in_flight[name[t]] # NoFlight /\ name[t] \in Names
        BY <3>6 DEF NoFlight
      <4>2. ASSUME NEW n \in Names
            PROVE  /\ n # name[t] => in_flight'[n] = in_flight[n]
                   /\ n = name[t] => /\ in_flight'[n].by = t
                                     /\ in_flight'[n].broken
                                     /\ in_flight'[n] # NoFlight
        BY <2>30, <3>6, <4>2 DEF PromiseDestroyed, BrokenPromise, NoFlight
      <4>3. entries[name[t]] = None
        BY <3>1, <3>6, <4>1
      <4>4. ASSUME NEW u \in Threads, pc'[u] \in Loading
            PROVE  in_flight'[name'[u]].by = u /\ ~in_flight'[name'[u]].broken
        BY <3>1, <3>2, <3>6, <4>2, <4>4
      <4>5. ASSUME NEW n \in Names, in_flight'[n] # NoFlight
            PROVE  /\ in_flight'[n].by \in Threads
                   /\ \/ entries'[n] = None
                      \/ /\ ~in_flight'[n].broken
                         /\ pc'[in_flight'[n].by] = "fail"
                         /\ outcome'[in_flight'[n].by].reason = "Other"
        BY <3>1, <3>4, <4>2, <4>3, <4>5
      <4>6. ASSUME NEW n \in Names, in_flight'[n] # NoFlight, ~in_flight'[n].broken
            PROVE  /\ name'[in_flight'[n].by] = n
                   /\ pc'[in_flight'[n].by] \in Loading \/ Abandoning(in_flight[n].by)'
        <5>1. n # name[t] /\ in_flight'[n] = in_flight[n]
          BY <4>2, <4>6
        <5>2. in_flight[n].by \in Threads /\ in_flight[n].by # t
          BY <4>6, <5>1
        <5> QED BY <3>1, <3>4, <4>6, <5>1, <5>2
      <4>7. ASSUME NEW u \in Threads, pc'[u] = "set", outcome'[u].reason = "ok"
            PROVE  in_flight'[name'[u]] = NoFlight
        BY <3>1, <3>3, <4>1, <4>2, <4>7
      <4> QED BY <4>4, <4>5, <4>6, <4>7
    <3> QED BY <3>5, <3>6
  <2> QED BY <1>3, <2>1, <2>2, <2>3, <2>4, <2>5, <2>6, <2>7, <2>8, <2>9, <2>10, <2>11,
           <2>12, <2>13, <2>14, <2>15, <2>16, <2>17, <2>18, <2>19, <2>20,
           <2>21, <2>22, <2>23, <2>24, <2>25, <2>26, <2>27, <2>28, <2>29,
           <2>30 DEF Proceed
<1> QED BY <1>1, <1>2, <1>3 DEF Next

\* A promise somebody waits for is not forgotten.
LEMMA WaitStep == TypeOK /\ OwnerInv /\ WaitInv /\ [Next]_vars => WaitInv'
<1> SUFFICES ASSUME TypeOK, OwnerInv, WaitInv, [Next]_vars PROVE WaitInv'
  OBVIOUS
<1> USE NoThreadAssumption, NoFileAssumption, MaxPathsAssumption
<1> USE DEF TypeOK, OwnerInv, WaitInv, Abandoning, Outcome, Entries, Entry, Error, None,
        InFlight, NoFlight, States, Loading, Reasons, Searchless, Handles, NoHandle
<1>1. CASE PathAdd
  BY <1>1 DEF PathAdd, locals
<1>2. CASE UNCHANGED vars
  BY <1>2 DEF vars
<1>3. ASSUME NEW t \in Threads, Proceed(t) \/ \E n \in Names : Request(t, n)
      PROVE  WaitInv'
  <2>1. CASE FoundOnFirstLook(t)
    BY <2>1 DEF FoundOnFirstLook, Return, cache
  <2>2. CASE MissedOnFirstLook(t)
    BY <2>2 DEF MissedOnFirstLook, cache
  <2>3. CASE FoundOnSecondLook(t)
    BY <2>3 DEF FoundOnSecondLook, Return, cache
  <2>4. CASE Join(t)
    BY <2>4 DEF Join, Undecided, Wait, cache
  <2>5. CASE Drain(t)
    BY <2>5 DEF Drain, Undecided, Wait, cache
  <2>6. CASE Own(t)
    BY <2>6 DEF Own, Undecided, NobodyLoads
  <2>7. CASE SnapshotThrows(t)
    BY <2>7 DEF SnapshotThrows, Undecided, NobodyLoads
  <2>8. CASE JoinDelivers(t)
    BY <2>8 DEF JoinDelivers, Return, cache
  <2>9. CASE DrainLoops(t)
    BY <2>9 DEF DrainLoops, cache
  <2>10. CASE \E f \in Files : SearchFinds(t, f)
    BY <2>10 DEF SearchFinds, cache
  <2>11. CASE SearchMisses(t)
    BY <2>11 DEF SearchMisses, FailWith, cache
  <2>12. CASE OpenKnown(t)
    BY <2>12 DEF OpenKnown, cache
  <2>13. CASE OpenBegin(t)
    BY <2>13 DEF OpenBegin
  <2>14. CASE \E h \in Handles : OpenSucceeds(t, h)
    BY <2>14 DEF OpenSucceeds
  <2>15. CASE \E why \in {"LoadError", "Other"} : OpenFails(t, why)
    BY <2>15 DEF OpenFails, FailWith
  <2>16. CASE SymbolFound(t)
    BY <2>16 DEF SymbolFound, cache
  <2>17. CASE SymbolMissing(t)
    BY <2>17 DEF SymbolMissing, FailWith, cache
  <2>18. CASE LoadThrows(t)
    BY <2>18 DEF LoadThrows, FailWith, cache
  <2>19. CASE Publish(t)
    BY <2>19 DEF Publish
  <2>20. CASE PublishThrows(t)
    BY <2>20 DEF PublishThrows
  <2>21. CASE Fail(t)
    BY <2>21 DEF Fail
  <2>22. CASE SetValue(t)
    BY <2>22 DEF SetValue, Settle, cache
  <2>23. CASE \E n \in Names : Request(t, n)
    BY <2>23 DEF Request, cache
  <2>24. CASE GetThrows(t)
    BY <2>24 DEF GetThrows, Return, cache
  <2>25. CASE AnswerThrows(t)
    BY <2>25 DEF AnswerThrows
  <2>26. CASE FailThrows(t)
    BY <2>26 DEF FailThrows, cache, Error
  <2>27. CASE RecordThrows(t)
    BY <2>27 DEF RecordThrows, FailWith
  <2>28. CASE OutcomeThrows(t)
    BY <2>28 DEF OutcomeThrows, cache
  <2>29. CASE RethrowThrows(t)
    BY <2>29 DEF RethrowThrows, Settle, cache
  <2>30. CASE PromiseDestroyed(t)
    BY <2>30 DEF PromiseDestroyed, Settle, BrokenPromise
  <2> QED BY <1>3, <2>1, <2>2, <2>3, <2>4, <2>5, <2>6, <2>7, <2>8, <2>9, <2>10, <2>11,
           <2>12, <2>13, <2>14, <2>15, <2>16, <2>17, <2>18, <2>19, <2>20,
           <2>21, <2>22, <2>23, <2>24, <2>25, <2>26, <2>27, <2>28, <2>29,
           <2>30 DEF Proceed
<1> QED BY <1>1, <1>2, <1>3 DEF Next

\* One opener at a time, and only of what is not open.
LEMMA OpenStep == TypeOK /\ LocalsInv /\ OpenInv /\ [Next]_vars => OpenInv'
<1> SUFFICES ASSUME TypeOK, LocalsInv, OpenInv, [Next]_vars PROVE OpenInv'
  OBVIOUS
<1> USE NoThreadAssumption, NoFileAssumption, MaxPathsAssumption
<1> USE DEF TypeOK, LocalsInv, OpenInv, States, Loading, Reasons, Searchless, Handles, NoHandle
<1>1. CASE PathAdd
  BY <1>1 DEF PathAdd, locals
<1>2. CASE UNCHANGED vars
  BY <1>2 DEF vars
<1>3. ASSUME NEW t \in Threads, Proceed(t) \/ \E n \in Names : Request(t, n)
      PROVE  OpenInv'
  <2>1. CASE FoundOnFirstLook(t)
    BY <2>1 DEF FoundOnFirstLook, Return, cache
  <2>2. CASE MissedOnFirstLook(t)
    BY <2>2 DEF MissedOnFirstLook, cache
  <2>3. CASE FoundOnSecondLook(t)
    BY <2>3 DEF FoundOnSecondLook, Return, cache
  <2>4. CASE Join(t)
    BY <2>4 DEF Join, Undecided, Wait, cache
  <2>5. CASE Drain(t)
    BY <2>5 DEF Drain, Undecided, Wait, cache
  <2>6. CASE Own(t)
    BY <2>6 DEF Own, Undecided, NobodyLoads
  <2>7. CASE SnapshotThrows(t)
    BY <2>7 DEF SnapshotThrows, Undecided, NobodyLoads
  <2>8. CASE JoinDelivers(t)
    BY <2>8 DEF JoinDelivers, Return, cache
  <2>9. CASE DrainLoops(t)
    BY <2>9 DEF DrainLoops, cache
  <2>10. CASE \E f \in Files : SearchFinds(t, f)
    BY <2>10 DEF SearchFinds, cache
  <2>11. CASE SearchMisses(t)
    BY <2>11 DEF SearchMisses, FailWith, cache
  <2>12. CASE OpenKnown(t)
    BY <2>12 DEF OpenKnown, cache
  <2>13. CASE OpenBegin(t)
    BY <2>13 DEF OpenBegin
  <2>14. CASE \E h \in Handles : OpenSucceeds(t, h)
    BY <2>14 DEF OpenSucceeds
  <2>15. CASE \E why \in {"LoadError", "Other"} : OpenFails(t, why)
    BY <2>15 DEF OpenFails, FailWith
  <2>16. CASE SymbolFound(t)
    BY <2>16 DEF SymbolFound, cache
  <2>17. CASE SymbolMissing(t)
    BY <2>17 DEF SymbolMissing, FailWith, cache
  <2>18. CASE LoadThrows(t)
    BY <2>18 DEF LoadThrows, FailWith, cache
  <2>19. CASE Publish(t)
    BY <2>19 DEF Publish
  <2>20. CASE PublishThrows(t)
    BY <2>20 DEF PublishThrows
  <2>21. CASE Fail(t)
    BY <2>21 DEF Fail
  <2>22. CASE SetValue(t)
    BY <2>22 DEF SetValue, Settle, cache
  <2>23. CASE \E n \in Names : Request(t, n)
    BY <2>23 DEF Request, cache
  <2>24. CASE GetThrows(t)
    BY <2>24 DEF GetThrows, Return, cache
  <2>25. CASE AnswerThrows(t)
    BY <2>25 DEF AnswerThrows
  <2>26. CASE FailThrows(t)
    BY <2>26 DEF FailThrows, cache, Error
  <2>27. CASE RecordThrows(t)
    BY <2>27 DEF RecordThrows, FailWith, Error, Outcome
  <2>28. CASE OutcomeThrows(t)
    BY <2>28 DEF OutcomeThrows, cache, Error, Outcome
  <2>29. CASE RethrowThrows(t)
    BY <2>29 DEF RethrowThrows, Settle, cache, Error, Outcome
  <2>30. CASE PromiseDestroyed(t)
    BY <2>30 DEF PromiseDestroyed, Settle, BrokenPromise, Error, Outcome
  <2> QED BY <1>3, <2>1, <2>2, <2>3, <2>4, <2>5, <2>6, <2>7, <2>8, <2>9, <2>10, <2>11,
           <2>12, <2>13, <2>14, <2>15, <2>16, <2>17, <2>18, <2>19, <2>20,
           <2>21, <2>22, <2>23, <2>24, <2>25, <2>26, <2>27, <2>28, <2>29,
           <2>30 DEF Proceed
<1> QED BY <1>1, <1>2, <1>3 DEF Next

\* Every open is in `libraries` or among the lost ones.
LEMMA OpensStep == TypeOK /\ LocalsInv /\ OpenInv /\ OpensAccounted /\ [Next]_vars => OpensAccounted'
<1> SUFFICES ASSUME TypeOK, LocalsInv, OpenInv, OpensAccounted, [Next]_vars
             PROVE  OpensAccounted'
  OBVIOUS
<1>1. CASE UNCHANGED vars \/ PathAdd
  BY <1>1 DEF vars, PathAdd, OpensAccounted
<1>2. ASSUME NEW t \in Threads, pc[t] = "open"
      PROVE  file[t] \in Files /\ libraries[file[t]] = NoHandle
  BY <1>2 DEF LocalsInv, OpenInv
<1>3. ASSUME NEW t \in Threads, NEW h \in Handles, OpenSucceeds(t, h) PROVE OpensAccounted'
  <2>1. file[t] \in Files /\ libraries[file[t]] = NoHandle /\ h # NoHandle
    BY <1>2, <1>3 DEF OpenSucceeds, Handles, NoHandle
  <2>2. ASSUME NEW f \in Files, f # file[t]
        PROVE  opened'[f] = opened[f] /\ libraries'[f] = libraries[f]
    BY <1>3, <2>2 DEF OpenSucceeds, TypeOK
  <2>3. opened'[file[t]] = opened[file[t]] + 1 /\ libraries'[file[t]] = h /\ lost' = lost
    BY <1>3, <2>1 DEF OpenSucceeds, TypeOK
  <2> QED BY <2>1, <2>2, <2>3 DEF OpensAccounted, TypeOK
<1>4. ASSUME NEW t \in Threads, RecordThrows(t) PROVE OpensAccounted'
  BY <1>2, <1>4 DEF RecordThrows, OpensAccounted, TypeOK
<1>5. ASSUME NEW t \in Threads, Proceed(t) \/ \E n \in Names : Request(t, n),
             ~RecordThrows(t), ~\E h \in Handles : OpenSucceeds(t, h)
      PROVE  UNCHANGED <<libraries, opened, lost>>
  BY <1>5 DEF Proceed, Request, FoundOnFirstLook, MissedOnFirstLook, FoundOnSecondLook,
       Join, Drain, Wait, Own, SnapshotThrows, JoinDelivers, DrainLoops, SearchFinds,
       SearchMisses, OpenKnown, OpenBegin, OpenFails, SymbolFound, SymbolMissing,
       LoadThrows, Publish, PublishThrows, Fail, SetValue, GetThrows, AnswerThrows,
       FailThrows, OutcomeThrows, RethrowThrows, PromiseDestroyed, cache
<1> QED BY <1>1, <1>3, <1>4, <1>5 DEF Next, OpensAccounted

\* Entries in hand are the remembered ones.
LEMMA RememberStep ==
  TypeOK /\ LocalsInv /\ OwnerInv /\ WaitInv /\ RememberInv /\ [Next]_vars => RememberInv'
<1> SUFFICES ASSUME TypeOK, LocalsInv, OwnerInv, WaitInv, RememberInv, [Next]_vars
             PROVE  RememberInv'
  OBVIOUS
<1> USE NoThreadAssumption, NoFileAssumption, MaxPathsAssumption
<1> USE DEF TypeOK, LocalsInv, OwnerInv, WaitInv, RememberInv, Abandoning, Outcome, Entries,
        Entry, Error, None, InFlight, NoFlight, States, Loading, Reasons, Searchless,
        Handles, NoHandle
<1>1. CASE PathAdd
  BY <1>1 DEF PathAdd, locals
<1>2. CASE UNCHANGED vars
  BY <1>2 DEF vars
<1>3. ASSUME NEW t \in Threads, Proceed(t) \/ \E n \in Names : Request(t, n)
      PROVE  RememberInv'
  <2>1. CASE FoundOnFirstLook(t)
    BY <2>1 DEF FoundOnFirstLook, Return, cache
  <2>2. CASE MissedOnFirstLook(t)
    BY <2>2 DEF MissedOnFirstLook, cache
  <2>3. CASE FoundOnSecondLook(t)
    BY <2>3 DEF FoundOnSecondLook, Return, cache
  <2>4. CASE Join(t)
    BY <2>4 DEF Join, Undecided, Wait, cache
  <2>5. CASE Drain(t)
    BY <2>5 DEF Drain, Undecided, Wait, cache
  <2>6. CASE Own(t)
    BY <2>6 DEF Own, Undecided, NobodyLoads
  <2>7. CASE SnapshotThrows(t)
    BY <2>7 DEF SnapshotThrows, Undecided, NobodyLoads
  <2>8. CASE JoinDelivers(t)
    BY <2>8 DEF JoinDelivers, Return, cache
  <2>9. CASE DrainLoops(t)
    BY <2>9 DEF DrainLoops, cache
  <2>10. CASE \E f \in Files : SearchFinds(t, f)
    BY <2>10 DEF SearchFinds, cache
  <2>11. CASE SearchMisses(t)
    BY <2>11 DEF SearchMisses, FailWith, cache
  <2>12. CASE OpenKnown(t)
    BY <2>12 DEF OpenKnown, cache
  <2>13. CASE OpenBegin(t)
    BY <2>13 DEF OpenBegin
  <2>14. CASE \E h \in Handles : OpenSucceeds(t, h)
    BY <2>14 DEF OpenSucceeds
  <2>15. CASE \E why \in {"LoadError", "Other"} : OpenFails(t, why)
    BY <2>15 DEF OpenFails, FailWith
  <2>16. CASE SymbolFound(t)
    BY <2>16 DEF SymbolFound, cache
  <2>17. CASE SymbolMissing(t)
    BY <2>17 DEF SymbolMissing, FailWith, cache
  <2>18. CASE LoadThrows(t)
    BY <2>18 DEF LoadThrows, FailWith, cache
  <2>19. CASE Publish(t)
    <3>1. in_flight[name[t]].by = t /\ name[t] \in Names
      BY <2>19 DEF Publish
    <3>2. entries[name[t]] = None
      BY <2>19, <3>1 DEF Publish
    <3>3. \A u \in Threads : pc'[u] = IF u = t THEN "set" ELSE pc[u]
      BY <2>19 DEF Publish
    <3>4. \A n \in Names : entries'[n] = IF n = name[t] THEN outcome[t] ELSE entries[n]
      BY <2>19 DEF Publish
    <3>5. outcome' = outcome /\ name' = name /\ None.reason # "ok"
      BY <2>19 DEF Publish
    <3>6. ASSUME NEW u \in Threads, pc'[u] # "publish", outcome[u].reason = "ok"
          PROVE  outcome[u] = entries'[name[u]]
      <4>1. CASE u = t
        BY <3>4, <4>1
      <4>2. CASE u # t
        <5>1. outcome[u] = entries[name[u]]
          BY <3>3, <3>6, <4>2
        <5>2. name[u] # name[t]
          BY <3>2, <3>5, <3>6, <5>1
        <5> QED BY <3>4, <5>1, <5>2
      <4> QED BY <4>1, <4>2
    <3> QED BY <3>5, <3>6
  <2>20. CASE PublishThrows(t)
    BY <2>20 DEF PublishThrows
  <2>21. CASE Fail(t)
    BY <2>21 DEF Fail
  <2>22. CASE SetValue(t)
    BY <2>22 DEF SetValue, Settle, cache
  <2>23. CASE \E n \in Names : Request(t, n)
    BY <2>23 DEF Request, cache
  <2>24. CASE GetThrows(t)
    BY <2>24 DEF GetThrows, Return, cache
  <2>25. CASE AnswerThrows(t)
    BY <2>25 DEF AnswerThrows
  <2>26. CASE FailThrows(t)
    BY <2>26 DEF FailThrows, cache, Error
  <2>27. CASE RecordThrows(t)
    BY <2>27 DEF RecordThrows, FailWith
  <2>28. CASE OutcomeThrows(t)
    BY <2>28 DEF OutcomeThrows, cache
  <2>29. CASE RethrowThrows(t)
    BY <2>29 DEF RethrowThrows, Settle, cache
  <2>30. CASE PromiseDestroyed(t)
    BY <2>30 DEF PromiseDestroyed, Settle, BrokenPromise
  <2> QED BY <1>3, <2>1, <2>2, <2>3, <2>4, <2>5, <2>6, <2>7, <2>8, <2>9, <2>10, <2>11,
           <2>12, <2>13, <2>14, <2>15, <2>16, <2>17, <2>18, <2>19, <2>20,
           <2>21, <2>22, <2>23, <2>24, <2>25, <2>26, <2>27, <2>28, <2>29,
           <2>30 DEF Proceed
<1> QED BY <1>1, <1>2, <1>3 DEF Next

\* Loads cover what the requests that depend on them are owed.
LEMMA SearchStep ==
  TypeOK /\ LocalsInv /\ OwnerInv /\ WaitInv /\ SearchInv /\ [Next]_vars => SearchInv'
<1> SUFFICES ASSUME TypeOK, LocalsInv, OwnerInv, WaitInv, SearchInv, [Next]_vars
             PROVE  SearchInv'
  OBVIOUS
<1> USE NoThreadAssumption, NoFileAssumption, MaxPathsAssumption
<1> USE DEF TypeOK, LocalsInv, OwnerInv, WaitInv, SearchInv, Searched, Abandoning, Outcome,
        Entries, Entry, Error, None, InFlight, NoFlight, States, Loading, Reasons,
        Searchless, Handles, NoHandle
<1>1. CASE PathAdd
  BY <1>1 DEF PathAdd, locals
<1>2. CASE UNCHANGED vars
  BY <1>2 DEF vars
<1>3. ASSUME NEW t \in Threads, Proceed(t) \/ \E n \in Names : Request(t, n)
      PROVE  SearchInv'
  <2>1. CASE FoundOnFirstLook(t)
    BY <2>1 DEF FoundOnFirstLook, Return, cache
  <2>2. CASE MissedOnFirstLook(t)
    BY <2>2 DEF MissedOnFirstLook, cache
  <2>3. CASE FoundOnSecondLook(t)
    BY <2>3 DEF FoundOnSecondLook, Return, cache
  <2>4. CASE Join(t)
    BY <2>4 DEF Join, Undecided, Wait, cache, SameSettings
  <2>5. CASE Drain(t)
    BY <2>5 DEF Drain, Undecided, Wait, cache
  <2>6. CASE Own(t)
    BY <2>6 DEF Own, Undecided, NobodyLoads
  <2>7. CASE SnapshotThrows(t)
    BY <2>7 DEF SnapshotThrows, Undecided, NobodyLoads
  <2>8. CASE JoinDelivers(t)
    BY <2>8 DEF JoinDelivers, Return, cache
  <2>9. CASE DrainLoops(t)
    BY <2>9 DEF DrainLoops, cache
  <2>10. CASE \E f \in Files : SearchFinds(t, f)
    BY <2>10 DEF SearchFinds, cache
  <2>11. CASE SearchMisses(t)
    BY <2>11 DEF SearchMisses, FailWith, cache
  <2>12. CASE OpenKnown(t)
    BY <2>12 DEF OpenKnown, cache
  <2>13. CASE OpenBegin(t)
    BY <2>13 DEF OpenBegin
  <2>14. CASE \E h \in Handles : OpenSucceeds(t, h)
    BY <2>14 DEF OpenSucceeds
  <2>15. CASE \E why \in {"LoadError", "Other"} : OpenFails(t, why)
    BY <2>15 DEF OpenFails, FailWith
  <2>16. CASE SymbolFound(t)
    BY <2>16 DEF SymbolFound, cache
  <2>17. CASE SymbolMissing(t)
    BY <2>17 DEF SymbolMissing, FailWith, cache
  <2>18. CASE LoadThrows(t)
    BY <2>18 DEF LoadThrows, FailWith, cache
  <2>19. CASE Publish(t)
    BY <2>19 DEF Publish
  <2>20. CASE PublishThrows(t)
    BY <2>20 DEF PublishThrows
  <2>21. CASE Fail(t)
    BY <2>21 DEF Fail
  <2>22. CASE SetValue(t)
    BY <2>22 DEF SetValue, Settle, cache
  <2>23. CASE \E n \in Names : Request(t, n)
    BY <2>23 DEF Request, cache
  <2>24. CASE GetThrows(t)
    BY <2>24 DEF GetThrows, Return, cache
  <2>25. CASE AnswerThrows(t)
    <3>1. in_flight' = in_flight
      BY <2>25 DEF AnswerThrows
    <3> QED BY <2>25, <3>1 DEF AnswerThrows
  <2>26. CASE FailThrows(t)
    BY <2>26 DEF FailThrows, cache, Error
  <2>27. CASE RecordThrows(t)
    BY <2>27 DEF RecordThrows, FailWith
  <2>28. CASE OutcomeThrows(t)
    BY <2>28 DEF OutcomeThrows, cache
  <2>29. CASE RethrowThrows(t)
    BY <2>29 DEF RethrowThrows, Settle, cache
  <2>30. CASE PromiseDestroyed(t)
    BY <2>30 DEF PromiseDestroyed, Settle, BrokenPromise
  <2> QED BY <1>3, <2>1, <2>2, <2>3, <2>4, <2>5, <2>6, <2>7, <2>8, <2>9, <2>10, <2>11,
           <2>12, <2>13, <2>14, <2>15, <2>16, <2>17, <2>18, <2>19, <2>20,
           <2>21, <2>22, <2>23, <2>24, <2>25, <2>26, <2>27, <2>28, <2>29,
           <2>30 DEF Proceed
<1> QED BY <1>1, <1>2, <1>3 DEF Next

----------------------------------------------------------------------------
(* The theorems. *)

\* The empty cache satisfies Inv.
LEMMA InvInit == Init => Inv
  BY NoThreadAssumption, NoFileAssumption
     DEF Init, Inv, TypeOK, LocalsInv, OwnerInv, WaitInv, OpenInv, OpensAccounted, RememberInv,
         SearchInv, Searched, Abandoning, Outcome, Entries, None,
         InFlight, NoFlight, States, Loading, Reasons, Searchless, Handles, NoHandle

\* Every step of the cache preserves Inv.
LEMMA InvStep == Inv /\ [Next]_vars => Inv'
  BY TypeStep, OwnerStep, WaitStep, OpenStep, OpensStep, RememberStep, SearchStep DEF Inv

\* Inv holds in every reachable state of the cache.
THEOREM InvHolds == Spec => []Inv
  BY InvInit, InvStep, PTL DEF Spec

\* The variables keep their types; `entries` only ever remembers successes.
THEOREM TypeCorrect == Spec => []TypeOK
<1>1. Inv => TypeOK
  BY DEF Inv
<1> QED BY <1>1, InvHolds, PTL

\* However requests interleave, a name is loaded by one thread at a time and
\* never again once it is remembered.
THEOREM LoadsAreShared == Spec => []OneLoadPerName
<1>1. Inv => OneLoadPerName
  <2> SUFFICES ASSUME Inv, NEW t \in Threads, pc[t] \in Loading
               PROVE  /\ pc[t] # "fail" => entries[name[t]] = None
                      /\ \A u \in Threads : pc[u] \in Loading /\ name[u] = name[t] => u = t
    BY DEF OneLoadPerName
  <2>1. in_flight[name[t]].by = t /\ name[t] \in Names
    BY DEF Inv, OwnerInv, TypeOK
  <2>2. in_flight[name[t]] # NoFlight
    BY <2>1, NoThreadAssumption DEF NoFlight
  <2> QED BY <2>1, <2>2 DEF Inv, OwnerInv
<1> QED BY <1>1, InvHolds, PTL

\* A request blocked on a future always has a thread that will set the promise.
THEOREM NoLostWakeup == Spec => []WaiterHasOwner
<1>1. Inv => WaiterHasOwner
  <2> SUFFICES ASSUME Inv, NEW u \in Threads, awaits[u] # NoThread
               PROVE  /\ pc[awaits[u]] \in Loading \cup {"set"}
                      /\ name[awaits[u]] = name[u]
                      /\ awaits[awaits[u]] = NoThread
    BY DEF WaiterHasOwner
  <2>1. awaits[u] \in Threads
    BY DEF Inv, TypeOK
  <2> QED BY <2>1 DEF Inv, WaitInv, Loading
<1> QED BY <1>1, InvHolds, PTL

\* A record without a running load has a broken promise, even when the
\* snapshot of the settings throws.
THEOREM OrphansAreBroken == Spec => []OrphanIsBroken
<1>1. Inv => OrphanIsBroken
  BY DEF Inv, OwnerInv, Abandoning, OrphanIsBroken
<1> QED BY <1>1, InvHolds, PTL

\* However names, threads and failing allocations meet at a file, it is opened
\* again only for an open that could not be recorded.
THEOREM OpensAreRecorded == Spec => []OpensAccounted
<1>1. Inv => OpensAccounted
  BY DEF Inv
<1> QED BY <1>1, InvHolds, PTL

\* As long as no allocation fails, no file is opened twice.
THEOREM FilesOpenedOnce ==
  ASSUME ~MemoryFaults
  PROVE  Spec => []OpenedOnce
<1> DEFINE NoneLost == \A f \in Files : lost[f] = 0
<1>1. Init => NoneLost
  BY DEF Init
<1>2. NoneLost /\ [Next]_vars => NoneLost'
  <2> SUFFICES ASSUME NoneLost, [Next]_vars PROVE lost' = lost
    OBVIOUS
  <2>1. CASE UNCHANGED vars \/ PathAdd
    BY <2>1 DEF vars, PathAdd
  <2>2. ASSUME NEW t \in Threads, Proceed(t) \/ \E n \in Names : Request(t, n)
        PROVE  lost' = lost
    BY <2>2 DEF Proceed, Request, FoundOnFirstLook, MissedOnFirstLook, FoundOnSecondLook,
         Join, Drain, Wait, Own, SnapshotThrows, JoinDelivers, DrainLoops, SearchFinds,
         SearchMisses, OpenKnown, OpenBegin, OpenSucceeds, OpenFails, RecordThrows,
         SymbolFound, SymbolMissing, LoadThrows, Publish, PublishThrows, Fail, SetValue,
         GetThrows, AnswerThrows, FailThrows, OutcomeThrows, RethrowThrows,
         PromiseDestroyed, cache
  <2> QED BY <2>1, <2>2 DEF Next
<1>3. Inv /\ NoneLost => OpenedOnce
  BY DEF Inv, OpensAccounted, OpenedOnce
<1> QED BY <1>1, <1>2, <1>3, InvHolds, PTL DEF Spec

\* Every request that returns an entry returns the remembered one.
THEOREM SameEntryForAll == Spec => []ReturnsRemembered
<1>1. Inv => ReturnsRemembered
  BY DEF Inv, RememberInv, ReturnsRemembered
<1> QED BY <1>1, InvHolds, PTL

\* No request is failed by a search older than the request's own settings.
THEOREM FailuresAreCurrent == Spec => []FailureSawLocations
<1>1. Inv => FailureSawLocations
  <2> SUFFICES ASSUME Inv, NEW t \in Threads, pc[t] = "idle",
                      outcome[t].reason \in Reasons \ Searchless
               PROVE  owed[t] <= outcome[t].searched
    BY DEF FailureSawLocations
  <2>1. awaits[t] = NoThread
    BY DEF Inv, WaitInv
  <2> QED BY <2>1 DEF Inv, SearchInv
<1> QED BY <1>1, InvHolds, PTL

\* Entries and pinned libraries never change once they are there.
THEOREM NothingForgotten == Spec => RememberedForGood
<1> DEFINE Kept == /\ \A n \in Names : entries[n] # None => entries'[n] = entries[n]
                   /\ \A f \in Files : libraries[f] # NoHandle => libraries'[f] = libraries[f]
<1>1. Inv /\ [Next]_vars => [Kept]_vars
  <2> SUFFICES ASSUME Inv, Next PROVE Kept
    OBVIOUS
  <2>1. CASE PathAdd
    BY <2>1 DEF PathAdd
  <2>2. ASSUME NEW t \in Threads, Publish(t) \/ PublishThrows(t) PROVE Kept
    <3>1. in_flight[name[t]].by = t /\ name[t] \in Names /\ pc[t] = "publish"
      BY <2>2 DEF Inv, OwnerInv, TypeOK, Publish, PublishThrows, Loading
    <3>2. in_flight[name[t]] # NoFlight
      BY <3>1, NoThreadAssumption DEF NoFlight
    <3>3. entries[name[t]] = None
      BY <3>1, <3>2 DEF Inv, OwnerInv
    <3> QED BY <2>2, <3>3 DEF Publish, PublishThrows, Inv, TypeOK
  <2>3. ASSUME NEW t \in Threads, NEW h \in Handles, OpenSucceeds(t, h) PROVE Kept
    BY <2>3 DEF OpenSucceeds, Inv, OpenInv, TypeOK
  <2>4. ASSUME NEW t \in Threads, Proceed(t) \/ \E n \in Names : Request(t, n),
               ~Publish(t), ~PublishThrows(t), ~\E h \in Handles : OpenSucceeds(t, h)
        PROVE  entries' = entries /\ libraries' = libraries
    BY <2>4 DEF Proceed, Request, FoundOnFirstLook, MissedOnFirstLook, FoundOnSecondLook,
         Join, Drain, Wait, Own, SnapshotThrows, JoinDelivers, DrainLoops, SearchFinds,
         SearchMisses, OpenKnown, OpenBegin, OpenFails, RecordThrows, SymbolFound,
         SymbolMissing, LoadThrows, Fail, SetValue, GetThrows, AnswerThrows, FailThrows,
         OutcomeThrows, RethrowThrows, PromiseDestroyed, cache
  <2> QED BY <2>1, <2>2, <2>3, <2>4 DEF Next
<1>2. [][Kept]_vars => RememberedForGood
  BY PTL DEF RememberedForGood
<1> QED BY <1>1, <1>2, InvHolds, PTL DEF Spec

\* No promise is ever destroyed unset.
PromisesKept ==
  /\ \A n \in Names : ~in_flight[n].broken
  /\ \A t \in Threads : ~Abandoning(t)

\* Without allocation failures every promise is set before it is destroyed.
LEMMA PromisesStep ==
  ASSUME ~MemoryFaults, Inv, PromisesKept, [Next]_vars
  PROVE  PromisesKept'
<1> USE DEF PromisesKept, Abandoning, Inv, TypeOK, LocalsInv, WaitInv
<1>1. CASE UNCHANGED vars \/ PathAdd
  BY <1>1 DEF vars, PathAdd, locals
<1>2. ASSUME NEW t \in Threads, SetValue(t) PROVE PromisesKept'
  BY <1>2 DEF SetValue, Settle, Loading, cache
<1>3. ASSUME NEW t \in Threads, Publish(t) \/ Fail(t) PROVE PromisesKept'
  <2>1. CASE Publish(t)
    BY <2>1, SMTT(40) DEF Publish, NoFlight, Reasons, Searchless
  <2>2. CASE Fail(t)
    BY <2>2, SMTT(40) DEF Fail, NoFlight, Reasons, Searchless
  <2>3. QED
    BY <1>3, <2>1, <2>2
<1>4. ASSUME NEW t \in Threads, Own(t) PROVE PromisesKept'
  BY <1>4 DEF Own
<1>5. ASSUME NEW t \in Threads, Proceed(t) \/ \E n \in Names : Request(t, n),
             ~SetValue(t), ~PromiseDestroyed(t), ~Publish(t), ~Fail(t), ~Own(t)
      PROVE  /\ in_flight' = in_flight
             /\ \A u \in Threads : pc'[u] = "set" => pc[u] = "set" /\ outcome'[u] = outcome[u]
  BY <1>5 DEF Proceed, Request, FoundOnFirstLook, MissedOnFirstLook, FoundOnSecondLook,
       Return, Join, Drain, Wait, SnapshotThrows, JoinDelivers, DrainLoops, SearchFinds,
       SearchMisses, FailWith, OpenKnown, OpenBegin, OpenSucceeds, OpenFails, SymbolFound,
       SymbolMissing, RecordThrows, LoadThrows, PublishThrows, GetThrows, AnswerThrows,
       FailThrows, OutcomeThrows, RethrowThrows, cache
<1>6. ASSUME NEW t \in Threads, PromiseDestroyed(t) PROVE FALSE
  BY <1>6 DEF PromiseDestroyed
<1> QED BY <1>1, <1>2, <1>3, <1>4, <1>5, <1>6 DEF Next

\* "A failure is ... not remembered, so the next request tries again": every
\* record in in_flight belongs to a load that is still running.
InFlightIsRunning ==
  \A n \in Names : in_flight[n] # NoFlight =>
    /\ pc[in_flight[n].by] \in Loading
    /\ name[in_flight[n].by] = n

\* As long as no allocation fails, in_flight only holds loads that are running:
\* a failed load leaves nothing behind and the next request tries again.
THEOREM FailuresForgotten ==
  ASSUME ~MemoryFaults
  PROVE  Spec => []InFlightIsRunning
<1>1. Init => PromisesKept
  BY DEF Init, PromisesKept, Abandoning, NoFlight
<1>2. Inv /\ PromisesKept /\ [Next]_vars => PromisesKept'
  BY PromisesStep
<1>3. Inv /\ PromisesKept => InFlightIsRunning
  BY DEF Inv, OwnerInv, PromisesKept, InFlightIsRunning
<1> QED BY <1>1, <1>2, <1>3, InvHolds, PTL DEF Spec

=============================================================================
