-------------------------- MODULE PakLoader_proofs --------------------------
(***************************************************************************)
(* Theorems about PakLoader, for every number of threads, paks and         *)
(* versions, with files replaced and rewritten in place and with           *)
(* allocation failures allowed.  The invariants of PakLoader are not       *)
(* inductive as they stand; Inv is.                                        *)
(***************************************************************************)
EXTENDS PakLoader, TLAPS

----------------------------------------------------------------------------
(* The inductive invariant. *)

\* Versions are never reused: a file that exists holds no version that is
\* still to come, one that does not exist yet holds its own number.
FilesInv ==
  /\ \A f \in Versions : IF f <= latest THEN content[f] <= latest ELSE content[f] = f
  /\ \A i \in Identities : disk[i] <= latest
  /\ \A t \in Threads : handle[t] <= latest

\* The places in Request after a stamp was taken.
Stamped == States \ {"idle", "open", "stamp"}

\* Description x was read from file f, after version v was there: between its
\* stamp and now the file only moved forward.
ReadFrom(x, f, v) ==
  /\ x.stamp.file = f
  /\ v <= x.stamp.version
  /\ x.stamp.version <= x.layout
  /\ x.layout <= content[f]

\* Thread t has a description: of its own or another's validation, or the
\* remembered one.
Holds(t) ==
  \/ pc[t] = "read"
  \/ pc[t] \in {"publish", "set", "wait", "outcome"} /\ result[t] = "ok"

\* What each thread knows is of the file it opened, and no older than its stamp.
LocalsInv ==
  /\ \A t \in Threads :
       /\ pc[t] \in Stamped =>
            stamp[t].file = handle[t] /\ stamp[t].version <= content[handle[t]]
       /\ pc[t] = "describe" =>
            /\ index[t].stamp.file = handle[t]
            /\ stamp[t].version <= index[t].stamp.version
            /\ index[t].stamp.version <= content[handle[t]]
       /\ Holds(t) => ReadFrom(index[t], handle[t], stamp[t].version)
       /\ pc[t] \notin {"publish", "set", "wait", "outcome", "read"} => result[t] = "none"
       /\ pc[t] = "publish" => result[t] \in {"ok", "failed"}
  /\ \A i \in Identities : remembered[i] # NoIndex =>
       ReadFrom(remembered[i], remembered[i].stamp.file, remembered[i].stamp.version)

\* Only waiting threads hold a future, and its promise is still to be set.
WaitInv ==
  \A u \in Threads : awaits[u] # NoThread =>
    /\ pc[u] = "wait"
    /\ pc[awaits[u]] \in Validating \cup {"set"}
    /\ identity[awaits[u]] = identity[u]
    /\ stamp[awaits[u]] = stamp[u]

\* A record has a thread, and unless it is broken that thread validates the
\* version it names, or is about to destroy its promise.
OwnerInv ==
  \A i \in Identities : in_flight[i] # NoFlight =>
    /\ in_flight[i].by \in Threads
    /\ ~in_flight[i].broken =>
         /\ identity[in_flight[i].by] = i
         /\ stamp[in_flight[i].by] = in_flight[i].stamp
         /\ \/ pc[in_flight[i].by] \in Validating
            \/ pc[in_flight[i].by] = "set" /\ result[in_flight[i].by] = "broken"

\* Nobody has touched pak i.
Untouched(i) == disk[i] = 0 /\ content[0] = 0

\* Every request for an untouched pak has its first stamp, so whoever validates
\* it owns the only record there is, and what was stored once is found.
OnceInv ==
  \A i \in Identities : Untouched(i) =>
    /\ \A t \in Threads : identity[t] = i =>
         /\ pc[t] \in Stamped \cup {"stamp"} => handle[t] = 0
         /\ pc[t] \in Validating =>
              /\ in_flight[i].by = t
              /\ remembered[i] = NoIndex
    /\ in_flight[i].stamp = NoStamp
    /\ remembered[i].stamp = NoStamp
    /\ checks[i][0] <= 1
    /\ checks[i][0] # 0 => remembered[i] # NoIndex

\* All of it.
Inv ==
  /\ TypeOK
  /\ FilesInv
  /\ LocalsInv
  /\ WaitInv
  /\ OwnerInv
  /\ OnceInv

----------------------------------------------------------------------------
(* The values, so that the steps need not look into the records. *)

\* Stamps and descriptions are made of versions.
LEMMA Values ==
  /\ 0 \in Versions /\ Versions \subseteq Nat
  /\ NoStamp \in Stamps
  /\ \A f, v \in Versions : [file |-> f, version |-> v] \in Stamps
  /\ \A s \in Stamps, v \in Versions : [stamp |-> s, layout |-> v] \in Indexes
  /\ \A s \in Stamps : s.file \in Versions /\ s.version \in Versions
  /\ \A x \in Indexes \cup {NoIndex} : x.stamp \in Stamps /\ x.layout \in Nat
BY MaxVersionAssumption DEF Versions, Stamps, NoStamp, Indexes, NoIndex

\* Records of in_flight: the ones Own and SetValue make.
LEMMA FlightValues ==
  /\ NoFlight \in InFlight
  /\ \A t \in Threads, s \in Stamps : [by |-> t, stamp |-> s, broken |-> FALSE] \in InFlight
  /\ \A r \in InFlight : r.by \in Threads \cup {NoThread} /\ r.stamp \in Stamps
  /\ \A r \in InFlight : [r EXCEPT !.broken = TRUE] \in InFlight
BY Values DEF InFlight, NoFlight

\* PakIndexRead fills in the description.
LEMMA DescribeValue ==
  ASSUME NEW x \in Indexes \cup {NoIndex}, NEW v \in Versions
  PROVE  [x EXCEPT !.layout = v] \in Indexes
BY Values DEF Indexes, NoIndex

----------------------------------------------------------------------------
(* Each part is preserved by every step. *)

\* The types.
LEMMA TypeStep == TypeOK /\ [Next]_vars => TypeOK'
<1> SUFFICES ASSUME TypeOK, [Next]_vars PROVE TypeOK'
  OBVIOUS
<1> USE NoThreadAssumption, Values, FlightValues
<1> USE DEF TypeOK, States, Validating, Results, Many
<1>1. ASSUME NEW i \in Identities, Replace(i) PROVE TypeOK'
  <2>1. latest + 1 \in Versions
    BY <1>1, MaxVersionAssumption DEF Replace, Versions
  <2> QED BY <1>1, <2>1 DEF Replace, loader, locals
<1>2. ASSUME NEW i \in Identities, Rewrite(i) PROVE TypeOK'
  <2>1. latest + 1 \in Versions
    BY <1>2, MaxVersionAssumption DEF Rewrite, Versions
  <2> QED BY <1>2, <2>1 DEF Rewrite, loader, locals
<1>3. CASE UNCHANGED vars
  BY <1>3 DEF vars
<1>4. ASSUME NEW t \in Threads, Proceed(t) \/ \E i \in Identities : Request(t, i)
      PROVE  TypeOK'
  <2>1. CASE Open(t)
    BY <2>1 DEF Open, files, loader
  <2>2. CASE TakeStamp(t)
    BY <2>2 DEF TakeStamp, Stamp, files, loader
  <2>3. CASE RequestFails(t)
    BY <2>3 DEF RequestFails, Return, files, loader
  <2>4. CASE FoundOnFirstLook(t)
    BY <2>4 DEF FoundOnFirstLook, Found, Known, files, loader
  <2>5. CASE MissedOnFirstLook(t)
    BY <2>5 DEF MissedOnFirstLook, Goto, files, loader
  <2>6. CASE FoundOnSecondLook(t)
    BY <2>6 DEF FoundOnSecondLook, Found, Known, files, loader
  <2>7. CASE Join(t)
    BY <2>7 DEF Join, Undecided, SameFlight, files, loader
  <2>8. CASE Own(t)
    BY <2>8 DEF Own, Undecided, Known, SameFlight, Goto, files
  <2>9. CASE ValidateStamp(t)
    BY <2>9 DEF ValidateStamp, Stamp, files, loader
  <2>10. CASE ValidateDescription(t)
    BY <2>10, DescribeValue DEF ValidateDescription, files, loader
  <2>11. CASE ValidateFails(t)
    BY <2>11 DEF ValidateFails, files, loader
  <2>12. CASE Publish(t)
    <3>1. Erase(t) \in InFlight
      BY DEF Erase
    <3>2. in_flight' \in [Identities -> InFlight]
      BY <2>12, <3>1 DEF Publish
    <3>3. remembered' \in [Identities -> Indexes \cup {NoIndex}]
      BY <2>12 DEF Publish
    <3>4. ASSUME NEW i \in Identities, NEW v \in Versions
          PROVE  Stored(i, v) \in [Identities -> [Versions -> 0..Many]]
      BY DEF Stored
    <3>5. checks' \in [Identities -> [Versions -> 0..Many]]
      BY <2>12, <3>4 DEF Publish
    <3> QED BY <2>12, <3>2, <3>3, <3>5 DEF Publish, Goto, files
  <2>13. CASE StoreThrows(t)
    BY <2>13 DEF StoreThrows, files, loader
  <2>14. CASE SetThrows(t)
    BY <2>14 DEF SetThrows, files, loader
  <2>15. CASE SetValue(t)
    BY <2>15 DEF SetValue, Waiters, files
  <2>16. CASE WaitEnds(t)
    BY <2>16 DEF WaitEnds, Goto, files, loader
  <2>17. CASE Succeed(t)
    BY <2>17 DEF Succeed, Goto, files, loader
  <2>18. CASE Throw(t)
    BY <2>18 DEF Throw, Return, files, loader
  <2>19. CASE ReadEnds(t)
    BY <2>19 DEF ReadEnds, Return, files, loader
  <2>20. CASE \E i \in Identities : Request(t, i)
    BY <2>20 DEF Request, files, loader
<2> QED BY <1>4, <2>1, <2>2, <2>3, <2>4, <2>5, <2>6, <2>7, <2>8, <2>9, <2>10, <2>11, <2>12,
          <2>13, <2>14, <2>15, <2>16, <2>17, <2>18, <2>19, <2>20 DEF Proceed
<1> QED BY <1>1, <1>2, <1>3, <1>4 DEF Next

\* Versions stay ahead of every file.
LEMMA FilesStep == TypeOK /\ FilesInv /\ [Next]_vars => FilesInv'
<1> SUFFICES ASSUME TypeOK, FilesInv, [Next]_vars PROVE FilesInv'
  OBVIOUS
<1> USE NoThreadAssumption, Values, FlightValues
<1> USE DEF TypeOK, FilesInv
<1>1. ASSUME NEW i \in Identities, Replace(i) PROVE FilesInv'
  BY <1>1 DEF Replace, loader, locals
<1>2. ASSUME NEW i \in Identities, Rewrite(i) PROVE FilesInv'
  BY <1>2 DEF Rewrite, loader, locals
<1>3. CASE UNCHANGED vars
  BY <1>3 DEF vars
<1>4. ASSUME NEW t \in Threads, Proceed(t) \/ \E i \in Identities : Request(t, i)
      PROVE  FilesInv'
  <2>1. CASE Open(t)
    BY <2>1 DEF Open, files, loader
  <2>2. CASE TakeStamp(t)
    BY <2>2 DEF TakeStamp, Stamp, files, loader
  <2>3. CASE RequestFails(t)
    BY <2>3 DEF RequestFails, Return, files, loader
  <2>4. CASE FoundOnFirstLook(t)
    BY <2>4 DEF FoundOnFirstLook, Found, Known, files, loader
  <2>5. CASE MissedOnFirstLook(t)
    BY <2>5 DEF MissedOnFirstLook, Goto, files, loader
  <2>6. CASE FoundOnSecondLook(t)
    BY <2>6 DEF FoundOnSecondLook, Found, Known, files, loader
  <2>7. CASE Join(t)
    BY <2>7 DEF Join, Undecided, SameFlight, files, loader
  <2>8. CASE Own(t)
    BY <2>8 DEF Own, Undecided, Known, SameFlight, Goto, files
  <2>9. CASE ValidateStamp(t)
    BY <2>9 DEF ValidateStamp, Stamp, files, loader
  <2>10. CASE ValidateDescription(t)
    BY <2>10 DEF ValidateDescription, files, loader
  <2>11. CASE ValidateFails(t)
    BY <2>11 DEF ValidateFails, files, loader
  <2>12. CASE Publish(t)
    BY <2>12 DEF Publish, Erase, Stored, Many, Goto, files
  <2>13. CASE StoreThrows(t)
    BY <2>13 DEF StoreThrows, files, loader
  <2>14. CASE SetThrows(t)
    BY <2>14 DEF SetThrows, files, loader
  <2>15. CASE SetValue(t)
    BY <2>15 DEF SetValue, Waiters, files
  <2>16. CASE WaitEnds(t)
    BY <2>16 DEF WaitEnds, Goto, files, loader
  <2>17. CASE Succeed(t)
    BY <2>17 DEF Succeed, Goto, files, loader
  <2>18. CASE Throw(t)
    BY <2>18 DEF Throw, Return, files, loader
  <2>19. CASE ReadEnds(t)
    BY <2>19 DEF ReadEnds, Return, files, loader
  <2>20. CASE \E i \in Identities : Request(t, i)
    BY <2>20 DEF Request, files, loader
<2> QED BY <1>4, <2>1, <2>2, <2>3, <2>4, <2>5, <2>6, <2>7, <2>8, <2>9, <2>10, <2>11, <2>12,
          <2>13, <2>14, <2>15, <2>16, <2>17, <2>18, <2>19, <2>20 DEF Proceed
<1> QED BY <1>1, <1>2, <1>3, <1>4 DEF Next

\* What threads know stays of the file they opened.
LEMMA LocalsStep == TypeOK /\ FilesInv /\ LocalsInv /\ WaitInv /\ [Next]_vars => LocalsInv'
<1> SUFFICES ASSUME TypeOK, FilesInv, LocalsInv, WaitInv, [Next]_vars PROVE LocalsInv'
  OBVIOUS
<1> USE NoThreadAssumption, Values, FlightValues
<1> USE DEF TypeOK, LocalsInv, ReadFrom, Holds, Stamped, States, Validating
<1>1. ASSUME NEW i \in Identities, Replace(i) PROVE LocalsInv'
  BY <1>1 DEF Replace, loader, locals
<1>2. ASSUME NEW i \in Identities, Rewrite(i) PROVE LocalsInv'
  <2>1. latest + 1 \in Nat /\ content[disk[i]] <= latest
    BY DEF FilesInv
  <2>2. ASSUME NEW f \in Versions PROVE content[f] <= content'[f] /\ content'[f] \in Nat
    BY <1>2, <2>1 DEF Rewrite
  <2>3. ASSUME NEW x \in Indexes \cup {NoIndex}, NEW f \in Versions, NEW v, ReadFrom(x, f, v)
        PROVE  ReadFrom(x, f, v)'
    BY <2>2, <2>3
  <2>4. UNCHANGED <<remembered, pc, handle, stamp, index, result>>
    BY <1>2 DEF Rewrite, loader, locals
  <2>5. ASSUME NEW t \in Threads PROVE content[handle[t]] <= content'[handle[t]]
    BY <2>2
  <2>6. ASSUME NEW t \in Threads, NEW v \in Nat, v <= content[handle[t]]
        PROVE  v <= content'[handle[t]]
    BY <2>2, <2>5, <2>6
  <2>7. ASSUME NEW t \in Threads
        PROVE  /\ stamp[t].version \in Nat /\ index[t].stamp.version \in Nat
               /\ handle[t] \in Versions /\ index[t] \in Indexes \cup {NoIndex}
    OBVIOUS
  <2>8. ASSUME NEW j \in Identities
        PROVE  /\ remembered[j] \in Indexes \cup {NoIndex}
               /\ remembered[j].stamp.file \in Versions
    OBVIOUS
  <2> HIDE DEF ReadFrom, TypeOK
  <2> QED BY <2>3, <2>4, <2>6, <2>7, <2>8
<1>3. CASE UNCHANGED vars
  BY <1>3 DEF vars
<1>4. ASSUME NEW t \in Threads, Proceed(t) \/ \E i \in Identities : Request(t, i)
      PROVE  LocalsInv'
  <2>1. CASE Open(t)
    BY <2>1 DEF Open, files, loader
  <2>2. CASE TakeStamp(t)
    BY <2>2 DEF TakeStamp, Stamp, files, loader
  <2>3. CASE RequestFails(t)
    BY <2>3 DEF RequestFails, Return, files, loader
  <2>4. CASE FoundOnFirstLook(t)
    BY <2>4 DEF FoundOnFirstLook, Found, Known, files, loader
  <2>5. CASE MissedOnFirstLook(t)
    BY <2>5 DEF MissedOnFirstLook, Goto, files, loader
  <2>6. CASE FoundOnSecondLook(t)
    BY <2>6 DEF FoundOnSecondLook, Found, Known, files, loader
  <2>7. CASE Join(t)
    BY <2>7 DEF Join, Undecided, SameFlight, files, loader
  <2>8. CASE Own(t)
    BY <2>8 DEF Own, Undecided, Known, SameFlight, Goto, files
  <2>9. CASE ValidateStamp(t)
    BY <2>9 DEF ValidateStamp, Stamp, files, loader
  <2>10. CASE ValidateDescription(t)
    BY <2>10 DEF ValidateDescription, files, loader
  <2>11. CASE ValidateFails(t)
    BY <2>11 DEF ValidateFails, files, loader
  <2>12. CASE Publish(t)
    <3>1. pc[t] = "publish"
      BY <2>12 DEF Publish
    <3>2. UNCHANGED <<content, handle, stamp, index, result>>
      BY <2>12 DEF Publish, Goto, files
    <3>3. pc' = [pc EXCEPT ![t] = "set"]
      BY <2>12 DEF Publish, Goto
    <3>4. ASSUME NEW i \in Identities, remembered'[i] # remembered[i]
          PROVE  ReadFrom(index[t], handle[t], stamp[t].version) /\ remembered'[i] = index[t]
      BY <3>1, <3>4, <2>12 DEF Publish
    <3>5. ASSUME NEW i \in Identities, remembered'[i] # NoIndex
          PROVE  ReadFrom(remembered'[i], remembered'[i].stamp.file, remembered'[i].stamp.version)
      <4>1. CASE remembered'[i] = remembered[i]
        BY <3>5, <4>1
      <4>2. CASE remembered'[i] # remembered[i]
        <5>1. remembered'[i] = index[t] /\ ReadFrom(index[t], handle[t], stamp[t].version)
          BY <3>4, <4>2
        <5>2. index[t].stamp.version \in Nat
          OBVIOUS
        <5> QED BY <5>1, <5>2
      <4> QED BY <4>1, <4>2
    <3> QED BY <3>1, <3>2, <3>3, <3>5
  <2>13. CASE StoreThrows(t)
    BY <2>13 DEF StoreThrows, files, loader
  <2>14. CASE SetThrows(t)
    BY <2>14 DEF SetThrows, files, loader
  <2>15. CASE SetValue(t)
    <3>1. /\ pc[t] = "set"
          /\ pc' = [pc EXCEPT ![t] = "outcome"]
          /\ UNCHANGED <<content, handle, stamp, remembered>>
      BY <2>15 DEF SetValue, files
    <3>2. ASSUME NEW u \in Threads, u \notin Waiters(t)
          PROVE  index'[u] = index[u] /\ result'[u] = result[u]
      BY <3>2, <2>15 DEF SetValue
    <3>3. ASSUME NEW u \in Waiters(t)
          PROVE  /\ u \in Threads /\ pc[u] = "wait" /\ u # t
                 /\ index'[u] = index[t] /\ result'[u] = result[t]
                 /\ stamp[u] = stamp[t] /\ handle[u] = handle[t]
      <4>1. u \in Threads /\ awaits[u] = t
        BY DEF Waiters
      <4>2. pc[u] = "wait" /\ stamp[t] = stamp[u]
        BY <4>1 DEF WaitInv
      <4>3. index'[u] = index[t] /\ result'[u] = result[t]
        BY <4>1, <2>15 DEF SetValue
      <4>4. stamp[u].file = handle[u]
        BY <4>1, <4>2
      <4>5. stamp[t].file = handle[t]
        BY <3>1
      <4> QED BY <3>1, <4>1, <4>2, <4>3, <4>4, <4>5
    <3> QED BY <3>1, <3>2, <3>3
  <2>16. CASE WaitEnds(t)
    BY <2>16 DEF WaitEnds, Goto, files, loader
  <2>17. CASE Succeed(t)
    BY <2>17 DEF Succeed, Goto, files, loader
  <2>18. CASE Throw(t)
    BY <2>18 DEF Throw, Return, files, loader
  <2>19. CASE ReadEnds(t)
    BY <2>19 DEF ReadEnds, Return, files, loader
  <2>20. CASE \E i \in Identities : Request(t, i)
    BY <2>20 DEF Request, files, loader
<2> QED BY <1>4, <2>1, <2>2, <2>3, <2>4, <2>5, <2>6, <2>7, <2>8, <2>9, <2>10, <2>11, <2>12,
          <2>13, <2>14, <2>15, <2>16, <2>17, <2>18, <2>19, <2>20 DEF Proceed
<1> QED BY <1>1, <1>2, <1>3, <1>4 DEF Next

\* A promise somebody waits for is not forgotten.
LEMMA WaitStep == TypeOK /\ OwnerInv /\ WaitInv /\ [Next]_vars => WaitInv'
<1> SUFFICES ASSUME TypeOK, OwnerInv, WaitInv, [Next]_vars PROVE WaitInv'
  OBVIOUS
<1> USE NoThreadAssumption, Values, FlightValues
<1> USE DEF TypeOK, Validating, WaitInv, OwnerInv
<1>1. ASSUME NEW i \in Identities, Replace(i) PROVE WaitInv'
  BY <1>1 DEF Replace, loader, locals
<1>2. ASSUME NEW i \in Identities, Rewrite(i) PROVE WaitInv'
  BY <1>2 DEF Rewrite, loader, locals
<1>3. CASE UNCHANGED vars
  BY <1>3 DEF vars
<1>4. ASSUME NEW t \in Threads, Proceed(t) \/ \E i \in Identities : Request(t, i)
      PROVE  WaitInv'
  <2>1. CASE Open(t)
    BY <2>1 DEF Open, files, loader
  <2>2. CASE TakeStamp(t)
    <3>1. pc[t] \notin Validating \cup {"set", "wait"}
      BY <2>2 DEF TakeStamp
    <3>2. ASSUME NEW u \in Threads, awaits[u] # NoThread PROVE u # t /\ awaits[u] # t
      BY <3>1, <3>2
    <3> QED BY <2>2, <3>2 DEF TakeStamp, files, loader
  <2>3. CASE RequestFails(t)
    <3>1. pc[t] \notin Validating \cup {"set", "wait"}
      BY <2>3 DEF RequestFails
    <3>2. ASSUME NEW u \in Threads, awaits[u] # NoThread PROVE u # t /\ awaits[u] # t
      BY <3>1, <3>2
    <3> QED BY <2>3, <3>2 DEF RequestFails, Return, files, loader
  <2>4. CASE FoundOnFirstLook(t)
    BY <2>4 DEF FoundOnFirstLook, Found, Known, files, loader
  <2>5. CASE MissedOnFirstLook(t)
    BY <2>5 DEF MissedOnFirstLook, Goto, files, loader
  <2>6. CASE FoundOnSecondLook(t)
    BY <2>6 DEF FoundOnSecondLook, Found, Known, files, loader
  <2>7. CASE Join(t)
    BY <2>7 DEF Join, Undecided, SameFlight, files, loader
  <2>8. CASE Own(t)
    BY <2>8 DEF Own, Undecided, Known, SameFlight, Goto, files
  <2>9. CASE ValidateStamp(t)
    BY <2>9 DEF ValidateStamp, Stamp, files, loader
  <2>10. CASE ValidateDescription(t)
    BY <2>10 DEF ValidateDescription, files, loader
  <2>11. CASE ValidateFails(t)
    BY <2>11 DEF ValidateFails, files, loader
  <2>12. CASE Publish(t)
    BY <2>12 DEF Publish, Erase, Stored, Many, Goto, files
  <2>13. CASE StoreThrows(t)
    BY <2>13 DEF StoreThrows, files, loader
  <2>14. CASE SetThrows(t)
    BY <2>14 DEF SetThrows, files, loader
  <2>15. CASE SetValue(t)
    BY <2>15 DEF SetValue, Waiters, files
  <2>16. CASE WaitEnds(t)
    BY <2>16 DEF WaitEnds, Goto, files, loader
  <2>17. CASE Succeed(t)
    BY <2>17 DEF Succeed, Goto, files, loader
  <2>18. CASE Throw(t)
    <3>1. pc[t] \notin Validating \cup {"set", "wait"}
      BY <2>18 DEF Throw
    <3>2. ASSUME NEW u \in Threads, awaits[u] # NoThread PROVE u # t /\ awaits[u] # t
      BY <3>1, <3>2
    <3> QED BY <2>18, <3>2 DEF Throw, Return, files, loader
  <2>19. CASE ReadEnds(t)
    <3>1. pc[t] \notin Validating \cup {"set", "wait"}
      BY <2>19 DEF ReadEnds
    <3>2. ASSUME NEW u \in Threads, awaits[u] # NoThread PROVE u # t /\ awaits[u] # t
      BY <3>1, <3>2
    <3> QED BY <2>19, <3>2 DEF ReadEnds, Return, files, loader
  <2>20. CASE \E i \in Identities : Request(t, i)
    <3>1. pc[t] \notin Validating \cup {"set", "wait"}
      BY <2>20 DEF Request
    <3>2. ASSUME NEW u \in Threads, awaits[u] # NoThread PROVE u # t /\ awaits[u] # t
      BY <3>1, <3>2
    <3> QED BY <2>20, <3>2 DEF Request, files, loader
<2> QED BY <1>4, <2>1, <2>2, <2>3, <2>4, <2>5, <2>6, <2>7, <2>8, <2>9, <2>10, <2>11, <2>12,
          <2>13, <2>14, <2>15, <2>16, <2>17, <2>18, <2>19, <2>20 DEF Proceed
<1> QED BY <1>1, <1>2, <1>3, <1>4 DEF Next

\* Records and validations stay together.
LEMMA OwnerStep == TypeOK /\ LocalsInv /\ WaitInv /\ OwnerInv /\ [Next]_vars => OwnerInv'
<1> SUFFICES ASSUME TypeOK, LocalsInv, WaitInv, OwnerInv, [Next]_vars PROVE OwnerInv'
  OBVIOUS
<1> USE NoThreadAssumption, Values, FlightValues
<1> USE DEF TypeOK, Validating, LocalsInv, OwnerInv
<1>1. ASSUME NEW i \in Identities, Replace(i) PROVE OwnerInv'
  BY <1>1 DEF Replace, loader, locals
<1>2. ASSUME NEW i \in Identities, Rewrite(i) PROVE OwnerInv'
  BY <1>2 DEF Rewrite, loader, locals
<1>3. CASE UNCHANGED vars
  BY <1>3 DEF vars
<1>4. ASSUME NEW t \in Threads, Proceed(t) \/ \E i \in Identities : Request(t, i)
      PROVE  OwnerInv'
  <2>1. CASE Open(t)
    BY <2>1 DEF Open, files, loader
  <2>2. CASE TakeStamp(t)
    BY <2>2 DEF TakeStamp, Stamp, files, loader
  <2>3. CASE RequestFails(t)
    BY <2>3 DEF RequestFails, Return, files, loader
  <2>4. CASE FoundOnFirstLook(t)
    BY <2>4 DEF FoundOnFirstLook, Found, Known, files, loader
  <2>5. CASE MissedOnFirstLook(t)
    BY <2>5 DEF MissedOnFirstLook, Goto, files, loader
  <2>6. CASE FoundOnSecondLook(t)
    BY <2>6 DEF FoundOnSecondLook, Found, Known, files, loader
  <2>7. CASE Join(t)
    BY <2>7 DEF Join, Undecided, SameFlight, files, loader
  <2>8. CASE Own(t)
    BY <2>8 DEF Own, Undecided, Known, SameFlight, Goto, files
  <2>9. CASE ValidateStamp(t)
    BY <2>9 DEF ValidateStamp, Stamp, files, loader
  <2>10. CASE ValidateDescription(t)
    BY <2>10 DEF ValidateDescription, files, loader
  <2>11. CASE ValidateFails(t)
    BY <2>11 DEF ValidateFails, files, loader
  <2>12. CASE Publish(t)
    BY <2>12 DEF Publish, Erase, Stored, Many, Goto, files
  <2>13. CASE StoreThrows(t)
    BY <2>13 DEF StoreThrows, files, loader
  <2>14. CASE SetThrows(t)
    BY <2>14 DEF SetThrows, files, loader
  <2>15. CASE SetValue(t)
    <3> SUFFICES ASSUME NEW i \in Identities, in_flight'[i] # NoFlight
                 PROVE  /\ in_flight'[i].by \in Threads
                        /\ ~in_flight'[i].broken =>
                             /\ in_flight'[i] = in_flight[i]
                             /\ in_flight[i].by # t
                             /\ in_flight[i].by \notin Waiters(t)
                             /\ identity[in_flight[i].by] = i
                             /\ stamp[in_flight[i].by] = in_flight[i].stamp
                             /\ \/ pc[in_flight[i].by] \in Validating
                                \/ /\ pc[in_flight[i].by] = "set"
                                   /\ result[in_flight[i].by] = "broken"
      BY <2>15 DEF SetValue, files
    <3>1. pc[t] = "set"
      BY <2>15 DEF SetValue
    <3>2. ASSUME NEW u \in Waiters(t) PROVE pc[u] = "wait"
      BY <3>2 DEF Waiters, WaitInv
    <3>3. CASE result[t] = "broken" /\ in_flight[identity[t]].by = t /\ identity[t] = i
      <4>1. in_flight'[i] = [in_flight[i] EXCEPT !.broken = TRUE]
        BY <2>15, <3>3 DEF SetValue
      <4>2. in_flight'[i].by = t /\ in_flight'[i].broken
        BY <3>3, <4>1 DEF InFlight
      <4> QED BY <4>2
    <3>4. CASE ~(result[t] = "broken" /\ in_flight[identity[t]].by = t /\ identity[t] = i)
      <4>1. in_flight'[i] = in_flight[i]
        BY <2>15, <3>4 DEF SetValue
      <4> QED BY <3>1, <3>2, <3>4, <4>1
    <3> QED BY <3>3, <3>4
  <2>16. CASE WaitEnds(t)
    BY <2>16 DEF WaitEnds, Goto, files, loader
  <2>17. CASE Succeed(t)
    BY <2>17 DEF Succeed, Goto, files, loader
  <2>18. CASE Throw(t)
    BY <2>18 DEF Throw, Return, files, loader
  <2>19. CASE ReadEnds(t)
    BY <2>19 DEF ReadEnds, Return, files, loader
  <2>20. CASE \E i \in Identities : Request(t, i)
    BY <2>20 DEF Request, files, loader
<2> QED BY <1>4, <2>1, <2>2, <2>3, <2>4, <2>5, <2>6, <2>7, <2>8, <2>9, <2>10, <2>11, <2>12,
          <2>13, <2>14, <2>15, <2>16, <2>17, <2>18, <2>19, <2>20 DEF Proceed
<1> QED BY <1>1, <1>2, <1>3, <1>4 DEF Next

\* An untouched pak is validated by one thread.
LEMMA OnceStep ==
  TypeOK /\ FilesInv /\ LocalsInv /\ OwnerInv /\ OnceInv /\ [Next]_vars => OnceInv'
<1> SUFFICES ASSUME TypeOK, FilesInv, LocalsInv, OwnerInv, OnceInv, [Next]_vars PROVE OnceInv'
  OBVIOUS
<1> USE NoThreadAssumption, Values, FlightValues
<1> USE DEF TypeOK, OnceInv, Untouched, Stamped, States, Validating
<1>1. ASSUME NEW i \in Identities, Replace(i) PROVE OnceInv'
  BY <1>1 DEF Replace, loader, locals
<1>2. ASSUME NEW i \in Identities, Rewrite(i) PROVE OnceInv'
  BY <1>2 DEF Rewrite, loader, locals
<1>3. CASE UNCHANGED vars
  BY <1>3 DEF vars
<1>4. ASSUME NEW t \in Threads, Proceed(t) \/ \E i \in Identities : Request(t, i)
      PROVE  OnceInv'
  <2>1. CASE Open(t)
    BY <2>1 DEF Open, files, loader
  <2>2. CASE TakeStamp(t)
    BY <2>2 DEF TakeStamp, Stamp, files, loader
  <2>3. CASE RequestFails(t)
    BY <2>3 DEF RequestFails, Return, files, loader
  <2>4. CASE FoundOnFirstLook(t)
    BY <2>4 DEF FoundOnFirstLook, Found, Known, files, loader
  <2>5. CASE MissedOnFirstLook(t)
    BY <2>5 DEF MissedOnFirstLook, Goto, files, loader
  <2>6. CASE FoundOnSecondLook(t)
    BY <2>6 DEF FoundOnSecondLook, Found, Known, files, loader
  <2>7. CASE Join(t)
    BY <2>7 DEF Join, Undecided, SameFlight, files, loader
  <2>8. CASE Own(t)
    <3>1. ASSUME Untouched(identity[t]), pc[t] \in Stamped PROVE stamp[t] = NoStamp
      <4>1. handle[t] = 0 /\ stamp[t].file = 0 /\ stamp[t].version <= 0
        BY <3>1 DEF LocalsInv
      <4>2. stamp[t] \in Stamps /\ stamp[t].version \in Nat
        OBVIOUS
      <4> QED BY <4>1, <4>2 DEF Stamps, NoStamp
    <3>2. pc[t] = "decide" /\ ~Known(t) /\ ~SameFlight(t)
      BY <2>8 DEF Own, Undecided
    <3>3. ASSUME Untouched(identity[t])
          PROVE  /\ remembered[identity[t]] = NoIndex
                 /\ in_flight[identity[t]].by = NoThread
                 /\ stamp[t] = NoStamp
      BY <3>1, <3>2, <3>3 DEF Known, SameFlight, NoFlight
    <3>4. /\ pc' = [pc EXCEPT ![t] = "validate"]
          /\ UNCHANGED <<disk, content, identity, handle, remembered, checks>>
          /\ in_flight' = [in_flight EXCEPT ![identity[t]] =
                              [by |-> t, stamp |-> stamp[t], broken |-> FALSE]]
      BY <2>8 DEF Own, Goto, files
    <3>5. ASSUME NEW i \in Identities, i # identity[t]
          PROVE  /\ UNCHANGED in_flight[i]
                 /\ \A u \in Threads : identity[u] = i => UNCHANGED pc[u]
      BY <3>4, <3>5
    <3>6. ASSUME Untouched(identity[t]), NEW u \in Threads, identity[u] = identity[t]
          PROVE  pc[u] \notin Validating
      BY <3>3, <3>6
    <3> QED BY <3>2, <3>3, <3>4, <3>5, <3>6
  <2>9. CASE ValidateStamp(t)
    BY <2>9 DEF ValidateStamp, Stamp, files, loader
  <2>10. CASE ValidateDescription(t)
    BY <2>10 DEF ValidateDescription, files, loader
  <2>11. CASE ValidateFails(t)
    BY <2>11 DEF ValidateFails, files, loader
  <2>12. CASE Publish(t)
    <3>1. ASSUME Untouched(identity[t]), pc[t] \in Stamped PROVE stamp[t] = NoStamp
      <4>1. handle[t] = 0 /\ stamp[t].file = 0 /\ stamp[t].version <= 0
        BY <3>1 DEF LocalsInv
      <4>2. stamp[t] \in Stamps /\ stamp[t].version \in Nat
        OBVIOUS
      <4> QED BY <4>1, <4>2 DEF Stamps, NoStamp
    <3>2. /\ pc[t] = "publish"
          /\ pc' = [pc EXCEPT ![t] = "set"]
          /\ UNCHANGED <<disk, content, identity, handle, stamp, index>>
      BY <2>12 DEF Publish, Goto, files
    <3>3. ASSUME NEW i \in Identities, i # identity[t]
          PROVE  UNCHANGED <<in_flight[i], remembered[i], checks[i]>>
      BY <2>12, <3>3 DEF Publish, Stored
    <3>4. ASSUME Untouched(identity[t])
          PROVE  /\ in_flight[identity[t]].by = t
                 /\ remembered[identity[t]] = NoIndex
                 /\ checks[identity[t]][0] = 0
                 /\ in_flight'[identity[t]] = NoFlight
      <4>1. in_flight[identity[t]].stamp = stamp[t]
        BY <3>1, <3>2, <3>4
      <4> QED BY <2>12, <3>2, <3>4, <4>1 DEF Publish, Erase
    <3>5. ASSUME Untouched(identity[t]), NEW u \in Threads, u # t, identity[u] = identity[t]
          PROVE  pc[u] \notin Validating
      BY <3>4, <3>5
    <3>6. CASE result[t] = "failed"
      <4>1. UNCHANGED <<remembered, checks>>
        BY <2>12, <3>6 DEF Publish
      <4>2. ASSUME Untouched(identity[t])
            PROVE  /\ remembered'[identity[t]].stamp = NoStamp
                   /\ checks'[identity[t]][0] = 0
        BY <3>4, <4>1, <4>2 DEF NoIndex
      <4> QED BY <3>2, <3>3, <3>4, <3>5, <4>2 DEF NoFlight
    <3>7. CASE result[t] = "ok"
      <4>1. /\ remembered' = [remembered EXCEPT ![identity[t]] = index[t]]
            /\ checks' = Stored(identity[t], index[t].stamp.version)
        BY <2>12, <3>7 DEF Publish
      <4>2. ASSUME Untouched(identity[t])
            PROVE  index[t].stamp = NoStamp /\ index[t].layout = 0
        <5>1. ReadFrom(index[t], 0, stamp[t].version) /\ content[0] = 0
          BY <3>2, <3>7, <4>2 DEF LocalsInv, Holds
        <5>2. /\ index[t].stamp \in Stamps
              /\ index[t].stamp.version \in Nat /\ index[t].layout \in Nat
          OBVIOUS
        <5> QED BY <5>1, <5>2 DEF ReadFrom, Stamps, NoStamp
      <4>3. ASSUME Untouched(identity[t])
            PROVE  /\ remembered'[identity[t]] # NoIndex
                   /\ remembered'[identity[t]].stamp = NoStamp
                   /\ checks'[identity[t]][0] = 1
        <5>1. index[t] # NoIndex
          BY <4>2, <4>3, MaxVersionAssumption DEF NoIndex
        <5>2. index[t].stamp.version = 0
          BY <4>2, <4>3 DEF NoStamp
        <5> QED BY <3>4, <4>1, <4>2, <4>3, <5>1, <5>2 DEF Stored, Many
      <4> QED BY <3>2, <3>3, <3>4, <3>5, <4>3 DEF NoFlight
    <3> QED BY <3>2, <3>6, <3>7 DEF LocalsInv
  <2>13. CASE StoreThrows(t)
    BY <2>13 DEF StoreThrows, files, loader
  <2>14. CASE SetThrows(t)
    BY <2>14 DEF SetThrows, files, loader
  <2>15. CASE SetValue(t)
    BY <2>15 DEF SetValue, Waiters, files
  <2>16. CASE WaitEnds(t)
    BY <2>16 DEF WaitEnds, Goto, files, loader
  <2>17. CASE Succeed(t)
    BY <2>17 DEF Succeed, Goto, files, loader
  <2>18. CASE Throw(t)
    BY <2>18 DEF Throw, Return, files, loader
  <2>19. CASE ReadEnds(t)
    BY <2>19 DEF ReadEnds, Return, files, loader
  <2>20. CASE \E i \in Identities : Request(t, i)
    BY <2>20 DEF Request, files, loader
<2> QED BY <1>4, <2>1, <2>2, <2>3, <2>4, <2>5, <2>6, <2>7, <2>8, <2>9, <2>10, <2>11, <2>12,
          <2>13, <2>14, <2>15, <2>16, <2>17, <2>18, <2>19, <2>20 DEF Proceed
<1> QED BY <1>1, <1>2, <1>3, <1>4 DEF Next

----------------------------------------------------------------------------
(* The theorems. *)

\* A loader that was never asked for a pak.
LEMMA InvInit == Init => Inv
<1> SUFFICES ASSUME Init PROVE Inv
  OBVIOUS
<1> USE NoThreadAssumption, MaxVersionAssumption DEF Init
<1>1. TypeOK
  BY DEF TypeOK, Indexes, NoIndex, Stamps, NoStamp, InFlight, NoFlight, Versions, States,
         Validating, Results, Many
<1>2. FilesInv
  BY DEF FilesInv, Versions
<1>3. LocalsInv
  BY DEF LocalsInv, Holds, Stamped, States, Validating
<1>4. WaitInv /\ OwnerInv
  BY DEF WaitInv, OwnerInv
<1>5. OnceInv
  BY DEF OnceInv, Untouched, Stamped, States, Validating, NoFlight, NoIndex, NoStamp, Versions
<1> QED BY <1>1, <1>2, <1>3, <1>4, <1>5 DEF Inv

\* Every step of a thread or of another program.
LEMMA InvStep == Inv /\ [Next]_vars => Inv'
BY TypeStep, FilesStep, LocalsStep, WaitStep, OwnerStep, OnceStep DEF Inv

\* The invariant behind the other theorems.
THEOREM InvHolds == Spec => []Inv
BY InvInit, InvStep, PTL DEF Spec

\* Every variable keeps its type, whatever the threads, the other programs and
\* the allocations do.
THEOREM TypeCorrect == Spec => []TypeOK
<1>1. Inv => TypeOK
  BY DEF Inv
<1> QED BY <1>1, InvHolds, PTL

\* A request of PakLoader::Request reads its resources with a description of the
\* file it has open, and of the version it stamped if that is still there,
\* whether it validated the pak itself, shared a validation or found it
\* remembered.
THEOREM OpenedFileIsSeen == Spec => []SeesOpenedFile
<1>1. Inv => SeesOpenedFile
  <2> SUFFICES ASSUME Inv, NEW t \in Threads, pc[t] = "read",
                      NEW f, f = handle[t], NEW v, v = stamp[t].version
               PROVE  /\ index[t].stamp.file = f
                      /\ content[f] = v => index[t].layout = v
    BY DEF SeesOpenedFile
  <2>1. ReadFrom(index[t], f, v)
    BY DEF Inv, LocalsInv, Holds
  <2>2. /\ v \in Nat /\ content[f] \in Nat
        /\ index[t].stamp.version \in Nat /\ index[t].layout \in Nat
    BY Values DEF Inv, TypeOK
  <2> QED BY <2>1, <2>2 DEF ReadFrom
<1> QED BY <1>1, InvHolds, PTL

\* No waiter of IndexGet is left behind: its promise is held by a thread that
\* is on its way to set it, for the same version of the same pak.
THEOREM NoLostWakeup == Spec => []WaiterHasOwner
<1>1. Inv => WaiterHasOwner
  BY DEF Inv, WaitInv, WaiterHasOwner
<1> QED BY <1>1, InvHolds, PTL

\* A record in in_flight belongs to a running validation of its version, or can
\* only deliver the error of a broken promise.
THEOREM OrphansAreBroken == Spec => []OrphanIsBroken
<1>1. Inv => OrphanIsBroken
  BY DEF Inv, OwnerInv, OrphanIsBroken
<1> QED BY <1>1, InvHolds, PTL

\* Requests for a pak nobody touches check its description once and share the
\* result.
THEOREM UntouchedIsCheckedOnce == Spec => []UnchangedCheckedOnce
<1>1. Inv => UnchangedCheckedOnce
  BY DEF Inv, OnceInv, Untouched, UnchangedCheckedOnce
<1> QED BY <1>1, InvHolds, PTL
=============================================================================
