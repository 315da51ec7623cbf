--------------------------- MODULE AtomicReplace ---------------------------
(***************************************************************************)
(* What src/internal/FileIO.hpp promises of WriteFileBytes: the path holds *)
(* one complete content, each call replaces it in one step or not at all   *)
(* and reports which, a kill stops a call on either side of that step, and *)
(* a loss of power goes back at most to the last content whose folder      *)
(* entry was flushed.                                                      *)
(***************************************************************************)
CONSTANTS
  Writers,   \* calls of WriteFileBytes
  Contents   \* contents the path can hold

VARIABLES
  content,    \* what the path holds
  survivors,  \* what it may hold after a loss of power
  status,     \* per writer: "idle", "pending" or "replaced"
  result      \* per writer: how its last call ended

vars == <<content, survivors, status, result>>

Init ==
  /\ content \in Contents
  /\ survivors = {content}
  /\ status = [p \in Writers |-> "idle"]
  /\ result = [p \in Writers |-> "none"]

\* A call begins.
Begin(p) ==
  /\ status[p] = "idle"
  /\ status' = [status EXCEPT ![p] = "pending"]
  /\ result' = [result EXCEPT ![p] = "none"]
  /\ UNCHANGED <<content, survivors>>

\* The one step in which the path changes.
Replace(p) ==
  /\ status[p] = "pending"
  /\ content' \in Contents \ survivors
  /\ survivors' = survivors \cup {content'}
  /\ status' = [status EXCEPT ![p] = "replaced"]
  /\ UNCHANGED result

\* A call that replaced the content returns; the folder entry may be flushed.
ReturnOk(p) ==
  /\ status[p] = "replaced"
  /\ survivors' \in {survivors, {content}}
  /\ status' = [status EXCEPT ![p] = "idle"]
  /\ result' = [result EXCEPT ![p] = "ok"]
  /\ UNCHANGED content

\* A call that did not replace the content throws.
ReturnError(p) ==
  /\ status[p] \in {"idle", "pending"}
  /\ status' = [status EXCEPT ![p] = "idle"]
  /\ result' = [result EXCEPT ![p] = "error"]
  /\ UNCHANGED <<content, survivors>>

Kill(p) ==
  /\ status[p] # "idle"
  /\ status' = [status EXCEPT ![p] = "idle"]
  /\ result' = [result EXCEPT ![p] = "killed"]
  /\ UNCHANGED <<content, survivors>>

PowerLoss ==
  /\ content' \in survivors
  /\ survivors' = {content'}
  /\ status' = [p \in Writers |-> "idle"]
  /\ result' = [p \in Writers |-> "killed"]

Next ==
  \/ \E p \in Writers :
       Begin(p) \/ Replace(p) \/ ReturnOk(p) \/ ReturnError(p) \/ Kill(p)
  \/ PowerLoss

Spec == Init /\ [][Next]_vars
=============================================================================
