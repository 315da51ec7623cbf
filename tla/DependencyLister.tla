-------------------------- MODULE DependencyLister --------------------------
(***************************************************************************)
(* ListDependencies (src/DependencyLister.cpp): the inputs and every file  *)
(* their recorded names lead to become nodes of a graph that grows while   *)
(* it is walked; then each input is credited with the nodes it can reach,  *)
(* all searches sharing one array of marks; then the credits are reported  *)
(* per key.                                                                *)
(*                                                                         *)
(* The file system is external and may change during the call: what a      *)
(* file holds and where a name leads are choices made when the code looks. *)
(* Inputs are numbered in the order of their spellings, and nodes from 1,  *)
(* so that 0 is "absent" and "never marked".                               *)
(***************************************************************************)
EXTENDS Naturals, Sequences, FiniteSets

CONSTANTS
  Files,     \* keys of file nodes: canonical paths, or paths of broken entries
  Names,     \* names files record; one may also be somebody's path
  Escaping,  \* those EscapesSearchFolders refuses to look up
  MaxRefs    \* bound on the names one file records

ASSUME EscapingAssumption == Escaping \subseteq Names
ASSUME MaxRefsAssumption == MaxRefs \in Nat

VARIABLES
  where,               \* the loop ListDependencies is in
  inputs,              \* the files named in the request
  nodes,               \* DependencyGraph::nodes
  by_key,              \* per file: its node, or 0
  by_unresolved_name,  \* per name that was not found: its node, or 0
  resolved,            \* per case rule and name: the node it leads to, or 0
  id,                  \* the node the walk or the report is at
  successors,          \* what Expand has resolved of that node's names
  index,               \* the input at hand
  head, edge,          \* the place in `queue` (0: the input itself), the edge
  queue,               \* nodes this search has reached
  seen,                \* per node: the last search that reached it
  credits,             \* per node: the inputs that reach it
  dependencies, errors, libraryErrors   \* DependencyResult

graph == <<nodes, by_key, by_unresolved_name, resolved>>
walk == <<id, successors>>
search == <<head, edge, queue, seen, credits>>
report == <<dependencies, errors, libraryErrors>>
vars == <<where, inputs, nodes, by_key, by_unresolved_name, resolved, id, successors,
          index, head, edge, queue, seen, credits, dependencies, errors, libraryErrors>>

----------------------------------------------------------------------------
(* Values. *)

Places == {"inputs", "walk", "expand", "credit", "report", "done"}
Statuses == {"Unresolved", "Parsed", "Unreadable"}
Keys == Files \cup Names

\* What a parser can list.
RefLists == UNION {[1..k -> Names] : k \in 0..MaxRefs}

\* DependencyNode.  `refs` is kept after the expansion, which only properties
\* read; `ignore_case` is the rule its format has for names.
Node(key, status, ignore_case, refs) ==
  [key |-> key, status |-> status, ignore_case |-> ignore_case, refs |-> refs,
   successors |-> <<>>, expanded |-> FALSE]

Nodes == [key : Keys, status : Statuses, ignore_case : BOOLEAN, refs : Seq(Names),
          successors : Seq(Nat), expanded : BOOLEAN]

\* The result of NormaliseInputs: every file once, in the order of spellings.
InputLists ==
  UNION {{s \in [1..k -> Files] : \A i, j \in 1..k : s[i] = s[j] => i = j} :
         k \in 0..Cardinality(Files)}

Init ==
  /\ where = "inputs"
  /\ inputs \in InputLists
  /\ nodes = <<>>
  /\ by_key = [f \in Files |-> 0]
  /\ by_unresolved_name = [n \in Names |-> 0]
  /\ resolved = [c \in BOOLEAN |-> [n \in Names |-> 0]]
  /\ id = 1
  /\ successors = <<>>
  /\ index = 1
  /\ head = 0
  /\ edge = 1
  /\ queue = <<>>
  /\ seen = <<>>
  /\ credits = <<>>
  /\ dependencies = [k \in Keys |-> <<>>]
  /\ errors = {}
  /\ libraryErrors = [k \in Keys |-> <<>>]

----------------------------------------------------------------------------
(* Nodes. *)

NewId == Len(nodes) + 1

\* Mutant: by_key is not consulted.
NeverKnown(f) == FALSE

Known(f) == by_key[f] # 0

\* FileNode: the node of a file, created, read and parsed on first use.
FileId(f) == IF Known(f) THEN by_key[f] ELSE NewId

\* Reading gives a reason, or the names the file records.
FileNode(f) ==
  \/ Known(f) /\ UNCHANGED <<nodes, by_key>>
  \/ /\ ~Known(f)
     /\ \/ nodes' = Append(nodes, Node(f, "Unreadable", FALSE, <<>>))
        \/ \E c \in BOOLEAN, s \in RefLists : nodes' = Append(nodes, Node(f, "Parsed", c, s))
     /\ by_key' = [by_key EXCEPT ![f] = NewId]

\* The first loop: a node for each input, an error for one that is unreadable.
InputNode ==
  /\ where = "inputs"
  /\ index <= Len(inputs)
  /\ FileNode(inputs[index])
  /\ errors' = IF nodes'[FileId(inputs[index])].status = "Unreadable"
                 THEN errors \cup {index}
                 ELSE errors
  /\ index' = index + 1
  /\ UNCHANGED <<where, inputs, by_unresolved_name, resolved, dependencies, libraryErrors>>
  /\ UNCHANGED walk
  /\ UNCHANGED search

InputsEnd ==
  /\ where = "inputs"
  /\ index > Len(inputs)
  /\ where' = "walk"
  /\ UNCHANGED <<inputs, index>>
  /\ UNCHANGED graph
  /\ UNCHANGED walk
  /\ UNCHANGED search
  /\ UNCHANGED report

----------------------------------------------------------------------------
(* The walk that expands every node, those it appends included. *)

Due(n) == nodes[n].status = "Parsed" /\ ~nodes[n].expanded

\* Expand: the names are taken one by one.
ExpandBegin ==
  /\ where = "walk"
  /\ id <= Len(nodes)
  /\ Due(id)
  /\ where' = "expand"
  /\ successors' = <<>>
  /\ UNCHANGED <<inputs, id, index>>
  /\ UNCHANGED graph
  /\ UNCHANGED search
  /\ UNCHANGED report

\* The name at hand and the rule it is looked up by.
Pending == Len(successors) < Len(nodes[id].refs)
Ref == nodes[id].refs[Len(successors) + 1]
Rule == nodes[id].ignore_case

\* Mutant: the cache gets the node after n.
ResolvedPast(n) ==
  /\ successors' = Append(successors, n)
  /\ resolved' = [resolved EXCEPT ![Rule][Ref] = n + 1]
  /\ UNCHANGED <<where, inputs, id, index>>
  /\ UNCHANGED search
  /\ UNCHANGED report

\* The name at hand leads to node n.
Resolved(n) ==
  /\ successors' = Append(successors, n)
  /\ resolved' = [resolved EXCEPT ![Rule][Ref] = n]
  /\ UNCHANGED <<where, inputs, id, index>>
  /\ UNCHANGED search
  /\ UNCHANGED report

\* ResolveName: the name was looked up before ...
ResolveCached ==
  /\ where = "expand"
  /\ Pending
  /\ resolved[Rule][Ref] # 0
  /\ Resolved(resolved[Rule][Ref])
  /\ UNCHANGED <<nodes, by_key, by_unresolved_name>>

\* ... or the first search folder that has it leads to file f ...
ResolveFound(f) ==
  /\ where = "expand"
  /\ Pending
  /\ resolved[Rule][Ref] = 0
  /\ Ref \notin Escaping
  /\ FileNode(f)
  /\ Resolved(FileId(f))
  /\ UNCHANGED by_unresolved_name

\* ... or none has it.
ResolveMissing ==
  /\ where = "expand"
  /\ Pending
  /\ resolved[Rule][Ref] = 0
  /\ \/ /\ by_unresolved_name[Ref] # 0
        /\ Resolved(by_unresolved_name[Ref])
        /\ UNCHANGED <<nodes, by_unresolved_name>>
     \/ /\ by_unresolved_name[Ref] = 0
        /\ Resolved(NewId)
        /\ nodes' = Append(nodes, Node(Ref, "Unresolved", FALSE, <<>>))
        /\ by_unresolved_name' = [by_unresolved_name EXCEPT ![Ref] = NewId]
  /\ UNCHANGED by_key

\* The node once its names are resolved.
Expanded(node) ==
  [key |-> node.key, status |-> node.status, ignore_case |-> node.ignore_case,
   refs |-> node.refs, successors |-> successors, expanded |-> TRUE]

ExpandEnd ==
  /\ where = "expand"
  /\ ~Pending
  /\ nodes' = [nodes EXCEPT ![id] = Expanded(@)]
  /\ where' = "walk"
  /\ id' = id + 1
  /\ UNCHANGED <<inputs, by_key, by_unresolved_name, resolved, successors, index>>
  /\ UNCHANGED search
  /\ UNCHANGED report

\* Mutant: only an expansion moves the walk on.
WalkStays ==
  /\ where = "walk"
  /\ id <= Len(nodes)
  /\ ~Due(id)
  /\ UNCHANGED vars

WalkSkip ==
  /\ where = "walk"
  /\ id <= Len(nodes)
  /\ ~Due(id)
  /\ id' = id + 1
  /\ UNCHANGED <<where, inputs, successors, index>>
  /\ UNCHANGED graph
  /\ UNCHANGED search
  /\ UNCHANGED report

\* Mutant: only the nodes of the inputs are walked.
InputsWalked == id > Len(inputs)

\* nodes.size() is read anew each time.
Walked == id > Len(nodes)

WalkEnd ==
  /\ where = "walk"
  /\ Walked
  /\ where' = "credit"
  /\ index' = 1
  /\ seen' = [n \in 1..Len(nodes) |-> 0]
  /\ credits' = [n \in 1..Len(nodes) |-> <<>>]
  /\ UNCHANGED <<inputs, head, edge, queue>>
  /\ UNCHANGED graph
  /\ UNCHANGED walk
  /\ UNCHANGED report

----------------------------------------------------------------------------
(* One search per input. *)

\* Mutant: all searches use one mark.
OneStamp == 1

\* The mark of this search; unlike the initial 0.
Stamp == index

\* The node whose successors are visited: first the input's own.
Current == IF head = 0 THEN by_key[inputs[index]] ELSE queue[head]
Edges == nodes[Current].successors

VisitNew ==
  /\ where = "credit"
  /\ index <= Len(inputs)
  /\ edge <= Len(Edges)
  /\ seen[Edges[edge]] # Stamp
  /\ seen' = [seen EXCEPT ![Edges[edge]] = Stamp]
  /\ queue' = Append(queue, Edges[edge])
  /\ edge' = edge + 1
  /\ UNCHANGED <<where, inputs, index, head, credits>>
  /\ UNCHANGED graph
  /\ UNCHANGED walk
  /\ UNCHANGED report

VisitSeen ==
  /\ where = "credit"
  /\ index <= Len(inputs)
  /\ edge <= Len(Edges)
  /\ seen[Edges[edge]] = Stamp
  /\ edge' = edge + 1
  /\ UNCHANGED <<where, inputs, index, head, queue, seen, credits>>
  /\ UNCHANGED graph
  /\ UNCHANGED walk
  /\ UNCHANGED report

\* The next node of the queue gets its credit.
NextHead ==
  /\ where = "credit"
  /\ index <= Len(inputs)
  /\ edge > Len(Edges)
  /\ head < Len(queue)
  /\ head' = head + 1
  /\ edge' = 1
  /\ credits' = [credits EXCEPT ![queue[head + 1]] = Append(@, index)]
  /\ UNCHANGED <<where, inputs, index, queue, seen>>
  /\ UNCHANGED graph
  /\ UNCHANGED walk
  /\ UNCHANGED report

NextInput ==
  /\ where = "credit"
  /\ index <= Len(inputs)
  /\ edge > Len(Edges)
  /\ head = Len(queue)
  /\ index' = index + 1
  /\ head' = 0
  /\ edge' = 1
  /\ queue' = <<>>
  /\ UNCHANGED <<where, inputs, seen, credits>>
  /\ UNCHANGED graph
  /\ UNCHANGED walk
  /\ UNCHANGED report

CreditEnd ==
  /\ where = "credit"
  /\ index > Len(inputs)
  /\ where' = "report"
  /\ id' = 1
  /\ UNCHANGED <<inputs, successors, index>>
  /\ UNCHANGED graph
  /\ UNCHANGED search
  /\ UNCHANGED report

----------------------------------------------------------------------------
(* The report. *)

Elements(s) == {s[i] : i \in 1..Len(s)}

\* std::sort followed by std::unique.
SortUnique(s) ==
  CHOOSE u \in [1..Cardinality(Elements(s)) -> Elements(s)] :
    \A i, j \in DOMAIN u : i < j => u[i] < u[j]

\* Mutant: two nodes of one key are listed one after the other.
Concatenated(listed, more) == listed \o more

\* The inputs listed for a key once those of one more node are added: sorted
\* anew only if another node had the key.
Listed(listed, more) ==
  IF listed = <<>> THEN more ELSE SortUnique(listed \o more)

Failed(n) == nodes[n].status = "Unreadable"

\* One node, if anything reaches it.
ReportNode ==
  /\ where = "report"
  /\ id <= Len(nodes)
  /\ credits[id] # <<>>
  /\ dependencies' = [dependencies EXCEPT ![nodes[id].key] = Listed(@, credits[id])]
  /\ libraryErrors' = IF Failed(id)
                        THEN [libraryErrors EXCEPT ![nodes[id].key] = @ \o credits[id]]
                        ELSE libraryErrors
  /\ id' = id + 1
  /\ UNCHANGED <<where, inputs, successors, index, errors>>
  /\ UNCHANGED graph
  /\ UNCHANGED search

ReportSkip ==
  /\ where = "report"
  /\ id <= Len(nodes)
  /\ credits[id] = <<>>
  /\ id' = id + 1
  /\ UNCHANGED <<where, inputs, successors, index>>
  /\ UNCHANGED graph
  /\ UNCHANGED search
  /\ UNCHANGED report

\* The inputs of every library error are sorted; the call returns.
ReportEnd ==
  /\ where = "report"
  /\ id > Len(nodes)
  /\ libraryErrors' = [k \in Keys |-> SortUnique(libraryErrors[k])]
  /\ where' = "done"
  /\ UNCHANGED <<inputs, index, dependencies, errors>>
  /\ UNCHANGED graph
  /\ UNCHANGED walk
  /\ UNCHANGED search

----------------------------------------------------------------------------
(* The specification. *)

Next ==
  \/ InputNode \/ InputsEnd
  \/ ExpandBegin \/ ResolveCached \/ (\E f \in Files : ResolveFound(f))
  \/ ResolveMissing \/ ExpandEnd \/ WalkSkip \/ WalkEnd
  \/ VisitNew \/ VisitSeen \/ NextHead \/ NextInput \/ CreditEnd
  \/ ReportNode \/ ReportSkip \/ ReportEnd

Spec == Init /\ [][Next]_vars

\* One thread runs the call to its end.
FairSpec == Spec /\ WF_vars(Next)

----------------------------------------------------------------------------
(* Properties. *)

Ids == 1..Len(nodes)

\* Every variable but the lists of the report, which ReportExact speaks of, has
\* its type, and every node the maps name exists.
TypeOK ==
  /\ where \in Places
  /\ inputs \in Seq(Files)
  /\ nodes \in Seq(Nodes)
  /\ by_key \in [Files -> 0..Len(nodes)]
  /\ by_unresolved_name \in [Names -> 0..Len(nodes)]
  /\ resolved \in [BOOLEAN -> [Names -> 0..Len(nodes)]]
  /\ id \in Nat \ {0}
  /\ successors \in Seq(Nat)
  /\ index \in Nat \ {0}
  /\ head \in Nat
  /\ edge \in Nat \ {0}
  /\ queue \in Seq(Nat)
  /\ seen \in Seq(Nat)
  /\ credits \in Seq(Seq(Nat))
  /\ errors \subseteq Nat

\* "Two paths to one file give one node": each file is read and parsed once,
\* however many names and spellings lead to it, and the map knows it.
OneNodePerFile ==
  \A n \in Ids : nodes[n].status # "Unresolved" => by_key[nodes[n].key] = n

\* "Read and parse every reachable file once": when the walk is over, each file
\* that could be parsed has one successor per recorded name, in order, and
\* that is the node the name leads to for every file with the same case rule.
GraphComplete ==
  where \in {"credit", "report", "done"} =>
    \A n \in Ids : nodes[n].status = "Parsed" =>
      /\ nodes[n].expanded
      /\ Len(nodes[n].successors) = Len(nodes[n].refs)
      /\ \A i \in 1..Len(nodes[n].refs) :
           /\ nodes[n].successors[i] \in Ids
           /\ nodes[n].successors[i] = resolved[nodes[n].ignore_case][nodes[n].refs[i]]

\* Sets of nodes that hold what input i needs directly and, with a node, what
\* that node needs.
Closed(i, S) ==
  /\ Elements(nodes[by_key[inputs[i]]].successors) \subseteq S
  /\ \A n \in S : Elements(nodes[n].successors) \subseteq S

\* Input i needs node n, directly or through other libraries.
Needs(i, n) == \A S \in SUBSET Ids : Closed(i, S) => n \in S

\* "Every input that needs a library is listed, whatever the order of the
\* inputs", and no other: once input i's search is over, i is credited with a
\* node if and only if it needs it.
CreditsExact ==
  where \in {"credit", "report", "done"} =>
    \A i \in 1..Len(inputs) : i < index =>
      \A n \in Ids : i \in Elements(credits[n]) <=> Needs(i, n)

StrictlySorted(s) == \A i, j \in 1..Len(s) : i < j => s[i] < s[j]

\* What the caller gets: a key lists the inputs that need a node of that key, a
\* library error the inputs that need that unreadable file, and `errors` the
\* inputs that are unreadable themselves.  "Sorted list of input binary paths",
\* each once: also when an unresolved name equals a found path and two nodes
\* share the key.
ReportExact ==
  where = "done" =>
    /\ \A k \in Keys :
         /\ StrictlySorted(dependencies[k]) /\ StrictlySorted(libraryErrors[k])
         /\ Elements(dependencies[k]) =
              {i \in 1..Len(inputs) : \E n \in Ids : nodes[n].key = k /\ Needs(i, n)}
         /\ Elements(libraryErrors[k]) =
              {i \in 1..Len(inputs) : \E n \in Ids :
                 nodes[n].key = k /\ nodes[n].status = "Unreadable" /\ Needs(i, n)}
    /\ errors = {i \in 1..Len(inputs) : nodes[by_key[inputs[i]]].status = "Unreadable"}

\* The call ends, whatever cycles the files' names make.
Terminates == <>(where = "done")
=============================================================================
