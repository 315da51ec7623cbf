----------------------- MODULE DependencyLister_proofs -----------------------
(***************************************************************************)
(* That ListDependencies credits each input with exactly the nodes it      *)
(* needs, for any files, names and contents, and reports just that.        *)
(***************************************************************************)
EXTENDS DependencyLister, NaturalSets, TLAPS

----------------------------------------------------------------------------
(* The inductive invariant. *)

\* File nodes and by_key agree; only parsed nodes are ever expanded.
NodesInv ==
  /\ \A n \in Ids : nodes[n].status # "Unresolved" =>
       nodes[n].key \in Files /\ by_key[nodes[n].key] = n
  /\ \A n \in Ids : nodes[n].status # "Parsed" => ~nodes[n].expanded
  /\ \A n \in Ids : ~nodes[n].expanded => nodes[n].successors = <<>>

\* The successors of an expanded node are what its names lead to.
EdgesInv ==
  \A n \in Ids : nodes[n].expanded =>
    /\ Len(nodes[n].successors) = Len(nodes[n].refs)
    /\ \A i \in 1..Len(nodes[n].refs) :
         /\ nodes[n].successors[i] \in Ids
         /\ nodes[n].successors[i] = resolved[nodes[n].ignore_case][nodes[n].refs[i]]

\* So are those Expand has collected.
ExpandInv ==
  where = "expand" =>
    /\ id \in Ids
    /\ Due(id)
    /\ Len(successors) <= Len(nodes[id].refs)
    /\ \A i \in 1..Len(successors) :
         /\ successors[i] \in Ids
         /\ successors[i] = resolved[Rule][nodes[id].refs[i]]

\* The inputs have nodes, and the walk has left nothing behind it.
WalkInv ==
  /\ \A i \in 1..Len(inputs) : where # "inputs" \/ i < index => by_key[inputs[i]] # 0
  /\ where = "inputs" => id = 1
  /\ where \in {"walk", "expand"} =>
       \A n \in Ids : n < id /\ nodes[n].status = "Parsed" => nodes[n].expanded
  /\ where \in {"credit", "report", "done"} =>
       \A n \in Ids : nodes[n].status = "Parsed" => nodes[n].expanded

GraphInv == NodesInv /\ EdgesInv /\ ExpandInv /\ WalkInv

Crediting == {"credit", "report", "done"}

\* The arrays fit the nodes, the marks are of searches so far, and nothing
\* is in the queue before the first search.
MarksInv ==
  /\ where \notin Crediting => head = 0 /\ edge = 1 /\ queue = <<>>
  /\ where \notin Crediting => credits = <<>>
  /\ where \in Crediting => Len(seen) = Len(nodes) /\ Len(credits) = Len(nodes)
  /\ where = "credit" => \A n \in Ids : seen[n] <= index
  /\ where \in {"report", "done"} => index > Len(inputs)

Queued == Elements(queue)

\* The queue of the search under way: nodes the input needs, each once, just
\* those marked; what its nodes before `head` need, and the input itself, is
\* in it, and of the current node the successors before `edge`.
QueueInv ==
  where = "credit" /\ index <= Len(inputs) =>
    /\ head <= Len(queue)
    /\ Queued \subseteq Ids
    /\ \A i \in {index}, n \in Queued : Needs(i, n)
    /\ \A g, h \in 1..Len(queue) : queue[g] = queue[h] => g = h
    /\ \A n \in Ids : seen[n] = index <=> n \in Queued
    /\ \A h \in 1..Len(queue) : h < head =>
         \A e \in 1..Len(nodes[queue[h]].successors) : nodes[queue[h]].successors[e] \in Queued
    /\ head > 0 =>
         \A e \in 1..Len(nodes[by_key[inputs[index]]].successors) :
           nodes[by_key[inputs[index]]].successors[e] \in Queued
    /\ \A e \in 1..Len(Edges) : e < edge => Edges[e] \in Queued

\* The credits: those of this search go to the nodes up to `head`.
CreditsInv ==
  where \in Crediting =>
    /\ \A n \in Ids : Elements(credits[n]) \subseteq 1..index
    /\ \A n \in Ids : StrictlySorted(credits[n])
    /\ where = "credit" /\ index <= Len(inputs) =>
         \A n \in Ids : index \in Elements(credits[n]) <=> \E h \in 1..head : queue[h] = n

Inv == TypeOK /\ GraphInv /\ MarksInv /\ QueueInv /\ CreditsInv /\ CreditsExact

----------------------------------------------------------------------------
(* Nodes are only appended. *)

\* No node changes or goes away, and a new one has yet to be expanded.
Grows ==
  /\ nodes' \in Seq(Nodes)
  /\ Len(nodes') \in {Len(nodes), Len(nodes) + 1}
  /\ \A n \in Ids : nodes'[n] = nodes[n]
  /\ by_key' \in [Files -> 0..Len(nodes')]
  /\ \A g \in Files : by_key[g] # 0 => by_key'[g] = by_key[g]
  /\ \A n \in 1..Len(nodes') : n \notin Ids =>
       /\ nodes'[n].status # "Unresolved" =>
            nodes'[n].key \in Files /\ by_key'[nodes'[n].key] = n
       /\ nodes'[n].successors = <<>>
       /\ ~nodes'[n].expanded

\* A node that can be appended.
Fresh(node) ==
  /\ node \in Nodes
  /\ node.successors = <<>>
  /\ ~node.expanded

\* FileNode appends at most one node, which by_key then knows.
LEMMA FileNodeGrows ==
  ASSUME TypeOK, NEW f \in Files, FileNode(f)
  PROVE  /\ Grows
         /\ FileId(f) \in 1..Len(nodes')
         /\ by_key'[f] = FileId(f)
<1>1. CASE Known(f)
  <2>1. nodes' = nodes /\ by_key' = by_key /\ by_key[f] # 0 /\ FileId(f) = by_key[f]
    BY <1>1 DEF FileNode, FileId, Known
  <2>2. by_key[f] \in 1..Len(nodes)
    BY <2>1 DEF TypeOK
  <2> QED
    BY <2>1, <2>2 DEF TypeOK, Ids, Grows
<1>2. CASE ~Known(f)
  <2> DEFINE FileFresh(node) == Fresh(node) /\ node.key = f /\ node.status # "Unresolved"
  <2>1. FileFresh(Node(f, "Unreadable", FALSE, <<>>))
    BY DEF Fresh, Node, Nodes, Keys, Statuses
  <2>2. ASSUME NEW c \in BOOLEAN, NEW s \in RefLists
        PROVE  FileFresh(Node(f, "Parsed", c, s))
    <3>1. s \in Seq(Names)
      BY MaxRefsAssumption DEF RefLists
    <3> QED
      BY <3>1 DEF Fresh, Node, Nodes, Keys, Statuses
  <2>3. \E node : FileFresh(node) /\ nodes' = Append(nodes, node)
    <3>1. CASE nodes' = Append(nodes, Node(f, "Unreadable", FALSE, <<>>))
      BY <2>1, <3>1
    <3>2. ASSUME NEW c \in BOOLEAN, NEW s \in RefLists,
                 nodes' = Append(nodes, Node(f, "Parsed", c, s))
          PROVE  \E node : FileFresh(node) /\ nodes' = Append(nodes, node)
      BY <2>2, <3>2
    <3> QED
      BY <1>2, <3>1, <3>2 DEF FileNode
  <2>4. PICK node : FileFresh(node) /\ nodes' = Append(nodes, node)
    BY <2>3
  <2>5. by_key' = [by_key EXCEPT ![f] = Len(nodes) + 1]
    BY <1>2 DEF FileNode, NewId
  <2>6. /\ nodes' \in Seq(Nodes)
        /\ Len(nodes') = Len(nodes) + 1
        /\ nodes'[Len(nodes) + 1] = node
        /\ \A n \in 1..Len(nodes) : nodes'[n] = nodes[n]
    BY <2>4 DEF TypeOK, Fresh
  <2>7. FileId(f) = Len(nodes) + 1 /\ by_key[f] = 0
    BY <1>2 DEF FileId, NewId, Known
  <2>8. /\ by_key' \in [Files -> 0..(Len(nodes) + 1)]
        /\ by_key'[f] = Len(nodes) + 1
        /\ \A g \in Files : by_key[g] # 0 => by_key'[g] = by_key[g]
    BY <2>5, <2>7 DEF TypeOK
  <2>9. ASSUME NEW n \in 1..Len(nodes'), n \notin Ids
        PROVE  n = Len(nodes) + 1
    BY <2>6, <2>9 DEF Ids, TypeOK
  <2> QED
    BY <2>6, <2>7, <2>8, <2>9, <2>4 DEF Ids, Grows, Fresh
<1> QED
  BY <1>1, <1>2
\* So does each of the three ways to resolve a name, and the node it leads to
\* exists.
LEMMA ResolveGrows ==
  ASSUME TypeOK, ExpandInv, where = "expand",
         ResolveCached \/ (\E f \in Files : ResolveFound(f)) \/ ResolveMissing
  PROVE  /\ Grows
         /\ Pending
         /\ \E n \in 1..Len(nodes') :
              /\ Resolved(n)
              /\ resolved[Rule][Ref] \in {0, n}
         /\ by_unresolved_name' \in [Names -> 0..Len(nodes')]
<1>0. Pending
  BY DEF ResolveCached, ResolveFound, ResolveMissing
<1>1. /\ id \in Ids
      /\ nodes[id] \in Nodes
      /\ Ref \in Names
      /\ Rule \in BOOLEAN
      /\ resolved[Rule][Ref] \in 0..Len(nodes)
      /\ by_unresolved_name[Ref] \in 0..Len(nodes)
  <2>1. id \in Ids /\ nodes[id] \in Nodes
    BY DEF ExpandInv, TypeOK, Ids
  <2>2. Rule \in BOOLEAN /\ nodes[id].refs \in Seq(Names)
    BY <2>1 DEF Rule, Nodes
  <2>3. Ref \in Names
    <3>1. Len(successors) \in Nat /\ Len(nodes[id].refs) \in Nat
      BY <2>2 DEF TypeOK
    <3>2. Len(successors) + 1 \in 1..Len(nodes[id].refs)
      BY <1>0, <3>1 DEF Pending
    <3> QED
      BY <2>2, <3>2 DEF Ref
  <2> QED
    BY <2>1, <2>2, <2>3 DEF TypeOK
<1>2. CASE ResolveCached
  <2>1. nodes' = nodes /\ by_key' = by_key /\ by_unresolved_name' = by_unresolved_name
    BY <1>2 DEF ResolveCached
  <2>2. Resolved(resolved[Rule][Ref]) /\ resolved[Rule][Ref] \in 1..Len(nodes)
    BY <1>1, <1>2 DEF ResolveCached
  <2> QED
    BY <1>0, <2>1, <2>2 DEF TypeOK, Ids, Grows
<1>3. ASSUME NEW f \in Files, ResolveFound(f)
      PROVE  /\ Grows
             /\ \E n \in 1..Len(nodes') :
                  Resolved(n) /\ resolved[Rule][Ref] \in {0, n}
             /\ by_unresolved_name' \in [Names -> 0..Len(nodes')]
  <2>1. Grows /\ FileId(f) \in 1..Len(nodes')
    BY <1>3, FileNodeGrows DEF ResolveFound
  <2>2. Resolved(FileId(f)) /\ resolved[Rule][Ref] = 0 /\ by_unresolved_name' = by_unresolved_name
    BY <1>3 DEF ResolveFound
  <2>3. Len(nodes) \in Nat /\ Len(nodes') \in {Len(nodes), Len(nodes) + 1}
    BY <2>1 DEF Grows, TypeOK
  <2> QED
    BY <2>1, <2>2, <2>3 DEF TypeOK
<1>4. CASE ResolveMissing
  <2>1. by_key' = by_key /\ resolved[Rule][Ref] = 0
    BY <1>4 DEF ResolveMissing
  <2>2. CASE by_unresolved_name[Ref] # 0
    <3>1. nodes' = nodes /\ by_unresolved_name' = by_unresolved_name
      BY <1>4, <2>2 DEF ResolveMissing
    <3>2. Resolved(by_unresolved_name[Ref])
      BY <1>4, <2>2 DEF ResolveMissing
    <3>3. by_unresolved_name[Ref] \in 1..Len(nodes)
      BY <1>1, <2>2
    <3> QED
      BY <1>0, <2>1, <3>1, <3>2, <3>3 DEF TypeOK, Ids, Grows
  <2>3. CASE by_unresolved_name[Ref] = 0
    <3> DEFINE node == Node(Ref, "Unresolved", FALSE, <<>>)
    <3>1. Fresh(node) /\ node.status = "Unresolved"
      BY <1>1 DEF Fresh, Node, Nodes, Keys, Statuses
    <3>2. /\ nodes' = Append(nodes, node)
          /\ by_unresolved_name' = [by_unresolved_name EXCEPT ![Ref] = Len(nodes) + 1]
          /\ Resolved(Len(nodes) + 1)
      BY <1>4, <2>3 DEF ResolveMissing, NewId
    <3> HIDE DEF node
    <3>3. /\ nodes' \in Seq(Nodes)
          /\ Len(nodes) \in Nat
          /\ Len(nodes') = Len(nodes) + 1
          /\ nodes'[Len(nodes) + 1] = node
          /\ \A n \in 1..Len(nodes) : nodes'[n] = nodes[n]
      BY <3>1, <3>2 DEF TypeOK, Fresh
    <3>4. ASSUME NEW n \in 1..Len(nodes'), n \notin Ids
          PROVE  n = Len(nodes) + 1
      BY <3>3, <3>4 DEF Ids
    <3>5. Grows
      BY <2>1, <3>1, <3>3, <3>4 DEF Grows, Fresh, Ids, TypeOK
    <3>6. by_unresolved_name' \in [Names -> 0..Len(nodes')]
      BY <1>1, <3>2, <3>3 DEF TypeOK
    <3> QED
      BY <1>0, <2>1, <3>2, <3>3, <3>5, <3>6
  <2> QED
    BY <2>2, <2>3
<1> QED
  BY <1>0, <1>2, <1>3, <1>4
----------------------------------------------------------------------------
(* What a node needs. *)

\* Appending adds one element.
LEMMA ElementsAppend ==
  ASSUME NEW T, NEW s \in Seq(T), NEW x \in T
  PROVE  Elements(Append(s, x)) = Elements(s) \cup {x}
<1>1. /\ Len(Append(s, x)) = Len(s) + 1
      /\ Len(s) \in Nat
      /\ Append(s, x)[Len(s) + 1] = x
      /\ \A i \in 1..Len(s) : Append(s, x)[i] = s[i]
  OBVIOUS
<1>2. 1..(Len(s) + 1) = 1..Len(s) \cup {Len(s) + 1}
  BY <1>1
<1> QED
  BY <1>1, <1>2 DEF Elements

\* Successors are nodes.
LEMMA EdgesExist ==
  ASSUME TypeOK, NodesInv, EdgesInv, NEW n \in Ids
  PROVE  /\ nodes[n].successors \in Seq(Nat)
         /\ \A e \in 1..Len(nodes[n].successors) : nodes[n].successors[e] \in Ids
<1>1. nodes[n] \in Nodes
  BY DEF TypeOK, Ids
<1>2. nodes[n].successors \in Seq(Nat)
  BY <1>1 DEF Nodes
<1>3. CASE nodes[n].expanded
  BY <1>2, <1>3 DEF EdgesInv
<1>4. CASE ~nodes[n].expanded
  <2>1. nodes[n].successors = <<>>
    BY <1>4 DEF NodesInv
  <2> QED
    BY <1>2, <2>1
<1> QED
  BY <1>2, <1>3, <1>4

\* While the graph stays, so do the needs.
LEMMA NeedsSame ==
  ASSUME UNCHANGED <<inputs, nodes, by_key>>
  PROVE  \A i, n : Needs(i, n)' <=> Needs(i, n)
BY DEF Needs, Closed, Ids, Elements

\* An input needs its own successors ...
LEMMA NeedsDirectly ==
  ASSUME NEW i, NEW e \in 1..Len(nodes[by_key[inputs[i]]].successors)
  PROVE  Needs(i, nodes[by_key[inputs[i]]].successors[e])
BY DEF Needs, Closed, Elements

\* ... and those of what it needs ...
LEMMA NeedsThrough ==
  ASSUME NEW i, NEW n \in Ids, Needs(i, n), NEW e \in 1..Len(nodes[n].successors)
  PROVE  Needs(i, nodes[n].successors[e])
BY DEF Needs, Closed, Elements

\* ... and nothing else.
LEMMA NeedsAtMost ==
  ASSUME NEW i, NEW S \in SUBSET Ids, Closed(i, S), NEW n, Needs(i, n)
  PROVE  n \in S
BY DEF Needs

\* The node whose successors a search visits is one the input needs, or itself.
LEMMA CurrentExists ==
  ASSUME TypeOK, WalkInv, QueueInv, where = "credit", index <= Len(inputs)
  PROVE  Current \in Ids
<1>1. CASE head = 0
  <2>1. index \in 1..Len(inputs) /\ inputs[index] \in Files
    BY DEF TypeOK
  <2>2. by_key[inputs[index]] # 0 /\ by_key[inputs[index]] \in 0..Len(nodes)
    BY <2>1 DEF TypeOK, WalkInv
  <2> QED
    BY <1>1, <2>2 DEF Current, Ids
<1>2. CASE head # 0
  <2>1. head \in 1..Len(queue)
    BY <1>2 DEF TypeOK, QueueInv
  <2>2. queue[head] \in Queued /\ Queued \subseteq Ids
    BY <2>1 DEF QueueInv, Queued, Elements
  <2> QED
    BY <1>2, <2>2 DEF Current
<1> QED
  BY <1>1, <1>2
----------------------------------------------------------------------------
(* Each part is preserved by every step. *)

\* The types.
LEMMA TypeStep ==
  TypeOK /\ GraphInv /\ MarksInv /\ QueueInv /\ [Next]_vars => TypeOK'
<1> SUFFICES ASSUME TypeOK, GraphInv, MarksInv, QueueInv, [Next]_vars
             PROVE  TypeOK'
  OBVIOUS
<1> USE DEF Places
<1>1. CASE InputNode
  <2>1. index \in 1..Len(inputs) /\ inputs[index] \in Files
    BY <1>1 DEF InputNode, TypeOK
  <2>2. Grows
    BY <1>1, <2>1, FileNodeGrows DEF InputNode
  <2>3. /\ nodes' \in Seq(Nodes)
        /\ by_key' \in [Files -> 0..Len(nodes')]
        /\ 0..Len(nodes) \subseteq 0..Len(nodes')
    BY <2>2 DEF Grows, TypeOK
  <2>4. /\ by_unresolved_name' \in [Names -> 0..Len(nodes')]
        /\ resolved' \in [BOOLEAN -> [Names -> 0..Len(nodes')]]
    BY <1>1, <2>3 DEF InputNode, TypeOK
  <2>5. errors' \subseteq Nat /\ index' \in Nat \ {0}
    BY <1>1 DEF InputNode, TypeOK
  <2> QED
    BY <1>1, <2>3, <2>4, <2>5 DEF InputNode, TypeOK, walk, search
<1>2. CASE InputsEnd
  <2>1. where' \in Places
    BY <1>2 DEF InputsEnd, TypeOK
  <2>2. UNCHANGED <<inputs, index, graph, walk, search, report>>
    BY <1>2 DEF InputsEnd
  <2> QED
    BY <2>1, <2>2 DEF TypeOK, graph, walk, search, report
<1>3. CASE ExpandBegin
  <2>1. where' \in Places /\ successors' \in Seq(Nat)
    BY <1>3 DEF ExpandBegin, TypeOK
  <2>2. UNCHANGED <<inputs, id, index, graph, search, report>>
    BY <1>3 DEF ExpandBegin
  <2> QED
    BY <2>1, <2>2 DEF TypeOK, graph, search, report
<1>4. CASE ResolveCached \/ (\E f \in Files : ResolveFound(f)) \/ ResolveMissing
  <2>0. where = "expand"
    BY <1>4 DEF ResolveCached, ResolveFound, ResolveMissing
  <2>1. /\ Grows
        /\ \E n \in 1..Len(nodes') : Resolved(n) /\ resolved[Rule][Ref] \in {0, n}
        /\ by_unresolved_name' \in [Names -> 0..Len(nodes')]
    BY <1>4, <2>0, ResolveGrows DEF GraphInv
  <2>2. PICK n \in 1..Len(nodes') : Resolved(n)
    BY <2>1
  <2>3. /\ nodes' \in Seq(Nodes)
        /\ by_key' \in [Files -> 0..Len(nodes')]
        /\ 0..Len(nodes) \subseteq 0..Len(nodes')
        /\ n \in Nat
        /\ n \in 0..Len(nodes')
    BY <2>1 DEF Grows, TypeOK
  <2>4. resolved' \in [BOOLEAN -> [Names -> 0..Len(nodes')]]
    BY <2>2, <2>3 DEF Resolved, TypeOK
  <2>5. successors' \in Seq(Nat)
    BY <2>2, <2>3 DEF Resolved, TypeOK
  <2> QED
    BY <2>1, <2>2, <2>3, <2>4, <2>5 DEF Resolved, TypeOK, search, report
<1>5. CASE ExpandEnd
  <2>1. id \in 1..Len(nodes) /\ nodes[id] \in Nodes
    BY <1>5 DEF ExpandEnd, GraphInv, ExpandInv, TypeOK, Ids
  <2>2. Expanded(nodes[id]) \in Nodes
    BY <2>1 DEF Expanded, Nodes, TypeOK
  <2>3. nodes' \in Seq(Nodes) /\ Len(nodes') = Len(nodes)
    BY <1>5, <2>1, <2>2 DEF ExpandEnd, TypeOK
  <2> QED
    BY <1>5, <2>3 DEF ExpandEnd, TypeOK, search, report
<1>6. CASE WalkSkip
  <2>1. id' \in Nat \ {0}
    BY <1>6 DEF WalkSkip, TypeOK
  <2>2. UNCHANGED <<where, inputs, successors, index, graph, search, report>>
    BY <1>6 DEF WalkSkip
  <2> QED
    BY <2>1, <2>2 DEF TypeOK, graph, search, report
<1>7. CASE WalkEnd
  <2>1. Len(nodes) \in Nat
    BY DEF TypeOK
  <2>2. seen' \in Seq(Nat)
    BY <1>7, <2>1 DEF WalkEnd
  <2>3. credits' \in Seq(Seq(Nat))
    <3>1. <<>> \in Seq(Nat)
      OBVIOUS
    <3> QED
      BY <1>7, <2>1, <3>1 DEF WalkEnd
  <2>4. where' \in Places /\ index' \in Nat \ {0}
    BY <1>7 DEF WalkEnd
  <2>5. UNCHANGED <<inputs, head, edge, queue, graph, walk, report>>
    BY <1>7 DEF WalkEnd
  <2> QED
    BY <2>2, <2>3, <2>4, <2>5 DEF TypeOK, graph, walk, report
<1>8. CASE VisitNew
  <2>1. Current \in Ids
    BY <1>8, CurrentExists DEF VisitNew, GraphInv
  <2>2. Edges[edge] \in Ids
    <3>1. Edges \in Seq(Nat) /\ \A e \in 1..Len(Edges) : Edges[e] \in Ids
      BY <2>1, EdgesExist DEF GraphInv, Edges
    <3>2. edge \in Nat \ {0} /\ edge <= Len(Edges)
      BY <1>8 DEF VisitNew, TypeOK
    <3>3. edge \in 1..Len(Edges)
      BY <3>1, <3>2
    <3> QED
      BY <3>1, <3>3
  <2>3. queue' \in Seq(Nat)
    BY <1>8, <2>2 DEF VisitNew, TypeOK, Ids
  <2>4. Edges[edge] \in 1..Len(seen) /\ index \in Nat
    BY <1>8, <2>2 DEF VisitNew, TypeOK, Ids, MarksInv, Crediting
  <2>5. seen' \in Seq(Nat)
    BY <1>8, <2>4 DEF VisitNew, TypeOK, Stamp
  <2>6. edge' \in Nat \ {0} /\ UNCHANGED <<where, inputs, index, head, credits, graph, walk, report>>
    BY <1>8 DEF VisitNew, TypeOK
  <2> QED
    BY <2>3, <2>5, <2>6 DEF TypeOK, graph, walk, report
<1>9. CASE VisitSeen
  <2>1. edge' \in Nat \ {0}
    BY <1>9 DEF VisitSeen, TypeOK
  <2>2. UNCHANGED <<where, inputs, index, head, queue, seen, credits, graph, walk, report>>
    BY <1>9 DEF VisitSeen
  <2> QED
    BY <2>1, <2>2 DEF TypeOK, graph, walk, report
<1>10. CASE NextHead
  <2>1. head + 1 \in 1..Len(queue) /\ queue[head + 1] \in 1..Len(credits)
    <3>1. head + 1 \in 1..Len(queue)
      BY <1>10 DEF NextHead, TypeOK
    <3>2. queue[head + 1] \in Queued
      BY <3>1 DEF Queued, Elements
    <3>3. Queued \subseteq Ids /\ Len(credits) = Len(nodes)
      BY <1>10 DEF NextHead, QueueInv, MarksInv, Crediting
    <3> QED
      BY <3>1, <3>2, <3>3 DEF Ids
  <2>2. credits[queue[head + 1]] \in Seq(Nat)
    BY <2>1 DEF TypeOK
  <2>3. Append(credits[queue[head + 1]], index) \in Seq(Nat)
    BY <2>2 DEF TypeOK
  <2>4. credits' \in Seq(Seq(Nat))
    BY <1>10, <2>1, <2>3 DEF NextHead, TypeOK
  <2>5. /\ head' \in Nat /\ edge' \in Nat \ {0}
        /\ UNCHANGED <<where, inputs, index, queue, seen, graph, walk, report>>
    BY <1>10 DEF NextHead, TypeOK
  <2> QED
    BY <2>4, <2>5 DEF TypeOK, graph, walk, report
<1>11. CASE NextInput
  <2>1. /\ index' \in Nat \ {0} /\ head' \in Nat
        /\ edge' \in Nat \ {0} /\ queue' \in Seq(Nat)
    BY <1>11 DEF NextInput, TypeOK
  <2>2. UNCHANGED <<where, inputs, seen, credits, graph, walk, report>>
    BY <1>11 DEF NextInput
  <2> QED
    BY <2>1, <2>2 DEF TypeOK, graph, walk, report
<1>12. CASE CreditEnd
  <2>1. where' \in Places /\ id' \in Nat \ {0}
    BY <1>12 DEF CreditEnd, TypeOK
  <2>2. UNCHANGED <<inputs, successors, index, graph, search, report>>
    BY <1>12 DEF CreditEnd
  <2> QED
    BY <2>1, <2>2 DEF TypeOK, graph, search, report
<1>13. CASE ReportNode
  <2>1. id' \in Nat \ {0}
    BY <1>13 DEF ReportNode, TypeOK
  <2>2. UNCHANGED <<where, inputs, successors, index, errors, graph, search>>
    BY <1>13 DEF ReportNode
  <2> QED
    BY <2>1, <2>2 DEF TypeOK, graph, search
<1>14. CASE ReportSkip
  <2>1. id' \in Nat \ {0}
    BY <1>14 DEF ReportSkip, TypeOK
  <2>2. UNCHANGED <<where, inputs, successors, index, graph, search, report>>
    BY <1>14 DEF ReportSkip
  <2> QED
    BY <2>1, <2>2 DEF TypeOK, graph, search, report
<1>15. CASE ReportEnd
  <2>1. where' \in Places
    BY <1>15 DEF ReportEnd, TypeOK
  <2>2. UNCHANGED <<inputs, index, dependencies, errors, graph, walk, search>>
    BY <1>15 DEF ReportEnd
  <2> QED
    BY <2>1, <2>2 DEF TypeOK, graph, walk, search
<1>16. CASE UNCHANGED vars
  BY <1>16 DEF vars, TypeOK
<1> QED
  BY <1>1, <1>2, <1>3, <1>4, <1>5, <1>6, <1>7, <1>8, <1>9, <1>10, <1>11, <1>12,
     <1>13, <1>14, <1>15, <1>16 DEF Next
\* A step that only appends keeps what is said of single nodes.
LEMMA GrowthKeeps ==
  ASSUME TypeOK, NodesInv, EdgesInv, Grows,
         \A c \in BOOLEAN, m \in Names :
           resolved[c][m] # 0 => resolved'[c][m] = resolved[c][m]
  PROVE  NodesInv' /\ EdgesInv'
<1>0. Len(nodes) \in Nat /\ Ids \subseteq Ids'
  BY DEF TypeOK, Grows, Ids
<1>1. ASSUME NEW n \in Ids'
      PROVE  /\ nodes'[n].status # "Unresolved" =>
                  nodes'[n].key \in Files /\ by_key'[nodes'[n].key] = n
             /\ nodes'[n].status # "Parsed" => ~nodes'[n].expanded
             /\ ~nodes'[n].expanded => nodes'[n].successors = <<>>
  <2>1. CASE n \in Ids
    <3>1. nodes'[n] = nodes[n]
      BY <2>1 DEF Grows
    <3>2. n # 0
      BY <2>1, <1>0 DEF Ids
    <3> QED
      BY <2>1, <3>1, <3>2 DEF Grows, NodesInv
  <2>2. CASE n \notin Ids
    BY <2>2 DEF Grows, Ids
  <2> QED
    BY <2>1, <2>2
<1>2. ASSUME NEW n \in Ids', nodes'[n].expanded
      PROVE  /\ Len(nodes'[n].successors) = Len(nodes'[n].refs)
             /\ \A i \in 1..Len(nodes'[n].refs) :
                  /\ nodes'[n].successors[i] \in Ids'
                  /\ nodes'[n].successors[i] = resolved'[nodes'[n].ignore_case][nodes'[n].refs[i]]
  <2>1. n \in Ids
    BY <1>2 DEF Grows, Ids
  <2>2. nodes'[n] = nodes[n] /\ nodes[n] \in Nodes
    BY <2>1 DEF Grows, TypeOK, Ids
  <2>3. nodes[n].refs \in Seq(Names) /\ nodes[n].ignore_case \in BOOLEAN
    BY <2>2 DEF Nodes
  <2>4. Len(nodes[n].successors) = Len(nodes[n].refs)
    BY <1>2, <2>1, <2>2 DEF EdgesInv
  <2>5. ASSUME NEW i \in 1..Len(nodes[n].refs)
        PROVE  /\ nodes[n].successors[i] \in Ids'
               /\ nodes[n].successors[i] = resolved'[nodes[n].ignore_case][nodes[n].refs[i]]
    <3>1. /\ nodes[n].successors[i] \in Ids
          /\ nodes[n].successors[i] = resolved[nodes[n].ignore_case][nodes[n].refs[i]]
      BY <1>2, <2>1, <2>2 DEF EdgesInv
    <3>2. nodes[n].successors[i] # 0
      BY <3>1, <1>0 DEF Ids
    <3>3. nodes[n].refs[i] \in Names
      BY <2>3
    <3> QED
      BY <1>0, <2>3, <3>1, <3>2, <3>3
  <2> QED
    BY <2>2, <2>4, <2>5
<1>3. NodesInv'
  BY <1>1 DEF NodesInv
<1>4. EdgesInv'
  BY <1>2 DEF EdgesInv
<1> QED
  BY <1>3, <1>4

\* A name that was resolved keeps its node.
LEMMA ResolvedStays ==
  ASSUME TypeOK, NEW n, Resolved(n), resolved[Rule][Ref] \in {0, n}
  PROVE  \A c \in BOOLEAN, m \in Names :
           resolved[c][m] # 0 => resolved'[c][m] = resolved[c][m]
<1> SUFFICES ASSUME NEW c \in BOOLEAN, NEW m \in Names, resolved[c][m] # 0
             PROVE  resolved'[c][m] = resolved[c][m]
  OBVIOUS
<1>1. resolved' = [resolved EXCEPT ![Rule][Ref] = n]
  BY DEF Resolved
<1>2. resolved \in [BOOLEAN -> [Names -> 0..Len(nodes)]]
  BY DEF TypeOK
<1>3. CASE c = Rule /\ m = Ref
  BY <1>1, <1>2, <1>3
<1>4. CASE ~(c = Rule /\ m = Ref)
  BY <1>1, <1>2, <1>4
<1> QED
  BY <1>3, <1>4
\* The graph and the walk over it.
LEMMA GraphStep ==
  TypeOK /\ GraphInv /\ [Next]_vars => GraphInv'
<1> SUFFICES ASSUME TypeOK, GraphInv, [Next]_vars
             PROVE  GraphInv'
  OBVIOUS
<1> USE DEF GraphInv
<1>0. /\ inputs \in Seq(Files) /\ Len(inputs) \in Nat
      /\ nodes \in Seq(Nodes) /\ Len(nodes) \in Nat
      /\ by_key \in [Files -> 0..Len(nodes)]
      /\ resolved \in [BOOLEAN -> [Names -> 0..Len(nodes)]]
      /\ id \in Nat \ {0} /\ index \in Nat \ {0}
      /\ successors \in Seq(Nat) /\ Len(successors) \in Nat
  BY DEF TypeOK
<1>1. CASE InputNode
  <2>1. index \in 1..Len(inputs) /\ inputs[index] \in Files
    BY <1>1, <1>0 DEF InputNode
  <2>2. /\ Grows
        /\ FileId(inputs[index]) \in 1..Len(nodes')
        /\ by_key'[inputs[index]] = FileId(inputs[index])
    BY <1>1, <2>1, FileNodeGrows DEF InputNode
  <2>3. resolved' = resolved /\ where = "inputs" /\ where' = "inputs" /\ inputs' = inputs
        /\ id' = id /\ index' = index + 1
    BY <1>1 DEF InputNode, walk
  <2>4. NodesInv' /\ EdgesInv'
    BY <2>2, <2>3, GrowthKeeps
  <2>5. ExpandInv'
    BY <2>3 DEF ExpandInv
  <2>6. ASSUME NEW i \in 1..Len(inputs), i < index + 1
        PROVE  by_key'[inputs[i]] # 0
    <3>1. CASE i = index
      BY <2>2, <3>1, <1>0
    <3>2. CASE i < index
      <4>1. by_key[inputs[i]] # 0 /\ inputs[i] \in Files
        BY <3>2, <1>0 DEF WalkInv
      <4> QED
        BY <2>2, <4>1 DEF Grows
    <3> QED
      BY <2>6, <3>1, <3>2, <1>0
  <2>7. WalkInv'
    BY <2>3, <2>6 DEF WalkInv
  <2> QED
    BY <2>4, <2>5, <2>7
<1>2. CASE InputsEnd
  <2>1. /\ where = "inputs" /\ where' = "walk" /\ index > Len(inputs)
        /\ UNCHANGED <<inputs, index, nodes, by_key, by_unresolved_name, resolved, id>>
    BY <1>2 DEF InputsEnd, graph, walk
  <2>2. NodesInv' /\ EdgesInv' /\ ExpandInv'
    BY <2>1 DEF NodesInv, EdgesInv, ExpandInv, Ids
  <2>3. WalkInv'
    BY <2>1, <1>0 DEF WalkInv, Ids
  <2> QED
    BY <2>2, <2>3
<1>3. CASE ExpandBegin
  <2>1. /\ where = "walk" /\ where' = "expand" /\ id <= Len(nodes) /\ Due(id)
        /\ successors' = <<>>
        /\ UNCHANGED <<inputs, index, nodes, by_key, by_unresolved_name, resolved, id>>
    BY <1>3 DEF ExpandBegin, graph
  <2>2. NodesInv' /\ EdgesInv'
    BY <2>1 DEF NodesInv, EdgesInv, Ids
  <2>3. id \in Ids /\ nodes[id].refs \in Seq(Names)
    <3>1. id \in 1..Len(nodes) /\ nodes[id] \in Nodes
      BY <2>1, <1>0
    <3> QED
      BY <3>1 DEF Ids, Nodes
  <2>4. ExpandInv'
    BY <2>1, <2>3 DEF ExpandInv, Ids, Due
  <2>5. WalkInv'
    BY <2>1 DEF WalkInv, Ids
  <2> QED
    BY <2>2, <2>4, <2>5
<1>4. CASE ResolveCached \/ (\E f \in Files : ResolveFound(f)) \/ ResolveMissing
  <2>0. where = "expand"
    BY <1>4 DEF ResolveCached, ResolveFound, ResolveMissing
  <2>1. /\ Grows
        /\ Pending
        /\ \E n \in 1..Len(nodes') : Resolved(n) /\ resolved[Rule][Ref] \in {0, n}
    BY <1>4, <2>0, ResolveGrows
  <2>2. PICK n \in 1..Len(nodes') : Resolved(n) /\ resolved[Rule][Ref] \in {0, n}
    BY <2>1
  <2>3. \A c \in BOOLEAN, m \in Names :
          resolved[c][m] # 0 => resolved'[c][m] = resolved[c][m]
    BY <2>2, ResolvedStays
  <2>4. NodesInv' /\ EdgesInv'
    BY <2>1, <2>3, GrowthKeeps
  <2>5. /\ where' = "expand" /\ inputs' = inputs /\ id' = id /\ index' = index
        /\ successors' = Append(successors, n)
        /\ resolved' = [resolved EXCEPT ![Rule][Ref] = n]
    BY <2>0, <2>2 DEF Resolved
  <2>6. /\ id \in Ids /\ Len(nodes) \in Nat /\ Ids \subseteq Ids'
        /\ nodes'[id] = nodes[id] /\ nodes[id] \in Nodes
    BY <2>0, <2>1, <1>0 DEF Grows, ExpandInv, Ids
  <2>7. nodes[id].refs \in Seq(Names) /\ Rule \in BOOLEAN
    BY <2>6 DEF Nodes, Rule
  <2>8. /\ Len(successors) \in Nat
        /\ Len(successors') = Len(successors) + 1
        /\ Len(successors) + 1 \in 1..Len(nodes[id].refs)
        /\ successors'[Len(successors) + 1] = n
        /\ \A i \in 1..Len(successors) : successors'[i] = successors[i]
    BY <2>1, <2>2, <2>5, <2>7, <1>0 DEF Pending
  <2>9. Ref \in Names
    BY <2>7, <2>8 DEF Ref
  <2>10. resolved'[Rule][Ref] = n
    BY <2>5, <2>7, <2>9, <1>0
  <2>11. ASSUME NEW i \in 1..Len(successors')
         PROVE  successors'[i] \in Ids' /\ successors'[i] = resolved'[Rule][nodes[id].refs[i]]
    <3>1. CASE i = Len(successors) + 1
      BY <2>2, <2>8, <2>10, <3>1 DEF Ref, Ids
    <3>2. CASE i \in 1..Len(successors)
      <4>1. /\ successors[i] \in Ids
            /\ successors[i] = resolved[Rule][nodes[id].refs[i]]
        BY <2>0, <3>2 DEF ExpandInv
      <4>2. nodes[id].refs[i] \in Names
        BY <2>7, <2>8, <3>2
      <4>3. successors[i] # 0
        BY <2>6, <4>1 DEF Ids
      <4> QED
        BY <2>3, <2>6, <2>7, <2>8, <3>2, <4>1, <4>2, <4>3
    <3> QED
      BY <2>8, <2>11, <3>1, <3>2
  <2>12. ExpandInv'
    <3>1. Due(id)' /\ Rule' = Rule
      BY <2>0, <2>5, <2>6 DEF ExpandInv, Due, Rule
    <3> QED
      BY <2>5, <2>6, <2>8, <2>11, <3>1 DEF ExpandInv
  <2>13. WalkInv'
    <3>1. ASSUME NEW i \in 1..Len(inputs) PROVE by_key'[inputs[i]] # 0
      BY <2>0, <2>1, <1>0 DEF WalkInv, Grows
    <3>2. ASSUME NEW m \in Ids', m < id, nodes'[m].status = "Parsed"
          PROVE  nodes'[m].expanded
      <4>1. m \in Ids
        BY <2>6, <3>2, <1>0 DEF Ids
      <4>2. nodes'[m] = nodes[m]
        BY <2>1, <4>1 DEF Grows
      <4> QED
        BY <2>0, <3>2, <4>1, <4>2 DEF WalkInv
    <3> QED
      BY <2>5, <3>1, <3>2 DEF WalkInv
  <2> QED
    BY <2>4, <2>12, <2>13
<1>5. CASE ExpandEnd
  <2>1. /\ where = "expand" /\ where' = "walk" /\ ~Pending
        /\ nodes' = [nodes EXCEPT ![id] = Expanded(nodes[id])]
        /\ id' = id + 1
        /\ UNCHANGED <<inputs, by_key, resolved, index>>
    BY <1>5 DEF ExpandEnd
  <2>2. id \in Ids /\ nodes[id] \in Nodes /\ Due(id) /\ Len(nodes) \in Nat
    BY <2>1, <1>0 DEF ExpandInv, Ids
  <2>3. /\ Ids' = Ids
        /\ nodes'[id] = Expanded(nodes[id])
        /\ \A n \in Ids : n # id => nodes'[n] = nodes[n]
    BY <2>1, <2>2, <1>0 DEF Ids
  <2>4. /\ nodes'[id].key = nodes[id].key
        /\ nodes'[id].status = nodes[id].status
        /\ nodes'[id].refs = nodes[id].refs
        /\ nodes'[id].ignore_case = nodes[id].ignore_case
        /\ nodes'[id].successors = successors
        /\ nodes'[id].expanded
    BY <2>3 DEF Expanded
  <2>5. nodes[id].status = "Parsed"
    BY <2>2 DEF Due
  <2>6. NodesInv'
    BY <2>1, <2>2, <2>3, <2>4, <2>5 DEF NodesInv
  <2>7. Len(successors) = Len(nodes[id].refs)
    <3>1. Len(successors) \in Nat /\ Len(nodes[id].refs) \in Nat
      BY <2>2, <1>0 DEF Nodes
    <3> QED
      BY <2>1, <3>1 DEF ExpandInv, Pending
  <2>8. EdgesInv'
    BY <2>1, <2>2, <2>3, <2>4, <2>7 DEF EdgesInv, ExpandInv, Rule
  <2>9. ExpandInv'
    BY <2>1 DEF ExpandInv
  <2>10. WalkInv'
    BY <2>1, <2>2, <2>3, <2>4, <1>0 DEF WalkInv, Ids
  <2> QED
    BY <2>6, <2>8, <2>9, <2>10
<1>6. CASE WalkSkip
  <2>1. /\ where = "walk" /\ where' = "walk" /\ id <= Len(nodes) /\ ~Due(id)
        /\ id' = id + 1
        /\ UNCHANGED <<inputs, nodes, by_key, resolved, index>>
    BY <1>6 DEF WalkSkip, graph
  <2>2. NodesInv' /\ EdgesInv' /\ ExpandInv'
    BY <2>1 DEF NodesInv, EdgesInv, ExpandInv, Ids
  <2>3. WalkInv'
    BY <2>1, <1>0 DEF WalkInv, Due, Ids
  <2> QED
    BY <2>2, <2>3
<1>7. CASE WalkEnd
  <2>1. /\ where = "walk" /\ where' = "credit" /\ id > Len(nodes)
        /\ UNCHANGED <<inputs, nodes, by_key, resolved>>
    BY <1>7 DEF WalkEnd, Walked, graph
  <2>2. NodesInv' /\ EdgesInv' /\ ExpandInv'
    BY <2>1 DEF NodesInv, EdgesInv, ExpandInv, Ids
  <2>3. WalkInv'
    BY <2>1, <1>0 DEF WalkInv, Ids
  <2> QED
    BY <2>2, <2>3
<1>8. ASSUME where \in Crediting, where' \in Crediting,
             UNCHANGED <<inputs, nodes, by_key, resolved>>
      PROVE  GraphInv'
  <2>1. NodesInv' /\ EdgesInv' /\ ExpandInv'
    BY <1>8 DEF NodesInv, EdgesInv, ExpandInv, Ids, Crediting
  <2>2. WalkInv'
    BY <1>8 DEF WalkInv, Ids, Crediting
  <2> QED
    BY <2>1, <2>2
<1>9. CASE VisitNew \/ VisitSeen \/ NextHead \/ NextInput \/ CreditEnd
  BY <1>8, <1>9 DEF VisitNew, VisitSeen, NextHead, NextInput, CreditEnd, graph, Crediting
<1>10. CASE ReportNode \/ ReportSkip \/ ReportEnd
  BY <1>8, <1>10 DEF ReportNode, ReportSkip, ReportEnd, graph, Crediting
<1>11. CASE UNCHANGED vars
  BY <1>11 DEF vars, NodesInv, EdgesInv, ExpandInv, WalkInv, Ids, Due, Rule
<1> QED
  BY <1>1, <1>2, <1>3, <1>4, <1>5, <1>6, <1>7, <1>9, <1>10, <1>11 DEF Next
\* The arrays, the marks and the queue.
LEMMA MarksStep ==
  TypeOK /\ GraphInv /\ MarksInv /\ QueueInv /\ [Next]_vars => MarksInv'
<1> SUFFICES ASSUME TypeOK, GraphInv, MarksInv, QueueInv, [Next]_vars
             PROVE  MarksInv'
  OBVIOUS
<1> USE DEF Crediting
<1>0. /\ Len(inputs) \in Nat /\ Len(nodes) \in Nat /\ index \in Nat \ {0}
      /\ seen \in Seq(Nat) /\ credits \in Seq(Seq(Nat))
  BY DEF TypeOK
<1>1. CASE \/ InputNode \/ InputsEnd \/ ExpandBegin \/ ExpandEnd \/ WalkSkip
           \/ ResolveCached \/ (\E f \in Files : ResolveFound(f)) \/ ResolveMissing
  <2>1. /\ where \notin Crediting /\ where' \notin Crediting
        /\ UNCHANGED <<head, edge, queue, credits>>
    BY <1>1 DEF InputNode, InputsEnd, ExpandBegin, ExpandEnd, WalkSkip, ResolveCached,
                ResolveFound, ResolveMissing, Resolved, search
  <2> QED
    BY <2>1 DEF MarksInv
<1>2. CASE WalkEnd
  <2>1. /\ where' = "credit" /\ nodes' = nodes /\ index' = 1
        /\ seen' = [n \in 1..Len(nodes) |-> 0]
        /\ credits' = [n \in 1..Len(nodes) |-> <<>>]
    BY <1>2 DEF WalkEnd, graph
  <2>2. Len(seen') = Len(nodes) /\ Len(credits') = Len(nodes)
    BY <1>0, <2>1
  <2> QED
    BY <2>1, <2>2 DEF MarksInv, Ids
<1>3. CASE VisitNew
  <2>1. /\ where = "credit" /\ where' = "credit" /\ index' = index /\ nodes' = nodes
        /\ credits' = credits
        /\ seen' = [seen EXCEPT ![Edges[edge]] = index]
    BY <1>3 DEF VisitNew, graph, Stamp
  <2>2. Len(seen') = Len(seen) /\ \A n \in 1..Len(seen) : seen'[n] \in {seen[n], index}
    BY <1>0, <2>1
  <2> QED
    BY <1>0, <2>1, <2>2 DEF MarksInv, Ids
<1>4. CASE VisitSeen
  BY <1>4 DEF VisitSeen, graph, MarksInv, Ids
<1>5. CASE NextHead
  <2>1. /\ where = "credit" /\ where' = "credit"
        /\ UNCHANGED <<index, nodes, seen>>
        /\ \E new : credits' = [credits EXCEPT ![queue[head + 1]] = new]
    BY <1>5 DEF NextHead, graph
  <2>2. Len(credits') = Len(credits)
    BY <1>0, <2>1
  <2> QED
    BY <2>1, <2>2 DEF MarksInv, Ids
<1>6. CASE NextInput
  <2>1. /\ where = "credit" /\ where' = "credit" /\ index' = index + 1
        /\ UNCHANGED <<nodes, seen, credits>>
    BY <1>6 DEF NextInput, graph
  <2> QED
    BY <1>0, <2>1 DEF MarksInv, Ids
<1>7. CASE CreditEnd
  BY <1>7 DEF CreditEnd, graph, search, MarksInv
<1>8. CASE ReportNode
  BY <1>8 DEF ReportNode, graph, search, MarksInv
<1>9. CASE ReportSkip
  BY <1>9 DEF ReportSkip, graph, search, MarksInv
<1>10. CASE ReportEnd
  BY <1>10 DEF ReportEnd, graph, search, MarksInv
<1>11. CASE UNCHANGED vars
  BY <1>11 DEF vars, MarksInv, Ids
<1> QED
  BY <1>1, <1>2, <1>3, <1>4, <1>5, <1>6, <1>7, <1>8, <1>9, <1>10, <1>11 DEF Next
\* The search under way.
LEMMA QueueStep ==
  TypeOK /\ GraphInv /\ MarksInv /\ QueueInv /\ [Next]_vars => QueueInv'
<1> SUFFICES ASSUME TypeOK, GraphInv, MarksInv, QueueInv, [Next]_vars,
                    (where = "credit" /\ index <= Len(inputs))'
             PROVE  QueueInv'
  BY DEF QueueInv
<1> USE DEF Crediting
<1>0. /\ Len(inputs) \in Nat /\ Len(nodes) \in Nat /\ index \in Nat \ {0}
      /\ queue \in Seq(Nat) /\ Len(queue) \in Nat
      /\ head \in Nat /\ edge \in Nat \ {0}
      /\ seen \in Seq(Nat)
  BY DEF TypeOK
\* A search that begins has an empty queue and no marks of its own.
<1>1. ASSUME head' = 0, edge' = 1, queue' = <<>>, UNCHANGED nodes,
             \A n \in Ids : seen'[n] # index'
      PROVE  QueueInv'
  <2>1. ~\E h \in 1..Len(queue') : TRUE
    BY <1>1
  <2>2. Queued' = {}
    BY <2>1 DEF Queued, Elements
  <2>3. Ids' = Ids
    BY <1>1 DEF Ids
  <2>4. \A e \in 1..Len(Edges') : ~(e < edge')
    BY <1>1
  <2> QED
    BY <1>1, <2>1, <2>2, <2>3, <2>4 DEF QueueInv
<1>2. CASE WalkEnd
  <2>1. /\ index' = 1 /\ nodes' = nodes
        /\ head' = 0 /\ edge' = 1 /\ queue' = <<>>
        /\ seen' = [n \in 1..Len(nodes) |-> 0]
    BY <1>2 DEF WalkEnd, graph, MarksInv
  <2>2. \A n \in Ids : seen'[n] # index'
    BY <2>1 DEF Ids
  <2> QED
    BY <1>1, <2>1, <2>2
<1>3. CASE NextInput
  <2>1. /\ index' = index + 1 /\ nodes' = nodes /\ seen' = seen /\ where = "credit"
        /\ head' = 0 /\ edge' = 1 /\ queue' = <<>>
    BY <1>3 DEF NextInput, graph
  <2>2. Len(seen) = Len(nodes) /\ \A n \in Ids : seen[n] <= index
    BY <2>1 DEF MarksInv
  <2>3. \A n \in Ids : seen'[n] # index'
    BY <1>0, <2>1, <2>2 DEF Ids
  <2> QED
    BY <1>1, <2>1, <2>3
<1>4. CASE VisitNew
  <2>1. /\ where = "credit" /\ index <= Len(inputs)
        /\ edge \in 1..Len(Edges)
        /\ seen[Edges[edge]] # index
        /\ seen' = [seen EXCEPT ![Edges[edge]] = index]
        /\ queue' = Append(queue, Edges[edge])
        /\ edge' = edge + 1
        /\ UNCHANGED <<inputs, nodes, by_key, index, head>>
    <3>1. Current \in Ids
      BY <1>4, CurrentExists DEF VisitNew, GraphInv
    <3>2. Edges \in Seq(Nat)
      BY <3>1, EdgesExist DEF GraphInv, Edges
    <3> QED
      BY <1>0, <1>4, <3>2 DEF VisitNew, graph, Stamp
  <2> DEFINE m == Edges[edge]
  <2>2. Current \in Ids
    BY <2>1, CurrentExists DEF GraphInv
  <2>3. m \in Ids /\ m \in Nat
    <3>1. \A e \in 1..Len(Edges) : Edges[e] \in Ids
      BY <2>2, EdgesExist DEF GraphInv, Edges
    <3> QED
      BY <1>0, <2>1, <3>1 DEF Ids
  <2>4. Needs(index, m)
    <3>1. CASE head = 0
      BY <2>1, <3>1, NeedsDirectly DEF Edges, Current
    <3>2. CASE head # 0
      <4>1. head \in 1..Len(queue) /\ Current = queue[head]
        BY <1>0, <2>1, <3>2 DEF QueueInv, Current
      <4>2. Needs(index, Current)
        <5>1. Current \in Queued
          BY <4>1 DEF Queued, Elements
        <5> QED
          BY <2>1, <5>1 DEF QueueInv
      <4> QED
        BY <2>1, <2>2, <4>2, NeedsThrough DEF Edges
    <3> QED
      BY <3>1, <3>2
  <2> HIDE DEF m
  <2>5. /\ Len(queue') = Len(queue) + 1
        /\ queue'[Len(queue) + 1] = m
        /\ \A h \in 1..Len(queue) : queue'[h] = queue[h]
    BY <1>0, <2>1, <2>3 DEF m
  <2>6. Ids' = Ids /\ Edges' = Edges /\ (\A i, n : Needs(i, n)' <=> Needs(i, n))
    <3>1. \A i, n : Needs(i, n)' <=> Needs(i, n)
      BY <2>1, NeedsSame
    <3>2. Current' = Current
      BY <1>0, <2>1, <2>5 DEF Current, QueueInv
    <3> QED
      BY <2>1, <3>1, <3>2 DEF Ids, Edges
  <2>7. Queued' = Queued \cup {m}
    <3>1. queue' = Append(queue, m)
      BY <2>1 DEF m
    <3>2. Elements(Append(queue, m)) = Elements(queue) \cup {m}
      BY <1>0, <2>3, ElementsAppend
    <3> QED
      BY <3>1, <3>2 DEF Queued
  <2>8. m \notin Queued
    BY <2>1, <2>3 DEF QueueInv, m
  <2>9. /\ head' <= Len(queue')
        /\ Queued' \subseteq Ids'
        /\ \A i \in {index'}, n \in Queued' : Needs(i, n)'
    <3>1. head' <= Len(queue')
      BY <1>0, <2>1, <2>5 DEF QueueInv
    <3>2. Queued \subseteq Ids /\ \A n \in Queued : Needs(index, n)
      BY <2>1 DEF QueueInv
    <3>3. \A n \in Queued \cup {m} : Needs(index, n)
      BY <2>4, <3>2 DEF m
    <3> QED
      BY <2>1, <2>3, <2>6, <2>7, <3>1, <3>2, <3>3
  <2>10. \A g, h \in 1..Len(queue') : queue'[g] = queue'[h] => g = h
    <3>1. \A h \in 1..Len(queue) : queue[h] # m
      BY <2>8 DEF Queued, Elements
    <3>2. \A g, h \in 1..Len(queue) : queue[g] = queue[h] => g = h
      BY <2>1 DEF QueueInv
    <3>3. \A h \in 1..Len(queue') : h \in 1..Len(queue) \/ h = Len(queue) + 1
      BY <1>0, <2>5
    <3> QED
      BY <2>5, <3>1, <3>2, <3>3
  <2>11. \A n \in Ids' : seen'[n] = index' <=> n \in Queued'
    <3>1. Len(seen) = Len(nodes)
      BY <2>1 DEF MarksInv
    <3>2. \A n \in Ids : seen'[n] = IF n = m THEN index ELSE seen[n]
      BY <1>0, <2>1, <3>1 DEF Ids, m
    <3>3. \A n \in Ids : seen[n] = index <=> n \in Queued
      BY <2>1 DEF QueueInv
    <3> QED
      BY <2>1, <2>6, <2>7, <3>2, <3>3
  <2>12. \A h \in 1..Len(queue') : h < head' =>
           \A e \in 1..Len(nodes'[queue'[h]].successors) :
             nodes'[queue'[h]].successors[e] \in Queued'
    <3> SUFFICES ASSUME NEW h \in 1..Len(queue'), h < head,
                        NEW e \in 1..Len(nodes[queue'[h]].successors)
                 PROVE  nodes[queue'[h]].successors[e] \in Queued'
      BY <2>1
    <3>1. h \in 1..Len(queue) /\ queue'[h] = queue[h]
      BY <1>0, <2>1, <2>5 DEF QueueInv
    <3>2. nodes[queue[h]].successors[e] \in Queued
      BY <2>1, <3>1 DEF QueueInv
    <3> QED
      BY <2>7, <3>1, <3>2
  <2>13. head' > 0 =>
           \A e \in 1..Len(nodes'[by_key'[inputs'[index']]].successors) :
             nodes'[by_key'[inputs'[index']]].successors[e] \in Queued'
    BY <2>1, <2>7 DEF QueueInv
  <2>14. \A e \in 1..Len(Edges') : e < edge' => Edges'[e] \in Queued'
    <3> SUFFICES ASSUME NEW e \in 1..Len(Edges), e < edge + 1
                 PROVE  Edges[e] \in Queued'
      BY <2>1, <2>6
    <3>1. CASE e = edge
      BY <2>7, <3>1 DEF m
    <3>2. CASE e < edge
      BY <2>1, <2>7, <3>2 DEF QueueInv
    <3> QED
      BY <1>0, <2>1, <3>1, <3>2
  <2> QED
    BY <2>9, <2>10, <2>11, <2>12, <2>13, <2>14 DEF QueueInv
<1>5. CASE VisitSeen
  <2>1. /\ where = "credit" /\ index <= Len(inputs)
        /\ edge \in 1..Len(Edges)
        /\ seen[Edges[edge]] = index
        /\ edge' = edge + 1
        /\ UNCHANGED <<inputs, nodes, by_key, index, head, queue, seen>>
    <3>1. Current \in Ids
      BY <1>5, CurrentExists DEF VisitSeen, GraphInv
    <3>2. Edges \in Seq(Nat)
      BY <3>1, EdgesExist DEF GraphInv, Edges
    <3> QED
      BY <1>0, <1>5, <3>2 DEF VisitSeen, graph, Stamp
  <2>2. /\ Ids' = Ids /\ Edges' = Edges
        /\ Queued' = Queued
    BY <2>1 DEF Ids, Edges, Current, Queued
  <2>3. \A i, n : Needs(i, n)' <=> Needs(i, n)
    BY <2>1, NeedsSame
  <2>4. Edges[edge] \in Queued
    <3>1. Current \in Ids
      BY <2>1, CurrentExists DEF GraphInv
    <3>2. Edges[edge] \in Ids
      BY <2>1, <3>1, EdgesExist DEF GraphInv, Edges
    <3> QED
      BY <2>1, <3>2 DEF QueueInv
  <2>5. \A e \in 1..Len(Edges) : e < edge + 1 => Edges[e] \in Queued
    <3> SUFFICES ASSUME NEW e \in 1..Len(Edges), e < edge + 1 PROVE Edges[e] \in Queued
      OBVIOUS
    <3>1. CASE e = edge
      BY <2>4, <3>1
    <3>2. CASE e < edge
      BY <2>1, <3>2 DEF QueueInv
    <3> QED
      BY <1>0, <3>1, <3>2
  <2> QED
    BY <2>1, <2>2, <2>3, <2>5 DEF QueueInv
<1>6. CASE NextHead
  <2>1. /\ where = "credit" /\ index <= Len(inputs)
        /\ edge > Len(Edges)
        /\ head < Len(queue)
        /\ head' = head + 1
        /\ edge' = 1
        /\ UNCHANGED <<inputs, nodes, by_key, index, queue, seen>>
    BY <1>6 DEF NextHead, graph
  <2>2. Ids' = Ids /\ Queued' = Queued
    BY <2>1 DEF Ids, Queued
  <2>3. \A i, n : Needs(i, n)' <=> Needs(i, n)
    BY <2>1, NeedsSame
  <2>4. Edges \in Seq(Nat) /\ \A e \in 1..Len(Edges) : Edges[e] \in Queued
    <3>1. Current \in Ids
      BY <2>1, CurrentExists DEF GraphInv
    <3>2. Edges \in Seq(Nat)
      BY <3>1, EdgesExist DEF GraphInv, Edges
    <3>3. \A e \in 1..Len(Edges) : e < edge
      BY <1>0, <2>1, <3>2
    <3> QED
      BY <2>1, <3>2, <3>3 DEF QueueInv
  <2>5. \A h \in 1..Len(queue) : h < head + 1 =>
          \A e \in 1..Len(nodes[queue[h]].successors) : nodes[queue[h]].successors[e] \in Queued
    <3> SUFFICES ASSUME NEW h \in 1..Len(queue), h < head + 1,
                        NEW e \in 1..Len(nodes[queue[h]].successors)
                 PROVE  nodes[queue[h]].successors[e] \in Queued
      OBVIOUS
    <3>1. CASE h = head
      <4>1. Edges = nodes[queue[h]].successors
        BY <1>0, <3>1 DEF Edges, Current
      <4> QED
        BY <2>4, <4>1
    <3>2. CASE h < head
      BY <2>1, <3>2 DEF QueueInv
    <3> QED
      BY <1>0, <3>1, <3>2
  <2>6. \A e \in 1..Len(nodes[by_key[inputs[index]]].successors) :
          nodes[by_key[inputs[index]]].successors[e] \in Queued
    <3>1. CASE head = 0
      BY <2>4, <3>1 DEF Edges, Current
    <3>2. CASE head > 0
      BY <2>1, <3>2 DEF QueueInv
    <3> QED
      BY <1>0, <3>1, <3>2
  <2>7. \A e \in 1..Len(Edges') : ~(e < edge')
    BY <2>1
  <2>8. head' <= Len(queue')
    BY <1>0, <2>1
  <2> QED
    BY <2>1, <2>2, <2>3, <2>5, <2>6, <2>7, <2>8 DEF QueueInv
<1>7. CASE UNCHANGED vars
  <2>1. /\ UNCHANGED <<where, inputs, nodes, by_key, index, head, edge, queue, seen>>
        /\ Ids' = Ids /\ Edges' = Edges
        /\ Queued' = Queued
    BY <1>7 DEF vars, Ids, Edges, Current, Queued
  <2>2. \A i, n : Needs(i, n)' <=> Needs(i, n)
    BY <2>1, NeedsSame
  <2> QED
    BY <2>1, <2>2 DEF QueueInv
<1>8. \/ WalkEnd \/ VisitNew \/ VisitSeen \/ NextHead \/ NextInput \/ UNCHANGED vars
  BY DEF Next, InputNode, InputsEnd, ExpandBegin, ExpandEnd, WalkSkip, ResolveCached,
         ResolveFound, ResolveMissing, Resolved, CreditEnd, ReportNode, ReportSkip, ReportEnd
<1> QED
  BY <1>2, <1>3, <1>4, <1>5, <1>6, <1>7, <1>8
\* The credits.
LEMMA CreditsStep ==
  TypeOK /\ GraphInv /\ MarksInv /\ QueueInv /\ CreditsInv /\ CreditsExact /\ [Next]_vars
    => CreditsInv' /\ CreditsExact'
<1> SUFFICES ASSUME TypeOK, GraphInv, MarksInv, QueueInv, CreditsInv, CreditsExact,
                    [Next]_vars, where' \in Crediting
             PROVE  CreditsInv' /\ CreditsExact'
  BY DEF CreditsInv, CreditsExact, Crediting
<1> USE DEF Crediting
<1>0. /\ Len(inputs) \in Nat /\ Len(nodes) \in Nat /\ index \in Nat \ {0}
      /\ queue \in Seq(Nat) /\ Len(queue) \in Nat
      /\ head \in Nat /\ edge \in Nat \ {0}
      /\ credits \in Seq(Seq(Nat))
  BY DEF TypeOK
\* What a step that leaves graph, credits and input alone has to show.
<1>1. ASSUME where \in Crediting, UNCHANGED <<inputs, nodes, by_key, index, credits>>,
             where' = "credit" /\ index <= Len(inputs) =>
               /\ where = "credit"
               /\ head' = head
               /\ \A h \in 1..head : queue'[h] = queue[h]
      PROVE  CreditsInv' /\ CreditsExact'
  <2>1. Ids' = Ids /\ \A i, n : Needs(i, n)' <=> Needs(i, n)
    BY <1>1, NeedsSame DEF Ids
  <2>2. CreditsInv'
    BY <1>1, <2>1 DEF CreditsInv
  <2>3. CreditsExact'
    BY <1>1, <2>1 DEF CreditsExact
  <2> QED
    BY <2>2, <2>3
<1>2. CASE WalkEnd
  <2>1. /\ where' = "credit" /\ nodes' = nodes /\ index' = 1 /\ head' = 0
        /\ credits' = [n \in 1..Len(nodes) |-> <<>>]
    BY <1>2 DEF WalkEnd, graph, MarksInv
  <2>2. Ids' = Ids /\ \A n \in Ids : credits'[n] = <<>> /\ Elements(credits'[n]) = {}
    BY <2>1 DEF Ids, Elements
  <2>3. CreditsInv'
    <3>1. \A n \in Ids : StrictlySorted(credits'[n])
      BY <2>2 DEF StrictlySorted
    <3>2. \A h \in 1..head' : FALSE
      BY <2>1
    <3> QED
      BY <2>1, <2>2, <3>1, <3>2 DEF CreditsInv
  <2>4. CreditsExact'
    BY <2>1, <1>0 DEF CreditsExact
  <2> QED
    BY <2>3, <2>4
<1>3. CASE VisitNew
  <2>1. /\ where = "credit" /\ where' = "credit" /\ index <= Len(inputs)
        /\ UNCHANGED <<inputs, nodes, by_key, index, credits, head>>
        /\ queue' = Append(queue, Edges[edge])
    BY <1>3 DEF VisitNew, graph
  <2>2. head <= Len(queue)
    BY <2>1 DEF QueueInv
  <2>3. \A h \in 1..head : queue'[h] = queue[h]
    BY <1>0, <2>1, <2>2
  <2> QED
    BY <1>1, <2>1, <2>3
<1>4. CASE VisitSeen
  BY <1>1, <1>4 DEF VisitSeen, graph
<1>5. CASE NextHead
  <2>1. /\ where = "credit" /\ where' = "credit" /\ index <= Len(inputs)
        /\ head < Len(queue) /\ head' = head + 1
        /\ credits' = [credits EXCEPT ![queue[head + 1]] = Append(credits[queue[head + 1]], index)]
        /\ UNCHANGED <<inputs, nodes, by_key, index, queue>>
    BY <1>5 DEF NextHead, graph
  <2> DEFINE q == queue[head + 1]
  <2>2. head + 1 \in 1..Len(queue)
    BY <1>0, <2>1
  <2>3. q \in Ids /\ Len(credits) = Len(nodes)
    <3>1. q \in Queued
      BY <2>2 DEF Queued, Elements
    <3> QED
      BY <2>1, <3>1 DEF QueueInv, MarksInv
  <2>4. credits[q] \in Seq(Nat)
    BY <1>0, <2>3 DEF Ids
  <2>5. \A h \in 1..head : queue[h] # q
    <3>1. \A g, h \in 1..Len(queue) : queue[g] = queue[h] => g = h
      BY <2>1 DEF QueueInv
    <3>2. \A h \in 1..head : h \in 1..Len(queue) /\ h # head + 1
      BY <1>0, <2>1
    <3> QED
      BY <2>2, <3>1, <3>2
  <2> HIDE DEF q
  <2>6. /\ Ids' = Ids
        /\ credits'[q] = Append(credits[q], index)
        /\ \A n \in Ids : n # q => credits'[n] = credits[n]
    BY <1>0, <2>1, <2>3 DEF Ids, q
  <2>7. Elements(credits'[q]) = Elements(credits[q]) \cup {index}
    <3>1. index \in Nat
      BY <1>0
    <3>2. Elements(Append(credits[q], index)) = Elements(credits[q]) \cup {index}
      BY <2>4, <3>1, ElementsAppend
    <3> QED
      BY <2>6, <3>2
  <2>8. /\ \A n \in Ids : Elements(credits[n]) \subseteq 1..index
        /\ \A n \in Ids : StrictlySorted(credits[n])
        /\ \A n \in Ids : index \in Elements(credits[n]) <=> \E h \in 1..head : queue[h] = n
    BY <2>1 DEF CreditsInv
  <2>9. \A n \in Ids : Elements(credits'[n]) \subseteq 1..index
    <3>1. index \in 1..index
      BY <1>0
    <3> QED
      BY <2>6, <2>7, <2>8, <3>1
  <2>10. StrictlySorted(credits'[q])
    <3>1. index \notin Elements(credits[q])
      BY <2>3, <2>5, <2>8
    <3>2. \A i \in 1..Len(credits[q]) : credits[q][i] \in 1..index /\ credits[q][i] # index
      BY <2>3, <2>8, <3>1 DEF Elements
    <3>3. \A i \in 1..Len(credits[q]) : credits[q][i] < index
      <4>1. \A x \in 1..index : x # index => x < index
        BY <1>0
      <4> QED
        BY <3>2, <4>1
    <3>4. \A i, j \in 1..Len(credits[q]) : i < j => credits[q][i] < credits[q][j]
      BY <2>3, <2>8 DEF StrictlySorted
    <3>5. /\ Len(credits[q]) \in Nat
          /\ Len(credits'[q]) = Len(credits[q]) + 1
          /\ credits'[q][Len(credits[q]) + 1] = index
          /\ \A i \in 1..Len(credits[q]) : credits'[q][i] = credits[q][i]
      BY <1>0, <2>4, <2>6
    <3> SUFFICES ASSUME NEW i \in 1..Len(credits'[q]), NEW j \in 1..Len(credits'[q]), i < j
                 PROVE  credits'[q][i] < credits'[q][j]
      BY DEF StrictlySorted
    <3>6. i \in 1..Len(credits[q])
      BY <3>5
    <3>7. CASE j = Len(credits[q]) + 1
      BY <3>3, <3>5, <3>6, <3>7
    <3>8. CASE j \in 1..Len(credits[q])
      BY <3>4, <3>5, <3>6, <3>8
    <3> QED
      BY <3>5, <3>7, <3>8
  <2>11. \A n \in Ids : index \in Elements(credits'[n]) <=> \E h \in 1..(head + 1) : queue[h] = n
    <3>1. 1..(head + 1) = 1..head \cup {head + 1}
      BY <1>0
    <3>2. \A n \in Ids : (\E h \in 1..(head + 1) : queue[h] = n)
                          <=> n = q \/ \E h \in 1..head : queue[h] = n
      BY <3>1 DEF q
    <3> QED
      BY <2>6, <2>7, <2>8, <3>2
  <2>12. CreditsInv'
    BY <2>1, <2>6, <2>8, <2>9, <2>10, <2>11 DEF CreditsInv
  <2>13. CreditsExact'
    <3>1. \A i, n : Needs(i, n)' <=> Needs(i, n)
      BY <2>1, NeedsSame
    <3>2. \A i \in 1..Len(inputs) : i < index => \A n \in Ids :
            i \in Elements(credits[n]) <=> Needs(i, n)
      BY <2>1 DEF CreditsExact
    <3>3. \A i \in 1..Len(inputs) : i < index => \A n \in Ids :
            i \in Elements(credits'[n]) <=> i \in Elements(credits[n])
      <4>1. \A i \in 1..Len(inputs) : i < index => i # index
        BY <1>0
      <4> QED
        BY <2>6, <2>7, <4>1
    <3> QED
      BY <2>1, <2>6, <3>1, <3>2, <3>3 DEF CreditsExact
  <2> QED
    BY <2>12, <2>13
<1>6. CASE NextInput
  <2>1. /\ where = "credit" /\ where' = "credit" /\ index <= Len(inputs)
        /\ edge > Len(Edges) /\ head = Len(queue)
        /\ index' = index + 1 /\ head' = 0
        /\ UNCHANGED <<inputs, nodes, by_key, credits>>
    BY <1>6 DEF NextInput, graph
  <2>2. Ids' = Ids /\ \A i, n : Needs(i, n)' <=> Needs(i, n)
    BY <2>1, NeedsSame DEF Ids
  <2>3. /\ \A n \in Ids : Elements(credits[n]) \subseteq 1..index
        /\ \A n \in Ids : StrictlySorted(credits[n])
        /\ \A n \in Ids : index \in Elements(credits[n]) <=> \E h \in 1..head : queue[h] = n
    BY <2>1 DEF CreditsInv
  <2>4. CreditsInv'
    <3>1. 1..index \subseteq 1..(index + 1) /\ index + 1 \notin 1..index
      BY <1>0
    <3>2. \A n \in Ids : /\ Elements(credits[n]) \subseteq 1..(index + 1)
                         /\ index + 1 \notin Elements(credits[n])
      BY <2>3, <3>1
    <3>3. \A h \in 1..head' : FALSE
      BY <2>1
    <3> QED
      BY <2>1, <2>2, <2>3, <3>2, <3>3 DEF CreditsInv
  \* The search is over: its queue is closed, so it holds all the input needs.
  <2>5. Closed(index, Queued)
    <3>1. Edges \in Seq(Nat)
      <4>1. Current \in Ids
        BY <2>1, CurrentExists DEF GraphInv
      <4> QED
        BY <4>1, EdgesExist DEF GraphInv, Edges
    <3>2. \A e \in 1..Len(Edges) : Edges[e] \in Queued
      <4>1. \A e \in 1..Len(Edges) : e < edge
        BY <1>0, <2>1, <3>1
      <4> QED
        BY <2>1, <4>1 DEF QueueInv
    <3>3. \A e \in 1..Len(nodes[by_key[inputs[index]]].successors) :
            nodes[by_key[inputs[index]]].successors[e] \in Queued
      <4>1. CASE head = 0
        BY <3>2, <4>1 DEF Edges, Current
      <4>2. CASE head > 0
        BY <2>1, <4>2 DEF QueueInv
      <4> QED
        BY <1>0, <4>1, <4>2
    <3>4. ASSUME NEW h \in 1..Len(queue), NEW e \in 1..Len(nodes[queue[h]].successors)
          PROVE  nodes[queue[h]].successors[e] \in Queued
      <4>1. CASE h = head
        <5>1. Edges = nodes[queue[h]].successors
          BY <1>0, <4>1 DEF Edges, Current
        <5> QED
          BY <3>2, <5>1
      <4>2. CASE h < head
        BY <2>1, <4>2 DEF QueueInv
      <4> QED
        BY <1>0, <2>1, <4>1, <4>2
    <3>5. \A n \in Queued : Elements(nodes[n].successors) \subseteq Queued
      <4> SUFFICES ASSUME NEW n \in Queued, NEW e \in 1..Len(nodes[n].successors)
                   PROVE  nodes[n].successors[e] \in Queued
        BY DEF Elements
      <4>1. PICK h \in 1..Len(queue) : n = queue[h]
        BY DEF Queued, Elements
      <4> QED
        BY <3>4, <4>1
    <3>6. Elements(nodes[by_key[inputs[index]]].successors) \subseteq Queued
      BY <3>3 DEF Elements
    <3> QED
      BY <3>5, <3>6 DEF Closed
  <2>6. \A n \in Ids : index \in Elements(credits[n]) <=> Needs(index, n)
    <3>1. Queued \subseteq Ids /\ \A n \in Queued : Needs(index, n)
      BY <2>1 DEF QueueInv
    <3>2. \A n : Needs(index, n) => n \in Queued
      BY <2>5, <3>1, NeedsAtMost
    <3>3. \A n : n \in Queued <=> \E h \in 1..head : queue[h] = n
      BY <2>1 DEF Queued, Elements
    <3> QED
      BY <2>3, <3>1, <3>2, <3>3
  <2>7. CreditsExact'
    <3>1. \A i \in 1..Len(inputs) : i < index => \A n \in Ids :
            i \in Elements(credits[n]) <=> Needs(i, n)
      BY <2>1 DEF CreditsExact
    <3>2. \A i \in 1..Len(inputs) : i < index + 1 => i < index \/ i = index
      BY <1>0
    <3>3. \A i \in 1..Len(inputs) : i < index + 1 => \A n \in Ids :
            i \in Elements(credits[n]) <=> Needs(i, n)
      BY <2>6, <3>1, <3>2
    <3> QED
      BY <2>1, <2>2, <3>3 DEF CreditsExact
  <2> QED
    BY <2>4, <2>7
<1>7. CASE CreditEnd
  BY <1>1, <1>7 DEF CreditEnd, graph, search
<1>8. CASE ReportNode
  BY <1>1, <1>8 DEF ReportNode, graph, search
<1>9. CASE ReportSkip
  BY <1>1, <1>9 DEF ReportSkip, graph, search
<1>10. CASE ReportEnd
  BY <1>1, <1>10 DEF ReportEnd, graph, search
<1>11. CASE UNCHANGED vars
  BY <1>1, <1>11 DEF vars
<1>12. \/ WalkEnd \/ VisitNew \/ VisitSeen \/ NextHead \/ NextInput \/ CreditEnd
       \/ ReportNode \/ ReportSkip \/ ReportEnd \/ UNCHANGED vars
  BY DEF Next, InputNode, InputsEnd, ExpandBegin, ExpandEnd, WalkSkip, ResolveCached,
         ResolveFound, ResolveMissing, Resolved
<1> QED
  BY <1>2, <1>3, <1>4, <1>5, <1>6, <1>7, <1>8, <1>9, <1>10, <1>11, <1>12

----------------------------------------------------------------------------
(* The theorems. *)

\* The invariant holds at the start: there are no nodes yet.
LEMMA InvInit == Init => Inv
<1> SUFFICES ASSUME Init PROVE Inv
  OBVIOUS
<1>1. inputs \in Seq(Files) /\ nodes = <<>> /\ where = "inputs"
  BY DEF Init, InputLists
<1>2. Ids = {} /\ Len(nodes) = 0
  BY <1>1 DEF Ids
<1>3. TypeOK
  BY <1>1, <1>2 DEF Init, TypeOK, Places
<1>4. NodesInv /\ EdgesInv /\ ExpandInv
  BY <1>1, <1>2 DEF NodesInv, EdgesInv, ExpandInv
<1>5. WalkInv
  BY <1>1, <1>2 DEF Init, WalkInv
<1>6. MarksInv /\ QueueInv /\ CreditsInv /\ CreditsExact
  BY <1>1 DEF Init, MarksInv, QueueInv, CreditsInv, CreditsExact, Crediting
<1> QED
  BY <1>3, <1>4, <1>5, <1>6 DEF Inv, GraphInv

\* The inductive invariant of ListDependencies holds throughout.
THEOREM InvHolds == Spec => []Inv
<1>1. Init => Inv
  BY InvInit
<1>2. Inv /\ [Next]_vars => Inv'
  BY TypeStep, GraphStep, MarksStep, QueueStep, CreditsStep DEF Inv
<1> QED
  BY <1>1, <1>2, PTL DEF Spec

\* Every variable of the graph and of the search keeps its type, and the maps
\* never name a node that does not exist.
THEOREM TypeCorrect == Spec => []TypeOK
<1>1. Inv => TypeOK
  BY DEF Inv
<1> QED
  BY <1>1, InvHolds, PTL

\* "Two paths to one file give one node", whatever the names lead to.
THEOREM FilesReadOnce == Spec => []OneNodePerFile
<1>1. Inv => OneNodePerFile
  BY DEF Inv, GraphInv, NodesInv, OneNodePerFile
<1> QED
  BY <1>1, InvHolds, PTL

\* The walk that appends nodes under its own feet misses none of them, and each
\* recorded name has one meaning per case rule.
THEOREM NothingUnread == Spec => []GraphComplete
<1>1. Inv => GraphComplete
  <2> SUFFICES ASSUME Inv, where \in {"credit", "report", "done"}, NEW n \in Ids,
                      nodes[n].status = "Parsed"
               PROVE  /\ nodes[n].expanded
                      /\ Len(nodes[n].successors) = Len(nodes[n].refs)
                      /\ \A i \in 1..Len(nodes[n].refs) :
                           /\ nodes[n].successors[i] \in Ids
                           /\ nodes[n].successors[i] =
                                resolved[nodes[n].ignore_case][nodes[n].refs[i]]
    BY DEF GraphComplete
  <2>1. nodes[n].expanded
    BY DEF Inv, GraphInv, WalkInv
  <2> QED
    BY <2>1 DEF Inv, GraphInv, EdgesInv
<1> QED
  BY <1>1, InvHolds, PTL

\* "Every input that needs a library is listed, whatever the order of the
\* inputs", and no other, though all searches share one array of marks.
THEOREM CreditsAreExact == Spec => []CreditsExact
<1>1. Inv => CreditsExact
  BY DEF Inv
<1> QED
  BY <1>1, InvHolds, PTL

----------------------------------------------------------------------------
(* The report.  What was reported of the nodes so far is exact. *)

\* `errors` names the unreadable inputs among those that have their node.
ErrorsInv ==
  errors = {i \in 1..Len(inputs) :
              /\ where # "inputs" \/ i < index
              /\ nodes[by_key[inputs[i]]].status = "Unreadable"}

\* Credits are inputs.
CreditedInv ==
  where \in Crediting => \A n \in Ids : Elements(credits[n]) \subseteq 1..Len(inputs)

\* The nodes the report is done with.
Reported(n) == where = "done" \/ (where = "report" /\ n < id)

\* The lists hold the credits of the reported nodes of their key.  Those of
\* libraryErrors are sorted at the very end.
ListsInv ==
  /\ dependencies \in [Keys -> Seq(Nat)]
  /\ libraryErrors \in [Keys -> Seq(Nat)]
  /\ \A k \in Keys :
       /\ StrictlySorted(dependencies[k])
       /\ where = "done" => StrictlySorted(libraryErrors[k])
       /\ \A i \in Nat :
            /\ i \in Elements(dependencies[k]) <=>
                 \E n \in Ids : Reported(n) /\ nodes[n].key = k /\ i \in Elements(credits[n])
            /\ i \in Elements(libraryErrors[k]) <=>
                 \E n \in Ids : /\ Reported(n) /\ nodes[n].key = k
                                /\ Failed(n) /\ i \in Elements(credits[n])

ReportInv == ErrorsInv /\ CreditedInv /\ ListsInv

\* std::sort and std::unique keep the elements and order them strictly.
LEMMA SortUniqueSorts ==
  ASSUME NEW s \in Seq(Nat)
  PROVE  /\ SortUnique(s) \in Seq(Nat)
         /\ Elements(SortUnique(s)) = Elements(s)
         /\ StrictlySorted(SortUnique(s))
<1> DEFINE E == Elements(s)
<1>1. E \in SUBSET Nat /\ IsFiniteSet(E)
  <2>1. Len(s) \in Nat /\ IsFiniteSet(1..Len(s))
    BY FS_Interval
  <2>2. s \in Surjection(1..Len(s), E)
    BY DEF Surjection, Elements
  <2> QED BY <2>1, <2>2, FS_Surjection DEF Elements
<1> DEFINE N == Cardinality(E)
<1>2. N \in Nat
  BY <1>1, FS_CardinalityType
<1> DEFINE u == SortUnique(s)
<1>3. u \in [1..N -> E] /\ \A i, j \in DOMAIN u : i < j => u[i] < u[j]
  <2>1. \E w \in [1..N -> E] : \A i, j \in DOMAIN w : i < j => w[i] < w[j]
    BY <1>1, Ascending
  <2> QED BY <2>1 DEF SortUnique
<1>4. \A x \in E : \E i \in 1..N : u[i] = x
  <2> HIDE DEF E, u
  <2> QED BY <1>1, <1>3, AscendingIsOnto
<1> HIDE DEF E, u, N
<1>5. u \in Seq(Nat) /\ Len(u) = N
  <2>1. u \in [1..N -> Nat]
    BY <1>1, <1>3
  <2> QED BY <1>2, <2>1
<1>6. Elements(u) = E
  BY <1>3, <1>4, <1>5 DEF Elements
<1>7. StrictlySorted(u)
  BY <1>3, <1>5 DEF StrictlySorted
<1> QED BY <1>5, <1>6, <1>7 DEF u, E

\* The elements of two lists one after the other.
LEMMA ElementsConcat ==
  ASSUME NEW s \in Seq(Nat), NEW r \in Seq(Nat)
  PROVE  s \o r \in Seq(Nat) /\ Elements(s \o r) = Elements(s) \cup Elements(r)
<1>1. /\ Len(s) \in Nat /\ Len(r) \in Nat
      /\ s \o r \in Seq(Nat)
      /\ Len(s \o r) = Len(s) + Len(r)
      /\ \A i \in 1..Len(s) : (s \o r)[i] = s[i]
      /\ \A i \in 1..Len(r) : (s \o r)[Len(s) + i] = r[i]
  OBVIOUS
<1>2. ASSUME NEW i \in 1..Len(s \o r) PROVE (s \o r)[i] \in Elements(s) \cup Elements(r)
  <2>1. CASE i \in 1..Len(s)
    BY <1>1, <2>1 DEF Elements
  <2>2. CASE i \notin 1..Len(s)
    <3>1. i - Len(s) \in 1..Len(r) /\ i = Len(s) + (i - Len(s))
      BY <1>1, <1>2, <2>2
    <3> QED BY <1>1, <3>1 DEF Elements
  <2> QED BY <2>1, <2>2
<1>3. ASSUME NEW i \in 1..Len(s) PROVE s[i] \in Elements(s \o r)
  BY <1>1, <1>3 DEF Elements
<1>4. ASSUME NEW i \in 1..Len(r) PROVE r[i] \in Elements(s \o r)
  <2>1. Len(s) + i \in 1..Len(s \o r)
    BY <1>1, <1>4
  <2> QED BY <1>1, <2>1 DEF Elements
<1> QED BY <1>1, <1>2, <1>3, <1>4 DEF Elements

\* A key's list with the credits of one more node.
LEMMA ListedAdds ==
  ASSUME NEW s \in Seq(Nat), NEW r \in Seq(Nat), StrictlySorted(r)
  PROVE  /\ Listed(s, r) \in Seq(Nat)
         /\ Elements(Listed(s, r)) = Elements(s) \cup Elements(r)
         /\ StrictlySorted(Listed(s, r))
<1>1. CASE s = <<>>
  <2>1. Elements(s) = {}
    BY <1>1 DEF Elements
  <2> QED BY <1>1, <2>1 DEF Listed
<1>2. CASE s # <<>>
  BY <1>2, ElementsConcat, SortUniqueSorts DEF Listed
<1> QED BY <1>1, <1>2

\* The errors: an input is looked at once, and its node stays as it was read.
LEMMA ErrorsStep ==
  TypeOK /\ GraphInv /\ ErrorsInv /\ [Next]_vars => ErrorsInv'
<1> SUFFICES ASSUME TypeOK, GraphInv, ErrorsInv, [Next]_vars PROVE ErrorsInv'
  OBVIOUS
<1>0. /\ inputs \in Seq(Files) /\ Len(inputs) \in Nat
      /\ nodes \in Seq(Nodes) /\ Len(nodes) \in Nat
      /\ by_key \in [Files -> 0..Len(nodes)]
      /\ index \in Nat \ {0}
  BY DEF TypeOK
<1> DEFINE Unreadable(i) == nodes[by_key[inputs[i]]].status = "Unreadable"
           Done(i) == where # "inputs" \/ i < index
\* An input that is done with has a node.
<1>1. ASSUME NEW i \in 1..Len(inputs), Done(i)
      PROVE  inputs[i] \in Files /\ by_key[inputs[i]] \in Ids /\ by_key[inputs[i]] # 0
  BY <1>0, <1>1 DEF GraphInv, WalkInv, Ids
<1>2. ASSUME Grows, inputs' = inputs, NEW i \in 1..Len(inputs), Done(i)
      PROVE  Unreadable(i)' <=> Unreadable(i)
  BY <1>1, <1>2 DEF Grows
<1>3. ASSUME UNCHANGED <<errors, inputs, where, index>>,
             \A i \in 1..Len(inputs) : Done(i) => (Unreadable(i)' <=> Unreadable(i))
      PROVE  ErrorsInv'
  BY <1>3 DEF ErrorsInv
<1>4. CASE InputNode
  <2>1. /\ index \in 1..Len(inputs) /\ inputs[index] \in Files
        /\ where = "inputs" /\ where' = "inputs" /\ inputs' = inputs /\ index' = index + 1
        /\ FileNode(inputs[index])
    BY <1>0, <1>4 DEF InputNode
  <2>2. Grows /\ by_key'[inputs[index]] = FileId(inputs[index])
    BY <2>1, FileNodeGrows
  <2>3. PICK x \in 1..Len(inputs) : x = index
    BY <2>1
  <2>4. errors' = IF Unreadable(x)' THEN errors \cup {x} ELSE errors
    BY <1>4, <2>1, <2>2, <2>3 DEF InputNode
  <2>5. \A i \in 1..Len(inputs) : i < x => (Unreadable(i)' <=> Unreadable(i))
    BY <1>2, <2>1, <2>2, <2>3
  <2>6. errors = {i \in 1..Len(inputs) : i < x /\ Unreadable(i)}
    BY <2>1, <2>3 DEF ErrorsInv
  <2>7. ~(x < x) /\ \A i \in 1..Len(inputs) : i < x + 1 <=> i < x \/ i = x
    BY <1>0
  <2> HIDE DEF Unreadable
  <2>8. ASSUME NEW i PROVE i \in errors' <=> i \in 1..Len(inputs) /\ i < x + 1 /\ Unreadable(i)'
    BY <2>4, <2>5, <2>6, <2>7
  <2>9. errors' = {i \in 1..Len(inputs) : i < x + 1 /\ Unreadable(i)'}
    BY <2>8
  <2> QED BY <2>1, <2>3, <2>9 DEF ErrorsInv, Unreadable
<1>5. CASE InputsEnd
  <2>1. /\ where = "inputs" /\ where' = "walk" /\ index > Len(inputs)
        /\ UNCHANGED <<inputs, index, nodes, by_key, errors>>
    BY <1>5 DEF InputsEnd, graph, report
  <2>2. \A i \in 1..Len(inputs) : i < index
    BY <1>0, <2>1
  <2> QED BY <2>1, <2>2 DEF ErrorsInv
<1>6. CASE ResolveCached \/ (\E f \in Files : ResolveFound(f)) \/ ResolveMissing
  <2>1. where = "expand"
    BY <1>6 DEF ResolveCached, ResolveFound, ResolveMissing
  <2>2. Grows /\ \E n \in 1..Len(nodes') : Resolved(n)
    BY <1>6, <2>1, ResolveGrows DEF GraphInv
  <2>3. UNCHANGED <<errors, inputs, where, index>>
    BY <2>2 DEF Resolved, report
  <2> QED BY <1>2, <1>3, <2>2, <2>3
<1>7. CASE ExpandEnd
  <2>1. /\ UNCHANGED <<errors, inputs, by_key, index>>
        /\ where = "expand" /\ where' = "walk"
        /\ nodes' = [nodes EXCEPT ![id] = Expanded(nodes[id])]
    BY <1>7 DEF ExpandEnd, report
  <2>2. \A n \in Ids : nodes'[n].status = nodes[n].status
    BY <1>0, <2>1 DEF Ids, Expanded
  <2>3. \A i \in 1..Len(inputs) : Unreadable(i)' <=> Unreadable(i)
    BY <1>1, <2>1, <2>2
  <2> HIDE DEF Unreadable
  <2>4. errors = {i \in 1..Len(inputs) : Unreadable(i)}
    BY <2>1 DEF ErrorsInv, Unreadable
  <2>5. errors' = {i \in 1..Len(inputs') : Unreadable(i)'}
    BY <2>1, <2>3, <2>4
  <2> QED BY <2>1, <2>5 DEF ErrorsInv, Unreadable
<1>8. CASE \/ ExpandBegin \/ WalkSkip \/ WalkEnd \/ VisitNew \/ VisitSeen \/ NextHead
           \/ NextInput \/ CreditEnd \/ ReportNode \/ ReportSkip \/ ReportEnd \/ UNCHANGED vars
  <2>1. /\ UNCHANGED <<errors, inputs, nodes, by_key>>
        /\ where = "inputs" <=> where' = "inputs"
        /\ where = "inputs" => index' = index
    BY <1>8 DEF ExpandBegin, WalkSkip, WalkEnd, VisitNew, VisitSeen, NextHead, NextInput,
         CreditEnd, ReportNode, ReportSkip, ReportEnd, graph, report, vars
  <2> QED BY <2>1 DEF ErrorsInv
<1> QED BY <1>4, <1>5, <1>6, <1>7, <1>8 DEF Next

\* The credits.
LEMMA CreditedStep ==
  TypeOK /\ MarksInv /\ QueueInv /\ CreditedInv /\ [Next]_vars => CreditedInv'
<1> SUFFICES ASSUME TypeOK, MarksInv, QueueInv, CreditedInv, [Next]_vars, where' \in Crediting
             PROVE  CreditedInv'
  BY DEF CreditedInv
<1> USE DEF Crediting
<1>1. CASE WalkEnd
  <2>1. nodes' = nodes /\ credits' = [n \in 1..Len(nodes) |-> <<>>]
    BY <1>1 DEF WalkEnd, graph
  <2>2. \A n \in Ids' : Elements(credits'[n]) = {}
    BY <2>1 DEF Ids, Elements
  <2> QED BY <2>2 DEF CreditedInv
<1>2. CASE NextHead
  <2>1. /\ where = "credit" /\ index \in 1..Len(inputs) /\ index \in Nat
        /\ UNCHANGED <<inputs, nodes>>
        /\ credits \in Seq(Seq(Nat)) /\ Len(credits) = Len(nodes)
        /\ credits' = [credits EXCEPT ![queue[head + 1]] = Append(@, index)]
    BY <1>2 DEF NextHead, graph, TypeOK, MarksInv
  <2>2. ASSUME NEW n \in Ids
        PROVE  Elements(credits'[n]) \subseteq Elements(credits[n]) \cup {index}
    <3>1. credits[n] \in Seq(Nat) /\ n \in DOMAIN credits
      BY <2>1 DEF Ids
    <3>2. credits'[n] \in {credits[n], Append(credits[n], index)}
      BY <2>1, <3>1
    <3>3. Elements(Append(credits[n], index)) = Elements(credits[n]) \cup {index}
      <4>1. credits[n] \in Seq(Nat) /\ index \in Nat
        BY <2>1, <3>1
      <4> QED BY <4>1, ElementsAppend
    <3> QED BY <3>2, <3>3
  <2> QED BY <2>1, <2>2 DEF CreditedInv, Ids
<1>3. CASE \/ VisitNew \/ VisitSeen \/ NextInput \/ CreditEnd \/ ReportNode \/ ReportSkip
           \/ ReportEnd \/ UNCHANGED vars
  <2>1. where \in Crediting /\ UNCHANGED <<inputs, nodes, credits>>
    BY <1>3 DEF VisitNew, VisitSeen, NextInput, CreditEnd, ReportNode, ReportSkip, ReportEnd,
         graph, search, vars
  <2> QED BY <2>1 DEF CreditedInv, Ids
<1> QED
  BY <1>1, <1>2, <1>3 DEF Next, InputNode, InputsEnd, ExpandBegin, ExpandEnd, WalkSkip,
     ResolveCached, ResolveFound, ResolveMissing, Resolved

\* The lists of the report.
LEMMA ListsStep ==
  TypeOK /\ MarksInv /\ CreditsInv /\ ListsInv /\ [Next]_vars => ListsInv'
<1> SUFFICES ASSUME TypeOK, MarksInv, CreditsInv, ListsInv, [Next]_vars PROVE ListsInv'
  OBVIOUS
<1>0. id \in Nat \ {0} /\ Len(nodes) \in Nat /\ nodes \in Seq(Nodes)
  BY DEF TypeOK
\* Nothing is reported before the report.
<1>1. ASSUME UNCHANGED <<dependencies, libraryErrors>>, where' # "done",
             \A n \in Ids : ~Reported(n), \A n \in Ids' : ~Reported(n)'
      PROVE  ListsInv'
  BY <1>1 DEF ListsInv
<1>2. CASE where' \notin {"report", "done"}
  <2>1. where \notin {"report", "done"} /\ UNCHANGED <<dependencies, libraryErrors>>
    BY <1>2 DEF Next, InputNode, InputsEnd, ExpandBegin, ResolveCached, ResolveFound,
         ResolveMissing, Resolved, ExpandEnd, WalkSkip, WalkEnd, VisitNew, VisitSeen, NextHead,
         NextInput, CreditEnd, ReportNode, ReportSkip, ReportEnd, report, vars
  <2> QED BY <1>1, <1>2, <2>1 DEF Reported
<1>3. CASE CreditEnd
  <2>1. /\ where = "credit" /\ where' = "report" /\ id' = 1
        /\ UNCHANGED <<dependencies, libraryErrors, nodes>>
    BY <1>3 DEF CreditEnd, report, graph
  <2>2. \A n \in Ids : ~(n < 1)
    BY <1>0 DEF Ids
  <2> QED BY <1>1, <2>1, <2>2 DEF Reported, Ids
<1>4. CASE ReportSkip
  <2>1. /\ where = "report" /\ where' = "report" /\ id' = id + 1
        /\ Elements(credits[id]) = {}
        /\ UNCHANGED <<dependencies, libraryErrors, nodes, credits>>
    BY <1>4 DEF ReportSkip, report, graph, search, Elements
  <2>2. \A n \in Ids : n < id + 1 <=> n < id \/ n = id
    BY <1>0 DEF Ids
  <2>3. Ids' = Ids /\ \A n \in Ids : Failed(n)' <=> Failed(n)
    BY <2>1 DEF Ids, Failed
  <2>4. ASSUME NEW n \in Ids, NEW i, i \in Elements(credits[n])
        PROVE  Reported(n)' <=> Reported(n)
    BY <2>1, <2>2, <2>4 DEF Reported
  <2> QED BY <2>1, <2>3, <2>4 DEF ListsInv
<1>5. CASE ReportNode
  <2>1. /\ where = "report" /\ where' = "report" /\ id \in Ids /\ id' = id + 1
        /\ UNCHANGED <<nodes, credits>>
        /\ dependencies' = [dependencies EXCEPT ![nodes[id].key] = Listed(@, credits[id])]
        /\ libraryErrors' = IF Failed(id)
                              THEN [libraryErrors EXCEPT ![nodes[id].key] = @ \o credits[id]]
                              ELSE libraryErrors
    BY <1>0, <1>5 DEF ReportNode, graph, search, Ids
  <2>2. nodes[id].key \in Keys
    <3>1. nodes[id] \in Nodes
      BY <1>0, <2>1 DEF Ids
    <3> QED BY <3>1 DEF Nodes
  <2>3. credits[id] \in Seq(Nat) /\ StrictlySorted(credits[id])
    <3>1. credits \in Seq(Seq(Nat)) /\ Len(credits) = Len(nodes)
      BY <2>1 DEF TypeOK, MarksInv, Crediting
    <3> QED BY <2>1, <3>1 DEF CreditsInv, Crediting, Ids
  <2>4. Ids' = Ids /\ \A n \in Ids : Failed(n)' <=> Failed(n)
    BY <2>1 DEF Ids, Failed
  <2>5. \A n \in Ids : Reported(n)' <=> Reported(n) \/ n = id
    BY <1>0, <2>1 DEF Reported, Ids
  <2>6. ASSUME NEW k \in Keys
        PROVE  /\ dependencies'[k] \in Seq(Nat)
               /\ StrictlySorted(dependencies'[k])
               /\ Elements(dependencies'[k]) =
                    IF nodes[id].key = k
                      THEN Elements(dependencies[k]) \cup Elements(credits[id])
                      ELSE Elements(dependencies[k])
    <3>1. /\ dependencies \in [Keys -> Seq(Nat)] /\ dependencies[k] \in Seq(Nat)
          /\ StrictlySorted(dependencies[k])
      BY DEF ListsInv
    <3>2. dependencies'[k] = IF nodes[id].key = k
                               THEN Listed(dependencies[k], credits[id])
                               ELSE dependencies[k]
      BY <2>1, <2>2, <3>1
    <3> QED BY <2>3, <3>1, <3>2, ListedAdds
  <2>7. ASSUME NEW k \in Keys
        PROVE  /\ libraryErrors'[k] \in Seq(Nat)
               /\ Elements(libraryErrors'[k]) =
                    IF nodes[id].key = k /\ Failed(id)
                      THEN Elements(libraryErrors[k]) \cup Elements(credits[id])
                      ELSE Elements(libraryErrors[k])
    <3>1. libraryErrors \in [Keys -> Seq(Nat)] /\ libraryErrors[k] \in Seq(Nat)
      BY DEF ListsInv
    <3>2. libraryErrors'[k] = IF nodes[id].key = k /\ Failed(id)
                                THEN libraryErrors[k] \o credits[id]
                                ELSE libraryErrors[k]
      BY <2>1, <2>2, <3>1
    <3> QED BY <2>3, <3>1, <3>2, ElementsConcat
  <2>8. dependencies' \in [Keys -> Seq(Nat)] /\ libraryErrors' \in [Keys -> Seq(Nat)]
    <3>1. dependencies' \in [Keys -> Seq(Nat)]
      <4>1. /\ dependencies \in [Keys -> Seq(Nat)]
            /\ Listed(dependencies[nodes[id].key], credits[id]) \in Seq(Nat)
        BY <2>2, <2>3, ListedAdds DEF ListsInv
      <4> QED BY <2>1, <4>1
    <3>2. libraryErrors' \in [Keys -> Seq(Nat)]
      <4>1. /\ libraryErrors \in [Keys -> Seq(Nat)]
            /\ libraryErrors[nodes[id].key] \o credits[id] \in Seq(Nat)
        BY <2>2, <2>3, ElementsConcat DEF ListsInv
      <4> QED BY <2>1, <4>1
    <3> QED BY <3>1, <3>2
  <2>9. ASSUME NEW k \in Keys, NEW i \in Nat
        PROVE  /\ i \in Elements(dependencies'[k]) <=>
                    \E n \in Ids : Reported(n)' /\ nodes[n].key = k /\ i \in Elements(credits[n])
               /\ i \in Elements(libraryErrors'[k]) <=>
                    \E n \in Ids : /\ Reported(n)' /\ nodes[n].key = k
                                   /\ Failed(n) /\ i \in Elements(credits[n])
    <3>1. /\ i \in Elements(dependencies[k]) <=>
               \E n \in Ids : Reported(n) /\ nodes[n].key = k /\ i \in Elements(credits[n])
          /\ i \in Elements(libraryErrors[k]) <=>
               \E n \in Ids : /\ Reported(n) /\ nodes[n].key = k
                              /\ Failed(n) /\ i \in Elements(credits[n])
      BY DEF ListsInv
    <3>2. \E n \in Ids : n = id
      BY <2>1
    <3>3. /\ i \in Elements(dependencies'[k]) <=>
               \/ i \in Elements(dependencies[k])
               \/ nodes[id].key = k /\ i \in Elements(credits[id])
          /\ i \in Elements(libraryErrors'[k]) <=>
               \/ i \in Elements(libraryErrors[k])
               \/ nodes[id].key = k /\ Failed(id) /\ i \in Elements(credits[id])
      BY <2>6, <2>7
    <3> HIDE DEF Reported, Failed
    <3>4. i \in Elements(dependencies'[k]) <=>
            \E n \in Ids : Reported(n)' /\ nodes[n].key = k /\ i \in Elements(credits[n])
      BY <2>5, <3>1, <3>2, <3>3
    <3>5. i \in Elements(libraryErrors'[k]) <=>
            \E n \in Ids : /\ Reported(n)' /\ nodes[n].key = k
                           /\ Failed(n) /\ i \in Elements(credits[n])
      BY <2>5, <3>1, <3>2, <3>3
    <3> QED BY <3>4, <3>5
  <2> QED BY <2>1, <2>4, <2>6, <2>8, <2>9 DEF ListsInv
<1>6. CASE ReportEnd
  <2>1. /\ where = "report" /\ where' = "done" /\ id > Len(nodes)
        /\ UNCHANGED <<nodes, credits, dependencies>>
        /\ libraryErrors' = [k \in Keys |-> SortUnique(libraryErrors[k])]
    BY <1>6 DEF ReportEnd, graph, search
  <2>2. Ids' = Ids /\ \A n \in Ids : Failed(n)' <=> Failed(n)
    BY <2>1 DEF Ids, Failed
  <2>3. \A n \in Ids : Reported(n)' /\ Reported(n)
    BY <1>0, <2>1 DEF Reported, Ids
  <2>4. ASSUME NEW k \in Keys
        PROVE  /\ libraryErrors'[k] \in Seq(Nat)
               /\ Elements(libraryErrors'[k]) = Elements(libraryErrors[k])
               /\ StrictlySorted(libraryErrors'[k])
    BY <2>1, SortUniqueSorts DEF ListsInv
  <2>5. libraryErrors' \in [Keys -> Seq(Nat)]
    BY <2>1, <2>4
  <2> QED BY <2>1, <2>2, <2>3, <2>4, <2>5 DEF ListsInv
<1>7. CASE UNCHANGED vars
  BY <1>7 DEF vars, ListsInv, Ids, Reported, Failed
<1>8. CASE where' \in {"report", "done"}
  <2>1. CreditEnd \/ ReportSkip \/ ReportNode \/ ReportEnd \/ UNCHANGED vars
    BY <1>8 DEF Next, InputNode, InputsEnd, ExpandBegin, ResolveCached, ResolveFound,
         ResolveMissing, Resolved, ExpandEnd, WalkSkip, WalkEnd, VisitNew, VisitSeen, NextHead,
         NextInput
  <2> QED BY <1>3, <1>4, <1>5, <1>6, <1>7, <2>1
<1> QED BY <1>2, <1>8

\* What is reported so far is exact throughout.
THEOREM ReportInvHolds == Spec => []ReportInv
<1>1. Init => ReportInv
  <2> SUFFICES ASSUME Init PROVE ReportInv
    OBVIOUS
  <2>1. nodes = <<>> /\ where = "inputs" /\ Ids = {} /\ index = 1 /\ errors = {}
    BY DEF Init, Ids
  <2>2. ErrorsInv
    BY <2>1 DEF ErrorsInv
  <2>3. CreditedInv
    BY <2>1 DEF CreditedInv, Crediting
  <2>4. /\ \A k \in Keys : dependencies[k] = <<>> /\ libraryErrors[k] = <<>>
        /\ dependencies \in [Keys -> Seq(Nat)] /\ libraryErrors \in [Keys -> Seq(Nat)]
    BY DEF Init
  <2>5. Elements(<<>>) = {} /\ StrictlySorted(<<>>)
    BY DEF Elements, StrictlySorted
  <2>6. ListsInv
    BY <2>1, <2>4, <2>5 DEF ListsInv
  <2> QED BY <2>2, <2>3, <2>6 DEF ReportInv
<1>2. Inv /\ ReportInv /\ [Next]_vars => ReportInv'
  BY ErrorsStep, CreditedStep, ListsStep DEF Inv, ReportInv
<1> QED BY <1>1, <1>2, InvHolds, PTL DEF Spec

\* The caller of ListDependencies gets, per key, the sorted inputs that need a
\* node of that key and no other, also when two nodes share the key; the
\* inputs that need each unreadable library; and the unreadable inputs.
THEOREM ReportIsExact == Spec => []ReportExact
<1>1. Inv /\ ReportInv => ReportExact
  <2> SUFFICES ASSUME Inv, ReportInv, where = "done" PROVE ReportExact
    BY DEF ReportExact
  <2>1. ASSUME NEW n \in Ids, NEW i
        PROVE  i \in Elements(credits[n]) <=> i \in 1..Len(inputs) /\ Needs(i, n)
    <3>1. index > Len(inputs) /\ index \in Nat /\ Len(inputs) \in Nat
      BY DEF Inv, TypeOK, MarksInv
    <3>2. ASSUME i \in 1..Len(inputs) PROVE i < index
      BY <3>1, <3>2
    <3>3. i \in Elements(credits[n]) => i \in 1..Len(inputs)
      BY DEF ReportInv, CreditedInv, Crediting
    <3> QED BY <3>2, <3>3 DEF Inv, CreditsExact
  <2>2. ASSUME NEW k \in Keys
        PROVE  /\ StrictlySorted(dependencies[k]) /\ StrictlySorted(libraryErrors[k])
               /\ Elements(dependencies[k]) \subseteq Nat
               /\ Elements(libraryErrors[k]) \subseteq Nat
    BY DEF ReportInv, ListsInv, Elements
  <2>3. ASSUME NEW k \in Keys, NEW i
        PROVE  /\ i \in Elements(dependencies[k]) <=>
                    i \in 1..Len(inputs) /\ \E n \in Ids : nodes[n].key = k /\ Needs(i, n)
               /\ i \in Elements(libraryErrors[k]) <=>
                    /\ i \in 1..Len(inputs)
                    /\ \E n \in Ids : /\ nodes[n].key = k
                                      /\ nodes[n].status = "Unreadable" /\ Needs(i, n)
    <3>1. CASE i \in Nat
      <4>1. /\ i \in Elements(dependencies[k]) <=>
                 \E n \in Ids : nodes[n].key = k /\ i \in Elements(credits[n])
            /\ i \in Elements(libraryErrors[k]) <=>
                 \E n \in Ids : /\ nodes[n].key = k
                                /\ nodes[n].status = "Unreadable" /\ i \in Elements(credits[n])
        BY <3>1 DEF ReportInv, ListsInv, Reported, Failed
      <4> QED BY <2>1, <4>1
    <3>2. CASE i \notin Nat
      BY <2>2, <3>2
    <3> QED BY <3>1, <3>2
  <2>4. errors = {i \in 1..Len(inputs) : nodes[by_key[inputs[i]]].status = "Unreadable"}
    BY DEF ReportInv, ErrorsInv
  <2> HIDE DEF Needs
  <2> QED BY <2>2, <2>3, <2>4 DEF ReportExact
<1> QED BY <1>1, InvHolds, ReportInvHolds, PTL
=============================================================================
