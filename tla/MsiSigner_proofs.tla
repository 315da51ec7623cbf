-------------------------- MODULE MsiSigner_proofs --------------------------
(***************************************************************************)
(* Proofs about the signing of installer packages, for every geometry, for *)
(* every set of packages and for every number of signers.                  *)
(*                                                                         *)
(* A chain is walked to its end with the same result whatever was walked   *)
(* before, as long as it meets nothing of it (WalkApart).  So the streams  *)
(* of a package can be read together or not whatever the order, and have   *)
(* the bytes they have alone (ContentsIs).  The writer's entries depend    *)
(* only on the set of the nodes and of the signature (ExpandIs), what it   *)
(* writes is an image (SerialiseType), and what its self-check accepts     *)
(* reads back as that set (Written, Reread).  Hence a second write gives   *)
(* what the first would have given (WriteAgain), which makes "the file is  *)
(* what one write into another tool's package gives" inductive (AllSound), *)
(* and the properties follow from it.                                      *)
(***************************************************************************)
EXTENDS MsiSigner, NaturalSets, FiniteSetTheorems, TLAPS

-----------------------------------------------------------------------------
(* Walks along a chain. *)

WalkState == [ok : BOOLEAN, current : Nat, chain : Seq(Nat), used : SUBSET Nat]

\* The states of a walk, one after each turn.
Turns(link, limit, start, used, walk) ==
  /\ walk \in [0..(limit + 1) -> WalkState]
  /\ walk[0] = [ok |-> TRUE, current |-> start, chain |-> <<>>, used |-> used]
  /\ \A i \in 1..(limit + 1) : walk[i] = Visit(link, limit, walk[i - 1])

\* The reserved numbers are numbers.
LEMMA Reserved ==
  /\ DifatSector \in Nat /\ FatSector \in Nat /\ EndOfChain \in Nat /\ FreeSector \in Nat
  /\ NoStream \in Nat /\ EndOfChain # FreeSector
BY LimitsAssumption DEF DifatSector, FatSector, EndOfChain, FreeSector, NoStream

\* A turn leads from a state of a walk to a state of a walk.
LEMMA VisitType ==
  ASSUME NEW limit \in Nat, NEW link \in [0..(limit - 1) -> Nat], NEW w \in WalkState
  PROVE  Visit(link, limit, w) \in WalkState
<1>1. CASE ~w.ok \/ w.current = EndOfChain
  BY <1>1 DEF Visit
<1>2. CASE ~(~w.ok \/ w.current = EndOfChain) /\ (w.current >= limit \/ w.current \in w.used)
  BY <1>2 DEF Visit, WalkState
<1>3. CASE ~(~w.ok \/ w.current = EndOfChain) /\ ~(w.current >= limit \/ w.current \in w.used)
  <2>1. w.current \in 0..(limit - 1) /\ link[w.current] \in Nat
    BY <1>3 DEF WalkState
  <2> QED BY <1>3, <2>1 DEF Visit, WalkState
<1> QED BY <1>1, <1>2, <1>3

\* A walk has a state after each turn, and ends with the last.
LEMMA WalkTurns ==
  ASSUME NEW limit \in Nat, NEW link \in [0..(limit - 1) -> Nat], NEW start \in Nat,
         NEW used \in SUBSET Nat
  PROVE  \E walk : /\ Turns(link, limit, start, used, walk)
                   /\ Walk(link, limit, start, used) = walk[limit + 1]
<1> DEFINE N == limit + 1
           first == [ok |-> TRUE, current |-> start, chain |-> <<>>, used |-> used]
           Body(g) == [i \in 0..N |-> IF i = 0 THEN first ELSE Visit(link, limit, g[i - 1])]
           step == [i \in 1..N |-> [w \in WalkState |-> Visit(link, limit, w)]]
           walk == CHOOSE g : g = Body(g)
<1>1. N \in Nat
  OBVIOUS
<1>2. first \in WalkState
  BY DEF WalkState
<1>3. Walk(link, limit, start, used) = walk[limit + 1]
  BY DEF Walk
<1>4. step \in [1..N -> [WalkState -> WalkState]]
  BY VisitType
<1> HIDE DEF N, first, step
<1>5. PICK f \in [0..N -> WalkState] : f[0] = first /\ \A i \in 1..N : f[i] = step[i][f[i - 1]]
  <2>1. Iterable(N, WalkState, first, step)
    BY <1>1, <1>2, <1>4, Iteration, Zenon
  <2> QED BY <2>1, Zenon DEF Iterable
<1>6. ASSUME NEW i \in 1..N PROVE f[i] = Visit(link, limit, f[i - 1])
  <2>1. i - 1 \in 0..N
    BY <1>1
  <2> QED BY <1>5, <2>1 DEF step
<1>7. f = Body(f)
  <2>1. ASSUME NEW i \in 0..N PROVE f[i] = Body(f)[i]
    <3>1. i # 0 => i \in 1..N
      BY <1>1
    <3> QED BY <1>5, <1>6, <3>1
  <2> QED BY <2>1
<1>8. walk = Body(walk)
  <2> HIDE DEF Body
  <2> QED BY <1>7, Zenon
<1> HIDE DEF walk
<1>9. walk[0] = first /\ \A i \in 1..N : walk[i] = Visit(link, limit, walk[i - 1])
  <2>1. 0 \in 0..N /\ \A i \in 1..N : i \in 0..N /\ i # 0
    BY <1>1
  <2>2. \A i \in 0..N : walk[i] = IF i = 0 THEN first ELSE Visit(link, limit, walk[i - 1])
    <3>1. \A i \in 0..N : Body(walk)[i] = IF i = 0 THEN first ELSE Visit(link, limit, walk[i - 1])
      BY DEF Body
    <3> HIDE DEF Body
    <3> QED BY <1>8, <3>1
  <2> QED BY <2>1, <2>2
<1>10. walk \in [0..N -> WalkState]
  <2> DEFINE S == {i \in 0..N : walk[i] \in WalkState}
  <2>1. 0 \in S
    BY <1>1, <1>2, <1>9
  <2>2. ASSUME NEW i \in 0..(N - 1), i \in S PROVE i + 1 \in S
    <3>1. i + 1 \in 1..N /\ i + 1 \in 0..N /\ (i + 1) - 1 = i
      BY <1>1
    <3>2. walk[i + 1] = Visit(link, limit, walk[i]) /\ walk[i] \in WalkState
      BY <1>9, <2>2, <3>1
    <3> QED BY <3>1, <3>2, VisitType
  <2> HIDE DEF S
  <2>3. 0..N \subseteq S
    BY <1>1, <2>1, <2>2, IntervalInduction, Zenon
  <2>4. \A i \in 0..N : walk[i] \in WalkState
    BY <2>3 DEF S
  <2>5. walk = [i \in 0..N |-> walk[i]]
    <3>1. Body(walk) = [i \in 0..N |-> Body(walk)[i]]
      BY DEF Body
    <3> HIDE DEF Body
    <3> QED BY <1>8, <3>1
  <2> QED BY <2>4, <2>5
<1>11. Turns(link, limit, start, used, walk)
  BY <1>9, <1>10 DEF Turns, N, first
<1> QED BY <1>3, <1>11

\* What a sequence holds after one more element.
LEMMA ToSetAppend ==
  ASSUME NEW S, NEW s \in Seq(S), NEW e \in S
  PROVE  ToSet(Append(s, e)) = ToSet(s) \cup {e}
<1>1. Append(s, e) \in Seq(S) /\ Len(Append(s, e)) = Len(s) + 1 /\ Len(s) \in Nat
  OBVIOUS
<1>2. \A i \in 1..Len(s) : Append(s, e)[i] = s[i] /\ i \in 1..(Len(s) + 1)
  OBVIOUS
<1>3. Append(s, e)[Len(s) + 1] = e /\ Len(s) + 1 \in 1..(Len(s) + 1)
  OBVIOUS
<1>4. \A i \in 1..(Len(s) + 1) : i \in 1..Len(s) \/ i = Len(s) + 1
  BY <1>1
<1>5. DOMAIN s = 1..Len(s) /\ DOMAIN Append(s, e) = 1..(Len(s) + 1)
  BY <1>1
<1> QED BY <1>2, <1>3, <1>4, <1>5 DEF ToSet

\* While a walk goes on it has marked just what it was given and what it has
\* visited, which it was not given, each once.
Marked(limit, used, w, i) ==
  /\ w.chain \in Seq(0..(limit - 1))
  /\ w.used = used \cup ToSet(w.chain)
  /\ ToSet(w.chain) \cap used = {}
  /\ \A j, k \in 1..Len(w.chain) : w.chain[j] = w.chain[k] => j = k
  /\ w.current = EndOfChain \/ Len(w.chain) = i

\* While a walk goes well it marks exactly what it visits, each once.
LEMMA WalkMarks ==
  ASSUME NEW limit \in Nat, NEW link \in [0..(limit - 1) -> Nat], NEW start \in Nat,
         NEW used \in SUBSET Nat, NEW walk, Turns(link, limit, start, used, walk)
  PROVE  \A i \in 0..(limit + 1) : walk[i].ok => Marked(limit, used, walk[i], i)
<1> DEFINE N == limit + 1
           Good(w, i) == Marked(limit, used, w, i)
           S == {i \in 0..N : walk[i].ok => Good(walk[i], i)}
<1> USE DEF Marked
<1>1. N \in Nat
  OBVIOUS
<1>2. 0 \in S
  <2>1. walk[0] = [ok |-> TRUE, current |-> start, chain |-> <<>>, used |-> used]
    BY DEF Turns
  <2>2. ToSet(<<>>) = {}
    BY DEF ToSet
  <2>3. <<>> \in Seq(0..(limit - 1)) /\ Len(<<>>) = 0 /\ 1..0 = {}
    OBVIOUS
  <2>4. Good(walk[0], 0)
    <3>1. Good([ok |-> TRUE, current |-> start, chain |-> <<>>, used |-> used], 0)
      BY <2>2, <2>3
    <3> QED BY <2>1, <3>1
  <2> HIDE DEF Good
  <2> QED BY <2>4
<1>3. ASSUME NEW i \in 0..(N - 1), i \in S PROVE i + 1 \in S
  <2> DEFINE w == walk[i]
  <2>1. i + 1 \in 1..N /\ i + 1 \in 0..N /\ (i + 1) - 1 = i /\ i \in 0..N
    BY <1>1
  <2>2. walk[i + 1] = Visit(link, limit, w) /\ w \in WalkState
    BY <2>1 DEF Turns
  <2> SUFFICES ASSUME walk[i + 1].ok PROVE Good(walk[i + 1], i + 1)
    BY <2>1
  <2> HIDE DEF w
  <2>3. w.ok
    BY <2>2 DEF Visit, WalkState
  <2>4. Good(w, i)
    BY <1>3, <2>1, <2>3 DEF w
  <2>5. CASE w.current = EndOfChain
    BY <2>2, <2>4, <2>5 DEF Visit
  <2>6. CASE w.current # EndOfChain
    <3> DEFINE c == w.current
    <3>1. ~(c >= limit) /\ c \notin w.used
      BY <2>2, <2>3, <2>6 DEF Visit, WalkState
    <3>2. walk[i + 1] = [ok |-> TRUE, used |-> w.used \cup {c}, chain |-> Append(w.chain, c),
                         current |-> link[c]]
      BY <2>2, <2>3, <2>6, <3>1 DEF Visit
    <3>3. c \in 0..(limit - 1)
      BY <2>2, <3>1 DEF WalkState
    <3>4. w.chain \in Seq(0..(limit - 1)) /\ Len(w.chain) = i
      BY <2>4, <2>6
    <3>5. Append(w.chain, c) \in Seq(0..(limit - 1)) /\ Len(Append(w.chain, c)) = i + 1
      BY <3>3, <3>4
    <3>6. ToSet(Append(w.chain, c)) = ToSet(w.chain) \cup {c}
      BY <3>3, <3>4, ToSetAppend
    <3>7. c \notin used /\ c \notin ToSet(w.chain)
      BY <2>4, <3>1
    <3>8. ASSUME NEW j \in 1..(i + 1), NEW k \in 1..(i + 1),
                 Append(w.chain, c)[j] = Append(w.chain, c)[k]
          PROVE  j = k
      <4>1. \A n \in 1..i : Append(w.chain, c)[n] = w.chain[n] /\ w.chain[n] # c
        BY <3>4, <3>7 DEF ToSet
      <4>2. Append(w.chain, c)[i + 1] = c
        BY <3>4
      <4> QED BY <2>4, <3>4, <3>8, <4>1, <4>2
    <3> HIDE DEF c
    <3>9. walk[i + 1].used = used \cup ToSet(walk[i + 1].chain)
      BY <2>4, <3>2, <3>6
    <3>10. ToSet(walk[i + 1].chain) \cap used = {}
      BY <2>4, <3>2, <3>6, <3>7
    <3> DEFINE s == walk[i + 1].chain
    <3>13. s = Append(w.chain, c)
      BY <3>2
    <3> HIDE DEF s
    <3>11. s \in Seq(0..(limit - 1)) /\ Len(s) = i + 1
      BY <3>13, <3>5
    <3>12. \A j, k \in 1..(i + 1) : s[j] = s[k] => j = k
      BY <3>13, <3>8
    <3> USE DEF s
    <3> QED BY <3>9, <3>10, <3>11, <3>12
  <2> QED BY <2>5, <2>6
<1> HIDE DEF S
<1>4. 0..N \subseteq S
  BY <1>1, <1>2, <1>3, IntervalInduction, Zenon
<1> QED BY <1>4 DEF S

\* A walk that is not stopped has come to the end of its chain.
LEMMA WalkEnds ==
  ASSUME NEW limit \in Nat, NEW link \in [0..(limit - 1) -> Nat], NEW start \in Nat,
         NEW used \in SUBSET Nat
  PROVE  /\ Walk(link, limit, start, used) \in WalkState
         /\ Ended(Walk(link, limit, start, used))
         /\ Walk(link, limit, start, used).ok =>
              /\ Walk(link, limit, start, used).chain \in Seq(0..(limit - 1))
              /\ Walk(link, limit, start, used).used
                   = used \cup ToSet(Walk(link, limit, start, used).chain)
              /\ ToSet(Walk(link, limit, start, used).chain) \cap used = {}
<1>1. PICK walk : /\ Turns(link, limit, start, used, walk)
                  /\ Walk(link, limit, start, used) = walk[limit + 1]
  BY WalkTurns
<1> DEFINE w == walk[limit + 1]
<1>2. limit + 1 \in 0..(limit + 1)
  OBVIOUS
<1>3. w \in WalkState
  BY <1>1, <1>2 DEF Turns
<1>5. w.ok => Marked(limit, used, w, limit + 1)
  <2>1. \A i \in 0..(limit + 1) : walk[i].ok => Marked(limit, used, walk[i], i)
    BY <1>1, WalkMarks
  <2> QED BY <1>2, <2>1
<1> HIDE DEF w
<1>4. ASSUME w.ok, w.current # EndOfChain PROVE FALSE
  <2>1. w.chain \in Seq(0..(limit - 1)) /\ Len(w.chain) = limit + 1
    BY <1>4, <1>5 DEF Marked
  <2>2. \A j, k \in 1..Len(w.chain) : w.chain[j] = w.chain[k] => j = k
    BY <1>4, <1>5 DEF Marked
  <2>3. w.chain \in [1..(limit + 1) -> 0..(limit - 1)]
    <3>1. \A S : \A s \in Seq(S) : s \in [1..Len(s) -> S]
      OBVIOUS
    <3> QED BY <2>1, <3>1, Zenon
  <2>4. /\ IsFiniteSet(1..(limit + 1)) /\ Cardinality(1..(limit + 1)) = limit + 1
        /\ IsFiniteSet(0..(limit - 1)) /\ Cardinality(0..(limit - 1)) = limit
    <3>1. \A a, b \in Int : /\ IsFiniteSet(a..b)
                           /\ Cardinality(a..b) = IF a > b THEN 0 ELSE b - a + 1
      BY FS_Interval
    <3>2. limit + 1 \in Int /\ limit - 1 \in Int /\ 0 \in Int /\ 1 \in Int
      OBVIOUS
    <3>3. /\ IsFiniteSet(1..(limit + 1)) /\ IsFiniteSet(0..(limit - 1))
          /\ Cardinality(1..(limit + 1)) = (limit + 1) - 1 + 1
          /\ Cardinality(0..(limit - 1)) = IF 0 > limit - 1 THEN 0 ELSE (limit - 1) - 0 + 1
      BY <3>1, <3>2
    <3> QED BY <3>3
  <2>5. \E x, y \in 1..(limit + 1) : x # y /\ w.chain[x] = w.chain[y]
    <3>1. Cardinality(0..(limit - 1)) < Cardinality(1..(limit + 1))
      BY <2>4
    <3> QED BY <2>3, <2>4, <3>1, FS_PigeonHole
  <2> QED BY <2>1, <2>2, <2>5
<1>6. Walk(link, limit, start, used) = w
  BY <1>1 DEF w
<1> QED BY <1>3, <1>4, <1>5, <1>6 DEF Ended, Marked

\* A walk that is stopped stays stopped.
LEMMA WalkOnceOk ==
  ASSUME NEW limit \in Nat, NEW link \in [0..(limit - 1) -> Nat], NEW start \in Nat,
         NEW used \in SUBSET Nat, NEW walk, Turns(link, limit, start, used, walk),
         walk[limit + 1].ok
  PROVE  \A i \in 0..(limit + 1) :
           walk[i].ok /\ ToSet(walk[i].chain) \subseteq ToSet(walk[limit + 1].chain)
<1> DEFINE N == limit + 1
           P(i) == walk[i].ok /\ ToSet(walk[i].chain) \subseteq ToSet(walk[N].chain)
           S == {i \in 0..N : P(N - i)}
<1>1. N \in Nat
  OBVIOUS
<1>2. 0 \in S
  BY <1>1
<1>3. ASSUME NEW i \in 0..(N - 1), i \in S PROVE i + 1 \in S
  <2> DEFINE j == N - (i + 1)
  <2>1. j \in 0..N /\ j + 1 = N - i /\ j + 1 \in 1..N /\ (j + 1) - 1 = j /\ i + 1 \in 0..N
    BY <1>1
  <2>2. P(j + 1)
    BY <1>3, <2>1
  <2> HIDE DEF j
  <2>3. walk[j + 1] = Visit(link, limit, walk[j]) /\ walk[j] \in WalkState
    BY <2>1 DEF Turns
  <2> DEFINE w == walk[j]  v == walk[j + 1]
  <2> HIDE DEF w, v
  <2>4. v = Visit(link, limit, w) /\ w \in WalkState /\ v.ok
    BY <2>2, <2>3 DEF w, v
  <2>5. w.ok
    BY <2>4 DEF Visit, WalkState
  <2>6. v = w \/ v.chain = Append(w.chain, w.current)
    BY <2>4 DEF Visit, WalkState
  <2>7. ToSet(w.chain) \subseteq ToSet(v.chain)
    <3>1. w.chain \in Seq(Nat) /\ w.current \in Nat
      BY <2>4 DEF WalkState
    <3>2. ToSet(Append(w.chain, w.current)) = ToSet(w.chain) \cup {w.current}
      BY <3>1, ToSetAppend
    <3> QED BY <2>6, <3>2
  <2>8. P(j)
    BY <2>2, <2>5, <2>7 DEF w, v
  <2> QED BY <2>1, <2>8 DEF j
<1> HIDE DEF S
<1>4. 0..N \subseteq S
  BY <1>1, <1>2, <1>3, IntervalInduction, Zenon
<1>5. ASSUME NEW i \in 0..N PROVE P(i)
  <2>1. N - i \in 0..N /\ N - (N - i) = i
    BY <1>1
  <2> QED BY <1>4, <2>1 DEF S
<1> QED BY <1>5

\* A walk that is not stopped goes the same way whatever else is marked, as
\* long as nothing on its way is.
LEMMA WalkAnywhere ==
  ASSUME NEW limit \in Nat, NEW link \in [0..(limit - 1) -> Nat], NEW start \in Nat,
         NEW used \in SUBSET Nat, NEW others \in SUBSET Nat,
         Walk(link, limit, start, used).ok,
         ToSet(Walk(link, limit, start, used).chain) \cap others = {}
  PROVE  /\ Walk(link, limit, start, others).ok
         /\ Walk(link, limit, start, others).chain = Walk(link, limit, start, used).chain
<1>1. PICK walk : /\ Turns(link, limit, start, used, walk)
                  /\ Walk(link, limit, start, used) = walk[limit + 1]
  BY WalkTurns
<1>2. PICK other : /\ Turns(link, limit, start, others, other)
                   /\ Walk(link, limit, start, others) = other[limit + 1]
  BY WalkTurns
<1> DEFINE N == limit + 1
           Same(w, o) == /\ w.ok /\ o.ok /\ o.current = w.current /\ o.chain = w.chain
                         /\ o.used = others \cup ToSet(w.chain)
           S == {i \in 0..N : Same(walk[i], other[i])}
<1>3. N \in Nat /\ N \in 0..N
  OBVIOUS
<1>4. \A i \in 0..N : walk[i].ok /\ ToSet(walk[i].chain) \subseteq ToSet(walk[N].chain)
  BY <1>1, WalkOnceOk
<1>5. \A i \in 0..N : Marked(limit, used, walk[i], i)
  BY <1>1, <1>4, WalkMarks
<1>6. ToSet(walk[N].chain) \cap others = {}
  BY <1>1
<1>7. 0 \in S
  <2>1. walk[0] = [ok |-> TRUE, current |-> start, chain |-> <<>>, used |-> used]
    BY <1>1 DEF Turns
  <2>2. other[0] = [ok |-> TRUE, current |-> start, chain |-> <<>>, used |-> others]
    BY <1>2 DEF Turns
  <2>3. ToSet(<<>>) = {}
    BY DEF ToSet
  <2> QED BY <1>3, <2>1, <2>2, <2>3
<1>8. ASSUME NEW i \in 0..(N - 1), i \in S PROVE i + 1 \in S
  <2> DEFINE w == walk[i]  v == walk[i + 1]  o == other[i]  p == other[i + 1]
  <2>1. i + 1 \in 1..N /\ i + 1 \in 0..N /\ (i + 1) - 1 = i /\ i \in 0..N
    BY <1>3
  <2>2. v = Visit(link, limit, w) /\ w \in WalkState
    BY <1>1, <2>1 DEF Turns
  <2>3. p = Visit(link, limit, o) /\ o \in WalkState
    BY <1>2, <2>1 DEF Turns
  <2>4. Same(w, o)
    BY <1>8
  <2>5. v.ok /\ ToSet(v.chain) \cap others = {}
    BY <1>4, <1>6, <2>1
  <2>6. w.used = used \cup ToSet(w.chain) /\ ToSet(w.chain) \cap used = {}
    BY <1>5, <2>1 DEF Marked
  <2> HIDE DEF w, v, o, p
  <2>7. CASE w.current = EndOfChain
    <3>1. v = w /\ p = o
      BY <2>2, <2>3, <2>4, <2>7 DEF Visit
    <3> QED BY <2>1, <2>4, <3>1 DEF w, v, o, p
  <2>8. CASE w.current # EndOfChain
    <3> DEFINE c == w.current
    <3>1. ~(c >= limit) /\ c \notin w.used
      BY <2>2, <2>4, <2>5, <2>8 DEF Visit, WalkState
    <3>2. v = [ok |-> TRUE, used |-> w.used \cup {c}, chain |-> Append(w.chain, c),
               current |-> link[c]]
      BY <2>2, <2>4, <2>8, <3>1 DEF Visit
    <3>3. w.chain \in Seq(Nat) /\ c \in Nat
      BY <2>2 DEF WalkState
    <3>4. ToSet(v.chain) = ToSet(w.chain) \cup {c}
      <4>1. v.chain = Append(w.chain, c)
        BY <3>2
      <4> QED BY <3>3, <4>1, ToSetAppend
    <3>5. c \notin o.used
      BY <2>4, <2>5, <2>6, <3>1, <3>4
    <3>6. p = [ok |-> TRUE, used |-> o.used \cup {c}, chain |-> Append(o.chain, c),
               current |-> link[c]]
      <4>1. o.ok /\ o.current = c /\ c # EndOfChain
        BY <2>4, <2>8
      <4> QED BY <2>3, <3>1, <3>5, <4>1 DEF Visit
    <3>7. Same(v, p)
      <4> HIDE DEF c
      <4>1. p.used = others \cup ToSet(v.chain)
        BY <2>4, <3>4, <3>6
      <4> QED BY <2>4, <3>2, <3>6, <4>1
    <3> QED BY <2>1, <3>7 DEF v, p
  <2> QED BY <2>7, <2>8
<1> HIDE DEF S
<1>9. 0..N \subseteq S
  BY <1>3, <1>7, <1>8, IntervalInduction, Zenon
<1> QED BY <1>1, <1>2, <1>3, <1>9 DEF S

\* So a walk is stopped by a fault of its own chain or by a mark on it, and
\* nothing else: this is what makes the order of reading irrelevant.
LEMMA WalkApart ==
  ASSUME NEW limit \in Nat, NEW link \in [0..(limit - 1) -> Nat], NEW start \in Nat,
         NEW used \in SUBSET Nat
  PROVE  /\ Walk(link, limit, start, used).ok
              <=> /\ Walk(link, limit, start, {}).ok
                  /\ ToSet(Walk(link, limit, start, {}).chain) \cap used = {}
         /\ Walk(link, limit, start, used).ok =>
              /\ Walk(link, limit, start, used).chain = Walk(link, limit, start, {}).chain
              /\ Walk(link, limit, start, used).used
                   = used \cup ToSet(Walk(link, limit, start, {}).chain)
<1>1. ASSUME Walk(link, limit, start, used).ok
      PROVE  /\ Walk(link, limit, start, {}).ok
             /\ Walk(link, limit, start, {}).chain = Walk(link, limit, start, used).chain
             /\ ToSet(Walk(link, limit, start, used).chain) \cap used = {}
             /\ Walk(link, limit, start, used).used
                  = used \cup ToSet(Walk(link, limit, start, used).chain)
  <2>1. {} \in SUBSET Nat /\ ToSet(Walk(link, limit, start, used).chain) \cap {} = {}
    OBVIOUS
  <2>2. /\ Walk(link, limit, start, {}).ok
        /\ Walk(link, limit, start, {}).chain = Walk(link, limit, start, used).chain
    BY <1>1, <2>1, WalkAnywhere
  <2>3. /\ ToSet(Walk(link, limit, start, used).chain) \cap used = {}
        /\ Walk(link, limit, start, used).used
                  = used \cup ToSet(Walk(link, limit, start, used).chain)
    BY <1>1, WalkEnds
  <2> QED BY <2>2, <2>3
<1>2. ASSUME Walk(link, limit, start, {}).ok,
             ToSet(Walk(link, limit, start, {}).chain) \cap used = {}
      PROVE  Walk(link, limit, start, used).ok
  BY <1>2, WalkAnywhere
<1> QED BY <1>1, <1>2

-----------------------------------------------------------------------------
(* Numbers. *)

\* The least number of a set.
LEMMA MinIs ==
  ASSUME NEW S \in SUBSET Nat, S # {}
  PROVE  Min(S) \in S /\ \A k \in S : Min(S) <= k
<1>1. \E m \in S : \A k \in S : m <= k
  BY Least
<1> QED BY <1>1 DEF Min

\* The place of a number in rows of one length.
LEMMA Division ==
  ASSUME NEW n \in Nat, NEW u \in Nat, u # 0
  PROVE  /\ n \div u \in Nat /\ n % u \in Nat /\ n % u < u
         /\ n = u * (n \div u) + (n % u)
         /\ \A rows \in Nat : n < rows * u => n \div u < rows
<1>1. /\ n \div u \in Nat /\ n % u \in Nat /\ n % u < u
      /\ n = u * (n \div u) + (n % u)
  BY Z3
<1>2. ASSUME NEW rows \in Nat, n < rows * u, ~(n \div u < rows) PROVE FALSE
  <2> DEFINE q == n \div u
  <2>1. q \in Nat /\ q >= rows /\ n >= u * q
    BY <1>1, <1>2
  <2> HIDE DEF q
  <2>2. PICK d \in Nat : q = rows + d
    <3>1. q - rows \in Nat /\ q = rows + (q - rows)
      BY <2>1
    <3> QED BY <3>1
  <2>3. u * q = u * rows + u * d /\ u * d \in Nat /\ u * rows = rows * u /\ u * rows \in Nat
    BY <2>2, Z3
  <2> QED BY <1>2, <2>1, <2>3
<1> QED BY <1>1, <1>2

\* The units for a size are a number.
LEMMA UnitsForType ==
  ASSUME NEW size \in Nat, NEW unit \in Nat, unit # 0
  PROVE  UnitsFor(size, unit) \in Nat
BY Division DEF UnitsFor

\* A size that is not zero needs a unit.
LEMMA SomeUnits ==
  ASSUME NEW size \in Nat \ {0}, NEW unit \in Nat, unit # 0
  PROVE  UnitsFor(size, unit) \in Nat \ {0}
<1> DEFINE q == size \div unit  r == size % unit
<1>1. q \in Nat /\ r \in Nat /\ size = unit * q + r
  BY Division
<1>2. UnitsFor(size, unit) = q + (IF r # 0 THEN 1 ELSE 0)
  BY DEF UnitsFor
<1> HIDE DEF q, r
<1>3. q # 0 \/ r # 0
  <2>1. unit * 0 = 0
    OBVIOUS
  <2> QED BY <1>1, <2>1
<1> QED BY <1>1, <1>2, <1>3

-----------------------------------------------------------------------------
(* What the reader makes of an image. *)

NodeType ==
  [id : Nat, name : Seq(Nat), path : Seq(Seq(Nat)), storage : BOOLEAN, class : Nat, meta : Nat,
   start : Nat, size : Nat, child : Nat, left : Nat, right : Nat]

\* A model in which chains can be walked.
HasFat(m) ==
  /\ IsImage(m.image)
  /\ m.fat \in Seq(Nat)
  /\ \A i \in 1..Len(m.fat) : m.fat[i] < SectorCount(m.image)
  /\ m.mini_fat \in Seq(Nat)

IsModel(m) ==
  /\ HasFat(m)
  /\ m.mini_start \in Nat /\ m.mini_size \in Nat
  /\ m.nodes \in Seq(NodeType)

\* The sizes of an image.
LEMMA Geometries ==
  ASSUME NEW image, IsImage(image)
  PROVE  /\ CellsOf(image) \in Nat \ {0} /\ IndexOf(image) \in Nat \ {0, 1}
         /\ EntriesOf(image) \in Nat \ {0}
         /\ SectorCount(image) \in Nat
<1>1. image.version \in {3, 4}
  BY DEF IsImage
<1>2. SectorCount(image) \in Nat
  <2>1. \A S : \A s \in Seq(S) : Len(s) \in Nat
    OBVIOUS
  <2>2. image.sectors \in Seq(ToSet(image.sectors))
    BY DEF IsImage
  <2> QED BY <2>1, <2>2, Zenon DEF SectorCount
<1> QED BY <1>1, <1>2, GeometryAssumption DEF CellsOf, IndexOf, EntriesOf

\* What a sector of the image holds.
LEMMA SectorHolds ==
  ASSUME NEW image, IsImage(image), NEW s \in Nat, s < SectorCount(image)
  PROVE  /\ image.sectors[s + 1].index \in Seq(Nat)
         /\ image.sectors[s + 1].entries \in Seq(DirEntry)
<1>1. image.sectors \in Seq(ToSet(image.sectors))
  BY DEF IsImage
<1> DEFINE t == image.sectors
<1>2. s + 1 \in DOMAIN t
  <2> HIDE DEF t
  <2>1. t \in Seq(ToSet(t)) /\ s < Len(t)
    BY <1>1 DEF SectorCount, t
  <2> QED BY <2>1
<1>3. t[s + 1] \in ToSet(t)
  BY <1>2 DEF ToSet
<1> QED BY <1>3 DEF IsImage

\* An element, or the padding.
LEMMA AtType ==
  ASSUME NEW S, NEW s \in Seq(S), NEW k \in Nat, NEW pad \in S
  PROVE  At(s, k, pad) \in S
<1>1. k < Len(s) => k + 1 \in 1..Len(s)
  OBVIOUS
<1> QED BY <1>1 DEF At

\* The index entries of a sector are numbers.
LEMMA IndexCellType ==
  ASSUME NEW image, IsImage(image), NEW s \in Nat, s < SectorCount(image), NEW k \in Nat
  PROVE  IndexCell(image, s, k) \in Nat
BY SectorHolds, AtType, Reserved DEF IndexCell

\* A list up to its first unused entry.
LEMMA ListedType ==
  ASSUME NEW s \in Seq(Nat)
  PROVE  Listed(s) \in Seq(Nat)
<1> DEFINE stops == {i \in DOMAIN s : s[i] \in {FreeSector, EndOfChain}}
<1>1. stops \in SUBSET Nat
  OBVIOUS
<1>2. CASE stops = {}
  BY <1>2 DEF Listed
<1>3. CASE stops # {}
  <2>1. Min(stops) \in stops
    BY <1>1, <1>3, MinIs
  <2>2. Min(stops) \in 1..Len(s)
    BY <2>1
  <2> HIDE DEF stops
  <2>3. PICK n \in 0..Len(s) : n = Min(stops) - 1
    BY <2>2
  <2>4. SubSeq(s, 1, n) \in Seq(Nat)
    OBVIOUS
  <2> QED BY <1>3, <2>3, <2>4 DEF Listed, stops
<1> QED BY <1>2, <1>3

DifatState == [ok : BOOLEAN, seen : SUBSET Nat, at : Nat, list : Seq(Nat)]

\* Reading one sector of the extended index.
LEMMA DifatStep ==
  ASSUME NEW image, IsImage(image), NEW w \in DifatState
  PROVE  ReadDifatSector(image, w) \in DifatState
<1>1. CASE ~w.ok \/ w.at \in {EndOfChain, FreeSector}
  BY <1>1 DEF ReadDifatSector
<1>2. CASE ~(~w.ok \/ w.at \in {EndOfChain, FreeSector})
           /\ (~WholeSector(image, w.at) \/ w.at \in w.seen)
  <2>1. ReadDifatSector(image, w) = [w EXCEPT !.ok = FALSE]
    BY <1>2 DEF ReadDifatSector
  <2> QED BY <2>1 DEF DifatState
<1>3. CASE ~(~w.ok \/ w.at \in {EndOfChain, FreeSector})
           /\ ~(~WholeSector(image, w.at) \/ w.at \in w.seen)
  <2> DEFINE last == IndexOf(image) - 1
             cells == [k \in 1..last |-> IndexCell(image, w.at, k - 1)]
  <2>1. ReadDifatSector(image, w)
          = [ok |-> TRUE, seen |-> w.seen \cup {w.at}, at |-> IndexCell(image, w.at, last),
             list |-> w.list \o Listed(cells)]
    BY <1>3 DEF ReadDifatSector
  <2>2. w.at \in Nat /\ w.at < SectorCount(image)
    BY <1>3 DEF WholeSector, RangeFits, DifatState
  <2>3. last \in Nat
    BY Geometries
  <2> HIDE DEF last
  <2>4. IndexCell(image, w.at, last) \in Nat
    BY <2>2, <2>3, IndexCellType
  <2>5. ASSUME NEW k \in 1..last PROVE IndexCell(image, w.at, k - 1) \in Nat
    <3>1. k - 1 \in Nat
      BY <2>3
    <3> QED BY <2>2, <3>1, IndexCellType
  <2>6. cells \in Seq(Nat)
    BY <2>3, <2>5
  <2>7. Listed(cells) \in Seq(Nat)
    BY <2>6, ListedType
  <2> HIDE DEF cells
  <2>8. w.list \o Listed(cells) \in Seq(Nat) /\ w.seen \cup {w.at} \in SUBSET Nat
    BY <2>2, <2>7 DEF DifatState
  <2> QED BY <2>1, <2>4, <2>8 DEF DifatState
<1> QED BY <1>1, <1>2, <1>3

\* The FAT of an image lists sectors of the image.
LEMMA BuildFatType ==
  ASSUME NEW image, IsImage(image)
  PROVE  /\ BuildFat(image).list \in Seq(Nat)
         /\ BuildFat(image).ok => \A i \in 1..Len(BuildFat(image).list) :
                                    BuildFat(image).list[i] < SectorCount(image)
<1> DEFINE N == image.total_difat
           first == [ok |-> TRUE, seen |-> {}, at |-> image.first_difat,
                     list |-> Listed(image.difat)]
           Body(g) == [i \in 0..N |-> IF i = 0 THEN first ELSE ReadDifatSector(image, g[i - 1])]
           step == [i \in 1..N |-> [w \in DifatState |-> ReadDifatSector(image, w)]]
           difat == CHOOSE g : g = Body(g)
<1>1. N \in Nat /\ image.first_difat \in Nat /\ image.difat \in Seq(Nat)
  BY DEF IsImage
<1>2. first \in DifatState
  BY <1>1, ListedType DEF DifatState
<1>3. BuildFat(image) = FatOf(image, difat[N])
  BY DEF BuildFat
<1>4. step \in [1..N -> [DifatState -> DifatState]]
  BY DifatStep
<1> HIDE DEF N, first, step
<1>5. PICK f \in [0..N -> DifatState] : f[0] = first /\ \A i \in 1..N : f[i] = step[i][f[i - 1]]
  <2>1. Iterable(N, DifatState, first, step)
    BY <1>1, <1>2, <1>4, Iteration, Zenon
  <2> QED BY <2>1, Zenon DEF Iterable
<1>6. ASSUME NEW i \in 1..N PROVE f[i] = ReadDifatSector(image, f[i - 1])
  <2>1. i - 1 \in 0..N
    BY <1>1
  <2> QED BY <1>5, <2>1 DEF step
<1>7. f = Body(f)
  <2>1. ASSUME NEW i \in 0..N PROVE f[i] = Body(f)[i]
    <3>1. i # 0 => i \in 1..N
      BY <1>1
    <3> QED BY <1>5, <1>6, <3>1
  <2> QED BY <2>1
<1>8. difat = Body(difat)
  <2> HIDE DEF Body
  <2> QED BY <1>7, Zenon
<1> HIDE DEF difat
<1>9. \A i \in 0..N : difat[i] = IF i = 0 THEN first ELSE ReadDifatSector(image, difat[i - 1])
  <2>1. \A i \in 0..N : Body(difat)[i] = IF i = 0 THEN first
                                         ELSE ReadDifatSector(image, difat[i - 1])
    BY DEF Body
  <2> HIDE DEF Body
  <2> QED BY <1>8, <2>1
<1>10. difat[N] \in DifatState
  <2> DEFINE S == {i \in 0..N : difat[i] \in DifatState}
  <2>1. 0 \in S
    BY <1>1, <1>2, <1>9
  <2>2. ASSUME NEW i \in 0..(N - 1), i \in S PROVE i + 1 \in S
    <3>1. i + 1 \in 0..N /\ (i + 1) - 1 = i /\ i + 1 # 0
      BY <1>1
    <3>2. difat[i + 1] = ReadDifatSector(image, difat[i]) /\ difat[i] \in DifatState
      BY <1>9, <2>2, <3>1
    <3> QED BY <3>1, <3>2, DifatStep
  <2> HIDE DEF S
  <2>3. 0..N \subseteq S
    BY <1>1, <2>1, <2>2, IntervalInduction, Zenon
  <2>4. N \in 0..N
    BY <1>1
  <2> QED BY <2>3, <2>4 DEF S
<1> DEFINE w == difat[N]
<1> HIDE DEF w
<1>11. w \in DifatState /\ BuildFat(image) = FatOf(image, w)
  BY <1>3, <1>10 DEF w
<1>12. w.list \in Seq(Nat) /\ BuildFat(image).list = w.list
  BY <1>11 DEF FatOf, DifatState
<1>13. ASSUME BuildFat(image).ok, NEW i \in 1..Len(w.list) PROVE w.list[i] < SectorCount(image)
  <2>1. i \in DOMAIN w.list
    BY <1>12
  <2>2. WholeSector(image, w.list[i])
    BY <1>11, <1>13, <2>1 DEF FatOf
  <2> QED BY <2>2 DEF WholeSector, RangeFits
<1> QED BY <1>12, <1>13

\* The links of the sectors and of the mini sectors of a model.
LEMMA Links ==
  ASSUME NEW m, HasFat(m)
  PROVE  /\ ChainLimit(m) \in Nat /\ ChainLimit(m) <= SectorCount(m.image)
         /\ [s \in 0..(ChainLimit(m) - 1) |-> FatEntry(m, s)] \in [0..(ChainLimit(m) - 1) -> Nat]
         /\ Len(m.mini_fat) \in Nat
         /\ [s \in 0..(Len(m.mini_fat) - 1) |-> m.mini_fat[s + 1]]
              \in [0..(Len(m.mini_fat) - 1) -> Nat]
<1> DEFINE I == IndexOf(m.image)
<1>1. IsImage(m.image) /\ m.fat \in Seq(Nat) /\ m.mini_fat \in Seq(Nat)
  BY DEF HasFat
<1>2. I \in Nat /\ I # 0 /\ SectorCount(m.image) \in Nat
  BY <1>1, Geometries
<1> HIDE DEF I
<1>3. Len(m.fat) \in Nat /\ FatSize(m) = Len(m.fat) * I /\ FatSize(m) \in Nat
  <2>1. Len(m.fat) \in Nat /\ FatSize(m) = Len(m.fat) * I
    BY <1>1 DEF FatSize, I
  <2> QED BY <1>2, <2>1
<1>4. ChainLimit(m) \in Nat /\ ChainLimit(m) <= SectorCount(m.image) /\ ChainLimit(m) <= FatSize(m)
  <2> DEFINE S == {FatSize(m), SectorCount(m.image)}
  <2>1. S \in SUBSET Nat /\ S # {}
    BY <1>2, <1>3
  <2>2. Min(S) \in S /\ \A k \in S : Min(S) <= k
    BY <2>1, MinIs
  <2> QED BY <2>1, <2>2 DEF ChainLimit
<1>5. ASSUME NEW s \in 0..(ChainLimit(m) - 1) PROVE FatEntry(m, s) \in Nat
  <2>1. s \in Nat /\ s < Len(m.fat) * I
    BY <1>3, <1>4
  <2>2. s \div I \in Nat /\ s % I \in Nat /\ s \div I < Len(m.fat)
    BY <1>2, <1>3, <2>1, Division
  <2> DEFINE q == s \div I  r == s % I
  <2> HIDE DEF q, r
  <2>3. q + 1 \in 1..Len(m.fat) /\ r \in Nat
    BY <1>3, <2>2 DEF q, r
  <2>4. m.fat[q + 1] \in Nat /\ m.fat[q + 1] < SectorCount(m.image)
    BY <1>1, <2>3 DEF HasFat
  <2>5. IndexCell(m.image, m.fat[q + 1], r) \in Nat
    BY <1>1, <2>3, <2>4, IndexCellType
  <2> QED BY <2>5 DEF FatEntry, q, r, I
<1>6. ASSUME NEW s \in 0..(Len(m.mini_fat) - 1) PROVE m.mini_fat[s + 1] \in Nat
  <2>1. s + 1 \in 1..Len(m.mini_fat)
    BY <1>1
  <2> QED BY <1>1, <2>1
<1>7. Len(m.mini_fat) \in Nat
  BY <1>1
<1> QED BY <1>4, <1>5, <1>6, <1>7

\* The elements of a sequence.
LEMMA ElementType ==
  ASSUME NEW S, NEW s \in Seq(S)
  PROVE  Len(s) \in Nat /\ \A k \in 1..Len(s) : s[k] \in S
OBVIOUS

\* A walk along a chain of sectors, or of mini sectors.
LEMMA ChainWalk ==
  ASSUME NEW m, HasFat(m), NEW start \in Nat, NEW used \in SUBSET Nat
  PROVE  /\ WalkChain(m, start, used) \in WalkState
         /\ Ended(WalkChain(m, start, used))
         /\ WalkChain(m, start, used).ok =>
              \A k \in 1..Len(WalkChain(m, start, used).chain) :
                WalkChain(m, start, used).chain[k] < SectorCount(m.image)
         /\ WalkChain(m, start, used).ok
              <=> /\ WalkChain(m, start, {}).ok
                  /\ ToSet(WalkChain(m, start, {}).chain) \cap used = {}
         /\ WalkChain(m, start, used).ok =>
              /\ WalkChain(m, start, used).chain = WalkChain(m, start, {}).chain
              /\ WalkChain(m, start, used).used = used \cup ToSet(WalkChain(m, start, {}).chain)
<1> DEFINE limit == ChainLimit(m)
           link == [s \in 0..(limit - 1) |-> FatEntry(m, s)]
<1>1. limit \in Nat /\ link \in [0..(limit - 1) -> Nat] /\ limit <= SectorCount(m.image)
  BY Links
<1>2. \A U : WalkChain(m, start, U) = Walk(link, limit, start, U)
  BY DEF WalkChain
<1> HIDE DEF limit, link
<1>3. /\ Walk(link, limit, start, used) \in WalkState
      /\ Ended(Walk(link, limit, start, used))
      /\ Walk(link, limit, start, used).ok =>
              Walk(link, limit, start, used).chain \in Seq(0..(limit - 1))
  BY <1>1, WalkEnds
<1>4. /\ Walk(link, limit, start, used).ok
              <=> /\ Walk(link, limit, start, {}).ok
                  /\ ToSet(Walk(link, limit, start, {}).chain) \cap used = {}
      /\ Walk(link, limit, start, used).ok =>
              /\ Walk(link, limit, start, used).chain = Walk(link, limit, start, {}).chain
              /\ Walk(link, limit, start, used).used
                   = used \cup ToSet(Walk(link, limit, start, {}).chain)
  BY <1>1, WalkApart
<1>5. ASSUME Walk(link, limit, start, used).ok
      PROVE  \A k \in 1..Len(Walk(link, limit, start, used).chain) :
                Walk(link, limit, start, used).chain[k] < SectorCount(m.image)
  <2> DEFINE c == Walk(link, limit, start, used).chain
  <2>1. c \in Seq(0..(limit - 1))
    BY <1>3, <1>5
  <2> HIDE DEF c
  <2>2. SectorCount(m.image) \in Nat
    BY Geometries DEF HasFat
  <2>3. \A k \in 1..Len(c) : c[k] < SectorCount(m.image)
    <3>1. \A k \in 1..Len(c) : c[k] \in 0..(limit - 1)
      BY <2>1, ElementType, Zenon
    <3>2. limit \in Nat /\ limit <= SectorCount(m.image)
      BY <1>1
    <3>3. \A n \in 0..(limit - 1) : n < SectorCount(m.image)
      BY <2>2, <3>2
    <3> QED BY <3>1, <3>3
  <2> QED BY <2>3 DEF c
<1> QED BY <1>2, <1>3, <1>4, <1>5

\* The same for a walk along a chain of mini sectors.
LEMMA MiniChainWalk ==
  ASSUME NEW m, HasFat(m), NEW start \in Nat, NEW used \in SUBSET Nat
  PROVE  /\ WalkMiniChain(m, start, used) \in WalkState
         /\ Ended(WalkMiniChain(m, start, used))
         /\ WalkMiniChain(m, start, used).ok
              <=> /\ WalkMiniChain(m, start, {}).ok
                  /\ ToSet(WalkMiniChain(m, start, {}).chain) \cap used = {}
         /\ WalkMiniChain(m, start, used).ok =>
              /\ WalkMiniChain(m, start, used).chain = WalkMiniChain(m, start, {}).chain
              /\ WalkMiniChain(m, start, used).used
                   = used \cup ToSet(WalkMiniChain(m, start, {}).chain)
<1> DEFINE limit == Len(m.mini_fat)
           link == [s \in 0..(limit - 1) |-> m.mini_fat[s + 1]]
<1>1. limit \in Nat /\ link \in [0..(limit - 1) -> Nat]
  BY Links
<1>2. \A U : WalkMiniChain(m, start, U) = Walk(link, limit, start, U)
  BY DEF WalkMiniChain
<1> HIDE DEF limit, link
<1>3. Walk(link, limit, start, used) \in WalkState /\ Ended(Walk(link, limit, start, used))
  BY <1>1, WalkEnds
<1>4. /\ Walk(link, limit, start, used).ok
              <=> /\ Walk(link, limit, start, {}).ok
                  /\ ToSet(Walk(link, limit, start, {}).chain) \cap used = {}
      /\ Walk(link, limit, start, used).ok =>
              /\ Walk(link, limit, start, used).chain = Walk(link, limit, start, {}).chain
              /\ Walk(link, limit, start, used).used
                   = used \cup ToSet(Walk(link, limit, start, {}).chain)
  BY <1>1, WalkApart
<1> QED BY <1>2, <1>3, <1>4

\* Entry k of the sectors of a chain is in a sector of the chain.
LEMMA Along ==
  ASSUME NEW chain \in Seq(Nat), NEW per \in Nat, per # 0, NEW k \in 1..(Len(chain) * per)
  PROVE  (k - 1) \div per + 1 \in 1..Len(chain) /\ (k - 1) % per \in Nat
<1>1. k - 1 \in Nat /\ Len(chain) \in Nat /\ Len(chain) * per \in Nat /\ k - 1 < Len(chain) * per
  OBVIOUS
<1>2. (k - 1) \div per \in Nat /\ (k - 1) % per \in Nat /\ (k - 1) \div per < Len(chain)
  BY <1>1, Division
<1> QED BY <1>1, <1>2

\* The sectors of a chain that can be read are sectors of the file.
LEMMA ReadableChain ==
  ASSUME NEW m, HasFat(m), NEW start \in Nat, ChainReads(m, start)
  PROVE  /\ FollowChain(m, start).ok
         /\ FollowChain(m, start).chain \in Seq(Nat)
         /\ \A i \in 1..Len(FollowChain(m, start).chain) :
              FollowChain(m, start).chain[i] < SectorCount(m.image)
<1>1. FollowChain(m, start).ok
  BY DEF ChainReads, Readable
<1>2. {} \in SUBSET Nat
  OBVIOUS
<1>3. FollowChain(m, start) \in WalkState
  BY <1>2, ChainWalk DEF FollowChain
<1> QED BY <1>1, <1>2, <1>3, ChainWalk DEF FollowChain, WalkState

\* The index entries along a chain are numbers.
LEMMA IndexAlongType ==
  ASSUME NEW m, HasFat(m), NEW chain \in Seq(Nat), NEW per \in Nat, per # 0,
         \A i \in 1..Len(chain) : chain[i] < SectorCount(m.image)
  PROVE  IndexAlong(m, chain, per) \in Seq(Nat)
<1>1. ASSUME NEW k \in 1..(Len(chain) * per)
      PROVE  IndexCell(m.image, chain[(k - 1) \div per + 1], (k - 1) % per) \in Nat
  <2>1. (k - 1) \div per + 1 \in 1..Len(chain) /\ (k - 1) % per \in Nat
    BY Along
  <2> DEFINE j == (k - 1) \div per + 1  r == (k - 1) % per
  <2> HIDE DEF j, r
  <2>2. chain[j] \in Nat /\ chain[j] < SectorCount(m.image) /\ r \in Nat
    BY <2>1 DEF j, r
  <2>3. IsImage(m.image)
    BY DEF HasFat
  <2>4. IndexCell(m.image, chain[j], r) \in Nat
    BY <2>2, <2>3, IndexCellType
  <2> QED BY <2>4 DEF j, r
<1>2. Len(chain) * per \in Nat
  OBVIOUS
<1> QED BY <1>1, <1>2 DEF IndexAlong

\* A directory entry stays one where the high bits of its size are dropped.
LEMMA ReadEntryType ==
  ASSUME NEW image, NEW e \in DirEntry
  PROVE  ReadEntry(image, e) \in DirEntry
<1>1. e.size \in Nat /\ Uint32Max + 1 \in Nat /\ Uint32Max + 1 # 0
  BY LimitsAssumption DEF DirEntry
<1>2. e.size % (Uint32Max + 1) \in Nat
  BY <1>1, Division
<1>3. [e EXCEPT !.size = e.size % (Uint32Max + 1)] \in DirEntry
  BY <1>2 DEF DirEntry
<1> QED BY <1>3 DEF ReadEntry

\* The unused entry is a directory entry.
LEMMA UnusedEntryType == UnusedEntry \in DirEntry
<1>1. <<>> \in Seq(Nat)
  OBVIOUS
<1> QED BY <1>1, Reserved DEF UnusedEntry, DirEntry

\* The directory entries along a chain.
LEMMA EntriesAlongType ==
  ASSUME NEW m, HasFat(m), NEW chain \in Seq(Nat), NEW per \in Nat, per # 0,
         \A i \in 1..Len(chain) : chain[i] < SectorCount(m.image)
  PROVE  EntriesAlong(m, chain, per) \in Seq(DirEntry)
<1> DEFINE cell(k) == ReadEntry(m.image, At(m.image.sectors[chain[(k - 1) \div per + 1] + 1].entries,
                                            (k - 1) % per, UnusedEntry))
<1>1. ASSUME NEW k \in 1..(Len(chain) * per) PROVE cell(k) \in DirEntry
  <2>1. (k - 1) \div per + 1 \in 1..Len(chain) /\ (k - 1) % per \in Nat
    BY Along
  <2>2. m.image.sectors[chain[(k - 1) \div per + 1] + 1].entries \in Seq(DirEntry)
    BY <2>1, SectorHolds DEF HasFat
  <2>3. At(m.image.sectors[chain[(k - 1) \div per + 1] + 1].entries, (k - 1) % per, UnusedEntry)
          \in DirEntry
    BY <2>1, <2>2, AtType, UnusedEntryType
  <2> QED BY <2>3, ReadEntryType
<1>2. Len(chain) * per \in Nat
  OBVIOUS
<1> HIDE DEF cell
<1>3. [k \in 1..(Len(chain) * per) |-> cell(k)] \in Seq(DirEntry)
  BY <1>1, <1>2
<1> QED BY <1>3 DEF EntriesAlong, cell

\* The walk over one search tree of a directory of n entries.
OrderState(n) ==
  [ok : BOOLEAN, visited : SUBSET Nat, stack : Seq([id : 0..(n - 1), left : BOOLEAN]),
   order : Seq(0..(n - 1))]

\* Pushing an entry keeps what is on the stack inside the directory.
LEMMA PushType ==
  ASSUME NEW d \in Seq(DirEntry), NEW id \in Nat, NEW w \in OrderState(Len(d))
  PROVE  Push(d, id, w) \in OrderState(Len(d))
<1> DEFINE n == Len(d)
           T == [id : 0..(n - 1), left : BOOLEAN]
<1>1. n \in Nat
  OBVIOUS
<1> HIDE DEF n
<1>2. w \in OrderState(n)
  BY DEF n
<1>3. CASE id = NoStream
  BY <1>2, <1>3 DEF Push, n
<1>4. CASE id # NoStream /\ (\/ id >= n \/ id \in w.visited \/ d[id + 1].type = "unknown")
  <2>1. Push(d, id, w) = [w EXCEPT !.ok = FALSE]
    BY <1>4 DEF Push, n
  <2>2. [w EXCEPT !.ok = FALSE] \in OrderState(n)
    BY <1>2 DEF OrderState
  <2> QED BY <2>1, <2>2 DEF n
<1>5. CASE id # NoStream /\ ~(\/ id >= n \/ id \in w.visited \/ d[id + 1].type = "unknown")
  <2> DEFINE top == <<[id |-> id, left |-> FALSE]>> \o w.stack
  <2>1. Push(d, id, w) = [w EXCEPT !.visited = w.visited \cup {id}, !.stack = top]
    BY <1>5 DEF Push, n
  <2>2. id \in 0..(n - 1)
    BY <1>1, <1>5
  <2>3. w.stack \in Seq(T) /\ w.visited \cup {id} \in SUBSET Nat
    BY <1>2 DEF OrderState
  <2>4. [id |-> id, left |-> FALSE] \in T
    BY <2>2
  <2> HIDE DEF T
  <2>5. top \in Seq(T)
    BY <2>3, <2>4
  <2> HIDE DEF top
  <2>6. [w EXCEPT !.visited = w.visited \cup {id}, !.stack = top] \in OrderState(n)
    BY <1>2, <2>3, <2>5 DEF OrderState, T
  <2> QED BY <2>1, <2>6 DEF n
<1> QED BY <1>3, <1>4, <1>5

\* So does one turn of the walk through a search tree.
LEMMA DescendType ==
  ASSUME NEW d \in Seq(DirEntry), NEW w \in OrderState(Len(d))
  PROVE  Descend(d, w) \in OrderState(Len(d))
<1> DEFINE n == Len(d)
           T == [id : 0..(n - 1), left : BOOLEAN]
<1>1. n \in Nat
  OBVIOUS
<1>2. CASE ~w.ok \/ w.stack = <<>>
  BY <1>2 DEF Descend
<1>3. CASE ~(~w.ok \/ w.stack = <<>>)
  <2> DEFINE id == Head(w.stack).id
             rest == Tail(w.stack)
             up == [w EXCEPT !.stack = <<[id |-> id, left |-> TRUE]>> \o rest]
             out == [w EXCEPT !.stack = rest,
                              !.order = IF IsNode(d, id) THEN Append(w.order, id) ELSE w.order]
  <2> HIDE DEF n
  <2>1. w.stack \in Seq(T) /\ w.stack # <<>> /\ w.order \in Seq(0..(n - 1)) /\ w \in OrderState(n)
    BY <1>3 DEF OrderState, n
  <2>2. Head(w.stack) \in T /\ rest \in Seq(T)
    <3> HIDE DEF T
    <3> QED BY <2>1
  <2>3. id \in 0..(n - 1)
    BY <2>2
  <2>4. d[id + 1] \in DirEntry
    BY <1>1, <2>3 DEF n
  <2>5. d[id + 1].left \in Nat /\ d[id + 1].right \in Nat
    BY <2>4 DEF DirEntry
  <2>6. Descend(d, w) = IF ~Head(w.stack).left THEN Push(d, d[id + 1].left, up)
                        ELSE Push(d, d[id + 1].right, out)
    BY <1>3 DEF Descend
  <2> HIDE DEF rest, id
  <2>7. up \in OrderState(n)
    <3>1. [id |-> id, left |-> TRUE] \in T
      BY <2>3
    <3>2. <<[id |-> id, left |-> TRUE]>> \o rest \in Seq(T)
      <4> HIDE DEF T
      <4> QED BY <2>2, <3>1
    <3> QED BY <2>1, <3>2 DEF OrderState
  <2>8. out \in OrderState(n)
    <3>1. (IF IsNode(d, id) THEN Append(w.order, id) ELSE w.order) \in Seq(0..(n - 1))
      <4>1. \A S : \A s \in Seq(S), e \in S : Append(s, e) \in Seq(S)
        OBVIOUS
      <4>2. Append(w.order, id) \in Seq(0..(n - 1))
        BY <2>1, <2>3, <4>1, Zenon
      <4> QED BY <2>1, <4>2
    <3> QED BY <2>1, <2>2, <3>1 DEF OrderState
  <2> HIDE DEF up, out
  <2>9. Push(d, d[id + 1].left, up) \in OrderState(n)
    BY <2>5, <2>7, PushType DEF n
  <2>10. Push(d, d[id + 1].right, out) \in OrderState(n)
    BY <2>5, <2>8, PushType DEF n
  <2> QED BY <2>6, <2>9, <2>10 DEF n
<1> QED BY <1>2, <1>3

\* The nodes of a search tree are entries of the directory.
LEMMA InOrderType ==
  ASSUME NEW d \in Seq(DirEntry), NEW id \in Nat, NEW visited \in SUBSET Nat
  PROVE  InOrder(d, id, visited) \in OrderState(Len(d))
<1> DEFINE N == 2 * Len(d)
           V == OrderState(Len(d))
           first == Push(d, id, [ok |-> TRUE, visited |-> visited, stack |-> <<>>, order |-> <<>>])
           Body(g) == [i \in 0..N |-> IF i = 0 THEN first ELSE Descend(d, g[i - 1])]
           step == [i \in 1..N |-> [w \in V |-> Descend(d, w)]]
           walk == CHOOSE g : g = Body(g)
<1>1. N \in Nat
  OBVIOUS
<1>2. first \in V
  <2>1. [ok |-> TRUE, visited |-> visited, stack |-> <<>>, order |-> <<>>] \in V
    <3>1. \A S : <<>> \in Seq(S)
      OBVIOUS
    <3> QED BY <3>1 DEF OrderState
  <2> QED BY <2>1, PushType
<1>3. InOrder(d, id, visited) = walk[N]
  BY DEF InOrder
<1>4. step \in [1..N -> [V -> V]]
  BY DescendType
<1> HIDE DEF N, V, first, step
<1>5. PICK f \in [0..N -> V] : f[0] = first /\ \A i \in 1..N : f[i] = step[i][f[i - 1]]
  <2>1. Iterable(N, V, first, step)
    BY <1>1, <1>2, <1>4, Iteration, Zenon
  <2> QED BY <2>1, Zenon DEF Iterable
<1>6. ASSUME NEW i \in 1..N PROVE f[i] = Descend(d, f[i - 1])
  <2>1. i - 1 \in 0..N
    BY <1>1
  <2> QED BY <1>5, <2>1 DEF step
<1>7. f = Body(f)
  <2>1. ASSUME NEW i \in 0..N PROVE f[i] = Body(f)[i]
    <3>1. i # 0 => i \in 1..N
      BY <1>1
    <3> QED BY <1>5, <1>6, <3>1
  <2> QED BY <2>1
<1>8. walk = Body(walk)
  <2> HIDE DEF Body
  <2> QED BY <1>7, Zenon
<1> HIDE DEF walk
<1>9. \A i \in 0..N : walk[i] = IF i = 0 THEN first ELSE Descend(d, walk[i - 1])
  <2>1. \A i \in 0..N : Body(walk)[i] = IF i = 0 THEN first ELSE Descend(d, walk[i - 1])
    BY DEF Body
  <2> HIDE DEF Body
  <2> QED BY <1>8, <2>1
<1> DEFINE S == {i \in 0..N : walk[i] \in V}
<1>10. 0 \in S
  BY <1>1, <1>2, <1>9
<1>11. ASSUME NEW i \in 0..(N - 1), i \in S PROVE i + 1 \in S
  <2>1. i + 1 \in 0..N /\ (i + 1) - 1 = i /\ i + 1 # 0
    BY <1>1
  <2>2. walk[i + 1] = Descend(d, walk[i]) /\ walk[i] \in V
    BY <1>9, <1>11, <2>1
  <2> QED BY <2>1, <2>2, DescendType DEF V
<1> HIDE DEF S
<1>12. 0..N \subseteq S
  BY <1>1, <1>10, <1>11, IntervalInduction, Zenon
<1>13. N \in 0..N
  BY <1>1
<1> QED BY <1>3, <1>12, <1>13 DEF S, V

\* The nodes of a directory of n entries.
NodesOf(n) == {x \in NodeType : x.id < n}

TreeState(n) == [ok : BOOLEAN, visited : SUBSET Nat, nodes : Seq(NodesOf(n))]

\* The node of an entry.
LEMMA NodeIs ==
  ASSUME NEW d \in Seq(DirEntry), NEW id \in 0..(Len(d) - 1), NEW path \in Seq(Seq(Nat))
  PROVE  Node(d, id, path) \in NodesOf(Len(d))
<1>1. d[id + 1] \in DirEntry /\ id \in Nat /\ id < Len(d)
  OBVIOUS
<1> DEFINE e == d[id + 1]
<1>2. \A k \in Nat : Lookup(d, k) \in Nat
  BY Reserved DEF Lookup
<1>3. /\ e.name \in Seq(Nat) /\ e.class \in Nat /\ e.meta \in Nat /\ e.start \in Nat
      /\ e.size \in Nat /\ e.child \in Nat /\ e.left \in Nat /\ e.right \in Nat
  BY <1>1 DEF DirEntry
<1> HIDE DEF e
<1>4. /\ Lookup(d, e.left) \in Nat /\ Lookup(d, e.right) \in Nat /\ Lookup(d, e.child) \in Nat
      /\ EndOfChain \in Nat /\ NoStream \in Nat
  BY <1>2, <1>3, Reserved
<1> DEFINE x == [id |-> id, name |-> e.name, path |-> path, storage |-> e.type # "stream",
                 class |-> e.class, meta |-> e.meta,
                 start |-> IF e.type = "stream" THEN e.start ELSE EndOfChain,
                 size |-> IF e.type = "stream" THEN e.size ELSE 0,
                 child |-> IF e.type = "stream" THEN NoStream ELSE Lookup(d, e.child),
                 left |-> Lookup(d, e.left), right |-> Lookup(d, e.right)]
<1>5. Node(d, id, path) = x
  BY DEF Node, e
<1>6. x \in NodeType /\ x.id = id
  BY <1>1, <1>3, <1>4 DEF NodeType
<1> HIDE DEF x
<1> QED BY <1>1, <1>5, <1>6 DEF NodesOf

\* Reading the children of one more node keeps the nodes inside the directory.
LEMMA ReadChildrenType ==
  ASSUME NEW d \in Seq(DirEntry), NEW w \in TreeState(Len(d)), NEW i \in Nat \ {0}
  PROVE  ReadChildren(d, w, i) \in TreeState(Len(d))
<1> DEFINE n == Len(d)  T == NodesOf(n)
<1>1. n \in Nat
  OBVIOUS
<1>2. w.nodes \in Seq(T) /\ w.visited \in SUBSET Nat
  BY DEF TreeState
<1>3. CASE ~w.ok \/ i > Len(w.nodes)
  BY <1>3 DEF ReadChildren
<1>4. CASE ~(~w.ok \/ i > Len(w.nodes)) /\ ~w.nodes[i].storage
  BY <1>4 DEF ReadChildren
<1>5. CASE ~(~w.ok \/ i > Len(w.nodes)) /\ w.nodes[i].storage
  <2> DEFINE storage == w.nodes[i]
             walk == InOrder(d, d[storage.id + 1].child, w.visited)
             added == [k \in 1..Len(walk.order) |->
                         Node(d, walk.order[k], Append(storage.path, d[walk.order[k] + 1].name))]
  <2>1. ReadChildren(d, w, i) = AddChildren(d, w, storage, walk)
    BY <1>5 DEF ReadChildren
  <2>2. storage \in T
    <3> HIDE DEF T
    <3>1. i \in 1..Len(w.nodes)
      BY <1>2, <1>5
    <3> QED BY <1>2, <3>1
  <2> HIDE DEF storage
  <2>3. storage.id \in 0..(n - 1) /\ storage.path \in Seq(Seq(Nat))
    BY <1>1, <2>2 DEF NodesOf, NodeType
  <2>4. d[storage.id + 1] \in DirEntry
    BY <2>3
  <2>5. d[storage.id + 1].child \in Nat
    BY <2>4 DEF DirEntry
  <2>6. walk \in OrderState(n)
    BY <1>2, <2>5, InOrderType
  <2> HIDE DEF walk
  <2>7. /\ walk.ok \in BOOLEAN /\ walk.visited \in SUBSET Nat
        /\ walk.order \in Seq(0..(n - 1))
    BY <2>6 DEF OrderState
  <2>8. Len(walk.order) \in Nat /\ \A k \in 1..Len(walk.order) : walk.order[k] \in 0..(n - 1)
    BY <2>7, ElementType, Zenon
  <2>9. ASSUME NEW k \in 1..Len(walk.order)
        PROVE  Node(d, walk.order[k], Append(storage.path, d[walk.order[k] + 1].name)) \in T
    <3>1. walk.order[k] \in 0..(n - 1)
      BY <2>8
    <3>2. PICK id \in 0..(n - 1) : id = walk.order[k]
      BY <3>1
    <3>3. d[id + 1] \in DirEntry
      OBVIOUS
    <3>4. d[id + 1].name \in Seq(Nat)
      BY <3>3 DEF DirEntry
    <3>5. Append(storage.path, d[id + 1].name) \in Seq(Seq(Nat))
      <4>1. \A S : \A s \in Seq(S), e \in S : Append(s, e) \in Seq(S)
        OBVIOUS
      <4> QED BY <2>3, <3>4, <4>1, Zenon
    <3>6. Node(d, id, Append(storage.path, d[id + 1].name)) \in T
      BY <3>5, NodeIs
    <3> QED BY <3>2, <3>6
  <2> HIDE DEF T
  <2>10. added \in Seq(T)
    BY <2>8, <2>9
  <2> HIDE DEF added
  <2>11. w.nodes \o added \in Seq(T)
    BY <1>2, <2>10
  <2>12. AddChildren(d, w, storage, walk)
           = [ok |-> walk.ok /\ Len(storage.path) < MaxStorageDepth, visited |-> walk.visited,
              nodes |-> w.nodes \o added]
    BY DEF AddChildren, added
  <2> QED BY <2>1, <2>7, <2>11, <2>12 DEF TreeState, T
<1> QED BY <1>3, <1>4, <1>5

\* The nodes of a package are typed.
LEMMA ReadStorageType ==
  ASSUME NEW d \in Seq(DirEntry), d # <<>>
  PROVE  ReadStorage(d).nodes \in Seq(NodeType)
<1> DEFINE N == Len(d)
           V == TreeState(Len(d))
           first == [ok |-> TRUE, visited |-> {0}, nodes |-> <<Node(d, 0, <<>>)>>]
           Body(g) == [i \in 0..N |-> IF i = 0 THEN first ELSE ReadChildren(d, g[i - 1], i)]
           step == [i \in 1..N |-> [w \in V |-> ReadChildren(d, w, i)]]
           read == CHOOSE g : g = Body(g)
<1>1. N \in Nat /\ N # 0
  OBVIOUS
<1>2. first \in V
  <2>1. 0 \in 0..(Len(d) - 1) /\ <<>> \in Seq(Seq(Nat))
    BY <1>1
  <2>2. Node(d, 0, <<>>) \in NodesOf(Len(d))
    BY <2>1, NodeIs
  <2>3. <<Node(d, 0, <<>>)>> \in Seq(NodesOf(Len(d)))
    BY <2>2
  <2>4. {0} \in SUBSET Nat
    OBVIOUS
  <2> QED BY <2>3, <2>4 DEF TreeState
<1>3. ReadStorage(d) = read[N]
  BY DEF ReadStorage
<1>4. step \in [1..N -> [V -> V]]
  BY ReadChildrenType
<1> HIDE DEF N, V, first, step
<1>5. PICK f \in [0..N -> V] : f[0] = first /\ \A i \in 1..N : f[i] = step[i][f[i - 1]]
  <2>1. Iterable(N, V, first, step)
    BY <1>1, <1>2, <1>4, Iteration, Zenon
  <2> QED BY <2>1, Zenon DEF Iterable
<1>6. ASSUME NEW i \in 1..N PROVE f[i] = ReadChildren(d, f[i - 1], i)
  <2>1. i - 1 \in 0..N
    BY <1>1
  <2> QED BY <1>5, <2>1 DEF step
<1>7. f = Body(f)
  <2>1. ASSUME NEW i \in 0..N PROVE f[i] = Body(f)[i]
    <3>1. i # 0 => i \in 1..N
      BY <1>1
    <3> QED BY <1>5, <1>6, <3>1
  <2> QED BY <2>1
<1>8. read = Body(read)
  <2> HIDE DEF Body
  <2> QED BY <1>7, Zenon
<1> HIDE DEF read
<1>9. \A i \in 0..N : read[i] = IF i = 0 THEN first ELSE ReadChildren(d, read[i - 1], i)
  <2>1. \A i \in 0..N : Body(read)[i] = IF i = 0 THEN first ELSE ReadChildren(d, read[i - 1], i)
    BY DEF Body
  <2> HIDE DEF Body
  <2> QED BY <1>8, <2>1
<1> DEFINE S == {i \in 0..N : read[i] \in V}
<1>10. 0 \in S
  BY <1>1, <1>2, <1>9
<1>11. ASSUME NEW i \in 0..(N - 1), i \in S PROVE i + 1 \in S
  <2>1. i + 1 \in 0..N /\ (i + 1) - 1 = i /\ i + 1 \in Nat \ {0}
    BY <1>1
  <2>2. read[i + 1] = ReadChildren(d, read[i], i + 1) /\ read[i] \in V
    BY <1>9, <1>11, <2>1
  <2> QED BY <2>1, <2>2, ReadChildrenType DEF V
<1> HIDE DEF S
<1>12. 0..N \subseteq S
  BY <1>1, <1>10, <1>11, IntervalInduction, Zenon
<1>13. N \in 0..N
  BY <1>1
<1>14. read[N] \in TreeState(Len(d))
  BY <1>12, <1>13 DEF S, V
<1>15. NodesOf(Len(d)) \subseteq NodeType
  BY DEF NodesOf
<1>16. Seq(NodesOf(Len(d))) \subseteq Seq(NodeType)
  BY <1>15
<1> QED BY <1>3, <1>14, <1>16 DEF TreeState

\* What parsing leaves is a model of the image it was given.
LEMMA ParseType ==
  ASSUME NEW image, IsImage(image), Parse(image).ok
  PROVE  IsModel(Parse(image)) /\ Parse(image).image = image
<1> DEFINE a == WithFat(image, BuildFat(image))
           b == WithMiniFat(a)
<1>1. image.sound
  BY DEF Parse, Malformed
<1>2. Parse(image) = WithDirectory(b)
  BY <1>1 DEF Parse
<1>3. a = [ok |-> BuildFat(image).ok, image |-> image, fat |-> BuildFat(image).list,
           mini_fat |-> <<>>, mini_start |-> EndOfChain, mini_size |-> 0, nodes |-> <<>>]
  BY DEF WithFat
<1> HIDE DEF b
<1>4. b.ok
  BY <1>2 DEF WithDirectory, Malformed
<1>5. a.ok
  BY <1>4 DEF WithMiniFat, b
<1>6. HasFat(a) /\ a.image = image
  <2>1. a.image = image /\ a.fat = BuildFat(image).list /\ a.mini_fat = <<>> /\ BuildFat(image).ok
    BY <1>3, <1>5
  <2>2. /\ BuildFat(image).list \in Seq(Nat)
        /\ \A i \in 1..Len(BuildFat(image).list) : BuildFat(image).list[i] < SectorCount(image)
    BY <2>1, BuildFatType
  <2>3. <<>> \in Seq(Nat)
    OBVIOUS
  <2> QED BY <2>1, <2>2, <2>3 DEF HasFat
<1>7. HasFat(b) /\ b.image = image /\ DOMAIN b = DOMAIN a /\ b.ok
  <2>1. CASE b = a
    BY <1>5, <1>6, <2>1
  <2>2. CASE b # a
    <3>1. ChainReads(a, image.first_mini_fat) /\ b = [a EXCEPT !.mini_fat = BuildMiniFat(a)]
      BY <1>4, <1>6, <2>2 DEF b, WithMiniFat, Malformed
    <3>2. image.first_mini_fat \in Nat
      BY DEF IsImage
    <3> DEFINE c == FollowChain(a, image.first_mini_fat).chain
    <3>3. c \in Seq(Nat) /\ \A i \in 1..Len(c) : c[i] < SectorCount(a.image)
      BY <1>6, <3>1, <3>2, ReadableChain
    <3> HIDE DEF c
    <3>4. IndexOf(image) \in Nat /\ IndexOf(image) # 0
      BY Geometries
    <3>5. IndexAlong(a, c, IndexOf(image)) \in Seq(Nat)
      BY <1>6, <3>3, <3>4, IndexAlongType
    <3>6. BuildMiniFat(a) \in Seq(Nat)
      BY <1>6, <3>5 DEF BuildMiniFat, c
    <3>7. /\ b.image = image /\ b.fat = a.fat /\ b.mini_fat = BuildMiniFat(a)
          /\ DOMAIN b = DOMAIN a
      BY <1>3, <3>1
    <3> HIDE DEF a
    <3> QED BY <1>4, <1>6, <3>6, <3>7 DEF HasFat
  <2> QED BY <2>1, <2>2
<1>8. ChainReads(b, image.first_dir)
  BY <1>2, <1>7 DEF WithDirectory, Malformed
<1> DEFINE d == ParseDirectory(b)
<1>9. d \in Seq(DirEntry)
  <2>1. image.first_dir \in Nat
    BY DEF IsImage
  <2> DEFINE c == FollowChain(b, image.first_dir).chain
  <2>2. c \in Seq(Nat) /\ \A i \in 1..Len(c) : c[i] < SectorCount(b.image)
    BY <1>7, <1>8, <2>1, ReadableChain
  <2> HIDE DEF c
  <2>3. EntriesOf(image) \in Nat /\ EntriesOf(image) # 0
    BY Geometries
  <2>4. EntriesAlong(b, c, EntriesOf(image)) \in Seq(DirEntry)
    BY <1>7, <2>2, <2>3, EntriesAlongType
  <2> QED BY <1>7, <2>4 DEF ParseDirectory, c
<1>10. Parse(image) = BuildTree(b, d)
  BY <1>2, <1>7, <1>8 DEF WithDirectory
<1> HIDE DEF d
<1>11. d # <<>> /\ BuildTree(b, d) = WithTree(b, d[1], ReadStorage(d))
  BY <1>10 DEF BuildTree, Malformed
<1>12. ReadStorage(d).nodes \in Seq(NodeType)
  BY <1>9, <1>11, ReadStorageType
<1>13. d[1].start \in Nat /\ d[1].size \in Nat
  <2>1. 1 \in 1..Len(d)
    BY <1>9, <1>11
  <2>2. d[1] \in DirEntry
    BY <1>9, <2>1
  <2> QED BY <2>2 DEF DirEntry
<1>14. DOMAIN b = {"ok", "image", "fat", "mini_fat", "mini_start", "mini_size", "nodes"}
  BY <1>3, <1>7
<1> DEFINE p == Parse(image)
<1> HIDE DEF p, a
<1>15. /\ p.image = b.image /\ p.fat = b.fat /\ p.mini_fat = b.mini_fat
       /\ p.mini_start = d[1].start /\ p.mini_size = d[1].size
       /\ p.nodes = ReadStorage(d).nodes
  <2>1. p = WithTree(b, d[1], ReadStorage(d))
    BY <1>10, <1>11 DEF p
  <2> QED BY <1>14, <2>1 DEF WithTree
<1>16. IsModel(p) /\ p.image = image
  BY <1>7, <1>12, <1>13, <1>15 DEF IsModel, HasFat
<1> QED BY <1>16 DEF p

-----------------------------------------------------------------------------
(* Streams are read in any order with the same result. *)

IsMini(n) == ~n.storage /\ n.size # 0 /\ n.size < MiniStreamCutoff
IsOrdinary(n) == ~n.storage /\ n.size # 0 /\ ~(n.size < MiniStreamCutoff)

\* The sectors a stream takes, those of the mini stream among them, and the
\* mini sectors it takes.
Takes(m, n) ==
  IF IsOrdinary(n) THEN ToSet(WalkChain(m, n.start, {}).chain)
  ELSE IF IsMini(n) /\ m.mini_size # 0 THEN ToSet(WalkChain(m, m.mini_start, {}).chain)
  ELSE {}

TakesMini(m, n) == IF IsMini(n) THEN ToSet(WalkMiniChain(m, n.start, {}).chain) ELSE {}

\* Two streams share nothing but the mini stream.
Apart(m, a, b) ==
  /\ TakesMini(m, a) \cap TakesMini(m, b) = {}
  /\ Takes(m, a) \cap Takes(m, b) = {} \/ (IsMini(a) /\ IsMini(b))

\* A stream alone can be read, and what it holds.
Fits(m, n) == Resolve(m, Unresolved, n).ok
BytesOf(m, n) == Resolve(m, Unresolved, n).bytes

\* The streams at some positions can be read together.
AllFit(m, P) ==
  /\ \A i \in P : Fits(m, m.nodes[i])
  /\ \A i, j \in P : i # j => Apart(m, m.nodes[i], m.nodes[j])

\* What resolving the streams at those positions leaves.
Holds(m, P, u) ==
  /\ DOMAIN u = {"ok", "used", "mini_used", "ready", "container", "bytes"}
  /\ u.ok = TRUE
  /\ u.used = UNION {Takes(m, m.nodes[i]) : i \in P}
  /\ u.mini_used = UNION {TakesMini(m, m.nodes[i]) : i \in P}
  /\ u.ready = (\E i \in P : IsMini(m.nodes[i]))
  /\ u.ready => EnsureMiniStream(m, Unresolved).ok
  /\ u.container = IF u.ready THEN EnsureMiniStream(m, Unresolved).container ELSE <<>>

\* What a stream takes are sector numbers.
LEMMA TakesType ==
  ASSUME NEW m, IsModel(m), NEW n \in NodeType
  PROVE  Takes(m, n) \in SUBSET Nat /\ TakesMini(m, n) \in SUBSET Nat
<1>1. HasFat(m) /\ m.mini_start \in Nat /\ {} \in SUBSET Nat /\ n.start \in Nat
  BY DEF IsModel, NodeType
<1>2. \A w \in WalkState : ToSet(w.chain) \in SUBSET Nat
  <2> SUFFICES ASSUME NEW w \in WalkState PROVE ToSet(w.chain) \in SUBSET Nat
    OBVIOUS
  <2> DEFINE c == w.chain
  <2>1. c \in Seq(Nat)
    BY DEF WalkState
  <2> HIDE DEF c
  <2>2. ToSet(c) \in SUBSET Nat
    BY <2>1 DEF ToSet
  <2> QED BY <2>2 DEF c
<1>3. ToSet(WalkChain(m, n.start, {}).chain) \in SUBSET Nat
  BY <1>1, <1>2, ChainWalk
<1>4. ToSet(WalkChain(m, m.mini_start, {}).chain) \in SUBSET Nat
  BY <1>1, <1>2, ChainWalk
<1>5. ToSet(WalkMiniChain(m, n.start, {}).chain) \in SUBSET Nat
  BY <1>1, <1>2, MiniChainWalk
<1> QED BY <1>3, <1>4, <1>5 DEF Takes, TakesMini

\* And so is what several streams take.
LEMMA HeldType ==
  ASSUME NEW m, IsModel(m), NEW P \in SUBSET (1..Len(m.nodes)), NEW u, Holds(m, P, u)
  PROVE  u.used \in SUBSET Nat /\ u.mini_used \in SUBSET Nat
<1>1. \A i \in P : m.nodes[i] \in NodeType
  BY DEF IsModel
<1>2. \A i \in P : Takes(m, m.nodes[i]) \in SUBSET Nat /\ TakesMini(m, m.nodes[i]) \in SUBSET Nat
  BY <1>1, TakesType
<1> QED BY <1>2 DEF Holds

\* Whether an ordinary stream can be read, apart from the walk of its chain.
OrdinaryFits(m, n, cells, chain) ==
  /\ CheckChainLength(n.size, chain, cells)
  /\ \A k \in DOMAIN chain : RangeFits(m.image, chain[k], Chunk(n.size, cells, k))

\* What reading an ordinary stream leaves, field by field.
LEMMA ReadOrdinaryIs ==
  ASSUME NEW m, NEW n, NEW cells, NEW w \in WalkState, NEW u,
         DOMAIN u = {"ok", "used", "mini_used", "ready", "container", "bytes"}
  PROVE  LET r == ReadOrdinary(m, u, n, cells, w)
         IN  /\ DOMAIN r = DOMAIN u
             /\ r.ok = (w.ok /\ OrdinaryFits(m, n, cells, w.chain))
             /\ r.used = w.used /\ r.mini_used = u.mini_used /\ r.ready = u.ready
             /\ r.container = u.container
             /\ r.ok => r.bytes = [i \in 1..n.size |->
                          At(m.image.sectors[w.chain[(i - 1) \div cells + 1] + 1].data,
                             (i - 1) % cells, <<>>)]
<1> DEFINE fits == w.ok /\ OrdinaryFits(m, n, cells, w.chain)
           bytes == [i \in 1..n.size |->
                          At(m.image.sectors[w.chain[(i - 1) \div cells + 1] + 1].data,
                             (i - 1) % cells, <<>>)]
           r == ReadOrdinary(m, u, n, cells, w)
<1>1. r = [u EXCEPT !.ok = fits, !.used = w.used, !.bytes = IF ~fits THEN <<>> ELSE bytes]
  BY DEF ReadOrdinary, OrdinaryFits
<1>2. fits \in BOOLEAN
  BY DEF OrdinaryFits
<1> HIDE DEF fits, bytes, r
<1>3. /\ DOMAIN r = DOMAIN u /\ r.ok = fits /\ r.used = w.used /\ r.mini_used = u.mini_used
      /\ r.ready = u.ready /\ r.container = u.container
      /\ r.bytes = IF ~fits THEN <<>> ELSE bytes
  BY <1>1
<1> QED BY <1>2, <1>3 DEF fits, bytes, r

\* What one more stream needs and leaves, once those at P have been read.
Joins(m, P, u, n) ==
  LET r == Resolve(m, u, n)
  IN  /\ r.ok <=> Fits(m, n) /\ \A i \in P : Apart(m, m.nodes[i], n)
      /\ r.ok =>
           /\ DOMAIN r = {"ok", "used", "mini_used", "ready", "container", "bytes"}
           /\ r.ok = TRUE
           /\ r.bytes = BytesOf(m, n)
           /\ r.used = u.used \cup Takes(m, n)
           /\ r.mini_used = u.mini_used \cup TakesMini(m, n)
           /\ r.ready = (u.ready \/ IsMini(n))
           /\ r.ready => EnsureMiniStream(m, Unresolved).ok
           /\ r.container = IF r.ready THEN EnsureMiniStream(m, Unresolved).container ELSE <<>>

\* Before any stream is read nothing is held.
LEMMA NothingHeld ==
  ASSUME NEW m
  PROVE  Holds(m, {}, Unresolved)
BY DEF Holds, Unresolved

\* A storage or an empty stream takes nothing.
LEMMA EmptyJoins ==
  ASSUME NEW m, IsModel(m), NEW P \in SUBSET (1..Len(m.nodes)), NEW u, Holds(m, P, u),
         NEW n \in NodeType, n.storage \/ n.size = 0
  PROVE  Joins(m, P, u, n)
<1>1. ~IsMini(n) /\ ~IsOrdinary(n)
  BY DEF IsMini, IsOrdinary
<1>2. Takes(m, n) = {} /\ TakesMini(m, n) = {}
  BY <1>1 DEF Takes, TakesMini
<1>3. \A v : Resolve(m, v, n) = [v EXCEPT !.bytes = <<>>]
  BY DEF Resolve
<1> DEFINE r == Resolve(m, u, n)
<1>4. /\ DOMAIN r = DOMAIN u /\ r.ok = u.ok /\ r.used = u.used /\ r.mini_used = u.mini_used
      /\ r.ready = u.ready /\ r.container = u.container /\ r.bytes = <<>>
  BY <1>3 DEF Holds
<1>5. Fits(m, n) /\ BytesOf(m, n) = <<>>
  BY <1>3 DEF Fits, BytesOf, Unresolved
<1>6. \A i \in P : Apart(m, m.nodes[i], n)
  BY <1>2 DEF Apart
<1> HIDE DEF r
<1>7. u.used \in SUBSET Nat /\ u.mini_used \in SUBSET Nat
  BY HeldType
<1>8. r.used = u.used \cup Takes(m, n) /\ r.mini_used = u.mini_used \cup TakesMini(m, n)
  BY <1>2, <1>4
<1>9. r.ready = (u.ready \/ IsMini(n))
  BY <1>1, <1>4 DEF Holds
<1> QED BY <1>4, <1>5, <1>6, <1>8, <1>9 DEF Joins, Holds, r

\* An ordinary stream joins those that were read if it fits alone and shares no
\* sector with them.
LEMMA OrdinaryJoins ==
  ASSUME NEW m, IsModel(m), NEW P \in SUBSET (1..Len(m.nodes)), NEW u, Holds(m, P, u),
         NEW n \in NodeType, IsOrdinary(n)
  PROVE  Joins(m, P, u, n)
<1> DEFINE cells == CellsOf(m.image)
           w == WalkChain(m, n.start, u.used)
           v == WalkChain(m, n.start, {})
           r == Resolve(m, u, n)
           q == Resolve(m, Unresolved, n)
<1>1. ~IsMini(n) /\ Takes(m, n) = ToSet(v.chain) /\ TakesMini(m, n) = {}
  BY DEF IsMini, IsOrdinary, Takes, TakesMini
<1>2. r = ReadOrdinary(m, u, n, cells, w) /\ q = ReadOrdinary(m, Unresolved, n, cells, v)
  BY DEF Resolve, ResolveOrdinary, IsOrdinary, Unresolved
<1>3. HasFat(m) /\ n.start \in Nat /\ u.used \in SUBSET Nat /\ {} \in SUBSET Nat
  BY HeldType DEF IsModel, NodeType
<1>4. /\ w \in WalkState /\ v \in WalkState
      /\ w.ok <=> v.ok /\ ToSet(v.chain) \cap u.used = {}
      /\ w.ok => w.chain = v.chain /\ w.used = u.used \cup ToSet(v.chain)
  BY <1>3, ChainWalk
<1> HIDE DEF cells, w, v, r, q
<1> DEFINE good == OrdinaryFits(m, n, cells, v.chain)
<1>5. /\ DOMAIN r = {"ok", "used", "mini_used", "ready", "container", "bytes"}
      /\ r.ok = (w.ok /\ OrdinaryFits(m, n, cells, w.chain))
      /\ r.used = w.used /\ r.mini_used = u.mini_used /\ r.ready = u.ready
      /\ r.container = u.container
      /\ r.ok => r.bytes = [i \in 1..n.size |->
                          At(m.image.sectors[w.chain[(i - 1) \div cells + 1] + 1].data,
                             (i - 1) % cells, <<>>)]
  <2>1. DOMAIN u = {"ok", "used", "mini_used", "ready", "container", "bytes"}
    BY DEF Holds
  <2> QED BY <1>2, <1>4, <2>1, ReadOrdinaryIs
<1>6. /\ q.ok = (v.ok /\ good)
      /\ q.ok => q.bytes = [i \in 1..n.size |->
                          At(m.image.sectors[v.chain[(i - 1) \div cells + 1] + 1].data,
                             (i - 1) % cells, <<>>)]
  <2>1. DOMAIN Unresolved = {"ok", "used", "mini_used", "ready", "container", "bytes"}
    BY DEF Unresolved
  <2> QED BY <1>2, <1>4, <2>1, ReadOrdinaryIs
<1>7. r.ok <=> q.ok /\ ToSet(v.chain) \cap u.used = {}
  BY <1>4, <1>5, <1>6
<1>8. ToSet(v.chain) \cap u.used = {} <=> \A i \in P : Apart(m, m.nodes[i], n)
  BY <1>1 DEF Holds, Apart
<1>9. r.ok => r.bytes = q.bytes /\ r.used = u.used \cup Takes(m, n) /\ r.ok = TRUE
  BY <1>1, <1>4, <1>5, <1>6, <1>7
<1>10. r.mini_used = u.mini_used \cup TakesMini(m, n)
  <2>1. u.mini_used \in SUBSET Nat
    BY HeldType
  <2> QED BY <1>1, <1>5, <2>1
<1>11. r.ready = (u.ready \/ IsMini(n))
  BY <1>1, <1>5 DEF Holds
<1>12. Fits(m, n) = q.ok /\ BytesOf(m, n) = q.bytes /\ Resolve(m, u, n) = r
  BY DEF Fits, BytesOf, q, r
<1> QED BY <1>5, <1>7, <1>8, <1>9, <1>10, <1>11, <1>12 DEF Joins, Holds

\* The mini stream's own chain covers the mini stream.
ContainerFits(m, cells, chain) ==
  /\ Len(chain) >= UnitsFor(m.mini_size, cells)
  /\ \A k \in 1..UnitsFor(m.mini_size, cells) :
       RangeFits(m.image, chain[k], Chunk(m.mini_size, cells, k))

\* What the walk along the mini stream's own chain leaves, field by field.
LEMMA KeepMiniStreamIs ==
  ASSUME NEW m, NEW cells, NEW w \in WalkState, NEW u,
         DOMAIN u = {"ok", "used", "mini_used", "ready", "container", "bytes"}
  PROVE  LET e == KeepMiniStream(m, u, cells, w)
         IN  /\ DOMAIN e = DOMAIN u
             /\ e.ok = (w.ok /\ ContainerFits(m, cells, w.chain))
             /\ e.used = w.used /\ e.mini_used = u.mini_used /\ e.ready = e.ok
             /\ e.container = IF e.ok THEN w.chain ELSE <<>>
<1> DEFINE fits == w.ok /\ ContainerFits(m, cells, w.chain)
           e == KeepMiniStream(m, u, cells, w)
<1>1. e = [u EXCEPT !.ok = fits, !.used = w.used, !.ready = fits,
                    !.container = IF fits THEN w.chain ELSE <<>>]
  BY DEF KeepMiniStream, ContainerFits
<1> HIDE DEF fits, e
<1>2. /\ DOMAIN e = DOMAIN u /\ e.ok = fits /\ e.used = w.used /\ e.mini_used = u.mini_used
      /\ e.ready = fits /\ e.container = IF fits THEN w.chain ELSE <<>>
  BY <1>1
<1> QED BY <1>2 DEF fits, e

\* The mini stream is ready where it can be read alone and no ordinary stream
\* has taken one of its sectors.
LEMMA EnsureIs ==
  ASSUME NEW m, IsModel(m), NEW P \in SUBSET (1..Len(m.nodes)), NEW u, Holds(m, P, u),
         \A i, j \in P : i # j => Apart(m, m.nodes[i], m.nodes[j]),
         NEW n \in NodeType, IsMini(n)
  PROVE  LET e == EnsureMiniStream(m, u)
             o == EnsureMiniStream(m, Unresolved)
         IN  /\ e.ok <=> /\ o.ok
                         /\ \A i \in P : \/ Takes(m, m.nodes[i]) \cap Takes(m, n) = {}
                                         \/ IsMini(m.nodes[i])
             /\ DOMAIN e = {"ok", "used", "mini_used", "ready", "container", "bytes"}
             /\ e.mini_used = u.mini_used /\ o.mini_used = {}
             /\ DOMAIN o = {"ok", "used", "mini_used", "ready", "container", "bytes"}
             /\ e.ok => /\ e.ready = TRUE /\ e.container = o.container
                        /\ e.used = u.used \cup Takes(m, n)
<1> DEFINE e == EnsureMiniStream(m, u)
           o == EnsureMiniStream(m, Unresolved)
           cells == CellsOf(m.image)
           w == WalkChain(m, m.mini_start, u.used)
           v == WalkChain(m, m.mini_start, {})
           field == {"ok", "used", "mini_used", "ready", "container", "bytes"}
<1>1. DOMAIN u = field /\ u.ok = TRUE /\ u.used \in SUBSET Nat
  BY HeldType DEF Holds
<1>2. /\ DOMAIN Unresolved = field /\ Unresolved.ok = TRUE /\ Unresolved.used = {}
      /\ Unresolved.mini_used = {} /\ Unresolved.ready = FALSE /\ Unresolved.container = <<>>
  BY DEF Unresolved
<1>3. HasFat(m) /\ m.mini_start \in Nat /\ {} \in SUBSET Nat
  BY DEF IsModel
<1>4. /\ w \in WalkState /\ v \in WalkState
      /\ w.ok <=> v.ok /\ ToSet(v.chain) \cap u.used = {}
      /\ w.ok => w.chain = v.chain /\ w.used = u.used \cup ToSet(v.chain)
  BY <1>1, <1>3, ChainWalk
<1>5. ~IsOrdinary(n)
  BY DEF IsOrdinary, IsMini
<1>6. o = IF m.mini_size = 0 THEN [Unresolved EXCEPT !.ready = TRUE]
          ELSE KeepMiniStream(m, Unresolved, cells, v)
  BY <1>2 DEF EnsureMiniStream
<1> DEFINE good == ContainerFits(m, cells, v.chain)
<1>7. ASSUME m.mini_size # 0
      PROVE  /\ o.ok = (v.ok /\ good) /\ DOMAIN o = field /\ o.mini_used = {}
             /\ o.container = IF o.ok THEN v.chain ELSE <<>>
  BY <1>2, <1>4, <1>6, <1>7, KeepMiniStreamIs
<1>8. ASSUME m.mini_size = 0
      PROVE  /\ o.ok = TRUE /\ DOMAIN o = field /\ o.mini_used = {} /\ o.container = <<>>
             /\ Takes(m, n) = {}
  BY <1>2, <1>5, <1>6, <1>8 DEF Takes
<1>9. ASSUME m.mini_size # 0 PROVE Takes(m, n) = ToSet(v.chain)
  BY <1>5, <1>9 DEF Takes
<1>10. CASE u.ready
  <2>1. e = u
    BY <1>10 DEF EnsureMiniStream
  <2>2. PICK j \in P : IsMini(m.nodes[j])
    BY <1>10 DEF Holds
  <2>3. Takes(m, m.nodes[j]) = Takes(m, n)
    BY <1>5, <2>2 DEF Takes, IsOrdinary, IsMini
  <2>4. ASSUME NEW i \in P, ~IsMini(m.nodes[i])
        PROVE  Takes(m, m.nodes[i]) \cap Takes(m, n) = {}
    <3>1. i # j
      BY <2>2, <2>4
    <3> QED BY <2>3, <2>4, <3>1 DEF Apart
  <2>5. o.ok /\ u.container = o.container /\ u.ready = TRUE
    BY <1>10 DEF Holds
  <2>6. u.used = u.used \cup Takes(m, n)
    <3>1. Takes(m, n) \subseteq u.used
      BY <2>2, <2>3 DEF Holds
    <3> QED BY <1>1, <3>1
  <2>7. DOMAIN o = field /\ o.mini_used = {}
    BY <1>7, <1>8
  <2> HIDE DEF o, e
  <2> QED BY <1>1, <2>1, <2>4, <2>5, <2>6, <2>7 DEF o, e
<1>11. CASE ~u.ready /\ m.mini_size = 0
  <2>1. e = [u EXCEPT !.ready = TRUE]
    BY <1>11 DEF EnsureMiniStream
  <2>2. /\ DOMAIN e = field /\ e.ok = TRUE /\ e.ready = TRUE /\ e.mini_used = u.mini_used
        /\ e.used = u.used /\ e.container = u.container /\ u.container = <<>>
    BY <1>1, <1>11, <2>1 DEF Holds
  <2> HIDE DEF o, e
  <2> QED BY <1>1, <1>8, <1>11, <2>2 DEF o, e
<1>12. CASE ~u.ready /\ m.mini_size # 0
  <2>1. e = KeepMiniStream(m, u, cells, w)
    BY <1>12 DEF EnsureMiniStream
  <2> HIDE DEF w, v, e, cells, o
  <2>2. /\ e.ok = (w.ok /\ ContainerFits(m, cells, w.chain)) /\ DOMAIN e = field
        /\ e.used = w.used /\ e.mini_used = u.mini_used /\ e.ready = e.ok
        /\ e.container = IF e.ok THEN w.chain ELSE <<>>
    BY <1>1, <1>4, <2>1, KeepMiniStreamIs
  <2>3. e.ok <=> o.ok /\ ToSet(v.chain) \cap u.used = {}
    BY <1>4, <1>7, <1>12, <2>2
  <2>4. \A i \in P : ~IsMini(m.nodes[i])
    BY <1>12 DEF Holds
  <2>5. ToSet(v.chain) \cap u.used = {}
          <=> \A i \in P : \/ Takes(m, m.nodes[i]) \cap Takes(m, n) = {}
                           \/ IsMini(m.nodes[i])
    BY <1>9, <1>12, <2>4 DEF Holds
  <2>6. e.ok => e.ready = TRUE /\ e.container = o.container /\ e.used = u.used \cup Takes(m, n)
    BY <1>4, <1>7, <1>9, <1>12, <2>2, <2>3
  <2>7. DOMAIN o = field /\ o.mini_used = {}
    BY <1>7, <1>12
  <2> QED BY <2>2, <2>3, <2>5, <2>6, <2>7 DEF o, e
<1> QED BY <1>10, <1>11, <1>12

\* Whether a mini stream can be read, apart from the walk of its chain, and the
\* bytes it has.
MiniPlace(chain, i) ==
  chain[(i - 1) \div MiniSectorSize + 1] * MiniSectorSize + ((i - 1) % MiniSectorSize)

MiniFits(m, n, chain) ==
  /\ CheckChainLength(n.size, chain, MiniSectorSize)
  /\ \A i \in 1..n.size : MiniPlace(chain, i) < m.mini_size

MiniBytes(m, n, cells, container, chain) ==
  [i \in 1..n.size |->
     At(m.image.sectors[container[MiniPlace(chain, i) \div cells + 1] + 1].data,
        MiniPlace(chain, i) % cells, <<>>)]

\* What reading a mini stream leaves, field by field.
LEMMA ReadMiniIs ==
  ASSUME NEW m, NEW n, NEW cells, NEW w \in WalkState, NEW u,
         DOMAIN u = {"ok", "used", "mini_used", "ready", "container", "bytes"}
  PROVE  LET r == ReadMini(m, u, n, cells, w)
         IN  /\ DOMAIN r = DOMAIN u
             /\ r.ok = (w.ok /\ MiniFits(m, n, w.chain))
             /\ r.mini_used = w.used /\ r.used = u.used /\ r.ready = u.ready
             /\ r.container = u.container
             /\ r.ok => r.bytes = MiniBytes(m, n, cells, u.container, w.chain)
<1> DEFINE fits == w.ok /\ MiniFits(m, n, w.chain)
           bytes == MiniBytes(m, n, cells, u.container, w.chain)
           r == ReadMini(m, u, n, cells, w)
<1>1. r = [u EXCEPT !.ok = fits, !.mini_used = w.used, !.bytes = IF fits THEN bytes ELSE <<>>]
  BY DEF ReadMini, MiniFits, MiniBytes, MiniPlace
<1> HIDE DEF fits, bytes, r
<1>2. /\ DOMAIN r = DOMAIN u /\ r.ok = fits /\ r.used = u.used /\ r.mini_used = w.used
      /\ r.ready = u.ready /\ r.container = u.container
      /\ r.bytes = IF fits THEN bytes ELSE <<>>
  BY <1>1
<1> QED BY <1>2 DEF fits, bytes, r

\* A mini stream joins those that were read likewise; the mini stream itself is
\* walked once and shared.
LEMMA MiniJoins ==
  ASSUME NEW m, IsModel(m), NEW P \in SUBSET (1..Len(m.nodes)), NEW u, Holds(m, P, u),
         \A i, j \in P : i # j => Apart(m, m.nodes[i], m.nodes[j]),
         NEW n \in NodeType, IsMini(n)
  PROVE  Joins(m, P, u, n)
<1> DEFINE e == EnsureMiniStream(m, u)
           o == EnsureMiniStream(m, Unresolved)
           cells == CellsOf(m.image)
           field == {"ok", "used", "mini_used", "ready", "container", "bytes"}
           w == WalkMiniChain(m, n.start, u.mini_used)
           v == WalkMiniChain(m, n.start, {})
           r == Resolve(m, u, n)
           q == Resolve(m, Unresolved, n)
<1>1. /\ e.ok <=> /\ o.ok
                  /\ \A i \in P : \/ Takes(m, m.nodes[i]) \cap Takes(m, n) = {}
                                  \/ IsMini(m.nodes[i])
      /\ DOMAIN e = field /\ DOMAIN o = field
      /\ e.mini_used = u.mini_used /\ o.mini_used = {}
      /\ e.ok => /\ e.ready = TRUE /\ e.container = o.container
                 /\ e.used = u.used \cup Takes(m, n)
  BY EnsureIs
<1>2. HasFat(m) /\ n.start \in Nat /\ u.mini_used \in SUBSET Nat /\ {} \in SUBSET Nat
  BY HeldType DEF IsModel, NodeType
<1>3. /\ w \in WalkState /\ v \in WalkState
      /\ w.ok <=> v.ok /\ ToSet(v.chain) \cap u.mini_used = {}
      /\ w.ok => w.chain = v.chain /\ w.used = u.mini_used \cup ToSet(v.chain)
  BY <1>2, MiniChainWalk
<1>4. /\ r = IF ~e.ok THEN e ELSE ReadMini(m, e, n, cells, WalkMiniChain(m, n.start, e.mini_used))
      /\ q = IF ~o.ok THEN o ELSE ReadMini(m, o, n, cells, WalkMiniChain(m, n.start, o.mini_used))
  BY DEF Resolve, ResolveMini, ResolveInContainer, IsMini
<1>5. TakesMini(m, n) = ToSet(v.chain)
  BY DEF TakesMini
<1> HIDE DEF e, o, cells, w, v, r, q
<1>6. r = IF ~e.ok THEN e ELSE ReadMini(m, e, n, cells, w)
  BY <1>1, <1>4 DEF w
<1>7. q = IF ~o.ok THEN o ELSE ReadMini(m, o, n, cells, v)
  BY <1>1, <1>4 DEF v
<1> DEFINE re == ReadMini(m, e, n, cells, w)
           ro == ReadMini(m, o, n, cells, v)
<1>8. /\ DOMAIN re = field
      /\ re.ok = (w.ok /\ MiniFits(m, n, w.chain))
      /\ re.mini_used = w.used /\ re.used = e.used /\ re.ready = e.ready
      /\ re.container = e.container
      /\ re.ok => re.bytes = MiniBytes(m, n, cells, e.container, w.chain)
  BY <1>1, <1>3, ReadMiniIs
<1>9. /\ ro.ok = (v.ok /\ MiniFits(m, n, v.chain))
      /\ ro.ok => ro.bytes = MiniBytes(m, n, cells, o.container, v.chain)
  BY <1>1, <1>3, ReadMiniIs
<1> HIDE DEF re, ro
<1>10. r.ok <=> e.ok /\ re.ok
  BY <1>6 DEF re
<1>11. q.ok <=> o.ok /\ ro.ok
  BY <1>7 DEF ro
<1>12. \A i \in P : Apart(m, m.nodes[i], n)
             <=> /\ TakesMini(m, m.nodes[i]) \cap ToSet(v.chain) = {}
                 /\ Takes(m, m.nodes[i]) \cap Takes(m, n) = {} \/ IsMini(m.nodes[i])
  BY <1>5 DEF Apart
<1>13. ToSet(v.chain) \cap u.mini_used = {}
         <=> \A i \in P : TakesMini(m, m.nodes[i]) \cap ToSet(v.chain) = {}
  <2> DEFINE V == ToSet(v.chain)
  <2> HIDE DEF V
  <2>1. u.mini_used = UNION {TakesMini(m, m.nodes[i]) : i \in P}
    BY DEF Holds
  <2>2. V \cap UNION {TakesMini(m, m.nodes[i]) : i \in P} = {}
          <=> \A i \in P : TakesMini(m, m.nodes[i]) \cap V = {}
    OBVIOUS
  <2> QED BY <2>1, <2>2 DEF V
<1>14. r.ok <=> q.ok /\ \A i \in P : Apart(m, m.nodes[i], n)
  <2>1. re.ok <=> ro.ok /\ ToSet(v.chain) \cap u.mini_used = {}
    BY <1>3, <1>8, <1>9
  <2>2. (\A i \in P : Apart(m, m.nodes[i], n))
          <=> /\ ToSet(v.chain) \cap u.mini_used = {}
              /\ \A i \in P : \/ Takes(m, m.nodes[i]) \cap Takes(m, n) = {}
                              \/ IsMini(m.nodes[i])
    BY <1>12, <1>13
  <2>3. e.ok <=> /\ o.ok
                 /\ \A i \in P : \/ Takes(m, m.nodes[i]) \cap Takes(m, n) = {}
                                 \/ IsMini(m.nodes[i])
    BY <1>1
  <2> QED BY <1>10, <1>11, <2>1, <2>2, <2>3
<1>15. ASSUME r.ok
       PROVE  /\ DOMAIN r = field /\ r.ok = TRUE /\ r.bytes = q.bytes
              /\ r.used = u.used \cup Takes(m, n)
              /\ r.mini_used = u.mini_used \cup TakesMini(m, n)
              /\ r.ready = TRUE /\ o.ok /\ r.container = o.container
  <2>1. r = re /\ e.ok /\ re.ok /\ o.ok /\ ro.ok /\ q = ro
    BY <1>6, <1>7, <1>10, <1>11, <1>14, <1>15 DEF re, ro
  <2>2. w.ok /\ w.chain = v.chain /\ w.used = u.mini_used \cup ToSet(v.chain)
    BY <1>3, <1>8, <2>1
  <2>3. r.bytes = q.bytes
    BY <1>1, <1>8, <1>9, <2>1, <2>2
  <2> QED BY <1>1, <1>5, <1>8, <2>1, <2>2, <2>3
<1>16. Fits(m, n) = q.ok /\ BytesOf(m, n) = q.bytes /\ Resolve(m, u, n) = r
       /\ EnsureMiniStream(m, Unresolved) = o
  BY DEF Fits, BytesOf, q, r, o
<1>17. r.ok => r.ready = (u.ready \/ IsMini(n))
  BY <1>15 DEF Holds
<1> QED BY <1>14, <1>15, <1>16, <1>17 DEF Joins

\* Every stream joins those that were read before it.
LEMMA StreamJoins ==
  ASSUME NEW m, IsModel(m), NEW P \in SUBSET (1..Len(m.nodes)), NEW u, Holds(m, P, u),
         \A i, j \in P : i # j => Apart(m, m.nodes[i], m.nodes[j]),
         NEW n \in NodeType
  PROVE  Joins(m, P, u, n)
<1>1. n.storage \/ n.size = 0 \/ IsOrdinary(n) \/ IsMini(n)
  BY DEF IsOrdinary, IsMini
<1> QED BY <1>1, EmptyJoins, OrdinaryJoins, MiniJoins

\* The positions of the nodes that are looked at, the first k of them.
Kept(m, with_signature, k) == {i \in 1..k : IsSignature(m.nodes[i]) => with_signature}

\* A node with the bytes it has when it is read alone.
Alone(m, i) == Content(m.nodes[i], BytesOf(m, m.nodes[i]))

\* What filling the first k nodes leaves.
Filled(m, with_signature, k, acc) ==
  /\ acc.u.ok <=> AllFit(m, Kept(m, with_signature, k))
  /\ acc.u.ok =>
       /\ Holds(m, Kept(m, with_signature, k), acc.u)
       /\ acc.nodes \in Seq({Alone(m, i) : i \in 1..Len(m.nodes)})
       /\ ToSet(acc.nodes) = {Alone(m, i) : i \in Kept(m, with_signature, k)}
       /\ with_signature => Len(acc.nodes) = k

\* One more node.
LEMMA AddNodeIs ==
  ASSUME NEW m, IsModel(m), NEW with_signature \in BOOLEAN, NEW k \in 1..Len(m.nodes), NEW acc,
         Filled(m, with_signature, k - 1, acc)
  PROVE  Filled(m, with_signature, k, AddNode(m, acc, m.nodes[k], with_signature))
<1> DEFINE n == m.nodes[k]
           P == Kept(m, with_signature, k - 1)
           Q == Kept(m, with_signature, k)
           r == Resolve(m, acc.u, n)
           new == AddNode(m, acc, n, with_signature)
           T == {Alone(m, i) : i \in 1..Len(m.nodes)}
<1>1. Len(m.nodes) \in Nat /\ k - 1 \in Nat /\ n \in NodeType
  BY DEF IsModel
<1>2. P \in SUBSET (1..Len(m.nodes)) /\ k \notin P
  BY <1>1 DEF Kept
<1>3. Q = IF IsSignature(n) /\ ~with_signature THEN P ELSE P \cup {k}
  <2>1. 1..k = (1..(k - 1)) \cup {k}
    BY <1>1
  <2> QED BY <2>1 DEF Kept
<1> HIDE DEF P, Q
<1>4. CASE ~acc.u.ok
  <2>1. new = acc
    BY <1>4 DEF AddNode
  <2>2. ~AllFit(m, P)
    BY <1>4 DEF Filled, P
  <2>3. ~AllFit(m, Q)
    <3>1. P \subseteq Q
      BY <1>3
    <3> QED BY <2>2, <3>1 DEF AllFit
  <2> QED BY <1>4, <2>1, <2>3 DEF Filled, Q
<1>5. CASE acc.u.ok /\ IsSignature(n) /\ ~with_signature
  <2>1. new = acc /\ P = Q
    BY <1>3, <1>5 DEF AddNode
  <2> QED BY <1>5, <2>1 DEF Filled, P, Q
<1>6. CASE acc.u.ok /\ ~(IsSignature(n) /\ ~with_signature)
  <2>1. new = [u |-> r, nodes |-> Append(acc.nodes, Content(n, r.bytes))]
    BY <1>6 DEF AddNode, AddContent
  <2>2. Q = P \cup {k}
    BY <1>3, <1>6
  <2>3. AllFit(m, P) /\ Holds(m, P, acc.u)
    BY <1>6 DEF Filled, P
  <2>4. Joins(m, P, acc.u, n)
    BY <1>1, <1>2, <2>3, StreamJoins DEF AllFit
  <2>5. r.ok <=> Fits(m, n) /\ \A i \in P : Apart(m, m.nodes[i], n)
    BY <2>4 DEF Joins
  <2>6. AllFit(m, Q) <=> Fits(m, n) /\ \A i \in P : Apart(m, m.nodes[i], n)
    <3>1. \A a, b : Apart(m, a, b) <=> Apart(m, b, a)
      BY DEF Apart
    <3> QED BY <1>2, <2>2, <2>3, <3>1 DEF AllFit
  <2>7. ASSUME r.ok PROVE Holds(m, Q, r) /\ r.bytes = BytesOf(m, n)
    <3>1. /\ DOMAIN r = {"ok", "used", "mini_used", "ready", "container", "bytes"}
          /\ r.ok = TRUE
          /\ r.bytes = BytesOf(m, n)
          /\ r.used = acc.u.used \cup Takes(m, n)
          /\ r.mini_used = acc.u.mini_used \cup TakesMini(m, n)
          /\ r.ready = (acc.u.ready \/ IsMini(n))
          /\ r.ready => EnsureMiniStream(m, Unresolved).ok
          /\ r.container = IF r.ready THEN EnsureMiniStream(m, Unresolved).container ELSE <<>>
      BY <2>4, <2>7 DEF Joins
    <3> HIDE DEF r
    <3> DEFINE v == acc.u
    <3> HIDE DEF v
    <3>2. /\ v.used = UNION {Takes(m, m.nodes[i]) : i \in P}
          /\ v.mini_used = UNION {TakesMini(m, m.nodes[i]) : i \in P}
          /\ v.ready = (\E i \in P : IsMini(m.nodes[i]))
      BY <2>3 DEF Holds, v
    <3>3. r.used = UNION {Takes(m, m.nodes[i]) : i \in Q}
      BY <2>2, <3>1, <3>2 DEF v
    <3>4. r.mini_used = UNION {TakesMini(m, m.nodes[i]) : i \in Q}
      BY <2>2, <3>1, <3>2 DEF v
    <3>5. r.ready = (\E i \in Q : IsMini(m.nodes[i]))
      <4>1. r.ready = (v.ready \/ IsMini(n))
        BY <3>1 DEF v
      <4>2. (\E i \in Q : IsMini(m.nodes[i])) = ((\E i \in P : IsMini(m.nodes[i])) \/ IsMini(n))
        BY <2>2
      <4> QED BY <3>2, <4>1, <4>2
    <3> QED BY <3>1, <3>3, <3>4, <3>5 DEF Holds
  <2>8. ASSUME r.ok
        PROVE  /\ new.nodes \in Seq(T)
               /\ ToSet(new.nodes) = {Alone(m, i) : i \in Q}
               /\ with_signature => Len(new.nodes) = k
    <3> DEFINE c == Alone(m, k)  s == acc.nodes
    <3>1. new.nodes = Append(s, c)
      BY <2>1, <2>7, <2>8 DEF Alone
    <3>2. s \in Seq(T) /\ c \in T
      BY <1>6 DEF Filled
    <3>3. ToSet(s) = {Alone(m, i) : i \in P}
      BY <1>6 DEF Filled, P
    <3> HIDE DEF c, s, T, new
    <3>4. ToSet(new.nodes) = ToSet(s) \cup {c}
      BY <3>1, <3>2, ToSetAppend
    <3>5. ToSet(new.nodes) = {Alone(m, i) : i \in Q}
      BY <2>2, <3>3, <3>4 DEF c
    <3>6. new.nodes \in Seq(T) /\ Len(new.nodes) = Len(s) + 1
      BY <3>1, <3>2
    <3>7. with_signature => Len(s) = k - 1
      BY <1>6 DEF Filled, s
    <3> QED BY <1>1, <3>5, <3>6, <3>7
  <2>9. new.u = r
    BY <2>1
  <2> HIDE DEF new, r
  <2> QED BY <2>5, <2>6, <2>7, <2>8, <2>9 DEF Filled, Q, new
<1> QED BY <1>4, <1>5, <1>6

\* Filling the nodes one after the other is well defined.
LEMMA FillSteps ==
  ASSUME NEW m, IsModel(m), NEW with_signature
  PROVE  \E fill : /\ Fill(m, with_signature) = fill[Len(m.nodes)]
                   /\ fill[0] = [u |-> Unresolved, nodes |-> <<>>]
                   /\ \A i \in 1..Len(m.nodes) :
                        fill[i] = AddNode(m, fill[i - 1], m.nodes[i], with_signature)
<1> DEFINE N == Len(m.nodes)
           first == [u |-> Unresolved, nodes |-> <<>>]
           Step(i, acc) == AddNode(m, acc, m.nodes[i], with_signature)
           Body(n, g) == [i \in 0..n |-> IF i = 0 THEN first ELSE Step(i, g[i - 1])]
           fill == CHOOSE g : g = Body(N, g)
           S == {n \in 0..N : \E f : f = Body(n, f)}
<1>1. N \in Nat
  BY DEF IsModel
<1>2. Fill(m, with_signature) = fill[N]
  BY DEF Fill
<1> HIDE DEF N, first, Step
<1>3. 0 \in S
  <2>1. 0 \in 0..N /\ \A i \in 0..0 : i = 0
    BY <1>1
  <2> DEFINE f == [i \in 0..0 |-> first]
  <2>2. f = Body(0, f)
    BY <2>1
  <2> QED BY <2>1, <2>2
<1>4. ASSUME NEW n \in 0..(N - 1), n \in S PROVE n + 1 \in S
  <2>1. PICK f : f = Body(n, f)
    BY <1>4
  <2> DEFINE g == [i \in 0..(n + 1) |-> IF i = n + 1 THEN Step(n + 1, f[n]) ELSE f[i]]
  <2>2. n \in Nat /\ n + 1 \in 0..N /\ n \in 0..n
    BY <1>1
  <2>3. \A i \in 0..n : f[i] = IF i = 0 THEN first ELSE Step(i, f[i - 1])
    <3>1. \A i \in 0..n : Body(n, f)[i] = IF i = 0 THEN first ELSE Step(i, f[i - 1])
      OBVIOUS
    <3> HIDE DEF Body
    <3> QED BY <2>1, <3>1
  <2>4. ASSUME NEW i \in 0..(n + 1)
        PROVE  g[i] = IF i = 0 THEN first ELSE Step(i, g[i - 1])
    <3>1. CASE i = n + 1
      <4>1. n \in 0..(n + 1) /\ n # n + 1 /\ n + 1 # 0 /\ (n + 1) - 1 = n
        BY <2>2
      <4>2. g[n] = f[n] /\ g[n + 1] = Step(n + 1, f[n])
        BY <2>2, <4>1
      <4> HIDE DEF g
      <4> QED BY <3>1, <4>1, <4>2
    <3>2. CASE i # n + 1
      <4>1. i \in 0..n /\ (i # 0 => i - 1 \in 0..(n + 1) /\ i - 1 # n + 1)
        BY <2>2, <3>2
      <4>2. g[i] = f[i] /\ (i # 0 => g[i - 1] = f[i - 1])
        BY <3>2, <4>1
      <4> HIDE DEF g
      <4> QED BY <2>3, <4>1, <4>2
    <3> QED BY <3>1, <3>2
  <2>5. g = Body(n + 1, g)
    <3>1. Body(n + 1, g) = [i \in 0..(n + 1) |-> IF i = 0 THEN first ELSE Step(i, g[i - 1])]
      OBVIOUS
    <3>2. g = [i \in 0..(n + 1) |-> g[i]]
      OBVIOUS
    <3> HIDE DEF g, Body
    <3> QED BY <2>4, <3>1, <3>2
  <2> HIDE DEF Body, g
  <2> QED BY <2>2, <2>5
<1> HIDE DEF S, Body
<1>5. 0..N \subseteq S
  BY <1>1, <1>3, <1>4, IntervalInduction, Zenon
<1>6. N \in S
  BY <1>1, <1>5
<1>7. fill = Body(N, fill)
  <2>1. \E f : f = Body(N, f)
    BY <1>6 DEF S
  <2> QED BY <2>1, Zenon
<1> HIDE DEF fill
<1>8. \A i \in 0..N : fill[i] = IF i = 0 THEN first ELSE Step(i, fill[i - 1])
  <2>1. \A i \in 0..N : Body(N, fill)[i] = IF i = 0 THEN first ELSE Step(i, fill[i - 1])
    BY DEF Body
  <2> QED BY <1>7, <2>1
<1>9. fill[0] = first /\ \A i \in 1..N : fill[i] = Step(i, fill[i - 1])
  <2>1. 0 \in 0..N /\ \A i \in 1..N : i \in 0..N /\ i # 0
    BY <1>1
  <2> QED BY <1>8, <2>1
<1> QED BY <1>2, <1>9 DEF N, first, Step

\* The contents of a package: its streams can be read together or not, and if so
\* each has the bytes it has alone.
LEMMA ContentsIs ==
  ASSUME NEW m, IsModel(m), NEW with_signature \in BOOLEAN
  PROVE  LET K == Kept(m, with_signature, Len(m.nodes))
             c == Contents(m, with_signature)
         IN  /\ c.ok <=> AllFit(m, K)
             /\ c.ok =>
                  /\ Holds(m, K, c.used)
                  /\ c.nodes \in Seq({Alone(m, i) : i \in 1..Len(m.nodes)})
                  /\ ToSet(c.nodes) = {Alone(m, i) : i \in K}
                  /\ with_signature => Len(c.nodes) = Len(m.nodes)
<1> DEFINE N == Len(m.nodes)
<1>1. N \in Nat
  BY DEF IsModel
<1>2. PICK fill : /\ Fill(m, with_signature) = fill[N]
                  /\ fill[0] = [u |-> Unresolved, nodes |-> <<>>]
                  /\ \A i \in 1..N :
                        fill[i] = AddNode(m, fill[i - 1], m.nodes[i], with_signature)
  BY FillSteps
<1> DEFINE S == {k \in 0..N : Filled(m, with_signature, k, fill[k])}
<1>3. 0 \in S
  <2>1. Kept(m, with_signature, 0) = {}
    BY DEF Kept
  <2>2. AllFit(m, {}) /\ Holds(m, {}, Unresolved) /\ Unresolved.ok
    BY NothingHeld DEF AllFit, Unresolved
  <2>3. ToSet(<<>>) = {} /\ Len(<<>>) = 0 /\ \A T : <<>> \in Seq(T)
    BY DEF ToSet
  <2>4. fill[0].u = Unresolved /\ fill[0].nodes = <<>>
    BY <1>2
  <2>5. Filled(m, with_signature, 0, fill[0])
    BY <2>1, <2>2, <2>3, <2>4 DEF Filled
  <2> QED BY <1>1, <2>5
<1>4. ASSUME NEW k \in 0..(N - 1), k \in S PROVE k + 1 \in S
  <2>1. k + 1 \in 1..N /\ k + 1 \in 0..N /\ (k + 1) - 1 = k
    BY <1>1
  <2>2. fill[k + 1] = AddNode(m, fill[k], m.nodes[k + 1], with_signature)
    BY <1>2, <2>1
  <2>3. Filled(m, with_signature, (k + 1) - 1, fill[k])
    BY <1>4, <2>1
  <2>4. Filled(m, with_signature, k + 1, fill[k + 1])
    BY <2>1, <2>2, <2>3, AddNodeIs
  <2> QED BY <2>1, <2>4
<1> HIDE DEF S
<1>5. 0..N \subseteq S
  BY <1>1, <1>3, <1>4, IntervalInduction, Zenon
<1>6. Filled(m, with_signature, N, Fill(m, with_signature))
  <2>1. N \in S
    BY <1>1, <1>5
  <2> QED BY <1>2, <2>1 DEF S
<1> QED BY <1>6 DEF Filled, Contents, ContentsOf

-----------------------------------------------------------------------------
(* The order of the entries. *)

\* A unit in upper case is a unit.
LEMMA UpperCaseType ==
  ASSUME NEW unit \in Nat
  PROVE  UpperCase(unit) \in Nat
BY DEF UpperCase

\* No name is less than itself in the format's order.
LEMMA NameLessIrreflexive ==
  ASSUME NEW a \in Seq(Nat)
  PROVE  ~NameLess(a, a)
<1>1. Len(a) \in Nat /\ \A i \in DOMAIN a : UpperCase(a[i]) \in Nat
  BY UpperCaseType
<1>2. ~(Len(a) < Len(a)) /\ \A i \in DOMAIN a : ~(UpperCase(a[i]) < UpperCase(a[i]))
  BY <1>1
<1> QED BY <1>2 DEF NameLess

\* The format's order of names is transitive.
LEMMA NameLessTransitive ==
  ASSUME NEW a \in Seq(Nat), NEW b \in Seq(Nat), NEW c \in Seq(Nat),
         NameLess(a, b), NameLess(b, c)
  PROVE  NameLess(a, c)
<1>1. Len(a) \in Nat /\ Len(b) \in Nat /\ Len(c) \in Nat
  OBVIOUS
<1>2. CASE Len(a) < Len(b) \/ Len(b) < Len(c)
  <2>1. Len(a) <= Len(b) /\ Len(b) <= Len(c)
    BY <1>1 DEF NameLess
  <2>2. Len(a) < Len(c)
    BY <1>1, <1>2, <2>1
  <2> QED BY <2>2 DEF NameLess
<1>3. CASE ~(Len(a) < Len(b)) /\ ~(Len(b) < Len(c))
  <2> DEFINE N == Len(a)
             u == [i \in 1..N |-> UpperCase(a[i])]
             v == [i \in 1..N |-> UpperCase(b[i])]
             w == [i \in 1..N |-> UpperCase(c[i])]
  <2>1. Len(b) = N /\ Len(c) = N
    BY <1>3 DEF NameLess
  <2>2. u \in [1..N -> Nat] /\ v \in [1..N -> Nat] /\ w \in [1..N -> Nat]
    <3>1. \A i \in 1..N : a[i] \in Nat /\ b[i] \in Nat /\ c[i] \in Nat
      BY <2>1
    <3> QED BY <3>1, UpperCaseType
  <2>3. PICK i \in 1..N : u[i] < v[i] /\ \A k \in 1..(i - 1) : u[k] = v[k]
    <3>1. PICK i \in DOMAIN a : /\ UpperCase(a[i]) < UpperCase(b[i])
                                /\ \A j \in 1..(i - 1) : UpperCase(a[j]) = UpperCase(b[j])
      BY <1>3 DEF NameLess
    <3>2. i \in 1..N /\ \A j \in 1..(i - 1) : j \in 1..N
      BY <1>1
    <3> QED BY <3>1, <3>2
  <2>4. PICK j \in 1..N : v[j] < w[j] /\ \A k \in 1..(j - 1) : v[k] = w[k]
    <3>1. PICK h \in DOMAIN b : /\ UpperCase(b[h]) < UpperCase(c[h])
                                /\ \A l \in 1..(h - 1) : UpperCase(b[l]) = UpperCase(c[l])
      BY <1>3 DEF NameLess
    <3>2. h \in 1..N /\ \A l \in 1..(h - 1) : l \in 1..N
      <4>1. DOMAIN b = 1..N
        BY <2>1
      <4>2. N \in Nat /\ h \in 1..N
        BY <1>1, <4>1
      <4> HIDE DEF N
      <4> QED BY <4>2
    <3> QED BY <3>1, <3>2
  <2> HIDE DEF u, v, w
  <2>5. \E k \in 1..N : u[k] < w[k] /\ \A l \in 1..(k - 1) : u[l] = w[l]
    <3>1. CASE i < j
      BY <1>1, <2>2, <2>3, <2>4, <3>1
    <3>2. CASE i = j
      <4>1. u[i] \in Nat /\ v[i] \in Nat /\ w[i] \in Nat
        BY <2>2
      <4>2. u[i] < w[i]
        BY <2>3, <2>4, <3>2, <4>1
      <4>3. \A l \in 1..(i - 1) : u[l] = w[l]
        BY <2>3, <2>4, <3>2
      <4> QED BY <4>2, <4>3
    <3>3. CASE j < i
      BY <1>1, <2>2, <2>3, <2>4, <3>3
    <3> QED BY <3>1, <3>2, <3>3
  <2>6. PICK k \in 1..N : u[k] < w[k] /\ \A l \in 1..(k - 1) : u[l] = w[l]
    BY <2>5
  <2>7. k \in DOMAIN a /\ \A l \in 1..(k - 1) : l \in 1..N
    BY <1>1
  <2>8. /\ UpperCase(a[k]) < UpperCase(c[k])
        /\ \A l \in 1..(k - 1) : UpperCase(a[l]) = UpperCase(c[l])
    BY <2>6, <2>7 DEF u, w
  <2> QED BY <2>1, <2>7, <2>8 DEF NameLess
<1> QED BY <1>2, <1>3

\* No path is less than itself.
LEMMA PathLessIrreflexive ==
  ASSUME NEW p \in Seq(Seq(Nat))
  PROVE  ~PathLess(p, p)
<1>1. Len(p) \in Nat
  OBVIOUS
<1>2. ASSUME NEW k \in 1..Len(p) PROVE ~NameLess(p[k], p[k])
  BY NameLessIrreflexive
<1> QED BY <1>1, <1>2 DEF PathLess

\* How p comes before q at level k.
Before(p, q, k) ==
  /\ k \in 1..Len(q) /\ k <= Len(p) + 1
  /\ \A i \in 1..(k - 1) : p[i] = q[i]
  /\ \/ k > Len(p)
     \/ k = Len(p) /\ k < Len(q) /\ p[k] # q[k]
     \/ k <= Len(p) /\ (k = Len(p) <=> k = Len(q)) /\ NameLess(p[k], q[k])

\* A path is less than another where one level tells them apart.
LEMMA PathLessIs ==
  ASSUME NEW p \in Seq(Seq(Nat)), NEW q \in Seq(Seq(Nat))
  PROVE  PathLess(p, q) <=> \E k \in Nat : Before(p, q, k)
<1>1. Len(p) \in Nat /\ Len(q) \in Nat
  OBVIOUS
<1>2. ASSUME PathLess(p, q) PROVE \E k \in Nat : Before(p, q, k)
  <2>1. PICK k \in 1..Len(q) :
          /\ k <= Len(p) + 1
          /\ \A i \in 1..(k - 1) : p[i] = q[i]
          /\ \/ k > Len(p)
             \/ k = Len(p) /\ k < Len(q) /\ p[k] # q[k]
             \/ (k = Len(p) <=> k = Len(q)) /\ NameLess(p[k], q[k])
    BY <1>2 DEF PathLess
  <2>2. k \in Nat /\ (k > Len(p) \/ k <= Len(p))
    BY <1>1
  <2> QED BY <2>1, <2>2 DEF Before
<1>3. ASSUME NEW k \in Nat, Before(p, q, k) PROVE PathLess(p, q)
  BY <1>3 DEF Before, PathLess
<1> QED BY <1>2, <1>3

\* The order of the paths is transitive.
LEMMA PathLessTransitive ==
  ASSUME NEW p \in Seq(Seq(Nat)), NEW q \in Seq(Seq(Nat)), NEW r \in Seq(Seq(Nat)),
         PathLess(p, q), PathLess(q, r)
  PROVE  PathLess(p, r)
<1>1. PICK k \in Nat : Before(p, q, k)
  BY PathLessIs
<1>2. PICK l \in Nat : Before(q, r, l)
  BY PathLessIs
<1> DEFINE P == Len(p)  Q == Len(q)  R == Len(r)
<1>3. P \in Nat /\ Q \in Nat /\ R \in Nat
  OBVIOUS
<1>4. \A i \in 1..P : p[i] \in Seq(Nat)
  OBVIOUS
<1>5. \A i \in 1..Q : q[i] \in Seq(Nat)
  OBVIOUS
<1>6. \A i \in 1..R : r[i] \in Seq(Nat)
  OBVIOUS
<1> DEFINE Less(a, b) == NameLess(a, b)
<1>7. \A a \in Seq(Nat) : ~Less(a, a)
  BY NameLessIrreflexive
<1>8. \A a, b, c \in Seq(Nat) : Less(a, b) /\ Less(b, c) => Less(a, c)
  BY NameLessTransitive
<1> HIDE DEF P, Q, R, Less
<1>9. /\ k \in 1..Q /\ k <= P + 1
      /\ \A i \in 1..(k - 1) : p[i] = q[i]
      /\ \/ k > P
         \/ k = P /\ k < Q /\ p[k] # q[k]
         \/ k <= P /\ (k = P <=> k = Q) /\ Less(p[k], q[k])
  BY <1>1 DEF Before, P, Q, Less
<1>10. /\ l \in 1..R /\ l <= Q + 1
       /\ \A i \in 1..(l - 1) : q[i] = r[i]
       /\ \/ l > Q
          \/ l = Q /\ l < R /\ q[l] # r[l]
          \/ l <= Q /\ (l = Q <=> l = R) /\ Less(q[l], r[l])
  BY <1>2 DEF Before, Q, R, Less
<1> DEFINE B(n) == /\ n \in 1..R /\ n <= P + 1
                   /\ \A i \in 1..(n - 1) : p[i] = r[i]
                   /\ \/ n > P
                      \/ n = P /\ n < R /\ p[n] # r[n]
                      \/ n <= P /\ (n = P <=> n = R) /\ Less(p[n], r[n])
<1> SUFFICES \E n \in Nat : B(n)
  <2>1. ASSUME NEW n \in Nat, B(n) PROVE Before(p, r, n)
    BY <2>1 DEF Before, P, R, Less
  <2> HIDE DEF B
  <2> QED BY <2>1, PathLessIs
<1>11. CASE k > P
  <2>1. k = P + 1 /\ P < Q
    BY <1>3, <1>9, <1>11
  <2>2. CASE l > P
    <3>1. P + 1 \in 1..R /\ \A i \in 1..P : p[i] = r[i]
      BY <1>3, <1>9, <1>10, <2>1, <2>2
    <3>2. B(P + 1) /\ P + 1 \in Nat
      BY <1>3, <3>1
    <3> QED BY <3>2
  <2>3. CASE l <= P
    <3>1. l < Q /\ l < R /\ Less(q[l], r[l]) /\ p[l] = q[l] /\ r[l] \in Seq(Nat)
      BY <1>3, <1>6, <1>9, <1>10, <2>1, <2>3
    <3>2. p[l] # r[l]
      BY <1>7, <3>1
    <3>3. \A i \in 1..(l - 1) : p[i] = r[i]
      BY <1>3, <1>9, <1>10, <2>1, <2>3
    <3>4. Less(p[l], r[l])
      BY <3>1
    <3>5. B(l)
      BY <1>3, <1>10, <2>3, <3>1, <3>2, <3>3, <3>4
    <3> QED BY <3>5
  <2> QED BY <1>3, <2>2, <2>3
<1>12. CASE k <= P /\ l < k
  <2>1. l < Q /\ l < R /\ l < P /\ Less(q[l], r[l]) /\ p[l] = q[l]
    BY <1>3, <1>9, <1>10, <1>12
  <2>2. \A i \in 1..(l - 1) : p[i] = r[i]
    BY <1>3, <1>9, <1>10, <1>12
  <2>3. Less(p[l], r[l])
    BY <2>1
  <2>4. B(l)
    BY <1>3, <1>10, <2>1, <2>2, <2>3
  <2> QED BY <2>4
<1>13. CASE k <= P /\ k <= l
  <2>1. \A i \in 1..(k - 1) : p[i] = r[i]
    BY <1>3, <1>9, <1>10, <1>13
  <2>2. k \in 1..R
    BY <1>3, <1>9, <1>10, <1>13
  <2>3. p[k] \in Seq(Nat) /\ q[k] \in Seq(Nat) /\ r[k] \in Seq(Nat)
    BY <1>3, <1>4, <1>5, <1>6, <1>9, <1>13, <2>2
  <2>4. CASE k = P /\ k < R
    <3>1. CASE p[k] # r[k]
      <4>1. B(k)
        BY <1>3, <2>1, <2>2, <2>4, <3>1
      <4> QED BY <4>1
    <3>2. CASE p[k] = r[k]
      <4>1. P + 1 \in 1..R /\ \A i \in 1..P : p[i] = r[i]
        <5>1. \A i \in 1..P : i \in 1..(k - 1) \/ i = k
          BY <1>3, <2>4
        <5>2. P + 1 \in 1..R
          BY <1>3, <2>4
        <5> QED BY <2>1, <3>2, <5>1, <5>2
      <4>2. B(P + 1) /\ P + 1 \in Nat
        BY <1>3, <4>1
      <4> QED BY <4>2
    <3> QED BY <3>1, <3>2
  <2>5. CASE ~(k = P /\ k < R)
    <3>1. k = P <=> k = R
      BY <1>3, <1>9, <1>10, <1>13, <2>5
    <3>2. Less(p[k], q[k])
      BY <1>3, <1>9, <1>10, <1>13, <2>5
    <3>3. CASE k = l
      <4>1. Less(q[k], r[k])
        BY <1>3, <1>9, <1>10, <1>13, <2>5, <3>1, <3>3
      <4>2. Less(p[k], r[k])
        BY <1>8, <2>3, <3>2, <4>1
      <4>3. B(k)
        BY <1>3, <1>13, <2>1, <2>2, <3>1, <4>2
      <4> QED BY <4>3
    <3>4. CASE k < l
      <4>1. q[k] = r[k]
        BY <1>3, <1>9, <1>10, <3>4
      <4>2. B(k)
        BY <1>3, <1>13, <2>1, <2>2, <3>1, <3>2, <4>1
      <4> QED BY <4>2
    <3> QED BY <1>13, <3>3, <3>4
  <2> QED BY <2>4, <2>5
<1> QED BY <1>3, <1>11, <1>12, <1>13

\* A strict order in which any two of the elements come one after the other.
StrictOrder(E, R) ==
  /\ \A e \in E : <<e, e>> \notin R
  /\ \A c, d, e \in E : <<c, d>> \in R /\ <<d, e>> \in R => <<c, e>> \in R
  /\ \A d, e \in E : d # e => <<d, e>> \in R \/ <<e, d>> \in R

\* How many of the elements come before one of them.
Rank(E, R, e) == Cardinality({d \in E : <<d, e>> \in R})

\* Each place has exactly one element that comes after as many as the place says.
LEMMA Ranks ==
  ASSUME NEW E, IsFiniteSet(E), NEW R, StrictOrder(E, R)
  PROVE  /\ \A k \in 1..Cardinality(E) : \E e \in E : Rank(E, R, e) = k - 1
         /\ \A e \in E : Rank(E, R, e) + 1 \in 1..Cardinality(E)
         /\ \A c, e \in E : Rank(E, R, c) = Rank(E, R, e) => c = e
<1> DEFINE N == Cardinality(E)
           Below(e) == {d \in E : <<d, e>> \in R}
           rank == [e \in E |-> Cardinality(Below(e))]
           T == 0..(N - 1)
<1>1. N \in Nat
  BY FS_CardinalityType
<1>2. ASSUME NEW e \in E
      PROVE  /\ IsFiniteSet(Below(e)) /\ Cardinality(Below(e)) \in Nat
             /\ Cardinality(Below(e)) < N
  <2>1. Below(e) \in SUBSET E /\ e \notin Below(e)
    BY DEF StrictOrder
  <2> HIDE DEF Below
  <2>2. IsFiniteSet(Below(e)) /\ Cardinality(Below(e)) <= N
        /\ (N = Cardinality(Below(e)) => E = Below(e))
    BY <2>1, FS_Subset
  <2>3. Cardinality(Below(e)) \in Nat
    BY <2>2, FS_CardinalityType
  <2> QED BY <1>1, <2>1, <2>2, <2>3
<1>3. ASSUME NEW c \in E, NEW e \in E, <<c, e>> \in R
      PROVE  Cardinality(Below(c)) # Cardinality(Below(e))
  <2>1. Below(c) \in SUBSET Below(e) /\ c \in Below(e) /\ c \notin Below(c)
    BY <1>3 DEF StrictOrder
  <2>2. IsFiniteSet(Below(e))
    BY <1>2
  <2> HIDE DEF Below
  <2>3. Cardinality(Below(e)) = Cardinality(Below(c)) => Below(e) = Below(c)
    BY <2>1, <2>2, FS_Subset
  <2> QED BY <2>1, <2>3
<1>4. ASSUME NEW c \in E, NEW e \in E, Cardinality(Below(c)) = Cardinality(Below(e))
      PROVE  c = e
  <2> HIDE DEF Below
  <2> QED BY <1>3, <1>4 DEF StrictOrder
<1> HIDE DEF Below
<1>5. rank \in [E -> T]
  BY <1>1, <1>2
<1>6. rank \in Injection(E, T)
  BY <1>4, <1>5 DEF Injection, IsInjective
<1>7. IsFiniteSet(T) /\ Cardinality(T) = N
  <2>1. 0 \in Int /\ N - 1 \in Int
    BY <1>1
  <2>2. IsFiniteSet(T) /\ Cardinality(T) = IF 0 > N - 1 THEN 0 ELSE (N - 1) - 0 + 1
    BY <2>1, FS_Interval
  <2> QED BY <1>1, <2>2
<1> HIDE DEF rank, T
<1>8. rank \in Surjection(E, T)
  BY <1>6, <1>7, FS_Injection
<1>9. ASSUME NEW k \in 1..N PROVE \E e \in E : Cardinality(Below(e)) = k - 1
  <2>1. k - 1 \in T
    BY <1>1 DEF T
  <2>2. \E e \in E : rank[e] = k - 1
    BY <1>8, <2>1 DEF Surjection
  <2> QED BY <2>2 DEF rank
<1>10. ASSUME NEW e \in E PROVE Cardinality(Below(e)) + 1 \in 1..N
  BY <1>1, <1>2
<1>11. \A e \in E : Rank(E, R, e) = Cardinality(Below(e))
  BY DEF Rank, Below
<1> QED BY <1>4, <1>9, <1>10, <1>11

\* What a sequence holds is finite, and no more than its length.
LEMMA ToSetFinite ==
  ASSUME NEW S, NEW s \in Seq(S)
  PROVE  /\ IsFiniteSet(ToSet(s)) /\ Cardinality(ToSet(s)) \in Nat
         /\ Len(s) = Cardinality(ToSet(s)) => \A i, j \in 1..Len(s) : s[i] = s[j] => i = j
<1> DEFINE n == Len(s)  T == ToSet(s)
<1>1. n \in Nat /\ s \in [1..n -> S] /\ DOMAIN s = 1..n
  OBVIOUS
<1>2. s \in Surjection(1..n, T)
  <2>1. s \in [1..n -> T]
    BY <1>1 DEF ToSet
  <2>2. \A t \in T : \E i \in 1..n : s[i] = t
    BY <1>1 DEF ToSet
  <2> QED BY <2>1, <2>2 DEF Surjection
<1>3. IsFiniteSet(1..n) /\ Cardinality(1..n) = n
  <2>1. 1 \in Int /\ n \in Int
    BY <1>1
  <2>2. IsFiniteSet(1..n) /\ Cardinality(1..n) = IF 1 > n THEN 0 ELSE n - 1 + 1
    BY <2>1, FS_Interval
  <2> QED BY <1>1, <2>2
<1> HIDE DEF n, T
<1>4. IsFiniteSet(T) /\ (Cardinality(T) = Cardinality(1..n) <=> s \in Injection(1..n, T))
  BY <1>2, <1>3, FS_Surjection
<1>5. Cardinality(T) \in Nat
  BY <1>4, FS_CardinalityType
<1>6. ASSUME n = Cardinality(T) PROVE \A i, j \in 1..n : s[i] = s[j] => i = j
  <2>1. s \in Injection(1..n, T)
    BY <1>3, <1>4, <1>6
  <2> QED BY <2>1 DEF Injection, IsInjective
<1> QED BY <1>4, <1>5, <1>6 DEF n, T

\* Entries of which no two have one name in one storage.
ToldApart(E) ==
  /\ \A e \in E : e.path \in Seq(Seq(Nat))
  /\ \A d, e \in E : d # e => PathLess(d.path, e.path) \/ PathLess(e.path, d.path)

\* The entries are those of the run, each at one position.
LEMMA ExpandIs ==
  ASSUME NEW S, NEW nodes \in Seq(S), ToldApart(ToSet(nodes))
  PROVE  /\ Len(Expand(nodes)) = Cardinality(ToSet(nodes))
         /\ Expand(nodes) \in Seq(ToSet(nodes))
         /\ ToSet(Expand(nodes)) = ToSet(nodes)
         /\ \A k \in 1..Len(Expand(nodes)) : Expand(nodes)[k].path = <<>> => k = 1
<1> DEFINE E == ToSet(nodes)
           N == Cardinality(E)
           R == {x \in E \X E : PathLess(x[1].path, x[2].path)}
           s == Expand(nodes)
<1>1. IsFiniteSet(E) /\ N \in Nat
  BY ToSetFinite
<1>2. \A d, e \in E : <<d, e>> \in R <=> PathLess(d.path, e.path)
  OBVIOUS
<1>3. \A e \in E : e.path \in Seq(Seq(Nat))
  BY DEF ToldApart
<1>4. StrictOrder(E, R)
  <2> HIDE DEF E, R
  <2>1. ASSUME NEW e \in E PROVE <<e, e>> \notin R
    BY <1>2, <1>3, PathLessIrreflexive
  <2>2. ASSUME NEW c \in E, NEW d \in E, NEW e \in E, <<c, d>> \in R, <<d, e>> \in R
        PROVE  <<c, e>> \in R
    BY <1>2, <1>3, <2>2, PathLessTransitive
  <2>3. ASSUME NEW d \in E, NEW e \in E, d # e PROVE <<d, e>> \in R \/ <<e, d>> \in R
    BY <1>2, <2>3 DEF ToldApart, E
  <2> QED BY <2>1, <2>2, <2>3 DEF StrictOrder
<1>5. \A e \in E : {d \in E : PathLess(d.path, e.path)} = {d \in E : <<d, e>> \in R}
  BY <1>2
<1> DEFINE rank(e) == Rank(E, R, e)
<1>6. s = [k \in 1..N |-> CHOOSE e \in E : rank(e) = k - 1]
  <2> DEFINE other(e) == Cardinality({d \in E : PathLess(d.path, e.path)})
  <2>1. s = [k \in 1..N |-> CHOOSE e \in E : other(e) = k - 1]
    BY DEF Expand, Ranked
  <2>2. \A e \in E : other(e) = rank(e)
    BY <1>5 DEF Rank
  <2> HIDE DEF other, rank, E, s
  <2>3. \A k : (CHOOSE e \in E : other(e) = k - 1) = (CHOOSE e \in E : rank(e) = k - 1)
    BY <2>2
  <2> QED BY <2>1, <2>3
<1>6a. ASSUME NEW e \in E, e.path = <<>> PROVE rank(e) = 0
  <2>1. {d \in E : <<d, e>> \in R} = {}
    BY <1>6a DEF PathLess
  <2> QED BY <2>1, FS_EmptySet DEF Rank
<1> HIDE DEF R
<1>7. /\ \A k \in 1..N : \E e \in E : rank(e) = k - 1
      /\ \A e \in E : rank(e) + 1 \in 1..N
      /\ \A c, e \in E : rank(c) = rank(e) => c = e
  BY <1>1, <1>4, Ranks
<1>8. \A e \in E : rank(e) \in Nat
  <2>1. \A e \in E : {d \in E : <<d, e>> \in R} \in SUBSET E
    OBVIOUS
  <2>2. \A e \in E : IsFiniteSet({d \in E : <<d, e>> \in R})
    BY <1>1, <2>1, FS_Subset
  <2> QED BY <2>2, FS_CardinalityType DEF Rank
<1> HIDE DEF E, N, rank, s
<1>9. ASSUME NEW k \in 1..N PROVE s[k] \in E /\ rank(s[k]) = k - 1
  BY <1>6, <1>7
<1>10. ASSUME NEW e \in E PROVE \E k \in 1..N : s[k] = e
  <2> DEFINE k == rank(e) + 1
  <2>1. k \in 1..N /\ k - 1 = rank(e)
    BY <1>7, <1>8
  <2> HIDE DEF k
  <2>2. s[k] \in E /\ rank(s[k]) = rank(e)
    BY <1>9, <2>1
  <2> QED BY <1>7, <2>1, <2>2
<1>11. DOMAIN s = 1..N /\ s \in [1..N -> E]
  BY <1>6, <1>9
<1>12. s \in Seq(E) /\ Len(s) = N
  BY <1>1, <1>11
<1>13. ToSet(s) = E
  BY <1>9, <1>10, <1>11 DEF ToSet
<1>14. ASSUME NEW k \in 1..N, s[k].path = <<>> PROVE k = 1
  <2>1. s[k] \in E /\ rank(s[k]) = k - 1
    BY <1>9
  <2>2. rank(s[k]) = 0
    BY <1>6a, <1>14, <2>1
  <2> QED BY <1>1, <2>1, <2>2
<1> QED BY <1>12, <1>13, <1>14 DEF s, E, N

-----------------------------------------------------------------------------
(* What the writer makes is an image. *)

\* The larger of a number and zero.
LEMMA MaxWithZero ==
  ASSUME NEW n \in Int
  PROVE  Max({n, 0}) \in Nat
<1> DEFINE S == {n, 0}
<1>1. \E x \in S : \A y \in S : x >= y
  BY DEF S
<1>2. Max(S) \in S /\ \A y \in S : Max(S) >= y
  <2> HIDE DEF S
  <2> QED BY <1>1 DEF Max
<1> HIDE DEF Max
<1>3. PICK x \in S : x = Max(S) /\ \A y \in S : x >= y
  BY <1>2
<1> QED BY <1>3

\* The sectors of the extended index are a number.
LEMMA DifatSectorsType ==
  ASSUME NEW fat \in Nat, NEW per \in Nat \ {0, 1}
  PROVE  DifatSectors(fat, per) \in Nat
<1>1. fat - HeaderDifatEntries \in Int
  BY LayoutAssumption
<1>2. Max({fat - HeaderDifatEntries, 0}) \in Nat
  BY <1>1, MaxWithZero
<1>3. per - 1 \in Nat /\ per - 1 # 0
  OBVIOUS
<1> QED BY <1>2, <1>3, UnitsForType DEF DifatSectors

\* A turn towards the size of the FAT gives a number.
LEMMA NextFatType ==
  ASSUME NEW others \in Nat, NEW per \in Nat \ {0, 1}, NEW fat \in Nat
  PROVE  NextFat(others, per, fat) \in Nat
<1>1. others + DifatSectors(fat, per) + fat \in Nat /\ per # 0
  BY DifatSectorsType
<1> QED BY <1>1, UnitsForType DEF NextFat

\* And so do all turns.
LEMMA FatSectorsType ==
  ASSUME NEW others \in Nat, NEW per \in Nat \ {0, 1}
  PROVE  FatSectors(others, per) \in Nat
<1> DEFINE N == FatTurns
           Body(g) == [i \in 0..N |-> IF i = 0 THEN 0 ELSE NextFat(others, per, g[i - 1])]
           step == [i \in 1..N |-> [v \in Nat |-> NextFat(others, per, v)]]
           fat == CHOOSE g : g = Body(g)
<1>1. N \in Nat /\ 0 \in Nat
  BY LayoutAssumption
<1>2. FatSectors(others, per) = fat[N]
  BY DEF FatSectors
<1>3. step \in [1..N -> [Nat -> Nat]]
  BY NextFatType
<1> HIDE DEF N, step
<1>4. PICK f \in [0..N -> Nat] : f[0] = 0 /\ \A i \in 1..N : f[i] = step[i][f[i - 1]]
  <2>1. Iterable(N, Nat, 0, step)
    BY <1>1, <1>3, Iteration, Zenon
  <2> QED BY <2>1, Zenon DEF Iterable
<1>5. ASSUME NEW i \in 1..N PROVE f[i] = NextFat(others, per, f[i - 1])
  <2>1. i - 1 \in 0..N
    BY <1>1
  <2> QED BY <1>4, <2>1 DEF step
<1>6. f = Body(f)
  <2>1. ASSUME NEW i \in 0..N PROVE f[i] = Body(f)[i]
    <3>1. i # 0 => i \in 1..N
      BY <1>1
    <3> QED BY <1>4, <1>5, <3>1
  <2> QED BY <2>1
<1>7. fat = Body(fat)
  <2> HIDE DEF Body
  <2> QED BY <1>6, Zenon
<1> HIDE DEF fat
<1>8. \A i \in 0..N : fat[i] = IF i = 0 THEN 0 ELSE NextFat(others, per, fat[i - 1])
  <2>1. \A i \in 0..N : Body(fat)[i] = IF i = 0 THEN 0 ELSE NextFat(others, per, fat[i - 1])
    BY DEF Body
  <2> HIDE DEF Body
  <2> QED BY <1>7, <2>1
<1> DEFINE S == {i \in 0..N : fat[i] \in Nat}
<1>9. 0 \in S
  BY <1>1, <1>8
<1>10. ASSUME NEW i \in 0..(N - 1), i \in S PROVE i + 1 \in S
  <2>1. i + 1 \in 0..N /\ (i + 1) - 1 = i /\ i + 1 # 0
    BY <1>1
  <2>2. fat[i + 1] = NextFat(others, per, fat[i]) /\ fat[i] \in Nat
    BY <1>8, <1>10, <2>1
  <2> QED BY <2>1, <2>2, NextFatType
<1> HIDE DEF S
<1>11. 0..N \subseteq S
  BY <1>1, <1>9, <1>10, IntervalInduction, Zenon
<1>12. N \in 0..N
  BY <1>1
<1> QED BY <1>2, <1>11, <1>12 DEF S

\* The entries that are written.
IsEntry(e) ==
  /\ e.name \in Seq(Nat) /\ e.path \in Seq(Seq(Nat)) /\ e.class \in Nat /\ e.meta \in Nat
  /\ e.bytes \in Seq(ToSet(e.bytes))

\* The units before an entry are a number.
LEMMA UnitsBeforeType ==
  ASSUME NEW S, NEW entries \in Seq(S), \A e \in S : IsEntry(e), NEW k \in 1..(Len(entries) + 1),
         NEW unit \in Nat \ {0}, NEW small
  PROVE  UnitsBefore(entries, k, unit, small) \in Nat
<1> DEFINE N == k - 1
           Add(j) == IF Small(entries[j]) = small THEN UnitsFor(Len(entries[j].bytes), unit) ELSE 0
           Body(g) == [i \in 0..N |-> IF i = 0 THEN 0 ELSE g[i - 1] + Add(i)]
           step == [i \in 1..N |-> [v \in Nat |-> v + Add(i)]]
           units == CHOOSE g : g = Body(g)
<1>1. N \in Nat /\ N <= Len(entries) /\ 0 \in Nat
  OBVIOUS
<1>2. UnitsBefore(entries, k, unit, small) = units[N]
  BY DEF UnitsBefore
<1>3. ASSUME NEW i \in 1..N PROVE Add(i) \in Nat
  <2>1. i \in 1..Len(entries)
    BY <1>1
  <2>2. entries[i] \in S
    BY <2>1
  <2>3. entries[i].bytes \in Seq(ToSet(entries[i].bytes))
    BY <2>2 DEF IsEntry
  <2>4. Len(entries[i].bytes) \in Nat
    BY <2>3, ElementType, Zenon
  <2>5. UnitsFor(Len(entries[i].bytes), unit) \in Nat
    BY <2>4, UnitsForType
  <2> QED BY <2>5
<1> HIDE DEF N, Add
<1>4. step \in [1..N -> [Nat -> Nat]]
  BY <1>3
<1> HIDE DEF step
<1>5. PICK f \in [0..N -> Nat] : f[0] = 0 /\ \A i \in 1..N : f[i] = step[i][f[i - 1]]
  <2>1. Iterable(N, Nat, 0, step)
    BY <1>1, <1>4, Iteration, Zenon
  <2> QED BY <2>1, Zenon DEF Iterable
<1>6. ASSUME NEW i \in 1..N PROVE f[i] = f[i - 1] + Add(i)
  <2>1. i - 1 \in 0..N
    BY <1>1
  <2> QED BY <1>5, <2>1 DEF step
<1>7. f = Body(f)
  <2>1. ASSUME NEW i \in 0..N PROVE f[i] = Body(f)[i]
    <3>1. i # 0 => i \in 1..N
      BY <1>1
    <3> QED BY <1>5, <1>6, <3>1
  <2> QED BY <2>1
<1>8. units = Body(units)
  <2> HIDE DEF Body
  <2> QED BY <1>7, Zenon
<1> HIDE DEF units
<1>9. \A i \in 0..N : units[i] = IF i = 0 THEN 0 ELSE units[i - 1] + Add(i)
  <2>1. \A i \in 0..N : Body(units)[i] = IF i = 0 THEN 0 ELSE units[i - 1] + Add(i)
    BY DEF Body
  <2> HIDE DEF Body
  <2> QED BY <1>8, <2>1
<1> DEFINE T == {i \in 0..N : units[i] \in Nat}
<1>10. 0 \in T
  BY <1>1, <1>9
<1>11. ASSUME NEW i \in 0..(N - 1), i \in T PROVE i + 1 \in T
  <2>1. i + 1 \in 0..N /\ i + 1 \in 1..N /\ (i + 1) - 1 = i /\ i + 1 # 0
    BY <1>1
  <2>2. units[i + 1] = units[i] + Add(i + 1) /\ units[i] \in Nat
    BY <1>9, <1>11, <2>1
  <2>3. Add(i + 1) \in Nat
    BY <1>3, <2>1
  <2> QED BY <2>1, <2>2, <2>3
<1> HIDE DEF T
<1>12. 0..N \subseteq T
  BY <1>1, <1>10, <1>11, IntervalInduction, Zenon
<1>13. N \in 0..N
  BY <1>1
<1> QED BY <1>2, <1>12, <1>13 DEF T

RangeType == [low : Nat, high : Nat]

\* Half of a range is a range.
LEMMA HalfType ==
  ASSUME NEW place \in Nat, NEW range \in RangeType
  PROVE  Half(place, range) \in RangeType
<1>1. range.low \in Nat /\ range.high \in Nat
  BY DEF RangeType
<1>2. Middle(range.low, range.high) \in Nat
  BY <1>1, Division DEF Middle
<1> HIDE DEF Middle
<1>3. CASE place = Middle(range.low, range.high)
  BY <1>3 DEF Half
<1>4. CASE place # Middle(range.low, range.high)
  <2>1. /\ [range EXCEPT !.high = Middle(range.low, range.high)] \in RangeType
        /\ [range EXCEPT !.low = Middle(range.low, range.high) + 1] \in RangeType
    BY <1>2 DEF RangeType
  <2> QED BY <1>4, <2>1 DEF Half
<1> QED BY <1>3, <1>4

\* The range of a subtree.
LEMMA SubtreeType ==
  ASSUME NEW count \in Nat, NEW place \in Nat
  PROVE  Subtree(count, place) \in RangeType
<1> DEFINE first == [low |-> 0, high |-> count]
           Body(g) == [i \in 0..count |-> IF i = 0 THEN first ELSE Half(place, g[i - 1])]
           step == [i \in 1..count |-> [v \in RangeType |-> Half(place, v)]]
           range == CHOOSE g : g = Body(g)
<1>1. first \in RangeType
  BY DEF RangeType
<1>2. Subtree(count, place) = range[count]
  BY DEF Subtree
<1>3. step \in [1..count -> [RangeType -> RangeType]]
  BY HalfType
<1> HIDE DEF first, step
<1>4. PICK f \in [0..count -> RangeType] :
        f[0] = first /\ \A i \in 1..count : f[i] = step[i][f[i - 1]]
  <2>1. Iterable(count, RangeType, first, step)
    BY <1>1, <1>3, Iteration, Zenon
  <2> QED BY <2>1, Zenon DEF Iterable
<1>5. ASSUME NEW i \in 1..count PROVE f[i] = Half(place, f[i - 1])
  <2>1. i - 1 \in 0..count
    OBVIOUS
  <2> QED BY <1>4, <2>1 DEF step
<1>6. f = Body(f)
  <2>1. ASSUME NEW i \in 0..count PROVE f[i] = Body(f)[i]
    <3>1. i # 0 => i \in 1..count
      OBVIOUS
    <3> QED BY <1>4, <1>5, <3>1
  <2> QED BY <2>1
<1>7. range = Body(range)
  <2> HIDE DEF Body
  <2> QED BY <1>6, Zenon
<1> HIDE DEF range
<1>8. \A i \in 0..count : range[i] = IF i = 0 THEN first ELSE Half(place, range[i - 1])
  <2>1. \A i \in 0..count : Body(range)[i] = IF i = 0 THEN first ELSE Half(place, range[i - 1])
    BY DEF Body
  <2> HIDE DEF Body
  <2> QED BY <1>7, <2>1
<1> DEFINE S == {i \in 0..count : range[i] \in RangeType}
<1>9. 0 \in S
  BY <1>1, <1>8
<1>10. ASSUME NEW i \in 0..(count - 1), i \in S PROVE i + 1 \in S
  <2>1. i + 1 \in 0..count /\ (i + 1) - 1 = i /\ i + 1 # 0
    OBVIOUS
  <2>2. range[i + 1] = Half(place, range[i]) /\ range[i] \in RangeType
    BY <1>8, <1>10, <2>1
  <2> QED BY <2>1, <2>2, HalfType
<1> HIDE DEF S
<1>11. 0..count \subseteq S
  BY <1>9, <1>10, IntervalInduction, Zenon
<1>12. count \in 0..count
  OBVIOUS
<1> QED BY <1>2, <1>11, <1>12 DEF S

\* Sequences one after the other are a sequence.
LEMMA FlattenType ==
  ASSUME NEW T, NEW s \in Seq(Seq(T))
  PROVE  FlattenSeq(s) \in Seq(T)
<1>1. CASE Len(s) = 0
  <2>1. s = <<>> /\ <<>> \in Seq(T)
    BY <1>1
  <2> QED BY <1>1, <2>1 DEF FlattenSeq
<1>2. CASE Len(s) # 0
  <2> DEFINE L == Len(s)
             N == L - 1
             V == Seq(T)
             Body(g) == [i \in 1..L |-> IF i = 1 THEN s[i] ELSE g[i - 1] \o s[i]]
             step == [i \in 1..N |-> [v \in V |-> v \o s[i + 1]]]
             flat == CHOOSE g : g = Body(g)
  <2>1. L \in Nat /\ N \in Nat /\ L = N + 1 /\ \A i \in 1..L : s[i] \in V
    BY <1>2
  <2>2. FlattenSeq(s) = flat[L]
    BY <1>2 DEF FlattenSeq
  <2>3. step \in [1..N -> [V -> V]]
    <3>1. ASSUME NEW i \in 1..N, NEW v \in V PROVE v \o s[i + 1] \in V
      <4>1. i + 1 \in 1..L
        BY <2>1
      <4>2. s[i + 1] \in V
        BY <2>1, <4>1
      <4> QED BY <4>2
    <3> HIDE DEF V, N
    <3> QED BY <3>1
  <2>4. s[1] \in V
    <3>1. 1 \in 1..L
      BY <2>1
    <3> QED BY <2>1, <3>1
  <2> HIDE DEF L, N, V, step
  <2>5. PICK f \in [0..N -> V] : f[0] = s[1] /\ \A i \in 1..N : f[i] = step[i][f[i - 1]]
    <3>1. Iterable(N, V, s[1], step)
      BY <2>1, <2>3, <2>4, Iteration, Zenon
    <3> QED BY <3>1, Zenon DEF Iterable
  <2>6. ASSUME NEW i \in 1..N PROVE f[i] = f[i - 1] \o s[i + 1]
    <3>1. i - 1 \in 0..N
      BY <2>1
    <3>2. f[i - 1] \in V
      BY <2>5, <3>1
    <3>3. step[i][f[i - 1]] = f[i - 1] \o s[i + 1]
      BY <3>2 DEF step
    <3> QED BY <2>5, <3>3
  <2> DEFINE g == [i \in 1..L |-> f[i - 1]]
  <2>7. g = Body(g)
    <3>1. ASSUME NEW i \in 1..L PROVE g[i] = IF i = 1 THEN s[i] ELSE g[i - 1] \o s[i]
      <4>1. CASE i = 1
        BY <2>5, <4>1
      <4>2. CASE i # 1
        <5>1. i - 1 \in 1..N /\ i - 1 \in 1..L /\ (i - 1) + 1 = i
          BY <2>1, <4>2
        <5>2. f[i - 1] = f[(i - 1) - 1] \o s[i]
          BY <2>6, <5>1
        <5>3. g[i] = f[i - 1] /\ g[i - 1] = f[(i - 1) - 1]
          BY <5>1
        <5> HIDE DEF g
        <5> QED BY <4>2, <5>2, <5>3
      <4> QED BY <4>1, <4>2
    <3>2. g = [i \in 1..L |-> g[i]]
      OBVIOUS
    <3>3. Body(g) = [i \in 1..L |-> IF i = 1 THEN s[i] ELSE g[i - 1] \o s[i]]
      OBVIOUS
    <3> HIDE DEF g, Body
    <3> QED BY <3>1, <3>2, <3>3
  <2> HIDE DEF g
  <2>8. flat = Body(flat)
    <3> HIDE DEF Body
    <3> QED BY <2>7, Zenon
  <2> HIDE DEF flat
  <2>9. \A i \in 1..L : flat[i] = IF i = 1 THEN s[i] ELSE flat[i - 1] \o s[i]
    <3>1. \A i \in 1..L : Body(flat)[i] = IF i = 1 THEN s[i] ELSE flat[i - 1] \o s[i]
      BY DEF Body
    <3> HIDE DEF Body
    <3> QED BY <2>8, <3>1
  <2> DEFINE S == {i \in 0..N : flat[i + 1] \in V}
  <2>10. 0 \in S
    <3>1. 1 \in 1..L /\ 0 + 1 = 1 /\ 0 \in 0..N
      BY <2>1
    <3> QED BY <2>4, <2>9, <3>1
  <2>11. ASSUME NEW i \in 0..(N - 1), i \in S PROVE i + 1 \in S
    <3>1. i + 1 \in 0..N /\ (i + 1) + 1 \in 1..L /\ (i + 1) + 1 # 1 /\ ((i + 1) + 1) - 1 = i + 1
      BY <2>1
    <3>2. flat[(i + 1) + 1] = flat[i + 1] \o s[(i + 1) + 1]
      BY <2>9, <3>1
    <3>3. flat[i + 1] \in V /\ s[(i + 1) + 1] \in V
      BY <2>1, <2>11, <3>1
    <3>4. flat[(i + 1) + 1] \in V
      BY <3>2, <3>3 DEF V
    <3> QED BY <3>1, <3>4
  <2> HIDE DEF S
  <2>12. 0..N \subseteq S
    BY <2>1, <2>10, <2>11, IntervalInduction, Zenon
  <2>13. N \in 0..N
    BY <2>1
  <2> QED BY <2>1, <2>2, <2>12, <2>13 DEF S, V
<1> QED BY <1>1, <1>2

\* A sequence cut into pieces is a sequence of sequences.
LEMMA PagesType ==
  ASSUME NEW T, NEW s \in Seq(T), NEW count \in Nat, NEW size \in Nat \ {0}, NEW pad \in T
  PROVE  Pages(s, count, size, pad) \in Seq(Seq(T))
<1>1. ASSUME NEW k \in 1..count
      PROVE  [i \in 1..size |-> At(s, (k - 1) * size + i - 1, pad)] \in Seq(T)
  <2>1. (k - 1) * size \in Nat
    <3>1. \A a, b \in Nat : a * b \in Nat
      OBVIOUS
    <3> QED BY <3>1
  <2>2. ASSUME NEW i \in 1..size PROVE At(s, (k - 1) * size + i - 1, pad) \in T
    <3>1. (k - 1) * size + i - 1 \in Nat
      BY <2>1
    <3> QED BY <3>1, AtType
  <2> QED BY <2>2
<1> QED BY <1>1 DEF Pages

\* So it is where there are as many pieces as it needs.
LEMMA PagedType ==
  ASSUME NEW T, NEW s \in Seq(T), NEW size \in Nat \ {0}, NEW pad \in T
  PROVE  Paged(s, size, pad) \in Seq(Seq(T))
<1>1. UnitsFor(Len(s), size) \in Nat
  BY UnitsForType
<1> QED BY <1>1, PagesType DEF Paged

\* The links of chains are numbers.
LEMMA ChainsType ==
  ASSUME NEW count \in Nat, NEW ends
  PROVE  Chains(count, ends) \in Seq(Nat)
<1>1. \A i \in 1..count : (IF i \in ends THEN EndOfChain ELSE i) \in Nat
  BY Reserved
<1> QED BY <1>1 DEF Chains

\* The bytes of one region.
LEMMA DataType ==
  ASSUME NEW S, NEW entries \in Seq(S), NEW D, <<>> \in D, \A e \in S : e.bytes \in Seq(D),
         NEW unit \in Nat \ {0}, NEW small
  PROVE  Data(entries, unit, small) \in Seq(D)
<1> DEFINE piece(i) == IF Small(entries[i]) = small THEN Paged(entries[i].bytes, unit, <<>>)
                       ELSE <<>>
           pieces == [i \in DOMAIN entries |-> piece(i)]
<1>1. Len(entries) \in Nat /\ DOMAIN entries = 1..Len(entries)
  OBVIOUS
<1>2. ASSUME NEW i \in 1..Len(entries) PROVE piece(i) \in Seq(Seq(D))
  <2>1. entries[i].bytes \in Seq(D)
    <3>1. entries[i] \in S
      OBVIOUS
    <3> QED BY <3>1
  <2>2. Paged(entries[i].bytes, unit, <<>>) \in Seq(Seq(D))
    BY <2>1, PagedType
  <2>3. <<>> \in Seq(Seq(D))
    OBVIOUS
  <2> QED BY <2>2, <2>3
<1>3. pieces \in Seq(Seq(Seq(D)))
  <2> HIDE DEF piece
  <2>1. pieces = [i \in 1..Len(entries) |-> piece(i)]
    BY <1>1
  <2> DEFINE T == Seq(Seq(D))
  <2> HIDE DEF pieces, T
  <2>2. pieces \in [1..Len(entries) -> T]
    BY <1>2, <2>1 DEF T
  <2>3. pieces \in Seq(T)
    BY <1>1, <2>2
  <2> QED BY <2>3 DEF T
<1>4. Data(entries, unit, small) = FlattenSeq(FlattenSeq(pieces))
  BY DEF Data
<1> HIDE DEF pieces
<1>5. FlattenSeq(pieces) \in Seq(Seq(D))
  BY <1>3, FlattenType
<1> QED BY <1>4, <1>5, FlattenType

\* The sizes of a version.
LEMMA VersionGeometry ==
  ASSUME NEW version \in {3, 4}
  PROVE  /\ Geometry[version].cells \in Nat \ {0} /\ Geometry[version].index \in Nat \ {0, 1}
         /\ Geometry[version].entries \in Nat \ {0}
BY GeometryAssumption

\* The numbers of a layout.
IsLayout(l) ==
  /\ l.mini \in Nat /\ l.mini_stream_start \in Nat /\ l.mini_index_start \in Nat
  /\ l.mini_index \in Nat /\ l.directory_start \in Nat /\ l.difat_start \in Nat
  /\ l.difat \in Nat /\ l.fat_start \in Nat /\ l.fat \in Nat

\* A layout is made of numbers.
LEMMA LayoutType ==
  ASSUME NEW S, NEW entries \in Seq(S), \A e \in S : IsEntry(e), NEW version \in {3, 4}
  PROVE  IsLayout(ComputeLayout(entries, version))
<1> DEFINE cells == Geometry[version].cells
           index == Geometry[version].index
           slots == Geometry[version].entries
           streams == UnitsBefore(entries, Len(entries) + 1, cells, FALSE)
           mini == UnitsBefore(entries, Len(entries) + 1, MiniSectorSize, TRUE)
           mini_stream == UnitsFor(mini * MiniSectorSize, cells)
           mini_index == UnitsFor(mini, index)
           directory == UnitsFor(Len(entries), slots)
           others == streams + mini_stream + mini_index + directory
           fat == FatSectors(others, index)
           difat == DifatSectors(fat, index)
<1>1. cells \in Nat \ {0} /\ index \in Nat \ {0, 1} /\ slots \in Nat \ {0}
  BY VersionGeometry
<1>2. Len(entries) \in Nat /\ Len(entries) + 1 \in 1..(Len(entries) + 1)
  OBVIOUS
<1>3. MiniSectorSize \in Nat \ {0}
  BY LimitsAssumption
<1>4. ComputeLayout(entries, version)
        = [mini |-> mini, mini_stream_start |-> streams, mini_stream |-> mini_stream,
           mini_index_start |-> streams + mini_stream, mini_index |-> mini_index,
           directory_start |-> streams + mini_stream + mini_index, directory |-> directory,
           difat_start |-> others, difat |-> difat, fat_start |-> others + difat, fat |-> fat,
           total |-> others + difat + fat]
  BY DEF ComputeLayout
<1> HIDE DEF cells, index, slots
<1>5. streams \in Nat
  BY <1>1, <1>2, UnitsBeforeType
<1>6. mini \in Nat
  BY <1>2, <1>3, UnitsBeforeType
<1> HIDE DEF streams, mini
<1>7. mini * MiniSectorSize \in Nat
  BY <1>3, <1>6
<1>8. mini_stream \in Nat
  BY <1>1, <1>7, UnitsForType
<1>9. mini_index \in Nat
  BY <1>1, <1>6, UnitsForType
<1>10. directory \in Nat
  BY <1>1, <1>2, UnitsForType
<1> HIDE DEF mini_stream, mini_index, directory
<1>11. others \in Nat
  BY <1>5, <1>8, <1>9, <1>10
<1> HIDE DEF others
<1>12. fat \in Nat
  BY <1>1, <1>11, FatSectorsType
<1> HIDE DEF fat
<1>13. difat \in Nat
  BY <1>1, <1>12, DifatSectorsType
<1> HIDE DEF difat
<1> QED BY <1>4, <1>5, <1>6, <1>8, <1>9, <1>11, <1>12, <1>13 DEF IsLayout

\* A place in the FAT's own list is a number.
LEMMA FatSectorAtType ==
  ASSUME NEW l, IsLayout(l), NEW k \in Nat
  PROVE  FatSectorAt(l, k) \in Nat
BY Reserved DEF FatSectorAt, IsLayout

\* The FAT.
LEMMA FatTableType ==
  ASSUME NEW entries, NEW l, IsLayout(l), NEW version \in {3, 4}
  PROVE  FatTable(entries, l, Geometry[version]) \in Seq(Seq(Nat))
<1> DEFINE g == Geometry[version]
           ends == Ends(entries, g.cells, FALSE)
                   \cup {l.mini_index_start, l.directory_start, l.difat_start}
           a == Chains(l.difat_start, ends)
           b == [d \in 1..l.difat |-> DifatSector]
           c == [f \in 1..l.fat |-> FatSector]
<1>1. l.difat_start \in Nat /\ l.difat \in Nat /\ l.fat \in Nat
  BY DEF IsLayout
<1>2. g.index \in Nat \ {0}
  BY VersionGeometry
<1>3. a \in Seq(Nat)
  BY <1>1, ChainsType
<1>4. b \in Seq(Nat) /\ c \in Seq(Nat)
  BY <1>1, Reserved
<1>5. FatTable(entries, l, g) = Pages(a \o b \o c, l.fat, g.index, FreeSector)
  BY DEF FatTable
<1> HIDE DEF a, b, c, g
<1>6. a \o b \o c \in Seq(Nat)
  BY <1>3, <1>4
<1>7. Pages(a \o b \o c, l.fat, g.index, FreeSector) \in Seq(Seq(Nat))
  BY <1>1, <1>2, <1>6, Reserved, PagesType
<1> QED BY <1>5, <1>7 DEF g

\* The extended index.
LEMMA DifatTableType ==
  ASSUME NEW l, IsLayout(l), NEW version \in {3, 4}
  PROVE  DifatTable(l, Geometry[version]) \in Seq(Seq(Nat))
<1> DEFINE per == Geometry[version].index - 1
           at(d, j) == HeaderDifatEntries + (d - 1) * per + j - 1
           row(d) == [j \in 1..per |-> FatSectorAt(l, at(d, j))]
           last(d) == IF d < l.difat THEN l.difat_start + d ELSE EndOfChain
<1>1. l.difat_start \in Nat /\ l.difat \in Nat
  BY DEF IsLayout
<1>2. per \in Nat
  BY VersionGeometry
<1>3. DifatTable(l, Geometry[version]) = [d \in 1..l.difat |-> row(d) \o <<last(d)>>]
  BY DEF DifatTable
<1> HIDE DEF per
<1>4. ASSUME NEW d \in 1..l.difat PROVE row(d) \o <<last(d)>> \in Seq(Nat)
  <2>1. ASSUME NEW j \in 1..per PROVE at(d, j) \in Nat
    <3>1. \A x, y \in Nat : x * y \in Nat
      OBVIOUS
    <3>2. (d - 1) * per \in Nat
      BY <1>1, <1>2, <3>1
    <3> QED BY <1>2, <3>2, LayoutAssumption
  <2> HIDE DEF at
  <2>2. row(d) \in Seq(Nat)
    BY <1>2, <2>1, FatSectorAtType
  <2>3. last(d) \in Nat
    BY <1>1, Reserved
  <2> HIDE DEF row, last
  <2> QED BY <2>2, <2>3
<1> DEFINE line(d) == row(d) \o <<last(d)>>
           T == Seq(Nat)
<1>5. \A d \in 1..l.difat : line(d) \in T
  BY <1>4
<1> HIDE DEF line, T
<1>6. [d \in 1..l.difat |-> line(d)] \in Seq(T)
  BY <1>1, <1>5
<1> QED BY <1>3, <1>6 DEF line, T

\* The positions of the entries of a storage.
LEMMA ChildrenType ==
  ASSUME NEW S, NEW entries \in Seq(S), NEW path
  PROVE  /\ Children(entries, path) \in SUBSET (1..Len(entries))
         /\ Cardinality(Children(entries, path)) \in Nat
<1>1. Len(entries) \in Nat /\ DOMAIN entries = 1..Len(entries)
  OBVIOUS
<1>2. Children(entries, path) \in SUBSET (1..Len(entries))
  BY <1>1 DEF Children
<1>3. IsFiniteSet(1..Len(entries))
  <2>1. 1 \in Int /\ Len(entries) \in Int
    BY <1>1
  <2> QED BY <2>1, FS_Interval
<1>4. IsFiniteSet(Children(entries, path))
  BY <1>2, <1>3, FS_Subset
<1> QED BY <1>2, <1>4, FS_CardinalityType

\* A link of the search tree is a number.
LEMMA LinkType ==
  ASSUME NEW first \in Nat, NEW low \in Nat, NEW high \in Nat
  PROVE  Link(first, low, high) \in Nat
<1>1. Middle(low, high) \in Nat
  BY Division DEF Middle
<1> QED BY <1>1, Reserved DEF Link

\* And so is the link of a storage to its tree.
LEMMA ChildOfType ==
  ASSUME NEW S, NEW entries \in Seq(S), NEW path
  PROVE  ChildOf(Children(entries, path)) \in Nat
<1> DEFINE inner == Children(entries, path)
<1>1. inner \in SUBSET (1..Len(entries)) /\ Cardinality(inner) \in Nat
  BY ChildrenType
<1> HIDE DEF inner
<1>2. CASE inner = {}
  BY <1>2, Reserved DEF ChildOf, inner
<1>3. CASE inner # {}
  <2>1. inner \in SUBSET Nat
    BY <1>1
  <2>2. Min(inner) \in inner
    BY <1>3, <2>1, MinIs
  <2> DEFINE low == Min(inner)
  <2> HIDE DEF low
  <2>3. low - 1 \in Nat
    <3>1. low \in 1..Len(entries)
      BY <1>1, <2>2 DEF low
    <3> QED BY <3>1
  <2>4. Link(low - 1, 0, Cardinality(inner)) \in Nat
    BY <1>1, <2>3, LinkType
  <2> QED BY <1>3, <2>4 DEF ChildOf, inner, low
<1> QED BY <1>2, <1>3

\* The directory entry of each entry, where only the first may be the root.
LEMMA DirectoryEntryType ==
  ASSUME NEW S, NEW entries \in Seq(S), \A e \in S : IsEntry(e),
         \A k \in 1..Len(entries) : entries[k].path = <<>> => k = 1,
         NEW i \in 1..Len(entries), NEW l, IsLayout(l), NEW cells \in Nat \ {0}
  PROVE  DirectoryEntry(entries, i, l, cells) \in DirEntry
<1> DEFINE e == entries[i]
           siblings == Children(entries, Front(e.path))
           first == Min(siblings)
           range == Subtree(Cardinality(siblings), i - first)
           unit == IF Small(e) THEN MiniSectorSize ELSE cells
           begin == UnitsBefore(entries, i, unit, Small(e))
           start == IF e.bytes = <<>> THEN EndOfChain ELSE begin
           type == IF i = 1 THEN "root" ELSE IF e.storage THEN "storage" ELSE "stream"
           left == IF i = 1 THEN NoStream ELSE LeftOf(first - 1, range, i - first)
           right == IF i = 1 THEN NoStream ELSE RightOf(first - 1, range, i - first)
           child == ChildOf(Children(entries, e.path))
           from == IF i = 1 THEN IF l.mini = 0 THEN EndOfChain ELSE l.mini_stream_start
                   ELSE IF e.storage THEN 0 ELSE start
           size == IF i = 1 THEN l.mini * MiniSectorSize ELSE Len(e.bytes)
<1>1. DirectoryEntry(entries, i, l, cells)
        = [name |-> e.name, class |-> e.class, meta |-> e.meta, type |-> type, left |-> left,
           right |-> right, child |-> child, start |-> from, size |-> size]
  BY DEF DirectoryEntry
<1>2. Len(entries) \in Nat /\ DOMAIN entries = 1..Len(entries) /\ e \in S
  OBVIOUS
<1>3. IsEntry(e)
  BY <1>2
<1>4. e.name \in Seq(Nat) /\ e.path \in Seq(Seq(Nat)) /\ e.class \in Nat /\ e.meta \in Nat
  BY <1>3 DEF IsEntry
<1>5. Len(e.bytes) \in Nat
  <2>1. e.bytes \in Seq(ToSet(e.bytes))
    BY <1>3 DEF IsEntry
  <2> QED BY <2>1, ElementType, Zenon
<1>6. ASSUME i # 1
      PROVE  first \in Nat /\ first >= 1 /\ first <= i
  <2>1. i \in siblings
    BY <1>2, <1>6 DEF Children
  <2>2. siblings \in SUBSET (1..Len(entries))
    BY ChildrenType
  <2> HIDE DEF siblings
  <2>3. siblings \in SUBSET Nat
    BY <2>2
  <2>4. first \in siblings /\ \A k \in siblings : first <= k
    BY <2>1, <2>3, MinIs
  <2> HIDE DEF first
  <2>5. first \in 1..Len(entries) /\ first <= i
    BY <2>1, <2>2, <2>4
  <2> QED BY <2>5
<1>7. left \in Nat /\ right \in Nat
  <2>1. CASE i = 1
    BY <2>1, Reserved
  <2>2. CASE i # 1
    <3> DEFINE place == i - first
               before == first - 1
    <3>1. place \in Nat /\ before \in Nat
      BY <1>6, <2>2
    <3>2. range \in RangeType
      BY <3>1, ChildrenType, SubtreeType
    <3> HIDE DEF place, before, range
    <3>3. range.low \in Nat /\ range.high \in Nat /\ place + 1 \in Nat
      BY <3>1, <3>2 DEF RangeType
    <3>4. Link(before, range.low, place) \in Nat /\ Link(before, place + 1, range.high) \in Nat
      BY <3>1, <3>3, LinkType
    <3> QED BY <2>2, <3>4 DEF LeftOf, RightOf, place, before
  <2> QED BY <2>1, <2>2
<1>8. child \in Nat
  BY ChildOfType
<1>9. begin \in Nat
  <2>1. i \in 1..(Len(entries) + 1)
    BY <1>2
  <2>2. unit \in Nat \ {0}
    BY LimitsAssumption
  <2> HIDE DEF unit
  <2> QED BY <2>1, <2>2, UnitsBeforeType
<1> HIDE DEF begin
<1>10. from \in Nat
  BY <1>9, Reserved DEF IsLayout
<1>11. size \in Nat
  <2>1. l.mini * MiniSectorSize \in Nat
    BY LimitsAssumption DEF IsLayout
  <2> QED BY <1>5, <2>1
<1>12. type \in {"unknown", "root", "storage", "stream"}
  OBVIOUS
<1> HIDE DEF e, type, left, right, child, from, size
<1> QED BY <1>1, <1>4, <1>7, <1>8, <1>10, <1>11, <1>12 DEF DirEntry

\* The sectors of an image.
SectorType(D) == [data : Seq(D), index : Seq(Nat), entries : Seq(DirEntry)]

\* Sectors of data, of index entries and of directory entries are sectors.
LEMMA SectorKinds ==
  ASSUME NEW D
  PROVE  /\ \A s \in Seq(Seq(D)) : [k \in DOMAIN s |-> Sector(s[k], <<>>, <<>>)] \in Seq(SectorType(D))
         /\ \A s \in Seq(Seq(Nat)) :
              [k \in DOMAIN s |-> Sector(<<>>, s[k], <<>>)] \in Seq(SectorType(D))
         /\ \A s \in Seq(Seq(DirEntry)) :
              [k \in DOMAIN s |-> Sector(<<>>, <<>>, s[k])] \in Seq(SectorType(D))
<1>1. ASSUME NEW T, NEW s \in Seq(Seq(T))
      PROVE  Len(s) \in Nat /\ DOMAIN s = 1..Len(s) /\ \A k \in 1..Len(s) : s[k] \in Seq(T)
  OBVIOUS
<1>2. <<>> \in Seq(D) /\ <<>> \in Seq(Nat) /\ <<>> \in Seq(DirEntry)
  OBVIOUS
<1>3. ASSUME NEW s \in Seq(Seq(D))
      PROVE  [k \in DOMAIN s |-> Sector(s[k], <<>>, <<>>)] \in Seq(SectorType(D))
  <2> DEFINE r(k) == Sector(s[k], <<>>, <<>>)
             T == SectorType(D)
  <2>1. \A k \in 1..Len(s) : r(k) \in T
    BY <1>1, <1>2 DEF Sector, SectorType
  <2>2. DOMAIN s = 1..Len(s) /\ Len(s) \in Nat
    BY <1>1
  <2> HIDE DEF r, T
  <2>3. [k \in DOMAIN s |-> r(k)] \in Seq(T)
    BY <2>1, <2>2
  <2> QED BY <2>3 DEF r, T
<1>4. ASSUME NEW s \in Seq(Seq(Nat))
      PROVE  [k \in DOMAIN s |-> Sector(<<>>, s[k], <<>>)] \in Seq(SectorType(D))
  <2> DEFINE r(k) == Sector(<<>>, s[k], <<>>)
             T == SectorType(D)
  <2>1. \A k \in 1..Len(s) : r(k) \in T
    BY <1>1, <1>2 DEF Sector, SectorType
  <2>2. DOMAIN s = 1..Len(s) /\ Len(s) \in Nat
    BY <1>1
  <2> HIDE DEF r, T
  <2>3. [k \in DOMAIN s |-> r(k)] \in Seq(T)
    BY <2>1, <2>2
  <2> QED BY <2>3 DEF r, T
<1>5. ASSUME NEW s \in Seq(Seq(DirEntry))
      PROVE  [k \in DOMAIN s |-> Sector(<<>>, <<>>, s[k])] \in Seq(SectorType(D))
  <2> DEFINE r(k) == Sector(<<>>, <<>>, s[k])
             T == SectorType(D)
  <2>1. \A k \in 1..Len(s) : r(k) \in T
    BY <1>1, <1>2 DEF Sector, SectorType
  <2>2. DOMAIN s = 1..Len(s) /\ Len(s) \in Nat
    BY <1>1
  <2> HIDE DEF r, T
  <2>3. [k \in DOMAIN s |-> r(k)] \in Seq(T)
    BY <2>1, <2>2
  <2> QED BY <2>3 DEF r, T
<1> QED BY <1>3, <1>4, <1>5

\* A header and typed sectors are an image.
LEMMA AssembleType ==
  ASSUME NEW image, image.version \in {3, 4}, NEW l, IsLayout(l), NEW D,
         NEW sectors \in Seq(SectorType(D))
  PROVE  /\ IsImage(Assemble(image, l, sectors))
         /\ Assemble(image, l, sectors).version = image.version
<1> DEFINE f == Assemble(image, l, sectors)
           difat == [i \in 1..HeaderDifatEntries |-> FatSectorAt(l, i - 1)]
           mini == IF l.mini_index = 0 THEN EndOfChain ELSE l.mini_index_start
           first == IF l.difat = 0 THEN EndOfChain ELSE l.difat_start
<1>1. /\ f.version = image.version /\ f.difat = difat /\ f.sectors = sectors
      /\ f["first_dir"] = l.directory_start /\ f["first_mini_fat"] = mini
      /\ f["total_mini_fat"] = l.mini_index /\ f["first_difat"] = first
      /\ f["total_difat"] = l.difat /\ f["missing"] = 0
  <2> DEFINE h == Header(image, l)
  <2>1. h = [version |-> image.version, magic |-> TRUE, sound |-> TRUE, difat |-> difat,
             first_dir |-> l.directory_start, first_mini_fat |-> mini,
             total_mini_fat |-> l.mini_index, first_difat |-> first, total_difat |-> l.difat,
             missing |-> 0, sectors |-> <<>>]
    BY DEF Header
  <2>2. f = [h EXCEPT !.sectors = sectors]
    BY DEF Assemble
  <2> HIDE DEF difat, mini, first, f, h
  <2>3. /\ h.version = image.version /\ h.difat = difat
        /\ h["first_dir"] = l.directory_start /\ h["first_mini_fat"] = mini
        /\ h["total_mini_fat"] = l.mini_index /\ h["first_difat"] = first
        /\ h["total_difat"] = l.difat /\ h["missing"] = 0
        /\ DOMAIN h = {"version", "magic", "sound", "difat", "first_dir", "first_mini_fat",
                       "total_mini_fat", "first_difat", "total_difat", "missing", "sectors"}
    BY <2>1
  <2> QED BY <2>2, <2>3
<1>2. difat \in Seq(Nat)
  <2>1. \A i \in 1..HeaderDifatEntries : i - 1 \in Nat
    BY LayoutAssumption
  <2> QED BY <2>1, LayoutAssumption, FatSectorAtType
<1>3. mini \in Nat /\ first \in Nat
  BY Reserved DEF IsLayout
<1>4. l.directory_start \in Nat /\ l.mini_index \in Nat /\ l.difat \in Nat
  BY DEF IsLayout
<1> HIDE DEF f, difat, mini, first
<1>5. /\ f.version = image.version /\ f.difat = difat /\ f.sectors = sectors
      /\ f["first_dir"] \in Nat /\ f["first_mini_fat"] \in Nat /\ f["total_mini_fat"] \in Nat
      /\ f["first_difat"] \in Nat /\ f["total_difat"] \in Nat /\ f["missing"] \in Nat
  BY <1>1, <1>3, <1>4
<1>6. /\ Len(sectors) \in Nat /\ DOMAIN sectors = 1..Len(sectors)
      /\ sectors = [i \in 1..Len(sectors) |-> sectors[i]]
      /\ \A i \in 1..Len(sectors) : sectors[i] \in SectorType(D)
  OBVIOUS
<1>7. sectors \in Seq(ToSet(sectors))
  <2>1. \A i \in 1..Len(sectors) : sectors[i] \in ToSet(sectors)
    BY <1>6 DEF ToSet
  <2> QED BY <1>6, <2>1
<1>8. \A s \in ToSet(sectors) : s.index \in Seq(Nat) /\ s.entries \in Seq(DirEntry)
  <2>1. \A s \in ToSet(sectors) : s \in SectorType(D)
    BY <1>6 DEF ToSet
  <2>2. \A s \in SectorType(D) : s.index \in Seq(Nat) /\ s.entries \in Seq(DirEntry)
    BY DEF SectorType
  <2> QED BY <2>1, <2>2
<1>9. IsImage(f)
  BY <1>2, <1>5, <1>7, <1>8 DEF IsImage
<1> QED BY <1>5, <1>9 DEF f

\* What is written is an image, of the version it was made from.
LEMMA SerialiseType ==
  ASSUME NEW S, NEW entries \in Seq(S), \A e \in S : IsEntry(e),
         \A k \in 1..Len(entries) : entries[k].path = <<>> => k = 1,
         NEW image, image.version \in {3, 4}, NEW l, IsLayout(l)
  PROVE  /\ IsImage(Serialise(image, entries, l))
         /\ Serialise(image, entries, l).version = image.version
<1> DEFINE g == Geometry[image.version]
           D == {<<>>} \cup UNION {ToSet(e.bytes) : e \in S}
           big == Paged(Data(entries, g.cells, FALSE), g.cells, <<>>)
           small == Paged(Data(entries, MiniSectorSize, TRUE), g.cells, <<>>)
           mini == Paged(Chains(l.mini, Ends(entries, MiniSectorSize, TRUE)), g.index, FreeSector)
           directory == [i \in DOMAIN entries |-> DirectoryEntry(entries, i, l, g.cells)]
           slots == Paged(directory, g.entries, UnusedEntry)
           difat == DifatTable(l, g)
           fat == FatTable(entries, l, g)
           data(s) == [k \in DOMAIN s |-> Sector(s[k], <<>>, <<>>)]
           index(s) == [k \in DOMAIN s |-> Sector(<<>>, s[k], <<>>)]
           listing(s) == [k \in DOMAIN s |-> Sector(<<>>, <<>>, s[k])]
           sectors == data(big) \o data(small) \o index(mini) \o listing(slots)
                      \o index(difat) \o index(fat)
<1>1. Serialise(image, entries, l) = Assemble(image, l, sectors)
  BY DEF Serialise
<1>2. g.cells \in Nat \ {0} /\ g.index \in Nat \ {0} /\ g.entries \in Nat \ {0}
  BY VersionGeometry
<1>3. MiniSectorSize \in Nat \ {0}
  BY LimitsAssumption
<1>4. <<>> \in D
  OBVIOUS
<1>5. \A e \in S : e.bytes \in Seq(D)
  <2>1. ASSUME NEW e \in S PROVE e.bytes \in Seq(D)
    <3>1. e.bytes \in Seq(ToSet(e.bytes))
      BY DEF IsEntry
    <3>2. ToSet(e.bytes) \subseteq D
      OBVIOUS
    <3> HIDE DEF D
    <3>3. ASSUME NEW A, NEW b \in Seq(A), A \subseteq D PROVE b \in Seq(D)
      BY <3>3
    <3> QED BY <3>1, <3>2, <3>3
  <2> QED BY <2>1
<1>6. big \in Seq(Seq(D))
  <2> HIDE DEF D, g
  <2>1. Data(entries, g.cells, FALSE) \in Seq(D)
    BY <1>2, <1>4, <1>5, DataType
  <2> QED BY <1>2, <1>4, <2>1, PagedType
<1>7. small \in Seq(Seq(D))
  <2> HIDE DEF D, g
  <2>1. Data(entries, MiniSectorSize, TRUE) \in Seq(D)
    BY <1>3, <1>4, <1>5, DataType
  <2> QED BY <1>2, <1>4, <2>1, PagedType
<1>8. mini \in Seq(Seq(Nat))
  <2> HIDE DEF g
  <2>1. l.mini \in Nat
    BY DEF IsLayout
  <2>2. Chains(l.mini, Ends(entries, MiniSectorSize, TRUE)) \in Seq(Nat)
    BY <2>1, ChainsType
  <2> QED BY <1>2, <2>2, Reserved, PagedType
<1>9. slots \in Seq(Seq(DirEntry))
  <2>1. \A i \in 1..Len(entries) : DirectoryEntry(entries, i, l, g.cells) \in DirEntry
    <3> HIDE DEF g
    <3> QED BY <1>2, DirectoryEntryType
  <2>2. DOMAIN entries = 1..Len(entries) /\ Len(entries) \in Nat
    OBVIOUS
  <2> HIDE DEF g
  <2>3. directory \in Seq(DirEntry)
    BY <2>1, <2>2
  <2> HIDE DEF directory
  <2> QED BY <1>2, <2>3, UnusedEntryType, PagedType
<1>10. difat \in Seq(Seq(Nat)) /\ fat \in Seq(Seq(Nat))
  BY DifatTableType, FatTableType
<1> HIDE DEF g, D, big, small, mini, slots, difat, fat
<1> DEFINE T == SectorType(D)
<1>11. /\ data(big) \in Seq(T) /\ data(small) \in Seq(T)
       /\ index(mini) \in Seq(T) /\ index(difat) \in Seq(T) /\ index(fat) \in Seq(T)
       /\ listing(slots) \in Seq(T)
  BY <1>6, <1>7, <1>8, <1>9, <1>10, SectorKinds
<1> HIDE DEF data, index, listing, T
<1>12. sectors \in Seq(T)
  BY <1>11
<1> HIDE DEF sectors
<1> QED BY <1>1, <1>12, AssembleType DEF T

-----------------------------------------------------------------------------
(* What a write leaves reads back as what was written. *)

IsBytes(b) == b \in Seq(ToSet(b))

\* What has an element at each place from 1 is a sequence.
LEMMA RowIsBytes ==
  ASSUME NEW n \in Nat, NEW b, DOMAIN b = 1..n, b = [i \in 1..n |-> b[i]]
  PROVE  IsBytes(b)
<1>1. \A i \in 1..n : b[i] \in ToSet(b)
  BY DEF ToSet
<1> DEFINE T == ToSet(b)
<1> HIDE DEF T
<1>2. b \in [1..n -> T]
  BY <1>1 DEF T
<1>3. b \in Seq(T)
  BY <1>2
<1> QED BY <1>3 DEF IsBytes, T

\* No bytes are bytes.
LEMMA NoBytes == IsBytes(<<>>)
<1>1. <<>> \in Seq(ToSet(<<>>))
  OBVIOUS
<1> QED BY <1>1 DEF IsBytes

\* A stream that can be read alone has bytes, and none where it is empty.
LEMMA BytesType ==
  ASSUME NEW m, IsModel(m), NEW n \in NodeType, Fits(m, n)
  PROVE  /\ IsBytes(BytesOf(m, n))
         /\ (n.storage \/ n.size = 0) => BytesOf(m, n) = <<>>
<1> DEFINE b == BytesOf(m, n)
           field == {"ok", "used", "mini_used", "ready", "container", "bytes"}
           cells == CellsOf(m.image)
<1>1. n.size \in Nat /\ n.start \in Nat
  BY DEF NodeType
<1>2. DOMAIN Unresolved = field /\ Unresolved.ok = TRUE /\ Unresolved.used = {}
      /\ Unresolved.mini_used = {}
  BY DEF Unresolved
<1>3. HasFat(m)
  BY DEF IsModel
<1>4. CASE n.storage \/ n.size = 0
  <2>1. b = [Unresolved EXCEPT !.bytes = <<>>].bytes
    BY <1>4 DEF BytesOf, Resolve
  <2>2. b = <<>>
    BY <1>2, <2>1
  <2> QED BY <2>2, NoBytes
<1>5. CASE IsOrdinary(n)
  <2> DEFINE w == WalkChain(m, n.start, {})
             r == ReadOrdinary(m, Unresolved, n, cells, w)
  <2>1. Resolve(m, Unresolved, n) = r
    BY <1>2, <1>5 DEF Resolve, ResolveOrdinary, IsOrdinary
  <2>2. w \in WalkState
    BY <1>1, <1>3, ChainWalk
  <2> DEFINE row == [i \in 1..n.size |->
                       At(m.image.sectors[w.chain[(i - 1) \div cells + 1] + 1].data,
                          (i - 1) % cells, <<>>)]
  <2>3. r.ok => r.bytes = row
    <3> HIDE DEF w, cells
    <3> QED BY <1>2, <2>2, ReadOrdinaryIs
  <2>4. b = row
    BY <2>1, <2>3 DEF BytesOf, Fits
  <2>5. DOMAIN row = 1..n.size /\ row = [i \in 1..n.size |-> row[i]]
    OBVIOUS
  <2> HIDE DEF row
  <2>6. IsBytes(row)
    BY <1>1, <2>5, RowIsBytes
  <2> QED BY <1>5, <2>4, <2>6 DEF IsOrdinary
<1>6. CASE IsMini(n)
  <2> DEFINE e == EnsureMiniStream(m, Unresolved)
             w == WalkMiniChain(m, n.start, e.mini_used)
             r == ReadMini(m, e, n, cells, w)
             row == MiniBytes(m, n, cells, e.container, w.chain)
  <2>1. /\ DOMAIN e = field /\ e.mini_used = {}
    <3>1. Holds(m, {}, Unresolved)
      BY NothingHeld
    <3>2. {} \in SUBSET (1..Len(m.nodes))
      OBVIOUS
    <3> QED BY <1>6, <3>1, <3>2, EnsureIs
  <2>2. Resolve(m, Unresolved, n) = ResolveInContainer(m, e, n)
    BY <1>6 DEF Resolve, ResolveMini, IsMini
  <2>3. Resolve(m, Unresolved, n) = IF ~e.ok THEN e ELSE r
    BY <2>2 DEF ResolveInContainer
  <2>4. e.ok /\ Resolve(m, Unresolved, n) = r /\ r.ok
    <3> HIDE DEF e, r
    <3> QED BY <2>3 DEF Fits
  <2>5. w \in WalkState
    <3> HIDE DEF e
    <3>1. e.mini_used \in SUBSET Nat
      BY <2>1
    <3> QED BY <1>1, <1>3, <3>1, MiniChainWalk
  <2>6. r.ok => r.bytes = row
    <3> HIDE DEF w, cells, e
    <3> QED BY <2>1, <2>5, ReadMiniIs
  <2>7. b = row
    <3> HIDE DEF r, row
    <3> QED BY <2>4, <2>6 DEF BytesOf
  <2>8. DOMAIN row = 1..n.size /\ row = [i \in 1..n.size |-> row[i]]
    BY DEF MiniBytes
  <2> HIDE DEF row
  <2>9. IsBytes(row)
    BY <1>1, <2>8, RowIsBytes
  <2> QED BY <1>6, <2>7, <2>9 DEF IsMini
<1> QED BY <1>4, <1>5, <1>6 DEF IsOrdinary, IsMini

\* The content of a node has the fields of the node.
LEMMA ContentIs ==
  ASSUME NEW m, NEW i
  PROVE  /\ Alone(m, i).name = m.nodes[i].name /\ Alone(m, i).path = m.nodes[i].path
         /\ Alone(m, i).storage = m.nodes[i].storage
         /\ Alone(m, i).class = m.nodes[i].class /\ Alone(m, i).meta = m.nodes[i].meta
         /\ Alone(m, i).bytes = BytesOf(m, m.nodes[i])
         /\ IsSignature(Alone(m, i)) = IsSignature(m.nodes[i])
<1>1. /\ Alone(m, i).name = m.nodes[i].name /\ Alone(m, i).path = m.nodes[i].path
      /\ Alone(m, i).storage = m.nodes[i].storage
      /\ Alone(m, i).class = m.nodes[i].class /\ Alone(m, i).meta = m.nodes[i].meta
      /\ Alone(m, i).bytes = BytesOf(m, m.nodes[i])
  BY DEF Alone, Content
<1> QED BY <1>1 DEF IsSignature

\* It can be written where its stream can be read.
LEMMA AloneIsEntry ==
  ASSUME NEW m, IsModel(m), NEW i \in 1..Len(m.nodes), Fits(m, m.nodes[i])
  PROVE  IsEntry(Alone(m, i))
<1>1. m.nodes[i] \in NodeType
  BY DEF IsModel
<1>2. IsBytes(BytesOf(m, m.nodes[i]))
  BY <1>1, BytesType
<1>3. LET n == m.nodes[i]
      IN  n.name \in Seq(Nat) /\ n.path \in Seq(Seq(Nat)) /\ n.class \in Nat /\ n.meta \in Nat
  BY <1>1 DEF NodeType
<1> QED BY <1>2, <1>3, ContentIs DEF IsEntry, IsBytes

\* The nodes that are no signature.
Own(m) == Kept(m, FALSE, Len(m.nodes))

\* What a package holds but for the signature.
OwnContent(m) == {Alone(m, i) : i \in Own(m)}

\* The entries of a package with a signature.
With(m, sig) == OwnContent(m) \cup (IF sig = <<>> THEN {} ELSE {SignatureStream(sig)})

\* The nodes that are no signature, by their positions.
LEMMA OwnIs ==
  ASSUME NEW m, IsModel(m)
  PROVE  /\ Own(m) = {i \in DOMAIN m.nodes : ~IsSignature(m.nodes[i])}
         /\ Own(m) = {i \in 1..Len(m.nodes) : ~IsSignature(m.nodes[i])}
         /\ Own(m) \subseteq 1..Len(m.nodes)
<1>1. DOMAIN m.nodes = 1..Len(m.nodes)
  BY DEF IsModel
<1> QED BY <1>1 DEF Own, Kept

\* The entry of a new signature.
LEMMA SignatureStreamIs ==
  ASSUME NEW sig
  PROVE  /\ SignatureStream(sig).path = <<SignatureName>> /\ SignatureStream(sig).bytes = sig
         /\ SignatureStream(sig).name = SignatureName
         /\ SignatureStream(sig).class = 0 /\ SignatureStream(sig).meta = 0
         /\ IsSignature(SignatureStream(sig))
         /\ SignatureName \in Seq(Nat) /\ <<SignatureName>> \in Seq(Seq(Nat))
<1>1. SignatureName \in Seq(Nat)
  BY DEF SignatureName
<1>2. /\ SignatureStream(sig).path = <<SignatureName>> /\ SignatureStream(sig).bytes = sig
      /\ SignatureStream(sig).name = SignatureName
      /\ SignatureStream(sig).class = 0 /\ SignatureStream(sig).meta = 0
  BY DEF SignatureStream
<1>3. /\ <<SignatureName>>[1] = SignatureName /\ <<SignatureName>> # <<>>
      /\ <<SignatureName>> \in Seq(Seq(Nat))
  BY <1>1
<1>4. IsSignatureName(SignatureName)
  BY DEF IsSignatureName
<1> QED BY <1>1, <1>2, <1>3, <1>4 DEF IsSignature

\* The entries that are written.
LEMMA RunIs ==
  ASSUME NEW m, IsModel(m), Contents(m, FALSE).ok, NEW sig, IsBytes(sig),
         CheckUniqueNames(m, sig)
  PROVE  LET run == Run(Contents(m, FALSE), sig)
         IN  /\ run \in Seq(ToSet(run))
             /\ ToSet(run) = With(m, sig)
             /\ ToldApart(With(m, sig))
             /\ \A e \in With(m, sig) : IsEntry(e)
             /\ \A e \in With(m, sig) : ~IsSignature(e) <=> e \in OwnContent(m)
<1> DEFINE c == Contents(m, FALSE)
           K == Own(m)
           T == {Alone(m, i) : i \in 1..Len(m.nodes)} \cup {SignatureStream(sig)}
           more == IF sig = <<>> THEN <<>> ELSE <<SignatureStream(sig)>>
           run == Run(c, sig)
<1>1. /\ AllFit(m, K)
      /\ c.nodes \in Seq({Alone(m, i) : i \in 1..Len(m.nodes)})
      /\ ToSet(c.nodes) = OwnContent(m)
  BY ContentsIs DEF Own, OwnContent
<1>2. K = {i \in DOMAIN m.nodes : ~IsSignature(m.nodes[i])} /\ K \subseteq 1..Len(m.nodes)
      /\ \A i \in K : ~IsSignature(m.nodes[i])
  BY OwnIs
<1> HIDE DEF c, K
<1>3. run \in Seq(T) /\ ToSet(run) = With(m, sig)
  <2>1. run = c.nodes \o more
    BY DEF Run
  <2> DEFINE s == c.nodes
             sign == SignatureStream(sig)
  <2>2. s \in Seq(T) /\ sign \in T
    <3> DEFINE A == {Alone(m, i) : i \in 1..Len(m.nodes)}
    <3>1. s \in Seq(A) /\ A \subseteq T
      BY <1>1
    <3> HIDE DEF A, T
    <3>2. s \in Seq(T)
      BY <3>1
    <3> QED BY <3>2 DEF T
  <2>3. ToSet(s) = OwnContent(m)
    BY <1>1
  <2> HIDE DEF s, sign, T
  <2>4. CASE sig = <<>>
    <3>1. run = s
      BY <2>1, <2>2, <2>4 DEF s
    <3> QED BY <2>2, <2>3, <2>4, <3>1 DEF With
  <2>5. CASE sig # <<>>
    <3>1. run = Append(s, sign)
      BY <2>1, <2>2, <2>5 DEF s, sign
    <3>2. ToSet(Append(s, sign)) = ToSet(s) \cup {sign} /\ Append(s, sign) \in Seq(T)
      BY <2>2, ToSetAppend
    <3> QED BY <2>3, <2>5, <3>1, <3>2 DEF With, sign
  <2> QED BY <2>4, <2>5
<1>4. run \in Seq(ToSet(run))
  <2> HIDE DEF T, run
  <2>1. Len(run) \in Nat /\ DOMAIN run = 1..Len(run) /\ run = [i \in 1..Len(run) |-> run[i]]
    BY <1>3
  <2>2. IsBytes(run)
    BY <2>1, RowIsBytes
  <2> QED BY <2>2 DEF IsBytes
<1> HIDE DEF run
<1>5. ASSUME NEW e \in With(m, sig) PROVE IsEntry(e) /\ (~IsSignature(e) <=> e \in OwnContent(m))
  <2>1. CASE e \in OwnContent(m)
    <3>1. PICK i \in K : e = Alone(m, i)
      BY <2>1 DEF OwnContent, K
    <3>2. Fits(m, m.nodes[i]) /\ i \in 1..Len(m.nodes) /\ ~IsSignature(m.nodes[i])
      BY <1>1, <1>2 DEF AllFit
    <3> QED BY <2>1, <3>1, <3>2, AloneIsEntry, ContentIs
  <2>2. CASE e \notin OwnContent(m)
    <3>1. e = SignatureStream(sig)
      BY <2>2 DEF With
    <3>2. IsEntry(e)
      <4>1. IsBytes(e.bytes)
        BY <3>1, SignatureStreamIs
      <4>2. /\ e.name \in Seq(Nat) /\ e.path \in Seq(Seq(Nat)) /\ e.class = 0 /\ e.meta = 0
        BY <3>1, SignatureStreamIs
      <4>3. e.class \in Nat /\ e.meta \in Nat
        BY <4>2
      <4> QED BY <4>1, <4>2, <4>3, Zenon DEF IsEntry, IsBytes
    <3> QED BY <2>2, <3>1, <3>2, SignatureStreamIs
  <2> QED BY <2>1, <2>2
<1>6. /\ UniqueNames(m.nodes, K)
      /\ sig # <<>> => \A i \in K : \/ PathLess(m.nodes[i].path, <<SignatureName>>)
                                    \/ PathLess(<<SignatureName>>, m.nodes[i].path)
  BY <1>2 DEF CheckUniqueNames
<1>7. ASSUME NEW d \in OwnContent(m), NEW e \in With(m, sig), d # e
      PROVE  PathLess(d.path, e.path) \/ PathLess(e.path, d.path)
  <2>1. PICK i \in K : d = Alone(m, i)
    BY DEF OwnContent, K
  <2>2. d.path = m.nodes[i].path
    BY <2>1, ContentIs
  <2>3. CASE e \in OwnContent(m)
    <3>1. PICK j \in K : e = Alone(m, j)
      BY <2>3 DEF OwnContent, K
    <3>2. e.path = m.nodes[j].path /\ i # j
      BY <1>7, <2>1, <3>1, ContentIs
    <3> QED BY <1>6, <2>2, <3>2 DEF UniqueNames
  <2>4. CASE e \notin OwnContent(m)
    <3>1. sig # <<>> /\ e.path = <<SignatureName>>
      BY <2>4, SignatureStreamIs DEF With
    <3> QED BY <1>6, <2>2, <3>1
  <2> QED BY <2>3, <2>4
<1>8. ToldApart(With(m, sig))
  <2>1. ASSUME NEW d \in With(m, sig), NEW e \in With(m, sig), d # e
        PROVE  PathLess(d.path, e.path) \/ PathLess(e.path, d.path)
    <3>1. d \in OwnContent(m) \/ e \in OwnContent(m)
      BY <2>1 DEF With
    <3> QED BY <1>7, <2>1, <3>1
  <2> QED BY <1>5, <2>1 DEF ToldApart, IsEntry
<1> QED BY <1>3, <1>4, <1>5, <1>8 DEF run, c

\* What a write leaves, and what it reads back as.
Rebuilt(m, sig, f) ==
  /\ Contents(m, FALSE).ok /\ CheckUniqueNames(m, sig)
  /\ IsImage(f) /\ f.version = m.image.version
  /\ Parse(f).ok
  /\ Contents(Parse(f), TRUE).ok
  /\ ToSet(Contents(Parse(f), TRUE).nodes) = With(m, sig)
  /\ Len(Contents(Parse(f), TRUE).nodes) = Cardinality(With(m, sig))

\* A write that succeeds leaves a package that reads back as it was written.
LEMMA Written ==
  ASSUME NEW m, IsModel(m), NEW sig, IsBytes(sig), WriteCfb(m, sig).ok
  PROVE  /\ WriteCfb(m, sig) = [ok |-> TRUE, image |-> WriteCfb(m, sig).image]
         /\ Rebuilt(m, sig, WriteCfb(m, sig).image)
<1> DEFINE c == Contents(m, FALSE)
           run == Run(c, sig)
           entries == Expand(run)
           l == ComputeLayout(entries, m.image.version)
           f == Serialise(m.image, entries, l)
           w == Parse(f)
           E == With(m, sig)
<1>1. Refused.ok = FALSE
  BY DEF Refused
<1>2. c.ok /\ CheckUniqueNames(m, sig) /\ WriteCfb(m, sig) = LayOut(m.image, entries)
  <2>1. WriteCfb(m, sig) = IF c.ok /\ CheckUniqueNames(m, sig) THEN LayOut(m.image, entries)
                           ELSE Refused
    BY DEF WriteCfb, WriteContents
  <2> HIDE DEF c, entries
  <2> QED BY <1>1, <2>1
<1>3. /\ run \in Seq(ToSet(run)) /\ ToSet(run) = E /\ ToldApart(E)
      /\ \A e \in E : IsEntry(e)
  BY <1>2, RunIs
<1> HIDE DEF c, run, E
<1>4. /\ Len(entries) = Cardinality(E) /\ entries \in Seq(E) /\ ToSet(entries) = E
      /\ \A k \in 1..Len(entries) : entries[k].path = <<>> => k = 1
  BY <1>3, ExpandIs
<1> HIDE DEF entries
<1>5. m.image.version \in {3, 4}
  BY DEF IsModel, HasFat, IsImage
<1>6. IsLayout(l)
  BY <1>3, <1>4, <1>5, LayoutType
<1>7. WriteCfb(m, sig) = Verified(entries, f, w)
  <2>1. WriteCfb(m, sig) = IF l.total > MaxSectors THEN Refused ELSE Verified(entries, f, w)
    BY <1>2 DEF LayOut, WriteEntries, Verify
  <2> HIDE DEF l, f, w
  <2> QED BY <1>1, <2>1
<1> HIDE DEF l
<1>8. IsImage(f) /\ f.version = m.image.version
  BY <1>3, <1>4, <1>5, <1>6, SerialiseType
<1> HIDE DEF f, w
<1>9. /\ w.ok /\ CompareEntry(entries, w, Contents(w, TRUE))
      /\ WriteCfb(m, sig) = [ok |-> TRUE, image |-> f]
  <2>1. WriteCfb(m, sig) = IF w.ok /\ CompareEntry(entries, w, Contents(w, TRUE))
                           THEN [ok |-> TRUE, image |-> f]
                           ELSE [ok |-> FALSE, why |-> "internal"]
    BY <1>7 DEF Verified
  <2>2. [ok |-> FALSE, why |-> "internal"].ok = FALSE
    OBVIOUS
  <2> QED BY <2>1, <2>2
<1>10. /\ Contents(w, TRUE).ok
       /\ Len(Contents(w, TRUE).nodes) = Cardinality(E)
       /\ ToSet(Contents(w, TRUE).nodes) = E
  BY <1>4, <1>9 DEF CompareEntry
<1>11. WriteCfb(m, sig).image = f
  BY <1>9
<1>12. Rebuilt(m, sig, f)
  BY <1>2, <1>8, <1>9, <1>10 DEF Rebuilt, c, w, E
<1> QED BY <1>9, <1>11, <1>12

\* What a package holds.
AllContent(m) == {Alone(m, i) : i \in 1..Len(m.nodes)}

\* The new package: each entry is one node, no two have one name, all can be read
\* together, and without the signature it is what the old one was.
LEMMA Reread ==
  ASSUME NEW m, IsModel(m), NEW sig, IsBytes(sig), NEW f, Rebuilt(m, sig, f)
  PROVE  LET w == Parse(f)
         IN  /\ w.ok /\ IsModel(w) /\ w.image = f
             /\ AllFit(w, 1..Len(w.nodes))
             /\ AllContent(w) = With(m, sig)
             /\ \A i, j \in 1..Len(w.nodes) : Alone(w, i) = Alone(w, j) => i = j
             /\ UniqueNames(w.nodes, 1..Len(w.nodes))
             /\ OwnContent(w) = OwnContent(m)
             /\ Contents(w, FALSE).ok
<1> DEFINE w == Parse(f)
           N == Len(w.nodes)
           c == Contents(w, TRUE)
           E == With(m, sig)
<1>1. w.ok /\ IsModel(w) /\ w.image = f
  BY ParseType DEF Rebuilt
<1>2. c.ok /\ ToSet(c.nodes) = E /\ Len(c.nodes) = Cardinality(E)
  BY DEF Rebuilt
<1>3. ToldApart(E) /\ \A e \in E : ~IsSignature(e) <=> e \in OwnContent(m)
  BY RunIs DEF Rebuilt
<1> HIDE DEF w, E
<1>4. N \in Nat /\ w.nodes \in Seq(NodeType)
  BY <1>1 DEF IsModel
<1>5. Kept(w, TRUE, N) = 1..N
  BY DEF Kept
<1>6. /\ AllFit(w, 1..N)
      /\ ToSet(c.nodes) = {Alone(w, i) : i \in 1..N}
      /\ Len(c.nodes) = N
  BY <1>1, <1>2, <1>5, ContentsIs
<1> HIDE DEF c, N
<1>7. {Alone(w, i) : i \in 1..N} = E /\ N = Cardinality(E)
  BY <1>2, <1>6
<1>8. \A i, j \in 1..N : Alone(w, i) = Alone(w, j) => i = j
  <2> DEFINE s == [i \in 1..N |-> Alone(w, i)]
  <2>1. \A i \in 1..N : Alone(w, i) \in E
    BY <1>7
  <2>2. s \in Seq(E) /\ Len(s) = N
    BY <1>4, <2>1
  <2>3. ToSet(s) = E
    BY <1>7 DEF ToSet
  <2>4. \A i \in 1..N : s[i] = Alone(w, i)
    OBVIOUS
  <2> HIDE DEF s
  <2>5. \A i, j \in 1..Len(s) : s[i] = s[j] => i = j
    BY <1>7, <2>2, <2>3, ToSetFinite
  <2> QED BY <2>2, <2>4, <2>5
<1>9. UniqueNames(w.nodes, 1..N)
  <2>1. ASSUME NEW i \in 1..N, NEW j \in 1..N, i # j
        PROVE  \/ PathLess(w.nodes[i].path, w.nodes[j].path)
               \/ PathLess(w.nodes[j].path, w.nodes[i].path)
    <3>1. Alone(w, i) \in E /\ Alone(w, j) \in E /\ Alone(w, i) # Alone(w, j)
      BY <1>7, <1>8, <2>1
    <3>2. \/ PathLess(Alone(w, i).path, Alone(w, j).path)
          \/ PathLess(Alone(w, j).path, Alone(w, i).path)
      BY <1>3, <3>1 DEF ToldApart
    <3> QED BY <3>2, ContentIs
  <2> QED BY <2>1 DEF UniqueNames
<1>10. Own(w) = {i \in 1..N : ~IsSignature(Alone(w, i))}
  BY <1>1, OwnIs, ContentIs DEF N
<1>11. OwnContent(w) = OwnContent(m)
  <2>1. OwnContent(w) = {e \in E : ~IsSignature(e)}
    BY <1>7, <1>10 DEF OwnContent
  <2>2. OwnContent(m) \subseteq E
    BY DEF With, E
  <2> QED BY <1>3, <2>1, <2>2
<1>12. Contents(w, FALSE).ok
  <2>1. AllFit(w, Own(w))
    BY <1>6, <1>10 DEF AllFit
  <2> QED BY <1>1, <2>1, ContentsIs DEF Own, N
<1>13. AllContent(w) = E
  BY <1>7 DEF AllContent, N
<1> QED BY <1>1, <1>6, <1>8, <1>9, <1>11, <1>12, <1>13 DEF w, N, E

\* The layout depends on the old image only through its version.
LEMMA LayOutSame ==
  ASSUME NEW a, NEW b, a.version = b.version, NEW entries
  PROVE  LayOut(a, entries) = LayOut(b, entries)
<1>1. \A l, sectors : Assemble(a, l, sectors) = Assemble(b, l, sectors)
  BY DEF Assemble, Header
<1>2. \A l : Serialise(a, entries, l) = Serialise(b, entries, l)
  BY <1>1 DEF Serialise
<1>3. \A l : WriteEntries(a, entries, l) = WriteEntries(b, entries, l)
  BY <1>2 DEF WriteEntries
<1> QED BY <1>3 DEF LayOut

\* A write into what a write left gives what the write into the old package gives.
LEMMA WriteAgain ==
  ASSUME NEW m, IsModel(m), NEW sig, IsBytes(sig), NEW f, Rebuilt(m, sig, f),
         NEW new, IsBytes(new)
  PROVE  WriteCfb(Parse(f), new) = WriteCfb(m, new)
<1> DEFINE w == Parse(f)
           N == Len(w.nodes)
<1>1. /\ w.ok /\ IsModel(w) /\ w.image = f
      /\ UniqueNames(w.nodes, 1..N)
      /\ OwnContent(w) = OwnContent(m)
      /\ Contents(w, FALSE).ok
  BY Reread
<1>2. Contents(m, FALSE).ok /\ CheckUniqueNames(m, sig) /\ f.version = m.image.version
  BY DEF Rebuilt
<1> HIDE DEF w
<1>3. Own(w) = {i \in DOMAIN w.nodes : ~IsSignature(w.nodes[i])}
      /\ Own(m) = {i \in DOMAIN m.nodes : ~IsSignature(m.nodes[i])}
      /\ Own(w) \subseteq 1..N
  BY <1>1, OwnIs
<1>4. CheckUniqueNames(w, new) <=> CheckUniqueNames(m, new)
  <2>1. UniqueNames(w.nodes, Own(w))
    BY <1>1, <1>3 DEF UniqueNames
  <2>2. UniqueNames(m.nodes, Own(m))
    BY <1>2, <1>3 DEF CheckUniqueNames
  <2> DEFINE Clear(e) == PathLess(e.path, <<SignatureName>>) \/ PathLess(<<SignatureName>>, e.path)
  <2>3. ASSUME NEW x
        PROVE  (\A i \in Own(x) : \/ PathLess(x.nodes[i].path, <<SignatureName>>)
                                  \/ PathLess(<<SignatureName>>, x.nodes[i].path))
               <=> \A e \in OwnContent(x) : Clear(e)
    BY ContentIs DEF OwnContent
  <2>4. (\A i \in Own(w) : \/ PathLess(w.nodes[i].path, <<SignatureName>>)
                           \/ PathLess(<<SignatureName>>, w.nodes[i].path))
        <=> (\A i \in Own(m) : \/ PathLess(m.nodes[i].path, <<SignatureName>>)
                               \/ PathLess(<<SignatureName>>, m.nodes[i].path))
    BY <1>1, <2>3
  <2> QED BY <1>3, <2>1, <2>2, <2>4 DEF CheckUniqueNames
<1>5. CASE ~CheckUniqueNames(m, new)
  <2>1. ASSUME NEW x, ~CheckUniqueNames(x, new) PROVE WriteCfb(x, new) = Refused
    BY <2>1, Zenon DEF WriteCfb, WriteContents
  <2> QED BY <1>4, <1>5, <2>1, Zenon DEF w
<1>6. CASE CheckUniqueNames(m, new)
  <2> DEFINE a == Run(Contents(w, FALSE), new)
             b == Run(Contents(m, FALSE), new)
  <2>1. ToSet(a) = With(w, new) /\ ToSet(b) = With(m, new)
    BY <1>1, <1>2, <1>4, <1>6, RunIs
  <2>2. With(w, new) = With(m, new)
    BY <1>1 DEF With
  <2>3. Expand(a) = Expand(b)
    BY <2>1, <2>2 DEF Expand
  <2>4. LayOut(w.image, Expand(b)) = LayOut(m.image, Expand(b))
    BY <1>1, <1>2, LayOutSame
  <2>5. WriteCfb(w, new) = LayOut(w.image, Expand(a))
    BY <1>1, <1>4, <1>6 DEF WriteCfb, WriteContents
  <2>6. WriteCfb(m, new) = LayOut(m.image, Expand(b))
    BY <1>2, <1>6 DEF WriteCfb, WriteContents
  <2> HIDE DEF a, b
  <2> QED BY <2>3, <2>4, <2>5, <2>6, Zenon DEF w
<1> QED BY <1>5, <1>6 DEF w

\* The fingerprint of what a write left: there is one, and it is that of the old
\* package where that has one.
LEMMA FingerprintKept ==
  ASSUME NEW m, IsModel(m), NEW sig, IsBytes(sig), NEW f, Rebuilt(m, sig, f)
  PROVE  /\ ComputeFingerprint(Parse(f)).ok
         /\ ComputeFingerprint(m).ok => ComputeFingerprint(Parse(f)) = ComputeFingerprint(m)
<1> DEFINE w == Parse(f)
<1>1. /\ IsModel(w) /\ UniqueNames(w.nodes, 1..Len(w.nodes)) /\ OwnContent(w) = OwnContent(m)
      /\ Contents(w, FALSE).ok
  BY Reread
<1>2. Contents(m, FALSE).ok
  BY DEF Rebuilt
<1> HIDE DEF w
<1>3. ToSet(Contents(w, FALSE).nodes) = ToSet(Contents(m, FALSE).nodes)
  BY <1>1, <1>2, ContentsIs DEF OwnContent, Own
<1>4. RejectDuplicateNames(w)
  <2>1. DOMAIN w.nodes = 1..Len(w.nodes)
    BY <1>1 DEF IsModel
  <2> QED BY <1>1, <2>1 DEF RejectDuplicateNames, UniqueNames
<1>5. HashStorage(Contents(w, FALSE).nodes) = HashStorage(Contents(m, FALSE).nodes)
  BY <1>3, Zenon DEF HashStorage
<1>6. ComputeFingerprint(w) = [ok |-> TRUE, digest |-> HashStorage(Contents(w, FALSE).nodes)]
  BY <1>1, <1>4 DEF ComputeFingerprint, FingerprintOf
<1>7. ComputeFingerprint(w).ok
  BY <1>6
<1>8. ASSUME ComputeFingerprint(m).ok PROVE ComputeFingerprint(w) = ComputeFingerprint(m)
  <2>1. [ok |-> FALSE, digest |-> <<>>].ok = FALSE
    OBVIOUS
  <2>2. ComputeFingerprint(m) = IF RejectDuplicateNames(m)
                                THEN [ok |-> TRUE, digest |-> HashStorage(Contents(m, FALSE).nodes)]
                                ELSE [ok |-> FALSE, digest |-> <<>>]
    BY <1>2, Zenon DEF ComputeFingerprint, FingerprintOf
  <2>3. ComputeFingerprint(m) = [ok |-> TRUE, digest |-> HashStorage(Contents(m, FALSE).nodes)]
    BY <1>8, <2>1, <2>2, Zenon
  <2> QED BY <1>5, <1>6, <2>3, Zenon
<1> QED BY <1>7, <1>8 DEF w

\* The signature entry of what a write left.
LEMMA SignatureFound ==
  ASSUME NEW m, IsModel(m), NEW sig, IsBytes(sig), NEW f, Rebuilt(m, sig, f)
  PROVE  LET w == Parse(f)
         IN  IF sig = <<>> THEN SignatureEntry(w) = {}
             ELSE \E i \in 1..Len(w.nodes) : /\ SignatureEntry(w) = {w.nodes[i]}
                                             /\ i \notin Own(w)
                                             /\ BytesOf(w, w.nodes[i]) = sig
<1> DEFINE w == Parse(f)
           N == Len(w.nodes)
           at == {i \in DOMAIN w.nodes : w.nodes[i].path = <<SignatureName>>}
           E == With(m, sig)
<1>1. /\ IsModel(w) /\ AllFit(w, 1..N)
      /\ AllContent(w) = E
      /\ \A i, j \in 1..N : Alone(w, i) = Alone(w, j) => i = j
  BY Reread
<1>2. \A e \in E : ~IsSignature(e) <=> e \in OwnContent(m)
  BY RunIs DEF Rebuilt
<1>3. FindByEnumeration(w.nodes, SignatureName) = IF at = {} THEN 0 ELSE Min(at)
  BY DEF FindByEnumeration
<1> HIDE DEF w
<1>4. DOMAIN w.nodes = 1..N /\ N \in Nat /\ w.nodes \in Seq(NodeType)
  BY <1>1 DEF IsModel
<1>5. ASSUME NEW i \in at PROVE i \in 1..N /\ sig # <<>> /\ Alone(w, i) = SignatureStream(sig)
  <2>1. i \in 1..N /\ w.nodes[i].path = <<SignatureName>>
    BY <1>4
  <2>2. Alone(w, i) \in E /\ Alone(w, i).path = <<SignatureName>>
    BY <1>1, <2>1, ContentIs DEF AllContent
  <2>3. IsSignature(Alone(w, i))
    BY <2>2, SignatureStreamIs DEF IsSignature
  <2>4. Alone(w, i) \notin OwnContent(m)
    BY <1>2, <2>2, <2>3
  <2> QED BY <2>1, <2>2, <2>4 DEF With, E
<1>6. CASE sig = <<>>
  <2>1. at = {}
    BY <1>5, <1>6
  <2> HIDE DEF at
  <2>2. SignatureEntry(w) = {}
    BY <1>3, <2>1 DEF SignatureEntry
  <2> QED BY <1>6, <2>2 DEF w
<1>7. CASE sig # <<>>
  <2>1. SignatureStream(sig) \in E
    BY <1>7 DEF With, E
  <2>2. PICK i \in 1..N : Alone(w, i) = SignatureStream(sig)
    BY <1>1, <2>1 DEF AllContent
  <2>3. w.nodes[i].path = <<SignatureName>> /\ BytesOf(w, w.nodes[i]) = sig
        /\ IsSignature(w.nodes[i])
    BY <2>2, ContentIs, SignatureStreamIs
  <2>4. i \in at
    BY <1>4, <2>3
  <2>5. at = {i}
    BY <1>1, <1>5, <2>2, <2>4
  <2> HIDE DEF at
  <2>6. Min(at) = i
    <3>1. {i} \in SUBSET Nat /\ {i} # {}
      BY <1>4
    <3>2. Min({i}) \in {i}
      BY <3>1, MinIs
    <3> QED BY <2>5, <3>2
  <2>7. w.nodes[i].size # 0
    <3>1. Fits(w, w.nodes[i]) /\ w.nodes[i] \in NodeType
      BY <1>1, <1>4 DEF AllFit
    <3> QED BY <1>1, <1>7, <2>3, <3>1, BytesType
  <2>8. FindByEnumeration(w.nodes, SignatureName) = i /\ i # 0
    BY <1>3, <1>4, <2>5, <2>6
  <2>9. SignatureEntry(w) = {w.nodes[i]}
    BY <2>7, <2>8 DEF SignatureEntry
  <2>10. i \notin Own(w)
    BY <1>1, <2>3, OwnIs
  <2> QED BY <1>7, <2>3, <2>9, <2>10 DEF w, N
<1> QED BY <1>6, <1>7

\* The signature that was written is the one that is extracted.
LEMMA Extracted ==
  ASSUME NEW m, IsModel(m), NEW sig, IsBytes(sig), NEW f, Rebuilt(m, sig, f)
  PROVE  ExtractSignature(f) = IF sig = <<>> THEN {} ELSE {sig}
<1> DEFINE w == Parse(f)
<1>1. w.ok /\ IsModel(w) /\ AllFit(w, 1..Len(w.nodes))
  BY Reread
<1>2. IF sig = <<>> THEN SignatureEntry(w) = {}
      ELSE \E i \in 1..Len(w.nodes) : /\ SignatureEntry(w) = {w.nodes[i]}
                                      /\ i \notin Own(w)
                                      /\ BytesOf(w, w.nodes[i]) = sig
  BY SignatureFound
<1>3. ExtractSignature(f)
        = UNION {{r.bytes : r \in {q \in {Resolve(x, Unresolved, n) : n \in SignatureEntry(x)} : q.ok}} :
                  x \in {p \in {w} : p.ok}}
  BY DEF ExtractSignature
<1> HIDE DEF w
<1>4. {p \in {w} : p.ok} = {w}
  BY <1>1
<1> DEFINE S == {r.bytes : r \in {q \in {Resolve(w, Unresolved, n) : n \in SignatureEntry(w)} : q.ok}}
<1>5. ExtractSignature(f) = S
  BY <1>3, <1>4
<1>6. CASE sig = <<>>
  BY <1>2, <1>5, <1>6
<1>7. CASE sig # <<>>
  <2>1. PICK i \in 1..Len(w.nodes) : /\ SignatureEntry(w) = {w.nodes[i]}
                                     /\ BytesOf(w, w.nodes[i]) = sig
    BY <1>2, <1>7
  <2>2. Fits(w, w.nodes[i])
    BY <1>1 DEF AllFit
  <2> DEFINE q == Resolve(w, Unresolved, w.nodes[i])
  <2>3. q.ok /\ q.bytes = sig
    BY <2>1, <2>2 DEF Fits, BytesOf
  <2>4. {Resolve(w, Unresolved, n) : n \in SignatureEntry(w)} = {q}
    BY <2>1
  <2> HIDE DEF q
  <2>5. S = {sig}
    BY <2>3, <2>4
  <2> QED BY <1>5, <1>7, <2>5
<1> QED BY <1>6, <1>7

\* The state of a signature in terms of the stream read alone: where the answer
\* is about its digest, it can be read.
LEMMA ReadTogether ==
  ASSUME NEW m, IsModel(m), Contents(m, FALSE).ok, NEW n \in NodeType
  PROVE  LET r == Resolve(m, Contents(m, FALSE).used, n)
         IN  /\ r.ok <=> Fits(m, n) /\ \A i \in Own(m) : Apart(m, m.nodes[i], n)
             /\ r.ok => r.bytes = BytesOf(m, n)
<1> DEFINE u == Contents(m, FALSE).used
<1>1. AllFit(m, Own(m)) /\ Holds(m, Own(m), u)
  BY ContentsIs DEF Own
<1>2. Own(m) \in SUBSET (1..Len(m.nodes))
  BY OwnIs
<1> HIDE DEF u
<1>3. Joins(m, Own(m), u, n)
  BY <1>1, <1>2, StreamJoins DEF AllFit
<1> QED BY <1>3 DEF Joins, u

\* A signature that had to match does match in what was written.
LEMMA MatchKept ==
  ASSUME NEW m, IsModel(m), NEW sig, IsBytes(sig), sig # <<>>, NEW f, Rebuilt(m, sig, f),
         HoldsSha256(ReadAuthenticodeDigestField(sig)), MatchesWritten(sig, f)
  PROVE  CheckSignature(f) = "Matches"
<1> DEFINE w == Parse(f)
           field == ReadAuthenticodeDigestField(sig)
           computed == ComputeFingerprint(w)
<1>1. /\ w.ok /\ IsModel(w) /\ AllFit(w, 1..Len(w.nodes)) /\ Contents(w, FALSE).ok
  BY Reread
<1>2. PICK i \in 1..Len(w.nodes) : /\ SignatureEntry(w) = {w.nodes[i]}
                                   /\ i \notin Own(w)
                                   /\ BytesOf(w, w.nodes[i]) = sig
  BY SignatureFound
<1>3. computed = [ok |-> TRUE, digest |-> field.digest]
  BY DEF MatchesWritten
<1>4. CheckSignature(f) = CheckModel(w, Contents(w, FALSE), computed, SignatureEntry(w))
  BY <1>1 DEF CheckSignature, CheckParsed, CheckContents, ComputeFingerprint
<1> HIDE DEF w, computed, field
<1> DEFINE n == w.nodes[i]
           r == Resolve(w, Contents(w, FALSE).used, n)
<1>5. n \in NodeType
  BY <1>1 DEF IsModel
<1>6. r.ok /\ r.bytes = sig
  <2>1. Fits(w, n)
    BY <1>1 DEF AllFit
  <2>2. \A j \in Own(w) : Apart(w, w.nodes[j], n)
    BY <1>1, <1>2, OwnIs DEF AllFit
  <2> QED BY <1>1, <1>2, <1>5, <2>1, <2>2, ReadTogether
<1>7. computed.ok = TRUE /\ computed.digest = field.digest
  BY <1>3
<1>8. (CHOOSE x \in {n} : TRUE) = n /\ {n} # {}
  OBVIOUS
<1> HIDE DEF r, n
<1>9. CheckModel(w, Contents(w, FALSE), computed, {n}) = CompareSignature(r, computed.digest)
  BY <1>7, <1>8, Zenon DEF CheckModel, r
<1>10. CompareSignature(r, computed.digest) = Compared(field, computed.digest)
  BY <1>6, Zenon DEF CompareSignature, field
<1>11. Compared(field, computed.digest) = "Matches"
  BY <1>7 DEF Compared, HoldsSha256, field
<1> QED BY <1>2, <1>4, <1>9, <1>10, <1>11, Zenon DEF n

-----------------------------------------------------------------------------
(* What the signers leave. *)

\* An image is that of another tool, or one write into it gives the image.
Made(image, from) ==
  \/ image = from
  \/ \E sig : /\ IsBytes(sig) /\ Parse(from).ok
              /\ WriteCfb(Parse(from), sig) = [ok |-> TRUE, image |-> image]

\* An image that was made by a write reads back as what was written.
LEMMA MadeBy ==
  ASSUME NEW image, NEW from, IsImage(from), Made(image, from), image # from
  PROVE  /\ Parse(from).ok /\ IsModel(Parse(from))
         /\ \E sig : /\ IsBytes(sig) /\ Rebuilt(Parse(from), sig, image)
                     /\ WriteCfb(Parse(from), sig) = [ok |-> TRUE, image |-> image]
<1>1. PICK sig : /\ IsBytes(sig) /\ Parse(from).ok
                 /\ WriteCfb(Parse(from), sig) = [ok |-> TRUE, image |-> image]
  BY DEF Made
<1>2. IsModel(Parse(from))
  BY <1>1, ParseType
<1>3. WriteCfb(Parse(from), sig).ok /\ WriteCfb(Parse(from), sig).image = image
  BY <1>1
<1>4. Rebuilt(Parse(from), sig, image)
  BY <1>1, <1>2, <1>3, Written
<1> QED BY <1>1, <1>2, <1>4

\* What was made from an image is an image.
LEMMA MadeImage ==
  ASSUME NEW image, NEW from, IsImage(from), Made(image, from)
  PROVE  IsImage(image)
<1>1. CASE image = from
  BY <1>1
<1>2. CASE image # from
  BY <1>2, MadeBy DEF Rebuilt
<1> QED BY <1>1, <1>2

\* A write into what was made from a package is made from that package.
LEMMA MadeAgain ==
  ASSUME NEW image, NEW from, IsImage(from), Made(image, from), Parse(image).ok,
         NEW sig, IsBytes(sig), WriteCfb(Parse(image), sig).ok
  PROVE  LET new == WriteCfb(Parse(image), sig).image
         IN  /\ Made(new, from) /\ IsImage(new) /\ IsModel(Parse(image))
             /\ Rebuilt(Parse(image), sig, new)
<1> DEFINE r == WriteCfb(Parse(image), sig)
<1>1. IsImage(image)
  BY MadeImage
<1>2. IsModel(Parse(image))
  BY <1>1, ParseType
<1>3. r = [ok |-> TRUE, image |-> r.image] /\ Rebuilt(Parse(image), sig, r.image)
  BY <1>2, Written
<1>4. Made(r.image, from)
  <2>1. CASE image = from
    BY <1>3, <2>1, Zenon DEF Made
  <2>2. CASE image # from
    <3>1. Parse(from).ok /\ IsModel(Parse(from))
      BY <2>2, MadeBy
    <3>2. PICK old : IsBytes(old) /\ Rebuilt(Parse(from), old, image)
      BY <2>2, MadeBy
    <3>3. r = WriteCfb(Parse(from), sig)
      BY <3>1, <3>2, WriteAgain
    <3> HIDE DEF r
    <3> QED BY <1>3, <3>1, <3>3, Zenon DEF Made
  <2> QED BY <2>1, <2>2
<1>5. IsImage(r.image)
  BY <1>3 DEF Rebuilt
<1> QED BY <1>2, <1>3, <1>4, <1>5

\* The image at a path, or the one that is about to be: made from a package, and
\* with a signature that matches where it has to.
Sound(image, from, must_match) ==
  /\ IsImage(from) /\ Made(image, from)
  /\ must_match => CheckSignature(image) = "Matches"

\* A signature is a sequence of bytes.
LEMMA BlobIsBytes ==
  ASSUME NEW kind \in Blobs, NEW d
  PROVE  IsBytes(Blob(kind, d))
<1> DEFINE b == Blob(kind, d)
<1>1. kind.size \in Nat
  BY PackagesAssumption
<1>2. DOMAIN b = 1..kind.size /\ b = [i \in 1..kind.size |-> b[i]]
  BY DEF Blob
<1> HIDE DEF b
<1>3. IsBytes(b)
  BY <1>1, <1>2, RowIsBytes
<1> QED BY <1>3 DEF b

\* What EmbedSignature is about to write is made from the same package, and its
\* signature matches where it has to.
LEMMA EmbedSound ==
  ASSUME NEW image, NEW from, IsImage(from), Made(image, from), NEW blob, IsBytes(blob),
         NEW matching \in BOOLEAN, EmbedSignature(image, blob, matching).ok
  PROVE  Sound(EmbedSignature(image, blob, matching).image, from, matching)
<1> DEFINE m == Parse(image)
           r == WriteCfb(m, blob)
           e == EmbedSignature(image, blob, matching)
<1>1. Refused.ok = FALSE
  BY DEF Refused
<1>2. blob # <<>> /\ e = EmbedInto(m, blob, matching)
  BY <1>1 DEF EmbedSignature
<1>3. EmbedAccepts(m, blob, matching) /\ e = CheckWritten(r, blob, matching)
  <2>1. e = IF EmbedAccepts(m, blob, matching) THEN CheckWritten(r, blob, matching) ELSE Refused
    BY <1>2 DEF EmbedInto
  <2> HIDE DEF m, r, e
  <2> QED BY <1>1, <2>1 DEF e
<1>4. m.ok /\ (matching => HoldsSha256(ReadAuthenticodeDigestField(blob)))
  BY <1>3 DEF EmbedAccepts
<1>5. e = r /\ r.ok /\ (matching => MatchesWritten(blob, r.image))
  <2>1. e = IF r.ok /\ matching /\ ~MatchesWritten(blob, r.image) THEN Refused ELSE r
    BY <1>3 DEF CheckWritten
  <2>2. e.ok
    OBVIOUS
  <2> HIDE DEF m, r, e
  <2> QED BY <1>1, <2>1, <2>2
<1>6. Made(r.image, from) /\ IsModel(m) /\ Rebuilt(m, blob, r.image)
  BY <1>4, <1>5, MadeAgain
<1>7. matching => CheckSignature(r.image) = "Matches"
  BY <1>2, <1>4, <1>5, <1>6, MatchKept
<1> HIDE DEF m, r, e
<1> QED BY <1>5, <1>6, <1>7 DEF Sound, e

\* And so is what StripSignature is about to write.
LEMMA StripSound ==
  ASSUME NEW image, NEW from, IsImage(from), Made(image, from), StripSignature(image).ok
  PROVE  Sound(StripSignature(image).image, from, FALSE)
<1> DEFINE m == Parse(image)
           r == WriteCfb(m, <<>>)
           e == StripSignature(image)
<1>1. Refused.ok = FALSE
  BY DEF Refused
<1>2. e = IF m.ok /\ IsSigned(m) THEN r ELSE Refused
  BY DEF StripSignature, StripFrom
<1>3. m.ok /\ e = r /\ r.ok
  <2>1. e.ok
    OBVIOUS
  <2> HIDE DEF m, r, e
  <2> QED BY <1>1, <1>2, <2>1
<1>4. Made(r.image, from)
  BY <1>3, NoBytes, MadeAgain
<1> HIDE DEF m, r, e
<1> QED BY <1>3, <1>4 DEF Sound, e

\* The inductive invariant: at any time the file, and what each signer is about
\* to put in its place, is another tool's package or what one write into it gives.
AllSound ==
  /\ DOMAIN pc = Signers /\ DOMAIN next = Signers
  /\ Sound(file, base, asked)
  /\ \A s \in Signers : pc[s] = "write" => Sound(next[s].image, next[s].base, next[s].asked)

\* Another tool's package is made from itself.
LEMMA OwnSound ==
  ASSUME NEW image, IsImage(image)
  PROVE  Sound(image, image, FALSE)
BY DEF Sound, Made

\* The inductive invariant holds at first,
LEMMA InitSound == Init => AllSound
<1> SUFFICES ASSUME Init PROVE AllSound
  OBVIOUS
<1>1. IsImage(file) /\ base = file /\ asked = FALSE
  BY PackagesAssumption DEF Init
<1>2. Sound(file, base, asked)
  BY <1>1, OwnSound
<1>3. DOMAIN pc = Signers /\ DOMAIN next = Signers /\ \A s \in Signers : pc[s] # "write"
  BY DEF Init
<1> QED BY <1>2, <1>3 DEF AllSound

\* every step keeps it,
LEMMA NextSound == AllSound /\ [Next]_vars => AllSound'
<1> SUFFICES ASSUME AllSound, [Next]_vars PROVE AllSound'
  OBVIOUS
<1>1. /\ DOMAIN pc = Signers /\ DOMAIN next = Signers /\ Sound(file, base, asked)
      /\ IsImage(base) /\ Made(file, base)
  BY DEF AllSound, Sound
<1>2. \A s \in Signers : pc[s] = "write" => Sound(next[s].image, next[s].base, next[s].asked)
  BY DEF AllSound
<1>3. ASSUME NEW s \in Signers, ComputeAuthenticodeDigest(s) PROVE AllSound'
  <2>1. /\ file' = file /\ base' = base /\ asked' = asked /\ next' = next
        /\ pc' = [pc EXCEPT ![s] = "signed"]
    BY <1>3 DEF ComputeAuthenticodeDigest
  <2>2. DOMAIN pc' = Signers /\ \A t \in Signers : pc'[t] = "write" => pc[t] = "write"
    BY <1>1, <2>1
  <2> QED BY <1>1, <1>2, <2>1, <2>2 DEF AllSound
<1>4. ASSUME NEW s \in Signers, NEW kind \in Blobs, NEW matching \in BOOLEAN,
             Embed(s, kind, matching)
      PROVE  AllSound'
  <2> DEFINE blob == Blob(kind, digest[s])
             r == EmbedSignature(file, blob, matching)
             new == [image |-> r.image, base |-> base, asked |-> matching]
  <2>1. file' = file /\ base' = base /\ asked' = asked
    BY <1>4 DEF Embed
  <2>2. CASE r.ok
    <3>1. pc' = [pc EXCEPT ![s] = "write"] /\ next' = [next EXCEPT ![s] = new]
      BY <1>4, <2>2 DEF Embed
    <3>2. Sound(r.image, base, matching)
      BY <1>1, <2>2, BlobIsBytes, EmbedSound
    <3>3. Sound(new.image, new.base, new.asked)
      BY <3>2
    <3> HIDE DEF new
    <3>4. /\ DOMAIN pc' = Signers /\ DOMAIN next' = Signers /\ next'[s] = new
          /\ \A t \in Signers \ {s} : pc'[t] = pc[t] /\ next'[t] = next[t]
      BY <1>1, <3>1
    <3>5. \A t \in Signers : pc'[t] = "write" => Sound(next'[t].image, next'[t].base, next'[t].asked)
      BY <1>2, <3>3, <3>4
    <3> QED BY <1>1, <2>1, <3>4, <3>5 DEF AllSound
  <2>3. CASE ~r.ok
    <3>1. pc' = [pc EXCEPT ![s] = "idle"] /\ next' = next
      BY <1>4, <2>3 DEF Embed
    <3>2. DOMAIN pc' = Signers /\ \A t \in Signers : pc'[t] = "write" => pc[t] = "write"
      BY <1>1, <3>1
    <3> QED BY <1>1, <1>2, <2>1, <3>1, <3>2 DEF AllSound
  <2> QED BY <2>2, <2>3
<1>5. ASSUME NEW s \in Signers, Strip(s) PROVE AllSound'
  <2> DEFINE r == StripSignature(file)
             new == [image |-> r.image, base |-> base, asked |-> FALSE]
  <2>1. /\ file' = file /\ base' = base /\ asked' = asked /\ r.ok
        /\ pc' = [pc EXCEPT ![s] = "write"] /\ next' = [next EXCEPT ![s] = new]
    BY <1>5 DEF Strip
  <2>2. Sound(r.image, base, FALSE)
    BY <1>1, <2>1, StripSound
  <2>3. Sound(new.image, new.base, new.asked)
    BY <2>2
  <2> HIDE DEF new
  <2>4. /\ DOMAIN pc' = Signers /\ DOMAIN next' = Signers /\ next'[s] = new
        /\ \A t \in Signers \ {s} : pc'[t] = pc[t] /\ next'[t] = next[t]
    BY <1>1, <2>1
  <2>5. \A t \in Signers : pc'[t] = "write" => Sound(next'[t].image, next'[t].base, next'[t].asked)
    BY <1>2, <2>3, <2>4
  <2> QED BY <1>1, <2>1, <2>4, <2>5 DEF AllSound
<1>6. ASSUME NEW s \in Signers, Replace(s) \/ Fail(s) PROVE AllSound'
  <2>1. /\ pc[s] = "write"
        /\ pc' = [pc EXCEPT ![s] = "idle"] /\ next' = [next EXCEPT ![s] = Nothing]
        /\ \/ file' = file /\ base' = base /\ asked' = asked
           \/ file' = next[s].image /\ base' = next[s].base /\ asked' = next[s].asked
    BY <1>6 DEF Replace, Fail
  <2>2. Sound(file', base', asked')
    BY <1>1, <1>2, <2>1
  <2>3. /\ DOMAIN pc' = Signers /\ DOMAIN next' = Signers /\ pc'[s] = "idle"
        /\ \A t \in Signers \ {s} : pc'[t] = pc[t] /\ next'[t] = next[t]
    BY <1>1, <2>1
  <2>4. \A t \in Signers : pc'[t] = "write" => Sound(next'[t].image, next'[t].base, next'[t].asked)
    BY <1>2, <2>3
  <2> QED BY <2>2, <2>3, <2>4 DEF AllSound
<1>7. ASSUME OtherTool PROVE AllSound'
  <2>1. file' \in Others /\ base' = file' /\ asked' = FALSE /\ pc' = pc /\ next' = next
    BY <1>7 DEF OtherTool
  <2>2. IsImage(file')
    BY <2>1, PackagesAssumption
  <2>3. Sound(file', base', asked')
    BY <2>1, <2>2, OwnSound
  <2> QED BY <1>1, <1>2, <2>1, <2>3 DEF AllSound
<1>8. CASE UNCHANGED vars
  BY <1>1, <1>2, <1>8 DEF AllSound, vars
<1> QED BY <1>3, <1>4, <1>5, <1>6, <1>7, <1>8 DEF Next

\* and so it always holds.
LEMMA AlwaysSound == Spec => []AllSound
BY InitSound, NextSound, PTL DEF Spec

-----------------------------------------------------------------------------
(* The properties. *)

\* The file and the package it was made from are images.
LEMMA SoundFile == AllSound => IsImage(file) /\ IsImage(base) /\ Made(file, base)
BY MadeImage DEF AllSound, Sound

\* An ordinary stream that can be read takes the sectors its size needs.
LEMMA OrdinaryLength ==
  ASSUME NEW m, IsModel(m), NEW n \in NodeType, IsOrdinary(n), Fits(m, n)
  PROVE  Len(WalkChain(m, n.start, {}).chain) = UnitsFor(n.size, CellsOf(m.image))
<1> DEFINE w == WalkChain(m, n.start, {})
<1>1. HasFat(m) /\ n.start \in Nat /\ {} \in SUBSET Nat
  BY DEF IsModel, NodeType
<1>2. w \in WalkState
  BY <1>1, ChainWalk
<1>3. DOMAIN Unresolved = {"ok", "used", "mini_used", "ready", "container", "bytes"}
  BY DEF Unresolved
<1>4. ReadOrdinary(m, Unresolved, n, CellsOf(m.image), w).ok
  BY DEF Fits, Resolve, ResolveOrdinary, IsOrdinary, Unresolved
<1> HIDE DEF w
<1>5. OrdinaryFits(m, n, CellsOf(m.image), w.chain)
  BY <1>2, <1>3, <1>4, ReadOrdinaryIs
<1> QED BY <1>5 DEF OrdinaryFits, CheckChainLength, w

\* A small stream that can be read takes the mini sectors its size needs, out of
\* a mini stream that covers its own size.
LEMMA MiniLength ==
  ASSUME NEW m, IsModel(m), NEW n \in NodeType, IsMini(n), Fits(m, n)
  PROVE  /\ Len(WalkMiniChain(m, n.start, {}).chain) = UnitsFor(n.size, MiniSectorSize)
         /\ m.mini_size # 0
         /\ Len(WalkChain(m, m.mini_start, {}).chain) >= UnitsFor(m.mini_size, CellsOf(m.image))
<1> DEFINE o == EnsureMiniStream(m, Unresolved)
           cells == CellsOf(m.image)
           w == WalkMiniChain(m, n.start, {})
           v == WalkChain(m, m.mini_start, {})
           chain == w.chain
           field == {"ok", "used", "mini_used", "ready", "container", "bytes"}
<1>1. /\ HasFat(m) /\ n.start \in Nat /\ m.mini_start \in Nat /\ {} \in SUBSET Nat
      /\ n.size \in Nat /\ n.size # 0 /\ m.mini_size \in Nat
  BY DEF IsModel, NodeType, IsMini
<1>2. w \in WalkState /\ v \in WalkState
  BY <1>1, ChainWalk, MiniChainWalk
<1>3. DOMAIN Unresolved = field /\ ~Unresolved.ready /\ Unresolved.ok /\ Unresolved.used = {}
      /\ Unresolved.mini_used = {}
  BY DEF Unresolved
<1>4. o = IF m.mini_size = 0 THEN [Unresolved EXCEPT !.ready = TRUE]
          ELSE KeepMiniStream(m, Unresolved, cells, v)
  BY <1>3 DEF EnsureMiniStream
<1> HIDE DEF v, cells
<1>5. m.mini_size # 0 => /\ DOMAIN o = field /\ o.mini_used = {}
                         /\ o.ok = (v.ok /\ ContainerFits(m, cells, v.chain))
  BY <1>2, <1>3, <1>4, KeepMiniStreamIs
<1>6. m.mini_size = 0 => DOMAIN o = field /\ o.mini_used = {}
  BY <1>3, <1>4
<1>7. Fits(m, n) = (IF ~o.ok THEN o
                    ELSE ReadMini(m, o, n, cells, WalkMiniChain(m, n.start, o.mini_used))).ok
  BY DEF Fits, Resolve, ResolveMini, ResolveInContainer, IsMini, cells
<1> HIDE DEF o
<1>8. o.ok /\ ReadMini(m, o, n, cells, w).ok
  BY <1>5, <1>6, <1>7
<1> HIDE DEF w
<1>9. MiniFits(m, n, chain)
  BY <1>2, <1>5, <1>6, <1>8, ReadMiniIs
<1>10. chain \in Seq(Nat)
  BY <1>2 DEF WalkState
<1> HIDE DEF chain
<1>11. Len(chain) = UnitsFor(n.size, MiniSectorSize)
  BY <1>9 DEF MiniFits, CheckChainLength
<1>12. m.mini_size # 0
  <2>1. MiniSectorSize \in Nat /\ MiniSectorSize # 0
    BY LimitsAssumption
  <2>2. MiniPlace(chain, 1) < m.mini_size
    BY <1>1, <1>9 DEF MiniFits
  <2>3. UnitsFor(n.size, MiniSectorSize) \in Nat \ {0}
    BY <1>1, <2>1, SomeUnits
  <2>4. chain[1] \in Nat
    BY <1>10, <1>11, <2>3
  <2>5. 0 \div MiniSectorSize = 0 /\ 0 % MiniSectorSize = 0
    BY <2>1, Z3
  <2>6. MiniPlace(chain, 1) = chain[1] * MiniSectorSize
    BY <2>1, <2>4, <2>5 DEF MiniPlace
  <2>7. chain[1] * MiniSectorSize \in Nat
    BY <2>1, <2>4
  <2> QED BY <1>1, <2>2, <2>6, <2>7
<1>13. Len(v.chain) >= UnitsFor(m.mini_size, cells)
  BY <1>5, <1>8, <1>12 DEF ContainerFits
<1> QED BY <1>11, <1>12, <1>13 DEF chain, w, v, cells

\* Whatever an image is, its walks end, and streams that are read together have
\* the sectors they need and share none.
LEMMA SoundWalks == AllSound => WalksEnd
<1> SUFFICES ASSUME AllSound, Parse(file).ok
             PROVE  LET m == Parse(file)
                        streams == {n \in ToSet(m.nodes) : ~n.storage /\ n.size # 0}
                    IN  /\ EachWalkEnds(m, streams)
                        /\ Contents(m, TRUE).ok
                             => StreamsApart(m, FollowChain(m, m.mini_start), streams)
  BY DEF WalksEnd
<1> DEFINE m == Parse(file)
           N == Len(m.nodes)
           streams == {n \in ToSet(m.nodes) : ~n.storage /\ n.size # 0}
           container == FollowChain(m, m.mini_start)
<1>1. IsImage(file) /\ IsModel(m) /\ m.image = file
  BY SoundFile, ParseType
<1> HIDE DEF m
<1>2. /\ HasFat(m) /\ N \in Nat /\ DOMAIN m.nodes = 1..N /\ \A i \in 1..N : m.nodes[i] \in NodeType
      /\ m.mini_start \in Nat /\ {} \in SUBSET Nat
  BY <1>1 DEF IsModel
<1>3. \A n \in streams : \E i \in 1..N : n = m.nodes[i]
  BY <1>2 DEF ToSet
<1>4. ASSUME NEW n \in streams
      PROVE  /\ n \in NodeType /\ n.start \in Nat
             /\ InMiniStream(n) => /\ IsMini(n)
                                   /\ WalkOf(m, n) = WalkMiniChain(m, n.start, {})
                                   /\ UnitOf(m, n) = MiniSectorSize
             /\ ~InMiniStream(n) => /\ IsOrdinary(n)
                                    /\ WalkOf(m, n) = WalkChain(m, n.start, {})
                                    /\ UnitOf(m, n) = CellsOf(m.image)
  <2>1. n \in NodeType /\ ~n.storage /\ n.size # 0
    BY <1>2, <1>3
  <2>2. n.start \in Nat
    BY <2>1 DEF NodeType
  <2> QED BY <2>1, <2>2 DEF IsMini, IsOrdinary, InMiniStream, WalkOf, UnitOf, FollowChain
<1>5. \A start \in Nat : Ended(FollowChain(m, start)) /\ Ended(WalkMiniChain(m, start, {}))
  BY <1>2, ChainWalk, MiniChainWalk DEF FollowChain
<1>6. file.first_dir \in Nat /\ file.first_mini_fat \in Nat
  BY <1>1 DEF IsImage
<1>7. \A n \in streams : Ended(WalkOf(m, n))
  BY <1>4, <1>5 DEF FollowChain
<1>8. ASSUME Contents(m, TRUE).ok, NEW n \in streams
      PROVE  /\ Len(WalkOf(m, n).chain) = UnitsFor(n.size, UnitOf(m, n))
             /\ InMiniStream(n) => /\ m.mini_size # 0
                                   /\ Len(container.chain) >= UnitsFor(m.mini_size, CellsOf(file))
             /\ \A other \in streams \ {n} : Apart(m, n, other)
  <2>1. Kept(m, TRUE, N) = 1..N
    BY DEF Kept
  <2>2. AllFit(m, 1..N)
    BY <1>1, <1>8, <2>1, ContentsIs
  <2>3. Fits(m, n)
    BY <1>3, <2>2 DEF AllFit
  <2>4. \A other \in streams \ {n} : Apart(m, n, other)
    BY <1>3, <2>2 DEF AllFit
  <2>5. CASE InMiniStream(n)
    BY <1>1, <1>4, <2>3, <2>4, <2>5, MiniLength DEF FollowChain
  <2>6. CASE ~InMiniStream(n)
    BY <1>1, <1>4, <2>3, <2>4, <2>6, OrdinaryLength
  <2> QED BY <2>5, <2>6
<1>9. ASSUME Contents(m, TRUE).ok, NEW n \in streams, NEW other \in streams \ {n}
      PROVE  /\ InMiniStream(n) = InMiniStream(other) => Disjoint(WalkOf(m, n), WalkOf(m, other))
             /\ InMiniStream(n) /\ ~InMiniStream(other) => Disjoint(container, WalkOf(m, other))
  <2>1. other \in streams /\ Apart(m, n, other)
    BY <1>8, <1>9
  <2>2. CASE InMiniStream(n) /\ InMiniStream(other)
    <3>1. TakesMini(m, n) \cap TakesMini(m, other) = {}
      BY <2>1 DEF Apart
    <3> QED BY <1>4, <2>1, <2>2, <3>1 DEF TakesMini, Disjoint
  <2>3. CASE ~InMiniStream(n) /\ ~InMiniStream(other)
    <3>1. Takes(m, n) \cap Takes(m, other) = {}
      BY <1>4, <2>1, <2>3 DEF Apart, IsMini, IsOrdinary
    <3> QED BY <1>4, <2>1, <2>3, <3>1 DEF Takes, Disjoint
  <2>4. CASE InMiniStream(n) /\ ~InMiniStream(other)
    <3>1. IsMini(n) /\ ~IsOrdinary(n) /\ IsOrdinary(other) /\ ~IsMini(other)
      BY <1>4, <2>1, <2>4 DEF IsMini, IsOrdinary
    <3>2. Takes(m, n) \cap Takes(m, other) = {}
      BY <2>1, <3>1 DEF Apart
    <3>3. m.mini_size # 0
      BY <1>8, <1>9, <2>4
    <3>4. Takes(m, n) = ToSet(container.chain) /\ Takes(m, other) = ToSet(WalkOf(m, other).chain)
      BY <1>4, <2>1, <2>4, <3>1, <3>3 DEF Takes, FollowChain
    <3> QED BY <2>4, <3>2, <3>4 DEF Disjoint
  <2>5. InMiniStream(n) \in BOOLEAN /\ InMiniStream(other) \in BOOLEAN
    BY DEF InMiniStream
  <2>6. CASE ~InMiniStream(n) /\ InMiniStream(other)
    BY <2>5, <2>6
  <2> QED BY <2>2, <2>3, <2>4, <2>5, <2>6
<1> HIDE DEF streams, container
<1>10. EachWalkEnds(m, streams)
  BY <1>1, <1>2, <1>5, <1>6, <1>7 DEF EachWalkEnds
<1>11. Contents(m, TRUE).ok => StreamsApart(m, container, streams)
  BY <1>1, <1>8, <1>9 DEF StreamsApart
<1> QED BY <1>10, <1>11 DEF m, streams, container

\* The three questions about a signature.
LEMMA SoundAnswers == AllSound => SignatureTold
<1> SUFFICES ASSUME AllSound
             PROVE  LET state == CheckSignature(file)
                        has == HasEmbeddedSignature(file)
                    IN  /\ asked => state = "Matches"
                        /\ has <=> ExtractSignature(file) # {}
                        /\ state \in {"Matches", "Mismatch"} => has
                        /\ state = "None" => ~has
  BY DEF SignatureTold
<1> DEFINE m == Parse(file)
           entry == SignatureEntry(m)
           state == CheckSignature(file)
           has == HasEmbeddedSignature(file)
           read == m.ok /\ \E n \in entry : Fits(m, n)
<1>1. asked => state = "Matches"
  BY DEF AllSound, Sound
<1>2. IsImage(file)
  BY SoundFile
<1>3. has <=> read
  BY DEF HasEmbeddedSignature, Fits
<1>4. ExtractSignature(file) # {} <=> read
  <2> DEFINE Q(p) == {q \in {Resolve(p, Unresolved, n) : n \in SignatureEntry(p)} : q.ok}
  <2>1. ExtractSignature(file) = UNION {{r.bytes : r \in Q(p)} : p \in {p \in {m} : p.ok}}
    BY DEF ExtractSignature
  <2>2. Q(m) # {} <=> \E n \in entry : Fits(m, n)
    BY DEF Fits
  <2> HIDE DEF Q, m
  <2>3. CASE m.ok
    <3>1. {p \in {m} : p.ok} = {m}
      BY <2>3
    <3>2. ExtractSignature(file) = {r.bytes : r \in Q(m)}
      BY <2>1, <3>1
    <3> QED BY <2>2, <2>3, <3>2
  <2>4. CASE ~m.ok
    <3>1. {p \in {m} : p.ok} = {}
      BY <2>4
    <3> QED BY <2>1, <2>4, <3>1
  <2> QED BY <2>3, <2>4
<1>5. ASSUME state \in {"Matches", "Mismatch", "None"}
      PROVE  m.ok /\ Contents(m, FALSE).ok
             /\ state = IF entry = {} THEN "None"
                        ELSE CompareSignature(Resolve(m, Contents(m, FALSE).used, CHOOSE n \in entry : TRUE),
                                              ComputeFingerprint(m).digest)
  <2> DEFINE c == Contents(m, FALSE)
             p == FingerprintOf(m, c)
             answer == CompareSignature(Resolve(m, c.used, CHOOSE n \in entry : TRUE), p.digest)
  <2>1. state = IF m.ok THEN CheckModel(m, c, p, entry) ELSE "throws"
    BY DEF CheckSignature, CheckParsed, CheckContents
  <2>2. CheckModel(m, c, p, entry)
          = IF ~p.ok THEN "throws" ELSE IF entry = {} THEN "None" ELSE answer
    BY DEF CheckModel
  <2>3. p.ok => c.ok
    BY DEF FingerprintOf
  <2>4. p = ComputeFingerprint(m)
    BY DEF ComputeFingerprint
  <2>5. state # "throws"
    BY <1>5
  <2> HIDE DEF m, c, p, answer, entry, state
  <2>6. m.ok /\ p.ok /\ state = IF entry = {} THEN "None" ELSE answer
    BY <2>1, <2>2, <2>5
  <2> DEFINE told == CompareSignature(Resolve(m, c.used, CHOOSE n \in entry : TRUE),
                                      ComputeFingerprint(m).digest)
  <2>7. answer = told
    BY <2>4, Zenon DEF answer
  <2>8. m.ok /\ c.ok
    BY <2>3, <2>6
  <2> HIDE DEF told
  <2>9. state = IF entry = {} THEN "None" ELSE told
    BY <2>6, <2>7
  <2> QED BY <2>8, <2>9 DEF c, told
<1>6. ASSUME state \in {"Matches", "Mismatch"} PROVE read
  <2> DEFINE n == CHOOSE x \in entry : TRUE
             r == Resolve(m, Contents(m, FALSE).used, n)
  <2>1. m.ok /\ Contents(m, FALSE).ok
    BY <1>5, <1>6
  <2>2. entry # {} /\ state = CompareSignature(r, ComputeFingerprint(m).digest)
    BY <1>5, <1>6
  <2>3. r.ok
    <3> HIDE DEF r, state
    <3> QED BY <1>6, <2>2 DEF CompareSignature
  <2>4. n \in entry
    <3> HIDE DEF entry
    <3> QED BY <2>2
  <2>5. IsModel(m)
    BY <1>2, <2>1, ParseType
  <2> HIDE DEF m, n
  <2>6. n \in NodeType
    <3> DEFINE at == FindByEnumeration(m.nodes, SignatureName)
               A == {i \in DOMAIN m.nodes : m.nodes[i].path = <<SignatureName>>}
    <3>1. at # 0 /\ n = m.nodes[at]
      BY <2>2, <2>4 DEF SignatureEntry
    <3>2. at = IF A = {} THEN 0 ELSE Min(A)
      BY DEF FindByEnumeration
    <3>3. DOMAIN m.nodes = 1..Len(m.nodes) /\ \A i \in 1..Len(m.nodes) : m.nodes[i] \in NodeType
      BY <2>5 DEF IsModel
    <3>4. A \in SUBSET Nat /\ A \subseteq 1..Len(m.nodes)
      BY <3>3
    <3> HIDE DEF at, A
    <3>5. A # {} /\ at = Min(A)
      BY <3>1, <3>2
    <3>6. at \in A
      BY <3>4, <3>5, MinIs
    <3> QED BY <3>1, <3>3, <3>4, <3>6
  <2>7. Fits(m, n)
    BY <2>1, <2>3, <2>5, <2>6, ReadTogether
  <2> QED BY <2>1, <2>4, <2>7
<1>7. ASSUME state = "None" PROVE ~read
  <2> DEFINE answer == CompareSignature(Resolve(m, Contents(m, FALSE).used, CHOOSE n \in entry : TRUE),
                                        ComputeFingerprint(m).digest)
  <2>1. answer \in {"Unreadable", "Matches", "Mismatch"}
    BY DEF CompareSignature, Compared
  <2>2. state = IF entry = {} THEN "None" ELSE answer
    BY <1>5, <1>7
  <2> HIDE DEF answer, state, m, entry
  <2>3. entry = {}
    BY <1>7, <2>1, <2>2
  <2> QED BY <2>3
<1> HIDE DEF read, state, has
<1>8. /\ has <=> ExtractSignature(file) # {}
      /\ state \in {"Matches", "Mismatch"} => has
      /\ state = "None" => ~has
  BY <1>3, <1>4, <1>6, <1>7
<1> QED BY <1>1, <1>8 DEF state, has

\* The content of the other tool's package is in what was made from it.
LEMMA SoundContent == AllSound => ContentKept
<1> SUFFICES ASSUME AllSound, file # base
             PROVE  LET now == Parse(file)
                        then == Parse(base)
                    IN  /\ now.ok
                        /\ ComputeFingerprint(now).ok
                        /\ ComputeFingerprint(then).ok => ComputeFingerprint(now) = ComputeFingerprint(then)
                        /\ {n \in ToSet(Contents(now, TRUE).nodes) : ~IsSignature(n)}
                             = ToSet(Contents(then, FALSE).nodes)
  BY DEF ContentKept
<1> DEFINE now == Parse(file)
           then == Parse(base)
<1>1. IsImage(base) /\ Made(file, base)
  BY SoundFile
<1>2. then.ok /\ IsModel(then)
  BY <1>1, MadeBy
<1>3. PICK sig : IsBytes(sig) /\ Rebuilt(then, sig, file)
  BY <1>1, MadeBy
<1>4. ToSet(Contents(then, FALSE).nodes) = OwnContent(then)
  BY <1>2, <1>3, ContentsIs DEF Rebuilt, OwnContent, Own
<1>5. \A e \in With(then, sig) : ~IsSignature(e) <=> e \in OwnContent(then)
  BY <1>2, <1>3, RunIs DEF Rebuilt
<1>6. {n \in With(then, sig) : ~IsSignature(n)} = OwnContent(then)
  BY <1>5 DEF With
<1>7. now.ok /\ ToSet(Contents(now, TRUE).nodes) = With(then, sig)
  BY <1>3 DEF Rebuilt
<1>8. /\ ComputeFingerprint(now).ok
      /\ ComputeFingerprint(then).ok => ComputeFingerprint(now) = ComputeFingerprint(then)
  BY <1>2, <1>3, FingerprintKept
<1> HIDE DEF now, then
<1> QED BY <1>4, <1>6, <1>7, <1>8 DEF now, then

\* What was made depends on the package and the signature alone.
LEMMA SoundLayout == AllSound => Canonical
<1> SUFFICES ASSUME AllSound, file # base
             PROVE  \E signature \in IF ExtractSignature(file) = {} THEN {<<>>} ELSE ExtractSignature(file) :
                      /\ WriteCfb(Parse(base), signature) = [ok |-> TRUE, image |-> file]
                      /\ WriteCfb(Parse(file), signature) = [ok |-> TRUE, image |-> file]
  BY DEF Canonical
<1>1. IsImage(base) /\ Made(file, base)
  BY SoundFile
<1>2. IsModel(Parse(base))
  BY <1>1, MadeBy
<1>3. PICK sig : /\ IsBytes(sig) /\ Rebuilt(Parse(base), sig, file)
                 /\ WriteCfb(Parse(base), sig) = [ok |-> TRUE, image |-> file]
  BY <1>1, MadeBy
<1>4. ExtractSignature(file) = IF sig = <<>> THEN {} ELSE {sig}
  BY <1>2, <1>3, Extracted
<1>5. WriteCfb(Parse(file), sig) = WriteCfb(Parse(base), sig)
  BY <1>2, <1>3, WriteAgain
<1>6. sig \in IF ExtractSignature(file) = {} THEN {<<>>} ELSE ExtractSignature(file)
  BY <1>4
<1> QED BY <1>3, <1>5, <1>6

\* Whatever the file holds, every walk along its FAT and its mini FAT ends, and
\* streams read together take exactly the sectors and mini sectors their sizes
\* need and share none (WalkChain, WalkMiniChain, CheckChainLength).
THEOREM AlwaysWalksEnd == Spec => []WalksEnd
BY AlwaysSound, SoundWalks, PTL

\* HasEmbeddedSignature, ExtractSignature and CheckSignature agree about every
\* file, and a signature embedded with require_matching_digest matches what is
\* in the file, although the package may have been replaced since its digest was
\* taken (MsiSigner.cpp).
THEOREM AlwaysSignatureTold == Spec => []SignatureTold
BY AlwaysSound, SoundAnswers, PTL

\* Whatever was embedded and stripped since another tool wrote the package, its
\* entries are there with their fields and bytes, and its fingerprint is the same
\* (MsiSigner.hpp, WriteCfb).
THEOREM AlwaysContentKept == Spec => []ContentKept
BY AlwaysSound, SoundContent, PTL

\* What the file is depends only on the other tool's package and the signature it
\* holds, and writing that signature again changes nothing (WriteCfb).
THEOREM AlwaysCanonical == Spec => []Canonical
BY AlwaysSound, SoundLayout, PTL

=============================================================================
