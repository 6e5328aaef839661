---------------------------- MODULE DepGraphProofs ----------------------------
(***************************************************************************)
(* What the proofs about the passes rely on when they speak of graphs: the *)
(* loops of GraphUtils::transpose, which add nodes and edges one at a      *)
(* time, compute the transpose, and turning twice changes nothing; From is *)
(* the least set that is closed under edges, so that whatever is closed    *)
(* holds of all paths; components are classes; finite acyclic graphs have  *)
(* a source; paths go around a node or through it; and post-dominators of  *)
(* post-dominators are post-dominators.                                    *)
(***************************************************************************)
EXTENDS ControlFlow, SequencesExt, FiniteSetTheorems, WellFoundedInduction, TLAPS

\* A graph all of whose dependants are nodes, as PDG and PSG are.
Graph(g) == g = [x \in DOMAIN g |-> g[x]] /\ Closed(g)

LEMMA TransposeDomain ==
  ASSUME NEW g, Graph(g)
  PROVE  DOMAIN transpose(g) = DOMAIN g
BY DEF Graph, Closed, transpose

LEMMA TransposeSlot ==
  ASSUME NEW g, Graph(g), NEW x \in DOMAIN g
  PROVE  transpose(g)[x] = {u \in DOMAIN g : x \in g[u]}
BY DEF Graph, Closed, transpose

\* The transpose of a graph is a graph on the same nodes.
LEMMA TransposeGraph ==
  ASSUME NEW g, Graph(g)
  PROVE  DOMAIN transpose(g) = DOMAIN g /\ Graph(transpose(g))
<1> DEFINE t == transpose(g)
<1>1. DOMAIN t = DOMAIN g /\ \A x \in DOMAIN g : t[x] = {u \in DOMAIN g : x \in g[u]}
  BY TransposeDomain, TransposeSlot
<1>2. Closed(t)
  BY <1>1 DEF Closed
<1>3. t = [x \in DOMAIN t |-> t[x]]
  BY DEF transpose
<1> QED
  BY <1>1, <1>2, <1>3 DEF Graph

\* The two loops of GraphUtils::transpose start from the empty graph.
THEOREM TransposeEmpty == transpose(<<>>) = <<>>
<1>1. DOMAIN <<>> = {}
  OBVIOUS
<1> QED
  BY <1>1 DEF transpose

\* The step of its first loop: a node without dependants is added as one.
THEOREM TransposeAddsNode ==
  ASSUME NEW g, Graph(g), NEW v, v \notin DOMAIN g
  PROVE  transpose(addNode(g, v)) = addNode(transpose(g), v)
<1> DEFINE h == addNode(g, v)
<1>1. /\ DOMAIN h = DOMAIN g \cup {v}
      /\ h[v] = {}
      /\ \A x \in DOMAIN g : h[x] = g[x]
  BY DEF addNode, Slot
<1>2. UNION {h[u] : u \in DOMAIN h} \subseteq DOMAIN g
  BY <1>1 DEF Graph, Closed
<1>3. transpose(h) = [x \in DOMAIN g \cup {v} |-> {u \in DOMAIN h : x \in h[u]}]
  BY <1>1, <1>2 DEF transpose
<1>4. addNode(transpose(g), v) = [x \in DOMAIN g \cup {v} |-> Slot(transpose(g), x)]
  BY TransposeDomain DEF addNode
<1>5. ASSUME NEW x \in DOMAIN g \cup {v}
      PROVE  {u \in DOMAIN h : x \in h[u]} = Slot(transpose(g), x)
  <2>1. CASE x \in DOMAIN g
    BY <1>1, <2>1, TransposeDomain, TransposeSlot DEF Slot
  <2>2. CASE x = v
    BY <1>1, <2>2, TransposeDomain DEF Slot, Graph, Closed
  <2> QED
    BY <2>1, <2>2
<1> QED
  BY <1>3, <1>4, <1>5

\* The step of its second loop: an edge between two nodes is added the other
\* way round.
THEOREM TransposeAddsEdge ==
  ASSUME NEW g, Graph(g), NEW from \in DOMAIN g, NEW to \in DOMAIN g
  PROVE  transpose(addEdge(g, from, to)) = addEdge(transpose(g), to, from)
<1> DEFINE h == addEdge(g, from, to)
<1>1. DOMAIN h = DOMAIN g /\ \A x \in DOMAIN g : h[x] = IF x = from THEN g[x] \cup {to} ELSE g[x]
  BY DEF addEdge, Slot
<1>2. UNION {h[u] : u \in DOMAIN h} \subseteq DOMAIN g
  BY <1>1 DEF Graph, Closed
<1>3. transpose(h) = [x \in DOMAIN g |-> {u \in DOMAIN g : x \in h[u]}]
  BY <1>1, <1>2 DEF transpose
<1>4. addEdge(transpose(g), to, from) =
        [x \in DOMAIN g |-> IF x = to THEN transpose(g)[x] \cup {from} ELSE transpose(g)[x]]
  BY TransposeDomain DEF addEdge, Slot
<1>5. ASSUME NEW x \in DOMAIN g
      PROVE  {u \in DOMAIN g : x \in h[u]} =
               IF x = to THEN transpose(g)[x] \cup {from} ELSE transpose(g)[x]
  BY <1>1, TransposeSlot
<1> QED
  BY <1>3, <1>4, <1>5

\* Turned around twice, a graph is what it was: DecoupleLoops, which reads
\* "S1 depends on S2" off the transposed PSG, reads it off the PSG.
THEOREM TransposeTwice ==
  ASSUME NEW g, Graph(g)
  PROVE  transpose(transpose(g)) = g
<1> DEFINE t == transpose(g)
<1>1. DOMAIN t = DOMAIN g /\ \A x \in DOMAIN g : t[x] = {u \in DOMAIN g : x \in g[u]}
  BY TransposeDomain, TransposeSlot
<1>2. Graph(t)
  BY TransposeGraph
<1>3. ASSUME NEW x \in DOMAIN g PROVE transpose(t)[x] = g[x]
  <2> HIDE DEF t
  <2>1. transpose(t)[x] = {u \in DOMAIN t : x \in t[u]}
    BY <1>1, <1>2, TransposeSlot
  <2>2. {u \in DOMAIN g : x \in {w \in DOMAIN g : u \in g[w]}} = g[x]
    BY DEF Graph, Closed
  <2> QED
    BY <1>1, <2>1, <2>2
<1>4. DOMAIN transpose(t) = DOMAIN g /\ transpose(t) = [x \in DOMAIN g |-> transpose(t)[x]]
  <2>1. DOMAIN transpose(t) = DOMAIN g
    BY <1>1, <1>2, TransposeDomain
  <2>2. transpose(t) = [x \in DOMAIN transpose(t) |-> transpose(t)[x]]
    BY DEF transpose
  <2> QED
    BY <2>1, <2>2
<1> QED
  BY <1>3, <1>4 DEF Graph

-------------------------------------------------------------------------------
(* Induction, in the form the provers can use: on a set, not a predicate.  *)

\* Of a set of naturals one is the least.
LEMMA LeastNat ==
  ASSUME NEW S \in SUBSET Nat, S # {}
  PROVE  \E m \in S : \A n \in S : m <= n
<1> DEFINE Upto == {0 .. n : n \in S}
<1>1. Upto \subseteq FiniteSubsetsOf(Nat) /\ Upto # {}
  <2>1. \A n \in Nat : 0 .. n \in SUBSET Nat /\ IsFiniteSet(0 .. n)
    BY FS_Interval
  <2> QED
    BY <2>1 DEF FiniteSubsetsOf
<1>2. \E T \in Upto : \A U \in Upto : <<U, T>> \notin StrictSubsetOrdering(Nat)
  <2> HIDE DEF Upto
  <2> QED
    BY <1>1, WFMin, FS_StrictSubsetOrderingWellFounded
<1>3. PICK m \in S : \A n \in S : <<0 .. n, 0 .. m>> \notin StrictSubsetOrdering(Nat)
  BY <1>2
<1>4. ASSUME NEW n \in S, ~(m <= n) PROVE FALSE
  <2>1. 0 .. n \in SUBSET Nat /\ 0 .. m \in SUBSET Nat /\ 0 .. n \subseteq 0 .. m /\ m \in 0 .. m /\ m \notin 0 .. n
    BY <1>4
  <2> QED
    BY <1>3, <2>1 DEF StrictSubsetOrdering
<1> QED
  BY <1>4

\* Of some of the numbers up to n one is the greatest.
LEMMA GreatestUpto ==
  ASSUME NEW n \in Nat, NEW K \in SUBSET (1 .. n), K # {}
  PROVE  \E k \in K : \A l \in K : l <= k
<1> DEFINE Below == {m \in Nat : \E k \in K : m = n - k}
<1>1. Below # {}
  <2>1. PICK k \in K : TRUE
    OBVIOUS
  <2>2. n - k \in Below
    OBVIOUS
  <2> QED
    BY <2>2
<1>2. PICK m \in Below : \A x \in Below : m <= x
  <2>1. Below \in SUBSET Nat
    OBVIOUS
  <2> HIDE DEF Below
  <2> QED
    BY <1>1, <2>1, LeastNat
<1>3. PICK k \in K : m = n - k
  OBVIOUS
<1>4. ASSUME NEW l \in K PROVE l <= k
  <2>1. n - l \in Below
    OBVIOUS
  <2> QED
    BY <1>2, <1>3, <2>1
<1> QED
  BY <1>4

\* Induction, for what can be said with a set.
LEMMA InductionOnNat ==
  ASSUME NEW S, 0 \in S, \A n \in Nat : n \in S => n + 1 \in S
  PROVE  Nat \subseteq S
<1> SUFFICES ASSUME Nat \ S # {} PROVE FALSE
  OBVIOUS
<1>1. PICK m \in Nat \ S : \A n \in Nat \ S : m <= n
  BY LeastNat
<1>2. m # 0 /\ m - 1 \in Nat /\ m - 1 \in S
  BY <1>1
<1> QED
  BY <1>1, <1>2

-------------------------------------------------------------------------------
(* Sequences that hold each member once.                                   *)

Once(s) == \A i, j \in 1 .. Len(s) : s[i] = s[j] => i = j

LEMMA MembersOf ==
  ASSUME NEW S, NEW s \in Seq(S)
  PROVE  /\ Len(s) \in Nat /\ ToSet(s) \subseteq S
         /\ \A i \in 1 .. Len(s) : s[i] \in ToSet(s)
         /\ \A x \in ToSet(s) : \E i \in 1 .. Len(s) : s[i] = x
BY DEF ToSet

LEMMA JoinedOnce ==
  ASSUME NEW S, NEW s \in Seq(S), NEW t \in Seq(S), Once(s), Once(t), ToSet(s) \cap ToSet(t) = {}
  PROVE  /\ s \o t \in Seq(S) /\ Once(s \o t)
         /\ ToSet(s \o t) = ToSet(s) \cup ToSet(t)
<1>1. PICK m \in Nat : m = Len(s)
  OBVIOUS
<1>2. PICK n \in Nat : n = Len(t)
  OBVIOUS
<1>3. PICK r : r = s \o t
  OBVIOUS
<1>4. /\ r \in Seq(S) /\ Len(r) = m + n
      /\ \A i \in 1 .. m : r[i] = s[i]
      /\ \A i \in 1 .. m + n : i <= m \/ (i - m \in 1 .. n /\ r[i] = t[i - m])
      /\ \A i \in 1 .. n : i + m \in 1 .. m + n /\ r[i + m] = t[i]
  BY <1>1, <1>2, <1>3
<1>5. ToSet(r) \subseteq ToSet(s) \cup ToSet(t)
  <2> SUFFICES ASSUME NEW i \in 1 .. m + n PROVE r[i] \in ToSet(s) \cup ToSet(t)
    BY <1>4, MembersOf
  <2>1. CASE i <= m
    <3>1. i \in 1 .. m
      BY <1>1, <1>2, <2>1
    <3> QED
      BY <1>1, <1>4, <3>1, MembersOf
  <2>2. CASE ~(i <= m)
    BY <1>2, <1>4, <2>2, MembersOf
  <2> QED
    BY <2>1, <2>2
<1>6. ToSet(s) \subseteq ToSet(r)
  <2> SUFFICES ASSUME NEW i \in 1 .. m PROVE s[i] \in ToSet(r)
    BY <1>1, MembersOf
  <2>1. i \in 1 .. m + n /\ r[i] = s[i]
    BY <1>1, <1>2, <1>4
  <2> QED
    BY <1>4, <2>1, MembersOf
<1>7. ToSet(t) \subseteq ToSet(r)
  <2> SUFFICES ASSUME NEW i \in 1 .. n PROVE t[i] \in ToSet(r)
    BY <1>2, MembersOf
  <2> QED
    BY <1>4, MembersOf
<1>8. ASSUME NEW i \in 1 .. m + n, NEW j \in 1 .. m + n, r[i] = r[j] PROVE i = j
  <2>1. CASE i <= m /\ j <= m
    <3>1. i \in 1 .. m /\ j \in 1 .. m
      BY <1>1, <1>2, <2>1
    <3> QED
      BY <1>1, <1>4, <1>8, <3>1 DEF Once
  <2>2. CASE ~(i <= m) /\ ~(j <= m)
    <3>1. i - m \in 1 .. n /\ j - m \in 1 .. n /\ t[i - m] = t[j - m]
      BY <1>4, <1>8, <2>2
    <3>2. i - m = j - m
      BY <1>2, <3>1 DEF Once
    <3> QED
      BY <1>1, <3>2
  <2>3. ASSUME NEW k \in 1 .. m + n, NEW l \in 1 .. m + n, k <= m, ~(l <= m), r[k] = r[l] PROVE FALSE
    <3>1. k \in 1 .. m
      BY <1>1, <1>2, <2>3
    <3>2. l - m \in 1 .. n /\ r[l] = t[l - m]
      BY <1>4, <2>3
    <3>3. r[k] \in ToSet(s)
      BY <1>1, <1>4, <3>1, MembersOf
    <3>4. r[l] \in ToSet(t)
      BY <1>2, <3>2, MembersOf
    <3> QED
      BY <2>3, <3>3, <3>4
  <2> QED
    BY <1>8, <2>1, <2>2, <2>3
<1> QED
  BY <1>3, <1>4, <1>5, <1>6, <1>7, <1>8 DEF Once

LEMMA RestOnce ==
  ASSUME NEW S, NEW s \in Seq(S), s # <<>>, Once(s)
  PROVE  /\ Tail(s) \in Seq(S) /\ Once(Tail(s))
         /\ Head(s) \in ToSet(s) /\ ToSet(Tail(s)) = ToSet(s) \ {Head(s)}
<1>1. PICK n \in Nat : n + 1 = Len(s)
  OBVIOUS
<1>2. PICK t : t = Tail(s)
  OBVIOUS
<1>3. /\ t \in Seq(S) /\ Len(t) = n
      /\ \A i \in 1 .. n : t[i] = s[i + 1] /\ i + 1 \in 1 .. n + 1
      /\ Head(s) = s[1] /\ 1 \in 1 .. n + 1
      /\ \A i \in 1 .. n + 1 : i = 1 \/ (i - 1 \in 1 .. n /\ t[i - 1] = s[i])
  BY <1>1, <1>2
<1>4. Head(s) \in ToSet(s)
  BY <1>1, <1>3, MembersOf
<1>5. ASSUME NEW i \in 1 .. n PROVE t[i] \in ToSet(s) \ {Head(s)}
  <2>1. i + 1 \in 1 .. n + 1 /\ t[i] = s[i + 1] /\ i + 1 # 1
    BY <1>3, <1>5
  <2>2. s[i + 1] # s[1]
    BY <1>1, <1>3, <2>1 DEF Once
  <2> QED
    BY <1>1, <1>3, <2>1, <2>2, MembersOf
<1>6. ASSUME NEW i \in 1 .. n + 1, s[i] # Head(s) PROVE s[i] \in ToSet(t)
  BY <1>3, <1>6, MembersOf
<1>7. Once(t)
  <2> SUFFICES ASSUME NEW i \in 1 .. n, NEW j \in 1 .. n, t[i] = t[j] PROVE i = j
    BY <1>3 DEF Once
  <2>1. i + 1 \in 1 .. n + 1 /\ j + 1 \in 1 .. n + 1 /\ s[i + 1] = s[j + 1]
    BY <1>3
  <2>2. i + 1 = j + 1
    BY <1>1, <2>1 DEF Once
  <2> QED
    BY <2>2
<1>8. ToSet(t) \subseteq ToSet(s) \ {Head(s)}
  BY <1>3, <1>5, MembersOf
<1>9. ToSet(s) \ {Head(s)} \subseteq ToSet(t)
  BY <1>1, <1>6, MembersOf
<1> QED
  BY <1>2, <1>3, <1>4, <1>7, <1>8, <1>9

LEMMA OneIsOnce ==
  ASSUME NEW S, NEW x \in S
  PROVE  <<x>> \in Seq(S) /\ Once(<<x>>) /\ ToSet(<<x>>) = {x}
BY DEF Once, ToSet

LEMMA EmptyIsOnce ==
  ASSUME NEW S
  PROVE  <<>> \in Seq(S) /\ Once(<<>>) /\ ToSet(<<>>) = {}
BY DEF Once, ToSet

\* An enumeration of a finite set has every member, and each of them once.
LEMMA Enumerations ==
  ASSUME NEW S, IsFiniteSet(S), NEW s \in SetToSeqs(S)
  PROVE  s \in Seq(S) /\ Once(s) /\ ToSet(s) = S
<1>1. PICK n \in Nat : n = Cardinality(S)
  BY FS_CardinalityType
<1>2. s \in [1 .. n -> S] /\ \A i, j \in 1 .. n : i # j => s[i] # s[j]
  BY <1>1 DEF SetToSeqs
<1>3. s \in Injection(1 .. n, S)
  BY <1>2 DEF Injection, IsInjective
<1>4. Cardinality(1 .. n) = n
  BY FS_Interval
<1>5. s \in Surjection(1 .. n, S)
  BY <1>1, <1>3, <1>4, FS_Injection
<1>6. s \in Seq(S) /\ Len(s) = n
  BY <1>2
<1>7. Once(s)
  BY <1>2, <1>6 DEF Once
<1>8. ToSet(s) = S
  BY <1>2, <1>5 DEF Surjection, ToSet
<1> QED
  BY <1>6, <1>7, <1>8

\* SetToSeq takes one of them.
LEMMA SetToSeqOnce ==
  ASSUME NEW S, IsFiniteSet(S)
  PROVE  SetToSeq(S) \in Seq(S) /\ Once(SetToSeq(S)) /\ ToSet(SetToSeq(S)) = S
<1>1. PICK n \in Nat : n = Cardinality(S)
  BY FS_CardinalityType
<1>2. PICK f \in Bijection(1 .. n, S) : TRUE
  BY <1>1, FS_CardinalityType DEF ExistsBijection
<1>3. f \in [1 .. n -> S] /\ IsInjective(f)
  BY <1>2 DEF Bijection, Injection, IsInjective
<1>4. PICK s : s = SetToSeq(S)
  OBVIOUS
<1>5. s \in [1 .. n -> S] /\ IsInjective(s)
  BY <1>1, <1>3, <1>4 DEF SetToSeq
<1>6. s \in SetToSeqs(S)
  BY <1>1, <1>5 DEF SetToSeqs, IsInjective
<1> QED
  BY <1>4, <1>6, Enumerations

\* The recursion of FlattenSeq: f[i] is the first i of seqs in a row.
IsFlat(f, seqs, n) == f = [i \in 1 .. n |-> IF i = 1 THEN seqs[i] ELSE f[i - 1] \o seqs[i]]

LEMMA FlatExists ==
  ASSUME NEW seqs, NEW n \in Nat
  PROVE  \E f : IsFlat(f, seqs, n)
<1> DEFINE S == {m \in Nat : \E f : IsFlat(f, seqs, m)}
<1>1. 0 \in S
  <2>1. IsFlat([i \in {} |-> {}], seqs, 0)
    BY DEF IsFlat
  <2> QED
    BY <2>1
<1>2. \A m \in Nat : m \in S => m + 1 \in S
  <2> SUFFICES ASSUME NEW m \in Nat, NEW f, IsFlat(f, seqs, m) PROVE \E h : IsFlat(h, seqs, m + 1)
    OBVIOUS
  <2>1. PICK last : last = IF m = 0 THEN seqs[m + 1] ELSE f[m] \o seqs[m + 1]
    OBVIOUS
  <2>2. PICK h : h = [i \in 1 .. m + 1 |-> IF i = m + 1 THEN last ELSE f[i]]
    OBVIOUS
  <2>3. ASSUME NEW i \in 1 .. m + 1
        PROVE  h[i] = IF i = 1 THEN seqs[i] ELSE h[i - 1] \o seqs[i]
    <3>1. CASE i = m + 1 /\ m = 0
      BY <2>1, <2>2, <3>1
    <3>2. CASE i = m + 1 /\ m # 0
      <4>1. i # 1 /\ i - 1 \in 1 .. m + 1 /\ i - 1 = m /\ m # m + 1
        BY <3>2
      <4>2. h[i - 1] = f[m] /\ h[i] = last
        BY <2>2, <3>2, <4>1
      <4>3. last = f[m] \o seqs[i]
        BY <2>1, <3>2
      <4> QED
        BY <4>1, <4>2, <4>3
    <3>3. CASE i # m + 1
      <4>1. i \in 1 .. m /\ h[i] = f[i]
        BY <2>2, <3>3
      <4>2. f[i] = IF i = 1 THEN seqs[i] ELSE f[i - 1] \o seqs[i]
        BY <4>1 DEF IsFlat
      <4>3. i # 1 => i - 1 \in 1 .. m + 1 /\ i - 1 # m + 1
        BY <4>1
      <4>4. i # 1 => h[i - 1] = f[i - 1]
        BY <2>2, <4>3
      <4> QED
        BY <4>1, <4>2, <4>4
    <3> QED
      BY <3>1, <3>2, <3>3
  <2>4. h = [i \in 1 .. m + 1 |-> h[i]]
    BY <2>2
  <2>5. IsFlat(h, seqs, m + 1)
    BY <2>3, <2>4, Zenon DEF IsFlat
  <2> QED
    BY <2>5
<1> QED
  <2> HIDE DEF S
  <2>1. n \in S
    BY <1>1, <1>2, InductionOnNat
  <2> QED
    BY <2>1 DEF S

\* Sequences without a common member, in a row.
LEMMA FlattenOnce ==
  ASSUME NEW S, NEW seqs \in Seq(Seq(S)),
         \A k \in 1 .. Len(seqs) : Once(seqs[k]),
         \A k, l \in 1 .. Len(seqs) : k # l => ToSet(seqs[k]) \cap ToSet(seqs[l]) = {}
  PROVE  /\ FlattenSeq(seqs) \in Seq(S) /\ Once(FlattenSeq(seqs))
         /\ ToSet(FlattenSeq(seqs)) = UNION {ToSet(seqs[k]) : k \in 1 .. Len(seqs)}
<1>1. PICK n \in Nat : n = Len(seqs)
  OBVIOUS
<1>2. CASE n = 0
  <2>1. seqs = <<>>
    <3>1. \A s \in Seq(Seq(S)) : Len(s) = 0 => s = <<>>
      OBVIOUS
    <3> QED
      BY <1>1, <1>2, <3>1
  <2>2. FlattenSeq(seqs) = seqs
    BY <1>1, <1>2 DEF FlattenSeq
  <2>3. UNION {ToSet(seqs[k]) : k \in 1 .. Len(seqs)} = {}
    BY <1>1, <1>2
  <2> QED
    BY <2>1, <2>2, <2>3, EmptyIsOnce
<1>3. CASE n # 0
  <2>1. PICK f : f = CHOOSE h : h = [i \in 1 .. n |-> IF i = 1 THEN seqs[i] ELSE h[i - 1] \o seqs[i]]
    OBVIOUS
  <2>2. FlattenSeq(seqs) = f[n]
    BY <1>1, <1>3, <2>1 DEF FlattenSeq
  <2>3. f = [i \in 1 .. n |-> IF i = 1 THEN seqs[i] ELSE f[i - 1] \o seqs[i]]
    <3>1. \E h : h = [i \in 1 .. n |-> IF i = 1 THEN seqs[i] ELSE h[i - 1] \o seqs[i]]
      BY FlatExists DEF IsFlat
    <3> QED
      BY <2>1, <3>1
  <2>4. /\ f[1] = seqs[1]
        /\ \A m \in 1 .. n : m + 1 \in 1 .. n => f[m + 1] = f[m] \o seqs[m + 1]
    <3>1. 1 \in 1 .. n
      BY <1>3
    <3>2. ASSUME NEW m \in 1 .. n, m + 1 \in 1 .. n PROVE f[m + 1] = f[m] \o seqs[m + 1]
      <4>1. m + 1 # 1 /\ (m + 1) - 1 = m
        OBVIOUS
      <4> QED
        BY <2>3, <3>2, <4>1
    <3> QED
      BY <2>3, <3>1, <3>2
  <2> DEFINE Upto(m) == UNION {ToSet(seqs[k]) : k \in 1 .. m}
             T == {m \in Nat : m + 1 <= n =>
                        f[m + 1] \in Seq(S) /\ Once(f[m + 1]) /\ ToSet(f[m + 1]) = Upto(m + 1)}
  <2>5. 0 \in T
    <3>1. Upto(1) = ToSet(seqs[1])
      OBVIOUS
    <3>2. 1 \in 1 .. n /\ seqs[1] \in Seq(S) /\ Once(seqs[1])
      BY <1>1, <1>3
    <3> QED
      BY <2>4, <3>1, <3>2
  <2>6. \A m \in Nat : m \in T => m + 1 \in T
    <3> SUFFICES ASSUME NEW m \in T, (m + 1) + 1 <= n PROVE m + 1 \in T
      <4> HIDE DEF Upto
      <4> QED
        OBVIOUS
    <3>1. PICK p : p = m + 1
      OBVIOUS
    <3>2. /\ p \in 1 .. n /\ p + 1 \in 1 .. n /\ \A k \in 1 .. p : k \in 1 .. n /\ k # p + 1
          /\ 1 .. p + 1 = 1 .. p \cup {p + 1}
      BY <3>1
    <3>3. f[p] \in Seq(S) /\ Once(f[p]) /\ ToSet(f[p]) = Upto(p)
      BY <3>1, <3>2
    <3>4. PICK t : t = seqs[p + 1]
      OBVIOUS
    <3>5. t \in Seq(S) /\ Once(t)
      BY <1>1, <3>2, <3>4
    <3>6. Upto(p) \cap ToSet(t) = {}
      <4> SUFFICES ASSUME NEW k \in 1 .. p PROVE ToSet(seqs[k]) \cap ToSet(t) = {}
        OBVIOUS
      <4>1. k \in 1 .. Len(seqs) /\ p + 1 \in 1 .. Len(seqs) /\ k # p + 1
        BY <1>1, <3>2
      <4> QED
        BY <3>4, <4>1
    <3>7. f[p] \o t \in Seq(S) /\ Once(f[p] \o t) /\ ToSet(f[p] \o t) = Upto(p) \cup ToSet(t)
      <4> HIDE DEF Upto
      <4> QED
        BY <3>3, <3>5, <3>6, JoinedOnce
    <3>8. Upto(p + 1) = Upto(p) \cup ToSet(t)
      <4>1. \A k : k \in 1 .. p + 1 <=> k \in 1 .. p \/ k = p + 1
        BY <3>2
      <4> QED
        BY <3>4, <4>1
    <3>9. f[p + 1] = f[p] \o t
      BY <2>4, <3>2, <3>4
    <3> HIDE DEF Upto
    <3>10. f[p + 1] \in Seq(S) /\ Once(f[p + 1]) /\ ToSet(f[p + 1]) = Upto(p + 1)
      BY <3>7, <3>8, <3>9
    <3>11. p \in Nat /\ p \in T
      BY <3>1, <3>10
    <3> QED
      BY <3>1, <3>11
  <2>7. n - 1 \in T
    <3>1. n - 1 \in Nat
      BY <1>3
    <3> HIDE DEF T
    <3> QED
      BY <2>5, <2>6, <3>1, InductionOnNat
  <2>8. f[n] \in Seq(S) /\ Once(f[n]) /\ ToSet(f[n]) = Upto(n)
    <3>1. (n - 1) + 1 = n
      OBVIOUS
    <3> HIDE DEF Upto
    <3> QED
      BY <1>3, <2>7, <3>1
  <2> QED
    BY <1>1, <2>2, <2>8
<1> QED
  BY <1>2, <1>3

-------------------------------------------------------------------------------
(* Paths.  Reach defines From by a recursion over their length.            *)

\* One more edge of a path: the body of the recursion of From.
Further(g, near) == near \cup UNION {g[x] : x \in near}

IsWithin(W, g, u, n) == W = [k \in 0 .. n |-> IF k = 0 THEN {u} ELSE Further(g, W[k - 1])]

\* Its sets, one by one.
Turns(W, g, u, N) ==
    W[0] = {u} /\ \A n \in Nat : n + 1 <= N => W[n + 1] = Further(g, W[n])

LEMMA WithinTurns ==
  ASSUME NEW g, NEW u, NEW N \in Nat, NEW W, IsWithin(W, g, u, N)
  PROVE  Turns(W, g, u, N)
<1>1. PICK V : V = [k \in 0 .. N |-> IF k = 0 THEN {u} ELSE Further(g, W[k - 1])]
  OBVIOUS
<1>2. V[0] = {u} /\ \A n \in Nat : n + 1 <= N => V[n + 1] = Further(g, W[n])
  BY <1>1
<1>3. W = V
  BY <1>1, Zenon DEF IsWithin
<1> QED
  BY <1>2, <1>3 DEF Turns

\* The recursion of From defines a function, however many steps it takes.
LEMMA WithinExists ==
  ASSUME NEW g, NEW u, NEW N \in Nat
  PROVE  \E W : IsWithin(W, g, u, N)
<1> DEFINE S == {n \in Nat : \E W : IsWithin(W, g, u, n)}
<1>1. 0 \in S
  <2>1. IsWithin([k \in 0 .. 0 |-> {u}], g, u, 0)
    BY DEF IsWithin
  <2> QED
    BY <2>1
<1>2. ASSUME NEW n \in Nat, n \in S PROVE n + 1 \in S
  <2>1. PICK W : IsWithin(W, g, u, n)
    BY <1>2 DEF Turns
  <2>2. PICK V : V = [k \in 0 .. n + 1 |-> IF k <= n THEN W[k] ELSE Further(g, W[n])]
    OBVIOUS
  <2>3. \A k \in 0 .. n + 1 : V[k] = IF k = 0 THEN {u} ELSE Further(g, V[k - 1])
    <3> SUFFICES ASSUME NEW k \in 0 .. n + 1 PROVE V[k] = IF k = 0 THEN {u} ELSE Further(g, V[k - 1])
      OBVIOUS
    <3>1. CASE k <= n
      <4>0. Turns(W, g, u, n)
        BY <2>1, WithinTurns
      <4>1. k \in 0 .. n /\ W[k] = IF k = 0 THEN {u} ELSE Further(g, W[k - 1])
        <5>1. CASE k = 0
          BY <5>1, <4>0 DEF Turns
        <5>2. CASE k # 0
          <6>1. k - 1 \in Nat /\ (k - 1) + 1 <= n /\ (k - 1) + 1 = k
            BY <5>2, <3>1
          <6>2. W[(k - 1) + 1] = Further(g, W[k - 1])
            BY <6>1, <4>0 DEF Turns
          <6> QED
            BY <5>2, <6>1, <6>2
        <5> QED
          BY <5>1, <5>2
      <4>2. V[k] = W[k] /\ (k # 0 => V[k - 1] = W[k - 1])
        BY <3>1, <2>2
      <4> QED
        BY <4>1, <4>2
    <3>2. CASE k = n + 1
      BY <3>2, <2>2
    <3> QED
      BY <3>1, <3>2
  <2>4. IsWithin(V, g, u, n + 1)
    BY <2>2, <2>3 DEF IsWithin
  <2> QED
    BY <2>4
<1>3. Nat \subseteq S
  <2> HIDE DEF S
  <2> QED
    BY <1>1, <1>2, InductionOnNat
<1> QED
  BY <1>3

\* The last of the sets its recursion goes through is From(g, u).
LEMMA FromIsWithin ==
  ASSUME NEW g, NEW u, NEW N \in Nat, N = Cardinality(DOMAIN g)
  PROVE  \E W : Turns(W, g, u, N) /\ From(g, u) = W[N]
<1>1. PICK V : IsWithin(V, g, u, N)
  BY WithinExists
<1>2. PICK W : W = CHOOSE X : IsWithin(X, g, u, N)
  OBVIOUS
<1>3. IsWithin(W, g, u, N)
  BY <1>1, <1>2
<1>4. From(g, u) = W[N]
  BY <1>2 DEF From, IsWithin, Further
<1> QED
  BY <1>3, <1>4, WithinTurns

\* A node leads to itself.
LEMMA FromSelf ==
  ASSUME NEW g, NEW u, IsFiniteSet(DOMAIN g)
  PROVE  u \in From(g, u)
<1>1. PICK N \in Nat : N = Cardinality(DOMAIN g)
  BY FS_CardinalityType
<1>2. PICK W : Turns(W, g, u, N) /\ From(g, u) = W[N]
  BY <1>1, FromIsWithin
<1> DEFINE S == {n \in Nat : n <= N => u \in W[n]}
<1>3. 0 \in S
  BY <1>2 DEF Turns
<1>4. \A n \in Nat : n \in S => n + 1 \in S
  <2> SUFFICES ASSUME NEW n \in Nat, n \in S, n + 1 <= N PROVE u \in W[n + 1]
    OBVIOUS
  <2>1. W[n + 1] = Further(g, W[n])
    BY <1>2 DEF Turns
  <2> QED
    BY <1>1, <2>1 DEF Further
<1>5. Nat \subseteq S
  <2> HIDE DEF S
  <2> QED
    BY <1>3, <1>4, InductionOnNat
<1> QED
  BY <1>1, <1>2, <1>5

\* A set no edge leaves holds all that its members lead to.
LEMMA FromLeast ==
  ASSUME NEW g, NEW u, IsFiniteSet(DOMAIN g), NEW C, u \in C, \A x \in C : g[x] \subseteq C
  PROVE  From(g, u) \subseteq C
<1>1. PICK N \in Nat : N = Cardinality(DOMAIN g)
  BY FS_CardinalityType
<1>2. PICK W : Turns(W, g, u, N) /\ From(g, u) = W[N]
  BY <1>1, FromIsWithin
<1> DEFINE S == {n \in Nat : n <= N => W[n] \subseteq C}
<1>3. 0 \in S
  BY <1>2 DEF Turns
<1>4. \A n \in Nat : n \in S => n + 1 \in S
  <2> SUFFICES ASSUME NEW n \in Nat, n \in S, n + 1 <= N PROVE W[n + 1] \subseteq C
    OBVIOUS
  <2>1. W[n + 1] = Further(g, W[n])
    BY <1>2 DEF Turns
  <2>2. W[n] \subseteq C
    BY <1>1
  <2> QED
    BY <2>1, <2>2 DEF Further
<1>5. Nat \subseteq S
  <2> HIDE DEF S
  <2> QED
    BY <1>3, <1>4, InductionOnNat
<1> QED
  BY <1>1, <1>2, <1>5

\* In a graph whose dependants are nodes, what a node leads to is nodes, and
\* no edge leaves it: as many turns as there are nodes are enough.
LEMMA FromClosed ==
  ASSUME NEW g, Closed(g), IsFiniteSet(DOMAIN g), NEW u \in DOMAIN g
  PROVE  /\ From(g, u) \subseteq DOMAIN g
         /\ \A x \in From(g, u) : g[x] \subseteq From(g, u)
<1>1. PICK N \in Nat : N = Cardinality(DOMAIN g)
  BY FS_CardinalityType
<1>2. PICK W : Turns(W, g, u, N) /\ From(g, u) = W[N]
  BY <1>1, FromIsWithin
<1>3. /\ W[0] = {u}
      /\ \A n \in Nat : n + 1 <= N => W[n + 1] = Further(g, W[n])
  BY <1>2 DEF Turns
<1>4. \A n \in Nat : n <= N => W[n] \subseteq DOMAIN g
  <2> DEFINE S == {n \in Nat : n <= N => W[n] \subseteq DOMAIN g}
  <2>1. 0 \in S
    BY <1>3
  <2>2. \A n \in Nat : n \in S => n + 1 \in S
    <3> SUFFICES ASSUME NEW n \in Nat, n \in S, n + 1 <= N PROVE W[n + 1] \subseteq DOMAIN g
      OBVIOUS
    <3>1. W[n] \subseteq DOMAIN g
      BY <1>1
    <3> QED
      BY <1>3, <3>1 DEF Further, Closed
  <2> HIDE DEF S
  <2>3. Nat \subseteq S
    BY <2>1, <2>2, InductionOnNat
  <2> QED
    BY <2>3 DEF S
<1>5. \A n \in Nat : n <= N => IsFiniteSet(W[n]) /\ Cardinality(W[n]) \in Nat
  BY <1>4, FS_Subset, FS_CardinalityType
\* A turn that adds nothing is the last one that counts.
<1>6. \A n \in Nat : n <= N => Further(g, W[n]) = W[n] \/ Cardinality(W[n]) >= n + 1
  <2> DEFINE S == {n \in Nat : n <= N => Further(g, W[n]) = W[n] \/ Cardinality(W[n]) >= n + 1}
  <2>1. 0 \in S
    <3>1. Cardinality({u}) = 1
      BY FS_Singleton
    <3> QED
      BY <1>3, <3>1
  <2>2. \A n \in Nat : n \in S => n + 1 \in S
    <3> SUFFICES ASSUME NEW n \in Nat, n \in S, n + 1 <= N
                 PROVE  Further(g, W[n + 1]) = W[n + 1] \/ Cardinality(W[n + 1]) >= (n + 1) + 1
      OBVIOUS
    <3>1. W[n + 1] = Further(g, W[n]) /\ W[n] \subseteq W[n + 1]
      BY <1>3 DEF Further
    <3>2. CASE W[n + 1] = W[n]
      BY <3>1, <3>2
    <3>3. CASE W[n + 1] # W[n]
      <4>1. Cardinality(W[n]) >= n + 1
        BY <3>1, <3>3, <1>1
      <4>2. Cardinality(W[n]) < Cardinality(W[n + 1])
        BY <1>1, <1>5, <3>1, <3>3, FS_Subset
      <4> QED
        BY <1>1, <1>5, <4>1, <4>2
    <3> QED
      BY <3>2, <3>3
  <2> HIDE DEF S
  <2>3. Nat \subseteq S
    BY <2>1, <2>2, InductionOnNat
  <2> QED
    BY <2>3 DEF S
<1>7. Cardinality(W[N]) <= N
  BY <1>1, <1>4, FS_Subset
<1>8. Further(g, W[N]) = W[N]
  BY <1>1, <1>5, <1>6, <1>7
<1> QED
  BY <1>1, <1>2, <1>4, <1>8 DEF Further

\* What is led to leads on.
LEMMA FromOn ==
  ASSUME NEW g, Closed(g), IsFiniteSet(DOMAIN g), NEW u \in DOMAIN g, NEW v \in From(g, u)
  PROVE  From(g, v) \subseteq From(g, u)
BY FromClosed, FromLeast

\* A path starts with an edge, or is none.
LEMMA FromFirst ==
  ASSUME NEW g, Closed(g), IsFiniteSet(DOMAIN g), NEW u \in DOMAIN g, NEW v \in From(g, u)
  PROVE  v = u \/ \E x \in g[u] : v \in From(g, x)
<1>1. PICK C : C = {u} \cup UNION {From(g, x) : x \in g[u]}
  OBVIOUS
<1>2. g[u] \subseteq DOMAIN g
  BY DEF Closed
<1>3. ASSUME NEW y \in C PROVE g[y] \subseteq C
  BY <1>1, <1>2, FromSelf, FromClosed
<1>4. From(g, u) \subseteq C
  BY <1>1, <1>3, FromLeast
<1> QED
  BY <1>1, <1>4

\* A path of the transpose is one of the graph turned around.
LEMMA FromBack ==
  ASSUME NEW g, Graph(g), IsFiniteSet(DOMAIN g), NEW u \in DOMAIN g, NEW v \in DOMAIN g
  PROVE  v \in From(g, u) <=> u \in From(transpose(g), v)
<1>1. ASSUME NEW h, Graph(h), IsFiniteSet(DOMAIN h), NEW a \in DOMAIN h, NEW b \in From(h, a)
      PROVE  a \in From(transpose(h), b)
  <2>1. PICK t : t = transpose(h)
    OBVIOUS
  <2>2. DOMAIN t = DOMAIN h /\ Closed(t) /\ \A x \in DOMAIN h : t[x] = {w \in DOMAIN h : x \in h[w]}
    BY <1>1, <2>1, TransposeDomain, TransposeSlot DEF Closed
  <2>3. PICK C : C = {x \in DOMAIN h : a \in From(t, x)}
    OBVIOUS
  <2>4. a \in C
    BY <1>1, <2>2, <2>3, FromSelf
  <2>5. ASSUME NEW x \in C, NEW y \in h[x] PROVE y \in C
    <3>1. x \in DOMAIN h /\ y \in DOMAIN h /\ x \in t[y]
      BY <1>1, <2>2, <2>3, <2>5 DEF Graph, Closed
    <3>2. y \in From(t, y) /\ x \in From(t, y)
      BY <1>1, <2>2, <3>1, FromSelf, FromClosed
    <3>3. From(t, x) \subseteq From(t, y)
      BY <1>1, <2>2, <3>1, <3>2, FromOn
    <3> QED
      BY <2>3, <3>1, <3>3
  <2>6. From(h, a) \subseteq C
    BY <1>1, <2>4, <2>5, FromLeast
  <2> QED
    BY <1>1, <2>1, <2>3, <2>6
<1>2. PICK t : t = transpose(g)
  OBVIOUS
<1>3. DOMAIN t = DOMAIN g /\ Graph(t) /\ transpose(t) = g
  BY <1>2, TransposeGraph, TransposeTwice
<1> QED
  BY <1>1, <1>2, <1>3

-------------------------------------------------------------------------------
(* Components and cycles.                                                  *)

\* A node is in its own component.
LEMMA SCCSelf ==
  ASSUME NEW g, IsFiniteSet(DOMAIN g), NEW u
  PROVE  u \in SCC(g, u)
BY FromSelf DEF SCC

LEMMA SCCNodes ==
  ASSUME NEW g, Closed(g), IsFiniteSet(DOMAIN g), NEW u \in DOMAIN g
  PROVE  SCC(g, u) \subseteq DOMAIN g
BY FromClosed DEF SCC

\* The members of a component have the same component.
LEMMA SCCSame ==
  ASSUME NEW g, Closed(g), IsFiniteSet(DOMAIN g), NEW u \in DOMAIN g, NEW v \in SCC(g, u)
  PROVE  SCC(g, v) = SCC(g, u)
<1>1. v \in DOMAIN g /\ v \in From(g, u) /\ u \in From(g, v)
  BY SCCNodes DEF SCC
<1>2. From(g, v) = From(g, u)
  BY <1>1, FromOn
<1>3. ASSUME NEW x \in From(g, u) PROVE u \in From(g, x) <=> v \in From(g, x)
  BY <1>1, <1>3, FromClosed, FromOn
<1> QED
  BY <1>2, <1>3 DEF SCC

\* Of any nodes none of which is on a cycle, one depends on no other of them.
LEMMA AcyclicHasSource ==
  ASSUME NEW g, Graph(g), IsFiniteSet(DOMAIN g),
         NEW S \in SUBSET DOMAIN g, S # {}, \A u \in S : ~OnCycle(g, u)
  PROVE  \E v \in S : \A u \in S : v \notin g[u]
<1>1. PICK t : t = transpose(g)
  OBVIOUS
<1>2. /\ DOMAIN t = DOMAIN g /\ Closed(t) /\ IsFiniteSet(DOMAIN t)
      /\ \A x \in DOMAIN g : t[x] = {u \in DOMAIN g : x \in g[u]}
  BY <1>1, TransposeGraph, TransposeSlot DEF Graph
<1> DEFINE Behind == {From(t, v) : v \in S}
<1>3. Behind \subseteq FiniteSubsetsOf(DOMAIN g) /\ Behind # {}
  <2>1. \A v \in S : From(t, v) \in SUBSET DOMAIN g /\ IsFiniteSet(From(t, v))
    BY <1>2, FromClosed, FS_Subset
  <2> QED
    BY <2>1 DEF FiniteSubsetsOf
<1>4. \E T \in Behind : \A U \in Behind : <<U, T>> \notin StrictSubsetOrdering(DOMAIN g)
  <2> HIDE DEF Behind
  <2> QED
    BY <1>3, WFMin, FS_StrictSubsetOrderingWellFounded
<1>5. PICK v \in S : \A u \in S : <<From(t, u), From(t, v)>> \notin StrictSubsetOrdering(DOMAIN g)
  BY <1>4
<1>6. ASSUME NEW u \in S, v \in g[u] PROVE FALSE
  <2>1. u \in DOMAIN g /\ v \in DOMAIN g /\ u \in t[v]
    BY <1>2, <1>6
  <2>2. From(t, u) \subseteq From(t, v) /\ From(t, v) \subseteq DOMAIN g /\ v \in From(t, v)
    BY <1>2, <2>1, FromSelf, FromClosed, FromOn
  <2>3. v \in From(t, u)
    BY <1>5, <2>2 DEF StrictSubsetOrdering
  <2>4. u \in From(g, v)
    BY <1>1, <2>1, <2>3, FromBack
  <2> QED
    BY <1>6, <2>4 DEF OnCycle
<1> QED
  BY <1>6

-------------------------------------------------------------------------------
(* Paths around a node: removeNode takes it out.                           *)

LEMMA Without ==
  ASSUME NEW g, Graph(g), IsFiniteSet(DOMAIN g), NEW h
  PROVE  /\ DOMAIN removeNode(g, h) = DOMAIN g \ {h}
         /\ IsFiniteSet(DOMAIN removeNode(g, h))
         /\ \A x \in DOMAIN removeNode(g, h) : removeNode(g, h)[x] = g[x] \ {h}
         /\ Graph(removeNode(g, h)) /\ Closed(removeNode(g, h)) /\ Closed(g)
<1> DEFINE less == removeNode(g, h)
<1>1. DOMAIN less = DOMAIN g \ {h} /\ \A x \in DOMAIN less : less[x] = g[x] \ {h}
  BY DEF removeNode
<1>2. less = [x \in DOMAIN less |-> less[x]]
  BY DEF removeNode
<1>3. Closed(less) /\ Closed(g)
  BY <1>1 DEF Graph, Closed
<1>4. IsFiniteSet(DOMAIN less)
  BY <1>1, FS_Subset
<1> QED
  BY <1>1, <1>2, <1>3, <1>4 DEF Graph

\* A path around h is a path.
LEMMA PathsAround ==
  ASSUME NEW g, Graph(g), IsFiniteSet(DOMAIN g), NEW h, NEW u \in DOMAIN g \ {h}
  PROVE  From(removeNode(g, h), u) \subseteq From(g, u) /\ From(removeNode(g, h), u) \subseteq DOMAIN g \ {h}
<1>1. PICK less : less = removeNode(g, h)
  OBVIOUS
<1>2. /\ DOMAIN less = DOMAIN g \ {h} /\ IsFiniteSet(DOMAIN less)
      /\ \A x \in DOMAIN less : less[x] = g[x] \ {h}
      /\ Closed(less) /\ Closed(g)
  BY <1>1, Without
<1>3. PICK C : C = From(g, u) \cap DOMAIN less
  OBVIOUS
<1>4. From(less, u) \subseteq DOMAIN less
  BY <1>2, FromClosed
<1>5. u \in C /\ \A x \in C : less[x] \subseteq C
  <2>1. u \in From(g, u) /\ \A x \in From(g, u) : g[x] \subseteq From(g, u)
    BY <1>2, FromSelf, FromClosed
  <2>2. \A x \in DOMAIN less : less[x] \subseteq DOMAIN less
    BY <1>2 DEF Closed
  <2> QED
    BY <1>2, <1>3, <2>1, <2>2
<1>6. From(less, u) \subseteq C
  BY <1>2, <1>5, FromLeast
<1> QED
  BY <1>1, <1>2, <1>3, <1>4, <1>6

\* A path goes around h or through it.
LEMMA AroundOrThrough ==
  ASSUME NEW g, Graph(g), IsFiniteSet(DOMAIN g), NEW h \in DOMAIN g,
         NEW u \in DOMAIN g \ {h}, NEW v \in From(g, u), v \notin From(removeNode(g, h), u)
  PROVE  v \in From(g, h)
<1>1. PICK less : less = removeNode(g, h)
  OBVIOUS
<1>2. /\ DOMAIN less = DOMAIN g \ {h} /\ IsFiniteSet(DOMAIN less)
      /\ \A x \in DOMAIN less : less[x] = g[x] \ {h}
      /\ Closed(less) /\ Closed(g)
  BY <1>1, Without
<1>3. PICK C : C = From(less, u) \cup From(g, h)
  OBVIOUS
<1>4. u \in From(less, u) /\ h \in From(g, h)
  BY <1>2, FromSelf
<1>5. \A x \in C : g[x] \subseteq C
  <2>1. \A x \in From(less, u) : x \in DOMAIN less /\ less[x] \subseteq From(less, u)
    BY <1>2, FromClosed
  <2>2. \A x \in From(g, h) : g[x] \subseteq From(g, h)
    BY <1>2, FromClosed
  <2> QED
    BY <1>2, <1>3, <1>4, <2>1, <2>2
<1>6. From(g, u) \subseteq C
  BY <1>3, <1>4, <1>5, FromLeast
<1> QED
  BY <1>1, <1>3, <1>6

\* What post-dominates a post-dominator post-dominates.
LEMMA PostDominatesOn ==
  ASSUME NEW g, Graph(g), IsFiniteSet(DOMAIN g),
         NEW c \in DOMAIN g, NEW y \in DOMAIN g, NEW s \in DOMAIN g,
         PostDominates(g, c, y), PostDominates(g, y, s)
  PROVE  PostDominates(g, c, s)
<1>1. CASE c = s \/ y = s \/ c = y
  BY <1>1 DEF PostDominates
<1>2. CASE ~(c = s \/ y = s \/ c = y)
  <2> SUFFICES ASSUME NEW e \in Exits(g), e \in From(removeNode(g, c), s) PROVE FALSE
    BY DEF PostDominates
  <2>1. PICK r : r = removeNode(g, c)
    OBVIOUS
  <2>2. PICK m : m = removeNode(g, y)
    OBVIOUS
  <2>3. PICK rm : rm = removeNode(r, y)
    OBVIOUS
  <2>4. /\ Graph(r) /\ IsFiniteSet(DOMAIN r) /\ DOMAIN r = DOMAIN g \ {c}
        /\ \A x \in DOMAIN r : r[x] = g[x] \ {c}
    <3>1. Graph(r) /\ IsFiniteSet(DOMAIN r)
      BY <2>1, Without
    <3>2. DOMAIN r = DOMAIN g \ {c} /\ \A x \in DOMAIN r : r[x] = g[x] \ {c}
      BY <2>1 DEF removeNode
    <3> QED
      BY <3>1, <3>2
  <2>5. /\ Closed(m) /\ IsFiniteSet(DOMAIN m) /\ DOMAIN m = DOMAIN g \ {y}
        /\ \A x \in DOMAIN m : m[x] = g[x] \ {y}
    <3>1. Closed(m) /\ IsFiniteSet(DOMAIN m)
      BY <2>2, Without
    <3>2. DOMAIN m = DOMAIN g \ {y} /\ \A x \in DOMAIN m : m[x] = g[x] \ {y}
      BY <2>2 DEF removeNode
    <3> QED
      BY <3>1, <3>2
  <2>6. /\ IsFiniteSet(DOMAIN rm) /\ DOMAIN rm = DOMAIN r \ {y}
        /\ \A x \in DOMAIN rm : rm[x] = r[x] \ {y}
    <3>1. IsFiniteSet(DOMAIN rm)
      BY <2>3, <2>4, Without
    <3>2. DOMAIN rm = DOMAIN r \ {y} /\ \A x \in DOMAIN rm : rm[x] = r[x] \ {y}
      BY <2>3 DEF removeNode
    <3> QED
      BY <3>1, <3>2
  <2>7. From(rm, s) \subseteq From(m, s) \ {c}
    <3>1. s \in From(m, s) \ {c} /\ From(m, s) \subseteq DOMAIN m
          /\ \A x \in From(m, s) : m[x] \subseteq From(m, s)
      BY <1>2, <2>5, FromSelf, FromClosed
    <3>2. PICK C : C = From(m, s) \ {c}
      OBVIOUS
    <3>3. ASSUME NEW x \in C PROVE rm[x] \subseteq C
      <4>1. x \in DOMAIN m /\ x \in DOMAIN r /\ x \in DOMAIN rm
        BY <1>2, <2>4, <2>5, <2>6, <3>1, <3>2, <3>3
      <4>2. rm[x] = (g[x] \ {y}) \ {c} /\ m[x] = g[x] \ {y}
        BY <2>4, <2>5, <2>6, <4>1
      <4> QED
        BY <3>1, <3>2, <3>3, <4>2
    <3>4. From(rm, s) \subseteq C
      BY <2>6, <3>1, <3>2, <3>3, FromLeast
    <3> QED
      BY <3>2, <3>4
  <2>8. e \notin From(m, s)
    BY <1>2, <2>2 DEF PostDominates
  <2>9. e \in From(r, y)
    <3>1. e \in From(r, s) /\ e \notin From(removeNode(r, y), s)
      BY <2>1, <2>3, <2>7, <2>8
    <3> QED
      BY <1>2, <2>4, <3>1, AroundOrThrough
  <2> QED
    BY <1>2, <2>1, <2>9 DEF PostDominates
<1> QED
  BY <1>1, <1>2

===============================================================================
