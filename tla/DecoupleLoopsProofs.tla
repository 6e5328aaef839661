-------------------------- MODULE DecoupleLoopsProofs --------------------------
(***************************************************************************)
(* Proofs about the passes from CDG to DecoupleLoops for every function:   *)
(* the PSG is acyclic and can be written; and each loop that is left for   *)
(* good has iter, which is the component of the branches that leave it,    *)
(* all of its other instructions are work, and nothing flows from work to  *)
(* iter.                                                                   *)
(***************************************************************************)
EXTENDS Printers, DepGraphProofs

-------------------------------------------------------------------------------
(* Control flow.                                                           *)

\* Paths that do not meet a node are not cut by taking it out.
LEMMA PathsNotCut ==
  ASSUME NEW g, Graph(g), IsFiniteSet(DOMAIN g), NEW b, NEW s \in DOMAIN g, b \notin From(g, s)
  PROVE  From(g, s) \subseteq From(removeNode(g, b), s)
<1>1. PICK less : less = removeNode(g, b)
  OBVIOUS
<1>2. /\ DOMAIN less = DOMAIN g \ {b} /\ IsFiniteSet(DOMAIN less)
      /\ \A x \in DOMAIN less : less[x] = g[x] \ {b}
      /\ Closed(less) /\ Closed(g)
  <2>1. DOMAIN less = DOMAIN g \ {b} /\ \A x \in DOMAIN less : less[x] = g[x] \ {b}
    BY <1>1 DEF removeNode
  <2>2. IsFiniteSet(DOMAIN less)
    BY <2>1, FS_Subset
  <2>3. Closed(g) /\ Closed(less)
    BY <2>1 DEF Graph, Closed
  <2> QED
    BY <2>1, <2>2, <2>3
<1>3. s \in DOMAIN g \ {b}
  BY FromSelf
<1>4. /\ s \in From(less, s) /\ From(less, s) \subseteq From(g, s)
      /\ \A x \in From(less, s) : x \in DOMAIN less /\ less[x] \subseteq From(less, s)
  BY <1>1, <1>2, <1>3, FromSelf, FromClosed, PathsAround
<1>5. \A z \in From(g, s) : g[z] \subseteq From(g, s)
  BY <1>2, FromClosed
<1>6. ASSUME NEW x \in From(less, s), NEW y \in g[x] PROVE y \in From(less, s)
  <2>1. y \in From(g, s)
    BY <1>4, <1>5, <1>6
  <2>2. y \in less[x]
    BY <1>2, <1>4, <1>6, <2>1
  <2> QED
    BY <1>4, <2>2
<1>7. From(g, s) \subseteq From(less, s)
  BY <1>4, <1>6, FromLeast
<1> QED
  BY <1>1, <1>7

\* Control dependences go along paths, in a function all of whose blocks lead
\* to an exit.
LEMMA ControlGoesForward ==
  ASSUME NEW g, Graph(g), IsFiniteSet(DOMAIN g), \A b \in DOMAIN g : From(g, b) \cap Exits(g) # {},
         NEW a \in DOMAIN g, NEW b \in DOMAIN g, ControlDependent(g, a, b)
  PROVE  b \in From(g, a)
<1>1. PICK s \in g[a] : PostDominates(g, b, s)
  BY DEF ControlDependent
<1>2. Closed(g) /\ s \in DOMAIN g
  BY DEF Graph, Closed
<1>3. s \in From(g, a) /\ From(g, s) \subseteq From(g, a)
  BY <1>2, FromSelf, FromClosed, FromOn
<1>4. CASE b = s
  BY <1>3, <1>4
<1>5. CASE b # s
  <2>1. Exits(g) \cap From(removeNode(g, b), s) = {}
    BY <1>1, <1>5 DEF PostDominates
  <2>2. PICK e \in From(g, s) \cap Exits(g) : TRUE
    BY <1>2
  <2>3. e \in From(g, b)
    BY <1>2, <1>5, <2>1, <2>2, AroundOrThrough
  <2>4. ASSUME b \notin From(g, s) PROVE FALSE
    BY <1>2, <2>1, <2>2, <2>4, PathsNotCut
  <2> QED
    BY <1>3, <2>4
<1> QED
  BY <1>4, <1>5

\* Every block of a natural loop is on a cycle with the header.
LEMMA LoopIsOnCycle ==
  ASSUME NEW g, Graph(g), IsFiniteSet(DOMAIN g), NEW entry \in DOMAIN g,
         From(g, entry) = DOMAIN g, NEW h \in DOMAIN g, NEW b \in NaturalLoop(g, entry, h)
  PROVE  b \in SCC(g, h) /\ b \in DOMAIN g
<1>1. CASE b = h
  BY <1>1, SCCSelf
<1>2. CASE b # h
  <2>1. PICK l \in From(removeNode(g, h), b) : l \in Preds(g, h) /\ Dominates(g, entry, h, l)
    BY <1>2 DEF NaturalLoop
  <2>2. b \in DOMAIN g \ {h}
    BY <1>2, Without DEF NaturalLoop
  <2>3. l \in From(g, b) /\ l \in DOMAIN g \ {h} /\ Closed(g)
    BY <2>1, <2>2, Without, PathsAround
  <2>4. h \in From(g, b)
    BY <2>1, <2>2, <2>3, FromClosed DEF Preds
  <2>5. b \in From(g, h)
    <3>1. CASE entry = h
      BY <2>2, <3>1
    <3>2. CASE entry # h
      <4>1. l \notin From(removeNode(g, h), entry)
        BY <2>3, <3>2, <2>1 DEF Dominates
      <4>2. ASSUME b \in From(removeNode(g, h), entry) PROVE FALSE
        <5>1. entry \in DOMAIN removeNode(g, h)
          BY <3>2 DEF removeNode
        <5>2. From(removeNode(g, h), b) \subseteq From(removeNode(g, h), entry)
          BY <4>2, <5>1, Without, FromOn
        <5> QED
          BY <2>1, <4>1, <5>2
      <4> QED
        BY <2>2, <3>2, <4>2, AroundOrThrough
    <3> QED
      BY <3>1, <3>2
  <2> QED
    BY <2>2, <2>4, <2>5 DEF SCC
<1> QED
  BY <1>1, <1>2

\* What u leads to, it leads to around a, or v leads to it around b, if u leads
\* to b around a, and v to a around b.
LEMMA AroundOneOrTheOther ==
  ASSUME NEW g, Graph(g), IsFiniteSet(DOMAIN g), NEW a \in DOMAIN g, NEW b \in DOMAIN g,
         NEW u \in DOMAIN g \ {a}, NEW v \in DOMAIN g \ {b},
         b \in From(removeNode(g, a), u), a \in From(removeNode(g, b), v)
  PROVE  From(g, u) \subseteq From(removeNode(g, a), u) \cup From(removeNode(g, b), v)
<1>1. PICK A : A = From(removeNode(g, a), u)
  OBVIOUS
<1>2. PICK B : B = From(removeNode(g, b), v)
  OBVIOUS
<1>3. /\ DOMAIN removeNode(g, a) = DOMAIN g \ {a} /\ DOMAIN removeNode(g, b) = DOMAIN g \ {b}
      /\ \A y \in DOMAIN g \ {a} : removeNode(g, a)[y] = g[y] \ {a}
      /\ \A y \in DOMAIN g \ {b} : removeNode(g, b)[y] = g[y] \ {b}
  BY DEF removeNode
<1>4. u \in A /\ A \subseteq DOMAIN g \ {a} /\ \A y \in A : removeNode(g, a)[y] \subseteq A
  BY <1>1, <1>3, Without, FromSelf, FromClosed
<1>5. B \subseteq DOMAIN g \ {b} /\ \A y \in B : removeNode(g, b)[y] \subseteq B
  BY <1>2, <1>3, Without, FromClosed
<1>6. ASSUME NEW y \in A \cup B PROVE g[y] \subseteq A \cup B
  BY <1>1, <1>2, <1>3, <1>4, <1>5
<1> QED
  BY <1>1, <1>2, <1>4, <1>6, FromLeast

\* Of two blocks that dominate a third one dominates the other.
LEMMA DominatorsInLine ==
  ASSUME NEW g, Graph(g), IsFiniteSet(DOMAIN g), NEW entry \in DOMAIN g,
         From(g, entry) = DOMAIN g, NEW a \in DOMAIN g, NEW b \in DOMAIN g, NEW x \in DOMAIN g,
         Dominates(g, entry, a, x), Dominates(g, entry, b, x)
  PROVE  Dominates(g, entry, a, b) \/ Dominates(g, entry, b, a)
<1> SUFFICES ASSUME ~Dominates(g, entry, a, b), ~Dominates(g, entry, b, a) PROVE FALSE
  OBVIOUS
<1>1. entry # a /\ entry # b /\ b \in From(removeNode(g, a), entry) /\ a \in From(removeNode(g, b), entry)
  BY DEF Dominates
<1>2. From(g, entry) \subseteq From(removeNode(g, a), entry) \cup From(removeNode(g, b), entry)
  BY <1>1, AroundOneOrTheOther
<1>3. /\ From(removeNode(g, a), entry) \subseteq DOMAIN g \ {a}
      /\ From(removeNode(g, b), entry) \subseteq DOMAIN g \ {b}
  BY <1>1, PathsAround
<1> QED
  BY <1>1, <1>2, <1>3 DEF Dominates

\* No two blocks dominate each other.
LEMMA DominatesOneWay ==
  ASSUME NEW g, Graph(g), IsFiniteSet(DOMAIN g), NEW entry \in DOMAIN g,
         From(g, entry) = DOMAIN g, NEW a \in DOMAIN g, NEW b \in DOMAIN g,
         Dominates(g, entry, a, b), Dominates(g, entry, b, a)
  PROVE  a = b
<1> SUFFICES ASSUME a # b PROVE FALSE
  OBVIOUS
<1>1. PICK A : A = From(removeNode(g, a), entry)
  OBVIOUS
<1>2. PICK B : B = From(removeNode(g, b), entry)
  OBVIOUS
<1>3. entry # a => entry \in A /\ entry \in DOMAIN removeNode(g, a)
  BY <1>1, Without, FromSelf DEF removeNode
<1>4. entry # b => entry \in B /\ entry \in DOMAIN removeNode(g, b)
  BY <1>2, Without, FromSelf DEF removeNode
<1>5. entry # a /\ entry # b /\ b \notin A /\ a \notin B
  BY <1>1, <1>2, <1>3, <1>4 DEF Dominates
<1>6. /\ \A y \in DOMAIN g \ {a} : removeNode(g, a)[y] = g[y] \ {a}
      /\ \A y \in DOMAIN g \ {b} : removeNode(g, b)[y] = g[y] \ {b}
  BY DEF removeNode
<1>7. /\ A \subseteq DOMAIN g \ {a} /\ \A y \in A : removeNode(g, a)[y] \subseteq A
      /\ B \subseteq DOMAIN g \ {b} /\ \A y \in B : removeNode(g, b)[y] \subseteq B
  BY <1>1, <1>2, <1>3, <1>4, <1>5, PathsAround, Without, FromClosed
<1>8. ASSUME NEW y \in A \cap B PROVE g[y] \subseteq A \cap B
  BY <1>5, <1>6, <1>7
<1>9. From(g, entry) \subseteq A \cap B
  BY <1>3, <1>4, <1>5, <1>8, FromLeast
<1> QED
  BY <1>7, <1>9

\* The header of a loop dominates its blocks.
LEMMA HeaderDominates ==
  ASSUME NEW g, Graph(g), IsFiniteSet(DOMAIN g), NEW entry \in DOMAIN g,
         NEW h \in DOMAIN g, NEW b \in NaturalLoop(g, entry, h)
  PROVE  Dominates(g, entry, h, b)
<1> SUFFICES ASSUME b # h, entry # h, b \in From(removeNode(g, h), entry) PROVE FALSE
  BY DEF Dominates
<1>1. PICK l \in From(removeNode(g, h), b) : l \in Preds(g, h) /\ Dominates(g, entry, h, l)
  BY DEF NaturalLoop
<1>2. b \in DOMAIN g \ {h}
  BY DEF NaturalLoop, removeNode
<1>3. entry \in DOMAIN removeNode(g, h)
  BY DEF removeNode
<1>4. From(removeNode(g, h), b) \subseteq From(removeNode(g, h), entry)
  BY <1>3, Without, FromOn
<1>5. l # h
  BY <1>1, <1>2, PathsAround
<1> QED
  BY <1>1, <1>4, <1>5 DEF Dominates

\* The loop of a header that another loop's header dominates is part of the
\* other, if they have a block in common.
LEMMA LoopInLoop ==
  ASSUME NEW g, Graph(g), IsFiniteSet(DOMAIN g), NEW entry \in DOMAIN g,
         From(g, entry) = DOMAIN g, NEW h \in DOMAIN g, NEW k \in DOMAIN g, h # k,
         Dominates(g, entry, h, k),
         NEW x \in NaturalLoop(g, entry, h), x \in NaturalLoop(g, entry, k)
  PROVE  NaturalLoop(g, entry, k) \subseteq NaturalLoop(g, entry, h)
<1>1. PICK r : r = removeNode(g, h)
  OBVIOUS
<1>2. PICK q : q = removeNode(g, k)
  OBVIOUS
<1>3. /\ DOMAIN r = DOMAIN g \ {h} /\ \A y \in DOMAIN g \ {h} : r[y] = g[y] \ {h}
      /\ DOMAIN q = DOMAIN g \ {k} /\ \A y \in DOMAIN g \ {k} : q[y] = g[y] \ {k}
  BY <1>1, <1>2 DEF removeNode
<1>4. /\ Graph(r) /\ Closed(r) /\ IsFiniteSet(DOMAIN r)
      /\ Graph(q) /\ Closed(q) /\ IsFiniteSet(DOMAIN q) /\ Closed(g)
  BY <1>1, <1>2, Without
<1>5. h \notin NaturalLoop(g, entry, k)
  BY HeaderDominates, DominatesOneWay
\* What leads to a latch of k around k is in the loop.
<1>6. ASSUME NEW y \in DOMAIN q, NEW t \in From(q, y), t \in Preds(g, k), Dominates(g, entry, k, t)
      PROVE  y \in NaturalLoop(g, entry, k)
  BY <1>2, <1>6 DEF NaturalLoop
<1>7. ASSUME NEW y \in DOMAIN r, NEW t \in From(r, y), t \in Preds(g, h), Dominates(g, entry, h, t)
      PROVE  y \in NaturalLoop(g, entry, h)
  BY <1>1, <1>7 DEF NaturalLoop
<1>8. x # h /\ x \in DOMAIN r
  <2>1. x \in DOMAIN g
    BY LoopIsOnCycle
  <2> QED
    BY <1>3, <1>5, <2>1
<1>9. PICK t1 \in From(r, x) : t1 \in Preds(g, h) /\ Dominates(g, entry, h, t1)
  BY <1>1, <1>8 DEF NaturalLoop
\* The header k leads to x around h.
<1>10. x \in From(r, k)
  <2>1. CASE x = k
    BY <2>1, FromSelf, <1>3, <1>4
  <2>2. CASE x # k
    <3>1. PICK t2 \in From(q, x) : t2 \in Preds(g, k) /\ Dominates(g, entry, k, t2)
      BY <1>2, <2>2 DEF NaturalLoop
    <3>2. x \notin From(q, h)
      <4> SUFFICES ASSUME x \in From(q, h) PROVE FALSE
        OBVIOUS
      <4>1. h \in DOMAIN q
        BY <1>3
      <4>2. t2 \in From(q, h)
        BY <1>4, <3>1, <4>1, FromOn
      <4> QED
        BY <1>5, <1>6, <3>1, <4>1, <4>2
    <3>3. x \in From(g, k)
      BY LoopIsOnCycle DEF SCC
    <3>4. k \in From(r, k) /\ h \in From(q, h)
      BY <1>3, <1>4, FromSelf
    <3>5. From(g, k) \subseteq From(r, k) \cup From(q, h)
      BY <1>1, <1>2, <3>4, AroundOneOrTheOther
    <3> QED
      BY <3>2, <3>3, <3>5
  <2> QED
    BY <2>1, <2>2
<1>11. t1 \in From(r, k)
  BY <1>3, <1>4, <1>9, <1>10, FromOn
<1> SUFFICES ASSUME NEW y \in NaturalLoop(g, entry, k) PROVE y \in NaturalLoop(g, entry, h)
  OBVIOUS
<1>12. CASE y = k
  BY <1>3, <1>7, <1>9, <1>11, <1>12
<1>13. CASE y # k
  <2>1. y \in DOMAIN g /\ y # h /\ y \in DOMAIN q /\ y \in DOMAIN r
    BY <1>3, <1>5, <1>13, LoopIsOnCycle
  <2>2. PICK t2 \in From(q, y) : t2 \in Preds(g, k) /\ Dominates(g, entry, k, t2)
    BY <1>2, <1>13 DEF NaturalLoop
  <2>3. PICK m : m = removeNode(q, h)
    OBVIOUS
  <2>4. t2 \in From(m, y)
    <3> SUFFICES ASSUME t2 \notin From(m, y) PROVE FALSE
      OBVIOUS
    <3>1. h \in DOMAIN q
      BY <1>3
    <3>2. t2 \in From(q, h)
      BY <1>4, <2>1, <2>2, <2>3, <3>1, AroundOrThrough
    <3> QED
      BY <1>5, <1>6, <2>2, <3>1, <3>2
  <2>5. From(m, y) \subseteq From(r, y)
    <3>1. DOMAIN m = DOMAIN q \ {h} /\ \A z \in DOMAIN q \ {h} : m[z] = q[z] \ {h}
      BY <2>3 DEF removeNode
    <3>2. IsFiniteSet(DOMAIN m)
      BY <1>4, <3>1, FS_Subset
    <3>3. PICK C : C = From(r, y) \cap DOMAIN m
      OBVIOUS
    <3>4. y \in From(r, y) /\ \A z \in From(r, y) : z \in DOMAIN r /\ r[z] \subseteq From(r, y)
      BY <1>4, <2>1, FromSelf, FromClosed
    <3>5. ASSUME NEW z \in C PROVE m[z] \subseteq C
      <4>1. z \in DOMAIN q /\ z # h /\ z \in DOMAIN r /\ z # k
        BY <1>3, <3>1, <3>3
      <4>2. m[z] = (g[z] \ {k}) \ {h} /\ r[z] = g[z] \ {h} /\ q[z] \subseteq DOMAIN q
        BY <1>3, <1>4, <3>1, <4>1 DEF Closed
      <4> QED
        BY <1>3, <3>1, <3>3, <3>4, <4>1, <4>2
    <3>6. y \in C
      BY <2>1, <3>1, <3>3, <3>4
    <3>7. From(m, y) \subseteq C
      BY <3>2, <3>5, <3>6, FromLeast
    <3> QED
      BY <3>3, <3>7
  <2>6. k \in From(r, y)
    <3>1. t2 \in From(r, y)
      BY <2>4, <2>5
    <3>2. t2 \in DOMAIN r /\ r[t2] \subseteq From(r, y)
      BY <1>4, <2>1, <3>1, FromClosed
    <3>3. k \in r[t2]
      BY <1>3, <2>2, <3>2 DEF Preds
    <3> QED
      BY <3>2, <3>3
  <2>7. t1 \in From(r, y)
    BY <1>4, <1>11, <2>1, <2>6, FromOn
  <2> QED
    BY <1>7, <1>9, <2>1, <2>7
<1> QED
  BY <1>12, <1>13

\* Two loops that are in no other have no block in common, in any graph.
LEMMA LoopsApart ==
  ASSUME NEW g, Graph(g), IsFiniteSet(DOMAIN g), NEW entry \in DOMAIN g,
         From(g, entry) = DOMAIN g, NEW L \in TopLevelLoops(g, entry),
         NEW M \in TopLevelLoops(g, entry), L # M
  PROVE  L \cap M = {}
<1> SUFFICES ASSUME NEW x \in L \cap M PROVE FALSE
  OBVIOUS
<1> DEFINE Heads == {NaturalLoop(g, entry, h) : h \in DOMAIN g} \ {{}}
<1>1. /\ L \in Heads /\ M \in Heads
      /\ \A N \in Heads : L \subseteq N => L = N
      /\ \A N \in Heads : M \subseteq N => M = N
  BY DEF TopLevelLoops
<1>2. PICK h \in DOMAIN g : L = NaturalLoop(g, entry, h)
  BY <1>1
<1>3. PICK k \in DOMAIN g : M = NaturalLoop(g, entry, k)
  BY <1>1
<1>4. /\ x \in NaturalLoop(g, entry, h) /\ x \in NaturalLoop(g, entry, k) /\ h # k
  BY <1>2, <1>3
<1>5. x \in DOMAIN g
  BY <1>4, LoopIsOnCycle
<1>6. Dominates(g, entry, h, x) /\ Dominates(g, entry, k, x)
  BY <1>4, HeaderDominates
<1>7. CASE Dominates(g, entry, h, k)
  <2>1. M \subseteq L
    BY <1>2, <1>3, <1>4, <1>7, LoopInLoop
  <2> QED
    BY <1>1, <2>1
<1>8. CASE Dominates(g, entry, k, h)
  <2>1. L \subseteq M
    BY <1>2, <1>3, <1>4, <1>8, LoopInLoop
  <2> QED
    BY <1>1, <2>1
<1> QED
  BY <1>5, <1>6, <1>7, <1>8, DominatorsInLine

\* A loop that is left for good: its blocks lead to each other, and what it is
\* left to does not lead back.
Whole(g, L) == /\ L \subseteq DOMAIN g
               /\ \A x, y \in L : y \in From(g, x)
               /\ \A x \in L : \A s \in g[x] \ L : From(g, s) \cap L = {}

\* In such a loop a block that may leave it decides, by a chain of control
\* dependences in the loop, on all of it.
LEMMA LeafControlsLoop ==
  ASSUME NEW g, Graph(g), IsFiniteSet(DOMAIN g), \A x \in DOMAIN g : From(g, x) \cap Exits(g) # {},
         NEW L, Whole(g, L), NEW b \in L, ~(g[b] \subseteq L),
         NEW C, b \in C, \A x \in C \cap L : \A c \in L : ControlDependent(g, x, c) => c \in C
  PROVE  L \subseteq C
<1>1. PICK h : h = [x \in L |-> {c \in L : ControlDependent(g, x, c)}]
  OBVIOUS
<1>2. /\ DOMAIN h = L /\ IsFiniteSet(DOMAIN h) /\ Closed(h)
      /\ \A x \in L : h[x] = {c \in L : ControlDependent(g, x, c)}
  BY <1>1, FS_Subset DEF Whole, Closed
<1>3. PICK D : D = From(h, b)
  OBVIOUS
<1>4. /\ D \subseteq L /\ b \in D
      /\ \A x \in D : \A c \in L : ControlDependent(g, x, c) => c \in D
  <2>1. D \subseteq L /\ \A x \in D : h[x] \subseteq D
    BY <1>2, <1>3, FromClosed
  <2>2. b \in D
    BY <1>2, <1>3, FromSelf
  <2> QED
    BY <1>2, <2>1, <2>2
<1>5. D \subseteq C
  <2>1. b \in C \cap L /\ \A x \in C \cap L : h[x] \subseteq C \cap L
    BY <1>2
  <2>2. From(h, b) \subseteq C \cap L
    BY <1>2, <2>1, FromLeast
  <2> QED
    BY <1>3, <2>2
<1>6. ASSUME D # L PROVE FALSE
  <2>1. PICK p \in D, c \in L \ D : c \in g[p]
    <3> SUFFICES ASSUME \A p \in D : \A c \in L \ D : c \notin g[p] PROVE FALSE
      OBVIOUS
    <3>1. PICK E : E = D \cup {x \in DOMAIN g : From(g, x) \cap L = {}}
      OBVIOUS
    <3>2. Closed(g)
      BY Without
    <3>3. ASSUME NEW x \in E, NEW y \in g[x] PROVE y \in E
      <4>1. x \in DOMAIN g /\ y \in DOMAIN g
        BY <1>4, <3>1, <3>2, <3>3 DEF Whole, Closed
      <4>2. CASE x \in D
        BY <1>4, <3>1, <3>3, <4>1, <4>2 DEF Whole
      <4>3. CASE x \notin D
        <5>1. From(g, x) \cap L = {}
          BY <3>1, <4>3
        <5>2. y \in From(g, x)
          BY <3>2, <3>3, <4>1, FromSelf, FromClosed
        <5>3. From(g, y) \subseteq From(g, x)
          BY <3>2, <4>1, <5>2, FromOn
        <5> QED
          BY <3>1, <4>1, <5>1, <5>3
      <4> QED
        BY <4>2, <4>3
    <3>4. From(g, b) \subseteq E
      BY <1>4, <3>1, <3>3, FromLeast
    <3>5. PICK c \in L : c \notin D
      BY <1>4, <1>6
    <3>6. c \in From(g, b) /\ c \in From(g, c)
      BY <3>5, FromSelf DEF Whole
    <3> QED
      BY <3>1, <3>4, <3>5, <3>6
  <2>2. /\ p \in DOMAIN g /\ c \in DOMAIN g /\ b \in DOMAIN g /\ p # c /\ b # c
        /\ D \subseteq DOMAIN g /\ Closed(g)
    BY <1>4, <2>1, Without DEF Whole
  <2>3. c \in StrictPostDominators(g, p)
    <3>1. PostDominates(g, c, c)
      BY DEF PostDominates
    <3> QED
      BY <1>4, <2>1, <3>1 DEF ControlDependent
  <2>4. c \notin StrictPostDominators(g, b)
    <3>1. PICK s \in g[b] : s \notin L
      OBVIOUS
    <3>2. s \in DOMAIN g /\ c \notin From(g, s)
      BY <2>1, <2>2, <3>1 DEF Whole, Closed
    <3>3. PICK e \in From(g, s) : e \in Exits(g)
      BY <3>2
    <3>4. e \in From(removeNode(g, c), s)
      BY <3>2, <3>3, PathsNotCut
    <3>5. PICK less : less = removeNode(g, c)
      OBVIOUS
    <3>6. /\ Closed(less) /\ IsFiniteSet(DOMAIN less) /\ b \in DOMAIN less /\ s \in less[b]
      <4>1. /\ Closed(less) /\ IsFiniteSet(DOMAIN less) /\ DOMAIN less = DOMAIN g \ {c}
            /\ \A x \in DOMAIN less : less[x] = g[x] \ {c}
        BY <3>5, Without
      <4>2. s # c
        BY <2>1, <3>1
      <4> QED
        BY <2>2, <3>1, <4>1, <4>2
    <3>7. s \in From(less, b)
      BY <3>6, FromSelf, FromClosed
    <3>8. e \in From(less, b)
      BY <3>4, <3>5, <3>6, <3>7, FromOn
    <3> QED
      BY <2>2, <3>3, <3>5, <3>8 DEF StrictPostDominators, PostDominates
  <2>5. PICK B : B = {x \in D : c \notin StrictPostDominators(g, x)}
    OBVIOUS
  <2>6. ASSUME NEW x \in B, NEW y \in h[x] PROVE y \in B
    <3>1. x \in D /\ x \in L /\ y \in L /\ ControlDependent(g, x, y) /\ y \in D
      BY <1>2, <1>4, <2>5, <2>6
    <3>2. PICK s \in g[x] : PostDominates(g, y, s)
      BY <3>1 DEF ControlDependent
    <3>3. ASSUME c \in StrictPostDominators(g, y) PROVE FALSE
      <4>1. PostDominates(g, c, y)
        BY <3>3 DEF StrictPostDominators
      <4>2. s \in DOMAIN g /\ y \in DOMAIN g
        BY <2>2, <3>1, <3>2 DEF Closed
      <4>3. PostDominates(g, c, s)
        BY <2>2, <3>2, <4>1, <4>2, PostDominatesOn
      <4>4. ControlDependent(g, x, c)
        BY <2>5, <2>6, <3>2, <4>3 DEF ControlDependent
      <4> QED
        BY <1>4, <2>1, <3>1, <4>4
    <3> QED
      BY <2>5, <3>1, <3>3
  <2>7. D \subseteq B
    BY <1>2, <1>3, <1>4, <2>4, <2>5, <2>6, FromLeast
  <2> QED
    BY <2>1, <2>3, <2>5, <2>7
<1> QED
  BY <1>5, <1>6

\* Each of its blocks is controlled by one of them, if it has a way on inside.
LEMMA LoopIsControlled ==
  ASSUME NEW g, Graph(g), IsFiniteSet(DOMAIN g), \A x \in DOMAIN g : From(g, x) \cap Exits(g) # {},
         NEW L, Whole(g, L), NEW b \in L, ~(g[b] \subseteq L), NEW c \in L, NEW t \in g[c] \cap L
  PROVE  \E x \in L : ControlDependent(g, x, c)
<1> SUFFICES ASSUME \A x \in L : ~ControlDependent(g, x, c) PROVE FALSE
  OBVIOUS
<1>1. ASSUME NEW l \in L, l # c PROVE g[l] \subseteq L
  <2> SUFFICES ASSUME ~(g[l] \subseteq L) PROVE FALSE
    OBVIOUS
  <2>1. PICK C : C = L \ {c}
    OBVIOUS
  <2>2. l \in C /\ \A x \in C \cap L : \A d \in L : ControlDependent(g, x, d) => d \in C
    BY <1>1, <2>1
  <2>3. L \subseteq C
    BY <1>1, <2>2, LeafControlsLoop
  <2> QED
    BY <2>1, <2>3
<1>2. PICK less : less = removeNode(g, c)
  OBVIOUS
<1>3. /\ IsFiniteSet(DOMAIN less) /\ c \in DOMAIN g /\ \A x \in L \ {c} : less[x] = g[x] \ {c}
  BY <1>2, Without DEF Whole
<1>4. t # c /\ \E e \in Exits(g) : e \in From(less, t)
  BY <1>2 DEF ControlDependent, StrictPostDominators, PostDominates
<1>5. PICK e \in Exits(g) : e \in From(less, t)
  BY <1>4
<1>6. PICK C : C = L \ {c}
  OBVIOUS
<1>7. t \in C /\ \A x \in C : less[x] \subseteq C
  BY <1>1, <1>3, <1>4, <1>6
<1>8. e \in C
  BY <1>3, <1>5, <1>7, FromLeast
<1>9. From(g, e) \subseteq {e}
  <2>1. e \in {e} /\ \A x \in {e} : g[x] \subseteq {e}
    BY DEF Exits
  <2> QED
    BY <2>1, FromLeast
<1>10. c \in From(g, e) /\ e # c
  BY <1>6, <1>8 DEF Whole
<1> QED
  BY <1>9, <1>10

\* A loop of LLVM's that is left for good is such a loop, and each block of it
\* has a way on inside.
LEMMA LoopIsWhole ==
  ASSUME NEW g, Graph(g), IsFiniteSet(DOMAIN g), NEW entry \in DOMAIN g, From(g, entry) = DOMAIN g,
         NEW L \in TopLevelLoops(g, entry),
         \A x \in L : \A s \in g[x] \ L : From(g, s) \cap L = {}
  PROVE  Whole(g, L) /\ \A c \in L : g[c] \cap L # {}
<1>1. Closed(g)
  BY Without
<1>2. PICK h \in DOMAIN g : L = NaturalLoop(g, entry, h) /\ L # {}
  BY DEF TopLevelLoops
<1>3. \A x \in L : x \in SCC(g, h) /\ x \in DOMAIN g
  BY <1>2, LoopIsOnCycle
<1>4. \A x \in L : SCC(g, x) = SCC(g, h)
  BY <1>1, <1>3, SCCSame
<1>5. \A x, y \in L : y \in From(g, x)
  BY <1>3, <1>4 DEF SCC
<1>6. Whole(g, L)
  BY <1>3, <1>5 DEF Whole
<1>7. PICK l \in L : h \in g[l]
  <2>1. PICK l \in Preds(g, h) : Dominates(g, entry, h, l)
    BY <1>2 DEF NaturalLoop
  <2>2. CASE l = h
    BY <1>2, <2>1, <2>2 DEF Preds, NaturalLoop
  <2>3. CASE l # h
    <3>1. l \in DOMAIN removeNode(g, h) /\ IsFiniteSet(DOMAIN removeNode(g, h))
      BY <2>1, <2>3, Without DEF Preds
    <3>2. l \in From(removeNode(g, h), l)
      BY <3>1, FromSelf
    <3>3. l \in L
      BY <1>2, <2>1, <3>1, <3>2 DEF NaturalLoop
    <3> QED
      BY <2>1, <3>3 DEF Preds
  <2> QED
    BY <2>2, <2>3
<1>8. h \in L
  BY <1>2 DEF NaturalLoop
<1>9. ASSUME NEW c \in L PROVE g[c] \cap L # {}
  <2>1. CASE c = l
    BY <1>7, <1>8, <2>1
  <2>2. CASE c # l
    <3>1. PICK x \in g[c] : l \in From(g, x)
      BY <1>1, <1>3, <1>5, <2>2, FromFirst
    <3>2. x \in L
      BY <3>1
    <3> QED
      BY <3>1, <3>2
  <2> QED
    BY <2>1, <2>2
<1> QED
  BY <1>6, <1>9

\* What leads from a loop that is left for good back to it is in the loop, and
\* so is every loop it meets.
LEMMA LeftForGoodIsWhole ==
  ASSUME NEW g, Graph(g), IsFiniteSet(DOMAIN g), NEW entry \in DOMAIN g, From(g, entry) = DOMAIN g,
         NEW L \in TopLevelLoops(g, entry), NEW M \in TopLevelLoops(g, entry),
         \A x \in L : \A s \in g[x] \ L : From(g, s) \cap L = {},
         NEW a \in L, NEW b \in M, b \in From(g, a), a \in From(g, b)
  PROVE  L = M
<1>1. Closed(g)
  BY Without
<1>2. PICK h1 \in DOMAIN g : L = NaturalLoop(g, entry, h1)
  BY DEF TopLevelLoops
<1>3. PICK h2 \in DOMAIN g : M = NaturalLoop(g, entry, h2)
  BY DEF TopLevelLoops
<1>4. L \subseteq SCC(g, h1) \cap DOMAIN g /\ M \subseteq SCC(g, h2) \cap DOMAIN g
  BY <1>2, <1>3, LoopIsOnCycle
<1>5. M \subseteq SCC(g, a)
  <2>1. SCC(g, b) = SCC(g, h2)
    BY <1>1, <1>3, <1>4, SCCSame
  <2>2. a \in DOMAIN g /\ b \in SCC(g, a)
    BY <1>4 DEF SCC
  <2> QED
    BY <1>1, <1>4, <2>1, <2>2, SCCSame
<1>6. SCC(g, a) \subseteq L
  <2>1. PICK C : C = {x \in DOMAIN g : x \in L \/ From(g, x) \cap L = {}}
    OBVIOUS
  <2>2. ASSUME NEW x \in C, NEW y \in g[x] PROVE y \in C
    <3>1. x \in DOMAIN g /\ y \in DOMAIN g
      BY <1>1, <2>1, <2>2 DEF Closed
    <3>2. CASE x \in L
      BY <2>1, <2>2, <3>1, <3>2
    <3>3. CASE x \notin L
      <4>1. From(g, x) \cap L = {}
        BY <2>1, <3>3
      <4>2. y \in From(g, x)
        BY <1>1, <2>2, <3>1, FromSelf, FromClosed
      <4>3. From(g, y) \subseteq From(g, x)
        BY <1>1, <3>1, <4>2, FromOn
      <4> QED
        BY <2>1, <3>1, <4>1, <4>3
    <3> QED
      BY <3>2, <3>3
  <2>3. a \in C /\ C \subseteq DOMAIN g
    BY <1>4, <2>1
  <2>4. From(g, a) \subseteq C
    BY <2>2, <2>3, FromLeast
  <2> QED
    BY <2>1, <2>4 DEF SCC
<1>7. M \in {NaturalLoop(g, entry, h) : h \in DOMAIN g} \ {{}}
  BY DEF TopLevelLoops
<1>8. M \subseteq L
  BY <1>5, <1>6
<1> QED
  BY <1>8 DEF TopLevelLoops

-------------------------------------------------------------------------------
(* What the passes have computed.                                          *)

Stages == {"cdg", "mdg", "ddg", "pdg", "psg", "loops", "split", "done"}

Mapped == /\ DOMAIN SccToLoop = {S \in Components : \E L \in Loops : S \cap InstsIn(L) # {}}
          /\ \A S \in DOMAIN SccToLoop : SccToLoop[S] \in Loops /\ S \cap InstsIn(SccToLoop[S]) # {}

InLoop(L) == {S \in DOMAIN SccToLoop : SccToLoop[S] = L}

Divided ==
    /\ LoopToWorkScc = [L \in Loops |-> {S \in InLoop(L) : DependsInItsLoop(S)}]
    /\ LoopToIterScc = [L \in Loops |-> {S \in InLoop(L) : ~DependsInItsLoop(S)}]

\* The graphs, each from the pass that computes it on.
Computed ==
    /\ pc # "cdg" => CDGraph = ControlDependences(F.cfg)
    /\ pc \notin {"cdg", "mdg"} =>
         MDGraph = [d \in Insts |-> {i \in Insts : F.memory[i] = [inst |-> d, isDef |-> TRUE]}]
    /\ pc \notin {"cdg", "mdg", "ddg"} => DDGraph = [i \in Insts |-> F.users[i]]
    /\ pc \in {"psg", "loops", "split", "done"} => PDGraph = [i \in Insts |-> PDGEdges(i)]
    /\ pc \in {"loops", "split", "done"} => PSGraph = [S \in Components |-> PSGEdges(S)]
    /\ pc \notin {"loops", "split", "done"} => PSGraph = Empty

IInv == /\ F \in Programs /\ pc \in Stages
        /\ Computed
        /\ pc \in {"split", "done"} => Mapped
        /\ pc = "done" => Divided

\* No step changes the function, or what the passes read off it.
LEMMA SameFunction ==
  ASSUME F' = F
  PROVE  /\ Insts' = Insts /\ Blocks' = Blocks /\ Loops' = Loops
         /\ \A b : InstsOf(b)' = InstsOf(b)
         /\ \A L : InstsIn(L)' = InstsIn(L)
BY DEF Insts, Blocks, Loops, InstsOf, InstsIn

\* An injective enumeration of a set by as many numbers as it has members
\* leaves none out.
LEMMA EnumerationIsOnto ==
  ASSUME NEW S, IsFiniteSet(S), NEW f \in SetToSeqs(S)
  PROVE  DOMAIN f = 1 .. Cardinality(S) /\ \A x \in S : \E k \in DOMAIN f : f[k] = x
<1>1. ToSet(f) = S
  BY Enumerations
<1> QED
  BY <1>1 DEF SetToSeqs, ToSet

LEMMA SameEdges ==
  ASSUME F' = F, CDGraph' = CDGraph, MDGraph' = MDGraph, DDGraph' = DDGraph
  PROVE  \A i : PDGEdges(i)' = PDGEdges(i)
BY DEF PDGEdges, ControlEdges, ConstantEdges, Insts, Blocks, InstsOf

LEMMA SameComponents ==
  ASSUME F' = F, PDGraph' = PDGraph
  PROVE  /\ Components' = Components
         /\ \A S : PSGEdges(S)' = PSGEdges(S)
BY DEF Components, PSGEdges, getSCC, Insts

\* What LLVM hands the passes, once the function is given.
LEMMA FunctionFacts ==
  ASSUME F \in Programs
  PROVE  /\ Graph(F.cfg) /\ IsFiniteSet(Insts) /\ IsFiniteSet(Blocks) /\ Blocks \subseteq Insts
         /\ F.entry \in Blocks
         /\ F.block \in [Insts -> Blocks] /\ \A b \in Blocks : F.block[b] = b
         /\ F.users \in [Insts -> SUBSET Insts]
         /\ None \notin Insts /\ None \notin SUBSET Insts
         /\ From(F.cfg, F.entry) = Blocks
         /\ \A b \in Blocks : From(F.cfg, b) \cap Exits(F.cfg) # {}
<1>1. /\ F.cfg \in [Blocks -> SUBSET Blocks] /\ F.entry \in Blocks
      /\ F.block \in [Insts -> Blocks] /\ \A b \in Blocks : b \in Insts /\ F.block[b] = b
      /\ F.users \in [Insts -> SUBSET Insts]
      /\ IsFiniteSet(Insts) /\ None \notin Insts /\ \A S \in SUBSET Insts : S # None
  BY ProgramsAssumption DEF Blocks, Insts
<1>2. /\ \A b \in Blocks : b \in From(F.cfg, F.entry)
      /\ \A b \in Blocks : From(F.cfg, b) \cap Exits(F.cfg) # {}
  BY PathsAssumption DEF Blocks
<1>3. Graph(F.cfg) /\ Closed(F.cfg) /\ DOMAIN F.cfg = Blocks
  BY <1>1 DEF Graph, Closed, Blocks
<1>4. IsFiniteSet(Blocks)
  BY <1>1, FS_Subset
<1>5. From(F.cfg, F.entry) \subseteq Blocks
  BY <1>1, <1>3, <1>4, FromClosed
<1> QED
  BY <1>1, <1>2, <1>3, <1>4, <1>5

LEMMA LoopsFacts ==
  ASSUME F \in Programs
  PROVE  /\ IsFiniteSet(Loops)
         /\ \A L \in Loops : L # {} /\ L \subseteq Blocks
         /\ \A L, i : i \in InstsIn(L) <=> i \in Insts /\ F.block[i] \in L
<1>1. /\ Graph(F.cfg) /\ IsFiniteSet(Blocks) /\ F.entry \in Blocks
      /\ From(F.cfg, F.entry) = DOMAIN F.cfg /\ DOMAIN F.cfg = Blocks
  BY FunctionFacts DEF Blocks
<1>2. ASSUME NEW L \in Loops PROVE L # {} /\ L \subseteq Blocks
  <2>1. L # {} /\ \E h \in DOMAIN F.cfg : L = NaturalLoop(F.cfg, F.entry, h)
    BY DEF Loops, TopLevelLoops
  <2> QED
    BY <1>1, <2>1, LoopIsOnCycle
<1>3. IsFiniteSet(Loops)
  <2>1. IsFiniteSet(SUBSET Blocks)
    BY <1>1, FS_SUBSET
  <2> QED
    BY <1>2, <2>1, FS_Subset
<1>4. \A L, i : i \in InstsIn(L) <=> i \in Insts /\ F.block[i] \in L
  BY DEF InstsIn, InstsOf
<1> QED
  BY <1>2, <1>3, <1>4

-------------------------------------------------------------------------------

\* A component keeps one loop, of those it has an instruction in.
LEMMA MapComponentsStep == IInv /\ MapComponents => IInv'
<1> SUFFICES ASSUME IInv, MapComponents PROVE IInv'
  OBVIOUS
<1>1. /\ pc = "loops" /\ pc' = "split"
      /\ UNCHANGED <<F, CDGraph, MDGraph, DDGraph, PDGraph, PSGraph>>
  BY DEF MapComponents
<1> DEFINE Of(order, S) == {k \in DOMAIN order : S \cap InstsIn(order[k]) # {}}
           mapped(order) == {S \in Components : Of(order, S) # {}}
<1>2. PICK order \in SetToSeqs(Loops) :
        SccToLoop' = [S \in mapped(order) |->
                        order[CHOOSE k \in Of(order, S) : \A l \in Of(order, S) : l <= k]]
  BY DEF MapComponents
<1>3. /\ DOMAIN order = 1 .. Cardinality(Loops) /\ Cardinality(Loops) \in Nat
      /\ \A k \in DOMAIN order : order[k] \in Loops
      /\ \A L \in Loops : \E k \in DOMAIN order : order[k] = L
  <2>1. IsFiniteSet(Loops)
    BY LoopsFacts DEF IInv
  <2>2. Cardinality(Loops) \in Nat
    BY <2>1, FS_CardinalityType
  <2>3. DOMAIN order = 1 .. Cardinality(Loops) /\ \A k \in DOMAIN order : order[k] \in Loops
    BY DEF SetToSeqs
  <2> QED
    BY <2>1, <2>2, <2>3, EnumerationIsOnto
<1>4. mapped(order) = {S \in Components : \E L \in Loops : S \cap InstsIn(L) # {}}
  BY <1>3
<1>5. ASSUME NEW S \in mapped(order)
      PROVE  SccToLoop'[S] \in Loops /\ S \cap InstsIn(SccToLoop'[S]) # {}
  <2>1. PICK K : K = Of(order, S)
    OBVIOUS
  <2>2. K # {} /\ K \subseteq DOMAIN order /\ \A k \in K : S \cap InstsIn(order[k]) # {}
    BY <2>1
  <2>3. \E k \in K : \A l \in K : l <= k
    BY <1>3, <2>2, GreatestUpto
  <2>4. PICK m : m = CHOOSE k \in K : \A l \in K : l <= k
    OBVIOUS
  <2>5. m \in K
    BY <2>3, <2>4
  <2>6. SccToLoop'[S] = order[m]
    BY <1>2, <2>1, <2>4
  <2> QED
    BY <1>3, <2>2, <2>5, <2>6
<1>6. DOMAIN SccToLoop' = mapped(order)
  BY <1>2
<1>7. Insts' = Insts /\ Loops' = Loops /\ \A L : InstsIn(L)' = InstsIn(L)
  BY <1>1, SameFunction
<1>8. (\A i : PDGEdges(i)' = PDGEdges(i)) /\ Components' = Components /\ \A S : PSGEdges(S)' = PSGEdges(S)
  BY <1>1, SameEdges, SameComponents
<1> HIDE DEF mapped
<1>9. Mapped'
  BY <1>4, <1>5, <1>6, <1>7, <1>8 DEF Mapped
<1>10. Computed'
  BY <1>1, <1>7, <1>8 DEF IInv, Computed
<1> QED
  BY <1>1, <1>9, <1>10 DEF IInv, Stages

\* Every other pass stores what it has to.
LEMMA NextIInv == IInv /\ [Next]_vars => IInv'
<1> SUFFICES ASSUME IInv, [Next]_vars PROVE IInv'
  OBVIOUS
<1>1. F' = F
  BY DEF Next, RunCDG, RunMDG, RunDDG, RunPDG, RunPSG, MapComponents, Split, vars
<1>2. /\ Insts' = Insts /\ Blocks' = Blocks /\ Loops' = Loops
      /\ \A b : InstsOf(b)' = InstsOf(b)
      /\ \A L : InstsIn(L)' = InstsIn(L)
  BY <1>1, SameFunction
<1>3. CASE RunCDG
  <2>1. Computed'
    BY <1>1, <1>2, <1>3 DEF IInv, Computed, RunCDG
  <2> QED
    BY <1>1, <1>3, <2>1 DEF IInv, RunCDG, Stages
<1>4. CASE RunMDG
  <2>1. Computed'
    BY <1>1, <1>2, <1>4 DEF IInv, Computed, RunMDG
  <2> QED
    BY <1>1, <1>4, <2>1 DEF IInv, RunMDG, Stages
<1>5. CASE RunDDG
  <2>1. Computed'
    BY <1>1, <1>2, <1>5 DEF IInv, Computed, RunDDG
  <2> QED
    BY <1>1, <1>5, <2>1 DEF IInv, RunDDG, Stages
<1>6. CASE RunPDG
  <2>1. \A i : PDGEdges(i)' = PDGEdges(i)
    BY <1>1, <1>6, SameEdges DEF RunPDG
  <2>2. Computed'
    BY <1>1, <1>2, <1>6, <2>1 DEF IInv, Computed, RunPDG
  <2> QED
    BY <1>1, <1>6, <2>2 DEF IInv, RunPDG, Stages
<1>7. CASE RunPSG
  <2>1. (\A i : PDGEdges(i)' = PDGEdges(i)) /\ Components' = Components /\ \A S : PSGEdges(S)' = PSGEdges(S)
    BY <1>1, <1>7, SameEdges, SameComponents DEF RunPSG
  <2>2. Computed'
    BY <1>1, <1>2, <1>7, <2>1 DEF IInv, Computed, RunPSG
  <2> QED
    BY <1>1, <1>7, <2>2 DEF IInv, RunPSG, Stages
<1>8. CASE MapComponents
  BY <1>8, MapComponentsStep
<1>9. CASE Split
  <2>1. (\A i : PDGEdges(i)' = PDGEdges(i)) /\ Components' = Components /\ \A S : PSGEdges(S)' = PSGEdges(S)
    BY <1>1, <1>9, SameEdges, SameComponents DEF Split
  <2>2. Computed'
    BY <1>1, <1>2, <1>9, <2>1 DEF IInv, Computed, Split
  <2>3. Mapped'
    BY <1>1, <1>2, <1>9, <2>1 DEF IInv, Mapped, Split
  <2>4. (\A L : InLoop(L)' = InLoop(L)) /\ \A S : DependsInItsLoop(S)' <=> DependsInItsLoop(S)
    BY <1>9 DEF Split, InLoop, DependsInItsLoop
  <2>5. Divided'
    BY <1>2, <1>9, <2>4 DEF Split, Divided, InLoop
  <2> QED
    BY <1>1, <1>9, <2>2, <2>3, <2>5 DEF IInv, Split, Stages
<1>10. CASE UNCHANGED vars
  <2>1. (\A i : PDGEdges(i)' = PDGEdges(i)) /\ Components' = Components /\ \A S : PSGEdges(S)' = PSGEdges(S)
    BY <1>10, SameEdges, SameComponents DEF vars
  <2>2. Computed'
    BY <1>2, <1>10, <2>1 DEF IInv, Computed, vars
  <2>3. Mapped' = Mapped
    BY <1>2, <1>10, <2>1 DEF Mapped, vars
  <2>4. (\A L : InLoop(L)' = InLoop(L)) /\ \A S : DependsInItsLoop(S)' <=> DependsInItsLoop(S)
    BY <1>10 DEF vars, InLoop, DependsInItsLoop
  <2>5. Divided' = Divided
    BY <1>2, <1>10, <2>4 DEF Divided, vars
  <2> QED
    BY <1>10, <2>2, <2>3, <2>5 DEF IInv, vars
<1> QED
  BY <1>3, <1>4, <1>5, <1>6, <1>7, <1>8, <1>9, <1>10 DEF Next

\* The invariant holds of every function.
THEOREM Inductive == Spec => []IInv
<1>1. Init => IInv
  BY DEF Init, IInv, Computed, Stages
<1> QED
  BY <1>1, NextIInv, PTL DEF Spec

-------------------------------------------------------------------------------
(* The PDG and its components.                                             *)

\* The PDG has been computed.
HasPDG == IInv /\ pc \in {"psg", "loops", "split", "done"}

\* Why j depends on i.
Reason(i, j) == \/ j \in F.users[i]
                \/ F.memory[j] = [inst |-> i, isDef |-> TRUE]
                \/ i \in Blocks /\ ControlDependent(F.cfg, i, F.block[j])
                \/ i \in F.constants[j]

\* What the PDG is, in one place.
LEMMA PDGIs ==
  ASSUME HasPDG
  PROVE  /\ DOMAIN PDGraph = Insts /\ Graph(PDGraph) /\ Closed(PDGraph) /\ IsFiniteSet(Insts)
         /\ \A i, j \in Insts : j \in PDGraph[i] <=> Reason(i, j)
<1>1. /\ Blocks \subseteq Insts /\ F.block \in [Insts -> Blocks]
      /\ F.users \in [Insts -> SUBSET Insts] /\ IsFiniteSet(Insts)
  BY FunctionFacts DEF HasPDG, IInv
<1>2. /\ CDGraph = ControlDependences(F.cfg)
      /\ MDGraph = [d \in Insts |-> {i \in Insts : F.memory[i] = [inst |-> d, isDef |-> TRUE]}]
      /\ DDGraph = [i \in Insts |-> F.users[i]]
      /\ PDGraph = [i \in Insts |-> PDGEdges(i)]
  BY DEF HasPDG, IInv, Computed
<1>3. ASSUME NEW i \in Insts
      PROVE  /\ Slot(DDGraph, i) = F.users[i]
             /\ Slot(MDGraph, i) = {j \in Insts : F.memory[j] = [inst |-> i, isDef |-> TRUE]}
             /\ i \in Blocks => Slot(CDGraph, i) = {b \in Blocks : ControlDependent(F.cfg, i, b)}
  BY <1>2 DEF Slot, ControlDependences, Blocks
<1>4. ASSUME NEW i \in Insts
      PROVE  ControlEdges(i) = {j \in Insts : i \in Blocks /\ ControlDependent(F.cfg, i, F.block[j])}
  <2>1. CASE i \in Blocks
    <3>1. ControlEdges(i) = UNION {InstsOf(b) : b \in {c \in Blocks : ControlDependent(F.cfg, i, c)}}
      BY <1>3, <2>1 DEF ControlEdges
    <3>2. \A j \in Insts : F.block[j] \in Blocks
      BY <1>1
    <3> QED
      BY <2>1, <3>1, <3>2 DEF InstsOf
  <2>2. CASE i \notin Blocks
    BY <2>2 DEF ControlEdges
  <2> QED
    BY <2>1, <2>2
<1>5. \A i \in Insts : PDGEdges(i) \subseteq Insts
  <2> SUFFICES ASSUME NEW i \in Insts PROVE PDGEdges(i) \subseteq Insts
    OBVIOUS
  <2>0. F.users[i] \subseteq Insts
    BY <1>1
  <2>1. Slot(DDGraph, i) \subseteq Insts /\ Slot(MDGraph, i) \subseteq Insts
    BY <1>3, <2>0
  <2>2. ControlEdges(i) \subseteq Insts
    BY <1>4
  <2> QED
    BY <2>1, <2>2 DEF PDGEdges, ConstantEdges
<1>6. DOMAIN PDGraph = Insts /\ \A i \in Insts : PDGraph[i] = PDGEdges(i)
  BY <1>2
<1>7. Graph(PDGraph) /\ Closed(PDGraph)
  BY <1>2, <1>5, <1>6 DEF Graph, Closed
<1>8. ASSUME NEW i \in Insts, NEW j \in Insts
      PROVE  j \in PDGraph[i] <=> Reason(i, j)
  <2>1. j \in PDGraph[i] <=> \/ j \in Slot(DDGraph, i) \/ j \in Slot(MDGraph, i)
                             \/ j \in ControlEdges(i) \/ j \in ConstantEdges(i)
    BY <1>6 DEF PDGEdges
  <2>2. j \in ConstantEdges(i) <=> i \in F.constants[j]
    BY DEF ConstantEdges
  <2> QED
    BY <1>3, <1>4, <2>1, <2>2 DEF Reason
<1>9. IsFiniteSet(Insts) /\ DOMAIN PDGraph = Insts
  BY <1>1, <1>6
<1> QED
  BY <1>7, <1>8, <1>9

\* A dependence goes along a path of the control flow, and so does a chain.
LEMMA DependencesGoAlongPaths ==
  ASSUME HasPDG, NEW i \in Insts, NEW j \in From(PDGraph, i)
  PROVE  j \in Insts /\ F.block[j] \in From(F.cfg, F.block[i])
<1>1. /\ Graph(F.cfg) /\ IsFiniteSet(Blocks) /\ F.block \in [Insts -> Blocks] /\ DOMAIN F.cfg = Blocks
      /\ \A b \in Blocks : F.block[b] = b
      /\ \A b \in Blocks : From(F.cfg, b) \cap Exits(F.cfg) # {}
  BY FunctionFacts DEF HasPDG, IInv, Blocks
<1>2. DOMAIN PDGraph = Insts /\ Closed(PDGraph) /\ IsFiniteSet(Insts) /\ Closed(F.cfg)
  BY <1>1, PDGIs DEF Graph
<1>3. ASSUME NEW k \in Insts, NEW l \in Insts, l \in PDGraph[k]
      PROVE  F.block[l] \in From(F.cfg, F.block[k])
  <2>1. CASE l \in F.users[k] \/ F.memory[l].inst = k \/ k \in F.constants[l]
    BY <2>1, PathsAssumption DEF HasPDG, IInv, Insts
  <2>2. CASE k \in Blocks /\ ControlDependent(F.cfg, k, F.block[l])
    BY <2>2, <1>1, ControlGoesForward
  <2>3. F.memory[l] = [inst |-> k, isDef |-> TRUE] => F.memory[l].inst = k
    OBVIOUS
  <2> QED
    BY <1>3, <2>1, <2>2, <2>3, PDGIs DEF Reason
<1>4. PICK C : C = {k \in Insts : F.block[k] \in From(F.cfg, F.block[i])}
  OBVIOUS
<1>5. i \in C
  BY <1>1, <1>4, FromSelf
<1>6. ASSUME NEW k \in C, NEW l \in PDGraph[k] PROVE l \in C
  <2>1. k \in Insts /\ l \in Insts
    BY <1>2, <1>4, <1>6 DEF Closed
  <2>2. F.block[l] \in From(F.cfg, F.block[k])
    BY <1>3, <1>6, <2>1
  <2>3. From(F.cfg, F.block[k]) \subseteq From(F.cfg, F.block[i])
    BY <1>1, <1>2, <1>4, FromOn
  <2> QED
    BY <1>4, <2>1, <2>2, <2>3
<1>7. From(PDGraph, i) \subseteq C
  BY <1>2, <1>5, <1>6, FromLeast
<1> QED
  BY <1>4, <1>7

\* The components divide the instructions.
LEMMA ComponentsDivide ==
  ASSUME HasPDG
  PROVE  /\ IsFiniteSet(Components)
         /\ \A i \in Insts : i \in getSCC(i) /\ getSCC(i) \in Components
         /\ \A S \in Components : S # {} /\ S \subseteq Insts /\ \A i \in S : getSCC(i) = S
<1>1. DOMAIN PDGraph = Insts /\ Closed(PDGraph) /\ IsFiniteSet(Insts)
  BY PDGIs
<1>2. \A i \in Insts : i \in getSCC(i) /\ getSCC(i) \in Components
  BY <1>1, SCCSelf DEF getSCC, Components
<1>3. \A S \in Components : S # {} /\ S \subseteq Insts /\ \A i \in S : getSCC(i) = S
  BY <1>1, SCCSelf, SCCNodes, SCCSame DEF getSCC, Components
<1>4. IsFiniteSet(SUBSET Insts)
  BY <1>1, FS_SUBSET
<1>5. IsFiniteSet(Components)
  BY <1>3, <1>4, FS_Subset
<1> QED
  BY <1>2, <1>3, <1>5

-------------------------------------------------------------------------------
(* The PSG.                                                                *)

HasPSG == IInv /\ pc \in {"loops", "split", "done"}

\* What the PSG is, in one place.
LEMMA PSGIs ==
  ASSUME HasPSG
  PROVE  /\ HasPDG
         /\ DOMAIN PSGraph = Components /\ Graph(PSGraph) /\ Closed(PSGraph)
         /\ \A S, T \in Components :
              T \in PSGraph[S] <=> T # S /\ \E i \in S : \E j \in T : j \in PDGraph[i]
<1>1. HasPDG /\ PSGraph = [S \in Components |-> PSGEdges(S)]
  BY DEF HasPSG, HasPDG, IInv, Computed
<1>2. /\ DOMAIN PDGraph = Insts /\ Closed(PDGraph)
      /\ \A i \in Insts : i \in getSCC(i) /\ getSCC(i) \in Components
      /\ \A S \in Components : S # {} /\ S \subseteq Insts /\ \A i \in S : getSCC(i) = S
  BY <1>1, PDGIs, ComponentsDivide
<1>3. ASSUME NEW S \in Components, NEW T
      PROVE  T \in PSGEdges(S) <=> T # S /\ \E i \in S : \E j \in PDGraph[i] : T = getSCC(j)
  BY DEF PSGEdges
<1>4. ASSUME NEW S \in Components PROVE PSGEdges(S) \subseteq Components
  <2>1. \A i \in S : PDGraph[i] \subseteq Insts
    BY <1>2 DEF Closed
  <2> QED
    BY <1>2, <1>3, <2>1
<1>5. ASSUME NEW S \in Components, NEW T \in Components
      PROVE  T \in PSGEdges(S) <=> T # S /\ \E i \in S : \E j \in T : j \in PDGraph[i]
  <2>1. \A i \in S : PDGraph[i] \subseteq Insts
    BY <1>2 DEF Closed
  <2>2. \A i \in S : \A j \in PDGraph[i] : T = getSCC(j) <=> j \in T
    BY <1>2, <2>1
  <2> QED
    BY <1>3, <2>2
<1>6. DOMAIN PSGraph = Components /\ \A S \in Components : PSGraph[S] = PSGEdges(S)
  BY <1>1
<1>7. Graph(PSGraph) /\ Closed(PSGraph)
  BY <1>1, <1>4, <1>6 DEF Graph, Closed
<1> QED
  BY <1>1, <1>5, <1>6, <1>7

\* A path of the PSG is one of the PDG.
LEMMA PathsOfPSG ==
  ASSUME HasPSG, NEW S \in Components, NEW T \in From(PSGraph, S), NEW i \in S, NEW j \in T
  PROVE  j \in From(PDGraph, i)
<1>1. /\ DOMAIN PDGraph = Insts /\ Closed(PDGraph) /\ IsFiniteSet(Insts)
      /\ DOMAIN PSGraph = Components /\ Closed(PSGraph) /\ IsFiniteSet(Components)
      /\ \A U \in Components : U \subseteq Insts /\ \A k \in U : U = SCC(PDGraph, k)
  BY PSGIs, PDGIs, ComponentsDivide DEF getSCC
<1>2. \A U, V \in Components :
        V \in PSGraph[U] => \E k \in U : \E l \in V : l \in PDGraph[k]
  BY PSGIs
<1>3. PICK C : C = {U \in Components : U \subseteq From(PDGraph, i)}
  OBVIOUS
<1>4. i \in Insts /\ S \in C
  BY <1>1, <1>3 DEF SCC
<1>5. ASSUME NEW U \in C, NEW V \in PSGraph[U] PROVE V \in C
  <2>1. U \in Components /\ V \in Components
    BY <1>1, <1>3, <1>5 DEF Closed
  <2>2. PICK k \in U, l \in V : l \in PDGraph[k]
    BY <1>2, <1>5, <2>1
  <2>3. l \in From(PDGraph, i)
    <3>1. k \in From(PDGraph, i)
      BY <1>3, <2>2
    <3> QED
      BY <1>1, <1>4, <2>2, <3>1, FromClosed
  <2>4. V \subseteq From(PDGraph, l)
    BY <1>1, <2>1, <2>2 DEF SCC
  <2>5. From(PDGraph, l) \subseteq From(PDGraph, i)
    BY <1>1, <1>4, <2>3, FromOn
  <2> QED
    BY <1>3, <2>1, <2>4, <2>5
<1>6. From(PSGraph, S) \subseteq C
  BY <1>1, <1>4, <1>5, FromLeast
<1> QED
  BY <1>3, <1>6

\* The PSG has no cycle: two components on one would be one.
LEMMA PSGHasNoCycle ==
  ASSUME HasPSG
  PROVE  Acyclic(PSGraph)
<1>1. /\ DOMAIN PDGraph = Insts
      /\ DOMAIN PSGraph = Components /\ Closed(PSGraph) /\ IsFiniteSet(Components)
      /\ \A U \in Components : U # {} /\ U \subseteq Insts /\ \A k \in U : U = getSCC(k)
  BY PSGIs, PDGIs, ComponentsDivide
<1> SUFFICES ASSUME NEW S \in Components, NEW T \in PSGraph[S], S \in From(PSGraph, T) PROVE FALSE
  BY <1>1 DEF Acyclic, OnCycle
<1>2. T \in Components /\ T # S
  <2>1. T \in Components
    BY <1>1 DEF Closed
  <2> QED
    BY <2>1, PSGIs
<1>3. T \in From(PSGraph, S)
  <2>1. S \in From(PSGraph, S) /\ \A U \in From(PSGraph, S) : PSGraph[U] \subseteq From(PSGraph, S)
    BY <1>1, FromSelf, FromClosed
  <2> QED
    BY <2>1
<1>4. PICK i \in S, j \in T : TRUE
  BY <1>1, <1>2
<1>5. j \in From(PDGraph, i) /\ i \in From(PDGraph, j)
  BY <1>2, <1>3, <1>4, PathsOfPSG
<1>6. j \in getSCC(i)
  BY <1>5 DEF getSCC, SCC
<1>7. j \in S
  BY <1>1, <1>4, <1>6
<1> QED
  BY <1>1, <1>2, <1>4, <1>7

\* Nothing in the PSG is stuck: topsort ranks every component, and no .at()
\* throws (PSG.cpp:56-68, SourceToPSGPrinter.cpp:55).
THEOREM TheComponentsAreInOrder == Spec => []PSGIsAcyclic
<1>1. IInv => PSGIsAcyclic
  <2> SUFFICES ASSUME IInv, PSGraph # Empty PROVE Closed(PSGraph) /\ Acyclic(PSGraph)
    BY DEF PSGIsAcyclic
  <2>1. HasPSG
    BY DEF HasPSG, IInv, Computed
  <2> QED
    BY <2>1, PSGIs, PSGHasNoCycle
<1> QED
  BY <1>1, Inductive, PTL

-------------------------------------------------------------------------------
(* The printers.                                                           *)

\* A graph all of whose dependants are nodes, none of them null, is written.
LEMMA ClosedIsWritten ==
  ASSUME NEW g, Closed(g), None \notin DOMAIN g
  PROVE  writeToFile(g)
<1>1. PICK w : w = Wrapped(g)
  OBVIOUS
<1>2. DOMAIN w = DOMAIN g /\ \A v \in DOMAIN g : w[v] = g[v]
  BY <1>1 DEF Wrapped
<1>3. ASSUME NEW v \in DOMAIN w PROVE children(w, v) \subseteq DOMAIN w
  BY <1>2, <1>3 DEF children, NodeOf, Closed
<1>4. None \notin nodes(w)
  BY <1>2, <1>3 DEF nodes
<1> QED
  BY <1>1, <1>4 DEF writeToFile

\* All five graphs can be written: no iterator of DependenceTraits.h meets a
\* node that is not there, and whichever node comes first names the function
\* (DependenceTraits.h:96, 228, PSGPrinter.cpp:38-39, Util.cpp).
THEOREM EveryGraphIsWritten == Spec => []GraphsCanBeWritten
<1>1. IInv => GraphsCanBeWritten
  <2> SUFFICES ASSUME IInv, PSGraph # Empty
               PROVE  /\ CDGPrinterEnds /\ MDGPrinterEnds /\ DDGPrinterEnds
                      /\ PDGPrinterEnds /\ PSGPrinterEnds
    BY DEF GraphsCanBeWritten
  <2>1. HasPSG /\ HasPDG
    BY PSGIs DEF HasPSG, IInv, Computed
  <2>2. /\ Blocks \subseteq Insts /\ F.entry \in Blocks
        /\ F.block \in [Insts -> Blocks]
        /\ F.users \in [Insts -> SUBSET Insts]
        /\ None \notin Insts /\ None \notin SUBSET Insts
    BY FunctionFacts DEF IInv
  <2>3. \A i \in Insts : instructionToFunctionName(i) = F
    BY <2>2 DEF instructionToFunctionName, basicBlockToFunctionName
  <2>4. ASSUME NEW g, DOMAIN g = Insts PROVE NamesOfInsts(g) = {F}
    BY <2>2, <2>3, <2>4 DEF NamesOfInsts
  <2>5. CDGPrinterEnds
    <3>1. DOMAIN CDGraph = Blocks /\ Closed(CDGraph)
      BY <2>1 DEF HasPDG, IInv, Computed, ControlDependences, Blocks, Closed
    <3>2. NamesOfBlocks(CDGraph) = {F}
      BY <2>2, <3>1 DEF NamesOfBlocks, basicBlockToFunctionName
    <3> QED
      BY <2>2, <3>1, <3>2, ClosedIsWritten DEF CDGPrinterEnds
  <2>6. MDGPrinterEnds
    <3>1. DOMAIN MDGraph = Insts /\ MDGraph \in [Insts -> SUBSET Insts]
      BY <2>1 DEF HasPDG, IInv, Computed
    <3>2. Closed(MDGraph)
      BY <3>1 DEF Closed
    <3> QED
      BY <2>2, <2>4, <3>1, <3>2, ClosedIsWritten DEF MDGPrinterEnds
  <2>7. DDGPrinterEnds
    <3>1. DOMAIN DDGraph = Insts /\ Closed(DDGraph)
      BY <2>1, <2>2 DEF HasPDG, IInv, Computed, Closed
    <3> QED
      BY <2>2, <2>4, <3>1, ClosedIsWritten DEF DDGPrinterEnds
  <2>8. PDGPrinterEnds
    BY <2>1, <2>2, <2>4, PDGIs, ClosedIsWritten DEF PDGPrinterEnds
  <2>9. PSGPrinterEnds
    <3>1. DOMAIN PSGraph = Components /\ Closed(PSGraph)
      BY <2>1, PSGIs
    <3>2. /\ Components # {}
          /\ \A S \in Components : S # {} /\ S \subseteq Insts
      BY <2>1, <2>2, ComponentsDivide
    <3>3. \A S \in Components : {instructionToFunctionName(i) : i \in S} = {F}
      BY <2>3, <3>2
    <3>4. NamesOfSets(PSGraph) = {F}
      BY <3>1, <3>2, <3>3 DEF NamesOfSets
    <3>5. None \notin Components
      BY <2>2, <3>2
    <3> QED
      BY <3>1, <3>4, <3>5, ClosedIsWritten DEF PSGPrinterEnds
  <2> QED
    BY <2>5, <2>6, <2>7, <2>8, <2>9
<1> QED
  BY <1>1, Inductive, PTL

-------------------------------------------------------------------------------
(* The loops.                                                              *)

\* The components have their loops.
HasLoops == IInv /\ pc \in {"split", "done"}

\* The component of an instruction of a loop that is left for good is mapped to
\* this loop, the one it was visited in last being the only one.
LEMMA MappedToItsLoop ==
  ASSUME HasLoops, NEW L \in Loops, LeftForGood(L), NEW i \in InstsIn(L)
  PROVE  getSCC(i) \in InLoop(L)
<1>1. /\ Graph(F.cfg) /\ IsFiniteSet(Blocks) /\ F.entry \in Blocks /\ DOMAIN F.cfg = Blocks
      /\ F.block \in [Insts -> Blocks] /\ From(F.cfg, F.entry) = Blocks
  BY FunctionFacts DEF HasLoops, IInv, Blocks
<1>2. HasPDG /\ Mapped /\ \A M, j : j \in InstsIn(M) <=> j \in Insts /\ F.block[j] \in M
  BY LoopsFacts DEF HasLoops, IInv, HasPDG
<1>3. PICK S : S = getSCC(i)
  OBVIOUS
<1>4. i \in Insts /\ i \in S /\ S \in Components /\ S \subseteq Insts
  BY <1>2, <1>3, ComponentsDivide
<1>5. S \in DOMAIN SccToLoop
  BY <1>2, <1>4 DEF Mapped
<1>6. PICK M \in Loops : M = SccToLoop[S] /\ S \cap InstsIn(M) # {}
  BY <1>2, <1>5 DEF Mapped
<1>7. PICK j \in S : j \in InstsIn(M)
  BY <1>6
<1>8. j \in From(PDGraph, i) /\ i \in From(PDGraph, j)
  BY <1>3 DEF getSCC, SCC
<1>9. F.block[j] \in From(F.cfg, F.block[i]) /\ F.block[i] \in From(F.cfg, F.block[j])
  BY <1>2, <1>4, <1>8, DependencesGoAlongPaths
<1>10. F.block[i] \in L /\ F.block[j] \in M
  BY <1>2, <1>7
<1>11. L = M
  <2>1. L \in TopLevelLoops(F.cfg, F.entry) /\ M \in TopLevelLoops(F.cfg, F.entry)
    BY DEF Loops
  <2>2. \A b \in L : \A s \in F.cfg[b] \ L : From(F.cfg, s) \cap L = {}
    BY DEF LeftForGood, Leaves
  <2> QED
    BY <1>1, <1>9, <1>10, <2>1, <2>2, LeftForGoodIsWhole
<1> QED
  BY <1>3, <1>5, <1>6, <1>11 DEF InLoop

\* What the two maps hold, in one place.
LEMMA DividedIs ==
  ASSUME HasLoops, pc = "done", NEW L \in Loops
  PROVE  /\ LoopToWorkScc[L] = {S \in InLoop(L) : DependsInItsLoop(S)}
         /\ LoopToIterScc[L] = {S \in InLoop(L) : ~DependsInItsLoop(S)}
BY DEF HasLoops, IInv, Divided

\* So an instruction of such a loop is iter or work there, and not both.
LEMMA WorkOrIter ==
  ASSUME IInv, pc = "done", NEW L \in Loops, LeftForGood(L), NEW i \in InstsIn(L)
  PROVE  isIter(i, L) <=> ~isWork(i, L)
<1>1. HasLoops
  BY DEF HasLoops
<1>2. /\ LoopToWorkScc[L] = {S \in InLoop(L) : DependsInItsLoop(S)}
      /\ LoopToIterScc[L] = {S \in InLoop(L) : ~DependsInItsLoop(S)}
  BY <1>1, DividedIs
<1>3. getSCC(i) \in InLoop(L)
  BY <1>1, MappedToItsLoop
<1> QED
  BY <1>2, <1>3 DEF isWork, isIter

\* Whatever the loop, an instruction of it is iter or work of one loop, and not
\* both: of its own if that is left for good, of one its component meets anyway
\* (DecoupleLoops.cpp:71-80, 113-131).
THEOREM EachIsIterOrWork == Spec => []IterOrWork
<1>1. ASSUME IInv, pc = "done", NEW L \in Loops, NEW i \in InstsIn(L)
      PROVE  \E M \in Loops :
                /\ isIter(i, M) <=> ~isWork(i, M)
                /\ \A K \in Loops \ {M} : ~isIter(i, K) /\ ~isWork(i, K)
                /\ getSCC(i) \cap InstsIn(M) # {}
                /\ LeftForGood(L) => M = L
  <2>1. HasLoops
    BY <1>1 DEF HasLoops
  <2>2. HasPDG /\ Mapped /\ i \in Insts
    BY <1>1, LoopsFacts DEF IInv, HasPDG
  <2>3. PICK S : S = getSCC(i)
    OBVIOUS
  <2>4. i \in S /\ S \in Components
    BY <2>2, <2>3, ComponentsDivide
  <2>5. S \in DOMAIN SccToLoop
    BY <1>1, <2>2, <2>4 DEF Mapped
  <2>6. PICK M \in Loops : M = SccToLoop[S] /\ S \cap InstsIn(M) # {}
    BY <2>2, <2>5 DEF Mapped
  <2>7. \A K \in Loops : S \in InLoop(K) <=> K = M
    BY <2>5, <2>6 DEF InLoop
  <2>8. \A K \in Loops :
           /\ LoopToWorkScc[K] = {T \in InLoop(K) : DependsInItsLoop(T)}
           /\ LoopToIterScc[K] = {T \in InLoop(K) : ~DependsInItsLoop(T)}
    BY <1>1, <2>1, DividedIs
  <2>9. isIter(i, M) <=> ~isWork(i, M)
    BY <2>3, <2>7, <2>8 DEF isIter, isWork
  <2>10. \A K \in Loops \ {M} : ~isIter(i, K) /\ ~isWork(i, K)
    BY <2>3, <2>7, <2>8 DEF isIter, isWork
  <2>11. LeftForGood(L) => M = L
    BY <1>1, <2>1, <2>3, <2>7, MappedToItsLoop
  <2> QED
    BY <2>3, <2>6, <2>9, <2>10, <2>11
<1>2. IInv => IterOrWork
  BY <1>1 DEF IterOrWork
<1> QED
  BY <1>2, Inductive, PTL

\* S1 depends on S2 if the PSG has the edge from S2 to S1.
LEMMA DependsInItsLoopIs ==
  ASSUME HasLoops, NEW L \in Loops, NEW S1 \in InLoop(L)
  PROVE  DependsInItsLoop(S1) <=> \E S2 \in InLoop(L) : S1 \in PSGraph[S2]
<1>1. HasPSG /\ DOMAIN SccToLoop \subseteq Components
  BY DEF HasLoops, HasPSG, IInv, Mapped
<1>2. Graph(PSGraph) /\ DOMAIN PSGraph = Components
  BY <1>1, PSGIs
<1>3. S1 \in Components /\ SccToLoop[S1] = L
  BY <1>1 DEF InLoop
<1>4. transpose(PSGraph)[S1] = {S2 \in Components : S1 \in PSGraph[S2]}
  BY <1>2, <1>3, TransposeSlot
<1> QED
  BY <1>1, <1>3, <1>4 DEF DependsInItsLoop, InLoop

\* Some component of a loop that is left for good, or has work, depends on no
\* other one of it:
\* "all loops have `iter` instructions" (README.md:329-330, DecoupleLoops.cpp:87-107).
THEOREM LoopsHaveIter == Spec => []EveryLoopHasIter
<1>1. ASSUME IInv, pc = "done", NEW L \in Loops, LeftForGood(L) \/ LoopToWorkScc[L] # {}
      PROVE  LoopToIterScc[L] # {}
  <2>1. HasLoops /\ HasPSG
    BY <1>1 DEF HasLoops, HasPSG
  <2>2. InLoop(L) # {}
    <3>1. CASE LeftForGood(L)
      <4>1. PICK b \in L : b \in Insts /\ F.block[b] = b
        BY <1>1, LoopsFacts, FunctionFacts DEF IInv
      <4>2. b \in InstsIn(L)
        BY <1>1, <4>1, LoopsFacts DEF IInv
      <4> QED
        BY <1>1, <2>1, <3>1, <4>2, MappedToItsLoop
    <3>2. CASE LoopToWorkScc[L] # {}
      BY <1>1, <2>1, <3>2, DividedIs
    <3> QED
      BY <1>1, <3>1, <3>2
  <2>3. /\ Graph(PSGraph) /\ DOMAIN PSGraph = Components /\ IsFiniteSet(Components)
        /\ \A S \in Components : ~OnCycle(PSGraph, S)
    BY <2>1, PSGIs, PSGHasNoCycle, ComponentsDivide DEF Acyclic
  <2>4. InLoop(L) \subseteq Components
    BY <1>1 DEF IInv, Mapped, InLoop
  <2>5. PICK S1 \in InLoop(L) : \A S2 \in InLoop(L) : S1 \notin PSGraph[S2]
    BY <2>2, <2>3, <2>4, AcyclicHasSource
  <2>6. ~DependsInItsLoop(S1)
    BY <2>1, <2>5, DependsInItsLoopIs
  <2>7. LoopToIterScc[L] = {S \in InLoop(L) : ~DependsInItsLoop(S)}
    BY <1>1 DEF IInv, Divided
  <2> QED
    BY <2>6, <2>7
<1>2. IInv => EveryLoopHasIter
  BY <1>1 DEF EveryLoopHasIter
<1> QED
  BY <1>2, Inductive, PTL

\* What flows from an instruction of work within its loop flows to work.
LEMMA WorkFeedsWork ==
  ASSUME HasLoops, pc = "done", NEW L \in Loops, LeftForGood(L), NEW i \in InstsIn(L), isWork(i, L),
         NEW j \in InstsIn(L), j \in FlowsTo(i)
  PROVE  isWork(j, L)
<1>1. i \in Insts /\ j \in Insts
  BY LoopsFacts DEF HasLoops, IInv
<1>2. HasPDG /\ HasPSG
  BY DEF HasLoops, HasPDG, HasPSG
<1>3. j \in PDGraph[i]
  <2>1. Reason(i, j)
    BY <1>1 DEF FlowsTo, Reason
  <2> QED
    BY <1>1, <1>2, <2>1, PDGIs
<1>4. getSCC(i) \in InLoop(L) /\ getSCC(j) \in InLoop(L)
  BY MappedToItsLoop
<1>5. CASE getSCC(i) = getSCC(j)
  BY <1>5 DEF isWork
<1>6. CASE getSCC(i) # getSCC(j)
  <2>1. /\ getSCC(i) \in Components /\ getSCC(j) \in Components
        /\ i \in getSCC(i) /\ j \in getSCC(j)
    BY <1>1, <1>2, ComponentsDivide
  <2>2. getSCC(j) \in PSGraph[getSCC(i)]
    BY <1>2, <1>3, <1>6, <2>1, PSGIs
  <2>3. DependsInItsLoop(getSCC(j))
    BY <1>4, <2>2, DependsInItsLoopIs
  <2> QED
    BY <1>4, <2>3, DividedIs DEF isWork
<1> QED
  BY <1>5, <1>6

\* Within a loop that is left for good no chain of flows leads from work to iter:
\* the iter stage of a pipeline never waits for the work stage (DecoupleLoops.cpp:87-107 with
\* PDG.cpp, PSG.cpp and CDG.cpp).
THEOREM IterNeverWaitsForWork == Spec => []WorkNeverFeedsIter
<1>1. ASSUME IInv, pc = "done", NEW L \in Loops, LeftForGood(L),
             NEW inside, inside = [i \in InstsIn(L) |-> FlowsTo(i) \cap InstsIn(L)],
             NEW i \in InstsIn(L), isWork(i, L), NEW j \in From(inside, i)
      PROVE  ~isIter(j, L)
  <2>1. HasLoops
    BY <1>1 DEF HasLoops
  <2>2. IsFiniteSet(InstsIn(L))
    <3>1. IsFiniteSet(Insts) /\ InstsIn(L) \subseteq Insts
      BY <1>1, FunctionFacts, LoopsFacts DEF IInv
    <3> QED
      BY <3>1, FS_Subset
  <2>3. DOMAIN inside = InstsIn(L) /\ \A k \in InstsIn(L) : inside[k] = FlowsTo(k) \cap InstsIn(L)
    BY <1>1
  <2>4. PICK C : C = {k \in InstsIn(L) : isWork(k, L)}
    OBVIOUS
  <2>5. \A k \in C : inside[k] \subseteq C
    BY <1>1, <2>1, <2>3, <2>4, WorkFeedsWork
  <2>6. From(inside, i) \subseteq C
    BY <1>1, <2>2, <2>3, <2>4, <2>5, FromLeast
  <2>7. isWork(j, L)
    BY <1>1, <2>4, <2>6
  <2>8. /\ LoopToWorkScc[L] = {S \in InLoop(L) : DependsInItsLoop(S)}
        /\ LoopToIterScc[L] = {S \in InLoop(L) : ~DependsInItsLoop(S)}
    BY <1>1, <2>1, DividedIs
  <2> QED
    BY <2>7, <2>8 DEF isWork, isIter
<1>2. IInv => WorkNeverFeedsIter
  BY <1>1 DEF WorkNeverFeedsIter
<1> QED
  BY <1>2, Inductive, PTL

\* The branches that may leave a loop that is left for good decide, together,
\* whether it goes round, and nothing else of it is iter: "`iter` instructions
\* make the loop go round" (README.md:328, DecoupleLoops.cpp:87-107).
THEOREM IterMakesItGoRound == Spec => []IterIsTheLoopControl
<1>1. ASSUME IInv, pc = "done", NEW L \in Loops, LeftForGood(L), NEW b \in Leaves(L)
      PROVE  LoopToIterScc[L] = {getSCC(b)}
  <2>1. HasLoops /\ HasPSG /\ HasPDG
    BY <1>1 DEF HasLoops, HasPSG, HasPDG
  <2>2. /\ Graph(F.cfg) /\ IsFiniteSet(DOMAIN F.cfg) /\ F.entry \in DOMAIN F.cfg
        /\ From(F.cfg, F.entry) = DOMAIN F.cfg
        /\ \A x \in DOMAIN F.cfg : From(F.cfg, x) \cap Exits(F.cfg) # {}
        /\ \A x \in Blocks : x \in Insts /\ F.block[x] = x
    BY <1>1, FunctionFacts DEF IInv, Blocks
  <2>3. L \subseteq Blocks /\ b \in L /\ ~(F.cfg[b] \subseteq L)
        /\ \A i : i \in InstsIn(L) <=> i \in Insts /\ F.block[i] \in L
    BY <1>1, LoopsFacts DEF IInv, Leaves
  <2>4. Whole(F.cfg, L) /\ \A c \in L : F.cfg[c] \cap L # {}
    <3>1. \A x \in L : \A s \in F.cfg[x] \ L : From(F.cfg, s) \cap L = {}
      BY <1>1 DEF LeftForGood, Leaves
    <3> QED
      BY <2>2, <3>1, LoopIsWhole DEF Loops
  <2>5. ASSUME NEW x \in L, NEW i \in InstsIn(L), ControlDependent(F.cfg, x, F.block[i])
        PROVE  i \in PDGraph[x]
    BY <2>1, <2>2, <2>3, <2>5, PDGIs DEF Reason
  <2>6. ASSUME NEW i \in InstsIn(L) PROVE \E x \in L : i \in PDGraph[x]
    <3>1. F.block[i] \in L
      BY <2>3
    <3>2. PICK x \in L : ControlDependent(F.cfg, x, F.block[i])
      BY <2>2, <2>3, <2>4, <3>1, LoopIsControlled
    <3> QED
      BY <2>5, <3>2
  <2>7. ASSUME NEW C, b \in C, \A x \in C \cap L : \A c \in L : c \in PDGraph[x] => c \in C
        PROVE  L \subseteq C
    <3>1. \A x \in C \cap L : \A c \in L : ControlDependent(F.cfg, x, c) => c \in C
      BY <2>2, <2>3, <2>5, <2>7
    <3> QED
      BY <2>2, <2>3, <2>4, <2>7, <3>1, LeafControlsLoop
  <2>8. /\ DOMAIN PDGraph = Insts /\ Closed(PDGraph) /\ IsFiniteSet(Insts)
        /\ \A i \in Insts : i \in getSCC(i) /\ getSCC(i) \in Components
        /\ \A S \in Components : S # {} /\ S \subseteq Insts /\ \A i \in S : getSCC(i) = S
        /\ \A S, T \in Components : T \in PSGraph[S] <=> T # S /\ \E i \in S : \E j \in T : j \in PDGraph[i]
    BY <2>1, PDGIs, ComponentsDivide, PSGIs
  <2>9. \A x \in L : x \in InstsIn(L) /\ getSCC(x) \in InLoop(L)
    BY <1>1, <2>1, <2>2, <2>3, MappedToItsLoop
  <2>10. ASSUME NEW S \in InLoop(L)
         PROVE  S \in Components /\ \E i \in S : i \in InstsIn(L)
    BY <1>1 DEF IInv, Mapped, InLoop
  <2>11. ASSUME NEW S \in InLoop(L), S # getSCC(b) PROVE DependsInItsLoop(S)
    <3>1. \E x \in L : \E i \in S : x \notin S /\ i \in PDGraph[x]
      <4>1. PICK i \in S : i \in InstsIn(L)
        BY <2>10, <2>11
      <4>2. PICK x \in L : i \in PDGraph[x]
        BY <2>6, <4>1
      <4>3. b \notin S
        BY <2>8, <2>10, <2>11
      <4>4. CASE x \notin S
        BY <4>2, <4>4
      <4>5. CASE x \in S
        <5>1. PICK C : C = L \ S
          OBVIOUS
        <5>2. PICK y \in C \cap L : \E c \in L : c \in PDGraph[y] /\ c \notin C
          <6>1. b \in C /\ ~(L \subseteq C)
            BY <2>3, <4>2, <4>3, <4>5, <5>1
          <6> QED
            BY <2>7, <6>1
        <5> QED
          BY <5>1, <5>2
      <4> QED
        BY <4>4, <4>5
    <3>2. PICK x \in L : \E i \in S : x \notin S /\ i \in PDGraph[x]
      BY <3>1
    <3>3. getSCC(x) \in InLoop(L) /\ getSCC(x) \in Components /\ x \in getSCC(x) /\ getSCC(x) # S
      BY <2>2, <2>3, <2>8, <2>9, <3>2
    <3>4. S \in PSGraph[getSCC(x)]
      BY <2>8, <2>10, <2>11, <3>2, <3>3
    <3> QED
      BY <2>1, <2>11, <3>3, <3>4, DependsInItsLoopIs
  <2>12. ~DependsInItsLoop(getSCC(b))
    <3> SUFFICES ASSUME DependsInItsLoop(getSCC(b)) PROVE FALSE
      OBVIOUS
    <3>1. PICK S \in InLoop(L) : getSCC(b) \in PSGraph[S]
      BY <2>1, <2>3, <2>9, DependsInItsLoopIs
    <3>2. S \in Components /\ b \in Insts /\ b \in getSCC(b) /\ getSCC(b) \in Components
      BY <2>2, <2>3, <2>8, <2>10
    <3>3. S # getSCC(b) /\ \E i \in S : \E j \in getSCC(b) : j \in PDGraph[i]
      BY <2>8, <3>1, <3>2
    <3>4. PICK i \in S, j \in getSCC(b) : j \in PDGraph[i]
      BY <3>3
    <3>5. PICK k \in S : k \in InstsIn(L)
      BY <2>10, <3>1
    <3>6. k \in From(PDGraph, b)
      <4>1. b \in From(PDGraph, b) /\ \A x \in From(PDGraph, b) : PDGraph[x] \subseteq From(PDGraph, b)
        BY <2>8, <3>2, FromSelf, FromClosed
      <4>2. L \subseteq From(PDGraph, b)
        <5>1. PICK C : C = From(PDGraph, b)
          OBVIOUS
        <5>2. b \in C /\ \A x \in C \cap L : \A c \in L : c \in PDGraph[x] => c \in C
          BY <4>1, <5>1
        <5>3. L \subseteq C
          BY <2>7, <5>2
        <5> QED
          BY <5>1, <5>3
      <4>3. PICK x \in L : k \in PDGraph[x]
        BY <2>6, <3>5
      <4> QED
        BY <4>1, <4>2, <4>3
    <3>7. b \in From(PDGraph, k)
      <4>1. k \in Insts /\ i \in SCC(PDGraph, k) /\ b \in SCC(PDGraph, j) /\ i \in Insts /\ j \in Insts
        BY <2>8, <3>2, <3>4, <3>5 DEF getSCC
      <4>2. i \in From(PDGraph, k) /\ b \in From(PDGraph, j)
        BY <4>1 DEF SCC
      <4>3. j \in From(PDGraph, k)
        BY <2>8, <3>4, <4>1, <4>2, FromClosed
      <4> QED
        BY <2>8, <4>1, <4>2, <4>3, FromOn
    <3>8. k \in getSCC(b)
      BY <3>6, <3>7 DEF getSCC, SCC
    <3> QED
      BY <2>8, <3>2, <3>3, <3>5, <3>8
  <2>13. LoopToIterScc[L] = {S \in InLoop(L) : ~DependsInItsLoop(S)}
    BY <1>1, <2>1, DividedIs
  <2> QED
    BY <2>3, <2>9, <2>11, <2>12, <2>13
<1>2. IInv => IterIsTheLoopControl
  BY <1>1 DEF IterIsTheLoopControl
<1> QED
  BY <1>2, Inductive, PTL

-------------------------------------------------------------------------------
(* The loops in print.                                                     *)

\* At(K, k) is the k-th number of K.
LEMMA PlacesInOrder ==
  ASSUME NEW n \in Nat, NEW K \in SUBSET (1 .. n)
  PROVE  /\ Cardinality(K) \in Nat
         /\ \A k \in 1 .. Cardinality(K) : At(K, k) \in K
         /\ \A i \in K : \E k \in 1 .. Cardinality(K) : At(K, k) = i
         /\ \A k, l \in 1 .. Cardinality(K) : k < l => At(K, k) < At(K, l)
<1> DEFINE Upto(i) == {j \in K : j <= i}
           Rank(i) == Cardinality(Upto(i))
<1>1. IsFiniteSet(K) /\ K \subseteq Nat
  <2>1. IsFiniteSet(1 .. n) /\ 1 .. n \subseteq Nat
    BY FS_Interval
  <2> QED
    BY <2>1, FS_Subset
<1>2. PICK c \in Nat : c = Cardinality(K)
  BY <1>1, FS_CardinalityType
<1>3. ASSUME NEW i \in K
      PROVE  Upto(i) \in SUBSET K /\ IsFiniteSet(Upto(i)) /\ i \in Upto(i) /\ Rank(i) \in 1 .. c
  <2>1. Upto(i) \subseteq K /\ i \in Upto(i)
    BY <1>1
  <2> HIDE DEF Upto
  <2>2. IsFiniteSet(Upto(i)) /\ Cardinality(Upto(i)) <= c /\ Cardinality(Upto(i)) \in Nat
    BY <1>1, <1>2, <2>1, FS_Subset, FS_CardinalityType
  <2>3. Cardinality(Upto(i)) # 0
    BY <2>1, <2>2, FS_EmptySet
  <2> QED
    BY <1>2, <2>1, <2>2, <2>3
<1>4. ASSUME NEW i \in K, NEW j \in K, i < j PROVE Rank(i) < Rank(j)
  <2>1. Upto(i) \subseteq Upto(j) /\ j \notin Upto(i) /\ j \in Upto(j)
    <3>1. i \in Nat /\ j \in Nat /\ \A l \in K : l \in Nat
      BY <1>1
    <3>2. \A l \in K : l <= i => l <= j
      BY <1>4, <3>1
    <3>3. Upto(i) \subseteq Upto(j)
      BY <3>2
    <3>4. ~(j <= i) /\ j <= j
      BY <1>4, <3>1
    <3> QED
      BY <3>3, <3>4
  <2>2. IsFiniteSet(Upto(j)) /\ IsFiniteSet(Upto(i))
    BY <1>3
  <2> HIDE DEF Upto
  <2>3. Cardinality(Upto(i)) < Cardinality(Upto(j))
    <3>1. Cardinality(Upto(i)) \in Nat /\ Cardinality(Upto(j)) \in Nat
      BY <2>2, FS_CardinalityType
    <3> QED
      BY <2>1, <2>2, <3>1, FS_Subset
  <2> QED
    BY <2>3
<1> HIDE DEF Rank, Upto
<1>5. \A i, j \in K : Rank(i) = Rank(j) => i = j
  BY <1>1, <1>3, <1>4
<1>6. PICK r : r = [i \in K |-> Rank(i)]
  OBVIOUS
<1>7. r \in Injection(K, 1 .. c)
  BY <1>3, <1>5, <1>6 DEF Injection, IsInjective
<1>8. IsFiniteSet(1 .. c) /\ Cardinality(1 .. c) = c
  BY <1>2, FS_Interval
<1>9. r \in Surjection(K, 1 .. c)
  BY <1>1, <1>2, <1>7, <1>8, FS_Injection
<1>10. \A k \in 1 .. c : \E i \in K : Rank(i) = k
  BY <1>6, <1>9 DEF Surjection
<1>11. \A k : At(K, k) = CHOOSE i \in K : Rank(i) = k
  BY DEF At, Rank, Upto
<1>12. \A k \in 1 .. c : At(K, k) \in K /\ Rank(At(K, k)) = k
  BY <1>10, <1>11
<1>13. ASSUME NEW i \in K PROVE \E k \in 1 .. c : At(K, k) = i
  <2>1. Rank(i) \in 1 .. c
    BY <1>3
  <2> QED
    BY <1>5, <1>12, <2>1
<1>14. ASSUME NEW k \in 1 .. c, NEW l \in 1 .. c, k < l PROVE At(K, k) < At(K, l)
  <2>1. PICK i \in K : i = At(K, k) /\ Rank(i) = k
    BY <1>12
  <2>2. PICK j \in K : j = At(K, l) /\ Rank(j) = l
    BY <1>12
  <2>3. ~(j < i) /\ i # j
    BY <1>4, <1>14, <2>1, <2>2
  <2> QED
    BY <1>1, <2>1, <2>2, <2>3
<1> QED
  BY <1>2, <1>12, <1>13, <1>14

\* What is picked of a sequence.
LEMMA PickedIs ==
  ASSUME NEW S, NEW s \in Seq(S), NEW K \in SUBSET (1 .. Len(s))
  PROVE  /\ Picked(s, K) \in Seq(S) /\ Len(Picked(s, K)) = Cardinality(K)
         /\ ToSet(Picked(s, K)) = {s[i] : i \in K}
         /\ \A k \in 1 .. Cardinality(K) : At(K, k) \in K /\ Picked(s, K)[k] = s[At(K, k)]
         /\ Once(s) => Once(Picked(s, K))
<1>1. PICK n \in Nat : n = Len(s)
  OBVIOUS
<1>2. PICK c : c = Cardinality(K)
  OBVIOUS
<1>3. /\ c \in Nat /\ \A k \in 1 .. c : At(K, k) \in K
      /\ \A i \in K : \E k \in 1 .. c : At(K, k) = i
      /\ \A k, l \in 1 .. c : k < l => At(K, k) < At(K, l)
  BY <1>1, <1>2, PlacesInOrder
<1>4. PICK p : p = Picked(s, K)
  OBVIOUS
<1>5. p = [k \in 1 .. c |-> s[At(K, k)]]
  BY <1>2, <1>4 DEF Picked
<1>6. \A k \in 1 .. c : s[At(K, k)] \in S
  <2>1. \A i \in 1 .. n : s[i] \in S
    BY <1>1
  <2> QED
    BY <1>1, <1>3, <2>1
<1>7. p \in Seq(S) /\ Len(p) = c
  BY <1>3, <1>5, <1>6
<1>8. ToSet(p) = {s[i] : i \in K}
  BY <1>3, <1>5, <1>7 DEF ToSet
<1>9. ASSUME Once(s), NEW k \in 1 .. c, NEW l \in 1 .. c, p[k] = p[l] PROVE k = l
  <2>1. At(K, k) \in 1 .. n /\ At(K, l) \in 1 .. n /\ s[At(K, k)] = s[At(K, l)]
    BY <1>1, <1>3, <1>5, <1>9
  <2>2. At(K, k) = At(K, l)
    BY <1>1, <1>9, <2>1 DEF Once
  <2> QED
    BY <1>1, <1>3, <2>1, <2>2
<1> QED
  BY <1>2, <1>3, <1>4, <1>5, <1>7, <1>8, <1>9 DEF Once

\* The instructions of blocks that are listed once, each of them once.
LEMMA InstsInOrderIs ==
  ASSUME F \in Programs, NEW blocks \in Seq(Blocks), Once(blocks)
  PROVE  /\ InstsInOrder(blocks) \in Seq(Insts) /\ Once(InstsInOrder(blocks))
         /\ ToSet(InstsInOrder(blocks)) = InstsIn(ToSet(blocks))
<1>1. /\ IsFiniteSet(Insts) /\ Blocks \subseteq Insts
      /\ F.block \in [Insts -> Blocks] /\ \A b \in Blocks : F.block[b] = b
  BY FunctionFacts
<1>2. ASSUME NEW b \in Blocks
      PROVE  /\ InOrder(b) \in Seq(Insts) /\ Once(InOrder(b))
             /\ ToSet(InOrder(b)) = InstsOf(b)
  <2>1. PICK S : S = InstsOf(b) \ {b}
    OBVIOUS
  <2>2. S \subseteq Insts /\ IsFiniteSet(S) /\ b \in Insts /\ b \in InstsOf(b)
    BY <1>1, <2>1, FS_Subset DEF InstsOf
  <2>3. PICK s : s = SetToSeq(S)
    OBVIOUS
  <2>4. s \in Seq(S) /\ Once(s) /\ ToSet(s) = S
    BY <2>2, <2>3, SetToSeqOnce
  <2>5. PICK t : t = <<b>>
    OBVIOUS
  <2>6. t \in Seq(Insts) /\ Once(t) /\ ToSet(t) = {b}
    BY <2>2, <2>5, OneIsOnce
  <2>7. s \in Seq(Insts) /\ ToSet(s) \cap ToSet(t) = {}
    BY <2>1, <2>2, <2>4, <2>6
  <2>8. s \o t \in Seq(Insts) /\ Once(s \o t) /\ ToSet(s \o t) = ToSet(s) \cup ToSet(t)
    BY <2>4, <2>6, <2>7, JoinedOnce
  <2>9. InOrder(b) = s \o t
    <3>1. \A u \in Seq(Insts) : Append(u, b) = u \o <<b>>
      BY <2>2
    <3> QED
      BY <2>1, <2>3, <2>5, <2>7, <3>1 DEF InOrder
  <2> QED
    BY <2>1, <2>2, <2>4, <2>6, <2>8, <2>9
<1>3. PICK n \in Nat : n = Len(blocks)
  OBVIOUS
<1>4. DOMAIN blocks = 1 .. n /\ \A k \in 1 .. n : blocks[k] \in Blocks
  BY <1>3
<1>5. PICK seqs : seqs = [k \in 1 .. n |-> InOrder(blocks[k])]
  OBVIOUS
<1>6. seqs \in Seq(Seq(Insts)) /\ Len(seqs) = n
  BY <1>2, <1>4, <1>5
<1>7. \A k \in 1 .. n : Once(seqs[k]) /\ ToSet(seqs[k]) = InstsOf(blocks[k])
  BY <1>2, <1>4, <1>5
<1>8. ASSUME NEW k \in 1 .. n, NEW l \in 1 .. n, k # l
      PROVE  ToSet(seqs[k]) \cap ToSet(seqs[l]) = {}
  <2>1. blocks[k] # blocks[l]
    BY <1>3, <1>8 DEF Once
  <2> QED
    BY <1>7, <2>1 DEF InstsOf
<1>9. PICK flat : flat = FlattenSeq(seqs)
  OBVIOUS
<1>10. flat \in Seq(Insts) /\ Once(flat) /\ ToSet(flat) = UNION {ToSet(seqs[k]) : k \in 1 .. n}
  BY <1>6, <1>7, <1>8, <1>9, FlattenOnce
<1>11. InstsInOrder(blocks) = flat
  BY <1>4, <1>5, <1>9 DEF InstsInOrder
<1>12. ToSet(blocks) = {blocks[k] : k \in 1 .. n}
  BY <1>4 DEF ToSet
<1>13. ToSet(flat) = InstsIn(ToSet(blocks))
  BY <1>7, <1>10, <1>12 DEF InstsIn
<1> QED
  BY <1>10, <1>11, <1>13

\* What is printed of a loop: its located instructions, each once.
LEMMA LocatedIs ==
  ASSUME F \in Programs, NEW L \in Loops, NEW loc
  PROVE  /\ Located(L, loc) \in Seq(Insts) /\ Once(Located(L, loc))
         /\ ToSet(Located(L, loc)) = {i \in InstsIn(L) : loc[i] # NoLoc}
<1>1. /\ Graph(F.cfg) /\ IsFiniteSet(Blocks) /\ L \subseteq Blocks /\ IsFiniteSet(L)
  BY FunctionFacts, LoopsFacts, FS_Subset
<1>2. PICK h : h = Header(L)
  OBVIOUS
<1>3. h \in L
  <2>1. L # {} /\ \E k \in DOMAIN F.cfg : L = NaturalLoop(F.cfg, F.entry, k)
    BY DEF Loops, TopLevelLoops
  <2>2. PICK k \in L : NaturalLoop(F.cfg, F.entry, k) = L
    BY <2>1 DEF NaturalLoop
  <2> QED
    BY <1>2, <2>2 DEF Header
<1>4. PICK s : s = SetToSeq(L \ {h})
  OBVIOUS
<1>5. s \in Seq(L \ {h}) /\ Once(s) /\ ToSet(s) = L \ {h}
  <2>1. IsFiniteSet(L \ {h})
    BY <1>1, FS_Subset
  <2> QED
    BY <1>4, <2>1, SetToSeqOnce
<1>6. PICK t : t = <<h>>
  OBVIOUS
<1>7. t \in Seq(Blocks) /\ Once(t) /\ ToSet(t) = {h}
  BY <1>1, <1>3, <1>6, OneIsOnce
<1>8. s \in Seq(Blocks) /\ ToSet(t) \cap ToSet(s) = {}
  BY <1>1, <1>5, <1>7
<1>9. t \o s \in Seq(Blocks) /\ Once(t \o s) /\ ToSet(t \o s) = ToSet(t) \cup ToSet(s)
  BY <1>5, <1>7, <1>8, JoinedOnce
<1>10. PICK blocks : blocks = BlocksOf(L)
  OBVIOUS
<1>11. blocks = t \o s
  BY <1>2, <1>4, <1>6, <1>10 DEF BlocksOf, HeaderFirst
<1>12. blocks \in Seq(Blocks) /\ Once(blocks) /\ ToSet(blocks) = L
  BY <1>3, <1>5, <1>7, <1>9, <1>11
<1>13. PICK is : is = InstsInOrder(blocks)
  OBVIOUS
<1>14. is \in Seq(Insts) /\ Once(is) /\ ToSet(is) = InstsIn(L)
  BY <1>12, <1>13, InstsInOrderIs
<1>15. PICK K : K = {k \in DOMAIN is : loc[is[k]] # NoLoc}
  OBVIOUS
<1>16. K \in SUBSET (1 .. Len(is))
  BY <1>14, <1>15
<1>17. Located(L, loc) = Picked(is, K)
  BY <1>10, <1>13, <1>15 DEF Located, LocatedOf
<1>18. /\ Picked(is, K) \in Seq(Insts) /\ Once(Picked(is, K))
       /\ ToSet(Picked(is, K)) = {is[k] : k \in K}
  BY <1>14, <1>16, PickedIs
<1>19. {is[k] : k \in K} = {i \in InstsIn(L) : loc[i] # NoLoc}
  BY <1>14, <1>15 DEF ToSet
<1> QED
  BY <1>17, <1>18, <1>19

\* The loops that can be decoupled, each once, and no two of them with an
\* instruction in common.
LEMMA DecouplableIs ==
  ASSUME F \in Programs
  PROVE  /\ Decouplable \in Seq(Loops) /\ Once(Decouplable)
         /\ \A m, n \in DOMAIN Decouplable :
              m # n => InstsIn(Decouplable[m]) \cap InstsIn(Decouplable[n]) = {}
<1>1. IsFiniteSet(Loops) /\ \A L, i : i \in InstsIn(L) <=> i \in Insts /\ F.block[i] \in L
  BY LoopsFacts
<1>2. PICK all : all = SetToSeq(Loops)
  OBVIOUS
<1>3. all \in Seq(Loops) /\ Once(all)
  BY <1>1, <1>2, SetToSeqOnce
<1>4. PICK K : K = {k \in DOMAIN all : hasWork(all[k])}
  OBVIOUS
<1>5. K \in SUBSET (1 .. Len(all))
  BY <1>3, <1>4
<1>6. PICK loops : loops = Decouplable
  OBVIOUS
<1>7. loops = Picked(all, K)
  BY <1>2, <1>4, <1>6 DEF Decouplable, WithWork
<1>8. loops \in Seq(Loops) /\ Once(loops)
  BY <1>3, <1>5, <1>7, PickedIs
<1>9. ASSUME NEW m \in DOMAIN loops, NEW n \in DOMAIN loops, m # n
      PROVE  InstsIn(loops[m]) \cap InstsIn(loops[n]) = {}
  <2>1. loops[m] \in Loops /\ loops[n] \in Loops /\ loops[m] # loops[n]
    BY <1>8, <1>9 DEF Once
  <2>2. /\ Graph(F.cfg) /\ IsFiniteSet(DOMAIN F.cfg) /\ F.entry \in DOMAIN F.cfg
        /\ From(F.cfg, F.entry) = DOMAIN F.cfg
    BY FunctionFacts DEF Blocks
  <2>3. \A L, M \in Loops : L # M => L \cap M = {}
    BY <2>2, LoopsApart DEF Loops
  <2> QED
    BY <1>1, <2>1, <2>3
<1> QED
  BY <1>6, <1>8, <1>9

\* A table of the located instructions of the loops, each in one row.
RowIs(r, loops, loc) ==
    /\ r.loop \in DOMAIN loops /\ r.inst \in InstsIn(loops[r.loop])
    /\ loc[r.inst] # NoLoc /\ r.line = loc[r.inst]
    /\ r.work = isWork(r.inst, loops[r.loop]) /\ r.iter = isIter(r.inst, loops[r.loop])

Tabled(rows, loops, loc) ==
    /\ rows = [p \in 1 .. Len(rows) |-> rows[p]] /\ Len(rows) \in Nat
    /\ \A p \in 1 .. Len(rows) : RowIs(rows[p], loops, loc)
    /\ \A n \in DOMAIN loops : \A i \in InstsIn(loops[n]) :
         loc[i] # NoLoc => \E p \in 1 .. Len(rows) : rows[p].inst = i /\ rows[p].loop = n
    /\ \A p, q \in 1 .. Len(rows) : rows[p].inst = rows[q].inst => p = q

LEMMA RowsIs ==
  ASSUME F \in Programs, NEW loc, NEW loops, loops = Decouplable, NEW rows, rows = Rows(loops, loc)
  PROVE  Tabled(rows, loops, loc)
<1> DEFINE Row(i, n) == [inst |-> i, line |-> loc[i], loop |-> n,
                         work |-> isWork(i, loops[n]), iter |-> isIter(i, loops[n])]
<1>1. \A i, n : /\ Row(i, n).inst = i /\ Row(i, n).line = loc[i] /\ Row(i, n).loop = n
                 /\ Row(i, n).work = isWork(i, loops[n]) /\ Row(i, n).iter = isIter(i, loops[n])
  OBVIOUS
<1> HIDE DEF Row
<1>2. PICK N \in Nat : N = Len(loops)
  BY DecouplableIs
<1>3. /\ DOMAIN loops = 1 .. N /\ \A n \in 1 .. N : loops[n] \in Loops
      /\ \A m, n \in 1 .. N : m # n => InstsIn(loops[m]) \cap InstsIn(loops[n]) = {}
  BY <1>2, DecouplableIs
<1>4. PICK X : X = UNION {{Row(i, n) : i \in Insts} : n \in 1 .. N}
  OBVIOUS
<1>5. PICK seqs : seqs = [n \in 1 .. N |-> RowsOf(Located(loops[n], loc), n, loops[n], loc)]
  OBVIOUS
<1>6. ASSUME NEW n \in 1 .. N
      PROVE  /\ seqs[n] \in Seq(X) /\ Once(seqs[n])
             /\ ToSet(seqs[n]) = {Row(i, n) : i \in {j \in InstsIn(loops[n]) : loc[j] # NoLoc}}
  <2>1. PICK is : is = Located(loops[n], loc)
    OBVIOUS
  <2>2. is \in Seq(Insts) /\ Once(is) /\ ToSet(is) = {j \in InstsIn(loops[n]) : loc[j] # NoLoc}
    BY <1>3, <2>1, LocatedIs
  <2>3. PICK c \in Nat : c = Len(is)
    BY <2>2
  <2>4. DOMAIN is = 1 .. c /\ \A k \in 1 .. c : is[k] \in Insts
    BY <2>2, <2>3
  <2>5. PICK s : s = [k \in 1 .. c |-> Row(is[k], n)]
    OBVIOUS
  <2>6. seqs[n] = s
    BY <1>5, <2>1, <2>4, <2>5 DEF RowsOf, Row
  <2>7. s \in Seq(X) /\ Len(s) = c
    <3>1. \A k \in 1 .. c : Row(is[k], n) \in X
      BY <1>4, <2>4
    <3> QED
      BY <2>5, <3>1
  <2>8. Once(s)
    <3> SUFFICES ASSUME NEW k \in 1 .. c, NEW l \in 1 .. c, s[k] = s[l] PROVE k = l
      BY <2>7 DEF Once
    <3>1. is[k] = is[l]
      BY <1>1, <2>5
    <3> QED
      BY <2>2, <2>3, <3>1 DEF Once
  <2>9. ToSet(s) = {Row(i, n) : i \in ToSet(is)}
    BY <2>4, <2>5, <2>7 DEF ToSet
  <2> QED
    BY <2>2, <2>6, <2>7, <2>8, <2>9
<1>7. /\ seqs \in Seq(Seq(X)) /\ Len(seqs) = N
  <2>1. \A n \in 1 .. N : RowsOf(Located(loops[n], loc), n, loops[n], loc) \in Seq(X)
    BY <1>5, <1>6
  <2> QED
    BY <1>5, <2>1
<1>8. ASSUME NEW m \in 1 .. N, NEW n \in 1 .. N, m # n PROVE ToSet(seqs[m]) \cap ToSet(seqs[n]) = {}
  <2>1. \A i, j : Row(i, m) # Row(j, n)
    BY <1>1, <1>8
  <2>2. ASSUME NEW k \in 1 .. N, NEW r \in ToSet(seqs[k]) PROVE \E i : r = Row(i, k)
    <3>1. ToSet(seqs[k]) = {Row(i, k) : i \in {j \in InstsIn(loops[k]) : loc[j] # NoLoc}}
      BY <1>6
    <3> QED
      BY <3>1
  <2> QED
    BY <2>1, <2>2
<1>9. rows = FlattenSeq(seqs)
  BY <1>3, <1>5 DEF Rows
<1>10. /\ rows \in Seq(X) /\ Once(rows)
      /\ ToSet(rows) = UNION {ToSet(seqs[n]) : n \in 1 .. N}
  <2>1. \A k \in 1 .. Len(seqs) : Once(seqs[k])
    BY <1>6, <1>7
  <2>2. \A k, l \in 1 .. Len(seqs) : k # l => ToSet(seqs[k]) \cap ToSet(seqs[l]) = {}
    BY <1>7, <1>8
  <2> QED
    BY <1>7, <1>9, <2>1, <2>2, FlattenOnce
<1>11. PICK c \in Nat : c = Len(rows)
  BY <1>10
<1>12. rows = [p \in 1 .. c |-> rows[p]] /\ ToSet(rows) = {rows[p] : p \in 1 .. c}
  BY <1>10, <1>11 DEF ToSet
<1>13. ASSUME NEW p \in 1 .. c
       PROVE  \E n \in 1 .. N : \E i \in InstsIn(loops[n]) : loc[i] # NoLoc /\ rows[p] = Row(i, n)
  <2>1. rows[p] \in ToSet(rows)
    BY <1>12
  <2>2. PICK n \in 1 .. N : rows[p] \in ToSet(seqs[n])
    BY <1>10, <2>1
  <2> QED
    BY <1>6, <2>2
<1>14. ASSUME NEW n \in 1 .. N, NEW i \in InstsIn(loops[n]), loc[i] # NoLoc
       PROVE  \E p \in 1 .. c : rows[p] = Row(i, n)
  <2>1. Row(i, n) \in ToSet(seqs[n])
    BY <1>6, <1>14
  <2>2. Row(i, n) \in ToSet(rows)
    BY <1>10, <2>1
  <2> QED
    BY <1>12, <2>2
<1>15. ASSUME NEW p \in 1 .. c PROVE RowIs(rows[p], loops, loc)
  <2>1. PICK n \in 1 .. N : \E i \in InstsIn(loops[n]) : loc[i] # NoLoc /\ rows[p] = Row(i, n)
    BY <1>13
  <2>2. PICK i \in InstsIn(loops[n]) : loc[i] # NoLoc /\ rows[p] = Row(i, n)
    BY <2>1
  <2> QED
    BY <1>3, <1>1, <2>2 DEF RowIs
<1>16. ASSUME NEW n \in DOMAIN loops, NEW i \in InstsIn(loops[n]), loc[i] # NoLoc
       PROVE  \E p \in 1 .. c : rows[p].inst = i /\ rows[p].loop = n
  BY <1>3, <1>14, <1>1, <1>16
<1>17. ASSUME NEW p \in 1 .. c, NEW q \in 1 .. c, rows[p].inst = rows[q].inst PROVE p = q
  <2>1. PICK m \in 1 .. N : \E i \in InstsIn(loops[m]) : rows[p] = Row(i, m)
    BY <1>13
  <2>2. PICK i \in InstsIn(loops[m]) : rows[p] = Row(i, m)
    BY <2>1
  <2>3. PICK n \in 1 .. N : \E j \in InstsIn(loops[n]) : rows[q] = Row(j, n)
    BY <1>13
  <2>4. PICK j \in InstsIn(loops[n]) : rows[q] = Row(j, n)
    BY <2>3
  <2>5. i = j
    BY <1>1, <1>17, <2>2, <2>4
  <2>6. m = n
    BY <1>3, <2>5
  <2> QED
    BY <1>10, <1>11, <2>2, <2>4, <2>5, <2>6 DEF Once
<1>18. rows = [p \in 1 .. Len(rows) |-> rows[p]] /\ Len(rows) \in Nat
  BY <1>11, <1>12
<1>19. \A p \in 1 .. Len(rows) : RowIs(rows[p], loops, loc)
  BY <1>11, <1>15
<1>20. \A n \in DOMAIN loops : \A i \in InstsIn(loops[n]) :
         loc[i] # NoLoc => \E p \in 1 .. Len(rows) : rows[p].inst = i /\ rows[p].loop = n
  BY <1>11, <1>16
<1>21. \A p, q \in 1 .. Len(rows) : rows[p].inst = rows[q].inst => p = q
  BY <1>11, <1>17
<1> QED
  BY <1>18, <1>19, <1>20, <1>21, Zenon DEF Tabled

\* What is printed of a table: each of its lines once, with all its rows, under
\* the loop of a row of that line.
PrintedLines(lines, rows) ==
    /\ \E c \in Nat : DOMAIN lines = 1 .. c
    /\ \A k \in DOMAIN lines : lines[k].rows = RowsAt(rows, lines[k].line)
    /\ \A k \in DOMAIN lines : \E p \in 1 .. Len(rows) :
         rows[p].line = lines[k].line /\ rows[p].loop = HeadingOf(lines, k)
    /\ \A k, l \in DOMAIN lines : lines[k].line = lines[l].line => k = l
    /\ \A p \in 1 .. Len(rows) : \E k \in DOMAIN lines : lines[k].line = rows[p].line
    /\ {lines[k].heading : k \in DOMAIN lines} \ {0} = {HeadingOf(lines, k) : k \in DOMAIN lines}

LEMMA ReportIs ==
  ASSUME NEW rows, rows = [p \in 1 .. Len(rows) |-> rows[p]], Len(rows) \in Nat,
         \A p \in 1 .. Len(rows) : rows[p].loop \in Nat \ {0},
         NEW lines, lines = Report(rows)
  PROVE  PrintedLines(lines, rows)
<1>1. PICK N \in Nat : N = Len(rows) /\ DOMAIN rows = 1 .. N
  OBVIOUS
<1>2. PICK K : K = {i \in 1 .. N : \A j \in 1 .. i - 1 : rows[j].line # rows[i].line}
  OBVIOUS
<1>3. PICK c : c = Cardinality(K)
  OBVIOUS
<1>4. /\ c \in Nat /\ \A k \in 1 .. c : At(K, k) \in K
      /\ \A i \in K : \E k \in 1 .. c : At(K, k) = i
      /\ \A k, l \in 1 .. c : k < l => At(K, k) < At(K, l)
  <2>1. K \in SUBSET (1 .. N)
    BY <1>2
  <2> QED
    BY <1>3, <2>1, PlacesInOrder
<1>5. PICK f : f = [k \in 1 .. c |-> At(K, k)]
  OBVIOUS
<1>6. FirstOfLine(rows) = f
  BY <1>1, <1>2, <1>3, <1>5 DEF FirstOfLine, Ascending
<1>7. lines = Lines(rows, f)
  BY <1>6 DEF Report
<1>8. \A k \in 1 .. c : f[k] \in 1 .. N /\ f[k] \in K
  BY <1>2, <1>4, <1>5
<1>9. /\ DOMAIN lines = 1 .. c
      /\ \A k \in 1 .. c :
           /\ lines[k].heading = IF k > 1 /\ rows[f[k - 1]].loop = rows[f[k]].loop
                                   THEN 0 ELSE rows[f[k]].loop
           /\ lines[k].line = rows[f[k]].line
           /\ lines[k].rows = RowsAt(rows, rows[f[k]].line)
  <2>1. DOMAIN f = 1 .. c
    BY <1>5
  <2>2. lines = [k \in 1 .. c |->
                   [heading |-> IF k > 1 /\ rows[f[k - 1]].loop = rows[f[k]].loop
                                  THEN 0 ELSE rows[f[k]].loop,
                    line |-> rows[f[k]].line,
                    rows |-> RowsAt(rows, rows[f[k]].line)]]
    BY <1>7, <2>1, Zenon DEF Lines
  <2> QED
    BY <2>2
<1>10. \A k \in 1 .. c : rows[f[k]].loop \in Nat \ {0}
  BY <1>1, <1>8
\* A line is under the loop of its first row.
<1>11. ASSUME NEW k \in 1 .. c
       PROVE  /\ HeadingOf(lines, k) = rows[f[k]].loop
              /\ \E m \in 1 .. c : HeadingOf(lines, k) = lines[m].heading /\ lines[m].heading # 0
  <2>1. PICK H : H = {j \in 1 .. k : lines[j].heading # 0}
    OBVIOUS
  <2>2. 1 \in H
    <3>1. 1 \in 1 .. c /\ 1 \in 1 .. k
      BY <1>4
    <3>2. lines[1].heading = rows[f[1]].loop
      BY <1>9, <3>1
    <3> QED
      BY <1>10, <2>1, <3>1, <3>2
  <2>3. PICK m : m = Max(H)
    OBVIOUS
  <2>4. m \in H /\ \A j \in H : m >= j
    <3>1. k \in Nat /\ H \in SUBSET (1 .. k) /\ H # {}
      BY <1>4, <2>1, <2>2
    <3>2. PICK l \in H : \A j \in H : j <= l
      BY <3>1, GreatestUpto
    <3>3. \A j \in H : l >= j
      BY <3>1, <3>2
    <3>4. m = CHOOSE l2 \in H : \A j \in H : l2 >= j
      BY <2>3 DEF Max
    <3> QED
      BY <3>2, <3>3, <3>4
  <2>5. m \in 1 .. c /\ m \in Nat /\ m <= k /\ lines[m].heading # 0 /\ k \in Nat /\ m >= 1 /\ k <= c
    BY <1>4, <2>1, <2>4
  <2>6. HeadingOf(lines, k) = lines[m].heading
    BY <2>1, <2>3 DEF HeadingOf
  <2>7. lines[m].heading = rows[f[m]].loop
    BY <1>9, <2>5
  <2> DEFINE T == {d \in Nat : m + d <= k => rows[f[m + d]].loop = rows[f[m]].loop}
  <2>8. 0 \in T
    <3>1. m + 0 = m
      BY <2>5
    <3> QED
      BY <3>1
  <2>9. \A d \in Nat : d \in T => d + 1 \in T
    <3> SUFFICES ASSUME NEW d \in T, m + (d + 1) <= k
                 PROVE  rows[f[m + (d + 1)]].loop = rows[f[m]].loop
      OBVIOUS
    <3>1. PICK j : j = m + (d + 1)
      OBVIOUS
    <3>2. j \in 1 .. k /\ j \in 1 .. c /\ j > 1 /\ j > m /\ j - 1 = m + d
      <4>1. d \in Nat /\ c \in Nat
        BY <1>4
      <4> QED
        BY <2>5, <3>1, <4>1
    <3>3. rows[f[j - 1]].loop = rows[f[m]].loop
      BY <2>5, <3>2
    <3>4. lines[j].heading = 0
      BY <2>1, <2>4, <2>5, <3>2
    <3>5. rows[f[j - 1]].loop = rows[f[j]].loop
      BY <1>9, <1>10, <3>2, <3>4
    <3> QED
      BY <3>1, <3>3, <3>5
  <2>10. k - m \in T
    <3>1. k - m \in Nat
      BY <2>5
    <3> HIDE DEF T
    <3> QED
      BY <2>8, <2>9, <3>1, InductionOnNat
  <2>11. rows[f[k]].loop = rows[f[m]].loop
    <3>1. m + (k - m) = k
      BY <2>5
    <3> QED
      BY <2>5, <2>10, <3>1
  <2> QED
    BY <2>5, <2>6, <2>7, <2>11
<1>12. ASSUME NEW k \in 1 .. c, NEW l \in 1 .. c, lines[k].line = lines[l].line PROVE k = l
  <2>1. PICK i \in K : i = f[k] /\ i \in 1 .. N
    BY <1>8
  <2>2. PICK j \in K : j = f[l] /\ j \in 1 .. N
    BY <1>8
  <2>3. rows[i].line = rows[j].line
    BY <1>9, <1>12, <2>1, <2>2
  <2>4. ~(i < j) /\ ~(j < i)
    <3>1. i < j => i \in 1 .. j - 1
      BY <2>1, <2>2
    <3>2. j < i => j \in 1 .. i - 1
      BY <2>1, <2>2
    <3> QED
      BY <1>2, <2>1, <2>2, <2>3, <3>1, <3>2
  <2>5. i = j
    BY <2>1, <2>2, <2>4
  <2>6. At(K, k) = At(K, l) /\ At(K, k) \in 1 .. N
    BY <1>5, <2>1, <2>2, <2>5
  <2> QED
    BY <1>4, <2>6
<1>13. ASSUME NEW p \in 1 .. N PROVE \E k \in 1 .. c : lines[k].line = rows[p].line
  <2>1. PICK P : P = {q \in 1 .. N : rows[q].line = rows[p].line}
    OBVIOUS
  <2>2. P \in SUBSET Nat /\ P # {}
    BY <2>1
  <2>3. PICK i \in P : \A q \in P : i <= q
    BY <2>2, LeastNat
  <2>4. i \in 1 .. N /\ rows[i].line = rows[p].line
    BY <2>1
  <2>5. ASSUME NEW j \in 1 .. i - 1 PROVE rows[j].line # rows[i].line
    <3>1. j \in 1 .. N /\ ~(i <= j)
      BY <2>4
    <3> QED
      BY <2>1, <2>3, <2>4, <3>1
  <2>6. i \in K
    BY <1>2, <2>4, <2>5
  <2>7. PICK k \in 1 .. c : f[k] = i
    BY <1>4, <1>5, <2>6
  <2> QED
    BY <1>9, <2>4, <2>7
<1>14. {lines[k].heading : k \in 1 .. c} \ {0} = {HeadingOf(lines, k) : k \in 1 .. c}
  <2>1. ASSUME NEW k \in 1 .. c, lines[k].heading # 0 PROVE lines[k].heading = HeadingOf(lines, k)
    BY <1>9, <1>11, <2>1
  <2>2. ASSUME NEW k \in 1 .. c PROVE HeadingOf(lines, k) # 0
    BY <1>11
  <2>3. ASSUME NEW k \in 1 .. c PROVE \E m \in 1 .. c : HeadingOf(lines, k) = lines[m].heading
    BY <1>11
  <2> QED
    BY <2>1, <2>2, <2>3
<1>15. \A k \in 1 .. c : \E p \in 1 .. N :
         rows[p].line = lines[k].line /\ rows[p].loop = HeadingOf(lines, k)
  BY <1>8, <1>9, <1>11
<1>16. \A k \in 1 .. c : lines[k].rows = RowsAt(rows, lines[k].line)
  BY <1>9
<1>17. \E d \in Nat : DOMAIN lines = 1 .. d
  BY <1>4, <1>9
<1>18. DOMAIN lines = 1 .. c
  BY <1>9
<1>19. \A k \in DOMAIN lines : lines[k].rows = RowsAt(rows, lines[k].line)
  BY <1>16, <1>18
<1>20. \A k \in DOMAIN lines : \E p \in 1 .. Len(rows) :
         rows[p].line = lines[k].line /\ rows[p].loop = HeadingOf(lines, k)
  BY <1>1, <1>15, <1>18
<1>21. \A k, l \in DOMAIN lines : lines[k].line = lines[l].line => k = l
  BY <1>12, <1>18
<1>22. \A p \in 1 .. Len(rows) : \E k \in DOMAIN lines : lines[k].line = rows[p].line
  BY <1>1, <1>13, <1>18
<1>23. {lines[k].heading : k \in DOMAIN lines} \ {0} = {HeadingOf(lines, k) : k \in DOMAIN lines}
  BY <1>14, <1>18
<1> QED
  BY <1>17, <1>19, <1>20, <1>21, <1>22, <1>23, Zenon DEF PrintedLines

\* Where an instruction is printed: nowhere, or in one place.
LEMMA PrintedOnce ==
  ASSUME F \in Programs, NEW loops, NEW loc, NEW rows, NEW lines,
         Tabled(rows, loops, loc), PrintedLines(lines, rows),
         NEW n \in DOMAIN loops, NEW i \in InstsIn(loops[n])
  PROVE  /\ loc[i] = NoLoc => PrintedAt(lines, i) = {}
         /\ loc[i] # NoLoc =>
              \E k \in DOMAIN lines : \E m \in 1 .. Cardinality(Insts) :
                /\ PrintedAt(lines, i) = {<<k, m>>} /\ lines[k].line = loc[i]
                /\ RowIs(lines[k].rows[m], loops, loc)
                /\ lines[k].rows[m].inst = i /\ lines[k].rows[m].loop = n
<1>1. IsFiniteSet(Insts) /\ \A L, j : j \in InstsIn(L) <=> j \in Insts /\ F.block[j] \in L
  BY FunctionFacts, LoopsFacts
<1>2. PICK N \in Nat : N = Len(rows)
  BY DEF Tabled
<1>3. /\ DOMAIN rows = 1 .. N
      /\ \A p \in 1 .. N : RowIs(rows[p], loops, loc)
      /\ \A p, q \in 1 .. N : rows[p].inst = rows[q].inst => p = q
      /\ loc[i] # NoLoc => \E p \in 1 .. N : rows[p].inst = i /\ rows[p].loop = n
  BY <1>2 DEF Tabled
<1>4. /\ \A k \in DOMAIN lines : lines[k].rows = RowsAt(rows, lines[k].line)
      /\ \A k, l \in DOMAIN lines : lines[k].line = lines[l].line => k = l
      /\ \A p \in 1 .. N : \E k \in DOMAIN lines : lines[k].line = rows[p].line
  BY <1>2 DEF PrintedLines
<1> DEFINE Of(line) == {q \in 1 .. N : rows[q].line = line}
\* The rows of a line.
<1>5. ASSUME NEW line
      PROVE  /\ Cardinality(Of(line)) \in Nat /\ Cardinality(Of(line)) <= Cardinality(Insts)
             /\ DOMAIN RowsAt(rows, line) = 1 .. Cardinality(Of(line))
             /\ \A m \in 1 .. Cardinality(Of(line)) :
                  /\ At(Of(line), m) \in Of(line)
                  /\ RowsAt(rows, line)[m] = rows[At(Of(line), m)]
             /\ \A p \in Of(line) : \E m \in 1 .. Cardinality(Of(line)) : At(Of(line), m) = p
             /\ \A k, m \in 1 .. Cardinality(Of(line)) : At(Of(line), k) = At(Of(line), m) => k = m
  <2>1. PICK K : K = Of(line)
    OBVIOUS
  <2>2. K \in SUBSET (1 .. N) /\ K = {q \in DOMAIN rows : rows[q].line = line}
    BY <1>3, <2>1
  <2>3. /\ Cardinality(K) \in Nat
        /\ \A k \in 1 .. Cardinality(K) : At(K, k) \in K
        /\ \A p \in K : \E k \in 1 .. Cardinality(K) : At(K, k) = p
        /\ \A k, l \in 1 .. Cardinality(K) : k < l => At(K, k) < At(K, l)
    <3>1. K \in SUBSET (1 .. N)
      BY <2>2
    <3> HIDE DEF Of
    <3> QED
      BY <3>1, PlacesInOrder
  <2>4. ASSUME NEW k \in 1 .. Cardinality(K), NEW m \in 1 .. Cardinality(K), At(K, k) = At(K, m)
        PROVE  k = m
    <3>1. At(K, k) \in Nat
      BY <2>2, <2>3
    <3>2. ~(k < m) /\ ~(m < k)
      BY <2>3, <2>4, <3>1
    <3> QED
      BY <2>3, <3>2
  <2>5. RowsAt(rows, line) = [k \in 1 .. Cardinality(K) |-> rows[At(K, k)]]
    BY <2>2 DEF RowsAt, Picked
  <2>6. Cardinality(K) <= Cardinality(Insts)
    <3>1. PICK f : f = [p \in K |-> rows[p].inst]
      OBVIOUS
    <3>2. \A p \in K : rows[p].inst \in Insts
      BY <1>1, <1>3, <2>2 DEF RowIs
    <3>3. f \in Injection(K, Insts)
      BY <1>3, <2>2, <3>1, <3>2 DEF Injection, IsInjective
    <3> QED
      BY <1>1, <3>3, FS_Injection
  <2> HIDE DEF Of
  <2> QED
    BY <2>1, <2>3, <2>4, <2>5, <2>6
<1>6. ASSUME NEW k \in DOMAIN lines, NEW m \in 1 .. Cardinality(Insts)
      PROVE  <<k, m>> \in PrintedAt(lines, i)
               <=> m \in 1 .. Cardinality(Of(lines[k].line)) /\ rows[At(Of(lines[k].line), m)].inst = i
  <2>1. PICK line : line = lines[k].line
    OBVIOUS
  <2>2. PICK at : at = <<k, m>>
    OBVIOUS
  <2>3. at \in (DOMAIN lines) \X (1 .. Cardinality(Insts)) /\ at[1] = k /\ at[2] = m
    BY <2>2
  <2>4. at \in PrintedAt(lines, i) <=> m \in DOMAIN lines[k].rows /\ lines[k].rows[m].inst = i
    BY <2>3 DEF PrintedAt
  <2> HIDE DEF Of
  <2>5. lines[k].rows = RowsAt(rows, line)
    BY <1>4, <2>1
  <2> QED
    BY <1>5, <2>1, <2>2, <2>4, <2>5
<1>7. ASSUME NEW at \in PrintedAt(lines, i)
      PROVE  \E k \in DOMAIN lines : \E m \in 1 .. Cardinality(Insts) : at = <<k, m>>
  BY DEF PrintedAt
<1>8. ASSUME loc[i] = NoLoc PROVE PrintedAt(lines, i) = {}
  <2> SUFFICES ASSUME NEW at \in PrintedAt(lines, i) PROVE FALSE
    OBVIOUS
  <2>1. PICK k \in DOMAIN lines : \E m \in 1 .. Cardinality(Insts) : at = <<k, m>>
    BY <1>7
  <2>2. PICK m \in 1 .. Cardinality(Insts) : at = <<k, m>>
    BY <2>1
  <2>3. PICK p \in Of(lines[k].line) : rows[p].inst = i
    <3>1. PICK line : line = lines[k].line
      OBVIOUS
    <3> HIDE DEF Of
    <3> QED
      BY <1>5, <1>6, <2>2, <3>1
  <2> QED
    BY <1>3, <1>8, <2>3 DEF RowIs
<1>9. ASSUME loc[i] # NoLoc
      PROVE  \E k \in DOMAIN lines : \E m \in 1 .. Cardinality(Insts) :
                /\ PrintedAt(lines, i) = {<<k, m>>} /\ lines[k].line = loc[i]
                /\ RowIs(lines[k].rows[m], loops, loc)
                /\ lines[k].rows[m].inst = i /\ lines[k].rows[m].loop = n
  <2>1. PICK p \in 1 .. N : rows[p].inst = i /\ rows[p].loop = n
    BY <1>3, <1>9
  <2>2. RowIs(rows[p], loops, loc) /\ rows[p].line = loc[i]
    BY <1>3, <2>1 DEF RowIs
  <2>3. PICK k \in DOMAIN lines : lines[k].line = rows[p].line
    BY <1>4
  <2>4. PICK line : line = lines[k].line
    OBVIOUS
  <2>5. PICK K : K = Of(line)
    OBVIOUS
  <2>6. p \in K
    BY <2>3, <2>4, <2>5
  <2>7. \A q : q \in K <=> q \in 1 .. N /\ rows[q].line = line
    BY <2>5
  <2> HIDE DEF Of
  <2>8. /\ Cardinality(K) \in Nat /\ Cardinality(K) <= Cardinality(Insts)
        /\ \A m \in 1 .. Cardinality(K) : At(K, m) \in K /\ RowsAt(rows, line)[m] = rows[At(K, m)]
        /\ \A q \in K : \E m \in 1 .. Cardinality(K) : At(K, m) = q
        /\ \A l, m \in 1 .. Cardinality(K) : At(K, l) = At(K, m) => l = m
    BY <1>5, <2>5
  <2>9. PICK m \in 1 .. Cardinality(K) : At(K, m) = p
    BY <2>6, <2>8
  <2>10. m \in 1 .. Cardinality(Insts)
    <3>1. Cardinality(Insts) \in Nat
      BY <1>1, FS_CardinalityType
    <3> QED
      BY <2>8, <3>1
  <2>11. lines[k].rows[m] = rows[p]
    BY <1>4, <2>4, <2>8, <2>9
  <2>12. <<k, m>> \in PrintedAt(lines, i)
    BY <1>6, <2>1, <2>4, <2>5, <2>9, <2>10
  <2>13. ASSUME NEW at \in PrintedAt(lines, i) PROVE at = <<k, m>>
    <3>1. PICK k2 \in DOMAIN lines : \E m2 \in 1 .. Cardinality(Insts) : at = <<k2, m2>>
      BY <1>7
    <3>2. PICK m2 \in 1 .. Cardinality(Insts) : at = <<k2, m2>>
      BY <3>1
    <3>3. PICK K2 : K2 = Of(lines[k2].line)
      OBVIOUS
    <3>4. m2 \in 1 .. Cardinality(K2) /\ rows[At(K2, m2)].inst = i
      BY <1>6, <3>2, <3>3
    <3>5. At(K2, m2) \in K2
      BY <1>5, <3>3, <3>4
    <3>6. At(K2, m2) \in 1 .. N /\ rows[At(K2, m2)].line = lines[k2].line
      BY <3>3, <3>5 DEF Of
    <3>7. At(K2, m2) = p
      BY <1>3, <2>1, <3>4, <3>6
    <3>8. k2 = k
      BY <1>4, <2>3, <3>6, <3>7
    <3>9. K2 = K
      BY <2>4, <2>5, <3>3, <3>8
    <3>10. m2 = m
      BY <2>8, <2>9, <3>4, <3>7, <3>9
    <3> QED
      BY <3>2, <3>8, <3>10
  <2>14. PrintedAt(lines, i) = {<<k, m>>}
    BY <2>12, <2>13
  <2> QED
    BY <2>1, <2>2, <2>3, <2>10, <2>11, <2>14
<1> QED
  BY <1>8, <1>9

\* A line that is in one loop only is under its heading.
LEMMA UnderItsLoop ==
  ASSUME F \in Programs, NEW loops, NEW loc, NEW rows, NEW lines,
         Tabled(rows, loops, loc), PrintedLines(lines, rows), OwnLines(loops, loc),
         NEW n \in DOMAIN loops, NEW i \in InstsIn(loops[n]), loc[i] # NoLoc,
         NEW k \in DOMAIN lines, lines[k].line = loc[i]
  PROVE  HeadingOf(lines, k) = n
<1>1. PICK p \in 1 .. Len(rows) : rows[p].line = lines[k].line /\ rows[p].loop = HeadingOf(lines, k)
  BY DEF PrintedLines
<1>2. PICK m : m = rows[p].loop
  OBVIOUS
<1>3. PICK j : j = rows[p].inst
  OBVIOUS
<1>4. m \in DOMAIN loops /\ j \in InstsIn(loops[m]) /\ loc[j] # NoLoc /\ rows[p].line = loc[j]
  BY <1>2, <1>3 DEF Tabled, RowIs
<1>5. loc[i] \in LinesOf(loops[n], loc) /\ loc[i] \in LinesOf(loops[m], loc)
  BY <1>1, <1>4 DEF LinesOf
<1> QED
  BY <1>1, <1>2, <1>4, <1>5 DEF OwnLines

\* Each located instruction of a loop that can be decoupled is printed once, as
\* work or as iter if the loop is left for good, and under the heading of its
\* loop unless two loops share a line (DecoupleLoopsPrinter.cpp:65-130).
THEOREM EachIsPrintedUnderItsLoop == Spec => []PrintedUnderItsLoop
<1>1. ASSUME IInv, pc = "done", NEW loops \in {Decouplable}, NEW loc \in Locations(F),
             NEW lines \in {Report(Rows(loops, loc))},
             NEW n \in DOMAIN loops, NEW i \in InstsIn(loops[n])
      PROVE  /\ Cardinality(PrintedAt(lines, i)) = IF loc[i] = NoLoc THEN 0 ELSE 1
             /\ \A at \in PrintedAt(lines, i) :
                  /\ lines[at[1]].line = loc[i]
                  /\ LeftForGood(loops[n]) =>
                       (lines[at[1]].rows[at[2]].work <=> ~lines[at[1]].rows[at[2]].iter)
                  /\ OwnLines(loops, loc) => HeadingOf(lines, at[1]) = n
  <2>1. F \in Programs
    BY <1>1 DEF IInv
  <2>2. PICK rows : rows = Rows(loops, loc)
    OBVIOUS
  <2>3. Tabled(rows, loops, loc)
    BY <1>1, <2>1, <2>2, RowsIs
  <2>4. loops \in Seq(Loops) /\ loops[n] \in Loops
    BY <1>1, <2>1, DecouplableIs
  <2>5. PrintedLines(lines, rows)
    <3>1. /\ rows = [p \in 1 .. Len(rows) |-> rows[p]] /\ Len(rows) \in Nat
          /\ \A p \in 1 .. Len(rows) : rows[p].loop \in DOMAIN loops
      BY <2>3, Zenon DEF Tabled, RowIs
    <3>2. DOMAIN loops \subseteq Nat \ {0}
      BY <2>4
    <3> QED
      BY <1>1, <2>2, <3>1, <3>2, ReportIs
  <2>6. CASE loc[i] = NoLoc
    <3>1. PrintedAt(lines, i) = {}
      BY <1>1, <2>1, <2>3, <2>5, <2>6, PrintedOnce
    <3>2. Cardinality({}) = 0
      BY FS_EmptySet
    <3> QED
      BY <2>6, <3>1, <3>2
  <2>7. CASE loc[i] # NoLoc
    <3>1. PICK k \in DOMAIN lines : \E m \in 1 .. Cardinality(Insts) :
                /\ PrintedAt(lines, i) = {<<k, m>>} /\ lines[k].line = loc[i]
                /\ RowIs(lines[k].rows[m], loops, loc)
                /\ lines[k].rows[m].inst = i /\ lines[k].rows[m].loop = n
      BY <1>1, <2>1, <2>3, <2>5, <2>7, PrintedOnce
    <3>2. PICK m \in 1 .. Cardinality(Insts) :
                /\ PrintedAt(lines, i) = {<<k, m>>} /\ lines[k].line = loc[i]
                /\ RowIs(lines[k].rows[m], loops, loc)
                /\ lines[k].rows[m].inst = i /\ lines[k].rows[m].loop = n
      BY <3>1
    <3>3. PICK at : at = <<k, m>>
      OBVIOUS
    <3>4. at[1] = k /\ at[2] = m /\ PrintedAt(lines, i) = {at}
      BY <3>2, <3>3
    <3>5. Cardinality(PrintedAt(lines, i)) = 1
      BY <3>4, FS_Singleton
    <3>6. PICK r : r = lines[k].rows[m]
      OBVIOUS
    <3>7. r.work = isWork(i, loops[n]) /\ r.iter = isIter(i, loops[n])
      BY <3>2, <3>6, Zenon DEF RowIs
    <3>8. LeftForGood(loops[n]) => (r.work <=> ~r.iter)
      <4>1. LeftForGood(loops[n]) => (isIter(i, loops[n]) <=> ~isWork(i, loops[n]))
        BY <1>1, <2>4, WorkOrIter
      <4> QED
        BY <3>7, <4>1, Zenon
    <3>9. OwnLines(loops, loc) => HeadingOf(lines, k) = n
      BY <1>1, <2>1, <2>3, <2>5, <2>7, <3>2, UnderItsLoop
    <3> QED
      BY <2>7, <3>2, <3>4, <3>5, <3>6, <3>8, <3>9, Zenon
  <2> QED
    BY <2>6, <2>7
<1>2. IInv => PrintedUnderItsLoop
  BY <1>1, Zenon DEF PrintedUnderItsLoop
<1> QED
  BY <1>2, Inductive, PTL

\* The least and the greatest of some lines, if they have them.
LEMMA LeastIs ==
  ASSUME NEW S \in SUBSET Nat, NEW m \in S, \A x \in S : m <= x
  PROVE  Min(S) = m
<1>1. m \in S /\ \A x \in S : m =< x
  OBVIOUS
<1>2. PICK l : l = Min(S)
  OBVIOUS
<1>3. l \in S /\ \A x \in S : l =< x
  BY <1>1, <1>2 DEF Min
<1> QED
  BY <1>1, <1>2, <1>3

\* The two reports agree: of what is printed under a loop the loop's row has the
\* last line, and one of the lines, the first if the loop is walked from there
\* (DecoupleSourceSplitPrinter.cpp:43-71).
THEOREM TheReportsAgree == Spec => []ReportsAgree
<1>1. ASSUME IInv, pc = "done", NEW loops \in {Decouplable}, NEW loc \in Locations(F),
             OwnLines(loops, loc), NEW lines \in {Report(Rows(loops, loc))}, NEW ranges \in {Ranges(loops, loc)}
      PROVE  /\ {lines[k].heading : k \in DOMAIN lines} \ {0} \subseteq DOMAIN ranges
             /\ \A n \in DOMAIN ranges :
                  /\ ranges[n].lastLine = Max({0} \cup Under(lines, n))
                  /\ IF Under(lines, n) \subseteq {0}
                       THEN ranges[n].firstLine = 0
                       ELSE ranges[n].firstLine \in Under(lines, n) \ {0}
             /\ \A n \in DOMAIN loops :
                  BeginsFirst(LinesIn(Located(loops[n], loc), loc)) =>
                    ranges[n].firstLine = Min(Under(lines, n))
  <2>1. F \in Programs
    BY <1>1 DEF IInv
  <2>2. PICK rows : rows = Rows(loops, loc)
    OBVIOUS
  <2>3. Tabled(rows, loops, loc)
    BY <1>1, <2>1, <2>2, RowsIs
  <2>4. loops \in Seq(Loops) /\ \A n \in DOMAIN loops : loops[n] \in Loops
    BY <1>1, <2>1, DecouplableIs
  <2>5. PrintedLines(lines, rows)
    <3>1. /\ rows = [p \in 1 .. Len(rows) |-> rows[p]] /\ Len(rows) \in Nat
          /\ \A p \in 1 .. Len(rows) : rows[p].loop \in DOMAIN loops
      BY <2>3, Zenon DEF Tabled, RowIs
    <3>2. DOMAIN loops \subseteq Nat \ {0}
      BY <2>4
    <3> QED
      BY <1>1, <2>2, <3>1, <3>2, ReportIs
  <2>6. loc \in [Insts -> Nat \cup {NoLoc}]
    BY <1>1, <2>1, LocationsAssumption DEF Insts
  <2>7. DOMAIN ranges = DOMAIN loops
        /\ \A n \in DOMAIN loops : ranges[n] = LinesFrom(LinesIn(Located(loops[n], loc), loc))
    BY <1>1 DEF Ranges
  <2>8. ASSUME NEW n \in DOMAIN loops
        PROVE  /\ ranges[n].lastLine = Max({0} \cup Under(lines, n))
               /\ IF Under(lines, n) \subseteq {0}
                    THEN ranges[n].firstLine = 0
                    ELSE ranges[n].firstLine \in Under(lines, n) \ {0}
               /\ BeginsFirst(LinesIn(Located(loops[n], loc), loc)) =>
                    ranges[n].firstLine = Min(Under(lines, n))
    <3>1. PICK is : is = Located(loops[n], loc)
      OBVIOUS
    <3>2. is \in Seq(Insts) /\ ToSet(is) = {i \in InstsIn(loops[n]) : loc[i] # NoLoc}
      BY <2>1, <2>4, <3>1, LocatedIs
    <3>3. PICK c \in Nat : c = Len(is)
      BY <3>2
    <3>4. PICK ls : ls = LinesIn(is, loc)
      OBVIOUS
    <3>5. DOMAIN is = 1 .. c /\ \A k \in 1 .. c : is[k] \in ToSet(is)
      BY <3>2, <3>3, MembersOf
    <3>6. ls = [k \in 1 .. c |-> loc[is[k]]]
      BY <3>4, <3>5 DEF LinesIn
    <3>7. \A k \in 1 .. c : ls[k] \in Nat
      BY <2>6, <3>2, <3>5, <3>6
    <3>8. ls \in Seq(Nat) /\ Len(ls) = c
      BY <3>6, <3>7
    <3>9. ToSet(ls) = {ls[k] : k \in 1 .. c} /\ ToSet(ls) \subseteq Nat
      BY <3>6, <3>7 DEF ToSet
    \* Its lines are those under its heading.
    <3>10. \A x \in ToSet(ls) : \E k \in DOMAIN lines : lines[k].line = x /\ HeadingOf(lines, k) = n
      <4> SUFFICES ASSUME NEW j \in 1 .. c
                   PROVE  \E k \in DOMAIN lines : lines[k].line = ls[j] /\ HeadingOf(lines, k) = n
        BY <3>9
      <4>1. is[j] \in InstsIn(loops[n]) /\ loc[is[j]] # NoLoc /\ ls[j] = loc[is[j]]
        BY <3>2, <3>5, <3>6
      <4>2. PICK i \in InstsIn(loops[n]) : i = is[j]
        BY <4>1
      <4>3. \E k \in DOMAIN lines : lines[k].line = loc[i]
        BY <2>1, <2>3, <2>5, <4>1, <4>2, PrintedOnce
      <4> QED
        BY <1>1, <2>1, <2>3, <2>5, <4>1, <4>2, <4>3, UnderItsLoop
    <3>11. ASSUME NEW k \in DOMAIN lines, HeadingOf(lines, k) = n PROVE lines[k].line \in ToSet(ls)
      <4>1. PICK p \in 1 .. Len(rows) : rows[p].line = lines[k].line /\ rows[p].loop = n
        BY <2>5, <3>11 DEF PrintedLines
      <4>2. RowIs(rows[p], loops, loc)
        BY <2>3 DEF Tabled
      <4>3. rows[p].inst \in ToSet(is) /\ rows[p].line = loc[rows[p].inst]
        BY <3>2, <4>1, <4>2 DEF RowIs
      <4>4. PICK j \in 1 .. c : is[j] = rows[p].inst
        BY <3>2, <3>3, <4>3, MembersOf
      <4> QED
        BY <3>6, <3>9, <4>1, <4>3, <4>4
    <3>12. Under(lines, n) = ToSet(ls)
      <4>1. Under(lines, n) \subseteq ToSet(ls)
        BY <3>11 DEF Under
      <4>2. ToSet(ls) \subseteq Under(lines, n)
        BY <3>10 DEF Under
      <4> QED
        BY <4>1, <4>2
    \* Where its row begins: at the first of the lines that are not 0.
    <3>13. PICK K : K = {k \in DOMAIN ls : ls[k] # 0}
      OBVIOUS
    <3>14. PICK numbered : numbered = Picked(ls, K)
      OBVIOUS
    <3>15. /\ K \in SUBSET (1 .. c) /\ DOMAIN ls = 1 .. c
           /\ Cardinality(K) \in Nat /\ \A k \in 1 .. Cardinality(K) : At(K, k) \in K
           /\ \A i \in K : \E k \in 1 .. Cardinality(K) : At(K, k) = i
           /\ \A k, l \in 1 .. Cardinality(K) : k < l => At(K, k) < At(K, l)
      <4>1. K \in SUBSET (1 .. c) /\ DOMAIN ls = 1 .. c
        BY <3>6, <3>13
      <4> QED
        BY <4>1, PlacesInOrder
    <3>16. /\ numbered \in Seq(Nat) /\ Len(numbered) = Cardinality(K)
           /\ Cardinality(K) # 0 => numbered[1] = ls[At(K, 1)]
      <4>1. K \in SUBSET (1 .. Len(ls))
        BY <3>8, <3>15
      <4>2. Cardinality(K) # 0 => 1 \in 1 .. Cardinality(K)
        BY <3>15
      <4> QED
        BY <3>8, <3>14, <4>1, <4>2, PickedIs
    <3>17. ranges[n] = [firstLine |-> IF numbered = <<>> THEN 0 ELSE Head(numbered),
                        lastLine |-> Max({0} \cup Under(lines, n))]
      BY <2>7, <3>1, <3>4, <3>12, <3>13, <3>14 DEF LinesFrom
    <3>18. CASE K = {}
      <4>1. \A k \in 1 .. c : ls[k] = 0
        BY <3>13, <3>15, <3>18
      <4>2. Under(lines, n) \subseteq {0}
        BY <3>9, <3>12, <4>1
      <4>3. numbered = <<>>
        <5>1. Cardinality(K) = 0
          BY <3>18, FS_EmptySet
        <5> QED
          BY <3>16, <5>1
      <4>4. ~BeginsFirst(ls)
        <5>1. ASSUME BeginsFirst(ls) PROVE FALSE
          <6>1. ls # <<>> /\ \A k \in DOMAIN ls : 0 < ls[1]
            BY <5>1 DEF BeginsFirst
          <6>2. 1 \in 1 .. c
            BY <3>8, <6>1
          <6>3. ls[1] = 0
            BY <4>1, <6>2
          <6>4. 0 < ls[1]
            BY <3>15, <6>1, <6>2
          <6> QED
            BY <6>3, <6>4
        <5> QED
          BY <5>1
      <4> QED
        BY <3>1, <3>4, <3>17, <4>2, <4>3, <4>4
    <3>19. CASE K # {}
      <4>1. Cardinality(K) # 0 /\ 1 \in 1 .. Cardinality(K)
        <5>1. PICK i \in K : TRUE
          BY <3>19
        <5>2. PICK k \in 1 .. Cardinality(K) : At(K, k) = i
          BY <3>15, <5>1
        <5> QED
          BY <3>15, <5>2
      <4>2. PICK a \in 1 .. c : a = At(K, 1) /\ a \in K
        BY <3>15, <4>1
      <4>3. numbered # <<>> /\ Head(numbered) = ls[a]
        BY <3>16, <4>1, <4>2
      <4>4. ls[a] # 0 /\ ls[a] \in ToSet(ls)
        BY <3>9, <3>13, <4>2
      <4>5. ~(Under(lines, n) \subseteq {0}) /\ ls[a] \in Under(lines, n) \ {0}
        BY <3>12, <4>4
      <4>6. ASSUME BeginsFirst(ls) PROVE ls[a] = Min(Under(lines, n))
        <5>1. \A k \in 1 .. c : 0 < ls[1] /\ ls[1] <= ls[k]
          BY <3>15, <4>6 DEF BeginsFirst
        <5>2. 1 \in 1 .. c /\ ls[1] # 0
          BY <4>2, <3>7, <5>1
        <5>3. 1 \in K
          BY <3>13, <3>15, <5>2
        <5>4. PICK k \in 1 .. Cardinality(K) : At(K, k) = 1
          BY <3>15, <5>3
        <5>5. ~(1 < k)
          BY <3>15, <4>1, <4>2, <5>4
        <5>6. a = 1
          BY <3>15, <4>2, <5>4, <5>5
        <5>7. ToSet(ls) \in SUBSET Nat /\ ls[1] \in ToSet(ls) /\ \A x \in ToSet(ls) : ls[1] <= x
          BY <3>9, <5>1, <5>2
        <5> QED
          BY <3>12, <5>6, <5>7, LeastIs
      <4> QED
        BY <3>1, <3>4, <3>17, <4>3, <4>5, <4>6
    <3> QED
      BY <3>18, <3>19
  <2>9. {HeadingOf(lines, k) : k \in DOMAIN lines} \subseteq DOMAIN loops
    <3>1. \A p \in 1 .. Len(rows) : rows[p].loop \in DOMAIN loops
      BY <2>3 DEF Tabled, RowIs
    <3> QED
      BY <2>5, <3>1 DEF PrintedLines
  <2>10. {lines[k].heading : k \in DOMAIN lines} \ {0} \subseteq DOMAIN loops
    BY <2>5, <2>9 DEF PrintedLines
  <2> QED
    BY <2>7, <2>8, <2>10
<1>2. IInv => ReportsAgree
  BY <1>1, Zenon DEF ReportsAgree
<1> QED
  BY <1>2, Inductive, PTL

================================================================================
