------------------------------ MODULE CDGProofs ------------------------------
(***************************************************************************)
(* Proofs about the pass CDG, for every finite function whose blocks lead  *)
(* to an exit and every order of a tree node's children: each frontier is  *)
(* the set of blocks that the block is control dependent on, as soon as it *)
(* has been computed, and the graph is the control dependence relation.    *)
(***************************************************************************)
EXTENDS CDG, DepGraphProofs

-------------------------------------------------------------------------------
(* Post-dominators.                                                        *)

HasExits(h) == /\ Graph(h) /\ IsFiniteSet(DOMAIN h)
               /\ \A b \in DOMAIN h : From(h, b) \cap Exits(h) # {}

\* What the paths from a that do not meet b go through.
LEMMA AvoidingPaths ==
  ASSUME NEW h, Graph(h), IsFiniteSet(DOMAIN h), NEW b, NEW a \in DOMAIN h \ {b},
         NEW R, R = From(removeNode(h, b), a)
  PROVE  /\ a \in R /\ R \subseteq DOMAIN h \ {b}
         /\ \A x \in R : h[x] \ {b} \subseteq R
         /\ \A x \in R : From(removeNode(h, b), x) \subseteq R
<1>1. PICK less : less = removeNode(h, b)
  OBVIOUS
<1>2. /\ DOMAIN less = DOMAIN h \ {b} /\ IsFiniteSet(DOMAIN less) /\ Closed(less)
      /\ \A x \in DOMAIN less : less[x] = h[x] \ {b}
  <2>1. IsFiniteSet(DOMAIN less) /\ Closed(less)
    BY <1>1, Without
  <2>2. DOMAIN less = DOMAIN h \ {b} /\ \A x \in DOMAIN less : less[x] = h[x] \ {b}
    BY <1>1 DEF removeNode
  <2> QED
    BY <2>1, <2>2
<1>3. R = From(less, a) /\ a \in DOMAIN less
  BY <1>1, <1>2
<1>4. a \in R /\ R \subseteq DOMAIN less /\ \A x \in R : less[x] \subseteq R
  BY <1>2, <1>3, FromSelf, FromClosed
<1>5. \A x \in R : From(less, x) \subseteq R
  BY <1>2, <1>3, FromOn
<1> QED
  BY <1>1, <1>2, <1>4, <1>5

\* Two blocks do not post-dominate each other.
LEMMA PostDominatesOneWay ==
  ASSUME NEW h, HasExits(h), NEW a \in DOMAIN h, NEW b \in DOMAIN h,
         PostDominates(h, a, b), PostDominates(h, b, a)
  PROVE  a = b
<1> SUFFICES ASSUME a # b PROVE FALSE
  OBVIOUS
<1>1. Graph(h) /\ Closed(h) /\ IsFiniteSet(DOMAIN h) /\ From(h, a) \cap Exits(h) # {}
  BY DEF HasExits, Graph
<1>2. PICK A : A = From(removeNode(h, b), a)
  OBVIOUS
<1>3. PICK B : B = From(removeNode(h, a), b)
  OBVIOUS
<1>4. a \in A /\ \A x \in A : h[x] \ {b} \subseteq A
  BY <1>1, <1>2, AvoidingPaths
<1>5. b \in B /\ \A x \in B : h[x] \ {a} \subseteq B
  BY <1>1, <1>3, AvoidingPaths
<1>6. Exits(h) \cap A = {} /\ Exits(h) \cap B = {}
  BY <1>2, <1>3 DEF PostDominates
<1>7. PICK C : C = A \cup B
  OBVIOUS
<1>8. \A x \in C : h[x] \subseteq C
  BY <1>4, <1>5, <1>7
<1>9. From(h, a) \subseteq C
  BY <1>1, <1>4, <1>7, <1>8, FromLeast
<1> QED
  BY <1>1, <1>6, <1>7, <1>9

\* Of two post-dominators of a block one post-dominates the other.
LEMMA PostDominatorsInLine ==
  ASSUME NEW h, HasExits(h), NEW a \in DOMAIN h, NEW b \in DOMAIN h, NEW c \in DOMAIN h,
         PostDominates(h, b, a), PostDominates(h, c, a)
  PROVE  PostDominates(h, b, c) \/ PostDominates(h, c, b)
<1> SUFFICES ASSUME ~PostDominates(h, b, c), ~PostDominates(h, c, b) PROVE FALSE
  OBVIOUS
<1>1. Graph(h) /\ Closed(h) /\ IsFiniteSet(DOMAIN h) /\ From(h, a) \cap Exits(h) # {}
  BY DEF HasExits, Graph
<1>2. a # b /\ a # c /\ b # c
  BY DEF PostDominates
<1>3. PICK B : B = From(removeNode(h, b), a)
  OBVIOUS
<1>4. PICK C : C = From(removeNode(h, c), a)
  OBVIOUS
<1>5. /\ a \in B /\ \A x \in B : h[x] \ {b} \subseteq B
      /\ \A x \in B : From(removeNode(h, b), x) \subseteq B
  BY <1>1, <1>2, <1>3, AvoidingPaths
<1>6. /\ a \in C /\ \A x \in C : h[x] \ {c} \subseteq C
      /\ \A x \in C : From(removeNode(h, c), x) \subseteq C
  BY <1>1, <1>2, <1>4, AvoidingPaths
<1>7. Exits(h) \cap B = {} /\ Exits(h) \cap C = {}
  BY <1>2, <1>3, <1>4 DEF PostDominates
<1>8. b \notin C
  BY <1>6, <1>7 DEF PostDominates
<1>9. c \notin B
  BY <1>5, <1>7 DEF PostDominates
<1>10. PICK R : R = B \cap C
  OBVIOUS
<1>11. \A x \in R : h[x] \subseteq R
  <2>1. ASSUME NEW x \in R, NEW y \in h[x] PROVE y \in R
    <3>1. y # b
      BY <1>2, <1>6, <1>8, <1>10, <2>1
    <3>2. y # c
      BY <1>2, <1>5, <1>9, <1>10, <2>1
    <3> QED
      BY <1>5, <1>6, <1>10, <2>1, <3>1, <3>2
  <2> QED
    BY <2>1
<1>12. From(h, a) \subseteq R
  BY <1>1, <1>5, <1>6, <1>10, <1>11, FromLeast
<1> QED
  BY <1>1, <1>7, <1>10, <1>12

\* Post-dominators of a block that are not the block post-dominate its successors.
LEMMA PostDominatesNext ==
  ASSUME NEW h, HasExits(h), NEW a \in DOMAIN h, NEW i \in DOMAIN h, i # a,
         PostDominates(h, i, a), NEW s \in h[a]
  PROVE  PostDominates(h, i, s)
<1>1. CASE s = i
  BY <1>1 DEF PostDominates
<1>2. CASE s # i
  <2>1. PICK R : R = From(removeNode(h, i), a)
    OBVIOUS
  <2>2. /\ a \in R /\ h[a] \ {i} \subseteq R
        /\ \A x \in R : From(removeNode(h, i), x) \subseteq R
    BY <2>1, AvoidingPaths DEF HasExits
  <2>3. Exits(h) \cap R = {}
    BY <2>1 DEF PostDominates
  <2> QED
    BY <1>2, <2>2, <2>3 DEF PostDominates
<1> QED
  BY <1>1, <1>2

\* A finite set has a member before which, in an order, none comes.
LEMMA Foremost ==
  ASSUME NEW G, Graph(G), IsFiniteSet(DOMAIN G),
         \A x \in DOMAIN G : x \notin G[x] /\ \A y \in G[x] : G[y] \subseteq G[x],
         NEW S \in SUBSET DOMAIN G, S # {}
  PROVE  \E v \in S : \A u \in S : v \notin G[u]
<1>1. ASSUME NEW u \in S PROVE ~OnCycle(G, u)
  <2>1. ASSUME NEW v \in G[u] PROVE u \notin From(G, v)
    <3>1. v \in DOMAIN G /\ v # u
      BY <2>1 DEF Graph, Closed
    <3>2. PICK C : C = {v} \cup G[v]
      OBVIOUS
    <3>3. \A x \in C : G[x] \subseteq C
      BY <3>1, <3>2
    <3>4. From(G, v) \subseteq C
      BY <3>2, <3>3, FromLeast
    <3> QED
      BY <2>1, <3>1, <3>2, <3>4
  <2> QED
    BY <2>1 DEF OnCycle
<1> QED
  BY <1>1, AcyclicHasSource

\* A set of blocks has one that post-dominates no other of them.
LEMMA Lowest ==
  ASSUME NEW h, HasExits(h), NEW S \in SUBSET DOMAIN h, S # {}
  PROVE  \E v \in S : \A u \in S : PostDominates(h, v, u) => u = v
<1>1. PICK G : G = [x \in DOMAIN h |-> {y \in DOMAIN h \ {x} : PostDominates(h, y, x)}]
  OBVIOUS
<1>2. DOMAIN G = DOMAIN h /\ \A x \in DOMAIN h : G[x] = {y \in DOMAIN h \ {x} : PostDominates(h, y, x)}
  BY <1>1
<1>3. Graph(G) /\ IsFiniteSet(DOMAIN G)
  BY <1>1, <1>2 DEF Graph, Closed, HasExits
<1>4. ASSUME NEW x \in DOMAIN h, NEW y \in G[x], NEW z \in G[y] PROVE z \in G[x]
  <2>1. /\ y \in DOMAIN h /\ z \in DOMAIN h /\ x # y
        /\ PostDominates(h, y, x) /\ PostDominates(h, z, y)
    BY <1>2, <1>4
  <2>2. PostDominates(h, z, x)
    BY <2>1, PostDominatesOn DEF HasExits
  <2>3. z # x
    BY <2>1, PostDominatesOneWay
  <2> QED
    BY <1>2, <2>1, <2>2, <2>3
<1>5. \A x \in DOMAIN G : x \notin G[x] /\ \A y \in G[x] : G[y] \subseteq G[x]
  BY <1>2, <1>4
<1>6. PICK v \in S : \A u \in S : v \notin G[u]
  BY <1>2, <1>3, <1>5, Foremost
<1> QED
  BY <1>2, <1>6

\* A set of blocks has one that no other of them post-dominates.
LEMMA Highest ==
  ASSUME NEW h, HasExits(h), NEW S \in SUBSET DOMAIN h, S # {}
  PROVE  \E v \in S : \A u \in S : PostDominates(h, u, v) => u = v
<1>1. PICK G : G = [x \in DOMAIN h |-> {y \in DOMAIN h \ {x} : PostDominates(h, x, y)}]
  OBVIOUS
<1>2. DOMAIN G = DOMAIN h /\ \A x \in DOMAIN h : G[x] = {y \in DOMAIN h \ {x} : PostDominates(h, x, y)}
  BY <1>1
<1>3. Graph(G) /\ IsFiniteSet(DOMAIN G)
  BY <1>1, <1>2 DEF Graph, Closed, HasExits
<1>4. ASSUME NEW x \in DOMAIN h, NEW y \in G[x], NEW z \in G[y] PROVE z \in G[x]
  <2>1. /\ y \in DOMAIN h /\ z \in DOMAIN h /\ x # y
        /\ PostDominates(h, x, y) /\ PostDominates(h, y, z)
    BY <1>2, <1>4
  <2>2. PostDominates(h, x, z)
    BY <2>1, PostDominatesOn DEF HasExits
  <2>3. z # x
    BY <2>1, PostDominatesOneWay
  <2> QED
    BY <1>2, <2>1, <2>2, <2>3
<1>5. \A x \in DOMAIN G : x \notin G[x] /\ \A y \in G[x] : G[y] \subseteq G[x]
  BY <1>2, <1>4
<1>6. PICK v \in S : \A u \in S : v \notin G[u]
  BY <1>2, <1>3, <1>5, Foremost
<1> QED
  BY <1>2, <1>6

-------------------------------------------------------------------------------
(* The post-dominator tree.                                                *)

\* The parent of a block is its first post-dominator, or the root if it has none.
LEMMA ParentIs ==
  ASSUME NEW h, HasExits(h), NEW top, top \notin DOMAIN h, NEW a \in DOMAIN h,
         NEW i, i = IPostDom(h, top)[a]
  PROVE  \/ i = top /\ StrictPostDominators(h, a) = {}
         \/ /\ i \in DOMAIN h /\ i # a /\ PostDominates(h, i, a)
            /\ \A c \in DOMAIN h \ {a} : PostDominates(h, c, a) => PostDominates(h, c, i)
<1>1. PICK above : above = StrictPostDominators(h, a)
  OBVIOUS
<1>2. i = IF above = {} THEN top ELSE CHOOSE b \in above : \A c \in above : PostDominates(h, c, b)
  BY <1>1 DEF IPostDom
<1>3. above = {c \in DOMAIN h \ {a} : PostDominates(h, c, a)}
  BY <1>1 DEF StrictPostDominators
<1>4. CASE above = {}
  BY <1>1, <1>2, <1>4
<1>5. CASE above # {}
  <2>1. PICK v \in above : \A u \in above : PostDominates(h, v, u) => u = v
    BY <1>3, <1>5, Lowest
  <2>2. ASSUME NEW c \in above PROVE PostDominates(h, c, v)
    <3>1. PostDominates(h, v, c) \/ PostDominates(h, c, v)
      BY <1>3, PostDominatorsInLine
    <3>2. PostDominates(h, v, v)
      BY DEF PostDominates
    <3> QED
      BY <2>1, <3>1, <3>2
  <2>3. i \in above /\ \A c \in above : PostDominates(h, c, i)
    BY <1>2, <1>5, <2>2
  <2> QED
    BY <1>3, <2>3
<1> QED
  BY <1>4, <1>5

\* Where the parent of a block lies when b is above the block, but not its parent.
LEMMA BelowTheParent ==
  ASSUME NEW h, HasExits(h), NEW top, top \notin DOMAIN h, NEW a \in DOMAIN h, NEW b \in DOMAIN h \ {a},
         PostDominates(h, b, a), NEW i, i = IPostDom(h, top)[a], i # b
  PROVE  /\ i \in DOMAIN h /\ i # a /\ PostDominates(h, i, a) /\ PostDominates(h, b, i)
         /\ ~PostDominates(h, i, b)
         /\ \A s \in h[a] : PostDominates(h, i, s)
<1>1. StrictPostDominators(h, a) # {}
  BY DEF StrictPostDominators
<1>2. i \in DOMAIN h /\ i # a /\ PostDominates(h, i, a) /\ PostDominates(h, b, i)
  BY <1>1, ParentIs
<1>3. \A s \in h[a] : PostDominates(h, i, s)
  BY <1>2, PostDominatesNext
<1>4. ~PostDominates(h, i, b)
  BY <1>2, PostDominatesOneWay
<1> QED
  BY <1>2, <1>3, <1>4

\* What a turn of the loop puts in the frontier of b is in it: the predecessors
\* that b does not immediately post-dominate.
LEMMA NearIsRight ==
  ASSUME NEW h, HasExits(h), NEW top, top \notin DOMAIN h, NEW a \in DOMAIN h, NEW b \in DOMAIN h,
         b \in h[a], IPostDom(h, top)[a] # b
  PROVE  ControlDependent(h, a, b)
<1>1. PostDominates(h, b, b)
  BY DEF PostDominates
<1>2. PICK i : i = IPostDom(h, top)[a]
  OBVIOUS
<1>3. ASSUME b # a, PostDominates(h, b, a) PROVE FALSE
  BY <1>2, <1>3, BelowTheParent
<1> QED
  BY <1>1, <1>3 DEF ControlDependent, StrictPostDominators

\* And what it takes over from a child of b.
LEMMA BelowIsRight ==
  ASSUME NEW h, HasExits(h), NEW top, top \notin DOMAIN h, NEW a \in DOMAIN h, NEW b \in DOMAIN h,
         NEW z \in DOMAIN h, IPostDom(h, top)[z] = b, ControlDependent(h, a, z),
         IPostDom(h, top)[a] # b
  PROVE  ControlDependent(h, a, b)
<1>1. PICK s \in h[a] : PostDominates(h, z, s)
  BY DEF ControlDependent
<1>2. s \in DOMAIN h /\ Graph(h) /\ IsFiniteSet(DOMAIN h)
  BY DEF HasExits, Graph, Closed
<1>3. z = a \/ ~PostDominates(h, z, a)
  BY DEF ControlDependent, StrictPostDominators
<1>4. /\ b # z /\ PostDominates(h, b, z)
      /\ \A c \in DOMAIN h \ {z} : PostDominates(h, c, z) => PostDominates(h, c, b)
  BY ParentIs
<1>5. PostDominates(h, b, s)
  BY <1>1, <1>2, <1>4, PostDominatesOn
<1>6. ASSUME b # a, PostDominates(h, b, a) PROVE FALSE
  <2>1. PICK i : i = IPostDom(h, top)[a]
    OBVIOUS
  <2>2. /\ i \in DOMAIN h /\ i # a /\ PostDominates(h, i, a) /\ ~PostDominates(h, i, b)
        /\ PostDominates(h, i, s)
    BY <1>1, <1>6, <2>1, BelowTheParent
  <2>3. PostDominates(h, i, z) \/ PostDominates(h, z, i)
    BY <1>1, <1>2, <2>2, PostDominatorsInLine
  <2>4. CASE PostDominates(h, i, z)
    <3>1. i = z
      BY <1>4, <2>2, <2>4
    <3> QED
      BY <1>3, <2>2, <3>1
  <2>5. CASE PostDominates(h, z, i)
    <3>1. PostDominates(h, z, a)
      BY <1>2, <2>2, <2>5, PostDominatesOn
    <3>2. z = a
      BY <1>3, <3>1
    <3> QED
      BY <2>2, <2>5, <3>2, PostDominatesOneWay
  <2> QED
    BY <2>3, <2>4, <2>5
<1> QED
  BY <1>1, <1>5, <1>6 DEF ControlDependent, StrictPostDominators

\* What is in the frontier of b is a predecessor or in the frontier of a child.
LEMMA NothingIsMissed ==
  ASSUME NEW h, HasExits(h), NEW top, top \notin DOMAIN h, NEW a \in DOMAIN h, NEW b \in DOMAIN h,
         ControlDependent(h, a, b)
  PROVE  /\ IPostDom(h, top)[a] # b
         /\ \/ b \in h[a]
            \/ \E z \in DOMAIN h : IPostDom(h, top)[z] = b /\ ControlDependent(h, a, z)
<1>1. PICK s \in h[a] : PostDominates(h, b, s)
  BY DEF ControlDependent
<1>2. s \in DOMAIN h /\ Graph(h) /\ IsFiniteSet(DOMAIN h)
  BY DEF HasExits, Graph, Closed
<1>3. b = a \/ ~PostDominates(h, b, a)
  BY DEF ControlDependent, StrictPostDominators
<1>4. IPostDom(h, top)[a] # b
  BY <1>3, ParentIs
<1>5. ASSUME b # s
      PROVE  \E z \in DOMAIN h : IPostDom(h, top)[z] = b /\ ControlDependent(h, a, z)
  <2>1. PICK Z : Z = {z \in DOMAIN h \ {b} : PostDominates(h, z, s) /\ PostDominates(h, b, z)}
    OBVIOUS
  <2>2. s \in Z
    BY <1>1, <1>2, <1>5, <2>1 DEF PostDominates
  <2>3. PICK z \in Z : \A u \in Z : PostDominates(h, u, z) => u = z
    BY <2>1, <2>2, Highest
  <2>4. /\ z \in DOMAIN h /\ z # b /\ PostDominates(h, z, s) /\ PostDominates(h, b, z)
    BY <2>1, <2>3
  <2>5. PICK i : i = IPostDom(h, top)[z]
    OBVIOUS
  <2>6. i = b
    <3> SUFFICES ASSUME i # b PROVE FALSE
      OBVIOUS
    <3>1. /\ i \in DOMAIN h /\ i # z /\ PostDominates(h, i, z) /\ PostDominates(h, b, i)
      BY <2>4, <2>5, BelowTheParent
    <3>2. PostDominates(h, i, s)
      BY <1>2, <2>4, <3>1, PostDominatesOn
    <3> QED
      BY <2>1, <2>3, <3>1, <3>2
  <2>7. z = a \/ ~PostDominates(h, z, a)
    <3> SUFFICES ASSUME z # a, PostDominates(h, z, a) PROVE FALSE
      OBVIOUS
    <3>1. PostDominates(h, b, a)
      BY <1>2, <2>4, PostDominatesOn
    <3>2. b = a
      BY <1>3, <3>1
    <3> QED
      BY <2>4, <3>2, PostDominatesOneWay
  <2>8. ControlDependent(h, a, z)
    BY <1>1, <2>4, <2>7 DEF ControlDependent, StrictPostDominators
  <2> QED
    BY <2>4, <2>5, <2>6, <2>8
<1> QED
  BY <1>1, <1>4, <1>5

\* The rule by which the pass finds a frontier, given those of the children.
LEMMA FrontierRule ==
  ASSUME NEW h, HasExits(h), NEW top, top \notin DOMAIN h, NEW b \in DOMAIN h,
         NEW below, \A a : a \in below <=>
             \E z \in DOMAIN h : /\ IPostDom(h, top)[z] = b
                                 /\ a \in DOMAIN h /\ ControlDependent(h, a, z)
  PROVE  {a \in Preds(h, b) \cup below : IPostDom(h, top)[a] # b}
            = {a \in DOMAIN h : ControlDependent(h, a, b)}
<1>1. \A a \in Preds(h, b) : a \in DOMAIN h /\ b \in h[a]
  BY DEF Preds
<1>2. \A a \in DOMAIN h : b \in h[a] => a \in Preds(h, b)
  BY DEF Preds
<1>3. ASSUME NEW a \in Preds(h, b) \cup below, IPostDom(h, top)[a] # b
      PROVE  a \in DOMAIN h /\ ControlDependent(h, a, b)
  BY <1>1, <1>3, NearIsRight, BelowIsRight
<1>4. ASSUME NEW a \in DOMAIN h, ControlDependent(h, a, b)
      PROVE  a \in Preds(h, b) \cup below /\ IPostDom(h, top)[a] # b
  BY <1>2, <1>4, NothingIsMissed
<1> QED
  BY <1>3, <1>4

-------------------------------------------------------------------------------
(* The inductive invariant.                                                *)


\* No block stands before its parent in the tree.
ChildrenFirst(up, s) == \A k, l \in 1 .. Len(s) : k <= l => up[s[l]] # s[k]

TypeOK == /\ pc \in {"traverse", "frontier", "reverse", "done"}
          /\ cfg \in CFGs
          /\ idom = IPostDom(cfg, Null)
          /\ parents \in Seq(DOMAIN cfg \cup {Null})
          /\ bottom_up_traversal \in Seq(DOMAIN cfg)

Found == ToSet(bottom_up_traversal) \cup ToSet(parents)

\* The nodes whose children have been put on the stack of the search.
Opened == ToSet(bottom_up_traversal) \cup ({Null} \ ToSet(parents))

\* The search has found the children of the nodes it has opened, and no other node.
Traversing ==
    /\ Once(parents) /\ ToSet(parents) \cap ToSet(bottom_up_traversal) = {}
    /\ \A x \in Opened : Children(x) \subseteq Found
    /\ \A b \in Found \ {Null} : idom[b] \in Opened

\* Blocks that are still to be visited have no frontier yet, the others theirs.
Computing ==
    /\ post_dom_frontier = [b \in DOMAIN post_dom_frontier |-> post_dom_frontier[b]]
    /\ DOMAIN post_dom_frontier \subseteq DOMAIN cfg
    /\ Ready \subseteq DOMAIN post_dom_frontier
    /\ \A b \in ToSet(bottom_up_traversal) : Slot(post_dom_frontier, b) = {}
    /\ FrontiersAreRight

IInv == /\ TypeOK
        /\ Once(bottom_up_traversal) /\ ChildrenFirst(idom, bottom_up_traversal)
        /\ pc = "traverse" => Traversing /\ post_dom_frontier = <<>>
        /\ pc # "traverse" => Computing
        /\ pc \in {"reverse", "done"} => bottom_up_traversal = <<>>
        /\ IsControlDependence

-------------------------------------------------------------------------------
(* The order of the traversal.                                             *)

\* A block goes in front of blocks none of which is its child.
LEMMA ChildrenFirstJoined ==
  ASSUME NEW S, NEW s \in Seq(S), NEW x \in S, NEW up, ChildrenFirst(up, s),
         up[x] # x, \A y \in ToSet(s) : up[y] # x
  PROVE  ChildrenFirst(up, <<x>> \o s)
<1>1. PICK n \in Nat : n = Len(s)
  OBVIOUS
<1>2. PICK t : t = <<x>> \o s
  OBVIOUS
<1>3. /\ Len(t) = n + 1 /\ t[1] = x
      /\ \A i \in 1 .. n + 1 : i = 1 \/ (i - 1 \in 1 .. n /\ t[i] = s[i - 1])
  BY <1>1, <1>2
<1> SUFFICES ASSUME NEW k \in 1 .. n + 1, NEW l \in 1 .. n + 1, k <= l PROVE up[t[l]] # t[k]
  BY <1>2, <1>3 DEF ChildrenFirst
<1>4. CASE k = 1 /\ l = 1
  BY <1>3, <1>4
<1>5. CASE k = 1 /\ l # 1
  <2>1. t[l] \in ToSet(s)
    BY <1>1, <1>3, <1>5, MembersOf
  <2> QED
    BY <1>3, <1>5, <2>1
<1>6. CASE k # 1
  <2>1. k - 1 \in 1 .. n /\ l - 1 \in 1 .. n /\ k - 1 <= l - 1 /\ t[k] = s[k - 1] /\ t[l] = s[l - 1]
    BY <1>1, <1>3, <1>6
  <2> QED
    BY <1>1, <2>1 DEF ChildrenFirst
<1> QED
  BY <1>4, <1>5, <1>6

\* The first block has no children among the blocks.
LEMMA ChildrenFirstRest ==
  ASSUME NEW S, NEW s \in Seq(S), s # <<>>, NEW up, ChildrenFirst(up, s)
  PROVE  /\ ChildrenFirst(up, Tail(s))
         /\ \A y \in ToSet(s) : up[y] # Head(s)
<1>1. PICK n \in Nat : n + 1 = Len(s)
  OBVIOUS
<1>2. PICK t : t = Tail(s)
  OBVIOUS
<1>3. /\ Len(t) = n /\ Head(s) = s[1] /\ 1 \in 1 .. n + 1
      /\ \A i \in 1 .. n : t[i] = s[i + 1] /\ i + 1 \in 1 .. n + 1
  BY <1>1, <1>2
<1>4. \A k, l \in 1 .. n + 1 : k <= l => up[s[l]] # s[k]
  BY <1>1 DEF ChildrenFirst
<1>5. ASSUME NEW k \in 1 .. n, NEW l \in 1 .. n, k <= l PROVE up[t[l]] # t[k]
  <2>1. k + 1 \in 1 .. n + 1 /\ l + 1 \in 1 .. n + 1 /\ k + 1 <= l + 1
    BY <1>1, <1>3, <1>5
  <2>2. up[s[l + 1]] # s[k + 1]
    BY <1>4, <2>1
  <2> QED
    BY <1>3, <2>2
<1>6. ASSUME NEW l \in 1 .. n + 1 PROVE up[s[l]] # Head(s)
  <2>1. 1 <= l
    BY <1>6
  <2> QED
    BY <1>3, <1>4, <1>6, <2>1
<1>7. ChildrenFirst(up, t)
  BY <1>3, <1>5 DEF ChildrenFirst
<1> QED
  BY <1>1, <1>2, <1>6, <1>7, MembersOf

-------------------------------------------------------------------------------
(* The search.                                                             *)

LEMMA CFGFacts ==
  ASSUME cfg \in CFGs
  PROVE  HasExits(cfg) /\ Null \notin DOMAIN cfg /\ IsFiniteSet(DOMAIN cfg) /\ Graph(cfg)
<1>1. /\ IsFiniteSet(DOMAIN cfg) /\ cfg \in [DOMAIN cfg -> SUBSET DOMAIN cfg]
      /\ Null \notin DOMAIN cfg
      /\ \A b \in DOMAIN cfg : From(cfg, b) \cap Exits(cfg) # {}
  BY CFGsAssumption
<1>2. Graph(cfg)
  BY <1>1 DEF Graph, Closed
<1> QED
  BY <1>1, <1>2 DEF HasExits

\* A returning block has no strict post-dominator; if there is no other such
\* block, it is the only one without.
LEMMA RootIs ==
  ASSUME NEW h, HasExits(h), NEW top, top \notin DOMAIN h
  PROVE  \/ RootNode(h, top) = top
         \/ \E e \in DOMAIN h : /\ RootNode(h, top) = e
                                /\ \A a \in DOMAIN h : IPostDom(h, top)[a] = top <=> a = e
<1> SUFFICES ASSUME NEW e \in DOMAIN h, Exits(h) = {e}, NEW a \in DOMAIN h
             PROVE  RootNode(h, top) = e /\ (IPostDom(h, top)[a] = top <=> a = e)
  <2>1. CASE \E e \in DOMAIN h : Exits(h) = {e}
    <3>1. PICK e \in DOMAIN h : Exits(h) = {e}
      BY <2>1
    <3>2. \A a \in DOMAIN h : RootNode(h, top) = e /\ (IPostDom(h, top)[a] = top <=> a = e)
      BY <3>1
    <3> QED
      BY <3>1, <3>2
  <2>2. CASE ~\E e \in DOMAIN h : Exits(h) = {e}
    BY <2>2 DEF RootNode
  <2> QED
    BY <2>1, <2>2
<1>1. Graph(h) /\ IsFiniteSet(DOMAIN h) /\ From(h, a) \cap Exits(h) # {}
  BY DEF HasExits
<1>2. RootNode(h, top) = e
  <2>1. (CHOOSE x \in DOMAIN h : h[x] = {}) = e
    <3>1. \A x \in DOMAIN h : h[x] = {} <=> x = e
      BY DEF Exits
    <3> QED
      BY <3>1
  <2> QED
    BY <2>1 DEF RootNode
<1>3. CASE a = e
  <2>1. ASSUME NEW c \in DOMAIN h \ {e}, PostDominates(h, c, e) PROVE FALSE
    <3>1. PICK R : R = From(removeNode(h, c), e)
      OBVIOUS
    <3>2. e \in R
      BY <1>1, <2>1, <3>1, AvoidingPaths
    <3> QED
      BY <2>1, <3>1, <3>2 DEF PostDominates
  <2>2. PICK i : i = IPostDom(h, top)[e]
    OBVIOUS
  <2>3. i = top
    BY <2>1, <2>2, ParentIs
  <2> QED
    BY <1>2, <1>3, <2>2, <2>3
<1>4. CASE a # e
  <2>1. PICK R : R = From(removeNode(h, e), a)
    OBVIOUS
  <2>2. R \subseteq DOMAIN h \ {e}
    BY <1>1, <1>4, <2>1, AvoidingPaths
  <2>3. PostDominates(h, e, a)
    BY <2>1, <2>2 DEF PostDominates
  <2>4. StrictPostDominators(h, a) # {}
    BY <1>4, <2>3 DEF StrictPostDominators
  <2>5. PICK i : i = IPostDom(h, top)[a]
    OBVIOUS
  <2>6. i # top
    BY <2>4, <2>5, ParentIs
  <2> QED
    BY <1>2, <1>4, <2>5, <2>6
<1> QED
  BY <1>3, <1>4

LEMMA InitInv == Init => IInv
<1> SUFFICES ASSUME Init PROVE IInv
  OBVIOUS
<1>1. /\ pc = "traverse" /\ cfg \in CFGs /\ idom = IPostDom(cfg, Null)
      /\ parents = <<RootNode(cfg, Null)>> /\ bottom_up_traversal = <<>>
      /\ post_dom_frontier = <<>>
  BY DEF Init
<1>2. HasExits(cfg) /\ Null \notin DOMAIN cfg
  BY <1>1, CFGFacts
<1>3. PICK r : r = RootNode(cfg, Null)
  OBVIOUS
<1>4. \/ r = Null
      \/ r \in DOMAIN cfg /\ \A a \in DOMAIN cfg : idom[a] = Null <=> a = r
  BY <1>1, <1>2, <1>3, RootIs
<1>5. /\ parents \in Seq(DOMAIN cfg \cup {Null}) /\ Once(parents) /\ ToSet(parents) = {r}
      /\ bottom_up_traversal \in Seq(DOMAIN cfg) /\ Once(bottom_up_traversal)
      /\ ToSet(bottom_up_traversal) = {}
  <2>1. r \in DOMAIN cfg \cup {Null}
    BY <1>4
  <2> QED
    BY <1>1, <1>3, <2>1, OneIsOnce, EmptyIsOnce
<1>6. TypeOK
  BY <1>1, <1>5 DEF TypeOK
<1>7. ChildrenFirst(idom, bottom_up_traversal)
  BY <1>1 DEF ChildrenFirst
<1>8. Traversing
  <2>1. Found = {r} /\ Opened = {Null} \ {r}
    BY <1>5 DEF Found, Opened
  <2>2. \A x \in Opened : Children(x) \subseteq Found
    BY <1>4, <2>1 DEF Children
  <2>3. \A b \in Found \ {Null} : idom[b] \in Opened
    BY <1>2, <1>4, <2>1
  <2> QED
    BY <1>5, <2>2, <2>3 DEF Traversing
<1> QED
  BY <1>1, <1>5, <1>6, <1>7, <1>8 DEF IInv, IsControlDependence

\* The search goes on with the children of a node.
LEMMA TraverseStep == IInv /\ Traverse => IInv'
<1> SUFFICES ASSUME IInv, Traverse PROVE IInv'
  OBVIOUS
<1>1. /\ pc = "traverse" /\ parents # <<>> /\ pc' = pc /\ cfg' = cfg /\ idom' = idom
      /\ post_dom_frontier' = post_dom_frontier
  BY DEF Traverse
<1>2. /\ TypeOK /\ cfg \in CFGs /\ idom = IPostDom(cfg, Null)
      /\ parents \in Seq(DOMAIN cfg \cup {Null}) /\ bottom_up_traversal \in Seq(DOMAIN cfg)
      /\ Once(bottom_up_traversal) /\ ChildrenFirst(idom, bottom_up_traversal)
      /\ Traversing /\ post_dom_frontier = <<>>
  BY <1>1 DEF IInv, TypeOK
<1>3. HasExits(cfg) /\ Null \notin DOMAIN cfg /\ IsFiniteSet(DOMAIN cfg)
  BY <1>2, CFGFacts
<1>4. /\ Once(parents) /\ ToSet(parents) \cap ToSet(bottom_up_traversal) = {}
      /\ \A x \in Opened : Children(x) \subseteq Found
      /\ \A b \in Found \ {Null} : idom[b] \in Opened
  BY <1>2 DEF Traversing
<1>5. PICK current : current = Head(parents)
  OBVIOUS
<1>6. PICK pushed \in SetToSeqs(Children(current)) : parents' = pushed \o Tail(parents)
  BY <1>5 DEF Traverse
<1>7. bottom_up_traversal' =
        (IF current = Null THEN <<>> ELSE <<current>>) \o bottom_up_traversal
  BY <1>5 DEF Traverse
<1>8. PICK rest : rest = Tail(parents)
  OBVIOUS
<1>9. /\ rest \in Seq(DOMAIN cfg \cup {Null}) /\ Once(rest)
      /\ current \in ToSet(parents) /\ ToSet(rest) = ToSet(parents) \ {current}
  BY <1>1, <1>2, <1>4, <1>5, <1>8, RestOnce
<1>10. /\ ToSet(parents) \subseteq DOMAIN cfg \cup {Null}
       /\ ToSet(bottom_up_traversal) \subseteq DOMAIN cfg
  BY <1>2, MembersOf
<1>11. /\ current \in DOMAIN cfg \cup {Null} /\ current \in Found
       /\ current \notin Opened /\ current \notin ToSet(bottom_up_traversal)
  BY <1>3, <1>4, <1>9, <1>10 DEF Opened, Found
<1>12. /\ Children(current) \subseteq DOMAIN cfg
       /\ \A b \in DOMAIN cfg : b \in Children(current) <=> idom[b] = current
       /\ Children(current) \cap Found = {}
  BY <1>3, <1>4, <1>11 DEF Children
<1>13. /\ pushed \in Seq(DOMAIN cfg \cup {Null}) /\ Once(pushed) /\ ToSet(pushed) = Children(current)
  <2>1. IsFiniteSet(Children(current))
    BY <1>3, <1>12, FS_Subset
  <2>2. pushed \in Seq(Children(current)) /\ Once(pushed) /\ ToSet(pushed) = Children(current)
    BY <1>6, <2>1, Enumerations
  <2>3. pushed \in Seq(DOMAIN cfg \cup {Null})
    BY <1>12, <2>2
  <2> QED
    BY <2>2, <2>3
<1>14. /\ parents' \in Seq(DOMAIN cfg \cup {Null}) /\ Once(parents')
       /\ ToSet(parents') = Children(current) \cup (ToSet(parents) \ {current})
  <2>1. ToSet(pushed) \cap ToSet(rest) = {}
    BY <1>9, <1>12, <1>13 DEF Found
  <2>2. /\ pushed \o rest \in Seq(DOMAIN cfg \cup {Null}) /\ Once(pushed \o rest)
        /\ ToSet(pushed \o rest) = ToSet(pushed) \cup ToSet(rest)
    BY <1>9, <1>13, <2>1, JoinedOnce
  <2>3. parents' = pushed \o rest
    BY <1>6, <1>8
  <2> QED
    BY <1>9, <1>13, <2>2, <2>3
<1>15. /\ bottom_up_traversal' \in Seq(DOMAIN cfg) /\ Once(bottom_up_traversal')
       /\ ToSet(bottom_up_traversal') = ({current} \ {Null}) \cup ToSet(bottom_up_traversal)
       /\ ChildrenFirst(idom, bottom_up_traversal')
  <2>1. CASE current = Null
    <3>1. bottom_up_traversal' = bottom_up_traversal
      BY <1>2, <1>7, <2>1
    <3> QED
      BY <1>2, <2>1, <3>1
  <2>2. CASE current # Null
    <3>1. bottom_up_traversal' = <<current>> \o bottom_up_traversal /\ current \in DOMAIN cfg
      BY <1>7, <1>11, <2>2
    <3>2. <<current>> \in Seq(DOMAIN cfg) /\ Once(<<current>>) /\ ToSet(<<current>>) = {current}
      BY <3>1, OneIsOnce
    <3>3. \A y \in ToSet(bottom_up_traversal) : idom[y] # current
      BY <1>3, <1>4, <1>10, <1>11 DEF Found
    <3>4. idom[current] # current
      BY <1>2, <1>3, <2>2, <3>1, ParentIs
    <3>5. ChildrenFirst(idom, bottom_up_traversal')
      BY <1>2, <3>1, <3>3, <3>4, ChildrenFirstJoined
    <3>6. /\ bottom_up_traversal' \in Seq(DOMAIN cfg) /\ Once(bottom_up_traversal')
          /\ ToSet(bottom_up_traversal') = {current} \cup ToSet(bottom_up_traversal)
      <4>1. PICK one : one = <<current>>
        OBVIOUS
      <4>2. ToSet(one) \cap ToSet(bottom_up_traversal) = {}
        BY <1>11, <3>2, <4>1
      <4>3. one \in Seq(DOMAIN cfg) /\ Once(one) /\ ToSet(one) = {current}
        BY <3>2, <4>1
      <4>4. PICK up : up = bottom_up_traversal
        OBVIOUS
      <4>5. one \o up \in Seq(DOMAIN cfg) /\ Once(one \o up) /\ ToSet(one \o up) = ToSet(one) \cup ToSet(up)
        BY <1>2, <4>2, <4>3, <4>4, JoinedOnce
      <4>6. bottom_up_traversal' = one \o up
        BY <3>1, <4>1, <4>4
      <4> QED
        BY <4>3, <4>4, <4>5, <4>6
    <3> QED
      BY <2>2, <3>5, <3>6
  <2> QED
    BY <2>1, <2>2
<1>16. Found' \ {Null} = (Found \cup Children(current)) \ {Null} /\ Opened' = Opened \cup {current}
  <2>1. Found' = ToSet(bottom_up_traversal') \cup ToSet(parents')
    BY DEF Found
  <2>2. Opened' = ToSet(bottom_up_traversal') \cup ({Null} \ ToSet(parents'))
    BY DEF Opened
  <2>3. Null \notin Children(current)
    BY <1>3, <1>12
  <2>4. Found' \ {Null} = (Found \cup Children(current)) \ {Null}
    BY <1>9, <1>14, <1>15, <2>1 DEF Found
  <2>5. Opened' = Opened \cup {current}
    BY <1>9, <1>14, <1>15, <2>2, <2>3 DEF Opened
  <2> QED
    BY <2>4, <2>5
<1>17. Traversing'
  <2>1. ToSet(parents') \cap ToSet(bottom_up_traversal') = {}
    BY <1>4, <1>11, <1>12, <1>14, <1>15 DEF Found
  <2>2. \A x : Children(x)' = Children(x)
    BY <1>1 DEF Children
  <2>3. \A x \in Opened' : Children(x)' \subseteq Found'
    <3>1. \A x : Null \notin Children(x)
      BY <1>3 DEF Children
    <3> QED
      BY <1>4, <1>16, <2>2, <3>1
  <2>4. \A b \in Found' \ {Null} : idom'[b] \in Opened'
    BY <1>1, <1>4, <1>12, <1>16
  <2> QED
    BY <1>14, <2>1, <2>3, <2>4 DEF Traversing
<1>18. TypeOK'
  BY <1>1, <1>2, <1>14, <1>15 DEF TypeOK
<1> QED
  BY <1>1, <1>2, <1>15, <1>17, <1>18 DEF IInv, IsControlDependence

\* The search ends when it has listed every block: the highest one that it has
\* not listed has a parent that it has opened.
LEMMA TraversedStep == IInv /\ Traversed => IInv'
<1> SUFFICES ASSUME IInv, Traversed PROVE IInv'
  OBVIOUS
<1>1. /\ pc = "traverse" /\ pc' = "frontier" /\ parents = <<>>
      /\ cfg' = cfg /\ idom' = idom /\ parents' = parents
      /\ bottom_up_traversal' = bottom_up_traversal /\ post_dom_frontier' = post_dom_frontier
  BY DEF Traversed
<1>2. /\ TypeOK /\ cfg \in CFGs /\ idom = IPostDom(cfg, Null)
      /\ bottom_up_traversal \in Seq(DOMAIN cfg)
      /\ Once(bottom_up_traversal) /\ ChildrenFirst(idom, bottom_up_traversal)
      /\ Traversing /\ post_dom_frontier = <<>>
  BY <1>1 DEF IInv, TypeOK
<1>3. HasExits(cfg) /\ Null \notin DOMAIN cfg
  BY <1>2, CFGFacts
<1>4. PICK listed : listed = ToSet(bottom_up_traversal)
  OBVIOUS
<1>5. ToSet(parents) = {} /\ listed \subseteq DOMAIN cfg
  BY <1>1, <1>2, <1>4, EmptyIsOnce, MembersOf
<1>6. Found = listed /\ Opened = listed \cup {Null}
  BY <1>4, <1>5 DEF Found, Opened
<1>7. \A x \in listed \cup {Null} : \A b \in DOMAIN cfg : idom[b] = x => b \in listed
  BY <1>2, <1>6 DEF Traversing, Children
<1>8. DOMAIN cfg \subseteq listed
  <2> SUFFICES ASSUME DOMAIN cfg \ listed # {} PROVE FALSE
    OBVIOUS
  <2>1. PICK U : U = DOMAIN cfg \ listed
    OBVIOUS
  <2>2. PICK v \in U : \A u \in U : PostDominates(cfg, u, v) => u = v
    BY <1>3, <2>1, Highest
  <2>3. PICK i : i = idom[v]
    OBVIOUS
  <2>4. i = Null \/ (i \in DOMAIN cfg /\ i # v /\ PostDominates(cfg, i, v))
    BY <1>2, <1>3, <2>1, <2>2, <2>3, ParentIs
  <2>5. i \in listed \cup {Null}
    BY <2>1, <2>2, <2>4
  <2> QED
    BY <1>7, <2>1, <2>2, <2>3, <2>5
<1>9. Ready' = {}
  BY <1>1, <1>4, <1>5, <1>8 DEF Ready
<1>10. DOMAIN <<>> = {}
  OBVIOUS
<1>11. Computing'
  <2>1. DOMAIN post_dom_frontier' = {}
    BY <1>1, <1>2, <1>10
  <2>2. post_dom_frontier' = [b \in DOMAIN post_dom_frontier' |-> post_dom_frontier'[b]]
    BY <1>1, <1>2
  <2>3. \A b : Slot(post_dom_frontier', b) = {}
    BY <2>1 DEF Slot
  <2>4. FrontiersAreRight'
    BY <1>9 DEF FrontiersAreRight
  <2> QED
    BY <1>9, <2>1, <2>2, <2>3, <2>4 DEF Computing
<1>12. TypeOK'
  BY <1>1, <1>2 DEF TypeOK
<1> QED
  BY <1>1, <1>2, <1>11, <1>12 DEF IInv, IsControlDependence

-------------------------------------------------------------------------------
(* The frontiers.                                                          *)

\* A turn of the loop gives the block its frontier, and no other block another one.
LEMMA FrontierStep == IInv /\ Frontier => IInv'
<1> SUFFICES ASSUME IInv, Frontier PROVE IInv'
  OBVIOUS
<1>1. /\ pc = "frontier" /\ bottom_up_traversal # <<>> /\ pc' = pc /\ cfg' = cfg /\ idom' = idom
      /\ parents' = parents /\ bottom_up_traversal' = Tail(bottom_up_traversal)
  BY DEF Frontier
<1>2. /\ TypeOK /\ cfg \in CFGs /\ idom = IPostDom(cfg, Null)
      /\ bottom_up_traversal \in Seq(DOMAIN cfg)
      /\ Once(bottom_up_traversal) /\ ChildrenFirst(idom, bottom_up_traversal)
      /\ Computing
  BY <1>1 DEF IInv, TypeOK
<1>3. HasExits(cfg) /\ Null \notin DOMAIN cfg
  BY <1>2, CFGFacts
<1>4. PICK current : current = Head(bottom_up_traversal)
  OBVIOUS
<1>5. PICK listed : listed = ToSet(bottom_up_traversal)
  OBVIOUS
<1>6. /\ bottom_up_traversal' \in Seq(DOMAIN cfg) /\ Once(bottom_up_traversal')
      /\ current \in listed /\ ToSet(bottom_up_traversal') = listed \ {current}
  BY <1>1, <1>2, <1>4, <1>5, RestOnce
<1>7. /\ ChildrenFirst(idom, bottom_up_traversal')
      /\ \A y \in listed : idom[y] # current
  BY <1>1, <1>2, <1>4, <1>5, ChildrenFirstRest
<1>8. listed \subseteq DOMAIN cfg
  BY <1>2, <1>5, MembersOf
<1>9. PICK below : below = UNION {Slot(post_dom_frontier, z) : z \in Children(current)}
  OBVIOUS
<1>10. PICK keys : keys = DOMAIN post_dom_frontier \cup {current} \cup Children(current)
  OBVIOUS
<1>11. post_dom_frontier' =
         [b \in keys |-> Slot(post_dom_frontier, b) \cup
            IF b = current THEN {a \in Preds(cfg, current) \cup below : idom[a] # current} ELSE {}]
  BY <1>4, <1>9, <1>10 DEF Frontier
<1>12. Ready = DOMAIN cfg \ listed /\ Ready' = Ready \cup {current}
  BY <1>1, <1>5, <1>6, <1>8 DEF Ready
<1>13. \A b \in Ready : /\ b \in DOMAIN post_dom_frontier
                        /\ Slot(post_dom_frontier, b) = {a \in DOMAIN cfg : ControlDependent(cfg, a, b)}
  BY <1>2 DEF Computing, FrontiersAreRight, Slot
<1>14. /\ Children(current) \subseteq Ready
       /\ \A z : z \in Children(current) <=> z \in DOMAIN cfg /\ idom[z] = current
  BY <1>7, <1>12 DEF Children
<1>15. \A a : a \in below <=> \E z \in DOMAIN cfg : /\ idom[z] = current
                                                   /\ a \in DOMAIN cfg /\ ControlDependent(cfg, a, z)
  <2>1. \A a : a \in below <=> \E z \in Children(current) : a \in Slot(post_dom_frontier, z)
    BY <1>9
  <2>2. \A z \in Children(current) : Slot(post_dom_frontier, z) = {a \in DOMAIN cfg : ControlDependent(cfg, a, z)}
    BY <1>13, <1>14
  <2>3. \A a : a \in below <=> \E z \in Children(current) : a \in DOMAIN cfg /\ ControlDependent(cfg, a, z)
    BY <2>1, <2>2
  <2> QED
    BY <1>14, <2>3
<1>16. {a \in Preds(cfg, current) \cup below : idom[a] # current}
         = {a \in DOMAIN cfg : ControlDependent(cfg, a, current)}
  <2>1. current \in DOMAIN cfg
    BY <1>6, <1>8
  <2>2. \A a : a \in below <=> \E z \in DOMAIN cfg : /\ IPostDom(cfg, Null)[z] = current
                                                     /\ a \in DOMAIN cfg /\ ControlDependent(cfg, a, z)
    BY <1>2, <1>15
  <2>3. {a \in Preds(cfg, current) \cup below : IPostDom(cfg, Null)[a] # current}
          = {a \in DOMAIN cfg : ControlDependent(cfg, a, current)}
    BY <1>3, <2>1, <2>2, FrontierRule
  <2> QED
    BY <1>2, <2>3
<1>17. /\ DOMAIN post_dom_frontier' = keys
       /\ post_dom_frontier'[current] = {a \in DOMAIN cfg : ControlDependent(cfg, a, current)}
       /\ \A b \in keys \ {current} : post_dom_frontier'[b] = Slot(post_dom_frontier, b)
  <2>1. Slot(post_dom_frontier, current) = {}
    BY <1>2, <1>5, <1>6 DEF Computing
  <2> QED
    BY <1>10, <1>11, <1>16, <2>1
<1>18. keys \subseteq DOMAIN cfg /\ DOMAIN post_dom_frontier \subseteq keys /\ current \in keys
  BY <1>2, <1>6, <1>8, <1>10, <1>14 DEF Computing
<1>19. Ready' \subseteq keys
  BY <1>12, <1>13, <1>18
<1>20. FrontiersAreRight'
  <2> SUFFICES ASSUME NEW b \in Ready'
               PROVE  post_dom_frontier'[b] = {a \in DOMAIN cfg : ControlDependent(cfg, a, b)}
    BY <1>1 DEF FrontiersAreRight
  <2>1. CASE b = current
    BY <1>17, <2>1
  <2>2. CASE b # current
    BY <1>12, <1>13, <1>17, <1>19, <2>2
  <2> QED
    BY <2>1, <2>2
<1>21. \A b \in ToSet(bottom_up_traversal') : Slot(post_dom_frontier', b) = {}
  <2> SUFFICES ASSUME NEW b \in listed \ {current} PROVE Slot(post_dom_frontier', b) = {}
    BY <1>6
  <2>1. Slot(post_dom_frontier, b) = {}
    BY <1>2, <1>5 DEF Computing
  <2> QED
    BY <1>17, <2>1 DEF Slot
<1>22. post_dom_frontier' = [b \in DOMAIN post_dom_frontier' |-> post_dom_frontier'[b]]
  BY <1>11
<1>23. Computing'
  BY <1>1, <1>17, <1>18, <1>19, <1>20, <1>21, <1>22 DEF Computing
<1>24. TypeOK'
  BY <1>1, <1>2, <1>6 DEF TypeOK
<1> QED
  BY <1>1, <1>2, <1>6, <1>7, <1>23, <1>24 DEF IInv, IsControlDependence

LEMMA FrontierDoneStep == IInv /\ FrontierDone => IInv'
<1> SUFFICES ASSUME IInv, FrontierDone PROVE IInv'
  OBVIOUS
<1>1. /\ pc = "frontier" /\ pc' = "reverse" /\ bottom_up_traversal = <<>>
      /\ cfg' = cfg /\ idom' = idom /\ parents' = parents
      /\ bottom_up_traversal' = bottom_up_traversal /\ post_dom_frontier' = post_dom_frontier
  BY DEF FrontierDone
<1>2. TypeOK' /\ Computing'
  <2>1. TypeOK /\ Computing
    BY <1>1 DEF IInv
  <2>2. Ready' = Ready
    BY <1>1 DEF Ready
  <2> QED
    BY <1>1, <2>1, <2>2 DEF TypeOK, Computing, FrontiersAreRight
<1> QED
  BY <1>1, <1>2 DEF IInv, IsControlDependence

\* Every block has its frontier when the map is reversed.
LEMMA StoreReversedStep == IInv /\ StoreReversed => IInv'
<1> SUFFICES ASSUME IInv, StoreReversed PROVE IInv'
  OBVIOUS
<1>1. /\ pc = "reverse" /\ pc' = "done" /\ graph' = transpose(post_dom_frontier)
      /\ cfg' = cfg /\ idom' = idom /\ parents' = parents
      /\ bottom_up_traversal' = bottom_up_traversal /\ post_dom_frontier' = post_dom_frontier
  BY DEF StoreReversed
<1>2. TypeOK /\ Computing /\ bottom_up_traversal = <<>>
  BY <1>1 DEF IInv
<1>3. TypeOK' /\ Computing'
  <2>1. Ready' = Ready
    BY <1>1 DEF Ready
  <2> QED
    BY <1>1, <1>2, <2>1 DEF TypeOK, Computing, FrontiersAreRight
<1>4. Ready = DOMAIN cfg
  BY <1>1, <1>2, EmptyIsOnce DEF Ready
<1>5. PICK F : F = post_dom_frontier
  OBVIOUS
<1>6. /\ DOMAIN F = DOMAIN cfg /\ F = [b \in DOMAIN F |-> F[b]]
      /\ \A b \in DOMAIN F : F[b] = {a \in DOMAIN cfg : ControlDependent(cfg, a, b)}
  BY <1>2, <1>4, <1>5 DEF Computing, FrontiersAreRight
<1>7. Graph(F)
  BY <1>6 DEF Graph, Closed
<1>8. DOMAIN transpose(F) = DOMAIN cfg
  BY <1>6, <1>7, TransposeDomain
<1>9. \A a \in DOMAIN cfg : transpose(F)[a] = {b \in DOMAIN cfg : ControlDependent(cfg, a, b)}
  BY <1>6, <1>7, TransposeSlot
<1>10. transpose(F) = [a \in DOMAIN transpose(F) |-> transpose(F)[a]]
  BY DEF transpose
<1>11. graph' = ControlDependences(cfg)
  BY <1>1, <1>5, <1>8, <1>9, <1>10 DEF ControlDependences
<1>12. IsControlDependence'
  BY <1>1, <1>11 DEF IsControlDependence
<1> QED
  BY <1>1, <1>2, <1>3, <1>12 DEF IInv

LEMMA NextInv == IInv /\ [Next]_vars => IInv'
<1> SUFFICES ASSUME IInv, [Next]_vars PROVE IInv'
  OBVIOUS
<1>1. CASE UNCHANGED vars
  <2>1. Ready' = Ready /\ Found' = Found /\ Opened' = Opened /\ \A x : Children(x)' = Children(x)
    BY <1>1 DEF vars, Ready, Found, Opened, Children
  <2>2. TypeOK' = TypeOK /\ Traversing' = Traversing /\ Computing' = Computing
    BY <1>1, <2>1 DEF vars, TypeOK, Traversing, Computing, FrontiersAreRight
  <2> QED
    BY <1>1, <2>2 DEF vars, IInv, IsControlDependence
<1> QED
  BY <1>1, TraverseStep, TraversedStep, FrontierStep, FrontierDoneStep, StoreReversedStep DEF Next

\* The frontiers of all blocks that stand before a block in the order, and with
\* them those of its children in the tree, are there when its turn comes.
THEOREM Inductive == Spec => []IInv
<1> QED
  BY InitInv, NextInv, PTL DEF Spec

\* The frontier of a block (CDG.cpp:69-102) is, from its turn of the loop on, the
\* set of blocks that the block is control dependent on.
THEOREM FrontiersAsSoonAsVisited == Spec => []FrontiersAreRight
<1>1. IInv => FrontiersAreRight
  <2>1. CASE pc = "traverse"
    BY <2>1 DEF FrontiersAreRight, Ready
  <2>2. CASE pc # "traverse"
    BY <2>2 DEF IInv, Computing
  <2> QED
    BY <2>1, <2>2
<1> QED
  BY <1>1, Inductive, PTL

\* What the pass hands to PDG (CDG.cpp:115-125) is the control dependence relation of
\* the function, whatever order the children of the tree's nodes come in.
THEOREM FindsControlDependence == Spec => []IsControlDependence
<1>1. IInv => IsControlDependence
  BY DEF IInv
<1> QED
  BY <1>1, Inductive, PTL

===============================================================================
