--------------------------- MODULE GraphUtilsProofs ----------------------------
(***************************************************************************)
(* Proofs about the two algorithms of GraphUtils.h, for every finite graph *)
(* and every order of addresses.                                           *)
(*                                                                         *)
(* findSCC (module Kosaraju): the first traversal lists every node once, a *)
(* component that others depend on first, and the second one finds the     *)
(* components.  The invariant is IInv.                                     *)
(*                                                                         *)
(* topsort (modules TopSort and SourceReport): the order it returns is     *)
(* topological, no node is in it twice, and the nodes it leaves out are    *)
(* those a cycle leads to; and the report made of it can be read back.     *)
(* The invariant is SortInv.                                               *)
(***************************************************************************)
EXTENDS Kosaraju, SourceReport, DepGraphProofs

CallsOn(D) == [node : D, rest : SUBSET D]
Calls == CallsOn(DOMAIN g)

TypeOK == /\ pc \in {"enumerate", "assign", "done"}
          /\ g \in Graphs /\ transposedG = transpose(g)
          /\ todo \subseteq DOMAIN g /\ visited \subseteq DOMAIN g
          /\ postOrder \in Seq(DOMAIN g)
          /\ stack \in Seq(Calls)
          /\ next \in Nat \ {0}
          /\ component \in [DOMAIN g -> DOMAIN g \cup {Null}]

-------------------------------------------------------------------------------
(* The stack of calls, in either traversal.                                *)

Begun(u, h, s) == Call(u, h) \o s
Moved(s, c) == [s EXCEPT ![1].rest = @ \ {c}]

NodesOf(s) == {s[i].node : i \in 1 .. Len(s)}

\* A node has one call at a time.
OneCall(s) == \A i, j \in 1 .. Len(s) : s[i].node = s[j].node => i = j

\* Inner calls are reached from outer ones.
Nested(h, s) == \A i, j \in 1 .. Len(s) : i <= j => s[i].node \in From(h, s[j].node)

\* What a call has not to visit any more has been seen.
Behind(h, s, seen) ==
    \A i \in 1 .. Len(s) : s[i].rest \subseteq h[s[i].node] /\ h[s[i].node] \ s[i].rest \subseteq seen

\* Sequences grow and shrink at the front.
LEMMA InFront ==
  ASSUME NEW S, NEW s \in Seq(S), NEW r \in S, NEW n \in Nat, n = Len(s)
  PROVE  /\ <<r>> \o s \in Seq(S) /\ Len(<<r>> \o s) = n + 1 /\ (<<r>> \o s)[1] = r
         /\ \A i \in 1 .. n : (<<r>> \o s)[i + 1] = s[i]
         /\ \A i \in 1 .. n + 1 : i = 1 \/ (i - 1 \in 1 .. n /\ (<<r>> \o s)[i] = s[i - 1])
         /\ \A i \in 1 .. n : s[i] \in S
OBVIOUS

LEMMA WithoutFront ==
  ASSUME NEW S, NEW s \in Seq(S), NEW n \in Nat, n + 1 = Len(s)
  PROVE  /\ Tail(s) \in Seq(S) /\ Len(Tail(s)) = n
         /\ \A i \in 1 .. n : Tail(s)[i] = s[i + 1] /\ i + 1 \in 1 .. n + 1
         /\ Head(s) = s[1] /\ s[1] \in S /\ 1 \in 1 .. n + 1
OBVIOUS

LEMMA Elements ==
  ASSUME NEW S, NEW s \in Seq(S)
  PROVE  Len(s) \in Nat /\ DOMAIN s = 1 .. Len(s) /\ \A i \in 1 .. Len(s) : s[i] \in S
OBVIOUS

\* A call that begins.
LEMMA CallBegins ==
  ASSUME NEW D, NEW h, DOMAIN h = D, Graph(h), IsFiniteSet(D),
         NEW s \in Seq(CallsOn(D)), NEW u \in D, NEW seen, NEW t, t = Begun(u, h, s)
  PROVE  /\ t \in Seq(CallsOn(D)) /\ t # <<>>
         /\ NodesOf(t) = {u} \cup NodesOf(s)
         /\ u \notin NodesOf(s) /\ OneCall(s) => OneCall(t)
         /\ Nested(h, s) /\ (s = <<>> \/ u \in h[s[1].node]) => Nested(h, t)
         /\ Behind(h, s, seen) => Behind(h, t, seen)
<1>1. PICK r : r = [node |-> u, rest |-> h[u]]
  OBVIOUS
<1>2. t = <<r>> \o s
  BY <1>1 DEF Begun, Call, getDependants
<1>3. r \in CallsOn(D) /\ r.node = u /\ r.rest = h[u]
  BY <1>1 DEF CallsOn, Graph, Closed
<1>4. PICK n \in Nat : n = Len(s)
  OBVIOUS
<1>5. /\ t \in Seq(CallsOn(D)) /\ Len(t) = n + 1 /\ t[1] = r
      /\ \A i \in 1 .. n : t[i + 1] = s[i]
      /\ \A i \in 1 .. n + 1 : i = 1 \/ (i - 1 \in 1 .. n /\ t[i] = s[i - 1])
      /\ \A i \in 1 .. n : s[i] \in CallsOn(D)
  BY <1>2, <1>3, <1>4
<1>6. NodesOf(t) = {u} \cup NodesOf(s)
  <2>1. NodesOf(t) \subseteq {u} \cup NodesOf(s)
    BY <1>3, <1>4, <1>5 DEF NodesOf
  <2>2. u \in NodesOf(t)
    BY <1>3, <1>4, <1>5 DEF NodesOf
  <2>3. ASSUME NEW i \in 1 .. n PROVE s[i].node \in NodesOf(t)
    <3>1. i + 1 \in 1 .. n + 1 /\ t[i + 1] = s[i]
      BY <1>5
    <3> QED
      BY <1>5, <3>1 DEF NodesOf
  <2>4. NodesOf(s) \subseteq NodesOf(t)
    BY <1>4, <2>3 DEF NodesOf
  <2> QED
    BY <2>1, <2>2, <2>4
<1>7. ASSUME u \notin NodesOf(s), OneCall(s) PROVE OneCall(t)
  <2>1. \A i \in 1 .. n : s[i].node # u
    BY <1>4, <1>7 DEF NodesOf
  <2>2. ASSUME NEW i \in 1 .. n + 1, NEW j \in 1 .. n + 1, t[i].node = t[j].node PROVE i = j
    <3>1. CASE i = 1 \/ j = 1
      BY <1>3, <1>5, <2>1, <2>2, <3>1
    <3>2. CASE i # 1 /\ j # 1
      <4>1. i - 1 \in 1 .. n /\ j - 1 \in 1 .. n /\ s[i - 1].node = s[j - 1].node
        BY <1>5, <2>2, <3>2
      <4>2. i - 1 = j - 1
        BY <1>4, <1>7, <4>1 DEF OneCall
      <4> QED
        BY <4>2
    <3> QED
      BY <3>1, <3>2
  <2> QED
    BY <1>5, <2>2 DEF OneCall
<1>8. ASSUME Nested(h, s), s = <<>> \/ u \in h[s[1].node] PROVE Nested(h, t)
  <2>0. Closed(h)
    BY DEF Graph
  <2>1. ASSUME NEW j \in 1 .. n PROVE u \in From(h, s[j].node)
    <3>1. s[1].node \in From(h, s[j].node) /\ u \in h[s[1].node]
      BY <1>4, <1>8, <2>1 DEF Nested
    <3>2. s[j].node \in DOMAIN h
      BY <1>5 DEF CallsOn
    <3> QED
      BY <2>0, <3>1, <3>2, FromClosed
  <2>2. ASSUME NEW i \in 1 .. n + 1, NEW j \in 1 .. n + 1, i <= j PROVE t[i].node \in From(h, t[j].node)
    <3>1. CASE j = 1
      BY <1>3, <1>5, <2>2, <3>1, FromSelf
    <3>2. CASE i = 1 /\ j # 1
      BY <1>3, <1>5, <2>1, <3>2
    <3>3. CASE i # 1 /\ j # 1
      <4>1. i - 1 \in 1 .. n /\ j - 1 \in 1 .. n /\ i - 1 <= j - 1
        BY <1>5, <2>2, <3>3
      <4>2. s[i - 1].node \in From(h, s[j - 1].node)
        BY <1>4, <1>8, <4>1 DEF Nested
      <4> QED
        BY <1>5, <3>3, <4>2
    <3> QED
      BY <3>1, <3>2, <3>3
  <2> QED
    BY <1>5, <2>2 DEF Nested
<1>9. ASSUME Behind(h, s, seen) PROVE Behind(h, t, seen)
  <2>1. ASSUME NEW i \in 1 .. n + 1
        PROVE  t[i].rest \subseteq h[t[i].node] /\ h[t[i].node] \ t[i].rest \subseteq seen
    <3>1. CASE i = 1
      BY <1>3, <1>5, <3>1
    <3>2. CASE i # 1
      BY <1>4, <1>5, <1>9, <3>2 DEF Behind
    <3> QED
      BY <3>1, <3>2
  <2> QED
    BY <1>5, <2>1 DEF Behind
<1>10. t # <<>>
  BY <1>4, <1>5
<1> QED
  BY <1>5, <1>6, <1>7, <1>8, <1>9, <1>10

\* A call that goes on to its next dependant.
LEMMA CallAdvances ==
  ASSUME NEW D, NEW s \in Seq(CallsOn(D)), s # <<>>,
         NEW c \in s[1].rest, NEW t, t = Moved(s, c)
  PROVE  /\ t \in Seq(CallsOn(D))
         /\ Len(t) = Len(s) /\ t # <<>> /\ t[1].node = s[1].node
         /\ NodesOf(t) = NodesOf(s)
         /\ OneCall(s) => OneCall(t)
         /\ \A h : Nested(h, s) => Nested(h, t)
         /\ \A h, seen : Behind(h, s, seen) => Behind(h, t, seen \cup {c})
<1>2. /\ Len(s) \in Nat /\ 1 \in 1 .. Len(s) /\ DOMAIN s = 1 .. Len(s)
      /\ \A i \in 1 .. Len(s) : s[i] \in CallsOn(D)
  OBVIOUS
<1>3. /\ t[1] = [s[1] EXCEPT !.rest = s[1].rest \ {c}]
      /\ \A i \in 1 .. Len(s) : i # 1 => t[i] = s[i]
      /\ DOMAIN t = 1 .. Len(s)
  BY <1>2 DEF Moved
<1>4. /\ t[1].node = s[1].node /\ t[1].rest = s[1].rest \ {c} /\ t[1] \in CallsOn(D)
  BY <1>2, <1>3 DEF CallsOn
<1>5. \A i \in 1 .. Len(s) : t[i].node = s[i].node /\ t[i] \in CallsOn(D)
  BY <1>2, <1>3, <1>4
<1>6. t \in Seq(CallsOn(D)) /\ Len(t) = Len(s)
  <2>1. PICK S : S = CallsOn(D)
    OBVIOUS
  <2>2. t = [i \in 1 .. Len(s) |-> t[i]]
    BY <1>2 DEF Moved
  <2>3. t \in [1 .. Len(s) -> S]
    BY <1>5, <2>1, <2>2
  <2> QED
    BY <1>2, <2>1, <2>3
<1>7. NodesOf(t) = NodesOf(s) /\ (OneCall(s) => OneCall(t))
  BY <1>5, <1>6 DEF NodesOf, OneCall
<1>8. ASSUME NEW h, Nested(h, s) PROVE Nested(h, t)
  BY <1>5, <1>6, <1>8 DEF Nested
<1>9. ASSUME NEW h, NEW seen, Behind(h, s, seen) PROVE Behind(h, t, seen \cup {c})
  <2>1. t[1].rest \subseteq h[t[1].node] /\ h[t[1].node] \ t[1].rest \subseteq seen \cup {c}
    BY <1>2, <1>4, <1>9 DEF Behind
  <2>2. ASSUME NEW i \in 1 .. Len(s), i # 1
        PROVE  t[i].rest \subseteq h[t[i].node] /\ h[t[i].node] \ t[i].rest \subseteq seen \cup {c}
    BY <1>3, <1>9, <2>2 DEF Behind
  <2> QED
    BY <1>6, <2>1, <2>2 DEF Behind
<1>10. t # <<>>
  BY <1>2, <1>6
<1> QED
  BY <1>4, <1>6, <1>7, <1>8, <1>9, <1>10

\* A call that returns.
LEMMA CallReturns ==
  ASSUME NEW D, NEW h, NEW s \in Seq(CallsOn(D)), s # <<>>, NEW seen, NEW t, t = Tail(s)
  PROVE  /\ t \in Seq(CallsOn(D))
         /\ NodesOf(s) = {s[1].node} \cup NodesOf(t)
         /\ OneCall(s) => OneCall(t) /\ s[1].node \notin NodesOf(t)
         /\ Nested(h, s) => Nested(h, t) /\ \A u \in NodesOf(s) : s[1].node \in From(h, u)
         /\ Behind(h, s, seen) => Behind(h, t, seen)
         /\ Head(s) = s[1] /\ s[1].node \in D
<1>2. PICK n \in Nat : n + 1 = Len(s)
  <2>1. Len(s) - 1 \in Nat /\ (Len(s) - 1) + 1 = Len(s)
    OBVIOUS
  <2> QED
    BY <2>1
<1>3. /\ t \in Seq(CallsOn(D)) /\ Len(t) = n
      /\ \A i \in 1 .. n : t[i] = s[i + 1] /\ i + 1 \in 1 .. n + 1
      /\ Head(s) = s[1] /\ s[1] \in CallsOn(D) /\ 1 \in 1 .. n + 1
  BY <1>2, WithoutFront
<1>4. NodesOf(s) = {s[1].node} \cup NodesOf(t)
  <2>1. NodesOf(t) \subseteq NodesOf(s) /\ s[1].node \in NodesOf(s)
    BY <1>2, <1>3 DEF NodesOf
  <2>2. ASSUME NEW i \in 1 .. n + 1, i # 1 PROVE s[i].node \in NodesOf(t)
    <3>1. i - 1 \in 1 .. n /\ (i - 1) + 1 = i
      BY <2>2
    <3>2. t[i - 1] = s[i]
      BY <1>3, <3>1
    <3> QED
      BY <1>3, <3>1, <3>2 DEF NodesOf
  <2> QED
    BY <1>2, <2>1, <2>2 DEF NodesOf
<1>5. ASSUME OneCall(s) PROVE OneCall(t) /\ s[1].node \notin NodesOf(t)
  <2>1. ASSUME NEW i \in 1 .. n, NEW j \in 1 .. n, t[i].node = t[j].node PROVE i = j
    <3>1. s[i + 1].node = s[j + 1].node /\ i + 1 \in 1 .. Len(s) /\ j + 1 \in 1 .. Len(s)
      BY <1>2, <1>3, <2>1
    <3>2. i + 1 = j + 1
      BY <1>5, <3>1 DEF OneCall
    <3> QED
      BY <3>2
  <2>2. ASSUME NEW i \in 1 .. n, t[i].node = s[1].node PROVE FALSE
    <3>1. i + 1 = 1
      BY <1>2, <1>3, <1>5, <2>2 DEF OneCall
    <3> QED
      BY <3>1
  <2> QED
    BY <1>3, <2>1, <2>2 DEF OneCall, NodesOf
<1>6. ASSUME Nested(h, s) PROVE Nested(h, t) /\ \A u \in NodesOf(s) : s[1].node \in From(h, u)
  <2>1. ASSUME NEW i \in 1 .. n, NEW j \in 1 .. n, i <= j PROVE t[i].node \in From(h, t[j].node)
    <3>1. i + 1 <= j + 1
      BY <2>1
    <3> QED
      BY <1>2, <1>3, <1>6, <3>1 DEF Nested
  <2> QED
    BY <1>2, <1>3, <1>6, <2>1 DEF Nested, NodesOf
<1>7. ASSUME Behind(h, s, seen) PROVE Behind(h, t, seen)
  BY <1>2, <1>3, <1>7 DEF Behind
<1> QED
  BY <1>3, <1>4, <1>5, <1>6, <1>7 DEF CallsOn

-------------------------------------------------------------------------------
(* The first traversal.                                                    *)

FromPlace(s, i) == {s[j] : j \in i .. Len(s)}
BeforePlace(s, i) == {s[j] : j \in 1 .. i - 1}

ListedOnce == \A i, j \in 1 .. Len(postOrder) : postOrder[i] = postOrder[j] => i = j

\* All that a listed node leads to was left before it, unless a node of its own
\* component is left after it, or waits to be.
LeadsOrFollows(waiting) ==
    \A i \in 1 .. Len(postOrder) :
        \/ From(g, postOrder[i]) \subseteq FromPlace(postOrder, i)
        \/ SCC(g, postOrder[i]) \cap (BeforePlace(postOrder, i) \cup waiting) # {}

\* What has been visited is on the stack or listed; listed nodes have no
\* dependant that has not been visited.
Enumerating == /\ visited = NodesOf(stack) \cup Listed /\ NodesOf(stack) \cap Listed = {}
               /\ OneCall(stack) /\ Nested(g, stack) /\ Behind(g, stack, visited)
               /\ \A u \in Listed : g[u] \subseteq visited
               /\ DOMAIN g \ todo \subseteq visited
               /\ next = 1 /\ component = [u \in DOMAIN g |-> Null]
               /\ LeadsOrFollows(NodesOf(stack))

Enumerated == Listed = DOMAIN g /\ LeadsOrFollows({})

ListInv == /\ TypeOK /\ ListedOnce
           /\ pc = "enumerate" => Enumerating
           /\ pc # "enumerate" => Enumerated

LEMMA Given ==
  ASSUME NEW h \in Graphs
  PROVE  /\ Graph(h) /\ Closed(h) /\ IsFiniteSet(DOMAIN h) /\ DOMAIN h \subseteq Nat /\ Null \notin DOMAIN h
         /\ DOMAIN transpose(h) = DOMAIN h /\ Graph(transpose(h)) /\ Closed(transpose(h))
         /\ \A x \in DOMAIN h : transpose(h)[x] = {u \in DOMAIN h : x \in h[u]}
<1>1. Graph(h) /\ IsFiniteSet(DOMAIN h) /\ DOMAIN h \subseteq Nat /\ Null \notin DOMAIN h
  BY GraphsAssumption, NullAssumption DEF Graph, Closed
<1>2. DOMAIN transpose(h) = DOMAIN h /\ Graph(transpose(h))
  BY <1>1, TransposeGraph
<1>3. \A x \in DOMAIN h : transpose(h)[x] = {u \in DOMAIN h : x \in h[u]}
  BY <1>1, TransposeSlot
<1> QED
  BY <1>1, <1>2, <1>3 DEF Graph

LEMMA MinIs ==
  ASSUME NEW S \in SUBSET Nat, S # {}
  PROVE  Min(S) \in S /\ \A n \in S : Min(S) <= n
<1>1. PICK m \in S : \A n \in S : m <= n
  BY LeastNat
<1> QED
  BY <1>1 DEF Min

\* The call postOrderEnumerate(u), from the call on top of s or from findSCC.
LEMMA EnumerateStep ==
  ASSUME TypeOK, NEW u \in DOMAIN g, NEW s \in Seq(Calls),
         NodesOf(s) \subseteq visited, OneCall(s), Nested(g, s), Behind(g, s, visited \cup {u}),
         s = <<>> \/ u \in g[s[1].node], Enumerate(u, s)
  PROVE  /\ stack' \in Seq(Calls) /\ visited' = visited \cup {u}
         /\ NodesOf(stack') = NodesOf(s) \cup (visited' \ visited)
         /\ OneCall(stack') /\ Nested(g, stack') /\ Behind(g, stack', visited')
<1>1. Graph(g) /\ IsFiniteSet(DOMAIN g)
  BY Given DEF TypeOK
<1>2. CASE u \in visited
  <2>1. stack' = s /\ visited' = visited /\ visited \cup {u} = visited
    BY <1>2 DEF Enumerate
  <2> QED
    BY <2>1
<1>3. CASE u \notin visited
  <2>1. stack' = Begun(u, g, s) /\ visited' = visited \cup {u}
    BY <1>3 DEF Enumerate, Begun
  <2>2. u \notin NodesOf(s)
    BY <1>3
  <2>3. /\ stack' \in Seq(Calls)
        /\ NodesOf(stack') = {u} \cup NodesOf(s)
        /\ OneCall(stack') /\ Nested(g, stack') /\ Behind(g, stack', visited \cup {u})
    BY <1>1, <2>1, <2>2, CallBegins DEF Calls
  <2> QED
    BY <1>3, <2>1, <2>3
<1> QED
  BY <1>2, <1>3

\* What is left unchanged by a visit.
LEMMA VisitKeeps ==
  ASSUME TypeOK, TypeOK', ListedOnce, Enumerating, pc = "enumerate", UNCHANGED <<pc, g, postOrder, next, component>>,
         visited \subseteq visited', DOMAIN g \ todo' \subseteq visited',
         NodesOf(stack') = NodesOf(stack) \cup (visited' \ visited),
         OneCall(stack'), Nested(g, stack'), Behind(g, stack', visited')
  PROVE  ListInv'
<1>1. Listed' = Listed /\ ListedOnce'
  BY DEF Listed, ListedOnce
<1>2. LeadsOrFollows(NodesOf(stack))'
  <2>1. ASSUME NEW i \in 1 .. Len(postOrder)
        PROVE  \/ From(g, postOrder[i]) \subseteq FromPlace(postOrder, i)
               \/ SCC(g, postOrder[i]) \cap (BeforePlace(postOrder, i) \cup NodesOf(stack')) # {}
    BY DEF Enumerating, LeadsOrFollows
  <2> QED
    BY <2>1 DEF LeadsOrFollows
<1>3. Enumerating'
  BY <1>1, <1>2 DEF Enumerating
<1> QED
  BY <1>1, <1>3 DEF ListInv

LEMMA StartStep == ListInv /\ Start => ListInv'
<1> SUFFICES ASSUME ListInv, Start PROVE ListInv'
  OBVIOUS
<1>1. TypeOK /\ ListedOnce /\ Enumerating /\ pc = "enumerate" /\ stack = <<>>
  BY DEF ListInv, Start
<1>2. Min(todo) \in todo /\ todo \subseteq DOMAIN g
  BY <1>1, Given, MinIs DEF TypeOK, Start
<1>3. PICK u \in DOMAIN g : u = Min(todo)
  BY <1>2
<1>4. /\ Enumerate(u, <<>>) /\ todo' = todo \ {u}
      /\ UNCHANGED <<pc, g, transposedG, postOrder, next, root, component>>
  BY <1>3 DEF Start
<1>5. /\ <<>> \in Seq(Calls) /\ NodesOf(<<>>) = {} /\ OneCall(<<>>) /\ Nested(g, <<>>)
      /\ Behind(g, <<>>, visited \cup {u})
  BY DEF NodesOf, OneCall, Nested, Behind
<1>6. /\ stack' \in Seq(Calls) /\ visited' = visited \cup {u}
      /\ NodesOf(stack') = {} \cup (visited' \ visited)
      /\ OneCall(stack') /\ Nested(g, stack') /\ Behind(g, stack', visited')
  BY <1>1, <1>4, <1>5, EnumerateStep
<1>7. TypeOK'
  BY <1>1, <1>4, <1>6 DEF TypeOK, Calls
<1>8. DOMAIN g \ todo' \subseteq visited'
  BY <1>1, <1>4, <1>6 DEF Enumerating
<1> QED
  BY <1>1, <1>4, <1>5, <1>6, <1>7, <1>8, VisitKeeps

LEMMA VisitStep == ListInv /\ Visit => ListInv'
<1> SUFFICES ASSUME ListInv, Visit PROVE ListInv'
  OBVIOUS
<1>1. TypeOK /\ ListedOnce /\ Enumerating /\ pc = "enumerate" /\ stack # <<>> /\ stack \in Seq(Calls)
  BY DEF ListInv, Visit, TypeOK
<1>2. Top = stack[1] /\ stack[1].node \in DOMAIN g /\ 1 \in 1 .. Len(stack)
  <2>1. Head(stack) = stack[1] /\ stack[1] \in Calls /\ 1 \in 1 .. Len(stack)
    BY <1>1
  <2> QED
    BY <2>1 DEF Top, Calls, CallsOn
<1>3. stack[1].rest \subseteq g[stack[1].node] /\ g[stack[1].node] \subseteq DOMAIN g
  BY <1>1, <1>2, Given DEF Enumerating, Behind, TypeOK, Closed
<1>4. Child \in stack[1].rest
  BY <1>1, <1>2, <1>3, Given, MinIs DEF TypeOK, Visit, Child
<1>5. PICK u \in DOMAIN g : u = Child
  BY <1>3, <1>4
<1>6. PICK s : s = Advanced
  OBVIOUS
<1>7. /\ Enumerate(u, s)
      /\ UNCHANGED <<pc, g, transposedG, todo, postOrder, next, root, component>>
  BY <1>5, <1>6 DEF Visit
<1>8. s = Moved(stack, u)
  BY <1>5, <1>6 DEF Advanced, Moved
<1>9. /\ s \in Seq(Calls) /\ NodesOf(s) = NodesOf(stack) /\ OneCall(s) /\ Nested(g, s)
      /\ Behind(g, s, visited \cup {u}) /\ s[1].node = stack[1].node
  <2>1. OneCall(stack) /\ Nested(g, stack) /\ Behind(g, stack, visited)
    BY <1>1 DEF Enumerating
  <2>2. u \in stack[1].rest
    BY <1>4, <1>5
  <2>3. stack \in Seq(CallsOn(DOMAIN g))
    BY <1>1 DEF Calls
  <2>4. /\ s \in Seq(CallsOn(DOMAIN g)) /\ NodesOf(s) = NodesOf(stack) /\ s[1].node = stack[1].node
        /\ OneCall(stack) => OneCall(s)
        /\ \A h : Nested(h, stack) => Nested(h, s)
        /\ \A h, seen : Behind(h, stack, seen) => Behind(h, s, seen \cup {u})
    BY <1>1, <1>8, <2>2, <2>3, CallAdvances
  <2> QED
    BY <2>1, <2>4 DEF Calls
<1>10. u \in g[s[1].node] /\ NodesOf(s) \subseteq visited
  BY <1>1, <1>3, <1>4, <1>5, <1>9 DEF Enumerating
<1>11. /\ stack' \in Seq(Calls) /\ visited' = visited \cup {u}
       /\ NodesOf(stack') = NodesOf(s) \cup (visited' \ visited)
       /\ OneCall(stack') /\ Nested(g, stack') /\ Behind(g, stack', visited')
  BY <1>1, <1>7, <1>9, <1>10, EnumerateStep
<1>12. TypeOK'
  BY <1>1, <1>7, <1>11 DEF TypeOK, Calls
<1>13. DOMAIN g \ todo' \subseteq visited'
  BY <1>1, <1>7, <1>11 DEF Enumerating
<1> QED
  BY <1>1, <1>7, <1>9, <1>11, <1>12, <1>13, VisitKeeps

Prepended(r, s) == <<r>> \o s

\* Places move on by one when a node is listed in front.
LEMMA PlacesMove ==
  ASSUME NEW S, NEW s \in Seq(S), NEW r \in S, NEW t, t = Prepended(r, s)
  PROVE  /\ FromPlace(t, 1) = {r} \cup FromPlace(s, 1)
         /\ \A i \in 1 .. Len(s) : /\ FromPlace(t, i + 1) = FromPlace(s, i)
                                   /\ BeforePlace(t, i + 1) = {r} \cup BeforePlace(s, i)
<1>1. PICK n \in Nat : n = Len(s)
  OBVIOUS
<1>2. /\ Len(t) = n + 1 /\ t[1] = r
      /\ \A i \in 1 .. n : t[i + 1] = s[i]
      /\ \A i \in 1 .. n + 1 : i = 1 \/ (i - 1 \in 1 .. n /\ t[i] = s[i - 1])
  BY <1>1 DEF Prepended
<1>3. ASSUME NEW i \in 1 .. n PROVE FromPlace(t, i + 1) = FromPlace(s, i)
  <2>1. ASSUME NEW j \in i + 1 .. n + 1 PROVE t[j] \in FromPlace(s, i)
    <3>1. j - 1 \in i .. n /\ t[j] = s[j - 1]
      BY <1>2
    <3> QED
      BY <1>1, <3>1 DEF FromPlace
  <2>2. ASSUME NEW j \in i .. n PROVE s[j] \in FromPlace(t, i + 1)
    <3>1. j + 1 \in i + 1 .. n + 1 /\ t[j + 1] = s[j]
      BY <1>2
    <3> QED
      BY <1>2, <3>1 DEF FromPlace
  <2>3. FromPlace(t, i + 1) \subseteq FromPlace(s, i)
    BY <1>2, <2>1 DEF FromPlace
  <2>4. FromPlace(s, i) \subseteq FromPlace(t, i + 1)
    BY <1>1, <2>2 DEF FromPlace
  <2> QED
    BY <2>3, <2>4
<1>4. ASSUME NEW i \in 1 .. n PROVE BeforePlace(t, i + 1) = {r} \cup BeforePlace(s, i)
  <2>1. ASSUME NEW j \in 1 .. (i + 1) - 1 PROVE t[j] \in {r} \cup BeforePlace(s, i)
    <3>1. j = 1 \/ (j - 1 \in 1 .. i - 1 /\ t[j] = s[j - 1])
      BY <1>2
    <3> QED
      BY <1>2, <3>1 DEF BeforePlace
  <2>2. ASSUME NEW j \in 1 .. i - 1 PROVE s[j] \in BeforePlace(t, i + 1)
    <3>1. j + 1 \in 1 .. (i + 1) - 1 /\ t[j + 1] = s[j]
      BY <1>2
    <3> QED
      BY <3>1 DEF BeforePlace
  <2>3. r \in BeforePlace(t, i + 1)
    <3>1. 1 \in 1 .. (i + 1) - 1
      OBVIOUS
    <3> QED
      BY <1>2, <3>1 DEF BeforePlace
  <2> QED
    BY <2>1, <2>2, <2>3 DEF BeforePlace
<1>5. FromPlace(t, 1) = {r} \cup FromPlace(s, 1)
  <2>1. ASSUME NEW j \in 1 .. n + 1 PROVE t[j] \in {r} \cup FromPlace(s, 1)
    BY <1>1, <1>2 DEF FromPlace
  <2>2. ASSUME NEW j \in 1 .. n PROVE s[j] \in FromPlace(t, 1)
    <3>1. j + 1 \in 1 .. n + 1 /\ t[j + 1] = s[j]
      BY <1>2
    <3> QED
      BY <1>2, <3>1 DEF FromPlace
  <2>3. r \in FromPlace(t, 1)
    BY <1>2 DEF FromPlace
  <2> QED
    BY <1>1, <1>2, <2>1, <2>2, <2>3 DEF FromPlace
<1> QED
  BY <1>1, <1>3, <1>4, <1>5

\* All that a node leads to when it is left has been left, unless its component
\* has another node on the stack: a path that gets out of what has been left gets
\* to the stack, from where all of the stack's calls lead to the node.
LEMMA LeftLeadsToLeft ==
  ASSUME TypeOK, Enumerating, NEW w \in DOMAIN g, w \in NodesOf(stack), g[w] \subseteq visited,
         \A u \in NodesOf(stack) : w \in From(g, u),
         SCC(g, w) \cap (NodesOf(stack) \ {w}) = {}
  PROVE  From(g, w) \subseteq {w} \cup Listed
<1>1. Graph(g) /\ Closed(g) /\ IsFiniteSet(DOMAIN g)
  BY Given DEF TypeOK
<1>2. PICK C : C = From(g, w) \cap ({w} \cup Listed)
  OBVIOUS
<1>3. w \in C /\ \A x \in From(g, w) : x \in DOMAIN g /\ g[x] \subseteq From(g, w)
  BY <1>1, <1>2, FromSelf, FromClosed
<1>4. ASSUME NEW x \in C, NEW y \in g[x] PROVE y \in C
  <2>1. y \in From(g, w) /\ y \in visited
    BY <1>2, <1>3, <1>4 DEF Enumerating
  <2>2. y \in NodesOf(stack) => y \in SCC(g, w)
    BY <2>1 DEF SCC
  <2> QED
    BY <1>2, <2>1, <2>2 DEF Enumerating
<1>5. From(g, w) \subseteq C
  BY <1>1, <1>3, <1>4, FromLeast
<1> QED
  BY <1>2, <1>5

LEMMA LeaveStep == ListInv /\ Leave => ListInv'
<1> SUFFICES ASSUME ListInv, Leave PROVE ListInv'
  OBVIOUS
<1>1. TypeOK /\ ListedOnce /\ Enumerating /\ pc = "enumerate" /\ stack # <<>> /\ stack \in Seq(Calls)
  BY DEF ListInv, Leave, TypeOK
<1>2. PICK w \in DOMAIN g : w = stack[1].node
  <2>1. stack[1] \in Calls
    BY <1>1
  <2> QED
    BY <2>1 DEF Calls, CallsOn
<1>3. Top = stack[1] /\ stack[1].rest = {} /\ 1 \in 1 .. Len(stack)
  BY <1>1 DEF Leave, Top
<1>4. /\ postOrder' = Prepended(w, postOrder) /\ stack' = Tail(stack)
      /\ UNCHANGED <<pc, g, transposedG, todo, visited, next, root, component>>
  BY <1>2, <1>3 DEF Leave, Prepended
<1>5. /\ stack' \in Seq(Calls)
      /\ NodesOf(stack) = {w} \cup NodesOf(stack') /\ w \notin NodesOf(stack')
      /\ OneCall(stack') /\ Nested(g, stack') /\ \A u \in NodesOf(stack) : w \in From(g, u)
      /\ Behind(g, stack', visited)
  <2>1. OneCall(stack) /\ Nested(g, stack) /\ Behind(g, stack, visited)
    BY <1>1 DEF Enumerating
  <2> QED
    BY <1>1, <1>2, <1>4, <2>1, CallReturns DEF Calls
<1>6. g[w] \subseteq visited
  BY <1>1, <1>2, <1>3 DEF Enumerating, Behind
<1>7. postOrder \in Seq(DOMAIN g)
  BY <1>1 DEF TypeOK
<1>8. PICK n \in Nat : n = Len(postOrder)
  BY <1>7
<1>9. /\ postOrder' \in Seq(DOMAIN g) /\ Len(postOrder') = n + 1 /\ postOrder'[1] = w
      /\ \A i \in 1 .. n : postOrder'[i + 1] = postOrder[i]
      /\ \A i \in 1 .. n + 1 : i = 1 \/ (i - 1 \in 1 .. n /\ postOrder'[i] = postOrder[i - 1])
  BY <1>4, <1>7, <1>8 DEF Prepended
<1>10. Listed' = {w} \cup Listed
  <2>1. Listed = FromPlace(postOrder, 1) /\ Listed' = FromPlace(postOrder', 1)
    BY DEF Listed, FromPlace
  <2> QED
    BY <1>4, <1>7, <2>1, PlacesMove
<1>11. w \notin Listed
  BY <1>1, <1>5 DEF Enumerating
<1>12. ListedOnce'
  <2>1. \A i \in 1 .. n : postOrder[i] # w
    BY <1>8, <1>11 DEF Listed
  <2>2. ASSUME NEW i \in 1 .. n + 1, NEW j \in 1 .. n + 1, postOrder'[i] = postOrder'[j] PROVE i = j
    <3>1. CASE i = 1 \/ j = 1
      BY <1>9, <2>1, <2>2, <3>1
    <3>2. CASE i # 1 /\ j # 1
      <4>1. i - 1 = j - 1
        BY <1>1, <1>8, <1>9, <2>2, <3>2 DEF ListedOnce
      <4> QED
        BY <4>1
    <3> QED
      BY <3>1, <3>2
  <2> QED
    BY <1>9, <2>2 DEF ListedOnce
<1>13. LeadsOrFollows(NodesOf(stack))'
  <2> SUFFICES ASSUME NEW k \in 1 .. n + 1
               PROVE  \/ From(g, postOrder'[k]) \subseteq FromPlace(postOrder', k)
                      \/ SCC(g, postOrder'[k]) \cap (BeforePlace(postOrder', k) \cup NodesOf(stack')) # {}
    BY <1>4, <1>9 DEF LeadsOrFollows
  <2>1. CASE k = 1
    <3>1. FromPlace(postOrder', 1) = {w} \cup Listed
      BY <1>10 DEF Listed, FromPlace
    <3>2. CASE SCC(g, w) \cap (NodesOf(stack) \ {w}) = {}
      <4>1. From(g, w) \subseteq {w} \cup Listed
        BY <1>1, <1>5, <1>6, <3>2, LeftLeadsToLeft
      <4> QED
        BY <1>9, <2>1, <3>1, <4>1
    <3>3. CASE SCC(g, w) \cap (NodesOf(stack) \ {w}) # {}
      BY <1>5, <1>9, <2>1, <3>3
    <3> QED
      BY <3>2, <3>3
  <2>2. CASE k # 1
    <3>1. PICK i \in 1 .. n : k = i + 1 /\ postOrder'[k] = postOrder[i]
      <4>1. k - 1 \in 1 .. n /\ k = (k - 1) + 1 /\ postOrder'[k] = postOrder[k - 1]
        BY <1>9, <2>2
      <4> QED
        BY <4>1
    <3>2. /\ FromPlace(postOrder', k) = FromPlace(postOrder, i)
          /\ BeforePlace(postOrder', k) = {w} \cup BeforePlace(postOrder, i)
      BY <1>4, <1>7, <1>8, <3>1, PlacesMove
    <3>3. \/ From(g, postOrder[i]) \subseteq FromPlace(postOrder, i)
          \/ SCC(g, postOrder[i]) \cap (BeforePlace(postOrder, i) \cup NodesOf(stack)) # {}
      BY <1>1, <1>8 DEF Enumerating, LeadsOrFollows
    <3>4. BeforePlace(postOrder', k) \cup NodesOf(stack') = BeforePlace(postOrder, i) \cup NodesOf(stack)
      BY <1>5, <3>2
    <3> QED
      BY <3>1, <3>2, <3>3, <3>4
  <2> QED
    BY <2>1, <2>2
<1>14. Enumerating'
  <2>1. visited' = NodesOf(stack') \cup Listed' /\ NodesOf(stack') \cap Listed' = {}
    BY <1>1, <1>4, <1>5, <1>10 DEF Enumerating
  <2>2. \A u \in Listed' : g[u] \subseteq visited
    BY <1>1, <1>6, <1>10 DEF Enumerating
  <2> QED
    BY <1>1, <1>4, <1>5, <1>13, <2>1, <2>2 DEF Enumerating
<1>15. TypeOK'
  BY <1>1, <1>4, <1>5, <1>9 DEF TypeOK, Calls
<1> QED
  BY <1>1, <1>4, <1>12, <1>14, <1>15 DEF ListInv

LEMMA TurnStep == ListInv /\ Turn => ListInv'
<1> SUFFICES ASSUME ListInv, Turn PROVE ListInv'
  OBVIOUS
<1>1. /\ TypeOK /\ ListedOnce /\ Enumerating /\ stack = <<>> /\ todo = {} /\ pc' = "assign"
      /\ UNCHANGED <<g, transposedG, todo, visited, postOrder, stack, next, root, component>>
  BY DEF ListInv, Turn
<1>2. NodesOf(stack) = {}
  BY <1>1 DEF NodesOf
<1>3. Listed = DOMAIN g
  BY <1>1, <1>2 DEF Enumerating, TypeOK
<1>4. LeadsOrFollows({})
  BY <1>1, <1>2 DEF Enumerating
<1>5. TypeOK' /\ ListedOnce'
  BY <1>1 DEF TypeOK, ListedOnce
<1>6. Enumerated'
  BY <1>1, <1>3, <1>4 DEF Enumerated, Listed, LeadsOrFollows
<1> QED
  BY <1>1, <1>5, <1>6 DEF ListInv

\* The list: what a node leads to is listed behind the first of its component.
LEMMA FirstLeads ==
  ASSUME TypeOK, ListedOnce, Enumerated, NEW u \in DOMAIN g
  PROVE  \E k \in 1 .. Len(postOrder) :
            /\ postOrder[k] \in SCC(g, u)
            /\ \A j \in 1 .. Len(postOrder) : postOrder[j] \in From(g, u) => k <= j
<1>1. Graph(g) /\ Closed(g) /\ IsFiniteSet(DOMAIN g)
  BY Given DEF TypeOK
<1>2. PICK n \in Nat : n = Len(postOrder) /\ \A i \in 1 .. n : postOrder[i] \in DOMAIN g
  BY DEF TypeOK
<1>3. PICK K : K = {i \in 1 .. n : postOrder[i] \in SCC(g, u)}
  OBVIOUS
<1>4. K # {}
  BY <1>1, <1>2, <1>3, SCCSelf DEF Enumerated, Listed
<1>5. PICK k \in K : \A i \in K : k <= i
  BY <1>3, <1>4, LeastNat
<1>6. postOrder[k] \in DOMAIN g /\ SCC(g, postOrder[k]) = SCC(g, u)
  BY <1>1, <1>2, <1>3, SCCSame
<1>7. From(g, u) \subseteq From(g, postOrder[k])
  <2>1. u \in From(g, postOrder[k])
    BY <1>3 DEF SCC
  <2> QED
    BY <1>1, <1>6, <2>1, FromOn
<1>8. SCC(g, postOrder[k]) \cap (BeforePlace(postOrder, k) \cup {}) = {}
  <2>1. ASSUME NEW j \in 1 .. k - 1, postOrder[j] \in SCC(g, u) PROVE FALSE
    <3>1. j \in K /\ ~(k <= j)
      BY <1>2, <1>3, <2>1
    <3> QED
      BY <1>5, <3>1
  <2> QED
    BY <1>6, <2>1 DEF BeforePlace
<1>9. From(g, postOrder[k]) \subseteq FromPlace(postOrder, k)
  BY <1>2, <1>3, <1>8 DEF Enumerated, LeadsOrFollows
<1>10. ASSUME NEW j \in 1 .. n, postOrder[j] \in From(g, u) PROVE k <= j
  <2>1. PICK i \in k .. n : postOrder[i] = postOrder[j]
    BY <1>2, <1>7, <1>9, <1>10 DEF FromPlace
  <2>2. i = j
    BY <1>2, <1>3, <2>1 DEF ListedOnce
  <2> QED
    BY <2>1, <2>2
<1> QED
  BY <1>2, <1>3, <1>10

-------------------------------------------------------------------------------
(* The second traversal.                                                   *)

\* The components of the nodes at the first n places.
Settled(n) == UNION {SCC(g, postOrder[j]) : j \in 1 .. n}

Assigned == {u \in DOMAIN g : component[u] # Null}

\* The component of each of these nodes is called by one of its nodes.
Right(S) == \A u \in S : /\ component[u] \in SCC(g, u)
                         /\ \A v \in SCC(g, u) : component[v] = component[u]

\* What has been assigned since the second loop called assignComponent.
Own == Assigned \ Settled(next - 2)

Between == next - 1 <= Len(postOrder) /\ Assigned = Settled(next - 1) /\ Right(Assigned)

Within ==
    /\ next - 1 \in 1 .. Len(postOrder) /\ root = postOrder[next - 1] /\ root \notin Settled(next - 2)
    /\ Settled(next - 2) \subseteq Assigned /\ Right(Settled(next - 2))
    /\ root \in Own /\ Own \subseteq SCC(g, root) /\ \A u \in Own : component[u] = root
    /\ NodesOf(stack) \subseteq Own
    /\ Behind(transposedG, stack, Assigned)
    /\ \A u \in Own \ NodesOf(stack) : transposedG[u] \subseteq Assigned

IInv == /\ ListInv
        /\ pc = "assign" => IF stack = <<>> THEN Between ELSE Within
        /\ pc = "done" => Abstract!NamesSCCs(g, component)

\* A set of components holds a component or none of its nodes.
LEMMA SettledIsWhole ==
  ASSUME TypeOK, NEW n \in 0 .. Len(postOrder), NEW u \in DOMAIN g, u \notin Settled(n)
  PROVE  SCC(g, u) \cap Settled(n) = {}
<1>1. Closed(g) /\ IsFiniteSet(DOMAIN g)
  BY Given DEF TypeOK
<1>2. \A j \in 1 .. n : postOrder[j] \in DOMAIN g
  BY DEF TypeOK
<1>3. ASSUME NEW j \in 1 .. n, NEW x \in SCC(g, u), x \in SCC(g, postOrder[j]) PROVE FALSE
  <2>1. SCC(g, x) = SCC(g, u) /\ SCC(g, x) = SCC(g, postOrder[j])
    BY <1>1, <1>2, <1>3, SCCSame
  <2>2. u \in SCC(g, postOrder[j])
    BY <1>1, <2>1, SCCSelf
  <2> QED
    BY <2>2 DEF Settled
<1> QED
  BY <1>3 DEF Settled

\* Where the transposed edges of a root's component lead to, if not to a component
\* found before, is that component: those it depends on come first.
LEMMA StaysInComponent ==
  ASSUME TypeOK, ListedOnce, Enumerated, NEW n \in 1 .. Len(postOrder), NEW r, r = postOrder[n],
         NEW u \in SCC(g, r), NEW c \in transposedG[u], c \notin Settled(n - 1)
  PROVE  c \in SCC(g, r)
<1>1. /\ Closed(g) /\ IsFiniteSet(DOMAIN g) /\ r \in DOMAIN g /\ u \in DOMAIN g
      /\ transposedG[u] = {x \in DOMAIN g : u \in g[x]}
  <2>1. Closed(g) /\ IsFiniteSet(DOMAIN g) /\ r \in DOMAIN g
    BY Given DEF TypeOK
  <2>2. u \in DOMAIN g
    BY <2>1, SCCNodes
  <2> QED
    BY <2>1, <2>2, Given DEF TypeOK
<1>2. c \in DOMAIN g /\ u \in g[c]
  BY <1>1
<1>3. PICK k \in 1 .. Len(postOrder) :
            /\ postOrder[k] \in SCC(g, c)
            /\ \A j \in 1 .. Len(postOrder) : postOrder[j] \in From(g, c) => k <= j
  BY <1>2, FirstLeads
<1>4. r \in From(g, c)
  <2>1. c \in From(g, c) /\ u \in From(g, c)
    BY <1>1, <1>2, FromSelf, FromClosed
  <2>2. r \in From(g, u)
    BY DEF SCC
  <2> QED
    BY <1>1, <1>2, <2>1, <2>2, FromOn
<1>5. k <= n
  BY <1>3, <1>4
<1>6. c \in SCC(g, postOrder[k])
  BY <1>3 DEF SCC
<1>7. k = n
  <2>1. CASE k <= n - 1
    BY <1>6, <2>1 DEF Settled
  <2> QED
    BY <1>5, <2>1
<1> QED
  BY <1>6, <1>7

\* When nothing but found components is left to go on to, the root's is whole.
LEMMA ComponentIsWhole ==
  ASSUME TypeOK, NEW r \in DOMAIN g, NEW S, S \cap SCC(g, r) = {},
         NEW O \in SUBSET SCC(g, r), r \in O, \A u \in O : transposedG[u] \subseteq S \cup O
  PROVE  O = SCC(g, r)
<1>1. /\ Graph(g) /\ Closed(g) /\ IsFiniteSet(DOMAIN g) /\ transposedG = transpose(g)
      /\ DOMAIN transposedG = DOMAIN g /\ Closed(transposedG)
      /\ \A x \in DOMAIN g : transposedG[x] = {u \in DOMAIN g : x \in g[u]}
  BY Given DEF TypeOK
<1>2. PICK C : C = O \cup (From(transposedG, r) \ SCC(g, r))
  OBVIOUS
<1>3. \A x \in From(transposedG, r) : x \in DOMAIN g /\ transposedG[x] \subseteq From(transposedG, r)
  BY <1>1, FromClosed
<1>4. O \subseteq From(transposedG, r)
  <2>1. ASSUME NEW x \in SCC(g, r) PROVE x \in From(transposedG, r)
    <3>1. x \in DOMAIN g /\ r \in From(g, x)
      BY <1>1, SCCNodes DEF SCC
    <3> QED
      BY <1>1, <3>1, FromBack
  <2> QED
    BY <2>1
<1>5. ASSUME NEW x \in C, NEW y \in transposedG[x] PROVE y \in C
  <2>1. y \in From(transposedG, r) /\ x \in DOMAIN g /\ y \in DOMAIN g /\ x \in g[y]
    BY <1>1, <1>2, <1>3, <1>4, <1>5
  <2>2. CASE x \in O
    BY <1>2, <1>5, <2>1, <2>2
  <2>3. CASE x \notin SCC(g, r) /\ x \in From(transposedG, r)
    <3>1. ASSUME y \in SCC(g, r) PROVE FALSE
      <4>1. y \in From(g, r) /\ x \in From(g, r)
        BY <1>1, <2>1, <3>1, FromClosed DEF SCC
      <4>2. r \in From(g, x)
        BY <1>1, <2>1, <2>3, FromBack
      <4> QED
        BY <2>3, <4>1, <4>2 DEF SCC
    <3> QED
      BY <1>2, <2>1, <3>1
  <2> QED
    BY <1>2, <2>2, <2>3
<1>6. From(transposedG, r) \subseteq C
  BY <1>1, <1>2, <1>5, FromLeast
<1>7. ASSUME NEW x \in SCC(g, r) PROVE x \in O
  <2>1. x \in DOMAIN g /\ r \in From(g, x)
    BY <1>1, SCCNodes DEF SCC
  <2>2. x \in From(transposedG, r)
    BY <1>1, <2>1, FromBack
  <2> QED
    BY <1>2, <1>6, <1>7, <2>2
<1> QED
  BY <1>7

\* A component found has all of its nodes found.
LEMMA SettledHasWhole ==
  ASSUME TypeOK, NEW n \in 0 .. Len(postOrder), NEW u \in Settled(n)
  PROVE  u \in DOMAIN g /\ SCC(g, u) \subseteq Settled(n)
<1>1. Closed(g) /\ IsFiniteSet(DOMAIN g)
  BY Given DEF TypeOK
<1>2. PICK j \in 1 .. n : u \in SCC(g, postOrder[j])
  BY DEF Settled
<1>3. postOrder[j] \in DOMAIN g
  BY DEF TypeOK
<1>4. SCC(g, u) = SCC(g, postOrder[j]) /\ u \in DOMAIN g
  BY <1>1, <1>2, <1>3, SCCSame, SCCNodes
<1> QED
  BY <1>4 DEF Settled

LEMMA SettledMore ==
  ASSUME NEW n \in Nat
  PROVE  Settled(0) = {} /\ Settled(n + 1) = Settled(n) \cup SCC(g, postOrder[n + 1])
<1>1. \A j \in 1 .. n + 1 : j \in 1 .. n \/ j = n + 1
  OBVIOUS
<1>2. \A j \in 1 .. n : j \in 1 .. n + 1
  OBVIOUS
<1>3. n + 1 \in 1 .. n + 1 /\ 1 .. 0 = {}
  OBVIOUS
<1> QED
  BY <1>1, <1>2, <1>3, Zenon DEF Settled

\* The list stays what it is in the second traversal.
LEMMA ListStays ==
  ASSUME ListInv, pc = "assign", pc' \in {"assign", "done"},
         UNCHANGED <<g, transposedG, todo, visited, postOrder>>,
         stack' \in Seq(Calls), next' \in Nat \ {0}, component' \in [DOMAIN g -> DOMAIN g \cup {Null}]
  PROVE  ListInv'
<1>1. TypeOK'
  BY DEF ListInv, TypeOK, Calls
<1>2. ListedOnce' /\ Enumerated'
  BY DEF ListInv, ListedOnce, Enumerated, Listed, LeadsOrFollows
<1> QED
  BY <1>1, <1>2 DEF ListInv

\* The call assignComponent(u, r), from the call on top of s or from findSCC.
LEMMA AssignStep ==
  ASSUME TypeOK, NEW u \in DOMAIN g, NEW r \in DOMAIN g, NEW s \in Seq(Calls),
         Behind(transposedG, s, Assigned \cup {u}), Assign(u, r, s), g' = g
  PROVE  /\ stack' \in Seq(Calls) /\ Assigned' = Assigned \cup {u}
         /\ component' \in [DOMAIN g -> DOMAIN g \cup {Null}]
         /\ \A x \in Assigned : component'[x] = component[x]
         /\ u \notin Assigned => component'[u] = r
         /\ s # <<>> \/ u \notin Assigned => stack' # <<>>
         /\ NodesOf(stack') = NodesOf(s) \cup (Assigned' \ Assigned)
         /\ Behind(transposedG, stack', Assigned')
<1>1. /\ Graph(transposedG) /\ IsFiniteSet(DOMAIN g) /\ DOMAIN transposedG = DOMAIN g
      /\ Null \notin DOMAIN g /\ component \in [DOMAIN g -> DOMAIN g \cup {Null}]
  BY Given DEF TypeOK
<1>2. CASE u \in Assigned
  <2>1. stack' = s /\ component' = component
    BY <1>2 DEF Assign, Assigned
  <2>2. Assigned' = Assigned /\ Assigned = Assigned \cup {u}
    BY <1>2, <2>1 DEF Assigned
  <2> QED
    BY <1>1, <1>2, <2>1, <2>2
<1>3. CASE u \notin Assigned
  <2>1. stack' = Begun(u, transposedG, s) /\ component' = [component EXCEPT ![u] = r]
    BY <1>3 DEF Assign, Assigned, Begun
  <2>2. /\ component' \in [DOMAIN g -> DOMAIN g \cup {Null}] /\ component'[u] = r
        /\ \A x \in DOMAIN g : x # u => component'[x] = component[x]
    BY <1>1, <2>1
  <2>3. Assigned' = Assigned \cup {u} /\ \A x \in Assigned : component'[x] = component[x]
    BY <1>1, <1>3, <2>2 DEF Assigned
  <2>4. /\ stack' \in Seq(Calls) /\ stack' # <<>>
        /\ NodesOf(stack') = {u} \cup NodesOf(s)
        /\ Behind(transposedG, stack', Assigned \cup {u})
    BY <1>1, <2>1, CallBegins DEF Calls
  <2> QED
    BY <1>3, <2>2, <2>3, <2>4
<1> QED
  BY <1>2, <1>3

\* Components stay found.
LEMMA RightStays ==
  ASSUME TypeOK, NEW n \in 0 .. Len(postOrder), Settled(n) \subseteq Assigned, Right(Settled(n)),
         NEW c, \A x \in Assigned : c[x] = component[x],
         NEW u \in Settled(n)
  PROVE  c[u] \in SCC(g, u) /\ \A v \in SCC(g, u) : c[v] = c[u]
BY SettledHasWhole DEF Right

LEMMA InitInv == Init => IInv
<1> SUFFICES ASSUME Init PROVE IInv
  OBVIOUS
<1>1. DOMAIN transposedG = DOMAIN g
  BY Given DEF Init
<1>2. TypeOK
  BY <1>1 DEF Init, TypeOK
<1>3. Len(postOrder) = 0 /\ Len(stack) = 0 /\ 1 .. 0 = {}
  BY DEF Init
<1>4. Listed = {} /\ NodesOf(stack) = {} /\ ListedOnce /\ LeadsOrFollows(NodesOf(stack))
  BY <1>3 DEF Listed, NodesOf, ListedOnce, LeadsOrFollows
<1>5. OneCall(stack) /\ Nested(g, stack) /\ Behind(g, stack, visited)
  BY <1>3 DEF OneCall, Nested, Behind
<1>6. Enumerating
  BY <1>1, <1>4, <1>5 DEF Enumerating, Init
<1> QED
  BY <1>2, <1>4, <1>6 DEF IInv, ListInv, Init

LEMMA EnumerateInv == IInv /\ (Start \/ Visit \/ Leave) => IInv'
<1> SUFFICES ASSUME IInv, Start \/ Visit \/ Leave PROVE IInv'
  OBVIOUS
<1>1. ListInv' /\ pc' = "enumerate"
  BY StartStep, VisitStep, LeaveStep DEF IInv, Start, Visit, Leave
<1> QED
  BY <1>1 DEF IInv

LEMMA TurnInv == IInv /\ Turn => IInv'
<1> SUFFICES ASSUME IInv, Turn PROVE IInv'
  OBVIOUS
<1>1. ListInv' /\ pc' = "assign" /\ stack' = <<>>
  BY TurnStep DEF IInv, Turn
<1>2. /\ UNCHANGED <<g, postOrder, next, component>> /\ next = 1 /\ postOrder \in Seq(DOMAIN g)
      /\ component = [u \in DOMAIN g |-> Null]
  BY DEF IInv, ListInv, Enumerating, TypeOK, Turn
<1>3. Assigned' = {} /\ Right(Assigned)'
  BY <1>2 DEF Assigned, Right
<1>4. next' - 1 = 0 /\ 1 .. 0 = {}
  BY <1>2
<1>5. Settled(next - 1)' = {}
  BY <1>4 DEF Settled
<1>6. (next - 1)' <= Len(postOrder)'
  BY <1>2
<1> QED
  BY <1>1, <1>3, <1>5, <1>6 DEF IInv, Between

\* The second loop: a node whose component is known, or the first of a new one.
LEMMA AssignRootInv == IInv /\ AssignRoot => IInv'
<1> SUFFICES ASSUME IInv, AssignRoot PROVE IInv'
  OBVIOUS
<1>1. /\ ListInv /\ TypeOK /\ Between /\ pc = "assign" /\ stack = <<>>
      /\ UNCHANGED <<pc, g, transposedG, todo, visited, postOrder>>
  BY DEF IInv, ListInv, AssignRoot
<1>2. PICK k \in Nat : next = k + 1
  <2>1. next - 1 \in Nat /\ next = (next - 1) + 1
    BY <1>1 DEF TypeOK
  <2> QED
    BY <2>1
<1>3. k \in 0 .. Len(postOrder) /\ next \in 1 .. Len(postOrder) /\ next' = next + 1
  BY <1>1, <1>2 DEF AssignRoot, TypeOK
<1>4. PICK u \in DOMAIN g : u = postOrder[next]
  BY <1>1, <1>3 DEF TypeOK
<1>5. root' = u /\ Assign(u, u, <<>>)
  BY <1>4 DEF AssignRoot
<1>6. Assigned = Settled(k) /\ Right(Settled(k))
  BY <1>1, <1>2 DEF Between
<1>7. Settled(k + 1) = Settled(k) \cup SCC(g, u)
  BY <1>2, <1>4, SettledMore
<1>8. <<>> \in Seq(Calls) /\ NodesOf(<<>>) = {} /\ Behind(transposedG, <<>>, Assigned \cup {u})
  BY DEF NodesOf, Behind
<1>9. /\ stack' \in Seq(Calls) /\ Assigned' = Assigned \cup {u}
      /\ component' \in [DOMAIN g -> DOMAIN g \cup {Null}]
      /\ \A x \in Assigned : component'[x] = component[x]
      /\ u \notin Assigned => component'[u] = u /\ stack' # <<>>
      /\ NodesOf(stack') = Assigned' \ Assigned
      /\ Behind(transposedG, stack', Assigned')
  BY <1>1, <1>5, <1>8, AssignStep
<1>10. ListInv'
  BY <1>1, <1>3, <1>9, ListStays
<1>11. u \in SCC(g, u)
  BY <1>1, Given, SCCSelf DEF TypeOK
<1>12. CASE u \in Assigned
  <2>1. stack' = <<>> /\ component' = component /\ Assigned' = Assigned
    BY <1>5, <1>9, <1>12 DEF Assign, Assigned
  <2>2. SCC(g, u) \subseteq Settled(k)
    BY <1>1, <1>3, <1>6, <1>12, SettledHasWhole
  <2>3. Settled(next - 1)' = Settled(k + 1)
    <3>1. next' - 1 = k + 1
      BY <1>2, <1>3
    <3> QED
      BY <1>1, <3>1 DEF Settled
  <2>4. Assigned' = Settled(next - 1)'
    BY <1>6, <1>7, <2>1, <2>2, <2>3
  <2>5. Right(Assigned)'
    BY <1>1, <1>6, <2>1 DEF Right
  <2>6. (next - 1)' <= Len(postOrder)'
    BY <1>1, <1>3
  <2> QED
    BY <1>1, <1>10, <2>1, <2>4, <2>5, <2>6 DEF IInv, Between
<1>13. CASE u \notin Assigned
  <2>1. Settled(next - 2)' = Settled(k)
    <3>1. next' - 2 = k
      BY <1>2, <1>3
    <3> QED
      BY <1>1, <3>1 DEF Settled
  <2>2. next' - 1 = next
    BY <1>2, <1>3
  <2>3. /\ (next - 1)' \in 1 .. Len(postOrder)' /\ root' = postOrder'[(next - 1)']
        /\ root' \notin Settled(next - 2)'
    BY <1>1, <1>3, <1>4, <1>5, <1>6, <1>13, <2>1, <2>2
  <2>4. Settled(next - 2)' \subseteq Assigned' /\ Own' = {u}
    BY <1>6, <1>9, <1>13, <2>1 DEF Own
  <2>5. Right(Settled(next - 2))'
    <3>1. ASSUME NEW x \in Settled(k)
          PROVE  component'[x] \in SCC(g, x) /\ \A v \in SCC(g, x) : component'[v] = component'[x]
      BY <1>1, <1>3, <1>6, <1>9, RightStays
    <3> QED
      BY <1>1, <2>1, <3>1 DEF Right
  <2>6. /\ Own' \subseteq SCC(g', root') /\ root' \in Own' /\ \A x \in Own' : component'[x] = root'
        /\ NodesOf(stack') = Own'
    BY <1>1, <1>5, <1>9, <1>11, <1>13, <2>4
  <2>7. Within'
    BY <1>1, <1>9, <2>3, <2>4, <2>5, <2>6 DEF Within
  <2> QED
    BY <1>1, <1>9, <1>10, <1>13, <2>7 DEF IInv
<1> QED
  BY <1>12, <1>13

\* assignComponent: a node reached that has no component is of the root's.
LEMMA AssignChildInv == IInv /\ AssignChild => IInv'
<1> SUFFICES ASSUME IInv, AssignChild PROVE IInv'
  OBVIOUS
<1>1. /\ ListInv /\ TypeOK /\ ListedOnce /\ Enumerated /\ Within /\ pc = "assign"
      /\ stack # <<>> /\ stack \in Seq(Calls)
      /\ UNCHANGED <<pc, g, transposedG, todo, visited, postOrder, next, root>>
  BY DEF IInv, ListInv, AssignChild, TypeOK
<1>2. PICK n \in 1 .. Len(postOrder) : next - 1 = n /\ next - 2 = n - 1 /\ n - 1 \in 0 .. Len(postOrder)
  <2>1. next - 1 \in 1 .. Len(postOrder) /\ next \in Nat /\ Len(postOrder) \in Nat
    BY <1>1 DEF TypeOK, Within
  <2> QED
    BY <2>1
<1>3. PICK S : S = Settled(n - 1)
  OBVIOUS
<1>4. /\ S \subseteq Assigned /\ Right(S) /\ Own = Assigned \ S /\ root = postOrder[n] /\ root \notin S
      /\ root \in Own /\ Own \subseteq SCC(g, root) /\ \A x \in Own : component[x] = root
      /\ NodesOf(stack) \subseteq Own /\ Behind(transposedG, stack, Assigned)
      /\ \A x \in Own \ NodesOf(stack) : transposedG[x] \subseteq Assigned
  BY <1>1, <1>2, <1>3 DEF Within, Own
<1>5. Top = stack[1] /\ 1 \in 1 .. Len(stack) /\ stack[1].node \in NodesOf(stack)
  BY <1>1 DEF Top, NodesOf
<1>6. PICK u \in Own : u = stack[1].node
  BY <1>4, <1>5
<1>7. stack[1].rest \subseteq transposedG[u] /\ transposedG[u] \subseteq DOMAIN g
  <2>1. u \in DOMAIN g
    BY <1>6 DEF Own, Assigned
  <2> QED
    BY <1>1, <1>4, <1>5, <1>6, <2>1, Given DEF Behind, TypeOK
<1>8. Child \in stack[1].rest
  BY <1>1, <1>5, <1>7, Given, MinIs DEF TypeOK, AssignChild, Child
<1>9. PICK c \in DOMAIN g : c = Child /\ c \in transposedG[u] /\ c \in stack[1].rest
  BY <1>7, <1>8
<1>10. PICK s : s = Moved(stack, c)
  OBVIOUS
<1>11. Assign(c, root, s)
  <2>1. s = Advanced
    BY <1>9, <1>10 DEF Advanced, Moved
  <2> QED
    BY <1>9, <2>1 DEF AssignChild
<1>12. s \in Seq(Calls) /\ s # <<>> /\ NodesOf(s) = NodesOf(stack) /\ Behind(transposedG, s, Assigned \cup {c})
  <2>1. stack \in Seq(CallsOn(DOMAIN g))
    BY <1>1 DEF Calls
  <2>2. s \in Seq(CallsOn(DOMAIN g)) /\ s # <<>> /\ NodesOf(s) = NodesOf(stack)
    BY <1>1, <1>9, <1>10, <2>1, CallAdvances
  <2>3. Behind(transposedG, s, Assigned \cup {c})
    BY <1>1, <1>4, <1>9, <1>10, <2>1, CallAdvances
  <2> QED
    BY <2>2, <2>3 DEF Calls
<1>13. root \in DOMAIN g
  BY <1>4 DEF Own, Assigned
<1>14. /\ stack' \in Seq(Calls) /\ Assigned' = Assigned \cup {c}
       /\ component' \in [DOMAIN g -> DOMAIN g \cup {Null}]
       /\ \A x \in Assigned : component'[x] = component[x]
       /\ c \notin Assigned => component'[c] = root
       /\ stack' # <<>>
       /\ NodesOf(stack') = NodesOf(stack) \cup (Assigned' \ Assigned)
       /\ Behind(transposedG, stack', Assigned')
  BY <1>1, <1>11, <1>12, <1>13, AssignStep
<1>15. ListInv'
  BY <1>1, <1>14, ListStays DEF TypeOK
<1>16. c \in Assigned \/ c \in SCC(g, root)
  BY <1>1, <1>3, <1>4, <1>9, StaysInComponent
<1>17. Settled(next - 2)' = S
  BY <1>1, <1>2, <1>3 DEF Settled
<1>18. Own' = Assigned' \ S /\ Own' = Own \cup (Assigned' \ Assigned)
  BY <1>4, <1>14, <1>17 DEF Own
<1>19. Right(S)'
  <2>1. ASSUME NEW x \in S
        PROVE  component'[x] \in SCC(g, x) /\ \A v \in SCC(g, x) : component'[v] = component'[x]
    BY <1>1, <1>2, <1>3, <1>4, <1>14, RightStays
  <2> QED
    BY <1>1, <2>1 DEF Right
<1>20. Right(Settled(next - 2))'
  BY <1>17, <1>19 DEF Right
<1>21. /\ root \in Own' /\ Own' \subseteq SCC(g, root) /\ \A x \in Own' : component'[x] = root
       /\ NodesOf(stack') \subseteq Own'
  BY <1>4, <1>14, <1>16, <1>18
<1>22. \A x \in Own' \ NodesOf(stack') : transposedG[x] \subseteq Assigned'
  BY <1>4, <1>14, <1>18
<1>23. (next - 1)' \in 1 .. Len(postOrder)' /\ root' = postOrder'[(next - 1)']
  BY <1>1, <1>2, <1>4
<1>24. Within'
  BY <1>1, <1>4, <1>14, <1>17, <1>20, <1>21, <1>22, <1>23 DEF Within
<1> QED
  BY <1>1, <1>14, <1>15, <1>24 DEF IInv

\* A call returns; when it is the outermost one the component is whole.
LEMMA AssignReturnInv == IInv /\ AssignReturn => IInv'
<1> SUFFICES ASSUME IInv, AssignReturn PROVE IInv'
  OBVIOUS
<1>1. /\ ListInv /\ TypeOK /\ Within /\ pc = "assign" /\ stack # <<>> /\ stack \in Seq(Calls)
      /\ stack' = Tail(stack)
      /\ UNCHANGED <<pc, g, transposedG, todo, visited, postOrder, next, root, component>>
  BY DEF IInv, ListInv, AssignReturn, TypeOK
<1>2. PICK n \in 1 .. Len(postOrder) : /\ next - 1 = n /\ next - 2 = n - 1 /\ n - 1 \in 0 .. Len(postOrder)
                                       /\ n - 1 \in Nat /\ (n - 1) + 1 = n
  <2>1. next - 1 \in 1 .. Len(postOrder) /\ next \in Nat /\ Len(postOrder) \in Nat
    BY <1>1 DEF TypeOK, Within
  <2> QED
    BY <2>1
<1>3. PICK S : S = Settled(n - 1)
  OBVIOUS
<1>4. /\ S \subseteq Assigned /\ Right(S) /\ Own = Assigned \ S /\ root = postOrder[n] /\ root \notin S
      /\ root \in Own /\ Own \subseteq SCC(g, root) /\ \A x \in Own : component[x] = root
      /\ NodesOf(stack) \subseteq Own /\ Behind(transposedG, stack, Assigned)
      /\ \A x \in Own \ NodesOf(stack) : transposedG[x] \subseteq Assigned
  BY <1>1, <1>2, <1>3 DEF Within, Own
<1>5. Head(stack).rest = {} /\ Head(stack) = stack[1] /\ 1 \in 1 .. Len(stack)
  BY <1>1 DEF AssignReturn, Top
<1>6. PICK w : w = stack[1].node
  OBVIOUS
<1>7. stack' \in Seq(Calls) /\ NodesOf(stack) = {w} \cup NodesOf(stack') /\ Behind(transposedG, stack', Assigned)
  BY <1>1, <1>4, <1>6, CallReturns DEF Calls
<1>8. transposedG[w] \subseteq Assigned
  BY <1>4, <1>5, <1>6 DEF Behind
<1>9. \A x \in Own \ NodesOf(stack') : transposedG[x] \subseteq Assigned
  BY <1>4, <1>7, <1>8
<1>10. ListInv'
  BY <1>1, <1>7, ListStays DEF TypeOK
<1>11. Assigned' = Assigned /\ Settled(next - 2)' = S /\ Settled(next - 1)' = Settled(n)
  BY <1>1, <1>2, <1>3 DEF Assigned, Settled
<1>12. CASE stack' # <<>>
  <2>1. Own' = Own /\ Right(Settled(next - 2))'
    BY <1>1, <1>4, <1>11 DEF Own, Right
  <2>2. Within'
    BY <1>1, <1>2, <1>4, <1>7, <1>9, <1>11, <2>1 DEF Within
  <2> QED
    BY <1>1, <1>10, <1>12, <2>2 DEF IInv
<1>13. CASE stack' = <<>>
  <2>1. NodesOf(stack') = {}
    BY <1>13 DEF NodesOf
  <2>2. root \in DOMAIN g /\ IsFiniteSet(DOMAIN g) /\ Closed(g)
    BY <1>1, <1>4, Given DEF Own, Assigned, TypeOK
  <2>3. S \cap SCC(g, root) = {}
    BY <1>1, <1>2, <1>3, <1>4, <2>2, SettledIsWhole
  <2>4. Own = SCC(g, root)
    <3>1. PICK O \in SUBSET SCC(g, root) : O = Own
      BY <1>4
    <3>2. \A x \in O : transposedG[x] \subseteq S \cup O
      BY <1>4, <1>9, <2>1, <3>1
    <3>3. root \in O
      BY <1>4, <3>1
    <3> QED
      BY <1>1, <2>2, <2>3, <3>1, <3>2, <3>3, ComponentIsWhole
  <2>5. Assigned = Settled(n)
    <3>1. Settled(n) = S \cup SCC(g, root)
      BY <1>2, <1>3, <1>4, SettledMore
    <3> QED
      BY <1>4, <2>4, <3>1
  <2>6. Right(Assigned)
    <3>1. ASSUME NEW x \in Own
          PROVE  component[x] \in SCC(g, x) /\ \A v \in SCC(g, x) : component[v] = component[x]
      <4>1. SCC(g, x) = SCC(g, root)
        BY <1>4, <2>2, SCCSame
      <4> QED
        BY <1>4, <2>4, <4>1
    <3> QED
      BY <1>4, <3>1 DEF Right
  <2>7. Right(Assigned)'
    BY <1>1, <1>11, <2>6 DEF Right
  <2>8. (next - 1)' <= Len(postOrder)'
    BY <1>1, <1>2 DEF TypeOK
  <2> QED
    BY <1>1, <1>10, <1>11, <1>13, <2>5, <2>7, <2>8 DEF IInv, Between
<1> QED
  BY <1>12, <1>13

\* The components FindSCC speaks of are these.
LEMMA SameSCC ==
  ASSUME NEW h, NEW u
  PROVE  Abstract!SCC(h, u) = SCC(h, u)
<1>1. ASSUME NEW S PROVE Abstract!Cardinality(S) = Cardinality(S)
  BY DEF Abstract!Cardinality, Cardinality
<1>2. ASSUME NEW v PROVE Abstract!From(h, v) = From(h, v)
  BY <1>1, Zenon DEF Abstract!From, From
<1> QED
  BY <1>2 DEF Abstract!SCC, SCC

\* When the loop ends every component is named.
LEMMA AllNamed ==
  ASSUME IInv, Return
  PROVE  Abstract!NamesSCCs(g, component)
<1>1. /\ TypeOK /\ Enumerated /\ Between /\ next > Len(postOrder)
  BY DEF IInv, ListInv, Return
<1>2. next - 1 = Len(postOrder) /\ Len(postOrder) \in 0 .. Len(postOrder)
  BY <1>1 DEF TypeOK, Between
<1>3. Closed(g) /\ IsFiniteSet(DOMAIN g)
  BY <1>1, Given DEF TypeOK
<1>4. ASSUME NEW u \in DOMAIN g
      PROVE  /\ component[u] \in SCC(g, u)
             /\ \A v \in SCC(g, u) : component[v] = component[u]
  <2>1. PICK j \in 1 .. Len(postOrder) : u = postOrder[j]
    BY <1>1 DEF Enumerated, Listed
  <2>2. u \in Settled(Len(postOrder))
    BY <1>3, <2>1, SCCSelf DEF Settled
  <2> QED
    BY <1>1, <1>2, <2>2 DEF Between, Right
<1>5. \A u \in DOMAIN g : component[u] \in DOMAIN g
  BY <1>3, <1>4, SCCNodes
<1>6. component \in [DOMAIN g -> DOMAIN g]
  BY <1>1, <1>5 DEF TypeOK
<1>7. ASSUME NEW u \in DOMAIN g, NEW v \in DOMAIN g, component[u] = component[v] PROVE v \in SCC(g, u)
  <2>1. SCC(g, component[u]) = SCC(g, u) /\ SCC(g, component[v]) = SCC(g, v)
    BY <1>3, <1>4, SCCSame
  <2> QED
    BY <1>3, <1>7, <2>1, SCCSelf
<1>8. ASSUME NEW u \in DOMAIN g, NEW v \in DOMAIN g
      PROVE  component[u] = component[v] <=> v \in SCC(g, u)
  BY <1>4, <1>7
<1>9. \A u \in DOMAIN g : Abstract!SCC(g, u) = SCC(g, u)
  BY SameSCC
<1> QED
  BY <1>4, <1>6, <1>8, <1>9 DEF Abstract!NamesSCCs

LEMMA ReturnInv == IInv /\ Return => IInv'
<1> SUFFICES ASSUME IInv, Return PROVE IInv'
  OBVIOUS
<1>1. /\ ListInv /\ TypeOK /\ pc = "assign" /\ pc' = "done"
      /\ UNCHANGED <<g, transposedG, todo, visited, postOrder, stack, next, root, component>>
  BY DEF IInv, ListInv, Return
<1>2. ListInv'
  BY <1>1, ListStays DEF TypeOK
<1>3. Abstract!NamesSCCs(g, component)'
  BY <1>1, AllNamed DEF Abstract!NamesSCCs
<1> QED
  BY <1>1, <1>2, <1>3 DEF IInv

-------------------------------------------------------------------------------
(* Theorems.                                                               *)

LEMMA NextInv == IInv /\ [Next]_vars => IInv'
<1> SUFFICES ASSUME IInv, [Next]_vars PROVE IInv'
  OBVIOUS
<1>1. CASE Start \/ Visit \/ Leave
  BY <1>1, EnumerateInv
<1>2. CASE Turn
  BY <1>2, TurnInv
<1>3. CASE AssignRoot
  BY <1>3, AssignRootInv
<1>4. CASE AssignChild
  BY <1>4, AssignChildInv
<1>5. CASE AssignReturn
  BY <1>5, AssignReturnInv
<1>6. CASE Return
  BY <1>6, ReturnInv
<1>7. CASE UNCHANGED vars
  <2>1. TypeOK' /\ ListedOnce'
    BY <1>7 DEF IInv, ListInv, TypeOK, Calls, ListedOnce, vars
  <2>2. Enumerating => Enumerating'
    BY <1>7 DEF Enumerating, Listed, LeadsOrFollows, vars
  <2>3. Enumerated => Enumerated'
    BY <1>7 DEF Enumerated, Listed, LeadsOrFollows, vars
  <2>4. ListInv'
    BY <1>7, <2>1, <2>2, <2>3 DEF IInv, ListInv, vars
  <2>5. Between => Between'
    BY <1>7 DEF Between, Assigned, Settled, Right, vars
  <2>6. Within => Within'
    BY <1>7 DEF Within, Own, Assigned, Settled, Right, vars
  <2>7. Abstract!NamesSCCs(g, component) => Abstract!NamesSCCs(g, component)'
    BY <1>7 DEF Abstract!NamesSCCs, vars
  <2> QED
    BY <1>7, <2>4, <2>5, <2>6, <2>7 DEF IInv, vars
<1> QED
  BY <1>1, <1>2, <1>3, <1>4, <1>5, <1>6, <1>7 DEF Next

\* The inductive invariant: the first traversal has visited what is listed or on
\* the stack and lists a node behind nothing it leads to, but for nodes of its own
\* component; the second has given the components found, and nothing else, their
\* roots (GraphUtils.h:58-132).
THEOREM Inductive == Spec => []IInv
BY InitInv, NextInv, PTL DEF Spec

\* The first place of a component in the list.
LEMMA LeadIs ==
  ASSUME TypeOK, ListedOnce, Enumerated, NEW u \in DOMAIN g
  PROVE  /\ Lead(u) \in 1 .. Len(postOrder) /\ postOrder[Lead(u)] \in SCC(g, u)
         /\ \A j \in 1 .. Len(postOrder) : postOrder[j] \in From(g, u) => Lead(u) <= j
<1>1. Closed(g) /\ IsFiniteSet(DOMAIN g)
  BY Given DEF TypeOK
<1>2. PICK n \in Nat : n = Len(postOrder) /\ \A i \in 1 .. n : postOrder[i] \in DOMAIN g
  BY DEF TypeOK
<1>3. ASSUME NEW v \in DOMAIN g
      PROVE  Position(v) \in 1 .. n /\ postOrder[Position(v)] = v
  <2>1. \E i \in 1 .. n : postOrder[i] = v
    BY <1>2 DEF Enumerated, Listed
  <2> QED
    BY <1>2, <2>1 DEF Position
<1>4. PICK k \in 1 .. n :
            /\ postOrder[k] \in SCC(g, u)
            /\ \A j \in 1 .. n : postOrder[j] \in From(g, u) => k <= j
  BY <1>2, FirstLeads
<1>5. PICK P : P = {Position(v) : v \in SCC(g, u)}
  OBVIOUS
<1>6. SCC(g, u) \subseteq DOMAIN g
  BY <1>1, SCCNodes
<1>7. P \subseteq Nat /\ P # {}
  BY <1>1, <1>3, <1>5, <1>6, SCCSelf
<1>8. Min(P) \in P /\ \A p \in P : Min(P) <= p
  BY <1>7, MinIs
<1>9. k \in P
  <2>1. Position(postOrder[k]) = k
    BY <1>2, <1>3, <1>4 DEF ListedOnce
  <2> QED
    BY <1>4, <1>5, <2>1
<1>10. \A p \in P : k <= p
  BY <1>3, <1>4, <1>5, <1>6 DEF SCC
<1>11. Min(P) = k
  <2>1. PICK m \in P : m = Min(P) /\ m <= k
    BY <1>8, <1>9
  <2>2. k <= m /\ m \in Nat
    BY <1>7, <1>10, <2>1
  <2> QED
    BY <2>1, <2>2
<1> QED
  BY <1>2, <1>4, <1>5, <1>11 DEF Lead

\* The list of the first traversal holds every node once, and the first node of a
\* component that others depend on stands before the first of theirs
\* (GraphUtils.h:58-77, 118-123).
THEOREM SourcesComeFirst == Spec => []SourcesLead
<1>1. IInv => SourcesLead
  <2> SUFFICES ASSUME IInv, pc = "assign"
               PROVE  /\ Listed = DOMAIN g /\ Len(postOrder) = Cardinality(DOMAIN g)
                      /\ \A u \in DOMAIN g : \A v \in g[u] : v \in SCC(g, u) \/ Lead(u) < Lead(v)
    BY DEF SourcesLead
  <2>1. TypeOK /\ ListedOnce /\ Enumerated
    BY DEF IInv, ListInv
  <2>2. Closed(g) /\ IsFiniteSet(DOMAIN g)
    BY <2>1, Given DEF TypeOK
  <2>3. PICK n \in Nat : n = Len(postOrder) /\ postOrder \in [1 .. n -> DOMAIN g]
    BY <2>1 DEF TypeOK
  <2>4. n = Cardinality(DOMAIN g)
    <3>1. postOrder \in Bijection(1 .. n, DOMAIN g)
      BY <2>1, <2>3 DEF Bijection, Injection, Surjection, ListedOnce, Enumerated, Listed, IsInjective
    <3>2. Cardinality(1 .. n) = n /\ IsFiniteSet(1 .. n)
      BY FS_Interval
    <3> QED
      BY <3>1, <3>2, FS_Bijection, Zenon DEF ExistsBijection
  <2>5. ASSUME NEW u \in DOMAIN g, NEW v \in g[u], v \notin SCC(g, u) PROVE Lead(u) < Lead(v)
    <3>1. v \in DOMAIN g /\ v \in From(g, u)
      BY <2>2, <2>5, FromSelf, FromClosed DEF Closed
    <3>2. /\ Lead(v) \in 1 .. n /\ postOrder[Lead(v)] \in SCC(g, v)
          /\ Lead(u) \in 1 .. n /\ postOrder[Lead(u)] \in SCC(g, u)
          /\ \A j \in 1 .. n : postOrder[j] \in From(g, u) => Lead(u) <= j
      BY <2>1, <2>3, <3>1, LeadIs
    <3>3. Lead(u) <= Lead(v)
      <4>1. postOrder[Lead(v)] \in From(g, u)
        BY <2>2, <3>1, <3>2, FromOn DEF SCC
      <4> QED
        BY <3>2, <4>1
    <3>4. Lead(u) # Lead(v)
      <4>1. ASSUME NEW w \in SCC(g, u), w \in SCC(g, v) PROVE FALSE
        <5>1. SCC(g, w) = SCC(g, u) /\ SCC(g, w) = SCC(g, v)
          BY <2>2, <3>1, <4>1, SCCSame
        <5> QED
          BY <2>2, <2>5, <5>1, SCCSelf
      <4> QED
        BY <3>2, <4>1
    <3> QED
      BY <3>2, <3>3, <3>4
  <2> QED
    BY <2>1, <2>3, <2>4, <2>5 DEF Enumerated
<1> QED
  BY <1>1, Inductive, PTL

\* findSCC implements its promise: what it returns names the strongly connected
\* components of its argument, every other step being invisible
\* (GraphUtils.h:79-132).
THEOREM Implements == Spec => FindsComponents
<1>1. Init => Abstract!Init
  BY DEF Init, Abstract!Init
<1>2. IInv /\ IInv' /\ [Next]_vars => [Abstract!Find]_<<g, IF pc = "done" THEN component ELSE <<>> >>
  <2> SUFFICES ASSUME IInv, IInv', [Next]_vars
               PROVE  [Abstract!Find]_<<g, IF pc = "done" THEN component ELSE <<>> >>
    OBVIOUS
  <2>1. CASE Start \/ Visit \/ Leave \/ Turn \/ AssignRoot \/ AssignChild \/ AssignReturn
    BY <2>1 DEF Start, Visit, Leave, Turn, AssignRoot, AssignChild, AssignReturn
  <2>2. CASE Return
    <3>1. /\ pc = "assign" /\ pc' = "done" /\ g' = g /\ component' = component
          /\ Abstract!NamesSCCs(g, component)
      BY <2>2, AllNamed DEF Return
    <3> QED
      BY <3>1 DEF Abstract!Find, Abstract!NamesSCCs
  <2>3. CASE UNCHANGED vars
    BY <2>3 DEF vars
  <2> QED
    BY <2>1, <2>2, <2>3 DEF Next
<1> QED
  BY <1>1, <1>2, Inductive, PTL DEF Spec, FindsComponents, Abstract!Spec

-------------------------------------------------------------------------------
(* topsort.                                                                *)

\* The edge from u to v has been taken out of gt.
Removed(u, v) == u \in Members(result) /\ ~(u = current /\ v \in deps)

\* gt is the transpose of psg less the removed edges.
GtExact == \A v \in DOMAIN psg : gt[v] = {u \in DOMAIN psg : v \in psg[u] /\ ~Removed(u, v)}

\* The nodes queued or returned are those looked at and without an edge in gt.
Placed == \A v \in DOMAIN psg :
            v \in Members(frontier) \cup Members(result) <=> v \notin unseeded /\ gt[v] = {}

\* Where each phase leaves the variables the others use.
Phases == /\ phase = "seed" => result = <<>> /\ deps = {}
          /\ phase # "seed" => unseeded = {}
          /\ phase = "done" => frontier = <<>> /\ deps = {}
          /\ deps # {} => current \in Members(result) /\ deps \subseteq psg[current]

SortInv == SortTypeOK /\ GtExact /\ Placed /\ Phases /\ Topological /\ RankedOnce

-------------------------------------------------------------------------------

\* The elements of a sequence that grew at its end (push and push_back).
LEMMA MembersAppend ==
    ASSUME NEW S, NEW s \in Seq(S), NEW e \in S
    PROVE  Members(Append(s, e)) = Members(s) \cup {e}
<1>1. Members(Append(s, e)) \subseteq Members(s) \cup {e}
  BY DEF Members
<1>2. \A i \in 1..Len(s) : i \in 1..Len(Append(s, e)) /\ Append(s, e)[i] = s[i]
  OBVIOUS
<1>3. Len(s) + 1 \in 1..Len(Append(s, e)) /\ Append(s, e)[Len(s) + 1] = e
  OBVIOUS
<1>4. Members(s) \cup {e} \subseteq Members(Append(s, e))
  BY <1>2, <1>3 DEF Members
<1> QED BY <1>1, <1>4

\* The elements of a queue whose head is taken (front and pop).
LEMMA MembersTail ==
    ASSUME NEW S, NEW s \in Seq(S), s # <<>>
    PROVE  /\ Members(s) = Members(Tail(s)) \cup {Head(s)}
           /\ Head(s) \in S
           /\ (\A i, j \in 1..Len(s) : s[i] = s[j] => i = j)
                => /\ Head(s) \notin Members(Tail(s))
                   /\ \A i, j \in 1..Len(Tail(s)) : Tail(s)[i] = Tail(s)[j] => i = j
<1>1. /\ Len(s) \in Nat /\ Len(s) >= 1 /\ Head(s) = s[1]
      /\ Tail(s) \in Seq(S) /\ Len(Tail(s)) = Len(s) - 1
      /\ \A i \in 1..Len(Tail(s)) : Tail(s)[i] = s[i + 1]
  OBVIOUS
<1>2. Members(Tail(s)) \cup {Head(s)} \subseteq Members(s)
  BY <1>1 DEF Members
<1>3. ASSUME NEW i \in 1..Len(s) PROVE s[i] \in Members(Tail(s)) \cup {Head(s)}
  <2>1. CASE i = 1
    BY <2>1, <1>1
  <2>2. CASE i # 1
    <3>1. i - 1 \in 1..Len(Tail(s)) /\ Tail(s)[i - 1] = s[i]
      BY <2>2, <1>1
    <3> QED BY <3>1 DEF Members
  <2> QED BY <2>1, <2>2
<1>4. Members(s) = Members(Tail(s)) \cup {Head(s)}
  BY <1>2, <1>3 DEF Members
<1>5. Head(s) \in S
  BY <1>1
<1>6. ASSUME \A i, j \in 1..Len(s) : s[i] = s[j] => i = j
      PROVE  /\ Head(s) \notin Members(Tail(s))
             /\ \A i, j \in 1..Len(Tail(s)) : Tail(s)[i] = Tail(s)[j] => i = j
  BY <1>1, <1>6 DEF Members
<1> QED BY <1>4, <1>5, <1>6

\* Appending a new element keeps a sequence without repetitions.
LEMMA AppendNew ==
    ASSUME NEW S, NEW s \in Seq(S), NEW e \in S, e \notin Members(s),
           \A i, j \in 1..Len(s) : s[i] = s[j] => i = j
    PROVE  \A i, j \in 1..Len(Append(s, e)) :
               Append(s, e)[i] = Append(s, e)[j] => i = j
BY DEF Members

-------------------------------------------------------------------------------

\* topsort begins with the whole transpose and nothing placed.
LEMMA InitSortInv == SortInit => SortInv
<1> SUFFICES ASSUME SortInit PROVE SortInv
  OBVIOUS
<1>1. psg \in PSGs /\ psg \in [DOMAIN psg -> SUBSET DOMAIN psg]
  BY PSGsAssumption DEF SortInit
<1>2. DOMAIN psg \cup UNION {psg[u] : u \in DOMAIN psg} = DOMAIN psg
  BY <1>1
<1>3. gt = [x \in DOMAIN psg |-> {u \in DOMAIN psg : x \in psg[u]}]
  BY <1>2 DEF SortInit, transpose
<1>4. Members(result) = {} /\ Members(frontier) = {}
  BY DEF SortInit, Members
<1>5. SortTypeOK
  BY <1>1, <1>3 DEF SortInit, SortTypeOK
<1>6. GtExact
  BY <1>3, <1>4 DEF GtExact, Removed
<1>7. Placed
  BY <1>3, <1>4 DEF Placed, SortInit
<1>8. Phases /\ Topological /\ RankedOnce
  BY <1>4 DEF SortInit, Phases, Topological, RankedOnce
<1> QED BY <1>5, <1>6, <1>7, <1>8 DEF SortInv

\* The seeding loop queues a node exactly if it depends on nothing.
LEMMA SeedStep == SortInv /\ Seed => SortInv'
<1> SUFFICES ASSUME SortInv, NEW v \in unseeded,
                    phase = "seed", unseeded' = unseeded \ {v},
                    frontier' = IF gt[v] = {} THEN Append(frontier, v) ELSE frontier,
                    UNCHANGED <<phase, psg, gt, result, current, deps>>
             PROVE  SortInv'
  BY DEF Seed
<1> USE DEF SortInv
<1>1. v \in DOMAIN psg /\ frontier \in Seq(DOMAIN psg)
  BY DEF SortTypeOK
<1>2. v \notin Members(frontier) \cup Members(result)
  BY <1>1 DEF Placed
<1>3. Members(Append(frontier, v)) = Members(frontier) \cup {v}
  BY <1>1, MembersAppend
<1>4. SortTypeOK'
  <2>1. Append(frontier, v) \in Seq(DOMAIN psg)
    BY <1>1
  <2>2. frontier' \in Seq(DOMAIN psg)
    BY <1>1, <2>1
  <2>3. unseeded' \subseteq DOMAIN psg
    BY DEF SortTypeOK
  <2> QED BY <2>2, <2>3 DEF SortTypeOK
<1>5. Members(result') = Members(result)
  OBVIOUS
<1>6. GtExact'
  BY DEF GtExact, Removed
<1>7. Placed'
  <2>1. CASE gt[v] = {}
    <3>1. Members(frontier') = Members(frontier) \cup {v}
      BY <2>1, <1>3
    <3> QED BY <3>1, <2>1, <1>1, <1>5 DEF Placed
  <2>2. CASE gt[v] # {}
    <3>1. frontier' = frontier
      BY <2>2
    <3> QED BY <3>1, <2>2, <1>1, <1>5 DEF Placed
  <2> QED BY <2>1, <2>2
<1>8. Phases'
  BY DEF Phases
<1>9. Topological'
  BY DEF Topological
<1>10. RankedOnce'
  <2>1. CASE gt[v] = {}
    <3>1. \A i, j \in 1..Len(frontier') : frontier'[i] = frontier'[j] => i = j
      BY <2>1, <1>1, <1>2, AppendNew DEF RankedOnce
    <3>2. Members(frontier') \cap Members(result') = {}
      BY <2>1, <1>2, <1>3, <1>5 DEF RankedOnce
    <3> QED BY <3>1, <3>2 DEF RankedOnce
  <2>2. CASE gt[v] # {}
    BY <2>2 DEF RankedOnce
  <2> QED BY <2>1, <2>2
<1> QED BY <1>4, <1>6, <1>7, <1>8, <1>9, <1>10

\* Leaving the seeding loop changes the phase only.
LEMMA SeededStep == SortInv /\ Seeded => SortInv'
BY DEF SortInv, Seeded, SortTypeOK, GtExact, Removed, Placed, Phases, Topological, RankedOnce, Members

\* The popped node joins the result: what it depends on is there already.
LEMMA PopStep == SortInv /\ Pop => SortInv'
<1> SUFFICES ASSUME SortInv, Pop PROVE SortInv'
  OBVIOUS
<1> USE DEF SortInv
<1> DEFINE h == Head(frontier)
<1>1. /\ phase = "loop" /\ deps = {} /\ frontier # <<>> /\ unseeded = {}
      /\ frontier \in Seq(DOMAIN psg) /\ result \in Seq(DOMAIN psg)
      /\ psg \in [DOMAIN psg -> SUBSET DOMAIN psg]
      /\ UNCHANGED <<phase, psg, gt, unseeded>>
      /\ frontier' = Tail(frontier) /\ result' = Append(result, h)
      /\ current' = h /\ deps' = psg[h]
  BY PSGsAssumption DEF Pop, SortTypeOK, Phases, getDependants
<1>2. /\ h \in DOMAIN psg
      /\ Members(frontier) = Members(frontier') \cup {h}
      /\ h \notin Members(frontier')
      /\ \A i, j \in 1..Len(frontier') : frontier'[i] = frontier'[j] => i = j
  <2>1. PICK u \in Seq(DOMAIN psg) : u = frontier
    BY <1>1
  <2>2. u # <<>> /\ frontier' = Tail(u) /\ h = Head(u)
    BY <1>1, <2>1
  <2>3. \A i, j \in 1..Len(u) : u[i] = u[j] => i = j
    BY <2>1 DEF RankedOnce
  <2>4. /\ Head(u) \in DOMAIN psg
        /\ Members(u) = Members(Tail(u)) \cup {Head(u)}
        /\ Head(u) \notin Members(Tail(u))
        /\ \A i, j \in 1..Len(Tail(u)) : Tail(u)[i] = Tail(u)[j] => i = j
    BY <2>2, <2>3, MembersTail
  <2>5. h \in DOMAIN psg /\ h \notin Members(frontier')
    BY <2>2, <2>4
  <2>6. Members(frontier) = Members(frontier') \cup {h}
    BY <2>1, <2>2, <2>4
  <2>7. \A i, j \in 1..Len(frontier') : frontier'[i] = frontier'[j] => i = j
    BY <2>2, <2>4
  <2> QED
    BY <2>5, <2>6, <2>7
<1>3. Members(result') = Members(result) \cup {h}
  BY <1>1, <1>2, MembersAppend
<1>4. h \notin Members(result)
  BY <1>2 DEF RankedOnce
<1>5. SortTypeOK'
  BY <1>1, <1>2 DEF SortTypeOK
<1>6. GtExact'
  BY <1>1, <1>3, <1>4 DEF GtExact, Removed
<1>7. Placed'
  BY <1>1, <1>2, <1>3 DEF Placed
<1>8. Phases'
  BY <1>1, <1>3 DEF Phases
<1>9. \A u \in DOMAIN psg : h \in psg[u] => u \in Members(result)
  <2>1. gt[h] = {}
    BY <1>2 DEF Placed
  <2> QED BY <2>1, <1>2 DEF GtExact, Removed
<1>10. Topological'
  <2> SUFFICES ASSUME NEW j \in 1..Len(result'), NEW u \in DOMAIN psg, result'[j] \in psg[u]
               PROVE  \E i \in 1..j-1 : result'[i] = u
    BY <1>1 DEF Topological
  <2>1. /\ Len(result) \in Nat /\ Len(result') = Len(result) + 1
        /\ result'[Len(result) + 1] = h
        /\ \A i \in 1..Len(result) : result'[i] = result[i]
    BY <1>1, <1>2
  <2>2. CASE j = Len(result) + 1
    <3>1. PICK i \in 1..Len(result) : result[i] = u
      BY <2>1, <2>2, <1>9 DEF Members
    <3> QED BY <3>1, <2>1, <2>2
  <2>3. CASE j # Len(result) + 1
    <3>1. j \in 1..Len(result) /\ result[j] \in psg[u]
      BY <2>1, <2>3
    <3>2. PICK i \in 1..j-1 : result[i] = u
      BY <3>1 DEF Topological
    <3> QED BY <3>1, <3>2, <2>1
  <2> QED BY <2>2, <2>3
<1>11. RankedOnce'
  <2>1. \A i, j \in 1..Len(result') : result'[i] = result'[j] => i = j
    <3>1. \A i, j \in 1..Len(result) : result[i] = result[j] => i = j
      BY DEF RankedOnce
    <3> QED
      BY <1>1, <1>2, <1>4, <3>1, AppendNew
  <2>2. Members(frontier') \cap Members(result') = {}
    BY <1>2, <1>3 DEF RankedOnce
  <2> QED BY <2>1, <2>2, <1>2 DEF RankedOnce
<1> QED BY <1>5, <1>6, <1>7, <1>8, <1>10, <1>11

\* A dependant is queued with the removal of the last edge into it, once.
LEMMA RelaxStep == SortInv /\ Relax => SortInv'
<1> SUFFICES ASSUME SortInv, NEW m \in deps, phase = "loop",
                    deps' = deps \ {m}, gt' = removeEdge(gt, m, current),
                    frontier' = IF gt'[m] = {} THEN Append(frontier, m) ELSE frontier,
                    UNCHANGED <<phase, psg, unseeded, result, current>>
             PROVE  SortInv'
  BY DEF Relax
<1> USE DEF SortInv
<1>1. /\ unseeded = {} /\ m \in DOMAIN psg /\ current \in DOMAIN psg /\ m \in psg[current]
      /\ current \in Members(result) /\ deps \subseteq psg[current]
      /\ gt \in [DOMAIN psg -> SUBSET DOMAIN psg]
      /\ frontier \in Seq(DOMAIN psg)
  BY DEF SortTypeOK, Phases
<1>2. /\ gt' = [gt EXCEPT ![m] = gt[m] \ {current}]
      /\ gt'[m] = gt[m] \ {current}
      /\ \A v \in DOMAIN psg : v # m => gt'[v] = gt[v]
  BY <1>1 DEF removeEdge
<1>3. current \in gt[m]
  BY <1>1 DEF GtExact, Removed
<1>4. m \notin Members(frontier) \cup Members(result)
  BY <1>1, <1>3 DEF Placed
<1>5. Members(Append(frontier, m)) = Members(frontier) \cup {m}
  BY <1>1, MembersAppend
<1>6. Members(result') = Members(result)
  OBVIOUS
<1>7. SortTypeOK'
  <2>1. Append(frontier, m) \in Seq(DOMAIN psg)
    BY <1>1
  <2>2. frontier' \in Seq(DOMAIN psg)
    BY <1>1, <2>1
  <2>3. gt' \in [DOMAIN psg -> SUBSET DOMAIN psg]
    BY <1>1, <1>2
  <2>4. deps' \subseteq DOMAIN psg
    BY DEF SortTypeOK
  <2> QED BY <1>1, <2>2, <2>3, <2>4 DEF SortTypeOK
<1>8. GtExact'
  <2> SUFFICES ASSUME NEW v \in DOMAIN psg
               PROVE  gt'[v] = {u \in DOMAIN psg : v \in psg[u] /\ ~Removed(u, v)'}
    BY DEF GtExact
  <2>1. \A u \in DOMAIN psg : Removed(u, v)' <=> Removed(u, v) \/ (u = current /\ v = m)
    BY <1>1, <1>6 DEF Removed
  <2>2. CASE v = m
    BY <2>1, <2>2, <1>2 DEF GtExact
  <2>3. CASE v # m
    BY <2>1, <2>3, <1>2 DEF GtExact
  <2> QED BY <2>2, <2>3
<1>9. Placed'
  <2>1. CASE gt'[m] = {}
    <3>1. Members(frontier') = Members(frontier) \cup {m}
      BY <2>1, <1>5
    <3> QED BY <3>1, <2>1, <1>1, <1>2, <1>6 DEF Placed
  <2>2. CASE gt'[m] # {}
    <3>1. frontier' = frontier
      BY <2>2
    <3> QED BY <3>1, <2>2, <1>1, <1>2, <1>4, <1>6 DEF Placed
  <2> QED BY <2>1, <2>2
<1>10. Phases'
  BY <1>1, <1>6 DEF Phases
<1>11. Topological'
  BY DEF Topological
<1>12. RankedOnce'
  <2>1. CASE gt'[m] = {}
    <3>1. \A i, j \in 1..Len(frontier') : frontier'[i] = frontier'[j] => i = j
      BY <2>1, <1>1, <1>4, AppendNew DEF RankedOnce
    <3>2. Members(frontier') \cap Members(result') = {}
      BY <2>1, <1>4, <1>5, <1>6 DEF RankedOnce
    <3> QED BY <3>1, <3>2 DEF RankedOnce
  <2>2. CASE gt'[m] # {}
    BY <2>2 DEF RankedOnce
  <2> QED BY <2>1, <2>2
<1> QED BY <1>7, <1>8, <1>9, <1>10, <1>11, <1>12

\* Returning changes the phase only.
LEMMA ReturnStep == SortInv /\ SortReturn => SortInv'
BY DEF SortInv, SortReturn, SortTypeOK, GtExact, Removed, Placed, Phases, Topological, RankedOnce, Members

\* Every step of topsort keeps the invariant.
LEMMA NextSortInv == SortInv /\ [SortNext]_sortVars => SortInv'
<1> SUFFICES ASSUME SortInv, [SortNext]_sortVars PROVE SortInv'
  OBVIOUS
<1>1. CASE Seed BY <1>1, SeedStep
<1>2. CASE Seeded BY <1>2, SeededStep
<1>3. CASE Pop BY <1>3, PopStep
<1>4. CASE Relax BY <1>4, RelaxStep
<1>5. CASE SortReturn BY <1>5, ReturnStep
<1>6. CASE UNCHANGED sortVars
  <2> USE <1>6 DEF sortVars, SortInv
  <2>1. SortTypeOK'
    BY DEF SortTypeOK
  <2>2. GtExact' /\ Placed' /\ Phases'
    BY DEF GtExact, Removed, Placed, Phases, Members
  <2>3. Topological'
    <3> SUFFICES ASSUME NEW j \in 1..Len(result), NEW u \in DOMAIN psg, result[j] \in psg[u]
                 PROVE  \E i \in 1..j-1 : result[i] = u
      BY DEF Topological
    <3> QED BY DEF Topological
  <2>4. RankedOnce'
    BY DEF RankedOnce, Members
  <2> QED BY <2>1, <2>2, <2>3, <2>4
<1> QED BY <1>1, <1>2, <1>3, <1>4, <1>5, <1>6 DEF SortNext

-------------------------------------------------------------------------------

\* The inductive invariant holds of every graph topsort may be given.
THEOREM SortInductive == SortSpec => []SortInv
BY InitSortInv, NextSortInv, PTL DEF SortSpec

\* The variables of topsort keep their types.
THEOREM SortTypeCorrect == SortSpec => []SortTypeOK
BY SortInductive, PTL DEF SortInv

\* A dependence never points to a smaller rank (GraphUtils.h:152-155).
THEOREM DependencesGoForward == SortSpec => []Topological
BY SortInductive, PTL DEF SortInv

\* No component is ranked twice (GraphUtils.h:138-141, 153-155).
THEOREM NoSecondRank == SortSpec => []RankedOnce
BY SortInductive, PTL DEF SortInv

\* What topsort leaves out is stuck behind something it leaves out, so of an
\* acyclic graph it leaves nothing out (GraphUtils.h:145-157).
THEOREM LeavesOutStuckOnly == SortSpec => []OnlyStuckLeftOut
<1>1. SortInv => OnlyStuckLeftOut
  <2> SUFFICES ASSUME SortInv, phase = "done", NEW v \in DOMAIN psg \ Members(result)
               PROVE  \E u \in DOMAIN psg \ Members(result) : v \in psg[u]
    BY DEF OnlyStuckLeftOut
  <2>1. unseeded = {} /\ Members(frontier) = {} /\ deps = {}
    BY DEF SortInv, Phases, Members
  <2>2. gt[v] # {}
    BY <2>1 DEF SortInv, Placed
  <2>3. PICK u \in DOMAIN psg : v \in psg[u] /\ ~Removed(u, v)
    BY <2>2 DEF SortInv, GtExact
  <2> QED BY <2>1, <2>3 DEF Removed
<1> QED BY <1>1, SortInductive, PTL

-------------------------------------------------------------------------------
(* What topsort returns.                                                    *)

ReturnsCycleFree == phase = "done" => Members(result) = CycleFree(psg)

\* All that leads to a ranked node is ranked, and no later.
LEMMA RanksReachBack ==
  ASSUME SortInv, NEW t, t = transpose(psg), NEW k \in 1 .. Len(result), NEW u \in From(t, result[k])
  PROVE  \E i \in 1 .. k : result[i] = u
<1>1. /\ psg \in [DOMAIN psg -> SUBSET DOMAIN psg] /\ Graph(psg) /\ IsFiniteSet(DOMAIN psg)
      /\ result \in Seq(DOMAIN psg)
  BY PSGsAssumption DEF SortInv, SortTypeOK, Graph, Closed
<1>2. DOMAIN t = DOMAIN psg /\ \A x \in DOMAIN psg : t[x] = {w \in DOMAIN psg : x \in psg[w]}
  BY <1>1, TransposeGraph, TransposeSlot
<1> DEFINE Before == {result[i] : i \in 1 .. k}
<1>3. result[k] \in Before
  BY <1>1
<1>4. ASSUME NEW i \in 1 .. k, NEW w \in t[result[i]] PROVE w \in Before
  <2>1. i \in 1 .. Len(result) /\ result[i] \in DOMAIN psg
    BY <1>1
  <2>2. w \in DOMAIN psg /\ result[i] \in psg[w]
    BY <1>2, <1>4, <2>1
  <2>3. PICK j \in 1 .. i - 1 : result[j] = w
    BY <2>1, <2>2 DEF SortInv, Topological
  <2> QED
    BY <2>3
<1>5. From(t, result[k]) \subseteq Before
  <2>1. \A x \in Before : t[x] \subseteq Before
    BY <1>4
  <2> HIDE DEF Before
  <2> QED
    BY <1>1, <1>2, <1>3, <2>1, FromLeast
<1> QED
  BY <1>5

\* topsort returns the nodes no cycle leads to: all of an acyclic graph, such
\* as a PSG (GraphUtils.h:145-157).
THEOREM ReturnsWhatNoCycleLeadsTo == SortSpec => []ReturnsCycleFree
<1>1. SortInv /\ OnlyStuckLeftOut => ReturnsCycleFree
  <2> SUFFICES ASSUME SortInv, OnlyStuckLeftOut, phase = "done" PROVE Members(result) = CycleFree(psg)
    BY DEF ReturnsCycleFree
  <2>1. PICK t : t = transpose(psg)
    OBVIOUS
  <2>2. /\ psg \in [DOMAIN psg -> SUBSET DOMAIN psg] /\ Graph(psg) /\ Closed(psg) /\ IsFiniteSet(DOMAIN psg)
        /\ result \in Seq(DOMAIN psg)
    BY PSGsAssumption DEF SortInv, SortTypeOK, Graph, Closed
  <2>3. DOMAIN t = DOMAIN psg /\ Closed(t) /\ \A x \in DOMAIN psg : t[x] = {w \in DOMAIN psg : x \in psg[w]}
    BY <2>1, <2>2, TransposeGraph, TransposeSlot DEF Graph
  <2>4. ASSUME NEW v \in Members(result), NEW u \in DOMAIN psg, OnCycle(psg, u), v \in From(psg, u)
        PROVE  FALSE
    <3>1. PICK k \in 1 .. Len(result) : result[k] = v
      BY DEF Members
    <3>2. v \in DOMAIN psg /\ u \in From(t, v)
      BY <2>1, <2>2, <2>4, <3>1, FromBack
    <3>3. PICK i \in 1 .. k : result[i] = u
      BY <2>1, <3>1, <3>2, RanksReachBack
    <3>4. PICK w \in psg[u] : u \in From(psg, w)
      BY <2>4 DEF OnCycle
    <3>5. w \in DOMAIN psg /\ w \in From(t, u)
      BY <2>1, <2>2, <3>4, FromBack
    <3>6. i \in 1 .. Len(result)
      BY <2>2, <3>3
    <3>7. PICK j \in 1 .. i : result[j] = w
      BY <2>1, <3>3, <3>5, <3>6, RanksReachBack
    <3>8. j \in 1 .. Len(result)
      BY <2>2, <3>6, <3>7
    <3>9. PICK l \in 1 .. j - 1 : result[l] = u
      BY <3>4, <3>7, <3>8 DEF SortInv, Topological
    <3>10. l \in 1 .. Len(result) /\ l # i
      BY <2>2, <3>6, <3>7, <3>8, <3>9
    <3> QED
      BY <3>3, <3>6, <3>9, <3>10 DEF SortInv, RankedOnce
  <2>5. ASSUME NEW v \in DOMAIN psg, v \notin Members(result),
               \A u \in DOMAIN psg : OnCycle(psg, u) => v \notin From(psg, u)
        PROVE  FALSE
    <3> DEFINE S == From(t, v) \ Members(result)
    <3>1. S \subseteq DOMAIN psg /\ v \in S
      BY <2>2, <2>3, <2>5, FromSelf, FromClosed
    <3>2. \A u \in S : ~OnCycle(psg, u)
      BY <2>1, <2>2, <2>5, <3>1, FromBack
    <3>3. PICK x \in S : \A u \in S : x \notin psg[u]
      <4> HIDE DEF S
      <4> QED
        BY <2>2, <3>1, <3>2, AcyclicHasSource
    <3>4. PICK u \in DOMAIN psg \ Members(result) : x \in psg[u]
      BY <3>1, <3>3 DEF OnlyStuckLeftOut
    <3>5. u \in t[x]
      BY <2>3, <3>1, <3>3, <3>4
    <3>6. u \in From(t, v)
      BY <2>2, <2>3, <3>3, <3>5, FromClosed
    <3> QED
      BY <3>3, <3>4, <3>6
  <2>6. Members(result) \subseteq DOMAIN psg
    BY <2>2 DEF Members
  <2> QED
    BY <2>4, <2>5, <2>6 DEF CycleFree
<1> QED
  BY <1>1, SortInductive, LeavesOutStuckOnly, PTL

-------------------------------------------------------------------------------
(* The source report.                                                       *)

\* Of an acyclic graph topsort leaves nothing out.
LEMMA NothingLeftOut ==
  ASSUME SortInv, OnlyStuckLeftOut, phase = "done", Acyclic(psg)
  PROVE  Members(result) = DOMAIN psg
<1>1. psg \in PSGs /\ result \in Seq(DOMAIN psg)
  BY DEF SortInv, SortTypeOK
<1>2. Graph(psg) /\ IsFiniteSet(DOMAIN psg)
  BY <1>1, PSGsAssumption DEF Graph, Closed
<1>3. Members(result) \subseteq DOMAIN psg
  BY <1>1 DEF Members
<1>4. ASSUME DOMAIN psg \ Members(result) # {} PROVE FALSE
  <2>1. PICK v \in DOMAIN psg \ Members(result) : \A u \in DOMAIN psg \ Members(result) : v \notin psg[u]
    BY <1>2, <1>4, AcyclicHasSource DEF Acyclic
  <2> QED
    BY <2>1 DEF OnlyStuckLeftOut
<1> QED
  BY <1>3, <1>4

\* find() finds a component in the result at the one place where it is.
LEMMA RankIsPlace ==
  ASSUME SortInv, NEW i \in 1 .. Len(result)
  PROVE  rank(result[i]) = i - 1
<1>1. result \in Seq(DOMAIN psg) /\ \A j, k \in 1 .. Len(result) : result[j] = result[k] => j = k
  BY DEF SortInv, SortTypeOK, RankedOnce
<1>2. PICK first : first = CHOOSE k \in 1 .. Len(result) : /\ result[k] = result[i]
                                                         /\ \A j \in 1 .. k - 1 : result[j] # result[i]
  OBVIOUS
<1>3. i \in 1 .. Len(result) /\ \A j \in 1 .. i - 1 : result[j] # result[i]
  BY <1>1
<1>4. first = i
  BY <1>1, <1>2, <1>3
<1> QED
  BY <1>2, <1>4 DEF rank

\* The ranks of an acyclic graph follow its edges, and the report by ranks says
\* which components have an instruction on a line and no more
\* (SourceToPSGPrinter.cpp:55-75).
THEOREM ReportCanBeReadBack == SortSpec => []ReportReadsBack
<1>1. SortInv /\ OnlyStuckLeftOut => ReportReadsBack
  <2> SUFFICES ASSUME SortInv, OnlyStuckLeftOut, phase = "done", Acyclic(psg) PROVE ReportReadsBack
    BY DEF ReportReadsBack
  <2>1. psg \in [DOMAIN psg -> SUBSET DOMAIN psg] /\ result \in Seq(DOMAIN psg)
    BY PSGsAssumption DEF SortInv, SortTypeOK
  <2>2. \A u \in DOMAIN psg : \E i \in 1 .. Len(result) : result[i] = u /\ rank(u) = i - 1
    BY NothingLeftOut, RankIsPlace DEF Members
  <2>3. ASSUME NEW u \in DOMAIN psg, NEW v \in psg[u] PROVE rank(u) < rank(v)
    <3>1. v \in DOMAIN psg
      BY <2>1
    <3>2. PICK j \in 1 .. Len(result) : result[j] = v /\ rank(v) = j - 1
      BY <2>2, <3>1
    <3>3. PICK i \in 1 .. j - 1 : result[i] = u
      BY <3>2 DEF SortInv, Topological
    <3>4. i \in 1 .. Len(result) /\ i < j
      BY <2>1, <3>2, <3>3
    <3>5. rank(u) = i - 1
      BY <3>3, <3>4, RankIsPlace
    <3> QED
      BY <3>2, <3>4, <3>5
  <2>4. ASSUME NEW u \in DOMAIN psg, NEW v \in DOMAIN psg, rank(u) = rank(v) PROVE u = v
    <3>1. PICK i \in 1 .. Len(result) : result[i] = u /\ rank(u) = i - 1
      BY <2>2
    <3>2. PICK j \in 1 .. Len(result) : result[j] = v /\ rank(v) = j - 1
      BY <2>2
    <3>3. i = j
      <4>1. i \in Int /\ j \in Int
        OBVIOUS
      <4>2. i - 1 = j - 1
        BY <2>4, <3>1, <3>2
      <4> QED
        BY <4>1, <4>2
    <3> QED
      BY <3>1, <3>2, <3>3
  <2>5. ASSUME NEW located \in SUBSET ((DOMAIN psg) \X Lines),
               NEW report, report = lineToSCCs(located)
        PROVE  located = UNION {{<<v, line>> : v \in {w \in DOMAIN psg : rank(w) \in report[line]}}
                                : line \in DOMAIN report}
    <3>1. /\ DOMAIN report = {at[2] : at \in located}
          /\ \A line \in DOMAIN report :
               report[line] = {rank(at[1]) : at \in {a \in located : a[2] = line}}
      BY <2>5 DEF lineToSCCs
    <3>2. \A at \in located : at = <<at[1], at[2]>> /\ at[1] \in DOMAIN psg
      OBVIOUS
    <3>3. ASSUME NEW w \in DOMAIN psg, NEW line \in DOMAIN report
          PROVE  rank(w) \in report[line] <=> <<w, line>> \in located
      BY <2>4, <3>1, <3>2
    <3> DEFINE Read == UNION {{<<v, line>> : v \in {w \in DOMAIN psg : rank(w) \in report[line]}}
                              : line \in DOMAIN report}
    <3>4. Read \subseteq located
      BY <3>3
    <3>5. ASSUME NEW at \in located PROVE at \in Read
      <4>1. at[2] \in DOMAIN report /\ at[1] \in DOMAIN psg /\ at = <<at[1], at[2]>>
        BY <3>1, <3>2
      <4>2. rank(at[1]) \in report[at[2]]
        BY <3>3, <4>1
      <4> QED
        BY <4>1, <4>2
    <3> QED
      BY <3>4, <3>5
  <2> QED
    BY <2>3, <2>5 DEF ReportReadsBack
<1> QED
  BY <1>1, SortInductive, LeavesOutStuckOnly, PTL

===============================================================================
