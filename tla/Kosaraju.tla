------------------------------- MODULE Kosaraju -------------------------------
(***************************************************************************)
(* GraphUtils::findSCC (pass/include/GraphUtils.h:58-132): Kosaraju's      *)
(* algorithm.  postOrderEnumerate and assignComponent are recursive; stack *)
(* holds their active calls, the innermost first, each with the dependants *)
(* its loop has still to visit.  std::map and std::set iterate in address  *)
(* order: nodes are numbers, and as all labelled graphs are inputs, so are *)
(* all address orders.                                                     *)
(***************************************************************************)
EXTENDS Integers, Sequences, FiniteSetsExt, DepGraph, Reach

CONSTANTS Graphs,    \* the graphs findSCC may be given
          Null       \* nullptr

ASSUME GraphsAssumption ==
    \A h \in Graphs : /\ DOMAIN h \subseteq Nat /\ IsFiniteSet(DOMAIN h)
                      /\ h \in [DOMAIN h -> SUBSET DOMAIN h]
ASSUME NullAssumption == \A h \in Graphs : Null \notin DOMAIN h

VARIABLES pc,           \* "enumerate", "assign" or "done"
          g,            \* the argument
          transposedG,
          todo,         \* nodes the first loop has still to start from
          visited,      \* the nodes mapped to true
          postOrder,    \* the nodes left, the last one first
          stack,        \* active calls: [node, rest]
          next,         \* index in postOrder of the second loop
          root,         \* the root argument of the calls on the stack
          component

vars == <<pc, g, transposedG, todo, visited, postOrder, stack, next, root, component>>

Call(u, h) == <<[node |-> u, rest |-> getDependants(h, u)]>>
Top == Head(stack)
Child == Min(Top.rest)
\* Mutant: the iterator is not incremented.
AdvancedNowhere == stack

\* The innermost call moved on past its current child.
Advanced == [stack EXCEPT ![1].rest = @ \ {Child}]

Init == /\ pc = "enumerate"
        /\ g \in Graphs
        /\ transposedG = transpose(g)
        /\ todo = DOMAIN transposedG
        /\ visited = {}
        /\ postOrder = <<>> /\ stack = <<>>
        /\ next = 1 /\ root = Null
        /\ component = [u \in DOMAIN g |-> Null]

-------------------------------------------------------------------------------
(* The first traversal: lists the nodes of g, the last one left first.      *)

\* postOrderEnumerate(u) over a stack of suspended calls.
Enumerate(u, suspended) ==
    IF u \in visited
      THEN stack' = suspended /\ UNCHANGED visited
      ELSE stack' = Call(u, g) \o suspended /\ visited' = visited \cup {u}

Start == /\ pc = "enumerate" /\ stack = <<>> /\ todo # {}
         /\ todo' = todo \ {Min(todo)}
         /\ Enumerate(Min(todo), <<>>)
         /\ UNCHANGED <<pc, g, transposedG, postOrder, next, root, component>>

Visit == /\ pc = "enumerate" /\ stack # <<>> /\ Top.rest # {}
         /\ Enumerate(Child, Advanced)
         /\ UNCHANGED <<pc, g, transposedG, todo, postOrder, next, root, component>>

\* Mutant: push_back instead of an insertion at the beginning.
LeaveLast == /\ pc = "enumerate" /\ stack # <<>> /\ Top.rest = {}
             /\ postOrder' = Append(postOrder, Top.node)
             /\ stack' = Tail(stack)
             /\ UNCHANGED <<pc, g, transposedG, todo, visited, next, root, component>>

Leave == /\ pc = "enumerate" /\ stack # <<>> /\ Top.rest = {}
         /\ postOrder' = <<Top.node>> \o postOrder
         /\ stack' = Tail(stack)
         /\ UNCHANGED <<pc, g, transposedG, todo, visited, next, root, component>>

Turn == /\ pc = "enumerate" /\ stack = <<>> /\ todo = {}
        /\ pc' = "assign"
        /\ UNCHANGED <<g, transposedG, todo, visited, postOrder, stack, next, root, component>>

-------------------------------------------------------------------------------
(* The second traversal: from each listed node, the transposed edges.       *)

\* Mutant: the second traversal follows the edges of g itself.
AssignAlong(u, r, suspended) ==
    IF component[u] # Null
      THEN stack' = suspended /\ UNCHANGED component
      ELSE stack' = Call(u, g) \o suspended /\ component' = [component EXCEPT ![u] = r]

\* assignComponent(u, r) over a stack of suspended calls.
Assign(u, r, suspended) ==
    IF component[u] # Null
      THEN stack' = suspended /\ UNCHANGED component
      ELSE stack' = Call(u, transposedG) \o suspended /\ component' = [component EXCEPT ![u] = r]

AssignRoot == /\ pc = "assign" /\ stack = <<>> /\ next <= Len(postOrder)
              /\ root' = postOrder[next]
              /\ next' = next + 1
              /\ Assign(postOrder[next], postOrder[next], <<>>)
              /\ UNCHANGED <<pc, g, transposedG, todo, visited, postOrder>>

AssignChild == /\ pc = "assign" /\ stack # <<>> /\ Top.rest # {}
               /\ Assign(Child, root, Advanced)
               /\ UNCHANGED <<pc, g, transposedG, todo, visited, postOrder, next, root>>

AssignReturn == /\ pc = "assign" /\ stack # <<>> /\ Top.rest = {}
                /\ stack' = Tail(stack)
                /\ UNCHANGED <<pc, g, transposedG, todo, visited, postOrder, next, root, component>>

Return == /\ pc = "assign" /\ stack = <<>> /\ next > Len(postOrder)
          /\ pc' = "done"
          /\ UNCHANGED <<g, transposedG, todo, visited, postOrder, stack, next, root, component>>

Next == Start \/ Visit \/ Leave \/ Turn \/ AssignRoot \/ AssignChild \/ AssignReturn \/ Return

Spec == Init /\ [][Next]_vars
FairSpec == Spec /\ WF_vars(Next)

-------------------------------------------------------------------------------

Listed == {postOrder[i] : i \in 1..Len(postOrder)}
Active == {stack[i].node : i \in 1..Len(stack)}
Position(u) == CHOOSE i \in 1..Len(postOrder) : postOrder[i] = u
Lead(u) == Min({Position(v) : v \in SCC(g, u)})

\* The list handed to the second traversal holds every node, and a component
\* that others depend on has its first node before any of theirs
\* (GraphUtils.h:118-123): an edge to another component goes forward.
SourcesLead ==
    pc = "assign" =>
        /\ Listed = DOMAIN g /\ Len(postOrder) = Cardinality(DOMAIN g)
        /\ \A u \in DOMAIN g : \A v \in g[u] : v \in SCC(g, u) \/ Lead(u) < Lead(v)

\* What findSCC returns is the strongly connected components of its argument.
Abstract == INSTANCE FindSCC WITH component <- IF pc = "done" THEN component ELSE <<>>
FindsComponents == Abstract!Spec

\* findSCC returns, whatever the cycles of its argument.
Returns == <>(pc = "done")

==============================================================================
