--------------------------------- MODULE CDG ---------------------------------
(***************************************************************************)
(* ControlDependenceGraphPass (pass/src/CDG.cpp): a bottom-up order of the *)
(* post-dominator tree, the post-dominance frontier of each block in that  *)
(* order, and the frontier map reversed.  The children of a tree node come *)
(* in an arbitrary order.                                                  *)
(***************************************************************************)
EXTENDS Sequences, SequencesExt, ControlFlow

CONSTANTS CFGs,   \* control-flow graphs of functions
          Null    \* getBlock() of the artificial root of the tree

\* Blocks of a loop without an exit have no node in the tree: left out here.
ASSUME CFGsAssumption ==
    \A h \in CFGs : /\ IsFiniteSet(DOMAIN h)
                    /\ h \in [DOMAIN h -> SUBSET DOMAIN h]
                    /\ Null \notin DOMAIN h
                    /\ \A b \in DOMAIN h : From(h, b) \cap Exits(h) # {}

VARIABLES pc,         \* "traverse", "frontier", "reverse" or "done"
          cfg,        \* the function
          idom,       \* its post-dominator tree
          parents,    \* the stack of the depth-first search
          bottom_up_traversal,   \* the stack it fills
          post_dom_frontier,
          graph       \* the member CDG

vars == <<pc, cfg, idom, parents, bottom_up_traversal, post_dom_frontier, graph>>

Children(node) == {b \in DOMAIN cfg : idom[b] = node}

Init == /\ pc = "traverse"
        /\ cfg \in CFGs
        /\ idom = IPostDom(cfg, Null)
        /\ parents = <<RootNode(cfg, Null)>>
        /\ bottom_up_traversal = <<>>
        /\ post_dom_frontier = <<>>
        /\ graph = <<>>

\* getBottomUpTraversal(): a node is on the stack below all its descendants.
Traverse == /\ pc = "traverse" /\ parents # <<>>
            /\ LET current == Head(parents)
               IN  /\ bottom_up_traversal' = (IF current = Null THEN <<>> ELSE <<current>>)
                                             \o bottom_up_traversal
                   /\ \E pushed \in SetToSeqs(Children(current)) :
                         parents' = pushed \o Tail(parents)
            /\ UNCHANGED <<pc, cfg, idom, post_dom_frontier, graph>>

Traversed == /\ pc = "traverse" /\ parents = <<>>
             /\ pc' = "frontier"
             /\ UNCHANGED <<cfg, idom, parents, bottom_up_traversal, post_dom_frontier, graph>>

\* Mutant: the children's frontiers are taken over without the test.
NoTestBelow == /\ pc = "frontier" /\ bottom_up_traversal # <<>>
               /\ LET current == Head(bottom_up_traversal)
                      near == {a \in Preds(cfg, current) : idom[a] # current}
                      below == UNION {Slot(post_dom_frontier, z) : z \in Children(current)}
                      keys == DOMAIN post_dom_frontier \cup {current} \cup Children(current)
                  IN  post_dom_frontier' =
                        [b \in keys |-> Slot(post_dom_frontier, b) \cup
                           IF b = current THEN near \cup below ELSE {}]
               /\ bottom_up_traversal' = Tail(bottom_up_traversal)
               /\ UNCHANGED <<pc, cfg, idom, parents, graph>>

\* One turn of getPostDomFrontier(): predecessors of the block, and what is
\* in the frontiers of the blocks it post-dominates immediately.  Reading
\* result[childBlock] creates the entry if there is none.
Frontier == /\ pc = "frontier" /\ bottom_up_traversal # <<>>
            /\ LET current == Head(bottom_up_traversal)
                   near == Preds(cfg, current)
                   below == UNION {Slot(post_dom_frontier, z) : z \in Children(current)}
                   keys == DOMAIN post_dom_frontier \cup {current} \cup Children(current)
               IN  post_dom_frontier' =
                     [b \in keys |-> Slot(post_dom_frontier, b) \cup
                        IF b = current THEN {a \in near \cup below : idom[a] # current} ELSE {}]
            /\ bottom_up_traversal' = Tail(bottom_up_traversal)
            /\ UNCHANGED <<pc, cfg, idom, parents, graph>>

FrontierDone == /\ pc = "frontier" /\ bottom_up_traversal = <<>>
                /\ pc' = "reverse"
                /\ UNCHANGED <<cfg, idom, parents, bottom_up_traversal, post_dom_frontier, graph>>

\* Mutant: the map is stored as it is.
KeepDirection == /\ pc = "reverse"
                 /\ graph' = post_dom_frontier
                 /\ pc' = "done"
                 /\ UNCHANGED <<cfg, idom, parents, bottom_up_traversal, post_dom_frontier>>

\* The two closing loops of runOnFunction(): a node for each block, then an
\* edge from each block of a frontier to the block whose frontier it is.
StoreReversed == /\ pc = "reverse"
                 /\ graph' = transpose(post_dom_frontier)
                 /\ pc' = "done"
                 /\ UNCHANGED <<cfg, idom, parents, bottom_up_traversal, post_dom_frontier>>

Next == Traverse \/ Traversed \/ Frontier \/ FrontierDone \/ StoreReversed

Spec == Init /\ [][Next]_vars

-------------------------------------------------------------------------------

Ready == IF pc = "traverse" THEN {} ELSE DOMAIN cfg \ ToSet(bottom_up_traversal)

\* A frontier is right as soon as its block was visited, in the middle of
\* the loop: it needs the frontiers of all blocks below (CDG.cpp:69-102).
FrontiersAreRight ==
    \A b \in Ready : post_dom_frontier[b] = {a \in DOMAIN cfg : ControlDependent(cfg, a, b)}

\* The result is the control dependence relation of the function, over all
\* its blocks, so that PDG.cpp:80-87 finds a node for every dependant.
IsControlDependence == pc = "done" => graph = ControlDependences(cfg)

==============================================================================
