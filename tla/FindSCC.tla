------------------------------- MODULE FindSCC -------------------------------
(***************************************************************************)
(* What findSCC (pass/include/GraphUtils.h:107-132) promises: in one step, *)
(* a map from each node to one member, the root, of its strongly connected *)
(* component, the same for all nodes of a component.                       *)
(***************************************************************************)
EXTENDS Reach

CONSTANT Graphs   \* the graphs findSCC may be given

VARIABLES g, component

\* c names every node's component by one of its nodes.
NamesSCCs(h, c) ==
    /\ c \in [DOMAIN h -> DOMAIN h]
    /\ \A u \in DOMAIN h : c[u] \in SCC(h, u)
    /\ \A u, v \in DOMAIN h : c[u] = c[v] <=> v \in SCC(h, u)

Init == g \in Graphs /\ component = <<>>

Find == /\ component = <<>>
        /\ NamesSCCs(g, component')
        /\ g' = g

Spec == Init /\ [][Find]_<<g, component>>

==============================================================================
