------------------------------ MODULE DepGraph ------------------------------
(***************************************************************************)
(* icsa::DependenceGraph (pass/include/Dependence.h): a map from a node to *)
(* the set of nodes that depend on it.  A graph is a function from its     *)
(* nodes (the keys of the map) to sets of dependants; a dependant need not *)
(* be a key, because addEdge inserts only its source.                      *)
(***************************************************************************)

\* Nodes[A]: the std::map operator, which reads an absent key as empty.
Slot(g, A) == IF A \in DOMAIN g THEN g[A] ELSE {}

addNode(g, v) == [x \in DOMAIN g \cup {v} |-> Slot(g, x)]

addEdge(g, from, to) ==
    [x \in DOMAIN g \cup {from} |-> IF x = from THEN Slot(g, x) \cup {to} ELSE g[x]]

removeNode(g, v) == [x \in DOMAIN g \ {v} |-> g[x] \ {v}]

\* Nodes.at(From): the callers must know that From is a node.
removeEdge(g, from, to) == [g EXCEPT ![from] = @ \ {to}]

getDependants(g, A) == g[A]

\* Mutant: the nodes are not added first.
transposeEdgesOnly(g) ==
    [x \in UNION {g[u] : u \in DOMAIN g} |-> {u \in DOMAIN g : x \in g[u]}]

\* GraphUtils::transpose: every node, then every edge turned around.
transpose(g) ==
    [x \in DOMAIN g \cup UNION {g[u] : u \in DOMAIN g} |-> {u \in DOMAIN g : x \in g[u]}]

\* All that is depended on is a node, so that no .at() of a dependant throws.
Closed(g) == \A u \in DOMAIN g : g[u] \subseteq DOMAIN g

=============================================================================
