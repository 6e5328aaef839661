-------------------------------- MODULE Reach --------------------------------
(***************************************************************************)
(* What the graph algorithms are compared with: paths, cycles and strongly *)
(* connected components of a dependence graph whose dependants are nodes.  *)
(***************************************************************************)
EXTENDS Naturals, FiniteSets

\* The nodes a path of g, perhaps of length 0, leads to from u.
From(g, u) ==
    LET Within[k \in 0..Cardinality(DOMAIN g)] ==
            IF k = 0 THEN {u}
                     ELSE LET near == Within[k - 1] IN near \cup UNION {g[x] : x \in near}
    IN  Within[Cardinality(DOMAIN g)]

\* The nodes u lies on a cycle with, u among them.
SCC(g, u) == {v \in From(g, u) : u \in From(g, v)}

OnCycle(g, u) == \E v \in g[u] : u \in From(g, v)

Acyclic(g) == \A u \in DOMAIN g : ~OnCycle(g, u)

\* The nodes no cycle leads to.
CycleFree(g) == DOMAIN g \ UNION {From(g, u) : u \in {x \in DOMAIN g : OnCycle(g, x)}}

==============================================================================
