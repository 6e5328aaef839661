------------------------------ MODULE MCKosaraju ------------------------------
(* Every graph of three nodes, and every one of four without an edge from a   *)
(* node to itself.                                                            *)
EXTENDS Kosaraju

MCGraphs == [1..3 -> SUBSET (1..3)]
            \cup {h \in [1..4 -> SUBSET (1..4)] : \A u \in 1..4 : u \notin h[u]}

===============================================================================
