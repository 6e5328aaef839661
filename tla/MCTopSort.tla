------------------------------ MODULE MCTopSort ------------------------------
(* Every graph of three nodes, and every acyclic one of four with its nodes  *)
(* named in a topological order.                                             *)
EXTENDS SourceReport

MCGraphs == [1..3 -> SUBSET (1..3)]
            \cup {h \in [1..4 -> SUBSET (1..4)] : \A u \in 1..4 : h[u] \subseteq (u+1)..4}

\* topsort returns, and with exactly the nodes that no cycle leads to: all of
\* an acyclic graph such as a PSG (GraphUtils.h:145-157).
SortsWhatIsAcyclic == <>(phase = "done" /\ Members(result) = CycleFree(psg))

==============================================================================
