------------------------------- MODULE TopSort -------------------------------
(***************************************************************************)
(* GraphUtils::topsort (pass/include/GraphUtils.h:134-160), which ranks    *)
(* the components of the PSG for the source report                         *)
(* (pass/src/SourceToPSGPrinter.cpp:55,72).  A node enters the frontier    *)
(* when the last edge into it is removed from the transposed graph gt.     *)
(* Nodes are compared by address, so every loop over nodes takes them in   *)
(* an arbitrary order.                                                     *)
(***************************************************************************)
EXTENDS Integers, Sequences, FiniteSets, DepGraph

CONSTANT PSGs   \* the graphs topsort may be given

\* A PSG's dependants are nodes of it (PSGIsAcyclic of DecoupleLoops).
ASSUME PSGsAssumption ==
    \A h \in PSGs : IsFiniteSet(DOMAIN h) /\ h \in [DOMAIN h -> SUBSET DOMAIN h]

VARIABLES phase,     \* "seed", "loop" or "done"
          psg,       \* the argument g
          gt,        \* its transpose, which topsort consumes
          unseeded,  \* nodes of gt the seeding loop has still to look at
          frontier,  \* the queue
          result,    \* the vector
          current,   \* the node taken from the queue
          deps       \* its dependants the inner loop has still to look at

sortVars == <<phase, psg, gt, unseeded, frontier, result, current, deps>>

Members(s) == {s[i] : i \in 1..Len(s)}

\* Before the first pop, current is not a node: {} is none in any instance.
NoNode == {}

SortInit == /\ phase = "seed"
            /\ psg \in PSGs
            /\ gt = transpose(psg)
            /\ unseeded = DOMAIN gt
            /\ frontier = <<>> /\ result = <<>>
            /\ current = NoNode /\ deps = {}

\* Mutant: a node with dependences is seeded too.
SeedAll == \E v \in unseeded :
             /\ phase = "seed"
             /\ unseeded' = unseeded \ {v}
             /\ frontier' = Append(frontier, v)
             /\ UNCHANGED <<phase, psg, gt, result, current, deps>>

Seed == \E v \in unseeded :
          /\ phase = "seed"
          /\ unseeded' = unseeded \ {v}
          /\ frontier' = IF gt[v] = {} THEN Append(frontier, v) ELSE frontier
          /\ UNCHANGED <<phase, psg, gt, result, current, deps>>

Seeded == /\ phase = "seed" /\ unseeded = {}
          /\ phase' = "loop"
          /\ UNCHANGED <<psg, gt, unseeded, frontier, result, current, deps>>

Pop == /\ phase = "loop" /\ deps = {} /\ frontier # <<>>
       /\ current' = Head(frontier)
       /\ frontier' = Tail(frontier)
       /\ result' = Append(result, Head(frontier))
       /\ deps' = getDependants(psg, Head(frontier))
       /\ UNCHANGED <<phase, psg, gt, unseeded>>

\* Mutant: a dependant is queued when its first dependence is met.
RelaxEagerly == \E m \in deps :
                  /\ phase = "loop"
                  /\ deps' = deps \ {m}
                  /\ gt' = removeEdge(gt, m, current)
                  /\ frontier' = IF m \in Members(frontier) \cup Members(result)
                                   THEN frontier ELSE Append(frontier, m)
                  /\ UNCHANGED <<phase, psg, unseeded, result, current>>

Relax == \E m \in deps :
           /\ phase = "loop"
           /\ deps' = deps \ {m}
           /\ gt' = removeEdge(gt, m, current)
           /\ frontier' = IF gt'[m] = {} THEN Append(frontier, m) ELSE frontier
           /\ UNCHANGED <<phase, psg, unseeded, result, current>>

SortReturn == /\ phase = "loop" /\ deps = {} /\ frontier = <<>>
              /\ phase' = "done"
              /\ UNCHANGED <<psg, gt, unseeded, frontier, result, current, deps>>

SortNext == Seed \/ Seeded \/ Pop \/ Relax \/ SortReturn

SortSpec == SortInit /\ [][SortNext]_sortVars
FairSortSpec == SortSpec /\ WF_sortVars(SortNext)

-------------------------------------------------------------------------------

SortTypeOK == /\ phase \in {"seed", "loop", "done"}
              /\ psg \in PSGs
              /\ gt \in [DOMAIN psg -> SUBSET DOMAIN psg]
              /\ unseeded \subseteq DOMAIN psg
              /\ frontier \in Seq(DOMAIN psg) /\ result \in Seq(DOMAIN psg)
              /\ deps \subseteq DOMAIN psg
              /\ deps # {} => current \in DOMAIN psg

\* What a node depends on stands before it in the result, so a rank never
\* points back to a smaller one (GraphUtils.h:152-155).
Topological ==
    \A j \in 1..Len(result) : \A u \in DOMAIN psg :
        result[j] \in psg[u] => \E i \in 1..j-1 : result[i] = u

\* A component gets one rank: nothing is queued twice, however many edges
\* lead to it (GraphUtils.h:138-141, 153-155).
RankedOnce ==
    /\ \A i, j \in 1..Len(result) : result[i] = result[j] => i = j
    /\ \A i, j \in 1..Len(frontier) : frontier[i] = frontier[j] => i = j
    /\ Members(frontier) \cap Members(result) = {}

\* When topsort returns, each node it left out still depends on another one
\* that it left out: in an acyclic graph nothing is left out, and the
\* find() of SourceToPSGPrinter.cpp:72 never answers ts.end().
OnlyStuckLeftOut ==
    phase = "done" =>
        \A v \in DOMAIN psg \ Members(result) :
            \E u \in DOMAIN psg \ Members(result) : v \in psg[u]

==============================================================================
