---------------------------- MODULE DecoupleLoops ----------------------------
(***************************************************************************)
(* From a function to its iter and work instructions: the passes CDG, MDG, *)
(* DDG, PDG, PSG and DecoupleLoops (pass/src), each runOnFunction() one    *)
(* action, run on one function in the order their getAnalysisUsage() asks  *)
(* for.  The CDG is the one module CDG computes step by step, and the      *)
(* components are those module Kosaraju finds.                             *)
(*                                                                         *)
(* An instruction is a model value or number; the terminator of a block,   *)
(* back(), is the block itself.  A component is the set of its             *)
(* instructions: the code points at the sets it keeps in SCCs, and no two  *)
(* of those are equal.  LoopInfo yields top-level loops only; a loop is    *)
(* the set of its blocks.                                                  *)
(***************************************************************************)
EXTENDS SequencesExt, ControlFlow

CONSTANTS Programs,   \* the functions the passes may be run on
          None        \* no instruction

\* What the passes read of a function: its blocks and their successors, the
\* block of each instruction, its users, what LLVM's memory dependence
\* analysis answers for it, and the blocks from which it takes a constant,
\* if it is a phi.
ASSUME ProgramsAssumption ==
    \A p \in Programs :
        /\ IsFiniteSet(DOMAIN p.block) /\ None \notin DOMAIN p.block
        /\ \A S \in SUBSET DOMAIN p.block : S # None
        /\ p.cfg \in [DOMAIN p.cfg -> SUBSET DOMAIN p.cfg]
        /\ p.entry \in DOMAIN p.cfg
        /\ p.block \in [DOMAIN p.block -> DOMAIN p.cfg]
        /\ \A b \in DOMAIN p.cfg : b \in DOMAIN p.block /\ p.block[b] = b
        /\ p.users \in [DOMAIN p.block -> SUBSET DOMAIN p.block]
        /\ p.memory \in [DOMAIN p.block ->
                           [inst : DOMAIN p.block \cup {None}, isDef : BOOLEAN]]
        /\ p.constants \in [DOMAIN p.block -> SUBSET DOMAIN p.cfg]

\* LLVM's rules for a function in SSA form: a definition dominates its uses, a
\* phi takes values and constants from predecessors, and a memory dependence is
\* one within a block; so each of them goes along a path.  Blocks no path leads
\* to, or that lead to no exit (the tree has no node for them), are left out.
ASSUME PathsAssumption ==
    \A p \in Programs :
        /\ \A b \in DOMAIN p.cfg : b \in From(p.cfg, p.entry) /\ From(p.cfg, b) \cap Exits(p.cfg) # {}
        /\ \A i, j \in DOMAIN p.block :
             j \in p.users[i] \/ p.memory[j].inst = i \/ i \in p.constants[j]
                => p.block[j] \in From(p.cfg, p.block[i])

VARIABLES F,         \* the function
          CDGraph, MDGraph, DDGraph, PDGraph,   \* the members CDG, MDG, DDG, PDG
          PSGraph,   \* the member PSG: a graph of components
          SccToLoop, LoopToIterScc, LoopToWorkScc,
          pc         \* the pass to run next, or "done"

vars == <<F, CDGraph, MDGraph, DDGraph, PDGraph, PSGraph,
          SccToLoop, LoopToIterScc, LoopToWorkScc, pc>>

Blocks == DOMAIN F.cfg
Insts == DOMAIN F.block
InstsOf(b) == {i \in Insts : F.block[i] = b}
Loops == TopLevelLoops(F.cfg, F.entry)
InstsIn(L) == UNION {InstsOf(b) : b \in L}

Empty == <<>>

Init == /\ F \in Programs
        /\ CDGraph = Empty /\ MDGraph = Empty /\ DDGraph = Empty
        /\ PDGraph = Empty /\ PSGraph = Empty
        /\ SccToLoop = Empty /\ LoopToIterScc = Empty /\ LoopToWorkScc = Empty
        /\ pc = "cdg"

RunCDG == /\ pc = "cdg"
          /\ CDGraph' = ControlDependences(F.cfg)
          /\ pc' = "mdg"
          /\ UNCHANGED <<F, MDGraph, DDGraph, PDGraph, PSGraph,
                         SccToLoop, LoopToIterScc, LoopToWorkScc>>

-------------------------------------------------------------------------------
(* MDG.cpp and DDG.cpp: every instruction is a node.                        *)

\* Only a definition counts: clobbers are left out of the graph.
RunMDG == /\ pc = "mdg"
          /\ MDGraph' = [d \in Insts |-> {i \in Insts : F.memory[i] = [inst |-> d, isDef |-> TRUE]}]
          /\ pc' = "ddg"
          /\ UNCHANGED <<F, CDGraph, DDGraph, PDGraph, PSGraph,
                         SccToLoop, LoopToIterScc, LoopToWorkScc>>

RunDDG == /\ pc = "ddg"
          /\ DDGraph' = [i \in Insts |-> F.users[i]]
          /\ pc' = "pdg"
          /\ UNCHANGED <<F, CDGraph, MDGraph, PDGraph, PSGraph,
                         SccToLoop, LoopToIterScc, LoopToWorkScc>>

-------------------------------------------------------------------------------
(* PDG.cpp.                                                                 *)

\* From the last instruction of a block to each one of the dependant block.
ControlEdges(i) == IF i \in Blocks THEN UNION {InstsOf(b) : b \in Slot(CDGraph, i)} ELSE {}

\* From the last instruction of a block to each phi it hands a constant.
ConstantEdges(i) == {phi \in Insts : i \in F.constants[phi]}

\* Mutant: dependences in memory are not copied.
PDGWithoutMemory(i) == Slot(DDGraph, i) \cup ControlEdges(i) \cup ConstantEdges(i)

\* Mutant: only the first instruction of a block depends on the branch.
ControlOnlyBranches(i) == Slot(DDGraph, i) \cup Slot(MDGraph, i) \cup ConstantEdges(i)
                          \cup Slot(CDGraph, i)

PDGEdges(i) == Slot(DDGraph, i) \cup Slot(MDGraph, i) \cup ControlEdges(i) \cup ConstantEdges(i)

RunPDG == /\ pc = "pdg"
          /\ PDGraph' = [i \in Insts |-> PDGEdges(i)]
          /\ pc' = "psg"
          /\ UNCHANGED <<F, CDGraph, MDGraph, DDGraph, PSGraph,
                         SccToLoop, LoopToIterScc, LoopToWorkScc>>

-------------------------------------------------------------------------------
(* PSG.cpp.                                                                 *)

\* getSCC(Inst), while the memory of the pass is live.
getSCC(i) == SCC(PDGraph, i)

Components == {getSCC(i) : i \in Insts}

\* Mutant: edges within a component are kept.
PSGEdgesAndSelf(S) == {getSCC(j) : j \in UNION {PDGraph[i] : i \in S}}

\* The components an instruction of S has a dependant in; never S itself.
PSGEdges(S) == {getSCC(j) : j \in UNION {PDGraph[i] : i \in S}} \ {S}

\* Mutant: only the edges make nodes.
RunPSGEdgesOnly ==
    /\ pc = "psg"
    /\ PSGraph' = [S \in {T \in Components : PSGEdges(T) # {}} |-> PSGEdges(S)]
    /\ pc' = "loops"
    /\ UNCHANGED <<F, CDGraph, MDGraph, DDGraph, PDGraph, SccToLoop, LoopToIterScc, LoopToWorkScc>>

RunPSG == /\ pc = "psg"
          /\ PSGraph' = [S \in Components |-> PSGEdges(S)]
          /\ pc' = "loops"
          /\ UNCHANGED <<F, CDGraph, MDGraph, DDGraph, PDGraph,
                         SccToLoop, LoopToIterScc, LoopToWorkScc>>

-------------------------------------------------------------------------------
(* DecoupleLoops.cpp.                                                       *)

\* Mutant: only one of the loops is visited.
MapOneLoop ==
    /\ pc = "loops"
    /\ SccToLoop' \in {[S \in {T \in Components : T \cap InstsIn(L) # {}} |-> L] : L \in Loops}
    /\ pc' = "split"
    /\ UNCHANGED <<F, CDGraph, MDGraph, DDGraph, PDGraph, PSGraph, LoopToIterScc, LoopToWorkScc>>

\* SccToLoop[getSCC(&Inst)] = L for the loops in an order of LoopInfo's: a
\* component with instructions in several loops keeps the last of them.
MapComponents ==
    /\ pc = "loops"
    /\ \E order \in SetToSeqs(Loops) :
         LET Of(S) == {k \in DOMAIN order : S \cap InstsIn(order[k]) # {}}
             mapped == {S \in Components : Of(S) # {}}
         IN  SccToLoop' = [S \in mapped |-> order[CHOOSE k \in Of(S) : \A l \in Of(S) : l <= k]]
    /\ pc' = "split"
    /\ UNCHANGED <<F, CDGraph, MDGraph, DDGraph, PDGraph, PSGraph, LoopToIterScc, LoopToWorkScc>>

\* Mutant: an SCC of any loop makes this one work.
DependsOnAnyLoop(S1) == \E S2 \in transpose(PSGraph)[S1] : S2 \in DOMAIN SccToLoop

\* S1 depends on another component of its loop.
DependsInItsLoop(S1) ==
    \E S2 \in transpose(PSGraph)[S1] :
        S2 \in DOMAIN SccToLoop /\ SccToLoop[S2] = SccToLoop[S1]

Split ==
    /\ pc = "split"
    /\ LET inLoop(L) == {S \in DOMAIN SccToLoop : SccToLoop[S] = L}
       IN  /\ LoopToWorkScc' = [L \in Loops |-> {S \in inLoop(L) : DependsInItsLoop(S)}]
           /\ LoopToIterScc' = [L \in Loops |-> {S \in inLoop(L) : ~DependsInItsLoop(S)}]
    /\ pc' = "done"
    /\ UNCHANGED <<F, CDGraph, MDGraph, DDGraph, PDGraph, PSGraph, SccToLoop>>

isWork(i, L) == getSCC(i) \in LoopToWorkScc[L]
isIter(i, L) == getSCC(i) \in LoopToIterScc[L]

Next == RunCDG \/ RunMDG \/ RunDDG \/ RunPDG \/ RunPSG \/ MapComponents \/ Split

Spec == Init /\ [][Next]_vars

-------------------------------------------------------------------------------

\* The PSG is acyclic and its dependants are its nodes: topsort ranks every
\* component, and no .at() throws (PSG.cpp:56-68, SourceToPSGPrinter.cpp:55).
PSGIsAcyclic == PSGraph # Empty => Closed(PSGraph) /\ Acyclic(PSGraph)

\* A loop that is not entered again once left.  A cycle of control flow that is
\* entered at two blocks can lead out of a loop and back; LLVM has no loop for it,
\* and a component spread over it is mapped to one of the loops it meets only.
Leaves(L) == {b \in L : ~(F.cfg[b] \subseteq L)}
LeftForGood(L) == \A b \in Leaves(L) : \A s \in F.cfg[b] \ L : From(F.cfg, s) \cap L = {}

\* "All loops have `iter` instructions" (README.md:329-330, DecoupleLoops.cpp:87-107),
\* if left for good or if they have work.  Another loop may be without either, its
\* components being mapped to other loops.
EveryLoopHasIter ==
    pc = "done" => \A L \in Loops :
                     LeftForGood(L) \/ LoopToWorkScc[L] # {} => LoopToIterScc[L] # {}

\* An instruction of a loop is claimed by one loop, as iter or as work, and by no
\* other: a loop its component has instructions in, and its own loop if that is
\* left for good (DecoupleLoops.cpp:71-80, 113-131).
IterOrWork ==
    pc = "done" =>
        \A L \in Loops : \A i \in InstsIn(L) :
            \E M \in Loops :
                /\ isIter(i, M) <=> ~isWork(i, M)
                /\ \A K \in Loops \ {M} : ~isIter(i, K) /\ ~isWork(i, K)
                /\ getSCC(i) \cap InstsIn(M) # {}
                /\ LeftForGood(L) => M = L

\* What an instruction of the function hands on: its value, what it stores,
\* and whether the blocks it decides on are run.
FlowsTo(i) == F.users[i]
              \cup {j \in Insts : F.memory[j] = [inst |-> i, isDef |-> TRUE]}
              \cup {j \in Insts : i \in Blocks /\ ControlDependent(F.cfg, i, F.block[j])}

\* Within a loop that is left for good nothing flows from work to iter, by any
\* chain of flows through the loop: in a pipeline the iter stage never waits for
\* the work stage (DecoupleLoops.cpp:87-107 with PDG.cpp, PSG.cpp and CDG.cpp).
WorkNeverFeedsIter ==
    pc = "done" =>
        \A L \in {M \in Loops : LeftForGood(M)} :
            LET inside == [i \in InstsIn(L) |-> FlowsTo(i) \cap InstsIn(L)]
            IN  \A i \in InstsIn(L) : isWork(i, L) => \A j \in From(inside, i) : ~isIter(j, L)

\* "`iter` instructions make the loop go round" (README.md:328): in a loop
\* that is not entered again once left, the branches that may leave it are
\* one component, and that component is all of its iter.
IterIsTheLoopControl ==
    pc = "done" =>
        \A L \in Loops :
            LeftForGood(L) => \A b \in Leaves(L) : LoopToIterScc[L] = {getSCC(b)}

==============================================================================
