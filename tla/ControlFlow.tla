----------------------------- MODULE ControlFlow -----------------------------
(***************************************************************************)
(* The LLVM analyses the passes read, from their textbook definitions: the *)
(* post-dominator tree (PostDominatorTree, used in pass/src/CDG.cpp) and   *)
(* the top-level loops (LoopInfo, used in pass/src/DecoupleLoops.cpp).  A  *)
(* control-flow graph maps each basic block to its successors.             *)
(***************************************************************************)
EXTENDS DepGraph, Reach

Exits(cfg) == {b \in DOMAIN cfg : cfg[b] = {}}
Preds(cfg, b) == {a \in DOMAIN cfg : b \in cfg[a]}

\* Every path from a to an exit goes through b.
PostDominates(cfg, b, a) ==
    b = a \/ Exits(cfg) \cap From(removeNode(cfg, b), a) = {}

StrictPostDominators(cfg, a) == {b \in DOMAIN cfg \ {a} : PostDominates(cfg, b, a)}

\* getIDom() of the tree node of a; root is the artificial node, whose block
\* is null, above all the exits of a function with several.
IPostDom(cfg, root) ==
    [a \in DOMAIN cfg |->
        LET above == StrictPostDominators(cfg, a)
        IN  IF above = {} THEN root
            ELSE CHOOSE b \in above : \A c \in above : PostDominates(cfg, c, b)]

\* getRootNode().
RootNode(cfg, root) ==
    IF \E e \in DOMAIN cfg : Exits(cfg) = {e} THEN CHOOSE e \in DOMAIN cfg : cfg[e] = {} ELSE root

\* Whether b runs is decided by which way a goes (Ferrante, Ottenstein and
\* Warren): the relation the control dependence graph has to hold.
ControlDependent(cfg, a, b) ==
    /\ \E s \in cfg[a] : PostDominates(cfg, b, s)
    /\ b \notin StrictPostDominators(cfg, a)

ControlDependences(cfg) ==
    [a \in DOMAIN cfg |-> {b \in DOMAIN cfg : ControlDependent(cfg, a, b)}]

-------------------------------------------------------------------------------

Dominates(cfg, entry, a, b) == a = b \/ entry = a \/ b \notin From(removeNode(cfg, a), entry)

\* The blocks of the natural loop with header h, {} if h heads none.
NaturalLoop(cfg, entry, h) ==
    LET latches == {b \in Preds(cfg, h) : Dominates(cfg, entry, h, b)}
        inside == removeNode(cfg, h)
    IN  IF latches = {} THEN {}
        ELSE {h} \cup {b \in DOMAIN inside : From(inside, b) \cap latches # {}}

\* What iterating over LoopInfo visits: loops that are in no other one.
TopLevelLoops(cfg, entry) ==
    LET loops == {NaturalLoop(cfg, entry, h) : h \in DOMAIN cfg} \ {{}}
    IN  {L \in loops : \A M \in loops : L \subseteq M => L = M}

==============================================================================
