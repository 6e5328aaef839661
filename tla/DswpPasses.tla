------------------------------ MODULE DswpPasses ------------------------------
(***************************************************************************)
(* The passes of pass/ under the pass manager, on several functions: what  *)
(* each one requires (getAnalysisUsage), what it frees (releaseMemory) and *)
(* what it leaves behind.  DecoupleLoops says which instructions are iter  *)
(* and which work; here the answers are pointers: to the sets of           *)
(* instructions the PSG pass owns, and to the loops LoopInfo owns.  What   *)
(* is freed may be allocated again at the same address.                    *)
(***************************************************************************)
EXTENDS PassManager, FiniteSets, DepGraph

CONSTANTS Code,      \* of a function: its loops, split, and the components outside
          SccAddrs, LoopAddrs,   \* addresses of sets of instructions and of loops
          Null

\* What DecoupleLoops establishes: components are disjoint and not empty, a loop is
\* its components of iter and, others, of work.
Components(f) == Code[f].outside \cup UNION {L.iter \cup L.work : L \in Code[f].loops}
Insts(S) == UNION S

ASSUME CodeAssumption ==
    \A f \in ToSet(Functions) :
        /\ \A S, T \in Components(f) : S # {} /\ (S # T => S \cap T = {})
        /\ \A L \in Code[f].loops : L # Null /\ L.iter \cap L.work = {}
        /\ Cardinality(Components(f)) <= Cardinality(SccAddrs)
        /\ Cardinality(Code[f].loops) <= Cardinality(LoopAddrs)

\* DecoupleLoops requires what its answers point into; no other pass of the
\* repository requires LoopInfo (DecoupleLoops.h:36-40).
ASSUME OwnersAssumption ==
    /\ {"loops", "psg", "decouple-loops"} \subseteq Passes
    /\ {"loops", "psg"} \subseteq Requires["decouple-loops"]
    /\ \A p \in Passes : "loops" \in Requires[p] => p = "decouple-loops"

VARIABLES sccAt,         \* PSG pass: the set of instructions at an address
          InstToSCC,     \* PSG pass: the address of the component of an instruction
          loopAt,        \* LoopInfo: the loop at an address
          LI,            \* DecoupleLoops: the functions LI has an entry for
          LoopToIterScc, LoopToWorkScc   \* DecoupleLoops: from a loop's address

memory == <<sccAt, InstToSCC, loopAt, LI, LoopToIterScc, LoopToWorkScc>>
vars == <<pmvars, memory>>

-------------------------------------------------------------------------------
(* getAnalysisUsage().                                                      *)

LoopInfoWrapperPass == {"domtree"}
ControlDependenceGraphPass == {"postdomtree"}
MemoryDependenceGraphPass == {"memdep"}
DataDependenceGraphPass == {}
ProgramDependenceGraphPass == {"cdg", "mdg", "ddg"}
PDGSCCGraphPass == {"pdg"}
DecoupleLoopsPass == {"loops", "psg"}
CDGPrinter == {"cdg"}
MDGPrinter == {"mdg"}
DDGPrinter == {"ddg"}
PDGPrinter == {"pdg"}
PSGPrinter == {"psg"}
SourceToPSGPrinter == {"psg"}
DecoupleLoopsPrinter == {"decouple-loops"}
DecoupleSourceSplitPrinter == {"decouple-loops"}
ExampleDecoupleLoopsUser == {"decouple-loops"}

DswpRequires ==
    "domtree" :> {} @@ "postdomtree" :> {} @@ "memdep" :> {} @@ "loops" :> LoopInfoWrapperPass
    @@ "cdg" :> ControlDependenceGraphPass @@ "mdg" :> MemoryDependenceGraphPass
    @@ "ddg" :> DataDependenceGraphPass @@ "pdg" :> ProgramDependenceGraphPass
    @@ "psg" :> PDGSCCGraphPass @@ "decouple-loops" :> DecoupleLoopsPass
    @@ "dot-cdg" :> CDGPrinter @@ "dot-mdg" :> MDGPrinter @@ "dot-ddg" :> DDGPrinter
    @@ "dot-pdg" :> PDGPrinter @@ "dot-psg" :> PSGPrinter
    @@ "print-source-to-psg" :> SourceToPSGPrinter
    @@ "print-decouple-loops" :> DecoupleLoopsPrinter
    @@ "print-decouple-source-split" :> DecoupleSourceSplitPrinter
    @@ "example-decouple-loops-user" :> ExampleDecoupleLoopsUser

\* The passes that read a graph, and those that ask DecoupleLoops.
Askers == {p \in Passes : "decouple-loops" \in Requires[p]}
Readers == Passes \ (Askers \cup {"loops", "psg", "decouple-loops"})

-------------------------------------------------------------------------------
(* runOnFunction().                                                         *)

F == Functions[fn]
Places(what, addrs) == {place \in [what -> addrs] : \A a, b \in what : place[a] = place[b] => a = b}

\* Another loop, or another component, at each address of range.
Stored(at, place) ==
    [a \in DOMAIN at |-> IF \E x \in DOMAIN place : place[x] = a
                           THEN CHOOSE x \in DOMAIN place : place[x] = a ELSE at[a]]

\* LoopInfo::analyze().
RunLoopInfo == /\ Run("loops")
               /\ \E place \in Places(Code[F].loops, {a \in LoopAddrs : loopAt[a] = Null}) :
                    loopAt' = Stored(loopAt, place)
               /\ UNCHANGED <<sccAt, InstToSCC, LI, LoopToIterScc, LoopToWorkScc>>

\* The entries of other functions stay in InstToSCC.
RunPSG == /\ Run("psg")
          /\ \E place \in Places(Components(F), {a \in SccAddrs : sccAt[a] = Null}) :
               /\ sccAt' = Stored(sccAt, place)
               /\ InstToSCC' = [i \in DOMAIN InstToSCC \cup Insts(Components(F)) |->
                                  IF i \in Insts(Components(F))
                                    THEN place[CHOOSE S \in Components(F) : i \in S]
                                    ELSE InstToSCC[i]]
          /\ UNCHANGED <<loopAt, LI, LoopToIterScc, LoopToWorkScc>>

Live == {a \in LoopAddrs : loopAt[a] # Null}

\* getSCC() of each instruction of the components.
getSCCs(S) == {InstToSCC[i] : i \in Insts(S)}

\* What is there already stays.
RunDecoupleLoops ==
    /\ Run("decouple-loops")
    /\ LI' = LI \cup {F}
    /\ LoopToWorkScc' = [a \in DOMAIN LoopToWorkScc \cup Live |->
                           Slot(LoopToWorkScc, a)
                           \cup IF a \in Live THEN getSCCs(loopAt[a].work) ELSE {}]
    /\ LoopToIterScc' = [a \in DOMAIN LoopToIterScc \cup Live |->
                           Slot(LoopToIterScc, a)
                           \cup IF a \in Live THEN getSCCs(loopAt[a].iter) \ LoopToWorkScc'[a] ELSE {}]
    /\ UNCHANGED <<sccAt, InstToSCC, loopAt>>

\* The graph passes and the printers of graphs; what they do within a
\* function is in DecoupleLoops.
RunReader == (\E p \in Readers : Run(p)) /\ UNCHANGED memory

\* An asker changes nothing; what it is told is below.
RunAsker == (\E p \in Askers : Run(p)) /\ UNCHANGED memory

-------------------------------------------------------------------------------
(* releaseMemory().                                                         *)

\* Mutant: the maps are kept.
keepMaps(dead) == UNCHANGED <<LI, LoopToIterScc, LoopToWorkScc>>

releaseDecoupleLoops(dead) ==
    /\ UNCHANGED LI
    /\ IF "decouple-loops" \in dead THEN LoopToWorkScc' = <<>> /\ LoopToIterScc' = <<>>
                                    ELSE UNCHANGED <<LoopToIterScc, LoopToWorkScc>>

releasePSG(dead) == /\ sccAt' = IF "psg" \in dead THEN [a \in SccAddrs |-> Null] ELSE sccAt
                    /\ UNCHANGED InstToSCC

releaseLoopInfo(dead) ==
    loopAt' = IF "loops" \in dead THEN [a \in LoopAddrs |-> Null] ELSE loopAt

ReleaseMemory == /\ Release
                 /\ releaseDecoupleLoops(Dead) /\ releasePSG(Dead) /\ releaseLoopInfo(Dead)

-------------------------------------------------------------------------------

Init == /\ PMInit
        /\ sccAt = [a \in SccAddrs |-> Null] /\ InstToSCC = <<>>
        /\ loopAt = [a \in LoopAddrs |-> Null]
        /\ LI = {} /\ LoopToIterScc = <<>> /\ LoopToWorkScc = <<>>

Next == \/ Plan /\ UNCHANGED memory
        \/ RunLoopInfo \/ RunPSG \/ RunDecoupleLoops \/ RunReader \/ RunAsker
        \/ ReleaseMemory

Spec == Init /\ [][Next]_vars

-------------------------------------------------------------------------------
(* What an asker is told: the loops getLI(&F) yields, all in one LoopInfo,  *)
(* the one LI[&F] of every function points at; and of an instruction in one *)
(* of them, whether it is work or iter.                                     *)

getLI(f) == IF f \in LI THEN Live ELSE {Null}
hasWork(a) == Slot(LoopToWorkScc, a) # {}
isWork(i, a) == InstToSCC[i] \in Slot(LoopToWorkScc, a)
isIter(i, a) == InstToSCC[i] \in Slot(LoopToIterScc, a)

AnsweredRight ==
    /\ {loopAt[a] : a \in getLI(F)} = Code[F].loops
    /\ \A a \in getLI(F) :
         LET L == loopAt[a] IN
         /\ hasWork(a) <=> L.work # {}
         /\ \A i \in Insts(L.iter \cup L.work) :
              /\ isWork(i, a) <=> i \in Insts(L.work)
              /\ isIter(i, a) <=> i \in Insts(L.iter)

AskersBefore == {k \in 1 .. (ip - 1) : schedule[k] \in Askers}

\* A pass that asks DecoupleLoops is told what the function's loops are and how
\* each is split, although the answers are found through addresses: those of
\* other functions, left in InstToSCC and LI, do not shine through.  This is so
\* for the first such pass of a function; a later one is told so or that there
\* is no loop, because the pass manager may have released LoopInfo after the
\* first, but never about loops that are gone.
AskersAreAnswered ==
    Due /\ schedule[ip] \in Askers => AnsweredRight \/ (AskersBefore # {} /\ getLI(F) = {})

\* A function leaves nothing behind but entries nobody looks up again: the sets
\* and loops are freed, and no map keeps an address of one that a set or loop of
\* the next function may get.
NothingOutlivesFunction ==
    ip = 1 /\ ~ran => /\ CleanBetweenFunctions
                      /\ \A a \in SccAddrs : sccAt[a] = Null
                      /\ Live = {}
                      /\ DOMAIN LoopToIterScc = {} /\ DOMAIN LoopToWorkScc = {}

\* "These are stored in the PSG pass, so it's memory shouldn't be cleared in order
\* for this pass to work" (README.md:333-334): whenever DecoupleLoops is asked,
\* the sets its maps point at are still there.
SetsOutliveAskers == Due /\ schedule[ip] \in Askers => holds["psg"] = {F}

==============================================================================
