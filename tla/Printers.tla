------------------------------- MODULE Printers -------------------------------
(***************************************************************************)
(* What the printer passes make of the finished results: the five that     *)
(* write a graph through DependenceTraits.h, and the two that print the    *)
(* loops that can be decoupled.  They change no state of the passes, so    *)
(* each is an operator on it; when they run, and on what is left in memory *)
(* by then, is in DswpPasses.                                              *)
(***************************************************************************)
EXTENDS DecoupleLoops, Integers

CONSTANTS Locations(_),   \* the line tables of a function: instruction -> line, or NoLoc
          NoLoc           \* getDebugLoc() is null

ASSUME NoLocAssumption == NoLoc \notin Nat

\* getLine() is unsigned.
ASSUME LocationsAssumption ==
    \A p \in Programs : \A loc \in Locations(p) : loc \in [DOMAIN p.block -> Nat \cup {NoLoc}]

-------------------------------------------------------------------------------
(* Graphs (DependenceTraits.h).                                             *)

\* DepGraphTraitsWrapper: for each key a node that points at its dependants.
Wrapped(g) == [v \in DOMAIN g |-> g[v]]

\* operator[]: a value that is no key gets a null node, inserted in the map
\* that is being iterated over.
NodeOf(w, v) == IF v \in DOMAIN w THEN v ELSE None

\* What the iterator over the children of v is dereferenced to.
children(w, v) == {NodeOf(w, c) : c \in w[v]}

\* What the iterator over the nodes may be dereferenced to: also a node
\* inserted on the way, if its address is behind the iterator's.
nodes(w) == DOMAIN w \cup ({None} \cap UNION {children(w, v) : v \in DOMAIN w})

\* GraphWriter: each node gets a label, so none may be null; an edge to null is
\* left out.
writeToFile(g) == None \notin nodes(Wrapped(g))

\* A name of a function, which is here the function, or "unknown".
basicBlockToFunctionName(b) == IF b \in Blocks THEN F ELSE None
instructionToFunctionName(i) == basicBlockToFunctionName(F.block[i])

\* The file and the graph are named after the function of the first node,
\* whichever that is; of a component, after that of its first instruction.
NamesOfBlocks(g) == {basicBlockToFunctionName(b) : b \in DOMAIN g}
NamesOfInsts(g) == {instructionToFunctionName(i) : i \in DOMAIN g}
NamesOfSets(psg) == UNION {IF S = {} THEN {None} ELSE {instructionToFunctionName(i) : i \in S} : S \in DOMAIN psg}

\* runOnFunction() of each printer comes to its end, and with the right name.
CDGPrinterEnds == NamesOfBlocks(CDGraph) = {F} /\ writeToFile(CDGraph)
MDGPrinterEnds == NamesOfInsts(MDGraph) = {F} /\ writeToFile(MDGraph)
DDGPrinterEnds == NamesOfInsts(DDGraph) = {F} /\ writeToFile(DDGraph)
PDGPrinterEnds == NamesOfInsts(PDGraph) = {F} /\ writeToFile(PDGraph)
PSGPrinterEnds == NamesOfSets(PSGraph) = {F} /\ writeToFile(PSGraph)

-------------------------------------------------------------------------------
(* Loops.                                                                   *)

hasWork(L) == LoopToWorkScc[L] # {}

\* The k-th of the numbers K, in their order, and what is at those places of s.
At(K, k) == CHOOSE i \in K : Cardinality({j \in K : j <= i}) = k
Ascending(K) == [k \in 1 .. Cardinality(K) |-> At(K, k)]
Picked(s, K) == [k \in 1 .. Cardinality(K) |-> s[At(K, k)]]

Header(L) == CHOOSE h \in L : NaturalLoop(F.cfg, F.entry, h) = L

\* A loop's blocks, its header first, and a block's instructions, the
\* terminator last.
HeaderFirst(h, L) == <<h>> \o SetToSeq(L \ {h})
BlocksOf(L) == HeaderFirst(Header(L), L)
InOrder(b) == Append(SetToSeq(InstsOf(b) \ {b}), b)
InstsInOrder(blocks) == FlattenSeq([k \in DOMAIN blocks |-> InOrder(blocks[k])])

LocatedOf(is, loc) == Picked(is, {k \in DOMAIN is : loc[is[k]] # NoLoc})
Located(L, loc) == LocatedOf(InstsInOrder(BlocksOf(L)), loc)

\* The loops of LoopInfo that are not skipped.
WithWork(loops) == Picked(loops, {k \in DOMAIN loops : hasWork(loops[k])})
Decouplable == WithWork(SetToSeq(Loops))

\* DecoupleLoopsPrinter, first half: a row for each located instruction of the
\* n-th loop, L, and of all of them.
RowsOf(is, n, L, loc) ==
    [k \in DOMAIN is |-> [inst |-> is[k], line |-> loc[is[k]], loop |-> n,
                          work |-> isWork(is[k], L), iter |-> isIter(is[k], L)]]
Rows(loops, loc) ==
    FlattenSeq([n \in DOMAIN loops |-> RowsOf(Located(loops[n], loc), n, loops[n], loc)])

\* The rows that are the first of their line.
FirstOfLine(rows) ==
    Ascending({i \in DOMAIN rows : \A j \in 1 .. i - 1 : rows[j].line # rows[i].line})

RowsAt(rows, line) == Picked(rows, {i \in DOMAIN rows : rows[i].line = line})

\* Mutant: the heading is printed once only.
LinesHeadedOnce(rows, first) ==
    [k \in DOMAIN first |->
       [heading |-> IF k = 1 THEN rows[first[k]].loop ELSE 0,
        line |-> rows[first[k]].line,
        rows |-> RowsAt(rows, rows[first[k]].line)]]

\* Second half: a line is printed where it is first met, with all its rows,
\* under a heading if its first row is of another loop than that of the line
\* before.  0 is no heading.
Lines(rows, first) ==
    [k \in DOMAIN first |->
       [heading |-> IF k > 1 /\ rows[first[k - 1]].loop = rows[first[k]].loop
                      THEN 0 ELSE rows[first[k]].loop,
        line |-> rows[first[k]].line,
        rows |-> RowsAt(rows, rows[first[k]].line)]]

Report(rows) == Lines(rows, FirstOfLine(rows))

\* The first line met, 0 being none, and the last one of the file.
LinesFrom(lines) ==
    LET numbered == Picked(lines, {k \in DOMAIN lines : lines[k] # 0})
    IN  [firstLine |-> IF numbered = <<>> THEN 0 ELSE Head(numbered),
         lastLine |-> Max({0} \cup ToSet(lines))]

LinesIn(is, loc) == [k \in DOMAIN is |-> loc[is[k]]]

\* Mutant: loops that cannot be decoupled get a row, too.
RangesOfAll(loops, loc) ==
    [n \in 1 .. Cardinality(Loops) |-> LinesFrom(LinesIn(Located(SetToSeq(Loops)[n], loc), loc))]

\* DecoupleSourceSplitPrinter.
Ranges(loops, loc) == [n \in DOMAIN loops |-> LinesFrom(LinesIn(Located(loops[n], loc), loc))]

-------------------------------------------------------------------------------

\* All five graphs can be written to 'dot' files: no iterator of
\* DependenceTraits.h meets a node that operator[] had to invent, and the first
\* node, whichever it is, exists and names the function the graph is of
\* (DependenceTraits.h:96, 228, PSGPrinter.cpp:38-39, Util.cpp).
GraphsCanBeWritten ==
    PSGraph # Empty => /\ CDGPrinterEnds /\ MDGPrinterEnds /\ DDGPrinterEnds
                       /\ PDGPrinterEnds /\ PSGPrinterEnds

LinesOf(L, loc) == {loc[i] : i \in InstsIn(L)} \ {NoLoc}

\* No two of the loops share a line.
OwnLines(loops, loc) ==
    \A m, n \in DOMAIN loops : m # n => LinesOf(loops[m], loc) \cap LinesOf(loops[n], loc) = {}

HeadingOf(lines, k) == lines[Max({j \in 1 .. k : lines[j].heading # 0})].heading
Under(lines, n) == {lines[k].line : k \in {j \in DOMAIN lines : HeadingOf(lines, j) = n}}

\* The lines and rows where i is printed.
PrintedAt(lines, i) ==
    {at \in (DOMAIN lines) \X (1 .. Cardinality(Insts)) :
        at[2] \in DOMAIN lines[at[1]].rows /\ lines[at[1]].rows[at[2]].inst = i}

\* Each located instruction of a loop that can be decoupled is printed once, at
\* its line, as work or as iter if the loop is left for good, and, unless two
\* loops share a line, under the heading of its own loop
\* (DecoupleLoopsPrinter.cpp:65-130).
PrintedUnderItsLoop ==
    pc = "done" =>
        \A loops \in {Decouplable} : \A loc \in Locations(F) :
        \A lines \in {Report(Rows(loops, loc))} :
        \A n \in DOMAIN loops : \A i \in InstsIn(loops[n]) :
            /\ Cardinality(PrintedAt(lines, i)) = IF loc[i] = NoLoc THEN 0 ELSE 1
            /\ \A at \in PrintedAt(lines, i) :
                 /\ lines[at[1]].line = loc[i]
                 /\ LeftForGood(loops[n]) =>
                      (lines[at[1]].rows[at[2]].work <=> ~lines[at[1]].rows[at[2]].iter)
                 /\ OwnLines(loops, loc) => HeadingOf(lines, at[1]) = n

\* Lines in the order a loop is walked in begin with the smallest.
BeginsFirst(lines) == lines # <<>> /\ \A k \in DOMAIN lines : 0 < lines[1] /\ lines[1] <= lines[k]

\* The two reports agree, unless two loops share a line.  A loop with a heading
\* in the first has a row in the second; the row ends with the last line printed
\* under that heading and begins with one of the others, which is the first one if
\* the walk over the loop begins there.  So a row may leave out lines at the top of
\* its loop, but neither end is another loop's
\* (DecoupleSourceSplitPrinter.cpp:43-71, firstLine in line 62).
ReportsAgree ==
    pc = "done" =>
        \A loops \in {Decouplable} : \A loc \in Locations(F) : OwnLines(loops, loc) =>
        \A lines \in {Report(Rows(loops, loc))} : \A ranges \in {Ranges(loops, loc)} :
            /\ {lines[k].heading : k \in DOMAIN lines} \ {0} \subseteq DOMAIN ranges
            /\ \A n \in DOMAIN ranges :
                 /\ ranges[n].lastLine = Max({0} \cup Under(lines, n))
                 /\ IF Under(lines, n) \subseteq {0}
                      THEN ranges[n].firstLine = 0
                      ELSE ranges[n].firstLine \in Under(lines, n) \ {0}
            /\ \A n \in DOMAIN loops :
                 BeginsFirst(LinesIn(Located(loops[n], loc), loc)) =>
                   ranges[n].firstLine = Min(Under(lines, n))

==============================================================================
