----------------------------- MODULE SourceReport -----------------------------
(***************************************************************************)
(* SourceToPSGPrinter (pass/src/SourceToPSGPrinter.cpp): sorts the PSG     *)
(* with topsort and reports, line by line, the ranks of the components     *)
(* that have an instruction there.                                         *)
(***************************************************************************)
EXTENDS TopSort, Reach

CONSTANT Lines   \* the lines of the file

\* find(ts.begin(), ts.end(), scc) - ts.begin(): ts.end() if scc is not found.
rank(scc) == IF \E k \in 1 .. Len(result) : result[k] = scc
               THEN (CHOOSE k \in 1 .. Len(result) : /\ result[k] = scc
                                                     /\ \A j \in 1 .. k - 1 : result[j] # scc) - 1
               ELSE Len(result)

\* Mutant: a line keeps the last rank only.
lineToLastSCC(located) ==
    [line \in {at[2] : at \in located} |->
        {CHOOSE r \in {rank(at[1]) : at \in {a \in located : a[2] = line}} : TRUE}]

\* located holds the component and the line of each instruction with a location.
lineToSCCs(located) ==
    [line \in {at[2] : at \in located} |-> {rank(at[1]) : at \in {a \in located : a[2] = line}}]

\* The report of an acyclic graph can be read back: the ranks of a line name the
\* components with an instruction there and no others, and a component never has
\* a rank before one it depends on (SourceToPSGPrinter.cpp:55-75).
ReportReadsBack ==
    phase = "done" /\ Acyclic(psg) =>
        /\ \A u \in DOMAIN psg : \A v \in psg[u] : rank(u) < rank(v)
        /\ \A located \in SUBSET ((DOMAIN psg) \X Lines) :
             LET report == lineToSCCs(located)
             IN  located = UNION {{<<v, line>> : v \in {w \in DOMAIN psg : rank(w) \in report[line]}}
                                  : line \in DOMAIN report}

==============================================================================
