---------------------------- MODULE MCDswpPasses ----------------------------
(* Three functions: one loop with iter and work, one with iter only of two   *)
(* instructions, and two loops.  The command lines name one or two passes,   *)
(* or three that ask DecoupleLoops first and last; a pass that another one   *)
(* requires is named first or not at all.                                    *)
EXTENDS DswpPasses

MCPasses == DOMAIN DswpRequires
MCFunctions == <<"f", "g", "h">>
MCCode == [f |-> [loops |-> {[iter |-> {{1}}, work |-> {{2}}]}, outside |-> {}],
           g |-> [loops |-> {[iter |-> {{3, 4}}, work |-> {}]}, outside |-> {{5}}],
           h |-> [loops |-> {[iter |-> {{6}}, work |-> {{7}}], [iter |-> {{8}}, work |-> {}]},
                  outside |-> {}]]

Leaves == {p \in MCPasses : \A q \in MCPasses : p \notin DswpRequires[q]}
Asking == {p \in Leaves : DswpRequires[p] = {"decouple-loops"}}
MCWanted == {w \in {<<p>> : p \in MCPasses}
                   \cup MCPasses \X Leaves
                   \cup Asking \X Leaves \X Asking : IsInjective(w)}

CONSTANTS s1, s2, s3, l1, l2
MCSccAddrs == {s1, s2, s3}
MCLoopAddrs == {l1, l2}
Addresses == Permutations(MCSccAddrs) \cup Permutations(MCLoopAddrs)
==============================================================================
