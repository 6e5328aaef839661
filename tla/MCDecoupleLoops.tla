--------------------------- MODULE MCDecoupleLoops ---------------------------
(* Functions in SSA form: of five blocks with terminators only, of four with  *)
(* one more instruction x, and of three with two, x and y; also three of four *)
(* blocks with two, and two of five with a cycle that has two entries.  Block *)
(* 1 is the entry; a block has at most two successors and reaches a return,   *)
(* and some block is in a loop.  The blocks are numbered in an order in which *)
(* they can be reached, so that each has a predecessor before it: other       *)
(* numberings are the same functions.                                         *)
EXTENDS Printers

Functions(n) ==
    {h \in [1..n -> {s \in SUBSET (2..n) : Cardinality(s) <= 2}] :
        /\ \A b \in 2..n : \E a \in 1..(b - 1) : b \in h[a]
        /\ \A b \in 1..n : From(h, b) \cap Exits(h) # {}
        /\ \E b \in 1..n : OnCycle(h, b)}

x == 11
y == 12
Constant == 0

Conditional(h) == {b \in DOMAIN h : Cardinality(h[b]) = 2}

\* The values that may be used at the end of block b.
Available(h, at, body, b) == {Constant} \cup {i \in body : Dominates(h, 1, at[i], b)}

\* The functions over h, at saying where its instructions are: for the phi x,
\* if it is one, an incoming value from each predecessor; a condition for
\* each branch; whether y, below x, uses it; and if both access memory, what
\* the access of y may depend on.
Over(h, body, at, isPhi) ==
    {[cfg |-> h, entry |-> 1, block |-> at,
      users |-> [i \in DOMAIN at |->
                    {b \in Conditional(h) : cond[b] = i}
                    \cup {j \in {x} : \E p \in DOMAIN incoming : incoming[p] = i}
                    \cup {j \in {y} : i = x /\ use}],
      memory |-> [i \in DOMAIN at |-> IF i = y /\ access # "none"
                                        THEN [inst |-> x, isDef |-> access = "def"]
                                        ELSE [inst |-> None, isDef |-> FALSE]],
      constants |-> [i \in DOMAIN at |-> {p \in DOMAIN incoming : i = x /\ incoming[p] = Constant}]]
     : cond \in {c \in [Conditional(h) -> body \cup {Constant}] :
                    \A b \in Conditional(h) : c[b] \in Available(h, at, body, b)},
       incoming \in IF isPhi
                      THEN {v \in [Preds(h, at[x]) -> body \cup {Constant}] :
                               \A p \in Preds(h, at[x]) : v[p] \in Available(h, at, body, p)}
                      ELSE {<<>>},
       use \in IF y \in body /\ Dominates(h, 1, at[x], at[y]) THEN BOOLEAN ELSE {FALSE},
       access \in IF y \in body /\ at[x] = at[y] /\ ~isPhi THEN {"none", "def", "clobber"} ELSE {"none"}}

Placed(h, body) ==
    LET Place(q) == [i \in DOMAIN h \cup body |-> IF i \in body THEN q[i] ELSE i]
    IN  UNION {UNION {Over(h, body, Place(q), isPhi) :
                        isPhi \in IF x \in body /\ Preds(h, q[x]) # {} THEN BOOLEAN ELSE {FALSE}}
               : q \in [body -> DOMAIN h]}

TwoLoops == <<{2}, {2, 3}, {3, 4}, {}>>
LoopInLoop == <<{2}, {3, 4}, {2, 3}, {}>>
TwoWaysOut == <<{2}, {3, 4}, {2, 4}, {}>>

\* A cycle that is entered at blocks 2 and 3, which are loops of their own: phis
\* of both blocks that use each other are a component in both loops.  The uses
\* are pairs; an instruction that is no phi stands in block 2.
TwoEntries == <<{2, 3}, {2, 3}, {3, 4}, {2, 5}, {}>>
Crossing(phis2, phis3, others, uses) ==
    LET insts == DOMAIN TwoEntries \cup phis2 \cup phis3 \cup others
    IN  [cfg |-> TwoEntries, entry |-> 1,
         block |-> [i \in insts |-> IF i \in phis3 THEN 3 ELSE IF i \in DOMAIN TwoEntries THEN i ELSE 2],
         users |-> [i \in insts |-> {j \in insts : <<i, j>> \in uses}],
         memory |-> [i \in insts |-> [inst |-> None, isDef |-> FALSE]],
         constants |-> [i \in insts |-> IF i \in phis2 \cup phis3 THEN {1} ELSE {}]]

\* x and y decide which way block 2 goes; next to them 17 flows over 13 to the
\* phi 14, which goes round with 15, and from there to 16.
CrossingPrograms ==
    LET goesRound == {<<x, x>>, <<x, y>>, <<y, y>>, <<y, x>>, <<x, 2>>}
    IN  {Crossing({x}, {y}, {}, goesRound),
         Crossing({x, 14}, {y, 15}, {13, 16, 17},
                  goesRound \cup {<<17, 13>>, <<13, 14>>, <<14, 15>>, <<15, 15>>, <<15, 14>>, <<14, 16>>})}

MCPrograms == UNION {Placed(h, {}) : h \in Functions(5)}
              \cup UNION {Placed(h, {x}) : h \in Functions(4)}
              \cup UNION {Placed(h, {x, y}) : h \in Functions(3) \cup {TwoLoops, LoopInLoop, TwoWaysOut}}
              \cup CrossingPrograms

\* Line tables: a line per block, going up or down; one line for all; locations
\* in the bodies only; line 0 for the terminators.
MCNoLoc == -1
MCLocations(p) ==
    LET Table(Line(_)) == [i \in DOMAIN p.block |-> Line(i)]
    IN  {Table(LAMBDA i : p.block[i]), Table(LAMBDA i : 9 - p.block[i]), Table(LAMBDA i : 1),
         Table(LAMBDA i : IF i \in {x, y} THEN p.block[i] ELSE MCNoLoc),
         Table(LAMBDA i : IF i \in {x, y} THEN i ELSE 0)}

==============================================================================
