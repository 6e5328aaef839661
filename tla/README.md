# TLA+ models of icsa-dswp

This repository decouples loops into a pipeline (Decoupled Software Pipelining):
a set of LLVM passes splits the instructions of a loop into those that make it
go round (`iter`) and the rest (`work`), and a few programs show, by hand, what
the split loop looks like as threads connected by queues. The modules here model
both halves: what the passes compute, and what the threads do.

Run everything from this directory: `tlc -config X.cfg M` for the runs of
PROJECT.json, `tlapm M.tla` for the eight modules of proofs (`...Proofs`).

## 1. The system

### The programs with threads (`test/`)

| part | state | operations | what is hard |
|---|---|---|---|
| `pc_queue` of `pcqueue.cpp` | a deque, a pthread mutex, a condition variable | `produce`, `consume` | one test before the wait, wakeups, the queue's life on its producer's stack |
| pipeline of `pcqueue.cpp` | three such queues, one per pair of four threads; `sum`, shared by reference and uninitialised | `parallel_sum`, `consumer1..3` | four threads interleave; nested create and join; nobody locks `sum` |
| `pc_queue` of `nth-prime-dswp.cpp` and `470.lbm/src/lbm-dswp.cpp` | a deque of packets with an end flag, `std::mutex`, `std::condition_variable` | `produce`, `produce_end`, `consume`, `end_reached` | `end_reached` on an empty queue, an end that nobody is notified of, test and take in two critical sections |
| worker of `nth-prime-dswp.cpp` | the table `primes`, the candidate `p` | one prime per count received | the table is shared with `main`; a count may be the end packet's |
| `LBM_performStreamCollide` and its worker, `lbm-dswp.cpp`; time loop of `main-dswp.cpp` | two grids, written by both threads | one cell's outgoing directions per packet; grid swap after the join | disjointness of the two threads' writes to neighbouring cells; nobody locks a grid |

### The passes (`pass/`)

Each pass keeps one graph (or map) as a member, fills it in `runOnFunction`,
reads the members of the passes it requires and clears its own in
`releaseMemory`. They are sequential; what is hard is that each relies on an
exact property of the one before it.

| part | state | right if |
|---|---|---|
| `Dependence.h` | `map<node, set<node>>` | every dependant is a node, for the callers of `.at()` |
| `GraphUtils.h` | none | `transpose`, `findSCC`, `topsort` are what their names say, for every order of addresses |
| `CDG` | graph of blocks | control dependence as defined by Ferrante, Ottenstein and Warren |
| `MDG`, `DDG` | graphs of instructions | one edge per definition in memory, one per use |
| `PDG` | graph of instructions | the union, with control dependences spread over whole blocks, and constants of phis |
| `PSG` | graph of components, `InstToSCC` | acyclic, every instruction in one component |
| `DecoupleLoops` | `LoopToIterScc`, `LoopToWorkScc` | in a loop left for good: nothing flows from work to iter; there is iter |
| `SourceToPSGPrinter` | none | every component has a rank, ranks respect dependences, and a line's ranks name its components |
| `DependenceTraits.h`, the DOT traits, the five graph printers, `Util` | a map from nodes to wrapped nodes | no iterator meets a node that is not there; the graph's name is its function's |
| `DecoupleLoopsPrinter`, `DecoupleSourceSplitPrinter` | none | every instruction stands under its own loop; the two agree |
| `ExampleDecoupleLoopsUser` | none | what it is told of an instruction is about this function's loops |
| `runtime/` | none | one placeholder function |

The passes call each other only through LLVM's pass manager: CDG, MDG and DDG
feed PDG, PDG feeds PSG, PSG feeds DecoupleLoops and the report. CDG reads the
post-dominator tree, MDG the memory dependence analysis, DecoupleLoops the loop
information. The pass manager runs the schedule on one function after another and
calls `releaseMemory` of a pass when its last user has run. DecoupleLoops keeps
addresses of what others own: of the PSG pass's sets and of LoopInfo's loops.

PROJECT.json lists every component with its status, and every hazard with its
line and the properties that watch it.

## 2. The modules

### Threads

- **SequentialSum**: `sequential_sum`, what the pipeline promises.
- **PcPipeline**: the four threads. A label of `pc[t]` is a place between two
  steps other threads can tell apart: each lock, push, signal, test, wait, pop
  and unlock is an action. Thread `t` fills queue `t+1` and drains queue `t`, so
  the three consumers and `parallel_sum` are instances of the same actions;
  `Iterate`, `AddToSum` and `Join` hold what differs. A queue is the history
  `pushed[q]` and the number `popped[q]` of pops; `empty()` compares the two as
  `std::deque` does (also after a pop too many), and `front()` of a slot never
  written is any value of `Garbage`. `SpuriousWakeups` says whether
  `pthread_cond_wait` may return without a signal, which POSIX allows.
- **PcPipelineProofs**: its theorems (section 5). **MCPcPipeline**: instances.
- **PacketQueue**: the queue with an end packet and the two threads around it,
  parameterised by the items and by what an unwritten slot holds. `work` is the
  history of the data the worker worked on; `starved` and `spurious` record whether
  `front()` was ever called on an empty queue and whether a wakeup had no notify. The guard of `Take` stops after
  `MaxOverrun` pops too many, a bound of the model only.
- **NthPrime**: the sequential program's loop. **NthPrimeDswp** EXTENDS
  PacketQueue with the table: `FindPrime` is the loop body at `Work`, `Show` the printing
  after the join. `CountsUp` says what the data are, the numbers main counts.
  **NthPrimeDswpProofs**: the theory of the queue, for both programs, and theorems about
  this one.
- **LbmSteps**: the sequential time step of `lbm.c`. The arithmetic of a cell
  (`Moments`, `Collide`) and of what flows in and out (`InOutFlow`) are parameters.
  **LbmDswp** EXTENDS PacketQueue with the grids: `SweepCell` is the body of
  main's sweep up to `produce`, `WorkOnCell` the worker's, `SwapGrids` what comes between two
  calls. The packet's cell is the queue's datum; its other members are kept by cell.
  `writers` is the history of who wrote a slot in this step. **LbmDswpProofs** EXTENDS
  NthPrimeDswpProofs with theorems about the queue in this program and its grids.

### Passes

- **DepGraph**: `DependenceGraph` as a function from a node to its dependants,
  and `transpose`. **DepGraphProofs**: that this operator is what the two loops
  of `GraphUtils::transpose` compute, edge by edge, and that it is an involution;
  the theory of paths, components and cycles the other proofs use; and lemmas about sequences
  without repetition.
- **Reach**: paths, cycles and components by definition; not code, but what the
  algorithms are compared with.
- **FindSCC**: the promise of `findSCC`. **Kosaraju**: the algorithm, each
  recursive call an entry of `stack`, each step of a loop an action.
- **TopSort**: `topsort`, one action per turn of its loops.
- **GraphUtilsProofs** EXTENDS Kosaraju and SourceReport, and with it TopSort: theorems about
  all three.
- **ControlFlow**: external to the repository. The post-dominator tree, the
  top-level natural loops and control dependence, from their definitions.
- **CDG**: `getBottomUpTraversal`, `getPostDomFrontier` and the reversal, with the
  children of a tree node in any order. **CDGProofs**: that this is the control
  dependence relation.
- **DecoupleLoops**: one action per pass, from CDG to the split. It takes from CDG
  and Kosaraju what their theorems establish (the control dependence relation;
  the components as sets) and computes the other graphs as the code does.
  **DecoupleLoopsProofs**: theorems about the graphs, the split and the printed graphs.
- **Printers** EXTENDS DecoupleLoops with what the printers make of its results.
  They change no state, so each is an operator; a row of a report keeps its
  instruction, line and loop and drops columns and block numbers. What a printer selects
  from a list is written by place (`Picked`): the elements at the places that pass the test,
  in the order of the places.
- **SourceReport** EXTENDS TopSort with the map from lines to ranks.
- **PassManager**: LLVM's legacy pass manager, external: how the schedule follows
  from a command line and `getAnalysisUsage`, the last user of each pass, running
  and releasing. `holds[p]` is the set of functions whose results pass `p` has in
  memory.
- **DswpPasses** EXTENDS PassManager with the repository's passes: what each
  requires, and the memory DecoupleLoops' answers go through, with the addresses. An
  address that was freed may be given out again. `SccAddrs` and `LoopAddrs` are just
  large enough that it must be. **DswpPassesProofs**: theorems about both.

MC modules (`MC...`) hold the sets of inputs; a `.cfg` gives every constant.
Definitions commented "Mutant" are wrong variants of the definition after them;
PROJECT.json says which property each one breaks. Nothing else uses them.

## 3. The runs

| run | instance | states | shows |
|---|---|---|---|
| `pipeline` | 3 elements, no spurious wakeups | 21599 | order, no lost wakeup, queue lifetime, refinement of SequentialSum, termination |
| `pipeline_wakeups` | 1 element, spurious wakeups | 37741 | exclusion and termination do not need the wait to be reliable |
| `pipeline_spurious` | 1 element, spurious wakeups | violation | the sum may be wrong (finding) |
| `lbm` | 4 cells, one an obstacle, 5 directions, 2 time steps, spurious wakeups | 91818 | the queue: order until a wakeup is spurious; order, completeness and termination of runs that never meet an empty queue; the one place where the two threads hang; the grids: one writer per slot, refinement of LbmSteps |
| `nth_prime_dswp` | 20 primes | 9482 | trial division with the early exit; the worker follows the sequential program |
| `nth_prime_early` | 6 primes | violation | a wrong number may be printed (finding) |
| `topsort` | every graph of 3 nodes, every acyclic one of 4 | 8877 | the ranks, and the report made of them |
| `findscc` | every graph of 3 nodes, every one of 4 without self-loops | 139264 | findSCC implements FindSCC |
| `cdg` | every function of 4 blocks that reaches its exits | 32578 | the frontiers and the graph |
| `decouple` | 5316 functions in SSA form, five line tables each | 42532 | the split of every loop; the printed graphs and lines |
| `pass_manager` | every command line of one or two passes, and those of three that ask DecoupleLoops twice; three functions | 711030 | results are there when required, nothing is left to the next function, askers are told right |
| `pass_manager_two` | the same | violation | the sets are freed under the second asker (finding) |

**Bounds.** Three elements make every stage of the pipeline busy at once, with a
queue longer than one while the next stage still sleeps; the theorems of section 5
cover every N. The stage function maps 0 to 1, 1 to 3, 3 to 2 and 2 to 0: it changes each
of the elements 0, 1, 2 at every stage and makes no two equal, so that
any lost, repeated or swapped element changes a queue's contents. Four nodes are
the fewest with two components of two nodes, or a cycle between two other nodes on
each side. Four blocks have branches with a join, nested branches, loops with two
exits and several returns. For `decouple`, five blocks without further
instructions, four with one, three with two, and with two also in three chosen
functions of four blocks, give loops next to each other,
nested ones and loops entered by a jump into the middle, phi nodes with constants
or values around the loop, conditions on values of the loop, and memory
dependences that are definitions or clobbers. Two chosen functions have a cycle of control
flow that is entered at two blocks, with a loop in it (section 4). Blocks are numbered so that each has a
predecessor with a smaller number, which every function has after renaming. A block
has at most two successors there (no `switch`), and a phi or access is `x`, with `y`
its user. The line tables have each block on a line of its own, upwards and
downwards, all on one line, locations missing in terminators, and line 0.

For `lbm`, cells in rows of two with offsets of 0, 1 and 2 make each cell a neighbour
of main's and of the worker's directions, and put fluid before, behind and
above the obstacle; values are mixed modulo a prime, so that a slot with a
neighbour's or an older value differs. Two time steps let a worker of the first
run into the second. `MaxOverrun` bounds how often a spurious wakeup makes the worker pop
past the last packet.

For `pass_manager`, the three functions have a loop with both kinds, a loop with iter
only beside code outside, and two loops; three set addresses and two loop addresses
have to be used again by each. A command line that names a pass which an earlier one
already required would get a second instance of it, and is left out.

**Deadlock** is checked in the pipeline's runs. It is not in the runs of
PacketQueue's programs, because they do stop: a worker asleep in `consume()` is not
woken by `produce_end()`, and main waits for it in `join()`. `HangsOnlyAtTheEnd` says
that there is no other such place. The sequential
algorithms and the pass manager end.

**Fairness.** Weak fairness of each thread's next step (PcPipeline,
LbmDswp): the operating system runs every runnable thread. A mutex taken in
turns needs no strong fairness here, because a thread waits for each mutex only
finitely often while the other side's loop is bounded. Spurious wakeups are owed
to nobody. For the sequential algorithms: weak fairness of the next step.

## 4. What the runs show about the code

Three disagreements with what the repository says of itself, each the one property
of a run expected to fail:

1. `RightResult`: `consume()` of `pcqueue.cpp` tests `data.empty()` in an `if`
   (line 38). A wakeup without a signal then pops an empty queue and the sum is
   wrong, although the comment at lines 15-16 says the mutex and the condition
   variable are "used to ensure thread-safety". Without spurious wakeups one
   consumer per queue makes the `if` as good as a `while`: `NeverTakesFromEmpty`,
   which is a theorem.
2. `SixthPrimeIs13`: `end_reached()` of `nth-prime-dswp.cpp` reads `front()` of a
   queue that may be empty (line 56); if the memory there says "end", the worker leaves
   early and main prints a number that was never computed, whereas lines 3-4 of the file say
   that the 6th prime is 13. (If it says "no end", the worker may go on to take the end
   packet as data, which line 23 calls invalid; `WorksInOrder` and `TableIsRightAsFar` allow
   for that one datum.) A run in which `end_reached()` always found a packet prints the right
   number: `CleanRunPrintsNthPrime`, a theorem.
3. `SetsOutliveAskers`: README.md:332-334 says the memory of the PSG pass "shouldn't be
   cleared in order for this pass to work". DecoupleLoops asks for PSG with
   `addRequired` (DecoupleLoops.h:38-39), so LLVM takes the first pass that
   asks DecoupleLoops for the last user of PSG and LoopInfo. With two askers, say
   `-print-decouple-loops -print-decouple-source-split`, both are released before the
   second one asks. `AskersAreAnswered` says what that comes to: the second asker is told
   of no loop at all, never of loops or sets that are gone.

The packet queue's programs may hang, for `produce_end()` does not notify: main in `join()`, the
worker asleep in `consume()`. No comment or test says otherwise, so this is not on the list; the
run `lbm` reaches it. `HangsOnlyAtTheEnd` says that the two threads wait for each other there
and nowhere else, that `end_reached()` read an empty queue before, and that no item is
left: each was popped. Without spurious wakeups each was worked on, too, so that what does
not return has done its work.

What else remains true of the packet queue is stated with `starved`: as long as the
worker never met an empty queue (main was ahead), the work is done in order and
completely, the time steps of lbm are the sequential ones, and the program returns,
spurious wakeups or not. As long as no wakeup was
spurious, `WorksInOrder` says that the worst that can happen is to stop early, to stop
never, or to take the end packet for one more datum; `TableIsRightAsFar` says what that
does to the table of primes. `OneWriterPerSlot` is why the grids of lbm need no lock:
each slot of the new grid belongs to one cell and one direction, an obstacle's
directions are all main's, and a fluid cell's are shared out.

Of the passes, the README says that "All loops have `iter` instructions" and that
these "make the loop go round" (README.md:328-330). Both hold of every loop that is not
entered again once left, `LeftForGood` (`EveryLoopHasIter`, `IterIsTheLoopControl`), and the
first also of every loop with work, that is, of all that the printers show. Other
loops exist in functions whose cycles are entered at two blocks, as by a `goto` into a
loop: LLVM has no loop there that would hold the cycle, and the cycle may run
through blocks of two loops or of none. Then

- a component of the PSG may hold instructions of two top-level loops. `SccToLoop`
  keeps the loop visited last (DecoupleLoops.cpp:71-80), so the instructions of the other
  loop are neither iter nor work of it, and that loop may have neither at all; each
  instruction is still claimed by exactly one loop that its component meets (`IterOrWork`);
- a chain of flows may lead from work through an instruction whose component is kept for
  the other loop, and on to one that depends on nothing else and so is iter: work feeds iter;
- other components than that of the exit branch may be iter.

The proofs of section 5 failed on these functions before the properties were stated with
`LeftForGood`; two of them are inputs of `decouple` (`CrossingPrograms`). The
README's words have no such condition, so that of the loops whose components all went to other
loops they are not true: the first of the two functions shows it. For code without such a `goto` nothing
is lost: in a reducible function no top-level loop is entered again.

`WorkNeverFeedsIter` compares the result with the flows of values, memory and
control it was built from, not with the graphs of the passes, so it depends on
each one of CDG, MDG, DDG, PDG, PSG and on the split. It counts a memory dependence
only where the memory analysis reports a definition: the pass ignores the others, as
README.md:238-240 says, and a loop whose work clobbers what its iter reads is not
protected.

`PrintedUnderItsLoop` holds where no two loops share a line: a shared line is printed once, with
the rows of both, under the first one's heading. Where none is shared, `ReportsAgree` says
what comes of `firstLine` being the first line met: a row always ends where its loop does and
begins with a line of its loop, but smaller lines of the loop that the walk over its blocks
meets later are left out.
`GraphsCanBeWritten` needs that every dependant is a node and that the PSG has no empty
component; a graph with an edge to something else would get a null node while it is iterated over.

## 5. What is proved

`PcPipelineProofs`, for every N, f, Value and Garbage:

- `Implements`: without spurious wakeups the pipeline refines SequentialSum. From it
  and from the invariant: `PipelineInOrder`, `WaitNeedsNoLoop`.
- With or without spurious wakeups: `TypeCorrect`, `CriticalSectionsExclude`,
  `QueuesOutliveUsers`, `SignalNotLost`; `SomebodyAlwaysRuns`, the absence of deadlock; and
  `EveryStepCounts`, by which each step lowers a natural number.

The inductive invariant `IInv` (end of PcPipeline) is needed because none of the
properties is preserved by itself. That a woken consumer has data needs that a
sleeping one is signalled before anything else (`Wakeup`), which needs that the
producer is alone in its critical section (`Guarded`), which needs to know which
labels each thread can have (`Born`); that the element at hand is the right one
(`HoldsElement`) needs `Fifo`, which ties a queue's lengths to the loop counters of
its two threads; and that the sum is complete at the join needs that a thread that
is done has counted N (`Lives`). There is one lemma per action, and one step in it
per conjunct. `LockInv` is the part of the invariant that speaks of `pc` and `mutex`
only; no action needs more to preserve it, and so the two theorems from it do not
assume reliable waits.

Where waits are not reliable `IInv` fails, since a queue may be popped when it is empty.
`CountInv` is what is left: each thread pushed and popped as often as it counted (`Counted`), and a
consumer asleep on data has a signal coming. That is enough for `SomebodyAlwaysRuns`: the holder of
a mutex does not wait for anything; if all are free, a thread in `join` waits for the next one; and
if the first thread that is not in `join` sleeps, its queue is empty, so its producer has not
pushed all it has to and is not in `join` either. `Waits` states when a thread has no step
(a lemma shows that whoever takes a step does not wait; that whoever does not wait has a step was
checked with TLC, comparing with `~ENABLED` for N = 1 to 3). `StepsLeft` weighs the labels of the four threads and
the rounds of their loops. The two theorems are what termination (`Returns`) needs besides
fairness, which the provers do not cover.

`DepGraphProofs` has what the proofs about the passes share. `TransposeEmpty`,
`TransposeAddsNode` and `TransposeAddsEdge` are the start and the steps of the loops of
`GraphUtils::transpose`, `TransposeTwice` is what lets DecoupleLoops read "depends on" off
the transposed graph. `From`, which Reach defines by a recursion over the length of paths,
is shown to be the least set closed under edges (`FromSelf`, `FromClosed`, `FromLeast`), by
induction over the naturals in the form the provers accept: a set of numbers with 0 and each
successor is all of them, from the library's well-foundedness of finite subsets. From that:
reversing a graph reverses its paths, components are classes, a finite set of nodes on no
cycle has a source, and a path goes around a node or through it.

`GraphUtilsProofs` on `topsort`, for every finite graph whose dependants are nodes:
`SortTypeCorrect`, `DependencesGoForward`, `NoSecondRank`, `LeavesOutStuckOnly`; from these and the theory of
paths, `ReturnsWhatNoCycleLeadsTo` (the safety half of `SortsWhatIsAcyclic`) and
`ReportCanBeReadBack`. The invariant `SortInv`
says what is left of the consumed graph: exactly the edges from nodes not yet
ranked, and from the current one to its remaining dependants; and that a node is queued or
ranked if and only if it has been looked at and has no edge left.

`GraphUtilsProofs` on `findSCC`, for every finite graph, which is every order of addresses too:
`SourcesComeFirst` and `Implements`, by which findSCC implements FindSCC. The invariant (`IInv`) of
the first traversal is `Enumerating`: visited nodes are on the stack or listed, each call was
reached from those below it (`Nested`), what a call has behind it is visited (`Behind`), and
all that a listed node leads to stands behind it, unless a node of its own component stands
before it or still waits on the stack (`LeadsOrFollows`). When the stack is
empty nothing waits, so the first listed node of a component stands before all the component
leads to (`FirstLeads`). The second traversal may then not leave the
component of its root: what it reaches along a transposed edge and is not assigned yet
leads to the root, so it is listed no later than the root's component, whose predecessors in
the list are settled (`StaysInComponent`); and when it returns, what it assigned is closed under
transposed edges but for settled components, so it is all of it (`ComponentIsWhole`).
`Between` and `Within` say this between and during two calls of `assignComponent`.

`CDGProofs`, for every finite function whose blocks all lead to an exit, and every order of
the children in the tree: `FrontiersAsSoonAsVisited` and `FindsControlDependence`. The
post-dominators of a block form a chain: two blocks do not post-dominate each other
(`PostDominatesOneWay`), of two post-dominators of one block one post-dominates the other
(`PostDominatorsInLine`), and both follow because from the blocks between no exit could be
reached. So every block without the root as parent has a first post-dominator, its parent
(`ParentIs`). The rule the pass uses, by which the frontier of a block is what its
predecessors and its children's frontiers have that it does not immediately post-dominate,
then gives the blocks it is control dependent on (`FrontierRule`). The rule needs the
children's frontiers, so the invariant says that no block is listed before its parent
(`ChildrenFirst`), that the search has found the children of each node it has opened
(`Traversing`), by which it ends with every block listed, and that blocks still to be visited
have an empty frontier and the others theirs (`Computing`).

`DecoupleLoopsProofs`, for every function under LLVM's rules for SSA form
(`ProgramsAssumption`, `PathsAssumption`: each block is reached and reaches an exit, values
and memory dependences go along paths): `TheComponentsAreInOrder`, `EveryGraphIsWritten`,
`EachIsIterOrWork`, `LoopsHaveIter`, `IterNeverWaitsForWork`, `IterMakesItGoRound`. The
invariant states each pass's result by its definition. Every edge of the PDG goes along a
path of the function, control dependences too, so a component of the PSG is in one
place as far as paths can tell: one that meets a loop left for good lies within it
and belongs to no other. (One that meets other loops belongs to one of them still, and that
is all `EachIsIterOrWork` says of it.) Components are acyclic as quotients are; a finite acyclic graph,
restricted to the loop, has a source, and this is iter. A branch that may leave the loop
controls, by a chain of control dependences within the loop, each of its instructions: so it
is not work, and there is no other source than its component. Work depends on a component
of its loop, all of whose chains start in iter; a chain back would be a cycle.

About the printers, for every function and line table as well: `EachIsPrintedUnderItsLoop` and
`TheReportsAgree`. The report that both start from lists each loop's instructions with a location:
its blocks one after another, each instruction once (`FlattenOnce`), and no instruction for two
loops, as top-level loops are apart. A selection by place is an enumeration that keeps the order, so
its elements are known exactly, and the first one of a line is the first row of that line. Where no
line is shared by two loops, the heading a line is printed under is therefore the loop of each of
its rows; the last line that DecoupleSourceSplitPrinter keeps of a loop is the last that
DecoupleLoopsPrinter prints under it, and the first line it keeps is one of them.

`NthPrimeDswpProofs`, for every N and every schedule. The first section is about PacketQueue's
variables alone. `QueueInv` says what has been pushed, who holds the mutex, where a worker may
sleep (`Sleep`), which datum the worker has from its n-th `consume()` (`WorkIsNth`), and how far
it may be when it never met an empty queue (`NeverStarved`); each step of the queue keeps it. On top:

- `TheTableIsRight`: without spurious wakeups the table's entries are the primes in order
  (`TableIsRightAsFar`). A number that is not prime has a least divisor, which is prime and whose square is
  not larger, so it is in the table, and no entry before it has a square that ends the trial; a
  prime passes every trial. So the first number from `p` on that passes is the next prime, and the
  table lists the primes below `p` (`Listed`).
- `PrimesAreSequential`: the worker's steps are the sequential program's.
- `CleanRunPrintsNthPrime`: a run in which the queue was never found empty prints the N-th prime.
- `CleanPrimesGoOn`, `EveryPrimeStepCounts`: such a run is not stuck before it has printed, and
  has only so many steps to make. Main cannot be in `join` with the worker asleep: a clean
  worker sleeps only when told that a datum comes, and of each datum it is notified.

They have `CountsUp` as a hypothesis: the data are 0, 1, ... and `MaxPrime` leaves room for N
primes. It is not an assumption of the module because lbm's proofs extend it; TLC evaluates
it for the runs (MCNthPrimeDswp).

`LbmDswpProofs`, for every lattice, any `Moments`, `Collide` and `InOutFlow`, any number of
steps, with and without spurious wakeups: `WorkIsInOrder`, `CleanWorkIsAll`,
`HangIsAtTheEnd`, `QueueIsDestroyedLast`, `NoSlotIsShared`; `StepsAreSequential`, by
which a clean time step implements the sequential one; and `CleanStepsGoOn` and
`EveryLbmStepCounts`, by which a clean run is not stuck before its last time step and has only so
many steps to make: what `CleanStepsEnd` needs besides fairness. The invariant has a part about the
queue alone (`QueueInv`), from which the first four follow; one about how far the sweep is ahead of the queue (`SweepInv`); and one
that says of each slot of the grids whether it has its old or its new value, from how many cells
each thread has finished (`GridInv`). Two directions never write the same slot because
opposite directions have opposite offsets and an obstacle's belong to main.

`DswpPassesProofs`, for every set of passes and requirements, every command line, any
number of functions and any addresses: `ResultsAreThere`, `NothingIsLeft`,
`AskersAreToldRight`, and
`RunsUnderThePassManager`, by which DswpPasses implements PassManager and inherits its invariant.
That invariant says that each pass is scheduled once and behind what it requires
(`Ordered`), which while scheduling needs that the passes waiting require each other
(`Waiting`); that no use of a pass comes after the place of its last user
(`LastUsers`); and that a pass holds this function's results exactly from its own run to
that place (`HoldsNeeded`). `RequiredAreCurrent` follows because the pass about to run
is a use, so the place is not behind us. `MemInv` ties what the passes own to `holds`.
For the askers, `AskInv` says that only DecoupleLoops uses the loops, so they are there as long as
its first asker is to come (`LoopsLast`, `LoopsAreThere`); that two components or loops of a
function have two addresses, used again or not (`AddressesTell`); and that what DecoupleLoops keeps
is the split of this function through these addresses (`MapsPoint`). It assumes of the code
what the other modules establish: components are disjoint and not empty, iter is not work
(`CodeAssumption`); and that no pass but DecoupleLoops requires LoopInfo
(`OwnersAssumption`, DecoupleLoops.h:36-40).

Assumptions: those named `...Assumption` in the modules, which TLC evaluates in
every run (N a natural number, f a function on Value, 0 and the numbers below N in Value: 0 is what an
element that was never assigned holds; graphs, functions and lattices finite, dependants are
nodes; lines and locations as LocationsAssumption in Printers has them; what a command line names
and a pass requires are passes, each function comes once).

Each invariant and each property of steps that a passing run checks has its theorem. Only
model-checked are

- the properties under fairness, which TLAPS does not cover: `Returns` of the pipeline, of
  topsort (in `SortsWhatIsAcyclic`) and of findSCC, and `CleanStepsEnd`. Of the pipeline and
  the packet queue the two theorems above are the part without fairness;
- that `Waits`, `WorkerWaits`, `MainWaits` and `PrimeMainWaits` are exactly `~ENABLED`: ENABLED is
  beyond TLAPS too;
- the three runs that expect a violation, `RightResult` among them: its sum is by recursion, and
  what a recursive definition computes needs induction over data (`Implements` says that the
  pipeline's sum is the sequential one's).

A remark on tlapm 1.4.5. Where `Len` or `<<>>` occurs in an obligation, its translation for the SMT
solver adds an axiom that holds of sequences only, that a domain of 1..n and a length of n are the
same, for every value. A function with another domain then has a length too, and one with 0 in its
domain makes the obligation's hypotheses contradict each other. All eight modules were therefore also
checked with the axiom weakened to the direction that holds (a domain of 1..n gives a length of n).
The proofs are written so that they pass either way; this is how the assumption that 0 is in
PcPipeline's Value came to be stated.

## 6. What is not modelled

- Blocks from which no exit is reached: the tree LLVM builds for them is not
  specified in this code.
- `pthread_create` failing, and allocation failing.
- Overflow of `long` sums, of the square `primes[i] * primes[i]`: for the program's N
  the numbers stay below 2^32 (the 200000th prime is below 2^22 and the loop leaves at
  the first square above the candidate).
- A pass that is named on the command line although it is in the schedule already (LLVM
  adds a second instance), several pass managers, and passes that invalidate others: none
  of this repository's does.
- The text of labels, columns and file names in DOT files and reports; a graph file that
  cannot be opened, which the printers report and pass over; `File` being null in
  DecoupleSourceSplitPrinter when there is no debug information (undefined behaviour).
- LBM's arithmetic, its input and output files, and the other grid layouts of SPEC.
- `runtime/`, one placeholder function; the unit tests; the sample programs and the other
  SPEC benchmarks, which are inputs for the passes; build and test scripts.
- `main` of the programs beyond the thread functions and lbm's time loop.

## 7. Plan

Done: 1. SequentialSum, PcPipeline, PcPipelineProofs. 2. PacketQueue, NthPrime,
NthPrimeDswp. 3. DepGraph, DepGraphProofs, TopSort, FindSCC, Kosaraju, GraphUtilsProofs,
ControlFlow, CDG, DecoupleLoops. 4. LbmSteps, LbmDswp. 5. PassManager, DswpPasses,
DswpPassesProofs. 6. Printers, SourceReport. 7. LbmDswpProofs. 8. DepGraphProofs' theory of
paths, DecoupleLoopsProofs, `AskersAreToldRight`. 9. CDGProofs. 10. The printers' reports.
11. NthPrimeDswpProofs. 12. The absence of deadlock and the bounds on steps of the threaded
programs.

What is left needs other tools: liveness from fairness, and the sum of `RightResult` by
induction over data.
