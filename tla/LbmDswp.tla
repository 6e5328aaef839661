------------------------------- MODULE LbmDswp --------------------------------
(***************************************************************************)
(* 470.lbm decoupled by hand (lbm-dswp.cpp, main-dswp.cpp): in each time   *)
(* step main sweeps over the cells, writes the slots of obstacles, and of  *)
(* fluid cells those in the directions MainDirs, and hands the cell and    *)
(* its moments to a worker, which writes the others.  The queue is         *)
(* PacketQueue's; the packet's i is the datum, the rest of the packet, its *)
(* moments, is kept by cell beside it.  A cell's writes are one step: no   *)
(* two cells write the same slot (OneWriterPerSlot).                       *)
(***************************************************************************)
EXTENDS PacketQueue, FiniteSets

CONSTANTS Cells, Obstacle, Dirs, Offset, Opposite, Moments(_, _), Collide(_, _, _),
          InOutFlow(_, _), Initial, Steps,
          MainDirs   \* the directions main computes: C, N, S and E

VARIABLES srcGrid, dstGrid, t,
          cell,      \* the next cell of the sweep
          moments,   \* by cell: the moments in its packet
          before,    \* history: dstGrid as the step found it
          writers    \* history: who wrote a slot in this step

gridVars == <<srcGrid, dstGrid, t, cell, moments, before, writers>>
vars == <<pqvars, srcGrid, dstGrid, t, cell, moments, before, writers>>

Sequential == INSTANCE LbmSteps WITH dstGrid <- before

\* The cells are 0, 1, ..., and the packets are about the fluid ones in order.
NCells == Cardinality(Cells)
ASSUME DirsAssumption == /\ Offset \in [Dirs -> Int] /\ Opposite \in [Dirs -> Dirs]
                         /\ \A d \in Dirs : Opposite[Opposite[d]] = d
ASSUME StepsAssumption == Steps \in Nat \ {0} /\ Initial = [s \in Sequential!Slots |-> Initial[s]]
ASSUME SweepAssumption ==
    /\ Obstacle \subseteq Cells
    /\ IsFiniteSet(Cells) /\ Cells = 0 .. (NCells - 1) /\ MainDirs \subseteq Dirs
    /\ {Items[i] : i \in 1 .. N} = Cells \ Obstacle
    /\ \A i, j \in 1 .. N : i < j => Items[i] < Items[j]
    /\ Default \notin Cells   \* T() is told apart from the packets of cells

\* T(): cell 0 with all moments zero.
CellOf(d) == IF d = Default THEN 0 ELSE d
MomentsOf(d) == IF d = Default THEN 0 ELSE moments[d]

Wrote(thread, c, D) ==
    [s \in DOMAIN writers |->
        IF s[2] \in D /\ s[1] = c + Offset[s[2]] THEN writers[s] \cup {thread} ELSE writers[s]]

Init == /\ PQInit
        /\ srcGrid = Sequential!Flowed(Initial, 0) /\ dstGrid = Initial /\ before = Initial
        /\ t = 0 /\ cell = 0 /\ moments = [c \in Cells |-> 0]
        /\ writers = [s \in DOMAIN Initial |-> {}]

\* The cells swept that are fluid; what they handed on is produced one by one.
Due == Cardinality({c \in Cells \ Obstacle : c < cell})

\* Mutant: an obstacle sends back in main's directions only.
SweepSplitsObstacles ==
    /\ main = "loop" /\ cell < NCells /\ next = Due
    /\ moments' = [moments EXCEPT ![cell] = Moments(cell, Sequential!Own(srcGrid, cell))]
    /\ dstGrid' = Sequential!Written(srcGrid, dstGrid, cell, MainDirs, moments'[cell])
    /\ writers' = Wrote("main", cell, MainDirs)
    /\ cell' = cell + 1
    /\ UNCHANGED <<pqvars, srcGrid, t, before>>

\* The body of the sweep but for its last line, produce().
SweepCell ==
    /\ main = "loop" /\ cell < NCells /\ next = Due
    /\ LET D == IF cell \in Obstacle THEN Dirs ELSE MainDirs
           m == IF cell \in Obstacle THEN moments[cell] ELSE Moments(cell, Sequential!Own(srcGrid, cell))
       IN  /\ moments' = [moments EXCEPT ![cell] = m]
           /\ dstGrid' = Sequential!Written(srcGrid, dstGrid, cell, D, m)
           /\ writers' = Wrote("main", cell, D)
    /\ cell' = cell + 1
    /\ UNCHANGED <<pqvars, srcGrid, t, before>>

\* produce() for a cell just swept, produce_end() after the last cell.
Produce == /\ ProduceLock /\ next < Due
           /\ UNCHANGED gridVars
ProduceEnd == /\ EndLock /\ cell = NCells
              /\ UNCHANGED gridVars

\* Mutant: the worker's directions overlap with main's.
WorkOnAll == /\ Work
             /\ dstGrid' = Sequential!Written(srcGrid, dstGrid, CellOf(datum), Dirs, MomentsOf(datum))
             /\ writers' = Wrote("worker", CellOf(datum), Dirs)
             /\ UNCHANGED <<srcGrid, t, cell, moments, before>>

\* The worker does not ask whether its cell is an obstacle.
WorkOnCell ==
    /\ Work
    /\ LET c == CellOf(datum)
           D == Dirs \ MainDirs
       IN  /\ dstGrid' = [s \in DOMAIN dstGrid |->
                            IF s[2] \in D /\ s[1] = c + Offset[s[2]]
                              THEN Collide(s[2], srcGrid[<<c, s[2]>>], MomentsOf(datum))
                              ELSE dstGrid[s]]
           /\ writers' = Wrote("worker", c, D)
    /\ UNCHANGED <<srcGrid, t, cell, moments, before>>

\* After the join: LBM_swapGrids(), and, unless it was the last time step, what
\* flows in and out and the next call with a queue and a worker of its own.
SwapGrids ==
    /\ main = "done" /\ t < Steps
    /\ srcGrid' = Sequential!Flowed(dstGrid, t + 1) /\ dstGrid' = srcGrid /\ before' = srcGrid
    /\ t' = t + 1
    /\ cell' = 0 /\ writers' = [s \in DOMAIN writers |-> {}]
    /\ IF t + 1 < Steps
         THEN /\ main' = "spawn" /\ worker' = "unborn"
              /\ next' = 0 /\ sent' = <<>> /\ popped' = 0 /\ mutex' = "free"
              /\ datum' = Default /\ work' = <<>>
         ELSE UNCHANGED <<main, worker, next, queueVars, mutex, datum, work>>
    /\ UNCHANGED <<flags, moments>>

MainActs == \/ (Spawn \/ Push \/ Notify \/ ProduceUnlock \/ PushEnd \/ EndUnlock \/ Join)
               /\ UNCHANGED gridVars
            \/ SweepCell \/ Produce \/ ProduceEnd \/ SwapGrids

WorkerActs == \/ QueueStep /\ UNCHANGED gridVars
              \/ WorkOnCell

Next == \/ MainActs \/ WorkerActs
        \/ SpuriousWake /\ UNCHANGED gridVars

Spec == Init /\ [][Next]_vars

\* The OS runs both threads; nobody owes a spurious wakeup.
FairSpec == Spec /\ WF_vars(MainActs) /\ WF_vars(WorkerActs)

-------------------------------------------------------------------------------
(* Properties.                                                              *)

\* In a time step no slot of dstGrid is written by both threads, though each
\* cell writes slots of its neighbours and the threads are at different cells
\* (lbm-dswp.cpp:245-260, 277-345): they need no lock.
OneWriterPerSlot == ~starved => \A s \in DOMAIN writers : Cardinality(writers[s]) <= 1

\* The decoupled program implements the sequential one, time step for time step,
\* as long as the worker does not find the queue empty: at the swap every slot
\* holds what lbm.c computes, and no worker is left to write the wrong grid
\* (main-dswp.cpp:44-45).
CleanStepsAreSequential == [][ starved \/ [Sequential!TimeStep]_<<srcGrid, before, t>> ]_vars

\* All time steps end, if the worker never finds the queue empty.
CleanStepsEnd == []~starved => <>(t = Steps)

==============================================================================
