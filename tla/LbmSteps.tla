------------------------------- MODULE LbmSteps -------------------------------
(***************************************************************************)
(* The sequential 470.lbm (lbm.c, main.c): in a time step, after what      *)
(* flows in and out of srcGrid, each cell of it hands a new value to its   *)
(* neighbour in every direction, into dstGrid; then the grids change       *)
(* places, and what flows in and out before the next step is here part of  *)
(* the one before.  Cells are numbered along the one-dimensional array,    *)
(* which has a margin before and behind them; a slot is a position and a   *)
(* direction.  A grid's flags do not change.                               *)
(***************************************************************************)
EXTENDS Integers

CONSTANTS Cells, Obstacle,        \* the cells of a sweep, and which are obstacles
          Dirs, Offset, Opposite, \* the directions, how far each leads, and its reverse
          Moments(_, _),          \* rho, ux, uy, uz and u2 of a cell, from its values
          Collide(_, _, _),       \* direction, the cell's value in it, moments -> value
          InOutFlow(_, _),        \* LBM_handleInOutFlow: grid, slot -> value; the slot's own
                                  \* in a lid-driven cavity
          Initial,                \* the two grids at first
          Steps                   \* nTimeSteps

Slots == {<<c + Offset[d], d>> : c \in Cells, d \in Dirs} \cup (Cells \X Dirs)

VARIABLES srcGrid, dstGrid,
          t   \* time steps done

\* SRC_C, SRC_N, ... of a cell.
Own(src, c) == [d \in Dirs |-> src[<<c, d>>]]

\* What a fluid cell hands on, and what an obstacle sends back.
Streamed(src, c, d, moments) ==
    IF c \in Obstacle THEN src[<<c, Opposite[d]>>] ELSE Collide(d, src[<<c, d>>], moments)

\* dst after c has written its slots (DST_C, DST_N, ...) in the directions D.
Written(src, dst, c, D, moments) ==
    [s \in Slots |-> IF s[2] \in D /\ s[1] = c + Offset[s[2]]
                       THEN Streamed(src, c, s[2], moments) ELSE dst[s]]

StreamCollide(src, dst) ==
    [s \in Slots |->
        LET c == s[1] - Offset[s[2]]
        IN  IF c \in Cells THEN Streamed(src, c, s[2], Moments(c, Own(src, c))) ELSE dst[s]]

\* srcGrid as n steps leave it to the next.
Flowed(grid, n) == IF n < Steps THEN [s \in Slots |-> InOutFlow(grid, s)] ELSE grid

Init == srcGrid = Flowed(Initial, 0) /\ dstGrid = Initial /\ t = 0

TimeStep == /\ t < Steps
            /\ srcGrid' = Flowed(StreamCollide(srcGrid, dstGrid), t + 1) /\ dstGrid' = srcGrid
            /\ t' = t + 1

Spec == Init /\ [][TimeStep]_<<srcGrid, dstGrid, t>>

==============================================================================
