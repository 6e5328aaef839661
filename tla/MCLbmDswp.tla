------------------------------ MODULE MCLbmDswp -------------------------------
(* Four cells in rows of two, cell 1 an obstacle and cell 2 accelerated, five *)
(* directions and two time steps; what flows into cell 0 follows cell 2's     *)
(* values.  Values are numbers modulo a prime, mixed so that no slot gets the *)
(* value of another one.                                                      *)
EXTENDS LbmDswp

MCCells == 0 .. 3
MCObstacle == {1}
MCDirs == {"C", "E", "W", "T", "B"}
MCOffset == [C |-> 0, E |-> 1, W |-> -1, T |-> 2, B |-> -2]
MCOpposite == [C |-> "C", E |-> "W", W |-> "E", T |-> "B", B |-> "T"]
Weight == [C |-> 1, E |-> 2, W |-> 3, T |-> 5, B |-> 7]
MCMoments(c, own) ==
    IF c = 2 THEN 50 ELSE (own["C"] + 3 * own["E"] + 5 * own["W"] + 7 * own["T"] + 11 * own["B"]) % 101
MCCollide(d, value, m) == (2 * value + Weight[d] * m + 1) % 101
MCInOutFlow(grid, s) == IF s[1] = 0 THEN (grid[<<2, s[2]>>] + 5) % 101 ELSE grid[s]
MCInitial == [s \in {<<c + MCOffset[d], d>> : c \in MCCells, d \in MCDirs} \cup (MCCells \X MCDirs) |->
                (13 * (s[1] + 2) + 17 * Weight[s[2]]) % 101]

MCItems == <<0, 2, 3>>
T0 == -1
MCDatum == {0, 2, 3, T0}
MCGarbage == {0, T0}
==============================================================================
