---------------------------- MODULE LbmDswpProofs -----------------------------
(***************************************************************************)
(* The decoupled 470.lbm is right for every lattice, every collision and   *)
(* every interleaving, as long as the worker does not find the queue       *)
(* empty; and the worker's work is in order even then, as long as wait()   *)
(* does not return without a notify.                                       *)
(*                                                                         *)
(* The argument is one inductive invariant in three parts: the queue       *)
(* (QueueInv, about PacketQueue's variables alone and proved to be         *)
(* preserved in NthPrimeDswpProofs, whose first section serves both        *)
(* programs), the sweep (SweepInv, how far it is ahead of the queue) and   *)
(* the grids (GridInv, what is in every slot).                             *)
(*                                                                         *)
(* The last section shows from the same invariant that such a run is never *)
(* stuck before its last time step and has only so many steps to make.     *)
(***************************************************************************)
EXTENDS LbmDswp, NthPrimeDswpProofs

-------------------------------------------------------------------------------
(* The sweep and the grids.                                                *)

Fluid == Cells \ Obstacle
Slots == Sequential!Slots

\* The cell a slot is written from, and what the sequential program writes.
Source(s) == s[1] - Offset[s[2]]
Value(s) == Sequential!Streamed(srcGrid, Source(s), s[2],
                                Moments(Source(s), Sequential!Own(srcGrid, Source(s))))

GridTypeOK ==
    /\ t \in 0 .. Steps /\ cell \in 0 .. NCells
    /\ srcGrid = [s \in Slots |-> srcGrid[s]] /\ dstGrid = [s \in Slots |-> dstGrid[s]]
    /\ before = [s \in Slots |-> before[s]] /\ moments = [c \in Cells |-> moments[c]]
    /\ writers = [s \in Slots |-> writers[s]]

\* After the last time step nothing is left to do.
AllDone == t = Steps => main = "done" /\ \A s \in Slots : writers[s] = {}

\* The sweep is ahead of the queue; the cells swept are those of the items up to
\* Due.
SweepInv == t < Steps =>
              /\ Due \in Nat /\ Pushed <= Due
              /\ main = "push" => next < Due
              /\ \A i \in 1 .. N : Items[i] < cell <=> i <= Due
              /\ main \in {"pushEnd", "unlockEnd", "join", "done"} => cell = NCells

\* The moments that go with the packets are those of the cells.
MomentsAre == \A c \in Fluid : c < cell => moments[c] = Moments(c, Sequential!Own(srcGrid, c))

\* Who has written a slot, and what, depends on the cell it is written from: main
\* writes from obstacles and in its own directions, the worker the rest.
Untouched(s) == Source(s) \notin Cells => writers[s] = {} /\ dstGrid[s] = before[s]
MainWrites(s) == Source(s) \in Cells /\ (Source(s) \in Obstacle \/ s[2] \in MainDirs) =>
                   /\ writers[s] \subseteq {"main"}
                   /\ dstGrid[s] = IF Source(s) < cell THEN Value(s) ELSE before[s]
WorkerWrites(s) == \A i \in 1 .. N : Source(s) = Items[i] /\ s[2] \notin MainDirs =>
                     /\ writers[s] \subseteq {"worker"}
                     /\ dstGrid[s] = IF i <= Len(work) THEN Value(s) ELSE before[s]

GridInv == t < Steps /\ ~starved =>
             /\ MomentsAre
             /\ \A s \in Slots : Untouched(s) /\ MainWrites(s) /\ WorkerWrites(s)

IInv == QueueInv /\ GridTypeOK /\ AllDone /\ SweepInv /\ GridInv

\* The cells, the fluid ones among them, and the items.
LEMMA CellsAre ==
  /\ NCells \in Nat /\ Cells = 0 .. NCells - 1 /\ IsFiniteSet(Cells)
  /\ Fluid \subseteq Cells /\ MainDirs \subseteq Dirs /\ Default \notin Cells
  /\ \A i \in 1 .. N : Items[i] \in Fluid /\ Items[i] \in Nat
  /\ \A c \in Fluid : \E i \in 1 .. N : Items[i] = c
  /\ \A i, j \in 1 .. N : i < j => Items[i] < Items[j]
  /\ \A i, j \in 1 .. N : Items[i] = Items[j] => i = j
<1>1. NCells \in Nat
  BY SweepAssumption, FS_CardinalityType DEF NCells
<1>2. {Items[i] : i \in 1 .. N} = Fluid
  BY SweepAssumption DEF Fluid
<1>3. \A i \in 1 .. N : Items[i] \in Fluid /\ Items[i] \in Nat
  <2>1. Fluid \subseteq Nat
    BY <1>1, SweepAssumption DEF Fluid
  <2> QED
    BY <1>2, <2>1
<1>4. \A c \in Fluid : \E i \in 1 .. N : Items[i] = c
  BY <1>2
<1>5. \A i, j \in 1 .. N : i < j => Items[i] < Items[j]
  BY SweepAssumption
<1>6. Cells = 0 .. NCells - 1 /\ Fluid \subseteq Cells
  BY SweepAssumption DEF Fluid
<1>7. \A i, j \in 1 .. N : Items[i] = Items[j] => i = j
  <2> SUFFICES ASSUME NEW i \in 1 .. N, NEW j \in 1 .. N, Items[i] = Items[j], i # j
               PROVE  FALSE
    OBVIOUS
  <2>1. Items[i] \in Int /\ Items[j] \in Int /\ i \in Int /\ j \in Int
    BY <1>3, ItemsAre
  <2>2. i < j \/ j < i
    BY <2>1
  <2> QED
    BY <1>5, <2>1, <2>2
<1> QED
  BY <1>1, <1>3, <1>4, <1>5, <1>6, <1>7, SweepAssumption

\* A slot is a position and a direction, and is written from one cell only.
LEMMA SlotsAre ==
  /\ \A s \in Slots : /\ s[2] \in Dirs /\ s[1] \in Int /\ Offset[s[2]] \in Int
                      /\ Source(s) \in Int
                      /\ \A c \in Int : s[1] = c + Offset[s[2]] <=> Source(s) = c
  /\ DOMAIN Initial = Slots
<1>1. ASSUME NEW s \in Slots
      PROVE  s[2] \in Dirs /\ s[1] \in Int /\ Offset[s[2]] \in Int
  <2>1. CASE \E c \in Cells, d \in Dirs : s = <<c + Offset[d], d>>
    BY <2>1, CellsAre, DirsAssumption
  <2>2. CASE s \in Cells \X Dirs
    BY <2>2, CellsAre, DirsAssumption
  <2> QED
    BY <1>1, <2>1, <2>2 DEF Slots, Sequential!Slots
<1>2. ASSUME NEW s \in Slots
      PROVE  Source(s) \in Int /\ \A c \in Int : s[1] = c + Offset[s[2]] <=> Source(s) = c
  BY <1>1 DEF Source
<1>3. DOMAIN Initial = Slots
  BY StepsAssumption DEF Slots
<1> QED
  BY <1>1, <1>2, <1>3

\* Due, cell by cell.
Below(n) == {c \in Cells \ Obstacle : c < n}

LEMMA DueGrows ==
  /\ Cardinality(Below(0)) = 0
  /\ \A n \in 0 .. NCells : Cardinality(Below(n)) \in Nat
  /\ \A n \in Cells : Cardinality(Below(n + 1)) =
                        Cardinality(Below(n)) + (IF n \in Fluid THEN 1 ELSE 0)
<1>1. \A n \in 0 .. NCells : IsFiniteSet(Below(n)) /\ Cardinality(Below(n)) \in Nat
  BY CellsAre, FS_Subset, FS_CardinalityType DEF Below
<1>2. Cardinality(Below(0)) = 0
  <2>1. Below(0) = {}
    BY CellsAre DEF Below
  <2> QED
    BY <2>1, FS_EmptySet
<1>3. ASSUME NEW n \in Cells
      PROVE  Cardinality(Below(n + 1)) = Cardinality(Below(n)) + (IF n \in Fluid THEN 1 ELSE 0)
  <2>1. CASE n \in Fluid
    <3>1. Below(n + 1) = Below(n) \cup {n} /\ n \notin Below(n)
      BY <2>1, CellsAre DEF Below, Fluid
    <3> QED
      BY <1>1, <2>1, <3>1, FS_AddElement, CellsAre
  <2>2. CASE n \notin Fluid
    <3>1. Below(n + 1) = Below(n)
      BY <2>2, CellsAre DEF Below, Fluid
    <3> QED
      BY <1>1, <2>2, <3>1, CellsAre
  <2> QED
    BY <2>1, <2>2
<1> QED
  BY <1>1, <1>2, <1>3

LEMMA Initially == Init => IInv
<1> SUFFICES ASSUME Init PROVE IInv
  OBVIOUS
<1>1. QueueInv
  BY QueueFresh DEF Init, PQInit
<1>2. GridTypeOK
  <2>1. Initial = [s \in Slots |-> Initial[s]]
    BY StepsAssumption DEF Slots
  <2>2. srcGrid = [s \in Slots |-> srcGrid[s]]
    BY <2>1 DEF Init, Slots, Sequential!Flowed
  <2>3. dstGrid = [s \in Slots |-> dstGrid[s]] /\ before = [s \in Slots |-> before[s]]
    BY <2>1 DEF Init
  <2>4. writers = [s \in Slots |-> writers[s]] /\ moments = [c \in Cells |-> moments[c]]
    BY SlotsAre DEF Init
  <2>5. t \in 0 .. Steps /\ cell \in 0 .. NCells
    BY CellsAre, StepsAssumption DEF Init
  <2> QED
    BY <2>2, <2>3, <2>4, <2>5 DEF GridTypeOK
<1>3. AllDone
  BY StepsAssumption DEF Init, AllDone
<1>4. SweepInv
  <2>1. Due = 0
    BY DueGrows DEF Init, Due, Below
  <2> QED
    BY <2>1, CellsAre DEF Init, PQInit, SweepInv, Pushed
<1>5. GridInv
  <2>1. MomentsAre
    BY CellsAre DEF Init, MomentsAre
  <2>2. ASSUME NEW s \in Slots PROVE Untouched(s) /\ MainWrites(s) /\ WorkerWrites(s)
    BY CellsAre, SlotsAre DEF Init, PQInit, Untouched, MainWrites, WorkerWrites
  <2> QED
    BY <2>1, <2>2 DEF GridInv
<1> QED
  BY <1>1, <1>2, <1>3, <1>4, <1>5 DEF IInv

\* A step of the queue alone, if it leaves the queue no further than the sweep.
LEMMA GridsStay ==
  ASSUME IInv, QueueInv', UNCHANGED gridVars, work' = work, ~starved' => ~starved,
         t = Steps => main' = "done",
         t < Steps => /\ Pushed' <= Due
                      /\ main' = "push" => next' < Due
                      /\ main' \in {"pushEnd", "unlockEnd", "join", "done"} => cell = NCells
  PROVE  IInv'
<1> USE DEF IInv
<1>1. /\ srcGrid' = srcGrid /\ dstGrid' = dstGrid /\ t' = t /\ cell' = cell
      /\ moments' = moments /\ before' = before /\ writers' = writers
  BY DEF gridVars
<1>2. GridTypeOK' /\ AllDone'
  BY <1>1 DEF GridTypeOK, AllDone
<1>3. SweepInv'
  <2>1. Due' = Due
    BY <1>1 DEF Due
  <2> QED
    BY <1>1, <2>1 DEF SweepInv
<1>4. GridInv'
  BY <1>1 DEF GridInv, MomentsAre, Untouched, MainWrites, WorkerWrites, Value
<1> QED
  BY <1>2, <1>3, <1>4

\* Main's steps in produce() and produce_end(), and the join.
LEMMA MainQueueStep ==
  ASSUME IInv, MainStep, UNCHANGED gridVars,
         ProduceLock => next < Due, EndLock => cell = NCells
  PROVE  IInv'
<1>1. QueueInv'
  BY QueueMainStep DEF IInv
<1>2. /\ work' = work /\ starved' = starved /\ main # "done"
  BY DEF MainStep, Spawn, ProduceLock, Push, Notify, ProduceUnlock, EndLock, PushEnd, EndUnlock,
         Join, flags
<1>3. t # Steps
  BY <1>2 DEF IInv, AllDone
<1>4. ASSUME t < Steps
      PROVE  /\ Pushed' <= Due
             /\ main' = "push" => next' < Due
             /\ main' \in {"pushEnd", "unlockEnd", "join", "done"} => cell = NCells
  <2>1. next \in Nat /\ Due \in Nat /\ Pushed <= Due
    BY <1>4, ItemsAre DEF IInv, QueueInv, QueueTypeOK, SweepInv
  <2> QED
    BY <1>4, <2>1 DEF MainStep, Spawn, ProduceLock, Push, Notify, ProduceUnlock, EndLock,
       PushEnd, EndUnlock, Join, IInv, SweepInv, Pushed
<1> QED
  BY <1>1, <1>2, <1>3, <1>4, GridsStay

\* The worker's steps in end_reached() and consume().
LEMMA WorkerQueueStep ==
  ASSUME IInv, QueueStep \/ SpuriousWake, UNCHANGED gridVars
  PROVE  IInv'
<1>1. QueueInv'
  BY QueueWorkerStep DEF IInv
<1>2. work' = work /\ main' = main /\ next' = next
  BY DEF QueueStep, TestLock, Peek, TestUnlock, ConsumeLock, Check, Reacquire, Take,
         ConsumeUnlock, SpuriousWake, flags
<1>3. Pushed' = Pushed
  BY <1>2 DEF Pushed
<1>4. ~starved' => ~starved
  <2>1. starved' = starved \/ starved' = (starved \/ ~Written)
    BY ZenonT(30) DEF QueueStep, TestLock, Peek, TestUnlock, ConsumeLock, Check, Reacquire, Take,
       ConsumeUnlock, SpuriousWake, flags
  <2> QED
    BY <2>1, Zenon
<1> QED
  BY <1>1, <1>2, <1>3, <1>4, GridsStay DEF IInv, AllDone, SweepInv

\* The sweep writes the slots of one cell: an obstacle's, or main's share of a
\* fluid cell's.
LEMMA SweepCellStep ==
  ASSUME IInv, SweepCell
  PROVE  IInv'
<1> DEFINE D == IF cell \in Obstacle THEN Dirs ELSE MainDirs
           m == IF cell \in Obstacle THEN moments[cell]
                                     ELSE Moments(cell, Sequential!Own(srcGrid, cell))
<1>1. /\ main = "loop" /\ cell < NCells /\ next = Due
      /\ moments' = [moments EXCEPT ![cell] = m]
      /\ dstGrid' = Sequential!Written(srcGrid, dstGrid, cell, D, m)
      /\ writers' = Wrote("main", cell, D)
      /\ cell' = cell + 1
      /\ srcGrid' = srcGrid /\ t' = t /\ before' = before
  BY DEF SweepCell
<1>2. QueueInv' /\ work' = work /\ starved' = starved /\ main' = main /\ next' = next
  BY DEF SweepCell, pqvars, IInv, QueueInv, QueueTypeOK, MainPlace, Exclusion, SentIsItems, Sleep,
         WorkIsCounted, WorkIsNth, OnlyNotified, NeverStarved, Pushed, Ended, HasDatum, WillTake,
         FrontPacket, Nth
<1>3. t # Steps /\ cell \in Cells /\ cell \in Nat /\ cell + 1 \in 0 .. NCells
  BY <1>1, CellsAre DEF IInv, AllDone, GridTypeOK
<1>4. GridTypeOK'
  <2>1. dstGrid' = [s \in Slots |-> dstGrid'[s]]
    BY <1>1 DEF Sequential!Written, Slots
  <2>2. writers' = [s \in Slots |-> writers'[s]] /\ moments' = [c \in Cells |-> moments'[c]]
    BY <1>1 DEF Wrote, IInv, GridTypeOK
  <2> QED
    BY <1>1, <1>3, <2>1, <2>2 DEF IInv, GridTypeOK
<1>5. AllDone'
  BY <1>1, <1>3 DEF AllDone
<1>6. SweepInv'
  <2> SUFFICES ASSUME t < Steps PROVE SweepInv'
    BY <1>1 DEF SweepInv
  <2>1. Due = Cardinality(Below(cell)) /\ Due' = Cardinality(Below(cell + 1))
    BY <1>1 DEF Due, Below
  <2>2. Due' = Due + (IF cell \in Fluid THEN 1 ELSE 0) /\ Due \in Nat
    BY <1>3, <2>1, DueGrows DEF IInv, GridTypeOK
  <2>3. \A i \in 1 .. N : Items[i] < cell <=> i <= Due
    BY DEF IInv, SweepInv
  <2>4. ASSUME NEW i \in 1 .. N PROVE Items[i] < cell + 1 <=> i <= Due'
    <3>1. i \in Nat /\ Items[i] \in Nat /\ Items[i] \in Fluid
      BY CellsAre, ItemsAre
    <3>2. CASE cell \notin Fluid
      BY <1>3, <2>2, <2>3, <3>1, <3>2
    <3>3. CASE cell \in Fluid
      <4>1. PICK k \in 1 .. N : Items[k] = cell
        BY <3>3, CellsAre
      <4>2. k \in Nat /\ ~(k <= Due) /\ Due + 1 \in 1 .. N
        BY <1>3, <2>2, <2>3, <4>1, ItemsAre
      <4>3. ~(Items[Due + 1] < cell) /\ Items[Due + 1] \in Nat
        BY <2>2, <2>3, <4>2, CellsAre
      <4>4. k = Due + 1
        BY <1>3, <2>2, <4>1, <4>2, <4>3, CellsAre
      <4>5. CASE i <= Due + 1
        BY <1>3, <2>2, <2>3, <3>1, <3>3, <4>1, <4>4, <4>5
      <4>6. CASE ~(i <= Due + 1)
        BY <1>3, <2>2, <3>1, <3>3, <4>1, <4>4, <4>6, CellsAre
      <4> QED
        BY <4>5, <4>6
    <3> QED
      BY <3>2, <3>3
  <2>5. Pushed' <= Due' /\ main' # "push" /\ Due' \in Nat
    BY <1>1, <1>2, <2>2 DEF Pushed
  <2> QED
    BY <1>1, <1>2, <2>4, <2>5 DEF SweepInv
<1>7. GridInv'
  <2> SUFFICES ASSUME t < Steps, ~starved PROVE GridInv'
    BY <1>1, <1>2 DEF GridInv
  <2>1. MomentsAre'
    <3>1. MomentsAre
      BY DEF IInv, GridInv
    <3>2. ASSUME NEW c \in Fluid, c < cell + 1
          PROVE  moments'[c] = Moments(c, Sequential!Own(srcGrid, c))
      <4>1. CASE c = cell
        BY <1>1, <1>3, <4>1 DEF IInv, GridTypeOK, Fluid
      <4>2. CASE c # cell
        <5>1. c < cell /\ c \in Cells
          BY <1>3, <3>2, <4>2, CellsAre
        <5> QED
          BY <1>1, <3>1, <4>2, <5>1 DEF IInv, GridTypeOK, MomentsAre
      <4> QED
        BY <4>1, <4>2
    <3> QED
      BY <1>1, <3>2 DEF MomentsAre
  <2>2. ASSUME NEW s \in Slots
        PROVE  Untouched(s)' /\ MainWrites(s)' /\ WorkerWrites(s)'
    <3>1. Untouched(s) /\ MainWrites(s) /\ WorkerWrites(s)
      BY DEF IInv, GridInv
    <3>2. /\ Source(s) \in Int /\ s[2] \in Dirs
          /\ s[1] = cell + Offset[s[2]] <=> Source(s) = cell
      BY <1>3, SlotsAre
    <3>3. Value(s)' = Value(s)
      BY <1>1 DEF Value
    <3>4. CASE Source(s) = cell /\ s[2] \in D
      <4>1. dstGrid'[s] = Sequential!Streamed(srcGrid, cell, s[2], m) /\ writers'[s] = writers[s] \cup {"main"}
        BY <1>1, <3>2, <3>4 DEF Sequential!Written, Wrote, Slots, IInv, GridTypeOK
      <4>2. dstGrid'[s] = Value(s)
        BY <3>4, <4>1 DEF Value, Sequential!Streamed
      <4>3. Source(s) \in Obstacle \/ s[2] \in MainDirs
        BY <3>4
      <4> QED
        BY <1>1, <1>2, <1>3, <3>1, <3>3, <3>4, <4>1, <4>2, <4>3, CellsAre
           DEF Untouched, MainWrites, WorkerWrites, Fluid
    <3>5. CASE ~(Source(s) = cell /\ s[2] \in D)
      <4>1. dstGrid'[s] = dstGrid[s] /\ writers'[s] = writers[s]
        BY <1>1, <3>2, <3>5 DEF Sequential!Written, Wrote, Slots, IInv, GridTypeOK
      <4>2. Source(s) \in Obstacle \/ s[2] \in MainDirs => Source(s) # cell
        BY <3>2, <3>5
      <4>3. Source(s) # cell => (Source(s) < cell + 1 <=> Source(s) < cell)
        BY <1>3, <3>2
      <4> QED
        BY <1>1, <1>2, <3>1, <3>3, <4>1, <4>2, <4>3 DEF Untouched, MainWrites, WorkerWrites
    <3> QED
      BY <3>4, <3>5
  <2> QED
    BY <2>1, <2>2 DEF GridInv
<1> QED
  BY <1>2, <1>4, <1>5, <1>6, <1>7 DEF IInv

\* The worker writes its share of the next item's slots; if it ever found the
\* queue empty, nothing is claimed of the grids.
LEMMA WorkOnCellStep ==
  ASSUME IInv, WorkOnCell
  PROVE  IInv'
<1> DEFINE c == CellOf(datum)
           D == Dirs \ MainDirs
<1>1. /\ Work
      /\ dstGrid' = [s \in DOMAIN dstGrid |->
                       IF s[2] \in D /\ s[1] = c + Offset[s[2]]
                         THEN Collide(s[2], srcGrid[<<c, s[2]>>], MomentsOf(datum))
                         ELSE dstGrid[s]]
      /\ writers' = Wrote("worker", c, D)
      /\ srcGrid' = srcGrid /\ t' = t /\ cell' = cell /\ moments' = moments /\ before' = before
  BY DEF WorkOnCell
<1>2. /\ main' = main /\ next' = next /\ popped' = popped /\ sent' = sent /\ starved' = starved
      /\ worker = "work" /\ work' = Append(work, datum)
  BY <1>1 DEF Work, queueVars, flags
<1>3. QueueInv'
  BY <1>1, QueueWorkerStep DEF IInv
<1>4. t # Steps
  BY <1>2 DEF IInv, AllDone, QueueInv, MainPlace
<1>5. GridTypeOK' /\ AllDone'
  <2>1. dstGrid' = [s \in Slots |-> dstGrid'[s]]
    BY <1>1 DEF IInv, GridTypeOK
  <2>2. writers' = [s \in Slots |-> writers'[s]]
    BY <1>1 DEF Wrote, IInv, GridTypeOK
  <2> QED
    BY <1>1, <1>4, <2>1, <2>2 DEF IInv, GridTypeOK, AllDone
<1>6. SweepInv'
  <2>1. Due' = Due /\ Pushed' = Pushed
    BY <1>1, <1>2 DEF Due, Pushed
  <2> QED
    BY <1>1, <1>2, <2>1 DEF IInv, SweepInv
<1>7. GridInv'
  <2> SUFFICES ASSUME t < Steps, ~starved PROVE GridInv'
    BY <1>1, <1>2 DEF GridInv
  <2>1. /\ popped \in 1 .. N /\ datum = Items[popped] /\ popped = Len(work) + 1
        /\ Len(work') = popped /\ Len(work) \in Nat
    <3>1. /\ popped = Len(work) + 1 /\ datum = Nth(popped) /\ popped <= N /\ popped <= Len(sent)
          /\ work \in Seq(Datum) /\ datum \in Datum
      BY <1>2 DEF IInv, QueueInv, QueueTypeOK, WorkIsCounted, WorkIsNth, NeverStarved, HasDatum
    <3> QED
      BY <1>2, <3>1, ItemsAre, AppendGives DEF Nth
  <2>2. popped <= Due
    <3>1. Len(sent) = (IF Ended THEN N + 1 ELSE Pushed) /\ (Ended => next = N)
      BY DEF IInv, QueueInv, SentIsItems, MainPlace, Ended
    <3>2. Pushed <= Due /\ Due \in Nat /\ popped <= Len(sent)
      BY DEF IInv, SweepInv, QueueInv, WorkIsNth
    <3>3. Ended => Pushed = N
      BY <3>1 DEF Ended, Pushed
    <3> QED
      BY <2>1, <3>1, <3>2, <3>3, ItemsAre
  <2>3. c = Items[popped] /\ c \in Fluid /\ c \in Nat /\ c < cell /\ MomentsOf(datum) = moments[c]
    <3>1. Items[popped] \in Fluid /\ Items[popped] \in Nat /\ Items[popped] # Default
      BY <2>1, CellsAre
    <3>2. Items[popped] < cell
      BY <2>1, <2>2 DEF IInv, SweepInv
    <3> QED
      BY <2>1, <3>1, <3>2 DEF CellOf, MomentsOf
  <2>4. MomentsOf(datum) = Moments(c, Sequential!Own(srcGrid, c))
    BY <2>3 DEF IInv, GridInv, MomentsAre
  <2>5. MomentsAre'
    BY <1>1 DEF IInv, GridInv, MomentsAre
  <2>6. ASSUME NEW s \in Slots
        PROVE  Untouched(s)' /\ MainWrites(s)' /\ WorkerWrites(s)'
    <3> HIDE DEF c
    <3>1. Untouched(s) /\ MainWrites(s) /\ WorkerWrites(s)
      BY DEF IInv, GridInv
    <3>2. /\ Source(s) \in Int /\ s[2] \in Dirs
          /\ s[1] = c + Offset[s[2]] <=> Source(s) = c
      BY <2>3, SlotsAre
    <3>3. Value(s)' = Value(s)
      BY <1>1 DEF Value
    <3>4. CASE Source(s) = c /\ s[2] \in D
      <4>1. /\ dstGrid'[s] = Collide(s[2], srcGrid[<<c, s[2]>>], MomentsOf(datum))
            /\ writers'[s] = writers[s] \cup {"worker"}
        BY <1>1, <3>2, <3>4 DEF Wrote, IInv, GridTypeOK
      <4>2. dstGrid'[s] = Value(s)
        BY <2>3, <2>4, <3>4, <4>1 DEF Value, Sequential!Streamed, Fluid
      <4>3. Source(s) \in Cells /\ ~(Source(s) \in Obstacle \/ s[2] \in MainDirs)
        BY <2>3, <3>4, CellsAre DEF Fluid
      <4>4. \A i \in 1 .. N : Source(s) = Items[i] => i = popped
        BY <2>1, <2>3, <3>4, CellsAre
      <4>5. Untouched(s)' /\ MainWrites(s)'
        BY <4>3 DEF Untouched, MainWrites
      <4>6. ASSUME NEW i \in 1 .. N, Source(s) = Items[i]
            PROVE  /\ writers'[s] \subseteq {"worker"}
                   /\ dstGrid'[s] = IF i <= Len(work') THEN Value(s)' ELSE before'[s]
        <5>1. i = popped /\ i <= Len(work') /\ s[2] \notin MainDirs
          BY <2>1, <4>3, <4>4, <4>6, ItemsAre
        <5> QED
          BY <3>1, <3>3, <4>1, <4>2, <4>6, <5>1 DEF WorkerWrites
      <4> QED
        BY <4>5, <4>6 DEF WorkerWrites
    <3>5. CASE ~(Source(s) = c /\ s[2] \in D)
      <4>1. dstGrid'[s] = dstGrid[s] /\ writers'[s] = writers[s]
        BY <1>1, <3>2, <3>5 DEF Wrote, IInv, GridTypeOK
      <4>2. \A i \in 1 .. N : Source(s) = Items[i] /\ s[2] \notin MainDirs =>
                                (i <= Len(work') <=> i <= Len(work))
        BY <2>1, <2>3, <3>2, <3>5, ItemsAre
      <4> QED
        BY <1>1, <3>1, <3>3, <4>1, <4>2 DEF Untouched, MainWrites, WorkerWrites
    <3> QED
      BY <3>4, <3>5
  <2> QED
    BY <2>5, <2>6 DEF GridInv
<1> QED
  BY <1>3, <1>5, <1>6, <1>7 DEF IInv

\* When main has joined the worker, every slot is as the sequential program
\* leaves it.
LEMMA GridsAreSequential ==
  ASSUME IInv, main = "done", t < Steps, ~starved
  PROVE  dstGrid = Sequential!StreamCollide(srcGrid, before)
<1>1. cell = NCells /\ worker = "done"
  BY DEF IInv, SweepInv, QueueInv, MainPlace
<1>2. Len(work) = N
  BY <1>1 DEF IInv, QueueInv, NeverStarved, WorkIsCounted, HasDatum, QueueTypeOK
<1>3. ASSUME NEW s \in Slots
      PROVE  dstGrid[s] = IF Source(s) \in Cells THEN Value(s) ELSE before[s]
  <2>1. Untouched(s) /\ MainWrites(s) /\ WorkerWrites(s)
    BY DEF IInv, GridInv
  <2>2. CASE Source(s) \notin Cells
    BY <2>1, <2>2 DEF Untouched
  <2>3. CASE Source(s) \in Cells /\ (Source(s) \in Obstacle \/ s[2] \in MainDirs)
    BY <1>1, <2>1, <2>3, CellsAre DEF MainWrites
  <2>4. CASE Source(s) \in Cells /\ Source(s) \notin Obstacle /\ s[2] \notin MainDirs
    <3>1. PICK i \in 1 .. N : Items[i] = Source(s)
      BY <2>4, CellsAre DEF Fluid
    <3> QED
      BY <1>2, <2>1, <2>4, <3>1, ItemsAre DEF WorkerWrites
  <2> QED
    BY <2>2, <2>3, <2>4
<1>4. Sequential!StreamCollide(srcGrid, before) =
        [s \in Slots |-> IF Source(s) \in Cells THEN Value(s) ELSE before[s]]
  BY DEF Sequential!StreamCollide, Slots, Source, Value
<1>5. dstGrid = [s \in Slots |-> dstGrid[s]]
  BY DEF IInv, GridTypeOK
<1> QED
  BY <1>3, <1>4, <1>5

\* The grids change places and, unless it was the last time step, the next one
\* starts with a queue of its own.
LEMMA SwapGridsStep ==
  ASSUME IInv, SwapGrids
  PROVE  IInv'
<1>1. /\ main = "done" /\ t < Steps /\ t' = t + 1 /\ cell' = 0
      /\ srcGrid' = Sequential!Flowed(dstGrid, t + 1) /\ dstGrid' = srcGrid /\ before' = srcGrid
      /\ writers' = [s \in DOMAIN writers |-> {}]
      /\ moments' = moments /\ starved' = starved /\ spurious' = spurious
  BY DEF SwapGrids, flags
<1>2. t \in 0 .. Steps /\ Steps \in Nat
  BY StepsAssumption DEF IInv, GridTypeOK
<1>3. GridTypeOK'
  <2>1. srcGrid' = [s \in Slots |-> srcGrid'[s]]
    BY <1>1 DEF Sequential!Flowed, Slots, IInv, GridTypeOK
  <2>2. writers' = [s \in Slots |-> writers'[s]]
    BY <1>1 DEF IInv, GridTypeOK
  <2> QED
    BY <1>1, <1>2, <2>1, <2>2, CellsAre DEF IInv, GridTypeOK
<1>4. CASE t + 1 < Steps
  <2>1. /\ main' = "spawn" /\ worker' = "unborn" /\ next' = 0 /\ sent' = <<>> /\ popped' = 0
        /\ mutex' = "free" /\ datum' = Default /\ work' = <<>>
    BY <1>4 DEF SwapGrids
  <2>2. starved' \in BOOLEAN /\ spurious' \in BOOLEAN
    BY <1>1 DEF IInv, QueueInv, QueueTypeOK
  <2>3. QueueInv'
    BY <2>1, <2>2, ItemsAre
       DEF QueueInv, QueueTypeOK, MainLabel, WorkerLabel, MainPlace, Exclusion, SentIsItems,
           Sleep, WorkIsCounted, WorkIsNth, OnlyNotified, NeverStarved, Pushed, Ended, HasDatum, WillTake
  <2>4. AllDone'
    BY <1>1, <1>2, <1>4 DEF AllDone
  <2>5. SweepInv'
    <3>1. Due' = 0
      BY <1>1, DueGrows DEF Due, Below
    <3> QED
      BY <1>1, <2>1, <3>1, CellsAre, ItemsAre DEF SweepInv, Pushed
  <2>6. GridInv'
    <3>1. MomentsAre'
      BY <1>1, CellsAre DEF MomentsAre
    <3>2. ASSUME NEW s \in Slots
          PROVE  Untouched(s)' /\ MainWrites(s)' /\ WorkerWrites(s)'
      <4>1. writers'[s] = {} /\ dstGrid'[s] = before'[s]
        BY <1>1 DEF IInv, GridTypeOK
      <4>2. Source(s) \in Cells => ~(Source(s) < cell')
        BY <1>1, CellsAre
      <4>3. \A i \in 1 .. N : ~(i <= Len(work'))
        BY <2>1, ItemsAre
      <4> QED
        BY <4>1, <4>2, <4>3 DEF Untouched, MainWrites, WorkerWrites
    <3> QED
      BY <3>1, <3>2 DEF GridInv
  <2> QED
    BY <1>3, <2>3, <2>4, <2>5, <2>6 DEF IInv
<1>5. CASE ~(t + 1 < Steps)
  <2>1. UNCHANGED pqvars
    BY <1>1, <1>5 DEF SwapGrids, pqvars, queueVars
  <2>2. QueueInv'
    BY <2>1 DEF pqvars, IInv, QueueInv, QueueTypeOK, MainPlace, Exclusion, SentIsItems, Sleep,
       WorkIsCounted, WorkIsNth, OnlyNotified, NeverStarved, Pushed, Ended, HasDatum, WillTake,
       FrontPacket, Nth
  <2>3. t' = Steps /\ main' = "done"
    BY <1>1, <1>2, <1>5, <2>1 DEF pqvars
  <2>4. AllDone'
    BY <1>1, <2>3 DEF AllDone, IInv, GridTypeOK
  <2> QED
    BY <1>2, <1>3, <2>2, <2>3, <2>4 DEF IInv, SweepInv, GridInv
<1> QED
  BY <1>4, <1>5

\* IInv is inductive.
LEMMA NextStep == IInv /\ [Next]_vars => IInv'
<1> SUFFICES ASSUME IInv, [Next]_vars PROVE IInv'
  OBVIOUS
<1>1. CASE (Spawn \/ Push \/ Notify \/ ProduceUnlock \/ PushEnd \/ EndUnlock \/ Join) /\ UNCHANGED gridVars
  <2>1. MainStep /\ ~ProduceLock /\ ~EndLock
    BY <1>1 DEF MainStep, Spawn, Push, Notify, ProduceUnlock, PushEnd, EndUnlock, Join,
       ProduceLock, EndLock
  <2> QED
    BY <1>1, <2>1, MainQueueStep
<1>2. CASE SweepCell
  BY <1>2, SweepCellStep
<1>3. CASE Produce
  BY <1>3, MainQueueStep DEF Produce, MainStep, ProduceLock, EndLock
<1>4. CASE ProduceEnd
  BY <1>4, MainQueueStep DEF ProduceEnd, MainStep, ProduceLock, EndLock
<1>5. CASE SwapGrids
  BY <1>5, SwapGridsStep
<1>6. CASE (QueueStep \/ SpuriousWake) /\ UNCHANGED gridVars
  BY <1>6, WorkerQueueStep
<1>7. CASE WorkOnCell
  BY <1>7, WorkOnCellStep
<1>8. CASE UNCHANGED vars
  <2>1. UNCHANGED gridVars /\ UNCHANGED pqvars
    BY <1>8 DEF vars, gridVars
  <2>2. QueueInv'
    BY <2>1 DEF pqvars, IInv, QueueInv, QueueTypeOK, MainPlace, Exclusion, SentIsItems, Sleep,
       WorkIsCounted, WorkIsNth, OnlyNotified, NeverStarved, Pushed, Ended, HasDatum, WillTake,
       FrontPacket, Nth
  <2>3. work' = work /\ starved' = starved /\ main' = main /\ next' = next /\ Pushed' = Pushed
    BY <2>1 DEF pqvars, Pushed
  <2> QED
    BY <2>1, <2>2, <2>3, GridsStay DEF IInv, AllDone, SweepInv
<1> QED
  BY <1>1, <1>2, <1>3, <1>4, <1>5, <1>6, <1>7, <1>8 DEF Next, MainActs, WorkerActs

-------------------------------------------------------------------------------
(* The theorems.                                                           *)

\* The queue, the sweep and the grids stay as IInv describes them, whatever the
\* lattice, the physics, the schedule and the wakeups (lbm-dswp.cpp:209-352).
THEOREM Inductive == Spec => []IInv
<1>1. Init => IInv
  BY Initially
<1>2. IInv /\ [Next]_vars => IInv'
  BY NextStep
<1> QED
  BY <1>1, <1>2, PTL DEF Spec

\* Without spurious wakeups the worker works on the items in order, none left
\* out, and on the end packet only after end_reached() read an empty queue.
THEOREM WorkIsInOrder == Spec => []WorksInOrder
<1>1. IInv => WorksInOrder
  BY QueueInvGives DEF IInv
<1> QED
  BY <1>1, Inductive, PTL

\* While end_reached() has never read an empty queue, the worker does all the
\* work and nothing else.
THEOREM CleanWorkIsAll == Spec => []CleanRunIsComplete
<1>1. IInv => CleanRunIsComplete
  BY QueueInvGives DEF IInv
<1> QED
  BY <1>1, Inductive, PTL

\* The threads wait for each other only once every item is popped: main in join(),
\* the worker asleep in a consume() that end_reached() should not have let it
\* make (lbm-dswp.cpp:204, the notify that produce_end() leaves out).
THEOREM HangIsAtTheEnd == Spec => []HangsOnlyAtTheEnd
<1>1. IInv => HangsOnlyAtTheEnd
  BY QueueInvGives DEF IInv
<1> QED
  BY <1>1, Inductive, PTL

\* The queue is destroyed after the worker's last access to it.
THEOREM QueueIsDestroyedLast == Spec => []QueueOutlivesWorker
<1>1. IInv => QueueOutlivesWorker
  BY QueueInvGives DEF IInv
<1> QED
  BY <1>1, Inductive, PTL

\* The threads share dstGrid without a lock and never write the same slot in a
\* time step.
THEOREM NoSlotIsShared == Spec => []OneWriterPerSlot
<1>1. ASSUME IInv PROVE OneWriterPerSlot
  <2> SUFFICES ASSUME ~starved, NEW s \in Slots PROVE Cardinality(writers[s]) <= 1
    BY <1>1 DEF OneWriterPerSlot, IInv, GridTypeOK
  <2>1. \E x : writers[s] \subseteq {x}
    <3>1. CASE t = Steps
      BY <1>1, <3>1 DEF IInv, AllDone
    <3>2. CASE t # Steps
      <4>1. Untouched(s) /\ MainWrites(s) /\ WorkerWrites(s)
        BY <1>1, <3>2, StepsAssumption DEF IInv, GridTypeOK, GridInv
      <4>2. CASE Source(s) \notin Cells
        BY <4>1, <4>2 DEF Untouched
      <4>3. CASE Source(s) \in Cells /\ (Source(s) \in Obstacle \/ s[2] \in MainDirs)
        BY <4>1, <4>3 DEF MainWrites
      <4>4. CASE Source(s) \in Fluid /\ s[2] \notin MainDirs
        BY <4>1, <4>4, CellsAre DEF WorkerWrites
      <4> QED
        BY <4>2, <4>3, <4>4 DEF Fluid
    <3> QED
      BY <3>1, <3>2
  <2>2. PICK x : writers[s] = {} \/ writers[s] = {x}
    BY <2>1
  <2>3. Cardinality({}) = 0
    BY FS_EmptySet
  <2>4. Cardinality({x}) = 1
    BY FS_Singleton
  <2> QED
    BY <2>2, <2>3, <2>4
<1> QED
  BY <1>1, Inductive, PTL

\* Each time step of the decoupled program computes what the sequential one does,
\* as long as end_reached() never read an empty queue.
THEOREM StepsAreSequential == Spec => CleanStepsAreSequential
<1>1. ASSUME IInv, [Next]_vars
      PROVE  starved \/ [Sequential!TimeStep]_<<srcGrid, before, t>>
  <2> SUFFICES ASSUME ~starved
               PROVE  [Sequential!TimeStep]_<<srcGrid, before, t>>
    OBVIOUS
  <2>1. CASE SwapGrids
    <3>1. dstGrid = Sequential!StreamCollide(srcGrid, before)
      BY <1>1, <2>1, GridsAreSequential DEF SwapGrids
    <3> QED
      BY <2>1, <3>1 DEF SwapGrids, Sequential!TimeStep
  <2>2. CASE UNCHANGED vars
    BY <2>2 DEF vars
  <2>3. CASE Next /\ ~SwapGrids
    BY <2>3 DEF Next, MainActs, WorkerActs, SweepCell, Produce, ProduceEnd, WorkOnCell, gridVars
  <2> QED
    BY <1>1, <2>1, <2>2, <2>3
<1> QED
  BY <1>1, Inductive, PTL DEF Spec, CleanStepsAreSequential

-------------------------------------------------------------------------------
(* What of CleanStepsEnd needs no fairness.                                *)

\* There are as many items as fluid cells, so no more than N become due.
LEMMA DueIsBounded == IInv /\ t < Steps => Due <= N
<1> SUFFICES ASSUME IInv, t < Steps PROVE Due <= N
  OBVIOUS
<1> DEFINE f == [i \in 1 .. N |-> Items[i]]
<1>1. f \in Surjection(1 .. N, Fluid)
  BY CellsAre DEF Surjection
<1>2. Cardinality(Fluid) <= N /\ N \in Nat
  BY <1>1, ItemsAre, FS_SurjCardinalityBound DEF ExistsSurjection
<1>3. Below(cell) \in SUBSET Fluid /\ IsFiniteSet(Fluid)
  BY CellsAre, FS_Subset DEF Below, Fluid
<1>4. Cardinality(Below(cell)) <= Cardinality(Fluid) /\ Cardinality(Fluid) \in Nat
  BY <1>3, FS_Subset, FS_CardinalityType
<1>5. Due = Cardinality(Below(cell)) /\ Due \in Nat
  BY DEF Due, Below, IInv, SweepInv
<1> QED
  BY <1>2, <1>4, <1>5

\* What main waits for in 470.lbm, and that a run in which the worker never found
\* the queue empty goes on until all time steps are made.
MainWaits ==
  \/ main = "loop" /\ ~(cell < NCells /\ next = Due)
                   /\ ~(mutex = "free" /\ ((next < N /\ next < Due) \/ (next = N /\ cell = NCells)))
  \/ main = "join" /\ worker # "done"
  \/ main = "done" /\ t = Steps
StepsGoOn == ~starved => t = Steps \/ ~MainWaits \/ ~WorkerWaits

LEMMA SomeThreadMoves == IInv => StepsGoOn
<1> SUFFICES ASSUME IInv, ~starved, t # Steps, MainWaits, WorkerWaits PROVE FALSE
  BY DEF StepsGoOn
<1>1. /\ t < Steps /\ N \in Nat /\ next \in 0 .. N /\ cell \in 0 .. NCells /\ NCells \in Nat
  BY StepsAssumption, ItemsAre, CellsAre DEF IInv, QueueInv, QueueTypeOK, GridTypeOK
<1>2. \/ mutex = "main"
      \/ mutex = "free" /\ main \in {"spawn", "loop", "done"}
      \/ mutex = "free" /\ main = "join" /\ worker = "done"
  BY QueueMoves DEF IInv
<1>3. mutex = "main" => main \notin {"loop", "join", "done"}
  BY DEF IInv, QueueInv, Exclusion
<1>4. main = "loop" /\ mutex = "free"
  BY <1>1, <1>2, <1>3 DEF MainWaits
<1>5. Due \in Nat /\ next <= Due /\ Due <= N
  BY <1>1, <1>4, DueIsBounded DEF IInv, SweepInv, Pushed
<1>6. CASE cell < NCells
  <2>1. next # Due /\ ~(next < N /\ next < Due)
    BY <1>4, <1>6 DEF MainWaits
  <2> QED
    BY <1>1, <1>5, <2>1
<1>7. CASE cell = NCells /\ next < N
  <2>1. next + 1 \in 1 .. N /\ Items[next + 1] \in Cells
    BY <1>1, <1>7, CellsAre DEF Fluid
  <2>2. Items[next + 1] < cell
    BY <1>1, <1>7, <2>1, CellsAre
  <2>3. next + 1 <= Due
    BY <1>1, <2>1, <2>2 DEF IInv, SweepInv
  <2> QED
    BY <1>1, <1>4, <1>5, <1>7, <2>3 DEF MainWaits
<1>8. CASE cell = NCells /\ next = N
  BY <1>1, <1>4, <1>8 DEF MainWaits
<1> QED
  BY <1>1, <1>6, <1>7, <1>8

\* The steps left at most in this call of the sweep, and in all.
CallLeft == QueueLeft + (NCells - cell)
StepsLeft == (Steps - t) * (15 * N + NCells + 22) + CallLeft

\* The cells of a sweep are few, like the steps of its queue.
CallIsBounded == CallLeft \in Int /\ (~starved => CallLeft \in 1 .. 15 * N + NCells + 21)

LEMMA CallLeftIs == IInv => CallIsBounded
BY QueueLeftIs, CellsAre, ItemsAre DEF CallIsBounded, CallLeft, IInv, GridTypeOK

\* In a time step each step is one of those left.
LEMMA CallCounts ==
  ASSUME IInv, Next, ~SwapGrids
  PROVE  CallLeft' < CallLeft /\ t' = t
<1>1. /\ QueueLeft \in Int /\ QueueInv /\ NCells \in Nat /\ NCells' = NCells
      /\ cell \in Int
  BY QueueLeftIs, CellsAre DEF IInv, GridTypeOK, NCells
<1>2. CASE SweepCell
  <2>1. cell' = cell + 1 /\ t' = t
    BY <1>2 DEF SweepCell
  <2>2. QueueLeft' = QueueLeft
    BY <1>2 DEF SweepCell, pqvars, QueueLeft, MainAfter, WorkerAfter, N
  <2> QED
    BY <1>1, <2>1, <2>2 DEF CallLeft
<1>3. CASE ~SweepCell
  <2>1. cell' = cell /\ t' = t
    BY <1>3 DEF Next, MainActs, WorkerActs, Produce, ProduceEnd, WorkOnCell, gridVars
  <2>2. MainStep \/ QueueStep \/ Work \/ SpuriousWake
    BY <1>3 DEF Next, MainActs, WorkerActs, Produce, ProduceEnd, WorkOnCell, MainStep
  <2>3. QueueLeft' \in Int /\ QueueLeft' < QueueLeft
    BY <1>1, <2>2, QueueCounts
  <2>4. PICK k \in Int : k = NCells - cell
    BY <1>1
  <2>5. CallLeft = QueueLeft + k /\ CallLeft' = QueueLeft' + k
    BY <1>1, <2>1, <2>4 DEF CallLeft
  <2>6. \A a, b, c \in Int : a < b => a + c < b + c
    OBVIOUS
  <2> QED
    BY <1>1, <2>1, <2>3, <2>4, <2>5, <2>6, Zenon
<1> QED
  BY <1>2, <1>3

\* A swap begins another call, or the last one ends; as long as the worker never
\* found the queue empty, no call takes more than it may.
LEMMA StepCounts ==
  ASSUME IInv, CallIsBounded, CallIsBounded', Next
  PROVE  starved' \/ StepsLeft' < StepsLeft
<1> SUFFICES ASSUME ~starved' PROVE StepsLeft' < StepsLeft
  OBVIOUS
<1>1. /\ N \in Nat /\ NCells \in Nat /\ N' = N /\ NCells' = NCells
      /\ t \in Int /\ Steps \in Int
  BY StepsAssumption, ItemsAre, CellsAre DEF IInv, GridTypeOK, N, NCells
<1>2. PICK K \in Nat : K = 15 * N + NCells + 22
  BY <1>1
<1>3. StepsLeft = (Steps - t) * K + CallLeft /\ StepsLeft' = (Steps - t') * K + CallLeft'
  BY <1>1, <1>2 DEF StepsLeft
<1>4. CallLeft \in Int /\ CallLeft' \in Int
  BY DEF CallIsBounded
<1>5. CASE ~SwapGrids
  <2>1. CallLeft' < CallLeft /\ t' = t
    BY <1>5, CallCounts
  <2>2. PICK r \in Int : r = (Steps - t) * K
    BY <1>1, <1>2
  <2>3. StepsLeft = r + CallLeft /\ StepsLeft' = r + CallLeft'
    BY <1>3, <2>1, <2>2
  <2>4. \A a, b, c \in Int : b < a => c + b < c + a
    OBVIOUS
  <2> QED
    BY <1>4, <2>1, <2>2, <2>3, <2>4, Zenon
<1>6. CASE SwapGrids
  <2>1. t' = t + 1 /\ starved' = starved
    BY <1>6 DEF SwapGrids, flags
  <2>2. CallLeft >= 1 /\ CallLeft' <= K - 1
    BY <1>1, <1>2, <2>1 DEF CallIsBounded
  <2>3. PICK r \in Int : r = (Steps - (t + 1)) * K
    BY <1>1, <1>2
  <2>4. (Steps - t) * K = r + K
    <3>1. \A a, b, c \in Int : (a - b) * c = (a - (b + 1)) * c + c
      OBVIOUS
    <3> QED
      BY <1>1, <1>2, <2>3, <3>1
  <2>5. StepsLeft = (r + K) + CallLeft /\ StepsLeft' = r + CallLeft'
    BY <1>3, <2>1, <2>3, <2>4
  <2>6. \A a, b, c, d \in Int : a >= 1 /\ b <= d - 1 => c + b < (c + d) + a
    OBVIOUS
  <2>7. K \in Int
    BY <1>2
  <2> QED
    BY <1>4, <2>2, <2>3, <2>5, <2>6, <2>7, Zenon
<1> QED
  BY <1>5, <1>6

\* No deadlock but the one of a queue found empty: while end_reached() has told
\* the truth, one of the threads can go on until all time steps are made
\* (lbm-dswp.cpp:209-352, main-dswp.cpp:41-52).
THEOREM CleanStepsGoOn == Spec => []StepsGoOn
BY SomeThreadMoves, Inductive, PTL

\* And there are only so many steps to make: every step, the wakeups included,
\* lowers a number that a clean run keeps at 0 or above.
THEOREM EveryLbmStepCounts ==
  Spec => [](~starved => StepsLeft \in Nat) /\ [][starved' \/ StepsLeft' < StepsLeft]_vars
<1>1. IInv /\ CallIsBounded => (~starved => StepsLeft \in Nat)
  <2> SUFFICES ASSUME IInv, CallIsBounded, ~starved PROVE StepsLeft \in Nat
    OBVIOUS
  <2>1. N \in Nat /\ NCells \in Nat /\ Steps - t \in Nat
    BY StepsAssumption, ItemsAre, CellsAre DEF IInv, GridTypeOK
  <2>2. CallLeft \in Nat
    BY <2>1 DEF CallIsBounded
  <2>3. \A a, b \in Nat : a * b \in Nat
    OBVIOUS
  <2>4. 15 * N + NCells + 22 \in Nat
    BY <2>1
  <2>5. (Steps - t) * (15 * N + NCells + 22) \in Nat
    BY <2>1, <2>3, <2>4
  <2>6. \A a, b \in Nat : a + b \in Nat
    OBVIOUS
  <2> QED
    BY <2>2, <2>5, <2>6, Zenon DEF StepsLeft
<1>2. IInv /\ CallIsBounded /\ CallIsBounded' /\ [Next]_vars => [starved' \/ StepsLeft' < StepsLeft]_vars
  BY StepCounts
<1> QED
  BY <1>1, <1>2, CallLeftIs, Inductive, PTL DEF Spec

===============================================================================
