--------------------------- MODULE PcPipelineProofs ---------------------------
(***************************************************************************)
(* The pipeline of test/pcqueue.cpp is right for every number of elements, *)
(* every stage function and every interleaving, provided that              *)
(* pthread_cond_wait does not return without a signal.                     *)
(*                                                                         *)
(* The argument is one inductive invariant, IInv of PcPipeline.  Each      *)
(* action has a lemma: its first steps say what the action changes, thread *)
(* by thread and queue by queue, and the others take the conjuncts of IInv *)
(* one at a time.                                                          *)
(*                                                                         *)
(* The last section needs no such provision: what holds even where wait    *)
(* returns by itself, by the weaker invariant CountInv.  It ends with the  *)
(* absence of deadlock and a bound on the number of steps.                 *)
(***************************************************************************)
EXTENDS PcPipeline, TLAPS

\* Which thread fills and which drains a queue: queue q lies between threads
\* q - 1 and q.
LEMMA Neighbours ==
  /\ \A t \in Thread :
       t # 3 => t + 1 \in Queue /\ t + 1 \in Thread /\ t + 1 # t /\ t + 1 # 0
  /\ \A t \in Thread : t # 0 => t \in Queue
  /\ \A q \in Queue : q \in Thread /\ q # 0 /\ q - 1 \in Thread /\ q - 1 # 3 /\ q # q - 1
  /\ \A q \in Queue : \A t \in Thread : q - 1 = t <=> q = t + 1
  /\ 0 \in Thread /\ 3 \in Thread /\ 3 \in Queue /\ Free \notin Thread
BY DEF Thread, Queue, Free

\* pthread_create: the child starts from nothing counted.
LEMMA SpawnStep ==
  ASSUME IInv, NEW t \in Thread, Spawn(t)
  PROVE  IInv'
<1> USE Neighbours DEF IInv
<1>1. /\ t # 3 /\ pc[t] = "spawn" /\ pc'[t] = "loop"
      /\ pc'[t + 1] = IF t = 2 THEN "zero" ELSE "spawn"
  <2>1. pc \in [Thread -> Label]
    BY DEF TypeOK
  <2> HIDE DEF IInv
  <2> QED
    BY <2>1 DEF Spawn, Goto, Thread
<1>2. \A u \in Thread \ {t, t + 1} : pc'[u] = pc[u]
  BY DEF Spawn, Goto, TypeOK
<1>3. /\ i' = i /\ el' = el /\ pushed' = pushed /\ popped' = popped
      /\ mutex' = mutex /\ sum' = sum /\ ret' = ret
  BY DEF Spawn, queues
<1>4. pc[t + 1] = "unborn"
  BY <1>1 DEF Lives, Born
<1>5. TypeOK'
  <2>1. pc' \in [Thread -> Label]
    BY <1>1 DEF Spawn, Goto, TypeOK, Label
  <2> QED
    BY <1>3, <2>1 DEF TypeOK
<1>6. ASSUME NEW u \in Thread PROVE Lives(u)'
  BY <1>1, <1>2, <1>3, <1>4 DEF Lives, Born, LabelsOf, Common, Consuming, Producing
<1>7. ASSUME NEW u \in Thread PROVE HoldsElement(u)'
  BY <1>1, <1>2, <1>3, <1>4 DEF HoldsElement, Element
<1>8. ASSUME NEW q \in Queue PROVE Guarded(q)'
  BY <1>1, <1>2, <1>3, <1>4 DEF Guarded, Filling, Draining
<1>9. ASSUME NEW q \in Queue PROVE Fifo(q)'
  BY <1>1, <1>2, <1>3, <1>4 DEF Fifo, Pushing, Holding
<1>10. ASSUME NEW q \in Queue PROVE Wakeup(q)'
  BY <1>1, <1>2, <1>3, <1>4 DEF Wakeup, Empty
<1>11. QueueOutlivesUsers' /\ Quiet'
  BY <1>1, <1>2, <1>3, <1>4 DEF QueueOutlivesUsers, Quiet
<1> QED
  BY <1>5, <1>6, <1>7, <1>8, <1>9, <1>10, <1>11

\* Entering a round of the loop.
LEMMA IterateStep ==
  ASSUME IInv, NEW t \in Thread, Iterate(t)
  PROVE  IInv'
<1> USE Neighbours DEF IInv
<1>1. /\ pc[t] = "loop" /\ i[t] < N
      /\ pc'[t] = (IF t = 0 THEN "produce" ELSE "consume")
  BY DEF Iterate, Goto, TypeOK, Thread
<1>2. \A u \in Thread \ {t} : pc'[u] = pc[u]
  BY DEF Iterate, Goto, TypeOK
<1>3. /\ i' = i /\ pushed' = pushed /\ popped' = popped /\ mutex' = mutex
      /\ sum' = sum /\ ret' = ret
  BY DEF Iterate, queues
<1>4. \A u \in Thread : el'[u] = IF u = t /\ t = 0 THEN i[t] ELSE el[u]
  BY <1>1 DEF Iterate, TypeOK, Thread, Queue
<1>5. TypeOK'
  <2>1. pc' \in [Thread -> Label]
    <3>1. pc' = [pc EXCEPT ![t] = IF t = 0 THEN "produce" ELSE "consume"]
      BY DEF Iterate, Goto
    <3> QED
      BY <3>1 DEF TypeOK, Label
  <2>2. el' \in [Thread -> Value]
    BY <1>1, ValueAssumption, NAssumption, GarbageAssumption
       DEF Iterate, TypeOK, Lives, Born, Thread, Wakeup, Empty, Queue
  <2> QED
    BY <1>3, <2>1, <2>2 DEF TypeOK
<1>6. ASSUME NEW u \in Thread PROVE Lives(u)'
  BY <1>1, <1>2, <1>3, <1>4 DEF Lives, Born, LabelsOf, Common, Consuming, Producing
<1>7. ASSUME NEW u \in Thread PROVE HoldsElement(u)'
  BY <1>1, <1>2, <1>3, <1>4 DEF HoldsElement, Element
<1>8. ASSUME NEW q \in Queue PROVE Guarded(q)'
  BY <1>1, <1>2, <1>3, <1>4 DEF Guarded, Filling, Draining
<1>9. ASSUME NEW q \in Queue PROVE Fifo(q)'
  BY <1>1, <1>2, <1>3, <1>4 DEF Fifo, Pushing, Holding
<1>10. ASSUME NEW q \in Queue PROVE Wakeup(q)'
  BY <1>1, <1>2, <1>3, <1>4 DEF Wakeup, Empty
<1>11. QueueOutlivesUsers' /\ Quiet'
  BY <1>1, <1>2, <1>3, <1>4 DEF QueueOutlivesUsers, Quiet
<1> QED
  BY <1>5, <1>6, <1>7, <1>8, <1>9, <1>10, <1>11

\* The loop is left with exactly N elements counted.
LEMMA LeaveLoopStep ==
  ASSUME IInv, NEW t \in Thread, LeaveLoop(t)
  PROVE  IInv'
<1> USE Neighbours DEF IInv
<1>1. pc[t] = "loop" /\ pc'[t] = (IF t = 3 THEN "done" ELSE "join")
  BY DEF LeaveLoop, Goto, TypeOK, Thread
<1>2. \A u \in Thread \ {t} : pc'[u] = pc[u]
  BY DEF LeaveLoop, Goto, TypeOK
<1>3. /\ i' = i /\ el' = el /\ pushed' = pushed /\ popped' = popped
      /\ mutex' = mutex /\ sum' = sum /\ ret' = ret
  BY DEF LeaveLoop, queues
<1>4. i[t] = N
  BY NAssumption DEF LeaveLoop, TypeOK
<1>5. TypeOK'
  <2>1. pc' \in [Thread -> Label]
    BY <1>1 DEF LeaveLoop, Goto, TypeOK, Label
  <2> QED
    BY <1>3, <2>1 DEF TypeOK
<1>6. ASSUME NEW u \in Thread PROVE Lives(u)'
  BY <1>1, <1>2, <1>3, <1>4 DEF Lives, Born, LabelsOf, Common, Consuming, Producing
<1>7. ASSUME NEW u \in Thread PROVE HoldsElement(u)'
  BY <1>1, <1>2, <1>3, <1>4 DEF HoldsElement, Element
<1>8. ASSUME NEW q \in Queue PROVE Guarded(q)'
  BY <1>1, <1>2, <1>3, <1>4 DEF Guarded, Filling, Draining
<1>9. ASSUME NEW q \in Queue PROVE Fifo(q)'
  BY <1>1, <1>2, <1>3, <1>4 DEF Fifo, Pushing, Holding
<1>10. ASSUME NEW q \in Queue PROVE Wakeup(q)'
  BY <1>1, <1>2, <1>3, <1>4 DEF Wakeup, Empty
<1>11. QueueOutlivesUsers' /\ Quiet'
  BY <1>1, <1>2, <1>3, <1>4 DEF QueueOutlivesUsers, Quiet
<1> QED
  BY <1>5, <1>6, <1>7, <1>8, <1>9, <1>10, <1>11

\* A thread returns, and destroys its queue, after the queue's consumer did.
LEMMA JoinStep ==
  ASSUME IInv, NEW t \in Thread, Join(t)
  PROVE  IInv'
<1> USE Neighbours DEF IInv
<1>1. t # 3 /\ pc[t] = "join" /\ pc[t + 1] = "done" /\ pc'[t] = "done"
  BY DEF Join, Goto, TypeOK, Thread
<1>2. \A u \in Thread \ {t} : pc'[u] = pc[u]
  BY DEF Join, Goto, TypeOK
<1>3. /\ i' = i /\ el' = el /\ pushed' = pushed /\ popped' = popped
      /\ mutex' = mutex /\ sum' = sum
  BY DEF Join, queues
<1>4. t # 0 => ret' = ret
  BY <1>1 DEF Join, TypeOK, Thread, Queue
<1>5. TypeOK'
  <2>1. pc' \in [Thread -> Label]
    BY <1>1 DEF Join, Goto, TypeOK, Label
  <2>2. ret' \in Seq(Int)
    BY <1>1 DEF Join, TypeOK
  <2> QED
    BY <1>3, <2>1, <2>2 DEF TypeOK
<1>6. ASSUME NEW u \in Thread PROVE Lives(u)'
  BY <1>1, <1>2, <1>3, <1>4 DEF Lives, Born, LabelsOf, Common, Consuming, Producing
<1>7. ASSUME NEW u \in Thread PROVE HoldsElement(u)'
  BY <1>1, <1>2, <1>3, <1>4 DEF HoldsElement, Element
<1>8. ASSUME NEW q \in Queue PROVE Guarded(q)'
  BY <1>1, <1>2, <1>3, <1>4 DEF Guarded, Filling, Draining
<1>9. ASSUME NEW q \in Queue PROVE Fifo(q)'
  BY <1>1, <1>2, <1>3, <1>4 DEF Fifo, Pushing, Holding
<1>10. ASSUME NEW q \in Queue PROVE Wakeup(q)'
  BY <1>1, <1>2, <1>3, <1>4 DEF Wakeup, Empty
<1>11. QueueOutlivesUsers' /\ Quiet'
  BY <1>1, <1>2, <1>3, <1>4
     DEF QueueOutlivesUsers, Quiet, Guarded, Filling, Draining
<1> QED
  BY <1>5, <1>6, <1>7, <1>8, <1>9, <1>10, <1>11

\* produce() enters its critical section.
LEMMA ProduceLockStep ==
  ASSUME IInv, NEW t \in Thread, ProduceLock(t)
  PROVE  IInv'
<1> USE Neighbours DEF IInv
<1>1. t # 3 /\ pc[t] = "produce" /\ mutex[t + 1] = Free /\ pc'[t] = "push"
  BY DEF ProduceLock, Goto, Lock, TypeOK, Thread
<1>2. \A u \in Thread \ {t} : pc'[u] = pc[u]
  BY DEF ProduceLock, Goto, TypeOK
<1>3. /\ i' = i /\ el' = el /\ pushed' = pushed /\ popped' = popped
      /\ sum' = sum /\ ret' = ret
  BY DEF ProduceLock, queues
<1>4. mutex'[t + 1] = t /\ \A q \in Queue \ {t + 1} : mutex'[q] = mutex[q]
  BY <1>1 DEF ProduceLock, Lock, Unlock, TypeOK, Thread, Queue
<1>5. TypeOK'
  <2>1. pc' \in [Thread -> Label]
    BY <1>1 DEF ProduceLock, Goto, TypeOK, Label
  <2>2. mutex' \in [Queue -> Thread \cup {Free}]
    BY <1>1 DEF ProduceLock, TypeOK, Lock, Unlock
  <2> QED
    BY <1>3, <2>1, <2>2 DEF TypeOK
<1>6. ASSUME NEW u \in Thread PROVE Lives(u)'
  BY <1>1, <1>2, <1>3, <1>4 DEF Lives, Born, LabelsOf, Common, Consuming, Producing
<1>7. ASSUME NEW u \in Thread PROVE HoldsElement(u)'
  BY <1>1, <1>2, <1>3, <1>4 DEF HoldsElement, Element
<1>8. ASSUME NEW q \in Queue PROVE Guarded(q)'
  BY <1>1, <1>2, <1>3, <1>4 DEF Guarded, Filling, Draining
<1>9. ASSUME NEW q \in Queue PROVE Fifo(q)'
  BY <1>1, <1>2, <1>3, <1>4 DEF Fifo, Pushing, Holding
<1>10. ASSUME NEW q \in Queue PROVE Wakeup(q)'
  BY <1>1, <1>2, <1>3, <1>4 DEF Wakeup, Empty
<1>11. QueueOutlivesUsers' /\ Quiet'
  BY <1>1, <1>2, <1>3, <1>4 DEF QueueOutlivesUsers, Quiet
<1> QED
  BY <1>5, <1>6, <1>7, <1>8, <1>9, <1>10, <1>11

\* The push appends the image of the element the producer is at: the next one of
\* its stage.
LEMMA PushStep ==
  ASSUME IInv, NEW t \in Thread, Push(t)
  PROVE  IInv'
<1> USE Neighbours DEF IInv
<1>1. t # 3 /\ pc[t] = "push" /\ pc'[t] = "signal"
  BY DEF Push, Goto, TypeOK
<1>2. \A u \in Thread \ {t} : pc'[u] = pc[u]
  BY DEF Push, Goto, TypeOK
<1>3. /\ i' = i /\ el' = el /\ popped' = popped /\ mutex' = mutex
      /\ sum' = sum /\ ret' = ret
  BY DEF Push
<1>4. /\ pushed'[t + 1] = Append(pushed[t + 1], f[el[t]])
      /\ \A q \in Queue \ {t + 1} : pushed'[q] = pushed[q]
  <2>1. pushed' = [pushed EXCEPT ![t + 1] = Append(pushed[t + 1], f[el[t]])]
    BY DEF Push
  <2>2. pushed \in [Queue -> Seq(Value)] /\ t + 1 \in Queue
    BY <1>1 DEF TypeOK
  <2> QED
    BY <2>1, <2>2
<1>5. /\ f[el[t]] \in Value /\ pushed[t + 1] \in Seq(Value)
      /\ popped[t + 1] \in Nat /\ i[t] \in Nat
  BY <1>1, FAssumption, NAssumption DEF TypeOK
<1>6. Len(pushed[t + 1]) = i[t] /\ i[t] < N
  <2>1. (t + 1) - 1 = t
    BY DEF Thread
  <2>2. Len(pushed[t + 1]) = i[t] + 0
    BY <1>1, <2>1 DEF Fifo, Pushing
  <2> QED
    BY <1>1, <1>5, <2>2 DEF Lives, Born
<1>7. f[el[t]] = Stage(t + 1, i[t])
  <2>1. el[t] = Element(t)
    BY <1>1 DEF HoldsElement
  <2> QED
    <3>1. CASE t = 0
      BY <2>1, <3>1 DEF Element, Stage
    <3>2. CASE t = 1
      BY <2>1, <3>2 DEF Element, Stage
    <3>3. CASE t = 2
      BY <2>1, <3>3 DEF Element, Stage
    <3> QED
      BY <1>1, <3>1, <3>2, <3>3 DEF Thread
<1>8. TypeOK'
  <2>1. pc' \in [Thread -> Label]
    BY <1>1 DEF Push, Goto, TypeOK, Label
  <2>2. pushed' \in [Queue -> Seq(Value)]
    BY <1>1, <1>5 DEF Push, TypeOK
  <2> QED
    BY <1>3, <2>1, <2>2 DEF TypeOK
<1>9. ASSUME NEW u \in Thread PROVE Lives(u)'
  BY <1>1, <1>2, <1>3 DEF Lives, Born, LabelsOf, Common, Consuming, Producing
<1>10. ASSUME NEW u \in Thread PROVE HoldsElement(u)'
  BY <1>1, <1>2, <1>3 DEF HoldsElement, Element
<1>11. ASSUME NEW q \in Queue PROVE Guarded(q)'
  BY <1>1, <1>2, <1>3 DEF Guarded, Filling, Draining
<1>12. ASSUME NEW q \in Queue PROVE Fifo(q)'
  <2>1. CASE q # t + 1
    BY <1>1, <1>2, <1>3, <1>4, <2>1 DEF Fifo, Pushing, Holding
  <2>2. CASE q = t + 1
    <3>1. \A j \in 1 .. Len(pushed'[q]) : pushed'[q][j] = Stage(q, j - 1)
      <4> SUFFICES ASSUME NEW j \in 1 .. Len(pushed'[q])
                   PROVE  pushed'[q][j] = Stage(q, j - 1)
        OBVIOUS
      <4>1. CASE j <= i[t]
        <5>1. j \in 1 .. Len(pushed[q]) /\ pushed'[q][j] = pushed[q][j]
          <6>1. pushed'[q] = Append(pushed[q], f[el[t]]) /\ pushed[q] \in Seq(Value)
            BY <1>4, <1>5, <2>2
          <6>2. Len(pushed[q]) = i[t] /\ j \in Nat /\ j >= 1
            BY <1>6, <2>2
          <6> QED
            BY <1>5, <4>1, <6>1, <6>2
        <5> QED
          BY <5>1 DEF Fifo
      <4>2. CASE j = i[t] + 1
        BY <1>4, <1>5, <1>6, <1>7, <2>2, <4>2
      <4> QED
        BY <1>4, <1>5, <1>6, <2>2, <4>1, <4>2
    <3>2. Len(pushed'[q]) = i[t] + 1
      BY <1>4, <1>5, <1>6, <2>2
    <3>3. q - 1 = t /\ q # t
      BY <2>2
    <3>4. popped'[q] = i'[q] + IF Holding(q)' THEN 1 ELSE 0
      BY <1>2, <1>3, <3>3 DEF Fifo, Holding
    <3> QED
      BY <1>1, <1>3, <3>1, <3>2, <3>3, <3>4 DEF Fifo, Pushing
  <2> QED
    BY <2>1, <2>2
<1>13. ASSUME NEW q \in Queue PROVE Wakeup(q)'
  <2>1. CASE q # t + 1
    BY <1>1, <1>2, <1>3, <1>4, <2>1 DEF Wakeup, Empty
  <2>2. CASE q = t + 1
    <3>1. Len(pushed'[q]) = Len(pushed[q]) + 1 /\ Len(pushed[q]) \in Nat
      BY <1>4, <1>5, <2>2
    <3>2. q - 1 = t /\ q # t /\ popped[q] <= Len(pushed[q])
      BY <2>2 DEF Wakeup
    <3>3. popped'[q] < Len(pushed'[q])
      BY <1>3, <1>5, <2>2, <3>1, <3>2
    <3> QED
      BY <1>1, <1>2, <1>3, <1>5, <2>2, <3>1, <3>2, <3>3 DEF Wakeup, Empty
  <2> QED
    BY <2>1, <2>2
<1>14. QueueOutlivesUsers' /\ Quiet'
  BY <1>1, <1>2, <1>3 DEF QueueOutlivesUsers, Quiet
<1> QED
  BY <1>8, <1>9, <1>10, <1>11, <1>12, <1>13, <1>14

\* The signal wakes a sleeper whose queue is not empty.
LEMMA SignalStep ==
  ASSUME IInv, NEW t \in Thread, Signal(t)
  PROVE  IInv'
<1> USE Neighbours DEF IInv
<1>1. /\ t # 3 /\ pc[t] = "signal" /\ pc'[t] = "pushed"
      /\ pc'[t + 1] = IF pc[t + 1] = "asleep" THEN "woken" ELSE pc[t + 1]
  <2>1. pc \in [Thread -> Label]
    BY DEF TypeOK
  <2> HIDE DEF IInv
  <2> QED
    BY <2>1 DEF Signal, Goto, Thread
<1>2. \A u \in Thread \ {t, t + 1} : pc'[u] = pc[u]
  BY DEF Signal, Goto, TypeOK
<1>3. /\ i' = i /\ el' = el /\ pushed' = pushed /\ popped' = popped
      /\ mutex' = mutex /\ sum' = sum /\ ret' = ret
  BY DEF Signal, queues
<1>4. TypeOK'
  <2>1. pc' \in [Thread -> Label]
    BY <1>1 DEF Signal, Goto, TypeOK, Label
  <2> QED
    BY <1>3, <2>1 DEF TypeOK
<1>5. ASSUME NEW u \in Thread PROVE Lives(u)'
  BY <1>1, <1>2, <1>3 DEF Lives, Born, LabelsOf, Common, Consuming, Producing
<1>6. ASSUME NEW u \in Thread PROVE HoldsElement(u)'
  BY <1>1, <1>2, <1>3 DEF HoldsElement, Element
<1>7. ASSUME NEW q \in Queue PROVE Guarded(q)'
  BY <1>1, <1>2, <1>3 DEF Guarded, Filling, Draining
<1>8. ASSUME NEW q \in Queue PROVE Fifo(q)'
  <2>1. Pushing(q - 1)' <=> Pushing(q - 1)
    BY <1>1, <1>2 DEF Pushing
  <2>2. Holding(q)' <=> Holding(q)
    BY <1>1, <1>2 DEF Holding
  <2>3. Fifo(q)
    OBVIOUS
  <2> QED
    BY <1>3, <2>1, <2>2, <2>3 DEF Fifo
<1>9. ASSUME NEW q \in Queue PROVE Wakeup(q)'
  BY <1>1, <1>2, <1>3 DEF Wakeup, Empty
<1>10. QueueOutlivesUsers' /\ Quiet'
  BY <1>1, <1>2, <1>3 DEF QueueOutlivesUsers, Quiet
<1> QED
  BY <1>4, <1>5, <1>6, <1>7, <1>8, <1>9, <1>10

\* produce() leaves its critical section and the round is counted.
LEMMA ProduceUnlockStep ==
  ASSUME IInv, NEW t \in Thread, ProduceUnlock(t)
  PROVE  IInv'
<1> USE Neighbours DEF IInv
<1>1. t # 3 /\ pc[t] = "pushed" /\ pc'[t] = "loop"
  BY DEF ProduceUnlock, Goto, TypeOK, Thread
<1>2. \A u \in Thread \ {t} : pc'[u] = pc[u]
  BY DEF ProduceUnlock, Goto, TypeOK
<1>3. /\ el' = el /\ pushed' = pushed /\ popped' = popped /\ sum' = sum
      /\ ret' = ret
  BY DEF ProduceUnlock, queues
<1>4. mutex'[t + 1] = Free /\ \A q \in Queue \ {t + 1} : mutex'[q] = mutex[q]
  BY <1>1 DEF ProduceUnlock, Lock, Unlock, TypeOK, Thread, Queue
<1>5. i'[t] = i[t] + 1 /\ \A u \in Thread \ {t} : i'[u] = i[u]
  BY <1>1 DEF ProduceUnlock, TypeOK, Thread, Queue
<1>6. i[t] < N
  BY <1>1 DEF Lives, Born
<1>7. TypeOK'
  <2>1. pc' \in [Thread -> Label]
    BY <1>1 DEF ProduceUnlock, Goto, TypeOK, Label
  <2>2. mutex' \in [Queue -> Thread \cup {Free}]
    BY <1>1 DEF ProduceUnlock, TypeOK, Lock, Unlock
  <2>3. i' \in [Thread -> 0 .. N]
    <3>1. i' = [i EXCEPT ![t] = i[t] + 1]
      BY DEF ProduceUnlock
    <3>2. i[t] \in 0 .. N
      BY DEF TypeOK
    <3>3. i[t] + 1 \in 0 .. N
      <4> HIDE DEF IInv
      <4> QED
        BY <1>6, <3>2, NAssumption
    <3> QED
      BY <3>1, <3>3 DEF TypeOK
  <2> QED
    BY <1>3, <2>1, <2>2, <2>3 DEF TypeOK
<1>8. ASSUME NEW u \in Thread PROVE Lives(u)'
  BY <1>1, <1>2, <1>3, <1>4, <1>5, <1>6
     DEF Lives, Born, LabelsOf, Common, Consuming, Producing
<1>9. ASSUME NEW u \in Thread PROVE HoldsElement(u)'
  BY <1>1, <1>2, <1>3, <1>4, <1>5, <1>6 DEF HoldsElement, Element
<1>10. ASSUME NEW q \in Queue PROVE Guarded(q)'
  BY <1>1, <1>2, <1>3, <1>4, <1>5, <1>6 DEF Guarded, Filling, Draining
<1>11. ASSUME NEW q \in Queue PROVE Fifo(q)'
  BY <1>1, <1>2, <1>3, <1>4, <1>5, <1>6 DEF Fifo, Pushing, Holding
<1>12. ASSUME NEW q \in Queue PROVE Wakeup(q)'
  BY <1>1, <1>2, <1>3, <1>4, <1>5, <1>6 DEF Wakeup, Empty
<1>13. QueueOutlivesUsers' /\ Quiet'
  BY <1>1, <1>2, <1>3, <1>4, <1>5, <1>6 DEF QueueOutlivesUsers, Quiet
<1> QED
  BY <1>7, <1>8, <1>9, <1>10, <1>11, <1>12, <1>13

\* consume() enters its critical section.
LEMMA ConsumeLockStep ==
  ASSUME IInv, NEW t \in Thread, ConsumeLock(t)
  PROVE  IInv'
<1> USE Neighbours DEF IInv
<1>1. t # 0 /\ pc[t] = "consume" /\ mutex[t] = Free /\ pc'[t] = "check"
  BY DEF ConsumeLock, Goto, Lock, TypeOK, Thread
<1>2. \A u \in Thread \ {t} : pc'[u] = pc[u]
  BY DEF ConsumeLock, Goto, TypeOK
<1>3. /\ i' = i /\ el' = el /\ pushed' = pushed /\ popped' = popped
      /\ sum' = sum /\ ret' = ret
  BY DEF ConsumeLock, queues
<1>4. mutex'[t] = t /\ \A q \in Queue \ {t} : mutex'[q] = mutex[q]
  BY <1>1 DEF ConsumeLock, Lock, Unlock, TypeOK, Thread, Queue
<1>5. TypeOK'
  <2>1. pc' \in [Thread -> Label]
    BY <1>1 DEF ConsumeLock, Goto, TypeOK, Label
  <2>2. mutex' \in [Queue -> Thread \cup {Free}]
    BY <1>1 DEF ConsumeLock, TypeOK, Lock, Unlock
  <2> QED
    BY <1>3, <2>1, <2>2 DEF TypeOK
<1>6. ASSUME NEW u \in Thread PROVE Lives(u)'
  BY <1>1, <1>2, <1>3, <1>4 DEF Lives, Born, LabelsOf, Common, Consuming, Producing
<1>7. ASSUME NEW u \in Thread PROVE HoldsElement(u)'
  BY <1>1, <1>2, <1>3, <1>4 DEF HoldsElement, Element
<1>8. ASSUME NEW q \in Queue PROVE Guarded(q)'
  BY <1>1, <1>2, <1>3, <1>4 DEF Guarded, Filling, Draining
<1>9. ASSUME NEW q \in Queue PROVE Fifo(q)'
  BY <1>1, <1>2, <1>3, <1>4 DEF Fifo, Pushing, Holding
<1>10. ASSUME NEW q \in Queue PROVE Wakeup(q)'
  BY <1>1, <1>2, <1>3, <1>4 DEF Wakeup, Empty
<1>11. QueueOutlivesUsers' /\ Quiet'
  BY <1>1, <1>2, <1>3, <1>4 DEF QueueOutlivesUsers, Quiet
<1> QED
  BY <1>5, <1>6, <1>7, <1>8, <1>9, <1>10, <1>11

\* The test finds the queue empty: the producer is outside its critical section,
\* so no signal is under way that the sleeper could miss.
LEMMA SleepStep ==
  ASSUME IInv, NEW t \in Thread, Check(t), Empty(t)
  PROVE  IInv'
<1> USE Neighbours DEF IInv
<1>a. pc \in [Thread -> Label]
  BY DEF TypeOK
<1>b. t # 0 /\ pc[t] = "check" /\ pc' = [pc EXCEPT ![t] = "asleep"]
  BY DEF Check, Goto
<1>1. t # 0 /\ pc[t] = "check" /\ pc'[t] = "asleep"
  BY <1>a, <1>b
<1>2. \A u \in Thread \ {t} : pc'[u] = pc[u]
  BY <1>a, <1>b
<1>3. /\ i' = i /\ el' = el /\ pushed' = pushed /\ popped' = popped
      /\ sum' = sum /\ ret' = ret
  BY DEF Check, queues
<1>4. mutex'[t] = Free /\ \A q \in Queue \ {t} : mutex'[q] = mutex[q]
  <2>1. mutex \in [Queue -> Thread \cup {Free}] /\ t \in Queue
    BY <1>1 DEF TypeOK, Thread, Queue
  <2>2. mutex' = [mutex EXCEPT ![t] = Free]
    BY DEF Check, Unlock
  <2> QED
    BY <2>1, <2>2
<1>5. pc[t - 1] # "signal"
  BY <1>1 DEF Guarded, Filling, Draining
<1>6. TypeOK'
  <2>1. pc' \in [Thread -> Label]
    <3>1. pc' = [pc EXCEPT ![t] = "asleep"]
      BY DEF Check, Goto
    <3> QED
      BY <3>1 DEF TypeOK, Label
  <2>2. mutex' \in [Queue -> Thread \cup {Free}]
    <3>1. mutex' = [mutex EXCEPT ![t] = Free]
      BY DEF Check, Unlock
    <3> QED
      BY <3>1 DEF TypeOK
  <2> QED
    BY <1>3, <2>1, <2>2 DEF TypeOK
<1>7. ASSUME NEW u \in Thread PROVE Lives(u)'
  BY <1>1, <1>2, <1>3, <1>4, <1>5
     DEF Lives, Born, LabelsOf, Common, Consuming, Producing
<1>8. ASSUME NEW u \in Thread PROVE HoldsElement(u)'
  BY <1>1, <1>2, <1>3, <1>4, <1>5 DEF HoldsElement, Element
<1>9. ASSUME NEW q \in Queue PROVE Guarded(q)'
  BY <1>1, <1>2, <1>3, <1>4, <1>5 DEF Guarded, Filling, Draining
<1>10. ASSUME NEW q \in Queue PROVE Fifo(q)'
  BY <1>1, <1>2, <1>3, <1>4, <1>5 DEF Fifo, Pushing, Holding
<1>11. ASSUME NEW q \in Queue PROVE Wakeup(q)'
  BY <1>1, <1>2, <1>3, <1>4, <1>5 DEF Wakeup, Empty
<1>12. QueueOutlivesUsers' /\ Quiet'
  BY <1>1, <1>2, <1>3, <1>4, <1>5 DEF QueueOutlivesUsers, Quiet
<1> QED
  BY <1>6, <1>7, <1>8, <1>9, <1>10, <1>11, <1>12

\* The test finds data.
LEMMA CheckStep ==
  ASSUME IInv, NEW t \in Thread, Check(t), ~Empty(t)
  PROVE  IInv'
<1> USE Neighbours DEF IInv
<1>a. pc \in [Thread -> Label]
  BY DEF TypeOK
<1>b. t # 0 /\ pc[t] = "check" /\ pc' = [pc EXCEPT ![t] = "take"]
  BY DEF Check, Goto
<1>1. t # 0 /\ pc[t] = "check" /\ pc'[t] = "take"
  BY <1>a, <1>b
<1>2. \A u \in Thread \ {t} : pc'[u] = pc[u]
  BY <1>a, <1>b
<1>3. /\ i' = i /\ el' = el /\ pushed' = pushed /\ popped' = popped
      /\ mutex' = mutex /\ sum' = sum /\ ret' = ret
  BY DEF Check, queues
<1>4. TypeOK'
  <2>1. pc' \in [Thread -> Label]
    <3>1. pc' = [pc EXCEPT ![t] = "take"]
      BY DEF Check, Goto
    <3> QED
      BY <3>1 DEF TypeOK, Label
  <2> QED
    BY <1>3, <2>1 DEF TypeOK
<1>5. ASSUME NEW u \in Thread PROVE Lives(u)'
  BY <1>1, <1>2, <1>3 DEF Lives, Born, LabelsOf, Common, Consuming, Producing
<1>6. ASSUME NEW u \in Thread PROVE HoldsElement(u)'
  BY <1>1, <1>2, <1>3 DEF HoldsElement, Element
<1>7. ASSUME NEW q \in Queue PROVE Guarded(q)'
  BY <1>1, <1>2, <1>3 DEF Guarded, Filling, Draining
<1>8. ASSUME NEW q \in Queue PROVE Fifo(q)'
  BY <1>1, <1>2, <1>3 DEF Fifo, Pushing, Holding
<1>9. ASSUME NEW q \in Queue PROVE Wakeup(q)'
  BY <1>1, <1>2, <1>3 DEF Wakeup, Empty
<1>10. QueueOutlivesUsers' /\ Quiet'
  BY <1>1, <1>2, <1>3 DEF QueueOutlivesUsers, Quiet
<1> QED
  BY <1>4, <1>5, <1>6, <1>7, <1>8, <1>9, <1>10

\* A woken consumer gets its mutex back; nobody else pops the queue meanwhile.
LEMMA ReacquireStep ==
  ASSUME IInv, NEW t \in Thread, Reacquire(t)
  PROVE  IInv'
<1> USE Neighbours DEF IInv
<1>1. t # 0 /\ pc[t] = "woken" /\ mutex[t] = Free /\ pc'[t] = "take"
  BY DEF Reacquire, Goto, Lock, TypeOK, Thread
<1>2. \A u \in Thread \ {t} : pc'[u] = pc[u]
  BY DEF Reacquire, Goto, TypeOK
<1>3. /\ i' = i /\ el' = el /\ pushed' = pushed /\ popped' = popped
      /\ sum' = sum /\ ret' = ret
  BY DEF Reacquire, queues
<1>4. mutex'[t] = t /\ \A q \in Queue \ {t} : mutex'[q] = mutex[q]
  BY <1>1 DEF Reacquire, Lock, Unlock, TypeOK, Thread, Queue
<1>5. TypeOK'
  <2>1. pc' \in [Thread -> Label]
    BY <1>1 DEF Reacquire, Goto, TypeOK, Label
  <2>2. mutex' \in [Queue -> Thread \cup {Free}]
    BY <1>1 DEF Reacquire, TypeOK, Lock, Unlock
  <2> QED
    BY <1>3, <2>1, <2>2 DEF TypeOK
<1>6. ASSUME NEW u \in Thread PROVE Lives(u)'
  BY <1>1, <1>2, <1>3, <1>4 DEF Lives, Born, LabelsOf, Common, Consuming, Producing
<1>7. ASSUME NEW u \in Thread PROVE HoldsElement(u)'
  BY <1>1, <1>2, <1>3, <1>4 DEF HoldsElement, Element
<1>8. ASSUME NEW q \in Queue PROVE Guarded(q)'
  BY <1>1, <1>2, <1>3, <1>4 DEF Guarded, Filling, Draining
<1>9. ASSUME NEW q \in Queue PROVE Fifo(q)'
  BY <1>1, <1>2, <1>3, <1>4 DEF Fifo, Pushing, Holding
<1>10. ASSUME NEW q \in Queue PROVE Wakeup(q)'
  BY <1>1, <1>2, <1>3, <1>4 DEF Wakeup, Empty
<1>11. QueueOutlivesUsers' /\ Quiet'
  BY <1>1, <1>2, <1>3, <1>4 DEF QueueOutlivesUsers, Quiet
<1> QED
  BY <1>5, <1>6, <1>7, <1>8, <1>9, <1>10, <1>11

\* The element taken is the one the consumer's counter says.
LEMMA TakeStep ==
  ASSUME IInv, NEW t \in Thread, Take(t)
  PROVE  IInv'
<1> USE Neighbours DEF IInv
<1>1. t # 0 /\ pc[t] = "take" /\ pc'[t] = "taken"
  BY DEF Take, Goto, TypeOK, Thread
<1>2. \A u \in Thread \ {t} : pc'[u] = pc[u]
  BY DEF Take, Goto, TypeOK
<1>3. i' = i /\ pushed' = pushed /\ mutex' = mutex /\ sum' = sum /\ ret' = ret
  BY DEF Take, queues
<1>4. popped[t] < Len(pushed[t]) /\ popped[t] + 1 \in 1 .. Len(pushed[t])
  <2>1. t \in Queue /\ Wakeup(t) /\ popped[t] \in Nat /\ pushed[t] \in Seq(Value)
    BY <1>1 DEF TypeOK
  <2>2. popped[t] <= Len(pushed[t]) /\ popped[t] # Len(pushed[t])
    BY <1>1, <2>1 DEF Wakeup, Empty
  <2>3. Len(pushed[t]) \in Nat
    BY <2>1
  <2> QED
    BY <2>1, <2>2, <2>3
<1>5. /\ el'[t] = pushed[t][popped[t] + 1]
      /\ \A u \in Thread \ {t} : el'[u] = el[u]
  BY <1>1, <1>4 DEF Take, TypeOK
<1>6. /\ popped'[t] = popped[t] + 1
      /\ \A q \in Queue \ {t} : popped'[q] = popped[q]
  BY <1>1 DEF Take, TypeOK, Thread, Queue
<1>7. /\ popped[t] = i[t] /\ popped[t] \in Nat /\ i[t] \in Nat
      /\ Len(pushed[t]) \in Nat
  <2>1. i[t] \in 0 .. N /\ popped[t] \in Nat /\ pushed[t] \in Seq(Value)
    BY <1>1 DEF TypeOK
  <2>2. popped[t] = i[t] + 0
    BY <1>1 DEF Fifo, Holding
  <2> QED
    BY <2>1, <2>2, NAssumption
<1>8. /\ pushed[t][popped[t] + 1] = Stage(t, i[t])
      /\ pushed[t][popped[t] + 1] \in Value
  <2>1. t \in Queue /\ Fifo(t) /\ pushed[t] \in Seq(Value)
    BY <1>1 DEF TypeOK
  <2>2. pushed[t][popped[t] + 1] = Stage(t, (popped[t] + 1) - 1)
    BY <1>4, <2>1 DEF Fifo
  <2>3. (popped[t] + 1) - 1 = i[t]
    BY <1>7
  <2> QED
    BY <1>4, <2>1, <2>2, <2>3
<1>9. TypeOK'
  <2>1. pc' \in [Thread -> Label]
    BY <1>1 DEF Take, Goto, TypeOK, Label
  <2>2. el' \in [Thread -> Value]
    <3>1. el' = [el EXCEPT ![t] = pushed[t][popped[t] + 1]]
      BY <1>4 DEF Take
    <3> QED
      BY <1>8, <3>1 DEF TypeOK
  <2>3. popped' \in [Queue -> Nat]
    <3>1. popped' = [popped EXCEPT ![t] = popped[t] + 1]
      BY DEF Take
    <3>2. popped \in [Queue -> Nat]
      BY DEF TypeOK
    <3>3. popped[t] + 1 \in Nat
      BY <1>7
    <3> HIDE DEF IInv
    <3> QED
      BY <3>1, <3>2, <3>3
  <2> QED
    BY <1>3, <2>1, <2>2, <2>3 DEF TypeOK
<1>10. ASSUME NEW u \in Thread PROVE Lives(u)'
  BY <1>1, <1>2, <1>3, <1>4, <1>5, <1>6, <1>7, <1>8
     DEF Lives, Born, LabelsOf, Common, Consuming, Producing
<1>11. ASSUME NEW u \in Thread PROVE HoldsElement(u)'
  BY <1>1, <1>2, <1>3, <1>4, <1>5, <1>6, <1>7, <1>8 DEF HoldsElement, Element
<1>12. ASSUME NEW q \in Queue PROVE Guarded(q)'
  BY <1>1, <1>2, <1>3, <1>4, <1>5, <1>6, <1>7, <1>8
     DEF Guarded, Filling, Draining
<1>13. ASSUME NEW q \in Queue PROVE Fifo(q)'
  BY <1>1, <1>2, <1>3, <1>4, <1>5, <1>6, <1>7, <1>8 DEF Fifo, Pushing, Holding
<1>14. ASSUME NEW q \in Queue PROVE Wakeup(q)'
  BY <1>1, <1>2, <1>3, <1>4, <1>5, <1>6, <1>7, <1>8 DEF Wakeup, Empty
<1>15. QueueOutlivesUsers' /\ Quiet'
  BY <1>1, <1>2, <1>3, <1>4, <1>5, <1>6, <1>7, <1>8 DEF QueueOutlivesUsers, Quiet
<1> QED
  BY <1>9, <1>10, <1>11, <1>12, <1>13, <1>14, <1>15

\* consume() leaves its critical section.
LEMMA ConsumeUnlockStep ==
  ASSUME IInv, NEW t \in Thread, ConsumeUnlock(t)
  PROVE  IInv'
<1> USE Neighbours DEF IInv
<1>1. t # 0 /\ pc[t] = "taken" /\ pc'[t] = IF t = 3 THEN "add" ELSE "produce"
  BY DEF ConsumeUnlock, Goto, TypeOK, Thread
<1>2. \A u \in Thread \ {t} : pc'[u] = pc[u]
  BY DEF ConsumeUnlock, Goto, TypeOK
<1>3. /\ i' = i /\ el' = el /\ pushed' = pushed /\ popped' = popped
      /\ sum' = sum /\ ret' = ret
  BY DEF ConsumeUnlock, queues
<1>4. mutex'[t] = Free /\ \A q \in Queue \ {t} : mutex'[q] = mutex[q]
  BY <1>1 DEF ConsumeUnlock, Lock, Unlock, TypeOK, Thread, Queue
<1>5. TypeOK'
  <2>1. pc' \in [Thread -> Label]
    BY <1>1 DEF ConsumeUnlock, Goto, TypeOK, Label
  <2>2. mutex' \in [Queue -> Thread \cup {Free}]
    BY <1>1 DEF ConsumeUnlock, TypeOK, Lock, Unlock
  <2> QED
    BY <1>3, <2>1, <2>2 DEF TypeOK
<1>6. ASSUME NEW u \in Thread PROVE Lives(u)'
  BY <1>1, <1>2, <1>3, <1>4 DEF Lives, Born, LabelsOf, Common, Consuming, Producing
<1>7. ASSUME NEW u \in Thread PROVE HoldsElement(u)'
  BY <1>1, <1>2, <1>3, <1>4 DEF HoldsElement, Element
<1>8. ASSUME NEW q \in Queue PROVE Guarded(q)'
  BY <1>1, <1>2, <1>3, <1>4 DEF Guarded, Filling, Draining
<1>9. ASSUME NEW q \in Queue PROVE Fifo(q)'
  <2>1. Pushing(q - 1)' <=> Pushing(q - 1)
    BY <1>1, <1>2 DEF Pushing
  <2>2. Holding(q)' <=> Holding(q)
    BY <1>1, <1>2 DEF Holding
  <2>3. Fifo(q)
    OBVIOUS
  <2> QED
    BY <1>3, <2>1, <2>2, <2>3 DEF Fifo
<1>10. ASSUME NEW q \in Queue PROVE Wakeup(q)'
  <2>1. Wakeup(q) /\ (Empty(q)' <=> Empty(q)) /\ Len(pushed'[q]) = Len(pushed[q])
    BY <1>3 DEF Empty
  <2>2. /\ pc'[q] = "asleep" => pc[q] = "asleep"
        /\ pc'[q] \in {"woken", "take"} => pc[q] \in {"woken", "take"}
        /\ pc'[q - 1] = "signal" <=> pc[q - 1] = "signal"
    BY <1>1, <1>2
  <2> QED
    BY <1>3, <2>1, <2>2 DEF Wakeup
<1>11. QueueOutlivesUsers' /\ Quiet'
  BY <1>1, <1>2, <1>3, <1>4 DEF QueueOutlivesUsers, Quiet
<1> QED
  BY <1>5, <1>6, <1>7, <1>8, <1>9, <1>10, <1>11

\* consumer3 zeroes the shared sum.
LEMMA ZeroSumStep ==
  ASSUME IInv, ZeroSum
  PROVE  IInv'
<1> USE Neighbours DEF IInv
<1>1. pc[3] = "zero" /\ pc'[3] = "loop"
  BY DEF ZeroSum, Goto, TypeOK, Thread
<1>2. \A u \in Thread \ {3} : pc'[u] = pc[u]
  BY DEF ZeroSum, Goto, TypeOK
<1>3. /\ i' = i /\ el' = el /\ pushed' = pushed /\ popped' = popped
      /\ mutex' = mutex /\ ret' = ret
  BY DEF ZeroSum, queues
<1>4. TypeOK'
  <2>1. pc' \in [Thread -> Label]
    BY <1>1 DEF ZeroSum, Goto, TypeOK, Label
  <2>2. sum' \in Int
    BY <1>1, ValueAssumption, FAssumption DEF ZeroSum, TypeOK
  <2> QED
    BY <1>3, <2>1, <2>2 DEF TypeOK
<1>5. ASSUME NEW u \in Thread PROVE Lives(u)'
  BY <1>1, <1>2, <1>3 DEF Lives, Born, LabelsOf, Common, Consuming, Producing
<1>6. ASSUME NEW u \in Thread PROVE HoldsElement(u)'
  BY <1>1, <1>2, <1>3 DEF HoldsElement, Element
<1>7. ASSUME NEW q \in Queue PROVE Guarded(q)'
  BY <1>1, <1>2, <1>3 DEF Guarded, Filling, Draining
<1>8. ASSUME NEW q \in Queue PROVE Fifo(q)'
  BY <1>1, <1>2, <1>3 DEF Fifo, Pushing, Holding
<1>9. ASSUME NEW q \in Queue PROVE Wakeup(q)'
  BY <1>1, <1>2, <1>3 DEF Wakeup, Empty
<1>10. QueueOutlivesUsers' /\ Quiet'
  BY <1>1, <1>2, <1>3 DEF QueueOutlivesUsers, Quiet
<1> QED
  BY <1>4, <1>5, <1>6, <1>7, <1>8, <1>9, <1>10

\* consumer3 adds and counts an element.
LEMMA AddToSumStep ==
  ASSUME IInv, AddToSum
  PROVE  IInv'
<1> USE Neighbours DEF IInv
<1>1. pc[3] = "add" /\ pc'[3] = "loop"
  BY DEF AddToSum, Goto, TypeOK, Thread
<1>2. \A u \in Thread \ {3} : pc'[u] = pc[u]
  BY DEF AddToSum, Goto, TypeOK
<1>3. /\ el' = el /\ pushed' = pushed /\ popped' = popped /\ mutex' = mutex
      /\ ret' = ret
  BY DEF AddToSum, queues
<1>4. i'[3] = i[3] + 1 /\ \A u \in Thread \ {3} : i'[u] = i[u]
  BY <1>1 DEF AddToSum, TypeOK, Thread, Queue
<1>5. i[3] < N /\ i[3] \in Nat
  <2>1. Lives(3) /\ i[3] \in 0 .. N
    BY DEF TypeOK
  <2> QED
    BY <1>1, <2>1, NAssumption DEF Lives, Born
<1>6. TypeOK'
  <2>1. pc' \in [Thread -> Label]
    BY <1>1 DEF AddToSum, Goto, TypeOK, Label
  <2>2. sum' \in Int
    BY <1>1, ValueAssumption, FAssumption DEF AddToSum, TypeOK
  <2>3. i' \in [Thread -> 0 .. N]
    <3>1. i' = [i EXCEPT ![3] = i[3] + 1]
      BY DEF AddToSum
    <3>2. i[3] + 1 \in 0 .. N
      BY <1>5, NAssumption
    <3> QED
      BY <3>1, <3>2 DEF TypeOK
  <2> QED
    BY <1>3, <2>1, <2>2, <2>3 DEF TypeOK
<1>7. ASSUME NEW u \in Thread PROVE Lives(u)'
  BY <1>1, <1>2, <1>3, <1>4, <1>5
     DEF Lives, Born, LabelsOf, Common, Consuming, Producing
<1>8. ASSUME NEW u \in Thread PROVE HoldsElement(u)'
  BY <1>1, <1>2, <1>3, <1>4, <1>5 DEF HoldsElement, Element
<1>9. ASSUME NEW q \in Queue PROVE Guarded(q)'
  BY <1>1, <1>2, <1>3, <1>4, <1>5 DEF Guarded, Filling, Draining
<1>10. ASSUME NEW q \in Queue PROVE Fifo(q)'
  BY <1>1, <1>2, <1>3, <1>4, <1>5 DEF Fifo, Pushing, Holding
<1>11. ASSUME NEW q \in Queue PROVE Wakeup(q)'
  BY <1>1, <1>2, <1>3, <1>4, <1>5 DEF Wakeup, Empty
<1>12. QueueOutlivesUsers' /\ Quiet'
  BY <1>1, <1>2, <1>3, <1>4, <1>5 DEF QueueOutlivesUsers, Quiet
<1> QED
  BY <1>6, <1>7, <1>8, <1>9, <1>10, <1>11, <1>12


\* The inductive invariant holds when parallel_sum is called.
LEMMA InitIInv == Init => IInv
<1> SUFFICES ASSUME Init PROVE IInv
  OBVIOUS
<1> USE Neighbours DEF Init
<1>1. TypeOK
  <2>1. sum \in Int
    BY GarbageAssumption, ValueAssumption
  <2>2. 0 \in 0 .. N
    BY NAssumption
  <2>3. 0 \in Value
    BY ValueAssumption
  <2>4. el \in [Thread -> Value] /\ i \in [Thread -> 0 .. N]
    BY <2>2, <2>3
  <2>5. pc \in [Thread -> Label]
    BY DEF Label
  <2>6. pushed \in [Queue -> Seq(Value)] /\ ret \in Seq(Int)
    OBVIOUS
  <2>7. popped \in [Queue -> Nat] /\ mutex \in [Queue -> Thread \cup {Free}]
    OBVIOUS
  <2> QED
    BY <2>1, <2>4, <2>5, <2>6, <2>7 DEF TypeOK
<1>2. ASSUME NEW t \in Thread PROVE Lives(t) /\ HoldsElement(t)
  BY NAssumption DEF Lives, Born, HoldsElement, LabelsOf, Common, Producing
<1>3. ASSUME NEW q \in Queue PROVE Guarded(q) /\ Fifo(q) /\ Wakeup(q)
  BY DEF Guarded, Filling, Draining, Fifo, Pushing, Holding, Wakeup, Empty
<1>4. QueueOutlivesUsers /\ Quiet
  BY DEF QueueOutlivesUsers, Quiet
<1> QED
  BY <1>1, <1>2, <1>3, <1>4 DEF IInv

\* Every step of the pipeline preserves the inductive invariant.
LEMMA NextIInv ==
  ASSUME ~SpuriousWakeups, IInv, [Next]_vars
  PROVE  IInv'
<1>1. CASE UNCHANGED vars
  BY <1>1
     DEF vars, IInv, TypeOK, Lives, Born, LabelsOf, HoldsElement, Element, Guarded,
     Filling, Draining, Fifo, Pushing, Holding, Wakeup, Empty, QueueOutlivesUsers, Quiet
<1>2. ASSUME NEW t \in Thread, Run(t) PROVE IInv'
  <2>1. CASE ZeroSum \/ AddToSum
    BY <2>1, ZeroSumStep, AddToSumStep
  <2>2. CASE Produce(t)
    BY <2>2, ProduceLockStep, PushStep, SignalStep, ProduceUnlockStep DEF Produce
  <2>3. CASE Consume(t)
    BY <2>3, ConsumeLockStep, SleepStep, CheckStep, ReacquireStep, TakeStep,
       ConsumeUnlockStep DEF Consume
  <2> QED
    BY <1>2, <2>1, <2>2, <2>3, SpawnStep, IterateStep, LeaveLoopStep, JoinStep
       DEF Run
<1> QED
  BY <1>1, <1>2 DEF Next, SpuriousWake

\* IInv is an invariant of every run of the pipeline, for every N and every stage
\* function f, when pthread_cond_wait has no spurious wakeups.
THEOREM Inductive == ~SpuriousWakeups => (Spec => []IInv)
<1> SUFFICES ASSUME ~SpuriousWakeups PROVE Spec => []IInv
  OBVIOUS
<1>1. Init => IInv
  BY InitIInv
<1>2. IInv /\ [Next]_vars => IInv'
  BY NextIInv
<1> QED
  BY <1>1, <1>2, PTL DEF Spec

\* Every queue holds its stage's images of 0, 1, 2, ... in order, without loss or
\* duplication, whatever the interleaving of produce() and consume().
THEOREM PipelineInOrder == ~SpuriousWakeups => (Spec => []FifoPipeline)
<1>1. IInv => FifoPipeline
  BY DEF IInv, FifoPipeline
<1> QED
  BY <1>1, Inductive, PTL

\* consume() never calls front() on an empty queue: with one consumer per queue
\* the "if" around the wait is as good as a "while".
THEOREM WaitNeedsNoLoop == ~SpuriousWakeups => (Spec => []NeverTakesFromEmpty)
<1>1. IInv => NeverTakesFromEmpty
  BY Neighbours DEF IInv, NeverTakesFromEmpty, Wakeup, Thread, Queue
<1> QED
  BY <1>1, Inductive, PTL

\* The pipeline starts where the sequential loop starts.
THEOREM InitImplements == Init => SeqSum!Init
  BY Neighbours DEF Init, SeqSum!Init

\* Every step of the pipeline is a step of the sequential loop or a stutter.
THEOREM NextImplements ==
  ASSUME ~SpuriousWakeups, IInv, [Next]_vars
  PROVE  [SeqSum!Next]_SeqSum!vars
<1> USE Neighbours DEF SeqSum!Next, SeqSum!vars, SeqSum!Add, SeqSum!Return
<1>1. CASE UNCHANGED vars
  BY <1>1 DEF vars
<1>2. CASE AddToSum
  <2>1. pc[3] = "add" /\ pc'[3] = "loop" /\ ret' = ret
    BY <1>2 DEF AddToSum, Goto, IInv, TypeOK
  <2>2. i[3] < N /\ el[3] = f[f[f[i[3]]]]
    <3>1. Lives(3) /\ HoldsElement(3)
      BY DEF IInv
    <3> QED
      BY <2>1, <3>1 DEF Lives, Born, HoldsElement, Element, Stage
  <2>3. i'[3] = i[3] + 1 /\ sum' = sum + f[el[3]]
    BY <1>2 DEF AddToSum, IInv, TypeOK
  <2> QED
    BY <2>1, <2>2, <2>3
<1>3. CASE ZeroSum
  <2>1. pc[3] = "zero" /\ pc'[3] = "loop" /\ ret' = ret /\ sum' = 0 /\ i' = i
    BY <1>3 DEF ZeroSum, Goto, IInv, TypeOK
  <2> QED
    BY <2>1
<1>4. ASSUME NEW t \in Thread, Join(t) PROVE [SeqSum!Next]_SeqSum!vars
  <2>1. /\ i' = i /\ sum' = sum /\ t # 3 /\ pc[t] = "join" /\ pc[t + 1] = "done"
        /\ pc'[3] = pc[3]
    BY <1>4 DEF Join, Goto, IInv, TypeOK
  <2>2. CASE t # 0
    BY <1>4, <2>1, <2>2 DEF Join
  <2>3. CASE t = 0
    <3>1. pc[1] = "done" /\ pc[2] = "done" /\ pc[3] = "done"
      BY <2>1, <2>3 DEF IInv, QueueOutlivesUsers, Queue
    <3>2. Lives(3) /\ Quiet
      BY DEF IInv
    <3>3. i[3] = N /\ ret = <<>> /\ ret' = <<sum>>
      BY <1>4, <2>1, <2>3, <3>1, <3>2 DEF Lives, Born, Quiet, Join
    <3> QED
      BY <2>1, <3>1, <3>3
  <2> QED
    BY <2>2, <2>3
<1>5. ASSUME NEW t \in Thread, Spawn(t) PROVE UNCHANGED SeqSum!vars
  <2>1. i' = i /\ sum' = sum /\ ret' = ret /\ pc[t] = "spawn" /\ t # 3
    BY <1>5 DEF Spawn
  <2>2. pc[t + 1] = "unborn"
    BY <2>1 DEF IInv, Lives, Born
  <2>3. pc[3] \in {"unborn", "zero"} <=> pc'[3] \in {"unborn", "zero"}
    <3>1. pc \in [Thread -> Label]
      BY DEF IInv, TypeOK
    <3> QED
      BY <1>5, <2>1, <2>2, <3>1 DEF Spawn, Thread
  <2> QED
    BY <2>1, <2>3
<1>6. ASSUME NEW t \in Thread,
             Iterate(t) \/ LeaveLoop(t) \/ Produce(t) \/ Consume(t)
      PROVE  UNCHANGED SeqSum!vars
  <2>1. sum' = sum /\ ret' = ret /\ i'[3] = i[3]
    BY <1>6
       DEF Iterate, LeaveLoop, Produce, ProduceLock, Push, Signal,
           ProduceUnlock,
       Consume, ConsumeLock, Check, Reacquire, Take, ConsumeUnlock, IInv, TypeOK
  <2>2. pc[3] \in {"unborn", "zero"} <=> pc'[3] \in {"unborn", "zero"}
    <3>0. pc \in [Thread -> Label] /\ 3 \in Thread
      BY DEF IInv, TypeOK, Thread
    <3>1. CASE Iterate(t)
      BY <3>0, <3>1 DEF Iterate, Goto
    <3>11. CASE LeaveLoop(t)
      BY <3>0, <3>11 DEF LeaveLoop, Goto
    <3>2. CASE Signal(t)
      BY <3>0, <3>2 DEF Signal
    <3>3. CASE ProduceLock(t)
      BY <3>0, <3>3 DEF ProduceLock, Goto
    <3>4. CASE Push(t)
      BY <3>0, <3>4 DEF Push, Goto
    <3>5. CASE ProduceUnlock(t)
      BY <3>0, <3>5 DEF ProduceUnlock, Goto
    <3>6. CASE ConsumeLock(t)
      BY <3>0, <3>6 DEF ConsumeLock, Goto
    <3>7. CASE Reacquire(t)
      BY <3>0, <3>7 DEF Reacquire, Goto
    <3>8. CASE Take(t)
      BY <3>0, <3>8 DEF Take, Goto
    <3>9. CASE ConsumeUnlock(t)
      BY <3>0, <3>9 DEF ConsumeUnlock, Goto
    <3>10. CASE Check(t)
      BY <3>0, <3>10 DEF Check, Goto
    <3> QED
      BY <1>6, <3>1, <3>2, <3>3, <3>4, <3>5, <3>6, <3>7, <3>8, <3>9, <3>10, <3>11
         DEF Produce, Consume
  <2> QED
    BY <2>1, <2>2
<1> QED
  BY <1>1, <1>2, <1>3, <1>4, <1>5, <1>6 DEF Next, Run, SpuriousWake

\* parallel_sum implements sequential_sum: the value it returns is the sum of
\* f(f(f(f(i)))) for i < N, for every N, f and interleaving.
THEOREM Implements == ~SpuriousWakeups => (Spec => IsSequential)
<1> SUFFICES ASSUME ~SpuriousWakeups PROVE Spec => IsSequential
  OBVIOUS
<1>1. Init => SeqSum!Init
  BY InitImplements
<1>2. IInv /\ [Next]_vars => [SeqSum!Next]_SeqSum!vars
  BY NextImplements
<1>3. Spec => []IInv
  BY Inductive
<1> QED
  BY <1>1, <1>2, <1>3, PTL DEF Spec, IsSequential, SeqSum!Spec

-------------------------------------------------------------------------------
(* What holds even if pthread_cond_wait returns without a signal.           *)

LEMMA InitLockInv == Init => LockInv
<1> SUFFICES ASSUME Init PROVE LockInv
  OBVIOUS
<1> USE Neighbours DEF Init
<1>1. pc \in [Thread -> Label] /\ mutex \in [Queue -> Thread \cup {Free}]
  BY DEF Label
<1>2. ASSUME NEW t \in Thread PROVE Born(t)
  BY DEF Born, LabelsOf, Common, Producing
<1>3. ASSUME NEW q \in Queue
      PROVE  Guarded(q) /\ (pc[q - 1] = "done" => pc[q] = "done" /\ mutex[q] = Free)
  BY DEF Guarded, Filling, Draining
<1> QED
  BY <1>1, <1>2, <1>3 DEF LockInv, Exclusive, QueueOutlivesUsers

\* A step of thread t that takes and leaves no mutex.
LEMMA NoLockStep ==
  ASSUME LockInv, NEW t \in Thread,
         \/ Spawn(t) \/ (t = 3 /\ (ZeroSum \/ AddToSum)) \/ Iterate(t) \/ LeaveLoop(t)
         \/ Join(t) \/ Push(t) \/ Signal(t) \/ SpuriousWake(t) \/ Take(t)
  PROVE  LockInv'
<1> USE Neighbours DEF LockInv
<1>1. mutex' = mutex
  BY DEF Spawn, ZeroSum, AddToSum, Iterate, LeaveLoop, Join, Push, Signal, SpuriousWake, Take
<1>2. pc' \in [Thread -> Label]
  BY DEF Spawn, ZeroSum, AddToSum, Iterate, LeaveLoop, Join, Push, Signal, SpuriousWake,
         Take, Goto, Label
<1>3. ASSUME NEW u \in Thread
      PROVE  Born(u)' /\ (u # 3 => (Filling(u)' <=> Filling(u)))
                     /\ (u # 0 => (Draining(u)' <=> Draining(u)))
  <2> USE DEF Goto, Born, LabelsOf, Common, Consuming, Producing, Filling, Draining
  <2>1. CASE Spawn(t)
    BY <2>1 DEF Spawn
  <2>2. CASE t = 3 /\ (ZeroSum \/ AddToSum)
    BY <2>2 DEF ZeroSum, AddToSum
  <2>3. CASE Iterate(t) \/ LeaveLoop(t)
    BY <2>3 DEF Iterate, LeaveLoop
  <2>4. CASE Join(t)
    BY <2>4 DEF Join
  <2>5. CASE Push(t)
    BY <2>5 DEF Push
  <2>6. CASE Signal(t)
    BY <2>6 DEF Signal
  <2>7. CASE SpuriousWake(t)
    BY <2>7 DEF SpuriousWake
  <2>8. CASE Take(t)
    BY <2>8 DEF Take
  <2> QED
    BY <2>1, <2>2, <2>3, <2>4, <2>5, <2>6, <2>7, <2>8
<1>4. Exclusive'
  BY <1>1, <1>3 DEF Exclusive, Guarded
<1>5. ASSUME NEW u \in Thread, pc[u] = "done" PROVE pc'[u] = "done"
  BY <1>5 DEF Spawn, ZeroSum, AddToSum, Iterate, LeaveLoop, Join, Push, Signal,
              SpuriousWake, Take, Goto, Born
<1>6. ASSUME NEW q \in Queue, pc'[q - 1] = "done"
      PROVE  pc'[q] = "done" /\ mutex'[q] = Free
  <2>1. CASE pc[q - 1] = "done"
    BY <1>1, <1>5, <2>1 DEF QueueOutlivesUsers
  <2>2. CASE pc[q - 1] # "done"
    <3>1. t = q - 1 /\ Join(t)
      BY <1>6, <2>2 DEF Spawn, ZeroSum, AddToSum, Iterate, LeaveLoop, Join, Push, Signal,
                        SpuriousWake, Take, Goto, Born
    <3>2. pc[q - 1] = "join" /\ pc[q] = "done"
      BY <3>1 DEF Join, Thread, Queue
    <3>3. mutex[q] = Free
      BY <3>2 DEF Exclusive, Guarded, Filling, Draining
    <3> QED
      BY <1>1, <1>5, <3>2, <3>3
  <2> QED
    BY <2>1, <2>2
<1> QED
  BY <1>2, <1>3, <1>4, <1>1, <1>6 DEF QueueOutlivesUsers

\* A step of thread t that takes or leaves the mutex of queue q.
LEMMA LockStep ==
  ASSUME LockInv, NEW t \in Thread,
         \/ ProduceLock(t) \/ ProduceUnlock(t) \/ ConsumeLock(t) \/ Check(t)
         \/ Reacquire(t) \/ ConsumeUnlock(t)
  PROVE  LockInv'
<1> USE Neighbours DEF LockInv
<1>1. /\ pc' \in [Thread -> Label]
      /\ mutex' \in [Queue -> Thread \cup {Free}]
  BY DEF ProduceLock, ProduceUnlock, ConsumeLock, Check, Reacquire, ConsumeUnlock,
         Goto, Lock, Unlock, Label
<1>2. /\ \A u \in Thread \ {t} : pc'[u] = pc[u]
      /\ {pc[t], pc'[t]} \cap {"unborn", "spawn", "done"} = {}
  BY DEF ProduceLock, ProduceUnlock, ConsumeLock, Check, Reacquire, ConsumeUnlock, Goto
<1>3. pc'[t] \in LabelsOf(t)
  BY DEF ProduceLock, ProduceUnlock, ConsumeLock, Check, Reacquire, ConsumeUnlock, Goto,
         LabelsOf, Common, Consuming, Producing
<1>4. ASSUME NEW u \in Thread PROVE Born(u)'
  BY <1>2, <1>3 DEF Born
<1>5. ASSUME NEW q \in Queue PROVE Guarded(q)'
  <2> USE DEF Exclusive, Guarded, Filling, Draining, Goto, Lock, Unlock
  <2>1. CASE ProduceLock(t)
    BY <2>1 DEF ProduceLock
  <2>2. CASE ProduceUnlock(t)
    BY <2>2 DEF ProduceUnlock
  <2>3. CASE ConsumeLock(t)
    BY <2>3 DEF ConsumeLock
  <2>4. CASE Check(t)
    BY <2>4 DEF Check
  <2>5. CASE Reacquire(t)
    BY <2>5 DEF Reacquire
  <2>6. CASE ConsumeUnlock(t)
    BY <2>6 DEF ConsumeUnlock
  <2> QED
    BY <2>1, <2>2, <2>3, <2>4, <2>5, <2>6
<1>6. QueueOutlivesUsers'
  <2> SUFFICES ASSUME NEW q \in Queue, pc'[q - 1] = "done"
               PROVE  pc'[q] = "done" /\ mutex'[q] = Free
    BY DEF QueueOutlivesUsers
  <2>1. pc[q - 1] = "done" /\ pc[q] = "done" /\ pc'[q] = "done"
    BY <1>2 DEF QueueOutlivesUsers
  <2>2. mutex'[q] = Free
    BY <1>1, <1>5, <2>1 DEF Guarded, Filling, Draining
  <2> QED
    BY <2>1, <2>2
<1> QED
  BY <1>1, <1>4, <1>5, <1>6 DEF Exclusive

LEMMA NextLockInv ==
  ASSUME LockInv, [Next]_vars
  PROVE  LockInv'
<1>1. CASE UNCHANGED vars
  BY <1>1 DEF vars, LockInv, Born, Exclusive, Guarded, Filling, Draining, QueueOutlivesUsers
<1>2. ASSUME NEW t \in Thread, Run(t) \/ SpuriousWake(t) PROVE LockInv'
  <2>1. CASE \/ Spawn(t) \/ (t = 3 /\ (ZeroSum \/ AddToSum)) \/ Iterate(t) \/ LeaveLoop(t)
            \/ Join(t) \/ Push(t) \/ Signal(t) \/ SpuriousWake(t) \/ Take(t)
    BY <2>1, NoLockStep
  <2>2. CASE \/ ProduceLock(t) \/ ProduceUnlock(t) \/ ConsumeLock(t) \/ Check(t)
            \/ Reacquire(t) \/ ConsumeUnlock(t)
    BY <2>2, LockStep
  <2> QED
    BY <1>2, <2>1, <2>2 DEF Run, Produce, Consume
<1> QED
  BY <1>1, <1>2 DEF Next

\* A thread inside produce() or consume() holds the mutex of its queue, also
\* when it is back from a wait that nobody ended by a signal: the two sides of
\* a queue are never in it together.
THEOREM CriticalSectionsExclude == Spec => []Exclusive
<1>1. LockInv => Exclusive
  BY DEF LockInv
<1> QED
  BY <1>1, InitLockInv, NextLockInv, PTL DEF Spec

\* No pc_queue is destroyed while a thread may use it.
THEOREM QueuesOutliveUsers == Spec => []QueueOutlivesUsers
<1>1. LockInv => QueueOutlivesUsers
  BY DEF LockInv
<1> QED
  BY <1>1, InitLockInv, NextLockInv, PTL DEF Spec

-------------------------------------------------------------------------------
(* What of Returns needs no fairness: the pipeline is never stuck, and it has *)
(* only so many steps to make.  Neither needs the wait to be reliable, nor do *)
(* the types and the wakeups.                                                 *)

\* As many elements were pushed as the producer counted, and as many pops made as
\* the consumer counted, whatever was popped.
Counted(q) ==
  /\ Len(pushed[q]) = i[q - 1] + IF Pushing(q - 1) THEN 1 ELSE 0
  /\ popped[q] = i[q] + IF Holding(q) THEN 1 ELSE 0

CountInv == /\ LockInv
            /\ TypeOK
            /\ \A t \in Thread : Lives(t)
            /\ \A q \in Queue : Counted(q)
            /\ NoLostWakeup
            /\ pc[0] # "unborn"

LEMMA InitCountInv == Init => CountInv
<1> SUFFICES ASSUME Init PROVE CountInv
  OBVIOUS
<1>1. IInv /\ LockInv
  BY InitIInv, InitLockInv
<1>2. ASSUME NEW q \in Queue PROVE Counted(q)
  BY <1>1 DEF IInv, Fifo, Counted
<1>3. NoLostWakeup /\ pc[0] # "unborn"
  BY Neighbours DEF Init, NoLostWakeup
<1> QED
  BY <1>1, <1>2, <1>3 DEF IInv, CountInv

\* What a stage takes is a value, even from a slot nobody wrote.
LEMMA StepKeepsTypes ==
  ASSUME CountInv, NEW t \in Thread, Run(t) \/ SpuriousWake(t)
  PROVE  TypeOK'
<1> USE Neighbours DEF CountInv
<1>1. pc' \in [Thread -> Label] /\ mutex' \in [Queue -> Thread \cup {Free}]
  <2>1. LockInv'
    BY NextLockInv DEF Next
  <2> QED
    BY <2>1 DEF LockInv
<1>2. i' \in [Thread -> 0 .. N]
  <2>1. CASE i' = i
    BY <2>1 DEF TypeOK
  <2>2. CASE i' = [i EXCEPT ![t] = i[t] + 1] /\ pc[t] \in {"pushed", "add"}
    <3>1. i[t] < N /\ i[t] \in 0 .. N
      BY <2>2 DEF Lives, TypeOK
    <3>2. i[t] + 1 \in 0 .. N
      BY <3>1, NAssumption
    <3> QED
      BY <2>2, <3>2 DEF TypeOK
  <2> QED
    BY <2>1, <2>2 DEF Run, Spawn, Iterate, LeaveLoop, Join, Produce, ProduceLock, Push, Signal,
       ProduceUnlock, Consume, ConsumeLock, Check, Reacquire, Take, ConsumeUnlock, ZeroSum,
       AddToSum, SpuriousWake
<1>3. el' \in [Thread -> Value] /\ popped' \in [Queue -> Nat]
  <2>1. CASE el' = el /\ popped' = popped
    BY <2>1 DEF TypeOK
  <2>2. CASE Iterate(t)
    <3>1. popped' = popped /\ (el' = el \/ (t = 0 /\ i[t] < N /\ el' = [el EXCEPT ![t] = i[t]]))
      BY <2>2 DEF Iterate, queues
    <3>2. t = 0 /\ i[t] < N => i[t] \in Value
      BY NAssumption, ValueAssumption DEF TypeOK
    <3>3. el \in [Thread -> Value] /\ popped \in [Queue -> Nat]
      BY DEF TypeOK
    <3> HIDE DEF CountInv
    <3>4. el' \in [Thread -> Value]
      BY <3>1, <3>2, <3>3
    <3> QED
      BY <3>1, <3>3, <3>4
  <2>3. CASE Take(t)
    <3>1. t \in Queue /\ popped' = [popped EXCEPT ![t] = popped[t] + 1]
      BY <2>3 DEF Take
    <3>2. PICK v : /\ el' = [el EXCEPT ![t] = v]
                   /\ v \in Garbage \/ (popped[t] < Len(pushed[t]) /\ v = pushed[t][popped[t] + 1])
      BY <2>3 DEF Take
    <3>3. v \in Value
      <4>1. popped[t] \in Nat /\ pushed[t] \in Seq(Value)
        BY <3>1 DEF TypeOK
      <4> QED
        BY <3>2, <4>1, GarbageAssumption
    <3>4. el \in [Thread -> Value] /\ popped \in [Queue -> Nat]
      BY DEF TypeOK
    <3> HIDE DEF CountInv
    <3>5. el' \in [Thread -> Value]
      BY <3>2, <3>3, <3>4
    <3>6. popped[t] + 1 \in Nat
      BY <3>1, <3>4
    <3>7. popped' \in [Queue -> Nat]
      BY <3>1, <3>4, <3>6
    <3> QED
      BY <3>5, <3>7
  <2> QED
    BY <2>1, <2>2, <2>3 DEF Run, Spawn, LeaveLoop, Join, Produce, ProduceLock, Push, Signal,
       ProduceUnlock, Consume, ConsumeLock, Check, Reacquire, ConsumeUnlock, ZeroSum,
       AddToSum, SpuriousWake, queues
<1>4. pushed' \in [Queue -> Seq(Value)]
  <2>1. CASE pushed' = pushed
    BY <2>1 DEF TypeOK
  <2>2. CASE Push(t)
    <3>1. t + 1 \in Queue /\ pushed' = [pushed EXCEPT ![t + 1] = Append(pushed[t + 1], f[el[t]])]
      BY <2>2 DEF Push
    <3>2. f[el[t]] \in Value
      BY FAssumption DEF TypeOK
    <3>3. Append(pushed[t + 1], f[el[t]]) \in Seq(Value)
      BY <3>1, <3>2 DEF TypeOK
    <3> QED
      BY <3>1, <3>3 DEF TypeOK
  <2> QED
    BY <2>1, <2>2 DEF Run, Spawn, Iterate, LeaveLoop, Join, Produce, ProduceLock, Signal,
       ProduceUnlock, Consume, ConsumeLock, Check, Reacquire, Take, ConsumeUnlock, ZeroSum,
       AddToSum, SpuriousWake, queues
<1>5. sum' \in Int /\ ret' \in Seq(Int)
  <2>1. CASE sum' = sum /\ (ret' = ret \/ ret' = <<sum>>)
    <3>1. sum \in Int /\ ret \in Seq(Int)
      BY DEF TypeOK
    <3> HIDE DEF CountInv
    <3>2. <<sum>> \in Seq(Int)
      BY <3>1
    <3> QED
      BY <2>1, <3>1, <3>2
  <2>2. CASE ret' = ret /\ (sum' = 0 \/ sum' = sum + f[el[3]])
    <3>1. sum \in Int /\ ret \in Seq(Int) /\ el[3] \in Value
      BY DEF TypeOK, Thread
    <3>2. f[el[3]] \in Int
      BY <3>1, FAssumption, ValueAssumption
    <3> HIDE DEF CountInv
    <3> QED
      BY <2>2, <3>1, <3>2
  <2> QED
    BY <2>1, <2>2 DEF Run, Spawn, Iterate, LeaveLoop, Join, Produce, ProduceLock, Push, Signal,
       ProduceUnlock, Consume, ConsumeLock, Check, Reacquire, Take, ConsumeUnlock, ZeroSum,
       AddToSum, SpuriousWake
<1> QED
  BY <1>1, <1>2, <1>3, <1>4, <1>5 DEF TypeOK

\* What a step of thread t does to the counters: only at the end of a round does
\* it count, only Push pushes and only Take pops, and it moves along in its
\* function.
LEMMA StepCounts ==
  ASSUME CountInv, NEW t \in Thread, Run(t) \/ SpuriousWake(t)
  PROVE  /\ \A u \in Thread \ {t} : i'[u] = i[u]
         /\ i'[t] = IF pc[t] \in {"pushed", "add"} THEN i[t] + 1 ELSE i[t]
         /\ \A q \in Queue : Len(pushed'[q]) =
              IF q = t + 1 /\ pc[t] = "push" THEN Len(pushed[q]) + 1 ELSE Len(pushed[q])
         /\ \A q \in Queue : popped'[q] =
              IF q = t /\ pc[t] = "take" THEN popped[q] + 1 ELSE popped[q]
<1> USE Neighbours DEF CountInv
<1>1. CASE \/ Spawn(t) \/ (t = 3 /\ ZeroSum) \/ Iterate(t) \/ LeaveLoop(t) \/ Join(t)
           \/ ProduceLock(t) \/ Signal(t) \/ ConsumeLock(t) \/ Check(t) \/ Reacquire(t)
           \/ ConsumeUnlock(t) \/ SpuriousWake(t)
  <2>1. i' = i /\ pushed' = pushed /\ popped' = popped
    BY <1>1 DEF Spawn, ZeroSum, Iterate, LeaveLoop, Join, ProduceLock, Signal, ConsumeLock, Check,
       Reacquire, ConsumeUnlock, SpuriousWake, queues
  <2>2. pc[t] \notin {"pushed", "add", "push", "take"}
    BY <1>1 DEF Spawn, ZeroSum, Iterate, LeaveLoop, Join, ProduceLock, Signal, ConsumeLock, Check,
       Reacquire, ConsumeUnlock, SpuriousWake
  <2> QED
    BY <2>1, <2>2
<1>2. CASE ProduceUnlock(t) \/ (t = 3 /\ AddToSum)
  <2>1. i' = [i EXCEPT ![t] = i[t] + 1] /\ pushed' = pushed /\ popped' = popped
        /\ pc[t] \in {"pushed", "add"}
    BY <1>2 DEF ProduceUnlock, AddToSum, queues
  <2> QED
    BY <2>1 DEF TypeOK
<1>3. CASE Push(t)
  <2>1. /\ t + 1 \in Queue /\ pc[t] = "push" /\ i' = i /\ popped' = popped
        /\ pushed' = [pushed EXCEPT ![t + 1] = Append(pushed[t + 1], f[el[t]])]
    BY <1>3 DEF Push
  <2>2. pushed[t + 1] \in Seq(Value) /\ f[el[t]] \in Value
    BY <2>1, FAssumption DEF TypeOK
  <2>3. Len(Append(pushed[t + 1], f[el[t]])) = Len(pushed[t + 1]) + 1
    BY <2>2
  <2>4. ASSUME NEW q \in Queue
        PROVE  pushed'[q] = IF q = t + 1 THEN Append(pushed[t + 1], f[el[t]]) ELSE pushed[q]
    BY <2>1 DEF TypeOK
  <2>5. ASSUME NEW q \in Queue
        PROVE  Len(pushed'[q]) = IF q = t + 1 THEN Len(pushed[q]) + 1 ELSE Len(pushed[q])
    <3>1. CASE q = t + 1
      BY <2>3, <2>4, <3>1
    <3>2. CASE q # t + 1
      BY <2>4, <3>2
    <3> QED
      BY <3>1, <3>2
  <2> QED
    BY <2>1, <2>5
<1>4. CASE Take(t)
  <2>1. /\ t \in Queue /\ pc[t] = "take" /\ i' = i /\ pushed' = pushed
        /\ popped' = [popped EXCEPT ![t] = popped[t] + 1]
    BY <1>4 DEF Take
  <2> QED
    BY <2>1 DEF TypeOK
<1> QED
  BY <1>1, <1>2, <1>3, <1>4 DEF Run, Produce, Consume

\* The way of a thread through its function, and what it does to the thread it
\* creates or wakes.
Moves(t) ==
  \/ pc[t] \in {"spawn", "zero"} /\ pc'[t] = "loop"
  \/ pc[t] = "loop" /\ pc'[t] \in {"produce", "consume", "join", "done"}
  \/ pc[t] = "produce" /\ pc'[t] = "push"
  \/ pc[t] = "push" /\ pc'[t] = "signal"
  \/ pc[t] = "signal" /\ pc'[t] = "pushed"
  \/ pc[t] \in {"pushed", "add"} /\ pc'[t] = "loop"
  \/ pc[t] = "consume" /\ pc'[t] = "check"
  \/ pc[t] = "check" /\ pc'[t] \in {"asleep", "take"}
  \/ pc[t] = "asleep" /\ pc'[t] = "woken"
  \/ pc[t] = "woken" /\ pc'[t] = "take"
  \/ pc[t] = "take" /\ pc'[t] = "taken"
  \/ pc[t] = "taken" /\ pc'[t] \in {"add", "produce"}
  \/ pc[t] = "join" /\ pc'[t] = "done"

LEMMA StepMoves ==
  ASSUME CountInv, NEW t \in Thread, Run(t) \/ SpuriousWake(t)
  PROVE  /\ Moves(t)
         /\ \A u \in Thread \ {t} :
              \/ pc'[u] = pc[u]
              \/ u = t + 1 /\ pc[u] = "unborn" /\ pc'[u] \in {"spawn", "zero"}
              \/ u = t + 1 /\ pc[t] = "signal" /\ pc[u] = "asleep" /\ pc'[u] = "woken"
<1> USE Neighbours DEF CountInv
<1>1. pc \in [Thread -> Label]
  BY DEF LockInv
<1>2. CASE Spawn(t)
  <2>1. t # 3 /\ pc[t] = "spawn" /\ t + 1 \in Thread /\ pc[t + 1] = "unborn"
    BY <1>2 DEF Spawn, LockInv, Born
  <2>2. pc' = [pc EXCEPT ![t] = "loop", ![t + 1] = IF t = 2 THEN "zero" ELSE "spawn"]
    BY <1>2 DEF Spawn
  <2>3. pc'[t] = "loop" /\ pc'[t + 1] \in {"spawn", "zero"}
        /\ \A u \in Thread \ {t, t + 1} : pc'[u] = pc[u]
    BY <1>1, <2>1, <2>2
  <2> QED
    BY <2>1, <2>3 DEF Moves
<1>3. CASE Signal(t)
  <2>1. t # 3 /\ pc[t] = "signal" /\ t + 1 \in Thread
    BY <1>3 DEF Signal
  <2>2. pc' = [pc EXCEPT ![t] = "pushed",
                         ![t + 1] = IF pc[t + 1] = "asleep" THEN "woken" ELSE pc[t + 1]]
    BY <1>3 DEF Signal
  <2>3. /\ pc'[t] = "pushed"
        /\ pc'[t + 1] = IF pc[t + 1] = "asleep" THEN "woken" ELSE pc[t + 1]
        /\ \A u \in Thread \ {t, t + 1} : pc'[u] = pc[u]
    BY <1>1, <2>1, <2>2
  <2> QED
    BY <2>1, <2>3 DEF Moves
<1>4. ASSUME NEW there, Goto(t, there)
      PROVE  pc'[t] = there /\ \A u \in Thread \ {t} : pc'[u] = pc[u]
  BY <1>1, <1>4 DEF Goto
<1>5. CASE \/ (t = 3 /\ (ZeroSum \/ AddToSum)) \/ Iterate(t) \/ LeaveLoop(t) \/ Join(t)
           \/ ProduceLock(t) \/ Push(t) \/ ProduceUnlock(t)
  BY <1>4, <1>5 DEF ZeroSum, AddToSum, Iterate, LeaveLoop, Join, ProduceLock, Push,
     ProduceUnlock, Moves
<1>6. CASE \/ ConsumeLock(t) \/ Check(t) \/ Reacquire(t) \/ Take(t) \/ ConsumeUnlock(t)
           \/ SpuriousWake(t)
  BY <1>4, <1>6 DEF ConsumeLock, Check, Reacquire, Take, ConsumeUnlock, SpuriousWake, Moves
<1> QED
  BY <1>2, <1>3, <1>5, <1>6 DEF Run, Produce, Consume

\* A thread leaves its loop, or goes on, as its counter says.
LEMMA StepKeepsLives ==
  ASSUME CountInv, NEW t \in Thread, Run(t) \/ SpuriousWake(t), NEW u \in Thread
  PROVE  Lives(u)'
<1> USE Neighbours
<1>1. Lives(u) /\ Lives(t) /\ i[u] \in 0 .. N /\ i[t] \in 0 .. N /\ N \in Nat
  BY NAssumption DEF CountInv, TypeOK
<1>2. Born(u)'
  BY NextLockInv DEF CountInv, Next, LockInv
<1>3. CASE u # t
  <2>1. /\ i'[u] = i[u]
        /\ \/ pc'[u] = pc[u]
           \/ pc[u] = "unborn" /\ pc'[u] \in {"spawn", "zero"}
           \/ pc[u] = "asleep" /\ pc'[u] = "woken"
    BY <1>3, StepCounts, StepMoves
  <2> QED
    BY <1>1, <1>2, <2>1 DEF Lives
<1>4. CASE u = t
  <2>1. Moves(t) /\ i'[t] = IF pc[t] \in {"pushed", "add"} THEN i[t] + 1 ELSE i[t]
    BY StepCounts, StepMoves
  <2>2. pc[t] = "loop" => IF i[t] < N THEN pc'[t] \in {"produce", "consume"}
                                      ELSE i[t] = N /\ pc'[t] \in {"join", "done"}
    <3>1. SUFFICES ASSUME pc[t] = "loop"
                   PROVE  IF i[t] < N THEN pc'[t] \in {"produce", "consume"}
                                      ELSE i[t] = N /\ pc'[t] \in {"join", "done"}
      OBVIOUS
    <3>2. pc \in [Thread -> Label]
      BY DEF CountInv, LockInv
    <3>3. Iterate(t) \/ LeaveLoop(t)
      BY <3>1 DEF Run, Spawn, Join, Produce, ProduceLock, Push, Signal, ProduceUnlock, Consume,
         ConsumeLock, Check, Reacquire, Take, ConsumeUnlock, ZeroSum, AddToSum, SpuriousWake
    <3>4. \/ i[t] < N /\ pc'[t] \in {"produce", "consume"}
          \/ i[t] >= N /\ pc'[t] \in {"join", "done"}
      BY <3>2, <3>3 DEF Iterate, LeaveLoop, Goto
    <3> QED
      BY <1>1, <3>4
  <2> QED
    BY <1>1, <1>2, <1>4, <2>1, <2>2 DEF Lives, Moves
<1> QED
  BY <1>3, <1>4

\* Lengths follow counters.
LEMMA StepKeepsCounted ==
  ASSUME CountInv, NEW t \in Thread, Run(t) \/ SpuriousWake(t), NEW q \in Queue
  PROVE  Counted(q)'
<1> USE Neighbours
<1>1. /\ Counted(q) /\ q \in Thread /\ q - 1 \in Thread /\ i[q] \in Int /\ i[q - 1] \in Int
      /\ Len(pushed[q]) \in Int /\ popped[q] \in Int
  BY NAssumption DEF CountInv, TypeOK
<1>2. Len(pushed'[q]) = i'[q - 1] + IF Pushing(q - 1)' THEN 1 ELSE 0
  <2>1. CASE t = q - 1
    <3>1. /\ Moves(t) /\ i'[t] = (IF pc[t] \in {"pushed", "add"} THEN i[t] + 1 ELSE i[t])
          /\ Len(pushed'[q]) = IF pc[t] = "push" THEN Len(pushed[q]) + 1 ELSE Len(pushed[q])
      BY <2>1, StepCounts, StepMoves
    <3>2. pc[t] # "add"
      BY <2>1 DEF CountInv, Lives, Born, LabelsOf, Common, Consuming, Producing
    <3>3. /\ pc[t] = "push" => pc'[t] = "signal"
          /\ pc[t] = "signal" => pc'[t] = "pushed"
          /\ pc[t] = "pushed" => pc'[t] = "loop"
          /\ pc[t] \notin {"push", "signal", "pushed"} => pc'[t] \notin {"signal", "pushed"}
      BY <3>1 DEF Moves
    <3>4. Len(pushed[q]) = i[t] + IF pc[t] \in {"signal", "pushed"} THEN 1 ELSE 0
      BY <1>1, <2>1 DEF Counted, Pushing
    <3>5. Len(pushed'[q]) = i'[t] + IF pc'[t] \in {"signal", "pushed"} THEN 1 ELSE 0
      BY <1>1, <2>1, <3>1, <3>2, <3>3, <3>4
    <3> QED
      BY <2>1, <3>5 DEF Pushing
  <2>2. CASE t # q - 1
    <3>1. i'[q - 1] = i[q - 1] /\ Len(pushed'[q]) = Len(pushed[q])
      BY <2>2, StepCounts
    <3>2. Pushing(q - 1)' <=> Pushing(q - 1)
      <4>1. \/ pc'[q - 1] = pc[q - 1]
            \/ pc[q - 1] = "unborn" /\ pc'[q - 1] \in {"spawn", "zero"}
            \/ pc[q - 1] = "asleep" /\ pc'[q - 1] = "woken"
        BY <1>1, <2>2, StepMoves
      <4> QED
        BY <4>1 DEF Pushing
    <3> QED
      BY <1>1, <3>1, <3>2 DEF Counted
  <2> QED
    BY <2>1, <2>2
<1>3. popped'[q] = i'[q] + IF Holding(q)' THEN 1 ELSE 0
  <2>1. CASE t = q
    <3>1. /\ Moves(t) /\ i'[t] = (IF pc[t] \in {"pushed", "add"} THEN i[t] + 1 ELSE i[t])
          /\ popped'[q] = IF pc[t] = "take" THEN popped[q] + 1 ELSE popped[q]
      BY <2>1, StepCounts, StepMoves
    <3>2. pc[t] = "loop" => pc'[t] # "produce"
      <4>1. pc \in [Thread -> Label] /\ t # 0
        BY <2>1 DEF CountInv, LockInv
      <4> SUFFICES ASSUME pc[t] = "loop" PROVE pc'[t] # "produce"
        OBVIOUS
      <4>2. Iterate(t) \/ LeaveLoop(t)
        BY DEF Run, Spawn, Join, Produce, ProduceLock, Push, Signal, ProduceUnlock, Consume,
           ConsumeLock, Check, Reacquire, Take, ConsumeUnlock, ZeroSum, AddToSum, SpuriousWake
      <4> QED
        BY <4>1, <4>2 DEF Iterate, LeaveLoop, Goto
    <3> QED
      BY <1>1, <2>1, <3>1, <3>2 DEF Counted, Holding, Moves
  <2>2. CASE t # q
    <3>1. i'[q] = i[q] /\ popped'[q] = popped[q]
      BY <1>1, <2>2, StepCounts
    <3>2. Holding(q)' <=> Holding(q)
      <4>1. \/ pc'[q] = pc[q]
            \/ pc[q] = "unborn" /\ pc'[q] \in {"spawn", "zero"}
            \/ pc[q] = "asleep" /\ pc'[q] = "woken"
        BY <1>1, <2>2, StepMoves
      <4> QED
        BY <4>1 DEF Holding
    <3> QED
      BY <1>1, <3>1, <3>2 DEF Counted
  <2> QED
    BY <2>1, <2>2
<1> QED
  BY <1>2, <1>3 DEF Counted

\* A consumer goes to sleep with its queue empty, and only a push, which a signal
\* follows, fills it.
LEMMA StepKeepsWakeups ==
  ASSUME CountInv, NEW t \in Thread, Run(t) \/ SpuriousWake(t)
  PROVE  NoLostWakeup'
<1> USE Neighbours
<1> SUFFICES ASSUME NEW q \in Queue, pc'[q] = "asleep"
             PROVE  Empty(q)' \/ pc'[q - 1] = "signal"
  BY DEF NoLostWakeup, Thread, Queue
<1>1. pc \in [Thread -> Label] /\ q \in Thread /\ q - 1 \in Thread
  BY DEF CountInv, LockInv
<1>2. CASE pc[q] = "asleep"
  <2>1. Empty(q) \/ pc[q - 1] = "signal"
    BY <1>1, <1>2 DEF CountInv, NoLostWakeup
  <2>2. popped'[q] = popped[q]
    BY <1>2, StepCounts
  <2>3. CASE t = q - 1
    <3>1. /\ Moves(t)
          /\ Len(pushed'[q]) = IF pc[t] = "push" THEN Len(pushed[q]) + 1 ELSE Len(pushed[q])
      BY <2>3, StepCounts, StepMoves
    <3>2. pc[t] # "signal"
      <4>1. ASSUME Signal(t) PROVE FALSE
        BY <1>1, <1>2, <2>3, <4>1 DEF Signal
      <4> QED
        BY <4>1 DEF Run, Spawn, Iterate, LeaveLoop, Join, Produce, ProduceLock, Push, ProduceUnlock,
           Consume, ConsumeLock, Check, Reacquire, Take, ConsumeUnlock, ZeroSum, AddToSum,
           SpuriousWake
    <3> QED
      BY <2>1, <2>2, <2>3, <3>1, <3>2 DEF Empty, Moves
  <2>4. CASE t # q - 1
    <3>1. Len(pushed'[q]) = Len(pushed[q])
      BY <2>4, StepCounts
    <3>2. pc[q - 1] = "signal" => pc'[q - 1] = "signal"
      BY <1>1, <2>4, StepMoves
    <3> QED
      BY <2>1, <2>2, <3>1, <3>2 DEF Empty
  <2> QED
    BY <2>3, <2>4
<1>3. CASE pc[q] # "asleep"
  <2>1. Check(t) /\ t = q /\ Empty(q)
    <3>1. t = q
      BY <1>1, <1>3, StepMoves
    <3>2. pc[q] = "check"
      BY <1>3, <3>1, StepMoves DEF Moves
    <3>3. Check(t)
      BY <3>1, <3>2 DEF Run, Spawn, Iterate, LeaveLoop, Join, Produce, ProduceLock, Push, Signal,
         ProduceUnlock, Consume, ConsumeLock, Reacquire, Take, ConsumeUnlock, ZeroSum, AddToSum,
         SpuriousWake
    <3> QED
      BY <1>1, <3>1, <3>3 DEF Check, Goto
  <2> QED
    BY <2>1 DEF Check, queues, Empty
<1> QED
  BY <1>2, <1>3

LEMMA NextCountInv ==
  ASSUME CountInv, [Next]_vars
  PROVE  CountInv'
<1>1. LockInv'
  BY NextLockInv DEF CountInv
<1>2. CASE UNCHANGED vars
  BY <1>1, <1>2 DEF vars, CountInv, TypeOK, Lives, Born, LabelsOf, Counted, Pushing, Holding,
     NoLostWakeup, Empty
<1>3. ASSUME NEW t \in Thread, Run(t) \/ SpuriousWake(t) PROVE CountInv'
  <2>1. TypeOK' /\ NoLostWakeup'
    BY <1>3, StepKeepsTypes, StepKeepsWakeups
  <2>2. \A u \in Thread : Lives(u)'
    BY <1>3, StepKeepsLives
  <2>3. \A q \in Queue : Counted(q)'
    BY <1>3, StepKeepsCounted
  <2>4. pc'[0] # "unborn"
    BY <1>3, StepMoves, Neighbours DEF CountInv, Moves
  <2> QED
    BY <1>1, <2>1, <2>2, <2>3, <2>4 DEF CountInv
<1> QED
  BY <1>2, <1>3 DEF Next

\* Whatever wakes a consumer, the types are kept.
THEOREM TypeCorrect == Spec => []TypeOK
<1>1. CountInv => TypeOK
  BY DEF CountInv
<1> QED
  BY <1>1, InitCountInv, NextCountInv, PTL DEF Spec

\* A consumer never sleeps on data whose signal is past.
THEOREM SignalNotLost == Spec => []NoLostWakeup
<1>1. CountInv => NoLostWakeup
  BY DEF CountInv
<1> QED
  BY <1>1, InitCountInv, NextCountInv, PTL DEF Spec

\* Thread t has no step of its own to take: it does not run yet or no more, its
\* mutex is taken, it waits for a signal or for the thread it joins.
Waits(t) ==
  \/ pc[t] \in {"unborn", "asleep", "done"}
  \/ pc[t] = "produce" /\ mutex[t + 1] # Free
  \/ pc[t] \in {"consume", "woken"} /\ mutex[t] # Free
  \/ pc[t] = "join" /\ pc[t + 1] # "done"

\* Until parallel_sum returns, some thread does not wait for another one.
NeverStuck == pc[0] = "done" \/ \E t \in Thread : ~Waits(t)

\* A step of its own is what a waiting thread does not take.
LEMMA WaitingIsWaiting == ASSUME NEW t \in Thread, Run(t) PROVE ~Waits(t)
BY Neighbours DEF Waits, Run, Spawn, Iterate, LeaveLoop, Join, Produce, ProduceLock, Push, Signal,
   ProduceUnlock, Consume, ConsumeLock, Check, Reacquire, Take, ConsumeUnlock, ZeroSum, AddToSum,
   Lock

\* Who holds a mutex does not wait, and so, if everybody waits, a thread that
\* has finished its loop waits in vain only for one that has finished it too:
\* no queue has an element left for one asleep, and the last thread joins nobody.
LEMMA SomebodyRuns == CountInv => NeverStuck
<1> SUFFICES ASSUME CountInv, pc[0] # "done", \A t \in Thread : Waits(t) PROVE FALSE
  BY DEF NeverStuck
<1> USE Neighbours
<1>1. ASSUME NEW q \in Queue PROVE mutex[q] = Free
  <2>1. Guarded(q) /\ Waits(q) /\ Waits(q - 1)
    BY DEF CountInv, LockInv, Exclusive
  <2>2. ~Filling(q - 1) /\ ~Draining(q)
    BY <2>1 DEF Waits, Filling, Draining
  <2> QED
    BY <2>1, <2>2 DEF Guarded
<1>2. ASSUME NEW t \in Thread, t # 3, pc[t] = "join" PROVE pc[t + 1] = "join"
  <2>1. /\ t + 1 \in Queue /\ t + 1 \in Thread /\ (t + 1) - 1 = t
        /\ Waits(t) /\ Waits(t + 1) /\ Born(t) /\ Lives(t) /\ Lives(t + 1) /\ Counted(t + 1)
    BY <1>2 DEF CountInv, LockInv, Thread
  <2>2. pc[t + 1] # "done" /\ pc[t + 1] # "unborn"
    BY <1>2, <2>1 DEF Waits, Born
  <2>3. pc[t + 1] \in {"asleep", "join"}
    BY <1>1, <2>1, <2>2 DEF Waits, Lives, Born, LabelsOf, Common, Consuming, Producing
  <2>4. ASSUME pc[t + 1] = "asleep" PROVE FALSE
    <3>1. Empty(t + 1)
      BY <1>2, <2>1, <2>4 DEF CountInv, NoLostWakeup
    <3>2. Len(pushed[t + 1]) = i[t] + 0 /\ popped[t + 1] = i[t + 1] + 0
      BY <1>2, <2>1, <2>4 DEF Counted, Pushing, Holding
    <3>3. i[t] = N /\ i[t + 1] < N
      BY <1>2, <2>1, <2>4 DEF Lives
    <3>4. i[t] \in Int /\ i[t + 1] \in Int /\ N \in Int
      BY <2>1, NAssumption DEF CountInv, TypeOK
    <3> QED
      BY <3>1, <3>2, <3>3, <3>4 DEF Empty
  <2> QED
    BY <2>3, <2>4
<1>3. pc[0] = "join"
  <2>1. Waits(0) /\ Born(0)
    BY DEF CountInv, LockInv
  <2> QED
    BY <1>1, <2>1 DEF CountInv, Waits, Born, LabelsOf, Common, Producing
<1>4. pc[3] = "join"
  <2>1. /\ 0 \in Thread /\ 1 \in Thread /\ 2 \in Thread
        /\ 0 + 1 = 1 /\ 1 + 1 = 2 /\ 2 + 1 = 3
    BY DEF Thread
  <2> QED
    BY <1>2, <1>3, <2>1
<1>5. Born(3)
  BY DEF CountInv, LockInv
<1> QED
  BY <1>4, <1>5 DEF Born, LabelsOf, Common, Consuming

\* The pipeline never deadlocks, for every number of elements, whether or not
\* waits return without a signal: nobody is ever left waiting for a thread that
\* waits in turn (pcqueue.cpp:27-52, 60-167).
THEOREM SomebodyAlwaysRuns == Spec => []NeverStuck
BY SomebodyRuns, InitCountInv, NextCountInv, PTL DEF Spec

\* How far each label is from the end of its function, a round of the loop being
\* 17 labels long at most.
LabelsAfter ==
  [unborn |-> 16, spawn |-> 15, zero |-> 14, loop |-> 13, consume |-> 12, check |-> 11,
   asleep |-> 10, woken |-> 9, take |-> 8, taken |-> 7, add |-> 6, produce |-> 5, push |-> 4,
   signal |-> 3, pushed |-> 2, join |-> 1, done |-> 0]

Left(t) == 17 * (N - i[t]) + LabelsAfter[pc[t]]
StepsLeft == Left(0) + Left(1) + Left(2) + Left(3)

\* The steps a thread has left are a number.
LEMMA LeftIsNat == ASSUME TypeOK, NEW t \in Thread PROVE Left(t) \in Nat
<1>1. i[t] \in 0 .. N /\ pc[t] \in Label
  BY DEF TypeOK
<1>2. LabelsAfter[pc[t]] \in 0 .. 16
  BY <1>1 DEF LabelsAfter, Label
<1> QED
  BY <1>1, <1>2, NAssumption DEF Left

\* A step makes them fewer for its thread and more for no other one.
LEMMA StepIsCounted ==
  ASSUME CountInv, NEW t \in Thread, Run(t) \/ SpuriousWake(t)
  PROVE  /\ Left(t)' < Left(t)
         /\ \A u \in Thread : Left(u) \in Nat /\ Left(u)' \in Nat /\ Left(u)' <= Left(u)
<1>1. CountInv'
  BY NextCountInv DEF Next
<1>2. /\ \A u \in Thread : i[u] \in 0 .. N /\ i'[u] \in 0 .. N
      /\ \A u \in Thread : pc[u] \in Label /\ pc'[u] \in Label
  BY <1>1 DEF CountInv, TypeOK
<1>3. \A l \in Label : LabelsAfter[l] \in 0 .. 16
  BY DEF LabelsAfter, Label
<1>4. Left(t)' < Left(t)
  <2>1. CASE pc[t] \in {"pushed", "add"}
    <3>1. i'[t] = i[t] + 1 /\ pc'[t] = "loop"
      BY <2>1, StepCounts, StepMoves DEF Moves
    <3>2. LabelsAfter["loop"] = 13 /\ LabelsAfter[pc[t]] \in 0 .. 16
      BY <1>2, <1>3 DEF LabelsAfter
    <3> QED
      BY <1>2, <3>1, <3>2, NAssumption DEF Left
  <2>2. CASE pc[t] \notin {"pushed", "add"}
    <3>1. i'[t] = i[t]
      BY <2>2, StepCounts
    <3>2. LabelsAfter[pc'[t]] < LabelsAfter[pc[t]]
      BY <2>2, StepMoves DEF Moves, LabelsAfter
    <3> QED
      BY <1>2, <1>3, <3>1, <3>2, NAssumption DEF Left
  <2> QED
    BY <2>1, <2>2
<1>5. ASSUME NEW u \in Thread, u # t PROVE Left(u)' <= Left(u)
  <2>1. i'[u] = i[u]
    BY <1>5, StepCounts
  <2>2. LabelsAfter[pc'[u]] <= LabelsAfter[pc[u]]
    <3>1. \/ pc'[u] = pc[u]
          \/ pc[u] = "unborn" /\ pc'[u] \in {"spawn", "zero"}
          \/ pc[u] = "asleep" /\ pc'[u] = "woken"
      BY <1>5, StepMoves
    <3>2. LabelsAfter[pc[u]] \in 0 .. 16
      BY <1>2, <1>3
    <3> QED
      BY <3>1, <3>2 DEF LabelsAfter
  <2> QED
    BY <1>2, <1>3, <2>1, <2>2, NAssumption DEF Left
<1>6. \A u \in Thread : Left(u) \in Nat /\ Left(u)' \in Nat
  BY <1>2, <1>3, NAssumption DEF Left
<1> QED
  BY <1>4, <1>5, <1>6

\* Every step leaves fewer steps to make, and their number is never negative: the
\* four threads together make at most as many steps as there are at first, in
\* proportion to the number of elements, whether or not waits return without a
\* signal.  Together with SomebodyAlwaysRuns this is why parallel_sum returns if
\* no thread is kept from running.
THEOREM EveryStepCounts == Spec => [](StepsLeft \in Nat) /\ [][StepsLeft' < StepsLeft]_vars
<1>1. CountInv => StepsLeft \in Nat
  <2> SUFFICES ASSUME CountInv PROVE StepsLeft \in Nat
    OBVIOUS
  <2>1. Left(0) \in Nat /\ Left(1) \in Nat /\ Left(2) \in Nat /\ Left(3) \in Nat
    BY LeftIsNat DEF Thread, CountInv
  <2> QED
    BY <2>1 DEF StepsLeft
<1>2. CountInv /\ [Next]_vars => [StepsLeft' < StepsLeft]_vars
  <2> SUFFICES ASSUME CountInv, Next, vars' # vars PROVE StepsLeft' < StepsLeft
    OBVIOUS
  <2>1. PICK t \in Thread : Run(t) \/ SpuriousWake(t)
    BY DEF Next
  <2>2. \A u \in Thread : Left(u) \in Nat /\ Left(u)' \in Nat /\ Left(u)' <= Left(u)
    BY <2>1, StepIsCounted
  <2>3. Left(t)' < Left(t)
    BY <2>1, StepIsCounted
  <2>4. /\ Left(0) \in Nat /\ Left(0)' \in Nat /\ Left(0)' <= Left(0)
        /\ Left(1) \in Nat /\ Left(1)' \in Nat /\ Left(1)' <= Left(1)
        /\ Left(2) \in Nat /\ Left(2)' \in Nat /\ Left(2)' <= Left(2)
        /\ Left(3) \in Nat /\ Left(3)' \in Nat /\ Left(3)' <= Left(3)
    BY <2>2 DEF Thread
  <2>5. \/ Left(0)' < Left(0) \/ Left(1)' < Left(1) \/ Left(2)' < Left(2) \/ Left(3)' < Left(3)
    BY <2>3 DEF Thread
  <2> QED
    BY <2>4, <2>5 DEF StepsLeft
<1> QED
  BY <1>1, <1>2, InitCountInv, NextCountInv, PTL DEF Spec

===============================================================================
