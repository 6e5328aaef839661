------------------------------ MODULE PcPipeline ------------------------------
(***************************************************************************)
(* The four-thread pipeline of test/pcqueue.cpp: parallel_sum (thread 0)   *)
(* feeds consumer1, consumer1 feeds consumer2, consumer2 feeds consumer3,  *)
(* each through its own unbounded pc_queue guarded by a pthread mutex and  *)
(* a condition variable.  Queue q is filled by thread q-1, which owns it   *)
(* (it is a local variable of that thread), and drained by thread q.       *)
(*                                                                         *)
(* A pc_queue is kept as the history pushed[q] of what was pushed and the  *)
(* number popped[q] of calls of pop(): empty() is "as many pops as         *)
(* pushes", which is what std::deque computes even after a pop() of an     *)
(* empty queue; front() reads a slot nobody wrote in that case and yields  *)
(* any value of Garbage.                                                   *)
(***************************************************************************)
EXTENDS Integers, Sequences

CONSTANTS N,               \* number of elements, the program's argument
          Value,           \* the values of type long the program meets
          f,               \* the pure stage function f(long)
          Garbage,         \* what an unwritten slot of a deque may hold
          SpuriousWakeups  \* may pthread_cond_wait return without a signal?

ASSUME NAssumption == N \in Nat
ASSUME ValueAssumption == Value \subseteq Int /\ {0} \cup 0 .. (N - 1) \subseteq Value
ASSUME FAssumption == f \in [Value -> Value]
ASSUME GarbageAssumption == Garbage \subseteq Value
ASSUME SpuriousAssumption == SpuriousWakeups \in BOOLEAN

Thread == 0 .. 3     \* parallel_sum, consumer1, consumer2, consumer3
Queue  == 1 .. 3
Free   == -1         \* an unlocked mutex

VARIABLES pc,      \* where each thread is
          i,       \* the loop counter of each thread
          el,      \* the value each thread is about to apply f to
          pushed,  \* everything ever pushed on each queue, in order
          popped,  \* how many times each queue was popped
          mutex,   \* which thread holds the mutex of each queue
          sum,     \* the variable sum of parallel_sum, shared by reference
          ret      \* <<>>, then <<what parallel_sum returned>>

vars == <<pc, i, el, pushed, popped, mutex, sum, ret>>
queues == <<pushed, popped>>

Empty(q) == popped[q] = Len(pushed[q])

Goto(t, there) == pc' = [pc EXCEPT ![t] = there]
Lock(q, t) == mutex[q] = Free /\ mutex' = [mutex EXCEPT ![q] = t]
Unlock(q)  == mutex' = [mutex EXCEPT ![q] = Free]

\* sum is an uninitialised local until consumer3 zeroes it.
Init == /\ pc = [t \in Thread |-> IF t = 0 THEN "spawn" ELSE "unborn"]
        /\ i = [t \in Thread |-> 0]
        /\ el = [t \in Thread |-> 0]
        /\ pushed = [q \in Queue |-> <<>>]
        /\ popped = [q \in Queue |-> 0]
        /\ mutex = [q \in Queue |-> Free]
        /\ sum \in Garbage \cup {0}
        /\ ret = <<>>

-------------------------------------------------------------------------------
(* The thread functions: pthread_create, the loop test, pthread_join.       *)

Spawn(t) == /\ t # 3
            /\ pc[t] = "spawn"
            /\ pc' = [pc EXCEPT ![t] = "loop",
                                ![t + 1] = IF t = 2 THEN "zero" ELSE "spawn"]
            /\ UNCHANGED <<i, el, queues, mutex, sum, ret>>

ZeroSum == /\ pc[3] = "zero"
           /\ sum' = 0
           /\ Goto(3, "loop")
           /\ UNCHANGED <<i, el, queues, mutex, ret>>

\* Mutant: an off-by-one loop test, i <= N.
IterateOnceMore(t) == /\ pc[t] = "loop"
                      /\ i[t] <= N
                      /\ IF t = 0
                           THEN Goto(t, "produce") /\ el' = [el EXCEPT ![t] = i[t]]
                           ELSE Goto(t, "consume") /\ UNCHANGED el
                      /\ UNCHANGED <<i, queues, mutex, sum, ret>>

Iterate(t) == /\ pc[t] = "loop"
              /\ i[t] < N
              /\ IF t = 0
                   THEN Goto(t, "produce") /\ el' = [el EXCEPT ![t] = i[t]]
                   ELSE Goto(t, "consume") /\ UNCHANGED el
              /\ UNCHANGED <<i, queues, mutex, sum, ret>>

LeaveLoop(t) == /\ pc[t] = "loop"
                /\ i[t] >= N
                /\ Goto(t, IF t = 3 THEN "done" ELSE "join")
                /\ UNCHANGED <<i, el, queues, mutex, sum, ret>>

AddToSum == /\ pc[3] = "add"
            /\ sum' = sum + f[el[3]]
            /\ i' = [i EXCEPT ![3] = @ + 1]
            /\ Goto(3, "loop")
            /\ UNCHANGED <<el, queues, mutex, ret>>

\* Mutant: the thread detaches its child instead of joining it.
JoinNobody(t) == /\ t # 3
                 /\ pc[t] = "join"
                 /\ Goto(t, "done")
                 /\ ret' = IF t = 0 THEN <<sum>> ELSE ret
                 /\ UNCHANGED <<i, el, queues, mutex, sum>>

Join(t) == /\ t # 3
           /\ pc[t] = "join"
           /\ pc[t + 1] = "done"
           /\ Goto(t, "done")
           /\ ret' = IF t = 0 THEN <<sum>> ELSE ret
           /\ UNCHANGED <<i, el, queues, mutex, sum>>

-------------------------------------------------------------------------------
(* pc_queue::produce(f(el)) by thread t on queue t+1.                       *)

ProduceLock(t) == /\ t # 3
                  /\ pc[t] = "produce"
                  /\ Lock(t + 1, t)
                  /\ Goto(t, "push")
                  /\ UNCHANGED <<i, el, queues, sum, ret>>

\* Mutant: the queue is a stack.
PushFront(t) == /\ t # 3
                /\ pc[t] = "push"
                /\ pushed' = [pushed EXCEPT ![t + 1] =
                                SubSeq(@, 1, popped[t + 1]) \o <<f[el[t]]>>
                                  \o SubSeq(@, popped[t + 1] + 1, Len(@))]
                /\ Goto(t, "signal")
                /\ UNCHANGED <<i, el, popped, mutex, sum, ret>>

Push(t) == /\ t # 3
           /\ pc[t] = "push"
           /\ pushed' = [pushed EXCEPT ![t + 1] = Append(@, f[el[t]])]
           /\ Goto(t, "signal")
           /\ UNCHANGED <<i, el, popped, mutex, sum, ret>>

\* Mutant: produce() forgets the signal.
SignalNobody(t) == /\ t # 3
                   /\ pc[t] = "signal"
                   /\ Goto(t, "pushed")
                   /\ UNCHANGED <<i, el, queues, mutex, sum, ret>>

\* pthread_cond_signal: wakes the consumer if it sleeps, else does nothing.
Signal(t) == /\ t # 3
             /\ pc[t] = "signal"
             /\ pc' = [pc EXCEPT ![t] = "pushed",
                                 ![t + 1] = IF @ = "asleep" THEN "woken" ELSE @]
             /\ UNCHANGED <<i, el, queues, mutex, sum, ret>>

ProduceUnlock(t) == /\ t # 3
                    /\ pc[t] = "pushed"
                    /\ Unlock(t + 1)
                    /\ i' = [i EXCEPT ![t] = @ + 1]
                    /\ Goto(t, "loop")
                    /\ UNCHANGED <<el, queues, sum, ret>>

-------------------------------------------------------------------------------
(* el = pc_queue::consume() by thread t on queue t.                         *)

ConsumeLock(t) == /\ t # 0
                  /\ pc[t] = "consume"
                  /\ Lock(t, t)
                  /\ Goto(t, "check")
                  /\ UNCHANGED <<i, el, queues, sum, ret>>

\* Mutant: consume() does not wait at all.
CheckNothing(t) == /\ t # 0
                   /\ pc[t] = "check"
                   /\ Goto(t, "take")
                   /\ UNCHANGED <<i, el, queues, mutex, sum, ret>>

\* Mutant: consume() waits for data in a loop, without letting the mutex go.
CheckBusily(t) == /\ t # 0
                  /\ pc[t] = "check"
                  /\ Goto(t, IF Empty(t) THEN "check" ELSE "take")
                  /\ UNCHANGED <<i, el, queues, mutex, sum, ret>>

\* "if (data.empty()) pthread_cond_wait": the test is made once, not in a loop.
Check(t) == /\ t # 0
            /\ pc[t] = "check"
            /\ IF Empty(t) THEN Goto(t, "asleep") /\ Unlock(t)
                           ELSE Goto(t, "take") /\ UNCHANGED mutex
            /\ UNCHANGED <<i, el, queues, sum, ret>>

SpuriousWake(t) == /\ SpuriousWakeups
                   /\ pc[t] = "asleep"
                   /\ Goto(t, "woken")
                   /\ UNCHANGED <<i, el, queues, mutex, sum, ret>>

\* Mutant: the wait does not take the mutex back.
ReturnUnlocked(t) == /\ t # 0
                     /\ pc[t] = "woken"
                     /\ Goto(t, "take")
                     /\ UNCHANGED <<i, el, queues, mutex, sum, ret>>

\* pthread_cond_wait returns with the mutex held again.
Reacquire(t) == /\ t # 0
                /\ pc[t] = "woken"
                /\ Lock(t, t)
                /\ Goto(t, "take")
                /\ UNCHANGED <<i, el, queues, sum, ret>>

\* front() and pop(), whatever the queue holds by now.
Take(t) == /\ t # 0
           /\ pc[t] = "take"
           /\ IF popped[t] < Len(pushed[t])
                THEN el' = [el EXCEPT ![t] = pushed[t][popped[t] + 1]]
                ELSE \E g \in Garbage : el' = [el EXCEPT ![t] = g]
           /\ popped' = [popped EXCEPT ![t] = @ + 1]
           /\ Goto(t, "taken")
           /\ UNCHANGED <<i, pushed, mutex, sum, ret>>

ConsumeUnlock(t) == /\ t # 0
                    /\ pc[t] = "taken"
                    /\ Unlock(t)
                    /\ Goto(t, IF t = 3 THEN "add" ELSE "produce")
                    /\ UNCHANGED <<i, el, queues, sum, ret>>

-------------------------------------------------------------------------------

Produce(t) == ProduceLock(t) \/ Push(t) \/ Signal(t) \/ ProduceUnlock(t)

Consume(t) == \/ ConsumeLock(t) \/ Check(t) \/ Reacquire(t)
              \/ Take(t) \/ ConsumeUnlock(t)

Run(t) == \/ Spawn(t) \/ Iterate(t) \/ LeaveLoop(t) \/ Join(t)
          \/ Produce(t) \/ Consume(t)
          \/ t = 3 /\ (ZeroSum \/ AddToSum)

Terminated == \A t \in Thread : pc[t] = "done"

Next == \/ \E t \in Thread : Run(t) \/ SpuriousWake(t)
        \/ Terminated /\ UNCHANGED vars

\* Every thread that can take a step eventually does (the OS scheduler);
\* a spurious wakeup is never owed to anybody.
Fairness == \A t \in Thread : WF_vars(Run(t))

Spec == Init /\ [][Next]_vars
FairSpec == Spec /\ Fairness

-------------------------------------------------------------------------------
(* Properties.                                                              *)

Label == {"unborn", "spawn", "zero", "loop", "produce", "push", "signal",
          "pushed", "consume", "check", "asleep", "woken", "take", "taken",
          "add", "join", "done"}

\* Every variable has its type; a loop counter never passes N.
TypeOK == /\ pc \in [Thread -> Label]
          /\ i \in [Thread -> 0 .. N]
          /\ el \in [Thread -> Value]
          /\ pushed \in [Queue -> Seq(Value)]
          /\ popped \in [Queue -> Nat]
          /\ mutex \in [Queue -> Thread \cup {Free}]
          /\ sum \in Int
          /\ ret \in Seq(Int)

\* The values stage q - 1 hands to stage q: f applied q times to k - 1.
Stage(q, v) == IF q = 1 THEN f[v] ELSE IF q = 2 THEN f[f[v]] ELSE f[f[f[v]]]

\* The element thread t works on in its round i[t].
Element(t) == IF t = 0 THEN i[0] ELSE Stage(t, i[t])

\* Inside produce() after the push; between a pop and the end of the round;
\* inside the critical section of the queue thread t fills, or drains.
Pushing(t)  == pc[t] \in {"signal", "pushed"}
Holding(t)  == pc[t] \in {"taken", "produce", "push", "signal", "pushed", "add"}
Filling(t)  == pc[t] \in {"push", "signal", "pushed"}
Draining(t) == pc[t] \in {"check", "take", "taken"}

\* Nothing is lost, duplicated or reordered between two stages: the j-th
\* element on queue q is stage q's image of j-1, as many elements are on it as
\* its producer counted, and as many left it as its consumer counted.
Fifo(q) ==
  /\ \A j \in 1 .. Len(pushed[q]) : pushed[q][j] = Stage(q, j - 1)
  /\ Len(pushed[q]) = i[q - 1] + IF Pushing(q - 1) THEN 1 ELSE 0
  /\ popped[q] = i[q] + IF Holding(q) THEN 1 ELSE 0
FifoPipeline == \A q \in Queue : Fifo(q)

\* consume() reaches front() only with data in the queue, although it tests
\* data.empty() with an "if" and does not test again after the wait.
NeverTakesFromEmpty ==
  \A t \in Thread \ {0} : pc[t] \in {"woken", "take"} => ~Empty(t)

\* A consumer asleep in pthread_cond_wait with data in its queue has the
\* signal still coming.
NoLostWakeup ==
  \A t \in Thread \ {0} :
    pc[t] = "asleep" => Empty(t) \/ pc[t - 1] = "signal"

\* The mutex of a queue is held by the thread inside its critical section: its
\* producer and its consumer are never in there together, which includes a
\* consumer that comes back from pthread_cond_wait.
Guarded(q) == /\ mutex[q] \in {Free, q - 1, q}
              /\ (mutex[q] = q - 1) <=> Filling(q - 1)
              /\ (mutex[q] = q) <=> Draining(q)
Exclusive == \A q \in Queue : Guarded(q)

\* The queue is a local variable of its producer: when that thread returns,
\* nobody is inside the queue, holds its mutex or will use it again, so that
\* the destructor never destroys a mutex or condition variable in use.
QueueOutlivesUsers ==
  \A q \in Queue : pc[q - 1] = "done" => pc[q] = "done" /\ mutex[q] = Free

\* parallel_sum computes what sequential_sum computes: consumer3 is the
\* sequential loop (before it zeroes sum the loop has not begun), and the
\* uninitialised sum is never returned.
SeqSum == INSTANCE SequentialSum
            WITH i <- i[3],
                 sum <- IF pc[3] \in {"unborn", "zero"} THEN 0 ELSE sum,
                 ret <- ret
IsSequential == SeqSum!Spec

\* parallel_sum returns.
Returns == <>(pc[0] = "done")

\* The result is that of the sequential loop whenever it has been returned.
\* (The queue's comment "used to ensure thread-safety" promises no less.)
StageOf4(k) == f[f[f[f[k]]]]
SumTo[n \in Nat] == IF n = 0 THEN 0 ELSE SumTo[n - 1] + StageOf4(n - 1)
RightResult == ret # <<>> => ret = <<SumTo[N]>>

-------------------------------------------------------------------------------
(* The inductive invariant: what the properties above need to be preserved   *)
(* by every step when the wait has no spurious wakeups.                      *)

\* The labels each thread's function has.
Common == {"unborn", "loop", "done"}
Consuming == {"consume", "check", "asleep", "woken", "take", "taken"}
Producing == {"spawn", "produce", "push", "signal", "pushed", "join"}
LabelsOf(t) == Common \cup (IF t # 0 THEN Consuming ELSE {})
                      \cup (IF t # 3 THEN Producing ELSE {"zero", "add"})

\* A thread runs its own function, and exists once its parent is past
\* pthread_create.
Born(t) ==
  /\ pc[t] \in LabelsOf(t)
  /\ t # 3 => (pc[t] \in {"unborn", "spawn"} <=> pc[t + 1] = "unborn")

\* It has not counted anything before its loop, and N elements after it.
Lives(t) ==
  /\ Born(t)
  /\ pc[t] \in {"unborn", "spawn", "zero"} => i[t] = 0
  /\ pc[t] \in {"join", "done"} => i[t] = N
  /\ i[t] < N \/ pc[t] \in {"unborn", "spawn", "zero", "loop", "join", "done"}

\* A thread holds the element its counter says it is at.
HoldsElement(t) ==
  /\ t = 0 /\ pc[t] \in {"produce", "push"} => el[t] = Element(t)
  /\ t # 0 /\ pc[t] \in {"taken", "produce", "push", "add"} => el[t] = Element(t)

\* A sleeping consumer's queue is empty until its producer has pushed and not
\* signalled; a woken one's is not.
Wakeup(t) ==
  /\ popped[t] <= Len(pushed[t])
  /\ pc[t] = "asleep" => (Empty(t) <=> pc[t - 1] # "signal")
  /\ pc[t] \in {"woken", "take"} => ~Empty(t)

Quiet == pc[0] # "done" => ret = <<>>

IInv == /\ TypeOK
        /\ \A t \in Thread : Lives(t) /\ HoldsElement(t)
        /\ \A q \in Queue : Guarded(q) /\ Fifo(q) /\ Wakeup(q)
        /\ QueueOutlivesUsers
        /\ Quiet

\* The part of it that spurious wakeups leave alone: who holds which mutex.
LockInv == /\ pc \in [Thread -> Label]
           /\ mutex \in [Queue -> Thread \cup {Free}]
           /\ \A t \in Thread : Born(t)
           /\ Exclusive
           /\ QueueOutlivesUsers
===============================================================================
