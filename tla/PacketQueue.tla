----------------------------- MODULE PacketQueue -----------------------------
(***************************************************************************)
(* The two-thread pipeline of the hand-written DSWP programs               *)
(* (test/nth-prime-dswp.cpp, test/470.lbm/src/lbm-dswp.cpp): the main      *)
(* thread starts a worker, produces the data of its loop one by one, then  *)
(* an end-of-queue packet, and joins; the worker consumes until            *)
(* end_reached().  The queue is pc_queue, a std::queue of packets under a  *)
(* std::mutex with a std::condition_variable.                              *)
(*                                                                         *)
(* The queue is kept as the history sent of the packets pushed and the     *)
(* number popped of calls of pop().  data.empty() compares the two, which  *)
(* is what std::deque does even after a pop() of an empty queue; front()   *)
(* of a slot never written yields anything.                                *)
(***************************************************************************)
EXTENDS Integers, Sequences, SequencesExt

CONSTANTS Datum,            \* the type T of the queue
          Default,          \* T(), the datum of the end-of-queue packet
          Items,            \* the data main produces, in order
          Garbage,          \* what the datum of an unwritten slot may be
          SpuriousWakeups,  \* may wait() return without a notify?
          MaxOverrun        \* bound: pops past the last packet pushed

ASSUME ItemsAssumption == Items \in Seq(Datum)
ASSUME DatumAssumption == Default \in Datum /\ Garbage \subseteq Datum
ASSUME WakeupAssumption == SpuriousWakeups \in BOOLEAN
ASSUME OverrunAssumption == MaxOverrun \in Nat

VARIABLES main,     \* where the main thread is
          worker,   \* where the worker is
          next,     \* how many items main has produced
          sent,     \* every packet ever pushed, in order
          popped,   \* how many times the queue was popped
          mutex,    \* "free", or the thread that holds it
          datum,    \* what the worker's last consume() returned
          work,     \* history: the data the worker worked on, in order
          starved,  \* history: front() was called on an empty queue
          spurious  \* history: wait() has returned without a notify

queueVars == <<sent, popped>>
flags == <<starved, spurious>>
pqvars == <<main, worker, next, sent, popped, mutex, datum, work, starved, spurious>>

N == Len(Items)
Data(d) == [end_of_queue |-> FALSE, datum |-> d]
EndPacket == [end_of_queue |-> TRUE, datum |-> Default]

Empty == popped = Len(sent)
Written == popped < Len(sent)    \* front() is a packet that was pushed
FrontPacket == sent[popped + 1]

Lock(t) == mutex = "free" /\ mutex' = t
Unlock == mutex' = "free"

PQInit == /\ main = "spawn" /\ worker = "unborn"
          /\ next = 0
          /\ sent = <<>> /\ popped = 0 /\ mutex = "free"
          /\ datum = Default
          /\ work = <<>> /\ starved = FALSE /\ spurious = FALSE

-------------------------------------------------------------------------------
(* The main thread.                                                         *)

Spawn == /\ main = "spawn"
         /\ main' = "loop" /\ worker' = "test"
         /\ UNCHANGED <<next, queueVars, mutex, datum, work, flags>>

\* produce(item): lock, push, notify_one, unlock.
ProduceLock == /\ main = "loop" /\ next < N
               /\ Lock("main")
               /\ main' = "push"
               /\ UNCHANGED <<worker, next, queueVars, datum, work, flags>>

\* Mutant: the queue is a stack.
PushFront == /\ main = "push"
             /\ sent' = InsertAt(sent, IF Written THEN popped + 1 ELSE Len(sent) + 1,
                               Data(Items[next + 1]))
             /\ main' = "notify"
             /\ UNCHANGED <<worker, next, popped, mutex, datum, work, flags>>

Push == /\ main = "push"
        /\ sent' = Append(sent, Data(Items[next + 1]))
        /\ main' = "notify"
        /\ UNCHANGED <<worker, next, popped, mutex, datum, work, flags>>

\* Mutant: produce() does not notify either.
NotifyNobody == /\ main = "notify"
                /\ main' = "pushed"
                /\ UNCHANGED <<worker, next, queueVars, mutex, datum, work, flags>>

Notify == /\ main = "notify"
          /\ main' = "pushed"
          /\ worker' = IF worker = "asleep" THEN "woken" ELSE worker
          /\ UNCHANGED <<next, queueVars, mutex, datum, work, flags>>

ProduceUnlock == /\ main = "pushed"
                 /\ Unlock
                 /\ next' = next + 1
                 /\ main' = "loop"
                 /\ UNCHANGED <<worker, queueVars, datum, work, flags>>

\* Mutant: the last item is forgotten.
EndLockEarly == /\ main = "loop" /\ next >= N - 1
                /\ Lock("main")
                /\ main' = "pushEnd"
                /\ UNCHANGED <<worker, next, queueVars, datum, work, flags>>

\* produce_end(): lock, push, unlock, and no notify.
EndLock == /\ main = "loop" /\ next = N
           /\ Lock("main")
           /\ main' = "pushEnd"
           /\ UNCHANGED <<worker, next, queueVars, datum, work, flags>>

PushEnd == /\ main = "pushEnd"
           /\ sent' = Append(sent, EndPacket)
           /\ main' = "unlockEnd"
           /\ UNCHANGED <<worker, next, popped, mutex, datum, work, flags>>

\* Mutant: produce_end() returns with the mutex held.
EndKeepLock == /\ main = "unlockEnd"
               /\ main' = "join"
               /\ UNCHANGED <<worker, next, queueVars, mutex, datum, work, flags>>

EndUnlock == /\ main = "unlockEnd"
             /\ Unlock
             /\ main' = "join"
             /\ UNCHANGED <<worker, next, queueVars, datum, work, flags>>

\* Mutant: detach() for join().
JoinNobody == /\ main = "join"
              /\ main' = "done"
              /\ UNCHANGED <<worker, next, queueVars, mutex, datum, work, flags>>

Join == /\ main = "join" /\ worker = "done"
        /\ main' = "done"
        /\ UNCHANGED <<worker, next, queueVars, mutex, datum, work, flags>>

-------------------------------------------------------------------------------
(* The worker.                                                              *)

\* end_reached(): lock, front().end_of_queue, unlock.
TestLock == /\ worker = "test"
            /\ Lock("worker")
            /\ worker' = "peek"
            /\ UNCHANGED <<main, next, queueVars, datum, work, flags>>

\* Nothing says the queue has a front.
Peek == /\ worker = "peek"
        /\ \E end \in IF Written THEN {FrontPacket.end_of_queue} ELSE BOOLEAN :
             worker' = IF end THEN "leave" ELSE "stay"
        /\ starved' = (starved \/ ~Written)
        /\ UNCHANGED <<main, next, queueVars, mutex, datum, work, spurious>>

TestUnlock == /\ worker \in {"leave", "stay"}
              /\ Unlock
              /\ worker' = IF worker = "leave" THEN "done" ELSE "consume"
              /\ UNCHANGED <<main, next, queueVars, datum, work, flags>>

\* consume(): lock, wait once if empty, front().datum, pop(), unlock.
ConsumeLock == /\ worker = "consume"
               /\ Lock("worker")
               /\ worker' = "check"
               /\ UNCHANGED <<main, next, queueVars, datum, work, flags>>

Check == /\ worker = "check"
         /\ IF Empty THEN worker' = "asleep" /\ Unlock
                     ELSE worker' = "take" /\ UNCHANGED mutex
         /\ UNCHANGED <<main, next, queueVars, datum, work, flags>>

SpuriousWake == /\ SpuriousWakeups
                /\ worker = "asleep"
                /\ worker' = "woken"
                /\ spurious' = TRUE
                /\ UNCHANGED <<main, next, queueVars, mutex, datum, work, starved>>

Reacquire == /\ worker = "woken"
             /\ Lock("worker")
             /\ worker' = "take"
             /\ UNCHANGED <<main, next, queueVars, datum, work, flags>>

\* The datum is taken whether or not the packet is the end of the queue.
Take == /\ worker = "take"
        /\ popped < Len(sent) + MaxOverrun
        /\ \E d \in IF Written THEN {FrontPacket.datum} ELSE Garbage : datum' = d
        /\ popped' = popped + 1
        /\ starved' = (starved \/ ~Written)
        /\ worker' = "taken"
        /\ UNCHANGED <<main, next, sent, mutex, work, spurious>>

ConsumeUnlock == /\ worker = "taken"
                 /\ Unlock
                 /\ worker' = "work"
                 /\ UNCHANGED <<main, next, queueVars, datum, work, flags>>

\* The worker's share of the loop body; what it does is the program's.
Work == /\ worker = "work"
        /\ work' = Append(work, datum)
        /\ worker' = "test"
        /\ UNCHANGED <<main, next, queueVars, mutex, datum, flags>>

-------------------------------------------------------------------------------

MainStep == \/ Spawn \/ ProduceLock \/ Push \/ Notify \/ ProduceUnlock
            \/ EndLock \/ PushEnd \/ EndUnlock \/ Join

\* The worker's steps but Work.
QueueStep == \/ TestLock \/ Peek \/ TestUnlock
             \/ ConsumeLock \/ Check \/ Reacquire \/ Take \/ ConsumeUnlock

-------------------------------------------------------------------------------
(* Properties.                                                              *)

\* However end_reached() answers, the worker works on the items in the order
\* main produced them, skipping none; at most one more datum follows, that of
\* the end packet, and that one only after the queue was found empty.  It takes
\* a spurious wakeup to break this.
WorksInOrder ==
  ~spurious => /\ IsPrefix(work, Append(Items, Default))
               /\ Len(work) > N => starved

\* As long as the worker has never found the queue empty, the work is in order
\* and the end of the queue is its end, whatever woke the worker.
CleanRunIsComplete ==
  ~starved => IsPrefix(work, Items) /\ (worker = "done" => work = Items)

\* Where a thread waits for the other one: for its end, for the mutex, or for a
\* notify.
MainBlocked == \/ main = "join" /\ worker # "done"
               \/ main = "loop" /\ mutex # "free"
WorkerBlocked == \/ worker = "asleep"
                 \/ worker \in {"test", "consume", "woken"} /\ mutex # "free"

\* The two threads may wait for each other, for produce_end() does not notify;
\* but in one place only: main in join(), the worker asleep in a consume() that
\* end_reached() let through by reading an empty queue.  Nothing is left to do
\* then: every item has been popped and, but for spurious wakeups, worked on.
HangsOnlyAtTheEnd ==
  MainBlocked /\ WorkerBlocked =>
    /\ main = "join" /\ worker = "asleep"
    /\ starved /\ popped >= N
    /\ ~spurious => IsPrefix(Items, work)

\* The queue, a local of main, is destroyed after the worker's last use of it.
QueueOutlivesWorker == main = "done" => worker = "done" /\ mutex = "free"

===============================================================================
