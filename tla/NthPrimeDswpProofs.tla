-------------------------- MODULE NthPrimeDswpProofs ---------------------------
(***************************************************************************)
(* The queue of packets, and the first program over it: nth-prime-dswp     *)
(* fills its table with the primes in order, for every N and every         *)
(* interleaving, and follows the sequential program step for step, as long *)
(* as wait() does not return without a notify.                             *)
(*                                                                         *)
(* The first section, about PacketQueue's variables alone, serves both     *)
(* programs: QueueInv, and that every step of the queue preserves it.  The *)
(* second is about numbers: why trial division may stop at the first prime *)
(* whose square is larger.  The third adds the table.                      *)
(* The theorems end with what holds of a run in which end_reached() never  *)
(* read an empty queue: what it prints, that it is not stuck before, and   *)
(* that it has only so many steps to make.                                 *)
(***************************************************************************)
EXTENDS NthPrimeDswp, FiniteSetTheorems, WellFoundedInduction, TLAPS

-------------------------------------------------------------------------------
(* The queue.                                                              *)

MainLabel == {"spawn", "loop", "push", "notify", "pushed", "pushEnd", "unlockEnd",
              "join", "done"}
WorkerLabel == {"unborn", "test", "peek", "leave", "stay", "consume", "check", "asleep",
                "woken", "take", "taken", "work", "done"}
Packet == [end_of_queue : BOOLEAN, datum : Datum]

QueueTypeOK ==
    /\ main \in MainLabel /\ worker \in WorkerLabel
    /\ next \in 0 .. N
    /\ sent \in Seq(Packet) /\ popped \in Nat
    /\ mutex \in {"free", "main", "worker"}
    /\ datum \in Datum /\ work \in Seq(Datum)
    /\ starved \in BOOLEAN /\ spurious \in BOOLEAN

Pushed == IF main \in {"notify", "pushed"} THEN next + 1 ELSE next
Ended == main \in {"unlockEnd", "join", "done"}

MainPlace == /\ main \in {"push", "notify", "pushed"} => next < N
             /\ main \in {"pushEnd", "unlockEnd", "join", "done"} => next = N
             /\ main = "spawn" <=> worker = "unborn"
             /\ main = "spawn" => next = 0
             /\ main = "done" => worker = "done"

Exclusion ==
    /\ mutex = "main" <=> main \in {"push", "notify", "pushed", "pushEnd", "unlockEnd"}
    /\ mutex = "worker" <=> worker \in {"peek", "leave", "stay", "check", "take", "taken"}

\* What has been pushed, and in which order.
SentIsItems == /\ Len(sent) = IF Ended THEN N + 1 ELSE Pushed
               /\ \A i \in 1 .. Pushed : sent[i] = Data(Items[i])
               /\ Ended => sent[N + 1] = EndPacket

\* A worker that sleeps has seen the queue empty, and main is not done with what
\* came since.
Sleep == worker = "asleep" =>
           /\ popped <= Len(sent)
           /\ main = "notify" => popped < Len(sent)
           /\ popped < Len(sent) => main = "notify" \/ FrontPacket = EndPacket

\* The datum the worker gets from its n-th consume().
Nth(n) == IF n <= N THEN Items[n] ELSE Default
HasDatum == worker \in {"taken", "work"}
\* end_reached() has returned false and pop() is to come.
WillTake == worker \in {"stay", "consume", "check", "asleep", "woken", "take"}

WorkIsCounted == popped = Len(work) + (IF HasDatum THEN 1 ELSE 0)

WorkIsNth == ~(spurious /\ starved) =>
               /\ popped <= Len(sent)
               /\ \A i \in 1 .. Len(work) : work[i] = Nth(i)
               /\ HasDatum => datum = Nth(popped)

\* Without spurious wakeups nothing is taken from an empty queue, and the end is
\* passed only when end_reached() has looked at an empty queue.
OnlyNotified == ~spurious =>
                  /\ worker \in {"woken", "take"} => popped < Len(sent)
                  /\ popped > N => starved
                  /\ WillTake /\ popped >= N => starved

\* While the queue was never found empty, end_reached() has told the truth.
NeverStarved == ~starved =>
                  /\ popped <= N
                  /\ WillTake => popped < Pushed
                  /\ worker \in {"leave", "done"} => Ended /\ popped = N

QueueInv == /\ QueueTypeOK /\ MainPlace /\ Exclusion /\ SentIsItems /\ Sleep
            /\ WorkIsCounted /\ WorkIsNth /\ OnlyNotified /\ NeverStarved

\* What Append() does to the sequences of the queue.
LEMMA AppendGives ==
  ASSUME NEW S, NEW s \in Seq(S), NEW e \in S
  PROVE  /\ Append(s, e) \in Seq(S) /\ Len(s) \in Nat
         /\ Len(Append(s, e)) = Len(s) + 1
         /\ \A i \in 1 .. Len(s) : Append(s, e)[i] = s[i]
         /\ Append(s, e)[Len(s) + 1] = e
OBVIOUS

\* The items, and the packets main pushes.
LEMMA ItemsAre == N \in Nat /\ Default \in Datum /\ \A i \in 1 .. N : Items[i] \in Datum
BY ItemsAssumption, DatumAssumption DEF N

LEMMA PacketsAre ==
  /\ EndPacket \in Packet /\ EndPacket.end_of_queue /\ EndPacket.datum = Default
  /\ \A i \in 1 .. N : /\ Data(Items[i]) \in Packet
                       /\ ~Data(Items[i]).end_of_queue /\ Data(Items[i]).datum = Items[i]
BY ItemsAre DEF EndPacket, Data, Packet

\* front() is the next item or, after the last, the end packet.
LEMMA FrontIs ==
  ASSUME QueueTypeOK, MainPlace, SentIsItems, Written
  PROVE  /\ FrontPacket = IF popped < Pushed THEN Data(Items[popped + 1]) ELSE EndPacket
         /\ FrontPacket.end_of_queue <=> ~(popped < Pushed)
         /\ FrontPacket.datum = Nth(popped + 1)
         /\ popped < Pushed => popped < N
         /\ ~(popped < Pushed) => Ended /\ popped = N
<1>1. /\ next \in 0 .. N /\ popped \in Nat /\ popped < Len(sent) /\ Pushed \in 0 .. N
      /\ Ended => Pushed = N
  BY ItemsAre DEF N, QueueTypeOK, MainPlace, Written, Pushed, Ended
<1>2. CASE popped < Pushed
  <2>1. popped + 1 \in 1 .. Pushed /\ popped + 1 \in 1 .. N
    BY <1>1, <1>2, ItemsAre
  <2>2. FrontPacket = Data(Items[popped + 1])
    BY <2>1 DEF SentIsItems, FrontPacket
  <2>3. ~FrontPacket.end_of_queue /\ FrontPacket.datum = Items[popped + 1]
    BY <2>1, <2>2, PacketsAre
  <2>4. Nth(popped + 1) = Items[popped + 1] /\ popped < N
    BY <2>1, <1>1, ItemsAre DEF Nth
  <2> QED
    BY <1>2, <2>2, <2>3, <2>4
<1>3. CASE ~(popped < Pushed)
  <2>1. Ended /\ popped = N
    BY <1>1, <1>3, ItemsAre DEF N, SentIsItems
  <2> QED
    BY <2>1, <1>1, <1>3, ItemsAre, PacketsAre DEF N, SentIsItems, FrontPacket, Nth
<1> QED
  BY <1>2, <1>3

\* Every step of either thread preserves QueueInv.
LEMMA QueueMainStep ==
  ASSUME QueueInv, MainStep
  PROVE  QueueInv'
<1> USE ItemsAre, DatumAssumption
    DEF N, QueueInv, QueueTypeOK, MainLabel, WorkerLabel, queueVars, flags, Lock, Unlock,
        Empty, Written, FrontPacket, Pushed, Ended, Nth, HasDatum, WillTake
<1>1. CASE Spawn
  <2>1. QueueTypeOK' /\ MainPlace'
    BY <1>1 DEF Spawn, MainPlace
  <2>2. Exclusion' /\ SentIsItems' /\ WorkIsCounted'
    BY <1>1 DEF Spawn, MainPlace, Exclusion, SentIsItems, WorkIsCounted
  <2>3. Sleep'
    BY <1>1 DEF Spawn, SentIsItems, MainPlace, Exclusion, Sleep
  <2>4. WorkIsNth'
    BY <1>1 DEF Spawn, SentIsItems, MainPlace, WorkIsCounted, WorkIsNth, OnlyNotified, NeverStarved
  <2>5. OnlyNotified' /\ NeverStarved'
    BY <1>1 DEF Spawn, SentIsItems, MainPlace, Exclusion, Sleep, WorkIsNth, OnlyNotified, NeverStarved
  <2> QED
    BY <2>1, <2>2, <2>3, <2>4, <2>5
<1>2. CASE ProduceLock
  <2>1. QueueTypeOK' /\ MainPlace'
    BY <1>2 DEF ProduceLock, MainPlace
  <2>2. Exclusion' /\ SentIsItems' /\ WorkIsCounted'
    BY <1>2 DEF ProduceLock, MainPlace, Exclusion, SentIsItems, WorkIsCounted
  <2>3. Sleep'
    BY <1>2 DEF ProduceLock, SentIsItems, MainPlace, Exclusion, Sleep
  <2>4. WorkIsNth'
    BY <1>2 DEF ProduceLock, SentIsItems, MainPlace, WorkIsCounted, WorkIsNth, OnlyNotified, NeverStarved
  <2>5. OnlyNotified' /\ NeverStarved'
    BY <1>2 DEF ProduceLock, SentIsItems, MainPlace, Exclusion, Sleep, WorkIsNth, OnlyNotified, NeverStarved
  <2> QED
    BY <2>1, <2>2, <2>3, <2>4, <2>5
<1>3. CASE Push
  <2>0. /\ Len(sent) = next /\ Len(sent') = next + 1 /\ sent' \in Seq(Packet)
        /\ \A i \in 1 .. next : sent'[i] = sent[i]
        /\ sent'[next + 1] = Data(Items[next + 1])
    BY <1>3, PacketsAre, AppendGives DEF Push, SentIsItems, MainPlace
  <2>1. QueueTypeOK' /\ MainPlace'
    BY <1>3, <2>0 DEF Push, MainPlace
  <2>2. Exclusion' /\ SentIsItems' /\ WorkIsCounted'
    BY <1>3, <2>0 DEF Push, MainPlace, Exclusion, SentIsItems, WorkIsCounted
  <2>3. Sleep'
    BY <1>3, <2>0 DEF Push, SentIsItems, MainPlace, Exclusion, Sleep
  <2>4. WorkIsNth'
    BY <1>3, <2>0 DEF Push, SentIsItems, MainPlace, WorkIsCounted, WorkIsNth, OnlyNotified, NeverStarved
  <2>5. OnlyNotified' /\ NeverStarved'
    BY <1>3, <2>0 DEF Push, SentIsItems, MainPlace, Exclusion, Sleep, WorkIsNth, OnlyNotified, NeverStarved
  <2> QED
    BY <2>1, <2>2, <2>3, <2>4, <2>5
<1>4. CASE Notify
  <2>1. QueueTypeOK' /\ MainPlace'
    BY <1>4 DEF Notify, MainPlace
  <2>2. Exclusion' /\ SentIsItems' /\ WorkIsCounted'
    BY <1>4 DEF Notify, MainPlace, Exclusion, SentIsItems, WorkIsCounted
  <2>3. Sleep'
    BY <1>4 DEF Notify, SentIsItems, MainPlace, Exclusion, Sleep
  <2>4. WorkIsNth'
    BY <1>4 DEF Notify, SentIsItems, MainPlace, WorkIsCounted, WorkIsNth, OnlyNotified, NeverStarved
  <2>5. OnlyNotified' /\ NeverStarved'
    BY <1>4 DEF Notify, SentIsItems, MainPlace, Exclusion, Sleep, WorkIsNth, OnlyNotified, NeverStarved
  <2> QED
    BY <2>1, <2>2, <2>3, <2>4, <2>5
<1>5. CASE ProduceUnlock
  <2>1. QueueTypeOK' /\ MainPlace'
    BY <1>5 DEF ProduceUnlock, MainPlace
  <2>2. Exclusion' /\ SentIsItems' /\ WorkIsCounted'
    BY <1>5 DEF ProduceUnlock, MainPlace, Exclusion, SentIsItems, WorkIsCounted
  <2>3. Sleep'
    BY <1>5 DEF ProduceUnlock, SentIsItems, MainPlace, Exclusion, Sleep
  <2>4. WorkIsNth'
    BY <1>5 DEF ProduceUnlock, SentIsItems, MainPlace, WorkIsCounted, WorkIsNth, OnlyNotified, NeverStarved
  <2>5. OnlyNotified' /\ NeverStarved'
    BY <1>5 DEF ProduceUnlock, SentIsItems, MainPlace, Exclusion, Sleep, WorkIsNth, OnlyNotified, NeverStarved
  <2> QED
    BY <2>1, <2>2, <2>3, <2>4, <2>5
<1>6. CASE EndLock
  <2>1. QueueTypeOK' /\ MainPlace'
    BY <1>6 DEF EndLock, MainPlace
  <2>2. Exclusion' /\ SentIsItems' /\ WorkIsCounted'
    BY <1>6 DEF EndLock, MainPlace, Exclusion, SentIsItems, WorkIsCounted
  <2>3. Sleep'
    BY <1>6 DEF EndLock, SentIsItems, MainPlace, Exclusion, Sleep
  <2>4. WorkIsNth'
    BY <1>6 DEF EndLock, SentIsItems, MainPlace, WorkIsCounted, WorkIsNth, OnlyNotified, NeverStarved
  <2>5. OnlyNotified' /\ NeverStarved'
    BY <1>6 DEF EndLock, SentIsItems, MainPlace, Exclusion, Sleep, WorkIsNth, OnlyNotified, NeverStarved
  <2> QED
    BY <2>1, <2>2, <2>3, <2>4, <2>5
<1>7. CASE PushEnd
  <2>0. /\ next = N /\ Len(sent) = N /\ Len(sent') = N + 1 /\ sent' \in Seq(Packet)
        /\ \A i \in 1 .. N : sent'[i] = sent[i]
        /\ sent'[N + 1] = EndPacket
    BY <1>7, PacketsAre, AppendGives DEF PushEnd, SentIsItems, MainPlace
  <2>1. QueueTypeOK' /\ MainPlace'
    BY <1>7, <2>0 DEF PushEnd, MainPlace
  <2>2. Exclusion' /\ SentIsItems' /\ WorkIsCounted'
    BY <1>7, <2>0 DEF PushEnd, MainPlace, Exclusion, SentIsItems, WorkIsCounted
  <2>3. Sleep'
    BY <1>7, <2>0 DEF PushEnd, SentIsItems, MainPlace, Exclusion, Sleep
  <2>4. WorkIsNth'
    BY <1>7, <2>0 DEF PushEnd, SentIsItems, MainPlace, WorkIsCounted, WorkIsNth, OnlyNotified, NeverStarved
  <2>5. OnlyNotified' /\ NeverStarved'
    BY <1>7, <2>0 DEF PushEnd, SentIsItems, MainPlace, Exclusion, Sleep, WorkIsNth, OnlyNotified, NeverStarved
  <2> QED
    BY <2>1, <2>2, <2>3, <2>4, <2>5
<1>8. CASE EndUnlock
  <2>1. QueueTypeOK' /\ MainPlace'
    BY <1>8 DEF EndUnlock, MainPlace
  <2>2. Exclusion' /\ SentIsItems' /\ WorkIsCounted'
    BY <1>8 DEF EndUnlock, MainPlace, Exclusion, SentIsItems, WorkIsCounted
  <2>3. Sleep'
    BY <1>8 DEF EndUnlock, SentIsItems, MainPlace, Exclusion, Sleep
  <2>4. WorkIsNth'
    BY <1>8 DEF EndUnlock, SentIsItems, MainPlace, WorkIsCounted, WorkIsNth, OnlyNotified, NeverStarved
  <2>5. OnlyNotified' /\ NeverStarved'
    BY <1>8 DEF EndUnlock, SentIsItems, MainPlace, Exclusion, Sleep, WorkIsNth, OnlyNotified, NeverStarved
  <2> QED
    BY <2>1, <2>2, <2>3, <2>4, <2>5
<1>9. CASE Join
  <2>1. QueueTypeOK' /\ MainPlace'
    BY <1>9 DEF Join, MainPlace
  <2>2. Exclusion' /\ SentIsItems' /\ WorkIsCounted'
    BY <1>9 DEF Join, MainPlace, Exclusion, SentIsItems, WorkIsCounted
  <2>3. Sleep'
    BY <1>9 DEF Join, SentIsItems, MainPlace, Exclusion, Sleep
  <2>4. WorkIsNth'
    BY <1>9 DEF Join, SentIsItems, MainPlace, WorkIsCounted, WorkIsNth, OnlyNotified, NeverStarved
  <2>5. OnlyNotified' /\ NeverStarved'
    BY <1>9 DEF Join, SentIsItems, MainPlace, Exclusion, Sleep, WorkIsNth, OnlyNotified, NeverStarved
  <2> QED
    BY <2>1, <2>2, <2>3, <2>4, <2>5
<1> QED
  BY <1>1, <1>2, <1>3, <1>4, <1>5, <1>6, <1>7, <1>8, <1>9 DEF MainStep

LEMMA QueueWorkerStep ==
  ASSUME QueueInv, QueueStep \/ Work \/ SpuriousWake
  PROVE  QueueInv'
<1> USE ItemsAre, DatumAssumption
    DEF N, QueueInv, QueueTypeOK, MainLabel, WorkerLabel, queueVars, flags, Lock, Unlock,
        Empty, Written, FrontPacket, Pushed, Ended, Nth, HasDatum, WillTake
<1>1. CASE TestLock
  <2>1. QueueTypeOK' /\ MainPlace'
    BY <1>1 DEF TestLock, MainPlace
  <2>2. Exclusion' /\ SentIsItems' /\ WorkIsCounted'
    BY <1>1 DEF TestLock, MainPlace, Exclusion, SentIsItems, WorkIsCounted
  <2>3. Sleep'
    BY <1>1 DEF TestLock, SentIsItems, MainPlace, Exclusion, Sleep
  <2>4. WorkIsNth'
    BY <1>1 DEF TestLock, SentIsItems, MainPlace, WorkIsCounted, WorkIsNth, OnlyNotified, NeverStarved
  <2>5. OnlyNotified' /\ NeverStarved'
    BY <1>1 DEF TestLock, SentIsItems, MainPlace, Exclusion, Sleep, WorkIsNth, OnlyNotified, NeverStarved
  <2> QED
    BY <2>1, <2>2, <2>3, <2>4, <2>5
<1>2. CASE Peek
  <2>0. /\ worker' \in {"leave", "stay"}
        /\ worker' = "stay" /\ popped < Len(sent) => popped < Pushed /\ popped < N
        /\ worker' = "leave" /\ popped < Len(sent) => Ended /\ popped = N
        /\ ~starved' => ~starved /\ popped < Len(sent)
        /\ UNCHANGED <<main, next, sent, popped, spurious>>
    <3> HIDE DEF FrontPacket, Pushed, Ended
    <3> QED
      BY <1>2, FrontIs DEF Peek
  <2>1. QueueTypeOK' /\ MainPlace'
    BY <1>2, <2>0 DEF Peek, MainPlace
  <2>2. Exclusion' /\ SentIsItems' /\ WorkIsCounted'
    BY <1>2, <2>0 DEF Peek, MainPlace, Exclusion, SentIsItems, WorkIsCounted
  <2>3. Sleep'
    BY <1>2, <2>0 DEF Peek, SentIsItems, MainPlace, Exclusion, Sleep
  <2>4. WorkIsNth'
    BY <1>2, <2>0 DEF Peek, SentIsItems, MainPlace, WorkIsCounted, WorkIsNth, OnlyNotified, NeverStarved
  <2>5. OnlyNotified' /\ NeverStarved'
    BY <2>0 DEF OnlyNotified, NeverStarved
  <2> QED
    BY <2>1, <2>2, <2>3, <2>4, <2>5
<1>3. CASE TestUnlock
  <2>1. QueueTypeOK' /\ MainPlace'
    BY <1>3 DEF TestUnlock, MainPlace
  <2>2. Exclusion' /\ SentIsItems' /\ WorkIsCounted'
    BY <1>3 DEF TestUnlock, MainPlace, Exclusion, SentIsItems, WorkIsCounted
  <2>3. Sleep'
    BY <1>3 DEF TestUnlock, SentIsItems, MainPlace, Exclusion, Sleep
  <2>4. WorkIsNth'
    BY <1>3 DEF TestUnlock, SentIsItems, MainPlace, WorkIsCounted, WorkIsNth, OnlyNotified, NeverStarved
  <2>5. OnlyNotified' /\ NeverStarved'
    BY <1>3 DEF TestUnlock, SentIsItems, MainPlace, Exclusion, Sleep, WorkIsNth, OnlyNotified, NeverStarved
  <2> QED
    BY <2>1, <2>2, <2>3, <2>4, <2>5
<1>4. CASE ConsumeLock
  <2>1. QueueTypeOK' /\ MainPlace'
    BY <1>4 DEF ConsumeLock, MainPlace
  <2>2. Exclusion' /\ SentIsItems' /\ WorkIsCounted'
    BY <1>4 DEF ConsumeLock, MainPlace, Exclusion, SentIsItems, WorkIsCounted
  <2>3. Sleep'
    BY <1>4 DEF ConsumeLock, SentIsItems, MainPlace, Exclusion, Sleep
  <2>4. WorkIsNth'
    BY <1>4 DEF ConsumeLock, SentIsItems, MainPlace, WorkIsCounted, WorkIsNth, OnlyNotified, NeverStarved
  <2>5. OnlyNotified' /\ NeverStarved'
    BY <1>4 DEF ConsumeLock, SentIsItems, MainPlace, Exclusion, Sleep, WorkIsNth, OnlyNotified, NeverStarved
  <2> QED
    BY <2>1, <2>2, <2>3, <2>4, <2>5
<1>5. CASE Check
  <2>1. QueueTypeOK' /\ MainPlace'
    BY <1>5 DEF Check, MainPlace
  <2>2. Exclusion' /\ SentIsItems' /\ WorkIsCounted'
    BY <1>5 DEF Check, MainPlace, Exclusion, SentIsItems, WorkIsCounted
  <2>3. Sleep'
    BY <1>5 DEF Check, SentIsItems, MainPlace, Exclusion, Sleep
  <2>4. WorkIsNth'
    BY <1>5 DEF Check, SentIsItems, MainPlace, WorkIsCounted, WorkIsNth, OnlyNotified, NeverStarved
  <2>5. OnlyNotified' /\ NeverStarved'
    BY <1>5 DEF Check, SentIsItems, MainPlace, Exclusion, Sleep, WorkIsNth, OnlyNotified, NeverStarved
  <2> QED
    BY <2>1, <2>2, <2>3, <2>4, <2>5
<1>6. CASE Reacquire
  <2>1. QueueTypeOK' /\ MainPlace'
    BY <1>6 DEF Reacquire, MainPlace
  <2>2. Exclusion' /\ SentIsItems' /\ WorkIsCounted'
    BY <1>6 DEF Reacquire, MainPlace, Exclusion, SentIsItems, WorkIsCounted
  <2>3. Sleep'
    BY <1>6 DEF Reacquire, SentIsItems, MainPlace, Exclusion, Sleep
  <2>4. WorkIsNth'
    BY <1>6 DEF Reacquire, SentIsItems, MainPlace, WorkIsCounted, WorkIsNth, OnlyNotified, NeverStarved
  <2>5. OnlyNotified' /\ NeverStarved'
    BY <1>6 DEF Reacquire, SentIsItems, MainPlace, Exclusion, Sleep, WorkIsNth, OnlyNotified, NeverStarved
  <2> QED
    BY <2>1, <2>2, <2>3, <2>4, <2>5
<1>7. CASE Take
  <2>0. /\ datum' \in Datum /\ popped' = popped + 1
        /\ popped < Len(sent) => datum' = Nth(popped + 1)
    BY <1>7, FrontIs DEF Take
  <2>1. QueueTypeOK' /\ MainPlace'
    BY <1>7, <2>0, FrontIs DEF Take, MainPlace
  <2>2. Exclusion' /\ SentIsItems' /\ WorkIsCounted'
    BY <1>7, <2>0, FrontIs DEF Take, MainPlace, Exclusion, SentIsItems, WorkIsCounted
  <2>3. Sleep'
    BY <1>7, <2>0, FrontIs DEF Take, SentIsItems, MainPlace, Exclusion, Sleep
  <2>4. WorkIsNth'
    BY <1>7, <2>0, FrontIs DEF Take, SentIsItems, MainPlace, WorkIsCounted, WorkIsNth, OnlyNotified, NeverStarved
  <2>5. OnlyNotified' /\ NeverStarved'
    BY <1>7, <2>0, FrontIs DEF Take, SentIsItems, MainPlace, Exclusion, Sleep, WorkIsNth, OnlyNotified, NeverStarved
  <2> QED
    BY <2>1, <2>2, <2>3, <2>4, <2>5
<1>8. CASE ConsumeUnlock
  <2>1. QueueTypeOK' /\ MainPlace'
    BY <1>8 DEF ConsumeUnlock, MainPlace
  <2>2. Exclusion' /\ SentIsItems' /\ WorkIsCounted'
    BY <1>8 DEF ConsumeUnlock, MainPlace, Exclusion, SentIsItems, WorkIsCounted
  <2>3. Sleep'
    BY <1>8 DEF ConsumeUnlock, SentIsItems, MainPlace, Exclusion, Sleep
  <2>4. WorkIsNth'
    BY <1>8 DEF ConsumeUnlock, SentIsItems, MainPlace, WorkIsCounted, WorkIsNth, OnlyNotified, NeverStarved
  <2>5. OnlyNotified' /\ NeverStarved'
    BY <1>8 DEF ConsumeUnlock, SentIsItems, MainPlace, Exclusion, Sleep, WorkIsNth, OnlyNotified, NeverStarved
  <2> QED
    BY <2>1, <2>2, <2>3, <2>4, <2>5
<1>9. CASE Work
  <2>0. /\ work' \in Seq(Datum) /\ Len(work') = Len(work) + 1
        /\ \A i \in 1 .. Len(work) : work'[i] = work[i]
        /\ work'[Len(work) + 1] = datum
    BY <1>9, AppendGives DEF Work
  <2>1. QueueTypeOK' /\ MainPlace'
    BY <1>9, <2>0 DEF Work, MainPlace
  <2>2. Exclusion' /\ SentIsItems' /\ WorkIsCounted'
    BY <1>9, <2>0 DEF Work, MainPlace, Exclusion, SentIsItems, WorkIsCounted
  <2>3. Sleep'
    BY <1>9, <2>0 DEF Work, SentIsItems, MainPlace, Exclusion, Sleep
  <2>4. WorkIsNth'
    BY <1>9, <2>0 DEF Work, SentIsItems, MainPlace, WorkIsCounted, WorkIsNth, OnlyNotified, NeverStarved
  <2>5. OnlyNotified' /\ NeverStarved'
    BY <1>9, <2>0 DEF Work, SentIsItems, MainPlace, Exclusion, Sleep, WorkIsNth, OnlyNotified, NeverStarved
  <2> QED
    BY <2>1, <2>2, <2>3, <2>4, <2>5
<1>10. CASE SpuriousWake
  <2>1. QueueTypeOK' /\ MainPlace'
    BY <1>10 DEF SpuriousWake, MainPlace
  <2>2. Exclusion' /\ SentIsItems' /\ WorkIsCounted'
    BY <1>10 DEF SpuriousWake, MainPlace, Exclusion, SentIsItems, WorkIsCounted
  <2>3. Sleep'
    BY <1>10 DEF SpuriousWake, SentIsItems, MainPlace, Exclusion, Sleep
  <2>4. WorkIsNth'
    BY <1>10 DEF SpuriousWake, SentIsItems, MainPlace, WorkIsCounted, WorkIsNth, OnlyNotified, NeverStarved
  <2>5. OnlyNotified' /\ NeverStarved'
    BY <1>10 DEF SpuriousWake, SentIsItems, MainPlace, Exclusion, Sleep, WorkIsNth, OnlyNotified, NeverStarved
  <2> QED
    BY <2>1, <2>2, <2>3, <2>4, <2>5
<1> QED
  BY <1>1, <1>2, <1>3, <1>4, <1>5, <1>6, <1>7, <1>8, <1>9, <1>10 DEF QueueStep

\* A queue as it is created, with what the flags remember of earlier ones.
LEMMA QueueFresh ==
  ASSUME main = "spawn", worker = "unborn", next = 0, sent = <<>>, popped = 0, mutex = "free",
         datum = Default, work = <<>>, starved \in BOOLEAN, spurious \in BOOLEAN
  PROVE  QueueInv
BY ItemsAre DEF QueueInv, QueueTypeOK, MainLabel, WorkerLabel, MainPlace, Exclusion, SentIsItems,
   Sleep, WorkIsCounted, WorkIsNth, OnlyNotified, NeverStarved, Pushed, Ended, HasDatum, WillTake

\* IsPrefix, element by element.
LEMMA PrefixIs ==
  ASSUME NEW S, NEW s \in Seq(S), NEW u \in Seq(S), Len(s) <= Len(u),
         \A i \in 1 .. Len(s) : s[i] = u[i]
  PROVE  IsPrefix(s, u)
BY DEF IsPrefix

\* QueueInv says what the properties of PacketQueue say.
LEMMA QueueInvGives ==
  QueueInv => WorksInOrder /\ CleanRunIsComplete /\ HangsOnlyAtTheEnd /\ QueueOutlivesWorker
<1> SUFFICES ASSUME QueueInv
             PROVE  WorksInOrder /\ CleanRunIsComplete /\ HangsOnlyAtTheEnd /\ QueueOutlivesWorker
  OBVIOUS
<1> USE DEF QueueInv
<1>1. /\ work \in Seq(Datum) /\ Items \in Seq(Datum) /\ Len(Items) = N /\ N \in Nat
      /\ Len(work) \in Nat /\ popped \in Nat /\ Len(work) <= popped
  BY ItemsAre, ItemsAssumption DEF QueueTypeOK, WorkIsCounted, N
<1>2. popped <= Len(sent) => popped <= N + 1
  BY <1>1 DEF QueueTypeOK, SentIsItems, Pushed, Ended, MainPlace
<1>3. WorksInOrder
  <2> SUFFICES ASSUME ~spurious
               PROVE  /\ IsPrefix(work, Append(Items, Default))
                      /\ Len(work) > N => starved
    BY DEF WorksInOrder
  <2>1. popped <= N + 1 /\ \A i \in 1 .. Len(work) : work[i] = Nth(i)
    BY <1>2 DEF WorkIsNth
  <2>2. PICK u : u = Append(Items, Default)
    OBVIOUS
  <2>3. u \in Seq(Datum) /\ Len(u) = N + 1 /\ \A i \in 1 .. N + 1 : u[i] = Nth(i)
    BY <1>1, <2>2, ItemsAre, AppendGives DEF Nth
  <2>4. IsPrefix(work, u)
    BY <1>1, <2>1, <2>3, PrefixIs
  <2>5. Len(work) > N => starved
    BY <1>1 DEF OnlyNotified
  <2> QED
    BY <2>2, <2>4, <2>5
<1>4. CleanRunIsComplete
  <2> SUFFICES ASSUME ~starved
               PROVE  IsPrefix(work, Items) /\ (worker = "done" => work = Items)
    BY DEF CleanRunIsComplete
  <2>1. popped <= N /\ \A i \in 1 .. Len(work) : work[i] = Items[i]
    BY <1>1 DEF NeverStarved, WorkIsNth, Nth
  <2>2. worker = "done" => Len(work) = N
    BY <1>1 DEF NeverStarved, WorkIsCounted, HasDatum
  <2> QED
    BY <1>1, <2>1, <2>2, PrefixIs
<1>5. HangsOnlyAtTheEnd
  <2> SUFFICES ASSUME MainBlocked, WorkerBlocked
               PROVE  /\ main = "join" /\ worker = "asleep"
                      /\ starved /\ popped >= N
                      /\ ~spurious => IsPrefix(Items, work)
    BY DEF HangsOnlyAtTheEnd
  <2>1. mutex # "worker"
    BY DEF Exclusion, WorkerBlocked
  <2>2. main = "join" /\ worker = "asleep"
    BY <2>1 DEF Exclusion, QueueTypeOK, MainBlocked, WorkerBlocked
  <2>3. next = N /\ Pushed = N /\ Len(sent) = N + 1
    BY <2>2 DEF MainPlace, Pushed, Ended, SentIsItems
  <2>4. popped >= N
    <3> SUFFICES ASSUME popped < N PROVE FALSE
      BY <1>1
    <3>1. Written /\ FrontPacket = Data(Items[popped + 1]) /\ popped + 1 \in 1 .. N
      BY <1>1, <2>3, FrontIs DEF Written
    <3>2. FrontPacket = EndPacket
      BY <2>2, <3>1 DEF Sleep, Written
    <3> QED
      BY <3>1, <3>2, PacketsAre
  <2>5. starved
    BY <1>1, <2>2, <2>3, <2>4 DEF NeverStarved, WillTake, QueueTypeOK
  <2>6. ASSUME ~spurious PROVE IsPrefix(Items, work)
    <3>1. Len(work) = popped /\ \A i \in 1 .. N : work[i] = Items[i]
      BY <1>1, <2>2, <2>4, <2>6 DEF WorkIsCounted, HasDatum, WorkIsNth, Nth
    <3> QED
      BY <1>1, <2>4, <3>1, PrefixIs
  <2> QED
    BY <2>2, <2>4, <2>5, <2>6
<1>6. QueueOutlivesWorker
  BY DEF QueueOutlivesWorker, MainPlace, Exclusion, QueueTypeOK
<1> QED
  BY <1>3, <1>4, <1>5, <1>6

\* What a thread waits for: the conditions under which none of its steps is
\* possible.  Main's depend on the program.
WorkerWaits ==
  \/ worker \in {"unborn", "asleep", "done"}
  \/ worker \in {"test", "consume", "woken"} /\ mutex # "free"
  \/ worker = "take" /\ popped >= Len(sent) + MaxOverrun

\* A worker that never found the queue empty waits only while main is about its
\* own business: main is not in join() with the worker asleep, for the packet the
\* worker slept on, if any, was not the end of the queue.
LEMMA QueueMoves ==
  ASSUME QueueInv, ~starved, WorkerWaits
  PROVE  \/ mutex = "main"
         \/ mutex = "free" /\ main \in {"spawn", "loop", "done"}
         \/ mutex = "free" /\ main = "join" /\ worker = "done"
<1> USE DEF QueueInv
<1>1. /\ main \in MainLabel /\ mutex \in {"free", "main", "worker"}
      /\ N \in Nat /\ popped \in Nat /\ next \in Nat /\ MaxOverrun \in Nat
  BY ItemsAre, OverrunAssumption DEF QueueTypeOK
<1>2. mutex # "worker"
  <2> SUFFICES ASSUME mutex = "worker" PROVE FALSE
    OBVIOUS
  <2>1. worker = "take" /\ popped >= Len(sent) + MaxOverrun
    BY DEF Exclusion, WorkerWaits
  <2>2. popped < Pushed /\ Pushed <= Len(sent) /\ Len(sent) \in Nat
    <3>1. popped < Pushed /\ Len(sent) \in Nat
      BY <2>1 DEF NeverStarved, WillTake, QueueTypeOK
    <3>2. Pushed \in Int /\ Pushed <= Len(sent)
      BY <1>1 DEF SentIsItems, MainPlace, Ended, Pushed
    <3> QED
      BY <3>1, <3>2
  <2> QED
    BY <1>1, <2>1, <2>2 DEF Pushed
<1>3. CASE mutex = "free" /\ main = "join" /\ worker # "done"
  <2>1. worker = "asleep"
    BY <1>3 DEF MainPlace, WorkerWaits, Exclusion
  <2>2. Pushed = N /\ Len(sent) = N + 1 /\ popped < N
    BY <1>1, <1>3, <2>1 DEF MainPlace, SentIsItems, Pushed, Ended, NeverStarved, WillTake
  <2>3. FrontPacket = EndPacket
    BY <1>1, <1>3, <2>1, <2>2 DEF Sleep
  <2>4. FrontPacket = Data(Items[popped + 1])
    BY <1>1, <2>2 DEF SentIsItems, FrontPacket
  <2>5. EndPacket.end_of_queue /\ ~Data(Items[popped + 1]).end_of_queue
    BY DEF EndPacket, Data
  <2> QED
    BY <2>3, <2>4, <2>5
<1> QED
  BY <1>1, <1>2, <1>3 DEF MainLabel, Exclusion

\* How many steps of the two threads are left at most: what remains of main's
\* round and of the worker's, four steps for each datum main has still to produce
\* and, the worker sleeping or not, eleven for each it has still to take.
MainAfter(at) ==
  CASE at = "spawn"   -> 9 [] at = "loop"      -> 8 [] at = "push" -> 7
    [] at = "notify"  -> 6 [] at = "pushed"    -> 5
    [] at = "pushEnd" -> 4 [] at = "unlockEnd" -> 3 [] at = "join" -> 2
    [] OTHER -> 1
WorkerAfter(at) ==
  CASE at = "taken"  -> 14 [] at = "work"    -> 13 [] at = "unborn" -> 12
    [] at = "test"   -> 11 [] at = "peek"    -> 10 [] at = "stay"   -> 9
    [] at = "consume" -> 8 [] at = "check"   -> 7  [] at = "asleep" -> 6
    [] at = "woken"   -> 5 [] at = "take"    -> 4  [] at = "leave"  -> 1
    [] OTHER -> 0
QueueLeft == 4 * (N - next) + MainAfter(main) + 11 * (N - popped) + WorkerAfter(worker)

LEMMA QueueLeftIs ==
  ASSUME QueueInv
  PROVE  QueueLeft \in Int /\ (~starved => QueueLeft \in 1 .. 15 * N + 21)
<1>1. /\ N \in Nat /\ next \in 0 .. N /\ popped \in Nat
      /\ ~starved => popped <= N
  BY ItemsAre DEF QueueInv, QueueTypeOK, NeverStarved
<1>2. MainAfter(main) \in 1 .. 9
  BY DEF MainAfter
<1>3. WorkerAfter(worker) \in 0 .. 14
  BY DEF WorkerAfter
<1>4. main = "spawn" <=> worker = "unborn"
  BY DEF QueueInv, MainPlace
<1>5. worker \in {"taken", "work"} /\ ~starved => popped > 0
  BY DEF QueueInv, QueueTypeOK, WorkIsCounted, HasDatum
<1>6. MainAfter(main) + WorkerAfter(worker) <= 21 \/ worker \in {"taken", "work"}
  BY <1>4 DEF MainAfter, WorkerAfter
<1> QED
  BY <1>1, <1>2, <1>3, <1>5, <1>6 DEF QueueLeft

\* Every step of the queue is one of them, whatever the wakeups.
LEMMA QueueCounts ==
  ASSUME QueueInv, MainStep \/ QueueStep \/ Work \/ SpuriousWake
  PROVE  QueueLeft' \in Int /\ QueueLeft' < QueueLeft
<1>1. N \in Nat /\ N' = N /\ next \in Nat /\ popped \in Nat
  BY ItemsAre DEF QueueInv, QueueTypeOK, N
<1>2. ASSUME MainStep, ~Spawn
      PROVE  /\ popped' = popped
             /\ worker' = worker \/ (worker = "asleep" /\ worker' = "woken")
             /\ \/ next' = next /\ MainAfter(main') < MainAfter(main)
                \/ next' = next + 1 /\ MainAfter(main') < MainAfter(main) + 4
  BY <1>2 DEF MainStep, ProduceLock, Push, Notify, ProduceUnlock, EndLock, PushEnd, EndUnlock,
     Join, queueVars, MainAfter
<1>3. ASSUME Spawn
      PROVE  /\ popped' = popped /\ next' = next
             /\ MainAfter(main') = 8 /\ MainAfter(main) = 9
             /\ WorkerAfter(worker') = 11 /\ WorkerAfter(worker) = 12
  BY <1>3 DEF Spawn, QueueInv, MainPlace, queueVars, MainAfter, WorkerAfter
<1>4. ASSUME QueueStep \/ Work \/ SpuriousWake
      PROVE  /\ next' = next /\ main' = main
             /\ \/ popped' = popped /\ WorkerAfter(worker') < WorkerAfter(worker)
                \/ popped' = popped + 1 /\ WorkerAfter(worker') < WorkerAfter(worker) + 11
  BY <1>4 DEF QueueStep, TestLock, Peek, TestUnlock, ConsumeLock, Check, Reacquire, Take,
     ConsumeUnlock, Work, SpuriousWake, queueVars, WorkerAfter
<1>5. WorkerAfter("asleep") = 6 /\ WorkerAfter("woken") = 5
  BY DEF WorkerAfter
<1>6. /\ MainAfter(main) \in Int /\ MainAfter(main') \in Int
      /\ WorkerAfter(worker) \in Int /\ WorkerAfter(worker') \in Int
  BY DEF MainAfter, WorkerAfter
<1>7. CASE MainStep /\ ~Spawn
  BY <1>1, <1>2, <1>5, <1>6, <1>7 DEF QueueLeft
<1>8. CASE Spawn
  BY <1>1, <1>3, <1>8 DEF QueueLeft
<1>9. CASE QueueStep \/ Work \/ SpuriousWake
  BY <1>1, <1>4, <1>6, <1>9 DEF QueueLeft
<1> QED
  BY <1>7, <1>8, <1>9

-------------------------------------------------------------------------------
(* Numbers.                                                                *)

\* Of a set of naturals one is the least.
LEMMA LeastOf ==
  ASSUME NEW D \in SUBSET Nat, D # {}
  PROVE  \E d \in D : \A e \in D : ~(e < d)
<1> DEFINE Upto == {0 .. d : d \in D}
<1>1. Upto \subseteq FiniteSubsetsOf(Nat) /\ Upto # {}
  <2>1. \A d \in D : 0 .. d \in SUBSET Nat /\ IsFiniteSet(0 .. d)
    BY FS_Interval
  <2> QED
    BY <2>1 DEF FiniteSubsetsOf
<1>2. \E T \in Upto : \A U \in Upto : <<U, T>> \notin StrictSubsetOrdering(Nat)
  <2> HIDE DEF Upto
  <2> QED
    BY <1>1, WFMin, FS_StrictSubsetOrderingWellFounded
<1>3. PICK d \in D : \A e \in D : <<0 .. e, 0 .. d>> \notin StrictSubsetOrdering(Nat)
  BY <1>2
<1>4. ASSUME NEW e \in D, e < d PROVE FALSE
  <2>1. 0 .. e \in SUBSET Nat /\ 0 .. d \in SUBSET Nat /\ 0 .. e \subseteq 0 .. d
        /\ d \in 0 .. d /\ d \notin 0 .. e
    BY <1>4
  <2> QED
    BY <1>3, <2>1 DEF StrictSubsetOrdering
<1> QED
  BY <1>4

\* What it is to divide.
LEMMA DividesIs ==
  ASSUME NEW n \in Nat, NEW d \in Nat \ {0}
  PROVE  n % d = 0 <=> \E q \in Nat : n = d * q
<1>1. ASSUME n % d = 0
      PROVE  \E q \in Nat : n = d * q
  <2>1. n = (d * (n \div d)) + (n % d) /\ n \div d \in Nat
    OBVIOUS
  <2> QED
    BY <1>1, <2>1
<1>2. ASSUME NEW q \in Nat, n = d * q
      PROVE  n % d = 0
  BY <1>2
<1> QED
  BY <1>1, <1>2

LEMMA DivisorTransitive ==
  ASSUME NEW n \in Nat, NEW d \in Nat \ {0}, NEW e \in Nat \ {0}, n % d = 0, d % e = 0
  PROVE  n % e = 0
<1>1. PICK q \in Nat : n = d * q
  BY DividesIs
<1>2. PICK r \in Nat : d = e * r
  BY DividesIs
<1>3. n = e * (r * q) /\ r * q \in Nat
  BY <1>1, <1>2
<1> QED
  BY <1>3, DividesIs

\* The least divisor of a number that is not prime is prime, and its square is
\* not larger than the number.
LEMMA LeastDivisor ==
  ASSUME NEW n \in Nat, n > 1, ~Loop!IsPrime(n)
  PROVE  \E d \in 2 .. n - 1 : /\ n % d = 0 /\ d * d <= n
                               /\ Loop!IsPrime(d)
<1> DEFINE D == {d \in 2 .. n - 1 : n % d = 0}
<1>1. D # {} /\ D \in SUBSET Nat
  <2>1. PICK d \in 2 .. n - 1 : n % d = 0
    BY DEF Loop!IsPrime
  <2>2. D # {}
    BY <2>1, Zenon
  <2>3. 2 .. n - 1 \in SUBSET Nat
    OBVIOUS
  <2> QED
    BY <2>2, <2>3, Zenon
<1>2. PICK d \in D : \A e \in D : ~(e < d)
  BY <1>1, LeastOf
<1>3. /\ d \in 2 .. n - 1 /\ d \in Nat \ {0} /\ d > 1 /\ d < n /\ n % d = 0
      /\ \A e \in 2 .. d - 1 : n % e # 0
  <2>1. d \in 2 .. n - 1 /\ n % d = 0
    OBVIOUS
  <2>2. ASSUME NEW e \in 2 .. d - 1, n % e = 0 PROVE FALSE
    <3>1. e \in D /\ e < d
      BY <2>1, <2>2
    <3> HIDE DEF D
    <3> QED
      BY <1>2, <3>1
  <2>3. d \in Nat \ {0} /\ d > 1 /\ d < n
    BY <2>1
  <2> QED
    BY <2>1, <2>2, <2>3, Zenon
<1> HIDE DEF D
<1>4. Loop!IsPrime(d)
  <2>1. ASSUME NEW e \in 2 .. d - 1, d % e = 0 PROVE FALSE
    <3>1. e \in Nat \ {0}
      BY <1>3
    <3>2. n % e = 0
      BY <1>3, <2>1, <3>1, DivisorTransitive
    <3> QED
      BY <1>3, <3>2
  <2> QED
    BY <1>3, <2>1 DEF Loop!IsPrime
<1>5. d * d <= n
  <2>1. PICK q \in Nat : n = d * q
    BY <1>3, DividesIs
  <2>2. q > 1 /\ q < n
    BY <1>3, <2>1
  <2>3. n = q * d
    BY <1>3, <2>1
  <2>4. n % q = 0
    BY <1>3, <2>2, <2>3, DividesIs
  <2>5. d <= q
    <3>1. q < d => q \in 2 .. d - 1
      BY <1>3, <2>2
    <3>2. ~(q < d)
      BY <1>3, <2>4, <3>1, Zenon
    <3> QED
      BY <1>3, <3>2
  <2> QED
    BY <1>3, <2>1, <2>5
<1> QED
  BY <1>3, <1>4, <1>5

-------------------------------------------------------------------------------
(* Trial division by the primes found so far.                              *)

\* The first n entries of a table are the primes below q, in order.
Lists(table, n, q) ==
    /\ \A k \in 0 .. n - 1 : table[k] \in Nat /\ table[k] < q /\ Loop!IsPrime(table[k])
    /\ \A j, k \in 0 .. n - 1 : j < k => table[j] < table[k]
    /\ \A m \in Nat : m < q /\ Loop!IsPrime(m) => \E k \in 0 .. n - 1 : table[k] = m

\* The trial lets a candidate through just if it is prime: its least divisor is
\* in the table, and no smaller entry's square is larger than the candidate.
LEMMA PassesIfPrime ==
  ASSUME NEW table, NEW n \in Nat, NEW q \in Nat, Lists(table, n, q),
         NEW c \in Nat, c > 1, q <= c, \A e \in q .. c - 1 : ~Loop!IsPrime(e)
  PROVE  Loop!Passes(c, table, n) <=> Loop!IsPrime(c)
<1>1. ASSUME Loop!IsPrime(c), NEW k \in 0 .. n - 1 PROVE c % table[k] # 0
  <2>1. table[k] \in 2 .. c - 1
    BY DEF Lists, Loop!IsPrime
  <2> QED
    BY <1>1, <2>1 DEF Loop!IsPrime
<1>2. ASSUME ~Loop!IsPrime(c), Loop!Passes(c, table, n) PROVE FALSE
  <2>1. PICK d \in 2 .. c - 1 : c % d = 0 /\ d * d <= c /\ Loop!IsPrime(d)
    BY <1>2, LeastDivisor
  <2>2. d \in Nat /\ d < q
    BY <2>1
  <2>3. PICK k \in 0 .. n - 1 : table[k] = d
    BY <2>1, <2>2 DEF Lists
  <2>4. PICK j \in 0 .. k - 1 : table[j] * table[j] > c
    BY <1>2, <2>1, <2>3, Zenon DEF Loop!Passes
  <2>5. table[j] \in Nat /\ table[j] < d
    BY <2>3 DEF Lists
  <2>6. table[j] * table[j] <= d * d
    <3>1. PICK x \in Nat : x = table[j]
      BY <2>5
    <3>2. x < d
      BY <2>5, <3>1
    <3>3. x * x <= d * d
      BY <2>2, <3>2
    <3> QED
      BY <3>1, <3>3
  <2>7. table[j] * table[j] \in Nat /\ d * d \in Nat
    BY <2>2, <2>5
  <2> QED
    BY <2>1, <2>4, <2>6, <2>7
<1> QED
  BY <1>1, <1>2, Zenon DEF Loop!Passes

\* The next prime, if the bound lets there be one.
LEMMA NextIs ==
  ASSUME MaxPrime \in Nat,
         NEW table, NEW n \in Nat, NEW q \in Nat, q > 1, Lists(table, n, q),
         NEW r \in q .. MaxPrime, Loop!IsPrime(r)
  PROVE  /\ Loop!NextPrime(q, table, n) \in q .. MaxPrime
         /\ Loop!IsPrime(Loop!NextPrime(q, table, n))
         /\ \A e \in q .. Loop!NextPrime(q, table, n) - 1 : ~Loop!IsPrime(e)
<1> DEFINE Is(d) == /\ Loop!Passes(d, table, n)
                    /\ \A e \in q .. (d - 1) : ~Loop!Passes(e, table, n)
<1>1. ASSUME NEW b \in Nat, q <= b, Loop!IsPrime(b)
      PROVE  \E d \in q .. b : /\ Loop!IsPrime(d) /\ Loop!Passes(d, table, n)
                               /\ \A e \in q .. d - 1 : ~Loop!IsPrime(e)
  <2> DEFINE D == {d \in q .. b : Loop!IsPrime(d)}
  <2>1. D # {} /\ D \in SUBSET Nat
    BY <1>1
  <2>2. PICK d \in D : \A e \in D : ~(e < d)
    BY <2>1, LeastOf
  <2>3. d \in q .. b /\ d \in Nat /\ q <= d /\ d > 1 /\ Loop!IsPrime(d)
    BY <2>1
  <2>4. ASSUME NEW e \in q .. d - 1, Loop!IsPrime(e) PROVE FALSE
    <3>1. e \in D /\ e < d
      BY <1>1, <2>3, <2>4
    <3> QED
      BY <2>2, <3>1
  <2>5. Loop!Passes(d, table, n)
    <3> HIDE DEF D
    <3> QED
      BY <2>3, <2>4, PassesIfPrime
  <2> QED
    BY <2>3, <2>4, <2>5, Zenon
<1>2. ASSUME NEW d \in Nat, q <= d, \A e \in q .. d - 1 : ~Loop!IsPrime(e)
      PROVE  \A e \in q .. d - 1 : ~Loop!Passes(e, table, n)
  <2> SUFFICES ASSUME NEW e \in q .. d - 1, Loop!Passes(e, table, n) PROVE FALSE
    OBVIOUS
  <2>1. e \in Nat /\ e > 1 /\ q <= e /\ \A f \in q .. e - 1 : ~Loop!IsPrime(f)
    BY <1>2
  <2> QED
    BY <1>2, <2>1, PassesIfPrime
<1>3. \E d \in q .. MaxPrime : Is(d)
  <2>1. r \in Nat /\ q <= r
    OBVIOUS
  <2>2. PICK d \in q .. r : /\ Loop!IsPrime(d) /\ Loop!Passes(d, table, n)
                            /\ \A e \in q .. d - 1 : ~Loop!IsPrime(e)
    BY <1>1, <2>1
  <2>3. d \in Nat /\ q <= d /\ d \in q .. MaxPrime
    BY <2>1
  <2> QED
    BY <1>2, <2>2, <2>3
<1>4. ASSUME NEW d \in q .. MaxPrime, Is(d)
      PROVE  Loop!IsPrime(d) /\ \A e \in q .. d - 1 : ~Loop!IsPrime(e)
  <2>1. ASSUME NEW b \in q .. d - 1, Loop!IsPrime(b) PROVE FALSE
    <3>1. b \in Nat /\ q <= b
      OBVIOUS
    <3>2. PICK e \in q .. b : Loop!Passes(e, table, n)
      BY <2>1, <3>1, <1>1
    <3>3. e \in q .. d - 1
      OBVIOUS
    <3> QED
      BY <1>4, <3>2, <3>3
  <2>2. d \in Nat /\ d > 1 /\ q <= d /\ \A e \in q .. d - 1 : ~Loop!IsPrime(e)
    BY <2>1
  <2> QED
    BY <1>4, <2>2, PassesIfPrime
<1>5. PICK d : d = Loop!NextPrime(q, table, n)
  OBVIOUS
<1>6. d \in q .. MaxPrime /\ Is(d)
  <2>1. d = CHOOSE x \in q .. MaxPrime : Is(x)
    BY <1>5 DEF Loop!NextPrime
  <2> HIDE DEF Is
  <2> QED
    BY <1>3, <2>1
<1> QED
  BY <1>4, <1>5, <1>6

-------------------------------------------------------------------------------
(* The table.                                                              *)

PrimesUpto(n) == {m \in 1 .. n : Loop!IsPrime(m)}

\* The primes below p are in the table, and as many as the work done.
Listed == /\ p \in Nat /\ p > 1
          /\ Lists(primes, Len(work), p)
          /\ Cardinality(PrimesUpto(p - 1)) = Len(work)

TableInv == ~spurious =>
    /\ DOMAIN primes = 0 .. N - 1
    /\ Len(work) <= N => Listed
    /\ TableIsRightAsFar

\* Main prints the last entry, and nothing happens afterwards.
ShownInv == shown # <<>> => main = "done" /\ shown = <<primes[N - 1]>>

PrimeInv == QueueInv /\ TableInv /\ ShownInv

\* The primes up to a number are finitely many.
LEMMA PrimesUptoIs ==
  ASSUME NEW n \in Nat
  PROVE  IsFiniteSet(PrimesUpto(n)) /\ Cardinality(PrimesUpto(n)) \in Nat
<1>1. IsFiniteSet(1 .. n) /\ PrimesUpto(n) \subseteq 1 .. n
  BY FS_Interval DEF PrimesUpto
<1> QED
  BY <1>1, FS_Subset, FS_CardinalityType

\* The sequential module's Cardinality is this module's.
LEMMA SameCardinality == ASSUME NEW S PROVE Loop!Cardinality(S) = Cardinality(S)
BY Zenon DEF Cardinality, Loop!Cardinality

\* There is room for the next prime as long as the table is not full.
LEMMA RoomForNext ==
  ASSUME CountsUp, MaxPrime \in Nat, Listed, Len(work) < N, Len(work) \in Nat
  PROVE  \E r \in p .. MaxPrime : Loop!IsPrime(r)
<1> SUFFICES ASSUME \A r \in p .. MaxPrime : ~Loop!IsPrime(r) PROVE FALSE
  OBVIOUS
<1>1. p \in Nat /\ p - 1 \in Nat
  BY DEF Listed
<1>2. PrimesUpto(MaxPrime) \subseteq PrimesUpto(p - 1)
  <2> SUFFICES ASSUME NEW m \in 1 .. MaxPrime, Loop!IsPrime(m) PROVE m \in 1 .. p - 1
    BY DEF PrimesUpto
  <2>1. m \notin p .. MaxPrime
    OBVIOUS
  <2> QED
    BY <1>1, <2>1
<1>3. Cardinality(PrimesUpto(MaxPrime)) <= Cardinality(PrimesUpto(p - 1))
  BY <1>1, <1>2, PrimesUptoIs, FS_Subset
<1>4. Cardinality(PrimesUpto(MaxPrime)) >= N
  BY DEF CountsUp, PrimesUpto
<1>5. Cardinality(PrimesUpto(MaxPrime)) \in Nat /\ Cardinality(PrimesUpto(p - 1)) = Len(work)
  BY PrimesUptoIs DEF Listed
<1> QED
  BY <1>3, <1>4, <1>5, ItemsAre

\* A prime found goes to the end of the list, as the next of all primes.
LEMMA ListGrows ==
  ASSUME CountsUp, MaxPrime \in Nat, Listed, Len(work) < N, Len(work) \in Nat,
         DOMAIN primes = 0 .. N - 1,
         NEW q, q = Loop!NextPrime(p, primes, Len(work)),
         NEW new, new = [primes EXCEPT ![Len(work)] = q]
  PROVE  /\ q \in Nat /\ q + 1 \in Nat /\ q + 1 > 1
         /\ Lists(new, Len(work) + 1, q + 1)
         /\ Cardinality(PrimesUpto(q)) = Len(work) + 1
         /\ Loop!IsKthPrime(q, Len(work) + 1)
<1>1. PICK n \in Nat : n = Len(work)
  OBVIOUS
<1>2. p \in Nat /\ p > 1 /\ Lists(primes, n, p) /\ Cardinality(PrimesUpto(p - 1)) = n
  BY <1>1 DEF Listed
<1>3. PICK r \in p .. MaxPrime : Loop!IsPrime(r)
  BY RoomForNext
<1>4. q \in p .. MaxPrime /\ Loop!IsPrime(q) /\ \A e \in p .. q - 1 : ~Loop!IsPrime(e)
  BY <1>1, <1>2, <1>3, NextIs
<1>5. q \in Nat /\ p <= q /\ q > 1
  BY <1>2, <1>4
<1>6. new[n] = q /\ \A k \in 0 .. n - 1 : new[k] = primes[k]
  BY <1>1, ItemsAre
<1>7. Lists(new, n + 1, q + 1)
  <2>1. \A k \in 0 .. n : k = n \/ k \in 0 .. n - 1
    OBVIOUS
  <2>2. ASSUME NEW k \in 0 .. (n + 1) - 1
        PROVE  new[k] \in Nat /\ new[k] < q + 1 /\ Loop!IsPrime(new[k])
    <3>1. CASE k = n
      BY <1>4, <1>5, <1>6, <3>1
    <3>2. CASE k \in 0 .. n - 1
      <4>1. primes[k] \in Nat /\ primes[k] < p /\ Loop!IsPrime(primes[k])
        BY <1>2, <3>2 DEF Lists
      <4> QED
        BY <1>2, <1>5, <1>6, <3>2, <4>1
    <3> QED
      BY <2>1, <3>1, <3>2
  <2>3. ASSUME NEW j \in 0 .. (n + 1) - 1, NEW k \in 0 .. (n + 1) - 1, j < k
        PROVE  new[j] < new[k]
    <3>1. j \in 0 .. n - 1
      BY <2>3
    <3>2. new[j] = primes[j] /\ primes[j] \in Nat /\ primes[j] < p
      BY <1>2, <1>6, <3>1 DEF Lists
    <3>3. CASE k = n
      BY <1>2, <1>5, <1>6, <3>2, <3>3
    <3>4. CASE k \in 0 .. n - 1
      BY <1>2, <1>6, <2>3, <3>1, <3>4 DEF Lists
    <3> QED
      BY <2>1, <3>3, <3>4
  <2>4. ASSUME NEW m \in Nat, m < q + 1, Loop!IsPrime(m)
        PROVE  \E k \in 0 .. (n + 1) - 1 : new[k] = m
    <3>1. m < p \/ m \in p .. q - 1 \/ m = q
      BY <1>2, <1>5, <2>4
    <3>2. CASE m < p
      <4>1. PICK k \in 0 .. n - 1 : primes[k] = m
        BY <1>2, <2>4, <3>2 DEF Lists
      <4> QED
        BY <1>6, <4>1
    <3>3. CASE m = q
      BY <1>6, <3>3
    <3> QED
      BY <1>4, <2>4, <3>1, <3>2, <3>3
  <2> QED
    BY <2>2, <2>3, <2>4 DEF Lists
<1>8. Cardinality(PrimesUpto(q)) = n + 1
  <2>1. PrimesUpto(q) = PrimesUpto(p - 1) \cup {q} /\ q \notin PrimesUpto(p - 1)
    <3>1. q \notin PrimesUpto(p - 1) /\ q \in PrimesUpto(q)
      BY <1>2, <1>4, <1>5 DEF PrimesUpto
    <3>2. PrimesUpto(p - 1) \subseteq PrimesUpto(q)
      BY <1>2, <1>5 DEF PrimesUpto
    <3>3. ASSUME NEW m \in PrimesUpto(q), m # q PROVE m \in PrimesUpto(p - 1)
      <4>1. m \in 1 .. q /\ Loop!IsPrime(m)
        BY DEF PrimesUpto
      <4>2. m \notin p .. q - 1
        BY <1>4, <4>1
      <4>3. m \in 1 .. p - 1
        BY <1>2, <1>5, <3>3, <4>1, <4>2
      <4> QED
        BY <4>1, <4>3 DEF PrimesUpto
    <3> QED
      BY <3>1, <3>2, <3>3
  <2>2. p - 1 \in Nat
    BY <1>2
  <2>3. IsFiniteSet(PrimesUpto(p - 1))
    BY <2>2, PrimesUptoIs
  <2> QED
    BY <1>2, <2>1, <2>3, FS_AddElement
<1>9. Loop!IsKthPrime(q, n + 1)
  <2>1. n + 1 = Loop!Cardinality({m \in 1 .. q : Loop!IsPrime(m)})
    BY <1>8, SameCardinality, Zenon DEF PrimesUpto
  <2> QED
    BY <1>4, <2>1, Zenon DEF Loop!IsKthPrime
<1> QED
  BY <1>1, <1>5, <1>7, <1>8, <1>9

\* In a run without spurious wakeups the n-th datum is n - 1 and the one after
\* the last, if the worker takes it, 0.
LEMMA DatumIs ==
  ASSUME CountsUp, QueueInv, Work, ~spurious
  PROVE  /\ Len(work) \in 0 .. N /\ Len(work') = Len(work) + 1
         /\ spurious' = spurious
         /\ datum = IF Len(work) < N THEN Len(work) ELSE 0
<1>1. /\ work \in Seq(Datum) /\ datum \in Datum /\ work' = Append(work, datum)
      /\ spurious' = spurious /\ HasDatum
  BY DEF Work, QueueInv, QueueTypeOK, HasDatum, flags
<1>2. Len(work) \in Nat /\ Len(work') = Len(work) + 1
  BY <1>1, AppendGives
<1>3. popped = Len(work) + 1 /\ popped <= Len(sent) /\ datum = Nth(popped)
  BY <1>1 DEF QueueInv, WorkIsCounted, WorkIsNth
<1>4. Len(sent) <= N + 1
  BY ItemsAre DEF QueueInv, QueueTypeOK, SentIsItems, Pushed, Ended, MainPlace
<1>5. Len(work) \in 0 .. N
  BY <1>2, <1>3, <1>4, ItemsAre DEF QueueInv, QueueTypeOK
<1>6. datum = IF Len(work) < N THEN Len(work) ELSE 0
  BY <1>2, <1>3, <1>5, ItemsAre DEF Nth, CountsUp
<1> QED
  BY <1>1, <1>2, <1>5, <1>6

LEMMA FindPrimeStep ==
  ASSUME CountsUp, MaxPrime \in Nat, PrimeInv, FindPrime
  PROVE  TableInv'
<1> SUFFICES ASSUME ~spurious'
             PROVE  /\ DOMAIN primes' = 0 .. N - 1
                    /\ Len(work') <= N => Listed'
                    /\ TableIsRightAsFar'
  BY DEF TableInv
<1> DEFINE n == Len(work)
           q == Loop!NextPrime(p, primes, datum)
<1>1. Work /\ primes' = [primes EXCEPT ![datum] = q] /\ p' = q + 1
  BY DEF FindPrime
<1>2. ~spurious
  BY <1>1 DEF Work, flags
<1>3. n \in 0 .. N /\ Len(work') = n + 1 /\ datum = IF n < N THEN n ELSE 0
  BY <1>1, <1>2, DatumIs DEF PrimeInv
<1>4. N \in Nat /\ n \in Nat
  <2> HIDE DEF n, q
  <2> QED
    BY <1>3, ItemsAre
<1>5. /\ DOMAIN primes = 0 .. N - 1 /\ (n <= N => Listed) /\ Done = n
      /\ \A k \in 0 .. n - 1 : Loop!IsKthPrime(primes[k], k + 1)
      /\ \A k \in n .. N - 1 : primes[k] = 0
  <2>1. Done = n /\ ~(n > N)
    <3>1. Done = IF n <= N THEN n ELSE N
      BY DEF Done
    <3> HIDE DEF n, q
    <3> QED
      BY <1>3, <1>4, <3>1
  <2> QED
    BY <1>2, <2>1, Zenon DEF PrimeInv, TableInv, TableIsRightAsFar
<1>6. DOMAIN primes' = 0 .. N - 1
  BY <1>1, <1>5
<1>7. CASE n < N
  <2>1. Done' = n + 1 /\ datum = n /\ Listed
    <3>1. Done' = IF Len(work') <= N THEN Len(work') ELSE N
      BY DEF Done, N
    <3> HIDE DEF n, q
    <3>2. n + 1 <= N /\ n <= N
      BY <1>4, <1>7
    <3> QED
      BY <1>3, <1>5, <1>7, <3>1, <3>2
  <2>2. /\ q \in Nat /\ q + 1 \in Nat /\ q + 1 > 1 /\ Lists(primes', n + 1, q + 1)
        /\ Cardinality(PrimesUpto(q)) = n + 1 /\ Loop!IsKthPrime(q, n + 1)
    BY <1>1, <1>4, <1>5, <1>7, <2>1, ListGrows
  <2>3. Listed'
    <3>1. (q + 1) - 1 = q
      BY <2>2
    <3> HIDE DEF q
    <3> QED
      BY <1>1, <1>3, <2>2, <3>1 DEF Listed
  <2>4. TableIsRightAsFar'
    <3> HIDE DEF q
    <3>1. \A k \in 0 .. N - 1 : primes'[k] = IF k = n THEN q ELSE primes[k]
      BY <1>1, <1>5, <2>1
    <3>2. ASSUME NEW k \in 0 .. n PROVE Loop!IsKthPrime(primes'[k], k + 1)
      <4>1. CASE k = n
        <5> HIDE DEF n
        <5>1. k \in 0 .. N - 1
          BY <1>4, <1>7, <4>1
        <5> QED
          BY <2>2, <3>1, <4>1, <5>1
      <4>2. CASE k # n
        <5> HIDE DEF n
        <5>1. k \in 0 .. n - 1 /\ k \in 0 .. N - 1
          BY <1>4, <1>7, <4>2
        <5> QED
          BY <1>5, <3>1, <4>2, <5>1
      <4> QED
        BY <4>1, <4>2
    <3>3. ASSUME NEW k \in n + 1 .. N - 1 PROVE primes'[k] = 0
      BY <1>4, <1>5, <3>1
    <3>4. 0 .. (Done' - 1) = 0 .. n /\ Done' .. N - 1 = n + 1 .. N - 1
      BY <1>4, <2>1
    <3> QED
      BY <3>2, <3>3, <3>4 DEF TableIsRightAsFar
  <2> QED
    BY <1>3, <1>6, <2>3, <2>4
<1>8. CASE n = N
  <2>1. Done' = N /\ datum = 0
    <3>1. Done' = IF Len(work') <= N THEN Len(work') ELSE N
      BY DEF Done, N
    <3> HIDE DEF n, q
    <3>2. ~(n + 1 <= N) /\ ~(n < N)
      BY <1>4, <1>8
    <3> QED
      BY <1>3, <3>1, <3>2
  <2>2. \A k \in 1 .. N - 1 : primes'[k] = primes[k]
    <3> HIDE DEF q
    <3> QED
      BY <1>1, <1>5, <2>1
  <2>3. ASSUME NEW k \in 0 .. N - 1, k # 0 PROVE Loop!IsKthPrime(primes'[k], k + 1)
    <3>1. k \in 1 .. N - 1 /\ k \in 0 .. n - 1
      BY <1>4, <1>8, <2>3
    <3> QED
      BY <1>5, <2>2, <3>1
  <2>4. Len(work') > N /\ 0 .. (Done' - 1) = 0 .. N - 1 /\ Done' .. N - 1 = {}
    BY <1>3, <1>4, <1>8, <2>1
  <2>5. TableIsRightAsFar'
    BY <2>3, <2>4 DEF TableIsRightAsFar
  <2> QED
    BY <1>3, <1>4, <1>6, <1>8, <2>5
<1>9. n < N \/ n = N
  <2> HIDE DEF n, q
  <2> QED
    BY <1>3, <1>4
<1> QED
  BY <1>7, <1>8, <1>9

LEMMA PrimesInitially == CountsUp /\ PrimeInit => PrimeInv
<1> SUFFICES ASSUME CountsUp, PrimeInit PROVE PrimeInv
  OBVIOUS
<1>1. QueueInv
  BY QueueFresh DEF PrimeInit, PQInit
<1>2. work = <<>> /\ p = 2 /\ primes = [k \in 0 .. (N - 1) |-> 0] /\ Len(work) = 0
  BY DEF PrimeInit, PQInit
<1>3. Listed
  <2>1. \A m \in Nat : m < 2 => ~Loop!IsPrime(m)
    BY DEF Loop!IsPrime
  <2>2. PrimesUpto(p - 1) = {}
    BY <1>2, <2>1 DEF PrimesUpto
  <2>3. Lists(primes, 0, 2)
    BY <2>1 DEF Lists
  <2>4. Cardinality(PrimesUpto(p - 1)) = 0
    BY <2>2, FS_EmptySet
  <2> QED
    BY <1>2, <2>3, <2>4 DEF Listed
<1>4. TableIsRightAsFar
  <2>1. Done = 0 /\ N \in Nat
    BY <1>2, ItemsAre DEF Done
  <2> QED
    BY <1>2, <2>1 DEF TableIsRightAsFar
<1>5. ShownInv
  BY DEF PrimeInit, ShownInv
<1> QED
  BY <1>1, <1>2, <1>3, <1>4, <1>5 DEF PrimeInv, TableInv

\* The queue and the table stay right; the table changes only when the worker
\* works.
LEMMA PrimesStep == CountsUp /\ MaxPrime \in Nat /\ PrimeInv /\ [PrimeNext]_primeVars => PrimeInv'
<1> SUFFICES ASSUME CountsUp, MaxPrime \in Nat, PrimeInv, [PrimeNext]_primeVars PROVE PrimeInv'
  OBVIOUS
<1>1. ASSUME p' = p, primes' = primes, work' = work, ~spurious' => ~spurious
      PROVE  TableInv'
  <2>1. Done' = Done
    BY <1>1 DEF Done
  <2>2. Listed' <=> Listed
    BY <1>1 DEF Listed
  <2> QED
    BY <1>1, <2>1, <2>2 DEF PrimeInv, TableInv, TableIsRightAsFar
<1>2. ASSUME main # "done", shown' = shown
      PROVE  ShownInv'
  BY <1>2 DEF PrimeInv, ShownInv
<1>3. CASE MainStep /\ UNCHANGED <<tableVars, shown>>
  <2>1. QueueInv'
    BY <1>3, QueueMainStep DEF PrimeInv
  <2>2. work' = work /\ spurious' = spurious /\ main # "done"
    BY <1>3 DEF MainStep, Spawn, ProduceLock, Push, Notify, ProduceUnlock, EndLock, PushEnd,
       EndUnlock, Join, flags
  <2> QED
    BY <1>1, <1>2, <1>3, <2>1, <2>2 DEF PrimeInv, tableVars
<1>4. CASE (QueueStep \/ SpuriousWake) /\ UNCHANGED <<tableVars, shown>>
  <2>1. QueueInv'
    BY <1>4, QueueWorkerStep DEF PrimeInv
  <2>2. work' = work /\ (~spurious' => ~spurious)
    BY <1>4 DEF QueueStep, TestLock, Peek, TestUnlock, ConsumeLock, Check, Reacquire, Take,
       ConsumeUnlock, SpuriousWake, flags
  <2>3. worker # "done"
    BY <1>4 DEF QueueStep, TestLock, Peek, TestUnlock, ConsumeLock, Check, Reacquire, Take,
       ConsumeUnlock, SpuriousWake
  <2>4. main # "done"
    BY <2>3 DEF PrimeInv, QueueInv, MainPlace
  <2> QED
    BY <1>1, <1>2, <1>4, <2>1, <2>2, <2>4 DEF PrimeInv, tableVars
<1>5. CASE FindPrime
  <2>1. QueueInv'
    BY <1>5, QueueWorkerStep DEF PrimeInv, FindPrime
  <2>2. main # "done" /\ shown' = shown
    BY <1>5 DEF FindPrime, Work, PrimeInv, QueueInv, MainPlace
  <2> QED
    BY <1>2, <1>5, <2>1, <2>2, FindPrimeStep DEF PrimeInv
<1>6. ASSUME UNCHANGED <<pqvars, tableVars>> PROVE QueueInv' /\ TableInv'
  <2>1. QueueInv'
    BY <1>6 DEF pqvars, PrimeInv, QueueInv, QueueTypeOK, MainPlace, Exclusion, SentIsItems, Sleep,
       WorkIsCounted, WorkIsNth, OnlyNotified, NeverStarved, Pushed, Ended, HasDatum, WillTake,
       FrontPacket, Nth
  <2> QED
    BY <1>1, <1>6, <2>1 DEF pqvars, tableVars
<1>7. CASE Show
  BY <1>6, <1>7 DEF Show, PrimeInv, ShownInv, pqvars, tableVars
<1>8. CASE UNCHANGED primeVars
  <2>1. UNCHANGED <<pqvars, tableVars>> /\ shown' = shown /\ main' = main /\ primes' = primes
    BY <1>8 DEF primeVars, pqvars, tableVars
  <2> QED
    BY <1>6, <2>1 DEF PrimeInv, ShownInv
<1> QED
  BY <1>3, <1>4, <1>5, <1>7, <1>8 DEF PrimeNext

-------------------------------------------------------------------------------
(* The theorems.                                                           *)

\* What a run is for.
PrintsNthPrime == ~starved /\ ~spurious /\ shown # <<>> => Loop!IsKthPrime(shown[1], N)

\* The queue is as QueueInv says and the table as TableInv says, whatever the
\* schedule, for every N.
THEOREM PrimesInductive == CountsUp => (PrimeSpec => []PrimeInv)
<1> SUFFICES ASSUME CountsUp PROVE PrimeSpec => []PrimeInv
  OBVIOUS
<1>1. PrimeInit => PrimeInv
  BY PrimesInitially
<1>2. PrimeInv /\ [PrimeNext]_primeVars => PrimeInv'
  BY PrimesStep, PrimeAssumption
<1> QED
  BY <1>1, <1>2, PTL DEF PrimeSpec

\* Trial division up to the square root finds every prime and nothing else, in
\* every schedule without spurious wakeups (nth-prime-dswp.cpp:61-81).
THEOREM TheTableIsRight == CountsUp => (PrimeSpec => []TableIsRightAsFar)
<1> SUFFICES ASSUME CountsUp PROVE PrimeSpec => []TableIsRightAsFar
  OBVIOUS
<1>1. PrimeInv => TableIsRightAsFar
  BY DEF PrimeInv, TableInv, TableIsRightAsFar
<1>2. PrimeSpec => []PrimeInv
  BY PrimesInductive
<1> QED
  BY <1>1, <1>2, PTL

\* What the worker does of the loop is what the sequential program does, step for
\* step, until it takes the end packet's datum or wakes for nothing.
THEOREM PrimesAreSequential == CountsUp => (PrimeSpec => CleanRunIsSequential)
<1> SUFFICES ASSUME CountsUp PROVE PrimeSpec => CleanRunIsSequential
  OBVIOUS
<1>1. ASSUME PrimeInv, [PrimeNext]_primeVars
      PROVE  spurious \/ Len(work') > N \/ [Loop!Next]_<<p, primes, Done>>
  <2> SUFFICES ASSUME ~spurious, ~(Len(work') > N)
               PROVE  [Loop!Next]_<<p, primes, Done>>
    OBVIOUS
  <2>1. CASE FindPrime
    <3>1. /\ Len(work) \in 0 .. N /\ Len(work') = Len(work) + 1
          /\ datum = IF Len(work) < N THEN Len(work) ELSE 0
      BY <1>1, <2>1, DatumIs DEF FindPrime, PrimeInv
    <3>2. N \in Nat
      BY ItemsAre
    <3>3. Done = Len(work) /\ Done < N /\ Done' = Done + 1 /\ datum = Done
      BY <3>1, <3>2 DEF Done
    <3> QED
      BY <2>1, <3>3 DEF FindPrime, Loop!Next, Loop!AddPrime
  <2>2. CASE ~FindPrime
    <3>1. work' = work /\ p' = p /\ primes' = primes
      BY <1>1, <2>2 DEF PrimeNext, Show, primeVars, tableVars, pqvars, MainStep, Spawn, ProduceLock,
         Push, Notify, ProduceUnlock, EndLock, PushEnd, EndUnlock, Join, QueueStep, TestLock, Peek,
         TestUnlock, ConsumeLock, Check, Reacquire, Take, ConsumeUnlock, SpuriousWake
    <3> QED
      BY <3>1 DEF Done
  <2> QED
    BY <2>1, <2>2
<1>2. PrimeSpec => []PrimeInv
  BY PrimesInductive
<1> QED
  BY <1>1, <1>2, PTL DEF PrimeSpec, CleanRunIsSequential

\* When end_reached() never read an empty queue, the number printed is the N-th
\* prime (nth-prime-dswp.cpp:83-97): what the early end of SixthPrimeIs13 spoils.
THEOREM CleanRunPrintsNthPrime == CountsUp /\ N > 0 => (PrimeSpec => []PrintsNthPrime)
<1> SUFFICES ASSUME CountsUp, N > 0 PROVE PrimeSpec => []PrintsNthPrime
  OBVIOUS
<1>1. ASSUME PrimeInv, ~starved, ~spurious, shown # <<>>
      PROVE  Loop!IsKthPrime(shown[1], N)
  <2>1. main = "done" /\ worker = "done" /\ shown[1] = primes[N - 1]
    BY <1>1 DEF PrimeInv, ShownInv, QueueInv, MainPlace
  <2>2. Len(work) = N /\ N \in Nat
    BY <1>1, <2>1, ItemsAre
       DEF PrimeInv, QueueInv, QueueTypeOK, NeverStarved, WorkIsCounted, HasDatum
  <2>3. Done = N /\ N - 1 \in 0 .. N - 1 /\ (N - 1) + 1 = N /\ ~(N - 1 = 0 /\ Len(work) > N)
    BY <2>2 DEF Done
  <2>4. Loop!IsKthPrime(primes[N - 1], N)
    BY <1>1, <2>3 DEF PrimeInv, TableInv, TableIsRightAsFar
  <2> QED
    BY <2>1, <2>4
<1>2. PrimeInv => PrintsNthPrime
  BY <1>1 DEF PrintsNthPrime
<1>3. PrimeSpec => []PrimeInv
  BY PrimesInductive
<1> QED
  BY <1>2, <1>3, PTL

\* What main waits for in nth-prime-dswp, and that a run in which the worker never
\* found the queue empty goes on until main has printed.
PrimeMainWaits ==
  \/ main = "loop" /\ mutex # "free"
  \/ main = "join" /\ worker # "done"
  \/ main = "done" /\ shown # <<>>
PrimesGoOn == ~starved => shown # <<>> \/ ~PrimeMainWaits \/ ~WorkerWaits

\* The steps left at most, the printing included.
PrimeLeft == QueueLeft + (IF shown = <<>> THEN 1 ELSE 0)

\* No deadlock but the one of a queue found empty: while end_reached() has told
\* the truth, one of the threads can go on until the number is printed
\* (nth-prime-dswp.cpp:48-97).
THEOREM CleanPrimesGoOn == CountsUp => (PrimeSpec => []PrimesGoOn)
<1> SUFFICES ASSUME CountsUp PROVE PrimeSpec => []PrimesGoOn
  OBVIOUS
<1>1. ASSUME PrimeInv, ~starved, WorkerWaits, PrimeMainWaits
      PROVE  shown # <<>>
  <2>1. \/ mutex = "main"
        \/ mutex = "free" /\ main \in {"spawn", "loop", "done"}
        \/ mutex = "free" /\ main = "join" /\ worker = "done"
    BY <1>1, QueueMoves DEF PrimeInv
  <2>2. mutex = "main" => main \notin {"loop", "join", "done"}
    BY <1>1 DEF PrimeInv, QueueInv, Exclusion
  <2> QED
    BY <1>1, <2>1, <2>2 DEF PrimeMainWaits
<1>2. PrimeInv => PrimesGoOn
  BY <1>1 DEF PrimesGoOn
<1>3. PrimeSpec => []PrimeInv
  BY PrimesInductive
<1> QED
  BY <1>2, <1>3, PTL

\* And there are only so many steps to make: every step of the program, the
\* wakeups included, lowers a number that a clean run keeps at 0 or above.
THEOREM EveryPrimeStepCounts ==
  CountsUp => (PrimeSpec => [](~starved => PrimeLeft \in Nat) /\ [][PrimeLeft' < PrimeLeft]_primeVars)
<1> SUFFICES ASSUME CountsUp
             PROVE  PrimeSpec => [](~starved => PrimeLeft \in Nat) /\ [][PrimeLeft' < PrimeLeft]_primeVars
  OBVIOUS
<1>1. PrimeInv => (~starved => PrimeLeft \in Nat)
  BY QueueLeftIs, ItemsAre DEF PrimeInv, PrimeLeft
<1>2. PrimeInv /\ [PrimeNext]_primeVars => [PrimeLeft' < PrimeLeft]_primeVars
  <2> SUFFICES ASSUME PrimeInv, PrimeNext
               PROVE  PrimeLeft' < PrimeLeft
    OBVIOUS
  <2>1. QueueLeft \in Int /\ QueueInv
    BY QueueLeftIs DEF PrimeInv
  <2>2. CASE ((MainStep \/ QueueStep \/ SpuriousWake) /\ UNCHANGED <<tableVars, shown>>) \/ FindPrime
    <3>1. shown' = shown /\ QueueLeft' \in Int /\ QueueLeft' < QueueLeft
      <4>1. shown' = shown /\ (MainStep \/ QueueStep \/ Work \/ SpuriousWake)
        BY <2>2 DEF FindPrime
      <4> QED
        BY <2>1, <4>1, QueueCounts
    <3>2. PICK k : k = IF shown = <<>> THEN 1 ELSE 0
      OBVIOUS
    <3>3. PrimeLeft = QueueLeft + k /\ PrimeLeft' = QueueLeft' + k
      BY <3>1, <3>2 DEF PrimeLeft
    <3>4. k \in Int
      BY <3>2
    <3>5. \A a, b, c \in Int : a < b => a + c < b + c
      OBVIOUS
    <3> QED
      BY <2>1, <3>1, <3>3, <3>4, <3>5, Zenon
  <2>3. CASE Show
    <3>1. shown = <<>> /\ shown' # <<>>
      BY <2>3 DEF Show
    <3>2. QueueLeft' = QueueLeft
      BY <2>3 DEF Show, pqvars, QueueLeft, MainAfter, WorkerAfter, N
    <3> QED
      BY <2>1, <3>1, <3>2 DEF PrimeLeft
  <2> QED
    BY <2>2, <2>3 DEF PrimeNext
<1>3. PrimeSpec => []PrimeInv
  BY PrimesInductive
<1> QED
  BY <1>1, <1>2, <1>3, PTL DEF PrimeSpec

=============================================================================
