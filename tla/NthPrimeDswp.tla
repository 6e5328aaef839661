----------------------------- MODULE NthPrimeDswp -----------------------------
(***************************************************************************)
(* test/nth-prime-dswp.cpp: the main thread counts, the worker finds the   *)
(* primes.  The queue carries count, so its data are 0 .. MaxCount - 1 and *)
(* T() is 0.  The table is shared, but main reads it after join() only.    *)
(***************************************************************************)
EXTENDS PacketQueue

CONSTANT MaxPrime     \* bound: no candidate passes it

ASSUME PrimeAssumption == MaxPrime \in Nat

VARIABLES p,       \* the worker's next candidate
          primes,  \* the table, shared
          shown    \* what main printed: <<>>, then <<primes[N - 1]>>

tableVars == <<p, primes>>
primeVars == <<pqvars, p, primes, shown>>

\* The sequential program, its count being what the worker has done of it.
Done == IF Len(work) <= N THEN Len(work) ELSE N
Loop == INSTANCE NthPrime WITH count <- Done

\* The data are count's values and T() is 0; among the numbers the bound allows
\* there are as many primes as are asked for.
CountsUp == /\ Items = [k \in 1 .. N |-> k - 1] /\ Default = 0
            /\ Cardinality({m \in 1 .. MaxPrime : Loop!IsPrime(m)}) >= N

PrimeInit == PQInit /\ p = 2 /\ primes = [k \in 0 .. (N - 1) |-> 0] /\ shown = <<>>

\* Mutant: p is not advanced past the prime it found.
FindPrimeAgain == /\ Work
                  /\ LET q == Loop!NextPrime(p, primes, datum)
                     IN  primes' = [primes EXCEPT ![datum] = q] /\ p' = q
                  /\ UNCHANGED shown

FindPrime == /\ Work
             /\ LET q == Loop!NextPrime(p, primes, datum)
                IN  primes' = [primes EXCEPT ![datum] = q] /\ p' = q + 1
             /\ UNCHANGED shown

Show == /\ main = "done" /\ shown = <<>>
        /\ shown' = <<primes[N - 1]>>
        /\ UNCHANGED <<pqvars, tableVars>>

PrimeNext == \/ (MainStep \/ QueueStep \/ SpuriousWake) /\ UNCHANGED <<tableVars, shown>>
             \/ FindPrime
             \/ Show

PrimeSpec == PrimeInit /\ [][PrimeNext]_primeVars

-------------------------------------------------------------------------------
(* Properties.                                                              *)

\* Whatever the timing, the table's entries are the primes in order as far as
\* the worker got: stopping the trial at the first prime whose square is larger
\* lets every prime through and nothing else.  Only the datum of the end packet,
\* used as a count, overwrites the first entry with a number nobody tested; a
\* spurious wakeup may spoil more.
TableIsRightAsFar ==
  ~spurious => /\ \A k \in 0 .. (Done - 1) :
                    Loop!IsKthPrime(primes[k], k + 1) \/ (k = 0 /\ Len(work) > N)
               /\ \A k \in Done .. (N - 1) : primes[k] = 0

\* The worker computes what the sequential program computes, one step per item,
\* in every run that does not use the end packet's datum.
CleanRunIsSequential ==
  [][ spurious \/ Len(work') > N \/ [Loop!Next]_<<p, primes, Done>> ]_primeVars

\* "By listing the first six prime numbers: 2, 3, 5, 7, 11, and 13, we can see
\* that the 6th prime is 13": with N = 6 the program prints 13.
SixthPrimeIs13 == shown # <<>> => shown[1] = 13
==============================================================================
