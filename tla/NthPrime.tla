------------------------------- MODULE NthPrime -------------------------------
(***************************************************************************)
(* The sequential program test/nth-prime.cpp: the loop that fills the      *)
(* table primes by trial division.                                         *)
(***************************************************************************)
EXTENDS Integers, FiniteSets

CONSTANTS N,        \* the size of the table
          MaxPrime  \* bound: no candidate passes it

VARIABLES p,       \* the next candidate
          primes,  \* the table, zero-initialised
          count    \* how many primes the table holds

npvars == <<p, primes, count>>

\* The inner loop lets candidate c through: no entry divides it before the
\* first whose square exceeds it ends the loop.
Passes(c, table, n) ==
  \A k \in 0 .. (n - 1) :
    c % table[k] = 0 => \E j \in 0 .. (k - 1) : table[j] * table[j] > c

\* goto continue_while: the first candidate from c on that passes.
NextPrime(c, table, n) ==
  CHOOSE d \in c .. MaxPrime :
    /\ Passes(d, table, n)
    /\ \A e \in c .. (d - 1) : ~Passes(e, table, n)

Init == /\ p = 2
        /\ primes = [k \in 0 .. (N - 1) |-> 0]
        /\ count = 0

AddPrime == /\ count < N
            /\ primes' = [primes EXCEPT ![count] = NextPrime(p, primes, count)]
            /\ p' = NextPrime(p, primes, count) + 1
            /\ count' = count + 1

Next == AddPrime

Spec == Init /\ [][Next]_npvars

-------------------------------------------------------------------------------

\* n is the k-th prime, from the definition.
IsPrime(n) == n > 1 /\ \A d \in 2 .. (n - 1) : n % d # 0
IsKthPrime(n, k) ==
  IsPrime(n) /\ k = Cardinality({m \in 1 .. n : IsPrime(m)})
==============================================================================
