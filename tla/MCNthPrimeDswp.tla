---------------------------- MODULE MCNthPrimeDswp ----------------------------
(* Instances of NthPrimeDswp for TLC: the comment's six primes, and twenty,   *)
(* with four squares of primes among the candidates.                          *)
EXTENDS NthPrimeDswp

MCDatum == 0 .. 19
MCSix == [k \in 1 .. 6 |-> k - 1]
MCTwenty == [k \in 1 .. 20 |-> k - 1]
MCGarbage == {0}

ASSUME CountsAssumption == CountsUp
==============================================================================
