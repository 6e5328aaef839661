---------------------------- MODULE SequentialSum ----------------------------
(***************************************************************************)
(* What parallel_sum of test/pcqueue.cpp promises: the sequential loop     *)
(* sequential_sum, which adds f(f(f(f(i)))) for i = 0 .. N-1 and returns   *)
(* the total.                                                              *)
(***************************************************************************)
EXTENDS Integers

CONSTANTS N,      \* number of iterations, the program's argument
          Value,  \* the values of type long the program meets
          f       \* the pure stage function f(long), as a function on Value

VARIABLES i,      \* the loop counter
          sum,    \* the accumulator
          ret     \* <<>>, then <<what the caller got back>>

vars == <<i, sum, ret>>

Init == /\ i = 0
        /\ sum = 0
        /\ ret = <<>>

\* One iteration of the loop.
Add == /\ i < N
       /\ sum' = sum + f[f[f[f[i]]]]
       /\ i' = i + 1
       /\ UNCHANGED ret

\* The loop is over: return sum.
Return == /\ i = N
          /\ ret = <<>>
          /\ ret' = <<sum>>
          /\ UNCHANGED <<i, sum>>

Next == Add \/ Return

Spec == Init /\ [][Next]_vars
==============================================================================
