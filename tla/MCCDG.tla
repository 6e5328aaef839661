-------------------------------- MODULE MCCDG --------------------------------
(* Every function of four blocks, the first of which is its entry and so has  *)
(* no predecessor, whose blocks all reach a return.                           *)
EXTENDS CDG, Integers

MCCFGs == {h \in [1..4 -> SUBSET (2..4)] : \A b \in 1..4 : From(h, b) \cap Exits(h) # {}}

==============================================================================
