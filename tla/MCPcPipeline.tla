---------------------------- MODULE MCPcPipeline ----------------------------
(* Instances of PcPipeline for TLC.                                        *)
EXTENDS PcPipeline

MCValue == 0 .. 4

\* Each of the elements 0, 1, 2 changes at each of the three stages, and no two
\* become one, so that a lost, repeated or reordered element changes a queue's
\* contents.
MCf == [v \in MCValue |-> (2 * v + 1) % 5]

MCGarbage == {0, 4}
=============================================================================
