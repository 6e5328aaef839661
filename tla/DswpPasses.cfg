\* Every command line of one or two passes, and those of three that ask
\* DecoupleLoops first and last.  The pass manager ends with the last function.
\* Addresses are alike: only equality is asked of them.
CONSTANTS
  Passes <- MCPasses
  Requires <- DswpRequires
  Wanted <- MCWanted
  Functions <- MCFunctions
  Code <- MCCode
  SccAddrs <- MCSccAddrs
  LoopAddrs <- MCLoopAddrs
  Null = Null
  s1 = s1
  s2 = s2
  s3 = s3
  l1 = l1
  l2 = l2
SYMMETRY Addresses
SPECIFICATION Spec
INVARIANTS
  RequiredAreCurrent
  NothingOutlivesFunction
  AskersAreAnswered
CHECK_DEADLOCK FALSE
