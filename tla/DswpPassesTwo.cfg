\* Two passes that ask DecoupleLoops: the PSG is released after the first.
CONSTANTS
  Passes <- MCPasses
  Requires <- DswpRequires
  Wanted <- MCWanted
  Functions <- MCFunctions
  Code <- MCCode
  SccAddrs <- MCSccAddrs
  LoopAddrs <- MCLoopAddrs
  Null = Null
  s1 = s1
  s2 = s2
  s3 = s3
  l1 = l1
  l2 = l2
SYMMETRY Addresses
SPECIFICATION Spec
INVARIANTS
  SetsOutliveAskers
CHECK_DEADLOCK FALSE
