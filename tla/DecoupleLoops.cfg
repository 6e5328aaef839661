SPECIFICATION Spec
CONSTANTS Programs <- MCPrograms
          None = None
          Locations <- MCLocations
          NoLoc <- MCNoLoc
INVARIANTS PSGIsAcyclic EveryLoopHasIter IterOrWork WorkNeverFeedsIter IterIsTheLoopControl
           GraphsCanBeWritten PrintedUnderItsLoop ReportsAgree
CHECK_DEADLOCK FALSE
