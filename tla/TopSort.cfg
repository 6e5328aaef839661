SPECIFICATION FairSortSpec
CONSTANTS PSGs <- MCGraphs
          Lines = {1, 2}
INVARIANTS SortTypeOK Topological RankedOnce OnlyStuckLeftOut ReportReadsBack
PROPERTY SortsWhatIsAcyclic
CHECK_DEADLOCK FALSE
