SPECIFICATION FairSpec
CONSTANTS Graphs <- MCGraphs
          Null = 0
INVARIANTS SourcesLead
PROPERTIES FindsComponents Returns
CHECK_DEADLOCK FALSE
