SPECIFICATION Spec
CONSTANTS CFGs <- MCCFGs
          Null = 0
INVARIANTS FrontiersAreRight IsControlDependence
CHECK_DEADLOCK FALSE
