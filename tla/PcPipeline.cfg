\* Three elements, no spurious wakeups: the pipeline is right.
CONSTANTS
  N = 3
  Value <- MCValue
  f <- MCf
  Garbage <- MCGarbage
  SpuriousWakeups = FALSE
SPECIFICATION FairSpec
INVARIANTS
  TypeOK
  FifoPipeline
  NeverTakesFromEmpty
  NoLostWakeup
  QueueOutlivesUsers
PROPERTIES
  IsSequential
  Returns
