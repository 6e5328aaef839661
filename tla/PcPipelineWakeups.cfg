\* One element, and pthread_cond_wait may return without a signal: what still
\* holds when elements may be taken from an empty queue.
CONSTANTS
  N = 1
  Value <- MCValue
  f <- MCf
  Garbage <- MCGarbage
  SpuriousWakeups = TRUE
SPECIFICATION FairSpec
INVARIANTS
  Exclusive
PROPERTIES
  Returns
