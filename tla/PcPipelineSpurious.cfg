\* pthread_cond_wait may return without a signal, as POSIX allows.
CONSTANTS
  N = 1
  Value <- MCValue
  f <- MCf
  Garbage <- MCGarbage
  SpuriousWakeups = TRUE
SPECIFICATION Spec
INVARIANTS
  RightResult
