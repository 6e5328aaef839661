\* The worker may take an empty queue for its end: main then prints a zero.
CONSTANTS
  Datum <- MCDatum
  Default = 0
  Items <- MCSix
  Garbage <- MCGarbage
  SpuriousWakeups = FALSE
  MaxOverrun = 0
  MaxPrime = 20
SPECIFICATION PrimeSpec
INVARIANTS
  SixthPrimeIs13
CHECK_DEADLOCK FALSE
