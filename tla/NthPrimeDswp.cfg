\* The table of the first twenty primes, no spurious wakeups.  The program really
\* may stop: produce_end() does not wake a worker asleep in consume().
CONSTANTS
  Datum <- MCDatum
  Default = 0
  Items <- MCTwenty
  Garbage <- MCGarbage
  SpuriousWakeups = FALSE
  MaxOverrun = 0
  MaxPrime = 80
SPECIFICATION PrimeSpec
INVARIANTS
  TableIsRightAsFar
PROPERTIES
  CleanRunIsSequential
CHECK_DEADLOCK FALSE
