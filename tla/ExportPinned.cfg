\* No explicit free and no exit: only references decide.
CONSTANTS
  t1 = t1
  t2 = t2
  k1 = k1
  k2 = k2
  Threads <- TwoThreads
  Exports <- TwoExports
  ExplicitFree = FALSE
  Exits = FALSE
  SecondDeleter = FALSE
SPECIFICATION FairSpec
PROPERTIES
  ImplementsPinnedBlock
\* The program may end with nothing left to do.
CHECK_DEADLOCK FALSE
