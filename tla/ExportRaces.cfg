\* Two threads, free(), the collector and the exit handler against two exports, whose
\* consumers may call a deleter once too often.
CONSTANTS
  t1 = t1
  t2 = t2
  k1 = k1
  k2 = k2
  Threads <- TwoThreads
  Exports <- TwoExports
  ExplicitFree = TRUE
  Exits = TRUE
  SecondDeleter = TRUE
SPECIFICATION Spec
SYMMETRY Symmetry
INVARIANTS
  OneRelease
  HoldersExact
  OnlyRequestsRevoke
\* The program may end with nothing left to do.
CHECK_DEADLOCK FALSE
