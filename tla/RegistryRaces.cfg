\* Two contexts look up, install, scope, search and allocate, and are interrupted by
\* finalizers; the collector spares the chains' critical sections.
CONSTANTS
  t1 = t1
  t2 = t2
  cpu = cpu
  gpu = gpu
  m1 = m1
  m2 = m2
  g1 = g1
  r1 = r1
  r2 = r2
  chain1 = chain1
  Contexts <- TwoContexts
  Devices <- TwoDevices
  Resources <- ThreeResources
  DeviceOf <- MCDeviceOf
  Runtimes <- TwoRuntimes
  Serves <- MCServes
  Selections <- MCSelections
  Chains <- OneChain
  MaxCalls = 3
  MaxNesting = 2
  CollectInside = FALSE
SPECIFICATION FairSpec
INVARIANTS
  LocksOrdered
  MadeOnce
  ScopesExact
PROPERTIES
  CallsEnd
  ImplementsCurrentResource
\* The program may make all its calls.
CHECK_DEADLOCK FALSE
