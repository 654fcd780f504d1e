\* The collector strikes inside a critical section of an allocator chain.
CONSTANTS
  t1 = t1
  t2 = t2
  cpu = cpu
  gpu = gpu
  m1 = m1
  m2 = m2
  g1 = g1
  r1 = r1
  r2 = r2
  chain1 = chain1
  Contexts <- TwoContexts
  Devices <- TwoDevices
  Resources <- ThreeResources
  DeviceOf <- MCDeviceOf
  Runtimes <- TwoRuntimes
  Serves <- MCServes
  Selections <- MCSelections
  Chains <- OneChain
  MaxCalls = 3
  MaxNesting = 0
  CollectInside = TRUE
SPECIFICATION Spec
INVARIANTS
  NobodyWedged
\* The program may make all its calls.
CHECK_DEADLOCK FALSE
