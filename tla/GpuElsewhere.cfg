\* The program exports a buffer while another device is active.
CONSTANTS
  t1 = t1
  t2 = t2
  d0 = d0
  d1 = d1
  h1 = h1
  c1 = c1
  b1 = b1
  b2 = b2
  e1 = e1
  e2 = e2
  Threads <- OneThread
  Devices <- TwoDevices
  Created <- OneCreated
  Foreign <- OneForeign
  Blocks <- OneBlock
  Events <- OneEvent
  FirstDevice = d0
  PerThread = {}
  Pools <- OnlyD1
  Unserved = FALSE
  CanFail = FALSE
  AlwaysHome = FALSE
SPECIFICATION Spec
INVARIANTS
  ConsumersWait
