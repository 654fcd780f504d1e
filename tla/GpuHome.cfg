\* Two threads; the program selects a buffer's device before it exports or copies it,
\* and keeps buffers of per-thread streams in their threads.
CONSTANTS
  t1 = t1
  t2 = t2
  d0 = d0
  d1 = d1
  h1 = h1
  c1 = c1
  b1 = b1
  b2 = b2
  e1 = e1
  e2 = e2
  Threads <- TwoThreads
  Devices <- TwoDevices
  Created <- OneCreated
  Foreign <- OneForeign
  Blocks <- OneBlock
  Events <- OneEvent
  FirstDevice = d0
  PerThread <- OnlyD1
  Pools <- OnlyD1
  Unserved = TRUE
  CanFail = TRUE
  AlwaysHome = TRUE
SPECIFICATION Spec
SYMMETRY Symmetry
INVARIANTS
  DevicesKept
  EventsReturned
  StreamsOutlive
  ReadsFollowWrites
  UsesPrecedeFree
  HostBytesSafe
