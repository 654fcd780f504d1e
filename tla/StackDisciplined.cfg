\* Callers that free what they hold; the limit is the outermost adaptor.
CONSTANTS
  c1 = c1
  c2 = c2
  c3 = c3
  a1 = a1
  a2 = a2
  a3 = a3
  Callers <- ThreeCallers
  Addrs <- ThreeAddrs
  Sizes <- SizesSmall
  Limit = 3
  MaxTotal = 4
  LimitOutermost = TRUE
  FreeMayFail = FALSE
  Careless = FALSE
SPECIFICATION Spec
SYMMETRY Symmetry
INVARIANTS
  HandlesValid
  CountersOrdered
  PeakWithinLimit
PROPERTY ImplementsBoundedHeap
