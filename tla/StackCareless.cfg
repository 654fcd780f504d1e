\* Callers that free anything, twice, with any size; the limit is inside; a free can fail.
CONSTANTS
  c1 = c1
  c2 = c2
  c3 = c3
  a1 = a1
  a2 = a2
  a3 = a3
  Callers <- ThreeCallers
  Addrs <- TwoAddrs
  Sizes <- SizesSmall
  Limit = 2
  MaxTotal = 3
  LimitOutermost = FALSE
  FreeMayFail = TRUE
  Careless = TRUE
SPECIFICATION Spec
SYMMETRY Symmetry
INVARIANTS
  LimitRespected
  BooksBalance
  TableSound
