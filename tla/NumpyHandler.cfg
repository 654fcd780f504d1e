\* Two contexts and two installations, into NumPy, into Numba, or into CuPy and rmm, and
\* two blocks.
CONSTANTS
  t1 = t1
  t2 = t2
  h1 = h1
  h2 = h2
  p1 = p1
  p2 = p2
  m1 = m1
  m2 = m2
  Contexts <- TwoContexts
  Hooks <- TwoHooks
  Shared <- OtherLibraries
  Ptrs <- TwoPtrs
  Sizes = {1, 2}
  FreeMayFail = TRUE
  Resources <- TwoResources
  Addresses <- TwoPtrs
  MaxResets = 2
  Programs <- ThreePrograms
  NumPys <- SixNumPys
SPECIFICATION Spec
SYMMETRY Symmetry
INVARIANTS
  RestoredOnce
  LastInForce
  HandlersOutlive
  AllBacked
  GivenBackExactly
  NothingLeft
  LoopsCrossLibraries
\* All installations made and restored, and nothing left to free.
CHECK_DEADLOCK FALSE
