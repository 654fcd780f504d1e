CONSTANTS
  Callers <- TwoCallers
  Tester <- OneTester
  Bases <- SomeBases
  CallerBases <- TwoBases
  MaxLog = 3
  Leaves <- SomeLeaves
  Suspects <- SomeSuspects
  Sizes <- SomeSizes
  Alignments <- SomeAlignments
  SweepSizes <- SomeSweepSizes
  GuaranteeSizes <- SomeGuaranteeSizes
  BatchSizes <- SomeBatchSizes
SPECIFICATION Spec
INVARIANTS
  BlocksOwned
  AllocationsApart
  LogTellsAll
  DefaultServes
  SuiteSound
\* A suite ends.
CHECK_DEADLOCK FALSE
