CONSTANTS
  Shapes <- SomeShapes
  Objects <- WideObjects
  Arrays <- NoArrays
  Policies <- SomePolicies
  HandBuilt <- SomeHandBuilt
  Resources <- SomeResources
  Addresses <- SomeAddresses
  Offsets <- SomeOffsets
  Calls <- OneCall
SPECIFICATION Spec
INVARIANTS
  DTypeSurvives
