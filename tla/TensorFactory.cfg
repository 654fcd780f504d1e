CONSTANTS
  Shapes <- AllShapes
  Objects <- SomeObjects
  Arrays <- SomeArrays
  Policies <- SomePolicies
  HandBuilt <- SomeHandBuilt
  Resources <- SomeResources
  Addresses <- SomeAddresses
  Offsets <- SomeOffsets
  Calls <- SomeCalls
SPECIFICATION Spec
INVARIANTS
  AsAsked
  ElementsApart
  NoLateRefusal
  AlignmentKept
  CapsuleHonest
  ProducerConforms
