SPECIFICATION Spec
CONSTANTS
  Shapes <- SomeShapes
  MaxSlots = 10
  Numbers = 2
  Raw = Raw
  None = None
INVARIANT AssertionsHold
PROPERTIES
  FifoSpec
  RefusalsAreRight
