SPECIFICATION Spec
CONSTANTS
  Consumers = {c1, c2}
  Shapes <- SomeShapes
  Blocks = {1, 2, 3}
  BlockSize = 2
  Nil = Nil
  Raw = Raw
SYMMETRY Symm
INVARIANTS
  CountersMatch
  ElementsAreTheirOwn
PROPERTY RefusalsHaveReason
