SPECIFICATION FairSpec
CONSTANTS
  Capacity = 3
  Wrap = 8
  Values = {a, b}
  Raw = Raw
  None = None
INVARIANTS
  PermitsInv
  SlotsInv
PROPERTIES
  FifoSpec
  WaitEnds
