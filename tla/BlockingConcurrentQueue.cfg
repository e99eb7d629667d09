SPECIFICATION FairSpec
CONSTANTS
  Producers = {p1, p2}
  Consumers = {c1, c2}
  MaxBulk = 2
  MaxSize = 3
INVARIANT PermitsInv
PROPERTIES
  PermitsAreRedeemed
  ElementsAreClaimed
