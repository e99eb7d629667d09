SPECIFICATION Spec
CONSTANTS
  Fds = {f1, f2, f3, f4}
  eth0 = eth0
  eth1 = eth1
  Links <- TwoLinks
  Interface <- BothLinks
  None = None
  AnyLink = AnyLink
  MaxQueue = 2
SYMMETRY FdSymmetry
INVARIANTS
  TypeOK
  AllReturned
  OthersUndisturbed
  ReceivesOnOwnSocket
  HearsNamedInterface
