SPECIFICATION Messages
CONSTANTS
  Base = 4
  MaxLen = 6
  Protos <- SomeProtos
  Addresses <- SomeAddresses
INVARIANTS
  SumIsInternetSum
  ChecksumIsComplement
  ReceiverAccepts
