SPECIFICATION Spec
CONSTANTS
  Capacity = 2
  NRanks = 2
  MaxTicket = 4
  MaxEpoch = 3
INVARIANTS
  TypeOK
  RingOwned
  EpochPure
PROPERTIES
  StopIsFinal
  ClosedOnlyDrains
