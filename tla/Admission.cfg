SPECIFICATION AdmissionSpec
CONSTANTS
  Capacity = 2
  NRanks = 2
  MaxTicket = 3
  MaxEpoch = 2
  MaxPasses = 1
  MaxRequests = 1
  Failures = {}
INVARIANTS
  AdmissionTypeOK
  KernelsNeverTrap
  StreamsHoldOnlyLiveParents
  DrainedIsIdle
CHECK_DEADLOCK FALSE
