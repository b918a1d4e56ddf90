SPECIFICATION LiveAdmissionSpec
CONSTANTS
  Capacity = 2
  NRanks = 1
  MaxTicket = 3
  MaxEpoch = 3
  MaxPasses = 1
  MaxRequests = 1
  Failures = {"helper", "shutdown", "deadline"}
INVARIANTS
  KernelsNeverTrap
  FaultsAreExternal
PROPERTIES
  LedgerSteps
  DrainCompletes
  AdmissionResumes
CHECK_DEADLOCK FALSE
