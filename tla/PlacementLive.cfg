SPECIFICATION LivePlacementSpec
CONSTANTS
  h0 = h0
  h1 = h1
  r0 = r0
  r1 = r1
  Helpers = {h0, h1}
  Leader = h0
  Ranks = {r0}
  FirstRank = r0
  Experts <- Four
  Budget <- FourBudget
  InitialOwners <- FourOwners
  Candidates <- Swaps
  MaxTxn = 2
  Failures = {"cleanup", "upload"}
INVARIANT SlotsAreExclusive
PROPERTIES TransactionEnds GateReopens CleanupEnds
