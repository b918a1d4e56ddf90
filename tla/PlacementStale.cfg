SPECIFICATION PlacementSpec
CONSTANTS
  h0 = h0
  h1 = h1
  r0 = r0
  r1 = r1
  Helpers = {h0}
  Leader = h0
  Ranks = {r0, r1}
  FirstRank = r0
  Experts <- Pair
  Budget <- AloneBudget
  InitialOwners <- PairOwners
  Candidates <- Unmoved
  MaxTxn = 1
  Failures = {}
INVARIANT FaultsHaveACause
