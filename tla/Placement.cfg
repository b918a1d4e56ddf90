SPECIFICATION PlacementSpec
CONSTANTS
  h0 = h0
  h1 = h1
  r0 = r0
  r1 = r1
  Helpers = {h0, h1}
  Leader = h0
  Ranks = {r0}
  FirstRank = r0
  Experts <- Pair
  Budget <- PairBudget
  InitialOwners <- PairOwners
  Candidates <- PairMaps
  MaxTxn = 2
  Failures = {"deadline", "cleanup", "upload", "bitmap", "death", "reject"}
INVARIANTS PlacementTypeOK StagingIsReturned RoutedExpertsResident ProposalsFindAllIdle CommitIsUnanimous
PROPERTY RefinesOwnerSwitch
