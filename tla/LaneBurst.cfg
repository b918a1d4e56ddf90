SPECIFICATION LaneSpec
CONSTANTS
  SmallLanes = {1}
  LargeLanes = {2}
  QueueDepth = 2
  Settings <- OneLaneSettings
  MaxRequests = 1
INVARIANTS LaneTypeOK MergedWasComputed NothingSentIntoAPark VerifiedLanesAreIdle
PROPERTIES RequestsAreAnswered DrainsEnd BurstsOpen LanesJoin
