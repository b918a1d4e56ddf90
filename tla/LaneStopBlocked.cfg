SPECIFICATION LaneSpec
CONSTANTS
  SmallLanes = {1}
  LargeLanes = {2}
  QueueDepth = 2
  Settings <- StoppedLaneSettings
  MaxRequests = 1
PROPERTY StopsAlwaysJoin
