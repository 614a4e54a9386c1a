CONSTANTS
  Servers = {1, 2, 3}
  Keys = {0, 1, 2, 3, 4}
  Placements <- MCPlacements
  Callers = {c1}
  RegTimeout = 2
  UpdTimeout = 2
  Announcers = {1, 2}
  FirstIndexes = {4}
  MaxUpdates = 1
  MaxTurns = 3
  MaxTime = 3
  MaxCastTime = 0
  MaxFaults = 1
SPECIFICATION DiscSpec
INVARIANT DiscTypeOK
INVARIANT RoundRobinFair
INVARIANT BroadcastTruth
INVARIANT ErrorIsReal
PROPERTY PickIsListed
PROPERTY HashMonotone
PROPERTY FreshList
PROPERTY ErrorReleases
CHECK_DEADLOCK FALSE
