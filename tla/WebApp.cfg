SPECIFICATION WebFairSpec
CONSTANTS
  Frontends <- MCFrontends
  Backends <- MCBackends
  Targets <- MCTargets
  Placements <- MCPlacements
  Listings <- MCListings
  NumRequests = 3
  MaxEvents <- MCEvents
CHECK_DEADLOCK FALSE
PROPERTIES AllPass PassTrue FailsAtOnce Serves
