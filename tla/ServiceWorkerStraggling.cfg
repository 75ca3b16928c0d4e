SPECIFICATION Spec
CONSTANTS
  Builds = {1, 2}
  Straggling = TRUE
  MaxRequests = 3
  MaxMoves = 5
INVARIANT
  HitsAreTheAsset
CHECK_DEADLOCK FALSE
