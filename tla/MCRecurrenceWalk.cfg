SPECIFICATION Spec
CONSTANTS
  Zones = {"utc"}
  Times <- MCTimes
  Offset <- MCOffset
  DAY = 1
  MonthStart <- MCMonthStart
  Rules <- MCRules
  Starts <- MCStarts
  Delays <- MCDelays
  Horizon = 130
PROPERTIES
  NextIsFirstOnGrid
CHECK_DEADLOCK FALSE
