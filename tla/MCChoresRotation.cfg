SPECIFICATION RotationSpec
CONSTANTS
  Zones = {"home"}
  Times <- MCTimes
  Offset <- MCOffset
  DAY = 4
  MonthStart <- MCMonthStart
  NoUser = NoUser
  NoDate = NoDate
  NoZone = NoZone
  Users = {1, 2, 3}
  Organisers = {1}
  Owner = 1
  ChoreIds = {1}
  Payloads <- RotationPayloads
  Instants <- MCInstants
  Clock = {5}
  MaxRows = 5
INVARIANTS
  AlphabeticalTurnsAreEven
  LeastDoneIsBehind
CHECK_DEADLOCK FALSE
