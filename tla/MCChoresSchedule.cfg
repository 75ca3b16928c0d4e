SPECIFICATION Spec
CONSTANTS
  Zones = {"home", "south"}
  Times <- MCTimes
  Offset <- MCOffset
  DAY = 4
  MonthStart <- MCMonthStart
  NoUser = NoUser
  NoDate = NoDate
  NoZone = NoZone
  Users = {1}
  Organisers = {1}
  Owner = 1
  ChoreIds = {1}
  Payloads <- SchedulePayloads
  Instants <- MCInstants
  Clock = {5, 10, 22}
  MaxRows = 3
INVARIANTS
  ChainInvariant
  UndoInvertsClosure
  NoStuckClosure
PROPERTIES
  HistoryIsFrozen
  MidnightIsKept
  
