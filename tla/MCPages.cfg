SPECIFICATION Spec
CONSTANTS
  trash = trash
  dishes = dishes
  alice = alice
  bob = bob
  None = None
  Nobody = Nobody
  Kinds <- TheKinds
  Rows <- TheRows
  HouseholdOf <- TheHouseholdOf
  OwnRows = {1}
  Chores = {trash, dishes}
  Late = {trash}
  Mine = {dishes}
  Theirs = {trash}
  People = {alice, bob}
  MembersOf <- TheMembersOf
  Values = {1, 2}
  OwnValue = 1
  TheirValue = 2
  Overtakes = FALSE
  Hurried = FALSE
  Members <- TheMembers
  MAX_PENDING = 2
  Eager = FALSE
  Dwellings = {1, 2, 3}
  Visible = {1, 2}
  Someone = {1, 2}
  Builds = {1, 2}
  Straggling = FALSE
  MaxRequests <- RequestsAtMost
  MaxMoves <- MovesAtMost
INVARIANTS
  TablesSettle
  NoTableIsWedged
  OneClosingPerChore
  ListIsCurrent
  AnswersReachTheServer
  HiddenDetailIsNotSent
  UnrelatedEditKeepsAssignee
  PickersFollowTheHousehold
  
  
  TokenPanelIsCurrent
  
  
  ZoneMovesWhenConfirmed
  OfflineShowsTheApp
CHECK_DEADLOCK FALSE
