\* One tab, an administrator and a member with two-factor sign-in.
SPECIFICATION Spec
CONSTANTS
  Accounts = {ada, ben}
  ada = ada
  ben = ben
  Starts <- Household
  Nobody = Nobody
  Tabs = {t1}
  TwoFactor = {ben}
  Admins = {ada}
  MaxRequests = 2
  MaxMoves = 4
INVARIANTS
  TablesStayWithTheirAccount
  OneAttemptAtATime
  NavLeadsThere
CHECK_DEADLOCK FALSE
