\* Sessions, impersonation, accounts and links, two browsers.
SPECIFICATION Spec
CONSTANTS
  Users = {u1, u2, u3}
  Tokens = {t1, t2, t3}
  Browsers = {b1, b2}
  NoUser = NoUser
  NoToken = NoToken
SYMMETRY Symmetry
INVARIANTS
  InactiveHoldsNothing
  SomebodyAdministers
  ReturnsHome
PROPERTIES
  OperatorKeepsAdministering
CHECK_DEADLOCK FALSE
