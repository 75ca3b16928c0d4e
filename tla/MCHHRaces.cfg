\* Every pair of requests, side by side.
SPECIFICATION FairSpec
CONSTANTS
  Sessions = {s1, s2}
  s1 = s1
  s2 = s2
  Users = {u1, u2}
  Operator = Operator
  Invitations = {i1, i2}
  Kinds = {"transfer", "role", "remove", "invite", "revoke", "discard", "accept"}
  MAX_PENDING_INVITATIONS = 1
  MaxRequests = 2
  Nobody = Nobody
INVARIANT
  PendingWithinCap
PROPERTY
  RequestsFinish
CHECK_DEADLOCK FALSE
