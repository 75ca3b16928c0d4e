\* Roles, ownership, membership and invitations, a site administrator included.
SPECIFICATION Spec
CONSTANTS
  alice = alice
  bob = bob
  carl = carl
  Users <- MCUsers
  SiteAdmins = {alice}
  HouseholdIds = {h1}
  Invitations = {i1, i2, i3}
  MAX_PENDING_INVITATIONS = 2
  HOUR = 2
  TTL = 2
  MaxTime = 4
  MaxDisabled = 1
  NoUser = NoUser
SYMMETRY Symmetry
INVARIANTS
  OwnerIsOrganiser
  OneJoinerPerInvitation
PROPERTIES
  OrganisersDoNotGrow
CHECK_DEADLOCK FALSE
