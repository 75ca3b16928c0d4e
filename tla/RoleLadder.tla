----------------------------- MODULE RoleLadder -----------------------------
(***************************************************************************)
(* HouseholdRole and _ROLE_LADDER, the rungs numbered from the weakest so  *)
(* that roles_at_least is >=.                                              *)
(***************************************************************************)
EXTENDS Naturals

NotMember == 0   \* no row in household_members
Helper == 1
Deputy == 2
Organiser == 3

HouseholdRole == {Helper, Deputy, Organiser}

Roles == HouseholdRole \cup {NotMember}
=============================================================================
