----------------------------- MODULE Households -----------------------------
(***************************************************************************)
(* Households, their members and roles, ownership and invitations:         *)
(* app/api/v1/households.py, admin_households.py, invitations.py and       *)
(* app/core/{households,invitations}.py.  Every action is a whole request, *)
(* or the hourly sweep; HouseholdRaces looks inside them.                  *)
(*                                                                         *)
(* Names are left out, and so is the timezone (Chores).  An account is     *)
(* active or it is not, and may be disabled and enabled by others.  Time   *)
(* is counted in ticks, HOUR of which make an hour.                        *)
(***************************************************************************)
EXTENDS Integers, FiniteSets, RoleLadder

CONSTANTS
  Users,
  SiteAdmins,     \* the users with is_admin
  HouseholdIds,   \* ids the households table may hand out
  Invitations,    \* ids the household_invitations table may hand out
  MAX_PENDING_INVITATIONS,
  HOUR,
  TTL,            \* INVITATION_TOKEN_TTL
  MaxTime,        \* bound on the clock
  MaxDisabled,    \* bound on the accounts disabled at once
  NoUser

ASSUME IdAssumption == SiteAdmins \subseteq Users /\ NoUser \notin Users

(* Tables are finite.                                                      *)
ASSUME FiniteAssumption == IsFiniteSet(Users) /\ IsFiniteSet(Invitations)

ASSUME TimeAssumption == HOUR \in Nat \ {0} /\ TTL \in Nat /\ MaxTime \in Nat

ASSUME CapAssumption == MAX_PENDING_INVITATIONS \in Nat

VARIABLES
  household,   \* [HouseholdIds -> [life, owner]]: households
  role,        \* [HouseholdIds -> [Users -> Roles]]: household_members
  invitation,  \* [Invitations -> Invitation]: household_invitations
  active,      \* the users whose account is active
  now

vars == <<household, role, invitation, active, now>>

Household == [life : {"unused"}, owner : {NoUser}] \cup
             [life : {"live", "deleted"}, owner : Users]

Invitation == [status : {"unused", "pending", "accepted", "revoked", "expired", "deleted"},
               household : HouseholdIds, created : 0..MaxTime, expires : Nat]

TypeOK ==
  /\ household \in [HouseholdIds -> Household]
  /\ role \in [HouseholdIds -> [Users -> Roles]]
  /\ invitation \in [Invitations -> Invitation]
  /\ active \subseteq Users
  /\ now \in 0..MaxTime

Init ==
  /\ household = [h \in HouseholdIds |-> [life |-> "unused", owner |-> NoUser]]
  /\ role = [h \in HouseholdIds |-> [u \in Users |-> NotMember]]
  /\ \E h \in HouseholdIds :
       invitation = [i \in Invitations |-> [status |-> "unused", household |-> h,
                                            created |-> 0, expires |-> 0]]
  /\ active = Users
  /\ now = 0

-----------------------------------------------------------------------------
(* Who may do what                                                         *)

Live(h) == household[h].life = "live"

Exists(h) == household[h].life # "unused"

Owner(h) == household[h].owner

Member(h, u) == role[h][u] # NotMember

(* is_active_member *)
ActiveMember(h, u) == Member(h, u) /\ u \in active

(* _get_my_household_or_404, for a caller with a session.                  *)
MyHousehold(h, u) == u \in active /\ Live(h) /\ Member(h, u)

(* _get_owned_household *)
Owned(h, u) == MyHousehold(h, u) /\ Owner(h) = u

(* _get_organised_household *)
Organised(h, u) == MyHousehold(h, u) /\ role[h][u] >= Organiser

(* AdminUser and _get_household_or_404: soft-deleted households included.  *)
Administered(h, u) == u \in active \cap SiteAdmins /\ Exists(h)

-----------------------------------------------------------------------------
(* What both surfaces share                                                *)

SetRole(h, v, r) == role' = [role EXCEPT ![h][v] = r]

(* Variant: the new owner keeps the role they had.                         *)
SetHouseholdAdmin_NoPromotion(h, v) ==
  /\ ActiveMember(h, v)
  /\ household' = [household EXCEPT ![h].owner = v]
  /\ UNCHANGED role

(* set_household_admin: the transfer promotes.                             *)
SetHouseholdAdmin(h, v) ==
  /\ ActiveMember(h, v)
  /\ household' = [household EXCEPT ![h].owner = v]
  /\ SetRole(h, v, Organiser)

(* set_member_role: the owner's row is refused, a disabled member unseen.  *)
SetMemberRole(h, v, r) ==
  /\ Owner(h) # v
  /\ ActiveMember(h, v)
  /\ SetRole(h, v, r)

(* remove_member, which reaches disabled members but never the owner.      *)
RemoveMember(h, v) ==
  /\ Owner(h) # v
  /\ Member(h, v)
  /\ SetRole(h, v, NotMember)

-----------------------------------------------------------------------------
(* Households                                                              *)

(* POST /households and its admin twin: the creator owns and organises.    *)
CreateHousehold(u, h) ==
  /\ u \in active
  /\ household[h].life = "unused"
  /\ household' = [household EXCEPT ![h] = [life |-> "live", owner |-> u]]
  /\ SetRole(h, u, Organiser)
  /\ UNCHANGED <<invitation, active, now>>

(* PATCH /households/{id} or its admin twin, with an admin_id.             *)
TransferHousehold(u, h, v) ==
  /\ Owned(h, u) \/ Administered(h, u)
  /\ SetHouseholdAdmin(h, v)
  /\ UNCHANGED <<invitation, active, now>>

(* DELETE /households/{id}, soft; the admin twin leaves a deleted one be.  *)
DeleteHousehold(u, h) ==
  /\ Owned(h, u) \/ (Administered(h, u) /\ Live(h))
  /\ household' = [household EXCEPT ![h].life = "deleted"]
  /\ UNCHANGED <<role, invitation, active, now>>

(* POST /admin/households/{id}/restore                                     *)
RestoreHousehold(u, h) ==
  /\ Administered(h, u)
  /\ household' = [household EXCEPT ![h].life = "live"]
  /\ UNCHANGED <<role, invitation, active, now>>

-----------------------------------------------------------------------------
(* Members                                                                 *)

(* Variant: which role is handed out is not looked at.                     *)
MayReRole_TargetOnly(u, h, v, r) == Owner(h) = u \/ role[h][v] # Organiser

(* The asymmetry: a peer neither grants `organiser` nor touches it.        *)
MayReRole(u, h, v, r) == Owner(h) = u \/ (role[h][v] # Organiser /\ r # Organiser)

(* PATCH /households/{id}/members/{user_id} and its admin twin.            *)
UpdateMember(u, h, v, r) ==
  /\ (Organised(h, u) /\ MayReRole(u, h, v, r)) \/ Administered(h, u)
  /\ SetMemberRole(h, v, r)
  /\ UNCHANGED <<household, invitation, active, now>>

(* DELETE /households/{id}/members/{user_id} and its admin twin.           *)
RemoveHouseholdMember(u, h, v) ==
  /\ Owned(h, u) \/ Administered(h, u)
  /\ RemoveMember(h, v)
  /\ UNCHANGED <<household, invitation, active, now>>

(* POST /households/{id}/leave                                             *)
LeaveHousehold(u, h) ==
  /\ MyHousehold(h, u)
  /\ RemoveMember(h, u)
  /\ UNCHANGED <<household, invitation, active, now>>

-----------------------------------------------------------------------------
(* Invitations                                                             *)

Pending(h) == {i \in Invitations : invitation[i].status = "pending" /\ invitation[i].household = h}

(* round_up_to_hour *)
RoundUpToHour(t) == HOUR * ((t + HOUR - 1) \div HOUR)

WithinCap(h) == Cardinality(Pending(h)) < MAX_PENDING_INVITATIONS

(* POST /households/{id}/invitations                                       *)
CreateInvitation(u, h, i) ==
  /\ Organised(h, u)
  /\ invitation[i].status = "unused"
  /\ WithinCap(h)
  /\ invitation' = [invitation EXCEPT ![i] =
       [status |-> "pending", household |-> h, created |-> now,
        expires |-> RoundUpToHour(now + TTL)]]
  /\ UNCHANGED <<household, role, active, now>>

SetInvitation(i, status) == invitation' = [invitation EXCEPT ![i].status = status]

(* POST /households/{id}/invitations/{invitation_id}/revoke                *)
RevokeInvitation(u, i) ==
  /\ Organised(invitation[i].household, u)
  /\ invitation[i].status = "pending"
  /\ SetInvitation(i, "revoked")
  /\ UNCHANGED <<household, role, active, now>>

(* DELETE /households/{id}/invitations/{invitation_id}: never a pending    *)
(* one.                                                                    *)
DeleteInvitation(u, i) ==
  /\ Organised(invitation[i].household, u)
  /\ invitation[i].status \in {"accepted", "revoked", "expired"}
  /\ SetInvitation(i, "deleted")
  /\ UNCHANGED <<household, role, active, now>>

(* Variant: the invitation stays pending.                                  *)
Spend_KeepsPending(i) == UNCHANGED invitation

Spend(i) == SetInvitation(i, "accepted")

(* POST /invitations/{token}/accept: trusts the status, not the date.      *)
AcceptInvitation(u, i) ==
  LET h == invitation[i].household
  IN  /\ u \in active
      /\ invitation[i].status = "pending"
      /\ Live(h)
      /\ ~Member(h, u)
      /\ SetRole(h, u, Helper)
      /\ Spend(i)
      /\ UNCHANGED <<household, active, now>>

Expired(i) == invitation[i].status = "pending" /\ invitation[i].expires <= now

(* run_expire_invitations, due at the top of every hour but missed when    *)
(* the server is down.                                                     *)
ExpireInvitations ==
  /\ now % HOUR = 0
  /\ \E i \in Invitations : Expired(i)
  /\ invitation' = [i \in Invitations |->
                      IF Expired(i) THEN [invitation[i] EXCEPT !.status = "expired"]
                      ELSE invitation[i]]
  /\ UNCHANGED <<household, role, active, now>>

-----------------------------------------------------------------------------
(* The surroundings                                                        *)

Tick ==
  /\ now < MaxTime
  /\ now' = now + 1
  /\ UNCHANGED <<household, role, invitation, active>>

(* An account is disabled or enabled; its memberships stay.                *)
ToggleAccount(u) ==
  /\ active' = IF u \in active THEN active \ {u} ELSE active \cup {u}
  /\ Cardinality(Users \ active') <= MaxDisabled
  /\ UNCHANGED <<household, role, invitation, now>>

UserStep(u) ==
  \/ \E h \in HouseholdIds :
       \/ CreateHousehold(u, h) \/ DeleteHousehold(u, h)
       \/ RestoreHousehold(u, h) \/ LeaveHousehold(u, h)
       \/ \E v \in Users : TransferHousehold(u, h, v) \/ RemoveHouseholdMember(u, h, v)
       \/ \E v \in Users, r \in HouseholdRole : UpdateMember(u, h, v, r)
       \/ \E i \in Invitations : CreateInvitation(u, h, i)
  \/ \E i \in Invitations :
       RevokeInvitation(u, i) \/ DeleteInvitation(u, i) \/ AcceptInvitation(u, i)

Next == \/ \E u \in Users : UserStep(u)
        \/ ExpireInvitations
        \/ Tick
        \/ \E u \in Users : ToggleAccount(u)

Spec == Init /\ [][Next]_vars

-----------------------------------------------------------------------------
(* Properties                                                              *)

(* The owner is always a member, and an organiser: however ownership is    *)
(* passed on, roles set, people removed or invited, from either surface    *)
(* (docs/architecture/households.md, "the owner always wins").             *)
OwnerIsOrganiser == \A h \in HouseholdIds : Exists(h) => role[h][Owner(h)] = Organiser

(* No household ever has more invitations out than the cap.                *)
PendingWithinCap ==
  \A h \in HouseholdIds : Cardinality(Pending(h)) <= MAX_PENDING_INVITATIONS

(* An invitation is never retired before its full lifetime, and the sweep  *)
(* due at the top of an hour never finds one that lapsed during the hour.  *)
InvitationLivesItsTTL ==
  \A i \in Invitations :
    LET k == invitation[i]
    IN  k.status # "unused" =>
          /\ k.expires % HOUR = 0
          /\ k.expires - k.created \in TTL..(TTL + HOUR - 1)
          /\ k.status = "expired" => now >= k.created + TTL

(* Everybody but the founder came in on an invitation that let nobody else *)
(* in: a household never has more members than invitations it used up, and *)
(* one (api/v1/invitations.py, "which also keeps the link single-use").    *)
Spent(h) == {i \in Invitations : /\ invitation[i].household = h
                                 /\ invitation[i].status \in {"accepted", "deleted"}}

OneJoinerPerInvitation ==
  \A h \in HouseholdIds :
    Cardinality({u \in Users : Member(h, u)}) <= 1 + Cardinality(Spent(h))

(* While neither its owner nor a site administrator acts, nobody becomes   *)
(* an organiser of a household: its organisers cannot grow their own       *)
(* number, be it by roles, by invitations or by leaving and rejoining.     *)
PeerNext == \/ \E u \in Users \ SiteAdmins :
                 /\ \A h \in HouseholdIds : Live(h) => Owner(h) # u
                 /\ UserStep(u)
            \/ ExpireInvitations
            \/ Tick

OrganisersDoNotGrow ==
  [][PeerNext => \A h \in HouseholdIds, u \in Users :
       Exists(h) /\ role'[h][u] = Organiser => role[h][u] = Organiser]_vars
=============================================================================
