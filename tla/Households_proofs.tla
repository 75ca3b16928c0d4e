------------------------- MODULE Households_proofs --------------------------
(***************************************************************************)
(* What Households promises for every set of users, administrators,        *)
(* households and invitations, every cap and every lifetime.  Ownership    *)
(* and the two counts are inductive over the types; OrganisersDoNotGrow    *)
(* needs nothing but the types and the guards.                             *)
(***************************************************************************)
EXTENDS Households, FiniteSetTheorems, TLAPS

LEMMA LadderIsNat == Roles \subseteq Nat /\ HouseholdRole \subseteq Roles
BY DEF Roles, HouseholdRole, Helper, Deputy, Organiser, NotMember

-----------------------------------------------------------------------------
(* Types                                                                   *)

(* Roles are set on the ladder.                                            *)
LEMMA SetRoleType ==
  ASSUME TypeOK, NEW h \in HouseholdIds, NEW v \in Users, NEW r \in Roles, SetRole(h, v, r)
  PROVE  role' \in [HouseholdIds -> [Users -> Roles]]
BY DEF TypeOK, SetRole

LEMMA SetInvitationType ==
  ASSUME TypeOK, NEW i \in Invitations, NEW s, SetInvitation(i, s),
         s \in {"accepted", "revoked", "expired", "deleted"}
  PROVE  invitation' \in [Invitations -> Invitation]
BY DEF TypeOK, SetInvitation, Invitation

LEMMA RoundUpToHourType ==
  ASSUME NEW t \in Nat
  PROVE  RoundUpToHour(t) \in Nat
<1>1. HOUR \in Nat /\ HOUR > 0 /\ t + HOUR - 1 \in Nat
  BY TimeAssumption
<1>2. (t + HOUR - 1) \div HOUR \in Nat
  BY <1>1
<1> QED BY <1>1, <1>2 DEF RoundUpToHour

LEMMA TypeInit == Init => TypeOK
BY IdAssumption, TimeAssumption
   DEF Init, TypeOK, Household, Roles, Invitation

LEMMA TypeStep == TypeOK /\ [Next]_vars => TypeOK'
<1> SUFFICES ASSUME TypeOK, [Next]_vars
             PROVE  TypeOK'
  OBVIOUS
<1> USE LadderIsNat
<1>1. ASSUME NEW u \in Users, NEW h \in HouseholdIds, CreateHousehold(u, h)
      PROVE  TypeOK'
  <2>1. role' \in [HouseholdIds -> [Users -> Roles]]
    BY <1>1, SetRoleType DEF CreateHousehold, Roles, HouseholdRole
  <2> QED BY <1>1, <2>1 DEF CreateHousehold, TypeOK, Household
<1>2. ASSUME NEW u \in Users, NEW h \in HouseholdIds, NEW v \in Users,
             TransferHousehold(u, h, v)
      PROVE  TypeOK'
  <2>1. role' \in [HouseholdIds -> [Users -> Roles]]
    BY <1>2, SetRoleType DEF TransferHousehold, SetHouseholdAdmin, Roles, HouseholdRole
  <2>2. household[h].life # "unused"
    BY <1>2 DEF TransferHousehold, Owned, MyHousehold, Administered, Live, Exists
  <2>3. household' \in [HouseholdIds -> Household]
    BY <1>2, <2>2 DEF TransferHousehold, SetHouseholdAdmin, TypeOK, Household
  <2> QED BY <1>2, <2>1, <2>3 DEF TransferHousehold, TypeOK
<1>3. ASSUME NEW u \in Users, NEW h \in HouseholdIds, DeleteHousehold(u, h)
      PROVE  TypeOK'
  BY <1>3 DEF DeleteHousehold, Owned, MyHousehold, Live, TypeOK, Household
<1>4. ASSUME NEW u \in Users, NEW h \in HouseholdIds, RestoreHousehold(u, h)
      PROVE  TypeOK'
  BY <1>4 DEF RestoreHousehold, Administered, Exists, TypeOK, Household
<1>5. ASSUME NEW u \in Users, NEW h \in HouseholdIds, NEW v \in Users,
             NEW r \in HouseholdRole, UpdateMember(u, h, v, r)
      PROVE  TypeOK'
  BY <1>5, SetRoleType DEF UpdateMember, SetMemberRole, TypeOK
<1>6. ASSUME NEW u \in Users, NEW h \in HouseholdIds, NEW v \in Users,
             RemoveHouseholdMember(u, h, v) \/ (u = v /\ LeaveHousehold(u, h))
      PROVE  TypeOK'
  BY <1>6, SetRoleType
     DEF RemoveHouseholdMember, LeaveHousehold, RemoveMember, TypeOK, Roles
<1>7. ASSUME NEW u \in Users, NEW h \in HouseholdIds, NEW i \in Invitations,
             CreateInvitation(u, h, i)
      PROVE  TypeOK'
  <2>1. now + TTL \in Nat
    BY TimeAssumption DEF TypeOK
  <2>2. RoundUpToHour(now + TTL) \in Nat
    BY <2>1, RoundUpToHourType
  <2>3. invitation' \in [Invitations -> Invitation]
    BY <1>7, <2>2 DEF CreateInvitation, TypeOK, Invitation
  <2> QED BY <1>7, <2>3 DEF CreateInvitation, TypeOK
<1>8. ASSUME NEW u \in Users, NEW i \in Invitations,
             RevokeInvitation(u, i) \/ DeleteInvitation(u, i)
      PROVE  TypeOK'
  BY <1>8, SetInvitationType DEF RevokeInvitation, DeleteInvitation, TypeOK
<1>9. ASSUME NEW u \in Users, NEW i \in Invitations, AcceptInvitation(u, i)
      PROVE  TypeOK'
  <2> DEFINE h == invitation[i].household
  <2>1. h \in HouseholdIds /\ Helper \in Roles
    BY DEF TypeOK, Invitation, Roles, HouseholdRole
  <2>2. role' \in [HouseholdIds -> [Users -> Roles]]
    BY <1>9, <2>1, SetRoleType DEF AcceptInvitation
  <2>3. invitation' \in [Invitations -> Invitation]
    BY <1>9, SetInvitationType DEF AcceptInvitation, Spend
  <2> QED BY <1>9, <2>2, <2>3 DEF AcceptInvitation, TypeOK
<1>10. CASE ExpireInvitations
  BY <1>10 DEF ExpireInvitations, TypeOK, Invitation
<1>11. CASE Tick
  BY <1>11, TimeAssumption DEF Tick, TypeOK
<1>12. ASSUME NEW u \in Users, ToggleAccount(u)
       PROVE  TypeOK'
  BY <1>12 DEF ToggleAccount, TypeOK
<1>13. CASE UNCHANGED vars
  BY <1>13 DEF vars, TypeOK
<1> QED
  BY <1>1, <1>2, <1>3, <1>4, <1>5, <1>6, <1>7, <1>8, <1>9, <1>10, <1>11,
     <1>12, <1>13 DEF Next, UserStep

(* Every reachable state is well typed: among others, a household always   *)
(* has an owner who is a user, also once deleted (Household.admin_id).     *)
THEOREM TypeCorrect == Spec => []TypeOK
BY TypeInit, TypeStep, PTL DEF Spec

-----------------------------------------------------------------------------
(* Ownership                                                               *)

LEMMA OwnerInit == Init => OwnerIsOrganiser
BY DEF Init, OwnerIsOrganiser, Exists

(* Nobody but a new owner has a role set while owning the household.       *)
LEMMA OwnerStep ==
  TypeOK /\ OwnerIsOrganiser /\ [Next]_vars => OwnerIsOrganiser'
<1> SUFFICES ASSUME TypeOK, OwnerIsOrganiser, [Next]_vars
             PROVE  OwnerIsOrganiser'
  OBVIOUS
<1> USE DEF OwnerIsOrganiser, Exists, Owner, SetRole
<1>1. ASSUME NEW u \in Users, NEW h \in HouseholdIds, CreateHousehold(u, h)
      PROVE  OwnerIsOrganiser'
  BY <1>1 DEF CreateHousehold, TypeOK, Household
<1>2. ASSUME NEW u \in Users, NEW h \in HouseholdIds, NEW v \in Users,
             TransferHousehold(u, h, v)
      PROVE  OwnerIsOrganiser'
  BY <1>2 DEF TransferHousehold, SetHouseholdAdmin, TypeOK, Household
<1>3. ASSUME NEW u \in Users, NEW h \in HouseholdIds,
             DeleteHousehold(u, h) \/ RestoreHousehold(u, h)
      PROVE  OwnerIsOrganiser'
  BY <1>3 DEF DeleteHousehold, RestoreHousehold, Owned, MyHousehold, Live,
              Administered, TypeOK, Household
<1>4. ASSUME NEW u \in Users, NEW h \in HouseholdIds, NEW v \in Users,
             NEW r \in HouseholdRole, UpdateMember(u, h, v, r)
      PROVE  OwnerIsOrganiser'
  BY <1>4 DEF UpdateMember, SetMemberRole, TypeOK
<1>5. ASSUME NEW u \in Users, NEW h \in HouseholdIds, NEW v \in Users,
             RemoveHouseholdMember(u, h, v) \/ (u = v /\ LeaveHousehold(u, h))
      PROVE  OwnerIsOrganiser'
  <2>1. /\ household[h].owner # v
        /\ role' = [role EXCEPT ![h][v] = NotMember]
        /\ household' = household
    BY <1>5 DEF RemoveHouseholdMember, LeaveHousehold, RemoveMember
  <2> QED BY <2>1 DEF TypeOK
<1>6. ASSUME NEW u \in Users, NEW i \in Invitations, AcceptInvitation(u, i)
      PROVE  OwnerIsOrganiser'
  <2> DEFINE h == invitation[i].household
  <2>1. h \in HouseholdIds /\ role[h][u] = NotMember
    BY <1>6 DEF AcceptInvitation, Member, TypeOK, Invitation
  <2>2. household[h].life # "unused" => household[h].owner # u
    BY <2>1 DEF NotMember, Organiser
  <2>3. household' = household /\ role' = [role EXCEPT ![h][u] = Helper]
    BY <1>6 DEF AcceptInvitation
  <2>4. household[h].life # "unused"
    BY <1>6 DEF AcceptInvitation, Live
  <2> QED BY <2>1, <2>2, <2>3, <2>4 DEF TypeOK
<1>7. ASSUME UNCHANGED <<household, role>>
      PROVE  OwnerIsOrganiser'
  BY <1>7
<1> QED
  BY <1>1, <1>2, <1>3, <1>4, <1>5, <1>6, <1>7
     DEF Next, UserStep, vars, CreateInvitation, RevokeInvitation,
         DeleteInvitation, ExpireInvitations, Tick, ToggleAccount

(* A household's owner is a member of it and an organiser, whoever         *)
(* transfers, re-roles, removes, leaves, invites, deletes or restores, and *)
(* through whichever surface (set_household_admin, refuse_owner_row and    *)
(* remove_member in api/v1/households.py).                                 *)
THEOREM OwnerIsOrganiserAlways == Spec => []OwnerIsOrganiser
BY TypeInit, TypeStep, OwnerInit, OwnerStep, PTL DEF Spec

-----------------------------------------------------------------------------
(* The cap                                                                 *)

LEMMA PendingIsFinite == ASSUME NEW h PROVE IsFiniteSet(Pending(h)) /\ IsFiniteSet(Pending(h)')
BY FiniteAssumption, FS_Subset DEF Pending

(* Whatever adds no pending invitation keeps within the cap.               *)
LEMMA NoMorePending ==
  ASSUME PendingWithinCap, \A h \in HouseholdIds : Pending(h)' \subseteq Pending(h)
  PROVE  PendingWithinCap'
<1> SUFFICES ASSUME NEW h \in HouseholdIds
             PROVE  Cardinality(Pending(h))' <= MAX_PENDING_INVITATIONS
  BY DEF PendingWithinCap
<1>1. Cardinality(Pending(h)') <= Cardinality(Pending(h))
  BY PendingIsFinite, FS_Subset
<1>2. Cardinality(Pending(h)) <= MAX_PENDING_INVITATIONS
  BY DEF PendingWithinCap
<1>3. Cardinality(Pending(h)) \in Nat /\ Cardinality(Pending(h)') \in Nat
  BY PendingIsFinite, FS_CardinalityType
<1> QED BY <1>1, <1>2, <1>3, CapAssumption

LEMMA CapInit == Init => PendingWithinCap
<1> SUFFICES ASSUME Init, NEW h \in HouseholdIds
             PROVE  Cardinality(Pending(h)) <= MAX_PENDING_INVITATIONS
  BY DEF PendingWithinCap
<1>1. Pending(h) = {}
  BY DEF Init, Pending
<1> QED BY <1>1, FS_EmptySet, CapAssumption

LEMMA CapStep == TypeOK /\ PendingWithinCap /\ [Next]_vars => PendingWithinCap'
<1> SUFFICES ASSUME TypeOK, PendingWithinCap, [Next]_vars
             PROVE  PendingWithinCap'
  OBVIOUS
<1>1. ASSUME NEW u \in Users, NEW h \in HouseholdIds, NEW i \in Invitations,
             CreateInvitation(u, h, i)
      PROVE  PendingWithinCap'
  <2> SUFFICES ASSUME NEW g \in HouseholdIds
               PROVE  Cardinality(Pending(g)') <= MAX_PENDING_INVITATIONS
    BY DEF PendingWithinCap
  <2>1. Cardinality(Pending(g)) <= MAX_PENDING_INVITATIONS
    BY DEF PendingWithinCap
  <2>2. invitation[i].status # "pending" /\ Cardinality(Pending(h)) < MAX_PENDING_INVITATIONS
    BY <1>1 DEF CreateInvitation, WithinCap
  <2>3. invitation' = [invitation EXCEPT ![i] =
          [status |-> "pending", household |-> h, created |-> now,
           expires |-> RoundUpToHour(now + TTL)]]
    BY <1>1 DEF CreateInvitation
  <2>4. CASE g = h
    <3>1. Pending(g)' = Pending(g) \cup {i}
      BY <2>2, <2>3, <2>4 DEF Pending, TypeOK
    <3>2. /\ Cardinality(Pending(g)) \in Nat
          /\ Cardinality(Pending(g)') <= Cardinality(Pending(g)) + 1
      <4>1. IsFiniteSet(Pending(g)) /\ Cardinality(Pending(g)) \in Nat
        BY PendingIsFinite, FS_CardinalityType
      <4>2. Cardinality(Pending(g) \cup {i}) =
              IF i \in Pending(g) THEN Cardinality(Pending(g)) ELSE Cardinality(Pending(g)) + 1
        BY <4>1, FS_AddElement
      <4> QED BY <3>1, <4>1, <4>2
    <3>3. Cardinality(Pending(g)') \in Nat
      BY PendingIsFinite, FS_CardinalityType
    <3> QED BY <2>2, <2>4, <3>2, <3>3, CapAssumption
  <2>5. CASE g # h
    <3>1. Pending(g)' = Pending(g)
      BY <2>2, <2>3, <2>5 DEF Pending, TypeOK
    <3> QED BY <2>1, <3>1
  <2> QED BY <2>4, <2>5
<1>2. ASSUME NEW u \in Users, NEW i \in Invitations,
             RevokeInvitation(u, i) \/ DeleteInvitation(u, i) \/ AcceptInvitation(u, i)
      PROVE  PendingWithinCap'
  <2>1. PICK s \in {"revoked", "deleted", "accepted"} : SetInvitation(i, s)
    BY <1>2 DEF RevokeInvitation, DeleteInvitation, AcceptInvitation, Spend
  <2>2. \A h \in HouseholdIds : Pending(h)' \subseteq Pending(h)
    BY <2>1 DEF SetInvitation, Pending, TypeOK
  <2> QED BY <2>2, NoMorePending
<1>3. CASE ExpireInvitations
  <2>1. \A h \in HouseholdIds : Pending(h)' \subseteq Pending(h)
    BY <1>3 DEF ExpireInvitations, Expired, Pending, TypeOK, Invitation
  <2> QED BY <2>1, NoMorePending
<1>4. ASSUME UNCHANGED invitation
      PROVE  PendingWithinCap'
  BY <1>4, NoMorePending DEF Pending
<1> QED
  BY <1>1, <1>2, <1>3, <1>4
     DEF Next, UserStep, vars, CreateHousehold, TransferHousehold,
         DeleteHousehold, RestoreHousehold, UpdateMember,
         RemoveHouseholdMember, LeaveHousehold, Tick, ToggleAccount

(* A household never has more than MAX_PENDING_INVITATIONS live links out, *)
(* whatever the order of inviting, accepting, revoking, expiring and       *)
(* deleting (create_invitation).                                           *)
THEOREM PendingWithinCapAlways == Spec => []PendingWithinCap
BY TypeInit, TypeStep, CapInit, CapStep, PTL DEF Spec

-----------------------------------------------------------------------------
(* The members                                                             *)

Members(h) == {u \in Users : Member(h, u)}

(* What the count rests on: nobody is in a household not founded yet.      *)
UnfoundedIsEmpty == \A h \in HouseholdIds : ~Exists(h) => Members(h) = {}

JInv == TypeOK /\ UnfoundedIsEmpty /\ OneJoinerPerInvitation

LEMMA CountsAreFinite ==
  ASSUME NEW h
  PROVE  /\ IsFiniteSet(Members(h)) /\ IsFiniteSet(Members(h)')
         /\ IsFiniteSet(Spent(h)) /\ IsFiniteSet(Spent(h)')
         /\ Cardinality(Members(h)) \in Nat /\ Cardinality(Members(h)') \in Nat
         /\ Cardinality(Spent(h)) \in Nat /\ Cardinality(Spent(h)') \in Nat
BY FiniteAssumption, FS_Subset, FS_CardinalityType DEF Members, Spent

LEMMA JInit == Init => JInv
<1> SUFFICES ASSUME Init
             PROVE  JInv
  OBVIOUS
<1>1. \A h \in HouseholdIds : Members(h) = {}
  BY DEF Init, Members, Member
<1>2. \A h \in HouseholdIds : Cardinality(Members(h)) = 0 /\ Cardinality(Spent(h)) \in Nat
  BY <1>1, FS_EmptySet, CountsAreFinite
<1>3. OneJoinerPerInvitation
  BY <1>2 DEF OneJoinerPerInvitation, Members
<1> QED BY <1>1, <1>3, TypeInit DEF JInv, UnfoundedIsEmpty

(* No newcomer, and no invitation made unspent, in any household.          *)
LEMMA NoNewcomer ==
  ASSUME JInv, NEW h \in HouseholdIds,
         Members(h)' \subseteq Members(h), Spent(h) \subseteq Spent(h)'
  PROVE  Cardinality(Members(h)') <= 1 + Cardinality(Spent(h)')
<1>1. Cardinality(Members(h)') <= Cardinality(Members(h))
  BY CountsAreFinite, FS_Subset
<1>2. Cardinality(Spent(h)) <= Cardinality(Spent(h)')
  BY CountsAreFinite, FS_Subset
<1>3. Cardinality(Members(h)) <= 1 + Cardinality(Spent(h))
  BY DEF JInv, OneJoinerPerInvitation, Members
<1> QED BY <1>1, <1>2, <1>3, CountsAreFinite

(* One newcomer for one invitation spent.                                  *)
LEMMA OneNewcomer ==
  ASSUME JInv, NEW h \in HouseholdIds, NEW u \in Users, NEW i \in Invitations,
         i \notin Spent(h),
         Members(h)' = Members(h) \cup {u}, Spent(h)' = Spent(h) \cup {i}
  PROVE  Cardinality(Members(h)') <= 1 + Cardinality(Spent(h)')
<1>1. Cardinality(Members(h)') <= Cardinality(Members(h)) + 1
  <2>1. Cardinality(Members(h) \cup {u}) =
          IF u \in Members(h) THEN Cardinality(Members(h)) ELSE Cardinality(Members(h)) + 1
    BY CountsAreFinite, FS_AddElement
  <2> QED BY <2>1, CountsAreFinite
<1>2. Cardinality(Spent(h)') = Cardinality(Spent(h)) + 1
  BY CountsAreFinite, FS_AddElement
<1>3. Cardinality(Members(h)) <= 1 + Cardinality(Spent(h))
  BY DEF JInv, OneJoinerPerInvitation, Members
<1>4. /\ Cardinality(Members(h)) \in Nat /\ Cardinality(Members(h)') \in Nat
      /\ Cardinality(Spent(h)) \in Nat /\ Cardinality(Spent(h)') \in Nat
  BY CountsAreFinite
<1>5. \A m, n, s, t \in Nat : n <= m + 1 /\ t = s + 1 /\ m <= 1 + s => n <= 1 + t
  OBVIOUS
<1> QED BY <1>1, <1>2, <1>3, <1>4, <1>5, Zenon

LEMMA JStep == JInv /\ [Next]_vars => JInv'
<1> SUFFICES ASSUME JInv, [Next]_vars
             PROVE  (UnfoundedIsEmpty /\ OneJoinerPerInvitation)'
  BY TypeStep DEF JInv
<1> SUFFICES ASSUME NEW h \in HouseholdIds
             PROVE  /\ ~Exists(h)' => Members(h)' = {}
                    /\ Cardinality(Members(h)') <= 1 + Cardinality(Spent(h)')
  BY DEF UnfoundedIsEmpty, OneJoinerPerInvitation, Members
<1> DEFINE Goal == /\ ~Exists(h)' => Members(h)' = {}
                   /\ Cardinality(Members(h)') <= 1 + Cardinality(Spent(h)')
<1> USE DEF SetRole, Exists
<1>t. TypeOK /\ UnfoundedIsEmpty
  BY DEF JInv
<1>e. ASSUME Exists(h)' \/ ~Exists(h), Members(h)' \subseteq Members(h),
             Spent(h) \subseteq Spent(h)'
      PROVE  Goal
  BY <1>e, <1>t, NoNewcomer DEF UnfoundedIsEmpty
<1>1. ASSUME NEW u \in Users, NEW g \in HouseholdIds, CreateHousehold(u, g)
      PROVE  Goal
  <2>1. Exists(g)' /\ (g # h => Exists(h)' = Exists(h)) /\ Spent(h)' = Spent(h)
    BY <1>1, <1>t DEF CreateHousehold, Spent, TypeOK
  <2>2. CASE g = h
    <3>1. Members(h) = {}
      BY <1>1, <1>t, <2>2 DEF CreateHousehold, UnfoundedIsEmpty
    <3>2. Members(h)' = {u}
      BY <1>1, <1>t, <2>2, <3>1 DEF CreateHousehold, Members, Member, TypeOK,
                                   Organiser, NotMember
    <3>3. Cardinality(Members(h)') = 1
      BY <3>2, FS_Singleton
    <3> QED BY <2>1, <2>2, <3>3, CountsAreFinite
  <2>3. CASE g # h
    <3>1. Members(h)' = Members(h)
      BY <1>1, <1>t, <2>3 DEF CreateHousehold, Members, Member, TypeOK
    <3> QED BY <1>e, <2>1, <2>3, <3>1
  <2> QED BY <2>2, <2>3
<1>2. ASSUME NEW g \in HouseholdIds, NEW v \in Users, NEW r \in Roles,
             SetRole(g, v, r), Member(g, v) \/ r = NotMember,
             UNCHANGED invitation, Exists(h)' = Exists(h)
      PROVE  Goal
  <2>1. Members(h)' \subseteq Members(h)
    BY <1>2, <1>t DEF Members, Member, TypeOK
  <2>2. Spent(h)' = Spent(h)
    BY <1>2 DEF Spent
  <2> QED BY <1>2, <1>e, <2>1, <2>2
<1>3. ASSUME NEW u \in Users, NEW g \in HouseholdIds, NEW v \in Users,
             TransferHousehold(u, g, v)
      PROVE  Goal
  <2>1. Exists(h)' = Exists(h)
    BY <1>3, <1>t DEF TransferHousehold, SetHouseholdAdmin, TypeOK
  <2>2. Organiser \in Roles
    BY DEF Roles, HouseholdRole
  <2> QED BY <1>2, <1>3, <2>1, <2>2
             DEF TransferHousehold, SetHouseholdAdmin, ActiveMember
<1>4. ASSUME NEW u \in Users, NEW g \in HouseholdIds,
             DeleteHousehold(u, g) \/ RestoreHousehold(u, g)
      PROVE  Goal
  <2>1. Exists(h)' = Exists(h)
    <3>1. CASE DeleteHousehold(u, g)
      <4>1. household' = [household EXCEPT ![g].life = "deleted"]
        BY <3>1 DEF DeleteHousehold
      <4>2. household[g].life = "live"
        BY <3>1 DEF DeleteHousehold, Owned, MyHousehold, Live
      <4> QED BY <1>t, <4>1, <4>2 DEF TypeOK
    <3>2. CASE RestoreHousehold(u, g)
      BY <3>2, <1>t DEF RestoreHousehold, Administered, TypeOK
    <3> QED BY <1>4, <3>1, <3>2
  <2>2. Members(h)' = Members(h) /\ Spent(h)' = Spent(h)
    BY <1>4 DEF DeleteHousehold, RestoreHousehold, Members, Member, Spent
  <2> QED BY <1>e, <2>1, <2>2
<1>5. ASSUME NEW u \in Users, NEW g \in HouseholdIds, NEW v \in Users,
             NEW r \in HouseholdRole, UpdateMember(u, g, v, r)
      PROVE  Goal
  <2>1. Exists(h)' = Exists(h) /\ UNCHANGED invitation
    BY <1>5 DEF UpdateMember
  <2> QED BY <1>2, <1>5, <2>1, LadderIsNat
             DEF UpdateMember, SetMemberRole, ActiveMember
<1>6. ASSUME NEW u \in Users, NEW g \in HouseholdIds, NEW v \in Users,
             RemoveHouseholdMember(u, g, v) \/ (u = v /\ LeaveHousehold(u, g))
      PROVE  Goal
  <2>1. NotMember \in Roles
    BY DEF Roles
  <2>2. Exists(h)' = Exists(h) /\ UNCHANGED invitation /\ SetRole(g, v, NotMember)
    BY <1>6 DEF RemoveHouseholdMember, LeaveHousehold, RemoveMember
  <2> QED BY <1>2, <2>1, <2>2
<1>7. ASSUME UNCHANGED <<household, role>>, Spent(h) \subseteq Spent(h)'
      PROVE  Goal
  <2>1. Members(h)' = Members(h) /\ Exists(h)' = Exists(h)
    BY <1>7 DEF Members, Member
  <2> QED BY <1>7, <1>e, <2>1
<1>8. ASSUME NEW u \in Users, NEW g \in HouseholdIds, NEW i \in Invitations,
             CreateInvitation(u, g, i)
      PROVE  Goal
  <2>1. Spent(h) \subseteq Spent(h)'
    BY <1>8, <1>t DEF CreateInvitation, Spent, TypeOK
  <2> QED BY <1>7, <1>8, <2>1 DEF CreateInvitation
<1>9. ASSUME NEW u \in Users, NEW i \in Invitations,
             RevokeInvitation(u, i) \/ DeleteInvitation(u, i)
      PROVE  Goal
  <2>1. Spent(h) \subseteq Spent(h)'
    <3>1. CASE RevokeInvitation(u, i)
      <4>1. i \notin Spent(h) /\ invitation' = [invitation EXCEPT ![i].status = "revoked"]
        BY <3>1 DEF RevokeInvitation, SetInvitation, Spent
      <4> QED BY <1>t, <4>1 DEF Spent, TypeOK
    <3>2. CASE DeleteInvitation(u, i)
      <4>1. invitation' = [invitation EXCEPT ![i].status = "deleted"]
        BY <3>2 DEF DeleteInvitation, SetInvitation
      <4> QED BY <1>t, <4>1 DEF Spent, TypeOK, Invitation
    <3> QED BY <1>9, <3>1, <3>2
  <2> QED BY <1>7, <1>9, <2>1 DEF RevokeInvitation, DeleteInvitation
<1>10. ASSUME NEW u \in Users, NEW i \in Invitations, AcceptInvitation(u, i)
       PROVE  Goal
  <2> DEFINE g == invitation[i].household
  <2>1. /\ g \in HouseholdIds /\ Exists(g) /\ household' = household
        /\ invitation[i].status = "pending"
        /\ role' = [role EXCEPT ![g][u] = Helper]
        /\ invitation' = [invitation EXCEPT ![i].status = "accepted"]
    BY <1>10, <1>t DEF AcceptInvitation, Live, Spend, SetInvitation, TypeOK, Invitation
  <2>2. CASE g = h
    <3>1. Members(h)' = Members(h) \cup {u}
      BY <1>t, <2>1, <2>2 DEF Members, Member, TypeOK, Helper, NotMember
    <3>2. i \notin Spent(h) /\ Spent(h)' = Spent(h) \cup {i}
      BY <1>t, <2>1, <2>2 DEF Spent, TypeOK, Invitation
    <3>3. Exists(h)'
      BY <2>1, <2>2
    <3> QED BY <3>1, <3>2, <3>3, OneNewcomer
  <2>3. CASE g # h
    <3>1. Members(h)' = Members(h)
      BY <1>t, <2>1, <2>3 DEF Members, Member, TypeOK
    <3>2. Spent(h)' = Spent(h) /\ Exists(h)' = Exists(h)
      BY <1>t, <2>1, <2>3 DEF Spent, TypeOK, Invitation
    <3> QED BY <1>e, <3>1, <3>2
  <2> QED BY <2>2, <2>3
<1>11. CASE ExpireInvitations
  <2>1. Spent(h) \subseteq Spent(h)'
    BY <1>11, <1>t DEF ExpireInvitations, Expired, Spent, TypeOK, Invitation
  <2> QED BY <1>7, <1>11, <2>1 DEF ExpireInvitations
<1>12. ASSUME UNCHANGED <<household, role, invitation>>
       PROVE  Goal
  BY <1>12, <1>7 DEF Spent
<1> QED
  BY <1>1, <1>3, <1>4, <1>5, <1>6, <1>8, <1>9, <1>10, <1>11, <1>12
     DEF Next, UserStep, vars, Tick, ToggleAccount

(* Everybody in a household but its founder used up an invitation nobody   *)
(* else came in by, however people join, leave and rejoin: an accepted     *)
(* link is never good for a second person (accept_invitation).             *)
THEOREM OneJoinerPerInvitationAlways == Spec => []OneJoinerPerInvitation
<1>1. JInv => OneJoinerPerInvitation
  BY DEF JInv
<1> QED BY <1>1, JInit, JStep, PTL DEF Spec

-----------------------------------------------------------------------------
(* The organisers                                                          *)

LEMMA OrganisersStep ==
  ASSUME TypeOK, [Next]_vars, PeerNext, NEW h \in HouseholdIds, NEW u \in Users,
         Exists(h), role'[h][u] = Organiser
  PROVE  role[h][u] = Organiser
<1> USE DEF SetRole
<1>1. CASE ExpireInvitations \/ Tick
  BY <1>1 DEF ExpireInvitations, Tick
<1>2. ASSUME NEW p \in Users \ SiteAdmins, UserStep(p),
             \A g \in HouseholdIds : Live(g) => Owner(g) # p
      PROVE  role[h][u] = Organiser
  <2> USE DEF Administered, Owned, MyHousehold
  <2>1. ASSUME NEW g \in HouseholdIds, CreateHousehold(p, g)
        PROVE  role[h][u] = Organiser
    BY <2>1 DEF CreateHousehold, TypeOK, Exists
  <2>2. ASSUME NEW g \in HouseholdIds, NEW v \in Users, TransferHousehold(p, g, v)
        PROVE  role[h][u] = Organiser
    BY <1>2, <2>2 DEF TransferHousehold
  <2>3. ASSUME NEW g \in HouseholdIds, NEW v \in Users, NEW r \in HouseholdRole,
               UpdateMember(p, g, v, r)
        PROVE  role[h][u] = Organiser
    <3>1. r # Organiser
      BY <1>2, <2>3 DEF UpdateMember, Organised, MayReRole
    <3>2. role' = [role EXCEPT ![g][v] = r]
      BY <2>3 DEF UpdateMember, SetMemberRole
    <3> QED BY <3>1, <3>2 DEF TypeOK
  <2>4. ASSUME NEW g \in HouseholdIds, NEW v \in Users,
               RemoveHouseholdMember(p, g, v) \/ (p = v /\ LeaveHousehold(p, g))
        PROVE  role[h][u] = Organiser
    <3>1. role' = [role EXCEPT ![g][v] = NotMember]
      BY <2>4 DEF RemoveHouseholdMember, LeaveHousehold, RemoveMember
    <3> QED BY <3>1 DEF TypeOK, NotMember, Organiser
  <2>5. ASSUME NEW i \in Invitations, AcceptInvitation(p, i)
        PROVE  role[h][u] = Organiser
    <3>1. /\ invitation[i].household \in HouseholdIds
          /\ role' = [role EXCEPT ![invitation[i].household][p] = Helper]
      BY <2>5 DEF AcceptInvitation, TypeOK, Invitation
    <3> QED BY <3>1 DEF TypeOK, Helper, Organiser
  <2>6. ASSUME UNCHANGED role
        PROVE  role[h][u] = Organiser
    BY <2>6
  <2> QED
    BY <1>2, <2>1, <2>2, <2>3, <2>4, <2>5, <2>6
       DEF UserStep, DeleteHousehold, RestoreHousehold, CreateInvitation,
           RevokeInvitation, DeleteInvitation
<1> QED BY <1>1, <1>2 DEF PeerNext

(* Organisers who do not own a household cannot add to its organisers, by  *)
(* any of the operations open to them (update_household_member).           *)
THEOREM OrganisersDoNotGrowAlways == Spec => OrganisersDoNotGrow
<1>1. TypeOK /\ [Next]_vars =>
        [PeerNext => \A h \in HouseholdIds, u \in Users :
           Exists(h) /\ role'[h][u] = Organiser => role[h][u] = Organiser]_vars
  BY OrganisersStep
<1> QED BY <1>1, TypeInit, TypeStep, PTL DEF Spec, OrganisersDoNotGrow
=============================================================================
