--------------------------- MODULE HouseholdRaces ---------------------------
(***************************************************************************)
(* The requests of Households again, on one live household, cut at their   *)
(* SQL statements and run side by side under READ COMMITTED, where the     *)
(* household, once loaded, is not read again (the ORM's identity map), an  *)
(* UPDATE or DELETE waits for the row and applies to what it has become,   *)
(* and writes are seen at commit.  The last write of a request and its     *)
(* commit are one step: nothing it checks can change in between.           *)
(*                                                                         *)
(* Accounts are active throughout.  Time is left out: an invitation may    *)
(* lapse at any moment.                                                    *)
(***************************************************************************)
EXTENDS Integers, FiniteSets, RoleLadder

CONSTANTS
  Sessions,
  Users,
  Operator,     \* a site administrator, through the admin surface
  Invitations,
  Kinds,        \* the requests in play
  MAX_PENDING_INVITATIONS,
  MaxRequests,  \* bound on the requests started
  Nobody

ASSUME IdAssumption ==
  Operator \notin Users /\ Nobody \notin Users \cup {Operator} \cup Sessions \cup Invitations

ASSUME KindsAssumption ==
  Kinds \subseteq {"transfer", "role", "remove", "invite", "revoke", "discard", "accept"}

(* A table holds finitely many rows.                                       *)
ASSUME BoundAssumption ==
  IsFiniteSet(Invitations) /\ MAX_PENDING_INVITATIONS \in Nat /\ MaxRequests \in Nat

VARIABLES
  owner,       \* households.admin_id
  role,        \* household_members
  invitation,  \* household_invitations.status
  advisory,    \* the session holding pg_advisory_xact_lock(household_id)
  sess,        \* each session's request, what it has read and where it is
  started,     \* requests started, for the bound
  joiners      \* who came in by each invitation, for the properties

vars == <<owner, role, invitation, advisory, sess, started, joiners>>

Callers == Users \cup {Operator}

InvitationStatus == {"unused", "pending", "accepted", "revoked", "expired", "deleted"}

Places == {"idle", "loaded", "standing",
           "member", "promoting", "unmatched",   \* transfer
           "peer", "target",                     \* role
           "removable",                          \* remove
           "resolved", "outsider",               \* accept
           "fetched",                            \* revoke, discard
           "counting", "counted"}                \* invite

Session == [at : Places, kind : Kinds \cup {"none"}, by : Callers \cup {Nobody},
            target : Users \cup {Nobody}, role : Roles,
            link : Invitations \cup {Nobody}, seen : Users \cup {Nobody}]

(* A member row never holds a role off the ladder, nor the household an    *)
(* owner who is no user, whatever the interleaving.                        *)
TypeOK ==
  /\ owner \in Users
  /\ role \in [Users -> Roles]
  /\ invitation \in [Invitations -> InvitationStatus]
  /\ advisory \in Sessions \cup {Nobody}
  /\ sess \in [Sessions -> Session]
  /\ started \in 0..MaxRequests
  /\ joiners \in [Invitations -> SUBSET Users]

Blank == [at |-> "idle", kind |-> "none", by |-> Nobody, target |-> Nobody,
          role |-> NotMember, link |-> Nobody, seen |-> Nobody]

Pending == {i \in Invitations : invitation[i] = "pending"}

(* Any household Households can reach, with invitations yet to be used.    *)
Init ==
  /\ owner \in Users
  /\ role \in [Users -> Roles] /\ role[owner] = Organiser
  /\ invitation \in [Invitations -> {"unused", "pending"}]
  /\ Cardinality(Pending) <= MAX_PENDING_INVITATIONS
  /\ advisory = Nobody
  /\ sess = [s \in Sessions |-> Blank]
  /\ started = 0
  /\ joiners = [i \in Invitations |-> {}]

-----------------------------------------------------------------------------
(* Steps in general                                                        *)

At(s, kind, place) == sess[s].kind = kind /\ sess[s].at = place

Go(s, place) == sess' = [sess EXCEPT ![s].at = place] /\ UNCHANGED advisory

(* Variant: pg_advisory_lock, which no COMMIT or ROLLBACK lets go.         *)
End_KeepsLock(s) == sess' = [sess EXCEPT ![s] = Blank] /\ UNCHANGED advisory

(* COMMIT or ROLLBACK: the transaction's advisory lock is let go.          *)
End(s) ==
  /\ sess' = [sess EXCEPT ![s] = Blank]
  /\ advisory' = IF advisory = s THEN Nobody ELSE advisory

Unwritten == UNCHANGED <<owner, role, invitation, joiners>>

(* A read that lets the request go on, or refuses it with a 4xx.           *)
Check(s, kind, place, ok, next) ==
  /\ At(s, kind, place)
  /\ IF ok THEN Go(s, next) ELSE End(s)
  /\ Unwritten /\ UNCHANGED started

(* Rows of household_members an uncommitted UPDATE holds.                  *)
Unlocked(v) == \A t \in Sessions : ~(At(t, "transfer", "promoting") /\ sess[t].target = v)

IsMember(v) == role[v] # NotMember

Organises(u) == u \in {Operator} \cup {v \in Users : role[v] >= Organiser}

(* Whom each request is open to, on the first SELECT of the household.     *)
Openers(kind, target) ==
  LET members == {u \in Users : IsMember(u)}
      owning == members \cap {owner}
  IN  CASE kind = "transfer" -> owning \cup {Operator}
        [] kind = "remove"   -> owning \cup {Operator} \cup (members \cap {target})
        [] kind = "role"     -> members \cup {Operator}
        [] kind \in {"invite", "revoke", "discard"} -> members
        [] kind = "accept"   -> Users

(* What a request names: a member, with a role to give, or an invitation.  *)
Arguments(kind) ==
  CASE kind \in {"transfer", "remove"} -> Users \X {NotMember} \X {Nobody}
    [] kind = "role" -> Users \X HouseholdRole \X {Nobody}
    [] kind \in {"revoke", "discard"} -> {Nobody} \X {NotMember} \X Invitations
    [] kind = "invite" -> {Nobody} \X {NotMember} \X {Nobody}
    [] kind = "accept" -> {Nobody} \X {NotMember} \X Invitations

(* Bound: an invite is only begun while there is an id left for it.        *)
IdsLeft ==
  Cardinality({i \in Invitations : invitation[i] = "unused"})
    > Cardinality({t \in Sessions : sess[t].kind = "invite"})

(* _get_my_household_or_404, _get_owned_household or _get_household_or_404 *)
(* loads the household; accept_invitation only knows its token.            *)
Begin(s, kind, by, x) ==
  /\ sess[s].at = "idle" /\ started < MaxRequests
  /\ kind = "invite" => IdsLeft
  /\ by \in Openers(kind, x[1])
  /\ sess' = [sess EXCEPT ![s] =
       [at |-> "loaded", kind |-> kind, by |-> by, target |-> x[1],
        role |-> x[2], link |-> x[3], seen |-> IF kind = "accept" THEN Nobody ELSE owner]]
  /\ started' = started + 1
  /\ Unwritten /\ UNCHANGED advisory

(* require_role(organiser), the second half of _get_organised_household.   *)
RequireOrganiser(s) ==
  \E kind \in {"role", "invite", "revoke", "discard"} :
    Check(s, kind, "loaded", Organises(sess[s].by), "standing")

-----------------------------------------------------------------------------
(* set_household_admin and the commit of the PATCH                         *)

TransferCheckMember(s) ==
  Check(s, "transfer", "loaded", IsMember(sess[s].target), "member")

(* The UPDATE of the new owner's row, if there is one by now.              *)
TransferPromote(s) ==
  /\ At(s, "transfer", "member")
  /\ Unlocked(sess[s].target)
  /\ Go(s, IF IsMember(sess[s].target) THEN "promoting" ELSE "unmatched")
  /\ Unwritten /\ UNCHANGED started
Promote(v) == role' = [role EXCEPT ![v] = Organiser]

(* admin_id is written unless it equals what was loaded.                   *)
TransferCommit(s) ==
  LET v == sess[s].target
  IN  /\ At(s, "transfer", "promoting") \/ At(s, "transfer", "unmatched")
      /\ IF sess[s].at = "promoting" THEN Promote(v) ELSE UNCHANGED role
      /\ owner' = IF v = sess[s].seen THEN owner ELSE v
      /\ End(s)
      /\ UNCHANGED <<invitation, started, joiners>>

-----------------------------------------------------------------------------
(* update_household_member, its admin twin and set_member_role             *)

(* The asymmetry, by the owner loaded: an owner and a site administrator   *)
(* skip the read of the target's role.                                     *)
RoleAsymmetry(s) ==
  LET v == sess[s].target
      unrestricted == sess[s].by \in {sess[s].seen, Operator}
      peers == role[v] # Organiser /\ sess[s].role # Organiser
  IN  Check(s, "role", "standing",
            v # sess[s].seen /\ (unrestricted \/ peers), "peer")

RoleCheckMember(s) == Check(s, "role", "peer", IsMember(sess[s].target), "target")

RoleCommit(s) ==
  LET v == sess[s].target
  IN  /\ At(s, "role", "target")
      /\ Unlocked(v)
      /\ role' = IF IsMember(v) THEN [role EXCEPT ![v] = sess[s].role] ELSE role
      /\ End(s)
      /\ UNCHANGED <<owner, invitation, started, joiners>>

-----------------------------------------------------------------------------
(* remove_member, by the owner, a site administrator or who leaves         *)

(* Reads admin_id afresh.                                                  *)
RemoveCheckOwner(s) == Check(s, "remove", "loaded", owner # sess[s].target, "removable")

RemoveCommit(s) ==
  /\ At(s, "remove", "removable")
  /\ Unlocked(sess[s].target)
  /\ role' = [role EXCEPT ![sess[s].target] = NotMember]
  /\ End(s)
  /\ UNCHANGED <<owner, invitation, started, joiners>>

-----------------------------------------------------------------------------
(* Invitations                                                             *)

(* Variant: no lock around the count.                                      *)
Advise_NoLock(s) == Go(s, "counting")

(* pg_advisory_xact_lock(household_id) waits for its turn.                 *)
Advise(s) ==
  /\ advisory \in {Nobody, s}
  /\ advisory' = s
  /\ sess' = [sess EXCEPT ![s].at = "counting"]

InviteLock(s) ==
  /\ At(s, "invite", "standing")
  /\ Advise(s)
  /\ Unwritten /\ UNCHANGED started

InviteCount(s) ==
  Check(s, "invite", "counting", Cardinality(Pending) < MAX_PENDING_INVITATIONS, "counted")

InviteCommit(s) ==
  /\ At(s, "invite", "counted")
  /\ \E i \in Invitations : /\ invitation[i] = "unused"
                            /\ invitation' = [invitation EXCEPT ![i] = "pending"]
  /\ End(s)
  /\ UNCHANGED <<owner, role, started, joiners>>

(* _get_invitation_or_404 and the look at its status.                      *)
Fetch(s) ==
  LET status == invitation[sess[s].link]
  IN  \/ Check(s, "revoke", "standing", status = "pending", "fetched")
      \/ Check(s, "discard", "standing",
               status \in {"accepted", "revoked", "expired"}, "fetched")

(* The flushed UPDATE or DELETE is by primary key; SQLAlchemy fails the    *)
(* UPDATE of a row that is gone, and the request with it.                  *)
SetStatus(s, status) ==
  LET i == sess[s].link
  IN  invitation' = IF invitation[i] = "deleted" THEN invitation
                    ELSE [invitation EXCEPT ![i] = status]

RevokeCommit(s) ==
  /\ At(s, "revoke", "fetched")
  /\ SetStatus(s, "revoked")
  /\ End(s)
  /\ UNCHANGED <<owner, role, started, joiners>>

DiscardCommit(s) ==
  /\ At(s, "discard", "fetched")
  /\ SetStatus(s, "deleted")
  /\ End(s)
  /\ UNCHANGED <<owner, role, started, joiners>>

AcceptResolve(s) ==
  Check(s, "accept", "loaded", invitation[sess[s].link] = "pending", "resolved")

AcceptCheckMember(s) ==
  Check(s, "accept", "resolved", ~IsMember(sess[s].by), "outsider")

(* The INSERT fails on the primary key if the caller is a member by now.   *)
AcceptCommit(s) ==
  LET u == sess[s].by
      i == sess[s].link
      ok == ~IsMember(u) /\ invitation[i] # "deleted"
  IN  /\ At(s, "accept", "outsider")
      /\ IF ok
         THEN /\ role' = [role EXCEPT ![u] = Helper]
              /\ SetStatus(s, "accepted")
              /\ joiners' = [joiners EXCEPT ![i] = @ \cup {u}]
         ELSE UNCHANGED <<role, invitation, joiners>>
      /\ End(s)
      /\ UNCHANGED <<owner, started>>

(* mark_expired_invitations is one UPDATE, its WHERE looked at again after *)
(* any wait.                                                               *)
Expire ==
  /\ \E i \in Pending : invitation' = [invitation EXCEPT ![i] = "expired"]
  /\ UNCHANGED <<owner, role, advisory, sess, started, joiners>>

-----------------------------------------------------------------------------
Start(s) == \E kind \in Kinds, by \in Callers :
              \E x \in Arguments(kind) : Begin(s, kind, by, x)

Step(s) ==
  \/ RequireOrganiser(s)
  \/ TransferCheckMember(s) \/ TransferPromote(s) \/ TransferCommit(s)
  \/ RoleAsymmetry(s) \/ RoleCheckMember(s) \/ RoleCommit(s)
  \/ RemoveCheckOwner(s) \/ RemoveCommit(s)
  \/ InviteLock(s) \/ InviteCount(s) \/ InviteCommit(s)
  \/ Fetch(s) \/ RevokeCommit(s) \/ DiscardCommit(s)
  \/ AcceptResolve(s) \/ AcceptCheckMember(s) \/ AcceptCommit(s)

Next == (\E s \in Sessions : Start(s) \/ Step(s)) \/ Expire

Spec == Init /\ [][Next]_vars

(* A request that is not waiting for a lock goes on, and PostgreSQL hands  *)
(* a lock to everybody who waits for it in turn.                           *)
FairSpec == Spec /\ \A s \in Sessions : SF_vars(Step(s))

-----------------------------------------------------------------------------
(* What holds                                                              *)

(* However many organisers invite at once, the cap holds: that is what the *)
(* advisory lock of create_invitation is for.                              *)
PendingWithinCap == Cardinality(Pending) <= MAX_PENDING_INVITATIONS

(* Row locks and the advisory lock never leave a request waiting forever.  *)
RequestsFinish == \A s \in Sessions : (sess[s].at # "idle") ~> (sess[s].at = "idle")

(* What is said to hold, and does not                                      *)

(* app/core/households.py:131, "`admin_id` always references a current     *)
(* member (set_household_admin and remove_member both enforce it)".        *)
OwnerIsMember == IsMember(owner)

(* docs/architecture/households.md:83, "The owner is by definition an      *)
(* organiser".                                                             *)
OwnerIsOrganiser == IsMember(owner) => role[owner] = Organiser

(* app/api/v1/invitations.py:24, "keeps the link single-use (an accepted   *)
(* invite can't be redeemed again)".                                       *)
LinkIsSingleUse == \A i \in Invitations : Cardinality(joiners[i]) <= 1

(* app/api/v1/households.py:866, "Only a pending invitation can be revoked;*)
(* this one is already accepted, revoked or expired": whoever joined did   *)
(* not do so by an invitation the household has as revoked.                *)
NobodyJoinsByRevoked ==
  \A i \in Invitations : invitation[i] = "revoked" => joiners[i] = {}

(* docs/architecture/households.md:92, an organiser may not "touch a row   *)
(* already holding it": whoever demotes an organiser owned the household   *)
(* when they asked to, or is a site administrator.                         *)
OrganisersAreNotDemotedByPeers ==
  [][\A s \in Sessions :
       LET v == sess[s].target
       IN  At(s, "role", "target") /\ role[v] = Organiser /\ role'[v] # Organiser =>
             sess[s].by \in {sess[s].seen, Operator}]_vars
=============================================================================
