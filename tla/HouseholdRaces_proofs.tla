----------------------- MODULE HouseholdRaces_proofs ------------------------
(***************************************************************************)
(* What HouseholdRaces promises for any number of sessions, users and      *)
(* invitations, every cap, and every mix of requests.                      *)
(***************************************************************************)
EXTENDS HouseholdRaces, FiniteSetTheorems, TLAPS

LEMMA LadderIsNat == Roles \subseteq Nat /\ HouseholdRole \subseteq Roles
                     /\ {NotMember, Helper, Organiser} \subseteq Roles
BY DEF Roles, HouseholdRole, Helper, Deputy, Organiser, NotMember

(* A request keeps the arguments of its kind for as long as it is served.  *)
Argued ==
  \A s \in Sessions :
    /\ sess[s].kind \in {"transfer", "role", "remove"} => sess[s].target \in Users
    /\ sess[s].kind \in {"revoke", "discard", "accept"} => sess[s].link \in Invitations
    /\ sess[s].kind = "accept" => sess[s].by \in Users

(* Whoever counts the pending invitations, or has counted them, holds the  *)
(* household's advisory lock; so only one request at a time does.          *)
CountersHoldLock ==
  \A s \in Sessions : sess[s].at \in {"counting", "counted"} => advisory = s

(* What was counted under the lock is true until the commit: the others    *)
(* can only take pending invitations away.                                 *)
CountStands ==
  \A s \in Sessions : sess[s].at = "counted" => Cardinality(Pending) < MAX_PENDING_INVITATIONS

IInv == TypeOK /\ Argued /\ CountersHoldLock /\ CountStands /\ PendingWithinCap

-----------------------------------------------------------------------------
(* The count                                                               *)

LEMMA PendingIsFinite ==
  /\ IsFiniteSet(Pending) /\ Cardinality(Pending) \in Nat
  /\ IsFiniteSet(Pending') /\ Cardinality(Pending') \in Nat
<1>1. IsFiniteSet(Pending) /\ IsFiniteSet(Pending')
  BY BoundAssumption, FS_Subset DEF Pending
<1> QED BY <1>1, FS_CardinalityType

LEMMA FewerPending ==
  ASSUME Pending' \subseteq Pending PROVE Cardinality(Pending') <= Cardinality(Pending)
BY PendingIsFinite, FS_Subset

-----------------------------------------------------------------------------
(* Steps in general                                                        *)

(* A request goes on, having written nothing.                              *)
LEMMA GoKeeps ==
  ASSUME IInv, NEW s \in Sessions, NEW place \in Places \ {"counting"},
         Go(s, place), Unwritten, UNCHANGED started,
         place = "counted" =>
           sess[s].at = "counting" /\ Cardinality(Pending) < MAX_PENDING_INVITATIONS
  PROVE  IInv'
<1>1. /\ sess \in [Sessions -> Session] /\ sess[s] \in Session
      /\ sess' = [sess EXCEPT ![s] = [sess[s] EXCEPT !.at = place]]
  BY DEF IInv, TypeOK, Go
<1>2. [sess[s] EXCEPT !.at = place] \in Session
  BY <1>1 DEF Session
<1>3. \A t \in Sessions : /\ sess'[t].kind = sess[t].kind /\ sess'[t].target = sess[t].target
                          /\ sess'[t].link = sess[t].link /\ sess'[t].by = sess[t].by
                          /\ sess'[t].at = IF t = s THEN place ELSE sess[t].at
  BY <1>1 DEF Session
<1>4. Pending' = Pending /\ advisory' = advisory
  BY DEF Unwritten, Pending, Go
<1>5. TypeOK'
  BY <1>1, <1>2 DEF IInv, TypeOK, Unwritten, Go
<1>6. Argued'
  BY <1>3 DEF IInv, Argued
<1>7. CountersHoldLock'
  BY <1>3, <1>4 DEF IInv, CountersHoldLock
<1>8. CountStands'
  BY <1>3, <1>4 DEF IInv, CountStands
<1>9. PendingWithinCap'
  BY <1>4 DEF IInv, PendingWithinCap
<1> QED BY <1>5, <1>6, <1>7, <1>8, <1>9 DEF IInv

(* What a transaction may leave behind: rows of their types, and no more   *)
(* invitations pending than before, unless it had counted them.            *)
Committed(s) ==
  /\ owner' \in Users
  /\ role' \in [Users -> Roles]
  /\ invitation' \in [Invitations -> InvitationStatus]
  /\ joiners' \in [Invitations -> SUBSET Users]
  /\ started' = started
  /\ \/ Pending' \subseteq Pending
     \/ sess[s].at = "counted" /\ \E i : Pending' = Pending \cup {i}

(* COMMIT or ROLLBACK.                                                     *)
LEMMA EndKeeps ==
  ASSUME IInv, NEW s \in Sessions, End(s), Committed(s)
  PROVE  IInv'
<1>1. /\ sess \in [Sessions -> Session] /\ sess' = [sess EXCEPT ![s] = Blank]
      /\ advisory' = IF advisory = s THEN Nobody ELSE advisory
  BY DEF IInv, TypeOK, End
<1>2. Blank \in Session /\ Blank.at = "idle" /\ Blank.kind = "none"
  BY DEF Blank, Session, Places, Roles
<1>3. \A t \in Sessions : t # s => sess'[t] = sess[t]
  BY <1>1
<1>4. sess'[s] = Blank
  BY <1>1
<1>5. TypeOK'
  <2>1. sess' \in [Sessions -> Session] /\ advisory' \in Sessions \cup {Nobody}
    BY <1>1, <1>2 DEF IInv, TypeOK
  <2>2. started' \in 0..MaxRequests
    BY DEF Committed, IInv, TypeOK
  <2> QED BY <2>1, <2>2 DEF Committed, TypeOK
<1>6. Argued'
  BY <1>2, <1>3, <1>4 DEF IInv, Argued
<1>7. CountersHoldLock'
  BY <1>1, <1>2, <1>3, <1>4 DEF IInv, CountersHoldLock
<1>8. CASE Pending' \subseteq Pending
  <2>1. Cardinality(Pending') <= Cardinality(Pending)
    BY <1>8, FewerPending
  <2>2. CountStands'
    BY <1>2, <1>3, <1>4, <2>1, PendingIsFinite, BoundAssumption DEF IInv, CountStands
  <2>3. PendingWithinCap'
    BY <2>1, PendingIsFinite, BoundAssumption DEF IInv, PendingWithinCap
  <2> QED BY <1>5, <1>6, <1>7, <2>2, <2>3 DEF IInv
<1>9. CASE sess[s].at = "counted" /\ \E i : Pending' = Pending \cup {i}
  <2>1. Cardinality(Pending) < MAX_PENDING_INVITATIONS
    BY <1>9 DEF IInv, CountStands
  <2>2. Cardinality(Pending') <= Cardinality(Pending) + 1
    BY <1>9, PendingIsFinite, FS_AddElement
  <2>3. PendingWithinCap'
    BY <2>1, <2>2, PendingIsFinite, BoundAssumption DEF PendingWithinCap
  <2>4. \A t \in Sessions : t # s => sess[t].at # "counted"
    BY <1>9 DEF IInv, CountersHoldLock
  <2>5. CountStands'
    BY <1>2, <1>3, <1>4, <2>4 DEF CountStands
  <2> QED BY <1>5, <1>6, <1>7, <2>3, <2>5 DEF IInv
<1> QED BY <1>8, <1>9 DEF Committed

(* A 4xx, or a commit of nothing.                                          *)
LEMMA NothingCommitted ==
  ASSUME IInv, NEW s \in Sessions, Unwritten, UNCHANGED started PROVE Committed(s)
BY DEF Committed, Unwritten, IInv, TypeOK, Pending

LEMMA ReadKeeps ==
  ASSUME IInv, NEW s \in Sessions, Unwritten, UNCHANGED started,
         End(s) \/ \E next \in Places \ {"counting", "counted"} : Go(s, next)
  PROVE  IInv'
BY GoKeeps, EndKeeps, NothingCommitted

-----------------------------------------------------------------------------
(* The requests                                                            *)

LEMMA InitKeeps == Init => IInv
<1> SUFFICES ASSUME Init PROVE IInv
  OBVIOUS
<1>1. \A s \in Sessions : sess[s] = Blank
  BY DEF Init
<1>2. Blank \in Session /\ Blank.at = "idle" /\ Blank.kind = "none"
  BY DEF Blank, Session, Places, Roles
<1>3. TypeOK
  BY <1>2, BoundAssumption DEF Init, TypeOK, InvitationStatus
<1>4. Argued /\ CountersHoldLock /\ CountStands
  BY <1>1, <1>2 DEF Argued, CountersHoldLock, CountStands
<1> QED BY <1>3, <1>4 DEF Init, IInv, PendingWithinCap

(* Nobody begins by counting.                                              *)
LEMMA StartKeeps ==
  ASSUME IInv, NEW s \in Sessions, Start(s)
  PROVE  IInv'
<1>1. PICK kind \in Kinds, by \in Callers : \E x \in Arguments(kind) : Begin(s, kind, by, x)
  BY DEF Start
<1>2. PICK x \in Arguments(kind) : Begin(s, kind, by, x)
  BY <1>1
<1> DEFINE seen == IF kind = "accept" THEN Nobody ELSE owner
           q == [at |-> "loaded", kind |-> kind, by |-> by, target |-> x[1],
                 role |-> x[2], link |-> x[3], seen |-> seen]
<1>3. /\ x[1] \in Users \cup {Nobody} /\ x[2] \in Roles /\ x[3] \in Invitations \cup {Nobody}
      /\ kind \in {"transfer", "role", "remove"} => x[1] \in Users
      /\ kind \in {"revoke", "discard", "accept"} => x[3] \in Invitations
  BY KindsAssumption, LadderIsNat DEF Arguments
<1>4. kind = "accept" => by \in Users
  BY <1>2 DEF Begin, Openers
<1>5. owner \in Users /\ sess \in [Sessions -> Session] /\ started \in 0..MaxRequests
  BY DEF IInv, TypeOK
<1>6. q \in Session
  BY <1>3, <1>5 DEF Session, Places
<1>7. sess' = [sess EXCEPT ![s] = q] /\ started' = started + 1 /\ started < MaxRequests
      /\ advisory' = advisory /\ Unwritten
  BY <1>2 DEF Begin
<1>8. /\ \A t \in Sessions : t # s => sess'[t] = sess[t]
      /\ sess'[s] = q
  BY <1>5, <1>7
<1>9. TypeOK'
  <2>1. sess' \in [Sessions -> Session]
    BY <1>5, <1>6, <1>7
  <2>2. started' \in 0..MaxRequests
    BY <1>5, <1>7, BoundAssumption
  <2> QED BY <1>7, <2>1, <2>2 DEF IInv, TypeOK, Unwritten
<1>10. Argued'
  BY <1>3, <1>4, <1>8 DEF IInv, Argued
<1>11. CountersHoldLock' /\ CountStands' /\ PendingWithinCap'
  <2>1. Pending' = Pending
    BY <1>7 DEF Unwritten, Pending
  <2> QED BY <1>7, <1>8, <2>1 DEF IInv, CountersHoldLock, CountStands, PendingWithinCap
<1> QED BY <1>9, <1>10, <1>11 DEF IInv

(* The reads, and the UPDATE a transfer waits with.                        *)
LEMMA ReadsKeep ==
  ASSUME IInv, NEW s \in Sessions,
         \/ RequireOrganiser(s) \/ TransferCheckMember(s) \/ TransferPromote(s)
         \/ RoleAsymmetry(s) \/ RoleCheckMember(s) \/ RemoveCheckOwner(s)
         \/ Fetch(s) \/ AcceptResolve(s) \/ AcceptCheckMember(s)
  PROVE  IInv'
<1> DEFINE Read == /\ Unwritten /\ UNCHANGED started
                   /\ End(s) \/ \E next \in Places \ {"counting", "counted"} : Go(s, next)
<1>1. Read
  BY DEF RequireOrganiser, TransferCheckMember, TransferPromote, RoleAsymmetry, RoleCheckMember,
         RemoveCheckOwner, Fetch, AcceptResolve, AcceptCheckMember, Check, Places
<1> QED BY <1>1, ReadKeeps

(* The commits that give nobody a link.                                    *)
LEMMA CommitsKeep ==
  ASSUME IInv, NEW s \in Sessions,
         \/ TransferCommit(s) \/ RoleCommit(s) \/ RemoveCommit(s)
         \/ RevokeCommit(s) \/ DiscardCommit(s) \/ AcceptCommit(s)
  PROVE  IInv'
<1> DEFINE q == sess[s]
<1>1. /\ owner \in Users /\ role \in [Users -> Roles] /\ q.role \in Roles
      /\ invitation \in [Invitations -> InvitationStatus]
      /\ joiners \in [Invitations -> SUBSET Users]
  BY DEF IInv, TypeOK, Session
<1>2. /\ q.kind \in {"transfer", "role", "remove"} => q.target \in Users
      /\ q.kind \in {"revoke", "discard", "accept"} => q.link \in Invitations
      /\ q.kind = "accept" => q.by \in Users
  BY DEF IInv, Argued
<1>3. ASSUME NEW status \in {"revoked", "deleted", "accepted"}, SetStatus(s, status)
      PROVE  invitation' \in [Invitations -> InvitationStatus] /\ Pending' \subseteq Pending
  <2>1. invitation' = invitation \/ invitation' = [invitation EXCEPT ![q.link] = status]
    BY <1>3 DEF SetStatus
  <2>2. status \in InvitationStatus /\ status # "pending"
    BY DEF InvitationStatus
  <2> QED BY <1>1, <2>1, <2>2 DEF Pending
<1>4. CASE TransferCommit(s)
  <2>1. q.target \in Users /\ End(s)
    BY <1>2, <1>4 DEF TransferCommit, At
  <2>2. Committed(s)
    BY <1>1, <1>4, <2>1, LadderIsNat DEF TransferCommit, Promote, Committed, Pending
  <2> QED BY <2>1, <2>2, EndKeeps
<1>5. CASE RoleCommit(s)
  <2>1. End(s) /\ Committed(s)
    BY <1>1, <1>5 DEF RoleCommit, Committed, Pending
  <2> QED BY <2>1, EndKeeps
<1>6. CASE RemoveCommit(s)
  <2>1. End(s) /\ Committed(s)
    BY <1>1, <1>6, LadderIsNat DEF RemoveCommit, Committed, Pending
  <2> QED BY <2>1, EndKeeps
<1>7. CASE RevokeCommit(s)
  <2>1. End(s) /\ Committed(s)
    BY <1>1, <1>3, <1>7 DEF RevokeCommit, Committed
  <2> QED BY <2>1, EndKeeps
<1>8. CASE DiscardCommit(s)
  <2>1. End(s) /\ Committed(s)
    BY <1>1, <1>3, <1>8 DEF DiscardCommit, Committed
  <2> QED BY <2>1, EndKeeps
<1>9. CASE AcceptCommit(s)
  <2>1. q.by \in Users /\ q.link \in Invitations /\ End(s)
    BY <1>2, <1>9 DEF AcceptCommit, At
  <2>2. \/ /\ role' = [role EXCEPT ![q.by] = Helper]
           /\ SetStatus(s, "accepted")
           /\ joiners' = [joiners EXCEPT ![q.link] = joiners[q.link] \cup {q.by}]
        \/ role' = role /\ invitation' = invitation /\ joiners' = joiners
    BY <1>1, <1>9, <2>1 DEF AcceptCommit
  <2>3. /\ role' \in [Users -> Roles] /\ joiners' \in [Invitations -> SUBSET Users]
        /\ invitation' \in [Invitations -> InvitationStatus] /\ Pending' \subseteq Pending
    BY <1>1, <1>3, <2>1, <2>2, LadderIsNat DEF Pending
  <2>4. Committed(s)
    BY <1>1, <1>9, <2>3 DEF AcceptCommit, Committed
  <2> QED BY <2>1, <2>4, EndKeeps
<1> QED BY <1>4, <1>5, <1>6, <1>7, <1>8, <1>9

(* create_invitation, from the lock to the commit.                         *)
LEMMA InviteKeeps ==
  ASSUME IInv, NEW s \in Sessions, InviteLock(s) \/ InviteCount(s) \/ InviteCommit(s)
  PROVE  IInv'
<1>1. CASE InviteLock(s)
  <2>1. /\ sess \in [Sessions -> Session] /\ advisory \in {Nobody, s} /\ advisory' = s
        /\ sess' = [sess EXCEPT ![s] = [sess[s] EXCEPT !.at = "counting"]]
    BY <1>1 DEF InviteLock, Advise, IInv, TypeOK
  <2>2. [sess[s] EXCEPT !.at = "counting"] \in Session
    BY <2>1 DEF Session, Places
  <2>3. TypeOK'
    BY <1>1, <2>1, <2>2 DEF InviteLock, IInv, TypeOK, Unwritten
  <2>4. Argued'
    BY <2>1 DEF IInv, Argued, Session
  <2>5. \A t \in Sessions : t # s => sess'[t] = sess[t] /\ advisory # t
    BY <2>1, IdAssumption
  <2>6. sess'[s].at = "counting"
    BY <2>1 DEF Session
  <2>7. CountersHoldLock'
    BY <2>1, <2>5, <2>6 DEF IInv, CountersHoldLock
  <2>8. Pending' = Pending
    BY <1>1 DEF InviteLock, Unwritten, Pending
  <2>9. CountStands' /\ PendingWithinCap'
    BY <2>5, <2>6, <2>8 DEF IInv, CountStands, PendingWithinCap
  <2> QED BY <2>3, <2>4, <2>7, <2>9 DEF IInv
<1>2. CASE InviteCount(s)
  <2>1. Unwritten /\ UNCHANGED started /\ sess[s].at = "counting"
    BY <1>2 DEF InviteCount, Check, At
  <2>2. CASE Cardinality(Pending) < MAX_PENDING_INVITATIONS
    <3>1. "counted" \in Places \ {"counting"} /\ Go(s, "counted")
      BY <1>2, <2>2 DEF InviteCount, Check, Places
    <3> QED BY <2>1, <2>2, <3>1, GoKeeps
  <2>3. CASE ~(Cardinality(Pending) < MAX_PENDING_INVITATIONS)
    BY <1>2, <2>1, <2>3, ReadKeeps DEF InviteCount, Check
  <2> QED BY <2>2, <2>3
<1>3. CASE InviteCommit(s)
  <2>1. PICK i \in Invitations : invitation' = [invitation EXCEPT ![i] = "pending"]
    BY <1>3 DEF InviteCommit
  <2>2. /\ invitation' \in [Invitations -> InvitationStatus]
        /\ Pending' = Pending \cup {i}
    BY <2>1 DEF IInv, TypeOK, InvitationStatus, Pending
  <2>3. End(s) /\ Committed(s)
    BY <1>3, <2>2 DEF InviteCommit, At, Committed, IInv, TypeOK
  <2> QED BY <2>3, EndKeeps
<1> QED BY <1>1, <1>2, <1>3

LEMMA ExpireKeeps == IInv /\ Expire => IInv'
<1> SUFFICES ASSUME IInv, Expire PROVE IInv'
  OBVIOUS
<1>1. PICK i \in Pending : invitation' = [invitation EXCEPT ![i] = "expired"]
  BY DEF Expire
<1>2. invitation' \in [Invitations -> InvitationStatus] /\ Pending' \subseteq Pending
  BY <1>1 DEF IInv, TypeOK, InvitationStatus, Pending
<1>3. UNCHANGED <<owner, role, advisory, sess, started, joiners>>
  BY DEF Expire
<1>4. Cardinality(Pending') <= Cardinality(Pending)
  BY <1>2, FewerPending
<1>5. TypeOK' /\ Argued' /\ CountersHoldLock'
  BY <1>2, <1>3 DEF IInv, TypeOK, Argued, CountersHoldLock
<1>6. CountStands' /\ PendingWithinCap'
  BY <1>3, <1>4, PendingIsFinite, BoundAssumption DEF IInv, CountStands, PendingWithinCap
<1> QED BY <1>5, <1>6 DEF IInv

LEMMA StepKeeps == IInv /\ [Next]_vars => IInv'
<1> SUFFICES ASSUME IInv, [Next]_vars PROVE IInv'
  OBVIOUS
<1>1. ASSUME NEW s \in Sessions, Step(s) PROVE IInv'
  BY <1>1, ReadsKeep, CommitsKeep, InviteKeeps DEF Step
<1>2. CASE UNCHANGED vars
  BY <1>2 DEF vars, IInv, TypeOK, Argued, CountersHoldLock, CountStands, PendingWithinCap, Pending
<1> QED BY <1>1, <1>2, StartKeeps, ExpireKeeps DEF Next

(* The rows stay well formed, whatever the interleaving.                   *)
THEOREM TypeCorrect == Spec => []TypeOK
<1>1. IInv => TypeOK
  BY DEF IInv
<1> QED BY <1>1, InitKeeps, StepKeeps, PTL DEF Spec

(* However many organisers invite at once, there are never more invitations*)
(* pending than the cap: whoever counts holds the advisory lock, and what  *)
(* was counted stands until the commit.                                    *)
THEOREM PendingWithinCapAlways == Spec => []PendingWithinCap
<1>1. IInv => PendingWithinCap
  BY DEF IInv
<1> QED BY <1>1, InitKeeps, StepKeeps, PTL DEF Spec
=============================================================================
