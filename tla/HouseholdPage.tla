---------------------------- MODULE HouseholdPage ----------------------------
(***************************************************************************)
(* The pages a household is run from: its owner's, its members', the       *)
(* administrator's, and the two that create one.  The form, the choice of  *)
(* an owner, the table of members and the invitations each keep their own  *)
(* copy of what the API said, and a transfer changes what all of them may  *)
(* do.                                                                     *)
(***************************************************************************)
EXTENDS Wire, RoleLadder

CONSTANTS
  Members,     \* the household's members; Me is one of them
  MAX_PENDING, \* pending invitations at most
  Eager,       \* whether the user acts on what a request under way is about to change
  MaxRequests, \* requests outstanding at most
  MaxMoves     \* what users do, all told

MembersAssumption == Members \subseteq Nat /\ 1 \in Members /\ Eager \in BOOLEAN

VARIABLES
  view,    \* the page, with the user's memberships
  wire,    \* its requests
  world,   \* the household, as the API has it
  moves    \* how much was done

vars == <<view, wire, world, moves>>

Me == 1
NoOne == 0
UTC == 1
Rome == 2
Legacy == 3                  \* a zone stored long ago that is none any more
Zones == {UTC, Rome}         \* those the browser lists
Invitations == 1..3

Acts == view.at = "page" /\ moves < MaxMoves /\ moves' = moves + 1 /\ Len(wire) < MaxRequests
Household(v) == CHOOSE h \in v.household : TRUE
Loaded(v) == v.household # {}

(* A user who waits for what is under way to show.                         *)
Patient(kinds) == Eager \/ ~Out(wire, kinds)
Keeping == {"invite", "revoke", "discard"}

Ask(kind, arg) == wire' = Send(wire, kind, [of |-> arg, mount |-> view.mount])

-----------------------------------------------------------------------------
(* Who may do what, on screen                                              *)

canManage(v) == Loaded(v) /\ (v.page = "admin" \/ Household(v).admin = Me)
isOrganiser(v) == v.myRole = Organiser

(* The roles that can be picked for a row.                                 *)
assignableRoles(v, target, role) ==
  IF target = Household(v).admin THEN {}
  ELSE IF canManage(v) THEN HouseholdRole
  ELSE IF isOrganiser(v) /\ role # Organiser THEN HouseholdRole \ {Organiser}
  ELSE {}

Removable(v, target) == canManage(v) /\ target # Household(v).admin

Invites(v) == v.page = "mine" /\ (canManage(v) \/ isOrganiser(v))

(* The parts that are mounted with the household each ask for their own.   *)
Mounted(v, w) ==
  LET parts == <<"roster">> \o (IF canManage(v) THEN <<"candidates">> ELSE <<>>)
                            \o (IF Invites(v) THEN <<"invites">> ELSE <<>>)
  IN w \o [i \in DOMAIN parts |-> Call(parts[i], [of |-> NoOne, mount |-> v.mount])]

ReceiveHousehold(i) ==
  /\ i \in Settled(wire) /\ wire[i].kind = "household"
  /\ LET w == Received(wire, i)
         v == [view EXCEPT !.loading = FALSE, !.household = wire[i].answer]
     IN IF wire[i].is = "ok"
        THEN /\ view' = [v EXCEPT !.zone = Household(v).zone, !.chosen = Household(v).admin]
             /\ wire' = Mounted(v, w)
        ELSE view' = [view EXCEPT !.loading = FALSE, !.error = TRUE] /\ wire' = w
  /\ UNCHANGED <<world, moves>>

-----------------------------------------------------------------------------
(* Name and zone                                                           *)

HasForm == view.page \in {"new", "admin_new"} \/ canManage(view)

(* A new household starts in the browser's zone, if that is a known one.   *)
browserTimezone(detected) == IF detected \in Zones THEN detected ELSE UTC

TimezoneSelect(zone) ==
  /\ Acts /\ HasForm /\ ~view.confirming
  /\ view' = [view EXCEPT !.zone = zone, !.picked = TRUE]
  /\ UNCHANGED <<wire, world>>

timezoneMoved(v) == Loaded(v) /\ v.zone # Household(v).zone

(* Variant: the zone goes along with every save.                           *)
zoneSent_Always(v) == {v.zone}

(* A zone that has not moved is left out.                                  *)
zoneSent(v) == IF Loaded(v) /\ ~timezoneMoved(v) THEN {} ELSE {v.zone}

saveForm(v) ==
  /\ view' = [v EXCEPT !.saving = TRUE, !.confirming = FALSE]
  /\ Ask("save", zoneSent(v))

handleSubmit ==
  /\ Acts /\ HasForm /\ ~view.saving /\ ~view.confirming
  /\ IF timezoneMoved(view)
     THEN view' = [view EXCEPT !.confirming = TRUE] /\ UNCHANGED wire
     ELSE saveForm(view)
  /\ UNCHANGED world

AnswerZone(yes) ==
  /\ Acts /\ view.confirming
  /\ IF yes
     THEN saveForm([view EXCEPT !.confirmed = {view.zone}])
     ELSE view' = [view EXCEPT !.confirming = FALSE] /\ UNCHANGED wire
  /\ UNCHANGED world

(* A household created changes the user's roles: they are asked for before *)
(* the page is left.  The administrator's page does not.                   *)
CreatedBy(page, v, w) ==
  IF page = "new"
  THEN view' = v /\ wire' = Send(w, "refresh", [of |-> "leave", mount |-> v.mount])
  ELSE view' = [v EXCEPT !.at = "list"] /\ wire' = w

ReceiveSave(i) ==
  /\ i \in Settled(wire) /\ wire[i].kind = "save"
  /\ IF wire[i].is = "ok"
     THEN CreatedBy(view.page, view, Received(wire, i))
     ELSE /\ view' = [view EXCEPT !.saving = FALSE, !.refused = wire[i].is,
                                  !.lost = @ \/ wire[i].is = "lost"]
          /\ wire' = Received(wire, i)
  /\ UNCHANGED <<world, moves>>

-----------------------------------------------------------------------------
(* Members                                                                 *)

RosterOf(v) == CHOOSE r \in v.roster : TRUE

ReceiveRoster(i) ==
  /\ i \in Settled(wire) /\ wire[i].kind = "roster"
  /\ view' = IF wire[i].is = "ok" THEN [view EXCEPT !.roster = wire[i].answer]
             ELSE [view EXCEPT !.lost = TRUE]
  /\ wire' = Received(wire, i)
  /\ UNCHANGED <<world, moves>>

(* Picking a role only stages it.                                          *)
roleCell(m, role) ==
  /\ Acts /\ view.roster # {} /\ view.staged = <<>> /\ ~view.confirming
  /\ m \in DOMAIN RosterOf(view) /\ role # RosterOf(view)[m]
  /\ role \in assignableRoles(view, m, RosterOf(view)[m])
  /\ view' = [view EXCEPT !.staged = <<m, role>>]
  /\ UNCHANGED <<wire, world>>

setRole(yes) ==
  /\ Acts /\ view.staged # <<>>
  /\ view' = [view EXCEPT !.staged = <<>>]
  /\ yes => Patient({"transfer"})
  /\ IF yes THEN Ask("role", view.staged) ELSE UNCHANGED wire
  /\ UNCHANGED world

removeMember(m) ==
  /\ Acts /\ view.roster # {} /\ view.staged = <<>> /\ ~view.confirming
  /\ m \in DOMAIN RosterOf(view) /\ Removable(view, m)
  /\ Ask("remove", m)
  /\ UNCHANGED <<view, world>>

(* The table is read again, after a refused change of role too: its answer *)
(* may mean that all of it is out of date.                                 *)
Rereads(r) == r.arg.mount = view.mount /\ (r.is = "ok" \/ r.kind = "role")

Reloaded(r, w) ==
  IF Rereads(r) THEN SendAgain(w, "roster", [of |-> NoOne, mount |-> view.mount]) ELSE w

ReceiveMember(i) ==
  /\ i \in Settled(wire) /\ wire[i].kind \in {"role", "remove"}
  /\ view' = [view EXCEPT !.lost = @ \/ wire[i].is = "lost",
                          !.promoted = IF Rereads(wire[i]) THEN {} ELSE @]
  /\ wire' = Reloaded(wire[i], Received(wire, i))
  /\ UNCHANGED <<world, moves>>

-----------------------------------------------------------------------------
(* The owner                                                               *)

ReceiveCandidates(i) ==
  /\ i \in Settled(wire) /\ wire[i].kind = "candidates"
  /\ view' = [view EXCEPT !.candidates = IF wire[i].is = "ok" THEN Data(wire[i]) ELSE {}]
  /\ wire' = Received(wire, i)
  /\ UNCHANGED <<world, moves>>

HouseholdOwnerSelect(m) ==
  /\ Acts /\ canManage(view) /\ Cardinality(view.candidates) > 1 /\ m \in view.candidates
  /\ view' = [view EXCEPT !.chosen = m]
  /\ UNCHANGED <<wire, world>>

confirmTransfer ==
  /\ Acts /\ canManage(view) /\ Cardinality(view.candidates) > 1
  /\ view.chosen # Household(view).admin
  /\ Patient({"restore", "transfer", "role"} \union Keeping)
  /\ Ask("transfer", view.chosen)
  /\ UNCHANGED <<view, world>>

(* Variant: the roles are asked for and the household is not replaced.     *)
onTransferred_RolesOnly(v, w, household) ==
  /\ view' = v
  /\ wire' = Send(w, "refresh", [of |-> "stay", mount |-> v.mount])

(* The table of members is not read again: the new owner's row keeps the   *)
(* role from before the promotion.                                         *)
(* The page turns into a member's when the user gave the household away:   *)
(* its parts are mounted anew, and what the old ones asked for is ignored. *)
onTransferred(v, w, household) ==
  LET u == [v EXCEPT !.household = {household}, !.promoted = @ \union {household.admin}]
      asked == Send(w, "refresh", [of |-> "stay", mount |-> v.mount])
  IN IF canManage(u)
     THEN view' = u /\ wire' = asked
     ELSE LET n == [u EXCEPT !.mount = @ + 1, !.roster = {}, !.promoted = {}, !.staged = <<>>,
                             !.candidates = {}, !.invitations = <<>>, !.creating = FALSE, !.confirming = FALSE]
          IN /\ view' = n
             /\ wire' = Mounted(n, Ignore(Ignore(Ignore(asked, "roster"), "candidates"), "invites"))

ReceiveTransfer(i) ==
  /\ i \in Settled(wire) /\ wire[i].kind = "transfer"
  /\ IF wire[i].is = "ok"
     THEN onTransferred(view, Received(wire, i), Data(wire[i]))
     ELSE /\ view' = [view EXCEPT !.error = TRUE, !.lost = @ \/ wire[i].is = "lost"]
          /\ wire' = Received(wire, i)
  /\ UNCHANGED <<world, moves>>

(* An administrator brings a deleted household back.                       *)
restore ==
  /\ Acts /\ view.page = "admin" /\ Loaded(view) /\ Household(view).deleted
  /\ Patient({"restore", "transfer"})
  /\ Ask("restore", NoOne)
  /\ UNCHANGED <<view, world>>

ReceiveRestore(i) ==
  /\ i \in Settled(wire) /\ wire[i].kind = "restore"
  /\ view' = IF wire[i].is = "ok" THEN [view EXCEPT !.household = wire[i].answer]
             ELSE [view EXCEPT !.error = TRUE, !.lost = @ \/ wire[i].is = "lost"]
  /\ wire' = Received(wire, i)
  /\ UNCHANGED <<world, moves>>

leave ==
  /\ Acts /\ view.page = "mine" /\ Loaded(view) /\ ~canManage(view)
  /\ Ask("leave", NoOne)
  /\ UNCHANGED <<view, world>>

ReceiveLeave(i) ==
  /\ i \in Settled(wire) /\ wire[i].kind = "leave"
  /\ LET w == Received(wire, i) IN
     IF wire[i].is = "ok"
     THEN view' = view /\ wire' = Send(w, "refresh", [of |-> "leave", mount |-> view.mount])
     ELSE view' = [view EXCEPT !.error = TRUE, !.lost = @ \/ wire[i].is = "lost"] /\ wire' = w
  /\ UNCHANGED <<world, moves>>

(* The roles in the auth context; leaving waits for them.                  *)
ReceiveRefresh(i) ==
  /\ i \in Settled(wire) /\ wire[i].kind = "refresh"
  /\ LET v == IF wire[i].is = "ok" THEN [view EXCEPT !.myRole = Data(wire[i])]
              ELSE [view EXCEPT !.lost = TRUE]
     IN view' = IF wire[i].arg.of = "leave" THEN [v EXCEPT !.at = "list"] ELSE v
  /\ wire' = Received(wire, i)
  /\ UNCHANGED <<world, moves>>

-----------------------------------------------------------------------------
(* Invitations, newest first                                               *)

isLivePending(invitation) == invitation.status = "pending"
livePending(v) == {i \in DOMAIN v.invitations : isLivePending(v.invitations[i])}
atLimit(v) == Cardinality(livePending(v)) >= MAX_PENDING

ReceiveInvitations(i) ==
  /\ i \in Settled(wire) /\ wire[i].kind = "invites"
  /\ view' = IF wire[i].is = "ok" THEN [view EXCEPT !.invitations = Data(wire[i])]
             ELSE [view EXCEPT !.lost = TRUE]
  /\ wire' = Received(wire, i)
  /\ UNCHANGED <<world, moves>>

Managing == Acts /\ Loaded(view) /\ Invites(view) /\ Patient({"invites", "transfer"})

addInvitation ==
  /\ Managing /\ ~view.creating /\ ~atLimit(view)
  /\ view' = [view EXCEPT !.creating = TRUE]
  /\ Ask("invite", NoOne)
  /\ UNCHANGED world

revokeInvitation(id) ==
  /\ Managing /\ \E i \in DOMAIN view.invitations :
                   view.invitations[i] = [id |-> id, status |-> "pending"]
  /\ Ask("revoke", id)
  /\ UNCHANGED <<view, world>>

removeInvitation(id) ==
  /\ Managing /\ \E i \in DOMAIN view.invitations :
                   view.invitations[i].id = id /\ ~isLivePending(view.invitations[i])
  /\ Ask("discard", id)
  /\ UNCHANGED <<view, world>>

Without(list, id) == Sift(list, {i \in DOMAIN list : list[i].id # id})

With(list, updated) ==
  [i \in DOMAIN list |-> IF list[i].id = updated.id THEN updated ELSE list[i]]

(* Variant: a revoked one is taken off the list.                           *)
Changed_Dropped(list, r) ==
  CASE r.kind = "invite" -> <<Data(r)>> \o list
    [] r.kind = "revoke" -> Without(list, Data(r).id)
    [] OTHER -> Without(list, r.arg.of)

(* A new one goes on top, a revoked one keeps its place.                   *)
Changed(list, r) ==
  CASE r.kind = "invite" -> <<Data(r)>> \o list
    [] r.kind = "revoke" -> With(list, Data(r))
    [] OTHER -> Without(list, r.arg.of)

ReceiveInvitation(i) ==
  /\ i \in Settled(wire) /\ wire[i].kind \in Keeping
  /\ LET r == wire[i]
         here == r.arg.mount = view.mount
         v == IF here /\ r.kind = "invite" THEN [view EXCEPT !.creating = FALSE] ELSE view
     IN view' = IF r.is # "ok" THEN [v EXCEPT !.lost = @ \/ r.is = "lost"]
                ELSE IF here THEN [v EXCEPT !.invitations = Changed(v.invitations, r)] ELSE v
  /\ wire' = Received(wire, i)
  /\ UNCHANGED <<world, moves>>

-----------------------------------------------------------------------------
(* The API, for this user on this surface                                  *)

InCharge == view.page = "admin" \/ world.admin = Me
Member(m) == m \in DOMAIN world.roles
Copy == [admin |-> world.admin, zone |-> world.zone, deleted |-> world.deleted]

MayAssign(m, role) ==
  /\ Member(m) /\ m # world.admin
  /\ \/ InCharge
     \/ /\ Member(Me) /\ world.roles[Me] = Organiser
        /\ world.roles[m] # Organiser /\ role # Organiser

MayRemove(m) == InCharge /\ Member(m) /\ m # world.admin
MayInvite == world.admin = Me \/ (Member(Me) /\ world.roles[Me] = Organiser)

Does(i, allowed, w, answer) ==
  IF allowed THEN world' = w /\ wire' = Ok(wire, i, answer)
  ELSE UNCHANGED world /\ wire' = Settle(wire, i, "refused")

ServeChange(i) ==
  /\ i \in Waiting(wire)
  /\ wire[i].kind \in {"role", "remove", "transfer", "restore", "leave", "save"}
  /\ LET r == wire[i]
         of == r.arg.of
     IN CASE r.kind = "role" ->
               Does(i, MayAssign(of[1], of[2]), [world EXCEPT !.roles[of[1]] = of[2]], TRUE)
          [] r.kind = "remove" ->
               Does(i, MayRemove(of),
                    [world EXCEPT !.roles = [m \in DOMAIN @ \ {of} |-> @[m]]], TRUE)
          [] r.kind = "transfer" ->
               Does(i, InCharge /\ Member(of),
                    [world EXCEPT !.admin = of, !.roles[of] = Organiser],
                    [Copy EXCEPT !.admin = of])
          [] r.kind = "restore" ->
               Does(i, TRUE, [world EXCEPT !.deleted = FALSE], [Copy EXCEPT !.deleted = FALSE])
          [] r.kind = "leave" ->
               Does(i, Member(Me) /\ world.admin # Me,
                    [world EXCEPT !.roles = [m \in DOMAIN @ \ {Me} |-> @[m]]], TRUE)
          [] r.kind = "save" ->
               IF of = {Legacy}
               THEN UNCHANGED world /\ wire' = Settle(wire, i, "invalid")
               ELSE Does(i, InCharge \/ ~Loaded(view),
                         IF of = {} THEN world ELSE [world EXCEPT !.zone = CHOOSE z \in of : TRUE], TRUE)
  /\ UNCHANGED <<view, moves>>

Pending == {i \in DOMAIN world.invitations : isLivePending(world.invitations[i])}

ServeInvitation(i) ==
  /\ i \in Waiting(wire) /\ wire[i].kind \in Keeping
  /\ LET r == wire[i]
         list == world.invitations
         here == {x \in DOMAIN list : list[x].id = r.arg.of}
         live == {x \in here : isLivePending(list[x])}
         new == [id |-> world.made + 1, status |-> "pending"]
         revoked == [id |-> r.arg.of, status |-> "revoked"]
     IN CASE r.kind = "invite" ->
               Does(i, MayInvite /\ Cardinality(Pending) < MAX_PENDING,
                    [world EXCEPT !.made = @ + 1, !.invitations = <<new>> \o @], new)
          [] r.kind = "revoke" ->
               Does(i, MayInvite /\ live # {}, [world EXCEPT !.invitations = With(@, revoked)], revoked)
          [] r.kind = "discard" ->
               Does(i, MayInvite /\ here # live,
                    [world EXCEPT !.invitations = Without(@, r.arg.of)], TRUE)
  /\ UNCHANGED <<view, moves>>

ServeRead(i) ==
  /\ i \in Waiting(wire)
  /\ \/ wire[i].kind = "household" /\ wire' = Ok(wire, i, Copy)
     \/ wire[i].kind = "roster" /\ wire' = Ok(wire, i, world.roles)
     \/ wire[i].kind = "candidates" /\ wire' = Ok(wire, i, DOMAIN world.roles)
     \/ wire[i].kind = "invites" /\ wire' = Ok(wire, i, world.invitations)
     \/ /\ wire[i].kind = "refresh"
        /\ wire' = Ok(wire, i, IF Member(Me) THEN world.roles[Me] ELSE NotMember)
  /\ UNCHANGED <<view, world, moves>>

Lose(i) ==
  /\ i \in DOMAIN wire
  /\ wire[i].is = "sent"
  /\ wire' = Settle(wire, i, "lost")
  /\ UNCHANGED <<view, world, moves>>

(* Somebody follows a link.                                                *)
OtherAccepts ==
  /\ Acts /\ Pending # {}
  /\ \E i \in Pending :
       world' = [world EXCEPT !.invitations[i].status = "accepted", !.elsewhere = TRUE]
  /\ UNCHANGED <<view, wire>>

Open(page, role, admin, zone, deleted) ==
  /\ world = [admin |-> admin, zone |-> zone, deleted |-> deleted,
              roles |-> [m \in Members |-> IF m = Me THEN role
                                           ELSE IF m = admin THEN Organiser ELSE Helper],
              invitations |-> <<[id |-> 1, status |-> "pending"]>>, made |-> 1, elsewhere |-> FALSE]
  /\ view = [page |-> page, at |-> "page", mount |-> 1, loading |-> page \in {"mine", "admin"},
             error |-> FALSE, lost |-> FALSE, refused |-> "none", household |-> {}, myRole |-> role,
             zone |-> browserTimezone(zone), picked |-> FALSE, saving |-> FALSE,
             confirming |-> FALSE, confirmed |-> {}, roster |-> {}, promoted |-> {}, staged |-> <<>>,
             candidates |-> {}, chosen |-> NoOne, invitations |-> <<>>, creating |-> FALSE]
  /\ wire = IF page \in {"mine", "admin"}
            THEN <<Call("household", [of |-> NoOne, mount |-> 1])>> ELSE <<>>
  /\ moves = 0

Init ==
  \/ \E role \in {Helper, Organiser} : Open("mine", role, 2, Rome, FALSE)
  \/ \E zone \in {Rome, Legacy}, page \in {"mine", "new", "admin_new"} :
       Open(page, Organiser, Me, zone, FALSE)
  \/ \E deleted \in BOOLEAN : Open("admin", Helper, 2, Rome, deleted)

Next ==
  \/ \E i \in DOMAIN wire :
       \/ ServeChange(i) \/ ServeInvitation(i) \/ ServeRead(i) \/ Lose(i)
       \/ /\ view.at = "page"
          /\ \/ ReceiveHousehold(i) \/ ReceiveSave(i) \/ ReceiveRoster(i) \/ ReceiveMember(i)
             \/ ReceiveCandidates(i) \/ ReceiveTransfer(i) \/ ReceiveRestore(i) \/ ReceiveLeave(i)
             \/ ReceiveRefresh(i) \/ ReceiveInvitations(i) \/ ReceiveInvitation(i)
  \/ \E zone \in Zones : TimezoneSelect(zone)
  \/ \E yes \in BOOLEAN : AnswerZone(yes) \/ setRole(yes)
  \/ \E m \in Members :
       \/ removeMember(m) \/ HouseholdOwnerSelect(m)
       \/ \E role \in HouseholdRole : roleCell(m, role)
  \/ \E id \in Invitations : revokeInvitation(id) \/ removeInvitation(id)
  \/ handleSubmit \/ confirmTransfer \/ restore \/ leave \/ addInvitation \/ OtherAccepts

Spec == Init /\ [][Next]_vars

-----------------------------------------------------------------------------
(* Properties                                                              *)

AtRest == view.at = "page" /\ wire = <<>> /\ ~view.lost /\ Loaded(view)

(* Once everything was answered, whatever was changed, refused, removed or *)
(* given away meanwhile, no control is shown that the API would refuse     *)
(* (permissions.ts:96-97): the rows are those there are, with the roles    *)
(* they have but for whom a transfer has promoted since they were read, and*)
(* each role and each removal offered is one the server allows this user.  *)
OfferedIsAllowed ==
  AtRest =>
    /\ DOMAIN RosterOf(view) = DOMAIN world.roles
    /\ \A m \in DOMAIN world.roles \ view.promoted : RosterOf(view)[m] = world.roles[m]
    /\ \A m \in DOMAIN world.roles :
         /\ \A role \in assignableRoles(view, m, RosterOf(view)[m]) : MayAssign(m, role)
         /\ Removable(view, m) => MayRemove(m)
    /\ Invites(view) => MayInvite

(* The list of invitations is kept by hand, one answer at a time: at rest  *)
(* it is the API's, in its order, so "Add member" stops where the API does *)
(* (HouseholdInvitations.tsx:24, 34-38).                                   *)
InvitationsAreCurrent ==
  AtRest /\ Invites(view) /\ ~world.elsewhere =>
    /\ view.invitations = world.invitations
    /\ atLimit(view) <=> Cardinality(Pending) >= MAX_PENDING

(* A zone is sent only if the user moved it and said yes to re-dating the  *)
(* household's chores, and a rename is not turned down for a zone that     *)
(* nobody touched (HouseholdForm.tsx:63-65, HouseholdEdit.tsx:62-68).      *)
ZoneMovesWhenConfirmed ==
  /\ \A i \in DOMAIN wire :
       wire[i].kind = "save" /\ Loaded(view) => wire[i].arg.of \subseteq view.confirmed
  /\ view.refused = "invalid" => view.picked
=============================================================================
