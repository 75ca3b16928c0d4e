------------------------------- MODULE Pages --------------------------------
(***************************************************************************)
(* The pages of the app, one at a time: the router mounts one page, and    *)
(* its state and what it still waits for go with it.  (What outlives a     *)
(* page is Session's: the user, the memberships, the tables' settings.)    *)
(***************************************************************************)
EXTENDS Naturals, Sequences

CONSTANTS
  Kinds, Rows, HouseholdOf, OwnRows,       \* a table
  Chores, Late, Mine, Theirs, None,        \* a board
  People, Nobody, MembersOf,               \* the form of a chore
  Values, OwnValue, TheirValue, Overtakes, \* the profile
  Hurried,                                 \* its security
  Members, MAX_PENDING, Eager,             \* a household
  Dwellings, Visible, Someone,             \* the figures
  Builds, Straggling,                      \* the service worker
  MaxRequests, MaxMoves                    \* for each page: requests out, and moves, at most

VARIABLES page, view, wire, world, moves

vars == <<page, view, wire, world, moves>>

Table == INSTANCE ServerTable
         WITH Own <- OwnRows,
              MaxRequests <- MaxRequests["table"], MaxMoves <- MaxMoves["table"]
Board == INSTANCE ChoreBoard
         WITH MaxRequests <- MaxRequests["board"], MaxMoves <- MaxMoves["board"]
Form == INSTANCE ChoreForm
        WITH MaxRequests <- MaxRequests["form"], MaxMoves <- MaxMoves["form"]
Profile == INSTANCE Profile
           WITH Own <- OwnValue, Theirs <- TheirValue,
                MaxRequests <- MaxRequests["profile"], MaxMoves <- MaxMoves["profile"]
Security == INSTANCE SecuritySettings
            WITH MaxRequests <- MaxRequests["security"], MaxMoves <- MaxMoves["security"]
Household == INSTANCE HouseholdPage
             WITH MaxRequests <- MaxRequests["household"], MaxMoves <- MaxMoves["household"]
Figures == INSTANCE Statistics
           WITH Households <- Dwellings,
                MaxRequests <- MaxRequests["figures"], MaxMoves <- MaxMoves["figures"]
Worker == INSTANCE ServiceWorker
          WITH MaxRequests <- MaxRequests["worker"], MaxMoves <- MaxMoves["worker"]

ASSUME PagesAssumption ==
  /\ Table!RowsAssumption /\ Board!ChoresAssumption /\ Form!MembersAssumption
  /\ Profile!ValuesAssumption /\ Security!HurriedAssumption /\ Household!MembersAssumption
  /\ Figures!VisibleAssumption /\ Worker!BuildsAssumption

Init ==
  \/ page = "table" /\ Table!Init
  \/ page = "board" /\ Board!Init
  \/ page = "form" /\ Form!Init
  \/ page = "profile" /\ Profile!Init
  \/ page = "security" /\ Security!Init
  \/ page = "household" /\ Household!Init
  \/ page = "figures" /\ Figures!Init
  \/ page = "worker" /\ Worker!Init

Next ==
  \/ page = "table" /\ Table!Next /\ UNCHANGED page
  \/ page = "board" /\ Board!Next /\ UNCHANGED page
  \/ page = "form" /\ Form!Next /\ UNCHANGED page
  \/ page = "profile" /\ Profile!Next /\ UNCHANGED page
  \/ page = "security" /\ Security!Next /\ UNCHANGED page
  \/ page = "household" /\ Household!Next /\ UNCHANGED page
  \/ page = "figures" /\ Figures!Next /\ UNCHANGED page
  \/ page = "worker" /\ Worker!Next /\ UNCHANGED page

Spec == Init /\ [][Next]_vars

-----------------------------------------------------------------------------
(* Properties                                                              *)

(* A table that says it is loading waits for a request; once it has settled*)
(* its rows answer the query above it, without those it said were removed, *)
(* and the figures of the statistics answer theirs, however requests over- *)
(* lapped (useServerTable.ts:330-373, 430-434; Statistics.tsx:217-239).    *)
TablesSettle ==
  /\ page = "table" => /\ Table!SpinnerHasRequest
                       /\ Table!RowsAnswerTheQuery
                       /\ Table!RemovedIsGone
  /\ page = "figures" => Figures!FiguresAnswerTheFilters

(* No table is wedged by what it keeps: settings the API turned down are   *)
(* remembered nowhere (useServerTable.ts:341-357), and no list is narrowed *)
(* by a household or a person that cannot be picked any more               *)
(* (Chores.tsx:101-126, History.tsx:96-123, Logs.tsx:59-101).              *)
NoTableIsWedged == page = "table" => Table!RejectedIsForgotten /\ Table!DeadFilterIsDropped

(* A chore has one closing on its way at most, and its row is locked for as*)
(* long (Home.tsx:122-140).                                                *)
OneClosingPerChore == page = "board" => Board!OneClosingPerChore

(* The board at rest is the answer for its filters, and no older than the  *)
(* last closing it was told of (Home.tsx:89-98, 152-154).                  *)
ListIsCurrent == page = "board" => Board!ListIsCurrent

(* A completion carries the answers given for that chore through both      *)
(* dialogs (Home.tsx:196-227).                                             *)
AnswersReachTheServer == page = "board" => Board!AnswersReachTheServer

(* What a chore form would send agrees with the form on screen, whatever   *)
(* was set and hidden again (ChoreForm.tsx:161-236).                       *)
HiddenDetailIsNotSent == page = "form" => Form!HiddenDetailIsNotSent

(* An edit that touches neither the pool nor the picker sends the assignee *)
(* the form was opened with (ChoreEdit.tsx:100-109).                       *)
UnrelatedEditKeepsAssignee == page = "form" => Form!UnrelatedEditKeepsAssignee

(* The pickers of a new chore are those of the household chosen last, and  *)
(* a clone loses what the note says it does (ChoreCreate.tsx:72-96, 158).  *)
PickersFollowTheHousehold == page = "form" => Form!PickersFollowTheHousehold

(* The appearance on screen is the one stored, and an administrator keeps  *)
(* theirs in another account (Profile.tsx:125-146, AuthProvider.tsx:37-45).*)
AppearanceIsTheUsers == page = "profile" => Profile!AppearanceIsTheUsers

(* Codes on screen are the batch that works, a factor that is on has a key *)
(* the user was shown, and "copied" is true (TwoFactorSettings.tsx:82-164).*)
SecondFactorIsInHand == page = "security" => Security!SecondFactorIsInHand

(* The panel shows the access token there is, and reveals only the live    *)
(* one (ApiTokenSettings.tsx:91-143).                                      *)
TokenPanelIsCurrent == page = "security" => Security!TokenPanelIsCurrent

(* No control of a household page is one the API would refuse this user    *)
(* (permissions.ts:96-118, HouseholdEdit.tsx:93-131).                      *)
OfferedIsAllowed == page = "household" => Household!OfferedIsAllowed

(* The list of invitations, kept by hand, is the API's                     *)
(* (HouseholdInvitations.tsx:45-114).                                      *)
InvitationsAreCurrent == page = "household" => Household!InvitationsAreCurrent

(* A timezone is sent only if it was moved and the re-dating confirmed     *)
(* (HouseholdForm.tsx:63-85, HouseholdEdit.tsx:59-71).                     *)
ZoneMovesWhenConfirmed == page = "household" => Household!ZoneMovesWhenConfirmed

(* Without a network an installed app opens, on a page of its own          *)
(* (sw.js:24-36, 52-99).                                                   *)
OfflineShowsTheApp == page = "worker" => Worker!OfflineShowsTheApp
=============================================================================
