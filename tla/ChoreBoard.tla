----------------------------- MODULE ChoreBoard -----------------------------
(***************************************************************************)
(* The two pages chores are done from: Home, with what is due, and         *)
(* Unscheduled.  Doing or skipping a chore asks up to two questions, sends *)
(* one request, locks the row meanwhile and then reads the list again; the *)
(* filters read it too, and whichever read was started last is shown.      *)
(***************************************************************************)
EXTENDS Wire

CONSTANTS
  Chores,      \* the chores there are
  Late,        \* those overdue to begin with
  Mine,        \* those assigned to the user
  Theirs,      \* those assigned to others only; the rest are unassigned
  None,        \* no chore
  MaxRequests, \* requests outstanding at most
  MaxMoves     \* what users do, all told

ChoresAssumption == Late \subseteq Chores /\ Mine \subseteq Chores /\ Theirs \subseteq Chores \ Mine

VARIABLES
  view,    \* the page
  wire,    \* its requests
  world,   \* the occurrence each chore is at
  moves    \* how much was done

vars == <<view, wire, world, moves>>

Pages == {"home", "unscheduled"}
Closed == [kind |-> "none", chore |-> None, backdate |-> FALSE]

-----------------------------------------------------------------------------
(* The list                                                                *)

Occurrence(c) == world[c]
Overdue(c, occurrence) == c \in Late /\ occurrence = 0

(* The user's chores and the shared ones, or everybody's.                  *)
Listed(query) == IF query = "mine" THEN Chores \ Theirs ELSE Chores

HomeData(query) == [c \in Listed(query) |-> Occurrence(c)]

-----------------------------------------------------------------------------
(* Reading it                                                              *)

Query(v) == v.filter

(* The effect: a change of filters starts another read and no longer       *)
(* listens to the one before.                                              *)
Load(v, w) ==
  /\ view' = [v EXCEPT !.req = v.req + 1]
  /\ wire' = SendAgain(w, "load", [req |-> v.req + 1, query |-> Query(v), chore |-> None])

(* After a closing: with the filters as they are now.                      *)
Refetch(v, w, c) ==
  /\ view' = [v EXCEPT !.req = v.req + 1]
  /\ wire' = Send(w, "refetch", [req |-> v.req + 1, query |-> Query(v), chore |-> c])

(* Variant: whichever answer comes last is shown.                          *)
setData_LastToCome(v, r) == [v EXCEPT !.data = {[list |-> Data(r), req |-> r.arg.req]}]

(* Only the read that was started last is shown.                           *)
setData(v, r) ==
  IF r.arg.req = v.req THEN [v EXCEPT !.data = {[list |-> Data(r), req |-> r.arg.req]}] ELSE v

ReceiveLoad(i) ==
  /\ i \in Settled(wire) /\ wire[i].kind = "load"
  /\ LET v == [view EXCEPT !.loading = FALSE] IN
     view' = IF wire[i].is = "ok" THEN setData(v, wire[i]) ELSE [v EXCEPT !.error = TRUE]
  /\ wire' = Received(wire, i)
  /\ UNCHANGED <<world, moves>>

-----------------------------------------------------------------------------
(* Closing a chore                                                         *)

(* Variant: one lock for the page, not one for each row.                   *)
startExiting_One(v, c) == [v EXCEPT !.exiting = {c}]

startExiting(v, c) == [v EXCEPT !.exiting = @ \cup {c}]

stopExiting(v, c) == [v EXCEPT !.exiting = @ \ {c}]

closeChore(v, c, request) ==
  IF c \in v.exiting
  THEN view' = v /\ UNCHANGED wire
  ELSE /\ view' = startExiting([v EXCEPT !.error = FALSE], c)
       /\ wire' = Send(wire, "close", request)

completeChore(v, c, credit, backdate) ==
  closeChore(v, c, [chore |-> c, as |-> "done", credit |-> credit, backdate |-> backdate])

skipChore(v, c) ==
  closeChore(v, c, [chore |-> c, as |-> "skipped", credit |-> "me", backdate |-> FALSE])

(* Unscheduled says nothing of when, and cannot skip.                      *)
completeUnscheduled(v, c, credit) ==
  closeChore(v, c, [chore |-> c, as |-> "done", credit |-> credit, backdate |-> FALSE])

requestCredit(v, c, backdate) ==
  IF c \notin Theirs
  THEN completeChore(v, c, "me", backdate)
  ELSE /\ view' = [v EXCEPT !.dialog = [kind |-> "credit", chore |-> c, backdate |-> backdate]]
       /\ UNCHANGED wire

requestUnscheduled(v, c) ==
  IF c \notin Theirs
  THEN completeUnscheduled(v, c, "me")
  ELSE /\ view' = [v EXCEPT !.dialog = [kind |-> "credit", chore |-> c, backdate |-> FALSE]]
       /\ UNCHANGED wire

requestComplete(v, c, occurrence) ==
  IF Overdue(c, occurrence)
  THEN /\ view' = [v EXCEPT !.dialog = [kind |-> "backdate", chore |-> c, backdate |-> FALSE]]
       /\ UNCHANGED wire
  ELSE requestCredit(v, c, FALSE)

(* What the row shown offers: its buttons wait for its closing.            *)
Offered(v) ==
  IF v.dialog.kind # "none" \/ v.data = {} THEN {}
  ELSE (DOMAIN (CHOOSE d \in v.data : TRUE).list) \ v.exiting

OnScreen(v, c) == (CHOOSE d \in v.data : TRUE).list[c]

Acts == moves < MaxMoves /\ moves' = moves + 1 /\ Len(wire) < MaxRequests

Done(c) ==
  /\ Acts /\ c \in Offered(view)
  /\ LET v == [view EXCEPT !.said[c] = "nothing"] IN
     IF view.page = "home"
     THEN requestComplete(v, c, OnScreen(view, c))
     ELSE requestUnscheduled(v, c)
  /\ UNCHANGED world

(* "Just now" or "on the day it was due".                                  *)
AnswerWhen(backdate) ==
  /\ Acts /\ view.dialog.kind = "backdate"
  /\ LET c == view.dialog.chore
     IN requestCredit([view EXCEPT !.dialog = Closed,
                                   !.said[c] = IF backdate THEN "due" ELSE "now"], c, backdate)
  /\ UNCHANGED world

(* Variant: the answer about when is not carried to the second question.   *)
creditAndComplete_Forgets(v, credit) ==
  completeChore([v EXCEPT !.dialog = Closed], v.dialog.chore, credit, FALSE)

creditAndComplete(v, credit) ==
  completeChore([v EXCEPT !.dialog = Closed], v.dialog.chore, credit, v.dialog.backdate)

AnswerWho(credit) ==
  /\ Acts /\ view.dialog.kind = "credit"
  /\ creditAndComplete(view, credit)
  /\ UNCHANGED world

AskSkip(c) ==
  /\ Acts /\ view.page = "home" /\ c \in Offered(view)
  /\ view' = [view EXCEPT !.dialog = [kind |-> "skip", chore |-> c, backdate |-> FALSE],
                          !.said[c] = "nothing"]
  /\ UNCHANGED <<wire, world>>

confirmSkip ==
  /\ Acts /\ view.dialog.kind = "skip"
  /\ skipChore([view EXCEPT !.dialog = Closed], view.dialog.chore)
  /\ UNCHANGED world

Cancel ==
  /\ Acts /\ view.dialog.kind # "none"
  /\ view' = [view EXCEPT !.dialog = Closed, !.text = None]
  /\ wire' = Ignore(wire, "text")
  /\ UNCHANGED world

(* The request was served: the list is read again, and the row stays locked*)
(* until that is over, one way or the other.                               *)
ReceiveClose(i) ==
  /\ i \in Settled(wire) /\ wire[i].kind = "close"
  /\ LET c == wire[i].arg.chore
         w == Received(wire, i)
     IN IF wire[i].is = "ok"
        THEN Refetch([view EXCEPT !.told[c] = Data(wire[i])], w, c)
        ELSE /\ view' = stopExiting([view EXCEPT !.error = TRUE], c)
             /\ wire' = w
  /\ UNCHANGED <<world, moves>>

ReceiveRefetch(i) ==
  /\ i \in Settled(wire) /\ wire[i].kind = "refetch"
  /\ LET v == stopExiting(view, wire[i].arg.chore) IN
     view' = IF wire[i].is = "ok" THEN setData(v, wire[i]) ELSE [v EXCEPT !.error = TRUE]
  /\ wire' = Received(wire, i)
  /\ UNCHANGED <<world, moves>>

-----------------------------------------------------------------------------
(* Filters and instructions                                                *)

(* The filter bar is there once its options are.                           *)
ReceiveOptions(i) ==
  /\ i \in Settled(wire) /\ wire[i].kind = "options"
  /\ view' = [view EXCEPT !.filters = wire[i].is = "ok"]
  /\ wire' = Received(wire, i)
  /\ UNCHANGED <<world, moves>>

ChooseFilter(query) ==
  /\ Acts /\ view.filters /\ view.dialog.kind = "none" /\ query # view.filter
  /\ Load([view EXCEPT !.filter = query], wire)
  /\ UNCHANGED world

(* The instructions are read when they are opened, by a body of their own. *)
ShowDescription(c) ==
  /\ Acts /\ c \in Offered(view)
  /\ view' = [view EXCEPT !.dialog = [kind |-> "text", chore |-> c, backdate |-> FALSE]]
  /\ wire' = Send(wire, "text", c)
  /\ UNCHANGED world

DescriptionBody(i) ==
  /\ i \in Settled(wire) /\ wire[i].kind = "text"
  /\ view' = [view EXCEPT !.text = IF wire[i].is = "ok" THEN wire[i].arg ELSE None]
  /\ wire' = Received(wire, i)
  /\ UNCHANGED <<world, moves>>

-----------------------------------------------------------------------------
(* The server and the other members                                        *)

ServeList(i) ==
  /\ i \in Waiting(wire) /\ wire[i].kind \in {"load", "refetch"}
  /\ wire' = Ok(wire, i, HomeData(wire[i].arg.query))
  /\ UNCHANGED <<view, world, moves>>

(* Closing a chore closes the occurrence that is open now; the answer is   *)
(* the one that is open next.                                              *)
ServeClose(i) ==
  /\ i \in Waiting(wire) /\ wire[i].kind = "close"
  /\ LET c == wire[i].arg.chore IN
     /\ world' = [world EXCEPT ![c] = @ + 1]
     /\ wire' = Ok(wire, i, world[c] + 1)
  /\ UNCHANGED <<view, moves>>

ServeRead(i) ==
  /\ i \in Waiting(wire) /\ wire[i].kind \in {"options", "text"}
  /\ wire' = Ok(wire, i, TRUE)
  /\ UNCHANGED <<view, world, moves>>

Lose(i) ==
  /\ i \in DOMAIN wire
  /\ wire[i].is = "sent" \/ (wire[i].is = "ok" /\ wire[i].kind = "close")
  /\ wire' = Settle(wire, i, "lost")
  /\ UNCHANGED <<view, world, moves>>

OtherCloses(c) ==
  /\ Acts
  /\ world' = [world EXCEPT ![c] = @ + 1]
  /\ UNCHANGED <<view, wire>>

Init ==
  \E page \in Pages :
    /\ view = [page |-> page, data |-> {}, loading |-> TRUE, error |-> FALSE, exiting |-> {},
               dialog |-> Closed, filter |-> "mine", filters |-> FALSE, req |-> 1,
               text |-> None, said |-> [c \in Chores |-> "nothing"], told |-> [c \in Chores |-> 0]]
    /\ wire = <<Call("options", None), Call("load", [req |-> 1, query |-> "mine", chore |-> None])>>
    /\ world = [c \in Chores |-> 0]
    /\ moves = 0

Next ==
  \/ \E i \in DOMAIN wire :
       \/ ServeList(i) \/ ServeClose(i) \/ ServeRead(i) \/ Lose(i)
       \/ ReceiveLoad(i) \/ ReceiveClose(i) \/ ReceiveRefetch(i) \/ ReceiveOptions(i)
       \/ DescriptionBody(i)
  \/ \E c \in Chores : Done(c) \/ AskSkip(c) \/ ShowDescription(c) \/ OtherCloses(c)
  \/ \E backdate \in BOOLEAN : AnswerWhen(backdate)
  \/ \E credit \in {"me", "assignee"} : AnswerWho(credit)
  \/ confirmSkip \/ Cancel
  \/ \E query \in {"mine", "all"} : ChooseFilter(query)

Spec == Init /\ [][Next]_vars

-----------------------------------------------------------------------------
(* Properties                                                              *)

(* A chore has one closing on its way at most, and its row is locked for as*)
(* long as that or the read after it is (ChoreRow.tsx:16-17).              *)
OneClosingPerChore ==
  \A i, j \in DOMAIN wire :
    wire[i].kind \in {"close", "refetch"} =>
      /\ wire[i].arg.chore \in view.exiting
      /\ wire[j].kind \in {"close", "refetch"} /\ wire[j].arg.chore = wire[i].arg.chore => i = j

(* When nothing is on its way and no error is shown, the list is the answer*)
(* for the filters on screen and no older than the last closing this page  *)
(* was told of, however the reads overlapped (Home.tsx:76-78, 91-94).      *)
ListIsCurrent ==
  view.data # {} /\ ~view.error /\ ~Out(wire, {"load", "refetch", "close"}) =>
    LET list == (CHOOSE d \in view.data : TRUE).list IN
    /\ DOMAIN list = Listed(view.filter)
    /\ \A c \in DOMAIN list : list[c] >= view.told[c]

(* A completion carries the answer given for that chore: recorded on its   *)
(* due day exactly if the user said so, whoever is credited, and only where*)
(* it was overdue on the screen (Home.tsx:57-59, 196-199).                 *)
AnswersReachTheServer ==
  \A i \in DOMAIN wire :
    wire[i].kind = "close" /\ wire[i].arg.as = "done" =>
      (wire[i].arg.backdate <=> view.said[wire[i].arg.chore] = "due")

(* A row that can be pressed shows an occurrence this page has not closed  *)
(* (Home.tsx:31-32: the row is removed once its animation finishes).       *)
RowsOfferedAreOpen ==
  ~view.error => \A c \in Offered(view) : OnScreen(view, c) >= view.told[c]
=============================================================================
