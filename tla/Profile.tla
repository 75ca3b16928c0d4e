------------------------------ MODULE Profile -------------------------------
(***************************************************************************)
(* The profile page: sections that each save on their own, the appearance  *)
(* and the language before the server agreed, and after each of which the  *)
(* page asks who the user is again.  That answer moves the appearance too. *)
(***************************************************************************)
EXTENDS Wire

CONSTANTS
  Values,      \* what a setting can be set to
  Own,         \* what the user chose before
  Theirs,      \* what the account impersonated has
  Overtakes,   \* whether an answer about the user may arrive before an earlier one
  MaxRequests, \* requests outstanding at most
  MaxMoves     \* what the user does, all told

ValuesAssumption == {Own, Theirs} \subseteq Values /\ Overtakes \in BOOLEAN

VARIABLES
  view,    \* the page, with what the auth and theme contexts hold
  wire,    \* its requests
  world,   \* the profile, as the API has it
  moves    \* how much was done

vars == <<view, wire, world, moves>>

Sections == {"appearance", "language", "name", "photo", "password"}
Optimistic == {"appearance", "language"}
NoPhoto == 0

Acts == moves < MaxMoves /\ moves' = moves + 1 /\ UNCHANGED world
Free(section) == Acts /\ section \notin view.saving /\ Len(wire) < MaxRequests

-----------------------------------------------------------------------------
(* Saving                                                                  *)

(* A section is busy until the user was asked for again.                   *)
Busy(v, section) ==
  [v EXCEPT !.saving = @ \cup {section}, !.errors = @ \ {section}, !.saved = @ \cup {section}]

Save(v, section, next, prev) ==
  /\ view' = Busy(v, section)
  /\ wire' = Send(wire, "save", [section |-> section, next |-> next, prev |-> prev])

(* Theme and accent go together and are on screen at once.                 *)
saveAppearance(next) ==
  /\ Free("appearance")
  /\ Save([view EXCEPT !.shown["appearance"] = next], "appearance", next, view.shown["appearance"])

saveLanguage(next) ==
  /\ Free("language")
  /\ Save([view EXCEPT !.shown["language"] = next], "language", next, view.shown["language"])

TypeName(name) ==
  /\ Acts /\ name # view.name
  /\ view' = [view EXCEPT !.name = name]
  /\ UNCHANGED wire

onNameSubmit == Free("name") /\ Save(view, "name", view.name, view.name)

(* A file too large is turned down before it is sent.                      *)
onPickAvatar(photo, tooLarge) ==
  /\ Free("photo")
  /\ IF tooLarge
     THEN view' = [view EXCEPT !.errors = @ \cup {"photo"}] /\ UNCHANGED wire
     ELSE Save(view, "photo", photo, NoPhoto)

onRemoveAvatar ==
  /\ Free("photo") /\ view.user["photo"] # NoPhoto
  /\ Save(view, "photo", NoPhoto, NoPhoto)

TypePasswords(typed) ==
  /\ Acts /\ typed # view.passwords
  /\ view' = [view EXCEPT !.passwords = typed]
  /\ UNCHANGED wire

onPasswordSubmit ==
  /\ Free("password") /\ view.passwords # "empty"
  /\ IF view.passwords \in {"mismatched", "short"}
     THEN view' = [view EXCEPT !.errors = @ \cup {"password"}] /\ UNCHANGED wire
     ELSE Save(view, "password", view.passwords, view.passwords)

(* Variant: a setting that was refused stays on screen.                    *)
RolledBack_Kept(v, section, prev) == v

(* What was put on screen before the server agreed is taken back.          *)
RolledBack(v, section, prev) ==
  IF section \in Optimistic THEN [v EXCEPT !.shown[section] = prev] ELSE v

ReceiveSave(i) ==
  /\ i \in Settled(wire) /\ wire[i].kind = "save"
  /\ LET section == wire[i].arg.section
         w == Received(wire, i)
     IN IF wire[i].is = "ok"
        THEN /\ view' = IF section = "password" THEN [view EXCEPT !.passwords = "empty"] ELSE view
             /\ wire' = Send(w, "refresh", section)
        ELSE /\ view' = RolledBack([view EXCEPT !.saving = @ \ {section},
                                                !.errors = @ \cup {section},
                                                !.missed = @ \/ wire[i].is = "lost"],
                                   section, wire[i].arg.prev)
             /\ wire' = w
  /\ UNCHANGED <<world, moves>>

-----------------------------------------------------------------------------
(* Who the user is                                                         *)

(* The saved appearance is adopted, unless it is another account's.        *)
syncAppearance(v, me) ==
  IF v.impersonating THEN v ELSE [v EXCEPT !.shown = [s \in Optimistic |-> me[s]]]

(* The auth context's refresh: a failure changes nothing.                  *)
ReceiveRefresh(i) ==
  /\ i \in Settled(wire) /\ wire[i].kind = "refresh"
  /\ Overtakes \/ \A j \in 1..(i - 1) : wire[j].kind # "refresh"
  /\ LET v == [view EXCEPT !.saving = @ \ {wire[i].arg}] IN
     view' = IF wire[i].is = "ok"
             THEN syncAppearance([v EXCEPT !.user = Data(wire[i])], Data(wire[i]))
             ELSE [v EXCEPT !.missed = TRUE]
  /\ wire' = Received(wire, i)
  /\ UNCHANGED <<world, moves>>

-----------------------------------------------------------------------------
(* The server                                                              *)

ServeSave(i) ==
  /\ i \in Waiting(wire) /\ wire[i].kind = "save"
  /\ \/ /\ world' = [world EXCEPT ![wire[i].arg.section] = wire[i].arg.next]
        /\ wire' = Ok(wire, i, TRUE)
     \/ UNCHANGED world /\ wire' = Settle(wire, i, "refused")
  /\ UNCHANGED <<view, moves>>

ServeMe(i) ==
  /\ i \in Waiting(wire) /\ wire[i].kind = "refresh"
  /\ wire' = Ok(wire, i, world)
  /\ UNCHANGED <<view, world, moves>>

Lose(i) ==
  /\ i \in DOMAIN wire
  /\ wire[i].is = "sent" \/ (wire[i].is = "ok" /\ wire[i].kind = "save")
  /\ wire' = Settle(wire, i, "lost")
  /\ UNCHANGED <<view, world, moves>>

Init ==
  \E impersonating \in BOOLEAN :
    /\ world = [s \in Sections |-> CASE s = "photo" -> NoPhoto
                                     [] s = "password" -> "good"
                                     [] OTHER -> IF impersonating THEN Theirs ELSE Own]
    /\ view = [impersonating |-> impersonating, user |-> world,
               shown |-> [s \in Optimistic |-> Own], name |-> world["name"],
               passwords |-> "empty", saving |-> {}, errors |-> {}, saved |-> {}, missed |-> FALSE]
    /\ wire = <<>>
    /\ moves = 0

Next ==
  \/ \E i \in DOMAIN wire :
       ServeSave(i) \/ ServeMe(i) \/ Lose(i) \/ ReceiveSave(i) \/ ReceiveRefresh(i)
  \/ \E x \in Values :
       \/ saveAppearance(x) \/ saveLanguage(x) \/ TypeName(x)
       \/ \E tooLarge \in BOOLEAN : onPickAvatar(x, tooLarge)
  \/ \E typed \in {"good", "mismatched", "short"} : TypePasswords(typed)
  \/ onNameSubmit \/ onRemoveAvatar \/ onPasswordSubmit

Spec == Init /\ [][Next]_vars

-----------------------------------------------------------------------------
(* Properties                                                              *)

(* When nothing is on its way and no answer was lost, the page shows what  *)
(* is stored: settings saved one by one and answered in any order neither  *)
(* bring an old appearance back nor keep one that was refused.  An admini- *)
(* strator looking at another account keeps the appearance they had        *)
(* (Profile.tsx:125-127, AuthProvider.tsx:32-36).                          *)
AppearanceIsTheUsers ==
  /\ wire = <<>> /\ ~view.missed =>
       /\ view.user = world
       /\ ~view.impersonating => \A s \in Optimistic : view.shown[s] = world[s]
  /\ view.impersonating => \A s \in Optimistic \ view.saved : view.shown[s] = Own
=============================================================================
