------------------------------ MODULE MCPages -------------------------------
(***************************************************************************)
(* Pages on small instances, each page with bounds of its own.             *)
(***************************************************************************)
EXTENDS Pages

CONSTANTS trash, dishes, alice, bob

TheKinds == {"chores", "history", "logs", "tags", "households", "users", "admin_households"}
TheRows == 1..3
TheHouseholdOf == [r \in TheRows |-> IF r = 3 THEN 2 ELSE 1]
TheMembersOf == [h \in 1..2 |-> IF h = 1 THEN {alice, bob} ELSE {bob}]
TheMembers == 1..3

RequestsAtMost ==
  [p \in {"table", "board", "form", "profile", "security", "household", "figures", "worker"} |->
     IF p \in {"household", "figures"} THEN 4 ELSE 3]
MovesAtMost ==
  [p \in DOMAIN RequestsAtMost |->
     CASE p = "table" -> 2
       [] p = "board" -> 4
       [] p \in {"security", "worker"} -> 5
       [] OTHER -> 3]
=============================================================================
