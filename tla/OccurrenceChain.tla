--------------------------- MODULE OccurrenceChain --------------------------
(***************************************************************************)
(* What closing a chore promises, with nobody in the way: one slot is open *)
(* and each closure files it away and opens a later slot of the same grid; *)
(* moving the household to another timezone may re-date the open slot on   *)
(* its day and touches nothing else.                                       *)
(***************************************************************************)
EXTENDS Integers

CONSTANTS
  Grids,    \* the households' possible grids: one per timezone, and "off"
  MaxDay    \* last day of the model

VARIABLES
  open,     \* the open slot
  history   \* the slots closed so far

Slot == [day : 0..MaxDay, grid : Grids]

Init == open \in Slot /\ history = {}

(* _close_occurrence, its effect.                                          *)
Close ==
  /\ open \notin history
  /\ history' = history \cup {open}
  /\ open' \in {s \in Slot : s.grid = open.grid /\ s.day > open.day}

(* reanchor_open_occurrences, its effect on one chore.                     *)
Redate ==
  /\ open' \in {s \in Slot : s.day = open.day}
  /\ UNCHANGED history

Next == Close \/ Redate

Spec == Init /\ [][Next]_<<open, history>>
=============================================================================
