--------------------------- MODULE RecurrenceWalk ---------------------------
(***************************************************************************)
(* One scheduled chore walked along its grid by closures that are early,   *)
(* on time or late: advance_anchor and the step after it, compared with a  *)
(* description of the grid that does not walk.  Times of day play no part, *)
(* so a wall-clock reading is a date (DAY = 1) in one zone of offset 0.    *)
(***************************************************************************)
EXTENDS Recurrence

CONSTANTS
  Rules,     \* the scheduled rules explored
  Starts,    \* start dates
  Delays,    \* days from the slot to its closure, negative when early
  Horizon    \* last date walked to

VARIABLES rule, start, first, slot, done

vars == <<rule, start, first, slot, done>>

TheZone == CHOOSE z \in Zones : TRUE

Init ==
  /\ rule \in Rules
  /\ start \in Starts
  /\ first = FirstOccurrence(start, rule)
  /\ slot = first
  /\ done = start

(* The open slot is closed on date d; the next one is opened.              *)
CloseOn(d) ==
  /\ slot <= Horizon
  /\ done' = d
  /\ slot' = NextOccurrenceAfter(slot, d, rule, TheZone)
  /\ UNCHANGED <<rule, start, first>>

Next == \E delay \in Delays : slot + delay >= start /\ CloseOn(slot + delay)

Spec == Init /\ [][Next]_vars

-----------------------------------------------------------------------------
(* The grid, described rather than walked.                                 *)

WeekOf(d) == d \div DAYS_IN_WEEK

DayOfMonth(d) == d - MonthStart[MonthOf(d)]

(* The dates of a daily or weekly rule whose first slot is `anchor`.       *)
OnGrid(d, anchor) ==
  CASE rule.repeats = "daily" -> (d - anchor) % rule.interval = 0
    [] Pinned(rule) -> /\ Weekday(d) \in rule.weekdays
                       /\ (WeekOf(d) - WeekOf(anchor)) % rule.interval = 0
    [] OTHER -> (d - anchor) % (DAYS_IN_WEEK * rule.interval) = 0

Later(a, b) == IF a < b THEN b ELSE a
(* However the closures are timed, the chore is next due on the first date *)
(* of the grid its FIRST slot spans that lies after both the slot and the  *)
(* closure: the phase of an interval is never lost, no occurrence is due   *)
(* again, and none in the future is passed over.                           *)
NextIsFirstOnGrid ==
  [][rule.repeats \in {"daily", "weekly"} =>
       LET from == Later(slot, done')
       IN  slot' = Least({d \in (from + 1)..(from + DAYS_IN_WEEK * (rule.interval + 1)) :
                            OnGrid(d, first)})]_vars

(* A monthly or yearly chore never loses a month to a short one: it is due *)
(* again in the first month of its cycle that still lies ahead.            *)
NoMonthLost ==
  [][rule.repeats \in {"monthly", "yearly"} =>
       LET step == rule.interval * (IF rule.repeats = "yearly" THEN 12 ELSE 1)
           gone == MonthOf(slot') - MonthOf(slot)
       IN  /\ gone % step = 0
           /\ slot' > done'
           /\ gone > step => MonthOf(slot') - step <= MonthOf(done')]_vars

(* The day of the month drifts down at a short month and never back up     *)
(* (Jan 31, Feb 28, Mar 28: app/core/chores.py:21-22).                     *)
DayOfMonthDriftsDown ==
  [][rule.repeats \in {"monthly", "yearly"} => DayOfMonth(slot') <= DayOfMonth(slot)]_vars
=============================================================================
