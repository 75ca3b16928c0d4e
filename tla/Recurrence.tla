----------------------------- MODULE Recurrence -----------------------------
(***************************************************************************)
(* The pure slot algebra of app/core/chores.py and the loop of             *)
(* app/core/occurrences.py:free_slot_from.                                 *)
(*                                                                         *)
(* An instant is an integer, and a timezone is what the code uses a        *)
(* ZoneInfo for: at each instant it has an offset.  Instant plus offset is *)
(* the wall-clock reading, again an integer, DAY of which make a calendar  *)
(* day; day 0 is a Monday.  Clocks going back repeat readings, clocks      *)
(* going forward leave readings that no instant shows.                     *)
(***************************************************************************)
EXTENDS Integers, FiniteSets

CONSTANTS
  Zones,       \* the timezone names in use
  Times,       \* the instants of the calendar
  Offset,      \* [Zones -> [Times -> Int]]: utcoffset() at each instant
  DAY,         \* wall-clock ticks of a calendar day
  MonthStart   \* the day on which each month of the calendar begins

DAYS_IN_WEEK == 7
MAX_INTERVAL == 365

Periods == {"manual", "daily", "weekly", "monthly", "yearly"}

(* A RecurrenceRule as RecurrenceRule.of leaves it.                        *)
Rule == [repeats : Periods, interval : 1..MAX_INTERVAL,
         weekdays : SUBSET (0..(DAYS_IN_WEEK - 1))]

(* RecurrenceRule.of: weekdays only mean something for `weekly`.           *)
RuleOf(repeats, interval, weekdays) ==
  [repeats  |-> repeats,
   interval |-> interval,
   weekdays |-> IF repeats = "weekly" THEN weekdays ELSE {}]

Pinned(rule) == rule.repeats = "weekly" /\ rule.weekdays # {}

Least(S) == CHOOSE x \in S : \A y \in S : x <= y

Greatest(S) == CHOOSE x \in S : \A y \in S : x >= y

Earlier(s, t) == IF s < t THEN s ELSE t

-----------------------------------------------------------------------------
(* From instants to wall-clock readings and back.                          *)

(* `astimezone(tz)` *)
Wall(t, z) == t + Offset[z][t]

DateOf(wall) == wall \div DAY

TimeOf(wall) == wall % DAY

LocalDate(t, z) == DateOf(Wall(t, z))

UtcOffsets == [z \in Zones |-> {Offset[z][t] : t \in Times}]

(* The instant a reading names under fold=0: the first to show it; for a   *)
(* reading skipped by the clocks, the one the offset before the jump gives *)
(* (the lesser of the zone's two).                                         *)
ToInstant(wall, z) ==
  LET candidates == {wall - o : o \in UtcOffsets[z]}
      showing    == {t \in candidates : t \in Times /\ Wall(t, z) = wall}
  IN  IF showing # {} THEN Least(showing) ELSE Greatest(candidates)

(* end_of_local_day: the instant before the next local midnight.           *)
EndOfLocalDay(t, z) == ToInstant(DAY * (LocalDate(t, z) + 1), z) - 1

(* days_late: a closure measured in whole local days against its slot.     *)
DaysLate(slot, at, z) == LocalDate(at, z) - LocalDate(slot, z)

-----------------------------------------------------------------------------
(* One step along the grid, on wall-clock fields.                          *)

Weekday(d) == d % DAYS_IN_WEEK

MonthOf(d) ==
  CHOOSE m \in DOMAIN MonthStart :
    /\ MonthStart[m] <= d
    /\ m + 1 \in DOMAIN MonthStart => d < MonthStart[m + 1]

MonthLength(m) == MonthStart[m + 1] - MonthStart[m]

AddMonths_MonthEnd(d, n) ==
  LET m == MonthOf(d)
  IN  IF d = MonthStart[m] + MonthLength(m) - 1
      THEN MonthStart[m + n] + MonthLength(m + n) - 1
      ELSE MonthStart[m + n] + Earlier(d - MonthStart[m], MonthLength(m + n) - 1)

(* _add_months: the same day of a later month, clamped to its length.      *)
AddMonths(d, n) ==
  LET m == MonthOf(d)
  IN  MonthStart[m + n] + Earlier(d - MonthStart[m], MonthLength(m + n) - 1)

(* Variant: hopping to a later weekday spends the interval too.            *)
WeeklyStep_AlwaysSpends(weekday, rule) ==
  LET later == {w \in rule.weekdays : w > weekday}
  IN  IF later # {} THEN Least(later) - weekday + DAYS_IN_WEEK * (rule.interval - 1)
      ELSE DAYS_IN_WEEK * rule.interval - weekday + Least(rule.weekdays)

(* _weekly_step: free within the week, `interval` weeks across its end.    *)
WeeklyStep(weekday, rule) ==
  LET later == {w \in rule.weekdays : w > weekday}
  IN  IF later # {} THEN Least(later) - weekday
      ELSE DAYS_IN_WEEK * rule.interval - weekday + Least(rule.weekdays)

(* next_slot_after, on the date: the time of day is carried over.          *)
NextDate(d, rule) ==
  CASE rule.repeats = "daily"   -> d + rule.interval
    [] rule.repeats = "weekly"  ->
         IF Pinned(rule) THEN d + WeeklyStep(Weekday(d), rule)
         ELSE d + DAYS_IN_WEEK * rule.interval
    [] rule.repeats = "monthly" -> AddMonths(d, rule.interval)
    [] rule.repeats = "yearly"  -> AddMonths(d, 12 * rule.interval)

NextSlotAfter(wall, rule) == DAY * NextDate(DateOf(wall), rule) + TimeOf(wall)
(* snap_to_slot: the nearest selected weekday at or after the slot.        *)
SnapToSlot(wall, rule) ==
  IF ~Pinned(rule) THEN wall
  ELSE wall + DAY * Least({(w - Weekday(DateOf(wall))) % DAYS_IN_WEEK : w \in rule.weekdays})

FirstOccurrence(start, rule) == SnapToSlot(DAY * start, rule)

-----------------------------------------------------------------------------
(* The two walks.  Both loops advance by at least a day per iteration, and *)
(* stay in wall-clock readings until the slot is stored.                   *)

(* advance_anchor: roll forward while the next slot is not after the       *)
(* completion date.                                                        *)
AdvanceAnchor(wall, date, rule) ==
  LET roll[anchor \in Int] ==
        LET nxt == NextSlotAfter(anchor, rule)
        IN  IF DateOf(nxt) <= date THEN roll[nxt] ELSE anchor
  IN  roll[wall]

(* next_occurrence_after, for the periods that have a grid.                *)
NextOccurrenceAfter(slot, at, rule, z) ==
  NextSlotAfter(AdvanceAnchor(Wall(slot, z), LocalDate(at, z), rule), rule)

(* free_slot_from: past every slot of `taken`, compared as instants.       *)
FreeSlotFrom(candidate, taken, rule, z) ==
  LET walk[wall \in Int] ==
        IF ToInstant(wall, z) \in taken THEN walk[NextSlotAfter(wall, rule)]
        ELSE ToInstant(wall, z)
  IN  walk[candidate]
=============================================================================
