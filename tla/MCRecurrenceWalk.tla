-------------------------- MODULE MCRecurrenceWalk --------------------------
(***************************************************************************)
(* The calendar from Monday 1 January 2024 to the end of 2030: a leap year *)
(* and the years around it.                                                *)
(***************************************************************************)
EXTENDS RecurrenceWalk, Sequences

MCTimes == 0..2600

MCOffset == [z \in Zones |-> [t \in MCTimes |-> 0]]

CommonYear == <<31, 28, 31, 30, 31, 30, 31, 31, 30, 31, 30, 31>>

LeapYear == [CommonYear EXCEPT ![2] = 29]

MonthLengths == LeapYear \o CommonYear \o CommonYear \o CommonYear
                  \o LeapYear \o CommonYear \o CommonYear

MCMonthStart ==
  LET starts[m \in 1..Len(MonthLengths)] ==
        IF m = 1 THEN 0 ELSE starts[m - 1] + MonthLengths[m - 1]
  IN  starts

(* Every weekday set of up to three days, each period with and without an  *)
(* interval above one.                                                     *)
MCRules ==
  {RuleOf(p, n, {}) : p \in {"daily", "weekly", "monthly", "yearly"}, n \in 1..3}
  \cup {RuleOf("weekly", n, days) :
          n \in 1..3, days \in {s \in SUBSET (0..6) : Cardinality(s) \in 1..3}}

(* Ends of long and short months, a leap day, days of every week position. *)
MCStarts == 0..6 \cup {29, 30, 59, 90}

MCDelays == {-3, 0, 1, 9, 40}
=============================================================================
