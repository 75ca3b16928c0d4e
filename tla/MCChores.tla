------------------------------ MODULE MCChores ------------------------------
(***************************************************************************)
(* Small instances of Chores.  A day has four ticks.  Zone "home" keeps    *)
(* one offset; "west" is two ticks behind and its clocks go forward over   *)
(* the last tick of day 2 and back in the middle of day 4; those of "south"*)
(* skip the midnight of day 3 and repeat the last tick of day 4, the way   *)
(* America/Santiago's do.                                                  *)
(***************************************************************************)
EXTENDS Chores

MCTimes == -8..170

ForwardBetween(t, first, last) == IF t \in first..last THEN -1 ELSE -2

MCOffset ==
  [z \in Zones |->
    [t \in MCTimes |-> CASE z = "home"  -> 0
                         [] z = "west"  -> ForwardBetween(t, 13, 18)
                         [] z = "south" -> ForwardBetween(t, 14, 20)]]

MCInstants == 4..40

MCMonthStart == <<0, 9, 18, 26, 36>>

Daily    == RuleOf("daily", 1, {})
AltDaily == RuleOf("daily", 2, {})
ThuFri   == RuleOf("weekly", 1, {3, 4})
OnDemand == RuleOf("manual", 1, {})

Body(rule, start, strategy, turn, pool, current, clear) ==
  [rule |-> rule, start |-> start, strategy |-> strategy, turn |-> turn,
   pool |-> pool, current |-> current, clear |-> clear]

(* One member does a chore that may be rescheduled onto any of the rules.  *)
SchedulePayloads ==
  {Body(Daily, 1, "manual", 1, {1}, NoUser, FALSE),
   Body(ThuFri, 3, "manual", 1, {1}, NoUser, FALSE),
   Body(OnDemand, NoDate, "manual", 1, {1}, NoUser, FALSE)}

(* Never unscheduled: every slot ought to sit on a grid throughout.        *)
ScheduledPayloads ==
  {Body(r, 1, "manual", 1, {1}, NoUser, FALSE) : r \in {Daily, AltDaily}}

(* Three strategies, turns of one and two, a pool of two or three, with    *)
(* the first assignee derived, chosen or left unassigned.                  *)
RotationPayloads ==
  {Body(Daily, 1, s, n, {1, 2}, a, FALSE) :
     s \in {"alphabetical", "random", "least_done"}, n \in {1, 2}, a \in {NoUser, 2}}
  \cup {Body(Daily, 1, s, 1, {1, 2, 3}, NoUser, FALSE) :
          s \in {"alphabetical", "random", "least_done"}}
  \cup {Body(Daily, 1, "least_done", 2, {1, 2}, NoUser, TRUE)}
=============================================================================
