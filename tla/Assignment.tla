----------------------------- MODULE Assignment -----------------------------
(***************************************************************************)
(* Who is on the hook: app/core/assignment.py.  Users are integers,        *)
(* numbered in the canonical order of `_ordered` (first name, last name,   *)
(* id).  A random draw may return any of its candidates, so each operator  *)
(* is the SET of answers the function can give.                            *)
(***************************************************************************)
EXTENDS Integers

CONSTANT NoUser   \* the NULL of a user column

Strategies == {"manual", "alphabetical", "random", "least_done"}

(* The head of `_ordered`: the one member of S that sorts first.           *)
Firsts(S) == {u \in S : \A v \in S : u <= v}

(* Variant: the comparison the wrong way round.                            *)
LeastDone_Most(pool, counts) ==
  {u \in pool : \A v \in pool : counts[u] >= counts[v]}

(* Those with the fewest completions.                                      *)
LeastDone(pool, counts) ==
  {u \in pool : \A v \in pool : counts[u] <= counts[v]}

(* initial_assignee: nobody to hand over from.                             *)
InitialAssignees(strategy, pool, counts) ==
  CASE pool = {}                   -> {NoUser}
    [] \E u \in pool : pool = {u}  -> pool
    [] OTHER ->
         CASE strategy = "manual"       -> {NoUser}
           [] strategy = "random"       -> pool
           [] strategy = "least_done"   -> Firsts(LeastDone(pool, counts))
           [] strategy = "alphabetical" -> Firsts(pool)

(* The alphabetical successor, wrapping round to the first.                *)
Following(pool, u) ==
  LET later == {v \in pool : v > u}
  IN  IF later # {} THEN Firsts(later) ELSE Firsts(pool)

(* The least-done handover: a tie never stays with who was on the hook.    *)
LeastDoneNext(pool, current, counts) ==
  LET others == LeastDone(pool, counts) \ {current}
  IN  IF others # {} THEN Firsts(others) ELSE {current}

(* The handover between members of a pool of several.                      *)
Handover(strategy, pool, current, counts) ==
  CASE strategy = "alphabetical" -> Following(pool, current)
    [] strategy = "random"       -> pool \ {current}
    [] strategy = "least_done"   -> LeastDoneNext(pool, current, counts)

(* next_assignee: the turn of `current` just ended.                        *)
NextAssignees(strategy, pool, current, counts) ==
  IF strategy = "manual" THEN {current}
  ELSE IF pool = {} THEN {NoUser}
  ELSE IF current \notin pool THEN InitialAssignees(strategy, pool, counts)
  ELSE IF pool = {current} THEN pool
  ELSE Handover(strategy, pool, current, counts)

(* should_reassign: the doneCount-th completion ends a turn.               *)
ShouldReassign(doneCount, turnLength) ==
  doneCount % (IF turnLength < 1 THEN 1 ELSE turnLength) = 0
=============================================================================
