----------------------------- MODULE Statistics -----------------------------
(***************************************************************************)
(* The statistics page: a range and two filters above figures that are     *)
(* asked for anew whenever one of them moves, while the old ones stay on   *)
(* show.                                                                   *)
(***************************************************************************)
EXTENDS Wire

CONSTANTS
  Households,  \* the households that have something to show this user
  Visible,     \* those the user is at least a deputy in
  Someone,     \* a member to filter by
  MaxRequests, \* requests outstanding at most
  MaxMoves     \* what the user does, all told

VisibleAssumption == Visible \subseteq Households

VARIABLES
  view,    \* the page
  wire,    \* its requests
  world,   \* the figures, as the API counts them
  moves    \* how much was done

vars == <<view, wire, world, moves>>

Ranges == {"7d", "30d", "90d"}

Acts == moves < MaxMoves /\ moves' = moves + 1 /\ Len(wire) < MaxRequests
NoOptions == [households |-> {}, members |-> {}]

(* What the page asks for: its range, and the filters that are set.        *)
Query(v) == [range |-> v.range, household |-> v.household, user |-> v.user]

(* The effect on range and filters: its cleanup, then a new request.       *)
Refetch(v) == SendAgain(wire, "stats", Query(v))

ReceiveOptions(i) ==
  /\ i \in Settled(wire) /\ wire[i].kind = "options"
  /\ view' = [view EXCEPT !.options =
                IF wire[i].is = "ok"
                THEN [Data(wire[i]) EXCEPT !.households = @ \intersect Visible]
                ELSE NoOptions]
  /\ wire' = Received(wire, i)
  /\ UNCHANGED <<world, moves>>

(* A failure leaves the figures of before on show, under an error.         *)
ReceiveStats(i) ==
  /\ i \in Settled(wire) /\ wire[i].kind = "stats"
  /\ view' = IF wire[i].is = "ok"
             THEN [view EXCEPT !.figures = wire[i].answer, !.error = FALSE]
             ELSE [view EXCEPT !.error = TRUE]
  /\ wire' = Received(wire, i)
  /\ UNCHANGED <<world, moves>>

Choose(v) == Acts /\ view' = v /\ wire' = Refetch(v) /\ UNCHANGED world

ChooseRange(range) == range # view.range /\ Choose([view EXCEPT !.range = range])

(* A picker is there when it offers a choice.                              *)
ChooseUser(user) ==
  /\ Cardinality(view.options.members) > 1
  /\ user \in {{}} \union {{m} : m \in view.options.members} /\ user # view.user
  /\ Choose([view EXCEPT !.user = user])

ChooseHousehold(household) ==
  /\ Cardinality(view.options.households) > 1
  /\ household \in {{}} \union {{h} : h \in view.options.households} /\ household # view.household
  /\ Choose([view EXCEPT !.household = household])

(* The figures of a query, at the time they are counted.                   *)
Serve(i) ==
  /\ i \in Waiting(wire)
  /\ wire' = IF wire[i].kind = "options"
             THEN Ok(wire, i, [households |-> Households, members |-> Someone])
             ELSE Ok(wire, i, wire[i].arg)
  /\ UNCHANGED <<view, world, moves>>

Lose(i) ==
  /\ i \in Waiting(wire)
  /\ wire' = Settle(wire, i, "lost")
  /\ UNCHANGED <<view, world, moves>>

Init ==
  /\ view = [range |-> "30d", household |-> {}, user |-> {}, options |-> NoOptions,
             figures |-> {}, error |-> FALSE]
  /\ wire = <<Call("options", {}), Call("stats", Query(view))>>
  /\ world = {}
  /\ moves = 0

Next ==
  \/ \E i \in DOMAIN wire : ReceiveOptions(i) \/ ReceiveStats(i) \/ Serve(i) \/ Lose(i)
  \/ \E range \in Ranges : ChooseRange(range)
  \/ \E user \in {{}} \union {{m} : m \in Someone} : ChooseUser(user)
  \/ \E household \in {{}} \union {{h} : h \in Households} : ChooseHousehold(household)

Spec == Init /\ [][Next]_vars

-----------------------------------------------------------------------------
(* Properties                                                              *)

(* At rest, and with no error on show, the figures are those of the range  *)
(* and the filters above them, whatever order the answers came in; and a   *)
(* page at rest has figures or says why not (Statistics.tsx:217-239).      *)
FiguresAnswerTheFilters ==
  ~Out(wire, {"stats"}) /\ ~view.error => view.figures = {Query(view)}

=============================================================================
