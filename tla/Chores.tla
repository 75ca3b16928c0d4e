------------------------------- MODULE Chores -------------------------------
(***************************************************************************)
(* The occurrence chain of a household's chores, one request at a time:    *)
(* app/api/v1/chores.py, app/api/v1/completions.py (undo) and the timezone *)
(* change of app/core/occurrences.py.  Every action is one whole request   *)
(* handler, from its guards to its commit; OccurrenceRaces looks inside    *)
(* them.                                                                   *)
(*                                                                         *)
(* One household.  Titles, tags, descriptions and the stored start_date    *)
(* (read only from the payload that carries it) are left out; roles appear *)
(* as the set of Organisers, and every user of Users is a member.          *)
(***************************************************************************)
EXTENDS Recurrence, Assignment

CONSTANTS
  Users,        \* members of the household
  Organisers,   \* those of them who may create, edit and delete chores
  Owner,        \* the organiser who owns the household
  ChoreIds,     \* ids the chores table may hand out
  Payloads,     \* the ChoreCreate/ChoreUpdate bodies clients send
  Instants,     \* horizon: no slot or timestamp is modelled beyond it
  Clock,        \* the instants at which clock.now() may be read
  MaxRows,      \* bound on the occurrence ids handed out
  NoDate,       \* start_date NULL
  NoZone        \* completed_timezone NULL

VARIABLES
  chore,        \* [ChoreIds -> Chore]: the chores table
  rows,         \* the chore_occurrences table, a set of rows
  nextId,       \* the primary-key sequence of that table
  timezone,     \* households.timezone
  now           \* the last instant clock.now() returned

vars == <<chore, rows, nextId, timezone, now>>

UserOrNull == Users \cup {NoUser}

(* A body after _normalised_schedule and _resolve_current_assignee: a      *)
(* start date exactly when scheduled, a current assignee from the pool.    *)
Payload ==
  [rule : Rule, start : Int \cup {NoDate}, strategy : Strategies,
   turn : Nat \ {0}, pool : SUBSET Users, current : UserOrNull, clear : BOOLEAN]

ASSUME ZoneAssumption ==
  /\ Times \subseteq Int /\ DAY \in Nat \ {0}
  /\ Offset \in [Zones -> [Times -> Int]]
  /\ \A z \in Zones : \E o, s \in UtcOffsets[z] : UtcOffsets[z] = {o, s}
  /\ NoZone \notin Zones

ASSUME ClockAssumption ==
  /\ Instants \subseteq Times /\ Clock \subseteq Instants
  /\ NoDate \notin Int

ASSUME UserAssumption ==
  /\ Users \subseteq Int /\ NoUser \notin Users
  /\ Organisers \subseteq Users /\ Owner \in Organisers

ASSUME PayloadAssumption ==
  /\ Payloads \subseteq Payload
  /\ \A p \in Payloads : /\ p.start = NoDate <=> p.rule.repeats = "manual"
                         /\ p.current \in p.pool \cup {NoUser}

ASSUME BoundAssumption == MaxRows \in Nat

-----------------------------------------------------------------------------
(* Types                                                                   *)

Chore ==
  [life : {"unused", "live", "deleted"}, rule : Rule, strategy : Strategies,
   turn : Nat \ {0}, pool : SUBSET Users]

Row ==
  [id : Nat, chore : ChoreIds, slot : Instants, status : {"open", "done"},
   assignee : UserOrNull, by : UserOrNull, at : Instants \cup {NoDate},
   zone : Zones \cup {NoZone}, skipped : BOOLEAN]

TypeOK ==
  /\ chore \in [ChoreIds -> Chore]
  /\ rows \subseteq Row
  /\ nextId \in Nat
  /\ timezone \in Zones
  /\ now \in Int

NoChore ==
  [life |-> "unused", rule |-> RuleOf("manual", 1, {}), strategy |-> "manual",
   turn |-> 1, pool |-> {}]

OpenRow(id, c, slot, assignee) ==
  [id |-> id, chore |-> c, slot |-> slot, status |-> "open",
   assignee |-> assignee, by |-> NoUser, at |-> NoDate, zone |-> NoZone,
   skipped |-> FALSE]

-----------------------------------------------------------------------------
(* Queries over a table R of occurrences                                   *)

Live(c) == chore[c].life = "live"

Unscheduled(c) == chore[c].rule.repeats = "manual"

OpenOf(R, c) == {r \in R : r.chore = c /\ r.status = "open"}

DoneOf(R, c) == {r \in R : r.chore = c /\ r.status = "done"}

(* free_slot_from's `taken`: a skipped row occupies its slot too.          *)
TakenSlots(R, c) == {r.slot : r \in DoneOf(R, c)}

(* uq_occurrence_chore_scheduled and uq_open_occurrence_per_chore.         *)
UniqueConstraints(R) ==
  \A r, s \in R :
    r # s /\ r.chore = s.chore =>
      r.slot # s.slot /\ ~(r.status = "open" /\ s.status = "open")

(* _completion_tally: a skip is not a completion.                          *)
Completions(R, c) == {r \in DoneOf(R, c) : ~r.skipped}

Tally(R, c) ==
  [u \in Users |-> Cardinality({r \in Completions(R, c) : r.by = u})]

-----------------------------------------------------------------------------
(* Assignee derivations                                                    *)

(* _strategy_pick *)
StrategyPick(R, c, strategy, pool) ==
  InitialAssignees(strategy, pool, Tally(R, c))

(* _successor_assignee, over a table that already holds the completion.    *)
SuccessorAssignees(R, c, current) ==
  LET k == chore[c]
  IN  IF k.pool = {} THEN {NoUser}
      ELSE IF ShouldReassign(Cardinality(Completions(R, c)), k.turn)
      THEN NextAssignees(k.strategy, k.pool,
                         IF current \in k.pool THEN current ELSE NoUser,
                         Tally(R, c))
      ELSE IF current = NoUser \/ current \in k.pool THEN {current}
      ELSE StrategyPick(R, c, k.strategy, k.pool)

(* Variant: a skip ends the turn as a completion does.                     *)
RetainedAssignees_HandsOn(R, c, current) == SuccessorAssignees(R, c, current)

(* _retained_assignee: a skip hands nothing on.                            *)
RetainedAssignees(R, c, current) ==
  LET k == chore[c]
  IN  IF k.pool = {} \/ current = NoUser THEN {NoUser}
      ELSE IF current \in k.pool THEN {current}
      ELSE StrategyPick(R, c, k.strategy, k.pool)

(* The assignee an edit leaves on the open row.                            *)
ReconciledAssignees(R, c, p, current) ==
  IF p.clear THEN {NoUser}
  ELSE IF p.current # NoUser THEN {p.current}
  ELSE IF current \in p.pool THEN {current}
  ELSE StrategyPick(R, c, p.strategy, p.pool)

-----------------------------------------------------------------------------
(* Slots                                                                   *)

(* Variant: was_unscheduled forgotten, a "since" instant taken for a slot.  *)
ReconciledSlot_SnapsSince(R, c, p, occ, wasUnscheduled) ==
  IF p.start = NoDate THEN occ.slot
  ELSE FreeSlotFrom(IF DoneOf(R, c) = {}
                    THEN FirstOccurrence(p.start, p.rule)
                    ELSE SnapToSlot(Wall(occ.slot, timezone), p.rule),
                    TakenSlots(R, c), p.rule, timezone)

(* _reconcile_open_occurrence: re-seed from the start date when no grid    *)
(* stands behind the open row, else snap it onto the edited grid.          *)
ReconciledSlot(R, c, p, occ, wasUnscheduled) ==
  IF p.start = NoDate THEN occ.slot
  ELSE FreeSlotFrom(IF DoneOf(R, c) = {} \/ wasUnscheduled
                    THEN FirstOccurrence(p.start, p.rule)
                    ELSE SnapToSlot(Wall(occ.slot, timezone), p.rule),
                    TakenSlots(R, c), p.rule, timezone)

ClosureInstant_NextMidnight(occ, t, backdate) ==
  IF backdate THEN Earlier(EndOfLocalDay(occ.slot, timezone) + 1, t) ELSE t

(* A closure read at t: backdated to the end of the slot's own local day,  *)
(* never into the future.                                                  *)
ClosureInstant(occ, t, backdate) ==
  IF backdate THEN Earlier(EndOfLocalDay(occ.slot, timezone), t) ELSE t

(* Variants: taken slots not skipped; missed slots not rolled over.        *)
SuccessorSlot_Blind(R, c, occ, at) ==
  IF Unscheduled(c) THEN at
  ELSE ToInstant(NextOccurrenceAfter(occ.slot, at, chore[c].rule, timezone), timezone)

SuccessorSlot_OneStep(R, c, occ, at) ==
  IF Unscheduled(c) THEN at
  ELSE FreeSlotFrom(NextSlotAfter(Wall(occ.slot, timezone), chore[c].rule),
                    TakenSlots(R, c), chore[c].rule, timezone)

(* The slot of the open row that follows a closure of occ at `at`: that    *)
(* very instant when there is no grid.                                     *)
SuccessorSlot(R, c, occ, at) ==
  IF Unscheduled(c) THEN at
  ELSE FreeSlotFrom(NextOccurrenceAfter(occ.slot, at, chore[c].rule, timezone),
                    TakenSlots(R, c), chore[c].rule, timezone)

(* Where reanchor_open_occurrences puts an open row when it moves it: the  *)
(* reading it shows in the old zone, said again in the new one.            *)
ReanchoredSlot(R, r, new) ==
  FreeSlotFrom(Wall(r.slot, timezone), TakenSlots(R, r.chore), chore[r.chore].rule, new)

(* Variant: the status filter forgotten, done rows moved too.              *)
Reanchors_History(r) == Live(r.chore) /\ ~Unscheduled(r.chore)

Reanchors(r) == /\ r.status = "open"
                /\ Live(r.chore)
                /\ ~Unscheduled(r.chore)

Reanchor(R, new) ==
  {IF Reanchors(r) THEN [r EXCEPT !.slot = ReanchoredSlot(R, r, new)] ELSE r : r \in R}

-----------------------------------------------------------------------------
(* The effect of a closure and of its undoing on the table                 *)

Closed(occ, by, at, skipped) ==
  [occ EXCEPT !.status = "done", !.skipped = skipped, !.by = by, !.at = at,
              !.zone = timezone]

CloseRow(R, occ, by, at, skipped) == (R \ {occ}) \cup {Closed(occ, by, at, skipped)}

(* The closure is the chore's latest: by id, which is insertion order.     *)
IsLatestClosure(R, r) == \A s \in DoneOf(R, r.chore) : s.id <= r.id

Reopened_KeepsSkip(r) ==
  [r EXCEPT !.status = "open", !.by = NoUser, !.at = NoDate, !.zone = NoZone]

Reopened(r) ==
  [r EXCEPT !.status = "open", !.by = NoUser, !.at = NoDate, !.zone = NoZone,
            !.skipped = FALSE]

(* Variant: the successor is left standing beside the reopened row.        *)
UndoRow_LeavesSuccessor(R, r) ==
  IF IsLatestClosure(R, r) THEN (R \ {r}) \cup {Reopened(r)} ELSE R \ {r}

UndoRow(R, r) ==
  IF IsLatestClosure(R, r)
  THEN (R \ ({r} \cup OpenOf(R, r.chore))) \cup {Reopened(r)}
  ELSE R \ {r}

-----------------------------------------------------------------------------
(* The requests                                                            *)

Init ==
  /\ chore = [c \in ChoreIds |-> NoChore]
  /\ rows = {}
  /\ nextId = 1
  /\ timezone \in Zones
  /\ now = 0

Configured(p) ==
  [life |-> "live", rule |-> p.rule, strategy |-> p.strategy, turn |-> p.turn,
   pool |-> p.pool]

(* clock.now() never goes back; requests in quick succession may share an  *)
(* instant of the model.                                                   *)
ReadClock(t) == t \in Clock /\ t >= now /\ now' = t

(* POST /chores *)
Create(u, c, p, t) ==
  /\ u \in Organisers
  /\ chore[c].life = "unused"
  /\ nextId <= MaxRows
  /\ ReadClock(t)
  /\ LET slot == IF p.start = NoDate THEN t
                 ELSE ToInstant(FirstOccurrence(p.start, p.rule), timezone)
     IN  /\ slot \in Instants
         /\ \E a \in IF p.clear THEN {NoUser}
                     ELSE IF p.current # NoUser THEN {p.current}
                     ELSE StrategyPick(rows, c, p.strategy, p.pool) :
              rows' = rows \cup {OpenRow(nextId, c, slot, a)}
  /\ nextId' = nextId + 1
  /\ chore' = [chore EXCEPT ![c] = Configured(p)]
  /\ UNCHANGED timezone

(* PATCH /chores/{id}: the edit and the reconciliation it ends with.       *)
Update(u, c, p) ==
  /\ u \in Organisers
  /\ Live(c)
  /\ \E occ \in OpenOf(rows, c) :
       LET slot == ReconciledSlot(rows, c, p, occ, Unscheduled(c))
       IN  /\ slot \in Instants
           /\ \E a \in ReconciledAssignees(rows, c, p, occ.assignee) :
                rows' = (rows \ {occ}) \cup
                          {[occ EXCEPT !.slot = slot, !.assignee = a]}
  /\ UniqueConstraints(rows')
  /\ chore' = [chore EXCEPT ![c] = Configured(p)]
  /\ UNCHANGED <<nextId, timezone, now>>

(* DELETE /chores/{id}: soft, the occurrences stay as they are.            *)
Delete(u, c) ==
  /\ u \in Organisers
  /\ Live(c)
  /\ chore' = [chore EXCEPT ![c].life = "deleted"]
  /\ UNCHANGED <<rows, nextId, timezone, now>>

(* _close_occurrence.  A commit the unique constraints refuse is rolled    *)
(* back and answered 409, so it is no step.                                *)
Close(c, by, skipped, backdate, t) ==
  /\ Live(c)
  /\ nextId <= MaxRows
  /\ ReadClock(t)
  /\ \E occ \in OpenOf(rows, c) :
       LET at      == ClosureInstant(occ, t, backdate)
           history == CloseRow(rows, occ, by, at, skipped)
           slot    == SuccessorSlot(history, c, occ, at)
       IN  /\ at \in Instants
           /\ slot \in Instants
           /\ \E a \in IF skipped THEN RetainedAssignees(history, c, occ.assignee)
                       ELSE SuccessorAssignees(history, c, occ.assignee) :
                rows' = history \cup {OpenRow(nextId, c, slot, a)}
  /\ UniqueConstraints(rows')
  /\ nextId' = nextId + 1
  /\ UNCHANGED <<chore, timezone>>

(* POST /chores/{id}/complete, credited to the caller or to an assignee.   *)
Complete(u, c, credit, backdate, t) ==
  /\ backdate => ~Unscheduled(c)
  /\ credit = u \/ credit \in chore[c].pool
  /\ Close(c, credit, FALSE, backdate, t)

(* POST /chores/{id}/skip *)
Skip(u, c, t) ==
  /\ ~Unscheduled(c)
  /\ Close(c, u, TRUE, FALSE, t)

(* DELETE /completions/{id}: whoever the closure credits, or an organiser. *)
(* A soft-deleted chore's closures can still be undone.                    *)
Undo(u, r) ==
  /\ r.status = "done"
  /\ r.by = u \/ u \in Organisers
  /\ rows' = UndoRow(rows, r)
  /\ UNCHANGED <<chore, nextId, timezone, now>>

(* PATCH /households/{id} with a new timezone: the owner's to send.         *)
ChangeTimezone(u, z) ==
  /\ u = Owner
  /\ z # timezone
  /\ rows' = Reanchor(rows, z)
  /\ \A r \in rows' : r.slot \in Instants
  /\ UniqueConstraints(rows')
  /\ timezone' = z
  /\ UNCHANGED <<chore, nextId, now>>

CreateStep   == \E u \in Users, c \in ChoreIds, p \in Payloads, t \in Clock : Create(u, c, p, t)
UpdateStep   == \E u \in Users, c \in ChoreIds, p \in Payloads : Update(u, c, p)
DeleteStep   == \E u \in Users, c \in ChoreIds : Delete(u, c)
CompleteStep == \E u, credit \in Users, c \in ChoreIds, b \in BOOLEAN, t \in Clock :
                  Complete(u, c, credit, b, t)
SkipStep     == \E u \in Users, c \in ChoreIds, t \in Clock : Skip(u, c, t)
UndoStep     == \E u \in Users, r \in rows : Undo(u, r)
ZoneStep     == \E u \in Users, z \in Zones : ChangeTimezone(u, z)

Next == \/ CreateStep
        \/ UpdateStep
        \/ DeleteStep
        \/ CompleteStep
        \/ SkipStep
        \/ UndoStep
        \/ ZoneStep

Spec == Init /\ [][Next]_vars

-----------------------------------------------------------------------------
(* Properties                                                              *)

(* Every chore ever created has exactly one open occurrence, whatever its  *)
(* period and however completions, skips, undos and edits alternate        *)
(* (docs/architecture/chores.md:24); so the "already completed" 409s and   *)
(* the revive branch of the reconciliation need a race to be reached.      *)
OneOpenPerChore ==
  \A c \in ChoreIds : chore[c].life # "unused" => \E r \in rows : OpenOf(rows, c) = {r}

(* The open row was inserted after every closure of its chore: what lets   *)
(* undo_completion decide by row id which closure is the latest.           *)
OpenRowIsNewest ==
  \A c \in ChoreIds : \A o \in OpenOf(rows, c), d \in DoneOf(rows, c) : d.id < o.id

(* An open row carries no closure, a done row all of one: nothing of an    *)
(* undone closure survives to be attributed to the next.                   *)
ClosureIsWhole ==
  \A r \in rows :
    IF r.status = "open"
    THEN r.by = NoUser /\ r.at = NoDate /\ r.zone = NoZone /\ ~r.skipped
    ELSE r.by # NoUser /\ r.at # NoDate /\ r.zone # NoZone

(* No closure is dated after the moment it was recorded, backdated or not. *)
NoFutureClosure == \A r \in rows : r.status = "done" => r.at <= now

(* The table of occurrences is a chain for every chore: one open row, newer*)
(* than all its closures, which are whole and dated no later than they were*)
(* recorded.  This is what undo's "latest by id" (completions.py:307-312)  *)
(* and every unlocked read of the open row rely on.                        *)
ChainInvariant ==
  /\ TypeOK
  /\ OneOpenPerChore
  /\ OpenRowIsNewest
  /\ ClosureIsWhole
  /\ NoFutureClosure

(* A closure of a scheduled chore never computes a slot its history holds: *)
(* the 409 no retry could clear does not exist (free_slot_from).           *)
NoStuckClosure ==
  \A c \in ChoreIds, t \in Clock, backdate, skipped \in BOOLEAN :
    \A occ \in OpenOf(rows, c) :
      Live(c) /\ ~Unscheduled(c) /\ t >= now =>
        LET at      == ClosureInstant(occ, t, backdate)
            history == CloseRow(rows, occ, Owner, at, skipped)
        IN  \A r \in history : r.chore = c => SuccessorSlot(history, c, occ, at) # r.slot

(* Undoing a closure just made gives back exactly the table it was made    *)
(* in: same open row, same slot, same assignee, nothing left over.         *)
UndoInvertsClosure ==
  \A c \in ChoreIds, t \in Clock, skipped \in BOOLEAN :
    \A occ \in OpenOf(rows, c) :
      LET history == CloseRow(rows, occ, Owner, t, skipped)
          after   == history \cup {OpenRow(nextId, c, t, NoUser)}
      IN  UndoRow(after, Closed(occ, Owner, t, skipped)) = rows

(* History is never rewritten: a done row is kept as it is, removed, or    *)
(* reopened, through every edit, reanchoring and closure.                  *)
HistoryIsFrozen ==
  [][\A r \in rows, s \in rows' :
       r.id = s.id /\ r.status = "done" /\ s.status = "done" => r = s]_vars

(* A timezone change keeps the local date every scheduled chore shows,     *)
(* unless that slot is one the chore was already completed for.            *)
ZoneChangeKeepsDates ==
  [][timezone' # timezone =>
       \A r \in rows, s \in rows' :
         r.id = s.id /\ Reanchors(r) =>
           \/ LocalDate(s.slot, timezone') = LocalDate(r.slot, timezone)
           \/ \E d \in DoneOf(rows, r.chore) :
                LocalDate(d.slot, timezone') = LocalDate(r.slot, timezone)]_vars

(* A closure of a scheduled chore recorded for now leaves it due on a      *)
(* later day than today, so missed occurrences are not backfilled.         *)
NothingLeftDueToday ==
  [][\A r \in rows, s, o \in rows' :
       /\ r.id = s.id /\ r.status = "open" /\ s.status = "done"
       /\ s.at = now'
       /\ o.chore = s.chore /\ o.status = "open" /\ ~Unscheduled(s.chore)
       => LocalDate(o.slot, timezone) > LocalDate(now', timezone)]_vars

(* A backdated closure is on time in its own snapshot zone, and the chore  *)
(* advances to the very next slot it has not been closed for, so a backlog *)
(* is walked one completion at a time.                                     *)
BackdateWalksBacklog ==
  [][\A r \in rows, s, o \in rows' :
       /\ r.id = s.id /\ r.status = "open" /\ s.status = "done"
       /\ s.at < now'
       /\ o.chore = s.chore /\ o.status = "open"
       => /\ DaysLate(s.slot, s.at, s.zone) = 0
          /\ o.slot = FreeSlotFrom(
                         NextSlotAfter(Wall(s.slot, s.zone), chore[s.chore].rule),
                         TakenSlots(rows', s.chore), chore[s.chore].rule, s.zone)]_vars

(* The instant Python names as the start of the slot's own local day.      *)
AtLocalMidnight(slot) == slot = ToInstant(DAY * LocalDate(slot, timezone), timezone)

(* docs/architecture/timezones.md:9: scheduled_for is local midnight of    *)
(* the day the chore is due, in its household's zone.                      *)
OpenSlotIsLocalMidnight ==
  \A c \in ChoreIds : \A o \in OpenOf(rows, c) :
    Live(c) /\ ~Unscheduled(c) => AtLocalMidnight(o.slot)

(* From open slots that all read 00:00, every request but an undo goes to  *)
(* open slots at the start of their local day: closures over a change of   *)
(* the clocks, edits to and from on demand, changes of zone.  (A day whose *)
(* midnight the clocks skip starts at 01:00, and what follows it does not  *)
(* get back to 00:00, against app/core/chores.py:177-179.)                 *)
ReadsMidnight(r) == TimeOf(Wall(r.slot, timezone)) = 0

MidnightIsKept ==
  [][/\ \A c \in ChoreIds : \A o \in OpenOf(rows, c) :
          Live(c) /\ ~Unscheduled(c) => ReadsMidnight(o)
     /\ ~UndoStep
     => OpenSlotIsLocalMidnight']_vars

(* app/api/v1/chores.py:801-804: a row left on the old grid is re-seeded   *)
(* by the next edit of its chore.                                          *)
EditRestoresMidnight ==
  [][\A u \in Users, c \in ChoreIds, p \in Payloads :
       Update(u, c, p) /\ p.start # NoDate =>
         \A o \in OpenOf(rows', c) : AtLocalMidnight(o.slot)]_vars

-----------------------------------------------------------------------------
(* Turn taking, while nobody edits the chore or undoes a closure.          *)

RotationNext == CreateStep \/ CompleteStep \/ SkipStep

RotationSpec == Init /\ [][RotationNext]_vars

(* The completions of c made while u was on the hook.                      *)
HeldBy(c, u) == Cardinality({r \in Completions(rows, c) : r.assignee = u})

(* Alphabetical turns are even: no member of the pool has held the chore   *)
(* for more than one turn above another, however many skips came between.  *)
AlphabeticalTurnsAreEven ==
  \A c \in ChoreIds :
    chore[c].strategy = "alphabetical" =>
      \A u, v \in chore[c].pool : HeldBy(c, u) <= HeldBy(c, v) + chore[c].turn

(* Under least_done whoever is on the hook is behind or level, but for the *)
(* completions of the turn being held, whoever the credit went to.         *)
LeastDoneIsBehind ==
  \A c \in ChoreIds :
    chore[c].strategy = "least_done" =>
      \A o \in OpenOf(rows, c) : o.assignee # NoUser =>
        \A v \in chore[c].pool :
          Tally(rows, c)[o.assignee] <= Tally(rows, c)[v] + chore[c].turn - 1

(* A chore whose turn ended stays with the same member only when they are  *)
(* strictly behind everybody else, and never under random (issue #58).     *)
LevelTurnIsHandedOn ==
  [][\A c \in ChoreIds, o \in rows, s, n \in rows' :
       /\ o.chore = c /\ o.status = "open" /\ s.id = o.id
       /\ s.status = "done" /\ ~s.skipped
       /\ n.chore = c /\ n.status = "open"
       /\ Cardinality(Completions(rows', c)) % chore[c].turn = 0
       /\ n.assignee = o.assignee /\ o.assignee # NoUser
       => \A v \in chore[c].pool \ {o.assignee} :
            /\ chore[c].strategy = "least_done"
            /\ Tally(rows', c)[o.assignee] < Tally(rows', c)[v]]_vars
=============================================================================
