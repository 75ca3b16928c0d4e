--------------------------- MODULE OccurrenceRaces --------------------------
(***************************************************************************)
(* The requests of Chores again, for one scheduled chore, cut at their SQL *)
(* statements and run side by side under READ COMMITTED: a statement sees  *)
(* what is committed when it starts, a locking SELECT waits for the row    *)
(* and re-reads it, an UPDATE or DELETE by primary key applies to whatever *)
(* the row has become, and the unique constraints are checked at commit.   *)
(*                                                                         *)
(* A slot is a day and the timezone whose midnight it is; "off" is an      *)
(* instant that is no zone's midnight.  Assignees are left out: they take  *)
(* no part in a race.  What a request writes is applied at its commit, for *)
(* none reads what it wrote; only the lock of an undo's flushed DELETE is  *)
(* felt before.  A sequence value lost to a rollback leaves a gap in the   *)
(* ids, which orders nothing, and is not modelled.                         *)
(***************************************************************************)
EXTENDS Integers, FiniteSets

CONSTANTS
  Sessions,      \* database sessions, one request at a time each
  Kinds,         \* the requests in play: "close", "undo", "edit", "zone"
  Zones,         \* timezone names
  MaxDay,        \* last day a slot may fall on
  MaxRows,       \* bound on occurrence ids
  MaxRequests    \* bound on the requests started

EditMoves == 2    \* how many days an edit may move the open slot

(* A request inserts at most one row and puts a slot at most EditMoves     *)
(* days past the last, so these bounds never refuse anything.              *)
ASSUME BoundAssumption ==
  /\ MaxRequests \in Nat /\ MaxDay \in Nat /\ MaxRows \in Nat
  /\ MaxDay >= EditMoves * MaxRequests /\ MaxRows > MaxRequests

ASSUME ZoneAssumption == Zones # {} /\ "off" \notin Zones /\ "null" \notin Zones

VARIABLES
  table,         \* chore_occurrences: the committed row of each id
  nextId,        \* the primary-key sequence
  timezone,      \* households.timezone, committed
  sess,          \* what each session has read so far, and where it stands
  started,       \* requests started, for the bound
  closures       \* closures answered 201

vars == <<table, nextId, timezone, sess, started, closures>>

Ids == 1..MaxRows
None == 0
Grids == Zones \cup {"off"}
Slot == [day : 0..MaxDay, grid : Grids]

(* "absent" stands for an id without a row.  A row carries the zone it was *)
(* closed in for as long as it is done.                                    *)
Row == [status : {"absent"}, slot : Slot, zone : Zones \cup {"null"}]
         \cup [status : {"open"}, slot : Slot, zone : {"null"}]
         \cup [status : {"done"}, slot : Slot, zone : Zones]

Places == {"idle",
           "found", "locked", "zoned",              \* close
           "reading", "latest", "older", "chosen", "dropped",  \* undo
           "edited",                                \* edit
           "loaded", "moving", "scanned", "anchored"}          \* zone

Session == [at : Places, id : Ids \cup {None}, other : Ids \cup {None},
            slot : Slot, old : Zones, new : Zones]

(* Rows and sessions stay well formed; an open row never keeps the zone of *)
(* a closure undone, nor a done row lacks one, whatever the interleaving.  *)
TypeOK ==
  /\ table \in [Ids -> Row]
  /\ nextId \in 1..(MaxRows + 1)
  /\ timezone \in Zones
  /\ sess \in [Sessions -> Session]
  /\ started \in 0..MaxRequests
  /\ closures \in 0..MaxRequests

-----------------------------------------------------------------------------
(* Queries over a table T                                                  *)

Present(T) == {i \in Ids : T[i].status # "absent"}
OpenIds(T) == {i \in Ids : T[i].status = "open"}
DoneIds(T) == {i \in Ids : T[i].status = "done"}

(* The one row of an unlocked SELECT of the open occurrence, or NULL.      *)
OpenId(T) == IF OpenIds(T) = {} THEN None ELSE CHOOSE i \in OpenIds(T) : TRUE

LatestDone(T) ==
  IF DoneIds(T) = {} THEN None
  ELSE CHOOSE i \in DoneIds(T) : \A j \in DoneIds(T) : j <= i

SlotsUnique(T) == \A i, j \in Present(T) : T[i].slot = T[j].slot => i = j

(* Variant: uq_open_occurrence_per_chore dropped.                          *)
ConstraintsHold_SlotOnly(T) == SlotsUnique(T)

(* uq_occurrence_chore_scheduled and uq_open_occurrence_per_chore.         *)
ConstraintsHold(T) == SlotsUnique(T) /\ Cardinality(OpenIds(T)) <= 1

(* next_slot_after and free_slot_from on a daily rule: the reading of the  *)
(* slot, and so its grid, is carried along.                                *)
FreeDays(T, day, grid) ==
  {d \in day..MaxDay : \A i \in DoneIds(T) : T[i].slot # [day |-> d, grid |-> grid]}

Free(T, day, grid) ==
  [day |-> CHOOSE d \in FreeDays(T, day, grid) :
             \A e \in FreeDays(T, day, grid) : d <= e,
   grid |-> grid]

(* The revive branch of _reconcile_open_occurrence: the slot after the last *)
(* one done, or the first occurrence, inserted without free_slot_from.     *)
RevivedSlots(T, zone) ==
  IF DoneIds(T) = {} THEN {[day |-> 0, grid |-> zone]}
  ELSE {[day |-> T[i].slot.day + 1, grid |-> T[i].slot.grid] :
          i \in {d \in DoneIds(T) : \A e \in DoneIds(T) : T[e].slot.day <= T[d].slot.day}}

OpenRow(slot) == [status |-> "open", slot |-> slot, zone |-> "null"]

AnyZone == CHOOSE z \in Zones : TRUE

(* A session between requests.                                             *)
Blank == [at |-> "idle", id |-> None, other |-> None,
          slot |-> [day |-> 0, grid |-> "off"], old |-> AnyZone, new |-> AnyZone]

(* Row locks last from the locking SELECT, or the flushed DELETE, to the   *)
(* end of the transaction.                                                 *)
LocksRow(s, i) ==
  /\ table[i].status # "absent"
  /\ \/ sess[s].id = i /\ sess[s].at \in {"locked", "zoned", "anchored"}
     \/ sess[s].other = i /\ sess[s].at = "dropped"

(* The lock an UPDATE of the households row holds.                         *)
LocksHousehold(s) == sess[s].at \in {"moving", "scanned", "anchored"}

(* The lock an UPDATE of the chores row holds.                             *)
LocksChore(s) == sess[s].at = "edited"

RowHolders(i) == IF i = None THEN {} ELSE {t \in Sessions : LocksRow(t, i)}

(* A second open row is neither refused nor let in while the first is      *)
(* being deleted: the unique index waits to see.                           *)
IndexHolders == {t \in Sessions : \E i \in OpenIds(table) :
                   sess[t].at = "dropped" /\ sess[t].other = i}

(* Variant: a closure reads the zone with a lock on the households row.    *)
NeedsHousehold_LockingRead(s) == sess[s].at \in {"loaded", "locked"}

(* The UPDATE of a timezone change waits for the households row; a closure *)
(* that has locked its occurrence reads the zone in a plain select.        *)
NeedsHousehold(s) == sess[s].at = "loaded"

(* The sessions that hold what the next statement of s needs.              *)
Waits(s) ==
  (CASE sess[s].at \in {"found", "older", "scanned"} -> RowHolders(sess[s].id)
     [] sess[s].at = "chosen"  -> RowHolders(sess[s].other)
     [] sess[s].at = "zoned"   -> IndexHolders
     [] sess[s].at = "dropped" -> RowHolders(sess[s].id) \cup IndexHolders
     [] sess[s].at = "edited"  -> IF sess[s].id = None THEN IndexHolders
                                  ELSE RowHolders(sess[s].id)
     [] NeedsHousehold(s)      -> {t \in Sessions : LocksHousehold(t)}
     [] OTHER                  -> {}) \ {s}

Granted(s) == Waits(s) = {}

(* Sessions that wait for each other, with nobody to spare among them.     *)
Stuck(S) == S # {} /\ \A s \in S : Waits(s) \cap S # {}

Circles == {S \in SUBSET Sessions : Stuck(S) /\ \A T \in SUBSET S : Stuck(T) => T = S}

-----------------------------------------------------------------------------
Init ==
  /\ timezone \in Zones
  /\ table = [i \in Ids |->
                IF i = 1 THEN OpenRow([day |-> 0, grid |-> timezone])
                ELSE [OpenRow([day |-> 0, grid |-> timezone]) EXCEPT !.status = "absent"]]
  /\ nextId = 2
  /\ sess = [s \in Sessions |-> Blank]
  /\ started = 0
  /\ closures = 0

(* s moves on to place `to`, remembering what it read.                     *)
Goes(s, reads) == sess' = [sess EXCEPT ![s] = reads]

Begins(s, kind) ==
  /\ kind \in Kinds
  /\ sess[s].at = "idle"
  /\ started < MaxRequests
  /\ started' = started + 1

(* The response is sent; nothing of the session outlives it.               *)
Ends(s) == Goes(s, Blank)

(* Commit T if the constraints allow, else roll back (409 or 500).         *)
Commits(s, T, id) ==
  /\ IF ConstraintsHold(T) THEN table' = T /\ nextId' = id
                           ELSE UNCHANGED <<table, nextId>>
  /\ Ends(s)

-----------------------------------------------------------------------------
(* POST /chores/{id}/complete or /skip                                     *)

(* _open_occurrence, a plain select; with no open row the answer is a 409. *)
CloseFind(s) ==
  /\ Begins(s, "close")
  /\ OpenId(table) # None
  /\ Goes(s, [Blank EXCEPT !.at = "found", !.id = OpenId(table),
                           !.slot = table[OpenId(table)].slot])
  /\ UNCHANGED <<table, nextId, timezone, closures>>

(* Variant: the row is locked but the slot read before is kept.            *)
CloseLock_KeepsRead(s) ==
  /\ sess[s].at = "found"
  /\ Granted(s)
  /\ IF table[sess[s].id].status = "absent" THEN Ends(s)
     ELSE Goes(s, [sess[s] EXCEPT !.at = "locked"])
  /\ UNCHANGED <<table, nextId, timezone, started, closures>>

(* session.refresh(occ, with_for_update=True): waits, then re-reads.  A    *)
(* row deleted meanwhile is an error.                                      *)
CloseLock(s) ==
  /\ sess[s].at = "found"
  /\ Granted(s)
  /\ IF table[sess[s].id].status = "absent" THEN Ends(s)
     ELSE Goes(s, [sess[s] EXCEPT !.at = "locked", !.slot = table[sess[s].id].slot])
  /\ UNCHANGED <<table, nextId, timezone, started, closures>>

(* The zone's own select, a plain one.                                     *)
CloseReadZone(s) ==
  /\ sess[s].at = "locked"
  /\ Granted(s)
  /\ Goes(s, [sess[s] EXCEPT !.at = "zoned", !.new = timezone])
  /\ UNCHANGED <<table, nextId, timezone, started, closures>>

(* The row is flipped first, then the successor inserted; nothing looks at *)
(* the status the refresh brought, so a lost race is for the constraints.  *)
CloseCommit(s) ==
  LET i      == sess[s].id
      closed == [table EXCEPT ![i].status = "done", ![i].zone = sess[s].new]
  IN  /\ sess[s].at = "zoned"
      /\ Granted(s)
      /\ LET after == [closed EXCEPT ![nextId] =
                         OpenRow(Free(closed, sess[s].slot.day + 1, sess[s].slot.grid))]
         IN  /\ Commits(s, after, nextId + 1)
             /\ closures' = IF ConstraintsHold(after) THEN closures + 1 ELSE closures
      /\ UNCHANGED <<timezone, started>>

-----------------------------------------------------------------------------
(* DELETE /completions/{id}                                                *)

(* The closure is looked up among the done rows.                           *)
UndoFind(s) ==
  /\ Begins(s, "undo")
  /\ \E i \in DoneIds(table) : Goes(s, [Blank EXCEPT !.at = "reading", !.id = i])
  /\ UNCHANGED <<table, nextId, timezone, closures>>

(* latest_done_id, a statement of its own.                                 *)
UndoReadLatest(s) ==
  /\ sess[s].at = "reading"
  /\ Goes(s, [sess[s] EXCEPT
                !.at = IF sess[s].id = LatestDone(table) THEN "latest" ELSE "older"])
  /\ UNCHANGED <<table, nextId, timezone, started, closures>>

(* The successor to delete, a third.                                       *)
UndoReadSuccessor(s) ==
  /\ sess[s].at = "latest"
  /\ Goes(s, [sess[s] EXCEPT !.at = "chosen", !.other = OpenId(table)])
  /\ UNCHANGED <<table, nextId, timezone, started, closures>>

(* The successor is deleted and flushed.  When the "successor" read is the *)
(* closure itself, reopened by somebody else, the ORM holds one object for *)
(* both and the delete is what remains.                                    *)
UndoDropSuccessor(s) ==
  /\ sess[s].at = "chosen"
  /\ Granted(s)
  /\ IF sess[s].other = sess[s].id
     THEN Commits(s, [table EXCEPT ![sess[s].id].status = "absent"], nextId)
     ELSE Goes(s, [sess[s] EXCEPT !.at = "dropped"]) /\ UNCHANGED <<table, nextId>>
  /\ UNCHANGED <<timezone, started, closures>>

WithoutOther(s) ==
  IF sess[s].other = None THEN table
  ELSE [table EXCEPT ![sess[s].other].status = "absent"]
(* The row is flipped back.  Updating one that is gone is an error, though *)
(* deleting one is not.                                                    *)
UndoReopen(s) ==
  LET i == sess[s].id
  IN  /\ sess[s].at = "dropped"
      /\ Granted(s)
      /\ IF table[i].status = "absent" THEN Ends(s) /\ UNCHANGED <<table, nextId>>
         ELSE Commits(s, [WithoutOther(s) EXCEPT ![i].status = "open", ![i].zone = "null"],
                      nextId)
      /\ UNCHANGED <<timezone, started, closures>>

(* An older closure is deleted by its id, whatever the row has become.     *)
UndoDelete(s) ==
  /\ sess[s].at = "older"
  /\ Granted(s)
  /\ Commits(s, [table EXCEPT ![sess[s].id].status = "absent"], nextId)
  /\ UNCHANGED <<timezone, started, closures>>

-----------------------------------------------------------------------------
(* PATCH /chores/{id}, for an edit whose weekdays move the open slot on by *)
(* a day or two                                                            *)

(* The chores row is written, then _reconcile_open_occurrence reads.       *)
EditRead(s) ==
  /\ Begins(s, "edit")
  /\ \A t \in Sessions : ~LocksChore(t)
  /\ LET o == OpenId(table)
     IN  \E slot \in IF o = None THEN RevivedSlots(table, timezone)
                     ELSE {Free(table, table[o].slot.day + days, table[o].slot.grid) :
                             days \in 1..EditMoves} :
           Goes(s, [Blank EXCEPT !.at = "edited", !.id = o, !.slot = slot])
  /\ UNCHANGED <<table, nextId, timezone, closures>>

(* The open row is re-dated by its id; with none, one is inserted.         *)
EditCommit(s) ==
  LET i == sess[s].id
  IN  /\ sess[s].at = "edited"
      /\ Granted(s)
      /\ IF i = None
         THEN Commits(s, [table EXCEPT ![nextId] = OpenRow(sess[s].slot)], nextId + 1)
         ELSE IF table[i].status = "absent" THEN Ends(s) /\ UNCHANGED <<table, nextId>>
         ELSE Commits(s, [table EXCEPT ![i].slot = sess[s].slot], nextId)
      /\ UNCHANGED <<timezone, started, closures>>

-----------------------------------------------------------------------------
(* PATCH /households/{id} with a timezone, the owner's or an admin's       *)

(* The household is loaded: a plain select.                                *)
ZoneFind(s) ==
  /\ Begins(s, "zone")
  /\ \E z \in Zones \ {timezone} :
       Goes(s, [Blank EXCEPT !.at = "loaded", !.old = timezone, !.new = z])
  /\ UNCHANGED <<table, nextId, timezone, closures>>

(* The autoflushed UPDATE of the household, behind whoever holds its row.  *)
ZoneWrite(s) ==
  /\ sess[s].at = "loaded"
  /\ Granted(s)
  /\ Goes(s, [sess[s] EXCEPT !.at = "moving"])
  /\ UNCHANGED <<table, nextId, timezone, started, closures>>

(* reanchor_open_occurrences' locking select starts: what is open now is   *)
(* all it will ever look at.                                               *)
ZoneScan(s) ==
  /\ sess[s].at = "moving"
  /\ Goes(s, [sess[s] EXCEPT !.at = "scanned", !.id = OpenId(table)])
  /\ UNCHANGED <<table, nextId, timezone, started, closures>>
(* It waits for the row and keeps it only if it is open still.             *)
ZoneLock(s) ==
  LET i == sess[s].id
  IN  /\ sess[s].at = "scanned"
      /\ Granted(s)
      /\ IF i # None /\ table[i].status = "open"
         THEN Goes(s, [sess[s] EXCEPT !.at = "anchored", !.slot = table[i].slot])
         ELSE Goes(s, [sess[s] EXCEPT !.at = "anchored", !.id = None])
      /\ UNCHANGED <<table, nextId, timezone, started, closures>>

(* The slot's reading in the zone loaded at the start, said in the new one *)
(* and walked off the slots done.                                          *)
Reanchored(slot, old, new) ==
  Free(table, slot.day, IF slot.grid = old THEN new ELSE "off")

ZoneCommit(s) ==
  LET i     == sess[s].id
      after == IF i = None THEN table
               ELSE [table EXCEPT
                       ![i].slot = Reanchored(sess[s].slot, sess[s].old, sess[s].new)]
  IN  /\ sess[s].at = "anchored"
      /\ timezone' = IF ConstraintsHold(after) THEN sess[s].new ELSE timezone
      /\ Commits(s, after, nextId)
      /\ UNCHANGED <<started, closures>>

-----------------------------------------------------------------------------
(* PostgreSQL breaks a circle of waits by aborting one of its requests,    *)
(* which answers 500.                                                      *)
DeadlockAbort(s) ==
  /\ \E S \in Circles : s \in S
  /\ Ends(s)
  /\ UNCHANGED <<table, nextId, timezone, started, closures>>

Begin(s) == CloseFind(s) \/ UndoFind(s) \/ EditRead(s) \/ ZoneFind(s)

Continue(s) ==
  \/ CloseLock(s) \/ CloseReadZone(s) \/ CloseCommit(s)
  \/ UndoReadLatest(s) \/ UndoReadSuccessor(s)
  \/ UndoDropSuccessor(s) \/ UndoReopen(s) \/ UndoDelete(s)
  \/ EditCommit(s)
  \/ ZoneWrite(s) \/ ZoneScan(s) \/ ZoneLock(s) \/ ZoneCommit(s)

Next == \E s \in Sessions : Begin(s) \/ Continue(s) \/ DeadlockAbort(s)

Spec == Init /\ [][Next]_vars

(* The server goes on with every request it took up, and PostgreSQL grants *)
(* a lock once it is free.  Nobody has to send another request, and nobody *)
(* counts on deadlocks being detected.                                     *)
FairSpec == Spec /\ \A s \in Sessions : WF_vars(Continue(s))

-----------------------------------------------------------------------------
(* What holds whatever the interleaving                                    *)

(* A success is a closure: two requests that race to close one occurrence  *)
(* are never both answered 201 (app/api/v1/chores.py:876-884).             *)
EachSuccessIsOneClosure == Cardinality(DoneIds(table)) = closures
(* Every closure, edit and timezone change taken up is answered without a  *)
(* deadlock to break: all lock the household or the chore before the row.  *)
RequestsFinish == \A s \in Sessions : (sess[s].at # "idle") ~> (sess[s].at = "idle")

(* An undo alone takes its locks in the order of its own: every deadlock   *)
(* has one in it that has dropped the successor and waits for its closure. *)
DeadlockNeedsUndo == \A S \in Circles : \E s \in S : sess[s].at = "dropped"

(* Closures and timezone changes, however they interleave, look to the     *)
(* chore like closures and re-datings made one at a time.                  *)
Chain == INSTANCE OccurrenceChain
           WITH open <- table[OpenId(table)].slot,
                history <- {table[i].slot : i \in DoneIds(table)}

ImplementsChain == Chain!Spec

-----------------------------------------------------------------------------
(* What the repository says and the races refute                           *)

(* docs/architecture/chores.md:24: every live chore has exactly one open   *)
(* occurrence.                                                             *)
AlwaysOneOpen == Cardinality(OpenIds(table)) = 1

(* app/api/v1/completions.py:300-303: the ids left behind by an undo stay  *)
(* in chain order, so the open row is younger than every closure.          *)
OpenRowIsYoungest == \A o \in OpenIds(table), d \in DoneIds(table) : d < o

(* docs/architecture/timezones.md: read in its snapshot, the lateness of a *)
(* closure is immutable; so the slot it is measured from must not move.    *)
ClosedSlotsStand ==
  [][\A i \in DoneIds(table) \cap DoneIds(table') : table'[i].slot = table[i].slot]_vars

(* docs/architecture/timezones.md:9: scheduled_for is local midnight in    *)
(* the household's zone, outside the commit of a change of it.             *)
OpenSlotOnHouseholdGrid == \A i \in OpenIds(table) : table[i].slot.grid = timezone
=============================================================================
