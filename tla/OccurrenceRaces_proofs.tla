---------------------- MODULE OccurrenceRaces_proofs ------------------------
(***************************************************************************)
(* What OccurrenceRaces promises for any number of sessions, any zones and *)
(* every bound: first for every mix of requests, then without undo, then   *)
(* for closures and timezone changes alone, which implement                *)
(* OccurrenceChain.                                                        *)
(***************************************************************************)
EXTENDS OccurrenceRaces, FiniteSetTheorems, WellFoundedInduction, TLAPS

-----------------------------------------------------------------------------
(* The least of a set of numbers                                           *)

LEMMA LeastExists ==
  ASSUME NEW S \in SUBSET Nat, S # {} PROVE \E x \in S : \A y \in S : x <= y
<1>1. PICK x \in S : \A y \in S : ~(<<y, x>> \in OpToRel(<, Nat))
  BY NatLessThanWellFounded, WFMin, Zenon
<1>2. \A y \in S : ~(y < x)
  BY <1>1 DEF OpToRel
<1> QED BY <1>2

-----------------------------------------------------------------------------
(* Queries over a table                                                    *)

Table == [Ids -> Row]

LEMMA RowFields ==
  ASSUME NEW T \in Table, NEW i \in Ids
  PROVE  /\ T[i] \in Row /\ T[i].slot \in Slot
         /\ T[i].slot.day \in 0..MaxDay /\ T[i].slot.grid \in Grids
         /\ T[i].status \in {"absent", "open", "done"}
<1>1. T[i] \in Row
  BY DEF Table
<1>2. \A r \in Row : r.slot \in Slot /\ r.status \in {"absent", "open", "done"}
  BY DEF Row
<1>3. \A s \in Slot : s.day \in 0..MaxDay /\ s.grid \in Grids
  BY DEF Slot
<1> QED BY <1>1, <1>2, <1>3

LEMMA OpenIdType ==
  ASSUME NEW T
  PROVE  /\ OpenId(T) \in Ids \cup {None}
         /\ OpenId(T) # None => OpenId(T) \in OpenIds(T)
         /\ \A o \in Ids : OpenIds(T) = {o} => OpenId(T) = o
<1>1. OpenIds(T) # {} => OpenId(T) \in OpenIds(T)
  BY DEF OpenId
<1>2. OpenIds(T) \subseteq Ids
  BY DEF OpenIds
<1>3. OpenIds(T) = {} => OpenId(T) = None
  BY DEF OpenId
<1> QED BY <1>1, <1>2, <1>3

(* free_slot_from is at or after the day asked for, on the grid asked for, *)
(* taken by no closure, and no later than the day after the last closure;  *)
(* past every closure it is the very day asked for.                        *)
LEMMA FreeFacts ==
  ASSUME NEW T \in Table, NEW day \in Nat, NEW grid, NEW last \in Nat,
         \A i \in DoneIds(T) : T[i].slot.day < last,
         day <= MaxDay, last <= MaxDay
  PROVE  /\ Free(T, day, grid).grid = grid
         /\ Free(T, day, grid).day \in day..MaxDay
         /\ Free(T, day, grid).day <= day \/ Free(T, day, grid).day <= last
         /\ last <= day => Free(T, day, grid) = [day |-> day, grid |-> grid]
<1> DEFINE S == FreeDays(T, day, grid)
           c == IF last <= day THEN day ELSE last
           d == CHOOSE x \in S : \A e \in S : x <= e
<1>1. MaxDay \in Nat /\ c \in day..MaxDay /\ S \subseteq day..MaxDay
  BY BoundAssumption DEF FreeDays
<1>2. c \in S
  <2>1. \A i \in DoneIds(T) : T[i].slot # [day |-> c, grid |-> grid]
    <3> SUFFICES ASSUME NEW i \in DoneIds(T), T[i].slot = [day |-> c, grid |-> grid] PROVE FALSE
      OBVIOUS
    <3>1. T[i].slot.day = c /\ T[i].slot.day < last
      OBVIOUS
    <3> QED BY <1>1, <3>1
  <2> QED BY <1>1, <2>1 DEF FreeDays
<1>3. d \in S /\ \A e \in S : d <= e
  <2> HIDE DEF S
  <2>1. S \in SUBSET Nat /\ S # {}
    BY <1>1, <1>2
  <2>2. \E x \in S : \A e \in S : x <= e
    BY <2>1, LeastExists
  <2> QED BY <2>2
<1>4. Free(T, day, grid) = [day |-> d, grid |-> grid]
  BY DEF Free
<1>5. d \in day..MaxDay /\ d <= c
  BY <1>1, <1>2, <1>3
<1> HIDE DEF d
<1>6. last <= day => d = day
  BY <1>1, <1>5
<1> QED BY <1>1, <1>4, <1>5, <1>6

-----------------------------------------------------------------------------
(* Every mix of requests: the bounds refuse nothing                        *)

(* The requests being served, and how many have been answered.             *)
Active == {s \in Sessions : sess[s].at # "idle"}

Answered == started - Cardinality(Active)

Reach(at) == EditMoves * Answered + IF at = "edited" THEN EditMoves ELSE 0

(* A request answered has inserted one row, closed one occurrence and moved*)
(* a slot EditMoves days past the last, at most; an edit has read its slot *)
(* before it is answered.                                                  *)
Within ==
  /\ IsFiniteSet(Active)
  /\ nextId <= Answered + 2
  /\ closures <= Answered
  /\ \A i \in Ids : table[i].slot.day <= EditMoves * Answered
  /\ \A s \in Sessions : sess[s].slot.day <= Reach(sess[s].at)

(* A closure goes on with the row it found.                                *)
Found == \A s \in Sessions : sess[s].at = "found" => sess[s].id \in Ids

IInv == TypeOK /\ Within /\ Found

LEMMA SessionFields ==
  ASSUME TypeOK, NEW s \in Sessions
  PROVE  /\ sess[s] \in Session /\ sess[s].slot \in Slot
         /\ sess[s].slot.day \in 0..MaxDay /\ sess[s].slot.grid \in Grids
         /\ sess[s].id \in Ids \cup {None} /\ sess[s].other \in Ids \cup {None}
         /\ sess[s].old \in Zones /\ sess[s].new \in Zones
<1>1. sess[s] \in Session
  BY DEF TypeOK
<1>2. \A q \in Session : /\ q.slot \in Slot /\ q.id \in Ids \cup {None}
                         /\ q.other \in Ids \cup {None} /\ q.old \in Zones /\ q.new \in Zones
  BY DEF Session
<1>3. \A x \in Slot : x.day \in 0..MaxDay /\ x.grid \in Grids
  BY DEF Slot
<1> QED BY <1>1, <1>2, <1>3

LEMMA BlankType ==
  Blank \in Session /\ Blank.at = "idle" /\ Blank.slot.day = 0 /\ Blank.slot \in Slot
<1>1. AnyZone \in Zones
  BY ZoneAssumption DEF AnyZone
<1> QED BY <1>1, BoundAssumption DEF Blank, Session, Places, Slot, Grids, Ids

LEMMA BoundsAtHand ==
  ASSUME IInv
  PROVE  /\ Answered \in Nat /\ Cardinality(Active) \in Nat /\ started \in Nat
         /\ Answered <= MaxRequests /\ EditMoves * Answered <= MaxDay /\ MaxDay \in Nat
         /\ table \in Table
         /\ \A s \in Active : /\ Answered + 1 <= MaxRequests /\ nextId \in Ids
                              /\ EditMoves * (Answered + 1) <= MaxDay
<1>1. /\ started \in 0..MaxRequests /\ closures \in 0..MaxRequests /\ nextId \in 1..(MaxRows + 1)
      /\ closures <= Answered /\ nextId <= Answered + 2
  BY DEF IInv, TypeOK, Within
<1>2. Cardinality(Active) \in Nat
  BY FS_CardinalityType DEF IInv, Within
<1>3. Answered \in Nat /\ Answered <= started
  BY <1>1, <1>2 DEF Answered
<1>4. \A s \in Active : Cardinality(Active) >= 1
  BY <1>2, FS_EmptySet DEF IInv, Within
<1>5. \A s \in Active : Answered + 1 <= started
  BY <1>1, <1>2, <1>4 DEF Answered
<1>6. table \in Table
  BY DEF IInv, TypeOK, Table
<1> QED BY <1>1, <1>2, <1>3, <1>5, <1>6, BoundAssumption DEF EditMoves, Ids

LEMMA ActiveBegins ==
  ASSUME IInv, NEW s \in Sessions, NEW kind, Begins(s, kind), NEW q \in Session,
         q.at # "idle", Goes(s, q)
  PROVE  IsFiniteSet(Active') /\ Answered' = Answered
<1>1. Active' = Active \cup {s} /\ s \notin Active
  BY DEF Active, Begins, Goes, IInv, TypeOK
<1>2. IsFiniteSet(Active') /\ Cardinality(Active') = Cardinality(Active) + 1
  BY <1>1, FS_AddElement DEF IInv, Within
<1>3. started' = started + 1
  BY DEF Begins
<1> QED BY <1>2, <1>3, BoundsAtHand DEF Answered

LEMMA ActiveGoes ==
  ASSUME IInv, NEW s \in Active, NEW q \in Session, q.at # "idle", Goes(s, q),
         UNCHANGED started
  PROVE  IsFiniteSet(Active') /\ Answered' = Answered
<1>1. Active' = Active
  BY DEF Active, Goes, IInv, TypeOK
<1> QED BY <1>1 DEF IInv, Within, Answered

LEMMA ActiveEnds ==
  ASSUME IInv, NEW s \in Active, Ends(s), UNCHANGED started
  PROVE  IsFiniteSet(Active') /\ Answered' = Answered + 1
<1>1. Active' = Active \ {s}
  BY BlankType DEF Active, Ends, Goes, IInv, TypeOK
<1>2. IsFiniteSet(Active') /\ Cardinality(Active') = Cardinality(Active) - 1
  BY <1>1, FS_RemoveElement DEF IInv, Within
<1> QED BY <1>2, BoundsAtHand DEF Answered

(* A request begins, or goes on, having written nothing yet.               *)
LEMMA GoesKeeps ==
  ASSUME IInv, NEW s \in Sessions, NEW q \in Session, Goes(s, q),
         IsFiniteSet(Active'), Answered' = Answered, started' \in 0..MaxRequests,
         UNCHANGED <<table, nextId, timezone, closures>>,
         q.slot.day <= Reach(q.at), q.at = "found" => q.id \in Ids
  PROVE  IInv'
<1>1. sess \in [Sessions -> Session] /\ sess' = [sess EXCEPT ![s] = q]
  BY DEF IInv, TypeOK, Goes
<1>2. TypeOK'
  BY <1>1 DEF IInv, TypeOK
<1>3. \A t \in Sessions : sess'[t] = IF t = s THEN q ELSE sess[t]
  BY <1>1
<1>4. \A t \in Sessions : sess'[t].slot.day <= Reach(sess[t].at)'
  BY <1>3 DEF IInv, Within, Reach
<1>5. Found'
  BY <1>3 DEF IInv, Found
<1> QED BY <1>2, <1>4, <1>5 DEF IInv, Within

LEMMA BeginKeeps ==
  ASSUME IInv, NEW s \in Sessions, NEW kind, Begins(s, kind), NEW q \in Session,
         q.at # "idle", Goes(s, q), UNCHANGED <<table, nextId, timezone, closures>>,
         q.slot.day <= Reach(q.at), q.at = "found" => q.id \in Ids
  PROVE  IInv'
<1>1. started' \in 0..MaxRequests
  BY BoundAssumption DEF Begins, IInv, TypeOK
<1> QED BY <1>1, ActiveBegins, GoesKeeps

LEMMA ContinueKeeps ==
  ASSUME IInv, NEW s \in Active, NEW q \in Session, q.at # "idle", Goes(s, q),
         UNCHANGED <<table, nextId, timezone, started, closures>>,
         q.slot.day <= Reach(q.at), q.at = "found" => q.id \in Ids
  PROVE  IInv'
<1>1. started' \in 0..MaxRequests /\ s \in Sessions
  BY DEF IInv, TypeOK, Active
<1> QED BY <1>1, ActiveGoes, GoesKeeps

(* A request is answered, having written what one may.                     *)
LEMMA EndsKeeps ==
  ASSUME IInv, NEW s \in Active, Ends(s), UNCHANGED started,
         table' \in Table, \A i \in Ids : table'[i].slot.day <= EditMoves * (Answered + 1),
         nextId' \in {nextId, nextId + 1}, closures' \in {closures, closures + 1},
         timezone' \in Zones
  PROVE  IInv'
<1>1. IsFiniteSet(Active') /\ Answered' = Answered + 1
  BY ActiveEnds
<1>2. /\ Answered \in Nat /\ Answered + 1 <= MaxRequests /\ nextId \in Ids /\ MaxDay \in Nat
      /\ closures \in Nat /\ closures <= Answered /\ nextId <= Answered + 2
  BY BoundsAtHand DEF IInv, TypeOK, Within
<1>3. sess \in [Sessions -> Session] /\ sess' = [sess EXCEPT ![s] = Blank]
  BY DEF IInv, TypeOK, Ends, Goes
<1>4. nextId' \in 1..(MaxRows + 1) /\ nextId' <= Answered + 3
      /\ closures' \in 0..MaxRequests /\ closures' <= Answered + 1
  BY <1>2, BoundAssumption DEF Ids
<1>5. TypeOK'
  BY <1>3, <1>4, BlankType DEF IInv, TypeOK, Table
<1>6. \A t \in Sessions : sess'[t] = IF t = s THEN Blank ELSE sess[t]
  BY <1>3
<1>7. \A t \in Sessions : sess'[t].slot.day <= Reach(sess[t].at)'
  <2> SUFFICES ASSUME NEW t \in Sessions PROVE sess'[t].slot.day <= Reach(sess[t].at)'
    OBVIOUS
  <2>1. CASE t = s
    <3>1. sess'[t] = Blank /\ Blank.slot.day = 0 /\ Blank.at = "idle"
      BY <1>6, <2>1, BlankType
    <3> QED BY <1>1, <1>2, <3>1 DEF Reach, EditMoves
  <2>2. CASE t # s
    <3>1. sess[t].slot.day \in 0..MaxDay /\ sess[t].slot.day <= Reach(sess[t].at) /\ sess'[t] = sess[t]
      BY <1>6, <2>2, SessionFields DEF IInv, Within
    <3> QED BY <1>1, <1>2, <3>1 DEF Reach, EditMoves
  <2> QED BY <2>1, <2>2
<1>8. nextId' <= Answered' + 2 /\ closures' <= Answered'
  BY <1>1, <1>2, <1>4
<1>9. Within'
  BY <1>1, <1>7, <1>8 DEF Within
<1>10. Found'
  BY <1>6, BlankType DEF IInv, Found
<1> QED BY <1>5, <1>9, <1>10 DEF IInv

(* A 4xx or a 500.                                                         *)
LEMMA RefusedKeeps ==
  ASSUME IInv, NEW s \in Active, Ends(s),
         UNCHANGED <<table, nextId, timezone, started, closures>>
  PROVE  IInv'
<1>1. table \in Table /\ Answered \in Nat /\ timezone \in Zones
  BY BoundsAtHand DEF IInv, TypeOK
<1>2. \A i \in Ids : table[i].slot.day <= EditMoves * (Answered + 1)
  <2> SUFFICES ASSUME NEW i \in Ids PROVE table[i].slot.day <= EditMoves * (Answered + 1)
    OBVIOUS
  <2>1. table[i].slot.day \in 0..MaxDay /\ table[i].slot.day <= EditMoves * Answered
    BY <1>1, RowFields DEF IInv, Within
  <2> QED BY <1>1, <2>1, BoundAssumption DEF EditMoves
<1> QED BY <1>1, <1>2, EndsKeeps

LEMMA CommitsKeep ==
  ASSUME IInv, NEW s \in Active, NEW T \in Table, NEW id \in {nextId, nextId + 1},
         \A i \in Ids : T[i].slot.day <= EditMoves * (Answered + 1),
         Commits(s, T, id), UNCHANGED started, timezone' \in Zones,
         IF ConstraintsHold(T) THEN closures' \in {closures, closures + 1}
                               ELSE UNCHANGED <<timezone, closures>>
  PROVE  IInv'
<1>1. CASE ConstraintsHold(T)
  BY <1>1, EndsKeeps DEF Commits
<1>2. CASE ~ConstraintsHold(T)
  BY <1>2, RefusedKeeps DEF Commits
<1> QED BY <1>1, <1>2

LEMMA SlotsAtHand ==
  ASSUME IInv
  PROVE  /\ \A i \in Ids : table[i].slot \in Slot /\ table[i].slot.day \in 0..(EditMoves * Answered)
         /\ \A s \in Sessions :
              /\ sess[s].slot.day \in 0..(EditMoves * (Answered + 1))
              /\ sess[s].at # "edited" => sess[s].slot.day <= EditMoves * Answered
         /\ \A at : at # "edited" => Reach(at) = EditMoves * Answered
         /\ Reach("edited") = EditMoves * (Answered + 1)
<1>1. Answered \in Nat /\ table \in Table /\ MaxDay \in Nat /\ TypeOK
  BY BoundsAtHand DEF IInv
<1>2. \A at : at # "edited" => Reach(at) = EditMoves * Answered
  BY <1>1 DEF Reach, EditMoves
<1>3. Reach("edited") = EditMoves * (Answered + 1)
  BY <1>1 DEF Reach, EditMoves
<1>4. ASSUME NEW i \in Ids
      PROVE  table[i].slot \in Slot /\ table[i].slot.day \in 0..(EditMoves * Answered)
  <2>1. table[i].slot \in Slot /\ table[i].slot.day \in 0..MaxDay
    BY <1>1, RowFields
  <2>2. table[i].slot.day <= EditMoves * Answered
    BY DEF IInv, Within
  <2> QED BY <1>1, <2>1, <2>2 DEF EditMoves
<1>5. ASSUME NEW s \in Sessions
      PROVE  /\ sess[s].slot.day \in 0..(EditMoves * (Answered + 1))
             /\ sess[s].at # "edited" => sess[s].slot.day <= EditMoves * Answered
  <2>1. sess[s].slot.day \in 0..MaxDay
    BY <1>1, SessionFields
  <2>2. sess[s].slot.day <= Reach(sess[s].at)
    BY DEF IInv, Within
  <2>3. CASE sess[s].at = "edited"
    BY <1>1, <1>3, <2>1, <2>2, <2>3 DEF EditMoves
  <2>4. CASE sess[s].at # "edited"
    BY <1>1, <1>2, <2>1, <2>2, <2>4 DEF EditMoves
  <2> QED BY <2>3, <2>4
<1> QED BY <1>2, <1>3, <1>4, <1>5

LEMMA FreeType ==
  ASSUME IInv, NEW T \in Table, NEW day \in Nat, NEW grid \in Grids,
         Answered + 1 <= MaxRequests, day <= EditMoves * (Answered + 1),
         \A i \in Ids : T[i].slot.day <= EditMoves * Answered
  PROVE  /\ Free(T, day, grid) \in Slot
         /\ Free(T, day, grid).day <= EditMoves * (Answered + 1)
<1> DEFINE last == EditMoves * Answered + 1
<1>1. Answered \in Nat /\ MaxDay \in Nat /\ EditMoves * (Answered + 1) <= MaxDay
  BY BoundsAtHand, BoundAssumption DEF EditMoves
<1>2. last \in Nat /\ last <= EditMoves * (Answered + 1) /\ last <= MaxDay /\ day <= MaxDay
  BY <1>1 DEF EditMoves
<1>3. \A i \in DoneIds(T) : T[i].slot.day < last
  <2> SUFFICES ASSUME NEW i \in Ids PROVE T[i].slot.day < last
    BY DEF DoneIds
  <2>1. T[i].slot.day \in 0..MaxDay /\ T[i].slot.day <= EditMoves * Answered
    BY RowFields
  <2> QED BY <1>1, <2>1 DEF EditMoves
<1> HIDE DEF last
<1>4. /\ Free(T, day, grid).grid = grid
      /\ Free(T, day, grid).day \in day..MaxDay
      /\ Free(T, day, grid).day <= day \/ Free(T, day, grid).day <= last
  BY <1>2, <1>3, FreeFacts
<1>5. Free(T, day, grid) = [day |-> Free(T, day, grid).day, grid |-> grid]
  BY DEF Free
<1>6. Free(T, day, grid).day \in 0..MaxDay
  BY <1>1, <1>4
<1>7. Free(T, day, grid) \in Slot
  BY <1>5, <1>6 DEF Slot
<1>8. Free(T, day, grid).day <= EditMoves * (Answered + 1)
  BY <1>1, <1>2, <1>4, <1>6 DEF EditMoves
<1> QED BY <1>7, <1>8

(* What a request may make of a row.                                       *)
LEMMA RowChanges ==
  /\ \A slot \in Slot : OpenRow(slot) \in Row
  /\ \A r \in Row, z \in Zones : [r EXCEPT !.status = "done", !.zone = z] \in Row
  /\ \A r \in Row : [r EXCEPT !.status = "absent"] \in Row
  /\ \A r \in Row : [r EXCEPT !.status = "open", !.zone = "null"] \in Row
  /\ \A r \in Row, slot \in Slot : [r EXCEPT !.slot = slot] \in Row
  BY DEF Row, OpenRow

-----------------------------------------------------------------------------
(* Each request, step by step                                              *)

(* The steps that only read: what is remembered is a slot of the table, or *)
(* was remembered already.                                                 *)
LEMMA ReadKeeps ==
  ASSUME IInv, NEW s \in Sessions, sess[s].at \notin {"idle", "edited"},
         NEW q \in Session, q.at \notin {"idle", "found", "edited"}, Goes(s, q),
         q.slot = sess[s].slot \/ \E i \in Ids : q.slot = table[i].slot,
         UNCHANGED <<table, nextId, timezone, started, closures>>
  PROVE  IInv'
<1>1. s \in Active
  BY DEF Active
<1>2. q.slot.day <= EditMoves * Answered
  BY SlotsAtHand
<1>3. q.slot.day <= Reach(q.at)
  BY <1>2, SlotsAtHand
<1> QED BY <1>1, <1>3, ContinueKeeps

LEMMA CloseFindKeeps ==
  ASSUME IInv, NEW s \in Sessions, CloseFind(s) PROVE IInv'
<1> DEFINE o == OpenId(table)
           q == [Blank EXCEPT !.at = "found", !.id = o, !.slot = table[o].slot]
<1>1. o \in Ids
  BY OpenIdType DEF CloseFind
<1>2. table[o].slot \in Slot /\ table[o].slot.day <= EditMoves * Answered
  BY <1>1, SlotsAtHand
<1>3. q \in Session /\ q.at = "found" /\ q.slot = table[o].slot /\ q.id = o
  BY <1>1, <1>2, BlankType DEF Session, Places, Blank
<1>4. Begins(s, "close") /\ Goes(s, q) /\ UNCHANGED <<table, nextId, timezone, closures>>
  BY DEF CloseFind
<1> HIDE DEF q
<1>5. q.slot.day <= Reach(q.at)
  BY <1>2, <1>3, SlotsAtHand
<1> QED BY <1>1, <1>3, <1>4, <1>5, BeginKeeps

LEMMA CloseLockKeeps ==
  ASSUME IInv, NEW s \in Sessions, CloseLock(s) PROVE IInv'
<1> DEFINE q == [sess[s] EXCEPT !.at = "locked", !.slot = table[sess[s].id].slot]
<1>1. sess[s].at = "found" /\ UNCHANGED <<table, nextId, timezone, started, closures>>
  BY DEF CloseLock
<1>2. CASE Ends(s)
  BY <1>1, <1>2, RefusedKeeps DEF Active
<1>3. CASE Goes(s, q)
  <2> sess[s].id \in Ids
    BY <1>1 DEF IInv, Found
  <2>1. q \in Session /\ q.at = "locked" /\ q.slot = table[sess[s].id].slot
    BY <1>3, SessionFields, SlotsAtHand DEF Session, Places, IInv
  <2> HIDE DEF q
  <2> QED BY <1>1, <1>3, <2>1, ReadKeeps
<1> QED BY <1>2, <1>3 DEF CloseLock

LEMMA CloseReadZoneKeeps ==
  ASSUME IInv, NEW s \in Sessions, CloseReadZone(s) PROVE IInv'
<1> DEFINE q == [sess[s] EXCEPT !.at = "zoned", !.new = timezone]
<1>1. /\ sess[s].at = "locked" /\ Goes(s, q)
      /\ UNCHANGED <<table, nextId, timezone, started, closures>>
  BY DEF CloseReadZone
<1>2. q \in Session /\ q.at = "zoned" /\ q.slot = sess[s].slot
  BY SessionFields DEF Session, Places, IInv, TypeOK
<1> HIDE DEF q
<1> QED BY <1>1, <1>2, ReadKeeps

LEMMA CloseCommitKeeps ==
  ASSUME IInv, NEW s \in Sessions, CloseCommit(s) PROVE IInv'
<1> DEFINE i == sess[s].id
           closed == [table EXCEPT ![i].status = "done", ![i].zone = sess[s].new]
           slot == Free(closed, sess[s].slot.day + 1, sess[s].slot.grid)
           after == [closed EXCEPT ![nextId] = OpenRow(slot)]
<1>1. sess[s].at = "zoned" /\ Commits(s, after, nextId + 1) /\ UNCHANGED <<timezone, started>>
      /\ closures' = IF ConstraintsHold(after) THEN closures + 1 ELSE closures
  BY DEF CloseCommit
<1>2. s \in Active
  BY <1>1 DEF Active
<1>3. /\ table \in Table /\ Answered \in Nat /\ Answered + 1 <= MaxRequests /\ nextId \in Ids
  BY <1>2, BoundsAtHand
<1>4. closed \in Table
  BY <1>3, RowChanges, SessionFields DEF Table, IInv
<1>5. \A j \in Ids : closed[j].slot = table[j].slot
  BY <1>3, RowFields DEF Table, Row
<1> HIDE DEF closed
<1>6. \A j \in Ids : closed[j].slot.day \in 0..(EditMoves * Answered)
  BY <1>5, SlotsAtHand
<1>7. /\ sess[s].slot.day + 1 \in Nat /\ sess[s].slot.day + 1 <= EditMoves * (Answered + 1)
      /\ sess[s].slot.grid \in Grids
  <2>1. sess[s].slot.day \in 0..(EditMoves * (Answered + 1)) /\ sess[s].slot.day <= EditMoves * Answered
    BY <1>1, SlotsAtHand
  <2> QED BY <1>3, <2>1, SessionFields DEF EditMoves, IInv
<1>8. slot \in Slot /\ slot.day <= EditMoves * (Answered + 1)
  BY <1>3, <1>4, <1>6, <1>7, FreeType
<1> HIDE DEF slot
<1>9. after \in Table
  BY <1>3, <1>4, <1>8, RowChanges DEF Table
<1>10. \A j \in Ids : after[j].slot.day <= EditMoves * (Answered + 1)
  <2> SUFFICES ASSUME NEW j \in Ids PROVE after[j].slot.day <= EditMoves * (Answered + 1)
    OBVIOUS
  <2>1. CASE j = nextId
    BY <1>3, <1>4, <1>8, <2>1 DEF Table, OpenRow
  <2>2. CASE j # nextId
    <3>1. after[j] = closed[j]
      BY <1>4, <2>2 DEF Table
    <3> QED BY <1>3, <1>6, <3>1 DEF EditMoves
  <2> QED BY <2>1, <2>2
<1> HIDE DEF after
<1>11. timezone' \in Zones
  BY <1>1 DEF IInv, TypeOK
<1> QED BY <1>1, <1>2, <1>9, <1>10, <1>11, CommitsKeep

LEMMA UndoFindKeeps ==
  ASSUME IInv, NEW s \in Sessions, UndoFind(s) PROVE IInv'
<1>1. PICK i \in DoneIds(table) : Goes(s, [Blank EXCEPT !.at = "reading", !.id = i])
  BY DEF UndoFind
<1> DEFINE q == [Blank EXCEPT !.at = "reading", !.id = i]
<1>2. Begins(s, "undo") /\ Goes(s, q) /\ UNCHANGED <<table, nextId, timezone, closures>>
  BY <1>1 DEF UndoFind
<1>3. q \in Session /\ q.at = "reading" /\ q.slot.day = 0
  BY BlankType DEF Session, Places, Blank, DoneIds
<1> HIDE DEF q
<1>4. q.slot.day <= Reach(q.at)
  <2>1. Answered \in Nat /\ Reach("reading") = EditMoves * Answered
    BY BoundsAtHand, SlotsAtHand
  <2> QED BY <1>3, <2>1 DEF EditMoves
<1> QED BY <1>2, <1>3, <1>4, BeginKeeps

LEMMA UndoReadLatestKeeps ==
  ASSUME IInv, NEW s \in Sessions, UndoReadLatest(s) PROVE IInv'
<1> DEFINE q == [sess[s] EXCEPT
                   !.at = IF sess[s].id = LatestDone(table) THEN "latest" ELSE "older"]
<1>1. /\ sess[s].at = "reading" /\ Goes(s, q)
      /\ UNCHANGED <<table, nextId, timezone, started, closures>>
  BY DEF UndoReadLatest
<1>2. q \in Session /\ q.at \in {"latest", "older"} /\ q.slot = sess[s].slot
  BY SessionFields DEF Session, Places, IInv
<1> HIDE DEF q
<1> QED BY <1>1, <1>2, ReadKeeps

LEMMA UndoReadSuccessorKeeps ==
  ASSUME IInv, NEW s \in Sessions, UndoReadSuccessor(s) PROVE IInv'
<1> DEFINE q == [sess[s] EXCEPT !.at = "chosen", !.other = OpenId(table)]
<1>1. /\ sess[s].at = "latest" /\ Goes(s, q)
      /\ UNCHANGED <<table, nextId, timezone, started, closures>>
  BY DEF UndoReadSuccessor
<1>2. q \in Session /\ q.at = "chosen" /\ q.slot = sess[s].slot
  BY SessionFields, OpenIdType DEF Session, Places, IInv
<1> HIDE DEF q
<1> QED BY <1>1, <1>2, ReadKeeps

(* Deleting a row and putting one back leaves every slot where it was.     *)
LEMMA SameSlotsKeep ==
  ASSUME IInv, NEW s \in Active, NEW T \in Table, Commits(s, T, nextId),
         \A i \in Ids : T[i].slot = table[i].slot,
         UNCHANGED <<timezone, started, closures>>
  PROVE  IInv'
<1>1. Answered \in Nat /\ timezone \in Zones
  BY BoundsAtHand DEF IInv, TypeOK
<1>2. \A i \in Ids : T[i].slot.day <= EditMoves * (Answered + 1)
  <2> SUFFICES ASSUME NEW i \in Ids PROVE T[i].slot.day <= EditMoves * (Answered + 1)
    OBVIOUS
  <2>1. T[i].slot.day \in 0..(EditMoves * Answered)
    BY SlotsAtHand
  <2> QED BY <1>1, <2>1 DEF EditMoves
<1> QED BY <1>1, <1>2, CommitsKeep

LEMMA WithoutKeepsSlots ==
  ASSUME NEW T \in Table, NEW i
  PROVE  LET R == [T EXCEPT ![i].status = "absent"]
         IN  R \in Table /\ \A j \in Ids : R[j].slot = T[j].slot
<1> DEFINE R == [T EXCEPT ![i].status = "absent"]
<1>1. R \in Table
  BY RowChanges DEF Table
<1>2. \A j \in Ids : R[j].slot = T[j].slot
  BY RowFields DEF Table, Row
<1> QED BY <1>1, <1>2

LEMMA UndoDropSuccessorKeeps ==
  ASSUME IInv, NEW s \in Sessions, UndoDropSuccessor(s) PROVE IInv'
<1> DEFINE q == [sess[s] EXCEPT !.at = "dropped"]
           T == [table EXCEPT ![sess[s].id].status = "absent"]
<1>1. sess[s].at = "chosen" /\ UNCHANGED <<timezone, started, closures>>
  BY DEF UndoDropSuccessor
<1>2. CASE Commits(s, T, nextId)
  <2>1. T \in Table /\ \A j \in Ids : T[j].slot = table[j].slot
    BY BoundsAtHand, WithoutKeepsSlots
  <2> HIDE DEF T
  <2> QED BY <1>1, <1>2, <2>1, SameSlotsKeep DEF Active
<1>3. CASE Goes(s, q) /\ UNCHANGED <<table, nextId>>
  <2>1. q \in Session /\ q.at = "dropped" /\ q.slot = sess[s].slot
    BY SessionFields DEF Session, Places, IInv
  <2> HIDE DEF q
  <2> QED BY <1>1, <1>3, <2>1, ReadKeeps
<1> QED BY <1>2, <1>3 DEF UndoDropSuccessor

LEMMA UndoReopenKeeps ==
  ASSUME IInv, NEW s \in Sessions, UndoReopen(s) PROVE IInv'
<1> DEFINE i == sess[s].id
           T == [WithoutOther(s) EXCEPT ![i].status = "open", ![i].zone = "null"]
<1>1. sess[s].at = "dropped" /\ UNCHANGED <<timezone, started, closures>> /\ s \in Active
  BY DEF UndoReopen, Active
<1>2. CASE Ends(s) /\ UNCHANGED <<table, nextId>>
  BY <1>1, <1>2, RefusedKeeps
<1>3. CASE Commits(s, T, nextId)
  <2>1. WithoutOther(s) \in Table /\ \A j \in Ids : WithoutOther(s)[j].slot = table[j].slot
    <3> DEFINE o == sess[s].other
               R == [table EXCEPT ![o].status = "absent"]
    <3>1. table \in Table
      BY BoundsAtHand
    <3>2. R \in Table /\ \A j \in Ids : R[j].slot = table[j].slot
      BY <3>1, WithoutKeepsSlots
    <3>3. WithoutOther(s) = table \/ WithoutOther(s) = R
      BY DEF WithoutOther
    <3> HIDE DEF R
    <3> QED BY <3>1, <3>2, <3>3
  <2>2. T \in Table
    BY <2>1, RowChanges DEF Table
  <2>3. \A j \in Ids : T[j].slot = WithoutOther(s)[j].slot
    BY <2>1, RowFields DEF Table, Row
  <2> HIDE DEF T
  <2> QED BY <1>1, <1>3, <2>1, <2>2, <2>3, SameSlotsKeep
<1> QED BY <1>2, <1>3 DEF UndoReopen

LEMMA UndoDeleteKeeps ==
  ASSUME IInv, NEW s \in Sessions, UndoDelete(s) PROVE IInv'
<1> DEFINE T == [table EXCEPT ![sess[s].id].status = "absent"]
<1>1. /\ sess[s].at = "older" /\ UNCHANGED <<timezone, started, closures>> /\ s \in Active
      /\ Commits(s, T, nextId)
  BY DEF UndoDelete, Active
<1>2. T \in Table /\ \A j \in Ids : T[j].slot = table[j].slot
  BY BoundsAtHand, WithoutKeepsSlots
<1> HIDE DEF T
<1> QED BY <1>1, <1>2, SameSlotsKeep

LEMMA RevivedType ==
  ASSUME IInv, NEW slot \in RevivedSlots(table, timezone), started < MaxRequests
  PROVE  slot \in Slot /\ slot.day <= EditMoves * (Answered + 1)
<1>1. /\ Answered \in Nat /\ MaxDay \in Nat /\ Answered <= started /\ started \in Nat
      /\ EditMoves * (Answered + 1) <= MaxDay
  BY BoundsAtHand, BoundAssumption DEF Answered, EditMoves
<1>2. CASE slot = [day |-> 0, grid |-> timezone]
  BY <1>1, <1>2 DEF IInv, TypeOK, Slot, Grids, EditMoves
<1>3. ASSUME NEW i \in Ids,
             slot = [day |-> table[i].slot.day + 1, grid |-> table[i].slot.grid]
      PROVE  slot \in Slot /\ slot.day <= EditMoves * (Answered + 1)
  <2>1. table[i].slot.day \in 0..(EditMoves * Answered) /\ table[i].slot.grid \in Grids
    BY SlotsAtHand, BoundsAtHand, RowFields
  <2>2. /\ table[i].slot.day + 1 \in 0..MaxDay
        /\ table[i].slot.day + 1 <= EditMoves * (Answered + 1)
    BY <1>1, <2>1 DEF EditMoves
  <2> QED BY <1>3, <2>1, <2>2 DEF Slot
<1> QED BY <1>2, <1>3 DEF RevivedSlots, DoneIds

LEMMA EditReadKeeps ==
  ASSUME IInv, NEW s \in Sessions, EditRead(s) PROVE IInv'
<1> DEFINE o == OpenId(table)
           R == IF o = None THEN RevivedSlots(table, timezone)
                ELSE {Free(table, table[o].slot.day + days, table[o].slot.grid) :
                        days \in 1..EditMoves}
<1>1. PICK slot \in R : Goes(s, [Blank EXCEPT !.at = "edited", !.id = o, !.slot = slot])
  BY DEF EditRead
<1> DEFINE q == [Blank EXCEPT !.at = "edited", !.id = o, !.slot = slot]
<1>2. /\ Begins(s, "edit") /\ Goes(s, q) /\ UNCHANGED <<table, nextId, timezone, closures>>
      /\ started < MaxRequests
  BY <1>1 DEF EditRead, Begins
<1>3. /\ Answered \in Nat /\ Answered + 1 <= MaxRequests /\ table \in Table
      /\ o \in Ids \cup {None}
  BY <1>2, BoundsAtHand, BoundAssumption, OpenIdType DEF Answered
<1>4. slot \in Slot /\ slot.day <= EditMoves * (Answered + 1)
  <2>1. CASE o = None
    BY <1>2, <2>1, RevivedType
  <2>2. CASE o \in Ids
    <3>1. PICK days \in 1..EditMoves :
            slot = Free(table, table[o].slot.day + days, table[o].slot.grid)
      BY <2>2 DEF None, Ids
    <3>2. /\ table[o].slot.day \in 0..(EditMoves * Answered) /\ table[o].slot.grid \in Grids
          /\ \A j \in Ids : table[j].slot.day <= EditMoves * Answered
      <4>1. table[o].slot.grid \in Grids
        BY <1>3, <2>2, RowFields
      <4>2. \A j \in Ids : table[j].slot.day \in 0..(EditMoves * Answered)
        BY SlotsAtHand
      <4>3. EditMoves * Answered \in Nat
        BY <1>3 DEF EditMoves
      <4> QED BY <2>2, <4>1, <4>2, <4>3
    <3> DEFINE day == table[o].slot.day + days
    <3>3. day \in Nat /\ day <= EditMoves * (Answered + 1)
      BY <1>3, <3>2 DEF EditMoves
    <3> HIDE DEF day
    <3>4. slot = Free(table, day, table[o].slot.grid)
      BY <3>1 DEF day
    <3> QED BY <1>3, <3>2, <3>3, <3>4, FreeType
  <2> QED BY <1>3, <2>1, <2>2
<1>5. q \in Session /\ q.at = "edited" /\ q.slot = slot
  BY <1>3, <1>4, BlankType DEF Session, Places, Blank
<1> HIDE DEF q
<1>6. q.slot.day <= Reach(q.at)
  BY <1>4, <1>5, SlotsAtHand
<1> QED BY <1>2, <1>5, <1>6, BeginKeeps

LEMMA EditCommitKeeps ==
  ASSUME IInv, NEW s \in Sessions, EditCommit(s) PROVE IInv'
<1> DEFINE i == sess[s].id
           Inserted == [table EXCEPT ![nextId] = OpenRow(sess[s].slot)]
           Moved == [table EXCEPT ![i].slot = sess[s].slot]
<1>1. sess[s].at = "edited" /\ UNCHANGED <<timezone, started, closures>> /\ s \in Active
  BY DEF EditCommit, Active
<1>2. /\ table \in Table /\ nextId \in Ids /\ Answered \in Nat /\ timezone \in Zones
      /\ sess[s].slot \in Slot /\ sess[s].slot.day <= EditMoves * (Answered + 1)
      /\ \A j \in Ids : table[j].slot.day <= EditMoves * (Answered + 1)
  <2>1. sess[s].slot.day \in 0..(EditMoves * (Answered + 1)) /\ sess[s].slot \in Slot
    BY SlotsAtHand, SessionFields DEF IInv
  <2>2. \A j \in Ids : table[j].slot.day \in 0..(EditMoves * Answered)
    BY SlotsAtHand
  <2>3. Answered \in Nat /\ table \in Table /\ nextId \in Ids /\ timezone \in Zones
    BY <1>1, BoundsAtHand DEF IInv, TypeOK
  <2>4. sess[s].slot.day <= EditMoves * (Answered + 1)
    BY <2>1, <2>3 DEF EditMoves
  <2>5. \A j \in Ids : table[j].slot.day <= EditMoves * (Answered + 1)
    BY <2>2, <2>3 DEF EditMoves
  <2> QED BY <2>1, <2>3, <2>4, <2>5
<1>3. CASE Commits(s, Inserted, nextId + 1)
  <2>1. Inserted \in Table
    BY <1>2, RowChanges DEF Table
  <2>2. \A j \in Ids : Inserted[j].slot.day <= EditMoves * (Answered + 1)
    BY <1>2 DEF Table, OpenRow
  <2> HIDE DEF Inserted
  <2> QED BY <1>1, <1>2, <1>3, <2>1, <2>2, CommitsKeep
<1>4. CASE Commits(s, Moved, nextId)
  <2>1. Moved \in Table
    BY <1>2, RowChanges DEF Table
  <2>2. \A j \in Ids : Moved[j].slot.day <= EditMoves * (Answered + 1)
    <3> SUFFICES ASSUME NEW j \in Ids PROVE Moved[j].slot.day <= EditMoves * (Answered + 1)
      OBVIOUS
    <3>1. Moved[j].slot \in {sess[s].slot, table[j].slot}
      BY <1>2, RowFields DEF Table, Row
    <3> HIDE DEF Moved
    <3> QED BY <1>2, <3>1
  <2> HIDE DEF Moved
  <2> QED BY <1>1, <1>2, <1>4, <2>1, <2>2, CommitsKeep
<1>5. CASE Ends(s) /\ UNCHANGED <<table, nextId>>
  BY <1>1, <1>5, RefusedKeeps
<1> QED BY <1>3, <1>4, <1>5 DEF EditCommit

LEMMA ZoneFindKeeps ==
  ASSUME IInv, NEW s \in Sessions, ZoneFind(s) PROVE IInv'
<1>1. PICK z \in Zones : Goes(s, [Blank EXCEPT !.at = "loaded", !.old = timezone, !.new = z])
  BY DEF ZoneFind
<1> DEFINE q == [Blank EXCEPT !.at = "loaded", !.old = timezone, !.new = z]
<1>2. Begins(s, "zone") /\ Goes(s, q) /\ UNCHANGED <<table, nextId, timezone, closures>>
  BY <1>1 DEF ZoneFind
<1>3. q \in Session /\ q.at = "loaded" /\ q.slot.day = 0
  BY BlankType DEF Session, Places, Blank, IInv, TypeOK
<1> HIDE DEF q
<1>4. q.slot.day <= Reach(q.at)
  <2>1. Answered \in Nat /\ Reach("loaded") = EditMoves * Answered
    BY BoundsAtHand, SlotsAtHand
  <2> QED BY <1>3, <2>1 DEF EditMoves
<1> QED BY <1>2, <1>3, <1>4, BeginKeeps

LEMMA ZoneWriteKeeps ==
  ASSUME IInv, NEW s \in Sessions, ZoneWrite(s) PROVE IInv'
<1> DEFINE q == [sess[s] EXCEPT !.at = "moving"]
<1>1. /\ sess[s].at = "loaded" /\ Goes(s, q)
      /\ UNCHANGED <<table, nextId, timezone, started, closures>>
  BY DEF ZoneWrite
<1>2. q \in Session /\ q.at = "moving" /\ q.slot = sess[s].slot
  BY SessionFields DEF Session, Places, IInv
<1> HIDE DEF q
<1> QED BY <1>1, <1>2, ReadKeeps

LEMMA ZoneScanKeeps ==
  ASSUME IInv, NEW s \in Sessions, ZoneScan(s) PROVE IInv'
<1> DEFINE q == [sess[s] EXCEPT !.at = "scanned", !.id = OpenId(table)]
<1>1. /\ sess[s].at = "moving" /\ Goes(s, q)
      /\ UNCHANGED <<table, nextId, timezone, started, closures>>
  BY DEF ZoneScan
<1>2. q \in Session /\ q.at = "scanned" /\ q.slot = sess[s].slot
  BY SessionFields, OpenIdType DEF Session, Places, IInv
<1> HIDE DEF q
<1> QED BY <1>1, <1>2, ReadKeeps

LEMMA ZoneLockKeeps ==
  ASSUME IInv, NEW s \in Sessions, ZoneLock(s) PROVE IInv'
<1> DEFINE i == sess[s].id
           q == [sess[s] EXCEPT !.at = "anchored", !.slot = table[i].slot]
           r == [sess[s] EXCEPT !.at = "anchored", !.id = None]
<1>1. sess[s].at = "scanned" /\ UNCHANGED <<table, nextId, timezone, started, closures>>
  BY DEF ZoneLock
<1>2. CASE i # None /\ Goes(s, q)
  <2>1. i \in Ids
    BY <1>2, SessionFields DEF IInv
  <2>2. q \in Session /\ q.at = "anchored" /\ q.slot = table[i].slot
    BY <2>1, SessionFields, SlotsAtHand DEF Session, Places, IInv
  <2> HIDE DEF q
  <2> QED BY <1>1, <1>2, <2>1, <2>2, ReadKeeps
<1>3. CASE Goes(s, r)
  <2>1. r \in Session /\ r.at = "anchored" /\ r.slot = sess[s].slot
    BY SessionFields DEF Session, Places, IInv
  <2> HIDE DEF r
  <2> QED BY <1>1, <1>3, <2>1, ReadKeeps
<1> QED BY <1>2, <1>3 DEF ZoneLock

LEMMA ZoneCommitKeeps ==
  ASSUME IInv, NEW s \in Sessions, ZoneCommit(s) PROVE IInv'
<1> DEFINE i == sess[s].id
           slot == Reanchored(sess[s].slot, sess[s].old, sess[s].new)
           moved == [table EXCEPT ![i].slot = slot]
           after == IF i = None THEN table ELSE moved
<1>1. /\ sess[s].at = "anchored" /\ UNCHANGED <<started, closures>> /\ s \in Active
      /\ timezone' = (IF ConstraintsHold(after) THEN sess[s].new ELSE timezone)
      /\ Commits(s, after, nextId)
  BY DEF ZoneCommit, Active
<1>2. /\ table \in Table /\ Answered \in Nat /\ Answered + 1 <= MaxRequests
      /\ timezone \in Zones /\ sess[s].new \in Zones
  BY <1>1, BoundsAtHand, SessionFields DEF IInv, TypeOK
<1>3. \A j \in Ids : /\ table[j].slot.day \in 0..(EditMoves * Answered)
                     /\ table[j].slot.day <= EditMoves * (Answered + 1)
  BY <1>2, SlotsAtHand DEF EditMoves
<1>4. slot \in Slot /\ slot.day <= EditMoves * (Answered + 1)
  <2> DEFINE day == sess[s].slot.day
             grid == IF sess[s].slot.grid = sess[s].old THEN sess[s].new ELSE "off"
  <2>1. day \in Nat /\ day <= EditMoves * (Answered + 1)
    BY <1>2, SlotsAtHand DEF EditMoves
  <2>2. grid \in Grids
    BY <1>2 DEF Grids
  <2>3. slot = Free(table, day, grid)
    BY DEF Reanchored
  <2> HIDE DEF day, grid, slot
  <2> QED BY <1>2, <1>3, <2>1, <2>2, <2>3, FreeType
<1> HIDE DEF slot
<1>5. moved \in Table
  BY <1>2, <1>4, RowChanges DEF Table
<1>6. \A j \in Ids : moved[j].slot.day <= EditMoves * (Answered + 1)
  <2> SUFFICES ASSUME NEW j \in Ids PROVE moved[j].slot.day <= EditMoves * (Answered + 1)
    OBVIOUS
  <2>1. moved[j].slot \in {slot, table[j].slot}
    BY <1>2, RowFields DEF Table, Row
  <2> HIDE DEF moved
  <2> QED BY <1>3, <1>4, <2>1
<1> HIDE DEF moved
<1>7. after \in Table /\ \A j \in Ids : after[j].slot.day <= EditMoves * (Answered + 1)
  BY <1>2, <1>3, <1>5, <1>6
<1> HIDE DEF after
<1> QED BY <1>1, <1>2, <1>7, CommitsKeep

LEMMA AbortKeeps ==
  ASSUME IInv, NEW s \in Sessions, DeadlockAbort(s) PROVE IInv'
<1>1. s \in Active
  <2>1. Waits(s) # {}
    BY DEF DeadlockAbort, Circles, Stuck
  <2>2. sess[s].at # "idle"
    BY <2>1 DEF Waits, NeedsHousehold
  <2> QED BY <2>2 DEF Active
<1> QED BY <1>1, RefusedKeeps DEF DeadlockAbort

LEMMA InitHolds ==
  ASSUME Init PROVE IInv
<1>1. /\ MaxRequests \in Nat /\ MaxDay \in Nat /\ MaxRows \in Nat /\ 1 \in Ids /\ 2 \in 1..(MaxRows + 1)
  BY BoundAssumption DEF Ids
<1> DEFINE slot == [day |-> 0, grid |-> timezone]
<1>2. slot \in Slot /\ slot.day = 0
  BY <1>1 DEF Init, Slot, Grids
<1> HIDE DEF slot
<1>3. OpenRow(slot) \in Row /\ [OpenRow(slot) EXCEPT !.status = "absent"] \in Row
  BY <1>2, RowChanges
<1>4. \A i \in Ids : table[i] = IF i = 1 THEN OpenRow(slot)
                                ELSE [OpenRow(slot) EXCEPT !.status = "absent"]
  BY DEF Init, slot
<1>5. table \in Table /\ \A i \in Ids : table[i].slot = slot
  <2>1. table = [i \in Ids |-> table[i]]
    BY DEF Init
  <2>2. \A i \in Ids : table[i].slot = slot
    BY <1>4 DEF OpenRow
  <2> QED BY <1>3, <1>4, <2>1, <2>2 DEF Table
<1>6. Active = {} /\ \A s \in Sessions : sess[s] = Blank
  BY BlankType DEF Init, Active
<1>7. IsFiniteSet(Active) /\ Cardinality(Active) = 0 /\ Answered = 0
  BY <1>6, FS_EmptySet DEF Answered, Init
<1>8. TypeOK
  BY <1>1, <1>5, BlankType DEF Init, TypeOK, Table
<1>9. \A s \in Sessions : sess[s].slot.day <= Reach(sess[s].at)
  BY <1>6, <1>7, BlankType DEF Reach, EditMoves
<1>10. Within
  BY <1>2, <1>5, <1>7, <1>9 DEF Within, Init, EditMoves
<1>11. Found
  BY <1>6, BlankType DEF Found
<1> QED BY <1>8, <1>10, <1>11 DEF IInv

LEMMA StepKeeps ==
  ASSUME IInv, [Next]_vars PROVE IInv'
<1>1. ASSUME NEW s \in Sessions, Begin(s) PROVE IInv'
  BY <1>1, CloseFindKeeps, UndoFindKeeps, EditReadKeeps, ZoneFindKeeps DEF Begin
<1>2. ASSUME NEW s \in Sessions, Continue(s) PROVE IInv'
  BY <1>2, CloseLockKeeps, CloseReadZoneKeeps, CloseCommitKeeps, UndoReadLatestKeeps,
     UndoReadSuccessorKeeps, UndoDropSuccessorKeeps, UndoReopenKeeps, UndoDeleteKeeps,
     EditCommitKeeps, ZoneWriteKeeps, ZoneScanKeeps, ZoneLockKeeps, ZoneCommitKeeps DEF Continue
<1>3. CASE UNCHANGED vars
  BY <1>3 DEF vars, IInv, TypeOK, Within, Found, Reach, Answered, Active
<1> QED BY <1>1, <1>2, <1>3, AbortKeeps DEF Next

LEMMA InductiveInvariant == Spec => []IInv
<1>1. Init => IInv
  BY InitHolds
<1>2. IInv /\ [Next]_vars => IInv'
  BY StepKeeps
<1> QED BY <1>1, <1>2, PTL DEF Spec

(* Whatever the mix of requests and however their statements interleave,   *)
(* rows and sessions stay well formed: no open row keeps the zone of a     *)
(* closure undone, no done row lacks one, and no request of the bound runs *)
(* out of ids or of days (app/api/v1/chores.py, completions.py,            *)
(* app/core/occurrences.py).                                               *)
THEOREM TypeCorrect == Spec => []TypeOK
<1>1. IInv => TypeOK
  BY DEF IInv
<1> QED BY <1>1, InductiveInvariant, PTL

-----------------------------------------------------------------------------
(* Deadlocks                                                               *)

(* Only a session that has deleted a successor holds anything of the index.*)
LEMMA WaitsWithoutDrop ==
  ASSUME NEW S \in SUBSET Sessions, \A s \in S : sess[s].at # "dropped",
         NEW s \in S, Waits(s) \cap S # {}
  PROVE  \/ /\ sess[s].at \in {"found", "older", "scanned", "chosen", "edited"}
            /\ \E t \in S : sess[t].at \in {"locked", "zoned", "anchored"}
         \/ /\ sess[s].at = "loaded"
            /\ \E t \in S : sess[t].at \in {"moving", "scanned", "anchored"}
<1>1. \A t \in S : t \notin IndexHolders
  BY DEF IndexHolders
<1>2. \A i : \A t \in S : t \in RowHolders(i) => sess[t].at \in {"locked", "zoned", "anchored"}
  BY DEF RowHolders, LocksRow
<1>3. PICK t \in S : t \in Waits(s)
  OBVIOUS
<1>4. CASE sess[s].at \in {"found", "older", "scanned", "chosen", "edited"}
  <2>1. \E i : t \in RowHolders(i)
    BY <1>1, <1>3, <1>4 DEF Waits, NeedsHousehold
  <2> QED BY <1>1, <1>2, <1>3, <1>4, <2>1
<1>5. CASE sess[s].at = "loaded"
  BY <1>3, <1>5 DEF Waits, NeedsHousehold, LocksHousehold
<1>6. CASE sess[s].at = "zoned"
  BY <1>1, <1>3, <1>6 DEF Waits, NeedsHousehold
<1>7. CASE sess[s].at \notin {"found", "older", "scanned", "chosen", "edited", "loaded", "zoned", "dropped"}
  BY <1>3, <1>7 DEF Waits, NeedsHousehold
<1> QED BY <1>4, <1>5, <1>6, <1>7

(* Every circle of waits has an undo in it that has deleted the successor  *)
(* and waits for its closure: closures, edits and timezone changes alone   *)
(* lock household or chore before the occurrence, and never deadlock       *)
(* (app/api/v1/completions.py:306-336, app/core/occurrences.py).  It is a  *)
(* fact of the lock order, which takes no invariant.                       *)
THEOREM DeadlockNeedsUndoAlways == Spec => []DeadlockNeedsUndo
<1>1. ASSUME NEW S \in Circles, \A s \in S : sess[s].at # "dropped" PROVE FALSE
  <2>1. S \in SUBSET Sessions /\ S # {} /\ \A s \in S : Waits(s) \cap S # {}
    BY DEF Circles, Stuck
  <2>2. \A s \in S : sess[s].at \notin {"locked", "zoned", "anchored", "moving"}
    BY <1>1, <2>1, WaitsWithoutDrop
  <2>3. \A s \in S : sess[s].at = "loaded"
    BY <1>1, <2>1, <2>2, WaitsWithoutDrop
  <2> QED BY <1>1, <2>1, <2>2, <2>3, WaitsWithoutDrop
<1>2. DeadlockNeedsUndo
  BY <1>1 DEF DeadlockNeedsUndo
<1> QED BY <1>2, PTL

-----------------------------------------------------------------------------
(* Without undo: one row is open and no row goes away                      *)

Undoing == {"reading", "latest", "older", "chosen", "dropped"}
Holding == {"found", "locked", "zoned", "edited"}

(* A request that works on a row works on one that is there: only an undo  *)
(* deletes rows.  Ids not given out yet have none.                         *)
RowsStay ==
  /\ \A s \in Sessions : /\ sess[s].at \notin Undoing
                         /\ sess[s].at \in Holding => sess[s].id \in Present(table)
  /\ \A i \in Ids : i >= nextId => table[i].status = "absent"

OneOpenRow == \E o \in Ids : OpenIds(table) = {o}

UInv == IInv /\ RowsStay /\ OneOpenRow /\ EachSuccessIsOneClosure

(* A step that leaves every status alone.                                  *)
LEMMA StatusesStand ==
  ASSUME UInv, IInv', NEW s \in Sessions, NEW q, Goes(s, q),
         q.at \notin Undoing, q.at \in Holding => q.id \in Present(table),
         \A i \in Ids : table'[i].status = table[i].status,
         UNCHANGED <<nextId, closures>>
  PROVE  UInv'
<1>1. /\ OpenIds(table)' = OpenIds(table) /\ DoneIds(table)' = DoneIds(table)
      /\ Present(table)' = Present(table)
  BY DEF OpenIds, DoneIds, Present
<1>2. \A t \in Sessions : sess'[t] = IF t = s THEN q ELSE sess[t]
  BY DEF UInv, IInv, TypeOK, Goes
<1>3. RowsStay'
  <2>1. \A t \in Sessions : /\ sess'[t].at \notin Undoing
                            /\ sess'[t].at \in Holding => sess'[t].id \in Present(table)
    BY <1>2 DEF UInv, RowsStay
  <2> QED BY <1>1, <2>1 DEF UInv, RowsStay
<1> QED BY <1>1, <1>3 DEF UInv, OneOpenRow, EachSuccessIsOneClosure

LEMMA BlankStands ==
  Blank.at \notin Undoing /\ Blank.at \notin Holding
  BY DEF Blank, Undoing, Holding

LEMMA RefusalStands ==
  ASSUME UInv, IInv', NEW s \in Sessions, Ends(s), UNCHANGED <<table, nextId, closures>>
  PROVE  UInv'
  BY BlankStands, StatusesStand DEF Ends

LEMMA OneOpenId ==
  ASSUME UInv
  PROVE  OpenId(table) \in Ids /\ OpenIds(table) = {OpenId(table)} /\ OpenId(table) # None
  BY OpenIdType DEF UInv, OneOpenRow, OpenIds, Ids, None

LEMMA DoneFinite ==
  ASSUME NEW T PROVE IsFiniteSet(DoneIds(T))
<1>1. IsFiniteSet(Ids) /\ DoneIds(T) \subseteq Ids
  BY FS_Interval, BoundAssumption DEF Ids, DoneIds
<1> QED BY <1>1, FS_Subset

LEMMA PairIsTwo ==
  ASSUME NEW a, NEW b, a # b PROVE Cardinality({a, b}) = 2
<1>1. IsFiniteSet({a}) /\ Cardinality({a}) = 1
  BY FS_Singleton
<1>2. {a, b} = {a} \cup {b} /\ b \notin {a}
  OBVIOUS
<1>3. Cardinality({a, b}) = Cardinality({a}) + 1
  BY <1>1, <1>2, FS_AddElement
<1> QED BY <1>1, <1>3

(* The closure of an open row puts one row open in its place; the closure  *)
(* of a row somebody else has closed leaves two open, and the constraint   *)
(* turns it away.                                                          *)
LEMMA CloseCommitTable ==
  ASSUME UInv, NEW s \in Sessions, sess[s].at = "zoned", NEW slot
  PROVE  LET i == sess[s].id
             o == OpenId(table)
             closed == [table EXCEPT ![i].status = "done", ![i].zone = sess[s].new]
             after == [closed EXCEPT ![nextId] = OpenRow(slot)]
         IN  /\ i \in Ids /\ nextId \in Ids /\ i # nextId /\ o # nextId
             /\ table[nextId].status = "absent"
             /\ i = o \/ i \in DoneIds(table)
             /\ i = o => /\ OpenIds(after) = {nextId}
                         /\ DoneIds(after) = DoneIds(table) \cup {i}
                         /\ Present(after) = Present(table) \cup {nextId}
             /\ i # o => ~ConstraintsHold(after)
<1> DEFINE i == sess[s].id
           o == OpenId(table)
           closed == [table EXCEPT ![i].status = "done", ![i].zone = sess[s].new]
           after == [closed EXCEPT ![nextId] = OpenRow(slot)]
<1>1. i \in Present(table) /\ s \in Active
  BY DEF UInv, RowsStay, Holding, Active
<1>2. nextId \in Ids /\ table \in Table /\ nextId \in Nat
  BY <1>1, BoundsAtHand DEF UInv, Ids
<1>3. table[nextId].status = "absent"
  BY <1>2 DEF UInv, RowsStay
<1>4. i \in Ids /\ i # nextId /\ o \in Ids /\ OpenIds(table) = {o} /\ table[o].status = "open"
  BY <1>1, <1>3, OneOpenId DEF Present, OpenIds
<1>5. i = o \/ i \in DoneIds(table)
  BY <1>1, <1>2, <1>4, RowFields DEF Present, OpenIds, DoneIds
<1>6. \A j \in Ids : after[j].status = IF j = nextId THEN "open" ELSE
                                       IF j = i THEN "done" ELSE table[j].status
  BY <1>2, <1>4, RowFields DEF Table, Row, OpenRow
<1> HIDE DEF after, closed
<1>7. ASSUME i = o
      PROVE  /\ OpenIds(after) = {nextId} /\ DoneIds(after) = DoneIds(table) \cup {i}
             /\ Present(after) = Present(table) \cup {nextId}
  <2>1. \A j \in Ids : table[j].status = "open" <=> j = o
    BY <1>4 DEF OpenIds
  <2>2. OpenIds(after) = {nextId}
    BY <1>2, <1>6, <1>7, <2>1 DEF OpenIds
  <2>3. DoneIds(after) = DoneIds(table) \cup {i}
    BY <1>3, <1>4, <1>6 DEF DoneIds
  <2>4. Present(after) = Present(table) \cup {nextId}
    BY <1>1, <1>2, <1>6 DEF Present
  <2> QED BY <2>2, <2>3, <2>4
<1>8. ASSUME i # o PROVE ~ConstraintsHold(after)
  <2>1. OpenIds(after) = {o, nextId} /\ o # nextId
    <3>1. o # nextId
      BY <1>3, <1>4
    <3>2. \A j \in Ids : table[j].status = "open" <=> j = o
      BY <1>4 DEF OpenIds
    <3>3. \A j \in Ids : after[j].status = "open" <=> j \in {o, nextId}
      BY <1>4, <1>6, <1>8, <3>1, <3>2
    <3> QED BY <1>2, <1>4, <3>1, <3>3 DEF OpenIds
  <2>2. Cardinality(OpenIds(after)) = 2
    BY <2>1, PairIsTwo
  <2> QED BY <2>2 DEF ConstraintsHold
<1>9. o # nextId
  BY <1>3, <1>4
<1> QED BY <1>2, <1>3, <1>4, <1>5, <1>7, <1>8, <1>9 DEF after, closed

LEMMA CloseCommitStands ==
  ASSUME UInv, IInv', NEW s \in Sessions, CloseCommit(s) PROVE UInv'
<1> DEFINE i == sess[s].id
           closed == [table EXCEPT ![i].status = "done", ![i].zone = sess[s].new]
           slot == Free(closed, sess[s].slot.day + 1, sess[s].slot.grid)
           after == [closed EXCEPT ![nextId] = OpenRow(slot)]
<1>1. sess[s].at = "zoned" /\ Commits(s, after, nextId + 1)
      /\ closures' = IF ConstraintsHold(after) THEN closures + 1 ELSE closures
  BY DEF CloseCommit
<1> HIDE DEF slot
<1>2. /\ i \in Ids /\ nextId \in Ids /\ table[nextId].status = "absent"
      /\ i = OpenId(table) => /\ OpenIds(after) = {nextId}
                              /\ DoneIds(after) = DoneIds(table) \cup {i}
                              /\ Present(after) = Present(table) \cup {nextId}
      /\ i # OpenId(table) => ~ConstraintsHold(after)
  BY <1>1, CloseCommitTable
<1> HIDE DEF after, closed
<1>3. CASE ~ConstraintsHold(after)
  BY <1>1, <1>3, RefusalStands DEF Commits
<1>4. CASE ConstraintsHold(after)
  <2>1. /\ table' = after /\ nextId' = nextId + 1 /\ closures' = closures + 1 /\ Ends(s)
        /\ i = OpenId(table)
    BY <1>1, <1>2, <1>4 DEF Commits
  <2>2. /\ OpenIds(table') = {nextId} /\ DoneIds(table') = DoneIds(table) \cup {i}
        /\ Present(table') = Present(table) \cup {nextId}
    BY <1>2, <2>1
  <2>3. \A t \in Sessions : sess'[t] = IF t = s THEN Blank ELSE sess[t]
    BY <2>1 DEF Ends, Goes, UInv, IInv, TypeOK
  <2>4. \A t \in Sessions : /\ sess'[t].at \notin Undoing
                            /\ sess'[t].at \in Holding => sess'[t].id \in Present(table')
    BY <2>2, <2>3, BlankStands DEF UInv, RowsStay
  <2>5. \A j \in Ids : j >= nextId' => table'[j].status = "absent"
    <3> SUFFICES ASSUME NEW j \in Ids, j >= nextId' PROVE j \notin Present(table')
      BY DEF Present
    <3>1. j >= nextId /\ j # nextId
      BY <1>2, <2>1 DEF Ids
    <3>2. j \notin Present(table)
      BY <3>1 DEF UInv, RowsStay, Present
    <3> QED BY <2>2, <3>1, <3>2
  <2>6. i \notin DoneIds(table)
    BY <2>1, OneOpenId DEF OpenIds, DoneIds
  <2>7. Cardinality(DoneIds(table')) = Cardinality(DoneIds(table)) + 1
    BY <2>2, <2>6, DoneFinite, FS_AddElement
  <2>8. EachSuccessIsOneClosure'
    BY <2>1, <2>7 DEF UInv, EachSuccessIsOneClosure
  <2>9. RowsStay' /\ OneOpenRow'
    BY <1>2, <2>2, <2>4, <2>5 DEF RowsStay, OneOpenRow
  <2> QED BY <2>8, <2>9 DEF UInv
<1> QED BY <1>3, <1>4

(* A step that goes on without writing.                                    *)
LEMMA ReadStands ==
  ASSUME UInv, IInv', NEW s \in Sessions, NEW q, Goes(s, q),
         q.at \notin Undoing, q.at \in Holding => q.id \in Present(table),
         UNCHANGED <<table, nextId, closures>>
  PROVE  UInv'
  BY StatusesStand

(* A step that commits a new slot for a row, or is refused.                *)
LEMMA RedatingStands ==
  ASSUME UInv, IInv', NEW s \in Sessions, NEW i, NEW slot,
         Commits(s, [table EXCEPT ![i].slot = slot], nextId), UNCHANGED closures
  PROVE  UInv'
<1> DEFINE T == [table EXCEPT ![i].slot = slot]
<1>1. \A j \in Ids : T[j].status = table[j].status
  BY BoundsAtHand, RowFields DEF UInv, Table, Row
<1>2. Commits(s, T, nextId)
  OBVIOUS
<1> HIDE DEF T
<1>3. CASE ConstraintsHold(T)
  BY <1>1, <1>2, <1>3, BlankStands, StatusesStand DEF Commits, Ends
<1>4. CASE ~ConstraintsHold(T)
  BY <1>2, <1>4, RefusalStands DEF Commits
<1> QED BY <1>3, <1>4

LEMMA SessionAt ==
  ASSUME IInv, NEW s \in Sessions
  PROVE  sess[s] = [at |-> sess[s].at, id |-> sess[s].id, other |-> sess[s].other,
                    slot |-> sess[s].slot, old |-> sess[s].old, new |-> sess[s].new]
  BY SessionFields DEF IInv, Session

LEMMA CloseStands ==
  ASSUME UInv, IInv', NEW s \in Sessions,
         CloseFind(s) \/ CloseLock(s) \/ CloseReadZone(s)
  PROVE  UInv'
<1>1. CASE CloseFind(s)
  <2> DEFINE q == [Blank EXCEPT !.at = "found", !.id = OpenId(table),
                                !.slot = table[OpenId(table)].slot]
  <2>1. q.at = "found" /\ q.id = OpenId(table)
    BY DEF Blank
  <2>2. OpenId(table) \in Present(table)
    BY OneOpenId DEF OpenIds, Present
  <2>3. Goes(s, q) /\ UNCHANGED <<table, nextId, closures>>
    BY <1>1 DEF CloseFind
  <2> HIDE DEF q
  <2> QED BY <2>1, <2>2, <2>3, ReadStands DEF Undoing, Holding
<1>2. CASE CloseLock(s)
  <2> DEFINE q == [sess[s] EXCEPT !.at = "locked", !.slot = table[sess[s].id].slot]
  <2>1. /\ Ends(s) \/ Goes(s, q)
        /\ UNCHANGED <<table, nextId, closures>> /\ sess[s].at = "found"
    BY <1>2 DEF CloseLock
  <2>2. q.at = "locked" /\ q.id = sess[s].id
    BY SessionAt DEF UInv
  <2>3. sess[s].id \in Present(table)
    BY <2>1 DEF UInv, RowsStay, Holding
  <2> HIDE DEF q
  <2> QED BY <2>1, <2>2, <2>3, ReadStands, RefusalStands DEF Undoing, Holding
<1>3. CASE CloseReadZone(s)
  <2> DEFINE q == [sess[s] EXCEPT !.at = "zoned", !.new = timezone]
  <2>1. Goes(s, q) /\ UNCHANGED <<table, nextId, closures>> /\ sess[s].at = "locked"
    BY <1>3 DEF CloseReadZone
  <2>2. q.at = "zoned" /\ q.id = sess[s].id
    BY SessionAt DEF UInv
  <2>3. sess[s].id \in Present(table)
    BY <2>1 DEF UInv, RowsStay, Holding
  <2> HIDE DEF q
  <2> QED BY <2>1, <2>2, <2>3, ReadStands DEF Undoing, Holding
<1> QED BY <1>1, <1>2, <1>3

LEMMA EditStands ==
  ASSUME UInv, IInv', NEW s \in Sessions, EditRead(s) \/ EditCommit(s)
  PROVE  UInv'
<1>1. CASE EditRead(s)
  <2>1. PICK slot : Goes(s, [Blank EXCEPT !.at = "edited", !.id = OpenId(table), !.slot = slot])
    BY <1>1 DEF EditRead
  <2> DEFINE q == [Blank EXCEPT !.at = "edited", !.id = OpenId(table), !.slot = slot]
  <2>2. q.at = "edited" /\ q.id = OpenId(table)
    BY DEF Blank
  <2>3. OpenId(table) \in Present(table)
    BY OneOpenId DEF OpenIds, Present
  <2>4. Goes(s, q) /\ UNCHANGED <<table, nextId, closures>>
    BY <1>1, <2>1 DEF EditRead
  <2> HIDE DEF q
  <2> QED BY <2>2, <2>3, <2>4, ReadStands DEF Undoing, Holding
<1>2. CASE EditCommit(s)
  <2>1. /\ sess[s].id # None /\ table[sess[s].id].status # "absent"
    BY <1>2 DEF EditCommit, UInv, RowsStay, Holding, Present, Ids, None
  <2>2. /\ Commits(s, [table EXCEPT ![sess[s].id].slot = sess[s].slot], nextId)
        /\ UNCHANGED closures
    BY <1>2, <2>1 DEF EditCommit
  <2> QED BY <2>2, RedatingStands
<1> QED BY <1>1, <1>2

LEMMA ZoneStands ==
  ASSUME UInv, IInv', NEW s \in Sessions,
         ZoneFind(s) \/ ZoneWrite(s) \/ ZoneScan(s) \/ ZoneLock(s) \/ ZoneCommit(s)
  PROVE  UInv'
<1> DEFINE Moving(q) == q.at \in {"loaded", "moving", "scanned", "anchored"} /\ Goes(s, q)
<1>1. ASSUME NEW q, Moving(q), UNCHANGED <<table, nextId, closures>> PROVE UInv'
  BY <1>1, ReadStands DEF Undoing, Holding
<1> USE SessionAt DEF UInv
<1>2. CASE ZoneFind(s)
  <2>1. PICK z : Goes(s, [Blank EXCEPT !.at = "loaded", !.old = timezone, !.new = z])
    BY <1>2 DEF ZoneFind
  <2>2. Moving([Blank EXCEPT !.at = "loaded", !.old = timezone, !.new = z])
    BY <2>1 DEF Blank
  <2> QED BY <1>1, <1>2, <2>2 DEF ZoneFind
<1>3. CASE ZoneWrite(s)
  <2>1. Moving([sess[s] EXCEPT !.at = "moving"])
    BY <1>3 DEF ZoneWrite
  <2> HIDE DEF Moving
  <2> QED BY <1>1, <1>3, <2>1 DEF ZoneWrite
<1>4. CASE ZoneScan(s)
  <2>1. Moving([sess[s] EXCEPT !.at = "scanned", !.id = OpenId(table)])
    BY <1>4 DEF ZoneScan
  <2> HIDE DEF Moving
  <2> QED BY <1>1, <1>4, <2>1 DEF ZoneScan
<1>5. CASE ZoneLock(s)
  <2>1. \/ Moving([sess[s] EXCEPT !.at = "anchored", !.slot = table[sess[s].id].slot])
        \/ Moving([sess[s] EXCEPT !.at = "anchored", !.id = None])
    BY <1>5 DEF ZoneLock
  <2> HIDE DEF Moving
  <2> QED BY <1>1, <1>5, <2>1 DEF ZoneLock
<1>6. CASE ZoneCommit(s)
  <2>1. UNCHANGED closures
    BY <1>6 DEF ZoneCommit
  <2>2. CASE sess[s].id = None
    <3>1. Ends(s) /\ UNCHANGED <<table, nextId>>
      BY <1>6, <2>2, BoundsAtHand DEF ZoneCommit, Commits
    <3> QED BY <2>1, <3>1, RefusalStands
  <2>3. CASE sess[s].id # None
    <3>1. \E slot : Commits(s, [table EXCEPT ![sess[s].id].slot = slot], nextId)
      BY <1>6, <2>3 DEF ZoneCommit
    <3> QED BY <2>1, <3>1, RedatingStands
  <2> QED BY <2>2, <2>3
<1> QED BY <1>2, <1>3, <1>4, <1>5, <1>6

LEMMA NoUndoSteps ==
  ASSUME UInv, "undo" \notin Kinds, NEW s \in Sessions
  PROVE  /\ ~UndoFind(s) /\ ~UndoReadLatest(s) /\ ~UndoReadSuccessor(s)
         /\ ~UndoDropSuccessor(s) /\ ~UndoReopen(s) /\ ~UndoDelete(s)
<1>1. sess[s].at \notin Undoing
  BY DEF UInv, RowsStay
<1> QED BY <1>1 DEF Undoing, UndoFind, Begins, UndoReadLatest, UndoReadSuccessor,
          UndoDropSuccessor, UndoReopen, UndoDelete

LEMMA UInitHolds ==
  ASSUME Init PROVE UInv
<1>1. IInv /\ 1 \in Ids
  BY InitHolds, BoundAssumption DEF Ids
<1>2. \A i \in Ids : table[i].status = IF i = 1 THEN "open" ELSE "absent"
  BY DEF Init, OpenRow
<1>3. OpenIds(table) = {1} /\ DoneIds(table) = {}
  BY <1>1, <1>2 DEF OpenIds, DoneIds
<1>4. EachSuccessIsOneClosure
  BY <1>3, FS_EmptySet DEF EachSuccessIsOneClosure, Init
<1>5. RowsStay
  BY <1>2, BlankStands DEF RowsStay, Init, Ids
<1> QED BY <1>1, <1>3, <1>4, <1>5 DEF UInv, OneOpenRow

LEMMA UStepKeeps ==
  ASSUME UInv, "undo" \notin Kinds, [Next]_vars PROVE UInv'
<1>1. IInv'
  BY StepKeeps DEF UInv
<1>2. ASSUME NEW s \in Sessions, Begin(s) PROVE UInv'
  BY <1>1, <1>2, CloseStands, EditStands, ZoneStands, NoUndoSteps DEF Begin
<1>3. ASSUME NEW s \in Sessions, Continue(s) PROVE UInv'
  BY <1>1, <1>3, CloseStands, CloseCommitStands, EditStands, ZoneStands, NoUndoSteps DEF Continue
<1>4. ASSUME NEW s \in Sessions, DeadlockAbort(s) PROVE UInv'
  BY <1>1, <1>4, RefusalStands DEF DeadlockAbort
<1>5. CASE UNCHANGED vars
  <2>1. /\ OpenIds(table)' = OpenIds(table) /\ DoneIds(table)' = DoneIds(table)
        /\ Present(table)' = Present(table)
    BY <1>5 DEF vars, OpenIds, DoneIds, Present
  <2> QED BY <1>1, <1>5, <2>1 DEF vars, UInv, RowsStay, OneOpenRow, EachSuccessIsOneClosure
<1> QED BY <1>2, <1>3, <1>4, <1>5 DEF Next

LEMMA InductiveWithoutUndo ==
  ASSUME "undo" \notin Kinds PROVE Spec => []UInv
<1>1. Init => UInv
  BY UInitHolds
<1>2. UInv /\ [Next]_vars => UInv'
  BY UStepKeeps
<1> QED BY <1>1, <1>2, PTL DEF Spec

(* However closures, edits and timezone changes interleave, the closures   *)
(* on record are the closures answered 201: of two requests that race to   *)
(* close one occurrence the constraint on the open row turns one away      *)
(* (app/api/v1/chores.py:876-884).                                         *)
THEOREM EachSuccessIsOneClosureAlways ==
  ASSUME "undo" \notin Kinds PROVE Spec => []EachSuccessIsOneClosure
<1>1. UInv => EachSuccessIsOneClosure
  BY DEF UInv
<1> QED BY <1>1, InductiveWithoutUndo, PTL

(* And the chore has exactly one open occurrence at every moment, as       *)
(* docs/architecture/chores.md:24 says it has: undo alone refutes that.    *)
THEOREM AlwaysOneOpenWithoutUndo ==
  ASSUME "undo" \notin Kinds PROVE Spec => []AlwaysOneOpen
<1>1. UInv => AlwaysOneOpen
  BY FS_Singleton DEF UInv, OneOpenRow, AlwaysOneOpen
<1> QED BY <1>1, InductiveWithoutUndo, PTL

-----------------------------------------------------------------------------
(* Closures and timezone changes alone                                     *)

Locking == {"locked", "zoned", "anchored"}

(* A row locked is locked by one session, and what that session read of it *)
(* still stands when it writes.                                            *)
OneHolder ==
  \A s, t \in Sessions :
    /\ sess[s].at \in Locking /\ sess[t].at \in Locking
    /\ sess[s].id = sess[t].id /\ sess[s].id # None
    => s = t

LockedReadsStand ==
  \A s \in Sessions :
    sess[s].at \in Locking /\ sess[s].id # None
      => /\ sess[s].slot = table[sess[s].id].slot
         /\ sess[s].at = "anchored" => table[sess[s].id].status = "open"

(* Every slot closed is on a day before the open one.                      *)
Ordered ==
  \A i \in DoneIds(table), o \in OpenIds(table) : table[i].slot.day < table[o].slot.day

CInv ==
  /\ UInv
  /\ \A s \in Sessions : sess[s].at # "edited"
  /\ OneHolder /\ LockedReadsStand /\ Ordered

chain == <<table[OpenId(table)].slot, {table[i].slot : i \in DoneIds(table)}>>

(* A step that writes nothing: it takes no lock, or takes one nobody holds *)
(* and reads the row under it, or goes on under the one it has.            *)
LEMMA QuietKeeps ==
  ASSUME CInv, UInv', NEW s \in Sessions, NEW q, Goes(s, q), UNCHANGED table,
         q.at # "edited",
         q.at \in Locking /\ q.id # None =>
           /\ q.slot = table[q.id].slot
           /\ q.at = "anchored" => table[q.id].status = "open"
           /\ \A t \in Sessions \ {s} : ~(sess[t].at \in Locking /\ sess[t].id = q.id)
  PROVE  CInv' /\ UNCHANGED chain
<1>1. \A t \in Sessions : sess'[t] = IF t = s THEN q ELSE sess[t]
  BY DEF CInv, UInv, IInv, TypeOK, Goes
<1>2. OneHolder'
  BY <1>1 DEF CInv, OneHolder
<1>3. LockedReadsStand'
  BY <1>1 DEF CInv, LockedReadsStand
<1>4. /\ OpenIds(table)' = OpenIds(table) /\ DoneIds(table)' = DoneIds(table)
      /\ OpenId(table)' = OpenId(table)
  BY DEF OpenIds, DoneIds, OpenId
<1>5. Ordered'
  BY <1>4 DEF CInv, Ordered
<1>6. \A t \in Sessions : sess'[t].at # "edited"
  BY <1>1 DEF CInv
<1>7. UNCHANGED chain
  BY <1>4 DEF chain
<1> QED BY <1>2, <1>3, <1>5, <1>6, <1>7 DEF CInv

LEMMA EndedQuietly ==
  ASSUME CInv, UInv', NEW s \in Sessions, Ends(s), UNCHANGED table
  PROVE  CInv' /\ UNCHANGED chain
<1>1. Blank.at # "edited" /\ Blank.at \notin Locking
  BY DEF Blank, Locking
<1> QED BY <1>1, QuietKeeps DEF Ends

LEMMA GrantedAlone ==
  ASSUME NEW s \in Sessions, sess[s].at \in {"found", "scanned"}, Granted(s),
         sess[s].id # None, table[sess[s].id].status # "absent"
  PROVE  \A t \in Sessions \ {s} : ~(sess[t].at \in Locking /\ sess[t].id = sess[s].id)
<1>1. Waits(s) = RowHolders(sess[s].id) \ {s}
  BY DEF Waits, NeedsHousehold
<1>2. \A t \in Sessions : sess[t].at \in Locking /\ sess[t].id = sess[s].id
                            => t \in RowHolders(sess[s].id)
  BY DEF RowHolders, LocksRow, Locking
<1> QED BY <1>1, <1>2 DEF Granted

LEMMA AloneStill ==
  ASSUME CInv, NEW s \in Sessions, sess[s].at \in Locking, sess[s].id # None
  PROVE  \A t \in Sessions \ {s} : ~(sess[t].at \in Locking /\ sess[t].id = sess[s].id)
  BY DEF CInv, OneHolder

LEMMA CloseQuiet ==
  ASSUME CInv, UInv', NEW s \in Sessions, CloseFind(s) \/ CloseLock(s) \/ CloseReadZone(s)
  PROVE  CInv' /\ UNCHANGED chain
<1> UInv /\ IInv
  BY DEF CInv, UInv
<1>1. CASE CloseFind(s)
  <2> DEFINE q == [Blank EXCEPT !.at = "found", !.id = OpenId(table),
                                !.slot = table[OpenId(table)].slot]
  <2>1. q.at = "found" /\ Goes(s, q) /\ UNCHANGED table
    BY <1>1 DEF Blank, CloseFind
  <2> HIDE DEF q
  <2> QED BY <2>1, QuietKeeps DEF Locking
<1>2. CASE CloseLock(s)
  <2> DEFINE i == sess[s].id
             q == [sess[s] EXCEPT !.at = "locked", !.slot = table[i].slot]
  <2>1. /\ Ends(s) \/ (table[i].status # "absent" /\ Goes(s, q))
        /\ UNCHANGED table /\ sess[s].at = "found" /\ Granted(s)
    BY <1>2 DEF CloseLock
  <2>2. q.at = "locked" /\ q.id = i /\ q.slot = table[i].slot
    BY SessionAt
  <2> HIDE DEF q
  <2>3. CASE Ends(s)
    BY <2>1, <2>3, EndedQuietly
  <2>4. CASE table[i].status # "absent" /\ Goes(s, q)
    <3>1. i # None => \A t \in Sessions \ {s} : ~(sess[t].at \in Locking /\ sess[t].id = i)
      BY <2>1, <2>4, GrantedAlone
    <3> QED BY <2>1, <2>2, <2>4, <3>1, QuietKeeps
  <2> QED BY <2>1, <2>3, <2>4
<1>3. CASE CloseReadZone(s)
  <2> DEFINE q == [sess[s] EXCEPT !.at = "zoned", !.new = timezone]
  <2>1. Goes(s, q) /\ UNCHANGED table /\ sess[s].at = "locked"
    BY <1>3 DEF CloseReadZone
  <2>2. q.at = "zoned" /\ q.id = sess[s].id /\ q.slot = sess[s].slot
    BY SessionAt
  <2>3. q.id # None => /\ q.slot = table[q.id].slot
                       /\ \A t \in Sessions \ {s} : ~(sess[t].at \in Locking /\ sess[t].id = q.id)
    BY <2>1, <2>2, AloneStill DEF CInv, LockedReadsStand, Locking
  <2> HIDE DEF q
  <2> QED BY <2>1, <2>2, <2>3, QuietKeeps
<1> QED BY <1>1, <1>2, <1>3

LEMMA ZoneQuiet ==
  ASSUME CInv, UInv', NEW s \in Sessions,
         ZoneFind(s) \/ ZoneWrite(s) \/ ZoneScan(s) \/ ZoneLock(s)
  PROVE  CInv' /\ UNCHANGED chain
<1> UInv /\ IInv
  BY DEF CInv, UInv
<1>1. CASE ZoneFind(s)
  <2>1. PICK z : Goes(s, [Blank EXCEPT !.at = "loaded", !.old = timezone, !.new = z])
    BY <1>1 DEF ZoneFind
  <2> DEFINE q == [Blank EXCEPT !.at = "loaded", !.old = timezone, !.new = z]
  <2>2. q.at = "loaded" /\ Goes(s, q) /\ UNCHANGED table
    BY <1>1, <2>1 DEF Blank, ZoneFind
  <2> HIDE DEF q
  <2> QED BY <2>2, QuietKeeps DEF Locking
<1>2. CASE ZoneWrite(s)
  <2> DEFINE q == [sess[s] EXCEPT !.at = "moving"]
  <2>1. q.at = "moving" /\ Goes(s, q) /\ UNCHANGED table
    BY <1>2, SessionAt DEF ZoneWrite
  <2> HIDE DEF q
  <2> QED BY <2>1, QuietKeeps DEF Locking
<1>3. CASE ZoneScan(s)
  <2> DEFINE q == [sess[s] EXCEPT !.at = "scanned", !.id = OpenId(table)]
  <2>1. q.at = "scanned" /\ Goes(s, q) /\ UNCHANGED table
    BY <1>3, SessionAt DEF ZoneScan
  <2> HIDE DEF q
  <2> QED BY <2>1, QuietKeeps DEF Locking
<1>4. CASE ZoneLock(s)
  <2> DEFINE i == sess[s].id
             q == [sess[s] EXCEPT !.at = "anchored", !.slot = table[i].slot]
             r == [sess[s] EXCEPT !.at = "anchored", !.id = None]
  <2>1. /\ \/ i # None /\ table[i].status = "open" /\ Goes(s, q)
           \/ Goes(s, r)
        /\ UNCHANGED table /\ sess[s].at = "scanned" /\ Granted(s)
    BY <1>4 DEF ZoneLock
  <2>2. /\ q.at = "anchored" /\ q.id = i /\ q.slot = table[i].slot
        /\ r.at = "anchored" /\ r.id = None
    BY SessionAt
  <2> HIDE DEF q, r
  <2>3. CASE i # None /\ table[i].status = "open" /\ Goes(s, q)
    <3>1. \A t \in Sessions \ {s} : ~(sess[t].at \in Locking /\ sess[t].id = i)
      BY <2>1, <2>3, GrantedAlone
    <3> QED BY <2>1, <2>2, <2>3, <3>1, QuietKeeps
  <2>4. CASE Goes(s, r)
    BY <2>1, <2>2, <2>4, QuietKeeps
  <2> QED BY <2>1, <2>3, <2>4
<1> QED BY <1>1, <1>2, <1>3, <1>4

(* A commit of somebody else leaves the rows under a lock alone.           *)
LEMMA LocksSurvive ==
  ASSUME CInv, NEW s \in Sessions, Ends(s),
         \A t \in Sessions \ {s} :
           sess[t].at \in Locking /\ sess[t].id # None => table'[sess[t].id] = table[sess[t].id]
  PROVE  /\ \A t \in Sessions : sess'[t].at # "edited"
         /\ OneHolder' /\ LockedReadsStand'
<1>1. \A t \in Sessions : sess'[t] = IF t = s THEN Blank ELSE sess[t]
  BY DEF CInv, UInv, IInv, TypeOK, Ends, Goes
<1>2. Blank.at # "edited" /\ Blank.at \notin Locking
  BY DEF Blank, Locking
<1>3. OneHolder'
  BY <1>1, <1>2 DEF CInv, OneHolder
<1>4. LockedReadsStand'
  BY <1>1, <1>2 DEF CInv, LockedReadsStand
<1> QED BY <1>1, <1>2, <1>3, <1>4 DEF CInv

(* A row under a lock is there.                                            *)
LEMMA LockedIsPresent ==
  ASSUME CInv, NEW t \in Sessions, sess[t].at \in Locking, sess[t].id # None
  PROVE  sess[t].id \in Ids /\ table[sess[t].id].status # "absent"
<1>1. sess[t].id \in Ids
  BY SessionFields DEF CInv, UInv, IInv
<1>2. sess[t].at \in {"locked", "zoned"} => sess[t].id \in Present(table)
  BY DEF CInv, UInv, RowsStay, Holding
<1>3. sess[t].at = "anchored" => table[sess[t].id].status = "open"
  BY DEF CInv, LockedReadsStand
<1> QED BY <1>1, <1>2, <1>3 DEF Present, Locking

(* A closure files the open slot away and opens the day after it.          *)
LEMMA CloseCommitChains ==
  ASSUME CInv, UInv', NEW s \in Sessions, CloseCommit(s)
  PROVE  CInv' /\ (Chain!Close \/ UNCHANGED chain)
<1> DEFINE i == sess[s].id
           o == OpenId(table)
           closed == [table EXCEPT ![i].status = "done", ![i].zone = sess[s].new]
           slot == Free(closed, sess[s].slot.day + 1, sess[s].slot.grid)
           after == [closed EXCEPT ![nextId] = OpenRow(slot)]
<1>1. sess[s].at = "zoned" /\ Commits(s, after, nextId + 1)
  BY DEF CloseCommit
<1>2. UInv /\ IInv /\ table \in Table
  BY BoundsAtHand DEF CInv, UInv
<1>3. /\ i \in Ids /\ nextId \in Ids /\ i # nextId /\ table[nextId].status = "absent"
      /\ i = o => /\ OpenIds(after) = {nextId} /\ DoneIds(after) = DoneIds(table) \cup {i}
      /\ i # o => ~ConstraintsHold(after)
  <2> HIDE DEF slot
  <2> QED BY <1>1, <1>2, CloseCommitTable
<1>4. closed \in Table /\ \A j \in Ids : closed[j].slot = table[j].slot
  <2>1. closed \in Table
    BY <1>2, RowChanges, SessionFields DEF Table, IInv
  <2>2. \A j \in Ids : closed[j].slot = table[j].slot
    BY <1>2, RowFields DEF Table, Row
  <2> QED BY <2>1, <2>2
<1>5. DoneIds(closed) = DoneIds(table) \cup {i}
  BY <1>2, <1>3, RowFields DEF Table, Row, DoneIds
<1>6. \A j \in Ids \ {i} : closed[j] = table[j]
  BY <1>2 DEF Table
<1>7. /\ after[nextId] = OpenRow(slot)
      /\ \A j \in Ids \ {nextId} : after[j] = closed[j]
  BY <1>3, <1>4 DEF Table
<1> HIDE DEF after, closed
<1>8. CASE ~ConstraintsHold(after)
  BY <1>1, <1>8, EndedQuietly DEF Commits
<1>9. CASE ConstraintsHold(after)
  <2>1. table' = after /\ Ends(s) /\ i = o
    BY <1>1, <1>3, <1>9 DEF Commits
  <2>2. sess[s].slot = table[o].slot /\ o \in Ids
    BY <1>1, <1>3, <2>1 DEF CInv, LockedReadsStand, Locking, Ids, None
  <2> DEFINE last == table[o].slot.day + 1
             grid == table[o].slot.grid
  <2>3. table[o].slot.day \in 0..MaxDay /\ last \in Nat /\ last <= MaxDay /\ grid \in Grids
    <3>1. s \in Active
      BY <1>1 DEF Active
    <3>2. /\ table[o].slot.day <= EditMoves * Answered /\ EditMoves * (Answered + 1) <= MaxDay
          /\ Answered \in Nat /\ MaxDay \in Nat
      BY <1>2, <2>2, <3>1, BoundsAtHand DEF IInv, Within
    <3>3. table[o].slot.day \in 0..MaxDay /\ grid \in Grids
      BY <1>2, <2>2, RowFields
    <3> QED BY <3>2, <3>3 DEF EditMoves
  <2>4. \A j \in DoneIds(table) : table[j].slot.day \in 0..MaxDay /\ table[j].slot.day < table[o].slot.day
    BY <1>2, RowFields, OneOpenId DEF CInv, Ordered, DoneIds
  <2>5. \A j \in DoneIds(closed) : closed[j].slot.day < last
    BY <1>3, <1>4, <1>5, <2>1, <2>3, <2>4 DEF DoneIds
  <2>6. slot = [day |-> last, grid |-> grid]
    <3> HIDE DEF last, grid
    <3>1. slot = Free(closed, last, grid)
      BY <2>2 DEF last, grid
    <3> HIDE DEF slot
    <3>2. last <= last
      BY <2>3
    <3> QED BY <1>4, <2>3, <2>5, <3>1, <3>2, FreeFacts
  <2> HIDE DEF slot
  <2>7. /\ table'[nextId].slot = slot
        /\ \A j \in Ids \ {nextId} : table'[j].slot = table[j].slot
        /\ OpenIds(table') = {nextId} /\ DoneIds(table') = DoneIds(table) \cup {o}
    BY <1>3, <1>4, <1>7, <2>1 DEF OpenRow
  <2>8. \A t \in Sessions \ {s} :
          sess[t].at \in Locking /\ sess[t].id # None => table'[sess[t].id] = table[sess[t].id]
    <3> SUFFICES ASSUME NEW t \in Sessions \ {s}, sess[t].at \in Locking, sess[t].id # None
                 PROVE  table'[sess[t].id] = table[sess[t].id]
      OBVIOUS
    <3>1. sess[t].id \in Ids /\ sess[t].id # nextId
      BY <1>3, LockedIsPresent
    <3>2. sess[s].at \in Locking /\ i # None
      BY <1>1, <1>3 DEF Locking, Ids, None
    <3>3. sess[t].id # i
      BY <3>2, AloneStill
    <3> QED BY <1>6, <1>7, <2>1, <3>1, <3>3
  <2>9. /\ \A t \in Sessions : sess'[t].at # "edited"
        /\ OneHolder' /\ LockedReadsStand'
    BY <2>1, <2>8, LocksSurvive
  <2>10. \A j \in DoneIds(table') : j \in Ids \ {nextId} /\ table'[j].slot.day < last
    <3> SUFFICES ASSUME NEW j \in DoneIds(table) \cup {o}
                 PROVE  j \in Ids \ {nextId} /\ table'[j].slot.day < last
      BY <2>7
    <3>1. j \in Ids \ {nextId}
      BY <1>3, <2>1, <2>2 DEF DoneIds
    <3>2. table[j].slot.day \in 0..MaxDay /\ table[j].slot.day <= table[o].slot.day
      BY <2>3, <2>4
    <3>3. table'[j].slot = table[j].slot
      BY <2>7, <3>1
    <3> QED BY <2>3, <3>1, <3>2, <3>3
  <2>11. Ordered'
    BY <2>6, <2>7, <2>10 DEF Ordered
  <2>12. OpenId(table') = nextId
    BY <1>3, <2>7, OpenIdType
  <2>13. {table'[j].slot : j \in DoneIds(table')}
           = {table[j].slot : j \in DoneIds(table)} \cup {table[o].slot}
    BY <2>2, <2>7, <2>10
  <2>14. table[o].slot \notin {table[j].slot : j \in DoneIds(table)}
    BY <2>3, <2>4
  <2>15. slot \in Slot /\ slot.day > table[o].slot.day /\ slot.grid = table[o].slot.grid
    BY <2>3, <2>6 DEF Slot
  <2>16. table'[OpenId(table')].slot = slot
    BY <2>7, <2>12
  <2>17. Chain!Close
    BY <2>13, <2>14, <2>15, <2>16 DEF Chain!Close, Chain!Slot, Slot
  <2> QED BY <2>9, <2>11, <2>17 DEF CInv
<1> QED BY <1>8, <1>9

(* A timezone change re-dates the open slot on its day.                    *)
LEMMA ZoneCommitChains ==
  ASSUME CInv, UInv', NEW s \in Sessions, ZoneCommit(s)
  PROVE  CInv' /\ (Chain!Redate \/ UNCHANGED chain)
<1> DEFINE i == sess[s].id
           o == OpenId(table)
           slot == Reanchored(sess[s].slot, sess[s].old, sess[s].new)
           moved == [table EXCEPT ![i].slot = slot]
           after == IF i = None THEN table ELSE moved
<1>1. sess[s].at = "anchored" /\ Commits(s, after, nextId)
  BY DEF ZoneCommit
<1>2. UInv /\ IInv /\ table \in Table
  BY BoundsAtHand DEF CInv, UInv
<1>3. CASE i = None \/ ~ConstraintsHold(after)
  <2>1. Ends(s) /\ UNCHANGED table
    BY <1>1, <1>3 DEF Commits
  <2> QED BY <2>1, EndedQuietly
<1>4. CASE i # None /\ ConstraintsHold(after)
  <2>1. table' = moved /\ Ends(s)
    BY <1>1, <1>4 DEF Commits
  <2>2. i \in Ids /\ i = o /\ OpenIds(table) = {o} /\ sess[s].slot = table[o].slot
    <3>1. i \in Ids /\ table[i].status = "open" /\ sess[s].slot = table[i].slot
      BY <1>1, <1>4, LockedIsPresent DEF CInv, LockedReadsStand, Locking
    <3>2. OpenIds(table) = {o}
      BY <1>2, OneOpenId
    <3> QED BY <3>1, <3>2 DEF OpenIds
  <2> DEFINE day == table[o].slot.day
             grid == IF sess[s].slot.grid = sess[s].old THEN sess[s].new ELSE "off"
  <2>3. day \in 0..MaxDay /\ MaxDay \in Nat /\ grid \in Grids
    BY <1>2, <2>2, RowFields, SessionFields, BoundAssumption DEF Grids, IInv
  <2>4. \A j \in DoneIds(table) : table[j].slot.day < day
    BY <2>2 DEF CInv, Ordered
  <2>5. slot = [day |-> day, grid |-> grid]
    <3>1. slot = Free(table, day, grid)
      BY <2>2 DEF Reanchored
    <3> HIDE DEF slot, day, grid
    <3>2. day \in Nat /\ day <= MaxDay /\ day <= day
      BY <2>3
    <3> QED BY <1>2, <2>4, <3>1, <3>2, FreeFacts
  <2>6. \A j \in Ids : /\ table'[j].status = table[j].status
                       /\ table'[j].slot = (IF j = o THEN slot ELSE table[j].slot)
                       /\ j # o => table'[j] = table[j]
    <3> HIDE DEF slot
    <3> QED BY <1>2, <2>1, <2>2, RowFields DEF Table, Row
  <2> HIDE DEF slot, moved
  <2>7. OpenIds(table') = {o} /\ DoneIds(table') = DoneIds(table) /\ o \notin DoneIds(table)
    BY <2>2, <2>6 DEF OpenIds, DoneIds
  <2>8. \A t \in Sessions \ {s} :
          sess[t].at \in Locking /\ sess[t].id # None => table'[sess[t].id] = table[sess[t].id]
    <3> SUFFICES ASSUME NEW t \in Sessions \ {s}, sess[t].at \in Locking, sess[t].id # None
                 PROVE  table'[sess[t].id] = table[sess[t].id]
      OBVIOUS
    <3>1. sess[t].id \in Ids
      BY LockedIsPresent
    <3>2. sess[t].id # o
      BY <1>1, <1>4, <2>2, AloneStill DEF Locking
    <3> QED BY <2>6, <3>1, <3>2
  <2>9. /\ \A t \in Sessions : sess'[t].at # "edited"
        /\ OneHolder' /\ LockedReadsStand'
    BY <2>1, <2>8, LocksSurvive
  <2>10. table'[o].slot = slot /\ \A j \in DoneIds(table) : table'[j].slot = table[j].slot
    BY <2>2, <2>6, <2>7 DEF DoneIds
  <2>11. Ordered'
    BY <2>4, <2>5, <2>7, <2>10 DEF Ordered
  <2>12. OpenId(table') = o
    BY <2>2, <2>7, OpenIdType
  <2>13. {table'[j].slot : j \in DoneIds(table')} = {table[j].slot : j \in DoneIds(table)}
    BY <2>7, <2>10
  <2>14. slot \in Slot /\ slot.day = table[o].slot.day
    BY <2>3, <2>5 DEF Slot
  <2>15. Chain!Redate
    BY <2>10, <2>12, <2>13, <2>14 DEF Chain!Redate, Chain!Slot, Slot
  <2> QED BY <2>9, <2>11, <2>15 DEF CInv
<1> QED BY <1>3, <1>4

LEMMA CInitHolds ==
  ASSUME Init PROVE CInv /\ Chain!Init
<1>1. UInv /\ IInv /\ 1 \in Ids
  BY UInitHolds, BoundAssumption DEF UInv, Ids
<1>2. \A i \in Ids : table[i].status = IF i = 1 THEN "open" ELSE "absent"
  BY DEF Init, OpenRow
<1>3. OpenIds(table) = {1} /\ DoneIds(table) = {}
  BY <1>1, <1>2 DEF OpenIds, DoneIds
<1>4. \A s \in Sessions : sess[s].at # "edited" /\ sess[s].at \notin Locking
  BY DEF Init, Blank, Locking
<1>5. CInv
  BY <1>1, <1>3, <1>4 DEF CInv, OneHolder, LockedReadsStand, Ordered
<1>6. table[OpenId(table)].slot \in Slot
  BY <1>1, <1>3, OpenIdType, SlotsAtHand
<1>7. Chain!Init
  BY <1>3, <1>6 DEF Chain!Init, Chain!Slot, Slot
<1> QED BY <1>5, <1>7

LEMMA OnlyClosuresAndZones ==
  ASSUME CInv, Kinds \subseteq {"close", "zone"}, NEW s \in Sessions
  PROVE  "undo" \notin Kinds /\ ~EditRead(s) /\ ~EditCommit(s)
  BY DEF CInv, EditRead, Begins, EditCommit

LEMMA CStepKeeps ==
  ASSUME CInv, Kinds \subseteq {"close", "zone"}, [Next]_vars
  PROVE  CInv' /\ (Chain!Next \/ UNCHANGED chain)
<1>1. UInv /\ UInv' /\ "undo" \notin Kinds
  <2>1. "undo" \notin Kinds
    OBVIOUS
  <2> QED BY <2>1, UStepKeeps DEF CInv
<1> DEFINE Goal == CInv' /\ (Chain!Next \/ UNCHANGED chain)
<1>2. ASSUME NEW s \in Sessions, Begin(s) PROVE Goal
  BY <1>1, <1>2, CloseQuiet, ZoneQuiet, NoUndoSteps, OnlyClosuresAndZones DEF Begin
<1>3. ASSUME NEW s \in Sessions, Continue(s) PROVE Goal
  BY <1>1, <1>3, CloseQuiet, ZoneQuiet, CloseCommitChains, ZoneCommitChains, NoUndoSteps,
     OnlyClosuresAndZones DEF Continue, Chain!Next
<1>4. ASSUME NEW s \in Sessions, DeadlockAbort(s) PROVE Goal
  BY <1>1, <1>4, EndedQuietly DEF DeadlockAbort
<1>5. CASE UNCHANGED vars
  <2>1. /\ OpenIds(table)' = OpenIds(table) /\ DoneIds(table)' = DoneIds(table)
        /\ OpenId(table)' = OpenId(table)
    BY <1>5 DEF vars, OpenIds, DoneIds, OpenId
  <2> QED BY <1>1, <1>5, <2>1 DEF vars, CInv, OneHolder, LockedReadsStand, Ordered, chain
<1> QED BY <1>2, <1>3, <1>4, <1>5 DEF Next

(* Any number of closures and timezone changes of one chore, cut at their  *)
(* statements and run side by side, look to the chore like closures and    *)
(* re-datings made one at a time: each closure files away the slot that    *)
(* was open and opens a later one of its grid, each change of timezone     *)
(* keeps the day, and no slot closed ever moves (app/core/occurrences.py). *)
THEOREM ImplementsChainAlways ==
  ASSUME Kinds \subseteq {"close", "zone"} PROVE Spec => ImplementsChain
<1>1. Init => CInv /\ Chain!Init
  BY CInitHolds
<1>2. CInv /\ [Next]_vars => CInv' /\ [Chain!Next]_chain
  BY CStepKeeps
<1> QED BY <1>1, <1>2, PTL DEF Spec, ImplementsChain, Chain!Spec, chain
=============================================================================
