---------------------------- MODULE Chores_proofs ---------------------------
(***************************************************************************)
(* What Chores promises for every set of users, chores, payloads, zones    *)
(* and instants, in three parts: its rows and what no step does to them,   *)
(* then turn taking, then the slots.  The first part's inductive invariant *)
(* adds to the properties what they rest on: ids are unique and below the  *)
(* sequence, and no row exists for a chore that was never created.         *)
(***************************************************************************)
EXTENDS Chores, FiniteSetTheorems, WellFoundedInduction, TLAPS

IdsAreHandedOut == \A r \in rows : r.id < nextId

IdsAreUnique == \A r, s \in rows : r.id = s.id => r = s

RowsHaveChores == \A r \in rows : chore[r.chore].life # "unused"

IInv ==
  /\ TypeOK
  /\ IdsAreHandedOut
  /\ IdsAreUnique
  /\ RowsHaveChores
  /\ OneOpenPerChore
  /\ OpenRowIsNewest
  /\ ClosureIsWhole
  /\ NoFutureClosure

-----------------------------------------------------------------------------
(* Timestamps are integers, never NULL.                                    *)
LEMMA InstantFacts ==
  Instants \subseteq Int /\ Clock \subseteq Instants /\ NoDate \notin Instants
BY ZoneAssumption, ClockAssumption

(* Every strategy answers with a member of the pool or with nobody.        *)
LEMMA InitialAssigneesType ==
  ASSUME NEW strategy \in Strategies, NEW pool, NEW counts
  PROVE  InitialAssignees(strategy, pool, counts) \subseteq pool \cup {NoUser}
BY DEF InitialAssignees, Firsts, LeastDone, Strategies

(* A handover stays in the pool, or with whoever had the chore.            *)
LEMMA NextAssigneesType ==
  ASSUME NEW strategy \in Strategies, NEW pool, NEW current, NEW counts
  PROVE  NextAssignees(strategy, pool, current, counts)
           \subseteq pool \cup {current, NoUser}
<1>1. CASE strategy = "manual"
  BY <1>1 DEF NextAssignees
<1>2. CASE strategy # "manual" /\ current \notin pool
  BY <1>2, InitialAssigneesType DEF NextAssignees
<1>3. CASE strategy # "manual" /\ current \in pool
  BY <1>3 DEF NextAssignees, Handover, Following, LeastDoneNext, Firsts,
              LeastDone, Strategies
<1> QED BY <1>1, <1>2, <1>3

(* The three derivations of the chores router stay within the users.       *)
LEMMA SuccessorAssigneesType ==
  ASSUME TypeOK, NEW c \in ChoreIds, NEW R, NEW current \in UserOrNull
  PROVE  /\ SuccessorAssignees(R, c, current) \subseteq UserOrNull
         /\ RetainedAssignees(R, c, current) \subseteq UserOrNull
<1>1. chore[c].strategy \in Strategies /\ chore[c].pool \subseteq Users
  BY DEF TypeOK, Chore
<1>2. StrategyPick(R, c, chore[c].strategy, chore[c].pool) \subseteq UserOrNull
  BY <1>1, InitialAssigneesType DEF StrategyPick, UserOrNull
<1>3. \A x \in UserOrNull :
        NextAssignees(chore[c].strategy, chore[c].pool, x, Tally(R, c))
          \subseteq UserOrNull
  <2> SUFFICES ASSUME NEW x \in UserOrNull
               PROVE  NextAssignees(chore[c].strategy, chore[c].pool, x, Tally(R, c))
                        \subseteq UserOrNull
    OBVIOUS
  <2>1. NextAssignees(chore[c].strategy, chore[c].pool, x, Tally(R, c))
          \subseteq chore[c].pool \cup {x, NoUser}
    BY <1>1, NextAssigneesType
  <2> QED BY <1>1, <2>1 DEF UserOrNull
<1>4. SuccessorAssignees(R, c, current) \subseteq UserOrNull
  <2> DEFINE held == IF current \in chore[c].pool THEN current ELSE NoUser
  <2>1. held \in UserOrNull
    BY DEF UserOrNull
  <2>2. NextAssignees(chore[c].strategy, chore[c].pool, held, Tally(R, c))
          \subseteq UserOrNull
    BY <1>3, <2>1
  <2>3. {NoUser} \subseteq UserOrNull
    BY DEF UserOrNull
  <2> QED BY <1>2, <2>2, <2>3 DEF SuccessorAssignees
<1>5. RetainedAssignees(R, c, current) \subseteq UserOrNull
  BY <1>2 DEF RetainedAssignees, UserOrNull
<1> QED BY <1>4, <1>5

(* Likewise an edit's, from a validated payload.                           *)
LEMMA ReconciledAssigneesType ==
  ASSUME NEW c \in ChoreIds, NEW p \in Payloads, NEW R, NEW current \in UserOrNull
  PROVE  ReconciledAssignees(R, c, p, current) \subseteq UserOrNull
<1>1. p.strategy \in Strategies /\ p.pool \subseteq Users /\ p.current \in UserOrNull
  BY PayloadAssumption DEF Payload
<1>2. StrategyPick(R, c, p.strategy, p.pool) \subseteq UserOrNull
  BY <1>1, InitialAssigneesType DEF StrategyPick, UserOrNull
<1> QED BY <1>1, <1>2 DEF ReconciledAssignees, UserOrNull

-----------------------------------------------------------------------------
(* What the invariant says of the open row of a chore.                     *)
LEMMA OpenRowFacts ==
  ASSUME IInv, NEW c \in ChoreIds, NEW occ \in OpenOf(rows, c)
  PROVE  /\ occ \in Row /\ occ \in rows /\ occ.chore = c /\ occ.status = "open"
         /\ occ.id \in Nat /\ occ.id < nextId
         /\ \A r \in rows : r.chore = c /\ r.status = "open" => r = occ
         /\ \A r \in rows : r.chore = c /\ r.status = "done" => r.id < occ.id
         /\ occ.by = NoUser /\ occ.at = NoDate /\ occ.zone = NoZone /\ ~occ.skipped
<1>1. occ \in rows /\ occ.chore = c /\ occ.status = "open"
  BY DEF OpenOf
<1>2. occ \in Row /\ occ.id \in Nat /\ occ.id < nextId
  BY <1>1 DEF IInv, TypeOK, Row, IdsAreHandedOut
<1>3. \E r \in rows : OpenOf(rows, c) = {r}
  BY <1>1 DEF IInv, RowsHaveChores, OneOpenPerChore
<1>4. \A r \in rows : r.chore = c /\ r.status = "open" => r = occ
  BY <1>3 DEF OpenOf
<1>5. \A r \in rows : r.chore = c /\ r.status = "done" => r.id < occ.id
  BY DEF IInv, OpenRowIsNewest, DoneOf
<1>6. occ.by = NoUser /\ occ.at = NoDate /\ occ.zone = NoZone /\ ~occ.skipped
  BY <1>1 DEF IInv, ClosureIsWhole
<1> QED BY <1>1, <1>2, <1>4, <1>5, <1>6

-----------------------------------------------------------------------------
(* A chore is born with one blank open row.                                *)
LEMMA CreateKeepsIInv ==
  ASSUME IInv, NEW u \in Users, NEW c \in ChoreIds, NEW p \in Payloads,
         NEW t \in Clock, Create(u, c, p, t)
  PROVE  IInv'
<1>1. PICK slot \in Instants, a \in UserOrNull :
        rows' = rows \cup {OpenRow(nextId, c, slot, a)}
  <2>1. p.strategy \in Strategies /\ p.pool \subseteq Users /\ p.current \in UserOrNull
    BY PayloadAssumption DEF Payload
  <2>2. StrategyPick(rows, c, p.strategy, p.pool) \subseteq UserOrNull
    BY <2>1, InitialAssigneesType DEF StrategyPick, UserOrNull
  <2>3. NoUser \in UserOrNull
    BY DEF UserOrNull
  <2> QED BY <2>1, <2>2, <2>3 DEF Create
<1> DEFINE new == OpenRow(nextId, c, slot, a)
<1>2. nextId \in Nat /\ rows \subseteq Row /\ now \in Int /\ t \in Int
  BY InstantFacts DEF IInv, TypeOK
<1>3. /\ new \in Row /\ new.id = nextId /\ new.chore = c /\ new.status = "open"
      /\ new.by = NoUser /\ new.at = NoDate /\ new.zone = NoZone /\ new.skipped = FALSE
  BY <1>2 DEF OpenRow, Row, UserOrNull
<1>4. /\ nextId' = nextId + 1 /\ timezone' = timezone /\ now' = t /\ now <= t
      /\ chore' = [chore EXCEPT ![c] = Configured(p)] /\ chore[c].life = "unused"
  BY DEF Create, ReadClock
<1>5. \A r \in rows : r.chore # c
  BY <1>4 DEF IInv, RowsHaveChores
<1> HIDE DEF new
<1>6. TypeOK'
  <2>1. Configured(p) \in Chore
    BY PayloadAssumption DEF Payload, Configured, Chore
  <2> QED BY <1>1, <1>2, <1>3, <1>4, <2>1 DEF IInv, TypeOK, new
<1>7. rows' = rows \cup {new}
  BY <1>1 DEF new
<1>8. IdsAreHandedOut' /\ IdsAreUnique'
  BY <1>2, <1>3, <1>4, <1>7 DEF IInv, IdsAreHandedOut, IdsAreUnique, Row
<1>9. \A d \in ChoreIds : chore'[d].life = IF d = c THEN "live" ELSE chore[d].life
  BY <1>4 DEF IInv, TypeOK, Configured
<1>10. RowsHaveChores'
  BY <1>2, <1>3, <1>7, <1>9 DEF IInv, RowsHaveChores, Row
<1>11. OneOpenPerChore'
  <2> SUFFICES ASSUME NEW d \in ChoreIds, chore'[d].life # "unused"
               PROVE  \E r \in rows' : OpenOf(rows', d) = {r}
    BY DEF OneOpenPerChore
  <2>1. CASE d = c
    <3>1. OpenOf(rows', d) = {new}
      BY <1>3, <1>5, <1>7, <2>1 DEF OpenOf
    <3> QED BY <3>1, <1>7
  <2>2. CASE d # c
    <3>1. OpenOf(rows', d) = OpenOf(rows, d)
      BY <1>3, <1>7, <2>2 DEF OpenOf
    <3> QED BY <3>1, <1>7, <1>9, <2>2 DEF IInv, OneOpenPerChore
  <2> QED BY <2>1, <2>2
<1>12. OpenRowIsNewest'
  BY <1>3, <1>5, <1>7 DEF IInv, OpenRowIsNewest, OpenOf, DoneOf
<1>13. ClosureIsWhole'
  BY <1>3, <1>7 DEF IInv, ClosureIsWhole
<1>14. NoFutureClosure'
  <2>1. \A r \in rows : r.status = "done" => r.at \in Int
    BY <1>2, InstantFacts DEF IInv, ClosureIsWhole, Row
  <2> QED BY <1>2, <1>3, <1>4, <1>7, <2>1 DEF IInv, NoFutureClosure
<1> QED BY <1>6, <1>8, <1>10, <1>11, <1>12, <1>13, <1>14 DEF IInv

(* What a closure writes, without the arithmetic behind its slot.          *)
LEMMA ClosePicks ==
  ASSUME IInv, NEW c \in ChoreIds, NEW by \in Users, NEW skipped \in BOOLEAN,
         NEW backdate \in BOOLEAN, NEW t \in Clock, Close(c, by, skipped, backdate, t)
  PROVE  \E occ \in OpenOf(rows, c), at \in Instants, slot \in Instants, a \in UserOrNull :
           /\ at <= t
           /\ rows' = CloseRow(rows, occ, by, at, skipped) \cup {OpenRow(nextId, c, slot, a)}
<1>1. PICK occ \in OpenOf(rows, c) :
        LET at      == ClosureInstant(occ, t, backdate)
            history == CloseRow(rows, occ, by, at, skipped)
            slot    == SuccessorSlot(history, c, occ, at)
        IN  /\ at \in Instants
            /\ slot \in Instants
            /\ \E a \in IF skipped THEN RetainedAssignees(history, c, occ.assignee)
                        ELSE SuccessorAssignees(history, c, occ.assignee) :
                 rows' = history \cup {OpenRow(nextId, c, slot, a)}
  BY DEF Close
<1> DEFINE at      == ClosureInstant(occ, t, backdate)
           history == CloseRow(rows, occ, by, at, skipped)
           slot    == SuccessorSlot(history, c, occ, at)
<1>2. at \in Instants /\ slot \in Instants
  BY <1>1
<1>3. at <= t
  <2>1. at \in Int /\ t \in Int
    BY <1>2, InstantFacts
  <2> QED BY <2>1 DEF ClosureInstant, Earlier
<1>4. occ.assignee \in UserOrNull
  BY OpenRowFacts DEF Row
<1>5. PICK a \in UserOrNull : rows' = history \cup {OpenRow(nextId, c, slot, a)}
  BY <1>1, <1>4, SuccessorAssigneesType DEF IInv
<1> HIDE DEF at, slot
<1> QED BY <1>2, <1>3, <1>5

(* A closure turns the open row into the newest done row and appends a     *)
(* younger open one.                                                       *)
LEMMA CloseKeepsIInv ==
  ASSUME IInv, NEW c \in ChoreIds, NEW by \in Users, NEW skipped \in BOOLEAN,
         NEW backdate \in BOOLEAN, NEW t \in Clock, Close(c, by, skipped, backdate, t)
  PROVE  IInv'
<1>1. /\ nextId' = nextId + 1 /\ timezone' = timezone /\ chore' = chore
      /\ now' = t /\ now <= t /\ now \in Int /\ t \in Int
      /\ nextId \in Nat /\ rows \subseteq Row /\ timezone \in Zones
  BY InstantFacts DEF Close, ReadClock, IInv, TypeOK
<1>2. PICK occ \in OpenOf(rows, c), at \in Instants, slot \in Instants, a \in UserOrNull :
        /\ at <= t
        /\ rows' = CloseRow(rows, occ, by, at, skipped) \cup {OpenRow(nextId, c, slot, a)}
  BY ClosePicks
<1>3. /\ occ \in Row /\ occ \in rows /\ occ.chore = c /\ occ.status = "open"
      /\ occ.id \in Nat /\ occ.id < nextId
      /\ \A r \in rows : r.chore = c /\ r.status = "open" => r = occ
      /\ \A r \in rows : r.chore = c /\ r.status = "done" => r.id < occ.id
  BY OpenRowFacts
<1> DEFINE old == Closed(occ, by, at, skipped)
           new == OpenRow(nextId, c, slot, a)
<1>4. /\ new \in Row /\ new.id = nextId /\ new.chore = c /\ new.status = "open"
      /\ new.by = NoUser /\ new.at = NoDate /\ new.zone = NoZone /\ new.skipped = FALSE
  BY <1>1 DEF OpenRow, Row, UserOrNull
<1>5. /\ old \in Row /\ old.id = occ.id /\ old.chore = c /\ old.status = "done"
      /\ old.by # NoUser /\ old.at = at /\ old.zone # NoZone
  BY <1>1, <1>3, ZoneAssumption, UserAssumption DEF Closed, Row, UserOrNull
<1>6. rows' = ((rows \ {occ}) \cup {old}) \cup {new}
  BY <1>2 DEF CloseRow
<1>7. old.at <= t /\ old.at # NoDate
  BY <1>2, <1>5, InstantFacts
<1> HIDE DEF old, new
<1>8. TypeOK'
  BY <1>1, <1>4, <1>5, <1>6 DEF IInv, TypeOK
<1>9. IdsAreHandedOut'
  BY <1>1, <1>3, <1>4, <1>5, <1>6 DEF IInv, IdsAreHandedOut, Row
<1>10. IdsAreUnique'
  BY <1>1, <1>3, <1>4, <1>5, <1>6 DEF IInv, IdsAreHandedOut, IdsAreUnique, Row
<1>11. RowsHaveChores'
  BY <1>1, <1>3, <1>4, <1>5, <1>6 DEF IInv, RowsHaveChores
<1>12. OneOpenPerChore'
  <2> SUFFICES ASSUME NEW d \in ChoreIds, chore[d].life # "unused"
               PROVE  \E r \in rows' : OpenOf(rows', d) = {r}
    BY <1>1 DEF OneOpenPerChore
  <2>1. CASE d = c
    <3>1. OpenOf(rows', d) = {new}
      BY <1>3, <1>4, <1>5, <1>6, <2>1 DEF OpenOf
    <3> QED BY <3>1, <1>6
  <2>2. CASE d # c
    <3>1. OpenOf(rows', d) = OpenOf(rows, d)
      BY <1>3, <1>4, <1>5, <1>6, <2>2 DEF OpenOf
    <3>2. PICK r \in rows : OpenOf(rows, d) = {r}
      BY DEF IInv, OneOpenPerChore
    <3>3. r \in rows'
      BY <3>1, <3>2 DEF OpenOf
    <3> QED BY <3>1, <3>2, <3>3
  <2> QED BY <2>1, <2>2
<1>13. OpenRowIsNewest'
  <2> SUFFICES ASSUME NEW d \in ChoreIds, NEW o \in OpenOf(rows', d),
                      NEW e \in DoneOf(rows', d)
               PROVE  e.id < o.id
    BY DEF OpenRowIsNewest
  <2>1. CASE d = c
    <3>1. o = new
      BY <1>3, <1>4, <1>5, <1>6, <2>1 DEF OpenOf
    <3>2. e = old \/ e \in rows
      BY <1>4, <1>6 DEF DoneOf
    <3> QED BY <1>3, <1>4, <1>5, <3>1, <3>2 DEF IInv, IdsAreHandedOut
  <2>2. CASE d # c
    <3>1. o \in OpenOf(rows, d) /\ e \in DoneOf(rows, d)
      BY <1>3, <1>4, <1>5, <1>6, <2>2 DEF OpenOf, DoneOf
    <3> QED BY <3>1 DEF IInv, OpenRowIsNewest
  <2> QED BY <2>1, <2>2
<1>14. ClosureIsWhole'
  BY <1>4, <1>5, <1>6, <1>7 DEF IInv, ClosureIsWhole
<1>15. NoFutureClosure'
  <2>1. \A r \in rows : r.status = "done" => r.at \in Int
    BY <1>1, InstantFacts DEF IInv, ClosureIsWhole, Row
  <2> QED BY <1>1, <1>4, <1>6, <1>7, <2>1 DEF IInv, NoFutureClosure
<1> QED BY <1>8, <1>9, <1>10, <1>11, <1>12, <1>13, <1>14, <1>15 DEF IInv

(* Replacing an open row by one that differs in slot and assignee alone    *)
(* disturbs nothing: what an edit does to a chore.                         *)
LEMMA UpdateKeepsIInv ==
  ASSUME IInv, NEW u \in Users, NEW c \in ChoreIds, NEW p \in Payloads, Update(u, c, p)
  PROVE  IInv'
<1>1. /\ nextId' = nextId /\ timezone' = timezone /\ now' = now
      /\ chore' = [chore EXCEPT ![c] = Configured(p)] /\ chore[c].life = "live"
      /\ nextId \in Nat /\ rows \subseteq Row /\ timezone \in Zones /\ now \in Int
  BY DEF Update, Live, IInv, TypeOK
<1>2. PICK occ \in OpenOf(rows, c) :
        LET slot == ReconciledSlot(rows, c, p, occ, Unscheduled(c))
        IN  /\ slot \in Instants
            /\ \E a \in ReconciledAssignees(rows, c, p, occ.assignee) :
                 rows' = (rows \ {occ}) \cup
                           {[occ EXCEPT !.slot = slot, !.assignee = a]}
  BY DEF Update
<1>3. /\ occ \in Row /\ occ \in rows /\ occ.chore = c /\ occ.status = "open"
      /\ occ.id \in Nat /\ occ.id < nextId /\ occ.assignee \in UserOrNull
      /\ \A r \in rows : r.chore = c /\ r.status = "open" => r = occ
      /\ \A r \in rows : r.chore = c /\ r.status = "done" => r.id < occ.id
      /\ occ.by = NoUser /\ occ.at = NoDate /\ occ.zone = NoZone /\ ~occ.skipped
  BY OpenRowFacts DEF Row
<1>4. PICK slot \in Instants, a \in UserOrNull :
        rows' = (rows \ {occ}) \cup {[occ EXCEPT !.slot = slot, !.assignee = a]}
  BY <1>2, <1>3, ReconciledAssigneesType
<1> DEFINE new == [occ EXCEPT !.slot = slot, !.assignee = a]
<1>5. /\ new \in Row /\ new.id = occ.id /\ new.chore = c /\ new.status = "open"
      /\ new.by = NoUser /\ new.at = NoDate /\ new.zone = NoZone /\ ~new.skipped
  BY <1>3 DEF Row
<1>6. rows' = (rows \ {occ}) \cup {new}
  BY <1>4
<1> HIDE DEF new
<1>7. TypeOK'
  <2>1. Configured(p) \in Chore
    BY PayloadAssumption DEF Payload, Configured, Chore
  <2> QED BY <1>1, <1>5, <1>6, <2>1 DEF IInv, TypeOK
<1>8. \A d \in ChoreIds : chore'[d].life = IF d = c THEN "live" ELSE chore[d].life
  BY <1>1 DEF IInv, TypeOK, Configured
<1>9. IdsAreHandedOut' /\ IdsAreUnique'
  BY <1>1, <1>3, <1>5, <1>6 DEF IInv, IdsAreHandedOut, IdsAreUnique
<1>10. RowsHaveChores'
  BY <1>1, <1>5, <1>6, <1>8 DEF IInv, RowsHaveChores, Row
<1>11. OneOpenPerChore'
  <2> SUFFICES ASSUME NEW d \in ChoreIds, chore'[d].life # "unused"
               PROVE  \E r \in rows' : OpenOf(rows', d) = {r}
    BY DEF OneOpenPerChore
  <2>1. CASE d = c
    <3>1. OpenOf(rows', d) = {new}
      BY <1>3, <1>5, <1>6, <2>1 DEF OpenOf
    <3> QED BY <3>1, <1>6
  <2>2. CASE d # c
    <3>1. OpenOf(rows', d) = OpenOf(rows, d)
      BY <1>3, <1>5, <1>6, <2>2 DEF OpenOf
    <3>2. PICK r \in rows : OpenOf(rows, d) = {r}
      BY <1>8, <2>2 DEF IInv, OneOpenPerChore
    <3>3. r \in rows'
      BY <3>1, <3>2 DEF OpenOf
    <3> QED BY <3>1, <3>2, <3>3
  <2> QED BY <2>1, <2>2
<1>12. OpenRowIsNewest'
  <2> SUFFICES ASSUME NEW d \in ChoreIds, NEW o \in OpenOf(rows', d),
                      NEW e \in DoneOf(rows', d)
               PROVE  e.id < o.id
    BY DEF OpenRowIsNewest
  <2>1. e \in DoneOf(rows, d)
    BY <1>5, <1>6 DEF DoneOf
  <2>2. CASE d = c
    <3>1. o.id = occ.id
      BY <1>3, <1>5, <1>6, <2>2 DEF OpenOf
    <3> QED BY <1>3, <2>1, <2>2, <3>1 DEF DoneOf
  <2>3. CASE d # c
    <3>1. o \in OpenOf(rows, d)
      BY <1>5, <1>6, <2>3 DEF OpenOf
    <3> QED BY <2>1, <3>1 DEF IInv, OpenRowIsNewest
  <2> QED BY <2>2, <2>3
<1>13. ClosureIsWhole'
  BY <1>5, <1>6 DEF IInv, ClosureIsWhole
<1>14. NoFutureClosure'
  BY <1>1, <1>5, <1>6 DEF IInv, NoFutureClosure
<1> QED BY <1>7, <1>9, <1>10, <1>11, <1>12, <1>13, <1>14 DEF IInv

(* A soft delete leaves the rows alone.                                    *)
LEMMA DeleteKeepsIInv ==
  ASSUME IInv, NEW u \in Users, NEW c \in ChoreIds, Delete(u, c)
  PROVE  IInv'
<1>1. /\ UNCHANGED <<rows, nextId, timezone, now>> /\ chore[c].life = "live"
      /\ chore' = [chore EXCEPT ![c].life = "deleted"]
  BY DEF Delete, Live
<1>2. chore' \in [ChoreIds -> Chore]
  BY <1>1 DEF IInv, TypeOK, Chore
<1>3. \A d \in ChoreIds : chore'[d].life # "unused" <=> chore[d].life # "unused"
  BY <1>1 DEF IInv, TypeOK, Chore
<1>4. TypeOK'
  BY <1>1, <1>2 DEF IInv, TypeOK
<1>5. RowsHaveChores'
  BY <1>1, <1>3 DEF IInv, TypeOK, Row, RowsHaveChores
<1>6. OneOpenPerChore'
  BY <1>1, <1>3 DEF IInv, OneOpenPerChore
<1>7. /\ IdsAreHandedOut' /\ IdsAreUnique' /\ OpenRowIsNewest'
      /\ ClosureIsWhole' /\ NoFutureClosure'
  BY <1>1 DEF IInv, IdsAreHandedOut, IdsAreUnique, OpenRowIsNewest,
              ClosureIsWhole, NoFutureClosure
<1> QED BY <1>4, <1>5, <1>6, <1>7 DEF IInv

(* Undoing the latest closure reopens its row, which is younger than every *)
(* closure left; undoing an older one only takes it out of the history.    *)
LEMMA UndoKeepsIInv ==
  ASSUME IInv, NEW u \in Users, NEW r \in rows, Undo(u, r)
  PROVE  IInv'
<1>1. /\ UNCHANGED <<chore, nextId, timezone, now>> /\ rows' = UndoRow(rows, r)
      /\ rows \subseteq Row /\ r \in Row /\ r.status = "done" /\ r.chore \in ChoreIds
  BY DEF Undo, IInv, TypeOK, Row
<1>2. CASE ~IsLatestClosure(rows, r)
  <2>1. rows' = rows \ {r}
    BY <1>1, <1>2 DEF UndoRow
  <2>2. \A d \in ChoreIds : /\ OpenOf(rows', d) = OpenOf(rows, d)
                            /\ DoneOf(rows', d) \subseteq DoneOf(rows, d)
    BY <1>1, <2>1 DEF OpenOf, DoneOf
  <2>3. TypeOK' /\ IdsAreHandedOut' /\ IdsAreUnique' /\ RowsHaveChores'
    BY <1>1, <2>1 DEF IInv, TypeOK, IdsAreHandedOut, IdsAreUnique, RowsHaveChores
  <2>4. OneOpenPerChore'
    <3> SUFFICES ASSUME NEW d \in ChoreIds, chore[d].life # "unused"
                 PROVE  \E o \in rows' : OpenOf(rows', d) = {o}
      BY <1>1 DEF OneOpenPerChore
    <3>1. PICK o \in rows : OpenOf(rows, d) = {o}
      BY DEF IInv, OneOpenPerChore
    <3>2. o \in rows'
      BY <2>2, <3>1 DEF OpenOf
    <3> QED BY <2>2, <3>1, <3>2
  <2>5. OpenRowIsNewest'
    BY <2>2 DEF IInv, OpenRowIsNewest
  <2>6. ClosureIsWhole' /\ NoFutureClosure'
    BY <1>1, <2>1 DEF IInv, ClosureIsWhole, NoFutureClosure
  <2> QED BY <2>3, <2>4, <2>5, <2>6 DEF IInv
<1>3. CASE IsLatestClosure(rows, r)
  <2> DEFINE new == Reopened(r)
  <2>1. /\ new \in Row /\ new.id = r.id /\ new.chore = r.chore /\ new.status = "open"
        /\ new.by = NoUser /\ new.at = NoDate /\ new.zone = NoZone /\ ~new.skipped
    BY <1>1 DEF Reopened, Row, UserOrNull
  <2>2. rows' = (rows \ ({r} \cup OpenOf(rows, r.chore))) \cup {new}
    BY <1>1, <1>3 DEF UndoRow
  <2>3. \A s \in DoneOf(rows, r.chore) : s = r \/ s.id < r.id
    <3>1. \A s \in DoneOf(rows, r.chore) : s \in rows /\ s.id <= r.id
      BY <1>3 DEF IsLatestClosure, DoneOf
    <3>2. \A s \in rows : s.id = r.id => s = r
      BY DEF IInv, IdsAreUnique
    <3>3. r.id \in Nat /\ \A s \in rows : s.id \in Nat
      BY <1>1 DEF Row
    <3> QED BY <3>1, <3>2, <3>3 DEF DoneOf
  <2> HIDE DEF new
  <2>4. TypeOK'
    BY <1>1, <2>1, <2>2 DEF IInv, TypeOK
  <2>5. IdsAreHandedOut' /\ IdsAreUnique' /\ RowsHaveChores'
    BY <1>1, <2>1, <2>2 DEF IInv, IdsAreHandedOut, IdsAreUnique, RowsHaveChores
  <2>6. OneOpenPerChore'
    <3> SUFFICES ASSUME NEW d \in ChoreIds, chore[d].life # "unused"
                 PROVE  \E o \in rows' : OpenOf(rows', d) = {o}
      BY <1>1 DEF OneOpenPerChore
    <3>1. CASE d = r.chore
      <4>1. OpenOf(rows', d) = {new}
        BY <2>1, <2>2, <3>1 DEF OpenOf
      <4> QED BY <4>1, <2>2
    <3>2. CASE d # r.chore
      <4>1. OpenOf(rows', d) = OpenOf(rows, d)
        BY <1>1, <2>1, <2>2, <3>2 DEF OpenOf
      <4>2. PICK o \in rows : OpenOf(rows, d) = {o}
        BY DEF IInv, OneOpenPerChore
      <4>3. o \in rows'
        BY <4>1, <4>2 DEF OpenOf
      <4> QED BY <4>1, <4>2, <4>3
    <3> QED BY <3>1, <3>2
  <2>7. OpenRowIsNewest'
    <3> SUFFICES ASSUME NEW d \in ChoreIds, NEW o \in OpenOf(rows', d),
                        NEW e \in DoneOf(rows', d)
                 PROVE  e.id < o.id
      BY DEF OpenRowIsNewest
    <3>1. e \in DoneOf(rows, d) /\ e # r
      BY <2>1, <2>2 DEF DoneOf
    <3>2. CASE d = r.chore
      <4>1. o = new
        BY <2>1, <2>2, <3>2 DEF OpenOf
      <4> QED BY <2>1, <2>3, <3>1, <3>2, <4>1
    <3>3. CASE d # r.chore
      <4>1. o \in OpenOf(rows, d)
        BY <2>1, <2>2, <3>3 DEF OpenOf
      <4> QED BY <3>1, <4>1 DEF IInv, OpenRowIsNewest
    <3> QED BY <3>2, <3>3
  <2>8. ClosureIsWhole' /\ NoFutureClosure'
    BY <1>1, <2>1, <2>2 DEF IInv, ClosureIsWhole, NoFutureClosure
  <2> QED BY <2>4, <2>5, <2>6, <2>7, <2>8 DEF IInv
<1> QED BY <1>2, <1>3

(* A timezone change moves open slots and nothing else.                    *)
LEMMA ZoneKeepsIInv ==
  ASSUME IInv, NEW u \in Users, NEW z \in Zones, ChangeTimezone(u, z)
  PROVE  IInv'
<1> DEFINE moved(r) == IF Reanchors(r)
                       THEN [r EXCEPT !.slot = ReanchoredSlot(rows, r, z)] ELSE r
<1>1. /\ UNCHANGED <<chore, nextId, now>> /\ timezone' = z
      /\ rows \subseteq Row /\ rows' = {moved(r) : r \in rows}
      /\ \A s \in rows' : s.slot \in Instants
  BY DEF ChangeTimezone, Reanchor, IInv, TypeOK
<1>2. \A r \in rows :
        /\ moved(r).id = r.id /\ moved(r).chore = r.chore
        /\ moved(r).status = r.status /\ moved(r).by = r.by
        /\ moved(r).at = r.at /\ moved(r).zone = r.zone
        /\ moved(r).skipped = r.skipped
        /\ moved(r).slot \in Instants => moved(r) \in Row
  BY <1>1 DEF Row
<1>3. \A r \in rows : moved(r) \in rows' /\ moved(r) \in Row
  BY <1>1, <1>2
<1>4. \A s \in rows' : \E r \in rows : s = moved(r)
  BY <1>1
<1> HIDE DEF moved
<1>5. TypeOK'
  BY <1>1, <1>3, <1>4 DEF IInv, TypeOK
<1>6. IdsAreHandedOut' /\ RowsHaveChores'
  BY <1>1, <1>2, <1>4 DEF IInv, IdsAreHandedOut, RowsHaveChores
<1>7. IdsAreUnique'
  BY <1>2, <1>4 DEF IInv, IdsAreUnique
<1>8. OneOpenPerChore'
  <2> SUFFICES ASSUME NEW d \in ChoreIds, chore[d].life # "unused"
               PROVE  \E o \in rows' : OpenOf(rows', d) = {o}
    BY <1>1 DEF OneOpenPerChore
  <2>1. PICK r \in rows : OpenOf(rows, d) = {r}
    BY DEF IInv, OneOpenPerChore
  <2>2. OpenOf(rows', d) = {moved(r)}
    BY <1>2, <1>3, <1>4, <2>1 DEF OpenOf
  <2> QED BY <1>3, <2>1, <2>2
<1>9. OpenRowIsNewest'
  <2> SUFFICES ASSUME NEW d \in ChoreIds, NEW o \in OpenOf(rows', d),
                      NEW e \in DoneOf(rows', d)
               PROVE  e.id < o.id
    BY DEF OpenRowIsNewest
  <2>1. PICK p \in rows : o = moved(p)
    BY <1>4 DEF OpenOf
  <2>2. PICK q \in rows : e = moved(q)
    BY <1>4 DEF DoneOf
  <2>3. p \in OpenOf(rows, d) /\ q \in DoneOf(rows, d)
    BY <1>2, <2>1, <2>2 DEF OpenOf, DoneOf
  <2>4. q.id < p.id
    BY <2>3 DEF IInv, OpenRowIsNewest
  <2> QED BY <1>2, <2>1, <2>2, <2>4
<1>10. ClosureIsWhole' /\ NoFutureClosure'
  BY <1>1, <1>2, <1>4 DEF IInv, ClosureIsWhole, NoFutureClosure
<1> QED BY <1>5, <1>6, <1>7, <1>8, <1>9, <1>10 DEF IInv

-----------------------------------------------------------------------------
(* The invariant holds along every behaviour.                              *)

LEMMA InitIInv == Init => IInv
BY DEF Init, IInv, TypeOK, NoChore, Chore, Rule, RuleOf, Periods, DAYS_IN_WEEK,
       MAX_INTERVAL, Strategies, IdsAreHandedOut, IdsAreUnique, RowsHaveChores,
       OneOpenPerChore, OpenRowIsNewest, OpenOf, ClosureIsWhole, NoFutureClosure

LEMMA StepKeepsIInv == IInv /\ [Next]_vars => IInv'
<1> SUFFICES ASSUME IInv, [Next]_vars PROVE IInv'
  OBVIOUS
<1>1. CASE CreateStep
  BY <1>1, CreateKeepsIInv DEF CreateStep
<1>2. CASE UpdateStep
  BY <1>2, UpdateKeepsIInv DEF UpdateStep
<1>3. CASE DeleteStep
  BY <1>3, DeleteKeepsIInv DEF DeleteStep
<1>4. CASE CompleteStep
  <2>1. PICK u \in Users, credit \in Users, c \in ChoreIds, b \in BOOLEAN, t \in Clock :
          Complete(u, c, credit, b, t)
    BY <1>4 DEF CompleteStep
  <2> QED BY <2>1, CloseKeepsIInv DEF Complete
<1>5. CASE SkipStep
  <2>1. PICK u \in Users, c \in ChoreIds, t \in Clock : Skip(u, c, t)
    BY <1>5 DEF SkipStep
  <2> QED BY <2>1, CloseKeepsIInv DEF Skip
<1>6. CASE UndoStep
  BY <1>6, UndoKeepsIInv DEF UndoStep
<1>7. CASE ZoneStep
  BY <1>7, ZoneKeepsIInv DEF ZoneStep
<1>8. CASE UNCHANGED vars
  BY <1>8 DEF vars, IInv, TypeOK, IdsAreHandedOut, IdsAreUnique, RowsHaveChores,
              OneOpenPerChore, OpenRowIsNewest, OpenOf, DoneOf, ClosureIsWhole,
              NoFutureClosure
<1> QED BY <1>1, <1>2, <1>3, <1>4, <1>5, <1>6, <1>7, <1>8 DEF Next

LEMMA IInvHolds == Spec => []IInv
BY InitIInv, StepKeepsIInv, PTL DEF Spec

(* Every table keeps its type: no handler writes a NULL, a slot or a       *)
(* member where the column or the household does not allow it.             *)
THEOREM TypeCorrect == Spec => []TypeOK
<1>1. IInv => TypeOK
  BY DEF IInv
<1> QED BY <1>1, IInvHolds, PTL

(* Exactly one open occurrence per chore, through every completion, skip,  *)
(* undo, edit and timezone change that runs to its commit by itself.       *)
THEOREM OneOpenAlways == Spec => []OneOpenPerChore
<1>1. IInv => OneOpenPerChore
  BY DEF IInv
<1> QED BY <1>1, IInvHolds, PTL

(* The open row was inserted after every closure of its chore, which is    *)
(* what undo_completion's "latest by id" relies on.                        *)
THEOREM OpenRowNewestAlways == Spec => []OpenRowIsNewest
<1>1. IInv => OpenRowIsNewest
  BY DEF IInv
<1> QED BY <1>1, IInvHolds, PTL

(* Nothing of an undone closure survives on the row it reopens.            *)
THEOREM ClosureWholeAlways == Spec => []ClosureIsWhole
<1>1. IInv => ClosureIsWhole
  BY DEF IInv
<1> QED BY <1>1, IInvHolds, PTL

(* A closure, backdated or not, is never dated after it was recorded.      *)
THEOREM NoFutureClosureAlways == Spec => []NoFutureClosure
<1>1. IInv => NoFutureClosure
  BY DEF IInv
<1> QED BY <1>1, IInvHolds, PTL

(* The occurrences of every chore are a chain with one open end, after any *)
(* sequence of requests each of which runs to its commit by itself.        *)
THEOREM ChainAlways == Spec => []ChainInvariant
<1>1. IInv => ChainInvariant
  BY DEF IInv, ChainInvariant
<1> QED BY <1>1, IInvHolds, PTL

-----------------------------------------------------------------------------
(* Undo is the inverse of the closure it undoes.                           *)
LEMMA UndoInverts == IInv => UndoInvertsClosure
<1> SUFFICES ASSUME IInv, NEW c \in ChoreIds, NEW t \in Clock, NEW skipped \in BOOLEAN,
                    NEW occ \in OpenOf(rows, c)
             PROVE  UndoRow(CloseRow(rows, occ, Owner, t, skipped)
                              \cup {OpenRow(nextId, c, t, NoUser)},
                            Closed(occ, Owner, t, skipped)) = rows
  BY DEF UndoInvertsClosure
<1> DEFINE old   == Closed(occ, Owner, t, skipped)
           new   == OpenRow(nextId, c, t, NoUser)
           after == CloseRow(rows, occ, Owner, t, skipped) \cup {new}
<1>1. /\ occ \in Row /\ occ \in rows /\ occ.chore = c /\ occ.status = "open"
      /\ occ.id \in Nat /\ occ.id < nextId
      /\ \A r \in rows : r.chore = c /\ r.status = "open" => r = occ
      /\ \A r \in rows : r.chore = c /\ r.status = "done" => r.id < occ.id
      /\ occ.by = NoUser /\ occ.at = NoDate /\ occ.zone = NoZone /\ ~occ.skipped
  BY OpenRowFacts
<1>2. /\ old.id = occ.id /\ old.chore = c /\ old.status = "done"
      /\ new.id = nextId /\ new.chore = c /\ new.status = "open"
  BY <1>1 DEF Closed, OpenRow, Row
<1>3. Reopened(old) = occ
  BY <1>1 DEF Reopened, Closed, Row
<1>4. after = ((rows \ {occ}) \cup {old}) \cup {new}
  BY DEF CloseRow
<1> HIDE DEF old, new, after
<1>5. IsLatestClosure(after, old)
  <2>1. \A s \in DoneOf(after, c) : s = old \/ s.id < occ.id
    BY <1>1, <1>2, <1>4 DEF DoneOf
  <2>2. \A s \in DoneOf(after, c) : s.id <= occ.id
    <3>1. \A s \in DoneOf(after, c) : s.id \in Nat
      BY <1>1, <1>2, <1>4 DEF DoneOf, IInv, TypeOK, Row
    <3> QED BY <1>1, <1>2, <2>1, <3>1
  <2> QED BY <1>2, <2>2 DEF IsLatestClosure
<1>6. OpenOf(after, c) = {new}
  BY <1>1, <1>2, <1>4 DEF OpenOf
<1>7. old \notin rows /\ new \notin rows
  <2>1. \A r \in rows : r.id = occ.id => r = occ
    BY <1>1 DEF IInv, IdsAreUnique
  <2>2. \A r \in rows : r.id # nextId
    BY DEF IInv, TypeOK, IdsAreHandedOut, Row
  <2> QED BY <1>1, <1>2, <2>1, <2>2
<1>8. UndoRow(after, old) = (after \ {old, new}) \cup {occ}
  BY <1>2, <1>3, <1>5, <1>6 DEF UndoRow
<1>9. UndoRow(after, old) = rows
  BY <1>1, <1>4, <1>7, <1>8
<1> QED BY <1>9 DEF after, old, new

(* Undoing a closure just made gives back the table it was made in.        *)
THEOREM UndoInvertsAlways == Spec => []UndoInvertsClosure
BY UndoInverts, IInvHolds, PTL

(* History is frozen: no step rewrites a row that stays done.              *)
LEMMA StepFreezesHistory ==
  ASSUME IInv, [Next]_vars, NEW r \in rows, NEW s \in rows',
         r.id = s.id, r.status = "done", s.status = "done"
  PROVE  r = s
<1>1. /\ \A q \in rows : q.id = r.id => q = r
      /\ \A q \in rows : q.id < nextId /\ q.id \in Nat
  BY DEF IInv, TypeOK, IdsAreUnique, IdsAreHandedOut, Row
<1>2. CASE s \in rows
  BY <1>1, <1>2
<1>3. CASE s \notin rows
  <2>1. CASE CreateStep
    <3>1. s.status = "open"
      BY <1>3, <2>1 DEF CreateStep, Create, OpenRow
    <3> QED BY <3>1
  <2>2. CASE UpdateStep
    <3>1. PICK u \in Users, c \in ChoreIds, p \in Payloads : Update(u, c, p)
      BY <2>2 DEF UpdateStep
    <3>2. rows \subseteq Row
      BY DEF IInv, TypeOK
    <3>3. s.status = "open"
      BY <1>3, <3>1, <3>2 DEF Update, OpenOf, Row
    <3> QED BY <3>3
  <2>3. ASSUME NEW c \in ChoreIds, NEW by \in Users, NEW skipped \in BOOLEAN,
               NEW backdate \in BOOLEAN, NEW t \in Clock,
               Close(c, by, skipped, backdate, t)
        PROVE  FALSE
    <3>1. PICK occ \in OpenOf(rows, c), at \in Instants, slot \in Instants, a \in UserOrNull :
            rows' = CloseRow(rows, occ, by, at, skipped) \cup {OpenRow(nextId, c, slot, a)}
      BY <2>3, ClosePicks
    <3>2. occ \in rows /\ occ.status = "open" /\ occ \in Row
      BY <3>1 DEF OpenOf, IInv, TypeOK
    <3>3. s = Closed(occ, by, at, skipped) \/ s = OpenRow(nextId, c, slot, a)
      BY <1>3, <3>1 DEF CloseRow
    <3>4. OpenRow(nextId, c, slot, a).status = "open"
      BY DEF OpenRow
    <3>5. Closed(occ, by, at, skipped).id = occ.id
      BY <3>2 DEF Closed, Row
    <3>6. s.id = occ.id
      BY <3>3, <3>4, <3>5
    <3> QED BY <1>1, <3>2, <3>6
  <2>4. CASE CompleteStep
    <3>1. PICK u \in Users, credit \in Users, c \in ChoreIds, b \in BOOLEAN, t \in Clock :
            Complete(u, c, credit, b, t)
      BY <2>4 DEF CompleteStep
    <3> QED BY <3>1, <2>3 DEF Complete
  <2>5. CASE SkipStep
    <3>1. PICK u \in Users, c \in ChoreIds, t \in Clock : Skip(u, c, t)
      BY <2>5 DEF SkipStep
    <3> QED BY <3>1, <2>3 DEF Skip
  <2>6. CASE UndoStep
    <3>1. PICK q \in rows : rows' = UndoRow(rows, q)
      BY <2>6 DEF UndoStep, Undo
    <3>2. s = Reopened(q)
      BY <1>3, <3>1 DEF UndoRow
    <3>3. Reopened(q).status = "open"
      BY DEF Reopened, IInv, TypeOK, Row
    <3> QED BY <3>2, <3>3
  <2>7. CASE ZoneStep
    <3>1. PICK q \in rows, z \in Zones :
            s = IF Reanchors(q) THEN [q EXCEPT !.slot = ReanchoredSlot(rows, q, z)] ELSE q
      BY <2>7 DEF ZoneStep, ChangeTimezone, Reanchor
    <3>2. s.id = q.id /\ s.status = q.status /\ Reanchors(q)
      BY <1>3, <3>1 DEF IInv, TypeOK, Row
    <3> QED BY <3>2 DEF Reanchors
  <2>8. CASE DeleteStep \/ UNCHANGED vars
    BY <1>3, <2>8 DEF DeleteStep, Delete, vars
  <2> QED BY <2>1, <2>2, <2>4, <2>5, <2>6, <2>7, <2>8 DEF Next
<1> QED BY <1>2, <1>3

(* No completion, skip, undo, edit, deletion or timezone change re-dates,  *)
(* re-credits or re-measures a closure that stays in the history.          *)
THEOREM HistoryFrozenAlways == Spec => HistoryIsFrozen
<1>1. IInv /\ [Next]_vars =>
        [\A r \in rows, s \in rows' :
           r.id = s.id /\ r.status = "done" /\ s.status = "done" => r = s]_vars
  BY StepFreezesHistory
<1> QED BY <1>1, IInvHolds, PTL DEF Spec, HistoryIsFrozen

-----------------------------------------------------------------------------
(***************************************************************************)
(* Turn taking in Chores, for every pool, every turn length and any number *)
(* of chores: what RotationSpec promises of the alphabetical rotation and  *)
(* of least_done, however completions and skips alternate and whoever gets *)
(* the credit.                                                             *)
(***************************************************************************)

(* The completions made while each member was on the hook.                 *)
Held(R, c) ==
  [u \in Users |-> Cardinality({r \in Completions(R, c) : r.assignee = u})]

Done(R, c) == Cardinality(Completions(R, c))

(* Under least_done, with n completions done and a on the hook: a was      *)
(* level or behind when the turn began, and n % k.turn have been made in it.*)
Behind(k, n, tally, a) ==
  a # NoUser => \A v \in k.pool : tally[a] <= tally[v] + (n % k.turn)

(* Going round from `first`, the members reached before a.                 *)
Passed(u, first, a) ==
  IF first <= a THEN first <= u /\ u < a ELSE first <= u \/ u < a

(* In alphabetical order, with a on the hook: every member has held the    *)
(* chore for `base` completions, those passed in this round for a turn     *)
(* more, and a for what of its turn is done.                               *)
EvenTurns(k, n, held, a) ==
  IF a = NoUser THEN \A u \in k.pool : held[u] = 0
  ELSE \E base \in Nat, first \in k.pool :
         \A u \in k.pool :
           held[u] = base + (IF Passed(u, first, a) THEN k.turn
                             ELSE IF u = a THEN n % k.turn ELSE 0)

OnTheHook(k, n, tally, held, a) ==
  /\ a \in k.pool \cup {NoUser}
  /\ k.strategy = "least_done" => Behind(k, n, tally, a)
  /\ k.strategy = "alphabetical" => EvenTurns(k, n, held, a)

RInv ==
  /\ IInv
  /\ IsFiniteSet(rows)
  /\ \A c \in ChoreIds : \A o \in OpenOf(rows, c) :
       OnTheHook(chore[c], Done(rows, c), Tally(rows, c), Held(rows, c), o.assignee)

-----------------------------------------------------------------------------
(* Arithmetic of turns                                                     *)

LEMMA DivisionFacts ==
  ASSUME NEW n \in Nat, NEW t \in Nat \ {0}
  PROVE  n \div t \in Nat /\ n % t \in 0..(t - 1) /\ n = t * (n \div t) + (n % t)
  OBVIOUS

LEMMA DivisionIsUnique ==
  ASSUME NEW t \in Nat \ {0}, NEW p \in Int, NEW q \in Int,
         NEW x \in 0..(t - 1), NEW y \in 0..(t - 1), t * p + x = t * q + y
  PROVE  x = y
<1>1. CASE p < q
  <2>1. t * (q - p) >= t
    BY <1>1
  <2>2. t * (q - p) = t * q - t * p
    OBVIOUS
  <2> QED BY <2>1, <2>2
<1>2. CASE p > q
  <2>1. t * (p - q) >= t
    BY <1>2
  <2>2. t * (p - q) = t * p - t * q
    OBVIOUS
  <2> QED BY <2>1, <2>2
<1>3. CASE p = q
  BY <1>3
<1> QED BY <1>1, <1>2, <1>3

(* A completion goes one further in its turn, or ends it.                  *)
LEMMA TurnStep ==
  ASSUME NEW n \in Nat, NEW t \in Nat \ {0}
  PROVE  /\ n % t \in 0..(t - 1)
         /\ (n + 1) % t = 0 => (n % t) = t - 1
         /\ (n + 1) % t # 0 => (n + 1) % t = (n % t) + 1
<1> DEFINE q == n \div t
           r == n % t
           p == (n + 1) \div t
           x == (n + 1) % t
<1>1. q \in Nat /\ r \in 0..(t - 1) /\ n = t * q + r
  BY DivisionFacts
<1>2. p \in Nat /\ x \in 0..(t - 1) /\ n + 1 = t * p + x
  <2>1. n + 1 \in Nat
    OBVIOUS
  <2> QED BY <2>1, DivisionFacts
<1> HIDE DEF q, r, p, x
<1>3. CASE r = t - 1
  <2>1. t * p + x = t * (q + 1) + 0
    <3>1. t * (q + 1) = t * q + t
      BY <1>1
    <3> QED BY <1>1, <1>2, <1>3, <3>1
  <2>2. x = 0
    BY <1>1, <1>2, <2>1, DivisionIsUnique
  <2> QED BY <1>1, <1>3, <2>2 DEF r, x
<1>4. CASE r # t - 1
  <2>1. t * p + x = t * q + (r + 1) /\ r + 1 \in 0..(t - 1)
    BY <1>1, <1>2, <1>4
  <2>2. x = r + 1
    BY <1>1, <1>2, <2>1, DivisionIsUnique
  <2> QED BY <1>1, <2>2 DEF r, x
<1> QED BY <1>3, <1>4

LEMMA NoTurn ==
  ASSUME NEW t \in Nat \ {0} PROVE 0 % t = 0
<1>1. 0 \div t \in Nat /\ 0 % t \in 0..(t - 1) /\ 0 = t * (0 \div t) + (0 % t)
  BY DivisionFacts
<1>2. t * (0 \div t) + (0 % t) = t * 0 + 0 /\ 0 \in 0..(t - 1)
  BY <1>1
<1> QED BY <1>1, <1>2, DivisionIsUnique

LEMMA LeastExists ==
  ASSUME NEW S \in SUBSET Nat, S # {} PROVE \E x \in S : \A y \in S : x <= y
<1>1. PICK x \in S : \A y \in S : ~(<<y, x>> \in OpToRel(<, Nat))
  BY NatLessThanWellFounded, WFMin, Zenon
<1>2. \A y \in S : ~(y < x)
  BY <1>1 DEF OpToRel
<1> QED BY <1>2

-----------------------------------------------------------------------------
(* Handing on                                                              *)

Counts == [Users -> Nat]

(* k with turns of at least one and a pool of members.                     *)
Sound(k) == k.pool \subseteq Users /\ k.turn \in Nat \ {0} /\ k.strategy \in Strategies

LEMMA UsersAreNumbers == Users \subseteq Int /\ NoUser \notin Users
  BY UserAssumption

(* Somebody of the pool has done least.                                    *)
LEMMA LeastDoneExists ==
  ASSUME NEW pool \in SUBSET Users, pool # {}, NEW tally \in Counts
  PROVE  LeastDone(pool, tally) # {}
<1> DEFINE S == {tally[u] : u \in pool}
<1>1. S \in SUBSET Nat /\ S # {}
  BY DEF Counts
<1> HIDE DEF S
<1>2. PICK x \in S : \A y \in S : x <= y
  BY <1>1, LeastExists
<1>3. PICK u \in pool : x = tally[u]
  BY <1>2 DEF S
<1>4. \A v \in pool : tally[u] <= tally[v]
  BY <1>2, <1>3 DEF S
<1> QED BY <1>4 DEF LeastDone

(* At the end of a turn least_done puts somebody on the hook who has done  *)
(* least, or nobody of an empty pool.                                      *)
LEMMA LeastDoneHandsOn ==
  ASSUME NEW k, Sound(k), k.strategy = "least_done", NEW tally \in Counts,
         NEW current \in k.pool \cup {NoUser},
         NEW a \in NextAssignees(k.strategy, k.pool, current, tally)
  PROVE  a # NoUser => \A v \in k.pool : tally[a] <= tally[v]
<1>1. NoUser \notin k.pool /\ \A u \in k.pool : tally[u] \in Nat
  BY UsersAreNumbers DEF Sound, Counts
<1>2. \A S : Firsts(S) \subseteq S
  BY DEF Firsts
<1>3. CASE k.pool = {}
  BY <1>3
<1>4. CASE k.pool # {} /\ current \notin k.pool
  <2>1. a \in InitialAssignees(k.strategy, k.pool, tally)
    BY <1>4 DEF NextAssignees
  <2>2. CASE \E u \in k.pool : k.pool = {u}
    <3>1. a \in k.pool
      BY <1>4, <2>1, <2>2 DEF InitialAssignees
    <3> QED BY <1>1, <2>2, <3>1
  <2>3. CASE ~(\E u \in k.pool : k.pool = {u})
    <3>1. a \in Firsts(LeastDone(k.pool, tally))
      BY <1>4, <2>1, <2>3 DEF InitialAssignees
    <3> QED BY <1>2, <3>1 DEF LeastDone
  <2> QED BY <2>2, <2>3
<1>5. CASE k.pool = {current}
  <2>1. a \in k.pool
    BY <1>5 DEF NextAssignees
  <2> QED BY <1>1, <1>5, <2>1
<1>6. CASE current \in k.pool /\ k.pool # {current}
  <2>1. a \in LeastDoneNext(k.pool, current, tally)
    BY <1>6 DEF NextAssignees, Handover
  <2>2. a \in LeastDone(k.pool, tally)
    <3>1. LeastDone(k.pool, tally) # {}
      BY <1>6, LeastDoneExists DEF Sound
    <3> QED BY <1>2, <2>1, <3>1 DEF LeastDoneNext
  <2> QED BY <2>2 DEF LeastDone
<1> QED BY <1>3, <1>4, <1>5, <1>6

(* A completion credited to anybody keeps whoever is on the hook behind.   *)
LEMMA BehindStep ==
  ASSUME NEW k, Sound(k), k.strategy = "least_done", NEW n \in Nat,
         NEW tally \in Counts, NEW after \in Counts, NEW credit \in Users,
         \A u \in Users : after[u] = tally[u] + (IF u = credit THEN 1 ELSE 0),
         NEW current \in k.pool \cup {NoUser}, Behind(k, n, tally, current),
         NEW a,
         IF (n + 1) % k.turn = 0 THEN a \in NextAssignees(k.strategy, k.pool, current, after)
                                 ELSE a = current
  PROVE  Behind(k, n + 1, after, a)
<1>1. \A u \in k.pool : tally[u] \in Nat /\ after[u] \in Nat
  BY DEF Sound, Counts
<1>2. /\ n % k.turn \in 0..(k.turn - 1) /\ k.turn \in Nat
      /\ (n + 1) % k.turn # 0 => (n + 1) % k.turn = (n % k.turn) + 1
  BY TurnStep DEF Sound
<1>3. CASE (n + 1) % k.turn = 0
  <2>1. a # NoUser => \A v \in k.pool : after[a] <= after[v]
    BY <1>3, LeastDoneHandsOn
  <2> SUFFICES ASSUME a # NoUser, NEW v \in k.pool
               PROVE  after[a] <= after[v] + ((n + 1) % k.turn)
    BY DEF Behind
  <2>2. after[a] <= after[v] /\ after[v] \in Nat
    BY <1>1, <2>1
  <2>3. after[v] + 0 = after[v]
    BY <2>2
  <2> QED BY <1>3, <2>2, <2>3
<1>4. CASE (n + 1) % k.turn # 0
  <2> SUFFICES ASSUME a # NoUser, NEW v \in k.pool
               PROVE  after[a] <= after[v] + ((n + 1) % k.turn)
    BY DEF Behind
  <2>1. a = current /\ a \in k.pool
    BY <1>4
  <2>2. tally[a] <= tally[v] + (n % k.turn)
    BY <2>1 DEF Behind
  <2>3. after[a] <= tally[a] + 1 /\ after[v] >= tally[v]
    BY <1>1, <2>1 DEF Sound
  <2> DEFINE m == n % k.turn
             next == (n + 1) % k.turn
  <2>4. m \in Int /\ next = m + 1 /\ tally[a] <= tally[v] + m
    BY <1>2, <1>4, <2>2
  <2> HIDE DEF m, next
  <2>5. /\ tally[a] \in Nat /\ after[a] \in Nat /\ tally[v] \in Nat /\ after[v] \in Nat
    BY <1>1, <2>1
  <2>6. after[a] <= after[v] + next
    BY <2>3, <2>4, <2>5
  <2> QED BY <2>6 DEF next
<1> QED BY <1>3, <1>4

(* In alphabetical order, the members reached before the next are those    *)
(* reached before this one and this one; when the next is the one the      *)
(* round began with, that is everybody.                                    *)
LEMMA FollowingReaches ==
  ASSUME NEW pool \in SUBSET Int, NEW first \in pool, NEW current \in pool,
         NEW a \in Following(pool, current)
  PROVE  /\ a \in pool
         /\ \A u \in pool : Passed(u, first, current) \/ u = current
                              <=> a = first \/ Passed(u, first, a)
<1> DEFINE later == {v \in pool : v > current}
<1>1. CASE later # {}
  <2>1. a \in Firsts(later)
    BY <1>1 DEF Following
  <2>2. a \in pool /\ a > current /\ \A v \in pool : v > current => a <= v
    BY <2>1 DEF Firsts
  <2> SUFFICES ASSUME NEW u \in pool
               PROVE  Passed(u, first, current) \/ u = current <=> a = first \/ Passed(u, first, a)
    BY <2>2
  <2>3. u > current <=> u >= a
    BY <2>2
  <2>4. first > current <=> first >= a
    BY <2>2
  <2> QED BY <2>2, <2>3, <2>4 DEF Passed
<1>2. CASE later = {}
  <2>1. a \in Firsts(pool)
    BY <1>2 DEF Following
  <2>2. a \in pool /\ (\A v \in pool : a <= v) /\ (\A v \in pool : v <= current)
    BY <1>2, <2>1 DEF Firsts
  <2> SUFFICES ASSUME NEW u \in pool
               PROVE  Passed(u, first, current) \/ u = current <=> a = first \/ Passed(u, first, a)
    BY <2>2
  <2> QED BY <2>2 DEF Passed
<1> QED BY <1>1, <1>2

LEMMA AlphabeticalHandsOn ==
  ASSUME NEW k, Sound(k), k.strategy = "alphabetical", NEW tally,
         NEW current \in k.pool \cup {NoUser},
         NEW a \in NextAssignees(k.strategy, k.pool, current, tally)
  PROVE  /\ current = NoUser => a \in k.pool \cup {NoUser}
         /\ current # NoUser => a \in Following(k.pool, current)
<1>1. NoUser \notin k.pool /\ k.pool \subseteq Int
  BY UsersAreNumbers DEF Sound
<1>2. CASE current = NoUser
  <2>1. k.pool = {} => a = NoUser
    BY <1>2 DEF NextAssignees
  <2>2. k.pool # {} => a \in InitialAssignees(k.strategy, k.pool, tally)
    BY <1>1, <1>2 DEF NextAssignees
  <2>3. InitialAssignees(k.strategy, k.pool, tally) \subseteq k.pool \cup {NoUser}
    BY InitialAssigneesType DEF Sound
  <2> QED BY <1>2, <2>1, <2>2, <2>3
<1>3. CASE current # NoUser /\ k.pool = {current}
  <2>1. a = current
    BY <1>3 DEF NextAssignees
  <2>2. current \in Int /\ {v \in k.pool : v > current} = {}
    BY <1>1, <1>3
  <2>3. Following(k.pool, current) = Firsts(k.pool)
    BY <2>2 DEF Following
  <2>4. current \in Firsts(k.pool)
    BY <1>3, <2>2 DEF Firsts
  <2> QED BY <1>3, <2>1, <2>3, <2>4
<1>4. CASE current # NoUser /\ k.pool # {current}
  BY <1>4 DEF NextAssignees, Handover
<1> QED BY <1>2, <1>3, <1>4

LEMMA NotPassedByItself ==
  ASSUME NEW first \in Int, NEW a \in Int PROVE ~Passed(a, first, a)
  BY DEF Passed

(* A completion in a turn, or the one that ends it, keeps the rotation even.*)
LEMMA EvenStep ==
  ASSUME NEW k, Sound(k), k.strategy = "alphabetical", NEW n \in Nat,
         NEW held \in Counts, NEW after \in Counts, NEW current \in k.pool \cup {NoUser},
         \A u \in Users : after[u] = held[u] + (IF u = current THEN 1 ELSE 0),
         EvenTurns(k, n, held, current), NEW tally, NEW a,
         IF (n + 1) % k.turn = 0 THEN a \in NextAssignees(k.strategy, k.pool, current, tally)
                                 ELSE a = current
  PROVE  EvenTurns(k, n + 1, after, a)
<1> DEFINE m == n % k.turn
           next == (n + 1) % k.turn
<1>1. /\ m \in 0..(k.turn - 1) /\ k.turn \in Nat /\ k.turn > 0
      /\ next = 0 => m = k.turn - 1
      /\ next # 0 => next = m + 1
  <2>1. k.turn \in Nat \ {0}
    BY DEF Sound
  <2>2. /\ n % k.turn \in 0..(k.turn - 1)
        /\ (n + 1) % k.turn = 0 => (n % k.turn) = k.turn - 1
        /\ (n + 1) % k.turn # 0 => (n + 1) % k.turn = (n % k.turn) + 1
    BY <2>1, TurnStep
  <2>3. k.turn > 0
    BY <2>1
  <2> QED BY <2>1, <2>2, <2>3
<1>2. /\ k.pool \in SUBSET Int /\ NoUser \notin k.pool /\ k.pool \subseteq Users
      /\ \A u \in k.pool : held[u] \in Nat /\ after[u] \in Nat
  BY UsersAreNumbers DEF Sound, Counts
<1>3. \/ next = 0 /\ a \in NextAssignees(k.strategy, k.pool, current, tally)
      \/ next # 0 /\ a = current
  OBVIOUS
<1>4. EvenTurns(k, n + 1, after, a) <=>
        IF a = NoUser THEN \A u \in k.pool : after[u] = 0
        ELSE \E base \in Nat, first \in k.pool :
               \A u \in k.pool : after[u] = base + (IF Passed(u, first, a) THEN k.turn
                                                    ELSE IF u = a THEN next ELSE 0)
  BY DEF EvenTurns
<1>5. EvenTurns(k, n, held, current) <=>
        IF current = NoUser THEN \A u \in k.pool : held[u] = 0
        ELSE \E base \in Nat, first \in k.pool :
               \A u \in k.pool : held[u] = base + (IF Passed(u, first, current) THEN k.turn
                                                   ELSE IF u = current THEN m ELSE 0)
  BY DEF EvenTurns
<1> HIDE DEF m, next
<1>6. CASE current = NoUser
  <2>1. \A u \in k.pool : after[u] = 0
    BY <1>2, <1>5, <1>6
  <2>2. CASE a = NoUser
    BY <1>4, <2>1, <2>2
  <2>3. CASE a # NoUser
    <3>1. next = 0 /\ a \in k.pool
      BY <1>3, <1>6, <2>3, AlphabeticalHandsOn
    <3>2. \A u \in k.pool : ~Passed(u, a, a)
      BY <1>2, <3>1 DEF Passed
    <3>3. \A u \in k.pool : after[u] = 0 + (IF Passed(u, a, a) THEN k.turn
                                            ELSE IF u = a THEN next ELSE 0)
      BY <2>1, <3>1, <3>2
    <3> QED BY <1>4, <2>3, <3>1, <3>3
  <2> QED BY <2>2, <2>3
<1>7. CASE current # NoUser
  <2>1. PICK base \in Nat, first \in k.pool :
          \A u \in k.pool : held[u] = base + (IF Passed(u, first, current) THEN k.turn
                                              ELSE IF u = current THEN m ELSE 0)
    BY <1>5, <1>7
  <2>2. current \in k.pool /\ ~Passed(current, first, current)
    BY <1>2, <1>7, NotPassedByItself
  <2>3. \A u \in k.pool : after[u] = base + (IF Passed(u, first, current) THEN k.turn
                                             ELSE IF u = current THEN m + 1 ELSE 0)
    BY <1>1, <1>2, <2>1, <2>2
  <2>4. CASE next # 0
    <3>1. a = current /\ next = m + 1
      BY <1>1, <1>3, <2>4
    <3> QED BY <1>4, <1>7, <2>3, <3>1
  <2>5. CASE next = 0
    <3>1. m + 1 = k.turn
      BY <1>1, <2>5
    <3>2. a \in Following(k.pool, current)
      BY <1>3, <1>7, <2>5, AlphabeticalHandsOn
    <3>3. /\ a \in k.pool
          /\ \A u \in k.pool : Passed(u, first, current) \/ u = current
                                 <=> a = first \/ Passed(u, first, a)
      BY <1>2, <2>2, <3>2, FollowingReaches
    <3>4. \A u \in k.pool : after[u] = base + (IF a = first \/ Passed(u, first, a)
                                               THEN k.turn ELSE 0)
      BY <2>3, <3>1, <3>3
    <3>5. CASE a = first
      <4>1. base + k.turn \in Nat /\ \A u \in k.pool : ~Passed(u, a, a)
        BY <1>1, <1>2, <3>3 DEF Passed
      <4>2. \A u \in k.pool : after[u] = (base + k.turn) + (IF Passed(u, a, a) THEN k.turn
                                                            ELSE IF u = a THEN next ELSE 0)
        BY <1>1, <2>5, <3>4, <3>5, <4>1
      <4> QED BY <1>2, <1>4, <3>3, <4>1, <4>2
    <3>6. CASE a # first
      <4>1. \A u \in k.pool : after[u] = base + (IF Passed(u, first, a) THEN k.turn
                                                 ELSE IF u = a THEN next ELSE 0)
        BY <2>5, <3>4, <3>6
      <4> QED BY <1>2, <1>4, <3>3, <4>1
    <3> QED BY <3>5, <3>6
  <2> QED BY <2>4, <2>5
<1> QED BY <1>6, <1>7

-----------------------------------------------------------------------------
(* Counting                                                                *)

LEMMA ChoreIsSound ==
  ASSUME IInv, NEW c \in ChoreIds PROVE Sound(chore[c])
<1>1. chore[c] \in Chore
  BY DEF IInv, TypeOK
<1> QED BY <1>1 DEF Chore, Sound

LEMMA CountTypes ==
  ASSUME NEW R, IsFiniteSet(R), NEW c
  PROVE  /\ IsFiniteSet(Completions(R, c)) /\ Done(R, c) \in Nat
         /\ Tally(R, c) \in Counts /\ Held(R, c) \in Counts
<1> DEFINE D == Completions(R, c)
<1>1. D \subseteq R
  BY DEF Completions, DoneOf
<1>2. IsFiniteSet(D)
  BY <1>1, FS_Subset
<1> HIDE DEF D
<1>3. Cardinality(D) \in Nat
  BY <1>2, FS_CardinalityType
<1>4. \A u : /\ Cardinality({r \in D : r.by = u}) \in Nat
             /\ Cardinality({r \in D : r.assignee = u}) \in Nat
  <2> SUFFICES ASSUME NEW u
               PROVE  /\ Cardinality({r \in D : r.by = u}) \in Nat
                      /\ Cardinality({r \in D : r.assignee = u}) \in Nat
    OBVIOUS
  <2>1. {r \in D : r.by = u} \subseteq D /\ {r \in D : r.assignee = u} \subseteq D
    OBVIOUS
  <2>2. IsFiniteSet({r \in D : r.by = u}) /\ IsFiniteSet({r \in D : r.assignee = u})
    BY <1>2, <2>1, FS_Subset
  <2> QED BY <2>2, FS_CardinalityType
<1>5. Tally(R, c) \in Counts
  BY <1>4 DEF Tally, Counts, D
<1>6. Held(R, c) \in Counts
  BY <1>4 DEF Held, Counts, D
<1> QED BY <1>2, <1>3, <1>5, <1>6 DEF D, Done

LEMMA SameCounts ==
  ASSUME NEW R, NEW S, NEW c, Completions(S, c) = Completions(R, c)
  PROVE  Done(S, c) = Done(R, c) /\ Tally(S, c) = Tally(R, c) /\ Held(S, c) = Held(R, c)
  BY DEF Done, Tally, Held

LEMMA OneMore ==
  ASSUME NEW R, IsFiniteSet(R), NEW S, NEW c, NEW x, x \notin Completions(R, c),
         Completions(S, c) = Completions(R, c) \cup {x}
  PROVE  /\ Done(S, c) = Done(R, c) + 1
         /\ \A u \in Users :
              /\ Tally(S, c)[u] = Tally(R, c)[u] + (IF u = x.by THEN 1 ELSE 0)
              /\ Held(S, c)[u] = Held(R, c)[u] + (IF u = x.assignee THEN 1 ELSE 0)
<1> DEFINE D == Completions(R, c)
           E == Completions(S, c)
<1>1. IsFiniteSet(D) /\ E = D \cup {x} /\ x \notin D
  BY CountTypes
<1> HIDE DEF D, E
<1>2. Cardinality(E) = Cardinality(D) + 1
  BY <1>1, FS_AddElement
<1>3. ASSUME NEW u \in Users
      PROVE  Cardinality({r \in E : r.by = u})
               = Cardinality({r \in D : r.by = u}) + (IF u = x.by THEN 1 ELSE 0)
  <2> DEFINE A == {r \in D : r.by = u}
  <2>1. A \subseteq D /\ x \notin A
    BY <1>1
  <2>2. IsFiniteSet(A) /\ Cardinality(A) \in Nat
    BY <1>1, <2>1, FS_Subset, FS_CardinalityType
  <2>3. CASE u = x.by
    <3>1. {r \in E : r.by = u} = A \cup {x}
      BY <1>1, <2>3
    <3> HIDE DEF A
    <3>2. Cardinality(A \cup {x}) = Cardinality(A) + 1
      BY <2>1, <2>2, FS_AddElement
    <3> QED BY <2>3, <3>1, <3>2 DEF A
  <2>4. CASE u # x.by
    <3>1. {r \in E : r.by = u} = A
      BY <1>1, <2>4
    <3>2. Cardinality(A) + 0 = Cardinality(A)
      BY <2>2
    <3> HIDE DEF A
    <3> QED BY <2>4, <3>1, <3>2 DEF A
  <2> QED BY <2>3, <2>4
<1>4. ASSUME NEW u \in Users
      PROVE  Cardinality({r \in E : r.assignee = u})
               = Cardinality({r \in D : r.assignee = u}) + (IF u = x.assignee THEN 1 ELSE 0)
  <2> DEFINE A == {r \in D : r.assignee = u}
  <2>1. A \subseteq D /\ x \notin A
    BY <1>1
  <2>2. IsFiniteSet(A) /\ Cardinality(A) \in Nat
    BY <1>1, <2>1, FS_Subset, FS_CardinalityType
  <2>3. CASE u = x.assignee
    <3>1. {r \in E : r.assignee = u} = A \cup {x}
      BY <1>1, <2>3
    <3> HIDE DEF A
    <3>2. Cardinality(A \cup {x}) = Cardinality(A) + 1
      BY <2>1, <2>2, FS_AddElement
    <3> QED BY <2>3, <3>1, <3>2 DEF A
  <2>4. CASE u # x.assignee
    <3>1. {r \in E : r.assignee = u} = A
      BY <1>1, <2>4
    <3>2. Cardinality(A) + 0 = Cardinality(A)
      BY <2>2
    <3> HIDE DEF A
    <3> QED BY <2>4, <3>1, <3>2 DEF A
  <2> QED BY <2>3, <2>4
<1> QED BY <1>2, <1>3, <1>4 DEF D, E, Done, Tally, Held

-----------------------------------------------------------------------------
(* The requests of the rotation                                            *)

(* Chores a request leaves alone.                                          *)
LEMMA OthersKeep ==
  ASSUME RInv, NEW d \in ChoreIds, chore'[d] = chore[d],
         Completions(rows', d) = Completions(rows, d), OpenOf(rows', d) = OpenOf(rows, d),
         NEW o \in OpenOf(rows', d)
  PROVE  OnTheHook(chore'[d], Done(rows', d), Tally(rows', d), Held(rows', d), o.assignee)
<1>1. /\ Done(rows', d) = Done(rows, d) /\ Tally(rows', d) = Tally(rows, d)
      /\ Held(rows', d) = Held(rows, d)
  BY SameCounts
<1>2. OnTheHook(chore[d], Done(rows, d), Tally(rows, d), Held(rows, d), o.assignee)
  BY DEF RInv
<1> QED BY <1>1, <1>2

(* With nothing done yet anybody may be on the hook.                       *)
LEMMA FreshTurns ==
  ASSUME NEW k, Sound(k), NEW tally, NEW held, NEW a \in k.pool \cup {NoUser},
         \A u \in Users : tally[u] = 0 /\ held[u] = 0
  PROVE  OnTheHook(k, 0, tally, held, a)
<1>1. 0 % k.turn = 0
  BY NoTurn DEF Sound
<1>2. /\ k.pool \subseteq Int /\ NoUser \notin k.pool
      /\ \A u \in k.pool : tally[u] = 0 /\ held[u] = 0
  BY UsersAreNumbers DEF Sound
<1>3. Behind(k, 0, tally, a)
  BY <1>1, <1>2 DEF Behind
<1>4. EvenTurns(k, 0, held, a)
  <2>1. CASE a = NoUser
    BY <1>2, <2>1 DEF EvenTurns
  <2>2. CASE a \in k.pool
    <3>1. \A u \in k.pool : ~Passed(u, a, a)
      BY <1>2, <2>2 DEF Passed
    <3>2. \A u \in k.pool : held[u] = 0 + (IF Passed(u, a, a) THEN k.turn
                                           ELSE IF u = a THEN 0 % k.turn ELSE 0)
      BY <1>1, <1>2, <3>1
    <3> QED BY <1>2, <2>2, <3>2 DEF EvenTurns
  <2> QED BY <2>1, <2>2
<1> QED BY <1>3, <1>4 DEF OnTheHook

LEMMA CreateTurns ==
  ASSUME RInv, NEW u \in Users, NEW c \in ChoreIds, NEW p \in Payloads,
         NEW t \in Clock, Create(u, c, p, t)
  PROVE  RInv'
<1>1. IInv /\ IInv' /\ IsFiniteSet(rows)
  BY CreateKeepsIInv DEF RInv
<1>2. p.strategy \in Strategies /\ p.pool \subseteq Users /\ p.current \in p.pool \cup {NoUser}
  BY PayloadAssumption DEF Payload
<1>3. \E slot : \E a \in p.pool \cup {NoUser} : rows' = rows \cup {OpenRow(nextId, c, slot, a)}
  <2>1. StrategyPick(rows, c, p.strategy, p.pool) \subseteq p.pool \cup {NoUser}
    BY <1>2, InitialAssigneesType DEF StrategyPick
  <2> DEFINE picks == IF p.clear THEN {NoUser}
                      ELSE IF p.current # NoUser THEN {p.current}
                      ELSE StrategyPick(rows, c, p.strategy, p.pool)
             first == IF p.start = NoDate THEN t
                      ELSE ToInstant(FirstOccurrence(p.start, p.rule), timezone)
  <2>2. \E a \in picks : rows' = rows \cup {OpenRow(nextId, c, first, a)}
    BY DEF Create
  <2>3. picks \subseteq p.pool \cup {NoUser}
    BY <1>2, <2>1
  <2> HIDE DEF picks, first
  <2> QED BY <2>2, <2>3
<1> PICK slot, a : a \in p.pool \cup {NoUser} /\ rows' = rows \cup {OpenRow(nextId, c, slot, a)}
  BY <1>3
<1> DEFINE new == OpenRow(nextId, c, slot, a)
<1>4. new.chore = c /\ new.status = "open" /\ new.assignee = a
  BY DEF OpenRow
<1>5. chore' = [chore EXCEPT ![c] = Configured(p)] /\ chore[c].life = "unused"
  BY DEF Create
<1>6. \A r \in rows : r.chore # c
  BY <1>1, <1>5 DEF IInv, RowsHaveChores
<1>7. /\ chore'[c] = Configured(p) /\ chore'[c].pool = p.pool
      /\ \A d \in ChoreIds \ {c} : chore'[d] = chore[d]
  BY <1>1, <1>5 DEF IInv, TypeOK, Configured
<1>8. rows' = rows \cup {new}
  BY <1>3
<1> HIDE DEF new
<1>9. IsFiniteSet(rows')
  BY <1>1, <1>8, FS_AddElement
<1>10. Completions(rows', c) = {} /\ OpenOf(rows', c) = {new}
  BY <1>4, <1>6, <1>8 DEF Completions, DoneOf, OpenOf
<1>11. \A d \in ChoreIds \ {c} : /\ Completions(rows', d) = Completions(rows, d)
                                 /\ OpenOf(rows', d) = OpenOf(rows, d)
  BY <1>4, <1>8 DEF Completions, DoneOf, OpenOf
<1>12. Sound(chore'[c])
  BY <1>1 DEF Sound, IInv, TypeOK, Chore
<1>13. /\ Done(rows', c) = 0
       /\ \A v \in Users : Tally(rows', c)[v] = 0 /\ Held(rows', c)[v] = 0
  BY <1>10, FS_EmptySet DEF Done, Tally, Held
<1>14. OnTheHook(chore'[c], Done(rows', c), Tally(rows', c), Held(rows', c), a)
  BY <1>7, <1>12, <1>13, FreshTurns
<1>15. ASSUME NEW d \in ChoreIds, NEW o \in OpenOf(rows', d)
       PROVE  OnTheHook(chore'[d], Done(rows', d), Tally(rows', d), Held(rows', d), o.assignee)
  <2>1. CASE d = c
    BY <1>4, <1>10, <1>14, <2>1
  <2>2. CASE d # c
    BY <1>7, <1>11, <2>2, OthersKeep
  <2> QED BY <2>1, <2>2
<1> QED BY <1>1, <1>9, <1>15 DEF RInv

(* What the derivations make of a pool member or nobody on the hook.       *)
LEMMA SuccessorIs ==
  ASSUME IInv, NEW c \in ChoreIds, NEW R, NEW n \in Nat, Done(R, c) = n,
         NEW current \in chore[c].pool \cup {NoUser},
         NEW a \in SuccessorAssignees(R, c, current)
  PROVE  /\ a \in chore[c].pool \cup {NoUser}
         /\ chore[c].strategy \in {"least_done", "alphabetical"} =>
              IF n % chore[c].turn = 0
              THEN a \in NextAssignees(chore[c].strategy, chore[c].pool, current, Tally(R, c))
              ELSE a = current
<1> DEFINE k == chore[c]
<1>1. /\ k.pool \subseteq Users /\ k.turn \in Nat \ {0} /\ k.strategy \in Strategies
      /\ NoUser \notin k.pool
  BY ChoreIsSound, UsersAreNumbers DEF Sound
<1> HIDE DEF k
<1>2. ShouldReassign(n, k.turn) <=> n % k.turn = 0
  BY <1>1 DEF ShouldReassign
<1>3. NextAssignees(k.strategy, k.pool, current, Tally(R, c)) \subseteq k.pool \cup {NoUser}
  <2>1. current \in k.pool \cup {NoUser}
    BY DEF k
  <2> QED BY <1>1, <2>1, NextAssigneesType
<1>4. CASE k.pool = {}
  <2>1. a = NoUser /\ current = NoUser
    BY <1>4 DEF SuccessorAssignees, k
  <2>2. k.strategy # "manual" => NextAssignees(k.strategy, k.pool, current, Tally(R, c)) = {NoUser}
    BY <1>4 DEF NextAssignees
  <2> QED BY <2>1, <2>2 DEF k
<1>5. CASE k.pool # {} /\ n % k.turn = 0
  <2>1. a \in NextAssignees(k.strategy, k.pool, IF current \in k.pool THEN current ELSE NoUser,
                            Tally(R, c))
    BY <1>2, <1>5 DEF SuccessorAssignees, Done, k
  <2>2. (IF current \in k.pool THEN current ELSE NoUser) = current
    BY DEF k
  <2> QED BY <1>3, <1>5, <2>1, <2>2 DEF k
<1>6. CASE k.pool # {} /\ n % k.turn # 0
  BY <1>2, <1>6 DEF SuccessorAssignees, Done, k
<1> QED BY <1>4, <1>5, <1>6

LEMMA RetainedIs ==
  ASSUME NEW c, NEW R, NEW current \in chore[c].pool \cup {NoUser},
         NEW a \in RetainedAssignees(R, c, current)
  PROVE  a = current
  BY DEF RetainedAssignees

LEMMA CloseRowsAre ==
  ASSUME NEW c \in ChoreIds, NEW by, NEW skipped \in BOOLEAN, NEW backdate, NEW t,
         Close(c, by, skipped, backdate, t)
  PROVE  \E occ \in OpenOf(rows, c) : \E at, slot :
           \E a \in IF skipped
                    THEN RetainedAssignees(CloseRow(rows, occ, by, at, skipped), c, occ.assignee)
                    ELSE SuccessorAssignees(CloseRow(rows, occ, by, at, skipped), c, occ.assignee) :
             rows' = CloseRow(rows, occ, by, at, skipped) \cup {OpenRow(nextId, c, slot, a)}
<1>1. PICK occ \in OpenOf(rows, c) :
        LET at      == ClosureInstant(occ, t, backdate)
            history == CloseRow(rows, occ, by, at, skipped)
            slot    == SuccessorSlot(history, c, occ, at)
        IN  \E a \in IF skipped THEN RetainedAssignees(history, c, occ.assignee)
                     ELSE SuccessorAssignees(history, c, occ.assignee) :
              rows' = history \cup {OpenRow(nextId, c, slot, a)}
  BY DEF Close
<1> DEFINE at      == ClosureInstant(occ, t, backdate)
           slot    == SuccessorSlot(CloseRow(rows, occ, by, at, skipped), c, occ, at)
<1>2. \E a \in IF skipped
               THEN RetainedAssignees(CloseRow(rows, occ, by, at, skipped), c, occ.assignee)
               ELSE SuccessorAssignees(CloseRow(rows, occ, by, at, skipped), c, occ.assignee) :
        rows' = CloseRow(rows, occ, by, at, skipped) \cup {OpenRow(nextId, c, slot, a)}
  BY <1>1
<1> HIDE DEF at, slot
<1> QED BY <1>2

LEMMA CloseTurns ==
  ASSUME RInv, NEW c \in ChoreIds, NEW by \in Users, NEW skipped \in BOOLEAN,
         NEW backdate \in BOOLEAN, NEW t \in Clock, Close(c, by, skipped, backdate, t)
  PROVE  RInv'
<1>1. IInv /\ IInv' /\ IsFiniteSet(rows) /\ chore' = chore
  <2>1. IInv /\ IsFiniteSet(rows)
    BY DEF RInv
  <2>2. IInv'
    BY <2>1, CloseKeepsIInv
  <2>3. chore' = chore
    BY DEF Close
  <2> QED BY <2>1, <2>2, <2>3
<1>2. PICK occ \in OpenOf(rows, c) : \E at, slot :
        \E a \in IF skipped
                 THEN RetainedAssignees(CloseRow(rows, occ, by, at, skipped), c, occ.assignee)
                 ELSE SuccessorAssignees(CloseRow(rows, occ, by, at, skipped), c, occ.assignee) :
          rows' = CloseRow(rows, occ, by, at, skipped) \cup {OpenRow(nextId, c, slot, a)}
  BY CloseRowsAre
<1> PICK at, slot :
      \E a \in IF skipped
               THEN RetainedAssignees(CloseRow(rows, occ, by, at, skipped), c, occ.assignee)
               ELSE SuccessorAssignees(CloseRow(rows, occ, by, at, skipped), c, occ.assignee) :
        rows' = CloseRow(rows, occ, by, at, skipped) \cup {OpenRow(nextId, c, slot, a)}
  BY <1>2
<1> DEFINE history == CloseRow(rows, occ, by, at, skipped)
           old     == Closed(occ, by, at, skipped)
           k       == chore[c]
           current == occ.assignee
<1>3. PICK a \in IF skipped THEN RetainedAssignees(history, c, current)
                 ELSE SuccessorAssignees(history, c, current) :
        rows' = history \cup {OpenRow(nextId, c, slot, a)}
  OBVIOUS
<1> DEFINE new == OpenRow(nextId, c, slot, a)
<1>4. /\ old \notin rows /\ old.by = by /\ old.assignee = current /\ new.assignee = a
      /\ Completions(history, c) = IF skipped THEN Completions(rows, c)
                                   ELSE Completions(rows, c) \cup {old}
      /\ \A d \in ChoreIds : Completions(rows', d) = Completions(history, d)
      /\ OpenOf(rows', c) = {new}
      /\ \A d \in ChoreIds \ {c} : /\ Completions(history, d) = Completions(rows, d)
                                   /\ OpenOf(rows', d) = OpenOf(rows, d)
  <2>1. /\ old.id = occ.id /\ old.chore = c /\ old.status = "done" /\ old.skipped = skipped
        /\ old.by = by /\ old.assignee = current
    BY <1>1, OpenRowFacts DEF Closed, Row
  <2>2. new.chore = c /\ new.status = "open" /\ new.assignee = a
    BY DEF OpenRow
  <2>3. history = (rows \ {occ}) \cup {old} /\ rows' = history \cup {new}
    BY <1>3 DEF CloseRow
  <2> HIDE DEF old, history, new, current
  <2>4. /\ occ \in Row /\ occ \in rows /\ occ.chore = c /\ occ.status = "open"
        /\ \A r \in rows : r.chore = c /\ r.status = "open" => r = occ
    BY <1>1, OpenRowFacts
  <2>5. old \notin rows
    BY <1>1, <2>1, <2>4 DEF IInv, IdsAreUnique
  <2>6. Completions(history, c) = IF skipped THEN Completions(rows, c)
                                  ELSE Completions(rows, c) \cup {old}
    BY <2>1, <2>3, <2>4 DEF Completions, DoneOf
  <2>7. \A d \in ChoreIds : Completions(rows', d) = Completions(history, d)
    BY <2>2, <2>3 DEF Completions, DoneOf
  <2>8. OpenOf(rows', c) = {new}
    BY <2>1, <2>2, <2>3, <2>4 DEF OpenOf
  <2>9. \A d \in ChoreIds \ {c} : /\ Completions(history, d) = Completions(rows, d)
                                  /\ OpenOf(rows', d) = OpenOf(rows, d)
    BY <2>1, <2>2, <2>3, <2>4 DEF Completions, DoneOf, OpenOf
  <2> QED BY <2>1, <2>2, <2>5, <2>6, <2>7, <2>8, <2>9
<1>5. IsFiniteSet(history) /\ IsFiniteSet(rows')
  <2>1. IsFiniteSet(rows \ {occ})
    BY <1>1, FS_Subset
  <2>2. history = (rows \ {occ}) \cup {old}
    BY DEF CloseRow
  <2> HIDE DEF history, old, new
  <2>3. IsFiniteSet(history)
    BY <2>1, <2>2, FS_AddElement
  <2> QED BY <1>3, <2>3, FS_AddElement DEF new
<1> HIDE DEF history, old, new
<1>6. /\ Sound(k) /\ current \in k.pool \cup {NoUser}
      /\ OnTheHook(k, Done(rows, c), Tally(rows, c), Held(rows, c), current)
  BY <1>1, ChoreIsSound DEF RInv, OnTheHook
<1>7. /\ Done(rows, c) \in Nat /\ Tally(rows, c) \in Counts /\ Held(rows, c) \in Counts
      /\ Tally(history, c) \in Counts /\ Held(history, c) \in Counts
  BY <1>1, <1>5, CountTypes
<1>8. OnTheHook(k, Done(history, c), Tally(history, c), Held(history, c), a)
  <2>1. CASE skipped
    <3>1. Completions(history, c) = Completions(rows, c) /\ a \in RetainedAssignees(history, c, current)
      BY <1>3, <1>4, <2>1
    <3>2. a = current
      BY <1>6, <3>1, RetainedIs
    <3> QED BY <1>6, <3>1, <3>2, SameCounts
  <2>2. CASE ~skipped
    <3> DEFINE n == Done(rows, c)
    <3>1. /\ Completions(history, c) = Completions(rows, c) \cup {old}
          /\ old \notin Completions(rows, c)
          /\ a \in SuccessorAssignees(history, c, current)
      BY <1>3, <1>4, <2>2 DEF Completions, DoneOf
    <3>2. /\ Done(history, c) = n + 1
          /\ \A u \in Users :
               /\ Tally(history, c)[u] = Tally(rows, c)[u] + (IF u = by THEN 1 ELSE 0)
               /\ Held(history, c)[u] = Held(rows, c)[u] + (IF u = current THEN 1 ELSE 0)
      BY <1>1, <1>4, <3>1, OneMore
    <3> HIDE DEF n
    <3>3. n \in Nat /\ n + 1 \in Nat
      BY <1>7 DEF n
    <3> HIDE DEF k, current
    <3>4. /\ a \in k.pool \cup {NoUser}
          /\ k.strategy \in {"least_done", "alphabetical"} =>
               IF (n + 1) % k.turn = 0
               THEN a \in NextAssignees(k.strategy, k.pool, current, Tally(history, c))
               ELSE a = current
      BY <1>1, <1>6, <3>1, <3>2, <3>3, SuccessorIs DEF k
    <3>5. ASSUME k.strategy = "least_done" PROVE Behind(k, n + 1, Tally(history, c), a)
      <4>1. Behind(k, n, Tally(rows, c), current)
        BY <1>6, <3>5 DEF OnTheHook, n
      <4> QED BY <1>6, <1>7, <3>2, <3>3, <3>4, <3>5, <4>1, BehindStep
    <3>6. ASSUME k.strategy = "alphabetical" PROVE EvenTurns(k, n + 1, Held(history, c), a)
      <4>1. EvenTurns(k, n, Held(rows, c), current)
        BY <1>6, <3>6 DEF OnTheHook, n
      <4> QED BY <1>6, <1>7, <3>2, <3>3, <3>4, <3>6, <4>1, EvenStep
    <3> QED BY <3>2, <3>4, <3>5, <3>6 DEF OnTheHook
  <2> QED BY <2>1, <2>2
<1>9. OnTheHook(k, Done(rows', c), Tally(rows', c), Held(rows', c), a)
  BY <1>4, <1>8, SameCounts
<1>10. ASSUME NEW d \in ChoreIds, NEW o \in OpenOf(rows', d)
       PROVE  OnTheHook(chore'[d], Done(rows', d), Tally(rows', d), Held(rows', d), o.assignee)
  <2>1. CASE d = c
    BY <1>1, <1>4, <1>9, <2>1
  <2>2. CASE d # c
    <3>1. /\ chore'[d] = chore[d] /\ Completions(rows', d) = Completions(rows, d)
          /\ OpenOf(rows', d) = OpenOf(rows, d)
      BY <1>1, <1>4, <2>2
    <3> QED BY <3>1, OthersKeep
  <2> QED BY <2>1, <2>2
<1> QED BY <1>1, <1>5, <1>10 DEF RInv

(* At first no chore exists and nothing is on anybody's hook.              *)
LEMMA InitRInv == Init => RInv
<1> SUFFICES ASSUME Init PROVE RInv
  OBVIOUS
<1>1. IInv /\ rows = {}
  BY InitIInv DEF Init
<1>2. IsFiniteSet(rows) /\ \A c \in ChoreIds : OpenOf(rows, c) = {}
  BY <1>1, FS_EmptySet DEF OpenOf
<1> QED BY <1>1, <1>2 DEF RInv

LEMMA StepKeepsRInv == RInv /\ [RotationNext]_vars => RInv'
<1> SUFFICES ASSUME RInv, [RotationNext]_vars PROVE RInv'
  OBVIOUS
<1>1. CASE CreateStep
  BY <1>1, CreateTurns DEF CreateStep
<1>2. CASE CompleteStep
  <2>1. PICK u \in Users, credit \in Users, c \in ChoreIds, b \in BOOLEAN, t \in Clock :
          Complete(u, c, credit, b, t)
    BY <1>2 DEF CompleteStep
  <2> QED BY <2>1, CloseTurns DEF Complete
<1>3. CASE SkipStep
  <2>1. PICK u \in Users, c \in ChoreIds, t \in Clock : Skip(u, c, t)
    BY <1>3 DEF SkipStep
  <2> QED BY <2>1, CloseTurns DEF Skip
<1>4. CASE UNCHANGED vars
  <2>1. rows' = rows /\ chore' = chore
    BY <1>4 DEF vars
  <2>2. IInv'
    BY <1>4, StepKeepsIInv DEF RInv
  <2>3. ASSUME NEW d \in ChoreIds, NEW o \in OpenOf(rows', d)
        PROVE  OnTheHook(chore'[d], Done(rows', d), Tally(rows', d), Held(rows', d), o.assignee)
    BY <2>1 DEF RInv
  <2> QED BY <2>1, <2>2, <2>3 DEF RInv
<1> QED BY <1>1, <1>2, <1>3, <1>4 DEF RotationNext

LEMMA RInvHolds == RotationSpec => []RInv
BY InitRInv, StepKeepsRInv, PTL DEF RotationSpec

(* A chore without an open row has no completions either.                  *)
LEMMA NothingOpenNothingDone ==
  ASSUME RInv, NEW c \in ChoreIds, OpenOf(rows, c) = {}
  PROVE  Completions(rows, c) = {}
<1>1. chore[c].life = "unused"
  BY DEF RInv, IInv, OneOpenPerChore
<1>2. \A r \in rows : r.chore # c
  BY <1>1 DEF RInv, IInv, RowsHaveChores
<1> QED BY <1>2 DEF Completions, DoneOf

-----------------------------------------------------------------------------
(* Under the alphabetical rotation no member of a pool has held the chore  *)
(* for more than a turn above another, whatever was skipped in between and *)
(* whoever the completions were credited to.                               *)
THEOREM AlphabeticalTurnsAreEvenAlways == RotationSpec => []AlphabeticalTurnsAreEven
<1>1. ASSUME RInv PROVE AlphabeticalTurnsAreEven
  <2> SUFFICES ASSUME NEW c \in ChoreIds, chore[c].strategy = "alphabetical",
                      NEW u \in chore[c].pool, NEW v \in chore[c].pool
               PROVE  HeldBy(c, u) <= HeldBy(c, v) + chore[c].turn
    BY DEF AlphabeticalTurnsAreEven
  <2> DEFINE k == chore[c]
             held == Held(rows, c)
             n == Done(rows, c)
  <2>1. IInv /\ IsFiniteSet(rows) /\ Sound(k)
    BY <1>1, ChoreIsSound DEF RInv
  <2>2. HeldBy(c, u) = held[u] /\ HeldBy(c, v) = held[v]
    BY <2>1 DEF HeldBy, Held, Sound
  <2>3. held[u] \in Nat /\ held[v] \in Nat /\ n \in Nat
    BY <2>1, CountTypes DEF Counts, Sound
  <2>4. n % k.turn \in 0..(k.turn - 1) /\ k.turn \in Nat
    BY <2>1, <2>3, TurnStep DEF Sound
  <2>5. CASE OpenOf(rows, c) = {}
    <3>1. Completions(rows, c) = {}
      BY <1>1, <2>5, NothingOpenNothingDone
    <3>2. held[u] = 0 /\ held[v] = 0
      BY <2>1, <3>1, FS_EmptySet DEF Held, Sound
    <3> QED BY <2>2, <2>4, <3>2
  <2>6. CASE OpenOf(rows, c) # {}
    <3>1. PICK o \in OpenOf(rows, c) : EvenTurns(k, n, held, o.assignee)
      BY <1>1, <2>6 DEF RInv, OnTheHook
    <3> DEFINE a == o.assignee
               m == n % k.turn
    <3>2. CASE a = NoUser
      <4>1. held[u] = 0 /\ held[v] = 0
        BY <3>1, <3>2 DEF EvenTurns
      <4> QED BY <2>2, <2>4, <4>1
    <3>3. CASE a # NoUser
      <4>1. PICK base \in Nat, first \in k.pool :
              \A w \in k.pool : held[w] = base + (IF Passed(w, first, a) THEN k.turn
                                                  ELSE IF w = a THEN m ELSE 0)
        BY <3>1, <3>3 DEF EvenTurns
      <4>2. /\ held[u] = base + (IF Passed(u, first, a) THEN k.turn ELSE IF u = a THEN m ELSE 0)
            /\ held[v] = base + (IF Passed(v, first, a) THEN k.turn ELSE IF v = a THEN m ELSE 0)
        BY <4>1
      <4>3. m \in 0..(k.turn - 1) /\ k.turn \in Nat
        BY <2>4
      <4> HIDE DEF m, held, n, a
      <4>4. held[u] <= base + k.turn /\ base <= held[v]
        BY <4>2, <4>3
      <4> QED BY <2>2, <2>3, <4>3, <4>4
    <3> QED BY <3>2, <3>3
  <2> QED BY <2>5, <2>6
<1> QED BY <1>1, RInvHolds, PTL

(* Under least_done the member on the hook has never done more than        *)
(* another of the pool, the completions of the turn being held aside.      *)
THEOREM LeastDoneIsBehindAlways == RotationSpec => []LeastDoneIsBehind
<1>1. ASSUME RInv PROVE LeastDoneIsBehind
  <2> SUFFICES ASSUME NEW c \in ChoreIds, chore[c].strategy = "least_done",
                      NEW o \in OpenOf(rows, c), o.assignee # NoUser,
                      NEW v \in chore[c].pool
               PROVE  Tally(rows, c)[o.assignee] <= Tally(rows, c)[v] + chore[c].turn - 1
    BY DEF LeastDoneIsBehind
  <2> DEFINE k == chore[c]
             tally == Tally(rows, c)
             n == Done(rows, c)
             a == o.assignee
             m == n % k.turn
  <2>1. IInv /\ IsFiniteSet(rows) /\ Sound(k)
    BY <1>1, ChoreIsSound DEF RInv
  <2>2. a \in k.pool \cup {NoUser} /\ Behind(k, n, tally, a)
    BY <1>1 DEF RInv, OnTheHook
  <2>3. tally[a] \in Nat /\ tally[v] \in Nat /\ n \in Nat
    BY <2>1, <2>2, CountTypes DEF Counts, Sound
  <2>4. m \in 0..(k.turn - 1) /\ k.turn \in Nat
    BY <2>1, <2>3, TurnStep DEF Sound
  <2>5. tally[a] <= tally[v] + m
    BY <2>2 DEF Behind
  <2> HIDE DEF m, tally, n, a
  <2>6. tally[a] <= tally[v] + k.turn - 1
    BY <2>3, <2>4, <2>5
  <2> QED BY <2>6 DEF tally, a
<1> QED BY <1>1, RInvHolds, PTL

-----------------------------------------------------------------------------
(***************************************************************************)
(* The slots of Chores: what the two walks of Recurrence compute, for any  *)
(* calendar whose grids go forward, and what the requests make of it.      *)
(*                                                                         *)
(* A walk is a recursive function: it goes from reading to reading by      *)
(* `step`, stops at the first of `stop`, and answers what `out` says there.*)
(* That one exists, and where it stops, is proved from the sets of         *)
(* readings it passes.                                                     *)
(***************************************************************************)

Forward(step) == step \in [Int -> Int] /\ \A x \in Int : step[x] > x

IsWalk(f, step, stop, out) ==
  f = [x \in Int |-> IF x \in stop THEN out[x] ELSE f[step[x]]]

(* The readings a walk from x would pass if it never stopped: those of     *)
(* every set that holds x and is closed under step.                        *)
Orbit(step, x) ==
  {y \in Int : \A T \in SUBSET Int :
                 x \in T /\ (\A w \in T : step[w] \in T) => y \in T}

Nearest(S) == CHOOSE y \in S : \A w \in S : y <= w

LEMMA OrbitGoesOn ==
  ASSUME NEW step, Forward(step), NEW x \in Int
  PROVE  /\ x \in Orbit(step, x) /\ \A y \in Orbit(step, x) : y >= x
         /\ Orbit(step, x) = {x} \cup Orbit(step, step[x])
<1>1. step \in [Int -> Int] /\ (\A y \in Int : step[y] > y /\ step[y] \in Int)
  BY DEF Forward
<1>2. x \in Orbit(step, x)
  BY DEF Orbit
<1>3. ASSUME NEW y \in Orbit(step, x) PROVE y >= x
  <2> DEFINE T == {w \in Int : w >= x}
  <2>1. T \in SUBSET Int /\ x \in T /\ \A w \in T : step[w] \in T
    BY <1>1
  <2> HIDE DEF T
  <2>2. y \in T
    BY <2>1 DEF Orbit
  <2> QED BY <2>2 DEF T
<1>4. ASSUME NEW y \in Orbit(step, step[x]) PROVE y \in Orbit(step, x)
  <2> SUFFICES ASSUME NEW T \in SUBSET Int, x \in T, \A w \in T : step[w] \in T
               PROVE  y \in T
    BY DEF Orbit
  <2> QED BY DEF Orbit
<1>5. ASSUME NEW y \in Orbit(step, x) PROVE y \in {x} \cup Orbit(step, step[x])
  <2> DEFINE T == {x} \cup Orbit(step, step[x])
  <2>1. T \in SUBSET Int /\ x \in T
    BY DEF Orbit
  <2>2. step[x] \in Orbit(step, step[x])
    BY <1>1 DEF Orbit
  <2>3. ASSUME NEW w \in Orbit(step, step[x]) PROVE step[w] \in Orbit(step, step[x])
    <3>1. w \in Int /\ step[w] \in Int
      BY <1>1 DEF Orbit
    <3> SUFFICES ASSUME NEW U \in SUBSET Int, step[x] \in U, \A v \in U : step[v] \in U
                 PROVE  step[w] \in U
      BY <3>1 DEF Orbit
    <3>2. w \in U
      BY <2>3 DEF Orbit
    <3> QED BY <3>2
  <2>4. \A w \in T : step[w] \in T
    BY <2>2, <2>3
  <2> HIDE DEF T
  <2>5. y \in T
    BY <2>1, <2>4 DEF Orbit
  <2> QED BY <2>5 DEF T
<1> QED BY <1>2, <1>3, <1>4, <1>5

(* There is a walk.                                                        *)
LEMMA WalkExists ==
  ASSUME NEW step, Forward(step), NEW stop, NEW out
  PROVE  \E f : IsWalk(f, step, stop, out)
<1> DEFINE stops(x) == Orbit(step, x) \cap stop
           f == [x \in Int |-> out[Nearest(stops(x))]]
<1>1. ASSUME NEW x \in Int, x \in stop PROVE f[x] = out[x]
  <2>1. x \in stops(x) /\ \A y \in stops(x) : y >= x /\ y \in Int
    BY <1>1, OrbitGoesOn DEF Orbit
  <2> DEFINE S == stops(x)
  <2> HIDE DEF S
  <2>2. \E y \in S : \A w \in S : y <= w
    BY <2>1 DEF S
  <2>3. Nearest(S) \in S /\ \A w \in S : Nearest(S) <= w
    BY <2>2 DEF Nearest
  <2>4. Nearest(S) = x
    BY <2>1, <2>3 DEF S
  <2> QED BY <2>4 DEF S
<1>2. ASSUME NEW x \in Int, x \notin stop PROVE f[x] = f[step[x]]
  <2>1. stops(x) = stops(step[x])
    BY <1>2, OrbitGoesOn
  <2>2. step[x] \in Int
    BY DEF Forward
  <2> QED BY <2>1, <2>2
<1>3. f = [x \in Int |-> f[x]]
  OBVIOUS
<1> HIDE DEF f
<1>4. f = [x \in Int |-> IF x \in stop THEN out[x] ELSE f[step[x]]]
  BY <1>1, <1>2, <1>3
<1> QED BY <1>4 DEF IsWalk

LEMMA GreatestExists ==
  ASSUME NEW S \in SUBSET Int, S # {}, NEW b \in Int, \A x \in S : x <= b
  PROVE  \E x \in S : \A y \in S : y <= x
<1> DEFINE below == {d \in Nat : \E x \in S : d = b - x}
<1>1. \A x \in S : b - x \in below
  OBVIOUS
<1>2. below \in SUBSET Nat
  OBVIOUS
<1>3. below # {}
  BY <1>1
<1>4. \A d \in below : \E x \in S : d = b - x
  OBVIOUS
<1> HIDE DEF below
<1>5. PICK d \in below : \A e \in below : ~(<<e, d>> \in OpToRel(<, Nat))
  BY <1>2, <1>3, NatLessThanWellFounded, WFMin, Zenon
<1>6. \A e \in below : ~(e < d)
  BY <1>2, <1>5 DEF OpToRel
<1>7. PICK x \in S : d = b - x
  BY <1>4, <1>5
<1>8. ASSUME NEW y \in S PROVE y <= x
  <2>1. ~(b - y < d)
    BY <1>1, <1>6
  <2> QED BY <1>7, <2>1
<1> QED BY <1>8

HoldsLateReadings(stop) == \E b \in Int : \A x \in Int : x > b => x \in stop

ClosedUnder(keep, step) == keep \in SUBSET Int /\ \A x \in keep : step[x] \in keep

EndsWell(f, stop, out, keep, x) ==
  \E y \in keep : /\ y \in stop /\ y >= x /\ f[x] = out[y]
                  /\ x \in stop => y = x

(* Where it must stop in the end, a walk from x stops at a reading of stop *)
(* not before x, at x if it may; and of a set it cannot leave if it starts *)
(* there.                                                                  *)
LEMMA WalkStops ==
  ASSUME NEW step, Forward(step), NEW stop, NEW out, NEW f, IsWalk(f, step, stop, out),
         HoldsLateReadings(stop), NEW keep, ClosedUnder(keep, step), NEW x \in keep
  PROVE  EndsWell(f, stop, out, keep, x)
<1> DEFINE ends(w) == \E y \in keep : y \in stop /\ y >= w /\ f[w] = out[y]
           bad == {w \in keep : ~ends(w)}
<1>1. \A w \in Int : f[w] = IF w \in stop THEN out[w] ELSE f[step[w]]
  BY DEF IsWalk
<1>2. PICK b \in Int : \A w \in Int : w > b => w \in stop
  BY DEF HoldsLateReadings
<1> USE DEF ClosedUnder
<1>3. bad \in SUBSET Int /\ \A w \in bad : w \notin stop /\ w <= b
  <2>1. ASSUME NEW w \in keep, w \in stop PROVE ends(w)
    BY <1>1, <2>1
  <2>2. \A w \in bad : w \notin stop /\ w \in Int
    BY <2>1
  <2>3. \A w \in bad : w <= b
    BY <1>2, <2>2
  <2> QED BY <2>2, <2>3
<1>4. ASSUME bad # {} PROVE FALSE
  <2>1. PICK g \in bad : \A w \in bad : w <= g
    BY <1>3, <1>4, GreatestExists
  <2>2. g \in keep /\ g \in Int /\ step[g] \in keep /\ step[g] > g /\ step[g] \in Int
    BY <2>1 DEF Forward
  <2>3. step[g] \notin bad
    BY <2>1, <2>2
  <2>4. PICK y \in keep : y \in stop /\ y >= step[g] /\ f[step[g]] = out[y]
    BY <2>2, <2>3
  <2>5. f[g] = out[y] /\ y >= g
    BY <1>1, <1>3, <2>1, <2>2, <2>4
  <2> QED BY <2>1, <2>4, <2>5
<1>5. CASE x \in stop
  BY <1>1, <1>5 DEF EndsWell
<1>6. CASE x \notin stop
  BY <1>4, <1>6 DEF EndsWell
<1> QED BY <1>5, <1>6

-----------------------------------------------------------------------------
(* Dates and readings                                                      *)

LEMMA DayFacts ==
  ASSUME NEW w \in Int
  PROVE  /\ DateOf(w) \in Int /\ TimeOf(w) \in 0..(DAY - 1)
         /\ w = DAY * DateOf(w) + TimeOf(w)
<1>1. DAY \in Nat \ {0}
  BY ZoneAssumption
<1> QED BY <1>1 DEF DateOf, TimeOf

LEMMA DateIsUnique ==
  ASSUME NEW d \in Int, NEW x \in 0..(DAY - 1)
  PROVE  DateOf(DAY * d + x) = d /\ TimeOf(DAY * d + x) = x
<1> DEFINE w == DAY * d + x
           e == DateOf(w)
           y == TimeOf(w)
<1>1. DAY \in Nat \ {0} /\ x \in Int /\ DAY * d \in Int
  BY ZoneAssumption
<1>2. w \in Int
  BY <1>1
<1>3. e \in Int /\ y \in 0..(DAY - 1) /\ w = DAY * e + y
  BY <1>2, DayFacts
<1> HIDE DEF e, y
<1>4. ASSUME d < e PROVE FALSE
  <2>1. DAY * (e - d) >= DAY
    BY <1>1, <1>3, <1>4
  <2>2. DAY * (e - d) = DAY * e - DAY * d
    BY <1>1, <1>3
  <2> QED BY <1>1, <1>3, <2>1, <2>2
<1>5. ASSUME d > e PROVE FALSE
  <2>1. DAY * (d - e) >= DAY
    BY <1>1, <1>3, <1>5
  <2>2. DAY * (d - e) = DAY * d - DAY * e
    BY <1>1, <1>3
  <2> QED BY <1>1, <1>3, <2>1, <2>2
<1>6. d = e
  BY <1>3, <1>4, <1>5
<1>7. x = y
  BY <1>1, <1>3, <1>6
<1> QED BY <1>6, <1>7 DEF e, y

LEMMA MidnightDate ==
  ASSUME NEW d \in Int
  PROVE  DAY * d \in Int /\ DateOf(DAY * d) = d /\ TimeOf(DAY * d) = 0
<1>1. DAY \in Nat \ {0} /\ DAY * d \in Int /\ 0 \in 0..(DAY - 1)
  BY ZoneAssumption
<1>2. DAY * d + 0 = DAY * d
  BY <1>1
<1>3. DateOf(DAY * d + 0) = d /\ TimeOf(DAY * d + 0) = 0
  BY <1>1, DateIsUnique
<1> QED BY <1>1, <1>2, <1>3

(* Later dates are read later.                                             *)
LEMMA LaterDate ==
  ASSUME NEW v \in Int, NEW w \in Int, DateOf(v) < DateOf(w)
  PROVE  v < w
<1>1. DAY \in Nat \ {0}
  BY ZoneAssumption
<1>2. /\ DateOf(v) \in Int /\ TimeOf(v) \in 0..(DAY - 1) /\ v = DAY * DateOf(v) + TimeOf(v)
      /\ DateOf(w) \in Int /\ TimeOf(w) \in 0..(DAY - 1) /\ w = DAY * DateOf(w) + TimeOf(w)
  BY DayFacts
<1>3. DAY * (DateOf(w) - DateOf(v)) >= DAY
  BY <1>1, <1>2
<1>4. DAY * (DateOf(w) - DateOf(v)) = DAY * DateOf(w) - DAY * DateOf(v)
  BY <1>1, <1>2
<1> QED BY <1>1, <1>2, <1>3, <1>4

LEMMA LeastOfTwo ==
  ASSUME NEW a \in Int, NEW b \in Int, NEW S, S \subseteq {a, b}, S # {}
  PROVE  Least(S) \in S
<1>1. \E x \in S : \A y \in S : x <= y
  <2>1. CASE a \in S /\ b \in S /\ a <= b
    BY <2>1
  <2>2. CASE a \in S /\ b \in S /\ b <= a
    BY <2>2
  <2>3. CASE b \notin S
    <3>1. a \in S /\ \A y \in S : y = a
      BY <2>3
    <3> QED BY <3>1
  <2>4. CASE a \notin S
    <3>1. b \in S /\ \A y \in S : y = b
      BY <2>4
    <3> QED BY <3>1
  <2>5. a <= b \/ b <= a
    OBVIOUS
  <2> QED BY <2>1, <2>2, <2>3, <2>4, <2>5
<1> QED BY <1>1 DEF Least

(* Whatever a reading names, it is that reading less an offset of the zone.*)
LEMMA ToInstantTakesAnOffset ==
  ASSUME NEW z \in Zones, NEW w \in Int
  PROVE  \E o \in UtcOffsets[z] : o \in Int /\ ToInstant(w, z) = w - o
<1>1. PICK o \in UtcOffsets[z], s \in UtcOffsets[z] : UtcOffsets[z] = {o, s}
  BY ZoneAssumption
<1>2. UtcOffsets[z] \subseteq Int
  BY ZoneAssumption DEF UtcOffsets
<1> DEFINE candidates == {w - x : x \in UtcOffsets[z]}
           showing == {t \in candidates : t \in Times /\ Wall(t, z) = w}
<1>3. candidates = {w - o, w - s} /\ w - o \in Int /\ w - s \in Int
  BY <1>1, <1>2
<1>4. ToInstant(w, z) = IF showing # {} THEN Least(showing) ELSE Greatest(candidates)
  BY DEF ToInstant
<1>5. showing \subseteq candidates
  OBVIOUS
<1> HIDE DEF candidates, showing
<1>6. ASSUME showing # {} PROVE Least(showing) \in showing
  BY <1>3, <1>5, <1>6, LeastOfTwo
<1>7. Greatest(candidates) \in candidates
  <2>1. \E x \in candidates : \A y \in candidates : x >= y
    BY <1>3
  <2> QED BY <2>1 DEF Greatest
<1>8. ToInstant(w, z) \in {w - o, w - s}
  BY <1>3, <1>4, <1>5, <1>6, <1>7
<1> QED BY <1>1, <1>2, <1>8

LEMMA WallIsNumber ==
  ASSUME NEW z \in Zones, NEW t \in Times
  PROVE  t \in Int /\ Wall(t, z) \in Int /\ LocalDate(t, z) \in Int
<1>1. t \in Int /\ Wall(t, z) \in Int
  BY ZoneAssumption DEF Wall
<1> QED BY <1>1, DayFacts DEF LocalDate

(* Far enough along the wall clock, every reading is past a given instant. *)
LEMMA ReadingsGoPast ==
  ASSUME NEW z \in Zones, NEW m \in Int
  PROVE  \E b \in Int : \A w \in Int : w > b => ToInstant(w, z) > m
<1>1. PICK o \in UtcOffsets[z], s \in UtcOffsets[z] : UtcOffsets[z] = {o, s}
  BY ZoneAssumption
<1>2. o \in Int /\ s \in Int
  BY ZoneAssumption DEF UtcOffsets
<1>3. PICK top \in Int : o <= top /\ s <= top
  BY <1>2
<1>4. ASSUME NEW w \in Int, w > m + top PROVE ToInstant(w, z) > m
  <2>1. PICK x \in {o, s} : ToInstant(w, z) = w - x
    BY <1>1, ToInstantTakesAnOffset
  <2> QED BY <1>2, <1>3, <1>4, <2>1
<1>5. m + top \in Int
  OBVIOUS
<1> QED BY <1>4, <1>5

-----------------------------------------------------------------------------
(* Grids                                                                   *)

(* From every date the rule goes on to a later one.                        *)
Endless(rule) == \A d \in Int : NextDate(d, rule) \in Int /\ NextDate(d, rule) > d

(* A calendar that never ends, in either direction.                        *)
EndlessCalendar ==
  /\ MonthStart \in [Int -> Int]
  /\ \A m, n \in Int : m < n => MonthStart[m] < MonthStart[n]
  /\ \A d \in Int : \E m \in Int : MonthStart[m] <= d /\ d < MonthStart[m + 1]

LEMMA LeastWeekday ==
  ASSUME NEW S \in SUBSET (0..6), S # {} PROVE Least(S) \in S
<1>1. CASE 0 \in S
  <2>1. \A y \in S : 0 <= y
    OBVIOUS
  <2> QED BY <1>1, <2>1 DEF Least
<1>2. S \in SUBSET Nat
  OBVIOUS
<1>3. PICK x \in S : \A y \in S : ~(<<y, x>> \in OpToRel(<, Nat))
  BY <1>2, NatLessThanWellFounded, WFMin, Zenon
<1>4. \A y \in S : ~(y < x)
  BY <1>2, <1>3 DEF OpToRel
<1>5. \A y \in S : x <= y
  BY <1>2, <1>4
<1> QED BY <1>5 DEF Least

(* _weekly_step goes at least a day on.                                    *)
LEMMA WeeklyStepIsForward ==
  ASSUME NEW rule \in Rule, Pinned(rule), NEW weekday \in 0..6
  PROVE  WeeklyStep(weekday, rule) \in Int /\ WeeklyStep(weekday, rule) > 0
<1> DEFINE later == {w \in rule.weekdays : w > weekday}
<1>1. rule.weekdays \in SUBSET (0..6) /\ rule.weekdays # {} /\ rule.interval \in 1..365
  BY DEF Pinned, Rule, DAYS_IN_WEEK, MAX_INTERVAL
<1>2. WeeklyStep(weekday, rule) =
        IF later # {} THEN Least(later) - weekday
        ELSE 7 * rule.interval - weekday + Least(rule.weekdays)
  BY DEF WeeklyStep, DAYS_IN_WEEK
<1>3. later \in SUBSET (0..6) /\ \A w \in later : w > weekday
  BY <1>1
<1> HIDE DEF later
<1>4. Least(rule.weekdays) \in 0..6
  BY <1>1, LeastWeekday
<1>5. CASE later # {}
  <2> DEFINE l == Least(later)
  <2>1. l \in later
    BY <1>3, <1>5, LeastWeekday
  <2>2. WeeklyStep(weekday, rule) = l - weekday
    BY <1>2, <1>5
  <2> HIDE DEF l
  <2>3. l \in 0..6 /\ l > weekday
    BY <1>3, <2>1
  <2> QED BY <2>2, <2>3
<1>6. CASE later = {}
  <2> DEFINE i == rule.interval
             l == Least(rule.weekdays)
  <2>1. i \in 1..365 /\ l \in 0..6
    BY <1>1, <1>4
  <2>2. WeeklyStep(weekday, rule) = 7 * i - weekday + l
    BY <1>2, <1>6
  <2> HIDE DEF i, l
  <2> QED BY <2>1, <2>2
<1> QED BY <1>5, <1>6

LEMMA MonthsGoOn ==
  ASSUME EndlessCalendar, NEW d \in Int, NEW n \in Nat \ {0}
  PROVE  AddMonths(d, n) \in Int /\ AddMonths(d, n) > d
<1> DEFINE m == MonthOf(d)
<1>1. m \in Int /\ MonthStart[m] <= d /\ d < MonthStart[m + 1]
  <2>1. DOMAIN MonthStart = Int
    BY DEF EndlessCalendar
  <2>2. \E k \in DOMAIN MonthStart : /\ MonthStart[k] <= d
                                     /\ k + 1 \in DOMAIN MonthStart => d < MonthStart[k + 1]
    BY <2>1 DEF EndlessCalendar
  <2>3. /\ m \in DOMAIN MonthStart /\ MonthStart[m] <= d
        /\ m + 1 \in DOMAIN MonthStart => d < MonthStart[m + 1]
    BY <2>2 DEF MonthOf
  <2> QED BY <2>1, <2>3
<1> HIDE DEF m
<1>2. /\ MonthStart[m] \in Int /\ MonthStart[m + 1] \in Int
      /\ MonthStart[m + n] \in Int /\ MonthStart[m + n + 1] \in Int
      /\ MonthStart[m + n] < MonthStart[m + n + 1]
  <2>1. m + 1 \in Int /\ m + n \in Int /\ m + n + 1 \in Int /\ m + n < m + n + 1
    BY <1>1
  <2> QED BY <1>1, <2>1 DEF EndlessCalendar
<1>3. MonthStart[m + n] >= MonthStart[m + 1]
  <2>1. CASE n = 1
    BY <1>2, <2>1
  <2>2. CASE n > 1
    <3>1. m + 1 \in Int /\ m + n \in Int /\ m + 1 < m + n
      BY <1>1, <2>2
    <3>2. MonthStart[m + 1] < MonthStart[m + n]
      BY <3>1 DEF EndlessCalendar
    <3> QED BY <1>2, <3>2
  <2> QED BY <2>1, <2>2
<1>4. AddMonths(d, n) = MonthStart[m + n]
                          + Earlier(d - MonthStart[m], MonthLength(m + n) - 1)
  BY DEF AddMonths, m
<1>5. Earlier(d - MonthStart[m], MonthLength(m + n) - 1) \in Nat
  BY <1>1, <1>2 DEF Earlier, MonthLength
<1> QED BY <1>1, <1>2, <1>3, <1>4, <1>5

(* Every period of the code goes on for as long as the calendar does.      *)
LEMMA EveryGridIsEndless ==
  ASSUME NEW rule \in Rule, rule.repeats # "manual",
         rule.repeats \in {"monthly", "yearly"} => EndlessCalendar
  PROVE  Endless(rule)
<1> SUFFICES ASSUME NEW d \in Int
             PROVE  NextDate(d, rule) \in Int /\ NextDate(d, rule) > d
  BY DEF Endless
<1>1. /\ rule.interval \in 1..365
      /\ rule.repeats \in {"daily", "weekly", "monthly", "yearly"}
  BY DEF Rule, Periods, MAX_INTERVAL
<1>2. CASE rule.repeats = "daily"
  BY <1>1, <1>2 DEF NextDate
<1>3. CASE rule.repeats = "weekly" /\ Pinned(rule)
  <2>1. Weekday(d) \in 0..6
    BY DEF Weekday, DAYS_IN_WEEK
  <2>2. NextDate(d, rule) = d + WeeklyStep(Weekday(d), rule)
    BY <1>3 DEF NextDate
  <2> HIDE DEF Pinned
  <2>3. WeeklyStep(Weekday(d), rule) \in Int /\ WeeklyStep(Weekday(d), rule) > 0
    BY <1>3, <2>1, WeeklyStepIsForward
  <2> QED BY <2>2, <2>3
<1>4. CASE rule.repeats = "weekly" /\ ~Pinned(rule)
  BY <1>1, <1>4 DEF NextDate, DAYS_IN_WEEK
<1>5. CASE rule.repeats = "monthly"
  BY <1>1, <1>5, MonthsGoOn DEF NextDate
<1>6. CASE rule.repeats = "yearly"
  <2>1. NextDate(d, rule) = AddMonths(d, 12 * rule.interval)
    BY <1>6 DEF NextDate
  <2>2. 12 * rule.interval \in Nat \ {0}
    BY <1>1
  <2> QED BY <1>6, <2>1, <2>2, MonthsGoOn
<1> QED BY <1>1, <1>2, <1>3, <1>4, <1>5, <1>6

(* One step of the loops of the code, as a walk makes it.                  *)
LEMMA NextSlotGoesForward ==
  ASSUME NEW rule, Endless(rule), NEW w \in Int
  PROVE  /\ NextSlotAfter(w, rule) \in Int /\ NextSlotAfter(w, rule) > w
         /\ DateOf(NextSlotAfter(w, rule)) = NextDate(DateOf(w), rule)
         /\ TimeOf(NextSlotAfter(w, rule)) = TimeOf(w)
<1>1. DateOf(w) \in Int /\ TimeOf(w) \in 0..(DAY - 1)
  BY DayFacts
<1> DEFINE d == NextDate(DateOf(w), rule)
           x == TimeOf(w)
<1>2. d \in Int /\ d > DateOf(w) /\ x \in 0..(DAY - 1)
  BY <1>1 DEF Endless
<1>3. NextSlotAfter(w, rule) = DAY * d + x
  BY DEF NextSlotAfter
<1> HIDE DEF d, x
<1>4. DAY * d + x \in Int
  <2>1. DAY \in Int /\ DAY * d \in Int /\ x \in Int
    BY <1>2, ZoneAssumption
  <2> QED BY <2>1
<1>5. DateOf(DAY * d + x) = d /\ TimeOf(DAY * d + x) = x
  BY <1>2, DateIsUnique
<1>6. DAY * d + x > w
  BY <1>2, <1>4, <1>5, LaterDate
<1> QED BY <1>3, <1>4, <1>5, <1>6 DEF d, x

Step(rule) == [w \in Int |-> NextSlotAfter(w, rule)]

LEMMA StepIsForward ==
  ASSUME NEW rule, Endless(rule) PROVE Forward(Step(rule))
BY NextSlotGoesForward DEF Forward, Step

(* free_slot_from gives back the candidate when it is free, else the first *)
(* slot down the grid that is: a slot that stands for no row of `taken`.   *)
LEMMA FreeSlotIsFree ==
  ASSUME NEW z \in Zones, NEW rule, Endless(rule),
         NEW taken, NEW m \in Int, \A s \in taken : s \in Int /\ s <= m,
         NEW keep \in SUBSET Int, \A w \in keep : NextSlotAfter(w, rule) \in keep,
         NEW candidate \in keep
  PROVE  \E y \in keep :
           /\ FreeSlotFrom(candidate, taken, rule, z) = ToInstant(y, z)
           /\ ToInstant(y, z) \notin taken
           /\ y >= candidate
           /\ ToInstant(candidate, z) \notin taken => y = candidate
<1> DEFINE step == Step(rule)
           stop == {w \in Int : ToInstant(w, z) \notin taken}
           out == [w \in Int |-> ToInstant(w, z)]
           W(f) == f = [wall \in Int |->
                          IF ToInstant(wall, z) \in taken
                          THEN f[NextSlotAfter(wall, rule)]
                          ELSE ToInstant(wall, z)]
<1>1. Forward(step)
  BY StepIsForward
<1>2. ASSUME NEW f PROVE W(f) <=> IsWalk(f, step, stop, out)
  <2>1. \A w \in Int : (IF ToInstant(w, z) \in taken THEN f[NextSlotAfter(w, rule)]
                        ELSE ToInstant(w, z))
                     = (IF w \in stop THEN out[w] ELSE f[step[w]])
    BY DEF Step
  <2> QED BY <2>1 DEF IsWalk
<1>3. FreeSlotFrom(candidate, taken, rule, z) = (CHOOSE f : W(f))[candidate]
  BY DEF FreeSlotFrom
<1>4. HoldsLateReadings(stop)
  <2>1. PICK b \in Int : \A w \in Int : w > b => ToInstant(w, z) > m
    BY ReadingsGoPast
  <2>2. \A w \in Int : ToInstant(w, z) \in Int
    BY ToInstantTakesAnOffset
  <2>3. ASSUME NEW w \in Int, w > b PROVE ToInstant(w, z) \notin taken
    <3>1. ToInstant(w, z) > m /\ ToInstant(w, z) \in Int
      BY <2>1, <2>2, <2>3
    <3> QED BY <3>1
  <2> QED BY <2>3 DEF HoldsLateReadings
<1>5. ClosedUnder(keep, step)
  BY DEF Step, ClosedUnder
<1>6. \A w \in Int : w \in stop <=> ToInstant(w, z) \notin taken
  OBVIOUS
<1>7. \A w \in Int : out[w] = ToInstant(w, z)
  OBVIOUS
<1> HIDE DEF step, stop, out, W
<1>8. W(CHOOSE f : W(f))
  <2>1. \E f : W(f)
    BY <1>1, <1>2, WalkExists
  <2> QED BY <2>1
<1> DEFINE walk == CHOOSE f : W(f)
<1>9. IsWalk(walk, step, stop, out)
  BY <1>2, <1>8
<1>10. FreeSlotFrom(candidate, taken, rule, z) = walk[candidate]
  BY <1>3
<1> HIDE DEF walk
<1>11. EndsWell(walk, stop, out, keep, candidate)
  BY <1>1, <1>4, <1>5, <1>9, WalkStops
<1>12. PICK y \in keep : /\ y \in stop /\ y >= candidate /\ walk[candidate] = out[y]
                         /\ candidate \in stop => y = candidate
  BY <1>11 DEF EndsWell
<1>13. y \in Int /\ candidate \in Int
  OBVIOUS
<1>14. ToInstant(y, z) \notin taken /\ walk[candidate] = ToInstant(y, z)
  BY <1>6, <1>7, <1>12, <1>13
<1>15. ToInstant(candidate, z) \notin taken => y = candidate
  BY <1>6, <1>12, <1>13
<1> QED BY <1>10, <1>12, <1>14, <1>15

(* advance_anchor rolls to a reading of the grid from which the next slot  *)
(* is after the date, and no further than it has to.                       *)
LEMMA AnchorIsReached ==
  ASSUME NEW rule, Endless(rule), NEW date \in Int,
         NEW keep \in SUBSET Int, \A w \in keep : NextSlotAfter(w, rule) \in keep,
         NEW slot \in keep
  PROVE  /\ AdvanceAnchor(slot, date, rule) \in keep
         /\ AdvanceAnchor(slot, date, rule) >= slot
         /\ DateOf(NextSlotAfter(AdvanceAnchor(slot, date, rule), rule)) > date
         /\ DateOf(NextSlotAfter(slot, rule)) > date
              => AdvanceAnchor(slot, date, rule) = slot
<1> DEFINE step == Step(rule)
           stop == {w \in Int : ~(DateOf(NextSlotAfter(w, rule)) <= date)}
           out == [w \in Int |-> w]
           W(f) == f = [anchor \in Int |->
                          IF DateOf(NextSlotAfter(anchor, rule)) <= date
                          THEN f[NextSlotAfter(anchor, rule)]
                          ELSE anchor]
<1>1. Forward(step)
  BY StepIsForward
<1>2. ASSUME NEW f PROVE W(f) <=> IsWalk(f, step, stop, out)
  <2>1. \A w \in Int : (IF DateOf(NextSlotAfter(w, rule)) <= date
                        THEN f[NextSlotAfter(w, rule)] ELSE w)
                     = (IF w \in stop THEN out[w] ELSE f[step[w]])
    BY DEF Step
  <2> QED BY <2>1 DEF IsWalk
<1>3. AdvanceAnchor(slot, date, rule) = (CHOOSE f : W(f))[slot]
  BY DEF AdvanceAnchor
<1>4. \A w \in Int : /\ DateOf(NextSlotAfter(w, rule)) \in Int
                     /\ w \in stop <=> DateOf(NextSlotAfter(w, rule)) > date
  <2>1. \A w \in Int : DateOf(NextSlotAfter(w, rule)) \in Int
    BY NextSlotGoesForward, DayFacts
  <2> QED BY <2>1
<1>5. ASSUME NEW w \in Int, w > DAY * (date + 1)
      PROVE  DateOf(NextSlotAfter(w, rule)) > date
  <2>1. NextDate(DateOf(w), rule) > DateOf(w) /\ DateOf(w) \in Int
        /\ DateOf(NextSlotAfter(w, rule)) = NextDate(DateOf(w), rule)
        /\ NextDate(DateOf(w), rule) \in Int
    BY NextSlotGoesForward, DayFacts DEF Endless
  <2>2. ASSUME DateOf(w) < date PROVE FALSE
    <3> DEFINE v == DAY * (date + 1)
    <3>1. date + 1 \in Int
      OBVIOUS
    <3>2. DateOf(v) = date + 1 /\ v \in Int
      BY <3>1, MidnightDate
    <3> HIDE DEF v
    <3>3. DateOf(w) < DateOf(v)
      BY <2>1, <2>2, <3>2
    <3>4. w < v
      BY <3>2, <3>3, LaterDate
    <3> QED BY <1>5, <3>2, <3>4 DEF v
  <2> QED BY <2>1, <2>2
<1>6. HoldsLateReadings(stop)
  <2> DEFINE b == DAY * (date + 1)
  <2>1. b \in Int
    BY ZoneAssumption
  <2>2. \A w \in Int : w > b => w \in stop
    BY <1>4, <1>5
  <2> HIDE DEF b
  <2> QED BY <2>1, <2>2 DEF HoldsLateReadings
<1>7. ClosedUnder(keep, step)
  BY DEF Step, ClosedUnder
<1>8. \A w \in Int : out[w] = w
  OBVIOUS
<1> HIDE DEF step, stop, out, W
<1>9. W(CHOOSE f : W(f))
  <2>1. \E f : W(f)
    BY <1>1, <1>2, WalkExists
  <2> QED BY <2>1
<1> DEFINE walk == CHOOSE f : W(f)
<1>10. IsWalk(walk, step, stop, out)
  BY <1>2, <1>9
<1>11. AdvanceAnchor(slot, date, rule) = walk[slot]
  BY <1>3
<1> HIDE DEF walk
<1>12. EndsWell(walk, stop, out, keep, slot)
  BY <1>1, <1>6, <1>7, <1>10, WalkStops
<1> QED BY <1>4, <1>8, <1>11, <1>12 DEF EndsWell

-----------------------------------------------------------------------------
(* What the calendar owes the requests                                     *)

(* No rule that clients send runs out of dates.                            *)
GridsAreEndless == \A p \in Payloads : p.rule.repeats # "manual" => Endless(p.rule)

(* A local day that begins within the horizon ends within the calendar.    *)
DaysEnd == \A z \in Zones, t \in Instants : EndOfLocalDay(t, z) \in Times

LEMMA EndlessCalendarHasEndlessGrids ==
  ASSUME EndlessCalendar PROVE GridsAreEndless
BY EveryGridIsEndless, PayloadAssumption DEF GridsAreEndless, Payload

-----------------------------------------------------------------------------
(* The rows of a chore                                                     *)

RulesAreSent ==
  \A c \in ChoreIds : chore[c].life # "unused" => \E p \in Payloads : chore[c].rule = p.rule

SInv == IInv /\ RulesAreSent

LEMMA InitSInv == Init => SInv
<1>1. Init => RulesAreSent
  BY DEF Init, RulesAreSent, NoChore
<1> QED BY <1>1, InitIInv DEF SInv

LEMMA ConfiguredSends ==
  ASSUME TypeOK, RulesAreSent, NEW c \in ChoreIds, NEW p \in Payloads,
         chore' = [chore EXCEPT ![c] = Configured(p)]
  PROVE  RulesAreSent'
<1> SUFFICES ASSUME NEW d \in ChoreIds, chore'[d].life # "unused"
             PROVE  \E q \in Payloads : chore'[d].rule = q.rule
  BY DEF RulesAreSent
<1>1. CASE d = c
  <2>1. chore'[d] = Configured(p)
    BY <1>1 DEF TypeOK
  <2> QED BY <2>1 DEF Configured
<1>2. CASE d # c
  <2>1. chore'[d] = chore[d]
    BY <1>2 DEF TypeOK
  <2> QED BY <2>1 DEF RulesAreSent
<1> QED BY <1>1, <1>2

LEMMA StepKeepsSInv == SInv /\ [Next]_vars => SInv'
<1> SUFFICES ASSUME SInv, [Next]_vars PROVE SInv'
  OBVIOUS
<1>1. IInv'
  BY StepKeepsIInv DEF SInv
<1> SUFFICES RulesAreSent'
  BY <1>1 DEF SInv
<1>2. ASSUME chore' = chore PROVE RulesAreSent'
  BY <1>2 DEF SInv, RulesAreSent
<1>3. CASE CreateStep
  BY <1>3, ConfiguredSends DEF CreateStep, Create, SInv, IInv
<1>4. CASE UpdateStep
  BY <1>4, ConfiguredSends DEF UpdateStep, Update, SInv, IInv
<1>5. CASE DeleteStep
  <2>1. PICK c \in ChoreIds : Live(c) /\ chore' = [chore EXCEPT ![c].life = "deleted"]
    BY <1>5 DEF DeleteStep, Delete
  <2>2. \A d \in ChoreIds : /\ chore'[d].rule = chore[d].rule
                            /\ chore'[d].life # "unused" => chore[d].life # "unused"
    <3>1. chore \in [ChoreIds -> Chore] /\ chore[c].life = "live"
      BY <2>1 DEF SInv, IInv, TypeOK, Live
    <3> SUFFICES ASSUME NEW d \in ChoreIds
                 PROVE  /\ chore'[d].rule = chore[d].rule
                        /\ chore'[d].life # "unused" => chore[d].life # "unused"
      OBVIOUS
    <3>2. CASE d = c
      BY <2>1, <3>1, <3>2 DEF Chore
    <3>3. CASE d # c
      BY <2>1, <3>1, <3>3
    <3> QED BY <3>2, <3>3
  <2> QED BY <2>2 DEF SInv, RulesAreSent
<1>6. CASE CompleteStep \/ SkipStep \/ UndoStep \/ ZoneStep \/ UNCHANGED vars
  <2>1. chore' = chore
    <3>1. CASE CompleteStep
      BY <3>1 DEF CompleteStep, Complete, Close
    <3>2. CASE SkipStep
      BY <3>2 DEF SkipStep, Skip, Close
    <3>3. CASE UndoStep
      BY <3>3 DEF UndoStep, Undo
    <3>4. CASE ZoneStep
      BY <3>4 DEF ZoneStep, ChangeTimezone
    <3>5. CASE UNCHANGED vars
      BY <3>5 DEF vars
    <3> QED BY <1>6, <3>1, <3>2, <3>3, <3>4, <3>5
  <2> QED BY <1>2, <2>1
<1> QED BY <1>3, <1>4, <1>5, <1>6 DEF Next

LEMMA SInvHolds == Spec => []SInv
<1> QED BY InitSInv, StepKeepsSInv, PTL DEF Spec

LEMMA SentRuleIsEndless ==
  ASSUME SInv, GridsAreEndless, NEW c \in ChoreIds, chore[c].life # "unused",
         ~Unscheduled(c)
  PROVE  Endless(chore[c].rule)
BY DEF SInv, RulesAreSent, GridsAreEndless, Unscheduled

LEMMA SlotFacts ==
  ASSUME IInv, NEW r \in rows
  PROVE  r \in Row /\ r.slot \in Instants /\ r.slot \in Times /\ r.slot \in Int
BY InstantFacts, ClockAssumption DEF IInv, TypeOK, Row

(* There is a latest slot: one row at a time, in the order of their ids.   *)
LEMMA SlotsAreBounded ==
  ASSUME IInv PROVE \E m \in Int : \A r \in rows : r.slot <= m
<1> DEFINE bounded(k) == \E m \in Int : \A r \in rows : r.id <= k => r.slot <= m
           bad == {k \in Nat : ~bounded(k)}
<1>1. \A r \in rows : r.id \in Nat /\ r.id < nextId /\ r.slot \in Int
  BY SlotFacts DEF IInv, IdsAreHandedOut, Row
<1>2. nextId \in Nat
  BY DEF IInv, TypeOK
<1>3. ASSUME bad # {} PROVE FALSE
  <2>1. bad \in SUBSET Nat
    OBVIOUS
  <2>2. PICK k \in bad : \A j \in bad : ~(<<j, k>> \in OpToRel(<, Nat))
    BY <1>3, <2>1, NatLessThanWellFounded, WFMin, Zenon
  <2>3. k \in Nat /\ \A j \in bad : ~(j < k)
    BY <2>1, <2>2 DEF OpToRel
  <2>4. PICK m \in Int : \A r \in rows : r.id < k => r.slot <= m
    <3>1. CASE k = 0
      BY <1>1, <3>1
    <3>2. CASE k > 0
      <4>1. k - 1 \in Nat /\ k - 1 < k
        BY <2>3, <3>2
      <4>2. bounded(k - 1)
        BY <2>3, <4>1
      <4>3. \A r \in rows : r.id < k => r.id <= k - 1
        BY <1>1, <2>3
      <4> QED BY <4>2, <4>3
    <3> QED BY <2>3, <3>1, <3>2
  <2>5. CASE \E r \in rows : r.id = k
    <3>1. PICK q \in rows : q.id = k
      BY <2>5
    <3>2. \A r \in rows : r.id <= k => r.id < k \/ r = q
      BY <1>1, <2>3, <3>1 DEF IInv, IdsAreUnique
    <3>3. q.slot \in Int
      BY <1>1
    <3>4. PICK n \in Int : m <= n /\ q.slot <= n
      BY <3>3
    <3>5. \A r \in rows : r.id <= k => r.slot <= n
      BY <1>1, <2>4, <3>2, <3>4
    <3> QED BY <2>2, <3>5
  <2>6. CASE ~ \E r \in rows : r.id = k
    <3>1. \A r \in rows : r.id <= k => r.slot <= m
      BY <1>1, <2>3, <2>4, <2>6
    <3> QED BY <2>2, <3>1
  <2> QED BY <2>5, <2>6
<1>4. bounded(nextId)
  BY <1>2, <1>3
<1> QED BY <1>1, <1>2, <1>4

(* When a closure happens is an instant of the calendar.                   *)
LEMMA ClosureInstantIsKnown ==
  ASSUME IInv, DaysEnd, NEW c \in ChoreIds, NEW occ \in OpenOf(rows, c),
         NEW t \in Clock, NEW backdate \in BOOLEAN
  PROVE  ClosureInstant(occ, t, backdate) \in Times
<1>1. occ.slot \in Instants /\ timezone \in Zones /\ t \in Times
  BY OpenRowFacts, ClockAssumption DEF IInv, TypeOK, Row
<1>2. EndOfLocalDay(occ.slot, timezone) \in Times
  BY <1>1 DEF DaysEnd
<1> QED BY <1>1, <1>2 DEF ClosureInstant, Earlier

(* Wherever the walks of a closure start on the readings of keep, they end *)
(* there: on one past the date of the closure that no row stands for.      *)
LEMMA SuccessorIsFree ==
  ASSUME IInv, NEW c \in ChoreIds, ~Unscheduled(c), Endless(chore[c].rule),
         NEW occ \in OpenOf(rows, c), NEW at \in Times,
         NEW R, NEW m \in Int, \A s \in TakenSlots(R, c) : s \in Int /\ s <= m,
         NEW keep \in SUBSET Int,
         \A w \in keep : NextSlotAfter(w, chore[c].rule) \in keep,
         Wall(occ.slot, timezone) \in keep
  PROVE  \E y \in keep : /\ SuccessorSlot(R, c, occ, at) = ToInstant(y, timezone)
                         /\ ToInstant(y, timezone) \notin TakenSlots(R, c)
                         /\ DateOf(y) > LocalDate(at, timezone)
<1> DEFINE rule == chore[c].rule
           wall == Wall(occ.slot, timezone)
           date == LocalDate(at, timezone)
           anchor == AdvanceAnchor(wall, date, rule)
           candidate == NextSlotAfter(anchor, rule)
           taken == TakenSlots(R, c)
<1>1. timezone \in Zones /\ date \in Int
  BY WallIsNumber DEF IInv, TypeOK
<1>2. SuccessorSlot(R, c, occ, at) = FreeSlotFrom(candidate, taken, rule, timezone)
  BY DEF SuccessorSlot, NextOccurrenceAfter
<1>3. /\ Endless(rule) /\ wall \in keep /\ \A w \in keep : NextSlotAfter(w, rule) \in keep
      /\ \A s \in taken : s \in Int /\ s <= m
  OBVIOUS
<1> HIDE DEF rule, wall, date, taken
<1>4. anchor \in keep /\ DateOf(NextSlotAfter(anchor, rule)) > date
  BY <1>1, <1>3, AnchorIsReached
<1>5. candidate \in keep /\ candidate \in Int /\ DateOf(candidate) > date
  BY <1>3, <1>4
<1> HIDE DEF candidate, anchor
<1>6. PICK y \in keep :
        /\ FreeSlotFrom(candidate, taken, rule, timezone) = ToInstant(y, timezone)
        /\ ToInstant(y, timezone) \notin taken
        /\ y >= candidate
        /\ ToInstant(candidate, timezone) \notin taken => y = candidate
  <2> DEFINE z == timezone
  <2>1. z \in Zones
    BY <1>1
  <2> HIDE DEF z
  <2>2. \E y \in keep :
           /\ FreeSlotFrom(candidate, taken, rule, z) = ToInstant(y, z)
           /\ ToInstant(y, z) \notin taken
           /\ y >= candidate
           /\ ToInstant(candidate, z) \notin taken => y = candidate
    BY <1>3, <1>5, <2>1, FreeSlotIsFree
  <2> QED BY <2>2 DEF z
<1>7. DateOf(y) > date
  <2>1. DateOf(y) \in Int /\ DateOf(candidate) \in Int /\ y \in Int
    BY <1>5, <1>6, DayFacts
  <2>2. ~(DateOf(y) < DateOf(candidate))
    BY <1>5, <1>6, <2>1, LaterDate
  <2> QED BY <1>1, <1>5, <2>1, <2>2
<1> QED BY <1>2, <1>6, <1>7 DEF date, taken

(* From wherever they start.                                               *)
LEMMA SuccessorIsLater ==
  ASSUME IInv, NEW c \in ChoreIds, ~Unscheduled(c), Endless(chore[c].rule),
         NEW occ \in OpenOf(rows, c), NEW at \in Times,
         NEW R, NEW m \in Int, \A s \in TakenSlots(R, c) : s \in Int /\ s <= m
  PROVE  \E y \in Int : /\ SuccessorSlot(R, c, occ, at) = ToInstant(y, timezone)
                        /\ ToInstant(y, timezone) \notin TakenSlots(R, c)
                        /\ DateOf(y) > LocalDate(at, timezone)
<1> DEFINE keep == Int
<1>1. /\ keep \in SUBSET Int
      /\ \A w \in keep : NextSlotAfter(w, chore[c].rule) \in keep
  BY NextSlotGoesForward
<1>2. Wall(occ.slot, timezone) \in keep
  <2>1. occ \in rows /\ timezone \in Zones
    BY OpenRowFacts DEF IInv, TypeOK
  <2>2. occ.slot \in Times
    BY <2>1, SlotFacts
  <2> QED BY <2>1, <2>2, WallIsNumber
<1> HIDE DEF keep
<1>3. \E y \in keep : /\ SuccessorSlot(R, c, occ, at) = ToInstant(y, timezone)
                      /\ ToInstant(y, timezone) \notin TakenSlots(R, c)
                      /\ DateOf(y) > LocalDate(at, timezone)
  BY <1>1, <1>2, SuccessorIsFree
<1> QED BY <1>3 DEF keep

(* What a closure takes: the slots closed before, and the one it closes.   *)
LEMMA TakenAfterClosure ==
  ASSUME IInv, NEW c \in ChoreIds, NEW occ \in OpenOf(rows, c),
         NEW old, old.slot = occ.slot, old.status = "done", old.chore = c,
         NEW history, history = (rows \ {occ}) \cup {old}
  PROVE  /\ \A r \in history : r.chore = c => r.slot \in TakenSlots(history, c)
         /\ \A s \in TakenSlots(history, c) : \E r \in rows : s = r.slot
<1>1. occ \in rows /\ \A r \in rows : r.chore = c /\ r # occ => r.status = "done"
  BY OpenRowFacts DEF IInv, TypeOK, Row
<1>2. ASSUME NEW r \in history, r.chore = c PROVE r.slot \in TakenSlots(history, c)
  BY <1>1, <1>2 DEF TakenSlots, DoneOf
<1>3. ASSUME NEW s \in TakenSlots(history, c) PROVE \E r \in rows : s = r.slot
  BY <1>1, <1>3 DEF TakenSlots, DoneOf
<1> QED BY <1>2, <1>3

LEMMA ClosureIsNeverStuck == SInv /\ GridsAreEndless /\ DaysEnd => NoStuckClosure
<1> SUFFICES ASSUME SInv, GridsAreEndless, DaysEnd,
                    NEW c \in ChoreIds, NEW t \in Clock,
                    NEW backdate \in BOOLEAN, NEW skipped \in BOOLEAN,
                    NEW occ \in OpenOf(rows, c), Live(c), ~Unscheduled(c)
             PROVE  LET at == ClosureInstant(occ, t, backdate)
                        history == CloseRow(rows, occ, Owner, at, skipped)
                    IN  \A r \in history : r.chore = c => SuccessorSlot(history, c, occ, at) # r.slot
  BY DEF NoStuckClosure
<1> DEFINE at == ClosureInstant(occ, t, backdate)
           history == CloseRow(rows, occ, Owner, at, skipped)
<1>1. IInv
  BY DEF SInv
<1>2. at \in Times
  BY <1>1, ClosureInstantIsKnown
<1>3. Endless(chore[c].rule)
  BY SentRuleIsEndless DEF Live
<1> HIDE DEF at
<1>4. PICK m \in Int : \A r \in rows : r.slot <= m
  BY <1>1, SlotsAreBounded
<1>5. /\ \A r \in history : r.chore = c => r.slot \in TakenSlots(history, c)
      /\ \A s \in TakenSlots(history, c) : \E r \in rows : s = r.slot
  <2> DEFINE old == Closed(occ, Owner, at, skipped)
  <2>1. old.slot = occ.slot /\ old.status = "done" /\ old.chore = c
    BY <1>1, OpenRowFacts DEF Closed, Row
  <2>2. history = (rows \ {occ}) \cup {old}
    BY DEF CloseRow
  <2> HIDE DEF old, history
  <2> QED BY <1>1, <2>1, <2>2, TakenAfterClosure
<1> HIDE DEF history
<1>6. \A s \in TakenSlots(history, c) : s \in Int /\ s <= m
  BY <1>1, <1>4, <1>5, SlotFacts
<1>7. \E y \in Int : /\ SuccessorSlot(history, c, occ, at) = ToInstant(y, timezone)
                     /\ ToInstant(y, timezone) \notin TakenSlots(history, c)
  BY <1>1, <1>2, <1>3, <1>6, SuccessorIsLater
<1>8. SuccessorSlot(history, c, occ, at) \notin TakenSlots(history, c)
  BY <1>7
<1> QED BY <1>5, <1>8 DEF history, at

(* No closure of a scheduled chore, backdated or not, completion or skip,  *)
(* is refused for good: whatever the history of the chore, free_slot_from  *)
(* comes to a slot no row of it occupies.                                  *)
THEOREM NoStuckClosureAlways ==
  ASSUME GridsAreEndless, DaysEnd
  PROVE  Spec => []NoStuckClosure
<1>1. SInv => NoStuckClosure
  BY ClosureIsNeverStuck
<1> QED BY <1>1, SInvHolds, PTL

-----------------------------------------------------------------------------
(* Midnights                                                               *)

(* No zone skips a date: what stands in for a midnight the clocks skip is  *)
(* still on the day it would have begun.                                   *)
MidnightIsOnItsDate ==
  \A z \in Zones, d \in Int :
    ToInstant(DAY * d, z) \in Instants => LocalDate(ToInstant(DAY * d, z), z) = d

(* No zone goes back over a midnight, to show it a second time.            *)
MidnightIsSaidOnce ==
  \A z \in Zones, t \in Instants :
    TimeOf(Wall(t, z)) = 0 => t = ToInstant(Wall(t, z), z)

Midnights == {w \in Int : TimeOf(w) = 0}

StartsItsDay(t, z) == t = ToInstant(DAY * LocalDate(t, z), z)

LEMMA MidnightReading ==
  ASSUME NEW w \in Midnights PROVE w = DAY * DateOf(w) /\ DateOf(w) \in Int
<1>1. w \in Int /\ TimeOf(w) = 0
  BY DEF Midnights
<1> DEFINE x == DAY * DateOf(w)
<1>2. DateOf(w) \in Int /\ x \in Int /\ w = x + TimeOf(w)
  BY <1>1, DayFacts, ZoneAssumption
<1> HIDE DEF x
<1>3. w = x
  BY <1>1, <1>2
<1> QED BY <1>2, <1>3 DEF x

LEMMA MidnightsStepToMidnights ==
  ASSUME NEW rule, Endless(rule), NEW w \in Midnights
  PROVE  NextSlotAfter(w, rule) \in Midnights
BY NextSlotGoesForward DEF Midnights

LEMMA SnapKeepsMidnight ==
  ASSUME NEW rule \in Rule, NEW w \in Midnights
  PROVE  SnapToSlot(w, rule) \in Midnights
<1> DEFINE S == {(d - Weekday(DateOf(w))) % DAYS_IN_WEEK : d \in rule.weekdays}
           k == Least(S)
<1>1. CASE ~Pinned(rule)
  BY <1>1 DEF SnapToSlot
<1>2. CASE Pinned(rule)
  <2>1. Weekday(DateOf(w)) \in Int
    BY MidnightReading DEF Weekday, DAYS_IN_WEEK
  <2>2. rule.weekdays \in SUBSET (0..6) /\ rule.weekdays # {}
    BY <1>2 DEF Pinned, Rule, DAYS_IN_WEEK
  <2>3. S \in SUBSET (0..6) /\ S # {}
    BY <2>1, <2>2 DEF DAYS_IN_WEEK
  <2>4. SnapToSlot(w, rule) = w + DAY * k
    BY <1>2 DEF SnapToSlot
  <2> HIDE DEF S
  <2>9. k \in S
    BY <2>3, LeastWeekday
  <2>5. k \in Int
    <3> HIDE DEF k
    <3> QED BY <2>3, <2>9
  <2> HIDE DEF k
  <2> DEFINE d == DateOf(w)
  <2>6. w = DAY * d /\ d \in Int
    BY MidnightReading
  <2> HIDE DEF d
  <2>7. DAY * (d + k) = DAY * d + DAY * k
    BY <2>5, <2>6, ZoneAssumption
  <2>8. DAY * (d + k) \in Int /\ TimeOf(DAY * (d + k)) = 0
    BY <2>5, <2>6, MidnightDate
  <2> QED BY <2>4, <2>6, <2>7, <2>8 DEF Midnights
<1> QED BY <1>1, <1>2

LEMMA FirstIsMidnight ==
  ASSUME NEW rule \in Rule, NEW start \in Int
  PROVE  FirstOccurrence(start, rule) \in Midnights
<1>1. DAY * start \in Midnights
  BY MidnightDate DEF Midnights
<1> QED BY <1>1, SnapKeepsMidnight DEF FirstOccurrence

(* What names a midnight starts a day.                                     *)
LEMMA NamedMidnightStartsItsDay ==
  ASSUME MidnightIsOnItsDate, NEW z \in Zones, NEW y \in Midnights,
         ToInstant(y, z) \in Instants
  PROVE  StartsItsDay(ToInstant(y, z), z)
BY MidnightReading DEF MidnightIsOnItsDate, StartsItsDay

LEMMA FreeMidnightStartsItsDay ==
  ASSUME MidnightIsOnItsDate, NEW z \in Zones, NEW rule, Endless(rule),
         NEW taken, NEW m \in Int, \A s \in taken : s \in Int /\ s <= m,
         NEW candidate \in Midnights, FreeSlotFrom(candidate, taken, rule, z) \in Instants
  PROVE  StartsItsDay(FreeSlotFrom(candidate, taken, rule, z), z)
<1>1. Midnights \in SUBSET Int /\ \A w \in Midnights : NextSlotAfter(w, rule) \in Midnights
  BY MidnightsStepToMidnights DEF Midnights
<1>2. \E y \in Midnights :
           /\ FreeSlotFrom(candidate, taken, rule, z) = ToInstant(y, z)
           /\ ToInstant(y, z) \notin taken
           /\ y >= candidate
           /\ ToInstant(candidate, z) \notin taken => y = candidate
  BY <1>1, FreeSlotIsFree
<1> QED BY <1>2, NamedMidnightStartsItsDay

(* The slots the chore was closed for are bounded.                         *)
LEMMA TakenIsBounded ==
  ASSUME IInv, NEW c \in ChoreIds
  PROVE  \E m \in Int : \A s \in TakenSlots(rows, c) : s \in Int /\ s <= m
<1>1. PICK m \in Int : \A r \in rows : r.slot <= m
  BY SlotsAreBounded
<1> QED BY <1>1, SlotFacts DEF TakenSlots, DoneOf

(* An open row that no request has moved.                                  *)
LEMMA ReadMidnightStartsItsDay ==
  ASSUME MidnightIsOnItsDate, MidnightIsSaidOnce, IInv, NEW o \in rows, ReadsMidnight(o)
  PROVE  /\ Wall(o.slot, timezone) \in Midnights
         /\ StartsItsDay(o.slot, timezone)
<1>1. o.slot \in Instants /\ o.slot \in Times /\ timezone \in Zones
  BY SlotFacts DEF IInv, TypeOK
<1>2. Wall(o.slot, timezone) \in Midnights
  BY <1>1, WallIsNumber DEF ReadsMidnight, Midnights
<1>3. o.slot = ToInstant(Wall(o.slot, timezone), timezone)
  BY <1>1 DEF MidnightIsSaidOnce, ReadsMidnight
<1>4. StartsItsDay(ToInstant(Wall(o.slot, timezone), timezone), timezone)
  BY <1>1, <1>2, <1>3, NamedMidnightStartsItsDay
<1> QED BY <1>2, <1>3, <1>4

AllReadMidnight ==
  \A c \in ChoreIds : \A o \in OpenOf(rows, c) :
    Live(c) /\ ~Unscheduled(c) => ReadsMidnight(o)

LEMMA StandingRow ==
  ASSUME MidnightIsOnItsDate, MidnightIsSaidOnce, IInv, AllReadMidnight,
         NEW c \in ChoreIds, Live(c), ~Unscheduled(c), NEW o \in OpenOf(rows, c)
  PROVE  /\ Wall(o.slot, timezone) \in Midnights
         /\ StartsItsDay(o.slot, timezone)
<1>1. o \in rows /\ ReadsMidnight(o)
  BY DEF AllReadMidnight, OpenOf
<1> QED BY <1>1, ReadMidnightStartsItsDay

(* A chore is created on a midnight.                                       *)
LEMMA CreateStartsDays ==
  ASSUME MidnightIsOnItsDate, MidnightIsSaidOnce, IInv, AllReadMidnight,
         NEW u \in Users, NEW b \in ChoreIds, NEW p \in Payloads, NEW t \in Clock,
         Create(u, b, p, t),
         NEW c \in ChoreIds, NEW o \in OpenOf(rows', c),
         chore'[c].life = "live", chore'[c].rule.repeats # "manual"
  PROVE  StartsItsDay(o.slot, timezone')
<1>1. /\ timezone' = timezone /\ timezone \in Zones
      /\ chore' = [chore EXCEPT ![b] = Configured(p)] /\ chore \in [ChoreIds -> Chore]
      /\ chore[b].life = "unused"
  BY DEF Create, IInv, TypeOK
<1>2. CASE c # b
  <2>1. chore'[c] = chore[c]
    BY <1>1, <1>2
  <2>2. PICK slot, a : rows' = rows \cup {OpenRow(nextId, b, slot, a)}
    BY DEF Create
  <2>3. o \in OpenOf(rows, c)
    BY <1>2, <2>2 DEF OpenOf, OpenRow
  <2> QED BY <1>1, <2>1, <2>3, StandingRow DEF Live, Unscheduled
<1>3. CASE c = b
  <2>1. p.rule.repeats # "manual" /\ p.rule \in Rule
    BY <1>1, <1>3, PayloadAssumption DEF Configured, Payload
  <2>2. p.start \in Int /\ p.start # NoDate
    BY <2>1, PayloadAssumption DEF Payload
  <2> DEFINE slot == ToInstant(FirstOccurrence(p.start, p.rule), timezone)
  <2>3. slot \in Instants /\ \E a : rows' = rows \cup {OpenRow(nextId, b, slot, a)}
    BY <2>2 DEF Create
  <2>4. StartsItsDay(slot, timezone)
    BY <1>1, <2>1, <2>2, <2>3, FirstIsMidnight, NamedMidnightStartsItsDay
  <2> HIDE DEF slot
  <2>5. o.slot = slot
    <3>1. \A r \in rows : r.chore # b
      BY <1>1 DEF IInv, RowsHaveChores
    <3> QED BY <1>3, <2>3, <3>1 DEF OpenOf, OpenRow
  <2> QED BY <1>1, <2>4, <2>5
<1> QED BY <1>2, <1>3

(* An edit lands on a midnight, whatever it starts from.                   *)
LEMMA UpdateStartsDays ==
  ASSUME MidnightIsOnItsDate, MidnightIsSaidOnce, GridsAreEndless, IInv, AllReadMidnight,
         NEW u \in Users, NEW b \in ChoreIds, NEW p \in Payloads, Update(u, b, p),
         NEW c \in ChoreIds, NEW o \in OpenOf(rows', c),
         chore'[c].life = "live", chore'[c].rule.repeats # "manual"
  PROVE  StartsItsDay(o.slot, timezone')
<1>1. /\ timezone' = timezone /\ timezone \in Zones /\ Live(b)
      /\ chore' = [chore EXCEPT ![b] = Configured(p)] /\ chore \in [ChoreIds -> Chore]
  BY DEF Update, IInv, TypeOK
<1> DEFINE slotOf(occ) == ReconciledSlot(rows, b, p, occ, Unscheduled(b))
<1>2. PICK occ \in OpenOf(rows, b) :
        /\ slotOf(occ) \in Instants
        /\ \E a : rows' = (rows \ {occ}) \cup {[occ EXCEPT !.slot = slotOf(occ), !.assignee = a]}
  BY DEF Update
<1> DEFINE slot == slotOf(occ)
<1>3. PICK a : rows' = (rows \ {occ}) \cup {[occ EXCEPT !.slot = slot, !.assignee = a]}
  BY <1>2
<1>4. slot \in Instants
  BY <1>2
<1>5. slot = ReconciledSlot(rows, b, p, occ, Unscheduled(b))
  OBVIOUS
<1> HIDE DEF slot, slotOf
<1> DEFINE new == [occ EXCEPT !.slot = slot, !.assignee = a]
<1>6. new.chore = b /\ new.slot = slot
  BY OpenRowFacts DEF Row
<1>7. rows' = (rows \ {occ}) \cup {new}
  BY <1>3
<1> HIDE DEF new
<1>8. CASE c # b
  <2>1. chore'[c] = chore[c]
    BY <1>1, <1>8
  <2>2. o \in OpenOf(rows, c)
    BY <1>6, <1>7, <1>8 DEF OpenOf
  <2> QED BY <1>1, <2>1, <2>2, StandingRow DEF Live, Unscheduled
<1>9. CASE c = b
  <2>1. p.rule.repeats # "manual" /\ p.rule \in Rule
    BY <1>1, <1>9, PayloadAssumption DEF Configured, Payload
  <2>2. p.start \in Int /\ p.start # NoDate /\ Endless(p.rule)
    BY <2>1, PayloadAssumption DEF Payload, GridsAreEndless
  <2> DEFINE candidate == IF DoneOf(rows, b) = {} \/ Unscheduled(b)
                          THEN FirstOccurrence(p.start, p.rule)
                          ELSE SnapToSlot(Wall(occ.slot, timezone), p.rule)
             taken == TakenSlots(rows, b)
  <2>3. slot = FreeSlotFrom(candidate, taken, p.rule, timezone)
    BY <1>5, <2>2 DEF ReconciledSlot
  <2>4. candidate \in Midnights
    <3>1. CASE DoneOf(rows, b) = {} \/ Unscheduled(b)
      BY <2>1, <2>2, <3>1, FirstIsMidnight
    <3>2. CASE ~(DoneOf(rows, b) = {} \/ Unscheduled(b))
      <4>1. Wall(occ.slot, timezone) \in Midnights
        BY <1>1, <3>2, StandingRow
      <4> QED BY <2>1, <3>2, <4>1, SnapKeepsMidnight
    <3> QED BY <3>1, <3>2
  <2>5. \E m \in Int : \A s \in taken : s \in Int /\ s <= m
    BY TakenIsBounded
  <2> HIDE DEF candidate, taken
  <2>6. StartsItsDay(FreeSlotFrom(candidate, taken, p.rule, timezone), timezone)
    <3> DEFINE z == timezone
    <3>1. z \in Zones /\ FreeSlotFrom(candidate, taken, p.rule, z) \in Instants
      BY <1>1, <1>4, <2>3
    <3> HIDE DEF z
    <3>2. StartsItsDay(FreeSlotFrom(candidate, taken, p.rule, z), z)
      BY <2>2, <2>4, <2>5, <3>1, FreeMidnightStartsItsDay
    <3> QED BY <3>2 DEF z
  <2>7. o.slot = slot
    <3>1. \A r \in rows : r.chore = b /\ r.status = "open" => r = occ
      BY OpenRowFacts
    <3> QED BY <1>6, <1>7, <1>9, <3>1 DEF OpenOf
  <2> QED BY <1>1, <2>3, <2>6, <2>7
<1> QED BY <1>8, <1>9

(* A zone change says every midnight again in the new zone.                *)
LEMMA ZoneStartsDays ==
  ASSUME MidnightIsOnItsDate, MidnightIsSaidOnce, GridsAreEndless, SInv, AllReadMidnight,
         NEW u \in Users, NEW new \in Zones, ChangeTimezone(u, new),
         NEW c \in ChoreIds, NEW o \in OpenOf(rows', c),
         chore'[c].life = "live", chore'[c].rule.repeats # "manual"
  PROVE  StartsItsDay(o.slot, timezone')
<1>1. /\ timezone' = new /\ timezone \in Zones /\ chore' = chore /\ IInv
      /\ rows' = Reanchor(rows, new) /\ \A r \in rows' : r.slot \in Instants
  BY DEF ChangeTimezone, SInv, IInv, TypeOK
<1>2. Live(c) /\ ~Unscheduled(c)
  BY <1>1 DEF Live, Unscheduled
<1>3. PICK r \in rows :
        o = IF Reanchors(r) THEN [r EXCEPT !.slot = ReanchoredSlot(rows, r, new)] ELSE r
  BY <1>1 DEF Reanchor, OpenOf
<1>4. o \in rows' /\ o.chore = c /\ o.status = "open" /\ r \in Row
  BY <1>1, SlotFacts DEF OpenOf
<1>5. r.chore = c /\ r.status = "open"
  BY <1>3, <1>4 DEF Row
<1>6. o.slot = ReanchoredSlot(rows, r, new) /\ r \in OpenOf(rows, c)
  BY <1>2, <1>3, <1>4, <1>5 DEF Reanchors, OpenOf, Row
<1>7. Wall(r.slot, timezone) \in Midnights
  BY <1>1, <1>2, <1>6, StandingRow
<1> DEFINE candidate == Wall(r.slot, timezone)
           taken == TakenSlots(rows, c)
           rule == chore[c].rule
<1>8. o.slot = FreeSlotFrom(candidate, taken, rule, new)
  BY <1>5, <1>6 DEF ReanchoredSlot
<1>9. \E m \in Int : \A s \in taken : s \in Int /\ s <= m
  BY <1>1, TakenIsBounded
<1>10. Endless(rule) /\ candidate \in Midnights
  BY <1>2, <1>7, SentRuleIsEndless DEF Live
<1>11. o.slot \in Instants
  BY <1>1, <1>4
<1> HIDE DEF candidate, taken, rule
<1>12. StartsItsDay(FreeSlotFrom(candidate, taken, rule, new), new)
  BY <1>8, <1>9, <1>10, <1>11, FreeMidnightStartsItsDay
<1> QED BY <1>1, <1>8, <1>12

(* A closure of b, read at t, row by row.                                  *)
Closes(b, t) ==
  /\ chore' = chore /\ timezone' = timezone /\ now' = t
  /\ \E occ \in OpenOf(rows, b), at \in Instants,
       old \in rows', new \in rows', history \in SUBSET rows' :
       /\ at = t \/ (~Unscheduled(b) /\ at = Earlier(EndOfLocalDay(occ.slot, timezone), t))
       /\ old.id = occ.id /\ old.chore = b /\ old.slot = occ.slot /\ old.status = "done"
       /\ old.at = at /\ old.zone = timezone
       /\ new.id = nextId /\ new.chore = b /\ new.status = "open" /\ new.slot \in Instants
       /\ history = (rows \ {occ}) \cup {old} /\ rows' = history \cup {new}
       /\ new.slot = SuccessorSlot(history, b, occ, at)

LEMMA CloseRows ==
  ASSUME IInv, NEW b \in ChoreIds, NEW by \in Users, NEW skipped \in BOOLEAN,
         NEW backdate \in BOOLEAN, NEW t \in Clock, Close(b, by, skipped, backdate, t),
         backdate => ~Unscheduled(b)
  PROVE  Closes(b, t)
<1>1. PICK occ \in OpenOf(rows, b) :
        LET at      == ClosureInstant(occ, t, backdate)
            history == CloseRow(rows, occ, by, at, skipped)
            slot    == SuccessorSlot(history, b, occ, at)
        IN  /\ at \in Instants
            /\ slot \in Instants
            /\ \E a \in IF skipped THEN RetainedAssignees(history, b, occ.assignee)
                        ELSE SuccessorAssignees(history, b, occ.assignee) :
                 rows' = history \cup {OpenRow(nextId, b, slot, a)}
  BY DEF Close
<1> DEFINE at      == ClosureInstant(occ, t, backdate)
           old     == Closed(occ, by, at, skipped)
           history == CloseRow(rows, occ, by, at, skipped)
           slot    == SuccessorSlot(history, b, occ, at)
<1>2. at \in Instants /\ slot \in Instants
  BY <1>1
<1>3. PICK a : rows' = history \cup {OpenRow(nextId, b, slot, a)}
  BY <1>1
<1> DEFINE new == OpenRow(nextId, b, slot, a)
<1>4. at = t \/ (~Unscheduled(b) /\ at = Earlier(EndOfLocalDay(occ.slot, timezone), t))
  BY DEF ClosureInstant
<1>5. /\ old.id = occ.id /\ old.chore = b /\ old.slot = occ.slot /\ old.status = "done"
      /\ old.at = at /\ old.zone = timezone
  BY OpenRowFacts DEF Closed, Row
<1>6. history = (rows \ {occ}) \cup {old}
  BY DEF CloseRow
<1>7. new.id = nextId /\ new.chore = b /\ new.status = "open" /\ new.slot = slot
  BY DEF OpenRow
<1>8. rows' = history \cup {new}
  BY <1>3
<1> HIDE DEF new, old, at
<1> HIDE DEF history
<1>9. slot = SuccessorSlot(history, b, occ, at)
  OBVIOUS
<1> HIDE DEF slot
<1>11. chore' = chore /\ timezone' = timezone /\ now' = t
  BY DEF Close, ReadClock
<1>12. new.slot \in Instants /\ new.slot = SuccessorSlot(history, b, occ, at)
  BY <1>2, <1>7, <1>9
<1> QED BY <1>2, <1>4, <1>5, <1>6, <1>7, <1>8, <1>11, <1>12 DEF Closes

(* From a midnight the closure walks to a midnight.                        *)
LEMMA CloseStartsDays ==
  ASSUME MidnightIsOnItsDate, MidnightIsSaidOnce, GridsAreEndless, SInv, AllReadMidnight,
         NEW b \in ChoreIds, NEW t \in Clock, Closes(b, t),
         NEW c \in ChoreIds, NEW o \in OpenOf(rows', c),
         chore'[c].life = "live", chore'[c].rule.repeats # "manual"
  PROVE  StartsItsDay(o.slot, timezone')
<1>1. timezone' = timezone /\ timezone \in Zones /\ chore' = chore /\ IInv
  BY DEF Closes, SInv, IInv, TypeOK
<1>2. Live(c) /\ ~Unscheduled(c)
  BY <1>1 DEF Live, Unscheduled
<1>3. PICK occ \in OpenOf(rows, b), at \in Instants,
        old \in rows', new \in rows', history \in SUBSET rows' :
        /\ old.chore = b /\ old.slot = occ.slot /\ old.status = "done"
        /\ new.chore = b /\ new.status = "open" /\ new.slot \in Instants
        /\ history = (rows \ {occ}) \cup {old} /\ rows' = history \cup {new}
        /\ new.slot = SuccessorSlot(history, b, occ, at)
  BY DEF Closes
<1>4. CASE c # b
  <2>1. o \in OpenOf(rows, c)
    BY <1>3, <1>4 DEF OpenOf
  <2> QED BY <1>1, <1>2, <2>1, StandingRow
<1>5. CASE c = b
  <2>1. \A r \in rows : r.chore = b /\ r.status = "open" => r = occ
    BY <1>1, OpenRowFacts
  <2>2. o = new
    BY <1>3, <1>5, <2>1 DEF OpenOf
  <2>3. \A s \in TakenSlots(history, b) : \E r \in rows : s = r.slot
    BY <1>1, <1>3, TakenAfterClosure
  <2>4. PICK m \in Int : \A r \in rows : r.slot <= m
    BY <1>1, SlotsAreBounded
  <2>6. \A s \in TakenSlots(history, b) : s \in Int /\ s <= m
    BY <1>1, <2>3, <2>4, SlotFacts
  <2>7. Endless(chore[b].rule)
    BY <1>2, <1>5, SentRuleIsEndless DEF Live
  <2>8. /\ Midnights \in SUBSET Int
        /\ \A w \in Midnights : NextSlotAfter(w, chore[b].rule) \in Midnights
    BY <2>7, MidnightsStepToMidnights DEF Midnights
  <2>9. Wall(occ.slot, timezone) \in Midnights
    BY <1>1, <1>2, <1>5, StandingRow
  <2>10. at \in Times /\ ~Unscheduled(b)
    BY <1>2, <1>5, ClockAssumption
  <2>11. \E y \in Midnights : /\ SuccessorSlot(history, b, occ, at) = ToInstant(y, timezone)
                              /\ ToInstant(y, timezone) \notin TakenSlots(history, b)
                              /\ DateOf(y) > LocalDate(at, timezone)
    BY <1>1, <2>6, <2>7, <2>8, <2>9, <2>10, SuccessorIsFree
  <2>12. PICK y \in Midnights : new.slot = ToInstant(y, timezone)
    BY <1>3, <2>11
  <2> QED BY <1>1, <1>3, <2>2, <2>12, NamedMidnightStartsItsDay
<1> QED BY <1>4, <1>5

LEMMA StepKeepsMidnights ==
  ASSUME MidnightIsOnItsDate, MidnightIsSaidOnce, GridsAreEndless, SInv, Next,
         AllReadMidnight, ~UndoStep
  PROVE  OpenSlotIsLocalMidnight'
<1> SUFFICES ASSUME NEW c \in ChoreIds, NEW o \in OpenOf(rows', c),
                    chore'[c].life = "live", chore'[c].rule.repeats # "manual"
             PROVE  StartsItsDay(o.slot, timezone')
  BY DEF OpenSlotIsLocalMidnight, AtLocalMidnight, StartsItsDay, Live, Unscheduled
<1>1. IInv
  BY DEF SInv
<1>2. CASE CreateStep
  BY <1>1, <1>2, CreateStartsDays DEF CreateStep
<1>3. CASE UpdateStep
  BY <1>1, <1>3, UpdateStartsDays DEF UpdateStep
<1>4. CASE DeleteStep
  <2>1. PICK b \in ChoreIds : chore' = [chore EXCEPT ![b].life = "deleted"]
    BY <1>4 DEF DeleteStep, Delete
  <2>2. rows' = rows /\ timezone' = timezone
    BY <1>4 DEF DeleteStep, Delete
  <2>3. Live(c) /\ ~Unscheduled(c)
    BY <1>1, <2>1 DEF Live, Unscheduled, IInv, TypeOK, Chore
  <2> QED BY <1>1, <2>2, <2>3, StandingRow
<1>5. CASE CompleteStep
  <2>1. PICK u \in Users, credit \in Users, b \in ChoreIds, d \in BOOLEAN, t \in Clock :
          Complete(u, b, credit, d, t)
    BY <1>5 DEF CompleteStep
  <2>2. Close(b, credit, FALSE, d, t)
    BY <2>1 DEF Complete
  <2>3. d => ~Unscheduled(b)
    BY <2>1 DEF Complete
  <2>4. Closes(b, t)
    BY <1>1, <2>2, <2>3, CloseRows
  <2> QED BY <2>4, CloseStartsDays
<1>6. CASE SkipStep
  <2>1. PICK u \in Users, b \in ChoreIds, t \in Clock : Skip(u, b, t)
    BY <1>6 DEF SkipStep
  <2>2. Close(b, u, TRUE, FALSE, t)
    BY <2>1 DEF Skip
  <2>3. Closes(b, t)
    BY <1>1, <2>2, CloseRows
  <2> QED BY <2>3, CloseStartsDays
<1>7. CASE ZoneStep
  BY <1>7, ZoneStartsDays DEF ZoneStep
<1> QED BY <1>2, <1>3, <1>4, <1>5, <1>6, <1>7 DEF Next

(* Wherever no zone skips a whole date or shows a midnight twice, a table  *)
(* whose open slots all read 00:00 goes, by any request but an undo, to one*)
(* whose open slots all start their local day.                             *)
THEOREM MidnightIsKeptAlways ==
  ASSUME MidnightIsOnItsDate, MidnightIsSaidOnce, GridsAreEndless
  PROVE  Spec => MidnightIsKept
<1>1. SInv /\ [Next]_vars =>
        [/\ \A c \in ChoreIds : \A o \in OpenOf(rows, c) :
              Live(c) /\ ~Unscheduled(c) => ReadsMidnight(o)
         /\ ~UndoStep
         => OpenSlotIsLocalMidnight']_vars
  BY StepKeepsMidnights DEF AllReadMidnight
<1> QED BY <1>1, SInvHolds, PTL DEF Spec, MidnightIsKept

-----------------------------------------------------------------------------
(* Backlogs                                                                *)

(* The last instant of a local day is on that day.                         *)
DaysEndInThemselves ==
  \A z \in Zones, t \in Instants : LocalDate(EndOfLocalDay(t, z), z) = LocalDate(t, z)

(* The loop does not turn for a completion on the slot's own date.         *)
LEMMA SameDayGoesOneStep ==
  ASSUME NEW rule, Endless(rule), NEW w \in Int
  PROVE  AdvanceAnchor(w, DateOf(w), rule) = w
<1>1. /\ DateOf(w) \in Int /\ NextSlotAfter(w, rule) \in Int
      /\ DateOf(NextSlotAfter(w, rule)) > DateOf(w)
  BY NextSlotGoesForward, DayFacts DEF Endless
<1>2. Int \in SUBSET Int /\ \A v \in Int : NextSlotAfter(v, rule) \in Int
  BY NextSlotGoesForward
<1> QED BY <1>1, <1>2, AnchorIsReached

LEMMA BackdateGoesOneStep ==
  ASSUME DaysEndInThemselves, GridsAreEndless, SInv,
         NEW b \in ChoreIds, NEW t \in Clock, Closes(b, t),
         NEW r \in rows, NEW s \in rows', NEW o \in rows',
         r.id = s.id, r.status = "open", s.status = "done", s.at < now',
         o.chore = s.chore, o.status = "open"
  PROVE  /\ DaysLate(s.slot, s.at, s.zone) = 0
         /\ o.slot = FreeSlotFrom(
                       NextSlotAfter(Wall(s.slot, s.zone), chore[s.chore].rule),
                       TakenSlots(rows', s.chore), chore[s.chore].rule, s.zone)
<1>1. timezone \in Zones /\ IInv /\ now' = t
  BY DEF Closes, SInv, IInv, TypeOK
<1>2. PICK occ \in OpenOf(rows, b), at \in Instants,
        old \in rows', new \in rows', history \in SUBSET rows' :
        /\ at = t \/ (~Unscheduled(b) /\ at = Earlier(EndOfLocalDay(occ.slot, timezone), t))
        /\ old.id = occ.id /\ old.chore = b /\ old.slot = occ.slot /\ old.status = "done"
        /\ old.at = at /\ old.zone = timezone
        /\ new.chore = b /\ new.status = "open"
        /\ history = (rows \ {occ}) \cup {old} /\ rows' = history \cup {new}
        /\ new.slot = SuccessorSlot(history, b, occ, at)
  BY DEF Closes
<1>3. /\ occ \in rows /\ occ.slot \in Instants /\ occ.slot \in Times
      /\ \A q \in rows : q.chore = b /\ q.status = "open" => q = occ
      /\ \A p, q \in rows : p.id = q.id => p = q
  BY <1>1, OpenRowFacts, SlotFacts DEF IInv, IdsAreUnique
<1>4. s = old
  BY <1>2, <1>3
<1>5. o = new
  BY <1>2, <1>3, <1>4
<1>6. ~Unscheduled(b) /\ at = EndOfLocalDay(occ.slot, timezone)
  <2>1. at \in Int /\ t \in Int /\ at < t
    BY <1>1, <1>2, <1>4, InstantFacts
  <2> QED BY <1>2, <2>1 DEF Earlier
<1> DEFINE wall == Wall(occ.slot, timezone)
           rule == chore[b].rule
<1>7. /\ wall \in Int /\ DateOf(wall) \in Int
      /\ LocalDate(at, timezone) = DateOf(wall) /\ LocalDate(occ.slot, timezone) = DateOf(wall)
  <2>1. LocalDate(EndOfLocalDay(occ.slot, timezone), timezone) = LocalDate(occ.slot, timezone)
    BY <1>1, <1>3 DEF DaysEndInThemselves
  <2>2. wall \in Int /\ LocalDate(occ.slot, timezone) \in Int
    BY <1>1, <1>3, WallIsNumber
  <2> QED BY <1>6, <2>1, <2>2 DEF LocalDate
<1>8. DaysLate(s.slot, s.at, s.zone) = 0
  BY <1>2, <1>4, <1>7 DEF DaysLate
<1>9. Endless(rule)
  <2>1. chore[b].life # "unused"
    BY <1>1, <1>3 DEF IInv, RowsHaveChores, OpenOf
  <2> QED BY <1>6, <2>1, SentRuleIsEndless
<1>10. TakenSlots(rows', b) = TakenSlots(history, b)
  BY <1>2 DEF TakenSlots, DoneOf
<1>11. o.slot = FreeSlotFrom(NextSlotAfter(AdvanceAnchor(wall, DateOf(wall), rule), rule),
                             TakenSlots(history, b), rule, timezone)
  BY <1>2, <1>5, <1>6, <1>7 DEF SuccessorSlot, NextOccurrenceAfter
<1>12. AdvanceAnchor(wall, DateOf(wall), rule) = wall
  <2> HIDE DEF wall, rule
  <2> QED BY <1>7, <1>9, SameDayGoesOneStep
<1>13. s.slot = occ.slot /\ s.zone = timezone /\ s.chore = b
  BY <1>2, <1>4
<1> QED BY <1>8, <1>10, <1>11, <1>12, <1>13

(* A row that was open is done only after a closure.                       *)
LEMMA OnlyClosuresClose ==
  ASSUME SInv, Next, NEW r \in rows, NEW s \in rows',
         r.id = s.id, r.status = "open", s.status = "done"
  PROVE  \E b \in ChoreIds, t \in Clock : Closes(b, t)
<1>1. IInv /\ \A q \in rows : q.id = r.id => q = r
  BY DEF SInv, IInv, IdsAreUnique
<1>2. s \notin rows
  BY <1>1
<1>3. CASE CreateStep
  <2>1. s.status = "open"
    BY <1>2, <1>3 DEF CreateStep, Create, OpenRow
  <2> QED BY <2>1
<1>4. CASE UpdateStep
  <2>1. PICK u \in Users, c \in ChoreIds, p \in Payloads : Update(u, c, p)
    BY <1>4 DEF UpdateStep
  <2>2. PICK occ \in OpenOf(rows, c) :
          \E slot, a : rows' = (rows \ {occ}) \cup {[occ EXCEPT !.slot = slot, !.assignee = a]}
    BY <2>1 DEF Update
  <2>3. PICK slot, a : rows' = (rows \ {occ}) \cup {[occ EXCEPT !.slot = slot, !.assignee = a]}
    BY <2>2
  <2>4. s = [occ EXCEPT !.slot = slot, !.assignee = a]
    BY <1>2, <2>3
  <2>5. occ \in Row /\ occ.status = "open"
    BY <1>1 DEF OpenOf, IInv, TypeOK
  <2>6. s.status = "open"
    BY <2>4, <2>5 DEF Row
  <2> QED BY <2>6
<1>5. CASE CompleteStep
  <2>1. PICK u \in Users, credit \in Users, b \in ChoreIds, d \in BOOLEAN, t \in Clock :
          Complete(u, b, credit, d, t)
    BY <1>5 DEF CompleteStep
  <2>2. Close(b, credit, FALSE, d, t) /\ (d => ~Unscheduled(b))
    BY <2>1 DEF Complete
  <2>3. Closes(b, t)
    BY <1>1, <2>2, CloseRows
  <2> QED BY <2>3
<1>6. CASE SkipStep
  <2>1. PICK u \in Users, b \in ChoreIds, t \in Clock : Skip(u, b, t)
    BY <1>6 DEF SkipStep
  <2>2. Close(b, u, TRUE, FALSE, t)
    BY <2>1 DEF Skip
  <2>3. Closes(b, t)
    BY <1>1, <2>2, CloseRows
  <2> QED BY <2>3
<1>7. CASE UndoStep
  <2>1. PICK q \in rows : rows' = UndoRow(rows, q)
    BY <1>7 DEF UndoStep, Undo
  <2>2. s = Reopened(q)
    BY <1>2, <2>1 DEF UndoRow
  <2>3. Reopened(q).status = "open"
    BY <1>1 DEF Reopened, IInv, TypeOK, Row
  <2> QED BY <2>2, <2>3
<1>8. CASE ZoneStep
  <2>1. PICK q \in rows, z \in Zones :
          s = IF Reanchors(q) THEN [q EXCEPT !.slot = ReanchoredSlot(rows, q, z)] ELSE q
    BY <1>8 DEF ZoneStep, ChangeTimezone, Reanchor
  <2>2. s.status = q.status /\ Reanchors(q)
    BY <1>1, <1>2, <2>1 DEF IInv, TypeOK, Row
  <2> QED BY <2>2 DEF Reanchors
<1>9. CASE DeleteStep
  BY <1>2, <1>9 DEF DeleteStep, Delete
<1> QED BY <1>3, <1>4, <1>5, <1>6, <1>7, <1>8, <1>9 DEF Next

LEMMA StepWalksBacklog ==
  ASSUME DaysEndInThemselves, GridsAreEndless, SInv, Next,
         NEW r \in rows, NEW s \in rows', NEW o \in rows',
         r.id = s.id, r.status = "open", s.status = "done", s.at < now',
         o.chore = s.chore, o.status = "open"
  PROVE  /\ DaysLate(s.slot, s.at, s.zone) = 0
         /\ o.slot = FreeSlotFrom(
                       NextSlotAfter(Wall(s.slot, s.zone), chore[s.chore].rule),
                       TakenSlots(rows', s.chore), chore[s.chore].rule, s.zone)
<1>1. PICK b \in ChoreIds, t \in Clock : Closes(b, t)
  BY OnlyClosuresClose
<1> QED BY <1>1, BackdateGoesOneStep

(* A backdated closure is on time where it was made, and leaves the chore  *)
(* at the very next slot it was not closed for: a backlog of any length is *)
(* walked one completion at a time.                                        *)
THEOREM BackdateWalksBacklogAlways ==
  ASSUME DaysEndInThemselves, GridsAreEndless
  PROVE  Spec => BackdateWalksBacklog
<1>1. SInv /\ [Next]_vars =>
        [\A r \in rows, s, o \in rows' :
           /\ r.id = s.id /\ r.status = "open" /\ s.status = "done"
           /\ s.at < now'
           /\ o.chore = s.chore /\ o.status = "open"
           => /\ DaysLate(s.slot, s.at, s.zone) = 0
              /\ o.slot = FreeSlotFrom(
                             NextSlotAfter(Wall(s.slot, s.zone), chore[s.chore].rule),
                             TakenSlots(rows', s.chore), chore[s.chore].rule, s.zone)]_vars
  BY StepWalksBacklog
<1> QED BY <1>1, SInvHolds, PTL DEF Spec, BackdateWalksBacklog

-----------------------------------------------------------------------------
(* Missed days                                                             *)

(* A reading the clocks skip is given an instant that shows a later one.   *)
LEMMA NamedNoEarlier ==
  ASSUME NEW z \in Zones, NEW w \in Int, ToInstant(w, z) \in Times
  PROVE  Wall(ToInstant(w, z), z) \in Int /\ Wall(ToInstant(w, z), z) >= w
<1>1. PICK o \in UtcOffsets[z], s \in UtcOffsets[z] : UtcOffsets[z] = {o, s}
  BY ZoneAssumption
<1> DEFINE t == ToInstant(w, z)
           candidates == {w - x : x \in UtcOffsets[z]}
           showing == {u \in candidates : u \in Times /\ Wall(u, z) = w}
<1>2. o \in Int /\ s \in Int /\ candidates = {w - o, w - s}
  <2>1. UtcOffsets[z] \subseteq Int
    BY ZoneAssumption DEF UtcOffsets
  <2> QED BY <1>1, <2>1
<1>3. t = IF showing # {} THEN Least(showing) ELSE Greatest(candidates)
  BY DEF ToInstant
<1>4. Offset[z][t] \in {o, s} /\ t \in Times
  BY <1>1 DEF UtcOffsets
<1>5. Wall(t, z) = t + Offset[z][t] /\ t \in Int
  BY <1>4, ZoneAssumption DEF Wall
<1>6. \A u \in showing : u \in candidates /\ Wall(u, z) = w
  OBVIOUS
<1> HIDE DEF t, candidates, showing
<1>7. CASE showing = {}
  <2>1. \E x \in candidates : \A y \in candidates : x >= y
    BY <1>2
  <2>2. Greatest(candidates) \in candidates /\ \A y \in candidates : Greatest(candidates) >= y
    BY <2>1 DEF Greatest
  <2>3. t >= w - o /\ t >= w - s
    BY <1>2, <1>3, <1>7, <2>2
  <2> QED BY <1>2, <1>4, <1>5, <2>3 DEF t
<1>8. CASE showing # {}
  <2>1. w - o \in Int /\ w - s \in Int /\ showing \subseteq {w - o, w - s}
    BY <1>2, <1>6
  <2>3. Least(showing) \in showing
    BY <1>8, <2>1, LeastOfTwo
  <2>4. Wall(t, z) = w
    BY <1>3, <1>6, <1>8, <2>3
  <2> QED BY <2>4 DEF t
<1> QED BY <1>7, <1>8

LEMMA ClosureGoesPastToday ==
  ASSUME GridsAreEndless, SInv, NEW b \in ChoreIds, NEW t \in Clock, Closes(b, t),
         NEW r \in rows, NEW s \in rows', NEW o \in rows',
         r.id = s.id, r.status = "open", s.status = "done", s.at = now',
         o.chore = s.chore, o.status = "open", ~Unscheduled(s.chore)
  PROVE  LocalDate(o.slot, timezone) > LocalDate(now', timezone)
<1>1. timezone \in Zones /\ IInv /\ now' = t
  BY DEF Closes, SInv, IInv, TypeOK
<1>2. PICK occ \in OpenOf(rows, b), at \in Instants,
        old \in rows', new \in rows', history \in SUBSET rows' :
        /\ old.id = occ.id /\ old.chore = b /\ old.slot = occ.slot /\ old.status = "done"
        /\ old.at = at
        /\ new.chore = b /\ new.status = "open" /\ new.slot \in Instants
        /\ history = (rows \ {occ}) \cup {old} /\ rows' = history \cup {new}
        /\ new.slot = SuccessorSlot(history, b, occ, at)
  BY DEF Closes
<1>3. /\ occ \in rows /\ occ.slot \in Times
      /\ \A q \in rows : q.chore = b /\ q.status = "open" => q = occ
      /\ \A p, q \in rows : p.id = q.id => p = q
  BY <1>1, OpenRowFacts, SlotFacts DEF IInv, IdsAreUnique
<1>4. s = old
  BY <1>2, <1>3
<1>5. o = new /\ at = now' /\ ~Unscheduled(b)
  BY <1>2, <1>3, <1>4
<1>6. Endless(chore[b].rule)
  <2>1. chore[b].life # "unused"
    BY <1>1, <1>3 DEF IInv, RowsHaveChores, OpenOf
  <2> QED BY <1>5, <2>1, SentRuleIsEndless
<1>7. PICK m \in Int : \A q \in rows : q.slot <= m
  BY <1>1, SlotsAreBounded
<1>8. \A x \in TakenSlots(history, b) : \E q \in rows : x = q.slot
  BY <1>1, <1>2, TakenAfterClosure
<1>9. \A x \in TakenSlots(history, b) : x \in Int /\ x <= m
  BY <1>1, <1>7, <1>8, SlotFacts
<1>10. at \in Times
  BY ClockAssumption
<1>11. \E y \in Int : /\ SuccessorSlot(history, b, occ, at) = ToInstant(y, timezone)
                      /\ ToInstant(y, timezone) \notin TakenSlots(history, b)
                      /\ DateOf(y) > LocalDate(at, timezone)
  BY <1>1, <1>5, <1>6, <1>9, <1>10, SuccessorIsLater
<1>12. PICK y \in Int : new.slot = ToInstant(y, timezone) /\ DateOf(y) > LocalDate(at, timezone)
  BY <1>2, <1>11
<1> DEFINE wall == Wall(new.slot, timezone)
<1>13. wall \in Int /\ wall >= y /\ LocalDate(new.slot, timezone) = DateOf(wall)
  BY <1>1, <1>2, <1>12, ClockAssumption, NamedNoEarlier DEF LocalDate
<1>14. LocalDate(at, timezone) \in Int
  BY <1>1, <1>10, WallIsNumber
<1> HIDE DEF wall
<1>15. DateOf(wall) >= DateOf(y) /\ DateOf(y) \in Int /\ DateOf(wall) \in Int
  <2>1. DateOf(y) \in Int /\ DateOf(wall) \in Int
    BY <1>13, DayFacts
  <2>2. ~(DateOf(wall) < DateOf(y))
    BY <1>13, LaterDate
  <2> QED BY <2>1, <2>2
<1> QED BY <1>5, <1>12, <1>13, <1>14, <1>15

LEMMA StepGoesPastToday ==
  ASSUME GridsAreEndless, SInv, Next,
         NEW r \in rows, NEW s \in rows', NEW o \in rows',
         r.id = s.id, r.status = "open", s.status = "done", s.at = now',
         o.chore = s.chore, o.status = "open", ~Unscheduled(s.chore)
  PROVE  LocalDate(o.slot, timezone) > LocalDate(now', timezone)
<1>1. PICK b \in ChoreIds, t \in Clock : Closes(b, t)
  BY OnlyClosuresClose
<1> QED BY <1>1, ClosureGoesPastToday

(* A closure of a scheduled chore recorded for now leaves it due on a later*)
(* day than today in every zone, whatever its clocks do and however long   *)
(* the chore has been overdue: what was missed is not backfilled.          *)
THEOREM NothingLeftDueTodayAlways ==
  ASSUME GridsAreEndless
  PROVE  Spec => NothingLeftDueToday
<1>1. SInv /\ [Next]_vars =>
        [\A r \in rows, s, o \in rows' :
           /\ r.id = s.id /\ r.status = "open" /\ s.status = "done"
           /\ s.at = now'
           /\ o.chore = s.chore /\ o.status = "open" /\ ~Unscheduled(s.chore)
           => LocalDate(o.slot, timezone) > LocalDate(now', timezone)]_vars
  BY StepGoesPastToday
<1> QED BY <1>1, SInvHolds, PTL DEF Spec, NothingLeftDueToday

-----------------------------------------------------------------------------
(* Changes of zone                                                         *)

(* Clocks that go forward do not carry a skipped reading over a midnight.  *)
ReadingsKeepTheirDate ==
  \A z \in Zones, w \in Int :
    ToInstant(w, z) \in Instants => LocalDate(ToInstant(w, z), z) = DateOf(w)

LEMMA ReanchorKeepsDate ==
  ASSUME ReadingsKeepTheirDate, GridsAreEndless, SInv,
         NEW u \in Users, NEW new \in Zones, ChangeTimezone(u, new),
         NEW r \in rows, NEW s \in rows', r.id = s.id, Reanchors(r)
  PROVE  \/ LocalDate(s.slot, timezone') = LocalDate(r.slot, timezone)
         \/ \E d \in DoneOf(rows, r.chore) :
              LocalDate(d.slot, timezone') = LocalDate(r.slot, timezone)
<1>1. /\ timezone' = new /\ timezone \in Zones /\ IInv
      /\ rows' = Reanchor(rows, new) /\ \A q \in rows' : q.slot \in Instants
  BY DEF ChangeTimezone, SInv, IInv, TypeOK
<1>2. PICK q \in rows :
        s = IF Reanchors(q) THEN [q EXCEPT !.slot = ReanchoredSlot(rows, q, new)] ELSE q
  BY <1>1 DEF Reanchor
<1>3. q = r
  <2>1. s.id = q.id
    BY <1>1, <1>2, SlotFacts DEF Row
  <2> QED BY <1>1, <2>1 DEF IInv, IdsAreUnique
<1> DEFINE c == r.chore
           candidate == Wall(r.slot, timezone)
           taken == TakenSlots(rows, c)
           rule == chore[c].rule
<1>4. s.slot = FreeSlotFrom(candidate, taken, rule, new) /\ s.slot \in Instants
  BY <1>1, <1>2, <1>3, SlotFacts DEF ReanchoredSlot, Row
<1>5. c \in ChoreIds /\ candidate \in Int /\ Endless(rule)
  <2>1. r \in Row /\ r.slot \in Times /\ Live(c) /\ ~Unscheduled(c)
    BY <1>1, SlotFacts DEF Reanchors
  <2>2. c \in ChoreIds /\ candidate \in Int
    BY <1>1, <2>1, WallIsNumber DEF Row
  <2> QED BY <2>1, <2>2, SentRuleIsEndless DEF Live
<1>6. DateOf(candidate) = LocalDate(r.slot, timezone)
  BY DEF LocalDate
<1>7. \E m \in Int : \A x \in taken : x \in Int /\ x <= m
  BY <1>1, <1>5, TakenIsBounded
<1>8. \A x \in taken : \E d \in DoneOf(rows, c) : d.slot = x
  BY DEF TakenSlots
<1>9. \A d \in DoneOf(rows, c) : d.slot \in Instants
  BY <1>1, SlotFacts DEF DoneOf
<1> HIDE DEF c, candidate, taken, rule
<1>10. Int \in SUBSET Int /\ \A w \in Int : NextSlotAfter(w, rule) \in Int
  BY <1>5, NextSlotGoesForward
<1>11. \E y \in Int : /\ FreeSlotFrom(candidate, taken, rule, new) = ToInstant(y, new)
                      /\ ToInstant(y, new) \notin taken
                      /\ y >= candidate
                      /\ ToInstant(candidate, new) \notin taken => y = candidate
  BY <1>5, <1>7, <1>10, FreeSlotIsFree
<1>12. CASE ToInstant(candidate, new) \notin taken
  <2>1. s.slot = ToInstant(candidate, new)
    BY <1>4, <1>11, <1>12
  <2> QED BY <1>1, <1>4, <1>5, <1>6, <2>1 DEF ReadingsKeepTheirDate
<1>13. CASE ToInstant(candidate, new) \in taken
  <2>1. PICK d \in DoneOf(rows, c) : d.slot = ToInstant(candidate, new)
    BY <1>8, <1>13
  <2>2. LocalDate(d.slot, new) = DateOf(candidate)
    BY <1>5, <1>9, <2>1 DEF ReadingsKeepTheirDate
  <2> QED BY <1>1, <1>6, <2>2 DEF c
<1> QED BY <1>12, <1>13

LEMMA OnlyZoneStepsMoveZone ==
  ASSUME Next, timezone' # timezone PROVE ZoneStep
<1>1. CASE CreateStep
  BY <1>1 DEF CreateStep, Create
<1>2. CASE UpdateStep
  BY <1>2 DEF UpdateStep, Update
<1>3. CASE DeleteStep
  BY <1>3 DEF DeleteStep, Delete
<1>4. CASE CompleteStep
  BY <1>4 DEF CompleteStep, Complete, Close
<1>5. CASE SkipStep
  BY <1>5 DEF SkipStep, Skip, Close
<1>6. CASE UndoStep
  BY <1>6 DEF UndoStep, Undo
<1> QED BY <1>1, <1>2, <1>3, <1>4, <1>5, <1>6 DEF Next

(* Where clocks never skip past a midnight, a change of the household's    *)
(* zone leaves every scheduled chore due on the date it was due, unless it *)
(* was closed for that date already.                                       *)
THEOREM ZoneChangeKeepsDatesAlways ==
  ASSUME ReadingsKeepTheirDate, GridsAreEndless
  PROVE  Spec => ZoneChangeKeepsDates
<1>1. ASSUME SInv, Next, timezone' # timezone,
             NEW r \in rows, NEW s \in rows', r.id = s.id, Reanchors(r)
      PROVE  \/ LocalDate(s.slot, timezone') = LocalDate(r.slot, timezone)
             \/ \E d \in DoneOf(rows, r.chore) :
                  LocalDate(d.slot, timezone') = LocalDate(r.slot, timezone)
  <2>1. PICK u \in Users, new \in Zones : ChangeTimezone(u, new)
    BY <1>1, OnlyZoneStepsMoveZone DEF ZoneStep
  <2> QED BY <1>1, <2>1, ReanchorKeepsDate
<1>2. SInv /\ [Next]_vars =>
        [timezone' # timezone =>
           \A r \in rows, s \in rows' :
             r.id = s.id /\ Reanchors(r) =>
               \/ LocalDate(s.slot, timezone') = LocalDate(r.slot, timezone)
               \/ \E d \in DoneOf(rows, r.chore) :
                    LocalDate(d.slot, timezone') = LocalDate(r.slot, timezone)]_vars
  BY <1>1
<1> QED BY <1>2, SInvHolds, PTL DEF Spec, ZoneChangeKeepsDates

=============================================================================
