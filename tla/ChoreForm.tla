----------------------------- MODULE ChoreForm ------------------------------
(***************************************************************************)
(* The form a chore is written in and the two pages around it: ChoreCreate,*)
(* where the household can be chosen and a chore cloned, and ChoreEdit,    *)
(* which replaces the chore it loaded.  A form keeps more than it shows:   *)
(* the detail of a period, a strategy or a household that is not chosen    *)
(* any more stays in it, and what is sent is derived.                      *)
(***************************************************************************)
EXTENDS Wire

CONSTANTS
  People,      \* who may be assigned
  Nobody,      \* nobody
  MembersOf,   \* the members of each household
  MaxRequests, \* requests outstanding at most
  MaxMoves     \* what users do, all told

MembersAssumption == MembersOf \in [1..2 -> SUBSET People] /\ Nobody \notin People

VARIABLES
  view,    \* the page
  wire,    \* its requests
  world,   \* the chore, as the API has it
  moves    \* how much was done

vars == <<view, wire, world, moves>>

Households == DOMAIN MembersOf
TagsOf(h) == {h}            \* one tag in each
Today == 1                  \* the household's today; 0: no date
MAX_REPEAT_INTERVAL == 2
Blank == 0                  \* an emptied number field
TooMany == MAX_REPEAT_INTERVAL + 1

-----------------------------------------------------------------------------
(* A chore: the one edited, or the one cloned                              *)

ChoreOf(strategy, repeats, assignees, current) ==
  [strategy |-> strategy, repeats |-> repeats, assignees |-> assignees, current |-> current,
   turn |-> IF strategy = "manual" THEN 1 ELSE 2, interval |-> IF repeats = "manual" THEN 1 ELSE 2,
   pinned |-> repeats = "weekly", date |-> IF repeats = "manual" THEN 0 ELSE 2, tags |-> {1}]

SomeChores ==
  {ChoreOf(s, r, a, c) : s \in {"manual", "random"}, r \in {"manual", "daily", "weekly"},
                         a \in {{}, MembersOf[1]}, c \in MembersOf[1] \cup {Nobody}}

ChoresThere == {c \in SomeChores : c.current \in c.assignees \cup {Nobody}}

NewChore == [ChoreOf("manual", "weekly", {}, Nobody)
               EXCEPT !.interval = 1, !.pinned = FALSE, !.date = 0, !.tags = {}]

-----------------------------------------------------------------------------
(* The form's state and what it derives from it                            *)

(* What the form starts with: each page says who is on the hook.           *)
Opened(chore, current, clear) ==
  [values |-> [strategy |-> chore.strategy, repeats |-> chore.repeats,
               assignees |-> chore.assignees, current |-> current, clear |-> clear,
               pinned |-> chore.pinned, date |-> chore.date, tags |-> chore.tags],
   takeTurns |-> chore.turn > 1,
   turn |-> IF chore.turn > 1 THEN chore.turn ELSE 2,
   interval |-> chore.interval,
   saving |-> FALSE, error |-> FALSE, touched |-> {}]

Form(v) == CHOOSE f \in v.form : TRUE

(* Only members and tags of the household chosen count.                    *)
selectedAssignees(v) == Form(v).values.assignees \cap v.members
selectedTags(v) == Form(v).values.tags \cap v.tags

startDate(f) == IF f.values.date = 0 THEN Today ELSE f.values.date

isManual(f) == f.values.strategy = "manual"
manualRepeat(f) == f.values.repeats = "manual"
isWeekly(f) == f.values.repeats = "weekly"

currentAssignee(v) ==
  IF Form(v).values.current \in selectedAssignees(v) THEN Form(v).values.current ELSE Nobody

(* A manual chore always, any chore on the page that edits it.             *)
canPickAssignee(v) == isManual(Form(v)) \/ v.page = "edit"
showAssigneePicker(v) == canPickAssignee(v) /\ selectedAssignees(v) # {}

Clamp(n, low, high) == IF n < low THEN low ELSE IF n > high THEN high ELSE n

(* Variant: the days last pinned, whatever the period.                     *)
weekdays_Kept(f) == f.values.pinned

interval(f) == IF manualRepeat(f) THEN 1 ELSE Clamp(f.interval, 1, MAX_REPEAT_INTERVAL)
weekdays(f) == isWeekly(f) /\ f.values.pinned

(* What handleSubmit sends.                                                *)
Payload(v) ==
  LET f == Form(v) IN
  [strategy |-> f.values.strategy, repeats |-> f.values.repeats,
   date |-> IF manualRepeat(f) THEN 0 ELSE startDate(f),
   turn |-> IF isManual(f) \/ ~f.takeTurns THEN 1 ELSE IF f.turn < 2 THEN 2 ELSE f.turn,
   interval |-> interval(f), pinned |-> weekdays(f),
   assignees |-> selectedAssignees(v),
   current |-> IF canPickAssignee(v) THEN currentAssignee(v) ELSE Nobody,
   clear |-> canPickAssignee(v) /\ f.values.clear,
   tags |-> selectedTags(v), household |-> v.household]

-----------------------------------------------------------------------------
(* Filling it in                                                           *)

Acts == moves < MaxMoves /\ moves' = moves + 1
Fills == Acts /\ view.at = "form" /\ view.form # {} /\ UNCHANGED <<wire, world>>

Put(f) == view' = [view EXCEPT !.form = {f}]
Set(field, value) == [Form(view) EXCEPT !.values[field] = value, !.touched = @ \cup {field}]

(* The assignee field: one person on or off, or all the members.           *)
ToggleAssignee(p) ==
  LET value == selectedAssignees(view) IN
  /\ Fills /\ p \in view.members
  /\ Put(Set("assignees", IF p \in value THEN value \ {p} ELSE value \cup {p}))

SelectAllAssignees ==
  /\ Fills /\ view.members # {}
  /\ Put(Set("assignees", view.members))

ChooseStrategy(s) == Fills /\ Put(Set("strategy", s))

ChooseRepeats(r) == Fills /\ Put(Set("repeats", r))

TypeInterval(n) ==
  /\ Fills /\ ~manualRepeat(Form(view))
  /\ Put([Form(view) EXCEPT !.interval = n])

PinWeekdays(pinned) ==
  /\ Fills /\ isWeekly(Form(view))
  /\ Put(Set("pinned", pinned))

TakeTurns(n) ==
  /\ Fills /\ ~isManual(Form(view))
  /\ \/ Put([Form(view) EXCEPT !.takeTurns = ~@])
     \/ Form(view).takeTurns /\ Put([Form(view) EXCEPT !.turn = n])

(* "Nobody in particular" is a choice of its own.                          *)
ChooseCurrent(p) ==
  /\ Fills /\ showAssigneePicker(view) /\ p \in selectedAssignees(view) \cup {Nobody}
  /\ Put([Set("current", p) EXCEPT !.values.clear = p = Nobody])

ChooseDate(d) ==
  /\ Fills /\ ~manualRepeat(Form(view))
  /\ Put(Set("date", d))

ToggleTag(t) ==
  LET value == selectedTags(view) IN
  /\ Fills /\ t \in view.tags
  /\ Put(Set("tags", IF t \in value THEN value \ {t} ELSE value \cup {t}))

(* The browser refuses a number out of its field's bounds, where the field *)
(* is on the page; an empty one it lets through.                           *)
Accepted(f) ==
  /\ manualRepeat(f) \/ f.interval # TooMany
  /\ isManual(f) \/ ~f.takeTurns \/ f.turn # 1

Submit ==
  /\ Acts /\ view.at = "form" /\ view.form # {} /\ Len(wire) < MaxRequests
  /\ Accepted(Form(view)) /\ ~Form(view).saving
  /\ Put([Form(view) EXCEPT !.saving = TRUE, !.error = FALSE])
  /\ wire' = Send(wire, "save", Payload(view))
  /\ UNCHANGED world

(* The form stays busy after a success: the page is left.                  *)
ReceiveSave(i) ==
  /\ i \in Settled(wire) /\ wire[i].kind = "save"
  /\ IF wire[i].is = "ok"
     THEN view' = [view EXCEPT !.at = "list"]
     ELSE Put([Form(view) EXCEPT !.saving = FALSE, !.error = TRUE])
  /\ wire' = Received(wire, i)
  /\ UNCHANGED <<world, moves>>

(* "Cancel": a submission on its way is not taken back.                    *)
CancelForm ==
  /\ Acts /\ view.at = "form" /\ view.form # {}
  /\ view' = [view EXCEPT !.at = "elsewhere"]
  /\ wire' = Only(wire, {"save"})
  /\ UNCHANGED world

-----------------------------------------------------------------------------
(* The page that creates                                                   *)

(* A clone's household is chosen only where the user organises it.         *)
CreateOpened(organised, clone) ==
  [page |-> "create", at |-> "form", organised |-> organised, clone |-> clone,
   household |-> IF clone # {} /\ 1 \in organised THEN 1 ELSE 0,
   households |-> {}, members |-> {}, tags |-> {}, optionsOf |-> 0,
   loading |-> TRUE, error |-> FALSE, form |-> {}]

Lowest(S) == CHOOSE x \in S : \A y \in S : x <= y

initial(v) ==
  Opened(IF v.clone = {} THEN NewChore ELSE CHOOSE c \in v.clone : TRUE, Nobody, FALSE)

(* Variant: answers for a household that is not chosen any more are kept.  *)
LoadPickers_Both(w, h) == Send(w, "pickers", [household |-> h, chore |-> {}])

(* The effect on the household chosen.                                     *)
LoadPickers(w, h) == SendAgain(w, "pickers", [household |-> h, chore |-> {}])

(* Only households the user organises; the form mounts with them.          *)
ReceiveHouseholds(i) ==
  /\ i \in Settled(wire) /\ wire[i].kind = "households"
  /\ LET w == Received(wire, i)
         mine == Data(wire[i]) \cap view.organised
         chosen == IF view.household # 0 THEN view.household ELSE Lowest(mine)
     IN IF wire[i].is # "ok"
        THEN view' = [view EXCEPT !.loading = FALSE, !.error = TRUE] /\ wire' = w
        ELSE IF mine = {}
        THEN view' = [view EXCEPT !.loading = FALSE] /\ wire' = w
        ELSE /\ view' = [view EXCEPT !.loading = FALSE, !.households = mine, !.household = chosen,
                                     !.form = {initial(view)}]
             /\ wire' = IF view.household = 0 THEN LoadPickers(w, chosen) ELSE w
  /\ UNCHANGED <<world, moves>>

(* The select is there for a choice of two at least.                       *)
ChooseHousehold(h) ==
  /\ Acts /\ view.at = "form" /\ view.page = "create"
  /\ Cardinality(view.households) > 1 /\ h \in view.households \ {view.household}
  /\ view' = [view EXCEPT !.household = h]
  /\ wire' = LoadPickers(wire, h)
  /\ UNCHANGED world

ReceivePickers(i) ==
  /\ i \in Settled(wire) /\ wire[i].kind = "pickers" /\ view.page = "create"
  /\ view' = IF wire[i].is = "ok"
             THEN [view EXCEPT !.members = Data(wire[i]).members, !.tags = Data(wire[i]).tags,
                               !.optionsOf = wire[i].arg.household]
             ELSE [view EXCEPT !.error = TRUE]
  /\ wire' = Received(wire, i)
  /\ UNCHANGED <<world, moves>>

(* The note: how much of the clone does not belong to the household.       *)
Dropped(v) ==
  IF v.clone = {} THEN {} ELSE (CHOOSE c \in v.clone : TRUE).assignees \ v.members

showDrop(v) == v.optionsOf = v.household /\ Dropped(v) # {}

-----------------------------------------------------------------------------
(* The page that edits                                                     *)

EditOpened(organised) ==
  [page |-> "edit", at |-> "form", organised |-> organised, clone |-> {}, household |-> 1,
   households |-> {}, members |-> {}, tags |-> {}, optionsOf |-> 0,
   loading |-> TRUE, error |-> FALSE, form |-> {}]

(* A chore that may be read but not edited sends the user to the list.     *)
ReceiveChore(i) ==
  /\ i \in Settled(wire) /\ wire[i].kind = "chore"
  /\ LET w == Received(wire, i) IN
     IF wire[i].is # "ok"
     THEN view' = [view EXCEPT !.loading = FALSE, !.error = TRUE] /\ wire' = w
     ELSE IF 1 \notin view.organised
     THEN view' = [view EXCEPT !.loading = FALSE, !.at = "list"] /\ wire' = w
     ELSE /\ UNCHANGED view
          /\ wire' = Send(w, "pickers", [household |-> 1, chore |-> {Data(wire[i])}])
  /\ UNCHANGED <<world, moves>>

(* Variant: an unassigned chore opens with an empty picker.                *)
initialEdit_NoFlag(chore) == Opened(chore, chore.current, FALSE)

(* Nobody on the hook is a choice kept, unless there is nobody to choose.  *)
initialEdit(chore) ==
  Opened(chore, chore.current, chore.current = Nobody /\ chore.assignees # {})

ReceiveEdited(i) ==
  /\ i \in Settled(wire) /\ wire[i].kind = "pickers" /\ view.page = "edit"
  /\ LET chore == CHOOSE c \in wire[i].arg.chore : TRUE
         v == [view EXCEPT !.loading = FALSE]
     IN view' = IF wire[i].is = "ok"
                THEN [v EXCEPT !.members = Data(wire[i]).members, !.tags = Data(wire[i]).tags,
                               !.optionsOf = 1, !.clone = {chore}, !.form = {initialEdit(chore)}]
                ELSE [v EXCEPT !.error = TRUE]
  /\ wire' = Received(wire, i)
  /\ UNCHANGED <<world, moves>>

-----------------------------------------------------------------------------
(* The server and the other members                                        *)

ServeRead(i) ==
  /\ i \in Waiting(wire) /\ wire[i].kind # "save"
  /\ LET r == wire[i] IN
     wire' = Ok(wire, i, CASE r.kind = "households" -> Households
                           [] r.kind = "chore" -> world
                           [] OTHER -> [members |-> MembersOf[r.arg.household],
                                        tags |-> TagsOf(r.arg.household)])
  /\ UNCHANGED <<view, world, moves>>

(* Assignees and tags of another household are refused.  An edit replaces  *)
(* the chore: nobody, somebody of the pool, or whoever it was.             *)
ServeSave(i) ==
  /\ i \in Waiting(wire) /\ wire[i].kind = "save"
  /\ LET p == wire[i].arg IN
     IF ~(p.assignees \subseteq MembersOf[p.household] /\ p.tags \subseteq TagsOf(p.household))
     THEN wire' = Settle(wire, i, "invalid") /\ UNCHANGED world
     ELSE /\ wire' = Ok(wire, i, TRUE)
          /\ IF view.page = "create" THEN UNCHANGED world
             ELSE \E who \in IF p.clear \/ p.assignees = {} THEN {Nobody}
                             ELSE IF p.current # Nobody THEN {p.current}
                             ELSE IF world.current \in p.assignees THEN {world.current}
                             ELSE p.assignees :
                    world' = [world EXCEPT !.current = who, !.assignees = p.assignees]
  /\ UNCHANGED <<view, moves>>

Lose(i) ==
  /\ i \in DOMAIN wire
  /\ wire[i].is = "sent" \/ (wire[i].is = "ok" /\ wire[i].kind = "save")
  /\ wire' = Settle(wire, i, "lost")
  /\ UNCHANGED <<view, world, moves>>

(* Somebody does the chore, and the turn passes on.                        *)
OtherCompletes ==
  /\ Acts /\ view.page = "edit"
  /\ \E p \in world.assignees \ {world.current} : world' = [world EXCEPT !.current = p]
  /\ UNCHANGED <<view, wire>>

Init ==
  \E organised \in (SUBSET Households) \ {{}}, chore \in ChoresThere :
    /\ moves = 0
    /\ world = chore
    /\ \/ \E clone \in {{}, {chore}} :
            /\ view = CreateOpened(organised, clone)
            /\ wire = IF view.household = 0
                      THEN <<Call("households", 0)>>
                      ELSE LoadPickers(<<Call("households", 0)>>, view.household)
       \/ /\ view = EditOpened(organised)
          /\ wire = <<Call("chore", 0)>>

Next ==
  \/ \E i \in DOMAIN wire :
       \/ ServeRead(i) \/ ServeSave(i) \/ Lose(i) \/ ReceiveSave(i)
       \/ /\ view.at = "form"
          /\ ReceiveHouseholds(i) \/ ReceivePickers(i) \/ ReceiveChore(i) \/ ReceiveEdited(i)
  \/ \E p \in People : ToggleAssignee(p)
  \/ SelectAllAssignees
  \/ \E s \in {"manual", "random"} : ChooseStrategy(s)
  \/ \E r \in {"manual", "daily", "weekly"} : ChooseRepeats(r)
  \/ \E n \in {Blank, 1, TooMany} : TypeInterval(n)
  \/ \E pinned \in BOOLEAN : PinWeekdays(pinned)
  \/ \E n \in {Blank, 1, 3} : TakeTurns(n)
  \/ \E p \in People \cup {Nobody} : ChooseCurrent(p)
  \/ \E d \in {Today, 3} : ChooseDate(d)
  \/ \E t \in Households : ToggleTag(t) \/ ChooseHousehold(t)
  \/ Submit \/ CancelForm \/ OtherCompletes

Spec == Init /\ [][Next]_vars

-----------------------------------------------------------------------------
(* Properties                                                              *)

Filling == view.at = "form" /\ view.form # {}

(* Whatever was set and hidden again, what would be sent agrees with the   *)
(* form on screen: pinned days only for a weekly chore, a date and an      *)
(* interval only for one that recurs, turns only where they rotate, and a  *)
(* person, or nobody, only from a picker that is there (ChoreForm.tsx:161- *)
(* 163, 187-188, 226-232).                                                 *)
HiddenDetailIsNotSent ==
  Filling =>
    LET p == Payload(view) IN
    /\ p.pinned => p.repeats = "weekly"
    /\ p.repeats = "manual" <=> p.date = 0
    /\ p.repeats = "manual" => p.interval = 1
    /\ p.interval \in 1..MAX_REPEAT_INTERVAL
    /\ p.turn > 1 => p.strategy # "manual" /\ Form(view).takeTurns
    /\ p.current \in p.assignees \cup {Nobody}
    /\ ~(p.clear /\ p.current # Nobody)
    /\ ~canPickAssignee(view) => p.current = Nobody /\ ~p.clear

(* An edit that touches neither the pool nor the picker sends whoever was  *)
(* on the hook when the form was opened, and nobody as nobody: saving an   *)
(* unrelated change re-derives no assignee (ChoreEdit.tsx:100-109).        *)
UnrelatedEditKeepsAssignee ==
  Filling /\ view.page = "edit" /\ Form(view).touched \cap {"assignees", "current"} = {} =>
    LET p == Payload(view)
        chore == CHOOSE c \in view.clone : TRUE
    IN /\ p.assignees = chore.assignees
       /\ p.current = chore.current
       /\ p.clear <=> chore.current = Nobody /\ chore.assignees # {}

(* However quickly households are switched, when nothing is loading and    *)
(* nothing failed the pickers are those of the household chosen, nothing of*)
(* another would be sent, and an untouched clone loses exactly what the    *)
(* note says it does (ChoreCreate.tsx:36-38, ChoreForm.tsx:153-155).       *)
PickersFollowTheHousehold ==
  Filling /\ view.page = "create" =>
    LET p == Payload(view) IN
    /\ ~Out(wire, {"pickers"}) /\ ~view.error => view.optionsOf = view.household
    /\ view.optionsOf = view.household =>
         /\ p.assignees \subseteq MembersOf[view.household]
         /\ p.tags \subseteq TagsOf(view.household)
         /\ view.clone # {} /\ "assignees" \notin Form(view).touched =>
              Dropped(view) = (CHOOSE c \in view.clone : TRUE).assignees \ p.assignees

(* What ChoreForm.tsx:153-155 says: a switch of household drops assignees  *)
(* that no longer apply.                                                   *)
SwitchDropsAssignees ==
  Filling /\ view.household # 0 => Payload(view).assignees \subseteq MembersOf[view.household]

(* Nobody's turn is taken back by a save that did not touch it.            *)
SaveKeepsTheTurn ==
  [][(\E i \in DOMAIN wire : ServeSave(i) /\ wire'[i].is = "ok") /\ view.page = "edit"
       /\ Form(view).touched \cap {"assignees", "current"} = {}
     => world'.current = world.current]_vars
=============================================================================
