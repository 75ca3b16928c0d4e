---------------------------- MODULE ServerTable -----------------------------
(***************************************************************************)
(* A page that lists rows: the useServerTable hook, which derives what the *)
(* table asks for from the URL over remembered settings, and the pages     *)
(* around it: Chores, History, Logs, Tags, Households and the              *)
(* administrator's Users and Households.  Values of a setting are numbers: *)
(* All is "no filter", a page and a page size are themselves.              *)
(***************************************************************************)
EXTENDS Wire

CONSTANTS
  Kinds,        \* the list pages looked at
  Rows,         \* the rows the server may have, in the order it lists them
  HouseholdOf,  \* the household of each row
  Own,          \* the rows that are the user's own
  MaxRequests,  \* requests outstanding at most
  MaxMoves      \* what the user does, all told

RowsAssumption == Rows \subseteq Nat /\ Own \subseteq Rows

VARIABLES
  view,    \* the page
  wire,    \* its requests
  world,   \* what outlives it: the API's data and the browser's storage
  moves    \* how much the user has done

vars == <<view, wire, world, moves>>

All == 0
Household == 1..3      \* 3: one that is gone
Member == 1..2         \* 2: one who has left
MAX_PAGE_SIZE == 2
SortKeys == {1, 2}     \* what the server sorts by
RetiredSortKey == 3    \* what an older release could sort by

Keys == {"page", "size", "sort", "household", "person", "text"}

-----------------------------------------------------------------------------
(* The pages                                                               *)

(* The filters each page passes as initial.filters.                        *)
FilterKeys(kind) ==
  CASE kind = "chores" -> {"household", "text"}
    [] kind \in {"history", "logs"} -> {"household", "person"}
    [] kind = "tags" -> {"household"}
    [] OTHER -> {"text"}

SettingKeys(kind) == {"size", "sort"} \cup FilterKeys(kind)

pageDefaults(kind) ==
  [k \in SettingKeys(kind) |-> IF k \in {"size", "sort"} THEN 1 ELSE All]

(* Which rows carry the control that removes them: a chore, a tag or an    *)
(* administrator's household always, the others as the page decides.       *)
RowActions_Chores(row) == TRUE
RowActions_Tags(row) == TRUE
RowActions_AdminHouseholds(row) == TRUE
RowActions_Households(row) == row \in Own
RowActions_Users(row) == row \notin Own
RowActions_History(v, row) == row \in Own \/ HouseholdOf[row] \in v.roles.organises

MayRemove(v, row) ==
  CASE v.kind = "chores" -> RowActions_Chores(row)
    [] v.kind = "tags" -> RowActions_Tags(row)
    [] v.kind = "households" -> RowActions_Households(row)
    [] v.kind = "users" -> RowActions_Users(row)
    [] v.kind = "admin_households" -> RowActions_AdminHouseholds(row)
    [] v.kind = "history" -> RowActions_History(v, row)
    [] OTHER -> FALSE

HasOptions(kind) == "household" \in FilterKeys(kind)

-----------------------------------------------------------------------------
(* The hook: what the URL and the remembered settings come to              *)

(* Each remembered field is taken on its own or not at all.                *)
readSettings(kind, store) ==
  LET initial == pageDefaults(kind) IN
  IF store = {}
  THEN initial
  ELSE [k \in SettingKeys(kind) |->
          LET stored == (CHOOSE s \in store : TRUE)[k] IN
          IF k = "size" /\ stored > MAX_PAGE_SIZE THEN initial[k] ELSE stored]

deriveState(v) ==
  [k \in {"page"} \cup SettingKeys(v.kind) |->
     IF k \in DOMAIN v.url THEN v.url[k] ELSE IF k = "page" THEN 1 ELSE v.defaults[k]]

(* A setting at its default is not written into the URL.                   *)
applyOwnedParams(v, s) ==
  [k \in {k \in DOMAIN s : s[k] # IF k = "page" THEN 1 ELSE v.defaults[k]} |-> s[k]]

toApiQuery(v) == deriveState(v)

settingsJson(v) == [k \in SettingKeys(v.kind) |-> deriveState(v)[k]]

pageCount(v) ==
  LET size == deriveState(v)["size"]
      pages == (v.total + size - 1) \div size
  IN IF pages < 1 THEN 1 ELSE pages

mutate(v, s) == [v EXCEPT !.loading = TRUE, !.error = "none", !.url = applyOwnedParams(v, s)]

(* The setters: nothing happens unless something changes, and all but the  *)
(* page go back to the first page.                                         *)
setPage(v, page) ==
  LET s == deriveState(v) IN
  IF page = s["page"] THEN v ELSE mutate(v, [s EXCEPT !["page"] = page])

setPageSize(v, size) ==
  LET s == deriveState(v) IN
  IF size = s["size"] THEN v ELSE mutate(v, [s EXCEPT !["size"] = size, !["page"] = 1])

setSort(v, key) ==
  LET s == deriveState(v) IN
  IF key = s["sort"] THEN v ELSE mutate(v, [s EXCEPT !["sort"] = key, !["page"] = 1])

setFilter(v, k, value) ==
  LET s == deriveState(v) IN
  IF s[k] = value THEN v ELSE mutate(v, [s EXCEPT ![k] = value, !["page"] = 1])

setFilters(v, patch) ==
  LET s == deriveState(v) IN
  IF \A k \in DOMAIN patch : s[k] = patch[k]
  THEN v
  ELSE mutate(v, [k \in DOMAIN s |->
                    IF k \in DOMAIN patch THEN patch[k] ELSE IF k = "page" THEN 1 ELSE s[k]])

reload(v) == [v EXCEPT !.loading = TRUE, !.error = "none"]

(* Variant: an answer that another request replaced is applied.            *)
Fetched_Late(v, w, again) ==
  IF again \/ toApiQuery(v) # toApiQuery(view) THEN Send(w, "rows", toApiQuery(v)) ELSE w

(* The fetch effect: a new query, or the same one again, replaces the      *)
(* request before it.                                                      *)
Fetched(v, w, again) ==
  IF again \/ toApiQuery(v) # toApiQuery(view) THEN SendAgain(w, "rows", toApiQuery(v)) ELSE w

(* The write effect: the settings that committed are remembered.           *)
Remembered(v, store) ==
  IF settingsJson(v) # settingsJson(view) THEN {settingsJson(v)} ELSE store

(* The page after a change of its state, with the effects that follow.     *)
Committed(v, w, again, store) ==
  /\ view' = v
  /\ wire' = Fetched(v, w, again)
  /\ world' = [world EXCEPT !.store = Remembered(v, store)]

-----------------------------------------------------------------------------
(* The server                                                              *)

(* The tags are one household's: the first the user organises, if no other *)
(* is asked for.                                                           *)
HouseholdAsked(q) ==
  IF view.kind = "tags" /\ q["household"] = All
  THEN CHOOSE h \in view.roles.organises : \A g \in view.roles.organises : h <= g
  ELSE q["household"]

Matching(q) ==
  {r \in world.rows :
     /\ "household" \in DOMAIN q => HouseholdAsked(q) \in {All, HouseholdOf[r]}
     /\ "person" \in DOMAIN q => q["person"] = All \/ (q["person"] = 1 /\ r \in Own)
     /\ "text" \in DOMAIN q => q["text"] = All \/ r \in Own}

Position(r, q) ==
  Cardinality({s \in Matching(q) : IF q["sort"] = 1 THEN s <= r ELSE s >= r})

ListOf(q) ==
  [items |-> {r \in Matching(q) : /\ (q["page"] - 1) * q["size"] < Position(r, q)
                                  /\ Position(r, q) <= q["page"] * q["size"]},
   total |-> Cardinality(Matching(q)),
   query |-> q]

(* A list that may not be asked for: a parameter that is not one is 422 or *)
(* 400; the tags of a household the user does not organise are a 404.      *)
Invalid(q) == q["sort"] \notin SortKeys \/ q["size"] > MAX_PAGE_SIZE
NoSuchHousehold(q) ==
  view.kind = "tags" /\ q["household"] \notin {All} \cup view.roles.organises

ServeRows(i) ==
  /\ i \in Waiting(wire) /\ wire[i].kind = "rows"
  /\ LET q == wire[i].arg IN
     wire' = IF Invalid(q) THEN Settle(wire, i, "invalid")
             ELSE IF NoSuchHousehold(q) THEN Settle(wire, i, "refused")
             ELSE Ok(wire, i, ListOf(q))
  /\ UNCHANGED <<view, world, moves>>

ServeOptions(i) ==
  /\ i \in Waiting(wire) /\ wire[i].kind = "options"
  /\ wire' = Ok(wire, i, [households |-> world.households, members |-> {1}])
  /\ UNCHANGED <<view, world, moves>>

ServeRemove(i) ==
  /\ i \in Waiting(wire) /\ wire[i].kind = "remove"
  /\ world' = [world EXCEPT !.rows = @ \ {wire[i].arg}]
  /\ wire' = IF wire[i].arg \in world.rows THEN Ok(wire, i, TRUE) ELSE Settle(wire, i, "refused")
  /\ UNCHANGED <<view, moves>>

(* A refresh of the auth context, and the chore a clone starts from.       *)
ServeOther(i) ==
  /\ i \in Waiting(wire) /\ wire[i].kind \in {"refresh", "clone"}
  /\ wire' = IF wire[i].kind = "clone" /\ wire[i].arg \notin world.rows
             THEN Settle(wire, i, "refused")
             ELSE Ok(wire, i, TRUE)
  /\ UNCHANGED <<view, world, moves>>

Lose(i) ==
  /\ i \in DOMAIN wire /\ wire[i].is # "lost"
  /\ wire[i].is = "sent" \/ wire[i].kind = "remove"
  /\ wire' = Settle(wire, i, "lost")
  /\ UNCHANGED <<view, world, moves>>

-----------------------------------------------------------------------------
(* Answers                                                                 *)

(* Variant: the stored copy is forgotten, the restored defaults are not.   *)
Healed_StoreOnly(v) == v

(* After a parameter was rejected the table starts from the page's own     *)
(* settings again.                                                         *)
Healed(v) == [v EXCEPT !.defaults = pageDefaults(v.kind)]

ReceiveRows(i) ==
  /\ i \in Settled(wire) /\ wire[i].kind = "rows"
  /\ LET r == wire[i]
         v == [view EXCEPT !.loading = FALSE]
         w == Received(wire, i)
     IN CASE r.is = "ok" ->
               Committed([v EXCEPT !.rows = Data(r).items, !.total = Data(r).total,
                                   !.shown = {Data(r).query}, !.error = "none"],
                         w, FALSE, world.store)
          [] r.is = "invalid" -> Committed(Healed([v EXCEPT !.error = "invalid"]), w, FALSE, {})
          [] OTHER -> Committed([v EXCEPT !.error = r.is], w, FALSE, world.store)
  /\ UNCHANGED moves

(* What the filters of each page can be set to, from what was offered.     *)
Offered_Chores(v, a) == a.households \cap v.roles.organises
Offered_Tags(v, a) == a.households \cap v.roles.organises
Offered_Logs(v, a) == a.households \cap v.roles.owns

OfferedHouseholds(v, a) ==
  CASE v.kind = "chores" -> Offered_Chores(v, a)
    [] v.kind = "tags" -> Offered_Tags(v, a)
    [] v.kind = "logs" -> Offered_Logs(v, a)
    [] OTHER -> a.households

Dead(v, keys) == [k \in {k \in keys : deriveState(v)[k] # All} |-> All]

Unoffered(v, a) ==
  {k \in FilterKeys(v.kind) : \/ k = "household" /\ deriveState(v)[k] \notin OfferedHouseholds(v, a)
                              \/ k = "person" /\ deriveState(v)[k] \notin a.members}

NoOptions == [households |-> {}, members |-> {}]

(* History hides its filters from who is a helper everywhere, and then     *)
(* drops them whatever the options say.                                    *)
Prune_History(v, r) ==
  IF ~v.roles.deputy THEN Dead(v, FilterKeys(v.kind))
  ELSE IF r.is = "ok" THEN Dead(v, Unoffered(v, Data(r))) ELSE Dead(v, {})

Prune(v, r) ==
  IF v.kind = "history" THEN Prune_History(v, r)
  ELSE IF r.is = "ok" THEN Dead(v, Unoffered(v, Data(r))) ELSE Dead(v, {})

ReceiveOptions(i) ==
  /\ i \in Settled(wire) /\ wire[i].kind = "options"
  /\ LET r == wire[i]
         v == [view EXCEPT !.options = IF r.is = "ok"
                                       THEN [households |-> OfferedHouseholds(view, Data(r)),
                                             members |-> Data(r).members]
                                       ELSE NoOptions,
                           !.offered = IF r.is = "ok" THEN "ok" ELSE "failed"]
     IN Committed(setFilters(v, Prune(v, r)), Received(wire, i), FALSE, world.store)
  /\ UNCHANGED moves

(* The toast that says a row was removed.                                  *)
Told(v, row) == [v EXCEPT !.told = @ \cup {row}]

(* After a removal the table is asked for again.                           *)
Removed(v, w, row) == Committed(reload(Told(v, row)), w, TRUE, world.store)

ReceiveRemove(i) ==
  /\ i \in Settled(wire) /\ wire[i].kind = "remove"
  /\ LET w == Received(wire, i) IN
     IF wire[i].is # "ok" THEN Committed([view EXCEPT !.failed = TRUE], w, FALSE, world.store)
     ELSE IF view.kind = "households"
     THEN Committed(view, Send(w, "refresh", wire[i].arg), FALSE, world.store)
     ELSE Removed(view, w, wire[i].arg)
  /\ UNCHANGED moves

(* Removing a household changes the user's roles: they are asked for before*)
(* the table is.                                                           *)
ReceiveRefresh(i) ==
  /\ i \in Settled(wire) /\ wire[i].kind = "refresh"
  /\ Removed(view, Received(wire, i), wire[i].arg)
  /\ UNCHANGED moves

(* The chore to clone opens the page that creates one, wherever the user   *)
(* is by then.                                                             *)
ReceiveClone(i) ==
  /\ i \in Settled(wire) /\ wire[i].kind = "clone"
  /\ LET w == Received(wire, i) IN
     IF wire[i].is = "ok"
     THEN /\ view' = [view EXCEPT !.cloning = All, !.at = "create"]
          /\ wire' = Only(w, {"remove", "clone"})
          /\ UNCHANGED world
     ELSE Committed([view EXCEPT !.cloning = All, !.failed = TRUE], w, FALSE, world.store)
  /\ UNCHANGED moves

-----------------------------------------------------------------------------
(* What the user does                                                      *)

Acts == view.at = "list" /\ moves < MaxMoves /\ moves' = moves + 1

TurnPage(page) ==
  /\ Acts
  /\ page \in 1..pageCount(view)
  /\ page \in {deriveState(view)["page"] - 1, deriveState(view)["page"] + 1}
  /\ Committed(setPage(view, page), wire, FALSE, world.store)

ChooseSize(size) ==
  /\ Acts
  /\ Committed(setPageSize(view, size), wire, FALSE, world.store)

ChooseSort(key) ==
  /\ Acts
  /\ Committed(setSort(view, key), wire, FALSE, world.store)

(* A select is there for a choice of two at least.                         *)
FilterBar_History(v) == v.roles.deputy
FilterBar_Chores(v) == Cardinality(v.options.households) > 1

MayFilter(v, k, value) ==
  LET offers == IF k = "household" THEN v.options.households ELSE v.options.members IN
  /\ k \in FilterKeys(v.kind) \cap {"household", "person"}
  /\ v.kind = "history" => FilterBar_History(v)
  /\ IF v.kind \in {"chores", "tags"} THEN FilterBar_Chores(v) ELSE Cardinality(offers) > 1
  /\ value \in {All} \cup offers

ChooseFilter(k, value) ==
  /\ Acts
  /\ MayFilter(view, k, value)
  /\ Committed(setFilter(view, k, value), wire, FALSE, world.store)

(* Typing restarts the timer, and the timer moves the text to the filter.  *)
Type(text) ==
  /\ Acts
  /\ "text" \in FilterKeys(view.kind) /\ text # view.typed
  /\ view' = [view EXCEPT !.typed = text, !.timer = TRUE]
  /\ UNCHANGED <<wire, world>>

Debounced ==
  /\ view.at = "list" /\ view.timer
  /\ Committed(setFilter([view EXCEPT !.timer = FALSE], "text", view.typed), wire, FALSE, world.store)
  /\ UNCHANGED moves

Remove(row) ==
  /\ Acts /\ Len(wire) < MaxRequests
  /\ row \in view.rows /\ MayRemove(view, row)
  /\ view' = [view EXCEPT !.failed = FALSE]
  /\ wire' = Send(wire, "remove", row)
  /\ UNCHANGED world

Clone(row) ==
  /\ Acts /\ Len(wire) < MaxRequests
  /\ view.kind = "chores" /\ row \in view.rows /\ view.cloning # row
  /\ view' = [view EXCEPT !.failed = FALSE, !.cloning = row]
  /\ wire' = Send(wire, "clone", row)
  /\ UNCHANGED world

-----------------------------------------------------------------------------
(* The page is opened: from a link or the sidebar, with or without remem-  *)
(* bered settings, some of which an older release or a household since     *)
(* left made invalid.                                                      *)

Roles == {[organises |-> {1, 2}, owns |-> {1}, deputy |-> TRUE],
          [organises |-> {1}, owns |-> {1}, deputy |-> TRUE],
          [organises |-> {}, owns |-> {}, deputy |-> FALSE]}

(* App's guards around the page's route.                                   *)
Reaches(kind, roles) ==
  /\ kind \in {"chores", "tags"} => roles.organises # {}
  /\ kind = "logs" => roles.owns # {}

Link(kind) ==
  {[k \in {} |-> All], [k \in {"page", "sort"} |-> IF k = "page" THEN 2 ELSE RetiredSortKey]}

Saved(kind) ==
  {{}} \cup {{[k \in SettingKeys(kind) |->
                 CASE k = "size" -> size [] k = "sort" -> sort
                   [] k = "household" -> house [] OTHER -> other]} :
                size \in {2, 3}, sort \in {1, RetiredSortKey}, house \in {All, 3}, other \in {1, 2}}

Mounted(kind, roles, url, store) ==
  LET defaults == readSettings(kind, store)
      v == [at |-> "list", kind |-> kind, roles |-> roles, url |-> url, defaults |-> defaults,
            rows |-> {}, total |-> 0, shown |-> {}, loading |-> TRUE, error |-> "none",
            failed |-> FALSE, options |-> NoOptions, offered |-> "loading",
            typed |-> All, timer |-> "text" \in FilterKeys(kind), cloning |-> All, told |-> {}]
  IN [v EXCEPT !.typed = IF v.timer THEN deriveState(v)["text"] ELSE All]

Init ==
  \E kind \in Kinds, roles \in Roles :
  \E url \in Link(kind), store \in Saved(kind) :
    /\ Reaches(kind, roles)
    /\ view = Mounted(kind, roles, url, store)
    /\ world = [rows |-> Rows, households |-> {1, 2}, store |-> {settingsJson(view)}]
    /\ wire = IF HasOptions(kind)
              THEN <<Call("rows", toApiQuery(view)), Call("options", All)>>
              ELSE <<Call("rows", toApiQuery(view))>>
    /\ moves = 0

Next ==
  \/ \E i \in DOMAIN wire :
       \/ ServeRows(i) \/ ServeOptions(i) \/ ServeRemove(i) \/ ServeOther(i) \/ Lose(i)
       \/ /\ view.at = "list"
          /\ \/ ReceiveRows(i) \/ ReceiveOptions(i) \/ ReceiveRemove(i)
             \/ ReceiveRefresh(i) \/ ReceiveClone(i)
  \/ \E page \in 1..Cardinality(Rows) : TurnPage(page)
  \/ \E size \in 1..MAX_PAGE_SIZE : ChooseSize(size)
  \/ \E key \in SortKeys : ChooseSort(key)
  \/ \E k \in {"household", "person"}, value \in Household : ChooseFilter(k, value)
  \/ \E text \in {All, 1} : Type(text)
  \/ Debounced
  \/ \E row \in Rows : Remove(row) \/ Clone(row)

Spec == Init /\ [][Next]_vars

-----------------------------------------------------------------------------
(* Properties                                                              *)

Asking == Out(wire, {"rows"})
AtRest == view.at = "list" /\ ~Asking

(* A table that says it is loading has a request it waits for: no setter   *)
(* and no reload leaves it spinning (useServerTable.ts:392-394).           *)
SpinnerHasRequest == view.at = "list" /\ view.loading => Asking

(* However requests overlapped, rows that stand without an error are the   *)
(* answer to the query the filters, sort and page on screen make.          *)
RowsAnswerTheQuery ==
  AtRest /\ view.error = "none" => view.shown = {toApiQuery(view)}

(* A sort or filter the server turned down is remembered by nobody once it *)
(* said so, and only one that is in the URL can still be asked for: a table*)
(* is not wedged by what it restored (useServerTable.ts:344-355).          *)
RejectedIsForgotten ==
  AtRest /\ view.error = "invalid" =>
    /\ world.store = {}
    /\ "sort" \in DOMAIN view.url /\ view.url["sort"] \notin SortKeys

(* Once the options are known no list is narrowed by a household or person *)
(* that cannot be picked, nor by anything where the filters are hidden.    *)
DeadFilterIsDropped ==
  view.at = "list" /\ view.offered = "ok" =>
    \A k \in FilterKeys(view.kind) \cap {"household", "person"} :
      LET value == deriveState(view)[k] IN
      /\ view.kind = "history" /\ ~view.roles.deputy => value = All
      /\ value = All \/ value \in IF k = "household" THEN view.options.households
                                   ELSE view.options.members

(* A row the user was told is removed is not on the screen any more once   *)
(* the table has settled, whatever list was on its way at the time.        *)
RemovedIsGone ==
  AtRest /\ view.error = "none" => view.rows \cap view.told = {}
=============================================================================
