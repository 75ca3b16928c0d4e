# isachore in TLA+

isachore is a household chore manager: a FastAPI and SQLAlchemy backend on
PostgreSQL (READ COMMITTED) and Redis, under `src/backend/app`, and a React
single-page application under `src/frontend/src`. Two containers of the
backend's own making share the database: the API, whose requests interleave at
every `await`, and the scheduler (`core/scheduler.py`), which sweeps invitations
hourly and prunes the household log daily.

The application in turn keeps copies of what the API told it (tables, boards,
forms, panels, the user themselves) and several requests under way, whose answers
come late, out of order or not at all.

This directory specifies the parts in which a correct answer depends on more
than one request. Of the backend: the occurrence chain of a chore, households with
their roles and invitations, and accounts with their sessions and impersonation;
the first two twice, once with whole requests as actions and once cut at the
SQL statements so that requests interleave. Of the frontend: the session as a
browser tab knows it, each page with state that requests change, and the service
worker. TLC checks all of them on small instances; TLAPS proves
the safety properties of the requests, whole and interleaved, of the slots and turns
they hand out, of the tab, and of every page in it.
Paths below are relative to `src/backend/app` or, for `.tsx` and `.ts` files, to
`src/frontend/src`, unless they begin with `src/`.

## 1. Inventory

| Part | Code | State | Operations | Hard behaviour | What makes it correct | Status |
|---|---|---|---|---|---|---|
| Recurrence | `core/chores.py`, `core/occurrences.py` | none (pure) | first, next, snap, advance, free slot, days late, end of local day | DST, short months, weekday sets with intervals, early and late closures | stays on the grid; no month lost; a date is kept when the zone changes | modelled |
| Assignment | `core/assignment.py` | none (pure, random) | first pick, next pick, whether to reassign | ties, skips, credit given to others, pools edited mid-turn | turns even; whoever is behind is on the hook | modelled |
| Chores and occurrences | `api/v1/chores.py`, `api/v1/completions.py`, `core/occurrences.py` | `chores`, `chore_occurrences` | create, update, delete, complete, skip (now or backdated), undo, re-anchor on a timezone change | row locks, unique indexes, undo by row id, slots stored as instants while rules are in local time | exactly one open occurrence; history frozen; undo inverts closure; no 409 that no retry clears | modelled |
| Households, members, roles | `api/v1/households.py`, `api/v1/admin_households.py`, `core/households.py` | `households`, `household_members` | create, transfer, delete, restore, re-role, remove, leave, change timezone | owner in one table and role in another; checks made before the write, without locks | owner is a member and an organiser; organisers do not multiply by themselves | modelled |
| Invitations | `api/v1/invitations.py`, `core/invitations.py` | `household_invitations` | create, revoke, discard, accept, hourly sweep | advisory lock behind the cap; status written by primary key | cap; single use; full lifetime | modelled |
| Sessions, impersonation, API tokens | `api/v1/auth.py`, `api/deps.py`, `api/v1/api_tokens.py` | `auth_tokens`, `api_tokens`, and two cookies a browser | login, logout, impersonate, stop, change password, generate and revoke an access token | chains of impersonation; a parked session may lapse, be revoked or lose its administrator; revocation beside login | no session for an inactive account; the way home is kept; none is stranded | whole requests modelled |
| Account lifecycle | `api/v1/admin_users.py`, `api/v1/confirmations.py`, `api/v1/profile.py`, `cli.py` | `users.status`, `users.is_admin`, `confirmation_tokens` | create, update, deactivate, confirm, resend, first administrator | a confirmation commits after a disable; two administrators at once | somebody administers; nobody locks themselves out, by proxy either; a disabled account stays so until enabled | whole requests modelled |
| Two-factor | `core/two_factor.py`, `api/v1/two_factor.py` | secret, last counter, recovery codes | set up, verify, recover, reset | codes read, then written as used | each code good once | set-up as the settings page sees it |
| OIDC | `api/v1/oidc.py`, `core/oidc.py` | one-time states, links | start, callback, link, unlink | state claimed before the provider is called | a state is good once; no account linked twice | one step of a sign-in |
| Rate limiting | `core/rate_limit.py` | Redis counters | check, increment, reset | check, then act; expiry; Redis down | bounded attempts in a window | not modelled |
| Household log, audit | `core/household_log.py`, `core/audit.py` | `household_logs` | append in the request's transaction, prune | rollback of the request, retention | one entry per change that commits | not modelled |
| Session in the browser | `auth/AuthProvider.tsx`, `components/RequireAuth.tsx`, `RequireRole.tsx`, `AppSidebar.tsx`, `pages/Login.tsx`, `AcceptInvite.tsx`, `ConfirmAccount.tsx` | the user, the page, remembered table settings | sign in (two steps), out, as somebody else and back, re-read `/auth/me`, expire | answers after a logout, another account in the same browser, pages that unmount under a request | nothing of one account shows in another; one attempt at a time; links and guards agree | modelled |
| Tables | `components/data-table/useServerTable.ts` and the seven pages that use it | query in the URL, in storage and in React state; rows | filter, sort, page, remove a row, reload | answers out of order, settings that outlive a release or a member | at rest the rows answer the query; no table is wedged | modelled |
| Boards | `pages/Home.tsx`, `pages/Unscheduled.tsx`, the dialogs | the list, the rows being closed, the open dialog | complete, skip, backdate, credit, filter | several closings at once, each reading the list again | a chore is closed once, as the user said; the list is not older than what was done | modelled |
| Chore form | `components/chores/ChoreForm.tsx`, `pages/ChoreCreate.tsx`, `ChoreEdit.tsx` | every field, hidden ones too; the pickers | fill, switch household, clone, save | hidden fields, pickers still loading | what is sent is what is shown; an unrelated edit keeps the assignee | modelled |
| Profile | `pages/Profile.tsx`, `theme/ThemeProvider.tsx` | the user, the appearance on screen | save a section, each on its own | shown before saved; re-reads that overlap | at rest the page shows what is stored | modelled |
| Second factor, access token | `components/TwoFactorSettings.tsx`, `ApiTokenSettings.tsx` | dialogs, what is shown once | enable, confirm, disable, renew, reveal, delete | answers lost after the server acted, dialogs closed and opened again | what is shown works; nothing is on that nobody holds | modelled |
| Household pages | `pages/HouseholdEdit.tsx`, `admin/HouseholdEdit.tsx`, `components/households/*`, `lib/permissions.ts` | household, memberships, roster, invitations | rename, move zone, re-role, remove, transfer, leave, delete, invite, revoke | four copies refreshed separately | what is offered is allowed; the hand-kept list is the API's | modelled |
| Statistics | `pages/Statistics.tsx` | range, filters, figures | choose | answers out of order | at rest the figures answer the filters | modelled |
| Service worker | `src/frontend/public/sw.js`, `pwa.ts` | caches, the active and the waiting worker | install, activate, navigate, load | failed installs, error pages, deployments | offline, the app opens on itself | modelled |
| Plain forms, the component kit | `components/users/UserForm.tsx`, `components/tags/TagForm.tsx`, `components/ui/*` | one form each | one request each | none | | not modelled |
| Reads (home, history, statistics), tags, email, avatars, rich text, encryption, CSRF, body limit, startup, seed, CLI, deployment | see `PROJECT.json` | none of their own, or one row at a time | | | | not modelled: queries, I/O, conversions, one decision per request |

How they interact. A completion reads the household's zone and the chore's
rule, writes the done row and its successor, and asks Assignment whom to put on
it and Recurrence when. A timezone change of a household (in `update_household`)
re-dates the open occurrences of all its scheduled chores in the same
transaction. Undo reopens or deletes occurrences and decides by row id. Role
gates stand in front of every chore request. Removing a member only
deletes the membership: their chores keep them in the pool and on the hook, so
`Chores` and `Households` share no state, and `Chores` takes its members as fixed.
In the browser the router mounts one page at a time: its state, and what it waits
for, go with it. What outlives a page is the user with their memberships, and the
settings tables remember in `localStorage`; pages reach those through the auth
context. A 401 to any request ends the session of the tab.
Who is asking is settled before any of this starts, from the session cookie and,
for the audit trail and the self-guard, the parked one; all that `Households`
sees of an account is whether it is active.

## 2. Modules

| Module | What it describes | Code |
|---|---|---|
| `Recurrence` | the slot algebra as operators, over integers for instants and a table of offsets for a ZoneInfo | `core/chores.py`, `core/occurrences.py` |
| `RecurrenceWalk`, `MCRecurrenceWalk` | one chore walked along its grid on the real calendar, against a grid described without walking | same |
| `Assignment` | the set of members each pick may return | `core/assignment.py` |
| `Chores`, `MCChores` | the tables `chores` and `chore_occurrences`; one action per request | `api/v1/chores.py`, `api/v1/completions.py` |
| `Chores_proofs` | theorems about `Chores`: the chain of occurrences, turn taking, then what the walks of `Recurrence` compute and the slots stored | |
| `OccurrenceRaces`, `MCOccurrenceRaces` | one chore, requests cut at their SQL statements, PostgreSQL's row locks, index waits and deadlock detector | same |
| `OccurrenceChain` | what closing and re-dating promise; `OccurrenceRaces` implements it | same |
| `OccurrenceRaces_proofs` | theorems about `OccurrenceRaces`, and that it implements `OccurrenceChain` | |
| `RoleLadder` | roles as rungs 1 to 3, 0 for no membership | `models/household.py` |
| `Households`, `MCHouseholds` | households, roles, invitations, active accounts, a clock; one action per request of both the user and the admin surface, and the hourly sweep | `api/v1/households.py`, `admin_households.py`, `invitations.py` |
| `Households_proofs` | theorems about `Households` | |
| `HouseholdRaces`, `MCHouseholdRaces` | one household, requests cut at their SQL statements | same |
| `HouseholdRaces_proofs` | theorems about `HouseholdRaces` | |
| `Accounts`, `MCAccounts` | accounts, sessions, confirmation links, access tokens, and the cookies of a few browsers; one action per request, and one per thing that lapses | `api/v1/auth.py`, `api/deps.py`, `admin_users.py`, `confirmations.py`, `profile.py`, `api_tokens.py`, `oidc.py`, `cli.py` |
| `Accounts_proofs` | theorems about `Accounts` | |
| `Session`, `MCSession` | tabs of one browser: the user, the page and its remembered tables, against cookies and roles on the server | `auth/AuthProvider.tsx`, the guards, the sign-in pages, `AppSidebar.tsx`, `TopBar.tsx`, the settings kept by `useServerTable.ts` |
| `Session_proofs` | theorems about `Session` | |
| `Wire` | the requests of a page: sent, served, received, refused, lost, no longer listened for | `lib/api.ts` |
| `ServerTable` | a page with a table, for each of the seven | `useServerTable.ts`, the list pages, the endpoints' filters |
| `ChoreBoard` | Home and Unscheduled | `pages/Home.tsx`, `pages/Unscheduled.tsx`, the dialogs |
| `ChoreForm` | creating, cloning, editing a chore | `ChoreForm.tsx`, `ChoreCreate.tsx`, `ChoreEdit.tsx` |
| `Profile`, `SecuritySettings` | the sections of the profile page | `Profile.tsx`, `TwoFactorSettings.tsx`, `ApiTokenSettings.tsx` |
| `HouseholdPage` | the pages of one household, for owner, members and site administrators | `HouseholdEdit.tsx`, `components/households/*`, `permissions.ts` |
| `Statistics` | figures under a range and filters | `Statistics.tsx` |
| `ServiceWorker` | two versions of the worker over two builds | `src/frontend/public/sw.js`, `pwa.ts` |
| `Pages`, `MCPages` | all page modules side by side, one of them chosen at the start | |
| `Pages_proofs` | theorems about `Wire` and about all pages but a household's | |
| `HouseholdPage_proofs` | theorems about a household's pages | |

`Recurrence` and `Assignment` are extended by `Chores`, `RoleLadder` by
`Households` and `HouseholdRaces`; `OccurrenceRaces` instantiates
`OccurrenceChain` with its open row for `open` and its done rows for `history`.
The page modules extend `Wire` and declare the same four variables, `view`, `wire`,
`world` and `moves`; `Pages` declares them once, with `page` for the page that is
mounted, instantiates every page module over them (`Table`, `Board`, `Form`,
`Profile`, `Security`, `Household`, `Figures`, `Worker`), and states what they promise;
`MCPages` gives its constants values.
A definition named `X_Fault` (`UndoRow_LeavesSuccessor`, `Advise_NoLock`) is a
deliberately wrong `X`, marked "Variant" above it; no specification uses one. It
says how the code could go wrong so that a property would notice: put in the
place of `X`, it makes that property fail.

### State and actions against the code

`Chores`: `rows` is the table `chore_occurrences` (`id`, `chore`, `slot` =
`scheduled_for`, `assignee`, `status`, `by`/`at`/`zone`/`skipped` = the columns
of a closure); `chore` holds the columns of `chores` that a request reads;
`timezone` is the household's; `now` is the last answer of `clock.now()`, which
never goes back. A request the code refuses (403, 404, 409) is no step: it
commits nothing. `Complete` and `Skip` both are `_close_occurrence`, now or
backdated to the end of the slot's local day; `Undo` is `undo_completion` with
its two branches; `ChangeTimezone` is `commit_household_update` with
`reanchor_open_occurrences`.

`OccurrenceRaces` has the same requests for one daily chore. What is committed
is in `table`; what a session has read so far is in `sess`. The steps of a
closure are: the unlocked select of the open row, `SELECT ... FOR UPDATE`, the
read of the household's zone, and the commit, at which the unique indexes
decide. `Waits(s, t)` says when PostgreSQL makes one session wait for another;
`Granted` lets the next one through; `DeadlockAbort` breaks a circle.

`HouseholdRaces` does the same for `Households`: a household is loaded once by
each request and not read again (the ORM's identity map; only `remove_member` selects
`admin_id` afresh); writes are by primary
key and apply to what the row has become; the advisory lock lasts to the end of
its transaction.

`Accounts`: `status` and `admins` are columns of `users` (`"none"` for a row not
there yet), `owner` is `auth_tokens`, `link` and `apiToken` are the users with a
row in `confirmation_tokens` and `api_tokens`, `jar` holds the two cookies of each
browser. `UserOf` is `get_user_by_token`, and the dependencies `CurrentUser`,
`AdminUser` and `Impersonator` are operators over a browser's cookies. `home` is no
state of the program: it remembers which session an impersonation started from, so
that a property can ask whether the program still knows. A request that is
refused is no step. `Login` stands for the password with its second factor,
`SignOn` for the provider's callback; both end in `mint_session`. `ConfirmAccount`
does not, as section 5 says. A row past its expiry is read by nothing, so
`SessionLapses` and `LinkLapses` delete it.

`Session`: `cookie` is whom the session cookie and the parked one stand for,
`pending` the two-factor cookie, `grade` the best role of an account in any
household, which is all the guards ask of the memberships. A `tab` holds the `me`
and `loading` of the auth context, the route, where a visitor was going (`from`),
and the local state of the page on screen: the step of the sign-in, its `busy` flag
(submitting, joining, saving), and for a table the accounts who set what it shows.
`Rendered` is a render: the guards redirect, and if the page or the user's id
changed, React mounts the page afresh and the answers to the old one are `live` no
longer, though they still reach the auth context. A request carries what follows
it: `ThenRefresh` replaces it by the re-reading of `/auth/me` before the page moves
on.

In the page modules `view` is the React state of a page and of what is mounted
in it, under the names of the source; `wire` its outstanding requests; `world`
what the API (and `localStorage`, and for `Profile` the auth context) holds. Each
handler is an action; each request is sent by its handler, answered by a `Serve`
action, and applied by a `Receive` action that is the code after the `await`, its
`finally` included. `Wire!Ignore` is the cleanup of an effect (`ignore`,
`cancelled`): the answer comes and nobody listens. `Lose` is a request or an answer
that never arrives: the server may have acted. `moves` counts what users do and is
a bound of the model, as `MaxRequests` is.

## 3. Model checking

Ten runs pass on properties of the code; two end in a counterexample to a
statement of the repository's that the code does not keep. `tlc -workers 2 -config <cfg> <module>` repeats
one.

| Run | Question | Bounds, and why they are enough |
|---|---|---|
| `chores_schedule` | Do slots, history and undo hold together through any mix of requests? | one chore, three rules (daily, weekly Thursday and Friday, on demand), up to 3 occurrence ids, clock readings 5, 10 and 22 of a calendar of four ticks a day. Zone `home` never changes its clocks; `south` skips the midnight of day 3 and repeats the last tick of day 4, as America/Santiago does. Three ids allow two closures and an undo of either, and a closure or re-date across both changes of the clocks; 22 is four days late, so a backlog exists. Chores share nothing but the id sequence, so one is enough |
| `chores_rotation` | Is turn taking fair? | three members, pools of two and three, turns of one and two, up to five occurrences: two full turns of two members. No edits or undos: those may set anybody |
| `recurrence_walk` | Does stepping agree with the grid? | the calendar of 2024 to 2030 as far as day-of-month and leap years need it, every weekday set of up to three days, intervals up to three, closures early, punctual and late |
| `races_closures` | What do concurrent completions, skips and timezone changes do? | three sessions, four requests, two zones. Two sessions race for a row; the third changes the zone between two of their statements |
| `races_undo` | What can undo and edit add? | all four kinds, three sessions, four requests: every circle of two or three waits |
| `households` | Do ownership, roles and invitations stay together? | three users (owner, organiser and a third), one of them a site administrator, one household, three invitations under a cap of two, a clock over two sweeps; one account disabled at a time (`MaxDisabled`) |
| `hh_races` | The same, concurrently: the cap, no request waiting for ever | every pair of requests, two invitations under a cap of one |
| `accounts` | Does anything survive a deactivation, does somebody always administer, and does impersonation find its way back? | three users, none at the start; two browsers; three session tokens, which a chain of two impersonations uses all of; a token returns to the pool once nothing names it. A third user is what a chain, and an operator acting by proxy, take |
| `app_session` | What does a tab show, to whom, while answers come late? | one tab, an administrator who organises a household and a newcomer who signs in in two steps, two requests at once (an answer may then be overtaken by a sign-in, or by another of its kind), four moves: a sign-in, something remembered, a way out and a way in as somebody else. 1.1 million states |
| `pages` | Does each page settle on what the server holds, and send what it shows? | each page on its own, three to four requests outstanding and two to five moves: an answer overtakes one other and is itself overtaken. Table: three rows of two households, two choices of everything, 414 thousand states. Board: two chores, one of them late and somebody else's, 57 thousand. Form: two members, two households, 1.6 million. Profile: two values, 352 thousand. Settings: 43 thousand. Household: three members, two pending invitations at most, 1.0 million. Statistics: three thousand. Service worker: two builds, two workers, 88 thousand |
| `races_undo_twice`, `sw_assets` | see Findings | the sessions, requests and deployments the counterexample takes |

In the races, symmetry between sessions is used where no liveness is checked,
and in `households` between invitations and between users that are not site
administrators; in `accounts` users, tokens and browsers are each interchangeable;
in `app_session` and `pages` none is used. `CHECK_DEADLOCK FALSE` stands where a bound (ids, requests, moves,
clock) stops the model: there the system has only run out of what the model
gives it.

Properties worth a word:

- `ChainInvariant` is the inductive invariant of `Chores`: types, ids handed out
  once and in chain order, one open row for a chore that is done again, and it the
  newest, closures whole and in the past. `OneOpenPerChore` and `OpenRowIsNewest`
  together are what lets undo decide by row id which closure is the latest.
- `UndoInvertsClosure` compares whole tables: undoing a closure just made
  restores the table it was made in.
- `NoStuckClosure` says that the 409 a closure answers when its successor's slot
  is taken is always one a retry clears: the slot is never taken by the chore's
  own history. It looks at every closure possible in a state, not at those taken.
- `MidnightIsKept` is an action property: from slots that all read 00:00, every
  request but an undo leaves them at the start of a local day.
- `EachSuccessIsOneClosure` counts 201 answers against done rows. Two closures
  that both found the row open do both pass the row lock; only the unique
  indexes, at commit, keep the second from being answered 201.
- `ImplementsChain` is a refinement: each step of `OccurrenceRaces`, for closures
  and timezone changes, is one close, one re-date or nothing.
- `DeadlockNeedsUndo`: closures, edits and timezone changes cannot wait in a
  circle; every circle has an undo that has flushed the successor's deletion.
- `RequestsFinish`: under the fairness below, no request waits for ever.
- `OneJoinerPerInvitation`: with requests one at a time, a household has at most
  one member more than it has spent invitations. `LinkIsSingleUse` is what
  happens to it when two accepts run at once.
- `OrganisersDoNotGrow`: whoever becomes an organiser is made one by the owner or
  a site administrator.
- `InactiveHoldsNothing`: two requests deactivate an account, from three statuses;
  none may leave a session, an access token or a link that works again when the
  account does.
- `SomebodyAdministers` is what the self-guard is for, though it never counts
  administrators: whoever asks stays one.
- `ReturnsHome`: through any chain of impersonations, lapses and revocations, the
  parked session is the one the operator started from, while that one lives.
- `OperatorKeepsAdministering` names the operator by `home`, not by the cookie the
  guard reads.
- `TablesStayWithTheirAccount` follows who set what a table restores (their filters
  name colleagues), through every way one account replaces another in a tab. It
  holds for one tab; for two see section 5.
- `OneAttemptAtATime` also says that a page is disabled exactly as long as a request
  is out whose answer will enable it: none stays so for good.
- `TablesSettle` and `NoTableIsWedged` speak of the table at rest: whatever setters,
  reloads, removals and answers overlapped, the rows are those of the query on
  screen, no removed row is back, no spinner turns without a request, and what was
  turned down or cannot be picked any more is dropped.
- `ListIsCurrent` compares the list with the last closing the page was told of: a
  read started before it must not bring the chore back.
- `AnswersReachTheServer` and `HiddenDetailIsNotSent` compare what is sent with what
  the user said, through dialogs cancelled and fields hidden again.
- `SecondFactorIsInHand` and `TokenPanelIsCurrent` relate what is shown once to what
  the server keeps, when the answer that shows it is lost.
- `OfferedIsAllowed` asks of every control on screen, at rest, whether the API would
  refuse it: `permissions.ts` against the rules of `api/v1/households.py`, on copies
  that a transfer has to refresh together.
- `OfflineShowsTheApp` goes through every install, takeover and navigation, with
  gateway errors, redirects to the login page and the API reference among the
  answers.

### Fairness

`RequestsFinish` assumes only that the server goes on with a request that is not
waiting and that PostgreSQL grants a lock. In `OccurrenceRaces` this is weak
fairness of `Continue(s)`: once a session may go on, nobody takes that away from
it before it does. In `HouseholdRaces` it is strong fairness of `Step(s)`,
because a free row may be taken by another session and given back; PostgreSQL
queues waiters for a lock in turn, so a waiter to whom the lock is free again and
again gets it. Nobody is assumed ever to send a request, no sweep is assumed to
run, and the deadlock detector is not counted on. The frontend's properties are
about states at rest and need no fairness; whether a state of rest is reached
depends on a network that the application cannot count on.

## 4. Proofs

`tlapm` on each of the eight `*_proofs.tla` checks every step. A theorem that needs
more than the named assumptions of its model says so in its own `ASSUME`.

`Chores_proofs`, for every set of zones, offsets, users, chore ids, rules and
clocks that satisfies the assumptions `ZoneAssumption`, `ClockAssumption`,
`UserAssumption` and `PayloadAssumption` (an offset table of the right type, at
most two offsets a zone, payloads as the schema admits them):

- `TypeCorrect`, `OneOpenAlways`, `OpenRowNewestAlways`, `ClosureWholeAlways`,
  `NoFutureClosureAlways`, all of them parts of `ChainAlways`, `UndoInvertsAlways`,
  `HistoryFrozenAlways`.

None of these invariants is inductive alone. One open row per chore survives an
undo only if the row that undo keeps is the one it thinks it is, which needs ids
in chain order; ids stay in chain order only if every id in the table is below
the sequence and belongs to one row. The inductive invariant `IInv` is
therefore (`ChainInvariant` is its name in `Chores`) `TypeOK`, `IdsAreHandedOut`, `IdsAreUnique`, `RowsHaveChores`,
`OneOpenPerChore`, `OpenRowIsNewest`, `ClosureIsWhole` and `NoFutureClosure`;
one lemma per request shows that it keeps `IInv`. `UndoInvertsClosure` follows
from `IInv` alone, and `HistoryIsFrozen` from `IInv` and the step.

The second part of `Chores_proofs` is about turn taking: under the same assumptions, for
every pool, every turn length and any number of chores, over `RotationSpec` (no edits and no undos, which may set
anybody):

- `AlphabeticalTurnsAreEvenAlways`, `LeastDoneIsBehindAlways`.

Both properties bound a difference of sums over the history, which says nothing of
where in a turn the chore stands. `RInv` adds to `IInv` that the table is finite and
what being on the hook means: under least_done, the member was level or behind when
the turn began, and `n % turn` completions have been made in it (`Behind`); in
alphabetical order, everyone has held the chore for some number of whole rounds, those
already passed in this round for a turn more, and the member on the hook for what of
the turn is done (`EvenTurns`). A skip and a completion credited to somebody else keep
both, each for a reason of its own.

The third part is about the slots: under the same assumptions, for every calendar,

- `NoStuckClosureAlways`, `MidnightIsKeptAlways`, `BackdateWalksBacklogAlways`,
  `NothingLeftDueTodayAlways`, `ZoneChangeKeepsDatesAlways`.

`advance_anchor` and `free_slot_from` are loops; `AdvanceAnchor` and `FreeSlotFrom` are
recursive functions, defined by what a function with their equation computes. That
there is one is proved (`WalkExists`): of the readings a walk passes, the set is built,
not the recursion unfolded, and the walk stops (`WalkStops`) because a late enough
reading names an instant past every slot taken, of which there are at most as many as
ids handed out. From that follow that the slot found is free (`FreeSlotIsFree`) and
that the anchor is at or past its date (`AnchorIsReached`). `SInv` is `IInv` with
`RulesAreSent`: the rule of a chore is one some payload carried.

The theorems take these hypotheses, of which every one but the last is true of the
zones and payloads of `MCChores` on the dates its calendar has:

- `GridsAreEndless`, for all five: after every reading, the grid of a rule has a next
  one, on a later date. It follows from a calendar without end
  (`EndlessCalendarHasEndlessGrids`, by way of `EveryGridIsEndless`); the module takes
  it as it is because the calendars TLC can evaluate end.
- `DaysEnd`, for the first: the last instant of a local day is an instant of the model.
- `MidnightIsOnItsDate` and `MidnightIsSaidOnce`, for `MidnightIsKeptAlways`: no zone
  skips a whole date, as Pacific/Apia did in 2011, and none shows a midnight twice, as
  America/Havana does every autumn. The second is Python's `fold`: a slot in the second
  pass is read back as the first, see section 6.
- `DaysEndInThemselves`, for `BackdateWalksBacklogAlways`: 23:59:59 is on its own date;
  it fails where clocks skip the end of a day, as America/Nuuk's do.
- `ReadingsKeepTheirDate`, for `ZoneChangeKeepsDatesAlways`: no zone skips over a
  midnight at any other reading either; the zones of `MCChores` are chosen to do just
  that, so no run checks `ZoneChangeKeepsDates` with them.

They are hypotheses of the theorems and not assumptions on the constants, because the
code accepts the zones that break them and the runs should too.

`OccurrenceRaces_proofs`, for any number of sessions and zones and every bound on
requests, ids and days that `OccurrenceRaces` admits:

- `TypeCorrect` and `DeadlockNeedsUndoAlways`, whatever the mix of requests;
- `EachSuccessIsOneClosureAlways` and `AlwaysOneOpenWithoutUndo`, without undo;
- `ImplementsChainAlways`, for closures and timezone changes: the refinement of
  `OccurrenceChain`, its initial state and every step.

Each mix is as wide as it can be: with undo, `AlwaysOneOpen` is false (finding 1), and
an edit re-dates closures (section 5), which `OccurrenceChain` does not allow. `IInv`
joins to the types that ids and days stay below what the requests so far account for
(`Within`), so the bounds refuse no request what the program would do, and that a
session which goes on to close has found a row (`Found`). `DeadlockNeedsUndo` takes no
invariant: the lock order alone says that a session which has not flushed a deletion
waits only for something it takes before what it holds. `UInv` adds `RowsStay` and
`OneOpenRow`, which is the unique index, and the count itself. The refinement needs
mutual exclusion, `OneHolder` (one session holds the open row's lock), and
`LockedReadsStand` (what was read under it is what the table holds until the commit);
`Ordered` puts every done slot before the open one, so that the new slot is later than
all.

`HouseholdRaces_proofs`, for any number of sessions, every finite set of invitations,
every cap and every mix of requests:

- `TypeCorrect`, `PendingWithinCapAlways`.

That the count of pending invitations never passes the cap rests on the advisory lock
alone: `CountersHoldLock` (who counts, or has counted, holds it) and `CountStands` (what
was counted is below the cap until the commit, since everybody else can only take
pending invitations away), with `Argued`, that a request keeps the arguments of its
kind.

`Households_proofs`, for every finite set of users and invitations, any set of
households, any cap, lifetime and clock:

- `TypeCorrect`, `OwnerIsOrganiserAlways`, `PendingWithinCapAlways`,
  `OneJoinerPerInvitationAlways`, `OrganisersDoNotGrowAlways`.

`OwnerIsOrganiser` and `PendingWithinCap` are inductive given `TypeOK`. The count
of members against spent invitations needs that a household nobody has founded
has neither (`UnfoundedIsEmpty`), since its founder comes in without an
invitation; `JInv` joins them, and the lemmas on cardinalities say that a step
adds at most one member and then spends one invitation more.

`Accounts_proofs`, for every set of users, tokens and browsers, assuming only that
`NoUser` is no user and `NoToken` no token:

- `TypeCorrect`, `InactiveHoldsNothingAlways`, `SomebodyAdministersAlways`,
  `ReturnsHomeAlways`, `StrandsNoSessionAlways`, `OperatorKeepsAdministeringAlways`.

`InactiveHoldsNothing` is inductive over the types. `SomebodyAdministers` needs it
only so that a link belongs to an account that exists. `ReturnsHome` rests on
`NamedTokensStayDead`: a token a cookie still names never comes back to life,
because a new session takes a fresh token and an account that is re-activated
finds no row left, which is `InactiveHoldsNothing` again; `HomeInv` joins the
three. Where a left-over parked cookie stands in the way of a new chain, the
invariant holds because the session the chain starts from is deleted, not because
it is kept. `OperatorKeepsAdministering` follows from `HomeInv` and the step.

`Session_proofs`, for any accounts and roles, whoever administers or has a second
step, any number of requests and moves:

- `TypeCorrect`, `OneAttemptAlways` and `NavLeadsThereAlways`, for any number of
  tabs; `TablesStayAlways` for a browser with one tab, its only assumption beyond
  the types, without which it is false.

`TablesStayWithTheirAccount` is not inductive: a page mounted later starts with what
is stored. `Owned` adds that whoever is on the screen owns what is stored and
that nobody else has written to it; every path that takes a user in claims the
storage first, and every path that lets one go keeps it with its owner or clears it.
`OneAttemptAtATime` needs `Awaited`: at most one request of a tab is `live`, it is of
a kind whose answer frees the page, and the page is disabled exactly while there is
one. Two attempts would be two live requests. `NavLeadsThere` follows from the
definitions of the guards and of the sidebar alone, for every user.

`Pages_proofs` and `HouseholdPage_proofs`, under `PagesAssumption` alone, for any rows,
chores, people, values, members and builds, any number of requests out at once (however
they overtake each other, unless an assumption below says otherwise, or are lost) and any
number of moves: every property of `MCPages`, as `SpecImplies` and its name.

- Tables, boards, forms: `SpecImpliesTablesSettle`, `SpecImpliesNoTableIsWedged`,
  `SpecImpliesOneClosingPerChore`, `SpecImpliesListIsCurrent`,
  `SpecImpliesAnswersReachTheServer`, `SpecImpliesHiddenDetailIsNotSent`,
  `SpecImpliesUnrelatedEditKeepsAssignee`, `SpecImpliesPickersFollowTheHousehold`, and
  `SpecImpliesOfflineShowsTheApp` of the service worker.
- A household's zone: `SpecImpliesZoneMovesWhenConfirmed`, for a user in a hurry too.
- With `~Overtakes`: `SpecImpliesAppearanceIsTheUsers`.
- With `~Hurried`: `SpecImpliesSecondFactorIsInHand`, `SpecImpliesTokenPanelIsCurrent`.
- With `~Eager`: `SpecImpliesOfferedIsAllowed`, `SpecImpliesInvitationsAreCurrent`.

The three assumptions are constants of the modules, set to `FALSE` in the run. With
any of them `TRUE` TLC finds the property violated (section 5): the code does
not order those answers, nor disable those controls, and the theorems say what holds
where nothing of the kind happens. `Eager` restrains the user only in what is under way
on the same page, not in the order or the fate of the answers.

Each page has one invariant. All but `OneEach`, `Ordered`, `OneClosingEach`,
`OneConfirmed` and `One`, which count or order requests, speak of the requests as a set
(`Requests(wire)`): what may be said of each request of a kind, sent or answered. The
lemmas at the head of `Pages_proofs` say what a send, an answer, a receipt or a cleanup
does to that set, and each handler then changes it by one request at most.

- The worker (`WorkerInv`): a cache holds only what the worker that filled it checked, and
  only an installed worker with a shell takes over.
- A table (`TableInv`): the one list under way is for what is on screen and has no row the
  user was told is gone; with none under way the table rests (`TableRests`).
- The board (`BoardInv`): every read answered under the last number is `Current`, and
  `BoardLive`: the last read is shown, or on its way, or a closing is, which reads again.
  That is where a read discarded as stale could have been the last one.
- The form (`FormInv`): what was not touched is as the chore had it, and the pickers are
  loaded or being loaded for the household chosen (`PickersKnown`).
- The profile (`ProfileInv`): one request for each section, and a re-read answered knows of
  every save asked after before it (`Ordered`), which is what an answer that overtakes
  breaks. A lost answer leaves a page that may be out of date for good (`Doomed`).
- Security (`SecurityInv`): of `setup`, `confirm`, `refresh` and the prompts only some can
  be out together (`FactorApart`), and a code the API would still take belongs to the key
  the user was shown (`Matches`). The two halves of the page keep to themselves.
- A household (`HouseholdInv`): each of the four copies has a part. A transfer excludes
  changes of role and of invitations; a change answered and not yet read again excuses
  the table of members (`Rereading`), and one promoted by a transfer only that row
  (`Unseen`). The list kept by hand is compared as a set, since ids fall (`Falling`); a
  change of it answered and not received accounts for each difference (`ListFollows`).

Writing them changed the model where it was wrong: a transfer beside a change of role,
and the promoted member's row on the administrator's page (section 6), had passed the run
within its bounds.

Only model-checked: `RequestsFinish`, which is liveness, and `RecurrenceWalk` on the
real calendar, whose months come from data no theorem describes (the theorems about
walks say that they go forward, stop and land on a free slot, not which day of a
month that is). `DeadlockNeedsUndo` says where a circle can come from, not that the
detector breaks it.

## 5. Findings

Two runs end in a counterexample to a sentence of the repository.

1. `races_undo_twice`: two undos of one closure at once leave a chore without
   an open occurrence. The second looks for the latest closure after the first
   has reopened it, concludes that its own is not the latest, and deletes the row
   the first reopened.
2. `sw_assets`: a page that asks for a chunk of its own build just after the next
   one is deployed is answered with `index.html` and 200 (nginx: any unknown path is),
   and the service worker keeps that under the chunk's name, though `sw.js:104-105`
   says that a hit can never be stale. After a return to that build, the worker goes
   on answering with it.

Other counterexamples, which are not among the runs. Those with a `.cfg` have a
configuration of their own; the others are a run's configuration with the constants
and the property given, and the sessions `{s1, s2}`. Of the backend:

- `MCHHRacesOwnerLeft.cfg` (`OwnerIsMember`): a household may end with an owner who is
  no member: a transfer checks membership, the member leaves, the transfer commits.
- `MCChoresEditHeals.cfg` (`EditRestoresMidnight`): without concurrency, close, change
  the timezone, undo: the reopened row is on the old zone's midnight, and the next
  edit, which is said to re-seed it, only snaps it by whole days.
- `MCAccountsConfirm.cfg` (`ImpersonatorImpersonates`): following a confirmation link
  in a browser that is impersonating signs the new account in with the operator's
  cookie still parked beside it. `get_impersonator` then takes the operator for the
  person behind a session that is no impersonation: `/auth/me` says so, the account's
  actions are recorded with that impersonator, and it may not generate an access
  token.
- `MCOccurrenceRaces` with `Kinds = {"close", "zone"}`, `Zones = {"home", "west"}`,
  `MaxDay = 4`, `MaxRows = 3`, `MaxRequests = 2` (`OpenSlotOnHouseholdGrid`): a completion that holds the
  row lock when a timezone change selects the open rows leaves its successor on
  the old zone's midnight; the select cannot see a row inserted after it started
  (`api/v1/chores.py:797-800` says nothing can reach the insert). Two timezone changes
  at once do the same (`Kinds = {"zone"}` and a third zone).
- `MCHHRacesAcceptTwice.cfg` (`LinkIsSingleUse`): a single-use link lets two people
  in at once.
- `MCAccountsForceActive.cfg` (`ActivationSpendsLink`): forcing an account active
  leaves its link, though `api/v1/oidc.py:399-401` says that every path that
  activates an account takes it.
- `MCOccurrenceRaces` with `Kinds = {"close", "undo"}`, `Zones = {"home"}`,
  `MaxDay = 8`, `MaxRows = 5`, `MaxRequests = 4` (`OpenRowIsYoungest`): an undo whose two statements
  straddle a completion leaves ids out of chain order.
- `MCOccurrenceRaces` with `Kinds = {"close", "edit"}`, `Zones = {"home"}`,
  `MaxDay = 4`, `MaxRows = 3`, `MaxRequests = 2` (`ClosedSlotsStand`): an edit that read the open row
  before a completion closed it re-dates the closure, and with it its lateness.
- `MCHHRacesOwnerDemoted.cfg` (`OwnerIsOrganiser`): a change of role that loaded
  the old owner commits after the transfer to its target.
- `MCHouseholdRaces` with `Kinds = {"role"}`, three users and `MaxRequests = 2`
  (`OrganisersAreNotDemotedByPeers`): a peer's change of role
  undoes a promotion by the owner that committed in between.
- `MCHouseholdRaces` with `Kinds = {"accept", "revoke"}` and two users
  (`NobodyJoinsByRevoked`): a revoke overwrites an
  accept, and the list shows a revoked link by which somebody joined.

Of the frontend:

- `MCSessionLogout.cfg` (`LogoutIsFinal`): an answer to `/auth/me` asked for before a
  logout and received after it puts the user back on the screen
  (`auth/AuthProvider.tsx:111-138`) until the next request is a 401.
- `MCSessionTabs.cfg` (`TablesStayWithTheirAccount`): with two tabs, one still shows
  the account that the other has replaced, and what is filtered there is stored for
  the new one; that they name colleagues and households is why a logout clears them
  (`src/docs/architecture/frontend.md:91`).
- `ChoreBoardReopened.cfg` (module `ChoreBoard`, `RowsOfferedAreOpen`): a read of the
  list that started before a second chore was closed is shown after it and unlocks the
  row of a chore already closed (`pages/Home.tsx:31-32` against 152-158); the next
  answer takes it away.

And these, which take a property or a constant in place of the one a run uses:

- `SwitchDropsAssignees` of `ChoreForm`: while the pickers of the household just
  chosen are loading, the form would send assignees of the one before
  (`ChoreForm.tsx:153-155`); the API refuses them.
- `SaveKeepsTheTurn` of `ChoreForm`: an edit opened before a turn was handed on puts
  the old assignee back when it is saved (`ChoreEdit.tsx:65-69`, 91).
- `Overtakes = TRUE` in `Profile` (`AppearanceIsTheUsers`): of two re-reads of the
  user, the earlier answered last puts an older profile back on the screen until the
  next one.
- `Hurried = TRUE` in `SecuritySettings` (`SecondFactorIsInHand`): the set-up dialog
  closed and opened again before its key came may end with the key of one set-up on
  screen and that of the other in force.
- `Eager = TRUE` in `HouseholdPage` (`InvitationsAreCurrent`): an invitation made
  before the list was first answered disappears from the screen when that answer
  comes. `OfferedIsAllowed` fails too: of a restore and a transfer at once, the answer
  received last decides which owner the page shows.

One more, by reading `MidnightIsKept`: its premise asks that slots read 00:00 and
its conclusion only that they are the start of a local day, because where clocks
go forward at midnight the slot of that day reads 01:00 and every later one
follows it (`core/chores.py:177-179` says it would not slide).

## 6. Approximations

- In `Recurrence` a reading that occurs twice is read as its first occurrence
  wherever the code converts it to an instant, which is Python's `fold=0`; slots
  in the second pass of a repeated hour are read back as the first.
- `OccurrenceRaces` has a daily rule and no assignees. What a request writes is
  applied at its commit; only the lock of an undo's flushed `DELETE` is felt
  before. Ids lost to a rollback are not skipped.
- `HouseholdRaces` makes a request's last write and its commit one step.
- The set of site administrators is a constant. Names are left out. In the races
  all accounts are active and an invitation may lapse at any moment.
- In `Accounts` whoever is active may sign in and whoever asks knows the password;
  names, addresses and avatars are left out, as is a session token in a header
  instead of a cookie. With no mail server the requests that need one are refused.
  `cli.py init` is modelled up to the first administrator; its restoring of an
  existing account needs a database without an active one, to which
  `SomebodyAdministers` shows that no sequence of whole requests leads. The parked
  cookie lapses only after its row, being set later and for as long.
- A random draw is any of its candidates.
- `due_status` and `days_since`, lists and details change nothing and are left
  out of the backend's modules; the page modules model what a list answers.
- In `Session` roles only rise while a tab is open, by founding or joining; a
  demotion shows as a refusal, which is `failed`. Single sign-on is a full page load
  with a session at the end. Whoever signs in knows the password, or does not.
- Page modules have a table of two or three rows, values of which there are two, and
  a text that is empty or not. Dialogs that block the page block it in the model.
  Requests that answer a 401 are `Session`'s: here the page is gone.
- In `HouseholdPage`, unless `Eager`, a user does not change a role while a transfer is
  under way, nor the other way round. `promoted` is no state of the page: it names whom
  a transfer has promoted since the table of members was read, because the
  administrator's page does not read it again (`admin/HouseholdEdit.tsx:139-142`) and
  goes on showing the role they had. `OfferedIsAllowed` does not ask for the roles of
  those rows; that what is offered on them is allowed, it does.
- In `ChoreForm` the date, the weekdays and the interval are reduced to whether they
  are there and valid; the walk through them is `Recurrence`'s.
- In `ServiceWorker` a build has one asset, and a worker's script one of two versions.
  Evicting a cache and a user who clears the site are left out.

## 7. Plan and what is not modelled

Done: all modules of section 2.

Next, in this order:

1. `AccountRaces`: `Accounts` cut at the statements: a login beside a
   deactivation, a confirmation that commits after it, two administrators
   deactivating each other (and then `cli.py init`'s restoring), two resends.
2. `TwoFactor`, the server's side: codes and recovery codes good once, resets, and
   `RateLimit` in front of it: check before increment, Redis absent.
3. `Oidc`: one-time states, the provider's answer, linking and unlinking, beside
   password login.
4. `HouseholdLog`: one entry per committed change, retention, the sweeps and their
   misfire grace, which is where the liveness of invitations belongs.

Theorems to come go with those modules. Of the ones there are, two deserve to be
stronger: `ImplementsChainAlways` with edits, over a chain that allows a re-dated closure,
and the pages composed with `Session`, so that a 401 to one of their requests is a step.

Not modelled, and not planned: the reads (home, history, statistics, unscheduled) as
queries; tags, which are plain rows under a role gate; email, avatars, rich text and
encryption, which are I/O and conversions; CSRF, body limits, health and docs, one
decision on one request each; startup, migrations, seed and configuration, run
once; containers and nginx, but for what the service worker sees of them; forms of a
single request (users, tags, server settings), and components that only draw.

Some properties and theorems are in no run any more because another covers them:
`OneOpenPerChore`, `OpenRowIsNewest`, `ClosureIsWhole` and `NoFutureClosure` are parts
of `ChainInvariant`; `PendingWithinCap` is checked where it is hard, in `hh_races`, and
proved both there and for whole requests; the `TypeOK` of `Chores`, `Households`,
`Accounts`, `Session` and the two race modules is proved. `NothingLeftDueToday`,
`ZoneChangeKeepsDates` and `AlwaysOneOpen` (as `races_undo_twice` refutes it) are
theorems no passing run repeats.
