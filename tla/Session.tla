------------------------------ MODULE Session ------------------------------
(***************************************************************************)
(* The signed-in session as the single-page application knows it: the auth *)
(* context, the route guards, the login page and the pages that change who *)
(* is signed in.  The tabs of one browser share its cookies and its local  *)
(* storage.  A request is sent, served and received in three steps, so an  *)
(* answer may be out of date, lost or overtaken when it is applied.        *)
(***************************************************************************)
EXTENDS Integers, FiniteSets

CONSTANTS
  Accounts,     \* who can sign in
  Nobody,       \* no account
  Tabs,         \* tabs of the one browser
  Starts,       \* the roles accounts may start with
  TwoFactor,    \* the accounts that sign in with a second step
  Admins,       \* the accounts with is_admin
  MaxRequests,  \* requests a tab has outstanding at most
  MaxMoves      \* requests made, pages loaded and sessions lapsed, all told

ASSUME SessionAssumption ==
  Starts \subseteq [Accounts -> 0..4] /\ MaxRequests \in Nat /\ MaxMoves \in Nat

VARIABLES
  cookie,   \* whom the session cookie stands for, and who is parked behind it
  pending,  \* whom the two-factor cookie stands for
  grade,    \* the best role of each account, as the server knows it
  storage,  \* the tables' remembered settings: their owner and their authors
  tab,      \* what each tab shows
  wire,     \* the requests of each tab
  moves     \* how many moves there were

vars == <<cookie, pending, grade, storage, tab, wire, moves>>

(* memberships, reduced to the best of them: 0 no household, 1 helper,     *)
(* 2 deputy, 3 organiser, 4 owner of a household.                          *)
Grades == 0..4

TablePages == {"logs", "chores", "users"}
Guarded == TablePages \cup {"home", "profile", "statistics", "households"}
Routes == Guarded \cup {"login", "confirm", "invite"}

NoSession == [who |-> Nobody, parked |-> Nobody]
NoMe == [user |-> Nobody, imp |-> FALSE, grade |-> 0]

(* The Me of /auth/me.                                                     *)
Me == [user |-> cookie.who, imp |-> cookie.parked # Nobody, grade |-> grade[cookie.who]]

-----------------------------------------------------------------------------
(* Which pages a signed-in user reaches                                    *)

hasRoleSomewhere(me, min) == me.grade >= min
ownsAnyHousehold(me) == me.grade = 4

RequireRole(me, min) == hasRoleSomewhere(me, min)
RequireOwner(me) == ownsAnyHousehold(me)
RequireAdmin(me) == me.user \in Admins

(* The guards around the routes of App.                                    *)
Allowed(me, r) ==
  /\ r = "statistics" => RequireRole(me, 2)
  /\ r = "chores" => RequireRole(me, 3)
  /\ r = "logs" => RequireOwner(me)
  /\ r = "users" => RequireAdmin(me)

(* A page that is not for them is Home instead.                            *)
AfterGuard(me, r) == IF Allowed(me, r) THEN r ELSE "home"

(* Variant: Logs shown to whoever manages a household's chores.            *)
NavItems_LogsForOrganisers(me) ==
  {"home", "households", "profile"}
    \cup (IF hasRoleSomewhere(me, 2) THEN {"statistics"} ELSE {})
    \cup (IF hasRoleSomewhere(me, 3) THEN {"logs", "chores"} ELSE {})
    \cup (IF me.user \in Admins THEN {"users"} ELSE {})

(* What AppSidebar links to.                                               *)
NavItems(me) ==
  {"home", "households", "profile"}
    \cup (IF hasRoleSomewhere(me, 2) THEN {"statistics"} ELSE {})
    \cup (IF ownsAnyHousehold(me) THEN {"logs"} ELSE {})
    \cup (IF hasRoleSomewhere(me, 3) THEN {"chores"} ELSE {})
    \cup (IF me.user \in Admins THEN {"users"} ELSE {})

-----------------------------------------------------------------------------
(* What is on the screen                                                   *)

SignedIn(tb) == ~tb.loading /\ tb.me.user # Nobody

(* RequireAuth and AcceptInvite send a visitor to the login page, which    *)
(* remembers where they were going.                                        *)
VisitorLands(tb) ==
  IF tb.at \in Guarded \cup {"invite"}
  THEN [tb EXCEPT !.at = "login", !.from = tb.at]
  ELSE tb

(* The login page sends a signed-in user on to where they were going.      *)
UserLands(tb) ==
  IF tb.at = "login"
  THEN [tb EXCEPT !.at = AfterGuard(tb.me, tb.from), !.from = "home"]
  ELSE [tb EXCEPT !.at = AfterGuard(tb.me, tb.at)]

(* While the first /auth/me is out nothing is rendered and nobody sent on. *)
Landed(tb) ==
  IF tb.loading THEN tb ELSE IF tb.me.user = Nobody THEN VisitorLands(tb) ELSE UserLands(tb)

(* What a page's local state lives as long as: the outlet is keyed by the  *)
(* user's id.                                                              *)
PageKey(tb) == <<tb.loading, tb.at, tb.me.user>>

(* A tab after rendering: a page that was not there before starts with its *)
(* own state, a table with what is remembered, and answers to the page     *)
(* that went find nobody.                                                  *)
Rendered(old, tb, saved) ==
  LET new == Landed(tb) IN
  IF PageKey(new) = PageKey(old)
  THEN new
  ELSE [new EXCEPT !.step = "password", !.busy = FALSE,
                   !.table = IF SignedIn(new) /\ new.at \in TablePages THEN saved ELSE {}]

Orphaned(old, new, w) ==
  IF PageKey(new) = PageKey(old)
  THEN w
  ELSE [i \in DOMAIN w |-> [w[i] EXCEPT !.live = FALSE]]

-----------------------------------------------------------------------------
(* Requests                                                                *)

Kinds == {"probe", "refresh", "login", "verify", "logout", "impersonate", "stop",
          "join", "confirm", "found", "save"}

NoRequest == [kind |-> "none", arg |-> Nobody, then |-> "stay", live |-> FALSE,
              is |-> "idle", me |-> NoMe]

Request(kind, arg, then) ==
  [kind |-> kind, arg |-> arg, then |-> then, live |-> FALSE, is |-> "sent", me |-> NoMe]

InFlight(t) == {i \in 1..MaxRequests : wire[t][i].is # "idle"}

Free(t) == 1..MaxRequests \ InFlight(t)

With(w, r) ==
  LET i == CHOOSE i \in DOMAIN w : w[i].is = "idle"
  IN  [w EXCEPT ![i] = r]

Without(w, i) == [w EXCEPT ![i] = NoRequest]

Move == moves < MaxMoves /\ moves' = moves + 1

(* A handler of the page sends a request; busy is its submitting, joining  *)
(* or saving flag, which it lowers at the end if the page is still live.   *)
Send(t, r, busy) ==
  /\ Free(t) # {}
  /\ Move
  /\ wire' = [wire EXCEPT ![t] = With(@, [r EXCEPT !.live = busy])]
  /\ tab' = [tab EXCEPT ![t].busy = @ \/ busy]
  /\ UNCHANGED <<cookie, pending, grade, storage>>

FreshTab(r) ==
  [me |-> NoMe, loading |-> TRUE, at |-> r, from |-> "home",
   step |-> "password", busy |-> FALSE, table |-> {}]

OnlyProbe == With([i \in 1..MaxRequests |-> NoRequest], Request("probe", Nobody, "stay"))

Init ==
  /\ cookie = NoSession
  /\ pending = Nobody
  /\ grade \in Starts
  /\ storage = [owner |-> Nobody, saved |-> {}]
  /\ tab = [t \in Tabs |-> FreshTab("home")]
  /\ wire = [t \in Tabs |-> OnlyProbe]
  /\ moves = 0

-----------------------------------------------------------------------------
(* What the user does                                                      *)

(* A link, the back button or a typed address the application handles.     *)
Go(t, r) ==
  /\ ~tab[t].loading
  /\ r # tab[t].at
  /\ LET new == Rendered(tab[t], [tab[t] EXCEPT !.at = r, !.from = "home"], storage.saved)
     IN  /\ new # tab[t]
         /\ tab' = [tab EXCEPT ![t] = new]
         /\ wire' = [wire EXCEPT ![t] = Orphaned(tab[t], new, @)]
  /\ UNCHANGED <<cookie, pending, grade, storage, moves>>

(* A full page load: whatever was under way in the tab is gone.            *)
Reload(t) ==
  /\ Move
  /\ tab' = [tab EXCEPT ![t] = [FreshTab(tab[t].at) EXCEPT !.from = tab[t].from]]
  /\ wire' = [wire EXCEPT ![t] = OnlyProbe]
  /\ UNCHANGED <<cookie, pending, grade, storage>>

(* The provider's way back from single sign-on is a full page load too.    *)
SingleSignOn(t, a) ==
  /\ tab[t].at = "login" /\ ~tab[t].loading
  /\ Move
  /\ cookie' = [who |-> a, parked |-> Nobody]
  /\ tab' = [tab EXCEPT ![t] = FreshTab(tab[t].from)]
  /\ wire' = [wire EXCEPT ![t] = OnlyProbe]
  /\ UNCHANGED <<pending, grade, storage>>

AtLogin(t, step) == ~tab[t].loading /\ tab[t].at = "login" /\ tab[t].step = step

(* Variant: Enter on the remember-me checkbox, without its guard.          *)
MaySubmit_Enter(t) == TRUE

(* The submit button is disabled, and Enter ignored, while one is under way*)
MaySubmit(t) == ~tab[t].busy

SubmitPassword(t, a) ==
  /\ AtLogin(t, "password")
  /\ MaySubmit(t)
  /\ Send(t, Request("login", a, "stay"), TRUE)

SubmitCode(t) ==
  /\ AtLogin(t, "code")
  /\ MaySubmit(t)
  /\ Send(t, Request("verify", Nobody, "stay"), TRUE)

BackToPassword(t) ==
  /\ AtLogin(t, "code")
  /\ tab' = [tab EXCEPT ![t].step = "password"]
  /\ UNCHANGED <<cookie, pending, grade, storage, wire, moves>>

Logout(t) == SignedIn(tab[t]) /\ Send(t, Request("logout", Nobody, "stay"), FALSE)

(* The Users page: log in as.                                              *)
Impersonate(t, a) ==
  /\ SignedIn(tab[t]) /\ tab[t].at = "users" /\ a # tab[t].me.user
  /\ Send(t, Request("impersonate", a, "home"), FALSE)

(* TopBar: return to admin.                                                *)
ReturnToAdmin(t) ==
  /\ SignedIn(tab[t]) /\ tab[t].me.imp
  /\ Send(t, Request("stop", Nobody, "stay"), FALSE)

(* AcceptInvite: join.                                                     *)
Join(t) ==
  /\ SignedIn(tab[t]) /\ tab[t].at = "invite" /\ ~tab[t].busy
  /\ Send(t, Request("join", Nobody, "households"), TRUE)

(* ConfirmAccount, open to a visitor and not waiting for /auth/me.         *)
Confirm(t, a) ==
  /\ tab[t].at = "confirm" /\ ~tab[t].busy
  /\ Send(t, Request("confirm", a, "home"), TRUE)

(* HouseholdCreate.                                                        *)
Found(t) ==
  /\ SignedIn(tab[t]) /\ tab[t].at = "households" /\ ~tab[t].busy
  /\ Send(t, Request("found", Nobody, "households"), TRUE)

(* A form of the profile, which re-reads /auth/me once saved.              *)
SaveProfile(t) ==
  /\ SignedIn(tab[t]) /\ tab[t].at = "profile" /\ ~tab[t].busy
  /\ Send(t, Request("save", Nobody, "stay"), TRUE)

(* A filter or sort of the table on screen is changed and remembered.      *)
SetFilter(t) ==
  /\ SignedIn(tab[t]) /\ tab[t].at \in TablePages
  /\ tab' = [tab EXCEPT ![t].table = @ \cup {tab[t].me.user}]
  /\ storage' = [storage EXCEPT !.saved = @ \cup tab[t].table \cup {tab[t].me.user}]
  /\ UNCHANGED <<cookie, pending, grade, wire, moves>>

-----------------------------------------------------------------------------
(* What the server does with a request                                     *)

Answer(t, i, is) == wire' = [wire EXCEPT ![t][i].is = is]

AnswerMe(t, i, c, g) ==
  wire' = [wire EXCEPT ![t][i].is = "me",
                       ![t][i].me = [user |-> c.who, imp |-> c.parked # Nobody, grade |-> g]]

(* GET /auth/me.                                                           *)
ServeMe(t, i) ==
  /\ wire[t][i].kind \in {"probe", "refresh"}
  /\ IF cookie.who = Nobody
     THEN Answer(t, i, "unauthorized")
     ELSE AnswerMe(t, i, cookie, grade[cookie.who])
  /\ UNCHANGED <<cookie, pending, grade>>

ServeLogin(t, i) ==
  /\ wire[t][i].kind = "login"
  /\ LET a == wire[t][i].arg IN
     \/ Answer(t, i, "unauthorized") /\ UNCHANGED <<cookie, pending>>
     \/ /\ a \in TwoFactor
        /\ pending' = a
        /\ Answer(t, i, "twofa")
        /\ UNCHANGED cookie
     \/ /\ a \notin TwoFactor
        /\ cookie' = [who |-> a, parked |-> Nobody]
        /\ AnswerMe(t, i, cookie', grade[a])
        /\ UNCHANGED pending
  /\ UNCHANGED grade

ServeVerify(t, i) ==
  /\ wire[t][i].kind = "verify"
  /\ \/ Answer(t, i, "unauthorized") /\ UNCHANGED <<cookie, pending>>
     \/ /\ pending # Nobody
        /\ cookie' = [who |-> pending, parked |-> Nobody]
        /\ pending' = Nobody
        /\ AnswerMe(t, i, cookie', grade[pending])
  /\ UNCHANGED grade

ServeLogout(t, i) ==
  /\ wire[t][i].kind = "logout"
  /\ cookie' = NoSession
  /\ Answer(t, i, "done")
  /\ UNCHANGED <<pending, grade>>

ServeImpersonate(t, i) ==
  /\ wire[t][i].kind = "impersonate"
  /\ LET a == wire[t][i].arg
         refused == cookie.who \notin Admins \/ a = cookie.who IN
     /\ cookie' = IF refused THEN cookie
                  ELSE [who |-> a, parked |-> IF cookie.parked = Nobody THEN cookie.who ELSE cookie.parked]
     /\ Answer(t, i, IF cookie.who = Nobody THEN "unauthorized"
                     ELSE IF refused THEN "failed" ELSE "done")
  /\ UNCHANGED <<pending, grade>>

(* A parked session that has lapsed takes the impersonated one with it.    *)
ServeStop(t, i) ==
  /\ wire[t][i].kind = "stop"
  /\ \/ /\ cookie.parked # Nobody
        /\ cookie' = [who |-> cookie.parked, parked |-> Nobody]
        /\ Answer(t, i, "done")
     \/ /\ cookie' = NoSession
        /\ Answer(t, i, "unauthorized")
  /\ UNCHANGED <<pending, grade>>

(* POST /confirm/{token} signs in and leaves the parked cookie.            *)
ServeConfirm(t, i) ==
  /\ wire[t][i].kind = "confirm"
  /\ cookie' = [cookie EXCEPT !.who = wire[t][i].arg]
  /\ Answer(t, i, "done")
  /\ UNCHANGED <<pending, grade>>

(* Everything else needs a session; joining and founding change the roles. *)
ServeWork(t, i) ==
  /\ wire[t][i].kind \in {"join", "found", "save"}
  /\ LET reached == CASE wire[t][i].kind = "join" -> 1
                      [] wire[t][i].kind = "found" -> 4
                      [] OTHER -> 0
         u == cookie.who IN
     IF u = Nobody
     THEN Answer(t, i, "unauthorized") /\ UNCHANGED grade
     ELSE /\ Answer(t, i, "done")
          /\ grade' = [grade EXCEPT ![u] = IF reached > @ THEN reached ELSE @]
  /\ UNCHANGED <<cookie, pending>>

Serve(t, i) ==
  /\ wire[t][i].is = "sent"
  /\ \/ ServeMe(t, i) \/ ServeLogin(t, i) \/ ServeVerify(t, i) \/ ServeLogout(t, i)
     \/ ServeImpersonate(t, i) \/ ServeStop(t, i) \/ ServeConfirm(t, i) \/ ServeWork(t, i)
  /\ UNCHANGED <<storage, tab, moves>>

(* The request never arrives, or its answer never does.                    *)
Fail(t, i) ==
  /\ wire[t][i].is \notin {"idle", "failed"}
  /\ wire' = [wire EXCEPT ![t][i].is = "failed", ![t][i].me = NoMe]
  /\ UNCHANGED <<cookie, pending, grade, storage, tab, moves>>

Lapse ==
  /\ Move
  /\ cookie # NoSession
  /\ cookie' = NoSession
  /\ UNCHANGED <<pending, grade, storage, tab, wire>>

-----------------------------------------------------------------------------
(* What the application does with an answer                                *)

(* Variant: an account takes over whatever is remembered.                  *)
claimTableSettings_Inherit(u) == [storage EXCEPT !.owner = u]

claimTableSettings(u) ==
  IF storage.owner = u THEN storage ELSE [owner |-> u, saved |-> {}]

clearTableSettings == [owner |-> Nobody, saved |-> {}]

(* The tab, its requests and the storage once an answer has changed them.  *)
Show(t, tb, w, sto) ==
  LET new == Rendered(tab[t], tb, sto.saved) IN
  /\ tab' = [tab EXCEPT ![t] = new]
  /\ wire' = [wire EXCEPT ![t] = Orphaned(tab[t], new, w)]
  /\ storage' = sto
  /\ UNCHANGED <<cookie, pending, grade, moves>>

(* The page's own flags are written only while that page is still there.   *)
Idle(tb, r) == IF r.live THEN [tb EXCEPT !.busy = FALSE] ELSE tb

(* A user is adopted: by the probe, a refresh, a login or a second step.   *)
Adopt(t, i, tb) ==
  LET r == wire[t][i] IN
  Show(t, [tb EXCEPT !.me = r.me], Without(wire[t], i), claimTableSettings(r.me.user))

(* handleExpiry: any 401 while a user is held.                             *)
Expired(t, i, tb) ==
  Show(t, [tb EXCEPT !.me = NoMe], Without(wire[t], i),
       IF tab[t].me.user = Nobody THEN storage ELSE clearTableSettings)

Shrug(t, i, tb) == Show(t, tb, Without(wire[t], i), storage)

(* The work is done; /auth/me is read again before the page moves on.      *)
ThenRefresh(t, i, tb, sto) ==
  LET r == wire[t][i] IN
  Show(t, tb, [wire[t] EXCEPT ![i] = [Request("refresh", Nobody, r.then) EXCEPT !.live = r.live]], sto)

(* The effect of the provider's mount.                                     *)
ReceiveProbe(t, i) ==
  /\ wire[t][i].kind = "probe"
  /\ LET tb == [tab[t] EXCEPT !.loading = FALSE] IN
     CASE wire[t][i].is = "me" -> Adopt(t, i, tb)
       [] wire[t][i].is = "unauthorized" -> Expired(t, i, tb)
       [] OTHER -> Shrug(t, i, [tb EXCEPT !.me = NoMe])

(* refresh() never rejects, so what waits for it goes on either way.       *)
ReceiveRefresh(t, i) ==
  /\ wire[t][i].kind = "refresh"
  /\ LET r == wire[t][i]
         tb == [Idle(tab[t], r) EXCEPT !.at = IF r.then = "stay" THEN @ ELSE r.then] IN
     CASE r.is = "me" -> Adopt(t, i, tb)
       [] r.is = "unauthorized" -> Expired(t, i, tb)
       [] OTHER -> Shrug(t, i, tb)

ReceiveLogin(t, i) ==
  /\ wire[t][i].kind \in {"login", "verify"}
  /\ LET r == wire[t][i]
         tb == Idle(tab[t], r) IN
     CASE r.is = "me" -> Adopt(t, i, tb)
       [] r.is = "unauthorized" -> Expired(t, i, tb)
       [] r.is = "twofa" -> Shrug(t, i, IF r.live THEN [tb EXCEPT !.step = "code"] ELSE tb)
       [] OTHER -> Shrug(t, i, tb)

ReceiveLogout(t, i) ==
  /\ wire[t][i].kind = "logout"
  /\ IF wire[t][i].is = "done"
     THEN Show(t, [tab[t] EXCEPT !.me = NoMe], Without(wire[t], i), clearTableSettings)
     ELSE Shrug(t, i, tab[t])

(* returnToAdmin re-reads /auth/me whatever the answer was.                *)
ReceiveStop(t, i) ==
  /\ wire[t][i].kind = "stop"
  /\ IF wire[t][i].is = "unauthorized"
     THEN ThenRefresh(t, i, [tab[t] EXCEPT !.me = NoMe],
                      IF tab[t].me.user = Nobody THEN storage ELSE clearTableSettings)
     ELSE ThenRefresh(t, i, tab[t], storage)

ReceiveWork(t, i) ==
  /\ wire[t][i].kind \in {"impersonate", "join", "confirm", "found", "save"}
  /\ LET r == wire[t][i] IN
     CASE r.is = "done" -> ThenRefresh(t, i, tab[t], storage)
       [] r.is = "unauthorized" -> Expired(t, i, Idle(tab[t], r))
       [] OTHER -> Shrug(t, i, Idle(tab[t], r))

Receive(t, i) ==
  /\ wire[t][i].is \notin {"idle", "sent"}
  /\ \/ ReceiveProbe(t, i) \/ ReceiveRefresh(t, i) \/ ReceiveLogin(t, i)
     \/ ReceiveLogout(t, i) \/ ReceiveStop(t, i) \/ ReceiveWork(t, i)

-----------------------------------------------------------------------------
Next ==
  \/ Lapse
  \/ \E t \in Tabs :
       \/ Reload(t) \/ SubmitCode(t) \/ BackToPassword(t) \/ Logout(t) \/ ReturnToAdmin(t)
       \/ Join(t) \/ Found(t) \/ SaveProfile(t) \/ SetFilter(t)
       \/ \E r \in Routes : Go(t, r)
       \/ \E a \in Accounts : SingleSignOn(t, a) \/ SubmitPassword(t, a)
                              \/ Impersonate(t, a) \/ Confirm(t, a)
       \/ \E i \in 1..MaxRequests : Serve(t, i) \/ Fail(t, i) \/ Receive(t, i)

Spec == Init /\ [][Next]_vars

-----------------------------------------------------------------------------
(* Properties                                                              *)

(* Accounts, answers and what is on the screen are what they should be; a  *)
(* sign-in, an impersonation or a confirmation is for an account.          *)
User == Accounts \cup {Nobody}
MeType == [user : User, imp : BOOLEAN, grade : Grades]
Tab == [me : MeType, loading : BOOLEAN, at : Routes, from : Routes,
        step : {"password", "code"}, busy : BOOLEAN, table : SUBSET User]
Asked == [kind : Kinds \cup {"none"}, arg : User, then : {"stay", "home", "households"},
          live : BOOLEAN, me : MeType,
          is : {"idle", "sent", "me", "unauthorized", "twofa", "done", "failed"}]
Wire == {w \in [1..MaxRequests -> Asked] :
           \A i \in 1..MaxRequests :
             w[i].kind \in {"login", "impersonate", "confirm"} => w[i].arg \in Accounts}
Storage == [owner : User, saved : SUBSET User]

TypeOK ==
  /\ cookie \in [who : User, parked : User]
  /\ pending \in User
  /\ grade \in [Accounts -> Grades]
  /\ storage \in Storage
  /\ tab \in [Tabs -> Tab]
  /\ wire \in [Tabs -> Wire]
  /\ moves \in Nat

(* What a table remembers, and restores on the next visit, was set by the  *)
(* account on the screen: filters name colleagues and households and the   *)
(* admin tables save search terms, so they must not cross accounts.        *)
TablesStayWithTheirAccount ==
  \A t \in Tabs : tab[t].table \subseteq {tab[t].me.user}

(* A tab has one sign-in attempt of its own under way at most, whatever    *)
(* the user does with the two steps (the server counts attempts and locks);*)
(* and what is disabled while a request is under way waits for one whose   *)
(* answer will enable it, whatever the order of answers, redirects and     *)
(* reloads (Login.tsx:127-161).                                            *)
OneAttemptAtATime ==
  \A t \in Tabs :
    LET mine == {i \in InFlight(t) : wire[t][i].live}
    IN  /\ Cardinality({i \in mine : wire[t][i].kind \in {"login", "verify"}}) <= 1
        /\ tab[t].busy <=> mine # {}

(* The sidebar and the route guards agree: no link shown bounces to Home,  *)
(* and no page a user may see lacks its link.                              *)
NavLeadsThere ==
  \A t \in Tabs : SignedIn(tab[t]) =>
    NavItems(tab[t].me) = {r \in Guarded : AfterGuard(tab[t].me, r) = r}

(* A tab that shows nobody shows an account again only because somebody    *)
(* signed in or confirmed an address in it.  Not so: what a page asked     *)
(* before the logout may be answered after it, and is adopted.             *)
LogoutIsFinal ==
  [][\A t \in Tabs :
       (tab[t].me.user = Nobody /\ ~tab[t].loading /\ tab'[t].me.user # Nobody) =>
         \E i \in InFlight(t) :
           /\ wire[t][i].is = "me"
           /\ wire[t][i].kind \in {"login", "verify"} \/ wire[t][i].then = "home"]_vars
=============================================================================
