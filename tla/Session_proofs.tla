--------------------------- MODULE Session_proofs ---------------------------
(***************************************************************************)
(* What Session promises for every set of accounts, whoever administers,   *)
(* whoever signs in in two steps, and any number of requests and moves.    *)
(***************************************************************************)
EXTENDS Session, FiniteSetTheorems, TLAPS

-----------------------------------------------------------------------------
(* Types                                                                   *)

(* What is read of a tab and of a request it has outstanding.              *)
LEMMA AskedFields ==
  ASSUME TypeOK, NEW t \in Tabs, NEW i \in 1..MaxRequests
  PROVE  /\ tab[t] \in Tab /\ wire[t] \in Wire /\ wire[t][i] \in Asked
         /\ wire[t][i].arg \in User /\ wire[t][i].me \in MeType
         /\ wire[t][i].then \in {"stay", "home", "households"}
         /\ wire[t][i].kind \in {"login", "impersonate", "confirm"} => wire[t][i].arg \in Accounts
<1>1. tab[t] \in Tab /\ wire[t] \in Wire
  BY DEF TypeOK
<1>2. wire[t] \in [1..MaxRequests -> Asked]
      /\ (wire[t][i].kind \in {"login", "impersonate", "confirm"} => wire[t][i].arg \in Accounts)
  BY <1>1 DEF Wire
<1>3. wire[t][i] \in Asked
  BY <1>2
<1>4. \A r \in Asked : r.arg \in User /\ r.me \in MeType /\ r.then \in {"stay", "home", "households"}
  BY DEF Asked
<1> QED BY <1>1, <1>2, <1>3, <1>4

LEMMA LandedType == ASSUME NEW tb \in Tab PROVE Landed(tb) \in Tab
<1>1. /\ \A r \in Routes : [tb EXCEPT !.at = r] \in Tab
      /\ \A r, f \in Routes : [tb EXCEPT !.at = r, !.from = f] \in Tab
  BY DEF Tab
<1>2. tb.at \in Routes /\ tb.from \in Routes
  BY DEF Tab
<1>3. VisitorLands(tb) \in Tab
  <2>1. "login" \in Routes
    BY DEF Routes
  <2> QED BY <1>1, <1>2, <2>1 DEF VisitorLands
<1>4. UserLands(tb) \in Tab
  <2>1. "home" \in Routes
    BY DEF Routes, Guarded
  <2>2. \A r \in Routes : AfterGuard(tb.me, r) \in Routes
    BY <2>1 DEF AfterGuard
  <2> QED BY <1>1, <1>2, <2>1, <2>2 DEF UserLands
<1> QED BY <1>3, <1>4 DEF Landed

LEMMA RenderedType ==
  ASSUME NEW old, NEW tb \in Tab, NEW saved \in SUBSET User
  PROVE  Rendered(old, tb, saved) \in Tab
<1> DEFINE new == Landed(tb)
<1>1. new \in Tab
  BY LandedType
<1>2. [new EXCEPT !.step = "password", !.busy = FALSE,
                  !.table = IF SignedIn(new) /\ new.at \in TablePages THEN saved ELSE {}] \in Tab
  BY <1>1 DEF Tab
<1> QED BY <1>1, <1>2 DEF Rendered

LEMMA OrphanedType ==
  ASSUME NEW old, NEW new, NEW w \in Wire PROVE Orphaned(old, new, w) \in Wire
<1>1. \A r \in Asked : [r EXCEPT !.live = FALSE] \in Asked
                        /\ [r EXCEPT !.live = FALSE].kind = r.kind
                        /\ [r EXCEPT !.live = FALSE].arg = r.arg
  BY DEF Asked
<1>2. w \in [1..MaxRequests -> Asked] /\ DOMAIN w = 1..MaxRequests
  BY DEF Wire
<1>3. [i \in DOMAIN w |-> [w[i] EXCEPT !.live = FALSE]] \in Wire
  BY <1>1, <1>2 DEF Wire
<1> QED BY <1>3 DEF Orphaned

LEMMA NoMeType == NoMe \in MeType
BY DEF NoMe, MeType, User, Grades

LEMMA FreshTabType == ASSUME NEW r \in Routes PROVE FreshTab(r) \in Tab
BY NoMeType DEF FreshTab, Tab, Routes, Guarded

LEMMA NoRequestType == NoRequest \in Asked /\ NoRequest.kind = "none"
BY NoMeType DEF NoRequest, Asked, User

LEMMA WithType ==
  ASSUME NEW w \in Wire, NEW r \in Asked,
         r.kind \in {"login", "impersonate", "confirm"} => r.arg \in Accounts
  PROVE  With(w, r) \in Wire
BY DEF With, Wire

LEMMA WithoutType ==
  ASSUME NEW w \in Wire, NEW i PROVE Without(w, i) \in Wire
BY NoRequestType DEF Without, Wire

LEMMA RequestType ==
  ASSUME NEW k \in Kinds, NEW a \in User, NEW then \in {"stay", "home", "households"}
  PROVE  Request(k, a, then) \in Asked
BY NoMeType DEF Request, Asked

LEMMA OnlyProbeType == OnlyProbe \in Wire
<1>1. [i \in 1..MaxRequests |-> NoRequest] \in Wire
  BY NoRequestType DEF Wire
<1>2. Request("probe", Nobody, "stay") \in Asked /\ Request("probe", Nobody, "stay").kind = "probe"
  BY RequestType DEF Kinds, User, Request
<1> QED BY <1>1, <1>2, WithType DEF OnlyProbe

LEMMA TypeInit == Init => TypeOK
BY SessionAssumption, FreshTabType, OnlyProbeType
   DEF Init, TypeOK, NoSession, User, Grades, Storage, Routes, Guarded

LEMMA SendType ==
  ASSUME TypeOK, NEW t \in Tabs, NEW r \in Asked, NEW busy \in BOOLEAN,
         r.kind \in {"login", "impersonate", "confirm"} => r.arg \in Accounts,
         Send(t, r, busy)
  PROVE  TypeOK'
<1>1. [r EXCEPT !.live = busy] \in Asked /\ [r EXCEPT !.live = busy].kind = r.kind
        /\ [r EXCEPT !.live = busy].arg = r.arg
  BY DEF Asked
<1>2. wire[t] \in Wire /\ With(wire[t], [r EXCEPT !.live = busy]) \in Wire
  BY <1>1, WithType DEF TypeOK
<1>3. wire' \in [Tabs -> Wire]
  BY <1>2 DEF Send, TypeOK
<1>4. tab' \in [Tabs -> Tab]
  <2>1. tab[t] \in Tab /\ (tab[t].busy \/ busy) \in BOOLEAN
    BY DEF TypeOK, Tab
  <2>2. [tab[t] EXCEPT !.busy = tab[t].busy \/ busy] \in Tab
    BY <2>1 DEF Tab
  <2>3. tab' = [tab EXCEPT ![t] = [tab[t] EXCEPT !.busy = tab[t].busy \/ busy]]
    BY DEF Send, TypeOK
  <2> QED BY <2>2, <2>3 DEF TypeOK
<1> QED BY <1>3, <1>4 DEF Send, Move, TypeOK

LEMMA ShowType ==
  ASSUME TypeOK, NEW t \in Tabs, NEW tb \in Tab, NEW w \in Wire, NEW sto \in Storage,
         Show(t, tb, w, sto)
  PROVE  TypeOK'
<1>1. Rendered(tab[t], tb, sto.saved) \in Tab
  BY RenderedType DEF Storage
<1>2. Orphaned(tab[t], Rendered(tab[t], tb, sto.saved), w) \in Wire
  BY OrphanedType
<1> QED BY <1>1, <1>2 DEF Show, TypeOK

LEMMA ThenRefreshType ==
  ASSUME TypeOK, NEW t \in Tabs, NEW i \in 1..MaxRequests, NEW tb \in Tab, NEW sto \in Storage,
         ThenRefresh(t, i, tb, sto)
  PROVE  TypeOK'
<1> DEFINE r == wire[t][i]
           w == [wire[t] EXCEPT ![i] = [Request("refresh", Nobody, r.then) EXCEPT !.live = r.live]]
<1>1. wire[t] \in Wire /\ r \in Asked
  BY AskedFields
<1>2. Request("refresh", Nobody, r.then) \in Asked
      /\ Request("refresh", Nobody, r.then).kind = "refresh"
  <2>1. Nobody \in User /\ r.then \in {"stay", "home", "households"} /\ "refresh" \in Kinds
    BY <1>1 DEF User, Asked, Kinds
  <2>2. Request("refresh", Nobody, r.then) \in Asked
    BY <2>1, RequestType
  <2> QED BY <2>2 DEF Request
<1>3. [Request("refresh", Nobody, r.then) EXCEPT !.live = r.live] \in Asked
      /\ [Request("refresh", Nobody, r.then) EXCEPT !.live = r.live].kind = "refresh"
  BY <1>1, <1>2 DEF Asked
<1>4. w \in Wire
  BY <1>1, <1>3 DEF Wire
<1>5. Show(t, tb, w, sto)
  BY DEF ThenRefresh
<1> QED BY <1>4, <1>5, ShowType

LEMMA ClaimType == ASSUME TypeOK, NEW u \in User PROVE claimTableSettings(u) \in Storage
BY DEF claimTableSettings, TypeOK, Storage

LEMMA ClearType == clearTableSettings \in Storage
BY DEF clearTableSettings, Storage, User

(* The three ways an answer ends: a user is taken, a session has expired,  *)
(* or nothing but the request is over.                                     *)
LEMMA EndsType ==
  ASSUME TypeOK, NEW t \in Tabs, NEW i \in 1..MaxRequests, NEW tb \in Tab,
         Adopt(t, i, tb) \/ Expired(t, i, tb) \/ Shrug(t, i, tb)
  PROVE  TypeOK'
<1>1. Without(wire[t], i) \in Wire /\ wire[t][i].me \in MeType
  BY WithoutType, AskedFields
<1>2. [tb EXCEPT !.me = wire[t][i].me] \in Tab /\ wire[t][i].me.user \in User
  BY <1>1 DEF Tab, MeType
<1>3. [tb EXCEPT !.me = NoMe] \in Tab
  BY NoMeType DEF Tab
<1>4. CASE Adopt(t, i, tb)
  <2>1. claimTableSettings(wire[t][i].me.user) \in Storage
    BY <1>2, ClaimType
  <2>2. Show(t, [tb EXCEPT !.me = wire[t][i].me], Without(wire[t], i),
             claimTableSettings(wire[t][i].me.user))
    BY <1>4 DEF Adopt
  <2> QED BY <1>1, <1>2, <2>1, <2>2, ShowType
<1>5. CASE Expired(t, i, tb)
  <2> DEFINE sto == IF tab[t].me.user = Nobody THEN storage ELSE clearTableSettings
  <2>1. sto \in Storage
    BY ClearType DEF TypeOK
  <2>2. Show(t, [tb EXCEPT !.me = NoMe], Without(wire[t], i), sto)
    BY <1>5 DEF Expired
  <2> QED BY <1>1, <1>3, <2>1, <2>2, ShowType
<1>6. CASE Shrug(t, i, tb)
  <2>1. storage \in Storage /\ Show(t, tb, Without(wire[t], i), storage)
    BY <1>6 DEF Shrug, TypeOK
  <2> QED BY <1>1, <2>1, ShowType
<1> QED BY <1>4, <1>5, <1>6

LEMMA IdleType == ASSUME NEW tb \in Tab, NEW r PROVE Idle(tb, r) \in Tab
BY DEF Idle, Tab

(* A page loaded afresh.                                                   *)
LEMMA LoadType ==
  ASSUME TypeOK, NEW t \in Tabs, NEW r \in Routes, NEW f \in Routes,
         tab' = [tab EXCEPT ![t] = [FreshTab(r) EXCEPT !.from = f]]
           \/ tab' = [tab EXCEPT ![t] = FreshTab(r)],
         wire' = [wire EXCEPT ![t] = OnlyProbe]
  PROVE  tab' \in [Tabs -> Tab] /\ wire' \in [Tabs -> Wire]
<1>1. FreshTab(r) \in Tab /\ [FreshTab(r) EXCEPT !.from = f] \in Tab
  BY FreshTabType DEF Tab
<1> QED BY <1>1, OnlyProbeType DEF TypeOK

LEMMA PageType ==
  ASSUME TypeOK, NEW t \in Tabs,
         \/ Reload(t) \/ BackToPassword(t) \/ SetFilter(t)
         \/ \E a \in Accounts : SingleSignOn(t, a)
         \/ \E r \in Routes : Go(t, r)
  PROVE  TypeOK'
<1>1. tab[t] \in Tab /\ tab[t].at \in Routes /\ tab[t].from \in Routes
      /\ tab[t].me.user \in User /\ tab[t].table \in SUBSET User /\ wire[t] \in Wire
  BY DEF TypeOK, Tab, MeType
<1>2. CASE Reload(t)
  <2>1. tab' \in [Tabs -> Tab] /\ wire' \in [Tabs -> Wire]
    BY <1>1, <1>2, LoadType DEF Reload
  <2> QED BY <1>2, <2>1 DEF Reload, TypeOK, Move
<1>3. ASSUME NEW a \in Accounts, SingleSignOn(t, a) PROVE TypeOK'
  <2>1. tab' \in [Tabs -> Tab] /\ wire' \in [Tabs -> Wire]
    BY <1>1, <1>3, LoadType DEF SingleSignOn
  <2>2. cookie' \in [who : User, parked : User]
    BY <1>3 DEF SingleSignOn, User
  <2> QED BY <1>3, <2>1, <2>2 DEF SingleSignOn, TypeOK, Move
<1>4. CASE BackToPassword(t)
  <2>1. tab' \in [Tabs -> Tab]
    BY <1>1, <1>4 DEF BackToPassword, TypeOK, Tab
  <2> QED BY <1>4, <2>1 DEF BackToPassword, TypeOK
<1>5. CASE SetFilter(t)
  <2>1. tab' \in [Tabs -> Tab]
    BY <1>1, <1>5 DEF SetFilter, TypeOK, Tab
  <2>2. storage' \in Storage
    BY <1>1, <1>5 DEF SetFilter, TypeOK, Storage
  <2> QED BY <1>5, <2>1, <2>2 DEF SetFilter, TypeOK
<1>6. ASSUME NEW r \in Routes, Go(t, r) PROVE TypeOK'
  <2> DEFINE there == [tab[t] EXCEPT !.at = r, !.from = "home"]
             new == Rendered(tab[t], there, storage.saved)
  <2>1. there \in Tab
    BY <1>1 DEF Tab, Routes, Guarded
  <2>2. new \in Tab
    BY <2>1, RenderedType DEF TypeOK, Storage
  <2>3. Orphaned(tab[t], new, wire[t]) \in Wire
    BY <1>1, OrphanedType
  <2>4. /\ tab' = [tab EXCEPT ![t] = new]
        /\ wire' = [wire EXCEPT ![t] = Orphaned(tab[t], new, wire[t])]
        /\ UNCHANGED <<cookie, pending, grade, storage, moves>>
    BY <1>6 DEF Go, TypeOK
  <2> QED BY <2>2, <2>3, <2>4 DEF TypeOK
<1> QED BY <1>2, <1>3, <1>4, <1>5, <1>6

(* Every handler that sends.                                               *)
Sends(t) ==
  \/ SubmitCode(t) \/ Logout(t) \/ ReturnToAdmin(t) \/ Join(t) \/ Found(t) \/ SaveProfile(t)
  \/ \E a \in Accounts : SubmitPassword(t, a) \/ Impersonate(t, a) \/ Confirm(t, a)

LEMMA SendsSend ==
  ASSUME NEW t \in Tabs, Sends(t)
  PROVE  \E k \in Kinds, u \in User, then \in {"stay", "home", "households"}, busy \in BOOLEAN :
           /\ k \in {"login", "impersonate", "confirm"} => u \in Accounts
           /\ busy => k \notin {"probe", "logout"} /\ ~tab[t].busy
           /\ Send(t, Request(k, u, then), busy)
<1>1. Accounts \subseteq User /\ Nobody \in User
  BY DEF User
<1>2. CASE SubmitCode(t)
  BY <1>1, <1>2 DEF SubmitCode, MaySubmit, Kinds
<1>3. CASE Logout(t)
  BY <1>1, <1>3 DEF Logout, Kinds
<1>4. CASE ReturnToAdmin(t)
  BY <1>1, <1>4 DEF ReturnToAdmin, Kinds
<1>5. CASE Join(t)
  BY <1>1, <1>5 DEF Join, Kinds
<1>6. CASE Found(t)
  BY <1>1, <1>6 DEF Found, Kinds
<1>7. CASE SaveProfile(t)
  BY <1>1, <1>7 DEF SaveProfile, Kinds
<1>8. CASE \E a \in Accounts : SubmitPassword(t, a)
  BY <1>1, <1>8 DEF SubmitPassword, MaySubmit, Kinds
<1>9. CASE \E a \in Accounts : Impersonate(t, a)
  BY <1>1, <1>9 DEF Impersonate, Kinds
<1>10. CASE \E a \in Accounts : Confirm(t, a)
  BY <1>1, <1>10 DEF Confirm, Kinds
<1> QED BY <1>2, <1>3, <1>4, <1>5, <1>6, <1>7, <1>8, <1>9, <1>10 DEF Sends

LEMMA SendsType == ASSUME TypeOK, NEW t \in Tabs, Sends(t) PROVE TypeOK'
<1>1. PICK k \in Kinds, u \in User, then \in {"stay", "home", "households"}, busy \in BOOLEAN :
        /\ k \in {"login", "impersonate", "confirm"} => u \in Accounts
        /\ Send(t, Request(k, u, then), busy)
  BY SendsSend
<1>2. Request(k, u, then) \in Asked /\ Request(k, u, then).kind = k /\ Request(k, u, then).arg = u
  BY RequestType DEF Request
<1> QED BY <1>1, <1>2, SendType

(* An answer written on a request.                                         *)
LEMMA AnswerType ==
  ASSUME TypeOK, NEW t \in Tabs, NEW i \in 1..MaxRequests,
         \/ \E is \in {"unauthorized", "twofa", "done", "failed"} : Answer(t, i, is)
         \/ \E c \in [who : User, parked : User], g \in Grades : AnswerMe(t, i, c, g)
         \/ wire' = [wire EXCEPT ![t][i].is = "failed", ![t][i].me = NoMe]
  PROVE  wire' \in [Tabs -> Wire]
<1>0. wire \in [Tabs -> Wire] /\ wire[t] \in [1..MaxRequests -> Asked]
  BY DEF TypeOK, Wire
<1>1. wire[t] \in Wire /\ wire[t][i] \in Asked
  BY AskedFields
<1>2. PICK r \in Asked : /\ r.kind = wire[t][i].kind /\ r.arg = wire[t][i].arg
                         /\ wire' = [wire EXCEPT ![t] = [wire[t] EXCEPT ![i] = r]]
  <2>1. ASSUME NEW is \in {"unauthorized", "twofa", "done", "failed"}, Answer(t, i, is)
        PROVE  \E r \in Asked : /\ r.kind = wire[t][i].kind /\ r.arg = wire[t][i].arg
                                /\ wire' = [wire EXCEPT ![t] = [wire[t] EXCEPT ![i] = r]]
    <3>1. [wire[t][i] EXCEPT !.is = is] \in Asked
      BY <1>1 DEF Asked
    <3>2. [wire[t][i] EXCEPT !.is = is].kind = wire[t][i].kind
          /\ [wire[t][i] EXCEPT !.is = is].arg = wire[t][i].arg
      BY <1>1 DEF Asked
    <3>3. wire' = [wire EXCEPT ![t] = [wire[t] EXCEPT ![i] = [wire[t][i] EXCEPT !.is = is]]]
      BY <2>1, <1>0 DEF Answer
    <3> QED BY <3>1, <3>2, <3>3
  <2>2. ASSUME NEW c \in [who : User, parked : User], NEW g \in Grades, AnswerMe(t, i, c, g)
        PROVE  \E r \in Asked : /\ r.kind = wire[t][i].kind /\ r.arg = wire[t][i].arg
                                /\ wire' = [wire EXCEPT ![t] = [wire[t] EXCEPT ![i] = r]]
    <3> DEFINE m == [user |-> c.who, imp |-> c.parked # Nobody, grade |-> g]
               r == [wire[t][i] EXCEPT !.is = "me", !.me = m]
    <3>1. m \in MeType
      BY DEF MeType
    <3>2. r \in Asked /\ r.kind = wire[t][i].kind /\ r.arg = wire[t][i].arg
      BY <1>1, <3>1 DEF Asked
    <3>3. wire' = [wire EXCEPT ![t] = [wire[t] EXCEPT ![i] = r]]
      <4>1. wire' = [wire EXCEPT ![t][i].is = "me", ![t][i].me = m]
        BY <2>2 DEF AnswerMe
      <4> HIDE DEF m
      <4>2. wire' = [wire EXCEPT ![t] = [wire[t] EXCEPT ![i] = [wire[t][i] EXCEPT !.is = "me", !.me = m]]]
        BY <4>1, <1>0
      <4> QED BY <4>2
    <3> QED BY <3>2, <3>3
  <2>3. CASE wire' = [wire EXCEPT ![t][i].is = "failed", ![t][i].me = NoMe]
    <3> DEFINE r == [wire[t][i] EXCEPT !.is = "failed", !.me = NoMe]
    <3>1. r \in Asked /\ r.kind = wire[t][i].kind /\ r.arg = wire[t][i].arg
      BY <1>1, NoMeType DEF Asked
    <3>2. wire' = [wire EXCEPT ![t] = [wire[t] EXCEPT ![i] = r]]
      BY <2>3, <1>0
    <3> QED BY <3>1, <3>2
  <2> QED BY <2>1, <2>2, <2>3
<1>3. [wire[t] EXCEPT ![i] = r] \in Wire
  BY <1>1, <1>2 DEF Wire
<1> QED BY <1>2, <1>3 DEF TypeOK

LEMMA ServeType ==
  ASSUME TypeOK, NEW t \in Tabs, NEW i \in 1..MaxRequests, Serve(t, i)
  PROVE  TypeOK'
<1> DEFINE r == wire[t][i]
<1>1. r \in Asked /\ r.arg \in User
      /\ (r.kind \in {"login", "impersonate", "confirm"} => r.arg \in Accounts)
  BY AskedFields
<1>2. cookie \in [who : User, parked : User] /\ pending \in User /\ grade \in [Accounts -> Grades]
  BY DEF TypeOK
<1>3. Nobody \in User /\ Accounts \subseteq User /\ (\A u \in User : u # Nobody => u \in Accounts)
  BY DEF User
<1>4. NoSession \in [who : User, parked : User]
  BY <1>3 DEF NoSession
<1> DEFINE Answers == \/ \E is \in {"unauthorized", "twofa", "done", "failed"} : Answer(t, i, is)
                      \/ \E c \in [who : User, parked : User], g \in Grades : AnswerMe(t, i, c, g)
           Kept == /\ cookie' \in [who : User, parked : User] /\ pending' \in User
                   /\ grade' \in [Accounts -> Grades]
<1>5. Answers /\ Kept
  <2>1. CASE ServeMe(t, i)
    BY <1>2, <1>3, <2>1 DEF ServeMe
  <2>2. CASE ServeLogin(t, i)
    <3> DEFINE c == [who |-> r.arg, parked |-> Nobody]
    <3>1. r.arg \in Accounts /\ grade[r.arg] \in Grades /\ c \in [who : User, parked : User]
      BY <1>1, <1>2, <1>3, <2>2 DEF ServeLogin
    <3> QED BY <1>2, <1>3, <2>2, <3>1 DEF ServeLogin
  <2>3. CASE ServeVerify(t, i)
    <3> DEFINE c == [who |-> pending, parked |-> Nobody]
    <3>1. c \in [who : User, parked : User]
      BY <1>2, <1>3
    <3> QED BY <1>2, <1>3, <2>3, <3>1 DEF ServeVerify
  <2>4. CASE ServeLogout(t, i)
    BY <1>2, <1>4, <2>4 DEF ServeLogout
  <2>5. CASE ServeImpersonate(t, i)
    <3>1. cookie' \in [who : User, parked : User]
      BY <1>1, <1>2, <1>3, <2>5 DEF ServeImpersonate
    <3> QED BY <1>2, <2>5, <3>1 DEF ServeImpersonate
  <2>6. CASE ServeStop(t, i)
    BY <1>2, <1>3, <1>4, <2>6 DEF ServeStop
  <2>7. CASE ServeConfirm(t, i)
    BY <1>1, <1>2, <2>7 DEF ServeConfirm
  <2>8. CASE ServeWork(t, i)
    <3>1. Answers /\ UNCHANGED <<cookie, pending>>
      BY <2>8 DEF ServeWork
    <3>2. grade' \in [Accounts -> Grades]
      <4> DEFINE reached == CASE r.kind = "join" -> 1 [] r.kind = "found" -> 4 [] OTHER -> 0
      <4>1. reached \in Grades
        BY DEF Grades
      <4>2. \/ UNCHANGED grade
            \/ grade' = [grade EXCEPT ![cookie.who] = IF reached > grade[cookie.who]
                                                      THEN reached ELSE grade[cookie.who]]
        BY <1>2, <2>8 DEF ServeWork
      <4> QED BY <1>2, <4>1, <4>2
    <3> QED BY <1>2, <3>1, <3>2
  <2> QED BY <2>1, <2>2, <2>3, <2>4, <2>5, <2>6, <2>7, <2>8 DEF Serve
<1>6. wire' \in [Tabs -> Wire]
  BY <1>5, AnswerType
<1> QED BY <1>5, <1>6 DEF Serve, TypeOK

LEMMA ReceiveType ==
  ASSUME TypeOK, NEW t \in Tabs, NEW i \in 1..MaxRequests, Receive(t, i)
  PROVE  TypeOK'
<1> DEFINE r == wire[t][i]
           Ends == \E tb \in Tab : Adopt(t, i, tb) \/ Expired(t, i, tb) \/ Shrug(t, i, tb)
           GoesOn == \E tb \in Tab, sto \in Storage : ThenRefresh(t, i, tb, sto)
<1>1. tab[t] \in Tab /\ r \in Asked /\ storage \in Storage /\ r.then \in {"stay", "home", "households"}
  BY AskedFields DEF TypeOK
<1>2. Idle(tab[t], r) \in Tab
  BY <1>1, IdleType
<1>3. CASE ReceiveProbe(t, i)
  <2> DEFINE tb == [tab[t] EXCEPT !.loading = FALSE]
  <2>1. tb \in Tab /\ [tb EXCEPT !.me = NoMe] \in Tab
    BY <1>1, NoMeType DEF Tab
  <2>2. Ends
    BY <1>3, <2>1 DEF ReceiveProbe
  <2> QED BY <2>2, EndsType
<1>4. CASE ReceiveRefresh(t, i)
  <2> DEFINE idle == Idle(tab[t], r)
             tb == [idle EXCEPT !.at = IF r.then = "stay" THEN @ ELSE r.then]
  <2>1. tb \in Tab
    BY <1>1, <1>2 DEF Tab, Routes, Guarded
  <2>2. Ends
    BY <1>4, <2>1 DEF ReceiveRefresh
  <2> QED BY <2>2, EndsType
<1>5. CASE ReceiveLogin(t, i)
  <2>1. [Idle(tab[t], r) EXCEPT !.step = "code"] \in Tab
    BY <1>2 DEF Tab
  <2>2. Ends
    BY <1>2, <1>5, <2>1 DEF ReceiveLogin
  <2> QED BY <2>2, EndsType
<1>6. CASE ReceiveLogout(t, i)
  <2>1. CASE r.is = "done"
    <3>1. [tab[t] EXCEPT !.me = NoMe] \in Tab /\ Without(wire[t], i) \in Wire
      BY <1>1, NoMeType, WithoutType DEF Tab, TypeOK
    <3>2. Show(t, [tab[t] EXCEPT !.me = NoMe], Without(wire[t], i), clearTableSettings)
      BY <1>6, <2>1 DEF ReceiveLogout
    <3> QED BY <3>1, <3>2, ShowType, ClearType
  <2>2. CASE r.is # "done"
    BY <1>1, <1>6, <2>2, EndsType DEF ReceiveLogout
  <2> QED BY <2>1, <2>2
<1>7. CASE ReceiveStop(t, i)
  <2> DEFINE sto == IF tab[t].me.user = Nobody THEN storage ELSE clearTableSettings
  <2>1. [tab[t] EXCEPT !.me = NoMe] \in Tab /\ sto \in Storage
    BY <1>1, NoMeType, ClearType DEF Tab
  <2>2. GoesOn
    BY <1>1, <1>7, <2>1 DEF ReceiveStop
  <2> QED BY <2>2, ThenRefreshType
<1>8. CASE ReceiveWork(t, i)
  <2>1. Ends \/ GoesOn
    BY <1>1, <1>2, <1>8 DEF ReceiveWork
  <2> QED BY <2>1, EndsType, ThenRefreshType
<1> QED BY <1>3, <1>4, <1>5, <1>6, <1>7, <1>8 DEF Receive

LEMMA TypeNext == TypeOK /\ [Next]_vars => TypeOK'
<1> SUFFICES ASSUME TypeOK, [Next]_vars PROVE TypeOK'
  OBVIOUS
<1>1. CASE Lapse
  <2>1. cookie' \in [who : User, parked : User]
    BY <1>1 DEF Lapse, NoSession, User
  <2> QED BY <1>1, <2>1 DEF Lapse, TypeOK, Move
<1>2. ASSUME NEW t \in Tabs, Sends(t) PROVE TypeOK'
  BY <1>2, SendsType
<1>3. ASSUME NEW t \in Tabs,
             \/ Reload(t) \/ BackToPassword(t) \/ SetFilter(t)
             \/ \E a \in Accounts : SingleSignOn(t, a)
             \/ \E r \in Routes : Go(t, r)
      PROVE  TypeOK'
  BY <1>3, PageType
<1>4. ASSUME NEW t \in Tabs, NEW i \in 1..MaxRequests, Serve(t, i) PROVE TypeOK'
  BY <1>4, ServeType
<1>5. ASSUME NEW t \in Tabs, NEW i \in 1..MaxRequests, Fail(t, i) PROVE TypeOK'
  <2>1. wire' \in [Tabs -> Wire]
    BY <1>5, AnswerType DEF Fail
  <2> QED BY <1>5, <2>1 DEF Fail, TypeOK
<1>6. ASSUME NEW t \in Tabs, NEW i \in 1..MaxRequests, Receive(t, i) PROVE TypeOK'
  BY <1>6, ReceiveType
<1>7. CASE UNCHANGED vars
  BY <1>7 DEF TypeOK, vars
<1> QED BY <1>1, <1>2, <1>3, <1>4, <1>5, <1>6, <1>7 DEF Next, Sends

(* Accounts, answers and what is on the screen stay what they should be.   *)
THEOREM TypeCorrect == Spec => []TypeOK
BY TypeInit, TypeNext, PTL DEF Spec

-----------------------------------------------------------------------------
(* The sidebar                                                             *)

(* The links of the sidebar are the pages the guards let the user see.     *)
THEOREM NavLeadsThereAlways == Spec => []NavLeadsThere
<1>1. ASSUME NEW me
      PROVE  NavItems(me) = {r \in Guarded : AfterGuard(me, r) = r}
  BY DEF NavItems, Guarded, TablePages, AfterGuard, Allowed, RequireRole, RequireOwner,
         RequireAdmin, hasRoleSomewhere, ownsAnyHousehold
<1>2. NavLeadsThere
  BY <1>1 DEF NavLeadsThere
<1> QED BY <1>2, PTL

-----------------------------------------------------------------------------
(* What tables remember                                                    *)

(* With one tab, whoever is on the screen owns what is stored, and nobody  *)
(* else has written to it.                                                 *)
Owned ==
  /\ storage.saved \subseteq {storage.owner}
  /\ \A t \in Tabs : tab[t].me.user # Nobody => storage.owner = tab[t].me.user

TInv == TypeOK /\ Owned /\ TablesStayWithTheirAccount

LEMMA LandedKeeps ==
  ASSUME NEW tb \in Tab
  PROVE  /\ Landed(tb).me = tb.me /\ Landed(tb).table = tb.table
         /\ Landed(tb).busy = tb.busy /\ Landed(tb).loading = tb.loading
BY DEF Landed, VisitorLands, UserLands, Tab

(* A page comes up with what is stored or goes on with what it had.        *)
LEMMA RenderedTable ==
  ASSUME NEW old \in Tab, NEW tb \in Tab, NEW saved \in SUBSET User,
         old.table \subseteq {old.me.user}, tb.table = old.table,
         tb.me.user # Nobody => saved \subseteq {tb.me.user}
  PROVE  /\ Rendered(old, tb, saved).me = tb.me
         /\ Rendered(old, tb, saved).table \subseteq {tb.me.user}
<1> DEFINE new == Landed(tb)
<1>1. new \in Tab /\ new.me = tb.me /\ new.table = tb.table
  BY LandedType, LandedKeeps
<1>2. CASE PageKey(new) = PageKey(old)
  <2>1. new.me.user = old.me.user
    BY <1>2 DEF PageKey
  <2> QED BY <1>1, <1>2, <2>1 DEF Rendered
<1>3. CASE PageKey(new) # PageKey(old)
  BY <1>1, <1>3 DEF Rendered, SignedIn, Tab
<1> QED BY <1>2, <1>3

LEMMA ShowOwned ==
  ASSUME NEW t0, Tabs = {t0}, TInv, TypeOK', NEW tb \in Tab, NEW w, NEW sto \in Storage,
         tb.table = tab[t0].table, sto.saved \subseteq {sto.owner},
         tb.me.user # Nobody => sto.owner = tb.me.user,
         Show(t0, tb, w, sto)
  PROVE  TInv'
<1> DEFINE new == Rendered(tab[t0], tb, sto.saved)
<1>1. tab[t0] \in Tab /\ tab[t0].table \subseteq {tab[t0].me.user}
  BY DEF TInv, TypeOK, TablesStayWithTheirAccount
<1>2. new.me = tb.me /\ new.table \subseteq {tb.me.user}
  BY <1>1, RenderedTable DEF Storage
<1>3. tab'[t0] = new /\ storage' = sto
  BY DEF Show, TInv, TypeOK
<1> QED BY <1>2, <1>3 DEF TInv, Owned, TablesStayWithTheirAccount

(* The ways an answer ends, for a tab that holds whom it held or nobody.   *)
LEMMA EndsOwned ==
  ASSUME NEW t0, Tabs = {t0}, TInv, TypeOK', NEW i \in 1..MaxRequests, NEW tb \in Tab,
         tb.table = tab[t0].table, tb.me = tab[t0].me \/ tb.me = NoMe,
         \/ Adopt(t0, i, tb) \/ Expired(t0, i, tb) \/ Shrug(t0, i, tb)
         \/ ThenRefresh(t0, i, tb, storage)
         \/ /\ tb.me = NoMe
            /\ \E w : Show(t0, tb, w, clearTableSettings)
         \/ /\ tb.me = NoMe
            /\ ThenRefresh(t0, i, tb, IF tab[t0].me.user = Nobody THEN storage ELSE clearTableSettings)
  PROVE  TInv'
<1> DEFINE sto == IF tab[t0].me.user = Nobody THEN storage ELSE clearTableSettings
           me == wire[t0][i].me
<1>1. /\ storage \in Storage /\ storage.saved \subseteq {storage.owner}
      /\ tab[t0].me.user # Nobody => storage.owner = tab[t0].me.user
      /\ me \in MeType /\ me.user \in User /\ NoMe \in MeType
  BY NoMeType DEF TInv, Owned, TypeOK, Wire, Asked, MeType
<1>2. sto \in Storage /\ sto.saved \subseteq {sto.owner}
      /\ clearTableSettings \in Storage
      /\ clearTableSettings.saved \subseteq {clearTableSettings.owner}
  BY <1>1, ClearType DEF clearTableSettings
<1>3. NoMe.user = Nobody
  BY DEF NoMe
<1>4. CASE Adopt(t0, i, tb)
  <2>1. claimTableSettings(me.user) \in Storage
        /\ claimTableSettings(me.user).owner = me.user
        /\ claimTableSettings(me.user).saved \subseteq {me.user}
    BY <1>1, ClaimType DEF TInv, claimTableSettings
  <2>2. [tb EXCEPT !.me = me] \in Tab /\ [tb EXCEPT !.me = me].me = me
        /\ [tb EXCEPT !.me = me].table = tb.table
    BY <1>1 DEF Tab
  <2>3. Show(t0, [tb EXCEPT !.me = me], Without(wire[t0], i), claimTableSettings(me.user))
    BY <1>4 DEF Adopt
  <2> QED BY <2>1, <2>2, <2>3, ShowOwned
<1>5. CASE Expired(t0, i, tb)
  <2>1. [tb EXCEPT !.me = NoMe] \in Tab /\ [tb EXCEPT !.me = NoMe].me = NoMe
        /\ [tb EXCEPT !.me = NoMe].table = tb.table
    BY <1>1 DEF Tab
  <2>2. Show(t0, [tb EXCEPT !.me = NoMe], Without(wire[t0], i), sto)
    BY <1>5 DEF Expired
  <2> QED BY <1>2, <1>3, <2>1, <2>2, ShowOwned
<1>6. ASSUME NEW w, Show(t0, tb, w, storage) PROVE TInv'
  BY <1>1, <1>3, <1>6, ShowOwned
<1>7. ASSUME tb.me = NoMe, NEW w, NEW s \in {sto, clearTableSettings}, Show(t0, tb, w, s) PROVE TInv'
  BY <1>2, <1>3, <1>7, ShowOwned
<1> QED BY <1>4, <1>5, <1>6, <1>7 DEF Shrug, ThenRefresh

LEMMA ReceiveOwned ==
  ASSUME NEW t0, Tabs = {t0}, TInv, TypeOK', NEW i \in 1..MaxRequests, Receive(t0, i)
  PROVE  TInv'
<1> DEFINE r == wire[t0][i]
           Kept == {tb \in Tab : tb.table = tab[t0].table /\ (tb.me = tab[t0].me \/ tb.me = NoMe)}
           idle == Idle(tab[t0], r)
           out == [tab[t0] EXCEPT !.me = NoMe]
           Ends == \E tb \in Kept : \/ Adopt(t0, i, tb) \/ Expired(t0, i, tb) \/ Shrug(t0, i, tb)
                                   \/ ThenRefresh(t0, i, tb, storage)
<1>1. tab[t0] \in Tab /\ r \in Asked /\ r.then \in {"stay", "home", "households"}
  BY DEF TInv, TypeOK, Wire, Asked
<1>2. tab[t0] \in Kept /\ idle \in Kept
  BY <1>1, IdleType DEF Idle, Tab
<1>3. out \in Kept /\ out.me = NoMe
  BY <1>1, NoMeType DEF Tab
<1>4. Ends => TInv'
  BY EndsOwned
<1>5. CASE ReceiveProbe(t0, i)
  <2> DEFINE tb == [tab[t0] EXCEPT !.loading = FALSE]
  <2>1. tb \in Kept /\ [tb EXCEPT !.me = NoMe] \in Kept
    BY <1>1, NoMeType DEF Tab
  <2> QED BY <1>4, <1>5, <2>1 DEF ReceiveProbe
<1>6. CASE ReceiveRefresh(t0, i)
  <2> DEFINE tb == [idle EXCEPT !.at = IF r.then = "stay" THEN @ ELSE r.then]
  <2>1. tb \in Kept
    BY <1>1, <1>2 DEF Tab, Routes, Guarded
  <2> QED BY <1>4, <1>6, <2>1 DEF ReceiveRefresh
<1>7. CASE ReceiveLogin(t0, i)
  <2>1. [idle EXCEPT !.step = "code"] \in Kept
    BY <1>2 DEF Tab
  <2> QED BY <1>2, <1>4, <1>7, <2>1 DEF ReceiveLogin
<1>8. CASE ReceiveLogout(t0, i)
  <2>1. Ends \/ \E w : Show(t0, out, w, clearTableSettings)
    BY <1>2, <1>8 DEF ReceiveLogout
  <2> QED BY <1>3, <1>4, <2>1, EndsOwned
<1>9. CASE ReceiveStop(t0, i)
  <2>1. \/ Ends
        \/ ThenRefresh(t0, i, out, IF tab[t0].me.user = Nobody THEN storage ELSE clearTableSettings)
    BY <1>2, <1>9 DEF ReceiveStop
  <2> QED BY <1>3, <1>4, <2>1, EndsOwned
<1>10. CASE ReceiveWork(t0, i)
  BY <1>2, <1>4, <1>10 DEF ReceiveWork
<1> QED BY <1>5, <1>6, <1>7, <1>8, <1>9, <1>10 DEF Receive

(* Sending changes no table and nobody on the screen.                      *)
LEMMA SendsKeep ==
  ASSUME TypeOK, NEW t \in Tabs, Sends(t)
  PROVE  /\ storage' = storage
         /\ \A s \in Tabs : tab'[s].me = tab[s].me /\ tab'[s].table = tab[s].table
<1>1. PICK k \in Kinds, u \in User, then \in {"stay", "home", "households"}, busy \in BOOLEAN :
        Send(t, Request(k, u, then), busy)
  BY SendsSend
<1> QED BY <1>1 DEF Send, TypeOK, Tab

LEMMA OwnedNext ==
  ASSUME NEW t0, Tabs = {t0}
  PROVE  TInv /\ [Next]_vars => TInv'
<1> SUFFICES ASSUME TInv, [Next]_vars PROVE TInv'
  OBVIOUS
<1>1. TypeOK'
  BY TypeNext DEF TInv
<1>2. /\ TypeOK /\ tab[t0] \in Tab /\ tab[t0].table \subseteq {tab[t0].me.user}
      /\ storage \in Storage /\ storage.saved \subseteq {storage.owner}
      /\ tab[t0].me.user # Nobody => storage.owner = tab[t0].me.user
  BY DEF TInv, TypeOK, Owned, TablesStayWithTheirAccount
<1>3. ASSUME storage' = storage, tab'[t0].me = tab[t0].me, tab'[t0].table = tab[t0].table
      PROVE  TInv'
  BY <1>1, <1>2, <1>3 DEF TInv, Owned, TablesStayWithTheirAccount
<1>4. ASSUME storage' = storage, tab'[t0].me = NoMe, tab'[t0].table = {} PROVE TInv'
  BY <1>1, <1>2, <1>4 DEF TInv, Owned, TablesStayWithTheirAccount, NoMe
<1>5. CASE Lapse \/ UNCHANGED vars \/ \E i \in 1..MaxRequests : Serve(t0, i) \/ Fail(t0, i)
  <2>1. storage' = storage /\ tab' = tab
    BY <1>5 DEF Lapse, vars, Serve, Fail
  <2> QED BY <1>3, <2>1
<1>6. CASE Sends(t0)
  BY <1>2, <1>3, <1>6, SendsKeep
<1>7. CASE Reload(t0) \/ \E a \in Accounts : SingleSignOn(t0, a)
  <2>1. storage' = storage /\ tab'[t0].me = NoMe /\ tab'[t0].table = {}
    BY <1>2, <1>7 DEF Reload, SingleSignOn, FreshTab, TypeOK
  <2> QED BY <1>4, <2>1
<1>8. CASE BackToPassword(t0)
  <2>1. storage' = storage /\ tab'[t0].me = tab[t0].me /\ tab'[t0].table = tab[t0].table
    BY <1>2, <1>8 DEF BackToPassword, TypeOK, Tab
  <2> QED BY <1>3, <2>1
<1>9. CASE SetFilter(t0)
  <2> DEFINE u == tab[t0].me.user
  <2>1. /\ u # Nobody
        /\ tab'[t0].me = tab[t0].me /\ tab'[t0].table = tab[t0].table \cup {u}
        /\ storage'.owner = storage.owner
        /\ storage'.saved = storage.saved \cup tab[t0].table \cup {u}
    BY <1>2, <1>9 DEF SetFilter, SignedIn, TypeOK, Tab, Storage
  <2> QED BY <1>1, <1>2, <2>1 DEF TInv, Owned, TablesStayWithTheirAccount
<1>10. ASSUME NEW r \in Routes, Go(t0, r) PROVE TInv'
  <2> DEFINE there == [tab[t0] EXCEPT !.at = r, !.from = "home"]
             new == Rendered(tab[t0], there, storage.saved)
  <2>1. there \in Tab /\ there.me = tab[t0].me /\ there.table = tab[t0].table
    BY <1>2 DEF Tab, Routes, Guarded
  <2>2. storage.saved \in SUBSET User
        /\ (there.me.user # Nobody => storage.saved \subseteq {there.me.user})
    BY <1>2, <2>1 DEF Storage
  <2>3. new.me = tab[t0].me /\ new.table \subseteq {tab[t0].me.user}
    <3>1. new.me = there.me /\ new.table \subseteq {there.me.user}
      BY <1>2, <2>1, <2>2, RenderedTable
    <3> QED BY <2>1, <3>1
  <2>4. tab'[t0] = new /\ storage' = storage
    BY <1>2, <1>10 DEF Go, TypeOK
  <2> QED BY <1>1, <1>2, <2>3, <2>4 DEF TInv, Owned, TablesStayWithTheirAccount
<1>11. ASSUME NEW i \in 1..MaxRequests, Receive(t0, i) PROVE TInv'
  BY <1>1, <1>11, ReceiveOwned
<1> QED BY <1>5, <1>6, <1>7, <1>8, <1>9, <1>10, <1>11 DEF Next, Sends

(* In a browser with one tab, a table never holds what another account set,*)
(* whoever signs in, out, as somebody else or back, in any order.          *)
THEOREM TablesStayAlways ==
  ASSUME NEW t0, Tabs = {t0}
  PROVE  Spec => []TablesStayWithTheirAccount
<1>1. Init => TInv
  BY TypeInit DEF Init, TInv, Owned, TablesStayWithTheirAccount, FreshTab, NoMe
<1>2. TInv => TablesStayWithTheirAccount
  BY DEF TInv
<1> QED BY <1>1, <1>2, OwnedNext, PTL DEF Spec

-----------------------------------------------------------------------------
(* One attempt at a time                                                   *)

(* A page waits for one request at most, one whose answer frees the page,  *)
(* and is disabled exactly while it does.                                  *)
Awaited(w, busy) ==
  /\ \A i \in 1..MaxRequests : w[i].live => w[i].is # "idle" /\ w[i].kind \notin {"probe", "logout"}
  /\ \A i, j \in 1..MaxRequests : w[i].live /\ w[j].live => i = j
  /\ busy <=> \E i \in 1..MaxRequests : w[i].live

AInv == TypeOK /\ \A t \in Tabs : Awaited(wire[t], tab[t].busy)

LEMMA OnlyProbeAwaited == OnlyProbe \in Wire /\ Awaited(OnlyProbe, FALSE)
<1>1. \A i \in DOMAIN OnlyProbe : i \in 1..MaxRequests /\ OnlyProbe[i].live = FALSE
  BY DEF OnlyProbe, With, Request, NoRequest
<1>2. DOMAIN OnlyProbe = 1..MaxRequests
  BY DEF OnlyProbe, With
<1> QED BY <1>1, <1>2, OnlyProbeType DEF Awaited

(* What a tab whose requests and page are as they should be adds up to.    *)
LEMMA OneTabOver ==
  ASSUME AInv, TypeOK', NEW t \in Tabs, NEW w, NEW tb,
         wire' = [wire EXCEPT ![t] = w], tab' = [tab EXCEPT ![t] = tb], Awaited(w, tb.busy)
  PROVE  AInv'
<1> SUFFICES ASSUME NEW s \in Tabs PROVE Awaited(wire'[s], tab'[s].busy)
  BY DEF AInv, Awaited
<1>1. CASE s = t
  BY <1>1 DEF AInv, TypeOK
<1>2. CASE s # t
  <2>1. wire'[s] = wire[s] /\ tab'[s] = tab[s]
    BY <1>2 DEF AInv, TypeOK
  <2> QED BY <2>1 DEF AInv
<1> QED BY <1>1, <1>2

LEMMA RenderedAwaited ==
  ASSUME NEW old \in Tab, NEW tb \in Tab, NEW saved \in SUBSET User, NEW w \in Wire,
         Awaited(w, tb.busy)
  PROVE  Awaited(Orphaned(old, Rendered(old, tb, saved), w), Rendered(old, tb, saved).busy)
<1> DEFINE new == Landed(tb)
           out == Rendered(old, tb, saved)
           over == Orphaned(old, out, w)
<1>1. new \in Tab /\ new.busy = tb.busy
  BY LandedType, LandedKeeps
<1>2. CASE PageKey(new) = PageKey(old)
  <2>1. out = new
    BY <1>2 DEF Rendered
  <2>2. over = w
    BY <1>2, <2>1 DEF Orphaned
  <2> QED BY <1>1, <2>1, <2>2
<1>3. CASE PageKey(new) # PageKey(old)
  <2>1. out = [new EXCEPT !.step = "password", !.busy = FALSE,
                          !.table = IF SignedIn(new) /\ new.at \in TablePages THEN saved ELSE {}]
    BY <1>3 DEF Rendered
  <2>2. out.busy = FALSE /\ PageKey(out) = PageKey(new)
    BY <1>1, <2>1 DEF Tab, PageKey
  <2>3. over = [i \in DOMAIN w |-> [w[i] EXCEPT !.live = FALSE]]
    BY <1>3, <2>2 DEF Orphaned
  <2>4. \A i \in 1..MaxRequests : over[i].live = FALSE
    <3> SUFFICES ASSUME NEW i \in 1..MaxRequests PROVE over[i].live = FALSE
      OBVIOUS
    <3>1. i \in DOMAIN w /\ w[i] \in Asked
      BY DEF Wire
    <3>2. over[i] = [w[i] EXCEPT !.live = FALSE]
      BY <2>3, <3>1
    <3> QED BY <3>1, <3>2 DEF Asked
  <2> QED BY <2>2, <2>4 DEF Awaited
<1> QED BY <1>2, <1>3

LEMMA ShowAwaited ==
  ASSUME AInv, TypeOK', NEW t \in Tabs, NEW tb \in Tab, NEW w \in Wire, NEW sto \in Storage,
         Awaited(w, tb.busy), Show(t, tb, w, sto)
  PROVE  AInv'
<1> DEFINE new == Rendered(tab[t], tb, sto.saved)
<1>1. tab[t] \in Tab /\ sto.saved \in SUBSET User
  BY DEF AInv, TypeOK, Storage
<1>2. Awaited(Orphaned(tab[t], new, w), new.busy)
  BY <1>1, RenderedAwaited
<1>3. wire' = [wire EXCEPT ![t] = Orphaned(tab[t], new, w)] /\ tab' = [tab EXCEPT ![t] = new]
  BY DEF Show
<1> QED BY <1>2, <1>3, OneTabOver

(* The request is over, and what it kept disabled is free again.           *)
LEMMA WithoutAwaited ==
  ASSUME NEW w \in Wire, NEW i \in 1..MaxRequests, NEW b \in BOOLEAN, Awaited(w, b)
  PROVE  Awaited(Without(w, i), IF w[i].live THEN FALSE ELSE b)
<1>1. w \in [1..MaxRequests -> Asked] /\ \A j \in 1..MaxRequests : w[j].live \in BOOLEAN
  BY DEF Wire, Asked
<1>2. /\ Without(w, i)[i].live = FALSE
      /\ \A j \in 1..MaxRequests : j # i => Without(w, i)[j] = w[j]
  BY <1>1 DEF Without, NoRequest
<1> QED BY <1>1, <1>2 DEF Awaited

LEMMA ThenRefreshAwaited ==
  ASSUME AInv, TypeOK', NEW t \in Tabs, NEW i \in 1..MaxRequests, NEW tb \in Tab,
         NEW sto \in Storage, tb.busy = tab[t].busy, ThenRefresh(t, i, tb, sto)
  PROVE  AInv'
<1> DEFINE r == wire[t][i]
           q == [Request("refresh", Nobody, r.then) EXCEPT !.live = r.live]
           w == [wire[t] EXCEPT ![i] = q]
<1>1. wire[t] \in Wire /\ r \in Asked /\ Awaited(wire[t], tab[t].busy)
      /\ wire[t] \in [1..MaxRequests -> Asked]
  BY DEF AInv, TypeOK, Wire
<1>2. q.live = r.live /\ q.is = "sent" /\ q.kind = "refresh"
  BY DEF Request
<1>3. q \in Asked
  <2>1. Request("refresh", Nobody, r.then) \in Asked
    BY <1>1, RequestType DEF Kinds, User, Asked
  <2> QED BY <1>1, <2>1 DEF Asked
<1>4. w \in Wire
  BY <1>1, <1>2, <1>3 DEF Wire
<1>5. \A j \in 1..MaxRequests : w[j] = IF j = i THEN q ELSE wire[t][j]
  BY <1>1
<1>6. Awaited(w, tb.busy)
  BY <1>1, <1>2, <1>5 DEF Awaited
<1>7. Show(t, tb, w, sto)
  BY DEF ThenRefresh
<1> QED BY <1>4, <1>6, <1>7, ShowAwaited

LEMMA EndsAwaited ==
  ASSUME AInv, TypeOK', NEW t \in Tabs, NEW i \in 1..MaxRequests, NEW tb \in Tab,
         tb.busy = IF wire[t][i].live THEN FALSE ELSE tab[t].busy,
         \/ Adopt(t, i, tb) \/ Expired(t, i, tb) \/ Shrug(t, i, tb)
         \/ Show(t, tb, Without(wire[t], i), clearTableSettings)
  PROVE  AInv'
<1>1. /\ wire[t] \in Wire /\ wire[t][i].me \in MeType /\ tab[t].busy \in BOOLEAN
      /\ storage \in Storage /\ wire[t][i].me.user \in User
  <2>1. wire[t] \in Wire /\ tab[t] \in Tab /\ storage \in Storage
    BY DEF AInv, TypeOK
  <2>2. wire[t][i].me \in MeType
    BY <2>1 DEF Wire, Asked
  <2> QED BY <2>1, <2>2 DEF Tab, MeType
<1>2. Awaited(wire[t], tab[t].busy)
  BY DEF AInv
<1>3. Without(wire[t], i) \in Wire /\ Awaited(Without(wire[t], i), tb.busy)
  BY <1>1, <1>2, WithoutType, WithoutAwaited
<1>4. \A me \in MeType : [tb EXCEPT !.me = me] \in Tab /\ [tb EXCEPT !.me = me].busy = tb.busy
  BY DEF Tab
<1>5. claimTableSettings(wire[t][i].me.user) \in Storage /\ clearTableSettings \in Storage
      /\ NoMe \in MeType
  BY <1>1, ClaimType, ClearType, NoMeType DEF AInv
<1>6. PICK u \in Tab, sto \in Storage : u.busy = tb.busy /\ Show(t, u, Without(wire[t], i), sto)
  BY <1>1, <1>4, <1>5 DEF Adopt, Expired, Shrug
<1> QED BY <1>3, <1>6, ShowAwaited

LEMMA ReceiveAwaited ==
  ASSUME AInv, TypeOK', NEW t \in Tabs, NEW i \in 1..MaxRequests, Receive(t, i)
  PROVE  AInv'
<1> DEFINE r == wire[t][i]
           idle == Idle(tab[t], r)
           Freed == {tb \in Tab : tb.busy = IF r.live THEN FALSE ELSE tab[t].busy}
           Ends == \E tb \in Freed : \/ Adopt(t, i, tb) \/ Expired(t, i, tb) \/ Shrug(t, i, tb)
                                    \/ Show(t, tb, Without(wire[t], i), clearTableSettings)
           GoesOn == \E tb \in Tab, sto \in Storage : tb.busy = tab[t].busy /\ ThenRefresh(t, i, tb, sto)
<1>1. /\ tab[t] \in Tab /\ r \in Asked /\ r.then \in {"stay", "home", "households"}
      /\ storage \in Storage /\ clearTableSettings \in Storage
      /\ r.live => r.kind \notin {"probe", "logout"}
  <2>1. r.live => r.kind \notin {"probe", "logout"}
    BY DEF AInv, Awaited
  <2>2. wire[t] \in Wire /\ tab[t] \in Tab /\ storage \in Storage
    BY DEF AInv, TypeOK
  <2> QED BY <2>1, <2>2, ClearType DEF Wire, Asked
<1>2. idle \in Freed
  BY <1>1, IdleType DEF Idle, Tab
<1>3. Ends \/ GoesOn => AInv'
  BY EndsAwaited, ThenRefreshAwaited
<1>4. CASE ReceiveProbe(t, i)
  <2> DEFINE tb == [tab[t] EXCEPT !.loading = FALSE]
  <2>1. tb \in Freed /\ [tb EXCEPT !.me = NoMe] \in Freed
    BY <1>1, <1>4, NoMeType DEF Tab, ReceiveProbe
  <2> QED BY <1>3, <1>4, <2>1 DEF ReceiveProbe
<1>5. CASE ReceiveRefresh(t, i)
  <2> DEFINE tb == [idle EXCEPT !.at = IF r.then = "stay" THEN @ ELSE r.then]
  <2>1. tb \in Freed
    BY <1>1, <1>2 DEF Tab, Routes, Guarded
  <2> QED BY <1>3, <1>5, <2>1 DEF ReceiveRefresh
<1>6. CASE ReceiveLogin(t, i)
  <2>1. [idle EXCEPT !.step = "code"] \in Freed
    BY <1>2 DEF Tab
  <2> QED BY <1>2, <1>3, <1>6, <2>1 DEF ReceiveLogin
<1>7. CASE ReceiveLogout(t, i)
  <2>1. tab[t] \in Freed /\ [tab[t] EXCEPT !.me = NoMe] \in Freed
    BY <1>1, <1>7, NoMeType DEF Tab, ReceiveLogout
  <2> QED BY <1>3, <1>7, <2>1 DEF ReceiveLogout
<1>8. CASE ReceiveStop(t, i)
  <2>1. [tab[t] EXCEPT !.me = NoMe] \in Tab /\ [tab[t] EXCEPT !.me = NoMe].busy = tab[t].busy
    BY <1>1, NoMeType DEF Tab
  <2>2. GoesOn
    BY <1>1, <1>8, <2>1 DEF ReceiveStop
  <2> QED BY <1>3, <2>2
<1>9. CASE ReceiveWork(t, i)
  <2>1. Ends \/ GoesOn
    BY <1>1, <1>2, <1>9 DEF ReceiveWork
  <2> QED BY <1>3, <2>1
<1> QED BY <1>4, <1>5, <1>6, <1>7, <1>8, <1>9 DEF Receive

(* A handler whose page is not disabled finds no request awaited.          *)
LEMMA SendsAwaited ==
  ASSUME AInv, TypeOK', NEW t \in Tabs, Sends(t)
  PROVE  AInv'
<1>1. PICK k \in Kinds, u \in User, then \in {"stay", "home", "households"}, busy \in BOOLEAN :
        /\ busy => k \notin {"probe", "logout"} /\ ~tab[t].busy
        /\ Send(t, Request(k, u, then), busy)
  BY SendsSend
<1> DEFINE q == [Request(k, u, then) EXCEPT !.live = busy]
           w == With(wire[t], q)
           tb == [tab[t] EXCEPT !.busy = @ \/ busy]
           n == CHOOSE i \in DOMAIN wire[t] : wire[t][i].is = "idle"
<1>2. /\ q.live = busy /\ q.is = "sent" /\ q.kind = k
  BY DEF Request
<1>3. /\ wire[t] \in [1..MaxRequests -> Asked] /\ DOMAIN wire[t] = 1..MaxRequests
      /\ tab[t] \in Tab /\ Awaited(wire[t], tab[t].busy)
      /\ \A i \in 1..MaxRequests : wire[t][i].live \in BOOLEAN
  <2>1. TypeOK /\ wire[t] \in Wire /\ tab[t] \in Tab
    BY DEF AInv, TypeOK
  <2>2. Awaited(wire[t], tab[t].busy)
    BY DEF AInv
  <2>3. wire[t] \in [1..MaxRequests -> Asked] /\ \A r \in Asked : r.live \in BOOLEAN
    BY <2>1 DEF Wire, Asked
  <2> QED BY <2>1, <2>2, <2>3
<1>4. n \in 1..MaxRequests /\ wire[t][n].is = "idle"
  <2>1. \E i \in DOMAIN wire[t] : wire[t][i].is = "idle"
    BY <1>1, <1>3 DEF Send, Free, InFlight
  <2> QED BY <1>3, <2>1
<1>5. wire[t][n].live = FALSE
  BY <1>3, <1>4 DEF Awaited
<1>6. \A i \in 1..MaxRequests : w[i] = IF i = n THEN q ELSE wire[t][i]
  BY <1>3, <1>4 DEF With
<1>7. tb.busy = (tab[t].busy \/ busy)
  BY <1>3 DEF Tab
<1>8. Awaited(w, tb.busy)
  <2>1. CASE busy
    <3>1. tb.busy /\ ~tab[t].busy /\ k \notin {"probe", "logout"}
      BY <1>1, <1>7, <2>1
    <3>2. \A i \in 1..MaxRequests : ~wire[t][i].live
      BY <1>3, <3>1 DEF Awaited
    <3>3. \A i \in 1..MaxRequests : w[i].live => i = n /\ w[i] = q
      BY <1>6, <3>2
    <3>4. w[n] = q /\ q.live /\ q.is # "idle" /\ q.kind \notin {"probe", "logout"}
      BY <1>2, <1>4, <1>6, <2>1, <3>1
    <3> QED BY <1>4, <3>1, <3>3, <3>4 DEF Awaited
  <2>2. CASE ~busy
    BY <1>2, <1>3, <1>4, <1>5, <1>6, <1>7, <2>2 DEF Awaited
  <2> QED BY <2>1, <2>2
<1>9. wire' = [wire EXCEPT ![t] = w] /\ tab' = [tab EXCEPT ![t] = tb]
  BY <1>1, <1>3 DEF Send, AInv, TypeOK
<1> QED BY <1>8, <1>9, OneTabOver

(* The server, or the network, changes what a request is, not whose.       *)
LEMMA AnsweredAwaited ==
  ASSUME AInv, TypeOK', NEW t \in Tabs, NEW i \in 1..MaxRequests, Serve(t, i) \/ Fail(t, i)
  PROVE  AInv'
<1>1. wire[t] \in [1..MaxRequests -> Asked] /\ wire \in [Tabs -> Wire]
  BY DEF AInv, TypeOK, Wire
<1>2. \E r : /\ r.live = wire[t][i].live /\ r.kind = wire[t][i].kind /\ r.is # "idle"
             /\ wire' = [wire EXCEPT ![t] = [wire[t] EXCEPT ![i] = r]]
  <2>1. ASSUME NEW is \in {"unauthorized", "twofa", "done", "failed"}, Answer(t, i, is)
        PROVE  \E r : /\ r.live = wire[t][i].live /\ r.kind = wire[t][i].kind /\ r.is # "idle"
                      /\ wire' = [wire EXCEPT ![t] = [wire[t] EXCEPT ![i] = r]]
    <3> DEFINE r == [wire[t][i] EXCEPT !.is = is]
    <3>1. r.live = wire[t][i].live /\ r.kind = wire[t][i].kind /\ r.is # "idle"
      BY <1>1 DEF Asked
    <3>2. wire' = [wire EXCEPT ![t] = [wire[t] EXCEPT ![i] = r]]
      BY <1>1, <2>1 DEF Answer
    <3> QED BY <3>1, <3>2
  <2>2. ASSUME NEW c, NEW g, AnswerMe(t, i, c, g)
        PROVE  \E r : /\ r.live = wire[t][i].live /\ r.kind = wire[t][i].kind /\ r.is # "idle"
                      /\ wire' = [wire EXCEPT ![t] = [wire[t] EXCEPT ![i] = r]]
    <3> DEFINE r == [wire[t][i] EXCEPT !.is = "me",
                       !.me = [user |-> c.who, imp |-> c.parked # Nobody, grade |-> g]]
    <3>1. r.live = wire[t][i].live /\ r.kind = wire[t][i].kind /\ r.is # "idle"
      BY <1>1 DEF Asked
    <3>2. wire' = [wire EXCEPT ![t] = [wire[t] EXCEPT ![i] = r]]
      BY <1>1, <2>2 DEF AnswerMe, Wire
    <3> QED BY <3>1, <3>2
  <2>3. CASE Fail(t, i)
    <3> DEFINE r == [wire[t][i] EXCEPT !.is = "failed", !.me = NoMe]
    <3>1. r.live = wire[t][i].live /\ r.kind = wire[t][i].kind /\ r.is # "idle"
      BY <1>1 DEF Asked
    <3>2. wire' = [wire EXCEPT ![t] = [wire[t] EXCEPT ![i] = r]]
      BY <1>1, <2>3 DEF Fail, Wire
    <3> QED BY <3>1, <3>2
  <2>4. CASE Serve(t, i)
    <3>1. \/ \E is \in {"unauthorized", "twofa", "done", "failed"} : Answer(t, i, is)
          \/ \E c, g : AnswerMe(t, i, c, g)
      <4>1. CASE ServeMe(t, i) \/ ServeLogin(t, i) \/ ServeVerify(t, i)
        BY <4>1 DEF ServeMe, ServeLogin, ServeVerify
      <4>2. CASE ServeLogout(t, i) \/ ServeImpersonate(t, i) \/ ServeStop(t, i)
        BY <4>2 DEF ServeLogout, ServeImpersonate, ServeStop
      <4>3. CASE ServeConfirm(t, i) \/ ServeWork(t, i)
        BY <4>3 DEF ServeConfirm, ServeWork
      <4> QED BY <2>4, <4>1, <4>2, <4>3 DEF Serve
    <3> QED BY <2>1, <2>2, <3>1
  <2> QED BY <2>3, <2>4
<1>3. PICK r : /\ r.live = wire[t][i].live /\ r.kind = wire[t][i].kind /\ r.is # "idle"
               /\ wire' = [wire EXCEPT ![t] = [wire[t] EXCEPT ![i] = r]]
  BY <1>2
<1> DEFINE w == [wire[t] EXCEPT ![i] = r]
<1>4. \A j \in 1..MaxRequests : w[j] = IF j = i THEN r ELSE wire[t][j]
  BY <1>1
<1>5. Awaited(w, tab[t].busy)
  BY <1>3, <1>4 DEF AInv, Awaited
<1>6. tab' = [tab EXCEPT ![t] = tab[t]]
  BY DEF Serve, Fail, AInv, TypeOK
<1> QED BY <1>3, <1>5, <1>6, OneTabOver

LEMMA AwaitedNext == AInv /\ [Next]_vars => AInv'
<1> SUFFICES ASSUME AInv, [Next]_vars PROVE AInv'
  OBVIOUS
<1>1. TypeOK /\ TypeOK'
  BY TypeNext DEF AInv
<1>2. CASE Lapse \/ UNCHANGED vars
  BY <1>1, <1>2 DEF AInv, Awaited, Lapse, vars
<1>3. ASSUME NEW t \in Tabs, Sends(t) PROVE AInv'
  BY <1>1, <1>3, SendsAwaited
<1>4. ASSUME NEW t \in Tabs, NEW i \in 1..MaxRequests, Serve(t, i) \/ Fail(t, i) PROVE AInv'
  BY <1>1, <1>4, AnsweredAwaited
<1>5. ASSUME NEW t \in Tabs, NEW i \in 1..MaxRequests, Receive(t, i) PROVE AInv'
  BY <1>1, <1>5, ReceiveAwaited
<1>6. ASSUME NEW t \in Tabs, Reload(t) \/ \E a \in Accounts : SingleSignOn(t, a) PROVE AInv'
  <2>1. wire' = [wire EXCEPT ![t] = OnlyProbe]
    BY <1>6 DEF Reload, SingleSignOn
  <2>2. PICK tb : tb.busy = FALSE /\ tab' = [tab EXCEPT ![t] = tb]
    BY <1>6 DEF Reload, SingleSignOn, FreshTab
  <2>3. Awaited(OnlyProbe, tb.busy)
    BY <2>2, OnlyProbeAwaited
  <2> QED BY <1>1, <2>1, <2>2, <2>3, OneTabOver
<1>7. ASSUME NEW t \in Tabs, BackToPassword(t) \/ SetFilter(t) PROVE AInv'
  <2>1. wire' = [wire EXCEPT ![t] = wire[t]] /\ Awaited(wire[t], tab[t].busy) /\ tab[t] \in Tab
    BY <1>1, <1>7 DEF AInv, BackToPassword, SetFilter, TypeOK
  <2>2. \E tb : tb.busy = tab[t].busy /\ tab' = [tab EXCEPT ![t] = tb]
    BY <1>7, <2>1 DEF BackToPassword, SetFilter, Tab
  <2> QED BY <1>1, <2>1, <2>2, OneTabOver
<1>8. ASSUME NEW t \in Tabs, NEW r \in Routes, Go(t, r) PROVE AInv'
  <2> DEFINE there == [tab[t] EXCEPT !.at = r, !.from = "home"]
             new == Rendered(tab[t], there, storage.saved)
  <2>1. /\ there \in Tab /\ there.busy = tab[t].busy /\ tab[t] \in Tab /\ wire[t] \in Wire
        /\ Awaited(wire[t], there.busy) /\ storage.saved \in SUBSET User
    <3>1. tab[t] \in Tab /\ wire[t] \in Wire /\ storage.saved \in SUBSET User
      BY <1>1 DEF TypeOK, Storage
    <3>2. Awaited(wire[t], tab[t].busy)
      BY DEF AInv
    <3>3. there \in Tab /\ there.busy = tab[t].busy
      BY <3>1 DEF Tab, Routes, Guarded
    <3> QED BY <3>1, <3>2, <3>3
  <2>2. Awaited(Orphaned(tab[t], new, wire[t]), new.busy)
    BY <2>1, RenderedAwaited
  <2>3. wire' = [wire EXCEPT ![t] = Orphaned(tab[t], new, wire[t])] /\ tab' = [tab EXCEPT ![t] = new]
    BY <1>1, <1>8 DEF Go, TypeOK
  <2> QED BY <1>1, <2>2, <2>3, OneTabOver
<1> QED BY <1>2, <1>3, <1>4, <1>5, <1>6, <1>7, <1>8 DEF Next, Sends

LEMMA AtMostOne ==
  ASSUME NEW S, \A i, j \in S : i = j PROVE Cardinality(S) <= 1
<1>1. S = {} \/ \E i : S = {i}
  OBVIOUS
<1>2. CASE S = {}
  <2>1. Cardinality(S) = 0
    BY <1>2, FS_EmptySet
  <2> QED BY <2>1
<1>3. ASSUME NEW i, S = {i} PROVE Cardinality(S) <= 1
  <2>1. Cardinality(S) = 1
    BY <1>3, FS_Singleton
  <2> QED BY <2>1
<1> QED BY <1>1, <1>2, <1>3

LEMMA AwaitedIsOne == AInv => OneAttemptAtATime
<1> SUFFICES ASSUME AInv, NEW t \in Tabs
             PROVE  LET mine == {i \in InFlight(t) : wire[t][i].live}
                    IN  /\ Cardinality({i \in mine : wire[t][i].kind \in {"login", "verify"}}) <= 1
                        /\ tab[t].busy <=> mine # {}
  BY DEF OneAttemptAtATime
<1> DEFINE mine == {i \in InFlight(t) : wire[t][i].live}
           S == {i \in mine : wire[t][i].kind \in {"login", "verify"}}
<1>1. Awaited(wire[t], tab[t].busy)
  BY DEF AInv
<1>2. tab[t].busy <=> mine # {}
  BY <1>1 DEF Awaited, InFlight
<1>3. \A i, j \in S : i = j
  BY <1>1 DEF Awaited, InFlight
<1>4. Cardinality(S) <= 1
  BY <1>3, AtMostOne
<1> QED BY <1>2, <1>4

(* No tab has two attempts to sign in under way, and nothing stays         *)
(* disabled without an answer to come, for any number of tabs and requests.*)
THEOREM OneAttemptAlways == Spec => []OneAttemptAtATime
<1>1. Init => AInv
  <2> SUFFICES ASSUME Init, NEW t \in Tabs PROVE Awaited(wire[t], tab[t].busy)
    BY TypeInit DEF AInv
  <2>1. wire[t] = OnlyProbe /\ tab[t].busy = FALSE
    BY DEF Init, FreshTab
  <2> QED BY <2>1, OnlyProbeAwaited
<1> QED BY <1>1, AwaitedNext, AwaitedIsOne, PTL DEF Spec
=============================================================================
