-------------------------- MODULE Accounts_proofs ---------------------------
(***************************************************************************)
(* What Accounts promises for every set of users, tokens and browsers.     *)
(* The two facts about accounts are inductive over the types.  The two     *)
(* about impersonation also need that a token a cookie still names is      *)
(* never brought back to life (NamedTokensStayDead), which rests on        *)
(* inactive accounts holding no session: an account that comes back finds  *)
(* no row to come back with.                                               *)
(***************************************************************************)
EXTENDS Accounts, TLAPS

(* Deleting rows keeps the table a table.                                  *)
LEMMA WithoutTokensType ==
  ASSUME TypeOK, NEW T
  PROVE  WithoutTokens(T) \in [Tokens -> Users \cup {NoUser}]
BY DEF TypeOK, WithoutTokens

(* The caller of a session that is live is a user.                         *)
LEMMA UserOfType == ASSUME NEW t PROVE UserOf(t) \in Users \cup {NoUser}
BY DEF UserOf

LEMMA CookiesType ==
  ASSUME TypeOK, NEW b \in Browsers, NEW s \in Cookie, NEW p \in Cookie, SetBoth(b, s, p)
  PROVE  jar' \in [Browsers -> [session : Cookie, parked : Cookie]]
BY DEF TypeOK, SetBoth

LEMMA ChainType ==
  ASSUME TypeOK, NEW b \in Browsers, NEW t \in Cookie, Chain(b, t)
  PROVE  home' \in [Browsers -> Cookie]
BY DEF TypeOK, Chain

LEMMA MintType ==
  ASSUME TypeOK, NEW b \in Browsers, NEW t \in Cookie, MintSession(b, t)
  PROVE  /\ jar' \in [Browsers -> [session : Cookie, parked : Cookie]]
         /\ home' \in [Browsers -> Cookie]
<1>1. NoToken \in Cookie
  BY DEF Cookie
<1> QED BY <1>1, CookiesType, ChainType DEF MintSession

LEMMA TypeInit == Init => TypeOK
BY DEF Init, TypeOK, Cookie

LEMMA SignsInType ==
  ASSUME TypeOK, NEW b \in Browsers, NEW u \in Users, SignsIn(b, u)
  PROVE  TypeOK'
<1>1. CASE Login(b, u)
  <2>1. PICK t \in Tokens : owner' = [owner EXCEPT ![t] = u] /\ MintSession(b, t)
    BY <1>1 DEF Login
  <2>2. t \in Cookie
    BY DEF Cookie
  <2> QED BY <1>1, <2>1, <2>2, MintType DEF Login, TypeOK
<1>2. CASE SignOn(b, u)
  <2>1. PICK t \in Tokens : owner' = [owner EXCEPT ![t] = u] /\ MintSession(b, t)
    BY <1>2 DEF SignOn
  <2>2. t \in Cookie
    BY DEF Cookie
  <2>3. status' \in [Users -> UserStatus \cup {"none"}] /\ link' \subseteq Users
    BY <1>2 DEF SignOn, TypeOK, UserStatus
  <2> QED BY <1>2, <2>1, <2>2, <2>3, MintType DEF SignOn, TypeOK
<1>3. CASE ConfirmAccount(b, u)
  <2>1. PICK t \in Tokens : owner' = [owner EXCEPT ![t] = u] /\ SetSession(b, t)
    BY <1>3 DEF ConfirmAccount
  <2>2. t \in Cookie /\ NoToken \in Cookie
    BY DEF Cookie
  <2>3. jar' \in [Browsers -> [session : Cookie, parked : Cookie]]
    BY <2>1, <2>2 DEF SetSession, TypeOK
  <2>4. home' \in [Browsers -> Cookie]
    BY <1>3, <2>2, ChainType DEF ConfirmAccount
  <2>5. status' \in [Users -> UserStatus \cup {"none"}] /\ link' \subseteq Users
    BY <1>3 DEF ConfirmAccount, TypeOK, UserStatus
  <2> QED BY <1>3, <2>1, <2>3, <2>4, <2>5 DEF ConfirmAccount, TypeOK
<1> QED BY <1>1, <1>2, <1>3 DEF SignsIn

LEMMA ImpersonateType ==
  ASSUME TypeOK, NEW b \in Browsers, NEW u \in Users, Impersonate(b, u)
  PROVE  TypeOK'
<1>1. PICK t \in Tokens :
        /\ owner' = [SurvivorsOfImpersonation(b) EXCEPT ![t] = u]
        /\ SetBoth(b, t, ParkedAfterImpersonation(b))
  BY DEF Impersonate
<1>2. SurvivorsOfImpersonation(b) \in [Tokens -> Users \cup {NoUser}]
  BY WithoutTokensType DEF SurvivorsOfImpersonation, TypeOK
<1>3. t \in Cookie /\ ParkedAfterImpersonation(b) \in Cookie /\ jar[b].session \in Cookie
      /\ home[b] \in Cookie
  BY DEF TypeOK, Cookie, ParkedAfterImpersonation
<1>4. jar' \in [Browsers -> [session : Cookie, parked : Cookie]]
  BY <1>1, <1>3, CookiesType
<1>5. home' \in [Browsers -> Cookie]
  BY <1>3, ChainType DEF Impersonate
<1> QED BY <1>1, <1>2, <1>4, <1>5 DEF Impersonate, TypeOK

LEMMA AdminRequestType ==
  ASSUME TypeOK, NEW b \in Browsers, NEW u \in Users, AdminRequest(b, u)
  PROVE  TypeOK'
<1>1. CASE Impersonate(b, u)
  BY <1>1, ImpersonateType
<1>2. ASSUME NEW asAdmin \in BOOLEAN, NEW confirmation \in BOOLEAN,
             CreateUser(b, u, asAdmin, confirmation)
      PROVE  TypeOK'
  BY <1>2 DEF CreateUser, TypeOK, UserStatus
<1>3. ASSUME NEW p \in UserUpdate, UpdateUser(b, u, p)
      PROVE  TypeOK'
  <2>1. admins' \subseteq Users /\ link' \subseteq Users
    BY <1>3 DEF UpdateUser, LinksAfter, TypeOK
  <2>2. StatusAfter(u, p) \in UserStatus \cup {"none"}
    BY DEF StatusAfter, TypeOK, UserUpdate
  <2>3. status' \in [Users -> UserStatus \cup {"none"}]
    BY <1>3, <2>2 DEF UpdateUser, TypeOK
  <2>4. owner' \in [Tokens -> Users \cup {NoUser}] /\ apiToken' \subseteq Users
    BY <1>3, WithoutTokensType DEF UpdateUser, RevokeTokens, WithoutSessionsOf, TypeOK
  <2> QED BY <1>3, <2>1, <2>3, <2>4 DEF UpdateUser, TypeOK
<1>4. CASE DeactivateUser(b, u)
  BY <1>4, WithoutTokensType DEF DeactivateUser, RevokeTokens, WithoutSessionsOf, TypeOK, UserStatus
<1>5. CASE ResendConfirmation(b, u)
  BY <1>5 DEF ResendConfirmation, TypeOK
<1>6. CASE RevokeUserApiToken(b, u)
  BY <1>6 DEF RevokeUserApiToken, DropApiToken, TypeOK
<1> QED BY <1>1, <1>2, <1>3, <1>4, <1>5, <1>6 DEF AdminRequest

LEMMA OwnRequestType ==
  ASSUME TypeOK, NEW b \in Browsers, OwnRequest(b)
  PROVE  TypeOK'
<1>0. NoToken \in Cookie /\ jar[b].parked \in Cookie
  BY DEF Cookie, TypeOK
<1>1. CASE Logout(b)
  BY <1>0, <1>1, WithoutTokensType, MintType DEF Logout, TypeOK
<1>2. CASE ChangePassword(b)
  BY <1>2, WithoutTokensType DEF ChangePassword, TypeOK
<1>3. CASE StopImpersonating(b)
  <2>1. owner' \in [Tokens -> Users \cup {NoUser}]
    BY <1>3, WithoutTokensType DEF StopImpersonating
  <2>2. jar' \in [Browsers -> [session : Cookie, parked : Cookie]]
    BY <1>0, <1>3, CookiesType DEF StopImpersonating
  <2>3. home' \in [Browsers -> Cookie]
    BY <1>0, <1>3, ChainType DEF StopImpersonating
  <2> QED BY <1>3, <2>1, <2>2, <2>3 DEF StopImpersonating, TypeOK
<1>4. CASE CreateApiToken(b)
  BY <1>4, UserOfType DEF CreateApiToken, SignedIn, Caller, TypeOK
<1>5. CASE DeleteApiToken(b)
  BY <1>5 DEF DeleteApiToken, DropApiToken, TypeOK
<1> QED BY <1>1, <1>2, <1>3, <1>4, <1>5 DEF OwnRequest

LEMMA LapseType == ASSUME TypeOK, Lapse PROVE TypeOK'
<1>1. ASSUME NEW t \in Tokens, SessionLapses(t) PROVE TypeOK'
  BY <1>1, WithoutTokensType DEF SessionLapses, TypeOK
<1>2. ASSUME NEW u \in Users, LinkLapses(u) PROVE TypeOK'
  BY <1>2 DEF LinkLapses, TypeOK
<1>3. ASSUME NEW b \in Browsers, CookiesCleared(b) PROVE TypeOK'
  <2>1. NoToken \in Cookie
    BY DEF Cookie
  <2> QED BY <1>3, <2>1, MintType DEF CookiesCleared, TypeOK
<1>4. ASSUME NEW b \in Browsers, ParkedCookieLapses(b) PROVE TypeOK'
  <2>1. NoToken \in Cookie /\ jar[b].session \in Cookie
    BY DEF Cookie, TypeOK
  <2> QED BY <1>4, <2>1, CookiesType DEF ParkedCookieLapses, TypeOK
<1> QED BY <1>1, <1>2, <1>3, <1>4 DEF Lapse

LEMMA TypeStep == TypeOK /\ [Next]_vars => TypeOK'
<1> SUFFICES ASSUME TypeOK, [Next]_vars PROVE TypeOK'
  OBVIOUS
<1>1. ASSUME NEW u \in Users, InitAdmin(u) PROVE TypeOK'
  BY <1>1 DEF InitAdmin, TypeOK, UserStatus
<1>2. CASE UNCHANGED vars
  BY <1>2 DEF vars, TypeOK
<1> QED BY <1>1, <1>2, SignsInType, AdminRequestType, OwnRequestType, LapseType DEF Next

(* The types, for every set of users, tokens and browsers.                 *)
THEOREM TypeCorrect == Spec => []TypeOK
BY TypeInit, TypeStep, PTL DEF Spec

-----------------------------------------------------------------------------
(* Inactive accounts                                                       *)

(* The rows a request leaves: those there were, and at most one new one.   *)
LEMMA WithoutTokensRows ==
  ASSUME NEW T, NEW t \in Tokens
  PROVE  WithoutTokens(T)[t] = owner[t] \/ WithoutTokens(T)[t] = NoUser
BY DEF WithoutTokens

LEMMA RevokedHasNoRow ==
  ASSUME TypeOK, NEW u \in Users, NEW t \in Tokens
  PROVE  WithoutSessionsOf(u)[t] # u
BY NoUserAssumption DEF WithoutSessionsOf, WithoutTokens

LEMMA CallerIsActive ==
  ASSUME NEW b, Caller(b) # NoUser
  PROVE  Caller(b) \in Users /\ Active(Caller(b))
BY DEF Caller, UserOf

LEMMA InactiveInit == Init => InactiveHoldsNothing
BY NoUserAssumption DEF Init, InactiveHoldsNothing, Active

(* Nothing is handed to an account whose status stays as it is, unless it  *)
(* is active, or waits and gets a link.                                    *)
LEMMA NothingHandedOut ==
  ASSUME TypeOK, InactiveHoldsNothing, status' = status,
         \A t \in Tokens : owner'[t] \in {owner[t], NoUser} \/ Active(owner'[t]),
         \A v \in apiToken' : v \in apiToken \/ Active(v),
         \A v \in link' : v \in link \/ status[v] = "waiting_confirmation"
  PROVE  InactiveHoldsNothing'
BY NoUserAssumption DEF InactiveHoldsNothing, Active, TypeOK

LEMMA SignsInInactive ==
  ASSUME TypeOK, InactiveHoldsNothing, NEW b \in Browsers, NEW u \in Users, SignsIn(b, u)
  PROVE  InactiveHoldsNothing'
<1>1. PICK t \in Tokens : owner' = [owner EXCEPT ![t] = u]
  BY DEF SignsIn, Login, SignOn, ConfirmAccount
<1>2. apiToken' = apiToken /\ link' \subseteq link
  BY DEF SignsIn, Login, SignOn, ConfirmAccount
<1>3. Active(u)' /\ \A v \in Users \ {u} : status'[v] = status[v]
  BY DEF SignsIn, Login, SignOn, ConfirmAccount, Active, TypeOK
<1> QED BY <1>1, <1>2, <1>3 DEF InactiveHoldsNothing, Active, TypeOK

LEMMA AdminRequestInactive ==
  ASSUME TypeOK, InactiveHoldsNothing, NEW b \in Browsers, NEW u \in Users, AdminRequest(b, u)
  PROVE  InactiveHoldsNothing'
<1>1. CASE Impersonate(b, u)
  <2>1. PICK t \in Tokens : owner' = [SurvivorsOfImpersonation(b) EXCEPT ![t] = u]
    BY <1>1 DEF Impersonate
  <2>2. SurvivorsOfImpersonation(b) \in [Tokens -> Users \cup {NoUser}]
    BY WithoutTokensType DEF SurvivorsOfImpersonation, TypeOK
  <2>3. \A s \in Tokens : SurvivorsOfImpersonation(b)[s] \in {owner[s], NoUser}
    BY WithoutTokensRows DEF SurvivorsOfImpersonation
  <2>4. \A s \in Tokens : owner'[s] \in {owner[s], NoUser} \/ Active(owner'[s])
    BY <1>1, <2>1, <2>2, <2>3 DEF Impersonate
  <2> QED BY <1>1, <2>4, NothingHandedOut DEF Impersonate
<1>2. ASSUME NEW asAdmin \in BOOLEAN, NEW confirmation \in BOOLEAN,
             CreateUser(b, u, asAdmin, confirmation)
      PROVE  InactiveHoldsNothing'
  <2>1. ~Active(u) /\ status[u] # "waiting_confirmation"
    BY <1>2 DEF CreateUser, Exists, Active
  <2>2. (\A t \in Tokens : owner[t] # u) /\ u \notin apiToken /\ u \notin link
    BY <2>1 DEF InactiveHoldsNothing
  <2> QED BY <1>2, <2>2 DEF CreateUser, InactiveHoldsNothing, Active, TypeOK
<1>3. ASSUME NEW p \in UserUpdate, UpdateUser(b, u, p)
      PROVE  InactiveHoldsNothing'
  <2>1. ASSUME NEW v \in Users \ {u}, ~Active(v)'
        PROVE  /\ \A t \in Tokens : owner'[t] # v
               /\ v \notin apiToken'
               /\ status'[v] # "waiting_confirmation" => v \notin link'
    <3>1. status'[v] = status[v] /\ ~Active(v)
      BY <1>3, <2>1 DEF UpdateUser, Active, TypeOK
    <3>2. \A t \in Tokens : owner'[t] \in {owner[t], NoUser}
      BY <1>3, WithoutTokensRows DEF UpdateUser, RevokeTokens, WithoutSessionsOf
    <3>3. apiToken' \subseteq apiToken /\ link' \subseteq link \cup {u}
      BY <1>3 DEF UpdateUser, RevokeTokens, LinksAfter
    <3> QED BY <3>1, <3>2, <3>3, NoUserAssumption DEF InactiveHoldsNothing
  <2>2. ASSUME ~Active(u)'
        PROVE  /\ \A t \in Tokens : owner'[t] # u
               /\ u \notin apiToken'
               /\ status'[u] # "waiting_confirmation" => u \notin link'
    <3>1. status'[u] = StatusAfter(u, p) /\ StatusAfter(u, p) # "active"
      BY <1>3, <2>2 DEF UpdateUser, Active, TypeOK
    <3>2. CASE Deactivating(p)
      <4>1. owner' = WithoutSessionsOf(u) /\ apiToken' = apiToken \ {u}
        BY <1>3, <3>2 DEF UpdateUser, RevokeTokens
      <4>2. p.status \in {"waiting_confirmation", "disabled"}
        BY <3>2 DEF Deactivating, UserUpdate, UserStatus
      <4>3. status[u] = "disabled" => u \notin link
        BY DEF InactiveHoldsNothing, Active
      <4>4. status'[u] # "waiting_confirmation" => u \notin link'
        BY <1>3, <3>1, <4>2, <4>3 DEF UpdateUser, LinksAfter, StatusAfter
      <4> QED BY <4>1, <4>4, RevokedHasNoRow
    <3>3. CASE ~Deactivating(p)
      <4>1. p.status = "same"
        BY <3>1, <3>3 DEF Deactivating, StatusAfter
      <4>2. status'[u] = status[u] /\ ~Active(u)
        BY <3>1, <4>1 DEF StatusAfter, Active
      <4>3. \A t \in Tokens : owner'[t] \in {owner[t], NoUser}
        BY <1>3, WithoutTokensRows DEF UpdateUser, RevokeTokens, WithoutSessionsOf
      <4>4. apiToken' \subseteq apiToken /\ link' = link
        BY <1>3, <4>1 DEF UpdateUser, RevokeTokens, LinksAfter
      <4> QED BY <4>2, <4>3, <4>4, NoUserAssumption DEF InactiveHoldsNothing
    <3> QED BY <3>2, <3>3
  <2> QED BY <2>1, <2>2 DEF InactiveHoldsNothing
<1>4. CASE DeactivateUser(b, u)
  <2>1. owner' = WithoutSessionsOf(u) /\ apiToken' = apiToken \ {u} /\ link' = link \ {u}
    BY <1>4 DEF DeactivateUser, RevokeTokens
  <2>2. \A t \in Tokens : owner'[t] # u /\ owner'[t] \in {owner[t], NoUser}
    BY <2>1, RevokedHasNoRow, WithoutTokensRows DEF WithoutSessionsOf
  <2>3. \A v \in Users \ {u} : status'[v] = status[v]
    BY <1>4 DEF DeactivateUser, TypeOK
  <2> QED BY <2>1, <2>2, <2>3, NoUserAssumption DEF InactiveHoldsNothing, Active
<1>5. CASE ResendConfirmation(b, u)
  BY <1>5, NothingHandedOut DEF ResendConfirmation
<1>6. CASE RevokeUserApiToken(b, u)
  BY <1>6, NothingHandedOut DEF RevokeUserApiToken, DropApiToken
<1> QED BY <1>1, <1>2, <1>3, <1>4, <1>5, <1>6 DEF AdminRequest

LEMMA OwnRequestInactive ==
  ASSUME TypeOK, InactiveHoldsNothing, NEW b \in Browsers, OwnRequest(b)
  PROVE  InactiveHoldsNothing'
<1>1. CASE CreateApiToken(b)
  BY <1>1, CallerIsActive, NothingHandedOut DEF CreateApiToken, SignedIn
<1>2. CASE DeleteApiToken(b)
  BY <1>2, NothingHandedOut DEF DeleteApiToken, DropApiToken
<1>3. CASE Logout(b) \/ ChangePassword(b) \/ StopImpersonating(b)
  <2>1. \A t \in Tokens : owner'[t] \in {owner[t], NoUser}
    BY <1>3, WithoutTokensRows DEF Logout, ChangePassword, StopImpersonating
  <2>2. UNCHANGED <<status, apiToken, link>>
    BY <1>3 DEF Logout, ChangePassword, StopImpersonating
  <2> QED BY <2>1, <2>2, NothingHandedOut
<1> QED BY <1>1, <1>2, <1>3 DEF OwnRequest

LEMMA LapseInactive ==
  ASSUME TypeOK, InactiveHoldsNothing, Lapse
  PROVE  InactiveHoldsNothing'
<1>1. UNCHANGED <<status, apiToken>> /\ link' \subseteq link
  BY DEF Lapse, SessionLapses, LinkLapses, CookiesCleared, ParkedCookieLapses
<1>2. \A t \in Tokens : owner'[t] \in {owner[t], NoUser}
  BY WithoutTokensRows DEF Lapse, SessionLapses, LinkLapses, CookiesCleared, ParkedCookieLapses
<1> QED BY <1>1, <1>2, NothingHandedOut

LEMMA InactiveStep ==
  TypeOK /\ InactiveHoldsNothing /\ [Next]_vars => InactiveHoldsNothing'
<1> SUFFICES ASSUME TypeOK, InactiveHoldsNothing, [Next]_vars
             PROVE  InactiveHoldsNothing'
  OBVIOUS
<1>1. ASSUME NEW u \in Users, InitAdmin(u) PROVE InactiveHoldsNothing'
  BY <1>1 DEF InitAdmin, InactiveHoldsNothing, Active, TypeOK
<1>2. CASE UNCHANGED vars
  BY <1>2 DEF vars, InactiveHoldsNothing, Active
<1> QED BY <1>1, <1>2, SignsInInactive, AdminRequestInactive, OwnRequestInactive, LapseInactive
        DEF Next

(* An account that is not active holds no session, no access token and,    *)
(* unless it waits for confirmation, no link.                              *)
THEOREM InactiveHoldsNothingAlways == Spec => []InactiveHoldsNothing
<1>1. Init => TypeOK /\ InactiveHoldsNothing
  BY TypeInit, InactiveInit
<1>2. TypeOK /\ InactiveHoldsNothing /\ [Next]_vars => (TypeOK /\ InactiveHoldsNothing)'
  BY TypeStep, InactiveStep
<1> QED BY <1>1, <1>2, PTL DEF Spec

-----------------------------------------------------------------------------
(* Administrators                                                          *)

(* Whoever asks as an administrator still is one afterwards.               *)
LEMMA CallerStaysAdmin ==
  ASSUME TypeOK, NEW b \in Browsers, NEW u \in Users, AdminRequest(b, u)
  PROVE  ActiveAdmins' # {}
<1>1. AdminUser(b) /\ Caller(b) # NoUser /\ Caller(b) \in admins
  BY NoUserAssumption
     DEF AdminRequest, Impersonate, CreateUser, UpdateUser, DeactivateUser, ResendConfirmation,
         RevokeUserApiToken, AdminUser, TypeOK
<1>2. Active(Caller(b)) /\ Caller(b) \in Users /\ Caller(b) \in ProtectedSelf(b)
  BY <1>1, CallerIsActive DEF ProtectedSelf
<1>3. Caller(b) \in admins' /\ status'[Caller(b)] = "active"
  <2>1. CASE Impersonate(b, u) \/ ResendConfirmation(b, u) \/ RevokeUserApiToken(b, u)
    BY <1>1, <1>2, <2>1
       DEF Impersonate, ResendConfirmation, RevokeUserApiToken, DropApiToken, Active
  <2>2. CASE \E asAdmin, confirmation \in BOOLEAN : CreateUser(b, u, asAdmin, confirmation)
    BY <1>1, <1>2, <2>2 DEF CreateUser, Active, Exists, TypeOK
  <2>3. ASSUME NEW p \in UserUpdate, UpdateUser(b, u, p)
        PROVE  Caller(b) \in admins' /\ status'[Caller(b)] = "active"
    <3>1. CASE u = Caller(b)
      <4>1. p.role # "member" /\ p.status \in {"same", "active"}
        BY <1>2, <2>3, <3>1 DEF UpdateUser, GuardedSelf, Deactivating
      <4> QED BY <1>1, <1>2, <2>3, <3>1, <4>1
                 DEF UpdateUser, StatusAfter, Active, TypeOK, UserUpdate
    <3>2. CASE u # Caller(b)
      BY <1>1, <1>2, <2>3, <3>2 DEF UpdateUser, Active, TypeOK, UserUpdate
    <3> QED BY <3>1, <3>2
  <2>4. CASE DeactivateUser(b, u)
    BY <1>1, <1>2, <2>4 DEF DeactivateUser, Active, TypeOK
  <2> QED BY <2>1, <2>2, <2>3, <2>4 DEF AdminRequest
<1> QED BY <1>3 DEF ActiveAdmins, Active

LEMMA AdministersStep ==
  TypeOK /\ InactiveHoldsNothing /\ SomebodyAdministers /\ [Next]_vars => SomebodyAdministers'
<1> SUFFICES ASSUME TypeOK, InactiveHoldsNothing, SomebodyAdministers, [Next]_vars
             PROVE  SomebodyAdministers'
  OBVIOUS
<1>1. ASSUME NEW u \in Users, InitAdmin(u) PROVE SomebodyAdministers'
  BY <1>1 DEF InitAdmin, SomebodyAdministers, ActiveAdmins, Active, TypeOK
<1>2. ASSUME NEW b \in Browsers, NEW u \in Users, AdminRequest(b, u) PROVE SomebodyAdministers'
  BY <1>2, CallerStaysAdmin DEF SomebodyAdministers
<1>3. ASSUME NEW b \in Browsers, NEW u \in Users, SignsIn(b, u) PROVE SomebodyAdministers'
  <2>1. Exists(u)
    BY <1>3
       DEF SignsIn, Login, SignOn, ConfirmAccount, InactiveHoldsNothing, Exists, Active
  <2> QED BY <1>3, <2>1
             DEF SignsIn, Login, SignOn, ConfirmAccount, SomebodyAdministers, ActiveAdmins, Active, TypeOK
<1>4. CASE (\E b \in Browsers : OwnRequest(b)) \/ Lapse \/ UNCHANGED vars
  <2>1. UNCHANGED <<status, admins>>
    BY <1>4
       DEF OwnRequest, Logout, ChangePassword, StopImpersonating, CreateApiToken, DeleteApiToken,
           DropApiToken, Lapse, SessionLapses, LinkLapses, CookiesCleared, ParkedCookieLapses, vars
  <2> QED BY <2>1 DEF SomebodyAdministers, ActiveAdmins, Active, Exists
<1> QED BY <1>1, <1>2, <1>3, <1>4 DEF Next

(* Once there are accounts there is an active administrator.               *)
THEOREM SomebodyAdministersAlways == Spec => []SomebodyAdministers
<1>1. Init => TypeOK /\ InactiveHoldsNothing /\ SomebodyAdministers
  BY TypeInit, InactiveInit DEF Init, SomebodyAdministers, Exists
<1>2. TypeOK /\ InactiveHoldsNothing /\ SomebodyAdministers /\ [Next]_vars
        => (TypeOK /\ InactiveHoldsNothing /\ SomebodyAdministers)'
  BY TypeStep, InactiveStep, AdministersStep
<1> QED BY <1>1, <1>2, PTL DEF Spec

-----------------------------------------------------------------------------
(* Impersonation                                                           *)

(* A fresh token is in no cookie and at the start of no chain.             *)
LEMMA FreshIsUnnamed ==
  ASSUME NEW t \in Tokens, Fresh(t), NEW b \in Browsers
  PROVE  t # jar[b].session /\ t # jar[b].parked /\ t # home[b]
BY NoTokenAssumption DEF Fresh, Held

(* A step leaves a row, deletes it, or opens one for a fresh token.        *)
LEMMA RowsOfAStep ==
  ASSUME TypeOK, [Next]_vars, NEW t \in Tokens
  PROVE  owner'[t] \in {owner[t], NoUser} \/ Fresh(t)
<1>1. ASSUME NEW b \in Browsers, NEW u \in Users, SignsIn(b, u)
      PROVE  owner'[t] \in {owner[t], NoUser} \/ Fresh(t)
  BY <1>1 DEF SignsIn, Login, SignOn, ConfirmAccount, TypeOK
<1>2. ASSUME NEW b \in Browsers, NEW u \in Users, AdminRequest(b, u)
      PROVE  owner'[t] \in {owner[t], NoUser} \/ Fresh(t)
  <2>1. CASE Impersonate(b, u)
    <3>1. PICK s \in Tokens : Fresh(s) /\ owner' = [SurvivorsOfImpersonation(b) EXCEPT ![s] = u]
      BY <2>1 DEF Impersonate
    <3>2. SurvivorsOfImpersonation(b) \in [Tokens -> Users \cup {NoUser}]
      BY WithoutTokensType DEF SurvivorsOfImpersonation, TypeOK
    <3>3. SurvivorsOfImpersonation(b)[t] \in {owner[t], NoUser}
      BY WithoutTokensRows DEF SurvivorsOfImpersonation
    <3> QED BY <3>1, <3>2, <3>3
  <2>2. CASE ~Impersonate(b, u)
    BY <1>2, <2>2, WithoutTokensRows
       DEF AdminRequest, CreateUser, UpdateUser, DeactivateUser, RevokeTokens, WithoutSessionsOf,
           ResendConfirmation, RevokeUserApiToken, DropApiToken
  <2> QED BY <2>1, <2>2
<1>3. ASSUME NEW b \in Browsers, OwnRequest(b)
      PROVE  owner'[t] \in {owner[t], NoUser}
  BY <1>3, WithoutTokensRows
     DEF OwnRequest, Logout, ChangePassword, StopImpersonating, CreateApiToken, DeleteApiToken,
         DropApiToken
<1>4. CASE Lapse
  BY <1>4, WithoutTokensRows
     DEF Lapse, SessionLapses, LinkLapses, CookiesCleared, ParkedCookieLapses
<1>5. CASE (\E u \in Users : InitAdmin(u)) \/ UNCHANGED vars
  BY <1>5 DEF InitAdmin, vars
<1> QED BY <1>1, <1>2, <1>3, <1>4, <1>5 DEF Next

(* A token a cookie names, or a chain starts from, may die and stays dead: *)
(* its row never comes back, and its owner, inactive, would have had no    *)
(* row to come back with.                                                  *)
LEMMA NamedTokensStayDead ==
  ASSUME TypeOK, InactiveHoldsNothing, [Next]_vars, NEW t \in Tokens, ~Fresh(t),
         UserOf(t)' # NoUser
  PROVE  UserOf(t) # NoUser
<1>1. owner'[t] \in Users /\ owner'[t] # NoUser
  BY NoUserAssumption DEF UserOf
<1>2. owner[t] = owner'[t]
  BY <1>1, RowsOfAStep
<1>3. Active(owner[t])
  BY <1>1, <1>2 DEF InactiveHoldsNothing
<1> QED BY <1>1, <1>2, <1>3 DEF UserOf

(* A browser that keeps its session and its chain, and keeps its parked    *)
(* cookie or loses it with its row, still finds its way home.              *)
LEMMA StillHome ==
  ASSUME TypeOK, InactiveHoldsNothing, [Next]_vars, ReturnsHome, NEW b \in Browsers,
         jar'[b].session = jar[b].session, home'[b] = home[b],
         jar'[b].parked = jar[b].parked \/ owner[jar[b].parked] = NoUser,
         SignedIn(b)', home'[b] # NoToken, UserOf(home[b])' # NoUser
  PROVE  jar'[b].parked = home'[b]
<1>1. home[b] \in Tokens /\ ~Fresh(home[b])
  BY DEF Fresh, TypeOK, Cookie
<1>2. UserOf(home[b]) # NoUser
  BY <1>1, NamedTokensStayDead
<1>3. UserOf(jar[b].session)' # NoUser
  BY DEF SignedIn, Caller
<1>4. jar[b].session \in Tokens
  BY <1>3, NoTokenAssumption DEF UserOf
<1>5. UserOf(jar[b].session) # NoUser
  BY <1>3, <1>4, FreshIsUnnamed, NamedTokensStayDead
<1>6. jar[b].parked = home[b]
  BY <1>1, <1>2, <1>5 DEF ReturnsHome, SignedIn, Caller
<1>7. owner[jar[b].parked] # NoUser
  BY <1>2, <1>6, NoUserAssumption DEF UserOf
<1> QED BY <1>6, <1>7

KeepsCookies(b) ==
  /\ jar'[b].session = jar[b].session /\ home'[b] = home[b]
  /\ jar'[b].parked = jar[b].parked \/ owner[jar[b].parked] = NoUser

(* What a step does to one browser: nothing that matters, the end of its   *)
(* chain, or one more impersonation.                                       *)
LEMMA CookiesOfAStep ==
  ASSUME TypeOK, [Next]_vars, NEW b \in Browsers
  PROVE  KeepsCookies(b) \/ home'[b] = NoToken \/ \E u \in Users : Impersonate(b, u)
<1>1. CASE UNCHANGED <<jar, home>>
  BY <1>1 DEF KeepsCookies
<1>2. ASSUME NEW a \in Browsers, NEW t \in Cookie, MintSession(a, t)
      PROVE  KeepsCookies(b) \/ home'[b] = NoToken
  BY <1>2 DEF MintSession, SetBoth, Chain, KeepsCookies, TypeOK
<1>3. ASSUME NEW a \in Browsers, NEW u \in Users, SignsIn(a, u)
      PROVE  KeepsCookies(b) \/ home'[b] = NoToken
  <2>1. CASE Login(a, u) \/ SignOn(a, u)
    BY <1>2, <2>1 DEF Login, SignOn, Cookie
  <2>2. CASE ConfirmAccount(a, u)
    BY <2>2 DEF ConfirmAccount, SetSession, Chain, KeepsCookies, TypeOK
  <2> QED BY <1>3, <2>1, <2>2 DEF SignsIn
<1>4. ASSUME NEW a \in Browsers, NEW u \in Users, AdminRequest(a, u)
      PROVE  KeepsCookies(b) \/ Impersonate(b, u)
  <2>1. CASE Impersonate(a, u)
    BY <2>1 DEF Impersonate, SetBoth, Chain, KeepsCookies, TypeOK
  <2>2. CASE ~Impersonate(a, u)
    BY <1>4, <2>2
       DEF AdminRequest, CreateUser, UpdateUser, DeactivateUser, ResendConfirmation,
           RevokeUserApiToken, DropApiToken, KeepsCookies
  <2> QED BY <2>1, <2>2
<1>5. ASSUME NEW a \in Browsers, OwnRequest(a)
      PROVE  KeepsCookies(b) \/ home'[b] = NoToken
  <2>1. CASE Logout(a)
    BY <1>2, <2>1 DEF Logout, Cookie
  <2>2. CASE StopImpersonating(a)
    BY <2>2 DEF StopImpersonating, SetBoth, Chain, KeepsCookies, TypeOK
  <2>3. CASE ChangePassword(a) \/ CreateApiToken(a) \/ DeleteApiToken(a)
    BY <1>1, <2>3 DEF ChangePassword, CreateApiToken, DeleteApiToken, DropApiToken, KeepsCookies
  <2> QED BY <1>5, <2>1, <2>2, <2>3 DEF OwnRequest
<1>6. CASE Lapse
  <2>1. ASSUME NEW a \in Browsers, CookiesCleared(a) PROVE KeepsCookies(b) \/ home'[b] = NoToken
    BY <1>2, <2>1 DEF CookiesCleared, Cookie
  <2>2. ASSUME NEW a \in Browsers, ParkedCookieLapses(a) PROVE KeepsCookies(b)
    BY <2>2 DEF ParkedCookieLapses, SetBoth, KeepsCookies, TypeOK
  <2> QED BY <1>1, <1>6, <2>1, <2>2 DEF Lapse, SessionLapses, LinkLapses
<1>7. CASE (\E u \in Users : InitAdmin(u)) \/ UNCHANGED vars
  BY <1>1, <1>7 DEF InitAdmin, vars
<1> QED BY <1>3, <1>4, <1>5, <1>6, <1>7 DEF Next

(* One more impersonation: the first parks the session in use, a further   *)
(* one keeps what is parked, and where a left-over parked cookie was in    *)
(* the way the session the chain starts from is deleted.                   *)
LEMMA ImpersonateReturnsHome ==
  ASSUME TypeOK, InactiveHoldsNothing, ReturnsHome, [Next]_vars,
         NEW b \in Browsers, NEW u \in Users, Impersonate(b, u), UserOf(home[b])' # NoUser
  PROVE  jar'[b].parked = home'[b]
<1>1. PICK t \in Tokens :
        /\ Fresh(t)
        /\ owner' = [SurvivorsOfImpersonation(b) EXCEPT ![t] = u]
        /\ SetBoth(b, t, ParkedAfterImpersonation(b))
  BY DEF Impersonate
<1>2. UserOf(jar[b].session) # NoUser /\ jar[b].session \in Tokens
  BY NoUserAssumption DEF Impersonate, AdminUser, Caller, UserOf, TypeOK
<1>3. jar'[b].parked = ParkedAfterImpersonation(b)
  BY <1>1 DEF SetBoth, TypeOK
<1>4. CASE home[b] = NoToken
  <2>1. home'[b] = jar[b].session
    BY <1>4 DEF Impersonate, Chain, TypeOK
  <2>2. CASE jar[b].parked = NoToken \/ jar[b].parked = jar[b].session
    BY <1>3, <2>1, <2>2 DEF ParkedAfterImpersonation
  <2>3. CASE jar[b].parked # NoToken /\ jar[b].parked # jar[b].session
    <3>1. SurvivorsOfImpersonation(b)[jar[b].session] = NoUser
      BY <1>2, <2>3 DEF SurvivorsOfImpersonation, WithoutTokens
    <3>2. t # jar[b].session
      BY <1>1, FreshIsUnnamed
    <3>3. owner'[jar[b].session] = NoUser
      BY <1>1, <3>1, <3>2, <1>2, WithoutTokensType DEF SurvivorsOfImpersonation, TypeOK
    <3> QED BY <2>1, <3>3, NoUserAssumption DEF UserOf
  <2> QED BY <2>2, <2>3
<1>5. CASE home[b] # NoToken
  <2>1. home'[b] = home[b] /\ home[b] \in Tokens
    BY <1>5 DEF Impersonate, Chain, TypeOK, Cookie
  <2>2. ~Fresh(home[b])
    BY <2>1 DEF Fresh
  <2>3. UserOf(home[b]) # NoUser
    BY <2>1, <2>2, NamedTokensStayDead
  <2>4. jar[b].parked = home[b]
    BY <1>2, <1>5, <2>3 DEF ReturnsHome, SignedIn, Caller
  <2> QED BY <1>3, <1>5, <2>1, <2>4 DEF ParkedAfterImpersonation
<1> QED BY <1>4, <1>5

LEMMA ReturnsHomeStep ==
  TypeOK /\ InactiveHoldsNothing /\ ReturnsHome /\ [Next]_vars => ReturnsHome'
<1> SUFFICES ASSUME TypeOK, InactiveHoldsNothing, ReturnsHome, [Next]_vars, NEW b \in Browsers,
                    SignedIn(b)', home'[b] # NoToken, UserOf(home[b])' # NoUser
             PROVE  jar'[b].parked = home'[b]
  BY DEF ReturnsHome
<1>1. CASE KeepsCookies(b)
  BY <1>1, StillHome DEF KeepsCookies
<1>2. ASSUME NEW u \in Users, Impersonate(b, u) PROVE jar'[b].parked = home'[b]
  BY <1>2, ImpersonateReturnsHome
<1> QED BY <1>1, <1>2, CookiesOfAStep

(* The inductive invariant behind impersonation.                           *)
HomeInv == TypeOK /\ InactiveHoldsNothing /\ ReturnsHome

LEMMA HomeInvAlways == Spec => []HomeInv
<1>1. Init => HomeInv
  BY TypeInit, InactiveInit DEF Init, HomeInv, ReturnsHome
<1>2. HomeInv /\ [Next]_vars => HomeInv'
  BY TypeStep, InactiveStep, ReturnsHomeStep DEF HomeInv
<1> QED BY <1>1, <1>2, PTL DEF Spec

(* While the session an impersonation started from lives, it is the one    *)
(* parked.                                                                 *)
THEOREM ReturnsHomeAlways == Spec => []ReturnsHome
BY HomeInvAlways, PTL DEF HomeInv

(* The operator behind an impersonation is one the self-guard knows.       *)
LEMMA OperatorIsProtected ==
  ASSUME HomeInv, NEW b \in Browsers, AdminUser(b), NEW u \in ActiveAdmins, u = Operator(b)
  PROVE  u \in ProtectedSelf(b)
<1>1. u \in Users /\ u # NoUser /\ u \in admins
  BY NoUserAssumption DEF HomeInv, TypeOK, ActiveAdmins
<1>2. SignedIn(b)
  BY NoUserAssumption DEF AdminUser, SignedIn, HomeInv, TypeOK
<1>3. CASE home[b] = NoToken
  BY <1>1, <1>3 DEF Operator, ProtectedSelf
<1>4. CASE home[b] # NoToken
  <2>1. UserOf(home[b]) = u
    BY <1>4 DEF Operator
  <2>2. jar[b].parked = home[b]
    BY <1>1, <1>2, <1>4, <2>1 DEF HomeInv, ReturnsHome
  <2> QED BY <1>1, <2>1, <2>2 DEF Impersonator, ProtectedSelf
<1> QED BY <1>3, <1>4

LEMMA OperatorKeeps ==
  ASSUME HomeInv, NEW b \in Browsers, NEW u \in ActiveAdmins, u = Operator(b),
         DeactivateUser(b, u) \/ \E p \in UserUpdate : UpdateUser(b, u, p)
  PROVE  u \in ActiveAdmins'
<1>1. AdminUser(b)
  BY DEF DeactivateUser, UpdateUser
<1>2. u \in ProtectedSelf(b) /\ u \in Users
  BY <1>1, OperatorIsProtected DEF HomeInv, TypeOK, ActiveAdmins
<1>3. PICK p \in UserUpdate : UpdateUser(b, u, p)
  BY <1>2 DEF DeactivateUser
<1>4. p.role # "member" /\ p.status \in {"same", "active"}
  BY <1>2, <1>3 DEF UpdateUser, GuardedSelf, Deactivating
<1>5. u \in admins /\ status[u] = "active"
  BY DEF ActiveAdmins, Active
<1>6. u \in admins'
  BY <1>3, <1>4, <1>5 DEF UpdateUser, UserUpdate
<1>7. status'[u] = "active"
  BY <1>2, <1>3, <1>4, <1>5 DEF UpdateUser, StatusAfter, HomeInv, TypeOK
<1> QED BY <1>6, <1>7 DEF ActiveAdmins, Active

(* Nobody takes their own administration away, impersonating or not.       *)
THEOREM OperatorKeepsAdministeringAlways == Spec => OperatorKeepsAdministering
<1>1. HomeInv /\ [Next]_vars =>
        [\A b \in Browsers, u \in ActiveAdmins :
           /\ u = Operator(b)
           /\ \/ DeactivateUser(b, u)
              \/ \E p \in UserUpdate : UpdateUser(b, u, p)
           => u \in ActiveAdmins']_vars
  BY OperatorKeeps
<1> QED BY <1>1, HomeInvAlways, PTL DEF Spec, OperatorKeepsAdministering

(* Impersonating, returning and logging out delete the sessions whose only *)
(* cookie they take away.                                                  *)
LEMMA StrandsNone ==
  ASSUME TypeOK, NEW b \in Browsers,
         Logout(b) \/ StopImpersonating(b) \/ (\E u \in Users : Impersonate(b, u)),
         NEW t \in Held(jar[b]) \ Held(jar'[b])
  PROVE  owner'[t] = NoUser
<1>1. t \in Tokens /\ t \in {jar[b].session, jar[b].parked}
  BY DEF Held, TypeOK, Cookie
<1>2. CASE Logout(b)
  BY <1>1, <1>2 DEF Logout, WithoutTokens
<1>3. CASE StopImpersonating(b)
  <2>1. CASE ParkedIsGood(b)
    <3>1. owner' = WithoutTokens({jar[b].session} \ {jar[b].parked})
          /\ SetBoth(b, jar[b].parked, NoToken)
      BY <1>3, <2>1 DEF StopImpersonating
    <3>2. Held(jar'[b]) = {jar[b].parked} \ {NoToken}
      BY <3>1 DEF SetBoth, Held, TypeOK
    <3> QED BY <1>1, <3>1, <3>2, NoTokenAssumption DEF WithoutTokens
  <2>2. CASE ~ParkedIsGood(b)
    BY <1>1, <1>3, <2>2 DEF StopImpersonating, WithoutTokens
  <2> QED BY <2>1, <2>2
<1>4. ASSUME NEW u \in Users, Impersonate(b, u) PROVE owner'[t] = NoUser
  <2>1. PICK s \in Tokens :
          /\ Fresh(s)
          /\ owner' = [SurvivorsOfImpersonation(b) EXCEPT ![s] = u]
          /\ SetBoth(b, s, ParkedAfterImpersonation(b))
    BY <1>4 DEF Impersonate
  <2>2. Held(jar'[b]) = {s, ParkedAfterImpersonation(b)} \ {NoToken}
    BY <2>1 DEF SetBoth, Held, TypeOK
  <2>3. t = jar[b].session /\ jar[b].parked # NoToken /\ jar[b].parked # t
    BY <1>1, <2>2, NoTokenAssumption DEF ParkedAfterImpersonation
  <2>4. SurvivorsOfImpersonation(b)[t] = NoUser
    BY <1>1, <2>3 DEF SurvivorsOfImpersonation, WithoutTokens
  <2>5. s # t
    BY <2>1, <2>3, FreshIsUnnamed
  <2> QED BY <1>1, <2>1, <2>4, <2>5, WithoutTokensType DEF SurvivorsOfImpersonation, TypeOK
<1> QED BY <1>2, <1>3, <1>4

(* No session is left without a cookie by an impersonation, a return or a  *)
(* logout.                                                                 *)
THEOREM StrandsNoSessionAlways == Spec => StrandsNoSession
<1>1. TypeOK /\ [Next]_vars =>
        [\A b \in Browsers :
           Logout(b) \/ StopImpersonating(b) \/ (\E u \in Users : Impersonate(b, u)) =>
             \A t \in Held(jar[b]) \ Held(jar'[b]) : owner'[t] = NoUser]_vars
  BY StrandsNone
<1> QED BY <1>1, TypeCorrect, PTL DEF Spec, StrandsNoSession
=============================================================================
