------------------------------ MODULE Accounts ------------------------------
(***************************************************************************)
(* Accounts, sessions and impersonation: app/api/v1/{auth,admin_users,     *)
(* confirmations,profile,api_tokens}.py, the last step of oidc.py, and     *)
(* app/api/deps.py.  Every action is a whole request, made from a browser  *)
(* whose two cookies are all it presents.                                  *)
(*                                                                         *)
(* Passwords, second factors and the provider decide who may sign in; here *)
(* anybody active may.  A row past its expiry is read by nothing, so it    *)
(* lapses by being gone.                                                   *)
(***************************************************************************)
EXTENDS FiniteSets

CONSTANTS
  Users,      \* the accounts the users table may come to hold
  Tokens,     \* the session tokens generate_token may hand out
  Browsers,
  NoUser,
  NoToken

ASSUME NoUserAssumption == NoUser \notin Users

ASSUME NoTokenAssumption == NoToken \notin Tokens

VARIABLES
  status,    \* [Users -> Status]: users.status
  admins,    \* users.is_admin
  owner,     \* [Tokens -> Users \cup {NoUser}]: auth_tokens
  link,      \* the users with a live row in confirmation_tokens
  apiToken,  \* the users with a row in api_tokens
  jar,       \* [Browsers -> [session, parked]]: isachore_token, isachore_admin_token
  home       \* the session this browser's impersonation started from; history only

vars == <<status, admins, owner, link, apiToken, jar, home>>

UserStatus == {"waiting_confirmation", "active", "disabled"}

Cookie == Tokens \cup {NoToken}

(* What PATCH /admin/users/{id} may ask for, names and address left out.   *)
UserUpdate == [role : {"same", "admin", "member"}, status : UserStatus \cup {"same"},
               password : BOOLEAN]

TypeOK ==
  /\ status \in [Users -> UserStatus \cup {"none"}]
  /\ admins \subseteq Users
  /\ owner \in [Tokens -> Users \cup {NoUser}]
  /\ link \subseteq Users
  /\ apiToken \subseteq Users
  /\ jar \in [Browsers -> [session : Cookie, parked : Cookie]]
  /\ home \in [Browsers -> Cookie]

(* An empty database.                                                      *)
Init ==
  /\ status = [u \in Users |-> "none"]
  /\ admins = {}
  /\ owner = [t \in Tokens |-> NoUser]
  /\ link = {}
  /\ apiToken = {}
  /\ jar = [b \in Browsers |-> [session |-> NoToken, parked |-> NoToken]]
  /\ home = [b \in Browsers |-> NoToken]

-----------------------------------------------------------------------------
(* Who is asking                                                           *)

Exists(u) == status[u] # "none"

Active(u) == status[u] = "active"

ActiveAdmins == {u \in admins : Active(u)}

(* get_user_by_token: the owner of a live session, if the account is       *)
(* active.                                                                 *)
UserOf(t) ==
  IF t \in Tokens /\ owner[t] \in Users /\ Active(owner[t]) THEN owner[t] ELSE NoUser

Caller(b) == UserOf(jar[b].session)

SignedIn(b) == Caller(b) # NoUser

AdminUser(b) == Caller(b) \in admins

Impersonator(b) ==
  IF UserOf(jar[b].parked) \in admins THEN UserOf(jar[b].parked) ELSE NoUser

(* Variant: the self-guard knows only the session in use.                  *)
ProtectedSelf_CallerOnly(b) == {Caller(b)} \ {NoUser}

(* _protected_self_ids                                                     *)
ProtectedSelf(b) == {Caller(b), Impersonator(b)} \ {NoUser}

-----------------------------------------------------------------------------
(* Sessions                                                                *)

(* The tokens a browser presents.                                          *)
Held(cookies) == {cookies.session, cookies.parked} \ {NoToken}

(* generate_token: never handed out while anything still names it.         *)
Fresh(t) ==
  /\ owner[t] = NoUser
  /\ \A b \in Browsers : t \notin Held(jar[b]) \cup {home[b]}

(* The rows left once some tokens are deleted, or those of one user.       *)
WithoutTokens(T) == [t \in Tokens |-> IF t \in T THEN NoUser ELSE owner[t]]

WithoutSessionsOf(u) == WithoutTokens({t \in Tokens : owner[t] = u})

SetSession(b, t) == jar' = [jar EXCEPT ![b].session = t]

SetBoth(b, session, parked) ==
  jar' = [jar EXCEPT ![b] = [session |-> session, parked |-> parked]]

Chain(b, t) == home' = [home EXCEPT ![b] = t]

(* mint_session: the new session, and no parked one.                       *)
MintSession(b, t) == SetBoth(b, t, NoToken) /\ Chain(b, NoToken)

(* POST /auth/login, with POST /auth/verify-2fa where it takes two steps.  *)
Login(b, u) ==
  /\ Active(u)
  /\ \E t \in Tokens :
       /\ Fresh(t)
       /\ owner' = [owner EXCEPT ![t] = u]
       /\ MintSession(b, t)
  /\ UNCHANGED <<status, admins, link, apiToken>>

(* GET /auth/oidc/callback for a user the provider vouches for: signing in *)
(* stands in for the emailed link.                                         *)
SignOn(b, u) ==
  /\ status[u] \in {"active", "waiting_confirmation"}
  /\ status' = [status EXCEPT ![u] = "active"]
  /\ link' = IF Active(u) THEN link ELSE link \ {u}
  /\ \E t \in Tokens :
       /\ Fresh(t)
       /\ owner' = [owner EXCEPT ![t] = u]
       /\ MintSession(b, t)
  /\ UNCHANGED <<admins, apiToken>>

(* POST /confirm/{token}: activates whatever the status, consumes the link *)
(* and signs in, the parked cookie left where it was.                      *)
ConfirmAccount(b, u) ==
  /\ u \in link
  /\ status' = [status EXCEPT ![u] = "active"]
  /\ link' = link \ {u}
  /\ \E t \in Tokens :
       /\ Fresh(t)
       /\ owner' = [owner EXCEPT ![t] = u]
       /\ SetSession(b, t)
  /\ Chain(b, NoToken)
  /\ UNCHANGED <<admins, apiToken>>

(* POST /auth/logout ends the session and the parked one.                  *)
Logout(b) ==
  /\ owner' = WithoutTokens(Held(jar[b]))
  /\ MintSession(b, NoToken)
  /\ UNCHANGED <<status, admins, link, apiToken>>

(* PATCH /profile with a new password drops the user's other sessions.     *)
ChangePassword(b) ==
  /\ SignedIn(b)
  /\ owner' = WithoutTokens({t \in Tokens \ {jar[b].session} : owner[t] = Caller(b)})
  /\ UNCHANGED <<status, admins, link, apiToken, jar, home>>

(* POST /admin/users/{id}/impersonate.  The outermost session stays parked;*)
(* one in the middle is about to lose its only cookie and is deleted.      *)
SurvivorsOfImpersonation(b) ==
  IF jar[b].parked # NoToken
  THEN WithoutTokens({jar[b].session} \ {jar[b].parked})
  ELSE owner

(* Variant: impersonating parks the session in use each time.              *)
ParkedAfterImpersonation_Innermost(b) == jar[b].session

ParkedAfterImpersonation(b) ==
  IF jar[b].parked # NoToken THEN jar[b].parked ELSE jar[b].session

Impersonate(b, u) ==
  /\ AdminUser(b)
  /\ u # Caller(b) /\ Active(u)
  /\ \E t \in Tokens :
       /\ Fresh(t)
       /\ owner' = [SurvivorsOfImpersonation(b) EXCEPT ![t] = u]
       /\ SetBoth(b, t, ParkedAfterImpersonation(b))
  /\ Chain(b, IF home[b] = NoToken THEN jar[b].session ELSE home[b])
  /\ UNCHANGED <<status, admins, link, apiToken>>

(* POST /auth/stop-impersonating.  A parked session that is gone, or whose *)
(* user is no administrator any more, takes the impersonated one with it.  *)
ParkedIsGood(b) == Impersonator(b) # NoUser

StopImpersonating(b) ==
  /\ jar[b].parked # NoToken
  /\ \/ /\ ParkedIsGood(b)
        /\ owner' = WithoutTokens({jar[b].session} \ {jar[b].parked})
        /\ SetBoth(b, jar[b].parked, NoToken)
     \/ /\ ~ParkedIsGood(b)
        /\ owner' = WithoutTokens(Held(jar[b]))
        /\ SetBoth(b, NoToken, NoToken)
  /\ Chain(b, NoToken)
  /\ UNCHANGED <<status, admins, link, apiToken>>

-----------------------------------------------------------------------------
(* Administration of accounts                                              *)

(* _revoke_tokens: the sessions and the access token.                      *)
RevokeTokens(u) == owner' = WithoutSessionsOf(u) /\ apiToken' = apiToken \ {u}

(* cli.py init on a database without an active administrator and for an    *)
(* address nobody has.                                                     *)
InitAdmin(u) ==
  /\ ActiveAdmins = {}
  /\ ~Exists(u)
  /\ status' = [status EXCEPT ![u] = "active"]
  /\ admins' = admins \cup {u}
  /\ UNCHANGED <<owner, link, apiToken, jar, home>>

(* POST /admin/users, with email confirmation required or not.             *)
CreateUser(b, u, asAdmin, confirmation) ==
  /\ AdminUser(b)
  /\ ~Exists(u)
  /\ admins' = IF asAdmin THEN admins \cup {u} ELSE admins
  /\ status' = [status EXCEPT ![u] = IF confirmation THEN "waiting_confirmation" ELSE "active"]
  /\ link' = IF confirmation THEN link \cup {u} ELSE link
  /\ UNCHANGED <<owner, apiToken, jar, home>>

(* Variant: only disabling counts.                                         *)
Deactivating_DisabledOnly(p) == p.status = "disabled"

(* A move away from active, the status being written or not.               *)
Deactivating(p) == p.status \notin {"same", "active"}

GuardedSelf(b, u, p) == u \in ProtectedSelf(b) /\ (p.role = "member" \/ Deactivating(p))

StatusAfter(u, p) == IF p.status = "same" THEN status[u] ELSE p.status

(* Variant: disabling forgets the emailed link.                            *)
LinksAfter_KeepsOnDisable(u, p) == IF p.status = "waiting_confirmation" THEN link \cup {u} ELSE link

(* _issue_confirmation_token and _revoke_confirmation_tokens: only a       *)
(* change of status touches the link, and forcing an account active leaves *)
(* it.                                                                     *)
LinksAfter(u, p) ==
  IF p.status = "waiting_confirmation" /\ status[u] # "waiting_confirmation"
  THEN link \cup {u}
  ELSE IF p.status = "disabled" /\ status[u] # "disabled" THEN link \ {u} ELSE link

(* PATCH /admin/users/{id}                                                 *)
UpdateUser(b, u, p) ==
  /\ AdminUser(b)
  /\ Exists(u)
  /\ ~GuardedSelf(b, u, p)
  /\ admins' = CASE p.role = "admin" -> admins \cup {u}
                 [] p.role = "member" -> admins \ {u}
                 [] OTHER -> admins
  /\ status' = [status EXCEPT ![u] = StatusAfter(u, p)]
  /\ link' = LinksAfter(u, p)
  /\ IF p.password \/ Deactivating(p)
     THEN RevokeTokens(u)
     ELSE UNCHANGED <<owner, apiToken>>
  /\ UNCHANGED <<jar, home>>

(* DELETE /admin/users/{id}                                                *)
DeactivateUser(b, u) ==
  /\ AdminUser(b)
  /\ Exists(u)
  /\ u \notin ProtectedSelf(b)
  /\ status' = [status EXCEPT ![u] = "disabled"]
  /\ RevokeTokens(u)
  /\ link' = link \ {u}
  /\ UNCHANGED <<admins, jar, home>>

(* POST /admin/users/{id}/resend-confirmation                              *)
ResendConfirmation(b, u) ==
  /\ AdminUser(b)
  /\ status[u] = "waiting_confirmation"
  /\ link' = link \cup {u}
  /\ UNCHANGED <<status, admins, owner, apiToken, jar, home>>

-----------------------------------------------------------------------------
(* Access tokens                                                           *)

(* POST /profile/api-token: one each, and none while impersonating.        *)
CreateApiToken(b) ==
  /\ SignedIn(b)
  /\ Impersonator(b) = NoUser
  /\ Caller(b) \notin apiToken
  /\ apiToken' = apiToken \cup {Caller(b)}
  /\ UNCHANGED <<status, admins, owner, link, jar, home>>

DropApiToken(u) ==
  /\ u \in apiToken
  /\ apiToken' = apiToken \ {u}
  /\ UNCHANGED <<status, admins, owner, link, jar, home>>

(* DELETE /profile/api-token                                               *)
DeleteApiToken(b) == SignedIn(b) /\ DropApiToken(Caller(b))

(* DELETE /admin/users/{id}/api-token                                      *)
RevokeUserApiToken(b, u) == AdminUser(b) /\ DropApiToken(u)

-----------------------------------------------------------------------------
(* Time                                                                    *)

SessionLapses(t) ==
  /\ owner[t] # NoUser
  /\ owner' = WithoutTokens({t})
  /\ UNCHANGED <<status, admins, link, apiToken, jar, home>>

LinkLapses(u) ==
  /\ u \in link
  /\ link' = link \ {u}
  /\ UNCHANGED <<status, admins, owner, apiToken, jar, home>>

(* The browser ends its session, or its owner clears it.                   *)
CookiesCleared(b) ==
  /\ Held(jar[b]) # {}
  /\ MintSession(b, NoToken)
  /\ UNCHANGED <<status, admins, owner, link, apiToken>>

(* The parked cookie outlives its row: it is set later, for as long.       *)
ParkedCookieLapses(b) ==
  /\ jar[b].parked # NoToken
  /\ owner[jar[b].parked] = NoUser
  /\ SetBoth(b, jar[b].session, NoToken)
  /\ UNCHANGED <<status, admins, owner, link, apiToken, home>>

-----------------------------------------------------------------------------

OwnRequest(b) ==
  \/ Logout(b) \/ ChangePassword(b) \/ StopImpersonating(b)
  \/ CreateApiToken(b) \/ DeleteApiToken(b)

SignsIn(b, u) == Login(b, u) \/ SignOn(b, u) \/ ConfirmAccount(b, u)

AdminRequest(b, u) ==
  \/ Impersonate(b, u)
  \/ \E asAdmin, confirmation \in BOOLEAN : CreateUser(b, u, asAdmin, confirmation)
  \/ \E p \in UserUpdate : UpdateUser(b, u, p)
  \/ DeactivateUser(b, u)
  \/ ResendConfirmation(b, u)
  \/ RevokeUserApiToken(b, u)

Lapse ==
  \/ \E t \in Tokens : SessionLapses(t)
  \/ \E u \in Users : LinkLapses(u)
  \/ \E b \in Browsers : CookiesCleared(b) \/ ParkedCookieLapses(b)

Next ==
  \/ \E u \in Users : InitAdmin(u)
  \/ \E b \in Browsers : OwnRequest(b)
  \/ \E b \in Browsers, u \in Users : SignsIn(b, u) \/ AdminRequest(b, u)
  \/ Lapse

Spec == Init /\ [][Next]_vars

-----------------------------------------------------------------------------
(* Safety                                                                  *)

(* An account that is not active holds neither a session nor an access     *)
(* token, and only one waiting for confirmation may have a link: whoever   *)
(* deactivates it, by whichever request and whatever happened before,      *)
(* leaves nothing behind that would come back to life with it              *)
(* (_revoke_tokens, _revoke_confirmation_tokens).                          *)
InactiveHoldsNothing ==
  \A u \in Users : ~Active(u) =>
    /\ \A t \in Tokens : owner[t] # u
    /\ u \notin apiToken
    /\ status[u] # "waiting_confirmation" => u \notin link

(* Once there are accounts there is an active administrator, whoever       *)
(* demotes or deactivates whom, impersonating or not: "a disabled admin is *)
(* not reachable through the API" (cli.py init_admin).                     *)
SomebodyAdministers == (\E u \in Users : Exists(u)) => ActiveAdmins # {}

(* Through any number of impersonations the parked session is the one the  *)
(* operator started from, for as long as that one lives                    *)
(* (impersonate_user: "keep the outermost admin session for the return     *)
(* trip").                                                                 *)
ReturnsHome ==
  \A b \in Browsers :
    SignedIn(b) /\ home[b] # NoToken /\ UserOf(home[b]) # NoUser => jar[b].parked = home[b]

(* Impersonating, returning and logging out delete every session whose     *)
(* only cookie they take away.                                             *)
StrandsNoSession ==
  [][\A b \in Browsers :
       Logout(b) \/ StopImpersonating(b) \/ (\E u \in Users : Impersonate(b, u)) =>
         \A t \in Held(jar[b]) \ Held(jar'[b]) : owner'[t] = NoUser]_vars

(* The person behind the impersonation.                                    *)
Operator(b) == IF home[b] = NoToken THEN Caller(b) ELSE UserOf(home[b])

(* Nobody takes their own administration away, "so the self-guard can't be *)
(* bypassed by proxy" (_protected_self_ids).                               *)
OperatorKeepsAdministering ==
  [][\A b \in Browsers, u \in ActiveAdmins :
       /\ u = Operator(b)
       /\ \/ DeactivateUser(b, u)
          \/ \E p \in UserUpdate : UpdateUser(b, u, p)
       => u \in ActiveAdmins']_vars

(* get_impersonator: "the real admin behind an impersonation session, or   *)
(* None when not impersonating".  Following a confirmation link signs in   *)
(* over the impersonated session and leaves the parked cookie, so the new  *)
(* session is taken for an impersonated one.                               *)
ImpersonatorImpersonates ==
  \A b \in Browsers : SignedIn(b) /\ Impersonator(b) # NoUser => home[b] # NoToken

(* "The outstanding link has to go with it, which every other path that    *)
(* activates or re-secures an account already does" (oidc.py callback): an *)
(* active account has no link.  Forcing an account active leaves it.       *)
ActivationSpendsLink == \A u \in link : ~Active(u)
=============================================================================
