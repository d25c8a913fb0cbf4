---------------------------- MODULE ConsoleSessions ----------------------------
(***************************************************************************)
(* Sessions of the console: login with password and second factor, the     *)
(* rotating refresh token, the revocation of one session or of all of a    *)
(* user, the guard that admits a request to /admin/v1, and the web server  *)
(* that keeps the tokens in a browser's cookies and renews them before a   *)
(* page is rendered.  A refresh reads the session, then the user, and only *)
(* then writes the new token: other tabs of the browser, a logout and a    *)
(* reused token run in between.                                            *)
(***************************************************************************)
EXTENDS Integers, FiniteSets

CONSTANTS
    ConsoleUsers,      \* rows of console_user
    LoginIds,          \* sessions that logins may create
    Browsers,          \* cookie jars
    Tabs,              \* concurrent navigations
    UserRecords,       \* what a user row may hold: role, status, mfaEnabled, totp
    RefreshTtl,        \* refreshTokenTtlSeconds, in moments
    AccessTtl,         \* accessTokenTtlSeconds, in moments
    MaxSecrets,        \* bound: refresh tokens ever issued
    MaxMoment          \* bound: the last moment

ASSUME ConsoleAssumption ==
    RefreshTtl \in Nat \ {0} /\ AccessTtl \in Nat \ {0} /\ MaxSecrets \in Nat /\ MaxMoment \in Nat

VARIABLES
    user,              \* console_user
    session,           \* console_session: absent, or owner, current secret, expiry, revocation
    jar,               \* the cookies of each browser: the pair of tokens, or none
    tab,               \* each navigation in progress
    secrets,           \* refresh tokens issued so far, numbered
    admitted,          \* the last request of each session that the guard let pass
    moment             \* the clock

consoleVars == <<user, session, jar, tab, secrets, admitted, moment>>

NoCookies == [secret |-> 0]
Absent == [owner |-> "none"]

\* The roles, from the least to the most powerful.
ROLE_RANK == [VIEWER |-> 0, COMPLIANCE |-> 1, OPERATOR |-> 2, ADMIN |-> 3, OWNER |-> 4]
atLeast(role, minimum) == ROLE_RANK[role] >= ROLE_RANK[minimum]

\* Roles that may not enter with a password alone.
MFA_REQUIRED_ROLES == {"OWNER", "ADMIN"}

ConsoleInit ==
    /\ user \in [ConsoleUsers -> UserRecords]
    /\ session = [s \in LoginIds |-> Absent]
    /\ jar = [b \in Browsers |-> NoCookies]
    /\ tab = [t \in Tabs |-> [at |-> "idle"]]
    /\ secrets = 0
    /\ admitted = [s \in LoginIds |-> -1]
    /\ moment = 0

-----------------------------------------------------------------------------
(* The repository of sessions. *)

Alive(row) == row # Absent /\ ~row.revoked /\ row.expiresAt > moment

\* Mutant: the session read before is written back whatever happened to it since.
rotateAnyway(s, secret, expiresAt) ==
    session' = [session EXCEPT ![s].secret = secret, ![s].expiresAt = expiresAt, ![s].revoked = FALSE]

\* The update is conditional on the session not being revoked, and on nothing else.
rotate(s, secret, expiresAt) ==
    session' = IF session[s].revoked THEN session
               ELSE [session EXCEPT ![s].secret = secret, ![s].expiresAt = expiresAt]

revokeAllForUser(u) ==
    session' = [s \in LoginIds |->
                  IF session[s].owner = u THEN [session[s] EXCEPT !.revoked = TRUE] ELSE session[s]]

-----------------------------------------------------------------------------
(* Login. *)

\* assertSecondFactor: the code typed, or none.
secondFactorHolds(u, code) ==
    (user[u].mfaEnabled \/ user[u].role \in MFA_REQUIRED_ROLES) => user[u].totp /\ code = "right"

\* The password is right, the user active and the second factor holds.
credentialsHold(u, code) == user[u].status = "ACTIVE" /\ secondFactorHolds(u, code)

\* issueAccessToken dates the token, verifyAccessToken refuses it after that.
accessExpiry == moment + AccessTtl
accessLives(b) == jar[b].accessUntil > moment

\* The row issue creates.
newSession(u, secret) ==
    [owner |-> u, secret |-> secret, expiresAt |-> moment + RefreshTtl, revoked |-> FALSE]

\* The cookies a pair of new tokens becomes.
cookiesOf(s, secret) == [session |-> s, secret |-> secret, accessUntil |-> accessExpiry]

\* login and issue: a session of its own for each login; a wrong password, a disabled user
\* or a second factor that does not hold leaves no trace in the tables.
Login(u, s, b, code) ==
    /\ session[s] = Absent
    /\ credentialsHold(u, code)
    /\ secrets < MaxSecrets
    /\ secrets' = secrets + 1
    /\ session' = [session EXCEPT ![s] = newSession(u, secrets + 1)]
    /\ jar' = [jar EXCEPT ![b] = cookiesOf(s, secrets + 1)]
    /\ UNCHANGED <<user, tab, admitted, moment>>

-----------------------------------------------------------------------------
(* Refresh. *)

\* precisaRenovar: with less than the margin to go, the page waits for a new pair.
NeedsRenewal(b) == jar[b].accessUntil - moment < 1

\* mutate: a 401 is answered by a renewal also when the token looked good.
RetryAfter401(b) == ~accessLives(b) \/ ~Alive(session[jar[b].session])

\* middleware or a server action: the refresh token is taken from the cookies now.
Navigate(t, b) ==
    /\ tab[t].at = "idle"
    /\ jar[b] # NoCookies
    /\ NeedsRenewal(b) \/ RetryAfter401(b)
    /\ tab' = [tab EXCEPT ![t] = [at |-> "sent", browser |-> b,
                                  session |-> jar[b].session, secret |-> jar[b].secret]]
    /\ UNCHANGED <<user, session, jar, secrets, admitted, moment>>

\* findById of the session the token names, then the comparison of the secret.
ReadSession(t) ==
    LET s == tab[t].session IN
    /\ tab[t].at = "sent"
    /\ tab' = [tab EXCEPT ![t] =
         IF ~Alive(session[s]) THEN [at |-> "expired", browser |-> @.browser]
         ELSE [at |-> IF @.secret = session[s].secret THEN "user" ELSE "reuse",
               session |-> s, owner |-> session[s].owner, now |-> moment, browser |-> @.browser]]
    /\ UNCHANGED <<user, session, jar, secrets, admitted, moment>>

\* An old token after a rotation: every session of the user is revoked.
RevokeReused(t) ==
    /\ tab[t].at = "reuse"
    /\ revokeAllForUser(tab[t].owner)
    /\ tab' = [tab EXCEPT ![t] = [at |-> "expired", browser |-> @.browser]]
    /\ UNCHANGED <<user, jar, secrets, admitted, moment>>

\* The user must still be active when the token is renewed.
ReadUser(t) ==
    /\ tab[t].at = "user"
    /\ tab' = [tab EXCEPT ![t] = IF user[@.owner].status = "ACTIVE"
                                 THEN [@ EXCEPT !.at = "rotate"]
                                 ELSE [at |-> "expired", browser |-> @.browser]]
    /\ UNCHANGED <<user, session, jar, secrets, admitted, moment>>

\* rotate, and the answer with the new token when the row was still there to update.
RotateToken(t) ==
    LET s == tab[t].session IN
    /\ tab[t].at = "rotate"
    /\ secrets < MaxSecrets
    /\ secrets' = secrets + 1
    /\ rotate(s, secrets + 1, tab[t].now + RefreshTtl)
    /\ tab' = [tab EXCEPT ![t] =
         IF session[s].revoked THEN [at |-> "expired", browser |-> @.browser]
         ELSE [at |-> "renewed", session |-> s, secret |-> secrets + 1, browser |-> @.browser]]
    /\ UNCHANGED <<user, jar, admitted, moment>>

\* The answer reaches the browser: the new pair replaces the cookies, a refusal deletes them.
AnswerTab(t) ==
    /\ tab[t].at \in {"expired", "renewed"}
    /\ jar' = [jar EXCEPT ![tab[t].browser] =
         IF tab[t].at = "renewed" THEN cookiesOf(tab[t].session, tab[t].secret) ELSE NoCookies]
    /\ tab' = [tab EXCEPT ![t] = [at |-> "idle"]]
    /\ UNCHANGED <<user, session, secrets, admitted, moment>>

-----------------------------------------------------------------------------
(* The rest of the surface. *)

Logout(s) ==
    /\ session[s] # Absent
    /\ session' = [session EXCEPT ![s].revoked = TRUE]
    /\ UNCHANGED <<user, jar, tab, secrets, admitted, moment>>

\* AdminSessionGuard: the access token proves nothing of the session, so the session is read
\* again; the route's minimum role is compared with the role in the token.
Admit(b) ==
    /\ jar[b] # NoCookies
    /\ accessLives(b)
    /\ Alive(session[jar[b].session])
    /\ admitted' = [admitted EXCEPT ![jar[b].session] = moment]
    /\ UNCHANGED <<user, session, jar, tab, secrets, moment>>

DisableUser(u) ==
    /\ user[u].status = "ACTIVE"
    /\ user' = [user EXCEPT ![u].status = "DISABLED"]
    /\ UNCHANGED <<session, jar, tab, secrets, admitted, moment>>

MomentPasses ==
    /\ moment < MaxMoment
    /\ moment' = moment + 1
    /\ UNCHANGED <<user, session, jar, tab, secrets, admitted>>

ConsoleNext ==
    \/ \E u \in ConsoleUsers, s \in LoginIds, b \in Browsers, code \in {"none", "wrong", "right"} :
          Login(u, s, b, code)
    \/ \E t \in Tabs, b \in Browsers : Navigate(t, b)
    \/ \E t \in Tabs : ReadSession(t) \/ RevokeReused(t) \/ ReadUser(t) \/ RotateToken(t) \/ AnswerTab(t)
    \/ \E s \in LoginIds : Logout(s)
    \/ \E b \in Browsers : Admit(b)
    \/ \E u \in ConsoleUsers : DisableUser(u)
    \/ MomentPasses

ConsoleSpec == ConsoleInit /\ [][ConsoleNext]_consoleVars

-----------------------------------------------------------------------------
\* A session once revoked, by its own logout or because a token of the same user was used
\* twice, never serves again: no refresh that read it before the revocation renews it, and
\* no request is admitted with it (AdminAuthService.refresh, logout and assertSessionAlive).
RevokedIsDead ==
    [][\A s \in LoginIds : session[s] # Absent /\ session[s].revoked =>
          session'[s] = session[s] /\ admitted'[s] = admitted[s]]_consoleVars
================================================================================
