------------------------------ MODULE Sessions ------------------------------
(***************************************************************************)
(* Accounts, log-in by Kakao, registration and sessions: the routers of    *)
(* kakao_auth, account and auth with the use cases they call.              *)
(*                                                                         *)
(* Every handler is an "async def" without an await, in one process: it is *)
(* one action.  What it writes goes to two stores (accounts to MySQL,      *)
(* tokens to Redis), a write at a time, and one may raise after others     *)
(* took effect: then the handler is an action of its own for each point at *)
(* which it can stop.  Who the client is the server learns from cookies,   *)
(* and different routes read different ones, so that a browser's cookies   *)
(* are state.  The cookies nickname and email go with account_id.          *)
(* Kakao tokens are saved and never read: only that saving can fail counts.*)
(* The roles of accounts and sessions are left out.                        *)
(***************************************************************************)
EXTENDS Naturals, Sequences, FiniteSets

CONSTANTS
    Browsers, KakaoUsers, Emails,
    UsersOf,      \* the Kakao users who log in at a browser
    KakaoEmail,   \* the e-mail Kakao tells of a user, or NoEmail
    NoEmail,
    Legacy,       \* e-mails an account may have as its Kakao id
    Operators,    \* user ids of log-in by password
    MaxTokens     \* bound: tokens ever issued

ASSUME SessionsAssumption ==
    /\ UsersOf \in [Browsers -> SUBSET KakaoUsers]
    /\ KakaoEmail \in [KakaoUsers -> Emails \cup {NoEmail}]
    /\ NoEmail \notin Emails /\ KakaoUsers \cap Emails = {}
    /\ Legacy \subseteq Emails /\ IsFiniteSet(Legacy)
    /\ MaxTokens \in Nat

VARIABLES
    accounts,     \* the table: a sequence of rows, the id is the place
    states,       \* browsers with an unused oauth_state in Redis
    temps,        \* temp_token: in Redis, token to Kakao user
    sessions,     \* session: in Redis, token to whom it is for
    issued,       \* tokens issued so far
    jar           \* each browser's cookies

sessionVars == <<accounts, states, temps, sessions, issued, jar>>

\* No such cookie: tokens and account ids are positive.
None == 0
Cookies == {"user_token", "session_token", "temp_token", "account_id"}
Rows == [email : Emails, kakao : KakaoUsers \cup Emails]

\* Accounts of an earlier version may be there, one for an e-mail.
LegacyRow(e) == [email |-> e, kakao |-> e]

SessionsInit ==
    /\ \E n \in 0 .. Cardinality(Legacy) :
          accounts \in [1 .. n -> {LegacyRow(e) : e \in Legacy}]
    /\ \A i, j \in DOMAIN accounts : i # j => accounts[i] # accounts[j]
    /\ states = {} /\ temps = <<>> /\ sessions = <<>> /\ issued = 0
    /\ jar = [b \in Browsers |-> [c \in Cookies |-> None]]

-----------------------------------------------------------------------------
Token == issued + 1
Issue == issued < MaxTokens /\ issued' = Token
With(store, value) ==
    [t \in DOMAIN store \cup {Token} |-> IF t = Token THEN value ELSE store[t]]
Without(store, token) == [t \in DOMAIN store \ {token} |-> store[t]]

FindByKakaoId(k) == {i \in DOMAIN accounts : accounts[i].kakao = k}
FindByEmail(e) == {i \in DOMAIN accounts : accounts[i].email = e}

\* Whom a session is for: user_id is an account's id, a Kakao id or the name
\* typed at log-in.
ForAccount(i) == [of |-> "account", id |-> i]
ForOther(u) == [of |-> "other", id |-> u]

-----------------------------------------------------------------------------
(* kakao_authentication_router.py                                          *)

\* request_oauth_link: a state for ten minutes.
RequestLink(b) ==
    /\ states' = states \cup {b}
    /\ UNCHANGED <<accounts, temps, sessions, issued, jar>>

StateExpires(b) ==
    /\ states' = states \ {b}
    /\ UNCHANGED <<accounts, temps, sessions, issued, jar>>

\* The account of a Kakao user: that of its Kakao id, or else of its e-mail.
KnownAs(k) ==
    IF FindByKakaoId(k) # {} \/ KakaoEmail[k] = NoEmail
      THEN FindByKakaoId(k) ELSE FindByEmail(KakaoEmail[k])

\* CheckKakaoUserRegistrationUseCase, the user has an account.  The state is
\* used up before Kakao is asked.
CallbackRegistered(b, k) ==
    /\ b \in states /\ states' = states \ {b}
    /\ Issue
    /\ \E i \in KnownAs(k) :
          /\ sessions' = With(sessions, ForAccount(i))
          /\ jar' = [jar EXCEPT ![b].user_token = Token, ![b].account_id = i]
    /\ UNCHANGED <<accounts, temps>>

\* The user has none: a temporary token for the registration.
CallbackUnknown(b, k) ==
    /\ b \in states /\ states' = states \ {b}
    /\ KnownAs(k) = {}
    /\ Issue
    /\ temps' = With(temps, k)
    /\ jar' = [jar EXCEPT ![b].temp_token = Token]
    /\ UNCHANGED <<accounts, sessions>>

\* Kakao refuses the code, or a store is out of reach: 400 or 502.
CallbackFails(b) ==
    /\ b \in states /\ states' = states \ {b}
    /\ UNCHANGED <<accounts, temps, sessions, issued, jar>>

\* The session was created, its Kakao token could not be saved: 502, and
\* nobody knows the session's token.
CallbackFailsLate(b, k) ==
    /\ b \in states /\ states' = states \ {b}
    /\ Issue
    /\ \E i \in KnownAs(k) : sessions' = With(sessions, ForAccount(i))
    /\ UNCHANGED <<accounts, temps, jar>>

\* /redirection: a session for the Kakao id, whose token the body tells.
Redirection(k) ==
    /\ Issue
    /\ sessions' = With(sessions, ForOther(k))
    /\ UNCHANGED <<accounts, states, temps, jar>>

-----------------------------------------------------------------------------
(* account_router.py                                                       *)

\* The Kakao user of the temporary token a browser shows.
Shown(b) == jar[b].temp_token
MayRegister(b) == Shown(b) \in DOMAIN temps

\* Mutant: only the e-mail is looked up, as if a Kakao user registered once.
AccountUnlessEmailKnown(k, e, i) ==
    /\ FindByEmail(e) = {}
    /\ accounts' = Append(accounts, [email |-> e, kakao |-> k])
    /\ i = Len(accounts) + 1
\* The account of a registration: that of the Kakao id; one of that e-mail
\* which an earlier version saved without a Kakao id, now repaired; a new one.
\* None if the e-mail is linked to another Kakao user: 409.
AccountFor(k, e, i) ==
    \/ i \in FindByKakaoId(k) /\ UNCHANGED accounts
    \/ /\ FindByKakaoId(k) = {} /\ i \in FindByEmail(e)
       /\ accounts[i].kakao = accounts[i].email
       /\ accounts' = [accounts EXCEPT ![i].kakao = k]
    \/ /\ FindByKakaoId(k) = {} /\ FindByEmail(e) = {}
       /\ accounts' = Append(accounts, [email |-> e, kakao |-> k])
       /\ i = Len(accounts) + 1

\* register_account with a live temporary token.
Register(b, e) ==
    /\ MayRegister(b)
    /\ Issue
    /\ \E i \in 1 .. Len(accounts) + 1 :
          /\ AccountFor(temps[Shown(b)], e, i)
          /\ sessions' = With(sessions, ForAccount(i))
          /\ jar' = [jar EXCEPT ![b].session_token = Token,
                                ![b].account_id = i, ![b].temp_token = None]
    /\ temps' = Without(temps, Shown(b))
    /\ UNCHANGED states

\* Redis fails once the account is committed: before the temporary token is
\* deleted, or after it.  400, and the cookies stay.
RegisterFailsLate(b, e) ==
    /\ MayRegister(b)
    /\ \E i \in 1 .. Len(accounts) + 1 : AccountFor(temps[Shown(b)], e, i)
    /\ temps' \in {temps, Without(temps, Shown(b))}
    /\ UNCHANGED <<states, sessions, issued, jar>>

\* logout_account: one session, and all cookies but the temporary ones.
Logout(b) ==
    LET token == IF jar[b].session_token # None THEN jar[b].session_token
                 ELSE jar[b].user_token
    IN  /\ token # None
        /\ sessions' = Without(sessions, token)
        /\ jar' = [jar EXCEPT ![b] = [c \in Cookies |->
                      IF c = "temp_token" THEN jar[b][c] ELSE None]]
        /\ UNCHANGED <<accounts, states, temps, issued>>

-----------------------------------------------------------------------------
(* auth_router.py: log-in by password, and a token in the header.          *)

PasswordLogin(u) ==
    /\ Issue
    /\ sessions' = With(sessions, ForOther(u))
    /\ UNCHANGED <<accounts, states, temps, jar>>

BearerLogout(t) ==
    /\ sessions' = Without(sessions, t)
    /\ UNCHANGED <<accounts, states, temps, issued, jar>>

-----------------------------------------------------------------------------
(* Time: seven days, an hour or thirty minutes pass.                       *)

SessionExpires(t) ==
    /\ sessions' = Without(sessions, t)
    /\ UNCHANGED <<accounts, states, temps, issued, jar>>

TempExpires(t) ==
    /\ temps' = Without(temps, t)
    /\ UNCHANGED <<accounts, states, sessions, issued, jar>>

CookieExpires(b, c) ==
    /\ jar' = [jar EXCEPT ![b][c] = None]
    /\ UNCHANGED <<accounts, states, temps, sessions, issued>>

-----------------------------------------------------------------------------
(* Who a browser is to the routes.                                         *)

\* The account of the session that a cookie names.
OfSession(b, c) ==
    {i \in DOMAIN accounts :
        jar[b][c] \in DOMAIN sessions /\ sessions[jar[b][c]] = ForAccount(i)}

\* GET /authentication/me; a temporary token is nobody's account yet.
Me(b) == OfSession(b, "user_token")

\* The cards: nobody, and no error, without a session.
CurrentAccount(b) == OfSession(b, "user_token")

\* Watchlist, notifications and profile believe the cookie account_id; the
\* session of user_token stands in for a missing one.
ResolveAccountId(b) ==
    IF jar[b].account_id # None THEN {jar[b].account_id} ELSE OfSession(b, "user_token")

\* require_admin reads one token: that of user_token only if there is no other,
\* not if the other has expired.
AdminAccount(b) ==
    OfSession(b, IF jar[b].session_token # None THEN "session_token" ELSE "user_token")

\* GET and PATCH /account/settings.
SettingsAccount(b) == {jar[b].account_id} \cap DOMAIN accounts

SessionsNext ==
    \/ \E b \in Browsers :
          \/ RequestLink(b) \/ StateExpires(b) \/ CallbackFails(b) \/ Logout(b)
          \/ \E k \in UsersOf[b] :
                \/ CallbackRegistered(b, k)
                \/ CallbackUnknown(b, k)
                \/ CallbackFailsLate(b, k)
          \/ \E e \in Emails : Register(b, e) \/ RegisterFailsLate(b, e)
          \/ \E c \in Cookies : CookieExpires(b, c)
    \/ \E k \in KakaoUsers : Redirection(k)
    \/ \E u \in Operators : PasswordLogin(u)
    \/ \E t \in DOMAIN sessions : BearerLogout(t) \/ SessionExpires(t)
    \/ \E t \in DOMAIN temps : TempExpires(t)

SessionsSpec == SessionsInit /\ [][SessionsNext]_sessionVars

-----------------------------------------------------------------------------
(* Properties.                                                             *)

SessionsTypeOK ==
    /\ accounts \in Seq(Rows)
    /\ states \subseteq Browsers
    /\ issued \in 0 .. MaxTokens
    /\ DOMAIN temps \subseteq 1 .. issued /\ DOMAIN sessions \subseteq 1 .. issued
    /\ \A t \in DOMAIN temps : temps[t] \in KakaoUsers
    /\ jar \in [Browsers -> [Cookies -> Nat]]

\* A Kakao user has at most one account and an e-mail at most one, even if a
\* registration is repeated from other browsers or after it failed half-way:
\* the use cases never lean on the unique constraints of account_orm.py 12-13,
\* whose violation would turn a log-in into "internal error".
OneAccountEach ==
    \A i, j \in DOMAIN accounts :
        i # j => /\ accounts[i].kakao # accounts[j].kakao
                 /\ accounts[i].email # accounts[j].email

\* A browser is one account to every route, or to none.
Identities(b) ==
    Me(b) \cup CurrentAccount(b) \cup ResolveAccountId(b) \cup AdminAccount(b)
          \cup SettingsAccount(b)

\* No other user took the e-mail that Kakao tells of k.
OwnEmail(k) ==
    \A i \in FindByEmail(KakaoEmail[k]) : accounts[i].kakao \in {k, KakaoEmail[k]}

\* A browser that one Kakao user has to itself is one account to all routes,
\* whichever cookie they read, however log-ins, registrations, failures and
\* expiries alternate, and whatever other browsers do.
OneIdentity ==
    \A b \in Browsers : \A k \in KakaoUsers :
        UsersOf[b] = {k} /\ OwnEmail(k) => Cardinality(Identities(b)) <= 1
=============================================================================
