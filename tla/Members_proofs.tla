--------------------------- MODULE Members_proofs ----------------------------
(***************************************************************************)
(* What TLAPS proves about the members of the portal, for any number of    *)
(* them: their accounts in Sessions, which the back office shows to an     *)
(* administrator; what they leave behind, the cards and boards of          *)
(* Community, the notifications of Briefing, the views and clicks of       *)
(* Activity; and the logs of AnalysisLogs they and the public read.        *)
(***************************************************************************)
EXTENDS Sessions, Backoffice, Activity, Community, Briefing, AnalysisLogs,
        FiniteSetTheorems, SequenceTheorems, TLAPS

(***************************************************************************)
(* Sessions and Backoffice: whose account it is.                           *)
(***************************************************************************)

\* What the rows' uniqueness rests on: tokens lead to Kakao users.
RowsInv ==
    /\ accounts \in Seq(Rows)
    /\ \A t \in DOMAIN temps : temps[t] \in KakaoUsers
    /\ OneAccountEach

LEMMA InitRows == SessionsInit => RowsInv
<1>. SUFFICES ASSUME SessionsInit PROVE RowsInv
  OBVIOUS
<1>1. Cardinality(Legacy) \in Nat
  BY SessionsAssumption, FS_CardinalityType
<1>2. PICK n \in 0 .. Cardinality(Legacy) :
         accounts \in [1 .. n -> {LegacyRow(e) : e \in Legacy}]
  BY DEF SessionsInit
<1>3. n \in Nat
  BY <1>1, <1>2
<1>4. {LegacyRow(e) : e \in Legacy} \subseteq Rows
  BY SessionsAssumption DEF LegacyRow, Rows
<1>5. accounts \in Seq(Rows)
  BY <1>2, <1>3, <1>4
<1>6. OneAccountEach
  BY <1>2 DEF SessionsInit, OneAccountEach, LegacyRow
<1>. QED BY <1>5, <1>6 DEF SessionsInit, RowsInv

\* The heart of a registration: the account it ends up with breaks no
\* uniqueness, since the Kakao id is looked up before the e-mail and a row is
\* repaired only if its Kakao id is an e-mail.
LEMMA AccountForKeepsRows ==
    ASSUME RowsInv, NEW k \in KakaoUsers, NEW e \in Emails,
           NEW i \in 1 .. Len(accounts) + 1, AccountFor(k, e, i)
    PROVE  accounts' \in Seq(Rows) /\ OneAccountEach'
<1>. USE DEF RowsInv
<1>1. CASE UNCHANGED accounts
  BY <1>1 DEF OneAccountEach
<1>2. CASE /\ FindByKakaoId(k) = {} /\ i \in FindByEmail(e)
           /\ accounts' = [accounts EXCEPT ![i].kakao = k]
  <2>1. i \in DOMAIN accounts /\ accounts[i] \in Rows
    BY <1>2 DEF FindByEmail
  <2>2. \A j \in DOMAIN accounts : accounts[j].kakao # k
    BY <1>2 DEF FindByKakaoId
  <2>3. [accounts[i] EXCEPT !.kakao = k] \in Rows
    BY <2>1 DEF Rows
  <2>4. accounts' \in Seq(Rows) /\ DOMAIN accounts' = DOMAIN accounts
    BY <1>2, <2>1, <2>3
  <2>5. \A j \in DOMAIN accounts :
           /\ j # i => accounts'[j] = accounts[j]
           /\ j = i => accounts'[j].kakao = k /\ accounts'[j].email = accounts[j].email
    BY <1>2, <2>1 DEF Rows
  <2>6. OneAccountEach'
    BY <2>2, <2>4, <2>5 DEF OneAccountEach
  <2>. QED BY <2>4, <2>6
<1>3. CASE /\ FindByKakaoId(k) = {} /\ FindByEmail(e) = {}
           /\ accounts' = Append(accounts, [email |-> e, kakao |-> k])
  <2>1. \A j \in DOMAIN accounts : accounts[j].kakao # k /\ accounts[j].email # e
    BY <1>3 DEF FindByKakaoId, FindByEmail
  <2>2. [email |-> e, kakao |-> k] \in Rows
    BY DEF Rows
  <2>3. accounts' \in Seq(Rows) /\ Len(accounts') = Len(accounts) + 1
    BY <1>3, <2>2
  <2>4. \A j \in DOMAIN accounts' :
           \/ j \in DOMAIN accounts /\ accounts'[j] = accounts[j]
           \/ j = Len(accounts) + 1 /\ accounts'[j] = [email |-> e, kakao |-> k]
    BY <1>3, <2>2, <2>3
  <2>5. OneAccountEach'
    BY <2>1, <2>4 DEF OneAccountEach
  <2>. QED BY <2>3, <2>5
<1>. QED BY <1>1, <1>2, <1>3 DEF AccountFor

LEMMA NextRows == RowsInv /\ [SessionsNext]_sessionVars => RowsInv'
<1>. SUFFICES ASSUME RowsInv, [SessionsNext]_sessionVars PROVE RowsInv'
  OBVIOUS
<1>. DEFINE Temps == \A t \in DOMAIN temps : temps[t] \in KakaoUsers
<1>Register. ASSUME NEW b \in Browsers, NEW e \in Emails, Register(b, e)
             PROVE  RowsInv'
  <2>1. temps[Shown(b)] \in KakaoUsers
    BY <1>Register DEF Register, MayRegister, RowsInv
  <2>2. accounts' \in Seq(Rows) /\ OneAccountEach'
    BY <1>Register, <2>1, AccountForKeepsRows DEF Register
  <2>3. Temps'
    BY <1>Register DEF Register, RowsInv, Without
  <2>. QED BY <2>2, <2>3 DEF RowsInv
<1>RegisterFailsLate.
        ASSUME NEW b \in Browsers, NEW e \in Emails, RegisterFailsLate(b, e)
        PROVE  RowsInv'
  <2>1. temps[Shown(b)] \in KakaoUsers
    BY <1>RegisterFailsLate DEF RegisterFailsLate, MayRegister, RowsInv
  <2>2. accounts' \in Seq(Rows) /\ OneAccountEach'
    BY <1>RegisterFailsLate, <2>1, AccountForKeepsRows DEF RegisterFailsLate
  <2>3. Temps'
    BY <1>RegisterFailsLate DEF RegisterFailsLate, RowsInv, Without
  <2>. QED BY <2>2, <2>3 DEF RowsInv
<1>CallbackUnknown.
        ASSUME NEW b \in Browsers, NEW k \in UsersOf[b], CallbackUnknown(b, k)
        PROVE  RowsInv'
  <2>1. k \in KakaoUsers
    BY SessionsAssumption
  <2>. QED BY <1>CallbackUnknown, <2>1 DEF CallbackUnknown, RowsInv, OneAccountEach, With
<1>TempExpires. ASSUME NEW t \in DOMAIN temps, TempExpires(t) PROVE RowsInv'
  BY <1>TempExpires DEF TempExpires, RowsInv, OneAccountEach, Without
<1>Others. CASE UNCHANGED <<accounts, temps>>
  BY <1>Others DEF RowsInv, OneAccountEach
<1>. QED
  BY <1>Register, <1>RegisterFailsLate, <1>CallbackUnknown, <1>TempExpires, <1>Others
     DEF SessionsNext, sessionVars, RequestLink, StateExpires, CallbackFails, Logout,
         CallbackRegistered, CallbackFailsLate, CookieExpires, Redirection,
         PasswordLogin, BearerLogout, SessionExpires

\* No use case ever writes a second account of a Kakao user or an e-mail,
\* whatever was there before, fails half-way or is repeated.
THEOREM UniqueAccounts == SessionsSpec => []OneAccountEach
<1>1. RowsInv => OneAccountEach
  BY DEF RowsInv
<1>. QED BY InitRows, NextRows, <1>1, PTL DEF SessionsSpec

-----------------------------------------------------------------------------
(* Tokens.                                                                 *)

TokenCookies == {"user_token", "session_token", "temp_token"}

\* Tokens are issued in order: no store and no cookie knows one of the future.
TokensInv ==
    /\ issued \in Nat
    /\ DOMAIN temps \subseteq 1 .. issued /\ DOMAIN sessions \subseteq 1 .. issued
    /\ jar \in [Browsers -> [Cookies -> Nat]]
    /\ \A b \in Browsers : \A c \in TokenCookies : jar[b][c] <= issued

LEMMA InitTokens == SessionsInit => TokensInv
<1>. SUFFICES ASSUME SessionsInit PROVE TokensInv
  OBVIOUS
<1>1. DOMAIN temps = {} /\ DOMAIN sessions = {}
  BY DEF SessionsInit
<1>2. jar = [b \in Browsers |-> [c \in Cookies |-> None]] /\ issued = 0
  BY DEF SessionsInit
<1>3. jar \in [Browsers -> [Cookies -> Nat]]
  BY <1>2 DEF None
<1>4. \A b \in Browsers : \A c \in TokenCookies : jar[b][c] <= issued
  BY <1>2 DEF None, Cookies, TokenCookies
<1>. QED BY <1>1, <1>2, <1>3, <1>4 DEF TokensInv

\* A step leaves a store alone, takes a token from it or adds the new one.
Moves(store, new) ==
    \/ new = store
    \/ \E t : new = Without(store, t)
    \/ issued' = Token /\ \E v : new = With(store, v)

\* A cookie is kept, forgotten or told the new token.
JarMoves ==
    /\ jar' \in [Browsers -> [Cookies -> Nat]]
    /\ \A b \in Browsers : \A c \in TokenCookies :
          \/ jar'[b][c] \in {jar[b][c], None}
          \/ issued' = Token /\ jar'[b][c] = Token

\* What a store knows under tokens issued before it has known all along.
Old(store, new) ==
    \A t \in DOMAIN new : t # Token => t \in DOMAIN store /\ new[t] = store[t]

LEMMA Moved ==
    ASSUME issued \in Nat, issued' \in {issued, Token},
           NEW store, DOMAIN store \subseteq 1 .. issued, NEW new, Moves(store, new)
    PROVE  DOMAIN new \subseteq 1 .. issued' /\ Old(store, new)
<1>1. CASE new = store
  BY <1>1 DEF Token, Old
<1>2. ASSUME NEW t, new = Without(store, t)
      PROVE  DOMAIN new \subseteq 1 .. issued' /\ Old(store, new)
  BY <1>2 DEF Without, Token, Old
<1>3. ASSUME issued' = Token, NEW v, new = With(store, v)
      PROVE  DOMAIN new \subseteq 1 .. issued' /\ Old(store, new)
  BY <1>3 DEF With, Token, Old
<1>. QED BY <1>1, <1>2, <1>3 DEF Moves

LEMMA TokensMove ==
    ASSUME TokensInv, issued' \in {issued, Token}, Moves(temps, temps'),
           Moves(sessions, sessions'), JarMoves
    PROVE  TokensInv' /\ Old(temps, temps') /\ Old(sessions, sessions')
<1>1. issued \in Nat /\ issued' \in Nat /\ issued' >= issued
  BY DEF TokensInv, Token
<1>2. /\ DOMAIN temps' \subseteq 1 .. issued' /\ Old(temps, temps')
      /\ DOMAIN sessions' \subseteq 1 .. issued' /\ Old(sessions, sessions')
  BY Moved DEF TokensInv
<1>3. ASSUME NEW b \in Browsers, NEW c \in TokenCookies PROVE jar'[b][c] <= issued'
  <2>1. jar[b][c] \in Nat /\ jar[b][c] <= issued
    BY DEF TokensInv, TokenCookies, Cookies
  <2>2. \/ jar'[b][c] \in {jar[b][c], None}
        \/ issued' = Token /\ jar'[b][c] = Token
    BY DEF JarMoves
  <2>. QED BY <1>1, <2>1, <2>2 DEF None, Token
<1>. QED BY <1>1, <1>2, <1>3 DEF TokensInv, JarMoves

LEMMA NextTokens ==
    ASSUME TokensInv, RowsInv, [SessionsNext]_sessionVars
    PROVE  TokensInv' /\ Old(temps, temps') /\ Old(sessions, sessions')
<1>. DEFINE Goal == /\ issued' \in {issued, Token}
                    /\ Moves(temps, temps') /\ Moves(sessions, sessions') /\ JarMoves
<1>0. /\ Token \in Nat
      /\ jar \in [Browsers -> [Cookies -> Nat]]
      /\ UNCHANGED jar => JarMoves
  BY DEF TokensInv, Token, JarMoves
<1>RequestLink. ASSUME NEW b \in Browsers, RequestLink(b) \/ StateExpires(b) \/ CallbackFails(b)
                PROVE  Goal
  BY <1>RequestLink, <1>0 DEF RequestLink, StateExpires, CallbackFails, Moves
<1>CallbackRegistered.
        ASSUME NEW b \in Browsers, NEW k \in UsersOf[b], CallbackRegistered(b, k)
        PROVE  Goal
  <2>1. PICK i \in KnownAs(k) :
           /\ sessions' = With(sessions, ForAccount(i))
           /\ jar' = [jar EXCEPT ![b].user_token = Token, ![b].account_id = i]
    BY <1>CallbackRegistered DEF CallbackRegistered
  <2>2. i \in Nat
    BY DEF KnownAs, FindByKakaoId, FindByEmail, RowsInv
  <2>3. issued' = Token /\ temps' = temps
    BY <1>CallbackRegistered DEF CallbackRegistered, Issue
  <2>4. JarMoves
    BY <1>0, <2>1, <2>2, <2>3 DEF JarMoves, Cookies, TokenCookies
  <2>. QED BY <2>1, <2>3, <2>4 DEF Moves
<1>CallbackUnknown.
        ASSUME NEW b \in Browsers, NEW k \in UsersOf[b], CallbackUnknown(b, k)
        PROVE  Goal
  <2>1. JarMoves
    BY <1>CallbackUnknown, <1>0 DEF CallbackUnknown, Issue, JarMoves, Cookies, TokenCookies
  <2>. QED BY <1>CallbackUnknown, <2>1 DEF CallbackUnknown, Issue, Moves
<1>CallbackFailsLate.
        ASSUME NEW b \in Browsers, NEW k \in UsersOf[b], CallbackFailsLate(b, k)
        PROVE  Goal
  BY <1>CallbackFailsLate, <1>0 DEF CallbackFailsLate, Issue, Moves
<1>Redirection. ASSUME NEW u, Redirection(u) \/ PasswordLogin(u) PROVE Goal
  BY <1>Redirection, <1>0 DEF Redirection, PasswordLogin, Issue, Moves
<1>Register. ASSUME NEW b \in Browsers, NEW e \in Emails, Register(b, e) PROVE Goal
  <2>1. PICK i \in 1 .. Len(accounts) + 1 :
           /\ sessions' = With(sessions, ForAccount(i))
           /\ jar' = [jar EXCEPT ![b].session_token = Token,
                                 ![b].account_id = i, ![b].temp_token = None]
    BY <1>Register DEF Register
  <2>2. i \in Nat
    OBVIOUS
  <2>3. issued' = Token /\ temps' = Without(temps, Shown(b))
    BY <1>Register DEF Register, Issue
  <2>4. JarMoves
    BY <1>0, <2>1, <2>2, <2>3 DEF JarMoves, Cookies, TokenCookies, None
  <2>. QED BY <2>1, <2>3, <2>4 DEF Moves
<1>RegisterFailsLate.
        ASSUME NEW b \in Browsers, NEW e \in Emails, RegisterFailsLate(b, e)
        PROVE  Goal
  BY <1>RegisterFailsLate, <1>0 DEF RegisterFailsLate, Moves
<1>Logout. ASSUME NEW b \in Browsers, Logout(b) PROVE Goal
  <2>1. jar' = [jar EXCEPT ![b] = [c \in Cookies |->
                   IF c = "temp_token" THEN jar[b][c] ELSE None]]
    BY <1>Logout DEF Logout
  <2>2. JarMoves
    BY <1>0, <2>1 DEF JarMoves, Cookies, TokenCookies, None
  <2>. QED BY <1>Logout, <2>2 DEF Logout, Moves
<1>CookieExpires. ASSUME NEW b \in Browsers, NEW c \in Cookies, CookieExpires(b, c) PROVE Goal
  <2>1. JarMoves
    BY <1>CookieExpires, <1>0 DEF CookieExpires, JarMoves, Cookies, TokenCookies, None
  <2>. QED BY <1>CookieExpires, <2>1 DEF CookieExpires, Moves
<1>SessionExpires. ASSUME NEW t, BearerLogout(t) \/ SessionExpires(t) \/ TempExpires(t)
                   PROVE  Goal
  BY <1>SessionExpires, <1>0 DEF BearerLogout, SessionExpires, TempExpires, Moves
<1>Stutter. ASSUME UNCHANGED sessionVars PROVE Goal
  BY <1>Stutter, <1>0 DEF sessionVars, Moves
<1>. QED
  BY <1>RequestLink, <1>CallbackRegistered, <1>CallbackUnknown, <1>CallbackFailsLate,
     <1>Redirection, <1>Register, <1>RegisterFailsLate, <1>Logout, <1>CookieExpires,
     <1>SessionExpires, <1>Stutter, TokensMove DEF SessionsNext

-----------------------------------------------------------------------------
(* The accounts of a Kakao user.                                           *)

\* What is k's: the accounts of its Kakao id and of its e-mail.
Mine(k) == FindByKakaoId(k) \cup FindByEmail(KakaoEmail[k])

LEMMA KnownIsMine == \A k \in KakaoUsers : KnownAs(k) \subseteq Mine(k)
  BY DEF KnownAs, Mine

\* A registration gives a Kakao user the account it names; every other row
\* stays, and of a row that was there before the e-mail and the Kakao id of a
\* registered user do.
LEMMA AccountForRows ==
    ASSUME RowsInv, NEW k \in KakaoUsers, NEW e \in Emails,
           NEW i \in 1 .. Len(accounts) + 1, AccountFor(k, e, i)
    PROVE  /\ DOMAIN accounts \subseteq DOMAIN accounts'
           /\ i \in DOMAIN accounts' /\ accounts'[i].kakao = k
           /\ \A j \in DOMAIN accounts' :
                 j # i => j \in DOMAIN accounts /\ accounts'[j] = accounts[j]
           /\ \A j \in DOMAIN accounts :
                 /\ accounts'[j].email = accounts[j].email
                 /\ accounts[j].kakao \in KakaoUsers =>
                       accounts'[j].kakao = accounts[j].kakao
<1>. USE DEF RowsInv
<1>1. CASE i \in FindByKakaoId(k) /\ UNCHANGED accounts
  BY <1>1 DEF FindByKakaoId
<1>2. CASE /\ FindByKakaoId(k) = {} /\ i \in FindByEmail(e)
           /\ accounts[i].kakao = accounts[i].email
           /\ accounts' = [accounts EXCEPT ![i].kakao = k]
  <2>1. i \in DOMAIN accounts /\ accounts[i] \in Rows
    BY <1>2 DEF FindByEmail
  <2>2. DOMAIN accounts' = DOMAIN accounts
    BY <1>2
  <2>3. accounts[i].kakao \notin KakaoUsers
    BY <1>2, <2>1, SessionsAssumption DEF Rows
  <2>4. \A j \in DOMAIN accounts : j # i => accounts'[j] = accounts[j]
    BY <1>2
  <2>5. accounts'[i].kakao = k /\ accounts'[i].email = accounts[i].email
    BY <1>2, <2>1 DEF Rows
  <2>. QED BY <2>1, <2>2, <2>3, <2>4, <2>5
<1>3. CASE /\ accounts' = Append(accounts, [email |-> e, kakao |-> k])
           /\ i = Len(accounts) + 1
  <2>. DEFINE row == [email |-> e, kakao |-> k]
  <2>1. row \in Rows /\ row.kakao = k
    BY DEF Rows
  <2>. HIDE DEF row
  <2>2. /\ DOMAIN accounts' = 1 .. Len(accounts) + 1 /\ DOMAIN accounts = 1 .. Len(accounts)
        /\ \A j \in 1 .. Len(accounts) : accounts'[j] = accounts[j]
        /\ accounts'[i] = row
        /\ Len(accounts) \in Nat
    BY <1>3, <2>1 DEF row
  <2>. QED BY <1>3, <2>1, <2>2
<1>. QED BY <1>1, <1>2, <1>3 DEF AccountFor

\* Registration is the only thing that touches accounts.
LEMMA AccountsMove ==
    ASSUME RowsInv, [SessionsNext]_sessionVars
    PROVE  \/ UNCHANGED accounts
           \/ \E k \in KakaoUsers, e \in Emails, i \in 1 .. Len(accounts) + 1 :
                 (\E t \in DOMAIN temps : temps[t] = k) /\ AccountFor(k, e, i)
<1>1. ASSUME NEW b \in Browsers, NEW e \in Emails, Register(b, e) \/ RegisterFailsLate(b, e)
      PROVE  \E k \in KakaoUsers, i \in 1 .. Len(accounts) + 1 :
                (\E t \in DOMAIN temps : temps[t] = k) /\ AccountFor(k, e, i)
  <2>1. Shown(b) \in DOMAIN temps /\ temps[Shown(b)] \in KakaoUsers
    BY <1>1 DEF Register, RegisterFailsLate, MayRegister, RowsInv
  <2>2. \E i \in 1 .. Len(accounts) + 1 : AccountFor(temps[Shown(b)], e, i)
    BY <1>1 DEF Register, RegisterFailsLate
  <2>. QED BY <2>1, <2>2
<1>. QED BY <1>1 DEF SessionsNext, sessionVars, RequestLink, StateExpires, CallbackFails, Logout,
        CallbackRegistered, CallbackUnknown, CallbackFailsLate, CookieExpires, Redirection,
        PasswordLogin, BearerLogout, SessionExpires, TempExpires

\* What was k's remains k's.
LEMMA MineGrows ==
    ASSUME RowsInv, [SessionsNext]_sessionVars, NEW k \in KakaoUsers
    PROVE  Mine(k) \subseteq Mine(k)'
<1>1. CASE UNCHANGED accounts
  BY <1>1 DEF Mine, FindByKakaoId, FindByEmail
<1>2. ASSUME NEW l \in KakaoUsers, NEW e \in Emails, NEW i \in 1 .. Len(accounts) + 1,
             AccountFor(l, e, i)
      PROVE  Mine(k) \subseteq Mine(k)'
  BY <1>2, AccountForRows DEF Mine, FindByKakaoId, FindByEmail
<1>. QED BY <1>1, <1>2, AccountsMove

\* While an account of an earlier version has k's e-mail, k is known by it: it
\* never gets a temporary token, and so no second account.
LegacyInv(k) ==
    \A i \in FindByEmail(KakaoEmail[k]) :
        accounts[i].kakao = accounts[i].email =>
            /\ \A t \in DOMAIN temps : temps[t] # k
            /\ FindByKakaoId(k) = {}

LEMMA InitLegacy == ASSUME SessionsInit, NEW k \in KakaoUsers PROVE LegacyInv(k)
<1>1. PICK n \in 0 .. Cardinality(Legacy) :
         accounts \in [1 .. n -> {LegacyRow(e) : e \in Legacy}]
  BY DEF SessionsInit
<1>2. \A i \in DOMAIN accounts : accounts[i].kakao \in Emails
  BY <1>1, SessionsAssumption DEF LegacyRow
<1>3. FindByKakaoId(k) = {}
  BY <1>2, SessionsAssumption DEF FindByKakaoId
<1>4. DOMAIN temps = {}
  BY DEF SessionsInit
<1>. QED BY <1>3, <1>4 DEF LegacyInv

LEMMA NextLegacy ==
    ASSUME RowsInv, RowsInv', TokensInv, [SessionsNext]_sessionVars, NEW k \in KakaoUsers, LegacyInv(k)
    PROVE  LegacyInv(k)'
<1>1. ASSUME NEW i \in FindByEmail(KakaoEmail[k]), accounts[i].kakao = accounts[i].email
      PROVE  \A t \in DOMAIN temps' : temps'[t] # k
  <2>1. KnownAs(k) # {}
    <3>1. KakaoEmail[k] # NoEmail
      <4>1. i \in DOMAIN accounts /\ accounts[i].email = KakaoEmail[k]
        BY <1>1 DEF FindByEmail
      <4>2. accounts[i] \in Rows
        BY <4>1 DEF RowsInv
      <4>3. accounts[i].email \in Emails
        BY <4>2 DEF Rows
      <4>. QED BY <4>1, <4>3, SessionsAssumption
    <3>. QED BY <1>1, <3>1 DEF KnownAs
  <2>2. \A t \in DOMAIN temps : temps[t] # k
    BY <1>1 DEF LegacyInv
  <2>3. ASSUME NEW b \in Browsers, NEW l \in UsersOf[b], CallbackUnknown(b, l)
        PROVE  \A t \in DOMAIN temps' : temps'[t] # k
    BY <2>1, <2>2, <2>3 DEF CallbackUnknown, With
  <2>4. CASE \E t : temps' = Without(temps, t)
    BY <2>2, <2>4 DEF Without
  <2>5. CASE UNCHANGED temps
    BY <2>2, <2>5
  <2>. QED BY <2>3, <2>4, <2>5 DEF SessionsNext, sessionVars, RequestLink, StateExpires, CallbackFails,
          Logout, Register, RegisterFailsLate, CallbackRegistered, CallbackFailsLate,
          CookieExpires, Redirection, PasswordLogin, BearerLogout, SessionExpires, TempExpires
<1>2. CASE UNCHANGED accounts
  BY <1>1, <1>2 DEF LegacyInv, FindByEmail, FindByKakaoId
<1>3. ASSUME NEW l \in KakaoUsers, NEW e \in Emails, NEW i \in 1 .. Len(accounts) + 1,
             AccountFor(l, e, i), \E t \in DOMAIN temps : temps[t] = l
      PROVE  LegacyInv(k)'
  <2>. SUFFICES ASSUME NEW j \in DOMAIN accounts', accounts'[j].email = KakaoEmail[k],
                       accounts'[j].kakao = accounts'[j].email
                PROVE  /\ \A t \in DOMAIN temps' : temps'[t] # k
                       /\ \A m \in DOMAIN accounts' : accounts'[m].kakao # k
    BY DEF LegacyInv, FindByEmail, FindByKakaoId
  <2>1. accounts'[j] \in Rows
    BY DEF RowsInv
  <2>2. j # i
    BY <1>3, <2>1, AccountForRows, SessionsAssumption DEF Rows
  <2>3. j \in DOMAIN accounts /\ accounts[j] = accounts'[j]
    BY <1>3, <2>2, AccountForRows
  <2>4. j \in FindByEmail(KakaoEmail[k]) /\ accounts[j].kakao = accounts[j].email
    BY <2>3 DEF FindByEmail
  <2>5. l # k /\ \A m \in DOMAIN accounts : accounts[m].kakao # k
    BY <1>3, <2>4 DEF LegacyInv, FindByKakaoId
  <2>6. \A m \in DOMAIN accounts' : accounts'[m].kakao # k
    BY <1>3, <2>5, AccountForRows
  <2>. QED BY <1>1, <2>4, <2>6
<1>. QED BY <1>2, <1>3, AccountsMove

-----------------------------------------------------------------------------
(* Who a browser is that one Kakao user has to itself.                     *)

\* Every cookie of the browser leads to k or to an account of k's, or nowhere.
TempIsOf(b, k) == jar[b].temp_token \in DOMAIN temps => temps[jar[b].temp_token] = k
IdIsOf(b, k) == jar[b].account_id \in {None} \cup Mine(k)
SessionIsOf(b, k, c) ==
    \A i : jar[b][c] \in DOMAIN sessions /\ sessions[jar[b][c]] = ForAccount(i) =>
              i \in Mine(k)
JarInv(b, k) ==
    /\ TempIsOf(b, k) /\ IdIsOf(b, k)
    /\ SessionIsOf(b, k, "user_token") /\ SessionIsOf(b, k, "session_token")

LEMMA InitJar ==
    ASSUME SessionsInit, NEW b \in Browsers, NEW k \in KakaoUsers
    PROVE  JarInv(b, k)
<1>1. DOMAIN temps = {} /\ DOMAIN sessions = {} /\ jar[b].account_id = None
  BY DEF SessionsInit, Cookies
<1>. QED BY <1>1 DEF JarInv, TempIsOf, IdIsOf, SessionIsOf

\* A token cookie that is kept or forgotten is no worse than before.
LEMMA KeptTemp ==
    ASSUME TokensInv, TokensInv', Old(temps, temps'), NEW b \in Browsers, NEW k,
           TempIsOf(b, k), jar'[b].temp_token \in {jar[b].temp_token, None}
    PROVE  TempIsOf(b, k)'
<1>1. jar[b].temp_token # Token
  BY DEF TokensInv, TokenCookies, Cookies, Token
<1>2. None \notin DOMAIN temps'
  BY DEF TokensInv, None
<1>. QED BY <1>1, <1>2 DEF Old, TempIsOf

LEMMA KeptSession ==
    ASSUME TokensInv, TokensInv', Old(sessions, sessions'), NEW b \in Browsers, NEW k,
           Mine(k) \subseteq Mine(k)', NEW c \in {"user_token", "session_token"},
           SessionIsOf(b, k, c), jar'[b][c] \in {jar[b][c], None}
    PROVE  SessionIsOf(b, k, c)'
<1>1. jar[b][c] # Token
  BY DEF TokensInv, TokenCookies, Cookies, Token
<1>2. None \notin DOMAIN sessions'
  BY DEF TokensInv, None
<1>. QED BY <1>1, <1>2 DEF Old, SessionIsOf

\* A cookie that tells the new token leads to the account it was issued for.
LEMMA NewSession ==
    ASSUME NEW b, NEW k, NEW c, NEW i, i \in Mine(k)', jar'[b][c] = Token,
           sessions' = With(sessions, ForAccount(i))
    PROVE  SessionIsOf(b, k, c)'
<1>1. sessions'[Token] = ForAccount(i)
  BY DEF With
<1>2. \A j : ForAccount(j) = ForAccount(i) => j = i
  BY DEF ForAccount
<1>. QED BY <1>1, <1>2 DEF SessionIsOf

LEMMA NextJar ==
    ASSUME RowsInv, TokensInv, [SessionsNext]_sessionVars, NEW b \in Browsers, NEW k \in KakaoUsers,
           UsersOf[b] = {k}, JarInv(b, k)
    PROVE  JarInv(b, k)'
<1>0. /\ TokensInv' /\ Old(temps, temps') /\ Old(sessions, sessions')
      /\ Mine(k) \subseteq Mine(k)'
  BY NextTokens, MineGrows
<1>1. jar \in [Browsers -> [Cookies -> Nat]]
  BY DEF TokensInv
<1>Kept. ASSUME \A c \in Cookies : jar'[b][c] \in {jar[b][c], None}
         PROVE  JarInv(b, k)'
  <2>1. /\ jar'[b].temp_token \in {jar[b].temp_token, None}
        /\ jar'[b].account_id \in {jar[b].account_id, None}
        /\ jar'[b].user_token \in {jar[b].user_token, None}
        /\ jar'[b].session_token \in {jar[b].session_token, None}
    BY <1>Kept DEF Cookies
  <2>2. TempIsOf(b, k)'
    BY <1>0, <2>1, KeptTemp DEF JarInv
  <2>3. IdIsOf(b, k)'
    BY <1>0, <2>1 DEF JarInv, IdIsOf
  <2>4. SessionIsOf(b, k, "user_token")' /\ SessionIsOf(b, k, "session_token")'
    BY <1>0, <2>1, KeptSession DEF JarInv
  <2>. QED BY <2>2, <2>3, <2>4 DEF JarInv
<1>CallbackRegistered. CASE CallbackRegistered(b, k)
  <2>1. PICK i \in KnownAs(k) :
           /\ sessions' = With(sessions, ForAccount(i))
           /\ jar' = [jar EXCEPT ![b].user_token = Token, ![b].account_id = i]
    BY <1>CallbackRegistered DEF CallbackRegistered
  <2>2. i \in Mine(k)'
    BY <1>0, KnownIsMine
  <2>3. /\ jar'[b].user_token = Token /\ jar'[b].account_id = i
        /\ jar'[b].temp_token = jar[b].temp_token
        /\ jar'[b].session_token = jar[b].session_token
    BY <1>1, <2>1 DEF Cookies
  <2>4. TempIsOf(b, k)'
    BY <1>0, <2>3, KeptTemp DEF JarInv
  <2>5. IdIsOf(b, k)'
    BY <2>2, <2>3 DEF IdIsOf
  <2>6. SessionIsOf(b, k, "user_token")'
    BY <2>1, <2>2, <2>3, NewSession
  <2>7. SessionIsOf(b, k, "session_token")'
    BY <1>0, <2>3, KeptSession DEF JarInv
  <2>. QED BY <2>4, <2>5, <2>6, <2>7 DEF JarInv
<1>CallbackUnknown. CASE CallbackUnknown(b, k)
  <2>1. temps' = With(temps, k) /\ jar' = [jar EXCEPT ![b].temp_token = Token]
    BY <1>CallbackUnknown DEF CallbackUnknown
  <2>2. /\ jar'[b].temp_token = Token /\ jar'[b].account_id = jar[b].account_id
        /\ jar'[b].user_token = jar[b].user_token
        /\ jar'[b].session_token = jar[b].session_token
    BY <1>1, <2>1 DEF Cookies
  <2>3. TempIsOf(b, k)'
    BY <2>1, <2>2 DEF TempIsOf, With
  <2>4. IdIsOf(b, k)'
    BY <1>0, <2>2 DEF IdIsOf, JarInv
  <2>5. SessionIsOf(b, k, "user_token")' /\ SessionIsOf(b, k, "session_token")'
    BY <1>0, <2>2, KeptSession DEF JarInv
  <2>. QED BY <2>3, <2>4, <2>5 DEF JarInv
<1>Register. ASSUME NEW e \in Emails, Register(b, e) PROVE JarInv(b, k)'
  <2>0. temps[Shown(b)] = k
    BY <1>Register DEF Register, MayRegister, Shown, JarInv, TempIsOf
  <2>1. PICK i \in 1 .. Len(accounts) + 1 :
           /\ AccountFor(k, e, i)
           /\ sessions' = With(sessions, ForAccount(i))
           /\ jar' = [jar EXCEPT ![b].session_token = Token,
                                 ![b].account_id = i, ![b].temp_token = None]
    BY <1>Register, <2>0 DEF Register
  <2>2. i \in Mine(k)'
    BY <2>1, AccountForRows DEF Mine, FindByKakaoId
  <2>3. /\ jar'[b].session_token = Token /\ jar'[b].account_id = i
        /\ jar'[b].temp_token = None /\ jar'[b].user_token = jar[b].user_token
    BY <1>1, <2>1 DEF Cookies
  <2>4. TempIsOf(b, k)'
    BY <1>0, <2>3, KeptTemp DEF JarInv
  <2>5. IdIsOf(b, k)'
    BY <2>2, <2>3 DEF IdIsOf
  <2>6. SessionIsOf(b, k, "session_token")'
    BY <2>1, <2>2, <2>3, NewSession
  <2>7. SessionIsOf(b, k, "user_token")'
    BY <1>0, <2>3, KeptSession DEF JarInv
  <2>. QED BY <2>4, <2>5, <2>6, <2>7 DEF JarInv
<1>Logout. CASE Logout(b)
  <2>1. jar' = [jar EXCEPT ![b] = [c \in Cookies |->
                   IF c = "temp_token" THEN jar[b][c] ELSE None]]
    BY <1>Logout DEF Logout
  <2>. QED BY <1>1, <2>1, <1>Kept
<1>CookieExpires. ASSUME NEW c \in Cookies, CookieExpires(b, c) PROVE JarInv(b, k)'
  BY <1>1, <1>CookieExpires, <1>Kept DEF CookieExpires
<1>Elsewhere. ASSUME NEW a \in Browsers, a # b,
                     \/ \E l \in UsersOf[a] : CallbackRegistered(a, l) \/ CallbackUnknown(a, l)
                     \/ \E e \in Emails : Register(a, e)
                     \/ Logout(a) \/ \E c \in Cookies : CookieExpires(a, c)
              PROVE  JarInv(b, k)'
  <2>1. jar'[b] = jar[b]
    BY <1>1, <1>Elsewhere DEF CallbackRegistered, CallbackUnknown, Register, Logout, CookieExpires
  <2>. QED BY <2>1, <1>Kept
<1>Unseen. CASE UNCHANGED jar
  BY <1>Unseen, <1>Kept
<1>. QED
  <2>1. ASSUME NEW a \in Browsers, NEW l \in UsersOf[a],
               CallbackRegistered(a, l) \/ CallbackUnknown(a, l)
        PROVE  JarInv(b, k)'
    BY <2>1, <1>CallbackRegistered, <1>CallbackUnknown, <1>Elsewhere
  <2>2. ASSUME NEW a \in Browsers, NEW e \in Emails, Register(a, e) PROVE JarInv(b, k)'
    BY <2>2, <1>Register, <1>Elsewhere
  <2>3. ASSUME NEW a \in Browsers, Logout(a) PROVE JarInv(b, k)'
    BY <2>3, <1>Logout, <1>Elsewhere
  <2>4. ASSUME NEW a \in Browsers, NEW c \in Cookies, CookieExpires(a, c) PROVE JarInv(b, k)'
    BY <2>4, <1>CookieExpires, <1>Elsewhere
  <2>. QED BY <2>1, <2>2, <2>3, <2>4, <1>Unseen
          DEF SessionsNext, sessionVars, RequestLink, StateExpires, CallbackFails, CallbackFailsLate,
              RegisterFailsLate, Redirection, PasswordLogin, BearerLogout,
              SessionExpires, TempExpires

\* All that a browser of k's own may be to a route is k's.
LEMMA IdentitiesAreMine ==
    ASSUME NEW b \in Browsers, NEW k \in KakaoUsers, RowsInv, JarInv(b, k)
    PROVE  Identities(b) \subseteq Mine(k)
<1>1. OfSession(b, "user_token") \subseteq Mine(k)
         /\ OfSession(b, "session_token") \subseteq Mine(k)
  BY DEF JarInv, SessionIsOf, OfSession
<1>2. ResolveAccountId(b) \subseteq Mine(k)
  BY <1>1 DEF ResolveAccountId, JarInv, IdIsOf
<1>3. None \notin DOMAIN accounts
  BY DEF RowsInv, None
<1>4. SettingsAccount(b) \subseteq Mine(k)
  BY <1>3 DEF SettingsAccount, JarInv, IdIsOf
<1>. QED BY <1>1, <1>2, <1>4 DEF Identities, Me, CurrentAccount, AdminAccount

\* And of k there is one account, if k's e-mail is its own: one of another
\* e-mail beside an old one of k's e-mail is what LegacyInv excludes.
LEMMA MineIsOne ==
    ASSUME NEW k \in KakaoUsers, RowsInv, LegacyInv(k), OwnEmail(k),
           NEW i \in Mine(k), NEW j \in Mine(k)
    PROVE  i = j
<1>1. \A m, n \in FindByKakaoId(k) : m = n
  BY DEF FindByKakaoId, RowsInv, OneAccountEach
<1>2. \A m, n \in FindByEmail(KakaoEmail[k]) : m = n
  BY DEF FindByEmail, RowsInv, OneAccountEach
<1>3. ASSUME NEW m \in FindByEmail(KakaoEmail[k]), FindByKakaoId(k) # {}
      PROVE  m \in FindByKakaoId(k)
  <2>1. m \in DOMAIN accounts /\ accounts[m].email = KakaoEmail[k]
    BY <1>3 DEF FindByEmail
  <2>2. accounts[m].kakao # KakaoEmail[k]
    BY <1>3, <2>1 DEF LegacyInv
  <2>3. accounts[m].kakao = k
    BY <1>3, <2>2 DEF OwnEmail
  <2>. QED BY <2>1, <2>3 DEF FindByKakaoId
<1>. QED BY <1>1, <1>2, <1>3 DEF Mine

LEMMA AtMostOne ==
    ASSUME NEW S, \A x, y \in S : x = y
    PROVE  Cardinality(S) <= 1
<1>1. CASE S = {}
  BY <1>1, FS_EmptySet
<1>2. CASE S # {}
  <2>1. PICK x \in S : S = {x}
    BY <1>2
  <2>2. Cardinality({x}) = 1
    BY FS_Singleton
  <2>. QED BY <2>1, <2>2
<1>. QED BY <1>1, <1>2

IdentityInv ==
    /\ RowsInv /\ TokensInv
    /\ \A k \in KakaoUsers : LegacyInv(k)
    /\ \A b \in Browsers, k \in KakaoUsers : UsersOf[b] = {k} => JarInv(b, k)

\* A browser that one Kakao user has to itself is one account to every route,
\* or none, for any number of browsers, users and tokens.
THEOREM OneIdentityEach == SessionsSpec => []OneIdentity
<1>1. SessionsInit => IdentityInv
  BY InitRows, InitTokens, InitLegacy, InitJar DEF IdentityInv
<1>2. IdentityInv /\ [SessionsNext]_sessionVars => IdentityInv'
  <2>. SUFFICES ASSUME IdentityInv, [SessionsNext]_sessionVars PROVE IdentityInv'
    OBVIOUS
  <2>1. RowsInv' /\ TokensInv'
    BY NextRows, NextTokens DEF IdentityInv
  <2>2. \A k \in KakaoUsers : LegacyInv(k)'
    BY <2>1, NextLegacy DEF IdentityInv
  <2>3. \A b \in Browsers, k \in KakaoUsers : UsersOf[b] = {k} => JarInv(b, k)'
    BY NextJar DEF IdentityInv
  <2>. QED BY <2>1, <2>2, <2>3 DEF IdentityInv
<1>3. IdentityInv => OneIdentity
  <2>. SUFFICES ASSUME IdentityInv, NEW b \in Browsers, NEW k \in KakaoUsers,
                       UsersOf[b] = {k}, OwnEmail(k)
                PROVE  Cardinality(Identities(b)) <= 1
    BY DEF OneIdentity
  <2>1. Identities(b) \subseteq Mine(k)
    BY IdentitiesAreMine DEF IdentityInv
  <2>2. \A i, j \in Mine(k) : i = j
    BY MineIsOne DEF IdentityInv
  <2>. QED BY <2>1, <2>2, AtMostOne
<1>. QED BY <1>1, <1>2, <1>3, PTL DEF SessionsSpec

(***************************************************************************)
(* Backoffice: the pages of members and the figures of the dashboard.      *)
(***************************************************************************)

\* Nobody else was created in the member's second; who stands before him then,
\* whatever order the database returns.
Alone(a) == \A b \in MemberIds \ {a} : members[b].created # members[a].created
Above(a) == {b \in MemberIds : members[b].created > members[a].created}

MembersTyped ==
    /\ clock \in Nat
    /\ members \in Seq([created : Nat, role : {"NORMAL", "ADMIN"}])
    /\ \A a \in MemberIds : members[a].created <= clock

\* Who was known and is on none of the pages read stands behind all of them.
WalkInv ==
    walk # NoWalk =>
       /\ DOMAIN walk = {"page", "known", "seen"}
       /\ walk.page \in Nat \ {0} /\ walk.known \subseteq MemberIds
       /\ \A a \in walk.known \ walk.seen :
             Alone(a) => Cardinality(Above(a)) >= (walk.page - 1) * PageSize

\* Of the cohorts shown today nobody is gone and nobody is new; who came back
\* came back.
FiguresInv ==
    figures # NoFigures =>
       /\ figures.day \in Nat /\ figures.day <= DateOf(clock)
       /\ figures.day = DateOf(clock) =>
            \A n \in 1 .. RetentionDays :
               LET shown == figures.retention[n]
               IN  /\ shown.of \in Nat /\ shown.back \in Nat
                   /\ shown.of = Retention[n].of /\ shown.back <= Retention[n].back

BackofficeInv == MembersTyped /\ WalkInv /\ FiguresInv

LEMMA BackofficeInvInit == BackofficeInit => BackofficeInv
<1>. SUFFICES ASSUME BackofficeInit PROVE BackofficeInv
  OBVIOUS
<1>1. members \in Seq([created : Nat, role : {"NORMAL", "ADMIN"}]) /\ MemberIds = {}
  BY DEF BackofficeInit, MemberIds
<1>. QED BY <1>1 DEF BackofficeInit, BackofficeInv, MembersTyped, WalkInv, FiguresInv

LEMMA PlacesCounted ==
    ASSUME NEW n \in Nat
    PROVE  IsFiniteSet(1 .. n) /\ Cardinality(1 .. n) = n
<1>1. IsFiniteSet(1 .. n)
  BY FS_Interval
<1>2. Cardinality(1 .. n) = n
  BY FS_Interval
<1>. QED BY <1>1, <1>2

LEMMA MembersFinite ==
    ASSUME MembersTyped
    PROVE  /\ MemberIds = 1 .. Len(members) /\ Len(members) \in Nat
           /\ IsFiniteSet(MemberIds) /\ Cardinality(MemberIds) = Len(members)
           /\ \A a \in MemberIds : members[a].created \in Nat
           /\ \A S \in SUBSET MemberIds :
                 IsFiniteSet(S) /\ Cardinality(S) \in Nat /\ Cardinality(S) <= Len(members)
<1>1. MemberIds = 1 .. Len(members) /\ Len(members) \in Nat
  BY DEF MembersTyped, MemberIds
<1>2. IsFiniteSet(MemberIds) /\ Cardinality(MemberIds) = Len(members)
  BY <1>1, PlacesCounted, Zenon
<1>3. \A a \in MemberIds : members[a] \in [created : Nat, role : {"NORMAL", "ADMIN"}]
  BY <1>1, ElementOfSeq DEF MembersTyped
<1>4. \A S \in SUBSET MemberIds :
         IsFiniteSet(S) /\ Cardinality(S) \in Nat /\ Cardinality(S) <= Len(members)
  BY <1>2, FS_Subset, FS_CardinalityType
<1>. QED BY <1>1, <1>2, <1>3, <1>4

-----------------------------------------------------------------------------
(* The place of a member in any order.                                     *)

LEMMA PlaceIsFixed ==
    ASSUME MembersTyped, NEW o \in MemberOrders, NEW a \in MemberIds, Alone(a)
    PROVE  \E i \in MemberIds : o[i] = a /\ Cardinality(Above(a)) = i - 1
<1>1. /\ MemberIds = 1 .. Len(members) /\ Len(members) \in Nat
      /\ IsFiniteSet(MemberIds) /\ \A b \in MemberIds : members[b].created \in Nat
  BY MembersFinite
<1>2. /\ o \in [MemberIds -> MemberIds]
      /\ \A i, j \in MemberIds : o[i] = o[j] => i = j
      /\ \A i, j \in MemberIds : i < j => members[o[i]].created >= members[o[j]].created
  BY DEF MemberOrders, IsInjective
<1>3. o \in Injection(MemberIds, MemberIds)
  BY <1>2 DEF Injection, IsInjective
<1>4. o \in Surjection(MemberIds, MemberIds)
  BY <1>1, <1>3, FS_Injection
<1>5. PICK i \in MemberIds : o[i] = a
  BY <1>4 DEF Surjection
<1>6. \A j \in MemberIds : o[j] \in Above(a) <=> j < i
  <2>1. SUFFICES ASSUME NEW j \in MemberIds PROVE o[j] \in Above(a) <=> j < i
    OBVIOUS
  <2>2. j \in Nat /\ i \in Nat
    BY <1>1
  <2>3. CASE j < i
    <3>1. o[j] # a /\ members[o[j]].created >= members[a].created
      BY <1>2, <1>5, <2>2, <2>3
    <3>. QED BY <1>1, <1>2, <2>3, <3>1 DEF Alone, Above
  <2>4. CASE j = i
    BY <1>1, <1>5, <2>2, <2>4 DEF Above
  <2>5. CASE i < j
    <3>1. members[a].created >= members[o[j]].created
      BY <1>2, <1>5, <2>5
    <3>. QED BY <1>1, <1>2, <2>2, <2>5, <3>1 DEF Above
  <2>. QED BY <2>2, <2>3, <2>4, <2>5
<1>. DEFINE front == [j \in 1 .. i - 1 |-> o[j]]
<1>7. front \in Bijection(1 .. i - 1, Above(a))
  <2>1. 1 .. i - 1 \subseteq MemberIds /\ \A j \in 1 .. i - 1 : j < i
    BY <1>1
  <2>2. \A j \in 1 .. i - 1 : front[j] = o[j] /\ o[j] \in Above(a)
    BY <1>6, <2>1
  <2>3. front \in [1 .. i - 1 -> Above(a)]
    BY <2>2
  <2>4. front \in Injection(1 .. i - 1, Above(a))
    BY <1>2, <2>1, <2>2, <2>3 DEF Injection, IsInjective
  <2>5. ASSUME NEW b \in Above(a) PROVE \E j \in 1 .. i - 1 : front[j] = b
    <3>1. PICK j \in MemberIds : o[j] = b
      BY <1>4, <2>5 DEF Surjection, Above
    <3>2. j \in 1 .. i - 1
      BY <1>1, <1>6, <2>5, <3>1
    <3>. QED BY <2>2, <3>1, <3>2
  <2>. HIDE DEF front
  <2>. QED BY <2>3, <2>4, <2>5 DEF Bijection, Surjection
<1>8. Cardinality(Above(a)) = Cardinality(1 .. i - 1)
  <2>1. IsFiniteSet(1 .. i - 1)
    BY <1>1, FS_Interval
  <2>. HIDE DEF front
  <2>. QED BY <1>7, <2>1, FS_Bijection DEF ExistsBijection
<1>9. Cardinality(1 .. i - 1) = i - 1
  BY <1>1, FS_Interval
<1>. QED BY <1>5, <1>8, <1>9

\* A page is read.
LEMMA PageRead == BackofficeInv /\ GetUsers => WalkInv'
<1>. SUFFICES ASSUME BackofficeInv, GetUsers PROVE WalkInv'
  OBVIOUS
<1>1. PICK o \in MemberOrders :
         walk' = [walk EXCEPT !.page = @ + 1, !.seen = @ \cup Page(o, walk.page)]
  BY DEF GetUsers
<1>2. /\ DOMAIN walk = {"page", "known", "seen"}
      /\ walk.page \in Nat \ {0} /\ walk.known \subseteq MemberIds
      /\ \A a \in walk.known \ walk.seen :
            Alone(a) => Cardinality(Above(a)) >= (walk.page - 1) * PageSize
      /\ members' = members /\ MembersTyped
  BY DEF GetUsers, BackofficeInv, WalkInv
<1>3. /\ DOMAIN walk' = {"page", "known", "seen"} /\ walk'.page = walk.page + 1
      /\ walk'.known = walk.known /\ walk'.seen = walk.seen \cup Page(o, walk.page)
  BY <1>1, <1>2
<1>4. ASSUME NEW a \in walk.known \ walk'.seen, Alone(a)
      PROVE  Cardinality(Above(a)) >= walk.page * PageSize
  <2>1. PICK i \in MemberIds : o[i] = a /\ Cardinality(Above(a)) = i - 1
    BY <1>2, <1>4, PlaceIsFixed
  <2>2. i \in Nat \ {0} /\ i - 1 >= (walk.page - 1) * PageSize
    BY <1>2, <1>3, <1>4, <2>1, MembersFinite
  <2>3. ~((walk.page - 1) * PageSize < i /\ i <= walk.page * PageSize)
    BY <1>3, <1>4, <2>1 DEF Page, MemberOrders
  <2>4. (walk.page - 1) * PageSize \in Int /\ walk.page * PageSize \in Int
    BY <1>2, BackofficeAssumption
  <2>. QED BY <2>1, <2>2, <2>3, <2>4
<1>5. (walk'.page - 1) * PageSize = walk.page * PageSize
  BY <1>2, <1>3
<1>6. \A a \in MemberIds : Alone(a)' = Alone(a) /\ Above(a)' = Above(a)
  BY <1>2 DEF Alone, Above, MemberIds
<1>. QED BY <1>2, <1>3, <1>4, <1>5, <1>6 DEF WalkInv, MemberIds

\* Members may come: whoever stood behind the pages read still does.
LEMMA WalkGoesOn ==
    ASSUME MembersTyped, WalkInv, walk' = walk, MembersTyped',
           MemberIds \subseteq MemberIds',
           \A a \in MemberIds : members'[a].created = members[a].created
    PROVE  WalkInv'
<1>. SUFFICES ASSUME walk # NoWalk, NEW a \in walk.known \ walk.seen, Alone(a)'
     PROVE  a \in MemberIds /\ Cardinality(Above(a)') >= (walk.page - 1) * PageSize
  BY DEF WalkInv
<1>1. a \in MemberIds
  BY DEF WalkInv
<1>2. Alone(a) /\ Above(a) \subseteq Above(a)' /\ Above(a)' \subseteq MemberIds'
  BY <1>1 DEF Alone, Above
<1>3. /\ Cardinality(Above(a)) >= (walk.page - 1) * PageSize
      /\ (walk.page - 1) * PageSize \in Int
  BY <1>2, BackofficeAssumption DEF WalkInv
<1>4. IsFiniteSet(MemberIds')
  <2>1. MemberIds' = 1 .. Len(members') /\ Len(members') \in Nat
    BY DEF MembersTyped, MemberIds
  <2>. QED BY <2>1, FS_Interval
<1>5. IsFiniteSet(Above(a)')
  BY <1>2, <1>4, FS_Subset
<1>6. Cardinality(Above(a)) <= Cardinality(Above(a)')
  BY <1>2, <1>5, FS_Subset
<1>7. Cardinality(Above(a)) \in Nat /\ Cardinality(Above(a)') \in Nat
  BY <1>2, <1>5, FS_Subset, FS_CardinalityType
<1>. QED BY <1>1, <1>3, <1>6, <1>7

-----------------------------------------------------------------------------
(* Days, and the cohorts of the days before this one.                      *)

LEMMA DivBounds ==
    ASSUME NEW a \in Nat, NEW d \in Nat \ {0}
    PROVE  a \div d \in Nat /\ d * (a \div d) <= a /\ a < d * (a \div d) + d
OBVIOUS

LEMMA ProductGrows == \A x, y, z \in Nat : x <= y => x * z <= y * z
OBVIOUS

LEMMA DaysGoForward ==
    ASSUME NEW s \in Nat, NEW t \in Nat, s <= t
    PROVE  DateOf(s) \in Nat /\ DateOf(t) \in Nat /\ DateOf(s) <= DateOf(t)
<1>. DEFINE d == DayLength
            p == s \div d
            q == t \div d
<1>1. p \in Nat /\ q \in Nat /\ d * p <= s /\ t < d * q + d /\ d \in Nat
  BY BackofficeAssumption, DivBounds
<1>. HIDE DEF p, q, d
<1>2. p <= q
  <2>1. SUFFICES ASSUME q + 1 <= p PROVE FALSE
    BY <1>1
  <2>2. (q + 1) * d <= p * d
    BY <1>1, <2>1, ProductGrows
  <2>3. (q + 1) * d = d * q + d /\ p * d = d * p
    BY <1>1
  <2>. QED BY <1>1, <2>2, <2>3
<1>. QED BY <1>1, <1>2 DEF DateOf, p, q, d

\* A rate is one of two numbers.
LEMMA RatesAreNumbers ==
    ASSUME MembersTyped, NEW n \in 1 .. RetentionDays
    PROVE  /\ Retention[n].of \in Nat /\ Retention[n].back \in Nat
           /\ Retention[n].of = (IF Cohort(n) = {} THEN 1 ELSE Cardinality(Cohort(n)))
           /\ Retention[n].back = (IF Cohort(n) = {} THEN 0 ELSE Cardinality(Returned(n)))
<1>1. Cohort(n) \subseteq MemberIds /\ Returned(n) \subseteq MemberIds
  BY DEF Cohort, Returned
<1>2. Cardinality(Cohort(n)) \in Nat /\ Cardinality(Returned(n)) \in Nat
  BY <1>1, MembersFinite
<1>. QED BY <1>2 DEF Retention

\* Within a day the cohorts of the days before it stay, and events are added.
LEMMA RatesRise ==
    ASSUME MembersTyped, MembersTyped', DateOf(clock)' = DateOf(clock),
           events \subseteq events', MemberIds \subseteq MemberIds',
           \A a \in MemberIds : members'[a].created = members[a].created,
           \A a \in MemberIds' \ MemberIds : DateOf(members'[a].created) = DateOf(clock),
           NEW n \in 1 .. RetentionDays
    PROVE  /\ Retention[n].of \in Nat /\ Retention[n].back \in Nat
           /\ Retention'[n].of = Retention[n].of
           /\ Retention'[n].back \in Nat /\ Retention[n].back <= Retention'[n].back
<1>1. DateOf(clock) \in Nat /\ n \in Nat \ {0}
  <2>1. clock \in Nat
    BY DEF MembersTyped
  <2>2. DateOf(clock) \in Nat
    BY <2>1, DaysGoForward
  <2>3. n \in Nat \ {0}
    OBVIOUS
  <2>. QED BY <2>2, <2>3
<1>2. Cohort(n)' = Cohort(n)
  <2>1. ASSUME NEW a \in MemberIds PROVE DateOf(members[a].created)' = DateOf(members[a].created)
    BY DEF DateOf
  <2>2. ASSUME NEW a \in MemberIds' \ MemberIds
        PROVE  DateOf(members[a].created)' + n # DateOf(clock)
    BY <1>1, <2>2 DEF DateOf
  <2>3. Cohort(n)' = {a \in MemberIds' : DateOf(members[a].created)' + n = DateOf(clock)}
    BY DEF Cohort
  <2>. QED BY <2>1, <2>2, <2>3 DEF Cohort
<1>3. Returned(n) \subseteq Returned(n)'
  <2>1. SUFFICES ASSUME NEW a \in Returned(n) PROVE a \in Returned(n)'
    OBVIOUS
  <2>2. a \in MemberIds /\ a \in Cohort(n)'
    BY <1>2 DEF Returned, Cohort
  <2>3. members'[a].created = members[a].created
    BY <2>2
  <2>4. PICK e \in events : e.account = a /\ e.type = "app_open"
                            /\ e.day = DateOf(members[a].created) + n
    BY DEF Returned
  <2>. QED BY <2>2, <2>3, <2>4 DEF Returned, DateOf
<1>4. Returned(n)' \subseteq MemberIds'
  BY DEF Returned, Cohort
<1>5. IsFiniteSet(MemberIds')
  <2>1. MemberIds' = 1 .. Len(members') /\ Len(members') \in Nat
    BY DEF MembersTyped, MemberIds
  <2>. QED BY <2>1, FS_Interval
<1>6. IsFiniteSet(Returned(n)')
  BY <1>4, <1>5, FS_Subset
<1>7. /\ Cardinality(Returned(n)) \in Nat /\ Cardinality(Returned(n)') \in Nat
      /\ Cardinality(Returned(n)) <= Cardinality(Returned(n)')
  BY <1>3, <1>6, FS_Subset, FS_CardinalityType
<1>8. /\ Retention[n].of \in Nat /\ Retention[n].back \in Nat
      /\ Retention[n].of = (IF Cohort(n) = {} THEN 1 ELSE Cardinality(Cohort(n)))
      /\ Retention[n].back = (IF Cohort(n) = {} THEN 0 ELSE Cardinality(Returned(n)))
  BY RatesAreNumbers
<1>9. /\ Retention'[n].of = (IF Cohort(n)' = {} THEN 1 ELSE Cardinality(Cohort(n)'))
      /\ Retention'[n].back = (IF Cohort(n)' = {} THEN 0 ELSE Cardinality(Returned(n)'))
  BY DEF Retention
<1>. QED BY <1>2, <1>7, <1>8, <1>9

LEMMA FiguresGoOn ==
    ASSUME MembersTyped, FiguresInv, MembersTyped', figures' = figures,
           clock <= clock', events \subseteq events', MemberIds \subseteq MemberIds',
           \A a \in MemberIds : members'[a].created = members[a].created,
           \A a \in MemberIds' \ MemberIds : DateOf(members'[a].created) = DateOf(clock)
    PROVE  FiguresInv'
<1>1. DateOf(clock) \in Nat /\ DateOf(clock') \in Nat /\ DateOf(clock) <= DateOf(clock')
  BY DaysGoForward DEF MembersTyped
<1>2. SUFFICES ASSUME figures # NoFigures
               PROVE  /\ figures.day \in Nat /\ figures.day <= DateOf(clock')
                      /\ figures.day = DateOf(clock') =>
                           \A n \in 1 .. RetentionDays :
                              LET shown == figures.retention[n]
                              IN  /\ shown.of \in Nat /\ shown.back \in Nat
                                  /\ shown.of = Retention'[n].of
                                  /\ shown.back <= Retention'[n].back
  BY DEF FiguresInv, DateOf
<1>3. figures.day \in Nat /\ figures.day <= DateOf(clock)
  BY <1>2 DEF FiguresInv
<1>4. ASSUME figures.day = DateOf(clock'), NEW n \in 1 .. RetentionDays
      PROVE  /\ figures.retention[n].of \in Nat /\ figures.retention[n].back \in Nat
             /\ figures.retention[n].of = Retention'[n].of
             /\ figures.retention[n].back <= Retention'[n].back
  <2>1. DateOf(clock') = DateOf(clock) /\ figures.day = DateOf(clock)
    BY <1>1, <1>3, <1>4
  <2>2. DateOf(clock)' = DateOf(clock)
    BY <2>1 DEF DateOf
  <2>3. /\ Retention[n].of \in Nat /\ Retention[n].back \in Nat
        /\ Retention'[n].of = Retention[n].of
        /\ Retention'[n].back \in Nat /\ Retention[n].back <= Retention'[n].back
    BY <2>2, RatesRise
  <2>4. /\ figures.retention[n].of \in Nat /\ figures.retention[n].back \in Nat
        /\ figures.retention[n].of = Retention[n].of
        /\ figures.retention[n].back <= Retention[n].back
    BY <1>2, <2>1 DEF FiguresInv
  <2>. QED BY <2>3, <2>4
<1>. QED BY <1>1, <1>3, <1>4

-----------------------------------------------------------------------------
(* The steps.                                                              *)

\* Steps that add no member.
LEMMA SameMembers ==
    ASSUME BackofficeInv, clock <= clock', clock' \in Nat,
           members' = members
    PROVE  /\ MembersTyped' /\ MemberIds \subseteq MemberIds'
           /\ \A a \in MemberIds : members'[a].created = members[a].created
           /\ \A a \in MemberIds' \ MemberIds : DateOf(members'[a].created) = DateOf(clock)
<1>1. MembersTyped /\ MemberIds' = MemberIds
  BY DEF BackofficeInv, MemberIds
<1>2. \A a \in MemberIds : members[a].created \in Nat
  BY <1>1, MembersFinite
<1>. QED BY <1>1, <1>2 DEF MembersTyped

LEMMA MembersChange ==
    ASSUME BackofficeInv, NewMember \/ UpdateUserRole
    PROVE  /\ MembersTyped' /\ MemberIds \subseteq MemberIds' /\ clock' = clock
           /\ \A a \in MemberIds : members'[a].created = members[a].created
           /\ \A a \in MemberIds' \ MemberIds : DateOf(members'[a].created) = DateOf(clock)
<1>1. /\ clock \in Nat /\ members \in Seq([created : Nat, role : {"NORMAL", "ADMIN"}])
      /\ \A a \in MemberIds : members[a].created <= clock
      /\ MemberIds = 1 .. Len(members) /\ Len(members) \in Nat
  BY MembersFinite DEF BackofficeInv, MembersTyped
<1>2. CASE NewMember
  <2>1. PICK role \in {"NORMAL", "ADMIN"} :
           members' = Append(members, [created |-> clock, role |-> role])
    BY <1>2 DEF NewMember
  <2>. DEFINE m == [created |-> clock, role |-> role]
  <2>2. m \in [created : Nat, role : {"NORMAL", "ADMIN"}] /\ m.created = clock
    BY <1>1
  <2>. HIDE DEF m
  <2>3. /\ members' \in Seq([created : Nat, role : {"NORMAL", "ADMIN"}])
        /\ Len(members') = Len(members) + 1 /\ members'[Len(members) + 1] = m
        /\ \A a \in 1 .. Len(members) : members'[a] = members[a]
    BY <1>1, <2>1, <2>2, AppendProperties DEF m
  <2>4. MemberIds' = MemberIds \cup {Len(members) + 1} /\ clock' = clock
    <3>1. \A n \in Nat : 1 .. n + 1 = (1 .. n) \cup {n + 1}
      OBVIOUS
    <3>2. MemberIds' = 1 .. Len(members) + 1
      BY <2>3 DEF MemberIds
    <3>. QED BY <1>1, <1>2, <3>1, <3>2 DEF NewMember
  <2>5. /\ \A a \in MemberIds : members'[a].created = members[a].created
        /\ \A a \in MemberIds' \ MemberIds : members'[a].created = clock
    BY <1>1, <2>2, <2>3, <2>4
  <2>6. \A a \in MemberIds' : members'[a].created <= clock'
    BY <1>1, <2>4, <2>5
  <2>7. MembersTyped'
    BY <1>1, <2>3, <2>4, <2>6 DEF MembersTyped
  <2>. QED BY <2>4, <2>5, <2>7
<1>3. CASE UpdateUserRole
  <2>1. PICK b \in MemberIds, role \in {"NORMAL", "ADMIN"} :
           members' = [members EXCEPT ![b].role = role]
    BY <1>3 DEF UpdateUserRole
  <2>. DEFINE m == [members[b] EXCEPT !.role = role]
  <2>2. members[b] \in [created : Nat, role : {"NORMAL", "ADMIN"}]
    BY <1>1, ElementOfSeq
  <2>3. m \in [created : Nat, role : {"NORMAL", "ADMIN"}] /\ m.created = members[b].created
    BY <2>2
  <2>4. members' = [members EXCEPT ![b] = m]
    BY <2>1
  <2>. HIDE DEF m
  <2>5. /\ members' \in Seq([created : Nat, role : {"NORMAL", "ADMIN"}])
        /\ Len(members') = Len(members)
        /\ \A a \in 1 .. Len(members) : members'[a] = IF a = b THEN m ELSE members[a]
    BY <1>1, <2>3, <2>4, ExceptSeq
  <2>6. MemberIds' = MemberIds /\ clock' = clock
    BY <1>1, <1>3, <2>5 DEF MemberIds, UpdateUserRole
  <2>. QED BY <1>1, <2>3, <2>5, <2>6 DEF MembersTyped
<1>. QED BY <1>2, <1>3

LEMMA BackofficeInvNext == BackofficeInv /\ [BackofficeNext]_backofficeVars => BackofficeInv'
<1>. SUFFICES ASSUME BackofficeInv, [BackofficeNext]_backofficeVars PROVE BackofficeInv'
  OBVIOUS
<1>1. MembersTyped /\ WalkInv /\ FiguresInv /\ clock \in Nat
  BY DEF BackofficeInv, MembersTyped
<1>2. CASE SecondPasses \/ LoginAdmin \/ RecordEvent \/ UNCHANGED backofficeVars
  <2>1. clock <= clock' /\ clock' \in Nat /\ members' = members /\ walk' = walk
        /\ figures' = figures /\ events \subseteq events'
    BY <1>1, <1>2 DEF SecondPasses, LoginAdmin, RecordEvent, backofficeVars
  <2>. QED BY <1>1, <2>1, SameMembers, WalkGoesOn, FiguresGoOn DEF BackofficeInv
<1>3. CASE NewMember \/ UpdateUserRole
  <2>1. clock <= clock' /\ walk' = walk /\ figures' = figures /\ events \subseteq events'
    BY <1>1, <1>3 DEF NewMember, UpdateUserRole
  <2>. QED BY <1>1, <1>3, <2>1, MembersChange, WalkGoesOn, FiguresGoOn DEF BackofficeInv
<1>4. CASE AdminGone \/ CloseUsers
  <2>1. clock <= clock' /\ clock' \in Nat /\ members' = members /\ walk' = NoWalk
        /\ figures' = figures /\ events \subseteq events'
    BY <1>1, <1>4 DEF AdminGone, CloseUsers
  <2>2. WalkInv'
    BY <2>1 DEF WalkInv
  <2>. QED BY <1>1, <2>1, <2>2, SameMembers, FiguresGoOn DEF BackofficeInv
<1>5. CASE OpenUsers
  <2>1. clock <= clock' /\ clock' \in Nat /\ members' = members
        /\ walk' = [page |-> 1, known |-> MemberIds, seen |-> {}]
        /\ figures' = figures /\ events \subseteq events'
    BY <1>1, <1>5 DEF OpenUsers
  <2>2. WalkInv'
    <3>1. \A a \in MemberIds : Above(a) \subseteq MemberIds
      BY DEF Above
    <3>2. \A a \in MemberIds : Cardinality(Above(a)) \in Nat
      BY <1>1, <3>1, MembersFinite
    <3>3. (1 - 1) * PageSize = 0
      BY BackofficeAssumption
    <3>4. \A a \in MemberIds : Above(a)' = Above(a)
      BY <2>1 DEF Above, MemberIds
    <3>. QED BY <2>1, <3>2, <3>3, <3>4 DEF WalkInv, MemberIds
  <2>. QED BY <1>1, <2>1, <2>2, SameMembers, FiguresGoOn DEF BackofficeInv
<1>6. CASE GetUsers
  <2>1. clock <= clock' /\ clock' \in Nat /\ members' = members
        /\ figures' = figures /\ events \subseteq events'
    BY <1>1, <1>6 DEF GetUsers
  <2>. QED BY <1>1, <1>6, <2>1, PageRead, SameMembers, FiguresGoOn DEF BackofficeInv
<1>7. CASE GetDashboardStats
  <2>1. clock <= clock' /\ clock' = clock /\ clock' \in Nat /\ members' = members /\ walk' = walk
        /\ events' = events
        /\ figures' = [day |-> DateOf(clock), retention |-> Retention, activated |-> Activated]
    BY <1>1, <1>7 DEF GetDashboardStats
  <2>2. DateOf(clock) \in Nat
    BY <1>1, DaysGoForward
  <2>3. Retention' = Retention /\ DateOf(clock)' = DateOf(clock)
    BY <2>1 DEF Retention, Cohort, Returned, DateOf, MemberIds
  <2>4. \A n \in 1 .. RetentionDays : Retention[n].of \in Nat /\ Retention[n].back \in Nat
    BY <1>1, RatesAreNumbers
  <2>5. FiguresInv'
    BY <2>1, <2>2, <2>3, <2>4 DEF FiguresInv
  <2>. QED BY <1>1, <2>1, <2>5, SameMembers, WalkGoesOn DEF BackofficeInv
<1>. QED BY <1>2, <1>3, <1>4, <1>5, <1>6, <1>7 DEF BackofficeNext, MembersNext, DashboardNext

LEMMA InvNotMisled == BackofficeInv => AdminIsNotMisled
<1>. SUFFICES ASSUME BackofficeInv PROVE AdminIsNotMisled
  OBVIOUS
<1>1. ASSUME walk # NoWalk, AllPagesRead, NEW a \in walk.known \ walk.seen
      PROVE  \E b \in MemberIds \ {a} : members[b].created = members[a].created
  <2>1. SUFFICES ASSUME Alone(a) PROVE FALSE
    BY DEF Alone
  <2>2. /\ Cardinality(Above(a)) >= (walk.page - 1) * PageSize
        /\ walk.page \in Nat
    BY <1>1, <2>1 DEF BackofficeInv, WalkInv
  <2>3. Above(a) \subseteq MemberIds
    BY DEF Above
  <2>4. Cardinality(Above(a)) \in Nat /\ Cardinality(Above(a)) <= Len(members)
        /\ Len(members) \in Nat
    BY <2>3, MembersFinite DEF BackofficeInv
  <2>5. (walk.page - 1) * PageSize \in Int /\ (walk.page - 1) * PageSize > Len(members)
    BY <1>1, <2>2, BackofficeAssumption DEF AllPagesRead
  <2>. QED BY <2>2, <2>4, <2>5
<1>2. ASSUME figures # NoFigures, figures.day = DateOf(clock), NEW n \in 1 .. RetentionDays
      PROVE  figures.retention[n].back * Retention[n].of
                <= Retention[n].back * figures.retention[n].of
  <2>1. /\ figures.retention[n].of \in Nat /\ figures.retention[n].back \in Nat
        /\ figures.retention[n].of = Retention[n].of
        /\ figures.retention[n].back <= Retention[n].back
    BY <1>2 DEF BackofficeInv, FiguresInv
  <2>2. Retention[n].back \in Nat
    BY RatesAreNumbers DEF BackofficeInv
  <2>. QED BY <2>1, <2>2, ProductGrows
<1>. QED BY <1>1, <1>2 DEF AdminIsNotMisled, PagesMissNobody, FiguresStand

\* Nobody who was a member when an administrator opened the list is missing from
\* its pages, members of one second aside, and the rates of a day stand until
\* midnight, for any members, page size, length of a day and number of days
\* (get_admin_users_usecase.py 13-20, get_admin_dashboard_stats_usecase.py
\* 50-80).
THEOREM PagesAndFiguresHold == BackofficeSpec => []AdminIsNotMisled
  BY BackofficeInvInit, BackofficeInvNext, InvNotMisled, PTL DEF BackofficeSpec

(***************************************************************************)
(* Community: the counts of a card.                                        *)
(***************************************************************************)

Types ==
    /\ cardsMade \in 0..MaxCards
    /\ cards \subseteq 1..cardsMade
    /\ likeCount \in [CardIds -> Nat]
    /\ commentCount \in [CardIds -> Nat]
    /\ comments \in [CardIds -> Nat]
    /\ unmatched \in [CardIds -> Nat]
    /\ request \in [Processes -> Request]
    /\ IsFiniteSet(likes)

\* The counts of one card against its rows.
Truth(c) ==
    /\ commentCount[c] = comments[c]
    /\ likeCount[c] <= Cardinality(LikesOf(c))
    /\ Cardinality(LikesOf(c)) <= likeCount[c] + unmatched[c]

\* A card that has not been shared yet has nothing.
Untouched(c) ==
    /\ likeCount[c] = 0 /\ commentCount[c] = 0 /\ comments[c] = 0
    /\ LikesOf(c) = {}

\* A request is about a card that was shared; whoever is about to take a like
\* back still finds its row, as the one who is first tells the others.
Sound(r) ==
    /\ r # Nobody => r.card \in 1..cardsMade
    /\ r.op = "unlike" => [card |-> r.card, who |-> r.who] \in likes

CommunityInv ==
    /\ Types
    /\ \A c \in cards : Truth(c)
    /\ \A c \in CardIds \ (1..cardsMade) : Untouched(c)
    /\ \A p \in Processes : Sound(request[p])

\* The rows of a card, and how many they are.
LEMMA LikesCounted ==
    ASSUME IsFiniteSet(likes), NEW c
    PROVE  /\ IsFiniteSet(LikesOf(c)) /\ Cardinality(LikesOf(c)) \in Nat
           /\ Cardinality(LikesOf(c)) = 0 <=> LikesOf(c) = {}
<1>1. LikesOf(c) \subseteq likes
  BY DEF LikesOf
<1>2. IsFiniteSet(LikesOf(c))
  BY <1>1, FS_Subset
<1>. QED BY <1>2, FS_CardinalityType, FS_EmptySet

LEMMA LikeAdded ==
    ASSUME IsFiniteSet(likes), NEW row, row \notin likes, likes' = likes \cup {row}, NEW c
    PROVE  /\ IsFiniteSet(likes')
           /\ row.card # c => LikesOf(c)' = LikesOf(c)
           /\ row.card = c => Cardinality(LikesOf(c)') = Cardinality(LikesOf(c)) + 1
<1>1. IsFiniteSet(likes')
  BY FS_AddElement
<1>2. ASSUME row.card = c
      PROVE  LikesOf(c)' = LikesOf(c) \cup {row} /\ row \notin LikesOf(c)
  BY <1>2 DEF LikesOf
<1>3. ASSUME row.card = c
      PROVE  Cardinality(LikesOf(c)') = Cardinality(LikesOf(c)) + 1
  BY <1>2, <1>3, LikesCounted, FS_AddElement
<1>4. ASSUME row.card # c PROVE LikesOf(c)' = LikesOf(c)
  BY <1>4 DEF LikesOf
<1>. QED BY <1>1, <1>3, <1>4

LEMMA LikeRemoved ==
    ASSUME IsFiniteSet(likes), NEW row \in likes, likes' = likes \ {row}, NEW c
    PROVE  /\ IsFiniteSet(likes')
           /\ row.card # c => LikesOf(c)' = LikesOf(c)
           /\ row.card = c => Cardinality(LikesOf(c)') = Cardinality(LikesOf(c)) - 1
<1>1. IsFiniteSet(likes')
  BY FS_RemoveElement
<1>2. ASSUME row.card = c
      PROVE  LikesOf(c)' = LikesOf(c) \ {row} /\ row \in LikesOf(c)
  BY <1>2 DEF LikesOf
<1>3. ASSUME row.card = c
      PROVE  Cardinality(LikesOf(c)') = Cardinality(LikesOf(c)) - 1
  BY <1>2, <1>3, LikesCounted, FS_RemoveElement
<1>4. ASSUME row.card # c PROVE LikesOf(c)' = LikesOf(c)
  BY <1>4 DEF LikesOf
<1>. QED BY <1>1, <1>3, <1>4

LEMMA CommunityInvInit ==
    ASSUME CommunityInit
    PROVE  CommunityInv
<1>1. Types
  BY FS_EmptySet, CommunityAssumption DEF CommunityInit, Types, Request
<1>2. \A c \in CardIds : Untouched(c)
  BY DEF CommunityInit, Untouched, LikesOf
<1>3. \A p \in Processes : Sound(request[p])
  BY DEF CommunityInit, Sound, Nobody
<1>. QED BY <1>1, <1>2, <1>3 DEF CommunityInit, CommunityInv

\* A step that leaves rows and counts alone keeps them true.
LEMMA RowsAlone ==
    ASSUME CommunityInv, cards' \subseteq cards,
           UNCHANGED <<cardsMade, likeCount, commentCount, likes, comments, unmatched>>,
           request' \in [Processes -> Request],
           \A p \in Processes : request'[p] = request[p] \/ Sound(request'[p])
    PROVE  CommunityInv'
<1>1. Types'
  BY DEF CommunityInv, Types
<1>2. \A c : Truth(c)' <=> Truth(c)
  BY DEF Truth, LikesOf
<1>3. \A c : Untouched(c)' <=> Untouched(c)
  BY DEF Untouched, LikesOf
<1>4. \A p \in Processes : Sound(request[p])'
  BY DEF CommunityInv, Sound
<1>. QED BY <1>1, <1>2, <1>3, <1>4 DEF CommunityInv

LEMMA CardMade ==
    ASSUME CommunityInv, NEW a, NewCard(a),
           UNCHANGED <<likeCount, commentCount, likes, comments, unmatched>>,
           request' \in [Processes -> Request],
           \A p \in Processes : request'[p] = request[p] \/ Sound(request[p])'
    PROVE  CommunityInv'
<1>1. cardsMade' = cardsMade + 1 /\ cardsMade + 1 \in CardIds
      /\ cards' = cards \cup {cardsMade + 1}
  BY CommunityAssumption DEF NewCard, CommunityInv, Types, CardIds
<1>2. Types'
  <2>1. /\ cardsMade \in 0 .. MaxCards /\ cards \subseteq 1 .. cardsMade
        /\ likeCount' \in [CardIds -> Nat] /\ commentCount' \in [CardIds -> Nat]
        /\ comments' \in [CardIds -> Nat] /\ unmatched' \in [CardIds -> Nat]
        /\ IsFiniteSet(likes)'
    BY DEF CommunityInv, Types
  <2>2. cardsMade' \in 0 .. MaxCards
    BY <1>1, <2>1, CommunityAssumption DEF CardIds
  <2>3. cards' \subseteq 1 .. cardsMade'
    BY <1>1, <2>1, CommunityAssumption
  <2>. QED BY <2>1, <2>2, <2>3 DEF Types
<1>3. \A c : (Truth(c)' <=> Truth(c)) /\ (Untouched(c)' <=> Untouched(c))
  BY DEF Truth, Untouched, LikesOf
<1>4. Untouched(cardsMade + 1)
  BY <1>1 DEF CommunityInv, Types
<1>5. Truth(cardsMade + 1)
  <2>1. Cardinality(LikesOf(cardsMade + 1)) = 0
    BY <1>4, FS_EmptySet DEF Untouched
  <2>2. unmatched[cardsMade + 1] \in Nat
    BY <1>1 DEF CommunityInv, Types
  <2>. QED BY <1>4, <2>1, <2>2 DEF Truth, Untouched
<1>6. \A c \in CardIds \ (1..cardsMade') : Untouched(c)
  BY <1>1, CommunityAssumption DEF CommunityInv, Types
<1>7. ASSUME NEW p \in Processes PROVE Sound(request[p])'
  <2>1. CASE request'[p] = request[p]
    <3>1. Sound(request[p]) /\ likes' = likes
      BY DEF CommunityInv
    <3>2. cardsMade \in Int /\ 1..cardsMade \subseteq 1..cardsMade'
      BY <1>1 DEF CommunityInv, Types
    <3>. QED BY <2>1, <3>1, <3>2 DEF Sound
  <2>. QED BY <2>1
<1>. QED BY <1>1, <1>2, <1>3, <1>5, <1>6, <1>7 DEF CommunityInv

\* The actions that are neither about a like nor about a comment being written.
LEMMA RowsAloneSteps ==
    ASSUME CommunityInv, NEW p \in Processes,
           \/ \E a \in Accounts, c \in CardIds :
                 DeleteSharedCard(p, a, c) \/ LinkCard(p, a, c)
           \/ \E who \in People, c \in CardIds : ToggleLike(p, who, c)
           \/ \E c \in CardIds : FindCommentedCard(p, c)
           \/ \E a \in Accounts : DeleteBoard(p, a)
           \/ LikeRefused(p) \/ RequestFails(p) \/ SaveBoard(p)
    PROVE  CommunityInv'
<1>1. /\ cards' \subseteq cards
      /\ UNCHANGED <<cardsMade, likeCount, commentCount, likes, comments, unmatched>>
  BY DEF DeleteSharedCard, LinkCard, ToggleLike, FindCommentedCard, DeleteBoard,
     LikeRefused, RequestFails, SaveBoard, tables
<1>2. /\ request \in [Processes -> Request] /\ Sound(Nobody) /\ Nobody \in Request
      /\ cards \subseteq 1..cardsMade /\ Accounts \subseteq People
  BY DEF CommunityInv, Types, Sound, Nobody, Request, People
<1>3. CASE request' = request \/ request' = [request EXCEPT ![p] = Nobody]
  BY <1>1, <1>2, <1>3, RowsAlone
<1>4. ASSUME NEW who \in People, NEW c \in CardIds, ToggleLike(p, who, c) PROVE CommunityInv'
  <2>. DEFINE r == [op |-> IF [card |-> c, who |-> who] \in likes
                           THEN "unlike" ELSE "like",
                    card |-> c, who |-> who]
  <2>1. c \in cards /\ request' = [request EXCEPT ![p] = r]
    BY <1>4 DEF ToggleLike, Ask
  <2>2. r \in Request /\ Sound(r)
    BY <1>2, <2>1 DEF Request, Sound
  <2>. QED BY <1>1, <1>2, <2>1, <2>2, RowsAlone
<1>5. ASSUME NEW c \in CardIds, FindCommentedCard(p, c) PROVE CommunityInv'
  <2>. DEFINE r == [op |-> "comment", card |-> c]
  <2>1. c \in cards /\ request' = [request EXCEPT ![p] = r]
    BY <1>5 DEF FindCommentedCard, Ask
  <2>2. r \in Request /\ Sound(r)
    BY <1>2, <2>1 DEF Request, Sound
  <2>. QED BY <1>1, <1>2, <2>1, <2>2, RowsAlone
<1>6. ASSUME NEW a \in Accounts, NEW c \in CardIds, LinkCard(p, a, c) PROVE CommunityInv'
  <2>. DEFINE r == [op |-> "board", card |-> c, who |-> a]
  <2>1. c \in cards /\ request' = [request EXCEPT ![p] = r]
    BY <1>6 DEF LinkCard, Ask
  <2>2. r \in Request /\ Sound(r)
    BY <1>2, <2>1 DEF Request, Sound
  <2>. QED BY <1>1, <1>2, <2>1, <2>2, RowsAlone
<1>. QED
  BY <1>3, <1>4, <1>5, <1>6 DEF DeleteSharedCard, DeleteBoard, LikeRefused,
     RequestFails, SaveBoard, Ask

LEMMA CardMadeSteps ==
    ASSUME CommunityInv, NEW p \in Processes, NEW a \in Accounts,
           ShareCard(p, a) \/ MakeBoardCard(p, a)
    PROVE  CommunityInv'
<1>1. /\ NewCard(a)
      /\ UNCHANGED <<likeCount, commentCount, likes, comments, unmatched>>
  BY DEF ShareCard, MakeBoardCard
<1>2. CASE ShareCard(p, a)
  <2>1. request' = request /\ request' \in [Processes -> Request]
    BY <1>2 DEF ShareCard, CommunityInv, Types
  <2>. QED BY <1>1, <2>1, CardMade
<1>3. CASE MakeBoardCard(p, a)
  <2>. DEFINE r == [op |-> "board", card |-> cardsMade + 1, who |-> a]
  <2>1. request' = [request EXCEPT ![p] = r]
    BY <1>3 DEF MakeBoardCard, Ask
  <2>2. cardsMade' = cardsMade + 1 /\ cardsMade + 1 \in CardIds
        /\ cardsMade + 1 \in 1..cardsMade'
    BY <1>1, CommunityAssumption DEF NewCard, CommunityInv, Types, CardIds
  <2>3. r \in Request
    BY <2>2 DEF Request
  <2>4. request' \in [Processes -> Request]
    BY <2>1, <2>3 DEF CommunityInv, Types
  <2>5. ASSUME NEW q \in Processes, q # p PROVE request'[q] = request[q]
    BY <2>1, <2>5 DEF CommunityInv, Types
  <2>6. request'[p].card \in 1..cardsMade' /\ request'[p].op = "board"
    BY <2>1, <2>2 DEF CommunityInv, Types
  <2>7. Sound(request[p])'
    BY <2>6 DEF Sound
  <2>. QED BY <1>1, <2>4, <2>5, <2>7, CardMade
<1>. QED BY <1>2, <1>3

\* A step about the like of a request: the card of the like is the only one it
\* can make untrue.
LEMMA LikeStep ==
    ASSUME CommunityInv, NEW k \in 1..cardsMade,
           UNCHANGED <<cardsMade, cards, commentCount, comments>>,
           IsFiniteSet(likes'),
           likeCount' \in [CardIds -> Nat], unmatched' \in [CardIds -> Nat],
           \A c \in CardIds \ {k} :
              /\ LikesOf(c)' = LikesOf(c)
              /\ likeCount'[c] = likeCount[c] /\ unmatched'[c] = unmatched[c],
           k \in cards =>
              /\ likeCount'[k] <= Cardinality(LikesOf(k)')
              /\ Cardinality(LikesOf(k)') <= likeCount'[k] + unmatched'[k],
           request' \in [Processes -> Request],
           \A p \in Processes : Sound(request[p])'
    PROVE  CommunityInv'
<1>1. Types'
  BY DEF CommunityInv, Types
<1>2. cards \subseteq CardIds /\ k \in CardIds
  BY CommunityAssumption DEF CommunityInv, Types, CardIds
<1>3. ASSUME NEW c \in cards PROVE Truth(c)'
  <2>1. Truth(c) /\ c \in CardIds
    BY <1>2, <1>3 DEF CommunityInv
  <2>. QED BY <2>1, <1>3 DEF Truth
<1>4. ASSUME NEW c \in CardIds \ (1..cardsMade) PROVE Untouched(c)'
  BY <1>4 DEF CommunityInv, Untouched
<1>. QED BY <1>1, <1>3, <1>4 DEF CommunityInv

\* The request of a process at a like, and how its end leaves the others.
LEMMA LikeRequest ==
    ASSUME CommunityInv, NEW p \in Processes,
           request[p].op \in {"like", "unlike", "gone"}
    PROVE  /\ request[p] \in [op : {"like", "unlike", "gone"}, card : CardIds,
                               who : People]
           /\ request[p].card \in 1..cardsMade /\ request[p].card \in CardIds
<1>1. request[p] \in Request /\ Sound(request[p])
  BY DEF CommunityInv, Types
<1>2. request[p] \in [op : {"like", "unlike", "gone"}, card : CardIds, who : People]
  BY <1>1 DEF Request, Nobody
<1>3. request[p] # Nobody
  BY DEF Nobody
<1>. QED BY <1>1, <1>2, <1>3 DEF Sound

LEMMA AddLikeStep ==
    ASSUME CommunityInv, NEW p \in Processes, AddLike(p)
    PROVE  CommunityInv'
<1>0. PICK k \in 1..cardsMade, who \in People : k = request[p].card /\ who = request[p].who
  BY LikeRequest DEF AddLike
<1>. DEFINE row == [card |-> k, who |-> who]
<1>1. /\ request[p].op = "like" /\ row \notin likes /\ likes' = likes \cup {row}
      /\ likeCount' = IF k \in cards THEN [likeCount EXCEPT ![k] = @ + 1]
                      ELSE likeCount
      /\ request' = [request EXCEPT ![p] = Nobody]
      /\ UNCHANGED <<cardsMade, cards, commentCount, comments, unmatched>>
  BY <1>0 DEF AddLike, Ask
<1>2. k \in CardIds
  BY <1>0, <1>1, LikeRequest
<1>3. CommunityInv /\ Types /\ IsFiniteSet(likes)
  BY DEF CommunityInv, Types
<1>4. /\ request' \in [Processes -> Request]
      /\ \A q \in Processes : Sound(request[q])'
  BY <1>1, <1>3 DEF CommunityInv, Types, Request, Sound, Nobody
<1>5. IsFiniteSet(likes') /\ \A c \in CardIds \ {k} : LikesOf(c)' = LikesOf(c)
  <2>1. row.card = k /\ row \notin likes /\ likes' = likes \cup {row}
    BY <1>1
  <2>. HIDE DEF row
  <2>2. ASSUME NEW c \in CardIds \ {k} PROVE LikesOf(c)' = LikesOf(c)
    BY <1>3, <2>1, LikeAdded
  <2>3. IsFiniteSet(likes')
    BY <1>3, <2>1, LikeAdded
  <2>. QED BY <2>2, <2>3
<1>6. Cardinality(LikesOf(k)') = Cardinality(LikesOf(k)) + 1
  BY <1>1, <1>3, LikeAdded
<1>7. /\ likeCount' \in [CardIds -> Nat] /\ unmatched' \in [CardIds -> Nat]
      /\ \A c \in CardIds \ {k} :
            likeCount'[c] = likeCount[c] /\ unmatched'[c] = unmatched[c]
  BY <1>1, <1>2, <1>3 DEF Types
<1>8. ASSUME k \in cards
      PROVE  /\ likeCount'[k] <= Cardinality(LikesOf(k)')
             /\ Cardinality(LikesOf(k)') <= likeCount'[k] + unmatched'[k]
  <2>1. likeCount'[k] = likeCount[k] + 1 /\ unmatched'[k] = unmatched[k]
    BY <1>1, <1>2, <1>3, <1>8 DEF Types
  <2>2. Truth(k) /\ Cardinality(LikesOf(k)) \in Nat
    BY <1>3, <1>8, LikesCounted DEF CommunityInv
  <2>3. likeCount[k] \in Nat /\ unmatched[k] \in Nat
    BY <1>2, <1>3 DEF Types
  <2>. QED BY <1>6, <2>1, <2>2, <2>3 DEF Truth
<1>. QED BY <1>1, <1>2, <1>4, <1>5, <1>7, <1>8, LikeStep

\* CountDown and the rows together: the count falls with the row, or the DELETE
\* that met none is in unmatched.
LEMMA RemoveLikeStep ==
    ASSUME CommunityInv, NEW p \in Processes, RemoveLike(p)
    PROVE  CommunityInv'
<1>0. PICK k \in 1..cardsMade, who \in People : k = request[p].card /\ who = request[p].who
  BY LikeRequest DEF RemoveLike
<1>. DEFINE row == [card |-> k, who |-> who]
<1>1. /\ request[p].op = "unlike" /\ likes' = likes \ {row}
      /\ likeCount' = IF k \in cards /\ likeCount[k] > 0
                      THEN [likeCount EXCEPT ![k] = @ - 1] ELSE likeCount
      /\ request' = [q \in Processes |->
                       IF q = p THEN Nobody
                       ELSE IF request[q] = request[p]
                            THEN [request[q] EXCEPT !.op = "gone"]
                            ELSE request[q]]
      /\ UNCHANGED <<cardsMade, cards, commentCount, comments, unmatched>>
  BY <1>0 DEF RemoveLike, CountDown, Settle
<1>2. k \in CardIds /\ CommunityInv /\ Types /\ IsFiniteSet(likes) /\ row \in likes
  BY <1>0, <1>1, LikeRequest DEF CommunityInv, Types, Sound
<1>3. request[p] \in [op : {"like", "unlike", "gone"}, card : CardIds, who : People]
  BY <1>1, LikeRequest
<1>4. ASSUME NEW q \in Processes
      PROVE  request'[q] \in Request /\ Sound(request[q])'
  <2>1. CASE q = p
    BY <1>1, <2>1 DEF Request, Sound, Nobody
  <2>2. CASE q # p /\ request[q] = request[p]
    <3>1. request'[q] = [request[p] EXCEPT !.op = "gone"]
      BY <1>1, <2>2
    <3>2. request'[q] \in [op : {"like", "unlike", "gone"}, card : CardIds, who : People]
          /\ request'[q].op = "gone" /\ request'[q].card = k
      BY <1>0, <1>3, <3>1
    <3>. QED BY <1>0, <1>1, <3>2 DEF Request, Sound
  <2>3. CASE q # p /\ request[q] # request[p]
    <3>1. request'[q] = request[q] /\ request[q] \in Request /\ Sound(request[q])
      BY <1>1, <1>2, <2>3 DEF CommunityInv, Types
    <3>2. ASSUME request[q].op = "unlike"
          PROVE  [card |-> request[q].card, who |-> request[q].who] \in likes'
      <4>1. request[q] \in [op : {"like", "unlike", "gone"}, card : CardIds, who : People]
        BY <3>2, LikeRequest
      <4>2. request[q].card # k \/ request[q].who # who
        BY <1>0, <1>1, <1>3, <2>3, <3>2, <4>1
      <4>3. [card |-> request[q].card, who |-> request[q].who] # row
        BY <4>2
      <4>. QED BY <1>1, <3>1, <3>2, <4>3 DEF Sound
    <3>. QED BY <1>1, <3>1, <3>2 DEF Sound
  <2>. QED BY <2>1, <2>2, <2>3
<1>5. request' \in [Processes -> Request]
  BY <1>1, <1>4
<1>6. IsFiniteSet(likes') /\ \A c \in CardIds \ {k} : LikesOf(c)' = LikesOf(c)
  BY <1>1, <1>2, LikeRemoved
<1>7. Cardinality(LikesOf(k)') = Cardinality(LikesOf(k)) - 1
  BY <1>1, <1>2, LikeRemoved
<1>8. /\ likeCount' \in [CardIds -> Nat] /\ unmatched' \in [CardIds -> Nat]
      /\ \A c \in CardIds \ {k} :
            likeCount'[c] = likeCount[c] /\ unmatched'[c] = unmatched[c]
  BY <1>1, <1>2 DEF Types
<1>9. ASSUME k \in cards
      PROVE  /\ likeCount'[k] <= Cardinality(LikesOf(k)')
             /\ Cardinality(LikesOf(k)') <= likeCount'[k] + unmatched'[k]
  <2>1. /\ likeCount'[k] = IF likeCount[k] > 0 THEN likeCount[k] - 1 ELSE likeCount[k]
        /\ unmatched'[k] = unmatched[k]
    BY <1>1, <1>2, <1>9 DEF Types
  <2>2. Truth(k) /\ Cardinality(LikesOf(k)) \in Nat
    BY <1>2, <1>9, LikesCounted DEF CommunityInv
  <2>3. likeCount[k] \in Nat /\ unmatched[k] \in Nat
    BY <1>2 DEF Types
  <2>4. row \in LikesOf(k)
    BY <1>2 DEF LikesOf
  <2>5. Cardinality(LikesOf(k)) # 0
    BY <1>2, <2>4, LikesCounted
  <2>. QED BY <1>7, <2>1, <2>2, <2>3, <2>5 DEF Truth
<1>. QED BY <1>1, <1>4, <1>5, <1>6, <1>8, <1>9, LikeStep

LEMMA RemoveGoneLikeStep ==
    ASSUME CommunityInv, NEW p \in Processes, RemoveGoneLike(p)
    PROVE  CommunityInv'
<1>0. PICK k \in 1..cardsMade : k = request[p].card
  BY LikeRequest DEF RemoveGoneLike
<1>1. /\ request[p].op = "gone" /\ unmatched' = [unmatched EXCEPT ![k] = @ + 1]
      /\ likeCount' = IF k \in cards /\ likeCount[k] > 0
                      THEN [likeCount EXCEPT ![k] = @ - 1] ELSE likeCount
      /\ request' = [request EXCEPT ![p] = Nobody]
      /\ UNCHANGED <<cardsMade, cards, commentCount, likes, comments>>
  BY <1>0 DEF RemoveGoneLike, CountDown, Ask
<1>2. k \in CardIds /\ CommunityInv /\ Types /\ IsFiniteSet(likes')
  BY <1>0, <1>1, LikeRequest DEF CommunityInv, Types
<1>3. /\ request' \in [Processes -> Request]
      /\ \A q \in Processes : Sound(request[q])'
  BY <1>1, <1>2 DEF CommunityInv, Types, Request, Sound, Nobody
<1>4. \A c : LikesOf(c)' = LikesOf(c)
  BY <1>1 DEF LikesOf
<1>5. /\ likeCount' \in [CardIds -> Nat] /\ unmatched' \in [CardIds -> Nat]
      /\ \A c \in CardIds \ {k} :
            likeCount'[c] = likeCount[c] /\ unmatched'[c] = unmatched[c]
  BY <1>1, <1>2 DEF Types
<1>6. ASSUME k \in cards
      PROVE  /\ likeCount'[k] <= Cardinality(LikesOf(k)')
             /\ Cardinality(LikesOf(k)') <= likeCount'[k] + unmatched'[k]
  <2>1. /\ likeCount'[k] = IF likeCount[k] > 0 THEN likeCount[k] - 1 ELSE likeCount[k]
        /\ unmatched'[k] = unmatched[k] + 1
    BY <1>1, <1>2, <1>6 DEF Types
  <2>2. Truth(k) /\ IsFiniteSet(likes)
    BY <1>2, <1>6 DEF CommunityInv, Types
  <2>3. likeCount[k] \in Nat /\ unmatched[k] \in Nat /\ Cardinality(LikesOf(k)) \in Nat
    BY <1>2, <2>2, LikesCounted DEF Types
  <2>. QED BY <1>4, <2>1, <2>2, <2>3 DEF Truth
<1>. QED BY <1>1, <1>2, <1>3, <1>4, <1>5, <1>6, LikeStep

LEMMA AddCommentStep ==
    ASSUME CommunityInv, NEW p \in Processes, AddComment(p)
    PROVE  CommunityInv'
<1>1. request[p].op = "comment" /\ Types /\ request[p] \in Request /\ Sound(request[p])
  BY DEF AddComment, CommunityInv, Types
<1>2. request[p].card \in 1..cardsMade
  BY <1>1 DEF Sound, Nobody
<1>3. PICK k \in 1..cardsMade : k = request[p].card
  BY <1>2
<1>4. /\ comments' = [comments EXCEPT ![k] = @ + 1]
      /\ commentCount' = IF k \in cards THEN [commentCount EXCEPT ![k] = @ + 1]
                         ELSE commentCount
      /\ request' = [request EXCEPT ![p] = Nobody]
      /\ UNCHANGED <<cardsMade, cards, likeCount, likes, unmatched>>
  BY <1>3 DEF AddComment, Ask
<1>5. k \in CardIds /\ cards \subseteq CardIds
  BY <1>1, CommunityAssumption DEF Types, CardIds
<1>6. Types'
  BY <1>1, <1>4, <1>5 DEF Types, Request
<1>7. ASSUME NEW c \in cards PROVE Truth(c)'
  <2>1. Truth(c) /\ LikesOf(c)' = LikesOf(c)
    BY <1>4, <1>7 DEF CommunityInv, LikesOf
  <2>2. commentCount'[c] = comments'[c]
    BY <1>1, <1>4, <1>5, <1>7, <2>1 DEF Types, Truth
  <2>. QED BY <1>4, <2>1, <2>2 DEF Truth
<1>8. ASSUME NEW c \in CardIds \ (1..cardsMade) PROVE Untouched(c)'
  <2>1. Untouched(c) /\ LikesOf(c)' = LikesOf(c) /\ c # k /\ c \notin cards
    BY <1>1, <1>4, <1>8 DEF CommunityInv, LikesOf, Types
  <2>. QED BY <1>1, <1>4, <1>5, <2>1 DEF Untouched, Types
<1>9. \A q \in Processes : Sound(request[q])'
  BY <1>1, <1>4 DEF CommunityInv, Types, Sound, Nobody
<1>. QED BY <1>4, <1>6, <1>7, <1>8, <1>9 DEF CommunityInv

LEMMA CommunityInvNext ==
    ASSUME CommunityInv, [CommunityNext]_communityVars
    PROVE  CommunityInv'
<1>1. ASSUME NEW p \in Processes, CardStep(p) \/ BoardStep(p) PROVE CommunityInv'
  BY <1>1, RowsAloneSteps, CardMadeSteps, AddLikeStep, RemoveLikeStep,
     RemoveGoneLikeStep, AddCommentStep DEF CardStep, BoardStep
<1>2. CASE UNCHANGED communityVars
  BY <1>2, RowsAlone DEF communityVars, CommunityInv, Types
<1>. QED BY <1>1, <1>2 DEF CommunityNext

\* The counts that the routes show are those of the rows, up to the un-likes
\* that met no row, however many workers race (card_share_repository_impl.py
\* 79-118, 144-162).
THEOREM CountsAlwaysMatch == CommunitySpec => []CountsMatchRows
<1>1. CommunityInit => CommunityInv
  BY CommunityInvInit
<1>2. CommunityInv /\ [CommunityNext]_communityVars => CommunityInv'
  BY CommunityInvNext
<1>3. CommunityInv => CountsMatchRows
  <2>. SUFFICES ASSUME CommunityInv, NEW who \in People, NEW c \in cards
                PROVE  /\ commentCount[c] = comments[c]
                       /\ likeCount[c] <= Cardinality(LikesOf(c))
                       /\ Cardinality(LikesOf(c)) <= likeCount[c] + unmatched[c]
                       /\ [card |-> c, who |-> who] \in likes /\ likeCount[c] = 0
                            => unmatched[c] > 0
    BY DEF CountsMatchRows, ListSharedCards, GetSharedCard, ListComments, LikedCardIds
  <2>1. Truth(c) /\ unmatched[c] \in Nat /\ IsFiniteSet(likes)
    BY CommunityAssumption DEF CommunityInv, Types, CardIds
  <2>2. Cardinality(LikesOf(c)) \in Nat
        /\ ([card |-> c, who |-> who] \in likes => Cardinality(LikesOf(c)) # 0)
    BY <2>1, LikesCounted DEF LikesOf
  <2>. QED BY <2>1, <2>2 DEF Truth
<1>. QED BY <1>1, <1>2, <1>3, PTL DEF CommunitySpec

(***************************************************************************)
(* Briefing: what a run of the job sends.                                  *)
(***************************************************************************)

Note == [user : Watchers, read : BOOLEAN, run : Nat]

\* While the job runs, its notifications are those of accounts it has come to,
\* unread and one for each, and no account's watchlist changes.
SentOnce ==
    /\ runs > 0
    /\ sent \in Nat /\ IsFiniteSet(uncounted)
    /\ sent + Cardinality(uncounted) = Cardinality(OfThisRun)
    /\ uncounted \cap todo = {}
    /\ uncounted \subseteq {notes[n].user : n \in OfThisRun}
    /\ \A n \in OfThisRun :
          /\ notes[n].user \notin todo
          /\ ~notes[n].read
          /\ watch[notes[n].user] # {}
    /\ \A m, n \in OfThisRun : notes[m].user = notes[n].user => m = n

BriefingInv ==
    /\ runs \in Nat
    /\ notes \in Seq(Note)
    /\ \A n \in DOMAIN notes : notes[n].run <= runs
    /\ job = "running" => SentOnce

LEMMA BriefingInvInit == BriefingInit => BriefingInv
<1>. SUFFICES ASSUME BriefingInit PROVE BriefingInv
  OBVIOUS
<1>1. notes \in Seq(Note) /\ DOMAIN notes = {}
  BY DEF BriefingInit
<1>. QED BY <1>1 DEF BriefingInit, BriefingInv

LEMMA NotesAreNotes ==
    BriefingInv => \A n \in DOMAIN notes : notes[n] \in Note
  BY ElementOfSeq DEF BriefingInv

LEMMA NotesOfRun ==
    ASSUME BriefingInv
    PROVE  /\ OfThisRun \subseteq 1 .. Len(notes) /\ Len(notes) \in Nat
           /\ DOMAIN notes = 1 .. Len(notes)
           /\ IsFiniteSet(OfThisRun) /\ Cardinality(OfThisRun) \in Nat
<1>1. /\ OfThisRun \subseteq 1 .. Len(notes) /\ Len(notes) \in Nat
      /\ DOMAIN notes = 1 .. Len(notes)
  BY DEF BriefingInv, OfThisRun
<1>2. IsFiniteSet(OfThisRun)
  <2>1. IsFiniteSet(1 .. Len(notes))
    BY <1>1, FS_Interval
  <2>. QED BY <1>1, <2>1, FS_Subset
<1>. QED BY <1>1, <1>2, FS_CardinalityType

\* A notification is added.
LEMMA NoteAdded ==
    ASSUME BriefingInv, NEW a \in Watchers, NEW run \in Nat, run <= runs, NewNote(a, run)
    PROVE  /\ notes' \in Seq(Note) /\ DOMAIN notes' = 1 .. Len(notes) + 1
           /\ notes'[Len(notes) + 1] = [user |-> a, read |-> FALSE, run |-> run]
           /\ \A n \in DOMAIN notes : n \in DOMAIN notes' /\ notes'[n] = notes[n]
           /\ \A n \in DOMAIN notes' : notes'[n].run <= runs
<1>. DEFINE note == [user |-> a, read |-> FALSE, run |-> run]
<1>1. note \in Note /\ notes' = Append(notes, note) /\ note.run = run
  BY DEF NewNote, Note
<1>. HIDE DEF note
<1>2. /\ notes' \in Seq(Note) /\ Len(notes') = Len(notes) + 1
      /\ notes'[Len(notes) + 1] = note
      /\ \A n \in 1 .. Len(notes) : notes'[n] = notes[n]
  BY <1>1, AppendProperties DEF BriefingInv
<1>3. Len(notes) \in Nat /\ DOMAIN notes = 1 .. Len(notes)
      /\ DOMAIN notes' = 1 .. Len(notes) + 1
  BY <1>2, LenProperties DEF BriefingInv
<1>4. \A n \in DOMAIN notes' : notes'[n].run <= runs
  BY <1>1, <1>2, <1>3 DEF BriefingInv
<1>. QED BY <1>2, <1>3, <1>4 DEF note

\* A request touches notes only while no job runs.
LEMMA RequestsKeep == BriefingInv /\ RequestStep => BriefingInv'
<1>. SUFFICES ASSUME BriefingInv, RequestStep PROVE BriefingInv'
  OBVIOUS
<1>1. job' # "running" /\ runs' = runs
  BY DEF RequestStep, AddWatchlist, RemoveWatchlist, CreateNotification, MarkRead,
     MarkAllRead, NoJobRuns, jobVars
<1>2. notes' \in Seq(Note) /\ \A n \in DOMAIN notes' : notes'[n].run <= runs
  <2>1. CASE notes' = notes
    BY <2>1 DEF BriefingInv
  <2>2. ASSUME NEW a \in Watchers, CreateNotification(a)
        PROVE  notes' \in Seq(Note) /\ \A n \in DOMAIN notes' : notes'[n].run <= runs
    <3>1. NewNote(a, 0) /\ 0 \in Nat /\ 0 <= runs
      BY <2>2 DEF CreateNotification, BriefingInv
    <3>. QED BY <3>1, NoteAdded
  <2>3. ASSUME DOMAIN notes' = DOMAIN notes,
               \A n \in DOMAIN notes : notes'[n] \in Note /\ notes'[n].run = notes[n].run,
               notes' = [n \in DOMAIN notes |-> notes'[n]]
        PROVE  notes' \in Seq(Note) /\ \A n \in DOMAIN notes' : notes'[n].run <= runs
    <3>1. Len(notes) \in Nat /\ notes' \in [1 .. Len(notes) -> Note]
      BY <2>3 DEF BriefingInv
    <3>2. notes' \in Seq(Note)
      BY <3>1, SeqDef
    <3>. QED BY <2>3, <3>2 DEF BriefingInv
  <2>4. ASSUME NEW n \in DOMAIN notes, MarkRead(n)
        PROVE  notes' \in Seq(Note) /\ \A m \in DOMAIN notes' : notes'[m].run <= runs
    <3>. DEFINE r == [notes[n] EXCEPT !.read = TRUE]
    <3>1. notes[n] \in Note
      BY <2>4, NotesAreNotes
    <3>2. r \in Note /\ r.run = notes[n].run
      BY <3>1 DEF Note
    <3>3. notes' = [notes EXCEPT ![n] = r]
      BY <2>4 DEF MarkRead
    <3>. HIDE DEF r
    <3>4. /\ DOMAIN notes' = DOMAIN notes /\ notes' = [m \in DOMAIN notes |-> notes'[m]]
          /\ \A m \in DOMAIN notes : notes'[m] = IF m = n THEN r ELSE notes[m]
      BY <3>3
    <3>. QED BY <2>3, <3>2, <3>4, NotesAreNotes
  <2>5. ASSUME NEW a \in Watchers, MarkAllRead(a)
        PROVE  notes' \in Seq(Note) /\ \A m \in DOMAIN notes' : notes'[m].run <= runs
    <3>. DEFINE r(n) == IF notes[n].user = a THEN [notes[n] EXCEPT !.read = TRUE]
                        ELSE notes[n]
    <3>1. \A n \in DOMAIN notes : r(n) \in Note /\ r(n).run = notes[n].run
      <4>1. \A n \in DOMAIN notes : notes[n] \in Note
        BY NotesAreNotes
      <4>. QED BY <4>1 DEF Note
    <3>2. notes' = [n \in DOMAIN notes |-> r(n)]
      BY <2>5 DEF MarkAllRead
    <3>. HIDE DEF r
    <3>. QED BY <2>3, <3>1, <3>2
  <2>. QED BY <2>1, <2>2, <2>4, <2>5 DEF RequestStep, AddWatchlist, RemoveWatchlist
<1>. QED BY <1>1, <1>2 DEF BriefingInv

\* The job comes to an account and sends it nothing.
LEMMA NothingSent ==
    ASSUME BriefingInv, NEW a, Come(a), notes' = notes, sent' = sent,
           uncounted' = uncounted
    PROVE  BriefingInv'
<1>1. /\ job' = "running" /\ SentOnce /\ runs' = runs /\ watch' = watch
      /\ todo' \subseteq todo
  BY DEF Come, BriefingInv
<1>2. OfThisRun' = OfThisRun
  BY <1>1 DEF OfThisRun
<1>. QED BY <1>1, <1>2 DEF BriefingInv, SentOnce

\* An account's notification is committed, and counted or not.
LEMMA BriefingSent ==
    ASSUME BriefingInv, NEW a \in Watchers, Commit(a),
           \/ sent' = sent + 1 /\ uncounted' = uncounted
           \/ sent' = sent /\ uncounted' = uncounted \cup {a}
    PROVE  BriefingInv'
<1>. DEFINE n1 == Len(notes) + 1
<1>1. /\ job' = "running" /\ SentOnce /\ runs' = runs /\ watch' = watch
      /\ todo' = todo \ {a} /\ a \in todo /\ watch[a] # {}
      /\ NewNote(a, runs) /\ runs \in Nat
  BY DEF Commit, Come, BriefingInv
<1>2. /\ notes' \in Seq(Note) /\ DOMAIN notes' = 1 .. Len(notes) + 1
      /\ notes'[n1] = [user |-> a, read |-> FALSE, run |-> runs]
      /\ \A n \in DOMAIN notes : n \in DOMAIN notes' /\ notes'[n] = notes[n]
      /\ \A n \in DOMAIN notes' : notes'[n].run <= runs
  BY <1>1, NoteAdded
<1>3. /\ OfThisRun \subseteq 1 .. Len(notes) /\ Len(notes) \in Nat
      /\ DOMAIN notes = 1 .. Len(notes)
      /\ IsFiniteSet(OfThisRun) /\ Cardinality(OfThisRun) \in Nat
  BY NotesOfRun
<1>4. /\ OfThisRun' = OfThisRun \cup {n1} /\ n1 \notin OfThisRun
      /\ notes'[n1].user = a /\ ~notes'[n1].read
      /\ \A n \in OfThisRun : notes'[n] = notes[n]
  <2>1. notes'[n1].user = a /\ ~notes'[n1].read /\ notes'[n1].run = runs
    BY <1>2
  <2>2. DOMAIN notes' = DOMAIN notes \cup {n1} /\ n1 \notin DOMAIN notes
    BY <1>2, <1>3
  <2>3. OfThisRun' = {n \in DOMAIN notes' : notes'[n].run = runs}
    BY <1>1 DEF OfThisRun
  <2>. HIDE DEF n1
  <2>. QED BY <1>2, <2>1, <2>2, <2>3 DEF OfThisRun
<1>5. Cardinality(OfThisRun') = Cardinality(OfThisRun) + 1
  BY <1>3, <1>4, FS_AddElement
<1>. HIDE DEF n1
<1>6. /\ sent' \in Nat /\ IsFiniteSet(uncounted')
      /\ sent' + Cardinality(uncounted') = Cardinality(OfThisRun')
  <2>1. /\ sent \in Nat /\ IsFiniteSet(uncounted) /\ Cardinality(uncounted) \in Nat
        /\ sent + Cardinality(uncounted) = Cardinality(OfThisRun)
        /\ a \notin uncounted
    BY <1>1, FS_CardinalityType DEF SentOnce
  <2>2. /\ IsFiniteSet(uncounted \cup {a})
        /\ Cardinality(uncounted \cup {a}) = Cardinality(uncounted) + 1
    BY <2>1, FS_AddElement
  <2>3. CASE sent' = sent + 1 /\ uncounted' = uncounted
    BY <1>5, <2>1, <2>3
  <2>4. CASE sent' = sent /\ uncounted' = uncounted \cup {a}
    BY <1>5, <2>1, <2>2, <2>4
  <2>. QED BY <2>3, <2>4
<1>7. /\ uncounted' \cap todo' = {}
      /\ uncounted' \subseteq {notes'[n].user : n \in OfThisRun'}
  <2>1. uncounted' \subseteq uncounted \cup {a}
    OBVIOUS
  <2>2. uncounted \cap todo = {} /\ uncounted \subseteq {notes[n].user : n \in OfThisRun}
    BY <1>1 DEF SentOnce
  <2>3. {notes[n].user : n \in OfThisRun} \cup {a} \subseteq {notes'[n].user : n \in OfThisRun'}
    BY <1>4
  <2>. QED BY <1>1, <2>1, <2>2, <2>3
<1>8. SentOnce'
  <2>2. \A n \in OfThisRun :
           notes[n].user # a /\ notes[n].user \notin todo /\ ~notes[n].read
           /\ watch[notes[n].user] # {}
    BY <1>1 DEF SentOnce
  <2>3. \A n \in OfThisRun' :
           notes'[n].user \notin todo' /\ ~notes'[n].read
           /\ watch'[notes'[n].user] # {}
    BY <1>1, <1>4, <2>2
  <2>4. \A m, n \in OfThisRun : notes[m].user = notes[n].user => m = n
    BY <1>1 DEF SentOnce
  <2>5. \A m, n \in OfThisRun' : notes'[m].user = notes'[n].user => m = n
    BY <1>4, <2>2, <2>4
  <2>6. runs' > 0
    BY <1>1 DEF SentOnce
  <2>. QED BY <1>6, <1>7, <2>3, <2>5, <2>6 DEF SentOnce
<1>. QED BY <1>1, <1>2, <1>8 DEF BriefingInv

LEMMA BriefingInvNext == BriefingInv /\ [BriefingNext]_briefingVars => BriefingInv'
<1>. SUFFICES ASSUME BriefingInv, [BriefingNext]_briefingVars PROVE BriefingInv'
  OBVIOUS
<1>1. CASE RequestStep
  BY <1>1, RequestsKeep
<1>2. CASE StartJob
  <2>1. /\ runs' = runs + 1 /\ notes' = notes /\ sent' = 0 /\ uncounted' = {}
        /\ runs \in Nat
        /\ notes \in Seq(Note) /\ \A n \in DOMAIN notes : notes[n].run <= runs
    BY <1>2 DEF StartJob, BriefingInv
  <2>2. \A n \in DOMAIN notes : notes[n].run \in Nat
    BY NotesAreNotes DEF Note
  <2>3. OfThisRun' = {}
    BY <2>1, <2>2 DEF OfThisRun
  <2>4. Cardinality(OfThisRun') = 0 /\ IsFiniteSet(uncounted') /\ Cardinality(uncounted') = 0
    BY <2>1, <2>3, FS_EmptySet
  <2>5. SentOnce'
    BY <2>1, <2>3, <2>4 DEF SentOnce
  <2>. QED BY <2>1, <2>2, <2>5 DEF BriefingInv
<1>3. ASSUME NEW a \in Watchers, NoBriefing(a) PROVE BriefingInv'
  BY <1>3, NothingSent DEF NoBriefing
<1>4. ASSUME NEW a \in Watchers, LoseConnection(a) PROVE BriefingInv'
  BY <1>4, NothingSent DEF LoseConnection
<1>5. ASSUME NEW a \in Watchers, SendBriefing(a) \/ ReadBackFails(a) PROVE BriefingInv'
  BY <1>5, BriefingSent DEF SendBriefing, ReadBackFails
<1>6. CASE EndJob \/ JobCrash
  BY <1>6 DEF EndJob, JobCrash, BriefingInv
<1>7. CASE UNCHANGED briefingVars
  BY <1>7 DEF briefingVars, BriefingInv, SentOnce, OfThisRun
<1>. QED BY <1>1, <1>2, <1>3, <1>4, <1>5, <1>6, <1>7 DEF BriefingNext, BriefingStep

LEMMA BriefingInvTrue == BriefingInv => SentIsTrue
<1>. SUFFICES ASSUME BriefingInv, job = "running", NEW n \in OfThisRun
     PROVE  /\ OfThisRun \cap GetNotifications(notes[n].user) = {n}
            /\ GetWatchlist(notes[n].user) # {}
            /\ GetUnreadCount(notes[n].user) > 0
  BY DEF SentIsTrue, BriefingInv, SentOnce
<1>1. SentOnce
  BY DEF BriefingInv
<1>2. OfThisRun \cap GetNotifications(notes[n].user) = {n}
  BY <1>1 DEF SentOnce, GetNotifications, OfThisRun
<1>3. GetUnreadCount(notes[n].user) > 0
  <2>. DEFINE unread == {m \in GetNotifications(notes[n].user) : ~notes[m].read}
  <2>1. n \in unread /\ unread \subseteq 1 .. Len(notes) /\ Len(notes) \in Nat
    BY <1>1, <1>2, NotesOfRun DEF SentOnce, GetNotifications
  <2>. HIDE DEF unread
  <2>2. IsFiniteSet(unread)
    <3>1. IsFiniteSet(1 .. Len(notes))
      BY <2>1, FS_Interval
    <3>. QED BY <2>1, <3>1, FS_Subset
  <2>3. Cardinality(unread) \in Nat /\ Cardinality(unread) # 0
    BY <2>1, <2>2, FS_CardinalityType, FS_EmptySet
  <2>. QED BY <2>3 DEF GetUnreadCount, unread
<1>. QED BY <1>1, <1>2, <1>3 DEF SentOnce, GetWatchlist

\* Whatever fails on the way, also between a commit and the reading back, the
\* count the job reports and the accounts it left out of it make up the
\* notifications the run left: one unread one for each of them, and only for
\* those with a watchlist; for any accounts, symbols and bounds
\* (run_proactive_recommendation_usecase.py 43-87,
\* notification_repository_impl.py 15-25).
THEOREM ReportsAreTrue == BriefingSpec => []SentIsTrue
  BY BriefingInvInit, BriefingInvNext, BriefingInvTrue, PTL DEF BriefingSpec

(***************************************************************************)
(* Activity: what a profile shows of the symbols seen.                     *)
(***************************************************************************)

\* MaxViewed rows of the account were seen no earlier than x.
FullSince(a, x) ==
    \E k \in SUBSET history[a] :
       Cardinality(k) = MaxViewed /\ \A t \in k : lastSeen[a][t] >= x

\* A row carries the instant its symbol was last seen; one that is deleted was
\* pushed out by MaxViewed later ones.
ViewerInv(a) ==
    /\ history[a] \subseteq Symbols /\ IsFiniteSet(history[a])
    /\ \A s \in Symbols : lastSeen[a][s] \in Int /\ lastSeen[a][s] <= now
    /\ \A s \in history[a] :
          createdAt[a][s] = lastSeen[a][s] /\ lastSeen[a][s] # Never
    /\ \A s \in Seen(a) \ history[a] : FullSince(a, lastSeen[a][s])

ActivityInv ==
    /\ now \in Nat
    /\ DOMAIN history = Viewers
    /\ createdAt \in [Viewers -> [Symbols -> Int]]
    /\ lastSeen \in [Viewers -> [Symbols -> Int]]
    /\ \A a \in Viewers : ViewerInv(a)

\* What is kept of a finite set; if it held MaxViewed rows no earlier than x,
\* so does what is kept.
LEMMA KeptIsNewest ==
    ASSUME NEW shown, IsFiniteSet(shown), NEW at, \A t \in shown : at[t] \in Int,
           NEW kept \in Kept(shown, at)
    PROVE  /\ kept \subseteq shown /\ IsFiniteSet(kept)
           /\ Cardinality(kept) = MaxViewed \/ kept = shown
           /\ kept # shown => Cardinality(kept) = MaxViewed
           /\ Cardinality(shown) >= MaxViewed => Cardinality(kept) = MaxViewed
           /\ \A s \in kept, t \in shown \ kept : at[s] >= at[t]
           /\ \A x \in Int, k \in SUBSET shown :
                 Cardinality(k) = MaxViewed /\ (\A t \in k : at[t] >= x)
                   => Cardinality(kept) = MaxViewed /\ \A t \in kept : at[t] >= x
<1>1. /\ kept \subseteq shown
      /\ Cardinality(kept) = IF Cardinality(shown) > MaxViewed
                             THEN MaxViewed ELSE Cardinality(shown)
      /\ \A s \in kept, t \in shown \ kept : at[s] >= at[t]
  BY DEF Kept
<1>2. IsFiniteSet(kept) /\ Cardinality(kept) \in Nat /\ Cardinality(shown) \in Nat
      /\ MaxViewed \in Nat
  BY <1>1, FS_Subset, FS_CardinalityType, ActivityAssumption
<1>3. Cardinality(kept) = Cardinality(shown) => kept = shown
  BY <1>1, FS_Subset
<1>4. Cardinality(kept) = MaxViewed \/ kept = shown
  BY <1>1, <1>2, <1>3
<1>5. Cardinality(shown) >= MaxViewed => Cardinality(kept) = MaxViewed
  BY <1>1, <1>2
<1>6. ASSUME NEW x \in Int, NEW k \in SUBSET shown,
             Cardinality(k) = MaxViewed, \A t \in k : at[t] >= x
      PROVE  Cardinality(kept) = MaxViewed /\ \A t \in kept : at[t] >= x
  <2>1. IsFiniteSet(k) /\ Cardinality(k) <= Cardinality(shown)
    BY FS_Subset
  <2>2. Cardinality(kept) = MaxViewed
    BY <1>2, <1>5, <1>6, <2>1
  <2>3. ASSUME NEW t \in kept PROVE at[t] >= x
    <3>1. CASE t \in k
      BY <1>6, <3>1
    <3>2. CASE t \notin k
      <4>1. ~(k \subseteq kept)
        <5>1. SUFFICES ASSUME k \subseteq kept PROVE FALSE
          OBVIOUS
        <5>2. k = kept
          BY <1>2, <1>6, <2>2, <5>1, FS_Subset
        <5>. QED BY <3>2, <5>2
      <4>2. PICK u \in k : u \notin kept
        BY <4>1
      <4>3. at[t] >= at[u] /\ at[u] >= x /\ at[t] \in Int /\ at[u] \in Int
        BY <1>1, <1>6, <4>2
      <4>. QED BY <4>3
    <3>. QED BY <3>1, <3>2
  <2>. QED BY <2>2, <2>3
<1>. QED BY <1>1, <1>2, <1>4, <1>5, <1>6

LEMMA ActivityInvInit == ActivityInit => ActivityInv
<1>. SUFFICES ASSUME ActivityInit PROVE ActivityInv
  OBVIOUS
<1>1. ASSUME NEW a \in Viewers PROVE ViewerInv(a)
  BY FS_EmptySet DEF ActivityInit, ViewerInv, Seen, Never
<1>. QED BY <1>1 DEF ActivityInit, ActivityInv, Never

\* A symbol is seen: its row is the latest, and rows are deleted or not.
LEMMA SymbolSeen ==
    ASSUME ActivityInv, NEW a \in Viewers, NEW s \in Symbols, NEW trimmed,
           Remember(a, s, trimmed)
    PROVE  ActivityInv'
<1>. DEFINE shown == history[a] \cup {s}
            at == [createdAt[a] EXCEPT ![s] = now]
            seen == [lastSeen[a] EXCEPT ![s] = now]
<1>1. PICK kept \in IF trimmed THEN Kept(shown, at) ELSE {shown} :
         history' = [history EXCEPT ![a] = kept]
  BY DEF Remember
<1>2. /\ createdAt' = [createdAt EXCEPT ![a] = at] /\ now' = now
      /\ lastSeen' = [lastSeen EXCEPT ![a] = seen]
  BY DEF Remember
<1>3. /\ now \in Nat /\ createdAt[a] \in [Symbols -> Int] /\ lastSeen[a] \in [Symbols -> Int]
      /\ ViewerInv(a) /\ DOMAIN history = Viewers
      /\ createdAt \in [Viewers -> [Symbols -> Int]]
      /\ lastSeen \in [Viewers -> [Symbols -> Int]]
  BY DEF ActivityInv
<1>4. /\ at \in [Symbols -> Int] /\ at[s] = now
      /\ \A t \in Symbols \ {s} : at[t] = createdAt[a][t]
      /\ seen \in [Symbols -> Int] /\ seen[s] = now
      /\ \A t \in Symbols \ {s} : seen[t] = lastSeen[a][t]
  BY <1>3
<1>5. /\ shown \subseteq Symbols /\ IsFiniteSet(shown) /\ s \in shown
      /\ history[a] \subseteq shown
      /\ \A t \in shown : at[t] = seen[t] /\ seen[t] # Never
      /\ \A t \in Symbols : seen[t] <= now /\ seen[t] >= lastSeen[a][t]
  BY <1>3, <1>4, FS_AddElement DEF ViewerInv, Never
<1>. HIDE DEF shown, at, seen
<1>6. /\ kept \subseteq shown /\ IsFiniteSet(kept)
      /\ \A u \in shown \ kept :
            Cardinality(kept) = MaxViewed /\ \A t \in kept : seen[t] >= seen[u]
      /\ \A x \in Int, k \in SUBSET shown :
            Cardinality(k) = MaxViewed /\ (\A t \in k : seen[t] >= x)
              => \E l \in SUBSET kept :
                    Cardinality(l) = MaxViewed /\ \A t \in l : seen[t] >= x
  <2>1. CASE kept = shown
    BY <1>5, <2>1
  <2>2. CASE kept \in Kept(shown, at)
    <3>1. \A t \in shown : at[t] \in Int
      BY <1>4, <1>5
    <3>. QED BY <1>5, <2>2, <3>1, KeptIsNewest
  <2>. QED BY <1>1, <2>1, <2>2
<1>7. history'[a] = kept /\ createdAt'[a] = at /\ lastSeen'[a] = seen
  BY <1>1, <1>2, <1>3
<1>8. ASSUME NEW u \in Seen(a)' \ kept PROVE FullSince(a, lastSeen[a][u])'
  <2>1. u \in Symbols /\ seen[u] # Never /\ seen[u] \in Int
    BY <1>4, <1>7 DEF Seen
  <2>2. CASE u \in shown
    <3>1. Cardinality(kept) = MaxViewed /\ \A t \in kept : seen[t] >= seen[u]
      BY <1>6, <1>8, <2>2
    <3>. QED BY <1>7, <3>1 DEF FullSince
  <2>3. CASE u \notin shown
    <3>1. u # s /\ u \notin history[a] /\ seen[u] = lastSeen[a][u] /\ u \in Seen(a)
      BY <1>4, <1>5, <2>1, <2>3 DEF Seen
    <3>2. PICK k \in SUBSET history[a] :
            Cardinality(k) = MaxViewed /\ \A t \in k : lastSeen[a][t] >= seen[u]
      BY <1>3, <3>1 DEF ViewerInv, FullSince
    <3>3. \A t \in k : seen[t] >= seen[u]
      BY <1>3, <1>4, <1>5, <2>1, <3>2 DEF ViewerInv
    <3>4. PICK l \in SUBSET kept :
            Cardinality(l) = MaxViewed /\ \A t \in l : seen[t] >= seen[u]
      BY <1>5, <1>6, <2>1, <3>2, <3>3
    <3>. QED BY <1>7, <3>4 DEF FullSince
  <2>. QED BY <2>2, <2>3
<1>9. ViewerInv(a)'
  <2>1. history'[a] \subseteq Symbols /\ IsFiniteSet(history'[a])
    BY <1>5, <1>6, <1>7
  <2>2. \A t \in Symbols : lastSeen'[a][t] \in Int /\ lastSeen'[a][t] <= now'
    <3>1. \A t \in Symbols : seen[t] \in Int
      BY <1>4
    <3>2. \A t \in Symbols : seen[t] <= now
      BY <1>5
    <3>. QED BY <1>2, <1>7, <3>1, <3>2
  <2>3. \A t \in history'[a] : createdAt'[a][t] = lastSeen'[a][t] /\ lastSeen'[a][t] # Never
    BY <1>5, <1>6, <1>7
  <2>4. \A u \in Seen(a)' \ history'[a] : FullSince(a, lastSeen[a][u])'
    BY <1>7, <1>8
  <2>. QED BY <2>1, <2>2, <2>3, <2>4 DEF ViewerInv
<1>10. ASSUME NEW b \in Viewers \ {a} PROVE ViewerInv(b)'
  <2>1. /\ history'[b] = history[b] /\ createdAt'[b] = createdAt[b]
        /\ lastSeen'[b] = lastSeen[b] /\ ViewerInv(b)
    BY <1>1, <1>2, <1>3 DEF ActivityInv
  <2>. QED BY <1>2, <2>1 DEF ViewerInv, FullSince, Seen
<1>11. /\ DOMAIN history' = Viewers
       /\ createdAt' \in [Viewers -> [Symbols -> Int]]
       /\ lastSeen' \in [Viewers -> [Symbols -> Int]]
  BY <1>1, <1>2, <1>3, <1>4
<1>. QED BY <1>2, <1>3, <1>9, <1>10, <1>11 DEF ActivityInv

LEMMA ActivityInvNext == ActivityInv /\ [ActivityNext]_activityVars => ActivityInv'
<1>. SUFFICES ASSUME ActivityInv, [ActivityNext]_activityVars PROVE ActivityInv'
  OBVIOUS
<1>1. CASE Tick
  <2>1. /\ now' = now + 1 /\ now \in Nat /\ history' = history
        /\ createdAt' = createdAt /\ lastSeen' = lastSeen
    BY <1>1 DEF Tick, clickRows, ActivityInv
  <2>2. ASSUME NEW a \in Viewers PROVE ViewerInv(a)'
    <3>1. ViewerInv(a)
      BY DEF ActivityInv
    <3>2. \A s \in Symbols : lastSeen[a][s] \in Int /\ lastSeen[a][s] <= now + 1
      BY <2>1, <3>1 DEF ViewerInv
    <3>. QED BY <2>1, <3>1, <3>2 DEF ViewerInv, FullSince, Seen
  <2>. QED BY <2>1, <2>2 DEF ActivityInv
<1>2. ASSUME NEW a \in Viewers, NEW s \in Symbols, SaveRecentlyViewed(a, s) PROVE ActivityInv'
  BY <1>2, SymbolSeen DEF SaveRecentlyViewed
<1>3. ASSUME NEW a \in Viewers, NEW s \in Symbols, SaveClickedCard(a, s) PROVE ActivityInv'
  BY <1>3, SymbolSeen DEF SaveClickedCard
<1>4. ASSUME UNCHANGED <<now, clickRows, lastSeen>> PROVE ActivityInv'
  BY <1>4 DEF clickRows, ActivityInv, ViewerInv, FullSince, Seen
<1>5. ASSUME NEW a \in Viewers, NEW st \in Styles, UpdateInvestmentProfile(a, st)
      PROVE  ActivityInv'
  BY <1>4, <1>5 DEF UpdateInvestmentProfile
<1>6. CASE UpdateAllUserProfiles
  BY <1>4, <1>6 DEF UpdateAllUserProfiles
<1>7. CASE UNCHANGED activityVars
  BY <1>4, <1>7 DEF activityVars
<1>. QED BY <1>1, <1>2, <1>3, <1>5, <1>6, <1>7 DEF ActivityNext

LEMMA ActivityInvShown == ActivityInv => NewestAreKept
<1>. SUFFICES ASSUME ActivityInv, NEW a \in Viewers, NEW shown \in RecentlyViewed(a)
     PROVE  /\ \A s \in Seen(a) \ shown, t \in shown : lastSeen[a][s] <= lastSeen[a][t]
            /\ Cardinality(shown) = MaxViewed \/ shown = Seen(a)
  BY DEF NewestAreKept
<1>. DEFINE rows == history[a]
            at == createdAt[a]
            seen == lastSeen[a]
<1>1. /\ rows \subseteq Symbols /\ IsFiniteSet(rows)
      /\ \A s \in Symbols : seen[s] \in Int
      /\ \A s \in rows : at[s] = seen[s] /\ seen[s] # Never
      /\ \A s \in Seen(a) \ rows : FullSince(a, seen[s])
      /\ Seen(a) \subseteq Symbols /\ rows \subseteq Seen(a)
      /\ shown \in Kept(rows, at)
  BY DEF ActivityInv, ViewerInv, RecentlyViewed, Seen
<1>2. /\ shown \subseteq rows
      /\ Cardinality(shown) = MaxViewed \/ shown = rows
      /\ \A s \in shown, t \in rows \ shown : at[s] >= at[t]
      /\ \A x \in Int, k \in SUBSET rows :
            Cardinality(k) = MaxViewed /\ (\A t \in k : at[t] >= x)
              => Cardinality(shown) = MaxViewed /\ \A t \in shown : at[t] >= x
  <2>. HIDE DEF rows, at
  <2>1. \A t \in rows : at[t] \in Int
    BY <1>1
  <2>. QED BY <1>1, <2>1, KeptIsNewest
<1>3. ASSUME NEW s \in Seen(a) \ rows
      PROVE  Cardinality(shown) = MaxViewed /\ \A t \in shown : seen[t] >= seen[s]
  <2>1. PICK k \in SUBSET rows :
          Cardinality(k) = MaxViewed /\ \A t \in k : seen[t] >= seen[s]
    BY <1>1 DEF FullSince
  <2>2. seen[s] \in Int /\ \A t \in k : at[t] >= seen[s]
    BY <1>1, <2>1
  <2>. HIDE DEF rows, at, seen
  <2>. QED BY <1>1, <1>2, <2>1, <2>2
<1>. HIDE DEF rows, at
<1>4. ASSUME NEW s \in Seen(a) \ shown, NEW t \in shown PROVE seen[s] <= seen[t]
  <2>1. CASE s \in rows
    BY <1>1, <1>2, <2>1
  <2>2. CASE s \notin rows
    BY <1>1, <1>2, <1>3, <2>2
  <2>. QED BY <2>1, <2>2
<1>5. Cardinality(shown) = MaxViewed \/ shown = Seen(a)
  BY <1>1, <1>2, <1>3
<1>. QED BY <1>4, <1>5

\* The profile shows the symbols seen last, however views, clicks and half-done
\* requests follow each other, for any accounts, symbols and MaxViewed
\* (user_profile_repository_impl.py 82-134, get_user_profile_usecase.py 31-66).
THEOREM ProfileShowsTheNewest == ActivitySpec => []NewestAreKept
  BY ActivityInvInit, ActivityInvNext, ActivityInvShown, PTL DEF ActivitySpec

(***************************************************************************)
(* Activity: what the batch and the investment profile keep.               *)
(***************************************************************************)


LEMMA LeastNatural ==
    ASSUME NEW T, T \subseteq Nat, T # {}
    PROVE  \E n \in T : \A m \in T : n <= m
<1>. DEFINE R == OpToRel(<, Nat)
<1>1. IsWellFoundedOn(R, Nat)
  BY NatLessThanWellFounded, Zenon
<1>2. \E n \in T : \A m \in T : <<m, n>> \notin R
  <2>. HIDE DEF R
  <2>. QED BY <1>1, WFMin
<1>3. \A m, n \in Nat : m < n => <<m, n>> \in R
  BY Zenon DEF OpToRel
<1>. HIDE DEF R
<1>4. \A m, n \in T : <<m, n>> \notin R => n <= m
  BY <1>3
<1>. QED BY <1>2, <1>4

\* The values of g are computed one from the other, from base on.
Computed(g, L, base, step) ==
    g[0] = base /\ \A n \in 1 .. L : g[n] = step[<<n, g[n - 1]>>]

\* Such a function exists.
LEMMA Recursion ==
    ASSUME NEW S, NEW L, NEW base, NEW step,
           L \in Nat, base \in S, step \in [(1 .. L) \X S -> S]
    PROVE  \E g \in [0 .. L -> S] : Computed(g, L, base, step)
<1>. USE DEF Computed
<1>. DEFINE Computes(g, m) ==
        /\ g \in [0 .. m -> S]
        /\ g[0] = base /\ \A n \in 1 .. m : g[n] = step[<<n, g[n - 1]>>]
<1>. DEFINE T == {m \in Nat : m <= L /\ ~ \E g : Computes(g, m)}
<1>1. SUFFICES ASSUME T # {} PROVE FALSE
  <2>1. L \notin T => \E g : Computes(g, L)
    OBVIOUS
  <2>. QED BY <2>1
<1>2. PICK m \in T : \A k \in T : m <= k
  <2>1. T \subseteq Nat
    OBVIOUS
  <2>. HIDE DEF T
  <2>. QED BY <1>1, <2>1, LeastNatural
<1>3. m # 0
  <2>1. Computes([n \in 0 .. 0 |-> base], 0)
    OBVIOUS
  <2>. QED BY <2>1
<1>4. m - 1 \in Nat /\ ~(m <= m - 1) /\ m \in Nat /\ m <= L /\ m - 1 <= L
  BY <1>3
<1>5. m - 1 \notin T
  <2>. HIDE DEF T
  <2>. QED BY <1>2, <1>4
<1>6. PICK g : Computes(g, m - 1)
  BY <1>4, <1>5
<1>. DEFINE h == [n \in 0 .. m |-> IF n = m THEN step[<<m, g[m - 1]>>] ELSE g[n]]
<1>7. /\ h[m] = step[<<m, g[m - 1]>>]
      /\ \A n \in 0 .. (m - 1) : h[n] = g[n]
  BY <1>4
<1>8. g[m - 1] \in S /\ step[<<m, g[m - 1]>>] \in S
  BY <1>4, <1>6
<1>9. h \in [0 .. m -> S]
  BY <1>4, <1>6, <1>8
<1>. HIDE DEF h
<1>10. h[0] = base
  BY <1>4, <1>6, <1>7
<1>11. ASSUME NEW n \in 1 .. m PROVE h[n] = step[<<n, h[n - 1]>>]
  <2>1. CASE n = m
    <3>1. h[m - 1] = g[m - 1]
      BY <1>4, <1>7
    <3>. QED BY <1>7, <2>1, <3>1
  <2>2. CASE n # m
    <3>1. n \in 1 .. (m - 1) /\ n - 1 \in 0 .. (m - 1) /\ n \in 0 .. (m - 1)
      BY <1>4, <2>2
    <3>. QED BY <1>6, <1>7, <3>1
  <2>. QED BY <2>1, <2>2
<1>12. Computes(h, m)
  BY <1>9, <1>10, <1>11
<1>. QED BY <1>12

-----------------------------------------------------------------------------
(* The symbols of the day and the preferred ones behind them.              *)

\* What Merged's recursion makes of the sequence g before n.
MergeAt(q, old, n, g) ==
    IF old[n] \in Range(q) THEN g[n - 1] ELSE Append(g[n - 1], old[n])

\* The recursion of Merged defines a function.
LEMMA MergeUnfolds ==
    ASSUME NEW a, NEW q \in Seq(Symbols), preferred[a] \in Seq(Symbols)
    PROVE  \E g : /\ Merged(a, q) = g[Len(preferred[a])]
                  /\ g[0] = q
                  /\ \A n \in 1 .. Len(preferred[a]) :
                        g[n] = MergeAt(q, preferred[a], n, g)
<1>1. PICK old \in Seq(Symbols) : old = preferred[a]
  OBVIOUS
<1>2. PICK L \in Nat : L = Len(old) /\ \A n \in 1 .. L : old[n] \in Symbols
  BY ElementOfSeq
<1>3. PICK S : S = Seq(Symbols)
  OBVIOUS
<1>4. PICK step \in [(1 .. L) \X S -> S] :
         \A n \in 1 .. L, s \in S :
            step[<<n, s>>] = IF old[n] \in Range(q) THEN s ELSE Append(s, old[n])
  <2>. DEFINE step == [x \in (1 .. L) \X S |->
                         IF old[x[1]] \in Range(q) THEN x[2] ELSE Append(x[2], old[x[1]])]
  <2>1. ASSUME NEW x \in (1 .. L) \X S
        PROVE  (IF old[x[1]] \in Range(q) THEN x[2] ELSE Append(x[2], old[x[1]])) \in S
    <3>1. x[1] \in 1 .. L /\ x[2] \in S /\ old[x[1]] \in Symbols
      BY <1>2
    <3>. QED BY <1>3, <3>1, AppendProperties
  <2>2. step \in [(1 .. L) \X S -> S]
    BY <2>1
  <2>3. \A n \in 1 .. L, s \in S :
          step[<<n, s>>] = IF old[n] \in Range(q) THEN s ELSE Append(s, old[n])
    OBVIOUS
  <2>. HIDE DEF step
  <2>. QED BY <2>2, <2>3
<1>5. q \in S
  BY <1>3
<1>6. PICK g \in [0 .. L -> S] : Computed(g, L, q, step)
  BY <1>5, Recursion
<1>7. ASSUME NEW n \in 1 .. L PROVE g[n] = MergeAt(q, old, n, g)
  <2>1. g[n - 1] \in S
    <3>1. n - 1 \in 0 .. L
      BY <1>2
    <3>. QED BY <1>6, <3>1
  <2>2. g[n] = step[<<n, g[n - 1]>>]
    BY <1>6 DEF Computed
  <2>. QED BY <1>4, <2>1, <2>2 DEF MergeAt
<1>8. g = [n \in 0 .. L |-> IF n = 0 THEN q ELSE MergeAt(q, old, n, g)]
  <2>1. \A n \in 0 .. L : g[n] = IF n = 0 THEN q ELSE MergeAt(q, old, n, g)
    BY <1>2, <1>6, <1>7 DEF Computed
  <2>. QED BY <1>6, <2>1
<1>. DEFINE merge[n \in 0 .. Len(preferred[a])] ==
                IF n = 0 THEN q
                ELSE IF preferred[a][n] \in Range(q) THEN merge[n - 1]
                ELSE Append(merge[n - 1], preferred[a][n])
<1>9. Merged(a, q) = merge[Len(preferred[a])]
  BY Zenon DEF Merged
<1>10. \E f : f = [n \in 0 .. Len(preferred[a]) |->
                      IF n = 0 THEN q ELSE MergeAt(q, preferred[a], n, f)]
  BY <1>1, <1>2, <1>8
<1>11. merge = [n \in 0 .. Len(preferred[a]) |->
                  IF n = 0 THEN q ELSE MergeAt(q, preferred[a], n, merge)]
  BY <1>10, Zenon DEF MergeAt
<1>. HIDE DEF merge
<1>12. /\ merge[0] = q
       /\ \A n \in 1 .. Len(preferred[a]) : merge[n] = MergeAt(q, preferred[a], n, merge)
  <2>1. 0 \in 0 .. Len(preferred[a])
    BY <1>1, <1>2
  <2>2. \A n \in 1 .. Len(preferred[a]) : n \in 0 .. Len(preferred[a]) /\ n # 0
    BY <1>1, <1>2
  <2>. QED BY <1>11, <2>1, <2>2, Zenon
<1>. QED BY <1>9, <1>12

\* The preferred symbols come behind those of the day, none is lost and none is
\* there twice.
LEMMA MergedKeepsAll ==
    ASSUME NEW a, NEW q \in Seq(Symbols), IsInjective(q),
           preferred[a] \in Seq(Symbols), IsInjective(preferred[a])
    PROVE  /\ Merged(a, q) \in Seq(Symbols) /\ IsInjective(Merged(a, q))
           /\ Range(preferred[a]) \subseteq Range(Merged(a, q))
<1>1. PICK old \in Seq(Symbols) : old = preferred[a]
  OBVIOUS
<1>2. PICK L \in Nat : L = Len(old) /\ \A n \in 1 .. L : old[n] \in Symbols
  BY ElementOfSeq
<1>3. PICK g : /\ Merged(a, q) = g[L]
               /\ g[0] = q
               /\ \A n \in 1 .. L : g[n] = MergeAt(q, old, n, g)
  BY <1>1, <1>2, MergeUnfolds
<1>. DEFINE Good(n) ==
        /\ g[n] \in Seq(Symbols) /\ IsInjective(g[n])
        /\ Range(g[n]) = Range(q) \cup {old[i] : i \in 1 .. n}
            T == {n \in Nat : n <= L /\ ~Good(n)}
<1>4. T = {}
  <2>1. SUFFICES ASSUME T # {} PROVE FALSE
    OBVIOUS
  <2>2. PICK n \in T : \A m \in T : n <= m
    <3>1. T \subseteq Nat
      OBVIOUS
    <3>. HIDE DEF T
    <3>. QED BY <2>1, <3>1, LeastNatural
  <2>3. n # 0
    <3>1. {old[i] : i \in 1 .. 0} = {}
      OBVIOUS
    <3>. QED BY <1>3, <3>1
  <2>. DEFINE m == n - 1
  <2>4. m \in Nat /\ m <= L /\ ~(n <= m) /\ n = m + 1 /\ n \in 1 .. L
    BY <2>3, <1>2
  <2>5. g[n] = MergeAt(q, old, n, g)
    BY <1>3, <2>4
  <2>. HIDE DEF m
  <2>6. Good(m)
    BY <2>2, <2>4
  <2>7. g[n] = IF old[n] \in Range(q) THEN g[m] ELSE Append(g[m], old[n])
    BY <2>5 DEF MergeAt, m
  <2>8. {old[i] : i \in 1 .. n} = {old[i] : i \in 1 .. m} \cup {old[n]}
    <3>1. 1 .. n = (1 .. m) \cup {n}
      BY <2>4
    <3>2. {old[i] : i \in (1 .. m) \cup {n}} = {old[i] : i \in 1 .. m} \cup {old[n]}
      OBVIOUS
    <3>. QED BY <3>1, <3>2
  <2>9. CASE old[n] \in Range(q)
    BY <2>2, <2>6, <2>7, <2>8, <2>9
  <2>10. CASE old[n] \notin Range(q)
    <3>1. PICK s \in Seq(Symbols) : s = g[m] /\ IsInjective(s)
                  /\ Range(s) = Range(q) \cup {old[i] : i \in 1 .. m}
      BY <2>6
    <3>2. PICK x \in Symbols : x = old[n]
      BY <1>2, <2>4
    <3>3. PICK k \in Nat : k = Len(s) /\ DOMAIN s = 1 .. k
      OBVIOUS
    <3>4. x \notin Range(s)
      BY <1>1, <1>2, <2>4, <2>10, <3>1, <3>2 DEF IsInjective
    <3>5. /\ Append(s, x) \in Seq(Symbols) /\ DOMAIN Append(s, x) = 1 .. k + 1
          /\ Append(s, x)[k + 1] = x /\ \A i \in 1 .. k : Append(s, x)[i] = s[i]
      BY <3>3, AppendProperties
    <3>. DEFINE t == Append(s, x)
    <3>. HIDE DEF t
    <3>6. g[n] = t
      BY <2>7, <2>10, <3>1, <3>2 DEF t
    <3>7. /\ t \in Seq(Symbols) /\ DOMAIN t = 1 .. k + 1
          /\ t[k + 1] = x /\ \A i \in 1 .. k : t[i] = s[i]
      BY <3>5 DEF t
    <3>8. IsInjective(t)
      <4>1. SUFFICES ASSUME NEW i \in 1 .. k + 1, NEW j \in 1 .. k + 1, t[i] = t[j]
                     PROVE  i = j
        BY <3>7 DEF IsInjective
      <4>2. \A h \in 1 .. k : s[h] # x
        BY <3>3, <3>4 DEF Range
      <4>3. CASE i \in 1 .. k /\ j \in 1 .. k
        <5>1. s[i] = s[j]
          BY <3>7, <4>1, <4>3, Zenon
        <5>. QED BY <3>1, <3>3, <4>3, <5>1, Zenon DEF IsInjective
      <4>4. (i \in 1 .. k \/ i = k + 1) /\ (j \in 1 .. k \/ j = k + 1)
        BY <3>3
      <4>5. CASE i = k + 1 \/ j = k + 1
        BY <3>7, <4>1, <4>2, <4>4, <4>5
      <4>. QED BY <4>3, <4>4, <4>5
    <3>9. Range(t) = Range(s) \cup {x}
      <4>1. Range(t) = {t[i] : i \in 1 .. k + 1} /\ Range(s) = {s[i] : i \in 1 .. k}
        BY <3>3, <3>7 DEF Range
      <4>2. {t[i] : i \in 1 .. k + 1} = {t[i] : i \in 1 .. k} \cup {t[k + 1]}
        OBVIOUS
      <4>. QED BY <3>7, <4>1, <4>2
    <3>. QED BY <2>2, <2>8, <3>1, <3>2, <3>6, <3>7, <3>8, <3>9
  <2>. QED BY <2>9, <2>10
<1>5. Good(L)
  <2>1. L \in Nat /\ L <= L
    BY <1>2
  <2>2. L \notin T
    BY <1>4
  <2>. QED BY <2>1, <2>2
<1>6. Range(old) = {old[i] : i \in 1 .. L}
  BY <1>2 DEF Range
<1>. QED BY <1>1, <1>3, <1>5, <1>6

-----------------------------------------------------------------------------
(* The steps.                                                              *)

ProfilesInv ==
    /\ DOMAIN preferred = Viewers
    /\ \A a \in Viewers : preferred[a] \in Seq(Symbols) /\ IsInjective(preferred[a])

\* What the batch sorts is a sequence without repetition.
LEMMA SortedSymbolsAreNew ==
    ASSUME ActivityInv, NEW a \in Viewers, NEW q \in SortedSymbols(a)
    PROVE  q \in Seq(Symbols) /\ IsInjective(q)
<1>1. TodayInteractions(a) \subseteq history[a]
  BY DEF TodayInteractions
<1>2. TodayInteractions(a) \subseteq Symbols /\ IsFiniteSet(TodayInteractions(a))
  BY <1>1, FS_Subset DEF ActivityInv, ViewerInv
<1>3. Cardinality(TodayInteractions(a)) \in Nat
  BY <1>2, FS_CardinalityType
<1>. QED BY <1>2, <1>3 DEF SortedSymbols

\* What a step may do to the profile of an account.
ProfileKept(a) ==
    /\ preferred'[a] \in Seq(Symbols) /\ IsInjective(preferred'[a])
    /\ Range(preferred[a]) \subseteq Range(preferred'[a])
    /\ batchAt' # batchAt => style'[a] = style[a]

LEMMA ProfilesAreKept ==
    ASSUME ActivityInv, ProfilesInv, [ActivityNext]_activityVars
    PROVE  DOMAIN preferred' = Viewers /\ \A a \in Viewers : ProfileKept(a)
<1>1. ASSUME UNCHANGED preferred, UNCHANGED batchAt \/ UNCHANGED style
      PROVE  DOMAIN preferred' = Viewers /\ \A a \in Viewers : ProfileKept(a)
  BY <1>1 DEF ProfilesInv, ProfileKept
<1>2. CASE UpdateAllUserProfiles
  <2>1. PICK reached \in SUBSET Viewers :
            /\ DOMAIN preferred' = Viewers
            /\ \A a \in Viewers :
                  IF a \in reached
                  THEN \E q \in SortedSymbols(a) : preferred'[a] = Merged(a, q)
                  ELSE preferred'[a] = preferred[a]
    BY <1>2 DEF UpdateAllUserProfiles
  <2>2. UNCHANGED style
    BY <1>2 DEF UpdateAllUserProfiles
  <2>3. ASSUME NEW a \in Viewers PROVE ProfileKept(a)
    <3>1. preferred[a] \in Seq(Symbols) /\ IsInjective(preferred[a])
      BY DEF ProfilesInv
    <3>2. CASE a \in reached
      <4>1. PICK q \in SortedSymbols(a) : preferred'[a] = Merged(a, q)
        BY <2>1, <3>2
      <4>. QED BY <2>2, <3>1, <4>1, SortedSymbolsAreNew, MergedKeepsAll DEF ProfileKept
    <3>3. CASE a \notin reached
      BY <2>1, <2>2, <3>1, <3>3 DEF ProfileKept
    <3>. QED BY <3>2, <3>3
  <2>. QED BY <2>1, <2>3
<1>3. CASE Tick
  BY <1>1, <1>3 DEF Tick, profiles, batch
<1>4. ASSUME NEW a \in Viewers, NEW s \in Symbols, SaveRecentlyViewed(a, s)
      PROVE  UNCHANGED <<preferred, batchAt>>
  BY <1>4 DEF SaveRecentlyViewed, Remember, profiles, batch
<1>5. ASSUME NEW a \in Viewers, NEW s \in Symbols, SaveClickedCard(a, s)
      PROVE  UNCHANGED <<preferred, batchAt>>
  BY <1>5 DEF SaveClickedCard, Remember, profiles, batch
<1>6. ASSUME NEW a \in Viewers, NEW st \in Styles, UpdateInvestmentProfile(a, st)
      PROVE  UNCHANGED <<preferred, batchAt>>
  BY <1>6 DEF UpdateInvestmentProfile, batch
<1>7. CASE UNCHANGED activityVars
  BY <1>1, <1>7 DEF activityVars, profiles, batch
<1>. QED BY <1>1, <1>2, <1>3, <1>4, <1>5, <1>6, <1>7 DEF ActivityNext

LEMMA ProfilesInvInit == ActivityInit => ProfilesInv
  BY DEF ActivityInit, ProfilesInv, IsInjective

\* Whatever the batch and the changes of a profile do in any order, no preferred
\* stock is forgotten or listed twice, and the batch leaves the investment
\* profile alone, for any accounts, symbols and days
\* (user_profile_repository_impl.py:31-53, update_all_user_profiles_usecase.py:
\* 46-53).
THEOREM ProfilesForgetNothing == ActivitySpec => NothingForgotten
<1>1. ActivityInv /\ ProfilesInv /\ [ActivityNext]_activityVars => ProfilesInv'
  BY ProfilesAreKept DEF ProfilesInv, ProfileKept
<1>2. ActivityInv /\ ProfilesInv /\ [ActivityNext]_activityVars
        => [\A a \in Viewers :
              /\ Range(preferred[a]) \subseteq Range(preferred'[a])
              /\ IsInjective(preferred'[a])
              /\ batchAt' # batchAt => UNCHANGED GetInvestmentProfile(a)]_activityVars
  BY ProfilesAreKept DEF ProfileKept, GetInvestmentProfile
<1>. QED BY <1>1, <1>2, ActivityInvInit, ActivityInvNext, ProfilesInvInit, PTL
       DEF ActivitySpec, NothingForgotten

(***************************************************************************)
(* AnalysisLogs: what the readers of the logs are shown.                   *)
(***************************************************************************)

\* A list of logs runs from the newest to the oldest, and has one of a symbol.
Falling(list) ==
    \A i, j \in DOMAIN list : i < j => list[i].at >= list[j].at
OneOfEach(list) ==
    \A i, j \in DOMAIN list : list[i].symbol = list[j].symbol => i = j

LEMMA RowFacts ==
    \A r \in LogRows : r.at \in Int /\ r.symbol \in LogSymbols
<1>1. LogSeconds \in Nat
  BY AnalysisLogsAssumption
<1>. QED BY <1>1 DEF LogRows

\* A list of rows by its places.
LEMMA ListFacts ==
    ASSUME NEW list \in Seq(LogRows)
    PROVE  /\ Len(list) \in Nat /\ DOMAIN list = 1 .. Len(list)
           /\ Range(list) = {list[i] : i \in 1 .. Len(list)}
           /\ \A i \in 1 .. Len(list) :
                 list[i] \in LogRows /\ list[i].at \in Int /\ list[i] \in Range(list)
           /\ Range(list) \subseteq LogRows
<1>1. Len(list) \in Nat /\ DOMAIN list = 1 .. Len(list)
  OBVIOUS
<1>2. Range(list) = {list[i] : i \in 1 .. Len(list)}
  BY <1>1 DEF Range
<1>3. \A i \in 1 .. Len(list) : list[i] \in LogRows
  BY ElementOfSeq
<1>. QED BY <1>1, <1>2, <1>3, RowFacts

LEMMA RowAppended ==
    ASSUME NEW list \in Seq(LogRows), NEW r \in LogRows
    PROVE  LET more == Append(list, r)
           IN  /\ more \in Seq(LogRows) /\ DOMAIN more = 1 .. Len(list) + 1
               /\ Len(more) = Len(list) + 1
               /\ more[Len(list) + 1] = r
               /\ \A i \in 1 .. Len(list) : more[i] = list[i]
               /\ Range(more) = Range(list) \cup {r}
<1>. DEFINE more == Append(list, r)
<1>1. PICK k \in Nat : k = Len(list)
  BY ListFacts
<1>2. /\ more \in Seq(LogRows) /\ Len(more) = k + 1 /\ more[k + 1] = r
      /\ \A i \in 1 .. k : more[i] = list[i]
  BY <1>1, AppendProperties
<1>. HIDE DEF more
<1>3. DOMAIN more = 1 .. k + 1 /\ Range(more) = {more[i] : i \in 1 .. k + 1}
  BY <1>2, ListFacts
<1>4. Range(list) = {list[i] : i \in 1 .. k}
  BY <1>1, ListFacts
<1>5. {more[i] : i \in 1 .. k + 1} = {more[i] : i \in 1 .. k} \cup {more[k + 1]}
  BY <1>1
<1>6. Range(more) = Range(list) \cup {r}
  BY <1>2, <1>3, <1>4, <1>5
<1>. QED BY <1>1, <1>2, <1>3, <1>6 DEF more

LEMMA FirstRowsOf ==
    ASSUME NEW list \in Seq(LogRows), NEW n \in Nat
    PROVE  LET rows == FirstRows(list, n)
               k == IF Len(list) < n THEN Len(list) ELSE n
           IN  /\ rows \in Seq(LogRows) /\ Len(rows) = k /\ k \in Nat /\ k <= Len(list)
               /\ \A i \in 1 .. k : rows[i] = list[i]
<1>. DEFINE k == IF Len(list) < n THEN Len(list) ELSE n
<1>1. k \in Nat /\ k <= Len(list) /\ Len(list) \in Nat
  BY ListFacts
<1>. HIDE DEF k
<1>2. k \in Int /\ 1 \in Int /\ \A i \in 1 .. k : list[i] \in LogRows
  BY <1>1, ListFacts
<1>3. /\ SubSeq(list, 1, k) \in Seq(LogRows)
      /\ Len(SubSeq(list, 1, k)) = IF 1 <= k THEN k - 1 + 1 ELSE 0
      /\ \A i \in 1 .. k - 1 + 1 : SubSeq(list, 1, k)[i] = list[1 + i - 1]
  BY <1>2, SubSeqProperties
<1>4. Len(SubSeq(list, 1, k)) = k
  BY <1>1, <1>3
<1>5. \A i \in 1 .. k : SubSeq(list, 1, k)[i] = list[i]
  <2>1. SUFFICES ASSUME NEW i \in 1 .. k PROVE SubSeq(list, 1, k)[i] = list[i]
    OBVIOUS
  <2>2. i \in 1 .. k - 1 + 1 /\ 1 + i - 1 = i
    BY <1>1
  <2>. QED BY <1>3, <2>2
<1>6. FirstRows(list, n) = SubSeq(list, 1, k)
  BY DEF FirstRows, k
<1>. QED BY <1>1, <1>3, <1>4, <1>5, <1>6 DEF k

-----------------------------------------------------------------------------
(* The rows a query finds.                                                 *)

\* What Where's recursion makes of the rows g before n.
FoundAt(list, wanted, n, g) ==
    IF list[n] \in wanted THEN Append(g[n - 1], list[n]) ELSE g[n - 1]

\* The recursion of Where defines a function.
LEMMA WhereUnfolds ==
    ASSUME NEW list \in Seq(LogRows), NEW wanted
    PROVE  \E g : /\ Where(list, wanted) = g[Len(list)]
                  /\ g[0] = <<>>
                  /\ \A n \in 1 .. Len(list) : g[n] = FoundAt(list, wanted, n, g)
<1>1. PICK L \in Nat : L = Len(list) /\ \A n \in 1 .. L : list[n] \in LogRows
  BY ListFacts
<1>2. PICK S : S = Seq(LogRows)
  OBVIOUS
<1>3. PICK step \in [(1 .. L) \X S -> S] :
         \A n \in 1 .. L, s \in S :
            step[<<n, s>>] = IF list[n] \in wanted THEN Append(s, list[n]) ELSE s
  <2>. DEFINE step == [x \in (1 .. L) \X S |->
                         IF list[x[1]] \in wanted THEN Append(x[2], list[x[1]]) ELSE x[2]]
  <2>1. ASSUME NEW x \in (1 .. L) \X S
        PROVE  (IF list[x[1]] \in wanted THEN Append(x[2], list[x[1]]) ELSE x[2]) \in S
    <3>1. x[1] \in 1 .. L /\ x[2] \in S /\ list[x[1]] \in LogRows
      BY <1>1
    <3>. QED BY <1>2, <3>1, AppendProperties
  <2>2. step \in [(1 .. L) \X S -> S]
    BY <2>1
  <2>3. \A n \in 1 .. L, s \in S :
          step[<<n, s>>] = IF list[n] \in wanted THEN Append(s, list[n]) ELSE s
    OBVIOUS
  <2>. HIDE DEF step
  <2>. QED BY <2>2, <2>3
<1>4. <<>> \in S
  BY <1>2, EmptySeq
<1>5. PICK g \in [0 .. L -> S] : Computed(g, L, <<>>, step)
  BY <1>4, Recursion
<1>6. ASSUME NEW n \in 1 .. L PROVE g[n] = FoundAt(list, wanted, n, g)
  <2>1. g[n - 1] \in S
    BY <1>1, <1>5
  <2>2. g[n] = step[<<n, g[n - 1]>>]
    BY <1>5 DEF Computed
  <2>. QED BY <1>3, <2>1, <2>2 DEF FoundAt
<1>7. g = [n \in 0 .. L |-> IF n = 0 THEN <<>> ELSE FoundAt(list, wanted, n, g)]
  <2>1. \A n \in 0 .. L : g[n] = IF n = 0 THEN <<>> ELSE FoundAt(list, wanted, n, g)
    BY <1>1, <1>5, <1>6 DEF Computed
  <2>. QED BY <1>5, <2>1
<1>. DEFINE found[n \in 0 .. Len(list)] ==
                IF n = 0 THEN <<>>
                ELSE IF list[n] \in wanted THEN Append(found[n - 1], list[n])
                ELSE found[n - 1]
<1>8. Where(list, wanted) = found[Len(list)]
  BY Zenon DEF Where
<1>9. \E f : f = [n \in 0 .. Len(list) |->
                     IF n = 0 THEN <<>> ELSE FoundAt(list, wanted, n, f)]
  BY <1>1, <1>7
<1>10. found = [n \in 0 .. Len(list) |->
                  IF n = 0 THEN <<>> ELSE FoundAt(list, wanted, n, found)]
  BY <1>9, Zenon DEF FoundAt
<1>. HIDE DEF found
<1>11. /\ found[0] = <<>>
       /\ \A n \in 1 .. Len(list) : found[n] = FoundAt(list, wanted, n, found)
  <2>1. 0 \in 0 .. Len(list)
    BY <1>1
  <2>2. \A n \in 1 .. Len(list) : n \in 0 .. Len(list) /\ n # 0
    BY <1>1
  <2>. QED BY <1>10, <2>1, <2>2, Zenon
<1>. QED BY <1>8, <1>11

\* A query returns the rows that are wanted, still from the newest to the oldest.
LEMMA WhereFinds ==
    ASSUME NEW list \in Seq(LogRows), NEW wanted, Falling(list)
    PROVE  /\ Where(list, wanted) \in Seq(LogRows)
           /\ Falling(Where(list, wanted))
           /\ Range(Where(list, wanted)) = Range(list) \cap wanted
<1>1. PICK L \in Nat : L = Len(list) /\ DOMAIN list = 1 .. L
                       /\ \A n \in 1 .. L : list[n] \in LogRows /\ list[n].at \in Int
  BY ListFacts
<1>2. PICK g : /\ Where(list, wanted) = g[L]
               /\ g[0] = <<>>
               /\ \A n \in 1 .. L : g[n] = FoundAt(list, wanted, n, g)
  BY <1>1, WhereUnfolds
<1>. DEFINE Good(n) ==
        /\ g[n] \in Seq(LogRows) /\ Falling(g[n])
        /\ Range(g[n]) = {list[i] : i \in 1 .. n} \cap wanted
            T == {n \in Nat : n <= L /\ ~Good(n)}
<1>3. T = {}
  <2>1. SUFFICES ASSUME T # {} PROVE FALSE
    OBVIOUS
  <2>2. PICK n \in T : \A m \in T : n <= m
    <3>1. T \subseteq Nat
      OBVIOUS
    <3>. HIDE DEF T
    <3>. QED BY <2>1, <3>1, LeastNatural
  <2>3. n # 0
    <3>1. {list[i] : i \in 1 .. 0} = {} /\ Range(<<>>) = {} /\ Falling(<<>>)
      BY DEF Range, Falling
    <3>. QED BY <1>2, <3>1, EmptySeq
  <2>. DEFINE m == n - 1
  <2>4. m \in Nat /\ m <= L /\ ~(n <= m) /\ n = m + 1 /\ n \in 1 .. L
    BY <2>3, <1>1
  <2>5. g[n] = FoundAt(list, wanted, n, g)
    BY <1>2, <2>4
  <2>. HIDE DEF m
  <2>6. Good(m)
    BY <2>2, <2>4
  <2>7. g[n] = IF list[n] \in wanted THEN Append(g[m], list[n]) ELSE g[m]
    BY <2>5 DEF FoundAt, m
  <2>8. {list[i] : i \in 1 .. n} = {list[i] : i \in 1 .. m} \cup {list[n]}
    BY <2>4
  <2>9. CASE list[n] \notin wanted
    <3>1. {list[i] : i \in 1 .. n} \cap wanted = {list[i] : i \in 1 .. m} \cap wanted
      BY <2>8, <2>9
    <3>. QED BY <2>2, <2>6, <2>7, <2>9, <3>1
  <2>10. CASE list[n] \in wanted
    <3>1. PICK s \in Seq(LogRows) : s = g[m] /\ Falling(s)
                  /\ Range(s) = {list[i] : i \in 1 .. m} \cap wanted
      BY <2>6
    <3>2. PICK x \in LogRows : x = list[n] /\ x.at \in Int
      BY <1>1, <2>4
    <3>3. PICK t : t = Append(s, x)
      OBVIOUS
    <3>4. PICK k \in Nat : k = Len(s) /\ DOMAIN s = 1 .. k
                           /\ \A i \in 1 .. k : s[i] \in Range(s) /\ s[i].at \in Int
      BY ListFacts
    <3>5. /\ t \in Seq(LogRows) /\ DOMAIN t = 1 .. k + 1
          /\ t[k + 1] = x /\ \A i \in 1 .. k : t[i] = s[i]
          /\ Range(t) = Range(s) \cup {x}
      BY <3>3, <3>4, RowAppended
    <3>6. g[n] = t
      BY <2>7, <2>10, <3>1, <3>2, <3>3
    <3>7. \A r \in Range(s) : r.at >= x.at
      <4>1. SUFFICES ASSUME NEW r \in Range(s) PROVE r.at >= x.at
        OBVIOUS
      <4>2. PICK i \in 1 .. m : r = list[i]
        BY <3>1, <4>1
      <4>3. i \in DOMAIN list /\ n \in DOMAIN list /\ i < n
        BY <1>1, <2>4
      <4>. QED BY <3>2, <4>2, <4>3 DEF Falling
    <3>8. Falling(t)
      <4>1. SUFFICES ASSUME NEW i \in 1 .. k + 1, NEW j \in 1 .. k + 1, i < j
                     PROVE  t[i].at >= t[j].at
        BY <3>5 DEF Falling
      <4>. k \in Nat /\ i \in Int /\ j \in Int /\ 1 <= i /\ i < j /\ j <= k + 1
        BY <3>4, <4>1
      <4>2. i \in 1 .. k /\ (j \in 1 .. k \/ j = k + 1)
        OBVIOUS
      <4>3. CASE j \in 1 .. k
        BY <3>1, <3>4, <3>5, <4>1, <4>2, <4>3 DEF Falling
      <4>4. CASE j = k + 1
        BY <3>4, <3>5, <3>7, <4>2, <4>4
      <4>. QED BY <4>2, <4>3, <4>4
    <3>9. Range(t) = {list[i] : i \in 1 .. n} \cap wanted
      BY <2>8, <2>10, <3>1, <3>2, <3>5
    <3>. QED BY <2>2, <3>5, <3>6, <3>8, <3>9
  <2>. QED BY <2>9, <2>10
<1>4. Good(L)
  <2>1. L \in Nat /\ L <= L
    BY <1>1
  <2>2. L \notin T
    BY <1>3
  <2>. QED BY <2>1, <2>2
<1>5. Range(list) = {list[i] : i \in 1 .. L}
  BY <1>1 DEF Range
<1>. QED BY <1>2, <1>4, <1>5

-----------------------------------------------------------------------------
(* One log of a symbol.                                                    *)

\* A log is added unless there is one of its symbol.
LEMMA UnseenAdds ==
    ASSUME NEW seen \in Seq(LogRows), OneOfEach(seen), NEW log \in LogRows
    PROVE  LET more == Unseen(seen, log)
           IN  /\ more \in Seq(LogRows) /\ OneOfEach(more)
               /\ Range(seen) \subseteq Range(more)
               /\ Range(more) \subseteq Range(seen) \cup {log}
               /\ \E e \in Range(more) :
                     e.symbol = log.symbol /\ (e \in Range(seen) \/ e = log)
<1>. PICK more : more = Unseen(seen, log)
  OBVIOUS
<1>1. CASE \E r \in Range(seen) : r.symbol = log.symbol
  <2>1. more = seen
    BY <1>1 DEF Unseen
  <2>. QED BY <1>1, <2>1
<1>2. CASE ~ \E r \in Range(seen) : r.symbol = log.symbol
  <2>1. more = Append(seen, log)
    BY <1>2 DEF Unseen
  <2>2. PICK k \in Nat : k = Len(seen) /\ DOMAIN seen = 1 .. k
                         /\ \A i \in 1 .. k : seen[i] \in Range(seen)
    BY ListFacts
  <2>3. /\ more \in Seq(LogRows) /\ DOMAIN more = 1 .. k + 1
        /\ more[k + 1] = log /\ \A i \in 1 .. k : more[i] = seen[i]
        /\ Range(more) = Range(seen) \cup {log}
    BY <2>1, <2>2, RowAppended
  <2>4. \A i \in 1 .. k : seen[i].symbol # log.symbol
    BY <1>2, <2>2
  <2>5. \A i \in 1 .. k + 1 : i \in 1 .. k \/ i = k + 1
    BY <2>2
  <2>6. \A i, j \in 1 .. k : seen[i].symbol = seen[j].symbol => i = j
    BY <2>2 DEF OneOfEach
  <2>7. OneOfEach(more)
    <3>1. SUFFICES ASSUME NEW i \in 1 .. k + 1, NEW j \in 1 .. k + 1,
                          more[i].symbol = more[j].symbol
                   PROVE  i = j
      BY <2>3 DEF OneOfEach
    <3>. QED BY <2>3, <2>4, <2>5, <2>6, <3>1
  <2>. QED BY <2>3, <2>7
<1>. QED BY <1>1, <1>2

\* The recursion of AddUnseen defines a function.
LEMMA AddUnseenUnfolds ==
    ASSUME NEW start \in Seq(LogRows), NEW list \in Seq(LogRows)
    PROVE  \E g : /\ AddUnseen(start, list) = g[Len(list)]
                  /\ g[0] = start
                  /\ \A n \in 1 .. Len(list) : g[n] = Unseen(g[n - 1], list[n])
<1>1. PICK L \in Nat : L = Len(list) /\ \A n \in 1 .. L : list[n] \in LogRows
  BY ListFacts
<1>2. PICK S : S = Seq(LogRows)
  OBVIOUS
<1>3. PICK step \in [(1 .. L) \X S -> S] :
         \A n \in 1 .. L, s \in S : step[<<n, s>>] = Unseen(s, list[n])
  <2>. DEFINE step == [x \in (1 .. L) \X S |-> Unseen(x[2], list[x[1]])]
  <2>1. ASSUME NEW x \in (1 .. L) \X S
        PROVE  Unseen(x[2], list[x[1]]) \in S
    <3>1. x[1] \in 1 .. L /\ x[2] \in S /\ list[x[1]] \in LogRows
      BY <1>1
    <3>. QED BY <1>2, <3>1, AppendProperties DEF Unseen
  <2>2. step \in [(1 .. L) \X S -> S]
    BY <2>1
  <2>3. \A n \in 1 .. L, s \in S : step[<<n, s>>] = Unseen(s, list[n])
    OBVIOUS
  <2>. HIDE DEF step
  <2>. QED BY <2>2, <2>3
<1>4. start \in S
  BY <1>2
<1>5. PICK g \in [0 .. L -> S] : Computed(g, L, start, step)
  BY <1>4, Recursion
<1>6. ASSUME NEW n \in 1 .. L PROVE g[n] = Unseen(g[n - 1], list[n])
  <2>1. g[n - 1] \in S
    BY <1>1, <1>5
  <2>2. g[n] = step[<<n, g[n - 1]>>]
    BY <1>5 DEF Computed
  <2>. QED BY <1>3, <2>1, <2>2
<1>7. g = [n \in 0 .. L |-> IF n = 0 THEN start ELSE Unseen(g[n - 1], list[n])]
  <2>1. \A n \in 0 .. L : g[n] = IF n = 0 THEN start ELSE Unseen(g[n - 1], list[n])
    BY <1>1, <1>5, <1>6 DEF Computed
  <2>. QED BY <1>5, <2>1
<1>. DEFINE seen[n \in 0 .. Len(list)] ==
                IF n = 0 THEN start ELSE Unseen(seen[n - 1], list[n])
<1>8. AddUnseen(start, list) = seen[Len(list)]
  BY Zenon DEF AddUnseen
<1>9. \E f : f = [n \in 0 .. Len(list) |->
                     IF n = 0 THEN start ELSE Unseen(f[n - 1], list[n])]
  BY <1>1, <1>7
<1>10. seen = [n \in 0 .. Len(list) |->
                  IF n = 0 THEN start ELSE Unseen(seen[n - 1], list[n])]
  BY <1>9, Zenon
<1>. HIDE DEF seen
<1>11. /\ seen[0] = start
       /\ \A n \in 1 .. Len(list) : seen[n] = Unseen(seen[n - 1], list[n])
  <2>1. 0 \in 0 .. Len(list)
    BY <1>1
  <2>2. \A n \in 1 .. Len(list) : n \in 0 .. Len(list) /\ n # 0
    BY <1>1
  <2>. QED BY <1>10, <2>1, <2>2, Zenon
<1>. QED BY <1>8, <1>11

\* Added from the newest to the oldest, the logs leave one of each symbol: the one
\* that was there before, or the newest of those added.
LEMMA AddUnseenKeeps ==
    ASSUME NEW start \in Seq(LogRows), OneOfEach(start),
           NEW list \in Seq(LogRows), Falling(list)
    PROVE  LET full == AddUnseen(start, list)
           IN  /\ full \in Seq(LogRows) /\ OneOfEach(full)
               /\ Range(start) \subseteq Range(full)
               /\ Range(full) \subseteq Range(start) \cup Range(list)
               /\ \A r \in Range(list) : \E e \in Range(full) :
                     e.symbol = r.symbol /\ (e \in Range(start) \/ e.at >= r.at)
<1>1. PICK L \in Nat : L = Len(list) /\ DOMAIN list = 1 .. L
                       /\ \A n \in 1 .. L : list[n] \in LogRows /\ list[n].at \in Int
  BY ListFacts
<1>2. PICK g : /\ AddUnseen(start, list) = g[L]
               /\ g[0] = start
               /\ \A n \in 1 .. L : g[n] = Unseen(g[n - 1], list[n])
  BY <1>1, AddUnseenUnfolds
<1>. DEFINE Good(n) ==
        /\ g[n] \in Seq(LogRows) /\ OneOfEach(g[n])
        /\ Range(start) \subseteq Range(g[n])
        /\ \A e \in Range(g[n]) : e \in Range(start) \/ \E i \in 1 .. n : e = list[i]
        /\ \A i \in 1 .. n : \E e \in Range(g[n]) :
              e.symbol = list[i].symbol /\ (e \in Range(start) \/ e.at >= list[i].at)
            T == {n \in Nat : n <= L /\ ~Good(n)}
<1>3. T = {}
  <2>1. SUFFICES ASSUME T # {} PROVE FALSE
    OBVIOUS
  <2>2. PICK n \in T : \A m \in T : n <= m
    <3>1. T \subseteq Nat
      OBVIOUS
    <3>. HIDE DEF T
    <3>. QED BY <2>1, <3>1, LeastNatural
  <2>3. n # 0
    <3>1. 1 .. 0 = {}
      OBVIOUS
    <3>. QED BY <1>2, <3>1
  <2>. DEFINE m == n - 1
  <2>4. m \in Nat /\ m <= L /\ ~(n <= m) /\ n = m + 1 /\ n \in 1 .. L
    BY <2>3, <1>1
  <2>5. g[n] = Unseen(g[m], list[n])
    BY <1>2, <2>4
  <2>. HIDE DEF m
  <2>6. Good(m)
    BY <2>2, <2>4
  <2>7. PICK s \in Seq(LogRows) : s = g[m] /\ OneOfEach(s)
    BY <2>6
  <2>8. PICK x \in LogRows : x = list[n] /\ x.at \in Int
    BY <1>1, <2>4
  <2>9. PICK t : t = Unseen(s, x)
    OBVIOUS
  <2>10. /\ t \in Seq(LogRows) /\ OneOfEach(t)
         /\ Range(s) \subseteq Range(t) /\ Range(t) \subseteq Range(s) \cup {x}
         /\ \E e \in Range(t) : e.symbol = x.symbol /\ (e \in Range(s) \/ e = x)
    BY <2>7, <2>9, UnseenAdds
  <2>11. g[n] = t
    BY <2>5, <2>7, <2>8, <2>9
  <2>12. \A i \in 1 .. n : i \in 1 .. m \/ i = n
    BY <2>4
  <2>13. \A i \in 1 .. m : i \in 1 .. n
    BY <2>4
  <2>14. \A e \in Range(t) : e \in Range(start) \/ \E i \in 1 .. n : e = list[i]
    <3>1. n \in 1 .. n
      BY <2>4
    <3>2. \A e \in Range(s) : e \in Range(start) \/ \E i \in 1 .. m : e = list[i]
      BY <2>6, <2>7
    <3>. QED BY <2>8, <2>10, <2>13, <3>1, <3>2
  <2>15. \A i \in 1 .. m : \E e \in Range(t) :
            e.symbol = list[i].symbol /\ (e \in Range(start) \/ e.at >= list[i].at)
    BY <2>6, <2>7, <2>10
  <2>16. \E e \in Range(t) :
            e.symbol = x.symbol /\ (e \in Range(start) \/ e.at >= x.at)
    <3>1. PICK e \in Range(t) : e.symbol = x.symbol /\ (e \in Range(s) \/ e = x)
      BY <2>10
    <3>2. CASE e = x
      BY <3>1, <3>2, <2>8
    <3>3. CASE e \in Range(s)
      <4>1. CASE e \in Range(start)
        BY <3>1, <4>1
      <4>2. CASE \E i \in 1 .. m : e = list[i]
        <5>1. PICK i \in 1 .. m : e = list[i]
          BY <4>2
        <5>2. i \in DOMAIN list /\ n \in DOMAIN list /\ i < n
          BY <1>1, <2>4
        <5>3. e.at >= x.at
          BY <2>8, <5>1, <5>2 DEF Falling
        <5>. QED BY <3>1, <5>3
      <4>. QED BY <2>6, <2>7, <3>3, <4>1, <4>2
    <3>. QED BY <3>1, <3>2, <3>3
  <2>17. Range(start) \subseteq Range(t)
    BY <2>6, <2>7, <2>10
  <2>18. \A i \in 1 .. n : \E e \in Range(t) :
            e.symbol = list[i].symbol /\ (e \in Range(start) \/ e.at >= list[i].at)
    BY <2>8, <2>12, <2>15, <2>16
  <2>. QED BY <2>2, <2>10, <2>11, <2>14, <2>17, <2>18
<1>4. Good(L)
  <2>1. L \in Nat /\ L <= L
    BY <1>1
  <2>2. L \notin T
    BY <1>3
  <2>. QED BY <2>1, <2>2
<1>5. Range(list) = {list[i] : i \in 1 .. L}
  BY <1>1 DEF Range
<1>. HIDE DEF Good
<1>6. /\ g[L] \in Seq(LogRows) /\ OneOfEach(g[L])
      /\ Range(start) \subseteq Range(g[L])
      /\ \A e \in Range(g[L]) : e \in Range(start) \/ \E i \in 1 .. L : e = list[i]
      /\ \A i \in 1 .. L : \E e \in Range(g[L]) :
            e.symbol = list[i].symbol /\ (e \in Range(start) \/ e.at >= list[i].at)
  BY <1>4 DEF Good
<1>. PICK full : full = AddUnseen(start, list) /\ full = g[L]
  BY <1>2
<1>7. Range(full) \subseteq Range(start) \cup Range(list)
  BY <1>5, <1>6
<1>8. \A r \in Range(list) : \E e \in Range(full) :
         e.symbol = r.symbol /\ (e \in Range(start) \/ e.at >= r.at)
  BY <1>5, <1>6
<1>. QED BY <1>6, <1>7, <1>8

-----------------------------------------------------------------------------
(* The orders of the database, and the lists that are shown.               *)

\* In any order the database returns all rows, from the newest to the oldest.
LEMMA OrderedRows ==
    ASSUME analysisLogs \in Seq(LogRows), NEW o \in Orders
    PROVE  /\ ByTime(o) \in Seq(LogRows) /\ Falling(ByTime(o))
           /\ Len(ByTime(o)) = Len(analysisLogs) /\ DOMAIN o = 1 .. Len(analysisLogs)
           /\ Range(ByTime(o)) = AllLogs
<1>1. PICK L \in Nat : /\ L = Len(analysisLogs) /\ DOMAIN analysisLogs = 1 .. L
                       /\ \A n \in 1 .. L : analysisLogs[n] \in LogRows
  BY ListFacts
<1>2. /\ o \in [1 .. L -> 1 .. L] /\ IsInjective(o)
      /\ \A i, j \in 1 .. L : i < j => analysisLogs[o[i]].at >= analysisLogs[o[j]].at
  BY <1>1 DEF Orders
<1>3. IsFiniteSet(1 .. L)
  BY <1>1, FS_Interval
<1>4. o \in Injection(1 .. L, 1 .. L)
  BY <1>2 DEF Injection
<1>5. o \in Surjection(1 .. L, 1 .. L)
  BY <1>3, <1>4, FS_Injection
<1>6. \A n \in 1 .. L : \E i \in 1 .. L : o[i] = n
  BY <1>5 DEF Surjection
<1>. PICK rows : rows = ByTime(o)
  OBVIOUS
<1>7. rows = [i \in 1 .. L |-> analysisLogs[o[i]]]
  BY <1>2 DEF ByTime
<1>8. DOMAIN rows = 1 .. L /\ \A i \in 1 .. L : rows[i] = analysisLogs[o[i]]
  BY <1>7
<1>9. \A i \in 1 .. L : o[i] \in 1 .. L
  BY <1>2
<1>10. rows \in Seq(LogRows) /\ Len(rows) = L
  <2>1. rows \in [1 .. L -> LogRows]
    BY <1>1, <1>7, <1>9
  <2>. QED BY <1>1, <2>1
<1>11. Falling(rows)
  <2>1. SUFFICES ASSUME NEW i \in 1 .. L, NEW j \in 1 .. L, i < j
                 PROVE  rows[i].at >= rows[j].at
    BY <1>8 DEF Falling
  <2>2. rows[i] = analysisLogs[o[i]] /\ rows[j] = analysisLogs[o[j]]
    BY <1>8
  <2>. QED BY <1>2, <2>1, <2>2
<1>12. Range(rows) = {rows[i] : i \in 1 .. L} /\ AllLogs = {analysisLogs[i] : i \in 1 .. L}
  BY <1>1, <1>8 DEF Range, AllLogs
<1>13. Range(rows) \subseteq AllLogs
  BY <1>8, <1>9, <1>12
<1>14. ASSUME NEW r \in AllLogs PROVE r \in Range(rows)
  <2>1. PICK n \in 1 .. L : r = analysisLogs[n]
    BY <1>12
  <2>2. PICK i \in 1 .. L : o[i] = n
    BY <1>6
  <2>. QED BY <1>8, <1>12, <2>1, <2>2
<1>. QED BY <1>1, <1>2, <1>10, <1>11, <1>13, <1>14


\* A list with one log of each symbol has as many symbols as logs.
LEMMA SymbolsCounted ==
    ASSUME NEW list \in Seq(LogRows), OneOfEach(list)
    PROVE  Cardinality({e.symbol : e \in Range(list)}) = Len(list)
<1>1. PICK L \in Nat : L = Len(list) /\ DOMAIN list = 1 .. L
  BY ListFacts
<1>2. PICK S : S = {e.symbol : e \in Range(list)}
  OBVIOUS
<1>3. PICK I : I = 1 .. L
  OBVIOUS
<1>4. Range(list) = {list[i] : i \in I}
  BY <1>1, <1>3 DEF Range
<1>. DEFINE f == [i \in I |-> list[i].symbol]
<1>5. f \in [I -> S]
  BY <1>2, <1>4
<1>6. \A i \in I : f[i] = list[i].symbol
  OBVIOUS
<1>. HIDE DEF f
<1>7. f \in Injection(I, S)
  BY <1>1, <1>3, <1>5, <1>6 DEF OneOfEach, Injection, IsInjective
<1>8. f \in Surjection(I, S)
  <2>1. \A x \in S : \E i \in I : f[i] = x
    BY <1>2, <1>4, <1>6
  <2>. QED BY <1>5, <2>1 DEF Surjection
<1>9. ExistsBijection(I, S)
  BY <1>7, <1>8 DEF ExistsBijection, Bijection
<1>10. IsFiniteSet(I) /\ Cardinality(I) = L
  BY <1>1, <1>3, PlacesCounted
<1>11. Cardinality(S) = Cardinality(I)
  BY <1>9, <1>10, FS_Bijection
<1>. QED BY <1>1, <1>2, <1>10, <1>11

\* What is added to a list with one of each symbol, from the newest to the oldest,
\* shows the newest of each symbol, if the list did.
LEMMA NewestAdded ==
    ASSUME NEW start \in Seq(LogRows), NEW list \in Seq(LogRows), NEW rows,
           OneOfEach(start), Falling(list),
           Range(start) \cup Range(list) \subseteq rows,
           \A e \in Range(start), r \in rows : e.symbol = r.symbol => e.at >= r.at,
           \A r \in rows : \E e \in Range(start) \cup Range(list) :
                               e.symbol = r.symbol /\ e.at >= r.at,
           rows \subseteq LogRows
    PROVE  /\ AddUnseen(start, list) \in Seq(LogRows)
           /\ OneOfEach(AddUnseen(start, list))
           /\ NewestOfEach(AddUnseen(start, list), rows)
<1>. PICK full : full = AddUnseen(start, list)
  OBVIOUS
<1>1. /\ full \in Seq(LogRows) /\ OneOfEach(full)
      /\ Range(start) \subseteq Range(full)
      /\ Range(full) \subseteq Range(start) \cup Range(list)
      /\ \A r \in Range(list) : \E e \in Range(full) :
            e.symbol = r.symbol /\ (e \in Range(start) \/ e.at >= r.at)
  BY AddUnseenKeeps
<1>2. Range(full) \subseteq rows
  BY <1>1
<1>3. Cardinality({e.symbol : e \in Range(full)}) = Len(full)
  BY <1>1, SymbolsCounted
<1>4. ASSUME NEW r \in rows
      PROVE  \E e \in Range(full) : e.symbol = r.symbol /\ e.at >= r.at
  <2>1. PICK x \in Range(start) \cup Range(list) : x.symbol = r.symbol /\ x.at >= r.at
    OBVIOUS
  <2>2. CASE x \in Range(start)
    BY <1>1, <2>1, <2>2
  <2>3. CASE x \in Range(list)
    <3>1. PICK e \in Range(full) :
             e.symbol = x.symbol /\ (e \in Range(start) \/ e.at >= x.at)
      BY <1>1, <2>3
    <3>2. CASE e \in Range(start)
      BY <2>1, <3>1, <3>2
    <3>3. CASE e.at >= x.at
      <4>1. e.at \in Int /\ x.at \in Int /\ r.at \in Int
        BY <1>2, RowFacts
      <4>2. e.at >= r.at
        BY <2>1, <3>3, <4>1
      <4>. QED BY <2>1, <3>1, <4>2
    <3>. QED BY <3>1, <3>2, <3>3
  <2>. QED BY <2>1, <2>2, <2>3
<1>. QED BY <1>1, <1>2, <1>3, <1>4 DEF NewestOfEach

\* The newest of each symbol among the rows that are wanted.
LEMMA FirstsAreNewest ==
    ASSUME analysisLogs \in Seq(LogRows), NEW o \in Orders, NEW wanted
    PROVE  LET list == FirstPerSymbol(Where(ByTime(o), wanted))
           IN  /\ list \in Seq(LogRows) /\ OneOfEach(list)
               /\ NewestOfEach(list, AllLogs \cap wanted)
<1>1. PICK rows : /\ rows = ByTime(o)
                  /\ rows \in Seq(LogRows) /\ Falling(rows) /\ Range(rows) = AllLogs
  BY OrderedRows
<1>2. PICK found : /\ found = Where(rows, wanted)
                   /\ found \in Seq(LogRows) /\ Falling(found)
                   /\ Range(found) = AllLogs \cap wanted
  BY <1>1, WhereFinds
<1>3. <<>> \in Seq(LogRows) /\ Range(<<>>) = {} /\ OneOfEach(<<>>)
  <2>1. Range(<<>>) = {} /\ OneOfEach(<<>>)
    BY DEF Range, OneOfEach
  <2>. QED BY <2>1, EmptySeq
<1>4. PICK wantedRows : wantedRows = AllLogs \cap wanted
  OBVIOUS
<1>5. wantedRows \subseteq LogRows
  BY <1>1, <1>4, ListFacts
<1>6. \A r \in wantedRows : r.at >= r.at
  BY <1>5, RowFacts
<1>7. PICK none : none = <<>>
  OBVIOUS
<1>8. /\ AddUnseen(none, found) \in Seq(LogRows)
      /\ OneOfEach(AddUnseen(none, found))
      /\ NewestOfEach(AddUnseen(none, found), wantedRows)
  <2>1. none \in Seq(LogRows) /\ OneOfEach(none) /\ Range(none) = {}
    BY <1>3, <1>7
  <2>2. \A r \in wantedRows : \E e \in Range(none) \cup Range(found) :
                                e.symbol = r.symbol /\ e.at >= r.at
    BY <1>2, <1>4, <1>6
  <2>3. Range(none) \cup Range(found) \subseteq wantedRows
    BY <1>2, <1>4, <2>1
  <2>4. \A e \in Range(none), r \in wantedRows : e.symbol = r.symbol => e.at >= r.at
    BY <2>1
  <2>. QED BY <1>2, <1>5, <2>1, <2>2, <2>3, <2>4, NewestAdded
<1>. QED BY <1>1, <1>2, <1>4, <1>7, <1>8 DEF FirstPerSymbol

LEMMA SummariesHold ==
    ASSUME analysisLogs \in Seq(LogRows)
    PROVE  SummariesAreNewest
<1>1. SUFFICES ASSUME NEW o \in Orders, NEW owner \in Owners \cup {Anonymous}
               PROVE  LET theirs == {r \in AllLogs : owner \in {Anonymous, r.owner}}
                          typed(types) == {r \in theirs : r.kind \in types}
                      IN  /\ NewestOfEach(GetSummaries(ByTime(o), owner),
                                          typed({"NEWS", NoKind}))
                          /\ NewestOfEach(GetReportSummaries(ByTime(o), owner),
                                          typed(Kinds \ {"NEWS"}))
  BY DEF SummariesAreNewest
<1>. DEFINE theirs == {r \in AllLogs : owner \in {Anonymous, r.owner}}
            typed(types) == {r \in theirs : r.kind \in types}
            news == OwnedBy(owner) \cap OfTypes({"NEWS"})
            others == OwnedBy(owner) \cap OfTypes({"DISCLOSURE", "REPORT"})
<1>2. AllLogs \subseteq LogRows
  BY ListFacts DEF AllLogs
<1>3. AllLogs \cap news = typed({"NEWS", NoKind})
  BY <1>2 DEF OwnedBy, OfTypes
<1>4. \A r \in LogRows : r.kind \in {"DISCLOSURE", "REPORT"} <=> r.kind \in Kinds \ {"NEWS"}
  BY DEF Kinds
<1>5. AllLogs \cap others = typed(Kinds \ {"NEWS"})
  BY <1>2, <1>4 DEF OwnedBy, OfTypes
<1>6. NewestOfEach(GetSummaries(ByTime(o), owner), AllLogs \cap news)
  BY FirstsAreNewest DEF GetSummaries, FindLatestPerSymbol
<1>7. NewestOfEach(GetReportSummaries(ByTime(o), owner), AllLogs \cap others)
  BY FirstsAreNewest DEF GetReportSummaries, FindLatestPerSymbol
<1>. QED BY <1>3, <1>5, <1>6, <1>7

\* A query that wants every row returns the list.
LEMMA WhereAll ==
    ASSUME NEW list \in Seq(LogRows), NEW wanted, LogRows \subseteq wanted
    PROVE  Where(list, wanted) = list
<1>1. PICK L \in Nat : L = Len(list) /\ \A n \in 1 .. L : list[n] \in LogRows
  BY ListFacts
<1>2. PICK g : /\ Where(list, wanted) = g[L]
               /\ g[0] = <<>>
               /\ \A n \in 1 .. L : g[n] = FoundAt(list, wanted, n, g)
  BY <1>1, WhereUnfolds
<1>. DEFINE Good(n) ==
        /\ g[n] \in Seq(LogRows) /\ Len(g[n]) = n
        /\ \A i \in 1 .. n : g[n][i] = list[i]
            T == {n \in Nat : n <= L /\ ~Good(n)}
<1>3. T = {}
  <2>1. SUFFICES ASSUME T # {} PROVE FALSE
    OBVIOUS
  <2>2. PICK n \in T : \A m \in T : n <= m
    <3>1. T \subseteq Nat
      OBVIOUS
    <3>. HIDE DEF T
    <3>. QED BY <2>1, <3>1, LeastNatural
  <2>3. n # 0
    <3>1. 1 .. 0 = {}
      OBVIOUS
    <3>2. <<>> \in Seq(LogRows) /\ Len(<<>>) = 0
      BY EmptySeq
    <3>. QED BY <1>2, <3>1, <3>2
  <2>. DEFINE m == n - 1
  <2>4. m \in Nat /\ m <= L /\ ~(n <= m) /\ n = m + 1 /\ n \in 1 .. L
    BY <2>3, <1>1
  <2>5. g[n] = FoundAt(list, wanted, n, g)
    BY <1>2, <2>4
  <2>. HIDE DEF m
  <2>6. Good(m)
    BY <2>2, <2>4
  <2>7. list[n] \in wanted
    BY <1>1, <2>4
  <2>8. g[n] = Append(g[m], list[n])
    BY <2>5, <2>7 DEF FoundAt, m
  <2>9. PICK s \in Seq(LogRows) : s = g[m] /\ Len(s) = m /\ \A i \in 1 .. m : s[i] = list[i]
    BY <2>6
  <2>10. PICK x \in LogRows : x = list[n]
    BY <1>1, <2>4
  <2>11. PICK t : t = Append(s, x)
    OBVIOUS
  <2>12. /\ t \in Seq(LogRows) /\ Len(t) = m + 1
         /\ t[m + 1] = x /\ \A i \in 1 .. m : t[i] = s[i]
    BY <2>9, <2>11, RowAppended
  <2>13. \A i \in 1 .. n : i \in 1 .. m \/ i = m + 1
    BY <2>4
  <2>14. g[n] = t
    BY <2>8, <2>9, <2>10, <2>11
  <2>15. \A i \in 1 .. n : t[i] = list[i]
    BY <2>4, <2>9, <2>10, <2>12, <2>13
  <2>. QED BY <2>2, <2>4, <2>12, <2>14, <2>15
<1>4. Good(L)
  <2>1. L \in Nat /\ L <= L
    BY <1>1
  <2>2. L \notin T
    BY <1>3
  <2>. QED BY <2>1, <2>2
<1>. HIDE DEF Good
<1>5. PICK t \in Seq(LogRows) : t = g[L] /\ Len(t) = L /\ \A i \in 1 .. L : t[i] = list[i]
  BY <1>4 DEF Good
<1>6. t = list
  BY <1>1, <1>5, SeqEqual
<1>. QED BY <1>2, <1>5, <1>6

\* A list within the limit is not cut.
LEMMA NothingCut ==
    ASSUME NEW list \in Seq(LogRows), NEW n \in Nat, Len(list) <= n
    PROVE  FirstRows(list, n) = list
<1>1. PICK rows : rows = FirstRows(list, n)
  OBVIOUS
<1>2. Len(list) \in Nat
  BY ListFacts
<1>3. (IF Len(list) < n THEN Len(list) ELSE n) = Len(list)
  BY <1>2
<1>4. /\ rows \in Seq(LogRows) /\ Len(rows) = Len(list)
      /\ \A i \in 1 .. Len(list) : rows[i] = list[i]
  BY <1>1, <1>3, FirstRowsOf
<1>5. rows = list
  BY <1>4, SeqEqual
<1>. QED BY <1>1, <1>5

\* The places LIMIT n leaves of an order.
LEMMA FirstPlaces ==
    ASSUME NEW L \in Nat, NEW p \in [1 .. L -> 1 .. L], NEW n \in Nat
    PROVE  DOMAIN FirstRows(p, n) = 1 .. (IF L < n THEN L ELSE n)
<1>. DEFINE k == IF L < n THEN L ELSE n
<1>1. k \in Nat /\ k <= L
  OBVIOUS
<1>2. PICK S : S = 1 .. L
  OBVIOUS
<1>3. p \in Seq(S) /\ Len(p) = L
  BY <1>2
<1>4. FirstRows(p, n) = SubSeq(p, 1, k)
  BY <1>3 DEF FirstRows
<1>. HIDE DEF k
<1>5. \A i \in 1 .. k : p[i] \in S
  BY <1>1, <1>2
<1>6. /\ SubSeq(p, 1, k) \in Seq(S)
      /\ Len(SubSeq(p, 1, k)) = IF 1 <= k THEN k - 1 + 1 ELSE 0
  BY <1>1, <1>3, <1>5, SubSeqProperties
<1>7. Len(SubSeq(p, 1, k)) = k
  BY <1>1, <1>6
<1>8. DOMAIN SubSeq(p, 1, k) = 1 .. Len(SubSeq(p, 1, k))
  BY <1>6
<1>. QED BY <1>4, <1>7, <1>8 DEF k

\* The symbols of k rows are at most k.
\* The symbols of the first k rows of a list.
SymbolsOf(list, k) == {list[i].symbol : i \in 1 .. k}

LEMMA FewSymbols ==
    ASSUME NEW k \in Nat, NEW list
    PROVE  /\ IsFiniteSet(SymbolsOf(list, k))
           /\ Cardinality(SymbolsOf(list, k)) \in Nat
           /\ Cardinality(SymbolsOf(list, k)) <= k
<1>. PICK S : S = SymbolsOf(list, k)
  OBVIOUS
<1>0. S = {list[i].symbol : i \in 1 .. k}
  BY DEF SymbolsOf
<1>1. PICK I : I = 1 .. k /\ IsFiniteSet(I) /\ Cardinality(I) = k
  BY PlacesCounted
<1>. DEFINE f == [i \in I |-> list[i].symbol]
<1>2. f \in [I -> S] /\ \A i \in I : f[i] = list[i].symbol
  BY <1>0, <1>1
<1>. HIDE DEF f
<1>3. \A x \in S : \E i \in I : f[i] = x
  BY <1>0, <1>1, <1>2
<1>4. f \in Surjection(I, S)
  BY <1>2, <1>3 DEF Surjection
<1>5. IsFiniteSet(S) /\ Cardinality(S) <= Cardinality(I)
  BY <1>1, <1>4, FS_Surjection
<1>6. Cardinality(S) \in Nat
  BY <1>5, FS_CardinalityType
<1>. QED BY <1>1, <1>5, <1>6

\* The first k rows of a list, and their symbols.
Beginning(recent, newest, k, symbols) ==
    /\ k <= Len(newest) /\ Len(recent) = k
    /\ \A i \in 1 .. k : recent[i] = newest[i]
    /\ symbols = SymbolsOf(newest, k)

RowsOf(list, symbols) == {r \in Range(list) : r.symbol \in symbols}

\* The list of the home page before the cut: the newest log of each top symbol,
\* and of each symbol among the k newest logs.
LEMMA HomeIsComplete ==
    ASSUME NEW start \in Seq(LogRows), OneOfEach(start),
           NEW newest \in Seq(LogRows), Falling(newest),
           NEW recent \in Seq(LogRows), NEW k \in Nat, k <= RecentSize, NEW lately,
           Beginning(recent, newest, k, lately),
           NewestOfEach(start, Range(newest) \cap OfSymbols(Top))
    PROVE  LET full == AddUnseen(start, recent)
           IN  /\ full \in Seq(LogRows) /\ Len(full) <= HomeSize
               /\ NewestOfEach(full, RowsOf(newest, Top \cup lately))
<1>. /\ k <= Len(newest) /\ Len(recent) = k
     /\ \A i \in 1 .. k : recent[i] = newest[i]
     /\ lately = SymbolsOf(newest, k)
  BY DEF Beginning
<1>1. PICK L \in Nat : /\ L = Len(newest) /\ DOMAIN newest = 1 .. L
                       /\ Range(newest) = {newest[i] : i \in 1 .. L}
                       /\ Range(newest) \subseteq LogRows
                       /\ \A i \in 1 .. L : newest[i] \in Range(newest)
  BY ListFacts
<1>. PICK rows : rows = {r \in Range(newest) : r.symbol \in Top \cup lately}
  OBVIOUS
<1>. PICK tops : tops = Range(newest) \cap OfSymbols(Top)
  OBVIOUS
<1>2. rows \subseteq LogRows /\ tops = {r \in Range(newest) : r.symbol \in Top}
  BY <1>1 DEF OfSymbols
<1>3. /\ Range(start) \subseteq tops
      /\ \A r \in tops : \E e \in Range(start) : e.symbol = r.symbol /\ e.at >= r.at
  BY DEF NewestOfEach
<1>4. Range(recent) = {newest[i] : i \in 1 .. k}
  <2>1. Range(recent) = {recent[i] : i \in 1 .. Len(recent)}
    BY ListFacts, Zenon
  <2>2. Range(recent) = {recent[i] : i \in 1 .. k}
    BY <2>1, Zenon
  <2>. QED BY <2>2, Zenon
<1>5. \A i \in 1 .. k : i \in 1 .. L
  BY <1>1
<1>6. Falling(recent)
  <2>1. DOMAIN recent = 1 .. k
    BY ListFacts
  <2>. QED BY <1>1, <1>5, <2>1 DEF Falling
<1>7. Range(start) \cup Range(recent) \subseteq rows
  <2>1. Range(start) \subseteq rows
    BY <1>2, <1>3
  <2>2. \A i \in 1 .. k : newest[i].symbol \in lately
    BY DEF SymbolsOf
  <2>3. \A i \in 1 .. k : newest[i] \in rows
    BY <1>1, <1>5, <2>2
  <2>. QED BY <1>4, <2>1, <2>3
<1>8. ASSUME NEW e \in Range(start), NEW r \in rows, e.symbol = r.symbol
      PROVE  e.at >= r.at
  <2>1. r \in tops
    BY <1>2, <1>3, <1>8
  <2>2. PICK d \in Range(start) : d.symbol = r.symbol /\ d.at >= r.at
    BY <1>3, <2>1
  <2>3. PICK m \in Nat : Range(start) = {start[i] : i \in 1 .. m} /\ DOMAIN start = 1 .. m
    BY ListFacts
  <2>4. PICK i \in 1 .. m : e = start[i]
    BY <2>3
  <2>5. PICK j \in 1 .. m : d = start[j]
    BY <2>3
  <2>6. i = j
    BY <1>8, <2>2, <2>3, <2>4, <2>5 DEF OneOfEach
  <2>. QED BY <2>2, <2>4, <2>5, <2>6
<1>9. ASSUME NEW r \in rows
      PROVE  \E e \in Range(start) \cup Range(recent) : e.symbol = r.symbol /\ e.at >= r.at
  <2>1. CASE r.symbol \in Top
    BY <1>2, <1>3, <2>1
  <2>2. CASE r.symbol \in lately
    <3>1. PICK i \in 1 .. k : r.symbol = newest[i].symbol
      BY <2>2 DEF SymbolsOf
    <3>2. PICK j \in 1 .. L : r = newest[j]
      BY <1>1
    <3>3. CASE j <= k
      <4>1. j \in 1 .. k
        BY <3>2, <3>3
      <4>2. r.at >= r.at
        BY <1>2, RowFacts
      <4>. QED BY <1>4, <3>2, <4>1, <4>2
    <3>4. CASE ~(j <= k)
      <4>1. i < j
        BY <3>1, <3>2, <3>4
      <4>2. newest[i].at >= r.at
        BY <1>1, <1>5, <3>1, <3>2, <4>1 DEF Falling
      <4>. QED BY <1>4, <3>1, <4>2
    <3>. QED BY <3>3, <3>4
  <2>. QED BY <2>1, <2>2
<1>10. PICK full : /\ full = AddUnseen(start, recent)
                   /\ full \in Seq(LogRows) /\ OneOfEach(full)
                   /\ NewestOfEach(full, rows)
  BY <1>2, <1>6, <1>7, <1>8, <1>9, NewestAdded
<1>11. Len(full) <= HomeSize
  <2>. PICK S : S = {e.symbol : e \in Range(full)}
    OBVIOUS
  <2>1. Cardinality(S) = Len(full)
    BY <1>10, SymbolsCounted
  <2>2. S \subseteq Top \cup lately
    BY <1>10 DEF NewestOfEach
  <2>3. IsFiniteSet(lately) /\ Cardinality(lately) \in Nat /\ Cardinality(lately) <= k
    <3>1. lately = SymbolsOf(newest, k)
      BY DEF Beginning
    <3>2. /\ IsFiniteSet(SymbolsOf(newest, k))
          /\ Cardinality(SymbolsOf(newest, k)) \in Nat
          /\ Cardinality(SymbolsOf(newest, k)) <= k
      BY FewSymbols, Zenon
    <3>. QED BY <3>1, <3>2, Zenon
  <2>4. IsFiniteSet(Top) /\ Cardinality(Top) \in Nat
    BY AnalysisLogsAssumption, FS_CardinalityType
  <2>5. /\ IsFiniteSet(Top \cup lately)
        /\ Cardinality(Top \cup lately) =
              Cardinality(Top) + Cardinality(lately) - Cardinality(Top \cap lately)
    BY <2>3, <2>4, FS_Union
  <2>6. Cardinality(Top \cap lately) \in Nat
    <3>1. IsFiniteSet(Top \cap lately)
      BY <2>4, FS_Subset
    <3>. QED BY <3>1, FS_CardinalityType
  <2>7. Cardinality(S) <= Cardinality(Top \cup lately)
    BY <2>2, <2>5, FS_Subset
  <2>8. RecentSize \in Nat /\ HomeSize \in Nat /\ Cardinality(Top) + RecentSize <= HomeSize
    BY AnalysisLogsAssumption
  <2>9. Len(full) \in Nat
    BY <1>10, ListFacts
  <2>. HIDE DEF Falling
  <2>. QED BY <2>1, <2>3, <2>4, <2>5, <2>6, <2>7, <2>8, <2>9
<1>. QED BY <1>10, <1>11 DEF RowsOf

LEMMA HomeHolds ==
    ASSUME analysisLogs \in Seq(LogRows)
    PROVE  HomeIsNewest
<1>1. SUFFICES ASSUME NEW o \in Orders, NEW p \in Orders
               PROVE  LET list == HomeStats(ByTime(o), ByTime(p))
                          lately == {ByTime(p)[i].symbol :
                                        i \in DOMAIN FirstRows(p, RecentSize)}
                      IN  NewestOfEach(list,
                                {r \in AllLogs : r.symbol \in Top \cup lately})
  BY DEF HomeIsNewest
<1>2. RecentSize \in Nat /\ HomeSize \in Nat
  BY AnalysisLogsAssumption
<1>3. PICK start : /\ start = FindLatestBySymbols(ByTime(o), Top)
                   /\ start \in Seq(LogRows) /\ OneOfEach(start)
                   /\ NewestOfEach(start, AllLogs \cap OfSymbols(Top))
  BY FirstsAreNewest DEF FindLatestBySymbols
<1>4. PICK newest : /\ newest = ByTime(p)
                    /\ newest \in Seq(LogRows) /\ Falling(newest)
                    /\ Len(newest) = Len(analysisLogs) /\ Range(newest) = AllLogs
  BY OrderedRows
<1>5. PICK L \in Nat : L = Len(newest) /\ DOMAIN analysisLogs = 1 .. L
  BY <1>4, ListFacts
<1>6. p \in [1 .. L -> 1 .. L]
  BY <1>5 DEF Orders
<1>7. LogRows \subseteq OwnedBy(Anonymous)
  BY DEF OwnedBy
<1>8. FindRecent(newest, RecentSize, Anonymous) = FirstRows(newest, RecentSize)
  BY <1>4, <1>7, WhereAll DEF FindRecent
<1>9. PICK k \in Nat : k = (IF L < RecentSize THEN L ELSE RecentSize) /\ k <= L /\ k <= RecentSize
  BY <1>2
<1>10. PICK recent : /\ recent = FirstRows(newest, RecentSize)
                     /\ recent \in Seq(LogRows) /\ Len(recent) = k
                     /\ \A i \in 1 .. k : recent[i] = newest[i]
  BY <1>2, <1>4, <1>5, <1>9, FirstRowsOf
<1>11. DOMAIN FirstRows(p, RecentSize) = 1 .. k
  <2>1. PICK n \in Nat : n = RecentSize
    BY <1>2
  <2>2. DOMAIN FirstRows(p, n) = 1 .. (IF L < n THEN L ELSE n)
    BY <1>6, FirstPlaces
  <2>. QED BY <1>9, <2>1, <2>2
<1>12. PICK lately : lately = SymbolsOf(newest, k)
  OBVIOUS
<1>13. PICK full : /\ full = AddUnseen(start, recent)
                   /\ full \in Seq(LogRows) /\ Len(full) <= HomeSize
                   /\ NewestOfEach(full, {r \in AllLogs : r.symbol \in Top \cup lately})
  <2>1. NewestOfEach(start, Range(newest) \cap OfSymbols(Top))
    BY <1>3, <1>4
  <2>2. Beginning(recent, newest, k, lately)
    BY <1>5, <1>9, <1>10, <1>12 DEF Beginning
  <2>3. /\ AddUnseen(start, recent) \in Seq(LogRows)
        /\ Len(AddUnseen(start, recent)) <= HomeSize
        /\ NewestOfEach(AddUnseen(start, recent), RowsOf(newest, Top \cup lately))
    BY <1>3, <1>4, <1>9, <1>10, <2>1, <2>2, HomeIsComplete
  <2>. QED BY <1>4, <2>3 DEF RowsOf
<1>14. FirstRows(full, HomeSize) = full
  BY <1>2, <1>13, NothingCut
<1>15. HomeStats(ByTime(o), ByTime(p)) = full
  BY <1>3, <1>4, <1>8, <1>10, <1>13, <1>14 DEF HomeStats
<1>. QED BY <1>4, <1>11, <1>12, <1>13, <1>15 DEF SymbolsOf

-----------------------------------------------------------------------------
(* The table.                                                              *)

LogsInv == analysisLogs \in Seq(LogRows) /\ second \in 0 .. LogSeconds

LEMMA LogsInvHolds == AnalysisLogsSpec => []LogsInv
<1>1. LogSeconds \in Nat
  BY AnalysisLogsAssumption
<1>2. AnalysisLogsInit => LogsInv
  <2>1. SUFFICES ASSUME AnalysisLogsInit PROVE LogsInv
    OBVIOUS
  <2>2. CASE analysisLogs = <<>>
    BY <1>1, <2>1, <2>2, EmptySeq DEF AnalysisLogsInit, LogsInv
  <2>3. CASE \E r \in LogRows : analysisLogs = <<r>>
    BY <1>1, <2>1, <2>3 DEF AnalysisLogsInit, LogsInv
  <2>. QED BY <2>1, <2>2, <2>3 DEF AnalysisLogsInit
<1>3. LogsInv /\ NextSecond => LogsInv'
  BY <1>1 DEF LogsInv, NextSecond
<1>4. LogsInv /\ SaveAll => LogsInv'
  <2>1. SUFFICES ASSUME LogsInv, SaveAll PROVE LogsInv'
    OBVIOUS
  <2>2. PICK owner \in Owners \cup {Anonymous}, x \in LogSymbols,
             kinds \in {<<"NEWS">>, <<"REPORT">>, <<"NEWS", "DISCLOSURE">>},
             at \in {t \in 0 .. second : second <= t + 1} :
             analysisLogs' = analysisLogs \o [i \in DOMAIN kinds |->
                [at |-> at, symbol |-> x, kind |-> kinds[i], owner |-> owner]]
    BY <2>1 DEF SaveAll
  <2>. DEFINE more == [i \in DOMAIN kinds |->
                [at |-> at, symbol |-> x, kind |-> kinds[i], owner |-> owner]]
  <2>3. kinds \in Seq(Kinds)
    <3>1. "NEWS" \in Kinds /\ "DISCLOSURE" \in Kinds /\ "REPORT" \in Kinds
      BY DEF Kinds
    <3>2. /\ <<"NEWS">> \in Seq(Kinds) /\ <<"REPORT">> \in Seq(Kinds)
          /\ <<"NEWS", "DISCLOSURE">> \in Seq(Kinds)
      BY <3>1
    <3>. QED BY <2>2, <3>2
  <2>4. at \in 0 .. LogSeconds
    BY <1>1, <2>1 DEF LogsInv
  <2>5. PICK n \in Nat : DOMAIN kinds = 1 .. n /\ \A i \in 1 .. n : kinds[i] \in Kinds
    BY <2>3
  <2>6. \A i \in 1 .. n : [at |-> at, symbol |-> x, kind |-> kinds[i], owner |-> owner]
                          \in LogRows
    BY <2>4, <2>5 DEF LogRows
  <2>7. more \in [1 .. n -> LogRows]
    BY <2>5, <2>6
  <2>8. more \in Seq(LogRows)
    BY <2>5, <2>7
  <2>. HIDE DEF more
  <2>9. analysisLogs \o more \in Seq(LogRows)
    BY <2>1, <2>8, ConcatProperties DEF LogsInv
  <2>10. analysisLogs' = analysisLogs \o more /\ second' = second
    BY <2>1, <2>2 DEF SaveAll, more
  <2>. QED BY <2>1, <2>9, <2>10 DEF LogsInv
<1>5. LogsInv /\ UNCHANGED logVars => LogsInv'
  BY DEF LogsInv, logVars
<1>6. LogsInv /\ [AnalysisLogsNext]_logVars => LogsInv'
  BY <1>3, <1>4, <1>5 DEF AnalysisLogsNext
<1>. QED BY <1>2, <1>6, PTL DEF AnalysisLogsSpec

\* Whatever logs the runs save and however the database breaks ties, the summaries
\* and the home page show the newest log of each symbol, and lose none.
THEOREM ReadersAreShownTheNewest == AnalysisLogsSpec => []ReadersSeeTheNewest
<1>1. LogsInv => ReadersSeeTheNewest
  BY SummariesHold, HomeHolds DEF LogsInv, ReadersSeeTheNewest
<1>. QED BY <1>1, LogsInvHolds, PTL
=============================================================================
