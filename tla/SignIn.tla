------------------------------- MODULE SignIn -------------------------------
(***************************************************************************)
(* Signing in and out (app/routers/auth.py, app/services/auth_service.py,  *)
(* and the ticket of app/routers/chat.py).                                 *)
(*                                                                         *)
(* A browser has several tabs, which share its cookies.  Each tab does one *)
(* thing at a time: it signs in through the identity provider (start, the  *)
(* user's stay at the provider, the callback, the exchange of the handoff  *)
(* code), or with a password, or registers, or refreshes the session, or   *)
(* signs out.  A step is what the service does between two awaits on       *)
(* Redis, the provider or the database.                                    *)
(*                                                                         *)
(* Every sign-in is an attempt, a number given out once, and everything    *)
(* random that is made for it (flow id, verifier, challenge, handoff code, *)
(* session, ticket) goes by that number.                                   *)
(***************************************************************************)
EXTENDS Naturals

CONSTANTS
  Tab,          \* the tabs
  Browser,      \* the cookie jars
  BrowserOf,    \* the browser of each tab
  Identity,     \* accounts at the identity provider
  Email,        \* addresses
  EmailOf,      \* the address of each identity
  MaxAttempts,  \* bound: sign-ins that are tried
  None          \* no identity

ASSUME BrowserAssumption == BrowserOf \in [Tab -> Browser]
ASSUME EmailAssumption == EmailOf \in [Identity -> Email]
ASSUME BoundAssumption == MaxAttempts \in Nat
ASSUME NoneAssumption == None \notin Identity

Attempt == 1..MaxAttempts
NoAttempt == 0
NoCookies == [flow |-> NoAttempt, challenge |-> NoAttempt]

(* Redis keys: oauth:flow:..., oauth:handoff:..., ws:ticket:...            *)
Code == {"flow", "handoff", "ticket"} \X Attempt

VARIABLES
  requirePkce,   \* the setting OAUTH_REQUIRE_PKCE
  last,          \* the last attempt given out
  stage,         \* tab -> how far its request has come
  att,           \* tab -> the attempt, or the session, it is about
  sent,          \* tab -> the cookies its callback request carried
  pkce,          \* the attempts whose client gave a challenge of its own
  who,           \* attempt -> the identity that signed in
  flowCookie,    \* browser -> oauth_flow
  challenge,     \* browser -> oauth_challenge
  redis,         \* the keys that are there
  bound,         \* attempt -> the challenge stored with its handoff code
  row,           \* users: address -> supabase_user_id of its row
  known,         \* identities that exist at the provider
  alive,         \* sessions the provider honours
  jar,           \* browser -> the session its cookies hold
  \* history
  issued, uses,  \* Redis keys ever set; how often each was handed out
  mishap,        \* attempts an accident, or another tab, got in the way of
  settled,       \* attempts whose user has a row
  displaced,     \* settled attempts whose row another identity then took
  loggedOut,     \* sessions signed out
  unrevoked,     \* those whose revocation failed
  overlapped     \* those with a refresh in flight when they were signed out

codes == <<redis, issued, uses>>
cookies == <<flowCookie, challenge>>
users == <<row, settled, displaced>>
sessions == <<alive, jar, loggedOut, unrevoked, overlapped>>
tried == <<last, pkce, bound>>
flow == <<tried, sent>>
vars == <<requirePkce, stage, att, who, known, mishap, codes, cookies, users,
          sessions, flow>>

Stage == {
  "idle", "failed",
  "away",        \* at the provider's page
  "called",      \* the callback has been requested
  "exchange",    \* callback: has the flow's verifier
  "by_id",       \* signed in at the provider, looks for the user's row
  "by_email",    \* no row with this identity
  "relink",      \* found the address's row, with another identity
  "insert",      \* found no row
  "made",        \* the row is there
  "code",        \* redirected to the web client with a handoff code
  "signup",      \* register: the address is free
  "refreshing",  \* refresh: the provider renewed the session
  "leaving" }    \* logout: the provider has been asked

(* Only the type of the state.                                             *)
TypeOK ==
  /\ requirePkce \in BOOLEAN
  /\ last \in 0..MaxAttempts
  /\ stage \in [Tab -> Stage]
  /\ att \in [Tab -> Attempt \cup {NoAttempt}]
  /\ sent \in [Tab -> [flow : Attempt \cup {NoAttempt}, challenge : Attempt \cup {NoAttempt}]]
  /\ pkce \subseteq Attempt
  /\ who \in [Attempt -> Identity \cup {None}]
  /\ flowCookie \in [Browser -> Attempt \cup {NoAttempt}]
  /\ challenge \in [Browser -> Attempt \cup {NoAttempt}]
  /\ bound \in [Attempt -> Attempt \cup {NoAttempt}]
  /\ row \in [Email -> Identity \cup {None}]
  /\ known \subseteq Identity
  /\ jar \in [Browser -> Attempt \cup {NoAttempt}]
  /\ redis \subseteq issued /\ issued \subseteq Code
  /\ uses \in [Code -> Nat]
  /\ \A S \in {mishap, settled, displaced, alive, loggedOut, unrevoked, overlapped} :
       S \subseteq Attempt

Init ==
  /\ requirePkce \in BOOLEAN
  /\ last = 0
  /\ stage = [t \in Tab |-> "idle"]
  /\ att = [t \in Tab |-> NoAttempt]
  /\ sent = [t \in Tab |-> NoCookies]
  /\ pkce = {}
  /\ who = [a \in Attempt |-> None]
  /\ flowCookie = [b \in Browser |-> NoAttempt]
  /\ challenge = [b \in Browser |-> NoAttempt]
  /\ redis = {} /\ issued = {} /\ uses = [c \in Code |-> 0]
  /\ bound = [a \in Attempt |-> NoAttempt]
  /\ row = [e \in Email |-> None]
  /\ known = {}
  /\ alive = {}
  /\ jar = [b \in Browser |-> NoAttempt]
  /\ mishap = {} /\ settled = {} /\ displaced = {}
  /\ loggedOut = {} /\ unrevoked = {} /\ overlapped = {}

-----------------------------------------------------------------------------
(* Helpers.                                                                *)

Free(t) == stage[t] \in {"idle", "failed"}

(* The row of the user a tab is signing in.                                *)
Mail(t) == EmailOf[who[att[t]]]

Goto(t, s) == stage' = [stage EXCEPT ![t] = s]

(* The tab has its answer, and nothing more to do.                         *)
Rest(t) ==
  /\ Goto(t, "idle")
  /\ att' = [att EXCEPT ![t] = NoAttempt]

(* Is the request of tab t a callback?                                     *)
IsCallback(t) == <<"flow", att[t]>> \in issued

(* A new attempt of tab t.                                                 *)
NewAttempt(t) ==
  /\ Free(t)
  /\ last < MaxAttempts
  /\ last' = last + 1
  /\ att' = [att EXCEPT ![t] = last + 1]

(* redis.set of a fresh key.                                               *)
SetKey(c) ==
  /\ c \notin issued
  /\ redis' = redis \cup {c}
  /\ issued' = issued \cup {c}
  /\ UNCHANGED uses

(* Mutant of GetDel: the key is read and left to expire.                   *)
GetOnly(c) ==
  /\ c \in redis
  /\ uses' = [uses EXCEPT ![c] = @ + 1]
  /\ UNCHANGED <<redis, issued>>

(* redis.getdel of a key that is there.                                    *)
GetDel(c) ==
  /\ c \in redis
  /\ redis' = redis \ {c}
  /\ uses' = [uses EXCEPT ![c] = @ + 1]
  /\ UNCHANGED issued

(* The attempts of other tabs that are at the provider and count on the    *)
(* cookies of t's browser.                                                 *)
Waiting(t) ==
  {att[u] : u \in {v \in Tab \ {t} : BrowserOf[v] = BrowserOf[t] /\ stage[v] = "away"}}

(* The callback's answer, with any outcome, deletes the flow's cookies.    *)
EndCallback(t) ==
  /\ sent' = [sent EXCEPT ![t] = NoCookies]
  /\ flowCookie' = [flowCookie EXCEPT ![BrowserOf[t]] = NoAttempt]
  /\ challenge' = [challenge EXCEPT ![BrowserOf[t]] = NoAttempt]

(* The callback redirects to the failure page, after accidents to A.       *)
FailCallback(t, A) ==
  /\ Goto(t, "failed")
  /\ EndCallback(t)
  /\ mishap' = mishap \cup A \cup Waiting(t)

(* The client is given session s, in cookies or in the answer's body, and  *)
(* leaves off the one it had (_set_session_cookies, _body_tokens).         *)
SetSession(t, s) == jar' = [jar EXCEPT ![BrowserOf[t]] = s]

(* The browser is told to drop its session (_clear_session_cookies).       *)
ClearSession(t) == jar' = [jar EXCEPT ![BrowserOf[t]] = NoAttempt]

-----------------------------------------------------------------------------
(* Signing in through the provider.                                        *)

(* oauth_google: the verifier goes to Redis and the flow's id to the       *)
(* browser, over whatever an earlier start left there; so does the         *)
(* client's challenge, or the old one is deleted.                          *)
StartOAuth(t, given) ==
  LET a == last + 1
      b == BrowserOf[t]
  IN /\ NewAttempt(t)
     /\ SetKey(<<"flow", a>>)
     /\ flowCookie' = [flowCookie EXCEPT ![b] = a]
     /\ challenge' = [challenge EXCEPT ![b] = IF given THEN a ELSE NoAttempt]
     /\ pkce' = IF given THEN pkce \cup {a} ELSE pkce
     /\ mishap' = mishap \cup Waiting(t)
     /\ Goto(t, "away")
     /\ UNCHANGED <<requirePkce, who, known, users, sessions, sent, bound>>

(* The provider sends the tab back with a code for its attempt.            *)
ProviderReturns(t, i) ==
  /\ stage[t] = "away"
  /\ sent' = [sent EXCEPT ![t] = [flow |-> flowCookie[BrowserOf[t]],
                                  challenge |-> challenge[BrowserOf[t]]]]
  /\ who' = [who EXCEPT ![att[t]] = i]
  /\ known' = known \cup {i}
  /\ Goto(t, "called")
  /\ UNCHANGED <<requirePkce, att, mishap, codes, cookies, users, sessions,
                 last, pkce, bound>>

(* The provider sends it back without one: the flow of the cookie, whose   *)
(* ever it is, is dropped if Redis answers (_drop_abandoned_flow).         *)
ProviderDeclines(t) ==
  LET f == flowCookie[BrowserOf[t]]
  IN /\ stage[t] = "away"
     /\ \/ GetDel(<<"flow", f>>)
        \/ UNCHANGED codes
     /\ FailCallback(t, {att[t]} \cup ({f} \ {NoAttempt}))
     /\ UNCHANGED <<requirePkce, att, who, known, users, sessions, tried>>

(* _take_flow_verifier, then the check that a challenge came along.        *)
TakeVerifier(t) ==
  LET f == sent[t].flow
  IN /\ stage[t] = "called"
     /\ GetDel(<<"flow", f>>)
     /\ IF requirePkce /\ sent[t].challenge = NoAttempt
        THEN FailCallback(t, {f} \ {att[t]})
        ELSE /\ Goto(t, "exchange")
             /\ mishap' = mishap \cup ({f} \ {att[t]})
             /\ UNCHANGED <<cookies, sent>>
     /\ UNCHANGED <<requirePkce, att, who, known, users, sessions, tried>>

NoVerifier(t) ==
  /\ stage[t] = "called"
  /\ <<"flow", sent[t].flow>> \notin redis
  /\ FailCallback(t, {})
  /\ UNCHANGED <<requirePkce, att, who, known, codes, users, sessions, tried>>

(* supabase_exchange_code: the provider compares the verifier with the     *)
(* challenge of the attempt its code was made for.                         *)
ExchangeCode(t) ==
  /\ stage[t] = "exchange"
  /\ sent[t].flow = att[t]
  /\ alive' = alive \cup {att[t]}
  /\ Goto(t, "by_id")
  /\ UNCHANGED <<requirePkce, att, who, known, mishap, codes, cookies, users,
                 jar, loggedOut, unrevoked, overlapped, flow>>

ExchangeRefused(t) ==
  /\ stage[t] = "exchange"
  /\ sent[t].flow # att[t]
  /\ FailCallback(t, {})
  /\ UNCHANGED <<requirePkce, att, who, known, codes, users, sessions, tried>>

(* _store_handoff_code, and the redirect to the web client.                *)
StoreHandoff(t) ==
  /\ stage[t] = "made" /\ IsCallback(t)
  /\ SetKey(<<"handoff", att[t]>>)
  /\ bound' = [bound EXCEPT ![att[t]] = sent[t].challenge]
  /\ EndCallback(t)
  /\ mishap' = mishap \cup Waiting(t)
  /\ Goto(t, "code")
  /\ UNCHANGED <<requirePkce, att, who, known, users, sessions, last, pkce>>

(* Mutant of Proves: a verifier is asked for even without a challenge.     *)
ProvesAlways(a) == a \in pkce /\ bound[a] = a

(* Does the client of attempt a prove that the handoff code is its own?    *)
Proves(a) ==
  IF bound[a] = NoAttempt THEN ~requirePkce ELSE a \in pkce /\ bound[a] = a

(* oauth_exchange: the code is used up, whatever the verifier.             *)
ExchangeHandoff(t) ==
  LET a == att[t]
  IN /\ stage[t] = "code"
     /\ GetDel(<<"handoff", a>>)
     /\ IF Proves(a)
        THEN SetSession(t, a) /\ Rest(t)
        ELSE Goto(t, "failed") /\ UNCHANGED <<jar, att>>
     /\ UNCHANGED <<requirePkce, who, known, mishap, cookies, users,
                    alive, loggedOut, unrevoked, overlapped, flow>>

(* The answer is lost, and the client asks again with the same code.       *)
ExchangeLost(t) ==
  /\ stage[t] = "code"
  /\ GetDel(<<"handoff", att[t]>>)
  /\ mishap' = mishap \cup {att[t]}
  /\ UNCHANGED <<requirePkce, stage, att, who, known, cookies, users, sessions, flow>>

ExchangeUnknown(t) ==
  /\ stage[t] = "code"
  /\ <<"handoff", att[t]>> \notin redis
  /\ Goto(t, "failed")
  /\ UNCHANGED <<requirePkce, att, who, known, mishap, codes, cookies, users,
                 sessions, flow>>

(* Redis or the provider or the database fails the callback, which         *)
(* redirects to the failure page.                                          *)
CallbackBreaks(t) ==
  /\ IsCallback(t)
  /\ stage[t] \in {"called", "exchange", "by_id", "by_email", "relink", "insert", "made"}
  /\ FailCallback(t, {att[t]})
  /\ UNCHANGED <<requirePkce, att, who, known, codes, users, sessions, tried>>

-----------------------------------------------------------------------------
(* Signing in with a password, and registering.                            *)

(* login: the provider knows the identity and gives it a session.          *)
Login(t, i) ==
  /\ i \in known
  /\ NewAttempt(t)
  /\ who' = [who EXCEPT ![last + 1] = i]
  /\ alive' = alive \cup {last + 1}
  /\ Goto(t, "by_id")
  /\ UNCHANGED <<requirePkce, known, mishap, codes, cookies, users, jar, loggedOut,
                 unrevoked, overlapped, sent, pkce, bound>>

(* register: no row has the address.                                       *)
Register(t, i) ==
  /\ row[EmailOf[i]] = None
  /\ NewAttempt(t)
  /\ who' = [who EXCEPT ![last + 1] = i]
  /\ Goto(t, "signup")
  /\ UNCHANGED <<requirePkce, known, mishap, codes, cookies, users, sessions, sent,
                 pkce, bound>>

(* supabase_sign_up creates the identity, with a session at once or, when  *)
(* the address must be confirmed, without one.                             *)
SignUp(t, session) ==
  LET i == who[att[t]]
  IN /\ stage[t] = "signup"
     /\ i \notin known
     /\ known' = known \cup {i}
     /\ alive' = IF session THEN alive \cup {att[t]} ELSE alive
     /\ Goto(t, "insert")
     /\ UNCHANGED <<requirePkce, att, who, mishap, codes, cookies, users, jar,
                    loggedOut, unrevoked, overlapped, flow>>

(* The provider has the identity already: EMAIL_EXISTS.                    *)
SignUpRefused(t) ==
  /\ stage[t] = "signup"
  /\ who[att[t]] \in known
  /\ Rest(t)
  /\ UNCHANGED <<requirePkce, who, known, mishap, codes, cookies, users,
                 sessions, flow>>

(* The answer to login or register, with the session's cookies.            *)
Answer(t) ==
  /\ stage[t] = "made" /\ ~IsCallback(t)
  /\ IF att[t] \in alive THEN SetSession(t, att[t]) ELSE UNCHANGED jar
  /\ Rest(t)
  /\ UNCHANGED <<requirePkce, who, known, mishap, codes, cookies, users,
                 alive, loggedOut, unrevoked, overlapped, flow>>

(* The provider or the database fails login or register, which answers     *)
(* with an error.                                                          *)
RequestBreaks(t) ==
  /\ ~IsCallback(t)
  /\ stage[t] \in {"signup", "by_id", "by_email", "relink", "insert", "made"}
  /\ Goto(t, "failed")
  /\ mishap' = mishap \cup {att[t]}
  /\ UNCHANGED <<requirePkce, att, who, known, codes, cookies, users, sessions, flow>>

-----------------------------------------------------------------------------
(* The user's row (_get_or_create_user), for the callback and for login.   *)

Settle(t) ==
  /\ Goto(t, "made")
  /\ settled' = settled \cup {att[t]}

FindById(t) ==
  /\ stage[t] = "by_id"
  /\ IF row[Mail(t)] = who[att[t]]
     THEN Settle(t)
     ELSE Goto(t, "by_email") /\ UNCHANGED settled
  /\ UNCHANGED <<requirePkce, att, who, known, mishap, codes, cookies, row, displaced,
                 sessions, flow>>

(* Mutant of FindByEmail: a row that is found is returned as it is.        *)
FindByEmailAsIs(t) ==
  /\ stage[t] = "by_email"
  /\ IF row[Mail(t)] # None
     THEN Settle(t)
     ELSE Goto(t, "insert") /\ UNCHANGED settled
  /\ UNCHANGED <<requirePkce, att, who, known, mishap, codes, cookies, row, displaced,
                 sessions, flow>>

FindByEmail(t) ==
  /\ stage[t] = "by_email"
  /\ IF row[Mail(t)] = who[att[t]]
     THEN Settle(t)
     ELSE /\ Goto(t, IF row[Mail(t)] = None THEN "insert" ELSE "relink")
          /\ UNCHANGED settled
  /\ UNCHANGED <<requirePkce, att, who, known, mishap, codes, cookies, row, displaced,
                 sessions, flow>>

(* Mutant of Relink: some other id is written.                             *)
RelinkToSession(t) ==
  /\ stage[t] = "relink"
  /\ row' = [row EXCEPT ![Mail(t)] = att[t]]
  /\ Settle(t)
  /\ UNCHANGED <<requirePkce, att, who, known, mishap, codes, cookies, displaced,
                 sessions, flow>>

(* The address's row takes the identity that just signed in.               *)
Relink(t) ==
  /\ stage[t] = "relink"
  /\ row' = [row EXCEPT ![Mail(t)] = who[att[t]]]
  /\ displaced' = displaced \cup
       {s \in settled : EmailOf[who[s]] = Mail(t) /\ who[s] # who[att[t]]}
  /\ Settle(t)
  /\ UNCHANGED <<requirePkce, att, who, known, mishap, codes, cookies, sessions, flow>>

(* users.email is unique: of two that insert, the later one fails.         *)
InsertUser(t) ==
  /\ stage[t] = "insert"
  /\ row[Mail(t)] = None
  /\ row' = [row EXCEPT ![Mail(t)] = who[att[t]]]
  /\ mishap' = mishap \cup {att[u] : u \in {v \in Tab \ {t} :
                              stage[v] \in {"signup", "insert"} /\ Mail(v) = Mail(t)}}
  /\ Settle(t)
  /\ UNCHANGED <<requirePkce, att, who, known, codes, cookies, displaced, sessions, flow>>

InsertUserFails(t) ==
  /\ stage[t] = "insert"
  /\ row[Mail(t)] # None
  /\ IF IsCallback(t)
     THEN FailCallback(t, {})
     ELSE Goto(t, "failed") /\ UNCHANGED <<mishap, cookies, sent>>
  /\ UNCHANGED <<requirePkce, att, who, known, codes, users, sessions, tried>>

-----------------------------------------------------------------------------
(* A session, once there is one.                                           *)

(* refresh: the provider renews a session it honours; the answer sets the  *)
(* cookies again.                                                          *)
Refresh(t) ==
  LET s == jar[BrowserOf[t]]
  IN /\ Free(t)
     /\ s \in alive
     /\ att' = [att EXCEPT ![t] = s]
     /\ Goto(t, "refreshing")
     /\ UNCHANGED <<requirePkce, who, known, mishap, codes, cookies, users, sessions, flow>>

RefreshAnswer(t) ==
  /\ stage[t] = "refreshing"
  /\ SetSession(t, att[t])
  /\ Rest(t)
  /\ UNCHANGED <<requirePkce, who, known, mishap, codes, cookies, users, alive,
                 loggedOut, unrevoked, overlapped, flow>>

(* Mutant of Revoked: only the access token is tried.                      *)
RevokedByAccessToken(s, fresh) == fresh /\ s \in Attempt

(* _revoke_session signs out with the access token or, when that has       *)
(* expired, with a new one got for the refresh token.                      *)
Revoked(s, fresh) == fresh \/ s \in alive

(* logout, up to the provider's answer or the timeout, both of which       *)
(* supabase_revoke_session takes.  A client sends the two tokens of one    *)
(* session: those of its cookies, or both by itself, and never an          *)
(* Authorization header of one beside the refresh cookie of another.       *)
Logout(t, fresh, reached) ==
  LET s == jar[BrowserOf[t]]
  IN /\ Free(t)
     /\ s # NoAttempt
     /\ att' = [att EXCEPT ![t] = s]
     /\ alive' = IF reached /\ Revoked(s, fresh) THEN alive \ {s} ELSE alive
     /\ unrevoked' = IF reached THEN unrevoked ELSE unrevoked \cup {s}
     /\ Goto(t, "leaving")
     /\ UNCHANGED <<requirePkce, who, known, mishap, codes, cookies, users, jar,
                    loggedOut, overlapped, flow>>

LogoutAnswer(t) ==
  /\ stage[t] = "leaving"
  /\ ClearSession(t)
  /\ loggedOut' = loggedOut \cup {att[t]}
  /\ overlapped' = overlapped \cup
       {att[u] : u \in {v \in Tab : stage[v] = "refreshing" /\ att[v] = att[t]}}
  /\ Rest(t)
  /\ UNCHANGED <<requirePkce, who, known, mishap, codes, cookies, users, alive,
                 unrevoked, flow>>

(* create_ws_ticket, for a session that get_current_user finds a row for.  *)
(* Bound: one ticket of a session; each is a new random key that shares    *)
(* nothing with the others.                                                *)
IssueTicket(b) ==
  LET s == jar[b]
  IN /\ s # NoAttempt
     /\ row[EmailOf[who[s]]] = who[s]
     /\ SetKey(<<"ticket", s>>)
     /\ UNCHANGED <<requirePkce, stage, att, who, known, mishap, cookies, users,
                    sessions, flow>>

(* _ws_authenticate takes the ticket.                                      *)
UseTicket(s) ==
  /\ GetDel(<<"ticket", s>>)
  /\ UNCHANGED <<requirePkce, stage, att, who, known, mishap, cookies, users,
                 sessions, flow>>

-----------------------------------------------------------------------------
(* Time, and users who change their mind.                                  *)

(* A key's time to live is over.                                           *)
KeyExpires(c) ==
  /\ c \in redis
  /\ redis' = redis \ {c}
  /\ mishap' = mishap \cup {c[2]}
  /\ UNCHANGED <<requirePkce, stage, att, who, known, issued, uses, cookies, users,
                 sessions, flow>>

(* So is a cookie's max_age.                                               *)
CookieExpires(b) ==
  /\ \/ /\ flowCookie[b] # NoAttempt
        /\ flowCookie' = [flowCookie EXCEPT ![b] = NoAttempt]
        /\ mishap' = mishap \cup {flowCookie[b]}
        /\ UNCHANGED challenge
     \/ /\ challenge[b] # NoAttempt
        /\ challenge' = [challenge EXCEPT ![b] = NoAttempt]
        /\ mishap' = mishap \cup {challenge[b]}
        /\ UNCHANGED flowCookie
  /\ UNCHANGED <<requirePkce, stage, att, who, known, codes, users, sessions, flow>>

(* The user leaves the provider's page, or the client never exchanges.     *)
GiveUp(t) ==
  /\ stage[t] \in {"away", "code"}
  /\ Rest(t)
  /\ UNCHANGED <<requirePkce, who, known, mishap, codes, cookies, users,
                 sessions, flow>>

-----------------------------------------------------------------------------
OAuth(t) ==
  \/ \E given \in BOOLEAN : StartOAuth(t, given)
  \/ \E i \in Identity : ProviderReturns(t, i)
  \/ ProviderDeclines(t) \/ TakeVerifier(t) \/ NoVerifier(t)
  \/ ExchangeCode(t) \/ ExchangeRefused(t) \/ StoreHandoff(t) \/ ExchangeHandoff(t)
  \/ ExchangeLost(t) \/ ExchangeUnknown(t) \/ CallbackBreaks(t)

Password(t) ==
  \/ \E i \in Identity : Login(t, i) \/ Register(t, i)
  \/ \E session \in BOOLEAN : SignUp(t, session)
  \/ SignUpRefused(t) \/ Answer(t) \/ RequestBreaks(t)

Provision(t) ==
  FindById(t) \/ FindByEmail(t) \/ Relink(t) \/ InsertUser(t) \/ InsertUserFails(t)

Session(t) ==
  \/ Refresh(t) \/ RefreshAnswer(t)
  \/ \E fresh, reached \in BOOLEAN : Logout(t, fresh, reached)
  \/ LogoutAnswer(t)

Next ==
  \/ \E t \in Tab : OAuth(t) \/ Password(t) \/ Provision(t) \/ Session(t) \/ GiveUp(t)
  \/ \E b \in Browser : IssueTicket(b) \/ CookieExpires(b)
  \/ \E a \in Attempt : UseTicket(a)
  \/ \E c \in Code : KeyExpires(c)

Spec == Init /\ [][Next]_vars

-----------------------------------------------------------------------------
(* Properties.                                                             *)

(* Every verifier, handoff code and ticket in Redis is a code of           *)
(* OneTimeCodes: presented twice, with a wrong verifier, after its time or *)
(* in a race, it works once at most (the getdel of oauth_callback,         *)
(* oauth_exchange and _ws_authenticate).                                   *)
Codes == INSTANCE OneTimeCodes WITH live <- redis
CodesSpec == Codes!Spec

(* A sign-in ends in failure only through an accident of its own (Redis,   *)
(* the provider, the database, a lost answer, too long a wait), because    *)
(* another tab of the browser started or ended a flow while it was at the  *)
(* provider, because another sign-in inserted the same user first, or for  *)
(* want of a challenge that the settings ask for: the verifier, the        *)
(* cookies and the handoff code that meet in oauth_callback and            *)
(* oauth_exchange otherwise belong together.                               *)
FailuresAreAccountedFor ==
  \A t \in Tab :
    stage[t] = "failed" => att[t] \in mishap \/ (requirePkce /\ att[t] \notin pkce)

(* get_current_user finds the user of every session in a browser's         *)
(* cookies, unless another identity of the same address signed in since    *)
(* and took the row over (_get_or_create_user).                            *)
SessionsResolve ==
  \A b \in Browser :
    LET s == jar[b]
    IN s # NoAttempt => row[EmailOf[who[s]]] = who[s] \/ s \in displaced

(* After signing out the provider no longer honours the session unless it  *)
(* could not be told, and the cookies stay gone unless a refresh of that   *)
(* session was in flight (logout, _revoke_session).                        *)
LogoutHolds ==
  /\ \A s \in loggedOut \cap alive : s \in unrevoked
  /\ \A b \in Browser : jar[b] \in loggedOut => jar[b] \in overlapped

=============================================================================
