---------------------------- MODULE SignInProofs ----------------------------
(***************************************************************************)
(* Proofs about SignIn, for any tabs, browsers, identities, addresses and  *)
(* number of sign-ins.                                                     *)
(*                                                                         *)
(* The argument.  An attempt belongs to one tab until its session is in a  *)
(* browser (Single), and a session to one browser (OneJar).  Whoever is    *)
(* signing out has had the session revoked or knows that it was not        *)
(* (Leaving), a refresh that outlives the sign-out is noted (Refreshing),  *)
(* and whoever has a session has a row (Settled).  On top of that, what a  *)
(* sign-in counts on is its own, unless something got in its way           *)
(* (Blameless): a step either spares the other tabs or excuses them.       *)
(***************************************************************************)
EXTENDS SignIn, TLAPS

(* A tab that is up to something is so with an attempt given out before.   *)
Shape ==
  /\ \A t \in Tab : IF stage[t] = "idle" THEN att[t] = NoAttempt ELSE att[t] \in 1..last
  /\ alive \cup settled \cup loggedOut \subseteq 1..last
  /\ \A b \in Browser : jar[b] <= last
  /\ \A c \in issued : c[2] <= last

SigningIn == Stage \ {"idle", "refreshing", "leaving"}
HasSession == {"refreshing", "leaving"}

Single ==
  \A t \in Tab : stage[t] \in SigningIn =>
    /\ att[t] \notin loggedOut
    /\ \A b \in Browser : jar[b] # att[t]
    /\ \A u \in Tab \ {t} : att[u] # att[t]
    /\ stage[t] = "away" => att[t] \notin settled

OneJar ==
  /\ \A b, c \in Browser : jar[b] = jar[c] /\ jar[b] # NoAttempt => b = c
  /\ \A t \in Tab, b \in Browser :
       stage[t] \in HasSession /\ jar[b] = att[t] => b = BrowserOf[t]
  /\ \A t, u \in Tab :
       stage[t] \in HasSession /\ stage[u] \in HasSession /\ att[t] = att[u]
       => BrowserOf[t] = BrowserOf[u]

Leaving ==
  \A t \in Tab : stage[t] = "leaving" => att[t] \notin alive \/ att[t] \in unrevoked

Refreshing ==
  \A t \in Tab : stage[t] = "refreshing" /\ att[t] \in loggedOut => att[t] \in overlapped

(* Who is known to have signed in.                                         *)
Named == Stage \ {"idle", "failed", "away"}

Settled ==
  /\ \A t \in Tab : stage[t] \in Named => who[att[t]] \in Identity
  /\ \A t \in Tab : stage[t] \in HasSession \cup {"made", "code"} => att[t] \in settled
  /\ \A b \in Browser : jar[b] # NoAttempt => jar[b] \in settled
  /\ \A s \in settled :
       who[s] \in Identity /\ (row[EmailOf[who[s]]] = who[s] \/ s \in displaced)

IInv ==
  /\ TypeOK /\ Shape /\ Single /\ OneJar /\ Leaving /\ Refreshing /\ Settled
  /\ LogoutHolds /\ SessionsResolve

-----------------------------------------------------------------------------
(* The refinement: what happens to the keys in Redis.                      *)

LEMMA Numbers ==
  /\ NoAttempt \notin Attempt /\ Attempt \subseteq Nat
  /\ MaxAttempts \in Nat
  /\ \A n \in 0..MaxAttempts : 1..n \subseteq Attempt
  /\ \A n \in 0..MaxAttempts : n < MaxAttempts => n + 1 \in Attempt /\ n + 1 \in 0..MaxAttempts
BY BoundAssumption DEF NoAttempt, Attempt

LEMMA AttemptNumbers ==
  (\A a \in Attempt \cup {NoAttempt} : a \in Nat) /\ (\A a \in Attempt : a >= 1)
BY BoundAssumption DEF NoAttempt, Attempt

LEMMA KeySet == ASSUME NEW c \in Code, SetKey(c) PROVE Codes!Next
BY DEF SetKey, Codes!Next, Codes!Issue

LEMMA KeyUsed == ASSUME NEW c \in Code, GetDel(c) PROVE Codes!Next
BY DEF GetDel, Codes!Next, Codes!Use

(* Every step issues, uses or drops one code, or leaves them alone.         *)
LEMMA CodesStep ==
  ASSUME TypeOK, Shape, [Next]_vars
  PROVE  Codes!Next \/ UNCHANGED codes
<1>1. CASE UNCHANGED vars
  BY <1>1 DEF vars, codes
<1>2. ASSUME NEW t \in Tab, NEW given \in BOOLEAN, StartOAuth(t, given)
      PROVE  Codes!Next \/ UNCHANGED codes
  <2>1. <<"flow", last + 1>> \in Code
    BY <1>2, Numbers DEF StartOAuth, NewAttempt, TypeOK, Code, Shape
  <2> QED
    BY <1>2, <2>1, KeySet DEF StartOAuth
<1>3. ASSUME NEW t \in Tab, NEW i \in Identity, ProviderReturns(t, i)
      PROVE  Codes!Next \/ UNCHANGED codes
  BY <1>3 DEF ProviderReturns, codes
<1>4. ASSUME NEW t \in Tab, ProviderDeclines(t)
      PROVE  Codes!Next \/ UNCHANGED codes
  <2>1. <<"flow", flowCookie[BrowserOf[t]]>> \in redis => <<"flow", flowCookie[BrowserOf[t]]>> \in Code
    BY DEF TypeOK
  <2> QED
    BY <1>4, <2>1, KeyUsed DEF ProviderDeclines, GetDel, codes
<1>5. ASSUME NEW t \in Tab, TakeVerifier(t)
      PROVE  Codes!Next \/ UNCHANGED codes
  <2>1. <<"flow", sent[t].flow>> \in redis => <<"flow", sent[t].flow>> \in Code
    BY DEF TypeOK
  <2> QED
    BY <1>5, <2>1, KeyUsed DEF TakeVerifier, GetDel, codes
<1>6. ASSUME NEW t \in Tab, NoVerifier(t)
      PROVE  Codes!Next \/ UNCHANGED codes
  BY <1>6 DEF NoVerifier, codes
<1>7. ASSUME NEW t \in Tab, ExchangeCode(t)
      PROVE  Codes!Next \/ UNCHANGED codes
  BY <1>7 DEF ExchangeCode, codes
<1>8. ASSUME NEW t \in Tab, ExchangeRefused(t)
      PROVE  Codes!Next \/ UNCHANGED codes
  BY <1>8 DEF ExchangeRefused, codes
<1>9. ASSUME NEW t \in Tab, StoreHandoff(t)
      PROVE  Codes!Next \/ UNCHANGED codes
  <2>1. <<"handoff", att[t]>> \in Code
    BY <1>9, Numbers DEF StoreHandoff, TypeOK, Code, Shape
  <2> QED
    BY <1>9, <2>1, KeySet DEF StoreHandoff
<1>10. ASSUME NEW t \in Tab, ExchangeHandoff(t)
       PROVE  Codes!Next \/ UNCHANGED codes
  <2>1. <<"handoff", att[t]>> \in redis => <<"handoff", att[t]>> \in Code
    BY DEF TypeOK
  <2> QED
    BY <1>10, <2>1, KeyUsed DEF ExchangeHandoff, GetDel, codes
<1>11. ASSUME NEW t \in Tab, ExchangeLost(t)
       PROVE  Codes!Next \/ UNCHANGED codes
  <2>1. <<"handoff", att[t]>> \in redis => <<"handoff", att[t]>> \in Code
    BY DEF TypeOK
  <2> QED
    BY <1>11, <2>1, KeyUsed DEF ExchangeLost, GetDel, codes
<1>12. ASSUME NEW t \in Tab, ExchangeUnknown(t)
       PROVE  Codes!Next \/ UNCHANGED codes
  BY <1>12 DEF ExchangeUnknown, codes
<1>13. ASSUME NEW t \in Tab, CallbackBreaks(t)
       PROVE  Codes!Next \/ UNCHANGED codes
  BY <1>13 DEF CallbackBreaks, codes
<1>14. ASSUME NEW t \in Tab, NEW i \in Identity, Login(t, i)
       PROVE  Codes!Next \/ UNCHANGED codes
  BY <1>14 DEF Login, codes
<1>15. ASSUME NEW t \in Tab, NEW i \in Identity, Register(t, i)
       PROVE  Codes!Next \/ UNCHANGED codes
  BY <1>15 DEF Register, codes
<1>16. ASSUME NEW t \in Tab, NEW session \in BOOLEAN, SignUp(t, session)
       PROVE  Codes!Next \/ UNCHANGED codes
  BY <1>16 DEF SignUp, codes
<1>17. ASSUME NEW t \in Tab, SignUpRefused(t)
       PROVE  Codes!Next \/ UNCHANGED codes
  BY <1>17 DEF SignUpRefused, codes
<1>18. ASSUME NEW t \in Tab, Answer(t)
       PROVE  Codes!Next \/ UNCHANGED codes
  BY <1>18 DEF Answer, codes
<1>19. ASSUME NEW t \in Tab, RequestBreaks(t)
       PROVE  Codes!Next \/ UNCHANGED codes
  BY <1>19 DEF RequestBreaks, codes
<1>20. ASSUME NEW t \in Tab, FindById(t)
       PROVE  Codes!Next \/ UNCHANGED codes
  BY <1>20 DEF FindById, codes
<1>21. ASSUME NEW t \in Tab, FindByEmail(t)
       PROVE  Codes!Next \/ UNCHANGED codes
  BY <1>21 DEF FindByEmail, codes
<1>22. ASSUME NEW t \in Tab, Relink(t)
       PROVE  Codes!Next \/ UNCHANGED codes
  BY <1>22 DEF Relink, codes
<1>23. ASSUME NEW t \in Tab, InsertUser(t)
       PROVE  Codes!Next \/ UNCHANGED codes
  BY <1>23 DEF InsertUser, codes
<1>24. ASSUME NEW t \in Tab, InsertUserFails(t)
       PROVE  Codes!Next \/ UNCHANGED codes
  BY <1>24 DEF InsertUserFails, codes
<1>25. ASSUME NEW t \in Tab, Refresh(t)
       PROVE  Codes!Next \/ UNCHANGED codes
  BY <1>25 DEF Refresh, codes
<1>26. ASSUME NEW t \in Tab, RefreshAnswer(t)
       PROVE  Codes!Next \/ UNCHANGED codes
  BY <1>26 DEF RefreshAnswer, codes
<1>27. ASSUME NEW t \in Tab, NEW fresh \in BOOLEAN, NEW reached \in BOOLEAN, Logout(t, fresh, reached)
       PROVE  Codes!Next \/ UNCHANGED codes
  BY <1>27 DEF Logout, codes
<1>28. ASSUME NEW t \in Tab, LogoutAnswer(t)
       PROVE  Codes!Next \/ UNCHANGED codes
  BY <1>28 DEF LogoutAnswer, codes
<1>29. ASSUME NEW t \in Tab, GiveUp(t)
       PROVE  Codes!Next \/ UNCHANGED codes
  BY <1>29 DEF GiveUp, codes
<1>30. ASSUME NEW b \in Browser, IssueTicket(b)
       PROVE  Codes!Next \/ UNCHANGED codes
  <2>1. <<"ticket", jar[b]>> \in Code
    BY <1>30, Numbers DEF IssueTicket, TypeOK, Code, Shape
  <2> QED
    BY <1>30, <2>1, KeySet DEF IssueTicket
<1>31. ASSUME NEW b \in Browser, CookieExpires(b)
       PROVE  Codes!Next \/ UNCHANGED codes
  BY <1>31 DEF CookieExpires, codes
<1>32. ASSUME NEW a \in Attempt, UseTicket(a)
       PROVE  Codes!Next \/ UNCHANGED codes
  <2>1. <<"ticket", a>> \in redis => <<"ticket", a>> \in Code
    BY DEF TypeOK
  <2> QED
    BY <1>32, <2>1, KeyUsed DEF UseTicket, GetDel, codes
<1>33. ASSUME NEW c \in Code, KeyExpires(c)
       PROVE  Codes!Next \/ UNCHANGED codes
  BY <1>33 DEF KeyExpires, Codes!Next, Codes!Lapse
<1> QED
  BY <1>1, <1>2, <1>3, <1>4, <1>5, <1>6, <1>7, <1>8, <1>9, <1>10,
     <1>11, <1>12, <1>13, <1>14, <1>15, <1>16, <1>17, <1>18, <1>19, <1>20,
     <1>21, <1>22, <1>23, <1>24, <1>25, <1>26, <1>27, <1>28, <1>29, <1>30,
     <1>31, <1>32, <1>33
     DEF Next, OAuth, Password, Provision, Session

-----------------------------------------------------------------------------
(* One lemma per conjunct of the invariant.                                *)

(* What is done with the codes keeps their types.                          *)
LEMMA CodesTyped ==
  ASSUME TypeOK, Codes!Next \/ UNCHANGED codes
  PROVE  redis' \subseteq issued' /\ issued' \subseteq Code /\ uses' \in [Code -> Nat]
BY DEF TypeOK, codes, Codes!Next, Codes!Issue, Codes!Use, Codes!Lapse

(* Types, by the part of the state.                                        *)
FlowTyped ==
  /\ requirePkce \in BOOLEAN
  /\ last \in 0..MaxAttempts
  /\ stage \in [Tab -> Stage]
  /\ att \in [Tab -> Attempt \cup {NoAttempt}]
  /\ sent \in [Tab -> [flow : Attempt \cup {NoAttempt}, challenge : Attempt \cup {NoAttempt}]]
  /\ pkce \subseteq Attempt
  /\ flowCookie \in [Browser -> Attempt \cup {NoAttempt}]
  /\ challenge \in [Browser -> Attempt \cup {NoAttempt}]
  /\ bound \in [Attempt -> Attempt \cup {NoAttempt}]

UsersTyped ==
  /\ who \in [Attempt -> Identity \cup {None}]
  /\ row \in [Email -> Identity \cup {None}]
  /\ known \subseteq Identity
  /\ jar \in [Browser -> Attempt \cup {NoAttempt}]
  /\ settled \subseteq Attempt /\ displaced \subseteq Attempt
  /\ alive \subseteq Attempt /\ loggedOut \subseteq Attempt
  /\ unrevoked \subseteq Attempt /\ overlapped \subseteq Attempt

RedisTyped == redis \subseteq issued /\ issued \subseteq Code /\ uses \in [Code -> Nat]

LEMMA TypeParts == TypeOK => FlowTyped /\ UsersTyped /\ RedisTyped /\ mishap \subseteq Attempt
BY DEF TypeOK, FlowTyped, UsersTyped, RedisTyped

LEMMA TypePartsNext ==
  FlowTyped' /\ UsersTyped' /\ RedisTyped' /\ mishap' \subseteq Attempt => TypeOK'
BY DEF TypeOK, FlowTyped, UsersTyped, RedisTyped

LEMMA WaitingTyped ==
  ASSUME Shape, TypeOK, NEW t \in Tab
  PROVE  Waiting(t) \subseteq Attempt /\ (stage[t] # "idle" => att[t] \in Attempt)
<1>1. \A v \in Tab : stage[v] # "idle" => att[v] \in Attempt
  BY Numbers DEF Shape, TypeOK
<1> QED
  BY <1>1 DEF Waiting

LEMMA FlowKept ==
  ASSUME TypeOK, Shape, [Next]_vars
  PROVE  FlowTyped'
<1>1. CASE UNCHANGED vars
  BY <1>1, TypeParts DEF vars, codes, cookies, users, sessions, tried, flow, FlowTyped,
     Stage, NoCookies
<1>2. ASSUME NEW t \in Tab, NEW given \in BOOLEAN, StartOAuth(t, given)
      PROVE  FlowTyped'
  BY <1>2, TypeParts, Numbers, BrowserAssumption DEF StartOAuth, Goto, NewAttempt, Free,
     users, sessions, tried, flow, FlowTyped, Stage, NoCookies
<1>3. ASSUME NEW t \in Tab, NEW i \in Identity, ProviderReturns(t, i)
      PROVE  FlowTyped'
  BY <1>3, TypeParts, Numbers, BrowserAssumption DEF ProviderReturns, Goto, cookies,
     users, sessions, tried, flow, FlowTyped, Stage, NoCookies
<1>4. ASSUME NEW t \in Tab, ProviderDeclines(t)
      PROVE  FlowTyped'
  BY <1>4, TypeParts, Numbers, BrowserAssumption DEF ProviderDeclines, EndCallback,
     FailCallback, Goto, users, sessions, tried, flow, FlowTyped, Stage, NoCookies
<1>5. ASSUME NEW t \in Tab, TakeVerifier(t)
      PROVE  FlowTyped'
  <2>1. /\ stage' \in [Tab -> Stage] /\ sent' \in [Tab -> [flow : Attempt \cup {NoAttempt}, challenge : Attempt \cup {NoAttempt}]]
        /\ flowCookie' \in [Browser -> Attempt \cup {NoAttempt}]
        /\ challenge' \in [Browser -> Attempt \cup {NoAttempt}]
    <3>1. CASE FailCallback(t, {sent[t].flow} \ {att[t]})
      BY <3>1, TypeParts, BrowserAssumption DEF FailCallback, EndCallback, Goto, FlowTyped,
         Stage, NoCookies
    <3>2. CASE Goto(t, "exchange") /\ UNCHANGED <<cookies, sent>>
      BY <3>2, TypeParts DEF Goto, cookies, FlowTyped, Stage
    <3> QED
      BY <1>5, <3>1, <3>2 DEF TakeVerifier
  <2> QED
    BY <1>5, <2>1, TypeParts DEF TakeVerifier, FlowTyped, tried
<1>6. ASSUME NEW t \in Tab, NoVerifier(t)
      PROVE  FlowTyped'
  BY <1>6, TypeParts, Numbers, BrowserAssumption DEF NoVerifier, EndCallback,
     FailCallback, Goto, users, sessions, tried, flow, FlowTyped, Stage, NoCookies
<1>7. ASSUME NEW t \in Tab, ExchangeCode(t)
      PROVE  FlowTyped'
  BY <1>7, TypeParts, Numbers, BrowserAssumption DEF ExchangeCode, Goto, cookies, users,
     tried, flow, FlowTyped, Stage, NoCookies
<1>8. ASSUME NEW t \in Tab, ExchangeRefused(t)
      PROVE  FlowTyped'
  BY <1>8, TypeParts, Numbers, BrowserAssumption DEF ExchangeRefused, EndCallback,
     FailCallback, Goto, users, sessions, tried, flow, FlowTyped, Stage, NoCookies
<1>9. ASSUME NEW t \in Tab, StoreHandoff(t)
      PROVE  FlowTyped'
  BY <1>9, TypeParts, Numbers, BrowserAssumption DEF StoreHandoff, EndCallback, Goto,
     users, sessions, tried, flow, FlowTyped, Stage, NoCookies
<1>10. ASSUME NEW t \in Tab, ExchangeHandoff(t)
       PROVE  FlowTyped'
  BY <1>10, TypeParts, Numbers, BrowserAssumption DEF ExchangeHandoff, Goto, Rest,
     SetSession, cookies, users, tried, flow, FlowTyped, Stage, NoCookies
<1>11. ASSUME NEW t \in Tab, ExchangeLost(t)
       PROVE  FlowTyped'
  BY <1>11, TypeParts, Numbers, BrowserAssumption DEF ExchangeLost, cookies, users,
     sessions, tried, flow, FlowTyped, Stage, NoCookies
<1>12. ASSUME NEW t \in Tab, ExchangeUnknown(t)
       PROVE  FlowTyped'
  BY <1>12, TypeParts, Numbers, BrowserAssumption DEF ExchangeUnknown, Goto, cookies,
     users, sessions, tried, flow, FlowTyped, Stage, NoCookies
<1>13. ASSUME NEW t \in Tab, CallbackBreaks(t)
       PROVE  FlowTyped'
  BY <1>13, TypeParts, Numbers, BrowserAssumption DEF CallbackBreaks, EndCallback,
     FailCallback, Goto, users, sessions, tried, flow, FlowTyped, Stage, NoCookies
<1>14. ASSUME NEW t \in Tab, NEW i \in Identity, Login(t, i)
       PROVE  FlowTyped'
  BY <1>14, TypeParts, Numbers, BrowserAssumption DEF Login, Goto, NewAttempt, Free,
     cookies, users, tried, flow, FlowTyped, Stage, NoCookies
<1>15. ASSUME NEW t \in Tab, NEW i \in Identity, Register(t, i)
       PROVE  FlowTyped'
  BY <1>15, TypeParts, Numbers, BrowserAssumption DEF Register, Goto, NewAttempt, Free,
     cookies, users, sessions, tried, flow, FlowTyped, Stage, NoCookies
<1>16. ASSUME NEW t \in Tab, NEW session \in BOOLEAN, SignUp(t, session)
       PROVE  FlowTyped'
  BY <1>16, TypeParts, Numbers, BrowserAssumption DEF SignUp, Goto, cookies, users,
     tried, flow, FlowTyped, Stage, NoCookies
<1>17. ASSUME NEW t \in Tab, SignUpRefused(t)
       PROVE  FlowTyped'
  BY <1>17, TypeParts, Numbers, BrowserAssumption DEF SignUpRefused, Goto, Rest, cookies,
     users, sessions, tried, flow, FlowTyped, Stage, NoCookies
<1>18. ASSUME NEW t \in Tab, Answer(t)
       PROVE  FlowTyped'
  BY <1>18, TypeParts, Numbers, BrowserAssumption DEF Answer, Goto, Rest, SetSession,
     cookies, users, tried, flow, FlowTyped, Stage, NoCookies
<1>19. ASSUME NEW t \in Tab, RequestBreaks(t)
       PROVE  FlowTyped'
  BY <1>19, TypeParts, Numbers, BrowserAssumption DEF RequestBreaks, Goto, cookies,
     users, sessions, tried, flow, FlowTyped, Stage, NoCookies
<1>20. ASSUME NEW t \in Tab, FindById(t)
       PROVE  FlowTyped'
  BY <1>20, TypeParts, Numbers, BrowserAssumption DEF FindById, Goto, Settle, cookies,
     sessions, tried, flow, FlowTyped, Stage, NoCookies
<1>21. ASSUME NEW t \in Tab, FindByEmail(t)
       PROVE  FlowTyped'
  BY <1>21, TypeParts, Numbers, BrowserAssumption DEF FindByEmail, Goto, Settle, cookies,
     sessions, tried, flow, FlowTyped, Stage, NoCookies
<1>22. ASSUME NEW t \in Tab, Relink(t)
       PROVE  FlowTyped'
  BY <1>22, TypeParts, Numbers, BrowserAssumption DEF Relink, Goto, Settle, cookies,
     sessions, tried, flow, FlowTyped, Stage, NoCookies
<1>23. ASSUME NEW t \in Tab, InsertUser(t)
       PROVE  FlowTyped'
  BY <1>23, TypeParts, Numbers, BrowserAssumption DEF InsertUser, Goto, Settle, cookies,
     sessions, tried, flow, FlowTyped, Stage, NoCookies
<1>24. ASSUME NEW t \in Tab, InsertUserFails(t)
       PROVE  FlowTyped'
  <2>1. /\ stage' \in [Tab -> Stage] /\ sent' \in [Tab -> [flow : Attempt \cup {NoAttempt}, challenge : Attempt \cup {NoAttempt}]]
        /\ flowCookie' \in [Browser -> Attempt \cup {NoAttempt}]
        /\ challenge' \in [Browser -> Attempt \cup {NoAttempt}]
    <3>1. CASE FailCallback(t, {})
      BY <3>1, TypeParts, BrowserAssumption DEF FailCallback, EndCallback, Goto, FlowTyped,
         Stage, NoCookies
    <3>2. CASE Goto(t, "failed") /\ UNCHANGED <<mishap, cookies, sent>>
      BY <3>2, TypeParts DEF Goto, cookies, FlowTyped, Stage
    <3> QED
      BY <1>24, <3>1, <3>2 DEF InsertUserFails
  <2> QED
    BY <1>24, <2>1, TypeParts DEF InsertUserFails, FlowTyped, tried
<1>25. ASSUME NEW t \in Tab, Refresh(t)
       PROVE  FlowTyped'
  BY <1>25, TypeParts, Numbers, BrowserAssumption DEF Refresh, Goto, Free, cookies,
     users, sessions, tried, flow, FlowTyped, Stage, NoCookies, UsersTyped
<1>26. ASSUME NEW t \in Tab, RefreshAnswer(t)
       PROVE  FlowTyped'
  BY <1>26, TypeParts, Numbers, BrowserAssumption DEF RefreshAnswer, Goto, Rest,
     SetSession, cookies, users, tried, flow, FlowTyped, Stage, NoCookies
<1>27. ASSUME NEW t \in Tab, NEW fresh \in BOOLEAN, NEW reached \in BOOLEAN, Logout(t, fresh, reached)
       PROVE  FlowTyped'
  BY <1>27, TypeParts, Numbers, BrowserAssumption DEF Logout, Goto, Free, cookies, users,
     tried, flow, FlowTyped, Stage, NoCookies, UsersTyped
<1>28. ASSUME NEW t \in Tab, LogoutAnswer(t)
       PROVE  FlowTyped'
  BY <1>28, TypeParts, Numbers, BrowserAssumption DEF LogoutAnswer, Goto, Rest,
     ClearSession, cookies, users, tried, flow, FlowTyped, Stage, NoCookies
<1>29. ASSUME NEW t \in Tab, GiveUp(t)
       PROVE  FlowTyped'
  BY <1>29, TypeParts, Numbers, BrowserAssumption DEF GiveUp, Goto, Rest, cookies, users,
     sessions, tried, flow, FlowTyped, Stage, NoCookies
<1>30. ASSUME NEW b \in Browser, IssueTicket(b)
       PROVE  FlowTyped'
  BY <1>30, TypeParts, Numbers, BrowserAssumption DEF IssueTicket, cookies, users,
     sessions, tried, flow, FlowTyped, Stage, NoCookies
<1>31. ASSUME NEW b \in Browser, CookieExpires(b)
       PROVE  FlowTyped'
  BY <1>31, TypeParts, Numbers, BrowserAssumption DEF CookieExpires, users, sessions,
     tried, flow, FlowTyped, Stage, NoCookies
<1>32. ASSUME NEW a \in Attempt, UseTicket(a)
       PROVE  FlowTyped'
  BY <1>32, TypeParts, Numbers, BrowserAssumption DEF UseTicket, cookies, users,
     sessions, tried, flow, FlowTyped, Stage, NoCookies
<1>33. ASSUME NEW c \in Code, KeyExpires(c)
       PROVE  FlowTyped'
  BY <1>33, TypeParts, Numbers, BrowserAssumption DEF KeyExpires, cookies, users,
     sessions, tried, flow, FlowTyped, Stage, NoCookies
<1> QED
  BY <1>1, <1>2, <1>3, <1>4, <1>5, <1>6, <1>7, <1>8, <1>9, <1>10,
     <1>11, <1>12, <1>13, <1>14, <1>15, <1>16, <1>17, <1>18, <1>19, <1>20,
     <1>21, <1>22, <1>23, <1>24, <1>25, <1>26, <1>27, <1>28, <1>29, <1>30,
     <1>31, <1>32, <1>33
     DEF Next, OAuth, Password, Provision, Session

LEMMA UsersKept ==
  ASSUME TypeOK, Shape, Settled, [Next]_vars
  PROVE  UsersTyped'
<1>1. CASE UNCHANGED vars
  BY <1>1, TypeParts DEF vars, codes, cookies, users, sessions, tried, flow, UsersTyped
<1>2. ASSUME NEW t \in Tab, NEW given \in BOOLEAN, StartOAuth(t, given)
      PROVE  UsersTyped'
  BY <1>2, TypeParts, Numbers, WaitingTyped, BrowserAssumption, EmailAssumption DEF
     StartOAuth, Goto, NewAttempt, Free, users, sessions, tried, flow, UsersTyped
<1>3. ASSUME NEW t \in Tab, NEW i \in Identity, ProviderReturns(t, i)
      PROVE  UsersTyped'
  BY <1>3, TypeParts, Numbers, WaitingTyped, BrowserAssumption, EmailAssumption DEF
     ProviderReturns, Goto, cookies, users, sessions, tried, flow, UsersTyped
<1>4. ASSUME NEW t \in Tab, ProviderDeclines(t)
      PROVE  UsersTyped'
  BY <1>4, TypeParts, Numbers, WaitingTyped, BrowserAssumption, EmailAssumption DEF
     ProviderDeclines, EndCallback, FailCallback, Goto, users, sessions, tried, flow,
     UsersTyped
<1>5. ASSUME NEW t \in Tab, TakeVerifier(t)
      PROVE  UsersTyped'
  BY <1>5, TypeParts, Numbers, WaitingTyped, BrowserAssumption, EmailAssumption DEF
     TakeVerifier, EndCallback, FailCallback, Goto, cookies, users, sessions, tried,
     flow, UsersTyped
<1>6. ASSUME NEW t \in Tab, NoVerifier(t)
      PROVE  UsersTyped'
  BY <1>6, TypeParts, Numbers, WaitingTyped, BrowserAssumption, EmailAssumption DEF
     NoVerifier, EndCallback, FailCallback, Goto, users, sessions, tried, flow,
     UsersTyped
<1>7. ASSUME NEW t \in Tab, ExchangeCode(t)
      PROVE  UsersTyped'
  BY <1>7, TypeParts, Numbers, WaitingTyped, BrowserAssumption, EmailAssumption DEF
     ExchangeCode, Goto, cookies, users, tried, flow, UsersTyped
<1>8. ASSUME NEW t \in Tab, ExchangeRefused(t)
      PROVE  UsersTyped'
  BY <1>8, TypeParts, Numbers, WaitingTyped, BrowserAssumption, EmailAssumption DEF
     ExchangeRefused, EndCallback, FailCallback, Goto, users, sessions, tried, flow,
     UsersTyped
<1>9. ASSUME NEW t \in Tab, StoreHandoff(t)
      PROVE  UsersTyped'
  BY <1>9, TypeParts, Numbers, WaitingTyped, BrowserAssumption, EmailAssumption DEF
     StoreHandoff, EndCallback, Goto, users, sessions, UsersTyped
<1>10. ASSUME NEW t \in Tab, ExchangeHandoff(t)
       PROVE  UsersTyped'
  BY <1>10, TypeParts, Numbers, WaitingTyped, BrowserAssumption, EmailAssumption DEF
     ExchangeHandoff, Goto, Rest, SetSession, cookies, users, tried, flow, UsersTyped
<1>11. ASSUME NEW t \in Tab, ExchangeLost(t)
       PROVE  UsersTyped'
  BY <1>11, TypeParts, Numbers, WaitingTyped, BrowserAssumption, EmailAssumption DEF
     ExchangeLost, cookies, users, sessions, tried, flow, UsersTyped
<1>12. ASSUME NEW t \in Tab, ExchangeUnknown(t)
       PROVE  UsersTyped'
  BY <1>12, TypeParts, Numbers, WaitingTyped, BrowserAssumption, EmailAssumption DEF
     ExchangeUnknown, Goto, cookies, users, sessions, tried, flow, UsersTyped
<1>13. ASSUME NEW t \in Tab, CallbackBreaks(t)
       PROVE  UsersTyped'
  BY <1>13, TypeParts, Numbers, WaitingTyped, BrowserAssumption, EmailAssumption DEF
     CallbackBreaks, EndCallback, FailCallback, Goto, users, sessions, tried, UsersTyped
<1>14. ASSUME NEW t \in Tab, NEW i \in Identity, Login(t, i)
       PROVE  UsersTyped'
  BY <1>14, TypeParts, Numbers, WaitingTyped, BrowserAssumption, EmailAssumption DEF
     Login, Goto, NewAttempt, Free, cookies, users, tried, flow, UsersTyped, FlowTyped
<1>15. ASSUME NEW t \in Tab, NEW i \in Identity, Register(t, i)
       PROVE  UsersTyped'
  BY <1>15, TypeParts, Numbers, WaitingTyped, BrowserAssumption, EmailAssumption DEF
     Register, Goto, NewAttempt, Free, cookies, users, sessions, UsersTyped
<1>16. ASSUME NEW t \in Tab, NEW session \in BOOLEAN, SignUp(t, session)
       PROVE  UsersTyped'
  <2>1. who[att[t]] \in Identity /\ att[t] \in Attempt
    BY <1>16, WaitingTyped DEF SignUp, Settled, Named, Stage
  <2> QED
    BY <1>16, <2>1, TypeParts DEF SignUp, UsersTyped, users
<1>17. ASSUME NEW t \in Tab, SignUpRefused(t)
       PROVE  UsersTyped'
  BY <1>17, TypeParts, Numbers, WaitingTyped, BrowserAssumption, EmailAssumption DEF
     SignUpRefused, Goto, Rest, cookies, users, sessions, tried, flow, UsersTyped
<1>18. ASSUME NEW t \in Tab, Answer(t)
       PROVE  UsersTyped'
  BY <1>18, TypeParts, Numbers, WaitingTyped, BrowserAssumption, EmailAssumption DEF
     Answer, Goto, Rest, SetSession, cookies, users, tried, flow, UsersTyped
<1>19. ASSUME NEW t \in Tab, RequestBreaks(t)
       PROVE  UsersTyped'
  BY <1>19, TypeParts, Numbers, WaitingTyped, BrowserAssumption, EmailAssumption DEF
     RequestBreaks, Goto, cookies, users, sessions, tried, flow, UsersTyped
<1>20. ASSUME NEW t \in Tab, FindById(t)
       PROVE  UsersTyped'
  BY <1>20, TypeParts, Numbers, WaitingTyped, BrowserAssumption, EmailAssumption DEF
     FindById, Goto, Settle, cookies, sessions, tried, flow, UsersTyped, Mail
<1>21. ASSUME NEW t \in Tab, FindByEmail(t)
       PROVE  UsersTyped'
  BY <1>21, TypeParts, Numbers, WaitingTyped, BrowserAssumption, EmailAssumption DEF
     FindByEmail, Goto, Settle, cookies, sessions, tried, flow, UsersTyped, Mail
<1>22. ASSUME NEW t \in Tab, Relink(t)
       PROVE  UsersTyped'
  BY <1>22, TypeParts, Numbers, WaitingTyped, BrowserAssumption, EmailAssumption DEF
     Relink, Goto, Settle, cookies, sessions, tried, flow, UsersTyped, Mail
<1>23. ASSUME NEW t \in Tab, InsertUser(t)
       PROVE  UsersTyped'
  BY <1>23, TypeParts, Numbers, WaitingTyped, BrowserAssumption, EmailAssumption DEF
     InsertUser, Goto, Settle, cookies, sessions, tried, flow, UsersTyped, Mail
<1>24. ASSUME NEW t \in Tab, InsertUserFails(t)
       PROVE  UsersTyped'
  BY <1>24, TypeParts, Numbers, WaitingTyped, BrowserAssumption, EmailAssumption DEF
     InsertUserFails, EndCallback, FailCallback, Goto, cookies, users, sessions, tried,
     UsersTyped, Mail
<1>25. ASSUME NEW t \in Tab, Refresh(t)
       PROVE  UsersTyped'
  BY <1>25, TypeParts, Numbers, WaitingTyped, BrowserAssumption, EmailAssumption DEF
     Refresh, Goto, Free, cookies, users, sessions, tried, flow, UsersTyped
<1>26. ASSUME NEW t \in Tab, RefreshAnswer(t)
       PROVE  UsersTyped'
  BY <1>26, TypeParts, Numbers, WaitingTyped, BrowserAssumption, EmailAssumption DEF
     RefreshAnswer, Goto, Rest, SetSession, cookies, users, tried, flow, UsersTyped
<1>27. ASSUME NEW t \in Tab, NEW fresh \in BOOLEAN, NEW reached \in BOOLEAN, Logout(t, fresh, reached)
       PROVE  UsersTyped'
  BY <1>27, TypeParts, Numbers, WaitingTyped, BrowserAssumption, EmailAssumption DEF
     Logout, Goto, Free, cookies, users, tried, flow, UsersTyped
<1>28. ASSUME NEW t \in Tab, LogoutAnswer(t)
       PROVE  UsersTyped'
  BY <1>28, TypeParts, Numbers, WaitingTyped, BrowserAssumption, EmailAssumption DEF
     LogoutAnswer, Goto, Rest, ClearSession, cookies, users, tried, flow, UsersTyped
<1>29. ASSUME NEW t \in Tab, GiveUp(t)
       PROVE  UsersTyped'
  BY <1>29, TypeParts, Numbers, WaitingTyped, BrowserAssumption, EmailAssumption DEF
     GiveUp, Goto, Rest, cookies, users, sessions, tried, flow, UsersTyped
<1>30. ASSUME NEW b \in Browser, IssueTicket(b)
       PROVE  UsersTyped'
  BY <1>30, TypeParts, Numbers, WaitingTyped, BrowserAssumption, EmailAssumption DEF
     IssueTicket, cookies, users, sessions, tried, flow, UsersTyped
<1>31. ASSUME NEW b \in Browser, CookieExpires(b)
       PROVE  UsersTyped'
  BY <1>31, TypeParts, Numbers, WaitingTyped, BrowserAssumption, EmailAssumption DEF
     CookieExpires, users, sessions, tried, flow, UsersTyped
<1>32. ASSUME NEW a \in Attempt, UseTicket(a)
       PROVE  UsersTyped'
  BY <1>32, TypeParts, Numbers, WaitingTyped, BrowserAssumption, EmailAssumption DEF
     UseTicket, cookies, users, sessions, tried, flow, UsersTyped
<1>33. ASSUME NEW c \in Code, KeyExpires(c)
       PROVE  UsersTyped'
  BY <1>33, TypeParts, Numbers, WaitingTyped, BrowserAssumption, EmailAssumption DEF
     KeyExpires, cookies, users, sessions, tried, flow, UsersTyped
<1> QED
  BY <1>1, <1>2, <1>3, <1>4, <1>5, <1>6, <1>7, <1>8, <1>9, <1>10,
     <1>11, <1>12, <1>13, <1>14, <1>15, <1>16, <1>17, <1>18, <1>19, <1>20,
     <1>21, <1>22, <1>23, <1>24, <1>25, <1>26, <1>27, <1>28, <1>29, <1>30,
     <1>31, <1>32, <1>33
     DEF Next, OAuth, Password, Provision, Session

LEMMA MishapKept ==
  ASSUME TypeOK, Shape, [Next]_vars
  PROVE  mishap' \subseteq Attempt
<1>1. CASE UNCHANGED vars
  BY <1>1, TypeParts DEF vars, codes, cookies, users, sessions, tried, flow
<1>2. ASSUME NEW t \in Tab, NEW given \in BOOLEAN, StartOAuth(t, given)
      PROVE  mishap' \subseteq Attempt
  BY <1>2, TypeParts, Numbers, WaitingTyped, BrowserAssumption DEF StartOAuth,
     NewAttempt, FlowTyped
<1>3. ASSUME NEW t \in Tab, NEW i \in Identity, ProviderReturns(t, i)
      PROVE  mishap' \subseteq Attempt
  BY <1>3, TypeParts, Numbers, WaitingTyped, BrowserAssumption DEF ProviderReturns,
     FlowTyped
<1>4. ASSUME NEW t \in Tab, ProviderDeclines(t)
      PROVE  mishap' \subseteq Attempt
  BY <1>4, TypeParts, Numbers, WaitingTyped, BrowserAssumption DEF ProviderDeclines,
     EndCallback, FailCallback, FlowTyped
<1>5. ASSUME NEW t \in Tab, TakeVerifier(t)
      PROVE  mishap' \subseteq Attempt
  <2>1. sent[t].flow \in Attempt \cup {NoAttempt} /\ (sent[t].flow \in Attempt \/ sent[t].flow = NoAttempt)
    BY TypeParts DEF FlowTyped
  <2>2. <<"flow", sent[t].flow>> \in Code
    BY <1>5 DEF TakeVerifier, GetDel, TypeOK
  <2>3. sent[t].flow \in Attempt
    BY <2>2 DEF Code
  <2>4. mishap' \subseteq mishap \cup {sent[t].flow} \cup Waiting(t)
    BY <1>5 DEF TakeVerifier, FailCallback
  <2> QED
    BY <2>3, <2>4, TypeParts, WaitingTyped
<1>6. ASSUME NEW t \in Tab, NoVerifier(t)
      PROVE  mishap' \subseteq Attempt
  BY <1>6, TypeParts, Numbers, WaitingTyped, BrowserAssumption DEF NoVerifier,
     EndCallback, FailCallback, FlowTyped
<1>7. ASSUME NEW t \in Tab, ExchangeCode(t)
      PROVE  mishap' \subseteq Attempt
  BY <1>7, TypeParts, Numbers, WaitingTyped, BrowserAssumption DEF ExchangeCode,
     FlowTyped
<1>8. ASSUME NEW t \in Tab, ExchangeRefused(t)
      PROVE  mishap' \subseteq Attempt
  BY <1>8, TypeParts, Numbers, WaitingTyped, BrowserAssumption DEF ExchangeRefused,
     EndCallback, FailCallback, FlowTyped
<1>9. ASSUME NEW t \in Tab, StoreHandoff(t)
      PROVE  mishap' \subseteq Attempt
  BY <1>9, TypeParts, Numbers, WaitingTyped, BrowserAssumption DEF StoreHandoff,
     EndCallback, FlowTyped
<1>10. ASSUME NEW t \in Tab, ExchangeHandoff(t)
       PROVE  mishap' \subseteq Attempt
  BY <1>10, TypeParts, Numbers, WaitingTyped, BrowserAssumption DEF ExchangeHandoff,
     FlowTyped
<1>11. ASSUME NEW t \in Tab, ExchangeLost(t)
       PROVE  mishap' \subseteq Attempt
  BY <1>11, TypeParts, Numbers, WaitingTyped, BrowserAssumption DEF ExchangeLost,
     FlowTyped
<1>12. ASSUME NEW t \in Tab, ExchangeUnknown(t)
       PROVE  mishap' \subseteq Attempt
  BY <1>12, TypeParts, Numbers, WaitingTyped, BrowserAssumption DEF ExchangeUnknown,
     FlowTyped
<1>13. ASSUME NEW t \in Tab, CallbackBreaks(t)
       PROVE  mishap' \subseteq Attempt
  BY <1>13, TypeParts, Numbers, WaitingTyped, BrowserAssumption DEF CallbackBreaks,
     EndCallback, FailCallback, FlowTyped
<1>14. ASSUME NEW t \in Tab, NEW i \in Identity, Login(t, i)
       PROVE  mishap' \subseteq Attempt
  BY <1>14, TypeParts, Numbers, WaitingTyped, BrowserAssumption DEF Login, NewAttempt,
     FlowTyped
<1>15. ASSUME NEW t \in Tab, NEW i \in Identity, Register(t, i)
       PROVE  mishap' \subseteq Attempt
  BY <1>15, TypeParts, Numbers, WaitingTyped, BrowserAssumption DEF Register, NewAttempt,
     FlowTyped
<1>16. ASSUME NEW t \in Tab, NEW session \in BOOLEAN, SignUp(t, session)
       PROVE  mishap' \subseteq Attempt
  BY <1>16, TypeParts, Numbers, WaitingTyped, BrowserAssumption DEF SignUp, FlowTyped
<1>17. ASSUME NEW t \in Tab, SignUpRefused(t)
       PROVE  mishap' \subseteq Attempt
  BY <1>17, TypeParts, Numbers, WaitingTyped, BrowserAssumption DEF SignUpRefused,
     FlowTyped
<1>18. ASSUME NEW t \in Tab, Answer(t)
       PROVE  mishap' \subseteq Attempt
  BY <1>18, TypeParts, Numbers, WaitingTyped, BrowserAssumption DEF Answer, FlowTyped
<1>19. ASSUME NEW t \in Tab, RequestBreaks(t)
       PROVE  mishap' \subseteq Attempt
  BY <1>19, TypeParts, Numbers, WaitingTyped, BrowserAssumption DEF RequestBreaks,
     FlowTyped
<1>20. ASSUME NEW t \in Tab, FindById(t)
       PROVE  mishap' \subseteq Attempt
  BY <1>20, TypeParts, Numbers, WaitingTyped, BrowserAssumption DEF FindById, FlowTyped
<1>21. ASSUME NEW t \in Tab, FindByEmail(t)
       PROVE  mishap' \subseteq Attempt
  BY <1>21, TypeParts, Numbers, WaitingTyped, BrowserAssumption DEF FindByEmail,
     FlowTyped
<1>22. ASSUME NEW t \in Tab, Relink(t)
       PROVE  mishap' \subseteq Attempt
  BY <1>22, TypeParts, Numbers, WaitingTyped, BrowserAssumption DEF Relink, FlowTyped
<1>23. ASSUME NEW t \in Tab, InsertUser(t)
       PROVE  mishap' \subseteq Attempt
  BY <1>23, TypeParts, Numbers, WaitingTyped, BrowserAssumption DEF InsertUser, FlowTyped
<1>24. ASSUME NEW t \in Tab, InsertUserFails(t)
       PROVE  mishap' \subseteq Attempt
  BY <1>24, TypeParts, Numbers, WaitingTyped, BrowserAssumption DEF InsertUserFails,
     EndCallback, FailCallback, FlowTyped
<1>25. ASSUME NEW t \in Tab, Refresh(t)
       PROVE  mishap' \subseteq Attempt
  BY <1>25, TypeParts, Numbers, WaitingTyped, BrowserAssumption DEF Refresh, FlowTyped
<1>26. ASSUME NEW t \in Tab, RefreshAnswer(t)
       PROVE  mishap' \subseteq Attempt
  BY <1>26, TypeParts, Numbers, WaitingTyped, BrowserAssumption DEF RefreshAnswer,
     FlowTyped
<1>27. ASSUME NEW t \in Tab, NEW fresh \in BOOLEAN, NEW reached \in BOOLEAN, Logout(t, fresh, reached)
       PROVE  mishap' \subseteq Attempt
  BY <1>27, TypeParts, Numbers, WaitingTyped, BrowserAssumption DEF Logout, FlowTyped
<1>28. ASSUME NEW t \in Tab, LogoutAnswer(t)
       PROVE  mishap' \subseteq Attempt
  BY <1>28, TypeParts, Numbers, WaitingTyped, BrowserAssumption DEF LogoutAnswer,
     FlowTyped
<1>29. ASSUME NEW t \in Tab, GiveUp(t)
       PROVE  mishap' \subseteq Attempt
  BY <1>29, TypeParts, Numbers, WaitingTyped, BrowserAssumption DEF GiveUp, FlowTyped
<1>30. ASSUME NEW b \in Browser, IssueTicket(b)
       PROVE  mishap' \subseteq Attempt
  BY <1>30, TypeParts, Numbers, WaitingTyped, BrowserAssumption DEF IssueTicket,
     FlowTyped
<1>31. ASSUME NEW b \in Browser, CookieExpires(b)
       PROVE  mishap' \subseteq Attempt
  BY <1>31, TypeParts, Numbers, WaitingTyped, BrowserAssumption DEF CookieExpires,
     FlowTyped
<1>32. ASSUME NEW a \in Attempt, UseTicket(a)
       PROVE  mishap' \subseteq Attempt
  BY <1>32, TypeParts, Numbers, WaitingTyped, BrowserAssumption DEF UseTicket, FlowTyped
<1>33. ASSUME NEW c \in Code, KeyExpires(c)
       PROVE  mishap' \subseteq Attempt
  <2>1. c[2] \in Attempt
    BY DEF Code
  <2> QED
    BY <1>33, <2>1, TypeParts DEF KeyExpires
<1> QED
  BY <1>1, <1>2, <1>3, <1>4, <1>5, <1>6, <1>7, <1>8, <1>9, <1>10,
     <1>11, <1>12, <1>13, <1>14, <1>15, <1>16, <1>17, <1>18, <1>19, <1>20,
     <1>21, <1>22, <1>23, <1>24, <1>25, <1>26, <1>27, <1>28, <1>29, <1>30,
     <1>31, <1>32, <1>33
     DEF Next, OAuth, Password, Provision, Session

LEMMA TypeKept ==
  ASSUME TypeOK, Shape, Settled, [Next]_vars
  PROVE  TypeOK'
<1>1. RedisTyped'
  BY CodesStep, CodesTyped DEF RedisTyped
<1> QED
  BY <1>1, FlowKept, UsersKept, MishapKept, TypePartsNext

LEMMA ShapeKept ==
  ASSUME TypeOK, Shape, [Next]_vars
  PROVE  Shape'
<1>1. CASE UNCHANGED vars
  BY <1>1 DEF vars, codes, cookies, users, sessions, tried, flow, TypeOK, Shape
<1>2. ASSUME NEW t \in Tab, NEW given \in BOOLEAN, StartOAuth(t, given)
      PROVE  Shape'
  <2>1. /\ last' = last + 1 /\ last + 1 \in 1..(last + 1) /\ last \in Nat
        /\ \A n \in 1..last : n \in 1..(last + 1)
    BY <1>2 DEF StartOAuth, NewAttempt, TypeOK
  <2>2. att'[t] = last + 1 /\ stage'[t] # "idle"
        /\ \A u \in Tab \ {t} : att'[u] = att[u] /\ stage'[u] = stage[u]
    BY <1>2 DEF StartOAuth, NewAttempt, TypeOK, Goto
  <2>3. alive' \cup settled' \cup loggedOut' \subseteq 1..(last + 1)
    BY <1>2, <2>1 DEF StartOAuth, Shape, users, sessions
  <2>4. \A b \in Browser : jar'[b] = jar[b] /\ jar[b] \in Nat
    BY <1>2, AttemptNumbers DEF StartOAuth, sessions, TypeOK
  <2>5. \A c \in issued' : c \in issued \/ c[2] = last + 1
    BY <1>2 DEF StartOAuth, SetKey, codes
  <2>6. \A c \in issued : c[2] \in Nat
    BY Numbers DEF TypeOK, Code
  <2> QED
    BY <2>1, <2>2, <2>3, <2>4, <2>5, <2>6 DEF Shape
<1>3. ASSUME NEW t \in Tab, NEW i \in Identity, ProviderReturns(t, i)
      PROVE  Shape'
  BY <1>3, Numbers, BrowserAssumption DEF ProviderReturns, Goto, codes, cookies, users,
     sessions, tried, flow, TypeOK, Shape
<1>4. ASSUME NEW t \in Tab, ProviderDeclines(t)
      PROVE  Shape'
  BY <1>4, Numbers, BrowserAssumption DEF ProviderDeclines, GetDel, EndCallback,
     FailCallback, Goto, codes, users, sessions, tried, flow, TypeOK, Shape
<1>5. ASSUME NEW t \in Tab, TakeVerifier(t)
      PROVE  Shape'
  BY <1>5, Numbers, BrowserAssumption DEF TakeVerifier, GetDel, EndCallback,
     FailCallback, Goto, cookies, users, sessions, tried, flow, TypeOK, Shape
<1>6. ASSUME NEW t \in Tab, NoVerifier(t)
      PROVE  Shape'
  BY <1>6, Numbers, BrowserAssumption DEF NoVerifier, EndCallback, FailCallback, Goto,
     codes, users, sessions, tried, flow, TypeOK, Shape
<1>7. ASSUME NEW t \in Tab, ExchangeCode(t)
      PROVE  Shape'
  BY <1>7, Numbers, BrowserAssumption DEF ExchangeCode, Goto, codes, cookies, users,
     tried, flow, TypeOK, Shape
<1>8. ASSUME NEW t \in Tab, ExchangeRefused(t)
      PROVE  Shape'
  BY <1>8, Numbers, BrowserAssumption DEF ExchangeRefused, EndCallback, FailCallback,
     Goto, codes, users, sessions, tried, flow, TypeOK, Shape
<1>9. ASSUME NEW t \in Tab, StoreHandoff(t)
      PROVE  Shape'
  BY <1>9, Numbers, BrowserAssumption DEF StoreHandoff, SetKey, EndCallback, Goto, users,
     sessions, tried, flow, TypeOK, Shape
<1>10. ASSUME NEW t \in Tab, ExchangeHandoff(t)
       PROVE  Shape'
  <2>1. CASE Proves(att[t])
    <3>1. /\ att' = [att EXCEPT ![t] = NoAttempt]
          /\ stage' = [stage EXCEPT ![t] = "idle"]
          /\ jar' = [jar EXCEPT ![BrowserOf[t]] = att[t]]
      BY <1>10, <2>1 DEF ExchangeHandoff, Rest, Goto, SetSession
    <3>2. /\ alive' = alive /\ settled' = settled /\ loggedOut' = loggedOut
          /\ last' = last /\ issued' = issued
      BY <1>10 DEF ExchangeHandoff, GetDel, users, flow, tried
    <3>3. att[t] \in 1..last
      BY <1>10 DEF ExchangeHandoff, Shape
    <3>4. att[t] <= last
      BY <3>3, Numbers
    <3>5. \A b \in Browser : jar'[b] <= last
      BY <3>1, <3>4 DEF Shape, TypeOK
    <3>6. \A u \in Tab :
            IF stage'[u] = "idle" THEN att'[u] = NoAttempt ELSE att'[u] \in 1..last
      BY <3>1 DEF Shape, TypeOK
    <3> QED
      BY <3>2, <3>5, <3>6 DEF Shape
  <2>2. CASE ~Proves(att[t])
    BY <1>10, <2>2, Numbers, BrowserAssumption DEF ExchangeHandoff, GetDel, Goto, Rest,
       SetSession, users, flow, tried, TypeOK, Shape
  <2> QED
    BY <2>1, <2>2
<1>11. ASSUME NEW t \in Tab, ExchangeLost(t)
       PROVE  Shape'
  BY <1>11, Numbers, BrowserAssumption DEF ExchangeLost, GetDel, cookies, users,
     sessions, tried, flow, TypeOK, Shape
<1>12. ASSUME NEW t \in Tab, ExchangeUnknown(t)
       PROVE  Shape'
  BY <1>12, Numbers, BrowserAssumption DEF ExchangeUnknown, Goto, codes, cookies, users,
     sessions, tried, flow, TypeOK, Shape
<1>13. ASSUME NEW t \in Tab, CallbackBreaks(t)
       PROVE  Shape'
  BY <1>13, Numbers, BrowserAssumption DEF CallbackBreaks, EndCallback, FailCallback,
     Goto, codes, users, sessions, tried, flow, TypeOK, Shape
<1>14. ASSUME NEW t \in Tab, NEW i \in Identity, Login(t, i)
       PROVE  Shape'
  <2>1. /\ last' = last + 1 /\ last + 1 \in 1..(last + 1) /\ last \in Nat
        /\ \A n \in 1..last : n \in 1..(last + 1)
    BY <1>14 DEF Login, NewAttempt, TypeOK
  <2>2. att'[t] = last + 1 /\ stage'[t] # "idle"
        /\ \A u \in Tab \ {t} : att'[u] = att[u] /\ stage'[u] = stage[u]
    BY <1>14 DEF Login, NewAttempt, TypeOK, Goto
  <2>3. alive' \cup settled' \cup loggedOut' \subseteq 1..(last + 1)
    BY <1>14, <2>1 DEF Login, Shape, users
  <2>4. \A b \in Browser : jar'[b] = jar[b] /\ jar[b] \in Nat
    BY <1>14, AttemptNumbers DEF Login, sessions, TypeOK
  <2>5. \A c \in issued' : c \in issued \/ c[2] = last + 1
    BY <1>14 DEF Login, SetKey, codes
  <2>6. \A c \in issued : c[2] \in Nat
    BY Numbers DEF TypeOK, Code
  <2> QED
    BY <2>1, <2>2, <2>3, <2>4, <2>5, <2>6 DEF Shape
<1>15. ASSUME NEW t \in Tab, NEW i \in Identity, Register(t, i)
       PROVE  Shape'
  <2>1. /\ last' = last + 1 /\ last + 1 \in 1..(last + 1) /\ last \in Nat
        /\ \A n \in 1..last : n \in 1..(last + 1)
    BY <1>15 DEF Register, NewAttempt, TypeOK
  <2>2. att'[t] = last + 1 /\ stage'[t] # "idle"
        /\ \A u \in Tab \ {t} : att'[u] = att[u] /\ stage'[u] = stage[u]
    BY <1>15 DEF Register, NewAttempt, TypeOK, Goto
  <2>3. alive' \cup settled' \cup loggedOut' \subseteq 1..(last + 1)
    BY <1>15, <2>1 DEF Register, Shape, users, sessions
  <2>4. \A b \in Browser : jar'[b] = jar[b] /\ jar[b] \in Nat
    BY <1>15, AttemptNumbers DEF Register, sessions, TypeOK
  <2>5. \A c \in issued' : c \in issued \/ c[2] = last + 1
    BY <1>15 DEF Register, SetKey, codes
  <2>6. \A c \in issued : c[2] \in Nat
    BY Numbers DEF TypeOK, Code
  <2> QED
    BY <2>1, <2>2, <2>3, <2>4, <2>5, <2>6 DEF Shape
<1>16. ASSUME NEW t \in Tab, NEW session \in BOOLEAN, SignUp(t, session)
       PROVE  Shape'
  BY <1>16, Numbers, BrowserAssumption DEF SignUp, Goto, codes, cookies, users, tried,
     flow, TypeOK, Shape
<1>17. ASSUME NEW t \in Tab, SignUpRefused(t)
       PROVE  Shape'
  BY <1>17, Numbers, BrowserAssumption DEF SignUpRefused, Goto, Rest, codes, cookies,
     users, sessions, tried, flow, TypeOK, Shape
<1>18. ASSUME NEW t \in Tab, Answer(t)
       PROVE  Shape'
  BY <1>18, Numbers, BrowserAssumption DEF Answer, Goto, Rest, SetSession, codes,
     cookies, users, tried, flow, TypeOK, Shape
<1>19. ASSUME NEW t \in Tab, RequestBreaks(t)
       PROVE  Shape'
  BY <1>19, Numbers, BrowserAssumption DEF RequestBreaks, Goto, codes, cookies, users,
     sessions, tried, flow, TypeOK, Shape
<1>20. ASSUME NEW t \in Tab, FindById(t)
       PROVE  Shape'
  BY <1>20, Numbers, BrowserAssumption DEF FindById, Goto, Settle, codes, cookies,
     sessions, tried, flow, TypeOK, Shape
<1>21. ASSUME NEW t \in Tab, FindByEmail(t)
       PROVE  Shape'
  BY <1>21, Numbers, BrowserAssumption DEF FindByEmail, Goto, Settle, codes, cookies,
     sessions, tried, flow, TypeOK, Shape
<1>22. ASSUME NEW t \in Tab, Relink(t)
       PROVE  Shape'
  BY <1>22, Numbers, BrowserAssumption DEF Relink, Goto, Settle, codes, cookies,
     sessions, tried, flow, TypeOK, Shape
<1>23. ASSUME NEW t \in Tab, InsertUser(t)
       PROVE  Shape'
  BY <1>23, Numbers, BrowserAssumption DEF InsertUser, Goto, Settle, codes, cookies,
     sessions, tried, flow, TypeOK, Shape
<1>24. ASSUME NEW t \in Tab, InsertUserFails(t)
       PROVE  Shape'
  BY <1>24, Numbers, BrowserAssumption DEF InsertUserFails, EndCallback, FailCallback,
     Goto, codes, cookies, users, sessions, tried, flow, TypeOK, Shape
<1>25. ASSUME NEW t \in Tab, Refresh(t)
       PROVE  Shape'
  BY <1>25, Numbers, BrowserAssumption DEF Refresh, Goto, Free, codes, cookies, users,
     sessions, tried, flow, TypeOK, Shape
<1>26. ASSUME NEW t \in Tab, RefreshAnswer(t)
       PROVE  Shape'
  BY <1>26, Numbers, BrowserAssumption DEF RefreshAnswer, Goto, Rest, SetSession, codes,
     cookies, users, tried, flow, TypeOK, Shape
<1>27. ASSUME NEW t \in Tab, NEW fresh \in BOOLEAN, NEW reached \in BOOLEAN, Logout(t, fresh, reached)
       PROVE  Shape'
  <2>1. jar[BrowserOf[t]] \in 1..last
    <3>1. jar[BrowserOf[t]] \in Attempt /\ jar[BrowserOf[t]] <= last
      BY <1>27, BrowserAssumption DEF Logout, TypeOK, Shape
    <3>2. jar[BrowserOf[t]] \in Nat /\ jar[BrowserOf[t]] >= 1 /\ last \in Nat
      <4>1. jar[BrowserOf[t]] \in Nat /\ jar[BrowserOf[t]] >= 1
        BY <3>1, AttemptNumbers
      <4>2. last \in Nat
        BY DEF TypeOK
      <4> QED
        BY <4>1, <4>2
    <3> QED
      BY <3>1, <3>2
  <2>2. alive' \subseteq alive
    BY <1>27 DEF Logout
  <2> QED
    BY <1>27, <2>1, <2>2 DEF Logout, Shape, TypeOK, Goto, codes, users, flow, tried
<1>28. ASSUME NEW t \in Tab, LogoutAnswer(t)
       PROVE  Shape'
  <2>1. att[t] \in 1..last
    BY <1>28 DEF LogoutAnswer, Shape
  <2>2. \A b \in Browser : jar'[b] \in {jar[b], 0}
    BY <1>28 DEF LogoutAnswer, ClearSession, TypeOK, NoAttempt
  <2>3. last \in Nat
    BY DEF TypeOK
  <2> QED
    BY <1>28, <2>1, <2>2, <2>3 DEF LogoutAnswer, Shape, TypeOK, Rest, Goto, codes, users,
       flow, tried
<1>29. ASSUME NEW t \in Tab, GiveUp(t)
       PROVE  Shape'
  BY <1>29, Numbers, BrowserAssumption DEF GiveUp, Goto, Rest, codes, cookies, users,
     sessions, tried, flow, TypeOK, Shape
<1>30. ASSUME NEW b \in Browser, IssueTicket(b)
       PROVE  Shape'
  BY <1>30, Numbers, BrowserAssumption DEF IssueTicket, SetKey, cookies, users, sessions,
     tried, flow, TypeOK, Shape
<1>31. ASSUME NEW b \in Browser, CookieExpires(b)
       PROVE  Shape'
  BY <1>31, Numbers, BrowserAssumption DEF CookieExpires, codes, users, sessions, tried,
     flow, TypeOK, Shape
<1>32. ASSUME NEW a \in Attempt, UseTicket(a)
       PROVE  Shape'
  BY <1>32, Numbers, BrowserAssumption DEF UseTicket, GetDel, cookies, users, sessions,
     tried, flow, TypeOK, Shape
<1>33. ASSUME NEW c \in Code, KeyExpires(c)
       PROVE  Shape'
  BY <1>33, Numbers, BrowserAssumption DEF KeyExpires, cookies, users, sessions, tried,
     flow, TypeOK, Shape
<1> QED
  BY <1>1, <1>2, <1>3, <1>4, <1>5, <1>6, <1>7, <1>8, <1>9, <1>10,
     <1>11, <1>12, <1>13, <1>14, <1>15, <1>16, <1>17, <1>18, <1>19, <1>20,
     <1>21, <1>22, <1>23, <1>24, <1>25, <1>26, <1>27, <1>28, <1>29, <1>30,
     <1>31, <1>32, <1>33
     DEF Next, OAuth, Password, Provision, Session

LEMMA SingleKept ==
  ASSUME TypeOK, Shape, Single, [Next]_vars
  PROVE  Single'
<1>1. CASE UNCHANGED vars
  BY <1>1 DEF vars, codes, cookies, users, sessions, tried, flow, TypeOK, Shape, Single,
     SigningIn, Stage
<1>2. ASSUME NEW t \in Tab, NEW given \in BOOLEAN, StartOAuth(t, given)
      PROVE  Single'
  BY <1>2, Numbers, BrowserAssumption DEF StartOAuth, Goto, NewAttempt, Free, users,
     sessions, tried, flow, NoAttempt, TypeOK, Shape, Single, SigningIn, Stage
<1>3. ASSUME NEW t \in Tab, NEW i \in Identity, ProviderReturns(t, i)
      PROVE  Single'
  BY <1>3, Numbers, BrowserAssumption DEF ProviderReturns, Goto, codes, cookies, users,
     sessions, tried, flow, NoAttempt, TypeOK, Shape, Single, SigningIn, Stage
<1>4. ASSUME NEW t \in Tab, ProviderDeclines(t)
      PROVE  Single'
  BY <1>4, Numbers, BrowserAssumption DEF ProviderDeclines, EndCallback, FailCallback,
     Goto, codes, users, sessions, tried, flow, NoAttempt, TypeOK, Shape, Single,
     SigningIn, Stage
<1>5. ASSUME NEW t \in Tab, TakeVerifier(t)
      PROVE  Single'
  BY <1>5, Numbers, BrowserAssumption DEF TakeVerifier, EndCallback, FailCallback, Goto,
     cookies, users, sessions, tried, flow, NoAttempt, TypeOK, Shape, Single, SigningIn,
     Stage
<1>6. ASSUME NEW t \in Tab, NoVerifier(t)
      PROVE  Single'
  BY <1>6, Numbers, BrowserAssumption DEF NoVerifier, EndCallback, FailCallback, Goto,
     codes, users, sessions, tried, flow, NoAttempt, TypeOK, Shape, Single, SigningIn,
     Stage
<1>7. ASSUME NEW t \in Tab, ExchangeCode(t)
      PROVE  Single'
  BY <1>7, Numbers, BrowserAssumption DEF ExchangeCode, Goto, codes, cookies, users,
     tried, flow, NoAttempt, TypeOK, Shape, Single, SigningIn, Stage
<1>8. ASSUME NEW t \in Tab, ExchangeRefused(t)
      PROVE  Single'
  BY <1>8, Numbers, BrowserAssumption DEF ExchangeRefused, EndCallback, FailCallback,
     Goto, codes, users, sessions, tried, flow, NoAttempt, TypeOK, Shape, Single,
     SigningIn, Stage
<1>9. ASSUME NEW t \in Tab, StoreHandoff(t)
      PROVE  Single'
  BY <1>9, Numbers, BrowserAssumption DEF StoreHandoff, EndCallback, Goto, users,
     sessions, tried, flow, NoAttempt, TypeOK, Shape, Single, SigningIn, Stage
<1>10. ASSUME NEW t \in Tab, ExchangeHandoff(t)
       PROVE  Single'
  <2>0. \A u \in Tab \ {t} : att'[u] = att[u] /\ stage'[u] = stage[u]
    BY <1>10 DEF ExchangeHandoff, TypeOK, Goto, Rest, SetSession
  <2>1. stage[t] = "code" /\ att[t] \in Attempt /\ att[t] # NoAttempt
    BY <1>10, Numbers DEF ExchangeHandoff, Shape, TypeOK
  <2>2. \/ stage'[t] = "idle" /\ att'[t] = NoAttempt /\ \A b \in Browser : jar'[b] \in {jar[b], att[t]}
        \/ stage'[t] = "failed" /\ att'[t] = att[t] /\ jar' = jar
    <3>1. CASE Proves(att[t])
      BY <1>10, <3>1 DEF ExchangeHandoff, Rest, Goto, SetSession, TypeOK
    <3>2. CASE ~Proves(att[t])
      BY <1>10, <3>2 DEF ExchangeHandoff, Goto, TypeOK
    <3> QED
      BY <3>1, <3>2
  <2>3. loggedOut' = loggedOut /\ settled' = settled
    BY <1>10 DEF ExchangeHandoff, users
  <2>4. \A u \in Tab : stage[u] \in SigningIn => att[u] # NoAttempt
    BY Numbers DEF Shape, SigningIn, TypeOK
  <2> QED
    BY <2>0, <2>1, <2>2, <2>3, <2>4 DEF Single, SigningIn, Stage
<1>11. ASSUME NEW t \in Tab, ExchangeLost(t)
       PROVE  Single'
  BY <1>11, Numbers, BrowserAssumption DEF ExchangeLost, cookies, users, sessions, tried,
     flow, NoAttempt, TypeOK, Shape, Single, SigningIn, Stage
<1>12. ASSUME NEW t \in Tab, ExchangeUnknown(t)
       PROVE  Single'
  BY <1>12, Numbers, BrowserAssumption DEF ExchangeUnknown, Goto, codes, cookies, users,
     sessions, tried, flow, NoAttempt, TypeOK, Shape, Single, SigningIn, Stage
<1>13. ASSUME NEW t \in Tab, CallbackBreaks(t)
       PROVE  Single'
  BY <1>13, Numbers, BrowserAssumption DEF CallbackBreaks, EndCallback, FailCallback,
     Goto, codes, users, sessions, tried, flow, NoAttempt, TypeOK, Shape, Single,
     SigningIn, Stage
<1>14. ASSUME NEW t \in Tab, NEW i \in Identity, Login(t, i)
       PROVE  Single'
  BY <1>14, Numbers, BrowserAssumption DEF Login, Goto, NewAttempt, Free, codes, cookies,
     users, tried, flow, NoAttempt, TypeOK, Shape, Single, SigningIn, Stage
<1>15. ASSUME NEW t \in Tab, NEW i \in Identity, Register(t, i)
       PROVE  Single'
  BY <1>15, Numbers, BrowserAssumption DEF Register, Goto, NewAttempt, Free, codes,
     cookies, users, sessions, tried, flow, NoAttempt, TypeOK, Shape, Single, SigningIn,
     Stage
<1>16. ASSUME NEW t \in Tab, NEW session \in BOOLEAN, SignUp(t, session)
       PROVE  Single'
  BY <1>16, Numbers, BrowserAssumption DEF SignUp, Goto, codes, cookies, users, tried,
     flow, NoAttempt, TypeOK, Shape, Single, SigningIn, Stage
<1>17. ASSUME NEW t \in Tab, SignUpRefused(t)
       PROVE  Single'
  BY <1>17, Numbers, BrowserAssumption DEF SignUpRefused, Goto, Rest, codes, cookies,
     users, sessions, tried, flow, NoAttempt, TypeOK, Shape, Single, SigningIn, Stage
<1>18. ASSUME NEW t \in Tab, Answer(t)
       PROVE  Single'
  BY <1>18, Numbers, BrowserAssumption DEF Answer, Goto, Rest, SetSession, codes,
     cookies, users, tried, flow, NoAttempt, TypeOK, Shape, Single, SigningIn, Stage
<1>19. ASSUME NEW t \in Tab, RequestBreaks(t)
       PROVE  Single'
  BY <1>19, Numbers, BrowserAssumption DEF RequestBreaks, Goto, codes, cookies, users,
     sessions, tried, flow, NoAttempt, TypeOK, Shape, Single, SigningIn, Stage
<1>20. ASSUME NEW t \in Tab, FindById(t)
       PROVE  Single'
  <2>0. \A u \in Tab \ {t} : att'[u] = att[u] /\ stage'[u] = stage[u]
    BY <1>20 DEF FindById, TypeOK, Goto, Settle
  <2>1. att' = att /\ jar' = jar /\ loggedOut' = loggedOut /\ settled' \subseteq settled \cup {att[t]}
    BY <1>20 DEF FindById, Settle, sessions
  <2>2. stage[t] \in SigningIn /\ stage'[t] # "away"
    BY <1>20 DEF FindById, Settle, Goto, TypeOK, SigningIn, Stage
  <2> QED
    BY <2>0, <2>1, <2>2 DEF Single
<1>21. ASSUME NEW t \in Tab, FindByEmail(t)
       PROVE  Single'
  <2>0. \A u \in Tab \ {t} : att'[u] = att[u] /\ stage'[u] = stage[u]
    BY <1>21 DEF FindByEmail, TypeOK, Goto, Settle
  <2>1. att' = att /\ jar' = jar /\ loggedOut' = loggedOut /\ settled' \subseteq settled \cup {att[t]}
    BY <1>21 DEF FindByEmail, Settle, sessions
  <2>2. stage[t] \in SigningIn /\ stage'[t] # "away"
    BY <1>21 DEF FindByEmail, Settle, Goto, TypeOK, SigningIn, Stage
  <2> QED
    BY <2>0, <2>1, <2>2 DEF Single
<1>22. ASSUME NEW t \in Tab, Relink(t)
       PROVE  Single'
  BY <1>22, Numbers, BrowserAssumption DEF Relink, Goto, Settle, codes, cookies,
     sessions, tried, flow, NoAttempt, TypeOK, Shape, Single, SigningIn, Stage
<1>23. ASSUME NEW t \in Tab, InsertUser(t)
       PROVE  Single'
  BY <1>23, Numbers, BrowserAssumption DEF InsertUser, Goto, Settle, codes, cookies,
     sessions, tried, flow, NoAttempt, TypeOK, Shape, Single, SigningIn, Stage
<1>24. ASSUME NEW t \in Tab, InsertUserFails(t)
       PROVE  Single'
  BY <1>24, Numbers, BrowserAssumption DEF InsertUserFails, EndCallback, FailCallback,
     Goto, codes, cookies, users, sessions, tried, flow, NoAttempt, TypeOK, Shape,
     Single, SigningIn, Stage
<1>25. ASSUME NEW t \in Tab, Refresh(t)
       PROVE  Single'
  <2>0. \A u \in Tab \ {t} : att'[u] = att[u] /\ stage'[u] = stage[u]
    BY <1>25 DEF Refresh, TypeOK, Goto, Free
  <2>1. att'[t] = jar[BrowserOf[t]] /\ BrowserOf[t] \in Browser /\ stage'[t] \notin SigningIn
    BY <1>25, BrowserAssumption DEF Refresh, Goto, TypeOK, SigningIn
  <2>2. jar' = jar /\ loggedOut' = loggedOut /\ settled' = settled
    BY <1>25 DEF Refresh, sessions, users
  <2> QED
    BY <2>0, <2>1, <2>2 DEF Single
<1>26. ASSUME NEW t \in Tab, RefreshAnswer(t)
       PROVE  Single'
  BY <1>26, Numbers, BrowserAssumption DEF RefreshAnswer, Goto, Rest, SetSession, codes,
     cookies, users, tried, flow, NoAttempt, TypeOK, Shape, Single, SigningIn, Stage
<1>27. ASSUME NEW t \in Tab, NEW fresh \in BOOLEAN, NEW reached \in BOOLEAN, Logout(t, fresh, reached)
       PROVE  Single'
  <2>0. \A u \in Tab \ {t} : att'[u] = att[u] /\ stage'[u] = stage[u]
    BY <1>27 DEF Logout, TypeOK, Goto, Free
  <2>1. att'[t] = jar[BrowserOf[t]] /\ BrowserOf[t] \in Browser /\ stage'[t] \notin SigningIn
    BY <1>27, BrowserAssumption DEF Logout, Goto, TypeOK, SigningIn
  <2>2. jar' = jar /\ loggedOut' = loggedOut /\ settled' = settled
    BY <1>27 DEF Logout, sessions, users
  <2> QED
    BY <2>0, <2>1, <2>2 DEF Single
<1>28. ASSUME NEW t \in Tab, LogoutAnswer(t)
       PROVE  Single'
  <2>0. \A u \in Tab \ {t} : att'[u] = att[u] /\ stage'[u] = stage[u]
    BY <1>28 DEF LogoutAnswer, TypeOK, Goto, Rest
  <2>1. /\ att'[t] = NoAttempt /\ stage'[t] = "idle" /\ stage[t] = "leaving"
        /\ loggedOut' = loggedOut \cup {att[t]} /\ settled' = settled
        /\ \A b \in Browser : jar'[b] \in {jar[b], NoAttempt}
    BY <1>28 DEF LogoutAnswer, Rest, Goto, ClearSession, TypeOK, users
  <2>2. \A u \in Tab : stage[u] \in SigningIn => att[u] # NoAttempt
    BY Numbers DEF Shape, SigningIn, TypeOK
  <2> QED
    BY <2>0, <2>1, <2>2 DEF Single, SigningIn
<1>29. ASSUME NEW t \in Tab, GiveUp(t)
       PROVE  Single'
  BY <1>29, Numbers, BrowserAssumption DEF GiveUp, Goto, Rest, codes, cookies, users,
     sessions, tried, flow, NoAttempt, TypeOK, Shape, Single, SigningIn, Stage
<1>30. ASSUME NEW b \in Browser, IssueTicket(b)
       PROVE  Single'
  BY <1>30, Numbers, BrowserAssumption DEF IssueTicket, cookies, users, sessions, tried,
     flow, NoAttempt, TypeOK, Shape, Single, SigningIn, Stage
<1>31. ASSUME NEW b \in Browser, CookieExpires(b)
       PROVE  Single'
  BY <1>31, Numbers, BrowserAssumption DEF CookieExpires, codes, users, sessions, tried,
     flow, NoAttempt, TypeOK, Shape, Single, SigningIn, Stage
<1>32. ASSUME NEW a \in Attempt, UseTicket(a)
       PROVE  Single'
  BY <1>32, Numbers, BrowserAssumption DEF UseTicket, cookies, users, sessions, tried,
     flow, NoAttempt, TypeOK, Shape, Single, SigningIn, Stage
<1>33. ASSUME NEW c \in Code, KeyExpires(c)
       PROVE  Single'
  BY <1>33, Numbers, BrowserAssumption DEF KeyExpires, cookies, users, sessions, tried,
     flow, NoAttempt, TypeOK, Shape, Single, SigningIn, Stage
<1> QED
  BY <1>1, <1>2, <1>3, <1>4, <1>5, <1>6, <1>7, <1>8, <1>9, <1>10,
     <1>11, <1>12, <1>13, <1>14, <1>15, <1>16, <1>17, <1>18, <1>19, <1>20,
     <1>21, <1>22, <1>23, <1>24, <1>25, <1>26, <1>27, <1>28, <1>29, <1>30,
     <1>31, <1>32, <1>33
     DEF Next, OAuth, Password, Provision, Session

LEMMA OneJarKept ==
  ASSUME TypeOK, Shape, Single, OneJar, [Next]_vars
  PROVE  OneJar'
<1>1. CASE UNCHANGED vars
  BY <1>1 DEF vars, codes, cookies, users, sessions, tried, flow, TypeOK, Shape, Single,
     OneJar, SigningIn, HasSession, Stage
<1>2. ASSUME NEW t \in Tab, NEW given \in BOOLEAN, StartOAuth(t, given)
      PROVE  OneJar'
  BY <1>2, Numbers, BrowserAssumption DEF StartOAuth, Goto, NewAttempt, Free, users,
     sessions, tried, flow, TypeOK, Shape, Single, OneJar, SigningIn, HasSession, Stage
<1>3. ASSUME NEW t \in Tab, NEW i \in Identity, ProviderReturns(t, i)
      PROVE  OneJar'
  BY <1>3, Numbers, BrowserAssumption DEF ProviderReturns, Goto, codes, cookies, users,
     sessions, tried, flow, TypeOK, Shape, Single, OneJar, SigningIn, HasSession, Stage
<1>4. ASSUME NEW t \in Tab, ProviderDeclines(t)
      PROVE  OneJar'
  BY <1>4, Numbers, BrowserAssumption DEF ProviderDeclines, EndCallback, FailCallback,
     Goto, codes, users, sessions, tried, flow, TypeOK, Shape, Single, OneJar, SigningIn,
     HasSession, Stage
<1>5. ASSUME NEW t \in Tab, TakeVerifier(t)
      PROVE  OneJar'
  BY <1>5, Numbers, BrowserAssumption DEF TakeVerifier, EndCallback, FailCallback, Goto,
     cookies, users, sessions, tried, flow, TypeOK, Shape, Single, OneJar, SigningIn,
     HasSession, Stage
<1>6. ASSUME NEW t \in Tab, NoVerifier(t)
      PROVE  OneJar'
  BY <1>6, Numbers, BrowserAssumption DEF NoVerifier, EndCallback, FailCallback, Goto,
     codes, users, sessions, tried, flow, TypeOK, Shape, Single, OneJar, SigningIn,
     HasSession, Stage
<1>7. ASSUME NEW t \in Tab, ExchangeCode(t)
      PROVE  OneJar'
  BY <1>7, Numbers, BrowserAssumption DEF ExchangeCode, Goto, codes, cookies, users,
     tried, flow, TypeOK, Shape, Single, OneJar, SigningIn, HasSession, Stage
<1>8. ASSUME NEW t \in Tab, ExchangeRefused(t)
      PROVE  OneJar'
  BY <1>8, Numbers, BrowserAssumption DEF ExchangeRefused, EndCallback, FailCallback,
     Goto, codes, users, sessions, tried, flow, TypeOK, Shape, Single, OneJar, SigningIn,
     HasSession, Stage
<1>9. ASSUME NEW t \in Tab, StoreHandoff(t)
      PROVE  OneJar'
  BY <1>9, Numbers, BrowserAssumption DEF StoreHandoff, EndCallback, Goto, users,
     sessions, tried, flow, TypeOK, Shape, Single, OneJar, SigningIn, HasSession, Stage
<1>10. ASSUME NEW t \in Tab, ExchangeHandoff(t)
       PROVE  OneJar'
  <2>0. \A u \in Tab \ {t} : att'[u] = att[u] /\ stage'[u] = stage[u]
    BY <1>10 DEF ExchangeHandoff, TypeOK, Goto, Rest, SetSession
  <2>1. stage[t] = "code" /\ stage'[t] \notin HasSession
    BY <1>10 DEF ExchangeHandoff, Rest, Goto, TypeOK, HasSession
  <2>2. /\ \A b \in Browser \ {BrowserOf[t]} : jar'[b] = jar[b]
        /\ jar'[BrowserOf[t]] \in {jar[BrowserOf[t]], att[t]}
    BY <1>10, BrowserAssumption DEF ExchangeHandoff, SetSession, TypeOK
  <2>3. /\ \A b \in Browser : jar[b] # att[t]
        /\ \A u \in Tab \ {t} : att[u] # att[t]
    BY <2>1 DEF Single, SigningIn, Stage
  <2> QED
    BY <2>0, <2>1, <2>2, <2>3 DEF OneJar
<1>11. ASSUME NEW t \in Tab, ExchangeLost(t)
       PROVE  OneJar'
  BY <1>11, Numbers, BrowserAssumption DEF ExchangeLost, cookies, users, sessions, tried,
     flow, TypeOK, Shape, Single, OneJar, SigningIn, HasSession, Stage
<1>12. ASSUME NEW t \in Tab, ExchangeUnknown(t)
       PROVE  OneJar'
  BY <1>12, Numbers, BrowserAssumption DEF ExchangeUnknown, Goto, codes, cookies, users,
     sessions, tried, flow, TypeOK, Shape, Single, OneJar, SigningIn, HasSession, Stage
<1>13. ASSUME NEW t \in Tab, CallbackBreaks(t)
       PROVE  OneJar'
  BY <1>13, Numbers, BrowserAssumption DEF CallbackBreaks, EndCallback, FailCallback,
     Goto, codes, users, sessions, tried, flow, TypeOK, Shape, Single, OneJar, SigningIn,
     HasSession, Stage
<1>14. ASSUME NEW t \in Tab, NEW i \in Identity, Login(t, i)
       PROVE  OneJar'
  BY <1>14, Numbers, BrowserAssumption DEF Login, Goto, NewAttempt, Free, codes, cookies,
     users, tried, flow, TypeOK, Shape, Single, OneJar, SigningIn, HasSession, Stage
<1>15. ASSUME NEW t \in Tab, NEW i \in Identity, Register(t, i)
       PROVE  OneJar'
  BY <1>15, Numbers, BrowserAssumption DEF Register, Goto, NewAttempt, Free, codes,
     cookies, users, sessions, tried, flow, TypeOK, Shape, Single, OneJar, SigningIn,
     HasSession, Stage
<1>16. ASSUME NEW t \in Tab, NEW session \in BOOLEAN, SignUp(t, session)
       PROVE  OneJar'
  BY <1>16, Numbers, BrowserAssumption DEF SignUp, Goto, codes, cookies, users, tried,
     flow, TypeOK, Shape, Single, OneJar, SigningIn, HasSession, Stage
<1>17. ASSUME NEW t \in Tab, SignUpRefused(t)
       PROVE  OneJar'
  BY <1>17, Numbers, BrowserAssumption DEF SignUpRefused, Goto, Rest, codes, cookies,
     users, sessions, tried, flow, TypeOK, Shape, Single, OneJar, SigningIn, HasSession,
     Stage
<1>18. ASSUME NEW t \in Tab, Answer(t)
       PROVE  OneJar'
  BY <1>18, Numbers, BrowserAssumption DEF Answer, Goto, Rest, SetSession, codes,
     cookies, users, tried, flow, TypeOK, Shape, Single, OneJar, SigningIn, HasSession,
     Stage
<1>19. ASSUME NEW t \in Tab, RequestBreaks(t)
       PROVE  OneJar'
  BY <1>19, Numbers, BrowserAssumption DEF RequestBreaks, Goto, codes, cookies, users,
     sessions, tried, flow, TypeOK, Shape, Single, OneJar, SigningIn, HasSession, Stage
<1>20. ASSUME NEW t \in Tab, FindById(t)
       PROVE  OneJar'
  <2>0. \A u \in Tab \ {t} : att'[u] = att[u] /\ stage'[u] = stage[u]
    BY <1>20 DEF FindById, TypeOK, Goto, Settle
  <2>1. att' = att /\ jar' = jar /\ stage'[t] \notin HasSession
    BY <1>20 DEF FindById, Settle, sessions, Goto, TypeOK, HasSession
  <2> QED
    BY <2>0, <2>1 DEF OneJar
<1>21. ASSUME NEW t \in Tab, FindByEmail(t)
       PROVE  OneJar'
  <2>0. \A u \in Tab \ {t} : att'[u] = att[u] /\ stage'[u] = stage[u]
    BY <1>21 DEF FindByEmail, TypeOK, Goto, Settle
  <2>1. att' = att /\ jar' = jar /\ stage'[t] \notin HasSession
    BY <1>21 DEF FindByEmail, Settle, sessions, Goto, TypeOK, HasSession
  <2> QED
    BY <2>0, <2>1 DEF OneJar
<1>22. ASSUME NEW t \in Tab, Relink(t)
       PROVE  OneJar'
  BY <1>22, Numbers, BrowserAssumption DEF Relink, Goto, Settle, codes, cookies,
     sessions, tried, flow, TypeOK, Shape, Single, OneJar, SigningIn, HasSession, Stage
<1>23. ASSUME NEW t \in Tab, InsertUser(t)
       PROVE  OneJar'
  BY <1>23, Numbers, BrowserAssumption DEF InsertUser, Goto, Settle, codes, cookies,
     sessions, tried, flow, TypeOK, Shape, Single, OneJar, SigningIn, HasSession, Stage
<1>24. ASSUME NEW t \in Tab, InsertUserFails(t)
       PROVE  OneJar'
  BY <1>24, Numbers, BrowserAssumption DEF InsertUserFails, EndCallback, FailCallback,
     Goto, codes, cookies, users, sessions, tried, flow, TypeOK, Shape, Single, OneJar,
     SigningIn, HasSession, Stage
<1>25. ASSUME NEW t \in Tab, Refresh(t)
       PROVE  OneJar'
  <2>0. \A u \in Tab \ {t} : att'[u] = att[u] /\ stage'[u] = stage[u]
    BY <1>25 DEF Refresh, TypeOK, Goto, Free
  <2>1. att'[t] = jar[BrowserOf[t]] /\ BrowserOf[t] \in Browser /\ jar' = jar
    BY <1>25, BrowserAssumption DEF Refresh, TypeOK, sessions
  <2>2. jar[BrowserOf[t]] # NoAttempt
    BY <1>25, <2>1, Numbers DEF Refresh, TypeOK
  <2>3. \A u \in Tab : stage[u] \in HasSession /\ att[u] = jar[BrowserOf[t]] => BrowserOf[u] = BrowserOf[t]
    BY <2>1 DEF OneJar
  <2> QED
    BY <2>0, <2>1, <2>2, <2>3 DEF OneJar
<1>26. ASSUME NEW t \in Tab, RefreshAnswer(t)
       PROVE  OneJar'
  BY <1>26, Numbers, BrowserAssumption DEF RefreshAnswer, Goto, Rest, SetSession, codes,
     cookies, users, tried, flow, TypeOK, Shape, Single, OneJar, SigningIn, HasSession,
     Stage
<1>27. ASSUME NEW t \in Tab, NEW fresh \in BOOLEAN, NEW reached \in BOOLEAN, Logout(t, fresh, reached)
       PROVE  OneJar'
  <2>0. \A u \in Tab \ {t} : att'[u] = att[u] /\ stage'[u] = stage[u]
    BY <1>27 DEF Logout, TypeOK, Goto, Free
  <2>1. att'[t] = jar[BrowserOf[t]] /\ BrowserOf[t] \in Browser /\ jar' = jar
    BY <1>27, BrowserAssumption DEF Logout, TypeOK, sessions
  <2>2. jar[BrowserOf[t]] # NoAttempt
    BY <1>27, <2>1, Numbers DEF Logout, TypeOK
  <2>3. \A u \in Tab : stage[u] \in HasSession /\ att[u] = jar[BrowserOf[t]] => BrowserOf[u] = BrowserOf[t]
    BY <2>1 DEF OneJar
  <2> QED
    BY <2>0, <2>1, <2>2, <2>3 DEF OneJar
<1>28. ASSUME NEW t \in Tab, LogoutAnswer(t)
       PROVE  OneJar'
  <2>0. \A u \in Tab \ {t} : att'[u] = att[u] /\ stage'[u] = stage[u]
    BY <1>28 DEF LogoutAnswer, TypeOK, Goto, Rest
  <2>1. /\ stage'[t] \notin HasSession /\ BrowserOf[t] \in Browser
        /\ \A b \in Browser : jar'[b] \in {jar[b], NoAttempt}
    BY <1>28, BrowserAssumption DEF LogoutAnswer, Rest, Goto, ClearSession, TypeOK,
       HasSession
  <2>2. \A u \in Tab : stage[u] \in HasSession => att[u] # NoAttempt
    BY Numbers DEF Shape, HasSession, TypeOK
  <2> QED
    BY <2>0, <2>1, <2>2 DEF OneJar
<1>29. ASSUME NEW t \in Tab, GiveUp(t)
       PROVE  OneJar'
  BY <1>29, Numbers, BrowserAssumption DEF GiveUp, Goto, Rest, codes, cookies, users,
     sessions, tried, flow, TypeOK, Shape, Single, OneJar, SigningIn, HasSession, Stage
<1>30. ASSUME NEW b \in Browser, IssueTicket(b)
       PROVE  OneJar'
  BY <1>30, Numbers, BrowserAssumption DEF IssueTicket, cookies, users, sessions, tried,
     flow, TypeOK, Shape, Single, OneJar, SigningIn, HasSession, Stage
<1>31. ASSUME NEW b \in Browser, CookieExpires(b)
       PROVE  OneJar'
  BY <1>31, Numbers, BrowserAssumption DEF CookieExpires, codes, users, sessions, tried,
     flow, TypeOK, Shape, Single, OneJar, SigningIn, HasSession, Stage
<1>32. ASSUME NEW a \in Attempt, UseTicket(a)
       PROVE  OneJar'
  BY <1>32, Numbers, BrowserAssumption DEF UseTicket, cookies, users, sessions, tried,
     flow, TypeOK, Shape, Single, OneJar, SigningIn, HasSession, Stage
<1>33. ASSUME NEW c \in Code, KeyExpires(c)
       PROVE  OneJar'
  BY <1>33, Numbers, BrowserAssumption DEF KeyExpires, cookies, users, sessions, tried,
     flow, TypeOK, Shape, Single, OneJar, SigningIn, HasSession, Stage
<1> QED
  BY <1>1, <1>2, <1>3, <1>4, <1>5, <1>6, <1>7, <1>8, <1>9, <1>10,
     <1>11, <1>12, <1>13, <1>14, <1>15, <1>16, <1>17, <1>18, <1>19, <1>20,
     <1>21, <1>22, <1>23, <1>24, <1>25, <1>26, <1>27, <1>28, <1>29, <1>30,
     <1>31, <1>32, <1>33
     DEF Next, OAuth, Password, Provision, Session

LEMMA LeavingKept ==
  ASSUME TypeOK, Shape, Single, Leaving, [Next]_vars
  PROVE  Leaving'
<1>1. CASE UNCHANGED vars
  BY <1>1 DEF vars, codes, cookies, users, sessions, tried, flow, TypeOK, Shape, Single,
     Leaving, SigningIn, Stage
<1>2. ASSUME NEW t \in Tab, NEW given \in BOOLEAN, StartOAuth(t, given)
      PROVE  Leaving'
  BY <1>2, Numbers, BrowserAssumption DEF StartOAuth, Goto, NewAttempt, Free, users,
     sessions, tried, flow, Revoked, TypeOK, Shape, Single, Leaving, SigningIn, Stage
<1>3. ASSUME NEW t \in Tab, NEW i \in Identity, ProviderReturns(t, i)
      PROVE  Leaving'
  BY <1>3, Numbers, BrowserAssumption DEF ProviderReturns, Goto, codes, cookies, users,
     sessions, tried, flow, Revoked, TypeOK, Shape, Single, Leaving, SigningIn, Stage
<1>4. ASSUME NEW t \in Tab, ProviderDeclines(t)
      PROVE  Leaving'
  BY <1>4, Numbers, BrowserAssumption DEF ProviderDeclines, EndCallback, FailCallback,
     Goto, codes, users, sessions, tried, flow, Revoked, TypeOK, Shape, Single, Leaving,
     SigningIn, Stage
<1>5. ASSUME NEW t \in Tab, TakeVerifier(t)
      PROVE  Leaving'
  BY <1>5, Numbers, BrowserAssumption DEF TakeVerifier, EndCallback, FailCallback, Goto,
     cookies, users, sessions, tried, flow, Revoked, TypeOK, Shape, Single, Leaving,
     SigningIn, Stage
<1>6. ASSUME NEW t \in Tab, NoVerifier(t)
      PROVE  Leaving'
  BY <1>6, Numbers, BrowserAssumption DEF NoVerifier, EndCallback, FailCallback, Goto,
     codes, users, sessions, tried, flow, Revoked, TypeOK, Shape, Single, Leaving,
     SigningIn, Stage
<1>7. ASSUME NEW t \in Tab, ExchangeCode(t)
      PROVE  Leaving'
  BY <1>7, Numbers, BrowserAssumption DEF ExchangeCode, Goto, codes, cookies, users,
     tried, flow, Revoked, TypeOK, Shape, Single, Leaving, SigningIn, Stage
<1>8. ASSUME NEW t \in Tab, ExchangeRefused(t)
      PROVE  Leaving'
  BY <1>8, Numbers, BrowserAssumption DEF ExchangeRefused, EndCallback, FailCallback,
     Goto, codes, users, sessions, tried, flow, Revoked, TypeOK, Shape, Single, Leaving,
     SigningIn, Stage
<1>9. ASSUME NEW t \in Tab, StoreHandoff(t)
      PROVE  Leaving'
  BY <1>9, Numbers, BrowserAssumption DEF StoreHandoff, EndCallback, Goto, users,
     sessions, tried, flow, Revoked, TypeOK, Shape, Single, Leaving, SigningIn, Stage
<1>10. ASSUME NEW t \in Tab, ExchangeHandoff(t)
       PROVE  Leaving'
  BY <1>10, Numbers, BrowserAssumption DEF ExchangeHandoff, Goto, Rest, SetSession,
     cookies, users, tried, flow, Revoked, TypeOK, Shape, Single, Leaving, SigningIn,
     Stage
<1>11. ASSUME NEW t \in Tab, ExchangeLost(t)
       PROVE  Leaving'
  BY <1>11, Numbers, BrowserAssumption DEF ExchangeLost, cookies, users, sessions, tried,
     flow, Revoked, TypeOK, Shape, Single, Leaving, SigningIn, Stage
<1>12. ASSUME NEW t \in Tab, ExchangeUnknown(t)
       PROVE  Leaving'
  BY <1>12, Numbers, BrowserAssumption DEF ExchangeUnknown, Goto, codes, cookies, users,
     sessions, tried, flow, Revoked, TypeOK, Shape, Single, Leaving, SigningIn, Stage
<1>13. ASSUME NEW t \in Tab, CallbackBreaks(t)
       PROVE  Leaving'
  BY <1>13, Numbers, BrowserAssumption DEF CallbackBreaks, EndCallback, FailCallback,
     Goto, codes, users, sessions, tried, flow, Revoked, TypeOK, Shape, Single, Leaving,
     SigningIn, Stage
<1>14. ASSUME NEW t \in Tab, NEW i \in Identity, Login(t, i)
       PROVE  Leaving'
  BY <1>14, Numbers, BrowserAssumption DEF Login, Goto, NewAttempt, Free, codes, cookies,
     users, tried, flow, Revoked, TypeOK, Shape, Single, Leaving, SigningIn, Stage
<1>15. ASSUME NEW t \in Tab, NEW i \in Identity, Register(t, i)
       PROVE  Leaving'
  BY <1>15, Numbers, BrowserAssumption DEF Register, Goto, NewAttempt, Free, codes,
     cookies, users, sessions, tried, flow, Revoked, TypeOK, Shape, Single, Leaving,
     SigningIn, Stage
<1>16. ASSUME NEW t \in Tab, NEW session \in BOOLEAN, SignUp(t, session)
       PROVE  Leaving'
  BY <1>16, Numbers, BrowserAssumption DEF SignUp, Goto, codes, cookies, users, tried,
     flow, Revoked, TypeOK, Shape, Single, Leaving, SigningIn, Stage
<1>17. ASSUME NEW t \in Tab, SignUpRefused(t)
       PROVE  Leaving'
  BY <1>17, Numbers, BrowserAssumption DEF SignUpRefused, Goto, Rest, codes, cookies,
     users, sessions, tried, flow, Revoked, TypeOK, Shape, Single, Leaving, SigningIn,
     Stage
<1>18. ASSUME NEW t \in Tab, Answer(t)
       PROVE  Leaving'
  BY <1>18, Numbers, BrowserAssumption DEF Answer, Goto, Rest, SetSession, codes,
     cookies, users, tried, flow, Revoked, TypeOK, Shape, Single, Leaving, SigningIn,
     Stage
<1>19. ASSUME NEW t \in Tab, RequestBreaks(t)
       PROVE  Leaving'
  BY <1>19, Numbers, BrowserAssumption DEF RequestBreaks, Goto, codes, cookies, users,
     sessions, tried, flow, Revoked, TypeOK, Shape, Single, Leaving, SigningIn, Stage
<1>20. ASSUME NEW t \in Tab, FindById(t)
       PROVE  Leaving'
  BY <1>20, Numbers, BrowserAssumption DEF FindById, Goto, Settle, codes, cookies,
     sessions, tried, flow, Revoked, TypeOK, Shape, Single, Leaving, SigningIn, Stage
<1>21. ASSUME NEW t \in Tab, FindByEmail(t)
       PROVE  Leaving'
  BY <1>21, Numbers, BrowserAssumption DEF FindByEmail, Goto, Settle, codes, cookies,
     sessions, tried, flow, Revoked, TypeOK, Shape, Single, Leaving, SigningIn, Stage
<1>22. ASSUME NEW t \in Tab, Relink(t)
       PROVE  Leaving'
  BY <1>22, Numbers, BrowserAssumption DEF Relink, Goto, Settle, codes, cookies,
     sessions, tried, flow, Revoked, TypeOK, Shape, Single, Leaving, SigningIn, Stage
<1>23. ASSUME NEW t \in Tab, InsertUser(t)
       PROVE  Leaving'
  BY <1>23, Numbers, BrowserAssumption DEF InsertUser, Goto, Settle, codes, cookies,
     sessions, tried, flow, Revoked, TypeOK, Shape, Single, Leaving, SigningIn, Stage
<1>24. ASSUME NEW t \in Tab, InsertUserFails(t)
       PROVE  Leaving'
  BY <1>24, Numbers, BrowserAssumption DEF InsertUserFails, EndCallback, FailCallback,
     Goto, codes, cookies, users, sessions, tried, flow, Revoked, TypeOK, Shape, Single,
     Leaving, SigningIn, Stage
<1>25. ASSUME NEW t \in Tab, Refresh(t)
       PROVE  Leaving'
  BY <1>25, Numbers, BrowserAssumption DEF Refresh, Goto, Free, codes, cookies, users,
     sessions, tried, flow, Revoked, TypeOK, Shape, Single, Leaving, SigningIn, Stage
<1>26. ASSUME NEW t \in Tab, RefreshAnswer(t)
       PROVE  Leaving'
  BY <1>26, Numbers, BrowserAssumption DEF RefreshAnswer, Goto, Rest, SetSession, codes,
     cookies, users, tried, flow, Revoked, TypeOK, Shape, Single, Leaving, SigningIn,
     Stage
<1>27. ASSUME NEW t \in Tab, NEW fresh \in BOOLEAN, NEW reached \in BOOLEAN, Logout(t, fresh, reached)
       PROVE  Leaving'
  BY <1>27, Numbers, BrowserAssumption DEF Logout, Goto, Free, codes, cookies, users,
     tried, flow, Revoked, TypeOK, Shape, Single, Leaving, SigningIn, Stage
<1>28. ASSUME NEW t \in Tab, LogoutAnswer(t)
       PROVE  Leaving'
  BY <1>28, Numbers, BrowserAssumption DEF LogoutAnswer, Goto, Rest, ClearSession, codes,
     cookies, users, tried, flow, Revoked, TypeOK, Shape, Single, Leaving, SigningIn,
     Stage
<1>29. ASSUME NEW t \in Tab, GiveUp(t)
       PROVE  Leaving'
  BY <1>29, Numbers, BrowserAssumption DEF GiveUp, Goto, Rest, codes, cookies, users,
     sessions, tried, flow, Revoked, TypeOK, Shape, Single, Leaving, SigningIn, Stage
<1>30. ASSUME NEW b \in Browser, IssueTicket(b)
       PROVE  Leaving'
  BY <1>30, Numbers, BrowserAssumption DEF IssueTicket, cookies, users, sessions, tried,
     flow, Revoked, TypeOK, Shape, Single, Leaving, SigningIn, Stage
<1>31. ASSUME NEW b \in Browser, CookieExpires(b)
       PROVE  Leaving'
  BY <1>31, Numbers, BrowserAssumption DEF CookieExpires, codes, users, sessions, tried,
     flow, Revoked, TypeOK, Shape, Single, Leaving, SigningIn, Stage
<1>32. ASSUME NEW a \in Attempt, UseTicket(a)
       PROVE  Leaving'
  BY <1>32, Numbers, BrowserAssumption DEF UseTicket, cookies, users, sessions, tried,
     flow, Revoked, TypeOK, Shape, Single, Leaving, SigningIn, Stage
<1>33. ASSUME NEW c \in Code, KeyExpires(c)
       PROVE  Leaving'
  BY <1>33, Numbers, BrowserAssumption DEF KeyExpires, cookies, users, sessions, tried,
     flow, Revoked, TypeOK, Shape, Single, Leaving, SigningIn, Stage
<1> QED
  BY <1>1, <1>2, <1>3, <1>4, <1>5, <1>6, <1>7, <1>8, <1>9, <1>10,
     <1>11, <1>12, <1>13, <1>14, <1>15, <1>16, <1>17, <1>18, <1>19, <1>20,
     <1>21, <1>22, <1>23, <1>24, <1>25, <1>26, <1>27, <1>28, <1>29, <1>30,
     <1>31, <1>32, <1>33
     DEF Next, OAuth, Password, Provision, Session

LEMMA RefreshingKept ==
  ASSUME TypeOK, Shape, Single, Refreshing, LogoutHolds, [Next]_vars
  PROVE  Refreshing'
<1>1. CASE UNCHANGED vars
  BY <1>1 DEF vars, codes, cookies, users, sessions, tried, flow, TypeOK, Shape, Single,
     Refreshing, LogoutHolds, SigningIn, Stage
<1>2. ASSUME NEW t \in Tab, NEW given \in BOOLEAN, StartOAuth(t, given)
      PROVE  Refreshing'
  BY <1>2, Numbers, BrowserAssumption DEF StartOAuth, Goto, NewAttempt, Free, users,
     sessions, tried, flow, TypeOK, Shape, Single, Refreshing, LogoutHolds, SigningIn,
     Stage
<1>3. ASSUME NEW t \in Tab, NEW i \in Identity, ProviderReturns(t, i)
      PROVE  Refreshing'
  BY <1>3, Numbers, BrowserAssumption DEF ProviderReturns, Goto, codes, cookies, users,
     sessions, tried, flow, TypeOK, Shape, Single, Refreshing, LogoutHolds, SigningIn,
     Stage
<1>4. ASSUME NEW t \in Tab, ProviderDeclines(t)
      PROVE  Refreshing'
  BY <1>4, Numbers, BrowserAssumption DEF ProviderDeclines, EndCallback, FailCallback,
     Goto, codes, users, sessions, tried, flow, TypeOK, Shape, Single, Refreshing,
     LogoutHolds, SigningIn, Stage
<1>5. ASSUME NEW t \in Tab, TakeVerifier(t)
      PROVE  Refreshing'
  BY <1>5, Numbers, BrowserAssumption DEF TakeVerifier, EndCallback, FailCallback, Goto,
     cookies, users, sessions, tried, flow, TypeOK, Shape, Single, Refreshing,
     LogoutHolds, SigningIn, Stage
<1>6. ASSUME NEW t \in Tab, NoVerifier(t)
      PROVE  Refreshing'
  BY <1>6, Numbers, BrowserAssumption DEF NoVerifier, EndCallback, FailCallback, Goto,
     codes, users, sessions, tried, flow, TypeOK, Shape, Single, Refreshing, LogoutHolds,
     SigningIn, Stage
<1>7. ASSUME NEW t \in Tab, ExchangeCode(t)
      PROVE  Refreshing'
  BY <1>7, Numbers, BrowserAssumption DEF ExchangeCode, Goto, codes, cookies, users,
     tried, flow, TypeOK, Shape, Single, Refreshing, LogoutHolds, SigningIn, Stage
<1>8. ASSUME NEW t \in Tab, ExchangeRefused(t)
      PROVE  Refreshing'
  BY <1>8, Numbers, BrowserAssumption DEF ExchangeRefused, EndCallback, FailCallback,
     Goto, codes, users, sessions, tried, flow, TypeOK, Shape, Single, Refreshing,
     LogoutHolds, SigningIn, Stage
<1>9. ASSUME NEW t \in Tab, StoreHandoff(t)
      PROVE  Refreshing'
  BY <1>9, Numbers, BrowserAssumption DEF StoreHandoff, EndCallback, Goto, users,
     sessions, tried, flow, TypeOK, Shape, Single, Refreshing, LogoutHolds, SigningIn,
     Stage
<1>10. ASSUME NEW t \in Tab, ExchangeHandoff(t)
       PROVE  Refreshing'
  BY <1>10, Numbers, BrowserAssumption DEF ExchangeHandoff, Goto, Rest, SetSession,
     cookies, users, tried, flow, TypeOK, Shape, Single, Refreshing, LogoutHolds,
     SigningIn, Stage
<1>11. ASSUME NEW t \in Tab, ExchangeLost(t)
       PROVE  Refreshing'
  BY <1>11, Numbers, BrowserAssumption DEF ExchangeLost, cookies, users, sessions, tried,
     flow, TypeOK, Shape, Single, Refreshing, LogoutHolds, SigningIn, Stage
<1>12. ASSUME NEW t \in Tab, ExchangeUnknown(t)
       PROVE  Refreshing'
  BY <1>12, Numbers, BrowserAssumption DEF ExchangeUnknown, Goto, codes, cookies, users,
     sessions, tried, flow, TypeOK, Shape, Single, Refreshing, LogoutHolds, SigningIn,
     Stage
<1>13. ASSUME NEW t \in Tab, CallbackBreaks(t)
       PROVE  Refreshing'
  BY <1>13, Numbers, BrowserAssumption DEF CallbackBreaks, EndCallback, FailCallback,
     Goto, codes, users, sessions, tried, flow, TypeOK, Shape, Single, Refreshing,
     LogoutHolds, SigningIn, Stage
<1>14. ASSUME NEW t \in Tab, NEW i \in Identity, Login(t, i)
       PROVE  Refreshing'
  BY <1>14, Numbers, BrowserAssumption DEF Login, Goto, NewAttempt, Free, codes, cookies,
     users, tried, flow, TypeOK, Shape, Single, Refreshing, LogoutHolds, SigningIn, Stage
<1>15. ASSUME NEW t \in Tab, NEW i \in Identity, Register(t, i)
       PROVE  Refreshing'
  BY <1>15, Numbers, BrowserAssumption DEF Register, Goto, NewAttempt, Free, codes,
     cookies, users, sessions, tried, flow, TypeOK, Shape, Single, Refreshing,
     LogoutHolds, SigningIn, Stage
<1>16. ASSUME NEW t \in Tab, NEW session \in BOOLEAN, SignUp(t, session)
       PROVE  Refreshing'
  BY <1>16, Numbers, BrowserAssumption DEF SignUp, Goto, codes, cookies, users, tried,
     flow, TypeOK, Shape, Single, Refreshing, LogoutHolds, SigningIn, Stage
<1>17. ASSUME NEW t \in Tab, SignUpRefused(t)
       PROVE  Refreshing'
  BY <1>17, Numbers, BrowserAssumption DEF SignUpRefused, Goto, Rest, codes, cookies,
     users, sessions, tried, flow, TypeOK, Shape, Single, Refreshing, LogoutHolds,
     SigningIn, Stage
<1>18. ASSUME NEW t \in Tab, Answer(t)
       PROVE  Refreshing'
  BY <1>18, Numbers, BrowserAssumption DEF Answer, Goto, Rest, SetSession, codes,
     cookies, users, tried, flow, TypeOK, Shape, Single, Refreshing, LogoutHolds,
     SigningIn, Stage
<1>19. ASSUME NEW t \in Tab, RequestBreaks(t)
       PROVE  Refreshing'
  BY <1>19, Numbers, BrowserAssumption DEF RequestBreaks, Goto, codes, cookies, users,
     sessions, tried, flow, TypeOK, Shape, Single, Refreshing, LogoutHolds, SigningIn,
     Stage
<1>20. ASSUME NEW t \in Tab, FindById(t)
       PROVE  Refreshing'
  BY <1>20, Numbers, BrowserAssumption DEF FindById, Goto, Settle, codes, cookies,
     sessions, tried, flow, TypeOK, Shape, Single, Refreshing, LogoutHolds, SigningIn,
     Stage
<1>21. ASSUME NEW t \in Tab, FindByEmail(t)
       PROVE  Refreshing'
  BY <1>21, Numbers, BrowserAssumption DEF FindByEmail, Goto, Settle, codes, cookies,
     sessions, tried, flow, TypeOK, Shape, Single, Refreshing, LogoutHolds, SigningIn,
     Stage
<1>22. ASSUME NEW t \in Tab, Relink(t)
       PROVE  Refreshing'
  BY <1>22, Numbers, BrowserAssumption DEF Relink, Goto, Settle, codes, cookies,
     sessions, tried, flow, TypeOK, Shape, Single, Refreshing, LogoutHolds, SigningIn,
     Stage
<1>23. ASSUME NEW t \in Tab, InsertUser(t)
       PROVE  Refreshing'
  BY <1>23, Numbers, BrowserAssumption DEF InsertUser, Goto, Settle, codes, cookies,
     sessions, tried, flow, TypeOK, Shape, Single, Refreshing, LogoutHolds, SigningIn,
     Stage
<1>24. ASSUME NEW t \in Tab, InsertUserFails(t)
       PROVE  Refreshing'
  BY <1>24, Numbers, BrowserAssumption DEF InsertUserFails, EndCallback, FailCallback,
     Goto, codes, cookies, users, sessions, tried, flow, TypeOK, Shape, Single,
     Refreshing, LogoutHolds, SigningIn, Stage
<1>25. ASSUME NEW t \in Tab, Refresh(t)
       PROVE  Refreshing'
  BY <1>25, Numbers, BrowserAssumption DEF Refresh, Goto, Free, codes, cookies, users,
     sessions, tried, flow, TypeOK, Shape, Single, Refreshing, LogoutHolds, SigningIn,
     Stage
<1>26. ASSUME NEW t \in Tab, RefreshAnswer(t)
       PROVE  Refreshing'
  BY <1>26, Numbers, BrowserAssumption DEF RefreshAnswer, Goto, Rest, SetSession, codes,
     cookies, users, tried, flow, TypeOK, Shape, Single, Refreshing, LogoutHolds,
     SigningIn, Stage
<1>27. ASSUME NEW t \in Tab, NEW fresh \in BOOLEAN, NEW reached \in BOOLEAN, Logout(t, fresh, reached)
       PROVE  Refreshing'
  BY <1>27, Numbers, BrowserAssumption DEF Logout, Goto, Free, codes, cookies, users,
     tried, flow, TypeOK, Shape, Single, Refreshing, LogoutHolds, SigningIn, Stage
<1>28. ASSUME NEW t \in Tab, LogoutAnswer(t)
       PROVE  Refreshing'
  BY <1>28, Numbers, BrowserAssumption DEF LogoutAnswer, Goto, Rest, ClearSession, codes,
     cookies, users, tried, flow, TypeOK, Shape, Single, Refreshing, LogoutHolds,
     SigningIn, Stage
<1>29. ASSUME NEW t \in Tab, GiveUp(t)
       PROVE  Refreshing'
  BY <1>29, Numbers, BrowserAssumption DEF GiveUp, Goto, Rest, codes, cookies, users,
     sessions, tried, flow, TypeOK, Shape, Single, Refreshing, LogoutHolds, SigningIn,
     Stage
<1>30. ASSUME NEW b \in Browser, IssueTicket(b)
       PROVE  Refreshing'
  BY <1>30, Numbers, BrowserAssumption DEF IssueTicket, cookies, users, sessions, tried,
     flow, TypeOK, Shape, Single, Refreshing, LogoutHolds, SigningIn, Stage
<1>31. ASSUME NEW b \in Browser, CookieExpires(b)
       PROVE  Refreshing'
  BY <1>31, Numbers, BrowserAssumption DEF CookieExpires, codes, users, sessions, tried,
     flow, TypeOK, Shape, Single, Refreshing, LogoutHolds, SigningIn, Stage
<1>32. ASSUME NEW a \in Attempt, UseTicket(a)
       PROVE  Refreshing'
  BY <1>32, Numbers, BrowserAssumption DEF UseTicket, cookies, users, sessions, tried,
     flow, TypeOK, Shape, Single, Refreshing, LogoutHolds, SigningIn, Stage
<1>33. ASSUME NEW c \in Code, KeyExpires(c)
       PROVE  Refreshing'
  BY <1>33, Numbers, BrowserAssumption DEF KeyExpires, cookies, users, sessions, tried,
     flow, TypeOK, Shape, Single, Refreshing, LogoutHolds, SigningIn, Stage
<1> QED
  BY <1>1, <1>2, <1>3, <1>4, <1>5, <1>6, <1>7, <1>8, <1>9, <1>10,
     <1>11, <1>12, <1>13, <1>14, <1>15, <1>16, <1>17, <1>18, <1>19, <1>20,
     <1>21, <1>22, <1>23, <1>24, <1>25, <1>26, <1>27, <1>28, <1>29, <1>30,
     <1>31, <1>32, <1>33
     DEF Next, OAuth, Password, Provision, Session

LEMMA LogoutKept ==
  ASSUME TypeOK, Shape, Single, OneJar, Leaving, Refreshing, LogoutHolds, [Next]_vars
  PROVE  LogoutHolds'
<1>1. CASE UNCHANGED vars
  BY <1>1 DEF vars, codes, cookies, users, sessions, tried, flow, TypeOK, Shape, Single,
     OneJar, Leaving, Refreshing, LogoutHolds, SigningIn, HasSession, Stage
<1>2. ASSUME NEW t \in Tab, NEW given \in BOOLEAN, StartOAuth(t, given)
      PROVE  LogoutHolds'
  BY <1>2, Numbers, BrowserAssumption DEF StartOAuth, Goto, NewAttempt, Free, users,
     sessions, tried, flow, TypeOK, Shape, Single, OneJar, Leaving, Refreshing,
     LogoutHolds, SigningIn, HasSession, Stage
<1>3. ASSUME NEW t \in Tab, NEW i \in Identity, ProviderReturns(t, i)
      PROVE  LogoutHolds'
  BY <1>3, Numbers, BrowserAssumption DEF ProviderReturns, Goto, codes, cookies, users,
     sessions, tried, flow, TypeOK, Shape, Single, OneJar, Leaving, Refreshing,
     LogoutHolds, SigningIn, HasSession, Stage
<1>4. ASSUME NEW t \in Tab, ProviderDeclines(t)
      PROVE  LogoutHolds'
  BY <1>4, Numbers, BrowserAssumption DEF ProviderDeclines, EndCallback, FailCallback,
     Goto, codes, users, sessions, tried, flow, TypeOK, Shape, Single, OneJar, Leaving,
     Refreshing, LogoutHolds, SigningIn, HasSession, Stage
<1>5. ASSUME NEW t \in Tab, TakeVerifier(t)
      PROVE  LogoutHolds'
  BY <1>5, Numbers, BrowserAssumption DEF TakeVerifier, EndCallback, FailCallback, Goto,
     cookies, users, sessions, tried, flow, TypeOK, Shape, Single, OneJar, Leaving,
     Refreshing, LogoutHolds, SigningIn, HasSession, Stage
<1>6. ASSUME NEW t \in Tab, NoVerifier(t)
      PROVE  LogoutHolds'
  BY <1>6, Numbers, BrowserAssumption DEF NoVerifier, EndCallback, FailCallback, Goto,
     codes, users, sessions, tried, flow, TypeOK, Shape, Single, OneJar, Leaving,
     Refreshing, LogoutHolds, SigningIn, HasSession, Stage
<1>7. ASSUME NEW t \in Tab, ExchangeCode(t)
      PROVE  LogoutHolds'
  BY <1>7, Numbers, BrowserAssumption DEF ExchangeCode, Goto, codes, cookies, users,
     tried, flow, TypeOK, Shape, Single, OneJar, Leaving, Refreshing, LogoutHolds,
     SigningIn, HasSession, Stage
<1>8. ASSUME NEW t \in Tab, ExchangeRefused(t)
      PROVE  LogoutHolds'
  BY <1>8, Numbers, BrowserAssumption DEF ExchangeRefused, EndCallback, FailCallback,
     Goto, codes, users, sessions, tried, flow, TypeOK, Shape, Single, OneJar, Leaving,
     Refreshing, LogoutHolds, SigningIn, HasSession, Stage
<1>9. ASSUME NEW t \in Tab, StoreHandoff(t)
      PROVE  LogoutHolds'
  BY <1>9, Numbers, BrowserAssumption DEF StoreHandoff, EndCallback, Goto, users,
     sessions, tried, flow, TypeOK, Shape, Single, OneJar, Leaving, Refreshing,
     LogoutHolds, SigningIn, HasSession, Stage
<1>10. ASSUME NEW t \in Tab, ExchangeHandoff(t)
       PROVE  LogoutHolds'
  BY <1>10, Numbers, BrowserAssumption DEF ExchangeHandoff, Goto, Rest, SetSession,
     cookies, users, tried, flow, TypeOK, Shape, Single, OneJar, Leaving, Refreshing,
     LogoutHolds, SigningIn, HasSession, Stage
<1>11. ASSUME NEW t \in Tab, ExchangeLost(t)
       PROVE  LogoutHolds'
  BY <1>11, Numbers, BrowserAssumption DEF ExchangeLost, cookies, users, sessions, tried,
     flow, TypeOK, Shape, Single, OneJar, Leaving, Refreshing, LogoutHolds, SigningIn,
     HasSession, Stage
<1>12. ASSUME NEW t \in Tab, ExchangeUnknown(t)
       PROVE  LogoutHolds'
  BY <1>12, Numbers, BrowserAssumption DEF ExchangeUnknown, Goto, codes, cookies, users,
     sessions, tried, flow, TypeOK, Shape, Single, OneJar, Leaving, Refreshing,
     LogoutHolds, SigningIn, HasSession, Stage
<1>13. ASSUME NEW t \in Tab, CallbackBreaks(t)
       PROVE  LogoutHolds'
  BY <1>13, Numbers, BrowserAssumption DEF CallbackBreaks, EndCallback, FailCallback,
     Goto, codes, users, sessions, tried, flow, TypeOK, Shape, Single, OneJar, Leaving,
     Refreshing, LogoutHolds, SigningIn, HasSession, Stage
<1>14. ASSUME NEW t \in Tab, NEW i \in Identity, Login(t, i)
       PROVE  LogoutHolds'
  BY <1>14, Numbers, BrowserAssumption DEF Login, Goto, NewAttempt, Free, codes, cookies,
     users, tried, flow, TypeOK, Shape, Single, OneJar, Leaving, Refreshing, LogoutHolds,
     SigningIn, HasSession, Stage
<1>15. ASSUME NEW t \in Tab, NEW i \in Identity, Register(t, i)
       PROVE  LogoutHolds'
  BY <1>15, Numbers, BrowserAssumption DEF Register, Goto, NewAttempt, Free, codes,
     cookies, users, sessions, tried, flow, TypeOK, Shape, Single, OneJar, Leaving,
     Refreshing, LogoutHolds, SigningIn, HasSession, Stage
<1>16. ASSUME NEW t \in Tab, NEW session \in BOOLEAN, SignUp(t, session)
       PROVE  LogoutHolds'
  BY <1>16, Numbers, BrowserAssumption DEF SignUp, Goto, codes, cookies, users, tried,
     flow, TypeOK, Shape, Single, OneJar, Leaving, Refreshing, LogoutHolds, SigningIn,
     HasSession, Stage
<1>17. ASSUME NEW t \in Tab, SignUpRefused(t)
       PROVE  LogoutHolds'
  BY <1>17, Numbers, BrowserAssumption DEF SignUpRefused, Goto, Rest, codes, cookies,
     users, sessions, tried, flow, TypeOK, Shape, Single, OneJar, Leaving, Refreshing,
     LogoutHolds, SigningIn, HasSession, Stage
<1>18. ASSUME NEW t \in Tab, Answer(t)
       PROVE  LogoutHolds'
  BY <1>18, Numbers, BrowserAssumption DEF Answer, Goto, Rest, SetSession, codes,
     cookies, users, tried, flow, TypeOK, Shape, Single, OneJar, Leaving, Refreshing,
     LogoutHolds, SigningIn, HasSession, Stage
<1>19. ASSUME NEW t \in Tab, RequestBreaks(t)
       PROVE  LogoutHolds'
  BY <1>19, Numbers, BrowserAssumption DEF RequestBreaks, Goto, codes, cookies, users,
     sessions, tried, flow, TypeOK, Shape, Single, OneJar, Leaving, Refreshing,
     LogoutHolds, SigningIn, HasSession, Stage
<1>20. ASSUME NEW t \in Tab, FindById(t)
       PROVE  LogoutHolds'
  BY <1>20, Numbers, BrowserAssumption DEF FindById, Goto, Settle, codes, cookies,
     sessions, tried, flow, TypeOK, Shape, Single, OneJar, Leaving, Refreshing,
     LogoutHolds, SigningIn, HasSession, Stage
<1>21. ASSUME NEW t \in Tab, FindByEmail(t)
       PROVE  LogoutHolds'
  BY <1>21, Numbers, BrowserAssumption DEF FindByEmail, Goto, Settle, codes, cookies,
     sessions, tried, flow, TypeOK, Shape, Single, OneJar, Leaving, Refreshing,
     LogoutHolds, SigningIn, HasSession, Stage
<1>22. ASSUME NEW t \in Tab, Relink(t)
       PROVE  LogoutHolds'
  BY <1>22, Numbers, BrowserAssumption DEF Relink, Goto, Settle, codes, cookies,
     sessions, tried, flow, TypeOK, Shape, Single, OneJar, Leaving, Refreshing,
     LogoutHolds, SigningIn, HasSession, Stage
<1>23. ASSUME NEW t \in Tab, InsertUser(t)
       PROVE  LogoutHolds'
  BY <1>23, Numbers, BrowserAssumption DEF InsertUser, Goto, Settle, codes, cookies,
     sessions, tried, flow, TypeOK, Shape, Single, OneJar, Leaving, Refreshing,
     LogoutHolds, SigningIn, HasSession, Stage
<1>24. ASSUME NEW t \in Tab, InsertUserFails(t)
       PROVE  LogoutHolds'
  BY <1>24, Numbers, BrowserAssumption DEF InsertUserFails, EndCallback, FailCallback,
     Goto, codes, cookies, users, sessions, tried, flow, TypeOK, Shape, Single, OneJar,
     Leaving, Refreshing, LogoutHolds, SigningIn, HasSession, Stage
<1>25. ASSUME NEW t \in Tab, Refresh(t)
       PROVE  LogoutHolds'
  BY <1>25, Numbers, BrowserAssumption DEF Refresh, Goto, Free, codes, cookies, users,
     sessions, tried, flow, TypeOK, Shape, Single, OneJar, Leaving, Refreshing,
     LogoutHolds, SigningIn, HasSession, Stage
<1>26. ASSUME NEW t \in Tab, RefreshAnswer(t)
       PROVE  LogoutHolds'
  BY <1>26, Numbers, BrowserAssumption DEF RefreshAnswer, Goto, Rest, SetSession, codes,
     cookies, users, tried, flow, TypeOK, Shape, Single, OneJar, Leaving, Refreshing,
     LogoutHolds, SigningIn, HasSession, Stage
<1>27. ASSUME NEW t \in Tab, NEW fresh \in BOOLEAN, NEW reached \in BOOLEAN, Logout(t, fresh, reached)
       PROVE  LogoutHolds'
  BY <1>27, Numbers, BrowserAssumption DEF Logout, Goto, Free, codes, cookies, users,
     tried, flow, TypeOK, Shape, Single, OneJar, Leaving, Refreshing, LogoutHolds,
     SigningIn, HasSession, Stage
<1>28. ASSUME NEW t \in Tab, LogoutAnswer(t)
       PROVE  LogoutHolds'
  <2>1. stage[t] = "leaving" /\ BrowserOf[t] \in Browser /\ att[t] # NoAttempt
    BY <1>28, Numbers, BrowserAssumption DEF LogoutAnswer, Shape, TypeOK
  <2>2. /\ alive' = alive /\ unrevoked' = unrevoked /\ overlapped \subseteq overlapped'
        /\ loggedOut' = loggedOut \cup {att[t]}
        /\ jar'[BrowserOf[t]] = NoAttempt
        /\ \A b \in Browser \ {BrowserOf[t]} : jar'[b] = jar[b]
    BY <1>28, <2>1 DEF LogoutAnswer, ClearSession, TypeOK
  <2>3. \A b \in Browser : jar[b] = att[t] => b = BrowserOf[t]
    BY <2>1 DEF OneJar, HasSession
  <2>4. NoAttempt \notin loggedOut'
    BY <2>1, <2>2, Numbers DEF TypeOK
  <2> QED
    BY <2>1, <2>2, <2>3, <2>4 DEF LogoutHolds, Leaving
<1>29. ASSUME NEW t \in Tab, GiveUp(t)
       PROVE  LogoutHolds'
  BY <1>29, Numbers, BrowserAssumption DEF GiveUp, Goto, Rest, codes, cookies, users,
     sessions, tried, flow, TypeOK, Shape, Single, OneJar, Leaving, Refreshing,
     LogoutHolds, SigningIn, HasSession, Stage
<1>30. ASSUME NEW b \in Browser, IssueTicket(b)
       PROVE  LogoutHolds'
  BY <1>30, Numbers, BrowserAssumption DEF IssueTicket, cookies, users, sessions, tried,
     flow, TypeOK, Shape, Single, OneJar, Leaving, Refreshing, LogoutHolds, SigningIn,
     HasSession, Stage
<1>31. ASSUME NEW b \in Browser, CookieExpires(b)
       PROVE  LogoutHolds'
  BY <1>31, Numbers, BrowserAssumption DEF CookieExpires, codes, users, sessions, tried,
     flow, TypeOK, Shape, Single, OneJar, Leaving, Refreshing, LogoutHolds, SigningIn,
     HasSession, Stage
<1>32. ASSUME NEW a \in Attempt, UseTicket(a)
       PROVE  LogoutHolds'
  BY <1>32, Numbers, BrowserAssumption DEF UseTicket, cookies, users, sessions, tried,
     flow, TypeOK, Shape, Single, OneJar, Leaving, Refreshing, LogoutHolds, SigningIn,
     HasSession, Stage
<1>33. ASSUME NEW c \in Code, KeyExpires(c)
       PROVE  LogoutHolds'
  BY <1>33, Numbers, BrowserAssumption DEF KeyExpires, cookies, users, sessions, tried,
     flow, TypeOK, Shape, Single, OneJar, Leaving, Refreshing, LogoutHolds, SigningIn,
     HasSession, Stage
<1> QED
  BY <1>1, <1>2, <1>3, <1>4, <1>5, <1>6, <1>7, <1>8, <1>9, <1>10,
     <1>11, <1>12, <1>13, <1>14, <1>15, <1>16, <1>17, <1>18, <1>19, <1>20,
     <1>21, <1>22, <1>23, <1>24, <1>25, <1>26, <1>27, <1>28, <1>29, <1>30,
     <1>31, <1>32, <1>33
     DEF Next, OAuth, Password, Provision, Session

LEMMA SettledKept ==
  ASSUME TypeOK, Shape, Single, Settled, [Next]_vars
  PROVE  Settled'
<1>1. CASE UNCHANGED vars
  BY <1>1 DEF vars, codes, cookies, users, sessions, tried, flow, TypeOK, Shape, Single,
     Settled, SigningIn, HasSession, Named, Stage
<1>2. ASSUME NEW t \in Tab, NEW given \in BOOLEAN, StartOAuth(t, given)
      PROVE  Settled'
  BY <1>2, Numbers, BrowserAssumption, EmailAssumption, NoneAssumption DEF StartOAuth,
     Goto, NewAttempt, Free, users, sessions, tried, flow, TypeOK, Shape, Single,
     Settled, SigningIn, HasSession, Named, Stage
<1>3. ASSUME NEW t \in Tab, NEW i \in Identity, ProviderReturns(t, i)
      PROVE  Settled'
  <2>1. /\ stage[t] = "away" /\ stage'[t] = "called" /\ att' = att /\ jar' = jar
        /\ settled' = settled /\ displaced' = displaced /\ row' = row
        /\ \A u \in Tab \ {t} : stage'[u] = stage[u]
    BY <1>3 DEF ProviderReturns, Goto, TypeOK, users, sessions
  <2>2. att[t] \in Attempt /\ att[t] \notin settled /\ \A u \in Tab \ {t} : att[u] # att[t]
    BY <2>1, Numbers DEF Shape, TypeOK, Single, SigningIn, Stage
  <2>3. who'[att[t]] = i /\ \A a \in Attempt \ {att[t]} : who'[a] = who[a]
    BY <1>3, <2>2 DEF ProviderReturns, TypeOK
  <2>4. settled \subseteq Attempt
    BY DEF TypeOK
  <2>5. \A u \in Tab \ {t} : stage[u] \in Named => att[u] \in Attempt \ {att[t]}
    BY <2>2, Numbers DEF Shape, TypeOK, Named
  <2> QED
    BY <2>1, <2>2, <2>3, <2>4, <2>5 DEF Settled, HasSession, Named, Stage
<1>4. ASSUME NEW t \in Tab, ProviderDeclines(t)
      PROVE  Settled'
  BY <1>4, Numbers, BrowserAssumption, EmailAssumption, NoneAssumption DEF
     ProviderDeclines, EndCallback, FailCallback, Goto, codes, users, sessions, tried,
     flow, TypeOK, Shape, Single, Settled, SigningIn, HasSession, Named, Stage
<1>5. ASSUME NEW t \in Tab, TakeVerifier(t)
      PROVE  Settled'
  <2>1. /\ stage[t] = "called"
        /\ \E s \in {"failed", "exchange"} : stage' = [stage EXCEPT ![t] = s]
    BY <1>5 DEF TakeVerifier, FailCallback, Goto
  <2>2. UNCHANGED <<att, who, row, settled, displaced, jar>>
    BY <1>5 DEF TakeVerifier, users, sessions
  <2> QED
    BY <2>1, <2>2 DEF TypeOK, Settled, HasSession, Named, Stage
<1>6. ASSUME NEW t \in Tab, NoVerifier(t)
      PROVE  Settled'
  BY <1>6, Numbers, BrowserAssumption, EmailAssumption, NoneAssumption DEF NoVerifier,
     EndCallback, FailCallback, Goto, codes, users, sessions, tried, flow, TypeOK, Shape,
     Single, Settled, SigningIn, HasSession, Named, Stage
<1>7. ASSUME NEW t \in Tab, ExchangeCode(t)
      PROVE  Settled'
  BY <1>7, Numbers, BrowserAssumption, EmailAssumption, NoneAssumption DEF ExchangeCode,
     Goto, codes, cookies, users, tried, flow, TypeOK, Shape, Single, Settled, SigningIn,
     HasSession, Named, Stage
<1>8. ASSUME NEW t \in Tab, ExchangeRefused(t)
      PROVE  Settled'
  BY <1>8, Numbers, BrowserAssumption, EmailAssumption, NoneAssumption DEF
     ExchangeRefused, EndCallback, FailCallback, Goto, codes, users, sessions, tried,
     flow, TypeOK, Shape, Single, Settled, SigningIn, HasSession, Named, Stage
<1>9. ASSUME NEW t \in Tab, StoreHandoff(t)
      PROVE  Settled'
  BY <1>9, Numbers, BrowserAssumption, EmailAssumption, NoneAssumption DEF StoreHandoff,
     EndCallback, Goto, users, sessions, tried, flow, TypeOK, Shape, Single, Settled,
     SigningIn, HasSession, Named, Stage
<1>10. ASSUME NEW t \in Tab, ExchangeHandoff(t)
       PROVE  Settled'
  <2>1. /\ stage[t] = "code" /\ stage'[t] \in {"idle", "failed"}
        /\ \A u \in Tab \ {t} : stage'[u] = stage[u] /\ att'[u] = att[u]
        /\ \A b \in Browser : jar'[b] \in {jar[b], att[t]}
    BY <1>10 DEF ExchangeHandoff, Goto, Rest, SetSession, TypeOK
  <2>2. who' = who /\ settled' = settled /\ displaced' = displaced /\ row' = row
    BY <1>10 DEF ExchangeHandoff, users
  <2>3. att[t] \in settled
    BY <2>1 DEF Settled
  <2> QED
    BY <2>1, <2>2, <2>3 DEF Settled, HasSession, Named
<1>11. ASSUME NEW t \in Tab, ExchangeLost(t)
       PROVE  Settled'
  BY <1>11, Numbers, BrowserAssumption, EmailAssumption, NoneAssumption DEF ExchangeLost,
     cookies, users, sessions, tried, flow, TypeOK, Shape, Single, Settled, SigningIn,
     HasSession, Named, Stage
<1>12. ASSUME NEW t \in Tab, ExchangeUnknown(t)
       PROVE  Settled'
  BY <1>12, Numbers, BrowserAssumption, EmailAssumption, NoneAssumption DEF
     ExchangeUnknown, Goto, codes, cookies, users, sessions, tried, flow, TypeOK, Shape,
     Single, Settled, SigningIn, HasSession, Named, Stage
<1>13. ASSUME NEW t \in Tab, CallbackBreaks(t)
       PROVE  Settled'
  BY <1>13, Numbers, BrowserAssumption, EmailAssumption, NoneAssumption DEF
     CallbackBreaks, EndCallback, FailCallback, Goto, codes, users, sessions, tried,
     flow, TypeOK, Shape, Single, Settled, SigningIn, HasSession, Named, Stage
<1>14. ASSUME NEW t \in Tab, NEW i \in Identity, Login(t, i)
       PROVE  Settled'
  BY <1>14, Numbers, BrowserAssumption, EmailAssumption, NoneAssumption DEF Login, Goto,
     NewAttempt, Free, codes, cookies, users, tried, flow, TypeOK, Shape, Single,
     Settled, SigningIn, HasSession, Named, Stage
<1>15. ASSUME NEW t \in Tab, NEW i \in Identity, Register(t, i)
       PROVE  Settled'
  BY <1>15, Numbers, BrowserAssumption, EmailAssumption, NoneAssumption DEF Register,
     Goto, NewAttempt, Free, codes, cookies, users, sessions, tried, flow, TypeOK, Shape,
     Single, Settled, SigningIn, HasSession, Named, Stage
<1>16. ASSUME NEW t \in Tab, NEW session \in BOOLEAN, SignUp(t, session)
       PROVE  Settled'
  BY <1>16, Numbers, BrowserAssumption, EmailAssumption, NoneAssumption DEF SignUp, Goto,
     codes, cookies, users, tried, flow, TypeOK, Shape, Single, Settled, SigningIn,
     HasSession, Named, Stage
<1>17. ASSUME NEW t \in Tab, SignUpRefused(t)
       PROVE  Settled'
  BY <1>17, Numbers, BrowserAssumption, EmailAssumption, NoneAssumption DEF
     SignUpRefused, Goto, Rest, codes, cookies, users, sessions, tried, flow, TypeOK,
     Shape, Single, Settled, SigningIn, HasSession, Named, Stage
<1>18. ASSUME NEW t \in Tab, Answer(t)
       PROVE  Settled'
  BY <1>18, Numbers, BrowserAssumption, EmailAssumption, NoneAssumption DEF Answer, Goto,
     Rest, SetSession, codes, cookies, users, tried, flow, TypeOK, Shape, Single,
     Settled, SigningIn, HasSession, Named, Stage
<1>19. ASSUME NEW t \in Tab, RequestBreaks(t)
       PROVE  Settled'
  BY <1>19, Numbers, BrowserAssumption, EmailAssumption, NoneAssumption DEF
     RequestBreaks, Goto, codes, cookies, users, sessions, tried, flow, TypeOK, Shape,
     Single, Settled, SigningIn, HasSession, Named, Stage
<1>20. ASSUME NEW t \in Tab, FindById(t)
       PROVE  Settled'
  BY <1>20, Numbers, BrowserAssumption, EmailAssumption, NoneAssumption DEF FindById,
     Goto, Settle, codes, cookies, sessions, tried, flow, TypeOK, Shape, Single, Settled,
     SigningIn, HasSession, Named, Stage, Mail
<1>21. ASSUME NEW t \in Tab, FindByEmail(t)
       PROVE  Settled'
  BY <1>21, Numbers, BrowserAssumption, EmailAssumption, NoneAssumption DEF FindByEmail,
     Goto, Settle, codes, cookies, sessions, tried, flow, TypeOK, Shape, Single, Settled,
     SigningIn, HasSession, Named, Stage, Mail
<1>22. ASSUME NEW t \in Tab, Relink(t)
       PROVE  Settled'
  BY <1>22, Numbers, BrowserAssumption, EmailAssumption, NoneAssumption DEF Relink, Goto,
     Settle, codes, cookies, sessions, tried, flow, TypeOK, Shape, Single, Settled,
     SigningIn, HasSession, Named, Stage, Mail
<1>23. ASSUME NEW t \in Tab, InsertUser(t)
       PROVE  Settled'
  BY <1>23, Numbers, BrowserAssumption, EmailAssumption, NoneAssumption DEF InsertUser,
     Goto, Settle, codes, cookies, sessions, tried, flow, TypeOK, Shape, Single, Settled,
     SigningIn, HasSession, Named, Stage, Mail
<1>24. ASSUME NEW t \in Tab, InsertUserFails(t)
       PROVE  Settled'
  BY <1>24, Numbers, BrowserAssumption, EmailAssumption, NoneAssumption DEF
     InsertUserFails, EndCallback, FailCallback, Goto, codes, cookies, users, sessions,
     tried, flow, TypeOK, Shape, Single, Settled, SigningIn, HasSession, Named, Stage,
     Mail
<1>25. ASSUME NEW t \in Tab, Refresh(t)
       PROVE  Settled'
  <2>1. /\ stage'[t] = "refreshing" /\ att'[t] = jar[BrowserOf[t]]
        /\ \A u \in Tab \ {t} : stage'[u] = stage[u] /\ att'[u] = att[u]
    BY <1>25 DEF Refresh, Goto, TypeOK
  <2>2. /\ who' = who /\ jar' = jar
        /\ settled' = settled /\ displaced' = displaced /\ row' = row
    BY <1>25 DEF Refresh, users, sessions
  <2>3. jar[BrowserOf[t]] \in settled
    BY <1>25, Numbers, BrowserAssumption DEF Refresh, Settled, TypeOK
  <2> QED
    BY <2>1, <2>2, <2>3 DEF Settled, HasSession, Named
<1>26. ASSUME NEW t \in Tab, RefreshAnswer(t)
       PROVE  Settled'
  BY <1>26, Numbers, BrowserAssumption, EmailAssumption, NoneAssumption DEF
     RefreshAnswer, Goto, Rest, SetSession, codes, cookies, users, tried, flow, TypeOK,
     Shape, Single, Settled, SigningIn, HasSession, Named, Stage
<1>27. ASSUME NEW t \in Tab, NEW fresh \in BOOLEAN, NEW reached \in BOOLEAN, Logout(t, fresh, reached)
       PROVE  Settled'
  BY <1>27, Numbers, BrowserAssumption, EmailAssumption, NoneAssumption DEF Logout, Goto,
     Free, codes, cookies, users, tried, flow, TypeOK, Shape, Single, Settled, SigningIn,
     HasSession, Named, Stage
<1>28. ASSUME NEW t \in Tab, LogoutAnswer(t)
       PROVE  Settled'
  BY <1>28, Numbers, BrowserAssumption, EmailAssumption, NoneAssumption DEF LogoutAnswer,
     Goto, Rest, ClearSession, codes, cookies, users, tried, flow, TypeOK, Shape, Single,
     Settled, SigningIn, HasSession, Named, Stage
<1>29. ASSUME NEW t \in Tab, GiveUp(t)
       PROVE  Settled'
  BY <1>29, Numbers, BrowserAssumption, EmailAssumption, NoneAssumption DEF GiveUp, Goto,
     Rest, codes, cookies, users, sessions, tried, flow, TypeOK, Shape, Single, Settled,
     SigningIn, HasSession, Named, Stage
<1>30. ASSUME NEW b \in Browser, IssueTicket(b)
       PROVE  Settled'
  BY <1>30, Numbers, BrowserAssumption, EmailAssumption, NoneAssumption DEF IssueTicket,
     cookies, users, sessions, tried, flow, TypeOK, Shape, Single, Settled, SigningIn,
     HasSession, Named, Stage
<1>31. ASSUME NEW b \in Browser, CookieExpires(b)
       PROVE  Settled'
  BY <1>31, Numbers, BrowserAssumption, EmailAssumption, NoneAssumption DEF
     CookieExpires, codes, users, sessions, tried, flow, TypeOK, Shape, Single, Settled,
     SigningIn, HasSession, Named, Stage
<1>32. ASSUME NEW a \in Attempt, UseTicket(a)
       PROVE  Settled'
  BY <1>32, Numbers, BrowserAssumption, EmailAssumption, NoneAssumption DEF UseTicket,
     cookies, users, sessions, tried, flow, TypeOK, Shape, Single, Settled, SigningIn,
     HasSession, Named, Stage
<1>33. ASSUME NEW c \in Code, KeyExpires(c)
       PROVE  Settled'
  BY <1>33, Numbers, BrowserAssumption, EmailAssumption, NoneAssumption DEF KeyExpires,
     cookies, users, sessions, tried, flow, TypeOK, Shape, Single, Settled, SigningIn,
     HasSession, Named, Stage
<1> QED
  BY <1>1, <1>2, <1>3, <1>4, <1>5, <1>6, <1>7, <1>8, <1>9, <1>10,
     <1>11, <1>12, <1>13, <1>14, <1>15, <1>16, <1>17, <1>18, <1>19, <1>20,
     <1>21, <1>22, <1>23, <1>24, <1>25, <1>26, <1>27, <1>28, <1>29, <1>30,
     <1>31, <1>32, <1>33
     DEF Next, OAuth, Password, Provision, Session

-----------------------------------------------------------------------------
(* The invariant, and the results.                                         *)

LEMMA InitIInv == Init => IInv
<1> SUFFICES ASSUME Init PROVE IInv
  OBVIOUS
<1>1. last = 0 /\ stage = [t \in Tab |-> "idle"] /\ att = [t \in Tab |-> NoAttempt]
      /\ jar = [b \in Browser |-> NoAttempt] /\ alive = {} /\ settled = {} /\ loggedOut = {}
      /\ issued = {}
  BY DEF Init
<1>2. FlowTyped
  BY BoundAssumption DEF Init, FlowTyped, Stage, NoCookies
<1>3. UsersTyped /\ RedisTyped /\ mishap \subseteq Attempt
  BY DEF Init, UsersTyped, RedisTyped
<1>4. TypeOK
  BY <1>2, <1>3, <1>1 DEF TypeOK, FlowTyped, UsersTyped, RedisTyped
<1>5. Shape /\ Single /\ OneJar /\ Leaving /\ Refreshing /\ Settled
  BY <1>1 DEF Shape, Single, SigningIn, OneJar, HasSession, Leaving, Refreshing, Settled,
     Named, NoAttempt
<1>6. LogoutHolds /\ SessionsResolve
  BY <1>1 DEF LogoutHolds, SessionsResolve
<1> QED
  BY <1>4, <1>5, <1>6 DEF IInv

(* Whoever has a session has a row, or had one that another took over.     *)
LEMMA SettledResolve == Settled => SessionsResolve
BY DEF Settled, SessionsResolve

LEMMA NextIInv == IInv /\ [Next]_vars => IInv'
<1> SUFFICES ASSUME IInv, [Next]_vars PROVE IInv'
  OBVIOUS
<1>1. TypeOK' /\ Shape' /\ Single' /\ OneJar'
  BY TypeKept, ShapeKept, SingleKept, OneJarKept DEF IInv
<1>2. Leaving' /\ Refreshing' /\ LogoutHolds'
  BY LeavingKept, RefreshingKept, LogoutKept DEF IInv
<1>3. Settled'
  BY SettledKept DEF IInv
<1>4. SessionsResolve'
  BY <1>3 DEF Settled, SessionsResolve
<1> QED
  BY <1>1, <1>2, <1>3, <1>4 DEF IInv

(* The strengthened invariant holds in every state of the specification.   *)
THEOREM Invariance == Spec => []IInv
BY InitIInv, NextIInv, PTL DEF Spec

(* Every variable keeps its type.                                          *)
THEOREM TypeCorrect == Spec => []TypeOK
BY Invariance, PTL DEF IInv

(* The verifiers, handoff codes and tickets that oauth_callback,           *)
(* oauth_exchange and _ws_authenticate take from Redis are codes of        *)
(* OneTimeCodes.                                                           *)
THEOREM CodesAreOneTime == Spec => CodesSpec
<1>1. Init => Codes!Init
  BY DEF Init, Codes!Init
<1>2. IInv /\ [Next]_vars => [Codes!Next]_<<issued, redis, uses>>
  BY CodesStep DEF IInv, codes
<1> QED
  BY <1>1, <1>2, Invariance, PTL DEF Spec, CodesSpec, Codes!Spec

(* So none of them is accepted twice.                                      *)
THEOREM CodesWorkOnce == Spec => []Codes!UsedAtMostOnce
<1> DEFINE Once == /\ redis \subseteq issued
                   /\ \A c \in Code : c \notin issued => uses[c] = 0
                   /\ Codes!UsedAtMostOnce
<1>1. Init => Once
  BY DEF Init, Codes!UsedAtMostOnce
<1>2. IInv /\ Once /\ [Next]_vars => Once'
  <2> SUFFICES ASSUME IInv, Once, [Next]_vars PROVE Once'
    OBVIOUS
  <2>1. uses \in [Code -> Nat]
    BY DEF IInv, TypeOK
  <2>2. Codes!Next \/ UNCHANGED codes
    BY CodesStep DEF IInv
  <2>3. CASE UNCHANGED codes
    BY <2>3 DEF codes, Codes!UsedAtMostOnce
  <2>4. CASE Codes!Next
    BY <2>1, <2>4 DEF Codes!Next, Codes!Issue, Codes!Use, Codes!Lapse, Codes!UsedAtMostOnce
  <2> QED
    BY <2>2, <2>3, <2>4
<1>3. Once => Codes!UsedAtMostOnce
  OBVIOUS
<1> QED
  BY <1>1, <1>2, <1>3, Invariance, PTL DEF Spec

(* logout: the provider does not honour a session that was signed out, and *)
(* no browser has it, but for what could not be told and for refreshes     *)
(* that were in flight.                                                    *)
THEOREM SignOutHolds == Spec => []LogoutHolds
BY Invariance, PTL DEF IInv

(* _get_or_create_user: whoever has a session is found by get_current_user *)
(* unless another identity took the address over.                          *)
THEOREM SessionsAreOfUsers == Spec => []SessionsResolve
BY Invariance, PTL DEF IInv

-----------------------------------------------------------------------------
(* Failures.  As long as nothing got in the way of an attempt, the cookies,*)
(* the verifier and the handoff code that its tab counts on are its own    *)
(* (Belongs), and its address is free to be inserted (Unclaimed).          *)

Own(a) == IF a \in pkce THEN a ELSE NoAttempt

Provisioning == {"by_id", "by_email", "relink", "insert", "made"}

Belongs(t) ==
  att[t] \notin mishap =>
    /\ stage[t] = "away" =>
         flowCookie[BrowserOf[t]] = att[t] /\ challenge[BrowserOf[t]] = Own(att[t])
    /\ stage[t] \in {"away", "called"} => <<"flow", att[t]>> \in redis
    /\ stage[t] \in {"called", "exchange"} => sent[t].flow = att[t]
    /\ \/ stage[t] \in {"called", "exchange"}
       \/ stage[t] \in Provisioning /\ IsCallback(t)
       => sent[t].challenge = Own(att[t])
    /\ stage[t] = "signup" => ~IsCallback(t)
    /\ stage[t] = "code" => <<"handoff", att[t]>> \in redis /\ bound[att[t]] = Own(att[t])

Unclaimed(t) ==
  /\ stage[t] \in {"signup", "insert"} /\ att[t] \notin mishap => row[Mail(t)] = None
  /\ stage[t] = "relink" => row[Mail(t)] # None

Excused(a) == a \in mishap \/ (requirePkce /\ a \notin pkce)

Blameless ==
  /\ pkce \subseteq 1..last
  /\ \A t \in Tab : Belongs(t) /\ Unclaimed(t) /\ (stage[t] = "failed" => Excused(att[t]))

(* What no step takes back.                                                *)
Steady ==
  /\ mishap \subseteq mishap' /\ requirePkce' = requirePkce
  /\ pkce' \subseteq 1..last'
  /\ \A a \in 1..last : a \in pkce' <=> a \in pkce

(* A step spares tab u: what u counts on is left to it, or u is excused.   *)
Spared(u) ==
  /\ stage'[u] = stage[u] /\ att'[u] = att[u] /\ sent'[u] = sent[u]
  /\ att[u] \notin mishap' =>
       /\ stage[u] = "away" => /\ flowCookie'[BrowserOf[u]] = flowCookie[BrowserOf[u]]
                               /\ challenge'[BrowserOf[u]] = challenge[BrowserOf[u]]
       /\ stage[u] \in {"away", "called"} /\ <<"flow", att[u]>> \in redis
            => <<"flow", att[u]>> \in redis'
       /\ stage[u] = "code" /\ <<"handoff", att[u]>> \in redis => <<"handoff", att[u]>> \in redis'
       /\ stage[u] = "code" => bound'[att[u]] = bound[att[u]]
       /\ stage[u] \in Provisioning \cup {"signup"} /\ <<"flow", att[u]>> \in issued'
            => <<"flow", att[u]>> \in issued

(* So is its claim to an address.                                          *)
Respected(u) ==
  /\ stage[u] \in {"signup", "insert", "relink"} => who'[att[u]] = who[att[u]]
  /\ stage[u] \in {"signup", "insert"} /\ att[u] \notin mishap' /\ row[Mail(u)] = None
       => row'[Mail(u)] = None
  /\ stage[u] = "relink" /\ row[Mail(u)] # None => row'[Mail(u)] # None

LEMMA SparedStays ==
  ASSUME TypeOK, Shape, Blameless, Steady, NEW u \in Tab, Spared(u), Respected(u)
  PROVE  Belongs(u)' /\ Unclaimed(u)' /\ (stage'[u] = "failed" => Excused(att[u])')
<1>1. stage[u] # "idle" => att[u] \in 1..last
  BY DEF Shape
<1>2. stage[u] # "idle" => Own(att[u])' = Own(att[u])
  BY <1>1 DEF Steady, Own, Spared
<1>3. Belongs(u)'
  BY <1>2 DEF Belongs, Blameless, Spared, Steady, Provisioning, IsCallback
<1>4. Unclaimed(u)'
  BY DEF Unclaimed, Blameless, Spared, Respected, Steady, Mail
<1>5. stage'[u] = "failed" => Excused(att[u])'
  BY <1>1 DEF Blameless, Spared, Excused, Steady
<1> QED
  BY <1>3, <1>4, <1>5

(* The end of a callback excuses those it deletes the cookies of.          *)
LEMMA EndingSpares ==
  ASSUME TypeOK, NEW t \in Tab, NEW u \in Tab \ {t}, EndCallback(t), Waiting(t) \subseteq mishap'
  PROVE  /\ sent'[u] = sent[u]
         /\ stage[u] = "away" /\ att[u] \notin mishap' =>
              /\ flowCookie'[BrowserOf[u]] = flowCookie[BrowserOf[u]]
              /\ challenge'[BrowserOf[u]] = challenge[BrowserOf[u]]
<1>1. sent'[u] = sent[u]
  BY DEF EndCallback, TypeOK
<1>2. stage[u] = "away" /\ BrowserOf[u] = BrowserOf[t] => att[u] \in mishap'
  BY DEF Waiting
<1>3. BrowserOf[u] # BrowserOf[t] => /\ flowCookie'[BrowserOf[u]] = flowCookie[BrowserOf[u]]
                                     /\ challenge'[BrowserOf[u]] = challenge[BrowserOf[u]]
  BY BrowserAssumption DEF EndCallback, TypeOK
<1> QED
  BY <1>1, <1>2, <1>3

LEMMA FailingSpares ==
  ASSUME TypeOK, NEW t \in Tab, NEW u \in Tab \ {t}, NEW A, FailCallback(t, A)
  PROVE  /\ stage'[u] = stage[u] /\ sent'[u] = sent[u] /\ stage'[t] = "failed"
         /\ A \subseteq mishap' /\ mishap \subseteq mishap'
         /\ stage[u] = "away" /\ att[u] \notin mishap' =>
              /\ flowCookie'[BrowserOf[u]] = flowCookie[BrowserOf[u]]
              /\ challenge'[BrowserOf[u]] = challenge[BrowserOf[u]]
<1>1. EndCallback(t) /\ Waiting(t) \subseteq mishap'
  BY DEF FailCallback
<1> QED
  BY <1>1, EndingSpares DEF FailCallback, Goto, TypeOK

LEMMA Facts ==
  ASSUME IInv
  PROVE  /\ TypeOK /\ Shape
         /\ \A u \in Tab : stage[u] # "idle" => att[u] \in 1..last
         /\ \A u \in Tab : \A t \in Tab \ {u} : stage[u] \in SigningIn => att[u] # att[t]
         /\ \A u \in Tab : stage[u] \in SigningIn \ {"failed", "away"} => who[att[u]] \in Identity
         /\ last + 1 \notin 1..last /\ 0 \notin 1..last /\ 1..last \subseteq 1..(last + 1)
<1>1. last \in Nat
  BY Numbers DEF IInv, TypeOK
<1>2. /\ last + 1 \notin 1..last /\ 0 \notin 1..last /\ 1..last \subseteq 1..(last + 1)
  BY <1>1
<1> QED
  BY <1>2 DEF IInv, Shape, Single, Settled, Named, SigningIn

LEMMA StepIsSteady ==
  ASSUME IInv, Blameless, [Next]_vars
  PROVE  Steady
<1> USE DEF Steady
<1>1. ASSUME NEW t \in Tab, NEW given \in BOOLEAN, StartOAuth(t, given)
      PROVE  Steady
  <2>1. last' = last + 1 /\ pkce' \subseteq pkce \cup {last + 1}
    BY <1>1 DEF StartOAuth, NewAttempt
  <2>2. last + 1 \in 1..(last + 1)
    BY Numbers DEF IInv, TypeOK
  <2> QED
    BY <1>1, <2>1, <2>2, Facts DEF StartOAuth, Blameless
<1>2. ASSUME UNCHANGED <<requirePkce, pkce>>, mishap \subseteq mishap', last' \in {last, last + 1}
      PROVE  Steady
  BY <1>2, Facts DEF Blameless
<1>3. ASSUME NEW t \in Tab,
             \/ ProviderDeclines(t) \/ TakeVerifier(t) \/ NoVerifier(t)
             \/ ExchangeCode(t) \/ ExchangeRefused(t) \/ StoreHandoff(t) \/ ExchangeHandoff(t)
             \/ ExchangeLost(t) \/ ExchangeUnknown(t) \/ CallbackBreaks(t)
             \/ \E i \in Identity : ProviderReturns(t, i)
      PROVE  Steady
  BY <1>2, <1>3 DEF ProviderReturns, ProviderDeclines, TakeVerifier, NoVerifier, ExchangeCode,
     ExchangeRefused, StoreHandoff, ExchangeHandoff, ExchangeLost, ExchangeUnknown,
     CallbackBreaks, FailCallback, flow, tried
<1>4. ASSUME NEW t \in Tab, Password(t)
      PROVE  Steady
  BY <1>2, <1>4 DEF Password, Login, Register, SignUp, SignUpRefused, Answer, RequestBreaks,
     NewAttempt, flow, tried
<1>5. ASSUME NEW t \in Tab, Provision(t)
      PROVE  Steady
  BY <1>2, <1>5 DEF Provision, FindById, FindByEmail, Relink, InsertUser, InsertUserFails,
     FailCallback, flow, tried
<1>6. ASSUME NEW t \in Tab, Session(t) \/ GiveUp(t)
      PROVE  Steady
  BY <1>2, <1>6 DEF Session, Refresh, RefreshAnswer, Logout, LogoutAnswer, GiveUp, flow, tried
<1>7. CASE \/ \E b \in Browser : IssueTicket(b) \/ CookieExpires(b)
           \/ \E a \in Attempt : UseTicket(a)
           \/ \E c \in Code : KeyExpires(c)
           \/ UNCHANGED vars
  BY <1>2, <1>7 DEF IssueTicket, CookieExpires, UseTicket, KeyExpires, vars, flow, tried
<1> QED
  BY <1>1, <1>3, <1>4, <1>5, <1>6, <1>7 DEF Next, OAuth

(* What tab t does spares the others.                                      *)
LEMMA OthersSpared ==
  ASSUME IInv, NEW t \in Tab, NEW u \in Tab \ {t},
         OAuth(t) \/ Password(t) \/ Provision(t) \/ Session(t) \/ GiveUp(t)
  PROVE  Spared(u)
<1> USE DEF Spared
<1>a. /\ TypeOK /\ Shape
      /\ stage[u] \in SigningIn => att[u] # att[t] /\ att[u] \in 1..last
      /\ last + 1 \notin 1..last /\ 0 \notin 1..last
  BY Facts DEF SigningIn
<1>b. /\ {"away", "called", "code", "signup"} \cup Provisioning \subseteq SigningIn
  BY DEF SigningIn, Provisioning, Stage
<1>c. ASSUME UNCHANGED <<codes, cookies, flow>>, Goto(t, stage'[t]), att'[u] = att[u]
      PROVE  Spared(u)
  BY <1>c, <1>a DEF codes, cookies, flow, tried, Goto, TypeOK
<1>d. ASSUME UNCHANGED <<codes, cookies, sent, bound>>, Goto(t, stage'[t]), att'[u] = att[u]
      PROVE  Spared(u)
  BY <1>d, <1>a DEF codes, cookies, Goto, TypeOK
<1>e. ASSUME UNCHANGED <<codes, att, bound>>, NEW A, FailCallback(t, A)
      PROVE  Spared(u)
  BY <1>e, <1>a, FailingSpares DEF codes
<1>1. ASSUME NEW given \in BOOLEAN, StartOAuth(t, given)
      PROVE  Spared(u)
  <2>1. /\ stage'[u] = stage[u] /\ att'[u] = att[u] /\ UNCHANGED <<sent, bound>>
        /\ redis \subseteq redis' /\ issued' = issued \cup {<<"flow", last + 1>>}
        /\ Waiting(t) \subseteq mishap'
    BY <1>1, <1>a DEF StartOAuth, NewAttempt, SetKey, Goto, TypeOK
  <2>2. stage[u] = "away" /\ BrowserOf[u] = BrowserOf[t] => att[u] \in mishap'
    BY <2>1 DEF Waiting
  <2>3. BrowserOf[u] # BrowserOf[t] => /\ flowCookie'[BrowserOf[u]] = flowCookie[BrowserOf[u]]
                                       /\ challenge'[BrowserOf[u]] = challenge[BrowserOf[u]]
    BY <1>1, <1>a, BrowserAssumption DEF StartOAuth, TypeOK
  <2> QED
    BY <2>1, <2>2, <2>3, <1>a, <1>b
<1>2. ASSUME NEW i \in Identity, ProviderReturns(t, i)
      PROVE  Spared(u)
  BY <1>2, <1>a DEF ProviderReturns, codes, cookies, Goto, TypeOK
<1>3. ASSUME ProviderDeclines(t)
      PROVE  Spared(u)
  <2> DEFINE f == flowCookie[BrowserOf[t]]
  <2>1. FailCallback(t, {att[t]} \cup ({f} \ {NoAttempt})) /\ UNCHANGED <<att, bound>>
    BY <1>3 DEF ProviderDeclines, tried
  <2>2. redis \ {<<"flow", f>>} \subseteq redis' /\ issued' = issued
    BY <1>3 DEF ProviderDeclines, GetDel, codes
  <2>3. stage[u] \in {"away", "called"} /\ att[u] = f => att[u] \in mishap'
    BY <2>1, <1>a, <1>b, FailingSpares DEF NoAttempt
  <2>4. stage[u] \in {"away", "called"} /\ att[u] # f /\ <<"flow", att[u]>> \in redis
          => <<"flow", att[u]>> \in redis'
    BY <2>2
  <2>5. stage[u] = "code" /\ <<"handoff", att[u]>> \in redis => <<"handoff", att[u]>> \in redis'
    BY <2>2
  <2> QED
    BY <2>1, <2>2, <2>3, <2>4, <2>5, <1>a, FailingSpares
<1>4. ASSUME TakeVerifier(t)
      PROVE  Spared(u)
  <2> DEFINE f == sent[t].flow
  <2>1. /\ {f} \ {att[t]} \subseteq mishap' /\ UNCHANGED <<att, bound>>
        /\ redis' = redis \ {<<"flow", f>>} /\ issued' = issued
        /\ \/ FailCallback(t, {f} \ {att[t]})
           \/ Goto(t, "exchange") /\ UNCHANGED <<cookies, sent>>
    BY <1>4 DEF TakeVerifier, FailCallback, GetDel, tried
  <2>2. stage[u] \in {"away", "called"} /\ att[u] = f => att[u] \in mishap'
    BY <2>1, <1>a, <1>b
  <2>3. stage[u] \in {"away", "called"} /\ att[u] # f /\ <<"flow", att[u]>> \in redis
          => <<"flow", att[u]>> \in redis'
    BY <2>1
  <2>4. stage[u] = "code" /\ <<"handoff", att[u]>> \in redis => <<"handoff", att[u]>> \in redis'
    BY <2>1
  <2>5. CASE FailCallback(t, {f} \ {att[t]})
    BY <2>1, <2>2, <2>3, <2>4, <2>5, <1>a, FailingSpares
  <2>6. CASE Goto(t, "exchange") /\ UNCHANGED <<cookies, sent>>
    BY <2>1, <2>2, <2>3, <2>4, <2>6, <1>a DEF Goto, cookies, TypeOK
  <2> QED
    BY <2>1, <2>5, <2>6
<1>5. ASSUME NoVerifier(t) \/ ExchangeRefused(t) \/ CallbackBreaks(t)
      PROVE  Spared(u)
  BY <1>5, <1>e DEF NoVerifier, ExchangeRefused, CallbackBreaks, tried
<1>6. ASSUME ExchangeCode(t) \/ ExchangeUnknown(t)
      PROVE  Spared(u)
  BY <1>6, <1>c, <1>a DEF ExchangeCode, ExchangeUnknown, Goto, TypeOK
<1>7. ASSUME StoreHandoff(t)
      PROVE  Spared(u)
  <2>1. /\ stage'[u] = stage[u] /\ att' = att /\ redis \subseteq redis'
        /\ issued' = issued \cup {<<"handoff", att[t]>>}
        /\ EndCallback(t) /\ Waiting(t) \subseteq mishap'
        /\ bound' = [bound EXCEPT ![att[t]] = sent[t].challenge]
    BY <1>7, <1>a DEF StoreHandoff, SetKey, Goto, TypeOK
  <2>2. stage[u] = "code" => bound'[att[u]] = bound[att[u]]
    BY <2>1, <1>a, <1>b DEF TypeOK
  <2> QED
    BY <2>1, <2>2, <1>a, EndingSpares
<1>8. ASSUME ExchangeHandoff(t) \/ ExchangeLost(t)
      PROVE  Spared(u)
  <2>1. /\ stage'[u] = stage[u] /\ att'[u] = att[u] /\ UNCHANGED <<sent, bound, flowCookie, challenge>>
        /\ redis' = redis \ {<<"handoff", att[t]>>} /\ issued' = issued
    BY <1>8, <1>a DEF ExchangeHandoff, ExchangeLost, GetDel, Goto, Rest, TypeOK, cookies, flow, tried
  <2>2. stage[u] \in {"away", "called"} /\ <<"flow", att[u]>> \in redis
          => <<"flow", att[u]>> \in redis'
    BY <2>1
  <2>3. stage[u] = "code" /\ <<"handoff", att[u]>> \in redis => <<"handoff", att[u]>> \in redis'
    BY <2>1, <1>a, <1>b
  <2> QED
    BY <2>1, <2>2, <2>3
<1>9. ASSUME Password(t)
      PROVE  Spared(u)
  BY <1>9, <1>a, <1>d DEF Password, Login, Register, SignUp, SignUpRefused, Answer,
     RequestBreaks, NewAttempt, Rest, Goto, flow, tried, TypeOK
<1>10. ASSUME FindById(t) \/ FindByEmail(t) \/ Relink(t) \/ InsertUser(t)
       PROVE  Spared(u)
  BY <1>10, <1>a, <1>c DEF FindById, FindByEmail, Relink, InsertUser, Settle, Goto, TypeOK
<1>11. ASSUME InsertUserFails(t)
       PROVE  Spared(u)
  <2>1. UNCHANGED <<codes, att, tried>>
    BY <1>11 DEF InsertUserFails
  <2>2. CASE FailCallback(t, {})
    BY <2>1, <2>2, <1>e DEF tried
  <2>3. CASE Goto(t, "failed") /\ UNCHANGED <<mishap, cookies, sent>>
    BY <2>1, <2>3, <1>a, <1>c DEF Goto, flow, TypeOK
  <2> QED
    BY <1>11, <2>2, <2>3 DEF InsertUserFails
<1>12. ASSUME Session(t) \/ GiveUp(t)
       PROVE  Spared(u)
  BY <1>12, <1>a, <1>c DEF Session, Refresh, RefreshAnswer, Logout, LogoutAnswer, GiveUp, Rest,
     Goto, TypeOK
<1> QED
  BY <1>1, <1>2, <1>3, <1>4, <1>5, <1>6, <1>7, <1>8, <1>9, <1>10, <1>11, <1>12
  DEF OAuth, Provision

(* Another's row is inserted, and the address taken, at the price of an    *)
(* excuse; a row never goes.                                               *)
LEMMA OthersRespected ==
  ASSUME IInv, NEW t \in Tab, NEW u \in Tab \ {t},
         OAuth(t) \/ Password(t) \/ Provision(t) \/ Session(t) \/ GiveUp(t),
         \A v \in Tab : Unclaimed(v)
  PROVE  Respected(u)
<1> USE DEF Respected
<1>1. /\ TypeOK
      /\ stage[u] \in {"signup", "insert", "relink"} =>
           att[u] # att[t] /\ att[u] \in 1..last /\ att[u] \in Attempt /\ who[att[u]] \in Identity
      /\ stage[t] \in {"insert", "relink"} => who[att[t]] \in Identity /\ att[t] \in Attempt
      /\ last + 1 \notin 1..last
  BY Facts, Numbers DEF SigningIn, Stage, IInv, TypeOK
<1>2. ASSUME UNCHANGED <<who, users>>
      PROVE  Respected(u)
  BY <1>2 DEF users, Mail
<1>3. CASE OAuth(t)
  <2>1. ASSUME NEW i \in Identity, ProviderReturns(t, i)
        PROVE  Respected(u)
    BY <1>1, <2>1 DEF ProviderReturns, users, Mail, TypeOK
  <2>2. CASE UNCHANGED <<who, users>>
    BY <1>2, <2>2
  <2> QED
    BY <1>3, <2>1, <2>2 DEF OAuth, StartOAuth, ProviderDeclines, TakeVerifier, NoVerifier,
       ExchangeCode, ExchangeRefused, StoreHandoff, ExchangeHandoff, ExchangeLost,
       ExchangeUnknown, CallbackBreaks
<1>4. CASE Password(t)
  <2>1. ASSUME NEW i \in Identity, Login(t, i) \/ Register(t, i)
        PROVE  Respected(u)
    BY <1>1, <2>1 DEF Login, Register, users, Mail, TypeOK
  <2>2. CASE UNCHANGED <<who, users>>
    BY <1>2, <2>2
  <2> QED
    BY <1>4, <2>1, <2>2 DEF Password, SignUp, SignUpRefused, Answer, RequestBreaks
<1>5. CASE FindById(t) \/ FindByEmail(t)
  <2>1. who' = who /\ row' = row
    BY <1>5 DEF FindById, FindByEmail
  <2> QED
    BY <2>1 DEF Mail
<1>6. CASE Relink(t)
  <2>1. who' = who /\ row' = [row EXCEPT ![Mail(t)] = who[att[t]]]
    BY <1>6 DEF Relink
  <2>2. row[Mail(t)] # None /\ who[att[t]] # None
    BY <1>1, <1>6, NoneAssumption DEF Relink, Unclaimed
  <2> QED
    BY <1>1, <2>1, <2>2 DEF Mail, TypeOK
<1>7. CASE InsertUser(t)
  <2>1. who' = who /\ row' = [row EXCEPT ![Mail(t)] = who[att[t]]]
    BY <1>7 DEF InsertUser
  <2>2. who[att[t]] # None
    BY <1>1, <1>7, NoneAssumption DEF InsertUser
  <2>3. stage[u] \in {"signup", "insert"} /\ Mail(u) = Mail(t) => att[u] \in mishap'
    BY <1>7 DEF InsertUser
  <2> QED
    BY <1>1, <2>1, <2>2, <2>3 DEF Mail, TypeOK
<1>8. CASE InsertUserFails(t) \/ Session(t) \/ GiveUp(t)
  BY <1>2, <1>8 DEF InsertUserFails, Session, Refresh, RefreshAnswer, Logout, LogoutAnswer, GiveUp
<1> QED
  BY <1>3, <1>4, <1>5, <1>6, <1>7, <1>8 DEF Provision

(* Tickets and time spare everybody, or excuse them.                       *)
LEMMA TimeSpares ==
  ASSUME IInv, Blameless, NEW u \in Tab,
         \/ \E b \in Browser : IssueTicket(b) \/ CookieExpires(b)
         \/ \E a \in Attempt : UseTicket(a)
         \/ \E c \in Code : KeyExpires(c)
         \/ UNCHANGED vars
  PROVE  Spared(u) /\ Respected(u)
<1> USE DEF Spared
<1>1. /\ TypeOK /\ UNCHANGED <<stage, att, sent, bound, who, row>>
  BY DEF IInv, IssueTicket, CookieExpires, UseTicket, KeyExpires, vars, flow, tried, users
<1>2. Respected(u)
  BY <1>1 DEF Respected, Mail
<1>3. ASSUME NEW b \in Browser, IssueTicket(b)
      PROVE  Spared(u)
  <2>1. UNCHANGED cookies /\ redis \subseteq redis' /\ issued' = issued \cup {<<"ticket", jar[b]>>}
    BY <1>3 DEF IssueTicket, SetKey
  <2> QED
    BY <1>1, <2>1 DEF cookies
<1>4. ASSUME NEW a \in Attempt, UseTicket(a)
      PROVE  Spared(u)
  <2>1. UNCHANGED cookies /\ redis' = redis \ {<<"ticket", a>>} /\ issued' = issued
    BY <1>4 DEF UseTicket, GetDel
  <2> QED
    BY <1>1, <2>1 DEF cookies
<1>5. ASSUME NEW c \in Code, KeyExpires(c)
      PROVE  Spared(u)
  <2>1. UNCHANGED cookies /\ redis' = redis \ {c} /\ issued' = issued /\ c[2] \in mishap'
    BY <1>5 DEF KeyExpires
  <2> QED
    BY <1>1, <2>1 DEF cookies
<1>6. ASSUME NEW b \in Browser, CookieExpires(b)
      PROVE  Spared(u)
  <2>1. codes' = codes /\ BrowserOf[u] \in Browser /\ Belongs(u)
    BY <1>6, BrowserAssumption DEF CookieExpires, Blameless
  <2>2. mishap \subseteq mishap'
    BY <1>6 DEF CookieExpires
  <2>3. stage[u] = "away" /\ att[u] \notin mishap' =>
          /\ flowCookie[BrowserOf[u]] = att[u]
          /\ challenge[BrowserOf[u]] \in {att[u], NoAttempt}
    BY <2>1, <2>2 DEF Belongs, Own
  <2>4. stage[u] = "away" /\ att[u] \notin mishap' =>
          /\ flowCookie'[BrowserOf[u]] = flowCookie[BrowserOf[u]]
          /\ challenge'[BrowserOf[u]] = challenge[BrowserOf[u]]
    BY <1>1, <1>6, <2>1, <2>3 DEF CookieExpires, TypeOK
  <2> QED
    BY <1>1, <2>1, <2>4 DEF codes
<1>7. CASE UNCHANGED vars
  <2>1. codes' = codes /\ cookies' = cookies
    BY <1>7 DEF vars
  <2>2. UNCHANGED <<redis, issued, flowCookie, challenge>>
    BY <2>1 DEF codes, cookies
  <2> QED
    BY <1>1, <1>2, <2>2
<1> QED
  BY <1>2, <1>3, <1>4, <1>5, <1>6, <1>7

(* The tab that acts keeps what it needs, and fails for a reason.          *)
LEMMA OwnKept ==
  ASSUME IInv, Blameless, Steady, NEW t \in Tab,
         OAuth(t) \/ Password(t) \/ Provision(t) \/ Session(t) \/ GiveUp(t)
  PROVE  Belongs(t)' /\ Unclaimed(t)' /\ (stage'[t] = "failed" => Excused(att[t])')
<1> DEFINE Ready == Belongs(t)' /\ Unclaimed(t)' /\ (stage'[t] = "failed" => Excused(att[t])')
<1>a. /\ TypeOK /\ Shape /\ Belongs(t) /\ Unclaimed(t) /\ pkce \subseteq 1..last
      /\ stage[t] # "idle" => att[t] \in 1..last
      /\ last + 1 \notin 1..last /\ 0 \notin 1..last
  BY Facts DEF Blameless
<1>b. stage[t] # "idle" => (att[t] \in pkce' <=> att[t] \in pkce)
  BY <1>a DEF Steady
<1>c. ASSUME stage'[t] \in {"idle", "refreshing", "leaving"} PROVE Ready
  BY <1>c DEF Belongs, Unclaimed, Provisioning
<1>d. ASSUME stage'[t] = "failed", att'[t] = att[t], stage[t] # "idle", Excused(att[t]) \/ att[t] \in mishap'
      PROVE  Ready
  BY <1>b, <1>d DEF Belongs, Unclaimed, Provisioning, Excused, Steady
<1>1. ASSUME NEW given \in BOOLEAN, StartOAuth(t, given) PROVE Ready
  <2>1. /\ stage'[t] = "away" /\ att'[t] = last + 1
        /\ <<"flow", last + 1>> \in redis'
    BY <1>1, <1>a DEF StartOAuth, NewAttempt, SetKey, Goto, TypeOK
  <2>2. /\ flowCookie'[BrowserOf[t]] = last + 1
        /\ challenge'[BrowserOf[t]] = IF given THEN last + 1 ELSE NoAttempt
        /\ last + 1 \in pkce' <=> given
    BY <1>1, <1>a, BrowserAssumption DEF StartOAuth, TypeOK
  <2> QED
    BY <2>1, <2>2 DEF Belongs, Unclaimed, Own, Provisioning
<1>2. ASSUME NEW i \in Identity, ProviderReturns(t, i) PROVE Ready
  <2>1. /\ stage[t] = "away" /\ stage'[t] = "called" /\ att' = att /\ redis' = redis /\ mishap' = mishap
        /\ sent'[t].flow = flowCookie[BrowserOf[t]]
        /\ sent'[t].challenge = challenge[BrowserOf[t]] /\ pkce' = pkce
    BY <1>2, <1>a DEF ProviderReturns, codes, Goto, TypeOK
  <2> QED
    BY <2>1, <1>a DEF Belongs, Unclaimed, Own, Provisioning
<1>3. ASSUME ProviderDeclines(t) PROVE Ready
  <2>1. stage'[t] = "failed" /\ att' = att /\ stage[t] = "away" /\ att[t] \in mishap'
    BY <1>3, <1>a DEF ProviderDeclines, FailCallback, Goto, TypeOK
  <2> QED
    BY <2>1, <1>d
<1>4. ASSUME TakeVerifier(t) PROVE Ready
  <2>1. att' = att /\ stage[t] = "called" /\ pkce' = pkce
    BY <1>4 DEF TakeVerifier, tried
  <2>2. CASE requirePkce /\ sent[t].challenge = NoAttempt
    <3>1. stage'[t] = "failed"
      BY <1>4, <1>a, <2>2 DEF TakeVerifier, FailCallback, Goto, TypeOK
    <3>2. att[t] \notin mishap => att[t] \notin pkce
      BY <1>a, <2>1, <2>2 DEF Belongs, Own, NoAttempt
    <3> QED
      BY <1>d, <2>1, <2>2, <3>1, <3>2 DEF Excused
  <2>3. CASE ~(requirePkce /\ sent[t].challenge = NoAttempt)
    <3>1. stage'[t] = "exchange" /\ sent' = sent
      BY <1>4, <1>a, <2>3 DEF TakeVerifier, Goto, TypeOK
    <3> QED
      BY <1>a, <2>1, <3>1 DEF Belongs, Unclaimed, Own, Provisioning, Steady
  <2> QED
    BY <2>2, <2>3
<1>5. ASSUME NoVerifier(t) PROVE Ready
  <2>1. stage'[t] = "failed" /\ att' = att /\ stage[t] = "called"
    BY <1>5, <1>a DEF NoVerifier, FailCallback, Goto, TypeOK
  <2>2. att[t] \in mishap
    BY <1>5, <1>a, <2>1 DEF NoVerifier, Belongs
  <2> QED
    BY <2>1, <2>2, <1>d DEF Excused
<1>6. ASSUME ExchangeCode(t) PROVE Ready
  <2>1. /\ stage[t] = "exchange" /\ stage'[t] = "by_id" /\ att' = att
        /\ sent' = sent /\ pkce' = pkce /\ mishap' = mishap
    BY <1>6, <1>a DEF ExchangeCode, Goto, flow, tried, TypeOK
  <2> QED
    BY <1>a, <2>1 DEF Belongs, Unclaimed, Own, Provisioning
<1>7. ASSUME ExchangeRefused(t) PROVE Ready
  <2>1. stage'[t] = "failed" /\ att' = att /\ stage[t] = "exchange"
    BY <1>7, <1>a DEF ExchangeRefused, FailCallback, Goto, TypeOK
  <2>2. att[t] \in mishap
    BY <1>7, <1>a, <2>1 DEF ExchangeRefused, Belongs
  <2> QED
    BY <2>1, <2>2, <1>d DEF Excused
<1>8. ASSUME StoreHandoff(t) PROVE Ready
  <2>1. /\ stage[t] = "made" /\ IsCallback(t) /\ stage'[t] = "code" /\ att' = att /\ pkce' = pkce
        /\ <<"handoff", att[t]>> \in redis'
    BY <1>8, <1>a DEF StoreHandoff, SetKey, Goto, TypeOK
  <2>2. bound'[att[t]] = sent[t].challenge
    BY <1>8, <1>a, <2>1, Numbers DEF StoreHandoff, TypeOK
  <2> QED
    BY <1>a, <2>1, <2>2 DEF Belongs, Unclaimed, Own, Provisioning, Steady
<1>9. ASSUME ExchangeHandoff(t) PROVE Ready
  <2>1. stage[t] = "code"
    BY <1>9 DEF ExchangeHandoff
  <2>2. CASE Proves(att[t])
    BY <1>9, <1>a, <1>c, <2>2 DEF ExchangeHandoff, Rest, Goto, TypeOK
  <2>3. CASE ~Proves(att[t])
    <3>1. stage'[t] = "failed" /\ att' = att
      BY <1>9, <1>a, <2>3 DEF ExchangeHandoff, Goto, TypeOK
    <3>2. att[t] \notin mishap => bound[att[t]] = Own(att[t])
      BY <1>a, <2>1 DEF Belongs
    <3>3. att[t] # NoAttempt
      BY <1>a, <2>1 DEF NoAttempt
    <3>4. Excused(att[t])
      BY <2>3, <3>2, <3>3 DEF Excused, Proves, Own
    <3> QED
      BY <1>d, <2>1, <3>1, <3>4
  <2> QED
    BY <2>2, <2>3
<1>10. ASSUME ExchangeLost(t) PROVE Ready
  <2>1. stage' = stage /\ att' = att /\ stage[t] = "code" /\ att[t] \in mishap'
    BY <1>10 DEF ExchangeLost
  <2> QED
    BY <2>1 DEF Belongs, Unclaimed
<1>11. ASSUME ExchangeUnknown(t) PROVE Ready
  <2>1. stage'[t] = "failed" /\ att' = att /\ stage[t] = "code"
    BY <1>11, <1>a DEF ExchangeUnknown, Goto, TypeOK
  <2>2. att[t] \in mishap
    BY <1>11, <1>a, <2>1 DEF ExchangeUnknown, Belongs
  <2> QED
    BY <2>1, <2>2, <1>d DEF Excused
<1>12. ASSUME CallbackBreaks(t) PROVE Ready
  <2>1. stage'[t] = "failed" /\ att' = att /\ stage[t] # "idle" /\ att[t] \in mishap'
    BY <1>12, <1>a DEF CallbackBreaks, FailCallback, Goto, TypeOK
  <2> QED
    BY <2>1, <1>d
<1>13. ASSUME NEW i \in Identity, Login(t, i) PROVE Ready
  <2>1. stage'[t] = "by_id" /\ att'[t] = last + 1 /\ issued' = issued
    BY <1>13, <1>a DEF Login, NewAttempt, Goto, codes, TypeOK
  <2>2. <<"flow", last + 1>> \notin issued
    BY <1>a, Numbers DEF Shape, TypeOK
  <2> QED
    BY <2>1, <2>2 DEF Belongs, Unclaimed, Provisioning, IsCallback
<1>14. ASSUME NEW i \in Identity, Register(t, i) PROVE Ready
  <2>1. stage'[t] = "signup" /\ att'[t] = last + 1 /\ issued' = issued /\ row' = row
    BY <1>14, <1>a DEF Register, NewAttempt, Goto, codes, users, TypeOK
  <2>2. <<"flow", last + 1>> \notin issued
    BY <1>a, Numbers DEF Shape, TypeOK
  <2>3. last + 1 \in Attempt
    BY <1>14, <1>a, Numbers DEF Register, NewAttempt, TypeOK
  <2>4. who'[last + 1] = i
    BY <1>14, <1>a, <2>3 DEF Register, TypeOK
  <2>5. Mail(t)' = EmailOf[i] /\ row[EmailOf[i]] = None
    BY <1>14, <2>1, <2>4 DEF Register, Mail
  <2> QED
    BY <2>1, <2>2, <2>5 DEF Belongs, Unclaimed, Provisioning, IsCallback
<1>15. ASSUME NEW session \in BOOLEAN, SignUp(t, session) PROVE Ready
  <2>1. /\ stage[t] = "signup" /\ stage'[t] = "insert" /\ mishap' = mishap
        /\ UNCHANGED <<att, who, row, issued>>
    BY <1>15, <1>a DEF SignUp, Goto, codes, users, TypeOK
  <2> QED
    BY <1>a, <2>1 DEF Belongs, Unclaimed, Provisioning, IsCallback, Mail
<1>16. ASSUME SignUpRefused(t) \/ Answer(t) \/ GiveUp(t) \/ RefreshAnswer(t) \/ LogoutAnswer(t)
       PROVE  Ready
  <2>1. stage'[t] = "idle"
    BY <1>16, <1>a DEF SignUpRefused, Answer, GiveUp, RefreshAnswer, LogoutAnswer, Rest, Goto,
       TypeOK
  <2> QED
    BY <2>1, <1>c
<1>17. ASSUME Refresh(t) \/ (\E fresh, reached \in BOOLEAN : Logout(t, fresh, reached))
       PROVE  Ready
  <2>1. stage'[t] \in {"refreshing", "leaving"}
    BY <1>17, <1>a DEF Refresh, Logout, Goto, TypeOK
  <2> QED
    BY <2>1, <1>c
<1>18. ASSUME RequestBreaks(t) PROVE Ready
  <2>1. stage'[t] = "failed" /\ att' = att /\ stage[t] # "idle" /\ att[t] \in mishap'
    BY <1>18, <1>a DEF RequestBreaks, Goto, TypeOK
  <2> QED
    BY <2>1, <1>d
<1>e. ASSUME stage[t] \in Provisioning, stage'[t] \in Provisioning, pkce' = pkce,
             UNCHANGED <<att, sent, issued>>
      PROVE  Belongs(t)'
  BY <1>a, <1>e DEF Belongs, Own, Provisioning, IsCallback, Steady
<1>19. ASSUME FindById(t) \/ FindByEmail(t) PROVE Ready
  <2>1. /\ stage[t] \in {"by_id", "by_email"} /\ pkce' = pkce
        /\ UNCHANGED <<att, sent, issued, who, row>>
    BY <1>19 DEF FindById, FindByEmail, codes, flow, tried
  <2>2. \/ stage'[t] \in {"by_email", "made"}
        \/ stage'[t] = "insert" /\ row[Mail(t)] = None
        \/ stage'[t] = "relink" /\ row[Mail(t)] # None
    BY <1>19, <1>a DEF FindById, FindByEmail, Settle, Goto, TypeOK
  <2>3. Mail(t)' = Mail(t)
    BY <2>1 DEF Mail
  <2>4. Unclaimed(t)'
    BY <2>1, <2>2, <2>3 DEF Unclaimed
  <2>5. Belongs(t)'
    BY <1>e, <2>1, <2>2 DEF Provisioning
  <2> QED
    BY <2>2, <2>4, <2>5
<1>20. ASSUME Relink(t) \/ InsertUser(t) PROVE Ready
  <2>1. /\ stage[t] \in {"relink", "insert"} /\ stage'[t] = "made" /\ pkce' = pkce
        /\ UNCHANGED <<att, sent, issued>>
    BY <1>20, <1>a DEF Relink, InsertUser, Settle, Goto, codes, flow, tried, TypeOK
  <2> QED
    BY <1>e, <2>1 DEF Provisioning, Unclaimed
<1>21. ASSUME InsertUserFails(t) PROVE Ready
  <2>1. stage[t] = "insert" /\ row[Mail(t)] # None /\ att' = att /\ stage'[t] = "failed"
    BY <1>21, <1>a DEF InsertUserFails, FailCallback, Goto, TypeOK
  <2>2. att[t] \in mishap
    BY <1>a, <2>1 DEF Unclaimed
  <2> QED
    BY <1>d, <2>1, <2>2 DEF Excused
<1> HIDE DEF Ready
<1>22. Ready
  BY <1>1, <1>2, <1>3, <1>4, <1>5, <1>6, <1>7, <1>8, <1>9, <1>10, <1>11, <1>12, <1>13, <1>14,
     <1>15, <1>16, <1>17, <1>18, <1>19, <1>20, <1>21
  DEF OAuth, Password, Provision, Session
<1> QED
  BY <1>22 DEF Ready

LEMMA BlamelessKept ==
  ASSUME IInv, Blameless, [Next]_vars
  PROVE  Blameless'
<1>1. Steady
  BY StepIsSteady
<1>2. TypeOK /\ Shape
  BY DEF IInv
<1>3. ASSUME NEW t \in Tab, OAuth(t) \/ Password(t) \/ Provision(t) \/ Session(t) \/ GiveUp(t)
      PROVE  Blameless'
  <2>1. \A u \in Tab \ {t} : Spared(u) /\ Respected(u)
    BY <1>3, OthersSpared, OthersRespected DEF Blameless
  <2>2. \A u \in Tab \ {t} :
          Belongs(u)' /\ Unclaimed(u)' /\ (stage'[u] = "failed" => Excused(att[u])')
    BY <1>1, <1>2, <2>1, SparedStays
  <2>3. Belongs(t)' /\ Unclaimed(t)' /\ (stage'[t] = "failed" => Excused(att[t])')
    BY <1>1, <1>3, OwnKept
  <2> QED
    BY <1>1, <2>2, <2>3 DEF Blameless, Steady
<1>4. CASE \/ \E b \in Browser : IssueTicket(b) \/ CookieExpires(b)
           \/ \E a \in Attempt : UseTicket(a)
           \/ \E c \in Code : KeyExpires(c)
           \/ UNCHANGED vars
  <2>1. \A u \in Tab : Spared(u) /\ Respected(u)
    BY <1>4, TimeSpares
  <2>2. \A u \in Tab :
          Belongs(u)' /\ Unclaimed(u)' /\ (stage'[u] = "failed" => Excused(att[u])')
    BY <1>1, <1>2, <2>1, SparedStays
  <2> QED
    BY <1>1, <2>2 DEF Blameless, Steady
<1> QED
  BY <1>3, <1>4 DEF Next

(* A sign-in fails only for a reason of its own: whatever the tabs of a    *)
(* browser, other sign-ins of the same user, retries and expirations do,   *)
(* the cookies, the verifier and the handoff code that meet in             *)
(* oauth_callback and oauth_exchange otherwise belong together.            *)
THEOREM FailuresAreExplained == Spec => []FailuresAreAccountedFor
<1>1. Init => Blameless
  BY DEF Init, Blameless, Belongs, Unclaimed, Provisioning
<1>2. IInv /\ Blameless /\ [Next]_vars => Blameless'
  BY BlamelessKept
<1>3. Blameless => FailuresAreAccountedFor
  BY DEF Blameless, FailuresAreAccountedFor, Excused
<1> QED
  BY <1>1, <1>2, <1>3, Invariance, PTL DEF Spec

=============================================================================
