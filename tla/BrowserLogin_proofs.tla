------------------------- MODULE BrowserLogin_proofs ------------------------
(***************************************************************************)
(* Proofs about BrowserLogin, for any number of tabs, requests and         *)
(* sessions.                                                               *)
(***************************************************************************)
EXTENDS BrowserLogin, TLAPS

-----------------------------------------------------------------------------
(* The inductive invariant.                                                 *)

Issued == {s \in Sessions : session[s] # "none"}

\* A family is named for its first session, and one of its sessions is live.
FamiliesInv ==
    /\ \A s \in Sessions \ Issued : family[s] = s
    /\ \A s \in Issued : family[s] \in Issued /\ family[family[s]] = family[s]
    /\ \A s, r \in Live : family[s] = family[r] => s = r

\* Tokens are those of sessions there are, a page asks only who it is, and no
\* refresh was given up.
TokensInv ==
    /\ cookie \in Issued \union {NoSession}
    /\ \A t \in Tabs : refresh[t].token \in Issued \union {NoSession}
    /\ \A t \in Tabs : refresh[t].at = "granted" => refresh[t].token # NoSession
    /\ \A t \in Tabs : call[t].kind \in {"read", "restore"}
    /\ stray = {}

\* A login whose answer is on its way.
Arriving(x) == call[x].at = "accepted" /\ call[x].kind = "login"

\* To present it hurts nobody.
Good(s) == s \in Live \/ Generation(family[s]) = {}

Busy(t) == refresh[t].at # "none" /\ refresh[t].token # NoSession

OneRefresh == \A t, u \in Tabs : Busy(t) /\ Busy(u) => t = u

RefreshesInv ==
    \A t \in Tabs :
        refresh[t].at \in {"sent", "granted"} /\ refresh[t].token # NoSession => Good(refresh[t].token)

\* A cookie that has been exchanged is about to be replaced.
CookieInv ==
    cookie # NoSession =>
        \/ Good(cookie)
        \/ \E t \in Tabs : refresh[t].at = "granted" /\ family[refresh[t].token] = family[cookie]

\* Nobody has seen the token of a login that has not arrived.
ArrivingInv ==
    \A x \in Tabs \union Calls :
        Arriving(x) =>
          /\ call[x].token \in Issued
          /\ Good(call[x].token)
          /\ \A s \in Issued : family[s] = family[call[x].token] => s = call[x].token
          /\ cookie # call[x].token
          /\ \A t \in Tabs : refresh[t].token # call[x].token
          /\ \A y \in Tabs \union Calls : y # x /\ Arriving(y) => call[y].token # call[x].token

LoginsInv ==
    /\ TypeOK
    /\ FamiliesInv
    /\ ~ unlucky => TokensInv /\ OneRefresh /\ RefreshesInv /\ CookieInv /\ ArrivingInv

-----------------------------------------------------------------------------
(* Types.                                                                   *)

CallRecord ==
    [kind : Kind, retried : BOOLEAN, token : Token,
     at : {"idle", "waiting", "sent", "accepted", "refused", "ended", "lost"}]

RefreshRecord == [at : {"none", "sent", "granted", "refused"}, token : Token]

LEMMA RecordsAreTyped ==
    /\ NoRefresh \in RefreshRecord
    /\ Ended \in CallRecord /\ Restoring \in CallRecord /\ Unmade \in CallRecord
    /\ \A tok \in Token : [at |-> "sent", token |-> tok] \in RefreshRecord
    /\ \A tok \in Token : [at |-> "granted", token |-> tok] \in RefreshRecord
BY DEF NoRefresh, RefreshRecord, CallRecord, Ended, Restoring, Unmade, Kind, LogsOut, Token

LEMMA CallsStayTyped ==
    ASSUME NEW r \in CallRecord
    PROVE  /\ \A a \in {"accepted", "refused"}, tok \in Token :
                 [r EXCEPT !.at = a, !.token = tok] \in CallRecord
           /\ [r EXCEPT !.at = "lost"] \in CallRecord
           /\ \A tok \in Token : [r EXCEPT !.at = "sent", !.token = tok] \in CallRecord
           /\ [r EXCEPT !.at = "waiting", !.retried = TRUE] \in CallRecord
BY DEF CallRecord

LEMMA GivenUpIsTyped ==
    ASSUME NEW r \in CallRecord
    PROVE  GivenUp(r) \in CallRecord
BY CallsStayTyped, RecordsAreTyped DEF GivenUp

LEMMA RefreshesStayTyped ==
    ASSUME NEW r \in RefreshRecord
    PROVE  [r EXCEPT !.at = "refused"] \in RefreshRecord
BY DEF RefreshRecord

LEMMA PagesAreTabs ==
    ASSUME NEW x \in Tabs \union Calls
    PROVE  PageOf(x) \in Tabs
BY BrowserAssumption DEF PageOf

LEMMA NextIsUnissued ==
    ASSUME Unissued # {}
    PROVE  NextSession \in Sessions /\ session[NextSession] = "none"
BY DEF NextSession, Unissued

CallsOK == call \in [Tabs \union Calls -> CallRecord]
RefreshOK == refresh \in [Tabs -> RefreshRecord]
PagesOK ==
    /\ cookie \in Token
    /\ access \in [Tabs -> Token]
    /\ status \in [Tabs -> {"loading", "authenticated", "anonymous"}]
ServerOK ==
    /\ session \in [Sessions -> {"none", "live", "revoked"}]
    /\ family \in [Sessions -> Sessions]
    /\ age \in [Sessions -> {"fresh", "stale", "expired"}]
LostOK == stray \subseteq Sessions /\ unlucky \in BOOLEAN

LEMMA TypeParts ==
    TypeOK <=> ServerOK /\ PagesOK /\ RefreshOK /\ CallsOK /\ LostOK
BY DEF TypeOK, ServerOK, PagesOK, RefreshOK, CallsOK, LostOK, CallRecord, RefreshRecord

LEMMA TypePartsNext ==
    ASSUME ServerOK', PagesOK', RefreshOK', CallsOK', LostOK'
    PROVE  TypeOK'
BY DEF TypeOK, ServerOK, PagesOK, RefreshOK, CallsOK, LostOK, CallRecord, RefreshRecord

LEMMA AfterIsTyped ==
    ASSUME TypeOK, NEW x \in Tabs \union Calls, NEW succeeded \in BOOLEAN, After(x, succeeded)
    PROVE  PagesOK'
<1>1. PageOf(x) \in Tabs
  BY PagesAreTabs
<1>2. call[x].token \in Token /\ NoSession \in Token
  BY DEF TypeOK, Token
<1>3. access' \in [Tabs -> Token]
  BY <1>1, <1>2 DEF TypeOK, After
<1>4. status' \in [Tabs -> {"loading", "authenticated", "anonymous"}]
  BY <1>1 DEF TypeOK, After
<1>5. cookie' \in Token
  BY <1>2 DEF TypeOK, After
<1>. QED
  BY <1>3, <1>4, <1>5 DEF PagesOK

LEMMA RevokingIsTyped ==
    ASSUME ServerOK, NEW S, Revoke(S)
    PROVE  ServerOK'
BY DEF ServerOK, Revoke

LEMMA BeginningIsTyped ==
    ASSUME ServerOK, NEW s \in Sessions, Begin(s)
    PROVE  ServerOK'
BY DEF ServerOK, Begin

LEMMA ExchangingIsTyped ==
    ASSUME ServerOK, NEW s, NEW new \in Sessions, Exchange(s, new)
    PROVE  ServerOK'
BY DEF ServerOK, Exchange, Valid, Live

LEMMA KeepingIsTyped ==
    ASSUME ServerOK, UNCHANGED serverVars
    PROVE  ServerOK'
BY DEF ServerOK, serverVars

LEMMA RejectingIsTyped ==
    ASSUME ServerOK, NEW s, Reject(s)
    PROVE  ServerOK'
BY RevokingIsTyped, KeepingIsTyped DEF Reject

LEMMA HandlingIsTyped ==
    ASSUME ServerOK, NEW x, Handle(x)
    PROVE  ServerOK'
<1>1. (\E S : Revoke(S)) \/ UNCHANGED serverVars
  BY DEF Handle
<1>. QED
  BY <1>1, RevokingIsTyped, KeepingIsTyped

LEMMA LosingIsTyped ==
    ASSUME TypeOK, NEW t \in Tabs
    PROVE  Abandoned(t) \subseteq Sessions
BY DEF TypeOK, Abandoned, Refreshing, Token

LEMMA SendingIsTyped ==
    ASSUME TypeOK, NEW t \in Tabs, SendRefresh(t)
    PROVE  RefreshOK' /\ LostOK'
<1>1. RefreshOK /\ LostOK /\ cookie \in Token
  BY TypeParts DEF PagesOK
<1>2. refresh' = [refresh EXCEPT ![t] = [at |-> "sent", token |-> cookie]]
  BY DEF SendRefresh
<1>3. RefreshOK'
  BY <1>1, <1>2, RecordsAreTyped DEF RefreshOK
<1>4. unlucky' \in BOOLEAN /\ stray' = stray
  BY DEF SendRefresh
<1>. QED
  BY <1>1, <1>3, <1>4 DEF LostOK

LEMMA EndingIsTyped ==
    ASSUME TypeOK, NEW t \in Tabs, EndRefresh(t), cookie' \in Token
    PROVE  ServerOK' /\ PagesOK' /\ RefreshOK' /\ CallsOK'
<1>1. ServerOK /\ PagesOK /\ RefreshOK /\ CallsOK
  BY TypeParts
<1>2. ServerOK'
  BY <1>1, KeepingIsTyped DEF EndRefresh
<1>3. RefreshOK'
  BY <1>1, RecordsAreTyped DEF EndRefresh, RefreshOK
<1>4. CallsOK'
  BY <1>1, RecordsAreTyped DEF EndRefresh, CallsOK
<1>5. PagesOK'
  BY <1>1 DEF EndRefresh, PagesOK
<1>. QED
  BY <1>2, <1>3, <1>4, <1>5

LEMMA AnsweringIsTyped ==
    ASSUME CallsOK, NEW x \in Tabs \union Calls, NEW a \in {"accepted", "refused"},
           NEW tok \in Token, call' = [call EXCEPT ![x].at = a, ![x].token = tok]
    PROVE  CallsOK'
<1>1. call[x] \in CallRecord
  BY DEF CallsOK
<1>2. call' = [call EXCEPT ![x] = [call[x] EXCEPT !.at = a, !.token = tok]]
  BY DEF CallsOK
<1>3. [call[x] EXCEPT !.at = a, !.token = tok] \in CallRecord
  BY <1>1, CallsStayTyped
<1>. QED
  BY <1>2, <1>3 DEF CallsOK

LEMMA EndIsTyped ==
    ASSUME CallsOK, NEW x \in Tabs \union Calls, End(x)
    PROVE  CallsOK'
BY RecordsAreTyped DEF End, CallsOK

\* The steps of one call, whether its page waits for it or not.
LEMMA CallStepIsTyped ==
    ASSUME TypeOK, NEW x \in Tabs \union Calls, CallStep(x) \/ ServeLate(x)
    PROVE  TypeOK'
<1>1. ServerOK /\ PagesOK /\ RefreshOK /\ CallsOK /\ LostOK
  BY TypeParts
<1>2. call[x] \in CallRecord /\ call[x].token \in Token /\ NoSession \in Token
  BY <1>1 DEF CallsOK, CallRecord, Token
<1>3. ASSUME UNCHANGED <<pageVars, refresh, stray, unlucky>>
      PROVE  PagesOK' /\ RefreshOK' /\ LostOK'
  BY <1>1, <1>3 DEF pageVars, PagesOK, RefreshOK, LostOK
<1>4. ASSUME UNCHANGED <<serverVars, refresh, stray, unlucky>>
      PROVE  ServerOK' /\ RefreshOK' /\ LostOK'
  BY <1>1, <1>4, KeepingIsTyped DEF RefreshOK, LostOK
<1>5. CASE ServeCall(x)
  <2>1. CallsOK'
    BY <1>1, <1>2, <1>5, AnsweringIsTyped DEF ServeCall, Answer
  <2>2. ServerOK'
    BY <1>1, <1>5, HandlingIsTyped, KeepingIsTyped DEF ServeCall
  <2>. QED
    BY <1>3, <1>5, <2>1, <2>2, TypePartsNext DEF ServeCall
<1>6. CASE ServeLogin(x)
  <2>1. PICK s : s = NextSession
    OBVIOUS
  <2>2. /\ s \in Sessions
        /\ Begin(s)
        /\ call' = [call EXCEPT ![x].at = "accepted", ![x].token = s]
        /\ UNCHANGED <<pageVars, refresh, stray, unlucky>>
    BY <1>6, <2>1, NextIsUnissued DEF ServeLogin, Begin
  <2>3. ServerOK'
    BY <1>1, <2>2, BeginningIsTyped
  <2>4. CallsOK'
    BY <1>1, <2>2, AnsweringIsTyped DEF Token
  <2>. QED
    BY <1>3, <2>2, <2>3, <2>4, TypePartsNext
<1>7. CASE ServeLate(x)
  <2>1. CallsOK'
    BY <1>1, <1>7, EndIsTyped DEF ServeLate
  <2>2. ServerOK'
    <3>1. Begin(NextSession) \/ Handle(x) \/ UNCHANGED serverVars
      BY <1>7 DEF ServeLate
    <3>2. Begin(NextSession) => NextSession \in Sessions
      BY NextIsUnissued DEF Begin
    <3>. QED
      BY <1>1, <3>1, <3>2, BeginningIsTyped, HandlingIsTyped, KeepingIsTyped
  <2>. QED
    BY <1>3, <1>7, <2>1, <2>2, TypePartsNext DEF ServeLate
<1>8. CASE Succeed(x) \/ Fail(x) \/ FailUnauthorized(x)
  <2>1. End(x) /\ (\E succeeded \in BOOLEAN : After(x, succeeded))
    BY <1>8 DEF Succeed, Fail, FailUnauthorized
  <2>2. CallsOK' /\ PagesOK'
    BY <1>1, <2>1, EndIsTyped, AfterIsTyped
  <2>. QED
    BY <1>4, <1>8, <2>2, TypePartsNext DEF Succeed, Fail, FailUnauthorized
<1>9. CASE BreakOff(x)
  <2>1. CallsOK'
    BY <1>1, <1>9, EndIsTyped DEF BreakOff
  <2>2. PagesOK'
    BY <1>1, <1>2, <1>9 DEF BreakOff, PagesOK
  <2>. QED
    BY <1>4, <1>9, <2>1, <2>2, TypePartsNext DEF BreakOff
<1>10. CASE Disconnect(x)
  <2>1. CallsOK'
    BY <1>1, <1>2, <1>10, GivenUpIsTyped DEF Disconnect, CallsOK
  <2>2. PagesOK'
    BY <1>10, AfterIsTyped DEF Disconnect
  <2>. QED
    BY <1>4, <1>10, <2>1, <2>2, TypePartsNext DEF Disconnect
<1>11. CASE AwaitRefresh(x)
  <2>1. CallsOK'
    <3>1. call' = [call EXCEPT ![x] = [call[x] EXCEPT !.at = "waiting", !.retried = TRUE]]
      BY <1>1, <1>11 DEF AwaitRefresh, CallsOK
    <3>. QED
      BY <1>1, <1>2, <3>1, CallsStayTyped DEF CallsOK
  <2>2. SendRefresh(PageOf(x)) \/ UNCHANGED <<refresh, stray, unlucky>>
    BY <1>11 DEF AwaitRefresh, JoinRefresh
  <2>3. RefreshOK' /\ LostOK'
    BY <1>1, <2>2, SendingIsTyped, PagesAreTabs DEF RefreshOK, LostOK
  <2>4. ServerOK' /\ PagesOK'
    BY <1>1, <1>11, KeepingIsTyped DEF AwaitRefresh, pageVars, PagesOK
  <2>. QED
    BY <2>1, <2>3, <2>4, TypePartsNext
<1>. QED
  BY <1>5, <1>6, <1>7, <1>8, <1>9, <1>10, <1>11 DEF CallStep

LEMMA RefreshStepIsTyped ==
    ASSUME TypeOK, NEW t \in Tabs, RefreshStep(t)
    PROVE  TypeOK'
<1>1. ServerOK /\ PagesOK /\ RefreshOK /\ CallsOK /\ LostOK
  BY TypeParts
<1>2. refresh[t] \in RefreshRecord /\ refresh[t].token \in Token /\ NoSession \in Token
  BY <1>1 DEF RefreshOK, RefreshRecord, Token
<1>3. ASSUME UNCHANGED <<pageVars, stray, call, unlucky>>
      PROVE  PagesOK' /\ CallsOK' /\ LostOK'
  BY <1>1, <1>3 DEF pageVars, PagesOK, CallsOK, LostOK
<1>4. CASE Rotate(t)
  <2>1. PICK s : s = NextSession
    OBVIOUS
  <2>2. /\ s \in Sessions
        /\ Exchange(refresh[t].token, s)
        /\ refresh' = [refresh EXCEPT ![t] = [at |-> "granted", token |-> s]]
        /\ UNCHANGED <<pageVars, stray, call, unlucky>>
    BY <1>4, <2>1, NextIsUnissued DEF Rotate, Exchange
  <2>3. ServerOK'
    BY <1>1, <2>2, ExchangingIsTyped
  <2>4. RefreshOK'
    BY <1>1, <2>2, RecordsAreTyped DEF RefreshOK, Token
  <2>. QED
    BY <1>3, <2>2, <2>3, <2>4, TypePartsNext
<1>5. CASE RefuseRefresh(t)
  <2>1. ServerOK'
    BY <1>1, <1>5, RejectingIsTyped DEF RefuseRefresh
  <2>2. RefreshOK'
    <3>1. refresh' = [refresh EXCEPT ![t] = [refresh[t] EXCEPT !.at = "refused"]]
      BY <1>5 DEF RefuseRefresh
    <3>. QED
      BY <1>1, <1>2, <3>1, RefreshesStayTyped DEF RefreshOK
  <2>. QED
    BY <1>3, <1>5, <2>1, <2>2, TypePartsNext DEF RefuseRefresh
<1>6. CASE ReceiveTokens(t)
  <2> DEFINE new == refresh[t].token
             Resume(x) == [call[x] EXCEPT !.at = "sent", !.token = new]
  <2>1. /\ cookie' = new
        /\ access' = [access EXCEPT ![t] = new]
        /\ refresh' = [refresh EXCEPT ![t] = NoRefresh]
        /\ UNCHANGED <<serverVars, status, stray, unlucky>>
    BY <1>6 DEF ReceiveTokens
  <2>2. call' = [x \in DOMAIN call |->
                   IF PageOf(x) = t /\ call[x].at = "waiting" THEN Resume(x) ELSE call[x]]
    BY <1>6 DEF ReceiveTokens
  <2>3. CallsOK'
    <3>1. \A x \in Tabs \union Calls : call[x] \in CallRecord /\ Resume(x) \in CallRecord
      BY <1>1, <1>2, CallsStayTyped DEF CallsOK
    <3> HIDE DEF Resume
    <3>. QED
      BY <1>1, <2>2, <3>1 DEF CallsOK
  <2>4. PagesOK'
    BY <1>1, <1>2, <2>1 DEF PagesOK
  <2>5. RefreshOK' /\ ServerOK' /\ LostOK'
    BY <1>1, <2>1, RecordsAreTyped, KeepingIsTyped DEF RefreshOK, LostOK
  <2>. QED
    BY <2>3, <2>4, <2>5, TypePartsNext
<1>7. CASE ReceiveRefusal(t) \/ FailRefresh(t) \/ LoseRefresh(t)
  <2>1. EndRefresh(t) /\ cookie' \in Token
    BY <1>1, <1>2, <1>7 DEF ReceiveRefusal, CookieRefused, FailRefresh, LoseRefresh, PagesOK
  <2>2. unlucky' \in BOOLEAN /\ stray' \in {stray, stray \union Abandoned(t)}
    BY <1>1, <1>7 DEF ReceiveRefusal, FailRefresh, LoseRefresh, LostOK
  <2>3. LostOK'
    BY <1>1, <2>2, LosingIsTyped DEF LostOK
  <2>. QED
    BY <2>1, <2>3, EndingIsTyped, TypePartsNext
<1>. QED
  BY <1>4, <1>5, <1>6, <1>7 DEF RefreshStep

LEMMA TypesStep ==
    ASSUME TypeOK, [Next]_vars
    PROVE  TypeOK'
<1>1. ServerOK /\ PagesOK /\ RefreshOK /\ CallsOK /\ LostOK
  BY TypeParts
<1>2. ASSUME NEW x \in Calls, NEW kind \in Kind, StartCall(x, kind)
      PROVE  TypeOK'
  <2> DEFINE tok == IF kind = "login" THEN NoSession ELSE access[TabOf[x]]
             new == [kind |-> kind, retried |-> FALSE, at |-> "sent", token |-> tok]
  <2>1. call' = [call EXCEPT ![x] = new]
    BY <1>2 DEF StartCall
  <2>2. tok \in Token
    BY <1>1, BrowserAssumption DEF PagesOK, Token
  <2>3. new \in CallRecord
    BY <1>2, <2>2 DEF CallRecord
  <2>4. CallsOK'
    <3> HIDE DEF new
    <3>. QED
      BY <1>1, <2>1, <2>3 DEF CallsOK
  <2>5. ServerOK' /\ PagesOK' /\ RefreshOK' /\ LostOK'
    BY <1>1, <1>2, KeepingIsTyped DEF StartCall, pageVars, PagesOK, RefreshOK, LostOK
  <2>. QED
    BY <2>4, <2>5, TypePartsNext
<1>3. ASSUME NEW t \in Tabs, Reload(t)
      PROVE  TypeOK'
  <2>1. CallsOK'
    <3>1. \A x \in Tabs \union Calls : GivenUp(call[x]) \in CallRecord /\ call[x] \in CallRecord
      BY <1>1, GivenUpIsTyped DEF CallsOK
    <3>. QED
      BY <1>1, <1>3, <3>1, RecordsAreTyped DEF Reload, CallsOK
  <2>2. RefreshOK'
    BY <1>1, <1>3, RecordsAreTyped DEF Reload, RefreshOK, PagesOK
  <2>3. PagesOK'
    BY <1>1, <1>3 DEF Reload, PagesOK, Token
  <2>4. ServerOK'
    BY <1>1, <1>3, KeepingIsTyped DEF Reload
  <2>5. LostOK'
    BY <1>1, <1>3, LosingIsTyped DEF Reload, LostOK
  <2>. QED
    BY <2>1, <2>2, <2>3, <2>4, <2>5, TypePartsNext
<1>4. ASSUME NEW s \in Sessions, Expire(s)
      PROVE  TypeOK'
  <2>1. ServerOK'
    BY <1>1, <1>4 DEF Expire, ServerOK
  <2>2. PagesOK' /\ RefreshOK' /\ CallsOK' /\ LostOK'
    BY <1>1, <1>4 DEF Expire, Token, PagesOK, RefreshOK, CallsOK, LostOK
  <2>. QED
    BY <2>1, <2>2, TypePartsNext
<1>5. ASSUME NEW s \in Sessions, ServeStray(s)
      PROVE  TypeOK'
  <2>1. ServerOK'
    <3>1. Exchange(s, NextSession) => NextSession \in Sessions
      BY NextIsUnissued DEF Exchange
    <3>. QED
      BY <1>1, <1>5, <3>1, ExchangingIsTyped, RejectingIsTyped DEF ServeStray
  <2>2. PagesOK' /\ RefreshOK' /\ CallsOK' /\ LostOK'
    BY <1>1, <1>5 DEF ServeStray, pageVars, PagesOK, RefreshOK, CallsOK, LostOK
  <2>. QED
    BY <2>1, <2>2, TypePartsNext
<1>6. CASE UNCHANGED vars
  BY <1>6 DEF vars, serverVars, pageVars, TypeOK
<1>. QED
  BY <1>2, <1>3, <1>4, <1>5, <1>6, CallStepIsTyped, RefreshStepIsTyped DEF Next

LEMMA TypesInit ==
    ASSUME Init
    PROVE  TypeOK
<1>1. ServerOK /\ PagesOK /\ LostOK
  BY DEF Init, ServerOK, PagesOK, LostOK, Token
<1>2. RefreshOK
  BY RecordsAreTyped DEF Init, RefreshOK, Token
<1>3. CallsOK
  BY RecordsAreTyped DEF Init, CallsOK
<1>. QED
  BY <1>1, <1>2, <1>3, TypeParts

\* Every variable of the pages and of the backend keeps its type: whatever answers
\* come and fail, a call, a refresh and a page are in one of their known states.
\* (requestJson, refreshAccessToken, AuthStatus of AuthContext)
THEOREM PagesKeepTheirTypes == Spec => []TypeOK
BY TypesInit, TypesStep, PTL DEF Spec

-----------------------------------------------------------------------------
(* The backend: sessions begin, are renewed, and end.                       *)

Keeps == session' = session /\ family' = family

Revokes(S) == S \subseteq Issued /\ Revoke(S)

LogsIn(s) ==
    /\ s \in Sessions \ Issued
    /\ session' = [session EXCEPT ![s] = "live"]
    /\ family' = [family EXCEPT ![s] = s]

Renews(r, s) ==
    /\ r \in Live /\ s \in Sessions \ Issued
    /\ session' = [session EXCEPT ![s] = "live", ![r] = "revoked"]
    /\ family' = [family EXCEPT ![s] = family[r]]

ServerStep ==
    \/ Keeps
    \/ \E S \in SUBSET Issued : Revokes(S)
    \/ \E s \in Sessions : LogsIn(s)
    \/ \E r, s \in Sessions : Renews(r, s)

LEMMA NextIsNotIssued ==
    ASSUME Unissued # {}
    PROVE  NextSession \in Sessions \ Issued
BY NextIsUnissued DEF Issued

LEMMA BeginsOne ==
    ASSUME NEW s \in Sessions \ Issued, Begin(s)
    PROVE  LogsIn(s)
BY DEF Begin, LogsIn

LEMMA ExchangesOne ==
    ASSUME NEW r, NEW s \in Sessions \ Issued, Exchange(r, s)
    PROVE  Renews(r, s)
BY DEF Exchange, Valid, Renews

LEMMA HandlerRevokes ==
    ASSUME NEW x, Handle(x), Authorized(x)
    PROVE  Keeps \/ \E S \in SUBSET Issued : Revokes(S)
<1>1. {call[x].token} \subseteq Issued /\ Live \subseteq Issued
  BY DEF Authorized, Live, Issued
<1>2. Revoke({call[x].token}) \/ Revoke(Live) \/ UNCHANGED serverVars
  BY DEF Handle
<1>. QED
  BY <1>1, <1>2 DEF Revokes, Keeps, serverVars

LEMMA RejectionRevokes ==
    ASSUME NEW s, Reject(s)
    PROVE  Keeps \/ \E S \in SUBSET Issued : Revokes(S)
<1>1. (s \in Live => {s} \subseteq Issued) /\ FamilyOf(s) \subseteq Issued
  BY DEF FamilyOf, Live, Issued
<1>2. (s \in Live /\ Revoke({s})) \/ Revoke(FamilyOf(s)) \/ UNCHANGED serverVars
  BY DEF Reject
<1>. QED
  BY <1>1, <1>2 DEF Revokes, Keeps, serverVars

LEMMA ServerSteps ==
    ASSUME [Next]_vars
    PROVE  ServerStep
<1>1. ASSUME Begin(NextSession)
      PROVE  ServerStep
  <2>1. LogsIn(NextSession) /\ NextSession \in Sessions
    BY <1>1, NextIsNotIssued, BeginsOne DEF Begin
  <2>. QED
    BY <2>1 DEF ServerStep
<1>2. ASSUME NEW r, Exchange(r, NextSession)
      PROVE  ServerStep
  <2>1. Renews(r, NextSession) /\ NextSession \in Sessions
    BY <1>2, NextIsNotIssued, ExchangesOne DEF Exchange
  <2>2. r \in Sessions
    BY <2>1 DEF Renews, Live
  <2>. QED
    BY <2>1, <2>2 DEF ServerStep
<1>3. ASSUME NEW r, Reject(r)
      PROVE  ServerStep
  BY <1>3, RejectionRevokes DEF ServerStep
<1>4. ASSUME NEW x, Handle(x), Authorized(x)
      PROVE  ServerStep
  BY <1>4, HandlerRevokes DEF ServerStep
<1>5. ASSUME UNCHANGED serverVars
      PROVE  ServerStep
  BY <1>5 DEF serverVars, ServerStep, Keeps
<1>6. ASSUME NEW x, CallStep(x) \/ ServeLate(x)
      PROVE  ServerStep
  <2>1. CASE ServeCall(x)
    BY <1>4, <1>5, <2>1 DEF ServeCall
  <2>2. CASE ServeLogin(x)
    BY <1>1, <2>2 DEF ServeLogin
  <2>3. CASE ServeLate(x)
    BY <1>1, <1>4, <1>5, <2>3 DEF ServeLate
  <2>4. CASE \/ Succeed(x) \/ Fail(x) \/ BreakOff(x) \/ Disconnect(x)
             \/ FailUnauthorized(x) \/ AwaitRefresh(x)
    BY <1>5, <2>4 DEF Succeed, Fail, BreakOff, Disconnect, FailUnauthorized, AwaitRefresh
  <2>. QED
    BY <1>6, <2>1, <2>2, <2>3, <2>4 DEF CallStep
<1>7. ASSUME NEW t, RefreshStep(t)
      PROVE  ServerStep
  <2>1. CASE Rotate(t)
    BY <1>2, <2>1 DEF Rotate
  <2>2. CASE RefuseRefresh(t)
    BY <1>3, <2>2 DEF RefuseRefresh
  <2>3. CASE ReceiveTokens(t) \/ ReceiveRefusal(t) \/ FailRefresh(t) \/ LoseRefresh(t)
    BY <1>5, <2>3 DEF ReceiveTokens, ReceiveRefusal, FailRefresh, LoseRefresh, EndRefresh
  <2>. QED
    BY <1>7, <2>1, <2>2, <2>3 DEF RefreshStep
<1>8. ASSUME NEW s, Expire(s) \/ ServeStray(s)
      PROVE  ServerStep
  <2>1. CASE Expire(s)
    BY <2>1 DEF Expire, ServerStep, Keeps
  <2>2. CASE ServeStray(s)
    BY <1>2, <1>3, <2>2 DEF ServeStray
  <2>. QED
    BY <1>8, <2>1, <2>2
<1>. QED
  BY <1>5, <1>6, <1>7, <1>8 DEF Next, vars, StartCall, Reload

\* What each of them does to the sessions there are, and to those that live.
LEMMA AfterRevoking ==
    ASSUME ServerOK, NEW S, Revokes(S)
    PROVE  Issued' = Issued /\ Live' = Live \ S /\ family' = family
BY DEF ServerOK, Revokes, Revoke, Issued, Live

LEMMA AfterLogin ==
    ASSUME ServerOK, NEW s, LogsIn(s)
    PROVE  /\ s \in Sessions /\ s \notin Issued /\ s \notin Live
           /\ Issued' = Issued \union {s} /\ Live' = Live \union {s}
           /\ family'[s] = s /\ \A z \in Sessions \ {s} : family'[z] = family[z]
BY DEF ServerOK, LogsIn, Issued, Live

LEMMA AfterRenewal ==
    ASSUME ServerOK, NEW r, NEW s, Renews(r, s)
    PROVE  /\ s \in Sessions /\ s \notin Issued /\ s \notin Live /\ r \in Live /\ r # s
           /\ Issued' = Issued \union {s} /\ Live' = (Live \ {r}) \union {s}
           /\ family'[s] = family[r] /\ \A z \in Sessions \ {s} : family'[z] = family[z]
BY DEF ServerOK, Renews, Issued, Live

LEMMA LiveAreIssued == Live \subseteq Issued /\ Issued \subseteq Sessions
BY DEF Live, Issued

LEMMA FamiliesStep ==
    ASSUME ServerOK, FamiliesInv, ServerStep
    PROVE  FamiliesInv'
<1>1. CASE Keeps
  BY <1>1 DEF Keeps, FamiliesInv, Issued, Live
<1>2. ASSUME NEW S, Revokes(S)
      PROVE  FamiliesInv'
  <2>1. Issued' = Issued /\ Live' = Live \ S /\ family' = family
    BY <1>2, AfterRevoking
  <2>. QED
    BY <2>1 DEF FamiliesInv
<1>3. ASSUME NEW s, LogsIn(s)
      PROVE  FamiliesInv'
  <2>1. /\ s \in Sessions /\ s \notin Issued /\ s \notin Live
        /\ Issued' = Issued \union {s} /\ Live' = Live \union {s}
        /\ family'[s] = s /\ \A z \in Sessions \ {s} : family'[z] = family[z]
    BY <1>3, AfterLogin
  <2>. QED
    BY <2>1, LiveAreIssued DEF FamiliesInv
<1>4. ASSUME NEW r, NEW s, Renews(r, s)
      PROVE  FamiliesInv'
  <2>1. /\ s \in Sessions /\ s \notin Issued /\ s \notin Live /\ r \in Live /\ r # s
        /\ Issued' = Issued \union {s} /\ Live' = (Live \ {r}) \union {s}
        /\ family'[s] = family[r] /\ \A z \in Sessions \ {s} : family'[z] = family[z]
    BY <1>4, AfterRenewal
  <2>2. r \in Issued /\ family[r] \in Issued /\ family[r] # s
    BY <2>1, LiveAreIssued DEF FamiliesInv
  <2>3. \A z \in Sessions \ Issued' : family'[z] = z
    BY <2>1 DEF FamiliesInv
  <2>4. \A z \in Issued' : family'[z] \in Issued' /\ family'[family'[z]] = family'[z]
    BY <2>1, <2>2, LiveAreIssued DEF FamiliesInv
  <2>5. \A z, y \in Live' : family'[z] = family'[y] => z = y
    BY <2>1, <2>2, LiveAreIssued DEF FamiliesInv
  <2>. QED
    BY <2>3, <2>4, <2>5 DEF FamiliesInv
<1>. QED
  BY <1>1, <1>2, <1>3, <1>4 DEF ServerStep

LEMMA FamiliesAlways == Spec => [](TypeOK /\ FamiliesInv)
<1>1. Init => TypeOK /\ FamiliesInv
  <2>1. Init => FamiliesInv
    BY DEF Init, FamiliesInv, Issued, Live
  <2>2. Init => TypeOK
    BY TypesInit
  <2>. QED
    BY <2>1, <2>2
<1>2. ASSUME TypeOK, FamiliesInv, [Next]_vars
      PROVE  (TypeOK /\ FamiliesInv)'
  BY <1>2, TypesStep, ServerSteps, FamiliesStep, TypeParts
<1>. QED
  BY <1>1, <1>2, PTL DEF Spec

-----------------------------------------------------------------------------
(* The backend keeps the promise about families.                            *)

Founded(f) == f \in Issued /\ family[f] = f

LEMMA Holding ==
    ASSUME FamiliesInv, NEW f \in Sessions
    PROVE  /\ ~ Founded(f) => Holder[f] = "unborn"
           /\ Founded(f) /\ Generation(f) = {} => Holder[f] = "over"
           /\ \A s \in Live : Founded(f) /\ family[s] = f => Holder[f] = s
<1>1. Holder[f] = IF session[f] = "none" \/ family[f] # f THEN "unborn"
                  ELSE IF Generation(f) = {} THEN "over"
                  ELSE CHOOSE s \in Generation(f) : TRUE
  BY DEF Holder
<1>2. ASSUME NEW s \in Live, Founded(f), family[s] = f
      PROVE  Holder[f] = s
  <2>1. Generation(f) = {s}
    BY <1>2 DEF Generation, FamiliesInv
  <2>. QED
    BY <1>1, <1>2, <2>1 DEF Founded, Issued
<1>. QED
  BY <1>1, <1>2 DEF Founded, Issued

LEMMA HoldingNext ==
    ASSUME FamiliesInv', NEW f \in Sessions
    PROVE  /\ ~ Founded(f)' => Holder'[f] = "unborn"
           /\ Founded(f)' /\ Generation(f)' = {} => Holder'[f] = "over"
           /\ \A s \in Live' : Founded(f)' /\ family'[s] = f => Holder'[f] = s
<1>1. Holder'[f] = IF session'[f] = "none" \/ family'[f] # f THEN "unborn"
                   ELSE IF Generation(f)' = {} THEN "over"
                   ELSE CHOOSE s \in Generation(f)' : TRUE
  BY DEF Holder
<1>2. ASSUME NEW s \in Live', Founded(f)', family'[s] = f
      PROVE  Holder'[f] = s
  <2>1. Generation(f)' = {s}
    BY <1>2 DEF Generation, FamiliesInv
  <2>. QED
    BY <1>1, <1>2, <2>1 DEF Founded, Issued
<1>. QED
  BY <1>1, <1>2 DEF Founded, Issued

LEMMA HolderFunction ==
    /\ Holder = [f \in Sessions |-> Holder[f]]
    /\ Holder' = [f \in Sessions |-> Holder'[f]]
BY DEF Holder

\* Nothing is said of issued but what it is.
LEMMA IssuedIs == Issued = {s \in Sessions : session[s] # "none"}
BY DEF Issued

LEMMA RevocationEnds ==
    ASSUME ServerOK, FamiliesInv, FamiliesInv', NEW S, Revokes(S)
    PROVE  \E F \in SUBSET Sessions : Families!End(F)
<1>1. Issued' = Issued /\ Live' = Live \ S /\ family' = family
  BY AfterRevoking
<1> DEFINE F == {f \in Sessions : Founded(f) /\ Generation(f) # {} /\ Generation(f)' = {}}
<1>2. ASSUME NEW f \in F
      PROVE  Holder[f] \in Issued
  <2>1. PICK s \in Live : family[s] = f
    BY DEF Generation
  <2>. QED
    BY <2>1, Holding, LiveAreIssued
<1>3. ASSUME NEW f \in Sessions
      PROVE  Holder'[f] = IF f \in F THEN "over" ELSE Holder[f]
  <2>1. Founded(f)' <=> Founded(f)
    BY <1>1 DEF Founded
  <2>2. CASE ~ Founded(f)
    BY <2>1, <2>2, Holding, HoldingNext
  <2>3. CASE Founded(f) /\ Generation(f)' = {}
    BY <2>1, <2>3, Holding, HoldingNext
  <2>4. CASE Founded(f) /\ Generation(f)' # {}
    <3>1. PICK s \in Live' : family'[s] = f
      BY <2>4 DEF Generation
    <3>2. s \in Live /\ family[s] = f
      BY <1>1, <3>1
    <3>. QED
      BY <2>1, <2>4, <3>1, <3>2, Holding, HoldingNext
  <2>. QED
    BY <2>2, <2>3, <2>4
<1>4. Holder' = [f \in Sessions |-> IF f \in F THEN "over" ELSE Holder[f]]
  <2> HIDE DEF F
  <2>. QED
    BY <1>3, HolderFunction
<1>5. F \in SUBSET Sessions
  OBVIOUS
<1> HIDE DEF F
<1>. QED
  BY <1>1, <1>2, <1>4, <1>5, IssuedIs DEF Families!End, Issued

LEMMA LoginBegins ==
    ASSUME ServerOK, FamiliesInv, FamiliesInv', NEW s, LogsIn(s)
    PROVE  s \in Sessions /\ Families!Begin(s)
<1>1. /\ s \in Sessions /\ s \notin Issued /\ s \notin Live
      /\ Issued' = Issued \union {s} /\ Live' = Live \union {s}
      /\ family'[s] = s /\ \A z \in Sessions \ {s} : family'[z] = family[z]
  BY AfterLogin
<1>2. Holder[s] = "unborn"
  BY <1>1, Holding DEF Founded
<1>3. Holder'[s] = s
  BY <1>1, HoldingNext DEF Founded
<1>4. ASSUME NEW f \in Sessions, f # s
      PROVE  Holder'[f] = Holder[f]
  <2>1. Founded(f)' <=> Founded(f)
    BY <1>1, <1>4 DEF Founded
  <2>2. CASE ~ Founded(f)
    BY <2>1, <2>2, Holding, HoldingNext
  <2>3. CASE Founded(f) /\ Generation(f) = {}
    <3>1. Generation(f)' = {}
      BY <1>1, <1>4, <2>3, LiveAreIssued DEF Generation
    <3>. QED
      BY <2>1, <2>3, <3>1, Holding, HoldingNext
  <2>4. CASE Founded(f) /\ Generation(f) # {}
    <3>1. PICK z \in Live : family[z] = f
      BY <2>4 DEF Generation
    <3>2. z \in Live' /\ family'[z] = f
      BY <1>1, <3>1, LiveAreIssued
    <3>. QED
      BY <2>1, <2>4, <3>1, <3>2, Holding, HoldingNext
  <2>. QED
    BY <2>2, <2>3, <2>4
<1>5. Holder' = [Holder EXCEPT ![s] = s]
  BY <1>1, <1>3, <1>4, HolderFunction
<1>. QED
  BY <1>1, <1>2, <1>5 DEF Families!Begin, Issued

LEMMA RenewalRenews ==
    ASSUME ServerOK, FamiliesInv, FamiliesInv', NEW r, NEW s, Renews(r, s)
    PROVE  /\ family[r] \in Sessions /\ s \in Sessions
           /\ Families!Renew(family[r], s)
<1>0. PICK e : e = family[r]
  OBVIOUS
<1>1. /\ s \in Sessions /\ s \notin Issued /\ s \notin Live /\ r \in Live /\ r # s
      /\ Issued' = Issued \union {s} /\ Live' = (Live \ {r}) \union {s}
      /\ family'[s] = e /\ \A z \in Sessions \ {s} : family'[z] = family[z]
  BY <1>0, AfterRenewal
<1>2. r \in Issued /\ e \in Issued /\ e # s /\ Founded(e) /\ e \in Sessions
  BY <1>0, <1>1, LiveAreIssued DEF FamiliesInv, Founded
<1>3. Holder[e] = r
  BY <1>0, <1>1, <1>2, Holding
<1>4. Holder'[e] = s
  <2>1. Founded(e)'
    BY <1>1, <1>2 DEF Founded
  <2>. QED
    BY <1>1, <1>2, <2>1, HoldingNext
<1>5. ASSUME NEW f \in Sessions, f # e
      PROVE  Holder'[f] = Holder[f]
  <2>1. Founded(f)' <=> Founded(f)
    <3>1. CASE f = s
      BY <1>1, <1>2, <3>1 DEF Founded
    <3>2. CASE f # s
      BY <1>1, <3>2 DEF Founded
    <3>. QED
      BY <3>1, <3>2
  <2>2. CASE ~ Founded(f)
    BY <2>1, <2>2, Holding, HoldingNext
  <2>3. CASE Founded(f) /\ Generation(f) = {}
    <3>1. Generation(f)' = {}
      BY <1>1, <1>5, <2>3, LiveAreIssued DEF Generation
    <3>. QED
      BY <2>1, <2>3, <3>1, Holding, HoldingNext
  <2>4. CASE Founded(f) /\ Generation(f) # {}
    <3>1. PICK z \in Live : family[z] = f
      BY <2>4 DEF Generation
    <3>2. z \in Live' /\ family'[z] = f
      BY <1>0, <1>1, <1>5, <3>1, LiveAreIssued
    <3>. QED
      BY <2>1, <2>4, <3>1, <3>2, Holding, HoldingNext
  <2>. QED
    BY <2>2, <2>3, <2>4
<1>6. Holder' = [Holder EXCEPT ![e] = s]
  BY <1>2, <1>4, <1>5, HolderFunction
<1>. QED
  BY <1>0, <1>1, <1>2, <1>3, <1>6 DEF Families!Renew, Issued

\* What the backend does for the pages of a browser, whatever they send it, is
\* what TokenFamilies promises: a family passes from one generation of its token
\* to the next, and ends once.  (create_auth_session, rotate_auth_session)
THEOREM PagesKeepFamilies == Spec => KeepsFamilies
<1>1. Init => Families!Init
  BY DEF Init, Families!Init, Holder
<1>2. ASSUME TypeOK, FamiliesInv, FamiliesInv', [Next]_vars
      PROVE  [Families!Next]_<<Holder, Issued>>
  <2>1. ServerOK /\ ServerStep
    BY <1>2, TypeParts, ServerSteps
  <2>2. CASE Keeps
    <3>1. Holder' = Holder /\ Issued' = Issued
      BY <2>2 DEF Keeps, Holder, Issued, Generation, Live
    <3>. QED
      BY <3>1
  <2>3. CASE \E S \in SUBSET Issued : Revokes(S)
    BY <1>2, <2>1, <2>3, RevocationEnds DEF Families!Next
  <2>4. CASE \E s \in Sessions : LogsIn(s)
    BY <1>2, <2>1, <2>4, LoginBegins DEF Families!Next
  <2>5. CASE \E r, s \in Sessions : Renews(r, s)
    BY <1>2, <2>1, <2>5, RenewalRenews DEF Families!Next
  <2>. QED
    BY <2>1, <2>2, <2>3, <2>4, <2>5 DEF ServerStep
<1>3. Spec => [](TypeOK /\ FamiliesInv)
  BY FamiliesAlways
<1>. QED
  BY <1>1, <1>2, <1>3, PTL DEF Spec, KeepsFamilies, Families!Spec, Issued

-----------------------------------------------------------------------------
(* Whether a token may be presented.                                        *)

LEMMA GoodWhenKept ==
    ASSUME Keeps, NEW z
    PROVE  Good(z)' <=> Good(z)
BY DEF Keeps, Good, Generation, Live

LEMMA GoodWhenRevoked ==
    ASSUME ServerOK, FamiliesInv, NEW S, Revokes(S), NEW z, Good(z)
    PROVE  Good(z)'
<1>1. Live' = Live \ S /\ family' = family
  BY AfterRevoking
<1>2. CASE Generation(family[z]) = {}
  BY <1>1, <1>2 DEF Good, Generation
<1>3. CASE z \in Live
  BY <1>1, <1>3 DEF Good, Generation, FamiliesInv
<1>. QED
  BY <1>2, <1>3 DEF Good

LEMMA GoodWhenOthersLogIn ==
    ASSUME ServerOK, FamiliesInv, NEW s, LogsIn(s), NEW z \in Issued, Good(z)
    PROVE  Good(z)'
<1>1. /\ s \in Sessions /\ s \notin Issued
      /\ Live' = Live \union {s} /\ family'[s] = s
      /\ \A y \in Sessions \ {s} : family'[y] = family[y]
  BY AfterLogin
<1>2. z \in Sessions /\ z # s /\ family[z] # s /\ family'[z] = family[z]
  BY <1>1, LiveAreIssued DEF FamiliesInv
<1>3. CASE z \in Live
  BY <1>1, <1>3 DEF Good
<1>4. CASE Generation(family[z]) = {}
  <2>1. Generation(family[z])' = {}
    BY <1>1, <1>2, <1>4, LiveAreIssued DEF Generation
  <2>. QED
    BY <1>2, <2>1 DEF Good
<1>. QED
  BY <1>3, <1>4 DEF Good

LEMMA GoodWhenOthersRenew ==
    ASSUME ServerOK, FamiliesInv, NEW r, NEW s, Renews(r, s), NEW z \in Issued, Good(z),
           family[z] # family[r]
    PROVE  Good(z)'
<1>1. /\ s \in Sessions /\ s \notin Issued /\ r \in Live
      /\ Live' = (Live \ {r}) \union {s} /\ family'[s] = family[r]
      /\ \A y \in Sessions \ {s} : family'[y] = family[y]
  BY AfterRenewal
<1>2. z \in Sessions /\ z # s /\ z # r /\ family'[z] = family[z]
  BY <1>1, LiveAreIssued
<1>3. CASE z \in Live
  BY <1>1, <1>2, <1>3 DEF Good
<1>4. CASE Generation(family[z]) = {}
  <2>1. Generation(family[z])' = {}
    BY <1>1, <1>2, <1>4, LiveAreIssued DEF Generation
  <2>. QED
    BY <1>2, <2>1 DEF Good
<1>. QED
  BY <1>3, <1>4 DEF Good

-----------------------------------------------------------------------------
(* What a step does to the cookie and the refreshes, unless a new session   *)
(* begins.                                                                  *)

Calm == Issued' = Issued /\ family' = family /\ \A z \in Issued : Good(z) => Good(z)'

SameRefreshBut(t) == \A u \in Tabs \ {t} : refresh'[u] = refresh[u]
Forgets(t) == refresh'[t] = NoRefresh /\ SameRefreshBut(t)
SameRefreshes == \A u \in Tabs : refresh'[u] = refresh[u]

\* No answer brings new tokens.
KeepsOrDeletes == SameRefreshes /\ cookie' \in {cookie, NoSession}

\* The answer to a login has come.
TakesLogin ==
    /\ SameRefreshes
    /\ \E x \in Tabs \union Calls : Arriving(x) /\ ~ Arriving(x)' /\ cookie' = call[x].token

Sends(t) ==
    /\ cookie' = cookie
    /\ refresh'[t] = [at |-> "sent", token |-> cookie] /\ SameRefreshBut(t)
    /\ refresh[t].at # "granted"
    /\ cookie # NoSession => \A u \in Tabs \ {t} : refresh[u].at = "none"

Takes(t) == refresh[t].at = "granted" /\ Forgets(t) /\ cookie' = refresh[t].token

GetsNothing(t) == refresh[t].at # "granted" /\ Forgets(t) /\ cookie' \in {cookie, NoSession}

IsRefused(t) ==
    /\ cookie' = cookie
    /\ refresh[t].at = "sent" /\ refresh'[t].at = "refused" /\ refresh'[t].token = refresh[t].token
    /\ SameRefreshBut(t)

PageStep ==
    \/ KeepsOrDeletes
    \/ TakesLogin
    \/ \E t \in Tabs : Sends(t) \/ Takes(t) \/ GetsNothing(t) \/ IsRefused(t)

\* Calls come to no new session.
CallsQuiet ==
    \A x \in Tabs \union Calls : Arriving(x)' => Arriving(x) /\ call'[x].token = call[x].token

RestoresOnly == \A t \in Tabs : call'[t].kind \in {"read", "restore"}

LEMMA TokensWhenCalm ==
    ASSUME TokensInv, Calm, PageStep, RestoresOnly, stray' = {},
           \A x \in Tabs \union Calls : Arriving(x) => call[x].token \in Issued \union {NoSession}
    PROVE  TokensInv'
<1>1. Issued' = Issued
  BY DEF Calm
<1>2. cookie' \in Issued \union {NoSession}
  BY DEF PageStep, KeepsOrDeletes, TakesLogin, Sends, Takes, GetsNothing, IsRefused, TokensInv
<1>3. ASSUME NEW t \in Tabs
      PROVE  /\ refresh'[t].token \in Issued \union {NoSession}
             /\ refresh'[t].at = "granted" => refresh'[t].token # NoSession
  BY <1>3 DEF PageStep, KeepsOrDeletes, TakesLogin, Sends, Takes, GetsNothing, IsRefused, TokensInv,
              SameRefreshBut, SameRefreshes, Forgets, NoRefresh
<1>. QED
  BY <1>1, <1>2, <1>3 DEF TokensInv, RestoresOnly

LEMMA RefreshesAreGood ==
    ASSUME \A t \in Tabs :
              refresh'[t].at \in {"sent", "granted"} /\ refresh'[t].token # NoSession =>
                \E z : z = refresh'[t].token /\ Good(z)'
    PROVE  RefreshesInv'
<1>1. SUFFICES ASSUME NEW t \in Tabs, refresh'[t].at \in {"sent", "granted"}, refresh'[t].token # NoSession
               PROVE  Good(refresh[t].token)'
  BY DEF RefreshesInv
<1>2. PICK z : z = refresh'[t].token /\ Good(z)'
  BY <1>1
<1>. QED
  BY <1>2 DEF Good, Generation

LEMMA CookieIsGood ==
    ASSUME cookie' # NoSession => \E z : z = cookie' /\ Good(z)'
    PROVE  CookieInv'
<1>1. SUFFICES ASSUME cookie' # NoSession
               PROVE  Good(cookie)'
  BY DEF CookieInv
<1>2. PICK z : z = cookie' /\ Good(z)'
  BY <1>1
<1>. QED
  BY <1>2 DEF Good, Generation

LEMMA RefreshesWhenCalm ==
    ASSUME TokensInv, Calm, PageStep, OneRefresh, RefreshesInv, CookieInv
    PROVE  OneRefresh' /\ RefreshesInv'
<1>1. ASSUME NEW t \in Tabs, refresh'[t] = refresh[t]
      PROVE  /\ refresh'[t].at \in {"sent", "granted"} /\ refresh'[t].token # NoSession =>
                  \E z : z = refresh'[t].token /\ Good(z)'
             /\ Busy(t)' <=> Busy(t)
  <2>1. Busy(t)' <=> Busy(t)
    BY <1>1 DEF Busy
  <2>2. ASSUME refresh[t].at \in {"sent", "granted"}, refresh[t].token # NoSession
        PROVE  \E z : z = refresh[t].token /\ Good(z)'
    <3>1. PICK z : z = refresh[t].token
      OBVIOUS
    <3>2. Good(z) /\ z \in Issued
      BY <2>2, <3>1 DEF RefreshesInv, TokensInv
    <3>. QED
      BY <3>1, <3>2 DEF Calm
  <2>. QED
    BY <1>1, <2>1, <2>2
<1>2. CASE KeepsOrDeletes \/ TakesLogin
  <2>1. \A t \in Tabs : refresh'[t] = refresh[t]
    BY <1>2 DEF KeepsOrDeletes, TakesLogin, SameRefreshes
  <2>2. OneRefresh'
    BY <1>1, <2>1 DEF OneRefresh
  <2>. QED
    BY <1>1, <2>1, <2>2, RefreshesAreGood
<1>3. ASSUME NEW t \in Tabs, Takes(t) \/ GetsNothing(t) \/ IsRefused(t)
      PROVE  OneRefresh' /\ RefreshesInv'
  <2>1. \A u \in Tabs \ {t} : refresh'[u] = refresh[u]
    BY <1>3 DEF Takes, GetsNothing, IsRefused, Forgets, SameRefreshBut
  <2>2. refresh'[t].at \notin {"sent", "granted"} /\ (Busy(t)' => Busy(t))
    BY <1>3 DEF Takes, GetsNothing, IsRefused, Forgets, NoRefresh, Busy
  <2>3. OneRefresh'
    BY <1>1, <2>1, <2>2 DEF OneRefresh
  <2>4. RefreshesInv'
    BY <1>1, <2>1, <2>2, RefreshesAreGood
  <2>. QED
    BY <2>3, <2>4
<1>4. ASSUME NEW t \in Tabs, Sends(t)
      PROVE  OneRefresh' /\ RefreshesInv'
  <2>1. \A u \in Tabs \ {t} : refresh'[u] = refresh[u]
    BY <1>4 DEF Sends, SameRefreshBut
  <2>2. refresh'[t].token = cookie /\ refresh'[t].at = "sent" /\ refresh[t].at # "granted"
    BY <1>4 DEF Sends
  <2>3. cookie # NoSession => \A u \in Tabs \ {t} : ~ Busy(u) /\ refresh[u].at # "granted"
    BY <1>4 DEF Sends, Busy
  <2>4. OneRefresh'
    <3>1. CASE cookie = NoSession
      <4>1. ~ Busy(t)'
        BY <2>2, <3>1 DEF Busy
      <4>. QED
        BY <1>1, <2>1, <4>1 DEF OneRefresh
    <3>2. CASE cookie # NoSession
      BY <1>1, <2>1, <2>3, <3>2 DEF OneRefresh
    <3>. QED
      BY <3>1, <3>2
  <2>5. ASSUME refresh'[t].token # NoSession
        PROVE  \E z : z = refresh'[t].token /\ Good(z)'
    <3>1. PICK z : z = cookie
      OBVIOUS
    <3>2. Good(z) /\ z \in Issued
      BY <2>2, <2>3, <2>5, <3>1 DEF CookieInv, TokensInv
    <3>. QED
      BY <2>2, <3>1, <3>2 DEF Calm
  <2>6. RefreshesInv'
    BY <1>1, <2>1, <2>5, RefreshesAreGood
  <2>. QED
    BY <2>4, <2>6
<1>. QED
  BY <1>2, <1>3, <1>4 DEF PageStep

LEMMA CookieWhenCalm ==
    ASSUME TokensInv, Calm, PageStep, RefreshesInv, CookieInv, ArrivingInv
    PROVE  CookieInv'
<1>1. CASE cookie' = NoSession
  BY <1>1 DEF CookieInv
<1>2. CASE TakesLogin
  <2>1. PICK x \in Tabs \union Calls : Arriving(x) /\ cookie' = call[x].token
    BY <1>2 DEF TakesLogin
  <2>2. PICK z : z = call[x].token
    OBVIOUS
  <2>3. Good(z) /\ z \in Issued
    BY <2>1, <2>2 DEF ArrivingInv
  <2>. QED
    BY <2>1, <2>2, <2>3, CookieIsGood DEF Calm
<1>3. ASSUME NEW t \in Tabs, Takes(t)
      PROVE  CookieInv'
  <2>1. PICK z : z = refresh[t].token
    OBVIOUS
  <2>2. Good(z) /\ z \in Issued
    BY <1>3, <2>1 DEF Takes, RefreshesInv, TokensInv
  <2>. QED
    BY <1>3, <2>1, <2>2, CookieIsGood DEF Takes, Calm
<1>4. CASE cookie' = cookie /\ cookie # NoSession /\
           \A t \in Tabs : refresh[t].at = "granted" => refresh'[t] = refresh[t]
  <2>1. CASE Good(cookie)
    <3>1. PICK z : z = cookie
      OBVIOUS
    <3>2. Good(z) /\ z \in Issued
      BY <1>4, <2>1, <3>1 DEF TokensInv
    <3>. QED
      BY <1>4, <3>1, <3>2, CookieIsGood DEF Calm
  <2>2. CASE \E t \in Tabs : refresh[t].at = "granted" /\ family[refresh[t].token] = family[cookie]
    <3>1. PICK t \in Tabs : refresh[t].at = "granted" /\ family[refresh[t].token] = family[cookie]
      BY <2>2
    <3>2. refresh'[t].at = "granted" /\ family'[refresh'[t].token] = family'[cookie']
      BY <1>4, <3>1 DEF Calm
    <3>. QED
      BY <3>2 DEF CookieInv
  <2>. QED
    BY <1>4, <2>1, <2>2 DEF CookieInv
<1>5. CASE KeepsOrDeletes
  BY <1>1, <1>4, <1>5 DEF KeepsOrDeletes, SameRefreshes
<1>6. ASSUME NEW t \in Tabs, Sends(t) \/ GetsNothing(t) \/ IsRefused(t)
      PROVE  CookieInv'
  <2>1. refresh[t].at # "granted" /\ SameRefreshBut(t) /\ cookie' \in {cookie, NoSession}
    BY <1>6 DEF Sends, GetsNothing, IsRefused, Forgets
  <2>2. \A u \in Tabs : refresh[u].at = "granted" => refresh'[u] = refresh[u]
    BY <2>1 DEF SameRefreshBut
  <2>. QED
    BY <1>1, <1>4, <2>1, <2>2
<1>. QED
  BY <1>2, <1>3, <1>5, <1>6 DEF PageStep

LEMMA ArrivingWhenCalm ==
    ASSUME TokensInv, Calm, PageStep, CallsQuiet, ArrivingInv
    PROVE  ArrivingInv'
<1>1. SUFFICES
        ASSUME NEW x \in Tabs \union Calls, Arriving(x)'
        PROVE  /\ call'[x].token \in Issued'
               /\ Good(call[x].token)'
               /\ \A s \in Issued' : family'[s] = family'[call'[x].token] => s = call'[x].token
               /\ cookie' # call'[x].token
               /\ \A t \in Tabs : refresh'[t].token # call'[x].token
               /\ \A y \in Tabs \union Calls : y # x /\ Arriving(y)' => call'[y].token # call'[x].token
  BY DEF ArrivingInv
<1>2. PICK z : z = call[x].token
  OBVIOUS
<1>3. Arriving(x) /\ call'[x].token = z
  BY <1>1, <1>2 DEF CallsQuiet
<1>4. /\ z \in Issued /\ Good(z)
      /\ \A s \in Issued : family[s] = family[z] => s = z
      /\ cookie # z
      /\ \A t \in Tabs : refresh[t].token # z
      /\ \A y \in Tabs \union Calls : y # x /\ Arriving(y) => call[y].token # z
  BY <1>2, <1>3 DEF ArrivingInv
<1>5. Good(z)' /\ Issued' = Issued /\ family' = family
  BY <1>4 DEF Calm
<1>6. Good(call[x].token)'
  BY <1>3, <1>5 DEF Good, Generation
<1>7. z # NoSession
  BY <1>4, LiveAreIssued, BrowserAssumption
<1>8. cookie' # z
  <2>1. CASE TakesLogin
    BY <1>1, <1>4, <2>1 DEF TakesLogin
  <2>2. ASSUME NEW t \in Tabs, Takes(t)
        PROVE  cookie' # z
    BY <1>4, <2>2 DEF Takes
  <2>3. CASE cookie' \in {cookie, NoSession}
    BY <1>4, <1>7, <2>3
  <2>. QED
    BY <2>1, <2>2, <2>3 DEF PageStep, KeepsOrDeletes, Sends, GetsNothing, IsRefused
<1>9. ASSUME NEW t \in Tabs
      PROVE  refresh'[t].token # z
  <2>1. refresh'[t].token \in {refresh[t].token, cookie, NoSession}
    BY DEF PageStep, KeepsOrDeletes, TakesLogin, Sends, Takes, GetsNothing, IsRefused,
           SameRefreshBut, SameRefreshes, Forgets, NoRefresh
  <2>. QED
    BY <1>4, <1>7, <2>1
<1>10. \A y \in Tabs \union Calls : y # x /\ Arriving(y)' => call'[y].token # z
  BY <1>4 DEF CallsQuiet
<1>. QED
  BY <1>3, <1>4, <1>5, <1>6, <1>8, <1>9, <1>10

-----------------------------------------------------------------------------
(* A login and a renewal.                                                   *)

LEMMA PagesWhenServed ==
    ASSUME ServerOK, FamiliesInv, TokensInv, OneRefresh, RefreshesInv, CookieInv, ArrivingInv,
           NEW s, LogsIn(s), NEW x \in Tabs \union Calls,
           cookie' = cookie, refresh' = refresh,
           Arriving(x)' => call'[x].token = s,
           \A y \in Tabs \union Calls : y # x => call'[y] = call[y]
    PROVE  OneRefresh' /\ RefreshesInv' /\ CookieInv' /\ ArrivingInv'
<1>1. /\ s \in Sessions /\ s \notin Issued
      /\ Issued' = Issued \union {s} /\ Live' = Live \union {s}
      /\ family'[s] = s /\ \A z \in Sessions \ {s} : family'[z] = family[z]
  BY AfterLogin
<1>2. \A z \in Issued : z # s /\ family'[z] = family[z] /\ family[z] \in Issued /\ family[z] # s
  BY <1>1, LiveAreIssued DEF FamiliesInv
<1>3. ASSUME NEW z \in Issued, Good(z)
      PROVE  Good(z)'
  BY <1>3, GoodWhenOthersLogIn
<1>4. OneRefresh'
  BY DEF OneRefresh, Busy
<1>5. RefreshesInv'
  <2>1. ASSUME NEW t \in Tabs, refresh[t].at \in {"sent", "granted"}, refresh[t].token # NoSession
        PROVE  \E z : z = refresh[t].token /\ Good(z)'
    <3>1. PICK z : z = refresh[t].token
      OBVIOUS
    <3>2. z \in Issued /\ Good(z)
      BY <2>1, <3>1 DEF TokensInv, RefreshesInv
    <3>. QED
      BY <1>3, <3>1, <3>2
  <2>. QED
    BY <2>1, RefreshesAreGood
<1>6. CookieInv'
  <2>1. CASE cookie = NoSession
    BY <2>1 DEF CookieInv
  <2>2. CASE cookie # NoSession /\ Good(cookie)
    <3>1. PICK z : z = cookie
      OBVIOUS
    <3>2. z \in Issued /\ Good(z)
      BY <2>2, <3>1 DEF TokensInv
    <3>. QED
      BY <1>3, <3>1, <3>2, CookieIsGood
  <2>3. CASE cookie # NoSession /\
             \E t \in Tabs : refresh[t].at = "granted" /\ family[refresh[t].token] = family[cookie]
    <3>1. PICK t \in Tabs : refresh[t].at = "granted" /\ family[refresh[t].token] = family[cookie]
      BY <2>3
    <3>2. cookie \in Issued /\ refresh[t].token \in Issued
      BY <2>3, <3>1 DEF TokensInv
    <3>3. refresh'[t].at = "granted" /\ family'[refresh'[t].token] = family'[cookie']
      BY <1>2, <3>1, <3>2
    <3>. QED
      BY <3>3 DEF CookieInv
  <2>. QED
    BY <2>1, <2>2, <2>3 DEF CookieInv
<1>7. ArrivingInv'
  <2>1. SUFFICES
          ASSUME NEW y \in Tabs \union Calls, Arriving(y)'
          PROVE  /\ call'[y].token \in Issued'
                 /\ Good(call[y].token)'
                 /\ \A r \in Issued' : family'[r] = family'[call'[y].token] => r = call'[y].token
                 /\ cookie' # call'[y].token
                 /\ \A t \in Tabs : refresh'[t].token # call'[y].token
                 /\ \A v \in Tabs \union Calls : v # y /\ Arriving(v)' => call'[v].token # call'[y].token
    BY DEF ArrivingInv
  <2>2. \A v \in Tabs \union Calls : v # x => (Arriving(v)' <=> Arriving(v)) /\ call'[v].token = call[v].token
    BY DEF Arriving
  <2>3. NoSession \notin Issued \union {s}
    BY <1>1, LiveAreIssued, BrowserAssumption
  <2>4. \A v \in Tabs \union Calls : Arriving(v) => call[v].token \in Issued
    BY DEF ArrivingInv
  <2>5. CASE y = x
    <3>0. call'[y].token = s
      BY <2>1, <2>5
    <3>1. Good(call[y].token)'
      BY <1>1, <3>0 DEF Good
    <3>2. cookie # s /\ \A t \in Tabs : refresh[t].token # s
      BY <1>1, <2>3 DEF TokensInv
    <3>3. \A v \in Tabs \union Calls : v # y /\ Arriving(v)' => call'[v].token # s
      BY <1>1, <2>2, <2>4, <2>5
    <3>4. \A r \in Issued' : family'[r] = s => r = s
      BY <1>1, <1>2
    <3>. QED
      BY <1>1, <3>0, <3>1, <3>2, <3>3, <3>4
  <2>6. CASE y # x
    <3>1. PICK z : z = call[y].token
      OBVIOUS
    <3>2. Arriving(y) /\ call'[y].token = z
      BY <2>1, <2>2, <2>6, <3>1
    <3>3. /\ z \in Issued /\ Good(z)
          /\ \A r \in Issued : family[r] = family[z] => r = z
          /\ cookie # z
          /\ \A t \in Tabs : refresh[t].token # z
          /\ \A v \in Tabs \union Calls : v # y /\ Arriving(v) => call[v].token # z
      BY <3>1, <3>2 DEF ArrivingInv
    <3>4. Good(call[y].token)'
      <4>1. Good(z)'
        BY <1>3, <3>3
      <4>. QED
        BY <3>2, <4>1 DEF Good, Generation
    <3>5. \A v \in Tabs \union Calls : v # y /\ Arriving(v)' => call'[v].token # z
      BY <1>1, <2>2, <3>3
    <3>6. \A r \in Issued' : family'[r] = family'[z] => r = z
      BY <1>1, <1>2, <3>3
    <3>. QED
      BY <1>1, <3>2, <3>3, <3>4, <3>5, <3>6
  <2>. QED
    BY <2>5, <2>6
<1>. QED
  BY <1>4, <1>5, <1>6, <1>7

LEMMA PagesWhenRotated ==
    ASSUME ServerOK, FamiliesInv, TokensInv, OneRefresh, RefreshesInv, CookieInv, ArrivingInv,
           NEW r, NEW s, Renews(r, s), NEW t \in Tabs,
           refresh[t].at = "sent", refresh[t].token = r,
           refresh'[t] = [at |-> "granted", token |-> s], SameRefreshBut(t),
           cookie' = cookie, call' = call
    PROVE  OneRefresh' /\ RefreshesInv' /\ CookieInv' /\ ArrivingInv'
<1>1. /\ s \in Sessions /\ s \notin Issued /\ r \in Live /\ r # s
      /\ Issued' = Issued \union {s} /\ Live' = (Live \ {r}) \union {s}
      /\ family'[s] = family[r] /\ \A z \in Sessions \ {s} : family'[z] = family[z]
  BY AfterRenewal
<1>2. \A z \in Issued : z # s /\ family'[z] = family[z]
  BY <1>1, LiveAreIssued
<1>3. NoSession \notin Issued \union {s} /\ r \in Issued
  BY <1>1, LiveAreIssued, BrowserAssumption
<1>4. \A u \in Tabs \ {t} : ~ Busy(u) /\ refresh'[u] = refresh[u]
  BY <1>3 DEF OneRefresh, Busy, SameRefreshBut
<1>5. OneRefresh'
  BY <1>4 DEF OneRefresh, Busy
<1>6. Good(s)'
  BY <1>1 DEF Good
<1>7. RefreshesInv'
  <2>1. \A u \in Tabs \ {t} : ~ (refresh'[u].at \in {"sent", "granted"} /\ refresh'[u].token # NoSession)
    BY <1>4 DEF Busy
  <2>. QED
    BY <1>6, <2>1, RefreshesAreGood
<1>8. CookieInv'
  <2>1. CASE cookie = NoSession
    BY <2>1 DEF CookieInv
  <2>2. CASE cookie # NoSession /\ family[cookie] = family[r]
    <3>1. family'[cookie] = family[r]
      BY <1>2, <2>2 DEF TokensInv
    <3>2. refresh'[t].at = "granted" /\ family'[refresh'[t].token] = family'[cookie']
      BY <1>1, <3>1
    <3>. QED
      BY <3>2 DEF CookieInv
  <2>3. CASE cookie # NoSession /\ family[cookie] # family[r]
    <3>1. \A u \in Tabs : refresh[u].at # "granted" \/ refresh[u].token = NoSession
      BY <1>4 DEF Busy
    <3>2. PICK z : z = cookie
      OBVIOUS
    <3>3. z \in Issued /\ Good(z) /\ family[z] # family[r]
      BY <2>3, <3>1, <3>2 DEF CookieInv, TokensInv
    <3>4. Good(z)'
      BY <3>3, GoodWhenOthersRenew
    <3>. QED
      BY <3>2, <3>4, CookieIsGood
  <2>. QED
    BY <2>1, <2>2, <2>3
<1>9. ArrivingInv'
  <2>1. SUFFICES
          ASSUME NEW y \in Tabs \union Calls, Arriving(y)'
          PROVE  /\ call'[y].token \in Issued'
                 /\ Good(call[y].token)'
                 /\ \A q \in Issued' : family'[q] = family'[call'[y].token] => q = call'[y].token
                 /\ cookie' # call'[y].token
                 /\ \A u \in Tabs : refresh'[u].token # call'[y].token
                 /\ \A v \in Tabs \union Calls : v # y /\ Arriving(v)' => call'[v].token # call'[y].token
    BY DEF ArrivingInv
  <2>2. PICK z : z = call[y].token
    OBVIOUS
  <2>3. \A v : Arriving(v)' <=> Arriving(v)
    BY DEF Arriving
  <2>4. /\ z \in Issued /\ Good(z)
        /\ \A q \in Issued : family[q] = family[z] => q = z
        /\ cookie # z
        /\ \A u \in Tabs : refresh[u].token # z
        /\ \A v \in Tabs \union Calls : v # y /\ Arriving(v) => call[v].token # z
    BY <2>1, <2>2, <2>3 DEF ArrivingInv
  <2>5. family[z] # family[r]
    BY <1>3, <2>4
  <2>6. Good(call[y].token)'
    <3>1. Good(z)'
      BY <2>4, <2>5, GoodWhenOthersRenew
    <3>. QED
      BY <2>2, <3>1 DEF Good, Generation
  <2>7. \A q \in Issued' : family'[q] = family'[z] => q = z
    BY <1>1, <1>2, <2>4, <2>5
  <2>8. \A u \in Tabs : refresh'[u].token # z
    BY <1>1, <1>4, <2>4
  <2>. QED
    BY <1>1, <2>2, <2>3, <2>4, <2>6, <2>7, <2>8
<1>. QED
  BY <1>5, <1>7, <1>8, <1>9

-----------------------------------------------------------------------------
(* Each action is one of these steps.                                       *)

CallEffect(y) ==
    \/ call'[y] = call[y]
    \/ /\ ~ Arriving(y)'
       /\ y \in Tabs => call'[y].kind \in {call[y].kind, "read", "restore"}

QuietCalls == \A y \in Tabs \union Calls : CallEffect(y)

CalmStep == Calm /\ QuietCalls /\ PageStep /\ stray' = stray

LEMMA QuietMeans ==
    ASSUME TokensInv, QuietCalls
    PROVE  CallsQuiet /\ RestoresOnly
<1>1. CallsQuiet
  BY DEF QuietCalls, CallEffect, CallsQuiet, Arriving
<1>2. RestoresOnly
  BY DEF QuietCalls, CallEffect, RestoresOnly, TokensInv
<1>. QED
  BY <1>1, <1>2

LEMMA CalmWhenKept ==
    ASSUME Keeps
    PROVE  Calm
BY GoodWhenKept DEF Keeps, Calm, Issued

LEMMA CalmWhenRevoked ==
    ASSUME ServerOK, FamiliesInv, Keeps \/ \E S \in SUBSET Issued : Revokes(S)
    PROVE  Calm
BY AfterRevoking, GoodWhenRevoked, CalmWhenKept DEF Calm

LEMMA EndedCalls ==
    /\ Ended.at = "ended" /\ Ended.kind = "read"
    /\ Restoring.at = "waiting" /\ Restoring.kind = "restore"
BY DEF Ended, Unmade, Restoring

LEMMA GivenUpCalls ==
    ASSUME NEW c \in CallRecord
    PROVE  /\ GivenUp(c).at \in {"ended", "lost"}
           /\ c.kind \in {"read", "restore"} => GivenUp(c).kind \in {"read", "restore"}
BY EndedCalls DEF GivenUp, CallRecord

LEMMA LuckIsNotRegained ==
    ASSUME unlucky \in BOOLEAN, [Next]_vars, unlucky
    PROVE  unlucky'
<1>1. ASSUME NEW x, CallStep(x) \/ ServeLate(x)
      PROVE  unlucky'
  BY <1>1 DEF CallStep, ServeCall, ServeLogin, ServeLate, Succeed, Fail, BreakOff, Disconnect,
              FailUnauthorized, AwaitRefresh, JoinRefresh, SendRefresh
<1>2. ASSUME NEW t, RefreshStep(t)
      PROVE  unlucky'
  BY <1>2 DEF RefreshStep, Rotate, RefuseRefresh, ReceiveTokens, ReceiveRefusal, FailRefresh,
              LoseRefresh
<1>. QED
  BY <1>1, <1>2 DEF Next, vars, StartCall, Reload, ServeStray, Expire

LEMMA StartCallIsCalm ==
    ASSUME TypeOK, NEW x \in Calls, NEW kind, StartCall(x, kind)
    PROVE  CalmStep
<1>1. Calm /\ KeepsOrDeletes /\ stray' = stray
  BY CalmWhenKept DEF StartCall, serverVars, pageVars, Keeps, KeepsOrDeletes, SameRefreshes
<1>2. call'[x].at = "sent" /\ \A y \in Tabs \union Calls : y # x => call'[y] = call[y]
  BY TypeParts DEF StartCall, CallsOK
<1>3. QuietCalls
  BY <1>2, BrowserAssumption DEF QuietCalls, CallEffect, Arriving
<1>. QED
  BY <1>1, <1>3 DEF CalmStep, PageStep

LEMMA EndMeans ==
    ASSUME CallsOK, NEW x \in Tabs \union Calls, End(x)
    PROVE  /\ ~ Arriving(x)' /\ QuietCalls
           /\ \A y \in Tabs \union Calls : y # x => call'[y] = call[y]
           /\ x \in Tabs => call'[x].kind = "read"
<1>1. call'[x] = Ended /\ \A y \in Tabs \union Calls : y # x => call'[y] = call[y]
  BY DEF CallsOK, End
<1>. QED
  BY <1>1, EndedCalls DEF QuietCalls, CallEffect, Arriving

LEMMA ServeCallIsCalm ==
    ASSUME TypeOK, FamiliesInv, NEW x \in Tabs \union Calls, ServeCall(x)
    PROVE  CalmStep
<1>1. ServerOK /\ CallsOK /\ call[x] \in CallRecord
  BY TypeParts DEF CallsOK
<1>2. Keeps \/ \E S \in SUBSET Issued : Revokes(S)
  BY HandlerRevokes DEF ServeCall, serverVars, Keeps
<1>3. Calm
  BY <1>1, <1>2, CalmWhenRevoked
<1>4. QuietCalls
  <2>1. PICK a \in {"accepted", "refused"} : Answer(x, a)
    BY DEF ServeCall
  <2> DEFINE new == [call[x] EXCEPT !.at = a, !.token = NoSession]
  <2>2. call' = [call EXCEPT ![x] = new]
    BY <1>1, <2>1 DEF Answer, CallsOK
  <2>3. new.kind = call[x].kind
    BY <1>1 DEF CallRecord
  <2> HIDE DEF new
  <2>4. call'[x] = new /\ \A y \in Tabs \union Calls : y # x => call'[y] = call[y]
    BY <1>1, <2>2 DEF CallsOK
  <2>. QED
    BY <2>3, <2>4 DEF QuietCalls, CallEffect, Arriving, ServeCall
<1>5. KeepsOrDeletes /\ stray' = stray
  BY DEF ServeCall, pageVars, KeepsOrDeletes, SameRefreshes
<1>. QED
  BY <1>3, <1>4, <1>5 DEF CalmStep, PageStep

LEMMA EndingACallIsCalm ==
    ASSUME TypeOK, NEW x \in Tabs \union Calls,
           Succeed(x) \/ Fail(x) \/ BreakOff(x) \/ FailUnauthorized(x)
    PROVE  CalmStep
<1>1. CallsOK /\ Calm /\ SameRefreshes /\ End(x) /\ stray' = stray
  BY TypeParts, CalmWhenKept
  DEF Succeed, Fail, BreakOff, FailUnauthorized, serverVars, Keeps, SameRefreshes
<1>2. ~ Arriving(x)' /\ QuietCalls
  BY <1>1, EndMeans
<1>3. CASE Succeed(x)
  <2>1. \/ cookie' \in {cookie, NoSession}
        \/ call[x].kind = "login" /\ cookie' = call[x].token
    BY <1>3 DEF Succeed, After
  <2>2. KeepsOrDeletes \/ TakesLogin
    BY <1>1, <1>2, <1>3, <2>1 DEF KeepsOrDeletes, TakesLogin, Arriving, Succeed
  <2>. QED
    BY <1>1, <1>2, <2>2 DEF CalmStep, PageStep
<1>4. CASE BreakOff(x)
  <2>1. TakesLogin
    BY <1>1, <1>2, <1>4 DEF TakesLogin, Arriving, BreakOff
  <2>. QED
    BY <1>1, <1>2, <2>1 DEF CalmStep, PageStep
<1>5. CASE Fail(x) \/ FailUnauthorized(x)
  <2>1. cookie' = cookie
    BY <1>5 DEF Fail, FailUnauthorized, After
  <2>. QED
    BY <1>1, <1>2, <2>1 DEF CalmStep, PageStep, KeepsOrDeletes
<1>. QED
  BY <1>3, <1>4, <1>5

LEMMA DisconnectIsCalm ==
    ASSUME TypeOK, NEW x \in Tabs \union Calls, Disconnect(x)
    PROVE  CalmStep
<1>1. /\ CallsOK /\ Calm /\ stray' = stray /\ KeepsOrDeletes
      /\ call' = [call EXCEPT ![x] = GivenUp(call[x])]
  BY TypeParts, CalmWhenKept
  DEF Disconnect, After, serverVars, Keeps, KeepsOrDeletes, SameRefreshes
<1>2. call'[x] = GivenUp(call[x]) /\ \A y \in Tabs \union Calls : y # x => call'[y] = call[y]
  BY <1>1 DEF CallsOK
<1>3. call'[x].at \in {"ended", "lost"} /\ call'[x].kind \in {call[x].kind, "read", "restore"}
  BY <1>1, <1>2, EndedCalls, GivenUpCalls DEF CallsOK, GivenUp, CallRecord
<1>4. QuietCalls
  BY <1>2, <1>3 DEF QuietCalls, CallEffect, Arriving
<1>. QED
  BY <1>1, <1>4 DEF CalmStep, PageStep

LEMMA ServingLateIsCalm ==
    ASSUME TypeOK, FamiliesInv, NEW x \in Tabs \union Calls, ServeLate(x)
    PROVE  CalmStep \/ Begin(NextSession)
<1>1. SUFFICES ASSUME ~ Begin(NextSession)
               PROVE  CalmStep
  OBVIOUS
<1>2. Keeps \/ \E S \in SUBSET Issued : Revokes(S)
  <2>1. (Authorized(x) /\ Handle(x)) \/ UNCHANGED serverVars
    BY <1>1 DEF ServeLate
  <2>. QED
    BY <2>1, HandlerRevokes DEF serverVars, Keeps
<1>3. Calm
  BY <1>2, CalmWhenRevoked, TypeParts
<1>4. QuietCalls
  BY EndMeans, TypeParts DEF ServeLate
<1>5. KeepsOrDeletes /\ stray' = stray
  BY DEF ServeLate, pageVars, KeepsOrDeletes, SameRefreshes
<1>. QED
  BY <1>3, <1>4, <1>5 DEF CalmStep, PageStep

LEMMA SendingIsLucky ==
    ASSUME RefreshOK, NEW t \in Tabs, SendRefresh(t), ~ unlucky', cookie' = cookie,
           refresh[t].at # "granted"
    PROVE  Sends(t)
<1>1. refresh' = [refresh EXCEPT ![t] = [at |-> "sent", token |-> cookie]]
  BY DEF SendRefresh
<1>2. ~ (cookie # NoSession /\ \E u \in Tabs \ {t} : refresh[u].at # "none")
  BY DEF SendRefresh, Meets
<1>3. refresh'[t] = [at |-> "sent", token |-> cookie] /\ SameRefreshBut(t)
  BY <1>1 DEF RefreshOK, SameRefreshBut
<1>. QED
  BY <1>2, <1>3 DEF Sends

LEMMA AwaitRefreshIsCalm ==
    ASSUME TypeOK, NEW x \in Tabs \union Calls, AwaitRefresh(x), ~ unlucky'
    PROVE  CalmStep
<1>1. CallsOK /\ RefreshOK /\ Calm /\ cookie' = cookie /\ stray' = stray
  BY TypeParts, CalmWhenKept
  DEF AwaitRefresh, serverVars, pageVars, Keeps, JoinRefresh, SendRefresh
<1>2. QuietCalls
  <2>1. call' = [call EXCEPT ![x] = [call[x] EXCEPT !.at = "waiting", !.retried = TRUE]]
    BY <1>1 DEF AwaitRefresh, CallsOK
  <2>2. /\ [call[x] EXCEPT !.at = "waiting", !.retried = TRUE].at = "waiting"
        /\ [call[x] EXCEPT !.at = "waiting", !.retried = TRUE].kind = call[x].kind
    BY <1>1 DEF CallsOK, CallRecord
  <2>3. /\ call'[x].at = "waiting" /\ call'[x].kind = call[x].kind
        /\ \A y \in Tabs \union Calls : y # x => call'[y] = call[y]
    BY <1>1, <2>1, <2>2 DEF CallsOK
  <2>. QED
    BY <2>3 DEF QuietCalls, CallEffect, Arriving
<1>3. CASE refresh' = refresh
  BY <1>1, <1>2, <1>3 DEF CalmStep, PageStep, KeepsOrDeletes, SameRefreshes
<1>4. CASE refresh[PageOf(x)].at = "none" /\ SendRefresh(PageOf(x))
  BY <1>1, <1>2, <1>4, SendingIsLucky, PagesAreTabs DEF CalmStep, PageStep
<1>. QED
  BY <1>3, <1>4 DEF AwaitRefresh, JoinRefresh

LEMMA RefuseRefreshIsCalm ==
    ASSUME TypeOK, FamiliesInv, NEW t \in Tabs, RefuseRefresh(t)
    PROVE  CalmStep
<1>1. ServerOK /\ RefreshOK /\ refresh[t] \in RefreshRecord
  BY TypeParts DEF RefreshOK
<1>2. Calm
  BY <1>1, RejectionRevokes, CalmWhenRevoked DEF RefuseRefresh
<1>3. refresh' = [refresh EXCEPT ![t] = [refresh[t] EXCEPT !.at = "refused"]]
  BY DEF RefuseRefresh
<1>4. /\ [refresh[t] EXCEPT !.at = "refused"].at = "refused"
      /\ [refresh[t] EXCEPT !.at = "refused"].token = refresh[t].token
  BY <1>1 DEF RefreshRecord
<1>5. IsRefused(t) /\ stray' = stray
  BY <1>1, <1>3, <1>4 DEF RefuseRefresh, pageVars, IsRefused, SameRefreshBut, RefreshOK
<1>6. QuietCalls
  BY DEF RefuseRefresh, QuietCalls, CallEffect
<1>. QED
  BY <1>2, <1>5, <1>6 DEF CalmStep, PageStep

LEMMA ForgettingMeans ==
    ASSUME RefreshOK, NEW t \in Tabs, refresh' = [refresh EXCEPT ![t] = NoRefresh]
    PROVE  Forgets(t)
BY DEF RefreshOK, Forgets, SameRefreshBut

LEMMA ReceiveTokensIsCalm ==
    ASSUME TypeOK, NEW t \in Tabs, ReceiveTokens(t)
    PROVE  CalmStep
<1>1. RefreshOK /\ CallsOK /\ Calm /\ stray' = stray
  BY TypeParts, CalmWhenKept DEF ReceiveTokens, serverVars, Keeps
<1>2. Takes(t)
  BY <1>1, ForgettingMeans DEF ReceiveTokens, Takes
<1>3. QuietCalls
  <2> DEFINE Resume(x) == [call[x] EXCEPT !.at = "sent", !.token = refresh[t].token]
  <2>1. call' = [x \in DOMAIN call |->
                   IF PageOf(x) = t /\ call[x].at = "waiting" THEN Resume(x) ELSE call[x]]
    BY DEF ReceiveTokens
  <2>2. \A x \in Tabs \union Calls : Resume(x).at = "sent" /\ Resume(x).kind = call[x].kind
    BY <1>1 DEF CallsOK, CallRecord
  <2> HIDE DEF Resume
  <2>3. \A x \in Tabs \union Calls : call'[x] = call[x] \/ call'[x] = Resume(x)
    BY <1>1, <2>1 DEF CallsOK
  <2>. QED
    BY <2>2, <2>3 DEF QuietCalls, CallEffect, Arriving
<1>. QED
  BY <1>1, <1>2, <1>3 DEF CalmStep, PageStep

LEMMA EndRefreshIsCalm ==
    ASSUME TypeOK, NEW t \in Tabs, EndRefresh(t), refresh[t].at # "granted",
           cookie' \in {cookie, NoSession}, stray' = stray
    PROVE  CalmStep
<1>1. RefreshOK /\ CallsOK /\ Calm
  BY TypeParts, CalmWhenKept DEF EndRefresh, serverVars, Keeps
<1>2. GetsNothing(t)
  BY <1>1, ForgettingMeans DEF EndRefresh, GetsNothing
<1>3. \A x \in Tabs \union Calls : call'[x] = call[x] \/ call'[x] = Ended
  BY <1>1 DEF EndRefresh, CallsOK
<1>4. QuietCalls
  BY <1>3, EndedCalls DEF QuietCalls, CallEffect, Arriving
<1>. QED
  BY <1>1, <1>2, <1>4 DEF CalmStep, PageStep

\* A refresh that was given up had no token, unless luck is lost.
LEMMA NothingAbandoned ==
    ASSUME NEW t \in Tabs, ~ Refreshing(t)
    PROVE  stray \union Abandoned(t) = stray
BY DEF Abandoned

LEMMA ReloadIsCalm ==
    ASSUME TypeOK, TokensInv, NEW t \in Tabs, Reload(t), ~ unlucky'
    PROVE  CalmStep
<1>1. RefreshOK /\ CallsOK /\ Calm
  BY TypeParts, CalmWhenKept DEF Reload, serverVars, Keeps
<1>2. /\ ~ Refreshing(t)
      /\ ~ (cookie # NoSession /\ \E u \in Tabs \ {t} : refresh[u].at # "none")
  BY DEF Reload, Meets
<1>3. refresh[t].at # "granted" /\ stray' = stray
  BY <1>2, NothingAbandoned DEF Refreshing, TokensInv, Reload
<1>4. refresh'[t] = [at |-> "sent", token |-> cookie] /\ SameRefreshBut(t)
  BY <1>1 DEF Reload, RefreshOK, SameRefreshBut
<1>5. Sends(t)
  BY <1>2, <1>3, <1>4 DEF Reload, Sends
<1>6. \A x \in Tabs \union Calls :
         call'[x] = call[x] \/ call'[x] = GivenUp(call[x]) \/ call'[x] = Restoring
  BY <1>1 DEF Reload, CallsOK
<1>7. \A x \in Tabs \union Calls :
         /\ GivenUp(call[x]).at \in {"ended", "lost"}
         /\ GivenUp(call[x]).kind \in {call[x].kind, "read", "restore"}
  BY <1>1, EndedCalls, GivenUpCalls DEF CallsOK, GivenUp, CallRecord
<1>8. QuietCalls
  BY <1>6, <1>7, EndedCalls DEF QuietCalls, CallEffect, Arriving
<1>. QED
  BY <1>1, <1>3, <1>5, <1>8 DEF CalmStep, PageStep

LEMMA LosingIsCalm ==
    ASSUME TypeOK, TokensInv, NEW t \in Tabs, LoseRefresh(t), ~ unlucky'
    PROVE  CalmStep
<1>1. ~ Refreshing(t)
  BY DEF LoseRefresh
<1>2. refresh[t].at # "granted" /\ stray' = stray
  BY <1>1, NothingAbandoned DEF Refreshing, TokensInv, LoseRefresh
<1>3. EndRefresh(t) /\ cookie' = cookie
  BY <1>2 DEF LoseRefresh
<1>. QED
  BY <1>2, <1>3, EndRefreshIsCalm

\* A step serves a login, renews a session, or begins no session.
LEMMA StepsOfPages ==
    ASSUME TypeOK, FamiliesInv, TokensInv, [Next]_vars, ~ unlucky'
    PROVE  \/ CalmStep
           \/ \E x \in Tabs \union Calls : ServeLogin(x) \/ (ServeLate(x) /\ Begin(NextSession))
           \/ \E t \in Tabs : Rotate(t)
<1>1. ASSUME NEW x \in Tabs \union Calls, CallStep(x) \/ ServeLate(x)
      PROVE  CalmStep \/ ServeLogin(x) \/ (ServeLate(x) /\ Begin(NextSession))
  BY <1>1, ServeCallIsCalm, ServingLateIsCalm, EndingACallIsCalm, DisconnectIsCalm,
     AwaitRefreshIsCalm DEF CallStep
<1>2. ASSUME NEW t \in Tabs, RefreshStep(t)
      PROVE  CalmStep \/ Rotate(t)
  <2>1. CASE ReceiveRefusal(t) \/ FailRefresh(t)
    <3>1. /\ EndRefresh(t) /\ refresh[t].at # "granted" /\ cookie' \in {cookie, NoSession}
          /\ stray' = stray
      BY <2>1 DEF ReceiveRefusal, CookieRefused, FailRefresh
    <3>. QED
      BY <3>1, EndRefreshIsCalm
  <2>. QED
    BY <1>2, <2>1, RefuseRefreshIsCalm, ReceiveTokensIsCalm, LosingIsCalm DEF RefreshStep
<1>3. CASE (\E s \in Sessions : Expire(s)) \/ UNCHANGED vars
  <2>1. Calm /\ stray' = stray
    BY <1>3, CalmWhenKept DEF Expire, vars, serverVars, Keeps
  <2>2. KeepsOrDeletes
    BY <1>3 DEF Expire, vars, pageVars, KeepsOrDeletes, SameRefreshes
  <2>3. QuietCalls
    BY <1>3 DEF Expire, vars, QuietCalls, CallEffect
  <2>. QED
    BY <2>1, <2>2, <2>3 DEF CalmStep, PageStep
<1>4. ~ \E s \in Sessions : ServeStray(s)
  BY DEF ServeStray, TokensInv
<1>. QED
  BY <1>1, <1>2, <1>3, <1>4, StartCallIsCalm, ReloadIsCalm DEF Next

LEMMA ServedLoginMeans ==
    ASSUME TypeOK, TokensInv, NEW x \in Tabs \union Calls, ServeLogin(x)
    PROVE  /\ x \notin Tabs
           /\ Arriving(x)' /\ call'[x].token = NextSession
           /\ \A y \in Tabs \union Calls : y # x => call'[y] = call[y]
<1>1. CallsOK /\ call[x] \in CallRecord
  BY TypeParts DEF CallsOK
<1> DEFINE new == [call[x] EXCEPT !.at = "accepted", !.token = NextSession]
<1>2. call' = [call EXCEPT ![x] = new]
  BY <1>1 DEF ServeLogin, CallsOK
<1>3. new.at = "accepted" /\ new.kind = "login" /\ new.token = NextSession
  BY <1>1 DEF ServeLogin, CallRecord
<1>4. x \notin Tabs
  BY DEF TokensInv, ServeLogin
<1> HIDE DEF new
<1>5. call'[x] = new /\ \A y \in Tabs \union Calls : y # x => call'[y] = call[y]
  BY <1>1, <1>2 DEF CallsOK
<1>. QED
  BY <1>3, <1>4, <1>5 DEF Arriving

LEMMA TokensGrow ==
    ASSUME TokensInv, NEW s, Issued' = Issued \union {s}, cookie' = cookie, stray' = stray,
           \A t \in Tabs : refresh'[t] = refresh[t] \/ refresh'[t] = [at |-> "granted", token |-> s],
           s # NoSession, \A t \in Tabs : call'[t].kind \in {call[t].kind, "read"}
    PROVE  TokensInv'
<1>1. cookie' \in Issued' \union {NoSession}
  BY DEF TokensInv
<1>2. ASSUME NEW t \in Tabs
      PROVE  /\ refresh'[t].token \in Issued' \union {NoSession}
             /\ refresh'[t].at = "granted" => refresh'[t].token # NoSession
             /\ call'[t].kind \in {"read", "restore"}
  BY DEF TokensInv
<1>. QED
  BY <1>1, <1>2 DEF TokensInv

LuckyInv == TokensInv /\ OneRefresh /\ RefreshesInv /\ CookieInv /\ ArrivingInv

LEMMA LuckyStep ==
    ASSUME TypeOK, FamiliesInv, LuckyInv, [Next]_vars, ~ unlucky'
    PROVE  LuckyInv'
<1>1. ServerOK /\ RefreshOK /\ CallsOK
  BY TypeParts
<1>2. TokensInv /\ OneRefresh /\ RefreshesInv /\ CookieInv /\ ArrivingInv
  BY DEF LuckyInv
<1>3. CASE CalmStep
  <2>1. Calm /\ PageStep /\ CallsQuiet /\ RestoresOnly /\ stray' = {}
    BY <1>2, <1>3, QuietMeans DEF CalmStep, TokensInv
  <2>2. \A x \in Tabs \union Calls : Arriving(x) => call[x].token \in Issued
    BY <1>2 DEF ArrivingInv
  <2>3. TokensInv'
    BY <1>2, <2>1, <2>2, TokensWhenCalm
  <2>4. OneRefresh' /\ RefreshesInv'
    BY <1>2, <2>1, RefreshesWhenCalm
  <2>5. CookieInv'
    BY <1>2, <2>1, CookieWhenCalm
  <2>6. ArrivingInv'
    BY <1>2, <2>1, ArrivingWhenCalm
  <2>. QED
    BY <2>3, <2>4, <2>5, <2>6 DEF LuckyInv
<1>4. ASSUME NEW x \in Tabs \union Calls, ServeLogin(x) \/ (ServeLate(x) /\ Begin(NextSession))
      PROVE  LuckyInv'
  <2>1. PICK s : s = NextSession
    OBVIOUS
  <2>2. LogsIn(s)
    BY <1>4, <2>1, NextIsNotIssued, BeginsOne DEF ServeLogin, Begin
  <2>3. /\ Arriving(x)' => call'[x].token = s
        /\ x \in Tabs => call'[x].kind = "read"
        /\ \A y \in Tabs \union Calls : y # x => call'[y] = call[y]
    BY <1>1, <1>2, <1>4, <2>1, ServedLoginMeans, EndMeans DEF ServeLate
  <2>4. cookie' = cookie /\ refresh' = refresh /\ stray' = stray
    BY <1>4 DEF ServeLogin, ServeLate, pageVars
  <2>5. s # NoSession /\ Issued' = Issued \union {s}
    BY <1>1, <2>2, AfterLogin, BrowserAssumption
  <2>6. \A t \in Tabs : call'[t].kind \in {call[t].kind, "read"}
    BY <2>3
  <2>7. TokensInv'
    BY <1>2, <2>4, <2>5, <2>6, TokensGrow
  <2>8. OneRefresh' /\ RefreshesInv' /\ CookieInv' /\ ArrivingInv'
    BY <1>1, <1>2, <2>2, <2>3, <2>4, PagesWhenServed
  <2>. QED
    BY <2>7, <2>8 DEF LuckyInv
<1>5. ASSUME NEW t \in Tabs, Rotate(t)
      PROVE  LuckyInv'
  <2>1. PICK s, r : s = NextSession /\ r = refresh[t].token
    OBVIOUS
  <2>2. Renews(r, s)
    BY <1>5, <2>1, NextIsNotIssued, ExchangesOne DEF Rotate, Exchange
  <2>3. /\ refresh[t].at = "sent" /\ refresh' = [refresh EXCEPT ![t] = [at |-> "granted", token |-> s]]
        /\ cookie' = cookie /\ call' = call /\ stray' = stray
    BY <1>5, <2>1 DEF Rotate, pageVars
  <2>4. refresh'[t] = [at |-> "granted", token |-> s] /\ SameRefreshBut(t)
    BY <1>1, <2>3 DEF RefreshOK, SameRefreshBut
  <2>5. s # NoSession /\ Issued' = Issued \union {s}
    BY <1>1, <2>2, AfterRenewal, BrowserAssumption
  <2>6. \A u \in Tabs : refresh'[u] = refresh[u] \/ refresh'[u] = [at |-> "granted", token |-> s]
    BY <2>4 DEF SameRefreshBut
  <2>7. TokensInv'
    BY <1>2, <2>3, <2>5, <2>6, TokensGrow
  <2>8. OneRefresh' /\ RefreshesInv' /\ CookieInv' /\ ArrivingInv'
    BY <1>1, <1>2, <2>1, <2>2, <2>3, <2>4, PagesWhenRotated
  <2>. QED
    BY <2>7, <2>8 DEF LuckyInv
<1>. QED
  BY <1>2, <1>3, <1>4, <1>5, StepsOfPages

LEMMA LoginsInit ==
    ASSUME Init
    PROVE  LoginsInv
<1>1. TypeOK /\ FamiliesInv
  BY TypesInit DEF Init, FamiliesInv, Issued, Live
<1>2. \A t \in Tabs : refresh[t].at = "sent" /\ refresh[t].token = NoSession /\ call[t].kind = "restore"
  BY EndedCalls DEF Init
<1>3. \A x \in Tabs \union Calls : ~ Arriving(x)
  BY EndedCalls DEF Init, Arriving, Unmade
<1>4. TokensInv /\ CookieInv
  BY <1>2 DEF Init, TokensInv, CookieInv
<1>5. OneRefresh /\ RefreshesInv
  BY <1>2 DEF OneRefresh, RefreshesInv, Busy
<1>6. ArrivingInv
  BY <1>3 DEF ArrivingInv
<1>. QED
  BY <1>1, <1>4, <1>5, <1>6 DEF LoginsInv

LEMMA LoginsInvIs ==
    /\ LoginsInv <=> TypeOK /\ FamiliesInv /\ (~ unlucky => LuckyInv)
    /\ LoginsInv' <=> TypeOK' /\ FamiliesInv' /\ (~ unlucky' => LuckyInv')
BY DEF LoginsInv, LuckyInv

LEMMA LoginsInvStep ==
    ASSUME LoginsInv, [Next]_vars
    PROVE  LoginsInv'
<1>1. TypeOK /\ FamiliesInv /\ (~ unlucky => LuckyInv)
  BY LoginsInvIs
<1>2. TypeOK' /\ FamiliesInv'
  BY <1>1, TypesStep, ServerSteps, FamiliesStep, TypeParts
<1>3. ASSUME ~ unlucky'
      PROVE  LuckyInv'
  <2>1. ~ unlucky
    BY <1>1, <1>3, LuckIsNotRegained, TypeParts
  <2>. QED
    BY <1>1, <1>3, <2>1, LuckyStep
<1>. QED
  BY <1>2, <1>3, LoginsInvIs

-----------------------------------------------------------------------------
(* Who is logged out, and by what.                                          *)

Survives(s) ==
    session'[s] = "live" \/ Replaced(s) \/ EndedOnRequest \/ age[s] = "expired" \/ unlucky

LEMMA SurvivesHandling ==
    ASSUME TokensInv, NEW x \in Tabs \union Calls, ServeCall(x) \/ ServeLate(x), Handle(x),
           NEW s \in Live
    PROVE  session'[s] = "live" \/ EndedOnRequest
<1>1. CASE session' = session
  BY <1>1 DEF Live
<1>2. CASE session' # session
  <2>1. call[x].kind \in LogsOut \union {"change_password"}
    BY <1>2 DEF Handle, LogsOut, serverVars
  <2>2. x \in Calls
    BY <2>1 DEF TokensInv, LogsOut
  <2>. QED
    BY <2>1, <2>2 DEF EndedOnRequest
<1>. QED
  BY <1>1, <1>2

LEMMA SurvivesRejection ==
    ASSUME NEW r, Reject(r), r # NoSession => Good(r), NEW s \in Live
    PROVE  session'[s] = "live" \/ age[s] = "expired"
<1>1. CASE session' = session
  BY <1>1 DEF Live
<1>2. CASE r \in Live /\ Revoke({r})
  BY <1>2 DEF Reject, Valid, Revoke, Live
<1>3. CASE r # NoSession /\ r \notin Live /\ Revoke(FamilyOf(r))
  <2>1. s \notin FamilyOf(r)
    BY <1>3 DEF Good, FamilyOf, Generation
  <2>. QED
    BY <1>3, <2>1 DEF Revoke, Live
<1>. QED
  BY <1>1, <1>2, <1>3 DEF Reject, serverVars

LEMMA SurvivesNewSessions ==
    ASSUME TypeOK, NEW s \in Live
    PROVE  /\ Begin(NextSession) => session'[s] = "live"
           /\ \A r : Exchange(r, NextSession) => session'[s] = "live" \/ Replaced(s)
<1>1. ServerOK
  BY TypeParts
<1>2. PICK n : n = NextSession
  OBVIOUS
<1>3. ASSUME Begin(n)
      PROVE  session'[s] = "live"
  BY <1>1, <1>3 DEF Begin, ServerOK, Live
<1>4. ASSUME NEW r, Exchange(r, n)
      PROVE  session'[s] = "live" \/ Replaced(s)
  <2>1. Renews(r, n)
    BY <1>2, <1>4, NextIsNotIssued, ExchangesOne DEF Exchange
  <2>2. /\ n \in Sessions /\ n \notin Live /\ r \in Live
        /\ Live' = (Live \ {r}) \union {n}
        /\ family'[n] = family[r] /\ \A z \in Sessions \ {n} : family'[z] = family[z]
    BY <1>1, <2>1, AfterRenewal
  <2>3. CASE s # r
    BY <2>2, <2>3 DEF Live
  <2>4. CASE s = r
    <3>1. n \in Live' /\ family'[n] = family'[s]
      BY <2>2, <2>4, LiveAreIssued
    <3>. QED
      BY <2>2, <2>4, <3>1, LiveAreIssued DEF Replaced, Generation
  <2>. QED
    BY <2>3, <2>4
<1>. QED
  BY <1>2, <1>3, <1>4

LEMMA SurvivesStep ==
    ASSUME LoginsInv, [Next]_vars, NEW s \in Live
    PROVE  Survives(s)
<1>1. CASE unlucky
  BY <1>1 DEF Survives
<1>2. CASE ~ unlucky
  <2>1. TypeOK /\ FamiliesInv /\ TokensInv /\ RefreshesInv
    BY <1>2 DEF LoginsInv
  <2>2. ASSUME UNCHANGED serverVars
        PROVE  Survives(s)
    BY <2>2 DEF Survives, Live, serverVars
  <2>3. ASSUME NEW x \in Tabs \union Calls, CallStep(x) \/ ServeLate(x)
        PROVE  Survives(s)
    <3>1. CASE ServeCall(x) \/ ServeLogin(x) \/ ServeLate(x)
      <4>1. Handle(x) \/ Begin(NextSession) \/ UNCHANGED serverVars
        BY <3>1 DEF ServeCall, ServeLogin, ServeLate
      <4>2. CASE Begin(NextSession)
        BY <2>1, <4>2, SurvivesNewSessions DEF Survives
      <4>3. CASE ServeLogin(x)
        BY <4>2, <4>3 DEF ServeLogin
      <4>4. CASE Handle(x) /\ (ServeCall(x) \/ ServeLate(x))
        BY <2>1, <4>4, SurvivesHandling DEF Survives
      <4>. QED
        BY <2>2, <3>1, <4>1, <4>2, <4>3, <4>4
    <3>2. CASE \/ Succeed(x) \/ Fail(x) \/ BreakOff(x) \/ Disconnect(x)
               \/ FailUnauthorized(x) \/ AwaitRefresh(x)
      BY <2>2, <3>2 DEF Succeed, Fail, BreakOff, Disconnect, FailUnauthorized, AwaitRefresh
    <3>. QED
      BY <2>3, <3>1, <3>2 DEF CallStep
  <2>4. ASSUME NEW t \in Tabs, RefreshStep(t)
        PROVE  Survives(s)
    <3>1. CASE Rotate(t)
      BY <2>1, <3>1, SurvivesNewSessions DEF Survives, Rotate
    <3>2. CASE RefuseRefresh(t)
      <4>1. refresh[t].token # NoSession => Good(refresh[t].token)
        BY <2>1, <3>2 DEF RefreshesInv, RefuseRefresh
      <4>. QED
        BY <3>2, <4>1, SurvivesRejection DEF Survives, RefuseRefresh
    <3>3. CASE ReceiveTokens(t) \/ ReceiveRefusal(t) \/ FailRefresh(t) \/ LoseRefresh(t)
      BY <2>2, <3>3 DEF ReceiveTokens, ReceiveRefusal, FailRefresh, LoseRefresh, EndRefresh
    <3>. QED
      BY <2>4, <3>1, <3>2, <3>3 DEF RefreshStep
  <2>5. ASSUME NEW r \in Sessions, ServeStray(r) \/ Expire(r)
        PROVE  Survives(s)
    <3>1. session' = session
      BY <2>1, <2>5 DEF ServeStray, TokensInv, Expire
    <3>. QED
      BY <3>1 DEF Survives, Live
  <2>. QED
    BY <2>2, <2>3, <2>4, <2>5 DEF Next, vars, StartCall, Reload
<1>. QED
  BY <1>1, <1>2 DEF LoginsInv, TypeOK

\* However many pages, requests and sessions there are: a login ends only when it
\* is replaced by the next token of its family, when its user asks for it or when
\* it has expired, until a refresh under way loses its connection or its page, or
\* two pages refresh at once.
\* (refreshAccessToken in client.ts, rotate_auth_session)
THEOREM LoginsAreKept == Spec => LoginsSurvive
<1>1. Init => LoginsInv
  BY LoginsInit
<1>2. LoginsInv /\ [Next]_vars => LoginsInv'
  BY LoginsInvStep
<1>3. LoginsInv /\ [Next]_vars =>
        [\A s \in Live :
           session'[s] = "live" \/ Replaced(s) \/ EndedOnRequest \/ age[s] = "expired" \/ unlucky]_vars
  BY SurvivesStep DEF Survives
<1>. QED
  BY <1>1, <1>2, <1>3, PTL DEF Spec, LoginsSurvive

=============================================================================
