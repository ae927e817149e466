---------------------------- MODULE BrowserLogin ----------------------------
(***************************************************************************)
(* How the pages of one browser stay logged in: api/client.ts, api/auth.ts *)
(* and auth/AuthContext.tsx of src/frontend/src, with the backend they     *)
(* talk to.  AuthSessions shows what a request does to the sessions when   *)
(* it runs beside others; here it is one step.                             *)
(*                                                                         *)
(* A session stands for both of its tokens.  The refresh token lives in    *)
(* the cookie that all tabs share, and is sent as it is when a refresh     *)
(* starts; the answer to a request sets or deletes the cookie when it      *)
(* arrives.  The access token is a variable of each page.                  *)
(*                                                                         *)
(* A request and its answer may take any time, and either may be lost.     *)
(* JavaScript runs all that follows an answer before the next event, so    *)
(* that is one step.  A request whose connection failed, or whose page was *)
(* reloaded, is answered to nobody, but may still be served: any time      *)
(* later, or never.                                                        *)
(***************************************************************************)
CONSTANTS
    Tabs,
    Calls,      \* bound: requests that pages make, each once
    TabOf,      \* the tab whose page makes a call
    Kinds,      \* bound: what a call may be
    Sessions,   \* bound: sessions there can be
    NoSession   \* no token

LogsOut == {"logout", "logout_all"}
Kind == LogsOut \union {"read", "change_password", "login", "restore"}

ASSUME BrowserAssumption ==
    /\ Kinds \in [Calls -> SUBSET (Kind \ {"restore"})]
    /\ TabOf \in [Calls -> Tabs]
    /\ Tabs \intersect Calls = {}
    /\ NoSession \notin Sessions

VARIABLES
    session,    \* of AuthSessions: "none", "live" or "revoked"
    family,     \* of AuthSessions
    age,        \* "fresh"; "stale": the access token has expired; "expired":
                \* expires_at has passed.  Of a revoked session it does not matter.
    cookie,     \* the refresh token
    access,     \* accessToken of each page
    status,     \* what a page shows: AuthStatus
    refresh,    \* refreshPromise of each page, and the token sent or received
    stray,      \* tokens of refreshes nobody waits for, which may be served later;
                \* bound: of those with the same token, one is
    call,       \* requestJson; the page itself makes one to restore its user
    unlucky     \* history: a refresh lost its page or its connection, or met another

serverVars == <<session, family, age>>
pageVars == <<cookie, access, status>>
vars == <<serverVars, pageVars, refresh, stray, call, unlucky>>

Token == Sessions \union {NoSession}
PageOf(x) == IF x \in Tabs THEN x ELSE TabOf[x]

TypeOK ==
    /\ session \in [Sessions -> {"none", "live", "revoked"}]
    /\ family \in [Sessions -> Sessions]
    /\ age \in [Sessions -> {"fresh", "stale", "expired"}]
    /\ cookie \in Token
    /\ access \in [Tabs -> Token]
    /\ status \in [Tabs -> {"loading", "authenticated", "anonymous"}]
    /\ refresh \in [Tabs -> [at : {"none", "sent", "granted", "refused"}, token : Token]]
    /\ stray \subseteq Sessions
    /\ call \in [Tabs \union Calls ->
                   [kind : Kind, retried : BOOLEAN, token : Token,
                    at : {"idle", "waiting", "sent", "accepted", "refused", "ended", "lost"}]]
    /\ unlucky \in BOOLEAN

NoRefresh == [at |-> "none", token |-> NoSession]
Unmade == [kind |-> "read", retried |-> FALSE, token |-> NoSession, at |-> "idle"]
Ended == [Unmade EXCEPT !.at = "ended"]
Restoring == [kind |-> "restore", retried |-> FALSE, token |-> NoSession, at |-> "waiting"]

\* Nobody is logged in, and all pages are about to find out.
Init ==
    /\ session = [s \in Sessions |-> "none"]
    /\ family = [s \in Sessions |-> s]
    /\ age = [s \in Sessions |-> "fresh"]
    /\ cookie = NoSession
    /\ access = [t \in Tabs |-> NoSession]
    /\ status = [t \in Tabs |-> "loading"]
    /\ refresh = [t \in Tabs |-> [at |-> "sent", token |-> NoSession]]
    /\ stray = {}
    /\ call = [x \in Tabs \union Calls |-> IF x \in Tabs THEN Restoring ELSE Unmade]
    /\ unlucky = FALSE

Live == {s \in Sessions : session[s] = "live"}
Unissued == {s \in Sessions : session[s] = "none"}
\* Which one is used next does not matter.
NextSession == CHOOSE s \in Unissued : TRUE
FamilyOf(s) == {x \in Sessions : session[x] # "none" /\ family[x] = family[s]}

\* Fault: another mark than is_revoked reads.
MarkRevoked(S) ==
    /\ session' = [s \in Sessions |-> IF s \in S THEN "ended" ELSE session[s]]
    /\ age' = [s \in Sessions |-> IF s \in S THEN "fresh" ELSE age[s]]
    /\ UNCHANGED family

Revoke(S) ==
    /\ session' = [s \in Sessions |-> IF s \in S THEN "revoked" ELSE session[s]]
    /\ age' = [s \in Sessions |-> IF s \in S THEN "fresh" ELSE age[s]]
    /\ UNCHANGED family

\* create_auth_session; nobody else has such a session yet.
Begin(s) ==
    /\ Unissued # {}
    /\ session' = [session EXCEPT ![s] = "live"]
    /\ family' = [family EXCEPT ![s] = s]
    /\ UNCHANGED age

Answer(x, at) == call' = [call EXCEPT ![x].at = at, ![x].token = NoSession]
End(x) == call' = [call EXCEPT ![x] = Ended]

\* A call whose page has stopped waiting.  If a read is served does not matter.
GivenUp(c) == IF c.at = "sent" /\ c.kind \notin {"read", "restore"} THEN [c EXCEPT !.at = "lost"]
                                                                 ELSE Ended

-----------------------------------------------------------------------------
(* requestJson                                                             *)

\* A panel asks for something, or the user logs in, logs out or changes the
\* password.
StartCall(x, kind) ==
    LET t == TabOf[x] IN
    /\ call[x].at = "idle"
    /\ kind \in Kinds[x]
    /\ status[t] = IF kind = "login" THEN "anonymous" ELSE "authenticated"
    /\ call' = [call EXCEPT ![x] = [kind |-> kind, retried |-> FALSE, at |-> "sent",
                                   token |-> IF kind = "login" THEN NoSession ELSE access[t]]]
    /\ UNCHANGED <<serverVars, pageVars, refresh, stray, unlucky>>

\* access_token_required
Authorized(x) == call[x].token \in Live /\ age[call[x].token] = "fresh"

\* The handler.
Handle(x) ==
    CASE call[x].kind = "logout" -> Revoke({call[x].token})
      [] call[x].kind \in {"logout_all", "change_password"} -> Revoke(Live)
      [] OTHER -> UNCHANGED serverVars

ServeCall(x) ==
    /\ call[x].at = "sent"
    /\ call[x].kind # "login"
    /\ IF Authorized(x) THEN Handle(x) /\ Answer(x, "accepted")
                        ELSE UNCHANGED serverVars /\ Answer(x, "refused")
    /\ UNCHANGED <<pageVars, refresh, stray, unlucky>>

\* The answer to a login carries the tokens.
ServeLogin(x) ==
    /\ call[x].at = "sent"
    /\ call[x].kind = "login"
    /\ Begin(NextSession)
    /\ call' = [call EXCEPT ![x].at = "accepted", ![x].token = NextSession]
    /\ UNCHANGED <<pageVars, refresh, stray, unlucky>>

\* The same for a call that nobody waits for.
ServeLate(x) ==
    /\ call[x].at = "lost"
    /\ End(x)
    /\ CASE call[x].kind = "login" -> Begin(NextSession)
         [] call[x].kind # "login" /\ Authorized(x) -> Handle(x)
         [] OTHER -> UNCHANGED serverVars
    /\ UNCHANGED <<pageVars, refresh, stray, unlucky>>

\* What api/auth.ts and AuthContext make of the end of a call.  A logout clears
\* the page whether it succeeded or not, but only an answer clears the cookie.
After(x, succeeded) ==
    LET kind == call[x].kind
        t == PageOf(x)
        out == kind \in LogsOut \/ (kind = "change_password" /\ succeeded)
        in == kind = "login" /\ succeeded
    IN
    /\ access' = IF out \/ in THEN [access EXCEPT ![t] = IF in THEN call[x].token ELSE NoSession]
                              ELSE access
    /\ status' = IF in \/ (kind = "restore" /\ succeeded) THEN [status EXCEPT ![t] = "authenticated"]
                 ELSE IF out \/ kind = "restore" THEN [status EXCEPT ![t] = "anonymous"]
                 ELSE status
    /\ cookie' = IF ~ succeeded THEN cookie
                 ELSE IF in THEN call[x].token
                 ELSE IF out THEN NoSession ELSE cookie

Succeed(x) ==
    /\ call[x].at = "accepted"
    /\ End(x)
    /\ After(x, TRUE)
    /\ UNCHANGED <<serverVars, refresh, stray, unlucky>>

\* Another error than 401, or a lost answer.
Fail(x) ==
    /\ call[x].at \in {"sent", "accepted"}
    /\ End(x)
    /\ After(x, FALSE)
    /\ UNCHANGED <<serverVars, refresh, stray, unlucky>>

\* The answer to a login breaks off after its headers, which set the cookie.
BreakOff(x) ==
    /\ call[x].at = "accepted"
    /\ call[x].kind = "login"
    /\ End(x)
    /\ cookie' = call[x].token
    /\ UNCHANGED <<serverVars, access, status, refresh, stray, unlucky>>

\* The connection fails while the request is under way.
Disconnect(x) ==
    /\ call[x].at = "sent"
    /\ call' = [call EXCEPT ![x] = GivenUp(call[x])]
    /\ After(x, FALSE)
    /\ UNCHANGED <<serverVars, refresh, stray, unlucky>>

MayRetry(x) == call[x].kind \in {"read", "change_password", "restore"} /\ ~ call[x].retried

FailUnauthorized(x) ==
    /\ call[x].at = "refused"
    /\ ~ MayRetry(x)
    /\ End(x)
    /\ After(x, FALSE)
    /\ UNCHANGED <<serverVars, refresh, stray, unlucky>>

-----------------------------------------------------------------------------
(* refreshAccessToken                                                      *)

Refreshing(t) == refresh[t].token # NoSession /\ refresh[t].at \in {"sent", "granted"}

\* Nobody waits any more for the answer to a refresh.
Abandoned(t) == IF Refreshing(t) /\ refresh[t].at = "sent" THEN {refresh[t].token} ELSE {}

\* A refresh with a token is sent while another page has one under way.
Meets(t) == cookie # NoSession /\ \E u \in Tabs \ {t} : refresh[u].at # "none"

SendRefresh(t) ==
    /\ refresh' = [refresh EXCEPT ![t] = [at |-> "sent", token |-> cookie]]
    /\ unlucky' = (unlucky \/ Meets(t))
    /\ UNCHANGED stray

\* Fault: every call that gets a 401 asks for a new token.
RefreshAgain(t) == SendRefresh(t)

\* One refresh at a time: whoever needs one waits for the one under way.
JoinRefresh(t) ==
    IF refresh[t].at = "none" THEN SendRefresh(t) ELSE UNCHANGED <<refresh, stray, unlucky>>

AwaitRefresh(x) ==
    /\ call[x].at = "refused"
    /\ MayRetry(x)
    /\ call' = [call EXCEPT ![x].at = "waiting", ![x].retried = TRUE]
    /\ JoinRefresh(PageOf(x))
    /\ UNCHANGED <<serverVars, pageVars>>

Valid(s) == s \in Live /\ age[s] # "expired"

\* Fault: the token that was exchanged stays valid.
ExchangeKeeping(s, new) ==
    /\ Valid(s)
    /\ Unissued # {}
    /\ session' = [session EXCEPT ![new] = "live"]
    /\ family' = [family EXCEPT ![new] = family[s]]
    /\ UNCHANGED age

\* rotate_auth_session: a new session replaces the one whose token was sent.
Exchange(s, new) ==
    /\ Valid(s)
    /\ Unissued # {}
    /\ session' = [session EXCEPT ![new] = "live", ![s] = "revoked"]
    /\ family' = [family EXCEPT ![new] = family[s]]
    /\ age' = [age EXCEPT ![s] = "fresh"]

\* Or there is no cookie, or the session has expired, or its token was exchanged
\* or revoked before: then whatever has become of the session is revoked as well.
\* (Nothing in the code makes a user inactive.)
Reject(s) ==
    /\ ~ Valid(s)
    /\ CASE s = NoSession -> UNCHANGED serverVars
         [] s \in Live -> Revoke({s})
         [] OTHER -> Revoke(FamilyOf(s))

Rotate(t) ==
    /\ refresh[t].at = "sent"
    /\ Exchange(refresh[t].token, NextSession)
    /\ refresh' = [refresh EXCEPT ![t] = [at |-> "granted", token |-> NextSession]]
    /\ UNCHANGED <<pageVars, stray, call, unlucky>>

RefuseRefresh(t) ==
    /\ refresh[t].at = "sent"
    /\ Reject(refresh[t].token)
    /\ refresh' = [refresh EXCEPT ![t].at = "refused"]
    /\ UNCHANGED <<pageVars, stray, call, unlucky>>

\* Nobody hears the answer; the browser takes no cookie from it.
ServeStray(s) ==
    /\ s \in stray
    /\ stray' = stray \ {s}
    /\ Exchange(s, NextSession) \/ Reject(s)
    /\ UNCHANGED <<pageVars, refresh, call, unlucky>>

\* The calls that wait go on with the new access token.
ReceiveTokens(t) ==
    LET new == refresh[t].token
        Resume(x) == [call[x] EXCEPT !.at = "sent", !.token = new]
    IN
    /\ refresh[t].at = "granted"
    /\ cookie' = new
    /\ access' = [access EXCEPT ![t] = new]
    /\ refresh' = [refresh EXCEPT ![t] = NoRefresh]
    /\ call' = [x \in DOMAIN call |->
                  IF PageOf(x) = t /\ call[x].at = "waiting" THEN Resume(x) ELSE call[x]]
    /\ UNCHANGED <<serverVars, status, stray, unlucky>>

\* A refresh that failed fails the calls that wait for it.
EndRefresh(t) ==
    /\ refresh' = [refresh EXCEPT ![t] = NoRefresh]
    /\ call' = [x \in DOMAIN call |->
                  IF PageOf(x) = t /\ call[x].at = "waiting" THEN Ended ELSE call[x]]
    /\ status' = IF call[t].at = "waiting" THEN [status EXCEPT ![t] = "anonymous"] ELSE status
    /\ UNCHANGED <<serverVars, access>>

\* If a token was sent, the answer 401 deletes the cookie.
CookieRefused(t) == IF refresh[t].token = NoSession THEN cookie ELSE NoSession

\* Fault: calls that wait learn of new tokens only.
RefusalUnheard(t) ==
    /\ refresh[t].at = "refused"
    /\ cookie' = CookieRefused(t)
    /\ refresh' = [refresh EXCEPT ![t] = NoRefresh]
    /\ UNCHANGED <<serverVars, access, status, stray, call, unlucky>>

ReceiveRefusal(t) ==
    /\ refresh[t].at = "refused"
    /\ cookie' = CookieRefused(t)
    /\ EndRefresh(t)
    /\ UNCHANGED <<stray, unlucky>>

\* Another error, from a backend that has changed nothing.
FailRefresh(t) ==
    /\ refresh[t].at = "sent"
    /\ EndRefresh(t)
    /\ UNCHANGED <<cookie, stray, unlucky>>

\* No answer, although the request may have been served, or still be; or one
\* that breaks off after its headers, which set the cookie.
LoseRefresh(t) ==
    /\ refresh[t].at # "none"
    /\ EndRefresh(t)
    /\ stray' = stray \union Abandoned(t)
    /\ unlucky' = (unlucky \/ Refreshing(t))
    /\ \/ UNCHANGED cookie
       \/ refresh[t].at = "granted" /\ cookie' = refresh[t].token

-----------------------------------------------------------------------------

\* restoreCurrentUser: a new page knows nothing and starts with a refresh.
Reload(t) ==
    /\ access' = [access EXCEPT ![t] = NoSession]
    /\ status' = [status EXCEPT ![t] = "loading"]
    /\ refresh' = [refresh EXCEPT ![t] = [at |-> "sent", token |-> cookie]]
    /\ stray' = stray \union Abandoned(t)
    /\ unlucky' = (unlucky \/ Refreshing(t) \/ Meets(t))
    /\ call' = [x \in DOMAIN call |-> IF x = t THEN Restoring
                                     ELSE IF PageOf(x) = t /\ call[x].at \notin {"idle", "lost"}
                                       THEN GivenUp(call[x])
                                     ELSE call[x]]
    /\ UNCHANGED <<serverVars, cookie>>

\* JWT_ACCESS_TOKEN_MINUTES are over, or JWT_REFRESH_TOKEN_DAYS, which are longer.
\* The cookie expires with the session, by a clock of its own.
Expire(s) ==
    /\ s \in Live
    /\ age[s] # "expired"
    /\ age' = [age EXCEPT ![s] = IF @ = "fresh" THEN "stale" ELSE "expired"]
    /\ \/ UNCHANGED cookie
       \/ age[s] = "stale" /\ cookie = s /\ cookie' = NoSession
    /\ UNCHANGED <<session, family, access, status, refresh, stray, call, unlucky>>

CallStep(x) ==
    \/ ServeCall(x) \/ ServeLogin(x) \/ Succeed(x) \/ Fail(x) \/ BreakOff(x)
    \/ Disconnect(x) \/ FailUnauthorized(x) \/ AwaitRefresh(x)

RefreshStep(t) ==
    \/ Rotate(t) \/ RefuseRefresh(t) \/ ReceiveTokens(t) \/ ReceiveRefusal(t)
    \/ FailRefresh(t) \/ LoseRefresh(t)

Next ==
    \/ \E x \in Calls, kind \in Kind : StartCall(x, kind)
    \/ \E x \in Tabs \union Calls : CallStep(x) \/ ServeLate(x)
    \/ \E t \in Tabs : RefreshStep(t) \/ Reload(t)
    \/ \E s \in Sessions : ServeStray(s) \/ Expire(s)

Spec == Init /\ [][Next]_vars

\* A request is answered, or fails, one day.
FairSpec ==
    /\ Spec
    /\ \A x \in Calls : WF_vars(CallStep(x))
    /\ \A t \in Tabs : WF_vars(RefreshStep(t))

-----------------------------------------------------------------------------
(* What must hold. *)

Generation(f) == {s \in Live : family[s] = f}

Holder ==
    [f \in Sessions |-> IF session[f] = "none" \/ family[f] # f THEN "unborn"
                       ELSE IF Generation(f) = {} THEN "over"
                       ELSE CHOOSE s \in Generation(f) : TRUE]

Families == INSTANCE TokenFamilies WITH
    Requests <- Sessions,
    holder <- Holder,
    issued <- {s \in Sessions : session[s] # "none"}

\* The backend that the pages see keeps the same promise as the detailed one of
\* AuthSessions, whatever they send it.  (rotate_auth_session)
KeepsFamilies == Families!Spec

EndedOnRequest ==
    \E x \in Calls :
        /\ call[x].kind \in LogsOut \union {"change_password"}
        /\ ServeCall(x) \/ ServeLate(x)

Replaced(s) == Generation(family[s])' # {}

\* A login ends by a request of its user or when it has expired: many calls that
\* fail with 401 at once, late answers, logins and logouts beside them never make
\* a page present a refresh token that has been exchanged already.  Nothing is
\* claimed once a refresh under way has lost its connection or its page, or two
\* tabs have refreshed at once: then a token may be presented twice.
\* (refreshPromise in client.ts, _revoke_token_family in auth/service.py)
LoginsSurvive ==
    [][\A s \in Live :
         session'[s] = "live" \/ Replaced(s) \/ EndedOnRequest \/ age[s] = "expired" \/ unlucky]_vars

\* No call waits for ever for a refresh, and none is retried without end.
\* (requestJson, retryOnUnauthorized)
CallsEnd ==
    \A x \in Calls :
        call[x].at \in {"waiting", "sent", "accepted", "refused"} ~> call[x].at \in {"ended", "lost"}

=============================================================================
