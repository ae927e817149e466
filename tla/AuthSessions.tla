---------------------------- MODULE AuthSessions ----------------------------
(***************************************************************************)
(* Login sessions and their refresh tokens (auth/service.py,               *)
(* auth/decorators.py, models/auth_session.py), at the grain of the SQL    *)
(* statements that can wait for a lock under READ COMMITTED.               *)
(*                                                                         *)
(* A session is a row of auth_sessions: one generation of a refresh token, *)
(* named by the request that creates it.  Sessions that replace each other *)
(* share a family, named by its first session.  All belong to one user,    *)
(* since no statement reads or writes the sessions of two.                 *)
(*                                                                         *)
(* A transaction's writes are seen when it commits.  What it waits for:    *)
(*   - a row it selects FOR UPDATE or updates, until the holder ends;      *)
(*   - inserting a session takes a key-share lock on the row of its user,  *)
(*     for the foreign key, and so waits for who holds that FOR UPDATE.    *)
(* An UPDATE works on the rows it saw when it began, one by one.  A row it *)
(* had to wait for is tested again; a row inserted meanwhile is not seen.  *)
(*                                                                         *)
(* Credentials and token claims are left out, with users.is_active, which  *)
(* the code never sets, and replaced_by_id, which it never reads.          *)
(***************************************************************************)
CONSTANTS
    Requests,   \* HTTP requests, each served once
    Nobody      \* holds no lock

ASSUME RequestAssumption == Nobody \notin Requests

VARIABLES
    session,    \* "none", "live", or "revoked": revoked_at is set
    family,     \* family_id
    expired,    \* sessions whose expires_at has passed
    doing,      \* how far each request has come
    subject,    \* the session whose token the request carries
    pending,    \* rows that the request's UPDATE has still to visit
    rowLock,    \* who locks each row of auth_sessions
    userLock    \* who has selected the row of the user FOR UPDATE

lockVars == <<pending, rowLock, userLock>>
vars == <<session, family, expired, doing, subject, pending, rowLock, userLock>>

Operation == {"logout", "logout_all", "change_password"}
Revoking == {"revoking_family", "revoking_all", "changing_password"}
InTransaction == {"rotating"} \union Revoking
Progress == {"idle", "login"} \union Operation \union InTransaction \union {"done", "failed"}

TypeOK ==
    /\ session \in [Requests -> {"none", "live", "revoked"}]
    /\ family \in [Requests -> Requests]
    /\ expired \subseteq Requests
    /\ doing \in [Requests -> Progress]
    /\ subject \in [Requests -> Requests]
    /\ pending \in [Requests -> SUBSET Requests]
    /\ rowLock \in [Requests -> Requests \union {Nobody}]
    /\ userLock \in Requests \union {Nobody}

Init ==
    /\ session = [q \in Requests |-> "none"]
    /\ family = [q \in Requests |-> q]
    /\ expired = {}
    /\ doing = [q \in Requests |-> "idle"]
    /\ subject = [q \in Requests |-> q]
    /\ pending = [q \in Requests |-> {}]
    /\ rowLock = [q \in Requests |-> Nobody]
    /\ userLock = Nobody

\* revoked_at IS NULL
Live == {s \in Requests : session[s] = "live"}
FamilyOf(s) == {x \in Requests : session[x] # "none" /\ family[x] = family[s]}
LockedBy(q) == {s \in Requests : rowLock[s] = q}

Become(q, progress) == doing' = [doing EXCEPT ![q] = progress]
\* Fault: a revocation sets another mark than is_revoked reads.
MarkExpired(S) == session' = [s \in Requests |-> IF s \in S THEN "expired" ELSE session[s]]

Revoke(S) == session' = [s \in Requests |-> IF s \in S THEN "revoked" ELSE session[s]]

\* The transaction of q ends: its locks are released.
Release(q) ==
    /\ pending' = [pending EXCEPT ![q] = {}]
    /\ rowLock' = [s \in Requests |-> IF rowLock[s] = q THEN Nobody ELSE rowLock[s]]
    /\ userLock' = IF userLock = q THEN Nobody ELSE userLock

\* db.session.flush() of a new session; userLock keeps it waiting.
InsertSession(q, f, retired) ==
    /\ userLock = Nobody
    /\ session' = [s \in Requests |-> IF s = q THEN "live"
                                      ELSE IF s \in retired THEN "revoked" ELSE session[s]]
    /\ family' = [family EXCEPT ![q] = f]

-----------------------------------------------------------------------------
(* POST /auth/login *)

\* authenticate_user, a transaction of its own: by the time the session is
\* inserted, the password that it read may have been changed.
Authenticate(q) ==
    /\ doing[q] = "idle"
    /\ Become(q, "login")
    /\ UNCHANGED <<session, family, expired, subject, lockVars>>

\* create_auth_session
Login(q) ==
    /\ doing[q] = "login"
    /\ InsertSession(q, q, {})
    /\ Become(q, "done")
    /\ UNCHANGED <<expired, subject, lockVars>>

-----------------------------------------------------------------------------
(* POST /auth/refresh: rotate_auth_session.  The token may be of any       *)
(* session there is; the SELECT waits for the lock of its row.             *)

\* Fault: the row is selected without FOR UPDATE.
StartRotationUnlocked(q, s) ==
    /\ doing[q] = "idle"
    /\ session[s] = "live"
    /\ s \notin expired
    /\ subject' = [subject EXCEPT ![q] = s]
    /\ Become(q, "rotating")
    /\ UNCHANGED <<session, family, expired, lockVars>>

StartRotation(q, s) ==
    /\ doing[q] = "idle"
    /\ rowLock[s] = Nobody
    /\ session[s] = "live"
    /\ s \notin expired
    /\ rowLock' = [rowLock EXCEPT ![s] = q]
    /\ subject' = [subject EXCEPT ![q] = s]
    /\ Become(q, "rotating")
    /\ UNCHANGED <<session, family, expired, pending, userLock>>

\* Fault: the replacement starts a family of its own, as a login does.
FinishRotationInNewFamily(q) ==
    /\ doing[q] = "rotating"
    /\ InsertSession(q, q, {subject[q]})
    /\ Release(q)
    /\ Become(q, "done")
    /\ UNCHANGED <<expired, subject>>

\* The replacement is inserted, the old session revoked, both committed.
FinishRotation(q) ==
    /\ doing[q] = "rotating"
    /\ InsertSession(q, family[subject[q]], {subject[q]})
    /\ Release(q)
    /\ Become(q, "done")
    /\ UNCHANGED <<expired, subject>>

RetireExpired(q, s) ==
    /\ doing[q] = "idle"
    /\ rowLock[s] = Nobody
    /\ session[s] = "live"
    /\ s \in expired
    /\ Revoke({s})
    /\ Become(q, "done")
    /\ UNCHANGED <<family, expired, subject, lockVars>>

\* A token that was exchanged or revoked before: _revoke_token_family begins.
DetectReuse(q, s) ==
    /\ doing[q] = "idle"
    /\ rowLock[s] = Nobody
    /\ session[s] = "revoked"
    /\ rowLock' = [rowLock EXCEPT ![s] = q]
    /\ pending' = [pending EXCEPT ![q] = FamilyOf(s) \intersect Live]
    /\ subject' = [subject EXCEPT ![q] = s]
    /\ Become(q, "revoking_family")
    /\ UNCHANGED <<session, family, expired, userLock>>

-----------------------------------------------------------------------------
(* Requests that carry an access token of session s *)

\* access_token_required.  What it read may have changed when the view runs.
CheckAccess(q, s, operation) ==
    /\ doing[q] = "idle"
    /\ session[s] = "live"
    /\ s \notin expired
    /\ subject' = [subject EXCEPT ![q] = s]
    /\ Become(q, operation)
    /\ UNCHANGED <<session, family, expired, lockVars>>

\* revoke_auth_session; nothing happens to a session revoked meanwhile.
Logout(q) ==
    /\ doing[q] = "logout"
    /\ rowLock[subject[q]] = Nobody
    /\ Revoke({subject[q]})
    /\ Become(q, "done")
    /\ UNCHANGED <<family, expired, subject, lockVars>>

\* revoke_all_auth_sessions begins its UPDATE.
LogoutAll(q) ==
    /\ doing[q] = "logout_all"
    /\ pending' = [pending EXCEPT ![q] = Live]
    /\ Become(q, "revoking_all")
    /\ UNCHANGED <<session, family, expired, subject, rowLock, userLock>>

\* Fault: the user is selected without FOR UPDATE.  What then locks the row is
\* the UPDATE of password_hash, which lets key-share locks pass.
ChangePasswordUnlocked(q) ==
    /\ doing[q] = "change_password"
    /\ pending' = [pending EXCEPT ![q] = Live]
    /\ Become(q, "changing_password")
    /\ UNCHANGED <<session, family, expired, subject, rowLock, userLock>>

\* change_user_password locks the user, then begins its UPDATE of sessions.
\* The passwords it compares are not refused for another change meanwhile: the
\* user was loaded with the access check, and the locking SELECT does not
\* refresh what is loaded.
ChangePassword(q) ==
    /\ doing[q] = "change_password"
    /\ userLock = Nobody
    /\ userLock' = q
    /\ pending' = [pending EXCEPT ![q] = Live]
    /\ Become(q, "changing_password")
    /\ UNCHANGED <<session, family, expired, subject, rowLock>>

-----------------------------------------------------------------------------
(* The UPDATE of a revocation at work, and its commit *)

\* A row is visited once nobody else locks it, and left out if revoked by then.
VisitRow(q, s) ==
    /\ s \in pending[q]
    /\ rowLock[s] = Nobody
    /\ pending' = [pending EXCEPT ![q] = @ \ {s}]
    /\ rowLock' = [rowLock EXCEPT ![s] = IF session[s] = "live" THEN q ELSE Nobody]
    /\ UNCHANGED <<session, family, expired, doing, subject, userLock>>

CommitRevocation(q) ==
    /\ doing[q] \in Revoking
    /\ pending[q] = {}
    /\ Revoke(LockedBy(q))
    /\ Release(q)
    /\ Become(q, "done")
    /\ UNCHANGED <<family, expired, subject>>

-----------------------------------------------------------------------------

\* Fault: the error path ends the request but not its transaction.
FailWithoutRollback(q) ==
    /\ doing[q] \in InTransaction
    /\ Become(q, "failed")
    /\ UNCHANGED <<session, family, expired, subject, lockVars>>

\* The transaction fails: the database breaks a deadlock, or the process dies.
RollBack(q) ==
    /\ doing[q] \in InTransaction
    /\ Release(q)
    /\ Become(q, "failed")
    /\ UNCHANGED <<session, family, expired, subject>>

\* Time passes the end of session s.
Expire(s) ==
    /\ session[s] # "none"
    /\ s \notin expired
    /\ expired' = expired \union {s}
    /\ UNCHANGED <<session, family, doing, subject, lockVars>>

Refresh(q) ==
    \/ \E s \in Requests : StartRotation(q, s)
    \/ \E s \in Requests : RetireExpired(q, s)
    \/ \E s \in Requests : DetectReuse(q, s)
    \/ FinishRotation(q)

Revocation(q) ==
    \/ Logout(q)
    \/ LogoutAll(q)
    \/ ChangePassword(q)
    \/ \E s \in Requests : VisitRow(q, s)
    \/ CommitRevocation(q)

Next ==
    \/ \E q \in Requests : Authenticate(q) \/ Login(q)
    \/ \E q \in Requests : Refresh(q)
    \/ \E q, s \in Requests, operation \in Operation : CheckAccess(q, s, operation)
    \/ \E q \in Requests : Revocation(q)
    \/ \E q \in Requests : RollBack(q)
    \/ \E s \in Requests : Expire(s)

Spec == Init /\ [][Next]_vars

-----------------------------------------------------------------------------
(* What must hold. *)

\* However often a token is presented, and however many requests present it at
\* once, it is exchanged for one replacement: a family never has two live
\* sessions.  (rotate_auth_session, SELECT ... FOR UPDATE)
OneLiveGeneration ==
    \A s, x \in Live : family[s] = family[x] => s = x

Generation(f) == {s \in Live : family[s] = f}

Issued == {s \in Requests : session[s] # "none"}

Holder ==
    [f \in Requests |-> IF session[f] = "none" \/ family[f] # f THEN "unborn"
                       ELSE IF Generation(f) = {} THEN "over"
                       ELSE CHOOSE s \in Generation(f) : TRUE]

Families == INSTANCE TokenFamilies WITH holder <- Holder, issued <- Issued

\* Every family is what its user takes it for: one login, handed from one new
\* generation to the next until it ends, for good.  No revocation that runs
\* beside a rotation leaves a family behind that comes back.
KeepsFamilies == Families!Spec

\* When a password change commits, no session is left, and no rotation is under
\* way that could still replace one: whoever is logged in later has logged in
\* again.  This does not reach the logins between authenticate_user and
\* create_auth_session: they insert their sessions after the commit.
\* (change_user_password)
PasswordChangeEndsSessions ==
    [][\A q \in Requests :
         doing[q] = "changing_password" /\ doing'[q] = "done"
           => Live' = {} /\ \A r \in Requests : doing'[r] # "rotating"]_vars

\* When the reuse of a token has been answered, its family is over.
\* (_revoke_token_family)
ReuseEndsFamily ==
    [][\A q \in Requests :
         doing[q] = "revoking_family" /\ doing'[q] = "done"
           => FamilyOf(subject[q])' \intersect Live' = {}]_vars

-----------------------------------------------------------------------------
(* Fairness and liveness.  A transaction that can go on does; one of those *)
(* that wait for each other in a ring is ended by the database.            *)

WaitsFor(q) ==
    {rowLock[s] : s \in pending[q]}
      \union (IF doing[q] = "rotating" THEN {userLock} ELSE {})

\* Every member of R waits for another one, and is waited for.
Ring(R) ==
    \A q \in R : /\ WaitsFor(q) \intersect R # {}
                 /\ \E x \in R : q \in WaitsFor(x)

BreakDeadlock(q) == (\E R \in SUBSET Requests : q \in R /\ Ring(R)) /\ RollBack(q)

FairSpec ==
    /\ Spec
    /\ \A q \in Requests :
         WF_vars(FinishRotation(q) \/ CommitRevocation(q) \/ \E s \in Requests : VisitRow(q, s))
    /\ WF_vars(\E q \in Requests : BreakDeadlock(q))

\* No transaction is left waiting, not even a rotation and a password change
\* that hold what the other needs.
TransactionsEnd ==
    \A q \in Requests : doing[q] \in InTransaction ~> doing[q] \in {"done", "failed"}

=============================================================================
