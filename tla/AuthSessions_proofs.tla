------------------------- MODULE AuthSessions_proofs ------------------------
(***************************************************************************)
(* Theorems about AuthSessions, for any number of concurrent requests.     *)
(***************************************************************************)
EXTENDS AuthSessions, TLAPS


-----------------------------------------------------------------------------
(* Types *)

LEMMA ReleaseType ==
    ASSUME TypeOK, NEW q \in Requests, Release(q)
    PROVE  /\ pending' \in [Requests -> SUBSET Requests]
           /\ rowLock' \in [Requests -> Requests \union {Nobody}]
           /\ userLock' \in Requests \union {Nobody}
BY DEF TypeOK, Release

LEMMA RefreshType ==
    ASSUME TypeOK, NEW q \in Requests, Refresh(q)
    PROVE  TypeOK'
<1>. USE DEF TypeOK, Become, Progress, InTransaction, Revoking
<1>1. ASSUME NEW s \in Requests, StartRotation(q, s)
      PROVE  TypeOK'
  BY <1>1 DEF StartRotation
<1>2. ASSUME NEW s \in Requests, RetireExpired(q, s)
      PROVE  TypeOK'
  BY <1>2 DEF RetireExpired, Revoke, lockVars
<1>3. ASSUME NEW s \in Requests, DetectReuse(q, s)
      PROVE  TypeOK'
  BY <1>3 DEF DetectReuse, FamilyOf, Live
<1>4. CASE FinishRotation(q)
  BY <1>4, ReleaseType DEF FinishRotation, InsertSession
<1>. QED
  BY <1>1, <1>2, <1>3, <1>4 DEF Refresh

LEMMA RevocationType ==
    ASSUME TypeOK, NEW q \in Requests, Revocation(q)
    PROVE  TypeOK'
<1>. USE DEF TypeOK, Become, Progress, InTransaction, Revoking
<1>1. CASE Logout(q)
  BY <1>1 DEF Logout, Revoke, lockVars
<1>2. CASE LogoutAll(q)
  BY <1>2 DEF LogoutAll, Live
<1>3. CASE ChangePassword(q)
  BY <1>3 DEF ChangePassword, Live
<1>4. ASSUME NEW s \in Requests, VisitRow(q, s)
      PROVE  TypeOK'
  BY <1>4 DEF VisitRow
<1>5. CASE CommitRevocation(q)
  BY <1>5, ReleaseType DEF CommitRevocation, Revoke
<1>. QED
  BY <1>1, <1>2, <1>3, <1>4, <1>5 DEF Revocation

\* Every variable keeps its type; only requests hold locks.
THEOREM TokenTypes == Spec => []TypeOK
<1>1. Init => TypeOK
  BY DEF Init, TypeOK, Progress
<1>2. TypeOK /\ [Next]_vars => TypeOK'
  <2>. SUFFICES ASSUME TypeOK, [Next]_vars
                PROVE  TypeOK'
    OBVIOUS
  <2>1. ASSUME NEW q \in Requests, Authenticate(q) \/ Login(q)
        PROVE  TypeOK'
    BY <2>1 DEF TypeOK, Authenticate, Login, InsertSession, Become, Progress, lockVars
  <2>2. ASSUME NEW q \in Requests, NEW s \in Requests, NEW operation \in Operation,
               CheckAccess(q, s, operation)
        PROVE  TypeOK'
    BY <2>2 DEF TypeOK, CheckAccess, Become, Progress, lockVars
  <2>3. ASSUME NEW q \in Requests, RollBack(q)
        PROVE  TypeOK'
    BY <2>3, ReleaseType DEF TypeOK, RollBack, Become, Progress
  <2>4. ASSUME NEW s \in Requests, Expire(s)
        PROVE  TypeOK'
    BY <2>4 DEF TypeOK, Expire, lockVars
  <2>5. CASE UNCHANGED vars
    BY <2>5 DEF TypeOK, vars
  <2>. QED
    BY <2>1, <2>2, <2>3, <2>4, <2>5, RefreshType, RevocationType DEF Next
<1>. QED
  BY <1>1, <1>2, PTL DEF Spec

-----------------------------------------------------------------------------
(* What holds while transactions are under way *)

\* A rotation holds the lock of a live session.
RotatesLive ==
    \A q \in Requests :
        doing[q] = "rotating" => session[subject[q]] = "live" /\ rowLock[subject[q]] = q

\* A password change holds the lock of the user, and every live session is one
\* it has locked or has still to visit.
ChangeCoversLive ==
    \A q \in Requests :
        doing[q] = "changing_password" => userLock = q /\ Live \subseteq pending[q] \union LockedBy(q)

\* Only sessions that exist are locked or logged out.
HandlesIssued ==
    /\ \A s \in Requests : rowLock[s] # Nobody => session[s] # "none"
    /\ \A q \in Requests : doing[q] = "logout" => session[subject[q]] # "none"

\* A request that made a session is done, and each family has its first session.
IssuedByDone ==
    /\ \A q \in Requests : session[q] # "none" => doing[q] = "done"
    /\ \A s \in Requests :
         session[s] # "none" => session[family[s]] # "none" /\ family[family[s]] = family[s]

LocksInv == RotatesLive /\ ChangeCoversLive /\ HandlesIssued /\ IssuedByDone

LEMMA RefreshKeepsLocks ==
    ASSUME TypeOK, LocksInv, NEW q \in Requests, Refresh(q)
    PROVE  LocksInv'
<1>. USE RequestAssumption DEF TypeOK, LocksInv, RotatesLive, ChangeCoversLive, HandlesIssued,
                              IssuedByDone, Become, Live, LockedBy
<1>1. ASSUME NEW s \in Requests, StartRotation(q, s)
      PROVE  LocksInv'
  BY <1>1 DEF StartRotation
<1>2. ASSUME NEW s \in Requests, RetireExpired(q, s)
      PROVE  LocksInv'
  BY <1>2 DEF RetireExpired, Revoke, lockVars
<1>3. ASSUME NEW s \in Requests, DetectReuse(q, s)
      PROVE  LocksInv'
  BY <1>3 DEF DetectReuse, FamilyOf
<1>4. CASE FinishRotation(q)
  <2>1. session[q] = "none" /\ \A x \in Requests : doing[x] # "changing_password"
    BY <1>4 DEF FinishRotation, InsertSession
  <2>2. /\ \A s \in Requests : session'[s] = IF s = q THEN "live"
                                            ELSE IF s = subject[q] THEN "revoked" ELSE session[s]
        /\ \A s \in Requests : family'[s] = IF s = q THEN family[subject[q]] ELSE family[s]
        /\ \A s \in Requests : rowLock'[s] = IF rowLock[s] = q THEN Nobody ELSE rowLock[s]
        /\ \A x \in Requests : doing'[x] = IF x = q THEN "done" ELSE doing[x]
        /\ subject' = subject
    BY <1>4 DEF FinishRotation, InsertSession, Release
  <2>3. session[subject[q]] = "live" /\ rowLock[subject[q]] = q /\ subject[q] # q
    BY <1>4, <2>1 DEF FinishRotation
  <2>4. RotatesLive'
    BY <2>1, <2>2, <2>3
  <2>5. ChangeCoversLive'
    BY <2>1, <2>2
  <2>6. HandlesIssued'
    BY <2>1, <2>2, <2>3
  <2>7. IssuedByDone'
    BY <2>1, <2>2, <2>3
  <2>. QED
    BY <2>4, <2>5, <2>6, <2>7
<1>. QED
  BY <1>1, <1>2, <1>3, <1>4 DEF Refresh

LEMMA RevocationKeepsLocks ==
    ASSUME TypeOK, LocksInv, NEW q \in Requests, Revocation(q)
    PROVE  LocksInv'
<1>. USE RequestAssumption DEF TypeOK, LocksInv, RotatesLive, ChangeCoversLive, HandlesIssued,
                              IssuedByDone, Become, Live, LockedBy
<1>1. CASE Logout(q)
  BY <1>1 DEF Logout, Revoke, lockVars
<1>2. CASE LogoutAll(q)
  BY <1>2 DEF LogoutAll
<1>3. CASE ChangePassword(q)
  BY <1>3 DEF ChangePassword
<1>4. ASSUME NEW s \in Requests, VisitRow(q, s)
      PROVE  LocksInv'
  BY <1>4 DEF VisitRow
<1>5. CASE CommitRevocation(q)
  BY <1>5 DEF CommitRevocation, Revoke, Release, Revoking
<1>. QED
  BY <1>1, <1>2, <1>3, <1>4, <1>5 DEF Revocation

LEMMA LocksAreKept ==
    ASSUME TypeOK, LocksInv, [Next]_vars
    PROVE  LocksInv'
<1>. USE RequestAssumption DEF TypeOK, LocksInv, RotatesLive, ChangeCoversLive, HandlesIssued,
                              IssuedByDone, Become, Live, LockedBy
<1>1. ASSUME NEW q \in Requests, Authenticate(q) \/ Login(q)
      PROVE  LocksInv'
  BY <1>1 DEF Authenticate, Login, InsertSession, lockVars
<1>2. ASSUME NEW q \in Requests, NEW s \in Requests, NEW operation \in Operation,
             CheckAccess(q, s, operation)
      PROVE  LocksInv'
  BY <1>2 DEF CheckAccess, lockVars, Operation
<1>3. ASSUME NEW q \in Requests, RollBack(q)
      PROVE  LocksInv'
  BY <1>3 DEF RollBack, Release, InTransaction, Revoking
<1>4. ASSUME NEW s \in Requests, Expire(s)
      PROVE  LocksInv'
  BY <1>4 DEF Expire, lockVars
<1>5. CASE UNCHANGED vars
  BY <1>5 DEF vars
<1>. QED
  BY <1>1, <1>2, <1>3, <1>4, <1>5, RefreshKeepsLocks, RevocationKeepsLocks DEF Next

LEMMA LocksHold == Spec => [](TypeOK /\ LocksInv)
<1>1. Init => LocksInv
  BY RequestAssumption DEF Init, LocksInv, RotatesLive, ChangeCoversLive, HandlesIssued,
                           IssuedByDone
<1>2. TypeOK /\ LocksInv /\ [Next]_vars => LocksInv'
  BY LocksAreKept
<1>. QED
  BY <1>1, <1>2, TokenTypes, PTL DEF Spec

\* When a password change commits, no session is live and no rotation is under
\* way: a rotation holds the row of a live session, which the change could not
\* have revoked, and none can insert a session beside it, since the change holds
\* the row of their user.  (change_user_password)
THEOREM PasswordChangesEndSessions == Spec => PasswordChangeEndsSessions
<1>1. ASSUME TypeOK, LocksInv, LocksInv', [Next]_vars, NEW q \in Requests,
             doing[q] = "changing_password", doing'[q] = "done"
      PROVE  Live' = {} /\ \A r \in Requests : doing'[r] # "rotating"
  <2>1. CommitRevocation(q)
    BY <1>1 DEF Next, vars, TypeOK, Authenticate, Login, Refresh, StartRotation, RetireExpired,
                DetectReuse, FinishRotation, CheckAccess, Operation, Revocation, Logout, LogoutAll,
                ChangePassword, VisitRow, CommitRevocation, RollBack, Expire, Become
  <2>2. Live \subseteq LockedBy(q)
    BY <1>1, <2>1 DEF LocksInv, ChangeCoversLive, CommitRevocation
  <2>3. Live' = {}
    BY <2>1, <2>2 DEF CommitRevocation, Revoke, Live
  <2>4. ASSUME NEW r \in Requests
        PROVE  doing'[r] # "rotating"
    <3>1. session'[subject'[r]] # "live"
      BY <1>1, <2>1, <2>3 DEF Live, CommitRevocation, TypeOK
    <3>. QED
      BY <1>1, <3>1 DEF LocksInv, RotatesLive
  <2>. QED
    BY <2>3, <2>4
<1>2. TypeOK /\ LocksInv /\ LocksInv' /\ [Next]_vars
        => \A q \in Requests : doing[q] = "changing_password" /\ doing'[q] = "done"
             => Live' = {} /\ \A r \in Requests : doing'[r] # "rotating"
  BY <1>1
<1>. QED
  BY <1>2, LocksHold, PTL DEF PasswordChangeEndsSessions, Spec

-----------------------------------------------------------------------------
(* What a step does to the sessions, and what follows for families *)

\* Some sessions that exist are revoked, and nothing else happens to sessions.
SomeRevoked == \E S \in SUBSET Issued : Revoke(S) /\ family' = family

LEMMA StepsMoveSessions ==
    ASSUME TypeOK, LocksInv, [Next]_vars
    PROVE  \/ UNCHANGED <<session, family>>
           \/ \E q \in Requests : Login(q)
           \/ \E q \in Requests : FinishRotation(q)
           \/ SomeRevoked
<1>. USE DEF TypeOK, LocksInv, HandlesIssued, SomeRevoked, Issued
<1>1. ASSUME NEW q \in Requests, NEW s \in Requests, RetireExpired(q, s)
      PROVE  SomeRevoked
  <2>1. {s} \in SUBSET Issued
    BY <1>1 DEF RetireExpired
  <2>. QED
    BY <1>1, <2>1 DEF RetireExpired
<1>2. ASSUME NEW q \in Requests, Logout(q)
      PROVE  SomeRevoked
  <2>1. {subject[q]} \in SUBSET Issued
    BY <1>2 DEF Logout
  <2>. QED
    BY <1>2, <2>1 DEF Logout
<1>3. ASSUME NEW q \in Requests, CommitRevocation(q)
      PROVE  SomeRevoked
  <2>1. LockedBy(q) \in SUBSET Issued
    BY RequestAssumption DEF LockedBy
  <2>. QED
    BY <1>3, <2>1 DEF CommitRevocation
<1>. QED
  BY <1>1, <1>2, <1>3 DEF Next, Authenticate, Refresh, Revocation, StartRotation, DetectReuse, CheckAccess,
                          LogoutAll, ChangePassword, VisitRow, RollBack, Expire, vars

\* What FinishRotation does to sessions and families.
LEMMA RotationMoves ==
    ASSUME TypeOK, LocksInv, NEW q \in Requests, FinishRotation(q)
    PROVE  /\ session[q] = "none" /\ session[subject[q]] = "live"
           /\ \A s \in Requests : session'[s] = IF s = q THEN "live"
                                               ELSE IF s = subject[q] THEN "revoked" ELSE session[s]
           /\ \A s \in Requests : family'[s] = IF s = q THEN family[subject[q]] ELSE family[s]
BY DEF TypeOK, LocksInv, RotatesLive, IssuedByDone, FinishRotation, InsertSession

LEMMA LoginMoves ==
    ASSUME TypeOK, LocksInv, NEW q \in Requests, Login(q)
    PROVE  /\ session[q] = "none"
           /\ \A s \in Requests : session'[s] = IF s = q THEN "live" ELSE session[s]
           /\ \A s \in Requests : family'[s] = IF s = q THEN q ELSE family[s]
BY DEF TypeOK, LocksInv, IssuedByDone, Login, InsertSession

LEMMA OneLiveIsKept ==
    ASSUME TypeOK, LocksInv, OneLiveGeneration, [Next]_vars
    PROVE  OneLiveGeneration'
<1>. USE DEF TypeOK, OneLiveGeneration, Live
<1>1. ASSUME NEW q \in Requests, Login(q)
      PROVE  OneLiveGeneration'
  <2>1. \A s \in Requests : session[s] = "live" => family[s] # q
    BY <1>1, LoginMoves DEF LocksInv, IssuedByDone
  <2>. QED
    BY <1>1, <2>1, LoginMoves
<1>2. ASSUME NEW q \in Requests, FinishRotation(q)
      PROVE  OneLiveGeneration'
  BY <1>2, RotationMoves
<1>3. CASE SomeRevoked
  BY <1>3 DEF SomeRevoked, Revoke
<1>4. CASE UNCHANGED <<session, family>>
  BY <1>4
<1>. QED
  BY <1>1, <1>2, <1>3, <1>4, StepsMoveSessions

\* A family never has two live sessions, however many requests present its
\* tokens at once (rotate_auth_session, SELECT ... FOR UPDATE).
THEOREM TokensAreExchangedOnce == Spec => []OneLiveGeneration
<1>1. Init => OneLiveGeneration
  BY DEF Init, OneLiveGeneration, Live
<1>2. TypeOK /\ LocksInv /\ OneLiveGeneration /\ [Next]_vars => OneLiveGeneration'
  BY OneLiveIsKept
<1>. QED
  BY <1>1, <1>2, LocksHold, PTL DEF Spec

-----------------------------------------------------------------------------
(* AuthSessions implements TokenFamilies *)

\* The holder of a family is its live session.
HolderFits(f) ==
    /\ session[f] = "none" \/ family[f] # f => Holder[f] = "unborn"
    /\ session[f] # "none" /\ family[f] = f
         => /\ \A s \in Live : family[s] = f => Holder[f] = s
            /\ (\A s \in Live : family[s] # f) => Holder[f] = "over"

LEMMA HolderIs ==
    ASSUME OneLiveGeneration, NEW f \in Requests
    PROVE  HolderFits(f)
<1>1. \A s \in Live : family[s] = f => Generation(f) = {s}
  BY DEF OneLiveGeneration, Generation
<1>2. \A s : (CHOOSE x \in {s} : TRUE) = s
  OBVIOUS
<1>3. (\A s \in Live : family[s] # f) => Generation(f) = {}
  BY DEF Generation
<1>. QED
  BY <1>1, <1>2, <1>3 DEF Holder, HolderFits

\* The same in the next state.
LEMMA HolderWillBe ==
    ASSUME OneLiveGeneration', NEW f \in Requests
    PROVE  HolderFits(f)'
<1>1. \A s \in Live' : family'[s] = f => Generation(f)' = {s}
  BY DEF OneLiveGeneration, Generation
<1>2. \A s : (CHOOSE x \in {s} : TRUE) = s
  OBVIOUS
<1>3. (\A s \in Live' : family'[s] # f) => Generation(f)' = {}
  BY DEF Generation
<1>. QED
  BY <1>1, <1>2, <1>3 DEF Holder, HolderFits

LEMMA HolderIsFunction ==
    /\ Holder = [f \in Requests |-> Holder[f]]
    /\ Holder' = [f \in Requests |-> Holder'[f]]
<1>1. Holder = [f \in Requests |-> Holder[f]]
  BY DEF Holder
<1>2. Holder' = [f \in Requests |-> Holder'[f]]
  BY DEF Holder
<1>. QED
  BY <1>1, <1>2

LEMMA LoginBegins ==
    ASSUME TypeOK, LocksInv, OneLiveGeneration, OneLiveGeneration', NEW q \in Requests, Login(q)
    PROVE  Families!Begin(q)
<1>. USE DEF TypeOK, Live
<1>1. \A s \in Requests : session[s] = "live" => family[s] # q
  BY LoginMoves DEF LocksInv, IssuedByDone
<1>2. Holder[q] = "unborn" /\ q \notin Issued
  BY LoginMoves, HolderIs DEF Issued, HolderFits
<1>3. Issued' = Issued \union {q}
  BY LoginMoves DEF Issued
<1>4. Holder'[q] = q
  BY LoginMoves, HolderWillBe DEF HolderFits
<1>5. ASSUME NEW f \in Requests \ {q}
      PROVE  Holder'[f] = Holder[f]
  <2>1. Generation(f)' = Generation(f)
    BY LoginMoves DEF Generation
  <2>. QED
    BY <2>1, LoginMoves DEF Holder
<1>6. Holder' = [Holder EXCEPT ![q] = q]
  BY <1>4, <1>5, HolderIsFunction
<1>. QED
  BY <1>2, <1>3, <1>6 DEF Families!Begin

LEMMA RotationRenews ==
    ASSUME TypeOK, LocksInv, OneLiveGeneration, OneLiveGeneration',
           NEW q \in Requests, FinishRotation(q)
    PROVE  Families!Renew(family[subject[q]], q)
<1>. DEFINE f == family[subject[q]]
<1>. USE DEF TypeOK, Live
<1>1. f \in Requests /\ f # q /\ session[f] # "none" /\ family[f] = f
  BY RotationMoves DEF LocksInv, IssuedByDone
<1>2. Holder[f] \in Issued /\ q \notin Issued
  BY <1>1, RotationMoves, HolderIs DEF Issued, HolderFits
<1>3. Issued' = Issued \union {q}
  BY RotationMoves DEF Issued
<1>4. Holder'[f] = q
  <2>1. session'[f] # "none" /\ family'[f] = f /\ q \in Live' /\ family'[q] = f
    BY <1>1, RotationMoves
  <2>. QED
    BY <1>1, <2>1, HolderWillBe DEF HolderFits
<1>5. ASSUME NEW x \in Requests \ {f}
      PROVE  Holder'[x] = Holder[x]
  <2>1. CASE x = q
    BY <1>1, <2>1, RotationMoves DEF Holder
  <2>2. CASE x # q
    <3>1. Generation(x)' = Generation(x)
      BY <2>2, RotationMoves DEF Generation
    <3>2. family'[x] = family[x] /\ (session'[x] = "none" <=> session[x] = "none")
      BY <2>2, RotationMoves
    <3>. QED
      BY <3>1, <3>2 DEF Holder
  <2>. QED
    BY <2>1, <2>2
<1>6. Holder' = [Holder EXCEPT ![f] = q]
  BY <1>1, <1>4, <1>5, HolderIsFunction
<1>. QED
  BY <1>2, <1>3, <1>6 DEF Families!Renew

\* A revocation ends the families whose live sessions it revokes.
LEMMA RevocationEnds ==
    ASSUME TypeOK, LocksInv, OneLiveGeneration, OneLiveGeneration', SomeRevoked
    PROVE  \E F \in SUBSET Requests : Families!End(F)
<1>1. PICK S \in SUBSET Issued : Revoke(S) /\ family' = family
  BY DEF SomeRevoked
<1>. DEFINE F == {family[s] : s \in S \intersect Live}
<1>2. /\ \A s \in Requests : session'[s] = IF s \in S THEN "revoked" ELSE session[s]
      /\ Issued' = Issued
  BY <1>1 DEF Revoke, TypeOK, Issued
<1>3. F \in SUBSET Requests
  BY DEF TypeOK, Live
<1>4. ASSUME NEW f \in F
      PROVE  Holder[f] \in Issued /\ Holder'[f] = "over"
  <2>1. PICK s \in S \intersect Live : family[s] = f
    OBVIOUS
  <2>2. s \in Requests /\ session[s] = "live" /\ f \in Requests
    BY <2>1 DEF Live, TypeOK
  <2>3. session[f] # "none" /\ family[f] = f
    BY <2>1, <2>2 DEF LocksInv, IssuedByDone
  <2>4. Holder[f] = s
    BY <2>1, <2>2, <2>3, HolderIs DEF HolderFits
  <2>5. \A x \in Live' : family'[x] # f
    BY <1>1, <1>2, <2>1, <2>2 DEF Live, OneLiveGeneration
  <2>6. session'[f] # "none" /\ family'[f] = f
    BY <1>1, <1>2, <2>2, <2>3
  <2>7. Holder'[f] = "over"
    BY <2>2, <2>5, <2>6, HolderWillBe DEF HolderFits
  <2>. QED
    BY <2>2, <2>4, <2>7 DEF Issued
<1>5. ASSUME NEW f \in Requests \ F
      PROVE  Holder'[f] = Holder[f]
  <2>1. Generation(f)' = Generation(f)
    BY <1>1, <1>2 DEF Generation, Live
  <2>2. session'[f] = "none" <=> session[f] = "none"
    BY <1>1, <1>2 DEF Issued
  <2>. QED
    BY <1>1, <2>1, <2>2 DEF Holder
<1>6. Holder' = [f \in Requests |-> IF f \in F THEN "over" ELSE Holder[f]]
  BY <1>3, <1>4, <1>5, HolderIsFunction
<1>. QED
  BY <1>2, <1>3, <1>4, <1>6 DEF Families!End

\* Sessions implement TokenFamilies: one login, handed from one new generation
\* to the next until it ends for good, whatever revocations run beside it
\* (rotate_auth_session, revoke_auth_session, revoke_all_auth_sessions,
\* change_user_password).
THEOREM SessionsKeepFamilies == Spec => KeepsFamilies
<1>1. Init => Families!Init
  BY DEF Init, Families!Init, Holder, Issued
<1>2. TypeOK /\ LocksInv /\ OneLiveGeneration /\ OneLiveGeneration' /\ [Next]_vars
        => [Families!Next]_<<Holder, Issued>>
  <2>. SUFFICES ASSUME TypeOK, LocksInv, OneLiveGeneration, OneLiveGeneration', [Next]_vars
                PROVE  [Families!Next]_<<Holder, Issued>>
    OBVIOUS
  <2>1. CASE UNCHANGED <<session, family>>
    BY <2>1 DEF Holder, Issued, Generation, Live
  <2>2. ASSUME NEW q \in Requests, Login(q)
        PROVE  Families!Next
    BY <2>2, LoginBegins DEF Families!Next
  <2>3. ASSUME NEW q \in Requests, FinishRotation(q)
        PROVE  Families!Next
    <3>1. family[subject[q]] \in Requests
      BY DEF TypeOK
    <3>. QED
      BY <2>3, <3>1, RotationRenews DEF Families!Next
  <2>4. CASE SomeRevoked
    BY <2>4, RevocationEnds DEF Families!Next
  <2>. QED
    BY <2>1, <2>2, <2>3, <2>4, StepsMoveSessions
<1>. QED
  BY <1>1, <1>2, LocksHold, TokensAreExchangedOnce, PTL DEF Spec, KeepsFamilies, Families!Spec

=============================================================================
