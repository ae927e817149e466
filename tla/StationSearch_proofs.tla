------------------------ MODULE StationSearch_proofs ------------------------
(***************************************************************************)
(* Theorems about StationEdits and StationSearch, for any catalogue and    *)
(* any number of concurrent edits and searches.                            *)
(***************************************************************************)
EXTENDS StationSearch, TLAPS

-----------------------------------------------------------------------------
(* Types *)

LEMMA EditTypes ==
    ASSUME TypeOK, EditStep, UNCHANGED <<cacheVars, searchVars>>
    PROVE  TypeOK'
<1>. USE SiteAssumption, EditAssumption DEF TypeOK, EditsTypeOK, StationsTypeOK, stationVars,
        cacheVars, searchVars, Rows, Edition, Effect, Reach, Leave, Blank, Unlock
<1>1. ASSUME NEW q \in Edits, NEW s \in Sites, CreateStation(q, s)
      PROVE  TypeOK'
  BY <1>1 DEF CreateStation
<1>2. ASSUME NEW q \in Edits, NEW s \in Sites, PrepareStation(q, s)
      PROVE  TypeOK'
  BY <1>2 DEF PrepareStation
<1>3. ASSUME NEW q \in Edits, NEW x \in Rows, NEW effect \in Effect, FillIn(q, x, effect)
      PROVE  TypeOK'
  BY <1>3 DEF FillIn, IsOpen
<1>4. ASSUME NEW q \in Edits, NEW p \in Points, LockStation(q, p)
      PROVE  TypeOK'
  BY <1>4 DEF LockStation
<1>5. ASSUME NEW q \in Edits, NEW p \in Points, PreparePoint(q, p)
      PROVE  TypeOK'
  BY <1>5 DEF PreparePoint
<1>6. ASSUME NEW q \in Edits, CommitEdit(q)
      PROVE  TypeOK'
  <2>1. \A x \in Rows : IsOpen(x) \in BOOLEAN
    BY DEF IsOpen
  <2>2. \A x \in Rows : form[q].row = x => Wanted(q) \in BOOLEAN
    BY <2>1 DEF Wanted
  <2>3. stationOpen' \in [Sites -> BOOLEAN] /\ pointOpen' \in [Points -> BOOLEAN]
    BY <1>6, <2>2 DEF CommitEdit
  <2>4. /\ rowVersion' = [rowVersion EXCEPT ![form[q].row] = @ + 1]
        /\ lockedBy' = [x \in Rows |-> IF lockedBy[x] = q THEN Nobody ELSE lockedBy[x]]
    BY <1>6 DEF CommitEdit
  <2>6. rowVersion' \in [Rows -> Nat]
    <3>1. rowVersion \in [Rows -> Nat]
      OBVIOUS
    <3>. HIDE DEF Rows
    <3>2. \A x \in Rows : rowVersion[x] + 1 \in Nat
      BY <3>1
    <3>3. rowVersion' =
            [x \in Rows |-> IF x = form[q].row THEN rowVersion[x] + 1 ELSE rowVersion[x]]
      BY ONLY <2>4, <3>1
    <3>. QED
      BY ONLY <3>1, <3>2, <3>3
  <2>7. lockedBy' \in [Rows -> Edits \union {Nobody}]
    BY <2>4
  <2>5. /\ phase' = [phase EXCEPT ![q] = "committed"]
        /\ form' = [form EXCEPT ![q] = Blank]
        /\ charging' = charging
    BY <1>6 DEF CommitEdit
  <2>. QED
    BY <2>3, <2>5, <2>6, <2>7
<1>7. ASSUME NEW q \in Edits, RollBackEdit(q)
      PROVE  TypeOK'
  BY <1>7 DEF RollBackEdit
<1>8. ASSUME NEW p \in Points, StartCharging(p) \/ EndCharging(p)
      PROVE  TypeOK'
  BY <1>8 DEF StartCharging, EndCharging
<1>. HIDE DEF TypeOK
<1>. QED
  BY <1>1, <1>2, <1>3, <1>4, <1>5, <1>6, <1>7, <1>8 DEF EditStep

LEMMA SearchTypes ==
    ASSUME TypeOK, NEW r \in Searches, SearchStep(r)
    PROVE  TypeOK'
<1>. USE KeyAssumption DEF TypeOK, EditsTypeOK, StationsTypeOK, stationVars, editVars, cacheVars,
        Edition, Proceed
<1>1. CASE ReadVersion(r)
  BY <1>1 DEF ReadVersion
<1>2. CASE Hit(r)
  BY <1>2 DEF Hit
<1>3. CASE Miss(r)
  BY <1>3 DEF Miss
<1>4. CASE ReadFails(r)
  BY <1>4 DEF ReadFails
<1>5. CASE QueryStations(r)
  BY <1>5 DEF QueryStations, ReadRows
<1>6. CASE LoadPoints(r)
  BY <1>6 DEF LoadPoints, ReadRows
<1>7. CASE Store(r)
  <2>1. key[r] \in Nat /\ found[r] \in Edition
    BY <1>7 DEF Store, HasKey
  <2>2. entries' \subseteq [version : Nat, edition : Edition]
    BY <1>7, <2>1 DEF Store, StorageKey
  <2>. QED
    BY <1>7, <2>2 DEF Store
<1>8. CASE StoreFails(r)
  BY <1>8 DEF StoreFails
<1>. QED
  BY <1>1, <1>2, <1>3, <1>4, <1>5, <1>6, <1>7, <1>8 DEF SearchStep

\* Every variable keeps its type; only answers with a key are cached.
THEOREM SearchTypesCorrect == Spec => []TypeOK
<1>1. Init => TypeOK
  <2>. SUFFICES ASSUME Init
                PROVE  TypeOK
    OBVIOUS
  <2>. USE DEF Init, EditsInit
  <2>1. rowVersion \in Edition
    BY DEF Edition
  <2>2. EditsTypeOK
    BY <2>1 DEF StationsInit, EditsTypeOK, StationsTypeOK, Rows, Edition, Blank, Effect
  <2>. QED
    BY <2>1, <2>2 DEF TypeOK
<1>2. TypeOK /\ [Next]_vars => TypeOK'
  <2>. SUFFICES ASSUME TypeOK, [Next]_vars
                PROVE  TypeOK'
    OBVIOUS
  <2>1. ASSUME NEW q \in Edits, Finish(q), cacheVersion' \in Nat, published' \in Edition
        PROVE  TypeOK'
    BY <2>1 DEF TypeOK, EditsTypeOK, StationsTypeOK, stationVars, searchVars, Edition,
       Finish, Reach
  <2>2. ASSUME NEW q \in Edits, Invalidate(q) \/ InvalidationFails(q)
        PROVE  TypeOK'
    BY <2>1, <2>2 DEF TypeOK, EditsTypeOK, Edition, Invalidate, InvalidationFails
  <2>3. ASSUME NEW e \in entries, Expire(e)
        PROVE  TypeOK'
    BY <2>3 DEF TypeOK, EditsTypeOK, StationsTypeOK, stationVars, editVars, searchVars, Expire
  <2>4. CASE RestartRedis
    BY <2>4 DEF TypeOK, EditsTypeOK, StationsTypeOK, stationVars, editVars, searchVars, RestartRedis
  <2>5. CASE UNCHANGED vars
    BY <2>5 DEF TypeOK, EditsTypeOK, StationsTypeOK, vars, stationVars, editVars, cacheVars, searchVars
  <2>. QED
    BY <2>2, <2>3, <2>4, <2>5, EditTypes, SearchTypes DEF Next
<1>. QED
  BY <1>1, <1>2, PTL DEF Spec

-----------------------------------------------------------------------------
(* What holds while edits are under way *)

\* A station and its points are created together.
CreatedTogether == \A x \in Rows : rowVersion[x] = 0 <=> rowVersion[StationOf(x)] = 0

\* A form is about an existing row, as it was at the version in the form.
FormsQuoteRows ==
    \A q \in Edits : phase[q] \in {"viewed", "at_station", "ready"} =>
        LET x == form[q].row IN
        /\ x \in Rows /\ x \in Managed
        /\ 0 < form[q].version /\ form[q].version <= rowVersion[x]
        /\ form[q].version = rowVersion[x] => IsOpen(x) = form[q].open

\* An edit holds the locks it has taken.
EditsHoldLocks ==
    \A q \in Edits :
        LET x == form[q].row IN
        /\ phase[q] = "at_station" => x \in Points /\ lockedBy[SiteOf[x]] = q
        /\ phase[q] = "ready" => /\ lockedBy[x] = q
                                 /\ x \in Points => lockedBy[SiteOf[x]] = q

\* What an edit was checked for is still so.
ChecksStand ==
    \A q \in Edits : phase[q] = "ready" =>
        LET x == form[q].row IN
        /\ form[q].version = rowVersion[x]
        /\ x \in Sites /\ form[q].effect = "open" => \E p \in Points : SiteOf[p] = x /\ pointOpen[p]
        /\ x \in Points /\ form[q].effect = "close" => ~ charging[x]

EditsInv == CreatedTogether /\ FormsQuoteRows /\ EditsHoldLocks /\ ChecksStand

LEMMA FormSteps ==
    ASSUME TypeOK, EditsInv, NEW q \in Edits,
           \/ \E s \in Sites : CreateStation(q, s)
           \/ \E x \in Rows, effect \in Effect : FillIn(q, x, effect)
           \/ RollBackEdit(q)
    PROVE  EditsInv'
<1>. USE SiteAssumption, EditAssumption DEF TypeOK, EditsTypeOK, StationsTypeOK, EditsInv, CreatedTogether,
        FormsQuoteRows, EditsHoldLocks, ChecksStand, stationVars, Reach, Leave, Unlock, Blank, IsOpen
<1>1. ASSUME NEW s \in Sites, CreateStation(q, s)
      PROVE  EditsInv'
  <2>1. \A x \in Rows : rowVersion'[x] = IF StationOf(x) = s THEN 1 ELSE rowVersion[x]
    BY <1>1 DEF CreateStation
  <2>2. \A x \in Rows : StationOf(x) \in Rows /\ StationOf(StationOf(x)) = StationOf(x)
    BY DEF Rows, StationOf
  <2>3. \A x \in Rows : rowVersion[x] > 0 => rowVersion'[x] = rowVersion[x]
    BY <1>1, <2>1, <2>2 DEF CreateStation
  <2>4. CreatedTogether'
    BY <2>1, <2>2
  <2>5. FormsQuoteRows'
    BY <1>1, <2>3 DEF CreateStation
  <2>6. EditsHoldLocks'
    BY <1>1 DEF CreateStation
  <2>7. ChecksStand'
    BY <1>1, <2>3 DEF CreateStation
  <2>. QED
    BY <2>4, <2>5, <2>6, <2>7
<1>2. ASSUME NEW x \in Rows, NEW effect \in Effect, FillIn(q, x, effect)
      PROVE  EditsInv'
  BY <1>2 DEF FillIn
<1>3. CASE RollBackEdit(q)
  <2>1. /\ phase[q] # "idle" /\ phase' = [phase EXCEPT ![q] = "done"]
        /\ form' = [form EXCEPT ![q] = Blank]
        /\ \A x \in Rows : lockedBy'[x] = IF lockedBy[x] = q THEN Nobody ELSE lockedBy[x]
        /\ UNCHANGED <<stationOpen, pointOpen, rowVersion, charging>>
    BY <1>3 DEF RollBackEdit
  <2>2. CreatedTogether'
    BY <2>1
  <2>5. FormsQuoteRows'
    <3>1. ASSUME NEW q2 \in Edits, phase'[q2] \in {"viewed", "at_station", "ready"}
          PROVE  phase'[q2] = phase[q2] /\ form'[q2] = form[q2]
      BY <2>1, <3>1
    <3>2. rowVersion' = rowVersion /\ stationOpen' = stationOpen /\ pointOpen' = pointOpen
      BY <2>1
    <3>. QED
      BY ONLY <3>1, <3>2, FormsQuoteRows DEF FormsQuoteRows, IsOpen
  <2>3. EditsHoldLocks'
    BY <2>1 DEF Rows
  <2>4. ChecksStand'
    BY <2>1
  <2>. QED
    BY <2>2, <2>3, <2>4, <2>5
<1>. HIDE DEF EditsInv
<1>. QED
  BY <1>1, <1>2, <1>3

LEMMA LockSteps ==
    ASSUME TypeOK, EditsInv, NEW q \in Edits,
           \/ \E s \in Sites : PrepareStation(q, s)
           \/ \E p \in Points : LockStation(q, p) \/ PreparePoint(q, p)
    PROVE  EditsInv'
<1>. USE SiteAssumption, EditAssumption DEF TypeOK, EditsTypeOK, StationsTypeOK, EditsInv, CreatedTogether,
        FormsQuoteRows, EditsHoldLocks, ChecksStand, stationVars, Reach, IsOpen, Free
<1>1. ASSUME NEW s \in Sites, PrepareStation(q, s)
      PROVE  EditsInv'
  BY <1>1 DEF PrepareStation, Rows
<1>2. ASSUME NEW p \in Points, LockStation(q, p)
      PROVE  EditsInv'
  BY <1>2 DEF LockStation, Rows
<1>3. ASSUME NEW p \in Points, PreparePoint(q, p)
      PROVE  EditsInv'
  BY <1>3 DEF PreparePoint, Rows
<1>. HIDE DEF EditsInv
<1>. QED
  BY <1>1, <1>2, <1>3

LEMMA ChargingSteps ==
    ASSUME TypeOK, EditsInv, NEW p \in Points, StartCharging(p) \/ EndCharging(p)
    PROVE  EditsInv'
BY EditAssumption DEF TypeOK, EditsTypeOK, StationsTypeOK, EditsInv, CreatedTogether,
   FormsQuoteRows, EditsHoldLocks, ChecksStand, stationVars, IsOpen, Free, StartCharging, EndCharging

\* A commit changes the row of its form and no other.
LEMMA CommitEffect ==
    ASSUME TypeOK, EditsInv, NEW q \in Edits, CommitEdit(q)
    PROVE  /\ form[q].row \in Rows
           /\ \A y \in Rows :
                /\ rowVersion'[y] = IF y = form[q].row THEN rowVersion[y] + 1 ELSE rowVersion[y]
                /\ (IF y \in Sites THEN stationOpen'[y] ELSE pointOpen'[y])
                   = IF y = form[q].row THEN Wanted(q) ELSE IsOpen(y)
<1>. USE SiteAssumption, EditAssumption DEF TypeOK, EditsTypeOK, StationsTypeOK
<1>1. form[q].row \in Rows
  BY DEF EditsInv, FormsQuoteRows, CommitEdit
<1>2. \A y \in Rows : rowVersion'[y] = IF y = form[q].row THEN rowVersion[y] + 1 ELSE rowVersion[y]
  BY DEF CommitEdit
<1>3. \A y \in Rows : (IF y \in Sites THEN stationOpen'[y] ELSE pointOpen'[y]) = IF y = form[q].row THEN Wanted(q) ELSE IsOpen(y)
  BY DEF CommitEdit, IsOpen, Rows
<1>. QED
  BY <1>1, <1>2, <1>3

LEMMA CommitKeepsInv ==
    ASSUME TypeOK, EditsInv, NEW q \in Edits, CommitEdit(q)
    PROVE  EditsInv'
<1>. USE SiteAssumption, EditAssumption DEF TypeOK, EditsTypeOK, StationsTypeOK
<1>. DEFINE x == form[q].row
<1>1. /\ \A q2 \in Edits : phase'[q2] = IF q2 = q THEN "committed" ELSE phase[q2]
      /\ \A q2 \in Edits : form'[q2] = IF q2 = q THEN Blank ELSE form[q2]
      /\ \A y \in Rows : lockedBy'[y] = IF lockedBy[y] = q THEN Nobody ELSE lockedBy[y]
      /\ charging' = charging
      /\ phase[q] = "ready"
  BY DEF CommitEdit, Leave, Reach, Unlock
<1>2. /\ x \in Rows /\ rowVersion[x] > 0
      /\ lockedBy[x] = q
      /\ x \in Points => lockedBy[SiteOf[x]] = q
  BY <1>1 DEF EditsInv, FormsQuoteRows, EditsHoldLocks, ChecksStand
<1>3. CreatedTogether'
  BY <1>2, CommitEffect DEF EditsInv, CreatedTogether, StationOf, Rows
<1>4. FormsQuoteRows'
  <2>. SUFFICES ASSUME NEW q2 \in Edits, phase'[q2] \in {"viewed", "at_station", "ready"}
                PROVE  LET y == form'[q2].row IN
                       /\ y \in Rows /\ y \in Managed
                       /\ 0 < form'[q2].version /\ form'[q2].version <= rowVersion'[y]
                       /\ form'[q2].version = rowVersion'[y] =>
                            (IF y \in Sites THEN stationOpen'[y] ELSE pointOpen'[y]) = form'[q2].open
    BY DEF FormsQuoteRows, IsOpen
  <2>1. q2 # q /\ form'[q2] = form[q2] /\ phase'[q2] = phase[q2]
    BY <1>1
  <2>. DEFINE y == form[q2].row
  <2>2. /\ y \in Rows /\ y \in Managed
        /\ 0 < form[q2].version /\ form[q2].version <= rowVersion[y]
        /\ form[q2].version = rowVersion[y] => IsOpen(y) = form[q2].open
    BY <2>1 DEF EditsInv, FormsQuoteRows
  <2>3. form[q2].version \in Nat /\ rowVersion[y] \in Nat
    BY <2>2
  <2>. QED
    BY <2>1, <2>2, <2>3, CommitEffect
<1>5. EditsHoldLocks'
  BY <1>1 DEF EditsInv, EditsHoldLocks, FormsQuoteRows, Rows
<1>6. ChecksStand'
  <2>. SUFFICES ASSUME NEW q2 \in Edits, phase'[q2] = "ready"
                PROVE  LET y == form'[q2].row IN
                       /\ form'[q2].version = rowVersion'[y]
                       /\ y \in Sites /\ form'[q2].effect = "open"
                            => \E p \in Points : SiteOf[p] = y /\ pointOpen'[p]
                       /\ y \in Points /\ form'[q2].effect = "close" => ~ charging'[y]
    BY DEF ChecksStand
  <2>1. q2 # q /\ form'[q2] = form[q2] /\ phase[q2] = "ready"
    BY <1>1
  <2>. DEFINE y == form[q2].row
  <2>2. /\ y \in Rows
        /\ lockedBy[y] = q2 /\ (y \in Points => lockedBy[SiteOf[y]] = q2)
        /\ form[q2].version = rowVersion[y]
        /\ y \in Sites /\ form[q2].effect = "open" => \E p \in Points : SiteOf[p] = y /\ pointOpen[p]
        /\ y \in Points /\ form[q2].effect = "close" => ~ charging[y]
    BY <2>1 DEF EditsInv, FormsQuoteRows, EditsHoldLocks, ChecksStand
  <2>3. x # y
    BY <1>2, <2>1, <2>2
  <2>4. rowVersion'[y] = rowVersion[y]
    BY <2>2, <2>3, CommitEffect
  <2>5. ASSUME NEW p \in Points, SiteOf[p] = y
        PROVE  pointOpen'[p] = pointOpen[p]
    BY <1>2, <2>1, <2>2, <2>5 DEF CommitEdit
  <2>. QED
    BY <1>1, <2>1, <2>2, <2>4, <2>5
<1>. QED
  BY <1>3, <1>4, <1>5, <1>6 DEF EditsInv

LEMMA FinishKeepsInv ==
    ASSUME TypeOK, EditsInv, NEW q \in Edits, Finish(q)
    PROVE  EditsInv'
BY DEF TypeOK, EditsTypeOK, EditsInv, CreatedTogether, FormsQuoteRows, EditsHoldLocks, ChecksStand,
   stationVars, IsOpen, Finish, Reach

LEMMA EditsInvariant == Spec => []EditsInv
<1>1. Init => EditsInv
  <2>. SUFFICES ASSUME Init
                PROVE  EditsInv
    OBVIOUS
  <2>1. CreatedTogether
    BY SiteAssumption, EditAssumption DEF Init, EditsInit, CreatedTogether, Rows, StationOf
  <2>2. \A q \in Edits : phase[q] = "idle"
    BY DEF Init, EditsInit
  <2>. QED
    BY <2>1, <2>2 DEF EditsInv, FormsQuoteRows, EditsHoldLocks, ChecksStand
<1>2. TypeOK /\ EditsInv /\ [Next]_vars => EditsInv'
  <2>. SUFFICES ASSUME TypeOK, EditsInv, [Next]_vars
                PROVE  EditsInv'
    OBVIOUS
  <2>1. CASE EditStep
    BY <2>1, FormSteps, LockSteps, ChargingSteps, CommitKeepsInv DEF EditStep
  <2>2. CASE \E q \in Edits : Invalidate(q) \/ InvalidationFails(q)
    BY <2>2, FinishKeepsInv DEF Invalidate, InvalidationFails
  <2>3. ASSUME UNCHANGED <<stationVars, editVars>>
        PROVE  EditsInv'
    BY <2>3 DEF TypeOK, EditsTypeOK, EditsInv, CreatedTogether, FormsQuoteRows, EditsHoldLocks,
       ChecksStand, stationVars, editVars, IsOpen
  <2>4. ASSUME NEW r \in Searches, SearchStep(r)
        PROVE  UNCHANGED <<stationVars, editVars>>
    BY <2>4 DEF SearchStep, ReadVersion, Hit, Miss, ReadFails, QueryStations, LoadPoints, ReadRows,
       Store, StoreFails
  <2>5. ASSUME NEW e \in entries, Expire(e)
        PROVE  UNCHANGED <<stationVars, editVars>>
    BY <2>5 DEF Expire
  <2>6. CASE RestartRedis
    BY <2>3, <2>6 DEF RestartRedis
  <2>7. CASE UNCHANGED vars
    BY <2>3, <2>7 DEF vars
  <2>. QED
    BY <2>1, <2>2, <2>3, <2>4, <2>5, <2>6, <2>7 DEF Next
<1>. QED
  BY <1>1, <1>2, SearchTypesCorrect, PTL DEF Spec

\* Every edit is applied to the row that its operator saw: the version in the
\* form is the row's while it is locked, and a version has one content.
THEOREM EditsAreNotLost == Spec => NoEditIsLost
<1>1. TypeOK /\ EditsInv /\ [Next]_vars =>
        [\A q \in Edits : phase[q] = "ready" /\ phase'[q] = "committed"
                            => IsOpen(form[q].row) = form[q].open]_editVars
  BY DEF EditsInv, FormsQuoteRows, ChecksStand
<1>. QED
  BY <1>1, SearchTypesCorrect, EditsInvariant, PTL DEF Spec, NoEditIsLost

\* StationEdits implements Stations: however locks interleave, a commit is one
\* abstract edit, and nothing else changes what is open.
THEOREM EditsTakeOneStep == Spec => EditsAreAtomic
<1>1. Init => StationsInit
  BY DEF Init, EditsInit
<1>2. TypeOK /\ EditsInv /\ [Next]_vars =>
        [\/ \E s \in Sites, open \in BOOLEAN : UpdateStation(s, open)
         \/ \E p \in Points, open \in BOOLEAN : UpdateChargePoint(p, open, charging[p])]_stationVars
  <2>. SUFFICES ASSUME TypeOK, EditsInv, [Next]_vars, stationVars' # stationVars
                PROVE  \/ \E s \in Sites, open \in BOOLEAN : UpdateStation(s, open)
                       \/ \E p \in Points, open \in BOOLEAN : UpdateChargePoint(p, open, charging[p])
    OBVIOUS
  <2>1. PICK q \in Edits : CommitEdit(q)
    BY DEF Next, vars, EditStep, CreateStation, FillIn, PrepareStation, LockStation, PreparePoint,
       RollBackEdit, StartCharging, EndCharging, Invalidate, InvalidationFails, Finish, SearchStep,
       ReadVersion, Hit, Miss, ReadFails, QueryStations, LoadPoints, ReadRows, Store, StoreFails,
       Expire, RestartRedis
  <2>. DEFINE x == form[q].row
  <2>2. /\ x \in Rows /\ x \in Managed
        /\ x \in Sites /\ form[q].effect = "open" => \E p \in Points : SiteOf[p] = x /\ pointOpen[p]
        /\ x \in Points /\ form[q].effect = "close" => ~ charging[x]
    BY <2>1 DEF CommitEdit, EditsInv, FormsQuoteRows, ChecksStand
  <2>3. /\ stationOpen' = [s \in Sites |-> IF s = x THEN Wanted(q) ELSE stationOpen[s]]
        /\ pointOpen' = [p \in Points |-> IF p = x THEN Wanted(q) ELSE pointOpen[p]]
    BY <2>1 DEF CommitEdit
  <2>4. form[q].effect # "keep"
    <3>1. SUFFICES ASSUME form[q].effect = "keep"
                   PROVE  FALSE
      OBVIOUS
    <3>2. Wanted(q) = IsOpen(x)
      BY <3>1 DEF Wanted
    <3>3. stationOpen' = stationOpen
      BY <2>3, <3>2 DEF IsOpen, TypeOK, EditsTypeOK, StationsTypeOK
    <3>4. pointOpen' = pointOpen
      BY <2>3, <3>2, EditAssumption DEF IsOpen, TypeOK, EditsTypeOK, StationsTypeOK
    <3>. QED
      BY <3>3, <3>4 DEF stationVars
  <2>5. Wanted(q) = (form[q].effect = "open") /\ form[q].effect \in Effect
    BY <2>4 DEF Wanted, TypeOK, EditsTypeOK
  <2>6. CASE x \in Sites
    <3>1. UpdateStation(x, Wanted(q))
      <4>1. stationOpen' = [stationOpen EXCEPT ![x] = Wanted(q)]
        BY <2>3 DEF TypeOK, EditsTypeOK, StationsTypeOK
      <4>2. pointOpen' = pointOpen
        BY <2>3, <2>6, EditAssumption DEF TypeOK, EditsTypeOK, StationsTypeOK
      <4>. QED
        BY <2>2, <2>5, <2>6, <4>1, <4>2 DEF UpdateStation
    <3>. QED
      BY <2>5, <2>6, <3>1
  <2>7. CASE x \in Points
    <3>1. UpdateChargePoint(x, Wanted(q), charging[x])
      BY <2>2, <2>3, <2>4, <2>5, <2>7, EditAssumption
         DEF UpdateChargePoint, Effect, TypeOK, EditsTypeOK, StationsTypeOK
    <3>. QED
      BY <2>5, <2>7, <3>1
  <2>. QED
    BY <2>2, <2>6, <2>7 DEF Rows
<1>. QED
  BY <1>1, <1>2, SearchTypesCorrect, EditsInvariant, PTL DEF Spec, EditsAreAtomic

-----------------------------------------------------------------------------
(* Searches *)

\* Two searches with one key began at the same announcement.
KeysAreCurrent ==
    \A r \in Searches : key[r] # NoKey =>
        /\ key[r] <= cacheVersion
        /\ key[r] = cacheVersion => floor[r] = published
        /\ \A r2 \in Searches : key[r2] = key[r] => floor[r2] = floor[r]

\* An entry is as recent as what had been announced at its version.
EntriesAreCurrent ==
    \A e \in entries :
        /\ e.version <= cacheVersion
        /\ e.version = cacheVersion => NotOlder(e.edition, published)
        /\ \A r \in Searches : key[r] = e.version => NotOlder(e.edition, floor[r])

\* What a search has read is as recent as what had been announced before.
RowsAreCurrent ==
    \A r \in Searches :
        /\ \A s \in Sites : step[r] \in {"stations_read", "loaded", "answered"} => floor[r][s] <= found[r][s]
        /\ \A p \in Points : step[r] \in {"loaded", "answered"} => floor[r][p] <= found[r][p]

\* What was announced is in the database, and so is what searches found.
PastEditions ==
    /\ NotOlder(rowVersion, published)
    /\ \A r \in Searches : NotOlder(rowVersion, floor[r])

SearchParts == KeysAreCurrent /\ EntriesAreCurrent /\ RowsAreCurrent /\ PastEditions

\* Versions of rows never fall.
LEMMA VersionsGrow ==
    ASSUME TypeOK, EditsInv, EditStep
    PROVE  NotOlder(rowVersion', rowVersion)
<1>. USE DEF TypeOK, EditsTypeOK, NotOlder
<1>1. ASSUME NEW q \in Edits, NEW s \in Sites, CreateStation(q, s)
      PROVE  NotOlder(rowVersion', rowVersion)
  <2>1. \A x \in Rows : rowVersion'[x] = IF StationOf(x) = s THEN 1 ELSE rowVersion[x]
    BY <1>1 DEF CreateStation
  <2>2. \A x \in Rows : StationOf(x) = s => rowVersion[x] = 0
    BY <1>1 DEF CreateStation, EditsInv, CreatedTogether
  <2>. QED
    BY <2>1, <2>2
<1>2. ASSUME NEW q \in Edits, CommitEdit(q)
      PROVE  NotOlder(rowVersion', rowVersion)
  BY <1>2, CommitEffect
<1>3. ASSUME rowVersion' = rowVersion
      PROVE  NotOlder(rowVersion', rowVersion)
  BY <1>3
<1>. HIDE DEF TypeOK, NotOlder
<1>. QED
  BY <1>1, <1>2, <1>3 DEF EditStep, FillIn, PrepareStation, LockStation, PreparePoint, RollBackEdit,
     StartCharging, EndCharging

LEMMA EditsKeepSearches ==
    ASSUME TypeOK, EditsInv, SearchParts, EditStep, UNCHANGED <<cacheVars, searchVars>>
    PROVE  SearchParts'
<1>1. NotOlder(rowVersion', rowVersion)
  BY VersionsGrow
<1>2. rowVersion \in [Rows -> Nat] /\ rowVersion' \in [Rows -> Nat]
  BY EditTypes DEF TypeOK, EditsTypeOK
<1>3. PastEditions'
  BY <1>1, <1>2 DEF SearchParts, PastEditions, NotOlder, TypeOK, Edition, cacheVars, searchVars
<1>4. KeysAreCurrent' /\ EntriesAreCurrent' /\ RowsAreCurrent'
  BY DEF SearchParts, KeysAreCurrent, EntriesAreCurrent, RowsAreCurrent, NotOlder, cacheVars, searchVars
<1>. QED
  BY <1>3, <1>4 DEF SearchParts

LEMMA InvalidationKeepsSearches ==
    ASSUME TypeOK, SearchParts, NEW q \in Edits, Invalidate(q)
    PROVE  SearchParts'
<1>1. /\ cacheVersion' = cacheVersion + 1 /\ published' = rowVersion
      /\ UNCHANGED <<searchVars, entries, rowVersion>>
  BY DEF Invalidate, Finish
<1>2. KeysAreCurrent'
  BY <1>1, KeyAssumption DEF SearchParts, KeysAreCurrent, searchVars, TypeOK
<1>3. EntriesAreCurrent'
  <2>. SUFFICES ASSUME NEW e \in entries
                PROVE  /\ e.version <= cacheVersion'
                       /\ e.version = cacheVersion' => NotOlder(e.edition, published')
                       /\ \A r \in Searches : key[r] = e.version => NotOlder(e.edition, floor[r])
    BY <1>1 DEF EntriesAreCurrent, NotOlder, searchVars
  <2>1. e.version \in Nat /\ cacheVersion \in Nat /\ e.version <= cacheVersion
    BY DEF TypeOK, SearchParts, EntriesAreCurrent
  <2>. QED
    BY <1>1, <2>1 DEF SearchParts, EntriesAreCurrent
<1>4. RowsAreCurrent'
  BY <1>1 DEF SearchParts, RowsAreCurrent, searchVars
<1>5. PastEditions'
  BY <1>1 DEF SearchParts, PastEditions, NotOlder, searchVars, TypeOK, EditsTypeOK
<1>. QED
  BY <1>2, <1>3, <1>4, <1>5 DEF SearchParts

LEMMA SearchesKeepSearches ==
    ASSUME TypeOK, SearchParts, NEW r \in Searches, SearchStep(r)
    PROVE  SearchParts'
<1>. USE KeyAssumption DEF TypeOK, SearchParts, KeysAreCurrent, EntriesAreCurrent, RowsAreCurrent,
        PastEditions, Proceed
<1>0. UNCHANGED <<cacheVersion, published, rowVersion>>
  BY DEF SearchStep, ReadVersion, Hit, Miss, ReadFails, QueryStations, LoadPoints, ReadRows, Store,
     StoreFails, editVars, cacheVars
<1>1. CASE ReadVersion(r)
  <2>1. /\ \A r2 \in Searches : key'[r2] = IF r2 = r THEN cacheVersion ELSE key[r2]
        /\ \A r2 \in Searches : floor'[r2] = IF r2 = r THEN published ELSE floor[r2]
        /\ \A r2 \in Searches : step'[r2] = IF r2 = r THEN "keyed" ELSE step[r2]
        /\ found' = found /\ entries' = entries
    BY <1>1 DEF ReadVersion, cacheVars
  <2>2. KeysAreCurrent' /\ RowsAreCurrent'
    BY <1>0, <2>1
  <2>3. EntriesAreCurrent' /\ PastEditions'
    BY <1>0, <2>1 DEF NotOlder
  <2>. QED
    BY <2>2, <2>3
<1>2. CASE Hit(r)
  <2>1. PICK e \in entries : e.version = key[r] /\ found' = [found EXCEPT ![r] = e.edition]
    BY <1>2 DEF Hit
  <2>2. /\ NotOlder(e.edition, floor[r])
        /\ floor' = floor /\ entries' = entries
        /\ key' = [key EXCEPT ![r] = NoKey]
        /\ step' = [step EXCEPT ![r] = "answered"]
    BY <1>2, <2>1 DEF Hit, cacheVars
  <2>3. RowsAreCurrent'
    BY <2>1, <2>2 DEF NotOlder, Rows
  <2>4. KeysAreCurrent'
    BY <1>0, <2>2
  <2>5. EntriesAreCurrent' /\ PastEditions'
    BY <1>0, <2>2 DEF NotOlder
  <2>. QED
    BY <2>3, <2>4, <2>5
<1>3. CASE Miss(r) \/ ReadFails(r)
  <2>1. /\ floor' = floor /\ entries' = entries /\ found' = found
        /\ key' = key \/ key' = [key EXCEPT ![r] = NoKey]
        /\ step' = [step EXCEPT ![r] = "missed"]
    BY <1>3 DEF Miss, ReadFails, cacheVars
  <2>2. KeysAreCurrent'
    BY <1>0, <2>1
  <2>3. RowsAreCurrent'
    BY <2>1
  <2>4. EntriesAreCurrent' /\ PastEditions'
    BY <1>0, <2>1 DEF NotOlder
  <2>. QED
    BY <2>2, <2>3, <2>4
<1>4. CASE QueryStations(r)
  <2>1. /\ floor' = floor /\ entries' = entries /\ key' = key
        /\ step' = [step EXCEPT ![r] = "stations_read"]
        /\ \A r2 \in Searches : r2 # r => found'[r2] = found[r2]
        /\ \A x \in Rows : found'[r][x] = IF x \in Sites THEN rowVersion[x] ELSE found[r][x]
    BY <1>4 DEF QueryStations, ReadRows, cacheVars
  <2>2. RowsAreCurrent'
    BY <2>1 DEF NotOlder, Rows
  <2>3. KeysAreCurrent'
    BY <1>0, <2>1
  <2>4. EntriesAreCurrent' /\ PastEditions'
    BY <1>0, <2>1 DEF NotOlder
  <2>. QED
    BY <2>2, <2>3, <2>4
<1>5. CASE LoadPoints(r)
  <2>1. /\ floor' = floor /\ entries' = entries /\ key' = key
        /\ step[r] = "stations_read" /\ step' = [step EXCEPT ![r] = "loaded"]
        /\ \A r2 \in Searches : r2 # r => found'[r2] = found[r2]
        /\ \A x \in Rows : found'[r][x] = IF x \in Points THEN rowVersion[x] ELSE found[r][x]
    BY <1>5 DEF LoadPoints, ReadRows, cacheVars
  <2>2. RowsAreCurrent'
    BY <2>1, EditAssumption DEF NotOlder, Rows
  <2>3. KeysAreCurrent'
    BY <1>0, <2>1
  <2>4. EntriesAreCurrent' /\ PastEditions'
    BY <1>0, <2>1 DEF NotOlder
  <2>. QED
    BY <2>2, <2>3, <2>4
<1>6. CASE Store(r) \/ StoreFails(r)
  <2>1. /\ floor' = floor /\ found' = found
        /\ key' = [key EXCEPT ![r] = NoKey]
        /\ step[r] = "loaded" /\ step' = [step EXCEPT ![r] = "answered"]
    BY <1>6 DEF Store, StoreFails, cacheVars
  <2>2. KeysAreCurrent' /\ PastEditions'
    BY <1>0, <2>1 DEF NotOlder
  <2>3. RowsAreCurrent'
    BY <2>1
  <2>4. NotOlder(found[r], floor[r])
    BY <2>1 DEF NotOlder, Rows
  <2>5. ASSUME NEW e \in entries'
        PROVE  e \in entries \/ (key[r] # NoKey /\ e = [version |-> key[r], edition |-> found[r]])
    BY <1>6, <2>5 DEF Store, StoreFails, HasKey, StorageKey, cacheVars
  <2>6. EntriesAreCurrent'
    <3>. SUFFICES ASSUME NEW e \in entries'
                  PROVE  /\ e.version <= cacheVersion
                         /\ e.version = cacheVersion => NotOlder(e.edition, published)
                         /\ \A r2 \in Searches : key'[r2] = e.version => NotOlder(e.edition, floor[r2])
      BY <1>0, <2>1 DEF NotOlder
    <3>1. CASE e \in entries
      BY <2>1, <3>1
    <3>2. CASE key[r] # NoKey /\ e = [version |-> key[r], edition |-> found[r]]
      BY <2>1, <2>4, <3>2
    <3>. QED
      BY <2>5, <3>1, <3>2
  <2>. QED
    BY <2>2, <2>3, <2>6
<1>. HIDE DEF SearchParts
<1>. QED
  BY <1>1, <1>2, <1>3, <1>4, <1>5, <1>6 DEF SearchStep

LEMMA SearchesInvariant == Spec => [](restarted \/ SearchParts)
<1>1. Init => SearchParts
  BY KeyAssumption DEF Init, EditsInit, SearchParts, KeysAreCurrent, EntriesAreCurrent, RowsAreCurrent,
     PastEditions, NotOlder
<1>2. TypeOK /\ EditsInv /\ (restarted \/ SearchParts) /\ [Next]_vars => (restarted \/ SearchParts)'
  <2>. SUFFICES ASSUME TypeOK, EditsInv, restarted \/ SearchParts, [Next]_vars, ~ restarted'
                PROVE  SearchParts'
    OBVIOUS
  <2>0. ~ restarted /\ ~ RestartRedis
    BY DEF RestartRedis, Next, vars, cacheVars, Invalidate, InvalidationFails, Finish, SearchStep,
       ReadVersion, Hit, Miss, ReadFails, QueryStations, LoadPoints, ReadRows, Store, StoreFails, Expire
  <2>1. SearchParts
    BY <2>0
  <2>2. ASSUME NEW q \in Edits, InvalidationFails(q)
        PROVE  SearchParts'
    BY <2>1, <2>2 DEF InvalidationFails, Finish, searchVars, SearchParts, KeysAreCurrent,
       EntriesAreCurrent, RowsAreCurrent, PastEditions, NotOlder
  <2>3. ASSUME NEW e \in entries, Expire(e)
        PROVE  SearchParts'
    BY <2>1, <2>3 DEF Expire, editVars, searchVars, SearchParts, KeysAreCurrent,
       EntriesAreCurrent, RowsAreCurrent, PastEditions, NotOlder
  <2>4. CASE UNCHANGED vars
    BY <2>1, <2>4 DEF vars, editVars, cacheVars, searchVars, SearchParts, KeysAreCurrent,
       EntriesAreCurrent, RowsAreCurrent, PastEditions, NotOlder
  <2>. QED
    BY <2>0, <2>1, <2>2, <2>3, <2>4, EditsKeepSearches, InvalidationKeepsSearches,
       SearchesKeepSearches DEF Next
<1>. QED
  BY <1>1, <1>2, SearchTypesCorrect, EditsInvariant, PTL DEF Spec

\* No search is answered with rows older than what had been announced when it
\* began, by whatever path the answer came, while Redis keeps its memory.
THEOREM PublishedEditsAreSeen == Spec => []SearchesSeePublishedEdits
<1>1. restarted \/ SearchParts => SearchesSeePublishedEdits
  BY DEF SearchParts, RowsAreCurrent, SearchesSeePublishedEdits, NotOlder, Rows
<1>. QED
  BY <1>1, SearchesInvariant, PTL

=============================================================================
