---------------------------- MODULE StationEdits ----------------------------
(***************************************************************************)
(* How operators create and edit the rows of the catalogue                 *)
(* (stations/service.py), at the grain of row locks.  The module Stations  *)
(* takes an edit for one step; here it locks its rows one after the other, *)
(* decides on what it reads, and commits later.                            *)
(*                                                                         *)
(* An edit is a form that an operator filled in from the row as it was     *)
(* (GET /stations/mine, or the answer to the last edit), together with the *)
(* version it had.  Of a form only its effect on stationOpen and pointOpen *)
(* matters; "keep" stands for an edit of names, prices and the like.  What *)
(* a transaction reads once it has its last lock is read in the same step. *)
(* A refusal changes nothing and is not a step.                            *)
(***************************************************************************)
EXTENDS Naturals, Stations

CONSTANTS
    Edits,      \* requests to create or edit, each served once
    Nobody,     \* holds no lock
    NoRow       \* the row of a form that is not filled in

ASSUME EditAssumption ==
    /\ Nobody \notin Edits
    /\ Sites \intersect Points = {}
    /\ NoRow \notin Sites \union Points

VARIABLES
    rowVersion,     \* version of a station or point, 0 until the row exists
    charging,       \* the points with an ACTIVE charging session
    lockedBy,       \* who has selected a row FOR UPDATE
    phase,          \* how far an edit has come
    form            \* its row, what it makes of it, the version in it, and
                    \* what its operator saw of the row

editVars == <<rowVersion, charging, lockedBy, phase, form>>

Rows == Sites \union Points
Effect == {"keep", "open", "close"}
StationOf(x) == IF x \in Sites THEN x ELSE SiteOf[x]

EditsTypeOK ==
    /\ StationsTypeOK
    /\ rowVersion \in [Rows -> Nat]
    /\ charging \in [Points -> BOOLEAN]
    /\ lockedBy \in [Rows -> Edits \union {Nobody}]
    /\ phase \in [Edits -> {"idle", "viewed", "at_station", "ready", "committed", "done"}]
    /\ form \in [Edits -> [row : Rows \union {NoRow}, effect : Effect, version : Nat, open : BOOLEAN]]

Blank == [row |-> NoRow, effect |-> "keep", version |-> 0, open |-> FALSE]

\* A station may exist already, as an operator left it, or be created later: as
\* a draft, while pointOpen of its points holds what the creation will ask for.
EditsInit ==
    /\ StationsInit
    /\ \E created \in SUBSET Sites :
         /\ \A s \in Sites : stationOpen[s] => s \in created
         /\ rowVersion = [x \in Rows |-> IF StationOf(x) \in created THEN 1 ELSE 0]
    /\ charging = [p \in Points |-> FALSE]
    /\ lockedBy = [x \in Rows |-> Nobody]
    /\ phase = [q \in Edits |-> "idle"]
    /\ form = [q \in Edits |-> Blank]

IsOpen(x) == IF x \in Sites THEN stationOpen[x] ELSE pointOpen[x]
Free(x) == lockedBy[x] = Nobody
Wanted(q) ==
    IF form[q].effect = "keep" THEN IsOpen(form[q].row) ELSE form[q].effect = "open"

Reach(q, where) == phase' = [phase EXCEPT ![q] = where]
Leave(q, where) == Reach(q, where) /\ form' = [form EXCEPT ![q] = Blank]
Unlock(q) == lockedBy' = [x \in Rows |-> IF lockedBy[x] = q THEN Nobody ELSE lockedBy[x]]

-----------------------------------------------------------------------------

\* create_station: the station and its points, in one commit.
CreateStation(q, s) ==
    /\ phase[q] = "idle"
    /\ rowVersion[s] = 0
    /\ rowVersion' = [x \in Rows |-> IF StationOf(x) = s THEN 1 ELSE rowVersion[x]]
    /\ Reach(q, "committed")
    /\ UNCHANGED <<stationVars, charging, lockedBy, form>>

\* The operator opens the form of row x and makes up his mind.
FillIn(q, x, effect) ==
    /\ phase[q] = "idle"
    /\ x \in Managed
    /\ rowVersion[x] > 0
    /\ form' = [form EXCEPT ![q] = [row |-> x, effect |-> effect,
                                   version |-> rowVersion[x], open |-> IsOpen(x)]]
    /\ Reach(q, "viewed")
    /\ UNCHANGED <<stationVars, rowVersion, charging, lockedBy>>

\* update_station up to its commit: the row is locked, then the version and, for
\* an activation, the charge points are looked at.
PrepareStation(q, s) ==
    /\ phase[q] = "viewed"
    /\ form[q].row = s
    /\ Free(s)
    /\ form[q].version = rowVersion[s]
    /\ form[q].effect = "open" => \E p \in Points : SiteOf[p] = s /\ pointOpen[p]
    /\ lockedBy' = [lockedBy EXCEPT ![s] = q]
    /\ Reach(q, "ready")
    /\ UNCHANGED <<stationVars, rowVersion, charging, form>>

\* Fault: an edit of a point leaves its station unlocked.
SkipStation(q, p) ==
    /\ phase[q] = "viewed"
    /\ form[q].row = p
    /\ Reach(q, "at_station")
    /\ UNCHANGED <<stationVars, rowVersion, charging, lockedBy, form>>

\* update_charge_point locks the station of its point ...
LockStation(q, p) ==
    /\ phase[q] = "viewed"
    /\ form[q].row = p
    /\ Free(SiteOf[p])
    /\ lockedBy' = [lockedBy EXCEPT ![SiteOf[p]] = q]
    /\ Reach(q, "at_station")
    /\ UNCHANGED <<stationVars, rowVersion, charging, form>>

\* ... then the point, and looks at its version and its charging sessions.
PreparePoint(q, p) ==
    /\ phase[q] = "at_station"
    /\ form[q].row = p
    /\ Free(p)
    /\ form[q].version = rowVersion[p]
    /\ form[q].effect = "close" => ~ charging[p]
    /\ lockedBy' = [lockedBy EXCEPT ![p] = q]
    /\ Reach(q, "ready")
    /\ UNCHANGED <<stationVars, rowVersion, charging, form>>

\* Fault: an edit of a point forgets to advance its version.
CommitQuietly(q) ==
    LET x == form[q].row IN
    /\ phase[q] = "ready"
    /\ stationOpen' = [s \in Sites |-> IF s = x THEN Wanted(q) ELSE stationOpen[s]]
    /\ pointOpen' = [p \in Points |-> IF p = x THEN Wanted(q) ELSE pointOpen[p]]
    /\ rowVersion' = [rowVersion EXCEPT ![x] = IF x \in Sites THEN @ + 1 ELSE @]
    /\ Unlock(q)
    /\ Leave(q, "committed")
    /\ UNCHANGED charging

\* The changes of the form, version += 1, commit.
CommitEdit(q) ==
    LET x == form[q].row IN
    /\ phase[q] = "ready"
    /\ stationOpen' = [s \in Sites |-> IF s = x THEN Wanted(q) ELSE stationOpen[s]]
    /\ pointOpen' = [p \in Points |-> IF p = x THEN Wanted(q) ELSE pointOpen[p]]
    /\ rowVersion' = [rowVersion EXCEPT ![x] = @ + 1]
    /\ Unlock(q)
    /\ Leave(q, "committed")
    /\ UNCHANGED charging

\* The transaction is refused late, fails, or its process dies.
RollBackEdit(q) ==
    /\ phase[q] \in {"at_station", "ready"}
    /\ Unlock(q)
    /\ Leave(q, "done")
    /\ UNCHANGED <<stationVars, rowVersion, charging>>

-----------------------------------------------------------------------------
(* Charging sessions lock the point they use.                              *)

StartCharging(p) ==
    /\ rowVersion[p] > 0
    /\ Free(p)
    /\ ~ charging[p]
    /\ charging' = [charging EXCEPT ![p] = TRUE]
    /\ UNCHANGED <<stationVars, rowVersion, lockedBy, phase, form>>

EndCharging(p) ==
    /\ charging[p]
    /\ Free(p)
    /\ charging' = [charging EXCEPT ![p] = FALSE]
    /\ UNCHANGED <<stationVars, rowVersion, lockedBy, phase, form>>

EditStep ==
    \/ \E q \in Edits, s \in Sites : CreateStation(q, s) \/ PrepareStation(q, s)
    \/ \E q \in Edits, x \in Rows, effect \in Effect : FillIn(q, x, effect)
    \/ \E q \in Edits, p \in Points : LockStation(q, p) \/ PreparePoint(q, p)
    \/ \E q \in Edits : CommitEdit(q) \/ RollBackEdit(q)
    \/ \E p \in Points : StartCharging(p) \/ EndCharging(p)

-----------------------------------------------------------------------------
(* What must hold of edits. *)

\* However the locks of edits and sessions interleave, an edit takes effect as
\* the one step that Stations describes: a station becomes active only while
\* one of its points can be booked, and no point closes under a charging car.
\* (update_station against update_charge_point and start_charging_session)
EditsAreAtomic ==
    /\ StationsInit
    /\ [][\/ \E s \in Sites, open \in BOOLEAN : UpdateStation(s, open)
          \/ \E p \in Points, open \in BOOLEAN : UpdateChargePoint(p, open, charging[p])
         ]_stationVars

\* An edit is applied to the row that its operator saw, not over the edit of
\* another one.  (station.version, charge_point.version)
NoEditIsLost ==
    [][\A q \in Edits :
         phase[q] = "ready" /\ phase'[q] = "committed" => IsOpen(form[q].row) = form[q].open]_editVars

=============================================================================
