------------------------------ MODULE Stations ------------------------------
(***************************************************************************)
(* The station catalogue, as far as bookings and charging sessions depend  *)
(* on it (stations/service.py, models/station.py, models/charge_point.py). *)
(*                                                                         *)
(* A charge point is OPEN when it is bookable and its status is AVAILABLE; *)
(* the other statuses (out of service, maintenance, retired) are treated   *)
(* alike by every condition in the code.  A station is OPEN when its       *)
(* status is ACTIVE.  Rows are edited under FOR UPDATE locks taken station *)
(* first, so one edit is one step.  An edit that quotes a stale version,   *)
(* or comes from an operator who does not own the station, changes nothing *)
(* and is not a step.                                                      *)
(***************************************************************************)

CONSTANTS
    Sites,      \* charging stations
    Points,     \* charge points
    SiteOf,     \* the station of each charge point
    Managed     \* bound: the stations and points that operators edit

ASSUME SiteAssumption == SiteOf \in [Points -> Sites]

VARIABLES
    stationOpen,    \* station.status = ACTIVE
    pointOpen       \* charge_point.is_bookable and status = AVAILABLE

stationVars == <<stationOpen, pointOpen>>

StationsTypeOK ==
    /\ stationOpen \in [Sites -> BOOLEAN]
    /\ pointOpen \in [Points -> BOOLEAN]

\* Operators have set the catalogue up, and may have left it in any state.
StationsInit ==
    /\ stationOpen \in [Sites -> BOOLEAN]
    /\ pointOpen \in [Points -> BOOLEAN]

\* _charge_point_accepts_bookings
AcceptsBookings(p) == pointOpen[p] /\ stationOpen[SiteOf[p]]

\* update_station: activation needs a charge point that can be booked.
UpdateStation(s, open) ==
    /\ s \in Managed
    /\ open => \E p \in Points : SiteOf[p] = s /\ pointOpen[p]
    /\ stationOpen' = [stationOpen EXCEPT ![s] = open]
    /\ UNCHANGED pointOpen

\* update_charge_point: a point with an active charging session stays open.
UpdateChargePoint(p, open, charging) ==
    /\ p \in Managed
    /\ ~ open => ~ charging
    /\ pointOpen' = [pointOpen EXCEPT ![p] = open]
    /\ UNCHANGED stationOpen

=============================================================================
