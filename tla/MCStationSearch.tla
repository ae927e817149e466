--------------------------- MODULE MCStationSearch ---------------------------
(* Instance of StationSearch for TLC: one station with one charge point. *)
EXTENDS StationSearch, TLC

CONSTANTS s1, p1

MCSiteOf == p1 :> s1
=============================================================================
