-------------------------- MODULE ChargingSessions --------------------------
(***************************************************************************)
(* Charging sessions: a confirmed booking turned into use of its charge    *)
(* point (charging_sessions/service.py, models/charging_session.py).       *)
(*                                                                         *)
(* A session is named by its booking, which is unique.  Starting locks the *)
(* booking and then the charge point, so it is one step.  The version of a *)
(* session is 1 while it is active and 2 once completed.  Requests of an   *)
(* operator who does not control the station, and a final meter reading    *)
(* below the first one, are refused without a change; nothing sets the     *)
(* declared status INTERRUPTED.                                            *)
(***************************************************************************)
EXTENDS BookingHolds

CONSTANT EarlyStart     \* EARLY_START_MINUTES

ASSUME SessionAssumption == EarlyStart \in Nat

VARIABLE sessionStatus

SessionStatus == {"absent", "active", "completed"}

SessionsTypeOK == sessionStatus \in [Bookings -> SessionStatus]

SessionsInit == sessionStatus = [b \in Bookings |-> "absent"]

\* Fault: a session is taken to end with its slot.
InUseUntilSlotEnds(p) ==
    \E b \in Bookings : PointOf[b] = p /\ sessionStatus[b] = "active" /\ now < EndsAt[b]

\* Some session holds charge point p: the ACTIVE session query of
\* start_charging_session, and stations/service.py's _has_active_charging_session.
InUse(p) == \E b \in Bookings : PointOf[b] = p /\ sessionStatus[b] = "active"

\* _inside_start_window
InsideStartWindow(b, t) == StartsAt[b] <= t + EarlyStart /\ t < EndsAt[b]

\* start_charging_session.  The status of the charge point is not consulted.
StartSession(b, v, t) ==
    /\ bookingStatus[b] = "confirmed"
    /\ bookingVersion[b] = v
    /\ InsideStartWindow(b, t)
    /\ ~ InUse(PointOf[b])
    /\ sessionStatus[b] = "absent"
    /\ sessionStatus' = [sessionStatus EXCEPT ![b] = "active"]
    /\ SetBooking(b, "active")
    /\ UNCHANGED now

\* complete_charging_session
CompleteSession(b) ==
    /\ sessionStatus[b] = "active"
    /\ bookingStatus[b] = "active"
    /\ sessionStatus' = [sessionStatus EXCEPT ![b] = "completed"]
    /\ SetBooking(b, "completed")
    /\ UNCHANGED now

=============================================================================
