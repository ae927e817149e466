---------------------------- MODULE BookingHolds ----------------------------
(***************************************************************************)
(* Bookings and the holds that reserve a slot while the customer pays      *)
(* (bookings/service.py, models/booking.py, and the expiry job of          *)
(* maintenance/service.py).                                                *)
(*                                                                         *)
(* A member of Bookings stands for one request for a hold: its charge      *)
(* point and interval never change, and the row exists once its status is  *)
(* no longer "absent".  create_booking_hold locks the charge point before  *)
(* it looks for overlapping rows and inserts its own, so holds of one      *)
(* point are created one at a time and a hold is one step.                 *)
(*                                                                         *)
(* Every handler reads the clock once, at its top, and may then wait for a *)
(* row lock: it acts on a moment t that may lie up to MaxLag in the past.  *)
(***************************************************************************)
EXTENDS Naturals, FiniteSets, Stations

CONSTANTS
    Users, Bookings,
    OwnerOf,        \* booking.user_id
    PointOf,        \* booking.charge_point_id
    StartsAt, EndsAt,
    HoldMinutes,    \* BOOKING_HOLD_MINUTES
    HoldBatch,      \* batch_size of the expiry job
    MaxLag,         \* how old a handler's reading of the clock may be
    MaxTime         \* bound: the last moment the clock shows

ASSUME BookingAssumption ==
    /\ OwnerOf \in [Bookings -> Users]
    /\ PointOf \in [Bookings -> Points]
    /\ StartsAt \in [Bookings -> Nat]
    /\ EndsAt \in [Bookings -> Nat]
    /\ \A b \in Bookings : StartsAt[b] < EndsAt[b]
    /\ HoldMinutes \in Nat \ {0}
    /\ HoldBatch \in Nat \ {0}
    /\ MaxLag \in Nat
    /\ MaxTime \in Nat

VARIABLES
    now,                \* datetime.now(UTC)
    bookingStatus,
    bookingVersion,
    holdExpiresAt

bookingRow == <<bookingStatus, bookingVersion, holdExpiresAt>>
bookingVars == <<now, bookingStatus, bookingVersion, holdExpiresAt>>

BookingStatus == {"absent", "held", "payment_pending", "confirmed", "active",
                  "completed", "cancelled", "expired"}

BookingsTypeOK ==
    /\ now \in Nat
    /\ bookingStatus \in [Bookings -> BookingStatus]
    /\ bookingVersion \in [Bookings -> Nat]
    /\ holdExpiresAt \in [Bookings -> Nat]

BookingsInit ==
    /\ now = 0
    /\ bookingStatus = [b \in Bookings |-> "absent"]
    /\ bookingVersion = [b \in Bookings |-> 0]
    /\ holdExpiresAt = [b \in Bookings |-> 0]

-----------------------------------------------------------------------------
(* The clock. *)

\* The moments a handler that now holds its locks may have read.
Readings == {t \in 0..now : now <= t + MaxLag}

Tick ==
    /\ now < MaxTime
    /\ now' = now + 1
    /\ UNCHANGED bookingRow

-----------------------------------------------------------------------------
(* Reading and writing booking rows. *)

\* Fault: an abandoned checkout is taken to have given up its slot.
BlockingUnlessPending == {"held", "confirmed", "active"}

\* BLOCKING_BOOKING_STATUSES
Blocking == {"held", "payment_pending", "confirmed", "active"}

\* timestamp_is_after(booking.hold_expires_at, now)
HoldLive(b, t) == holdExpiresAt[b] > t

\* The condition of every UPDATE that expires holds
StaleHold(b, t) == bookingStatus[b] = "held" /\ holdExpiresAt[b] <= t

\* Fault: only the moment the new slot starts is looked at.
OverlapsAtStart(b, c) ==
    /\ PointOf[c] = PointOf[b]
    /\ StartsAt[c] <= StartsAt[b]
    /\ StartsAt[b] < EndsAt[c]

\* The interval test of _has_overlapping_booking: slots are half open.
Overlaps(b, c) ==
    /\ PointOf[c] = PointOf[b]
    /\ StartsAt[c] < EndsAt[b]
    /\ StartsAt[b] < EndsAt[c]

\* Fault: a status is written without advancing the row's version.
SetWithoutVersion(b, status) ==
    /\ bookingStatus' = [bookingStatus EXCEPT ![b] = status]
    /\ UNCHANGED <<bookingVersion, holdExpiresAt>>

\* booking.status = status; booking.version += 1
SetBooking(b, status) ==
    /\ bookingStatus' = [bookingStatus EXCEPT ![b] = status]
    /\ bookingVersion' = [bookingVersion EXCEPT ![b] = @ + 1]
    /\ UNCHANGED holdExpiresAt

\* The same UPDATE over a set of rows, for stale holds.
ExpiredStatus(S) ==
    [b \in Bookings |-> IF b \in S THEN "expired" ELSE bookingStatus[b]]
ExpiredVersion(S) ==
    [b \in Bookings |-> bookingVersion[b] + (IF b \in S THEN 1 ELSE 0)]

ExpireHolds(S) ==
    /\ S # {}
    /\ bookingStatus' = ExpiredStatus(S)
    /\ bookingVersion' = ExpiredVersion(S)
    /\ UNCHANGED holdExpiresAt

-----------------------------------------------------------------------------
(* Operations. *)

\* create_booking_hold.  The stale holds of the charge point are expired in
\* the same transaction; a refused request rolls that back with the rest.
CreateHold(b, t) ==
    LET stale == {c \in Bookings : PointOf[c] = PointOf[b] /\ StaleHold(c, t)}
    IN  /\ bookingStatus[b] = "absent"
        /\ StartsAt[b] > t
        /\ AcceptsBookings(PointOf[b])
        /\ \A c \in Bookings \ stale : bookingStatus[c] \in Blocking => ~ Overlaps(b, c)
        /\ bookingStatus' = [ExpiredStatus(stale) EXCEPT ![b] = "held"]
        /\ bookingVersion' = [ExpiredVersion(stale) EXCEPT ![b] = 1]
        /\ holdExpiresAt' = [holdExpiresAt EXCEPT ![b] = t + HoldMinutes]
        /\ UNCHANGED now

\* find_user_bookings, get_user_booking: reading one's bookings expires the
\* stale ones and commits.
ReadBookings(u, t) ==
    /\ ExpireHolds({b \in Bookings : OwnerOf[b] = u /\ StaleHold(b, t)})
    /\ UNCHANGED now

\* Fault: the job gives up when there is more to do than fits one batch.
ExpireBacklog(S, t) ==
    /\ S = {b \in Bookings : StaleHold(b, t)}
    /\ Cardinality(S) <= HoldBatch
    /\ ExpireHolds(S)
    /\ UNCHANGED now

\* expire_stale_booking_holds: a batch of the stale holds that no other
\* transaction has locked (skip_locked), so any batch may be the one.
ExpireBatch(S, t) ==
    /\ S \subseteq {b \in Bookings : StaleHold(b, t)}
    /\ Cardinality(S) <= HoldBatch
    /\ ExpireHolds(S)
    /\ UNCHANGED now

\* Where a booking goes when its payment attempt is given up: back to the
\* hold while that still has time, else it expires.
ReleasedStatus(b, t) == IF HoldLive(b, t) THEN "held" ELSE "expired"

=============================================================================
