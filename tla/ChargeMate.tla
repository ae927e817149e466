----------------------------- MODULE ChargeMate -----------------------------
(***************************************************************************)
(* The backend: every handler, job and webhook over the shared database,   *)
(* next to Razorpay.  Steps of different requests interleave freely; a     *)
(* request that dies between two of its transactions is one that takes no  *)
(* further step.                                                           *)
(***************************************************************************)
EXTENDS Cancellations, ChargingSessions

CONSTANT MaxVersion     \* bound: the largest version a client quotes

ASSUME VersionAssumption == MaxVersion \in Nat

vars == <<stationVars, bookingVars, paymentVars, refundVars, sessionStatus>>

EventId == [type : PaymentEvent, id : Charges] \union [type : RefundEvent, id : Refunds]

TypeOK ==
    /\ StationsTypeOK
    /\ BookingsTypeOK
    /\ PaymentsTypeOK
    /\ RefundsTypeOK
    /\ SessionsTypeOK
    /\ sent \subseteq EventId
    /\ seen \subseteq sent

Init == StationsInit /\ BookingsInit /\ PaymentsInit /\ RefundsInit /\ SessionsInit

Versions == 1..MaxVersion

StationStep ==
    /\ \/ \E s \in Sites, open \in BOOLEAN : UpdateStation(s, open)
       \/ \E p \in Points, open \in BOOLEAN : UpdateChargePoint(p, open, InUse(p))
    /\ UNCHANGED <<bookingVars, paymentVars, refundVars, sessionStatus>>

ExpiryJob == \E t \in Readings, S \in SUBSET Bookings : ExpireBatch(S, t)

BookingStep ==
    /\ \/ Tick
       \/ \E b \in Bookings, t \in Readings : CreateHold(b, t)
       \/ \E u \in Users, t \in Readings : ReadBookings(u, t)
       \/ ExpiryJob
    /\ UNCHANGED <<stationVars, paymentVars, refundVars, sessionStatus>>

WebhookStep ==
    \/ \E type \in PaymentEvent, c \in Charges : IgnorePaymentEvent(type, c)
    \/ \E c \in Charges : ApplyAuthorized(c)
    \/ \E c \in Charges : ApplyCaptured(c)
    \/ \E c \in Charges : ApplyLateCapture(c)
    \/ \E c \in Charges, t \in Readings : ApplyFailed(c, t)

PaymentStep ==
    /\ \/ \E a \in Attempts, v \in Versions, t \in Readings : BeginPaymentAttempt(a, v, t)
       \/ \E a \in Attempts : FinalizeOrder(a)
       \/ \E a \in Attempts : AbandonOrder(a)
       \/ \E a \in Attempts, t \in Readings : CompensateOrderFailure(a, t)
       \/ \E c \in Charges : ChargeFails(c)
       \/ \E c \in Charges : ChargeIsAuthorized(c)
       \/ \E c \in Charges : ChargeIsCaptured(c)
       \/ \E c \in Charges : VerifyCheckout(c)
       \/ WebhookStep
    /\ UNCHANGED <<stationVars, refundVars, sessionStatus>>

RefundWebhookStep ==
    \/ \E type \in RefundEvent, r \in Refunds : IgnoreRefundEvent(type, r)
    \/ \E a \in Attempts, r \in Refunds : ApplyRefundProcessed(a, r)
    \/ \E a \in Attempts, r \in Refunds : ApplyRefundFailed(a, r)

Reconciliation == \E a \in Attempts : FetchRefund(a) \/ ApplyFetchedRefund(a)

Settlement == \E r \in Refunds, type \in RefundEvent : RefundSettles(r, type)

CancellationStep ==
    /\ \/ \E b \in Bookings, v \in Versions, t \in Readings : CancelUnpaid(b, v, t)
       \/ \E a \in Attempts, v \in Versions : CancelConfirmed(a, v)
       \/ \E a \in Attempts, r \in Refunds : RazorpayMakesRefund(a, r)
       \/ \E r \in Refunds : RefundElsewhere(r)
       \/ \E a \in Attempts, status \in RefundStatus : FinalizeRefund(a, status)
       \/ \E a \in Attempts : RecordRefundFailure(a)
       \/ RefundWebhookStep
       \/ Reconciliation
       \/ Settlement
    /\ UNCHANGED <<stationVars, sessionStatus>>

SessionStep ==
    /\ \/ \E b \in Bookings, v \in Versions, t \in Readings : StartSession(b, v, t)
       \/ \E b \in Bookings : CompleteSession(b)
    /\ UNCHANGED <<stationVars, paymentVars, refundVars>>

Next == StationStep \/ BookingStep \/ PaymentStep \/ CancellationStep \/ SessionStep

Spec == Init /\ [][Next]_vars

-----------------------------------------------------------------------------
(* What must hold of slots and versions. *)

\* The moments at which booking b has its charge point.
Slot(b) == StartsAt[b]..(EndsAt[b] - 1)

Conflicts == {x \in Bookings \X Bookings :
                /\ x[1] # x[2]
                /\ PointOf[x[1]] = PointOf[x[2]]
                /\ Slot(x[1]) \intersect Slot(x[2]) # {}}

\* A charge point is never promised twice for the same moment, whatever
\* expires, is released by a failed payment, or comes back to a hold.
\* (create_booking_hold; BLOCKING_BOOKING_STATUSES)
NoDoubleBooking ==
    \A x \in Conflicts : ~ (bookingStatus[x[1]] \in Blocking /\ bookingStatus[x[2]] \in Blocking)

PhaseOf(status) ==
    CASE status = "absent" -> "free"
      [] status \in {"held", "payment_pending"} -> "reserved"
      [] status = "confirmed" -> "paid"
      [] status = "active" -> "in_use"
      [] status = "completed" -> "used"
      [] OTHER -> "released"

Slots == INSTANCE SlotReservation WITH
    phase <- [b \in Bookings |-> PhaseOf(bookingStatus[b])]

\* The whole backend implements the promise made about slots: only a slot
\* that was reserved is paid for, only a paid one used, and a reservation
\* that was given back stays given back.
ReservesSlots == Slots!Spec

\* booking.version tells the states of a row apart: whoever quotes the version
\* they last saw acts on the status they last saw.  (booking.version += 1)
VersionIdentifiesStatus ==
    [][\A b \in Bookings :
         \/ bookingStatus'[b] = bookingStatus[b] /\ bookingVersion'[b] = bookingVersion[b]
         \/ bookingStatus'[b] # bookingStatus[b] /\ bookingVersion'[b] = bookingVersion[b] + 1
      ]_vars

-----------------------------------------------------------------------------
(* What must hold of money. *)

OpenAttempts(b) ==
    {a \in Attempts : BookingFor[a] = b
                        /\ paymentStatus[a] \in {"initiated", "order_created", "authorized"}}

\* A booking waits for payment exactly because one attempt is under way, and
\* no second one is begun beside it: a failure or a compensation that releases
\* the booking is always that attempt's own.
\* (_begin_payment_attempt, _compensate_provider_failure, _apply_failed_payment)
AttemptsFollowBooking ==
    \A b \in Bookings :
        /\ Cardinality(OpenAttempts(b)) <= 1
        /\ bookingStatus[b] = "payment_pending" => OpenAttempts(b) # {}
        /\ bookingStatus[b] \in {"held", "expired"} => OpenAttempts(b) = {}

PaidStatus == {"confirmed", "active", "completed"}

\* No slot is kept or used without money: the right amount was captured by
\* Razorpay, and is not on its way back.  (_apply_captured_payment)
ConfirmedIsPaid ==
    \A b \in Bookings : bookingStatus[b] \in PaidStatus =>
        \E a \in Attempts :
            /\ BookingFor[a] = b
            /\ paymentStatus[a] = "captured"
            /\ ~ HasRefund(a)
            /\ chargeOf[a] \in Charges \ Mispriced
            /\ Captured(chargeOf[a])

HasMoney(a) == paymentStatus[a] \in {"captured", "refunded"}

\* Money that was recorded as captured is in use, is being given back, or is
\* flagged for staff.
Accounted(a) ==
    \/ bookingStatus[BookingFor[a]] \in PaidStatus
    \/ HasRefund(a)
    \/ lastError[a] # "none"

\* When one attempt at most brings in money, none of it is ever kept in
\* silence, however captures, cancellations and expiries interleave.
\* (_apply_captured_payment, _prepare_cancellation)
LoneCaptureIsAccountedFor ==
    \A a \in Attempts :
        /\ HasMoney(a)
        /\ \A x \in Attempts : HasMoney(x) /\ BookingFor[x] = BookingFor[a] => x = a
        => Accounted(a)

\* The same of every captured payment.
CaptureIsAccountedFor == \A a \in Attempts : HasMoney(a) => Accounted(a)

\* Money that Razorpay has reported is never lost from the books: once the event
\* of a capture has been taken, its order is recorded as paid, or flagged for
\* staff when the charge is not the one that was expected, as after a failed
\* charge of the same order.  (_apply_payment_event, last_error_code)
ReportedCapturesLeaveATrace ==
    \A c \in Charges :
        Event("payment.captured", c) \in seen
          => HasMoney(OrderOf[c]) \/ lastError[OrderOf[c]] # "none"

\* The refund and payment rows agree with each other, with the booking and
\* with Razorpay: a refund is recorded as processed exactly when its payment is
\* recorded as refunded, and only when Razorpay has returned that charge in
\* full; and only a cancelled booking has one.
\* (_finalize_refund, _apply_refund_event, _apply_reconciled_refund)
RefundsAgree ==
    \A a \in Attempts :
        /\ HasRefund(a) => bookingStatus[BookingFor[a]] = "cancelled"
        /\ paymentStatus[a] = "refunded" <=> refundStatus[a] = "processed"
        /\ refundStatus[a] = "processed" =>
             /\ refundIdOf[a] \in madeRefunds \ Mispriced
             /\ ChargeRefunded[refundIdOf[a]] = chargeOf[a]
             /\ ProviderStatus(refundIdOf[a]) = "processed"

\* What is settled stays settled: late, repeated and reordered events neither
\* revive a closed booking nor forget money.
\* (_apply_captured_payment, _apply_failed_payment, _apply_refund_event)
NothingIsUndone ==
    [][/\ \A b \in Bookings : bookingStatus[b] \in {"completed", "cancelled", "expired"}
             => bookingStatus'[b] = bookingStatus[b]
       /\ \A a \in Attempts :
             /\ HasMoney(a) => HasMoney(a)'
             /\ refundStatus[a] = "processed" => refundStatus'[a] = "processed"
             /\ chargeOf[a] # NoCharge => chargeOf'[a] = chargeOf[a]
             /\ refundIdOf[a] # NoRefund => refundIdOf'[a] = refundIdOf[a]
      ]_vars

StageOf(b) ==
    CASE bookingStatus[b] = "absent" -> "none"
      [] bookingStatus[b] = "payment_pending" -> "waiting"
      [] bookingStatus[b] = "active" -> "in_use"
      [] bookingStatus[b] = "completed" -> "used"
      [] OTHER -> bookingStatus[b]

MoneyOf(a) ==
    CASE paymentStatus[a] = "absent" -> "none"
      [] paymentStatus[a] \in {"initiated", "order_created", "authorized"} -> "asked"
      [] paymentStatus[a] = "failed" -> "failed"
      [] paymentStatus[a] = "refunded" -> "returned"
      [] paymentStatus[a] = "captured" ->
            IF ~ HasRefund(a) THEN "taken"
            ELSE IF refundStatus[a] = "failed" THEN "refused" ELSE "owed"

Ledger == INSTANCE PaymentLedger WITH
    stage <- [b \in Bookings |-> StageOf(b)],
    money <- [a \in Attempts |-> MoneyOf(a)]

\* Booking, payments and refunds tell one story: whatever handler, webhook or
\* job moves one of the rows moves the others with it, an attempt brings in
\* money once, and only the one that is asked for can fail.
\* (_apply_payment_event, _prepare_cancellation, _apply_refund_event)
KeepsLedger == Ledger!Spec

-----------------------------------------------------------------------------
(* What must hold of charging. *)

\* A charge point serves one session at a time, and a session and its booking
\* are always at the same stage.  (start_charging_session)
SessionsAgree ==
    /\ \A b \in Bookings :
         /\ sessionStatus[b] = "active" <=> bookingStatus[b] = "active"
         /\ sessionStatus[b] = "completed" <=> bookingStatus[b] = "completed"
    /\ \A b, c \in Bookings :
         /\ b # c
         /\ PointOf[b] = PointOf[c]
         => ~ (sessionStatus[b] = "active" /\ sessionStatus[c] = "active")

-----------------------------------------------------------------------------
(* Fairness and liveness.  The scheduler runs both jobs every minute, and  *)
(* Razorpay settles each refund one day.  Nothing is assumed of customers, *)
(* operators, request handlers or webhooks: each may stop or be lost.      *)

FairSpec ==
    /\ Spec
    /\ WF_vars((\E t \in Readings, S \in SUBSET Bookings : ExpireBatch(S, t))
               /\ UNCHANGED <<stationVars, paymentVars, refundVars, sessionStatus>>)
    /\ \A a \in Attempts :
         WF_vars((FetchRefund(a) \/ ApplyFetchedRefund(a)) /\ UNCHANGED <<stationVars, sessionStatus>>)
    /\ WF_vars(Settlement /\ UNCHANGED <<stationVars, sessionStatus>>)

\* A hold that ran out gives its slot back even if nobody ever looks at it.
\* (expire_stale_booking_holds)
StaleHoldsExpire ==
    \A b \in Bookings :
        bookingStatus[b] = "held" /\ holdExpiresAt[b] <= now ~> bookingStatus[b] # "held"

\* A refund that Razorpay accepted is settled even if every webhook is lost.
\* (reconcile_pending_refunds)
PendingRefundsSettle ==
    \A a \in Attempts : refundStatus[a] = "pending" ~> refundStatus[a] \in {"processed", "failed"}

\* A checkout that the customer abandons gives its slot back.
AbandonedCheckoutsEnd ==
    \A b \in Bookings :
        bookingStatus[b] = "payment_pending" ~> bookingStatus[b] # "payment_pending"

\* A refund that was requested is settled, whatever became of its handler.
RequestedRefundsSettle ==
    \A a \in Attempts : refundStatus[a] = "requested" ~> refundStatus[a] \in {"processed", "failed"}

=============================================================================
