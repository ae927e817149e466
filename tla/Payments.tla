------------------------------ MODULE Payments ------------------------------
(***************************************************************************)
(* Payment attempts, Razorpay Checkout and its payment webhooks            *)
(* (payments/service.py, payments/webhooks.py, models/payment.py).         *)
(*                                                                         *)
(* An attempt is one idempotency key: the payments row that create_        *)
(* payment_order inserts and the Razorpay order made for it.  The handler  *)
(* calls Razorpay between two transactions, so an attempt that stays       *)
(* "initiated" is one whose handler is still waiting, or died waiting.     *)
(* Every transaction locks the rows it reads before it decides, so each is *)
(* one step.                                                               *)
(*                                                                         *)
(* Razorpay is external.  A charge is one Razorpay payment (pay_...) that  *)
(* a customer makes on an order; an order that failed may be paid again.   *)
(* "sent" holds the webhooks Razorpay has emitted, and is also what it     *)
(* knows of each charge.  Webhooks arrive in any order, once, more than    *)
(* once or never; an event id is the event itself, and "seen" is the       *)
(* payment_webhook_events table.                                           *)
(***************************************************************************)
EXTENDS BookingHolds

CONSTANTS
    Attempts,
    BookingFor,     \* payment.booking_id
    Priced,         \* bookings whose total_amount is positive
    Charges,        \* Razorpay payment ids
    OrderOf,        \* the attempt on whose order a charge is made
    Mispriced,      \* charges and refunds whose amount or currency differs
    NoCharge        \* provider_payment_id IS NULL

ASSUME PaymentAssumption ==
    /\ IsFiniteSet(Attempts)
    /\ BookingFor \in [Attempts -> Bookings]
    /\ OrderOf \in [Charges -> Attempts]
    /\ NoCharge \notin Charges

VARIABLES
    paymentStatus,
    chargeOf,           \* payment.provider_payment_id
    lastError,          \* payment.last_error_code
    sent,               \* external: webhooks emitted by Razorpay
    seen                \* payment_webhook_events.provider_event_id

paymentRow == <<paymentStatus, chargeOf, lastError>>
paymentVars == <<paymentStatus, chargeOf, lastError, sent, seen>>

PaymentStatus == {"absent", "initiated", "order_created", "authorized",
                  "captured", "failed", "refunded"}
PaymentError == {"none", "provider_order_failed", "booking_state_changed",
                 "captured_after_booking_closed", "provider_amount_mismatch",
                 "provider_payment_id_mismatch"}
PaymentEvent == {"payment.authorized", "payment.captured", "payment.failed"}

PaymentsTypeOK ==
    /\ paymentStatus \in [Attempts -> PaymentStatus]
    /\ chargeOf \in [Attempts -> Charges \union {NoCharge}]
    /\ lastError \in [Attempts -> PaymentError]

PaymentsInit ==
    /\ paymentStatus = [a \in Attempts |-> "absent"]
    /\ chargeOf = [a \in Attempts |-> NoCharge]
    /\ lastError = [a \in Attempts |-> "none"]
    /\ sent = {}
    /\ seen = {}

Event(type, id) == [type |-> type, id |-> id]
Authorized(c) == Event("payment.authorized", c) \in sent
Captured(c) == Event("payment.captured", c) \in sent
Failed(c) == Event("payment.failed", c) \in sent

SetPayment(a, status) == paymentStatus' = [paymentStatus EXCEPT ![a] = status]
SetError(a, code) == lastError' = [lastError EXCEPT ![a] = code]

-----------------------------------------------------------------------------
(* create_payment_order *)

\* _begin_payment_attempt, for a key that has no payments row yet
BeginPaymentAttempt(a, v, t) ==
    LET b == BookingFor[a]
    IN  /\ paymentStatus[a] = "absent"
        /\ bookingStatus[b] = "held"
        /\ bookingVersion[b] = v
        /\ HoldLive(b, t)
        /\ b \in Priced
        /\ SetPayment(a, "initiated")
        /\ SetBooking(b, "payment_pending")
        /\ UNCHANGED <<now, chargeOf, lastError, sent, seen>>

\* _finalize_provider_order: Razorpay made the order and the booking waited.
FinalizeOrder(a) ==
    /\ paymentStatus[a] = "initiated"
    /\ bookingStatus[BookingFor[a]] = "payment_pending"
    /\ SetPayment(a, "order_created")
    /\ UNCHANGED <<bookingVars, chargeOf, lastError, sent, seen>>

\* _finalize_provider_order: the booking changed during the call.
AbandonOrder(a) ==
    /\ paymentStatus[a] = "initiated"
    /\ bookingStatus[BookingFor[a]] # "payment_pending"
    /\ SetPayment(a, "failed")
    /\ SetError(a, "booking_state_changed")
    /\ UNCHANGED <<bookingVars, chargeOf, sent, seen>>

\* booking.status = HELD or EXPIRED when an attempt fails, if it still waits
ReleaseBooking(b, t) ==
    IF bookingStatus[b] = "payment_pending"
      THEN SetBooking(b, ReleasedStatus(b, t))
      ELSE UNCHANGED bookingRow

\* _compensate_provider_failure
CompensateOrderFailure(a, t) ==
    /\ paymentStatus[a] = "initiated"
    /\ SetPayment(a, "failed")
    /\ SetError(a, "provider_order_failed")
    /\ ReleaseBooking(BookingFor[a], t)
    /\ UNCHANGED <<now, chargeOf, sent, seen>>

-----------------------------------------------------------------------------
(* Razorpay Checkout (external) *)

\* The customer opens Checkout with the order id that create_payment_order
\* returned, and may go on using it after a failed charge.
CheckoutOpen(a) ==
    \/ paymentStatus[a] = "order_created"
    \/ \E c \in Charges : OrderOf[c] = a /\ Failed(c)

\* Razorpay accepts one successful charge per order.
Paid(a) == \E c \in Charges : OrderOf[c] = a /\ Authorized(c)

Emit(event) ==
    /\ event \notin sent
    /\ sent' = sent \union {event}
    /\ UNCHANGED <<bookingVars, paymentRow, seen>>

ChargeFails(c) ==
    /\ CheckoutOpen(OrderOf[c])
    /\ ~ Paid(OrderOf[c])
    /\ Emit(Event("payment.failed", c))

\* Also a late authorization: the bank answers after the charge had failed.
ChargeIsAuthorized(c) ==
    /\ CheckoutOpen(OrderOf[c])
    /\ ~ Paid(OrderOf[c])
    /\ Emit(Event("payment.authorized", c))

ChargeIsCaptured(c) ==
    /\ Authorized(c)
    /\ Emit(Event("payment.captured", c))

-----------------------------------------------------------------------------
(* verify_checkout_payment.  A valid signature exists once Razorpay has    *)
(* authorized the charge.  A repeated call changes nothing.                *)

VerifyCheckout(c) ==
    LET a == OrderOf[c]
    IN  /\ Authorized(c)
        /\ chargeOf[a] \in {NoCharge, c}
        /\ paymentStatus[a] = "order_created"
        /\ chargeOf' = [chargeOf EXCEPT ![a] = c]
        /\ SetPayment(a, "authorized")
        /\ UNCHANGED <<bookingVars, lastError, sent, seen>>

-----------------------------------------------------------------------------
(* process_razorpay_webhook for payment events.  An event that raises is   *)
(* rolled back with its row, and Razorpay sends it again.                  *)

\* Fault: an event id that was processed before is processed again.
ReceiveAgain(event) ==
    /\ event \in sent
    /\ seen' = seen \union {event}

\* Fault: the signature is not verified, so anyone's event is taken.
ReceiveUnsigned(event) ==
    /\ event \notin seen
    /\ seen' = seen \union {event}

\* Verified, and deduplicated by provider_event_id in the event's transaction.
Receive(event) ==
    /\ event \in sent
    /\ event \notin seen
    /\ seen' = seen \union {event}

IsOther(c) == chargeOf[OrderOf[c]] \notin {NoCharge, c}

\* Fault: an event that is not about the recorded charge is dropped.
DropPaymentEvent(type, c) ==
    /\ Receive(Event(type, c))
    /\ c \in Mispriced \/ IsOther(c)
    /\ UNCHANGED <<bookingVars, paymentRow, sent>>

\* _apply_payment_event: the amount or the charge is not the one recorded.
IgnorePaymentEvent(type, c) ==
    /\ Receive(Event(type, c))
    /\ c \in Mispriced \/ IsOther(c)
    /\ SetError(OrderOf[c], IF c \in Mispriced THEN "provider_amount_mismatch"
                                               ELSE "provider_payment_id_mismatch")
    /\ UNCHANGED <<bookingVars, paymentStatus, chargeOf, sent>>

\* Fault: a webhook is trusted whatever its amount.
AcceptAnyAmount(type, c) ==
    /\ Receive(Event(type, c))
    /\ ~ IsOther(c)
    /\ chargeOf' = [chargeOf EXCEPT ![OrderOf[c]] = c]
    /\ UNCHANGED <<now, sent>>

AcceptPaymentEvent(type, c) ==
    /\ Receive(Event(type, c))
    /\ c \notin Mispriced
    /\ ~ IsOther(c)
    /\ chargeOf' = [chargeOf EXCEPT ![OrderOf[c]] = c]
    /\ UNCHANGED <<now, sent>>

ApplyAuthorized(c) ==
    LET a == OrderOf[c]
    IN  /\ AcceptPaymentEvent("payment.authorized", c)
        /\ SetPayment(a, IF paymentStatus[a] = "order_created" THEN "authorized"
                                                               ELSE paymentStatus[a])
        /\ UNCHANGED <<bookingRow, lastError>>

\* _apply_captured_payment: the booking was waiting for the money.
ApplyCaptured(c) ==
    LET a == OrderOf[c]
        b == BookingFor[a]
    IN  /\ AcceptPaymentEvent("payment.captured", c)
        /\ paymentStatus[a] # "refunded"
        /\ bookingStatus[b] = "payment_pending"
        /\ SetPayment(a, "captured")
        /\ SetBooking(b, "confirmed")
        /\ UNCHANGED lastError

\* Fault: only a cancellation is taken for the end of a booking.
ClosedByCancellation(b) == bookingStatus[b] = "cancelled"

ClosedToCapture(b) == bookingStatus[b] # "confirmed"

\* _apply_captured_payment: it was not.  The attempt is flagged, unless the
\* booking is confirmed (by another attempt, perhaps).
ApplyLateCapture(c) ==
    LET a == OrderOf[c]
        b == BookingFor[a]
    IN  /\ AcceptPaymentEvent("payment.captured", c)
        /\ paymentStatus[a] # "refunded"
        /\ bookingStatus[b] # "payment_pending"
        /\ SetPayment(a, "captured")
        /\ IF ClosedToCapture(b)
             THEN SetError(a, "captured_after_booking_closed")
             ELSE UNCHANGED lastError
        /\ UNCHANGED bookingRow

\* Fault: a failure that arrives after the capture is applied all the same.
ApplyFailedAfterCapture(c, t) ==
    LET a == OrderOf[c]
    IN  /\ AcceptPaymentEvent("payment.failed", c)
        /\ SetPayment(a, "failed")
        /\ ReleaseBooking(BookingFor[a], t)
        /\ UNCHANGED lastError

\* _apply_failed_payment
ApplyFailed(c, t) ==
    LET a == OrderOf[c]
    IN  /\ AcceptPaymentEvent("payment.failed", c)
        /\ IF paymentStatus[a] \in {"captured", "refunded"}
             THEN UNCHANGED <<bookingRow, paymentStatus>>
             ELSE /\ SetPayment(a, "failed")
                  /\ ReleaseBooking(BookingFor[a], t)
        /\ UNCHANGED lastError

=============================================================================
