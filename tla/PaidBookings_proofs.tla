-------------------------- MODULE PaidBookings_proofs -----------------------
(***************************************************************************)
(* Proofs about ChargeMate: which attempt a booking waits for, and that    *)
(* bookings are kept and charge points used only against money.            *)
(***************************************************************************)
EXTENDS ChargeMate_proofs

-----------------------------------------------------------------------------
(* The inductive invariant of AttemptsFollowBooking.  The booking and its  *)
(* attempts alone do not tell why a webhook of a failed charge never       *)
(* releases a booking that waits for another attempt: for that one must    *)
(* know what Razorpay has said of an order, and what was taken of it.      *)

\* Razorpay has not said anything of a charge on this order.
NoNews(a) == \A c \in Charges : OrderOf[c] = a => ~ Failed(c) /\ ~ Authorized(c)

\* The attempt has failed with its charge, and that event is not taken twice.
FailureTaken(a) == chargeOf[a] # NoCharge /\ Event("payment.failed", chargeOf[a]) \in seen

\* Without an order there is no charge, and an attempt that had one fails once.
CheckoutTrail(a) ==
    /\ paymentStatus[a] \in {"absent", "initiated"} => NoNews(a)
    /\ paymentStatus[a] = "failed" => NoNews(a) \/ FailureTaken(a)

OneAttempt(b) ==
    /\ \A x, y \in OpenAttempts(b) : x = y
    /\ bookingStatus[b] = "payment_pending" => OpenAttempts(b) # {}
    /\ bookingStatus[b] \in {"absent", "held", "expired"} => OpenAttempts(b) = {}

AttemptsInv ==
    /\ \A a \in Attempts : CheckoutTrail(a)
    /\ \A b \in Bookings : OneAttempt(b)

LEMMA AttemptsInvIsEnough == AttemptsInv => AttemptsFollowBooking
<1>1. ASSUME AttemptsInv, NEW b \in Bookings
      PROVE  Cardinality(OpenAttempts(b)) <= 1
  <2>1. CASE OpenAttempts(b) = {}
    BY <2>1, FS_EmptySet
  <2>2. CASE OpenAttempts(b) # {}
    <3>1. PICK x : x \in OpenAttempts(b)
      BY <2>2
    <3>2. OpenAttempts(b) = {x}
      BY <1>1, <3>1 DEF AttemptsInv, OneAttempt
    <3>. QED
      BY <3>2, FS_Singleton
  <2>. QED
    BY <2>1, <2>2
<1>. QED
  BY <1>1 DEF AttemptsInv, OneAttempt, AttemptsFollowBooking

LEMMA PaymentEventsDiffer ==
    /\ \A x, y : Event("payment.captured", x) # Event("payment.failed", y)
    /\ \A x, y : Event("payment.captured", x) # Event("payment.authorized", y)
    /\ \A x, y : Event("payment.failed", x) # Event("payment.authorized", y)
    /\ \A type, x, y : Event(type, x) = Event(type, y) => x = y
BY DEF Event

\* A trail survives every step that brings no news, unless the attempt fails.
LEMMA CheckoutTrailSurvives ==
    ASSUME NEW a \in Attempts, CheckoutTrail(a),
           \/ paymentStatus'[a] = paymentStatus[a]
           \/ paymentStatus'[a] \notin {"absent", "initiated", "failed"},
           chargeOf[a] # NoCharge => chargeOf'[a] = chargeOf[a],
           seen \subseteq seen',
           NoNews(a) => NoNews(a)'
    PROVE  CheckoutTrail(a)'
BY DEF CheckoutTrail, FailureTaken

LEMMA BegunWithoutNews ==
    ASSUME TypeOK, NEW a \in Attempts, NEW d \in Attempts, CheckoutTrail(d),
           \/ \E v \in Versions, t \in Readings : BeginPaymentAttempt(a, v, t)
           \/ FinalizeOrder(a) \/ AbandonOrder(a)
           \/ \E t \in Readings : CompensateOrderFailure(a, t)
    PROVE  CheckoutTrail(d)'
<1>. USE DEF TypeOK, PaymentsTypeOK, SetPayment
<1>1. UNCHANGED <<chargeOf, sent, seen>>
  BY DEF BeginPaymentAttempt, FinalizeOrder, AbandonOrder, CompensateOrderFailure
<1>2. NoNews(d)' <=> NoNews(d)
  BY <1>1 DEF NoNews, Failed, Authorized
<1>3. CASE d # a
  <2>1. paymentStatus'[d] = paymentStatus[d]
    BY <1>3 DEF BeginPaymentAttempt, FinalizeOrder, AbandonOrder, CompensateOrderFailure
  <2>. QED
    BY <1>1, <1>2, <2>1, CheckoutTrailSurvives
<1>4. CASE d = a
  <2>1. /\ paymentStatus[a] \in {"absent", "initiated"}
        /\ paymentStatus'[a] \in {"initiated", "order_created", "failed"}
    BY DEF BeginPaymentAttempt, FinalizeOrder, AbandonOrder, CompensateOrderFailure
  <2>. QED
    BY <1>2, <1>4, <2>1 DEF CheckoutTrail
<1>. QED
  BY <1>3, <1>4

LEMMA ChargesMakeNews ==
    ASSUME TypeOK, NEW c \in Charges, NEW d \in Attempts, CheckoutTrail(d),
           ChargeFails(c) \/ ChargeIsAuthorized(c) \/ ChargeIsCaptured(c)
    PROVE  CheckoutTrail(d)'
<1>1. UNCHANGED <<paymentStatus, chargeOf, seen>>
  BY DEF ChargeFails, ChargeIsAuthorized, ChargeIsCaptured, Emit, paymentRow
<1>2. CASE NoNews(d)' \/ ~ NoNews(d)
  BY <1>1, <1>2, CheckoutTrailSurvives
<1>3. CASE NoNews(d) /\ ~ NoNews(d)'
  <2>1. OrderOf[c] = d /\ CheckoutOpen(d)
    BY <1>3, PaymentEventsDiffer
       DEF NoNews, Failed, Authorized, ChargeFails, ChargeIsAuthorized, ChargeIsCaptured, Emit
  <2>2. paymentStatus[d] = "order_created"
    BY <1>3, <2>1 DEF CheckoutOpen, NoNews
  <2>. QED
    BY <1>1, <2>2 DEF CheckoutTrail
<1>. QED
  BY <1>2, <1>3

LEMMA WebhooksKeepCheckoutTrails ==
    ASSUME TypeOK, WebhookStep \/ \E c \in Charges : VerifyCheckout(c), MoneyIsKept,
           NEW d \in Attempts, CheckoutTrail(d)
    PROVE  CheckoutTrail(d)'
<1>. USE PaymentAssumption DEF TypeOK, PaymentsTypeOK, SetPayment
<1>1. chargeOf[d] # NoCharge => chargeOf'[d] = chargeOf[d]
  BY DEF MoneyIsKept
<1>2. sent' = sent /\ seen \subseteq seen'
  BY DEF WebhookStep, IgnorePaymentEvent, ApplyAuthorized, ApplyCaptured, ApplyLateCapture,
         ApplyFailed, AcceptPaymentEvent, Receive, VerifyCheckout
<1>3. NoNews(d)' <=> NoNews(d)
  BY <1>2 DEF NoNews, Failed, Authorized
<1>4. ASSUME \/ paymentStatus'[d] = paymentStatus[d]
             \/ paymentStatus'[d] \notin {"absent", "initiated", "failed"}
      PROVE  CheckoutTrail(d)'
  BY <1>1, <1>2, <1>3, <1>4, CheckoutTrailSurvives
<1>5. ASSUME NEW type \in PaymentEvent, NEW c \in Charges, IgnorePaymentEvent(type, c)
      PROVE  CheckoutTrail(d)'
  BY <1>4, <1>5 DEF IgnorePaymentEvent
<1>6. ASSUME NEW c \in Charges,
             ApplyAuthorized(c) \/ ApplyCaptured(c) \/ ApplyLateCapture(c) \/ VerifyCheckout(c)
      PROVE  CheckoutTrail(d)'
  BY <1>4, <1>6 DEF ApplyAuthorized, ApplyCaptured, ApplyLateCapture, VerifyCheckout
<1>7. ASSUME NEW c \in Charges, NEW t \in Readings, ApplyFailed(c, t)
      PROVE  CheckoutTrail(d)'
  <2>1. CASE paymentStatus'[d] = paymentStatus[d]
    BY <1>4, <2>1
  <2>2. CASE paymentStatus'[d] # paymentStatus[d]
    <3>1. OrderOf[c] = d
      BY <1>7, <2>2 DEF ApplyFailed
    <3>2. chargeOf'[d] = c /\ Event("payment.failed", c) \in seen'
      BY <1>7, <3>1 DEF ApplyFailed, AcceptPaymentEvent, Receive
    <3>3. paymentStatus'[d] = "failed"
      BY <1>7, <2>2, <3>1 DEF ApplyFailed
    <3>. QED
      BY <3>2, <3>3 DEF CheckoutTrail, FailureTaken
  <2>. QED
    BY <2>1, <2>2
<1>. QED
  BY <1>5, <1>6, <1>7 DEF WebhookStep

LEMMA PaymentStepKeepsCheckoutTrails ==
    ASSUME TypeOK, PaymentStep, NEW d \in Attempts, CheckoutTrail(d)
    PROVE  CheckoutTrail(d)'
BY PaymentStepKeepsMoney, BegunWithoutNews, ChargesMakeNews, WebhooksKeepCheckoutTrails
   DEF PaymentStep

\* What cancellations and refunds do to an attempt: its payment is refunded,
\* and then its booking was cancelled before.  News of payments are not theirs.
LEMMA CancellationStepAndAttempts ==
    ASSUME TypeOK, RefundsInv, CancellationStep
    PROVE  /\ chargeOf' = chargeOf /\ lastError' = lastError
           /\ sent \subseteq sent' /\ seen \subseteq seen'
           /\ \A type \in PaymentEvent, c \in Charges :
                Event(type, c) \in sent' => Event(type, c) \in sent
           /\ \A d \in Attempts :
                \/ paymentStatus'[d] = paymentStatus[d]
                \/ paymentStatus'[d] = "refunded" /\ HasRefund(d)
<1>. DEFINE Goal ==
       /\ chargeOf' = chargeOf /\ lastError' = lastError
       /\ sent \subseteq sent' /\ seen \subseteq seen'
       /\ \A type \in PaymentEvent, c \in Charges :
            Event(type, c) \in sent' => Event(type, c) \in sent
       /\ \A d \in Attempts :
            \/ paymentStatus'[d] = paymentStatus[d]
            \/ paymentStatus'[d] = "refunded" /\ HasRefund(d)
<1>. USE DEF TypeOK, PaymentsTypeOK, SettleRefund, SetPayment
<1>1. ASSUME UNCHANGED paymentVars
      PROVE  Goal
  BY <1>1 DEF paymentVars
<1>2. ASSUME NEW r \in Refunds, NEW type \in RefundEvent, RefundSettles(r, type)
      PROVE  Goal
  BY <1>2, PaymentEventIsNoRefundEvent DEF RefundSettles, paymentRow
<1>3. ASSUME NEW r \in Refunds, NEW type \in RefundEvent, IgnoreRefundEvent(type, r)
      PROVE  Goal
  BY <1>3 DEF IgnoreRefundEvent, Receive, paymentRow
<1>4. ASSUME NEW a \in Attempts, NEW r \in Refunds,
             ApplyRefundProcessed(a, r) \/ ApplyRefundFailed(a, r)
      PROVE  Goal
  BY <1>4 DEF ApplyRefundProcessed, ApplyRefundFailed, AcceptRefundEvent, RefundTarget, Receive
<1>5. ASSUME NEW a \in Attempts, NEW status \in RefundStatus, FinalizeRefund(a, status)
      PROVE  Goal
  BY <1>5 DEF FinalizeRefund, HasRefund
<1>6. ASSUME NEW a \in Attempts, ApplyFetchedRefund(a)
      PROVE  Goal
  BY <1>6 DEF ApplyFetchedRefund, HasRefund
<1>7. ASSUME \/ \E b \in Bookings, v \in Versions, t \in Readings : CancelUnpaid(b, v, t)
             \/ \E a \in Attempts, v \in Versions : CancelConfirmed(a, v)
             \/ \E a \in Attempts, r \in Refunds : RazorpayMakesRefund(a, r)
             \/ \E r \in Refunds : RefundElsewhere(r)
             \/ \E a \in Attempts : RecordRefundFailure(a) \/ FetchRefund(a)
      PROVE  Goal
  BY <1>1, <1>7 DEF CancelUnpaid, CancelConfirmed, RazorpayMakesRefund, RefundElsewhere,
                    RecordRefundFailure, FetchRefund
<1>. HIDE DEF Goal
<1>8. Goal
  BY <1>2, <1>3, <1>4, <1>5, <1>6, <1>7
     DEF CancellationStep, RefundWebhookStep, Reconciliation, Settlement
<1>. QED
  BY <1>8 DEF Goal

LEMMA StepsKeepCheckoutTrails ==
    ASSUME TypeOK, RefundsInv, [Next]_vars, NEW d \in Attempts, CheckoutTrail(d)
    PROVE  CheckoutTrail(d)'
<1>1. CASE StationStep \/ BookingStep \/ SessionStep \/ UNCHANGED vars
  <2>1. UNCHANGED paymentVars
    BY <1>1 DEF StationStep, BookingStep, SessionStep, vars, paymentVars
  <2>. QED
    BY <2>1 DEF paymentVars, CheckoutTrail, NoNews, FailureTaken, Failed, Authorized
<1>2. CASE CancellationStep
  <2>1. NoNews(d) => NoNews(d)'
    BY <1>2, CancellationStepAndAttempts DEF NoNews, Failed, Authorized, PaymentEvent
  <2>. QED
    BY <1>2, <2>1, CancellationStepAndAttempts, CheckoutTrailSurvives
<1>. QED
  BY <1>1, <1>2, PaymentStepKeepsCheckoutTrails DEF Next

-----------------------------------------------------------------------------
(* One attempt at a time.                                                  *)

IsOpen(a) == paymentStatus[a] \in {"initiated", "order_created", "authorized"}

\* A booking that does not come to wait for payment, or to be free to pay, and
\* for which no attempt opens, keeps to one attempt.
LEMMA OneAttemptSurvives ==
    ASSUME NEW b \in Bookings, OneAttempt(b),
           \A x \in Attempts : BookingFor[x] = b /\ IsOpen(x)' => IsOpen(x),
           \/ bookingStatus'[b] = bookingStatus[b] /\ bookingStatus[b] # "payment_pending"
           \/ bookingStatus'[b] \in {"confirmed", "active", "completed", "cancelled"}
           \/ /\ bookingStatus[b] \in {"absent", "held", "expired"}
              /\ bookingStatus'[b] \in {"absent", "held", "expired"}
    PROVE  OneAttempt(b)'
BY DEF OneAttempt, OpenAttempts, IsOpen

LEMMA OneAttemptUntouched ==
    ASSUME NEW b \in Bookings, OneAttempt(b), bookingStatus'[b] = bookingStatus[b],
           \A x \in Attempts : BookingFor[x] = b => (IsOpen(x)' <=> IsOpen(x))
    PROVE  OneAttempt(b)'
BY DEF OneAttempt, OpenAttempts, IsOpen

\* An attempt that gives its booking back was the one the booking waited for.
LEMMA ReleaseKeepsOneAttempt ==
    ASSUME TypeOK, NEW a \in Attempts, OneAttempt(BookingFor[a]), NEW t \in Readings,
           ReleaseBooking(BookingFor[a], t),
           SetPayment(a, "failed"),
           bookingStatus[BookingFor[a]] = "payment_pending" => IsOpen(a),
           NEW b \in Bookings, OneAttempt(b)
    PROVE  OneAttempt(b)'
<1>. USE PaymentAssumption DEF TypeOK, BookingsTypeOK, PaymentsTypeOK
<1>1. paymentStatus' = [paymentStatus EXCEPT ![a] = "failed"]
  BY DEF SetPayment
<1>2. \A x \in Attempts : IsOpen(x)' <=> x # a /\ IsOpen(x)
  BY <1>1 DEF IsOpen
<1>3. CASE b # BookingFor[a]
  <2>1. bookingStatus'[b] = bookingStatus[b]
    BY <1>3 DEF ReleaseBooking, SetBooking, bookingRow
  <2>. QED
    BY <1>2, <1>3, <2>1, OneAttemptUntouched
<1>4. CASE b = BookingFor[a] /\ bookingStatus[b] # "payment_pending"
  <2>1. bookingStatus'[b] = bookingStatus[b]
    BY <1>4 DEF ReleaseBooking, bookingRow
  <2>. QED
    BY <1>2, <1>4, <2>1, OneAttemptSurvives
<1>5. CASE b = BookingFor[a] /\ bookingStatus[b] = "payment_pending"
  <2>1. bookingStatus'[b] \in {"held", "expired"}
    BY <1>5 DEF ReleaseBooking, SetBooking, ReleasedStatus
  <2>2. OpenAttempts(b) = {a}
    BY <1>5 DEF OneAttempt, OpenAttempts, IsOpen
  <2>3. OpenAttempts(b)' = {}
    BY <1>2, <2>2 DEF OpenAttempts, IsOpen
  <2>. QED
    BY <2>1, <2>3 DEF OneAttempt
<1>. QED
  BY <1>3, <1>4, <1>5

LEMMA BeginKeepsOneAttempt ==
    ASSUME TypeOK, NEW a \in Attempts, NEW v \in Versions, NEW t \in Readings,
           BeginPaymentAttempt(a, v, t), OneAttempt(BookingFor[a]),
           NEW b \in Bookings, OneAttempt(b)
    PROVE  OneAttempt(b)'
<1>. USE PaymentAssumption DEF TypeOK, BookingsTypeOK, PaymentsTypeOK
<1>1. /\ paymentStatus' = [paymentStatus EXCEPT ![a] = "initiated"]
      /\ bookingStatus' = [bookingStatus EXCEPT ![BookingFor[a]] = "payment_pending"]
      /\ bookingStatus[BookingFor[a]] = "held"
  BY DEF BeginPaymentAttempt, SetPayment, SetBooking
<1>2. CASE b = BookingFor[a]
  <2>1. OpenAttempts(b) = {}
    BY <1>1, <1>2 DEF OneAttempt
  <2>2. OpenAttempts(b)' = {a}
    BY <1>1, <1>2, <2>1 DEF OpenAttempts
  <2>3. bookingStatus'[b] = "payment_pending"
    BY <1>1, <1>2
  <2>. QED
    BY <2>2, <2>3 DEF OneAttempt
<1>3. CASE b # BookingFor[a]
  BY <1>1, <1>3, OneAttemptUntouched DEF IsOpen
<1>. QED
  BY <1>2, <1>3

\* A failed charge is taken once, so the attempt that it fails is open if its
\* booking still waits.  (process_razorpay_webhook, _apply_failed_payment)
LEMMA FailureIsOfOpenAttempt ==
    ASSUME TypeOK, NEW c \in Charges, NEW t \in Readings, ApplyFailed(c, t),
           CheckoutTrail(OrderOf[c]),
           paymentStatus[OrderOf[c]] \notin {"captured", "refunded"}
    PROVE  IsOpen(OrderOf[c])
<1>. USE PaymentAssumption DEF TypeOK, PaymentsTypeOK
<1>1. /\ Event("payment.failed", c) \in sent /\ Event("payment.failed", c) \notin seen
      /\ chargeOf[OrderOf[c]] \in {NoCharge, c}
  BY DEF ApplyFailed, AcceptPaymentEvent, Receive, IsOther
<1>2. ~ NoNews(OrderOf[c])
  BY <1>1 DEF NoNews, Failed
<1>3. ~ FailureTaken(OrderOf[c])
  BY <1>1 DEF FailureTaken
<1>. QED
  BY <1>2, <1>3 DEF CheckoutTrail, PaymentStatus, IsOpen

LEMMA PaymentStepKeepsOneAttempt ==
    ASSUME TypeOK, AttemptsInv, PaymentStep, NEW b \in Bookings
    PROVE  OneAttempt(b)'
<1>. USE PaymentAssumption
<1>1. OneAttempt(b) /\ (\A a \in Attempts : CheckoutTrail(a) /\ OneAttempt(BookingFor[a]))
  BY DEF AttemptsInv
<1>2. ASSUME NEW a \in Attempts, NEW v \in Versions, NEW t \in Readings,
             BeginPaymentAttempt(a, v, t)
      PROVE  OneAttempt(b)'
  BY <1>1, <1>2, BeginKeepsOneAttempt
<1>3. ASSUME NEW a \in Attempts, NEW t \in Readings, CompensateOrderFailure(a, t)
      PROVE  OneAttempt(b)'
  BY <1>1, <1>3, ReleaseKeepsOneAttempt DEF CompensateOrderFailure, IsOpen
<1>4. ASSUME NEW c \in Charges, NEW t \in Readings, ApplyFailed(c, t)
      PROVE  OneAttempt(b)'
  <2>1. CASE paymentStatus[OrderOf[c]] \in {"captured", "refunded"}
    <3>1. UNCHANGED <<bookingStatus, paymentStatus>>
      BY <1>4, <2>1 DEF ApplyFailed, bookingRow
    <3>. QED
      BY <1>1, <3>1, OneAttemptUntouched DEF IsOpen
  <2>2. CASE paymentStatus[OrderOf[c]] \notin {"captured", "refunded"}
    BY <1>1, <1>4, <2>2, FailureIsOfOpenAttempt, ReleaseKeepsOneAttempt DEF ApplyFailed
  <2>. QED
    BY <2>1, <2>2
<1>. USE DEF TypeOK, BookingsTypeOK, PaymentsTypeOK, SetPayment
<1>5. ASSUME NEW a \in Attempts, FinalizeOrder(a)
      PROVE  OneAttempt(b)'
  BY <1>1, <1>5, OneAttemptUntouched DEF FinalizeOrder, bookingVars, IsOpen
<1>6. ASSUME NEW a \in Attempts, AbandonOrder(a)
      PROVE  OneAttempt(b)'
  <2>1. /\ bookingStatus' = bookingStatus /\ bookingStatus[BookingFor[a]] # "payment_pending"
        /\ \A x \in Attempts : IsOpen(x)' <=> x # a /\ IsOpen(x)
    BY <1>6 DEF AbandonOrder, bookingVars, IsOpen
  <2>2. CASE b = BookingFor[a]
    BY <1>1, <2>1, <2>2, OneAttemptSurvives
  <2>3. CASE b # BookingFor[a]
    BY <1>1, <2>1, <2>3, OneAttemptUntouched
  <2>. QED
    BY <2>2, <2>3
<1>7. ASSUME NEW c \in Charges,
             \/ ChargeFails(c) \/ ChargeIsAuthorized(c) \/ ChargeIsCaptured(c)
             \/ VerifyCheckout(c) \/ ApplyAuthorized(c)
             \/ \E type \in PaymentEvent : IgnorePaymentEvent(type, c)
      PROVE  OneAttempt(b)'
  <2>1. /\ bookingStatus' = bookingStatus
        /\ \A x \in Attempts : IsOpen(x)' <=> IsOpen(x)
    BY <1>7 DEF ChargeFails, ChargeIsAuthorized, ChargeIsCaptured, Emit, VerifyCheckout,
                ApplyAuthorized, IgnorePaymentEvent, bookingVars, bookingRow, paymentRow, IsOpen
  <2>. QED
    BY <1>1, <2>1, OneAttemptUntouched
<1>8. ASSUME NEW c \in Charges, ApplyCaptured(c) \/ ApplyLateCapture(c)
      PROVE  OneAttempt(b)'
  <2>1. \A x \in Attempts : IsOpen(x)' <=> x # OrderOf[c] /\ IsOpen(x)
    BY <1>8 DEF ApplyCaptured, ApplyLateCapture, IsOpen
  <2>2. CASE b # BookingFor[OrderOf[c]]
    <3>1. bookingStatus'[b] = bookingStatus[b]
      BY <1>8, <2>2 DEF ApplyCaptured, ApplyLateCapture, SetBooking, bookingRow
    <3>. QED
      BY <1>1, <2>1, <2>2, <3>1, OneAttemptUntouched
  <2>3. CASE b = BookingFor[OrderOf[c]]
    <3>1. \/ bookingStatus'[b] = "confirmed"
          \/ bookingStatus'[b] = bookingStatus[b] /\ bookingStatus[b] # "payment_pending"
      BY <1>8, <2>3 DEF ApplyCaptured, ApplyLateCapture, SetBooking, bookingRow
    <3>. QED
      BY <1>1, <2>1, <3>1, OneAttemptSurvives
  <2>. QED
    BY <2>2, <2>3
<1>. QED
  BY <1>2, <1>3, <1>4, <1>5, <1>6, <1>7, <1>8 DEF PaymentStep, WebhookStep

LEMMA CancellationStepOnlyCancels ==
    ASSUME TypeOK, CancellationStep, NEW b \in Bookings
    PROVE  bookingStatus'[b] \in {bookingStatus[b], "cancelled"}
<1>. USE PaymentAssumption DEF TypeOK, BookingsTypeOK
<1>1. ASSUME NEW c \in Bookings, NEW v \in Versions, NEW t \in Readings, CancelUnpaid(c, v, t)
      PROVE  bookingStatus'[b] \in {bookingStatus[b], "cancelled"}
  BY <1>1 DEF CancelUnpaid, SetBooking
<1>2. ASSUME NEW a \in Attempts, NEW v \in Versions, CancelConfirmed(a, v)
      PROVE  bookingStatus'[b] \in {bookingStatus[b], "cancelled"}
  BY <1>2 DEF CancelConfirmed, SetBooking
<1>3. ASSUME UNCHANGED bookingVars
      PROVE  bookingStatus'[b] \in {bookingStatus[b], "cancelled"}
  BY <1>3 DEF bookingVars
<1>. QED
  BY <1>1, <1>2, <1>3
     DEF CancellationStep, RazorpayMakesRefund, RefundElsewhere, FinalizeRefund,
         RecordRefundFailure, RefundWebhookStep, IgnoreRefundEvent, ApplyRefundProcessed,
         ApplyRefundFailed, AcceptRefundEvent, Reconciliation, FetchRefund,
         ApplyFetchedRefund, Settlement, RefundSettles

LEMMA CancellationStepKeepsOneAttempt ==
    ASSUME TypeOK, RefundsInv, CancellationStep, NEW b \in Bookings, OneAttempt(b)
    PROVE  OneAttempt(b)'
<1>. USE PaymentAssumption DEF TypeOK, BookingsTypeOK
<1>1. \A x \in Attempts : \/ paymentStatus'[x] = paymentStatus[x]
                          \/ /\ paymentStatus'[x] = "refunded"
                             /\ bookingStatus[BookingFor[x]] = "cancelled"
  BY CancellationStepAndAttempts DEF RefundsInv, RefundTrail
<1>2. bookingStatus'[b] \in {bookingStatus[b], "cancelled"}
  BY CancellationStepOnlyCancels
<1>3. CASE bookingStatus'[b] = "cancelled" \/ bookingStatus[b] = "cancelled"
  <2>1. bookingStatus'[b] = "cancelled"
    BY <1>2, <1>3
  <2>. QED
    BY <1>1, <2>1, OneAttemptSurvives DEF IsOpen
<1>4. CASE bookingStatus'[b] # "cancelled" /\ bookingStatus[b] # "cancelled"
  BY <1>1, <1>2, <1>4, OneAttemptUntouched DEF IsOpen
<1>. QED
  BY <1>3, <1>4

\* Expiry, new holds and charging sessions leave the attempts alone, and no
\* booking comes to wait for payment, or ceases to, by one of them.
LEMMA OtherStepsKeepOneAttempt ==
    ASSUME TypeOK, StationStep \/ BookingStep \/ SessionStep \/ UNCHANGED vars,
           NEW b \in Bookings, OneAttempt(b)
    PROVE  OneAttempt(b)'
<1>. USE DEF TypeOK, BookingsTypeOK
<1>1. paymentStatus' = paymentStatus
  BY DEF StationStep, BookingStep, SessionStep, vars, paymentVars
<1>2. CASE Unmoved
  BY <1>1, <1>2, OneAttemptUntouched DEF Unmoved, IsOpen
<1>3. CASE MovedBy(SessionMove)
  <2>1. \/ bookingStatus'[b] = bookingStatus[b]
        \/ bookingStatus'[b] \in {"active", "completed"}
    BY <1>3 DEF MovedBy, SetBooking, SessionMove
  <2>. QED
    BY <1>1, <2>1, OneAttemptUntouched, OneAttemptSurvives DEF IsOpen
<1>4. CASE SomeExpired \/ SomeCreated
  <2>1. \/ bookingStatus'[b] = bookingStatus[b]
        \/ /\ bookingStatus[b] \in {"absent", "held"}
           /\ bookingStatus'[b] \in {"held", "expired"}
    <3>1. CASE SomeExpired
      BY <3>1 DEF SomeExpired, ExpireHolds, ExpiredStatus
    <3>2. CASE SomeCreated
      BY <3>2 DEF SomeCreated, CreateHold, ExpiredStatus, StaleHold
    <3>. QED
      BY <1>4, <3>1, <3>2
  <2>. QED
    BY <1>1, <2>1, OneAttemptUntouched, OneAttemptSurvives DEF IsOpen
<1>5. CASE StationStep \/ UNCHANGED vars
  BY <1>2, <1>5 DEF StationStep, vars, bookingVars, Unmoved
<1>. QED
  BY <1>2, <1>3, <1>4, <1>5, BookingStepMoves, SessionStepMoves

LEMMA StepsKeepAttempts ==
    ASSUME TypeOK, RefundsInv, AttemptsInv, [Next]_vars
    PROVE  AttemptsInv'
<1>1. \A a \in Attempts : CheckoutTrail(a)'
  BY StepsKeepCheckoutTrails DEF AttemptsInv
<1>2. ASSUME NEW b \in Bookings
      PROVE  OneAttempt(b)'
  <2>1. OneAttempt(b)
    BY DEF AttemptsInv
  <2>. QED
    BY <2>1, PaymentStepKeepsOneAttempt, CancellationStepKeepsOneAttempt,
       OtherStepsKeepOneAttempt DEF Next
<1>. QED
  BY <1>1, <1>2 DEF AttemptsInv

\* What later theorems take for granted, proved once.
LEMMA MoneyInvariants == Spec => [](TypeOK /\ UnansweredHasNoId /\ RefundsInv /\ AttemptsInv)
<1>1. Init => UnansweredHasNoId /\ RefundsInv
  BY RefundAssumption DEF Init, PaymentsInit, RefundsInit, RefundsInv, RefundEventsAreReal,
                          RefundTrail, HasRefund, UnansweredHasNoId
<1>2. Init => AttemptsInv
  BY DEF Init, BookingsInit, PaymentsInit, AttemptsInv, CheckoutTrail, NoNews, Failed, Authorized,
         OneAttempt, OpenAttempts
<1>3. TypeOK /\ UnansweredHasNoId /\ RefundsInv /\ AttemptsInv /\ [Next]_vars
        => (UnansweredHasNoId /\ RefundsInv /\ AttemptsInv)'
  BY StepsKeepMoney, StepsKeepTrails, StepsKeepAttempts
<1>. QED
  BY <1>1, <1>2, <1>3, TypeCorrect, PTL DEF Spec

\* A booking waits for payment exactly while one attempt of it is open, so the
\* release that a failed charge or a failed order brings is always that of the
\* attempt the booking waits for, whatever webhooks come late, twice or out of
\* order (_begin_payment_attempt, _compensate_provider_failure,
\* _apply_failed_payment).
THEOREM BookingsWaitForOneAttempt == Spec => []AttemptsFollowBooking
BY MoneyInvariants, AttemptsInvIsEnough, PTL

-----------------------------------------------------------------------------
(* Slots are kept and used against money only.                             *)

\* Attempt a brought in what booking b costs, and nobody gives it back.
PaysFor(a, b) ==
    /\ BookingFor[a] = b
    /\ paymentStatus[a] = "captured"
    /\ ~ HasRefund(a)
    /\ chargeOf[a] \in Charges \ Mispriced
    /\ Captured(chargeOf[a])

LEMMA NewsAreKept ==
    ASSUME TypeOK, RefundsInv, [Next]_vars
    PROVE  sent \subseteq sent'
<1>1. CASE StationStep \/ BookingStep \/ SessionStep \/ UNCHANGED vars
  BY <1>1 DEF StationStep, BookingStep, SessionStep, vars, paymentVars
<1>2. CASE PaymentStep
  BY <1>2 DEF PaymentStep, BeginPaymentAttempt, FinalizeOrder, AbandonOrder,
              CompensateOrderFailure, ChargeFails, ChargeIsAuthorized, ChargeIsCaptured, Emit,
              VerifyCheckout, WebhookStep, IgnorePaymentEvent, ApplyAuthorized, ApplyCaptured,
              ApplyLateCapture, ApplyFailed, AcceptPaymentEvent
<1>. QED
  BY <1>1, <1>2, CancellationStepAndAttempts DEF Next

\* Of all payment steps only a capture that is taken records new money, and
\* none forgets any.
LEMMA PaymentStepAndMoney ==
    ASSUME TypeOK, PaymentStep, NEW a \in Attempts
    PROVE  /\ paymentStatus[a] = "captured" => paymentStatus'[a] = "captured"
           /\ ~ HasMoney(a) /\ HasMoney(a)'
                => \E c \in Charges : OrderOf[c] = a /\ (ApplyCaptured(c) \/ ApplyLateCapture(c))
<1>. USE PaymentAssumption DEF TypeOK, PaymentsTypeOK, SetPayment, HasMoney
<1>. DEFINE Kept == paymentStatus[a] = "captured" => paymentStatus'[a] = "captured"
            NoneNew == ~ HasMoney(a) => ~ HasMoney(a)'
            Taken == \E c \in Charges : OrderOf[c] = a /\ (ApplyCaptured(c) \/ ApplyLateCapture(c))
<1>1. ASSUME NEW d \in Attempts,
             \/ \E v \in Versions, t \in Readings : BeginPaymentAttempt(d, v, t)
             \/ FinalizeOrder(d) \/ AbandonOrder(d)
             \/ \E t \in Readings : CompensateOrderFailure(d, t)
      PROVE  Kept /\ NoneNew
  BY <1>1 DEF BeginPaymentAttempt, FinalizeOrder, AbandonOrder, CompensateOrderFailure
<1>2. ASSUME NEW c \in Charges,
             \/ ChargeFails(c) \/ ChargeIsAuthorized(c) \/ ChargeIsCaptured(c)
             \/ VerifyCheckout(c) \/ ApplyAuthorized(c)
             \/ \E type \in PaymentEvent : IgnorePaymentEvent(type, c)
             \/ \E t \in Readings : ApplyFailed(c, t)
      PROVE  Kept /\ NoneNew
  BY <1>2 DEF ChargeFails, ChargeIsAuthorized, ChargeIsCaptured, Emit, VerifyCheckout,
              ApplyAuthorized, IgnorePaymentEvent, ApplyFailed, paymentRow
<1>3. ASSUME NEW c \in Charges, ApplyCaptured(c) \/ ApplyLateCapture(c)
      PROVE  Kept /\ (NoneNew \/ OrderOf[c] = a)
  BY <1>3 DEF ApplyCaptured, ApplyLateCapture
<1>. HIDE DEF Kept, NoneNew
<1>4. Kept /\ (NoneNew \/ Taken)
  BY <1>1, <1>2, <1>3 DEF PaymentStep, WebhookStep
<1>. QED
  BY <1>4 DEF Kept, NoneNew

\* A captured payment stays captured: only its refund says otherwise.
LEMMA CaptureStays ==
    ASSUME TypeOK, RefundsInv, [Next]_vars, NEW a \in Attempts,
           paymentStatus[a] = "captured", ~ HasRefund(a)
    PROVE  paymentStatus'[a] = "captured"
<1>1. CASE StationStep \/ BookingStep \/ SessionStep \/ UNCHANGED vars
  BY <1>1 DEF StationStep, BookingStep, SessionStep, vars, paymentVars
<1>2. CASE CancellationStep
  BY <1>2, CancellationStepAndAttempts
<1>. QED
  BY <1>1, <1>2, PaymentStepAndMoney DEF Next

\* A refund once requested is never forgotten, and only the cancellation of a
\* confirmed booking requests one.  (_prepare_cancellation)
RefundRowsKept(a) ==
    /\ HasRefund(a) => HasRefund(a)'
    /\ ~ HasRefund(a) /\ HasRefund(a)' =>
         /\ bookingStatus[BookingFor[a]] = "confirmed" /\ bookingStatus'[BookingFor[a]] = "cancelled"
         /\ paymentStatus[a] = "captured"

LEMMA StepsKeepRefundRows ==
    ASSUME TypeOK, [Next]_vars, NEW a \in Attempts
    PROVE  RefundRowsKept(a)
<1>. USE PaymentAssumption
     DEF TypeOK, BookingsTypeOK, RefundsTypeOK, HasRefund, SetRefund, SettleRefund, RefundRowsKept
<1>1. ASSUME refundStatus' = refundStatus
      PROVE  RefundRowsKept(a)
  BY <1>1
<1>2. ASSUME NEW d \in Attempts, NEW v \in Versions, CancelConfirmed(d, v)
      PROVE  RefundRowsKept(a)
  BY <1>2 DEF CancelConfirmed, SetBooking
<1>3. ASSUME NEW d \in Attempts, NEW status \in RefundStatus, FinalizeRefund(d, status)
      PROVE  RefundRowsKept(a)
  <2>1. status # "absent"
    BY <1>3 DEF FinalizeRefund, ProviderStatus
  <2>. QED
    BY <1>3, <2>1 DEF FinalizeRefund
<1>4. ASSUME NEW d \in Attempts, RecordRefundFailure(d)
      PROVE  RefundRowsKept(a)
  BY <1>4 DEF RecordRefundFailure
<1>5. ASSUME NEW d \in Attempts, NEW r \in Refunds,
             ApplyRefundProcessed(d, r) \/ ApplyRefundFailed(d, r)
      PROVE  RefundRowsKept(a)
  BY <1>5 DEF ApplyRefundProcessed, ApplyRefundFailed, AcceptRefundEvent, RefundTarget
<1>6. ASSUME NEW d \in Attempts, FetchRefund(d) \/ ApplyFetchedRefund(d)
      PROVE  RefundRowsKept(a)
  BY <1>6 DEF FetchRefund, ApplyFetchedRefund, refundRow
<1>. HIDE DEF RefundRowsKept
<1>7. CASE StationStep \/ BookingStep \/ PaymentStep \/ SessionStep \/ UNCHANGED vars
  BY <1>1, <1>7 DEF StationStep, BookingStep, PaymentStep, SessionStep, vars, refundVars
<1>8. ASSUME \/ \E b \in Bookings, v \in Versions, t \in Readings : CancelUnpaid(b, v, t)
             \/ \E d \in Attempts, r \in Refunds : RazorpayMakesRefund(d, r)
             \/ \E r \in Refunds : RefundElsewhere(r)
             \/ \E r \in Refunds, type \in RefundEvent :
                  IgnoreRefundEvent(type, r) \/ RefundSettles(r, type)
      PROVE  RefundRowsKept(a)
  BY <1>1, <1>8 DEF CancelUnpaid, RazorpayMakesRefund, RefundElsewhere, IgnoreRefundEvent,
                    RefundSettles, refundVars, refundRow
<1>. QED
  BY <1>2, <1>3, <1>4, <1>5, <1>6, <1>7, <1>8
     DEF Next, CancellationStep, RefundWebhookStep, Reconciliation, Settlement

\* Money that pays for a booking does so until the booking is cancelled.
LEMMA PaymentLasts ==
    ASSUME TypeOK, UnansweredHasNoId, RefundsInv, [Next]_vars,
           NEW a \in Attempts, NEW b \in Bookings, PaysFor(a, b),
           bookingStatus'[b] # "cancelled"
    PROVE  PaysFor(a, b)'
<1>1. paymentStatus'[a] = "captured"
  BY CaptureStays DEF PaysFor
<1>2. ~ HasRefund(a)'
  BY StepsKeepRefundRows DEF RefundRowsKept, PaysFor
<1>3. chargeOf'[a] = chargeOf[a]
  BY StepsKeepMoney, PaymentAssumption DEF MoneyIsKept, PaysFor
<1>4. Captured(chargeOf[a])'
  BY <1>3, NewsAreKept DEF PaysFor, Captured
<1>. QED
  BY <1>1, <1>2, <1>3, <1>4 DEF PaysFor

\* A booking comes to be paid for, or ceases to, in two ways only.
LEMMA PaidStatusChanges ==
    ASSUME TypeOK, [Next]_vars, NEW b \in Bookings,
           (bookingStatus[b] \in PaidStatus) # (bookingStatus'[b] \in PaidStatus)
    PROVE  \/ \E c \in Charges : BookingFor[OrderOf[c]] = b /\ ApplyCaptured(c)
           \/ \E a \in Attempts, v \in Versions : BookingFor[a] = b /\ CancelConfirmed(a, v)
<1>. USE PaymentAssumption DEF TypeOK, BookingsTypeOK, PaidStatus
<1>1. ~ Unmoved /\ ~ SomeExpired /\ ~ SomeCreated /\ ~ MovedBy(SessionMove)
  <2>1. ~ Unmoved
    BY DEF Unmoved
  <2>2. ~ SomeExpired
    BY DEF SomeExpired, ExpireHolds, ExpiredStatus
  <2>3. ~ SomeCreated
    <3>1. SomeCreated => \/ bookingStatus'[b] = bookingStatus[b]
                         \/ /\ bookingStatus[b] \in {"absent", "held"}
                            /\ bookingStatus'[b] \in {"held", "expired"}
      BY DEF SomeCreated, CreateHold, ExpiredStatus, StaleHold
    <3>. QED
      BY <3>1
  <2>4. ~ MovedBy(SessionMove)
    BY DEF MovedBy, SessionMove, SetBooking
  <2>. QED
    BY <2>1, <2>2, <2>3, <2>4
<1>2. PaymentStep \/ CancellationStep
  <2>1. ~ StationStep /\ ~ UNCHANGED vars
    BY <1>1 DEF StationStep, vars, bookingVars, Unmoved
  <2>. QED
    BY <1>1, <2>1, BookingStepMoves, SessionStepMoves DEF Next
<1>3. ASSUME NEW d \in Bookings, NEW s \in BookingStatus \ PaidStatus,
             bookingStatus[d] \notin PaidStatus, SetBooking(d, s)
      PROVE  FALSE
  BY <1>3 DEF SetBooking
<1>4. ASSUME NEW d \in Bookings, NEW t \in Readings, ReleaseBooking(d, t)
      PROVE  FALSE
  BY <1>1, <1>3, <1>4 DEF ReleaseBooking, ReleasedStatus, Unmoved, bookingRow, BookingStatus
<1>5. CASE CancellationStep
  <2>1. ASSUME NEW d \in Bookings, NEW v \in Versions, NEW t \in Readings, CancelUnpaid(d, v, t)
        PROVE  FALSE
    BY <1>3, <2>1 DEF CancelUnpaid, BookingStatus
  <2>2. PICK a \in Attempts, v \in Versions : CancelConfirmed(a, v)
    BY <1>1, <1>5, <2>1
       DEF CancellationStep, RazorpayMakesRefund, RefundElsewhere, FinalizeRefund,
           RecordRefundFailure, RefundWebhookStep, IgnoreRefundEvent, ApplyRefundProcessed,
           ApplyRefundFailed, AcceptRefundEvent, Reconciliation, FetchRefund,
           ApplyFetchedRefund, Settlement, RefundSettles, bookingVars, Unmoved
  <2>3. BookingFor[a] = b
    BY <2>2 DEF CancelConfirmed, SetBooking
  <2>. QED
    BY <2>2, <2>3
<1>6. CASE PaymentStep
  <2>1. ASSUME NEW a \in Attempts,
               \/ \E v \in Versions, t \in Readings : BeginPaymentAttempt(a, v, t)
               \/ FinalizeOrder(a) \/ AbandonOrder(a)
               \/ \E t \in Readings : CompensateOrderFailure(a, t)
        PROVE  FALSE
    BY <1>1, <1>3, <1>4, <2>1
       DEF BeginPaymentAttempt, FinalizeOrder, AbandonOrder, CompensateOrderFailure,
           bookingVars, Unmoved, BookingStatus
  <2>2. ASSUME NEW c \in Charges,
               \/ ChargeFails(c) \/ ChargeIsAuthorized(c) \/ ChargeIsCaptured(c)
               \/ VerifyCheckout(c) \/ ApplyAuthorized(c) \/ ApplyLateCapture(c)
               \/ \E type \in PaymentEvent : IgnorePaymentEvent(type, c)
        PROVE  FALSE
    BY <1>1, <2>2
       DEF ChargeFails, ChargeIsAuthorized, ChargeIsCaptured, Emit, VerifyCheckout,
           ApplyAuthorized, ApplyLateCapture, IgnorePaymentEvent, bookingVars, bookingRow, Unmoved
  <2>3. ASSUME NEW c \in Charges, NEW t \in Readings, ApplyFailed(c, t)
        PROVE  FALSE
    BY <1>1, <1>4, <2>3 DEF ApplyFailed, bookingRow, Unmoved
  <2>4. PICK c \in Charges : ApplyCaptured(c)
    BY <1>6, <2>1, <2>2, <2>3 DEF PaymentStep, WebhookStep
  <2>5. BookingFor[OrderOf[c]] = b
    BY <2>4 DEF ApplyCaptured, SetBooking
  <2>. QED
    BY <2>4, <2>5
<1>. QED
  BY <1>2, <1>5, <1>6

\* A booking is confirmed by a capture of the right amount and nothing else.
LEMMA ConfirmationIsPaid ==
    ASSUME TypeOK, RefundsInv, NEW c \in Charges, ApplyCaptured(c), UNCHANGED refundVars
    PROVE  PaysFor(OrderOf[c], BookingFor[OrderOf[c]])'
<1>1. bookingStatus[BookingFor[OrderOf[c]]] = "payment_pending"
  BY DEF ApplyCaptured
<1>2. ~ HasRefund(OrderOf[c])
  BY <1>1, PaymentAssumption DEF RefundsInv, RefundTrail
<1>3. /\ paymentStatus'[OrderOf[c]] = "captured"
      /\ chargeOf'[OrderOf[c]] = c
      /\ c \notin Mispriced
      /\ Captured(c)'
  BY PaymentAssumption
     DEF ApplyCaptured, AcceptPaymentEvent, Receive, SetPayment, TypeOK, PaymentsTypeOK, Captured
<1>. QED
  BY <1>2, <1>3 DEF PaysFor, HasRefund, refundVars

LEMMA StepsKeepConfirmedPaid ==
    ASSUME TypeOK, UnansweredHasNoId, RefundsInv, ConfirmedIsPaid, [Next]_vars
    PROVE  ConfirmedIsPaid'
<1>1. ASSUME NEW b \in Bookings, bookingStatus'[b] \in PaidStatus
      PROVE  \E a \in Attempts : PaysFor(a, b)'
  <2>1. CASE bookingStatus[b] \in PaidStatus
    <3>1. PICK a \in Attempts : PaysFor(a, b)
      BY <2>1 DEF ConfirmedIsPaid, PaysFor
    <3>. QED
      BY <1>1, <3>1, PaymentLasts DEF PaidStatus
  <2>2. CASE bookingStatus[b] \notin PaidStatus
    <3>1. ASSUME NEW a \in Attempts, NEW v \in Versions, BookingFor[a] = b, CancelConfirmed(a, v)
          PROVE  FALSE
      BY <2>2, <3>1 DEF CancelConfirmed, PaidStatus
    <3>2. PICK c \in Charges : BookingFor[OrderOf[c]] = b /\ ApplyCaptured(c)
      BY <1>1, <2>2, <3>1, PaidStatusChanges
    <3>3. UNCHANGED refundVars
      <4>1. ~ CancellationStep
        <5>1. bookingStatus[b] = "payment_pending" /\ bookingStatus'[b] = "confirmed"
          BY <3>2, PaymentAssumption DEF ApplyCaptured, SetBooking, TypeOK, BookingsTypeOK
        <5>. QED
          BY <5>1, CancellationStepOnlyCancels
      <4>. QED
        BY <4>1 DEF Next, StationStep, BookingStep, PaymentStep, SessionStep, vars
    <3>. QED
      BY <3>2, <3>3, ConfirmationIsPaid, PaymentAssumption
  <2>. QED
    BY <2>1, <2>2
<1>. QED
  BY <1>1 DEF ConfirmedIsPaid, PaysFor

\* No slot is kept or used without money: for every booking that is confirmed,
\* charging or completed, Razorpay captured the right amount, and it is not on
\* its way back (_apply_captured_payment, _prepare_cancellation).
THEOREM ConfirmedBookingsArePaid == Spec => []ConfirmedIsPaid
<1>1. Init => ConfirmedIsPaid
  BY DEF Init, BookingsInit, ConfirmedIsPaid, PaidStatus
<1>2. TypeOK /\ UnansweredHasNoId /\ RefundsInv /\ ConfirmedIsPaid /\ [Next]_vars => ConfirmedIsPaid'
  BY StepsKeepConfirmedPaid
<1>. QED
  BY <1>1, <1>2, MoneyInvariants, PTL DEF Spec

-----------------------------------------------------------------------------
(* Captured money is accounted for.                                        *)

\* An attempt that a step makes one with money is accounted for at once.
LEMMA NewMoneyIsAccountedFor ==
    ASSUME TypeOK, RefundsInv, [Next]_vars, NEW a \in Attempts, ~ HasMoney(a), HasMoney(a)'
    PROVE  Accounted(a)'
<1>. USE PaymentAssumption DEF TypeOK, BookingsTypeOK, PaymentsTypeOK
<1>1. CASE StationStep \/ BookingStep \/ SessionStep \/ UNCHANGED vars
  BY <1>1 DEF StationStep, BookingStep, SessionStep, vars, paymentVars, HasMoney
<1>2. CASE CancellationStep
  <2>1. HasRefund(a)
    BY <1>2, CancellationStepAndAttempts DEF HasMoney
  <2>2. HasRefund(a)'
    BY <2>1, StepsKeepRefundRows DEF RefundRowsKept
  <2>. QED
    BY <2>2 DEF Accounted
<1>3. CASE PaymentStep
  <2>1. PICK c \in Charges : OrderOf[c] = a /\ (ApplyCaptured(c) \/ ApplyLateCapture(c))
    BY <1>3, PaymentStepAndMoney
  <2>2. CASE ApplyCaptured(c)
    <3>1. bookingStatus'[BookingFor[a]] = "confirmed"
      BY <2>1, <2>2 DEF ApplyCaptured, SetBooking
    <3>. QED
      BY <3>1 DEF Accounted, PaidStatus
  <2>3. CASE ApplyLateCapture(c)
    <3>1. \/ lastError'[a] = "captured_after_booking_closed"
          \/ bookingStatus'[BookingFor[a]] = "confirmed"
      BY <2>1, <2>3 DEF ApplyLateCapture, ClosedToCapture, SetError, bookingRow
    <3>. QED
      BY <3>1 DEF Accounted, PaidStatus
  <2>. QED
    BY <2>1, <2>2, <2>3
<1>. QED
  BY <1>1, <1>2, <1>3 DEF Next

LEMMA StepsKeepFlags ==
    ASSUME TypeOK, [Next]_vars
    PROVE  FlagsAreKept
<1>1. CASE StationStep \/ BookingStep \/ SessionStep \/ UNCHANGED vars
  BY <1>1 DEF StationStep, BookingStep, SessionStep, vars, paymentVars, FlagsAreKept
<1>. QED
  BY <1>1, PaymentStepLeavesATrace, CancellationStepLeavesATrace DEF Next

\* No other attempt of the booking brought money in.
Lone(a) == \A x \in Attempts : HasMoney(x) /\ BookingFor[x] = BookingFor[a] => x = a

\* A booking that ceases to be paid for is one whose captured payment is being
\* refunded: if only one attempt brought money in, it is that one's.
LEMMA AccountLasts ==
    ASSUME TypeOK, UnansweredHasNoId, RefundsInv, [Next]_vars,
           NEW a \in Attempts, Accounted(a), Lone(a)'
    PROVE  Accounted(a)'
<1>. USE PaymentAssumption
<1>1. CASE HasRefund(a)
  BY <1>1, StepsKeepRefundRows DEF RefundRowsKept, Accounted
<1>2. CASE lastError[a] # "none"
  BY <1>2, StepsKeepFlags DEF FlagsAreKept, Accounted
<1>3. CASE bookingStatus[BookingFor[a]] \in PaidStatus /\ bookingStatus'[BookingFor[a]] \in PaidStatus
  BY <1>3 DEF Accounted
<1>4. CASE bookingStatus[BookingFor[a]] \in PaidStatus /\ bookingStatus'[BookingFor[a]] \notin PaidStatus
  <2>1. ASSUME NEW c \in Charges, BookingFor[OrderOf[c]] = BookingFor[a], ApplyCaptured(c)
        PROVE  FALSE
    BY <1>4, <2>1 DEF ApplyCaptured, PaidStatus
  <2>2. PICK d \in Attempts, v \in Versions : BookingFor[d] = BookingFor[a] /\ CancelConfirmed(d, v)
    BY <1>4, <2>1, PaidStatusChanges
  <2>3. HasMoney(d)' /\ HasRefund(d)'
    BY <2>2 DEF CancelConfirmed, paymentVars, HasMoney, HasRefund, SetRefund, TypeOK, RefundsTypeOK
  <2>4. d = a
    BY <2>2, <2>3 DEF Lone
  <2>. QED
    BY <2>3, <2>4 DEF Accounted
<1>. QED
  BY <1>1, <1>2, <1>3, <1>4 DEF Accounted

\* When one attempt at most brings in money for a booking, none of it is ever
\* kept in silence: the booking has it, or it is being given back, or the
\* attempt is flagged for staff, however captures, cancellations, expiries and
\* late webhooks interleave (_apply_captured_payment, _prepare_cancellation).
THEOREM LoneCapturesAreAccountedFor == Spec => []LoneCaptureIsAccountedFor
<1>1. Init => LoneCaptureIsAccountedFor
  BY DEF Init, PaymentsInit, LoneCaptureIsAccountedFor, HasMoney
<1>2. ASSUME TypeOK, UnansweredHasNoId, RefundsInv, LoneCaptureIsAccountedFor, [Next]_vars,
             NEW a \in Attempts, HasMoney(a)', Lone(a)'
      PROVE  Accounted(a)'
  <2>1. CASE ~ HasMoney(a)
    BY <1>2, <2>1, NewMoneyIsAccountedFor
  <2>2. CASE HasMoney(a)
    <3>1. Lone(a)
      BY <1>2, StepsKeepMoney DEF MoneyIsKept, Lone
    <3>2. Accounted(a)
      BY <1>2, <2>2, <3>1 DEF LoneCaptureIsAccountedFor, Lone
    <3>. QED
      BY <1>2, <3>2, AccountLasts
  <2>. QED
    BY <2>1, <2>2
<1>3. TypeOK /\ UnansweredHasNoId /\ RefundsInv /\ LoneCaptureIsAccountedFor /\ [Next]_vars
        => LoneCaptureIsAccountedFor'
  BY <1>2 DEF LoneCaptureIsAccountedFor, Lone
<1>. QED
  BY <1>1, <1>3, MoneyInvariants, PTL DEF Spec

-----------------------------------------------------------------------------
(* The ledger.  That an attempt brings in money once, and that a refund is  *)
(* of money that came in, needs to know which captures were taken.          *)

MoneyTrail(a) ==
    /\ HasMoney(a) => chargeOf[a] # NoCharge /\ Event("payment.captured", chargeOf[a]) \in seen
    /\ HasRefund(a) => HasMoney(a)

LedgerInv ==
    /\ \A a \in Attempts : MoneyTrail(a)
    /\ \A c \in Charges : Captured(c) => Authorized(c)

LEMMA SeenIsKept ==
    ASSUME TypeOK, RefundsInv, [Next]_vars
    PROVE  seen \subseteq seen'
<1>1. CASE StationStep \/ BookingStep \/ SessionStep \/ UNCHANGED vars
  BY <1>1 DEF StationStep, BookingStep, SessionStep, vars, paymentVars
<1>2. CASE PaymentStep
  BY <1>2 DEF PaymentStep, BeginPaymentAttempt, FinalizeOrder, AbandonOrder,
              CompensateOrderFailure, ChargeFails, ChargeIsAuthorized, ChargeIsCaptured, Emit,
              VerifyCheckout, WebhookStep, IgnorePaymentEvent, ApplyAuthorized, ApplyCaptured,
              ApplyLateCapture, ApplyFailed, AcceptPaymentEvent, Receive
<1>. QED
  BY <1>1, <1>2, CancellationStepAndAttempts DEF Next

LEMMA CapturesAreAuthorized ==
    ASSUME TypeOK, RefundsInv, [Next]_vars, NEW c \in Charges, Captured(c) => Authorized(c)
    PROVE  (Captured(c) => Authorized(c))'
<1>1. Authorized(c) => Authorized(c)'
  BY NewsAreKept DEF Authorized
<1>2. CASE ~ Captured(c) /\ Captured(c)'
  <2>1. ~ (StationStep \/ BookingStep \/ SessionStep \/ UNCHANGED vars)
    BY <1>2 DEF StationStep, BookingStep, SessionStep, vars, paymentVars, Captured
  <2>2. ~ CancellationStep
    BY <1>2, CancellationStepAndAttempts DEF Captured, PaymentEvent
  <2>3. ChargeIsCaptured(c)
    BY <1>2, <2>1, <2>2, PaymentEventsDiffer
       DEF Next, PaymentStep, BeginPaymentAttempt, FinalizeOrder, AbandonOrder,
           CompensateOrderFailure, ChargeFails, ChargeIsAuthorized, ChargeIsCaptured, Emit,
           VerifyCheckout, WebhookStep, IgnorePaymentEvent, ApplyAuthorized, ApplyCaptured,
           ApplyLateCapture, ApplyFailed, AcceptPaymentEvent, Captured
  <2>. QED
    BY <1>1, <2>3 DEF ChargeIsCaptured
<1>. QED
  BY <1>1, <1>2

LEMMA StepsKeepMoneyTrails ==
    ASSUME TypeOK, UnansweredHasNoId, RefundsInv, [Next]_vars,
           NEW a \in Attempts, MoneyTrail(a)
    PROVE  MoneyTrail(a)'
<1>1. MoneyIsKept /\ seen \subseteq seen' /\ RefundRowsKept(a)
  BY StepsKeepMoney, SeenIsKept, StepsKeepRefundRows
<1>2. HasRefund(a)' => HasMoney(a)'
  BY <1>1 DEF MoneyTrail, MoneyIsKept, RefundRowsKept, HasMoney
<1>3. CASE HasMoney(a) \/ ~ HasMoney(a)'
  BY <1>1, <1>2, <1>3 DEF MoneyTrail, MoneyIsKept
<1>4. CASE ~ HasMoney(a) /\ HasMoney(a)'
  <2>1. PaymentStep
    <3>1. CASE StationStep \/ BookingStep \/ SessionStep \/ UNCHANGED vars
      BY <1>4, <3>1 DEF StationStep, BookingStep, SessionStep, vars, paymentVars, HasMoney
    <3>2. CASE CancellationStep
      BY <1>4, <3>2, CancellationStepAndAttempts DEF MoneyTrail, HasMoney
    <3>. QED
      BY <3>1, <3>2 DEF Next
  <2>2. PICK c \in Charges : OrderOf[c] = a /\ (ApplyCaptured(c) \/ ApplyLateCapture(c))
    BY <1>4, <2>1, PaymentStepAndMoney
  <2>3. chargeOf'[a] = c /\ Event("payment.captured", c) \in seen'
    BY <2>2 DEF ApplyCaptured, ApplyLateCapture, AcceptPaymentEvent, Receive, TypeOK, PaymentsTypeOK
  <2>. QED
    BY <1>2, <2>3, PaymentAssumption DEF MoneyTrail
<1>. QED
  BY <1>3, <1>4

LEMMA LedgerInvariant == Spec => [](TypeOK /\ RefundsInv /\ AttemptsInv /\ LedgerInv)
<1>1. Init => LedgerInv
  BY DEF Init, PaymentsInit, RefundsInit, LedgerInv, MoneyTrail, HasMoney, HasRefund, Captured
<1>2. TypeOK /\ UnansweredHasNoId /\ RefundsInv /\ LedgerInv /\ [Next]_vars => LedgerInv'
  BY StepsKeepMoneyTrails, CapturesAreAuthorized DEF LedgerInv
<1>. QED
  BY <1>1, <1>2, MoneyInvariants, PTL DEF Spec

-----------------------------------------------------------------------------
(* What a step does to the ledger.                                         *)

Stages == [b \in Bookings |-> StageOf(b)]
Moneys == [a \in Attempts |-> MoneyOf(a)]
LedgerStep == [Ledger!Next]_<<Stages, Moneys>>

StageIs(k, s) ==
    /\ k = "absent" => s = "none"
    /\ k = "payment_pending" => s = "waiting"
    /\ k = "active" => s = "in_use"
    /\ k = "completed" => s = "used"
    /\ k \in {"held", "confirmed", "cancelled", "expired"} => s = k

MoneyIs(p, r, m) ==
    /\ p = "absent" => m = "none"
    /\ p \in {"initiated", "order_created", "authorized"} => m = "asked"
    /\ p = "failed" => m = "failed"
    /\ p = "refunded" => m = "returned"
    /\ p = "captured" /\ r = "absent" => m = "taken"
    /\ p = "captured" /\ r = "failed" => m = "refused"
    /\ p = "captured" /\ r \notin {"absent", "failed"} => m = "owed"

LEMMA StageCases ==
    ASSUME NEW b \in Bookings
    PROVE  /\ StageIs(bookingStatus[b], StageOf(b)) /\ StageIs(bookingStatus'[b], StageOf(b)')
           /\ bookingStatus'[b] = bookingStatus[b] => StageOf(b)' = StageOf(b)
BY DEF StageIs, StageOf

LEMMA MoneyCases ==
    ASSUME NEW a \in Attempts
    PROVE  /\ MoneyIs(paymentStatus[a], refundStatus[a], MoneyOf(a))
           /\ MoneyIs(paymentStatus'[a], refundStatus'[a], MoneyOf(a)')
           /\ paymentStatus'[a] = paymentStatus[a] /\ refundStatus'[a] = refundStatus[a]
                => MoneyOf(a)' = MoneyOf(a)
<1>1. MoneyIs(paymentStatus[a], refundStatus[a], MoneyOf(a))
  BY DEF MoneyIs, MoneyOf, HasRefund
<1>2. MoneyIs(paymentStatus'[a], refundStatus'[a], MoneyOf(a)')
  BY DEF MoneyIs, MoneyOf, HasRefund
<1>3. paymentStatus'[a] = paymentStatus[a] /\ refundStatus'[a] = refundStatus[a]
        => MoneyOf(a)' = MoneyOf(a)
  BY DEF MoneyOf, HasRefund
<1>. QED
  BY <1>1, <1>2, <1>3

LEMMA StageMoves ==
    ASSUME TypeOK, NEW b \in Bookings, NEW k, SetBooking(b, k)
    PROVE  /\ Stages' = [Stages EXCEPT ![b] = StageOf(b)']
           /\ Stages[b] = StageOf(b) /\ StageIs(bookingStatus[b], StageOf(b))
           /\ StageIs(k, StageOf(b)')
<1>1. bookingStatus'[b] = k /\ \A c \in Bookings \ {b} : bookingStatus'[c] = bookingStatus[c]
  BY DEF SetBooking, TypeOK, BookingsTypeOK
<1>2. \A c \in Bookings \ {b} : StageOf(c)' = StageOf(c)
  BY <1>1, StageCases
<1>. QED
  BY <1>1, <1>2, StageCases DEF Stages

OnlyMoneyOf(a) ==
    \A x \in Attempts \ {a} : paymentStatus'[x] = paymentStatus[x] /\ refundStatus'[x] = refundStatus[x]

LEMMA MoneyMoves ==
    ASSUME NEW a \in Attempts, OnlyMoneyOf(a)
    PROVE  /\ Moneys' = [Moneys EXCEPT ![a] = MoneyOf(a)']
           /\ Moneys[a] = MoneyOf(a)
           /\ MoneyOf(a)' = MoneyOf(a) => Moneys' = Moneys
           /\ MoneyIs(paymentStatus[a], refundStatus[a], MoneyOf(a))
           /\ MoneyIs(paymentStatus'[a], refundStatus'[a], MoneyOf(a)')
<1>1. \A x \in Attempts \ {a} : MoneyOf(x)' = MoneyOf(x)
  BY MoneyCases DEF OnlyMoneyOf
<1>. QED
  BY <1>1, MoneyCases DEF Moneys

LEMMA SameStages == ASSUME bookingStatus' = bookingStatus PROVE Stages' = Stages
BY StageCases DEF Stages

LEMMA SameMoneys ==
    ASSUME paymentStatus' = paymentStatus, refundStatus' = refundStatus
    PROVE  Moneys' = Moneys
BY MoneyCases DEF Moneys

LEMMA SameLedger ==
    ASSUME UNCHANGED <<bookingStatus, paymentStatus, refundStatus>>
    PROVE  LedgerStep
BY SameStages, SameMoneys DEF LedgerStep

LEMMA ExpiryKeepsLedger ==
    ASSUME TypeOK, SomeExpired, UNCHANGED <<paymentStatus, refundStatus>>
    PROVE  LedgerStep
<1>. USE DEF TypeOK, BookingsTypeOK
<1>1. PICK S \in SUBSET Bookings : (\A b \in S : bookingStatus[b] = "held") /\ ExpireHolds(S)
  BY DEF SomeExpired
<1>2. \A c \in S : Stages[c] = "held" /\ StageOf(c)' = "expired"
  BY <1>1, StageCases DEF ExpireHolds, ExpiredStatus, StageIs, Stages
<1>3. \A c \in Bookings \ S : StageOf(c)' = Stages[c]
  BY <1>1, StageCases DEF ExpireHolds, ExpiredStatus, Stages
<1>4. Stages' = [c \in Bookings |-> IF c \in S THEN "expired" ELSE Stages[c]] /\ Moneys' = Moneys
  BY <1>2, <1>3, SameMoneys DEF Stages
<1>5. Ledger!Lapse(S)
  BY <1>2, <1>4 DEF Ledger!Lapse, Stages, Moneys
<1>. QED
  BY <1>5 DEF LedgerStep, Ledger!Next

LEMMA HoldKeepsLedger ==
    ASSUME TypeOK, SomeCreated, UNCHANGED <<paymentStatus, refundStatus>>
    PROVE  LedgerStep
<1>. USE DEF TypeOK, BookingsTypeOK
<1>1. PICK b \in Bookings, t \in Readings : CreateHold(b, t)
  BY DEF SomeCreated
<1>2. PICK S \in SUBSET Bookings : S = {c \in Bookings : PointOf[c] = PointOf[b] /\ StaleHold(c, t)}
  OBVIOUS
<1>3. /\ bookingStatus[b] = "absent" /\ \A c \in S : bookingStatus[c] = "held"
      /\ bookingStatus' = [ExpiredStatus(S) EXCEPT ![b] = "held"]
  BY <1>1, <1>2 DEF CreateHold, StaleHold
<1>4. \A c \in Bookings : bookingStatus'[c] = IF c = b THEN "held"
                                             ELSE IF c \in S THEN "expired" ELSE bookingStatus[c]
  BY <1>3 DEF ExpiredStatus
<1>5. /\ Stages[b] = "none" /\ StageOf(b)' = "held"
      /\ \A c \in S : Stages[c] = "held"
      /\ \A c \in S \ {b} : StageOf(c)' = "expired"
  BY <1>3, <1>4, StageCases DEF StageIs, Stages
<1>6. \A c \in Bookings : c # b /\ c \notin S => StageOf(c)' = Stages[c]
  BY <1>4, StageCases DEF Stages
<1>7. /\ Stages' = [c \in Bookings |-> IF c = b THEN "held"
                                       ELSE IF c \in S THEN "expired" ELSE Stages[c]]
      /\ Moneys' = Moneys
  BY <1>5, <1>6, SameMoneys DEF Stages
<1>8. Ledger!Hold(b, S)
  BY <1>5, <1>7 DEF Ledger!Hold, Stages, Moneys
<1>. QED
  BY <1>8 DEF LedgerStep, Ledger!Next

LEMMA SessionKeepsLedger ==
    ASSUME TypeOK, MovedBy(SessionMove), UNCHANGED <<paymentStatus, refundStatus>>
    PROVE  LedgerStep
<1>1. PICK b \in Bookings, k \in BookingStatus :
        <<bookingStatus[b], k>> \in SessionMove /\ SetBooking(b, k)
  BY DEF MovedBy
<1>2. Moneys' = Moneys
  BY SameMoneys
<1>3. /\ Stages' = [Stages EXCEPT ![b] = StageOf(b)'] /\ Stages[b] = StageOf(b)
      /\ StageIs(bookingStatus[b], StageOf(b)) /\ StageIs(k, StageOf(b)')
  BY <1>1, StageMoves
<1>4. CASE bookingStatus[b] = "confirmed" /\ k = "active"
  <2>1. Ledger!Use(b)
    BY <1>2, <1>3, <1>4 DEF StageIs, Ledger!Use, Ledger!Move, Stages, Moneys
  <2>. QED
    BY <2>1 DEF LedgerStep, Ledger!Next
<1>5. CASE bookingStatus[b] = "active" /\ k = "completed"
  <2>1. Ledger!Finish(b)
    BY <1>2, <1>3, <1>5 DEF StageIs, Ledger!Finish, Ledger!Move, Stages, Moneys
  <2>. QED
    BY <2>1 DEF LedgerStep, Ledger!Next
<1>. QED
  BY <1>1, <1>4, <1>5 DEF SessionMove

\* An open attempt that fails releases the booking that waits for it.
LEMMA FailureKeepsLedger ==
    ASSUME TypeOK, NEW a \in Attempts, IsOpen(a), SetPayment(a, "failed"),
           refundStatus' = refundStatus,
           \/ \E t \in Readings : ReleaseBooking(BookingFor[a], t)
           \/ bookingStatus' = bookingStatus /\ bookingStatus[BookingFor[a]] # "payment_pending"
    PROVE  LedgerStep
<1>. USE PaymentAssumption
<1>1. paymentStatus'[a] = "failed" /\ OnlyMoneyOf(a)
  BY DEF SetPayment, OnlyMoneyOf, TypeOK, PaymentsTypeOK
<1>2. Moneys' = [Moneys EXCEPT ![a] = "failed"] /\ Moneys[a] = "asked"
  BY <1>1, MoneyMoves DEF MoneyIs, IsOpen
<1>3. PICK b \in Bookings : b = BookingFor[a]
  OBVIOUS
<1>4. CASE bookingStatus[b] # "payment_pending"
  <2>1. bookingStatus' = bookingStatus
    BY <1>3, <1>4 DEF ReleaseBooking, bookingRow
  <2>2. Stages' = Stages /\ Stages[b] # "waiting"
    BY <1>4, <2>1, SameStages, StageCases DEF Stages, StageIs, TypeOK, BookingsTypeOK, BookingStatus
  <2>3. Ledger!Fail(a)
    BY <1>2, <1>3, <2>2 DEF Ledger!Fail, Ledger!Put, Stages, Moneys
  <2>. QED
    BY <2>3 DEF LedgerStep, Ledger!Next
<1>5. CASE bookingStatus[b] = "payment_pending"
  <2>1. PICK k \in {"held", "expired"} : SetBooking(b, k)
    BY <1>3, <1>5 DEF ReleaseBooking, ReleasedStatus
  <2>2. Stages' = [Stages EXCEPT ![b] = k] /\ Stages[b] = "waiting"
    BY <1>5, <2>1, StageMoves DEF StageIs
  <2>3. Ledger!Fail(a)
    BY <1>2, <1>3, <2>2 DEF Ledger!Fail, Ledger!Put, Ledger!Move, Stages, Moneys
  <2>. QED
    BY <2>3 DEF LedgerStep, Ledger!Next
<1>. QED
  BY <1>4, <1>5

\* No second capture is taken of an attempt, and none of one that never was.
LEMMA CaptureIsNews ==
    ASSUME TypeOK, NEW c \in Charges, ApplyCaptured(c) \/ ApplyLateCapture(c),
           CheckoutTrail(OrderOf[c]), MoneyTrail(OrderOf[c]), Captured(c) => Authorized(c)
    PROVE  /\ paymentStatus[OrderOf[c]] \in {"initiated", "order_created", "authorized", "failed"}
           /\ refundStatus[OrderOf[c]] = "absent"
<1>. USE PaymentAssumption DEF TypeOK, PaymentsTypeOK
<1>1. /\ Captured(c) /\ Event("payment.captured", c) \notin seen
      /\ chargeOf[OrderOf[c]] \in {NoCharge, c}
  BY DEF ApplyCaptured, ApplyLateCapture, AcceptPaymentEvent, Receive, IsOther, Captured
<1>2. ~ HasMoney(OrderOf[c])
  BY <1>1 DEF MoneyTrail
<1>3. paymentStatus[OrderOf[c]] # "absent"
  BY <1>1 DEF CheckoutTrail, NoNews
<1>. QED
  BY <1>2, <1>3 DEF MoneyTrail, HasMoney, HasRefund, PaymentStatus

LEMMA CaptureKeepsLedger ==
    ASSUME TypeOK, NEW c \in Charges, ApplyCaptured(c) \/ ApplyLateCapture(c),
           CheckoutTrail(OrderOf[c]), MoneyTrail(OrderOf[c]), Captured(c) => Authorized(c),
           refundStatus' = refundStatus
    PROVE  LedgerStep
<1>. USE PaymentAssumption
<1>1. PICK a \in Attempts : a = OrderOf[c]
  OBVIOUS
<1>2. PICK b \in Bookings : b = BookingFor[a]
  OBVIOUS
<1>3. paymentStatus'[a] = "captured" /\ OnlyMoneyOf(a)
  BY <1>1 DEF ApplyCaptured, ApplyLateCapture, SetPayment, OnlyMoneyOf, TypeOK, PaymentsTypeOK
<1>4. /\ paymentStatus[a] \in {"initiated", "order_created", "authorized", "failed"}
      /\ refundStatus[a] = "absent" /\ refundStatus'[a] = "absent"
  BY <1>1, CaptureIsNews
<1>5. Moneys' = [Moneys EXCEPT ![a] = "taken"] /\ Moneys[a] \in {"asked", "failed"}
  BY <1>3, <1>4, MoneyMoves DEF MoneyIs
<1>6. CASE ApplyCaptured(c)
  <2>1. Stages' = [Stages EXCEPT ![b] = "confirmed"] /\ Stages[b] = "waiting"
    BY <1>1, <1>2, <1>6, StageMoves DEF ApplyCaptured, StageIs
  <2>2. Ledger!Take(a)
    BY <1>2, <1>5, <2>1 DEF Ledger!Take, Ledger!Put, Ledger!Move, Stages, Moneys
  <2>. QED
    BY <2>2 DEF LedgerStep, Ledger!Next
<1>7. CASE ApplyLateCapture(c)
  <2>1. bookingStatus' = bookingStatus /\ bookingStatus[b] # "payment_pending"
    BY <1>1, <1>2, <1>7 DEF ApplyLateCapture, bookingRow
  <2>2. Stages' = Stages /\ Stages[b] # "waiting"
    BY <2>1, SameStages, StageCases DEF Stages, StageIs, TypeOK, BookingsTypeOK, BookingStatus
  <2>3. Ledger!Take(a)
    BY <1>2, <1>5, <2>2 DEF Ledger!Take, Ledger!Put, Stages, Moneys
  <2>. QED
    BY <2>3 DEF LedgerStep, Ledger!Next
<1>. QED
  BY <1>6, <1>7

LEMMA BeginKeepsLedger ==
    ASSUME TypeOK, NEW a \in Attempts, NEW v \in Versions, NEW t \in Readings,
           BeginPaymentAttempt(a, v, t), refundStatus' = refundStatus
    PROVE  LedgerStep
<1>. USE PaymentAssumption
<1>1. PICK b \in Bookings : b = BookingFor[a]
  OBVIOUS
<1>2. /\ paymentStatus[a] = "absent" /\ paymentStatus'[a] = "initiated" /\ OnlyMoneyOf(a)
      /\ bookingStatus[b] = "held" /\ SetBooking(b, "payment_pending")
  BY <1>1 DEF BeginPaymentAttempt, SetPayment, OnlyMoneyOf, TypeOK, PaymentsTypeOK
<1>3. Moneys' = [Moneys EXCEPT ![a] = "asked"] /\ Moneys[a] = "none"
  BY <1>2, MoneyMoves DEF MoneyIs
<1>4. Stages' = [Stages EXCEPT ![b] = "waiting"] /\ Stages[b] = "held"
  BY <1>2, StageMoves DEF StageIs
<1>5. Ledger!Ask(a)
  BY <1>1, <1>3, <1>4 DEF Ledger!Ask, Ledger!Move, Ledger!Put, Stages, Moneys
<1>. QED
  BY <1>5 DEF LedgerStep, Ledger!Next

\* An attempt that stays open is nothing to the ledger.
LEMMA OpenAttemptKeepsLedger ==
    ASSUME TypeOK, NEW a \in Attempts, NEW k, SetPayment(a, k),
           \/ k = paymentStatus[a]
           \/ IsOpen(a) /\ k \in {"initiated", "order_created", "authorized"},
           UNCHANGED <<bookingStatus, refundStatus>>
    PROVE  LedgerStep
<1>1. paymentStatus'[a] = k /\ OnlyMoneyOf(a)
  BY DEF SetPayment, OnlyMoneyOf, TypeOK, PaymentsTypeOK
<1>2. MoneyOf(a)' = MoneyOf(a)
  BY <1>1, MoneyCases DEF MoneyIs, IsOpen
<1>. QED
  BY <1>1, <1>2, MoneyMoves, SameStages DEF LedgerStep

LEMMA PaymentStepKeepsLedger ==
    ASSUME TypeOK, AttemptsInv, LedgerInv, PaymentStep
    PROVE  LedgerStep
<1>. USE PaymentAssumption
<1>1. refundStatus' = refundStatus
  BY DEF PaymentStep, refundVars
<1>2. \A a \in Attempts : CheckoutTrail(a) /\ MoneyTrail(a)
  BY DEF AttemptsInv, LedgerInv
<1>3. ASSUME NEW a \in Attempts, NEW v \in Versions, NEW t \in Readings,
             BeginPaymentAttempt(a, v, t)
      PROVE  LedgerStep
  BY <1>1, <1>3, BeginKeepsLedger
<1>4. ASSUME NEW a \in Attempts, FinalizeOrder(a)
      PROVE  LedgerStep
  BY <1>1, <1>4, OpenAttemptKeepsLedger DEF FinalizeOrder, bookingVars, bookingRow, IsOpen
<1>5. ASSUME NEW a \in Attempts,
             AbandonOrder(a) \/ \E t \in Readings : CompensateOrderFailure(a, t)
      PROVE  LedgerStep
  BY <1>1, <1>5, FailureKeepsLedger
     DEF AbandonOrder, CompensateOrderFailure, bookingVars, bookingRow, IsOpen
<1>6. ASSUME NEW c \in Charges, NEW t \in Readings, ApplyFailed(c, t)
      PROVE  LedgerStep
  <2>1. CASE paymentStatus[OrderOf[c]] \in {"captured", "refunded"}
    BY <1>1, <1>6, <2>1, SameLedger DEF ApplyFailed, bookingRow
  <2>2. CASE paymentStatus[OrderOf[c]] \notin {"captured", "refunded"}
    <3>1. IsOpen(OrderOf[c])
      BY <1>2, <1>6, <2>2, FailureIsOfOpenAttempt
    <3>2. SetPayment(OrderOf[c], "failed") /\ ReleaseBooking(BookingFor[OrderOf[c]], t)
      BY <1>6, <2>2 DEF ApplyFailed
    <3>. QED
      BY <1>1, <3>1, <3>2, FailureKeepsLedger
  <2>. QED
    BY <2>1, <2>2
<1>7. ASSUME NEW c \in Charges,
             \/ ChargeFails(c) \/ ChargeIsAuthorized(c) \/ ChargeIsCaptured(c)
             \/ \E type \in PaymentEvent : IgnorePaymentEvent(type, c)
      PROVE  LedgerStep
  BY <1>1, <1>7, SameLedger DEF ChargeFails, ChargeIsAuthorized, ChargeIsCaptured, Emit,
                               IgnorePaymentEvent, bookingVars, bookingRow, paymentRow
<1>8. ASSUME NEW c \in Charges, VerifyCheckout(c) \/ ApplyAuthorized(c)
      PROVE  LedgerStep
  <2>1. PICK a \in Attempts : a = OrderOf[c]
    OBVIOUS
  <2>. QED
    BY <1>1, <1>8, <2>1, OpenAttemptKeepsLedger
       DEF VerifyCheckout, ApplyAuthorized, bookingVars, bookingRow, IsOpen
<1>9. ASSUME NEW c \in Charges, ApplyCaptured(c) \/ ApplyLateCapture(c)
      PROVE  LedgerStep
  BY <1>1, <1>2, <1>9, CaptureKeepsLedger DEF LedgerInv
<1>. QED
  BY <1>3, <1>4, <1>5, <1>6, <1>7, <1>8, <1>9 DEF PaymentStep, WebhookStep

\* What is done to a refund that was requested, and to its payment.
RefundMoves(a) ==
    /\ HasRefund(a) /\ OnlyMoneyOf(a) /\ bookingStatus' = bookingStatus
    /\ \/ refundStatus'[a] = refundStatus[a] /\ paymentStatus'[a] = paymentStatus[a]
       \/ refundStatus'[a] = "processed" /\ paymentStatus'[a] = "refunded"
       \/ /\ refundStatus[a] # "processed" /\ paymentStatus'[a] = paymentStatus[a]
          /\ \/ refundStatus'[a] = "failed"
             \/ refundStatus[a] = "requested" /\ refundStatus'[a] = "pending"

LEMMA RefundSteps ==
    ASSUME TypeOK, RefundsInv, CancellationStep
    PROVE  \/ \E b \in Bookings, v \in Versions, t \in Readings : CancelUnpaid(b, v, t)
           \/ \E a \in Attempts, v \in Versions : CancelConfirmed(a, v)
           \/ UNCHANGED <<bookingStatus, paymentStatus, refundStatus>>
           \/ \E a \in Attempts : RefundMoves(a)
<1>. USE DEF TypeOK, PaymentsTypeOK, RefundsTypeOK, SetRefund, SetPayment, SettleRefund,
             bookingVars, bookingRow, OnlyMoneyOf
<1>1. ASSUME NEW r \in Refunds,
             \/ \E a \in Attempts : RazorpayMakesRefund(a, r)
             \/ RefundElsewhere(r)
             \/ \E type \in RefundEvent : IgnoreRefundEvent(type, r) \/ RefundSettles(r, type)
      PROVE  UNCHANGED <<bookingStatus, paymentStatus, refundStatus>>
  BY <1>1 DEF RazorpayMakesRefund, RefundElsewhere, IgnoreRefundEvent, RefundSettles,
              paymentVars, paymentRow, refundVars, refundRow
<1>2. ASSUME NEW a \in Attempts, FetchRefund(a)
      PROVE  UNCHANGED <<bookingStatus, paymentStatus, refundStatus>>
  BY <1>2 DEF FetchRefund, paymentVars, refundRow
<1>3. ASSUME NEW a \in Attempts, NEW status \in RefundStatus, FinalizeRefund(a, status)
      PROVE  RefundMoves(a)
  <2>1. HasRefund(a)
    BY <1>3, RefundAssumption DEF FinalizeRefund, RefundsInv, RefundTrail
  <2>2. status \in {"pending", "processed", "failed"}
    BY <1>3 DEF FinalizeRefund, ProviderStatus
  <2>. QED
    BY <1>3, <2>1, <2>2 DEF FinalizeRefund, RefundMoves
<1>4. ASSUME NEW a \in Attempts, RecordRefundFailure(a)
      PROVE  RefundMoves(a)
  <2>1. HasRefund(a)
    BY <1>4 DEF RecordRefundFailure, RefundsInv, RefundTrail
  <2>. QED
    BY <1>4, <2>1 DEF RecordRefundFailure, RefundMoves, paymentVars
<1>5. ASSUME NEW a \in Attempts, NEW r \in Refunds,
             ApplyRefundProcessed(a, r) \/ ApplyRefundFailed(a, r)
      PROVE  RefundMoves(a)
  BY <1>5 DEF ApplyRefundProcessed, ApplyRefundFailed, AcceptRefundEvent, RefundTarget, RefundMoves
<1>6. ASSUME NEW a \in Attempts, ApplyFetchedRefund(a)
      PROVE  \/ UNCHANGED <<bookingStatus, paymentStatus, refundStatus>>
             \/ RefundMoves(a)
  BY <1>6 DEF ApplyFetchedRefund, RefundMoves, HasRefund
<1>. QED
  BY <1>1, <1>2, <1>3, <1>4, <1>5, <1>6
     DEF CancellationStep, RefundWebhookStep, Reconciliation, Settlement

LEMMA RefundMovesKeepLedger ==
    ASSUME TypeOK, RefundsInv, NEW a \in Attempts, MoneyTrail(a), RefundMoves(a)
    PROVE  LedgerStep
<1>1. /\ paymentStatus[a] \in {"captured", "refunded"}
      /\ refundStatus[a] \in {"requested", "pending", "processed", "failed"}
      /\ paymentStatus[a] = "refunded" <=> refundStatus[a] = "processed"
  BY DEF MoneyTrail, RefundMoves, HasMoney, HasRefund, RefundsInv, RefundTrail, TypeOK,
         RefundsTypeOK, RefundStatus
<1>2. /\ Moneys' = [Moneys EXCEPT ![a] = MoneyOf(a)'] /\ Moneys[a] = MoneyOf(a)
      /\ MoneyOf(a)' = MoneyOf(a) => Moneys' = Moneys
      /\ MoneyIs(paymentStatus[a], refundStatus[a], MoneyOf(a))
      /\ MoneyIs(paymentStatus'[a], refundStatus'[a], MoneyOf(a)')
  BY MoneyMoves DEF RefundMoves
<1>3. Stages' = Stages
  BY SameStages DEF RefundMoves
<1>4. CASE MoneyOf(a)' = MoneyOf(a)
  BY <1>2, <1>3, <1>4 DEF LedgerStep
<1>5. CASE refundStatus'[a] = refundStatus[a] /\ paymentStatus'[a] = paymentStatus[a]
  BY <1>4, <1>5, MoneyCases
<1>6. CASE refundStatus'[a] = "processed" /\ paymentStatus'[a] = "refunded"
  <2>1. MoneyOf(a)' = "returned" /\ MoneyOf(a) \in {"owed", "refused", "returned"}
    BY <1>1, <1>2, <1>6 DEF MoneyIs
  <2>2. CASE MoneyOf(a) # "returned"
    <3>1. Ledger!Return(a)
      BY <1>2, <1>3, <2>1, <2>2 DEF Ledger!Return, Ledger!Put, Stages, Moneys
    <3>. QED
      BY <3>1 DEF LedgerStep, Ledger!Next
  <2>. QED
    BY <1>4, <2>1, <2>2
<1>7. CASE refundStatus[a] # "processed" /\ paymentStatus'[a] = paymentStatus[a]
           /\ refundStatus'[a] = "failed"
  <2>1. MoneyOf(a)' = "refused" /\ MoneyOf(a) \in {"owed", "refused"}
    BY <1>1, <1>2, <1>7 DEF MoneyIs
  <2>2. CASE MoneyOf(a) = "owed"
    <3>1. Ledger!Refuse(a)
      BY <1>2, <1>3, <2>1, <2>2 DEF Ledger!Refuse, Ledger!Put, Stages, Moneys
    <3>. QED
      BY <3>1 DEF LedgerStep, Ledger!Next
  <2>. QED
    BY <1>4, <2>1, <2>2
<1>8. CASE paymentStatus'[a] = paymentStatus[a]
           /\ refundStatus[a] = "requested" /\ refundStatus'[a] = "pending"
  <2>1. MoneyOf(a)' = "owed" /\ MoneyOf(a) = "owed"
    BY <1>1, <1>2, <1>8 DEF MoneyIs
  <2>. QED
    BY <1>4, <2>1
<1>. QED
  BY <1>5, <1>6, <1>7, <1>8 DEF RefundMoves

LEMMA CancellationStepKeepsLedger ==
    ASSUME TypeOK, RefundsInv, LedgerInv, CancellationStep
    PROVE  LedgerStep
<1>. USE PaymentAssumption
<1>1. ASSUME NEW b \in Bookings, NEW v \in Versions, NEW t \in Readings, CancelUnpaid(b, v, t)
      PROVE  LedgerStep
  <2>1. /\ bookingStatus[b] \in {"held", "payment_pending"} /\ SetBooking(b, "cancelled")
        /\ Moneys' = Moneys
    BY <1>1, SameMoneys DEF CancelUnpaid, paymentVars, refundVars
  <2>2. Stages' = [Stages EXCEPT ![b] = "cancelled"] /\ Stages[b] \in {"held", "waiting"}
    BY <2>1, StageMoves DEF StageIs
  <2>3. Ledger!Cancel(b)
    BY <2>1, <2>2 DEF Ledger!Cancel, Ledger!Move, Stages, Moneys
  <2>. QED
    BY <2>3 DEF LedgerStep, Ledger!Next
<1>2. ASSUME NEW a \in Attempts, NEW v \in Versions, CancelConfirmed(a, v)
      PROVE  LedgerStep
  <2>1. PICK b \in Bookings : b = BookingFor[a]
    OBVIOUS
  <2>2. /\ bookingStatus[b] = "confirmed" /\ SetBooking(b, "cancelled")
        /\ paymentStatus[a] = "captured" /\ refundStatus[a] = "absent"
        /\ paymentStatus'[a] = "captured" /\ refundStatus'[a] = "requested" /\ OnlyMoneyOf(a)
    BY <1>2, <2>1 DEF CancelConfirmed, HasRefund, SetRefund, paymentVars, OnlyMoneyOf, TypeOK,
                      RefundsTypeOK
  <2>3. Stages' = [Stages EXCEPT ![b] = "cancelled"] /\ Stages[b] = "confirmed"
    BY <2>2, StageMoves DEF StageIs
  <2>4. Moneys' = [Moneys EXCEPT ![a] = "owed"] /\ Moneys[a] = "taken"
    BY <2>2, MoneyMoves DEF MoneyIs
  <2>5. Ledger!CancelPaid(a)
    BY <2>1, <2>3, <2>4 DEF Ledger!CancelPaid, Ledger!Move, Ledger!Put, Stages, Moneys
  <2>. QED
    BY <2>5 DEF LedgerStep, Ledger!Next
<1>3. ASSUME NEW a \in Attempts, RefundMoves(a)
      PROVE  LedgerStep
  BY <1>3, RefundMovesKeepLedger DEF LedgerInv
<1>. QED
  BY <1>1, <1>2, <1>3, RefundSteps, SameLedger

\* Booking, payments and refunds tell one story, whatever handlers, webhooks and
\* jobs do in whatever order: each step is one of the ledger or nothing to it.
\* (_apply_payment_event, _prepare_cancellation, _apply_refund_event)
THEOREM LedgerIsKept == Spec => KeepsLedger
<1>1. Init => Ledger!Init
  <2>1. Init => /\ \A b \in Bookings : StageOf(b) = "none"
                /\ \A a \in Attempts : MoneyOf(a) = "none"
    BY StageCases, MoneyCases DEF Init, BookingsInit, PaymentsInit, StageIs, MoneyIs
  <2>. QED
    BY <2>1 DEF Ledger!Init
<1>2. ASSUME TypeOK, RefundsInv, AttemptsInv, LedgerInv, [Next]_vars
      PROVE  LedgerStep
  <2>1. CASE BookingStep \/ SessionStep
    <3>1. UNCHANGED <<paymentStatus, refundStatus>>
      BY <2>1 DEF BookingStep, SessionStep, paymentVars, refundVars
    <3>. QED
      BY <1>2, <2>1, <3>1, BookingStepMoves, SessionStepMoves, SameLedger, ExpiryKeepsLedger,
         HoldKeepsLedger, SessionKeepsLedger DEF Unmoved
  <2>2. CASE StationStep \/ UNCHANGED vars
    BY <2>2, SameLedger DEF StationStep, vars, bookingVars, bookingRow, paymentVars, refundVars
  <2>. QED
    BY <1>2, <2>1, <2>2, PaymentStepKeepsLedger, CancellationStepKeepsLedger DEF Next
<1>3. TypeOK /\ RefundsInv /\ AttemptsInv /\ LedgerInv /\ [Next]_vars
        => [Ledger!Next]_<<Stages, Moneys>>
  BY <1>2 DEF LedgerStep
<1>. QED
  BY <1>1, <1>3, LedgerInvariant, PTL
     DEF Spec, KeepsLedger, Ledger!Spec, Ledger!vars, Stages, Moneys

-----------------------------------------------------------------------------
(* What follows from the ledger alone.                                     *)

Books == INSTANCE PaymentLedger_proofs WITH
    stage <- [b \in Bookings |-> StageOf(b)],
    money <- [a \in Attempts |-> MoneyOf(a)]

\* A booking of the backend is confirmed and used against an attempt whose money
\* came in and that has no refund row, waits for one attempt only, and has a
\* refund only when it was cancelled.  (_apply_captured_payment,
\* _prepare_cancellation, _begin_payment_attempt)
THEOREM BackendBooksAgree == Spec => []Ledger!BooksAgree
<1>1. Books!Spec => []Books!BooksAgree
  BY PaymentAssumption, Books!LedgersAgree DEF Books!Assigned
<1>2. Ledger!Init => Books!Init
  BY DEF Ledger!Init, Books!Init
<1>3. [Ledger!Next]_Ledger!vars => [Books!Next]_Books!vars
  BY DEF Ledger!Hold, Ledger!Lapse, Ledger!Ask, Ledger!Fail, Ledger!Take,
         Ledger!Cancel, Ledger!CancelPaid, Ledger!Refuse, Ledger!Return,
         Ledger!Use, Ledger!Finish, Ledger!Move, Ledger!Put, Ledger!vars,
         Ledger!Next, Books!Hold, Books!Lapse, Books!Ask, Books!Fail,
         Books!Take, Books!Cancel, Books!CancelPaid, Books!Refuse,
         Books!Return, Books!Use, Books!Finish, Books!Move, Books!Put,
         Books!vars, Books!Next
<1>4. Books!BooksAgree => Ledger!BooksAgree
  BY DEF Ledger!BooksAgree, Books!BooksAgree, Ledger!Asked, Books!Asked
<1>. QED
  BY <1>1, <1>2, <1>3, <1>4, LedgerIsKept, PTL DEF KeepsLedger, Ledger!Spec, Books!Spec

=============================================================================
