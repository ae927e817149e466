-------------------------- MODULE ChargeMate_proofs -------------------------
(***************************************************************************)
(* Proofs about ChargeMate, for every set of bookings, attempts, charges   *)
(* and refunds, every interval and every bound.                            *)
(***************************************************************************)
EXTENDS ChargeMate, FiniteSetTheorems, TLAPS

-----------------------------------------------------------------------------
(* Type correctness, one lemma per component's step. *)

\* The helper that writes a booking row keeps the bookings table well typed.
LEMMA SetBookingType ==
    ASSUME BookingsTypeOK, NEW b \in Bookings, NEW s \in BookingStatus,
           SetBooking(b, s), UNCHANGED now
    PROVE  BookingsTypeOK'
BY DEF BookingsTypeOK, SetBooking

\* An expiry, by whichever handler, keeps it well typed as well.
LEMMA ExpireHoldsType ==
    ASSUME BookingsTypeOK, NEW S \in SUBSET Bookings, ExpireHolds(S), UNCHANGED now
    PROVE  BookingsTypeOK'
<1>1. "expired" \in BookingStatus
  BY DEF BookingStatus
<1>2. bookingStatus' \in [Bookings -> BookingStatus]
  BY <1>1 DEF BookingsTypeOK, ExpireHolds, ExpiredStatus
<1>3. bookingVersion' \in [Bookings -> Nat]
  BY DEF BookingsTypeOK, ExpireHolds, ExpiredVersion
<1>. QED
  BY <1>2, <1>3 DEF BookingsTypeOK, ExpireHolds

LEMMA ReadingsAreMoments == ASSUME BookingsTypeOK PROVE Readings \subseteq 0..now /\ now \in Nat
BY DEF BookingsTypeOK, Readings

LEMMA BookingStepType ==
    ASSUME TypeOK, BookingStep
    PROVE  TypeOK'
<1>. USE DEF TypeOK
<1>1. BookingsTypeOK'
  <2>1. CASE Tick
    BY <2>1 DEF Tick, BookingsTypeOK, bookingRow
  <2>2. CASE \E b \in Bookings, t \in Readings : CreateHold(b, t)
    <3>1. PICK b \in Bookings, t \in Readings : CreateHold(b, t)
      BY <2>2
    <3>2. t \in Nat
      BY ReadingsAreMoments
    <3>. DEFINE stale == {c \in Bookings : PointOf[c] = PointOf[b] /\ StaleHold(c, t)}
    <3>3. ExpiredStatus(stale) \in [Bookings -> BookingStatus]
      BY DEF ExpiredStatus, BookingsTypeOK, BookingStatus
    <3>4. ExpiredVersion(stale) \in [Bookings -> Nat]
      BY DEF ExpiredVersion, BookingsTypeOK
    <3>. HIDE DEF stale
    <3>5. /\ bookingStatus' = [ExpiredStatus(stale) EXCEPT ![b] = "held"]
          /\ bookingVersion' = [ExpiredVersion(stale) EXCEPT ![b] = 1]
          /\ holdExpiresAt' = [holdExpiresAt EXCEPT ![b] = t + HoldMinutes]
          /\ now' = now
      BY <3>1 DEF CreateHold, stale
    <3>. QED
      BY <3>2, <3>3, <3>4, <3>5, BookingAssumption DEF BookingsTypeOK, BookingStatus
  <2>3. CASE \E u \in Users, t \in Readings : ReadBookings(u, t)
    BY <2>3, ExpireHoldsType DEF ReadBookings
  <2>4. CASE ExpiryJob
    BY <2>4, ExpireHoldsType DEF ExpiryJob, ExpireBatch
  <2>. QED
    BY <2>1, <2>2, <2>3, <2>4 DEF BookingStep
<1>2. UNCHANGED <<stationVars, paymentVars, refundVars, sessionStatus>>
  BY DEF BookingStep
<1>. QED
  BY <1>1, <1>2 DEF stationVars, paymentVars, refundVars, StationsTypeOK, PaymentsTypeOK,
                    RefundsTypeOK, SessionsTypeOK

LEMMA StationStepType ==
    ASSUME TypeOK, StationStep
    PROVE  TypeOK'
<1>1. StationsTypeOK'
  BY DEF StationStep, UpdateStation, UpdateChargePoint, TypeOK, StationsTypeOK
<1>2. UNCHANGED <<bookingVars, paymentVars, refundVars, sessionStatus>>
  BY DEF StationStep
<1>. QED
  BY <1>1, <1>2 DEF TypeOK, bookingVars, paymentVars, refundVars, BookingsTypeOK,
                    PaymentsTypeOK, RefundsTypeOK, SessionsTypeOK

LEMMA SessionStepType ==
    ASSUME TypeOK, SessionStep
    PROVE  TypeOK'
<1>. USE DEF TypeOK
<1>1. BookingsTypeOK' /\ SessionsTypeOK'
  <2>1. ASSUME NEW b \in Bookings, NEW v \in Versions, NEW t \in Readings, StartSession(b, v, t)
        PROVE  BookingsTypeOK' /\ SessionsTypeOK'
    <3>1. BookingsTypeOK'
      BY <2>1, SetBookingType DEF StartSession, BookingStatus
    <3>. QED
      BY <2>1, <3>1 DEF StartSession, SessionsTypeOK, SessionStatus
  <2>2. ASSUME NEW b \in Bookings, CompleteSession(b)
        PROVE  BookingsTypeOK' /\ SessionsTypeOK'
    <3>1. BookingsTypeOK'
      BY <2>2, SetBookingType DEF CompleteSession, BookingStatus
    <3>. QED
      BY <2>2, <3>1 DEF CompleteSession, SessionsTypeOK, SessionStatus
  <2>. QED
    BY <2>1, <2>2 DEF SessionStep
<1>2. UNCHANGED <<stationVars, paymentVars, refundVars>>
  BY DEF SessionStep
<1>. QED
  BY <1>1, <1>2 DEF stationVars, paymentVars, refundVars, StationsTypeOK, PaymentsTypeOK,
                    RefundsTypeOK

\* Releasing a booking whose attempt failed writes a known status, or nothing.
LEMMA ReleaseBookingType ==
    ASSUME BookingsTypeOK, NEW b \in Bookings, NEW t \in Readings,
           ReleaseBooking(b, t), UNCHANGED now
    PROVE  BookingsTypeOK'
<1>1. ReleasedStatus(b, t) \in BookingStatus
  BY DEF ReleasedStatus, BookingStatus
<1>. QED
  BY <1>1, SetBookingType DEF ReleaseBooking, BookingsTypeOK, bookingRow

\* The rows a payment step writes, and the two sets of webhooks.
PaymentPart ==
    /\ BookingsTypeOK
    /\ PaymentsTypeOK
    /\ sent \subseteq EventId
    /\ seen \subseteq sent

LEMMA EventTyped ==
    /\ \A type \in PaymentEvent, c \in Charges : Event(type, c) \in EventId
    /\ \A type \in RefundEvent, r \in Refunds : Event(type, r) \in EventId
BY DEF Event, EventId

LEMMA EmitType ==
    ASSUME PaymentPart, NEW type \in PaymentEvent, NEW c \in Charges, Emit(Event(type, c))
    PROVE  PaymentPart'
<1>1. Event(type, c) \in EventId
  BY EventTyped
<1>. QED
  BY <1>1 DEF PaymentPart, Emit, bookingVars, paymentRow, BookingsTypeOK, PaymentsTypeOK, EventId

LEMMA WebhookStepType ==
    ASSUME PaymentPart, WebhookStep
    PROVE  PaymentPart'
<1>. USE PaymentAssumption DEF PaymentPart, Receive, SetPayment, SetError, AcceptPaymentEvent
<1>1. ASSUME NEW type \in PaymentEvent, NEW c \in Charges, IgnorePaymentEvent(type, c)
      PROVE  PaymentPart'
  BY <1>1 DEF IgnorePaymentEvent, bookingVars, BookingsTypeOK, PaymentsTypeOK, PaymentError,
              EventId
<1>2. ASSUME NEW c \in Charges, ApplyAuthorized(c)
      PROVE  PaymentPart'
  BY <1>2 DEF ApplyAuthorized, bookingRow, BookingsTypeOK, PaymentsTypeOK, PaymentStatus, EventId
<1>3. ASSUME NEW c \in Charges, ApplyCaptured(c)
      PROVE  PaymentPart'
  <2>1. BookingsTypeOK'
    BY <1>3, SetBookingType DEF ApplyCaptured, BookingStatus
  <2>. QED
    BY <1>3, <2>1 DEF ApplyCaptured, PaymentsTypeOK, PaymentStatus, EventId
<1>4. ASSUME NEW c \in Charges, ApplyLateCapture(c)
      PROVE  PaymentPart'
  BY <1>4 DEF ApplyLateCapture, bookingRow, BookingsTypeOK, PaymentsTypeOK, PaymentStatus,
              PaymentError, EventId
<1>5. ASSUME NEW c \in Charges, NEW t \in Readings, ApplyFailed(c, t)
      PROVE  PaymentPart'
  <2>1. BookingsTypeOK'
    <3>1. CASE UNCHANGED bookingRow
      BY <1>5, <3>1 DEF ApplyFailed, bookingRow, BookingsTypeOK
    <3>2. CASE ReleaseBooking(BookingFor[OrderOf[c]], t)
      BY <1>5, <3>2, ReleaseBookingType DEF ApplyFailed
    <3>. QED
      BY <1>5, <3>1, <3>2 DEF ApplyFailed
  <2>. QED
    BY <1>5, <2>1 DEF ApplyFailed, PaymentsTypeOK, PaymentStatus, EventId
<1>. QED
  BY <1>1, <1>2, <1>3, <1>4, <1>5 DEF WebhookStep

LEMMA PaymentStepType ==
    ASSUME TypeOK, PaymentStep
    PROVE  TypeOK'
<1>. USE PaymentAssumption DEF PaymentPart, SetPayment, SetError
<1>0. PaymentPart
  BY DEF TypeOK
<1>1. ASSUME NEW a \in Attempts, NEW v \in Versions, NEW t \in Readings,
             BeginPaymentAttempt(a, v, t)
      PROVE  PaymentPart'
  <2>1. BookingsTypeOK'
    BY <1>0, <1>1, SetBookingType DEF BeginPaymentAttempt, BookingStatus
  <2>. QED
    BY <1>0, <1>1, <2>1 DEF BeginPaymentAttempt, PaymentsTypeOK, PaymentStatus, EventId
<1>2. ASSUME NEW a \in Attempts, FinalizeOrder(a) \/ AbandonOrder(a)
      PROVE  PaymentPart'
  BY <1>0, <1>2 DEF FinalizeOrder, AbandonOrder, bookingVars, BookingsTypeOK, PaymentsTypeOK,
                    PaymentStatus, PaymentError, EventId
<1>3. ASSUME NEW a \in Attempts, NEW t \in Readings, CompensateOrderFailure(a, t)
      PROVE  PaymentPart'
  <2>1. BookingsTypeOK'
    BY <1>0, <1>3, ReleaseBookingType DEF CompensateOrderFailure
  <2>. QED
    BY <1>0, <1>3, <2>1 DEF CompensateOrderFailure, PaymentsTypeOK, PaymentStatus, PaymentError,
                            EventId
<1>4. ASSUME NEW c \in Charges, ChargeFails(c) \/ ChargeIsAuthorized(c) \/ ChargeIsCaptured(c)
      PROVE  PaymentPart'
  BY <1>0, <1>4, EmitType DEF ChargeFails, ChargeIsAuthorized, ChargeIsCaptured, PaymentEvent
<1>5. ASSUME NEW c \in Charges, VerifyCheckout(c)
      PROVE  PaymentPart'
  BY <1>0, <1>5 DEF VerifyCheckout, bookingVars, BookingsTypeOK, PaymentsTypeOK, PaymentStatus,
                    EventId
<1>6. PaymentPart'
  BY <1>0, <1>1, <1>2, <1>3, <1>4, <1>5, WebhookStepType DEF PaymentStep
<1>7. UNCHANGED <<stationVars, refundVars, sessionStatus>>
  BY DEF PaymentStep
<1>. QED
  BY <1>6, <1>7 DEF TypeOK, stationVars, refundVars, StationsTypeOK, RefundsTypeOK,
                    SessionsTypeOK

LEMMA CountIsNat == ASSUME IsFiniteSet(Attempts) PROVE
    Cardinality({x \in Attempts : HasRefund(x)}) \in Nat
BY FS_Subset, FS_CardinalityType

LEMMA RefundWebhookStepType ==
    ASSUME PaymentPart, RefundsTypeOK, RefundWebhookStep
    PROVE  PaymentPart' /\ RefundsTypeOK'
<1>. USE DEF PaymentPart, Receive, SetRefund, AcceptRefundEvent
<1>1. ASSUME NEW type \in RefundEvent, NEW r \in Refunds, IgnoreRefundEvent(type, r)
      PROVE  PaymentPart' /\ RefundsTypeOK'
  BY <1>1 DEF IgnoreRefundEvent, bookingVars, paymentRow, refundVars, BookingsTypeOK,
              PaymentsTypeOK, RefundsTypeOK, EventId
<1>2. ASSUME NEW a \in Attempts, NEW r \in Refunds, ApplyRefundProcessed(a, r)
      PROVE  PaymentPart' /\ RefundsTypeOK'
  BY <1>2 DEF ApplyRefundProcessed, SettleRefund, SetPayment, bookingVars, BookingsTypeOK,
              PaymentsTypeOK, PaymentStatus, RefundsTypeOK, RefundStatus, EventId
<1>3. ASSUME NEW a \in Attempts, NEW r \in Refunds, ApplyRefundFailed(a, r)
      PROVE  PaymentPart' /\ RefundsTypeOK'
  BY <1>3 DEF ApplyRefundFailed, bookingVars, BookingsTypeOK, PaymentsTypeOK, RefundsTypeOK,
              RefundStatus, EventId
<1>. QED
  BY <1>1, <1>2, <1>3 DEF RefundWebhookStep

LEMMA CancellationStepType ==
    ASSUME TypeOK, CancellationStep
    PROVE  TypeOK'
<1>. USE DEF PaymentPart, SetPayment, SetRefund, SetCall
<1>0. PaymentPart /\ RefundsTypeOK
  BY DEF TypeOK
<1>1. ASSUME NEW b \in Bookings, NEW v \in Versions, NEW t \in Readings, CancelUnpaid(b, v, t)
      PROVE  PaymentPart' /\ RefundsTypeOK'
  <2>1. BookingsTypeOK'
    BY <1>0, <1>1, SetBookingType DEF CancelUnpaid, BookingStatus
  <2>. QED
    BY <1>0, <1>1, <2>1 DEF CancelUnpaid, paymentVars, refundVars, PaymentsTypeOK, RefundsTypeOK,
                            EventId
<1>2. ASSUME NEW a \in Attempts, NEW v \in Versions, CancelConfirmed(a, v)
      PROVE  PaymentPart' /\ RefundsTypeOK'
  <2>1. BookingsTypeOK'
    BY <1>0, <1>2, SetBookingType, PaymentAssumption DEF CancelConfirmed, BookingStatus
  <2>2. Cardinality({x \in Attempts : HasRefund(x)}) \in Nat
    BY CountIsNat, PaymentAssumption
  <2>3. RefundsTypeOK'
    BY <1>0, <1>2, <2>2 DEF CancelConfirmed, RefundsTypeOK, RefundStatus
  <2>. QED
    BY <1>0, <1>2, <2>1, <2>3 DEF CancelConfirmed, paymentVars, PaymentsTypeOK, EventId
<1>3. ASSUME NEW r \in Refunds,
             (\E a \in Attempts : RazorpayMakesRefund(a, r)) \/ RefundElsewhere(r)
      PROVE  PaymentPart' /\ RefundsTypeOK'
  BY <1>0, <1>3 DEF RazorpayMakesRefund, RefundElsewhere, bookingVars, paymentVars, refundRow,
                    BookingsTypeOK, PaymentsTypeOK, RefundsTypeOK, EventId
<1>4. ASSUME NEW r \in Refunds, NEW type \in RefundEvent, RefundSettles(r, type)
      PROVE  PaymentPart' /\ RefundsTypeOK'
  <2>1. Event(type, r) \in EventId
    BY EventTyped
  <2>. QED
    BY <1>0, <1>4, <2>1 DEF RefundSettles, bookingVars, paymentRow, refundVars, BookingsTypeOK,
                            PaymentsTypeOK, RefundsTypeOK, EventId
<1>5. ASSUME NEW a \in Attempts, NEW status \in RefundStatus, FinalizeRefund(a, status)
      PROVE  PaymentPart' /\ RefundsTypeOK'
  BY <1>0, <1>5 DEF FinalizeRefund, SettleRefund, bookingVars, BookingsTypeOK, PaymentsTypeOK,
                    PaymentStatus, RefundsTypeOK, RefundStatus, EventId
<1>6. ASSUME NEW a \in Attempts, RecordRefundFailure(a)
      PROVE  PaymentPart' /\ RefundsTypeOK'
  BY <1>0, <1>6 DEF RecordRefundFailure, bookingVars, paymentVars, BookingsTypeOK,
                    PaymentsTypeOK, RefundsTypeOK, RefundStatus, EventId
<1>7. ASSUME NEW a \in Attempts, FetchRefund(a) \/ ApplyFetchedRefund(a)
      PROVE  PaymentPart' /\ RefundsTypeOK'
  BY <1>0, <1>7 DEF FetchRefund, ApplyFetchedRefund, ProviderStatus, SettleRefund, bookingVars,
                    paymentVars, refundRow, BookingsTypeOK, PaymentsTypeOK, PaymentStatus,
                    RefundsTypeOK, RefundStatus, EventId
<1>8. PaymentPart' /\ RefundsTypeOK'
  BY <1>0, <1>1, <1>2, <1>3, <1>4, <1>5, <1>6, <1>7, RefundWebhookStepType
     DEF CancellationStep, Reconciliation, Settlement
<1>9. UNCHANGED <<stationVars, sessionStatus>>
  BY DEF CancellationStep
<1>. QED
  BY <1>8, <1>9 DEF TypeOK, stationVars, StationsTypeOK, SessionsTypeOK

\* Every variable keeps its type in every run, for all values of the constants.
THEOREM TypeCorrect == Spec => []TypeOK
<1>1. Init => TypeOK
  BY DEF Init, StationsInit, BookingsInit, PaymentsInit, RefundsInit, SessionsInit, TypeOK,
         StationsTypeOK, BookingsTypeOK, PaymentsTypeOK, RefundsTypeOK, SessionsTypeOK,
         BookingStatus, PaymentStatus, PaymentError, RefundStatus, SessionStatus
<1>2. TypeOK /\ [Next]_vars => TypeOK'
  <2>1. TypeOK /\ UNCHANGED vars => TypeOK'
    BY DEF vars, stationVars, bookingVars, paymentVars, refundVars, TypeOK, StationsTypeOK,
           BookingsTypeOK, PaymentsTypeOK, RefundsTypeOK, SessionsTypeOK, EventId
  <2>. QED
    BY <2>1, StationStepType, BookingStepType, PaymentStepType, CancellationStepType,
       SessionStepType DEF Next
<1>. QED
  BY <1>1, <1>2, PTL DEF Spec

-----------------------------------------------------------------------------
(* What one step may do to the bookings.  Every handler, job and webhook   *)
(* does one of four things to them, so a property of bookings alone needs  *)
(* four cases and not one for each action.                                 *)

\* The statuses a single booking may be given by a payment, a webhook or a
\* cancellation.
PaymentMove == {<<"held", "payment_pending">>, <<"payment_pending", "confirmed">>,
                <<"payment_pending", "held">>, <<"payment_pending", "expired">>,
                <<"held", "cancelled">>, <<"payment_pending", "cancelled">>,
                <<"confirmed", "cancelled">>}

SessionMove == {<<"confirmed", "active">>, <<"active", "completed">>}

Unmoved == UNCHANGED <<bookingStatus, bookingVersion>>

MovedBy(Move) ==
    \E b \in Bookings, s \in BookingStatus :
        <<bookingStatus[b], s>> \in Move /\ SetBooking(b, s)

SomeExpired ==
    \E S \in SUBSET Bookings :
        /\ \A b \in S : bookingStatus[b] = "held"
        /\ ExpireHolds(S)

SomeCreated == \E b \in Bookings, t \in Readings : CreateHold(b, t)

LEMMA ReleaseMoves ==
    ASSUME NEW b \in Bookings, NEW t \in Readings, ReleaseBooking(b, t)
    PROVE  Unmoved \/ MovedBy(PaymentMove)
<1>1. CASE bookingStatus[b] = "payment_pending"
  <2>1. ReleasedStatus(b, t) \in BookingStatus
    BY DEF ReleasedStatus, BookingStatus
  <2>2. <<bookingStatus[b], ReleasedStatus(b, t)>> \in PaymentMove
    BY <1>1 DEF ReleasedStatus, PaymentMove
  <2>3. SetBooking(b, ReleasedStatus(b, t))
    BY <1>1 DEF ReleaseBooking
  <2>. QED
    BY <2>1, <2>2, <2>3 DEF MovedBy
<1>2. CASE bookingStatus[b] # "payment_pending"
  BY <1>2 DEF ReleaseBooking, Unmoved, bookingRow
<1>. QED
  BY <1>1, <1>2

LEMMA BookingStepMoves ==
    ASSUME BookingStep
    PROVE  Unmoved \/ SomeExpired \/ SomeCreated
<1>1. CASE Tick
  BY <1>1 DEF Tick, Unmoved, bookingRow
<1>2. CASE \E b \in Bookings, t \in Readings : CreateHold(b, t)
  BY <1>2 DEF SomeCreated
<1>3. ASSUME NEW u \in Users, NEW t \in Readings, ReadBookings(u, t)
      PROVE  SomeExpired
  BY <1>3 DEF ReadBookings, SomeExpired, StaleHold
<1>4. CASE ExpiryJob
  BY <1>4 DEF ExpiryJob, ExpireBatch, SomeExpired, StaleHold
<1>. QED
  BY <1>1, <1>2, <1>3, <1>4 DEF BookingStep

LEMMA PaymentStepMoves ==
    ASSUME PaymentStep
    PROVE  Unmoved \/ MovedBy(PaymentMove)
<1>. USE PaymentAssumption
<1>1. ASSUME NEW a \in Attempts, NEW v \in Versions, NEW t \in Readings,
             BeginPaymentAttempt(a, v, t)
      PROVE  MovedBy(PaymentMove)
  <2>1. /\ <<bookingStatus[BookingFor[a]], "payment_pending">> \in PaymentMove
        /\ SetBooking(BookingFor[a], "payment_pending")
    BY <1>1 DEF BeginPaymentAttempt, PaymentMove
  <2>. QED
    BY <2>1 DEF MovedBy, BookingStatus
<1>2. ASSUME NEW a \in Attempts, FinalizeOrder(a) \/ AbandonOrder(a)
      PROVE  Unmoved
  BY <1>2 DEF FinalizeOrder, AbandonOrder, bookingVars, Unmoved
<1>3. ASSUME NEW a \in Attempts, NEW t \in Readings, CompensateOrderFailure(a, t)
      PROVE  Unmoved \/ MovedBy(PaymentMove)
  BY <1>3, ReleaseMoves DEF CompensateOrderFailure
<1>4. ASSUME NEW c \in Charges, ChargeFails(c) \/ ChargeIsAuthorized(c) \/ ChargeIsCaptured(c)
                                 \/ VerifyCheckout(c) \/ ApplyAuthorized(c) \/ ApplyLateCapture(c)
      PROVE  Unmoved
  BY <1>4 DEF ChargeFails, ChargeIsAuthorized, ChargeIsCaptured, Emit, VerifyCheckout,
              ApplyAuthorized, ApplyLateCapture, bookingVars, bookingRow, Unmoved
<1>5. ASSUME NEW type \in PaymentEvent, NEW c \in Charges, IgnorePaymentEvent(type, c)
      PROVE  Unmoved
  BY <1>5 DEF IgnorePaymentEvent, bookingVars, Unmoved
<1>6. ASSUME NEW c \in Charges, ApplyCaptured(c)
      PROVE  MovedBy(PaymentMove)
  <2>1. /\ <<bookingStatus[BookingFor[OrderOf[c]]], "confirmed">> \in PaymentMove
        /\ SetBooking(BookingFor[OrderOf[c]], "confirmed")
    BY <1>6 DEF ApplyCaptured, PaymentMove
  <2>. QED
    BY <2>1 DEF MovedBy, BookingStatus
<1>7. ASSUME NEW c \in Charges, NEW t \in Readings, ApplyFailed(c, t)
      PROVE  Unmoved \/ MovedBy(PaymentMove)
  BY <1>7, ReleaseMoves DEF ApplyFailed, bookingRow, Unmoved
<1>. QED
  BY <1>1, <1>2, <1>3, <1>4, <1>5, <1>6, <1>7 DEF PaymentStep, WebhookStep

LEMMA CancellationStepMoves ==
    ASSUME CancellationStep
    PROVE  Unmoved \/ MovedBy(PaymentMove)
<1>1. ASSUME NEW b \in Bookings, NEW v \in Versions, NEW t \in Readings, CancelUnpaid(b, v, t)
      PROVE  MovedBy(PaymentMove)
  <2>1. /\ <<bookingStatus[b], "cancelled">> \in PaymentMove
        /\ SetBooking(b, "cancelled")
    BY <1>1 DEF CancelUnpaid, PaymentMove
  <2>. QED
    BY <2>1 DEF MovedBy, BookingStatus
<1>2. ASSUME NEW a \in Attempts, NEW v \in Versions, CancelConfirmed(a, v)
      PROVE  MovedBy(PaymentMove)
  <2>1. /\ <<bookingStatus[BookingFor[a]], "cancelled">> \in PaymentMove
        /\ SetBooking(BookingFor[a], "cancelled")
    BY <1>2 DEF CancelConfirmed, PaymentMove
  <2>. QED
    BY <2>1, PaymentAssumption DEF MovedBy, BookingStatus
<1>3. ASSUME NEW r \in Refunds,
             \/ \E a \in Attempts : \/ RazorpayMakesRefund(a, r)
                                    \/ ApplyRefundProcessed(a, r)
                                    \/ ApplyRefundFailed(a, r)
             \/ \E type \in RefundEvent : IgnoreRefundEvent(type, r) \/ RefundSettles(r, type)
             \/ RefundElsewhere(r)
      PROVE  Unmoved
  BY <1>3 DEF RazorpayMakesRefund, ApplyRefundProcessed, ApplyRefundFailed, AcceptRefundEvent,
              IgnoreRefundEvent, RefundSettles, RefundElsewhere, bookingVars, Unmoved
<1>4. ASSUME NEW a \in Attempts,
             \/ \E status \in RefundStatus : FinalizeRefund(a, status)
             \/ RecordRefundFailure(a) \/ FetchRefund(a) \/ ApplyFetchedRefund(a)
      PROVE  Unmoved
  BY <1>4 DEF FinalizeRefund, RecordRefundFailure, FetchRefund, ApplyFetchedRefund, bookingVars,
              Unmoved
<1>. QED
  BY <1>1, <1>2, <1>3, <1>4 DEF CancellationStep, RefundWebhookStep, Reconciliation, Settlement

LEMMA SessionStepMoves ==
    ASSUME SessionStep
    PROVE  MovedBy(SessionMove)
<1>1. ASSUME NEW b \in Bookings, NEW v \in Versions, NEW t \in Readings, StartSession(b, v, t)
      PROVE  MovedBy(SessionMove)
  BY <1>1 DEF StartSession, MovedBy, SessionMove, BookingStatus
<1>2. ASSUME NEW b \in Bookings, CompleteSession(b)
      PROVE  MovedBy(SessionMove)
  BY <1>2 DEF CompleteSession, MovedBy, SessionMove, BookingStatus
<1>. QED
  BY <1>1, <1>2 DEF SessionStep

LEMMA StepsMoveBookings ==
    ASSUME [Next]_vars
    PROVE  \/ Unmoved
           \/ MovedBy(PaymentMove \union SessionMove)
           \/ SomeExpired
           \/ SomeCreated
<1>1. CASE StationStep
  BY <1>1 DEF StationStep, bookingVars, Unmoved
<1>2. CASE UNCHANGED vars
  BY <1>2 DEF vars, bookingVars, Unmoved
<1>. QED
  BY <1>1, <1>2, BookingStepMoves, PaymentStepMoves, CancellationStepMoves, SessionStepMoves
     DEF Next, MovedBy

-----------------------------------------------------------------------------
(* Slots. *)

\* Two bookings of one charge point whose slots share a moment overlap in the
\* sense of the code's interval test, both ways round.
LEMMA ConflictIsOverlap ==
    ASSUME NEW x \in Conflicts
    PROVE  /\ x[1] \in Bookings /\ x[2] \in Bookings /\ x[1] # x[2]
           /\ Overlaps(x[1], x[2]) /\ Overlaps(x[2], x[1])
<1>1. x[1] \in Bookings /\ x[2] \in Bookings /\ x[1] # x[2] /\ PointOf[x[1]] = PointOf[x[2]]
  BY DEF Conflicts
<1>2. PICK m \in Slot(x[1]) : m \in Slot(x[2])
  BY DEF Conflicts
<1>3. StartsAt[x[1]] < EndsAt[x[2]] /\ StartsAt[x[2]] < EndsAt[x[1]]
  BY <1>1, <1>2, BookingAssumption DEF Slot
<1>. QED
  BY <1>1, <1>3 DEF Overlaps

\* A new hold overlaps no booking that still has its slot after the step.
LEMMA CreatedHoldIsAlone ==
    ASSUME BookingsTypeOK, NEW b \in Bookings, NEW t \in Readings, CreateHold(b, t),
           NEW c \in Bookings, c # b, bookingStatus'[c] \in Blocking
    PROVE  ~ Overlaps(b, c) /\ bookingStatus[c] \in Blocking
<1>. DEFINE stale == {d \in Bookings : PointOf[d] = PointOf[b] /\ StaleHold(d, t)}
<1>1. bookingStatus'[c] = ExpiredStatus(stale)[c]
  BY DEF CreateHold, BookingsTypeOK, ExpiredStatus
<1>2. c \notin stale
  BY <1>1 DEF ExpiredStatus, Blocking
<1>3. bookingStatus[c] \in Blocking
  BY <1>1, <1>2 DEF ExpiredStatus
<1>. QED
  BY <1>2, <1>3 DEF CreateHold

\* The exclusion of overlapping bookings is inductive: only CreateHold makes a
\* booking blocking that was not, and it looks at every other one first.
LEMMA ExclusionIsInductive ==
    ASSUME TypeOK, NoDoubleBooking, [Next]_vars
    PROVE  NoDoubleBooking'
<1>. USE DEF TypeOK
<1>1. CASE Unmoved
  BY <1>1 DEF Unmoved, NoDoubleBooking
<1>2. CASE MovedBy(PaymentMove \union SessionMove)
  <2>1. PICK b \in Bookings, s \in BookingStatus :
          <<bookingStatus[b], s>> \in PaymentMove \union SessionMove /\ SetBooking(b, s)
    BY <1>2 DEF MovedBy
  <2>2. bookingStatus[b] \in Blocking
    BY <2>1 DEF PaymentMove, SessionMove, Blocking
  <2>3. \A c \in Bookings : bookingStatus'[c] \in Blocking => bookingStatus[c] \in Blocking
    BY <2>1, <2>2 DEF SetBooking, BookingsTypeOK
  <2>. QED
    BY <2>3, ConflictIsOverlap DEF NoDoubleBooking
<1>3. CASE SomeExpired
  <2>1. \A c \in Bookings : bookingStatus'[c] \in Blocking => bookingStatus[c] \in Blocking
    BY <1>3 DEF SomeExpired, ExpireHolds, ExpiredStatus, Blocking
  <2>. QED
    BY <2>1, ConflictIsOverlap DEF NoDoubleBooking
<1>4. CASE SomeCreated
  <2>1. PICK b \in Bookings, t \in Readings : CreateHold(b, t)
    BY <1>4 DEF SomeCreated
  <2>. SUFFICES ASSUME NEW x \in Conflicts,
                       bookingStatus'[x[1]] \in Blocking, bookingStatus'[x[2]] \in Blocking
                PROVE  FALSE
    BY DEF NoDoubleBooking
  <2>2. x[1] # b
    BY <2>1, ConflictIsOverlap, CreatedHoldIsAlone
  <2>3. x[2] # b
    BY <2>1, ConflictIsOverlap, CreatedHoldIsAlone
  <2>4. bookingStatus[x[1]] \in Blocking /\ bookingStatus[x[2]] \in Blocking
    BY <2>1, <2>2, <2>3, ConflictIsOverlap, CreatedHoldIsAlone
  <2>. QED
    BY <2>4 DEF NoDoubleBooking
<1>. QED
  BY <1>1, <1>2, <1>3, <1>4, StepsMoveBookings

\* A charge point is never promised twice for one moment (create_booking_hold
\* and the exclusion constraint of the bookings table), for any number of
\* bookings, any intervals, and clocks that lag by any amount.
THEOREM ChargePointsAreNotDoubleBooked == Spec => []NoDoubleBooking
<1>1. Init => NoDoubleBooking
  BY ConflictIsOverlap DEF Init, BookingsInit, NoDoubleBooking, Blocking
<1>2. TypeOK /\ NoDoubleBooking /\ [Next]_vars => NoDoubleBooking'
  BY ExclusionIsInductive
<1>. QED
  BY <1>1, <1>2, TypeCorrect, PTL DEF Spec

-----------------------------------------------------------------------------
(* Versions. *)

\* A booking that does not exist has no version yet: what CreateHold needs to
\* start at 1.
AbsentUnversioned == \A b \in Bookings : bookingStatus[b] = "absent" => bookingVersion[b] = 0

LEMMA MovesChangeStatus ==
    ASSUME NEW s, NEW d, <<s, d>> \in PaymentMove \union SessionMove
    PROVE  s # d /\ s # "absent" /\ d # "absent"
BY DEF PaymentMove, SessionMove

VersionStep ==
    \A b \in Bookings :
         \/ bookingStatus'[b] = bookingStatus[b] /\ bookingVersion'[b] = bookingVersion[b]
         \/ bookingStatus'[b] # bookingStatus[b] /\ bookingVersion'[b] = bookingVersion[b] + 1

LEMMA StepsAdvanceVersions ==
    ASSUME TypeOK, AbsentUnversioned, [Next]_vars
    PROVE  AbsentUnversioned' /\ VersionStep
<1>. USE DEF TypeOK, BookingsTypeOK, AbsentUnversioned, VersionStep
<1>1. CASE Unmoved
  BY <1>1 DEF Unmoved
<1>2. CASE MovedBy(PaymentMove \union SessionMove)
  <2>1. PICK b \in Bookings, s \in BookingStatus :
          <<bookingStatus[b], s>> \in PaymentMove \union SessionMove /\ SetBooking(b, s)
    BY <1>2 DEF MovedBy
  <2>2. bookingStatus[b] # s /\ s # "absent"
    BY <2>1, MovesChangeStatus
  <2>. QED
    BY <2>1, <2>2 DEF SetBooking
<1>3. CASE SomeExpired
  BY <1>3 DEF SomeExpired, ExpireHolds, ExpiredStatus, ExpiredVersion
<1>4. CASE SomeCreated
  <2>1. PICK b \in Bookings, t \in Readings : CreateHold(b, t)
    BY <1>4 DEF SomeCreated
  <2>. DEFINE stale == {d \in Bookings : PointOf[d] = PointOf[b] /\ StaleHold(d, t)}
  <2>2. /\ bookingStatus[b] = "absent"
        /\ bookingStatus' = [ExpiredStatus(stale) EXCEPT ![b] = "held"]
        /\ bookingVersion' = [ExpiredVersion(stale) EXCEPT ![b] = 1]
    BY <2>1 DEF CreateHold
  <2>3. \A d \in stale : bookingStatus[d] = "held"
    BY DEF StaleHold
  <2>. HIDE DEF stale
  <2>4. bookingStatus'[b] = "held" /\ bookingVersion'[b] = 1 /\ bookingVersion[b] = 0
    BY <2>2 DEF ExpiredStatus, ExpiredVersion
  <2>5. \A d \in Bookings \ {b} :
          /\ bookingStatus'[d] = IF d \in stale THEN "expired" ELSE bookingStatus[d]
          /\ bookingVersion'[d] = bookingVersion[d] + (IF d \in stale THEN 1 ELSE 0)
    BY <2>2 DEF ExpiredStatus, ExpiredVersion
  <2>. QED
    BY <2>2, <2>3, <2>4, <2>5
<1>. QED
  BY <1>1, <1>2, <1>3, <1>4, StepsMoveBookings

\* Whoever quotes the version of a booking acts on the status it had when they
\* read it: every write that changes the status advances the version by one,
\* and no other write does.
THEOREM VersionsIdentifyStatus == Spec => VersionIdentifiesStatus
<1>1. Init => AbsentUnversioned
  BY DEF Init, BookingsInit, AbsentUnversioned
<1>2. TypeOK /\ AbsentUnversioned /\ [Next]_vars => AbsentUnversioned' /\ VersionStep
  BY StepsAdvanceVersions
<1>. QED
  BY <1>1, <1>2, TypeCorrect, PTL DEF Spec, VersionIdentifiesStatus, VersionStep

-----------------------------------------------------------------------------
(* Charging sessions. *)

\* No step but those of charging sessions brings a booking to "active" or
\* "completed", or takes it away from there.
LEMMA OtherStepsKeepUse ==
    ASSUME TypeOK,
           StationStep \/ BookingStep \/ PaymentStep \/ CancellationStep \/ UNCHANGED vars
    PROVE  /\ sessionStatus' = sessionStatus
           /\ \A b \in Bookings, s \in {"active", "completed"} :
                 bookingStatus'[b] = s <=> bookingStatus[b] = s
<1>. USE DEF TypeOK, BookingsTypeOK
<1>1. sessionStatus' = sessionStatus
  BY DEF StationStep, BookingStep, PaymentStep, CancellationStep, vars
<1>2. CASE Unmoved
  BY <1>1, <1>2 DEF Unmoved
<1>3. CASE MovedBy(PaymentMove)
  BY <1>1, <1>3 DEF MovedBy, SetBooking, PaymentMove
<1>4. CASE SomeExpired
  BY <1>1, <1>4 DEF SomeExpired, ExpireHolds, ExpiredStatus
<1>5. CASE SomeCreated
  BY <1>1, <1>5 DEF SomeCreated, CreateHold, ExpiredStatus, StaleHold
<1>6. CASE StationStep \/ UNCHANGED vars
  BY <1>2, <1>6 DEF StationStep, vars, bookingVars, Unmoved
<1>. QED
  BY <1>2, <1>3, <1>4, <1>5, <1>6, BookingStepMoves, PaymentStepMoves, CancellationStepMoves

LEMMA SessionStepKeepsAgreement ==
    ASSUME TypeOK, SessionsAgree, SessionStep
    PROVE  SessionsAgree'
<1>. USE DEF TypeOK, BookingsTypeOK, SessionsTypeOK, SetBooking
<1>1. ASSUME NEW b \in Bookings, NEW v \in Versions, NEW t \in Readings, StartSession(b, v, t)
      PROVE  SessionsAgree'
  <2>1. /\ bookingStatus' = [bookingStatus EXCEPT ![b] = "active"]
        /\ sessionStatus' = [sessionStatus EXCEPT ![b] = "active"]
    BY <1>1 DEF StartSession
  <2>2. \A c \in Bookings : PointOf[c] = PointOf[b] => sessionStatus[c] # "active"
    BY <1>1 DEF StartSession, InUse
  <2>. QED
    BY <2>1, <2>2 DEF SessionsAgree
<1>2. ASSUME NEW b \in Bookings, CompleteSession(b)
      PROVE  SessionsAgree'
  <2>1. /\ bookingStatus' = [bookingStatus EXCEPT ![b] = "completed"]
        /\ sessionStatus' = [sessionStatus EXCEPT ![b] = "completed"]
    BY <1>2 DEF CompleteSession
  <2>. QED
    BY <2>1 DEF SessionsAgree
<1>. QED
  BY <1>1, <1>2 DEF SessionStep

\* Sessions and bookings stay at the same stage, and a charge point serves one
\* session at a time, however starts, cancellations and webhooks interleave
\* (start_charging_session, complete_charging_session).
THEOREM SessionsAgreeWithBookings == Spec => []SessionsAgree
<1>1. Init => SessionsAgree
  BY DEF Init, BookingsInit, SessionsInit, SessionsAgree
<1>2. TypeOK /\ SessionsAgree /\ [Next]_vars => SessionsAgree'
  <2>1. ASSUME TypeOK, SessionsAgree, SessionStep
        PROVE  SessionsAgree'
    BY <2>1, SessionStepKeepsAgreement
  <2>2. ASSUME TypeOK, SessionsAgree,
               StationStep \/ BookingStep \/ PaymentStep \/ CancellationStep \/ UNCHANGED vars
        PROVE  SessionsAgree'
    <3>1. /\ sessionStatus' = sessionStatus
          /\ \A b \in Bookings : /\ bookingStatus'[b] = "active" <=> bookingStatus[b] = "active"
                                 /\ bookingStatus'[b] = "completed" <=> bookingStatus[b] = "completed"
      BY <2>2, OtherStepsKeepUse
    <3>. QED
      BY <2>2, <3>1 DEF SessionsAgree
  <2>. QED
    BY <2>1, <2>2 DEF Next
<1>. QED
  BY <1>1, <1>2, TypeCorrect, PTL DEF Spec

-----------------------------------------------------------------------------
(* The refinement of SlotReservation. *)

PhaseMap == [b \in Bookings |-> PhaseOf(bookingStatus[b])]

LEMMA MoveIsSlotStep ==
    ASSUME TypeOK, MovedBy(PaymentMove \union SessionMove)
    PROVE  Slots!Next \/ PhaseMap' = PhaseMap
<1>. USE DEF TypeOK, BookingsTypeOK
<1>1. PICK b \in Bookings, s \in BookingStatus :
        <<bookingStatus[b], s>> \in PaymentMove \union SessionMove /\ SetBooking(b, s)
  BY DEF MovedBy
<1>2. bookingStatus' = [bookingStatus EXCEPT ![b] = s]
  BY <1>1 DEF SetBooking
<1>3. PhaseMap' = [PhaseMap EXCEPT ![b] = PhaseOf(s)]
  BY <1>2 DEF PhaseMap
<1>4. PhaseMap[b] = PhaseOf(bookingStatus[b])
  BY DEF PhaseMap
<1>5. CASE <<bookingStatus[b], s>> \in {<<"held", "payment_pending">>, <<"payment_pending", "held">>}
  <2>1. PhaseOf(s) = PhaseMap[b]
    BY <1>4, <1>5 DEF PhaseOf
  <2>. QED
    BY <1>3, <2>1 DEF PhaseMap
<1>6. CASE <<bookingStatus[b], s>> = <<"payment_pending", "confirmed">>
  <2>1. Slots!Pay(b)
    BY <1>3, <1>4, <1>6 DEF PhaseOf, PhaseMap, Slots!Pay
  <2>. QED
    BY <2>1 DEF Slots!Next
<1>7. CASE <<bookingStatus[b], s>> = <<"confirmed", "active">>
  <2>1. Slots!Use(b)
    BY <1>3, <1>4, <1>7 DEF PhaseOf, PhaseMap, Slots!Use
  <2>. QED
    BY <2>1 DEF Slots!Next
<1>8. CASE <<bookingStatus[b], s>> = <<"active", "completed">>
  <2>1. Slots!Finish(b)
    BY <1>3, <1>4, <1>8 DEF PhaseOf, PhaseMap, Slots!Finish
  <2>. QED
    BY <2>1 DEF Slots!Next
<1>9. CASE bookingStatus[b] \in {"held", "payment_pending", "confirmed"} /\ s \in {"expired", "cancelled"}
  <2>1. PhaseMap[b] \in {"reserved", "paid"} /\ PhaseOf(s) = "released"
    BY <1>4, <1>9 DEF PhaseOf
  <2>2. Slots!Release({b})
    BY <1>3, <2>1 DEF PhaseMap, Slots!Release
  <2>. QED
    BY <2>2 DEF Slots!Next
<1>. QED
  BY <1>1, <1>5, <1>6, <1>7, <1>8, <1>9 DEF PaymentMove, SessionMove

LEMMA ExpiryIsSlotStep ==
    ASSUME TypeOK, SomeExpired
    PROVE  Slots!Next
<1>1. PICK S \in SUBSET Bookings : (\A b \in S : bookingStatus[b] = "held") /\ ExpireHolds(S)
  BY DEF SomeExpired
<1>2. \A c \in S : PhaseMap[c] = "reserved"
  BY <1>1 DEF PhaseMap, PhaseOf
<1>3. PhaseMap' = [c \in Bookings |-> IF c \in S THEN "released" ELSE PhaseMap[c]]
  BY <1>1 DEF ExpireHolds, ExpiredStatus, PhaseMap, PhaseOf
<1>4. Slots!Release(S)
  BY <1>2, <1>3 DEF PhaseMap, Slots!Release
<1>. QED
  BY <1>4 DEF Slots!Next

\* A hold is the grant of its slot, together with the stale holds it expires.
LEMMA HoldIsSlotStep ==
    ASSUME TypeOK, SomeCreated
    PROVE  Slots!Next
<1>. USE DEF TypeOK, BookingsTypeOK
<1>1. PICK b \in Bookings, t \in Readings : CreateHold(b, t)
  BY DEF SomeCreated
<1>. DEFINE stale == {c \in Bookings : PointOf[c] = PointOf[b] /\ StaleHold(c, t)}
<1>2. /\ bookingStatus[b] = "absent"
      /\ \A c \in Bookings \ stale : bookingStatus[c] \in Blocking => ~ Overlaps(b, c)
      /\ bookingStatus' = [ExpiredStatus(stale) EXCEPT ![b] = "held"]
  BY <1>1 DEF CreateHold
<1>3. stale \in SUBSET Bookings /\ \A c \in stale : bookingStatus[c] = "held"
  BY DEF StaleHold
<1>. HIDE DEF stale
<1>4. PhaseMap[b] = "free" /\ \A c \in stale : PhaseMap[c] = "reserved"
  BY <1>2, <1>3 DEF PhaseMap, PhaseOf
<1>5. ASSUME NEW c \in Bookings \ stale, PhaseMap[c] \in {"reserved", "paid", "in_use"}
      PROVE  <<b, c>> \notin Conflicts
  <2>1. bookingStatus[c] \in Blocking
    BY <1>5 DEF PhaseMap, PhaseOf, Blocking, BookingStatus
  <2>2. ~ Overlaps(b, c)
    BY <1>2, <2>1
  <2>. QED
    BY <2>2, ConflictIsOverlap
<1>6. PhaseMap' = [c \in Bookings |-> IF c = b THEN "reserved"
                                      ELSE IF c \in stale THEN "released"
                                      ELSE PhaseMap[c]]
  BY <1>2, <1>3 DEF ExpiredStatus, PhaseMap, PhaseOf
<1>7. Slots!Reserve(b, stale)
  BY <1>4, <1>5, <1>6 DEF PhaseMap, Slots!Reserve, Slots!Granted
<1>. QED
  BY <1>3, <1>7 DEF Slots!Next

\* The backend implements the promise about slots: every step of every handler,
\* job and webhook is a step of SlotReservation or leaves the slots alone.
THEOREM SlotsAreReserved == Spec => ReservesSlots
<1>1. Init => Slots!Init
  BY DEF Init, BookingsInit, Slots!Init, PhaseOf
<1>2. TypeOK /\ [Next]_vars => Slots!Next \/ PhaseMap' = PhaseMap
  <2>1. Unmoved => PhaseMap' = PhaseMap
    BY DEF Unmoved, PhaseMap
  <2>. QED
    BY <2>1, StepsMoveBookings, MoveIsSlotStep, ExpiryIsSlotStep, HoldIsSlotStep
<1>3. TypeOK /\ [Next]_vars => [Slots!Next]_[b \in Bookings |-> PhaseOf(bookingStatus[b])]
  BY <1>2 DEF PhaseMap
<1>. QED
  BY <1>1, <1>3, TypeCorrect, PTL DEF Spec, ReservesSlots, Slots!Spec

-----------------------------------------------------------------------------
(* Money and closed bookings. *)

\* A refund that Razorpay has not answered for has no id yet: why recording the
\* answer never replaces another refund's id.
UnansweredHasNoId ==
    \A a \in Attempts : refundStatus[a] \in {"absent", "requested"} => refundIdOf[a] = NoRefund

ClosedStaysClosed ==
    \A b \in Bookings : bookingStatus[b] \in {"completed", "cancelled", "expired"}
        => bookingStatus'[b] = bookingStatus[b]

MoneyIsKept ==
    \A a \in Attempts :
        /\ HasMoney(a) => HasMoney(a)'
        /\ chargeOf[a] # NoCharge => chargeOf'[a] = chargeOf[a]

RefundIsKept ==
    \A a \in Attempts :
        /\ refundStatus[a] = "processed" => refundStatus'[a] = "processed"
        /\ refundIdOf[a] # NoRefund => refundIdOf'[a] = refundIdOf[a]

LEMMA StepsKeepBookingsClosed ==
    ASSUME TypeOK, [Next]_vars
    PROVE  ClosedStaysClosed
<1>. USE DEF TypeOK, BookingsTypeOK, ClosedStaysClosed
<1>1. CASE Unmoved
  BY <1>1 DEF Unmoved
<1>2. CASE MovedBy(PaymentMove \union SessionMove)
  <2>1. PICK b \in Bookings, s \in BookingStatus :
          <<bookingStatus[b], s>> \in PaymentMove \union SessionMove /\ SetBooking(b, s)
    BY <1>2 DEF MovedBy
  <2>2. bookingStatus[b] \notin {"completed", "cancelled", "expired"}
    BY <2>1 DEF PaymentMove, SessionMove
  <2>. QED
    BY <2>1, <2>2 DEF SetBooking
<1>3. CASE SomeExpired
  BY <1>3 DEF SomeExpired, ExpireHolds, ExpiredStatus
<1>4. CASE SomeCreated
  BY <1>4 DEF SomeCreated, CreateHold, ExpiredStatus, StaleHold
<1>. QED
  BY <1>1, <1>2, <1>3, <1>4, StepsMoveBookings

LEMMA PaymentStepKeepsMoney ==
    ASSUME TypeOK, PaymentStep
    PROVE  MoneyIsKept /\ UNCHANGED refundVars
<1>. USE DEF TypeOK, PaymentsTypeOK, MoneyIsKept, HasMoney, SetPayment
<1>1. UNCHANGED refundVars
  BY DEF PaymentStep
<1>2. ASSUME NEW a \in Attempts, NEW v \in Versions, NEW t \in Readings,
             BeginPaymentAttempt(a, v, t)
      PROVE  MoneyIsKept
  BY <1>2 DEF BeginPaymentAttempt
<1>3. ASSUME NEW a \in Attempts, FinalizeOrder(a) \/ AbandonOrder(a)
      PROVE  MoneyIsKept
  BY <1>3 DEF FinalizeOrder, AbandonOrder
<1>4. ASSUME NEW a \in Attempts, NEW t \in Readings, CompensateOrderFailure(a, t)
      PROVE  MoneyIsKept
  BY <1>4 DEF CompensateOrderFailure
<1>5. ASSUME NEW c \in Charges, ChargeFails(c) \/ ChargeIsAuthorized(c) \/ ChargeIsCaptured(c)
      PROVE  MoneyIsKept
  BY <1>5 DEF ChargeFails, ChargeIsAuthorized, ChargeIsCaptured, Emit, paymentRow
<1>6. ASSUME NEW c \in Charges, VerifyCheckout(c)
      PROVE  MoneyIsKept
  BY <1>6, PaymentAssumption DEF VerifyCheckout
<1>7. ASSUME NEW type \in PaymentEvent, NEW c \in Charges, IgnorePaymentEvent(type, c)
      PROVE  MoneyIsKept
  BY <1>7 DEF IgnorePaymentEvent
<1>8. ASSUME NEW c \in Charges,
             \/ ApplyAuthorized(c) \/ ApplyCaptured(c) \/ ApplyLateCapture(c)
             \/ \E t \in Readings : ApplyFailed(c, t)
      PROVE  MoneyIsKept
  <2>1. OrderOf[c] \in Attempts
    BY PaymentAssumption
  <2>2. /\ chargeOf' = [chargeOf EXCEPT ![OrderOf[c]] = c]
        /\ chargeOf[OrderOf[c]] \in {NoCharge, c}
    BY <1>8 DEF ApplyAuthorized, ApplyCaptured, ApplyLateCapture, ApplyFailed,
                AcceptPaymentEvent, IsOther
  <2>3. \A a \in Attempts : HasMoney(a) => HasMoney(a)'
    BY <1>8, <2>1 DEF ApplyAuthorized, ApplyCaptured, ApplyLateCapture, ApplyFailed
  <2>. QED
    BY <2>1, <2>2, <2>3
<1>. QED
  BY <1>1, <1>2, <1>3, <1>4, <1>5, <1>6, <1>7, <1>8 DEF PaymentStep, WebhookStep

LEMMA CancellationStepKeepsMoney ==
    ASSUME TypeOK, UnansweredHasNoId, CancellationStep
    PROVE  MoneyIsKept /\ RefundIsKept /\ UnansweredHasNoId'
<1>. DEFINE Kept == MoneyIsKept /\ RefundIsKept /\ UnansweredHasNoId'
<1>. USE DEF TypeOK, PaymentsTypeOK, RefundsTypeOK, MoneyIsKept, RefundIsKept, HasMoney,
             UnansweredHasNoId, SetRefund, SetPayment, SettleRefund
<1>1. ASSUME NEW b \in Bookings, NEW v \in Versions, NEW t \in Readings, CancelUnpaid(b, v, t)
      PROVE  Kept
  BY <1>1 DEF CancelUnpaid, paymentVars, refundVars
<1>2. ASSUME NEW a \in Attempts, NEW v \in Versions, CancelConfirmed(a, v)
      PROVE  Kept
  BY <1>2 DEF CancelConfirmed, paymentVars, HasRefund
<1>3. ASSUME NEW r \in Refunds,
             \/ \E a \in Attempts : RazorpayMakesRefund(a, r)
             \/ RefundElsewhere(r)
             \/ \E type \in RefundEvent : RefundSettles(r, type) \/ IgnoreRefundEvent(type, r)
      PROVE  Kept
  BY <1>3 DEF RazorpayMakesRefund, RefundElsewhere, RefundSettles, IgnoreRefundEvent,
              paymentVars, paymentRow, refundVars, refundRow
<1>4. ASSUME NEW a \in Attempts, NEW status \in RefundStatus, FinalizeRefund(a, status)
      PROVE  Kept
  <2>1. status \in {"pending", "processed", "failed"} /\ refundCall[a] \in Refunds
    BY <1>4 DEF FinalizeRefund, ProviderStatus
  <2>2. CASE refundStatus[a] # "requested"
    BY <1>4, <2>2 DEF FinalizeRefund
  <2>3. CASE refundStatus[a] = "requested"
    BY <1>4, <2>1, <2>3 DEF FinalizeRefund
  <2>. QED
    BY <2>2, <2>3
<1>5. ASSUME NEW a \in Attempts, RecordRefundFailure(a)
      PROVE  Kept
  BY <1>5 DEF RecordRefundFailure, paymentVars
<1>6. ASSUME NEW a \in Attempts, NEW r \in Refunds,
             ApplyRefundProcessed(a, r) \/ ApplyRefundFailed(a, r)
      PROVE  Kept
  <2>1. /\ refundIdOf' = [refundIdOf EXCEPT ![a] = r]
        /\ refundIdOf[a] \in {NoRefund, r}
        /\ chargeOf' = chargeOf
    BY <1>6 DEF ApplyRefundProcessed, ApplyRefundFailed, AcceptRefundEvent, IsOtherRefund
  <2>2. CASE ApplyRefundProcessed(a, r)
    BY <2>1, <2>2 DEF ApplyRefundProcessed
  <2>3. CASE ApplyRefundFailed(a, r)
    BY <2>1, <2>3 DEF ApplyRefundFailed
  <2>. QED
    BY <1>6, <2>2, <2>3
<1>7. ASSUME NEW a \in Attempts, FetchRefund(a) \/ ApplyFetchedRefund(a)
      PROVE  Kept
  BY <1>7 DEF FetchRefund, ApplyFetchedRefund, paymentVars, refundRow
<1>. QED
  BY <1>1, <1>2, <1>3, <1>4, <1>5, <1>6, <1>7
     DEF CancellationStep, RefundWebhookStep, Reconciliation, Settlement

LEMMA StepsKeepMoney ==
    ASSUME TypeOK, UnansweredHasNoId, [Next]_vars
    PROVE  MoneyIsKept /\ RefundIsKept /\ UnansweredHasNoId'
<1>1. ASSUME UNCHANGED refundVars
      PROVE  RefundIsKept /\ UnansweredHasNoId'
  BY <1>1 DEF refundVars, RefundIsKept, UnansweredHasNoId
<1>2. CASE StationStep \/ BookingStep \/ SessionStep \/ UNCHANGED vars
  <2>1. UNCHANGED paymentVars /\ UNCHANGED refundVars
    BY <1>2 DEF StationStep, BookingStep, SessionStep, vars, paymentVars, refundVars
  <2>. QED
    BY <1>1, <2>1 DEF paymentVars, MoneyIsKept, HasMoney
<1>3. CASE PaymentStep
  BY <1>1, <1>3, PaymentStepKeepsMoney
<1>4. CASE CancellationStep
  BY <1>4, CancellationStepKeepsMoney
<1>. QED
  BY <1>2, <1>3, <1>4 DEF Next

\* Late, repeated and reordered events neither revive a closed booking nor
\* forget captured money, the charge it came from, or the refund that returned
\* it (_apply_captured_payment, _apply_failed_payment, _apply_refund_event).
THEOREM NothingSettledIsUndone == Spec => NothingIsUndone
<1>1. Init => UnansweredHasNoId
  BY DEF Init, RefundsInit, UnansweredHasNoId
<1>2. TypeOK /\ UnansweredHasNoId /\ [Next]_vars
        => UnansweredHasNoId' /\ ClosedStaysClosed /\ MoneyIsKept /\ RefundIsKept
  BY StepsKeepMoney, StepsKeepBookingsClosed
<1>3. ClosedStaysClosed /\ MoneyIsKept /\ RefundIsKept
        => /\ \A b \in Bookings : bookingStatus[b] \in {"completed", "cancelled", "expired"}
                => bookingStatus'[b] = bookingStatus[b]
           /\ \A a \in Attempts :
                /\ HasMoney(a) => HasMoney(a)'
                /\ refundStatus[a] = "processed" => refundStatus'[a] = "processed"
                /\ chargeOf[a] # NoCharge => chargeOf'[a] = chargeOf[a]
                /\ refundIdOf[a] # NoRefund => refundIdOf'[a] = refundIdOf[a]
  BY DEF ClosedStaysClosed, MoneyIsKept, RefundIsKept
<1>. QED
  BY <1>1, <1>2, <1>3, TypeCorrect, PTL DEF Spec, NothingIsUndone

-----------------------------------------------------------------------------
(* Reported money leaves a trace.                                          *)

FlagsAreKept == \A a \in Attempts : lastError[a] # "none" => lastError'[a] # "none"

\* What is taken of captures leaves a trace at once.
NewsLeaveATrace ==
    \A c \in Charges :
        Event("payment.captured", c) \in seen' \ seen
          => HasMoney(OrderOf[c])' \/ lastError'[OrderOf[c]] # "none"

LEMMA WebhookStepLeavesATrace ==
    ASSUME TypeOK, WebhookStep
    PROVE  FlagsAreKept /\ NewsLeaveATrace
<1>. DEFINE Traced == FlagsAreKept /\ NewsLeaveATrace
<1>. USE PaymentAssumption
     DEF TypeOK, PaymentsTypeOK, FlagsAreKept, NewsLeaveATrace, SetError, Event, Receive
<1>1. ASSUME NEW type \in PaymentEvent, NEW c \in Charges, IgnorePaymentEvent(type, c)
      PROVE  Traced
  BY <1>1 DEF IgnorePaymentEvent
<1>2. ASSUME NEW c \in Charges, ApplyAuthorized(c) \/ \E t \in Readings : ApplyFailed(c, t)
      PROVE  Traced
  BY <1>2 DEF ApplyAuthorized, ApplyFailed, AcceptPaymentEvent
<1>3. ASSUME NEW c \in Charges, ApplyCaptured(c) \/ ApplyLateCapture(c)
      PROVE  Traced
  <2>1. /\ paymentStatus'[OrderOf[c]] = "captured"
        /\ seen' = seen \union {Event("payment.captured", c)}
    BY <1>3 DEF ApplyCaptured, ApplyLateCapture, AcceptPaymentEvent, SetPayment
  <2>2. FlagsAreKept
    BY <1>3 DEF ApplyCaptured, ApplyLateCapture
  <2>. QED
    BY <2>1, <2>2 DEF HasMoney
<1>. QED
  BY <1>1, <1>2, <1>3 DEF WebhookStep

LEMMA PaymentStepLeavesATrace ==
    ASSUME TypeOK, PaymentStep
    PROVE  FlagsAreKept /\ NewsLeaveATrace
<1>1. CASE WebhookStep
  BY <1>1, WebhookStepLeavesATrace
<1>2. ASSUME FlagsAreKept, seen' = seen
      PROVE  FlagsAreKept /\ NewsLeaveATrace
  BY <1>2 DEF NewsLeaveATrace
<1>. USE DEF TypeOK, PaymentsTypeOK, FlagsAreKept, SetError
<1>3. ASSUME NEW a \in Attempts,
             \/ \E v \in Versions, t \in Readings : BeginPaymentAttempt(a, v, t)
             \/ FinalizeOrder(a) \/ AbandonOrder(a)
             \/ \E t \in Readings : CompensateOrderFailure(a, t)
      PROVE  FlagsAreKept /\ seen' = seen
  BY <1>3 DEF BeginPaymentAttempt, FinalizeOrder, AbandonOrder, CompensateOrderFailure
<1>4. ASSUME NEW c \in Charges,
             ChargeFails(c) \/ ChargeIsAuthorized(c) \/ ChargeIsCaptured(c) \/ VerifyCheckout(c)
      PROVE  FlagsAreKept /\ seen' = seen
  BY <1>4 DEF ChargeFails, ChargeIsAuthorized, ChargeIsCaptured, Emit, VerifyCheckout, paymentRow
<1>. QED
  BY <1>1, <1>2, <1>3, <1>4 DEF PaymentStep

LEMMA RefundsAreNoCaptures ==
    \A type \in RefundEvent : \A r, c : Event(type, r) # Event("payment.captured", c)
BY DEF RefundEvent, Event

LEMMA CancellationStepLeavesATrace ==
    ASSUME CancellationStep
    PROVE  FlagsAreKept /\ NewsLeaveATrace
<1>. DEFINE Traced == lastError' = lastError
                      /\ \A c : Event("payment.captured", c) \in seen' <=> Event("payment.captured", c) \in seen
<1>1. ASSUME NEW a \in Attempts, NEW r \in Refunds, RazorpayMakesRefund(a, r)
      PROVE  Traced
  BY <1>1 DEF RazorpayMakesRefund, paymentVars
<1>2. ASSUME NEW r \in Refunds, NEW type \in RefundEvent,
             IgnoreRefundEvent(type, r) \/ RefundSettles(r, type)
      PROVE  Traced
  BY <1>2, RefundsAreNoCaptures DEF IgnoreRefundEvent, RefundSettles, Receive, paymentRow
<1>3. ASSUME NEW a \in Attempts, NEW r \in Refunds,
             ApplyRefundProcessed(a, r) \/ ApplyRefundFailed(a, r)
      PROVE  Traced
  BY <1>3, RefundsAreNoCaptures
     DEF ApplyRefundProcessed, ApplyRefundFailed, AcceptRefundEvent, Receive, RefundEvent
<1>4. ASSUME NEW a \in Attempts, FetchRefund(a) \/ ApplyFetchedRefund(a)
      PROVE  Traced
  BY <1>4 DEF FetchRefund, ApplyFetchedRefund, paymentVars
<1>5. ASSUME NEW a \in Attempts,
             RecordRefundFailure(a) \/ \E status \in RefundStatus : FinalizeRefund(a, status)
      PROVE  Traced
  BY <1>5 DEF FinalizeRefund, RecordRefundFailure, paymentVars
<1>6. ASSUME NEW v \in Versions, NEW a \in Attempts, CancelConfirmed(a, v)
      PROVE  Traced
  BY <1>6 DEF CancelConfirmed, paymentVars
<1>7. ASSUME NEW r \in Refunds, RefundElsewhere(r)
      PROVE  Traced
  BY <1>7 DEF RefundElsewhere, paymentVars
<1>8. ASSUME NEW b \in Bookings, NEW v \in Versions, NEW t \in Readings, CancelUnpaid(b, v, t)
      PROVE  Traced
  BY <1>8 DEF CancelUnpaid, paymentVars
<1>9. Traced
  BY <1>1, <1>2, <1>3, <1>4, <1>5, <1>6, <1>7, <1>8
     DEF CancellationStep, RefundWebhookStep, Reconciliation, Settlement
<1>. QED
  BY <1>9 DEF FlagsAreKept, NewsLeaveATrace

\* A capture that Razorpay reported, and whose event was taken, is recorded as
\* paid or flagged for staff, whatever comes after it: no event is dropped in
\* silence, and nothing clears a flag (_apply_payment_event, last_error_code).
THEOREM CapturesLeaveATrace == Spec => []ReportedCapturesLeaveATrace
<1>1. Init => ReportedCapturesLeaveATrace
  BY DEF Init, PaymentsInit, ReportedCapturesLeaveATrace
<1>2. ASSUME TypeOK, UnansweredHasNoId, ReportedCapturesLeaveATrace, [Next]_vars
      PROVE  ReportedCapturesLeaveATrace'
  <2>1. FlagsAreKept /\ NewsLeaveATrace
    <3>1. CASE StationStep \/ BookingStep \/ SessionStep \/ UNCHANGED vars
      BY <3>1 DEF StationStep, BookingStep, SessionStep, vars, paymentVars, FlagsAreKept, NewsLeaveATrace
    <3>. QED
      BY <1>2, <3>1, PaymentStepLeavesATrace, CancellationStepLeavesATrace DEF Next
  <2>2. MoneyIsKept
    BY <1>2, StepsKeepMoney
  <2>. QED
    BY <1>2, <2>1, <2>2, PaymentAssumption
       DEF ReportedCapturesLeaveATrace, NewsLeaveATrace, FlagsAreKept, MoneyIsKept
<1>3. Init => UnansweredHasNoId
  BY DEF Init, RefundsInit, UnansweredHasNoId
<1>4. TypeOK /\ UnansweredHasNoId /\ [Next]_vars => UnansweredHasNoId'
  BY StepsKeepMoney
<1>. QED
  BY <1>1, <1>2, <1>3, <1>4, TypeCorrect, PTL DEF Spec

-----------------------------------------------------------------------------
(* Refunds agree with payments, bookings and Razorpay.                     *)

\* Razorpay made refund r, of the right amount, for the charge of attempt a.
Returns(r, a) == r \in madeRefunds \ Mispriced /\ ChargeRefunded[r] = chargeOf[a]

RefundDone(r) == Event("refund.processed", r) \in sent

\* RefundsAgree says where a refund ends.  It is inductive together with what
\* is known on the way: of the answer a handler waits for, of the id in the row,
\* and of what the reconciliation job was told.
RefundTrail(a) ==
    /\ HasRefund(a) => bookingStatus[BookingFor[a]] = "cancelled" /\ chargeOf[a] # NoCharge
    /\ paymentStatus[a] = "refunded" <=> refundStatus[a] = "processed"
    /\ refundCall[a] # "none" => HasRefund(a)
    /\ refundCall[a] \in Refunds => Returns(refundCall[a], a)
    /\ refundIdOf[a] # NoRefund => HasRefund(a) /\ Returns(refundIdOf[a], a)
    /\ refundStatus[a] = "processed" \/ fetched[a] = "processed"
         => refundIdOf[a] # NoRefund /\ RefundDone(refundIdOf[a])

\* The events Razorpay sends of refunds are of refunds it has made.
RefundEventsAreReal ==
    \A r \in Refunds, type \in RefundEvent : Event(type, r) \in sent => r \in madeRefunds

RefundsInv ==
    /\ RefundEventsAreReal
    /\ \A a \in Attempts : RefundTrail(a)

LEMMA RefundsInvIsEnough == TypeOK /\ RefundsInv => RefundsAgree
BY DEF TypeOK, RefundsTypeOK, RefundsInv, RefundEventsAreReal, RefundTrail, Returns, RefundDone, RefundsAgree,
       ProviderStatus

LEMMA PaymentEventIsNoRefundEvent ==
    \A p \in PaymentEvent, type \in RefundEvent : \A c, r : Event(p, c) # Event(type, r)
BY DEF PaymentEvent, RefundEvent, Event

LEMMA OnlyRefundsAreProcessed ==
    \A r : Event("refund.processed", r) \in EventId => r \in Refunds
<1>1. "refund.processed" \notin PaymentEvent
  BY DEF PaymentEvent
<1>. QED
  BY <1>1 DEF EventId, Event

\* What a step outside the components of cancellation and refunds may do to
\* what RefundTrail reads.
LEMMA PaymentStepAndRefunds ==
    ASSUME TypeOK, PaymentStep
    PROVE  /\ \A a \in Attempts : paymentStatus'[a] = "refunded" <=> paymentStatus[a] = "refunded"
           /\ \A r \in Refunds, type \in RefundEvent : Event(type, r) \in sent' <=> Event(type, r) \in sent
<1>. DEFINE Kept ==
       /\ \A a \in Attempts : paymentStatus'[a] = "refunded" <=> paymentStatus[a] = "refunded"
       /\ \A r \in Refunds, type \in RefundEvent : Event(type, r) \in sent' <=> Event(type, r) \in sent
<1>. USE DEF TypeOK, PaymentsTypeOK, SetPayment
<1>1. ASSUME NEW a \in Attempts, NEW v \in Versions, NEW t \in Readings,
             BeginPaymentAttempt(a, v, t)
      PROVE  Kept
  BY <1>1 DEF BeginPaymentAttempt
<1>2. ASSUME NEW a \in Attempts, FinalizeOrder(a) \/ AbandonOrder(a)
      PROVE  Kept
  BY <1>2 DEF FinalizeOrder, AbandonOrder
<1>3. ASSUME NEW a \in Attempts, NEW t \in Readings, CompensateOrderFailure(a, t)
      PROVE  Kept
  BY <1>3 DEF CompensateOrderFailure
<1>4. ASSUME NEW c \in Charges, NEW p \in PaymentEvent, Emit(Event(p, c))
      PROVE  Kept
  BY <1>4, PaymentEventIsNoRefundEvent DEF Emit, paymentRow
<1>5. ASSUME NEW c \in Charges, VerifyCheckout(c)
      PROVE  Kept
  BY <1>5, PaymentAssumption DEF VerifyCheckout
<1>6. ASSUME NEW type \in PaymentEvent, NEW c \in Charges, IgnorePaymentEvent(type, c)
      PROVE  Kept
  BY <1>6 DEF IgnorePaymentEvent
<1>7. ASSUME NEW c \in Charges,
             \/ ApplyAuthorized(c) \/ ApplyCaptured(c) \/ ApplyLateCapture(c)
             \/ \E t \in Readings : ApplyFailed(c, t)
      PROVE  Kept
  BY <1>7, PaymentAssumption DEF ApplyAuthorized, ApplyCaptured, ApplyLateCapture, ApplyFailed,
                                 AcceptPaymentEvent
<1>8. ASSUME NEW c \in Charges, ChargeFails(c) \/ ChargeIsAuthorized(c) \/ ChargeIsCaptured(c)
      PROVE  Kept
  BY <1>4, <1>8 DEF ChargeFails, ChargeIsAuthorized, ChargeIsCaptured, PaymentEvent
<1>. QED
  BY <1>1, <1>2, <1>3, <1>5, <1>6, <1>7, <1>8 DEF PaymentStep, WebhookStep

\* A trail survives every step that leaves the refund as it is.
LEMMA TrailSurvives ==
    ASSUME NEW a \in Attempts, RefundTrail(a),
           bookingStatus[BookingFor[a]] = "cancelled" => bookingStatus'[BookingFor[a]] = "cancelled",
           chargeOf[a] # NoCharge => chargeOf'[a] = chargeOf[a],
           paymentStatus'[a] = "refunded" <=> paymentStatus[a] = "refunded",
           refundStatus'[a] = refundStatus[a], refundIdOf'[a] = refundIdOf[a],
           refundCall'[a] = refundCall[a], fetched'[a] = fetched[a],
           madeRefunds \subseteq madeRefunds',
           \A r \in Refunds : RefundDone(r) => RefundDone(r)',
           refundIdOf[a] \in Refunds \union {NoRefund}
    PROVE  RefundTrail(a)'
BY RefundAssumption DEF RefundTrail, HasRefund, Returns

\* Cancellation, its handler's second transaction, refund webhooks and
\* reconciliation, one at a time.  d is the attempt whose trail is looked at.
LEMMA CancelKeepsTrails ==
    ASSUME TypeOK, RefundsInv, UnansweredHasNoId,
           NEW a \in Attempts, NEW v \in Versions, CancelConfirmed(a, v), NEW d \in Attempts,
           ClosedStaysClosed
    PROVE  RefundTrail(d)'
<1>. USE DEF TypeOK, BookingsTypeOK, PaymentsTypeOK, RefundsTypeOK
<1>1. RefundTrail(d) /\ BookingFor[d] \in Bookings
  BY PaymentAssumption DEF RefundsInv
<1>2. CASE d = a
  <2>1. /\ refundStatus[a] = "absent" /\ refundIdOf[a] = NoRefund
        /\ paymentStatus[a] = "captured" /\ chargeOf[a] # NoCharge
    BY DEF CancelConfirmed, HasRefund, UnansweredHasNoId
  <2>2. /\ bookingStatus'[BookingFor[a]] = "cancelled" /\ refundStatus'[a] = "requested"
        /\ refundCall'[a] = "waiting"
        /\ UNCHANGED <<paymentStatus, chargeOf, refundIdOf, fetched, madeRefunds, sent>>
    BY <1>1, <1>2 DEF CancelConfirmed, SetBooking, SetRefund, SetCall, paymentVars
  <2>3. fetched[a] # "processed"
    BY <1>1, <1>2, <2>1 DEF RefundTrail
  <2>. QED
    BY <1>2, <2>1, <2>2, <2>3, RefundAssumption DEF RefundTrail, HasRefund
<1>3. CASE d # a
  <2>1. /\ refundStatus'[d] = refundStatus[d] /\ refundCall'[d] = refundCall[d]
        /\ UNCHANGED <<paymentStatus, chargeOf, refundIdOf, fetched, madeRefunds, sent>>
    BY <1>3 DEF CancelConfirmed, SetRefund, SetCall, paymentVars
  <2>2. bookingStatus[BookingFor[d]] = "cancelled" => bookingStatus'[BookingFor[d]] = "cancelled"
    BY <1>1 DEF ClosedStaysClosed
  <2>. QED
    BY <1>1, <2>1, <2>2, TrailSurvives DEF RefundDone
<1>. QED
  BY <1>2, <1>3

LEMMA FinalizeKeepsTrails ==
    ASSUME TypeOK, RefundsInv, UnansweredHasNoId,
           NEW a \in Attempts, NEW status \in RefundStatus, FinalizeRefund(a, status),
           NEW d \in Attempts
    PROVE  RefundTrail(d)'
<1>. USE DEF TypeOK, PaymentsTypeOK, RefundsTypeOK
<1>1. RefundTrail(d) /\ RefundTrail(a)
  BY DEF RefundsInv
<1>2. UNCHANGED <<bookingStatus, chargeOf, fetched, madeRefunds, sent>>
  BY DEF FinalizeRefund, bookingVars
<1>3. refundCall' = [refundCall EXCEPT ![a] = "none"] /\ refundCall[a] \in Refunds
  BY DEF FinalizeRefund, SetCall
<1>4. HasRefund(a) /\ Returns(refundCall[a], a)
  BY <1>1, <1>3, RefundAssumption DEF RefundTrail
<1>5. CASE d # a
  <2>1. /\ refundStatus'[d] = refundStatus[d] /\ refundIdOf'[d] = refundIdOf[d]
        /\ paymentStatus'[d] = paymentStatus[d]
    BY <1>5 DEF FinalizeRefund, SettleRefund, SetRefund, SetPayment
  <2>. QED
    BY <1>1, <1>2, <1>3, <1>5, <2>1, TrailSurvives DEF RefundDone
<1>6. CASE d = a /\ refundStatus[a] # "requested"
  <2>1. UNCHANGED <<refundStatus, refundIdOf, paymentStatus>> /\ refundCall'[a] = "none"
    BY <1>3, <1>6 DEF FinalizeRefund
  <2>. QED
    BY <1>1, <1>2, <1>6, <2>1, RefundAssumption DEF RefundTrail, HasRefund, Returns, RefundDone
<1>7. CASE d = a /\ refundStatus[a] = "requested"
  <2>1. /\ refundIdOf'[a] = refundCall[a] /\ refundCall'[a] = "none"
        /\ refundStatus'[a] = status /\ status # "absent"
        /\ status = "processed" => RefundDone(refundCall[a])
        /\ paymentStatus'[a] = IF status = "processed" THEN "refunded" ELSE paymentStatus[a]
    BY <1>3, <1>7 DEF FinalizeRefund, SettleRefund, SetRefund, SetPayment, ProviderStatus, RefundDone
  <2>2. fetched[a] # "processed" /\ paymentStatus[a] # "refunded"
    BY <1>1, <1>7 DEF RefundTrail, UnansweredHasNoId
  <2>. QED
    BY <1>1, <1>2, <1>3, <1>4, <1>7, <2>1, <2>2, RefundAssumption
       DEF RefundTrail, HasRefund, Returns, RefundDone
<1>. QED
  BY <1>5, <1>6, <1>7

LEMMA WebhookKeepsTrails ==
    ASSUME TypeOK, RefundsInv, UnansweredHasNoId,
           NEW a \in Attempts, NEW r \in Refunds,
           ApplyRefundProcessed(a, r) \/ ApplyRefundFailed(a, r),
           NEW d \in Attempts
    PROVE  RefundTrail(d)'
<1>. USE DEF TypeOK, PaymentsTypeOK, RefundsTypeOK
<1>1. RefundTrail(d) /\ RefundTrail(a)
  BY DEF RefundsInv
<1>2. UNCHANGED <<bookingStatus, chargeOf, refundCall, fetched, madeRefunds, sent>>
  BY DEF ApplyRefundProcessed, ApplyRefundFailed, AcceptRefundEvent, bookingVars
<1>3. /\ refundIdOf' = [refundIdOf EXCEPT ![a] = r] /\ refundIdOf[a] \in {NoRefund, r}
      /\ HasRefund(a) /\ ChargeRefunded[r] = chargeOf[a] /\ r \notin Mispriced
  BY DEF ApplyRefundProcessed, ApplyRefundFailed, AcceptRefundEvent, IsOtherRefund, RefundTarget
<1>4. r \in madeRefunds
  BY DEF ApplyRefundProcessed, ApplyRefundFailed, Receive, RefundsInv, RefundEventsAreReal, RefundEvent
<1>5. CASE d # a
  <2>1. /\ refundStatus'[d] = refundStatus[d] /\ refundIdOf'[d] = refundIdOf[d]
        /\ paymentStatus'[d] = paymentStatus[d]
    BY <1>3, <1>5 DEF ApplyRefundProcessed, ApplyRefundFailed, SettleRefund, SetRefund, SetPayment
  <2>. QED
    BY <1>1, <1>2, <1>5, <2>1, TrailSurvives DEF RefundDone
<1>6. CASE d = a /\ ApplyRefundProcessed(a, r)
  <2>1. refundStatus'[a] = "processed" /\ paymentStatus'[a] = "refunded" /\ RefundDone(r)
    BY <1>6 DEF ApplyRefundProcessed, SettleRefund, SetRefund, SetPayment, Receive, RefundDone
  <2>. QED
    BY <1>1, <1>2, <1>3, <1>4, <1>6, <2>1, RefundAssumption
       DEF RefundTrail, HasRefund, Returns, RefundDone
<1>7. CASE d = a /\ ApplyRefundFailed(a, r)
  <2>1. /\ refundStatus'[a] = IF refundStatus[a] = "processed" THEN "processed" ELSE "failed"
        /\ UNCHANGED paymentStatus
    BY <1>7 DEF ApplyRefundFailed, SetRefund
  <2>. QED
    BY <1>1, <1>2, <1>3, <1>4, <1>7, <2>1, RefundAssumption
       DEF RefundTrail, HasRefund, Returns, RefundDone
<1>. QED
  BY <1>5, <1>6, <1>7

LEMMA ReconciliationKeepsTrails ==
    ASSUME TypeOK, RefundsInv,
           NEW a \in Attempts, FetchRefund(a) \/ ApplyFetchedRefund(a), NEW d \in Attempts,
           UnansweredHasNoId
    PROVE  RefundTrail(d)'
<1>. USE DEF TypeOK, PaymentsTypeOK, RefundsTypeOK
<1>1. RefundTrail(d) /\ RefundTrail(a)
  BY DEF RefundsInv
<1>2. UNCHANGED <<bookingStatus, chargeOf, refundCall, refundIdOf, madeRefunds, sent>>
  BY DEF FetchRefund, ApplyFetchedRefund, bookingVars, paymentVars, refundRow
<1>3. CASE d # a
  <2>1. /\ refundStatus'[d] = refundStatus[d] /\ fetched'[d] = fetched[d]
        /\ paymentStatus'[d] = paymentStatus[d]
    BY <1>3 DEF FetchRefund, ApplyFetchedRefund, SettleRefund, SetRefund, SetPayment, paymentVars,
                refundRow
  <2>. QED
    BY <1>1, <1>2, <1>3, <2>1, TrailSurvives DEF RefundDone
<1>4. CASE d = a /\ FetchRefund(a)
  <2>1. /\ UNCHANGED <<refundStatus, paymentStatus>>
        /\ fetched'[a] = ProviderStatus(refundIdOf[a])
        /\ refundStatus[a] = "pending"
    BY <1>4 DEF FetchRefund, paymentVars, refundRow, OldestPending, PendingRefunds
  <2>2. fetched'[a] = "processed" => RefundDone(refundIdOf[a])
    BY <2>1 DEF ProviderStatus, RefundDone
  <2>3. fetched'[a] = "processed" => refundIdOf[a] # NoRefund
    BY <2>2, RefundAssumption, OnlyRefundsAreProcessed DEF RefundDone
  <2>. QED
    BY <1>1, <1>2, <1>4, <2>1, <2>2, <2>3 DEF RefundTrail, HasRefund, Returns, RefundDone
<1>5. CASE d = a /\ ApplyFetchedRefund(a)
  <2>1. CASE refundStatus[a] # "pending"
    BY <1>1, <1>2, <1>5, <2>1
       DEF ApplyFetchedRefund, RefundTrail, HasRefund, Returns, RefundDone
  <2>2. CASE refundStatus[a] = "pending" /\ fetched[a] = "processed"
    BY <1>1, <1>2, <1>5, <2>2
       DEF ApplyFetchedRefund, SettleRefund, SetRefund, SetPayment, RefundTrail, HasRefund,
           Returns, RefundDone
  <2>3. CASE refundStatus[a] = "pending" /\ fetched[a] # "processed"
    BY <1>1, <1>2, <1>5, <2>3
       DEF ApplyFetchedRefund, SetRefund, RefundTrail, HasRefund, Returns, RefundDone
  <2>. QED
    BY <2>1, <2>2, <2>3
<1>. QED
  BY <1>3, <1>4, <1>5

LEMMA RazorpayKeepsTrails ==
    ASSUME TypeOK, RefundsInv,
           NEW a \in Attempts, NEW r \in Refunds, RazorpayMakesRefund(a, r), NEW d \in Attempts
    PROVE  RefundTrail(d)'
<1>. USE DEF TypeOK, RefundsTypeOK
<1>1. RefundTrail(d)
  BY DEF RefundsInv
<1>2. /\ UNCHANGED <<bookingStatus, chargeOf, paymentStatus, refundStatus, refundIdOf, fetched, sent>>
      /\ refundCall' = [refundCall EXCEPT ![a] = r] /\ refundCall[a] = "waiting"
      /\ madeRefunds' = madeRefunds \union {r}
      /\ ChargeRefunded[r] = chargeOf[a] /\ r \notin Mispriced
  BY DEF RazorpayMakesRefund, bookingVars, paymentVars, refundRow, SetCall
<1>3. CASE d # a
  BY <1>1, <1>2, <1>3, TrailSurvives DEF RefundDone
<1>4. CASE d = a
  BY <1>1, <1>2, <1>4, RefundAssumption DEF RefundTrail, HasRefund, Returns, RefundDone
<1>. QED
  BY <1>3, <1>4

LEMMA RefundFailureKeepsTrails ==
    ASSUME TypeOK, RefundsInv,
           NEW a \in Attempts, RecordRefundFailure(a), NEW d \in Attempts
    PROVE  RefundTrail(d)'
<1>. USE DEF TypeOK, RefundsTypeOK
<1>1. RefundTrail(d)
  BY DEF RefundsInv
<1>2. /\ UNCHANGED <<bookingStatus, chargeOf, paymentStatus, refundIdOf, fetched, sent, madeRefunds>>
      /\ refundCall' = [refundCall EXCEPT ![a] = "none"]
      /\ refundStatus' = [refundStatus EXCEPT
                            ![a] = IF refundStatus[a] = "requested" THEN "failed" ELSE refundStatus[a]]
  BY DEF RecordRefundFailure, bookingVars, paymentVars, SetCall, SetRefund
<1>3. CASE d # a
  BY <1>1, <1>2, <1>3, TrailSurvives DEF RefundDone
<1>4. CASE d = a
  BY <1>1, <1>2, <1>4, RefundAssumption DEF RefundTrail, HasRefund, Returns, RefundDone
<1>. QED
  BY <1>3, <1>4

LEMMA CancellationStepKeepsTrails ==
    ASSUME TypeOK, RefundsInv, UnansweredHasNoId, CancellationStep, ClosedStaysClosed,
           MoneyIsKept, NEW d \in Attempts
    PROVE  RefundTrail(d)'
<1>. USE DEF TypeOK, BookingsTypeOK, PaymentsTypeOK, RefundsTypeOK
<1>1. RefundTrail(d) /\ BookingFor[d] \in Bookings
  BY PaymentAssumption DEF RefundsInv
<1>2. ASSUME UNCHANGED <<paymentStatus, chargeOf, refundStatus, refundIdOf, refundCall, fetched>>,
             madeRefunds \subseteq madeRefunds', sent \subseteq sent'
      PROVE  RefundTrail(d)'
  <2>1. bookingStatus[BookingFor[d]] = "cancelled" => bookingStatus'[BookingFor[d]] = "cancelled"
    BY <1>1 DEF ClosedStaysClosed
  <2>. QED
    BY <1>1, <1>2, <2>1, TrailSurvives DEF RefundDone
<1>3. ASSUME NEW b \in Bookings, NEW v \in Versions, NEW t \in Readings, CancelUnpaid(b, v, t)
      PROVE  RefundTrail(d)'
  BY <1>2, <1>3 DEF CancelUnpaid, paymentVars, refundVars
<1>4. ASSUME NEW r \in Refunds, RefundElsewhere(r)
      PROVE  RefundTrail(d)'
  BY <1>2, <1>4 DEF RefundElsewhere, paymentVars, refundRow
<1>5. ASSUME NEW type \in RefundEvent, NEW r \in Refunds,
             RefundSettles(r, type) \/ IgnoreRefundEvent(type, r)
      PROVE  RefundTrail(d)'
  BY <1>2, <1>5 DEF RefundSettles, IgnoreRefundEvent, paymentRow, refundVars
<1>. QED
  BY <1>3, <1>4, <1>5, CancelKeepsTrails, RazorpayKeepsTrails, FinalizeKeepsTrails,
     RefundFailureKeepsTrails, WebhookKeepsTrails, ReconciliationKeepsTrails
     DEF CancellationStep, RefundWebhookStep, Reconciliation, Settlement

\* Elsewhere the refund columns are read-only, cancelled bookings stay
\* cancelled, charges stay with their attempts, and no payment becomes
\* refunded or ceases to be.
LEMMA OtherStepsKeepTrails ==
    ASSUME TypeOK, RefundsInv, [Next]_vars, ~ CancellationStep, ClosedStaysClosed, MoneyIsKept
    PROVE  RefundsInv'
<1>. USE DEF TypeOK, BookingsTypeOK, PaymentsTypeOK, RefundsTypeOK
<1>1. UNCHANGED refundVars
  BY DEF Next, StationStep, BookingStep, PaymentStep, SessionStep, vars
<1>2. /\ \A d \in Attempts : paymentStatus'[d] = "refunded" <=> paymentStatus[d] = "refunded"
      /\ \A r \in Refunds, type \in RefundEvent :
           Event(type, r) \in sent' <=> Event(type, r) \in sent
  <2>1. CASE PaymentStep
    BY <2>1, PaymentStepAndRefunds
  <2>2. CASE ~ PaymentStep
    <3>1. UNCHANGED paymentVars
      BY <2>2 DEF Next, StationStep, BookingStep, SessionStep, vars, paymentVars
    <3>. QED
      BY <3>1 DEF paymentVars
  <2>. QED
    BY <2>1, <2>2
<1>3. RefundEventsAreReal'
  BY <1>1, <1>2 DEF RefundsInv, RefundEventsAreReal, refundVars
<1>4. ASSUME NEW d \in Attempts
      PROVE  RefundTrail(d)'
  <2>1. RefundTrail(d) /\ BookingFor[d] \in Bookings
    BY PaymentAssumption DEF RefundsInv
  <2>2. bookingStatus[BookingFor[d]] = "cancelled" => bookingStatus'[BookingFor[d]] = "cancelled"
    BY <2>1 DEF ClosedStaysClosed
  <2>3. chargeOf[d] # NoCharge => chargeOf'[d] = chargeOf[d]
    BY DEF MoneyIsKept
  <2>4. /\ refundStatus'[d] = refundStatus[d] /\ refundIdOf'[d] = refundIdOf[d]
        /\ refundCall'[d] = refundCall[d] /\ fetched'[d] = fetched[d]
        /\ madeRefunds' = madeRefunds
    BY <1>1 DEF refundVars
  <2>5. \A r \in Refunds : RefundDone(r) => RefundDone(r)'
    BY <1>2 DEF RefundDone, RefundEvent
  <2>. QED
    BY <1>2, <2>1, <2>2, <2>3, <2>4, <2>5, TrailSurvives
<1>. QED
  BY <1>3, <1>4 DEF RefundsInv

LEMMA CancellationStepKeepsEventsReal ==
    ASSUME TypeOK, RefundEventsAreReal, CancellationStep
    PROVE  RefundEventsAreReal'
<1>1. ASSUME sent' = sent, madeRefunds \subseteq madeRefunds'
      PROVE  RefundEventsAreReal'
  BY <1>1 DEF RefundEventsAreReal
<1>2. ASSUME NEW r \in Refunds, NEW type \in RefundEvent, RefundSettles(r, type)
      PROVE  RefundEventsAreReal'
  BY <1>2 DEF RefundSettles, refundVars, RefundEventsAreReal, Event
<1>3. CASE Settlement
  BY <1>2, <1>3 DEF Settlement
<1>4. CASE ~ Settlement
  <2>1. sent' = sent /\ madeRefunds \subseteq madeRefunds'
    BY <1>4 DEF CancellationStep, CancelUnpaid, CancelConfirmed, RazorpayMakesRefund,
                RefundElsewhere, FinalizeRefund, RecordRefundFailure, RefundWebhookStep,
                IgnoreRefundEvent, ApplyRefundProcessed, ApplyRefundFailed, AcceptRefundEvent,
                Reconciliation, FetchRefund, ApplyFetchedRefund, paymentVars, refundVars
  <2>. QED
    BY <1>1, <2>1
<1>. QED
  BY <1>3, <1>4

LEMMA StepsKeepTrails ==
    ASSUME TypeOK, RefundsInv, UnansweredHasNoId, [Next]_vars
    PROVE  RefundsInv'
<1>1. ClosedStaysClosed /\ MoneyIsKept
  BY StepsKeepBookingsClosed, StepsKeepMoney
<1>2. CASE CancellationStep
  BY <1>1, <1>2, CancellationStepKeepsTrails, CancellationStepKeepsEventsReal DEF RefundsInv
<1>3. CASE ~ CancellationStep
  BY <1>1, <1>3, OtherStepsKeepTrails
<1>. QED
  BY <1>2, <1>3

\* A refund is recorded as processed exactly when its payment is recorded as
\* refunded, and only when Razorpay has returned that charge in full, and only
\* of a cancelled booking, in whatever order the handler's answer, the webhooks
\* and the reconciliation job come (_finalize_refund, _apply_refund_event,
\* _apply_reconciled_refund).
THEOREM RefundsAreTruthful == Spec => []RefundsAgree
<1>1. Init => RefundsInv /\ UnansweredHasNoId
  BY RefundAssumption DEF Init, PaymentsInit, RefundsInit, RefundsInv, RefundEventsAreReal, RefundTrail, HasRefund,
                          UnansweredHasNoId
<1>2. TypeOK /\ RefundsInv /\ UnansweredHasNoId /\ [Next]_vars => RefundsInv' /\ UnansweredHasNoId'
  BY StepsKeepTrails, StepsKeepMoney
<1>. QED
  BY <1>1, <1>2, TypeCorrect, RefundsInvIsEnough, PTL DEF Spec

=============================================================================
