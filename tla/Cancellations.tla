---------------------------- MODULE Cancellations ---------------------------
(***************************************************************************)
(* Cancelling a booking, and the refund of what was captured for it        *)
(* (bookings/cancellation.py, the refund events of payments/webhooks.py,   *)
(* and the reconciliation job of maintenance/service.py).                  *)
(*                                                                         *)
(* A refunds row is named by its payment, which is unique.  The handler    *)
(* writes the row, calls Razorpay outside any transaction, and records the *)
(* answer in a second transaction; a handler that dies leaves the row      *)
(* "requested".  refundCall is where that call stands:                     *)
(*    "none"     no call was made, or its handler has finished;            *)
(*    "waiting"  Razorpay has not been reached;                            *)
(*    r          Razorpay made refund r, the answer is on its way.         *)
(*                                                                         *)
(* Razorpay may also make a refund the handler never hears of: the request *)
(* arrives after its timeout, or staff refund the charge on the dashboard. *)
(* Both are RefundElsewhere.                                               *)
(***************************************************************************)
EXTENDS Payments

CONSTANTS
    Refunds,        \* Razorpay refund ids
    ChargeRefunded, \* the charge each one returns
    NoRefund,       \* provider_refund_id IS NULL
    RefundBatch     \* batch_size of the reconciliation job

ASSUME RefundAssumption ==
    /\ ChargeRefunded \in [Refunds -> Charges]
    /\ NoRefund \notin Refunds
    /\ {"none", "waiting"} \intersect Refunds = {}
    /\ RefundBatch \in Nat \ {0}

VARIABLES
    refundStatus,
    refundIdOf,     \* refund.provider_refund_id
    refundCreated,  \* refund.created_at, as a rank among the refunds
    refundCall,     \* in flight: the cancellation handler's call
    fetched,        \* in flight: what the reconciliation job was told
    madeRefunds     \* external: the refunds Razorpay has made

refundRow == <<refundStatus, refundIdOf, refundCreated>>
refundVars == <<refundStatus, refundIdOf, refundCreated, refundCall, fetched, madeRefunds>>

RefundStatus == {"absent", "requested", "pending", "processed", "failed"}
RefundEvent == {"refund.processed", "refund.failed"}

RefundsTypeOK ==
    /\ refundStatus \in [Attempts -> RefundStatus]
    /\ refundIdOf \in [Attempts -> Refunds \union {NoRefund}]
    /\ refundCreated \in [Attempts -> Nat]
    /\ refundCall \in [Attempts -> {"none", "waiting"} \union Refunds]
    /\ fetched \in [Attempts -> {"none", "processed", "failed"}]
    /\ madeRefunds \subseteq Refunds

RefundsInit ==
    /\ refundStatus = [a \in Attempts |-> "absent"]
    /\ refundIdOf = [a \in Attempts |-> NoRefund]
    /\ refundCreated = [a \in Attempts |-> 0]
    /\ refundCall = [a \in Attempts |-> "none"]
    /\ fetched = [a \in Attempts |-> "none"]
    /\ madeRefunds = {}

HasRefund(a) == refundStatus[a] # "absent"
SetRefund(a, status) == refundStatus' = [refundStatus EXCEPT ![a] = status]
SetCall(a, where) == refundCall' = [refundCall EXCEPT ![a] = where]

\* refund.status = PROCESSED; payment.status = REFUNDED
SettleRefund(a) == SetRefund(a, "processed") /\ SetPayment(a, "refunded")

\* What Razorpay reports of refund r when asked.
ProviderStatus(r) ==
    IF Event("refund.processed", r) \in sent THEN "processed"
    ELSE IF Event("refund.failed", r) \in sent THEN "failed"
    ELSE "pending"

-----------------------------------------------------------------------------
(* cancel_booking_with_refund *)

\* _prepare_cancellation: nothing was captured yet.  A booking that is
\* already cancelled is answered with its refund and left alone.
CancelUnpaid(b, v, t) ==
    /\ bookingVersion[b] = v
    /\ \/ bookingStatus[b] = "payment_pending"
       \/ bookingStatus[b] = "held" /\ HoldLive(b, t)
    /\ SetBooking(b, "cancelled")
    /\ UNCHANGED <<now, paymentVars, refundVars>>

\* _prepare_cancellation: a captured payment of the booking is refunded, the
\* first one the query returns.  payment_id is unique among refunds.
CancelConfirmed(a, v) ==
    LET b == BookingFor[a]
    IN  /\ bookingStatus[b] = "confirmed"
        /\ bookingVersion[b] = v
        /\ paymentStatus[a] = "captured"
        /\ chargeOf[a] # NoCharge
        /\ ~ HasRefund(a)
        /\ SetBooking(b, "cancelled")
        /\ SetRefund(a, "requested")
        /\ refundCreated' = [refundCreated EXCEPT
                                ![a] = Cardinality({x \in Attempts : HasRefund(x)})]
        /\ SetCall(a, "waiting")
        /\ UNCHANGED <<now, paymentVars, refundIdOf, fetched, madeRefunds>>

\* Razorpay refunds a captured charge in full once, unless that refund fails.
Refundable(r) ==
    LET c == ChargeRefunded[r]
    IN  /\ r \notin madeRefunds
        /\ Captured(c)
        /\ \A x \in madeRefunds : ChargeRefunded[x] = c => ProviderStatus(x) = "failed"

\* External: the handler's request reaches Razorpay.
RazorpayMakesRefund(a, r) ==
    /\ refundCall[a] = "waiting"
    /\ ChargeRefunded[r] = chargeOf[a]
    /\ r \notin Mispriced
    /\ Refundable(r)
    /\ madeRefunds' = madeRefunds \union {r}
    /\ SetCall(a, r)
    /\ UNCHANGED <<bookingVars, paymentVars, refundRow, fetched>>

\* External: a refund the application does not know of.
RefundElsewhere(r) ==
    /\ Refundable(r)
    /\ madeRefunds' = madeRefunds \union {r}
    /\ UNCHANGED <<bookingVars, paymentVars, refundRow, refundCall, fetched>>

\* External: the money moves, or cannot be moved.
RefundSettles(r, type) ==
    /\ r \in madeRefunds
    /\ ProviderStatus(r) = "pending"
    /\ sent' = sent \union {Event(type, r)}
    /\ UNCHANGED <<bookingVars, paymentRow, seen, refundVars>>

\* Fault: the answer is recorded over whatever a webhook has set meanwhile.
RecordOverWebhook(a, status) ==
    /\ refundCall[a] \in Refunds
    /\ refundIdOf' = [refundIdOf EXCEPT ![a] = refundCall[a]]
    /\ IF status = "processed"
         THEN SettleRefund(a)
         ELSE SetRefund(a, status) /\ UNCHANGED paymentStatus
    /\ SetCall(a, "none")
    /\ UNCHANGED <<bookingVars, chargeOf, lastError, sent, seen, refundCreated, fetched,
                   madeRefunds>>

\* _finalize_refund.  The answer tells how the refund stood when Razorpay
\* wrote it.  A row that a webhook has settled meanwhile is left alone.
FinalizeRefund(a, status) ==
    /\ refundCall[a] \in Refunds
    /\ status \in {"pending", ProviderStatus(refundCall[a])}
    /\ IF refundStatus[a] # "requested"
         THEN UNCHANGED <<refundStatus, refundIdOf, paymentStatus>>
         ELSE /\ refundIdOf' = [refundIdOf EXCEPT ![a] = refundCall[a]]
              /\ IF status = "processed"
                   THEN SettleRefund(a)
                   ELSE SetRefund(a, status) /\ UNCHANGED paymentStatus
    /\ SetCall(a, "none")
    /\ UNCHANGED <<bookingVars, chargeOf, lastError, sent, seen, refundCreated, fetched,
                   madeRefunds>>

\* _record_refund_failure: no keys, a refusal, an unreadable answer or none
\* within the timeout.  The refund may exist all the same.
RecordRefundFailure(a) ==
    /\ refundCall[a] # "none"
    /\ SetRefund(a, IF refundStatus[a] = "requested" THEN "failed" ELSE refundStatus[a])
    /\ SetCall(a, "none")
    /\ UNCHANGED <<bookingVars, paymentVars, refundIdOf, refundCreated, fetched, madeRefunds>>

-----------------------------------------------------------------------------
(* process_razorpay_webhook for refund events.  The payments row is found  *)
(* by its charge, and the refunds row by the payment.                      *)

RefundTarget(r) == {a \in Attempts : chargeOf[a] = ChargeRefunded[r] /\ HasRefund(a)}

IsOtherRefund(a, r) == refundIdOf[a] \notin {NoRefund, r}

\* _apply_refund_event: no such row, another amount, or another refund.
IgnoreRefundEvent(type, r) ==
    /\ Receive(Event(type, r))
    /\ \A a \in RefundTarget(r) : r \in Mispriced \/ IsOtherRefund(a, r)
    /\ UNCHANGED <<bookingVars, paymentRow, sent, refundVars>>

\* Fault: the event is not compared with the refund the row records.
SettleByAnyRefund(a, r) ==
    /\ a \in RefundTarget(r)
    /\ refundIdOf' = [refundIdOf EXCEPT ![a] = r]
    /\ UNCHANGED <<bookingVars, chargeOf, lastError, sent, refundCreated, refundCall,
                   fetched, madeRefunds>>

AcceptRefundEvent(a, r) ==
    /\ a \in RefundTarget(r)
    /\ r \notin Mispriced
    /\ ~ IsOtherRefund(a, r)
    /\ refundIdOf' = [refundIdOf EXCEPT ![a] = r]
    /\ UNCHANGED <<bookingVars, chargeOf, lastError, sent, refundCreated, refundCall,
                   fetched, madeRefunds>>

ApplyRefundProcessed(a, r) ==
    /\ Receive(Event("refund.processed", r))
    /\ AcceptRefundEvent(a, r)
    /\ SettleRefund(a)

ApplyRefundFailed(a, r) ==
    /\ Receive(Event("refund.failed", r))
    /\ AcceptRefundEvent(a, r)
    /\ SetRefund(a, IF refundStatus[a] = "processed" THEN "processed" ELSE "failed")
    /\ UNCHANGED paymentStatus

-----------------------------------------------------------------------------
(* reconcile_pending_refunds *)

\* Fault: a batch also holds refunds that Razorpay was never asked for.
AnyUnsettled == {a \in Attempts : refundStatus[a] \in {"requested", "pending"}}

PendingRefunds == {a \in Attempts : refundStatus[a] = "pending"}

\* _pending_refund_snapshots: the oldest first, one batch of them
OldestPending ==
    {a \in PendingRefunds :
        Cardinality({x \in PendingRefunds : refundCreated[x] < refundCreated[a]}) < RefundBatch}

\* The job asks Razorpay, holding no lock.  A refund still pending, or an
\* error, leaves the row as it is.
FetchRefund(a) ==
    /\ a \in OldestPending
    /\ fetched[a] = "none"
    /\ ProviderStatus(refundIdOf[a]) # "pending"
    /\ fetched' = [fetched EXCEPT ![a] = ProviderStatus(refundIdOf[a])]
    /\ UNCHANGED <<bookingVars, paymentVars, refundRow, refundCall, madeRefunds>>

\* _apply_reconciled_refund: nothing if the row was settled meanwhile.
ApplyFetchedRefund(a) ==
    /\ fetched[a] # "none"
    /\ IF refundStatus[a] # "pending"
         THEN UNCHANGED <<refundStatus, paymentStatus>>
         ELSE IF fetched[a] = "processed"
                THEN SettleRefund(a)
                ELSE SetRefund(a, "failed") /\ UNCHANGED paymentStatus
    /\ fetched' = [fetched EXCEPT ![a] = "none"]
    /\ UNCHANGED <<bookingVars, chargeOf, lastError, sent, seen, refundIdOf, refundCreated,
                   refundCall, madeRefunds>>

=============================================================================
