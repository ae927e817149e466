------------------------------ MODULE RowLocks ------------------------------
(***************************************************************************)
(* The transactions of all handlers and jobs around one charge point, at   *)
(* the grain of SQL statements and PostgreSQL's row locks.  The other      *)
(* modules take a transaction for one step; here it locks its rows one     *)
(* after the other, in the order of the code, and may wait at each.        *)
(*                                                                         *)
(* Rows are written under locks that are kept until the commit, so what a  *)
(* transaction writes is applied there.  What it reads without a lock, the *)
(* rows an UPDATE sees when it begins and the overlapping bookings of a    *)
(* hold, is read in a step of its own.  A new row is seen by others once   *)
(* it is committed (READ COMMITTED).  There is no exclusion constraint     *)
(* here: it is shown that the locks do without it.                         *)
(*                                                                         *)
(* All bookings are of the same point and belong to one user, so that      *)
(* every statement that may touch several of them does.  A booking is paid *)
(* by one attempt, and "authorized" is "order_created".                    *)
(***************************************************************************)
EXTENDS Naturals, Sequences

CONSTANTS
    Workers,    \* processes of the API and of the job queue
    Bookings,
    Conflicts,  \* the pairs of bookings whose slots overlap
    Priced,     \* bound: the bookings that get as far as a payment
    Nobody      \* holds no lock, and the subject of what is about no booking

ASSUME WorkerAssumption == Nobody \notin Workers /\ Nobody \notin Bookings

ASSUME ConflictAssumption ==
    /\ Conflicts \subseteq Bookings \X Bookings
    /\ \A p \in Conflicts : p[1] # p[2] /\ <<p[2], p[1]>> \in Conflicts

VARIABLES
    booking,    \* booking.status, "absent" until there is a row
    payment,    \* payment.status; "no_order" of a failed one without an order
    refund,     \* refund.status
    ranOut,     \* the bookings whose hold_expires_at has passed
    lockedBy,   \* who has locked a row
    doing,      \* the operation of a worker
    subject,    \* the booking it is about
    stage,      \* what it does next: lock rows, update, or commit
    taken,      \* how many locks of its plan it has
    late,       \* what had run out when it read the clock
    visits      \* the rows that its UPDATE has still to visit

dataVars == <<booking, payment, refund, ranOut>>
workVars == <<doing, subject, stage, taken, late, visits>>
vars == <<dataVars, lockedBy, workVars>>

Row(table, b) == <<table, b>>
Point == Row("charge_points", Nobody)
Station == Row("charging_stations", Nobody)
Rows == {Point, Station} \union ({"bookings", "payments", "refunds"} \X Bookings)

Blocking == {"held", "payment_pending", "confirmed", "active"}
Open == {"initiated", "order_created"}

-----------------------------------------------------------------------------
(* The operations: when one may begin, the rows it locks, what it must find *)
(* to go on to the next row, and whether it reads the clock first.          *)

\* Fault: the point of a hold is not locked.
UnlockedHold == << >>

\* _locked_charge_point_statement: one SELECT locks both rows of its join.
HoldPlan == <<Point, Station>>

EditPlan == <<Station, Point>>
PaymentPlan(b) == <<Row("payments", b), Row("bookings", b)>>
CancelPlan(b) == <<Row("bookings", b), Row("payments", b)>>
RefundEventPlan(b) == <<Row("payments", b), Row("refunds", b)>>
RefundAnswerPlan(b) == <<Row("refunds", b), Row("payments", b)>>
SessionPlan(b) == <<Row("bookings", b), Point>>

Plan(op, b) ==
    CASE op = "hold" -> HoldPlan
      [] op = "edit_point" -> EditPlan
      [] op = "begin_payment" -> <<Row("bookings", b)>>
      [] op \in {"finalize_order", "compensate", "captured", "failed"} -> PaymentPlan(b)
      [] op = "cancel" -> CancelPlan(b)
      [] op \in {"refund_processed", "refund_failed"} -> RefundEventPlan(b)
      [] op \in {"finalize_refund", "reconcile"} -> RefundAnswerPlan(b)
      [] op \in {"start_session", "complete_session"} -> SessionPlan(b)
      [] op \in {"read_bookings", "expire_holds"} -> << >>

Alone(op, b) == \A w \in Workers : doing[w] = op => subject[w] # b

\* Fault: a webhook that is delivered again is applied again.
CaptureRepeats(b) == payment[b] \in {"order_created", "failed", "captured"}

\* payment_webhook_events lets one delivery pass, and Razorpay captures once.
CaptureIsNews(b) == payment[b] \in {"order_created", "failed"} /\ Alone("captured", b)

\* These are about no booking in particular.
General == {"edit_point", "read_bookings", "expire_holds"}

MayBegin(op, b) ==
    CASE op = "hold" -> booking[b] = "absent" /\ Alone(op, b)
      [] op = "begin_payment" -> booking[b] = "held" /\ b \in Priced /\ payment[b] = "none"
      [] op \in {"finalize_order", "compensate"} ->
            payment[b] = "initiated" /\ Alone("finalize_order", b) /\ Alone("compensate", b)
      [] op = "captured" -> CaptureIsNews(b)
      [] op = "failed" -> payment[b] \in {"order_created", "failed", "captured"}
      [] op = "cancel" -> booking[b] \in {"held", "payment_pending", "confirmed"}
      [] op \in {"refund_processed", "refund_failed"} -> refund[b] # "none"
      [] op = "finalize_refund" -> refund[b] # "none" /\ Alone(op, b)
      [] op = "reconcile" -> refund[b] = "pending"
      [] op = "start_session" -> booking[b] = "confirmed"
      [] op = "complete_session" -> booking[b] = "active"

Continues(w) ==
    LET b == subject[w] IN
    taken[w] = 1 =>
      CASE doing[w] = "cancel" -> booking[b] = "confirmed" /\ payment[b] = "captured"
        [] doing[w] = "captured" -> payment[b] # "refunded"
        [] doing[w] = "failed" -> payment[b] \notin {"captured", "refunded"}
        [] doing[w] = "reconcile" -> refund[b] = "pending"
        [] doing[w] = "start_session" -> booking[b] = "confirmed"
        [] doing[w] = "complete_session" -> booking[b] = "active"
        [] OTHER -> TRUE

ReadsClock ==
    {"hold", "begin_payment", "compensate", "cancel", "read_bookings", "expire_holds"}

Operation ==
    ReadsClock \union {"edit_point", "finalize_order", "captured", "failed", "refund_processed",
                       "refund_failed", "finalize_refund", "reconcile", "start_session",
                       "complete_session"}

-----------------------------------------------------------------------------

TypeOK ==
    /\ booking \in [Bookings -> Blocking \union {"absent", "completed", "cancelled", "expired"}]
    /\ payment \in [Bookings -> Open \union {"none", "no_order", "failed", "captured", "refunded"}]
    /\ refund \in [Bookings -> {"none", "requested", "pending", "failed", "processed"}]
    /\ ranOut \subseteq Bookings
    /\ lockedBy \in [Rows -> Workers \union {Nobody}]
    /\ doing \in [Workers -> Operation \union {"nothing"}]
    /\ subject \in [Workers -> Bookings \union {Nobody}]
    /\ stage \in [Workers -> {"locking", "updating", "checked"}]
    /\ taken \in [Workers -> 0 .. 2]
    /\ late \in [Workers -> SUBSET Bookings]
    /\ visits \in [Workers -> SUBSET Bookings]
    /\ \A x \in Rows : lockedBy[x] # Nobody => doing[lockedBy[x]] # "nothing"

Init ==
    /\ booking = [b \in Bookings |-> "absent"]
    /\ payment = [b \in Bookings |-> "none"]
    /\ refund = [b \in Bookings |-> "none"]
    /\ ranOut = {}
    /\ lockedBy = [x \in Rows |-> Nobody]
    /\ doing = [w \in Workers |-> "nothing"]
    /\ subject = [w \in Workers |-> Nobody]
    /\ stage = [w \in Workers |-> "locking"]
    /\ taken = [w \in Workers |-> 0]
    /\ late = [w \in Workers |-> {}]
    /\ visits = [w \in Workers |-> {}]

\* A hold comes to its end.
RunOut(b) ==
    /\ booking[b] \in {"held", "payment_pending"}
    /\ b \notin ranOut
    /\ ranOut' = ranOut \union {b}
    /\ UNCHANGED <<booking, payment, refund, lockedBy, workVars>>

\* A worker takes up a request, and reads the clock before any row.
Begin(w, op, b) ==
    /\ doing[w] = "nothing"
    /\ IF op \in General THEN b = Nobody ELSE b \in Bookings /\ MayBegin(op, b)
    /\ doing' = [doing EXCEPT ![w] = op]
    /\ subject' = [subject EXCEPT ![w] = b]
    /\ late' = [late EXCEPT ![w] = IF op \in ReadsClock THEN ranOut ELSE {}]
    /\ UNCHANGED <<dataVars, lockedBy, stage, taken, visits>>

PlanOf(w) == Plan(doing[w], subject[w])
Locking(w) == doing[w] # "nothing" /\ stage[w] = "locking"
NextRow(w) == PlanOf(w)[taken[w] + 1]

\* SELECT ... FOR UPDATE of the next row.
LockNext(w) ==
    /\ Locking(w)
    /\ taken[w] < Len(PlanOf(w))
    /\ Continues(w)
    /\ lockedBy[NextRow(w)] = Nobody
    /\ lockedBy' = [lockedBy EXCEPT ![NextRow(w)] = w]
    /\ taken' = [taken EXCEPT ![w] = @ + 1]
    /\ UNCHANGED <<dataVars, doing, subject, stage, late, visits>>

HasLocks(w) == Locking(w) /\ taken[w] = Len(PlanOf(w))
Has(w, op) == doing[w] = op /\ HasLocks(w)

\* The transaction is over: locks are released, and the worker is free.
Release(w) ==
    /\ lockedBy' = [x \in Rows |-> IF lockedBy[x] = w THEN Nobody ELSE lockedBy[x]]
    /\ doing' = [doing EXCEPT ![w] = "nothing"]
    /\ subject' = [subject EXCEPT ![w] = Nobody]
    /\ stage' = [stage EXCEPT ![w] = "locking"]
    /\ taken' = [taken EXCEPT ![w] = 0]
    /\ late' = [late EXCEPT ![w] = {}]
    /\ visits' = [visits EXCEPT ![w] = {}]

\* Fault: a request is refused without a rollback.
GiveUpUnreleased(w) ==
    /\ doing[w] # "nothing"
    /\ doing' = [doing EXCEPT ![w] = "nothing"]
    /\ stage' = [stage EXCEPT ![w] = "locking"]
    /\ UNCHANGED <<dataVars, lockedBy, subject, taken, late, visits>>

\* It changes nothing: the request is refused or answered with what there is,
\* fails, loses a deadlock, or its process dies.
GiveUp(w) == doing[w] # "nothing" /\ Release(w) /\ UNCHANGED dataVars

-----------------------------------------------------------------------------
(* Expiry: UPDATE bookings SET status = 'expired' WHERE status = 'held' ... *)

Stale(w) == {b \in late[w] : booking[b] = "held"}

\* _expire_stale_holds, _expire_user_stale_holds: the UPDATE takes its snapshot ...
StartUpdate(w) ==
    /\ doing[w] \in {"hold", "read_bookings"}
    /\ HasLocks(w)
    /\ visits' = [visits EXCEPT ![w] = Stale(w)]
    /\ stage' = [stage EXCEPT ![w] = "updating"]
    /\ UNCHANGED <<dataVars, lockedBy, doing, subject, taken, late>>

\* ... and locks each row in it, waiting if it must.
VisitRow(w, b) ==
    /\ b \in visits[w]
    /\ lockedBy[Row("bookings", b)] = Nobody
    /\ visits' = [visits EXCEPT ![w] = @ \ {b}]
    /\ lockedBy' = [lockedBy EXCEPT ![Row("bookings", b)] = w]
    /\ UNCHANGED <<dataVars, doing, subject, stage, taken, late>>

\* expire_stale_booking_holds: a batch of stale holds that nobody has locked.
SelectBatch(w, S) ==
    /\ Has(w, "expire_holds")
    /\ S # {}
    /\ \A b \in S : b \in Stale(w) /\ lockedBy[Row("bookings", b)] = Nobody
    /\ lockedBy' = [x \in Rows |-> IF x \in {Row("bookings", b) : b \in S} THEN w ELSE lockedBy[x]]
    /\ stage' = [stage EXCEPT ![w] = "updating"]
    /\ UNCHANGED <<dataVars, doing, subject, taken, late, visits>>

Locked(w) == {b \in Bookings : lockedBy[Row("bookings", b)] = w}

\* Fault: a row is expired because it was stale when the UPDATE began.
ExpiresUnseen(w) == Locked(w)

\* A row that was waited for is looked at again.
Expires(w) == Locked(w) \intersect Stale(w)

CommitExpiry(w) ==
    /\ doing[w] \in {"read_bookings", "expire_holds"}
    /\ stage[w] = "updating"
    /\ visits[w] = {}
    /\ booking' = [b \in Bookings |-> IF b \in Expires(w) THEN "expired" ELSE booking[b]]
    /\ Release(w)
    /\ UNCHANGED <<payment, refund, ranOut>>

\* _has_overlapping_booking: a SELECT without locks, after the UPDATE.
CheckOverlap(w) ==
    /\ doing[w] = "hold"
    /\ stage[w] = "updating"
    /\ visits[w] = {}
    /\ \A c \in Bookings \ Expires(w) :
          <<subject[w], c>> \in Conflicts => booking[c] \notin Blocking
    /\ stage' = [stage EXCEPT ![w] = "checked"]
    /\ UNCHANGED <<dataVars, lockedBy, doing, subject, taken, late, visits>>

\* create_booking_hold inserts its row and commits.
CommitHold(w) ==
    /\ stage[w] = "checked"
    /\ booking' = [b \in Bookings |-> IF b = subject[w] THEN "held"
                                     ELSE IF b \in Expires(w) THEN "expired" ELSE booking[b]]
    /\ Release(w)
    /\ UNCHANGED <<payment, refund, ranOut>>

-----------------------------------------------------------------------------
(* What the other transactions write, for the booking b they are about.    *)

Set(var, b, value) == [var EXCEPT ![b] = value]

BeginPayment(w, b) ==
    /\ Has(w, "begin_payment")
    /\ booking[b] = "held" /\ b \notin late[w]
    /\ payment[b] = "none"
    /\ booking' = Set(booking, b, "payment_pending")
    /\ payment' = Set(payment, b, "initiated")
    /\ UNCHANGED refund

FinalizeOrder(w, b) ==
    /\ Has(w, "finalize_order")
    /\ payment' = Set(payment, b, IF booking[b] = "payment_pending" THEN "order_created" ELSE "failed")
    /\ UNCHANGED <<booking, refund>>

\* A booking that waits for the failed payment is a hold again, or expires.
Reopen(b, out) ==
    booking' = IF booking[b] = "payment_pending"
               THEN Set(booking, b, IF b \in out THEN "expired" ELSE "held")
               ELSE booking

CompensateOrderFailure(w, b) ==
    /\ Has(w, "compensate")
    /\ payment' = Set(payment, b, "no_order")
    /\ Reopen(b, late[w])
    /\ UNCHANGED refund

ApplyFailed(w, b) ==
    /\ Has(w, "failed")
    /\ payment' = Set(payment, b, "failed")
    /\ Reopen(b, ranOut)
    /\ UNCHANGED refund

ApplyCaptured(w, b) ==
    /\ Has(w, "captured")
    /\ payment' = Set(payment, b, "captured")
    /\ booking' = IF booking[b] = "payment_pending" THEN Set(booking, b, "confirmed") ELSE booking
    /\ UNCHANGED refund

\* An unpaid booking is cancelled without a look at its payment.
CancelUnpaid(w, b) ==
    /\ doing[w] = "cancel" /\ taken[w] = 1
    /\ \/ booking[b] = "held" /\ b \notin late[w]
       \/ booking[b] = "payment_pending"
    /\ booking' = Set(booking, b, "cancelled")
    /\ UNCHANGED <<payment, refund>>

CancelConfirmed(w, b) ==
    /\ Has(w, "cancel")
    /\ booking' = Set(booking, b, "cancelled")
    /\ refund' = Set(refund, b, "requested")
    /\ UNCHANGED payment

SettleRefund(b, outcome) ==
    /\ refund' = Set(refund, b, outcome)
    /\ payment' = IF outcome = "processed" THEN Set(payment, b, "refunded") ELSE payment
    /\ UNCHANGED booking

ApplyRefundEvent(w, b) ==
    \/ Has(w, "refund_processed") /\ SettleRefund(b, "processed")
    \/ Has(w, "refund_failed") /\ refund[b] # "processed" /\ SettleRefund(b, "failed")

\* Fault: the answer is recorded over what a webhook has settled.
Unsettled(b) == TRUE

IsRequested(b) == refund[b] = "requested"

FinalizeRefund(w, b) ==
    /\ Has(w, "finalize_refund")
    /\ IsRequested(b)
    /\ \E outcome \in {"pending", "failed", "processed"} : SettleRefund(b, outcome)

ApplyFetchedRefund(w, b) ==
    /\ Has(w, "reconcile")
    /\ refund[b] = "pending"
    /\ \E outcome \in {"failed", "processed"} : SettleRefund(b, outcome)

StartSession(w, b) ==
    /\ Has(w, "start_session")
    /\ \A c \in Bookings : booking[c] # "active"
    /\ booking' = Set(booking, b, "active")
    /\ UNCHANGED <<payment, refund>>

CompleteSession(w, b) ==
    /\ Has(w, "complete_session")
    /\ booking' = Set(booking, b, "completed")
    /\ UNCHANGED <<payment, refund>>

Writes(w, b) ==
    \/ BeginPayment(w, b) \/ FinalizeOrder(w, b) \/ CompensateOrderFailure(w, b)
    \/ ApplyFailed(w, b) \/ ApplyCaptured(w, b)
    \/ CancelUnpaid(w, b) \/ CancelConfirmed(w, b)
    \/ ApplyRefundEvent(w, b) \/ FinalizeRefund(w, b) \/ ApplyFetchedRefund(w, b)
    \/ StartSession(w, b) \/ CompleteSession(w, b)

\* An edit of the point or its station writes nothing that matters here.
CommitWrites(w) ==
    /\ subject[w] # Nobody
    /\ Writes(w, subject[w])
    /\ Release(w)
    /\ UNCHANGED ranOut

-----------------------------------------------------------------------------

Step(w) ==
    \/ \E op \in Operation, b \in Bookings \union {Nobody} : Begin(w, op, b)
    \/ LockNext(w) \/ StartUpdate(w) \/ CheckOverlap(w)
    \/ \E b \in Bookings : VisitRow(w, b)
    \/ \E S \in SUBSET Bookings : SelectBatch(w, S)
    \/ CommitExpiry(w) \/ CommitHold(w) \/ CommitWrites(w) \/ GiveUp(w)

Next ==
    \/ \E w \in Workers : Step(w)
    \/ \E b \in Bookings : RunOut(b)

Spec == Init /\ [][Next]_vars

-----------------------------------------------------------------------------
(* What must hold. *)

PhaseOf(b) ==
    CASE booking[b] = "absent" -> "free"
      [] booking[b] \in {"held", "payment_pending"} -> "reserved"
      [] booking[b] = "confirmed" -> "paid"
      [] booking[b] = "active" -> "in_use"
      [] booking[b] = "completed" -> "used"
      [] booking[b] \in {"cancelled", "expired"} -> "released"

Slots == INSTANCE SlotReservation WITH phase <- [b \in Bookings |-> PhaseOf(b)]

\* The locks alone keep the promise made about slots: with every statement a
\* step of its own and no exclusion constraint, a slot goes to one booking at a
\* time, and only a slot that is still reserved is paid for or used.
ReservesSlots == Slots!Spec

StageOf(b) ==
    CASE booking[b] = "absent" -> "none"
      [] booking[b] = "payment_pending" -> "waiting"
      [] booking[b] = "active" -> "in_use"
      [] booking[b] = "completed" -> "used"
      [] OTHER -> booking[b]

MoneyOf(b) ==
    CASE payment[b] = "none" -> "none"
      [] payment[b] \in Open -> "asked"
      [] payment[b] \in {"failed", "no_order"} -> "failed"
      [] payment[b] = "refunded" -> "returned"
      [] payment[b] = "captured" ->
            IF refund[b] = "none" THEN "taken"
            ELSE IF refund[b] = "failed" THEN "refused" ELSE "owed"

Ledger == INSTANCE PaymentLedger WITH
    Attempts <- Bookings,
    BookingFor <- [b \in Bookings |-> b],
    stage <- [b \in Bookings |-> StageOf(b)],
    money <- [b \in Bookings |-> MoneyOf(b)]

\* Transactions that lock the rows of bookings, payments and refunds one at a
\* time do with them what the atomic steps of ChargeMate do: both keep the same
\* ledger.  (_apply_payment_event, _prepare_cancellation, _finalize_refund)
KeepsLedger == Ledger!Spec

\* A booking waits for payment exactly while its attempt is open.  An expiry
\* that found the booking held, and then waited, does not take it back when it
\* is being paid meanwhile.  (_expire_stale_holds against _begin_payment_attempt)
AttemptsFollowBooking ==
    \A b \in Bookings :
        /\ booking[b] = "payment_pending" => payment[b] \in Open
        /\ booking[b] \in {"held", "expired"} => payment[b] \notin Open

\* Handlers that lock refund and payment in opposite orders still leave them
\* saying the same.  (_finalize_refund, _apply_refund_event)
RefundsAgree ==
    \A b \in Bookings :
        /\ refund[b] # "none" => booking[b] = "cancelled"
        /\ payment[b] = "refunded" <=> refund[b] = "processed"

Holders(rows) == {lockedBy[x] : x \in rows} \ {Nobody}

WaitsFor(w) ==
    IF Locking(w) /\ taken[w] < Len(PlanOf(w)) /\ Continues(w)
    THEN Holders({NextRow(w)})
    ELSE Holders({Row("bookings", b) : b \in visits[w]})

\* Each waits for another one in R, and is waited for.
Ring(R) ==
    \A w \in R : /\ WaitsFor(w) \intersect R # {}
                 /\ \E x \in R : w \in WaitsFor(x)

Deadlocked == {w \in Workers : \E R \in SUBSET Workers : w \in R /\ Ring(R)}

\* Payments, cancellations and the expiry job are never part of a deadlock, so
\* the database never ends one of them for it.  The webhook of a capture locks
\* payment before booking and a cancellation booking before payment, but a
\* booking is confirmed only when its capture is over.  The end of a session is
\* not among them: it locks its booking and then the point, a hold the point and
\* then stale bookings, and an expiry of one user's holds may stand between them.
\* (_apply_captured_payment against _prepare_cancellation)
PaymentsAreNotDeadlocked ==
    \A w \in Deadlocked :
        doing[w] \in {"hold", "read_bookings", "edit_point", "start_session", "complete_session",
                      "refund_processed", "refund_failed", "finalize_refund", "reconcile"}

=============================================================================
